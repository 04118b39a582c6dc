----------------------------- MODULE Interrupt -----------------------------
(***************************************************************************)
(* The command line's interruption guard.  While a temporary output is on  *)
(* disk a SIGINT handler removes it and exits with status 2.  The main     *)
(* thread and the handler share four atomics and one heap buffer holding   *)
(* the temporary's name; every load and store is sequentially consistent,  *)
(* so the model interleaves single accesses.                               *)
(*                                                                         *)
(* On Unix the handler runs on top of the main thread, which does not move *)
(* until the handler returns, and SIGINT is blocked meanwhile.  On Windows *)
(* each interruption runs on a thread of its own (own_thread).             *)
(***************************************************************************)
EXTENDS Naturals

CONSTANTS
    N,             \* bound: the outputs written, one after the other
    NameLen,       \* units in the name of each temporary
    Handlers,      \* the interruptions that may be delivered
    Dispositions   \* what SIGINT may be when the process starts

Files == 1..N
Main == "main"

ASSUME InterruptAssumption ==
    /\ N \in Nat \ {0}
    /\ NameLen \in [Files -> Nat \ {0}]
    /\ Dispositions \subseteq {"SIG_DFL", "SIG_IGN"}
    /\ Main \notin Handlers

Actors == {Main} \cup Handlers
Null == 0                  \* the null pointer; buffers are numbered from 1
Freed == 0                 \* what a dropped buffer holds; a name is its file
Partial == N + 1           \* a name without its terminator

VARIABLES
    own_thread,   \* whether a handler runs beside the main thread
    process,      \* "running", "exited" by itself, "interrupted" (status 2) or "killed"
    pc,           \* where each actor is
    file,         \* the output the main thread is at
    temporaries,  \* the temporaries on disk, by file
    disposition,  \* what the system does with SIGINT
    previous,     \* the disposition install's signal call returned
    guarded,      \* install succeeded for this file
    INHERITED, PUBLISHING, DEFERRED, HANDLING, ARTEFACT, BUFFER, CAPACITY,
    memory,       \* what each buffer holds: the file named, Partial or Freed
    path,         \* the pointer each actor loaded from ARTEFACT
    named         \* the file that pointer named when it was loaded

statics == <<INHERITED, PUBLISHING, DEFERRED, HANDLING, ARTEFACT>>
buffers == <<BUFFER, CAPACITY, memory>>
loaded == <<path, named>>
system == <<own_thread, process, file, temporaries, disposition, previous, guarded>>
vars == <<system, pc, statics, buffers, loaded>>

\* A handler on the main thread suspends it, and blocks further interruptions.
Handling(h) == pc[h] \notin {"none", "returned"}
Suspended == ~own_thread /\ \E h \in Handlers : Handling(h)

MainAt(label) == process = "running" /\ pc[Main] = label /\ ~Suspended
HandlerAt(h, label) == process = "running" /\ pc[h] = label
GoTo(p, label) == pc' = [pc EXCEPT ![p] = label]

Init ==
    /\ own_thread \in BOOLEAN
    /\ process = "running"
    /\ pc = [p \in Actors |-> IF p = Main THEN "install" ELSE "none"]
    /\ file = 1
    /\ temporaries = {}
    /\ disposition \in Dispositions
    /\ previous = "SIG_ERR"
    /\ guarded = FALSE
    /\ INHERITED = "SIG_ERR"
    /\ PUBLISHING = FALSE /\ DEFERRED = FALSE /\ HANDLING = FALSE
    /\ ARTEFACT = Null /\ BUFFER = Null /\ CAPACITY = 0
    /\ memory = [b \in Files |-> Freed]
    /\ path = [p \in Actors |-> Null]
    /\ named = [p \in Actors |-> Null]

-----------------------------------------------------------------------------
(* install: signal() may fail, which leaves the disposition alone.          *)

Install ==
    /\ MainAt("install")
    /\ \/ /\ INHERITED = "SIG_IGN"
          /\ guarded' = FALSE
          /\ GoTo(Main, "create")
          /\ UNCHANGED <<disposition, previous>>
       \/ /\ INHERITED # "SIG_IGN"
          /\ previous' = disposition
          /\ disposition' = "on_interrupt"
          /\ guarded' = TRUE
          /\ GoTo(Main, IF INHERITED = "SIG_ERR" THEN "put_back" ELSE "raise")
       \/ /\ INHERITED # "SIG_IGN"
          /\ previous' = "SIG_ERR"
          /\ guarded' = FALSE
          /\ GoTo(Main, "create")
          /\ UNCHANGED disposition
    /\ UNCHANGED <<own_thread, process, file, temporaries, statics, buffers, loaded>>

\* An ignore found on the first call is put straight back.
PutBackIgnore ==
    /\ MainAt("put_back")
    /\ disposition' = IF previous = "SIG_IGN" THEN "SIG_IGN" ELSE disposition
    /\ GoTo(Main, "remember")
    /\ UNCHANGED <<own_thread, process, file, temporaries, previous, guarded, statics,
                   buffers, loaded>>

RememberInherited ==
    /\ MainAt("remember")
    /\ INHERITED' = previous
    /\ guarded' = (previous # "SIG_IGN")
    /\ GoTo(Main, IF previous = "SIG_IGN" THEN "create" ELSE "raise")
    /\ UNCHANGED <<own_thread, process, file, temporaries, disposition, previous,
                   PUBLISHING, DEFERRED, HANDLING, ARTEFACT, buffers, loaded>>

-----------------------------------------------------------------------------
(* create_guarded and publish.                                              *)

RaisePublishing_late ==
    /\ MainAt("raise")
    /\ GoTo(Main, "create")
    /\ UNCHANGED <<system, statics, buffers, loaded>>

RaisePublishing ==
    /\ MainAt("raise")
    /\ PUBLISHING' = TRUE
    /\ GoTo(Main, "create")
    /\ UNCHANGED <<system, INHERITED, DEFERRED, HANDLING, ARTEFACT, buffers, loaded>>

\* create(): the file is on disk, or the attempt failed.  A failure returns
\* without clear(), so the handler stays in place with nothing published.
Create ==
    /\ MainAt("create")
    /\ \/ /\ temporaries' = temporaries \cup {file}
          /\ GoTo(Main, IF guarded THEN "withdraw" ELSE "fill")
       \/ /\ GoTo(Main, IF guarded THEN "lower" ELSE "next")
          /\ UNCHANGED temporaries
    /\ UNCHANGED <<own_thread, process, file, disposition, previous, guarded, statics,
                   buffers, loaded>>

\* publish: ARTEFACT is cleared first and HANDLING read second.
Withdraw ==
    /\ MainAt("withdraw")
    /\ ARTEFACT' = Null
    /\ GoTo(Main, "read_handling")
    /\ UNCHANGED <<system, INHERITED, PUBLISHING, DEFERRED, HANDLING, buffers, loaded>>

ReadHandling_ignored ==
    /\ MainAt("read_handling")
    /\ GoTo(Main, "copy")
    /\ UNCHANGED <<system, statics, buffers, loaded>>

ReadHandling ==
    /\ MainAt("read_handling")
    /\ GoTo(Main, IF HANDLING THEN "lower" ELSE "copy")
    /\ UNCHANGED <<system, statics, buffers, loaded>>

next_power_of_two(n) == CHOOSE g \in {2 ^ k : k \in 0 .. n} : g >= n /\ g < 2 * n

\* The name is copied into the buffer, or into a larger one; the one outgrown
\* is dropped.  The terminator is written last.
CopyName ==
    /\ MainAt("copy")
    /\ LET needed == NameLen[file] + 1 IN
       IF needed > CAPACITY
       THEN \E fresh \in Files :
              /\ fresh # BUFFER /\ memory[fresh] = Freed
              /\ BUFFER' = fresh
              /\ CAPACITY' = next_power_of_two(needed)
              /\ memory' = [b \in Files |-> IF b = fresh THEN Partial
                                            ELSE IF b = BUFFER THEN Freed ELSE memory[b]]
       ELSE /\ memory' = [memory EXCEPT ![BUFFER] = Partial]
            /\ UNCHANGED <<BUFFER, CAPACITY>>
    /\ GoTo(Main, "terminate")
    /\ UNCHANGED <<system, statics, loaded>>

Terminate ==
    /\ MainAt("terminate")
    /\ memory' = [memory EXCEPT ![BUFFER] = file]
    /\ GoTo(Main, "publish")
    /\ UNCHANGED <<system, statics, BUFFER, CAPACITY, loaded>>

Publish ==
    /\ MainAt("publish")
    /\ ARTEFACT' = BUFFER
    /\ GoTo(Main, "lower")
    /\ UNCHANGED <<system, INHERITED, PUBLISHING, DEFERRED, HANDLING, buffers, loaded>>

LowerPublishing ==
    /\ MainAt("lower")
    /\ PUBLISHING' = FALSE
    /\ GoTo(Main, "read_deferred")
    /\ UNCHANGED <<system, INHERITED, DEFERRED, HANDLING, ARTEFACT, buffers, loaded>>

\* An interruption that was left to create_guarded is handled here.
ReadDeferred_dropped ==
    /\ MainAt("read_deferred")
    /\ GoTo(Main, IF file \in temporaries THEN "fill" ELSE "next")
    /\ UNCHANGED <<system, statics, buffers, loaded>>

ReadDeferred ==
    /\ MainAt("read_deferred")
    /\ GoTo(Main, IF DEFERRED THEN "handle"
                  ELSE IF file \in temporaries THEN "fill" ELSE "next")
    /\ UNCHANGED <<system, statics, buffers, loaded>>

-----------------------------------------------------------------------------
(* The output is written, and renamed into place or removed; then clear().  *)

FillAndReplace ==
    /\ MainAt("fill")
    /\ temporaries' = temporaries \ {file}
    /\ GoTo(Main, "clear")
    /\ UNCHANGED <<own_thread, process, file, disposition, previous, guarded, statics,
                   buffers, loaded>>

Clear ==
    /\ MainAt("clear")
    /\ ARTEFACT' = Null
    /\ GoTo(Main, "restore")
    /\ UNCHANGED <<system, INHERITED, PUBLISHING, DEFERRED, HANDLING, buffers, loaded>>

\* A second clear(), before a source is removed, finds both already done.
RestoreInherited ==
    /\ MainAt("restore")
    /\ disposition' = IF INHERITED \in {"SIG_IGN", "SIG_ERR"} THEN disposition ELSE INHERITED
    /\ GoTo(Main, "next")
    /\ UNCHANGED <<own_thread, process, file, temporaries, previous, guarded, statics,
                   buffers, loaded>>

NextFile ==
    /\ MainAt("next")
    /\ IF file + 1 \in Files
       THEN file' = file + 1 /\ GoTo(Main, "install") /\ UNCHANGED process
       ELSE process' = "exited" /\ GoTo(Main, "done") /\ UNCHANGED file
    /\ guarded' = FALSE
    /\ UNCHANGED <<own_thread, temporaries, disposition, previous, statics, buffers, loaded>>

-----------------------------------------------------------------------------
(* An interruption: on_interrupt, and end_interrupted, which main runs too. *)

\* The system delivers the signal to the handler.
Deliver(h) ==
    /\ HandlerAt(h, "none") /\ ~Suspended
    /\ disposition = "on_interrupt"
    /\ GoTo(h, "defer")
    /\ UNCHANGED <<system, statics, buffers, loaded>>

\* The system takes the default action.
Kill ==
    /\ process = "running" /\ ~Suspended
    /\ disposition = "SIG_DFL"
    /\ \E h \in Handlers : pc[h] = "none"
    /\ process' = "killed"
    /\ UNCHANGED <<own_thread, file, temporaries, disposition, previous, guarded, pc, statics,
                   buffers, loaded>>

RaiseDeferred(h) ==
    /\ HandlerAt(h, "defer")
    /\ DEFERRED' = TRUE
    /\ GoTo(h, "read_publishing")
    /\ UNCHANGED <<system, INHERITED, PUBLISHING, HANDLING, ARTEFACT, buffers, loaded>>

ReadPublishing(h) ==
    /\ HandlerAt(h, "read_publishing")
    /\ GoTo(h, IF PUBLISHING THEN "returned" ELSE "handle")
    /\ UNCHANGED <<system, statics, buffers, loaded>>

\* remove_published, by a handler or by the main thread.
ActorAt(p, label) == IF p = Main THEN MainAt(label) ELSE HandlerAt(p, label)

RaiseHandling(p) ==
    /\ ActorAt(p, "handle")
    /\ HANDLING' = TRUE
    /\ GoTo(p, "load")
    /\ UNCHANGED <<system, INHERITED, PUBLISHING, DEFERRED, ARTEFACT, buffers, loaded>>

LoadArtefact(p) ==
    /\ ActorAt(p, "load")
    /\ path' = [path EXCEPT ![p] = ARTEFACT]
    /\ named' = [named EXCEPT ![p] = IF ARTEFACT = Null THEN Null ELSE memory[ARTEFACT]]
    /\ GoTo(p, IF ARTEFACT = Null THEN "exit" ELSE "unlink")
    /\ UNCHANGED <<system, statics, buffers>>

Unlink(p) ==
    /\ ActorAt(p, "unlink")
    /\ temporaries' = temporaries \ {memory[path[p]]}
    /\ GoTo(p, "exit")
    /\ UNCHANGED <<own_thread, process, file, disposition, previous, guarded, statics,
                   buffers, loaded>>

Exit(p) ==
    /\ ActorAt(p, "exit")
    /\ process' = "interrupted"
    /\ UNCHANGED <<own_thread, file, temporaries, disposition, previous, guarded, pc, statics,
                   buffers, loaded>>

MainStep ==
    \/ Install \/ PutBackIgnore \/ RememberInherited \/ RaisePublishing \/ Create
    \/ Withdraw \/ ReadHandling \/ CopyName \/ Terminate \/ Publish
    \/ LowerPublishing \/ ReadDeferred \/ FillAndReplace \/ Clear
    \/ RestoreInherited \/ NextFile

EndInterrupted(p) == RaiseHandling(p) \/ LoadArtefact(p) \/ Unlink(p) \/ Exit(p)

HandlerStep(h) == RaiseDeferred(h) \/ ReadPublishing(h) \/ EndInterrupted(h)

Next ==
    \/ MainStep
    \/ EndInterrupted(Main)
    \/ Kill
    \/ \E h \in Handlers : Deliver(h) \/ HandlerStep(h)

\* The main thread and a running handler are scheduled; nothing makes an
\* interruption come.
Spec ==
    /\ Init /\ [][Next]_vars
    /\ WF_vars(MainStep \/ EndInterrupted(Main))
    /\ \A h \in Handlers : WF_vars(HandlerStep(h))

-----------------------------------------------------------------------------
(* Properties                                                               *)

Labels ==
    {"install", "put_back", "remember", "raise", "create", "withdraw", "read_handling", "copy",
     "terminate", "publish", "lower", "read_deferred", "fill", "clear", "restore", "next",
     "done", "none", "defer", "read_publishing", "returned", "handle", "load", "unlink", "exit"}

\* Every variable keeps its type.  INHERITED never holds on_interrupt: the handler
\* would then be restored as the disposition to go back to.
TypeOK ==
    /\ own_thread \in BOOLEAN
    /\ process \in {"running", "exited", "interrupted", "killed"}
    /\ pc \in [Actors -> Labels]
    /\ file \in Files
    /\ temporaries \subseteq Files
    /\ disposition \in {"SIG_DFL", "SIG_IGN", "on_interrupt"}
    /\ previous \in {"SIG_DFL", "SIG_IGN", "SIG_ERR", "on_interrupt"}
    /\ INHERITED \in {"SIG_DFL", "SIG_IGN", "SIG_ERR"}
    /\ guarded \in BOOLEAN /\ PUBLISHING \in BOOLEAN
    /\ DEFERRED \in BOOLEAN /\ HANDLING \in BOOLEAN
    /\ ARTEFACT \in Files \cup {Null} /\ BUFFER \in Files \cup {Null}
    /\ memory \in [Files -> Nat]
    /\ path \in [Actors -> Files \cup {Null}]
    /\ named \in [Actors -> Nat]

\* "No name is rewritten, or freed, under the handler": whoever is about to
\* unlink finds in the buffer the whole name it was handed, and that name was
\* whole when it was loaded.
NameStable ==
    \A p \in Actors : pc[p] = "unlink" =>
        named[p] \in Files /\ memory[path[p]] = named[p]

\* Where the handler runs on top of the main thread, an interruption leaves no
\* temporary behind, whatever it interrupted, as long as the guard could be
\* installed ("no moment passes with the temporary on disk and no name for the
\* handler to remove").
NoTemporaryLeft ==
    ~own_thread /\ process \in {"interrupted", "killed"} /\ guarded => temporaries = {}

\* An interruption that reaches the handler ends the process with status 2, also
\* one that arrives while the name is being published and is left to
\* create_guarded: the run never carries on to report success.  Beside a handler on
\* its own thread the main thread may come to its own end first.
InterruptionEnds ==
    DEFERRED ~> (process = "interrupted" \/ (own_thread /\ process # "running"))
=============================================================================
