------------------------- MODULE Interrupt_proofs -------------------------
(***************************************************************************)
(* No name is rewritten or freed under a handler, and where the handler    *)
(* runs on top of the main thread no temporary outlives an interruption,   *)
(* for any number of outputs, names and interruptions.                     *)
(***************************************************************************)
EXTENDS Interrupt, TLAPS

\* What install leaves of the disposition: until an inherited one is known, the
\* handler can only have been put in place by the call under way.
Dispositioned ==
    /\ pc[Main] \in {"put_back", "remember"} =>
         /\ INHERITED = "SIG_ERR"
         /\ previous \in {"SIG_DFL", "SIG_IGN"}
    /\ INHERITED = "SIG_ERR" /\ pc[Main] \notin {"put_back", "remember"} =>
         disposition # "on_interrupt"
    /\ pc[Main] = "put_back" => disposition = "on_interrupt"
    /\ pc[Main] = "remember" /\ previous # "SIG_IGN" => disposition = "on_interrupt"

\* Where publish holds the name back from the handler, and where it changes it.
Withdrawn == {"read_handling", "copy", "terminate", "publish"}
Rewriting == {"copy", "terminate", "publish"}

\* The hand-shake over the name.  Whoever holds a pointer raised HANDLING before
\* it loaded it, and the name is changed only after ARTEFACT was withdrawn and
\* HANDLING then read as FALSE.
HandShake ==
    /\ \A p \in Actors : pc[p] \in {"load", "unlink", "exit"} => HANDLING
    /\ pc[Main] \in Withdrawn => ARTEFACT = Null
    /\ pc[Main] \in Rewriting => \A p \in Actors : pc[p] # "unlink"
    /\ pc[Main] \in {"terminate", "publish"} => BUFFER # Null
    /\ pc[Main] = "publish" => memory[BUFFER] = file
    /\ BUFFER = Null => CAPACITY = 0
    /\ ARTEFACT # Null => ARTEFACT = BUFFER /\ memory[ARTEFACT] \in Files
    /\ \A p \in Actors : pc[p] = "unlink" =>
         path[p] \in Files /\ named[p] \in Files /\ memory[path[p]] = named[p]

NameInv == TypeOK /\ Dispositioned /\ HandShake

\* Where the main thread may have a temporary on disk, where PUBLISHING is up, and
\* where the name is published.
Holding ==
    Withdrawn \cup {"withdraw", "lower", "read_deferred", "handle", "load", "unlink", "exit", "fill"}
Raised == Withdrawn \cup {"create", "withdraw", "lower"}
Published == {"lower", "read_deferred", "handle", "load", "unlink", "exit", "fill"}

\* A guarded temporary is on disk only while the handler is in place, and either
\* PUBLISHING is up or its name is published.
Covered ==
    /\ temporaries \subseteq {file}
    /\ temporaries # {} => pc[Main] \in Holding
    /\ guarded /\ pc[Main] \in Raised => PUBLISHING
    /\ guarded /\ pc[Main] \in Holding \cup {"raise", "create"} => disposition = "on_interrupt"

\* On the main thread one handler runs at a time and main does not move under it: what
\* it read of PUBLISHING still holds, and so does the name it loaded.
OnTop ==
    /\ \A g, h \in Handlers : Handling(g) /\ Handling(h) => g = h
    /\ HANDLING => \E p \in Actors : pc[p] \in {"load", "unlink", "exit"}
    /\ \A h \in Handlers : pc[h] \in {"handle", "load", "unlink", "exit"} => ~PUBLISHING
    /\ guarded /\ pc[Main] \in Published /\ temporaries # {} =>
         ARTEFACT # Null /\ memory[ARTEFACT] = file
    /\ \A p \in Actors : pc[p] = "unlink" => path[p] = ARTEFACT
    /\ \A p \in Actors : pc[p] = "exit" /\ guarded => temporaries = {}

GuardInv ==
    /\ NameInv /\ Covered /\ NoTemporaryLeft
    /\ ~own_thread /\ process = "running" => OnTop

-----------------------------------------------------------------------------
(* The disposition and the types                                            *)

USE DEF Null, Freed, Partial, MainAt, HandlerAt, ActorAt, GoTo, statics, buffers, loaded, system

\* The process starts with every variable of its type and no name published.
LEMMA InitNames == Init => NameInv
<1> SUFFICES ASSUME Init PROVE NameInv
    BY Zenon
<1>1. TypeOK
  <2>1. pc \in [Actors -> Labels]
    BY Zenon DEF Init, Labels
  <2>2. 1 \in Files /\ 0 \in Nat
    BY InterruptAssumption DEF Files
  <2> QED BY <2>1, <2>2, InterruptAssumption, Zenon DEF Init, TypeOK
<1>2. Dispositioned
    BY InterruptAssumption, Zenon DEF Init, Dispositioned, Actors
<1>3. HandShake
    BY InterruptAssumption, Zenon DEF Init, HandShake, Withdrawn, Rewriting, Actors
<1> QED BY <1>1, <1>2, <1>3, Zenon DEF NameInv

\* Every step leaves its actor at one of the labels.
LEMMA StepLabels == TypeOK /\ [Next]_vars => pc' \in [Actors -> Labels]
<1> SUFFICES ASSUME TypeOK, [Next]_vars PROVE pc' \in [Actors -> Labels]
    BY Zenon
<1>1. CASE UNCHANGED pc
    BY <1>1, Zenon DEF TypeOK
<1>2. CASE \E p \in Actors, l \in Labels : pc' = [pc EXCEPT ![p] = l]
    BY <1>2, Zenon DEF TypeOK
<1>3. ASSUME MainStep PROVE \E l \in Labels : pc' = [pc EXCEPT ![Main] = l]
    BY <1>3, Zenon DEF MainStep, Install, PutBackIgnore, RememberInherited, RaisePublishing, Create,
         Withdraw, ReadHandling, CopyName, Terminate, Publish, LowerPublishing, ReadDeferred,
         FillAndReplace, Clear, RestoreInherited, NextFile, Labels
<1>4. ASSUME NEW p \in Actors, EndInterrupted(p)
      PROVE  UNCHANGED pc \/ \E l \in Labels : pc' = [pc EXCEPT ![p] = l]
    BY <1>4, Zenon DEF EndInterrupted, RaiseHandling, LoadArtefact, Unlink, Exit, Labels
<1>5. ASSUME NEW h \in Handlers, Deliver(h) \/ RaiseDeferred(h) \/ ReadPublishing(h)
      PROVE  \E l \in Labels : pc' = [pc EXCEPT ![h] = l]
    BY <1>5, Zenon DEF Deliver, RaiseDeferred, ReadPublishing, Labels
<1>6. CASE Kill
    BY <1>6, <1>1, Zenon DEF Kill
<1>7. Main \in Actors /\ Handlers \subseteq Actors
    BY Zenon DEF Actors
<1> QED BY <1>1, <1>2, <1>3, <1>4, <1>5, <1>6, <1>7, Zenon DEF Next, HandlerStep, vars

\* A step keeps every type.
LEMMA StepTypes == NameInv /\ [Next]_vars => TypeOK'
<1> SUFFICES ASSUME NameInv, [Next]_vars PROVE TypeOK'
    BY Zenon
<1>0. pc' \in [Actors -> Labels]
    BY StepLabels, Zenon DEF NameInv
<1>a. Files \subseteq Nat /\ Partial \in Nat
    BY InterruptAssumption DEF Files
<1> USE <1>0 DEF TypeOK
<1>1. CASE UNCHANGED vars
    BY <1>1 DEF NameInv, vars
<1>2. CASE Install
    BY <1>2, ZenonT(40) DEF NameInv, Install
<1>3. CASE PutBackIgnore
    BY <1>3 DEF NameInv, PutBackIgnore
<1>4. CASE RememberInherited
    BY <1>4 DEF NameInv, RememberInherited, Dispositioned
<1>5. CASE RaisePublishing
    BY <1>5 DEF NameInv, RaisePublishing
<1>6. CASE Create
    BY <1>6 DEF NameInv, Create
<1>7. CASE Withdraw
    BY <1>7 DEF NameInv, Withdraw
<1>8. CASE CopyName
  <2>1. BUFFER' \in Files \cup {Null} /\ memory' \in [Files -> Nat]
    <3>1. CASE NameLen[file] + 1 > CAPACITY
        BY <1>8, <1>a, <3>1, Zenon DEF NameInv, CopyName
    <3>2. CASE ~(NameLen[file] + 1 > CAPACITY)
        BY <1>8, <1>a, <3>2, Zenon DEF NameInv, CopyName
    <3> QED BY <3>1, <3>2, Zenon
  <2> QED BY <1>8, <2>1 DEF NameInv, CopyName
<1>9. CASE Terminate
  <2>1. memory' \in [Files -> Nat]
    <3> file \in Nat /\ memory \in [Files -> Nat]
        BY <1>a, Zenon DEF NameInv
    <3> QED BY <1>9, Zenon DEF Terminate
  <2> QED BY <1>9, <2>1 DEF NameInv, Terminate
<1>10. CASE FillAndReplace \/ RestoreInherited
    BY <1>10 DEF NameInv, FillAndReplace, RestoreInherited
<1>11. CASE NextFile
  <2>1. file' \in Files /\ process' \in {"running", "exited", "interrupted", "killed"}
    BY <1>11, Zenon DEF NameInv, NextFile
  <2>2. /\ guarded' = FALSE
        /\ UNCHANGED <<own_thread, temporaries, disposition, previous, statics, buffers, loaded>>
    BY <1>11, Zenon DEF NextFile
  <2> QED BY <2>1, <2>2, ZenonT(40) DEF NameInv
<1>12. CASE Kill
    BY <1>12 DEF NameInv, Kill
<1>13. CASE Publish
    BY <1>13 DEF NameInv, Publish
<1>14. CASE LowerPublishing
    BY <1>14, ZenonT(40) DEF NameInv, LowerPublishing
<1>15. CASE ReadHandling \/ ReadDeferred
    BY <1>15 DEF NameInv, ReadHandling, ReadDeferred
<1>16. CASE Clear
    BY <1>16 DEF NameInv, Clear
<1>17. ASSUME NEW p \in Actors, RaiseHandling(p) PROVE TypeOK'
    BY <1>17 DEF NameInv, RaiseHandling
<1>18. ASSUME NEW p \in Actors, LoadArtefact(p) PROVE TypeOK'
    BY <1>18, <1>a DEF NameInv, LoadArtefact
<1>19. ASSUME NEW p \in Actors, Unlink(p) PROVE TypeOK'
    BY <1>19 DEF NameInv, Unlink
<1>20. ASSUME NEW p \in Actors, Exit(p) PROVE TypeOK'
    BY <1>20 DEF NameInv, Exit
<1>21. ASSUME NEW h \in Handlers, Deliver(h) \/ ReadPublishing(h) PROVE TypeOK'
    BY <1>21 DEF NameInv, Deliver, ReadPublishing
<1>22. ASSUME NEW h \in Handlers, RaiseDeferred(h) PROVE TypeOK'
    BY <1>22 DEF NameInv, RaiseDeferred
<1>23. Main \in Actors /\ Handlers \subseteq Actors
    BY Zenon DEF Actors
<1> QED
    BY <1>1, <1>2, <1>3, <1>4, <1>5, <1>6, <1>7, <1>8, <1>9, <1>10, <1>11, <1>12, <1>13,
       <1>14, <1>15, <1>16, <1>17, <1>18, <1>19, <1>20, <1>21, <1>22, <1>23, Zenon
    DEF Next, MainStep, HandlerStep, EndInterrupted

\* Only install and clear change the disposition and what is remembered of it.
LEMMA StepDisposition == NameInv /\ [Next]_vars => Dispositioned'
<1> SUFFICES ASSUME NameInv, [Next]_vars PROVE Dispositioned'
    BY Zenon
<1> Main \in Actors /\ Main \notin Handlers
    BY InterruptAssumption, Zenon DEF Actors
<1> USE DEF NameInv, TypeOK, Dispositioned
<1>1. CASE Install
    BY <1>1, Zenon DEF Install
<1>2. CASE PutBackIgnore
    BY <1>2, Zenon DEF PutBackIgnore
<1>3. CASE RememberInherited
    BY <1>3, Zenon DEF RememberInherited
<1>4. CASE RestoreInherited
    BY <1>4, Zenon DEF RestoreInherited
<1>5. CASE /\ UNCHANGED <<INHERITED, previous, disposition>>
           /\ \/ pc'[Main] = pc[Main]
              \/ {pc[Main], pc'[Main]} \cap {"put_back", "remember"} = {}
    BY <1>5, Zenon
<1>6. CASE RaisePublishing \/ Create \/ Withdraw \/ ReadHandling \/ CopyName \/ Terminate \/ Publish
    BY <1>6, <1>5 DEF RaisePublishing, Create, Withdraw, ReadHandling, CopyName, Terminate, Publish
<1>7. CASE LowerPublishing \/ ReadDeferred \/ FillAndReplace \/ Clear \/ NextFile
    BY <1>7, <1>5 DEF LowerPublishing, ReadDeferred, FillAndReplace, Clear, NextFile
<1>8. ASSUME NEW p \in Actors, EndInterrupted(p) PROVE Dispositioned'
    BY <1>8, <1>5, Zenon DEF EndInterrupted, RaiseHandling, LoadArtefact, Unlink, Exit
<1>9. ASSUME NEW h \in Handlers, Deliver(h) \/ RaiseDeferred(h) \/ ReadPublishing(h)
      PROVE  Dispositioned'
    BY <1>9, <1>5, Zenon DEF Deliver, RaiseDeferred, ReadPublishing
<1>10. CASE Kill \/ UNCHANGED vars
    BY <1>10, <1>5, Zenon DEF Kill, vars
<1>11. Handlers \subseteq Actors
    BY Zenon DEF Actors
<1> QED
    BY <1>1, <1>2, <1>3, <1>4, <1>6, <1>7, <1>8, <1>9, <1>10, <1>11, Zenon
    DEF Next, MainStep, HandlerStep

-----------------------------------------------------------------------------
(* The hand-shake over the name                                             *)

\* The name is copied only while nobody holds it: publish goes on to copy only
\* when HANDLING was not raised, and then a handler finds ARTEFACT withdrawn.
LEMMA StepHandShake == NameInv /\ [Next]_vars => HandShake'
<1> SUFFICES ASSUME NameInv, [Next]_vars PROVE HandShake'
    BY Zenon
<1> /\ Main \in Actors /\ Main \notin Handlers /\ Handlers \subseteq Actors
    /\ Files \subseteq Nat \ {0}
    BY InterruptAssumption DEF Actors, Files
<1> USE DEF NameInv, TypeOK, HandShake, Withdrawn, Rewriting
<1>1. CASE /\ UNCHANGED <<HANDLING, ARTEFACT, BUFFER, CAPACITY, memory, path, named>>
           /\ \/ UNCHANGED <<pc, file>>
              \/ \E p \in Actors, l \in Labels \ (Withdrawn \cup {"load", "unlink"}) :
                    /\ pc' = [pc EXCEPT ![p] = l]
                    /\ l = "exit" => pc[p] = "unlink"
                    /\ file' = file \/ p = Main
    BY <1>1
<1>2. CASE Install \/ PutBackIgnore \/ RememberInherited \/ RaisePublishing \/ Create
    BY <1>2 DEF Install, PutBackIgnore, RememberInherited, RaisePublishing, Create
<1>3. CASE Withdraw
    BY <1>3, Zenon DEF Withdraw
<1>4. CASE ReadHandling
    BY <1>4 DEF ReadHandling
<1>5. CASE CopyName
    BY <1>5, InterruptAssumption DEF CopyName
<1>6. CASE Terminate
    BY <1>6, Zenon DEF Terminate
<1>7. CASE Publish
    BY <1>7, Zenon DEF Publish
<1>8. CASE LowerPublishing \/ ReadDeferred \/ FillAndReplace \/ RestoreInherited \/ NextFile
    BY <1>8 DEF LowerPublishing, ReadDeferred, FillAndReplace, RestoreInherited, NextFile
<1>9. CASE Clear
    BY <1>9, Zenon DEF Clear
<1>10. ASSUME NEW p \in Actors, RaiseHandling(p) PROVE HandShake'
    BY <1>10, Zenon DEF RaiseHandling
<1>11. ASSUME NEW p \in Actors, LoadArtefact(p) PROVE HandShake'
    BY <1>11 DEF LoadArtefact
<1>12. ASSUME NEW p \in Actors, Unlink(p) \/ Exit(p) PROVE HandShake'
    BY <1>12 DEF Unlink, Exit
<1>13. ASSUME NEW h \in Handlers, Deliver(h) \/ RaiseDeferred(h) \/ ReadPublishing(h)
       PROVE  HandShake'
    BY <1>13 DEF Deliver, RaiseDeferred, ReadPublishing
<1>14. CASE Kill \/ UNCHANGED vars
    BY <1>14, <1>1, Zenon DEF Kill, vars
<1> QED
    BY <1>2, <1>3, <1>4, <1>5, <1>6, <1>7, <1>8, <1>9, <1>10, <1>11, <1>12, <1>13, <1>14, Zenon
    DEF Next, MainStep, HandlerStep, EndInterrupted

\* NameInv is inductive.
LEMMA StepNames == NameInv /\ [Next]_vars => NameInv'
BY StepTypes, StepDisposition, StepHandShake, Zenon DEF NameInv

\* No name is rewritten or freed under a handler: whoever is about to unlink finds
\* the whole name it was handed, on either platform and with any interruptions.
THEOREM NameTheorem == Spec => []NameStable
<1>1. NameInv => NameStable
    BY Zenon DEF NameInv, HandShake, NameStable
<1> QED BY InitNames, StepNames, <1>1, PTL DEF Spec

\* Types hold throughout: INHERITED never remembers the handler itself, and every
\* pointer is null or a buffer.
THEOREM TypeCorrect == Spec => []TypeOK
<1>1. NameInv => TypeOK
    BY Zenon DEF NameInv
<1> QED BY InitNames, StepNames, <1>1, PTL DEF Spec

-----------------------------------------------------------------------------
(* No temporary outlives an interruption                                    *)

\* A temporary comes with PUBLISHING up and the handler in place.
LEMMA StepCovered == GuardInv /\ [Next]_vars => Covered'
<1> SUFFICES ASSUME GuardInv, [Next]_vars PROVE Covered'
    BY Zenon
<1> /\ Main \in Actors /\ Main \notin Handlers /\ Handlers \subseteq Actors
    BY InterruptAssumption, Zenon DEF Actors
<1> USE DEF GuardInv, NameInv, TypeOK, Covered, Holding, Raised, Withdrawn
<1>1. CASE Install \/ PutBackIgnore
    BY <1>1, Zenon DEF Install, PutBackIgnore
<1>2. CASE RememberInherited
    BY <1>2, Zenon DEF RememberInherited, Dispositioned
<1>3. CASE RaisePublishing \/ Create
    BY <1>3 DEF RaisePublishing, Create
<1>4. CASE Withdraw \/ ReadHandling \/ CopyName \/ Terminate \/ Publish
    BY <1>4 DEF Withdraw, ReadHandling, CopyName, Terminate, Publish
<1>5. CASE LowerPublishing \/ ReadDeferred \/ FillAndReplace
    BY <1>5 DEF LowerPublishing, ReadDeferred, FillAndReplace
<1>6. CASE Clear \/ RestoreInherited \/ NextFile
    BY <1>6, Zenon DEF Clear, RestoreInherited, NextFile
<1>7. ASSUME NEW p \in Actors, RaiseHandling(p) \/ LoadArtefact(p) PROVE Covered'
    BY <1>7 DEF RaiseHandling, LoadArtefact
<1>8. ASSUME NEW p \in Actors, Unlink(p) \/ Exit(p) PROVE Covered'
    BY <1>8 DEF Unlink, Exit
<1>9. ASSUME NEW h \in Handlers, Deliver(h) \/ RaiseDeferred(h) \/ ReadPublishing(h)
      PROVE  Covered'
    BY <1>9 DEF Deliver, RaiseDeferred, ReadPublishing
<1>10. CASE Kill \/ UNCHANGED vars
    BY <1>10 DEF Kill, vars
<1> QED
    BY <1>1, <1>2, <1>3, <1>4, <1>5, <1>6, <1>7, <1>8, <1>9, <1>10, Zenon
    DEF Next, MainStep, HandlerStep, EndInterrupted

\* The main thread moves only when no handler is on top of it, and a handler changes
\* nothing the main thread stands on.
LEMMA StepOnTop ==
    ASSUME GuardInv, [Next]_vars, ~own_thread', process' = "running"
    PROVE  OnTop'
<1> /\ Main \in Actors /\ Main \notin Handlers /\ Handlers \subseteq Actors
    /\ Files \subseteq Nat \ {0} /\ Actors = {Main} \cup Handlers
    BY InterruptAssumption DEF Actors, Files
<1>a. process = "running" /\ ~own_thread
  <2>1. CASE MainStep
    BY <2>1 DEF MainStep, Install, PutBackIgnore, RememberInherited, RaisePublishing, Create,
       Withdraw, ReadHandling, CopyName, Terminate, Publish, LowerPublishing, ReadDeferred,
       FillAndReplace, Clear, RestoreInherited, NextFile
  <2>2. ASSUME NEW p \in Actors, EndInterrupted(p) PROVE process = "running" /\ ~own_thread
    <3>1. CASE RaiseHandling(p)
      BY <3>1, Zenon DEF RaiseHandling
    <3>2. CASE LoadArtefact(p)
      BY <3>2, Zenon DEF LoadArtefact
    <3>3. CASE Unlink(p)
      BY <3>3, Zenon DEF Unlink
    <3>4. CASE Exit(p)
      BY <3>4, Zenon DEF Exit
    <3> QED BY <2>2, <3>1, <3>2, <3>3, <3>4, Zenon DEF EndInterrupted
  <2>3. ASSUME NEW h \in Handlers, Deliver(h) \/ RaiseDeferred(h) \/ ReadPublishing(h)
        PROVE  process = "running" /\ ~own_thread
    BY <2>3 DEF Deliver, RaiseDeferred, ReadPublishing
  <2>4. CASE Kill \/ UNCHANGED vars
    BY <2>4 DEF Kill, vars
  <2> QED BY <2>1, <2>2, <2>3, <2>4, Zenon DEF Next, HandlerStep
<1>b. OnTop
    BY <1>a, Zenon DEF GuardInv
<1>c. ASSUME NEW l, MainAt(l) PROVE \A h \in Handlers : ~Handling(h)
    BY <1>a, <1>c, Zenon DEF Suspended
<1> USE <1>a, <1>b DEF GuardInv, NameInv, TypeOK, OnTop, Published, Handling
<1>1. CASE Install
    BY <1>1, <1>c DEF Install, Covered, Holding, Withdrawn
<1>2. CASE PutBackIgnore \/ RememberInherited
    BY <1>2, <1>c DEF PutBackIgnore, RememberInherited, Covered, Holding, Withdrawn
<1>3. CASE RaisePublishing \/ Create
    BY <1>3, <1>c DEF RaisePublishing, Create, Covered, Holding, Withdrawn
<1>4. CASE Withdraw
    BY <1>4, <1>c DEF Withdraw
<1>5. CASE ReadHandling
    BY <1>5, <1>c DEF ReadHandling
<1>6. CASE CopyName
    BY <1>6, <1>c DEF CopyName
<1>7. CASE Terminate
    BY <1>7, <1>c DEF Terminate
<1>8. CASE Publish
    BY <1>8, <1>c DEF Publish, HandShake, Covered
<1>9. CASE LowerPublishing \/ ReadDeferred
    BY <1>9, <1>c DEF LowerPublishing, ReadDeferred
<1>10. CASE FillAndReplace \/ Clear \/ RestoreInherited \/ NextFile
    BY <1>10, <1>c DEF FillAndReplace, Clear, RestoreInherited, NextFile
<1>11. ASSUME NEW p \in Actors, RaiseHandling(p) PROVE OnTop'
    BY <1>11, <1>c DEF RaiseHandling
<1>12. ASSUME NEW p \in Actors, LoadArtefact(p) PROVE OnTop'
    BY <1>12, <1>c DEF LoadArtefact, Covered, Holding, Raised, Withdrawn
<1>13. ASSUME NEW p \in Actors, Unlink(p) PROVE OnTop'
  <2>1. guarded /\ temporaries # {} => pc[Main] \in Published
    <3>1. CASE p = Main
        BY <1>13, <3>1, Zenon DEF Unlink
    <3>2. CASE p \in Handlers
        BY <1>13, <3>2, Zenon DEF Unlink, Covered, Holding, Raised, Withdrawn
    <3> QED BY <3>1, <3>2, Zenon
  <2>2. path[p] = ARTEFACT
    BY <1>13, Zenon DEF Unlink
  <2>3. guarded => temporaries' = {}
    BY <1>13, <2>1, <2>2, Zenon DEF Unlink, Covered
  <2> QED BY <1>13, <1>c, <2>3 DEF Unlink
<1>14. ASSUME NEW h \in Handlers, Deliver(h) PROVE OnTop'
    BY <1>14 DEF Deliver, Suspended
<1>15. ASSUME NEW h \in Handlers, RaiseDeferred(h) \/ ReadPublishing(h) PROVE OnTop'
  <2>1. CASE RaiseDeferred(h)
    BY <2>1 DEF RaiseDeferred
  <2>2. CASE ReadPublishing(h) /\ PUBLISHING
    BY <2>2 DEF ReadPublishing
  <2>3. CASE ReadPublishing(h) /\ ~PUBLISHING
    BY <2>3 DEF ReadPublishing
  <2> QED BY <1>15, <2>1, <2>2, <2>3, Zenon
<1>16. CASE UNCHANGED vars
    BY <1>16, Zenon DEF vars
<1>17. ASSUME NEW p \in Actors, Exit(p) PROVE FALSE
    BY <1>17, Zenon DEF Exit
<1>18. ~Kill
    BY Zenon DEF Kill
<1> QED
    BY <1>1, <1>2, <1>3, <1>4, <1>5, <1>6, <1>7, <1>8, <1>9, <1>10, <1>11, <1>12, <1>13,
       <1>14, <1>15, <1>16, <1>17, <1>18, Zenon
    DEF Next, MainStep, HandlerStep, EndInterrupted

\* GuardInv is inductive: an exit finds the temporary removed, and the default action
\* is back in force only when there is none.
LEMMA StepGuard == GuardInv /\ [Next]_vars => GuardInv'
<1> SUFFICES ASSUME GuardInv, [Next]_vars PROVE NoTemporaryLeft'
    BY StepNames, StepCovered, StepOnTop, Zenon DEF GuardInv
<1> Main \in Actors /\ Handlers \subseteq Actors
    BY Zenon DEF Actors
<1> USE DEF GuardInv, NameInv, TypeOK, NoTemporaryLeft
<1>1. CASE Kill
    BY <1>1, Zenon DEF Kill, Covered, Holding, Withdrawn
<1>2. ASSUME NEW p \in Actors, Exit(p) PROVE NoTemporaryLeft'
    BY <1>2, Zenon DEF Exit, OnTop
<1>3. CASE MainStep
  <2>1. process' \in {"running", "exited"}
    BY <1>3, Zenon DEF MainStep, Install, PutBackIgnore, RememberInherited, RaisePublishing, Create,
       Withdraw, ReadHandling, CopyName, Terminate, Publish, LowerPublishing, ReadDeferred,
       FillAndReplace, Clear, RestoreInherited, NextFile
  <2> QED BY <2>1, Zenon
<1>4. ASSUME NEW p \in Actors, RaiseHandling(p) \/ LoadArtefact(p) \/ Unlink(p)
      PROVE  NoTemporaryLeft'
    BY <1>4, Zenon DEF RaiseHandling, LoadArtefact, Unlink
<1>5. ASSUME NEW h \in Handlers, Deliver(h) \/ RaiseDeferred(h) \/ ReadPublishing(h)
      PROVE  NoTemporaryLeft'
    BY <1>5, Zenon DEF Deliver, RaiseDeferred, ReadPublishing
<1>6. CASE UNCHANGED vars
    BY <1>6, Zenon DEF vars
<1> QED BY <1>1, <1>2, <1>3, <1>4, <1>5, <1>6, Zenon DEF Next, HandlerStep, EndInterrupted

\* Where the handler runs on top of the main thread, neither an exit from the handler
\* nor the default action leaves a guarded temporary on disk.
THEOREM TemporaryTheorem == Spec => []NoTemporaryLeft
<1>1. Init => GuardInv
  <2> SUFFICES ASSUME Init PROVE GuardInv
    BY Zenon
  <2> Main \in Actors /\ Handlers \subseteq Actors /\ Main \notin Handlers
    BY InterruptAssumption, Zenon DEF Actors
  <2>1. Covered /\ NoTemporaryLeft
    BY Zenon DEF Init, Covered, NoTemporaryLeft
  <2>2. OnTop
    BY Zenon DEF Init, OnTop, Handling, Published
  <2> QED BY InitNames, <2>1, <2>2, Zenon DEF GuardInv
<1>2. GuardInv => NoTemporaryLeft
    BY Zenon DEF GuardInv
<1> QED BY <1>1, <1>2, StepGuard, PTL DEF Spec

-----------------------------------------------------------------------------
(* A deferred interruption is not forgotten                                 *)

\* Where the handler runs on top of the main thread, a run that an interruption
\* reached never comes to its own end, which would report success.
NeverForgotten == ~own_thread /\ DEFERRED => process # "exited"

\* The interruption is with its handler, or with the main thread before it reads
\* DEFERRED, or main is ending the process.
Remembered ==
    /\ pc[Main] = "raise" => guarded
    /\ PUBLISHING => guarded /\ pc[Main] \in Raised
    /\ ~own_thread /\ process = "running" /\ DEFERRED =>
         \/ \E h \in Handlers : Handling(h)
         \/ pc[Main] \in Raised /\ guarded
         \/ pc[Main] \in {"read_deferred", "handle", "load", "unlink", "exit"}
    /\ NeverForgotten

\* Remembered is inductive: a handler hands the interruption over only while
\* PUBLISHING is up, and main reads DEFERRED after lowering it.
LEMMA StepRemembered == NameInv /\ Remembered /\ [Next]_vars => Remembered'
<1> SUFFICES ASSUME NameInv, Remembered, [Next]_vars PROVE Remembered'
    BY Zenon
<1> /\ Main \in Actors /\ Main \notin Handlers /\ Handlers \subseteq Actors
    BY InterruptAssumption, Zenon DEF Actors
<1>a. ASSUME NEW l, MainAt(l), ~own_thread PROVE \A h \in Handlers : ~Handling(h)
    BY <1>a, Zenon DEF Suspended
<1> USE DEF NameInv, TypeOK, Remembered, NeverForgotten, Raised, Withdrawn
<1>1. CASE Install \/ PutBackIgnore \/ RememberInherited
  <2>1. ~PUBLISHING /\ (own_thread \/ ~DEFERRED)
    BY <1>1, <1>a, Zenon DEF Install, PutBackIgnore, RememberInherited
  <2>2. UNCHANGED <<own_thread, PUBLISHING, DEFERRED, process>>
    BY <1>1, Zenon DEF Install, PutBackIgnore, RememberInherited
  <2>3. pc'[Main] = "raise" => guarded'
    BY <1>1, Zenon DEF Install, PutBackIgnore, RememberInherited
  <2> QED BY <2>1, <2>2, <2>3, Zenon
<1>2. CASE RaisePublishing \/ Create
    BY <1>2, <1>a DEF RaisePublishing, Create
<1>3. CASE Withdraw \/ ReadHandling \/ CopyName \/ Terminate \/ Publish
    BY <1>3, <1>a DEF Withdraw, ReadHandling, CopyName, Terminate, Publish
<1>4. CASE LowerPublishing \/ ReadDeferred
    BY <1>4, <1>a DEF LowerPublishing, ReadDeferred
<1>5. CASE FillAndReplace \/ Clear \/ RestoreInherited
    BY <1>5, <1>a DEF FillAndReplace, Clear, RestoreInherited
<1>6. CASE NextFile
    BY <1>6, <1>a, Zenon DEF NextFile
<1>7. ASSUME NEW p \in Actors, RaiseHandling(p) \/ LoadArtefact(p) \/ Unlink(p) PROVE Remembered'
    BY <1>7 DEF RaiseHandling, LoadArtefact, Unlink, Handling
<1>8. ASSUME NEW p \in Actors, Exit(p) PROVE Remembered'
    BY <1>8, Zenon DEF Exit
<1>9. ASSUME NEW h \in Handlers, Deliver(h) \/ RaiseDeferred(h) PROVE Remembered'
    BY <1>9 DEF Deliver, RaiseDeferred, Handling
<1>10. ASSUME NEW h \in Handlers, ReadPublishing(h) PROVE Remembered'
    BY <1>10, Zenon DEF ReadPublishing, Handling
<1>11. CASE Kill \/ UNCHANGED vars
    BY <1>11 DEF Kill, vars, Handling
<1> QED
    BY <1>1, <1>2, <1>3, <1>4, <1>5, <1>6, <1>7, <1>8, <1>9, <1>10, <1>11, Zenon
    DEF Next, MainStep, HandlerStep, EndInterrupted

\* The safety half of InterruptionEnds: an interruption left to create_guarded, or
\* taken by the handler, cannot be followed by a normal end of the run.
THEOREM ForgottenTheorem == Spec => []NeverForgotten
<1>1. Init => NameInv /\ Remembered
    BY InitNames, Zenon DEF Init, Remembered, NeverForgotten, Actors
<1>2. NameInv /\ Remembered /\ [Next]_vars => (NameInv /\ Remembered)'
    BY StepNames, StepRemembered, Zenon
<1>3. Remembered => NeverForgotten
    BY Zenon DEF Remembered
<1> QED BY <1>1, <1>2, <1>3, PTL DEF Spec
=============================================================================
