------------------------------ MODULE CommandRun ------------------------------
(***************************************************************************)
(* One run of the structured-zstd command, from its words to its exit      *)
(* status: main.rs over the file system, the command line, the archives    *)
(* and the memory plans of the modules below it.                           *)
(*                                                                         *)
(* A step is a stretch of the program between two moments at which the     *)
(* world can differ: a call on a file, a question asked.  Between any two  *)
(* steps another process may change one file (Outsider) and an             *)
(* interruption may arrive (Interrupt); a call may fail (faults).  What    *)
(* the interruption handler and the main thread do to each other is module *)
(* Interrupt; here `guard` is the name create_guarded published.           *)
(*                                                                         *)
(* The standard streams are pipes.  Times, progress, wording and the       *)
(* bytes inside a frame are left out; checksums are written and compared.  *)
(***************************************************************************)
EXTENDS CommandLine

CONSTANTS
  Scenarios,       \* sequence of the command lines and the worlds they are run in
  MaxFaults,       \* bound: calls of one run that fail
  Attempts,        \* the attempt numbers of a temporary name, u16::MAX of them
  TraceBuffer,     \* trace::BUFFERED, in lines
  Shuffled(_),     \* shuffle_training_files
  TrainerTakes(_)  \* check_*_sample_count of the trainer chosen

VARIABLES
  env,     \* the words, the program's name and the world around the run
  pc,      \* where the run is
  fs,      \* the file system
  o,       \* Options
  job,     \* the locals of the drivers
  mem,     \* what is held in memory, and the codecs
  guard,   \* the temporary an interruption removes, or None
  trace,   \* the open trace, or None
  pipe,    \* standard input and output
  faults,  \* calls that failed so far
  moved,   \* whether the other process has acted
  status,  \* the exit status; None while the run goes on
  ghost    \* what the properties remember

vars == <<env, pc, fs, o, job, mem, guard, trace, pipe, faults, moved, status, ghost>>

Killed == -1
TraceLine == [t |-> "line"]

IdleJob ==
  [driver |-> "none", todo |-> <<>>, total |-> 0, processed |-> 0, failed |-> 0, unread |-> 0,
   remove |-> FALSE, written |-> {}, input |-> Dash, ino |-> None, size |-> None,
   perms |-> <<>>, sink |-> "none", out |-> None, tmp |-> None, backup |-> None,
   sizes |-> <<>>, plan |-> <<>>, corpus |-> <<>>]

Init ==
  /\ \E i \in 1..Len(Scenarios) : env = Scenarios[i]
  /\ pc = "parse"
  /\ fs = env.fs
  /\ o = None
  /\ job = IdleJob
  /\ mem = [dict |-> <<>>, forms |-> 0, data |-> 0, window |-> DefaultWindow, codec |-> "none"]
  /\ guard = None
  /\ trace = None
  /\ pipe = [in |-> env.stdin, out |-> <<>>]
  /\ faults = 0
  /\ moved = FALSE
  /\ status = None
  /\ ghost = [removed |-> {}, consented |-> {}, made |-> <<>>, due |-> <<>>]

\* The run is over but for the trace's last lines.
Ends(n) == pc' = "close" /\ status' = n
Goto(l) == pc' = l /\ status' = status
Fault == faults < MaxFaults /\ faults' = faults + 1
NoFault == faults' = faults

(***************************************************************************)
(* From the words to the inputs: command_status, run.                      *)
(***************************************************************************)
Streams(p) == p.mode \in {"Compress", "Decompress", "Test"} /\ ~p.bench
ReadsStdin(p) == p.inputs = <<>> \/ Dash \in Range(p.inputs)
WritesStdout(p) == p.to_stdout \/ (p.output = None /\ \A q \in Range(p.inputs) : q = Dash)
DictionaryPath(p) == IF p.dict # None THEN p.dict ELSE p.patch_from
ReadsDictionary(p) == p.bench \/ p.mode \notin {"List", "Train"}

Parse ==
  LET r == ParseArgs(env.words, ProgramPreset(env.program), env.level)
  IN /\ pc = "parse"
     /\ IF "o" \in DOMAIN r THEN o' = r.o /\ Goto("select") ELSE o' = o /\ Ends(r.status)
     /\ UNCHANGED <<env, fs, job, mem, guard, trace, pipe, faults, moved, ghost>>

ExitStatus(failed) == IF failed = 0 THEN 0 ELSE 1

Select ==
  LET s == SelectInputs(fs, o, env.closed)
      unread == IF o.ignore_read_errors THEN 0 ELSE s.unreadable
      nothing == s.files = <<>> /\ s.explicit
  IN /\ pc = "select"
     /\ CASE ~ListsReadable(fs, o) \/ s.refused \/ (nothing /\ o.bench) ->
               Ends(1) /\ UNCHANGED <<o, job>>
          [] nothing /\ Streams(o) -> Ends(ExitStatus(unread)) /\ UNCHANGED <<o, job>>
          [] OTHER -> /\ o' = [o EXCEPT !.inputs = s.files]
                      /\ job' = [job EXCEPT !.unread = unread]
                      /\ Goto("admit")
     /\ UNCHANGED <<env, fs, mem, guard, trace, pipe, faults, moved, ghost>>

(***************************************************************************)
(* run_selected up to the dictionary.                                      *)
(***************************************************************************)
Refusal(p) ==
  LET compressing == p.mode = "Compress" /\ ~p.bench
  IN CASE Streams(p) /\ ReadsStdin(p) /\ ~p.force_stdin /\ "stdin" \in env.console -> 1
       [] /\ compressing /\ p.output = None /\ ~p.to_stdout /\ ReadsStdin(p)
          /\ "stdout" \in env.console /\ ~p.force -> 1
       [] compressing /\ p.threads = 0 /\ p.adapt -> 1
       [] compressing /\ p.format # "Zstd" -> 20
       [] OTHER -> 0

\* What the streams settle: a run that writes to stdout is quieter and keeps
\* its sources, a test keeps them too, generated data has no dictionary.
Settled(p) ==
  LET piped == p.mode \in {"Compress", "Decompress"} /\ ~p.bench /\ WritesStdout(p)
      synthetic == p.bench /\ p.inputs = <<>>
  IN [p EXCEPT !.verbosity = IF piped /\ @ = 2 THEN 1 ELSE @,
               !.remove_source = @ /\ ~piped /\ p.mode # "Test",
               !.dict = IF synthetic THEN None ELSE @,
               !.patch_from = IF synthetic THEN None ELSE @]

\* patch_window_log: the whole input within the window.
WindowLogOver(size) == CHOOSE n \in 0..64 : 2^n > Max2(size, 1) /\ (n > 0 => 2^(n - 1) <= Max2(size, 1))
PatchSize(p) ==
  CASE p.inputs # <<>> /\ p.inputs[1] # Dash ->
         CASE IsFile(fs, p.inputs[1]) -> Size(Bytes(fs, p.inputs[1]))
           [] Exists(fs, p.inputs[1]) -> 0
           [] OTHER -> Bad
    [] p.pledged_size # None -> p.pledged_size
    [] OTHER -> Bad
PatchFits(p) ==
  /\ Len(p.inputs) <= 1
  /\ Compresses(p) => /\ PatchSize(p) # Bad
                      /\ WindowLogOver(PatchSize(p)) <= MaxWindowLog
                      /\ Exists(fs, p.patch_from)

Admit ==
  LET p == Settled(o)
      patch == p.patch_from # None
      log == Max2(WindowLogOver(PatchSize(p)), MinWindowLog)
  IN /\ pc = "admit"
     /\ CASE Refusal(o) # 0 -> Ends(Refusal(o)) /\ UNCHANGED o
          [] patch /\ ~PatchFits(p) -> Ends(1) /\ UNCHANGED o
          [] OTHER ->
               /\ o' = IF patch /\ Compresses(p) THEN [p EXCEPT !.window_log = log] ELSE p
               /\ Goto(IF DictionaryPath(p) # None /\ ReadsDictionary(p) THEN "inspect" ELSE "codecs")
     /\ UNCHANGED <<env, fs, job, mem, guard, trace, pipe, faults, moved, ghost>>

(***************************************************************************)
(* load_dictionary: the name is weighed, then the file opened under it,    *)
(* then what is read of it.                                                *)
(***************************************************************************)
DictionaryAdmitted(size) ==
  o.memory_limit # None /\ Decodes(o) => MemoryLimitCovers(o.memory_limit, size, 2)

InspectDictionary ==
  LET d == DictionaryPath(o)
  IN /\ pc = "inspect"
     /\ IF IsFile(fs, d) /\ DictionaryAdmitted(Size(Bytes(fs, d)))
        THEN Goto("open_dictionary") ELSE Ends(1)
     /\ UNCHANGED <<env, fs, o, job, mem, guard, trace, pipe, faults, moved, ghost>>

OpenDictionary ==
  LET d == DictionaryPath(o)
  IN /\ pc = "open_dictionary"
     /\ IF IsFile(fs, d) /\ DictionaryAdmitted(Size(Bytes(fs, d)))
        THEN /\ job' = [job EXCEPT !.ino = Stat(fs, d).ino, !.size = Size(Bytes(fs, d))]
             /\ Goto("read_dictionary")
        ELSE job' = job /\ Ends(1)
     /\ UNCHANGED <<env, fs, o, mem, guard, trace, pipe, faults, moved, ghost>>

\* One byte past the size that was weighed tells that the file grew.
ReadDictionary ==
  LET bytes == fs.data[job.ino]
  IN /\ pc = "read_dictionary"
     /\ IF Size(bytes) > job.size THEN Ends(1) /\ mem' = mem
        ELSE /\ mem' = [mem EXCEPT !.dict = bytes, !.forms = 1]
             /\ Goto("codecs")
     /\ UNCHANGED <<env, fs, o, job, guard, trace, pipe, faults, moved, ghost>>

(***************************************************************************)
(* --trace: refuse_trace_alias, Trace::open, record and the last write.    *)
(***************************************************************************)
\* A plausible fault: the files compared by their names alone.
Aliases_named(p, q) == NamesTheSameFile(fs, DanglingLinkTarget(fs, p), DanglingLinkTarget(fs, q))

\* Whether writing to one of the two would write to the other.
Aliases(p, q) == SameFile(fs, DanglingLinkTarget(fs, p), DanglingLinkTarget(fs, q))
TrainingOutput(p) == IF p.output # None THEN p.output ELSE Path("", "dictionary", <<>>)

\* The directories the run has to create on the way to an output.
MissingParents(p, out) ==
  IF DirExists(fs, out.dir) THEN {} ELSE {DirAt[Real[out.dir]]}

\* Every file of the run: what it reads and what it is going to write.
RunFiles(p) ==
  LET derived == {q \in Range(p.inputs) : /\ q # Dash /\ ~SkipsAsCompressed(p, q)
                                          /\ DeriveOutputPath(p, q) # None}
      named == (Range(p.inputs) \ {Dash}) \cup Range(p.filelists)
               \cup IF DictionaryPath(p) # None /\ ReadsDictionary(p)
                    THEN {DictionaryPath(p)} ELSE {}
      written == CASE p.bench \/ p.to_stdout \/ p.mode \in {"Test", "List"} -> {}
                   [] p.mode = "Train" -> {TrainingOutput(p)}
                   [] p.output # None ->
                        IF p.inputs = <<>> \/ \E q \in Range(p.inputs) : ~SkipsAsCompressed(p, q)
                        THEN {p.output} ELSE {}
                   [] OTHER -> UNION {{DeriveOutputPath(p, q)}
                                        \cup MissingParents(p, DeriveOutputPath(p, q)) : q \in derived}
  IN named \cup written

RefuseTraceAlias(p) == \E q \in RunFiles(p) : Aliases(p.trace, q)

\* The header only in a file that is not there yet.  A trace that cannot be
\* opened is reported and the run goes on without.
OpenTrace(l) ==
  LET target == Followed(fs, o.trace, MaxLinks)
      opens == IsFile(fs, target) \/ (Entry(fs, target) = None /\ DirExists(fs, target.dir))
      new == ~Exists(fs, target)
  IN CASE o.trace = None -> UNCHANGED <<fs, trace>> /\ Goto(l)
       [] RefuseTraceAlias(o) -> UNCHANGED <<fs, trace>> /\ Ends(1)
       [] opens /\ new ->
            /\ fs' = CreateFile(fs, target, <<>>, env.created)
            /\ trace' = [ino |-> 1 + Len(fs.data), lines |-> <<TraceLine>>]
            /\ Goto(l)
       [] opens /\ ~new ->
            /\ trace' = [ino |-> Stat(fs, target).ino, lines |-> <<>>]
            /\ fs' = fs /\ Goto(l)
       [] OTHER -> UNCHANGED <<fs, trace>> /\ Goto(l)

\* n frames recorded: the trace and the file after it, as a pair.  A buffer
\* that is full is written.
Recorded(files, n) ==
  LET lines == trace.lines \o [i \in 1..n |-> TraceLine]
  IN CASE trace = None \/ n = 0 -> <<trace, files>>
       [] Len(lines) >= TraceBuffer -> <<[trace EXCEPT !.lines = <<>>], WriteInode(files, trace.ino, lines)>>
       [] OTHER -> <<[trace EXCEPT !.lines = lines], files>>

\* The codecs are dropped, and the trace with them; then the process exits.
Close ==
  /\ pc = "close"
  /\ \/ /\ fs' = IF trace = None THEN fs ELSE WriteInode(fs, trace.ino, trace.lines)
        /\ NoFault
     \/ trace # None /\ trace.lines # <<>> /\ Fault /\ fs' = fs
  /\ pc' = "done"
  /\ trace' = None
  /\ mem' = [mem EXCEPT !.forms = 0, !.data = 0]
  /\ UNCHANGED <<env, o, job, guard, pipe, moved, status, ghost>>

(***************************************************************************)
(* The codecs, and the checks before the first input.                      *)
(***************************************************************************)

\* Codecs::prepare: the blob is held beside the forms parsed out of it.  A
\* benchmark has weighed them first.
Prepare ==
  LET forms == (IF Compresses(o) THEN 1 ELSE 0) + (IF Decodes(o) THEN 1 ELSE 0)
  IN /\ pc = "codecs"
     /\ IF o.bench THEN Goto("bench") /\ UNCHANGED mem
        ELSE /\ mem' = [mem EXCEPT !.forms = IF mem.dict = <<>> THEN 0 ELSE 1 + forms,
                                   !.window = DecodeWindowCeiling(o)]
             /\ Goto("trace")
     /\ UNCHANGED <<env, fs, o, job, guard, trace, pipe, faults, moved, ghost>>

\* The trace is opened and the blob released.
StartTrace ==
  /\ pc = "trace"
  /\ OpenTrace("dispatch")
  /\ mem' = [mem EXCEPT !.forms = IF @ = 0 THEN 0 ELSE @ - 1]
  /\ UNCHANGED <<env, o, job, guard, pipe, faults, moved, ghost>>

\* An -o that is the dictionary or one of the inputs.
OutputRefused(p) ==
  \/ /\ p.output # None /\ DictionaryPath(p) # None /\ ~p.to_stdout /\ p.mode = "Compress"
     /\ NamesTheSameFile(fs, p.output, DictionaryPath(p))
  \/ /\ p.output # None /\ ~p.to_stdout /\ p.mode # "Test"
     /\ \E q \in Range(p.inputs) \ {Dash} : SameFile(fs, p.output, q)

\* process_separately before its loop: an output that is the dictionary, a
\* source to be removed that is, and outputs that would replace each other
\* while both sources go.
RemovesSources(p) == p.remove_source /\ ~p.keep
EachRefused(p) ==
  LET d == DictionaryPath(p)
      files == {q \in Range(p.inputs) \ {Dash} : DeriveOutputPath(p, q) # None}
  IN /\ p.mode \in {"Compress", "Decompress"}
     /\ \/ /\ d # None /\ p.mode = "Compress"
           /\ \E q \in files : NamesTheSameFile(fs, DeriveOutputPath(p, q), d)
        \/ /\ d # None /\ RemovesSources(p)
           /\ \E q \in files : \/ NamesTheSameFile(fs, q, d)
                               \/ Exists(fs, d) /\ (~Exists(fs, q) \/ PathsPointToSameFile(fs, q, d))
        \/ RemovesSources(p) /\ FlatOutputCollisions(p) # {}

\* Several inputs into one file: the sources stay and, unless forced, the
\* question is asked; it cannot be while stdin is an input.
Driver(p) ==
  CASE p.to_stdout -> "stdout"
    [] p.output # None /\ p.mode # "Test" -> IF Len(p.inputs) > 1 THEN "many" ELSE "single"
    [] OTHER -> "each"
Declined(p) == p.verbosity <= 1 \/ ReadsStdin(p)

ListFiles(p) ==
  LET Sum1(t, q) ==
        LET s == SummarizeArchive(Bytes(fs, q))
            sum == ListTotal(t.total, s)
        IN CASE ~IsFile(fs, q) \/ ~s.ok -> [t EXCEPT !.failed = @ + 1]
             [] ~t.total.ok -> t
             [] OTHER -> [total |-> sum, failed |-> IF sum.ok THEN t.failed ELSE t.failed + 1]
      none == [ok |-> TRUE, known |-> TRUE, decompressed |-> 0, files |-> 0]
  IN FoldLeft(Sum1, [total |-> none, failed |-> 0], p.inputs).failed

Dispatch ==
  LET driver == Driver(o)
      begin == [job EXCEPT !.driver = driver, !.todo = IF o.inputs = <<>> THEN <<Dash>> ELSE o.inputs,
                           !.total = Max2(Len(o.inputs), 1), !.out = o.output,
                           !.remove = o.remove_source /\ (driver = "each" \/ Len(o.inputs) <= 1)]
      listable == o.inputs # <<>> /\ Dash \notin Range(o.inputs)
  IN /\ pc = "dispatch"
     /\ CASE o.mode = "Train" -> Goto("train") /\ UNCHANGED job
          [] o.mode = "List" ->
               Ends(IF listable THEN ExitStatus(ListFiles(o) + job.unread) ELSE 1) /\ UNCHANGED job
          [] \/ o.show_default_cparams /\ o.mode = "Decompress"
             \/ OutputRefused(o)
             \/ driver = "each" /\ EachRefused(o) -> Ends(1) /\ UNCHANGED job
          [] driver = "many" /\ ~o.force ->
               \/ Ends(1) /\ UNCHANGED job
               \/ ~Declined(o) /\ job' = begin /\ Goto("gate")
          [] OTHER -> job' = begin /\ Goto(IF driver = "many" THEN "gate" ELSE "next")
     /\ UNCHANGED <<env, fs, o, mem, guard, trace, pipe, faults, moved, ghost>>

(***************************************************************************)
(* What becomes of one input.                                              *)
(***************************************************************************)
\* A plausible fault: an input that was refused counts as one skipped.
Tally_lenient(j, outcome) == [j EXCEPT !.processed = IF outcome = "done" THEN @ + 1 ELSE @]

\* Tally::record; the run goes on with the next input.
Tally(j, outcome) ==
  [j EXCEPT !.processed = IF outcome = "done" THEN @ + 1 ELSE @,
            !.failed = IF outcome = "refused" THEN @ + 1 ELSE @]

\* An error in the way of one input: separate inputs go on without it, a
\* destination of the whole run ends it.
Outcome(j, outcome) ==
  CASE outcome = "error" /\ j.driver # "each" -> job' = j /\ Ends(1)
    [] outcome = "error" -> job' = Tally(j, "refused") /\ Goto("next")
    [] OTHER -> job' = Tally(j, outcome) /\ Goto("next")

\* open_input: a name that is not there, a directory, the dictionary itself,
\* a device.
Admissible(q) == Stat(fs, q).kind \in {"file", "fifo"} \cup (IF o.force THEN {"block"} ELSE {})
InputVerdict(q) ==
  CASE ~Exists(fs, q) -> "refused"
    [] /\ Compresses(o) /\ OfPath(fs, q) # None
       /\ \E d \in {o.dict, o.patch_from} \ {None} : OfPath(fs, d) = OfPath(fs, q) -> "refused"
    [] ~Admissible(q) -> "refused"
    [] SkipsAsCompressed(o, q) -> "skipped"
    [] OTHER -> "opened"

\* The input as the open file has it: only a regular file has a length to
\* pledge and permissions to hand on.
Opened(j, q) ==
  [j EXCEPT !.todo = Tail(@), !.input = q,
            !.ino = IF q # Dash /\ IsFile(fs, q) THEN Stat(fs, q).ino ELSE None,
            !.size = IF q # Dash /\ IsFile(fs, q) THEN Size(Bytes(fs, q)) ELSE None,
            !.perms = IF q # Dash /\ IsFile(fs, q) /\ j.driver # "many"
                      THEN <<PermissionsOf(fs, q)>> ELSE <<>>]

\* A plausible fault: an output without an identity is taken for a new one.
Occupied_identified(out) == OfPath(fs, out) \in job.written

\* An output this run may have written already, while sources are removed.
GuardsOutputs ==
  /\ RemovesSources(o) /\ o.output_dir # None /\ o.output_dir_mirror = None
  /\ o.mode \in {"Compress", "Decompress"}
Occupied(out) ==
  IF OfPath(fs, out) # None THEN OfPath(fs, out) \in job.written ELSE Exists(fs, out)

\* create_mirrored_dirs: the root and the directory under it, or an error when
\* something else has the name.
Mirroring(q) ==
  {o.output_dir_mirror, MirroredOutputDir(q, o.output_dir_mirror)}
MirrorBlocked(q) == \E d \in Mirroring(q) : Exists(fs, DirAt[Real[d]]) /\ ~DirExists(fs, d)
MirrorMade(q) ==
  LET missing == {d \in Mirroring(q) : ~DirExists(fs, d)}
  IN IF o.output_dir_mirror = None THEN fs
     ELSE FoldLeft(MakeDir, fs, SetToSeq(missing))

\* The next input of a driver.
NextInput ==
  LET q == job.todo[1]
      out == DeriveOutputPath(o, q)
      next == Opened(job, q)
      each == job.driver = "each"
      file == each /\ q # Dash /\ o.mode # "Test"
      verdict == IF q = Dash THEN "opened" ELSE InputVerdict(q)
  IN /\ pc = "next" /\ job.todo # <<>>
     /\ \/ /\ NoFault
           /\ CASE file /\ GuardsOutputs /\ out # None /\ Occupied(out) ->
                     Outcome([job EXCEPT !.todo = Tail(@)], "refused") /\ fs' = fs
                [] verdict # "opened" ->
                     Outcome([job EXCEPT !.todo = Tail(@)], verdict) /\ fs' = fs
                [] ~file ->
                     /\ job' = [next EXCEPT !.sink = IF job.driver = "many" THEN @
                                                     ELSE IF o.mode = "Test" THEN "none" ELSE "stdout"]
                     /\ Goto(IF job.driver = "single" THEN "gate" ELSE "stream")
                     /\ fs' = fs
                [] \/ out = None \/ ~DistinctPaths(fs, q, out)
                   \/ o.output_dir_mirror # None /\ MirrorBlocked(q) ->
                     Outcome(next, "error") /\ fs' = fs
                [] OTHER ->
                     /\ fs' = MirrorMade(q)
                     /\ job' = [next EXCEPT !.out = out]
                     /\ Goto("gate")
        \/ \* the file cannot be opened
           /\ q # Dash /\ verdict = "opened" /\ Fault
           /\ Outcome([job EXCEPT !.todo = Tail(@)], "refused") /\ fs' = fs
     /\ UNCHANGED <<env, o, mem, guard, trace, pipe, moved, ghost>>

\* No input left.
LastInput ==
  /\ pc = "next" /\ job.todo = <<>>
  /\ IF job.driver = "many" THEN Goto("keep")
     ELSE Ends(ExitStatus(job.failed + job.unread))
  /\ UNCHANGED <<env, fs, o, job, mem, guard, trace, pipe, faults, moved, ghost>>

(***************************************************************************)
(* write_output_file_if: the gate, the temporary, its permissions.         *)
(***************************************************************************)
\* writes_in_place: a device or a pipe.
InPlace(out) == Exists(fs, out) /\ Stat(fs, out).kind \notin {"file", "dir"}
NotRegular(out) == Lstat(fs, out) # None /\ Lstat(fs, out).kind # "file"

\* Declining an existing output: a concatenation then counts every input.
Decline ==
  IF job.driver = "many" THEN job' = job /\ Ends(1) ELSE Outcome(job, "refused")

Gate ==
  /\ pc = "gate"
  /\ CASE InPlace(job.out) ->
            /\ job' = [job EXCEPT !.sink = "place"]
            /\ Goto(IF job.driver = "many" THEN "next" ELSE "stream")
       [] NotRegular(job.out) -> Outcome(job, "error")
       [] Exists(fs, job.out) /\ ~o.force ->
            \/ Decline
            \/ ~Declined(o) /\ job' = job /\ Goto("create")
       [] OTHER -> job' = job /\ Goto("create")
  /\ UNCHANGED <<env, fs, o, mem, guard, trace, pipe, faults, moved, ghost>>

\* create_temporary_output_file under create_guarded: the first attempt whose
\* name is free, beside the output.
Temporary(out, n) == [out EXCEPT !.ext = Append(@, n)]
FreeNames(out) == SelectSeq(Attempts, LAMBDA n : Entry(fs, Temporary(out, n)) = None)

Create ==
  LET name == Temporary(job.out, FreeNames(job.out)[1])
  IN /\ pc = "create"
     /\ \/ /\ DirExists(fs, job.out.dir) /\ FreeNames(job.out) # <<>>
           /\ NoFault
           /\ fs' = CreateFile(fs, name, <<>>, env.created)
           /\ guard' = name
           /\ job' = [job EXCEPT !.tmp = name, !.sink = "file"]
           /\ ghost' = [ghost EXCEPT !.made = Append(@, [ino |-> 1 + Len(fs.data), perms |-> job.perms])]
           /\ Goto("permit")
        \/ /\ IF DirExists(fs, job.out.dir) /\ FreeNames(job.out) # <<>> THEN Fault ELSE NoFault
           /\ Outcome(job, "error")
           /\ UNCHANGED <<fs, guard, ghost>>
     /\ UNCHANGED <<env, o, mem, trace, pipe, moved>>


\* output_mode_for_sources: what every source grants, and the group's share
\* only when every source and the output belong to one group.
OutputMode(perms, gid) ==
  LET modes == {perms[i].mode : i \in 1..Len(perms)}
      common == {c \in {"owner", "group", "world"} : \A m \in modes : c \in m}
  IN IF \A i \in 1..Len(perms) : perms[i].gid = gid THEN common ELSE common \ {"group"}

\* On Windows a file has no modes to narrow.
Narrowed(files, p) ==
  IF job.perms = <<>> \/ env.windows THEN files
  ELSE SetPermissions(files, p, OutputMode(job.perms, PermissionsOf(files, p).gid))

\* `abandon`: the temporary goes and the guard is cleared.
Abandon(files) == fs' = RemoveName(files, job.tmp) /\ guard' = None

AfterPermit == IF job.driver = "many" THEN "next" ELSE "stream"
Permit ==
  /\ pc = "permit"
  /\ \/ NoFault /\ fs' = Narrowed(fs, job.tmp) /\ job' = job /\ guard' = guard /\ Goto(AfterPermit)
     \/ job.perms # <<>> /\ Fault /\ Abandon(fs) /\ Outcome(job, "error")
  /\ UNCHANGED <<env, o, mem, trace, pipe, moved, ghost>>

(***************************************************************************)
(* stream: one input through the codec into the sink of the driver.        *)
(***************************************************************************)
\* DecodeSettings: plain input passes when asked to or, forced, when its
\* output is stdout; never in a test.
PassThrough(to_stdout) ==
  o.mode # "Test" /\ (IF o.pass_through = None THEN o.force /\ to_stdout ELSE o.pass_through)

FrameWindow(p) ==
  CASE p.window_log # None -> 2^p.window_log
    [] p.long -> 2^(IF p.long_window_log # None THEN p.long_window_log ELSE DefaultLongWindowLog)
    [] OTHER -> 1

Source == CASE job.input = Dash -> pipe.in
            [] job.ino # None -> fs.data[job.ino]
            [] OTHER -> env.piped

\* A context left inside a failed frame would go on with that frame.
CompressInto(c, pledged) ==
  IF mem.codec = "dirty" THEN [ok |-> TRUE, out |-> <<Broken>>]
  ELSE Encode(c, mem.dict, FrameWindow(o), pledged)

Streamed ==
  IF o.mode = "Compress"
  THEN CompressInto(Source, IF job.size # None THEN job.size ELSE o.pledged_size)
  ELSE DecodeOrPass(Source, mem.dict,
                    PassThrough(o.to_stdout \/ (job.input = Dash /\ o.output = None)), mem.window)

\* A plausible fault: the context kept.
CodecAfter_kept(ok) == IF ok THEN "ready" ELSE "dirty"

\* compress_stream: a failure drops the context.
CodecAfter(ok) ==
  CASE o.mode # "Compress" -> mem.codec
    [] ok -> "ready"
    [] OTHER -> "none"

FramesTraced(r) ==
  CASE o.mode = "Compress" -> IF r.ok THEN 1 ELSE 0
    [] r.passed -> 0
    [] OTHER -> Cardinality({i \in 1..Len(Source) : Source[i].t = "frame"})

\* What a failure does: a decoded input that shares its output is reported
\* and the next one decoded; everything else is an error of the driver's.
StreamFails(files) ==
  LET shared == job.driver \in {"stdout", "many"} \/ (job.input = Dash /\ job.driver = "each")
  IN CASE shared /\ o.mode # "Compress" ->
            Outcome(job, "refused") /\ fs' = files /\ guard' = guard
       [] shared /\ job.sink # "file" -> job' = job /\ Ends(1) /\ fs' = files /\ guard' = guard
       [] job.sink = "file" -> Outcome(job, "error") /\ Abandon(files)
       [] OTHER -> Outcome(job, "error") /\ fs' = files /\ guard' = guard

StreamSucceeds(files) ==
  /\ fs' = files /\ guard' = guard
  /\ IF job.sink = "file" /\ job.driver # "many" THEN job' = job /\ Goto("place")
     ELSE Outcome(job, "done")

Written(files, bytes) ==
  IF job.sink = "file" THEN WriteInode(files, Stat(fs, job.tmp).ino, bytes) ELSE files

\* What was read and what the output is going to hold, in the order of the
\* inputs.
Due(r) == [input |-> job.input, source |-> Source, content |-> r.out, out |-> job.out, sink |-> job.sink]

Stream ==
  LET whole == Streamed
  IN /\ pc = "stream" /\ job.driver # "train"
     /\ \E r \in {whole, [ok |-> FALSE, out |-> <<Broken>>, passed |-> TRUE]} :
          LET recorded == Recorded(fs, IF r = whole THEN FramesTraced(r) ELSE 0)
              files == Written(recorded[2], r.out)
          IN /\ IF r = whole THEN NoFault ELSE Fault
             /\ trace' = recorded[1]
             /\ mem' = [mem EXCEPT !.codec = CodecAfter(r.ok)]
             /\ pipe' = [pipe EXCEPT !.in = IF job.input = Dash THEN <<>> ELSE @,
                                     !.out = IF job.sink = "stdout" THEN @ \o r.out ELSE @]
             /\ ghost' = IF r.ok THEN [ghost EXCEPT !.due = Append(@, Due(r))] ELSE ghost
             /\ IF r.ok THEN StreamSucceeds(files) ELSE StreamFails(files)
     /\ UNCHANGED <<env, o, moved>>

\* A concatenation replaces an existing output only when it holds something.
Keep ==
  /\ pc = "keep"
  /\ CASE job.sink = "place" ->
            Ends(ExitStatus(job.failed + job.unread)) /\ UNCHANGED <<fs, guard>>
       [] job.processed > 0 -> Goto("place") /\ UNCHANGED <<fs, guard>>
       [] OTHER -> Ends(ExitStatus(job.failed + job.unread)) /\ Abandon(fs)
  /\ UNCHANGED <<env, o, job, mem, trace, pipe, faults, moved, ghost>>

(***************************************************************************)
(* replace_output_file, and what follows it.                               *)
(***************************************************************************)
\* The output is in place under its name.
Consented ==
  IF IsFile(fs, job.out) THEN [ghost EXCEPT !.consented = @ \cup {Bytes(fs, job.out)}] ELSE ghost
ReplaceFails(files) == fs' = RemoveName(files, job.tmp) /\ guard' = None /\ Outcome(job, "error")

\* Without permissions of its own the output keeps those of the file it
\* replaces.
Dressed ==
  CASE ~IsFile(fs, job.out) -> fs
    [] job.perms = <<>> -> SetPermissions(fs, job.tmp, PermissionsOf(fs, job.out).mode)
    [] OTHER -> Narrowed(fs, job.tmp)

Place_ ==
  /\ pc = "place"
  /\ CASE NotRegular(job.out) -> NoFault /\ ReplaceFails(fs) /\ ghost' = ghost
       [] env.windows /\ Exists(fs, job.out) ->
            /\ NoFault /\ job' = job /\ guard' = guard /\ fs' = Dressed /\ ghost' = ghost
            /\ Goto("backup")
       [] OTHER ->
            \/ /\ NoFault /\ job' = job /\ guard' = guard
               /\ fs' = Rename(Dressed, job.tmp, job.out)
               /\ ghost' = Consented
               /\ Goto("clear")
            \/ Fault /\ ReplaceFails(fs) /\ ghost' = ghost
  /\ UNCHANGED <<env, o, mem, trace, pipe, moved>>

\* Windows renames over nothing: the old output steps aside first.
Backup ==
  /\ pc = "backup"
  /\ \/ /\ NoFault /\ FreeNames(job.out) # <<>>
        /\ job' = [job EXCEPT !.backup = Temporary(job.out, FreeNames(job.out)[1])]
        /\ fs' = Rename(fs, job.out, job'.backup)
        /\ guard' = guard
        /\ Goto("swap")
     \/ /\ IF FreeNames(job.out) # <<>> THEN Fault ELSE NoFault
        /\ ReplaceFails(fs)
  /\ UNCHANGED <<env, o, mem, trace, pipe, moved, ghost>>

Swap ==
  /\ pc = "swap"
  /\ \/ /\ NoFault /\ job' = job /\ guard' = guard
        /\ fs' = Rename(fs, job.tmp, job.out)
        /\ Goto("drop_backup")
     \/ Fault /\ ReplaceFails(Rename(fs, job.backup, job.out))
     \/ /\ faults + 2 <= MaxFaults /\ faults' = faults + 2
        /\ ReplaceFails(fs)
  /\ UNCHANGED <<env, o, mem, trace, pipe, moved, ghost>>

DropBackup ==
  /\ pc = "drop_backup"
  /\ \/ /\ NoFault /\ fs' = RemoveName(fs, job.backup)
        /\ ghost' = [ghost EXCEPT !.consented = @ \cup {Bytes(fs, job.backup)}]
     \/ Fault /\ fs' = fs /\ ghost' = ghost
  /\ Goto("clear")
  /\ UNCHANGED <<env, o, job, mem, guard, trace, pipe, moved>>

Clear ==
  /\ pc = "clear"
  /\ guard' = None
  /\ IF job.driver = "train" \/ job.driver = "many"
     THEN Ends(ExitStatus(job.failed + job.unread)) ELSE Goto("remove")
  /\ UNCHANGED <<env, fs, o, job, mem, trace, pipe, faults, moved, ghost>>

\* remove_source_if_requested; the file just written is remembered before the
\* next input could land on it.
Finished ==
  IF GuardsOutputs /\ OfPath(fs, job.out) # None
  THEN [job EXCEPT !.written = @ \cup {OfPath(fs, job.out)}] ELSE job
Removes == job.remove /\ ~o.keep /\ job.input # Dash

RemoveSource ==
  /\ pc = "remove"
  /\ \/ /\ ~Removes /\ NoFault
        /\ Outcome(Finished, "done")
        /\ UNCHANGED <<fs, ghost>>
     \/ /\ Removes /\ Lstat(fs, job.input) # None /\ NoFault
        /\ fs' = RemoveName(fs, job.input)
        /\ ghost' = IF Lstat(fs, job.input).kind = "file"
                    THEN [ghost EXCEPT !.removed = @ \cup {Last(ghost.due).source}] ELSE ghost
        /\ Outcome(Finished, "done")
     \/ /\ Removes
        /\ IF Lstat(fs, job.input) # None THEN Fault ELSE NoFault
        /\ Outcome(job, "error")
        /\ UNCHANGED <<fs, ghost>>
  /\ guard' = None
  /\ UNCHANGED <<env, o, mem, trace, pipe, moved>>

(***************************************************************************)
(* --train.                                                                *)
(***************************************************************************)
TrainRefusal ==
  LET out == TrainingOutput(o)
      samples == Range(o.inputs)
  IN CASE Dash \in samples -> 1
       [] o.inputs = <<>> -> 14
       [] \/ o.to_stdout
          \/ ~InPlace(out) /\ NotRegular(out)
          \/ \E q \in samples : \/ NamesTheSameFile(fs, q, out)
                                \/ Exists(fs, out) /\ (~Exists(fs, q) \/ PathsPointToSameFile(fs, q, out))
          \/ \E q \in samples : ~IsFile(fs, q) -> 1
       [] OTHER -> 0

\* The checks that need no sample, then the plan, drawn from the sizes alone.
PlanTraining ==
  LET order == Shuffled(o.inputs)
      sizes == [i \in 1..Len(order) |-> Size(Bytes(fs, order[i]))]
      samples == TrainingExtent(sizes, o.block_size)
      load == PlanTrainingLoad(sizes, o.block_size, TrainingBudget(o), samples)
  IN /\ pc = "train"
     /\ CASE TrainRefusal # 0 -> Ends(TrainRefusal) /\ UNCHANGED job
          [] TrainRefusal = 0 /\ samples < TrainingSamplesMin -> Ends(14) /\ UNCHANGED job
          [] TrainRefusal = 0 /\ samples >= TrainingSamplesMin /\ ~TrainerTakes(Sum(load.plan)) ->
               Ends(1) /\ UNCHANGED job
          [] OTHER ->
               /\ job' = [job EXCEPT !.driver = "train", !.todo = order, !.sizes = sizes,
                                     !.plan = load.plan, !.out = TrainingOutput(o), !.perms = <<>>,
                                     !.sink = IF InPlace(TrainingOutput(o)) THEN "place" ELSE "none"]
               /\ Goto("load")
     /\ UNCHANGED <<env, fs, o, mem, guard, trace, pipe, faults, moved, ghost>>

\* The next sample file: it must be as long as it was when the plan was drawn.
LoadSample ==
  LET q == job.todo[1]
      size == job.sizes[1]
      pieces == job.plan[1]
      bytes == Bytes(fs, q)
      taken == Sum([i \in 1..pieces |-> TrainingPiece(size, o.block_size,
                                          (i - 1) * (IF o.block_size = None THEN 0 ELSE o.block_size))])
      rest == [job EXCEPT !.todo = Tail(@), !.sizes = Tail(@), !.plan = Tail(@)]
  IN /\ pc = "load" /\ job.todo # <<>>
     /\ CASE pieces = 0 -> job' = rest /\ Goto("load") /\ mem' = mem
          [] pieces > 0 /\ (~IsFile(fs, q) \/ Size(bytes) # size) ->
               job' = job /\ Ends(1) /\ mem' = mem
          [] OTHER ->
               /\ job' = [rest EXCEPT !.corpus = Append(@, q), !.perms = Append(@, PermissionsOf(fs, q))]
               /\ mem' = [mem EXCEPT !.data = @ + taken + pieces * SizeEntry]
               /\ Goto("load")
     /\ UNCHANGED <<env, fs, o, guard, trace, pipe, faults, moved, ghost>>

\* The trained dictionary, in place or through a temporary.
TrainedDictionary == <<Raw("trained")>>
Train ==
  /\ pc = "load" /\ job.todo = <<>>
  /\ Goto(IF job.sink = "place" THEN "stream" ELSE "create")
  /\ UNCHANGED <<env, fs, o, job, mem, guard, trace, pipe, faults, moved, ghost>>

WriteDictionary ==
  /\ pc = "stream" /\ job.driver = "train"
  /\ \/ /\ NoFault /\ guard' = guard
        /\ IF job.sink = "place" THEN fs' = fs /\ Ends(ExitStatus(job.unread))
           ELSE fs' = Written(fs, TrainedDictionary) /\ Goto("place")
     \/ /\ Fault /\ Ends(1)
        /\ IF job.sink = "place" THEN UNCHANGED <<fs, guard>> ELSE Abandon(fs)
  /\ UNCHANGED <<env, o, job, mem, trace, pipe, moved, ghost>>

(***************************************************************************)
(* -b.                                                                     *)
(***************************************************************************)
DictionarySize == Size(mem.dict)
BenchFiles == Range(o.inputs)
BenchSizes ==
  IF o.inputs = <<>> THEN <<IF o.block_size = None THEN SyntheticSize ELSE o.block_size>>
  ELSE [i \in 1..Len(o.inputs) |-> Size(Bytes(fs, o.inputs[i]))]
BenchRefused ==
  \/ Dash \in BenchFiles
  \/ \E q \in BenchFiles : ~IsFile(fs, q)
  \/ o.bench_decode_only /\ o.inputs = <<>>

\* Everything is weighed from the sizes, before a file is read.
WeighBench ==
  LET weighed == WeighBenchmark(o, BenchSizes, DictionarySize)
      admitted == IF o.bench_decode_only THEN DecodeBenchmarkAdmitted(o, BenchSizes, DictionarySize)
                  ELSE weighed # Bad
      forms == IF o.bench_decode_only THEN 2 ELSE 3
  IN /\ pc = "bench"
     /\ IF ~BenchRefused /\ admitted
        THEN /\ mem' = [mem EXCEPT !.forms = IF mem.dict = <<>> THEN 0 ELSE forms,
                                   !.window = IF o.bench_decode_only THEN DefaultWindow
                                              ELSE BenchDecodeWindow(o, weighed)]
             /\ job' = [job EXCEPT !.driver = "bench", !.sizes = BenchSizes,
                                   !.todo = o.inputs]
             /\ Goto("bench_trace")
        ELSE Ends(1) /\ UNCHANGED <<mem, job>>
     /\ UNCHANGED <<env, fs, o, guard, trace, pipe, faults, moved, ghost>>

BenchTrace ==
  /\ pc = "bench_trace"
  /\ OpenTrace("subject")
  /\ mem' = [mem EXCEPT !.forms = IF @ = 0 THEN 0 ELSE @ - 1]
  /\ UNCHANGED <<env, o, job, guard, pipe, faults, moved, ghost>>

\* read_inputs_bounded: a file of another size than was weighed is refused.
\* With -S a subject is one input, else all of them.
SubjectLength == IF o.bench_separately /\ o.inputs # <<>> THEN 1 ELSE Len(job.sizes)
SubjectSizes == SubSeq(job.sizes, 1, SubjectLength)
SubjectContents ==
  IF o.inputs = <<>> THEN <<[i \in 1..job.sizes[1] |-> Raw("lorem")]>>
  ELSE [i \in 1..SubjectLength |-> Bytes(fs, job.todo[i])]
ReadSubject ==
  LET files == SubSeq(job.todo, 1, IF o.inputs = <<>> THEN 0 ELSE SubjectLength)
      intact == \A i \in 1..Len(files) : IsFile(fs, files[i]) /\ Size(Bytes(fs, files[i])) = job.sizes[i]
      data == Sum(SubjectSizes)
      weighed == WeighDecoding(o, SubjectContents, DictionarySize)
  IN /\ pc = "subject"
     /\ CASE job.sizes = <<>> -> Ends(ExitStatus(job.unread)) /\ UNCHANGED <<job, mem>>
          [] job.sizes # <<>> /\ (~intact \/ (~o.bench_decode_only /\ data = 0)) ->
               Ends(1) /\ UNCHANGED <<job, mem>>
          [] job.sizes # <<>> /\ intact /\ o.bench_decode_only ->
               IF weighed = Bad THEN Ends(1) /\ UNCHANGED <<job, mem>>
               ELSE /\ job' = [job EXCEPT !.corpus = SubjectContents]
                    /\ mem' = [mem EXCEPT !.data = weighed - DictionarySize,
                                          !.window = BenchDecodeWindow(o, weighed)]
                    /\ Goto("measure")
          [] OTHER ->
               \* the input, the frames and the decoded copy; the widest encoder
               /\ job' = [job EXCEPT !.corpus = SubjectContents]
               /\ mem' = [mem EXCEPT !.data =
                            LET chunks == BenchChunkLengths(SubjectSizes, BenchBlock(o))
                            IN 2 * data + Sum([i \in 1..Len(chunks) |-> CompressBound(chunks[i])])
                                 + BenchEncoder(o, Largest(chunks), DictionarySize)]
               /\ Goto("measure")
     /\ UNCHANGED <<env, fs, o, guard, trace, pipe, faults, moved, ghost>>

\* One pass over the subject each way; what comes back must be the input.
Measure ==
  LET data == FlattenSeq(job.corpus)
      chunks == BenchChunkLengths(SubjectSizes, BenchBlock(o))
      starts == [i \in 1..Len(chunks) |-> Sum(SubSeq(chunks, 1, i - 1))]
      frames == IF o.bench_decode_only THEN data
                ELSE [i \in 1..Len(chunks) |->
                        Frame(SubSeq(data, starts[i] + 1, starts[i] + chunks[i]), mem.dict,
                              FrameWindow(o), chunks[i])]
      r == DecodeOrPass(frames, mem.dict, PassThrough(WritesStdout(o)), mem.window)
      passes == IF o.bench_decode_only THEN 1 ELSE 2 * (o.bench_end - o.bench_start + 1)
      recorded == Recorded(fs, IF r.ok THEN passes * Len(frames) ELSE 0)
  IN /\ pc = "measure"
     /\ trace' = recorded[1] /\ fs' = recorded[2]
     /\ mem' = [mem EXCEPT !.data = 0]
     /\ IF r.ok /\ (o.bench_decode_only \/ r.out = data)
        THEN /\ job' = [job EXCEPT !.sizes = SubSeq(@, SubjectLength + 1, Len(@)),
                                   !.todo = SubSeq(@, SubjectLength + 1, Len(@)), !.corpus = <<>>]
             /\ Goto("subject")
        ELSE job' = job /\ Ends(1)
     /\ UNCHANGED <<env, o, guard, pipe, faults, moved, ghost>>

(***************************************************************************)
(* The world around the run.                                               *)
(***************************************************************************)

\* Another process appends to a file, puts another in its place, removes it,
\* or makes a link where nothing was.
Outsider ==
  LET x == env.outsider
  IN /\ x # None /\ ~moved /\ pc # "done"
     /\ moved' = TRUE
     /\ IF x.does = "links" THEN Entry(fs, x.path) = None ELSE IsFile(fs, x.path)
     /\ fs' = CASE x.does = "grows" -> WriteInode(fs, Stat(fs, x.path).ino, x.bytes)
                [] x.does = "swaps" -> CreateFile(fs, x.path, x.bytes, env.created)
                [] x.does = "removes" -> RemoveName(fs, x.path)
                [] x.does = "links" -> [fs EXCEPT !.at = (Place(x.path) :> Link(x.to)) @@ @]
     /\ UNCHANGED <<env, pc, o, job, mem, guard, trace, pipe, faults, status, ghost>>

\* An interruption removes the temporary the guard names and ends the run with
\* status 2; without a guard it takes the default action.
Interrupt ==
  /\ env.interrupted /\ pc \notin {"parse", "done"}
  /\ IF guard = None THEN fs' = fs /\ status' = Killed
     ELSE fs' = RemoveName(fs, guard) /\ status' = 2
  /\ pc' = "done"
  /\ trace' = None
  /\ UNCHANGED <<env, o, job, mem, guard, pipe, faults, moved, ghost>>

Done == pc = "done" /\ UNCHANGED vars

Next ==
  \/ Parse \/ Select \/ Admit
  \/ InspectDictionary \/ OpenDictionary \/ ReadDictionary \/ Prepare \/ StartTrace
  \/ Dispatch \/ NextInput \/ LastInput
  \/ Gate \/ Create \/ Permit \/ Stream \/ Keep
  \/ Place_ \/ Backup \/ Swap \/ DropBackup \/ Clear \/ RemoveSource
  \/ PlanTraining \/ LoadSample \/ Train \/ WriteDictionary
  \/ WeighBench \/ BenchTrace \/ ReadSubject \/ Measure
  \/ Close \/ Outsider \/ Interrupt \/ Done

Spec == Init /\ [][Next]_vars

(***************************************************************************)
(* Properties.                                                             *)
(***************************************************************************)
Files == {p \in DOMAIN fs.at : fs.at[p].kind = "file"}
Content(p) == fs.data[fs.at[p].ino]
IsTemporary(p) == p.ext # <<>> /\ Last(p.ext) \in Range(Attempts)
WasThere == {env.fs.data[i] : i \in 1..Len(env.fs.data)}

\* Whether reading `c` gives back `part`, in one piece.
Holds(c, part) ==
  LET all == Plaintext(c)
      wanted == Plaintext(part)
  IN \E i \in 0..(Len(all) - Len(wanted)) : SubSeq(all, i + 1, i + Len(wanted)) = wanted

\* The content is in some file, and so is every dictionary reading it takes
\* (unless another process took that one away).
Survives(part) ==
  \E p \in Files :
    /\ Holds(Content(p), part)
    /\ Dictionaries(Content(p)) \subseteq
         {Content(q) : q \in Files} \cup (IF moved THEN WasThere ELSE {})

\* Removing sources (--rm, gunzip, gzip) loses nothing: whatever was read from
\* a source that is gone can be read back from the files, at every moment and
\* after every fault or interruption.  The exception is a file whose
\* replacement was agreed to, by -f or by answering yes; under
\* --output-dir-flat not even then.
NothingLost ==
  \A part \in ghost.removed :
    \/ Survives(part)
    \/ ~GuardsOutputs /\ \E c \in ghost.consented : Holds(c, part)

\* A file under a name of its own is whole: no fault and no interruption ever
\* leaves part of an output there, but for a concatenation some input of which
\* failed to decode, which then fails the run; and no temporary outlives the
\* run, but for the old output where Windows could not put it back or away.
OutputsWhole ==
  /\ \A p \in Files : (\E i \in 1..Len(Content(p)) : Content(p)[i] = Broken) =>
       \/ IsTemporary(p) /\ pc # "done"
       \/ Content(p) \in WasThere
       \/ job.driver = "many" /\ job.failed > 0 /\ status # 0
  /\ pc = "done" /\ status # Killed =>
       \A p \in Files \ DOMAIN env.fs.at : IsTemporary(p) => env.windows /\ Content(p) \in WasThere

\* What a run that ends with status 0 owes: every input it did not skip, in
\* order, and nothing else.
Owed == SelectSeq(IF o.inputs = <<>> THEN <<Dash>> ELSE o.inputs,
                  LAMBDA q : q = Dash \/ ~SkipsAsCompressed(o, q))
\* A product is in its place, or made way for a later one's, or was a later
\* input.
Delivered(i) ==
  LET d == ghost.due[i]
  IN \/ d.sink # "file"
     \/ IsFile(fs, d.out) /\ Bytes(fs, d.out) = d.content
     \/ \E j \in (i + 1)..Len(ghost.due) : Place(d.out) \in {Place(ghost.due[j].out), Place(ghost.due[j].input)}

\* Status 0 tells the truth: every input was processed, what was written for
\* it reads back as what was read from it, it is where it was to go, and
\* several outputs in one are in the order of the inputs.  A list of status 0
\* named archives only.
ExitTells ==
  pc = "done" /\ status = 0 /\ o # None =>
    /\ job.driver \in {"each", "single", "many", "stdout"} =>
         /\ [i \in 1..Len(ghost.due) |-> ghost.due[i].input] = Owed
         /\ \A i \in 1..Len(ghost.due) :
              Plaintext(ghost.due[i].content) = Plaintext(ghost.due[i].source)
         /\ job.driver \in {"each", "single"} => \A i \in 1..Len(ghost.due) : Delivered(i)
         /\ job.driver = "many" /\ job.sink = "file" /\ ghost.due # <<>> =>
              Bytes(fs, job.out) = FlattenSeq([i \in 1..Len(ghost.due) |-> ghost.due[i].content])
         /\ pipe.out = FlattenSeq([i \in 1..Len(ghost.due) |->
                         IF ghost.due[i].sink = "stdout" THEN ghost.due[i].content ELSE <<>>])
    /\ o.mode = "List" /\ ~o.bench /\ ~moved =>
         \A q \in Range(o.inputs) : Bytes(fs, q) # <<>> /\ \A i \in 1..Len(Bytes(fs, q)) :
           Bytes(fs, q)[i].t \in {"frame", "skip"}


\* Two names that only the file system's case folding merges, of a file that
\* was not there: refuse_trace_alias does not tell them apart, and says so.
MergedByCase(q) ==
  ~Exists(env.fs, o.trace) /\ Place(q) = Place(o.trace) /\ q.base # o.trace.base

\* The trace goes into no file of the run: not into an input, a list or the
\* dictionary, and not into an output, under any of its names.
TraceApart ==
  o # None /\ pc \notin {"parse", "select"} =>
    \A q \in RunFiles(o) :
      IsFile(fs, q) /\ ~(o.trace # None /\ MergedByCase(q)) => \A i \in 1..Len(Bytes(fs, q)) : Bytes(fs, q)[i] # TraceLine

===============================================================================
