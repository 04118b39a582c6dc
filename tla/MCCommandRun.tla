---------------------------- MODULE MCCommandRun ----------------------------
(***************************************************************************)
(* Command lines in small worlds.  Every family below is about one part of *)
(* the command; in each of them up to MaxFaults calls fail, an             *)
(* interruption may come at any step, and in some another process acts.    *)
(***************************************************************************)
EXTENDS CommandRun

MCReal == [d \in {"/", "", ".", "..", "d", "out", "m", "m/d"} |->
             CASE d = "." -> "" [] d = ".." -> "/" [] OTHER -> d]
MCFolded == [b \in {"", "-", "a", "A", "b", "c", "u", "U", "dict", "list", "t", "o", "dictionary",
                    "cwd", "d", "out", "m"} |-> CASE b = "A" -> "a" [] b = "U" -> "u" [] OTHER -> b]
MCDirAt == [d \in {"/", "", "d", "out", "m", "m/d"} |->
              CASE d = "" -> Path("/", "cwd", <<>>) [] d = "/" -> Path("/", "", <<>>)
                [] d = "m/d" -> Path("m", "d", <<>>) [] OTHER -> Path("", d, <<>>)]
MCMirrored == [x \in {"m"} \X {"", ".", "..", "d"} |->
                 CASE x[2] = ".." -> None [] x[2] = "d" -> "m/d" [] OTHER -> "m"]
MCCompressBound(n) == n + n \div 8 + (IF n < 8 THEN (8 - n) \div 4 ELSE 0)
MCEncoderWorkspace(level, widest, dict) == 2 * level + Min2(widest, 8) + dict \div 2
MCShuffled(s) == Reverse(s)
MCTrainerTakes(n) == n >= 2
MCUnidentified == {Path("out", "u", <<"zst">>)}
MCMinLevel == -1
MCAttempts == <<"tmp0", "tmp1">>

Open == [mode |-> {"owner", "group", "world"}, gid |-> 1]
Private == [mode |-> {"owner"}, gid |-> 1]
Shared == [mode |-> {"owner", "group"}, gid |-> 2]

\* A file system of regular files <<path, content, permissions>>, of names
\* that are something else, and of the directories.
Dirs == {MCDirAt[d] : d \in {"", "d", "out"}}
World(files, others) ==
  [at |-> [p \in Dirs \cup DOMAIN others \cup {files[i][1] : i \in 1..Len(files)} |->
             CASE p \in DOMAIN others -> others[p]
               [] p \in {files[i][1] : i \in 1..Len(files)} ->
                    Regular(CHOOSE i \in 1..Len(files) : files[i][1] = p)
               [] OTHER -> Directory(CHOOSE d \in {"", "d", "out"} : MCDirAt[d] = p)],
   data |-> [i \in 1..Len(files) |-> files[i][2]],
   perm |-> [i \in 1..Len(files) |-> files[i][3]]]
Nothing == [p \in {} |-> None]
At(p, e) == [q \in {p} |-> e]

Run(words, fsys) ==
  [words |-> words, program |-> "zstd", level |-> 2, fs |-> fsys, stdin |-> <<Raw("s")>>,
   console |-> {}, closed |-> {}, windows |-> FALSE, created |-> Open, piped |-> <<Raw("p")>>,
   outsider |-> None, interrupted |-> TRUE]
Grows(p, c) == [path |-> p, does |-> "grows", bytes |-> c]
Swaps(p, c) == [path |-> p, does |-> "swaps", bytes |-> c]
Removes_(p) == [path |-> p, does |-> "removes"]
Links(p, q) == [path |-> p, does |-> "links", to |-> q]

W(opt) == [o |-> opt, v |-> TRUE]
V(opt, val) == [o |-> opt, v |-> val]
In(p) == V("input", p)
D == V("decompress", TRUE)
T == V("mode", "Test")
Rm == W("rm")
F == W("force")
Dict == V("use-dict", Path("", "dict", <<>>))

A == Path("", "a", <<>>)
A2 == Path(".", "A", <<>>)
AZ == Path("", "a", <<"zst">>)
AZD == Path("", "a", <<"zstd">>)
B == Path("", "b", <<>>)
BZ == Path("", "b", <<"zst">>)
DA == Path("d", "a", <<>>)
DBA == Path("d", "A", <<>>)
DU == Path("d", "u", <<>>)
DictP == Path("", "dict", <<>>)
ListP == Path("", "list", <<>>)
OutO == Path("", "o", <<>>)
TraceP == Path("", "t", <<>>)
Pa == <<Raw("x"), Raw("y")>>
Pb == <<Raw("z")>>
Pd == <<Raw("k")>>
Fa == <<Frame(Pa, <<>>, 1, 2)>>
Fb == <<Frame(Pb, <<>>, 1, None)>>
Fd == <<Frame(Pa, Pd, 1, 2)>>
Wide == <<Frame(Pa, <<>>, 16, 2)>>
Cut == <<[Frame(Pa, <<>>, 1, 2) EXCEPT !.whole = FALSE]>>
Stale == <<[Frame(Pa, <<>>, 1, 2) EXCEPT !.matches = FALSE]>>

Two == World(<< <<A, Pa, Private>>, <<B, Pb, Shared>> >>, Nothing)
Archives == World(<< <<AZ, Fa, Private>>, <<BZ, Fb, Open>> >>, Nothing)
WithDict == World(<< <<A, Pa, Open>>, <<DictP, Pd, Open>> >>, Nothing)

\* Separate outputs: beside, forced, asked about, removed, onto each other.
Separate == <<
  Run(<<In(A), In(B)>>, Two),
  Run(<<Rm, In(A), In(B)>>, Two),
  Run(<<Rm, F, In(A), In(AZ)>>, World(<< <<A, Pa, Open>>, <<AZ, Fb, Private>> >>, Nothing)),
  Run(<<Rm, In(A)>>, World(<< <<A, Pa, Private>>, <<AZ, Fb, Open>> >>, Nothing)),
  Run(<<Rm, W("keep"), In(A), In(DU)>>, Two),
  Run(<<D, Rm, F, In(AZ), In(AZD)>>, World(<< <<AZ, Fa, Open>>, <<AZD, Fb, Shared>> >>, Nothing)),
  Run(<<D, Rm, In(AZ), In(BZ)>>, Archives),
  Run(<<D, Rm, In(AZ), In(BZ), In(A)>>, World(<< <<AZ, Cut, Open>>, <<BZ, Stale, Open>> >>, Nothing)),
  [Run(<<In(AZ)>>, Archives) EXCEPT !.program = "gunzip"],
  [Run(<<In(A)>>, Two) EXCEPT !.program = "gzip"],
  [Run(<<V("format", "Zstd"), In(A)>>, Two) EXCEPT !.program = "gzip"],
  Run(<<Rm, In(A)>>, World(<< <<A, Pa, Open>> >>, At(AZ, Regular(1)))),
  Run(<<Rm, F, In(B), In(A)>>, World(<< <<A, Pa, Open>> >>, At(B, Link(A)))),
  Run(<<F, In(A)>>, World(<< <<A, Pa, Open>> >>, At(AZ, Link(B)))),
  Run(<<Rm, F, In(A)>>, World(<< <<A, Pa, Open>> >>, At(AZ, Special("char")))),
  Run(<<In(B), In(A)>>, World(<< <<A, Pa, Open>> >>, At(B, Special("block")))),
  Run(<<F, In(B), In(MCDirAt["d"])>>, World(<< <<A, Pa, Open>> >>, At(B, Special("block")))),
  Run(<<W("exclude-compressed"), In(AZ), In(A)>>, World(<< <<A, Pa, Open>>, <<AZ, Fa, Open>> >>, Nothing)),
  Run(<<T, Rm, In(AZ), In(BZ)>>, Archives),
  Run(<<T, In(AZ), V("pass-through", TRUE), In(A)>>, World(<< <<A, Pa, Open>>, <<AZ, Cut, Open>> >>, Nothing)),
  [Run(<<Rm, F, In(A)>>, World(<< <<A, Pa, Private>>, <<AZ, Fb, Open>> >>, Nothing)) EXCEPT !.windows = TRUE],
  [Run(<<Rm, In(A)>>, World(<< <<A, Pa, Open>> >>, Nothing)) EXCEPT !.outsider = Grows(A, Pb)],
  [Run(<<Rm, F, In(A)>>, World(<< <<A, Pa, Open>> >>, Nothing)) EXCEPT !.outsider = Links(AZ, B)],
  [Run(<<Rm, In(A)>>, World(<< <<A, Pa, Open>> >>, Nothing)) EXCEPT !.outsider = Removes_(A)],
  [Run(<<Rm, In(A), In(B)>>, Two) EXCEPT !.outsider = Swaps(A, Pd), !.interrupted = FALSE] >>

\* One destination for all of them.
Together == <<
  Run(<<V("output", OutO), In(A), In(B)>>, Two),
  Run(<<Rm, F, V("output", OutO), In(A), In(B)>>, World(<< <<A, Pa, Open>>, <<B, Pb, Open>>, <<OutO, Pd, Private>> >>, Nothing)),
  Run(<<D, F, V("output", OutO), In(AZ), In(BZ)>>, World(<< <<AZ, Cut, Open>>, <<BZ, Fb, Open>> >>, Nothing)),
  Run(<<D, F, V("output", OutO), In(AZ), In(B)>>, World(<< <<AZ, Cut, Open>>, <<OutO, Pd, Open>> >>, Nothing)),
  Run(<<F, V("output", B), In(A), In(Dash)>>, World(<< <<A, Pa, Open>> >>, At(B, Special("char")))),
  Run(<<V("output", OutO), In(A), In(Dash)>>, Two),
  Run(<<Rm, V("output", OutO), In(A)>>, Two),
  Run(<<Rm, V("output", OutO), In(A)>>, World(<< <<A, Pa, Private>>, <<OutO, Pd, Open>> >>, Nothing)),
  Run(<<V("output", OutO)>>, Two),
  Run(<<V("output", Path("m", "o", <<>>)), In(A)>>, Two),
  Run(<<F, In(A)>>, World(<< <<A, Pa, Open>>, <<Path("", "a", <<"zst", "tmp0">>), Pb, Open>>,
                             <<Path("", "a", <<"zst", "tmp1">>), Pb, Open>> >>, Nothing)),
  Run(<<F, V("output", A2), In(A)>>, Two),
  Run(<<Rm, F, V("output", B), In(A)>>, World(<< <<A, Pa, Open>> >>, At(B, Special("fifo")))),
  Run(<<W("exclude-compressed"), V("output", OutO), In(AZ)>>, Archives),
  Run(<<W("stdout"), Rm, In(A), In(Dash), In(B)>>, Two),
  Run(<<D, W("stdout"), In(AZ), In(B), In(BZ)>>, World(<< <<AZ, Stale, Open>>, <<B, Pb, Open>>, <<BZ, Fb, Open>> >>, Nothing)),
  [Run(<<In(AZ), In(B)>>, World(<< <<AZ, Fa, Open>>, <<B, <<Raw("gz")>>, Open>> >>, Nothing)) EXCEPT !.program = "zstdcat"],
  [Run(<<In(A), In(AZ)>>, World(<< <<AZ, Fa, Open>>, <<A, Pa, Open>> >>, Nothing)) EXCEPT !.program = "zstdcat"],
  Run(<<In(A), In(B)>>, World(<< <<A, Pa, Open>> >>, At(B, Special("fifo")))),
  [Run(<<>>, Two) EXCEPT !.console = {"stdout"}],
  [Run(<<W("quiet"), V("output", OutO), In(A), In(B)>>, Two) EXCEPT !.console = {"stdin"}],
  [Run(<<V("stream-size", 2)>>, Two) EXCEPT !.console = {"stderr"}],
  [Run(<<D>>, Two) EXCEPT !.console = {"stdin"}],
  [Run(<<D, F>>, Two) EXCEPT !.stdin = Fa, !.console = {"stdin"}] >>

\* --output-dir-flat, --output-dir-mirror, -r and --filelist.
Trees == <<
  Run(<<Rm, V("output-dir-flat", "out"), In(A), In(DA)>>, World(<< <<A, Pa, Open>>, <<DA, Pb, Open>> >>, Nothing)),
  Run(<<V("output-dir-flat", "out"), F, In(A), In(DA)>>, World(<< <<A, Pa, Open>>, <<DA, Pb, Open>> >>, Nothing)),
  Run(<<Rm, F, V("output-dir-flat", "out"), In(A), In(DBA), In(B)>>,
      World(<< <<A, Pa, Open>>, <<DA, Pb, Open>>, <<B, Pd, Open>> >>, Nothing)),
  Run(<<Rm, F, V("output-dir-flat", "out"), In(DU), In(Path("", "U", <<>>))>>,
      World(<< <<DU, Pa, Open>>, <<Path("", "u", <<>>), Pb, Open>> >>, Nothing)),
  Run(<<D, Rm, F, V("output-dir-flat", "out"), In(AZ), In(Path("d", "A", <<"zstd">>))>>,
      World(<< <<AZ, Fa, Open>>, <<Path("d", "a", <<"zstd">>), Fb, Open>> >>, Nothing)),
  Run(<<Rm, V("output-dir-mirror", "m"), In(A), In(DA)>>, World(<< <<A, Pa, Open>>, <<DA, Pb, Open>> >>, Nothing)),
  Run(<<V("output-dir-mirror", "m"), In(DA), In(Path("..", "a", <<>>))>>,
      World(<< <<DA, Pb, Open>>, <<Path("", "m", <<>>), Pd, Open>>, <<Path("/", "a", <<>>), Pa, Open>> >>, Nothing)),
  [Run(<<Rm, W("recursive"), In(MCDirAt["d"]), In(B)>>, World(<< <<DA, Pa, Open>>, <<B, Pb, Open>> >>,
        At(Path("d", "c", <<>>), Directory("d")))) EXCEPT !.interrupted = FALSE],
  [Run(<<W("recursive"), In(MCDirAt["d"]), In(B)>>, World(<< <<DA, Pa, Open>>, <<B, Pb, Open>> >>, Nothing))
     EXCEPT !.closed = {"d"}],
  [Run(<<W("recursive"), W("ignore-read-errors"), In(MCDirAt["d"])>>, World(<< <<DA, Pa, Open>> >>, Nothing))
     EXCEPT !.closed = {"d"}],
  Run(<<V("filelist", ListP), In(A)>>, World(<< <<A, Pa, Open>>, <<B, Pb, Open>>, <<ListP, <<Name(B)>>, Open>> >>, Nothing)),
  Run(<<V("filelist", B)>>, World(<< <<A, Pa, Open>> >>, Nothing)),
  Run(<<V("filelist", ListP)>>, World(<< <<ListP, <<>>, Open>> >>, Nothing)),
  Run(<<V("filelist", ListP), W("bench")>>, World(<< <<ListP, <<>>, Open>> >>, Nothing)),
  Run(<<In(B)>>, World(<< <<A, Pa, Open>> >>, At(B, Link(A)))) >>

\* Dictionaries, patches and windows.
WithArchive == World(<< <<AZ, Fd, Open>>, <<DictP, Pd, Open>> >>, Nothing)
Limit(n) == V("memory", [n |-> n, unit |-> TRUE])
Dictionary == <<
  Run(<<Rm, Dict, In(A)>>, WithDict),
  Run(<<Rm, Dict, In(DictP)>>, WithDict),
  Run(<<Rm, Dict, In(B)>>, World(<< <<DictP, Pd, Open>> >>, At(B, Regular(1)))),
  Run(<<Rm, Dict, In(B), In(A)>>, WithDict),
  Run(<<F, Dict, V("output", DictP), In(A)>>, WithDict),
  Run(<<F, V("use-dict", AZ), In(A)>>, World(<< <<A, Pa, Open>>, <<AZ, Pd, Open>> >>, Nothing)),
  Run(<<D, Rm, Dict, In(AZ)>>, WithArchive),
  Run(<<D, Rm, In(AZ)>>, WithArchive),
  Run(<<D, Dict, Limit(12), In(AZ)>>, WithArchive),
  Run(<<D, Dict, Limit(11), In(AZ)>>, WithArchive),
  [Run(<<D, Dict, Limit(12), In(AZ)>>, WithArchive) EXCEPT !.outsider = Grows(DictP, Pa)],
  [Run(<<D, Dict, Limit(12), In(AZ)>>, WithArchive) EXCEPT !.outsider = Swaps(DictP, Pa)],
  [Run(<<Rm, Dict, In(A)>>, WithDict) EXCEPT !.outsider = Swaps(DictP, Pb)],
  Run(<<V("patch-from", DictP), Rm, In(A)>>, WithDict),
  Run(<<V("patch-from", DictP), In(A), In(B)>>, WithDict),
  Run(<<V("patch-from", DictP)>>, WithDict),
  Run(<<V("patch-from", DictP), V("stream-size", 1)>>, WithDict),
  Run(<<V("patch-from", B), In(A)>>, WithDict),
  Run(<<V("patch-from", DictP), Dict, In(A)>>, WithDict),
  Run(<<Limit(20), V("patch-apply", DictP), In(AZ)>>, World(<< <<AZ, Fd, Open>>, <<DictP, Pd, Open>> >>, Nothing)),
  Run(<<V("long", None), In(A)>>, Two),
  Run(<<V("long", 5), In(A)>>, Two),
  Run(<<D, In(AZ)>>, World(<< <<AZ, Wide, Open>> >>, Nothing)),
  Run(<<D, V("long", 4), In(AZ)>>, World(<< <<AZ, Wide, Open>> >>, Nothing)),
  Run(<<D, Limit(16), In(AZ)>>, World(<< <<AZ, Wide, Open>> >>, Nothing)),
  Run(<<D, Limit(16), V("use-dict", MCDirAt["d"]), In(AZ)>>, World(<< <<AZ, Wide, Open>> >>, Nothing)) >>

\* --trace beside the files of the run, over each of them, and under another
\* of their names.
Trace(p) == V("trace", p)
Traces == <<
  Run(<<Trace(TraceP), In(A), In(B)>>, Two),
  Run(<<D, Trace(TraceP), W("stdout"), In(AZ), In(BZ)>>, World(<< <<AZ, Fa \o Fb \o Fa, Open>>, <<BZ, Fb, Open>>, <<TraceP, Pd, Open>> >>, Nothing)),
  Run(<<Trace(A2), In(A)>>, Two),
  Run(<<Trace(AZ), In(A)>>, Two),
  Run(<<F, Trace(Path(".", "A", <<"zst">>)), In(A)>>, Two),
  Run(<<Trace(TraceP), F, In(A)>>, World(<< <<A, Pa, Open>> >>, At(TraceP, Link(AZ)))),
  Run(<<Trace(TraceP), In(A)>>, World(<< <<A, Pa, Open>> >>, At(TraceP, Regular(1)))),
  Run(<<Trace(DictP), Dict, In(A)>>, WithDict),
  Run(<<Trace(OutO), V("output", OutO), In(A)>>, Two),
  Run(<<Trace(OutO), V("output", OutO), W("exclude-compressed"), In(AZ)>>, Archives),
  Run(<<Trace(ListP), V("filelist", ListP)>>, World(<< <<A, Pa, Open>>, <<ListP, <<Name(A)>>, Open>> >>, Nothing)),
  Run(<<Trace(Path("", "m", <<>>)), V("output-dir-mirror", "m"), In(DA)>>, World(<< <<DA, Pb, Open>> >>, Nothing)),
  Run(<<Trace(Path("m", "t", <<>>)), In(A)>>, Two),
  Run(<<W("bench"), Trace(TraceP), In(A)>>, Two),
  Run(<<W("bench"), Trace(B), In(A)>>, Two),
  Run(<<W("bench"), Trace(Path("m", "t", <<>>)), In(A)>>, Two),
  Run(<<W("bench"), Trace(A), In(A)>>, Two) >>

\* -b and --train within -M.
Bench == W("bench")
Samples == World(<< <<A, <<Raw("x"), Raw("y"), Raw("x"), Raw("y")>>, Open>>, <<B, Pa, Shared>>,
                    <<DU, <<>>, Open>>, <<DictP, Pd, Private>> >>, Nothing)
Trains == V("mode", "Train")
TrainWords == <<Trains, V("block-size", 1), In(A), In(DU), In(B)>>
Whole == <<
  Run(<<Bench, V("block-size", 3)>>, Two),
  Run(<<Bench, Dict>>, Two),
  Run(<<Bench, Dict, Limit(34), In(A), In(DU)>>, Samples),
  Run(<<Bench, Dict, Limit(33), In(A), In(DU)>>, Samples),
  Run(<<Bench, Limit(60), V("level", 1), V("bench-end", 3), W("separately"), V("block-size", 2), In(A), In(B)>>, Samples),
  Run(<<Bench, V("level", 4), V("bench-end", 9), In(DU)>>, Samples),
  Run(<<Bench, In(Dash)>>, Two),
  Run(<<Bench, In(MCDirAt["d"])>>, Two),
  Run(<<Bench, Limit(64), V("long", 4), In(A)>>, Two),
  Run(<<Bench, Limit(24), V("wlog", 4), In(A)>>, Two),
  [Run(<<Bench, Limit(30), In(A), In(B)>>, Two) EXCEPT !.outsider = Grows(B, Pa)],
  [Run(<<Bench, D, Limit(30), In(AZ), In(BZ)>>, World(<< <<AZ, Fa, Open>>, <<BZ, Fa, Open>> >>, Nothing))
     EXCEPT !.outsider = Swaps(BZ, Fa \o Fa)],
  Run(<<Bench, D, W("separately"), Dict, Limit(16), In(AZ), In(BZ)>>,
      World(<< <<AZ, Fd, Open>>, <<BZ, Wide, Open>>, <<DictP, Pd, Open>> >>, Nothing)),
  Run(<<Bench, D, In(BZ)>>, Archives),
  Run(<<Bench, D>>, Archives),
  Run(TrainWords, Samples),
  Run(TrainWords \o <<Limit(9)>>, Samples),
  Run(TrainWords \o <<Limit(3)>>, Samples),
  Run(TrainWords \o <<V("output", DictP)>>, Samples),
  Run(TrainWords \o <<V("output", A2)>>, Samples),
  Run(<<Trains, In(A), In(B)>>, Samples),
  Run(<<Trains, In(A), In(B), In(A), In(B), In(A)>>, Samples),
  Run(<<Trains>>, Samples),
  Run(<<Trains, In(Dash)>>, Samples),
  Run(TrainWords \o <<V("output", TraceP)>>, [Samples EXCEPT !.at = @ @@ At(TraceP, Special("char"))]),
  [Run(TrainWords, Samples) EXCEPT !.outsider = Grows(A, Pa)] >>

\* --list, and command lines that say little or contradict themselves.
Huge == <<Frame(Pa, <<>>, 1, MaxSize)>>
List == V("mode", "List")
Words == <<
  Run(<<List, In(AZ), In(BZ)>>, Archives),
  Run(<<List, In(AZ), In(BZ)>>, World(<< <<AZ, Fa \o <<Skippable>> \o Fd, Open>>, <<BZ, Cut, Open>> >>, Nothing)),
  Run(<<List, In(AZ), In(BZ)>>, World(<< <<AZ, Huge, Open>>, <<BZ, Fa, Open>> >>, Nothing)),
  Run(<<List, In(AZ)>>, World(<< <<AZ, Huge \o Fa, Open>> >>, Nothing)),
  Run(<<List, In(A)>>, Two),
  Run(<<List>>, Two),
  Run(<<W("help")>>, Two), Run(<<W("nonsense")>>, Two), Run(<<V("level", Bad)>>, Two),
  Run(<<V("memory", [n |-> 100, unit |-> FALSE])>>, Two),
  Run(<<D, V("memory", [n |-> 0, unit |-> FALSE]), In(AZ)>>, Archives),
  Run(<<D, Limit(9), In(AZ)>>, Archives),
  Run(<<V("format", "Gzip"), In(A)>>, Two),
  Run(<<W("adapt"), V("threads", 0), In(A)>>, Two),
  Run(<<W("max"), In(A)>>, Two), Run(<<V("wlog", 6), In(A)>>, Two), Run(<<V("knob", 9), In(A)>>, Two),
  Run(<<W("show-default-cparams"), D, In(AZ)>>, Archives),
  Run(<<W("ultra"), W("tuning"), W("verbose"), V("knob", 0), V("level", 4), In(A)>>, Two),
  Run(<<V("output", OutO), W("stdout"), Bench, V("mode", "Compress"), In(A)>>, Two),
  Run(<<D, V("pass-through", TRUE), V("output", OutO), In(A)>>, Two),
  Run(<<D, V("output", OutO), In(AZ)>>, World(<< <<AZ, Fa \o <<Skippable>> \o Fb, Open>> >>, Nothing)),
  [Run(<<D, F, W("stdout"), In(A)>>, World(<< <<A, <<>>, Open>> >>, Nothing)) EXCEPT !.stdin = <<>>] >>

\* Every combination of the options that decide what is read, written and
\* removed, over one world with archives, plain files, other names for them
\* and an output in the way.
Digit(i, places, base) == 1 + ((i \div places) % base)
Inputs == << <<In(A), In(BZ)>>, <<In(AZ), In(AZD)>>, <<In(DA), In(A2)>>, <<In(BZ), In(Dash)>>,
             <<In(AZ), In(DictP)>> >>
Destinations == << <<>>, <<V("output-dir-flat", "out")>>, <<V("output", OutO)>>,
                   <<V("output-dir-mirror", "m")>> >>
Flags(f) == << <<>>, <<f>> >>
Rich == World(<< <<A, Pa, Private>>, <<AZ, Fd, Open>>, <<AZD, Fb, Shared>>, <<BZ, Fa, Open>>,
                 <<DA, Pb, Private>>, <<DictP, Pd, Open>>, <<OutO, Pb, Open>> >>,
              At(Path("out", "a", <<"zst">>), Link(A)))
Combined(i) ==
  [Run(Flags(D)[Digit(i, 1, 2)] \o Flags(Rm)[Digit(i, 2, 2)] \o Flags(F)[Digit(i, 4, 2)]
         \o Flags(Dict)[Digit(i, 8, 2)] \o Destinations[Digit(i, 16, 4)] \o Inputs[Digit(i, 64, 5)], Rich)
     EXCEPT !.windows = Digit(i, 320, 2) = 2]
Combinations == [i \in 1..640 |-> Combined(i)]

MCScenarios == Combinations \o Separate \o Together \o Trees \o Dictionary \o Traces \o Whole \o Words
=============================================================================
