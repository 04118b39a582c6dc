---------------------------- MODULE CommandLine -----------------------------
(***************************************************************************)
(* The command line and its surroundings: the files, the options, the      *)
(* inputs they select and the memory the command may take.                 *)
(***************************************************************************)
EXTENDS Integers, Sequences, SequencesExt, FiniteSets

(***************************************************************************)
(* What the command reads and writes: the content of a file as a sequence  *)
(* of items, what compressing and decoding it gives (compress_stream,      *)
(* decode_or_pass), and what --list says of it (summarize_archive).        *)
(*                                                                         *)
(* An item is raw data, one frame, or a skippable frame.  A frame has the  *)
(* content it was made from, the dictionary it needs (empty for none), its *)
(* window, the content size its header claims (None when it claims none),  *)
(* whether its last block is there and whether its checksum matches.       *)
(* Every raw or skippable item counts as one byte, a frame as two.         *)
(***************************************************************************)

CONSTANTS
  None,         \* no size claimed, no entry, an option not given
  MaxSize,      \* the largest u64
  Foreign       \* the raw data that begins like another compressor's stream

Raw(v) == [t |-> "raw", v |-> v]
Skippable == [t |-> "skip"]
Frame(body, dict, window, claim) ==
  [t |-> "frame", body |-> body, dict |-> dict, window |-> window, claim |-> claim,
   whole |-> TRUE, matches |-> TRUE]
\* The bytes a failed write leaves behind: no complete item.
Broken == [t |-> "broken"]

ItemSize(i) == IF i.t = "frame" THEN 2 ELSE 1
Size(c) == FoldLeft(LAMBDA n, i : n + ItemSize(i), 0, c)

(***************************************************************************)
(* compress_stream: one frame of the whole input.  The size pledged goes   *)
(* into the header and an input of another length fails the frame.         *)
(***************************************************************************)
Encode(c, dict, window, pledged) ==
  IF pledged # None /\ pledged # Size(c)
  THEN [ok |-> FALSE, out |-> <<Broken>>, passed |-> FALSE]
  ELSE [ok |-> TRUE, out |-> <<Frame(c, dict, window, pledged)>>, passed |-> FALSE]

\* What decoding one frame gives before it ends or fails.  A frame made with a
\* dictionary needs that one; the dictionary given is no harm to another.  A
\* checksum is compared after the content was handed on.
DecodeFrame(f, dict, max_window) ==
  CASE f.window > max_window -> [ok |-> FALSE, out |-> <<>>]
    [] f.dict # <<>> /\ f.dict # dict -> [ok |-> FALSE, out |-> <<>>]
    [] ~f.whole -> [ok |-> FALSE, out |-> <<Broken>>]
    [] ~f.matches \/ (f.claim # None /\ f.claim # Size(f.body)) ->
         [ok |-> FALSE, out |-> Append(f.body, Broken)]
    [] OTHER -> [ok |-> TRUE, out |-> f.body]

\* decode_or_pass, decode_frames: one item after the other; only input that is
\* no frame from its first byte is passed through, and what follows a frame
\* without being one fails the stream.
DecodeOrPass(c, dict, pass_through, max_window) ==
  LET Step(s, i) ==
        IF ~s.ok \/ s.passed THEN s
        ELSE CASE c[i].t = "skip" -> [s EXCEPT !.frames = @ + 1]
               [] c[i].t = "frame" ->
                    LET d == DecodeFrame(c[i], dict, max_window)
                    IN [s EXCEPT !.frames = @ + 1, !.ok = d.ok, !.out = @ \o d.out]
               [] c[i].t = "raw" /\ c[i].v \in Foreign -> [s EXCEPT !.ok = FALSE]
               [] OTHER -> IF pass_through /\ s.frames = 0
                           THEN [s EXCEPT !.out = c, !.passed = TRUE]
                           ELSE [s EXCEPT !.ok = FALSE]
      end == FoldLeft(Step, [ok |-> TRUE, out |-> <<>>, frames |-> 0, passed |-> FALSE],
                      [i \in 1..Len(c) |-> i])
  IN IF c = <<>>
     THEN [ok |-> pass_through, out |-> <<>>, frames |-> 0, passed |-> TRUE]
     ELSE end

(***************************************************************************)
(* --list: the walk over frame headers and block headers.                  *)
(***************************************************************************)
NoSummary == [ok |-> FALSE]
EmptySummary == [ok |-> TRUE, frames |-> 0, skips |-> 0, known |-> TRUE, decompressed |-> 0,
                 check |-> FALSE, dict |-> <<>>, agree |-> TRUE, window |-> 0]

\* One data frame of the walk.  The declared sizes are summed with checked
\* arithmetic, and one frame without a size makes the total unknown.
SummarizeFrame(s, f) ==
  LET total == s.decompressed + (IF f.claim = None THEN 0 ELSE f.claim)
      first == s.frames = s.skips
  IN IF ~f.whole \/ (s.known /\ f.claim # None /\ total > MaxSize) THEN NoSummary
     ELSE [s EXCEPT !.frames = @ + 1,
                    !.known = @ /\ f.claim # None,
                    !.decompressed = IF s.known /\ f.claim # None THEN total ELSE @,
                    !.check = TRUE,
                    !.dict = IF first THEN f.dict ELSE @,
                    !.agree = @ /\ (first \/ s.dict = f.dict),
                    !.window = IF f.window > @ THEN f.window ELSE @]

SummarizeArchive(c) ==
  LET Step(s, i) ==
        CASE ~s.ok -> s
          [] i.t = "skip" -> [s EXCEPT !.frames = @ + 1, !.skips = @ + 1]
          [] i.t = "frame" -> SummarizeFrame(s, i)
          [] OTHER -> NoSummary
  IN IF c = <<>> THEN NoSummary ELSE FoldLeft(Step, EmptySummary, c)

\* The closing row: it is dropped, and the run fails, when a total outgrows
\* 64 bits; nothing is added to a total once one archive's size is unknown.
ListTotal(t, s) ==
  LET sum == t.decompressed + (IF t.known /\ s.known THEN s.decompressed ELSE 0)
  IN [ok |-> t.ok /\ sum <= MaxSize, known |-> t.known /\ s.known, decompressed |-> sum,
      files |-> t.files + 1]

(***************************************************************************)
(* The data a content stands for: what is left when every frame of it is   *)
(* decoded with the dictionary it was made with.                           *)
(***************************************************************************)
RECURSIVE Plaintext(_)
Plaintext(c) ==
  IF c = <<>> THEN <<>>
  ELSE (CASE c[1].t = "frame" -> Plaintext(c[1].body)
          [] c[1].t = "skip" -> <<>>
          [] OTHER -> <<c[1]>>) \o Plaintext(Tail(c))

\* The dictionaries that reading it takes.
RECURSIVE Dictionaries(_)
Dictionaries(c) ==
  UNION {IF c[i].t = "frame"
         THEN ({c[i].dict} \ {<<>>}) \cup Dictionaries(c[i].body) ELSE {} : i \in 1..Len(c)}

(***************************************************************************)
(* The file system the command runs over, as main.rs, inputs.rs and        *)
(* identity.rs use it through std::fs: names, what each of them is, and    *)
(* the bytes behind the regular files.                                     *)
(*                                                                         *)
(* A path is a directory, a stem and the extensions after it; `-` is the   *)
(* path Dash.  Two paths may be spellings of one place: Real gives the     *)
(* directory a spelling leads to and Folded the name a case-insensitive    *)
(* file system files a stem under.  A place holds nothing, or an entry:    *)
(* a regular file (its inode), a symbolic link (the path it names), a      *)
(* directory, a named pipe or a device.  Inodes are numbered; two regular  *)
(* entries with one inode are hard links.                                  *)
(***************************************************************************)

CONSTANTS
  Real,         \* spelling of a directory -> the directory it leads to
  Folded,       \* stem -> the stem the file system files it under
  DirAt,        \* directory -> the path that names it
  Unidentified  \* the places whose file the platform gives no identity for

Path(d, b, e) == [dir |-> d, base |-> b, ext |-> e]
Dash == Path("", "-", <<>>)

\* What one name of the file system is.
Regular(i) == [kind |-> "file", ino |-> i]
Link(p) == [kind |-> "link", to |-> p]
Directory(d) == [kind |-> "dir", in |-> d]
Special(k) == [kind |-> k]

\* The place a path leads to; the directory and the case of a name are the
\* file system's business.
Place(p) == [p EXCEPT !.dir = Real[@], !.base = Folded[@]]

\* A path under the given directory with the same file name.
Join(d, p) == [p EXCEPT !.dir = d]
FileName(p) == <<p.base, p.ext>>

\* fs.at maps the places that hold something to their entries, fs.data the
\* inodes to their content and fs.perm to who may read it.
Entry(fs, p) == IF Place(p) \in DOMAIN fs.at THEN fs.at[Place(p)] ELSE None

\* The number of links one lookup follows: the kernel's 40, here the longest
\* chain the instances hold.
MaxLinks == 2
RECURSIVE Followed(_, _, _)
Followed(fs, p, n) ==
  LET e == Entry(fs, p)
  IN IF e # None /\ e.kind = "link" /\ n > 0 THEN Followed(fs, e.to, n - 1) ELSE p

\* fs::canonicalize, for a path that leads to something.
Canonical(fs, p) == Place(Followed(fs, p, MaxLinks))
\* fs::symlink_metadata and fs::metadata: the entry, links not followed and
\* followed.
Lstat(fs, p) == Entry(fs, p)
Stat(fs, p) ==
  LET e == Entry(fs, Followed(fs, p, MaxLinks))
  IN IF e # None /\ e.kind = "link" THEN None ELSE e
Exists(fs, p) == Stat(fs, p) # None
IsKind(fs, p, k) == Exists(fs, p) /\ Stat(fs, p).kind = k
IsFile(fs, p) == IsKind(fs, p, "file")
IsDir(fs, p) == IsKind(fs, p, "dir")
DirExists(fs, d) == IsDir(fs, DirAt[Real[d]])
\* The entries read_dir lists, spelled under the directory as it was named.
Listing(fs, d) == {Join(d, q) : q \in {q \in DOMAIN fs.at : q.dir = Real[d]}}
IsSymlink(fs, p) == Entry(fs, p) # None /\ Entry(fs, p).kind = "link"

\* The bytes a reader of the path gets.
Bytes(fs, p) == fs.data[Stat(fs, p).ino]

\* identity::of_path: device and inode on Unix, volume and file id on
\* Windows, nothing where the platform reads none.
OfPath(fs, p) ==
  LET e == Stat(fs, p)
  IN CASE e = None -> None
       [] Canonical(fs, p) \in Unidentified -> None
       [] e.kind = "file" -> [ino |-> e.ino, at |-> None]
       [] OTHER -> [ino |-> 0, at |-> Canonical(fs, p)]

(***************************************************************************)
(* The calls that change it.                                               *)
(***************************************************************************)

\* open with create_new, and open with append and create.
CreateFile(fs, p, bytes, perm) ==
  LET place == Place(Followed(fs, p, MaxLinks))
      i == 1 + Len(fs.data)
  IN [at |-> [q \in DOMAIN fs.at \cup {place} |-> IF q = place THEN Regular(i) ELSE fs.at[q]],
      data |-> Append(fs.data, bytes), perm |-> Append(fs.perm, perm)]
\* fs::set_permissions.
SetPermissions(fs, p, mode) == [fs EXCEPT !.perm[Stat(fs, p).ino].mode = mode]
PermissionsOf(fs, p) == fs.perm[Stat(fs, p).ino]
\* write_all on an open file.
WriteInode(fs, i, bytes) == [fs EXCEPT !.data[i] = @ \o bytes]
\* fs::remove_file: the name goes, whatever it is; the inode stays as long as
\* it is named or open, and the model never reuses one.
RemoveName(fs, p) ==
  [fs EXCEPT !.at = [q \in DOMAIN fs.at \ {Place(p)} |-> fs.at[q]]]
\* fs::rename over whatever the new name was.
Rename(fs, from, to) ==
  [fs EXCEPT !.at = [q \in (DOMAIN fs.at \ {Place(from)}) \cup {Place(to)} |->
                       IF q = Place(to) THEN fs.at[Place(from)] ELSE fs.at[q]]]
\* DirBuilder::create.
MakeDir(fs, d) ==
  [fs EXCEPT !.at = [q \in DOMAIN fs.at \cup {Place(DirAt[d])} |->
                       IF q = Place(DirAt[d]) THEN Directory(d) ELSE fs.at[q]]]

(***************************************************************************)
(* The command line: its options, the files it selects, and the memory it  *)
(* may take for them.                                                      *)
(***************************************************************************)

(***************************************************************************)
(* The command line of the structured-zstd binary: what parse_args_into    *)
(* makes of the words it is given, one after the other, and the checks it  *)
(* closes with.                                                            *)
(*                                                                         *)
(* A word is a record [o, v]: the option it spells and its value.  The     *)
(* spellings of one option (`-d`, `--decompress`, a letter of a cluster,   *)
(* a value attached or in the next argument) are one word; a value that    *)
(* is not there, or does not parse, is Bad.  Options that shape only the   *)
(* bytes of a frame or the wording of a report are the word "tuning", and  *)
(* a knob of --zstd= other than the window log is "knob".                  *)
(***************************************************************************)

CONSTANTS
  Bad,                   \* an option's value that cannot be read
  MinLevel, MaxLevel,    \* CompressionLevel::MIN_LEVEL, MAX_LEVEL
  PlainMaxLevel,         \* CLI_MAX_LEVEL_WITHOUT_ULTRA
  MebiByte,              \* the unit of a bare -M number, 2^20 bytes
  DefaultWindow,         \* MAXIMUM_ALLOWED_WINDOW_SIZE
  WidestWindow,          \* MAX_DECODER_WINDOW_SIZE
  AuxiliaryBytes,        \* DECODER_AUXILIARY_BYTES
  MinWindowLog,          \* the lower bound of CParameter::WindowLog
  EncoderWindowLog,      \* its upper bound
  DecoderWindowLog,      \* MAX_DECODER_WINDOW_SIZE.ilog2()
  DefaultLongWindowLog,  \* DEFAULT_LONG_WINDOW_LOG, what a bare --long asks for
  KnobBound              \* the upper bound of the other knobs

Min2(a, b) == IF a < b THEN a ELSE b
Max2(a, b) == IF a > b THEN a ELSE b
Clamp(n, lo, hi) == Max2(lo, Min2(n, hi))

\* The tool a name of the program stands for.
Plain == [mode |-> "Compress", to_stdout |-> FALSE, force |-> FALSE, remove_source |-> FALSE,
          format |-> "Zstd", level |-> None, pass_through |-> None, verbosity |-> 2]
ProgramPreset(name) ==
  CASE name = "unzstd" -> [Plain EXCEPT !.mode = "Decompress"]
    [] name = "zstdcat" -> [Plain EXCEPT !.mode = "Decompress", !.to_stdout = TRUE,
                                         !.force = TRUE, !.pass_through = TRUE, !.verbosity = 1]
    [] name = "gunzip" -> [Plain EXCEPT !.mode = "Decompress", !.remove_source = TRUE]
    [] name = "gzip" -> [Plain EXCEPT !.format = "Gzip", !.remove_source = TRUE, !.level = 2]
    [] OTHER -> Plain

\* The options before the first word is read.
InitialOptions(preset, env_level) ==
  [mode |-> preset.mode, level |-> IF preset.level = None THEN env_level ELSE preset.level,
   dict |-> None, to_stdout |-> preset.to_stdout, output |-> None, force |-> preset.force,
   keep |-> FALSE, remove_source |-> preset.remove_source, format |-> preset.format,
   inputs |-> <<>>, filelists |-> <<>>, recursive |-> FALSE, ignore_read_errors |-> FALSE,
   follow_links |-> preset.force, force_stdin |-> preset.force, exclude_compressed |-> FALSE,
   output_dir |-> None, output_dir_mirror |-> None, pass_through |-> preset.pass_through,
   verbosity |-> preset.verbosity, threads |-> None, adapt |-> FALSE,
   bench |-> FALSE, bench_decode_only |-> preset.mode = "Decompress",
   bench_start |-> 0, bench_end |-> 0, bench_separately |-> FALSE, block_size |-> None,
   memory_limit |-> None, patch_window_lifted |-> FALSE, patch_from |-> None,
   long |-> FALSE, long_window_log |-> None, window_log |-> None, knob |-> None,
   decode_window |-> DefaultWindow, pledged_size |-> None, trace |-> None,
   show_default_cparams |-> FALSE]

\* The scan in progress: the options so far, whether --ultra was implied, -e,
\* and how the scan ended.
Scan(o) == [o |-> o, ultra |-> FALSE, bench_end |-> None, ended |-> "no"]

SelectMode(o, mode) ==
  [o EXCEPT !.mode = mode, !.bench = FALSE, !.bench_decode_only = (mode = "Decompress")]

SelectDecompression(o) ==
  IF o.bench THEN [o EXCEPT !.bench_decode_only = TRUE] ELSE SelectMode(o, "Decompress")

Decodes(o) == o.bench \/ o.mode \in {"Decompress", "Test"}
Compresses(o) == o.bench \/ o.mode = "Compress"
ClampLevel(n) == Clamp(n, MinLevel, MaxLevel)
MaxWindowLog == Min2(EncoderWindowLog, DecoderWindowLog)

\* A number with a unit: checked arithmetic, a bare number in MiB, zero the
\* default.
ParseMemoryLimit(v) ==
  LET bytes == IF v.unit THEN v.n ELSE v.n * MebiByte
  IN CASE bytes > MaxSize -> Bad
       [] bytes = 0 -> None
       [] OTHER -> bytes

\* The later -M replaces the earlier one and the window a patch lifted.
SetMemoryLimit(o, v) ==
  [o EXCEPT !.memory_limit = ParseMemoryLimit(v), !.patch_window_lifted = FALSE]

(***************************************************************************)
(* The arms of the scan that touch the options alone.                      *)
(***************************************************************************)
ModeWord(o, w) ==
  CASE w.o = "decompress" -> SelectDecompression(o)
    [] w.o = "bench" -> [o EXCEPT !.bench = TRUE]
    [] OTHER -> SelectMode(o, w.v)

\* `-c` and `-o` name competing destinations: the later one clears the other.
DestinationWord(o, w) ==
  CASE w.o = "stdout" -> [o EXCEPT !.to_stdout = TRUE, !.output = None]
    [] w.o = "output" -> [o EXCEPT !.output = w.v, !.to_stdout = FALSE]
    [] w.o = "output-dir-flat" -> [o EXCEPT !.output_dir = w.v]
    [] w.o = "output-dir-mirror" -> [o EXCEPT !.output_dir_mirror = w.v]
    [] w.o = "trace" -> [o EXCEPT !.trace = w.v]

SwitchWord(o, w) ==
  CASE w.o = "force" -> [o EXCEPT !.force = TRUE, !.force_stdin = TRUE, !.follow_links = TRUE]
    [] w.o = "keep" -> [o EXCEPT !.keep = TRUE]
    [] w.o = "rm" -> [o EXCEPT !.remove_source = TRUE]
    [] w.o = "quiet" -> [o EXCEPT !.verbosity = @ - 1]
    [] w.o = "verbose" -> [o EXCEPT !.verbosity = @ + 1]
    [] w.o = "pass-through" -> [o EXCEPT !.pass_through = w.v]
    [] w.o = "exclude-compressed" -> [o EXCEPT !.exclude_compressed = TRUE]
    [] w.o = "ignore-read-errors" -> [o EXCEPT !.ignore_read_errors = TRUE]
    [] w.o = "show-default-cparams" -> [o EXCEPT !.show_default_cparams = TRUE]
    [] w.o = "recursive" -> [o EXCEPT !.recursive = TRUE]
    [] w.o = "separately" -> [o EXCEPT !.bench_separately = TRUE]
    [] w.o = "adapt" -> [o EXCEPT !.adapt = TRUE]
    [] w.o = "tuning" -> o

NumberWord(o, w) ==
  CASE w.o = "level" -> [o EXCEPT !.level = w.v]
    [] w.o = "threads" -> [o EXCEPT !.threads = w.v]
    [] w.o = "block-size" -> [o EXCEPT !.block_size = IF w.v = 0 THEN None ELSE w.v]
    [] w.o = "stream-size" -> [o EXCEPT !.pledged_size = w.v]
    [] w.o = "long" -> [o EXCEPT !.long = TRUE, !.long_window_log = w.v]
    [] w.o = "wlog" -> [o EXCEPT !.window_log = IF w.v = 0 THEN None ELSE w.v]
    [] w.o = "knob" -> [o EXCEPT !.knob = IF w.v = 0 THEN None ELSE w.v]

FileWord(o, w) ==
  CASE w.o = "input" -> [o EXCEPT !.inputs = Append(@, w.v)]
    [] w.o = "filelist" -> [o EXCEPT !.filelists = Append(@, w.v)]
    [] w.o = "use-dict" -> [o EXCEPT !.dict = w.v]
    [] w.o = "patch-from" -> [o EXCEPT !.patch_from = w.v, !.patch_window_lifted = TRUE]
    \* A -M before it is dropped, one after it stands.
    [] w.o = "patch-apply" -> [SelectMode(o, "Decompress") EXCEPT
                                 !.patch_from = w.v, !.patch_window_lifted = TRUE,
                                 !.memory_limit = None]

ModeWords == {"mode", "decompress", "bench"}
DestinationWords == {"stdout", "output", "output-dir-flat", "output-dir-mirror", "trace"}
SwitchWords == {"force", "keep", "rm", "quiet", "verbose", "pass-through", "exclude-compressed",
                "ignore-read-errors", "show-default-cparams", "recursive", "separately",
                "adapt", "tuning"}
NumberWords == {"level", "threads", "block-size", "stream-size", "long", "wlog", "knob"}
FileWords == {"input", "filelist", "use-dict", "patch-from", "patch-apply"}

\* One turn of the scan.  Help and version end the run where they are met;
\* an unknown option, a value missing or one that is no number refuses it.
ReadWord(s, w) ==
  CASE s.ended # "no" -> s
    [] w.v = Bad -> [s EXCEPT !.ended = "refused"]
    [] w.o \in {"help", "version"} -> [s EXCEPT !.ended = "handled"]
    [] w.o = "ultra" -> [s EXCEPT !.ultra = TRUE]
    [] w.o = "max" -> [s EXCEPT !.ultra = TRUE, !.o.long = TRUE,
                                !.o.window_log = MaxWindowLog, !.o.knob = KnobBound]
    [] w.o = "bench-end" -> [s EXCEPT !.bench_end = w.v]
    [] w.o = "memory" ->
         IF ParseMemoryLimit(w.v) = Bad
         THEN [s EXCEPT !.ended = "refused"]
         ELSE [s EXCEPT !.o = SetMemoryLimit(@, w.v)]
    [] w.o = "format" -> IF w.v = "Zstd" THEN [s EXCEPT !.o.format = "Zstd"]
                                         ELSE [s EXCEPT !.ended = "refused"]
    [] w.o \in ModeWords -> [s EXCEPT !.o = ModeWord(@, w)]
    [] w.o \in DestinationWords -> [s EXCEPT !.o = DestinationWord(@, w)]
    [] w.o \in SwitchWords -> [s EXCEPT !.o = SwitchWord(@, w)]
    [] w.o \in NumberWords -> [s EXCEPT !.o = NumberWord(@, w)]
    [] w.o \in FileWords -> [s EXCEPT !.o = FileWord(@, w),
                                      !.ultra = @ \/ w.o = "patch-from"]
    [] OTHER -> [s EXCEPT !.ended = "refused"]

(***************************************************************************)
(* The memory a run promises to stay within.                               *)
(***************************************************************************)

\* Arithmetic that leaves u64 fits under no limit.
MemoryLimitCovers(limit, whole_file_bytes, copies) ==
  LET floor == whole_file_bytes * copies + DefaultWindow + AuxiliaryBytes
  IN floor <= MaxSize /\ limit >= floor

DecodeWindowCeiling(o) ==
  LET log == IF o.window_log # None THEN o.window_log ELSE o.long_window_log
  IN CASE o.memory_limit # None -> Clamp(o.memory_limit, DefaultWindow, WidestWindow)
       [] o.patch_window_lifted -> WidestWindow
       [] log # None -> Clamp(2^log, DefaultWindow, WidestWindow)
       [] OTHER -> DefaultWindow

WindowLogAdmitted(log, compressing) ==
  log \in MinWindowLog..(IF compressing THEN MaxWindowLog ELSE DecoderWindowLog)

\* frame_parameters as a check: every knob within its bounds.
FrameParametersHold(o) ==
  /\ o.knob # None => o.knob <= KnobBound
  /\ o.window_log # None => o.window_log \in MinWindowLog..EncoderWindowLog

\* The level the scan settled on, brought onto the scale and, without --ultra,
\* below the ultra levels; the benchmark's range is bounded by the scale alone.
SettleLevels(s) ==
  LET start == ClampLevel(s.o.level)
      cap == IF s.ultra THEN MaxLevel ELSE PlainMaxLevel
  IN [s.o EXCEPT !.bench_start = start,
                 !.bench_end = IF s.bench_end = None THEN start
                               ELSE Max2(ClampLevel(s.bench_end), start),
                 !.level = Min2(start, cap)]

\* What the command line comes to: options to run with, or the status it ends
\* with before anything is run.
ParseArgs(words, preset, env_level) ==
  LET s == FoldLeft(ReadWord, Scan(InitialOptions(preset, env_level)), words)
      o == SettleLevels(s)
      logs == {o.long_window_log, o.window_log} \ {None}
      sound == /\ o.memory_limit # None /\ Decodes(o) => MemoryLimitCovers(o.memory_limit, 0, 0)
               /\ \A log \in logs : WindowLogAdmitted(log, Compresses(o))
               /\ Compresses(o) => FrameParametersHold(o)
               /\ o.patch_from = None \/ o.dict = None
  IN CASE s.ended = "handled" -> [status |-> 0]
       [] s.ended = "refused" \/ ~sound -> [status |-> 1]
       [] OTHER -> [o |-> o]

(***************************************************************************)
(* Which files a run works on and where their outputs land: inputs.rs, and *)
(* derive_output_path and the checks of main.rs that compare files.        *)
(***************************************************************************)

CONSTANTS
  Mirrored,   \* <<root, directory>> -> the directory mirrored under root;
              \* None for a directory with `..` in it
  Compressed  \* COMPRESSED_EXTENSIONS

\* A --filelist is a file of names.
Name(p) == [t |-> "name", p |-> p]

(***************************************************************************)
(* select_inputs.                                                          *)
(***************************************************************************)
Keeps(fs, o, p) ==
  o.follow_links \/ p = Dash \/ ~IsSymlink(fs, p) \/ IsKind(fs, p, "fifo")

\* The names in the lists, unless one of them is no regular file.
ReadFilelist(fs, list) == [i \in 1..Len(Bytes(fs, list)) |-> Bytes(fs, list)[i].p]

\* The walk of -r: `closed` are the directories that cannot be opened.  A
\* directory the walk is already inside is not entered again.
RECURSIVE Descend(_, _, _, _, _)
Descend(fs, o, closed, d, ancestors) ==
  LET Visit(acc, p) ==
        CASE ~o.follow_links /\ IsSymlink(fs, p) -> acc
          [] IsDir(fs, p) ->
               LET sub == Descend(fs, o, closed, Stat(fs, p).in, ancestors \cup {Real[d]})
               IN [files |-> acc.files \o sub.files, unreadable |-> acc.unreadable + sub.unreadable]
          [] OTHER -> [acc EXCEPT !.files = Append(@, p)]
      nothing == [files |-> <<>>, unreadable |-> 0]
  IN CASE Real[d] \in ancestors -> nothing
       [] Real[d] \in closed -> [nothing EXCEPT !.unreadable = 1]
       [] OTHER -> FoldLeft(Visit, nothing, SetToSeq(Listing(fs, d)))

\* The files of the run, whether any were asked for, and the directories that
\* would not open.
SelectInputs(fs, o, closed) ==
  LET named == SelectSeq(o.inputs, LAMBDA p : Keeps(fs, o, p))
      lists == FlattenSeq([i \in 1..Len(o.filelists) |-> ReadFilelist(fs, o.filelists[i])])
      Expand(acc, p) ==
        IF o.recursive /\ IsDir(fs, p)
        THEN LET sub == Descend(fs, o, closed, Stat(fs, p).in, {})
             IN [files |-> acc.files \o sub.files, unreadable |-> acc.unreadable + sub.unreadable]
        ELSE [acc EXCEPT !.files = Append(@, p)]
      walked == FoldLeft(Expand, [files |-> <<>>, unreadable |-> 0], named \o lists)
  IN [files |-> walked.files, unreadable |-> walked.unreadable,
      explicit |-> o.inputs # <<>> \/ o.filelists # <<>>,
      refused |-> named \o lists = <<>> /\ o.inputs # <<>>]

ListsReadable(fs, o) == \A i \in 1..Len(o.filelists) : IsFile(fs, o.filelists[i])

(***************************************************************************)
(* Where an output lands.                                                  *)
(***************************************************************************)
LastExt(p) == IF p.ext = <<>> THEN "" ELSE Last(p.ext)
HasCompressedExtension(p) == LastExt(p) \in Compressed

AddExtension(p) == [p EXCEPT !.ext = Append(@, "zst")]
\* The suffixes decompression takes off, and what it puts in their place.
DecompressedName(p) ==
  CASE LastExt(p) \in {"zst", "zstd"} -> [p EXCEPT !.ext = Front(@)]
    [] LastExt(p) = "tzst" -> [p EXCEPT !.ext = Append(Front(@), "tar")]
    [] OTHER -> None

FlatOutputPath(p, d) == Join(d, p)
MirroredOutputDir(p, root) == Mirrored[<<root, p.dir>>]

\* None when the name does not say.
DeriveOutputPath(o, input) ==
  LET beside == IF o.mode = "Compress" THEN AddExtension(input) ELSE DecompressedName(input)
  IN CASE o.output # None -> o.output
       [] beside = None -> None
       [] o.output_dir_mirror # None ->
            IF MirroredOutputDir(input, o.output_dir_mirror) = None THEN None
            ELSE Join(MirroredOutputDir(input, o.output_dir_mirror), beside)
       [] o.output_dir # None -> FlatOutputPath(beside, o.output_dir)
       [] OTHER -> beside

SkipsAsCompressed(o, p) == Compresses(o) /\ o.exclude_compressed /\ HasCompressedExtension(p)

\* The output names more than one input lands on.
FlatOutputCollisions(o) ==
  LET writing == SelectSeq(o.inputs, LAMBDA p : /\ p # Dash
                                                /\ ~SkipsAsCompressed(o, p)
                                                /\ DeriveOutputPath(o, p) # None)
      names == [i \in 1..Len(writing) |-> FileName(DeriveOutputPath(o, writing[i]))]
  IN IF o.output_dir = None \/ o.output_dir_mirror # None \/ o.mode \notin {"Compress", "Decompress"}
     THEN {}
     ELSE {names[i] : i \in {i \in 1..Len(names) : \E j \in 1..(i - 1) : names[i] = names[j]}}

(***************************************************************************)
(* Two paths for one file.                                                 *)
(***************************************************************************)

\* A path that is there is resolved whole, one that is not by its directory.
Resolved(fs, p) ==
  CASE Exists(fs, p) -> Canonical(fs, p)
    [] DirExists(fs, p.dir) -> [p EXCEPT !.dir = Real[@]]
    [] OTHER -> None
NamesTheSameFile(fs, p, q) ==
  Resolved(fs, p) # None /\ Resolved(fs, p) = Resolved(fs, q)
PathsPointToSameFile(fs, p, q) ==
  OfPath(fs, p) # None /\ OfPath(fs, p) = OfPath(fs, q)
SameFile(fs, p, q) ==
  \/ NamesTheSameFile(fs, p, q)
  \/ Exists(fs, p) /\ Exists(fs, q) /\ PathsPointToSameFile(fs, p, q)

\* Ensured of an output that is there; one that is not cannot be the input.
DistinctPaths(fs, input, output) ==
  Exists(fs, output) => /\ Canonical(fs, input) # Canonical(fs, output)
                        /\ ~PathsPointToSameFile(fs, input, output)

\* The file a dangling link would create when opened for writing.
DanglingLinkTarget(fs, p) ==
  IF ~Exists(fs, p) THEN Followed(fs, p, MaxLinks) ELSE p

(***************************************************************************)
(* The runs that hold whole files: what a benchmark and a training run     *)
(* weigh against -M before they read anything (run_benchmark,              *)
(* benchmark_decoding, load_training_samples of main.rs).                  *)
(*                                                                         *)
(* Sums are checked: one past MaxSize is Bad.  All terms are positive, so  *)
(* checking the total is checking every addition on the way.               *)
(***************************************************************************)

CONSTANTS
  CompressBound(_),          \* compress_bound
  EncoderWorkspace(_, _, _), \* estimated_compression_workspace_bytes_for_*:
                             \* of a level, the widest frame and a dictionary
  MinBenchBlock,             \* MIN_BENCH_BLOCK_SIZE
  SyntheticSize,             \* synthetic::DEFAULT_SIZE
  TrainingSampleMax,         \* TRAINING_SAMPLE_MAX
  TrainingDataMax,           \* TRAINING_DATA_MAX
  TrainingSamplesMin,        \* TRAINING_SAMPLES_MIN
  SizeEntry                  \* TRAINING_SIZE_ENTRY

Checked(n) == IF n > MaxSize THEN Bad ELSE n
Sum(s) == FoldLeft(LAMBDA a, b : a + b, 0, s)
Largest(s) == FoldLeft(Max2, 0, s)
DivCeil(a, b) == (a + b - 1) \div b

(***************************************************************************)
(* Benchmarks.                                                             *)
(***************************************************************************)

\* -B cuts the inputs only when it is not too small.
BenchBlock(o) == IF o.block_size # None /\ o.block_size >= MinBenchBlock THEN o.block_size ELSE None

\* The lengths of the frames the inputs are compressed as.
BenchChunkLengths(sizes, block) ==
  LET Cut(size) ==
        LET piece == IF block = None THEN Max2(size, 1) ELSE block
        IN [i \in 1..DivCeil(size, piece) |-> Min2(piece, size - (i - 1) * piece)]
  IN FlattenSeq([i \in 1..Len(sizes) |-> Cut(sizes[i])])

\* The same frames without listing them: the room they take at most, and the
\* widest of them.
BenchFramesExtent(sizes, block) ==
  LET Add(acc, size) ==
        LET piece == IF block = None THEN size ELSE block
            tail == size % piece
        IN IF size = 0 THEN acc
           ELSE [room |-> acc.room + (size \div piece) * CompressBound(piece)
                            + (IF tail > 0 THEN CompressBound(tail) ELSE 0),
                 widest |-> Max2(acc.widest, Min2(size, piece))]
  IN FoldLeft(Add, [room |-> 0, widest |-> 0], sizes)

\* What the encoder of one of the levels to be measured takes at most.
BenchEncoder(o, widest, dict) ==
  Largest([i \in 1..(o.bench_end - o.bench_start + 1) |->
             EncoderWorkspace(o.bench_start + i - 1, widest, dict)])


\* The window gets what the limit leaves, down to the default.
BenchDecodeWindow(o, held) ==
  IF o.memory_limit = None \/ held = None THEN DecodeWindowCeiling(o)
  ELSE Clamp(Max2(o.memory_limit - (held + AuxiliaryBytes), 0), DefaultWindow, WidestWindow)

\* run_benchmark: two copies of the input, the frames and the encoder, then
\* the dictionary three times.  What is held, or Bad when it is refused.
WeighBenchmark(o, sizes, dict) ==
  LET subject == IF o.bench_separately THEN <<Largest(sizes)>> ELSE sizes
      extent == BenchFramesExtent(subject, BenchBlock(o))
      buffers == 2 * Sum(subject) + extent.room + BenchEncoder(o, extent.widest, dict)
      total == buffers + 3 * dict
      covered == /\ Checked(buffers) # Bad /\ MemoryLimitCovers(o.memory_limit, buffers, 1)
                 /\ dict > 0 => Checked(total) # Bad /\ MemoryLimitCovers(o.memory_limit, total, 1)
  IN CASE Checked(Sum(sizes)) = Bad -> Bad
       [] o.memory_limit = None -> None
       [] covered -> total
       [] OTHER -> Bad

\* benchmark_decoding, before anything is parsed or read.
DecodeBenchmarkAdmitted(o, sizes, dict) ==
  LET inputs == IF o.bench_separately THEN Largest(sizes) ELSE Sum(sizes)
  IN o.memory_limit # None =>
       /\ Checked(inputs + dict) # Bad
       /\ MemoryLimitCovers(o.memory_limit, Max2(inputs + dict, 2 * dict), 1)

\* benchmark_decoding_one: the frames declare what they decode to; an empty
\* file has none.
WeighDecoding(o, contents, dict) ==
  LET summaries == [i \in 1..Len(contents) |->
                      IF contents[i] = <<>> THEN EmptySummary ELSE SummarizeArchive(contents[i])]
      decoded == Sum([i \in 1..Len(contents) |-> summaries[i].decompressed])
      held == Sum([i \in 1..Len(contents) |-> Size(contents[i])]) + decoded + dict
  IN IF \/ \E i \in 1..Len(contents) : ~summaries[i].ok
        \/ \E i \in 1..Len(contents) : ~summaries[i].known
        \/ Checked(held) = Bad
        \/ o.memory_limit # None /\ ~MemoryLimitCovers(o.memory_limit, held, 1)
     THEN Bad ELSE held

(***************************************************************************)
(* Training.                                                               *)
(***************************************************************************)

\* The samples the files make without a limit.
TrainingExtent(sizes, block) ==
  Sum([i \in 1..Len(sizes) |->
         CASE sizes[i] = 0 -> 0
           [] block = None -> 1
           [] OTHER -> DivCeil(sizes[i], block)])

TrainingBudget(o) ==
  IF o.memory_limit = None THEN TrainingDataMax ELSE Min2(TrainingDataMax, o.memory_limit)

\* The i-th piece of a file, as it is planned and as it is read.
TrainingPiece(size, block, taken) ==
  IF block = None THEN Min2(size, TrainingSampleMax) ELSE Min2(size - taken, block)

\* The pieces of one file that still fit beside what is planned already.
RECURSIVE PlanFile(_, _, _, _, _, _)
PlanFile(p, size, block, budget, limit, taken) ==
  LET piece == TrainingPiece(size, block, taken)
      held == p.bytes + (p.entries + 1) * SizeEntry
      next == [p EXCEPT !.bytes = @ + piece, !.entries = @ + 1, !.now = @ + 1]
  IN CASE taken >= size -> p
       [] held > budget \/ piece > budget - held ->
            IF taken = 0 THEN [p EXCEPT !.stop = TRUE] ELSE p
       [] block = None \/ next.entries >= limit -> next
       [] OTHER -> PlanFile(next, size, block, budget, limit, taken + piece)

\* plan_training_load: how many samples each file gives; the load stops at the
\* first file none of which fits.
PlanTrainingLoad(sizes, block, budget, limit) ==
  LET Add(p, size) ==
        LET q == IF p.stop \/ p.entries >= limit THEN p
                 ELSE PlanFile([p EXCEPT !.now = 0], size, block, budget, limit, 0)
            taken == IF p.stop \/ p.entries >= limit THEN 0 ELSE q.now
        IN [q EXCEPT !.plan = Append(@, taken)]
  IN FoldLeft(Add, [plan |-> <<>>, bytes |-> 0, entries |-> 0, now |-> 0, stop |-> FALSE], sizes)
=============================================================================
