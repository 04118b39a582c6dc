-------------------------- MODULE DecompressStream --------------------------
(***************************************************************************)
(* The push decoder of the C interface, ZSTD_decompressStream              *)
(* (c-api/src/streaming.rs): each call brings the next bytes of a stream   *)
(* and some room, and says how far it got.  A frame header that arrives in *)
(* pieces is held, a block or checksum that does is staged, a skippable    *)
(* frame is passed over across calls, and a frame decoded to its end with  *)
(* output still to hand out keeps its last byte back ("hostage").  One     *)
(* action is one call; the loops inside are operators.                     *)
(***************************************************************************)
EXTENDS FrameDecoder

CONSTANTS
  Streams,               \* the streams a caller may feed, each a sequence of items
  InputLengths,          \* how many bytes a call may bring
  OutputLengths,         \* how much room a call may bring
  NoForwardProgressMax,  \* NO_FORWARD_PROGRESS_MAX
  MaxResets              \* bound: how often the caller abandons a frame

ASSUME /\ InputLengths \subseteq Nat /\ OutputLengths \subseteq Nat
       /\ NoForwardProgressMax \in Nat \ {0} /\ MaxResets \in Nat

VARIABLES
  which,        \* the stream the caller feeds
  source_end,   \* where its bytes end, which may be inside the stream
  at,           \* how many of them the calls have taken
  dctx,         \* the context: stream_entry, stream_staged, the decoder and its flags
  result,       \* what the last call returned: "0", "1", a hint or an error
  output,       \* the bytes handed out
  zeros,        \* how many calls have returned 0
  idle,         \* a call of this session brought no input or no room
  resets

vars == <<which, source_end, at, dctx, result, output, zeros, idle, resets>>

StreamBytes == [s \in DOMAIN Streams |-> EncodeStream(Streams[s])]

FRAME_HEADER_MAX == 18

Entered == [kind |-> "Entered", held |-> << >>, left |-> 0]
Header(held) == [kind |-> "Header", held |-> held, left |-> 0]
Skip(left) == [kind |-> "Skip", held |-> << >>, left |-> left]

Hints == {"0", "1", "start"}

Init ==
  /\ which \in DOMAIN Streams
  /\ source_end \in 0 .. Len(StreamBytes[which])
  /\ at = 0 /\ result = "start" /\ output = << >> /\ zeros = 0 /\ idle = FALSE /\ resets = 0
  /\ dctx = [entry |-> Entered, staged |-> << >>, decoder |-> NoFrame,
             frame_done |-> TRUE, hostage |-> FALSE, no_progress |-> 0]

-----------------------------------------------------------------------------
(* Into the next frame: enter_stream_frame.  The results carry the context *)
(* and how many bytes of src have been taken.                              *)

\* Through a skippable frame's payload, as far as src goes.
PassOver(c, src, pos, left) ==
  LET n == Lowest(left, Len(src) - pos)
  IN IF n < left
     THEN [c |-> [c EXCEPT !.entry = Skip(left - n)], pos |-> pos + n, entry |-> "WantsInput"]
     ELSE [c |-> [c EXCEPT !.entry = Entered, !.frame_done = TRUE], pos |-> pos + n, entry |-> "Skipped"]

hold_header(c, view, take) ==
  [c |-> [c EXCEPT !.entry = Header(view), !.frame_done = FALSE], pos |-> take, entry |-> "WantsInput"]

start_stream_frame(c, src, held) ==
  LET started == reset(c.decoder, held \o src, FALSE)
  IN IF started.error # "none"
     THEN [c |-> [c EXCEPT !.decoder = started.d], pos |-> 0, entry |-> "Error"]
     ELSE [c |-> [c EXCEPT !.entry = Entered, !.staged = << >>, !.decoder = started.d,
                           !.frame_done = FALSE, !.hostage = FALSE],
           pos |-> started.used - Len(held), entry |-> "Started"]

enter_stream_frame(c, src) ==
  LET held == c.entry.held
      take == Lowest(FRAME_HEADER_MAX - Len(held), Len(src))
      view == held \o SubSeq(src, 1, take)
      header == TokenAt(view)
  IN IF c.entry.kind = "Skip" THEN PassOver(c, src, 0, c.entry.left)
     ELSE IF Len(view) < MagicLength THEN hold_header(c, view, take)
     ELSE IF header.t \notin {"frame", "skip"} THEN [c |-> c, pos |-> 0, entry |-> "Error"]
     ELSE IF Len(view) < header.length THEN hold_header(c, view, take)
     ELSE IF header.t = "skip"
     THEN PassOver([c EXCEPT !.entry = Skip(header.size), !.frame_done = FALSE], src,
                   SkipHeaderLength - Len(held), header.size)
     ELSE start_stream_frame(c, src, held)

-----------------------------------------------------------------------------
(* Through the frame: decode_stream_frame.  A step is decoded from src, or *)
(* from what is staged of it once the rest has come.                       *)

Stage(c, src, pos) ==
  LET want == input_needed(c.decoder, c.staged)
      take == IF want > Len(c.staged) THEN Lowest(want - Len(c.staged), Len(src) - pos) ELSE 0
  IN [staged |-> c.staged \o SubSeq(src, pos + 1, pos + take), pos |-> pos + take, want |-> want]

\* What is in hand for the next step: all of the input, or what is staged.
InHand(c, src, pos) ==
  IF c.staged # << >> THEN Stage(c, src, pos)
  ELSE [staged |-> Rest(src, pos), pos |-> Len(src), want |-> input_needed(c.decoder, Rest(src, pos))]

\* Mutant: a step decoded from what is staged stays staged.
AfterStep_undrained(c, pos, hand, step) ==
  [c |-> [c EXCEPT !.decoder = step.d,
                   !.staged = IF c.staged = << >> THEN << >> ELSE hand.staged],
   pos |-> IF c.staged # << >> THEN hand.pos ELSE IF step.error # "none" THEN pos ELSE pos + step.read,
   out |-> IF step.error # "none" THEN << >> ELSE step.out,
   outcome |-> IF step.error # "none" THEN "error"
               ELSE IF step.read = 0 /\ step.out = << >> THEN "unfinished" ELSE "progress"]

\* A step taken from what was in hand at pos.
AfterStep(c, pos, hand, step) ==
  [c |-> [c EXCEPT !.decoder = step.d,
                   !.staged = IF c.staged = << >> THEN << >>
                              ELSE IF step.error # "none" THEN hand.staged
                              ELSE Rest(hand.staged, step.read)],
   pos |-> IF c.staged # << >> THEN hand.pos ELSE IF step.error # "none" THEN pos ELSE pos + step.read,
   out |-> IF step.error # "none" THEN << >> ELSE step.out,
   outcome |-> IF step.error # "none" THEN "error"
               ELSE IF step.read = 0 /\ step.out = << >> THEN "unfinished" ELSE "progress"]

OneStep(c, src, pos, room, hand) ==
  IF is_finished(c.decoder) /\ can_collect(c.decoder) = 0
  THEN [c |-> c, pos |-> pos, out |-> << >>, outcome |-> "finished"]
  ELSE IF Len(hand.staged) < hand.want /\ can_collect(c.decoder) = 0
  THEN [c |-> [c EXCEPT !.staged = hand.staged], pos |-> hand.pos, out |-> << >>, outcome |-> "unfinished"]
  ELSE AfterStep(c, pos, hand, decode_from_to(c.decoder, hand.staged, room))

RECURSIVE StepsFrom(_, _, _)
StepsFrom(src, room, so_far) ==
  LET On(step) == [step EXCEPT !.out = so_far.out \o @]
  IN IF so_far.outcome # "progress" THEN so_far
     ELSE StepsFrom(src, room,
                    On(OneStep(so_far.c, src, so_far.pos, room - Len(so_far.out),
                               InHand(so_far.c, src, so_far.pos))))

decode_stream_frame(c, src, pos, room) ==
  StepsFrom(src, room, [c |-> c, pos |-> pos, out |-> << >>, outcome |-> "progress"])

-----------------------------------------------------------------------------
(* One call. *)

\* Mutant: the last byte is taken with output still to come.
KeepHostage_never(c, in_start, pos, size, finished) ==
  [pos |-> pos, hostage |-> FALSE, finished |-> finished]

\* Mutant: the frame is finished although its last byte is not there to take.
KeepHostage_givenUp(c, in_start, pos, size, finished) ==
  IF finished /\ c.hostage
  THEN [pos |-> IF pos < size THEN pos + 1 ELSE pos, hostage |-> FALSE, finished |-> TRUE]
  ELSE IF ~finished /\ ~c.hostage /\ pos > in_start /\ is_finished(c.decoder)
  THEN [pos |-> pos - 1, hostage |-> TRUE, finished |-> FALSE]
  ELSE [pos |-> pos, hostage |-> c.hostage, finished |-> finished]

\* The last byte of a frame decoded with output left is kept back, and taken
\* once the output is out.
KeepHostage(c, in_start, pos, size, finished) ==
  IF finished /\ c.hostage
  THEN IF pos < size THEN [pos |-> pos + 1, hostage |-> FALSE, finished |-> TRUE]
       ELSE [pos |-> pos, hostage |-> TRUE, finished |-> FALSE]
  ELSE IF ~finished /\ ~c.hostage /\ pos > in_start /\ is_finished(c.decoder)
  THEN [pos |-> pos - 1, hostage |-> TRUE, finished |-> FALSE]
  ELSE [pos |-> pos, hostage |-> c.hostage, finished |-> finished]

Return(c, pos, out, code) ==
  /\ dctx' = c /\ at' = at + pos /\ output' = output \o out /\ result' = code
  /\ zeros' = IF code = "0" THEN zeros + 1 ELSE zeros
  /\ UNCHANGED <<which, source_end, resets>>

\* The rest of a call once the context is in a frame, in_start bytes in.
DecodeIn(c, src, in_start, room) ==
  \E decoded \in {decode_stream_frame(c, src, in_start, room)} :
    IF decoded.outcome = "error" THEN Return(decoded.c, decoded.pos, decoded.out, "corruption")
    ELSE LET kept == KeepHostage(decoded.c, in_start, decoded.pos, Len(src), decoded.outcome = "finished")
             still == kept.pos = in_start /\ decoded.out = << >>
             after == [decoded.c EXCEPT !.hostage = kept.hostage, !.frame_done = kept.finished,
                                        !.no_progress = IF still THEN @ + 1 ELSE 0]
             code == IF after.no_progress >= NoForwardProgressMax
                     THEN IF room = 0 THEN "noForwardProgress_destFull" ELSE "noForwardProgress_inputEmpty"
                     ELSE IF kept.finished THEN "0" ELSE "1"
         IN Return(after, kept.pos, decoded.out, code)

\* The bytes of a call that brings n of them.
Brings(n) == SubSeq(StreamBytes[which], at + 1, at + n)

Usable(n) == result \in Hints /\ n <= source_end - at

\* At a frame boundary with nothing to read the call only says what to bring.
AskForInput ==
  /\ Usable(0) /\ 0 \in InputLengths /\ dctx.frame_done
  /\ result' = "start"
  /\ UNCHANGED <<which, source_end, at, dctx, output, zeros, idle, resets>>

\* At a boundary, in a held header or in a skippable frame: into the next
\* frame, and on through it if it starts here.
EnterFrame(n, room) ==
  /\ Usable(n) /\ (dctx.frame_done => n > 0)
  /\ dctx.frame_done \/ dctx.entry.kind # "Entered"
  /\ idle' = (idle \/ n = 0 \/ room = 0)
  /\ LET begun == IF dctx.frame_done THEN [dctx EXCEPT !.entry = Entered] ELSE dctx
         entered == enter_stream_frame(begun, Brings(n))
     IN CASE entered.entry = "Started" -> DecodeIn(entered.c, Brings(n), entered.pos, room)
          [] entered.entry = "WantsInput" -> Return(entered.c, entered.pos, << >>, "1")
          [] entered.entry = "Skipped" -> Return(entered.c, entered.pos, << >>, "0")
          [] OTHER -> Return(entered.c, entered.pos, << >>, "header error")

Decode(n, room) ==
  /\ Usable(n) /\ ~dctx.frame_done /\ dctx.entry.kind = "Entered"
  /\ idle' = (idle \/ n = 0 \/ room = 0)
  /\ DecodeIn(dctx, Brings(n), 0, room)

\* ZSTD_resetDStream: the frame in flight is abandoned, and the caller feeds
\* the stream again from its beginning.
ResetSession ==
  /\ resets < MaxResets /\ resets' = resets + 1
  /\ dctx' = [dctx EXCEPT !.frame_done = TRUE, !.no_progress = 0, !.hostage = FALSE]
  /\ at' = 0 /\ output' = << >> /\ zeros' = 0 /\ idle' = FALSE /\ result' = "start"
  /\ UNCHANGED <<which, source_end>>

Calls(inputs, outputs) ==
  \E n \in inputs, room \in outputs : EnterFrame(n, room) \/ Decode(n, room)

Next == AskForInput \/ Calls(InputLengths, OutputLengths) \/ ResetSession

\* A caller that has input goes on calling, with some input and some room each
\* time: weak fairness of those calls, whose ENABLED is written out.
Fairness ==
  []<>~Usable(1) \/ []<><<Calls(InputLengths \ {0}, OutputLengths \ {0})>>_vars

Spec == Init /\ [][Next]_vars /\ Fairness

-----------------------------------------------------------------------------
(* What the streams hold, for the properties. *)

StreamContents ==
  [s \in DOMAIN Streams |-> [k \in 0 .. Len(Streams[s]) |->
     FlattenSeq([i \in 1 .. k |-> Content(Streams[s][i])])]]

StreamEnds ==
  [s \in DOMAIN Streams |-> [k \in 0 .. Len(Streams[s]) |-> Len(EncodeStream(SubSeq(Streams[s], 1, k)))]]

Upto(k) == StreamContents[which][k]
EndOf(k) == StreamEnds[which][k]
Count == Len(Streams[which])

-----------------------------------------------------------------------------
(* Properties. *)

(***************************************************************************)
(* However the caller cuts the input and whatever room it brings, the      *)
(* bytes handed out are the stream's content in order, and those the       *)
(* decoder holds in a frame that goes on follow them (held headers, staged *)
(* steps and decode_from_to together).                                     *)
(***************************************************************************)
InOrder ==
  LET inside == result \in Hints /\ ~dctx.frame_done /\ dctx.entry.kind = "Entered"
  IN IsPrefix(output \o (IF inside THEN dctx.decoder.buffer ELSE << >>), Upto(Count))

(***************************************************************************)
(* ZSTD_decompressStream "Returns `0` once a frame is fully decoded AND    *)
(* flushed": the k-th 0 comes with the input taken to the end of the k-th  *)
(* frame, skippable ones included, and its content handed out and found to *)
(* be what the frame says; the next frame's bytes stay in the input till   *)
(* then.                                                                   *)
(***************************************************************************)
ZeroEndsAFrame ==
  /\ result = "0" => at = EndOf(zeros) /\ output = Upto(zeros) /\ Sound(Streams[which][zeros])
  /\ at > EndOf(zeros) => zeros < Count /\ at <= EndOf(zeros + 1)

(***************************************************************************)
(* A caller that feeds a sound stream with some input and some room in     *)
(* every call, and stops when it has no more input, gets all of its        *)
(* content and a 0 for every frame: the hostage byte keeps input back for  *)
(* as long as there is output to come.  Only a caller that brought no      *)
(* input or no room is stopped for want of progress.                       *)
(***************************************************************************)
Finishes ==
  source_end = EndOf(Count) /\ (\A k \in 1 .. Count : Sound(Streams[which][k]))
    => <>(\/ zeros = Count /\ output = Upto(Count)
          \/ idle /\ result \in {"noForwardProgress_destFull", "noForwardProgress_inputEmpty"})
=============================================================================
