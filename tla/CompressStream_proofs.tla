------------------------ MODULE CompressStream_proofs ------------------------
(***************************************************************************)
(* Compression over the C interface, for every block size, slice size, set *)
(* of lengths, pledge and dictionary: what the frame, the dictionaries and *)
(* the answers of ZSTD_compressStream2 promise holds in every state.  What *)
(* one call does to its stream is CompressCall_proofs.                     *)
(***************************************************************************)
EXTENDS CompressCall_proofs

-----------------------------------------------------------------------------
(* The invariant.                                                          *)

Attachments == [kind : {"None", "Load", "RefCDict", "Prefix"}, serial : Nat]

\* What the caller has asked of the frame to come, n, is what is set for it.
Agrees(size, at, n) ==
  /\ size \in Sizes /\ at \in Attachments /\ n \in Asks
  /\ n.size = size /\ n.dict = at.serial /\ (n.once = TRUE <=> at.kind = "Prefix") /\ n.lost = FALSE

Inv ==
  /\ serials \in Nat /\ taken \in Nat
  /\ Agrees(pledged, attached, next_frame) /\ Keeps(compressor, attached.serial)
  /\ Placed(stream, wire, input, progress, asked, last, attached.serial)

\* The prefix is spent.
LEMMA SpentFacts ==
  ASSUME NEW size, NEW at, NEW n, Agrees(size, at, n)
  PROVE  Agrees(Unknown, AfterPrefix(at), Wishes(Unknown, IF n.once THEN 0 ELSE n.dict, FALSE))
<1> DEFINE m == Wishes(Unknown, IF n.once THEN 0 ELSE n.dict, FALSE)
           b == AfterPrefix(at)
<1>1. at \in Attachments /\ n.dict = at.serial /\ n.once \in BOOLEAN /\ (n.once = TRUE <=> at.kind = "Prefix")
  BY Zenon DEF Agrees, Asks
<1>2. m.size = Unknown /\ m.dict = (IF n.once THEN 0 ELSE n.dict) /\ m.once = FALSE /\ m.lost = FALSE
      /\ m = [size |-> m.size, dict |-> m.dict, once |-> m.once, lost |-> m.lost]
  BY Zenon DEF Wishes
<1>3. Unknown \in Sizes
  BY Zenon DEF Sizes
<1>4. CASE at.kind = "Prefix"
  <2>1. b = [kind |-> "None", serial |-> 0]
    BY <1>4, Zenon DEF AfterPrefix, NoAttach
  <2>2. b \in Attachments /\ b.serial = 0 /\ b.kind # "Prefix"
    BY <2>1 DEF Attachments
  <2>3. m.dict = 0
    BY <1>1, <1>2, <1>4, Zenon
  <2> HIDE DEF m, b
  <2>a. m.dict \in Nat
    BY <2>3
  <2>4. m \in Asks
    BY <1>2, <1>3, <2>a, Zenon DEF Asks
  <2>5. Agrees(Unknown, b, m)
    BY <1>2, <1>3, <2>2, <2>3, <2>4, Zenon DEF Agrees
  <2> QED BY <2>5, Zenon DEF m, b
<1>5. CASE at.kind # "Prefix"
  <2>1. b = at
    BY <1>5, Zenon DEF AfterPrefix
  <2>2. m.dict = at.serial /\ at.serial \in Nat
    BY <1>1, <1>2, <1>5, Zenon DEF Attachments
  <2> HIDE DEF m, b
  <2>4. m \in Asks
    BY <1>2, <1>3, <2>2, Zenon DEF Asks
  <2>5. Agrees(Unknown, b, m)
    BY <1>1, <1>2, <1>3, <1>5, <2>1, <2>2, <2>4, Zenon DEF Agrees
  <2> QED BY <2>5, Zenon DEF m, b
<1> QED BY <1>4, <1>5, Zenon

\* What a call works on.
Starts(s, p, content, counters, a, serial) ==
  /\ Stands(s, p, content, counters, a.size, a.dict) /\ p \in Seq(Pieces) /\ content \in Seq(Byte)
  /\ a \in Asks /\ (a.lost = TRUE => s.producer_failed = TRUE) /\ Holding(s, serial)

\* What the caller asks of the frame of a call.
Now(begins, op, src) ==
  IF ~begins THEN asked
  ELSE Wishes(IF op = "end" THEN Len(src) ELSE next_frame.size, next_frame.dict, FALSE)

\* The bytes a call brings.
LEMMA BringsFacts ==
  ASSUME taken \in Nat, NEW n \in Nat
  PROVE  Brings(n) \in Seq(Byte) /\ Len(Brings(n)) = n
BY DEF Brings, Byte

\* A call that goes on with a frame.
LEMMA GoesOn ==
  ASSUME Inv, stream_in_progress, NEW op, NEW n, NEW src
  PROVE  Starts(Opened(FALSE, op, n), wire, input, progress, Now(FALSE, op, src), attached.serial)
<1>1. Opened(FALSE, op, n) = stream /\ Now(FALSE, op, src) = asked
  BY Zenon DEF Opened, Now
<1>2. in_frame(stream)
  BY Zenon DEF stream_in_progress
<1>3. Placed(stream, wire, input, progress, asked, last, attached.serial)
  BY Zenon DEF Inv
<1>4. Starts(stream, wire, input, progress, asked, attached.serial)
  BY <1>2, <1>3, Zenon DEF Placed, InPlace, Starts
<1> QED BY <1>1, <1>4, Zenon

\* A call that begins a frame.
LEMMA Begins ==
  ASSUME Inv, ~stream_in_progress, NEW op, NEW n \in Nat, NEW src, Len(src) = n
  PROVE  /\ Starts(Opened(TRUE, op, n), << >>, << >>, NoProgress, Now(TRUE, op, src), AfterPrefix(attached).serial)
         /\ Opened(TRUE, op, n).open = TRUE
<1> DEFINE size == IF op = "end" THEN n ELSE pledged
           serial == attached.serial
           t == open_frame(stream, size, serial)
           a == Now(TRUE, op, src)
<1>1. pledged \in Sizes /\ next_frame.size = pledged /\ next_frame.dict = serial /\ serial \in Nat
  BY Zenon DEF Inv, Agrees, Attachments
<1>2. Rests(stream)
  BY Zenon DEF Inv, Placed, InPlace, stream_in_progress
<1>3. size \in Sizes
  BY <1>1, Zenon DEF Sizes
<1>4. a = Wishes(size, serial, FALSE)
  BY <1>1, Zenon DEF Now
<1> HIDE DEF size, serial, a
<1>5. t.open = TRUE /\ Stands(t, << >>, << >>, NoProgress, size, serial)
  BY <1>1, <1>2, <1>3, OpenFacts, Zenon
<1> HIDE DEF t
<1>6. Opened(TRUE, op, n) = t
  <2> DEFINE serial2 == AfterPrefix(attached).serial
  <2>1. Opened(TRUE, op, n) = StreamAfterReplacing(t, serial, serial2)
    BY Zenon DEF Opened, t, size, serial
  <2> HIDE DEF serial2
  <2>2. StreamAfterReplacing(t, serial, serial2) = t
    BY <1>5, Zenon DEF StreamAfterReplacing, release_dictionary
  <2> QED BY <2>1, <2>2, Zenon
<1>7. a.size = size /\ a.dict = serial /\ a.lost = FALSE /\ a \in Asks
  BY <1>1, <1>3, <1>4, Zenon DEF Wishes, Asks
<1>8. << >> \in Seq(Pieces) /\ << >> \in Seq(Byte)
  OBVIOUS
<1> DEFINE serial2 == AfterPrefix(attached).serial
<1> HIDE DEF serial2
<1>9. Starts(t, << >>, << >>, NoProgress, a, serial2)
  BY <1>5, <1>7, <1>8, Zenon DEF Starts, Holding
<1> QED BY <1>5, <1>6, <1>9, Zenon DEF a, serial2

-----------------------------------------------------------------------------
(* How a call comes back.                                                  *)

\* What every call notes.
Noted(begins) ==
  /\ taken' \in Nat
  /\ next_frame' = IF ~begins THEN next_frame
                   ELSE Wishes(Unknown, IF next_frame.once THEN 0 ELSE next_frame.dict, FALSE)

\* The frame to come, and the bytes taken, after a call.
LEMMA NoteFacts ==
  ASSUME NEW begins, NEW op, NEW src, NEW w, NEW lost, NEW answer, NEW error,
         Note(begins, op, src, w, lost, answer, error), w.pos \in Nat, taken \in Nat
  PROVE  Noted(begins)
<1>1. taken' = taken + w.pos
  BY Zenon DEF Note
<1>2. taken' \in Nat
  BY <1>1
<1>3. next_frame' = IF ~begins THEN next_frame
                    ELSE Wishes(Unknown, IF next_frame.once THEN 0 ELSE next_frame.dict, FALSE)
  BY Zenon DEF Note
<1> QED BY <1>2, <1>3, Zenon DEF Noted

\* However a call comes back, the stream is in its place.
LEMMA ReturnFacts ==
  ASSUME NEW begins \in BOOLEAN, NEW op \in Directives, NEW src \in Seq(Byte), NEW room \in Nat, NEW fails \in BOOLEAN,
         NEW s, NEW p, NEW content, NEW counters, NEW serial,
         p = IF begins THEN << >> ELSE wire, content = IF begins THEN << >> ELSE input,
         Starts(s, p, content, counters, Now(begins, op, src), serial),
         s.open = TRUE \/ Len(src) = 0,
         NEW t, t = TakeBlocks(CopyOut(Idle(s, counters), room), src, room),
         NEW w, w = Directed(t, op, src, serial),
         Return(begins, op, src, s, t, w, room, fails), taken \in Nat
  PROVE  Placed(stream', wire', input', progress', asked', last', serial) /\ Noted(begins)
<1> DEFINE a == Now(begins, op, src)
           b == [a EXCEPT !.lost = @ \/ fails]
           e == [a EXCEPT !.lost = @ \/ FALSE]
           v == CopyOut(w, room)
           failed == s.producer_failed \/ fails
<1>1. /\ Stands(s, p, content, counters, a.size, a.dict) /\ a \in Asks /\ (a.lost = TRUE => s.producer_failed = TRUE)
      /\ p \in Seq(Pieces) /\ content \in Seq(Byte) /\ Holding(s, serial) /\ s.producer_failed \in BOOLEAN
  BY Zenon DEF Starts, Stands, Streams
<1> HIDE DEF a
<1>2. /\ Working(w, p, content, src, room, a.size, a.dict) /\ Holds(s, w.s, serial)
      /\ Working(v, p, content, src, room, a.size, a.dict) /\ Holds(s, v.s, serial)
      /\ w.error = "none" => Answers(v, op, src)
  <2>1. Comes(s, w, v, p, content, src, room, a.size, a.dict, op, serial)
    <3> DEFINE size == a.size
               dict == a.dict
    <3>1. Stands(s, p, content, counters, size, dict)
      BY <1>1, Zenon
    <3> HIDE DEF size, dict
    <3>2. Comes(s, w, v, p, content, src, room, size, dict, op, serial)
      BY <1>1, <3>1, CallFacts, Zenon
    <3> QED BY <3>2, Zenon DEF size, dict
  <2> QED BY <2>1, Zenon DEF Comes
<1>3. Holding(w.s, serial) /\ Holding(v.s, serial)
  BY <1>1, <1>2, Zenon DEF Holding, Holds
<1>4. b \in Asks /\ b.size = a.size /\ b.dict = a.dict /\ b.lost = (a.lost \/ fails)
  BY <1>1, LostFacts, Zenon
<1>5. e \in Asks /\ e.size = a.size /\ e.dict = a.dict /\ e.lost = (a.lost \/ FALSE) /\ a.lost \in BOOLEAN
  BY <1>1, LostFacts, Zenon DEF Asks
<1> HIDE DEF b, e, v
<1>a. w.pos \in Nat /\ v.pos \in Nat
  BY <1>2, Zenon DEF Working, Works
<1>6. CASE w.error # "none"
  <2> DEFINE l == [op |-> op, left |-> Len(src) - w.pos, answer |-> 0, error |-> w.error]
  <2>1. /\ stream' = [w.s EXCEPT !.producer_failed = failed] /\ progress' = w.progress
        /\ input' = content \o SubSeq(src, 1, w.pos) /\ wire' = p \o w.out /\ asked' = b /\ last' = l
    BY <1>6, Zenon DEF Return, Note, Now, a, b
  <2>2. l.error # "none"
    BY <1>6, Zenon
  <2>3. failed \in BOOLEAN /\ (b.lost = TRUE => failed = TRUE)
    BY <1>1, <1>4, Zenon
  <2>4. Working(w, p, content, src, room, b.size, b.dict)
    BY <1>2, <1>4, Zenon
  <2> HIDE DEF l, failed
  <2>5. Placed([w.s EXCEPT !.producer_failed = failed], p \o w.out, content \o SubSeq(src, 1, w.pos), w.progress,
               b, l, serial)
    BY <1>1, <1>3, <1>4, <2>2, <2>3, <2>4, ErrorReturns, Zenon
  <2>6. Noted(begins)
    <3>1. Note(begins, op, src, w, fails, 0, w.error)
      BY <1>6, Zenon DEF Return
    <3> QED BY <1>a, <3>1, NoteFacts, Zenon
  <2> QED BY <2>1, <2>5, <2>6, Zenon
<1>7. CASE w.error = "none" /\ failed
  <2> DEFINE l == [op |-> op, left |-> Len(src) - w.pos, answer |-> 0, error |-> "sequenceProducer_failed"]
  <2>1. /\ stream' = NoStream /\ input' = content \o SubSeq(src, 1, w.pos) /\ wire' = p \o w.out
        /\ asked' = b /\ last' = l
    BY <1>7, Zenon DEF Return, Note, Now, a, b
  <2>2. l.error # "none"
    BY Zenon
  <2>3. Working(w, p, content, src, room, b.size, b.dict)
    BY <1>2, <1>4, Zenon
  <2> HIDE DEF l
  <2>4. Placed(NoStream, p \o w.out, content \o SubSeq(src, 1, w.pos), progress', b, l, serial)
    BY <1>1, <1>4, <2>2, <2>3, FailedReturns, Zenon
  <2>6. Noted(begins)
    <3>1. Note(begins, op, src, w, fails, 0, "sequenceProducer_failed")
      BY <1>7, Zenon DEF Return
    <3> QED BY <1>a, <3>1, NoteFacts, Zenon
  <2> QED BY <2>1, <2>4, <2>6, Zenon
<1>8. CASE w.error = "none" /\ ~failed
  <2> DEFINE l == [op |-> op, left |-> Len(src) - v.pos, answer |-> Len(v.s.pending), error |-> "none"]
  <2>1. /\ stream' = v.s /\ progress' = v.progress
        /\ input' = content \o SubSeq(src, 1, v.pos) /\ wire' = p \o v.out /\ asked' = e /\ last' = l
    BY <1>8, Zenon DEF Return, Note, Now, a, e, v
  <2>2. e.lost = FALSE
    BY <1>1, <1>5, <1>8, Zenon
  <2>3. Working(v, p, content, src, room, e.size, e.dict) /\ Answers(v, op, src)
    BY <1>2, <1>5, <1>8, Zenon
  <2>4. l = [op |-> op, left |-> Len(src) - v.pos, answer |-> Len(v.s.pending), error |-> "none"]
    BY Zenon
  <2> HIDE DEF l
  <2>5. Placed(v.s, p \o v.out, content \o SubSeq(src, 1, v.pos), v.progress, e, l, serial)
    BY <1>1, <1>3, <1>5, <2>2, <2>3, <2>4, GoodReturns, Zenon
  <2>6. Noted(begins)
    <3>1. Note(begins, op, src, v, FALSE, Len(v.s.pending), "none")
      BY <1>8, Zenon DEF Return, v
    <3> QED BY <1>a, <3>1, NoteFacts, Zenon
  <2> QED BY <2>1, <2>5, <2>6, Zenon
<1> QED BY <1>6, <1>7, <1>8, Zenon

\* What a call does with the stream.
Went(begins, op, n, src, s, counters, room, fails, serial) ==
  \/ /\ n > 0 /\ ~s.open /\ stream' = s /\ progress' = counters
     /\ Note(begins, op, src, Idle(s, counters), FALSE, 0, "stage_wrong")
  \/ /\ ~(n > 0 /\ ~s.open)
     /\ \E t, w : /\ t = TakeBlocks(CopyOut(Idle(s, counters), room), src, room)
                  /\ w = Directed(t, op, src, serial) /\ Return(begins, op, src, s, t, w, room, fails)

\* A call that brings input to a closed frame.
LEMMA StageWrong ==
  ASSUME NEW op, NEW src \in Seq(Byte), NEW s, NEW serial,
         Starts(s, wire, input, progress, asked, serial), stream' = s, progress' = progress,
         Note(FALSE, op, src, Idle(s, progress), FALSE, 0, "stage_wrong"), taken \in Nat
  PROVE  Placed(stream', wire', input', progress', asked', last', serial) /\ Noted(FALSE)
<1> DEFINE i == Idle(s, progress)
           e == [asked EXCEPT !.lost = @ \/ FALSE]
<1>1. i.pos = 0 /\ i.out = << >>
  BY Zenon DEF Idle
<1>2. /\ wire' = wire \o i.out /\ input' = input \o SubSeq(src, 1, i.pos) /\ asked' = e
      /\ last'.error = "stage_wrong"
  BY Zenon DEF Note
<1> HIDE DEF i
<1>3. /\ Stands(s, wire, input, progress, asked.size, asked.dict) /\ wire \in Seq(Pieces) /\ input \in Seq(Byte)
      /\ asked \in Asks /\ (asked.lost = TRUE => s.producer_failed = TRUE) /\ Holding(s, serial)
  BY Zenon DEF Starts
<1>4. wire' = wire /\ input' = input
  <2>1. wire \o << >> = wire /\ input \o << >> = input /\ SubSeq(src, 1, 0) = << >>
    BY <1>3
  <2> QED BY <1>1, <1>2, <2>1, Zenon
<1>5. e \in Asks /\ e.size = asked.size /\ e.dict = asked.dict /\ e.lost = (asked.lost \/ FALSE) /\ asked.lost \in BOOLEAN
  BY <1>3, LostFacts, Zenon DEF Asks
<1> HIDE DEF e
<1>6. InPlace(s, wire, input, progress, e)
  <2>1. Stands(s, wire, input, progress, e.size, e.dict) /\ (e.lost = TRUE => s.producer_failed = TRUE)
    BY <1>3, <1>5, Zenon
  <2> QED BY <2>1, StandsInPlace, Zenon
<1>7. Tells(s, wire, input, e, last')
  BY <1>2, Zenon DEF Tells
<1>8. Placed(s, wire, input, progress, e, last', serial)
  BY <1>3, <1>5, <1>6, <1>7, Zenon DEF Placed
<1>9. Noted(FALSE)
  <2>1. Note(FALSE, op, src, i, FALSE, 0, "stage_wrong")
    BY Zenon DEF i
  <2>2. i.pos \in Nat
    BY <1>1
  <2> QED BY <2>1, <2>2, NoteFacts, Zenon
<1> QED BY <1>2, <1>4, <1>8, <1>9, Zenon

\* ZSTD_compressStream2 keeps the invariant.
LEMMA CallKeeps ==
  ASSUME Inv, NEW op \in Directives, NEW n \in Nat, NEW room \in Nat, NEW fails \in BOOLEAN, Call(op, n, room, fails)
  PROVE  Inv'
<1> DEFINE b == ~stream_in_progress
           src == Brings(n)
           s == Opened(b, op, n)
           counters == IF b THEN NoProgress ELSE progress
           p == IF b THEN << >> ELSE wire
           content == IF b THEN << >> ELSE input
           serial == attached'.serial
           a == Now(b, op, src)
<1>1. b \in BOOLEAN
  BY Zenon
<1>2. /\ pledged' = (IF b THEN Unknown ELSE pledged) /\ attached' = (IF b THEN AfterPrefix(attached) ELSE attached)
      /\ compressor' = CompressorAfterReplacing(compressor, attached.serial, attached'.serial)
      /\ serials' = serials
  BY Zenon DEF Call
<1>3. Went(b, op, n, src, s, counters, room, fails, serial)
  <2>1. \E idle \in {Idle(s, counters)} :
          IF n > 0 /\ ~s.open
          THEN /\ ~fails /\ stream' = s /\ progress' = idle.progress
               /\ Note(b, op, src, idle, FALSE, 0, "stage_wrong")
          ELSE \E t \in {TakeBlocks(CopyOut(idle, room), src, room)} :
                 \E w \in {Directed(t, op, src, serial)} :
                   (fails => Parsed(s, w)) /\ Return(b, op, src, s, t, w, room, fails)
    BY Zenon DEF Call
  <2> HIDE DEF b, src, s, counters, serial
  <2>2. Idle(s, counters).progress = counters
    BY Zenon DEF Idle
  <2> QED BY <2>1, <2>2, Zenon DEF Went
<1>4. taken \in Nat /\ Agrees(pledged, attached, next_frame) /\ Keeps(compressor, attached.serial) /\ serials \in Nat
  BY Zenon DEF Inv
<1>5. src \in Seq(Byte) /\ Len(src) = n
  BY <1>4, BringsFacts, Zenon
<1>6. b = FALSE => stream_in_progress
  BY Zenon
<1>7. b = TRUE => ~stream_in_progress
  BY Zenon
<1> HIDE DEF b, src
<1>8. Starts(s, p, content, counters, a, serial) /\ (b = TRUE => s.open = TRUE)
  <2>1. CASE b = TRUE
    <3>1. /\ Starts(Opened(TRUE, op, n), << >>, << >>, NoProgress, Now(TRUE, op, src), AfterPrefix(attached).serial)
          /\ Opened(TRUE, op, n).open = TRUE
      BY <1>5, <1>7, <2>1, Begins, Zenon
    <3>2. attached' = AfterPrefix(attached)
      BY <1>2, <2>1, Zenon
    <3> QED BY <2>1, <3>1, <3>2, Zenon
  <2>2. CASE b = FALSE
    <3>1. Starts(Opened(FALSE, op, n), wire, input, progress, Now(FALSE, op, src), attached.serial)
      BY <1>6, <2>2, GoesOn, Zenon
    <3>2. attached' = attached
      BY <1>2, <2>2, Zenon
    <3> QED BY <2>2, <3>1, <3>2, Zenon
  <2> QED BY <1>1, <2>1, <2>2, Zenon
<1>9. s.open \in BOOLEAN
  BY <1>8, Zenon DEF Starts, Stands, Streams
<1>10. Placed(stream', wire', input', progress', asked', last', serial) /\ Noted(b)
  <2>1. CASE n > 0 /\ ~s.open
    <3>1. b = FALSE
      BY <1>1, <1>8, <2>1, Zenon
    <3>2. Starts(s, wire, input, progress, asked, serial)
      BY <1>8, <3>1, Zenon DEF Now
    <3>3. /\ stream' = s /\ progress' = progress
          /\ Note(FALSE, op, src, Idle(s, progress), FALSE, 0, "stage_wrong")
      BY <1>3, <2>1, <3>1, Zenon DEF Went
    <3> HIDE DEF s, serial
    <3> QED BY <1>4, <1>5, <3>1, <3>2, <3>3, StageWrong, Zenon
  <2>2. CASE ~(n > 0 /\ ~s.open)
    <3>1. s.open = TRUE \/ Len(src) = 0
      BY <1>5, <1>9, <2>2, SMTT(30)
    <3>2. PICK t, w : /\ t = TakeBlocks(CopyOut(Idle(s, counters), room), src, room)
                      /\ w = Directed(t, op, src, serial) /\ Return(b, op, src, s, t, w, room, fails)
      BY <1>3, <2>2, Zenon DEF Went
    <3>3. p = (IF b THEN << >> ELSE wire) /\ content = (IF b THEN << >> ELSE input)
      BY Zenon
    <3> HIDE DEF s, p, content, counters, serial
    <3> QED BY <1>1, <1>4, <1>5, <1>8, <3>1, <3>2, <3>3, ReturnFacts, Zenon
  <2> QED BY <2>1, <2>2, Zenon
<1>11. Agrees(pledged', attached', next_frame')
  <2>1. CASE b = TRUE
    <3>1. /\ pledged' = Unknown /\ attached' = AfterPrefix(attached)
          /\ next_frame' = Wishes(Unknown, IF next_frame.once THEN 0 ELSE next_frame.dict, FALSE)
      BY <1>2, <1>10, <2>1, Zenon DEF Noted
    <3>2. Agrees(Unknown, AfterPrefix(attached), Wishes(Unknown, IF next_frame.once THEN 0 ELSE next_frame.dict, FALSE))
      BY <1>4, SpentFacts, Zenon
    <3> QED BY <3>1, <3>2, Zenon
  <2>2. CASE b = FALSE
    <3>1. pledged' = pledged /\ attached' = attached /\ next_frame' = next_frame
      BY <1>2, <1>10, <2>2, Zenon DEF Noted
    <3> QED BY <1>4, <3>1, Zenon
  <2> QED BY <1>1, <2>1, <2>2, Zenon
<1>12. Keeps(compressor', attached'.serial)
  BY <1>2, <1>4, CompressorFacts, Zenon
<1>13. taken' \in Nat /\ serials' \in Nat
  BY <1>2, <1>4, <1>10, Zenon DEF Noted
<1> QED BY <1>10, <1>11, <1>12, <1>13, Zenon DEF Inv

-----------------------------------------------------------------------------
(* The other calls.                                                        *)

\* Between frames, another dictionary is attached.
LEMMA ReplacePlaced ==
  ASSUME NEW s, NEW out, NEW content, NEW counters, NEW a, NEW l, NEW old,
         Placed(s, out, content, counters, a, l, old), ~in_frame(s), NEW serial
  PROVE  Placed(StreamAfterReplacing(s, old, serial), out, content, counters, a, l, serial)
<1> DEFINE t == StreamAfterReplacing(s, old, serial)
<1>1. Rests(s) /\ Heads(out, a.size, a.dict) /\ s.open = FALSE /\ s.dictionary \in {0, old}
  BY Zenon DEF Placed, InPlace, Rests, Holding
<1>2. Rests(t) /\ t.dictionary \in {0, serial}
  BY <1>1, ReplaceFacts, SMTT(30)
<1> HIDE DEF t
<1>3. ~in_frame(t) /\ t.open = FALSE
  BY <1>2, Zenon DEF in_frame, Rests
<1>4. InPlace(t, out, content, counters, a) /\ Holding(t, serial)
  BY <1>1, <1>2, <1>3, Zenon DEF InPlace, Holding
<1>5. Tells(t, out, content, a, l)
  BY <1>1, <1>3, Zenon DEF Placed, Tells
<1>6. Placed(t, out, content, counters, a, l, serial)
  BY <1>4, <1>5, Zenon DEF Placed
<1> QED BY <1>6, Zenon DEF t

\* Nothing is out yet, and nothing told.
LEMMA BlankPlaced ==
  ASSUME NEW s, Rests(s), NEW serial, s.dictionary \in {0, serial}, NEW counters, NEW a \in Asks,
         NEW l, l.error # "none" \/ l.op \notin Directives
  PROVE  Placed(s, << >>, << >>, counters, a, l, serial)
<1>1. ~in_frame(s)
  BY Zenon DEF in_frame, Rests
<1>2. << >> \in Seq(Pieces) /\ << >> \in Seq(Byte) /\ Heads(<< >>, a.size, a.dict)
  BY DEF Heads
<1> QED BY <1>1, <1>2, Zenon DEF Placed, InPlace, Holding, Tells

\* The invariant holds of a new context.
LEMMA InitHolds == Init => Inv
<1> SUFFICES ASSUME Init PROVE Inv
  BY Zenon
<1>1. /\ stream = NoStream /\ pledged = Unknown /\ attached = NoAttach /\ compressor = [held |-> 0, dictionary |-> 0]
      /\ serials = 1 /\ taken = 0 /\ input = << >> /\ wire = << >> /\ asked = Wishes(Unknown, 0, FALSE)
      /\ next_frame = asked /\ last.op = "none"
  BY Zenon DEF Init
<1>2. asked \in Asks /\ asked.size = Unknown /\ asked.dict = 0 /\ asked.once = FALSE /\ asked.lost = FALSE
  BY <1>1, Zenon DEF Wishes, Asks, Sizes
<1>3. attached \in Attachments /\ attached.serial = 0 /\ attached.kind = "None"
  BY <1>1, Zenon DEF NoAttach, Attachments
<1>4. Agrees(pledged, attached, next_frame)
  <2>1. Unknown \in Sizes
    BY Zenon DEF Sizes
  <2> QED BY <1>1, <1>2, <1>3, <2>1, Zenon DEF Agrees
<1>5. Keeps(compressor, attached.serial)
  BY <1>1, Zenon DEF Keeps
<1>6. Placed(stream, wire, input, progress, asked, last, attached.serial)
  <2>1. last.op \notin Directives
    BY <1>1, Zenon DEF Directives
  <2>2. Rests(NoStream) /\ NoStream.dictionary \in {0, attached.serial}
    BY NewRests, Zenon
  <2>3. Placed(NoStream, << >>, << >>, progress, asked, last, attached.serial)
    BY <1>2, <2>1, <2>2, BlankPlaced, SMTT(30)
  <2> QED BY <1>1, <2>3, Zenon
<1>7. serials \in Nat /\ taken \in Nat
  BY <1>1, Zenon
<1> QED BY <1>4, <1>5, <1>6, <1>7, Zenon DEF Inv

\* ZSTD_CCtx_setPledgedSrcSize keeps the invariant.
LEMMA PledgeKeeps ==
  ASSUME Inv, NEW size \in Nat, SetPledgedSrcSize(size)
  PROVE  Inv'
<1> DEFINE m == [next_frame EXCEPT !.size = size]
<1>1. /\ stream' = stream /\ attached' = attached /\ compressor' = compressor /\ progress' = progress
      /\ serials' = serials /\ taken' = taken /\ input' = input /\ wire' = wire /\ asked' = asked /\ last' = last
      /\ pledged' = size /\ next_frame' = m
  BY Zenon DEF SetPledgedSrcSize
<1>2. /\ serials \in Nat /\ taken \in Nat /\ Agrees(pledged, attached, next_frame)
      /\ Keeps(compressor, attached.serial)
      /\ Placed(stream, wire, input, progress, asked, last, attached.serial)
  BY Zenon DEF Inv
<1>3. m \in Asks /\ m.size = size /\ m.dict = next_frame.dict /\ m.once = next_frame.once /\ m.lost = next_frame.lost
  BY <1>2, Zenon DEF Agrees, Asks, Sizes
<1> HIDE DEF m
<1>4. Agrees(size, attached, m)
  <2>1. size \in Sizes
    BY Zenon DEF Sizes
  <2> QED BY <1>2, <1>3, <2>1, Zenon DEF Agrees
<1> QED BY <1>1, <1>2, <1>4, Zenon DEF Inv

\* ZSTD_CCtx_loadDictionary, refCDict and refPrefix keep the invariant.
LEMMA AttachKeeps ==
  ASSUME Inv, NEW kind \in {"None", "Load", "RefCDict", "Prefix"}, Attach(kind)
  PROVE  Inv'
<1> DEFINE fresh == kind \in {"Load", "Prefix"}
           at == CASE fresh -> [kind |-> kind, serial |-> serials + 1]
                   [] kind = "RefCDict" -> [kind |-> kind, serial |-> 1]
                   [] OTHER -> NoAttach
           m == [next_frame EXCEPT !.dict = at.serial, !.once = (at.kind = "Prefix")]
<1>1. /\ ~stream_in_progress /\ attached' = at
      /\ stream' = StreamAfterReplacing(stream, attached.serial, at.serial)
      /\ compressor' = CompressorAfterReplacing(compressor, attached.serial, at.serial)
      /\ next_frame' = m /\ serials' = (IF fresh THEN serials + 1 ELSE serials)
      /\ pledged' = pledged /\ progress' = progress /\ taken' = taken /\ input' = input /\ wire' = wire
      /\ asked' = asked /\ last' = last
  BY Zenon DEF Attach, Replace
<1>2. /\ serials \in Nat /\ taken \in Nat /\ Agrees(pledged, attached, next_frame)
      /\ Keeps(compressor, attached.serial)
      /\ Placed(stream, wire, input, progress, asked, last, attached.serial)
  BY Zenon DEF Inv
<1>3. at \in Attachments /\ serials' \in Nat
  <2>1. CASE fresh
    <3>1. at = [kind |-> kind, serial |-> serials + 1] /\ serials' = serials + 1
      BY <1>1, <2>1, Zenon
    <3> QED BY <1>2, <3>1, SMTT(30) DEF Attachments
  <2>2. CASE ~fresh /\ kind = "RefCDict"
    <3>1. at = [kind |-> kind, serial |-> 1] /\ serials' = serials
      BY <1>1, <2>2, Zenon
    <3> QED BY <1>2, <2>2, <3>1, Zenon DEF Attachments
  <2>3. CASE ~fresh /\ kind # "RefCDict"
    <3>1. at = NoAttach /\ serials' = serials
      BY <1>1, <2>3, Zenon
    <3> QED BY <1>2, <3>1, Zenon DEF Attachments, NoAttach
  <2> QED BY <2>1, <2>2, <2>3, Zenon
<1> HIDE DEF at
<1>4. Agrees(pledged, at, m)
  <2> DEFINE once == (at.kind = "Prefix")
             serial == at.serial
             u == [next_frame EXCEPT !.dict = serial]
  <2>1. once \in BOOLEAN /\ (once = TRUE <=> at.kind = "Prefix") /\ serial \in Nat
    BY <1>3, Zenon DEF Attachments
  <2>2. m = [u EXCEPT !.once = once]
    BY Zenon
  <2> HIDE DEF once, serial, m
  <2>3. u \in Asks /\ u.size = next_frame.size /\ u.dict = serial /\ u.lost = next_frame.lost
    BY <1>2, <2>1, Zenon DEF Agrees, Asks
  <2> HIDE DEF u
  <2>4. m \in Asks /\ m.size = u.size /\ m.dict = serial /\ m.lost = u.lost /\ m.once = once
    BY <2>1, <2>2, <2>3, Zenon DEF Asks
  <2> QED BY <1>2, <1>3, <2>1, <2>3, <2>4, Zenon DEF Agrees, serial
<1> HIDE DEF m
<1>5. Keeps(compressor', at.serial)
  BY <1>1, <1>2, CompressorFacts, Zenon
<1>6. Placed(stream', wire, input, progress, asked, last, at.serial)
  BY <1>1, <1>2, ReplacePlaced, Zenon DEF stream_in_progress
<1> QED BY <1>1, <1>2, <1>3, <1>4, <1>5, <1>6, Zenon DEF Inv

\* What reset_session leaves of the stream.
LEMMA ResetFacts ==
  ASSUME Inv
  PROVE  Rests(StreamAfterReset) /\ StreamAfterReset.dictionary \in {0, attached.serial}
<1>1. CASE stream_in_progress
  BY <1>1, NewRests, Zenon DEF StreamAfterReset
<1>2. CASE ~stream_in_progress
  BY <1>2, Zenon DEF StreamAfterReset, Inv, Placed, InPlace, Holding, stream_in_progress, Rests
<1> QED BY <1>1, <1>2, Zenon

\* ZSTD_CCtx_reset of the session keeps the invariant.
LEMMA ResetSessionKeeps ==
  ASSUME Inv, ResetSession
  PROVE  Inv'
<1> DEFINE m == [next_frame EXCEPT !.size = Unknown]
           l == [op |-> "none", left |-> 0, answer |-> 0, error |-> "none"]
<1>1. /\ stream' = StreamAfterReset /\ pledged' = Unknown /\ next_frame' = m /\ input' = << >> /\ wire' = << >>
      /\ last' = l /\ attached' = attached /\ compressor' = compressor /\ progress' = progress
      /\ serials' = serials /\ taken' = taken /\ asked' = asked
  BY Zenon DEF ResetSession
<1>2. /\ serials \in Nat /\ taken \in Nat /\ Agrees(pledged, attached, next_frame)
      /\ Keeps(compressor, attached.serial) /\ asked \in Asks
  BY Zenon DEF Inv, Placed
<1>3. m \in Asks /\ m.size = Unknown /\ m.dict = next_frame.dict /\ m.once = next_frame.once /\ m.lost = next_frame.lost
  BY <1>2, Zenon DEF Agrees, Asks, Sizes
<1> HIDE DEF m
<1>4. Agrees(Unknown, attached, m)
  <2>1. Unknown \in Sizes
    BY Zenon DEF Sizes
  <2> QED BY <1>2, <1>3, <2>1, Zenon DEF Agrees
<1>5. l.op \notin Directives
  BY Zenon DEF Directives
<1> HIDE DEF l
<1>6. Placed(StreamAfterReset, << >>, << >>, progress, asked, l, attached.serial)
  BY <1>2, <1>5, ResetFacts, BlankPlaced, SMTT(30)
<1> QED BY <1>1, <1>2, <1>4, <1>6, Zenon DEF Inv

\* ZSTD_CCtx_reset of the parameters keeps the invariant.
LEMMA ResetParametersKeeps ==
  ASSUME Inv, ResetParameters
  PROVE  Inv'
<1> DEFINE m == Wishes(Unknown, 0, FALSE)
           k == [held |-> 0, dictionary |-> 0]
<1>1. /\ ~stream_in_progress /\ attached' = NoAttach /\ stream' = StreamAfterReplacing(stream, attached.serial, 0)
      /\ compressor' = k /\ pledged' = Unknown /\ next_frame' = m /\ progress' = progress /\ serials' = serials
      /\ taken' = taken /\ input' = input /\ wire' = wire /\ asked' = asked /\ last' = last
  BY Zenon DEF ResetParameters
<1>2. /\ serials \in Nat /\ taken \in Nat
      /\ Placed(stream, wire, input, progress, asked, last, attached.serial)
  BY Zenon DEF Inv
<1>3. NoAttach \in Attachments /\ NoAttach.serial = 0 /\ NoAttach.kind = "None"
  BY Zenon DEF NoAttach, Attachments
<1>4. Agrees(Unknown, NoAttach, m)
  <2>1. m \in Asks /\ m.size = Unknown /\ m.dict = 0 /\ m.once = FALSE /\ m.lost = FALSE /\ Unknown \in Sizes
    BY Zenon DEF Wishes, Asks, Sizes
  <2> HIDE DEF m
  <2> QED BY <1>3, <2>1, Zenon DEF Agrees
<1>5. Keeps(k, 0)
  BY Zenon DEF Keeps
<1> HIDE DEF m, k
<1>6. Placed(stream', wire, input, progress, asked, last, 0)
  BY <1>1, <1>2, ReplacePlaced, Zenon DEF stream_in_progress
<1> QED BY <1>1, <1>2, <1>3, <1>4, <1>5, <1>6, Zenon DEF Inv

\* A frame of one block.
OneBlock(n, dict, data) ==
  <<Header(n, dict), Block(data, TRUE)>> \o (IF ContentChecksum THEN <<Checksum(data)>> ELSE << >>)

\* The frame of one block that ZSTD_compress2 makes.
LEMMA OneBlockFacts ==
  ASSUME NEW n \in Nat, NEW dict \in Nat, NEW data \in Seq(Byte), Len(data) = n, n <= BlockCapacity
  PROVE  /\ OneBlock(n, dict, data) \in Seq(Pieces) /\ IsFrameOf(OneBlock(n, dict, data), data)
         /\ Contents(OneBlock(n, dict, data)) = data /\ Heads(OneBlock(n, dict, data), n, dict)
<1> DEFINE h == Header(n, dict)
           x == Block(data, TRUE)
           y == Checksum(data)
           f == OneBlock(n, dict, data)
<1>1. n \in Nat \cup {Unknown} /\ TRUE \in BOOLEAN
  BY Zenon
<1>2. h \in Pieces /\ BlockData(h) = << >> /\ x \in Pieces /\ y \in Pieces
  BY <1>1, PieceFacts, Zenon
<1>3. h.fcs = n /\ h.dict = dict
  BY Zenon DEF Header
<1>4. IsOpenFrame(<<h>>)
  BY <1>1, HeaderOpens, Zenon
<1>5. f = <<h, x>> \o (IF ContentChecksum THEN <<y>> ELSE << >>)
  BY Zenon DEF OneBlock
<1>6. Closed(<<h>>, data, data) = IF ContentChecksum THEN Append(Append(<<h>>, x), y) ELSE Append(<<h>>, x)
  BY Zenon DEF Closed
<1> HIDE DEF h, x, y, f
<1>7. <<h, x>> \o <<y>> = Append(Append(<<h>>, x), y) /\ <<h, x>> \o << >> = Append(<<h>>, x)
  BY <1>2
<1>8. f = Closed(<<h>>, data, data)
  BY <1>5, <1>6, <1>7, Zenon
<1>9. <<h>> \in Seq(Pieces) /\ <<h>> # << >> /\ <<h>>[1] = h
  BY <1>2
<1>10. Contents(<<h>>) = << >>
  <2>1. << >> \in Seq(Pieces) /\ <<h>> = Append(<< >>, h)
    BY <1>2
  <2>2. \A q \in Seq(Pieces) : q = << >> => Contents(q) = << >>
    BY ContentsFacts, Zenon
  <2>3. \A q \in Seq(Pieces) : \A z \in Pieces : Contents(Append(q, z)) = Contents(q) \o BlockData(z)
    BY ContentsFacts, Zenon
  <2>4. Contents(<<h>>) = Contents(<< >>) \o BlockData(h)
    BY <1>2, <2>1, <2>3, Zenon
  <2>5. Contents(<< >>) = << >>
    BY <2>1, <2>2, Zenon
  <2> QED BY <1>2, <2>4, <2>5, SMTT(30)
<1>11. Contents(<<h>>) \o data = data
  BY <1>10
<1>12. IsFrameOf(Closed(<<h>>, data, data), data)
  <2> DEFINE all == <<h>>
  <2>1. all \in Seq(Pieces) /\ all # << >> /\ IsOpenFrame(all) /\ Contents(all) \o data = data
        /\ all[1].fcs \in {Unknown, Len(data)}
    BY <1>3, <1>4, <1>9, <1>11, Zenon
  <2> HIDE DEF all
  <2>2. IsFrameOf(Closed(all, data, data), data)
    BY <2>1, FrameCloses, Zenon
  <2> QED BY <2>2, Zenon DEF all
<1>13. Heads(Closed(<<h>>, data, data), n, dict)
  BY <1>3, <1>9, ClosedHeads, Zenon
<1>14. f \in Seq(Pieces)
  <2>1. Append(Append(<<h>>, x), y) \in Seq(Pieces) /\ Append(<<h>>, x) \in Seq(Pieces)
    BY <1>2, <1>9, SMTT(30)
  <2> QED BY <1>6, <1>8, <2>1, Zenon
<1>15. Contents(f) = data
  BY <1>8, <1>12, Zenon DEF IsFrameOf
<1> QED BY <1>8, <1>12, <1>13, <1>14, <1>15, Zenon DEF f

\* ZSTD_compress2 keeps the invariant.
LEMMA Compress2Keeps ==
  ASSUME Inv, NEW n \in Nat, NEW fits \in BOOLEAN, Compress2(n, fits)
  PROVE  Inv'
<1> DEFINE k == IF compressor.held # attached.serial
                THEN [held |-> attached.serial, dictionary |-> attached.serial] ELSE compressor
           at == AfterPrefix(attached)
           data == Brings(n)
           f == OneBlock(n, k.dictionary, data)
           t == StreamAfterReplacing(StreamAfterReset, attached.serial, at.serial)
           a == Wishes(n, next_frame.dict, FALSE)
           m == Wishes(Unknown, IF next_frame.once THEN 0 ELSE next_frame.dict, FALSE)
           l == [op |-> "end", left |-> 0, answer |-> 0, error |-> IF fits THEN "none" ELSE "dstSize_tooSmall"]
<1>1. /\ n <= BlockCapacity /\ stream' = t /\ compressor' = CompressorAfterReplacing(k, attached.serial, at.serial)
      /\ attached' = at /\ pledged' = Unknown /\ taken' = (IF fits THEN taken + n ELSE taken)
      /\ input' = (IF fits THEN data ELSE << >>) /\ wire' = (IF fits THEN f ELSE << >>)
      /\ asked' = a /\ next_frame' = m /\ last' = l /\ serials' = serials
  BY Zenon DEF Compress2, OneBlock
<1>2. /\ serials \in Nat /\ taken \in Nat /\ Agrees(pledged, attached, next_frame)
      /\ Keeps(compressor, attached.serial)
  BY Zenon DEF Inv
<1>3. attached.serial \in Nat /\ next_frame.dict = attached.serial
  BY <1>2, Zenon DEF Agrees, Attachments
<1>4. Keeps(k, attached.serial) /\ k.dictionary = attached.serial
  <2>1. CASE compressor.held # attached.serial
    <3>1. k = [held |-> attached.serial, dictionary |-> attached.serial]
      BY <2>1, Zenon
    <3>2. Keeps([held |-> attached.serial, dictionary |-> attached.serial], attached.serial)
      BY <1>3, Zenon DEF Keeps
    <3> QED BY <3>1, <3>2, SMTT(30)
  <2>2. CASE compressor.held = attached.serial
    <3>1. k = compressor
      BY <2>2, Zenon
    <3> QED BY <1>2, <2>2, <3>1, Zenon DEF Keeps
  <2> QED BY <2>1, <2>2, Zenon
<1>5. Agrees(Unknown, at, m)
  BY <1>2, SpentFacts, Zenon
<1>6. Rests(t) /\ t.dictionary \in {0, at.serial}
  BY ResetFacts, ReplaceFacts, SMTT(30)
<1>7. data \in Seq(Byte) /\ Len(data) = n
  BY <1>2, BringsFacts, Zenon
<1>8. a \in Asks /\ a.size = n /\ a.dict = attached.serial /\ a.lost = FALSE
  BY <1>3, Zenon DEF Wishes, Asks, Sizes
<1>9. l.op = "end" /\ l.left = 0 /\ l.answer = 0 /\ l.error = (IF fits THEN "none" ELSE "dstSize_tooSmall")
  BY Zenon
<1>10. f = OneBlock(n, attached.serial, data)
  BY <1>4, Zenon
<1> HIDE DEF k, at, data, t, a, m, l
<1>11. f \in Seq(Pieces) /\ IsFrameOf(f, data) /\ Contents(f) = data /\ Heads(f, n, attached.serial)
  <2> HIDE DEF f
  <2> QED BY <1>1, <1>3, <1>7, <1>10, OneBlockFacts, Zenon
<1> HIDE DEF f
<1>12. Placed(t, wire', input', progress', a, l, at.serial)
  <2>1. CASE fits
    <3>1. wire' = f /\ input' = data /\ l.error = "none"
      BY <1>1, <1>9, <2>1, Zenon
    <3>2. ~in_frame(t)
      BY <1>6, Zenon DEF Rests, in_frame
    <3>3. InPlace(t, f, data, progress', a) /\ Holding(t, at.serial)
      BY <1>6, <1>8, <1>11, <3>2, Zenon DEF InPlace, Holding
    <3>4. Tells(t, f, data, a, l)
      BY <1>7, <1>8, <1>9, <1>11, SMTT(30) DEF Tells
    <3> QED BY <1>7, <1>8, <1>11, <3>1, <3>3, <3>4, Zenon DEF Placed
  <2>2. CASE ~fits
    <3>1. wire' = << >> /\ input' = << >> /\ l.error # "none"
      BY <1>1, <1>9, <2>2, Zenon
    <3>2. a \in Asks
      BY <1>8, Zenon
    <3>3. l.error # "none" \/ l.op \notin Directives
      BY <3>1, Zenon
    <3> DEFINE counters == progress'
               serial == at.serial
    <3>4. Rests(t) /\ t.dictionary \in {0, serial}
      BY <1>6, Zenon
    <3> HIDE DEF counters, serial
    <3>5. Placed(t, << >>, << >>, counters, a, l, serial)
      BY <3>2, <3>3, <3>4, BlankPlaced, SMTT(30)
    <3> QED BY <3>1, <3>5, Zenon DEF counters, serial
  <2> QED BY <2>1, <2>2, Zenon
<1>13. Keeps(compressor', at.serial)
  BY <1>1, <1>4, CompressorFacts, Zenon
<1>14. taken' \in Nat /\ serials' \in Nat
  BY <1>1, <1>2, SMTT(30)
<1> QED BY <1>1, <1>5, <1>12, <1>13, <1>14, Zenon DEF Inv

-----------------------------------------------------------------------------
(* Every step keeps the invariant, and what it says.                       *)

\* Every step keeps the invariant.
LEMMA NextKeeps == Inv /\ [Next]_vars => Inv'
<1> SUFFICES ASSUME Inv, [Next]_vars PROVE Inv'
  BY Zenon
<1>1. ASSUME NEW op \in Directives, NEW n \in InputLengths, NEW room \in OutputLengths, NEW fails \in BOOLEAN,
             Call(op, n, room, fails)
      PROVE  Inv'
  <2>1. n \in Nat /\ room \in Nat
    BY StreamAssumption, Zenon
  <2> QED BY <1>1, <2>1, CallKeeps, Zenon
<1>2. ASSUME NEW size \in Pledges, SetPledgedSrcSize(size) PROVE Inv'
  <2>1. size \in Nat
    BY StreamAssumption, Zenon
  <2> QED BY <1>2, <2>1, PledgeKeeps, Zenon
<1>3. ASSUME NEW kind \in {"None", "Load", "RefCDict", "Prefix"}, Attach(kind) PROVE Inv'
  BY <1>3, AttachKeeps, Zenon
<1>4. CASE ResetSession
  BY <1>4, ResetSessionKeeps, Zenon
<1>5. CASE ResetParameters
  BY <1>5, ResetParametersKeeps, Zenon
<1>6. ASSUME NEW n \in InputLengths, NEW fits \in BOOLEAN, Compress2(n, fits) PROVE Inv'
  <2>1. n \in Nat
    BY StreamAssumption, Zenon
  <2> QED BY <1>6, <2>1, Compress2Keeps, Zenon
<1>7. CASE UNCHANGED vars
  BY <1>7, Zenon DEF Inv, vars, ours, callers
<1> QED BY <1>1, <1>2, <1>3, <1>4, <1>5, <1>6, <1>7, Zenon DEF Next

\* The frame, from where the stream stands.
LEMMA StandsHolds == Inv => FrameHoldsTheInput
<1> SUFFICES ASSUME Inv PROVE FrameHoldsTheInput
  BY Zenon
<1> DEFINE q == stream.pending
           all == wire \o q
           c == stream.context
<1>1. SUFFICES ASSUME stream_in_progress
               PROVE  /\ IF stream.open
                         THEN /\ IsOpenFrame(all) /\ (c.started <=> all # << >>)
                              /\ Contents(all) \o SubSeq(c.pending, 1, pending_len(c)) = input
                         ELSE IsFrameOf(all, input)
                      /\ all # << >> => all[1].fcs = asked.size
  BY Zenon DEF FrameHoldsTheInput
<1>2. Stands(stream, wire, input, progress, asked.size, asked.dict)
  BY <1>1, Zenon DEF Inv, Placed, InPlace, stream_in_progress
<1>3. /\ Good(c, stream.open, all, input, asked.size, asked.dict) /\ c \in Contexts /\ stream.open \in BOOLEAN
      /\ wire \in Seq(Pieces) /\ input \in Seq(Byte) /\ q \in Seq(Pieces)
  BY <1>2, Zenon DEF Stands, Streams
<1>4. all \in Seq(Pieces)
  BY <1>3
<1> HIDE DEF all, c
<1>5. all # << >> => all[1].fcs = asked.size
  BY <1>3, Zenon DEF Good, Heads
<1>6. CASE stream.open = FALSE
  BY <1>3, <1>5, <1>6, Zenon DEF Good
<1>7. CASE stream.open = TRUE
  <2>1. InFrame(c, all, input)
    BY <1>3, <1>7, Zenon DEF Good, Going
  <2>2. Contents(all) \o SubSeq(c.pending, 1, pending_len(c)) = input
    <3>1. c.pending \in Seq(Byte) /\ c.started \in BOOLEAN
      BY <1>3, Zenon DEF Contexts
    <3>2. CASE c.started = TRUE
      <4>1. SubSeq(c.pending, 1, Len(c.pending)) = c.pending
        BY <3>1
      <4>2. pending_len(c) = Len(c.pending) /\ Contents(all) = c.hashed /\ c.hashed \o c.pending = input
        BY <2>1, <3>2, Zenon DEF InFrame, pending_len
      <4> QED BY <4>1, <4>2, Zenon
    <3>3. CASE c.started = FALSE
      <4>1. pending_len(c) = 0 /\ all = << >> /\ input = << >>
        BY <2>1, <3>3, Zenon DEF InFrame, pending_len
      <4>2. SubSeq(c.pending, 1, 0) = << >> /\ << >> \o << >> = << >>
        BY <3>1
      <4>3. Contents(all) = << >>
        BY <1>4, <4>1, ContentsFacts, Zenon
      <4> QED BY <4>1, <4>2, <4>3, Zenon
    <3> QED BY <3>1, <3>2, <3>3, Zenon
  <2> QED BY <1>5, <1>7, <2>1, <2>2, Zenon DEF InFrame
<1> QED BY <1>3, <1>6, <1>7, Zenon

\* The dictionaries, from where the stream stands.
LEMMA HoldsDictionaries == Inv => DictionaryServesItsFrames
<1> SUFFICES ASSUME Inv PROVE DictionaryServesItsFrames
  BY Zenon
<1> DEFINE all == wire \o stream.pending
<1>1. Placed(stream, wire, input, progress, asked, last, attached.serial) /\ Keeps(compressor, attached.serial)
  BY Zenon DEF Inv
<1>2. Heads(all, asked.size, asked.dict) /\ Sane(stream)
  <2>1. CASE in_frame(stream)
    BY <1>1, <2>1, Zenon DEF Placed, InPlace, Stands, Good, Sane
  <2>2. CASE ~in_frame(stream)
    <3>1. wire \in Seq(Pieces) /\ Rests(stream) /\ Heads(wire, asked.size, asked.dict)
      BY <1>1, <2>2, Zenon DEF Placed, InPlace
    <3>2. stream.pending = << >>
      BY <3>1, Zenon DEF Rests
    <3>3. all = wire
      BY <3>1, <3>2, SMTT(30)
    <3> HIDE DEF all
    <3> QED BY <3>1, <3>3, Zenon DEF Rests
  <2> QED BY <2>1, <2>2, Zenon
<1> HIDE DEF all
<1>3. all # << >> => all[1].dict = asked.dict
  BY <1>2, Zenon DEF Heads
<1>4. ~stream.open => stream.dictionary \in {0, attached.serial}
  BY <1>1, <1>2, Zenon DEF Placed, Holding, Sane, Streams
<1>5. stream.context.dictionary = stream.dictionary /\ compressor.held \in {0, attached.serial}
  BY <1>1, <1>2, Zenon DEF Sane, Keeps
<1> QED BY <1>3, <1>4, <1>5, Zenon DEF DictionaryServesItsFrames, all

\* What waits to be copied out.
LEMMA Waiting ==
  ASSUME NEW s, NEW out, NEW content, NEW counters, NEW size, NEW dict, Stands(s, out, content, counters, size, dict)
  PROVE  /\ counters = [ingested |-> Len(content), produced |-> Len(out \o s.pending), flushed |-> Len(out)]
         /\ Len(Contents(s.pending)) < BLOCK_SIZE_MAX + BlockCapacity
<1> DEFINE q == s.pending
           all == out \o q
           c == s.context
<1>1. /\ out \in Seq(Pieces) /\ content \in Seq(Byte) /\ q \in Seq(Pieces) /\ c \in Contexts /\ s.open \in BOOLEAN
      /\ Good(c, s.open, all, content, size, dict)
  BY Zenon DEF Stands, Streams
<1>2. /\ counters \in Counters /\ counters.ingested = Len(content) /\ counters.produced = Len(out) + Len(q)
      /\ counters.flushed = Len(out) /\ Bounded(out, content)
  BY Zenon DEF Stands, Counted
<1> HIDE DEF q, c
<1>3. all \in Seq(Pieces) /\ Len(all) = Len(out) + Len(q) /\ Len(content) \in Nat
  BY <1>1
<1>4. counters = [ingested |-> Len(content), produced |-> Len(all), flushed |-> Len(out)]
  BY <1>2, <1>3, Zenon DEF Counters
<1>5. Contents(all) = Contents(out) \o Contents(q)
  BY <1>1, ContentsJoin, Zenon
<1>6. Contents(out) \in Seq(Byte) /\ Contents(q) \in Seq(Byte)
  BY <1>1, ContentsFacts, Zenon
<1>7. /\ Len(Contents(out)) \in Nat /\ Len(Contents(q)) \in Nat
      /\ Len(Contents(all)) = Len(Contents(out)) + Len(Contents(q))
  BY <1>5, <1>6, Concatenated, Zenon
<1> HIDE DEF all
<1>8. Len(Contents(all)) <= Len(content)
  <2>1. CASE s.open = TRUE
    <3>1. InFrame(c, all, content) /\ pending_len(c) < BlockCapacity
      BY <1>1, <2>1, Zenon DEF Good, Going
    <3> QED BY <1>1, <1>3, <3>1, HoldsBack, Zenon
  <2>2. CASE s.open = FALSE
    <3>1. Contents(all) = content
      BY <1>1, <2>2, Zenon DEF Good, IsFrameOf
    <3> QED BY <1>3, <3>1, SMTT(30)
  <2> QED BY <1>1, <2>1, <2>2, Zenon
<1>9. Len(Contents(q)) < BLOCK_SIZE_MAX + BlockCapacity
  <2>1. Len(content) < Len(Contents(out)) + BLOCK_SIZE_MAX + BlockCapacity
    BY <1>2, Zenon DEF Bounded
  <2> QED BY <1>3, <1>7, <1>8, <2>1, StreamAssumption, CapacityAssumption, SMTT(30)
<1> QED BY <1>4, <1>9, Zenon DEF all, q

\* The answers, from where the stream stands.
LEMMA HoldsAnswers == Inv => AnswerTells
<1> SUFFICES ASSUME Inv PROVE AnswerTells
  BY Zenon
<1>1. Tells(stream, wire, input, asked, last)
  BY Zenon DEF Inv, Placed
<1>2. ASSUME stream_in_progress
      PROVE  /\ progress = [ingested |-> Len(input), produced |-> Len(wire \o stream.pending), flushed |-> Len(wire)]
             /\ Len(Contents(stream.pending)) < BLOCK_SIZE_MAX + BlockCapacity
  <2>1. Stands(stream, wire, input, progress, asked.size, asked.dict)
    BY <1>2, Zenon DEF Inv, Placed, InPlace, stream_in_progress
  <2> QED BY <2>1, Waiting, Zenon
<1> QED BY <1>1, <1>2, Zenon DEF AnswerTells, Tells

(***************************************************************************)
(* In every state the stream either stands in a frame of exactly the bytes *)
(* taken since it began, with the settings the caller made for that frame, *)
(* or rests between frames; the dictionaries kept are attached ones; and   *)
(* what the last call answered is true (every call of                      *)
(* c-api/src/streaming.rs and context.rs that changes the compression      *)
(* context).                                                               *)
(***************************************************************************)
THEOREM StreamInvariant == Spec => []Inv
<1>1. Inv /\ [Next]_vars => Inv'
  BY NextKeeps, Zenon
<1> QED BY InitHolds, <1>1, PTL DEF Spec

(***************************************************************************)
(* What has been handed out of a frame and what waits in pending are       *)
(* together the frame of exactly the bytes taken since it began, with the  *)
(* pledged size in its header, whatever the sizes of input and output the  *)
(* calls of ZSTD_compressStream2 bring, and over errors, lost blocks and   *)
(* abandoned frames.                                                       *)
(***************************************************************************)
THEOREM FramesHoldTheirInput == Spec => []FrameHoldsTheInput
BY StreamInvariant, StandsHolds, PTL

(***************************************************************************)
(* Every frame names the dictionary attached for it, a prefix serving one  *)
(* frame only, and between frames neither the stream nor the one-shot      *)
(* compressor keeps a dictionary that is no longer attached                *)
(* (replace_attached_dict, consume_prefix, configure).                     *)
(***************************************************************************)
THEOREM DictionariesServeTheirFrames == Spec => []DictionaryServesItsFrames
BY StreamInvariant, HoldsDictionaries, PTL

(***************************************************************************)
(* An answer of 0 for an end means that the whole frame is out, of the     *)
(* size pledged and with no block lost; an answer of 0 for a flush that    *)
(* every byte taken is out; input left over can still be brought; and the  *)
(* progression and the bound on what waits are right (the return value of  *)
(* ZSTD_compressStream2 and ZSTD_getFrameProgression).                     *)
(***************************************************************************)
THEOREM AnswersTell == Spec => []AnswerTells
BY StreamInvariant, HoldsAnswers, PTL
=============================================================================
