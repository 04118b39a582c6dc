------------------------ MODULE CompressCall_proofs -------------------------
(***************************************************************************)
(* One call of ZSTD_compressStream2, for every block size, slice size,     *)
(* length, pledge and dictionary: from a stream that stands in its frame,  *)
(* the loop that takes the input, the directive and the beginning of a     *)
(* frame leave one that stands in its frame, or has lost it and says so.   *)
(***************************************************************************)
EXTENDS CompressStream, CompressionContext_proofs

-----------------------------------------------------------------------------
(* Where a stream stands in its frame.                                     *)

Counters == [ingested : Nat, produced : Nat, flushed : Nat]

Streams ==
  [context : Contexts, dictionary : Nat, open : BOOLEAN, pending : Seq(Pieces),
   producer_failed : BOOLEAN, made : BOOLEAN]

\* A context between frames.
Ready(c) == c.started = FALSE /\ c.consumed = 0 /\ c.pledged = Unknown

\* What the context's calls ask of it, and keep.
Going(c, all, content, size, dict) ==
  /\ InFrame(c, all, content) /\ pending_len(c) < BlockCapacity /\ c.consumed = Len(content)
  /\ c.pledged = size /\ c.dictionary = dict

\* all is the frame of content so far, or the whole of it once it is closed.
Good(c, open, all, content, size, dict) ==
  /\ open = TRUE => Going(c, all, content, size, dict)
  /\ open = FALSE => Ready(c) /\ IsFrameOf(all, content)
  /\ Heads(all, size, dict)

Counted(s, out, content, counters) ==
  /\ counters \in Counters /\ counters.ingested = Len(content)
  /\ counters.produced = Len(out) + Len(s.pending) /\ counters.flushed = Len(out)

\* How far what was handed out is behind what was got.
Bounded(out, content) == Len(content) < Len(Contents(out)) + BLOCK_SIZE_MAX + BlockCapacity

\* A stream that has handed out `out` of the frame of content.
Stands(s, out, content, counters, size, dict) ==
  /\ s \in Streams /\ s.context.errored = FALSE /\ s.context.dictionary = s.dictionary
  /\ out \in Seq(Pieces) /\ content \in Seq(Byte)
  /\ Good(s.context, s.open, out \o s.pending, content, size, dict)
  /\ Counted(s, out, content, counters) /\ Bounded(out, content)

Errors == {"none", "srcSize_wrong", "GENERIC"}

Works == [s : Streams, progress : Counters, pos : Nat, out : Seq(Pieces), error : Errors]

\* A call part of the way through src, on a stream that had handed out p of the
\* frame of content before.
Working(w, p, content, src, room, size, dict) ==
  /\ w \in Works /\ w.pos \in 0 .. Len(src) /\ Len(w.out) <= room
  /\ Stands(w.s, p \o w.out, content \o SubSeq(src, 1, w.pos), w.progress, size, dict)

\* What a concatenation is.
LEMMA Concatenated ==
  ASSUME NEW A, NEW s \in Seq(A), NEW t \in Seq(A)
  PROVE  s \o t \in Seq(A) /\ Len(s \o t) = Len(s) + Len(t) /\ Len(s) \in Nat /\ Len(t) \in Nat
OBVIOUS

\* As much of a as room leaves after b.
LEMMA Fitting ==
  ASSUME NEW a \in Nat, NEW b \in Nat, NEW room \in Nat, b <= room
  PROVE  /\ Min({a, room - b}) \in 0 .. a /\ b + Min({a, room - b}) <= room
         /\ Min({a, room - b}) # a => b + Min({a, room - b}) = room
<1>1. Min({a, room - b}) = IF a <= room - b THEN a ELSE room - b
  BY MinTwo
<1> QED BY <1>1

\* A counter that goes up.
Flushes(r, n, v) ==
  /\ v \in Counters /\ v.ingested = r.ingested /\ v.produced = r.produced /\ v.flushed = r.flushed + n

\* What CopyOut does to the counter of flushed output.
LEMMA CountedUp ==
  ASSUME NEW r \in Counters, NEW n \in Nat
  PROVE  Flushes(r, n, [r EXCEPT !.flushed = @ + n])
BY DEF Counters, Flushes

Passes(a, b, x, y, q) == a \o (b \o x) = (a \o b) \o x /\ (a \o (b \o x)) \o y = (a \o b) \o q

\* A cut through the last of three sequences moves none of their elements.
LEMMA HandedOver ==
  ASSUME NEW A, NEW a \in Seq(A), NEW b \in Seq(A), NEW q \in Seq(A), NEW n \in 0 .. Len(q)
  PROVE  Passes(a, b, SubSeq(q, 1, n), SubSeq(q, n + 1, Len(q)), q)
<1> DEFINE x == SubSeq(q, 1, n)
           y == SubSeq(q, n + 1, Len(q))
<1>1. x \in Seq(A) /\ y \in Seq(A) /\ x \o y = q
  BY CutFacts, Zenon
<1> HIDE DEF x, y
<1>2. a \o (b \o x) = (a \o b) \o x
  BY <1>1, SMTT(30)
<1>3. ((a \o b) \o x) \o y = (a \o b) \o (x \o y)
  <2> DEFINE ab == a \o b
  <2>1. ab \in Seq(A)
    OBVIOUS
  <2>2. x \in Seq(A) /\ y \in Seq(A)
    BY <1>1, Zenon
  <2> HIDE DEF ab
  <2>3. (ab \o x) \o y = ab \o (x \o y)
    BY <2>1, <2>2, SMTT(30)
  <2> QED BY <2>3, Zenon DEF ab
<1>4. Passes(a, b, x, y, q)
  BY <1>1, <1>2, <1>3, Zenon DEF Passes
<1> QED BY <1>4, Zenon DEF x, y

\* More handed out is no less contents.
LEMMA ContentsGrow ==
  ASSUME NEW p \in Seq(Pieces), NEW q \in Seq(Pieces), NEW content, Bounded(p, content), Len(content) \in Nat
  PROVE  Bounded(p \o q, content)
<1>1. Contents(p) \in Seq(Byte) /\ Contents(q) \in Seq(Byte)
  BY ContentsFacts, Zenon
<1>2. Len(Contents(p) \o Contents(q)) = Len(Contents(p)) + Len(Contents(q))
  BY <1>1, Joined, Zenon
<1>3. Contents(p \o q) = Contents(p) \o Contents(q)
  BY ContentsJoin, Zenon
<1>4. Len(Contents(p)) \in Nat /\ Len(Contents(q)) \in Nat /\ Len(Contents(p \o q)) \in Nat
  BY <1>1, <1>2, <1>3
<1> QED BY <1>2, <1>3, <1>4, StreamAssumption, CapacityAssumption DEF Bounded

\* What CopyOut leaves.
Copied(w, room, v) ==
  /\ v.s.context = w.s.context /\ v.s.open = w.s.open /\ v.s.dictionary = w.s.dictionary
  /\ v.s.producer_failed = w.s.producer_failed /\ v.s.made = w.s.made
  /\ v.pos = w.pos /\ v.error = w.error
  /\ v.s.pending # << >> => Len(v.out) = room
  /\ Len(w.out) = room => v.s.pending = w.s.pending

\* CopyOut hands out as much as fits, and moves nothing else.
LEMMA CopyFacts ==
  ASSUME NEW w, NEW p \in Seq(Pieces), NEW content \in Seq(Byte), NEW src \in Seq(Byte), NEW room \in Nat,
         NEW size, NEW dict, Working(w, p, content, src, room, size, dict)
  PROVE  Working(CopyOut(w, room), p, content, src, room, size, dict) /\ Copied(w, room, CopyOut(w, room))
<1> DEFINE q == w.s.pending
           n == Min({Len(q), room - Len(w.out)})
           x == SubSeq(q, 1, n)
           y == SubSeq(q, n + 1, Len(q))
           v == CopyOut(w, room)
           got == content \o SubSeq(src, 1, w.pos)
<1>1. /\ w \in Works /\ w.s \in Streams /\ q \in Seq(Pieces) /\ w.out \in Seq(Pieces) /\ w.progress \in Counters
      /\ w.pos \in 0 .. Len(src) /\ Len(w.out) <= room
      /\ Stands(w.s, p \o w.out, got, w.progress, size, dict)
  BY Zenon DEF Working, Works, Streams
<1>2. Len(q) \in Nat /\ Len(w.out) \in Nat
  BY <1>1
<1>4. n \in 0 .. Len(q) /\ Len(w.out) + n <= room /\ (n # Len(q) => Len(w.out) + n = room)
  BY <1>1, <1>2, Fitting, Zenon
<1>b. n \in Nat
  <2> HIDE DEF n
  <2> QED BY <1>2, <1>4
<1>5. v = [w EXCEPT !.s.pending = y, !.out = @ \o x, !.progress.flushed = @ + n]
  BY Zenon DEF CopyOut
<1>6. x \in Seq(Pieces) /\ y \in Seq(Pieces) /\ Len(x) = n /\ Len(y) = Len(q) - n
  BY <1>1, <1>4, CutFacts, Zenon
<1> HIDE DEF n, x, y, v, q, got
<1>7. /\ v.s = [w.s EXCEPT !.pending = y] /\ v.out = w.out \o x /\ v.pos = w.pos /\ v.error = w.error
      /\ v.progress = [w.progress EXCEPT !.flushed = @ + n]
      /\ v = [s |-> v.s, progress |-> v.progress, pos |-> v.pos, out |-> v.out, error |-> v.error]
  BY <1>1, <1>5, Zenon DEF Works
<1>8. /\ v.s \in Streams /\ v.s.pending = y /\ v.s.context = w.s.context /\ v.s.open = w.s.open
      /\ v.s.dictionary = w.s.dictionary /\ v.s.producer_failed = w.s.producer_failed /\ v.s.made = w.s.made
  BY <1>1, <1>6, <1>7, Zenon DEF Streams
<1>9. /\ v.progress \in Counters /\ v.progress.ingested = w.progress.ingested
      /\ v.progress.produced = w.progress.produced /\ v.progress.flushed = w.progress.flushed + n
  <2> DEFINE c == w.progress
  <2>1. c \in Counters
    BY <1>1, Zenon
  <2> HIDE DEF c
  <2>2. Flushes(c, n, [c EXCEPT !.flushed = @ + n])
    BY <1>b, <2>1, CountedUp, Zenon
  <2>3. Flushes(w.progress, n, v.progress)
    BY <1>7, <2>2, Zenon DEF c
  <2> QED BY <2>3, Zenon DEF Flushes
<1>10. v.out \in Seq(Pieces) /\ Len(v.out) = Len(w.out) + n
  <2> DEFINE o == w.out
  <2>1. o \in Seq(Pieces)
    BY <1>1, Zenon
  <2> HIDE DEF o
  <2>2. o \o x \in Seq(Pieces) /\ Len(o \o x) = Len(o) + Len(x)
    BY <1>6, <2>1, Concatenated, Zenon
  <2> QED BY <1>6, <1>7, <2>2, Zenon DEF o
<1>11. p \o v.out = (p \o w.out) \o x /\ (p \o v.out) \o y = (p \o w.out) \o q
  <2> DEFINE o == w.out
  <2>a. o \in Seq(Pieces) /\ q \in Seq(Pieces)
    BY <1>1, Zenon
  <2> HIDE DEF o
  <2>b. Passes(p, o, x, y, q)
    BY <1>4, <2>a, HandedOver, Zenon DEF x, y
  <2>1. Passes(p, w.out, x, y, q)
    BY <2>b, Zenon DEF o
  <2> QED BY <1>7, <2>1, Zenon DEF Passes
<1>12. v \in Works
  BY <1>1, <1>7, <1>8, <1>9, <1>10, Zenon DEF Works
<1>13. Stands(v.s, p \o v.out, got, v.progress, size, dict)
  <2> DEFINE o == p \o w.out
             o2 == p \o v.out
  <2>1. /\ o \in Seq(Pieces) /\ got \in Seq(Byte) /\ w.s.context.errored = FALSE
        /\ w.s.context.dictionary = w.s.dictionary
        /\ Good(w.s.context, w.s.open, o \o q, got, size, dict)
        /\ Counted(w.s, o, got, w.progress) /\ Bounded(o, got)
    BY <1>1, Zenon DEF Stands, q
  <2>2. o2 = o \o x /\ o2 \o y = o \o q
    BY <1>11, Zenon
  <2>3. Len(o2) = Len(o) + n /\ o2 \in Seq(Pieces)
    BY <1>6, <2>1, <2>2, Concatenated, Zenon
  <2>4. Bounded(o2, got)
    <3>1. Bounded(o \o x, got)
      <4>1. Len(got) \in Nat
        BY <2>1
      <4> HIDE DEF o, got
      <4> QED BY <1>6, <2>1, <4>1, ContentsGrow, Zenon
    <3> QED BY <2>2, <3>1, Zenon
  <2> HIDE DEF o, o2, got, q
  <2>5. Good(v.s.context, v.s.open, o2 \o v.s.pending, got, size, dict)
    BY <1>8, <2>1, <2>2, Zenon
  <2>6. Counted(v.s, o2, got, v.progress)
    <3>1. Len(o) \in Nat
      BY <2>1
    <3>2. /\ w.progress.ingested = Len(got) /\ w.progress.produced = Len(o) + Len(q) /\ w.progress.flushed = Len(o)
      BY <2>1, Zenon DEF Counted, q
    <3>3. w.progress.produced = Len(o2) + Len(y) /\ w.progress.flushed + n = Len(o2)
      BY <1>2, <1>b, <1>6, <2>3, <3>1, <3>2
    <3> QED BY <1>8, <1>9, <3>2, <3>3, Zenon DEF Counted
  <2>7. v.s.context.errored = FALSE /\ v.s.context.dictionary = v.s.dictionary
    BY <1>8, <2>1, Zenon
  <2>8. Stands(v.s, o2, got, v.progress, size, dict)
    BY <1>8, <2>1, <2>3, <2>4, <2>5, <2>6, <2>7, Zenon DEF Stands
  <2> QED BY <2>8, Zenon DEF o2
<1>14. Working(v, p, content, src, room, size, dict)
  <2>1. v.pos \in 0 .. Len(src) /\ Len(v.out) <= room
    BY <1>1, <1>4, <1>7, <1>10, Zenon
  <2>2. got = content \o SubSeq(src, 1, v.pos)
    BY <1>7, Zenon DEF got
  <2> HIDE DEF got
  <2> QED BY <1>12, <1>13, <2>1, <2>2, Zenon DEF Working
<1>15. Copied(w, room, v)
  <2>1. v.s.pending # << >> => Len(v.out) = room
    <3>1. n = Len(q) => Len(y) = 0
      BY <1>2, <1>4, <1>6
    <3>2. n = Len(q) => y = << >>
      BY <1>6, <3>1
    <3> QED BY <1>4, <1>8, <1>10, <3>2, Zenon
  <2>2. Len(w.out) = room => v.s.pending = w.s.pending
    <3>1. Len(w.out) = room => n = 0
      BY <1>2, <1>4
    <3>2. n = 0 => y = q
      BY <1>1 DEF y
    <3> QED BY <1>8, <3>1, <3>2, Zenon DEF q
  <2> QED BY <1>7, <1>8, <2>1, <2>2, Zenon DEF Copied
<1> QED BY <1>14, <1>15, Zenon DEF v

-----------------------------------------------------------------------------
(* A call on the context.                                                  *)

\* What the context's calls need of it.
InHand(s, out, content, size, dict) ==
  /\ s.context \in Contexts /\ s.context.errored = FALSE
  /\ AsDrain(s) \in Drains /\ AsDrain(s).bad = 0 /\ AsDrain(s).bytes = s.pending
  /\ Sound(s.context, out, AsDrain(s), content)
  /\ s.context.pledged = size /\ s.context.dictionary = dict

\* The context of an open stream stands in its frame.
LEMMA Standing ==
  ASSUME NEW s, NEW out, NEW content, NEW counters, NEW size, NEW dict,
         Stands(s, out, content, counters, size, dict), s.open = TRUE
  PROVE  InHand(s, out, content, size, dict)
<1>1. s \in Streams /\ s.context.errored = FALSE /\ Going(s.context, out \o s.pending, content, size, dict)
  BY Zenon DEF Stands, Good
<1>2. s.context \in Contexts /\ s.pending \in Seq(Pieces)
  BY <1>1, Zenon DEF Streams
<1>3. AsDrain(s) \in Drains /\ AsDrain(s).bad = 0 /\ AsDrain(s).bytes = s.pending
  BY <1>2, Zenon DEF AsDrain, Drains
<1>4. Sound(s.context, out, AsDrain(s), content)
  BY <1>1, <1>3, Zenon DEF Sound, Going
<1> QED BY <1>1, <1>2, <1>3, <1>4, Zenon DEF Going, InHand

\* The counters after a call on the context that took k bytes and left b
\* pieces where there were a.
Recount(c, k, a, b) ==
  [ingested |-> c.ingested + k, produced |-> c.produced + (b - a), flushed |-> c.flushed]

Shows(c, ingested, produced, flushed) ==
  c \in Counters /\ c.ingested = ingested /\ c.produced = produced /\ c.flushed = flushed

\* The call in hand after a call on the context that took k bytes.
After(w, r, k, open) ==
  [s |-> [w.s EXCEPT !.context = r.c, !.pending = r.d.bytes, !.open = open],
   progress |-> Recount(w.progress, k, Len(w.s.pending), Len(r.d.bytes)),
   pos |-> w.pos + k, out |-> w.out, error |-> w.error]

\* The header of a frame in progress says what was asked of it.
LEMMA GoingHeads ==
  ASSUME NEW c \in Contexts, NEW all, NEW content, NEW size, NEW dict, Going(c, all, content, size, dict)
  PROVE  Heads(all, size, dict)
BY Zenon DEF Going, InFrame, Heads, Contexts

\* What the counters say after a call on the context.
LEMMA CountsOn ==
  ASSUME NEW c \in Counters, NEW k \in Nat, NEW a \in Nat, NEW b \in Nat, NEW n \in Nat, NEW g \in Nat,
         Shows(c, g, n + a, n)
  PROVE  Shows(Recount(c, k, a, b), g + k, n + b, n)
BY DEF Counters, Shows, Recount

\* More of the input.
Onward(content, src, n, k) ==
  /\ content \o SubSeq(src, 1, n + k) \in Seq(Byte)
  /\ Len(content \o SubSeq(src, 1, n)) \in Nat
  /\ Len(content \o SubSeq(src, 1, n + k)) = Len(content \o SubSeq(src, 1, n)) + k

\* k bytes of the input more, after the first n.
LEMMA Further ==
  ASSUME NEW content \in Seq(Byte), NEW src \in Seq(Byte), NEW n \in Nat, NEW k \in Nat, n + k <= Len(src)
  PROVE  Onward(content, src, n, k)
<1>1. n \in 0 .. Len(src) /\ n + k \in 0 .. Len(src)
  OBVIOUS
<1>2. /\ SubSeq(src, 1, n) \in Seq(Byte) /\ Len(SubSeq(src, 1, n)) = n
      /\ SubSeq(src, 1, n + k) \in Seq(Byte) /\ Len(SubSeq(src, 1, n + k)) = n + k
  BY <1>1, CutFacts, Zenon
<1> DEFINE x == SubSeq(src, 1, n)
           y == SubSeq(src, 1, n + k)
<1> HIDE DEF x, y
<1>3. /\ content \o x \in Seq(Byte) /\ Len(content \o x) = Len(content) + Len(x)
      /\ content \o y \in Seq(Byte) /\ Len(content \o y) = Len(content) + Len(y) /\ Len(content) \in Nat
  BY <1>2, Concatenated, Zenon DEF x, y
<1> QED BY <1>2, <1>3 DEF x, y, Onward

\* A call on the context, seen from the call in hand.
LEMMA AfterFacts ==
  ASSUME NEW w, NEW p \in Seq(Pieces), NEW content \in Seq(Byte), NEW src \in Seq(Byte), NEW room \in Nat,
         NEW size, NEW dict, Working(w, p, content, src, room, size, dict),
         NEW r, r.c \in Contexts, r.c.errored = FALSE, r.d.bytes \in Seq(Pieces), r.c.dictionary = w.s.dictionary,
         NEW k \in Nat, w.pos + k <= Len(src), NEW open \in BOOLEAN,
         Good(r.c, open, (p \o w.out) \o r.d.bytes, content \o SubSeq(src, 1, w.pos + k), size, dict),
         Bounded(p \o w.out, content \o SubSeq(src, 1, w.pos + k))
  PROVE  Working(After(w, r, k, open), p, content, src, room, size, dict)
<1> DEFINE v == After(w, r, k, open)
           o == p \o w.out
           got == content \o SubSeq(src, 1, w.pos + k)
           had == content \o SubSeq(src, 1, w.pos)
<1>1. /\ w.s \in Streams /\ w.out \in Seq(Pieces) /\ w.error \in Errors /\ w.progress \in Counters
      /\ w.pos \in Nat /\ Len(w.out) <= room
      /\ w.s.pending \in Seq(Pieces) /\ o \in Seq(Pieces) /\ Counted(w.s, o, had, w.progress)
  BY Zenon DEF Working, Works, Streams, Stands
<1>2. got \in Seq(Byte) /\ Len(had) \in Nat /\ Len(got) = Len(had) + k
  <2>1. Onward(content, src, w.pos, k)
    BY <1>1, Further, Zenon
  <2> QED BY <2>1, Zenon DEF Onward
<1>3. /\ v.s = [w.s EXCEPT !.context = r.c, !.pending = r.d.bytes, !.open = open]
      /\ v.progress = Recount(w.progress, k, Len(w.s.pending), Len(r.d.bytes))
      /\ v.pos = w.pos + k /\ v.out = w.out /\ v.error = w.error
      /\ v = [s |-> v.s, progress |-> v.progress, pos |-> v.pos, out |-> v.out, error |-> v.error]
  BY Zenon DEF After
<1> HIDE DEF v, o, got, had
<1>4. /\ v.s \in Streams /\ v.s.context = r.c /\ v.s.pending = r.d.bytes /\ v.s.open = open
      /\ v.s.dictionary = w.s.dictionary
  BY <1>1, <1>3, Zenon DEF Streams
<1>5. Shows(v.progress, Len(got), Len(o) + Len(r.d.bytes), Len(o))
  <2>1. Len(o) \in Nat /\ Len(w.s.pending) \in Nat /\ Len(r.d.bytes) \in Nat
    BY <1>1, SMTT(30)
  <2>2. Shows(w.progress, Len(had), Len(o) + Len(w.s.pending), Len(o))
    BY <1>1, Zenon DEF Counted, Shows
  <2>3. Shows(Recount(w.progress, k, Len(w.s.pending), Len(r.d.bytes)), Len(had) + k, Len(o) + Len(r.d.bytes), Len(o))
    BY <1>1, <1>2, <2>1, <2>2, CountsOn, Zenon
  <2> QED BY <1>2, <1>3, <2>3, Zenon
<1>6. v \in Works
  <2>1. v.pos \in Nat
    BY <1>1, <1>3, SMTT(30)
  <2> QED BY <1>1, <1>3, <1>4, <1>5, <2>1, Zenon DEF Works, Shows
<1>7. Counted(v.s, o, got, v.progress)
  BY <1>4, <1>5, Zenon DEF Counted, Shows
<1>8. Good(v.s.context, v.s.open, o \o v.s.pending, got, size, dict)
  BY <1>4, Zenon DEF o, got
<1>9. Stands(v.s, o, got, v.progress, size, dict)
  <2>1. Bounded(o, got)
    BY Zenon DEF o, got
  <2> QED BY <1>1, <1>2, <1>4, <1>7, <1>8, <2>1, Zenon DEF Stands
<1>10. o = p \o v.out /\ got = content \o SubSeq(src, 1, v.pos) /\ Len(v.out) <= room
  BY <1>1, <1>3, Zenon DEF o, got
<1>11. v.pos \in 0 .. Len(src)
  BY <1>1, <1>3, SMTT(30)
<1>12. Working(v, p, content, src, room, size, dict)
  BY <1>6, <1>9, <1>10, <1>11, Zenon DEF Working
<1> QED BY <1>12, Zenon DEF v

\* A record that has the fields a call in hand has, and their values.
IsWork(v, s, progress_, pos, out, error) ==
  v = [s |-> s, progress |-> progress_, pos |-> pos, out |-> out, error |-> error]

Recounts(c, k, a, b, g) == g = Recount(c, 0, a, b) /\ [g EXCEPT !.ingested = @ + k] = Recount(c, k, a, b)

\* The counters a call on the context leaves.
LEMMA RecountIs ==
  ASSUME NEW c \in Counters, NEW k, NEW a, NEW b
  PROVE  Recounts(c, k, a, b, [c EXCEPT !.produced = c.produced + (b - a)])
<1> DEFINE n == c.produced + (b - a)
           g == [c EXCEPT !.produced = n]
           h == [g EXCEPT !.ingested = @ + k]
<1>1. c.ingested + 0 = c.ingested
  BY DEF Counters
<1> HIDE DEF n
<1>2. /\ g.ingested = c.ingested /\ g.produced = n /\ g.flushed = c.flushed
      /\ g = [ingested |-> g.ingested, produced |-> g.produced, flushed |-> g.flushed]
  BY DEF Counters
<1> HIDE DEF g
<1>3. /\ h.ingested = g.ingested + k /\ h.produced = n /\ h.flushed = c.flushed
      /\ h = [ingested |-> h.ingested, produced |-> h.produced, flushed |-> h.flushed]
  BY <1>2
<1> HIDE DEF h
<1>4. g = [ingested |-> c.ingested + 0, produced |-> n, flushed |-> c.flushed]
  BY <1>1, <1>2, Zenon
<1>5. h = [ingested |-> c.ingested + k, produced |-> n, flushed |-> c.flushed]
  BY <1>2, <1>3, Zenon
<1> QED BY <1>4, <1>5, Zenon DEF Recounts, Recount, n, g, h

\* What Produced leaves.
LEMMA ProducedFields ==
  ASSUME NEW w \in Works, NEW c, NEW q, NEW n
  PROVE  IsWork([w EXCEPT !.s.context = c, !.s.pending = q, !.progress.produced = n],
                [w.s EXCEPT !.context = c, !.pending = q], [w.progress EXCEPT !.produced = n],
                w.pos, w.out, w.error)
<1> DEFINE v == [w EXCEPT !.s.context = c, !.s.pending = q, !.progress.produced = n]
           x == [w EXCEPT !.s.context = c]
           y == [x EXCEPT !.s.pending = q]
<1>a. x.s = [w.s EXCEPT !.context = c] /\ x.progress = w.progress /\ x.pos = w.pos /\ x.out = w.out /\ x.error = w.error
      /\ x = [s |-> x.s, progress |-> x.progress, pos |-> x.pos, out |-> x.out, error |-> x.error]
  BY DEF Works
<1>b. v = [y EXCEPT !.progress.produced = n]
  BY Zenon
<1> HIDE DEF v, x
<1>c. y.s = [x.s EXCEPT !.pending = q] /\ y.progress = w.progress /\ y.pos = w.pos /\ y.out = w.out /\ y.error = w.error
      /\ y = [s |-> y.s, progress |-> y.progress, pos |-> y.pos, out |-> y.out, error |-> y.error]
  BY <1>a
<1> HIDE DEF y
<1>d. v.s = y.s /\ v.progress = [w.progress EXCEPT !.produced = n] /\ v.pos = w.pos /\ v.out = w.out /\ v.error = w.error
      /\ v = [s |-> v.s, progress |-> v.progress, pos |-> v.pos, out |-> v.out, error |-> v.error]
  BY <1>b, <1>c, Zenon
<1>e. y.s = [w.s EXCEPT !.context = c, !.pending = q]
  BY <1>a, <1>c, Zenon
<1>1. /\ v.s = [w.s EXCEPT !.context = c, !.pending = q] /\ v.progress = [w.progress EXCEPT !.produced = n]
      /\ v.pos = w.pos /\ v.out = w.out /\ v.error = w.error
      /\ v = [s |-> v.s, progress |-> v.progress, pos |-> v.pos, out |-> v.out, error |-> v.error]
  BY <1>d, <1>e, Zenon
<1>2. IsWork(v, [w.s EXCEPT !.context = c, !.pending = q], [w.progress EXCEPT !.produced = n], w.pos, w.out, w.error)
  BY <1>1, Zenon DEF IsWork
<1> QED BY <1>2, Zenon DEF v

\* What a further assignment leaves.
LEMMA FurtherFields ==
  ASSUME NEW v, NEW s, NEW g, NEW pos, NEW out, NEW error, IsWork(v, s, g, pos, out, error), NEW x, NEW y
  PROVE  /\ IsWork([v EXCEPT !.s.open = x], [s EXCEPT !.open = x], g, pos, out, error)
         /\ IsWork([v EXCEPT !.pos = x, !.progress.ingested = y], s, [g EXCEPT !.ingested = y], x, out, error)
<1>1. v = [s |-> s, progress |-> g, pos |-> pos, out |-> out, error |-> error]
  BY Zenon DEF IsWork
<1>2. /\ v.s = s /\ v.progress = g /\ v.pos = pos /\ v.out = out /\ v.error = error
      /\ DOMAIN v = {"s", "progress", "pos", "out", "error"}
  BY <1>1, Zenon
<1>3. [v EXCEPT !.s.open = x] = [s |-> [s EXCEPT !.open = x], progress |-> g, pos |-> pos, out |-> out, error |-> error]
  <2> DEFINE t == [s EXCEPT !.open = x]
  <2>1. [v EXCEPT !.s.open = x] = [v EXCEPT !.s = t]
    BY <1>2, Zenon
  <2> HIDE DEF t
  <2>2. [v EXCEPT !.s = t] = [s |-> t, progress |-> g, pos |-> pos, out |-> out, error |-> error]
    BY <1>1
  <2> QED BY <2>1, <2>2, Zenon DEF t
<1>4. [v EXCEPT !.pos = x, !.progress.ingested = y]
        = [s |-> s, progress |-> [g EXCEPT !.ingested = y], pos |-> x, out |-> out, error |-> error]
  <2> DEFINE t == [g EXCEPT !.ingested = y]
  <2>1. [v EXCEPT !.pos = x, !.progress.ingested = y] = [v EXCEPT !.pos = x, !.progress = t]
    BY <1>2, Zenon
  <2> HIDE DEF t
  <2>2. [v EXCEPT !.pos = x, !.progress = t] = [s |-> s, progress |-> t, pos |-> x, out |-> out, error |-> error]
    <3> DEFINE u == [v EXCEPT !.pos = x]
    <3>1. u = [s |-> s, progress |-> g, pos |-> x, out |-> out, error |-> error]
      BY <1>1
    <3>2. [v EXCEPT !.pos = x, !.progress = t] = [u EXCEPT !.progress = t]
      BY Zenon
    <3> HIDE DEF u
    <3>3. [u EXCEPT !.progress = t] = [s |-> s, progress |-> t, pos |-> x, out |-> out, error |-> error]
      BY <3>1
    <3> QED BY <3>2, <3>3, Zenon
  <2> QED BY <2>1, <2>2, Zenon DEF t
<1> QED BY <1>3, <1>4, Zenon DEF IsWork

\* The ways the code puts a call on the context into the call in hand.
LEMMA ProducedIs ==
  ASSUME NEW w \in Works, NEW r, NEW k
  PROVE  /\ Produced(w, r) = After(w, r, 0, w.s.open)
         /\ [Produced(w, r) EXCEPT !.pos = @ + k, !.progress.ingested = @ + k] = After(w, r, k, w.s.open)
         /\ [Produced(w, r) EXCEPT !.s.open = FALSE] = After(w, r, 0, FALSE)
<1> DEFINE s == [w.s EXCEPT !.context = r.c, !.pending = r.d.bytes]
           n == w.progress.produced + (Len(r.d.bytes) - Len(w.s.pending))
           g == [w.progress EXCEPT !.produced = n]
           v == Produced(w, r)
           Counts(i) == Recount(w.progress, i, Len(w.s.pending), Len(r.d.bytes))
<1>1. w.s \in Streams /\ w.progress \in Counters /\ w.pos \in Nat
  BY Zenon DEF Works
<1>2. s = [w.s EXCEPT !.context = r.c, !.pending = r.d.bytes, !.open = w.s.open]
  BY <1>1, Zenon DEF Streams
<1>3. [s EXCEPT !.open = FALSE] = [w.s EXCEPT !.context = r.c, !.pending = r.d.bytes, !.open = FALSE]
  BY <1>1, Zenon DEF Streams
<1>4. g = Counts(0) /\ [g EXCEPT !.ingested = @ + k] = Counts(k)
  <2>1. Recounts(w.progress, k, Len(w.s.pending), Len(r.d.bytes), g)
    BY <1>1, RecountIs, Zenon
  <2> QED BY <2>1, Zenon DEF Recounts
<1>5. IsWork(v, s, g, w.pos, w.out, w.error)
  <2> HIDE DEF n
  <2>1. v = [w EXCEPT !.s.context = r.c, !.s.pending = r.d.bytes, !.progress.produced = n]
    BY Zenon DEF Produced, n
  <2>2. IsWork([w EXCEPT !.s.context = r.c, !.s.pending = r.d.bytes, !.progress.produced = n], s, g, w.pos, w.out, w.error)
    BY ProducedFields, Zenon
  <2> QED BY <2>1, <2>2, Zenon
<1>6. w.pos + 0 = w.pos
  BY <1>1
<1> HIDE DEF s, g, v, Counts
<1>7. v = [s |-> s, progress |-> g, pos |-> w.pos, out |-> w.out, error |-> w.error]
  BY <1>5, Zenon DEF IsWork
<1>a. v.pos = w.pos /\ v.progress = g
  BY <1>7, Zenon
<1>8. IsWork([v EXCEPT !.pos = @ + k, !.progress.ingested = @ + k], s, [g EXCEPT !.ingested = @ + k], w.pos + k, w.out, w.error)
  <2>1. IsWork([v EXCEPT !.pos = v.pos + k, !.progress.ingested = v.progress.ingested + k],
               s, [g EXCEPT !.ingested = v.progress.ingested + k], v.pos + k, w.out, w.error)
    BY <1>5, FurtherFields, Zenon
  <2> QED BY <1>a, <2>1, Zenon
<1>9. IsWork([v EXCEPT !.s.open = FALSE], [s EXCEPT !.open = FALSE], g, w.pos, w.out, w.error)
  BY <1>5, FurtherFields, Zenon
<1>10. v = After(w, r, 0, w.s.open)
  BY <1>2, <1>4, <1>6, <1>7, Zenon DEF After, Counts
<1>11. [v EXCEPT !.pos = @ + k, !.progress.ingested = @ + k] = After(w, r, k, w.s.open)
  BY <1>2, <1>4, <1>8, Zenon DEF After, Counts, IsWork
<1>12. [v EXCEPT !.s.open = FALSE] = After(w, r, 0, FALSE)
  BY <1>3, <1>4, <1>6, <1>9, Zenon DEF After, Counts, IsWork
<1> QED BY <1>10, <1>11, <1>12, Zenon DEF v

\* The k bytes after the first a.
Continues(src, a, e, k) ==
  /\ SubSeq(src, a + 1, e) \in Seq(Byte) /\ Len(SubSeq(src, a + 1, e)) = e - a
  /\ SubSeq(src, 1, a) \o SubSeq(SubSeq(src, a + 1, e), 1, k) = SubSeq(src, 1, a + k)

\* The slice of the input that a turn of the loop hands to the context.
LEMMA SliceAt ==
  ASSUME NEW src \in Seq(Byte), NEW a \in Nat, NEW e \in a .. Len(src), NEW k \in 0 .. e - a
  PROVE  Continues(src, a, e, k)
<1> DEFINE t == SubSeq(src, a + 1, e)
           x == SubSeq(src, 1, a)
           y == SubSeq(t, 1, k)
           z == SubSeq(src, 1, a + k)
<1>1. t \in Seq(Byte) /\ Len(t) = e - a /\ \A i \in 1 .. e - a : t[i] = src[a + i]
  OBVIOUS
<1>2. x \in Seq(Byte) /\ Len(x) = a /\ \A i \in 1 .. a : x[i] = src[i]
  OBVIOUS
<1>3. z \in Seq(Byte) /\ Len(z) = a + k /\ \A i \in 1 .. a + k : z[i] = src[i]
  OBVIOUS
<1> HIDE DEF t
<1>4. y \in Seq(Byte) /\ Len(y) = k /\ \A i \in 1 .. k : y[i] = t[i]
  BY <1>1
<1> HIDE DEF x, y, z
<1>5. /\ x \o y \in Seq(Byte) /\ Len(x \o y) = a + k
      /\ \A i \in 1 .. a + k : (x \o y)[i] = IF i <= a THEN x[i] ELSE y[i - a]
  BY <1>2, <1>4, Joined, Zenon
<1>6. ASSUME NEW i \in 1 .. a + k PROVE (x \o y)[i] = z[i]
  <2>1. CASE i <= a
    <3>1. i \in 1 .. a
      BY <2>1
    <3> QED BY <1>2, <1>3, <1>5, <2>1, <3>1, Zenon
  <2>2. CASE ~(i <= a)
    <3>1. i - a \in 1 .. k /\ i - a \in 1 .. e - a /\ a + (i - a) = i
      BY <2>2
    <3> QED BY <1>1, <1>3, <1>4, <1>5, <2>2, <3>1, ZenonT(40)
  <2> QED BY <2>1, <2>2, Zenon
<1>7. x \o y = z
  BY <1>3, <1>5, <1>6, SameSequence, Zenon
<1> QED BY <1>1, <1>7, Zenon DEF Continues, t, x, y, z

\* An empty sequence adds nothing.
LEMMA NothingMore ==
  ASSUME NEW s \in Seq(Byte), NEW t \in Seq(Byte), Len(t) = 0
  PROVE  s \o t = s
<1>1. t = << >>
  OBVIOUS
<1> QED BY <1>1

\* What the context holds back of the content is less than a block.
LEMMA HoldsBack ==
  ASSUME NEW c \in Contexts, NEW all \in Seq(Pieces), NEW content \in Seq(Byte), InFrame(c, all, content),
         pending_len(c) < BlockCapacity
  PROVE  /\ Len(content) < Len(Contents(all)) + BlockCapacity /\ Len(Contents(all)) \in Nat
         /\ Len(Contents(all)) <= Len(content)
         /\ pending_len(c) = 0 => Contents(all) = content
<1>1. c.pending \in Seq(Byte) /\ c.hashed \in Seq(Byte) /\ c.started \in BOOLEAN
  BY Zenon DEF Contexts
<1>2. Contents(all) \in Seq(Byte) /\ (all = << >> => Contents(all) = << >>)
  BY ContentsFacts, Zenon
<1>3. CASE c.started = TRUE
  <2>1. Contents(all) = c.hashed /\ c.hashed \o c.pending = content /\ pending_len(c) = Len(c.pending)
    BY <1>3, Zenon DEF InFrame, pending_len
  <2>2. Len(c.hashed \o c.pending) = Len(c.hashed) + Len(c.pending) /\ Len(c.hashed) \in Nat /\ Len(c.pending) \in Nat
    BY <1>1, Concatenated, Zenon
  <2>3. Len(c.pending) = 0 => c.hashed \o c.pending = c.hashed
    BY <1>1, NothingMore, Zenon
  <2>4. Len(content) = Len(Contents(all)) + pending_len(c) /\ Len(Contents(all)) \in Nat /\ pending_len(c) \in Nat
    BY <2>1, <2>2, Zenon
  <2>5. pending_len(c) = 0 => Contents(all) = content
    BY <2>1, <2>3, Zenon
  <2> QED BY <2>4, <2>5, CapacityAssumption
<1>4. CASE c.started = FALSE
  <2>1. all = << >> /\ content = << >>
    BY <1>4, Zenon DEF InFrame
  <2> QED BY <1>2, <2>1, CapacityAssumption
<1> QED BY <1>1, <1>3, <1>4, Zenon

\* A slice ends inside the input and is no longer than the slice size.
LEMMA Within ==
  ASSUME NEW a \in Nat, NEW n \in Nat, NEW e \in a .. n, NEW b \in Nat, e <= a + b, NEW k \in 0 .. e - a
  PROVE  k \in Nat /\ a + k <= n /\ k <= b
OBVIOUS

\* A write that goes well, seen from the call in hand.
LEMMA WroteFacts ==
  ASSUME NEW w, NEW p \in Seq(Pieces), NEW content \in Seq(Byte), NEW src \in Seq(Byte), NEW room \in Nat,
         NEW size, NEW dict, Working(w, p, content, src, room, size, dict),
         w.s.open = TRUE, w.s.pending = << >>,
         NEW e \in w.pos .. Len(src), e <= w.pos + BLOCK_SIZE_MAX,
         NEW r, r = write(w.s.context, AsDrain(w.s), SubSeq(src, w.pos + 1, e)), r.code = "ok"
  PROVE  r.taken \in Nat /\ Working(After(w, r, r.taken, TRUE), p, content, src, room, size, dict)
<1> DEFINE c == w.s.context
           d == AsDrain(w.s)
           buf == SubSeq(src, w.pos + 1, e)
           o == p \o w.out
           had == content \o SubSeq(src, 1, w.pos)
           k == r.taken
           got == content \o SubSeq(src, 1, w.pos + k)
<1>1. /\ w.pos \in Nat /\ w.s.context.dictionary = w.s.dictionary /\ o \in Seq(Pieces) /\ had \in Seq(Byte)
      /\ Stands(w.s, o, had, w.progress, size, dict)
      /\ Going(c, o \o w.s.pending, had, size, dict)
  BY Zenon DEF Working, Works, Stands, Good
<1>2. /\ c \in Contexts /\ c.errored = FALSE /\ d \in Drains /\ d.bad = 0 /\ Sound(c, o, d, had)
      /\ c.pledged = size /\ c.dictionary = dict
  <2>1. InHand(w.s, o, had, size, dict)
    BY <1>1, Standing, Zenon
  <2> QED BY <2>1, Zenon DEF InHand
<1>3. Len(src) \in Nat /\ 0 \in 0 .. e - w.pos
  BY <1>1
<1>4. buf \in Seq(Byte) /\ Len(buf) = e - w.pos
  <2>1. Continues(src, w.pos, e, 0)
    BY <1>1, <1>3, SliceAt, Zenon
  <2> QED BY <2>1, Zenon DEF Continues
<1>5. r = write(c, d, buf)
  BY Zenon
<1> HIDE DEF c, d, buf, o, had
<1>6. Steady(r)
  BY <1>1, <1>2, <1>4, <1>5, WriteSteadily, Zenon
<1>7. AfterWrite(c, o, had, buf, r)
  BY <1>1, <1>2, <1>4, <1>5, WriteFacts, Zenon
<1>8. /\ r.c \in Contexts /\ r.c.errored = FALSE /\ r.d.bytes \in Seq(Pieces)
      /\ r.c.pledged = size /\ r.c.dictionary = dict /\ k \in 0 .. Len(buf)
      /\ Sound(r.c, o, r.d, had \o SubSeq(buf, 1, k))
  BY <1>2, <1>6, <1>7, Zenon DEF Steady, AfterWrite, Drains
<1>9. k \in 0 .. e - w.pos /\ k \in Nat /\ w.pos + k <= Len(src) /\ k <= BLOCK_SIZE_MAX
  <2>1. k \in 0 .. e - w.pos
    BY <1>4, <1>8, Zenon
  <2> HIDE DEF k
  <2> QED BY <1>1, <1>3, <2>1, StreamAssumption, Within, Zenon
<1>10. had \o SubSeq(buf, 1, k) = got
  <2>1. Continues(src, w.pos, e, k)
    BY <1>1, <1>9, SliceAt, Zenon
  <2>2. SubSeq(src, 1, w.pos) \o SubSeq(buf, 1, k) = SubSeq(src, 1, w.pos + k)
    BY <2>1, Zenon DEF Continues, buf
  <2> DEFINE x == SubSeq(src, 1, w.pos)
             y == SubSeq(buf, 1, k)
  <2>3. x \in Seq(Byte) /\ y \in Seq(Byte)
    <3>1. w.pos \in 0 .. Len(src)
      BY <1>1
    <3> QED BY <1>4, <1>8, <3>1, CutFacts, Zenon
  <2> HIDE DEF x, y
  <2>4. (content \o x) \o y = content \o (x \o y)
    BY <2>3, Associated, Zenon
  <2> QED BY <2>2, <2>4, Zenon DEF x, y, had
<1>11. got \in Seq(Byte) /\ Len(had) \in Nat /\ Len(got) = Len(had) + k
  <2>1. Onward(content, src, w.pos, k)
    BY <1>1, <1>9, Further, Zenon
  <2> QED BY <2>1, Zenon DEF Onward, had
<1> HIDE DEF got
<1>12. Good(r.c, TRUE, o \o r.d.bytes, got, size, dict)
  <2>1. Going(r.c, o \o r.d.bytes, got, size, dict)
    BY <1>8, <1>10, Zenon DEF Going, Sound
  <2>2. Heads(o \o r.d.bytes, size, dict)
    BY <1>8, <2>1, GoingHeads, Zenon
  <2> QED BY <2>1, <2>2, Zenon DEF Good
<1>13. Bounded(o, got)
  <2>1. o \o w.s.pending = o
    BY <1>1
  <2>2. InFrame(c, o, had) /\ pending_len(c) < BlockCapacity
    BY <1>1, <2>1, Zenon DEF Going
  <2>3. Len(had) < Len(Contents(o)) + BlockCapacity /\ Len(Contents(o)) \in Nat
    BY <1>1, <1>2, <2>2, HoldsBack, Zenon
  <2> QED BY <1>9, <1>11, <2>3, StreamAssumption, CapacityAssumption, SMTT(30) DEF Bounded
<1>14. Working(After(w, r, k, TRUE), p, content, src, room, size, dict)
  <2>1. Good(r.c, TRUE, (p \o w.out) \o r.d.bytes, content \o SubSeq(src, 1, w.pos + k), size, dict)
    BY <1>12, Zenon DEF o, got
  <2>2. Bounded(p \o w.out, content \o SubSeq(src, 1, w.pos + k))
    BY <1>13, Zenon DEF o, got
  <2>3. r.c.dictionary = w.s.dictionary
    BY <1>1, <1>2, <1>8, Zenon DEF c
  <2>4. TRUE \in BOOLEAN
    BY Zenon
  <2> QED BY <1>8, <1>9, <2>1, <2>2, <2>3, <2>4, AfterFacts, Zenon
<1> QED BY <1>9, <1>14, Zenon

-----------------------------------------------------------------------------
(* The loop that takes the input.                                          *)

\* What no turn changes of the stream.
SameStream(s, t) ==
  t.open = s.open /\ t.dictionary = s.dictionary /\ t.producer_failed = s.producer_failed /\ t.made = s.made

\* The loop is over.
Over(w, src) == w.pos = Len(src) \/ w.s.pending # << >> \/ w.error # "none"

\* Output waits only where there is no room for it.
OutFull(w, room) == w.s.pending # << >> => Len(w.out) = room

Turned(w, v, src, room) ==
  /\ SameStream(w.s, v.s) /\ OutFull(v, room)
  /\ Over(w, src) => v = w
  /\ ~Over(w, src) => v.pos > w.pos \/ v.error # "none"

\* A call that fails leaves everything else.
LEMMA ErrorFacts ==
  ASSUME NEW w, NEW p, NEW content, NEW src, NEW room, NEW size, NEW dict,
         Working(w, p, content, src, room, size, dict), NEW e \in Errors
  PROVE  /\ Working([w EXCEPT !.error = e], p, content, src, room, size, dict)
         /\ [w EXCEPT !.error = e].s = w.s /\ [w EXCEPT !.error = e].error = e
         /\ [w EXCEPT !.error = e].pos = w.pos /\ [w EXCEPT !.error = e].out = w.out
         /\ [w EXCEPT !.error = e].progress = w.progress
<1> DEFINE v == [w EXCEPT !.error = e]
<1>1. w \in Works
  BY Zenon DEF Working
<1>2. v.s = w.s /\ v.error = e /\ v.pos = w.pos /\ v.out = w.out /\ v.progress = w.progress /\ v \in Works
  BY <1>1, Zenon DEF Works
<1> HIDE DEF v
<1>3. Working(v, p, content, src, room, size, dict)
  BY <1>2, Zenon DEF Working
<1> QED BY <1>2, <1>3, Zenon DEF v

\* One turn.
LEMMA BlockTurnFacts ==
  ASSUME NEW w, NEW p \in Seq(Pieces), NEW content \in Seq(Byte), NEW src \in Seq(Byte), NEW room \in Nat,
         NEW size, NEW dict, Working(w, p, content, src, room, size, dict),
         w.s.open = TRUE, OutFull(w, room)
  PROVE  /\ Working(BlockTurn(w, src, room), p, content, src, room, size, dict)
         /\ Turned(w, BlockTurn(w, src, room), src, room)
<1> DEFINE e == Min({Len(src), w.pos + BLOCK_SIZE_MAX})
           r == write(w.s.context, AsDrain(w.s), SubSeq(src, w.pos + 1, e))
           u == [Produced(w, r) EXCEPT !.pos = @ + r.taken, !.progress.ingested = @ + r.taken]
           x == After(w, r, r.taken, TRUE)
           v == BlockTurn(w, src, room)
<1>1. v = IF Over(w, src) THEN w
          ELSE IF r.code = "InvalidInput" THEN [w EXCEPT !.error = "srcSize_wrong"]
          ELSE IF r.code # "ok" \/ r.taken = 0 THEN [w EXCEPT !.error = "GENERIC"]
          ELSE CopyOut(u, room)
  BY Zenon DEF BlockTurn, Over
<1>2. w \in Works /\ w.pos \in 0 .. Len(src) /\ w.pos \in Nat /\ Len(src) \in Nat
  BY DEF Working, Works
<1>3. e \in w.pos .. Len(src) /\ e <= w.pos + BLOCK_SIZE_MAX
  <2>1. e = IF Len(src) <= w.pos + BLOCK_SIZE_MAX THEN Len(src) ELSE w.pos + BLOCK_SIZE_MAX
    BY <1>2, StreamAssumption, MinTwo, SMTT(30)
  <2> QED BY <1>2, <2>1, StreamAssumption
<1>4. u = x
  <2> HIDE DEF r
  <2>1. u = After(w, r, r.taken, w.s.open)
    BY <1>2, ProducedIs, Zenon
  <2> QED BY <2>1, Zenon
<1>5. ~Over(w, src) /\ r.code = "ok" => r.taken \in Nat /\ Working(x, p, content, src, room, size, dict)
  <2> HIDE DEF e
  <2>1. SUFFICES ASSUME ~Over(w, src), r.code = "ok"
                 PROVE  r.taken \in Nat /\ Working(x, p, content, src, room, size, dict)
    BY Zenon
  <2>2. w.s.pending = << >>
    BY <2>1, Zenon DEF Over
  <2> QED BY <1>3, <2>1, <2>2, WroteFacts, Zenon
<1>6. SameStream(w.s, x.s) /\ x.pos = w.pos + r.taken
  <2>1. w.s \in Streams
    BY <1>2, Zenon DEF Works
  <2> QED BY <2>1, Zenon DEF After, SameStream, Streams
<1> HIDE DEF e, r, u, x, v
<1>7. CASE Over(w, src)
  <2>1. v = w
    BY <1>1, <1>7, Zenon
  <2>2. SameStream(w.s, w.s)
    BY Zenon DEF SameStream
  <2> QED BY <1>7, <2>1, <2>2, Zenon DEF v, Turned
<1>8. ASSUME ~Over(w, src), NEW b \in {"srcSize_wrong", "GENERIC"}, v = [w EXCEPT !.error = b]
      PROVE  Working(v, p, content, src, room, size, dict) /\ Turned(w, v, src, room)
  <2>1. b \in Errors /\ b # "none"
    BY Zenon DEF Errors
  <2>2. Working(v, p, content, src, room, size, dict) /\ v.s = w.s /\ v.error = b /\ v.out = w.out
    BY <1>8, <2>1, ErrorFacts
  <2>3. SameStream(w.s, w.s)
    BY Zenon DEF SameStream
  <2> QED BY <1>8, <2>1, <2>2, <2>3, Zenon DEF Turned, OutFull
<1>9. CASE ~Over(w, src) /\ r.code = "ok" /\ r.taken # 0
  <2>1. v = CopyOut(x, room)
    BY <1>1, <1>4, <1>9, Zenon
  <2>2. Working(x, p, content, src, room, size, dict) /\ r.taken \in Nat
    BY <1>5, <1>9, Zenon
  <2>3. Working(v, p, content, src, room, size, dict) /\ Copied(x, room, v)
    BY <2>1, <2>2, CopyFacts, Zenon
  <2>4. SameStream(w.s, v.s) /\ OutFull(v, room)
    BY <1>6, <2>3, Zenon DEF Copied, SameStream, OutFull
  <2>5. v.pos > w.pos
    <3>1. v.pos = w.pos + r.taken
      BY <1>6, <2>3, Zenon DEF Copied
    <3> QED BY <1>2, <1>9, <2>2, <3>1, SMTT(30)
  <2> QED BY <1>9, <2>3, <2>4, <2>5, Zenon DEF Turned, v
<1>10. Working(v, p, content, src, room, size, dict) /\ Turned(w, v, src, room)
  <2>1. CASE ~Over(w, src) /\ r.code = "InvalidInput"
    BY <1>1, <1>8, <2>1, Zenon
  <2>2. CASE ~Over(w, src) /\ r.code # "InvalidInput" /\ (r.code # "ok" \/ r.taken = 0)
    BY <1>1, <1>8, <2>2, Zenon
  <2> QED BY <1>7, <1>9, <2>1, <2>2, Zenon DEF v
<1> QED BY <1>10, Zenon DEF v

\* The states after 0 .. n turns.
BlockTurns(w0, src, room, n, g) ==
  g = [i \in 0 .. n |-> IF i = 0 THEN w0 ELSE BlockTurn(g[i - 1], src, room)]

MayTurn(w0, src, room) ==
  \A n \in Nat : \E g : g = [i \in 0 .. n |-> IF i = 0 THEN w0 ELSE BlockTurn(g[i - 1], src, room)]

\* There are states after any number of turns.
LEMMA BlockTurnsExist ==
  ASSUME NEW w0, NEW src, NEW room
  PROVE  MayTurn(w0, src, room)
<1> DEFINE S == {n \in Nat : \E g : g = [i \in 0 .. n |-> IF i = 0 THEN w0 ELSE BlockTurn(g[i - 1], src, room)]}
<1>1. 0 \in S
  <2> DEFINE g == [i \in 0 .. 0 |-> w0]
  <2>1. \A i \in 0 .. 0 : g[i] = IF i = 0 THEN w0 ELSE BlockTurn(g[i - 1], src, room)
    OBVIOUS
  <2>2. g = [i \in 0 .. 0 |-> g[i]] /\ 0 \in Nat
    BY Zenon
  <2> HIDE DEF g
  <2>3. g = [i \in 0 .. 0 |-> IF i = 0 THEN w0 ELSE BlockTurn(g[i - 1], src, room)]
    BY <2>1, <2>2, Zenon
  <2> QED BY <2>2, <2>3, Zenon
<1>2. ASSUME NEW n \in Nat, n \in S PROVE n + 1 \in S
  <2>1. PICK g : g = [i \in 0 .. n |-> IF i = 0 THEN w0 ELSE BlockTurn(g[i - 1], src, room)]
    BY <1>2, Zenon
  <2> DEFINE h == [i \in 0 .. n + 1 |-> IF i <= n THEN g[i] ELSE BlockTurn(g[n], src, room)]
  <2>2. ASSUME NEW i \in 0 .. n + 1 PROVE h[i] = IF i = 0 THEN w0 ELSE BlockTurn(h[i - 1], src, room)
    <3>1. CASE i <= n
      <4>1. h[i] = g[i] /\ i \in 0 .. n
        BY <3>1
      <4>2. g[i] = IF i = 0 THEN w0 ELSE BlockTurn(g[i - 1], src, room)
        BY <2>1, <4>1, Zenon
      <4>3. i # 0 => h[i - 1] = g[i - 1]
        BY <3>1
      <4> QED BY <4>1, <4>2, <4>3, Zenon
    <3>2. CASE i = n + 1
      <4>1. h[i] = BlockTurn(g[n], src, room) /\ i # 0
        BY <3>2
      <4>2. h[i - 1] = g[n]
        BY <3>2
      <4> QED BY <4>1, <4>2, Zenon
    <3> QED BY <3>1, <3>2
  <2>3. h = [i \in 0 .. n + 1 |-> h[i]]
    BY Zenon
  <2> HIDE DEF h
  <2>4. h = [i \in 0 .. n + 1 |-> IF i = 0 THEN w0 ELSE BlockTurn(h[i - 1], src, room)]
    BY <2>2, <2>3, Zenon
  <2>5. n + 1 \in Nat
    OBVIOUS
  <2> QED BY <2>4, <2>5, Zenon
<1> HIDE DEF S
<1>3. \A n \in Nat : n \in S
  BY <1>1, <1>2, SetInduction, Zenon
<1> QED BY <1>3, Zenon DEF S, MayTurn

\* TakeBlocks is the state after as many turns as there are bytes.
LEMMA TakeBlocksIs ==
  ASSUME NEW w0, NEW src, NEW room, Len(src) \in Nat
  PROVE  \E g : BlockTurns(w0, src, room, Len(src), g) /\ TakeBlocks(w0, src, room) = g[Len(src)]
<1> DEFINE after == CHOOSE g : g = [i \in 0 .. Len(src) |-> IF i = 0 THEN w0 ELSE BlockTurn(g[i - 1], src, room)]
<1>1. TakeBlocks(w0, src, room) = after[Len(src)]
  BY Zenon DEF TakeBlocks
<1>2. after = [i \in 0 .. Len(src) |-> IF i = 0 THEN w0 ELSE BlockTurn(after[i - 1], src, room)]
  <2>1. MayTurn(w0, src, room)
    BY BlockTurnsExist, Zenon
  <2>2. \E g : g = [i \in 0 .. Len(src) |-> IF i = 0 THEN w0 ELSE BlockTurn(g[i - 1], src, room)]
    BY <2>1, Zenon DEF MayTurn
  <2> QED BY <2>2, Zenon
<1> QED BY <1>1, <1>2, Zenon DEF BlockTurns

\* As many turns as there are bytes end the loop.
LEMMA TakeBlocksFacts ==
  ASSUME NEW w0, NEW p \in Seq(Pieces), NEW content \in Seq(Byte), NEW src \in Seq(Byte), NEW room \in Nat,
         NEW size, NEW dict, Working(w0, p, content, src, room, size, dict), OutFull(w0, room),
         w0.s.open = TRUE \/ Len(src) = 0
  PROVE  /\ Working(TakeBlocks(w0, src, room), p, content, src, room, size, dict)
         /\ SameStream(w0.s, TakeBlocks(w0, src, room).s)
         /\ OutFull(TakeBlocks(w0, src, room), room) /\ Over(TakeBlocks(w0, src, room), src)
<1>1. Len(src) \in Nat
  OBVIOUS
<1>2. PICK g : BlockTurns(w0, src, room, Len(src), g) /\ TakeBlocks(w0, src, room) = g[Len(src)]
  BY <1>1, TakeBlocksIs, Zenon
<1> DEFINE Kept(w, i) == /\ Working(w, p, content, src, room, size, dict) /\ SameStream(w0.s, w.s)
                         /\ OutFull(w, room) /\ (Over(w, src) \/ w.pos >= i)
           S == {i \in Nat : i \in 0 .. Len(src) => Kept(g[i], i)}
<1>3. 0 \in S
  <2>1. g[0] = w0
    BY <1>1, <1>2, SMTT(30) DEF BlockTurns
  <2>2. w0.pos >= 0
    BY DEF Working, Works
  <2>3. SameStream(w0.s, w0.s)
    BY Zenon DEF SameStream
  <2>4. Kept(g[0], 0)
    BY <2>1, <2>2, <2>3, Zenon
  <2> HIDE DEF Kept
  <2> QED BY <2>4, Zenon
<1>4. ASSUME NEW i \in Nat, i \in S PROVE i + 1 \in S
  <2>1. SUFFICES ASSUME i + 1 \in 0 .. Len(src) PROVE Kept(g[i + 1], i + 1)
    <3>1. i + 1 \in Nat
      OBVIOUS
    <3> HIDE DEF Kept
    <3> QED BY <3>1, Zenon
  <2> DEFINE w == g[i]
             v == BlockTurn(w, src, room)
  <2>2. i \in 0 .. Len(src) /\ i + 1 # 0 /\ (i + 1) - 1 = i /\ Len(src) # 0
    BY <1>1, <2>1
  <2>3. Kept(w, i)
    BY <1>4, <2>2, Zenon
  <2>4. g[i + 1] = v
    <3>1. g[i + 1] = IF i + 1 = 0 THEN w0 ELSE BlockTurn(g[(i + 1) - 1], src, room)
      BY <1>2, <2>1, Zenon DEF BlockTurns
    <3> QED BY <2>2, <3>1, Zenon
  <2> HIDE DEF w
  <2>5. w.s.open = TRUE
    BY <2>2, <2>3, Zenon DEF SameStream
  <2>6. Working(v, p, content, src, room, size, dict) /\ Turned(w, v, src, room)
    BY <2>3, <2>5, BlockTurnFacts, Zenon
  <2> HIDE DEF v
  <2>7. SameStream(w0.s, v.s) /\ OutFull(v, room)
    BY <2>3, <2>6, Zenon DEF Turned, SameStream
  <2>8. Over(v, src) \/ v.pos >= i + 1
    <3>1. CASE Over(w, src)
      BY <2>6, <3>1, Zenon DEF Turned
    <3>2. CASE ~Over(w, src)
      <4>1. w.pos \in Nat /\ v.pos \in Nat
        BY <2>3, <2>6, Zenon DEF Working, Works
      <4>2. w.pos >= i
        BY <2>3, <3>2, Zenon
      <4>3. v.pos > w.pos \/ v.error # "none"
        BY <2>6, <3>2, Zenon DEF Turned
      <4> QED BY <4>1, <4>2, <4>3, SMTT(30) DEF Over
    <3> QED BY <3>1, <3>2, Zenon
  <2>9. Kept(v, i + 1)
    BY <2>6, <2>7, <2>8, Zenon
  <2> HIDE DEF Kept
  <2> QED BY <2>4, <2>9, Zenon
<1> HIDE DEF S
<1>5. \A i \in Nat : i \in S
  BY <1>3, <1>4, SetInduction, Zenon
<1>6. Kept(g[Len(src)], Len(src))
  <2> HIDE DEF Kept
  <2>1. Len(src) \in 0 .. Len(src)
    BY <1>1
  <2> QED BY <1>1, <1>5, <2>1, Zenon DEF S
<1> DEFINE w == g[Len(src)]
<1> HIDE DEF w
<1>7. Over(w, src)
  <2>1. w.pos \in 0 .. Len(src) /\ (Over(w, src) \/ w.pos >= Len(src))
    BY <1>6, Zenon DEF Working, w
  <2>2. w.pos >= Len(src) => w.pos = Len(src)
    BY <1>1, <2>1
  <2> QED BY <2>1, <2>2, Zenon DEF Over
<1> QED BY <1>2, <1>6, <1>7, Zenon DEF w

-----------------------------------------------------------------------------
(* The directive.                                                          *)

\* A call on the context that takes no input.
LEMMA AfterStill ==
  ASSUME NEW w, NEW p \in Seq(Pieces), NEW content \in Seq(Byte), NEW src \in Seq(Byte), NEW room \in Nat,
         NEW size, NEW dict, Working(w, p, content, src, room, size, dict),
         NEW r, r.c \in Contexts, r.c.errored = FALSE, r.d.bytes \in Seq(Pieces), r.c.dictionary = w.s.dictionary,
         NEW open \in BOOLEAN,
         Good(r.c, open, (p \o w.out) \o r.d.bytes, content \o SubSeq(src, 1, w.pos), size, dict)
  PROVE  Working(After(w, r, 0, open), p, content, src, room, size, dict)
<1>1. w.pos \in Nat /\ w.pos + 0 = w.pos /\ w.pos + 0 <= Len(src) /\ 0 \in Nat
  BY DEF Working, Works
<1>2. Bounded(p \o w.out, content \o SubSeq(src, 1, w.pos))
  BY Zenon DEF Working, Stands
<1>3. /\ Good(r.c, open, (p \o w.out) \o r.d.bytes, content \o SubSeq(src, 1, w.pos + 0), size, dict)
      /\ Bounded(p \o w.out, content \o SubSeq(src, 1, w.pos + 0))
  BY <1>1, <1>2, Zenon
<1> QED BY <1>1, <1>3, AfterFacts, Zenon

\* What it leaves.
Leaves(w, v, c, open) ==
  /\ v.s.context = c /\ v.s.open = open /\ v.s.dictionary = w.s.dictionary
  /\ v.s.producer_failed = w.s.producer_failed /\ v.pos = w.pos /\ v.out = w.out /\ v.error = w.error

\* What such a call leaves of the rest of the call in hand.
LEMMA AfterLeaves ==
  ASSUME NEW w \in Works, NEW r, NEW open
  PROVE  Leaves(w, After(w, r, 0, open), r.c, open)
<1>1. w.s \in Streams /\ w.pos + 0 = w.pos
  BY DEF Works
<1> QED BY <1>1, Zenon DEF After, Leaves, Streams

\* A flush leaves nothing in the context.
LEMMA FlushedFacts ==
  ASSUME NEW w, NEW p \in Seq(Pieces), NEW content \in Seq(Byte), NEW src \in Seq(Byte), NEW room \in Nat,
         NEW size, NEW dict, Working(w, p, content, src, room, size, dict), w.s.open = TRUE
  PROVE  /\ Working(Flushed(w), p, content, src, room, size, dict)
         /\ \E c : Leaves(w, Flushed(w), c, TRUE) /\ pending_len(c) = 0
<1> DEFINE c == w.s.context
           d == AsDrain(w.s)
           o == p \o w.out
           had == content \o SubSeq(src, 1, w.pos)
           r == flush(c, d)
           x == After(w, r, 0, TRUE)
<1>1. /\ w \in Works /\ w.s.context.dictionary = w.s.dictionary /\ o \in Seq(Pieces) /\ had \in Seq(Byte)
      /\ Stands(w.s, o, had, w.progress, size, dict)
  BY Zenon DEF Working, Stands
<1>2. /\ c \in Contexts /\ c.errored = FALSE /\ d \in Drains /\ d.bad = 0 /\ Sound(c, o, d, had)
      /\ c.pledged = size /\ c.dictionary = dict
  <2>1. InHand(w.s, o, had, size, dict)
    BY <1>1, Standing, Zenon
  <2> QED BY <2>1, Zenon DEF InHand
<1>3. Flushed(w) = x
  <2>1. Flushed(w) = Produced(w, r)
    BY Zenon DEF Flushed
  <2> HIDE DEF r
  <2>2. Produced(w, r) = After(w, r, 0, w.s.open)
    BY <1>1, ProducedIs, Zenon
  <2> QED BY <2>1, <2>2, Zenon
<1> HIDE DEF c, d, o, had
<1>4. Steady(r) /\ pending_len(r.c) = 0
  BY <1>2, FlushSteadily, Zenon
<1>5. AfterFlush(c, o, had, r)
  BY <1>1, <1>2, FlushFacts, Zenon
<1> HIDE DEF r
<1>6. /\ r.c \in Contexts /\ r.c.errored = FALSE /\ r.d.bytes \in Seq(Pieces)
      /\ r.c.pledged = size /\ r.c.dictionary = dict /\ Sound(r.c, o, r.d, had)
  BY <1>2, <1>4, <1>5, Zenon DEF Steady, AfterFlush, Drains
<1>7. Good(r.c, TRUE, o \o r.d.bytes, had, size, dict)
  <2>1. Going(r.c, o \o r.d.bytes, had, size, dict)
    BY <1>6, Zenon DEF Going, Sound
  <2>2. Heads(o \o r.d.bytes, size, dict)
    BY <1>6, <2>1, GoingHeads, Zenon
  <2> QED BY <2>1, <2>2, Zenon DEF Good
<1>8. Working(x, p, content, src, room, size, dict)
  <2>1. Good(r.c, TRUE, (p \o w.out) \o r.d.bytes, content \o SubSeq(src, 1, w.pos), size, dict)
    BY <1>7, Zenon DEF o, had
  <2>2. r.c.dictionary = w.s.dictionary
    BY <1>1, <1>2, <1>6, Zenon DEF c
  <2>3. TRUE \in BOOLEAN
    BY Zenon
  <2> QED BY <1>6, <2>1, <2>2, <2>3, AfterStill, Zenon
<1>9. Leaves(w, x, r.c, TRUE)
  BY <1>1, AfterLeaves, Zenon
<1> HIDE DEF x
<1> QED BY <1>3, <1>4, <1>8, <1>9, Zenon

\* A stream whose context has not failed and holds the dictionary it is known by.
Sane(s) == s \in Streams /\ s.context.errored = FALSE /\ s.context.dictionary = s.dictionary

\* What letting a dictionary go leaves of a closed stream.
Released(s, serial, t) ==
  /\ Sane(t) /\ Ready(t.context) /\ t.open = FALSE /\ t.pending = s.pending
  /\ t.producer_failed = s.producer_failed /\ t.dictionary \in {0, s.dictionary}
  /\ s.dictionary = serial => t.dictionary = 0

\* release_dictionary of a closed stream.
LEMMA ReleaseFacts ==
  ASSUME NEW s, Sane(s), Ready(s.context), s.open = FALSE, NEW serial
  PROVE  Released(s, serial, release_dictionary(s, serial))
<1> DEFINE c == s.context
           e == [c EXCEPT !.dictionary = 0]
           t == [s EXCEPT !.context = e, !.dictionary = 0]
<1>1. s \in Streams /\ c \in Contexts /\ c.errored = FALSE /\ Ready(c)
  BY Zenon DEF Sane, Streams
<1>2. CASE serial # 0 /\ s.dictionary = serial
  <2>1. set_dictionary(c, NoDictionary) = e
    BY <1>1, Zenon DEF set_dictionary, ensure_settable, Ready, NoDictionary
  <2>2. release_dictionary(s, serial) = t
    BY <1>2, <2>1, Zenon DEF release_dictionary
  <2>3. e \in Contexts /\ e.errored = FALSE /\ Ready(e) /\ e.dictionary = 0
    BY <1>1, Zenon DEF Contexts, Ready
  <2> HIDE DEF e, c
  <2>4. /\ t \in Streams /\ t.context = e /\ t.dictionary = 0 /\ t.open = s.open /\ t.pending = s.pending
        /\ t.producer_failed = s.producer_failed
    BY <1>1, <2>3, Zenon DEF Streams
  <2> HIDE DEF t
  <2> QED BY <2>2, <2>3, <2>4, Zenon DEF Released, Sane
<1>3. CASE ~(serial # 0 /\ s.dictionary = serial)
  <2>1. release_dictionary(s, serial) = s
    BY <1>3, Zenon DEF release_dictionary
  <2> QED BY <1>3, <2>1, Zenon DEF Released
<1> QED BY <1>2, <1>3, Zenon

\* The frame is the same without the dictionary.
LEMMA StandsReleased ==
  ASSUME NEW s, NEW out, NEW content, NEW counters, NEW size, NEW dict, Stands(s, out, content, counters, size, dict),
         s.open = FALSE, NEW serial, NEW t, Released(s, serial, t)
  PROVE  Stands(t, out, content, counters, size, dict)
<1>1. Good(t.context, t.open, out \o t.pending, content, size, dict)
  BY Zenon DEF Stands, Good, Released
<1>2. Counted(t, out, content, counters)
  BY Zenon DEF Stands, Counted, Released
<1> QED BY <1>1, <1>2, Zenon DEF Stands, Released, Sane

\* The call in hand with another stream.
LEMMA WorkWith ==
  ASSUME NEW w, NEW p, NEW content, NEW src, NEW room, NEW size, NEW dict,
         Working(w, p, content, src, room, size, dict), NEW t,
         Stands(t, p \o w.out, content \o SubSeq(src, 1, w.pos), w.progress, size, dict)
  PROVE  /\ Working([w EXCEPT !.s = t], p, content, src, room, size, dict)
         /\ [w EXCEPT !.s = t].s = t /\ [w EXCEPT !.s = t].pos = w.pos /\ [w EXCEPT !.s = t].out = w.out
         /\ [w EXCEPT !.s = t].error = w.error
<1> DEFINE v == [w EXCEPT !.s = t]
<1>1. w \in Works /\ t \in Streams
  BY Zenon DEF Working, Stands
<1>2. v.s = t /\ v.error = w.error /\ v.pos = w.pos /\ v.out = w.out /\ v.progress = w.progress /\ v \in Works
  BY <1>1, Zenon DEF Works
<1> HIDE DEF v
<1>3. Working(v, p, content, src, room, size, dict)
  BY <1>2, Zenon DEF Working
<1> QED BY <1>2, <1>3, Zenon DEF v

\* What ending the frame leaves.
Closes(w, v, serial) ==
  /\ v.pos = w.pos /\ v.out = w.out /\ v.s.producer_failed = w.s.producer_failed
  /\ v.error = "none" => v.s.open = FALSE
  /\ v.s.open = FALSE => v.s.dictionary \in {0, serial}

\* ZSTD_e_end: finish_frame closes the frame of all the bytes taken, or refuses and
\* leaves it open; the dictionary it spent goes.
LEMMA EndedFacts ==
  ASSUME NEW w, NEW p \in Seq(Pieces), NEW content \in Seq(Byte), NEW src \in Seq(Byte), NEW room \in Nat,
         NEW size, NEW dict, Working(w, p, content, src, room, size, dict), w.s.open = TRUE, NEW serial
  PROVE  Working(Ended(w, serial), p, content, src, room, size, dict) /\ Closes(w, Ended(w, serial), serial)
<1> DEFINE c == w.s.context
           d == AsDrain(w.s)
           o == p \o w.out
           had == content \o SubSeq(src, 1, w.pos)
           r == finish_frame(c, d)
           x == After(w, r, 0, FALSE)
           v == Ended(w, serial)
           t == release_dictionary(x.s, x.s.dictionary)
<1>1. /\ w \in Works /\ w.s.context.dictionary = w.s.dictionary /\ o \in Seq(Pieces) /\ had \in Seq(Byte)
      /\ Stands(w.s, o, had, w.progress, size, dict)
  BY Zenon DEF Working, Stands
<1>2. /\ c \in Contexts /\ c.errored = FALSE /\ d \in Drains /\ d.bad = 0 /\ Sound(c, o, d, had)
      /\ c.pledged = size /\ c.dictionary = dict
  <2>1. InHand(w.s, o, had, size, dict)
    BY <1>1, Standing, Zenon
  <2> QED BY <2>1, Zenon DEF InHand
<1>3. v = IF r.code = "InvalidInput" THEN [w EXCEPT !.error = "srcSize_wrong"]
          ELSE IF r.code # "ok" THEN [w EXCEPT !.error = "GENERIC"]
          ELSE IF x.s.dictionary = serial THEN x
          ELSE [x EXCEPT !.s = t]
  <2> DEFINE y == [Produced(w, r) EXCEPT !.s.open = FALSE]
  <2>1. y = x
    <3> HIDE DEF r
    <3> QED BY <1>1, ProducedIs, Zenon
  <2>2. v = IF r.code = "InvalidInput" THEN [w EXCEPT !.error = "srcSize_wrong"]
            ELSE IF r.code # "ok" THEN [w EXCEPT !.error = "GENERIC"]
            ELSE IF y.s.dictionary = serial THEN y
            ELSE [y EXCEPT !.s = release_dictionary(y.s, y.s.dictionary)]
    BY Zenon DEF Ended
  <2> HIDE DEF y, x
  <2> QED BY <2>1, <2>2, Zenon
<1> HIDE DEF c, d, o, had
<1>4. AfterEnd(c, o, had, r)
  BY <1>1, <1>2, FinishFacts, Zenon
<1> SUFFICES Working(v, p, content, src, room, size, dict) /\ Closes(w, v, serial)
  BY Zenon
<1> HIDE DEF r, v
<1>5. ASSUME NEW b \in {"srcSize_wrong", "GENERIC"}, v = [w EXCEPT !.error = b]
      PROVE  Working(v, p, content, src, room, size, dict) /\ Closes(w, v, serial)
  <2>1. b \in Errors /\ b # "none"
    BY Zenon DEF Errors
  <2>2. Working(v, p, content, src, room, size, dict) /\ v.s = w.s /\ v.error = b /\ v.out = w.out /\ v.pos = w.pos
    BY <1>5, <2>1, ErrorFacts, SMTT(30)
  <2> QED BY <2>1, <2>2, Zenon DEF Closes
<1>6. CASE r.code = "ok"
  <2>1. /\ r.c \in Contexts /\ r.c.errored = FALSE /\ r.d.bytes \in Seq(Pieces) /\ r.c.dictionary = dict
        /\ IsFrameOf(o \o r.d.bytes, had) /\ Heads(o \o r.d.bytes, size, dict)
        /\ r.c.started = FALSE /\ r.c.consumed = 0 /\ r.c.pledged = Unknown
    BY <1>2, <1>4, <1>6, Zenon DEF AfterEnd, Drains
  <2>2. Good(r.c, FALSE, o \o r.d.bytes, had, size, dict)
    BY <2>1, Zenon DEF Good, Ready
  <2>3. Working(x, p, content, src, room, size, dict)
    <3>1. Good(r.c, FALSE, (p \o w.out) \o r.d.bytes, content \o SubSeq(src, 1, w.pos), size, dict)
      BY <2>2, Zenon DEF o, had
    <3>2. r.c.dictionary = w.s.dictionary
      BY <1>1, <1>2, <2>1, Zenon DEF c
    <3>3. FALSE \in BOOLEAN
      BY Zenon
    <3> QED BY <2>1, <3>1, <3>2, <3>3, AfterStill, Zenon
  <2>4. Leaves(w, x, r.c, FALSE)
    BY <1>1, AfterLeaves, Zenon
  <2>5. Ready(r.c)
    BY <2>1, Zenon DEF Ready
  <2> HIDE DEF x
  <2>6. CASE x.s.dictionary = serial
    <3>1. v = x
      BY <1>3, <1>6, <2>6, Zenon
    <3> QED BY <2>3, <2>4, <2>6, <3>1, Zenon DEF Closes, Leaves
  <2>7. CASE x.s.dictionary # serial
    <3>1. v = [x EXCEPT !.s = t]
      BY <1>3, <1>6, <2>7, Zenon
    <3>2. Stands(x.s, p \o x.out, content \o SubSeq(src, 1, x.pos), x.progress, size, dict)
      BY <2>3, Zenon DEF Working
    <3>3. Sane(x.s) /\ Ready(x.s.context) /\ x.s.open = FALSE
      BY <2>4, <2>5, <3>2, Zenon DEF Stands, Sane, Leaves
    <3>4. Released(x.s, x.s.dictionary, t)
      BY <3>3, ReleaseFacts, Zenon
    <3> HIDE DEF t
    <3>5. Stands(t, p \o x.out, content \o SubSeq(src, 1, x.pos), x.progress, size, dict)
      BY <3>2, <3>3, <3>4, StandsReleased, Zenon
    <3>6. /\ Working(v, p, content, src, room, size, dict)
          /\ v.s = t /\ v.pos = x.pos /\ v.out = x.out /\ v.error = x.error
      BY <2>3, <3>1, <3>5, WorkWith, SMTT(30)
    <3> QED BY <2>4, <3>4, <3>6, Zenon DEF Closes, Leaves, Released
  <2> QED BY <2>6, <2>7, Zenon
<1>7. CASE r.code = "InvalidInput"
  BY <1>3, <1>5, <1>7, Zenon
<1>8. CASE r.code # "ok" /\ r.code # "InvalidInput"
  BY <1>3, <1>5, <1>8, Zenon
<1> QED BY <1>6, <1>7, <1>8, Zenon

\* What a directive leaves.
Directs(w, v, op, src, serial) ==
  /\ v.pos = w.pos /\ v.out = w.out /\ v.s.producer_failed = w.s.producer_failed
  /\ w.error # "none" \/ w.pos < Len(src) \/ w.s.open = FALSE \/ op = "continue" => v = w
  /\ v.s.open = FALSE => v.s.dictionary \in {0, serial} \/ v = w
  /\ v.error = "none" /\ ~(w.pos < Len(src)) =>
       /\ op = "flush" => v.s.open = FALSE \/ pending_len(v.s.context) = 0
       /\ op = "end" => v.s.open = FALSE

\* The directive applies once all the input is in, and keeps the frame.
LEMMA DirectedFacts ==
  ASSUME NEW w, NEW p \in Seq(Pieces), NEW content \in Seq(Byte), NEW src \in Seq(Byte), NEW room \in Nat,
         NEW size, NEW dict, Working(w, p, content, src, room, size, dict), NEW op \in Directives, NEW serial
  PROVE  /\ Working(Directed(w, op, src, serial), p, content, src, room, size, dict)
         /\ Directs(w, Directed(w, op, src, serial), op, src, serial)
<1> DEFINE v == Directed(w, op, src, serial)
<1>1. w.s.open \in BOOLEAN
  BY Zenon DEF Working, Works, Streams
<1>2. v = IF w.error # "none" \/ w.pos < Len(src) \/ w.s.open = FALSE THEN w
          ELSE IF op = "flush" THEN Flushed(w) ELSE IF op = "end" THEN Ended(w, serial) ELSE w
  BY <1>1, Zenon DEF Directed
<1> HIDE DEF v
<1>3. op \in {"continue", "flush", "end"}
  BY Zenon DEF Directives
<1>4. CASE w.error # "none" \/ w.pos < Len(src) \/ w.s.open = FALSE
  <2>1. v = w
    BY <1>2, <1>4, Zenon
  <2> QED BY <1>4, <2>1, Zenon DEF v, Directs
<1>5. CASE ~(w.error # "none" \/ w.pos < Len(src) \/ w.s.open = FALSE) /\ op = "flush"
  <2>1. v = Flushed(w) /\ w.s.open = TRUE
    BY <1>1, <1>2, <1>5, Zenon
  <2>2. Working(v, p, content, src, room, size, dict) /\ \E c : Leaves(w, v, c, TRUE) /\ pending_len(c) = 0
    BY <2>1, FlushedFacts, Zenon
  <2>3. PICK c : Leaves(w, v, c, TRUE) /\ pending_len(c) = 0
    BY <2>2, Zenon
  <2>4. Directs(w, v, op, src, serial)
    BY <1>5, <2>3, Zenon DEF Directs, Leaves
  <2> QED BY <2>2, <2>4, Zenon DEF v
<1>6. CASE ~(w.error # "none" \/ w.pos < Len(src) \/ w.s.open = FALSE) /\ op = "end"
  <2>1. v = Ended(w, serial) /\ w.s.open = TRUE
    BY <1>1, <1>2, <1>6, Zenon
  <2>2. Working(v, p, content, src, room, size, dict) /\ Closes(w, v, serial)
    BY <2>1, EndedFacts, Zenon
  <2>3. Directs(w, v, op, src, serial)
    BY <1>6, <2>2, Zenon DEF Directs, Closes
  <2> QED BY <2>2, <2>3, Zenon DEF v
<1>7. CASE ~(w.error # "none" \/ w.pos < Len(src) \/ w.s.open = FALSE) /\ op = "continue"
  <2>1. v = w
    BY <1>2, <1>7, Zenon
  <2> QED BY <1>7, <2>1, Zenon DEF v, Directs
<1> QED BY <1>3, <1>4, <1>5, <1>6, <1>7, Zenon

-----------------------------------------------------------------------------
(* A frame begins.                                                         *)

Sizes == Nat \cup {Unknown}

\* A stream between frames.
Rests(s) == Sane(s) /\ Ready(s.context) /\ s.open = FALSE /\ s.pending = << >>

\* A stream that has not begun a frame.
LEMMA NewRests == Rests(NoStream) /\ Rests(NewStream) /\ NoStream.dictionary = 0
<1>1. NewContext \in Contexts /\ NewContext.errored = FALSE /\ Ready(NewContext) /\ NewContext.dictionary = 0
  BY DEF NewContext, Contexts, Ready, Unknown, NoDictionary
<1>2. NoStream \in Streams /\ NoStream.context = NewContext /\ NoStream.dictionary = 0 /\ NoStream.open = FALSE
      /\ NoStream.pending = << >>
  BY <1>1 DEF NoStream, Streams
<1>3. NewStream \in Streams /\ NewStream.context = NewContext /\ NewStream.dictionary = 0 /\ NewStream.open = FALSE
      /\ NewStream.pending = << >>
  BY <1>2, Zenon DEF NewStream, Streams
<1> QED BY <1>1, <1>2, <1>3, Zenon DEF Rests, Sane

\* The context under the settings of the next frame.
Configured(c, size, serial) ==
  /\ c \in Contexts /\ c.errored = FALSE /\ c.started = FALSE /\ c.consumed = 0
  /\ c.pledged = size /\ c.dictionary = serial

\* configure sets the pledge and the dictionary of the frame to come, whatever the
\* stream held before.
LEMMA ConfigureFacts ==
  ASSUME NEW s, Rests(s), NEW size \in Sizes, NEW serial \in Nat
  PROVE  LET t == configure(s, size, serial)
         IN t \in Streams /\ Configured(t.context, size, serial) /\ t.dictionary = serial /\ t.pending = << >>
<1> DEFINE c == s.context
           x == IF s.dictionary # serial THEN set_dictionary(c, serial) ELSE c
           y == IF size = Unknown THEN x ELSE set_pledged_content_size(x, size)
           u == [s EXCEPT !.context = y]
           t == configure(s, size, serial)
<1>1. s \in Streams /\ c \in Contexts /\ c.errored = FALSE /\ Ready(c) /\ c.dictionary = s.dictionary /\ s.pending = << >>
  BY Zenon DEF Rests, Sane, Streams
<1>2. Configured(x, Unknown, serial)
  <2>1. CASE s.dictionary # serial
    <3>1. x = [c EXCEPT !.dictionary = serial]
      BY <1>1, <2>1, Zenon DEF set_dictionary, ensure_settable, Ready
    <3> HIDE DEF c, x
    <3> QED BY <1>1, <3>1, Zenon DEF Configured, Contexts, Ready
  <2>2. CASE s.dictionary = serial
    BY <1>1, <2>2, Zenon DEF Configured, Ready
  <2> QED BY <2>1, <2>2, Zenon
<1> HIDE DEF c, x
<1>3. Configured(y, size, serial)
  <2>1. CASE size = Unknown
    BY <1>2, <2>1, Zenon
  <2>2. CASE size # Unknown
    <3>1. y = [x EXCEPT !.pledged = size]
      BY <1>2, <2>2, Zenon DEF set_pledged_content_size, ensure_settable, Configured
    <3> HIDE DEF y
    <3> QED BY <1>2, <3>1, Zenon DEF Configured, Contexts, Sizes
  <2> QED BY <2>1, <2>2, Zenon
<1>4. t = [s EXCEPT !.context = y, !.dictionary = serial]
  BY Zenon DEF configure, c, x
<1> HIDE DEF y
<1>5. u \in Streams /\ u.context = y /\ u.pending = << >>
  BY <1>1, <1>3, Zenon DEF Streams, Configured
<1>6. t = [u EXCEPT !.dictionary = serial]
  BY <1>4, Zenon
<1> HIDE DEF u, t
<1>7. t \in Streams /\ t.context = y /\ t.pending = << >> /\ t.dictionary = serial
  BY <1>5, <1>6, Zenon DEF Streams
<1>8. t \in Streams /\ Configured(t.context, size, serial) /\ t.dictionary = serial /\ t.pending = << >>
  BY <1>3, <1>7, Zenon
<1> QED BY <1>8, Zenon DEF t

\* The frame that open_frame begins.
LEMMA OpenFacts ==
  ASSUME NEW s, Rests(s), NEW size \in Sizes, NEW serial \in Nat
  PROVE  /\ open_frame(s, size, serial).open = TRUE
         /\ Stands(open_frame(s, size, serial), << >>, << >>, NoProgress, size, serial)
<1> DEFINE r == IF s.made THEN s ELSE NewStream
           t == configure(r, size, serial)
           v == [t EXCEPT !.open = TRUE]
<1>1. Rests(r)
  BY NewRests, Zenon
<1> HIDE DEF r
<1>2. t \in Streams /\ Configured(t.context, size, serial) /\ t.dictionary = serial /\ t.pending = << >>
  BY <1>1, ConfigureFacts, Zenon
<1>3. open_frame(s, size, serial) = v
  BY Zenon DEF open_frame, r
<1> HIDE DEF t
<1>4. v \in Streams /\ v.open = TRUE /\ v.context = t.context /\ v.dictionary = serial /\ v.pending = << >>
  BY <1>2, Zenon DEF Streams
<1> HIDE DEF v
<1> DEFINE c == v.context
<1>5. Configured(c, size, serial)
  BY <1>2, <1>4, Zenon
<1> HIDE DEF c
<1>6. << >> \in Seq(Pieces) /\ << >> \in Seq(Byte) /\ << >> \o << >> = << >> /\ Len(<< >>) = 0 /\ Contents(<< >>) = << >>
  <2>1. << >> \in Seq(Pieces) /\ << >> \in Seq(Byte) /\ << >> \o << >> = << >> /\ Len(<< >>) = 0
    OBVIOUS
  <2>2. \A q \in Seq(Pieces) : q = << >> => Contents(q) = << >>
    BY ContentsFacts, Zenon
  <2> QED BY <2>1, <2>2, Zenon
<1>7. Good(c, TRUE, << >>, << >>, size, serial)
  <2>1. IsOpenFrame(<< >>)
    BY DEF IsOpenFrame
  <2>2. InFrame(c, << >>, << >>)
    BY <1>5, <2>1, Zenon DEF InFrame, Configured
  <2>3. pending_len(c) < BlockCapacity
    BY <1>5, CapacityAssumption DEF Configured, pending_len
  <2>4. Going(c, << >>, << >>, size, serial)
    BY <1>5, <1>6, <2>2, <2>3, Zenon DEF Going, Configured
  <2>5. Heads(<< >>, size, serial)
    BY Zenon DEF Heads
  <2> QED BY <2>4, <2>5, Zenon DEF Good
<1>8. NoProgress \in Counters /\ Counted(v, << >>, << >>, NoProgress)
  BY <1>4, <1>6 DEF NoProgress, Counters, Counted
<1>9. Bounded(<< >>, << >>)
  BY <1>6, StreamAssumption, CapacityAssumption, SMTT(30) DEF Bounded
<1>10. Stands(v, << >>, << >>, NoProgress, size, serial)
  <2>1. v.context.errored = FALSE /\ v.context.dictionary = v.dictionary
    BY <1>4, <1>5, Zenon DEF Configured, c
  <2>2. Good(v.context, v.open, << >> \o v.pending, << >>, size, serial)
    BY <1>4, <1>6, <1>7, Zenon DEF c
  <2> QED BY <1>4, <1>6, <1>8, <1>9, <2>1, <2>2, Zenon DEF Stands
<1> QED BY <1>3, <1>4, <1>10, Zenon

-----------------------------------------------------------------------------
(* The whole of a call.                                                    *)

\* A call begins with the stream as it stands.
LEMMA IdleWorks ==
  ASSUME NEW s, NEW p, NEW content, NEW counters, NEW size, NEW dict, Stands(s, p, content, counters, size, dict),
         NEW src \in Seq(Byte), NEW room \in Nat
  PROVE  Working(Idle(s, counters), p, content, src, room, size, dict)
<1> DEFINE w == Idle(s, counters)
<1>1. s \in Streams /\ counters \in Counters /\ p \in Seq(Pieces) /\ content \in Seq(Byte)
  BY Zenon DEF Stands, Counted
<1>2. w.s = s /\ w.progress = counters /\ w.pos = 0 /\ w.out = << >> /\ w.error = "none"
  BY Zenon DEF Idle
<1>3. w \in Works
  BY <1>1 DEF Idle, Works, Errors
<1> HIDE DEF w
<1>4. SubSeq(src, 1, 0) = << >> /\ 0 \in 0 .. Len(src) /\ Len(<< >>) <= room
  OBVIOUS
<1>5. p \o << >> = p /\ content \o << >> = content
  BY <1>1
<1>6. Working(w, p, content, src, room, size, dict)
  BY <1>2, <1>3, <1>4, <1>5, Zenon DEF Working
<1> QED BY <1>6, Zenon DEF w

\* How a call that goes well leaves the stream: with input left over, or with
\* the directive carried out.
Answers(v, op, src) ==
  /\ v.pos < Len(src) => v.s.pending # << >> /\ v.s.open = TRUE
  /\ ~(v.pos < Len(src)) => /\ op = "flush" => v.s.open = FALSE \/ pending_len(v.s.context) = 0
                            /\ op = "end" => v.s.open = FALSE

\* The dictionary of a stream that a call leaves closed.
Holds(s, t, serial) ==
  t.open = FALSE => t.dictionary \in {0, serial} \/ (s.open = FALSE /\ t.dictionary = s.dictionary)

\* What a call comes to before and after the last of its output is copied.
Comes(s, w, v, p, content, src, room, size, dict, op, serial) ==
  /\ Working(w, p, content, src, room, size, dict) /\ Holds(s, w.s, serial)
  /\ Working(v, p, content, src, room, size, dict) /\ Holds(s, v.s, serial)
  /\ w.error = "none" => Answers(v, op, src)

\* A whole call: output copied out, input taken, the directive carried out, and
\* output copied out again.
LEMMA CallFacts ==
  ASSUME NEW s, NEW p \in Seq(Pieces), NEW content \in Seq(Byte), NEW counters, NEW size, NEW dict,
         Stands(s, p, content, counters, size, dict), NEW src \in Seq(Byte), NEW room \in Nat,
         s.open = TRUE \/ Len(src) = 0, NEW op \in Directives, NEW serial,
         NEW t, t = TakeBlocks(CopyOut(Idle(s, counters), room), src, room),
         NEW w, w = Directed(t, op, src, serial)
  PROVE  Comes(s, w, CopyOut(w, room), p, content, src, room, size, dict, op, serial)
<1> DEFINE i == Idle(s, counters)
           c == CopyOut(i, room)
           v == CopyOut(w, room)
<1>1. Working(i, p, content, src, room, size, dict)
  BY IdleWorks, Zenon
<1>2. i.s = s /\ i.error = "none"
  BY Zenon DEF Idle
<1>3. Working(c, p, content, src, room, size, dict) /\ Copied(i, room, c)
  <2> HIDE DEF i
  <2> QED BY <1>1, CopyFacts, Zenon
<1>4. t = TakeBlocks(c, src, room)
  BY Zenon
<1> HIDE DEF i, c
<1>5. c.s.open = s.open /\ c.s.dictionary = s.dictionary /\ OutFull(c, room)
  BY <1>2, <1>3, Zenon DEF Copied, OutFull
<1>6. /\ Working(t, p, content, src, room, size, dict) /\ SameStream(c.s, t.s)
      /\ OutFull(t, room) /\ Over(t, src)
  BY <1>3, <1>4, <1>5, TakeBlocksFacts, Zenon
<1>7. Working(w, p, content, src, room, size, dict) /\ Directs(t, w, op, src, serial)
  BY <1>6, DirectedFacts, Zenon
<1>8. Working(v, p, content, src, room, size, dict) /\ Copied(w, room, v)
  BY <1>7, CopyFacts, Zenon
<1> HIDE DEF v
<1>9. Holds(s, w.s, serial)
  <2>1. t.s.open = s.open /\ t.s.dictionary = s.dictionary
    BY <1>5, <1>6, Zenon DEF SameStream
  <2>2. w.s.open = FALSE => w.s.dictionary \in {0, serial} \/ w = t
    BY <1>7, Zenon DEF Directs
  <2> QED BY <2>1, <2>2, Zenon DEF Holds
<1>10. Holds(s, v.s, serial)
  BY <1>8, <1>9, Zenon DEF Holds, Copied
<1>11. ASSUME w.error = "none" PROVE Answers(v, op, src)
  <2>1. v.pos = t.pos /\ v.s.open = w.s.open /\ v.s.context = w.s.context
    BY <1>7, <1>8, Zenon DEF Directs, Copied
  <2>2. CASE v.pos < Len(src)
    <3>1. w = t
      BY <1>7, <2>1, <2>2, Zenon DEF Directs
    <3>2. t.pos # Len(src)
      <4>1. t.pos \in Nat /\ Len(src) \in Nat
        BY <1>6 DEF Working, Works
      <4> QED BY <2>1, <2>2, <4>1, SMTT(30)
    <3>3. t.s.pending # << >>
      BY <1>6, <1>11, <3>1, <3>2, Zenon DEF Over
    <3>4. Len(t.out) = room
      BY <1>6, <3>3, Zenon DEF OutFull
    <3>5. v.s.pending = t.s.pending
      BY <1>8, <3>1, <3>4, Zenon DEF Copied
    <3>6. Len(src) # 0
      <4>1. t.pos \in Nat
        BY <1>6, Zenon DEF Working, Works
      <4> QED BY <2>1, <2>2, <4>1, SMTT(30)
    <3>7. v.s.open = TRUE
      BY <1>5, <1>6, <2>1, <3>1, <3>6, Zenon DEF SameStream
    <3> QED BY <2>2, <3>3, <3>5, <3>7, Zenon DEF Answers
  <2>3. CASE ~(v.pos < Len(src))
    <3>1. ~(t.pos < Len(src))
      BY <2>1, <2>3, Zenon
    <3>2. /\ op = "flush" => w.s.open = FALSE \/ pending_len(w.s.context) = 0
          /\ op = "end" => w.s.open = FALSE
      BY <1>7, <1>11, <3>1, Zenon DEF Directs
    <3> QED BY <2>1, <2>3, <3>2, Zenon DEF Answers
  <2> QED BY <2>2, <2>3, Zenon
<1> QED BY <1>7, <1>8, <1>9, <1>10, <1>11, Zenon DEF v, Comes

\* What an answer of 0 says of the frame.
Complete(out, content, size) ==
  IsFrameOf(out, content) /\ size \in {Unknown, Len(content)}

\* With nothing waiting, a closed frame is complete, and a flushed one is all out.
LEMMA NothingWaits ==
  ASSUME NEW s, NEW out, NEW content, NEW counters, NEW size, NEW dict,
         Stands(s, out, content, counters, size, dict), s.pending = << >>
  PROVE  /\ s.open = FALSE => Complete(out, content, size) /\ Contents(out) = content
         /\ s.open = TRUE /\ pending_len(s.context) = 0 => Contents(out) = content
<1>1. out \in Seq(Pieces) /\ content \in Seq(Byte) /\ s.context \in Contexts /\ s.pending = << >>
  BY Zenon DEF Stands, Streams
<1>2. out \o s.pending = out
  BY <1>1
<1>3. Good(s.context, s.open, out, content, size, dict)
  BY <1>2, Zenon DEF Stands
<1>4. ASSUME s.open = FALSE PROVE Complete(out, content, size) /\ Contents(out) = content
  <2>1. IsFrameOf(out, content) /\ Heads(out, size, dict)
    BY <1>3, <1>4, Zenon DEF Good
  <2>2. Contents(out) = content /\ out[1].fcs \in {Unknown, Len(content)}
    BY <2>1, Zenon DEF IsFrameOf
  <2>3. out # << >>
    <3>1. (IF ContentChecksum THEN Len(out) - 1 ELSE Len(out)) >= 2
      BY <2>1, Zenon DEF IsFrameOf
    <3>2. Len(out) \in Nat
      BY <1>1
    <3>3. Len(out) # 0
      BY <3>1, <3>2
    <3> QED BY <3>3
  <2>4. size = out[1].fcs
    BY <2>1, <2>3, Zenon DEF Heads
  <2> QED BY <2>1, <2>2, <2>4, Zenon DEF Complete
<1>5. ASSUME s.open = TRUE, pending_len(s.context) = 0 PROVE Contents(out) = content
  <2>1. InFrame(s.context, out, content) /\ pending_len(s.context) < BlockCapacity
    BY <1>3, <1>5, Zenon DEF Good, Going
  <2> QED BY <1>1, <1>5, <2>1, HoldsBack, Zenon
<1> QED BY <1>4, <1>5, Zenon

-----------------------------------------------------------------------------
(* The invariant, over the values of the variables.                        *)

Asks == [size : Sizes, dict : Nat, once : BOOLEAN, lost : BOOLEAN]

\* The stream in its frame, or between frames with the last one's header out.
InPlace(s, out, content, counters, a) ==
  /\ in_frame(s) => Stands(s, out, content, counters, a.size, a.dict) /\ (a.lost = TRUE => s.producer_failed = TRUE)
  /\ ~in_frame(s) => Rests(s) /\ Heads(out, a.size, a.dict)

\* What the last call, l, told.
Tells(s, out, content, a, l) ==
  l.error = "none" /\ l.op \in Directives =>
    /\ l.left > 0 => l.answer > 0 /\ s.open
    /\ l.op # "continue" /\ l.answer = 0 => Contents(out) = content
    /\ l.op = "end" /\ l.answer = 0 => IsFrameOf(out, content) /\ ~a.lost /\ a.size \in {Unknown, Len(content)}

\* A closed stream holds no dictionary but the attached one.
Holding(s, serial) == s.open = FALSE => s.dictionary \in {0, serial}

Placed(s, out, content, counters, a, l, serial) ==
  /\ out \in Seq(Pieces) /\ content \in Seq(Byte) /\ a \in Asks /\ Holding(s, serial)
  /\ InPlace(s, out, content, counters, a) /\ Tells(s, out, content, a, l)

\* The header of the whole is that of its beginning.
LEMMA HeadsFirst ==
  ASSUME NEW p \in Seq(Pieces), NEW q \in Seq(Pieces), NEW size, NEW dict, Heads(p \o q, size, dict)
  PROVE  Heads(p, size, dict)
<1>1. p # << >> => p \o q # << >> /\ (p \o q)[1] = p[1]
  <2>1. SUFFICES ASSUME p # << >> PROVE p \o q # << >> /\ (p \o q)[1] = p[1]
    BY Zenon
  <2>2. Len(p) \in Nat /\ Len(q) \in Nat /\ Len(p) # 0 /\ Len(p \o q) = Len(p) + Len(q)
    BY <2>1
  <2>3. 1 \in 1 .. Len(p) + Len(q) /\ 1 <= Len(p) /\ Len(p \o q) # 0
    BY <2>2
  <2>4. (p \o q)[1] = p[1]
    BY <2>3, Joined
  <2> QED BY <2>3, <2>4
<1> QED BY <1>1, Zenon DEF Heads

\* A stream that stands in its frame, or has just handed out the last of it.
LEMMA StandsInPlace ==
  ASSUME NEW s, NEW out, NEW content, NEW counters, NEW a, Stands(s, out, content, counters, a.size, a.dict),
         a.lost = TRUE => s.producer_failed = TRUE
  PROVE  InPlace(s, out, content, counters, a)
<1>1. SUFFICES ASSUME ~in_frame(s) PROVE Rests(s) /\ Heads(out, a.size, a.dict)
  BY Zenon DEF InPlace
<1>2. s \in Streams /\ out \in Seq(Pieces) /\ Sane(s) /\ Good(s.context, s.open, out \o s.pending, content, a.size, a.dict)
  BY Zenon DEF Stands, Sane
<1>3. s.open = FALSE /\ s.pending = << >>
  BY <1>1, <1>2, Zenon DEF in_frame, Streams
<1>4. out \o s.pending = out
  BY <1>2, <1>3
<1> QED BY <1>2, <1>3, <1>4, Zenon DEF Good, Rests

\* The mark that the producer failed is not part of the frame.
LEMMA MarkFacts ==
  ASSUME NEW s, NEW out, NEW content, NEW counters, NEW size, NEW dict, Stands(s, out, content, counters, size, dict),
         NEW b \in BOOLEAN
  PROVE  LET t == [s EXCEPT !.producer_failed = b]
         IN /\ Stands(t, out, content, counters, size, dict)
            /\ t.producer_failed = b /\ t.open = s.open /\ t.dictionary = s.dictionary
<1> DEFINE t == [s EXCEPT !.producer_failed = b]
<1>1. s \in Streams
  BY Zenon DEF Stands
<1>2. /\ t \in Streams /\ t.producer_failed = b /\ t.open = s.open /\ t.dictionary = s.dictionary
      /\ t.context = s.context /\ t.pending = s.pending
  BY <1>1, Zenon DEF Streams
<1> HIDE DEF t
<1>3. Counted(t, out, content, counters)
  BY <1>2, Zenon DEF Stands, Counted
<1>4. Stands(t, out, content, counters, size, dict)
  BY <1>2, <1>3, Zenon DEF Stands
<1> QED BY <1>2, <1>4, Zenon DEF t

\* What the caller asked for, and that a block was lost.
LEMMA LostFacts ==
  ASSUME NEW a \in Asks, NEW b \in BOOLEAN
  PROVE  LET c == [a EXCEPT !.lost = @ \/ b]
         IN c \in Asks /\ c.size = a.size /\ c.dict = a.dict /\ c.once = a.once /\ c.lost = (a.lost \/ b)
BY Zenon DEF Asks

\* A call that comes back with an error.
LEMMA ErrorReturns ==
  ASSUME NEW w, NEW p \in Seq(Pieces), NEW content \in Seq(Byte), NEW src \in Seq(Byte), NEW room \in Nat,
         NEW a \in Asks, Working(w, p, content, src, room, a.size, a.dict),
         NEW b \in BOOLEAN, a.lost = TRUE => b = TRUE, NEW serial, Holding(w.s, serial),
         NEW l, l.error # "none"
  PROVE  Placed([w.s EXCEPT !.producer_failed = b], p \o w.out, content \o SubSeq(src, 1, w.pos), w.progress,
                a, l, serial)
<1> DEFINE t == [w.s EXCEPT !.producer_failed = b]
           o == p \o w.out
           got == content \o SubSeq(src, 1, w.pos)
<1>1. Stands(w.s, o, got, w.progress, a.size, a.dict)
  BY Zenon DEF Working
<1> HIDE DEF o, got
<1>2. Stands(t, o, got, w.progress, a.size, a.dict) /\ t.producer_failed = b /\ t.open = w.s.open /\ t.dictionary = w.s.dictionary
  BY <1>1, MarkFacts
<1> HIDE DEF t
<1>3. InPlace(t, o, got, w.progress, a)
  BY <1>2, StandsInPlace, Zenon
<1>4. Tells(t, o, got, a, l)
  BY Zenon DEF Tells
<1>5. o \in Seq(Pieces) /\ got \in Seq(Byte) /\ Holding(t, serial)
  BY <1>2, Zenon DEF Stands, Holding
<1>6. Placed(t, o, got, w.progress, a, l, serial)
  BY <1>3, <1>4, <1>5, Zenon DEF Placed
<1> QED BY <1>6, Zenon DEF t, o, got

\* A call after which there is no stream.
LEMMA FailedReturns ==
  ASSUME NEW w, NEW p \in Seq(Pieces), NEW content \in Seq(Byte), NEW src \in Seq(Byte), NEW room \in Nat,
         NEW a \in Asks, Working(w, p, content, src, room, a.size, a.dict), NEW counters, NEW serial,
         NEW l, l.error # "none"
  PROVE  Placed(NoStream, p \o w.out, content \o SubSeq(src, 1, w.pos), counters, a, l, serial)
<1> DEFINE o == p \o w.out
           got == content \o SubSeq(src, 1, w.pos)
<1>1. Stands(w.s, o, got, w.progress, a.size, a.dict)
  BY Zenon DEF Working
<1> HIDE DEF o, got
<1>2. o \in Seq(Pieces) /\ got \in Seq(Byte) /\ w.s.pending \in Seq(Pieces) /\ Heads(o \o w.s.pending, a.size, a.dict)
  BY <1>1, Zenon DEF Stands, Good, Streams
<1>3. Heads(o, a.size, a.dict)
  <2> DEFINE q == w.s.pending
  <2>1. q \in Seq(Pieces) /\ Heads(o \o q, a.size, a.dict)
    BY <1>2, Zenon
  <2> HIDE DEF q
  <2> QED BY <1>2, <2>1, HeadsFirst, Zenon
<1>4. ~in_frame(NoStream)
  BY Zenon DEF in_frame, NoStream
<1>5. InPlace(NoStream, o, got, counters, a) /\ Holding(NoStream, serial)
  BY <1>3, <1>4, NewRests, Zenon DEF InPlace, Holding
<1>6. Tells(NoStream, o, got, a, l)
  BY Zenon DEF Tells
<1>7. Placed(NoStream, o, got, counters, a, l, serial)
  BY <1>2, <1>5, <1>6, Zenon DEF Placed
<1> QED BY <1>7, Zenon DEF o, got

\* A call that goes well.
LEMMA GoodReturns ==
  ASSUME NEW v, NEW p \in Seq(Pieces), NEW content \in Seq(Byte), NEW src \in Seq(Byte), NEW room \in Nat,
         NEW a \in Asks, Working(v, p, content, src, room, a.size, a.dict), a.lost = FALSE,
         NEW serial, Holding(v.s, serial), NEW op \in Directives, Answers(v, op, src),
         NEW l, l = [op |-> op, left |-> Len(src) - v.pos, answer |-> Len(v.s.pending), error |-> "none"]
  PROVE  Placed(v.s, p \o v.out, content \o SubSeq(src, 1, v.pos), v.progress, a, l, serial)
<1> DEFINE o == p \o v.out
           got == content \o SubSeq(src, 1, v.pos)
           q == v.s.pending
<1>1. Stands(v.s, o, got, v.progress, a.size, a.dict) /\ v.pos \in Nat /\ Len(src) \in Nat /\ q \in Seq(Pieces)
  BY DEF Working, Works, Streams
<1>2. l.op = op /\ l.left = Len(src) - v.pos /\ l.answer = Len(q) /\ l.error = "none"
  BY Zenon DEF q
<1> HIDE DEF o, got
<1>3. InPlace(v.s, o, got, v.progress, a)
  BY <1>1, StandsInPlace, Zenon
<1>4. o \in Seq(Pieces) /\ got \in Seq(Byte) /\ v.s.open \in BOOLEAN
  BY <1>1, Zenon DEF Stands, Streams
<1>5. l.left > 0 => l.answer > 0 /\ v.s.open
  <2>1. SUFFICES ASSUME l.left > 0 PROVE l.answer > 0 /\ v.s.open
    BY Zenon
  <2>2. v.pos < Len(src)
    BY <1>1, <1>2, <2>1
  <2>3. q # << >> /\ v.s.open = TRUE
    BY <2>2, Zenon DEF Answers
  <2> HIDE DEF q
  <2>4. Len(q) > 0
    <3>1. Len(q) \in Nat /\ Len(q) # 0
      BY <1>1, <2>3
    <3> QED BY <3>1
  <2> QED BY <1>2, <2>3, <2>4, Zenon
<1>6. l.answer = 0 => q = << >> /\ ~(v.pos < Len(src))
  <2>1. SUFFICES ASSUME l.answer = 0 PROVE q = << >> /\ ~(v.pos < Len(src))
    BY Zenon
  <2>2. q = << >>
    <3>1. Len(q) = 0 /\ q \in Seq(Pieces)
      BY <1>1, <1>2, <2>1, Zenon
    <3> HIDE DEF q
    <3> QED BY <3>1
  <2> QED BY <2>2, Zenon DEF Answers
<1>7. l.op = "end" /\ l.answer = 0 => Contents(o) = got /\ Complete(o, got, a.size)
  <2>1. SUFFICES ASSUME l.op = "end", l.answer = 0 PROVE Contents(o) = got /\ Complete(o, got, a.size)
    BY Zenon
  <2>2. v.s.open = FALSE /\ v.s.pending = << >>
    BY <1>2, <1>6, <2>1, Zenon DEF Answers
  <2> QED BY <1>1, <2>2, NothingWaits, Zenon
<1>8. l.op = "flush" /\ l.answer = 0 => Contents(o) = got
  <2>1. SUFFICES ASSUME l.op = "flush", l.answer = 0 PROVE Contents(o) = got
    BY Zenon
  <2>2. (v.s.open = FALSE \/ pending_len(v.s.context) = 0) /\ v.s.pending = << >>
    BY <1>2, <1>6, <2>1, Zenon DEF Answers
  <2> QED BY <1>1, <1>4, <2>2, NothingWaits, Zenon
<1>9. Tells(v.s, o, got, a, l)
  <2>1. l.op # "continue" => l.op \in {"flush", "end"}
    BY <1>2, Zenon DEF Directives
  <2> QED BY <1>5, <1>7, <1>8, <2>1, Zenon DEF Tells, Complete
<1>10. Placed(v.s, o, got, v.progress, a, l, serial)
  BY <1>3, <1>4, <1>9, Zenon DEF Placed
<1> QED BY <1>10, Zenon DEF o, got

\* A dictionary that is no longer attached goes from a stream between frames.
LEMMA ReplaceFacts ==
  ASSUME NEW s, Rests(s), NEW old, NEW serial, s.dictionary \in {0, old}
  PROVE  LET t == StreamAfterReplacing(s, old, serial) IN Rests(t) /\ t.dictionary \in {0, serial}
<1> DEFINE t == StreamAfterReplacing(s, old, serial)
<1>1. CASE old = 0 \/ old = serial
  <2>1. t = s
    BY <1>1, Zenon DEF StreamAfterReplacing
  <2> QED BY <1>1, <2>1, Zenon
<1>2. CASE ~(old = 0 \/ old = serial)
  <2>1. t = release_dictionary(s, old)
    BY <1>2, Zenon DEF StreamAfterReplacing
  <2>2. Released(s, old, release_dictionary(s, old))
    BY ReleaseFacts, Zenon DEF Rests
  <2>3. Released(s, old, t)
    BY <2>1, <2>2, Zenon
  <2> HIDE DEF t
  <2>4. Rests(t) /\ t.dictionary \in {0, serial}
    BY <2>3, Zenon DEF Released, Rests
  <2> QED BY <2>4, Zenon DEF t
<1> QED BY <1>1, <1>2, Zenon

\* The one-shot compressor.
Keeps(k, serial) == k \in [held : Nat, dictionary : Nat] /\ k.held \in {0, serial} /\ k.dictionary = k.held

\* replace_attached_dict, for the one-shot compressor.
LEMMA CompressorFacts ==
  ASSUME NEW k, NEW old, Keeps(k, old), NEW serial
  PROVE  Keeps(CompressorAfterReplacing(k, old, serial), serial)
<1> DEFINE none == [held |-> 0, dictionary |-> 0]
<1>1. Keeps(none, serial)
  BY Zenon DEF Keeps
<1>2. CASE old # 0 /\ old # serial /\ k.held = old
  BY <1>1, <1>2, Zenon DEF CompressorAfterReplacing
<1>3. CASE ~(old # 0 /\ old # serial /\ k.held = old)
  <2>1. CompressorAfterReplacing(k, old, serial) = k
    BY <1>3, Zenon DEF CompressorAfterReplacing
  <2>2. k.held \in {0, serial}
    BY <1>3, Zenon DEF Keeps
  <2> QED BY <2>1, <2>2, Zenon DEF Keeps
<1> QED BY <1>2, <1>3, Zenon
=============================================================================
