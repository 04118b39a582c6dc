----------------------- MODULE StreamingEncoder_proofs -----------------------
(***************************************************************************)
(* Whatever the caller writes, flushes, finishes or drops and whichever    *)
(* call of a drain fails, a drain holds the frame of the bytes reported    *)
(* taken, a failed context stays failed, and a write stops short only for  *)
(* a pledge or a failed block; for every block size, pledge and input.     *)
(***************************************************************************)
EXTENDS StreamingEncoder, CompressionContext_proofs

\* The types of the variables.
Types ==
  /\ context \in Contexts /\ drain \in Drains /\ working \in BOOLEAN /\ reported \in Seq(Byte)
  /\ offered \in Nat

\* While an encoder is at work its context has failed or stands in the frame
\* of the bytes reported taken.
AtWork == working => Sound(context, << >>, drain, reported)

\* Between encoders the context is ready for the next frame.
AtRest == ~working => context.started = FALSE /\ context.consumed = 0 /\ context.pledged = Unknown

\* A finish that answered Ok left the whole frame on the drain.
Done == answer = "finished" => ~working /\ IsFrameOf(drain.bytes, reported)

Inv == Types /\ AtWork /\ AtRest /\ Done

\* Nothing comes before a drain's own bytes.
LEMMA NothingBefore ==
  ASSUME NEW d \in Drains
  PROVE  << >> \in Seq(Pieces) /\ << >> \o d.bytes = d.bytes
<1>1. d.bytes \in Seq(Pieces)
  BY Zenon DEF Drains
<1>2. ASSUME NEW A, NEW s \in Seq(A) PROVE << >> \o s = s
  OBVIOUS
<1> QED BY <1>1, <1>2

\* A context at rest stands in the empty frame of a new drain.
LEMMA NewDrain ==
  ASSUME NEW c \in Contexts, c.started = FALSE, c.consumed = 0, NEW bad \in Nat
  PROVE  Drain(bad) \in Drains /\ Sound(c, << >>, Drain(bad), << >>)
<1> DEFINE d == Drain(bad)
<1>1. d.bytes = << >> /\ d \in Drains
  BY DEF Drain, Drains
<1>2. << >> \o d.bytes = << >>
  BY <1>1
<1>3. IsOpenFrame(<< >>)
  BY DEF IsOpenFrame
<1>4. InFrame(c, << >>, << >>)
  BY <1>3, Zenon DEF InFrame
<1>5. pending_len(c) = 0 /\ BlockCapacity > 0
  BY CapacityAssumption DEF pending_len
<1>6. Sound(c, << >>, d, << >>)
  BY <1>2, <1>4, <1>5, Zenon DEF Sound
<1> QED BY <1>1, <1>6, Zenon

\* The invariant of every initial state.
LEMMA InitHolds == Init => Inv
<1> SUFFICES ASSUME Init PROVE Inv
  BY Zenon
<1>1. NewContext \in Contexts /\ Drain(0) \in Drains
  BY DEF NewContext, Contexts, Drain, Drains, Unknown, NoDictionary
<1>2. NewContext.started = FALSE /\ NewContext.consumed = 0 /\ NewContext.pledged = Unknown
  BY Zenon DEF NewContext
<1>3. Types
  <2>1. << >> \in Seq(Byte) /\ 0 \in Nat /\ FALSE \in BOOLEAN
    OBVIOUS
  <2> QED BY <1>1, <2>1, Zenon DEF Init, Types
<1>4. AtWork /\ AtRest /\ Done
  BY <1>2, Zenon DEF Init, AtWork, AtRest, Done
<1> QED BY <1>3, <1>4, Zenon DEF Inv

\* A new encoder on a context at rest.
LEMMA WithContextHolds ==
  ASSUME Inv, NEW bad \in BadCalls, WithContext(bad)
  PROVE  Inv'
<1>1. bad \in Nat
  BY EncoderAssumption, Zenon
<1>2. context \in Contexts /\ context.started = FALSE /\ context.consumed = 0
  BY Zenon DEF Inv, Types, AtRest, WithContext
<1>3. Drain(bad) \in Drains /\ Sound(context, << >>, Drain(bad), << >>)
  BY <1>1, <1>2, NewDrain, Zenon
<1>4. Types'
  BY <1>3 DEF Inv, Types, WithContext
<1>5. AtWork' /\ AtRest' /\ Done'
  BY <1>3, Zenon DEF AtWork, AtRest, Done, WithContext
<1> QED BY <1>4, <1>5, Zenon DEF Inv

\* A size pledged before the frame is begun.
LEMMA PledgeHolds ==
  ASSUME Inv, NEW size \in Pledges, SetPledgedContentSize(size)
  PROVE  Inv'
<1>1. size \in Nat /\ context \in Contexts /\ drain \in Drains /\ working = TRUE /\ context' = set_pledged_content_size(context, size)
  BY EncoderAssumption, Zenon DEF Inv, Types, SetPledgedContentSize
<1>2. /\ context' \in Contexts /\ context'.errored = context.errored /\ context'.started = context.started
      /\ context'.pending = context.pending /\ context'.consumed = context.consumed
  BY <1>1, Zenon DEF set_pledged_content_size, Contexts
<1>3. context.started = TRUE => context' = context
  BY <1>1, Zenon DEF set_pledged_content_size, ensure_settable
<1>4. context.started \in BOOLEAN
  BY <1>1, Zenon DEF Contexts
<1>5. Sound(context, << >>, drain, reported)
  BY <1>1, Zenon DEF Inv, AtWork
<1>6. Sound(context', << >>, drain, reported)
  <2>1. CASE context.started = TRUE
    BY <1>3, <1>5, <2>1, Zenon
  <2>2. CASE context.started = FALSE
    <3>1. context.errored = FALSE => InFrame(context', << >> \o drain.bytes, reported)
      BY <1>2, <1>5, <2>2, Zenon DEF Sound, InFrame
    <3> QED BY <1>2, <1>5, <3>1, Zenon DEF Sound, pending_len
  <2> QED BY <1>4, <2>1, <2>2, Zenon
<1>7. drain' = drain /\ reported' = reported /\ working' = TRUE /\ offered' = offered /\ answer' # "finished"
  BY <1>1, Zenon DEF SetPledgedContentSize, ensure_settable
<1>8. Types'
  BY <1>2, <1>7, Zenon DEF Inv, Types
<1>9. AtWork' /\ AtRest' /\ Done'
  BY <1>6, <1>7, Zenon DEF AtWork, AtRest, Done
<1> QED BY <1>8, <1>9, Zenon DEF Inv

\* A write.
LEMMA WriteHolds ==
  ASSUME Inv, NEW n \in WriteLengths, Write(n)
  PROVE  Inv'
<1> DEFINE buf == [i \in 1 .. n |-> offered + i]
           r == write(context, drain, buf)
<1>1. n \in Nat /\ offered \in Nat /\ context \in Contexts /\ drain \in Drains /\ reported \in Seq(Byte) /\ working = TRUE
  BY EncoderAssumption, Zenon DEF Inv, Types, Write
<1>2. buf \in Seq(Byte)
  <2>1. \A i \in 1 .. n : offered + i \in Byte
    BY <1>1 DEF Byte
  <2> QED BY <1>1, <2>1
<1>3. /\ context' = r.c /\ drain' = r.d /\ answer' = r.code /\ reported' = reported \o SubSeq(buf, 1, r.taken)
      /\ working' = TRUE /\ offered' = offered + n
  BY <1>1, Zenon DEF Write
<1> HIDE DEF buf
<1>4. AfterWrite(context, << >>, reported, buf, r)
  <2>1. Sound(context, << >>, drain, reported) /\ << >> \in Seq(Pieces)
    BY <1>1, NothingBefore, Zenon DEF Inv, AtWork
  <2> QED BY <1>1, <1>2, <2>1, WriteFacts, Zenon
<1> HIDE DEF r
<1>5. /\ r.c \in Contexts /\ r.d \in Drains /\ r.taken \in 0 .. Len(buf) /\ r.code \in Codes
      /\ Sound(r.c, << >>, r.d, reported \o SubSeq(buf, 1, r.taken))
  BY <1>4, Zenon DEF AfterWrite
<1>6. reported \o SubSeq(buf, 1, r.taken) \in Seq(Byte)
  <2>1. SubSeq(buf, 1, r.taken) \in Seq(Byte)
    BY <1>2, <1>5, CutFacts, Zenon
  <2> QED BY <1>1, <2>1, Joined, Zenon
<1>7. offered + n \in Nat /\ r.code # "finished"
  BY <1>1, <1>5 DEF Codes
<1>8. Types'
  BY <1>3, <1>5, <1>6, <1>7, Zenon DEF Types
<1>9. AtWork' /\ AtRest' /\ Done'
  BY <1>3, <1>5, <1>7, Zenon DEF AtWork, AtRest, Done
<1> QED BY <1>8, <1>9, Zenon DEF Inv

\* A flush.
LEMMA FlushHolds ==
  ASSUME Inv, Flush
  PROVE  Inv'
<1> DEFINE r == flush(context, drain)
<1>1. context \in Contexts /\ drain \in Drains /\ reported \in Seq(Byte) /\ working = TRUE /\ offered \in Nat
  BY Zenon DEF Inv, Types, Flush
<1>2. /\ context' = r.c /\ drain' = r.d /\ answer' = r.code /\ reported' = reported
      /\ working' = TRUE /\ offered' = offered
  BY <1>1, Zenon DEF Flush
<1>3. AfterFlush(context, << >>, reported, r)
  <2>1. Sound(context, << >>, drain, reported) /\ << >> \in Seq(Pieces)
    BY <1>1, NothingBefore, Zenon DEF Inv, AtWork
  <2> QED BY <1>1, <2>1, FlushFacts, Zenon
<1> HIDE DEF r
<1>4. r.c \in Contexts /\ r.d \in Drains /\ r.code # "finished" /\ Sound(r.c, << >>, r.d, reported)
  BY <1>3, Zenon DEF AfterFlush, Codes
<1>5. Types'
  BY <1>1, <1>2, <1>4, Zenon DEF Types
<1>6. AtWork' /\ AtRest' /\ Done'
  BY <1>2, <1>4, Zenon DEF AtWork, AtRest, Done
<1> QED BY <1>5, <1>6, Zenon DEF Inv

\* The end of an encoder by finish.
LEMMA FinishHolds ==
  ASSUME Inv, Finish
  PROVE  Inv'
<1> DEFINE r == finish_frame(context, drain)
<1>1. context \in Contexts /\ drain \in Drains /\ reported \in Seq(Byte) /\ working = TRUE /\ offered \in Nat
  BY Zenon DEF Inv, Types, Finish
<1>2. /\ context' = abandon_frame(r.c) /\ drain' = r.d
      /\ answer' = (IF r.code = "ok" THEN "finished" ELSE r.code)
      /\ working' = FALSE /\ reported' = reported /\ offered' = offered
  BY Zenon DEF Finish
<1>3. AfterEnd(context, << >>, reported, r)
  <2>1. Sound(context, << >>, drain, reported) /\ << >> \in Seq(Pieces)
    BY <1>1, NothingBefore, Zenon DEF Inv, AtWork
  <2> QED BY <1>1, <2>1, FinishFacts, Zenon
<1> HIDE DEF r
<1>4. r.c \in Contexts /\ r.d \in Drains /\ r.code \in Codes
  BY <1>3, Zenon DEF AfterEnd
<1>5. r.code = "ok" => IsFrameOf(r.d.bytes, reported)
  <2>1. r.code = "ok" => IsFrameOf(<< >> \o r.d.bytes, reported)
    BY <1>3, Zenon DEF AfterEnd
  <2> QED BY <1>4, <2>1, NothingBefore, Zenon
<1>6. /\ abandon_frame(r.c) \in Contexts /\ abandon_frame(r.c).started = FALSE
      /\ abandon_frame(r.c).consumed = 0 /\ abandon_frame(r.c).pledged = Unknown
  BY <1>4, AbandonFacts, Zenon
<1>7. Types'
  BY <1>1, <1>2, <1>4, <1>6, Zenon DEF Types
<1>8. AtWork' /\ AtRest'
  BY <1>2, <1>6, Zenon DEF AtWork, AtRest
<1>9. Done'
  BY <1>2, <1>4, <1>5, Zenon DEF Done, Codes
<1> QED BY <1>7, <1>8, <1>9, Zenon DEF Inv

\* The end of an encoder by Drop.
LEMMA DropHolds ==
  ASSUME Inv, Drop
  PROVE  Inv'
<1>1. context \in Contexts
  BY Zenon DEF Inv, Types
<1>2. /\ abandon_frame(context) \in Contexts /\ abandon_frame(context).started = FALSE
      /\ abandon_frame(context).consumed = 0 /\ abandon_frame(context).pledged = Unknown
  BY <1>1, AbandonFacts, Zenon
<1>3. Types'
  BY <1>2, Zenon DEF Inv, Types, Drop
<1>4. AtWork' /\ AtRest' /\ Done'
  BY <1>2, Zenon DEF AtWork, AtRest, Done, Drop
<1> QED BY <1>3, <1>4, Zenon DEF Inv

\* Every step keeps the invariant.
LEMMA NextHolds == Inv /\ [Next]_vars => Inv'
<1> SUFFICES ASSUME Inv, [Next]_vars PROVE Inv'
  BY Zenon
<1>1. CASE UNCHANGED vars
  BY <1>1, Zenon DEF vars, Inv, Types, AtWork, AtRest, Done
<1>2. ASSUME NEW bad \in BadCalls, WithContext(bad) PROVE Inv'
  BY <1>2, WithContextHolds, Zenon
<1>3. ASSUME NEW size \in Pledges, SetPledgedContentSize(size) PROVE Inv'
  BY <1>3, PledgeHolds, Zenon
<1>4. ASSUME NEW n \in WriteLengths, Write(n) PROVE Inv'
  BY <1>4, WriteHolds, Zenon
<1>5. CASE Flush
  BY <1>5, FlushHolds, Zenon
<1>6. CASE Finish
  BY <1>6, FinishHolds, Zenon
<1>7. CASE Drop
  BY <1>7, DropHolds, Zenon
<1> QED BY <1>1, <1>2, <1>3, <1>4, <1>5, <1>6, <1>7, Zenon DEF Next

\* The invariant, over every sequence of calls on one context: an encoder at
\* work stands in the frame of what it reported taken, or has failed.
THEOREM InvariantTheorem == Spec => []Inv
BY InitHolds, NextHolds, PTL DEF Spec

\* What the invariant says of the drain.
LEMMA InvGivesFrame ==
  ASSUME Inv
  PROVE  DrainHoldsItsFrame
<1>1. ASSUME working, ~context.errored
      PROVE  /\ IsOpenFrame(drain.bytes) /\ (context.started <=> drain.bytes # << >>)
             /\ Contents(drain.bytes) \o SubSeq(context.pending, 1, pending_len(context)) = reported
             /\ pending_len(context) < BlockCapacity /\ context.consumed = Len(reported)
  <2>1. context \in Contexts /\ drain \in Drains /\ Sound(context, << >>, drain, reported)
    BY <1>1, Zenon DEF Inv, Types, AtWork
  <2>2. /\ context.errored = FALSE /\ context.started \in BOOLEAN
        /\ context.pending \in Seq(Byte) /\ context.hashed \in Seq(Byte)
    BY <1>1, <2>1, Zenon DEF Contexts
  <2>3. << >> \o drain.bytes = drain.bytes
    BY <2>1, NothingBefore, Zenon
  <2>4. InFrame(context, drain.bytes, reported) /\ pending_len(context) < BlockCapacity /\ context.consumed = Len(reported)
    BY <2>1, <2>2, <2>3, Zenon DEF Sound
  <2>5. IsOpenFrame(drain.bytes) /\ (context.started <=> drain.bytes # << >>)
    BY <2>4, Zenon DEF InFrame
  <2>6. Contents(drain.bytes) \o SubSeq(context.pending, 1, pending_len(context)) = reported
    <3>1. CASE context.started = TRUE
      <4>1. Contents(drain.bytes) = context.hashed /\ context.hashed \o context.pending = reported
        BY <2>4, <3>1, Zenon DEF InFrame
      <4>2. SubSeq(context.pending, 1, pending_len(context)) = context.pending
        BY <2>2, <3>1 DEF pending_len
      <4> QED BY <4>1, <4>2, Zenon
    <3>2. CASE context.started = FALSE
      <4>1. reported = << >> /\ drain.bytes = << >>
        BY <2>4, <3>2, Zenon DEF InFrame
      <4>2. Contents(<< >>) = << >>
        BY ContentsFacts, <2>1, <4>1, Zenon DEF Drains
      <4>3. SubSeq(context.pending, 1, pending_len(context)) = << >>
        BY <2>2, <3>2 DEF pending_len
      <4> QED BY <4>1, <4>2, <4>3
    <3> QED BY <2>2, <3>1, <3>2, Zenon
  <2> QED BY <2>4, <2>5, <2>6, Zenon
<1> QED BY <1>1, Zenon DEF DrainHoldsItsFrame, Inv, Done

(***************************************************************************)
(* DrainHoldsItsFrame: header, blocks and pending bytes of a frame at work *)
(* are the bytes the writes reported, also when the frame before it was    *)
(* dropped half way, and a finish that answered Ok closed that frame with  *)
(* its checksum and its pledged size (write, flush, finish, Drop).         *)
(***************************************************************************)
THEOREM DrainTheorem == Spec => []DrainHoldsItsFrame
BY InvariantTheorem, InvGivesFrame, PTL

\* One step from a failed context.
FailedStep ==
  context.errored => /\ context'.errored
                     /\ drain'.bytes \in {drain.bytes, << >>}
                     /\ answer' \in {"sticky", "none"}

\* A step from a failed context writes nothing and answers no Ok.
LEMMA FailureStep ==
  ASSUME Inv, Next
  PROVE  FailedStep
<1> SUFFICES ASSUME context.errored
             PROVE  /\ context'.errored /\ drain'.bytes \in {drain.bytes, << >>} /\ answer' \in {"sticky", "none"}
  BY Zenon DEF FailedStep
<1>1. context \in Contexts
  BY Zenon DEF Inv, Types
<1>2. abandon_frame(context).errored
  BY <1>1, AbandonFacts, Zenon
<1>3. ASSUME NEW bad \in BadCalls, WithContext(bad)
      PROVE  /\ context'.errored /\ drain'.bytes \in {drain.bytes, << >>} /\ answer' \in {"sticky", "none"}
  BY <1>3, Zenon DEF WithContext, Drain
<1>4. ASSUME NEW size \in Pledges, SetPledgedContentSize(size)
      PROVE  /\ context'.errored /\ drain'.bytes \in {drain.bytes, << >>} /\ answer' \in {"sticky", "none"}
  BY <1>4, Zenon DEF SetPledgedContentSize, set_pledged_content_size, ensure_settable
<1>5. ASSUME NEW n \in WriteLengths, Write(n)
      PROVE  /\ context'.errored /\ drain'.bytes \in {drain.bytes, << >>} /\ answer' \in {"sticky", "none"}
  BY <1>5, Zenon DEF Write, write, Answer
<1>6. CASE Flush
  BY <1>6, Zenon DEF Flush, flush, Answer
<1>7. CASE Finish
  BY <1>2, <1>7, Zenon DEF Finish, finish_frame, Answer
<1>8. CASE Drop
  BY <1>2, <1>8, Zenon DEF Drop
<1> QED BY <1>3, <1>4, <1>5, <1>6, <1>7, <1>8, Zenon DEF Next

(***************************************************************************)
(* FailureSticks: a context whose drain refused a write reports that to    *)
(* every later call and writes nothing more, through finish, Drop and new  *)
(* encoders (fail, abandon_frame).                                         *)
(***************************************************************************)
THEOREM FailureTheorem == Spec => FailureSticks
<1>1. Inv /\ [Next]_vars => [FailedStep]_vars
  BY FailureStep, Zenon
<1>2. Spec => [][FailedStep]_vars
  BY <1>1, InvariantTheorem, PTL DEF Spec
<1> QED BY <1>2, Zenon DEF FailureSticks, FailedStep
\* What a write may take of n bytes.
Room(n) ==
  IF context.pledged = Unknown \/ n <= context.pledged - context.consumed THEN n
  ELSE context.pledged - context.consumed

\* A write that answered Ok and no block of which failed took that much.
TakingStep ==
  \A n \in WriteLengths \ {0} :
    Write(n) /\ answer' = "ok" /\ context'.errored = FALSE => Len(reported') = Len(reported) + Room(n)

\* A write from a state of the invariant.
LEMMA TakingHolds ==
  ASSUME Inv
  PROVE  TakingStep
<1> SUFFICES ASSUME NEW n \in WriteLengths \ {0}, Write(n), answer' = "ok", context'.errored = FALSE
             PROVE  Len(reported') = Len(reported) + Room(n)
  BY Zenon DEF TakingStep
<1> DEFINE buf == [i \in 1 .. n |-> offered + i]
           r == write(context, drain, buf)
<1>1. n \in Nat \ {0} /\ offered \in Nat /\ context \in Contexts /\ drain \in Drains /\ reported \in Seq(Byte) /\ working = TRUE
  BY EncoderAssumption, Zenon DEF Inv, Types, Write
<1>2. buf \in Seq(Byte) /\ Len(buf) = n /\ buf # << >>
  <2>1. \A i \in 1 .. n : offered + i \in Byte
    BY <1>1 DEF Byte
  <2> QED BY <1>1, <2>1
<1>3. context' = r.c /\ answer' = r.code /\ reported' = reported \o SubSeq(buf, 1, r.taken)
  BY <1>1, Zenon DEF Write
<1> HIDE DEF buf
<1>4. AfterWrite(context, << >>, reported, buf, r) /\ TakesAll(context, buf, r)
  <2>1. Sound(context, << >>, drain, reported) /\ << >> \in Seq(Pieces)
    BY <1>1, NothingBefore, Zenon DEF Inv, AtWork
  <2> QED BY <1>1, <1>2, <2>1, WriteFacts, Zenon
<1>5. r.code = "ok" => ~context.errored /\ ~(context.pledged # Unknown /\ context.consumed >= context.pledged)
  BY <1>2, Zenon DEF write, Answer
<1> HIDE DEF r
<1>6. r.taken = Len(Accepted(context, buf)) /\ r.taken \in 0 .. Len(buf)
  BY <1>2, <1>3, <1>4, Zenon DEF TakesAll, AfterWrite
<1>7. Len(Accepted(context, buf)) = Room(n)
  <2>1. context.consumed \in Nat /\ context.pledged \in Nat \cup {Unknown}
    BY <1>1, Zenon DEF Contexts
  <2>2. CASE context.pledged = Unknown
    BY <1>2, <2>2, Zenon DEF Accepted, Room
  <2>3. CASE context.pledged # Unknown
    <3> DEFINE m == Min({Len(buf), context.pledged - context.consumed})
    <3>1. context.pledged - context.consumed \in Nat
      BY <1>3, <1>5, <2>1, <2>3
    <3>2. m = Room(n) /\ m \in 0 .. Len(buf)
      BY <1>1, <1>2, <2>3, <3>1, MinTwo DEF Room
    <3>3. Accepted(context, buf) = SubSeq(buf, 1, m)
      BY <2>3, Zenon DEF Accepted
    <3> HIDE DEF m
    <3>4. Len(SubSeq(buf, 1, m)) = m
      BY <1>2, <3>2, CutFacts
    <3> QED BY <3>2, <3>3, <3>4, Zenon
  <2> QED BY <2>2, <2>3, Zenon
<1>8. SubSeq(buf, 1, r.taken) \in Seq(Byte) /\ Len(SubSeq(buf, 1, r.taken)) = r.taken
  BY <1>2, <1>6, CutFacts
<1>9. Len(reported') = Len(reported) + r.taken
  BY <1>1, <1>3, <1>8, Joined
<1> QED BY <1>6, <1>7, <1>9, Zenon

(***************************************************************************)
(* write stops short only for its pledge or a failed block: one that       *)
(* answers Ok and leaves the context whole has taken every byte it was     *)
(* brought, up to the size pledged, so its loop came to the end of them.   *)
(***************************************************************************)
THEOREM TakingTheorem == Spec => [][TakingStep]_vars
<1>1. Inv /\ [Next]_vars => [TakingStep]_vars
  BY TakingHolds, Zenon
<1> QED BY <1>1, InvariantTheorem, PTL DEF Spec
=============================================================================
