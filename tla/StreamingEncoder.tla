-------------------------- MODULE StreamingEncoder --------------------------
(***************************************************************************)
(* The Rust streaming encoder (encoding/streaming_encoder.rs): a drain and *)
(* a compression context borrowed for one frame, so that frame after frame *)
(* runs on one context and each goes to a drain of its own.  A drain may   *)
(* fail one of its calls; an encoder may be dropped mid-frame.             *)
(***************************************************************************)
EXTENDS CompressionContext

CONSTANTS
  WriteLengths,   \* how many bytes a write may bring
  Pledges,        \* the sizes a caller may pledge
  BadCalls,       \* which call of a drain fails; 0: none of them
  MaxBytes,       \* bound: bytes written in all
  MaxEncoders     \* bound: encoders made on the context

ASSUME EncoderAssumption ==
  /\ WriteLengths \subseteq Nat /\ Pledges \subseteq Nat /\ BadCalls \subseteq Nat
  /\ MaxBytes \in Nat /\ MaxEncoders \in Nat

VARIABLES
  context,    \* the borrowed context
  drain,      \* the drain of the encoder at work
  working,    \* there is an encoder at work
  reported,   \* the bytes its writes have reported taken
  answer,     \* what the last call answered
  offered,    \* how many bytes the caller has offered in all
  encoders

vars == <<context, drain, working, reported, answer, offered, encoders>>

Init ==
  /\ context = NewContext /\ drain = Drain(0) /\ working = FALSE /\ reported = << >>
  /\ answer = "none" /\ offered = 0 /\ encoders = 0

\* StreamingEncoder::with_context on the borrowed context.
WithContext(bad) ==
  /\ ~working /\ encoders < MaxEncoders
  /\ working' = TRUE /\ drain' = Drain(bad) /\ reported' = << >> /\ encoders' = encoders + 1
  /\ answer' = "none"
  /\ UNCHANGED <<context, offered>>

SetPledgedContentSize(size) ==
  /\ working
  /\ context' = set_pledged_content_size(context, size) /\ answer' = ensure_settable(context)
  /\ UNCHANGED <<drain, working, reported, offered, encoders>>

Write(n) ==
  /\ working /\ offered + n <= MaxBytes
  /\ LET buf == [i \in 1 .. n |-> offered + i]
         wrote == write(context, drain, buf)
     IN /\ context' = wrote.c /\ drain' = wrote.d /\ answer' = wrote.code
        /\ reported' = reported \o SubSeq(buf, 1, wrote.taken)
  /\ offered' = offered + n
  /\ UNCHANGED <<working, encoders>>

Flush ==
  /\ working
  /\ LET flushed == flush(context, drain)
     IN context' = flushed.c /\ drain' = flushed.d /\ answer' = flushed.code
  /\ UNCHANGED <<working, reported, offered, encoders>>

\* finish consumes the encoder, whose Drop abandons what is left of the frame.
Finish ==
  /\ working
  /\ LET finished == finish_frame(context, drain)
     IN /\ context' = abandon_frame(finished.c) /\ drain' = finished.d
        /\ answer' = IF finished.code = "ok" THEN "finished" ELSE finished.code
  /\ working' = FALSE
  /\ UNCHANGED <<reported, offered, encoders>>

Drop ==
  /\ working /\ working' = FALSE
  /\ context' = abandon_frame(context) /\ answer' = "none"
  /\ UNCHANGED <<drain, reported, offered, encoders>>

Next ==
  \/ \E bad \in BadCalls : WithContext(bad)
  \/ \E size \in Pledges : SetPledgedContentSize(size)
  \/ \E n \in WriteLengths : Write(n)
  \/ Flush
  \/ Finish
  \/ Drop

Spec == Init /\ [][Next]_vars

-----------------------------------------------------------------------------
(* Properties. *)

(***************************************************************************)
(* What a drain holds is the frame of the bytes its writes reported taken: *)
(* while it goes on, the header first and once, blocks within the block    *)
(* size, and the pending bytes after them; after a finish that answered    *)
(* Ok, the whole frame, with the checksum of exactly those bytes and the   *)
(* size pledged.  A frame abandoned in the context before (Drop) leaves    *)
(* nothing behind in it.                                                   *)
(***************************************************************************)
DrainHoldsItsFrame ==
  /\ working /\ ~context.errored =>
       /\ IsOpenFrame(drain.bytes) /\ (context.started <=> drain.bytes # << >>)
       /\ Contents(drain.bytes) \o SubSeq(context.pending, 1, pending_len(context)) = reported
       /\ pending_len(context) < BlockCapacity /\ context.consumed = Len(reported)
  /\ answer = "finished" => IsFrameOf(drain.bytes, reported)

(***************************************************************************)
(* "A frame that fails leaves the context failed: every later call reports *)
(* that failure" (CompressionContext): once a drain has refused a write,   *)
(* also one inside a write call that answered Ok, nothing more is written  *)
(* to that drain or to the drains of later encoders, and no call that      *)
(* would write answers Ok.                                                 *)
(***************************************************************************)
FailureSticks ==
  [][context.errored =>
       /\ context'.errored
       /\ drain'.bytes \in {drain.bytes, << >>}
       /\ answer' \in {"sticky", "none"}]_vars
=============================================================================
