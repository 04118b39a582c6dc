---------------------------- MODULE OffsetCodes ----------------------------
(***************************************************************************)
(* The conversions between a match's offset and its code, each with the    *)
(* history of the last three offsets it leaves: two for the encoder's      *)
(* bands, one for its optimal parser, two for the decoder's loops.         *)
(***************************************************************************)
EXTENDS Integers

CONSTANT MaxU32   \* the largest u32, what 0 wraps to when decremented

U32 == 0..MaxU32
History == [0..2 -> U32]
Usable == [0..2 -> 1..MaxU32]
DefaultHistory == [i \in 0..2 |-> IF i = 0 THEN 1 ELSE IF i = 1 THEN 4 ELSE 8]

wrapping_dec(x) == IF x = 0 THEN MaxU32 ELSE x - 1
saturating_add3(x) == IF x + 3 > MaxU32 THEN MaxU32 ELSE x + 3

Rotate(hist, actual) == [hist EXCEPT ![2] = hist[1], ![1] = hist[0], ![0] = actual]
Swap(hist, actual) == [hist EXCEPT ![1] = hist[0], ![0] = actual]

-----------------------------------------------------------------------------
(* The encoder's conversions.  Each returns the code and the next history.  *)

\* The code of an offset, lit0 telling whether no literals precede the match.
OffsetCode(o, lit0, hist) ==
    IF ~lit0
    THEN IF o = hist[0] THEN 1
         ELSE IF o = hist[1] THEN 2
         ELSE IF o = hist[2] THEN 3 ELSE o + 3
    ELSE IF o = hist[1] THEN 1
         ELSE IF o = hist[2] THEN 2
         ELSE IF o = wrapping_dec(hist[0]) /\ hist[0] > 1 THEN 3 ELSE o + 3

encode_offset_with_history(o, lit0, hist) ==
    LET code == OffsetCode(o, lit0, hist)
    IN [code |-> code,
        hist |-> IF ~lit0 /\ code = 1 THEN hist
                 ELSE IF (lit0 /\ code = 1) \/ (~lit0 /\ code = 2) THEN Swap(hist, o)
                 ELSE Rotate(hist, o)]

\* A fast conversion that forgets that no literals shift the repeat codes.
encode_offset_with_history_fast_unshifted(o, lit0, hist) ==
    IF o = hist[0] THEN [code |-> 1, hist |-> hist]
    ELSE [code |-> o + 3, hist |-> Rotate(hist, o)]

encode_offset_with_history_fast(o, lit0, hist) ==
    IF ~lit0 /\ o = hist[0] THEN [code |-> 1, hist |-> hist]
    ELSE IF lit0 /\ o = hist[1] THEN [code |-> 1, hist |-> Swap(hist, o)]
    ELSE [code |-> o + 3, hist |-> Rotate(hist, o)]

\* The optimal parser's copy of the conversion.
encode_offset_with_reps(o, lit0, reps) ==
    LET code == IF ~lit0
                THEN CASE o = reps[0] -> 1
                       [] o # reps[0] /\ o = reps[1] -> 2
                       [] o # reps[0] /\ o # reps[1] /\ o = reps[2] -> 3
                       [] OTHER -> saturating_add3(o)
                ELSE CASE o = reps[1] -> 1
                       [] o # reps[1] /\ o = reps[2] -> 2
                       [] o # reps[1] /\ o # reps[2] /\ reps[0] > 1 /\ o = reps[0] - 1 -> 3
                       [] OTHER -> saturating_add3(o)
    IN [code |-> code,
        hist |-> CASE ~lit0 /\ code = 1 -> reps
                   [] (~lit0 /\ code = 2) \/ (lit0 /\ code = 1) -> Swap(reps, o)
                   [] OTHER -> Rotate(reps, o)]

\* The field of an offset code: how many bits follow the symbol and what they
\* add to its base.  Two stands for every width of two bits or more, whose base
\* and bits are only ever added up.
encode_offset(v) ==
    LET bits == IF v >= 4 THEN 2 ELSE IF v >= 2 THEN 1 ELSE 0
        base == IF v >= 4 THEN 4 ELSE IF v >= 2 THEN 2 ELSE 1
    IN [bits |-> bits, base |-> base, extra |-> v - base]

-----------------------------------------------------------------------------
(* The decoder's two ways back, the long pipeline's and the short loop's.   *)

do_offset_history(v, lit0, hist) ==
    LET index == v - 1 + (IF lit0 THEN 1 ELSE 0)
        repeated == IF index = 3 THEN wrapping_dec(hist[0]) ELSE hist[index]
    IN IF v >= 4 THEN [offset |-> v - 3, hist |-> Rotate(hist, v - 3)]
       ELSE IF v = 0 THEN [offset |-> 0, hist |-> hist]
       ELSE IF index = 0 THEN [offset |-> hist[0], hist |-> hist]
       ELSE IF index = 1 THEN [offset |-> repeated, hist |-> Swap(hist, repeated)]
       ELSE [offset |-> repeated, hist |-> Rotate(hist, repeated)]

decode_resolved(of, lit0, hist) ==
    LET offset == of.base + of.extra - 3
        first == IF lit0 THEN hist[1] ELSE hist[0]
        index == 1 + (IF lit0 THEN 1 ELSE 0) + of.extra
        repeated == IF index = 3 THEN wrapping_dec(hist[0]) ELSE hist[index]
    IN IF of.bits > 1 THEN [offset |-> offset, hist |-> Rotate(hist, offset)]
       ELSE IF of.bits = 0
            THEN [offset |-> first, hist |-> IF lit0 THEN Swap(hist, first) ELSE hist]
       ELSE [offset |-> repeated,
             hist |-> IF index # 1 THEN Rotate(hist, repeated) ELSE Swap(hist, repeated)]
=============================================================================
