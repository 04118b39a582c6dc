------------------------ MODULE DecodeBuffer_proofs ------------------------
(***************************************************************************)
(* The decode buffer hands out the frame in order, keeps its window, and   *)
(* gives every sequence its LZ77 meaning, for any bytes, dictionary,       *)
(* window sizes, block sizes and lengths.                                  *)
(***************************************************************************)
EXTENDS DecodeBuffer, SequenceTheorems, TLAPS

\* The live bytes are the end of the frame, in every phase.
BufferEndsFrame ==
  /\ Len(buffer) <= Len(frame)
  /\ \A i \in 1 .. Len(buffer) : buffer[i] = frame[Len(frame) - Len(buffer) + i]

\* What was handed out is the frame up to the bytes that wait, as long as the
\* caller does not mix the calls.
OutputBeginsFrame ==
  ~ MixedCalls =>
     /\ Len(output) = Len(frame) - undelivered
     /\ \A i \in 1 .. Len(output) : output[i] = frame[i]

\* A block in progress has its checkpoint behind everything handed out, and a
\* block's ceiling; between its checkpoint and now it has counted what it wrote.
BlockInProgress ==
  /\ total_output_counter = Len(frame)
  /\ newest <= Len(buffer)
  /\ phase = "block" =>
       /\ newest = 0
       /\ delivered <= block.len /\ block.len <= Len(buffer)
       /\ block.total + (Len(buffer) - block.len) = total_output_counter
       /\ ceiling = block.len + block_maximum
       /\ block.literals <= block_maximum

\* The window is kept while blocks may come, and no more once all is taken.
Windowed ==
  phase \in {"open", "block"} =>
    /\ Len(buffer) >= window_size \/ Len(buffer) >= Len(frame)
    /\ undelivered = 0 => Len(buffer) <= window_size

\* The digest has seen what was handed out; bytes wait, and a block is decoded,
\* only under the frame's own setting; and a digest that was written to is known to have been.
Digested ==
  /\ checks => hash = output
  /\ checks /\ (buffer # << >> \/ phase = "block") => compute_hash
  /\ hash # << >> => hash_dirty

Inv ==
  /\ TypeOK /\ BufferEndsFrame /\ OutputBeginsFrame /\ BlockInProgress /\ Windowed /\ Digested

-----------------------------------------------------------------------------
(* Sequences                                                                *)

\* The end of a sequence, position by position.
LEMMA SuffixFacts ==
  ASSUME NEW S, NEW s \in Seq(S), NEW n \in 0 .. Len(s)
  PROVE  /\ Suffix(s, n) \in Seq(S) /\ Len(Suffix(s, n)) = n
         /\ \A i \in 1 .. n : Suffix(s, n)[i] = s[Len(s) - n + i]
<1>1. Len(s) \in Nat /\ \A i \in 1 .. Len(s) : s[i] \in S
  BY LenProperties, ElementOfSeq, Zenon
<1> DEFINE m == Len(s) - n + 1
<1>2. m \in Int /\ Len(s) \in Int /\ \A i \in m .. Len(s) : s[i] \in S
  BY <1>1
<1>3. /\ SubSeq(s, m, Len(s)) \in Seq(S)
      /\ Len(SubSeq(s, m, Len(s))) = IF m <= Len(s) THEN Len(s) - m + 1 ELSE 0
      /\ \A i \in 1 .. Len(s) - m + 1 : SubSeq(s, m, Len(s))[i] = s[m + i - 1]
  <2> HIDE DEF m
  <2> QED BY <1>2, SubSeqProperties
<1>4. Len(s) - m + 1 = n
  BY <1>1
<1>5. \A i \in 1 .. n : m + i - 1 = Len(s) - n + i
  BY <1>1
<1> QED BY <1>1, <1>3, <1>4, <1>5 DEF Suffix

\* The beginning of a sequence.
LEMMA PrefixFacts ==
  ASSUME NEW S, NEW s \in Seq(S), NEW n \in 0 .. Len(s)
  PROVE  /\ SubSeq(s, 1, n) \in Seq(S) /\ Len(SubSeq(s, 1, n)) = n
         /\ \A i \in 1 .. n : SubSeq(s, 1, n)[i] = s[i]
<1>1. Len(s) \in Nat /\ \A i \in 1 .. Len(s) : s[i] \in S
  BY LenProperties, ElementOfSeq, Zenon
<1>2. \A i \in 1 .. n : s[i] \in S
  BY <1>1
<1>3. /\ SubSeq(s, 1, n) \in Seq(S)
      /\ Len(SubSeq(s, 1, n)) = IF 1 <= n THEN n - 1 + 1 ELSE 0
      /\ \A i \in 1 .. n - 1 + 1 : SubSeq(s, 1, n)[i] = s[1 + i - 1]
  BY <1>1, <1>2, SubSeqProperties
<1> QED BY <1>1, <1>3

\* A byte string is a sequence no longer than its bound.
LEMMA BytesFacts ==
  ASSUME NEW n \in Nat, NEW bytes \in Bytes(n)
  PROVE  bytes \in Seq(Byte) /\ Len(bytes) \in 0 .. n
<1>1. PICK k \in 0 .. n : bytes \in [1 .. k -> Byte]
  BY Zenon DEF Bytes
<1>2. bytes \in Seq(Byte) /\ Len(bytes) = k
  BY <1>1
<1> QED BY <1>1, <1>2, Zenon

-----------------------------------------------------------------------------
(* What the calls are made of                                               *)

\* Appending keeps the live bytes at the end of the frame, and what was handed
\* out at its beginning.
LEMMA WriteKeeps ==
  ASSUME Inv, NEW bytes \in Seq(Byte), Write(bytes), UNCHANGED <<delivered, output>>
  PROVE  /\ buffer' \in Seq(Byte) /\ Len(buffer') = Len(buffer) + Len(bytes)
         /\ frame' \in Seq(Byte) /\ Len(frame') = Len(frame) + Len(bytes)
         /\ total_output_counter' = Len(frame')
         /\ BufferEndsFrame' /\ OutputBeginsFrame'
<1>1. /\ buffer \in Seq(Byte) /\ frame \in Seq(Byte) /\ output \in Seq(Byte)
      /\ Len(buffer) \in Nat /\ Len(frame) \in Nat /\ Len(output) \in Nat /\ Len(bytes) \in Nat
      /\ delivered \in 0 .. Len(buffer)
  BY LenProperties, Zenon DEF Inv, TypeOK
<1>2. /\ buffer' = buffer \o bytes /\ frame' = frame \o bytes
      /\ total_output_counter' = total_output_counter + Len(bytes)
  BY Zenon DEF Write
<1>3. /\ buffer' \in Seq(Byte) /\ Len(buffer') = Len(buffer) + Len(bytes)
      /\ \A i \in 1 .. Len(buffer) + Len(bytes) :
            buffer'[i] = IF i <= Len(buffer) THEN buffer[i] ELSE bytes[i - Len(buffer)]
  BY <1>1, <1>2, ConcatProperties, Zenon
<1>4. /\ frame' \in Seq(Byte) /\ Len(frame') = Len(frame) + Len(bytes)
      /\ \A i \in 1 .. Len(frame) + Len(bytes) :
            frame'[i] = IF i <= Len(frame) THEN frame[i] ELSE bytes[i - Len(frame)]
  BY <1>1, <1>2, ConcatProperties, Zenon
<1>5. BufferEndsFrame'
  <2>1. ASSUME NEW i \in 1 .. Len(buffer')
        PROVE  buffer'[i] = frame'[Len(frame') - Len(buffer') + i]
    <3> DEFINE j == Len(frame) - Len(buffer) + i
    <3>1. /\ Len(frame') - Len(buffer') + i = j /\ j \in 1 .. Len(frame) + Len(bytes)
          /\ (j <= Len(frame) <=> i <= Len(buffer)) /\ j - Len(frame) = i - Len(buffer)
      BY <1>1, <1>3, <1>4 DEF Inv, BufferEndsFrame
    <3> HIDE DEF j
    <3>2. CASE i <= Len(buffer)
      <4>1. i \in 1 .. Len(buffer) /\ frame[j] = buffer[i]
        BY <1>1, <2>1, <3>2 DEF Inv, BufferEndsFrame, j
      <4> QED BY <1>3, <1>4, <2>1, <3>1, <3>2, <4>1, Zenon
    <3>3. CASE ~(i <= Len(buffer))
      BY <1>3, <1>4, <2>1, <3>1, <3>3, Zenon
    <3> QED BY <3>2, <3>3, Zenon
  <2>2. Len(buffer') <= Len(frame')
    BY <1>1, <1>3, <1>4 DEF Inv, BufferEndsFrame
  <2> QED BY <2>1, <2>2, Zenon DEF BufferEndsFrame
<1>6. OutputBeginsFrame'
  <2> SUFFICES ASSUME ~MixedCalls
               PROVE  /\ Len(output) = Len(frame') - (Len(buffer') - delivered)
                      /\ \A i \in 1 .. Len(output) : output[i] = frame'[i]
    BY Zenon DEF OutputBeginsFrame, undelivered
  <2>1. /\ Len(output) = Len(frame) - (Len(buffer) - delivered)
        /\ \A i \in 1 .. Len(output) : output[i] = frame[i]
    BY Zenon DEF Inv, OutputBeginsFrame, undelivered
  <2> QED BY <1>1, <1>3, <1>4, <2>1
<1> QED BY <1>1, <1>2, <1>3, <1>4, <1>5, <1>6, Zenon DEF Inv, BlockInProgress

\* release_delivered lets go of bytes that were handed out only, keeps the window
\* when told to, and then keeps no more once everything was handed out.
LEMMA ReleaseFacts ==
  ASSUME Inv, NEW d \in 0 .. Len(buffer), NEW keep_window \in BOOLEAN, Release(d, keep_window),
         UNCHANGED <<frame, window_size>>
  PROVE  /\ buffer' \in Seq(Byte) /\ delivered' \in 0 .. Len(buffer')
         /\ Len(buffer') \in 0 .. Len(buffer)
         /\ Len(buffer') - delivered' = Len(buffer) - d
         /\ BufferEndsFrame'
         /\ keep_window => /\ Len(buffer') = Len(buffer) \/ Len(buffer') >= window_size
                           /\ d = Len(buffer) => Len(buffer') <= window_size
<1> DEFINE r == released(d, keep_window)
<1>1. /\ buffer \in Seq(Byte) /\ frame \in Seq(Byte) /\ Len(buffer) \in Nat /\ Len(frame) \in Nat
      /\ window_size \in Nat
  BY LenProperties, DecodeBufferAssumption, Zenon DEF Inv, TypeOK
<1>2. /\ r \in 0 .. d
      /\ keep_window => /\ r = 0 \/ Len(buffer) - r >= window_size
                        /\ d = Len(buffer) => Len(buffer) - r <= window_size
  BY <1>1 DEF released, Min2, Max2
<1>3. buffer' = Suffix(buffer, Len(buffer) - r) /\ delivered' = d - r
  BY Zenon DEF Release
<1> HIDE DEF r
<1>4. Len(buffer) - r \in 0 .. Len(buffer)
  BY <1>1, <1>2
<1>5. /\ buffer' \in Seq(Byte) /\ Len(buffer') = Len(buffer) - r
      /\ \A i \in 1 .. Len(buffer') : buffer'[i] = buffer[Len(buffer) - (Len(buffer) - r) + i]
  <2> DEFINE m == Len(buffer) - r
  <2>1. m \in 0 .. Len(buffer) /\ buffer' = Suffix(buffer, m)
    BY <1>3, <1>4, Zenon
  <2> HIDE DEF m
  <2>2. /\ Suffix(buffer, m) \in Seq(Byte) /\ Len(Suffix(buffer, m)) = m
        /\ \A i \in 1 .. m : Suffix(buffer, m)[i] = buffer[Len(buffer) - m + i]
    BY <1>1, <2>1, SuffixFacts, Zenon
  <2> QED BY <2>1, <2>2, Zenon DEF m
<1>6. BufferEndsFrame'
  <2>1. ASSUME NEW i \in 1 .. Len(buffer')
        PROVE  buffer'[i] = frame[Len(frame) - Len(buffer') + i]
    <3>1. /\ r + i \in 1 .. Len(buffer) /\ Len(buffer) - (Len(buffer) - r) + i = r + i
          /\ Len(frame) - Len(buffer) + (r + i) = Len(frame) - Len(buffer') + i
      BY <1>1, <1>2, <1>5
    <3>2. buffer[r + i] = frame[Len(frame) - Len(buffer) + (r + i)]
      BY <3>1, Zenon DEF Inv, BufferEndsFrame
    <3> QED BY <1>5, <3>1, <3>2, Zenon
  <2>2. Len(buffer') <= Len(frame)
    BY <1>1, <1>2, <1>5 DEF Inv, BufferEndsFrame
  <2> QED BY <2>1, <2>2, Zenon DEF BufferEndsFrame
<1> QED BY <1>1, <1>2, <1>3, <1>5, <1>6

\* A piece of a sequence.
LEMMA PieceFacts ==
  ASSUME NEW S, NEW s \in Seq(S), NEW from \in Nat, NEW n \in Nat, from + n <= Len(s)
  PROVE  /\ SubSeq(s, from + 1, from + n) \in Seq(S) /\ Len(SubSeq(s, from + 1, from + n)) = n
         /\ \A i \in 1 .. n : SubSeq(s, from + 1, from + n)[i] = s[from + i]
<1>1. Len(s) \in Nat /\ \A i \in 1 .. Len(s) : s[i] \in S
  BY LenProperties, ElementOfSeq, Zenon
<1> DEFINE a == from + 1
           z == from + n
<1>2. a \in Int /\ z \in Int /\ \A i \in a .. z : s[i] \in S
  BY <1>1
<1>3. /\ z - a + 1 = n /\ (IF a <= z THEN z - a + 1 ELSE 0) = n
      /\ \A i \in 1 .. n : a + i - 1 = from + i
  BY <1>1
<1> HIDE DEF a, z
<1>4. /\ SubSeq(s, a, z) \in Seq(S) /\ Len(SubSeq(s, a, z)) = IF a <= z THEN z - a + 1 ELSE 0
      /\ \A i \in 1 .. z - a + 1 : SubSeq(s, a, z)[i] = s[a + i - 1]
  BY <1>2, SubSeqProperties
<1> QED BY <1>3, <1>4, Zenon DEF a, z

\* Handing out the next bytes that wait continues the output in order.
LEMMA HandOutKeeps ==
  ASSUME Inv, NEW d \in Seq(Byte), Len(d) <= undelivered,
         \A i \in 1 .. Len(d) : d[i] = buffer[delivered + i],
         NEW later, later = output \o d,
         /\ Len(output) = Len(frame) - undelivered
         /\ \A i \in 1 .. Len(output) : output[i] = frame[i]
  PROVE  /\ Len(later) = Len(frame) - (undelivered - Len(d))
         /\ \A i \in 1 .. Len(later) : later[i] = frame[i]
<1>1. /\ buffer \in Seq(Byte) /\ frame \in Seq(Byte) /\ output \in Seq(Byte)
      /\ Len(buffer) \in Nat /\ Len(frame) \in Nat /\ Len(output) \in Nat /\ Len(d) \in Nat
      /\ delivered \in 0 .. Len(buffer)
  BY LenProperties, Zenon DEF Inv, TypeOK
<1>2. /\ later \in Seq(Byte) /\ Len(later) = Len(output) + Len(d)
      /\ \A i \in 1 .. Len(output) + Len(d) :
            later[i] = IF i <= Len(output) THEN output[i] ELSE d[i - Len(output)]
  BY <1>1, ConcatProperties, Zenon
<1>3. ASSUME NEW i \in 1 .. Len(later) PROVE later[i] = frame[i]
  <2>1. CASE i <= Len(output)
    BY <1>1, <1>2, <1>3, <2>1
  <2>2. CASE ~(i <= Len(output))
    <3> DEFINE k == i - Len(output)
    <3>1. /\ k \in 1 .. Len(d) /\ delivered + k \in 1 .. Len(buffer)
          /\ Len(frame) - Len(buffer) + (delivered + k) = i
      BY <1>1, <1>2, <1>3, <2>2 DEF undelivered
    <3>2. later[i] = d[k]
      BY <1>1, <1>2, <1>3, <2>2, Zenon
    <3> HIDE DEF k
    <3>3. buffer[delivered + k] = frame[Len(frame) - Len(buffer) + (delivered + k)]
      BY <3>1, Zenon DEF Inv, BufferEndsFrame
    <3> QED BY <3>1, <3>2, <3>3, Zenon
  <2> QED BY <2>1, <2>2, Zenon
<1> QED BY <1>1, <1>2, <1>3, SMTT(30) DEF undelivered

-----------------------------------------------------------------------------
(* Matches                                                                  *)

\* How far into a period of n the j-th byte is.  Hidden where the arithmetic of
\* remainders is not wanted.
Turn(j, n) == j % n

\* Moving on by b within a period of n.
LEMMA ModShift ==
  ASSUME NEW n \in Nat \ {0}, NEW j \in Nat, NEW b \in 0 .. n - 1
  PROVE  /\ Turn(j, n) \in 0 .. n - 1
         /\ Turn(b + j, n) = IF Turn(j, n) + b < n THEN Turn(j, n) + b ELSE Turn(j, n) + b - n
<1> DEFINE q == j \div n
           r == j % n
           q1 == (b + j) \div n
           r1 == (b + j) % n
           e == IF r + b < n THEN 0 ELSE 1
           d == (q + e) - q1
<1>1. j = n * q + r /\ q \in Int /\ r \in 0 .. n - 1
  OBVIOUS
<1>2. b + j \in Nat
  OBVIOUS
<1>3. b + j = n * q1 + r1 /\ q1 \in Int /\ r1 \in 0 .. n - 1
  BY <1>2
<1> HIDE DEF q, r, q1, r1
<1>4. e \in {0, 1} /\ r + b - n * e \in 0 .. n - 1
  BY <1>1
<1>5. d \in Int /\ n * d = r1 - (r + b - n * e)
  BY <1>1, <1>3, <1>4
<1>6. r + b - n * e = IF r + b < n THEN r + b ELSE r + b - n
  BY <1>1
<1> HIDE DEF d, e
<1>7. (d >= 1 => n * d >= n) /\ (d <= -1 => n * d <= -n)
  BY <1>5
<1>8. d = 0
  BY <1>3, <1>4, <1>5, <1>7
<1>9. r1 = r + b - n * e
  BY <1>1, <1>3, <1>4, <1>5, <1>8
<1> QED BY <1>1, <1>6, <1>9, Zenon DEF r, r1, Turn

\* A whole period on, nothing has changed.
LEMMA ModPeriod ==
  ASSUME NEW n \in Nat \ {0}, NEW j \in Nat
  PROVE  Turn(n + j, n) = Turn(j, n)
<1> DEFINE q == j \div n
           r == j % n
           q1 == (n + j) \div n
           r1 == (n + j) % n
           d == (q + 1) - q1
<1>1. j = n * q + r /\ q \in Int /\ r \in 0 .. n - 1
  OBVIOUS
<1>2. n + j \in Nat
  OBVIOUS
<1>3. n + j = n * q1 + r1 /\ q1 \in Int /\ r1 \in 0 .. n - 1
  BY <1>2
<1> HIDE DEF q, r, q1, r1
<1>4. d \in Int /\ n * d = r1 - r
  BY <1>1, <1>3
<1> HIDE DEF d
<1>5. (d >= 1 => n * d >= n) /\ (d <= -1 => n * d <= -n)
  BY <1>4
<1>6. d = 0
  BY <1>1, <1>3, <1>4, <1>5
<1>7. r1 = r
  BY <1>1, <1>3, <1>4, <1>6
<1> QED BY <1>7, Zenon DEF r, r1, Turn

\* Within the first period nothing turns.
LEMMA FirstTurn ==
  ASSUME NEW n \in Nat \ {0}, NEW j \in 0 .. n - 1
  PROVE  Turn(j, n) = j
<1>1. j = n * (j \div n) + (j % n) /\ j \div n \in Int /\ j % n \in 0 .. n - 1
  OBVIOUS
<1> DEFINE q == j \div n
           r == j % n
<1>2. j = n * q + r /\ q \in Int /\ r \in 0 .. n - 1
  BY <1>1, Zenon
<1> HIDE DEF q, r
<1>3. (q >= 1 => n * q >= n) /\ (q <= -1 => n * q <= -n)
  BY <1>2
<1>4. q = 0
  BY <1>2, <1>3
<1>5. r = j
  BY <1>2, <1>4
<1> QED BY <1>5, Zenon DEF r, Turn

\* A match repeats the bytes from its source on with the period of its offset.
LEMMA MatchFacts ==
  ASSUME NEW q \in Seq(Byte), NEW offset \in 1 .. Len(q), NEW ml \in Nat
  PROVE  /\ Match(q, offset, ml) \in Seq(Byte) /\ Len(Match(q, offset, ml)) = ml
         /\ \A k \in 1 .. ml : /\ Turn(k - 1, offset) \in 0 .. offset - 1
                              /\ Match(q, offset, ml)[k] = q[Len(q) - offset + 1 + Turn(k - 1, offset)]
<1>1. Len(q) \in Nat /\ offset \in Nat \ {0} /\ \A i \in 1 .. Len(q) : q[i] \in Byte
  BY LenProperties, ElementOfSeq
<1>2. ASSUME NEW k \in 1 .. ml
      PROVE  /\ Turn(k - 1, offset) \in 0 .. offset - 1
             /\ q[Len(q) - offset + 1 + Turn(k - 1, offset)] \in Byte
  <2>1. k - 1 \in Nat /\ 0 \in 0 .. offset - 1
    BY <1>1
  <2>2. Turn(k - 1, offset) \in 0 .. offset - 1
    BY <1>1, <2>1, ModShift, Zenon
  <2> QED BY <1>1, <2>2
<1>3. Match(q, offset, ml) \in [1 .. ml -> Byte]
  BY <1>2, Zenon DEF Match, Turn
<1>4. Match(q, offset, ml) \in Seq(Byte) /\ Len(Match(q, offset, ml)) = ml
  BY <1>3
<1> QED BY <1>2, <1>4, Zenon DEF Match, Turn

\* q is the end of h.
Ends(q, h) ==
  /\ Len(q) <= Len(h)
  /\ \A i \in 1 .. Len(q) : q[i] = h[Len(h) - Len(q) + i]

\* A match within the end q of a longer history is the same match of the history.
LEMMA NearMatch ==
  ASSUME NEW q \in Seq(Byte), NEW h \in Seq(Byte), Ends(q, h),
         NEW offset \in 1 .. Len(q), NEW ml \in Nat
  PROVE  Match(q, offset, ml) = Match(h, offset, ml)
<1>1. Len(q) \in Nat /\ Len(h) \in Nat /\ offset \in 1 .. Len(h)
  BY LenProperties DEF Ends
<1>2. ASSUME NEW k \in 1 .. ml
      PROVE  q[Len(q) - offset + 1 + Turn(k - 1, offset)] = h[Len(h) - offset + 1 + Turn(k - 1, offset)]
  <2> DEFINE m == Turn(k - 1, offset)
             i == Len(q) - offset + 1 + m
  <2>1. m \in 0 .. offset - 1
    BY <1>1, MatchFacts, Zenon
  <2> HIDE DEF m
  <2>2. i \in 1 .. Len(q) /\ Len(h) - Len(q) + i = Len(h) - offset + 1 + m
    BY <1>1, <2>1
  <2> QED BY <2>2 DEF m, Ends
<1> QED BY <1>2, Zenon DEF Match, Turn

\* What repeat_from_dict copies for a match that starts b bytes before q, within
\* or out of the dictionary d.
FarCopy(q, d, b, ml) ==
  LET tail == Suffix(d, b)
  IN  IF b < ml THEN tail \o Match(q \o tail, Len(q \o tail), ml - b)
      ELSE SubSeq(tail, 1, ml)

\* h is d followed by q.
Continues(h, d, q) ==
  /\ Len(h) = Len(d) + Len(q)
  /\ \A i \in 1 .. Len(d) : h[i] = d[i]
  /\ \A i \in 1 .. Len(q) : h[Len(d) + i] = q[i]

\* What the concatenation of two byte strings holds.
LEMMA Joined ==
  ASSUME NEW s \in Seq(Byte), NEW t \in Seq(Byte)
  PROVE  /\ s \o t \in Seq(Byte) /\ Len(s \o t) = Len(s) + Len(t) /\ Len(s) \in Nat /\ Len(t) \in Nat
         /\ \A i \in 1 .. Len(s) + Len(t) : (s \o t)[i] = IF i <= Len(s) THEN s[i] ELSE t[i - Len(s)]
BY ConcatProperties, LenProperties, Zenon

\* Three byte strings in a row.
LEMMA Associated ==
  ASSUME NEW s \in Seq(Byte), NEW t \in Seq(Byte), NEW u \in Seq(Byte)
  PROVE  (s \o t) \o u = s \o (t \o u)
BY ConcatAssociative

\* A match that starts b bytes before q, in the dictionary d, and runs on into q:
\* the dictionary's last b bytes, then a match of what follows them.
LEMMA FarMatchOn ==
  ASSUME NEW q \in Seq(Byte), NEW d \in Seq(Byte), NEW h \in Seq(Byte), Continues(h, d, q),
         NEW b \in 1 .. Len(d), NEW ml \in Nat, b < ml
  PROVE  LET tail == Suffix(d, b)
         IN  tail \o Match(q \o tail, Len(q \o tail), ml - b) = Match(h, Len(q) + b, ml)
<1> DEFINE tail == Suffix(d, b)
           s == q \o tail
           n == Len(q) + b
           m == ml - b
           rest == Match(s, Len(s), m)
           left == tail \o rest
           right == Match(h, n, ml)
<1>1. Len(q) \in Nat /\ Len(d) \in Nat /\ Len(h) \in Nat /\ b \in Nat \ {0} /\ m \in Nat
  BY LenProperties
<1>0. Len(h) = Len(d) + Len(q)
  BY Zenon DEF Continues
<1>2. /\ tail \in Seq(Byte) /\ Len(tail) = b
      /\ \A i \in 1 .. b : tail[i] = d[Len(d) - b + i]
  <2>1. b \in 0 .. Len(d)
    BY <1>1
  <2> QED BY <2>1, SuffixFacts, Zenon
<1> HIDE DEF tail
<1>3. /\ s \in Seq(Byte) /\ Len(s) = n
      /\ \A i \in 1 .. n : s[i] = IF i <= Len(q) THEN q[i] ELSE tail[i - Len(q)]
  BY <1>1, <1>2, Joined, Zenon
<1>4. n \in Nat \ {0} /\ n \in 1 .. Len(h) /\ Len(s) \in 1 .. Len(s)
  BY <1>0, <1>1, <1>3
<1> HIDE DEF s, n, m
<1>5. /\ rest \in Seq(Byte) /\ Len(rest) = m
      /\ \A k \in 1 .. m : /\ Turn(k - 1, n) \in 0 .. n - 1
                          /\ rest[k] = s[Len(s) - Len(s) + 1 + Turn(k - 1, Len(s))]
  <2>1. /\ rest \in Seq(Byte) /\ Len(rest) = m
        /\ \A k \in 1 .. m : /\ Turn(k - 1, Len(s)) \in 0 .. Len(s) - 1
                            /\ rest[k] = s[Len(s) - Len(s) + 1 + Turn(k - 1, Len(s))]
    <3>1. s \in Seq(Byte)
      BY <1>3, Zenon
    <3> QED BY <1>1, <1>4, <3>1, MatchFacts, Zenon
  <2> HIDE DEF rest
  <2>2. Len(s) = n
    BY <1>3, Zenon
  <2> QED BY <2>1, <2>2, Zenon
<1>6. /\ right \in Seq(Byte) /\ Len(right) = ml
      /\ \A k \in 1 .. ml : /\ Turn(k - 1, n) \in 0 .. n - 1
                           /\ right[k] = h[Len(h) - n + 1 + Turn(k - 1, n)]
  BY <1>4, MatchFacts, Zenon
<1> HIDE DEF rest, right
<1>7. /\ left \in Seq(Byte) /\ Len(left) = b + m /\ b + m = ml
      /\ \A i \in 1 .. b + m : left[i] = IF i <= b THEN tail[i] ELSE rest[i - b]
  <2>1. b + m = ml
    BY <1>1 DEF m
  <2> QED BY <1>1, <1>2, <1>5, <2>1, Joined, Zenon
<1> HIDE DEF left
<1>8. ASSUME NEW k \in 1 .. ml PROVE left[k] = right[k]
  <2>1. CASE k <= b
    <3>1. k - 1 \in 0 .. n - 1 /\ n = Len(q) + b
      BY <1>1, <2>1 DEF n
    <3>2. Turn(k - 1, n) = k - 1
      BY <1>4, <3>1, FirstTurn, Zenon
    <3>3. /\ Len(h) - n + 1 + (k - 1) = Len(d) - b + k
          /\ Len(d) - b + k \in 1 .. Len(d)
      BY <1>0, <1>1, <2>1, <3>1
    <3>4. left[k] = d[Len(d) - b + k]
      BY <1>1, <1>2, <1>7, <2>1
    <3>5. right[k] = h[Len(d) - b + k]
      BY <1>6, <3>2, <3>3, Zenon
    <3> QED BY <3>3, <3>4, <3>5, Zenon DEF Continues
  <2>2. CASE ~(k <= b)
    <3> DEFINE j == k - b
               r == Turn(j - 1, n)
    <3>1. j \in 1 .. m /\ j - 1 \in Nat /\ b + (j - 1) = k - 1
      BY <1>1, <1>7, <2>2
    <3>2. left[k] = rest[j]
      BY <1>1, <1>7, <2>2, Zenon
    <3> HIDE DEF j
    <3>3. r \in 0 .. n - 1 /\ rest[j] = s[1 + r]
      BY <1>3, <1>4, <1>5, <3>1
    <3>a. CASE Len(q) = 0
      <4>1. n = b
        BY <1>1, <3>a DEF n
      <4>2. Turn(b + (j - 1), n) = r
        BY <1>1, <3>1, <4>1, ModPeriod, Zenon
      <4>3. 1 + r \in 1 .. n /\ ~(1 + r <= Len(q)) /\ 1 + r - Len(q) = 1 + r
        BY <1>4, <3>3, <3>a
      <4>4. s[1 + r] = tail[1 + r]
        <5>1. s[1 + r] = tail[(1 + r) - Len(q)]
          BY <1>3, <4>3, Zenon
        <5> QED BY <1>1, <3>3, <3>a, <4>3, <5>1
      <4>5. 1 + r \in 1 .. b /\ tail[1 + r] = d[Len(d) - b + (1 + r)]
        BY <1>2, <4>1, <4>3, Zenon
      <4>6. /\ Len(d) - b + (1 + r) \in 1 .. Len(d)
            /\ Len(h) - n + 1 + r = Len(d) - b + (1 + r)
        BY <1>0, <1>1, <3>3, <4>1, <4>5, <3>a
      <4>7. right[k] = h[Len(d) - b + (1 + r)]
        BY <1>6, <3>1, <4>2, <4>6, Zenon
      <4> QED BY <3>2, <3>3, <4>4, <4>5, <4>6, <4>7, Zenon DEF Continues
    <3>b. CASE Len(q) # 0
      <4>1. b \in 0 .. n - 1 /\ n = Len(q) + b
        BY <1>1, <3>b DEF n
      <4>2. Turn(k - 1, n) = IF r + b < n THEN r + b ELSE r + b - n
        <5>1. Turn(b + (j - 1), n) = IF Turn(j - 1, n) + b < n THEN Turn(j - 1, n) + b ELSE Turn(j - 1, n) + b - n
          BY <1>4, <3>1, <4>1, ModShift, Zenon
        <5> QED BY <3>1, <5>1, Zenon
      <4> HIDE DEF r
      <4>3. CASE r < Len(q)
        <5>1. r + b < n /\ Len(h) - n + 1 + (r + b) = Len(d) + (1 + r) /\ 1 + r \in 1 .. Len(q) /\ 1 + r \in 1 .. n
          BY <1>0, <1>1, <3>3, <4>1, <4>3
        <5>2. right[k] = h[Len(d) + (1 + r)]
          BY <1>6, <4>2, <5>1, Zenon
        <5>3. s[1 + r] = q[1 + r]
          BY <1>3, <5>1
        <5> QED BY <3>2, <3>3, <5>1, <5>2, <5>3, Zenon DEF Continues
      <4>4. CASE ~(r < Len(q))
        <5> DEFINE i == 1 + r - Len(q)
        <5>1. /\ ~(r + b < n) /\ 1 + r \in 1 .. n /\ ~(1 + r <= Len(q)) /\ i \in 1 .. b
              /\ Len(h) - n + 1 + (r + b - n) = Len(d) - b + i
              /\ Len(d) - b + i \in 1 .. Len(d)
          BY <1>0, <1>1, <3>3, <4>1, <4>4
        <5>2. s[1 + r] = tail[(1 + r) - Len(q)]
          BY <1>3, <5>1, Zenon
        <5> HIDE DEF i
        <5>3. right[k] = h[Len(d) - b + i]
          BY <1>6, <4>2, <5>1, Zenon
        <5>4. s[1 + r] = tail[i]
          BY <1>1, <3>3, <5>2 DEF i
        <5> QED BY <1>2, <3>2, <3>3, <5>1, <5>3, <5>4, Zenon DEF Continues
      <4> QED BY <4>3, <4>4, Zenon
    <3> QED BY <3>a, <3>b, Zenon
  <2> QED BY <2>1, <2>2, Zenon
<1>9. left = right
  BY <1>6, <1>7, <1>8, SeqEqual, Zenon
<1> QED BY <1>9, Zenon DEF left, right, rest, s, n, m, tail

\* A match that lies within the dictionary.
LEMMA FarMatchWithin ==
  ASSUME NEW q \in Seq(Byte), NEW d \in Seq(Byte), NEW h \in Seq(Byte), Continues(h, d, q),
         NEW b \in 1 .. Len(d), NEW ml \in 0 .. b
  PROVE  SubSeq(Suffix(d, b), 1, ml) = Match(h, Len(q) + b, ml)
<1> DEFINE tail == Suffix(d, b)
           left == SubSeq(tail, 1, ml)
           n == Len(q) + b
           right == Match(h, n, ml)
<1>1. Len(q) \in Nat /\ Len(d) \in Nat /\ Len(h) \in Nat /\ b \in Nat \ {0} /\ ml \in Nat
  BY LenProperties
<1>0. Len(h) = Len(d) + Len(q)
  BY Zenon DEF Continues
<1>2. /\ tail \in Seq(Byte) /\ Len(tail) = b
      /\ \A i \in 1 .. b : tail[i] = d[Len(d) - b + i]
  <2>1. b \in 0 .. Len(d)
    BY <1>1
  <2> QED BY <2>1, SuffixFacts, Zenon
<1> HIDE DEF tail
<1>3. left \in Seq(Byte) /\ Len(left) = ml /\ \A i \in 1 .. ml : left[i] = tail[i]
  BY <1>2, PrefixFacts, Zenon
<1>4. n \in Nat \ {0} /\ n \in 1 .. Len(h)
  BY <1>0, <1>1
<1> HIDE DEF n
<1>5. /\ right \in Seq(Byte) /\ Len(right) = ml
      /\ \A k \in 1 .. ml : /\ Turn(k - 1, n) \in 0 .. n - 1
                           /\ right[k] = h[Len(h) - n + 1 + Turn(k - 1, n)]
  BY <1>1, <1>4, MatchFacts, Zenon
<1> HIDE DEF left, right
<1>6. ASSUME NEW k \in 1 .. ml PROVE left[k] = right[k]
  <2>1. k - 1 \in 0 .. n - 1 /\ n = Len(q) + b
    BY <1>1 DEF n
  <2>2. Turn(k - 1, n) = k - 1
    BY <1>4, <2>1, FirstTurn, Zenon
  <2>3. Len(h) - n + 1 + (k - 1) = Len(d) - b + k /\ Len(d) - b + k \in 1 .. Len(d) /\ k \in 1 .. b
    BY <1>0, <1>1, <2>1
  <2>4. left[k] = d[Len(d) - b + k]
    BY <1>2, <1>3, <2>3, Zenon
  <2>5. right[k] = h[Len(d) - b + k]
    BY <1>5, <2>2, <2>3, Zenon
  <2> QED BY <2>3, <2>4, <2>5, Zenon DEF Continues
<1>7. left = right
  BY <1>3, <1>5, <1>6, SeqEqual, Zenon
<1> QED BY <1>7, Zenon DEF left, right, tail, n

\* Either way it is the match over the dictionary followed by q.
LEMMA FarMatch ==
  ASSUME NEW q \in Seq(Byte), NEW d \in Seq(Byte), NEW h \in Seq(Byte), Continues(h, d, q),
         NEW b \in 1 .. Len(d), NEW ml \in Nat
  PROVE  FarCopy(q, d, b, ml) = Match(h, Len(q) + b, ml)
<1>1. CASE b < ml
  BY <1>1, FarMatchOn DEF FarCopy
<1>2. CASE ~(b < ml)
  <2>1. ml \in 0 .. b
    BY <1>2
  <2> QED BY <1>2, <2>1, FarMatchWithin, Zenon DEF FarCopy
<1> QED BY <1>1, <1>2, Zenon

\* The types the invariant gives, and the facts about lengths used most.
LEMMA Typed ==
  ASSUME Inv
  PROVE  /\ buffer \in Seq(Byte) /\ frame \in Seq(Byte) /\ output \in Seq(Byte) /\ hash \in Seq(Byte)
         /\ dict \in Seq(Byte)
         /\ Len(buffer) \in Nat /\ Len(frame) \in Nat /\ Len(output) \in Nat /\ Len(dict) \in Nat
         /\ delivered \in 0 .. Len(buffer) /\ window_size \in Nat \ {0} /\ ceiling \in Nat
         /\ block_maximum \in Nat /\ newest \in Nat
         /\ total_output_counter = Len(frame) /\ Len(buffer) <= Len(frame)
<1>1. dict \in Seq(Byte)
  <2>1. << >> \in Seq(Byte) /\ Dict \in Seq(Byte)
    BY EmptySeq, DecodeBufferAssumption, Zenon
  <2>2. dict = << >> \/ dict = Dict
    BY Zenon DEF Inv, TypeOK
  <2> QED BY <2>1, <2>2, Zenon
<1>2. window_size \in Nat \ {0} /\ BlockLimit \in Nat
  BY DecodeBufferAssumption, Zenon DEF Inv, TypeOK
<1>3. block_maximum \in Nat
  BY <1>2, Zenon DEF block_maximum, Min2
<1> QED BY <1>1, <1>2, <1>3, LenProperties, Zenon DEF Inv, TypeOK, BlockInProgress, BufferEndsFrame

\* The dictionary, the frame and a sequence's literals: what the live bytes and
\* the literals are of it, and when they are all that follows the dictionary.
LEMMA HistoryFacts ==
  ASSUME Inv, NEW lits \in Seq(Byte), NEW h, h = dict \o frame \o lits, NEW q, q = buffer \o lits
  PROVE  /\ h \in Seq(Byte) /\ Len(h) = Len(dict) + Len(frame) + Len(lits)
         /\ q \in Seq(Byte) /\ Len(q) = Len(buffer) + Len(lits) /\ Len(q) <= Len(h) /\ Ends(q, h)
         /\ Len(buffer) = Len(frame) => Continues(h, dict, q)
<1> DEFINE p == dict \o frame
<1>1. buffer \in Seq(Byte) /\ frame \in Seq(Byte) /\ dict \in Seq(Byte) /\ lits \in Seq(Byte)
  BY Typed, Zenon
<1>2. /\ p \in Seq(Byte) /\ Len(p) = Len(dict) + Len(frame) /\ Len(dict) \in Nat /\ Len(frame) \in Nat
      /\ \A i \in 1 .. Len(dict) + Len(frame) : p[i] = IF i <= Len(dict) THEN dict[i] ELSE frame[i - Len(dict)]
  BY <1>1, Joined, Zenon
<1> HIDE DEF p
<1>3. /\ h \in Seq(Byte) /\ Len(h) = Len(p) + Len(lits) /\ Len(lits) \in Nat
      /\ \A i \in 1 .. Len(p) + Len(lits) : h[i] = IF i <= Len(p) THEN p[i] ELSE lits[i - Len(p)]
  <2>1. h = p \o lits
    BY Zenon DEF p
  <2>2. /\ p \o lits \in Seq(Byte) /\ Len(p \o lits) = Len(p) + Len(lits) /\ Len(lits) \in Nat
        /\ \A i \in 1 .. Len(p) + Len(lits) : (p \o lits)[i] = IF i <= Len(p) THEN p[i] ELSE lits[i - Len(p)]
    BY <1>2, Joined, Zenon
  <2> QED BY <2>1, <2>2, Zenon
<1>4. /\ q \in Seq(Byte) /\ Len(q) = Len(buffer) + Len(lits) /\ Len(buffer) \in Nat
      /\ \A i \in 1 .. Len(buffer) + Len(lits) : q[i] = IF i <= Len(buffer) THEN buffer[i] ELSE lits[i - Len(buffer)]
  BY <1>1, Joined, Zenon
<1>5. Len(buffer) <= Len(frame) /\ \A i \in 1 .. Len(buffer) : buffer[i] = frame[Len(frame) - Len(buffer) + i]
  BY Zenon DEF Inv, BufferEndsFrame
<1>6. Len(h) = Len(dict) + Len(frame) + Len(lits) /\ Len(q) <= Len(h)
  BY <1>2, <1>3, <1>4, <1>5
<1>7. ASSUME NEW i \in 1 .. Len(q) PROVE q[i] = h[Len(h) - Len(q) + i]
  <2> DEFINE k == Len(h) - Len(q) + i
  <2>1. CASE i <= Len(buffer)
    <3> DEFINE j == Len(frame) - Len(buffer) + i
    <3>1. /\ k \in 1 .. Len(p) + Len(lits) /\ k <= Len(p) /\ k = Len(dict) + j /\ ~(k <= Len(dict))
          /\ k \in 1 .. Len(dict) + Len(frame) /\ k - Len(dict) = j /\ i \in 1 .. Len(buffer)
      BY <1>2, <1>3, <1>4, <1>5, <1>6, <2>1
    <3> HIDE DEF j, k
    <3>2. h[k] = p[k] /\ p[k] = frame[j]
      BY <1>2, <1>3, <3>1, Zenon
    <3>3. buffer[i] = frame[j]
      BY <1>5, <3>1, Zenon DEF j
    <3>4. q[i] = buffer[i]
      BY <1>4, <2>1, Zenon
    <3> QED BY <3>2, <3>3, <3>4, Zenon DEF k
  <2>2. CASE ~(i <= Len(buffer))
    <3>1. k \in 1 .. Len(p) + Len(lits) /\ ~(k <= Len(p)) /\ k - Len(p) = i - Len(buffer)
      BY <1>2, <1>3, <1>4, <1>5, <1>6, <2>2
    <3> HIDE DEF k
    <3>2. h[k] = lits[k - Len(p)]
      BY <1>3, <3>1, Zenon
    <3>3. q[i] = lits[i - Len(buffer)]
      BY <1>4, <2>2, Zenon
    <3> QED BY <3>1, <3>2, <3>3, Zenon DEF k
  <2> QED BY <2>1, <2>2, Zenon
<1>8. ASSUME Len(buffer) = Len(frame) PROVE Continues(h, dict, q)
  <2>1. Len(h) = Len(dict) + Len(q) /\ Len(h) - Len(q) = Len(dict)
    BY <1>2, <1>3, <1>4, <1>6, <1>8
  <2>2. ASSUME NEW i \in 1 .. Len(dict) PROVE h[i] = dict[i]
    <3>1. i \in 1 .. Len(p) + Len(lits) /\ i <= Len(p) /\ i \in 1 .. Len(dict) + Len(frame) /\ i <= Len(dict)
      BY <1>2, <1>3
    <3> QED BY <1>2, <1>3, <3>1, Zenon
  <2>3. ASSUME NEW i \in 1 .. Len(q) PROVE h[Len(dict) + i] = q[i]
    BY <1>7, <2>1, Zenon
  <2> QED BY <2>1, <2>2, <2>3, Zenon DEF Continues
<1>9. Ends(q, h)
  BY <1>6, <1>7, Zenon DEF Ends
<1> QED BY <1>3, <1>4, <1>6, <1>8, <1>9, Zenon

\* While the output with the literals is within the window, nothing was released.
LEMMA WithinWindow ==
  ASSUME Inv, phase = "block", NEW lits \in Seq(Byte), Len(frame) + Len(lits) <= window_size
  PROVE  Len(buffer) = Len(frame)
<1>1. Len(buffer) \in Nat /\ Len(frame) \in Nat /\ Len(lits) \in Nat /\ window_size \in Nat
  BY LenProperties, DecodeBufferAssumption, Zenon DEF Inv, TypeOK
<1> QED BY <1>1 DEF Inv, Windowed, BufferEndsFrame

\* A sequence on either path: bytes come out, and those of one that is executed
\* are its literals and its match, read from the dictionary and the whole frame.
LEMMA SequenceLaw ==
  ASSUME Inv, phase = "block", NEW lits \in Seq(Byte), NEW offset \in Nat, NEW ml \in Nat \ {0},
         NEW inline \in BOOLEAN
  PROVE  LET r == execute_one_sequence(lits, offset, ml, inline)
             history == dict \o frame \o lits
         IN  /\ r.ok \in BOOLEAN /\ r.bytes \in Seq(Byte)
             /\ r.ok => /\ offset \in 1 .. Len(history)
                        /\ offset > Len(frame) + Len(lits) => Len(frame) + Len(lits) <= window_size
                        /\ r.bytes = lits \o Match(history, offset, ml)
<1> DEFINE r == execute_one_sequence(lits, offset, ml, inline)
           h == dict \o frame \o lits
           q == buffer \o lits
           total == total_output_counter + Len(lits)
           cold == repeat(q, total, offset, ml)
           Law(x) == /\ x.ok \in BOOLEAN /\ x.bytes \in Seq(Byte)
                     /\ x.ok => /\ offset \in 1 .. Len(h)
                                /\ offset > Len(frame) + Len(lits) => Len(frame) + Len(lits) <= window_size
                                /\ x.bytes = Match(h, offset, ml)
<1>e. h = dict \o frame \o lits /\ q = buffer \o lits
  BY Zenon
<1> HIDE DEF h, q
<1>1. /\ h \in Seq(Byte) /\ Len(h) = Len(dict) + Len(frame) + Len(lits)
      /\ q \in Seq(Byte) /\ Len(q) = Len(buffer) + Len(lits) /\ Len(q) <= Len(h)
  BY <1>e, HistoryFacts, Zenon
<1>0. Ends(q, h)
  BY <1>e, HistoryFacts, Zenon
<1>a. Len(buffer) = Len(frame) => Continues(h, dict, q)
  BY <1>e, HistoryFacts, Zenon
<1>2. /\ Len(buffer) \in Nat /\ Len(frame) \in Nat /\ Len(lits) \in Nat /\ Len(dict) \in Nat
      /\ window_size \in Nat /\ ceiling \in Nat /\ total = Len(frame) + Len(lits) /\ dict \in Seq(Byte)
      /\ Len(buffer) <= Len(frame) /\ buffer \in Seq(Byte) /\ frame \in Seq(Byte)
  BY Typed, LenProperties, Zenon
<1> HIDE DEF total
<1>3. << >> \in Seq(Byte) /\ lits \o << >> \in Seq(Byte)
  BY ConcatEmptySeq
<1>4. ASSUME offset \in 1 .. Len(q) PROVE Law(Copied(Match(q, offset, ml)))
  <2>1. Match(q, offset, ml) = Match(h, offset, ml)
    BY <1>0, <1>1, <1>4, NearMatch, Zenon
  <2>2. Match(q, offset, ml) \in Seq(Byte)
    BY <1>1, <1>4, MatchFacts, Zenon
  <2>3. offset \in 1 .. Len(h) /\ ~(offset > Len(frame) + Len(lits))
    BY <1>1, <1>2, <1>4
  <2> QED BY <2>1, <2>2, <2>3, Zenon DEF Copied
<1>5. ASSUME offset > Len(q), total <= window_size, offset - Len(q) <= Len(dict)
      PROVE  Law(Copied(FarCopy(q, dict, offset - Len(q), ml)))
  <2> DEFINE b == offset - Len(q)
  <2>1. Len(buffer) = Len(frame) /\ Continues(h, dict, q)
    <3>1. Len(frame) + Len(lits) <= window_size
      BY <1>2, <1>5, Zenon
    <3> QED BY <1>a, <3>1, WithinWindow, Zenon
  <2>2. b \in 1 .. Len(dict) /\ Len(q) + b = offset /\ offset \in 1 .. Len(h)
    BY <1>1, <1>2, <1>5, <2>1
  <2> HIDE DEF b
  <2>3. offset \in 1 .. Len(h) /\ Len(frame) + Len(lits) <= window_size
    BY <1>2, <1>5, <2>2, Zenon
  <2>4. Match(h, offset, ml) \in Seq(Byte)
    BY <1>1, <2>2, MatchFacts, Zenon
  <2>5. FarCopy(q, dict, b, ml) = Match(h, Len(q) + b, ml)
    <3>1. ml \in Nat /\ q \in Seq(Byte) /\ h \in Seq(Byte) /\ dict \in Seq(Byte)
      BY <1>1, <1>2, Zenon
    <3>2. Continues(h, dict, q) /\ b \in 1 .. Len(dict)
      BY <2>1, <2>2, Zenon
    <3> QED BY <3>1, <3>2, FarMatch
  <2>6. Law(Copied(FarCopy(q, dict, b, ml)))
    BY <2>2, <2>3, <2>4, <2>5, Zenon DEF Copied
  <2> QED BY <2>6, Zenon DEF b
<1>6. Law(Refused(<< >>))
  BY <1>3, Zenon DEF Refused
<1> HIDE DEF Law
<1>7. ASSUME offset # 0 PROVE Law(cold)
  <2>1. CASE offset > Len(q)
    <3> DEFINE d == repeat_from_dict(q, total, offset, ml)
    <3>1. cold = d
      BY <1>7, <2>1, Zenon DEF repeat
    <3>2. CASE Max2(total, Len(q)) > window_size \/ offset - Len(q) > Len(dict) \/ Len(q) + ml > ceiling
      BY <1>6, <3>1, <3>2, Zenon DEF repeat_from_dict
    <3>3. CASE ~(Max2(total, Len(q)) > window_size \/ offset - Len(q) > Len(dict) \/ Len(q) + ml > ceiling)
      <4>1. total <= window_size /\ offset - Len(q) <= Len(dict)
        BY <1>1, <1>2, <3>3 DEF Max2
      <4>2. d = Copied(FarCopy(q, dict, offset - Len(q), ml))
        BY <3>3, Zenon DEF repeat_from_dict, FarCopy
      <4> QED BY <1>5, <2>1, <3>1, <4>1, <4>2, Zenon
    <3> QED BY <3>2, <3>3, Zenon
  <2>2. CASE ~(offset > Len(q))
    <3>1. offset \in 1 .. Len(q)
      BY <1>1, <1>2, <1>7, <2>2
    <3>2. cold = IF Len(q) + ml > ceiling THEN Refused(<< >>) ELSE Copied(Match(q, offset, ml))
      BY <1>7, <2>2, Zenon DEF repeat
    <3> QED BY <1>4, <1>6, <3>1, <3>2, Zenon
  <2> QED BY <2>1, <2>2, Zenon
<1> DEFINE Whole(x) == /\ x.ok \in BOOLEAN /\ x.bytes \in Seq(Byte)
                       /\ x.ok => /\ offset \in 1 .. Len(h)
                                  /\ offset > Len(frame) + Len(lits) => Len(frame) + Len(lits) <= window_size
                                  /\ x.bytes = lits \o Match(h, offset, ml)
<1>8. ASSUME NEW x, Law(x), NEW y, y.ok = x.ok, y.bytes = lits \o x.bytes PROVE Whole(y)
  <2>1. x.bytes \in Seq(Byte) /\ lits \o x.bytes \in Seq(Byte)
    BY <1>8, Joined, Zenon DEF Law
  <2> QED BY <1>8, <2>1, Zenon DEF Law
<1> HIDE DEF Whole, cold
<1>9. Whole(r)
  <2>1. CASE offset = 0
    BY <1>3, <2>1, Zenon DEF execute_one_sequence, Whole, Refused
  <2>2. CASE offset # 0
    <3> DEFINE fits == Len(buffer) + Len(lits) + ml <= ceiling
    <3>1. CASE inline /\ fits /\ dict_match_source(Len(lits), offset, ml)
      <4>1. /\ offset > Len(q) /\ total <= window_size /\ offset - Len(q) <= Len(dict)
            /\ ~(offset - Len(q) < ml)
        <5> DEFINE b == offset - (Len(buffer) + Len(lits))
        <5>1. /\ offset > Len(buffer) + Len(lits) /\ b <= Len(dict) /\ ml <= b
              /\ Max2(total_output_counter, Len(buffer)) + Len(lits) <= window_size
          BY <3>1, Zenon DEF dict_match_source
        <5>2. total_output_counter = Len(frame)
          BY Typed, Zenon
        <5>3. Len(frame) + Len(lits) <= window_size
          BY <1>2, <5>1, <5>2, Zenon DEF Max2
        <5>4. b = offset - Len(q) /\ b \in Int
          BY <1>1, <1>2
        <5> HIDE DEF b
        <5> QED BY <1>1, <1>2, <5>1, <5>3, <5>4
      <4> DEFINE c == FarCopy(q, dict, offset - Len(q), ml)
      <4>2. Law(Copied(c))
        BY <1>5, <4>1, Zenon
      <4>3. r = Copied(lits \o SubSeq(Suffix(dict, offset - Len(q)), 1, ml))
        BY <1>1, <2>2, <3>1, Zenon DEF execute_one_sequence
      <4>6. r = Copied(lits \o c)
        BY <4>1, <4>3, Zenon DEF FarCopy
      <4> HIDE DEF r, c
      <4>4. Copied(c).ok = r.ok /\ r.bytes = lits \o Copied(c).bytes
        BY <4>6, Zenon DEF Copied
      <4> QED BY <1>8, <4>2, <4>4, Zenon
    <3>2. CASE ~(inline /\ fits /\ dict_match_source(Len(lits), offset, ml)) /\ inline /\ fits /\ offset <= Len(buffer) + Len(lits)
      <4>1. offset \in 1 .. Len(q)
        BY <1>1, <1>2, <2>2, <3>2
      <4>2. r = Copied(lits \o Match(q, offset, ml))
        BY <2>2, <3>2, Zenon DEF execute_one_sequence, q
      <4> DEFINE c == Match(q, offset, ml)
      <4> HIDE DEF r, c
      <4>4. Copied(c).ok = r.ok /\ r.bytes = lits \o Copied(c).bytes
        BY <4>2, Zenon DEF Copied, c
      <4>5. Law(Copied(c))
        BY <1>4, <4>1, Zenon DEF c
      <4> QED BY <1>8, <4>4, <4>5, Zenon
    <3>3. CASE /\ ~(inline /\ fits /\ dict_match_source(Len(lits), offset, ml))
               /\ ~(inline /\ fits /\ offset <= Len(buffer) + Len(lits))
      <4>1. r = [ok |-> cold.ok, bytes |-> lits \o cold.bytes]
        BY <2>2, <3>3, Zenon DEF execute_one_sequence, q, total, cold
      <4> HIDE DEF r
      <4> QED BY <1>7, <1>8, <2>2, <4>1, Zenon
    <3> QED BY <3>1, <3>2, <3>3, Zenon
  <2> QED BY <2>1, <2>2, Zenon
<1> QED BY <1>9, Zenon DEF Whole, r, h

-----------------------------------------------------------------------------
(* The invariant                                                            *)

\* No block in progress, and the ceiling outside one.
LEMMA NoBlockTyped ==
  /\ NoBlock \in [len : Nat, total : Nat, literals : Nat] /\ MaxFrame + BlockLimit \in Nat
  /\ \A w \in Windows : w \in Nat
BY DecodeBufferAssumption DEF NoBlock

\* A new buffer.
LEMMA InitHolds == Init => Inv
<1> SUFFICES ASSUME Init PROVE Inv
  BY Zenon
<1>1. << >> \in Seq(Byte) /\ Len(<< >>) = 0
  BY EmptySeq, Zenon
<1>2. /\ buffer = << >> /\ frame = << >> /\ output = << >> /\ hash = << >> /\ delivered = 0
      /\ total_output_counter = 0 /\ newest = 0 /\ phase = "open" /\ block = NoBlock
      /\ window_size \in Windows /\ dict \in {<< >>, Dict} /\ checks \in BOOLEAN
      /\ compute_hash = TRUE /\ hash_dirty = FALSE /\ ceiling = MaxFrame + BlockLimit
  BY Zenon DEF Init
<1>3. TypeOK
  <2>1. 0 \in 0 .. Len(<< >>) /\ 0 \in Nat
    BY <1>1
  <2> QED BY <1>1, <1>2, <2>1, NoBlockTyped, Zenon DEF TypeOK
<1>4. window_size \in Nat
  BY <1>2, DecodeBufferAssumption, Zenon
<1> QED BY <1>1, <1>2, <1>3, <1>4
        DEF Inv, BufferEndsFrame, OutputBeginsFrame, BlockInProgress, Windowed, Digested, undelivered

\* reset: the next frame begins with nothing, and with a fresh digest.
LEMMA ResetHolds == ASSUME Inv, Reset PROVE Inv'
<1>1. << >> \in Seq(Byte) /\ Len(<< >>) = 0
  BY EmptySeq, Zenon
<1>2. /\ buffer' = << >> /\ frame' = << >> /\ output' = << >> /\ delivered' = 0
      /\ total_output_counter' = 0 /\ newest' = 0 /\ phase' = "open" /\ block' = NoBlock
      /\ window_size' \in Windows /\ dict' \in {<< >>, Dict} /\ checks' \in BOOLEAN
      /\ hash' = (IF hash_dirty THEN << >> ELSE hash) /\ compute_hash' = compute_hash
      /\ hash_dirty' = FALSE /\ ceiling' = MaxFrame + BlockLimit
  BY Zenon DEF Reset
<1>3. hash' = << >>
  BY <1>2, Zenon DEF Inv, Digested
<1>4. TypeOK'
  <2>1. 0 \in 0 .. Len(<< >>) /\ 0 \in Nat
    BY <1>1
  <2>2. compute_hash \in BOOLEAN
    BY Zenon DEF Inv, TypeOK
  <2> QED BY <1>1, <1>2, <1>3, <2>1, <2>2, NoBlockTyped, Zenon DEF TypeOK
<1>5. window_size' \in Nat
  BY <1>2, DecodeBufferAssumption, Zenon
<1> QED BY <1>1, <1>2, <1>3, <1>4, <1>5
        DEF Inv, BufferEndsFrame, OutputBeginsFrame, BlockInProgress, Windowed, Digested, undelivered

\* Appending keeps the window: what it adds is kept, and waits.
LEMMA WriteKeepsWindow ==
  ASSUME Inv, NEW bytes \in Seq(Byte), Write(bytes), UNCHANGED <<delivered, output, window_size>>,
         phase \in {"open", "block"}
  PROVE  Windowed'
<1>1. /\ Len(buffer') = Len(buffer) + Len(bytes) /\ Len(frame') = Len(frame) + Len(bytes)
      /\ Len(bytes) \in Nat
  BY WriteKeeps, LenProperties, Zenon
<1>2. /\ Len(buffer) >= window_size \/ Len(buffer) >= Len(frame)
      /\ Len(buffer) - delivered = 0 => Len(buffer) <= window_size
  BY Zenon DEF Inv, Windowed, undelivered
<1> QED BY <1>1, <1>2, Typed, SMTT(30) DEF Windowed, undelivered

\* push, extend_and_fill, extend_from_reader.
LEMMA PushHolds ==
  ASSUME Inv, NEW bytes \in Seq(Byte), PushBlock(bytes)
  PROVE  Inv'
<1>1. /\ phase = "open" /\ Write(bytes) /\ compute_hash' = checks /\ newest' = Len(bytes)
      /\ UNCHANGED <<ceiling, block, phase, delivered, output, hash, hash_dirty, window_size, checks, dict>>
  BY Zenon DEF PushBlock, delivery, setting
<1>2. /\ buffer' \in Seq(Byte) /\ Len(buffer') = Len(buffer) + Len(bytes)
      /\ frame' \in Seq(Byte) /\ Len(frame') = Len(frame) + Len(bytes)
      /\ total_output_counter' = Len(frame') /\ BufferEndsFrame' /\ OutputBeginsFrame'
  BY <1>1, WriteKeeps, Zenon
<1>3. Len(bytes) \in Nat /\ Len(frame') \in Nat
  BY <1>2, LenProperties, Zenon
<1>4. TypeOK'
  BY <1>1, <1>2, <1>3, Typed DEF Inv, TypeOK
<1>5. Windowed'
  BY <1>1, WriteKeepsWindow, Zenon
<1>6. BlockInProgress'
  BY <1>1, <1>2, <1>3, Typed DEF BlockInProgress
<1>7. Digested'
  BY <1>1, Zenon DEF Inv, Digested
<1> QED BY <1>2, <1>4, <1>5, <1>6, <1>7, Zenon DEF Inv

\* checkpoint: the block begins behind all that was handed out.
LEMMA BeginHolds ==
  ASSUME Inv, NEW n \in Nat, BeginSequences(n)
  PROVE  Inv'
<1>1. /\ phase = "open" /\ n <= block_maximum /\ compute_hash' = checks
      /\ ceiling' = Len(buffer) + block_maximum
      /\ block' = [len |-> Len(buffer), total |-> total_output_counter, literals |-> n]
      /\ newest' = 0 /\ phase' = "block"
      /\ UNCHANGED <<buffer, total_output_counter, frame, delivered, output, hash, hash_dirty, window_size, checks, dict>>
  BY Zenon DEF BeginSequences, delivery, setting
<1>2. block_maximum' = block_maximum
  BY <1>1, Zenon DEF block_maximum
<1>3. /\ block'.len = Len(buffer) /\ block'.total = total_output_counter /\ block'.literals = n
      /\ block' \in [len : Nat, total : Nat, literals : Nat]
  BY <1>1, Typed, Zenon
<1>4. TypeOK'
  <2>1. ceiling' \in Nat /\ compute_hash' \in BOOLEAN
    BY <1>1, Typed, SMTT(30) DEF Inv, TypeOK
  <2> QED BY <1>1, <1>3, <2>1, Zenon DEF Inv, TypeOK
<1>5. BufferEndsFrame' /\ OutputBeginsFrame' /\ Windowed'
  BY <1>1, Zenon DEF Inv, BufferEndsFrame, OutputBeginsFrame, Windowed, undelivered
<1>6. BlockInProgress'
  BY <1>1, <1>2, <1>3, Typed DEF BlockInProgress
<1>7. Digested'
  BY <1>1, Zenon DEF Inv, Digested
<1> QED BY <1>4, <1>5, <1>6, <1>7, Zenon DEF Inv

\* A sequence uses up its literals.
Spent(lits) ==
  Len(lits) <= block.literals /\ block' = [block EXCEPT !.literals = @ - Len(lits)]

\* Bytes appended to the block in progress keep all the invariant says of it.
LEMMA AppendHolds ==
  ASSUME Inv, NEW lits \in Seq(Byte), NEW bytes \in Seq(Byte), Write(bytes),
         phase = "block", Spent(lits),
         UNCHANGED <<ceiling, compute_hash, newest, phase, delivered, output, hash, hash_dirty, window_size, checks, dict>>
  PROVE  Inv'
<1>3. /\ buffer' \in Seq(Byte) /\ Len(buffer') = Len(buffer) + Len(bytes)
      /\ frame' \in Seq(Byte) /\ Len(frame') = Len(frame) + Len(bytes)
      /\ total_output_counter' = Len(frame') /\ BufferEndsFrame' /\ OutputBeginsFrame'
  BY WriteKeeps, Zenon
<1>4. Len(bytes) \in Nat /\ Len(frame') \in Nat /\ Len(lits) \in Nat
  BY <1>3, LenProperties, Zenon
<1>5. /\ block \in [len : Nat, total : Nat, literals : Nat]
      /\ block'.len = block.len /\ block'.total = block.total /\ block'.literals = block.literals - Len(lits)
      /\ block' \in [len : Nat, total : Nat, literals : Nat]
  <2>1. block \in [len : Nat, total : Nat, literals : Nat]
    BY Zenon DEF Inv, TypeOK
  <2>2. block.literals - Len(lits) \in Nat
    <3>1. block.literals \in Nat /\ Len(lits) <= block.literals
      BY <2>1, Zenon DEF Spent
    <3> QED BY <1>4, <3>1
  <2>3. block' = [block EXCEPT !.literals = block.literals - Len(lits)]
    BY Zenon DEF Spent
  <2> QED BY <2>1, <2>2, <2>3, Zenon
<1>6. TypeOK'
  <2>1. delivered \in 0 .. Len(buffer') /\ total_output_counter' \in Nat
    BY <1>3, <1>4, Typed, SMTT(30)
  <2>2. block' \in [len : Nat, total : Nat, literals : Nat]
    BY <1>5, Zenon
  <2> QED BY <1>3, <2>1, <2>2, Zenon DEF Inv, TypeOK
<1>7. Windowed'
  BY WriteKeepsWindow, Zenon
<1>8. BlockInProgress'
  <2>1. block_maximum' = block_maximum
    BY Zenon DEF block_maximum
  <2>2. /\ newest = 0 /\ delivered <= block.len /\ block.len <= Len(buffer)
        /\ block.total + (Len(buffer) - block.len) = total_output_counter
        /\ ceiling = block.len + block_maximum /\ block.literals <= block_maximum
    BY Zenon DEF Inv, BlockInProgress
  <2>3. /\ delivered <= block'.len /\ block'.len <= Len(buffer')
        /\ block'.total + (Len(buffer') - block'.len) = total_output_counter'
        /\ block'.literals <= block_maximum /\ newest <= Len(buffer')
    <3>1. block.len \in Nat /\ block.total \in Nat /\ block.literals \in Nat
      BY <1>5, Zenon
    <3>2. /\ block'.len = block.len /\ block'.total = block.total
          /\ block'.literals = block.literals - Len(lits)
      BY <1>5, Zenon
    <3>3. /\ Len(buffer') = Len(buffer) + Len(bytes) /\ total_output_counter' = Len(frame) + Len(bytes)
          /\ total_output_counter = Len(frame) /\ Len(frame) \in Nat /\ Len(buffer) \in Nat
          /\ delivered \in Nat /\ block_maximum \in Nat
      BY <1>3, Typed
    <3>4. block.len <= Len(buffer) + Len(bytes) /\ newest <= Len(buffer) + Len(bytes)
      BY <1>4, <2>2, <3>1, <3>3
    <3>5. block.total + ((Len(buffer) + Len(bytes)) - block.len) = Len(frame) + Len(bytes)
      <4>1. block.total + (Len(buffer) - block.len) = Len(frame)
        BY <2>2, <3>3, Zenon
      <4>2. /\ Len(buffer) \in Nat /\ Len(frame) \in Nat /\ Len(bytes) \in Nat
            /\ block.total \in Nat /\ block.len \in Nat
        BY <1>4, <3>1, <3>3, Zenon
      <4> QED BY <4>1, <4>2
    <3>6. block.literals - Len(lits) <= block_maximum
      BY <1>4, <2>2, <3>1, <3>3
    <3> QED BY <2>2, <3>2, <3>3, <3>4, <3>5, <3>6, Zenon
  <2>4. /\ total_output_counter' = Len(frame') /\ newest' = newest /\ delivered' = delivered /\ newest = 0
        /\ ceiling' = block'.len + block_maximum' /\ block_maximum' = block_maximum
    BY <1>3, <1>5, <2>1, <2>2, Zenon
  <2> QED BY <2>3, <2>4, Zenon DEF BlockInProgress
<1>9. Digested'
  BY Zenon DEF Inv, Digested
<1> QED BY <1>3, <1>6, <1>7, <1>8, <1>9, Zenon DEF Inv

\* A sequence appends its bytes.
LEMMA ExecuteHolds ==
  ASSUME Inv, NEW lits \in Seq(Byte), NEW offset \in Nat, NEW ml \in Nat \ {0}, NEW inline \in BOOLEAN,
         ExecuteSequence(lits, offset, ml, inline)
  PROVE  Inv'
<1> DEFINE r == execute_one_sequence(lits, offset, ml, inline)
<1>1. /\ phase = "block" /\ Write(r.bytes)
      /\ Spent(lits)
      /\ UNCHANGED <<ceiling, compute_hash, newest, phase, delivered, output, hash, hash_dirty, window_size, checks, dict>>
  BY Zenon DEF ExecuteSequence, delivery, setting, Spent
<1>2. r.bytes \in Seq(Byte)
  BY <1>1, SequenceLaw, Zenon
<1> HIDE DEF r
<1> QED BY <1>1, <1>2, AppendHolds, Zenon

\* Back to n live bytes.
Cut(n) ==
  /\ delivered <= n /\ n <= Len(buffer)
  /\ buffer' = SubSeq(buffer, 1, n)
  /\ frame' = SubSeq(frame, 1, Len(frame) - (Len(buffer) - n))

\* try_restore_checkpoint cuts the buffer, and the frame with it, behind all that
\* was handed out.
LEMMA RolledBack ==
  ASSUME Inv, NEW n \in Nat, Cut(n), UNCHANGED <<delivered, output>>
  PROVE  /\ buffer' \in Seq(Byte) /\ Len(buffer') = n
         /\ frame' \in Seq(Byte) /\ Len(frame') = Len(frame) - (Len(buffer) - n)
         /\ BufferEndsFrame' /\ OutputBeginsFrame'
<1> DEFINE m == Len(frame) - (Len(buffer) - n)
<1>1. /\ n \in 0 .. Len(buffer) /\ m \in 0 .. Len(frame) /\ n <= m
      /\ delivered <= n /\ delivered \in Nat
      /\ Len(frame) - Len(buffer) = m - n /\ Len(frame) \in Nat /\ Len(buffer) \in Nat
      /\ m = Len(frame) - (Len(buffer) - n)
  BY Typed DEF Cut
<1>0. buffer' = SubSeq(buffer, 1, n) /\ frame' = SubSeq(frame, 1, m)
  BY Zenon DEF Cut
<1> HIDE DEF m
<1>2. buffer' \in Seq(Byte) /\ Len(buffer') = n /\ \A i \in 1 .. n : buffer'[i] = buffer[i]
  BY <1>0, <1>1, Typed, PrefixFacts, Zenon
<1>3. frame' \in Seq(Byte) /\ Len(frame') = m /\ \A i \in 1 .. m : frame'[i] = frame[i]
  <2>1. frame \in Seq(Byte)
    BY Typed, Zenon
  <2>2. /\ SubSeq(frame, 1, m) \in Seq(Byte) /\ Len(SubSeq(frame, 1, m)) = m
        /\ \A i \in 1 .. m : SubSeq(frame, 1, m)[i] = frame[i]
    BY <1>1, <2>1, PrefixFacts, Zenon
  <2> QED BY <1>0, <2>2, Zenon
<1>4. ASSUME NEW i \in 1 .. n PROVE buffer'[i] = frame'[m - n + i]
  <2>1. i \in 1 .. Len(buffer) /\ m - n + i \in 1 .. m /\ Len(frame) - Len(buffer) + i = m - n + i
    BY <1>1
  <2>2. buffer[i] = frame[Len(frame) - Len(buffer) + i]
    BY <2>1, Zenon DEF Inv, BufferEndsFrame
  <2>3. buffer[i] = frame[m - n + i]
    BY <2>1, <2>2, Zenon
  <2> QED BY <1>2, <1>3, <2>1, <2>3, Zenon
<1>5. BufferEndsFrame'
  BY <1>1, <1>2, <1>3, <1>4, Zenon DEF BufferEndsFrame
<1>6. OutputBeginsFrame'
  <2> SUFFICES ASSUME ~MixedCalls
               PROVE  /\ Len(output) = m - (n - delivered)
                      /\ \A i \in 1 .. Len(output) : output[i] = frame'[i]
    BY <1>2, <1>3, Zenon DEF OutputBeginsFrame, undelivered
  <2>1. /\ Len(output) = Len(frame) - (Len(buffer) - delivered)
        /\ \A i \in 1 .. Len(output) : output[i] = frame[i]
    BY Zenon DEF Inv, OutputBeginsFrame, undelivered
  <2>2. Len(output) \in Nat
    BY Typed, Zenon
  <2>3. Len(output) = m - (n - delivered) /\ Len(output) <= m
    BY <1>1, <2>1, <2>2
  <2>4. \A i \in 1 .. Len(output) : i \in 1 .. m
    BY <1>1, <2>2, <2>3
  <2> QED BY <1>3, <2>1, <2>3, <2>4, Zenon
<1> QED BY <1>2, <1>3, <1>5, <1>6, Zenon DEF m

\* A failed block, rolled back or not, leaves the rest as it was.
LEMMA FailedHolds ==
  ASSUME Inv, phase = "block", buffer' \in Seq(Byte), frame' \in Seq(Byte), delivered \in 0 .. Len(buffer'),
         total_output_counter' = Len(frame'), BufferEndsFrame', OutputBeginsFrame',
         phase' = "failed", block' = NoBlock, newest' = 0,
         UNCHANGED <<ceiling, compute_hash, delivered, output, hash, hash_dirty, window_size, checks, dict>>
  PROVE  Inv'
<1>1. Len(frame') \in Nat /\ Len(buffer') \in Nat
  BY LenProperties, Zenon
<1>2. TypeOK'
  BY <1>1, NoBlockTyped, Zenon DEF Inv, TypeOK
<1>3. Windowed' /\ BlockInProgress'
  BY <1>1 DEF Windowed, BlockInProgress
<1>4. Digested'
  BY Zenon DEF Inv, Digested
<1> QED BY <1>2, <1>3, <1>4, Zenon DEF Inv

\* A block that outgrew its reservation keeps what it wrote.
LEMMA UnrestoredHolds ==
  ASSUME Inv, phase = "block", NEW bytes \in Seq(Byte), Write(bytes),
         phase' = "failed", block' = NoBlock, newest' = 0,
         UNCHANGED <<ceiling, compute_hash, delivered, output, hash, hash_dirty, window_size, checks, dict>>
  PROVE  Inv'
<1>1. /\ buffer' \in Seq(Byte) /\ Len(buffer') = Len(buffer) + Len(bytes) /\ frame' \in Seq(Byte)
      /\ total_output_counter' = Len(frame') /\ BufferEndsFrame' /\ OutputBeginsFrame'
  BY WriteKeeps, Zenon
<1>2. Len(bytes) \in Nat
  BY LenProperties, Zenon
<1>3. delivered \in 0 .. Len(buffer')
  BY <1>1, <1>2, Typed, SMTT(30)
<1> QED BY <1>1, <1>3, FailedHolds, Zenon

\* A refused sequence.
LEMMA FailHolds ==
  ASSUME Inv, NEW lits \in Seq(Byte), NEW offset \in Nat, NEW ml \in Nat \ {0},
         SequenceFails(lits, offset, ml)
  PROVE  Inv'
<1> DEFINE r == execute_one_sequence(lits, offset, ml, FALSE)
<1>1. /\ phase = "block" /\ Restored(r.bytes) /\ phase' = "failed" /\ block' = NoBlock
      /\ UNCHANGED <<ceiling, compute_hash, newest, delivered, output, hash, hash_dirty, window_size, checks, dict>>
  BY Zenon DEF SequenceFails, delivery, setting
<1>2. r.bytes \in Seq(Byte)
  BY <1>1, SequenceLaw, Zenon
<1> HIDE DEF r
<1>3. newest' = 0
  BY <1>1, Zenon DEF Inv, BlockInProgress
<1>4. CASE Write(r.bytes)
  BY <1>1, <1>2, <1>3, <1>4, UnrestoredHolds, Zenon
<1>5. CASE /\ buffer' = SubSeq(buffer, 1, block.len)
           /\ total_output_counter' = block.total
           /\ frame' = SubSeq(frame, 1, Len(frame) - (Len(buffer) - block.len))
  <2> DEFINE n == block.len
             t == block.total
  <2>1. n \in Nat /\ t \in Nat /\ delivered <= n /\ n <= Len(buffer) /\ t + (Len(buffer) - n) = total_output_counter
    BY <1>1, Zenon DEF Inv, TypeOK, BlockInProgress
  <2>2. Cut(n) /\ total_output_counter' = t
    BY <1>5, <2>1, Zenon DEF Cut
  <2> HIDE DEF n, t
  <2>3. t = Len(frame) - (Len(buffer) - n) /\ delivered \in 0 .. n
    <3>1. Len(frame) \in Nat /\ Len(buffer) \in Nat /\ total_output_counter = Len(frame) /\ delivered \in Nat
      BY Typed
    <3> QED BY <2>1, <3>1
  <2>4. /\ buffer' \in Seq(Byte) /\ Len(buffer') = n /\ frame' \in Seq(Byte)
        /\ Len(frame') = Len(frame) - (Len(buffer) - n) /\ BufferEndsFrame' /\ OutputBeginsFrame'
    BY <1>1, <2>1, <2>2, RolledBack, Zenon
  <2>5. delivered \in 0 .. Len(buffer') /\ total_output_counter' = Len(frame')
    BY <2>2, <2>3, <2>4, Zenon
  <2> QED BY <1>1, <1>3, <2>4, <2>5, FailedHolds, Zenon
<1> QED BY <1>1, <1>4, <1>5, Zenon DEF Restored

\* The block's end: its last literals, and the check of what it produced.
LEMMA FinishHolds ==
  ASSUME Inv, NEW rest \in Seq(Byte), FinishSequences(rest)
  PROVE  Inv'
<1> DEFINE produced == Len(buffer) + Len(rest) - block.len
           n == block.len
<1>1. /\ phase = "block" /\ Write(rest) /\ block' = NoBlock
      /\ UNCHANGED <<ceiling, compute_hash, delivered, output, hash, hash_dirty, window_size, checks, dict>>
  BY Zenon DEF FinishSequences, delivery, setting
<1>2. \/ phase' = "failed" /\ newest' = 0
      \/ phase' = "open" /\ newest' = produced
  BY Zenon DEF FinishSequences
<1>3. /\ buffer' \in Seq(Byte) /\ Len(buffer') = Len(buffer) + Len(rest)
      /\ frame' \in Seq(Byte) /\ Len(frame') = Len(frame) + Len(rest)
      /\ total_output_counter' = Len(frame') /\ BufferEndsFrame' /\ OutputBeginsFrame'
  BY <1>1, WriteKeeps, Zenon
<1>4. n \in Nat /\ n <= Len(buffer) /\ Len(rest) \in Nat /\ Len(frame') \in Nat
  BY <1>1, <1>3, LenProperties, Zenon DEF Inv, TypeOK, BlockInProgress
<1>5. produced = Len(buffer) + Len(rest) - n
  BY Zenon
<1> HIDE DEF produced, n
<1>6. delivered \in 0 .. Len(buffer') /\ produced \in 0 .. Len(buffer')
  <2>1. Len(buffer) \in Nat /\ delivered \in 0 .. Len(buffer)
    BY Typed, Zenon
  <2>2. Len(buffer') = Len(buffer) + Len(rest)
    BY <1>3, Zenon
  <2> QED BY <1>4, <1>5, <2>1, <2>2
<1>7. CASE phase' = "failed" /\ newest' = 0
  BY <1>1, <1>3, <1>6, <1>7, FailedHolds, Zenon
<1>8. CASE phase' = "open" /\ newest' = produced
  <2>1. produced \in Nat /\ produced <= Len(buffer')
    BY <1>3, <1>4, <1>6, Typed
  <2>2. TypeOK'
    BY <1>1, <1>3, <1>4, <1>6, <1>8, <2>1, NoBlockTyped, Zenon DEF Inv, TypeOK
  <2>3. Windowed'
    BY <1>1, WriteKeepsWindow, Zenon
  <2>4. BlockInProgress'
    BY <1>3, <1>8, <2>1, Zenon DEF BlockInProgress
  <2>5. Digested'
    BY <1>1, <1>8, Zenon DEF Inv, Digested
  <2> QED BY <1>3, <2>2, <2>3, <2>4, <2>5, Zenon DEF Inv
<1> QED BY <1>2, <1>7, <1>8, Zenon

\* The frame's last block.
LEMMA FinishFrameHolds == ASSUME Inv, FinishFrame PROVE Inv'
<1>1. /\ phase = "open" /\ phase' = "finished"
      /\ UNCHANGED <<buffer, total_output_counter, ceiling, compute_hash, block, newest, frame, delivered,
                     output, hash, hash_dirty, window_size, checks, dict>>
  BY Zenon DEF FinishFrame, delivery, setting
<1>2. TypeOK' /\ BufferEndsFrame' /\ OutputBeginsFrame'
  BY <1>1, Zenon DEF Inv, TypeOK, BufferEndsFrame, OutputBeginsFrame, undelivered
<1> QED BY <1>1, <1>2, Zenon DEF Inv, BlockInProgress, Windowed, Digested

\* A frame decoded past the buffer: nothing waits, and all of it was handed out.
LEMMA DirectHolds ==
  ASSUME Inv, NEW bytes \in Seq(Byte), DirectDecode(bytes)
  PROVE  Inv'
<1>1. /\ phase = "open" /\ frame = << >> /\ frame' = bytes /\ output' = bytes
      /\ total_output_counter' = Len(bytes) /\ hash' = (IF checks THEN bytes ELSE hash)
      /\ hash_dirty' = (hash_dirty \/ checks) /\ phase' = "finished"
      /\ UNCHANGED <<buffer, delivered, ceiling, compute_hash, block, newest, window_size, checks, dict>>
  BY Zenon DEF DirectDecode, setting
<1>2. Len(frame) = 0 /\ Len(bytes) \in Nat
  BY <1>1, EmptySeq, LenProperties, Zenon
<1>3. Len(buffer) = 0 /\ delivered = 0 /\ buffer = << >>
  <2>1. Len(buffer) = 0 /\ delivered = 0
    BY <1>2, Typed
  <2> QED BY <2>1, Typed, EmptySeq, Zenon
<1>4. TypeOK'
  BY <1>1, <1>2, Zenon DEF Inv, TypeOK
<1>5. BufferEndsFrame' /\ OutputBeginsFrame'
  BY <1>1, <1>2, <1>3 DEF BufferEndsFrame, OutputBeginsFrame, undelivered
<1>6. BlockInProgress' /\ Windowed'
  BY <1>1, Zenon DEF Inv, BlockInProgress, Windowed
<1>7. Digested'
  BY <1>1, <1>3, Zenon DEF Inv, Digested
<1> QED BY <1>4, <1>5, <1>6, <1>7, Zenon DEF Inv

\* The bytes t are the next that wait, and d is how far they reach.
NextWaiting(t, d) ==
  /\ d = delivered + Len(t)
  /\ \A i \in 1 .. Len(t) : t[i] = buffer[delivered + i]

\* The digest learns that it was written to.
Noted(t) ==
  /\ hash_dirty' \in BOOLEAN
  /\ hash_dirty \/ (compute_hash /\ t # << >>) => hash_dirty'

\* Bytes handed out and released: the output goes on in order, the window stays.
LEMMA DeliveredHolds ==
  ASSUME Inv, phase # "block", buffer # << >>, NEW t \in Seq(Byte), NEW d \in 0 .. Len(buffer),
         ~MixedCalls => NextWaiting(t, d),
         NEW keep_window \in BOOLEAN, keep_window \/ phase = "finished",
         HandOut(t), Release(d, keep_window), Noted(t), newest' = 0,
         UNCHANGED <<total_output_counter, ceiling, compute_hash, block, phase, frame, window_size, checks, dict>>
  PROVE  Inv'
<1>1. /\ buffer' \in Seq(Byte) /\ delivered' \in 0 .. Len(buffer') /\ Len(buffer') \in 0 .. Len(buffer)
      /\ Len(buffer') - delivered' = Len(buffer) - d
      /\ BufferEndsFrame'
      /\ keep_window => /\ Len(buffer') = Len(buffer) \/ Len(buffer') >= window_size
                        /\ d = Len(buffer) => Len(buffer') <= window_size
  BY ReleaseFacts, Zenon
<1>2. output' = output \o t /\ hash' = IF compute_hash THEN hash \o t ELSE hash
  BY Zenon DEF HandOut
<1>3. output \o t \in Seq(Byte) /\ hash \o t \in Seq(Byte) /\ hash \in Seq(Byte)
  BY Typed, Joined, Zenon
<1>4. TypeOK'
  <2>1. output' \in Seq(Byte) /\ hash' \in Seq(Byte)
    BY <1>2, <1>3, Zenon
  <2>2. hash_dirty' \in BOOLEAN
    BY Zenon DEF Noted
  <2> QED BY <1>1, <2>1, <2>2, Zenon DEF Inv, TypeOK
<1>5. OutputBeginsFrame'
  <2> SUFFICES ASSUME ~MixedCalls
               PROVE  /\ Len(output') = Len(frame) - (Len(buffer') - delivered')
                      /\ \A i \in 1 .. Len(output') : output'[i] = frame[i]
    BY Zenon DEF OutputBeginsFrame, undelivered
  <2>1. /\ Len(output) = Len(frame) - undelivered
        /\ \A i \in 1 .. Len(output) : output[i] = frame[i]
    BY Zenon DEF Inv, OutputBeginsFrame
  <2>2. d = delivered + Len(t) /\ \A i \in 1 .. Len(t) : t[i] = buffer[delivered + i]
    BY Zenon DEF NextWaiting
  <2>3. Len(t) <= undelivered /\ undelivered - Len(t) = Len(buffer) - d
    <3>1. Len(t) \in Nat
      BY LenProperties, Zenon
    <3> QED BY <2>2, <3>1, Typed DEF undelivered
  <2>4. /\ Len(output') = Len(frame) - (undelivered - Len(t))
        /\ \A i \in 1 .. Len(output') : output'[i] = frame[i]
    BY <1>2, <2>1, <2>2, <2>3, HandOutKeeps, Zenon
  <2> QED BY <1>1, <2>3, <2>4, Zenon
<1>6. BlockInProgress'
  BY <1>1, Typed DEF BlockInProgress
<1>7. Windowed'
  <2> SUFFICES ASSUME phase = "open"
               PROVE  /\ Len(buffer') >= window_size \/ Len(buffer') >= Len(frame)
                      /\ Len(buffer') - delivered' = 0 => Len(buffer') <= window_size
    BY Zenon DEF Windowed, undelivered
  <2>1. Len(buffer) >= window_size \/ Len(buffer) >= Len(frame)
    BY Zenon DEF Inv, Windowed
  <2>2. /\ Len(buffer') = Len(buffer) \/ Len(buffer') >= window_size
        /\ d = Len(buffer) => Len(buffer') <= window_size
    BY <1>1, Zenon
  <2>3. Len(buffer) - d = 0 => d = Len(buffer)
    BY Typed
  <2> QED BY <1>1, <2>1, <2>2, <2>3, Zenon
<1>8. Digested'
  <2>1. checks => compute_hash /\ hash = output
    BY Zenon DEF Inv, Digested
  <2>2. checks => hash' = output'
    BY <1>2, <2>1, Zenon
  <2>3. ASSUME hash' # << >> PROVE hash_dirty'
    <3>1. CASE hash # << >>
      BY <3>1, Zenon DEF Inv, Digested, Noted
    <3>2. CASE hash = << >>
      <4>1. compute_hash
        BY <1>2, <2>3, <3>2, Zenon
      <4>2. << >> \o t = t
        BY ConcatEmptySeq, Zenon
      <4>3. t # << >>
        BY <1>2, <2>3, <3>2, <4>1, <4>2, Zenon
      <4> QED BY <4>1, <4>3, Zenon DEF Noted
    <3> QED BY <3>1, <3>2, Zenon
  <2> QED BY <2>1, <2>2, <2>3, Zenon DEF Digested
<1> QED BY <1>1, <1>4, <1>5, <1>6, <1>7, <1>8, Zenon DEF Inv

\* What the sink takes of the two pieces waits, and it takes of the second, which
\* begins at s1, only at the first one's end.
Reaching(s1, w1, w2) ==
  /\ w1 + w2 <= undelivered
  /\ w2 > 0 => delivered + w1 = s1

\* What it took.
Pieces(s1, w1, w2) ==
  SubSeq(buffer, delivered + 1, delivered + w1) \o SubSeq(buffer, s1 + 1, s1 + w2)

\* The two pieces deliver_to hands its sink are the next bytes that wait: the
\* second is taken from only when the first was taken to its end.
LEMMA TwoPieces ==
  ASSUME Inv, NEW s1 \in 1 .. Len(buffer), NEW w1 \in Nat, NEW w2 \in Nat,
         Reaching(s1, w1, w2)
  PROVE  /\ Pieces(s1, w1, w2) \in Seq(Byte) /\ Len(Pieces(s1, w1, w2)) = w1 + w2
         /\ NextWaiting(Pieces(s1, w1, w2), delivered + w1 + w2)
<1> DEFINE a == SubSeq(buffer, delivered + 1, delivered + w1)
           z == SubSeq(buffer, s1 + 1, s1 + w2)
<1>1. /\ buffer \in Seq(Byte) /\ Len(buffer) \in Nat /\ delivered \in Nat /\ s1 \in Nat
      /\ delivered + w1 <= Len(buffer) /\ s1 + w2 <= Len(buffer)
      /\ delivered + w1 + w2 = delivered + (w1 + w2)
  <2>1. /\ buffer \in Seq(Byte) /\ Len(buffer) \in Nat /\ delivered \in Nat
        /\ w1 + w2 <= Len(buffer) - delivered
    BY Typed DEF undelivered, Reaching
  <2>2. w2 = 0 \/ (w2 > 0 /\ delivered + w1 = s1)
    BY DEF Reaching
  <2> QED BY <2>1, <2>2
<1>2. a \in Seq(Byte) /\ Len(a) = w1 /\ \A i \in 1 .. w1 : a[i] = buffer[delivered + i]
  BY <1>1, PieceFacts
<1>3. z \in Seq(Byte) /\ Len(z) = w2 /\ \A i \in 1 .. w2 : z[i] = buffer[s1 + i]
  BY <1>1, PieceFacts
<1>4. Pieces(s1, w1, w2) = a \o z
  BY Zenon DEF Pieces
<1> HIDE DEF a, z
<1>5. /\ a \o z \in Seq(Byte) /\ Len(a \o z) = w1 + w2
      /\ \A i \in 1 .. w1 + w2 : (a \o z)[i] = IF i <= w1 THEN a[i] ELSE z[i - w1]
  BY <1>2, <1>3, Joined, Zenon
<1>6. ASSUME NEW i \in 1 .. w1 + w2 PROVE (a \o z)[i] = buffer[delivered + i]
  <2>1. CASE i <= w1
    <3>1. i \in 1 .. w1
      BY <2>1
    <3> QED BY <1>2, <1>5, <2>1, <3>1, Zenon
  <2>2. CASE ~(i <= w1)
    <3> DEFINE k == i - w1
    <3>1. k \in 1 .. w2 /\ w2 > 0
      BY <2>2
    <3>2. delivered + w1 = s1 /\ s1 + k = delivered + i
      BY <1>1, <3>1 DEF Reaching
    <3>3. (a \o z)[i] = z[k]
      BY <1>5, <2>2, Zenon
    <3> HIDE DEF k
    <3> QED BY <1>3, <3>1, <3>2, <3>3, Zenon
  <2> QED BY <2>1, <2>2, Zenon
<1> QED BY <1>1, <1>4, <1>5, <1>6, Zenon DEF NextWaiting

\* deliver_to, whatever the slices and wherever the sink stops.
LEMMA DeliverHolds ==
  ASSUME Inv, NEW amount \in 0 .. undelivered, NEW keep_window \in BOOLEAN, NEW s1 \in 1 .. Len(buffer),
         NEW w1 \in 0 .. amount, NEW w2 \in 0 .. amount, Deliver(amount, keep_window, s1, w1, w2)
  PROVE  Inv'
<1> DEFINE wraps == delivered < s1
           n1 == Min2(IF wraps THEN s1 - delivered ELSE undelivered, amount)
           n2 == Min2(IF wraps THEN Len(buffer) - s1 ELSE 0, amount - n1)
           t == Pieces(s1, w1, w2)
           d == delivered + w1 + w2
<1>1. /\ phase # "block" /\ w1 \in 0 .. n1 /\ w2 \in 0 .. (IF w1 = n1 THEN n2 ELSE 0)
      /\ keep_window \/ phase = "finished"
  BY Zenon DEF Deliver
<1>2. /\ HandOut(t) /\ Release(d, keep_window) /\ newest' = 0
      /\ hash_dirty' = (hash_dirty \/ (compute_hash /\ amount # 0))
      /\ UNCHANGED <<total_output_counter, ceiling, compute_hash, block, phase, frame, window_size, checks, dict>>
  BY Zenon DEF Deliver, setting, Pieces
<1>3. /\ Len(buffer) \in Nat /\ delivered \in 0 .. Len(buffer) /\ undelivered = Len(buffer) - delivered
      /\ buffer # << >> /\ amount \in Nat /\ w1 \in Nat /\ w2 \in Nat /\ amount <= undelivered
  BY Typed, EmptySeq DEF undelivered
<1>4. /\ n1 \in Nat /\ n1 <= amount /\ n1 <= undelivered /\ n2 <= amount - n1
      /\ w2 > 0 => /\ w1 = n1 /\ n1 = s1 - delivered
                   /\ w2 <= Len(buffer) - s1 /\ w2 <= amount - n1
  <2>1. CASE wraps
    <3> DEFINE x == s1 - delivered
               y == Len(buffer) - s1
    <3>1. x \in Nat /\ y \in Nat /\ x <= undelivered
      BY <1>3, <2>1
    <3>2. n1 = Min2(x, amount) /\ n2 = Min2(y, amount - n1)
      BY <2>1, Zenon
    <3> HIDE DEF x, y, n1, n2
    <3>3. n1 \in Nat /\ n1 <= amount /\ n1 <= x /\ (n1 # x => n1 = amount)
      BY <1>3, <3>1, <3>2 DEF Min2
    <3>4. n2 \in Int /\ n2 <= y /\ n2 <= amount - n1
      BY <1>3, <3>1, <3>2, <3>3 DEF Min2
    <3>5. w2 > 0 => w1 = n1 /\ w2 <= n2
      BY <1>1, <1>3, <3>4
    <3>6. w2 > 0 => n1 = x /\ w2 <= y
      BY <1>3, <3>1, <3>3, <3>4, <3>5
    <3> QED BY <1>3, <2>1, <3>1, <3>3, <3>4, <3>5, <3>6 DEF x, y
  <2>2. CASE ~wraps
    <3>1. n1 = Min2(undelivered, amount) /\ n2 = Min2(0, amount - n1)
      BY <2>2, Zenon
    <3> HIDE DEF n1, n2
    <3>2. n1 \in Nat /\ n1 <= amount /\ n1 <= undelivered
      BY <1>3, <3>1 DEF Min2
    <3>3. n2 \in Int /\ n2 <= 0 /\ n2 <= amount - n1
      <4> DEFINE z == amount - n1
      <4>1. z \in Nat /\ n2 = Min2(0, z)
        BY <1>3, <3>1, <3>2
      <4> HIDE DEF z
      <4>2. n2 \in Int /\ n2 <= 0 /\ n2 <= z
        BY <4>1 DEF Min2
      <4> QED BY <4>2, Zenon DEF z
    <3>4. ~(w2 > 0)
      BY <1>1, <1>3, <3>3
    <3> QED BY <3>2, <3>3, <3>4, Zenon
  <2> QED BY <2>1, <2>2, Zenon
<1>5. w1 + w2 <= undelivered /\ w1 + w2 <= amount /\ (w2 > 0 => delivered + w1 = s1)
  <2>1. w1 <= n1
    BY <1>1, <1>4
  <2> HIDE DEF n1, n2, wraps
  <2>2. CASE w2 = 0
    BY <1>3, <1>4, <2>1, <2>2
  <2>3. CASE w2 # 0
    <3>1. w2 > 0
      BY <1>3, <2>3
    <3>2. w1 = n1 /\ n1 = s1 - delivered /\ w2 <= Len(buffer) - s1 /\ w2 <= amount - n1
      BY <1>4, <3>1, Zenon
    <3> QED BY <1>3, <1>4, <3>1, <3>2
  <2> QED BY <2>2, <2>3, Zenon
<1>6. t \in Seq(Byte) /\ Len(t) = w1 + w2 /\ NextWaiting(t, d)
  <2>1. Reaching(s1, w1, w2)
    BY <1>5, Zenon DEF Reaching
  <2> QED BY <1>3, <2>1, TwoPieces, Zenon
<1>7. d \in 0 .. Len(buffer)
  BY <1>3, <1>5
<1> HIDE DEF t, d
<1>8. t # << >> => amount # 0
  BY <1>3, <1>5, <1>6, EmptySeq
<1>9. Noted(t)
  BY <1>2, <1>8, Zenon DEF Noted, Inv, TypeOK
<1> QED BY <1>1, <1>2, <1>3, <1>6, <1>7, <1>9, DeliveredHolds, Zenon

\* deliver_newest, when only its own block waits.
LEMMA NewestHolds == ASSUME Inv, DeliverNewest PROVE Inv'
<1> DEFINE t == Suffix(buffer, newest)
<1>1. /\ phase \in {"open", "finished"} /\ newest > 0 /\ (MixedCalls \/ undelivered = newest)
      /\ HandOut(t) /\ Release(Len(buffer), TRUE) /\ newest' = 0
      /\ hash_dirty' = (hash_dirty \/ compute_hash)
      /\ UNCHANGED <<total_output_counter, ceiling, compute_hash, block, phase, frame, window_size, checks, dict>>
  BY Zenon DEF DeliverNewest, setting
<1>2. newest \in 0 .. Len(buffer) /\ Len(buffer) # 0
  BY <1>1, Typed DEF Inv, BlockInProgress
<1>3. t \in Seq(Byte) /\ Len(t) = newest /\ \A i \in 1 .. newest : t[i] = buffer[Len(buffer) - newest + i]
  BY <1>2, Typed, SuffixFacts
<1> HIDE DEF t
<1>4. ASSUME ~MixedCalls PROVE NextWaiting(t, Len(buffer))
  <2>1. Len(buffer) - newest = delivered /\ Len(buffer) = delivered + newest
    <3>1. Len(buffer) - delivered = newest
      BY <1>1, <1>4, Zenon DEF undelivered
    <3> QED BY <1>2, <3>1, Typed, SMTT(30)
  <2> QED BY <1>3, <2>1, Zenon DEF NextWaiting
<1>5. Len(buffer) \in 0 .. Len(buffer) /\ buffer # << >>
  BY <1>2, Typed, EmptySeq
<1>6. Noted(t)
  BY <1>1, Zenon DEF Noted, Inv, TypeOK
<1> QED BY <1>1, <1>3, <1>4, <1>5, <1>6, DeliveredHolds, Zenon

\* The end of an end, and an end carried on.
LEMMA EndsFacts ==
  ASSUME NEW q \in Seq(Byte), NEW h \in Seq(Byte), Ends(q, h)
  PROVE  /\ \A n \in 0 .. Len(q) : Ends(Suffix(q, n), h)
         /\ \A c \in Seq(Byte) : Ends(q \o c, h \o c)
<1>1. Len(q) \in Nat /\ Len(h) \in Nat /\ Len(q) <= Len(h)
  BY LenProperties, Zenon DEF Ends
<1>2. ASSUME NEW n \in 0 .. Len(q) PROVE Ends(Suffix(q, n), h)
  <2>1. Len(Suffix(q, n)) = n /\ \A i \in 1 .. n : Suffix(q, n)[i] = q[Len(q) - n + i]
    BY <1>1, SuffixFacts, Zenon
  <2>2. ASSUME NEW i \in 1 .. n PROVE Suffix(q, n)[i] = h[Len(h) - n + i]
    <3> DEFINE j == Len(q) - n + i
    <3>1. j \in 1 .. Len(q) /\ Len(h) - Len(q) + j = Len(h) - n + i
      BY <1>1
    <3> HIDE DEF j
    <3>2. q[j] = h[Len(h) - n + i]
      BY <3>1, Zenon DEF Ends
    <3> QED BY <2>1, <3>2, Zenon DEF j
  <2>3. n <= Len(h)
    BY <1>1
  <2> QED BY <2>1, <2>2, <2>3, Zenon DEF Ends
<1>3. ASSUME NEW c \in Seq(Byte) PROVE Ends(q \o c, h \o c)
  <2>1. /\ Len(q \o c) = Len(q) + Len(c) /\ Len(c) \in Nat
        /\ \A i \in 1 .. Len(q) + Len(c) : (q \o c)[i] = IF i <= Len(q) THEN q[i] ELSE c[i - Len(q)]
    BY Joined, Zenon
  <2>2. /\ Len(h \o c) = Len(h) + Len(c)
        /\ \A i \in 1 .. Len(h) + Len(c) : (h \o c)[i] = IF i <= Len(h) THEN h[i] ELSE c[i - Len(h)]
    BY Joined, Zenon
  <2>3. ASSUME NEW i \in 1 .. Len(q) + Len(c)
        PROVE  (q \o c)[i] = (h \o c)[Len(h) + Len(c) - (Len(q) + Len(c)) + i]
    <3> DEFINE j == Len(h) + Len(c) - (Len(q) + Len(c)) + i
    <3>1. /\ j \in 1 .. Len(h) + Len(c) /\ j = Len(h) - Len(q) + i
          /\ (j <= Len(h) <=> i <= Len(q)) /\ j - Len(h) = i - Len(q)
      BY <1>1, <2>1
    <3> HIDE DEF j
    <3>2. CASE i <= Len(q)
      <4>1. i \in 1 .. Len(q)
        BY <1>1, <3>2
      <4>2. q[i] = h[j]
        BY <3>1, <4>1, Zenon DEF Ends
      <4> QED BY <2>1, <2>2, <3>1, <3>2, <4>2, Zenon DEF j
    <3>3. CASE ~(i <= Len(q))
      BY <2>1, <2>2, <3>1, <3>3, Zenon DEF j
    <3> QED BY <3>2, <3>3, Zenon
  <2>4. Len(q) + Len(c) <= Len(h) + Len(c)
    BY <1>1, <2>1
  <2> QED BY <2>1, <2>2, <2>3, <2>4 DEF Ends
<1> QED BY <1>2, <1>3, Zenon

\* insert_block: what the caller already holds joins the history and the output.
LEMMA InsertHolds ==
  ASSUME Inv, NEW content \in Seq(Byte), InsertBlock(content)
  PROVE  Inv'
<1> DEFINE all == buffer \o content
           kept == Min2(Len(all), window_size)
<1>1. /\ phase = "open" /\ ~checks /\ (MixedCalls \/ undelivered = 0)
      /\ buffer' = Suffix(all, kept) /\ delivered' = kept
      /\ total_output_counter' = total_output_counter + Len(content)
      /\ frame' = frame \o content /\ output' = output \o content /\ newest' = 0
      /\ UNCHANGED <<ceiling, compute_hash, hash, hash_dirty, block, phase, window_size, checks, dict>>
  BY Zenon DEF InsertBlock, setting
<1>2. /\ all \in Seq(Byte) /\ Len(all) = Len(buffer) + Len(content) /\ Len(content) \in Nat
      /\ Len(buffer) \in Nat /\ Len(all) \in Nat
  BY Typed, Joined, LenProperties, Zenon
<1>3. /\ frame' \in Seq(Byte) /\ Len(frame') = Len(frame) + Len(content) /\ Len(frame') \in Nat
      /\ \A i \in 1 .. Len(frame) + Len(content) :
            frame'[i] = IF i <= Len(frame) THEN frame[i] ELSE content[i - Len(frame)]
  BY <1>1, Typed, Joined, LenProperties, Zenon
<1>4. /\ output' \in Seq(Byte) /\ Len(output') = Len(output) + Len(content)
      /\ \A i \in 1 .. Len(output) + Len(content) :
            output'[i] = IF i <= Len(output) THEN output[i] ELSE content[i - Len(output)]
  BY <1>1, Typed, Joined, Zenon
<1>5. /\ kept \in 0 .. Len(all) /\ kept <= window_size
      /\ kept = Len(all) \/ kept = window_size
  BY <1>2, Typed DEF Min2
<1>6. Ends(all, frame')
  <2>1. Ends(buffer, frame)
    BY Zenon DEF Inv, BufferEndsFrame, Ends
  <2> QED BY <1>1, <2>1, Typed, EndsFacts, Zenon
<1> HIDE DEF all, kept
<1>7. buffer' \in Seq(Byte) /\ Len(buffer') = kept
  BY <1>1, <1>2, <1>5, SuffixFacts, Zenon
<1>8. BufferEndsFrame'
  <2>1. Ends(buffer', frame')
    BY <1>1, <1>2, <1>3, <1>5, <1>6, EndsFacts, Zenon
  <2> QED BY <2>1, Zenon DEF Ends, BufferEndsFrame
<1>9. TypeOK'
  <2>1. delivered' \in 0 .. Len(buffer') /\ total_output_counter' \in Nat /\ newest' \in Nat
    <3>1. kept \in Nat /\ kept \in 0 .. kept
      BY <1>2, <1>5
    <3>2. Len(frame) + Len(content) \in Nat /\ total_output_counter' = Len(frame) + Len(content)
      <4>1. total_output_counter' = total_output_counter + Len(content)
        BY <1>1, Zenon
      <4>2. total_output_counter = Len(frame) /\ Len(frame) \in Nat
        BY Typed, Zenon
      <4>3. Len(content) \in Nat
        BY <1>2, Zenon
      <4> QED BY <4>1, <4>2, <4>3
    <3> QED BY <1>1, <1>7, <3>1, <3>2, Zenon
  <2> QED BY <1>1, <1>3, <1>4, <1>7, <2>1, Zenon DEF Inv, TypeOK
<1>10. OutputBeginsFrame'
  <2> SUFFICES ASSUME ~MixedCalls
               PROVE  /\ Len(output') = Len(frame') - (Len(buffer') - delivered')
                      /\ \A i \in 1 .. Len(output') : output'[i] = frame'[i]
    BY Zenon DEF OutputBeginsFrame, undelivered
  <2>1. /\ Len(output) = Len(frame) - undelivered /\ undelivered = 0
        /\ \A i \in 1 .. Len(output) : output[i] = frame[i]
    BY <1>1, Zenon DEF Inv, OutputBeginsFrame
  <2>2. Len(output) = Len(frame)
    BY <2>1, Typed
  <2>3. Len(output') = Len(frame') /\ Len(buffer') - delivered' = 0
    BY <1>1, <1>2, <1>3, <1>4, <1>5, <1>7, <2>2
  <2>4. ASSUME NEW i \in 1 .. Len(frame) + Len(content) PROVE output'[i] = frame'[i]
    <3>1. i <= Len(frame) => i \in 1 .. Len(output)
      BY <2>2, Typed
    <3> QED BY <1>3, <1>4, <2>1, <2>2, <3>1, Zenon
  <2>5. Len(output') = Len(frame) + Len(content) /\ Len(frame') - 0 = Len(frame')
    BY <1>3, <2>3
  <2> QED BY <2>3, <2>4, <2>5, Zenon
<1>11. BlockInProgress'
  <2>1. total_output_counter' = Len(frame')
    BY <1>1, <1>3, Typed, Zenon
  <2>2. newest' <= Len(buffer')
    BY <1>1, <1>2, <1>5, <1>7
  <2> QED BY <1>1, <2>1, <2>2, Zenon DEF BlockInProgress
<1>12. Windowed'
  <2>1. Len(buffer) >= window_size \/ Len(buffer) >= Len(frame)
    BY <1>1, Zenon DEF Inv, Windowed
  <2>2. kept >= window_size \/ kept >= Len(frame) + Len(content)
    <3>1. /\ window_size \in Nat /\ Len(frame) \in Nat /\ Len(buffer) \in Nat /\ Len(content) \in Nat
          /\ Len(all) = Len(buffer) + Len(content)
      BY <1>2, Typed, Zenon
    <3>2. CASE kept = window_size
      BY <3>1, <3>2
    <3>3. CASE kept = Len(all)
      <4>1. Len(buffer) + Len(content) >= window_size \/ Len(buffer) + Len(content) >= Len(frame) + Len(content)
        BY <2>1, <3>1
      <4> QED BY <3>1, <3>3, <4>1, Zenon
    <3> QED BY <1>5, <3>2, <3>3, Zenon
  <2> QED BY <1>1, <1>3, <1>5, <1>7, <2>2, Zenon DEF Windowed
<1>13. Digested'
  BY <1>1, Zenon DEF Inv, Digested
<1> QED BY <1>8, <1>9, <1>10, <1>11, <1>12, <1>13, Zenon DEF Inv

\* Every step keeps the invariant.
LEMMA StepHolds == Inv /\ [Next]_vars => Inv'
<1> SUFFICES ASSUME Inv, [Next]_vars PROVE Inv'
  BY Zenon
<1>0. BlockLimit \in Nat /\ block.literals \in Nat /\ \A lits \in Seq(Byte) : Offsets(lits) \subseteq Nat
  BY DecodeBufferAssumption DEF Inv, TypeOK, Offsets
<1>1. CASE Reset
  BY <1>1, ResetHolds, Zenon
<1>2. CASE \E bytes \in Bytes(BlockLimit) : PushBlock(bytes)
  BY <1>0, <1>2, BytesFacts, PushHolds, Zenon
<1>3. CASE \E n \in 0 .. BlockLimit : BeginSequences(n)
  <2>1. PICK n \in 0 .. BlockLimit : BeginSequences(n)
    BY <1>3, Zenon
  <2>2. n \in Nat
    BY <1>0
  <2> QED BY <2>1, <2>2, BeginHolds, Zenon
<1>4. CASE \E lits \in Bytes(block.literals), ml \in Lengths, inline \in BOOLEAN :
             \E offset \in Offsets(lits) : ExecuteSequence(lits, offset, ml, inline)
  <2>0. PICK lits \in Bytes(block.literals), ml \in Lengths, inline \in BOOLEAN :
                \E offset \in Offsets(lits) : ExecuteSequence(lits, offset, ml, inline)
    BY <1>4, Zenon
  <2>1. PICK offset \in Offsets(lits) : ExecuteSequence(lits, offset, ml, inline)
    BY <2>0, Zenon
  <2>2. lits \in Seq(Byte)
    BY <1>0, BytesFacts, Zenon
  <2>3. offset \in Nat /\ ml \in Nat \ {0}
    BY <1>0, <2>2 DEF Lengths
  <2> QED BY <2>1, <2>2, <2>3, ExecuteHolds, Zenon
<1>5. CASE \E lits \in Bytes(block.literals), ml \in Lengths :
             \E offset \in Offsets(lits) : SequenceFails(lits, offset, ml)
  <2>0. PICK lits \in Bytes(block.literals), ml \in Lengths :
                \E offset \in Offsets(lits) : SequenceFails(lits, offset, ml)
    BY <1>5, Zenon
  <2>1. PICK offset \in Offsets(lits) : SequenceFails(lits, offset, ml)
    BY <2>0, Zenon
  <2>2. lits \in Seq(Byte)
    BY <1>0, BytesFacts, Zenon
  <2>3. offset \in Nat /\ ml \in Nat \ {0}
    BY <1>0, <2>2 DEF Lengths
  <2> QED BY <2>1, <2>2, <2>3, FailHolds, Zenon
<1>6. CASE \E rest \in Bytes(block.literals) : FinishSequences(rest)
  BY <1>0, <1>6, BytesFacts, FinishHolds, Zenon
<1>7. CASE FinishFrame
  BY <1>7, FinishFrameHolds, Zenon
<1>8. CASE \E bytes \in Bytes(BlockLimit) : DirectDecode(bytes)
  BY <1>0, <1>8, BytesFacts, DirectHolds, Zenon
<1>9. CASE \E amount \in 0 .. undelivered, keep_window \in BOOLEAN, s1 \in 1 .. Len(buffer) :
             \E w1, w2 \in 0 .. amount : Deliver(amount, keep_window, s1, w1, w2)
  BY <1>9, DeliverHolds, Zenon
<1>10. CASE DeliverNewest
  BY <1>10, NewestHolds, Zenon
<1>11. CASE \E content \in Bytes(BlockLimit) : InsertBlock(content)
  BY <1>0, <1>11, BytesFacts, InsertHolds, Zenon
<1>12. CASE UNCHANGED vars
  <2>1. UNCHANGED <<buffer, delivered, total_output_counter, window_size, ceiling, compute_hash,
                    hash, hash_dirty, checks, dict, block, newest, phase, frame, output>>
    BY <1>12, Zenon DEF vars
  <2> QED BY <2>1 DEF Inv, TypeOK, BufferEndsFrame, OutputBeginsFrame, BlockInProgress, Windowed, Digested,
                      undelivered, block_maximum
<1> QED BY <1>1, <1>2, <1>3, <1>4, <1>5, <1>6, <1>7, <1>8, <1>9, <1>10, <1>11, <1>12, Zenon DEF Next

-----------------------------------------------------------------------------
(* The theorems                                                             *)

\* The invariant holds throughout.
THEOREM InvariantTheorem == Spec => []Inv
BY InitHolds, StepHolds, PTL DEF Spec

\* Whatever sizes a caller reads in, wherever the backend's slices split and however
\* often a sink stops short, deliver_to and deliver_newest hand out the frame in
\* order, the counter counts it and the digest is that of what was handed out, for
\* callers that do not mix decode_block with uncollected output.
THEOREM OrderTheorem == ~MixedCalls => (Spec => []OutputInOrder)
<1> SUFFICES ASSUME ~MixedCalls PROVE Spec => []OutputInOrder
  BY Zenon
<1>1. Inv => OutputInOrder
  <2> SUFFICES ASSUME Inv PROVE OutputInOrder
    BY Zenon
  <2> DEFINE w == Suffix(buffer, undelivered)
             n == undelivered
  <2>1. n \in 0 .. Len(buffer) /\ n = Len(buffer) - delivered /\ Len(buffer) \in Nat /\ Len(frame) \in Nat
        /\ Len(buffer) <= Len(frame)
    BY Typed DEF undelivered
  <2>2. Len(output) = Len(frame) - n /\ \A i \in 1 .. Len(output) : output[i] = frame[i]
    BY Zenon DEF Inv, OutputBeginsFrame
  <2> HIDE DEF n
  <2>3. w \in Seq(Byte) /\ Len(w) = n /\ \A i \in 1 .. n : w[i] = buffer[Len(buffer) - n + i]
    BY <2>1, Typed, SuffixFacts, Zenon DEF n
  <2> HIDE DEF w
  <2>4. /\ output \o w \in Seq(Byte) /\ Len(output \o w) = Len(output) + n
        /\ \A i \in 1 .. Len(output) + n : (output \o w)[i] = IF i <= Len(output) THEN output[i] ELSE w[i - Len(output)]
    BY <2>3, Typed, Joined, Zenon
  <2>5. Len(output) + n = Len(frame) /\ Len(output) \in Nat /\ n \in Nat
    BY <2>1, <2>2
  <2>6. ASSUME NEW i \in 1 .. Len(frame) PROVE (output \o w)[i] = frame[i]
    <3>1. CASE i <= Len(output)
      BY <2>2, <2>4, <2>5, <3>1
    <3>2. CASE ~(i <= Len(output))
      <4> DEFINE k == i - Len(output)
                 j == Len(buffer) - n + k
      <4>1. k \in 1 .. n /\ j \in 1 .. Len(buffer) /\ Len(frame) - Len(buffer) + j = i
        BY <2>1, <2>5, <3>2, SMTT(30)
      <4>2. (output \o w)[i] = w[k]
        BY <2>4, <2>5, <3>2, Zenon
      <4> HIDE DEF k
      <4>3. w[k] = buffer[j]
        BY <2>3, <4>1, Zenon
      <4> HIDE DEF j
      <4>4. buffer[j] = frame[Len(frame) - Len(buffer) + j]
        BY <4>1, Zenon DEF Inv, BufferEndsFrame
      <4> QED BY <4>1, <4>2, <4>3, <4>4, Zenon
    <3> QED BY <3>1, <3>2, Zenon
  <2>7. output \o w = frame
    BY <2>4, <2>5, <2>6, Typed, SeqEqual, Zenon
  <2> QED BY <2>7, Typed, Zenon DEF OutputInOrder, Inv, Digested, w
<1> QED BY <1>1, InvariantTheorem, PTL

\* release_delivered never lets go of history a match may need, and keeps no more
\* than the window once everything was taken.
THEOREM WindowTheorem == Spec => []WindowKept
<1>1. Inv => WindowKept
  <2> SUFFICES ASSUME Inv PROVE WindowKept
    BY Zenon
  <2>1. buffer = Suffix(frame, Len(buffer))
    <3> DEFINE n == Len(buffer)
    <3>1. n \in 0 .. Len(frame) /\ n = Len(buffer)
      BY Typed
    <3> HIDE DEF n
    <3>2. /\ Suffix(frame, n) \in Seq(Byte) /\ Len(Suffix(frame, n)) = n
          /\ \A i \in 1 .. n : Suffix(frame, n)[i] = frame[Len(frame) - n + i]
      BY <3>1, Typed, SuffixFacts, Zenon
    <3>3. \A i \in 1 .. n : buffer[i] = frame[Len(frame) - n + i]
      BY <3>1, Zenon DEF Inv, BufferEndsFrame
    <3>4. buffer = Suffix(frame, n)
      BY <3>1, <3>2, <3>3, Typed, SeqEqual, SMTT(30)
    <3> QED BY <3>4, Zenon DEF n
  <2>2. phase \in {"open", "block"} =>
          /\ Len(buffer) >= Min2(window_size, Len(frame))
          /\ undelivered = 0 => Len(buffer) <= window_size
    <3>1. phase \in {"open", "block"} =>
            /\ Len(buffer) >= window_size \/ Len(buffer) >= Len(frame)
            /\ undelivered = 0 => Len(buffer) <= window_size
      BY Zenon DEF Inv, Windowed
    <3> QED BY <3>1, Typed DEF Min2
  <2>3. Len(buffer) <= Len(frame)
    BY Typed, Zenon
  <2> QED BY <2>1, <2>2, <2>3, Zenon DEF WindowKept
<1> QED BY <1>1, InvariantTheorem, PTL

\* The match lies in the live bytes and the literals, or in the dictionary while it
\* is within reach; and the sequence fits the block.
Executable(lits, offset, ml) ==
  /\ Len(buffer) + Len(lits) + ml <= ceiling
  /\ \/ offset <= Len(buffer) + Len(lits)
     \/ /\ Len(frame) + Len(lits) <= window_size
        /\ offset - (Len(buffer) + Len(lits)) <= Len(dict)

\* What the cold path needs in order to execute a sequence.
LEMMA ColdExecutes ==
  ASSUME Inv, phase = "block", NEW lits \in Seq(Byte), NEW offset \in Nat \ {0}, NEW ml \in Nat \ {0},
         Executable(lits, offset, ml)
  PROVE  execute_one_sequence(lits, offset, ml, FALSE).ok
<1> DEFINE q == buffer \o lits
           total == total_output_counter + Len(lits)
           r == repeat(q, total, offset, ml)
<1>1. /\ Len(q) = Len(buffer) + Len(lits) /\ Len(lits) \in Nat /\ Len(buffer) \in Nat
      /\ total = Len(frame) + Len(lits) /\ Len(frame) \in Nat /\ window_size \in Nat /\ ceiling \in Nat
      /\ Len(buffer) <= Len(frame) /\ Len(dict) \in Nat
  BY Typed, Joined, Zenon
<1> HIDE DEF q, total
<1>2. r.ok = TRUE
  <2>1. CASE offset <= Len(q)
    <3>1. ~(Len(q) + ml > ceiling) /\ ~(offset > Len(q)) /\ offset # 0 /\ ml # 0
      BY <1>1, <2>1 DEF Executable
    <3> QED BY <3>1, Zenon DEF repeat, Copied
  <2>2. CASE ~(offset <= Len(q))
    <3>1. /\ ~(Max2(total, Len(q)) > window_size) /\ ~(offset - Len(q) > Len(dict)) /\ ~(Len(q) + ml > ceiling)
          /\ offset > Len(q) /\ offset # 0 /\ ml # 0
      BY <1>1, <2>2 DEF Max2, Executable
    <3>2. repeat_from_dict(q, total, offset, ml).ok = TRUE
      BY <3>1, Zenon DEF repeat_from_dict, Copied
    <3> QED BY <3>1, <3>2, Zenon DEF repeat
  <2> QED BY <2>1, <2>2, Zenon
<1> DEFINE x == execute_one_sequence(lits, offset, ml, FALSE)
<1>3. x = [ok |-> r.ok, bytes |-> lits \o r.bytes]
  BY Zenon DEF execute_one_sequence, q, total
<1> HIDE DEF r, x
<1>4. x.ok = r.ok
  BY <1>3, Zenon
<1>5. x.ok = TRUE
  BY <1>2, <1>4, Zenon
<1> QED BY <1>5, Zenon DEF x

\* The executor accepts every legal sequence within the block's ceiling, and its
\* inline path accepts nothing that its cold path would refuse.
THEOREM LegalTheorem == Spec => []LegalSequencesExecute
<1>1. Inv => LegalSequencesExecute
  <2> SUFFICES ASSUME Inv, phase = "block",
                      NEW lits \in Bytes(block.literals), NEW ml \in Lengths, NEW offset \in Offsets(lits)
               PROVE  LET cold == execute_one_sequence(lits, offset, ml, FALSE)
                      IN  /\ execute_one_sequence(lits, offset, ml, TRUE).ok => cold.ok
                          /\ Legal(lits, offset) /\ Len(buffer) + Len(lits) + ml <= ceiling => cold.ok
    BY Zenon DEF LegalSequencesExecute
  <2> DEFINE cold == execute_one_sequence(lits, offset, ml, FALSE)
             hot == execute_one_sequence(lits, offset, ml, TRUE)
             fits == Len(buffer) + Len(lits) + ml <= ceiling
  <2>1. lits \in Seq(Byte) /\ Len(lits) \in Nat /\ offset \in Nat /\ ml \in Nat \ {0}
    <3>1. block.literals \in Nat /\ BlockLimit \in Nat
      BY DecodeBufferAssumption, Zenon DEF Inv, TypeOK
    <3>2. lits \in Seq(Byte) /\ Len(lits) \in Nat
      BY <3>1, BytesFacts, LenProperties, Zenon
    <3> QED BY <3>1, <3>2 DEF Offsets, Lengths
  <2>2. /\ Len(buffer) \in Nat /\ Len(frame) \in Nat /\ Len(dict) \in Nat /\ window_size \in Nat
        /\ total_output_counter = Len(frame) /\ Len(buffer) <= Len(frame)
        /\ Len(buffer) >= window_size \/ Len(buffer) >= Len(frame)
    BY Typed, Zenon DEF Inv, Windowed
  <2>3. ASSUME hot.ok PROVE cold.ok
    <3>1. offset # 0
      BY <2>3, Zenon DEF execute_one_sequence, Refused
    <3>2. CASE fits /\ dict_match_source(Len(lits), offset, ml)
      <4>1. /\ offset - (Len(buffer) + Len(lits)) <= Len(dict)
            /\ Max2(Len(frame), Len(buffer)) + Len(lits) <= window_size
        BY <2>2, <3>2, Zenon DEF dict_match_source
      <4>2. Len(frame) + Len(lits) <= window_size
        BY <2>1, <2>2, <4>1, Zenon DEF Max2
      <4>3. Executable(lits, offset, ml)
        BY <3>2, <4>1, <4>2, Zenon DEF Executable
      <4> QED BY <2>1, <3>1, <4>3, ColdExecutes, Zenon
    <3>3. CASE fits /\ offset <= Len(buffer) + Len(lits)
      <4>1. Executable(lits, offset, ml)
        BY <3>3, Zenon DEF Executable
      <4> QED BY <2>1, <3>1, <4>1, ColdExecutes, Zenon
    <3>4. CASE /\ ~(fits /\ dict_match_source(Len(lits), offset, ml))
               /\ ~(fits /\ offset <= Len(buffer) + Len(lits))
      <4>1. hot = cold
        BY <3>4, Zenon DEF execute_one_sequence
      <4> QED BY <2>3, <4>1, Zenon
    <3> QED BY <3>2, <3>3, <3>4, Zenon
  <2>4. ASSUME Legal(lits, offset), fits PROVE cold.ok
    <3> DEFINE pos == Len(frame) + Len(lits)
    <3>1. /\ offset >= 1
          /\ \/ offset <= Min2(window_size, pos)
             \/ pos <= window_size /\ offset <= pos + Len(dict)
      BY <2>4, Zenon DEF Legal
    <3>0. offset # 0
      BY <2>1, <3>1
    <3>2. CASE offset <= Min2(window_size, pos)
      <4>1. offset <= window_size /\ offset <= pos
        BY <2>1, <2>2, <3>2 DEF Min2
      <4>2. offset <= Len(buffer) + Len(lits)
        BY <2>1, <2>2, <4>1
      <4>3. Executable(lits, offset, ml)
        BY <2>4, <4>2, Zenon DEF Executable
      <4> QED BY <2>1, <3>0, <4>3, ColdExecutes, Zenon
    <3>3. CASE pos <= window_size /\ offset <= pos + Len(dict)
      <4>1. Len(buffer) = Len(frame)
        BY <2>1, <3>3, WithinWindow, Zenon
      <4>2. Len(frame) + Len(lits) <= window_size /\ offset - (Len(buffer) + Len(lits)) <= Len(dict)
        BY <2>1, <2>2, <3>3, <4>1
      <4>3. Executable(lits, offset, ml)
        BY <2>4, <4>2, Zenon DEF Executable
      <4> QED BY <2>1, <3>0, <4>3, ColdExecutes, Zenon
    <3> QED BY <3>1, <3>2, <3>3, Zenon
  <2> QED BY <2>3, <2>4, Zenon
<1> QED BY <1>1, InvariantTheorem, PTL

\* A sequence the executor runs, on any of its paths, has the meaning LZ77 gives it
\* over the dictionary and the whole frame; bytes the buffer released are not needed.
THEOREM LZ77Theorem == Spec => SequenceIsLZ77
<1>1. Inv => SequenceMeaning
  <2> SUFFICES ASSUME Inv, NEW lits \in Bytes(block.literals), NEW ml \in Lengths, NEW inline \in BOOLEAN,
                      NEW offset \in Offsets(lits), ExecuteSequence(lits, offset, ml, inline)
               PROVE  LET history == dict \o frame \o lits
                      IN  /\ offset > Len(frame \o lits) => Len(frame \o lits) <= window_size
                          /\ offset <= Len(history)
                          /\ frame' = frame \o lits \o Match(history, offset, ml)
    BY Zenon DEF SequenceMeaning
  <2> DEFINE r == execute_one_sequence(lits, offset, ml, inline)
             h == dict \o frame \o lits
             m == Match(h, offset, ml)
  <2>1. lits \in Seq(Byte) /\ offset \in Nat /\ ml \in Nat \ {0}
    <3>1. block.literals \in Nat /\ BlockLimit \in Nat
      BY DecodeBufferAssumption, Zenon DEF Inv, TypeOK
    <3>2. lits \in Seq(Byte)
      BY <3>1, BytesFacts, Zenon
    <3> QED BY <3>1, <3>2 DEF Offsets, Lengths
  <2>2. phase = "block" /\ r.ok /\ frame' = frame \o r.bytes
    BY Zenon DEF ExecuteSequence, Write
  <2>3. /\ offset \in 1 .. Len(h)
        /\ offset > Len(frame) + Len(lits) => Len(frame) + Len(lits) <= window_size
        /\ r.bytes = lits \o m
    BY <2>1, <2>2, SequenceLaw, Zenon
  <2>4. h \in Seq(Byte) /\ Len(frame \o lits) = Len(frame) + Len(lits) /\ frame \in Seq(Byte)
    <3>1. dict \o frame \in Seq(Byte)
      BY Typed, Joined, Zenon
    <3>2. (dict \o frame) \o lits \in Seq(Byte)
      BY <2>1, <3>1, Joined, Zenon
    <3> QED BY <2>1, <3>2, Typed, Joined, Zenon
  <2> HIDE DEF r, h
  <2>5. m \in Seq(Byte)
    BY <2>1, <2>3, <2>4, MatchFacts, Zenon
  <2> HIDE DEF m
  <2>6. (frame \o lits) \o m = frame \o (lits \o m)
    <3>1. frame \in Seq(Byte) /\ lits \in Seq(Byte) /\ m \in Seq(Byte)
      BY <2>1, <2>4, <2>5, Zenon
    <3> QED BY <3>1, Associated
  <2>7. frame' = frame \o lits \o m /\ offset <= Len(h)
    BY <2>2, <2>3, <2>4, <2>6, LenProperties
  <2> QED BY <2>3, <2>4, <2>7, Zenon DEF h, m
<1>2. Inv /\ [Next]_vars => [SequenceMeaning]_vars
  BY <1>1, Zenon
<1> QED BY <1>2, InvariantTheorem, PTL DEF Spec, SequenceIsLZ77
=============================================================================
