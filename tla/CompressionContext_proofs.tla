---------------------- MODULE CompressionContext_proofs ----------------------
(***************************************************************************)
(* What the calls of the compression context do to the frame on a drain,   *)
(* for every block size, every input and every drain: the lemmas that the  *)
(* proofs of the encoders over it rest on.                                 *)
(***************************************************************************)
EXTENDS CompressionContext, WellFoundedInduction, TLAPS

-----------------------------------------------------------------------------
(* Induction over sets of numbers, which is how facts about loops and      *)
(* recursive functions are proved below.                                   *)

\* A set that holds 0 and the successor of each number in it holds them all.
LEMMA SetInduction ==
  ASSUME NEW S, 0 \in S, \A n \in Nat : n \in S => n + 1 \in S
  PROVE  \A n \in Nat : n \in S
<1> DEFINE R == OpToRel(<, Nat)
           T == Nat \ S
<1>1. IsWellFoundedOn(R, Nat)
  BY NatLessThanWellFounded, Zenon
<1>2. \A x, y \in Nat : x < y => <<x, y>> \in R
  BY Zenon DEF OpToRel
<1> HIDE DEF R
<1>3. SUFFICES ASSUME T # {} PROVE FALSE
  BY Zenon
<1>4. PICK x \in T : \A y \in T : ~(<<y, x>> \in R)
  BY <1>1, <1>3, WFMin, Zenon
<1>5. x \in Nat /\ x \notin S /\ x # 0
  BY <1>4, Zenon
<1>6. x - 1 \in Nat /\ x - 1 < x /\ (x - 1) + 1 = x
  BY <1>5
<1>7. x - 1 \notin S
  BY <1>5, <1>6, Zenon
<1>8. x - 1 \in T
  BY <1>6, <1>7, Zenon
<1> QED BY <1>2, <1>4, <1>5, <1>6, <1>8, Zenon

-----------------------------------------------------------------------------
(* Types, and what the pieces on a drain say.                              *)

\* Input bytes, each a number of its own.
Byte == Nat

\* What a drain may hold, a context be, and a drain be.
Pieces == [t : {"header", "block", "checksum"}, data : Seq(Byte), last : BOOLEAN, fcs : Int, dict : Nat]

Contexts ==
  [errored : BOOLEAN, started : BOOLEAN, pledged : Nat \cup {Unknown}, consumed : Nat,
   pending : Seq(Byte), hashed : Seq(Byte), dictionary : Nat]

Drains == [bytes : Seq(Pieces), bad : Nat]

\* The pieces a frame is made of.
LEMMA PieceFacts ==
  ASSUME NEW data \in Seq(Byte), NEW last \in BOOLEAN, NEW fcs \in Nat \cup {Unknown}, NEW dict \in Nat
  PROVE  /\ Header(fcs, dict) \in Pieces /\ BlockData(Header(fcs, dict)) = << >>
         /\ Block(data, last) \in Pieces /\ BlockData(Block(data, last)) = data
         /\ Checksum(data) \in Pieces /\ BlockData(Checksum(data)) = << >>
<1>1. << >> \in Seq(Byte) /\ fcs \in Int /\ Unknown \in Int /\ NoDictionary \in Nat
  BY DEF Unknown, NoDictionary
<1> QED BY <1>1, Zenon DEF Header, Block, Checksum, Piece, Pieces, BlockData

\* What the first blocks of p stand for, block by block.
Joins(p, g) == g = [i \in 0 .. Len(p) |-> IF i = 0 THEN << >> ELSE g[i - 1] \o BlockData(p[i])]

\* There is such a g, for every length: Contents is a recursive function.
LEMMA JoinsExist ==
  ASSUME NEW p
  PROVE  \A n \in Nat : \E g : g = [i \in 0 .. n |-> IF i = 0 THEN << >> ELSE g[i - 1] \o BlockData(p[i])]
<1> DEFINE S == {n \in Nat : \E g : g = [i \in 0 .. n |-> IF i = 0 THEN << >> ELSE g[i - 1] \o BlockData(p[i])]}
<1>1. 0 \in S
  <2> DEFINE g == [i \in 0 .. 0 |-> << >>]
  <2>1. \A i \in 0 .. 0 : g[i] = IF i = 0 THEN << >> ELSE g[i - 1] \o BlockData(p[i])
    OBVIOUS
  <2>2. g = [i \in 0 .. 0 |-> g[i]] /\ 0 \in Nat
    BY Zenon
  <2> HIDE DEF g
  <2>3. g = [i \in 0 .. 0 |-> IF i = 0 THEN << >> ELSE g[i - 1] \o BlockData(p[i])]
    BY <2>1, <2>2, Zenon
  <2> QED BY <2>2, <2>3, Zenon
<1>2. ASSUME NEW n \in Nat, n \in S PROVE n + 1 \in S
  <2>1. PICK g : g = [i \in 0 .. n |-> IF i = 0 THEN << >> ELSE g[i - 1] \o BlockData(p[i])]
    BY <1>2, Zenon
  <2> DEFINE h == [i \in 0 .. n + 1 |-> IF i <= n THEN g[i] ELSE g[n] \o BlockData(p[i])]
  <2>2. ASSUME NEW i \in 0 .. n + 1 PROVE h[i] = IF i = 0 THEN << >> ELSE h[i - 1] \o BlockData(p[i])
    <3>1. CASE i <= n
      <4>1. h[i] = g[i] /\ i \in 0 .. n
        BY <3>1
      <4>2. g[i] = IF i = 0 THEN << >> ELSE g[i - 1] \o BlockData(p[i])
        BY <2>1, <4>1, Zenon
      <4>3. i # 0 => h[i - 1] = g[i - 1]
        BY <3>1
      <4> QED BY <4>1, <4>2, <4>3, Zenon
    <3>2. CASE i = n + 1
      <4>1. h[i] = g[n] \o BlockData(p[i]) /\ i # 0
        <5>1. ~(i <= n) /\ i # 0
          BY <3>2
        <5> QED BY <5>1, Zenon
      <4>2. h[i - 1] = g[n]
        BY <3>2
      <4> QED BY <4>1, <4>2, Zenon
    <3> QED BY <3>1, <3>2
  <2>3. h = [i \in 0 .. n + 1 |-> h[i]]
    BY Zenon
  <2> HIDE DEF h
  <2>4. h = [i \in 0 .. n + 1 |-> IF i = 0 THEN << >> ELSE h[i - 1] \o BlockData(p[i])]
    BY <2>2, <2>3, Zenon
  <2>5. n + 1 \in Nat
    OBVIOUS
  <2> QED BY <2>4, <2>5, Zenon
<1> HIDE DEF S
<1>3. \A n \in Nat : n \in S
  BY <1>1, <1>2, SetInduction, Zenon
<1> QED BY <1>3, Zenon DEF S

\* Contents is the last of them.
LEMMA ContentsIs ==
  ASSUME NEW p, Len(p) \in Nat
  PROVE  \E g : Joins(p, g) /\ Contents(p) = g[Len(p)]
<1> DEFINE upto == CHOOSE g : g = [i \in 0 .. Len(p) |-> IF i = 0 THEN << >> ELSE g[i - 1] \o BlockData(p[i])]
<1>1. Contents(p) = upto[Len(p)]
  BY Zenon DEF Contents
<1>2. upto = [i \in 0 .. Len(p) |-> IF i = 0 THEN << >> ELSE upto[i - 1] \o BlockData(p[i])]
  BY JoinsExist, Zenon
<1> QED BY <1>1, <1>2, Zenon DEF Joins

\* Each of them is a sequence of bytes.
LEMMA JoinsTyped ==
  ASSUME NEW p \in Seq(Pieces), NEW g, Joins(p, g)
  PROVE  \A i \in 0 .. Len(p) : g[i] \in Seq(Byte)
<1> DEFINE S == {n \in Nat : n \in 0 .. Len(p) => g[n] \in Seq(Byte)}
<1>1. Len(p) \in Nat /\ \A i \in 1 .. Len(p) : BlockData(p[i]) \in Seq(Byte)
  <2>1. \A x \in Pieces : BlockData(x) \in Seq(Byte)
    BY DEF Pieces, BlockData
  <2>2. Len(p) \in Nat /\ \A i \in 1 .. Len(p) : p[i] \in Pieces
    OBVIOUS
  <2> QED BY <2>1, <2>2, Zenon
<1>2. 0 \in S
  <2>1. g[0] = << >>
    BY <1>1 DEF Joins
  <2>2. << >> \in Seq(Byte) /\ 0 \in Nat
    OBVIOUS
  <2> QED BY <2>1, <2>2, Zenon
<1>3. ASSUME NEW n \in Nat, n \in S PROVE n + 1 \in S
  <2>1. SUFFICES ASSUME n + 1 \in 0 .. Len(p) PROVE g[n + 1] \in Seq(Byte)
    OBVIOUS
  <2>2. g[n + 1] = IF n + 1 = 0 THEN << >> ELSE g[(n + 1) - 1] \o BlockData(p[n + 1])
    BY <2>1, Zenon DEF Joins
  <2>3. BlockData(p[n + 1]) \in Seq(Byte) /\ (n + 1) - 1 = n /\ n + 1 # 0
    BY <1>1, <2>1
  <2>4. g[n] \in Seq(Byte)
    BY <1>1, <1>3, <2>1
  <2> QED BY <2>2, <2>3, <2>4
<1> HIDE DEF S
<1>4. \A n \in Nat : n \in S
  BY <1>2, <1>3, SetInduction, Zenon
<1> QED BY <1>1, <1>4 DEF S

\* A piece more at the end leaves those before it.
LEMMA JoinsAgree ==
  ASSUME NEW p \in Seq(Pieces), NEW x \in Pieces, NEW g, Joins(p, g), NEW h, Joins(Append(p, x), h)
  PROVE  \A i \in 0 .. Len(p) : h[i] = g[i]
<1> DEFINE S == {n \in Nat : n \in 0 .. Len(p) => h[n] = g[n]}
           q == Append(p, x)
<1>1. Len(p) \in Nat /\ Len(q) = Len(p) + 1 /\ \A i \in 1 .. Len(p) : q[i] = p[i]
  OBVIOUS
<1>2. Joins(q, h)
  BY Zenon
<1> HIDE DEF q
<1>3. 0 \in S
  <2>1. g[0] = << >> /\ h[0] = << >>
    BY <1>1, <1>2 DEF Joins
  <2> QED BY <2>1, Zenon
<1>4. ASSUME NEW n \in Nat, n \in S PROVE n + 1 \in S
  <2>1. SUFFICES ASSUME n + 1 \in 0 .. Len(p) PROVE h[n + 1] = g[n + 1]
    OBVIOUS
  <2>2. g[n + 1] = IF n + 1 = 0 THEN << >> ELSE g[(n + 1) - 1] \o BlockData(p[n + 1])
    BY <2>1, Zenon DEF Joins
  <2>3. n + 1 \in 0 .. Len(q) /\ q[n + 1] = p[n + 1] /\ (n + 1) - 1 = n
    BY <1>1, <2>1
  <2>4. h[n + 1] = IF n + 1 = 0 THEN << >> ELSE h[(n + 1) - 1] \o BlockData(q[n + 1])
    BY <1>2, <2>3, Zenon DEF Joins
  <2>5. h[n] = g[n]
    BY <1>1, <1>4, <2>1
  <2> QED BY <2>2, <2>3, <2>4, <2>5, Zenon
<1> HIDE DEF S
<1>5. \A n \in Nat : n \in S
  BY <1>3, <1>4, SetInduction, Zenon
<1> QED BY <1>1, <1>5 DEF S

\* What the blocks of a frame stand for, one piece more at a time.
LEMMA ContentsFacts ==
  ASSUME NEW p \in Seq(Pieces)
  PROVE  /\ Contents(p) \in Seq(Byte)
         /\ p = << >> => Contents(p) = << >>
         /\ \A x \in Pieces : Contents(Append(p, x)) = Contents(p) \o BlockData(x)
<1>1. Len(p) \in Nat /\ Len(p) \in 0 .. Len(p)
  OBVIOUS
<1>2. PICK g : Joins(p, g) /\ Contents(p) = g[Len(p)]
  BY <1>1, ContentsIs, Zenon
<1>3. Contents(p) \in Seq(Byte)
  BY <1>1, <1>2, JoinsTyped, Zenon
<1>4. p = << >> => Contents(p) = << >>
  BY <1>2 DEF Joins
<1>5. ASSUME NEW x \in Pieces PROVE Contents(Append(p, x)) = Contents(p) \o BlockData(x)
  <2> DEFINE q == Append(p, x)
  <2>1. Len(q) = Len(p) + 1 /\ q[Len(p) + 1] = x
    OBVIOUS
  <2> HIDE DEF q
  <2>2. Len(q) \in Nat /\ Len(p) + 1 \in 0 .. Len(q) /\ Len(p) + 1 # 0 /\ (Len(p) + 1) - 1 = Len(p)
    BY <1>1, <2>1
  <2>3. PICK h : Joins(q, h) /\ Contents(q) = h[Len(q)]
    BY <2>2, ContentsIs, Zenon
  <2>4. h[Len(p)] = g[Len(p)]
    BY <1>1, <1>2, <2>3, JoinsAgree DEF q
  <2>5. h[Len(p) + 1] = IF Len(p) + 1 = 0 THEN << >> ELSE h[(Len(p) + 1) - 1] \o BlockData(q[Len(p) + 1])
    BY <2>2, <2>3, Zenon DEF Joins
  <2>6. h[Len(p) + 1] = h[Len(p)] \o BlockData(x)
    BY <2>1, <2>2, <2>5, Zenon
  <2>7. Contents(q) = Contents(p) \o BlockData(x)
    BY <1>2, <2>1, <2>3, <2>4, <2>6, Zenon
  <2> QED BY <2>7, Zenon DEF q
<1> QED BY <1>3, <1>4, <1>5, Zenon

-----------------------------------------------------------------------------
(* A frame in progress.                                                    *)

\* all is the frame so far of the bytes in content, of which the context holds
\* those after its last block.
InFrame(c, all, content) ==
  /\ IsOpenFrame(all)
  /\ c.started <=> all # << >>
  /\ c.started => /\ Contents(all) = c.hashed /\ c.hashed \o c.pending = content
                  /\ all[1].fcs = c.pledged /\ all[1].dict = c.dictionary
  /\ ~c.started => content = << >>

\* What goes on as it was through the blocks of a frame.
SameFrame(c, r) == r.consumed = c.consumed /\ r.pledged = c.pledged /\ r.dictionary = c.dictionary

\* A piece more at the end of the second part.
LEMMA AppendToSecond ==
  ASSUME NEW A, NEW s \in Seq(A), NEW t \in Seq(A), NEW x \in A
  PROVE  s \o Append(t, x) = Append(s \o t, x)
OBVIOUS

\* Two sequences with the same elements.
LEMMA SameSequence ==
  ASSUME NEW A, NEW s \in Seq(A), NEW t \in Seq(A), Len(s) = Len(t), \A i \in 1 .. Len(s) : s[i] = t[i]
  PROVE  s = t
OBVIOUS

\* The two parts of a sequence.
LEMMA CutFacts ==
  ASSUME NEW A, NEW s \in Seq(A), NEW n \in 0 .. Len(s)
  PROVE  /\ SubSeq(s, 1, n) \in Seq(A) /\ Len(SubSeq(s, 1, n)) = n
         /\ SubSeq(s, n + 1, Len(s)) \in Seq(A) /\ Len(SubSeq(s, n + 1, Len(s))) = Len(s) - n
         /\ SubSeq(s, 1, n) \o SubSeq(s, n + 1, Len(s)) = s
<1>1. Len(s) \in Nat /\ n \in Nat /\ n <= Len(s) /\ \A i \in 1 .. Len(s) : s[i] \in A
  OBVIOUS
<1>2. SubSeq(s, 1, n) \in Seq(A) /\ Len(SubSeq(s, 1, n)) = n
  BY <1>1
<1>3. SubSeq(s, n + 1, Len(s)) \in Seq(A) /\ Len(SubSeq(s, n + 1, Len(s))) = Len(s) - n
  BY <1>1
<1> DEFINE u == SubSeq(s, 1, n)
           v == SubSeq(s, n + 1, Len(s))
<1>4. \A i \in 1 .. n : u[i] = s[i]
  BY <1>1
<1>5. \A i \in 1 .. Len(s) - n : v[i] = s[n + i]
  BY <1>1
<1>6. u \in Seq(A) /\ v \in Seq(A) /\ Len(u) = n /\ Len(v) = Len(s) - n
  BY <1>2, <1>3, Zenon
<1> HIDE DEF u, v
<1>7. ASSUME NEW i \in 1 .. Len(s) PROVE (u \o v)[i] = s[i]
  <2>1. (u \o v)[i] = IF i <= n THEN u[i] ELSE v[i - n]
    BY <1>1, <1>6
  <2>2. CASE i <= n
    <3>1. i \in 1 .. n
      BY <1>1, <2>2
    <3> QED BY <1>4, <2>1, <2>2, <3>1, Zenon
  <2>3. CASE ~(i <= n)
    <3>1. i - n \in 1 .. Len(s) - n /\ n + (i - n) = i
      BY <1>1, <2>3
    <3> QED BY <1>5, <2>1, <2>3, <3>1, Zenon
  <2> QED BY <2>2, <2>3, Zenon
<1>8. u \o v \in Seq(A) /\ Len(u \o v) = Len(s)
  BY <1>1, <1>6
<1>9. u \o v = s
  BY <1>7, <1>8, SameSequence, Zenon
<1>10. SubSeq(s, 1, n) \o SubSeq(s, n + 1, Len(s)) = s
  BY <1>9, Zenon DEF u, v
<1> QED BY <1>2, <1>3, <1>10, Zenon

\* A header alone opens a frame.
LEMMA HeaderOpens ==
  ASSUME NEW fcs \in Nat \cup {Unknown}, NEW dict \in Nat
  PROVE  IsOpenFrame(<<Header(fcs, dict)>>)
BY CapacityAssumption DEF IsOpenFrame, Header

\* A block of at most the block size that is not the last keeps it open.
LEMMA BlockExtends ==
  ASSUME NEW all \in Seq(Pieces), all # << >>, IsOpenFrame(all),
         NEW data \in Seq(Byte), Len(data) <= BlockCapacity
  PROVE  IsOpenFrame(Append(all, Block(data, FALSE)))
<1> DEFINE x == Block(data, FALSE)
<1>1. x \in Pieces /\ x.t = "block" /\ x.last = FALSE /\ x.data = data
  BY PieceFacts, Zenon DEF Block, Piece, Pieces, Unknown, NoDictionary
<1> HIDE DEF x
<1>2. Append(all, x) \in Seq(Pieces) /\ Len(Append(all, x)) = Len(all) + 1 /\ Len(all) \in Nat \ {0}
  BY <1>1
<1>3. \A i \in 1 .. Len(all) + 1 : Append(all, x)[i] = IF i = Len(all) + 1 THEN x ELSE all[i]
  BY <1>1
<1>4. \A i \in 1 .. Len(all) : /\ all[i].t = (IF i = 1 THEN "header" ELSE "block")
                               /\ ~all[i].last /\ Len(all[i].data) <= BlockCapacity
  BY DEF IsOpenFrame
<1>5. DOMAIN Append(all, x) = 1 .. Len(all) + 1
  BY <1>2
<1>6. ASSUME NEW i \in 1 .. Len(all) + 1
      PROVE  /\ Append(all, x)[i].t = (IF i = 1 THEN "header" ELSE "block")
             /\ ~Append(all, x)[i].last /\ Len(Append(all, x)[i].data) <= BlockCapacity
  <2>1. CASE i = Len(all) + 1
    BY <1>1, <1>2, <1>3, <2>1
  <2>2. CASE i # Len(all) + 1
    <3>1. i \in 1 .. Len(all) /\ Append(all, x)[i] = all[i]
      BY <1>2, <1>3, <2>2
    <3> QED BY <1>4, <3>1, Zenon
  <2> QED BY <2>1, <2>2, Zenon
<1> QED BY <1>5, <1>6, Zenon DEF IsOpenFrame, x

-----------------------------------------------------------------------------
(* The header, and one block.                                              *)

\* The drain, as a write leaves it.
LEMMA WriteAll ==
  ASSUME NEW d \in Drains, NEW x \in Pieces
  PROVE  /\ Called(d) \in Drains /\ Called(d).bytes = d.bytes
         /\ write_all(d, x) \in Drains
         /\ ~Fails(d) => write_all(d, x).bytes = Append(d.bytes, x)
<1>1. Called(d) \in Drains /\ Called(d).bytes = d.bytes
  BY DEF Called, Drains
<1>2. Append(Called(d).bytes, x) \in Seq(Pieces)
  BY <1>1 DEF Drains
<1>3. [Called(d) EXCEPT !.bytes = Append(@, x)] \in Drains
  BY <1>1, <1>2, Zenon DEF Drains
<1> QED BY <1>1, <1>3, Zenon DEF write_all, Drains

\* What ensure_frame_started leaves: a frame with its header, or a failure.
Begun(c, p, content, r) ==
  /\ r.c \in Contexts /\ r.d \in Drains /\ r.code \in {"ok", "drain"} /\ r.taken = 0
  /\ SameFrame(c, r.c)
  /\ r.code = "ok" => /\ r.c.errored = FALSE /\ r.c.started = TRUE
                      /\ pending_len(r.c) = pending_len(c)
                      /\ InFrame(r.c, p \o r.d.bytes, content)
  /\ r.code # "ok" => r.c.errored = TRUE

\* ensure_frame_started: the header goes out once, with the size and the
\* dictionary set for this frame, and what an abandoned frame left is gone.
LEMMA StartFacts ==
  ASSUME NEW c \in Contexts, c.errored = FALSE, NEW d \in Drains, NEW p \in Seq(Pieces),
         NEW content, InFrame(c, p \o d.bytes, content)
  PROVE  Begun(c, p, content, ensure_frame_started(c, d))
<1> DEFINE r == ensure_frame_started(c, d)
           fresh == [c EXCEPT !.pending = << >>, !.hashed = << >>]
           h == Header(c.pledged, c.dictionary)
<1>1. d.bytes \in Seq(Pieces) /\ << >> \in Seq(Byte) /\ h \in Pieces /\ BlockData(h) = << >>
  <2>1. c.pledged \in Nat \cup {Unknown} /\ c.dictionary \in Nat /\ d.bytes \in Seq(Pieces)
    BY Zenon DEF Drains, Contexts
  <2>2. << >> \in Seq(Byte) /\ TRUE \in BOOLEAN
    OBVIOUS
  <2> QED BY <2>1, <2>2, PieceFacts, Zenon
<1>2. fresh \in Contexts /\ fail(fresh) \in Contexts /\ fail(fresh).errored = TRUE /\ fail(fresh).started = c.started
      /\ SameFrame(c, fail(fresh))
  BY <1>1, Zenon DEF Contexts, fail, SameFrame
<1>3. CASE c.started = TRUE
  <2>1. r = Answer(c, d, "ok", 0)
    BY <1>3, Zenon DEF ensure_frame_started
  <2> QED BY <1>3, <2>1 DEF Begun, Answer, SameFrame
<1>4. CASE c.started = FALSE /\ Fails(d)
  <2>1. r = Answer(fail(fresh), Called(d), "drain", 0)
    BY <1>4, Zenon DEF ensure_frame_started
  <2>2. Called(d) \in Drains
    BY <1>1, WriteAll, Zenon
  <2> QED BY <1>2, <1>4, <2>1, <2>2 DEF Begun, Answer
<1>5. CASE c.started = FALSE /\ ~Fails(d)
  <2> DEFINE e == [fresh EXCEPT !.started = TRUE]
  <2>1. r = Answer(e, write_all(d, h), "ok", 0)
    BY <1>5, Zenon DEF ensure_frame_started
  <2>2. e \in Contexts /\ e.started = TRUE /\ e.errored = FALSE /\ e.pending = << >> /\ e.hashed = << >>
        /\ SameFrame(c, e)
    BY <1>2, Zenon DEF Contexts, SameFrame
  <2>3. p \o d.bytes = << >> /\ content = << >>
    BY <1>5, Zenon DEF InFrame
  <2>4. p = << >> /\ d.bytes = << >>
    BY <1>1, <2>3
  <2>5. write_all(d, h) \in Drains /\ write_all(d, h).bytes = Append(d.bytes, h)
    BY <1>1, <1>5, WriteAll, Zenon
  <2>6. p \o write_all(d, h).bytes = <<h>> /\ <<h>> = Append(<< >>, h)
    BY <1>1, <2>4, <2>5
  <2>7. IsOpenFrame(<<h>>)
    BY HeaderOpens, Zenon DEF Contexts
  <2>8. Contents(<<h>>) = << >>
    <3>1. << >> \in Seq(Pieces) /\ << >> \o << >> = << >>
      OBVIOUS
    <3>2. Contents(Append(<< >>, h)) = Contents(<< >>) \o BlockData(h) /\ Contents(<< >>) = << >>
      BY <1>1, <3>1, ContentsFacts, Zenon
    <3> QED BY <1>1, <2>6, <3>1, <3>2, Zenon
  <2>9. <<h>>[1].fcs = c.pledged /\ <<h>>[1].dict = c.dictionary /\ <<h>> # << >>
    BY Zenon DEF Header
  <2> HIDE DEF e, h
  <2>10. InFrame(e, <<h>>, content)
    BY <2>2, <2>3, <2>7, <2>8, <2>9 DEF InFrame, SameFrame
  <2>11. pending_len(e) = 0 /\ pending_len(c) = 0
    BY <1>5, <2>2, Zenon DEF pending_len
  <2>12. r.c = e /\ r.d = write_all(d, h) /\ r.code = "ok" /\ r.taken = 0
    BY <2>1 DEF Answer
  <2> HIDE DEF r
  <2>13. InFrame(r.c, p \o r.d.bytes, content)
    BY <2>6, <2>10, <2>12, Zenon
  <2>14. Begun(c, p, content, r)
    BY <2>2, <2>5, <2>11, <2>12, <2>13, Zenon DEF Begun
  <2> QED BY <2>14, Zenon DEF r
<1> QED BY <1>3, <1>4, <1>5, Zenon DEF Contexts

\* What encode_block does: the first n pending bytes become a block, or a failure.
Emitted(c, d, n, last, r) ==
  /\ r.c \in Contexts /\ r.d \in Drains /\ r.code \in {"ok", "drain"} /\ r.taken = 0
  /\ SameFrame(c, r.c) /\ r.c.started = c.started
  /\ r.c.pending = SubSeq(c.pending, n + 1, Len(c.pending))
  /\ r.code = "ok" => /\ r.c.errored = c.errored
                      /\ r.c.hashed = c.hashed \o SubSeq(c.pending, 1, n)
                      /\ r.d.bytes = Append(d.bytes, Block(SubSeq(c.pending, 1, n), last))
  /\ r.code # "ok" => r.c.errored = TRUE

\* encode_block: the bytes leave the block being filled whether or not the
\* drain takes them, and are hashed only when it does.
LEMMA EncodeFacts ==
  ASSUME NEW c \in Contexts, NEW d \in Drains, NEW n \in 0 .. Len(c.pending), NEW last \in BOOLEAN
  PROVE  Emitted(c, d, n, last, encode_block(c, d, n, last))
<1> DEFINE data == SubSeq(c.pending, 1, n)
           rest == SubSeq(c.pending, n + 1, Len(c.pending))
           cut == [c EXCEPT !.pending = SubSeq(@, n + 1, Len(@))]
           x == Block(data, last)
           r == encode_block(c, d, n, last)
<1>1. c.pending \in Seq(Byte) /\ c.hashed \in Seq(Byte)
  BY Zenon DEF Contexts
<1>2. data \in Seq(Byte) /\ rest \in Seq(Byte)
  BY <1>1, CutFacts, Zenon
<1>3. cut = [c EXCEPT !.pending = rest]
  BY Zenon
<1>4. x \in Pieces
  BY <1>2, PieceFacts, Zenon DEF Unknown
<1>5. CASE Fails(d)
  <2>1. r = Answer(fail(cut), Called(d), "drain", 0)
    BY <1>5, Zenon DEF encode_block
  <2> HIDE DEF data, rest, x, cut
  <2>2. fail(cut) \in Contexts /\ fail(cut).errored = TRUE /\ fail(cut).pending = rest
        /\ fail(cut).started = c.started /\ SameFrame(c, fail(cut))
    BY <1>2, <1>3, Zenon DEF fail, Contexts, SameFrame
  <2>3. Called(d) \in Drains
    BY <1>4, WriteAll, Zenon
  <2> QED BY <2>1, <2>2, <2>3 DEF Emitted, Answer, rest
<1>6. CASE ~Fails(d)
  <2> DEFINE e == [cut EXCEPT !.hashed = @ \o data]
  <2>1. r = Answer(e, write_all(d, x), "ok", 0)
    BY <1>6, Zenon DEF encode_block
  <2> HIDE DEF data, rest, x
  <2>2. c.hashed \o data \in Seq(Byte)
    BY <1>1, <1>2
  <2>3. e \in Contexts /\ e.errored = c.errored /\ e.pending = rest /\ e.hashed = c.hashed \o data
        /\ e.started = c.started /\ SameFrame(c, e)
    BY <1>2, <1>3, <2>2, Zenon DEF Contexts, SameFrame
  <2>4. write_all(d, x) \in Drains /\ write_all(d, x).bytes = Append(d.bytes, x)
    BY <1>4, <1>6, WriteAll, Zenon
  <2> HIDE DEF e
  <2>5. r.c = e /\ r.d = write_all(d, x) /\ r.code = "ok" /\ r.taken = 0
    BY <2>1 DEF Answer
  <2> HIDE DEF r
  <2>6. Emitted(c, d, n, last, r)
    BY <2>3, <2>4, <2>5, Zenon DEF Emitted, rest, x, data
  <2> QED BY <2>6, Zenon DEF r
<1> QED BY <1>5, <1>6, Zenon

\* n bytes may become a block.
MayCut(c, n) == n \in 0 .. Len(c.pending) /\ n <= BlockCapacity

\* Concatenation is associative.
LEMMA Associated ==
  ASSUME NEW s \in Seq(Byte), NEW t \in Seq(Byte), NEW u \in Seq(Byte)
  PROVE  (s \o t) \o u = s \o (t \o u)
OBVIOUS

\* Moving the cut between what was hashed and what is pending moves no byte.
LEMMA CutMoves ==
  ASSUME NEW h \in Seq(Byte), NEW q \in Seq(Byte), NEW n \in 0 .. Len(q)
  PROVE  (h \o SubSeq(q, 1, n)) \o SubSeq(q, n + 1, Len(q)) = h \o q
<1> DEFINE s == SubSeq(q, 1, n)
           t == SubSeq(q, n + 1, Len(q))
<1>1. s \in Seq(Byte) /\ t \in Seq(Byte)
  BY CutFacts, Zenon
<1>2. s \o t = q
  BY CutFacts, Zenon
<1> HIDE DEF s, t
<1>3. (h \o s) \o t = h \o (s \o t)
  BY <1>1, Associated, Zenon
<1> QED BY <1>2, <1>3, Zenon DEF s, t

\* A block that is not the last leaves the frame of the same bytes.
LEMMA EmittedKeeps ==
  ASSUME NEW c \in Contexts, NEW d \in Drains, NEW n, MayCut(c, n),
         NEW r, Emitted(c, d, n, FALSE, r), r.code = "ok", c.started = TRUE,
         NEW p \in Seq(Pieces), NEW content, InFrame(c, p \o d.bytes, content)
  PROVE  InFrame(r.c, p \o r.d.bytes, content)
<1> DEFINE data == SubSeq(c.pending, 1, n)
           rest == SubSeq(c.pending, n + 1, Len(c.pending))
           all == p \o d.bytes
           x == Block(data, FALSE)
<1>1. c.pending \in Seq(Byte) /\ c.hashed \in Seq(Byte) /\ d.bytes \in Seq(Pieces)
  BY Zenon DEF Contexts, Drains
<1>2. data \in Seq(Byte) /\ Len(data) <= BlockCapacity
  BY <1>1, CutFacts DEF MayCut
<1>3. all \in Seq(Pieces) /\ all # << >> /\ Len(all) \in Nat \ {0} /\ IsOpenFrame(all)
  BY <1>1 DEF InFrame
<1>4. x \in Pieces /\ BlockData(x) = data
  BY <1>2, PieceFacts, Zenon DEF Unknown
<1>5. r.c.hashed = c.hashed \o data /\ r.c.pending = rest /\ r.d.bytes = Append(d.bytes, x)
      /\ SameFrame(c, r.c) /\ r.c.started = TRUE
  BY Zenon DEF Emitted
<1>6. (c.hashed \o data) \o rest = c.hashed \o c.pending
  BY <1>1, CutMoves, Zenon DEF MayCut
<1>7. IsOpenFrame(Append(all, x))
  BY <1>2, <1>3, BlockExtends, Zenon
<1> HIDE DEF data, rest, x
<1>8. p \o Append(d.bytes, x) = Append(all, x)
  BY <1>1, <1>4, AppendToSecond, SMTT(30)
<1>9. Contents(all) = c.hashed /\ c.hashed \o c.pending = content /\ all[1].fcs = c.pledged
      /\ all[1].dict = c.dictionary
  BY Zenon DEF InFrame
<1> HIDE DEF all
<1>10. Contents(Append(all, x)) = c.hashed \o data
  BY <1>3, <1>4, <1>9, ContentsFacts, Zenon
<1>11. Append(all, x)[1] = all[1] /\ Append(all, x) # << >>
  BY <1>3, <1>4
<1> QED BY <1>5, <1>6, <1>7, <1>8, <1>9, <1>10, <1>11, Zenon DEF InFrame, SameFrame

\* A set of numbers that is not empty has a least one, which Min gives.
LEMMA MinFacts ==
  ASSUME NEW S \in SUBSET Nat, S # {}
  PROVE  Min(S) \in S /\ \A y \in S : Min(S) <= y
<1> DEFINE R == OpToRel(<, Nat)
<1>1. IsWellFoundedOn(R, Nat)
  BY NatLessThanWellFounded, Zenon
<1>2. \A x, y \in Nat : x < y => <<x, y>> \in R
  BY Zenon DEF OpToRel
<1> HIDE DEF R
<1>3. PICK x \in S : \A y \in S : ~(<<y, x>> \in R)
  BY <1>1, WFMin, Zenon
<1>4. \A y \in S : x <= y
  <2>1. \A y \in S : y \in Nat /\ x \in Nat /\ ~(y < x)
    BY <1>2, <1>3, Zenon
  <2> QED BY <2>1
<1> QED BY <1>3, <1>4, Zenon DEF Min

\* A full block is cut within itself and not to nothing.
LEMMA SplitFacts ==
  ASSUME NEW c \in Contexts
  PROVE  pre_split_len(c) \in 1 .. BlockCapacity
<1> DEFINE S == {BlockCapacity} \cup {n \in 1 .. BlockCapacity - 1 : c.pending[n + 1] \in Changes}
<1>1. S \in SUBSET Nat /\ S # {} /\ S \subseteq 1 .. BlockCapacity
  BY CapacityAssumption
<1>2. Min(S) \in S
  BY <1>1, MinFacts, Zenon
<1> QED BY <1>1, <1>2, Zenon DEF pre_split_len

\* The lesser of two numbers.
LEMMA MinTwo ==
  ASSUME NEW a \in Nat, NEW b \in Nat
  PROVE  Min({a, b}) = IF a <= b THEN a ELSE b
<1>1. Min({a, b}) \in {a, b} /\ \A y \in {a, b} : Min({a, b}) <= y
  BY MinFacts, Zenon
<1> QED BY <1>1

\* What a concatenation holds.
LEMMA Joined ==
  ASSUME NEW s \in Seq(Byte), NEW t \in Seq(Byte)
  PROVE  /\ s \o t \in Seq(Byte) /\ Len(s \o t) = Len(s) + Len(t)
         /\ \A i \in 1 .. Len(s) + Len(t) : (s \o t)[i] = IF i <= Len(s) THEN s[i] ELSE t[i - Len(s)]
OBVIOUS

\* What is left of buf after its first a elements.
Left(buf, a) == SubSeq(buf, a + 1, Len(buf))

\* n more elements of buf, after the a that have gone.
LEMMA SliceOn ==
  ASSUME NEW buf \in Seq(Byte), NEW a \in 0 .. Len(buf), NEW n \in 0 .. Len(buf) - a
  PROVE  /\ Left(buf, a) \in Seq(Byte) /\ Len(Left(buf, a)) = Len(buf) - a
         /\ SubSeq(Left(buf, a), 1, n) \in Seq(Byte) /\ Len(SubSeq(Left(buf, a), 1, n)) = n
         /\ SubSeq(buf, 1, a) \o SubSeq(Left(buf, a), 1, n) = SubSeq(buf, 1, a + n)
         /\ Left(Left(buf, a), n) = Left(buf, a + n)
<1> DEFINE rest == SubSeq(buf, a + 1, Len(buf))
           s == SubSeq(rest, 1, n)
           t == SubSeq(rest, n + 1, Len(rest))
           u == SubSeq(buf, 1, a)
<1>1. Len(buf) \in Nat /\ a \in Nat /\ n \in Nat /\ a + n <= Len(buf) /\ \A i \in 1 .. Len(buf) : buf[i] \in Byte
  OBVIOUS
<1>2. rest \in Seq(Byte) /\ Len(rest) = Len(buf) - a
  BY CutFacts, Zenon
<1>3. \A i \in 1 .. Len(buf) - a : rest[i] = buf[a + i]
  BY <1>1
<1>4. u \in Seq(Byte) /\ Len(u) = a /\ \A i \in 1 .. a : u[i] = buf[i]
  BY <1>1
<1> HIDE DEF rest, u
<1>5. n \in 0 .. Len(rest)
  BY <1>1, <1>2, Zenon
<1>6. s \in Seq(Byte) /\ Len(s) = n /\ t \in Seq(Byte) /\ Len(t) = Len(rest) - n
  BY <1>2, <1>5, CutFacts
<1>7. \A i \in 1 .. n : s[i] = rest[i]
  BY <1>1, <1>2, <1>5
<1>8. \A i \in 1 .. Len(rest) - n : t[i] = rest[n + i]
  BY <1>1, <1>2, <1>5
<1> HIDE DEF s, t
<1> DEFINE v == SubSeq(buf, 1, a + n)
           z == SubSeq(buf, (a + n) + 1, Len(buf))
<1>9. v \in Seq(Byte) /\ Len(v) = a + n /\ \A i \in 1 .. a + n : v[i] = buf[i]
  BY <1>1
<1>10. z \in Seq(Byte) /\ Len(z) = Len(buf) - (a + n) /\ \A i \in 1 .. Len(buf) - (a + n) : z[i] = buf[(a + n) + i]
  BY <1>1
<1> HIDE DEF v, z
<1>11. u \o s \in Seq(Byte) /\ Len(u \o s) = a + n
       /\ \A i \in 1 .. a + n : (u \o s)[i] = IF i <= a THEN u[i] ELSE s[i - a]
  <2>1. u \in Seq(Byte) /\ s \in Seq(Byte)
    BY <1>4, <1>6, Zenon
  <2>2. /\ u \o s \in Seq(Byte) /\ Len(u \o s) = Len(u) + Len(s)
        /\ \A i \in 1 .. Len(u) + Len(s) : (u \o s)[i] = IF i <= Len(u) THEN u[i] ELSE s[i - Len(u)]
    BY <2>1, Joined, Zenon
  <2>3. Len(u) = a /\ Len(s) = n
    BY <1>4, <1>6, Zenon
  <2> QED BY <2>2, <2>3, Zenon
<1>12. u \o s = v
  <2>1. ASSUME NEW i \in 1 .. a + n PROVE (u \o s)[i] = v[i]
    <3>1. CASE i <= a
      BY <1>1, <1>4, <1>9, <1>11, <3>1, SMTT(30)
    <3>2. CASE ~(i <= a)
      <4>1. i - a \in 1 .. n /\ i - a \in 1 .. Len(buf) - a /\ a + (i - a) = i
        BY <1>1, <3>2
      <4>2. (u \o s)[i] = buf[a + (i - a)]
        BY <1>3, <1>7, <1>11, <3>2, <4>1, Zenon
      <4> QED BY <1>9, <4>1, <4>2, Zenon
    <3> QED BY <3>1, <3>2, Zenon
  <2> QED BY <1>9, <1>11, <2>1, SameSequence, Zenon
<1>13. t = z
  <2>1. ASSUME NEW i \in 1 .. Len(buf) - (a + n) PROVE t[i] = z[i]
    <3>1. i \in 1 .. Len(rest) - n /\ n + i \in 1 .. Len(buf) - a /\ a + (n + i) = (a + n) + i
      BY <1>1, <1>2
    <3>2. t[i] = buf[a + (n + i)]
      BY <1>3, <1>8, <3>1, Zenon
    <3> QED BY <1>10, <3>1, <3>2, Zenon
  <2>2. Len(t) = Len(z) /\ Len(z) = Len(buf) - (a + n)
    BY <1>1, <1>2, <1>6, <1>10
  <2> QED BY <1>6, <1>10, <2>1, <2>2, SameSequence, Zenon
<1> QED BY <1>2, <1>6, <1>12, <1>13, Zenon DEF Left, rest, s, t, u, v, z

\* buffer_input.
Buffered(c, s) == [c EXCEPT !.pending = @ \o s]

\* ... and what that leaves.
BufferedOn(c, all, content, s) ==
  /\ Buffered(c, s) \in Contexts /\ Len(Buffered(c, s).pending) = Len(c.pending) + Len(s)
  /\ Buffered(c, s).started = TRUE /\ Buffered(c, s).errored = c.errored
  /\ SameFrame(c, Buffered(c, s)) /\ InFrame(Buffered(c, s), all, content \o s)

\* Bytes buffered go to the end of the frame's content.
LEMMA BufferKeeps ==
  ASSUME NEW c \in Contexts, c.started = TRUE, NEW all, NEW content \in Seq(Byte), NEW s \in Seq(Byte),
         InFrame(c, all, content)
  PROVE  BufferedOn(c, all, content, s)
<1> DEFINE e == [c EXCEPT !.pending = @ \o s]
<1>1. c.pending \in Seq(Byte) /\ c.hashed \in Seq(Byte)
  BY Zenon DEF Contexts
<1>2. c.pending \o s \in Seq(Byte) /\ Len(c.pending \o s) = Len(c.pending) + Len(s)
  BY <1>1
<1>3. e \in Contexts /\ e.pending = c.pending \o s /\ e.started = TRUE /\ e.errored = c.errored
      /\ e.hashed = c.hashed /\ SameFrame(c, e)
  BY <1>2, Zenon DEF Contexts, SameFrame
<1>4. (c.hashed \o c.pending) \o s = c.hashed \o (c.pending \o s)
  BY <1>1, Associated, Zenon
<1>5. c.hashed \o c.pending = content /\ Contents(all) = c.hashed /\ IsOpenFrame(all) /\ all # << >>
      /\ all[1].fcs = c.pledged /\ all[1].dict = c.dictionary
  BY Zenon DEF InFrame
<1> HIDE DEF e
<1>6. InFrame(e, all, content \o s)
  BY <1>3, <1>4, <1>5, Zenon DEF InFrame, SameFrame
<1>7. Len(e.pending) = Len(c.pending) + Len(s)
  BY <1>2, <1>3, Zenon
<1>8. Buffered(c, s) = e
  BY Zenon DEF Buffered, e
<1> QED BY <1>3, <1>6, <1>7, <1>8, Zenon DEF BufferedOn

\* What emit_full_pending_block leaves of a block that is at most full: room in
\* it, the frame of the same bytes, or a failure.
Cleared(c, p, content, r) ==
  /\ r.c \in Contexts /\ r.d \in Drains /\ r.code \in {"ok", "drain"} /\ SameFrame(c, r.c)
  /\ r.code = "ok" => /\ r.c.errored = FALSE /\ r.c.started = TRUE /\ Len(r.c.pending) < BlockCapacity
                      /\ InFrame(r.c, p \o r.d.bytes, content)
  /\ r.code # "ok" => r.c.errored = TRUE

AtMostFull(c) == Len(c.pending) <= BlockCapacity

\* emit_full_pending_block leaves less than a block pending, or a failure.
LEMMA EmitFacts ==
  ASSUME NEW c \in Contexts, c.started = TRUE, c.errored = FALSE, AtMostFull(c), NEW d \in Drains,
         NEW p \in Seq(Pieces), NEW content, InFrame(c, p \o d.bytes, content)
  PROVE  Cleared(c, p, content, emit_full_pending_block(c, d))
<1> DEFINE r == emit_full_pending_block(c, d)
           n == pre_split_len(c)
<1>1. Len(c.pending) \in Nat /\ BlockCapacity \in Nat /\ c.pending \in Seq(Byte) /\ pending_len(c) = Len(c.pending)
  BY CapacityAssumption DEF Contexts, pending_len
<1>2. CASE pending_len(c) # BlockCapacity
  <2>1. r.c = c /\ r.d = d /\ r.code = "ok"
    BY <1>2, Zenon DEF emit_full_pending_block, Answer
  <2>2. Len(c.pending) < BlockCapacity
    BY <1>1, <1>2 DEF AtMostFull
  <2> HIDE DEF r
  <2>3. Cleared(c, p, content, r)
    BY <2>1, <2>2, Zenon DEF Cleared, SameFrame
  <2> QED BY <2>3, Zenon DEF r
<1>3. CASE pending_len(c) = BlockCapacity
  <2>1. r = encode_block(c, d, n, FALSE)
    BY <1>3, Zenon DEF emit_full_pending_block
  <2>2. n \in 1 .. BlockCapacity
    BY SplitFacts, Zenon
  <2> HIDE DEF n, r
  <2>3. n \in 0 .. Len(c.pending) /\ n <= BlockCapacity /\ Len(c.pending) - n < BlockCapacity
    BY <1>1, <1>3, <2>2
  <2>4. Emitted(c, d, n, FALSE, r)
    BY <2>1, <2>3, EncodeFacts, Zenon
  <2>5. r.code = "ok" => InFrame(r.c, p \o r.d.bytes, content)
    BY <2>3, <2>4, EmittedKeeps, Zenon DEF MayCut
  <2>6. Len(SubSeq(c.pending, n + 1, Len(c.pending))) = Len(c.pending) - n
    BY <1>1, <2>3, CutFacts, Zenon
  <2>7. Len(r.c.pending) < BlockCapacity
    BY <2>3, <2>4, <2>6, Zenon DEF Emitted
  <2>8. Cleared(c, p, content, r)
    BY <2>4, <2>5, <2>7, Zenon DEF Cleared, Emitted
  <2> QED BY <2>8, Zenon DEF r
<1> QED BY <1>2, <1>3, Zenon

-----------------------------------------------------------------------------
(* write.                                                                  *)

\* The loop of write, part of the way through buf: what it has taken is in the
\* frame, what it has not is left, unless a block failed.
Underway(w, c, p, content, buf) ==
  /\ w.c \in Contexts /\ w.d \in Drains /\ w.code \in {"ok", "drain"} /\ SameFrame(c, w.c)
  /\ w.taken \in 0 .. Len(buf) /\ w.rest = Left(buf, w.taken)
  /\ w.code = "ok" => /\ w.c.errored = FALSE /\ w.c.started = TRUE /\ Len(w.c.pending) < BlockCapacity
                      /\ InFrame(w.c, p \o w.d.bytes, content \o SubSeq(buf, 1, w.taken))
  /\ w.code # "ok" => w.c.errored = TRUE

\* The loop begins there.
LEMMA TakesFrom ==
  ASSUME NEW c \in Contexts, c.errored = FALSE, c.started = TRUE, Len(c.pending) < BlockCapacity,
         NEW d \in Drains, NEW p \in Seq(Pieces), NEW content \in Seq(Byte), NEW buf \in Seq(Byte),
         InFrame(c, p \o d.bytes, content)
  PROVE  Underway(Taking(c, d, buf, 0, "ok"), c, p, content, buf)
<1> DEFINE w0 == Taking(c, d, buf, 0, "ok")
<1>1. Left(buf, 0) = buf /\ SubSeq(buf, 1, 0) = << >> /\ content \o << >> = content
  BY DEF Left
<1>2. w0.c = c /\ w0.d = d /\ w0.rest = buf /\ w0.taken = 0 /\ w0.code = "ok"
  BY Zenon DEF Taking
<1>3. SameFrame(c, c)
  BY Zenon DEF SameFrame
<1> HIDE DEF w0
<1>4. InFrame(w0.c, p \o w0.d.bytes, content \o SubSeq(buf, 1, w0.taken))
  BY <1>1, <1>2, Zenon
<1>5. w0.taken \in 0 .. Len(buf)
  BY <1>2
<1>6. Underway(w0, c, p, content, buf)
  BY <1>1, <1>2, <1>3, <1>4, <1>5, Zenon DEF Underway
<1> QED BY <1>6, Zenon DEF w0

\* A turn of the loop goes on from there, by a byte or more.
LEMMA TurnKeeps ==
  ASSUME NEW w, NEW c \in Contexts, NEW p \in Seq(Pieces), NEW content \in Seq(Byte), NEW buf \in Seq(Byte),
         Underway(w, c, p, content, buf)
  PROVE  /\ Underway(TakeTurn(w), c, p, content, buf)
         /\ w.code = "ok" /\ w.rest # << >> => TakeTurn(w).taken > w.taken
<1>1. CASE w.rest = << >> \/ w.code # "ok"
  BY <1>1, Zenon DEF TakeTurn
<1>2. CASE ~(w.rest = << >> \/ w.code # "ok")
  <2> DEFINE a == w.taken
             n == Min({Len(w.rest), BlockCapacity - pending_len(w.c)})
             s == SubSeq(w.rest, 1, n)
             more == Buffered(w.c, s)
             r == emit_full_pending_block(more, w.d)
             next == Taking(r.c, r.d, Left(w.rest, n), a + n, r.code)
             u == SubSeq(buf, 1, a)
             gone == content \o u
  <2>1. TakeTurn(w) = next
    BY <1>2, Zenon DEF TakeTurn, Buffered, Left
  <2>2. /\ w.c \in Contexts /\ w.d \in Drains /\ SameFrame(c, w.c) /\ w.code = "ok"
        /\ w.c.errored = FALSE /\ w.c.started = TRUE
    BY <1>2, Zenon DEF Underway
  <2>3. w.c.pending \in Seq(Byte) /\ Len(w.c.pending) \in Nat /\ Len(w.c.pending) < BlockCapacity /\ BlockCapacity \in Nat
        /\ pending_len(w.c) = Len(w.c.pending)
    BY <1>2, <2>2, CapacityAssumption DEF Contexts, Underway, pending_len
  <2>4. a \in 0 .. Len(buf) /\ Len(buf) \in Nat /\ w.rest = Left(buf, a)
    BY DEF Underway
  <2>5. w.rest \in Seq(Byte) /\ Len(w.rest) = Len(buf) - a
    BY <2>4, CutFacts DEF Left
  <2>6. Len(w.rest) \in Nat \ {0}
    BY <1>2, <2>5
  <2>7. n \in 1 .. Len(w.rest) /\ n <= BlockCapacity - Len(w.c.pending)
    <3>1. BlockCapacity - Len(w.c.pending) \in Nat \ {0}
      BY <2>3
    <3>2. n = IF Len(w.rest) <= BlockCapacity - Len(w.c.pending) THEN Len(w.rest) ELSE BlockCapacity - Len(w.c.pending)
      BY <2>3, <2>6, <3>1, MinTwo, Zenon
    <3> HIDE DEF n
    <3> QED BY <2>6, <3>1, <3>2
  <2> HIDE DEF n, a
  <2>8. n \in 0 .. Len(buf) - a /\ a + n \in 0 .. Len(buf) /\ a + n > a
    <3>1. n \in 1 .. Len(buf) - a
      BY <2>5, <2>7, Zenon
    <3> QED BY <2>4, <3>1
  <2>9. /\ s \in Seq(Byte) /\ Len(s) = n /\ u \o s = SubSeq(buf, 1, a + n)
        /\ Left(w.rest, n) = Left(buf, a + n)
    <3>1. n \in 0 .. Len(buf) - a
      BY <2>8, Zenon
    <3>2. a \in 0 .. Len(buf)
      BY <2>4, Zenon
    <3>3. /\ SubSeq(Left(buf, a), 1, n) \in Seq(Byte) /\ Len(SubSeq(Left(buf, a), 1, n)) = n
          /\ SubSeq(buf, 1, a) \o SubSeq(Left(buf, a), 1, n) = SubSeq(buf, 1, a + n)
          /\ Left(Left(buf, a), n) = Left(buf, a + n)
      BY <3>1, <3>2, SliceOn, Zenon
    <3> QED BY <2>4, <3>3, Zenon
  <2> HIDE DEF s
  <2>10. u \in Seq(Byte)
    BY <2>4, CutFacts, Zenon
  <2> HIDE DEF u
  <2>11. gone \in Seq(Byte) /\ gone \o s = content \o SubSeq(buf, 1, a + n)
    <3>1. s \in Seq(Byte)
      BY <2>9, Zenon
    <3>2. (content \o u) \o s = content \o (u \o s)
      BY <2>10, <3>1, Associated, SMTT(30)
    <3>3. content \o u \in Seq(Byte)
      BY <2>10, Joined, Zenon
    <3> QED BY <2>9, <3>2, <3>3, Zenon
  <2>12. InFrame(w.c, p \o w.d.bytes, gone)
    BY <2>2, Zenon DEF Underway, u, a
  <2> HIDE DEF gone
  <2>13. /\ more \in Contexts /\ Len(more.pending) = Len(w.c.pending) + n
         /\ more.started = TRUE /\ more.errored = FALSE /\ SameFrame(w.c, more)
         /\ InFrame(more, p \o w.d.bytes, gone \o s)
    <3>1. s \in Seq(Byte) /\ gone \in Seq(Byte) /\ w.c \in Contexts /\ w.c.started = TRUE
      BY <2>2, <2>9, <2>11, Zenon
    <3>2. /\ more \in Contexts /\ Len(more.pending) = Len(w.c.pending) + Len(s)
          /\ more.started = TRUE /\ more.errored = w.c.errored /\ SameFrame(w.c, more)
          /\ InFrame(more, p \o w.d.bytes, gone \o s)
      <4>1. BufferedOn(w.c, p \o w.d.bytes, gone, s)
        BY <2>12, <3>1, BufferKeeps, Zenon
      <4> QED BY <4>1, Zenon DEF BufferedOn
    <3> QED BY <2>2, <2>9, <3>2, Zenon
  <2> HIDE DEF more
  <2>14. AtMostFull(more)
    BY <2>3, <2>7, <2>13 DEF AtMostFull
  <2>15. Cleared(more, p, gone \o s, r)
    BY <2>2, <2>13, <2>14, EmitFacts, Zenon
  <2> HIDE DEF r
  <2>16. /\ next.c = r.c /\ next.d = r.d /\ next.code = r.code /\ next.taken = a + n
         /\ next.rest = Left(buf, a + n)
    BY <2>9, Zenon DEF Taking
  <2> HIDE DEF next
  <2>17. SameFrame(c, r.c)
    BY <2>2, <2>13, <2>15, Zenon DEF SameFrame, Cleared
  <2>18. Underway(next, c, p, content, buf)
    BY <2>8, <2>11, <2>15, <2>16, <2>17, Zenon DEF Underway, Cleared
  <2> QED BY <2>1, <2>8, <2>16, <2>18, Zenon DEF a
<1> QED BY <1>1, <1>2, Zenon

\* The turns of a loop that begins with w0.
Turns(w0, n, g) == g = [i \in 0 .. n |-> IF i = 0 THEN w0 ELSE TakeTurn(g[i - 1])]

\* There are such, for every number of turns: the loop is a recursive function.
LEMMA TurnsExist ==
  ASSUME NEW w0
  PROVE  \A n \in Nat : \E g : g = [i \in 0 .. n |-> IF i = 0 THEN w0 ELSE TakeTurn(g[i - 1])]
<1> DEFINE S == {n \in Nat : \E g : g = [i \in 0 .. n |-> IF i = 0 THEN w0 ELSE TakeTurn(g[i - 1])]}
<1>1. 0 \in S
  <2> DEFINE g == [i \in 0 .. 0 |-> w0]
  <2>1. \A i \in 0 .. 0 : g[i] = IF i = 0 THEN w0 ELSE TakeTurn(g[i - 1])
    OBVIOUS
  <2>2. g = [i \in 0 .. 0 |-> g[i]] /\ 0 \in Nat
    BY Zenon
  <2> HIDE DEF g
  <2>3. g = [i \in 0 .. 0 |-> IF i = 0 THEN w0 ELSE TakeTurn(g[i - 1])]
    BY <2>1, <2>2, Zenon
  <2> QED BY <2>2, <2>3, Zenon
<1>2. ASSUME NEW n \in Nat, n \in S PROVE n + 1 \in S
  <2>1. PICK g : g = [i \in 0 .. n |-> IF i = 0 THEN w0 ELSE TakeTurn(g[i - 1])]
    BY <1>2, Zenon
  <2> DEFINE h == [i \in 0 .. n + 1 |-> IF i <= n THEN g[i] ELSE TakeTurn(g[n])]
  <2>2. ASSUME NEW i \in 0 .. n + 1 PROVE h[i] = IF i = 0 THEN w0 ELSE TakeTurn(h[i - 1])
    <3>1. CASE i <= n
      <4>1. h[i] = g[i] /\ i \in 0 .. n
        BY <3>1
      <4>2. g[i] = IF i = 0 THEN w0 ELSE TakeTurn(g[i - 1])
        BY <2>1, <4>1, Zenon
      <4>3. i # 0 => h[i - 1] = g[i - 1]
        BY <3>1
      <4> QED BY <4>1, <4>2, <4>3, Zenon
    <3>2. CASE i = n + 1
      <4>1. h[i] = TakeTurn(g[n]) /\ i # 0
        BY <3>2
      <4>2. h[i - 1] = g[n]
        BY <3>2
      <4> QED BY <4>1, <4>2, Zenon
    <3> QED BY <3>1, <3>2
  <2>3. h = [i \in 0 .. n + 1 |-> h[i]]
    BY Zenon
  <2> HIDE DEF h
  <2>4. h = [i \in 0 .. n + 1 |-> IF i = 0 THEN w0 ELSE TakeTurn(h[i - 1])]
    BY <2>2, <2>3, Zenon
  <2>5. n + 1 \in Nat
    OBVIOUS
  <2> QED BY <2>4, <2>5, Zenon
<1> HIDE DEF S
<1>3. \A n \in Nat : n \in S
  BY <1>1, <1>2, SetInduction, Zenon
<1> QED BY <1>3, Zenon DEF S

\* What TakeInput answers, in terms of its turns.
Told(w) == Answer([w.c EXCEPT !.consumed = @ + w.taken], w.d, "ok", w.taken)

\* TakeInput answers what the last of its turns left.
LEMMA TakeIs ==
  ASSUME NEW c, NEW d, NEW buf, Len(buf) \in Nat
  PROVE  \E g : Turns(Taking(c, d, buf, 0, "ok"), Len(buf), g) /\ TakeInput(c, d, buf) = Told(g[Len(buf)])
<1> DEFINE w0 == Taking(c, d, buf, 0, "ok")
           after == CHOOSE g : g = [i \in 0 .. Len(buf) |-> IF i = 0 THEN w0 ELSE TakeTurn(g[i - 1])]
<1>1. TakeInput(c, d, buf) = Told(after[Len(buf)])
  BY Zenon DEF TakeInput, Told
<1>2. after = [i \in 0 .. Len(buf) |-> IF i = 0 THEN w0 ELSE TakeTurn(after[i - 1])]
  BY TurnsExist, Zenon
<1> QED BY <1>1, <1>2, Zenon DEF Turns

\* As many turns as there are bytes take all of them, unless a block fails.
LEMMA TurnsGoOn ==
  ASSUME NEW c \in Contexts, NEW p \in Seq(Pieces), NEW content \in Seq(Byte), NEW buf \in Seq(Byte),
         NEW w0, Underway(w0, c, p, content, buf), NEW g, Turns(w0, Len(buf), g)
  PROVE  Underway(g[Len(buf)], c, p, content, buf) /\ (g[Len(buf)].code = "ok" => g[Len(buf)].taken = Len(buf))
<1> DEFINE Good(w, i) == Underway(w, c, p, content, buf) /\ (w.code = "ok" => w.taken >= i)
           S == {i \in Nat : i \in 0 .. Len(buf) => Good(g[i], i)}
<1>1. Len(buf) \in Nat
  OBVIOUS
<1>2. 0 \in S
  <2>1. g[0] = w0
    BY <1>1 DEF Turns
  <2>2. w0.taken \in 0 .. Len(buf)
    BY Zenon DEF Underway
  <2>3. Good(g[0], 0)
    BY <1>1, <2>1, <2>2
  <2> QED BY <2>3, Zenon
<1>3. ASSUME NEW i \in Nat, i \in S PROVE i + 1 \in S
  <2>1. SUFFICES ASSUME i + 1 \in 0 .. Len(buf) PROVE Good(g[i + 1], i + 1)
    <3>1. i + 1 \in Nat
      OBVIOUS
    <3> HIDE DEF Good
    <3> QED BY <3>1, Zenon
  <2> DEFINE w == g[i]
             v == TakeTurn(w)
  <2>2. i \in 0 .. Len(buf) /\ i + 1 # 0 /\ (i + 1) - 1 = i
    BY <1>1, <2>1
  <2>3. Good(w, i)
    BY <1>3, <2>2, Zenon
  <2>4. g[i + 1] = v
    <3>1. g[i + 1] = IF i + 1 = 0 THEN w0 ELSE TakeTurn(g[(i + 1) - 1])
      BY <2>1, Zenon DEF Turns
    <3> QED BY <2>2, <3>1, Zenon
  <2> HIDE DEF w
  <2>5. Underway(w, c, p, content, buf) /\ (w.code = "ok" => w.taken >= i)
    BY <2>3, Zenon
  <2>6. Underway(v, c, p, content, buf) /\ (w.code = "ok" /\ w.rest # << >> => v.taken > w.taken)
    BY <2>5, TurnKeeps, Zenon
  <2>7. w.taken \in 0 .. Len(buf) /\ v.taken \in 0 .. Len(buf) /\ w.rest = Left(buf, w.taken)
    BY <2>5, <2>6, Zenon DEF Underway
  <2>8. CASE w.code = "ok" /\ w.rest # << >>
    <3>1. v.taken >= i + 1
      BY <2>5, <2>6, <2>7, <2>8
    <3> QED BY <2>4, <2>6, <3>1, Zenon
  <2>9. CASE ~(w.code = "ok" /\ w.rest # << >>)
    <3>1. v = w
      BY <2>9, Zenon DEF TakeTurn
    <3>2. w.code = "ok" => w.taken = Len(buf)
      <4>1. Len(Left(buf, w.taken)) = Len(buf) - w.taken
        BY <2>7, CutFacts DEF Left
      <4>2. w.code = "ok" => Len(Left(buf, w.taken)) = 0
        BY <2>7, <2>9
      <4> QED BY <1>1, <2>7, <4>1, <4>2
    <3>3. v.code = "ok" => v.taken >= i + 1
      BY <1>1, <2>1, <3>1, <3>2
    <3> QED BY <2>4, <2>6, <3>3, Zenon
  <2> QED BY <2>8, <2>9, Zenon
<1> HIDE DEF S
<1>4. \A i \in Nat : i \in S
  BY <1>2, <1>3, SetInduction, Zenon
<1>5. Good(g[Len(buf)], Len(buf))
  BY <1>1, <1>4 DEF S
<1>6. g[Len(buf)].taken \in 0 .. Len(buf)
  BY <1>5, Zenon DEF Underway
<1> QED BY <1>1, <1>5, <1>6

\* A context that has not failed stands in the frame of `content`: what is on
\* the drain and pending is that content, and the count of it is right.
Sound(c, p, d, content) ==
  c.errored = FALSE => /\ InFrame(c, p \o d.bytes, content)
                       /\ pending_len(c) < BlockCapacity /\ c.consumed = Len(content)

Codes == {"ok", "InvalidInput", "drain", "sticky"}

\* What a write of buf leaves.
AfterWrite(c, p, content, buf, r) ==
  /\ r.c \in Contexts /\ r.d \in Drains /\ r.taken \in 0 .. Len(buf) /\ r.code \in Codes
  /\ r.c.pledged = c.pledged /\ r.c.dictionary = c.dictionary
  /\ Sound(r.c, p, r.d, content \o SubSeq(buf, 1, r.taken))

\* The count of the input taken is no part of what is on the drain.
LEMMA CountedOn ==
  ASSUME NEW c \in Contexts, NEW k \in Nat, NEW all, NEW content, InFrame(c, all, content)
  PROVE  InFrame([c EXCEPT !.consumed = k], all, content)
<1> DEFINE e == [c EXCEPT !.consumed = k]
<1>1. /\ e.started = c.started /\ e.hashed = c.hashed /\ e.pending = c.pending /\ e.pledged = c.pledged
      /\ e.dictionary = c.dictionary
  BY Zenon DEF Contexts
<1> HIDE DEF e
<1>2. InFrame(e, all, content)
  BY <1>1, Zenon DEF InFrame
<1> QED BY <1>2, Zenon DEF e

\* The loop takes all it is given unless a block fails, and the frame then
\* goes on with what it took.
LEMMA TakeFacts ==
  ASSUME NEW c \in Contexts, c.errored = FALSE, c.started = TRUE, Len(c.pending) < BlockCapacity,
         NEW d \in Drains, NEW p \in Seq(Pieces), NEW content \in Seq(Byte), NEW buf \in Seq(Byte),
         InFrame(c, p \o d.bytes, content), c.consumed = Len(content)
  PROVE  /\ AfterWrite(c, p, content, buf, TakeInput(c, d, buf))
         /\ TakeInput(c, d, buf).c.errored = FALSE => TakeInput(c, d, buf).taken = Len(buf)
<1> DEFINE w0 == Taking(c, d, buf, 0, "ok")
<1>1. Len(buf) \in Nat /\ c.consumed \in Nat
  BY DEF Contexts
<1>2. Underway(w0, c, p, content, buf)
  BY TakesFrom, Zenon
<1> HIDE DEF w0
<1>3. PICK g : Turns(w0, Len(buf), g) /\ TakeInput(c, d, buf) = Told(g[Len(buf)])
  BY <1>1, TakeIs, Zenon DEF w0
<1> DEFINE w == g[Len(buf)]
           r == Told(w)
           k == c.consumed + w.taken
<1>4. Underway(w, c, p, content, buf) /\ (w.code = "ok" => w.taken = Len(buf))
  BY <1>2, <1>3, TurnsGoOn
<1> HIDE DEF w
<1>5. w.c \in Contexts /\ w.d \in Drains /\ SameFrame(c, w.c) /\ w.taken \in 0 .. Len(buf) /\ k \in Nat
  BY <1>1, <1>4 DEF Underway
<1>6. r.c = [w.c EXCEPT !.consumed = k] /\ r.d = w.d /\ r.taken = w.taken /\ r.code = "ok"
  <2>1. r.c = [w.c EXCEPT !.consumed = @ + w.taken] /\ r.d = w.d /\ r.taken = w.taken /\ r.code = "ok"
    BY Zenon DEF Told, Answer
  <2>2. w.c.consumed = c.consumed
    BY <1>5, Zenon DEF SameFrame
  <2> QED BY <1>5, <2>1, <2>2, Zenon DEF Contexts
<1>7. /\ r.c \in Contexts /\ r.c.errored = w.c.errored /\ r.c.started = w.c.started /\ r.c.pending = w.c.pending
      /\ r.c.consumed = k /\ r.c.pledged = w.c.pledged /\ r.c.dictionary = w.c.dictionary
  BY <1>5, <1>6, Zenon DEF Contexts
<1>8. r.c.pledged = c.pledged /\ r.c.dictionary = c.dictionary
  BY <1>5, <1>7, Zenon DEF SameFrame
<1>9. ASSUME r.c.errored = FALSE
      PROVE  /\ w.code = "ok" /\ InFrame(r.c, p \o r.d.bytes, content \o SubSeq(buf, 1, r.taken))
             /\ pending_len(r.c) < BlockCapacity /\ r.c.consumed = Len(content \o SubSeq(buf, 1, r.taken))
  <2>1. w.code = "ok"
    BY <1>4, <1>7, <1>9, Zenon DEF Underway
  <2>2. /\ w.c.started = TRUE /\ Len(w.c.pending) < BlockCapacity
        /\ InFrame(w.c, p \o w.d.bytes, content \o SubSeq(buf, 1, w.taken))
    BY <1>4, <2>1, Zenon DEF Underway
  <2>3. InFrame([w.c EXCEPT !.consumed = k], p \o w.d.bytes, content \o SubSeq(buf, 1, w.taken))
    BY <1>5, <2>2, CountedOn, Zenon
  <2>4. Len(content \o SubSeq(buf, 1, w.taken)) = Len(content) + w.taken
    <3>1. SubSeq(buf, 1, w.taken) \in Seq(Byte) /\ Len(SubSeq(buf, 1, w.taken)) = w.taken
      BY <1>5, CutFacts, Zenon
    <3> HIDE DEF r, k
    <3> QED BY <3>1, Joined
  <2>5. pending_len(r.c) = Len(w.c.pending)
    BY <1>7, <2>2, Zenon DEF pending_len
  <2> HIDE DEF r
  <2> QED BY <1>6, <1>7, <2>1, <2>2, <2>3, <2>4, <2>5, Zenon
<1> HIDE DEF r
<1>10. TakeInput(c, d, buf) = r
  BY <1>3, Zenon DEF r, w
<1>11. Sound(r.c, p, r.d, content \o SubSeq(buf, 1, r.taken))
  BY <1>9, Zenon DEF Sound
<1>12. r.c.errored = FALSE => r.taken = Len(buf)
  BY <1>4, <1>6, <1>9, Zenon
<1>13. AfterWrite(c, p, content, buf, r)
  BY <1>5, <1>6, <1>7, <1>8, <1>11, Zenon DEF AfterWrite, Codes
<1> QED BY <1>10, <1>12, <1>13, Zenon

\* What a pledge lets through of buf is the beginning of it.
LEMMA AcceptedFacts ==
  ASSUME NEW c \in Contexts, NEW buf \in Seq(Byte), c.pledged # Unknown => c.consumed < c.pledged
  PROVE  \E n \in 0 .. Len(buf) : Accepted(c, buf) = SubSeq(buf, 1, n)
<1>1. Len(buf) \in Nat /\ c.consumed \in Nat /\ c.pledged \in Nat \cup {Unknown}
  BY DEF Contexts
<1>2. CASE c.pledged = Unknown
  <2>1. Accepted(c, buf) = SubSeq(buf, 1, Len(buf))
    BY <1>2 DEF Accepted
  <2> QED BY <1>1, <2>1
<1>3. CASE c.pledged # Unknown
  <2> DEFINE n == Min({Len(buf), c.pledged - c.consumed})
  <2>1. c.pledged - c.consumed \in Nat
    BY <1>1, <1>3
  <2>2. n \in 0 .. Len(buf)
    BY <1>1, <2>1, MinTwo
  <2>3. Accepted(c, buf) = SubSeq(buf, 1, n)
    BY <1>3, Zenon DEF Accepted
  <2> QED BY <2>2, <2>3, Zenon
<1> QED BY <1>2, <1>3, Zenon

\* The beginning of a beginning.
LEMMA BeginningOf ==
  ASSUME NEW buf \in Seq(Byte), NEW n \in 0 .. Len(buf), NEW k \in 0 .. n
  PROVE  SubSeq(SubSeq(buf, 1, n), 1, k) = SubSeq(buf, 1, k)
OBVIOUS

\* A call that changed neither.
LEMMA NothingWritten ==
  ASSUME NEW c \in Contexts, NEW d \in Drains, NEW p \in Seq(Pieces), NEW content \in Seq(Byte),
         NEW buf \in Seq(Byte), Sound(c, p, d, content), NEW code \in Codes
  PROVE  AfterWrite(c, p, content, buf, Answer(c, d, code, 0))
<1> DEFINE r == Answer(c, d, code, 0)
<1>1. r.c = c /\ r.d = d /\ r.taken = 0 /\ 0 \in 0 .. Len(buf) /\ r.code = code
  BY DEF Answer
<1>2. content \o SubSeq(buf, 1, 0) = content
  OBVIOUS
<1> HIDE DEF r
<1>3. Sound(r.c, p, r.d, content \o SubSeq(buf, 1, r.taken))
  BY <1>1, <1>2, Zenon
<1>4. AfterWrite(c, p, content, buf, r)
  BY <1>1, <1>3, Zenon DEF AfterWrite
<1> QED BY <1>4, Zenon DEF r

\* A call that failed.
LEMMA WriteFailed ==
  ASSUME NEW c, NEW p, NEW content, NEW buf \in Seq(Byte), NEW r, r.c \in Contexts, r.d \in Drains,
         r.c.errored = TRUE, r.taken = 0, r.code \in Codes, SameFrame(c, r.c)
  PROVE  AfterWrite(c, p, content, buf, r)
<1>1. 0 \in 0 .. Len(buf)
  OBVIOUS
<1>2. Sound(r.c, p, r.d, content \o SubSeq(buf, 1, r.taken))
  BY Zenon DEF Sound
<1> QED BY <1>1, <1>2, Zenon DEF AfterWrite, SameFrame

\* A write that answers Ok, no block of which failed, took all the pledge allows.
TakesAll(c, buf, r) == r.code = "ok" /\ r.c.errored = FALSE /\ buf # << >> => r.taken = Len(Accepted(c, buf))

\* A write takes the beginning of what it is brought into the frame, and
\* reports how much that was, whatever block of it fails.
LEMMA WriteFacts ==
  ASSUME NEW c \in Contexts, NEW d \in Drains, NEW p \in Seq(Pieces), NEW content \in Seq(Byte),
         NEW buf \in Seq(Byte), Sound(c, p, d, content)
  PROVE  AfterWrite(c, p, content, buf, write(c, d, buf)) /\ TakesAll(c, buf, write(c, d, buf))
<1> DEFINE r == write(c, d, buf)
<1>1. c.errored \in BOOLEAN /\ c.consumed \in Nat /\ c.pledged \in Nat \cup {Unknown}
  BY Zenon DEF Contexts
<1>2. CASE c.errored \/ buf = << >> \/ (c.pledged # Unknown /\ c.consumed >= c.pledged)
  <2>1. PICK code \in Codes : r = Answer(c, d, code, 0) /\ (buf # << >> => code # "ok")
    BY <1>2, Zenon DEF write, Codes
  <2> HIDE DEF r
  <2>2. AfterWrite(c, p, content, buf, r)
    BY <2>1, NothingWritten, Zenon
  <2>3. TakesAll(c, buf, r)
    BY <2>1, Zenon DEF TakesAll, Answer
  <2> QED BY <2>2, <2>3, Zenon DEF r
<1>3. CASE ~(c.errored \/ buf = << >> \/ (c.pledged # Unknown /\ c.consumed >= c.pledged))
  <2> DEFINE b == ensure_frame_started(c, d)
             some == Accepted(c, buf)
  <2>1. c.errored = FALSE /\ (c.pledged # Unknown => c.consumed < c.pledged)
    BY <1>1, <1>3 DEF Unknown
  <2>2. InFrame(c, p \o d.bytes, content) /\ pending_len(c) < BlockCapacity /\ c.consumed = Len(content)
    BY <2>1, Zenon DEF Sound
  <2>3. Begun(c, p, content, b)
    BY <2>1, <2>2, StartFacts, Zenon
  <2>4. r = IF b.code # "ok" THEN b ELSE TakeInput(b.c, b.d, some)
    BY <1>3, Zenon DEF write
  <2> HIDE DEF b, r
  <2>5. /\ b.c \in Contexts /\ b.d \in Drains /\ b.taken = 0 /\ SameFrame(c, b.c) /\ b.code \in Codes
        /\ b.code # "ok" => b.c.errored = TRUE
    BY <2>3, Zenon DEF Begun, Codes
  <2>6. CASE b.code # "ok"
    <3>1. AfterWrite(c, p, content, buf, b)
      BY <2>5, <2>6, WriteFailed, Zenon
    <3>2. TakesAll(c, buf, b)
      BY <2>6, Zenon DEF TakesAll
    <3> QED BY <2>4, <2>6, <3>1, <3>2, Zenon DEF r
  <2>7. CASE b.code = "ok"
    <3>1. /\ b.c.errored = FALSE /\ b.c.started = TRUE /\ pending_len(b.c) = pending_len(c)
          /\ InFrame(b.c, p \o b.d.bytes, content)
      BY <2>3, <2>7, Zenon DEF Begun
    <3>2. Len(b.c.pending) < BlockCapacity /\ b.c.consumed = Len(content)
      BY <2>2, <2>5, <3>1, Zenon DEF pending_len, SameFrame
    <3>3. PICK n \in 0 .. Len(buf) : some = SubSeq(buf, 1, n)
      BY <2>1, AcceptedFacts, Zenon
    <3> HIDE DEF some
    <3>4. some \in Seq(Byte) /\ Len(some) = n
      BY <3>3, CutFacts, Zenon
    <3>5. /\ AfterWrite(b.c, p, content, some, TakeInput(b.c, b.d, some))
          /\ TakeInput(b.c, b.d, some).c.errored = FALSE => TakeInput(b.c, b.d, some).taken = Len(some)
      BY <2>5, <3>1, <3>2, <3>4, TakeFacts, Zenon
    <3>6. r = TakeInput(b.c, b.d, some)
      BY <2>4, <2>7, Zenon
    <3>7. AfterWrite(b.c, p, content, some, r)
      BY <3>5, <3>6, Zenon
    <3>8. r.taken \in 0 .. n
      BY <3>4, <3>7, Zenon DEF AfterWrite
    <3>9. SubSeq(some, 1, r.taken) = SubSeq(buf, 1, r.taken)
      BY <3>3, <3>8, BeginningOf, Zenon
    <3>10. Sound(r.c, p, r.d, content \o SubSeq(buf, 1, r.taken))
      BY <3>7, <3>9, Zenon DEF AfterWrite
    <3>11. r.taken \in 0 .. Len(buf)
      BY <3>8
    <3>12. AfterWrite(c, p, content, buf, r)
      BY <2>5, <3>7, <3>10, <3>11, Zenon DEF AfterWrite, SameFrame
    <3>13. TakesAll(c, buf, r)
      BY <3>5, <3>6, Zenon DEF TakesAll, some
    <3> QED BY <3>12, <3>13, Zenon DEF r
  <2> QED BY <2>6, <2>7, Zenon
<1> QED BY <1>2, <1>3, Zenon

-----------------------------------------------------------------------------
(* flush and finish_frame.                                                 *)

\* One and two elements more at the end of a sequence.
LEMMA TwoMore ==
  ASSUME NEW A, NEW s \in Seq(A), NEW x \in A, NEW y \in A
  PROVE  /\ Append(s, x) \in Seq(A) /\ Len(Append(s, x)) = Len(s) + 1
         /\ SubSeq(Append(s, x), 1, Len(s)) = s /\ Append(s, x)[Len(s) + 1] = x
         /\ Append(Append(s, x), y) \in Seq(A) /\ Len(Append(Append(s, x), y)) = Len(s) + 2
         /\ SubSeq(Append(Append(s, x), y), 1, Len(s)) = s
         /\ Append(Append(s, x), y)[Len(s) + 1] = x /\ Append(Append(s, x), y)[Len(s) + 2] = y
         /\ s # << >> => Append(s, x)[1] = s[1] /\ Append(Append(s, x), y)[1] = s[1]
<1>1. Len(s) \in Nat /\ \A i \in 1 .. Len(s) : s[i] \in A
  OBVIOUS
<1>2. /\ Append(s, x) \in Seq(A) /\ Len(Append(s, x)) = Len(s) + 1
      /\ Append(s, x)[Len(s) + 1] = x /\ \A i \in 1 .. Len(s) : Append(s, x)[i] = s[i]
  OBVIOUS
<1> DEFINE t == Append(s, x)
<1> HIDE DEF t
<1>3. /\ Append(t, y) \in Seq(A) /\ Len(Append(t, y)) = Len(t) + 1
      /\ Append(t, y)[Len(t) + 1] = y /\ \A i \in 1 .. Len(t) : Append(t, y)[i] = t[i]
  BY <1>2 DEF t
<1>4. ASSUME NEW u \in Seq(A), Len(u) >= Len(s), \A i \in 1 .. Len(s) : u[i] = s[i]
      PROVE  SubSeq(u, 1, Len(s)) = s
  BY <1>4
<1>5. SubSeq(t, 1, Len(s)) = s
  BY <1>1, <1>2, <1>4 DEF t
<1>6. \A i \in 1 .. Len(s) : Append(t, y)[i] = s[i]
  BY <1>1, <1>2, <1>3 DEF t
<1>7. SubSeq(Append(t, y), 1, Len(s)) = s
  <2>1. Len(Append(t, y)) >= Len(s)
    BY <1>1, <1>2, <1>3 DEF t
  <2> QED BY <1>3, <1>4, <1>6, <2>1, Zenon
<1>8. Len(t) = Len(s) + 1 /\ Append(t, y)[Len(s) + 1] = x
  BY <1>1, <1>2, <1>3 DEF t
<1>9. s # << >> => 1 \in 1 .. Len(s)
  BY <1>1
<1>10. s # << >> => t[1] = s[1] /\ Append(t, y)[1] = s[1]
  BY <1>2, <1>6, <1>9, Zenon DEF t
<1>11. Len(Append(t, y)) = Len(s) + 2 /\ Append(t, y)[Len(s) + 2] = y
  BY <1>1, <1>3, <1>8
<1> QED BY <1>2, <1>3, <1>5, <1>7, <1>8, <1>10, <1>11, Zenon DEF t

\* The pieces after the last block and, with the checksum on, the checksum.
Closed(all, data, content) ==
  IF ContentChecksum THEN Append(Append(all, Block(data, TRUE)), Checksum(content))
  ELSE Append(all, Block(data, TRUE))

\* An open frame with its last block, and the checksum of all its content, is a
\* frame of that content.
LEMMA FrameCloses ==
  ASSUME NEW all \in Seq(Pieces), all # << >>, IsOpenFrame(all),
         NEW data \in Seq(Byte), Len(data) <= BlockCapacity, NEW content \in Seq(Byte),
         Contents(all) \o data = content, all[1].fcs \in {Unknown, Len(content)}
  PROVE  IsFrameOf(Closed(all, data, content), content)
<1> DEFINE x == Block(data, TRUE)
           y == Checksum(content)
           n == Len(all) + 1
<1>1. x \in Pieces /\ y \in Pieces /\ BlockData(x) = data /\ BlockData(y) = << >>
  BY PieceFacts, Zenon DEF Unknown
<1>2. x.t = "block" /\ x.last = TRUE /\ x.data = data
  BY Zenon DEF Block, Piece
<1> HIDE DEF x, y
<1> DEFINE s == Append(all, x)
           u == Append(s, y)
<1>3. /\ s \in Seq(Pieces) /\ Len(s) = n /\ SubSeq(s, 1, Len(all)) = all /\ s[n] = x
      /\ u \in Seq(Pieces) /\ Len(u) = Len(all) + 2 /\ SubSeq(u, 1, Len(all)) = all
      /\ u[n] = x /\ u[Len(all) + 2] = y /\ s[1] = all[1] /\ u[1] = all[1]
  BY <1>1, TwoMore
<1>4. Len(all) \in Nat \ {0}
  OBVIOUS
<1>5. Contents(s) = content
  BY <1>1, ContentsFacts, Zenon
<1> HIDE DEF s
<1>6. Contents(u) = content
  <2>1. Contents(u) = Contents(s) \o << >>
    BY <1>1, <1>3, ContentsFacts, Zenon
  <2> QED BY <1>5, <2>1
<1> HIDE DEF u
<1>7. n >= 2 /\ n - 1 = Len(all) /\ (Len(all) + 2) - 1 = n /\ n + 1 = Len(all) + 2
  BY <1>4
<1>8. CASE ContentChecksum
  <2>1. Closed(all, data, content) = u
    BY <1>8, Zenon DEF Closed, u, s, x, y
  <2>2. Len(u) - 1 = n
    BY <1>3, <1>7, Zenon
  <2> HIDE DEF n
  <2>3. IsFrameOf(u, content)
    BY <1>2, <1>3, <1>6, <1>7, <1>8, <2>2, Zenon DEF IsFrameOf, y
  <2> QED BY <2>1, <2>3, Zenon
<1>9. CASE ~ContentChecksum
  <2>1. Closed(all, data, content) = s
    BY <1>9, Zenon DEF Closed, s, x
  <2> HIDE DEF n
  <2>2. IsFrameOf(s, content)
    BY <1>2, <1>3, <1>5, <1>7, <1>9, Zenon DEF IsFrameOf
  <2> QED BY <2>1, <2>2, Zenon
<1> QED BY <1>8, <1>9, Zenon

\* The drain's own flush writes nothing.
LEMMA FlushDrainFacts ==
  ASSUME NEW c \in Contexts, NEW d \in Drains
  PROVE  /\ FlushDrain(c, d).c \in Contexts /\ FlushDrain(c, d).d \in Drains
         /\ FlushDrain(c, d).code \in {"ok", "drain"} /\ FlushDrain(c, d).taken = 0
         /\ FlushDrain(c, d).d.bytes = d.bytes
         /\ FlushDrain(c, d).code = "ok" => FlushDrain(c, d).c = c
         /\ FlushDrain(c, d).code # "ok" => FlushDrain(c, d).c = fail(c)
<1>1. Called(d) \in Drains /\ Called(d).bytes = d.bytes
  BY DEF Called, Drains
<1>2. fail(c) \in Contexts
  BY Zenon DEF Contexts, fail
<1> QED BY <1>1, <1>2, Zenon DEF FlushDrain, Answer

\* A failed context.
LEMMA FailFacts ==
  ASSUME NEW c \in Contexts
  PROVE  fail(c) \in Contexts /\ fail(c).errored = TRUE /\ SameFrame(c, fail(c))
BY Zenon DEF Contexts, fail, SameFrame

\* What a flush leaves.
AfterFlush(c, p, content, r) ==
  /\ r.c \in Contexts /\ r.d \in Drains /\ r.taken = 0 /\ r.code \in Codes
  /\ r.c.pledged = c.pledged /\ r.c.dictionary = c.dictionary
  /\ Sound(r.c, p, r.d, content)

\* The drain's flush, at a point where the context stands in its frame.
LEMMA FlushesOn ==
  ASSUME NEW c \in Contexts, NEW d \in Drains, NEW p, NEW content, Sound(c, p, d, content)
  PROVE  AfterFlush(c, p, content, FlushDrain(c, d))
<1> DEFINE r == FlushDrain(c, d)
<1>1. /\ r.c \in Contexts /\ r.d \in Drains /\ r.code \in {"ok", "drain"} /\ r.taken = 0 /\ r.d.bytes = d.bytes
      /\ r.code = "ok" => r.c = c
      /\ r.code # "ok" => r.c = fail(c)
  BY FlushDrainFacts, Zenon
<1> HIDE DEF r
<1>2. CASE r.code = "ok"
  <2>1. Sound(r.c, p, r.d, content)
    BY <1>1, <1>2, Zenon DEF Sound
  <2>2. AfterFlush(c, p, content, r)
    BY <1>1, <1>2, <2>1, Zenon DEF AfterFlush, Codes
  <2> QED BY <2>2, Zenon DEF r
<1>3. CASE r.code # "ok"
  <2>1. r.c.errored = TRUE /\ SameFrame(c, r.c)
    BY <1>1, <1>3, FailFacts, Zenon
  <2>2. AfterFlush(c, p, content, r)
    BY <1>1, <2>1, Zenon DEF AfterFlush, Sound, SameFrame, Codes
  <2> QED BY <2>2, Zenon DEF r
<1> QED BY <1>2, <1>3, Zenon

\* The block of all that is pending.
LEMMA EmitPending ==
  ASSUME NEW c \in Contexts, c.started = TRUE, NEW d \in Drains, NEW last \in BOOLEAN
  PROVE  Emitted(c, d, Len(c.pending), last, emit_pending_block(c, d, last))
<1>1. pending_len(c) = Len(c.pending) /\ Len(c.pending) \in 0 .. Len(c.pending)
  BY DEF pending_len, Contexts
<1>2. Emitted(c, d, Len(c.pending), last, encode_block(c, d, Len(c.pending), last))
  BY <1>1, EncodeFacts, Zenon
<1> QED BY <1>1, <1>2, Zenon DEF emit_pending_block

\* A flush writes out what is pending and leaves the context in its frame.
LEMMA FlushFacts ==
  ASSUME NEW c \in Contexts, NEW d \in Drains, NEW p \in Seq(Pieces), NEW content \in Seq(Byte),
         Sound(c, p, d, content)
  PROVE  AfterFlush(c, p, content, flush(c, d))
<1> DEFINE r == flush(c, d)
<1>1. c.errored \in BOOLEAN /\ c.started \in BOOLEAN /\ c.pending \in Seq(Byte) /\ BlockCapacity \in Nat \ {0}
  BY CapacityAssumption, Zenon DEF Contexts
<1>2. CASE c.errored = TRUE
  <2>1. r = Answer(c, d, "sticky", 0)
    BY <1>2, Zenon DEF flush
  <2>2. r.c = c /\ r.d = d /\ r.taken = 0 /\ r.code \in Codes
    BY <2>1 DEF Answer, Codes
  <2> HIDE DEF r
  <2>3. AfterFlush(c, p, content, r)
    BY <2>2, Zenon DEF AfterFlush
  <2> QED BY <2>3, Zenon DEF r
<1>3. CASE c.errored = FALSE /\ pending_len(c) = 0
  <2>1. r = FlushDrain(c, d)
    BY <1>3, Zenon DEF flush
  <2> QED BY <2>1, FlushesOn, Zenon
<1>4. CASE c.errored = FALSE /\ pending_len(c) # 0
  <2> DEFINE e == emit_pending_block(c, d, FALSE)
             n == Len(c.pending)
  <2>1. r = IF e.code # "ok" THEN e ELSE FlushDrain(e.c, e.d)
    BY <1>4, Zenon DEF flush
  <2>2. c.started = TRUE /\ pending_len(c) = n
    BY <1>1, <1>4, Zenon DEF pending_len
  <2>3. Emitted(c, d, n, FALSE, e)
    BY <2>2, EmitPending, Zenon
  <2> HIDE DEF e, r
  <2>4. /\ e.c \in Contexts /\ e.d \in Drains /\ e.taken = 0 /\ SameFrame(c, e.c) /\ e.c.started = c.started
        /\ e.c.pending = SubSeq(c.pending, n + 1, n) /\ (e.code # "ok" => e.c.errored = TRUE)
        /\ e.code \in Codes
    BY <2>3, Zenon DEF Emitted, Codes
  <2>5. CASE e.code # "ok"
    <3>1. AfterFlush(c, p, content, e)
      BY <2>4, <2>5, Zenon DEF AfterFlush, Sound, SameFrame
    <3> QED BY <2>1, <2>5, <3>1, Zenon DEF r
  <2>6. CASE e.code = "ok"
    <3>1. InFrame(c, p \o d.bytes, content) /\ pending_len(c) < BlockCapacity /\ c.consumed = Len(content)
      BY <1>4, Zenon DEF Sound
    <3>2. n \in 0 .. n /\ n <= BlockCapacity
      BY <1>1, <2>2, <3>1
    <3>3. MayCut(c, n)
      BY <3>2, Zenon DEF MayCut
    <3>4. InFrame(e.c, p \o e.d.bytes, content)
      BY <2>2, <2>3, <2>6, <3>1, <3>3, EmittedKeeps, Zenon
    <3>5. e.c.pending = << >>
      BY <1>1, <2>4
    <3>6. pending_len(e.c) = 0 /\ e.c.consumed = Len(content)
      BY <2>4, <3>1, <3>5, Zenon DEF pending_len, SameFrame
    <3>7. Sound(e.c, p, e.d, content)
      BY <1>1, <3>4, <3>6 DEF Sound
    <3>8. AfterFlush(e.c, p, content, FlushDrain(e.c, e.d))
      BY <2>4, <3>7, FlushesOn, Zenon
    <3>9. r = FlushDrain(e.c, e.d)
      BY <2>1, <2>6, Zenon
    <3>10. AfterFlush(c, p, content, r)
      BY <2>4, <3>8, <3>9, Zenon DEF AfterFlush, SameFrame
    <3> QED BY <3>10, Zenon DEF r
  <2> QED BY <2>5, <2>6, Zenon
<1> QED BY <1>1, <1>2, <1>3, <1>4, Zenon

\* The header of a frame says its size and its dictionary.
Heads(all, size, dict) == all # << >> => all[1].fcs = size /\ all[1].dict = dict

\* What the end of a frame leaves: a whole frame on the drain and a context
\* ready for the next, or a failure, or a pledge not met and nothing changed.
AfterEnd(c, p, content, r) ==
  /\ r.c \in Contexts /\ r.d \in Drains /\ r.taken = 0 /\ r.c.dictionary = c.dictionary /\ r.code \in Codes
  /\ r.code = "ok" => /\ IsFrameOf(p \o r.d.bytes, content) /\ r.c.errored = FALSE
                      /\ Heads(p \o r.d.bytes, c.pledged, c.dictionary)
                      /\ r.c.started = FALSE /\ r.c.consumed = 0 /\ r.c.pledged = Unknown
  /\ r.code # "ok" => r.c.pledged = c.pledged /\ Sound(r.c, p, r.d, content)

\* A failure on the way to the end.
LEMMA EndFailed ==
  ASSUME NEW c, NEW p, NEW content, NEW r, r.c \in Contexts, r.d \in Drains, r.taken = 0,
         r.code \in Codes, r.code # "ok",
         r.c.errored = TRUE, SameFrame(c, r.c)
  PROVE  AfterEnd(c, p, content, r)
<1>1. Sound(r.c, p, r.d, content)
  BY Zenon DEF Sound
<1> QED BY <1>1, Zenon DEF AfterEnd, SameFrame

\* The checksum is of all that was hashed.
LEMMA ChecksumFacts ==
  ASSUME NEW c \in Contexts, NEW d \in Drains
  PROVE  /\ EmitChecksum(c, d).c \in Contexts /\ EmitChecksum(c, d).d \in Drains
         /\ EmitChecksum(c, d).taken = 0 /\ EmitChecksum(c, d).code \in {"ok", "drain"}
         /\ EmitChecksum(c, d).code # "ok" => EmitChecksum(c, d).c = fail(c)
         /\ EmitChecksum(c, d).code = "ok" =>
              /\ EmitChecksum(c, d).c = c
              /\ EmitChecksum(c, d).d.bytes = IF ContentChecksum THEN Append(d.bytes, Checksum(c.hashed)) ELSE d.bytes
<1>1. Checksum(c.hashed) \in Pieces
  BY PieceFacts, Zenon DEF Contexts, Unknown
<1>2. /\ Called(d) \in Drains /\ write_all(d, Checksum(c.hashed)) \in Drains
      /\ ~Fails(d) => write_all(d, Checksum(c.hashed)).bytes = Append(d.bytes, Checksum(c.hashed))
  BY <1>1, WriteAll, Zenon
<1>3. fail(c) \in Contexts
  BY FailFacts, Zenon
<1> QED BY <1>2, <1>3, Zenon DEF EmitChecksum, Answer

\* The pieces of the end of a frame, on a drain that holds what came after p.
LEMMA ClosedAfter ==
  ASSUME NEW p \in Seq(Pieces), NEW q \in Seq(Pieces), NEW data \in Seq(Byte), NEW content \in Seq(Byte)
  PROVE  p \o Closed(q, data, content) = Closed(p \o q, data, content)
<1> DEFINE x == Block(data, TRUE)
           y == Checksum(content)
<1>1. x \in Pieces /\ y \in Pieces
  BY PieceFacts, Zenon DEF Unknown
<1> HIDE DEF x, y
<1>2. Append(q, x) \in Seq(Pieces)
  BY <1>1
<1>3. p \o Append(q, x) = Append(p \o q, x)
  BY <1>1, AppendToSecond
<1>4. p \o Append(Append(q, x), y) = Append(p \o Append(q, x), y)
  BY <1>1, <1>2, AppendToSecond
<1> QED BY <1>3, <1>4, Zenon DEF Closed, x, y

\* The end of a frame leaves its header.
LEMMA ClosedHeads ==
  ASSUME NEW all \in Seq(Pieces), all # << >>, NEW data \in Seq(Byte), NEW content \in Seq(Byte),
         NEW size, NEW dict, all[1].fcs = size, all[1].dict = dict
  PROVE  Heads(Closed(all, data, content), size, dict)
<1>1. Block(data, TRUE) \in Pieces /\ Checksum(content) \in Pieces
  BY PieceFacts, Zenon DEF Unknown
<1> DEFINE x == Block(data, TRUE)
           y == Checksum(content)
<1>a. x \in Pieces /\ y \in Pieces
  BY <1>1, Zenon
<1> HIDE DEF x, y
<1>2. Append(all, x)[1] = all[1] /\ Append(Append(all, x), y)[1] = all[1]
  BY <1>a, TwoMore
<1>3. Closed(all, data, content)[1] = all[1]
  <2>1. Closed(all, data, content) = IF ContentChecksum THEN Append(Append(all, x), y) ELSE Append(all, x)
    BY Zenon DEF Closed, x, y
  <2> QED BY <1>2, <2>1, Zenon
<1> QED BY <1>3, Zenon DEF Heads

\* Abandoning a frame leaves the context ready for the next.
LEMMA AbandonFacts ==
  ASSUME NEW c \in Contexts
  PROVE  /\ abandon_frame(c) \in Contexts /\ abandon_frame(c).errored = c.errored
         /\ abandon_frame(c).started = FALSE /\ abandon_frame(c).consumed = 0 /\ abandon_frame(c).pledged = Unknown
         /\ abandon_frame(c).dictionary = c.dictionary
BY Zenon DEF abandon_frame, Contexts

\* The last block, the checksum and the flush make the drain hold a whole frame.
LEMMA CloseFacts ==
  ASSUME NEW c \in Contexts, c.errored = FALSE, c.started = TRUE, Len(c.pending) < BlockCapacity,
         NEW d \in Drains, NEW p \in Seq(Pieces), NEW content \in Seq(Byte),
         InFrame(c, p \o d.bytes, content), c.pledged \in {Unknown, Len(content)}
  PROVE  AfterEnd(c, p, content, CloseFrame(c, d))
<1> DEFINE n == Len(c.pending)
           e == emit_pending_block(c, d, TRUE)
           s == EmitChecksum(e.c, e.d)
           f == FlushDrain(s.c, s.d)
           r == CloseFrame(c, d)
<1>1. r = IF e.code # "ok" THEN e ELSE IF s.code # "ok" THEN s ELSE IF f.code # "ok" THEN f
          ELSE [f EXCEPT !.c = abandon_frame(@)]
  BY Zenon DEF CloseFrame
<1>2. Emitted(c, d, n, TRUE, e)
  BY EmitPending, Zenon
<1> HIDE DEF r, e
<1>3. /\ e.c \in Contexts /\ e.d \in Drains /\ e.taken = 0 /\ SameFrame(c, e.c) /\ e.c.started = c.started
      /\ e.code \in {"ok", "drain"} /\ (e.code # "ok" => e.c.errored = TRUE)
  BY <1>2, Zenon DEF Emitted
<1>4. /\ s.c \in Contexts /\ s.d \in Drains /\ s.taken = 0 /\ s.code \in {"ok", "drain"}
      /\ s.code # "ok" => s.c = fail(e.c)
      /\ s.code = "ok" => /\ s.c = e.c
                          /\ s.d.bytes = IF ContentChecksum THEN Append(e.d.bytes, Checksum(e.c.hashed)) ELSE e.d.bytes
  BY <1>3, ChecksumFacts, Zenon
<1> HIDE DEF s
<1>5. /\ f.c \in Contexts /\ f.d \in Drains /\ f.taken = 0 /\ f.d.bytes = s.d.bytes /\ f.code \in {"ok", "drain"}
      /\ f.code = "ok" => f.c = s.c
      /\ f.code # "ok" => f.c = fail(s.c)
  BY <1>4, FlushDrainFacts, Zenon
<1>6. [f EXCEPT !.c = abandon_frame(@)] = Answer(abandon_frame(f.c), f.d, f.code, f.taken)
  BY DEF FlushDrain, Answer
<1> HIDE DEF f
<1>7. CASE e.code # "ok"
  <2>1. AfterEnd(c, p, content, e)
    BY <1>3, <1>7, EndFailed, Zenon DEF Codes
  <2> QED BY <1>1, <1>7, <2>1, Zenon DEF r
<1>8. CASE e.code = "ok" /\ s.code # "ok"
  <2>1. s.c.errored = TRUE /\ SameFrame(c, s.c)
    <3>1. s.c = fail(e.c)
      BY <1>4, <1>8, Zenon
    <3> QED BY <1>3, <3>1, FailFacts, Zenon DEF SameFrame
  <2>2. AfterEnd(c, p, content, s)
    BY <1>4, <1>8, <2>1, EndFailed, Zenon DEF Codes
  <2> QED BY <1>1, <1>8, <2>2, Zenon DEF r
<1>9. CASE e.code = "ok" /\ s.code = "ok" /\ f.code # "ok"
  <2>1. f.c.errored = TRUE /\ SameFrame(c, f.c)
    <3>1. f.c = fail(e.c)
      BY <1>4, <1>5, <1>9, Zenon
    <3> QED BY <1>3, <3>1, FailFacts, Zenon DEF SameFrame
  <2>2. AfterEnd(c, p, content, f)
    BY <1>5, <1>9, <2>1, EndFailed, Zenon DEF Codes
  <2> QED BY <1>1, <1>9, <2>2, Zenon DEF r
<1>10. CASE e.code = "ok" /\ s.code = "ok" /\ f.code = "ok"
  <2> DEFINE all == p \o d.bytes
             q == Closed(d.bytes, c.pending, content)
  <2>1. c.pending \in Seq(Byte) /\ c.hashed \in Seq(Byte) /\ d.bytes \in Seq(Pieces) /\ n \in Nat /\ BlockCapacity \in Nat
    BY CapacityAssumption DEF Contexts, Drains
  <2>2. SubSeq(c.pending, 1, n) = c.pending
    BY <2>1
  <2>3. e.c.hashed = c.hashed \o c.pending /\ e.d.bytes = Append(d.bytes, Block(c.pending, TRUE)) /\ e.c.errored = FALSE
    BY <1>2, <1>10, <2>2, Zenon DEF Emitted
  <2>4. /\ IsOpenFrame(all) /\ all # << >> /\ Contents(all) = c.hashed /\ c.hashed \o c.pending = content
        /\ all[1].fcs = c.pledged /\ all[1].dict = c.dictionary
    BY Zenon DEF InFrame
  <2>5. f.d.bytes = q
    BY <1>4, <1>5, <1>10, <2>3, <2>4, Zenon DEF Closed
  <2>6. all \in Seq(Pieces)
    BY <2>1
  <2>7. p \o q = Closed(all, c.pending, content)
    BY <2>1, ClosedAfter, Zenon
  <2> HIDE DEF all, q
  <2>8. n <= BlockCapacity /\ all[1].fcs \in {Unknown, Len(content)} /\ Contents(all) \o c.pending = content
    <3>1. n <= BlockCapacity
      BY <2>1
    <3>2. all[1].fcs \in {Unknown, Len(content)} /\ Contents(all) \o c.pending = content
      BY <2>4, Zenon
    <3> QED BY <3>1, <3>2, Zenon
  <2>9. IsFrameOf(p \o f.d.bytes, content)
    <3>1. IsFrameOf(Closed(all, c.pending, content), content)
      BY <2>1, <2>4, <2>6, <2>8, FrameCloses, Zenon
    <3> QED BY <2>5, <2>7, <3>1, Zenon
  <2>a. Heads(p \o f.d.bytes, c.pledged, c.dictionary)
    <3>1. Heads(Closed(all, c.pending, content), c.pledged, c.dictionary)
      BY <2>1, <2>4, <2>6, ClosedHeads, Zenon
    <3> QED BY <2>5, <2>7, <3>1, Zenon
  <2>10. r = Answer(abandon_frame(e.c), f.d, "ok", 0)
    BY <1>1, <1>4, <1>5, <1>6, <1>10, Zenon
  <2>11. r.c = abandon_frame(e.c) /\ r.d = f.d /\ r.code = "ok" /\ r.taken = 0
    BY <2>10, Zenon DEF Answer
  <2>12. /\ r.c \in Contexts /\ r.c.errored = FALSE /\ r.c.started = FALSE /\ r.c.consumed = 0
         /\ r.c.pledged = Unknown /\ r.c.dictionary = c.dictionary
    BY <1>3, <2>3, <2>11, AbandonFacts, Zenon DEF SameFrame
  <2>13. AfterEnd(c, p, content, r)
    BY <1>5, <2>9, <2>a, <2>11, <2>12, Zenon DEF AfterEnd, Codes
  <2> QED BY <2>13, Zenon DEF r
<1> QED BY <1>7, <1>8, <1>9, <1>10, Zenon

\* The end of a frame, of a context that stands in it.
LEMMA FinishFacts ==
  ASSUME NEW c \in Contexts, NEW d \in Drains, NEW p \in Seq(Pieces), NEW content \in Seq(Byte),
         Sound(c, p, d, content)
  PROVE  AfterEnd(c, p, content, finish_frame(c, d))
<1> DEFINE r == finish_frame(c, d)
           b == ensure_frame_started(c, d)
<1>1. c.errored \in BOOLEAN
  BY Zenon DEF Contexts
<1>2. CASE c.errored = TRUE \/ (c.pledged # Unknown /\ c.consumed # c.pledged)
  <2>1. PICK code \in {"sticky", "InvalidInput"} : r = Answer(c, d, code, 0)
    BY <1>2, Zenon DEF finish_frame
  <2>2. r.c = c /\ r.d = d /\ r.taken = 0 /\ r.code # "ok" /\ r.code \in Codes
    BY <2>1 DEF Answer, Codes
  <2> HIDE DEF r
  <2>3. AfterEnd(c, p, content, r)
    BY <2>2, Zenon DEF AfterEnd
  <2> QED BY <2>3, Zenon DEF r
<1>3. CASE ~(c.errored = TRUE \/ (c.pledged # Unknown /\ c.consumed # c.pledged))
  <2>1. c.errored = FALSE /\ (c.pledged = Unknown \/ c.consumed = c.pledged)
    BY <1>1, <1>3, Zenon
  <2>2. InFrame(c, p \o d.bytes, content) /\ pending_len(c) < BlockCapacity /\ c.consumed = Len(content)
    BY <2>1, Zenon DEF Sound
  <2>3. r = IF b.code # "ok" THEN b ELSE CloseFrame(b.c, b.d)
    BY <2>1, Zenon DEF finish_frame
  <2>4. Begun(c, p, content, b)
    BY <2>1, <2>2, StartFacts, Zenon
  <2> HIDE DEF b, r
  <2>5. /\ b.c \in Contexts /\ b.d \in Drains /\ b.taken = 0 /\ SameFrame(c, b.c) /\ b.code \in Codes
        /\ b.code # "ok" => b.c.errored = TRUE
    BY <2>4, Zenon DEF Begun, Codes
  <2>6. CASE b.code # "ok"
    <3>1. AfterEnd(c, p, content, b)
      BY <2>5, <2>6, EndFailed, Zenon
    <3> QED BY <2>3, <2>6, <3>1, Zenon DEF r
  <2>7. CASE b.code = "ok"
    <3>1. /\ b.c.errored = FALSE /\ b.c.started = TRUE /\ pending_len(b.c) = pending_len(c)
          /\ InFrame(b.c, p \o b.d.bytes, content)
      BY <2>4, <2>7, Zenon DEF Begun
    <3>2. Len(b.c.pending) < BlockCapacity
      BY <2>2, <3>1, Zenon DEF pending_len
    <3>3. b.c.pledged \in {Unknown, Len(content)}
      BY <2>1, <2>2, <2>5, Zenon DEF SameFrame
    <3>4. AfterEnd(b.c, p, content, CloseFrame(b.c, b.d))
      BY <2>5, <3>1, <3>2, <3>3, CloseFacts, Zenon
    <3>5. r = CloseFrame(b.c, b.d)
      BY <2>3, <2>7, Zenon
    <3>6. AfterEnd(c, p, content, r)
      BY <2>5, <3>4, <3>5, Zenon DEF AfterEnd, SameFrame
    <3> QED BY <3>6, Zenon DEF r
  <2> QED BY <2>6, <2>7, Zenon
<1> QED BY <1>2, <1>3, Zenon

-----------------------------------------------------------------------------
(* A drain that never fails, such as a vector.                             *)

\* A call on it that did not fail, and left it so.
Steady(r) == r.d.bad = 0 /\ r.code = "ok" /\ r.c.errored = FALSE

\* One piece more on such a drain.
LEMMA WritesSteadily ==
  ASSUME NEW d \in Drains, d.bad = 0, NEW x
  PROVE  ~Fails(d) /\ Called(d) = d /\ write_all(d, x).bad = 0
BY DEF Fails, Called, write_all, Drains

\* The header on such a drain.
LEMMA StartsSteadily ==
  ASSUME NEW c \in Contexts, NEW d \in Drains, d.bad = 0, c.errored = FALSE
  PROVE  Steady(ensure_frame_started(c, d))
<1> DEFINE h == Header(c.pledged, c.dictionary)
           e == [[c EXCEPT !.pending = << >>, !.hashed = << >>] EXCEPT !.started = TRUE]
<1>1. ~Fails(d) /\ write_all(d, h).bad = 0
  BY WritesSteadily, Zenon
<1>2. e.errored = FALSE
  BY Zenon DEF Contexts
<1>3. ensure_frame_started(c, d) = IF c.started THEN Answer(c, d, "ok", 0) ELSE Answer(e, write_all(d, h), "ok", 0)
  BY <1>1, Zenon DEF ensure_frame_started
<1> HIDE DEF e, h
<1> QED BY <1>1, <1>2, <1>3 DEF Steady, Answer

\* A block on such a drain.
LEMMA EncodesSteadily ==
  ASSUME NEW c \in Contexts, NEW d \in Drains, d.bad = 0, c.errored = FALSE, NEW n, NEW last
  PROVE  Steady(encode_block(c, d, n, last))
<1> DEFINE x == Block(SubSeq(c.pending, 1, n), last)
           e == [[c EXCEPT !.pending = SubSeq(@, n + 1, Len(@))] EXCEPT !.hashed = @ \o SubSeq(c.pending, 1, n)]
<1>1. ~Fails(d) /\ write_all(d, x).bad = 0
  BY WritesSteadily, Zenon
<1>2. e.errored = FALSE
  BY Zenon DEF Contexts
<1>3. encode_block(c, d, n, last) = Answer(e, write_all(d, x), "ok", 0)
  BY <1>1, Zenon DEF encode_block
<1> HIDE DEF e, x
<1> QED BY <1>1, <1>2, <1>3 DEF Steady, Answer

\* A turn of write's loop on such a drain.
LEMMA TurnsSteadily ==
  ASSUME NEW w, NEW c \in Contexts, NEW p \in Seq(Pieces), NEW content \in Seq(Byte), NEW buf \in Seq(Byte),
         Underway(w, c, p, content, buf), Steady(w)
  PROVE  Steady(TakeTurn(w))
<1>1. CASE w.rest = << >> \/ w.code # "ok"
  BY <1>1, Zenon DEF TakeTurn
<1>2. CASE ~(w.rest = << >> \/ w.code # "ok")
  <2> DEFINE n == Min({Len(w.rest), BlockCapacity - pending_len(w.c)})
             s == SubSeq(w.rest, 1, n)
             more == [w.c EXCEPT !.pending = @ \o s]
             r == emit_full_pending_block(more, w.d)
  <2>1. TakeTurn(w) = Taking(r.c, r.d, SubSeq(w.rest, n + 1, Len(w.rest)), w.taken + n, r.code)
    BY <1>2, Zenon DEF TakeTurn
  <2>2. /\ w.c \in Contexts /\ w.d \in Drains /\ w.c.errored = FALSE /\ w.d.bad = 0 /\ w.c.started = TRUE
        /\ Len(w.c.pending) < BlockCapacity /\ w.taken \in 0 .. Len(buf) /\ w.rest = Left(buf, w.taken)
    BY <1>2, Zenon DEF Steady, Underway
  <2>3. w.c.pending \in Seq(Byte) /\ BlockCapacity \in Nat
    BY <2>2, CapacityAssumption, Zenon DEF Contexts
  <2>4. w.rest \in Seq(Byte) /\ Len(w.rest) \in Nat
    <3>1. 0 \in 0 .. Len(buf) - w.taken
      BY <2>2
    <3>2. Left(buf, w.taken) \in Seq(Byte)
      BY <2>2, <3>1, SliceOn, Zenon
    <3> QED BY <2>2, <3>2
  <2>5. n \in 0 .. Len(w.rest)
    <3>1. pending_len(w.c) = Len(w.c.pending) /\ BlockCapacity - Len(w.c.pending) \in Nat
      BY <2>2, <2>3, SMTT(30) DEF pending_len
    <3>2. n = IF Len(w.rest) <= BlockCapacity - Len(w.c.pending) THEN Len(w.rest) ELSE BlockCapacity - Len(w.c.pending)
      BY <2>4, <3>1, MinTwo, Zenon
    <3> HIDE DEF n
    <3> QED BY <2>4, <3>1, <3>2
  <2>6. s \in Seq(Byte)
    BY <2>4, <2>5, CutFacts, Zenon
  <2> HIDE DEF s
  <2>7. w.c.pending \o s \in Seq(Byte)
    BY <2>3, <2>6, Joined, Zenon
  <2>8. more \in Contexts /\ more.errored = FALSE
    BY <2>2, <2>7, Zenon DEF Contexts
  <2> HIDE DEF more, n
  <2>9. Steady(r)
    <3>1. CASE pending_len(more) # BlockCapacity
      BY <2>2, <2>8, <3>1, Zenon DEF emit_full_pending_block, Answer, Steady
    <3>2. CASE pending_len(more) = BlockCapacity
      <4>1. r = encode_block(more, w.d, pre_split_len(more), FALSE)
        BY <3>2, Zenon DEF emit_full_pending_block
      <4> QED BY <2>2, <2>8, <4>1, EncodesSteadily, Zenon
    <3> QED BY <3>1, <3>2, Zenon
  <2> HIDE DEF r
  <2> QED BY <2>1, <2>9 DEF Taking, Steady
<1> QED BY <1>1, <1>2, Zenon

\* All the turns.
LEMMA TakesSteadily ==
  ASSUME NEW c \in Contexts, NEW p \in Seq(Pieces), NEW content \in Seq(Byte), NEW buf \in Seq(Byte),
         NEW w0, Underway(w0, c, p, content, buf), Steady(w0), NEW g, Turns(w0, Len(buf), g)
  PROVE  Steady(g[Len(buf)])
<1> DEFINE Good(w) == Underway(w, c, p, content, buf) /\ Steady(w)
           S == {i \in Nat : i \in 0 .. Len(buf) => Good(g[i])}
<1>1. Len(buf) \in Nat
  OBVIOUS
<1>2. 0 \in S
  <2>1. g[0] = w0 /\ 0 \in Nat
    BY <1>1 DEF Turns
  <2> QED BY <2>1, Zenon
<1>3. ASSUME NEW i \in Nat, i \in S PROVE i + 1 \in S
  <2>1. i + 1 \in Nat
    OBVIOUS
  <2>2. ASSUME i + 1 \in 0 .. Len(buf) PROVE Good(g[i + 1])
    <3>1. i \in 0 .. Len(buf) /\ i + 1 # 0 /\ (i + 1) - 1 = i
      BY <1>1, <2>2
    <3>2. g[i + 1] = TakeTurn(g[i])
      <4>1. g[i + 1] = IF i + 1 = 0 THEN w0 ELSE TakeTurn(g[(i + 1) - 1])
        BY <2>2, Zenon DEF Turns
      <4> QED BY <3>1, <4>1, Zenon
    <3>3. Good(g[i])
      BY <1>3, <3>1, Zenon
    <3>4. Underway(TakeTurn(g[i]), c, p, content, buf)
      BY <3>3, TurnKeeps, Zenon
    <3>5. Steady(TakeTurn(g[i]))
      BY <3>3, TurnsSteadily, Zenon
    <3> QED BY <3>2, <3>4, <3>5, Zenon
  <2> HIDE DEF Good
  <2> QED BY <2>1, <2>2, Zenon
<1> HIDE DEF S
<1>4. \A i \in Nat : i \in S
  BY <1>2, <1>3, SetInduction, Zenon
<1> QED BY <1>1, <1>4 DEF S

\* write's loop.
LEMMA TakeSteadily ==
  ASSUME NEW c \in Contexts, c.errored = FALSE, c.started = TRUE, Len(c.pending) < BlockCapacity,
         NEW d \in Drains, d.bad = 0, NEW p \in Seq(Pieces), NEW content \in Seq(Byte), NEW buf \in Seq(Byte),
         InFrame(c, p \o d.bytes, content)
  PROVE  Steady(TakeInput(c, d, buf))
<1> DEFINE w0 == Taking(c, d, buf, 0, "ok")
<1>1. Underway(w0, c, p, content, buf)
  BY TakesFrom, Zenon
<1>2. Steady(w0)
  BY Zenon DEF Steady, Taking
<1>3. Len(buf) \in Nat
  OBVIOUS
<1>4. PICK g : Turns(w0, Len(buf), g) /\ TakeInput(c, d, buf) = Told(g[Len(buf)])
  BY <1>3, TakeIs, Zenon
<1> HIDE DEF w0
<1> DEFINE w == g[Len(buf)]
<1>5. Underway(w, c, p, content, buf)
  BY <1>1, <1>4, TurnsGoOn, Zenon
<1>6. Steady(w)
  BY <1>1, <1>2, <1>4, TakesSteadily, Zenon
<1> HIDE DEF w
<1>7. w.c \in Contexts
  BY <1>5, Zenon DEF Underway
<1>8. Steady(Told(w))
  <2>1. [w.c EXCEPT !.consumed = @ + w.taken].errored = w.c.errored
    BY <1>7, Zenon DEF Contexts
  <2> QED BY <1>6, <2>1, Zenon DEF Steady, Told, Answer
<1> QED BY <1>4, <1>8, Zenon DEF w

\* A write that is not refused.
LEMMA WriteSteadily ==
  ASSUME NEW c \in Contexts, c.errored = FALSE, NEW d \in Drains, d.bad = 0, NEW p \in Seq(Pieces),
         NEW content \in Seq(Byte), NEW buf \in Seq(Byte), Sound(c, p, d, content),
         write(c, d, buf).code = "ok"
  PROVE  Steady(write(c, d, buf))
<1> DEFINE b == ensure_frame_started(c, d)
           t == TakeInput(b.c, b.d, Accepted(c, buf))
           refused == c.pledged # Unknown /\ c.consumed >= c.pledged
<1>1. InFrame(c, p \o d.bytes, content) /\ pending_len(c) < BlockCapacity
  BY Zenon DEF Sound
<1>2. write(c, d, buf) = IF buf = << >> THEN Answer(c, d, "ok", 0)
                         ELSE IF refused THEN Answer(c, d, "InvalidInput", 0)
                         ELSE IF b.code # "ok" THEN b ELSE t
  BY Zenon DEF write
<1>3. Steady(b)
  BY StartsSteadily, Zenon
<1>4. Begun(c, p, content, b)
  BY <1>1, StartFacts, Zenon
<1> HIDE DEF b
<1>5. /\ b.c \in Contexts /\ b.d \in Drains /\ b.code = "ok" /\ b.c.errored = FALSE /\ b.c.started = TRUE
      /\ b.d.bad = 0 /\ pending_len(b.c) = pending_len(c) /\ InFrame(b.c, p \o b.d.bytes, content)
  BY <1>3, <1>4, Zenon DEF Begun, Steady
<1>6. CASE buf = << >>
  <2>1. Steady(Answer(c, d, "ok", 0))
    BY Zenon DEF Steady, Answer
  <2> QED BY <1>2, <1>6, <2>1, Zenon
<1>7. CASE buf # << >> /\ refused
  <2>1. Answer(c, d, "InvalidInput", 0).code # "ok"
    BY Zenon DEF Answer
  <2> QED BY <1>2, <1>7, <2>1, Zenon
<1>8. CASE buf # << >> /\ ~refused
  <2>1. c.pledged # Unknown => c.consumed < c.pledged
    BY <1>8 DEF Contexts
  <2>2. PICK n \in 0 .. Len(buf) : Accepted(c, buf) = SubSeq(buf, 1, n)
    BY <2>1, AcceptedFacts, Zenon
  <2>3. Accepted(c, buf) \in Seq(Byte)
    BY <2>2, CutFacts
  <2>4. Len(b.c.pending) < BlockCapacity
    BY <1>1, <1>5, Zenon DEF pending_len
  <2>5. Steady(t)
    BY <1>5, <2>3, <2>4, TakeSteadily, Zenon
  <2> HIDE DEF t, refused
  <2> QED BY <1>2, <1>5, <1>8, <2>5, Zenon
<1> QED BY <1>6, <1>7, <1>8, Zenon

\* The drain's own flush.
LEMMA FlushesSteadily ==
  ASSUME NEW c \in Contexts, c.errored = FALSE, NEW d \in Drains, d.bad = 0
  PROVE  Steady(FlushDrain(c, d)) /\ FlushDrain(c, d).c = c
<1>1. ~Fails(d) /\ Called(d) = d
  BY WritesSteadily, Zenon
<1>2. FlushDrain(c, d) = Answer(c, d, "ok", 0)
  BY <1>1, Zenon DEF FlushDrain
<1> QED BY <1>2 DEF Steady, Answer

\* A flush, after which nothing is pending.
LEMMA FlushSteadily ==
  ASSUME NEW c \in Contexts, c.errored = FALSE, NEW d \in Drains, d.bad = 0
  PROVE  Steady(flush(c, d)) /\ pending_len(flush(c, d).c) = 0
<1>2. CASE pending_len(c) = 0
  <2>1. flush(c, d) = FlushDrain(c, d)
    BY <1>2, Zenon DEF flush
  <2>2. Steady(FlushDrain(c, d)) /\ FlushDrain(c, d).c = c
    BY FlushesSteadily, Zenon
  <2> QED BY <1>2, <2>1, <2>2, Zenon
<1>3. CASE pending_len(c) # 0
  <2> DEFINE e == emit_pending_block(c, d, FALSE)
  <2>1. c.started = TRUE
    BY <1>3, Zenon DEF pending_len, Contexts
  <2>2. Steady(e)
    BY EncodesSteadily, Zenon DEF emit_pending_block
  <2>3. Emitted(c, d, Len(c.pending), FALSE, e)
    BY <2>1, EmitPending, Zenon
  <2>4. flush(c, d) = IF e.code # "ok" THEN e ELSE FlushDrain(e.c, e.d)
    BY <1>3, Zenon DEF flush
  <2> HIDE DEF e
  <2>5. /\ e.c \in Contexts /\ e.d \in Drains /\ e.d.bad = 0 /\ e.code = "ok" /\ e.c.errored = FALSE
        /\ e.c.pending = SubSeq(c.pending, Len(c.pending) + 1, Len(c.pending))
    BY <2>2, <2>3, Zenon DEF Emitted, Steady
  <2>6. pending_len(e.c) = 0
    <3>1. c.pending \in Seq(Byte)
      BY Zenon DEF Contexts
    <3>2. Len(SubSeq(c.pending, Len(c.pending) + 1, Len(c.pending))) = 0
      BY <3>1
    <3> QED BY <2>5, <3>2, Zenon DEF pending_len
  <2>7. Steady(FlushDrain(e.c, e.d)) /\ FlushDrain(e.c, e.d).c = e.c
    BY <2>5, FlushesSteadily, Zenon
  <2> QED BY <2>4, <2>5, <2>6, <2>7, Zenon
<1> QED BY <1>2, <1>3, Zenon

-----------------------------------------------------------------------------
(* What two sequences of pieces stand for.                                 *)

\* Adding an element at the end of the second of two sequences.
LEMMA Lengthen ==
  ASSUME NEW A, NEW q \in Seq(A), NEW n \in Nat, n + 1 <= Len(q)
  PROVE  /\ SubSeq(q, 1, n) \in Seq(A) /\ q[n + 1] \in A
         /\ SubSeq(q, 1, n + 1) = Append(SubSeq(q, 1, n), q[n + 1])
<1>1. q[n + 1] \in A
  OBVIOUS
<1>2. n \in 0 .. Len(q) /\ n + 1 \in 0 .. Len(q)
  OBVIOUS
<1>3. SubSeq(q, 1, n) \in Seq(A) /\ Len(SubSeq(q, 1, n)) = n /\ Len(SubSeq(q, 1, n + 1)) = n + 1
      /\ SubSeq(q, 1, n + 1) \in Seq(A)
  BY <1>2, CutFacts, Zenon
<1>4. \A i \in 1 .. n + 1 : SubSeq(q, 1, n + 1)[i] = q[i]
  BY <1>2
<1>5. \A i \in 1 .. n + 1 : Append(SubSeq(q, 1, n), q[n + 1])[i] = q[i]
  BY <1>2, <1>3
<1>6. Append(SubSeq(q, 1, n), q[n + 1]) \in Seq(A) /\ Len(Append(SubSeq(q, 1, n), q[n + 1])) = n + 1
  BY <1>1, <1>3
<1> QED BY <1>3, <1>4, <1>5, <1>6, SameSequence

\* The blocks of two sequences of pieces stand for the bytes of the first and
\* then those of the second.
LEMMA ContentsJoin ==
  ASSUME NEW p \in Seq(Pieces), NEW q \in Seq(Pieces)
  PROVE  Contents(p \o q) = Contents(p) \o Contents(q)
<1> DEFINE S == {n \in Nat : n <= Len(q) => Contents(p \o SubSeq(q, 1, n)) = Contents(p) \o Contents(SubSeq(q, 1, n))}
<1>a. Len(q) \in Nat /\ Contents(p) \in Seq(Byte)
  BY ContentsFacts
<1>1. 0 \in S
  <2>1. SubSeq(q, 1, 0) = << >> /\ p \o << >> = p /\ << >> \in Seq(Pieces)
    OBVIOUS
  <2>2. Contents(<< >>) = << >>
    BY <2>1, ContentsFacts, Zenon
  <2>3. Contents(p) \o << >> = Contents(p)
    BY <1>a
  <2> QED BY <2>1, <2>2, <2>3, Zenon
<1>2. ASSUME NEW n \in Nat, n \in S PROVE n + 1 \in S
  <2>1. SUFFICES ASSUME n + 1 <= Len(q)
                 PROVE  Contents(p \o SubSeq(q, 1, n + 1)) = Contents(p) \o Contents(SubSeq(q, 1, n + 1))
    OBVIOUS
  <2> DEFINE u == SubSeq(q, 1, n)
             x == q[n + 1]
  <2>2. u \in Seq(Pieces) /\ x \in Pieces /\ SubSeq(q, 1, n + 1) = Append(u, x)
    BY <2>1, Lengthen, Zenon
  <2>3. Contents(p \o u) = Contents(p) \o Contents(u)
    BY <1>2, <2>1
  <2> HIDE DEF u, x
  <2>4. p \o Append(u, x) = Append(p \o u, x) /\ p \o u \in Seq(Pieces)
    BY <2>2, AppendToSecond
  <2>5. /\ Contents(Append(p \o u, x)) = Contents(p \o u) \o BlockData(x)
        /\ Contents(Append(u, x)) = Contents(u) \o BlockData(x)
        /\ Contents(u) \in Seq(Byte)
    BY <2>2, <2>4, ContentsFacts, Zenon
  <2>6. BlockData(x) \in Seq(Byte)
    BY <2>2 DEF BlockData, Pieces
  <2>7. (Contents(p) \o Contents(u)) \o BlockData(x) = Contents(p) \o (Contents(u) \o BlockData(x))
    BY <1>a, <2>5, <2>6, Associated, Zenon
  <2> QED BY <2>2, <2>3, <2>4, <2>5, <2>7, Zenon
<1> HIDE DEF S
<1>3. \A n \in Nat : n \in S
  BY <1>1, <1>2, SetInduction, Zenon
<1>4. Contents(p \o SubSeq(q, 1, Len(q))) = Contents(p) \o Contents(SubSeq(q, 1, Len(q)))
  BY <1>a, <1>3 DEF S
<1>5. SubSeq(q, 1, Len(q)) = q
  OBVIOUS
<1> QED BY <1>4, <1>5, Zenon
=============================================================================
