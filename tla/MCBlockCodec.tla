------------------------------ MODULE MCBlockCodec ------------------------------
(* Samples, dictionaries and set-ups for BlockCodec over BlockCoding.      *)
EXTENDS BlockCodec, BlockCoding

(***************************************************************************)
(* What the parameters stand for.                                          *)
(***************************************************************************)
PriceLiterals(c, part) ==
  LET e == EstimateLiterals(part.literals, part.huff, c.strategy, Searches(c.strategy), c.disabled, part.spare,
                            Len(part.sequences))
  IN e.bytes

LiteralsBytes(part) == LET h == ParseLiteralsHeader(part.bits) IN h.header + h.payload

(* A code's values all lead to its symbol; the two ends of the run of       *)
(* states each decoder state leads to come back to it in the encoder.       *)
SameHuffman(e, d) ==
  HasTable(e) => \A s \in 0 .. (Len(e.codes) - 1) :
    LET code == e.codes[s + 1]
        at == code.v * 2 ^ (d.max - code.n)
    IN code.n > 0 => /\ code.n <= d.max
                     /\ d.decode[at + 1] = [symbol |-> s, n |-> code.n]

SameAxis(previous, t, axis) ==
  CASE previous.kind = "none" -> TRUE
    [] previous.kind = "default" -> t.decode = Predefined[axis].decode
    [] previous.kind = "rle" -> t.log = 0 /\ t.decode[1].symbol = previous.symbol
    [] OTHER ->
         LET Back(i, b) ==
               LET e == t.decode[i + 1]
               IN NextState(previous.table, e.symbol, e.new + b) = [nb |-> e.nb, index |-> i]
         IN /\ AccLog(previous.table) = t.log
            /\ \A i \in 0 .. (2 ^ t.log - 1) : Back(i, 0) /\ Back(i, 2 ^ t.decode[i + 1].nb - 1)

Agreeing(e, d) ==
  LET a == e.axes
  IN /\ SameHuffman(e.huff, d.huff) /\ e.hist = d.hist
     /\ \A i \in 1 .. 3 : SameAxis(a[i].previous, d.tables[i], i)

(***************************************************************************)
(* Samples                                                                 *)
(***************************************************************************)
Make(n, F(_)) == SubSeq([i \in 1 .. n |-> F(i)], 1, n)
Seq3(ll, ml, of) == [ll |-> ll, ml |-> ml, of |-> of]
Sample(literals, sequences) == [literals |-> literals, sequences |-> sequences]

Few == Make(3, LAMBDA i : Seq3(2, 5, 4))
Many == Make(18, LAMBDA i : Seq3(i % 4, 3 + ((i * i) % 5), IF i % 3 = 0 THEN 4 ELSE 100 * i))

MCSamples ==
  << Sample(Make(300, LAMBDA i : IF i % 2 = 0 THEN 60 ELSE 60 + ((i * i) % 17)), Few), \* four streams
     Sample(Make(90, LAMBDA i : (i * i) % 7), Many),                             \* one stream, three tables
     Sample(Make(40, LAMBDA i : 7), Make(5, LAMBDA i : Seq3(3, 9, 1))),          \* one literal, one code
     Sample(<< 65, 66, 67 >>, << Seq3(1, 40, 12), Seq3(0, 200, 1) >>),           \* too few of either to code
     Sample(Make(70, LAMBDA i : (i * i) % 11),                                   \* dearer than the block itself
            Make(60, LAMBDA i : Seq3(i % 2, 3, 200000000 + 70000 * i))),
     Sample(Make(80, LAMBDA i : 140 + (i % 5) * ((i \div 5) % 2)), Few),         \* more than 128 weights
     Sample(Make(140, LAMBDA i : IF i <= 70 THEN i % 3 ELSE 90 + ((i * i) % 6)), \* two halves unlike each other
            Make(130, LAMBDA i : IF i <= 65 THEN Seq3(1, 4 + (i % 2), 9) ELSE Seq3(0, 30 + (i % 9), 5000 + 97 * i))),
     Sample(Make(2100, LAMBDA i : 9),                                            \* the widest fields
            << Seq3(2060, 70000, 2 ^ 30 + 5), Seq3(20, 3, 17) >>),
     Sample(Make(300, LAMBDA i : 60 + ((i * i) % 17)), Few) >>                   \* flat at both ends

MCDictionarySamples ==
  << Sample(Make(400, LAMBDA i : 60 + ((i * i) % 7)), Many), Sample(<< 5, 9, 250 >>, << >>) >>

Setup(strategy, split, samples, dictionaries) ==
  [strategy |-> strategy, split |-> split, disabled |-> FALSE, far |-> FALSE, resumes |-> FALSE,
   samples |-> samples, dictionaries |-> dictionaries]

MCConfigs ==
  << Setup("Lazy", FALSE, {1, 2}, {0, 1}),
     [Setup("Fast", FALSE, {2, 6}, {0, 1}) EXCEPT !.resumes = TRUE],
     [Setup("Lazy", FALSE, {1, 3}, {0}) EXCEPT !.disabled = TRUE],
     Setup("BtUltra2", TRUE, {5, 7}, {0}),
     Setup("Greedy", FALSE, {4, 5, 9}, {0, 2}),
     [Setup("BtOpt", TRUE, {3, 8}, {0}) EXCEPT !.far = TRUE],
     Setup("BtUltra", FALSE, {2, 5}, {0, 2}) >>
=============================================================================
