-------------------------- MODULE LiteralsSection ---------------------------
(***************************************************************************)
(* The literals section and the Huffman coding in it.                      *)
(***************************************************************************)
EXTENDS FseCoding

(***************************************************************************)
(* Huffman coding: the tables of a histogram, the encoder and the decoder. *)
(***************************************************************************)

(***************************************************************************)
(* The encoder's Huffman tables: the tree of a histogram, its depths cut   *)
(* to a limit, the weights that describe it, the codes they stand for, and *)
(* the description of the weights.  counts[s + 1] is how often the literal *)
(* s occurs.  A table whose memory is reused must forget the description   *)
(* that was kept for the codes it held before.                             *)
(***************************************************************************)

NoParent == 0
Endless == 2 ^ 30

Positive(f) == SelectSeq([i \in 1 .. Len(f) |-> i], LAMBDA i : f[i] > 0)

(* count_bytes: how often each literal occurs, up to the highest; four     *)
(* lanes counted apart and added give the same sums.                       *)
RECURSIVE HighestByte(_, _, _)
HighestByte(data, a, b) ==
  IF a = b THEN data[a]
  ELSE LET m == (a + b) \div 2 IN Max2(HighestByte(data, a, m), HighestByte(data, m + 1, b))

CountBytes(data) ==
  LET Of(s) == Len(SelectSeq(data, LAMBDA x : x = s))
  IN Computed([i \in 1 .. HighestByte(data, 1, Len(data)) + 1 |-> Of(i - 1)])

LargestCount(counts) == counts[FirstLargest(counts)]

(***************************************************************************)
(* build_huffman_leaf_depths: the leaves from the most frequent down, then *)
(* the two-queue merge; a node is taken before a leaf of the same count.   *)
(***************************************************************************)
Leaves(counts) ==
  LET used == Positive(counts)
  IN SortSeq([k \in 1 .. Len(used) |-> [count |-> counts[used[k]], symbol |-> used[k] - 1]],
             LAMBDA a, b : a.count > b.count \/ (a.count = b.count /\ a.symbol < b.symbol))

CountAt(nodes, i) == IF i \in 1 .. Len(nodes) THEN nodes[i] ELSE Endless

(* nodes: the counts, leaves first; leaf and node: the next of either queue. *)
Lowest(nodes, leaf, node) ==
  IF CountAt(nodes, leaf) < CountAt(nodes, node)
  THEN [pick |-> leaf, leaf |-> leaf - 1, node |-> node]
  ELSE [pick |-> node, leaf |-> leaf, node |-> node + 1]

(* One merge of q = [nodes, parent, leaf, node], and n of them by halves. *)
Merge(q) ==
  LET a == Lowest(q.nodes, q.leaf, q.node)
      b == Lowest(q.nodes, a.leaf, a.node)
      new == Len(q.nodes) + 1
  IN [nodes |-> Append(q.nodes, q.nodes[a.pick] + q.nodes[b.pick]),
      parent |-> [q.parent EXCEPT ![a.pick] = new, ![b.pick] = new], leaf |-> b.leaf, node |-> b.node]

RECURSIVE Merged(_, _)
Merged(q, n) ==
  CASE n = 0 \/ q.nodes = << >> -> q
    [] n = 1 /\ q.nodes # << >> -> Merge(q)
    [] OTHER -> Merged(Merged(q, n \div 2), n - n \div 2)

RECURSIVE DepthOf(_, _)
DepthOf(parent, i) == IF parent[i] = NoParent THEN 0 ELSE 1 + DepthOf(parent, parent[i])

(* The first merge takes the two rarest leaves. *)
LeafDepths(leaves) ==
  LET n == Len(leaves)
      counts == Computed([i \in 1 .. n |-> leaves[i].count])
      first == [i \in 1 .. (2 * n - 1) |-> IF i \in {n - 1, n} THEN n + 1 ELSE NoParent]
      parent == Merged([nodes |-> Append(counts, counts[n] + counts[n - 1]), parent |-> first,
                        leaf |-> n - 2, node |-> n + 1], n - 2).parent
  IN IF n <= 1 THEN [i \in 1 .. n |-> 0] ELSE Computed([i \in 1 .. n |-> DepthOf(parent, i)])

(***************************************************************************)
(* enforce_max_height.  The depths over the target are cut to it; what     *)
(* that owes is paid by the cheapest deepening of shorter codes, and what  *)
(* is overpaid comes back to codes of the target depth.                    *)
(* rank[k]: the last leaf k above the target (0: none).                    *)
(***************************************************************************)
Ranks == 0 .. 13

RankLast(nb, n, target) ==
  [k \in Ranks |->
     LET at == {p \in 1 .. n : k > 0 /\ nb[p] = target - k /\ \A q \in p + 1 .. n : nb[q] > nb[p]}
     IN IF at = {} THEN 0 ELSE CHOOSE p \in at : TRUE]

(* Which rank pays: the highest that a lower pair does not beat. *)
RECURSIVE Cheapest(_, _, _)
Cheapest(rank, counts, b) ==
  IF b <= 1 THEN b
  ELSE CASE rank[b] = 0 -> Cheapest(rank, counts, b - 1)
         [] rank[b] # 0 /\ (rank[b - 1] = 0 \/ counts[rank[b]] <= 2 * counts[rank[b - 1]]) -> b
         [] OTHER -> Cheapest(rank, counts, b - 1)

RECURSIVE NextRank(_, _, _)
NextRank(rank, b, target) == IF b <= target /\ rank[b] = 0 THEN NextRank(rank, b + 1, target) ELSE b

RECURSIVE PayCost(_, _, _, _, _)
PayCost(nb, counts, rank, cost, target) ==
  IF cost <= 0 THEN [nb |-> nb, rank |-> rank, cost |-> cost]
  ELSE LET b == NextRank(rank, Cheapest(rank, counts, Log2(cost) + 1), target)
           pos == rank[b]
           deeper == [nb EXCEPT ![pos] = @ + 1]
           below == IF rank[b - 1] = 0 THEN pos ELSE rank[b - 1]
           before == IF pos > 1 /\ nb[pos - 1] = target - b THEN pos - 1 ELSE 0
       IN IF b > target THEN [nb |-> nb, rank |-> rank, cost |-> cost]
          ELSE PayCost(deeper, counts, [rank EXCEPT ![b - 1] = below, ![b] = before],
                       cost - 2 ^ (b - 1), target)

RECURSIVE LastAbove(_, _, _)
LastAbove(nb, n, target) == IF n > 1 /\ nb[n] = target THEN LastAbove(nb, n - 1, target) ELSE n

RECURSIVE GiveBack(_, _, _, _, _)
GiveBack(nb, one, n, cost, target) ==
  LET m == IF one = 0 THEN LastAbove(nb, n, target) ELSE n
      next == IF one = 0 THEN m + 1 ELSE one + 1
  IN IF cost >= 0 \/ (one = 0 /\ nb[m] = target) \/ next > Len(nb) THEN nb
     ELSE GiveBack([nb EXCEPT ![next] = @ - 1], next, m, cost + 1, target)

EnforceMaxHeight(nb, counts, target) ==
  LET largest == nb[FirstLargest(nb)]
      deep == {i \in 1 .. Len(nb) : nb[i] > target /\ \A j \in i .. Len(nb) : nb[j] > target}
      cut == [i \in 1 .. Len(nb) |-> IF i \in deep THEN target ELSE nb[i]]
      owed == SumOver([i \in 1 .. Len(nb) |->
                 IF i \in deep THEN 2 ^ (largest - target) - 2 ^ (largest - nb[i]) ELSE 0], 1, Len(nb))
      n == LastAbove(cut, Len(nb), target)
      paid == PayCost(cut, counts, RankLast(cut, n, target), owed \div 2 ^ (largest - target), target)
  IN IF largest <= target THEN nb ELSE GiveBack(paid.nb, paid.rank[1], n, paid.cost, target)

(* limited_weights_into: << >> when the limit cannot be met exactly. *)
LimitedWeights(counts, max_bits) ==
  LET leaves == Leaves(counts)
      nb == EnforceMaxHeight(LeafDepths(leaves), [i \in 1 .. Len(leaves) |-> leaves[i].count], max_bits)
      kraft == SumOver([i \in 1 .. Len(nb) |-> 2 ^ Max2(max_bits - nb[i], 0)], 1, Len(nb))
      OfSymbol(s) == CHOOSE i \in 1 .. Len(leaves) : leaves[i].symbol = s
  IN CASE Len(leaves) <= 1 -> [s \in 1 .. Len(counts) |-> IF counts[s] > 0 THEN 1 ELSE 0]
       [] Len(leaves) > 1 /\ (kraft # 2 ^ max_bits \/ \E i \in 1 .. Len(nb) : nb[i] > max_bits) -> << >>
       [] OTHER -> Computed([s \in 1 .. Len(counts) |->
                      IF counts[s] = 0 THEN 0 ELSE max_bits - nb[OfSymbol(s - 1)] + 1])

(***************************************************************************)
(* legacy_distributed_weights: weights by number of symbols alone, handed  *)
(* to the symbols by how often they occur.                                 *)
(***************************************************************************)
RECURSIVE DistributeWeights(_, _, _, _)
DistributeWeights(weights, amount, target, counter) ==
  LET wanted == 2 ^ (counter - target)
      fits == wanted <= amount - Len(weights)
      weight == IF fits THEN target ELSE counter
  IN IF Len(weights) >= amount THEN weights
     ELSE DistributeWeights(weights \o [i \in 1 .. (IF fits THEN wanted ELSE 1) |-> weight],
                            amount, weight, counter + 1)

(* The heaviest weight that what was added still covers, of the first ones. *)
Payer(weights, added) ==
  LET Covered(i) == \A j \in 1 .. i : 2 ^ (weights[j] - 1) <= added
  IN CHOOSE i \in 1 .. Len(weights) :
       /\ Covered(i)
       /\ \A j \in 1 .. Len(weights) : Covered(j) => weights[j] < weights[i] \/ (weights[j] = weights[i] /\ i <= j)

RECURSIVE RepayWeights(_, _)
RepayWeights(weights, added) ==
  IF added <= 0 THEN weights
  ELSE LET i == Payer(weights, added)
       IN RepayWeights([weights EXCEPT ![i] = @ - 1], added - 2 ^ (weights[i] - 1))

RedistributeWeights(weights, max_bits) ==
  LET log == Log2(SumOver([i \in 1 .. Len(weights) |-> 2 ^ weights[i]], 1, Len(weights)))
      floor == log - max_bits + 1
      raised == [i \in 1 .. Len(weights) |-> Max2(weights[i], floor)]
      added == SumOver([i \in 1 .. Len(weights) |-> 2 ^ raised[i] - 2 ^ weights[i]], 1, Len(weights))
      repaid == RepayWeights(raised, added)
  IN IF log < max_bits THEN weights
     ELSE [i \in 1 .. Len(weights) |-> repaid[i] - (repaid[1] - 1)]

LegacyWeights(counts) ==
  LET leaves == Leaves(counts)
      n == Len(leaves)
      weights == RedistributeWeights(DistributeWeights(<<1, 1>>, n, 1, 2), Log2(n) + 2)
      ascending == SortSeq(leaves, LAMBDA a, b : a.count < b.count \/ (a.count = b.count /\ a.symbol < b.symbol))
      Turn(s) == CHOOSE k \in 1 .. n : ascending[k].symbol = s
  IN [s \in 1 .. Len(counts) |-> IF counts[s] = 0 THEN 0 ELSE weights[Turn(s - 1)]]

BuildLimitedWeights(counts, max_bits) ==
  LET limited == LimitedWeights(counts, max_bits)
  IN IF limited = << >> THEN LegacyWeights(counts) ELSE limited

(***************************************************************************)
(* From weights to a table (build_from_weights_reusing)                    *)
(***************************************************************************)
NotComputed == [state |-> "not_computed", bits |-> << >>]
NoTable == [codes |-> << >>, log |-> 0, desc |-> NotComputed, ok |-> TRUE]

WeightSum(weights) ==
  SumOver([i \in 1 .. Len(weights) |-> IF weights[i] = 0 THEN 0 ELSE 2 ^ (weights[i] - 1)], 1, Len(weights))
IsPowerOfTwo(n) == n > 0 /\ 2 ^ Log2(n) = n

(* The first code of each length: longer codes come first. *)
RECURSIVE FirstCode(_, _, _)
FirstCode(per_weight, log, nb) ==
  IF nb >= log THEN 0
  ELSE (FirstCode(per_weight, log, nb + 1) + per_weight[log - nb]) \div 2


DescriptionForgotten(spare) == [spare.desc EXCEPT !.state = "not_computed"]

BuildFromWeights(weights, spare) ==
  LET used == Positive(weights)
      log == Log2(WeightSum(weights))
      per_weight == [w \in 0 .. 13 |-> Len(SelectSeq(weights, LAMBDA x : x = w))]
      first == [nb \in 0 .. log |-> FirstCode(per_weight, log, nb)]
      Rank(i) == Len(SelectSeq(used, LAMBDA j : j < i /\ weights[j] = weights[i]))
      Code(i) == LET nb == log + 1 - weights[i] IN [v |-> first[nb] + Rank(i), n |-> nb]
  IN [codes |-> Computed([i \in 1 .. Len(weights) |-> IF weights[i] = 0 THEN [v |-> 0, n |-> 0] ELSE Code(i)]),
      log |-> log, desc |-> DescriptionForgotten(spare),
      ok |-> IsPowerOfTwo(WeightSum(weights))]

(***************************************************************************)
(* What the encoder does with Huffman tables: the description of the       *)
(* weights (coded, or four bits each), the search for the best depth       *)
(* limit, the sizes it estimates from a histogram, and the streams.        *)
(***************************************************************************)

MaxHuffmanLog == 11
NoSize == -1

(***************************************************************************)
(* The description.  The last weight is left out: it completes the sum.    *)
(***************************************************************************)
LongestCode(t) ==
  LET n == [i \in 1 .. Len(t.codes) |-> t.codes[i].n] IN n[FirstLargest(n)]
TableWeights(t) ==
  LET max == LongestCode(t)
  IN Computed([i \in 1 .. Len(t.codes) |-> IF t.codes[i].n = 0 THEN 0 ELSE max - t.codes[i].n + 1])
Described(t) == LET w == TableWeights(t) IN SubSeq(w, 1, Len(w) - 1)

WeightCounts(weights) == [w \in 1 .. 13 |-> Len(SelectSeq(weights, LAMBDA x : x = w - 1))]

(* encode_weight_description_into *)
EncodeWeightDescription(weights) ==
  LET counts == WeightCounts(weights)
      table == CountsTable(counts, 6, FALSE, BlankTable)
      coded == Flush(EncodeInterleaved(NewWriter, table, weights)).output
      bytes == Len(coded) \div 8
      smaller == bytes < Len(weights) \div 2 \/ Len(weights) > 128
      not == [NotComputed EXCEPT !.state = "not_encodable"]
  IN IF Len(weights) <= 2 \/ LargestCount(counts) \in {1, Len(weights)} THEN not
     ELSE IF bytes > 1 /\ smaller /\ bytes < 128 THEN [state |-> "encoded", bits |-> coded] ELSE not

WriteRawWeights(w, weights) ==
  LET n == Len(weights)
      Pair(i) == << [v |-> weights[2 * i], n |-> 4], [v |-> weights[2 * i - 1], n |-> 4] >>
      pairs == [k \in 1 .. 2 * (n \div 2) |-> Pair(((k - 1) \div 2) + 1)[((k - 1) % 2) + 1]]
      rest == IF n % 2 = 1 THEN << [v |-> weights[n] * 16, n |-> 8] >> ELSE << >>
  IN WriteFields([w EXCEPT !.ok = @ /\ n <= 128], << [v |-> n + 127, n |-> 8] >> \o pairs \o rest)

(* fill_weight_description: once for a table, kept until its codes change. *)
FillDescription(t) ==
  IF t.desc.state # "not_computed" THEN t ELSE [t EXCEPT !.desc = EncodeWeightDescription(Described(t))]

(* try_table_description_size, of a table whose description is filled. *)
DescriptionSize(t) ==
  CASE t.desc.state = "encoded" -> Len(t.desc.bits) \div 8 + 1
    [] t.desc.state # "encoded" /\ Len(t.codes) - 1 <= 128 -> DivCeil(Len(t.codes) - 1, 2) + 1
    [] OTHER -> NoSize

(* write_table: the kept description, or one computed now. *)
WriteHuffmanTable(w, table) ==
  LET t == FillDescription(table)
  IN IF t.desc.state = "encoded"
     THEN AppendBits(WriteBits(w, Len(t.desc.bits) \div 8, 8), t.desc.bits)
     ELSE WriteRawWeights(w, Described(t))

(***************************************************************************)
(* Sizes                                                                   *)
(***************************************************************************)
(* The bytes of a stream: its bits and the mark above them. *)
StreamBytes(bits) == DivCeil(bits, 8) + (IF bits % 8 = 0 THEN 1 ELSE 0)

CodeBits(t, s) == IF s + 1 <= Len(t.codes) THEN t.codes[s + 1].n ELSE 0

EstimateFromCounts(t, counts) ==
  StreamBytes(SumOver([i \in 1 .. Min2(Len(t.codes), Len(counts)) |-> t.codes[i].n * counts[i]],
                      1, Min2(Len(t.codes), Len(counts))))

(* NoSize when the table has no code for a literal that occurs. *)
EstimateFromCountsChecked(t, counts) ==
  IF \E i \in 1 .. Len(counts) : counts[i] > 0 /\ CodeBits(t, i - 1) = 0 THEN NoSize
  ELSE EstimateFromCounts(t, counts)

EstimateCompressedSize(t, data) ==
  IF \E i \in 1 .. Len(data) : CodeBits(t, data[i]) = 0 THEN NoSize
  ELSE StreamBytes(SumOver([i \in 1 .. Len(data) |-> CodeBits(t, data[i])], 1, Len(data)))

(* cheap_desc_size_proxy: a guess at the description's size. *)
DescSizeProxy(weights) ==
  LET n == Len(weights)
      counts == WeightCounts(weights)
      Each(c) == Max2(Log2(2 * DivCeil(n, c) - 1), 1)
      fse == 8 + DivCeil(SumOver([i \in 1 .. 13 |-> IF counts[i] = 0 THEN 0 ELSE counts[i] * Each(counts[i])], 1, 13), 8)
      raw == DivCeil(n, 2) + 1
  IN CASE n = 0 \/ (fse > 128 /\ n > 128) -> NoSize
       [] n > 0 /\ fse <= 128 /\ n <= 128 -> Min2(fse, raw)
       [] n > 0 /\ fse <= 128 /\ n > 128 -> fse
       [] OTHER -> raw

(***************************************************************************)
(* build_from_counts: each limit from the smallest that can code the       *)
(* alphabet, until the tree no longer reaches it or the size grows.        *)
(***************************************************************************)
RECURSIVE SearchLimit(_, _, _, _, _)
SearchLimit(counts, limit, least, best, best_size) ==
  LET weights == BuildLimitedWeights(counts, limit)
      log == Log2(WeightSum(weights))
      used == Positive(weights)
      shallowest == LET v == [k \in 1 .. Len(used) |-> 13 - weights[used[k]]] IN 13 - v[FirstLargest(v)]
      proxy == DescSizeProxy(SubSeq(weights, 1, Len(weights) - 1))
      bits == SumOver([k \in 1 .. Len(used) |-> (log + 1 - weights[used[k]]) * counts[used[k]]], 1, Len(used))
      size == StreamBytes(bits) + proxy
      legal == IsPowerOfTwo(WeightSum(weights))
  IN IF limit > MaxHuffmanLog THEN best
     ELSE CASE ~legal -> SearchLimit(counts, limit + 1, least, best, best_size)
            [] legal /\ log + 1 - shallowest < limit /\ limit > least -> best
            [] legal /\ ~(log + 1 - shallowest < limit /\ limit > least) /\ proxy = NoSize ->
                 SearchLimit(counts, limit + 1, least, best, best_size)
            [] OTHER -> IF best # << >> /\ size > best_size + 1 THEN best
                        ELSE IF best = << >> \/ size < best_size
                             THEN SearchLimit(counts, limit + 1, least, weights, size)
                             ELSE SearchLimit(counts, limit + 1, least, best, best_size)

BuildFromCounts(counts) ==
  LET symbols == Len(Positive(counts))
      best == SearchLimit(counts, Log2(symbols) + 1, Log2(symbols) + 1, << >>, 0)
  IN IF symbols <= 1 \/ best = << >> THEN BuildFromWeights(BuildLimitedWeights(counts, MaxHuffmanLog), NoTable)
     ELSE BuildFromWeights(best, NoTable)

CheapTableLog(counts) ==
  IF Sum(counts) <= 1 THEN MaxHuffmanLog
  ELSE OptimalTableLog(MaxHuffmanLog, Sum(counts), LastUsed(counts, Len(counts)) - 1, 1)

(* build_from_counts_gated_with: the cheap limit takes the spare table's memory. *)
BuildGated(counts, use_search, spare) ==
  IF use_search THEN BuildFromCounts(counts)
  ELSE BuildFromWeights(BuildLimitedWeights(counts, CheapTableLog(counts)), spare)

(***************************************************************************)
(* The streams.  A single one goes through the block's writer; each of the *)
(* four has a container of its own, filled from the top and emptied a few  *)
(* symbols at a time: K symbols of the table's longest code fit beside the *)
(* seven bits a flush leaves.                                              *)
(***************************************************************************)
Fields(t, data) == Computed([i \in 1 .. Len(data) |-> t.codes[data[Len(data) + 1 - i] + 1]])

EncodeStream(w, t, data) == EndMark(WriteFields(w, Fields(t, data)))

Unroll(log) == CASE log \in {10, 11} -> 5 [] log = 9 -> 6 [] log = 8 -> 7 [] log = 7 -> 8 [] OTHER -> 4

LastFast(log) == log = 10

(* huf_add! for each field.  A fast add leaves the code's length, four bits *)
(* of it, at the bottom of the container, which must be free.               *)
RECURSIVE HufAdd(_, _, _)
HufAdd(s, fields, fast) ==
  IF fields = << >> THEN s
  ELSE LET f == Head(fields)
           held == Len(s.container) + f.n
       IN HufAdd([s EXCEPT !.container = @ \o Bits(f.v, f.n),
                           !.ok = @ /\ held <= (IF fast THEN WordBits - 4 ELSE WordBits)],
                 Tail(fields), fast)

(* huf_flush!: the whole bytes; fewer than eight bits stay. *)
HufFlush(s) ==
  LET whole == 8 * (Len(s.container) \div 8)
  IN [s EXCEPT !.output = @ \o SubSeq(s.container, 1, whole),
               !.container = SubSeq(@, whole + 1, Len(@))]

(* K symbols, the last of them fast only where there is room.  The second   *)
(* container of the unrolled loop is empty when its K start and is merged   *)
(* above the first's pending bits: the same bits in the same places.        *)
RECURSIVE EncodeGroups(_, _, _)
EncodeGroups(s, fields, log) ==
  LET k == Unroll(log)
      most == HufAdd(s, SubSeq(fields, 1, k - 1), TRUE)
      group == HufAdd(most, SubSeq(fields, k, k), LastFast(log))
  IN IF fields = << >> \/ ~s.ok THEN s ELSE EncodeGroups(HufFlush(group), SubSeq(fields, k + 1, Len(fields)), log)

(* encode_one_stream and close: the mark, then the bytes, within the bound. *)
EncodeOneStream(t, data) ==
  LET fields == Fields(t, data)
      k == Unroll(t.log)
      rem == Len(data) % k
      new == [output |-> << >>, container |-> << >>, ok |-> TRUE]
      first == IF rem = 0 THEN new ELSE HufFlush(HufAdd(new, SubSeq(fields, 1, rem), FALSE))
      done == EncodeGroups(first, SubSeq(fields, rem + 1, Len(fields)), t.log)
      closed == HufFlush(HufAdd(done, << [v |-> 1, n |-> 1] >>, FALSE))
      rest == Len(closed.container)
      bound == (Len(data) * t.log) \div 8 + 8 + 16
  IN [bits |-> closed.output \o (IF rest = 0 THEN << >> ELSE closed.container \o Zeros(8 - rest)),
      ok |-> closed.ok /\ Len(closed.output) \div 8 <= bound - 8]

Segments(data) ==
  LET seg == DivCeil(Len(data), 4)
  IN << SubSeq(data, 1, seg), SubSeq(data, seg + 1, 2 * seg),
        SubSeq(data, 2 * seg + 1, 3 * seg), SubSeq(data, 3 * seg + 1, Len(data)) >>

(* encode4x: three sizes written first as zeros and filled in at the end. *)
Encode4x(w, t, data) ==
  LET segments == Segments(data)
      jump == Index(w)
      zeros == WriteFields([w EXCEPT !.ok = @ /\ Len(data) >= 12], [i \in 1 .. 3 |-> [v |-> 0, n |-> 16]])
      Stream(i) == EncodeOneStream(t, segments[i])
      streams == << Stream(1), Stream(2), Stream(3), Stream(4) >>
      all == AppendBits(zeros, streams[1].bits \o streams[2].bits \o streams[3].bits \o streams[4].bits)
      Size(i) == Len(streams[i].bits) \div 8
      sized1 == ChangeBits(all, jump, Size(1), 16)
      sized2 == ChangeBits(sized1, jump + 16, Size(2), 16)
      sized3 == ChangeBits(sized2, jump + 32, Size(3), 16)
  IN [sized3 EXCEPT !.ok = @ /\ (\A i \in 1 .. 4 : streams[i].ok) /\ (\A i \in 1 .. 3 : Size(i) < 65536)]

(***************************************************************************)
(* The decoder's Huffman table, read from the description of the weights,  *)
(* and the streams it decodes: one, or four in lockstep.                   *)
(***************************************************************************)

MaxMaxNumBits == 12

(* packed_decode: an entry per value of max bits, a symbol and its length. *)
EmptyHuffman == [decode |-> << >>, max |-> 0, bits |-> << >>]

(* reinit_from keeps what decoding reads; bits serves only the encoder. *)
ReinitHuffman(other) == [other EXCEPT !.bits = << >>]

(* The weights, as an encoder's table (NoTable: none). *)
HuffmanToEncoder(t) ==
  IF t.bits = << >> \/ t.max = 0 THEN NoTable
  ELSE BuildFromWeights([i \in 1 .. Len(t.bits) |-> IF t.bits[i] = 0 THEN 0 ELSE t.max - t.bits[i] + 1], NoTable)

(***************************************************************************)
(* read_weights                                                            *)
(***************************************************************************)
(* Two states take turns; the stream ends where it was read one bit too    *)
(* far, and then the other state holds the last weight.                    *)
TakeWeight(t, s) ==
  LET ready == IF Len(s.weights) % 2 = 0 THEN EnsureBits(s.r, 12) ELSE s.r
      up == UpdateState(t, s.mine, ready)
      more == Append(s.weights, s.mine.symbol)
  IN IF BitsRemaining(up.r) <= -1
     THEN [s EXCEPT !.weights = Append(more, s.other.symbol), !.ended = TRUE, !.r = up.r]
     ELSE [s EXCEPT !.weights = more, !.mine = s.other, !.other = up.state, !.r = up.r]

(* At most n of them; by halves. *)
RECURSIVE TakeWeights(_, _, _)
TakeWeights(t, s, n) ==
  CASE n = 0 \/ s.ended -> s
    [] n = 1 /\ ~s.ended -> TakeWeight(t, s)
    [] OTHER -> TakeWeights(t, TakeWeights(t, s, n \div 2), n - n \div 2)

CodedWeights(source, header) ==
  LET fse == SubSeq(source, 9, Len(source))
      built == BuildDecoder(EmptyDecoder(255), fse, 6, NoMeta, FALSE)
      start == SkipPadding(NewReader(SubSeq(fse, 8 * built.bytes + 1, 8 * header)), 0)
      one == InitState(built.table, start.r)
      two == InitState(built.table, one.r)
      got == TakeWeights(built.table, [mine |-> one.state, other |-> two.state, r |-> two.r,
                                       weights |-> << >>, ended |-> FALSE], 255)
      legal == /\ 8 * header <= Len(fse)
               /\ built.bytes \in 1 .. header
               /\ start.ok /\ one.ok /\ two.ok
  IN IF ~legal THEN [weights |-> << >>, ok |-> FALSE]
     ELSE [weights |-> got.weights, ok |-> got.ended /\ got.r.ok]

DirectWeights(source, count) ==
  LET High(k) == IF k % 2 = 1 THEN 4 ELSE 0
      At(k) == 8 * (1 + ((k - 1) \div 2)) + High(k)
  IN IF Len(source) < 8 * (1 + DivCeil(count, 2)) THEN [weights |-> << >>, ok |-> FALSE]
     ELSE [weights |-> [k \in 1 .. count |-> ForwardBits(source, At(k), 4)], ok |-> TRUE]

ReadWeights(source) ==
  LET header == ForwardBits(source, 0, 8)
      read == IF header < 128 THEN CodedWeights(source, header) ELSE DirectWeights(source, header - 127)
      legal == /\ header # Short /\ read.ok
               /\ Len(read.weights) <= 255 /\ \A i \in 1 .. Len(read.weights) : read.weights[i] <= MaxMaxNumBits
  IN [ok |-> legal, weights |-> read.weights,
      bytes |-> 1 + (IF header < 128 THEN header ELSE DivCeil(header - 127, 2))]

(***************************************************************************)
(* The table                                                               *)
(***************************************************************************)
(* compute_huffman_bits: the last weight completes the sum. *)
HuffmanBits(weights) ==
  LET sum == WeightSum(weights)
      max == Log2(sum) + 1
      left == 2 ^ max - sum
      last == Log2(left) + 1
      all == Append(weights, last)
  IN [ok |-> sum > 0 /\ IsPowerOfTwo(left) /\ max <= MaxMaxNumBits, max |-> max,
      bits |-> [i \in 1 .. Len(all) |-> IF all[i] = 0 THEN 0 ELSE max + 1 - all[i]]]

(* The symbols of one length in order, each on every value it begins. *)
RankFill(bits, max, len) ==
  LET mine == SelectSeq([i \in 1 .. Len(bits) |-> i - 1], LAMBDA s : bits[s + 1] = len)
      run == 2 ^ (max - len)
  IN [k \in 1 .. Len(mine) * run |-> [symbol |-> mine[((k - 1) \div run) + 1], n |-> len]]

(* The longest codes come first. *)
RECURSIVE Ranked(_, _, _)
Ranked(bits, max, len) == IF len = 0 THEN << >> ELSE RankFill(bits, max, len) \o Ranked(bits, max, len - 1)

BuildHuffmanDecoder(source) ==
  LET read == ReadWeights(source)
      h == HuffmanBits(read.weights)
  IN IF read.ok /\ h.ok
     THEN [ok |-> TRUE, bytes |-> read.bytes,
           table |-> [decode |-> Ranked(h.bits, h.max, h.max), max |-> h.max, bits |-> h.bits]]
     ELSE [ok |-> FALSE, bytes |-> 0, table |-> EmptyHuffman]

(***************************************************************************)
(* One stream: s is [ok, state, r, out].                                   *)
(***************************************************************************)
InitStream(t, source) ==
  LET skip == SkipPadding(NewReader(source), 0)
      g == GetBits(skip.r, t.max)
  IN [ok |-> skip.ok, state |-> g.v, r |-> g.r, out |-> << >>]

Advance(t, s, g) ==
  LET e == t.decode[s.state + 1]
  IN [s EXCEPT !.state = ((@ * 2 ^ e.n) % 2 ^ t.max) + g.v, !.r = g.r, !.out = Append(@, e.symbol)]

DecodeSymbol(t, s) == Advance(t, s, GetBits(s.r, t.decode[s.state + 1].n))

DecodeNoRefill(t, s) == Advance(t, s, GetBitsUnchecked(s.r, t.decode[s.state + 1].n))

(* Symbols while the stream lasts, at most n of them; by halves. *)
RECURSIVE Decoded(_, _, _)
Decoded(t, s, n) ==
  CASE n = 0 \/ ~s.ok -> s
    [] n = 1 -> IF BitsRemaining(s.r) > 0 - t.max THEN DecodeSymbol(t, s) ELSE s
    [] OTHER -> Decoded(t, Decoded(t, s, n \div 2), n - n \div 2)

(* Each symbol takes a bit of the stream at least. *)
SingleStream(t, source) ==
  LET s == Decoded(t, InitStream(t, source), Len(source))
  IN [s EXCEPT !.ok = @ /\ s.r.ok /\ BitsRemaining(s.r) = 0 - t.max]

(***************************************************************************)
(* Four streams.  The burst loop reads a window with a one below its last  *)
(* unread bit, so that the window's trailing zeros count what was used.    *)
(***************************************************************************)
RECURSIVE TrailingZeros(_, _)
TrailingZeros(window, from) ==
  IF from >= WordBits \/ window[from + 1] = 1 THEN from ELSE TrailingZeros(window, from + 1)

Marked(word, shift) == ShiftedLeft([word EXCEPT ![1] = 1], shift)

(* decode1!, n times: b is [window, ip, out]. *)
RECURSIVE Burst(_, _, _)
Burst(t, b, n) ==
  LET e == t.decode[Value(SubSeq(b.window, WordBits - t.max + 1, WordBits)) + 1]
  IN IF n = 0 THEN b
     ELSE Burst(t, [b EXCEPT !.window = ShiftedLeft(@, e.n), !.out = Append(@, e.symbol)], n - 1)

(* reload1! *)
Reload(b, source) ==
  LET used == TrailingZeros(b.window, 0)
      ip == b.ip - used \div 8
  IN [b EXCEPT !.ip = ip, !.window = Marked(LoadWord(source, ip), used % 8)]

(* run_4stream_burst_loop, on the four streams of equal progress. *)
RECURSIVE BurstRounds(_, _, _, _, _)
BurstRounds(t, bs, sources, per, ceil) ==
  LET upper == (8 + per * t.max) \div 8
  IN IF Len(bs[1].out) > ceil \/ \E i \in 1 .. 4 : bs[i].ip < upper THEN bs
     ELSE LET Round(i) == Reload(Burst(t, bs[i], per), sources[i])
          IN BurstRounds(t, << Round(1), Round(2), Round(3), Round(4) >>, sources, per, ceil)

(* A reader and a state again, from what the loop leaves. *)
Writeback(t, s, b) ==
  IF b.out = << >> THEN s
  ELSE [s EXCEPT !.state = Value(SubSeq(b.window, WordBits - t.max + 1, WordBits)), !.out = b.out,
                 !.r.index = b.ip, !.r.container = LoadWord(s.r.source, b.ip),
                 !.r.consumed = TrailingZeros(b.window, 0) + t.max]

RunBursts(t, ss, per, least) ==
  LET Window(i) == [window |-> Marked(ss[i].r.container, ss[i].r.consumed - t.max),
                    ip |-> ss[i].r.index, out |-> << >>]
      done == BurstRounds(t, << Window(1), Window(2), Window(3), Window(4) >>,
                          << ss[1].r.source, ss[2].r.source, ss[3].r.source, ss[4].r.source >>,
                          per, SatSub(least, per))
      Back(i) == Writeback(t, ss[i], done[i])
  IN IF per = 0 \/ least < per THEN ss ELSE << Back(1), Back(2), Back(3), Back(4) >>

(* The drain: four symbols to a refill, then the rest to one more. *)
RECURSIVE NoRefill(_, _, _)
NoRefill(t, s, n) == IF n = 0 THEN s ELSE NoRefill(t, DecodeNoRefill(t, s), n - 1)

RECURSIVE Drain(_, _, _)
Drain(t, s, count) ==
  LET left == count - Len(s.out)
      ready == [s EXCEPT !.r = EnsureBits(@, 4 * t.max)]
  IN IF left = 0 THEN [s EXCEPT !.ok = @ /\ s.r.ok /\ BitsRemaining(s.r) = 0 - t.max]
     ELSE Drain(t, NoRefill(t, ready, Min2(left, 4)), count)

FourStreams(t, source, regen) ==
  LET Jump(i) == ForwardBits(source, 16 * (i - 1), 16)
      jump1 == Jump(1)
      jump2 == jump1 + Jump(2)
      jump3 == jump2 + Jump(3)
      body == SubSeq(source, 49, Len(source))
      sources == << SubSeq(body, 1, 8 * jump1), SubSeq(body, 8 * jump1 + 1, 8 * jump2),
                    SubSeq(body, 8 * jump2 + 1, 8 * jump3), SubSeq(body, 8 * jump3 + 1, Len(body)) >>
      seg == DivCeil(regen, 4)
      Start(i) == Min2((i - 1) * seg, regen)
      Count(i) == (IF i = 4 THEN regen ELSE Start(i + 1)) - Start(i)
      least == Min2(Min2(Count(1), Count(2)), Min2(Count(3), Count(4)))
      Init4(i) == InitStream(t, sources[i])
      ss == << Init4(1), Init4(2), Init4(3), Init4(4) >>
      burst == RunBursts(t, ss, (WordBits - 1 - 8) \div t.max, least)
      End(i) == Drain(t, burst[i], Count(i))
      end == << End(1), End(2), End(3), End(4) >>
  IN IF Len(source) < 48 \/ Len(body) < 8 * jump3 \/ (\E i \in 1 .. 4 : ~ss[i].ok)
     THEN [ok |-> FALSE, out |-> << >>]
     ELSE [ok |-> \A i \in 1 .. 4 : end[i].ok, out |-> end[1].out \o end[2].out \o end[3].out \o end[4].out]

(***************************************************************************)
(* The literals section of a compressed block: how the encoder chooses     *)
(* among stored, repeated, coded with a new Huffman table and coded with   *)
(* the last one; what the splitter believes that choice will cost; and how *)
(* the decoder reads the section.                                          *)
(***************************************************************************)

CONSTANT SuspectSampleSize

FastBand == {"Fast", "Dfast", "Greedy"}

SuspectSampleRatio == 10
SuspectLiteralRatio == 20

HasTable(t) == t.codes # << >>

(***************************************************************************)
(* The gates                                                               *)
(***************************************************************************)
MinLiterals(strategy, has_table) ==
  CASE has_table -> 6
    [] ~has_table /\ strategy = "BtOpt" -> 32
    [] ~has_table /\ strategy = "BtUltra" -> 16
    [] ~has_table /\ strategy = "BtUltra2" -> 8
    [] OTHER -> 64

MinGain(n, strategy) ==
  2 + (n \div (CASE strategy = "BtUltra" -> 128 [] strategy = "BtUltra2" -> 256 [] OTHER -> 64))

RawFallback(section, n, strategy) == section >= SatSub(n, MinGain(n, strategy))

PreferRepeat(strategy, n) == strategy \in FastBand /\ n <= 1024

Suspected(literals, sequences) ==
  sequences = 0 \/ literals \div Max2(sequences, 1) >= SuspectLiteralRatio

AllIdentical(literals) ==
  literals # << >> /\ \A i \in 1 .. Len(literals) : literals[i] = literals[1]

(* end_samples_look_flat: the first and the last sample hold no common byte. *)
EndSamplesFlat(literals) ==
  LET n == Len(literals)
      Largest(part) == LargestCount(CountBytes(part))
  IN /\ n >= SuspectSampleSize * SuspectSampleRatio
     /\ Largest(SubSeq(literals, 1, SuspectSampleSize)) + Largest(SubSeq(literals, n - SuspectSampleSize + 1, n))
          <= ((2 * SuspectSampleSize) \div 128) + 4

FlatHistogram(counts, n) == LargestCount(counts) <= (n \div 128) + 4

(* decide_huff_reuse_like_encoder: TRUE for the new table. *)
DecideNew(new, last, new_desc, n, counts, strategy) ==
  LET old_estimate == EstimateFromCountsChecked(last, counts)
      new_checked == EstimateFromCountsChecked(new, counts)
      new_estimate == IF new_checked = NoSize THEN n ELSE new_checked
  IN CASE ~HasTable(last) -> TRUE
       [] HasTable(last) /\ old_estimate = NoSize -> TRUE
       [] HasTable(last) /\ old_estimate # NoSize /\ PreferRepeat(strategy, n) -> FALSE
       [] OTHER -> ~(old_estimate <= new_desc + new_estimate \/ new_desc + 12 >= n)

(***************************************************************************)
(* The section's bytes                                                     *)
(***************************************************************************)
UncompressedHeaderBytes(n) == CASE n <= 31 -> 1 [] n \in 32 .. 4095 -> 2 [] OTHER -> 3

CompressedHeaderBytes(n) == CASE n < 1024 -> 3 [] n \in 1024 .. 16383 -> 4 [] OTHER -> 5

WriteUncompressedHeader(w, type, n) ==
  WriteFields(w, << [v |-> type, n |-> 2] >> \o
                 CASE n <= 31 -> << [v |-> 0, n |-> 1], [v |-> n, n |-> 5] >>
                   [] n \in 32 .. 4095 -> << [v |-> 1, n |-> 2], [v |-> n, n |-> 12] >>
                   [] OTHER -> << [v |-> 3, n |-> 2], [v |-> n, n |-> 20] >>)

RawLiterals(w, literals) ==
  AppendBits(WriteUncompressedHeader(w, 0, Len(literals)), BytesToBits(literals))

RleLiterals(w, literals) ==
  AppendBits(WriteUncompressedHeader(w, 1, Len(literals)), BytesToBits(SubSeq(literals, 1, 1)))

SizeFormat(n) ==
  CASE n < 256 -> [format |-> 0, bits |-> 10]
    [] n \in 256 .. 1023 -> [format |-> 1, bits |-> 10]
    [] n \in 1024 .. 16383 -> [format |-> 2, bits |-> 14]
    [] OTHER -> [format |-> 3, bits |-> 18]

(* The coded section.  Its size is written as zero and filled in once the   *)
(* streams are there.                                                       *)
EmitCoded(w, literals, table, with_table) ==
  LET n == Len(literals)
      sf == SizeFormat(n)
      head == WriteFields([w EXCEPT !.ok = @ /\ n <= 262143],
                          << [v |-> IF with_table THEN 2 ELSE 3, n |-> 2], [v |-> sf.format, n |-> 2],
                             [v |-> n, n |-> sf.bits] >>)
      sized == WriteBits(head, 0, sf.bits)
      described == IF with_table THEN WriteHuffmanTable(sized, table) ELSE sized
      coded == IF sf.format = 0 THEN EncodeStream(described, table, literals)
               ELSE Encode4x(described, table, literals)
  IN ChangeBits(coded, Index(head), (Index(coded) - Index(sized)) \div 8, sf.bits)

(* What becomes of the encoder's table: the answer of both the encoder and  *)
(* the estimator.                                                           *)
Kept == [kind |-> "keep", table |-> NoTable]
Cleared == [kind |-> "clear", table |-> NoTable]
Replaced(t) == [kind |-> "new", table |-> t]

(* The section as emitted, or stored in its place when it gains too little; *)
(* "fresh" is the table just built (NoTable: none), parked if not used.     *)
Concluded(w, emitted, literals, strategy, fresh, use_new, spare) ==
  LET section == (Index(emitted) - Index(w)) \div 8 - CompressedHeaderBytes(Len(literals))
      parked == IF HasTable(fresh) THEN fresh ELSE spare
  IN IF RawFallback(section, Len(literals), strategy)
     THEN [w |-> RawLiterals(ResetTo(emitted, Index(w)), literals), huff |-> Cleared, spare |-> parked]
     ELSE [w |-> emitted, huff |-> IF use_new THEN Replaced(fresh) ELSE Kept,
           spare |-> IF use_new THEN spare ELSE parked]

(* compress_literals, once the histogram calls for a table. *)
CompressWithTable(w, literals, counts, last, strategy, search, spare) ==
  LET n == Len(literals)
      new == FillDescription(BuildGated(counts, search, spare))
      left == IF search THEN spare ELSE NoTable
      desc == DescriptionSize(new)
      use_new == DecideNew(new, last, desc, n, counts, strategy)
      emitted == EmitCoded(w, literals, IF use_new THEN new ELSE last, use_new)
  IN IF desc = NoSize THEN [w |-> RawLiterals(w, literals), huff |-> Cleared, spare |-> new]
     ELSE Concluded(w, emitted, literals, strategy, new, use_new, left)

CompressLiterals(w, literals, last, strategy, search, spare, suspected) ==
  LET n == Len(literals)
      counts == CountBytes(literals)
      stored == [w |-> RawLiterals(w, literals), huff |-> Cleared, spare |-> spare]
  IN IF PreferRepeat(strategy, n) /\ HasTable(last) /\ EstimateCompressedSize(last, literals) # NoSize
     THEN Concluded(w, EmitCoded(w, literals, last, FALSE), literals, strategy, NoTable, FALSE, spare)
     ELSE IF (suspected /\ EndSamplesFlat(literals)) \/ FlatHistogram(counts, n) THEN stored
     ELSE CompressWithTable(w, literals, counts, last, strategy, search, spare)

(* The literals half of encode_block_parts. *)
EncodeLiterals(w, literals, last, strategy, search, disabled, spare, sequences) ==
  CASE ~disabled /\ AllIdentical(literals) ->
         [w |-> RleLiterals(w, literals), huff |-> Cleared, spare |-> spare]
    [] ~disabled /\ ~AllIdentical(literals) /\ Len(literals) >= MinLiterals(strategy, HasTable(last)) ->
         CompressLiterals(w, literals, last, strategy, search, spare, Suspected(Len(literals), sequences))
    [] OTHER -> [w |-> RawLiterals(w, literals), huff |-> Cleared, spare |-> spare]

(***************************************************************************)
(* estimate_literals_section_bytes: the same choice, priced.               *)
(***************************************************************************)
(* Mutant: the table of sizes before four streams is forgotten. *)
PayloadOfOne(t, literals) == EstimateCompressedSize(t, literals)

PayloadChecked(t, literals) ==
  LET s == Segments(literals)
      Each(i) == EstimateCompressedSize(t, s[i])
  IN CASE Len(literals) < 256 -> EstimateCompressedSize(t, literals)
       [] Len(literals) >= 256 /\ \E i \in 1 .. 4 : Each(i) = NoSize -> NoSize
       [] OTHER -> 6 + Each(1) + Each(2) + Each(3) + Each(4)

Payload(t, literals, counts) ==
  LET s == Segments(literals)
      Each(i) == IF EstimateCompressedSize(t, s[i]) = NoSize THEN Len(s[i]) ELSE EstimateCompressedSize(t, s[i])
  IN IF Len(literals) < 256 THEN EstimateFromCounts(t, counts) ELSE 6 + Each(1) + Each(2) + Each(3) + Each(4)

EstimateRaw(literals) == UncompressedHeaderBytes(Len(literals)) + Len(literals)

EstimateWithTable(literals, counts, last, strategy, search, spare) ==
  LET n == Len(literals)
      new == FillDescription(BuildGated(counts, search, spare))
      left == IF search THEN spare ELSE NoTable
      desc == DescriptionSize(new)
      use_new == DecideNew(new, last, desc, n, counts, strategy)
      checked == PayloadChecked(last, literals)
      section == IF use_new THEN desc + Payload(new, literals, counts)
                 ELSE IF checked = NoSize THEN n ELSE checked
  IN CASE desc = NoSize \/ RawFallback(section, n, strategy) ->
            [bytes |-> EstimateRaw(literals), huff |-> Cleared, spare |-> new]
       [] desc # NoSize /\ ~RawFallback(section, n, strategy) /\ use_new ->
            [bytes |-> CompressedHeaderBytes(n) + section, huff |-> Replaced(new), spare |-> left]
       [] OTHER -> [bytes |-> CompressedHeaderBytes(n) + section, huff |-> Kept, spare |-> new]

EstimateLiterals(literals, last, strategy, search, disabled, spare, sequences) ==
  LET n == Len(literals)
      counts == CountBytes(literals)
      reuse == PayloadChecked(last, literals)
      raw == [bytes |-> EstimateRaw(literals), huff |-> Cleared, spare |-> spare]
  IN IF disabled THEN raw
     ELSE IF AllIdentical(literals) THEN [raw EXCEPT !.bytes = UncompressedHeaderBytes(n) + 1]
     ELSE IF n < MinLiterals(strategy, HasTable(last)) THEN raw
     ELSE IF PreferRepeat(strategy, n) /\ HasTable(last) /\ reuse # NoSize
     THEN IF RawFallback(reuse, n, strategy) THEN raw
          ELSE [raw EXCEPT !.bytes = CompressedHeaderBytes(n) + reuse, !.huff = Kept]
     ELSE IF (Suspected(n, sequences) /\ EndSamplesFlat(literals)) \/ FlatHistogram(counts, n) THEN raw
     ELSE EstimateWithTable(literals, counts, last, strategy, search, spare)

(***************************************************************************)
(* The decoder's side                                                      *)
(***************************************************************************)
LiteralTypes == << "raw", "rle", "compressed", "treeless" >>

(* parse_from_header; payload is what the section's content takes. *)
ParseLiteralsHeader(source) ==
  LET type == LiteralTypes[ForwardBits(source, 0, 2) + 1]
      format == ForwardBits(source, 2, 2)
      small == format \in {0, 2}
      width == CASE format <= 1 -> 10 [] format = 2 -> 14 [] OTHER -> 18
      regen == IF type \in {"raw", "rle"}
               THEN IF small THEN ForwardBits(source, 3, 5)
                    ELSE ForwardBits(source, 4, IF format = 1 THEN 12 ELSE 20)
               ELSE ForwardBits(source, 4, width)
      header == IF type \in {"raw", "rle"} THEN (CASE small -> 1 [] format = 1 -> 2 [] OTHER -> 3)
                ELSE (4 + 2 * width) \div 8
      payload == CASE type = "raw" -> regen [] type = "rle" -> 1 [] OTHER -> ForwardBits(source, 4 + width, width)
  IN IF Len(source) < 8 \/ Len(source) < 8 * header THEN [ok |-> FALSE]
     ELSE [ok |-> TRUE, type |-> type, regen |-> regen, header |-> header, payload |-> payload,
           streams |-> IF format = 0 THEN 1 ELSE 4]

(* decompress_literals_impl, on the section's payload. *)
DecompressLiterals(h, source, table) ==
  LET built == BuildHuffmanDecoder(source)
      t == IF h.type = "compressed" THEN built.table ELSE table
      rest == IF h.type = "compressed" THEN SubSeq(source, 8 * built.bytes + 1, Len(source)) ELSE source
      legal == IF h.type = "compressed" THEN built.ok ELSE table.max # 0
      got == IF h.streams = 4 THEN FourStreams(t, rest, h.regen) ELSE SingleStream(t, rest)
  IN IF legal THEN [ok |-> got.ok /\ Len(got.out) = h.regen, out |-> got.out, table |-> t]
     ELSE [ok |-> FALSE, out |-> << >>, table |-> t]

(* decode_literals_zerocopy: the literals and the table the frame has now. *)
DecodeLiterals(h, payload, table) ==
  CASE h.type = "raw" -> [ok |-> TRUE, out |-> BitsToBytes(payload), table |-> table]
    [] h.type = "rle" -> [ok |-> TRUE, out |-> [i \in 1 .. h.regen |-> Value(SubSeq(payload, 1, 8))], table |-> table]
    [] OTHER -> DecompressLiterals(h, payload, table)
=============================================================================
