-------------------------- MODULE MCEntropyTables --------------------------
EXTENDS EntropyTables, TLC

CONSTANTS t1, t2, w1, w2

\* A dictionary with every table, and one that brings only a Huffman table.
MCDictionaries ==
    {[huff |-> w1, fse |-> [a \in Axis |-> t1]],
     [huff |-> w2, fse |-> [a \in Axis |-> None]]}

\* Allocations are interchangeable.
HandleSymmetry == Permutations(Handle)
=============================================================================
