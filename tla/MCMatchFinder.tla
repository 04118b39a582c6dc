-------------------------- MODULE MCMatchFinder ------------------------------
(* Small frames, dictionaries and blocks for MatchFinder.                  *)
EXTENDS MatchFinder

Row(finder, lazy) ==
    [finder |-> finder, lazy |-> lazy, depth |-> 4, mls |-> 4, rowLen |-> 4, chainLen |-> 8,
     cdict |-> [slots |-> 8, chainLen |-> 8, rowLen |-> 4, mls |-> 4, depth |-> 3,
                useRow |-> finder = "Rows", strategy |-> <<finder, lazy>>]]

Hc(strat) ==
    [hash |-> 8, chain |-> 16, h3 |-> IF strat = "BtOpt" THEN 0 ELSE 4, depth |-> 4,
     mls |-> IF strat = "BtOpt" THEN 4 ELSE 3, target |-> 8, strat |-> strat]

F(back, win, row, hc, size, slice, ldm) ==
    [back |-> back, win |-> win, slots |-> 8, step |-> 2, pays |-> size = "large",
     row |-> row, hc |-> hc, moved |-> FALSE, size |-> size, slice |-> slice, ldm |-> ldm]

RowFrame(finder, lazy, size, slice, ldm) ==
    F("Row", 20, Row(finder, lazy), Hc("BtOpt"), size, slice, ldm)

HcFrame(strat, size, ldm) ==
    F("HashChain", 40, Row("Rows", 0), Hc(strat), size, FALSE, ldm)

PlainFrame(back, size, slice, ldm) ==
    F(back, 18, Row("Rows", 0), Hc("BtOpt"), size, slice, ldm)

MCFrames ==
    {PlainFrame("Fast", "small", TRUE, FALSE), PlainFrame("Fast", "large", FALSE, FALSE),
     PlainFrame("Fast", "unknown", FALSE, TRUE),
     PlainFrame("Dfast", "unknown", FALSE, FALSE), PlainFrame("Dfast", "small", TRUE, FALSE),
     PlainFrame("Dfast", "large", FALSE, FALSE),
     RowFrame("Rows", 2, "small", TRUE, FALSE), RowFrame("Chain", 1, "large", FALSE, FALSE),
     RowFrame("Tree", 2, "unknown", FALSE, TRUE),
     HcFrame("BtOpt", "unknown", FALSE), HcFrame("BtUltra2", "large", TRUE)}

MCSeed == [lit |-> [b \in 0 .. MaxLit |-> 7], ll |-> [c \in 0 .. MaxLL |-> IF c < 8 THEN 3 ELSE 0],
           ml |-> [c \in 0 .. MaxML |-> IF c < 8 THEN 3 ELSE 6], of |-> <<>>]

MCDicts == {[bytes |-> <<>>, reps |-> <<1, 4, 8>>, seed |-> <<>>],
            [bytes |-> <<0, 1, 2, 3, 4, 5, 6, 0, 1, 2, 7, 7, 8, 9>>, reps |-> <<2, 3, 1>>,
             seed |-> MCSeed]}

MCBlocks == {<<4, 9, 9, 5, 2, 4, 9, 9, 5, 6, 0, 1, 3, 2, 3, 4, 9, 9>>,
             <<5, 6, 0, 1, 5, 6, 0, 8, 1, 5, 6, 0, 1, 3>>,
             <<9, 9, 9, 9, 9, 9, 9, 9>>}
=============================================================================
