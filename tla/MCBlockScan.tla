---------------------------- MODULE MCBlockScan ----------------------------
(* Instances of BlockScan for TLC: the databases one scratch serves.        *)
EXTENDS BlockScan

Db(has, min, minx, max) ==
    [has |-> has, minWidth |-> min, minWidthX |-> minx, maxBA |-> max]

\* Both Lily engines beside the main engine; one Lily engine with every
\* boundary program and a combination; and a database the compiler gave no
\* Lily engine, with bi-anchored patterns of one byte.
MixedDbs == {Db({"lily", "teddy", "rose"}, 1, 1, MaxOffset),
             Db({"lily", "rose", "zero", "zeroEod", "eod", "comb"}, 0, 1, MaxOffset),
             Db({"rose"}, 1, 1, 1)}

LilyAndPlainDbs == {Db({"lily", "rose"}, 1, 1, MaxOffset),
                    Db({"rose"}, 1, 1, MaxOffset)}

\* "teddy" and "rose" share a key, "zero" has its own.
SharedKeys == [r \in AllRules |-> CASE r \in {"teddy", "rose"} -> "k1"
                                    [] r = "zero" -> "k2"
                                    [] OTHER -> NoKey]
NoKeys == [r \in AllRules |-> NoKey]
=============================================================================
