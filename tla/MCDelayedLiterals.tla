------------------------- MODULE MCDelayedLiterals -------------------------
EXTENDS DelayedLiterals
MCLit == {"far", "near"}
MCAnch == {"anch"}
MCDelay == [l \in MCLit |-> IF l = "far" THEN 3 ELSE 1]
MCLitLen == [l \in MCLit |-> IF l = "far" THEN 1 ELSE 2]
=============================================================================
