---------------------------- MODULE MCFpCollector ----------------------------
(* Instance of FpCollector for TLC: two fragments and a key without one.    *)
EXTENDS FpCollector, TLC

Offsets    == {1, 2, 3}
Fragments  == {1, 2}
Hashes     == [f \in Fragments |-> 3 - f]
\* At least one wasted trigger; half of at least two, the worst one only;
\* parameters the call refuses.
Thresholds ==
    {[minTrig |-> 1, minFp |-> 1, rate |-> 0, share |-> 0, max |-> 0, maxGiven |-> FALSE],
     [minTrig |-> 0, minFp |-> 0, rate |-> 1, share |-> 0, max |-> 1, maxGiven |-> TRUE],
     [minTrig |-> 2, minFp |-> 1, rate |-> 1, share |-> 1, max |-> 2, maxGiven |-> TRUE],
     [minTrig |-> 1, minFp |-> 1, rate |-> 0, share |-> 0, max |-> 0, maxGiven |-> TRUE]}
Symmetric == Permutations(Scratch) \cup Permutations(Collector)
=============================================================================
