--------------------------- MODULE MCStreamRuntime ---------------------------
(* Instances of StreamRuntime for TLC.                                      *)
EXTENDS StreamRuntime

\* The anchored expression ^a(b+a)* over two bytes: "aa" and a leading "b"
\* kill it.  A match of the end rule ends in "b".
MCByte == {"a", "b"}
MCNfaState == {"s0", "acc", "s1", "dead"}
MCDelta == [q \in MCNfaState |-> [x \in MCByte |->
    CASE q \in {"s0", "s1"} /\ x = "a" -> "acc"
      [] q \in {"acc", "s1"} /\ x = "b" -> "s1"
      [] OTHER -> "dead"]]

\* Every rule and no key; and one expression with HS_FLAG_SINGLEMATCH whose
\* reports share their key.
Plain  == [r \in AllRules |-> NoKey]
Single == [r \in {"fa", "eod"} |-> "k1"]
ZeroSingle == [r \in {"fa", "zero"} |-> "k1"]
StreamDbs   == [mode : {"STREAM"}, key : {Plain, Single}]
VectoredDbs == [mode : {"VECTORED"}, key : {Plain, Single, ZeroSingle}]
BothDbs == StreamDbs \cup VectoredDbs

\* A bound: an application uses the scratch for streams or for vectored
\* scans.  The two leave nothing to each other but what hs_scan_vector
\* overwrites when it begins, and their product is out of reach.
OneMode == open = {} \/ st["bstate"] = Freed
MCSpec == Init /\ [][Next /\ OneMode']_vars /\ WF_vars(CallStep)
=============================================================================
