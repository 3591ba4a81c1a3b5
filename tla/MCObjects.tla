------------------------------ MODULE MCObjects ------------------------------
(***************************************************************************)
(* What an application keeps between scans, on small instances: scratch    *)
(* regions (ScratchAlloc), streams with their compressed form              *)
(* (StreamCompress), and the scratch of a Chimera database, which one      *)
(* ch_scan leaves to the next (Chimera).  They share no state; a behaviour *)
(* exercises one of them while the others stay as they began.              *)
(***************************************************************************)
EXTENDS ScratchAlloc, TLC

CONSTANTS Streams, Leaf, Left, SomSlot, Source, Garbage, HistoryRequired,
          AnchoredDistance, U32, MaxOffset, MaxWrites,
          Patterns, Databases, Data, None, BlockLength, MaxErrors

VARIABLES used,     \* which of the three a behaviour exercises
          st, open, writes, buf, ideal, bufOf,
          db, ends, chPc, cur, todo, active, scanStart, match, chPq, chJob, res,
          errors, cut, cbs

streams == <<st, open, writes, buf, ideal, bufOf>>

chimeraVars == <<db, ends, chPc, cur, todo, active, scanStart, match, chPq, chJob,
                 res, errors, cut, cbs>>

\* Three databases, none of which needs least of everything.
MCDim == {"bState", "queues", "dkeys", "logSize", "delay"}
MCLogSize == [k \in 0 .. 3 |-> IF k = 3 THEN 2 ELSE 1]
MCSizes(b, q, k, l) ==
    [bState |-> b, queues |-> q, dkeys |-> k, logSize |-> MCLogSize[k], delay |-> l]
MCDatabase == {"p", "q", "r"}
MCNeed == [p |-> MCSizes(2, 1, 0, 1), q |-> MCSizes(1, 2, 2, 1), r |-> MCSizes(0, 1, 3, 2)]

MCGarbage == <<"none", 0>>

\* Chimera: fixed-width, guarded and unguarded patterns, alone and mixed, with
\* and without single-match flags.
Of(a, b, c) == (0 :> a) @@ (1 :> b) @@ (2 :> c)
MCDatabases ==
    {[width |-> Of(1, 2, 0), unguarded |-> {}, single |-> {}],
     [width |-> Of(1, 0, 0), unguarded |-> {2}, single |-> {}],
     [width |-> Of(1, 2, 0), unguarded |-> {}, single |-> Patterns],
     [width |-> Of(0, 0, 0), unguarded |-> {2}, single |-> {1}],
     [width |-> Of(0, 0, 0), unguarded |-> Patterns, single |-> {}]}

\* Where matches that begin at 0, 1, 2 and 3 end: adjacent, overlapping,
\* nested and empty ones.
At(a, b, c, d) == (0 :> a) @@ (1 :> b) @@ (2 :> c) @@ (3 :> d)
MCData ==
    {Of(a, b, c) :
        a \in {At(1, 2, 3, None), At(None, None, 3, None)},
        b \in {At(2, 3, None, None), At(1, None, 3, None)},
        c \in {At(0, 1, 2, 3), At(3, 2, None, None)}}

\* Handles and sources are only compared.
Symmetric == Permutations(Streams) \cup Permutations(Source)

Compress == INSTANCE StreamCompress
ASSUME CompressAssumption == Compress!StreamAssumption

Hybrid == INSTANCE Chimera WITH
    Length <- BlockLength, pc <- chPc, pq <- chPq, job <- chJob, ret <- res, left <- todo
ASSUME HybridAssumption == Hybrid!ChimeraAssumption

ObjectsInit ==
    /\ used \in {"scratch", "streams", "chimera"}
    /\ Init /\ Compress!Init /\ Hybrid!Init
    /\ used # "chimera" => db.unguarded = Patterns   \* one of the databases

ObjectsNext ==
    /\ \/ used = "scratch" /\ Next /\ UNCHANGED <<streams, chimeraVars>>
       \/ used = "streams" /\ Compress!Next /\ UNCHANGED <<vars, chimeraVars>>
       \/ used = "chimera" /\ Hybrid!Next /\ UNCHANGED <<vars, streams>>
    /\ UNCHANGED used

ObjectsSpec == ObjectsInit /\ [][ObjectsNext]_<<used, vars, streams, chimeraVars>>

\* StreamCompress: an expanded stream reads like a copy.
ExpandedAsCopied == Compress!ExpandedAsCopied

\* Chimera: the callback sees PCRE's successive matches of each pattern, in
\* the order of their ends.
PcreExact == Hybrid!PcreExact

\* Chimera: the queue has room, and one item of a pattern at most.
QueueFits == Hybrid!QueueFits
=============================================================================
