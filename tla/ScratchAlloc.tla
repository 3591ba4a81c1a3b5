----------------------------- MODULE ScratchAlloc -----------------------------
(***************************************************************************)
(* Scratch regions (scratch.c): hs_alloc_scratch makes or grows a region   *)
(* so that it serves one more database, hs_clone_scratch copies one,       *)
(* hs_free_scratch frees it, and a scan marks it as in use.  Memory comes  *)
(* from an allocator of the application that may fail at any request.      *)
(* From a match callback the application can make any call again, with     *)
(* the region that is being used or with another one.  A caller that has a *)
(* region of its own is all there is: the mark is no lock between threads  *)
(* (hs_common.h: "Not all concurrent uses of scratch regions may be        *)
(* detected").                                                             *)
(***************************************************************************)
EXTENDS Integers, Sequences, FiniteSets

CONSTANTS
    Var,        \* hs_scratch_t * variables of the application
    Block,      \* blocks the allocator can return
    Database,   \* databases
    Dim,        \* the sizes a scratch region has
    Need,       \* Need[d][m]: what database d needs of size m
    BlockMode,  \* the databases in block mode
    LogSize,    \* LogSize[n]: bytes of a fatbit of n keys
    Null,
    MaxNest     \* bound: scans inside callbacks of scans

(* "dkeys" and "logSize" are sizes of their own: a region is given the log *)
(* size of the database with the most keys.                                *)
ASSUME NeedAssumption ==
    /\ Need \in [Database -> [Dim -> Nat]]
    /\ {"dkeys", "logSize", "bState", "queues"} \subseteq Dim
    /\ BlockMode \subseteq Database
    /\ Null \notin Block /\ MaxNest \in Nat
    /\ \A d \in Database : Need[d]["logSize"] = LogSize[Need[d]["dkeys"]]
    /\ \A d, e \in Database : Need[d]["dkeys"] <= Need[e]["dkeys"]
                              => Need[d]["logSize"] <= Need[e]["logSize"]

VARIABLES
    var,        \* the block a variable points to, or Null
    mem,        \* allocated blocks: [size, inUse]
    scans,      \* the running scans, innermost last: <<block, database>>
    served,     \* history: databases a variable was allocated for
    ret         \* what the last call returned

vars == <<var, mem, scans, served, ret>>

Zero == [m \in Dim |-> 0]
Region(size) == [size |-> size, inUse |-> FALSE]
Return == {"SUCCESS", "NOMEM", "SCRATCH_IN_USE", "INVALID"}

TypeOK ==
    /\ var \in [Var -> Block \cup {Null}]
    /\ DOMAIN mem \subseteq Block
    /\ \A b \in DOMAIN mem : mem[b].inUse \in BOOLEAN
    /\ served \in [Var -> SUBSET Database]
    /\ ret \in Return

Init ==
    /\ var = [v \in Var |-> Null]
    /\ mem = <<>>
    /\ scans = <<>> /\ served = [v \in Var |-> {}] /\ ret = "SUCCESS"

(* What the allocator can return, given the blocks that are allocated. *)
NewBlocks(m) == Block \ DOMAIN m

Without(b) == [x \in DOMAIN mem \ {b} |-> mem[x]]
With(m, b, r) == [x \in DOMAIN m \cup {b} |-> IF x = b THEN r ELSE m[x]]

Refused(rv) == ret' = rv /\ UNCHANGED <<var, mem, scans, served>>

----------------------------------------------------------------------------
(* hs_alloc_scratch *)

(* The log grows with the keys and not by itself. *)
Grown(size, d) ==
    [m \in Dim |->
        IF m = "logSize"
        THEN IF Need[d]["dkeys"] > size["dkeys"] THEN Need[d][m] ELSE size[m]
        ELSE IF Need[d][m] > size[m] THEN Need[d][m] ELSE size[m]]

(* The prototype: the sizes of the old region, each raised where needed. *)
Proto(v, d) == Grown(IF var[v] = Null THEN Zero ELSE mem[var[v]].size, d)

\* Fault: only the sizes that validScratch looks at decide.
MustResize_Checked(v, d) ==
    var[v] = Null \/ \E m \in {"bState", "queues"} : Proto(v, d)[m] # mem[var[v]].size[m]

MustResize(v, d) == var[v] = Null \/ Proto(v, d) # mem[var[v]].size

\* Fault: the variable keeps the block that was freed.
AfterFailure_Dangling(v) == [var EXCEPT ![v] = @]

(* Every failure leaves the variable empty. *)
AfterFailure(v) == [var EXCEPT ![v] = Null]

(* The sizing prototype or the region itself could not be allocated: the   *)
(* old region is gone and the variable is empty.  The first can happen     *)
(* even when the old region would have done.                               *)
Fails(v) ==
    /\ mem' = IF var[v] = Null THEN mem ELSE Without(var[v])
    /\ var' = AfterFailure(v)
    /\ served' = [served EXCEPT ![v] = {}]
    /\ ret' = "NOMEM"
    /\ UNCHANGED scans

Succeeds(v, d) ==
    /\ IF MustResize(v, d)
       THEN LET old == IF var[v] = Null THEN mem ELSE Without(var[v]) IN
            \E b \in NewBlocks(old) :
                /\ mem' = With(old, b, Region(Proto(v, d)))
                /\ var' = [var EXCEPT ![v] = b]
       ELSE UNCHANGED <<mem, var>>
    /\ served' = [served EXCEPT ![v] = @ \cup {d}]
    /\ ret' = "SUCCESS"
    /\ UNCHANGED scans

\* Fault: the region is resized without a look at its mark.
Marked_Ignored(v) == FALSE

(* markScratchInUse finds the region in use. *)
Marked(v) == var[v] # Null /\ mem[var[v]].inUse

hs_alloc_scratch(v, d) ==
    \/ Marked(v) /\ Refused("SCRATCH_IN_USE")
    \/ ~Marked(v) /\ (Fails(v) \/ Succeeds(v, d))

----------------------------------------------------------------------------
(* hs_clone_scratch, hs_free_scratch *)

(* alloc_scratch copies the header and then clears the mark; the source    *)
(* may be in use.                                                          *)
CloneOf(b) == Region(mem[b].size)

hs_clone_scratch(v, w) ==
    /\ var[v] # Null /\ var[w] = Null /\ v # w
    /\ \/ \E b \in NewBlocks(mem) : /\ mem' = With(mem, b, CloneOf(var[v]))
                          /\ var' = [var EXCEPT ![w] = b]
                          /\ served' = [served EXCEPT ![w] = served[v]]
                          /\ ret' = "SUCCESS"
       \/ ret' = "NOMEM" /\ UNCHANGED <<mem, var, served>>
    /\ UNCHANGED scans

hs_free_scratch(v) ==
    \/ Marked(v) /\ Refused("SCRATCH_IN_USE")
    \/ /\ ~Marked(v) /\ var[v] # Null
       /\ mem' = Without(var[v])
       /\ var' = [var EXCEPT ![v] = Null]   \* the application forgets it
       /\ served' = [served EXCEPT ![v] = {}]
       /\ ret' = "SUCCESS"
       /\ UNCHANGED scans

----------------------------------------------------------------------------
(* Scans *)

(* validScratch: two of the sizes are looked at. *)
validScratch(b, d) ==
    /\ d \in BlockMode => Need[d]["bState"] <= mem[b].size["bState"]
    /\ Need[d]["queues"] <= mem[b].size["queues"]

(* A scan with a region that was allocated for the database, or a clone of *)
(* it: what the documentation asks of the application; or with one that    *)
(* validScratch can tell is too small.                                     *)
ScanBegin(v, d) ==
    /\ var[v] # Null /\ Len(scans) < MaxNest
    /\ d \in served[v] \/ ~validScratch(var[v], d)
    /\ \/ ~validScratch(var[v], d) /\ Refused("INVALID")
       \/ validScratch(var[v], d) /\ Marked(v) /\ Refused("SCRATCH_IN_USE")
       \/ /\ validScratch(var[v], d) /\ ~Marked(v)
          /\ mem' = [mem EXCEPT ![var[v]].inUse = TRUE]
          /\ scans' = Append(scans, <<var[v], d>>)
          /\ ret' = "SUCCESS"
          /\ UNCHANGED <<var, served>>

ScanEnd ==
    /\ scans # <<>>
    /\ LET b == scans[Len(scans)][1] IN
        mem' = [x \in DOMAIN mem |->
                    IF x = b THEN [mem[x] EXCEPT !.inUse = FALSE] ELSE mem[x]]
    /\ scans' = SubSeq(scans, 1, Len(scans) - 1)
    /\ ret' = "SUCCESS"
    /\ UNCHANGED <<var, served>>

Next ==
    \/ \E v \in Var :
        \/ \E d \in Database : hs_alloc_scratch(v, d) \/ ScanBegin(v, d)
        \/ \E w \in Var : hs_clone_scratch(v, w)
        \/ hs_free_scratch(v)
    \/ ScanEnd

Spec == Init /\ [][Next]_vars

----------------------------------------------------------------------------
(* Properties *)

Targets == {var[v] : v \in Var} \ {Null}

(***************************************************************************)
(* doc/dev-reference/runtime.rst:168-171: a region is large enough in      *)
(* every size for every database it was allocated for, whatever the order  *)
(* of the calls, also after it was cloned from a region in use.  A         *)
(* database without dedupe keys is given no log and logs nothing.          *)
(***************************************************************************)
FitsAll ==
    \A v \in Var : var[v] # Null =>
        \A d \in served[v], m \in Dim :
            \/ mem[var[v]].size[m] >= Need[d][m]
            \/ m = "logSize" /\ Need[d]["dkeys"] = 0

(***************************************************************************)
(* No memory is lost and none is used after it was freed: the blocks that  *)
(* are allocated are those the variables point to, one each, also after    *)
(* the allocator failed in the middle of a resize.                         *)
(***************************************************************************)
MemoryExact ==
    /\ Targets = DOMAIN mem
    /\ \A v, w \in Var : v # w /\ var[v] # Null => var[v] # var[w]

(***************************************************************************)
(* The region of a running scan stays where it is until the scan ends: no  *)
(* call made from a callback frees, grows or reuses it, and a region is    *)
(* marked exactly while a scan uses it, so that it can be used again       *)
(* afterwards.                                                             *)
(***************************************************************************)
ScanKeepsRegion ==
    /\ \A i, j \in DOMAIN scans : i # j => scans[i][1] # scans[j][1]
    /\ {scans[i][1] : i \in DOMAIN scans} = {b \in DOMAIN mem : mem[b].inUse}
====
