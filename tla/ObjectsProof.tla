---------------------------- MODULE ObjectsProof -----------------------------
(***************************************************************************)
(* What an application keeps between scans, for any values of the          *)
(* constants.                                                              *)
(*                                                                         *)
(* Scratch regions (ScratchAlloc).  For any application, any allocator and *)
(* any databases: a scratch region fits every database it was allocated    *)
(* for, no memory is lost or shared, and a running scan keeps its region.  *)
(* IInv adds to the three properties the types of the regions, LogFits     *)
(* (the log of a region is right for its number of keys, which is what     *)
(* lets hs_alloc_scratch grow the log only together with the keys) and     *)
(* Forgotten.                                                              *)
(*                                                                         *)
(* Compressed streams (StreamCompress).  For any engines, slots, history   *)
(* and writes: expanding restores all that the scanner will read.          *)
(* CompressInv says that every stream agrees with its ideal copy on what   *)
(* is live, and so does the stream the buffer was made from.  LEMMA        *)
(* LayoutIs shows that the layout names all that is live, LEMMA ExpandIs   *)
(* that expanding finds the same layout from the values read so far.       *)
(*                                                                         *)
(* Chimera.  For any patterns, data and answers, PCRE's limits and the     *)
(* freedom of hs_scan's prefilters: the callbacks of ch_scan are PCRE's    *)
(* matches, and its queue has room.  HybridInv says that an item of the    *)
(* queue is the next match of its pattern and ends no earlier than what    *)
(* was reported; that an active pattern has its item unless nothing more   *)
(* is wanted of it; and that no fixed-width match was missed, whichever of *)
(* hs_scan and PCRE comes upon it first.                                   *)
(***************************************************************************)
EXTENDS MCObjects, FiniteSetTheorems, FunctionTheorems, FiniteSetsExt,
        WellFoundedInduction, TLAPS

----------------------------------------------------------------------------
(* Scratch regions                                                         *)

Sizes == [Dim -> Nat]
Regions == [size : Sizes, inUse : BOOLEAN]

Types ==
    /\ var \in [Var -> Block \cup {Null}]
    /\ DOMAIN mem \subseteq Block
    /\ \A b \in DOMAIN mem : mem[b] \in Regions
    /\ scans \in Seq(Block \X Database)
    /\ served \in [Var -> SUBSET Database]
    /\ ret \in Return

\* The log is large enough for every database with no more keys.
LogOf(size) ==
    \A d \in Database : Need[d]["dkeys"] # 0 /\ Need[d]["dkeys"] <= size["dkeys"]
                            => Need[d]["logSize"] <= size["logSize"]
LogFits == \A b \in DOMAIN mem : LogOf(mem[b].size)

\* What a variable was allocated for goes with its region.
Forgotten == \A v \in Var : var[v] = Null => served[v] = {}

IInv == Types /\ MemoryExact /\ ScanKeepsRegion /\ LogFits /\ FitsAll /\ Forgotten

----------------------------------------------------------------------------
(* The prototype of hs_alloc_scratch *)

Fits(size, d) ==
    \A m \in Dim : \/ size[m] >= Need[d][m]
                   \/ m = "logSize" /\ Need[d]["dkeys"] = 0

\* Growing a size for a database makes it fit, keeps it as large as it was in
\* everything, and keeps the log right.
LEMMA GrownFits ==
    ASSUME NEW size \in Sizes, LogOf(size), NEW d \in Database
    PROVE  /\ Grown(size, d) \in Sizes
           /\ LogOf(Grown(size, d))
           /\ Fits(Grown(size, d), d)
           /\ \A e \in Database : Fits(size, e) => Fits(Grown(size, d), e)
  <1> USE NeedAssumption DEF Sizes
  <1> DEFINE g == Grown(size, d)
  <1>1. /\ Need[d] \in [Dim -> Nat]
        /\ \A e \in Database : Need[e] \in [Dim -> Nat]
        /\ "dkeys" \in Dim /\ "logSize" \in Dim
    OBVIOUS
  <1>2. g \in Sizes  BY <1>1 DEF Grown
  <1>3. \A m \in Dim : m # "logSize" => g[m] >= size[m] /\ g[m] >= Need[d][m]
    BY <1>1 DEF Grown
  <1>4. g["dkeys"] = IF Need[d]["dkeys"] > size["dkeys"] THEN Need[d]["dkeys"] ELSE size["dkeys"]
    BY <1>1 DEF Grown
  <1>5. g["logSize"] = IF Need[d]["dkeys"] > size["dkeys"] THEN Need[d]["logSize"]
                       ELSE size["logSize"]
    BY <1>1 DEF Grown
  <1>6. LogOf(g)
    <2> SUFFICES ASSUME NEW e \in Database, Need[e]["dkeys"] # 0,
                        Need[e]["dkeys"] <= g["dkeys"]
                 PROVE  Need[e]["logSize"] <= g["logSize"]
      BY DEF LogOf
    <2>1. CASE Need[d]["dkeys"] > size["dkeys"]
      BY <2>1, <1>4, <1>5
    <2>2. CASE ~(Need[d]["dkeys"] > size["dkeys"])
      <3>1. Need[e]["dkeys"] <= size["dkeys"]  BY <2>2, <1>4
      <3> QED  BY <3>1, <2>2, <1>5 DEF LogOf
    <2> QED  BY <2>1, <2>2
  <1>7. g["dkeys"] \in Nat /\ g["logSize"] \in Nat  BY <1>1, <1>2
  <1>8. \A e \in Database : Need[e]["dkeys"] <= g["dkeys"] /\ Need[e]["dkeys"] # 0
                                => g["logSize"] >= Need[e]["logSize"]
    BY <1>1, <1>6, <1>7 DEF LogOf
  <1>9. Fits(g, d)
    BY <1>1, <1>3, <1>8 DEF Fits
  <1>10. ASSUME NEW e \in Database, Fits(size, e) PROVE Fits(g, e)
    <2>1. Need[e] \in [Dim -> Nat]  OBVIOUS
    <2>2. \A m \in Dim : m # "logSize" => g[m] >= Need[e][m]
      BY <1>2, <1>3, <1>10, <2>1 DEF Fits
    <2> QED  BY <1>1, <1>8, <2>1, <2>2 DEF Fits
  <1> QED  BY <1>2, <1>6, <1>9, <1>10

LEMMA ZeroFits == Zero \in Sizes /\ LogOf(Zero)
  BY NeedAssumption DEF Zero, Sizes, LogOf

\* FitsAll, one region at a time.
LEMMA FitsAllIsFits ==
    FitsAll <=> \A v \in Var : var[v] # Null => \A d \in served[v] : Fits(mem[var[v]].size, d)
  BY DEF FitsAll, Fits

----------------------------------------------------------------------------
(* The steps *)

LEMMA InitIInv == Init => IInv
  <1> SUFFICES ASSUME Init PROVE IInv
    OBVIOUS
  <1>1. /\ mem = <<>> /\ DOMAIN mem = {}
        /\ scans = <<>> /\ DOMAIN scans = {} /\ scans \in Seq(Block \X Database)
        /\ \A v \in Var : var[v] = Null /\ served[v] = {}
    BY DEF Init
  <1>2. Types  BY <1>1 DEF Init, Types, Return
  <1>3. MemoryExact  BY <1>1 DEF MemoryExact, Targets
  <1>4. ScanKeepsRegion  BY <1>1 DEF ScanKeepsRegion
  <1>5. LogFits /\ FitsAll /\ Forgotten  BY <1>1 DEF LogFits, FitsAll, Forgotten
  <1> QED  BY <1>2, <1>3, <1>4, <1>5 DEF IInv

\* A call that is refused, and a step that changes nothing.
LEMMA RefusedStep == ASSUME IInv, NEW rv \in Return, Refused(rv) PROVE IInv'
  BY DEF IInv, Types, MemoryExact, Targets, ScanKeepsRegion, LogFits, LogOf, FitsAll, Forgotten,
         Refused

\* The block of a variable that no scan has marked is nobody else's.
LEMMA OwnBlock ==
    ASSUME IInv, NEW v \in Var, var[v] # Null
    PROVE  /\ var[v] \in DOMAIN mem /\ var[v] \in Block
           /\ mem[var[v]].size \in Sizes /\ LogOf(mem[var[v]].size)
           /\ \A w \in Var : w # v => var[w] # var[v]
  <1>1. var[v] \in DOMAIN mem  BY DEF IInv, MemoryExact, Targets
  <1>2. mem[var[v]] \in Regions /\ var[v] \in Block  BY <1>1 DEF IInv, Types
  <1>3. mem[var[v]].size \in Sizes  BY <1>2 DEF Regions
  <1>4. LogOf(mem[var[v]].size)  BY <1>1 DEF IInv, LogFits
  <1>5. \A w \in Var : w # v => var[w] # var[v]  BY DEF IInv, MemoryExact
  <1> QED  BY <1>1, <1>2, <1>3, <1>4, <1>5

\* Freeing the region of a variable, as hs_free_scratch and a failed
\* hs_alloc_scratch do.
LEMMA FreeStep ==
    ASSUME IInv, NEW v \in Var, ~Marked(v),
           mem' = IF var[v] = Null THEN mem ELSE Without(var[v]),
           var' = [var EXCEPT ![v] = Null],
           served' = [served EXCEPT ![v] = {}],
           ret' \in Return, UNCHANGED scans
    PROVE  IInv'
  <1>1. DOMAIN mem' = DOMAIN mem \ {var[v]}
    <2>1. Null \notin DOMAIN mem  BY NeedAssumption DEF IInv, Types
    <2>2. CASE var[v] = Null  BY <2>1, <2>2
    <2>3. CASE var[v] # Null  BY <2>3 DEF Without
    <2> QED  BY <2>2, <2>3
  <1>2. \A b \in DOMAIN mem' : mem'[b] = mem[b] /\ b \in DOMAIN mem
    <2>1. CASE var[v] = Null  BY <2>1
    <2>2. CASE var[v] # Null  BY <2>2 DEF Without
    <2> QED  BY <2>1, <2>2
  <1>3. /\ var'[v] = Null /\ served'[v] = {}
        /\ \A w \in Var : w # v => var'[w] = var[w] /\ served'[w] = served[w]
    BY DEF IInv, Types
  <1>4. Types'
    BY <1>1, <1>2 DEF IInv, Types
  <1>5. MemoryExact'
    <2>1. Targets' = Targets \ {var[v]}
      BY <1>3 DEF IInv, MemoryExact, Targets
    <2> QED  BY <1>1, <1>3, <2>1 DEF IInv, MemoryExact
  <1>6. ScanKeepsRegion'
    <2>1. var[v] = Null \/ ~mem[var[v]].inUse  BY DEF Marked
    <2>2. {b \in DOMAIN mem' : mem'[b].inUse} = {b \in DOMAIN mem : mem[b].inUse}
      BY <1>1, <1>2, <2>1, NeedAssumption DEF IInv, Types
    <2> QED  BY <2>2 DEF IInv, ScanKeepsRegion
  <1>7. LogFits'
    BY <1>2 DEF IInv, LogFits, LogOf
  <1>8. FitsAll'
    <2> SUFFICES ASSUME NEW w \in Var, var'[w] # Null
                 PROVE  \A d \in served'[w], m \in Dim :
                           \/ mem'[var'[w]].size[m] >= Need[d][m]
                           \/ m = "logSize" /\ Need[d]["dkeys"] = 0
      BY DEF FitsAll
    <2>1. w # v /\ var'[w] = var[w] /\ served'[w] = served[w]  BY <1>3
    <2>2. var[w] \in DOMAIN mem'  BY <1>5, <2>1 DEF MemoryExact, Targets
    <2> QED  BY <1>2, <2>1, <2>2 DEF IInv, FitsAll
  <1>9. Forgotten'  BY <1>3 DEF IInv, Forgotten
  <1> QED  BY <1>4, <1>5, <1>6, <1>7, <1>8, <1>9 DEF IInv

\* A new region for a variable, in memory m where it has none.
LEMMA PlaceStep ==
    ASSUME IInv, NEW v \in Var, NEW m, NEW b \in NewBlocks(m), NEW size \in Sizes, LogOf(size),
           ~Marked(v),
           m = (IF var[v] = Null THEN mem ELSE Without(var[v])),
           mem' = With(m, b, Region(size)),
           var' = [var EXCEPT ![v] = b],
           served' \in [Var -> SUBSET Database],
           \A d \in served'[v] : Fits(size, d),
           \A w \in Var : w # v => served'[w] = served[w],
           ret' \in Return, UNCHANGED scans
    PROVE  IInv'
  <1> USE NeedAssumption
  <1>1. /\ DOMAIN m = DOMAIN mem \ {var[v]}
        /\ \A c \in DOMAIN m : m[c] = mem[c]
    <2>1. Null \notin DOMAIN mem  BY DEF IInv, Types
    <2>2. CASE var[v] = Null  BY <2>1, <2>2
    <2>3. CASE var[v] # Null  BY <2>3 DEF Without
    <2> QED  BY <2>2, <2>3
  <1>2. b \in Block /\ b # Null /\ b \notin DOMAIN m  BY DEF NewBlocks
  <1>3. /\ DOMAIN mem' = DOMAIN m \cup {b}
        /\ mem'[b] = Region(size)
        /\ \A c \in DOMAIN m : mem'[c] = mem[c]
    BY <1>1, <1>2 DEF With
  <1>4. /\ var'[v] = b
        /\ \A w \in Var : w # v => var'[w] = var[w]
    BY DEF IInv, Types
  <1>5. Region(size) \in Regions /\ Region(size).size = size /\ Region(size).inUse = FALSE
    BY DEF Region, Regions
  <1>6. Types'
    BY <1>1, <1>2, <1>3, <1>5 DEF IInv, Types
  <1>7. MemoryExact'
    <2>1. \A w \in Var : w # v /\ var[w] # Null => var[w] \in DOMAIN m
      BY <1>1 DEF IInv, MemoryExact, Targets
    <2>2. \A c \in DOMAIN m : \E w \in Var : w # v /\ var[w] = c /\ c # Null
      BY <1>1 DEF IInv, Types, MemoryExact, Targets
    <2>3. Targets' = DOMAIN m \cup {b}
      BY <1>2, <1>4, <2>1, <2>2 DEF Targets
    <2>4. \A w, u \in Var : w # u /\ var'[w] # Null => var'[w] # var'[u]
      BY <1>2, <1>4, <2>1 DEF IInv, MemoryExact
    <2> QED  BY <1>3, <2>3, <2>4 DEF MemoryExact
  <1>8. ScanKeepsRegion'
    <2>1. var[v] = Null \/ ~mem[var[v]].inUse  BY DEF Marked
    <2>2. {c \in DOMAIN mem' : mem'[c].inUse} = {c \in DOMAIN mem : mem[c].inUse}
      BY <1>1, <1>2, <1>3, <1>5, <2>1 DEF IInv, Types
    <2> QED  BY <2>2 DEF IInv, ScanKeepsRegion
  <1>9. LogFits'
    BY <1>1, <1>3, <1>5 DEF IInv, LogFits, LogOf
  <1>10. FitsAll'
    <2> SUFFICES ASSUME NEW w \in Var, var'[w] # Null, NEW d \in served'[w]
                 PROVE  Fits(mem'[var'[w]].size, d)
      BY DEF FitsAll, Fits
    <2>1. CASE w = v  BY <2>1, <1>3, <1>4, <1>5
    <2>2. CASE w # v
      <3>1. var'[w] = var[w] /\ var[w] \in DOMAIN m /\ d \in served[w]
        BY <2>2, <1>1, <1>4 DEF IInv, MemoryExact, Targets
      <3>2. Fits(mem[var[w]].size, d)  BY <3>1, FitsAllIsFits DEF IInv
      <3> QED  BY <3>1, <3>2, <1>3
    <2> QED  BY <2>1, <2>2
  <1>11. Forgotten'  BY <1>2, <1>4 DEF IInv, Forgotten
  <1> QED  BY <1>6, <1>7, <1>8, <1>9, <1>10, <1>11 DEF IInv

LEMMA AllocStep ==
    ASSUME IInv, NEW v \in Var, NEW d \in Database, hs_alloc_scratch(v, d)
    PROVE  IInv'
  <1>1. CASE Marked(v) /\ Refused("SCRATCH_IN_USE")
    BY <1>1, RefusedStep DEF Return
  <1>2. CASE ~Marked(v) /\ Fails(v)
    BY <1>2, FreeStep DEF Fails, AfterFailure, Return
  <1>3. CASE ~Marked(v) /\ Succeeds(v, d)
    <2> DEFINE old == IF var[v] = Null THEN Zero ELSE mem[var[v]].size
               new == Proto(v, d)
    <2>1. old \in Sizes /\ LogOf(old)  BY OwnBlock, ZeroFits
    <2>2. /\ new \in Sizes /\ LogOf(new) /\ Fits(new, d)
          /\ \A e \in Database : Fits(old, e) => Fits(new, e)
      BY <2>1, GrownFits DEF Proto
    <2>3. /\ served' \in [Var -> SUBSET Database]
          /\ served'[v] = served[v] \cup {d}
          /\ \A w \in Var : w # v => served'[w] = served[w]
          /\ ret' \in Return
      BY <1>3 DEF Succeeds, IInv, Types, Return
    <2>4. \A e \in served[v] : e \in Database  BY DEF IInv, Types
    <2>5. CASE MustResize(v, d)
      <3> DEFINE m == IF var[v] = Null THEN mem ELSE Without(var[v])
      <3>1. PICK b \in NewBlocks(m) : mem' = With(m, b, Region(new)) /\ var' = [var EXCEPT ![v] = b]
        BY <1>3, <2>5 DEF Succeeds
      <3>2. \A e \in served'[v] : Fits(new, e)
        <4>1. CASE var[v] = Null
          BY <4>1, <2>2, <2>3 DEF IInv, Forgotten
        <4>2. CASE var[v] # Null
          BY <4>2, <2>2, <2>3, <2>4, FitsAllIsFits DEF IInv
        <4> QED  BY <4>1, <4>2
      <3> HIDE DEF new, m
      <3> QED  BY <1>3, <2>2, <2>3, <3>1, <3>2, PlaceStep DEF Succeeds, m
    <2>6. CASE ~MustResize(v, d)
      <3>1. UNCHANGED <<mem, var, scans>>  BY <1>3, <2>6 DEF Succeeds
      <3>2. var[v] # Null /\ mem[var[v]].size = new  BY <2>6 DEF MustResize
      <3>3. FitsAll'
        BY <2>2, <2>3, <3>1, <3>2, FitsAllIsFits DEF IInv, FitsAll, Fits
      <3>4. Types' /\ MemoryExact' /\ ScanKeepsRegion' /\ LogFits'
        BY <2>3, <3>1 DEF IInv, Types, MemoryExact, Targets, ScanKeepsRegion, LogFits, LogOf
      <3>5. Forgotten'
        BY <2>3, <3>1, <3>2 DEF IInv, Forgotten
      <3> QED  BY <3>3, <3>4, <3>5 DEF IInv
    <2> QED  BY <2>5, <2>6
  <1> QED  BY <1>1, <1>2, <1>3 DEF hs_alloc_scratch

LEMMA CloneStep ==
    ASSUME IInv, NEW v \in Var, NEW w \in Var, hs_clone_scratch(v, w)
    PROVE  IInv'
  <1>1. var[v] # Null /\ var[w] = Null /\ UNCHANGED scans
    BY DEF hs_clone_scratch
  <1>2. CASE \E b \in NewBlocks(mem) : /\ mem' = With(mem, b, CloneOf(var[v]))
                                       /\ var' = [var EXCEPT ![w] = b]
                                       /\ served' = [served EXCEPT ![w] = served[v]]
                                       /\ ret' = "SUCCESS"
    <2> DEFINE size == mem[var[v]].size
    <2>1. PICK b \in NewBlocks(mem) :
             /\ mem' = With(mem, b, Region(size))
             /\ var' = [var EXCEPT ![w] = b]
             /\ served' = [served EXCEPT ![w] = served[v]]
             /\ ret' = "SUCCESS"
      BY <1>2 DEF CloneOf
    <2>2. size \in Sizes /\ LogOf(size)  BY <1>1, OwnBlock
    <2>3. \A d \in served[v] : Fits(size, d)  BY <1>1, FitsAllIsFits DEF IInv
    <2>4. /\ served' \in [Var -> SUBSET Database] /\ served'[w] = served[v]
          /\ \A u \in Var : u # w => served'[u] = served[u]
      BY <2>1 DEF IInv, Types
    <2>5. ret' \in Return /\ ~Marked(w)  BY <1>1, <2>1 DEF Return, Marked
    <2> HIDE DEF size
    <2>6. mem = IF var[w] = Null THEN mem ELSE Without(var[w])  BY <1>1
    <2> QED  BY <1>1, <2>1, <2>2, <2>3, <2>4, <2>5, <2>6, PlaceStep
  <1>3. CASE ret' = "NOMEM" /\ UNCHANGED <<mem, var, served>>
    BY <1>1, <1>3
    DEF IInv, Types, Return, MemoryExact, Targets, ScanKeepsRegion, LogFits, LogOf,
        FitsAll, Forgotten
  <1> QED  BY <1>2, <1>3 DEF hs_clone_scratch

LEMMA FreeCallStep ==
    ASSUME IInv, NEW v \in Var, hs_free_scratch(v)
    PROVE  IInv'
  <1>1. CASE Marked(v) /\ Refused("SCRATCH_IN_USE")
    BY <1>1, RefusedStep DEF Return
  <1>2. CASE ~(Marked(v) /\ Refused("SCRATCH_IN_USE"))
    BY <1>2, FreeStep DEF hs_free_scratch, Return
  <1> QED  BY <1>1, <1>2

\* A change of marks alone: what the variables and the sizes say stays true.
LEMMA MarkStep ==
    ASSUME IInv, DOMAIN mem' = DOMAIN mem,
           \A b \in DOMAIN mem : mem'[b] \in Regions /\ mem'[b].size = mem[b].size,
           scans' \in Seq(Block \X Database), ret' \in Return,
           ScanKeepsRegion', UNCHANGED <<var, served>>
    PROVE  IInv'
  <1>1. Types'  BY DEF IInv, Types
  <1>2. MemoryExact'  BY DEF IInv, MemoryExact, Targets
  <1>3. LogFits'  BY DEF IInv, LogFits, LogOf
  <1>4. FitsAll'
    <2>1. \A v \in Var : var[v] # Null => var[v] \in DOMAIN mem
      BY DEF IInv, MemoryExact, Targets
    <2> QED  BY <2>1 DEF IInv, FitsAll
  <1>5. Forgotten'  BY DEF IInv, Forgotten
  <1> QED  BY <1>1, <1>2, <1>3, <1>4, <1>5 DEF IInv

LEMMA ScanBeginStep ==
    ASSUME IInv, NEW v \in Var, NEW d \in Database, ScanBegin(v, d)
    PROVE  IInv'
  <1>1. CASE Refused("INVALID") \/ Refused("SCRATCH_IN_USE")
    BY <1>1, RefusedStep DEF Return
  <1>2. CASE /\ ~Marked(v)
             /\ mem' = [mem EXCEPT ![var[v]].inUse = TRUE]
             /\ scans' = Append(scans, <<var[v], d>>)
             /\ ret' = "SUCCESS"
             /\ UNCHANGED <<var, served>>
    <2> DEFINE b == var[v]
    <2>1. b \in DOMAIN mem /\ b \in Block /\ ~mem[b].inUse
      BY <1>2, OwnBlock DEF ScanBegin, Marked
    <2>2. /\ DOMAIN mem' = DOMAIN mem
          /\ \A c \in DOMAIN mem : c # b => mem'[c] = mem[c]
          /\ mem'[b] = [mem[b] EXCEPT !.inUse = TRUE]
      BY <1>2, <2>1
    <2>3. \A c \in DOMAIN mem : mem[c] \in Regions  BY DEF IInv, Types
    <2>4. mem'[b] \in Regions /\ mem'[b].size = mem[b].size /\ mem'[b].inUse = TRUE
      BY <2>1, <2>2, <2>3 DEF Regions
    <2>5. scans \in Seq(Block \X Database)  BY DEF IInv, Types
    <2>6. /\ scans' \in Seq(Block \X Database)
          /\ DOMAIN scans' = DOMAIN scans \cup {Len(scans) + 1}
          /\ Len(scans) + 1 \notin DOMAIN scans
          /\ \A i \in DOMAIN scans : scans'[i] = scans[i]
          /\ scans'[Len(scans) + 1] = <<b, d>>
      BY <1>2, <2>1, <2>5
    <2>7. \A i \in DOMAIN scans : scans[i][1] # b
      BY <2>1 DEF IInv, ScanKeepsRegion
    <2>8. ScanKeepsRegion'
      <3>1. \A i, j \in DOMAIN scans' : i # j => scans'[i][1] # scans'[j][1]
        BY <2>6, <2>7 DEF IInv, ScanKeepsRegion
      <3>2. {scans'[i][1] : i \in DOMAIN scans'} = {scans[i][1] : i \in DOMAIN scans} \cup {b}
        BY <2>6
      <3>3. {c \in DOMAIN mem' : mem'[c].inUse} = {c \in DOMAIN mem : mem[c].inUse} \cup {b}
        BY <2>1, <2>2, <2>4
      <3> QED  BY <3>1, <3>2, <3>3 DEF IInv, ScanKeepsRegion
    <2>9. ret' \in Return  BY <1>2 DEF Return
    <2> QED  BY <1>2, <2>2, <2>3, <2>4, <2>6, <2>8, <2>9, MarkStep
  <1> QED  BY <1>1, <1>2 DEF ScanBegin

LEMMA ScanEndStep == ASSUME IInv, ScanEnd PROVE IInv'
  <1> DEFINE n == Len(scans)
             b == scans[n][1]
  <1>1. scans \in Seq(Block \X Database) /\ scans # <<>>  BY DEF IInv, Types, ScanEnd
  <1>2. n \in Nat /\ n >= 1 /\ DOMAIN scans = 1 .. n  BY <1>1
  <1>3. /\ mem' = [x \in DOMAIN mem |-> IF x = b THEN [mem[x] EXCEPT !.inUse = FALSE] ELSE mem[x]]
        /\ scans' = SubSeq(scans, 1, n - 1)
        /\ ret' = "SUCCESS" /\ UNCHANGED <<var, served>>
    BY DEF ScanEnd
  <1>4. /\ scans' \in Seq(Block \X Database)
        /\ DOMAIN scans' = 1 .. n - 1
        /\ \A i \in 1 .. n - 1 : scans'[i] = scans[i]
    BY <1>1, <1>2, <1>3
  <1>5. \A c \in DOMAIN mem : mem[c] \in Regions  BY DEF IInv, Types
  <1>6. /\ DOMAIN mem' = DOMAIN mem
        /\ \A c \in DOMAIN mem : /\ mem'[c] \in Regions /\ mem'[c].size = mem[c].size
                                 /\ mem'[c].inUse = (c # b /\ mem[c].inUse)
    BY <1>3, <1>5 DEF Regions
  <1>7. \A i \in 1 .. n - 1 : scans[i][1] # b
    BY <1>2 DEF IInv, ScanKeepsRegion
  <1>8. ScanKeepsRegion'
    <2>1. \A i, j \in DOMAIN scans' : i # j => scans'[i][1] # scans'[j][1]
      BY <1>2, <1>4 DEF IInv, ScanKeepsRegion
    <2>2. {scans'[i][1] : i \in DOMAIN scans'} = {scans[i][1] : i \in DOMAIN scans} \ {b}
      <3>1. \A i \in DOMAIN scans : i = n \/ i \in 1 .. n - 1
        BY <1>2
      <3>2. ASSUME NEW i \in DOMAIN scans'
            PROVE  scans'[i][1] \in {scans[j][1] : j \in DOMAIN scans} \ {b}
        <4>1. i \in 1 .. n - 1 /\ i \in DOMAIN scans /\ scans'[i] = scans[i]
          BY <3>2, <1>2, <1>4
        <4> HIDE DEF n, b
        <4> QED  BY <4>1, <1>7
      <3>3. ASSUME NEW i \in DOMAIN scans, scans[i][1] # b
            PROVE  \E j \in DOMAIN scans' : scans'[j][1] = scans[i][1]
        <4>1. i \in 1 .. n - 1  BY <3>1, <3>3
        <4> QED  BY <4>1, <1>4
      <3> HIDE DEF n, b
      <3> QED  BY <3>2, <3>3
    <2>3. {c \in DOMAIN mem' : mem'[c].inUse} = {c \in DOMAIN mem : mem[c].inUse} \ {b}
      BY <1>6
    <2> QED  BY <2>1, <2>2, <2>3 DEF IInv, ScanKeepsRegion
  <1>9. ret' \in Return  BY <1>3 DEF Return
  <1> QED  BY <1>3, <1>4, <1>6, <1>8, <1>9, MarkStep

LEMMA NextStep == IInv /\ [Next]_vars => IInv'
  <1> SUFFICES ASSUME IInv, [Next]_vars PROVE IInv'
    OBVIOUS
  <1>1. CASE \E v \in Var, d \in Database : hs_alloc_scratch(v, d)
    BY <1>1, AllocStep
  <1>2. CASE \E v \in Var, d \in Database : ScanBegin(v, d)
    BY <1>2, ScanBeginStep
  <1>3. CASE \E v, w \in Var : hs_clone_scratch(v, w)
    BY <1>3, CloneStep
  <1>4. CASE \E v \in Var : hs_free_scratch(v)
    BY <1>4, FreeCallStep
  <1>5. CASE ScanEnd
    BY <1>5, ScanEndStep
  <1>6. CASE UNCHANGED vars
    BY <1>6 DEF vars, IInv, Types, MemoryExact, Targets, ScanKeepsRegion, LogFits, LogOf,
                FitsAll, Forgotten
  <1> QED  BY <1>1, <1>2, <1>3, <1>4, <1>5, <1>6 DEF Next

----------------------------------------------------------------------------
(* The theorems *)

\* A region serves every database hs_alloc_scratch was called for, in
\* whichever order, and a clone what the original served.
THEOREM ScratchFitsAll == Spec => []FitsAll
  <1>1. IInv => FitsAll  BY DEF IInv
  <1> QED  BY <1>1, InitIInv, NextStep, PTL DEF Spec

\* hs_alloc_scratch, hs_clone_scratch and hs_free_scratch neither lose a block
\* nor free one twice, wherever the allocator fails.
THEOREM ScratchMemoryExact == Spec => []MemoryExact
  <1>1. IInv => MemoryExact  BY DEF IInv
  <1> QED  BY <1>1, InitIInv, NextStep, PTL DEF Spec

\* The mark of a region is set exactly while a scan uses it, and the region is
\* not freed, replaced or given to another scan meanwhile.
THEOREM ScratchKeptDuringScan == Spec => []ScanKeepsRegion
  <1>1. IInv => ScanKeepsRegion  BY DEF IInv
  <1> QED  BY <1>1, InitIInv, NextStep, PTL DEF Spec

----------------------------------------------------------------------------
(* Compressed streams                                                      *)

Typed(x) ==
    /\ Compress!offset(x) \in 0 .. MaxOffset
    /\ x[<<"leaf">>] \subseteq Leaf /\ x[<<"left">>] \subseteq Left
    /\ x[<<"somValid">>] \subseteq SomSlot

\* x is to the scanner what y is.
Agree(x, y) == \A l \in Compress!Live(y) : x[l] = y[l]

\* The application's buffer is a compressed form of what bufOf agrees with.
BufferInv ==
    buf # <<>> => /\ Typed(bufOf)
                  /\ \E x : Agree(x, bufOf) /\ buf = Compress!sc_compress(x)

CompressInv ==
    /\ open \subseteq Streams
    /\ DOMAIN st = Streams /\ DOMAIN ideal = Streams
    /\ \A s \in open : Typed(ideal[s]) /\ Agree(st[s], ideal[s])
    /\ BufferInv

LEMMA StreamConstants ==
    /\ IsFiniteSet(Leaf) /\ IsFiniteSet(Left) /\ IsFiniteSet(SomSlot)
    /\ HistoryRequired \in Nat /\ AnchoredDistance \in Nat /\ U32 \in Nat /\ MaxOffset \in Nat
    /\ U32 > HistoryRequired
  BY CompressAssumption DEF Compress!StreamAssumption, Compress!IsFiniteSet, IsFiniteSet

Plain == {"offset", "state", "leaf", "left", "anchor", "vectors", "somWritable", "somValid"}

\* The locations of a stream, and which of them the scanner reads.
LEMMA Locations ==
    /\ \A n \in Plain : <<n>> \in Compress!Loc
    /\ \A i \in 1 .. HistoryRequired : <<"history", i>> \in Compress!Loc
    /\ \A q \in Leaf \cup Left : <<"engine", q>> \in Compress!Loc
    /\ \A q \in Left : <<"lag", q>> \in Compress!Loc
    /\ \A v \in SomSlot : <<"som", v>> \in Compress!Loc
    /\ \A l \in Compress!Loc :
          \/ \E n \in Plain : l = <<n>>
          \/ \E i \in 1 .. HistoryRequired : l = <<"history", i>>
          \/ \E q \in Leaf \cup Left : l = <<"engine", q>>
          \/ \E q \in Left : l = <<"lag", q>>
          \/ \E v \in SomSlot : l = <<"som", v>>
  BY DEF Compress!Loc, Compress!HistLoc, Plain

LEMMA AlwaysLive ==
    ASSUME NEW y, NEW n \in Plain, n # "anchor"
    PROVE  <<n>> \in Compress!Live(y)
  <1>1. <<n>> \in Compress!Loc
    BY Locations
  <1> QED  BY <1>1 DEF Compress!Live, Plain

LEMMA LiveIs ==
    ASSUME NEW y, NEW l \in Compress!Live(y)
    PROVE  /\ l \in Compress!Loc
           /\ \A i : l = <<"history", i>> => i > HistoryRequired - Compress!offset(y)
           /\ l = <<"anchor">> => Compress!offset(y) \in 1 .. AnchoredDistance - 1
           /\ \A q : l = <<"engine", q>> => q \in y[<<"leaf">>] \cup y[<<"left">>]
           /\ \A q : l = <<"lag", q>> => q \in y[<<"left">>]
           /\ \A v : l = <<"som", v>> => v \in y[<<"somValid">>]
  BY DEF Compress!Live, Compress!active

\* Streams that agree are laid out alike and have the same live locations.
LEMMA AgreeIs ==
    ASSUME NEW x, NEW y, Agree(x, y)
    PROVE  /\ \A n \in Plain \ {"anchor"} : x[<<n>>] = y[<<n>>]
           /\ Compress!offset(x) = Compress!offset(y) /\ Compress!source(x) = Compress!source(y)
           /\ Compress!active(x) = Compress!active(y)
           /\ Compress!Live(x) = Compress!Live(y)
           /\ Typed(y) => Typed(x)
  <1>1. \A n \in Plain \ {"anchor"} : x[<<n>>] = y[<<n>>]
    BY AlwaysLive DEF Agree
  <1>2. /\ x[<<"offset">>] = y[<<"offset">>] /\ x[<<"state">>] = y[<<"state">>]
        /\ x[<<"leaf">>] = y[<<"leaf">>] /\ x[<<"left">>] = y[<<"left">>]
        /\ x[<<"somValid">>] = y[<<"somValid">>]
    BY <1>1 DEF Plain
  <1>3. /\ Compress!offset(x) = Compress!offset(y) /\ Compress!source(x) = Compress!source(y)
        /\ Compress!active(x) = Compress!active(y)
    BY <1>2 DEF Compress!offset, Compress!source, Compress!active
  <1>4. Compress!Live(x) = Compress!Live(y)
    BY <1>2, <1>3 DEF Compress!Live
  <1>5. Typed(y) => Typed(x)
    BY <1>2, <1>3 DEF Typed
  <1> QED  BY <1>1, <1>3, <1>4, <1>5

----------------------------------------------------------------------------
(* The layout *)

Layout(x) == Compress!Head1 \o Compress!Body(x) \o Compress!SomValues(x)
Has(layout, l) == \E i \in DOMAIN layout : layout[i] = l

LEMMA HasEither ==
    ASSUME NEW S, NEW a \in Seq(S), NEW b \in Seq(S), NEW l
    PROVE  /\ a \o b \in Seq(S)
           /\ Has(a \o b, l) <=> Has(a, l) \/ Has(b, l)
  <1>1. ASSUME Has(a, l) PROVE Has(a \o b, l)
    <2>1. PICK i \in 1 .. Len(a) : a[i] = l
      BY <1>1 DEF Has
    <2>2. (a \o b)[i] = l /\ i \in DOMAIN (a \o b)
      BY <2>1
    <2> QED  BY <2>2 DEF Has
  <1>2. ASSUME Has(b, l) PROVE Has(a \o b, l)
    <2>1. PICK i \in 1 .. Len(b) : b[i] = l
      BY <1>2 DEF Has
    <2>2. (a \o b)[Len(a) + i] = l /\ Len(a) + i \in DOMAIN (a \o b)
      BY <2>1
    <2> QED  BY <2>2 DEF Has
  <1>3. ASSUME Has(a \o b, l) PROVE Has(a, l) \/ Has(b, l)
    <2>1. PICK i \in 1 .. Len(a) + Len(b) : (a \o b)[i] = l
      BY <1>3 DEF Has
    <2>2. CASE i <= Len(a)
      <3>1. a[i] = l /\ i \in DOMAIN a
        BY <2>1, <2>2
      <3> QED  BY <3>1 DEF Has
    <2>3. CASE i > Len(a)
      <3>1. b[i - Len(a)] = l /\ i - Len(a) \in DOMAIN b
        BY <2>1, <2>3
      <3> QED  BY <3>1 DEF Has
    <2> QED  BY <2>1, <2>2, <2>3
  <1> QED  BY <1>1, <1>2, <1>3

\* SetToSeq lists a finite set.
LEMMA Listed ==
    ASSUME NEW S, IsFiniteSet(S)
    PROVE  /\ Compress!Cardinality(S) \in Nat
           /\ Compress!SetToSeq(S) \in [1 .. Compress!Cardinality(S) -> S]
           /\ \A x \in S : \E i \in 1 .. Compress!Cardinality(S) : Compress!SetToSeq(S)[i] = x
  <1>0. Compress!Cardinality(S) = Cardinality(S)
    BY DEF Compress!Cardinality, Cardinality
  <1>1. Cardinality(S) \in Nat /\ ExistsBijection(1 .. Cardinality(S), S)
    BY FS_CardinalityType
  <1>2. PICK g \in Bijection(1 .. Cardinality(S), S) : TRUE
    BY <1>1 DEF ExistsBijection
  <1>3. /\ g \in [1 .. Cardinality(S) -> S]
        /\ \A i, j \in 1 .. Cardinality(S) : g[i] = g[j] => i = j
    BY <1>2 DEF Bijection, Injection, IsInjective
  <1>4. Compress!IsInjective(g)
    BY <1>3 DEF Compress!IsInjective
  <1>5. PICK f : f = Compress!SetToSeq(S)
    OBVIOUS
  <1>6. f \in [1 .. Cardinality(S) -> S] /\ Compress!IsInjective(f)
    BY <1>0, <1>3, <1>4, <1>5 DEF Compress!SetToSeq
  <1>7. \A i, j \in 1 .. Cardinality(S) : f[i] = f[j] => i = j
    BY <1>6 DEF Compress!IsInjective
  <1>8. \A x \in S : \E i \in 1 .. Cardinality(S) : f[i] = x
    <2>1. f \in Injection(1 .. Cardinality(S), S)
      BY <1>6, <1>7 DEF Injection, IsInjective
    <2>2. IsFiniteSet(1 .. Cardinality(S)) /\ Cardinality(1 .. Cardinality(S)) = Cardinality(S)
      BY <1>1, FS_Interval
    <2>3. f \in Surjection(1 .. Cardinality(S), S)
      BY <1>1, <2>1, <2>2, FS_Injection
    <2> QED  BY <2>3 DEF Surjection
  <1> QED  BY <1>0, <1>1, <1>5, <1>6, <1>8

\* Each part of the layout names the locations it is for.
LEMMA EachIs ==
    ASSUME NEW f, NEW S, IsFiniteSet(S), \A q \in S : <<f, q>> \in Compress!Loc
    PROVE  /\ Compress!Each(f, S) \in Seq(Compress!Loc)
           /\ \A q \in S : Has(Compress!Each(f, S), <<f, q>>)
  <1> DEFINE n == Compress!Cardinality(S)
             e == Compress!SetToSeq(S)
  <1>1. n \in Nat /\ e \in [1 .. n -> S] /\ \A q \in S : \E i \in 1 .. n : e[i] = q
    BY Listed
  <1>2. Compress!Each(f, S) = [i \in 1 .. n |-> <<f, e[i]>>]
    BY DEF Compress!Each
  <1> HIDE DEF n, e
  <1>3. Compress!Each(f, S) \in Seq(Compress!Loc)
    BY <1>1, <1>2
  <1>4. ASSUME NEW q \in S PROVE Has(Compress!Each(f, S), <<f, q>>)
    <2>1. PICK i \in 1 .. n : e[i] = q
      BY <1>1
    <2> QED  BY <1>2, <2>1 DEF Has
  <1> QED  BY <1>3, <1>4

LEMMA LeftfixesIs ==
    ASSUME NEW x, x[<<"left">>] \subseteq Left
    PROVE  /\ Compress!Leftfixes(x) \in Seq(Compress!Loc)
           /\ \A q \in x[<<"left">>] : /\ Has(Compress!Leftfixes(x), <<"engine", q>>)
                                       /\ Has(Compress!Leftfixes(x), <<"lag", q>>)
  <1>0. PICK S : S = x[<<"left">>]
    OBVIOUS
  <1> DEFINE n == Compress!Cardinality(S)
             e == Compress!SetToSeq(S)
             name(i) == IF i % 2 = 1 THEN "engine" ELSE "lag"
  <1>1. n \in Nat /\ e \in [1 .. n -> S] /\ \A q \in S : \E i \in 1 .. n : e[i] = q
    BY <1>0, Listed, StreamConstants, FS_Subset
  <1>2. PICK layout : layout = Compress!Leftfixes(x)
    OBVIOUS
  <1>3. layout = [i \in 1 .. 2 * n |-> <<name(i), e[(i + 1) \div 2]>>]
    BY <1>0, <1>2 DEF Compress!Leftfixes
  <1> HIDE DEF n, e
  <1>4. ASSUME NEW i \in 1 .. 2 * n PROVE <<name(i), e[(i + 1) \div 2]>> \in Compress!Loc
    <2>1. (i + 1) \div 2 \in 1 .. n
      BY <1>1
    <2>2. e[(i + 1) \div 2] \in Left
      BY <1>0, <1>1, <2>1
    <2> QED  BY <2>2, Locations
  <1>5. layout \in Seq(Compress!Loc)
    <2>1. 2 * n \in Nat
      BY <1>1
    <2> QED  BY <1>3, <1>4, <2>1
  <1>6. ASSUME NEW q \in S PROVE Has(layout, <<"engine", q>>) /\ Has(layout, <<"lag", q>>)
    <2>1. PICK i \in 1 .. n : e[i] = q
      BY <1>1
    <2>2. /\ 2 * i - 1 \in 1 .. 2 * n /\ 2 * i \in 1 .. 2 * n
          /\ (2 * i - 1) % 2 = 1 /\ (2 * i) % 2 = 0
          /\ ((2 * i - 1) + 1) \div 2 = i /\ ((2 * i) + 1) \div 2 = i
      BY <1>1
    <2>3. layout[2 * i - 1] = <<"engine", q>> /\ layout[2 * i] = <<"lag", q>>
      BY <1>3, <2>1, <2>2
    <2>4. DOMAIN layout = 1 .. 2 * n
      BY <1>3
    <2> QED  BY <2>2, <2>3, <2>4 DEF Has
  <1> QED  BY <1>0, <1>2, <1>5, <1>6

LEMMA HistoryIs ==
    ASSUME NEW off \in Nat
    PROVE  /\ Compress!History(off) \in Seq(Compress!Loc)
           /\ off < U32 => \A i \in 1 .. HistoryRequired :
                 i > HistoryRequired - off => Has(Compress!History(off), <<"history", i>>)
  <1>1. PICK n : n = Compress!HistoryBytes(off)
    OBVIOUS
  <1>2. off % U32 \in Nat /\ (off < U32 => off % U32 = off)
    BY StreamConstants
  <1>3. n \in 0 .. HistoryRequired /\ (off < U32 => n = off \/ (n = HistoryRequired /\ off >= n))
    BY <1>1, <1>2, StreamConstants DEF Compress!HistoryBytes
  <1>4. Compress!History(off) = [i \in 1 .. n |-> <<"history", HistoryRequired - n + i>>]
    BY <1>1 DEF Compress!History
  <1>5. PICK layout : layout = Compress!History(off)
    OBVIOUS
  <1>6. ASSUME NEW i \in 1 .. n PROVE <<"history", HistoryRequired - n + i>> \in Compress!Loc
    <2>1. HistoryRequired - n + i \in 1 .. HistoryRequired
      BY <1>3, StreamConstants
    <2> QED  BY <2>1, Locations
  <1>7. layout \in Seq(Compress!Loc)
    BY <1>3, <1>4, <1>5, <1>6
  <1>8. ASSUME off < U32, NEW i \in 1 .. HistoryRequired, i > HistoryRequired - off
        PROVE  Has(layout, <<"history", i>>)
    <2>1. PICK j : j = i - (HistoryRequired - n)
      OBVIOUS
    <2>2. j \in 1 .. n /\ (HistoryRequired - n) + j = i
      BY <1>3, <1>8, <2>1, StreamConstants
    <2>3. layout[j] = <<"history", i>> /\ DOMAIN layout = 1 .. n
      BY <1>4, <1>5, <2>2
    <2> QED  BY <2>2, <2>3 DEF Has
  <1> QED  BY <1>5, <1>7, <1>8

\* The layout of a stream below 2^32 holds all the scanner will read.
LEMMA LayoutIs ==
    ASSUME NEW x, Typed(x)
    PROVE  /\ Compress!Head1 \in Seq(Compress!Loc) /\ Len(Compress!Head1) = 4
           /\ Compress!Body(x) \in Seq(Compress!Loc)
           /\ Compress!SomValues(x) \in Seq(Compress!Loc)
           /\ Has(Compress!Head1, <<"offset">>) /\ Has(Compress!Head1, <<"leaf">>)
           /\ Has(Compress!Head1, <<"left">>) /\ Has(Compress!Body(x), <<"somValid">>)
           /\ MaxOffset < U32 => \A l \in Compress!Live(x) : Has(Layout(x), l)
  <1> DEFINE loc == Compress!Loc
             head == Compress!Head1
             anchor == Compress!Anchor(Compress!offset(x))
             hist == Compress!History(Compress!offset(x))
             leaf == Compress!Each("engine", x[<<"leaf">>])
             left == Compress!Leftfixes(x)
             som == Compress!SomValues(x)
             vec == <<<<"vectors">>>>
             info == <<<<"somWritable">>, <<"somValid">>>>
  <1>1. /\ Compress!offset(x) \in Nat /\ Compress!offset(x) <= MaxOffset
        /\ x[<<"leaf">>] \subseteq Leaf /\ x[<<"left">>] \subseteq Left
        /\ x[<<"somValid">>] \subseteq SomSlot
    BY StreamConstants DEF Typed
  <1>2. \A n \in Plain : <<n>> \in loc
    BY Locations
  <1>3. /\ head \in Seq(loc) /\ Len(head) = 4
        /\ \A n \in {"offset", "state", "leaf", "left"} : Has(head, <<n>>)
    <2>1. PICK h : h = head
      OBVIOUS
    <2>2. h = <<<<"offset">>, <<"state">>, <<"leaf">>, <<"left">>>>
      BY <2>1 DEF Compress!Head1
    <2>3. /\ DOMAIN h = 1 .. 4 /\ h[1] = <<"offset">> /\ h[2] = <<"state">>
          /\ h[3] = <<"leaf">> /\ h[4] = <<"left">>
      BY <2>2
    <2>4. h \in Seq(loc) /\ Len(h) = 4
      BY <1>2, <2>2 DEF Plain
    <2>5. \A n \in {"offset", "state", "leaf", "left"} : Has(h, <<n>>)
      BY <2>3 DEF Has
    <2> QED  BY <2>1, <2>4, <2>5
  <1>4. anchor \in Seq(loc) /\ (Compress!offset(x) <= AnchoredDistance => Has(anchor, <<"anchor">>))
    BY <1>2 DEF Compress!Anchor, Compress!AnchorKept, Plain, Has
  <1>5. vec \in Seq(loc) /\ Has(vec, <<"vectors">>)
    BY <1>2 DEF Plain, Has
  <1>6. info \in Seq(loc) /\ Has(info, <<"somWritable">>) /\ Has(info, <<"somValid">>)
    <2>1. PICK h : h = info
      OBVIOUS
    <2>2. DOMAIN h = 1 .. 2 /\ h[1] = <<"somWritable">> /\ h[2] = <<"somValid">>
      BY <2>1
    <2> QED  BY <1>2, <2>1, <2>2 DEF Plain, Has
  <1>7. /\ hist \in Seq(loc)
        /\ Compress!offset(x) < U32 => \A i \in 1 .. HistoryRequired :
              i > HistoryRequired - Compress!offset(x) => Has(hist, <<"history", i>>)
    BY <1>1, HistoryIs
  <1>8. leaf \in Seq(loc) /\ \A q \in x[<<"leaf">>] : Has(leaf, <<"engine", q>>)
    BY <1>1, EachIs, StreamConstants, FS_Subset, Locations
  <1>9. /\ left \in Seq(loc)
        /\ \A q \in x[<<"left">>] : Has(left, <<"engine", q>>) /\ Has(left, <<"lag", q>>)
    BY <1>1, LeftfixesIs
  <1>10. som \in Seq(loc) /\ \A v \in x[<<"somValid">>] : Has(som, <<"som", v>>)
    BY <1>1, EachIs, StreamConstants, FS_Subset, Locations DEF Compress!SomValues
  <1>11. Compress!Body(x) = ((((anchor \o hist) \o vec) \o leaf) \o left) \o info
    BY DEF Compress!Body
  <1>12. Layout(x) = (head \o Compress!Body(x)) \o som
    BY DEF Layout
  <1> HIDE DEF loc, head, anchor, hist, leaf, left, som, vec, info
  <1>13. /\ Compress!Body(x) \in Seq(loc)
         /\ \A l : Has(Compress!Body(x), l) <=>
                \/ Has(anchor, l) \/ Has(hist, l) \/ Has(vec, l)
                \/ Has(leaf, l) \/ Has(left, l) \/ Has(info, l)
    <2>1. /\ anchor \o hist \in Seq(loc)
          /\ \A l : Has(anchor \o hist, l) <=> Has(anchor, l) \/ Has(hist, l)
      BY <1>4, <1>7, HasEither
    <2>2. /\ (anchor \o hist) \o vec \in Seq(loc)
          /\ \A l : Has((anchor \o hist) \o vec, l) <=> Has(anchor \o hist, l) \/ Has(vec, l)
      BY <1>5, <2>1, HasEither
    <2>3. PICK a : a = (anchor \o hist) \o vec
      OBVIOUS
    <2>4. a \o leaf \in Seq(loc) /\ \A l : Has(a \o leaf, l) <=> Has(a, l) \/ Has(leaf, l)
      <3>1. a \in Seq(loc) /\ leaf \in Seq(loc)
        BY <1>8, <2>2, <2>3
      <3> QED  BY ONLY <3>1, HasEither
    <2>5. /\ (a \o leaf) \o left \in Seq(loc)
          /\ \A l : Has((a \o leaf) \o left, l) <=> Has(a \o leaf, l) \/ Has(left, l)
      BY <1>9, <2>4, HasEither
    <2>6. PICK c : c = (a \o leaf) \o left
      OBVIOUS
    <2>7. c \o info \in Seq(loc) /\ \A l : Has(c \o info, l) <=> Has(c, l) \/ Has(info, l)
      <3>1. c \in Seq(loc) /\ info \in Seq(loc)
        BY <1>6, <2>5, <2>6
      <3> QED  BY ONLY <3>1, HasEither
    <2>8. Compress!Body(x) = c \o info
      BY <1>11, <2>3, <2>6
    <2> QED  BY <2>1, <2>2, <2>3, <2>4, <2>5, <2>6, <2>7, <2>8
  <1>14. \A l : Has(Layout(x), l) <=> Has(head, l) \/ Has(Compress!Body(x), l) \/ Has(som, l)
    <2>1. /\ head \o Compress!Body(x) \in Seq(loc)
          /\ \A l : Has(head \o Compress!Body(x), l) <=> Has(head, l) \/ Has(Compress!Body(x), l)
      BY <1>3, <1>13, HasEither
    <2>2. \A l : Has((head \o Compress!Body(x)) \o som, l)
                   <=> Has(head \o Compress!Body(x), l) \/ Has(som, l)
      BY <1>10, <2>1, HasEither
    <2> QED  BY <1>12, <2>1, <2>2
  <1>15. ASSUME MaxOffset < U32, NEW l \in Compress!Live(x) PROVE Has(Layout(x), l)
    <2>1. Compress!offset(x) < U32
      BY <1>1, <1>15, StreamConstants
    <2>2. /\ l \in Compress!Loc
          /\ \A i : l = <<"history", i>> => i > HistoryRequired - Compress!offset(x)
          /\ l = <<"anchor">> => Compress!offset(x) \in 1 .. AnchoredDistance - 1
          /\ \A q : l = <<"engine", q>> => q \in x[<<"leaf">>] \cup x[<<"left">>]
          /\ \A q : l = <<"lag", q>> => q \in x[<<"left">>]
          /\ \A v : l = <<"som", v>> => v \in x[<<"somValid">>]
      BY LiveIs
    <2>3. CASE \E n \in Plain : l = <<n>>
      <3>1. CASE l = <<"anchor">>
        <4>1. Compress!offset(x) <= AnchoredDistance
          BY <1>1, <2>2, <3>1, StreamConstants
        <4> QED  BY <1>4, <1>13, <1>14, <3>1, <4>1
      <3>2. CASE l # <<"anchor">>
        <4>1. \/ \E n \in {"offset", "state", "leaf", "left"} : l = <<n>>
              \/ l = <<"vectors">> \/ l = <<"somWritable">> \/ l = <<"somValid">>
          BY <2>3, <3>2 DEF Plain
        <4> QED  BY <1>3, <1>5, <1>6, <1>13, <1>14, <4>1
      <3> QED  BY <3>1, <3>2
    <2>4. CASE \E i \in 1 .. HistoryRequired : l = <<"history", i>>
      BY <1>7, <1>13, <1>14, <2>1, <2>2, <2>4
    <2>5. CASE \E q \in Leaf \cup Left : l = <<"engine", q>>
      BY <1>8, <1>9, <1>13, <1>14, <2>2, <2>5
    <2>6. CASE \E q \in Left : l = <<"lag", q>>
      BY <1>9, <1>13, <1>14, <2>2, <2>6
    <2>7. CASE \E v \in SomSlot : l = <<"som", v>>
      BY <1>10, <1>14, <2>2, <2>7
    <2> QED  BY <2>2, <2>3, <2>4, <2>5, <2>6, <2>7, Locations
  <1> QED  BY <1>3, <1>6, <1>10, <1>13, <1>15 DEF loc, head, som

----------------------------------------------------------------------------
(* Expanding what was compressed                                           *)

\* Values that were read at the locations of a layout go back to them.
LEMMA FillIs ==
    ASSUME NEW x, NEW layout, NEW values, NEW y,
           \A i \in DOMAIN layout : values[i] = y[layout[i]]
    PROVE  \A l \in Compress!Loc :
              Compress!Fill(x, layout, values)[l] = IF Has(layout, l) THEN y[l] ELSE x[l]
  <1> TAKE l \in Compress!Loc
  <1>1. CASE Has(layout, l)
    <2>1. PICK i : i = CHOOSE j \in DOMAIN layout : layout[j] = l
      OBVIOUS
    <2>2. i \in DOMAIN layout /\ layout[i] = l
      BY <1>1, <2>1 DEF Has
    <2>3. Compress!Fill(x, layout, values)[l] = values[i]
      BY <1>1, <2>1 DEF Compress!Fill, Has
    <2> QED  BY <1>1, <2>2, <2>3
  <1>2. CASE ~Has(layout, l)
    BY <1>2 DEF Compress!Fill, Has
  <1> QED  BY <1>1, <1>2

LEMMA DropIs ==
    ASSUME NEW S, NEW T, NEW a \in Seq(S), NEW b \in Seq(S), NEW v \in Seq(T),
           Len(v) = Len(a) + Len(b)
    PROVE  /\ Compress!Drop(v, Len(a)) \in Seq(T)
           /\ Len(Compress!Drop(v, Len(a))) = Len(b)
           /\ \A i \in DOMAIN b : Compress!Drop(v, Len(a))[i] = v[Len(a) + i]
  BY DEF Compress!Drop

\* Expanding gives every location of the layout its value and leaves the
\* others as they were.
LEMMA ExpandIs ==
    ASSUME NEW x, NEW y, Typed(y)
    PROVE  \A l \in Compress!Loc : Has(Layout(y), l) =>
              Compress!sc_expand(x, Compress!sc_compress(y))[l] = y[l]
  <1> DEFINE loc == Compress!Loc
             head == Compress!Head1
             body == Compress!Body(y)
             som == Compress!SomValues(y)
             T == {y[l] : l \in loc}
  <1>1. PICK b : b = Compress!sc_compress(y)
    OBVIOUS
  <1>2. /\ head \in Seq(loc) /\ body \in Seq(loc) /\ som \in Seq(loc)
        /\ Has(head, <<"offset">>) /\ Has(head, <<"leaf">>) /\ Has(head, <<"left">>)
        /\ Has(body, <<"somValid">>)
    BY LayoutIs
  <1>3. PICK layout : layout = Layout(y)
    OBVIOUS
  <1>4. /\ layout = (head \o body) \o som /\ layout \in Seq(loc)
        /\ b = [i \in DOMAIN layout |-> y[layout[i]]]
    BY <1>1, <1>2, <1>3 DEF Layout, Compress!sc_compress
  <1>5. b \in Seq(T) /\ Len(b) = Len(head) + (Len(body) + Len(som))
    BY <1>2, <1>4
  <1> HIDE DEF loc, head, body, som, T
  <1>6. /\ \A i \in DOMAIN head : b[i] = y[head[i]]
        /\ \A i \in DOMAIN body : b[Len(head) + i] = y[body[i]]
        /\ \A i \in DOMAIN som : b[(Len(head) + Len(body)) + i] = y[som[i]]
    <2>1. ASSUME NEW i \in DOMAIN head PROVE b[i] = y[head[i]]
      <3>1. i \in DOMAIN layout /\ layout[i] = head[i]
        BY <1>2, <1>4
      <3> QED  BY <1>4, <3>1
    <2>2. ASSUME NEW i \in DOMAIN body PROVE b[Len(head) + i] = y[body[i]]
      <3>1. Len(head) + i \in DOMAIN layout /\ layout[Len(head) + i] = body[i]
        BY <1>2, <1>4
      <3> QED  BY <1>4, <3>1
    <2>3. ASSUME NEW i \in DOMAIN som PROVE b[(Len(head) + Len(body)) + i] = y[som[i]]
      <3>1. /\ (Len(head) + Len(body)) + i \in DOMAIN layout
            /\ layout[(Len(head) + Len(body)) + i] = som[i]
        BY <1>2, <1>4
      <3> QED  BY <1>4, <3>1
    <2> QED  BY <2>1, <2>2, <2>3
  <1>7. PICK h : h = Compress!Fill(x, head, b)
    OBVIOUS
  <1>8. \A l \in loc : h[l] = IF Has(head, l) THEN y[l] ELSE x[l]
    BY <1>6, <1>7, FillIs DEF loc
  <1>9. Compress!Body(h) = body
    <2>1. <<"offset">> \in loc /\ <<"leaf">> \in loc /\ <<"left">> \in loc
      BY Locations DEF Plain, loc
    <2>2. /\ h[<<"offset">>] = y[<<"offset">>] /\ h[<<"leaf">>] = y[<<"leaf">>]
          /\ h[<<"left">>] = y[<<"left">>]
      BY <1>2, <1>8, <2>1
    <2> QED  BY <2>2 DEF body, Compress!Body, Compress!offset, Compress!Leftfixes
  <1>10. PICK r : r = Compress!Drop(b, Len(head))
    OBVIOUS
  <1>11. PICK rest : rest = body \o som
    OBVIOUS
  <1>12. /\ rest \in Seq(loc) /\ Len(rest) = Len(body) + Len(som)
         /\ \A i \in DOMAIN body : i \in DOMAIN rest
         /\ \A i \in DOMAIN som : Len(body) + i \in DOMAIN rest
    BY <1>2, <1>11
  <1>13. /\ r \in Seq(T) /\ Len(r) = Len(body) + Len(som)
         /\ \A i \in DOMAIN rest : r[i] = b[Len(head) + i]
    <2>1. Len(b) = Len(head) + Len(rest)
      BY <1>5, <1>12
    <2>2. head \in Seq(loc) /\ rest \in Seq(loc) /\ b \in Seq(T)
      BY <1>2, <1>5, <1>12
    <2>3. /\ Compress!Drop(b, Len(head)) \in Seq(T)
          /\ Len(Compress!Drop(b, Len(head))) = Len(rest)
          /\ \A i \in DOMAIN rest : Compress!Drop(b, Len(head))[i] = b[Len(head) + i]
      BY ONLY <2>1, <2>2, DropIs
    <2> QED  BY <1>10, <1>12, <2>3
  <1>14. \A i \in DOMAIN body : r[i] = y[body[i]]
    BY <1>6, <1>12, <1>13
  <1>15. PICK g : g = Compress!Fill(h, body, r)
    OBVIOUS
  <1>16. \A l \in loc : g[l] = IF Has(body, l) THEN y[l] ELSE h[l]
    BY <1>14, <1>15, FillIs DEF loc
  <1>17. Compress!SomValues(g) = som
    <2>1. <<"somValid">> \in loc
      BY Locations DEF Plain, loc
    <2>2. g[<<"somValid">>] = y[<<"somValid">>]
      BY <1>2, <1>16, <2>1
    <2> QED  BY <2>2 DEF som, Compress!SomValues
  <1>18. PICK z : z = Compress!Drop(r, Len(body))
    OBVIOUS
  <1>19. \A i \in DOMAIN som : z[i] = r[Len(body) + i]
    BY <1>2, <1>13, <1>18, DropIs
  <1>20. \A i \in DOMAIN som : z[i] = y[som[i]]
    <2>1. ASSUME NEW i \in DOMAIN som PROVE z[i] = y[som[i]]
      <3>1. z[i] = b[Len(head) + (Len(body) + i)]
        BY <1>12, <1>13, <1>19
      <3>2. Len(head) + (Len(body) + i) = (Len(head) + Len(body)) + i
        BY <1>2
      <3> QED  BY <1>6, <3>1, <3>2
    <2> QED  BY <2>1
  <1>21. PICK e : e = Compress!Fill(g, som, z)
    OBVIOUS
  <1>22. \A l \in loc : e[l] = IF Has(som, l) THEN y[l] ELSE g[l]
    BY <1>20, <1>21, FillIs DEF loc
  <1>23. e = Compress!sc_expand(x, b)
    BY <1>7, <1>9, <1>10, <1>15, <1>17, <1>18, <1>21 DEF Compress!sc_expand, head
  <1>24. ASSUME NEW l \in loc, Has(layout, l) PROVE e[l] = y[l]
    <2>1. Has(head, l) \/ Has(body, l) \/ Has(som, l)
      <3>1. head \o body \in Seq(loc) /\ (Has(head \o body, l) <=> Has(head, l) \/ Has(body, l))
        BY <1>2, HasEither
      <3>2. PICK hb : hb = head \o body
        OBVIOUS
      <3>3. hb \in Seq(loc) /\ som \in Seq(loc) /\ layout = hb \o som
        BY <1>2, <1>4, <3>1, <3>2
      <3>4. Has(hb \o som, l) <=> Has(hb, l) \/ Has(som, l)
        BY ONLY <3>3, HasEither
      <3> QED  BY <1>24, <3>1, <3>2, <3>3, <3>4
    <2> QED  BY <1>8, <1>16, <1>22, <2>1
  <1> QED  BY <1>1, <1>3, <1>23, <1>24 DEF loc

----------------------------------------------------------------------------
(* The actions                                                             *)

\* A write reads nothing but what is live.
LEMMA ScannedIs ==
    ASSUME NEW x, NEW y, Typed(y), Agree(x, y), Compress!offset(y) < MaxOffset,
           NEW leaf \in SUBSET Leaf, NEW left \in SUBSET Left, NEW slots \in SUBSET SomSlot
    PROVE  /\ Typed(Compress!Scanned(y, leaf, left, slots))
           /\ Agree(Compress!Scanned(x, leaf, left, slots), Compress!Scanned(y, leaf, left, slots))
  <1> DEFINE loc == Compress!Loc
             new(w) == (leaf \cup left) \ Compress!active(w)
             byte(w) == Compress!Byte(Compress!source(w), Compress!offset(w) + 1)
             value(w, l) ==
                CASE l[1] = "offset" -> Compress!offset(w) + 1
                  [] l[1] \in {"state", "vectors"} -> byte(w)
                  [] l[1] = "anchor" -> IF Compress!offset(w) = 0 THEN byte(w) ELSE w[l]
                  [] l[1] = "history" -> IF l[2] = HistoryRequired THEN byte(w)
                                         ELSE w[<<"history", l[2] + 1>>]
                  [] l[1] \in {"engine", "lag"} -> IF l[2] \in new(w) THEN byte(w) ELSE w[l]
                  [] l[1] = "som" -> IF l[2] \in slots THEN byte(w) ELSE w[l]
                  [] l[1] = "somValid" -> w[l] \cup slots
                  [] l[1] = "somWritable" -> w[l] \ slots
                  [] OTHER -> w[l]
             after(w) == Compress!Scanned(w, leaf, left, slots)
  <1>1. ASSUME NEW w
        PROVE  /\ DOMAIN after(w) = loc
               /\ after(w)[<<"leaf">>] = leaf /\ after(w)[<<"left">>] = left
               /\ \A l \in loc : l # <<"leaf">> /\ l # <<"left">> => after(w)[l] = value(w, l)
    <2>1. PICK v : v = [l \in loc |-> value(w, l)]
      OBVIOUS
    <2>2. after(w) = [v EXCEPT ![<<"leaf">>] = leaf, ![<<"left">>] = left]
      BY <2>1 DEF Compress!Scanned, Compress!Active
    <2>3. <<"leaf">> \in loc /\ <<"left">> \in loc
      BY Locations DEF Plain
    <2>4. DOMAIN v = loc /\ \A l \in loc : v[l] = value(w, l)
      BY <2>1
    <2> HIDE DEF loc, value, after
    <2> QED  BY <2>2, <2>3, <2>4
  <1>2. PICK x2, y2 : x2 = after(x) /\ y2 = after(y)
    OBVIOUS
  <1>3. /\ \A n \in Plain \ {"anchor"} : x[<<n>>] = y[<<n>>]
        /\ Compress!offset(x) = Compress!offset(y)
        /\ byte(x) = byte(y) /\ new(x) = new(y)
    BY AgreeIs
  <1>4. /\ Compress!offset(y2) = Compress!offset(y) + 1
        /\ y2[<<"leaf">>] = leaf /\ y2[<<"left">>] = left
        /\ y2[<<"somValid">>] = y[<<"somValid">>] \cup slots
    <2>1. <<"offset">> \in loc /\ <<"somValid">> \in loc
      BY Locations DEF Plain
    <2>2. /\ value(y, <<"offset">>) = Compress!offset(y) + 1
          /\ value(y, <<"somValid">>) = y[<<"somValid">>] \cup slots
      OBVIOUS
    <2> HIDE DEF loc, value, after
    <2> QED  BY <1>1, <1>2, <2>1, <2>2 DEF Compress!offset
  <1>5. Typed(y2)
    BY <1>4, StreamConstants DEF Typed
  <1>6. ASSUME NEW l \in Compress!Live(y2) PROVE x2[l] = y2[l]
    <2>1. /\ l \in loc
          /\ \A i : l = <<"history", i>> => i > HistoryRequired - (Compress!offset(y) + 1)
          /\ l = <<"anchor">> => Compress!offset(y) + 1 \in 1 .. AnchoredDistance - 1
          /\ \A q : l = <<"engine", q>> => q \in leaf \cup left
          /\ \A q : l = <<"lag", q>> => q \in left
          /\ \A v : l = <<"som", v>> => v \in y[<<"somValid">>] \cup slots
      BY <1>4, LiveIs
    <2>2. CASE l = <<"leaf">> \/ l = <<"left">>
      BY <1>1, <1>2, <2>2
    <2>3. ASSUME l # <<"leaf">>, l # <<"left">> PROVE value(x, l) = value(y, l)
      <3>0. Compress!offset(y) \in Nat
        BY StreamConstants DEF Typed
      <3>1. CASE \E n \in Plain : l = <<n>>
        <4>1. CASE l = <<"anchor">>
          <5>1. CASE Compress!offset(y) = 0
            BY <1>3, <4>1, <5>1
          <5>2. CASE Compress!offset(y) # 0
            <6>1. Compress!offset(y) \in 1 .. AnchoredDistance - 1
              BY <2>1, <3>0, <4>1, <5>2, StreamConstants
            <6>2. l \in Compress!Live(y)
              BY <2>1, <4>1, <6>1 DEF Compress!Live
            <6> QED  BY <1>3, <4>1, <5>2, <6>2 DEF Agree
          <5> QED  BY <5>1, <5>2
        <4>2. CASE l # <<"anchor">>
          <5>1. PICK n \in Plain \ {"anchor", "leaf", "left"} : l = <<n>>
            BY <2>3, <3>1, <4>2
          <5>2. x[l] = y[l] /\ l[1] = n
            BY <1>3, <5>1
          <5> QED  BY <1>3, <5>1, <5>2 DEF Plain
        <4> QED  BY <4>1, <4>2
      <3>2. CASE \E i \in 1 .. HistoryRequired : l = <<"history", i>>
        <4>1. PICK i \in 1 .. HistoryRequired : l = <<"history", i>>
          BY <3>2
        <4>2. i > HistoryRequired - (Compress!offset(y) + 1) /\ l[1] = "history" /\ l[2] = i
          BY <2>1, <4>1
        <4>3. CASE i = HistoryRequired
          BY <1>3, <4>2, <4>3
        <4>4. CASE i # HistoryRequired
          <5>1. i + 1 \in 1 .. HistoryRequired /\ i + 1 > HistoryRequired - Compress!offset(y)
            BY <3>0, <4>2, <4>4, StreamConstants
          <5>2. <<"history", i + 1>> \in loc
            BY <5>1, Locations
          <5>3. <<"history", i + 1>> \in Compress!Live(y)
            BY <5>1, <5>2 DEF Compress!Live
          <5>4. x[<<"history", i + 1>>] = y[<<"history", i + 1>>]
            BY <5>3 DEF Agree
          <5> QED  BY <4>2, <4>4, <5>4
        <4> QED  BY <4>3, <4>4
      <3>3. CASE \E q \in Leaf \cup Left : l = <<"engine", q>>
        <4>1. PICK q \in Leaf \cup Left : l = <<"engine", q>>
          BY <3>3
        <4>2. l[1] = "engine" /\ l[2] = q /\ q \in leaf \cup left
          BY <2>1, <4>1
        <4>3. CASE q \in new(y)
          BY <1>3, <4>2, <4>3
        <4>4. CASE q \notin new(y)
          <5>1. l \in Compress!Live(y)
            BY <2>1, <4>1, <4>2, <4>4 DEF Compress!Live
          <5> QED  BY <1>3, <4>2, <4>4, <5>1 DEF Agree
        <4> QED  BY <4>3, <4>4
      <3>4. CASE \E q \in Left : l = <<"lag", q>>
        <4>1. PICK q \in Left : l = <<"lag", q>>
          BY <3>4
        <4>2. l[1] = "lag" /\ l[2] = q /\ q \in left
          BY <2>1, <4>1
        <4>3. CASE q \in new(y)
          BY <1>3, <4>2, <4>3
        <4>4. CASE q \notin new(y)
          <5>0. q \in y[<<"left">>]
            BY <4>2, <4>4, CompressAssumption
               DEF Typed, Compress!active, Compress!StreamAssumption
          <5>1. l \in Compress!Live(y)
            BY <2>1, <4>1, <4>2, <5>0 DEF Compress!Live
          <5> QED  BY <1>3, <4>2, <4>4, <5>1 DEF Agree
        <4> QED  BY <4>3, <4>4
      <3>5. CASE \E v \in SomSlot : l = <<"som", v>>
        <4>1. PICK v \in SomSlot : l = <<"som", v>>
          BY <3>5
        <4>2. l[1] = "som" /\ l[2] = v /\ v \in y[<<"somValid">>] \cup slots
          BY <2>1, <4>1
        <4>3. CASE v \in slots
          BY <1>3, <4>2, <4>3
        <4>4. CASE v \notin slots
          <5>1. l \in Compress!Live(y)
            BY <2>1, <4>1, <4>2, <4>4 DEF Compress!Live
          <5> QED  BY <4>2, <4>4, <5>1 DEF Agree
        <4> QED  BY <4>3, <4>4
      <3> QED  BY <2>1, <3>1, <3>2, <3>3, <3>4, <3>5, Locations
    <2> HIDE DEF loc, value, after
    <2> QED  BY <1>1, <1>2, <2>1, <2>2, <2>3
  <1> QED  BY <1>1, <1>2, <1>5, <1>6 DEF Agree

LEMMA CompressInit == Compress!Init => CompressInv
  <1> SUFFICES ASSUME Compress!Init PROVE CompressInv
    OBVIOUS
  <1> QED  BY DEF Compress!Init, CompressInv, BufferInv, Compress!Freed

\* The buffer expanded, over whatever stream, agrees with its origin.
LEMMA Expanded ==
    ASSUME MaxOffset < U32, BufferInv, buf # <<>>, NEW x
    PROVE  /\ Typed(bufOf)
           /\ Agree(Compress!sc_expand(x, buf), bufOf)
  <1>1. Typed(bufOf)
    BY DEF BufferInv
  <1>2. PICK y : Agree(y, bufOf) /\ buf = Compress!sc_compress(y)
    BY DEF BufferInv
  <1>3. Typed(y) /\ Compress!Live(y) = Compress!Live(bufOf)
    BY <1>1, <1>2, AgreeIs
  <1>4. \A l \in Compress!Loc : Has(Layout(y), l) => Compress!sc_expand(x, buf)[l] = y[l]
    BY <1>2, <1>3, ExpandIs
  <1>5. \A l \in Compress!Live(y) : l \in Compress!Loc /\ Has(Layout(y), l)
    BY <1>3, LayoutIs, LiveIs
  <1> QED  BY <1>1, <1>2, <1>3, <1>4, <1>5 DEF Agree

LEMMA CompressStep ==
    ASSUME MaxOffset < U32, CompressInv, [Compress!Next]_streams
    PROVE  CompressInv'
  <1> USE DEF CompressInv
  <1>1. ASSUME NEW s \in Streams, Compress!hs_open_stream(s) PROVE CompressInv'
    <2>1. PICK src \in Source :
             /\ st' = [st EXCEPT ![s] = Compress!init_stream(src)]
             /\ ideal' = [ideal EXCEPT ![s] = Compress!init_stream(src)]
      BY <1>1 DEF Compress!hs_open_stream
    <2>2. open' = open \cup {s} /\ UNCHANGED <<buf, bufOf>>
      BY <1>1 DEF Compress!hs_open_stream
    <2>3. PICK x : x = Compress!init_stream(src)
      OBVIOUS
    <2>4. Typed(x)
      <3>1. /\ <<"offset">> \in Compress!Loc /\ <<"leaf">> \in Compress!Loc
            /\ <<"left">> \in Compress!Loc /\ <<"somValid">> \in Compress!Loc
        BY Locations DEF Plain
      <3>2. /\ x[<<"offset">>] = 0 /\ x[<<"leaf">>] = {} /\ x[<<"left">>] = {}
            /\ x[<<"somValid">>] = {}
        BY <2>3, <3>1 DEF Compress!init_stream, Compress!Freed, Compress!Nothing
      <3> QED  BY <3>2, StreamConstants DEF Typed, Compress!offset
    <2>5. Agree(x, x)
      BY DEF Agree
    <2>6. BufferInv'
      BY <2>2 DEF BufferInv
    <2> QED  BY <2>1, <2>2, <2>3, <2>4, <2>5, <2>6
  <1>2. ASSUME NEW s \in Streams, Compress!Write(s) PROVE CompressInv'
    <2>1. PICK leaf \in SUBSET Leaf, left \in SUBSET Left, slots \in SUBSET SomSlot :
             /\ st' = [st EXCEPT ![s] = Compress!Scanned(@, leaf, left, slots)]
             /\ ideal' = [ideal EXCEPT ![s] = Compress!Scanned(@, leaf, left, slots)]
      BY <1>2 DEF Compress!Write
    <2>2. s \in open /\ Compress!offset(st[s]) < MaxOffset /\ UNCHANGED <<open, buf, bufOf>>
      BY <1>2 DEF Compress!Write
    <2>3. PICK x, y : x = st[s] /\ y = ideal[s]
      OBVIOUS
    <2>4. Typed(y) /\ Agree(x, y)
      BY <2>2, <2>3
    <2>5. Compress!offset(y) < MaxOffset
      BY <2>2, <2>3, <2>4, AgreeIs
    <2>6. PICK x2, y2 : /\ x2 = Compress!Scanned(x, leaf, left, slots)
                        /\ y2 = Compress!Scanned(y, leaf, left, slots)
      OBVIOUS
    <2>7. Typed(y2) /\ Agree(x2, y2)
      BY <2>4, <2>5, <2>6, ScannedIs
    <2>8. st' = [st EXCEPT ![s] = x2] /\ ideal' = [ideal EXCEPT ![s] = y2]
      BY <2>1, <2>3, <2>6
    <2>9. BufferInv'
      BY <2>2 DEF BufferInv
    <2> QED  BY <2>2, <2>7, <2>8, <2>9
  <1>3. ASSUME NEW s \in Streams, Compress!hs_compress_stream(s) PROVE CompressInv'
    <2>1. /\ s \in open /\ buf' = Compress!sc_compress(st[s]) /\ bufOf' = ideal[s]
          /\ UNCHANGED <<st, open, ideal>>
      BY <1>3 DEF Compress!hs_compress_stream
    <2>2. BufferInv'
      BY <2>1 DEF BufferInv
    <2> QED  BY <2>1, <2>2
  <1>4. ASSUME NEW s \in Streams, Compress!hs_expand_stream(s) PROVE CompressInv'
    <2>1. /\ buf # <<>> /\ open' = open \cup {s}
          /\ st' = [st EXCEPT ![s] = Compress!sc_expand(Compress!Freed, buf)]
          /\ ideal' = [ideal EXCEPT ![s] = bufOf] /\ UNCHANGED <<buf, bufOf>>
      BY <1>4 DEF Compress!hs_expand_stream
    <2>2. PICK x : x = Compress!sc_expand(Compress!Freed, buf)
      OBVIOUS
    <2>3. Typed(bufOf) /\ Agree(x, bufOf)
      BY <2>1, <2>2, Expanded
    <2>4. BufferInv'
      BY <2>1 DEF BufferInv
    <2> QED  BY <2>1, <2>2, <2>3, <2>4
  <1>5. ASSUME NEW s \in Streams, Compress!hs_reset_and_expand_stream(s) PROVE CompressInv'
    <2>1. /\ buf # <<>> /\ s \in open
          /\ st' = [st EXCEPT ![s] = Compress!sc_expand(@, buf)]
          /\ ideal' = [ideal EXCEPT ![s] = bufOf] /\ UNCHANGED <<open, buf, bufOf>>
      BY <1>5 DEF Compress!hs_reset_and_expand_stream
    <2>2. PICK x : x = Compress!sc_expand(st[s], buf)
      OBVIOUS
    <2>3. Typed(bufOf) /\ Agree(x, bufOf)
      BY <2>1, <2>2, Expanded
    <2>4. BufferInv'
      BY <2>1 DEF BufferInv
    <2> QED  BY <2>1, <2>2, <2>3, <2>4
  <1>6. ASSUME NEW s \in Streams, Compress!hs_close_stream(s) PROVE CompressInv'
    <2>1. /\ open' = open \ {s} /\ UNCHANGED <<buf, bufOf>>
          /\ st' = [st EXCEPT ![s] = Compress!Freed]
          /\ ideal' = [ideal EXCEPT ![s] = Compress!Freed]
      BY <1>6 DEF Compress!hs_close_stream
    <2>2. PICK x : x = Compress!Freed
      OBVIOUS
    <2>3. BufferInv'
      BY <2>1 DEF BufferInv
    <2> QED  BY <2>1, <2>2, <2>3
  <1>7. CASE UNCHANGED streams
    BY <1>7 DEF streams, BufferInv
  <1> QED  BY <1>1, <1>2, <1>3, <1>4, <1>5, <1>6, <1>7 DEF Compress!Next

\* A stream that went through compression, any number of times and on top of
\* whatever stream, is to the scanner what the original was, as long as no
\* stream reaches 2^32 bytes (sc_compress and sc_expand of
\* stream_compress_impl.h; beyond, COPY_DATA takes a narrowed offset).
THEOREM ExpandsAsCopied ==
    ASSUME MaxOffset < U32
    PROVE  ObjectsSpec => []ExpandedAsCopied
  <1>1. ObjectsInit => CompressInv
    BY CompressInit DEF ObjectsInit
  <1>2. CompressInv /\ [ObjectsNext]_<<used, vars, streams, chimeraVars>> => CompressInv'
    BY CompressStep DEF ObjectsNext
  <1>3. CompressInv => ExpandedAsCopied
    BY DEF CompressInv, ExpandedAsCopied, Compress!ExpandedAsCopied, Agree
  <1> QED  BY <1>1, <1>2, <1>3, PTL DEF ObjectsSpec

----------------------------------------------------------------------------
(* Chimera *)

\* The order induction is over, as a set of pairs.
Below == {ss \in Nat \X Nat : ss[1] < ss[2]}

\* A set of numbers that is not empty has a least one.
LEMMA MinIs ==
    ASSUME NEW T, T \subseteq Nat, T # {}
    PROVE  Min(T) \in T /\ \A y \in T : Min(T) <= y
  <1>1. IsWellFoundedOn(Below, Nat)
    BY NatLessThanWellFounded, Zenon DEF OpToRel, Below
  <1>2. PICK x \in T : \A y \in T : ~ (<<y, x>> \in Below)
    BY <1>1, WFMin, Zenon
  <1>3. ASSUME NEW y \in T PROVE x <= y
    <2>1. x \in Nat /\ y \in Nat OBVIOUS
    <2>2. <<y, x>> \in Nat \X Nat /\ <<y, x>>[1] = y /\ <<y, x>>[2] = x  BY <2>1
    <2>3. y < x => <<y, x>> \in Below  BY <2>2 DEF Below
    <2> QED BY <1>2, <2>1, <2>3
  <1> QED BY <1>3 DEF Min

\* A bounded set of numbers that is not empty has a greatest one.
LEMMA MaxIs ==
    ASSUME NEW n \in Nat, NEW T, T \subseteq 0 .. n, T # {}
    PROVE  Max(T) \in T /\ \A y \in T : y <= Max(T)
  <1> DEFINE U == {n - y : y \in T}
  <1>1. U \subseteq Nat /\ U # {}
    <2>1. \A y \in T : n - y \in Nat  OBVIOUS
    <2> QED  BY <2>1
  <1>2. PICK m \in U : \A u \in U : m <= u
    <2> HIDE DEF U
    <2> QED  BY <1>1, MinIs
  <1>3. PICK x \in T : m = n - x  BY <1>2
  <1>4. \A y \in T : y <= x
    <2> SUFFICES ASSUME NEW y \in T PROVE y <= x  OBVIOUS
    <2>1. n - y \in U  OBVIOUS
    <2>2. n - x <= n - y  BY <1>2, <1>3, <2>1
    <2>3. x \in Nat /\ y \in Nat  OBVIOUS
    <2> QED  BY <2>2, <2>3
  <1>5. \A y \in T : x >= y  BY <1>4
  <1> QED  BY <1>3, <1>4, <1>5 DEF Max

----------------------------------------------------------------------------
(* ch_scan: the constants, PCRE and the queue                              *)

Offset == 0 .. BlockLength

\* The instance has its own names for the operators of the library modules.
LEMMA LeastIs == \A T : Hybrid!Min(T) = Min(T) /\ Hybrid!Max(T) = Max(T)
  BY Zenon DEF Hybrid!Min, Min, Hybrid!Max, Max

\* The number of elements of a set.
LEMMA CardinalityIs == \A T : Hybrid!Cardinality(T) = Cardinality(T)
  BY Zenon DEF Hybrid!Cardinality, Cardinality

\* Being finite.
LEMMA FiniteIs == \A T : Hybrid!IsFiniteSet(T) <=> IsFiniteSet(T)
  BY Zenon DEF Hybrid!IsFiniteSet, IsFiniteSet

\* What follows from the assumption on the constants.
LEMMA HybridConstants ==
    /\ BlockLength \in Nat /\ MaxErrors \in Nat /\ Patterns \subseteq Nat
    /\ IsFiniteSet(Patterns) /\ None \notin Nat /\ None \notin Hybrid!Item
    /\ None \notin Patterns /\ Hybrid!Flush \notin Hybrid!Item
    /\ Data \subseteq [Patterns -> [Offset -> Nat \cup {None}]]
    /\ \A d \in Databases :
          /\ d.width \in [Patterns -> Nat] /\ d.single \subseteq Patterns
          /\ d.unguarded \subseteq Patterns \ Hybrid!Fixed(d)
  <1>1. /\ BlockLength \in Nat /\ MaxErrors \in Nat /\ Patterns \subseteq Nat
        /\ IsFiniteSet(Patterns) /\ None \notin Nat
        /\ None \notin [from : Nat, to : Nat, id : Nat]
        /\ Data \subseteq [Patterns -> [Offset -> Nat \cup {None}]]
    <2>1. Hybrid!ChimeraAssumption  BY HybridAssumption
    <2>2. IsFiniteSet(Patterns)
      <3>1. Hybrid!IsFiniteSet(Patterns)  BY <2>1 DEF Hybrid!ChimeraAssumption
      <3> QED  BY ONLY <3>1, FiniteIs, Zenon
    <2> QED  BY ONLY <2>1, <2>2, Zenon DEF Hybrid!ChimeraAssumption, Offset
  <1>2. \A d \in Databases :
          /\ d.width \in [Patterns -> Nat] /\ d.single \subseteq Patterns
          /\ d.unguarded \subseteq Patterns \ Hybrid!Fixed(d)
    BY HybridAssumption DEF Hybrid!ChimeraAssumption
  <1>3. Hybrid!Item \subseteq [from : Nat, to : Nat, id : Nat]
    <2> SUFFICES ASSUME NEW x \in Hybrid!Item PROVE x \in [from : Nat, to : Nat, id : Nat]
      OBVIOUS
    <2>1. x \in [from : Offset, to : Offset, id : Patterns]  BY DEF Hybrid!Item, Offset
    <2>2. Offset \subseteq Nat /\ Patterns \subseteq Nat  BY <1>1 DEF Offset
    <2> QED  BY <2>1, <2>2
  <1>4. None \notin Hybrid!Item  BY <1>1, <1>3
  <1>5. None \notin Patterns  BY <1>1
  <1>6. Hybrid!Flush \notin Hybrid!Item
    <2>1. Hybrid!Flush.id = None  BY DEF Hybrid!Flush
    <2>2. \A x \in Hybrid!Item : x.id \in Patterns  BY DEF Hybrid!Item
    <2> QED  BY <1>5, <2>1, <2>2
  <1> QED  BY <1>1, <1>2, <1>4, <1>5, <1>6

\* The fields of an item, and an item from its fields.
LEMMA ItemIs ==
    ASSUME NEW x \in Hybrid!Item
    PROVE  /\ x.from \in Offset /\ x.to \in Offset /\ x.id \in Patterns
           /\ x = [from |-> x.from, to |-> x.to, id |-> x.id]
  BY DEF Hybrid!Item, Offset

\* What PCRE finds begins and ends in the block.
EndsOK ==
    \A p \in Patterns, o \in Offset :
        ends[p][o] # None => /\ ends[p][o] \in o .. BlockLength
                             /\ p \in Hybrid!Fixed(db) => ends[p][o] = o + db.width[p]

\* PCRE's next match of p from s on: the leftmost one that begins there.
Leftmost(p, s, m) ==
    /\ m \in Hybrid!Item /\ m.id = p /\ s <= m.from /\ m.from <= m.to
    /\ ends[p][m.from] # None /\ ends[p][m.from] = m.to
    /\ \A o \in Offset : s <= o /\ ends[p][o] # None => m.from <= o

\* The first match of a pattern from s on is the leftmost one, if there is one.
LEMMA FirstIs ==
    ASSUME EndsOK, NEW p \in Patterns, NEW s \in Nat
    PROVE  \/ /\ Hybrid!First(p, s) = None
              /\ \A o \in Offset : s <= o => ends[p][o] = None
           \/ Leftmost(p, s, Hybrid!First(p, s))
  <1>0. BlockLength \in Nat  BY HybridConstants
  <1>1. PICK B : B = {o \in s .. BlockLength : ends[p][o] # None}  OBVIOUS
  <1>2. Hybrid!First(p, s) = IF B = {} THEN None
                             ELSE [from |-> Min(B), to |-> ends[p][Min(B)], id |-> p]
    BY <1>1, LeastIs DEF Hybrid!First
  <1>3. CASE B = {}
    <2>1. \A o \in Offset : s <= o => o \in s .. BlockLength  BY <1>0 DEF Offset
    <2> QED  BY <1>1, <1>2, <1>3, <2>1
  <1>4. CASE B # {}
    <2>1. PICK b : b = Min(B)  OBVIOUS
    <2>2. B \subseteq Nat  BY <1>0, <1>1
    <2>3. b \in B /\ \A y \in B : b <= y  BY <1>4, <2>1, <2>2, MinIs
    <2>4. b \in Offset /\ s <= b /\ ends[p][b] # None  BY <1>0, <1>1, <2>3 DEF Offset
    <2>5. ends[p][b] \in Offset /\ b <= ends[p][b]
      BY <1>0, <2>4 DEF EndsOK, Offset
    <2>6. PICK m : m = [from |-> b, to |-> ends[p][b], id |-> p]  OBVIOUS
    <2>7. m \in Hybrid!Item /\ m.id = p /\ m.from = b /\ m.to = ends[p][b]
      BY <2>4, <2>5, <2>6 DEF Hybrid!Item, Offset
    <2>8. \A o \in Offset : s <= o /\ ends[p][o] # None => o \in B
      BY <1>0, <1>1 DEF Offset
    <2>9. Leftmost(p, s, m)  BY <2>3, <2>4, <2>5, <2>7, <2>8 DEF Leftmost
    <2>10. Hybrid!First(p, s) = m  BY <1>2, <1>4, <2>1, <2>6
    <2> QED  BY <2>9, <2>10
  <1> QED  BY <1>3, <1>4

\* There is only one leftmost match.
LEMMA LeftmostIs ==
    ASSUME EndsOK, NEW p \in Patterns, NEW s \in Nat, NEW m, Leftmost(p, s, m)
    PROVE  Hybrid!First(p, s) = m
  <1>1. PICK f : f = Hybrid!First(p, s)  OBVIOUS
  <1>2. m \in Hybrid!Item /\ m.from \in Offset /\ s <= m.from /\ ends[p][m.from] # None
    BY ItemIs DEF Leftmost
  <1>3. f # None /\ Leftmost(p, s, f)
    <2>1. \/ f = None /\ \A o \in Offset : s <= o => ends[p][o] = None
          \/ Leftmost(p, s, f)
      BY <1>1, FirstIs, Zenon
    <2>2. Leftmost(p, s, f)  BY <1>2, <2>1
    <2>3. f \in Hybrid!Item  BY <2>2 DEF Leftmost
    <2> QED  BY <2>2, <2>3, HybridConstants
  <1>4. f \in Hybrid!Item /\ f.from \in Offset /\ s <= f.from /\ ends[p][f.from] # None
    BY <1>3, ItemIs DEF Leftmost
  <1>5. m.from <= f.from /\ f.from <= m.from  BY <1>2, <1>3, <1>4 DEF Leftmost
  <1>6. m.from = f.from
    <2>1. m.from \in Nat /\ f.from \in Nat  BY <1>2, <1>4, HybridConstants DEF Offset
    <2> QED  BY <1>5, <2>1
  <1>7. m.to = f.to /\ m.id = f.id  BY <1>3, <1>6 DEF Leftmost
  <1>8. m = f  BY <1>2, <1>4, <1>6, <1>7, ItemIs
  <1> QED  BY <1>1, <1>8

\* The items of a queue.
Items(q) == {q[i] : i \in DOMAIN q}

\* Its order, with one item of a pattern.
Ranked(q) ==
    /\ q \in Seq(Hybrid!Item)
    /\ \A i, j \in DOMAIN q : i < j => q[i].to <= q[j].to /\ q[i].id # q[j].id

\* pq_insert puts an item in its place.
LEMMA PlacedIs ==
    ASSUME NEW q \in Seq(Hybrid!Item), NEW x \in Hybrid!Item
    PROVE  \E k \in 1 .. Len(q) + 1 :
              /\ Hybrid!Insert(q, x) \in Seq(Hybrid!Item)
              /\ Len(Hybrid!Insert(q, x)) = Len(q) + 1
              /\ \A i \in 1 .. k - 1 : Hybrid!Insert(q, x)[i] = q[i] /\ q[i].to <= x.to
              /\ Hybrid!Insert(q, x)[k] = x
              /\ \A i \in k .. Len(q) : Hybrid!Insert(q, x)[i + 1] = q[i]
              /\ k <= Len(q) => x.to <= q[k].to
  <1>1. PICK n, B : n = Len(q) /\ B = {i \in DOMAIN q : Hybrid!PQ_COMP(x, q[i])} \cup {n + 1}
    OBVIOUS
  <1>2. n \in Nat /\ DOMAIN q = 1 .. n  BY <1>1
  <1>3. PICK k : k = Min(B)  OBVIOUS
  <1>4. k \in B /\ \A i \in B : k <= i
    <2>1. B \subseteq Nat /\ B # {}  BY <1>1, <1>2
    <2> QED  BY <1>3, <2>1, MinIs
  <1>5. k \in 1 .. n + 1 /\ \A i \in 1 .. k - 1 : i \in 1 .. n /\ i \notin B  BY <1>1, <1>2, <1>4
  <1>6. PICK a, c : a = SubSeq(q, 1, k - 1) /\ c = SubSeq(q, k, n)  OBVIOUS
  <1>7. PICK t : t = Hybrid!Insert(q, x)  OBVIOUS
  <1>8. t = a \o <<x>> \o c
    BY <1>1, <1>3, <1>6, <1>7, LeastIs DEF Hybrid!Insert, Hybrid!InsertAt
  <1>9. /\ a \in Seq(Hybrid!Item) /\ Len(a) = k - 1 /\ \A i \in 1 .. k - 1 : a[i] = q[i]
    BY <1>2, <1>5, <1>6
  <1>10. /\ c \in Seq(Hybrid!Item) /\ Len(c) = n - k + 1
         /\ \A i \in 1 .. n - k + 1 : c[i] = q[k - 1 + i]
    BY <1>2, <1>5, <1>6
  <1>11. PICK b : b = a \o <<x>>  OBVIOUS
  <1>12. /\ b \in Seq(Hybrid!Item) /\ Len(b) = k /\ b[k] = x
         /\ \A i \in 1 .. k - 1 : b[i] = q[i]
    BY <1>5, <1>9, <1>11
  <1>13. /\ t \in Seq(Hybrid!Item) /\ Len(t) = n + 1
         /\ \A i \in 1 .. k : t[i] = b[i]
         /\ \A i \in 1 .. n - k + 1 : t[k + i] = c[i]
    <2>1. t = b \o c /\ k \in Nat /\ n \in Nat  BY <1>2, <1>5, <1>8, <1>11
    <2>2. t \in Seq(Hybrid!Item) /\ Len(t) = Len(b) + Len(c)  BY <1>10, <1>12, <2>1
    <2>3. \A i \in 1 .. Len(b) : t[i] = b[i]  BY <1>10, <1>12, <2>1
    <2>4. \A i \in 1 .. Len(c) : t[Len(b) + i] = c[i]  BY <1>10, <1>12, <2>1
    <2>5. Len(b) = k /\ Len(c) = n - k + 1  BY <1>10, <1>12
    <2> QED  BY <2>1, <2>2, <2>3, <2>4, <2>5
  <1>14. \A i \in k .. n : t[i + 1] = q[i]
    <2> SUFFICES ASSUME NEW i \in k .. n PROVE t[i + 1] = q[i]  OBVIOUS
    <2>1. PICK j : j = i - k + 1  OBVIOUS
    <2>2. j \in 1 .. n - k + 1 /\ k + j = i + 1 /\ k - 1 + j = i  BY <1>2, <1>5, <2>1
    <2> QED  BY <1>10, <1>13, <2>2
  <1>15. \A i \in 1 .. n : q[i].to \in Nat /\ x.to \in Nat
    <2>1. \A i \in 1 .. n : q[i] \in Hybrid!Item  BY <1>2
    <2> QED  BY <2>1, ItemIs, HybridConstants DEF Offset
  <1>16. \A i \in 1 .. k - 1 : t[i] = q[i] /\ q[i].to <= x.to
    <2> SUFFICES ASSUME NEW i \in 1 .. k - 1 PROVE t[i] = q[i] /\ q[i].to <= x.to  OBVIOUS
    <2>1. i \in 1 .. n /\ ~Hybrid!PQ_COMP(x, q[i])  BY <1>1, <1>2, <1>5
    <2>2. i \in 1 .. k  BY <1>5
    <2>3. ~(x.to < q[i].to)  BY <2>1 DEF Hybrid!PQ_COMP
    <2> QED  BY <1>12, <1>13, <1>15, <2>1, <2>2, <2>3
  <1>17. k <= n => x.to <= q[k].to
    <2> SUFFICES ASSUME k <= n PROVE x.to <= q[k].to  OBVIOUS
    <2>1. k \in 1 .. n /\ k # n + 1  BY <1>2, <1>5
    <2>2. Hybrid!PQ_COMP(x, q[k])  BY <1>1, <1>4, <2>1
    <2>3. x.to < q[k].to \/ x.to = q[k].to  BY <2>2 DEF Hybrid!PQ_COMP
    <2> QED  BY <1>15, <2>1, <2>3
  <1>18. t[k] = x  BY <1>5, <1>12, <1>13
  <1> QED  BY <1>1, <1>5, <1>7, <1>13, <1>14, <1>16, <1>17, <1>18

\* So the queue stays in order when a pattern gets its item.
LEMMA InsertIs ==
    ASSUME NEW q, Ranked(q), NEW x \in Hybrid!Item, \A y \in Items(q) : y.id # x.id
    PROVE  /\ Ranked(Hybrid!Insert(q, x))
           /\ Len(Hybrid!Insert(q, x)) = Len(q) + 1
           /\ Items(Hybrid!Insert(q, x)) = Items(q) \cup {x}
  <1>0. q \in Seq(Hybrid!Item)  BY DEF Ranked
  <1>1. PICK n, t : n = Len(q) /\ t = Hybrid!Insert(q, x)  OBVIOUS
  <1>2. PICK k \in 1 .. n + 1 :
              /\ t \in Seq(Hybrid!Item) /\ Len(t) = n + 1
              /\ \A i \in 1 .. k - 1 : t[i] = q[i] /\ q[i].to <= x.to
              /\ t[k] = x
              /\ \A i \in k .. n : t[i + 1] = q[i]
              /\ k <= n => x.to <= q[k].to
    <2>1. \E k \in 1 .. Len(q) + 1 :
              /\ Hybrid!Insert(q, x) \in Seq(Hybrid!Item)
              /\ Len(Hybrid!Insert(q, x)) = Len(q) + 1
              /\ \A i \in 1 .. k - 1 : Hybrid!Insert(q, x)[i] = q[i] /\ q[i].to <= x.to
              /\ Hybrid!Insert(q, x)[k] = x
              /\ \A i \in k .. Len(q) : Hybrid!Insert(q, x)[i + 1] = q[i]
              /\ k <= Len(q) => x.to <= q[k].to
      BY <1>0, PlacedIs, Zenon
    <2> QED  BY ONLY <1>1, <2>1
  <1>3. n \in Nat /\ DOMAIN q = 1 .. n /\ DOMAIN t = 1 .. n + 1  BY <1>0, <1>1, <1>2
  <1>4. \A i \in 1 .. n : q[i] \in Hybrid!Item /\ q[i].to \in Nat /\ x.to \in Nat /\ q[i].id # x.id
    <2>1. \A i \in 1 .. n : q[i] \in Hybrid!Item /\ q[i] \in Items(q)  BY <1>0, <1>3 DEF Items
    <2> QED  BY <2>1, ItemIs, HybridConstants DEF Offset
  <1>5. \A i, j \in 1 .. n : i < j => q[i].to <= q[j].to /\ q[i].id # q[j].id
    BY <1>3 DEF Ranked
  <1>6. \A i \in 1 .. n + 1 :
            \/ i < k /\ i \in 1 .. n /\ t[i] = q[i] /\ q[i].to <= x.to
            \/ i = k /\ t[i] = x
            \/ k < i /\ i - 1 \in 1 .. n /\ t[i] = q[i - 1] /\ x.to <= q[i - 1].to
    <2> SUFFICES ASSUME NEW i \in 1 .. n + 1, k < i
                 PROVE  i - 1 \in 1 .. n /\ t[i] = q[i - 1] /\ x.to <= q[i - 1].to
      BY <1>2, <1>3
    <2>1. PICK j : j = i - 1  OBVIOUS
    <2>2. j \in 1 .. n /\ j \in k .. n /\ k \in 1 .. n /\ i = j + 1  BY <1>2, <1>3, <2>1
    <2>3. t[i] = q[j]  BY <1>2, <2>2
    <2>4. x.to <= q[k].to  BY <1>2, <1>3, <2>2
    <2>5. q[k].to <= q[j].to
      <3>1. CASE k = j  BY <1>4, <2>2, <3>1
      <3>2. CASE k < j  BY <1>5, <2>2, <3>2
      <3> QED  BY <2>2, <3>1, <3>2
    <2>6. x.to <= q[j].to  BY <1>4, <2>2, <2>4, <2>5
    <2> QED  BY <2>1, <2>2, <2>3, <2>6
  <1>7. Ranked(t)
    <2> SUFFICES ASSUME NEW i \in 1 .. n + 1, NEW j \in 1 .. n + 1, i < j
                 PROVE  t[i].to <= t[j].to /\ t[i].id # t[j].id
      BY <1>2, <1>3 DEF Ranked
    <2>1. CASE i < k /\ j < k  BY <1>2, <1>3, <1>5, <1>6, <2>1
    <2>2. CASE i < k /\ j = k  BY <1>2, <1>4, <1>6, <2>2
    <2>3. CASE i < k /\ k < j
      <3>1. /\ i \in 1 .. n /\ t[i] = q[i] /\ q[i].to <= x.to
            /\ j - 1 \in 1 .. n /\ t[j] = q[j - 1] /\ x.to <= q[j - 1].to
        BY <1>2, <1>3, <1>6, <2>3
      <3>2. i < j - 1  BY <1>2, <1>3, <2>3
      <3>3. q[i].id # q[j - 1].id  BY <1>5, <3>1, <3>2
      <3> QED  BY <1>4, <3>1, <3>3
    <2>4. CASE i = k /\ k < j
      <3>1. t[i] = x /\ j - 1 \in 1 .. n /\ t[j] = q[j - 1] /\ x.to <= q[j - 1].to
        BY <1>2, <1>3, <1>6, <2>4
      <3> QED  BY <1>4, <3>1
    <2>5. CASE k < i /\ k < j
      <3>1. /\ i - 1 \in 1 .. n /\ t[i] = q[i - 1] /\ j - 1 \in 1 .. n /\ t[j] = q[j - 1]
        BY <1>2, <1>3, <1>6, <2>5
      <3>2. i - 1 < j - 1  BY <1>3
      <3> QED  BY <1>5, <3>1, <3>2
    <2> QED  BY <1>2, <1>3, <2>1, <2>2, <2>3, <2>4, <2>5
  <1>8. Items(t) = Items(q) \cup {x}
    <2>1. \A y \in Items(t) : y \in Items(q) \cup {x}
      <3> SUFFICES ASSUME NEW i \in 1 .. n + 1 PROVE t[i] \in Items(q) \cup {x}
        BY <1>3 DEF Items
      <3> QED  BY <1>3, <1>6 DEF Items
    <2>2. x \in Items(t)  BY <1>2, <1>3 DEF Items
    <2>3. \A y \in Items(q) : y \in Items(t)
      <3> SUFFICES ASSUME NEW i \in 1 .. n PROVE q[i] \in Items(t)  BY <1>3 DEF Items
      <3>1. CASE i < k
        <4>1. i \in 1 .. k - 1 /\ i \in 1 .. n + 1  BY <1>2, <1>3, <3>1
        <4> QED  BY <1>2, <1>3, <4>1 DEF Items
      <3>2. CASE k <= i
        <4>1. i \in k .. n /\ i + 1 \in 1 .. n + 1  BY <1>2, <1>3, <3>2
        <4> QED  BY <1>2, <1>3, <4>1 DEF Items
      <3> QED  BY <1>2, <1>3, <3>1, <3>2
    <2> QED  BY <2>1, <2>2, <2>3
  <1> QED  BY <1>1, <1>2, <1>7, <1>8

\* The first item ends first, and the others stay in order without it.
LEMMA TailIs ==
    ASSUME NEW q, Ranked(q), q # <<>>
    PROVE  /\ Ranked(Tail(q)) /\ Len(Tail(q)) = Len(q) - 1
           /\ Head(q) \in Hybrid!Item /\ Head(q) \in Items(q)
           /\ \A y \in Items(q) : Head(q).to <= y.to /\ (y = Head(q) \/ y \in Items(Tail(q)))
           /\ \A y \in Items(Tail(q)) : y \in Items(q) /\ y.id # Head(q).id
  <1>0. q \in Seq(Hybrid!Item)  BY DEF Ranked
  <1>1. PICK n, t, h : n = Len(q) /\ t = Tail(q) /\ h = Head(q)  OBVIOUS
  <1>2. n \in Nat /\ n >= 1 /\ DOMAIN q = 1 .. n /\ h = q[1]  BY <1>0, <1>1
  <1>3. /\ t \in Seq(Hybrid!Item) /\ Len(t) = n - 1 /\ DOMAIN t = 1 .. n - 1
        /\ \A i \in 1 .. n - 1 : t[i] = q[i + 1]
    BY <1>0, <1>1, <1>2
  <1>4. \A i, j \in 1 .. n : i < j => q[i].to <= q[j].to /\ q[i].id # q[j].id
    BY <1>2 DEF Ranked
  <1>5. \A i \in 1 .. n : q[i] \in Hybrid!Item /\ q[i].to \in Nat
    <2>1. \A i \in 1 .. n : q[i] \in Hybrid!Item  BY <1>0, <1>2
    <2> QED  BY <2>1, ItemIs, HybridConstants DEF Offset
  <1>6. Ranked(t)
    <2> SUFFICES ASSUME NEW i \in 1 .. n - 1, NEW j \in 1 .. n - 1, i < j
                 PROVE  t[i].to <= t[j].to /\ t[i].id # t[j].id
      BY <1>3 DEF Ranked
    <2>1. i + 1 \in 1 .. n /\ j + 1 \in 1 .. n /\ i + 1 < j + 1  BY <1>2
    <2> QED  BY <1>3, <1>4, <2>1
  <1>7. h \in Hybrid!Item /\ h \in Items(q)  BY <1>2, <1>5 DEF Items
  <1>8. \A y \in Items(q) : h.to <= y.to /\ (y = h \/ y \in Items(t))
    <2> SUFFICES ASSUME NEW i \in 1 .. n PROVE h.to <= q[i].to /\ (q[i] = h \/ q[i] \in Items(t))
      BY <1>2 DEF Items
    <2>1. CASE i = 1  BY <1>2, <1>5, <2>1
    <2>2. CASE i > 1
      <3>1. 1 \in 1 .. n /\ i - 1 \in 1 .. n - 1 /\ (i - 1) + 1 = i  BY <1>2, <2>2
      <3>2. t[i - 1] = q[i]  BY <1>3, <3>1
      <3>3. q[i] \in Items(t)  BY <1>3, <3>1, <3>2 DEF Items
      <3> QED  BY <1>2, <1>4, <2>2, <3>1, <3>3
    <2> QED  BY <1>2, <2>1, <2>2
  <1>9. \A y \in Items(t) : y \in Items(q) /\ y.id # h.id
    <2> SUFFICES ASSUME NEW i \in 1 .. n - 1 PROVE t[i] \in Items(q) /\ t[i].id # h.id
      BY <1>3 DEF Items
    <2>1. i + 1 \in 1 .. n /\ 1 \in 1 .. n /\ 1 < i + 1 /\ t[i] = q[i + 1]  BY <1>2, <1>3
    <2>2. q[1].id # q[i + 1].id  BY <1>4, <2>1
    <2> QED  BY <1>2, <2>1, <2>2 DEF Items
  <1> QED  BY <1>1, <1>3, <1>6, <1>7, <1>8, <1>9

\* A queue with one item of a pattern at most fits into patternCount items.
LEMMA RankedFits ==
    ASSUME NEW q, Ranked(q)
    PROVE  /\ Len(q) \in Nat /\ Cardinality(Patterns) \in Nat
           /\ Len(q) <= Cardinality(Patterns)
  <1>1. PICK n : n = Len(q)  OBVIOUS
  <1>2. n \in Nat /\ DOMAIN q = 1 .. n /\ \A i \in 1 .. n : q[i].id \in Patterns
    <2>1. q \in Seq(Hybrid!Item)  BY DEF Ranked
    <2>2. \A i \in 1 .. n : q[i] \in Hybrid!Item  BY <1>1, <2>1
    <2> QED  BY <1>1, <2>1, <2>2, ItemIs
  <1>3. PICK f : f = [i \in 1 .. n |-> q[i].id]  OBVIOUS
  <1>4. \A i, j \in 1 .. n : f[i] = f[j] => i = j
    <2> SUFFICES ASSUME NEW i \in 1 .. n, NEW j \in 1 .. n, i # j PROVE f[i] # f[j]  OBVIOUS
    <2>1. i < j => q[i].id # q[j].id  BY <1>2 DEF Ranked
    <2>2. j < i => q[i].id # q[j].id  BY <1>2 DEF Ranked
    <2>3. i < j \/ j < i  BY <1>2
    <2> QED  BY <1>3, <2>1, <2>2, <2>3
  <1>5. f \in [1 .. n -> Patterns]  BY <1>2, <1>3
  <1>6. f \in Injection(1 .. n, Patterns)  BY <1>4, <1>5, Fun_IsInj
  <1>7. IsFiniteSet(1 .. n) /\ Cardinality(1 .. n) = n  BY <1>2, FS_Interval
  <1>8. IsFiniteSet(Patterns) /\ Cardinality(Patterns) \in Nat
    BY HybridConstants, FS_CardinalityType
  <1>9. n <= Cardinality(Patterns)  BY <1>6, <1>7, <1>8, FS_Injection
  <1> QED  BY <1>1, <1>2, <1>8, <1>9

----------------------------------------------------------------------------
(* The callbacks of a scan                                                 *)

Callback == [span : Hybrid!Span, id : Patterns, groups : Hybrid!Span, answer : Hybrid!Answers]

\* Where PCRE goes on after a match.
Past(m) == IF m.from = m.to THEN m.to + 1 ELSE m.to

\* The callbacks of history h for p among the first n, where PCRE goes on after
\* them, and its next match after all of them; whether no more is wanted.
ToldIn(h, p, n) == {i \in 1 .. n : h[i].id = p}
GoOnAt(h, p, n) == IF ToldIn(h, p, n) = {} THEN 0 ELSE Past(h[Max(ToldIn(h, p, n))].span)
Now(h, p)       == Hybrid!First(p, GoOnAt(h, p, Len(h)))
Over(h, p)      == p \in db.single /\ ToldIn(h, p, Len(h)) # {}

\* Those are the model's.
LEMMA ToldIs ==
    \A p, n : /\ Hybrid!Told(p, n) = ToldIn(cbs, p, n)
              /\ Hybrid!Due(p, n) = Hybrid!First(p, GoOnAt(cbs, p, n))
  <1> SUFFICES ASSUME NEW p, NEW n
               PROVE  /\ Hybrid!Told(p, n) = ToldIn(cbs, p, n)
                      /\ Hybrid!Due(p, n) = Hybrid!First(p, GoOnAt(cbs, p, n))
    OBVIOUS
  <1>1. Hybrid!Told(p, n) = ToldIn(cbs, p, n)  BY DEF Hybrid!Told, ToldIn
  <1>2. Hybrid!Resume(p, n) = GoOnAt(cbs, p, n)
    <2>1. Hybrid!Max(ToldIn(cbs, p, n)) = Max(ToldIn(cbs, p, n))  BY LeastIs
    <2> QED  BY <1>1, <2>1 DEF Hybrid!Resume, GoOnAt, Past
  <1> QED  BY <1>1, <1>2 DEF Hybrid!Due

\* The fields of a callback.
LEMMA CallbackIs ==
    ASSUME NEW c \in Callback
    PROVE  /\ c.span.from \in Offset /\ c.span.to \in Offset /\ c.id \in Patterns
           /\ c.span \in Hybrid!Span
           /\ Past(c.span) \in Nat /\ Past(c.span) \in 0 .. BlockLength + 1
  <1>1. c.span \in Hybrid!Span /\ c.id \in Patterns  BY DEF Callback
  <1>2. c.span.from \in Offset /\ c.span.to \in Offset  BY <1>1 DEF Hybrid!Span, Offset
  <1> QED  BY <1>1, <1>2, HybridConstants DEF Past, Offset

\* Where PCRE goes on is a number.
LEMMA GoOnIsNat ==
    ASSUME NEW h \in Seq(Callback), NEW n \in 0 .. Len(h), NEW p
    PROVE  GoOnAt(h, p, n) \in Nat
  <1>1. CASE ToldIn(h, p, n) = {}  BY <1>1 DEF GoOnAt
  <1>2. CASE ToldIn(h, p, n) # {}
    <2>1. ToldIn(h, p, n) \subseteq 0 .. Len(h) /\ Len(h) \in Nat  BY DEF ToldIn
    <2>2. Max(ToldIn(h, p, n)) \in ToldIn(h, p, n)  BY <1>2, <2>1, MaxIs
    <2>3. PICK i : i = Max(ToldIn(h, p, n))  OBVIOUS
    <2>4. i \in 1 .. Len(h)  BY <2>2, <2>3 DEF ToldIn
    <2>5. h[i] \in Callback  BY <2>4
    <2> QED  BY <1>2, <2>3, <2>5, CallbackIs DEF GoOnAt
  <1> QED  BY <1>1, <1>2

\* A callback moves its own pattern on and no other.
Prolonged(h, c, g) ==
    /\ g \in Seq(Callback) /\ Len(g) = Len(h) + 1 /\ g[Len(h) + 1] = c
    /\ \A i \in 1 .. Len(h) : g[i] = h[i]
    /\ \A p : \A n \in 0 .. Len(h) :
          ToldIn(g, p, n) = ToldIn(h, p, n) /\ GoOnAt(g, p, n) = GoOnAt(h, p, n)
    /\ \A p : p # c.id => Now(g, p) = Now(h, p) /\ (Over(g, p) <=> Over(h, p))
    /\ Now(g, c.id) = Hybrid!First(c.id, Past(c.span))
    /\ ToldIn(g, c.id, Len(g)) # {}

\* The history with one more callback prolongs the history.
LEMMA ToldNext ==
    ASSUME NEW h \in Seq(Callback), NEW c \in Callback, NEW g, g = Append(h, c)
    PROVE  Prolonged(h, c, g)
  <1>1. PICK m : m = Len(h)  OBVIOUS
  <1>2. /\ m \in Nat /\ g \in Seq(Callback) /\ Len(g) = m + 1 /\ g[m + 1] = c
        /\ \A i \in 1 .. m : g[i] = h[i]
    BY <1>1
  <1>3. \A p : \A n \in 0 .. m : ToldIn(g, p, n) = ToldIn(h, p, n)
    <2> SUFFICES ASSUME NEW p, NEW n \in 0 .. m PROVE ToldIn(g, p, n) = ToldIn(h, p, n)
      OBVIOUS
    <2>1. \A i \in 1 .. n : i \in 1 .. m  BY <1>2
    <2>2. \A i \in 1 .. n : g[i] = h[i]  BY <1>2, <2>1
    <2> QED  BY <2>2 DEF ToldIn
  <1>4. \A p : \A n \in 0 .. m : GoOnAt(g, p, n) = GoOnAt(h, p, n)
    <2> SUFFICES ASSUME NEW p, NEW n \in 0 .. m PROVE GoOnAt(g, p, n) = GoOnAt(h, p, n)
      OBVIOUS
    <2>1. PICK S : S = ToldIn(h, p, n)  OBVIOUS
    <2>2. ToldIn(g, p, n) = S  BY <1>3, <2>1
    <2>3. CASE S = {}  BY <2>1, <2>2, <2>3 DEF GoOnAt
    <2>4. CASE S # {}
      <3>1. S \subseteq 0 .. m /\ S \subseteq 1 .. m  BY <1>2, <2>1 DEF ToldIn
      <3>2. Max(S) \in S  BY <1>2, <2>4, <3>1, MaxIs
      <3>3. g[Max(S)] = h[Max(S)]  BY <1>2, <3>1, <3>2
      <3> QED  BY <2>1, <2>2, <2>4, <3>3 DEF GoOnAt
    <2> QED  BY <2>3, <2>4
  <1>5. \A p : p # c.id => ToldIn(g, p, m + 1) = ToldIn(h, p, m)
    <2> SUFFICES ASSUME NEW p, p # c.id PROVE ToldIn(g, p, m + 1) = ToldIn(h, p, m)
      OBVIOUS
    <2>1. \A i \in 1 .. m + 1 : g[i].id = p <=> i \in 1 .. m /\ h[i].id = p  BY <1>2
    <2>2. \A i \in 1 .. m : i \in 1 .. m + 1  BY <1>2
    <2> QED  BY <2>1, <2>2 DEF ToldIn
  <1>6. m + 1 \in ToldIn(g, c.id, m + 1) /\ ToldIn(g, c.id, m + 1) \subseteq 0 .. m + 1
    BY <1>2 DEF ToldIn
  <1>7. Max(ToldIn(g, c.id, m + 1)) = m + 1
    <2>1. m + 1 \in Nat  BY <1>2
    <2>2. PICK T : T = ToldIn(g, c.id, m + 1)  OBVIOUS
    <2>3. T \subseteq 0 .. m + 1 /\ m + 1 \in T  BY <1>6, <2>2
    <2>4. Max(T) \in T /\ \A y \in T : y <= Max(T)  BY <2>1, <2>3, MaxIs
    <2>5. Max(T) \in 0 .. m + 1 /\ m + 1 <= Max(T)  BY <2>3, <2>4
    <2>6. Max(T) = m + 1  BY <1>2, <2>5
    <2> QED  BY <2>2, <2>6
  <1>8. GoOnAt(g, c.id, m + 1) = Past(c.span)
    <2>1. ToldIn(g, c.id, m + 1) # {}  BY <1>6
    <2> QED  BY <1>2, <1>7, <2>1 DEF GoOnAt
  <1>9. \A p : p # c.id => GoOnAt(g, p, m + 1) = GoOnAt(h, p, m)
    <2> SUFFICES ASSUME NEW p, p # c.id PROVE GoOnAt(g, p, m + 1) = GoOnAt(h, p, m)
      OBVIOUS
    <2>1. m \in 0 .. m  BY <1>2
    <2>2. ToldIn(g, p, m + 1) = ToldIn(g, p, m)  BY <1>3, <1>5, <2>1
    <2>3. GoOnAt(g, p, m + 1) = GoOnAt(g, p, m)  BY <2>2 DEF GoOnAt
    <2> QED  BY <1>4, <2>1, <2>3
  <1>10. /\ \A p : p # c.id => Now(g, p) = Now(h, p) /\ (Over(g, p) <=> Over(h, p))
         /\ Now(g, c.id) = Hybrid!First(c.id, Past(c.span))
    BY <1>1, <1>2, <1>5, <1>8, <1>9 DEF Now, Over
  <1>11. ToldIn(g, c.id, Len(g)) # {}  BY <1>2, <1>6
  <1> QED
    BY <1>1, <1>2, <1>3, <1>4, <1>10, <1>11 DEF Prolonged

----------------------------------------------------------------------------
(* The invariant of a scan                                                 *)

Spanned(x) == [from |-> x.from, to |-> x.to]

\* The history: PCRE's matches of each pattern, in order.
HistoryOK(h) ==
    /\ \A i \in DOMAIN h :
          /\ Hybrid!First(h[i].id, GoOnAt(h, h[i].id, i - 1))
                = [from |-> h[i].span.from, to |-> h[i].span.to, id |-> h[i].id]
          /\ h[i].groups = h[i].span
          /\ \A j \in ToldIn(h, h[i].id, i - 1) :
                h[j].answer = "continue" /\ h[i].id \notin db.single
    /\ \A i, j \in DOMAIN h : i < j =>
          h[i].span.to <= h[j].span.to /\ h[i].answer # "terminate"

\* The answers until now: no pattern is active that was skipped.
AnswersOK(h, act, c) ==
    /\ c \subseteq act
    /\ \A k \in DOMAIN h : /\ h[k].id \in act /\ h[k].answer # "terminate"
                           /\ h[k].answer # "continue" => h[k].id \in c

\* hs_scan is under way; or it is interrupted for the match in job; or the
\* queue is flushed after it.
ForMatch == chPc \in {"catchup", "finish"} /\ chJob # Hybrid!Flush
ForFlush == chPc \in {"catchup", "finish"} /\ chJob = Hybrid!Flush
Leaving(c, j, p) == c = "finish" /\ j.id = p

InQ(q, p) == \E x \in Items(q) : x.id = p

\* An item of the queue is the next match of its pattern, with its groups and
\* the offset after it, and ends no earlier than what was reported.
NextOf(h, act, ct, sc, mt, x) ==
    /\ x.id \in act /\ x.id \notin ct /\ x = Now(h, x.id) /\ ~Over(h, x.id)
    /\ sc[x.id] = Hybrid!StartAfter(x) /\ mt[x.id] = Spanned(x)
    /\ \A k \in DOMAIN h : h[k].span.to <= x.to

QueueOK(q, h, act, ct, sc, mt) ==
    Ranked(q) /\ \A x \in Items(q) : NextOf(h, act, ct, sc, mt, x)

\* An active pattern has its item, unless nothing more is wanted of it.
Covers(q, h, act, ct, c, j) ==
    \A p \in act : p \in ct \/ InQ(q, p) \/ Now(h, p) = None \/ Over(h, p) \/ Leaving(c, j, p)

\* No match of a fixed-width pattern that begins where it goes on has been
\* missed; one without an item is through.
NotMissed(p, s, o, l, c, j) ==
    \A b \in Offset : s <= b /\ ends[p][b] # None =>
        \/ ends[p][b] > o
        \/ ends[p][b] = o /\ (p \in l \/ (c \in {"catchup", "finish"} /\ j.id = p))

FixedOK(q, act, ct, sc, o, l, c, j) ==
    \A p \in Hybrid!Fixed(db) : p \in act =>
        /\ p \in ct => sc[p] >= BlockLength
        /\ p \notin ct /\ p \notin db.single =>
              /\ NotMissed(p, sc[p], o, l, c, j)
              /\ InQ(q, p) \/ sc[p] >= BlockLength \/ Leaving(c, j, p)

\* hs_scan reports a pattern it has not reported yet as soon as it can match.
Silent(p, o, l) ==
    \A b \in Offset : ends[p][b] # None =>
        ends[p][b] > o \/ (ends[p][b] = o /\ p \in l)

SilentOK ==
    \A p \in Patterns : p \notin db.unguarded /\ p \notin active =>
        /\ chPc = "multi" \/ ForMatch => Silent(p, cur, todo)
        /\ ForFlush => \A b \in Offset : ends[p][b] = None

PlaceOK ==
    /\ chPc = "init" => /\ cbs = <<>> /\ cur = 0 /\ todo \cap active = {}
                        /\ active \cup todo = db.unguarded
    /\ chPc # "init" => db.unguarded \subseteq active
    /\ chPc = "multi" \/ ForMatch =>
          /\ \A k \in DOMAIN cbs : cbs[k].span.to <= cur
          /\ \A p \in todo : p \in Hybrid!Guarded(db)
          /\ \A p \in todo : p \in Hybrid!Fixed(db) =>
                cur >= db.width[p] /\ ends[p][cur - db.width[p]] = cur

\* The match hs_scan was interrupted for: the next one of its pattern from
\* where it goes on, and after it has been reported the next one to be queued.
MatchOK ==
    ForMatch =>
        /\ chJob.id \in Hybrid!Fixed(db) /\ chJob.id \in active /\ chJob.id \notin db.single
        /\ chJob \in Hybrid!Item /\ chJob.to = cur
        /\ chPc = "catchup" =>
              /\ InQ(chPq, chJob.id) /\ chJob.id \notin cut
              /\ Leftmost(chJob.id, scanStart[chJob.id], chJob)
        /\ chPc = "finish" =>
              /\ ~InQ(chPq, chJob.id)
              /\ chJob.id \notin cut =>
                    /\ chJob = Now(cbs, chJob.id) /\ scanStart[chJob.id] < BlockLength

ScanOK ==
    /\ QueueOK(chPq, cbs, active, cut, scanStart, match)
    /\ AnswersOK(cbs, active, cut)
    /\ Covers(chPq, cbs, active, cut, chPc, chJob)
    /\ FixedOK(chPq, active, cut, scanStart, cur, todo, chPc, chJob)
    /\ SilentOK /\ PlaceOK /\ MatchOK
    /\ ForFlush /\ chPc = "finish" => chPq = <<>>

ReturnOK ==
    /\ chPc \in {"init", "multi", "catchup"} => res = "SUCCESS"
    /\ Len(chPq) <= Cardinality(Patterns)
    /\ chPc = "finish" /\ res # "SUCCESS" => Len(chPq) < Cardinality(Patterns)
    /\ chPc = "idle" /\ res = "SUCCESS" =>
          chPq = <<>> /\ \A p \in Patterns : p \in cut \/ Now(cbs, p) = None \/ Over(cbs, p)

HybridInv ==
    /\ Hybrid!TypeOK /\ HistoryOK(cbs) /\ ReturnOK
    /\ chPc # "idle" /\ res = "SUCCESS" => ScanOK
----------------------------------------------------------------------------
(* What PCRE can answer                                                    *)

\* The types, one by one.
LEMMA HybridTypes ==
    ASSUME Hybrid!TypeOK
    PROVE  /\ EndsOK /\ db \in Databases /\ cur \in Offset
           /\ todo \subseteq Patterns /\ active \subseteq Patterns /\ cut \subseteq Patterns
           /\ scanStart \in [Patterns -> 0 .. BlockLength + 1]
           /\ match \in [Patterns -> Hybrid!Span]
           /\ chPq \in Seq(Hybrid!Item) /\ cbs \in Seq(Callback) /\ errors \in 0 .. MaxErrors
           /\ chJob \in Hybrid!Item \cup {Hybrid!Flush}
           /\ \A p \in Patterns : scanStart[p] \in Nat
           /\ \A p \in Patterns : db.width[p] \in Nat
           /\ \A p \in Hybrid!Fixed(db) : p \in Patterns /\ db.width[p] > 0 /\ p \notin db.unguarded
           /\ db.unguarded \subseteq Patterns /\ db.single \subseteq Patterns
  <1>1. /\ db \in Databases /\ cur \in Offset
        /\ todo \subseteq Patterns /\ active \subseteq Patterns /\ cut \subseteq Patterns
        /\ scanStart \in [Patterns -> 0 .. BlockLength + 1]
        /\ match \in [Patterns -> Hybrid!Span]
        /\ chPq \in Seq(Hybrid!Item) /\ cbs \in Seq(Callback) /\ errors \in 0 .. MaxErrors
        /\ chJob \in Hybrid!Item \cup {Hybrid!Flush}
    BY DEF Hybrid!TypeOK, Offset, Callback
  <1>2. EndsOK  BY DEF Hybrid!TypeOK, Hybrid!DataFits, EndsOK, Offset
  <1>3. \A p \in Patterns : scanStart[p] \in Nat
    <2>1. \A p \in Patterns : scanStart[p] \in 0 .. BlockLength + 1  BY <1>1
    <2> QED  BY <2>1
  <1>4. /\ db.width \in [Patterns -> Nat] /\ db.single \subseteq Patterns
        /\ db.unguarded \subseteq Patterns \ Hybrid!Fixed(db)
    BY <1>1, HybridConstants
  <1>5. \A p \in Patterns : db.width[p] \in Nat  BY <1>4
  <1>6. \A p \in Hybrid!Fixed(db) : p \in Patterns /\ db.width[p] > 0
    BY <1>5 DEF Hybrid!Fixed
  <1> QED  BY <1>1, <1>2, <1>3, <1>4, <1>5, <1>6

\* Where scanPcre goes on after an item.
LEMMA StartAfterIs ==
    ASSUME NEW x \in Hybrid!Item
    PROVE  /\ Hybrid!StartAfter(x) = Past(Spanned(x)) /\ Hybrid!StartAfter(x) \in Nat
           /\ Hybrid!StartAfter(x) \in 0 .. BlockLength + 1 /\ Hybrid!StartAfter(x) >= x.to
           /\ x.from # x.to => Hybrid!StartAfter(x) = x.to
           /\ Spanned(x) \in Hybrid!Span
           /\ x.to \in Nat /\ x.from \in Nat /\ x.to <= BlockLength
  <1>1. x.from \in Offset /\ x.to \in Offset  BY ItemIs
  <1>2. BlockLength \in Nat  BY HybridConstants
  <1>3. x.from \in Nat /\ x.to \in Nat /\ x.to <= BlockLength  BY <1>1, <1>2 DEF Offset
  <1>4. Spanned(x).from = x.from /\ Spanned(x).to = x.to /\ Spanned(x) \in Hybrid!Span
    BY <1>1 DEF Spanned, Hybrid!Span, Offset
  <1>5. Hybrid!StartAfter(x) = IF x.from # x.to THEN x.to ELSE x.to + 1
    BY DEF Hybrid!StartAfter
  <1>6. Past(Spanned(x)) = IF x.from = x.to THEN x.to + 1 ELSE x.to  BY <1>4 DEF Past
  <1> QED  BY <1>2, <1>3, <1>4, <1>5, <1>6

\* scanPcre queues the next match x, or finds none, or meets a limit.
Found(p, s, q, x) ==
    /\ Leftmost(p, s, x)
    /\ chPq' = Hybrid!Insert(q, x)
    /\ match' = [match EXCEPT ![p] = Spanned(x)]
    /\ scanStart' = [scanStart EXCEPT ![p] = Hybrid!StartAfter(x)]
    /\ errors' = errors

NoneFound(p, s, q, v) ==
    /\ \A b \in Offset : s <= b => ends[p][b] = None
    /\ chPq' = q /\ match' = match
    /\ scanStart' = [scanStart EXCEPT ![p] = v]
    /\ errors' = errors

AtLimit(p, q, v) ==
    /\ chPq' = q /\ match' = match
    /\ scanStart' = [scanStart EXCEPT ![p] = v]
    /\ errors' \in 0 .. MaxErrors

\* Whatever PCRE answers, scanPcre does one of the three.
LEMMA ScanPcreIs ==
    ASSUME EndsOK, errors \in 0 .. MaxErrors, NEW p \in Patterns, NEW s \in Nat, NEW q, NEW v,
           NEW o \in Hybrid!Outcomes(p, s), Hybrid!ScanPcre(p, o, q, v)
    PROVE  \/ /\ \E x : Found(p, s, q, x)
              /\ ~Hybrid!Fatal(o) /\ Hybrid!CutBy(p, o) = cut
           \/ NoneFound(p, s, q, v) /\ ~Hybrid!Fatal(o) /\ Hybrid!CutBy(p, o) = cut
           \/ /\ AtLimit(p, q, IF o.ret = "skip" THEN BlockLength ELSE v)
              /\ Hybrid!CutBy(p, o) = cut \cup {p}
              /\ Hybrid!Verdict(o) \in {"SCAN_TERMINATED", "FAIL_INTERNAL"}
  <1>1. CASE o = [ret |-> "continue", found |-> Hybrid!First(p, s) # None,
                  item |-> Hybrid!First(p, s), err |-> 0]
    <2>1. PICK x : x = Hybrid!First(p, s)  OBVIOUS
    <2>2. o.ret = "continue" /\ o.item = x /\ o.err = 0 /\ (o.found <=> x # None)
      BY <1>1, <2>1
    <2>3. ~Hybrid!Fatal(o) /\ Hybrid!CutBy(p, o) = cut
      BY <2>2 DEF Hybrid!Fatal, Hybrid!CutBy
    <2>4. errors' = errors
      <3>1. errors' = errors + 0  BY <2>2 DEF Hybrid!ScanPcre
      <3>2. errors \in Nat  OBVIOUS
      <3> QED  BY <3>1, <3>2
    <2>5. \/ x = None /\ \A b \in Offset : s <= b => ends[p][b] = None
          \/ Leftmost(p, s, x)
      BY <2>1, FirstIs, Zenon
    <2>6. CASE x = None /\ \A b \in Offset : s <= b => ends[p][b] = None
      <3>1. ~o.found  BY <2>2, <2>6
      <3>2. chPq' = q /\ match' = match  BY <3>1 DEF Hybrid!ScanPcre
      <3>3. scanStart' = [scanStart EXCEPT ![p] = v]  BY <2>2, <3>1 DEF Hybrid!ScanPcre
      <3>4. NoneFound(p, s, q, v)  BY <2>4, <2>6, <3>2, <3>3 DEF NoneFound
      <3> QED  BY <2>3, <3>4
    <2>7. CASE Leftmost(p, s, x)
      <3>1. x \in Hybrid!Item  BY <2>7 DEF Leftmost
      <3>2. x # None  BY <3>1, HybridConstants
      <3>3. o.found  BY <2>2, <3>2
      <3>4. chPq' = Hybrid!Insert(q, x)  BY <2>2, <3>3 DEF Hybrid!ScanPcre
      <3>5. match' = [match EXCEPT ![p] = Spanned(x)]
        BY <2>2, <3>3 DEF Hybrid!ScanPcre, Spanned
      <3>6. scanStart' = [scanStart EXCEPT ![p] = Hybrid!StartAfter(x)]
        BY <2>2, <3>3 DEF Hybrid!ScanPcre
      <3>7. Found(p, s, q, x)  BY <2>4, <2>7, <3>4, <3>5, <3>6 DEF Found
      <3> QED  BY <2>3, <3>7
    <2> QED  BY <2>5, <2>6, <2>7
  <1>2. CASE \E r \in {r \in Hybrid!Answers \cup {"fail"} : errors < MaxErrors} :
                o = [ret |-> r, found |-> FALSE, item |-> None, err |-> 1]
    <2>1. ~o.found /\ o.err = 1 /\ errors < MaxErrors  BY <1>2
    <2>2. chPq' = q /\ match' = match  BY <2>1 DEF Hybrid!ScanPcre
    <2>3. scanStart' = [scanStart EXCEPT ![p] = IF o.ret = "skip" THEN BlockLength ELSE v]
      BY <2>1 DEF Hybrid!ScanPcre
    <2>4. errors' \in 0 .. MaxErrors
      <3>1. errors' = errors + 1  BY <2>1 DEF Hybrid!ScanPcre
      <3>2. MaxErrors \in Nat  BY HybridConstants
      <3> QED  BY <2>1, <3>1, <3>2
    <2>5. Hybrid!CutBy(p, o) = cut \cup {p}  BY <2>1 DEF Hybrid!CutBy
    <2>6. Hybrid!Verdict(o) \in {"SCAN_TERMINATED", "FAIL_INTERNAL"}  BY DEF Hybrid!Verdict
    <2>7. AtLimit(p, q, IF o.ret = "skip" THEN BlockLength ELSE v)
      BY <2>2, <2>3, <2>4 DEF AtLimit
    <2> QED  BY <2>5, <2>6, <2>7
  <1> QED  BY <1>1, <1>2 DEF Hybrid!Outcomes

----------------------------------------------------------------------------
(* Steps that keep the data and the database                               *)

Frame == ends' = ends /\ db' = db

\* PCRE finds the same after the step.
LEMMA FirstSame == ASSUME Frame PROVE \A p, s : Hybrid!First(p, s)' = Hybrid!First(p, s)
  BY Zenon DEF Frame, Hybrid!First

\* So does what is said of the data in terms of it.
LEMMA FrameIs ==
    ASSUME Frame
    PROVE  /\ EndsOK' <=> EndsOK
           /\ \A h, p : Now(h, p)' = Now(h, p) /\ (Over(h, p)' <=> Over(h, p))
           /\ \A p, s, o, l, c, j : NotMissed(p, s, o, l, c, j)' <=> NotMissed(p, s, o, l, c, j)
           /\ \A p, o, l : Silent(p, o, l)' <=> Silent(p, o, l)
           /\ \A p, s, m : Leftmost(p, s, m)' <=> Leftmost(p, s, m)
  <1>1. EndsOK' <=> EndsOK  BY DEF Frame, EndsOK, Hybrid!Fixed
  <1>2. \A h, p : Now(h, p)' = Now(h, p)  BY FirstSame DEF Now
  <1>3. \A h, p : Over(h, p)' <=> Over(h, p)  BY DEF Over, Frame
  <1>4. \A p, s, o, l, c, j : NotMissed(p, s, o, l, c, j)' <=> NotMissed(p, s, o, l, c, j)
    BY DEF NotMissed, Frame
  <1>5. \A p, o, l : Silent(p, o, l)' <=> Silent(p, o, l)  BY DEF Silent, Frame
  <1>6. \A p, s, m : Leftmost(p, s, m)' <=> Leftmost(p, s, m)  BY DEF Leftmost, Frame
  <1> QED  BY <1>1, <1>2, <1>3, <1>4, <1>5, <1>6

\* The history after the step, with the data before it.
LEMMA FrameHistory ==
    ASSUME Frame
    PROVE  HistoryOK(cbs)' <=> HistoryOK(cbs')
  BY FirstSame DEF HistoryOK, Frame

\* The queue after the step, with the data before it.
LEMMA FrameQueue ==
    ASSUME Frame
    PROVE  QueueOK(chPq, cbs, active, cut, scanStart, match)'
              <=> QueueOK(chPq', cbs', active', cut', scanStart', match')
  <1>1. \A x : x = Now(cbs, x.id)' <=> x = Now(cbs', x.id)  BY FirstSame DEF Now
  <1>2. \A x : Over(cbs, x.id)' <=> Over(cbs', x.id)  BY DEF Over, Frame
  <1>3. \A x : NextOf(cbs, active, cut, scanStart, match, x)'
               <=> NextOf(cbs', active', cut', scanStart', match', x)
    BY <1>1, <1>2 DEF NextOf, Now, Over
  <1>4. Ranked(chPq)' <=> Ranked(chPq')  OBVIOUS
  <1>5. Items(chPq)' = Items(chPq')  OBVIOUS
  <1> QED  BY <1>3, <1>4, <1>5 DEF QueueOK

\* The active patterns after the step, with the data before it.
LEMMA FrameCovers ==
    ASSUME Frame
    PROVE  Covers(chPq, cbs, active, cut, chPc, chJob)'
              <=> Covers(chPq', cbs', active', cut', chPc', chJob')
  BY FirstSame DEF Covers, Now, Over, Frame

\* The fixed-width patterns after the step, with the data before it.
LEMMA FrameFixed ==
    ASSUME Frame
    PROVE  FixedOK(chPq, active, cut, scanStart, cur, todo, chPc, chJob)'
              <=> FixedOK(chPq', active', cut', scanStart', cur', todo', chPc', chJob')
  BY DEF FixedOK, NotMissed, Hybrid!Fixed, Frame

\* The types after a step.
LEMMA TypesNext ==
    ASSUME Hybrid!TypeOK, Frame,
           chPc' \in {"idle", "init", "multi", "catchup", "finish"},
           cur' \in Offset, todo' \subseteq Patterns, active' \subseteq Patterns,
           scanStart' \in [Patterns -> 0 .. BlockLength + 1],
           match' \in [Patterns -> Hybrid!Span], chPq' \in Seq(Hybrid!Item),
           chJob' \in Hybrid!Item \cup {Hybrid!Flush},
           res' \in {"SUCCESS", "SCAN_TERMINATED", "FAIL_INTERNAL"},
           errors' \in 0 .. MaxErrors, cut' \subseteq Patterns, cbs' \in Seq(Callback)
    PROVE  Hybrid!TypeOK'
  BY DEF Hybrid!TypeOK, Offset, Callback, Frame

\* The invariant after a step, from its parts.
LEMMA HybridStep ==
    ASSUME Frame, Hybrid!TypeOK', HistoryOK(cbs'), ReturnOK',
           chPc' # "idle" /\ res' = "SUCCESS" =>
              /\ QueueOK(chPq', cbs', active', cut', scanStart', match')
              /\ AnswersOK(cbs', active', cut')
              /\ Covers(chPq', cbs', active', cut', chPc', chJob')
              /\ FixedOK(chPq', active', cut', scanStart', cur', todo', chPc', chJob')
              /\ SilentOK' /\ PlaceOK' /\ MatchOK'
              /\ ForFlush' /\ chPc' = "finish" => chPq' = <<>>
    PROVE  HybridInv'
  <1>1. HistoryOK(cbs)'  BY FrameHistory
  <1>2. chPc' # "idle" /\ res' = "SUCCESS" => ScanOK'
    <2> SUFFICES ASSUME chPc' # "idle", res' = "SUCCESS" PROVE ScanOK'  OBVIOUS
    <2>1. QueueOK(chPq, cbs, active, cut, scanStart, match)'  BY FrameQueue
    <2>2. AnswersOK(cbs, active, cut)'  OBVIOUS
    <2>3. Covers(chPq, cbs, active, cut, chPc, chJob)'  BY FrameCovers
    <2>4. FixedOK(chPq, active, cut, scanStart, cur, todo, chPc, chJob)'  BY FrameFixed
    <2>5. SilentOK' /\ PlaceOK' /\ MatchOK' /\ (ForFlush' /\ chPc' = "finish" => chPq' = <<>>)
      OBVIOUS
    <2> QED  BY <2>1, <2>2, <2>3, <2>4, <2>5 DEF ScanOK
  <1> QED  BY <1>1, <1>2 DEF HybridInv

\* A scan begins with nothing.
LEMMA ChScanInv == ASSUME HybridInv, Hybrid!ChScan PROVE HybridInv'
  <1>1. Hybrid!TypeOK  BY DEF HybridInv
  <1>2. /\ chPc' = "init" /\ todo' = db.unguarded /\ db' = db /\ active' = {} /\ chPq' = <<>>
        /\ cur' = 0 /\ res' = "SUCCESS" /\ errors' = 0 /\ cut' = {} /\ cbs' = <<>>
        /\ scanStart' = scanStart /\ match' = match /\ chJob' = chJob
    BY DEF Hybrid!ChScan, Hybrid!ClearActive
  <1>3. Hybrid!DataFits(db, ends)'  BY <1>2 DEF Hybrid!ChScan, Hybrid!DataFits, Hybrid!Fixed
  <1>4. 0 \in Offset /\ 0 \in 0 .. MaxErrors  BY HybridConstants DEF Offset
  <1>5. todo' \subseteq Patterns  BY <1>1, <1>2, HybridTypes
  <1>6. Hybrid!TypeOK'
    BY <1>1, <1>2, <1>3, <1>4, <1>5 DEF Hybrid!TypeOK, Offset
  <1>7. HistoryOK(cbs)'
    <2>1. DOMAIN cbs' = {}  BY <1>2
    <2> QED  BY <2>1 DEF HistoryOK
  <1>8. ReturnOK'
    <2>1. Cardinality(Patterns) \in Nat  BY HybridConstants, FS_CardinalityType
    <2>2. Len(chPq') <= Cardinality(Patterns)  BY <1>2, <2>1
    <2> QED  BY <1>2, <2>2 DEF ReturnOK
  <1>9. ScanOK'
    <2>1. DOMAIN cbs' = {} /\ DOMAIN chPq' = {}  BY <1>2
    <2>2. QueueOK(chPq, cbs, active, cut, scanStart, match)'
      <3>1. Ranked(chPq') /\ Items(chPq') = {}  BY <1>2, <2>1 DEF Ranked, Items
      <3> QED  BY <3>1 DEF QueueOK
    <2>3. AnswersOK(cbs, active, cut)'  BY <1>2, <2>1 DEF AnswersOK
    <2>4. Covers(chPq, cbs, active, cut, chPc, chJob)'  BY <1>2 DEF Covers
    <2>5. FixedOK(chPq, active, cut, scanStart, cur, todo, chPc, chJob)'  BY <1>2 DEF FixedOK
    <2>6. SilentOK'  BY <1>2 DEF SilentOK, ForMatch, ForFlush
    <2>7. PlaceOK'  BY <1>2 DEF PlaceOK, ForMatch
    <2>8. MatchOK' /\ (ForFlush' /\ chPc' = "finish" => chPq' = <<>>)
      BY <1>2 DEF MatchOK, ForMatch
    <2> QED  BY <2>2, <2>3, <2>4, <2>5, <2>6, <2>7, <2>8 DEF ScanOK
  <1> QED  BY <1>6, <1>7, <1>8, <1>9 DEF HybridInv

\* What hs_scan reports at an offset: no fixed-width pattern that does not
\* match there, and every pattern that does and that it still has to report.
Hits(L, o) ==
    /\ L \subseteq Patterns /\ \A p \in L : p \in Hybrid!Guarded(db)
    /\ \A p \in Patterns : \A b \in Offset :
          /\ p \notin db.unguarded /\ ends[p][b] = o
          /\ p \in Hybrid!Fixed(db) \/ p \notin active
          => p \in L
    /\ \A p \in L : p \in Hybrid!Fixed(db) =>
          o >= db.width[p] /\ ends[p][o - db.width[p]] = o

\* The model's reports are such.
LEMMA ReportsIs ==
    ASSUME Hybrid!TypeOK, NEW o \in Offset, NEW L \in Hybrid!Reports(db, ends, active, o)
    PROVE  Hits(L, o)
  <1>0. BlockLength \in Nat  BY HybridConstants
  <1>1. PICK M : M = {p \in Hybrid!Guarded(db) :
                         /\ \E b \in Offset : ends[p][b] = o
                         /\ p \in Hybrid!Fixed(db) \/ p \notin active}
    OBVIOUS
  <1>2. PICK x \in SUBSET Hybrid!Confirm(db) : L = M \cup x
    BY <1>1 DEF Hybrid!Reports, Offset
  <1>3. /\ Hybrid!Guarded(db) = Patterns \ db.unguarded
        /\ Hybrid!Confirm(db) = Hybrid!Guarded(db) \ Hybrid!Fixed(db)
    BY DEF Hybrid!Guarded, Hybrid!Confirm
  <1>4. \A p \in L : p \in Hybrid!Guarded(db) /\ p \in Patterns  BY <1>1, <1>2, <1>3
  <1>5. \A p \in Patterns : \A b \in Offset :
              /\ p \notin db.unguarded /\ ends[p][b] = o
              /\ p \in Hybrid!Fixed(db) \/ p \notin active
              => p \in L
    BY <1>1, <1>2, <1>3
  <1>6. ASSUME NEW p \in L, p \in Hybrid!Fixed(db)
        PROVE  o >= db.width[p] /\ ends[p][o - db.width[p]] = o
    <2>1. p \in M  BY <1>2, <1>3, <1>6
    <2>2. PICK b \in Offset : ends[p][b] = o  BY <1>1, <2>1
    <2>3. p \in Patterns /\ db.width[p] \in Nat  BY <1>4, <1>6, HybridTypes
    <2>4. o # None /\ o \in Nat /\ b \in Nat
      BY <1>0, HybridConstants DEF Offset
    <2>5. EndsOK  BY HybridTypes
    <2>6. o = b + db.width[p]  BY <1>6, <2>2, <2>3, <2>4, <2>5 DEF EndsOK
    <2>7. o - db.width[p] = b /\ o >= db.width[p]  BY <2>3, <2>4, <2>6
    <2> QED  BY <2>2, <2>7
  <1> QED  BY <1>4, <1>5, <1>6 DEF Hits

\* hs_scan starts, or there is nothing for it to find.
LEMMA StartMultiInv == ASSUME HybridInv, Hybrid!StartMulti PROVE HybridInv'
  <1>1. /\ chPc = "init" /\ todo = {} /\ Frame /\ cur' = cur /\ active' = active
        /\ scanStart' = scanStart /\ match' = match /\ chPq' = chPq /\ res' = res
        /\ errors' = errors /\ cut' = cut /\ cbs' = cbs
        /\ \/ /\ chPc' = "multi" /\ todo' \in Hybrid!Reports(db, ends, active, 0)
              /\ chJob' = chJob
           \/ /\ Hybrid!Guarded(db) = {}
              /\ chPc' = "catchup" /\ chJob' = Hybrid!Flush /\ todo' = todo
    BY DEF Hybrid!StartMulti, Frame
  <1>2. Hybrid!TypeOK /\ HistoryOK(cbs) /\ ReturnOK  BY DEF HybridInv
  <1>3. res = "SUCCESS" /\ ScanOK  BY <1>1 DEF HybridInv, ReturnOK
  <1>4. /\ QueueOK(chPq, cbs, active, cut, scanStart, match) /\ AnswersOK(cbs, active, cut)
        /\ Covers(chPq, cbs, active, cut, chPc, chJob)
        /\ cbs = <<>> /\ cur = 0 /\ active = db.unguarded
    BY <1>1, <1>3 DEF ScanOK, PlaceOK
  <1>5. cur \in Offset /\ EndsOK /\ db.unguarded \subseteq Patterns  BY <1>2, HybridTypes
  <1>6. todo' \subseteq Patterns
    <2>1. CASE todo' \in Hybrid!Reports(db, ends, active, 0)
      BY <1>2, <1>4, <1>5, <2>1, ReportsIs DEF Hits
    <2> QED  BY <1>1, <2>1
  <1>7. Hybrid!TypeOK'
    BY <1>1, <1>2, <1>6, TypesNext, HybridTypes DEF Hybrid!TypeOK, Callback
  <1>8. HistoryOK(cbs')  BY <1>1, <1>2
  <1>9. ReturnOK'  BY <1>1, <1>2, <1>3 DEF ReturnOK
  <1>10. /\ QueueOK(chPq', cbs', active', cut', scanStart', match')
         /\ AnswersOK(cbs', active', cut')
    BY <1>1, <1>4
  <1>11. Covers(chPq', cbs', active', cut', chPc', chJob')
    BY <1>1, <1>4 DEF Covers, Leaving
  <1>12. FixedOK(chPq', active', cut', scanStart', cur', todo', chPc', chJob')
    <2>1. \A p \in Hybrid!Fixed(db) : p \notin active  BY <1>2, <1>4, HybridTypes
    <2> QED  BY <1>1, <2>1 DEF FixedOK
  <1>13. SilentOK'
    <2> SUFFICES ASSUME NEW p \in Patterns, p \notin db.unguarded, p \notin active
                 PROVE  /\ (chPc = "multi" \/ ForMatch)' => Silent(p, cur, todo)'
                        /\ ForFlush' => \A b \in Offset : ends[p][b] = None
      BY <1>1 DEF SilentOK, Frame
    <2>1. CASE chPc' = "multi" /\ todo' \in Hybrid!Reports(db, ends, active, 0)
      <3>1. \A b \in Offset : ends[p][b] = 0 => p \in todo'
        BY <1>2, <1>4, <1>5, <2>1, ReportsIs DEF Hits
      <3>2. \A b \in Offset : ends[p][b] # None => ends[p][b] \in Nat
        BY <1>5, HybridConstants DEF EndsOK, Offset
      <3>3. Silent(p, 0, todo')  BY <3>1, <3>2 DEF Silent
      <3>4. Silent(p, cur, todo)'  BY <1>1, <1>4, <3>3 DEF Silent, Frame
      <3> QED  BY <2>1, <3>4 DEF ForFlush
    <2>2. CASE Hybrid!Guarded(db) = {}  BY <2>2 DEF Hybrid!Guarded
    <2> QED  BY <1>1, <2>1, <2>2
  <1>14. PlaceOK'
    <2>1. \A k \in DOMAIN cbs : cbs[k].span.to <= cur  BY <1>4
    <2>2. CASE chPc' = "multi" /\ todo' \in Hybrid!Reports(db, ends, active, 0)
      <3>1. /\ \A p \in todo' : p \in Hybrid!Guarded(db)
            /\ \A p \in todo' : p \in Hybrid!Fixed(db) =>
                  cur >= db.width[p] /\ ends[p][cur - db.width[p]] = cur
        BY <1>2, <1>4, <1>5, <2>2, ReportsIs DEF Hits
      <3> QED
        BY <1>1, <1>4, <2>1, <2>2, <3>1 DEF PlaceOK, Frame, Hybrid!Guarded, Hybrid!Fixed
    <2>3. CASE chPc' = "catchup" /\ chJob' = Hybrid!Flush /\ todo' = todo
      BY <1>1, <1>4, <2>3 DEF PlaceOK, Frame, ForMatch
    <2> QED  BY <1>1, <2>2, <2>3
  <1>15. MatchOK' /\ (ForFlush' /\ chPc' = "finish" => chPq' = <<>>)
    BY <1>1 DEF MatchOK, ForMatch
  <1> QED  BY <1>1, <1>7, <1>8, <1>9, <1>10, <1>11, <1>12, <1>13, <1>14, <1>15, HybridStep

\* hs_scan goes on to the next offset, or is through.
LEMMA AdvanceInv == ASSUME HybridInv, Hybrid!Advance PROVE HybridInv'
  <1>1. /\ chPc = "multi" /\ todo = {} /\ Frame /\ active' = active
        /\ scanStart' = scanStart /\ match' = match /\ chPq' = chPq /\ res' = res
        /\ errors' = errors /\ cut' = cut /\ cbs' = cbs
        /\ \/ /\ cur < BlockLength /\ cur' = cur + 1
              /\ todo' \in Hybrid!Reports(db, ends, active, cur + 1)
              /\ chPc' = chPc /\ chJob' = chJob
           \/ /\ cur = BlockLength /\ cur' = cur /\ todo' = todo
              /\ chPc' = "catchup" /\ chJob' = Hybrid!Flush
    BY DEF Hybrid!Advance, Frame
  <1>2. Hybrid!TypeOK /\ HistoryOK(cbs) /\ ReturnOK  BY DEF HybridInv
  <1>3. res = "SUCCESS" /\ ScanOK  BY <1>1 DEF HybridInv, ReturnOK
  <1>4. /\ QueueOK(chPq, cbs, active, cut, scanStart, match) /\ AnswersOK(cbs, active, cut)
        /\ Covers(chPq, cbs, active, cut, chPc, chJob)
        /\ FixedOK(chPq, active, cut, scanStart, cur, todo, chPc, chJob)
        /\ SilentOK /\ PlaceOK
    BY <1>3 DEF ScanOK
  <1>5. cur \in Offset /\ EndsOK /\ cur \in Nat /\ BlockLength \in Nat
    BY <1>2, HybridTypes, HybridConstants DEF Offset
  <1>6. \A p \in Patterns : \A b \in Offset :
           ends[p][b] # None => ends[p][b] \in Nat /\ ends[p][b] <= BlockLength
    <2> SUFFICES ASSUME NEW p \in Patterns, NEW b \in Offset, ends[p][b] # None
                 PROVE  ends[p][b] \in Nat /\ ends[p][b] <= BlockLength
      OBVIOUS
    <2>1. ends[p][b] \in b .. BlockLength  BY <1>5 DEF EndsOK
    <2>2. b \in Nat  BY <1>5 DEF Offset
    <2> QED  BY <1>5, <2>1, <2>2
  <1>6a. cur < BlockLength => cur + 1 \in Offset  BY <1>5 DEF Offset
  <1>6b. todo' \in Hybrid!Reports(db, ends, active, cur + 1) /\ cur < BlockLength =>
          Hits(todo', cur + 1)
    <2> SUFFICES ASSUME todo' \in Hybrid!Reports(db, ends, active, cur + 1), cur < BlockLength
                 PROVE  Hits(todo', cur + 1)
      OBVIOUS
    <2>1. PICK o, L : o = cur + 1 /\ L = todo'  OBVIOUS
    <2>2. o \in Offset /\ L \in Hybrid!Reports(db, ends, active, o)  BY <1>6a, <2>1
    <2>3. Hits(L, o)  BY <1>2, <2>2, ReportsIs
    <2> QED  BY ONLY <2>1, <2>3
  <1>7. Hybrid!TypeOK'
    <2>1. todo' \subseteq Patterns /\ cur' \in Offset
      BY <1>1, <1>2, <1>5, <1>6a, <1>6b, HybridTypes DEF Hits
    <2>2. /\ chPc' \in {"idle", "init", "multi", "catchup", "finish"}
          /\ chJob' \in Hybrid!Item \cup {Hybrid!Flush}
      BY <1>1, <1>2, HybridTypes
    <2> QED  BY <1>1, <1>2, <2>1, <2>2, TypesNext, HybridTypes DEF Hybrid!TypeOK
  <1>8. HistoryOK(cbs')  BY <1>1, <1>2
  <1>9. ReturnOK'  BY <1>1, <1>2, <1>3 DEF ReturnOK
  <1>10. /\ QueueOK(chPq', cbs', active', cut', scanStart', match')
         /\ AnswersOK(cbs', active', cut')
    BY <1>1, <1>4
  <1>11. Covers(chPq', cbs', active', cut', chPc', chJob')
    BY <1>1, <1>4 DEF Covers, Leaving
  <1>12. FixedOK(chPq', active', cut', scanStart', cur', todo', chPc', chJob')
    <2> SUFFICES ASSUME NEW p \in Hybrid!Fixed(db), p \in active
                 PROVE  /\ p \in cut => scanStart[p] >= BlockLength
                        /\ p \notin cut /\ p \notin db.single =>
                              /\ NotMissed(p, scanStart[p], cur', todo', chPc', chJob')
                              /\ \/ InQ(chPq, p) \/ scanStart[p] >= BlockLength
                                 \/ Leaving(chPc', chJob', p)
      BY <1>1 DEF FixedOK
    <2>1. /\ p \in cut => scanStart[p] >= BlockLength
          /\ p \notin cut /\ p \notin db.single =>
                /\ NotMissed(p, scanStart[p], cur, todo, chPc, chJob)
                /\ InQ(chPq, p) \/ scanStart[p] >= BlockLength
      BY <1>1, <1>4 DEF FixedOK, Leaving
    <2>2. p \in Patterns /\ p \notin db.unguarded  BY <1>2, HybridTypes
    <2>3. ASSUME NotMissed(p, scanStart[p], cur, todo, chPc, chJob)
          PROVE  NotMissed(p, scanStart[p], cur', todo', chPc', chJob')
      <3> SUFFICES ASSUME NEW b \in Offset, scanStart[p] <= b, ends[p][b] # None
                   PROVE  ends[p][b] > cur' \/ (ends[p][b] = cur' /\ p \in todo')
        BY DEF NotMissed
      <3>1. ends[p][b] > cur  BY <1>1, <2>3 DEF NotMissed
      <3>2. ends[p][b] \in Nat /\ ends[p][b] <= BlockLength  BY <1>6, <2>2
      <3>3. cur < BlockLength /\ ends[p][b] = cur + 1
            /\ todo' \in Hybrid!Reports(db, ends, active, cur + 1) => p \in todo'
        BY <1>6b, <2>2 DEF Hits
      <3>4. ends[p][b] > cur + 1 \/ ends[p][b] = cur + 1  BY <1>5, <3>1, <3>2
      <3> QED  BY <1>1, <1>5, <3>1, <3>2, <3>3, <3>4
    <2> QED  BY <2>1, <2>3
  <1>13. SilentOK'
    <2> SUFFICES ASSUME NEW p \in Patterns, p \notin db.unguarded, p \notin active
                 PROVE  /\ (chPc = "multi" \/ ForMatch)' => Silent(p, cur, todo)'
                        /\ ForFlush' => \A b \in Offset : ends[p][b] = None
      BY <1>1 DEF SilentOK, Frame
    <2>1. Silent(p, cur, todo)  BY <1>1, <1>4 DEF SilentOK
    <2>2. \A b \in Offset : ends[p][b] # None => ends[p][b] > cur  BY <1>1, <2>1 DEF Silent
    <2>3. CASE cur < BlockLength /\ cur' = cur + 1 /\ chPc' = chPc
               /\ todo' \in Hybrid!Reports(db, ends, active, cur + 1)
      <3>1. \A b \in Offset : ends[p][b] = cur + 1 => p \in todo'  BY <1>6b, <2>3 DEF Hits
      <3>2. \A b \in Offset : ends[p][b] # None => ends[p][b] > cur + 1 \/ ends[p][b] = cur + 1
        BY <1>5, <1>6, <2>2
      <3>3. Silent(p, cur, todo)'  BY <1>1, <2>3, <3>1, <3>2 DEF Silent, Frame
      <3> QED  BY <1>1, <2>3, <3>3 DEF ForFlush
    <2>4. CASE cur = BlockLength /\ chJob' = Hybrid!Flush /\ chPc' = "catchup"
      <3>1. \A b \in Offset : ends[p][b] = None  BY <1>5, <1>6, <2>2, <2>4
      <3> QED  BY <2>4, <3>1 DEF ForMatch
    <2> QED  BY <1>1, <2>3, <2>4
  <1>14. PlaceOK'
    <2>1. /\ db.unguarded \subseteq active
          /\ \A k \in DOMAIN cbs : cbs[k].span.to <= cur
      BY <1>1, <1>4 DEF PlaceOK
    <2>2. CASE cur < BlockLength /\ cur' = cur + 1 /\ chPc' = chPc
               /\ todo' \in Hybrid!Reports(db, ends, active, cur + 1)
      <3>1. \A k \in DOMAIN cbs : cbs[k].span.to <= cur + 1
        <4>1. \A k \in DOMAIN cbs : cbs[k].span.to \in Nat
          <5>1. cbs \in Seq(Callback)  BY <1>2, HybridTypes
          <5>2. \A k \in DOMAIN cbs : cbs[k] \in Callback  BY <5>1
          <5> QED  BY <5>2, CallbackIs, HybridConstants DEF Offset
        <4> QED  BY <1>5, <2>1, <4>1
      <3>2. Hits(todo', cur')  BY <1>6b, <2>2
      <3>3. /\ \A k \in DOMAIN cbs' : cbs'[k].span.to <= cur'
            /\ \A p \in todo' : p \in Hybrid!Guarded(db')
            /\ \A p \in todo' : p \in Hybrid!Fixed(db') =>
                  cur' >= db'.width[p] /\ ends'[p][cur' - db'.width[p]] = cur'
        BY <1>1, <2>2, <3>1, <3>2 DEF Frame, Hits
      <3> QED
        BY <1>1, <2>1, <2>2, <3>3 DEF PlaceOK, Frame, Hybrid!Guarded, Hybrid!Fixed
    <2>3. CASE chPc' = "catchup" /\ chJob' = Hybrid!Flush
      BY <1>1, <2>1, <2>3 DEF PlaceOK, Frame, ForMatch
    <2> QED  BY <1>1, <2>2, <2>3
  <1>15. MatchOK' /\ (ForFlush' /\ chPc' = "finish" => chPq' = <<>>)
    BY <1>1 DEF MatchOK, ForMatch
  <1> QED  BY <1>1, <1>7, <1>8, <1>9, <1>10, <1>11, <1>12, <1>13, <1>14, <1>15, HybridStep

\* A pattern becomes active: its first match is queued, or it has none, or it
\* is given up.
Activated(p) ==
    /\ Frame /\ cbs' = cbs /\ active' = active \cup {p}
    /\ \/ /\ \E x : /\ Leftmost(p, 0, x) /\ chPq' = Hybrid!Insert(chPq, x)
                    /\ \A k \in DOMAIN cbs : cbs[k].span.to <= x.to
                    /\ match' = [match EXCEPT ![p] = Spanned(x)]
                    /\ scanStart' = [scanStart EXCEPT ![p] = Hybrid!StartAfter(x)]
          /\ cut' = cut
       \/ /\ \A b \in Offset : ends[p][b] = None
          /\ chPq' = chPq /\ match' = match /\ cut' = cut
          /\ \E v \in 0 .. BlockLength + 1 : scanStart' = [scanStart EXCEPT ![p] = v]
       \/ /\ chPq' = chPq /\ match' = match /\ cut' = cut \cup {p}
          /\ \E v \in 0 .. BlockLength + 1 : scanStart' = [scanStart EXCEPT ![p] = v]

\* A pattern that becomes active keeps the queue, the answers and the cover right.
LEMMA ActivatedIs ==
    ASSUME Hybrid!TypeOK, NEW p \in Patterns, p \notin active, Activated(p),
           QueueOK(chPq, cbs, active, cut, scanStart, match), AnswersOK(cbs, active, cut),
           Covers(chPq, cbs, active, cut, chPc, chJob), chPc # "finish"
    PROVE  /\ QueueOK(chPq', cbs', active', cut', scanStart', match')
           /\ AnswersOK(cbs', active', cut')
           /\ Covers(chPq', cbs', active', cut', chPc', chJob')
           /\ scanStart' \in [Patterns -> 0 .. BlockLength + 1]
           /\ match' \in [Patterns -> Hybrid!Span]
           /\ chPq' \in Seq(Hybrid!Item) /\ Len(chPq') <= Cardinality(Patterns)
           /\ active' \subseteq Patterns /\ cut' \subseteq Patterns
           /\ \A r \in Patterns : r # p => scanStart'[r] = scanStart[r]
           /\ \A r : InQ(chPq, r) => InQ(chPq', r)
           /\ \A r : r \in cut' <=> r \in cut \/ (r = p /\ cut' # cut)
  <1>0. /\ EndsOK /\ active \subseteq Patterns /\ cut \subseteq Patterns
        /\ scanStart \in [Patterns -> 0 .. BlockLength + 1]
        /\ match \in [Patterns -> Hybrid!Span] /\ cbs \in Seq(Callback)
    BY HybridTypes
  <1>1. Frame /\ cbs' = cbs /\ active' = active \cup {p}  BY DEF Activated
  <1>2. Ranked(chPq) /\ \A x \in Items(chPq) : NextOf(cbs, active, cut, scanStart, match, x)
    BY DEF QueueOK
  <1>3. \A x \in Items(chPq) : x.id # p  BY <1>2 DEF NextOf
  <1>4. ToldIn(cbs, p, Len(cbs)) = {}
    <2>1. DOMAIN cbs = 1 .. Len(cbs)  BY <1>0
    <2> QED  BY <2>1 DEF AnswersOK, ToldIn
  <1>5. Now(cbs, p) = Hybrid!First(p, 0) /\ ~Over(cbs, p)
    BY <1>4 DEF Now, GoOnAt, Over
  <1>6. p \notin cut  BY DEF AnswersOK
  <1>7. AnswersOK(cbs', active', cut')
    <2>1. cut' = cut \/ cut' = cut \cup {p}  BY DEF Activated
    <2> QED  BY <1>1, <2>1 DEF AnswersOK
  <1>8. \A r \in active : r \in cut \/ InQ(chPq, r) \/ Now(cbs, r) = None \/ Over(cbs, r)
    BY DEF Covers, Leaving
  <1>9. CASE cut' = cut /\
             \E x : /\ Leftmost(p, 0, x) /\ chPq' = Hybrid!Insert(chPq, x)
                    /\ \A k \in DOMAIN cbs : cbs[k].span.to <= x.to
                    /\ match' = [match EXCEPT ![p] = Spanned(x)]
                    /\ scanStart' = [scanStart EXCEPT ![p] = Hybrid!StartAfter(x)]
    <2>1. PICK x : /\ Leftmost(p, 0, x) /\ chPq' = Hybrid!Insert(chPq, x)
                   /\ \A k \in DOMAIN cbs : cbs[k].span.to <= x.to
                   /\ match' = [match EXCEPT ![p] = Spanned(x)]
                   /\ scanStart' = [scanStart EXCEPT ![p] = Hybrid!StartAfter(x)]
      BY <1>9
    <2>2. x \in Hybrid!Item /\ x.id = p  BY <2>1 DEF Leftmost
    <2>3. PICK q2, sc, mt : q2 = chPq' /\ sc = scanStart' /\ mt = match'  OBVIOUS
    <2>4. Ranked(q2) /\ Items(q2) = Items(chPq) \cup {x}
      BY <1>2, <1>3, <2>1, <2>2, <2>3, InsertIs
    <2>5. Hybrid!First(p, 0) = x  BY <1>0, <2>1, LeftmostIs
    <2>6. /\ sc[p] = Hybrid!StartAfter(x) /\ mt[p] = Spanned(x)
          /\ \A r \in Patterns : r # p => sc[r] = scanStart[r] /\ mt[r] = match[r]
          /\ sc \in [Patterns -> 0 .. BlockLength + 1] /\ mt \in [Patterns -> Hybrid!Span]
      BY <1>0, <2>1, <2>2, <2>3, StartAfterIs
    <2>7. NextOf(cbs, active', cut, sc, mt, x)
      BY <1>1, <1>5, <1>6, <2>1, <2>2, <2>5, <2>6 DEF NextOf
    <2>8. \A y \in Items(chPq) : NextOf(cbs, active', cut, sc, mt, y)
      <3> SUFFICES ASSUME NEW y \in Items(chPq) PROVE NextOf(cbs, active', cut, sc, mt, y)
        OBVIOUS
      <3>1. NextOf(cbs, active, cut, scanStart, match, y) /\ y.id # p  BY <1>2, <1>3
      <3>2. y.id \in Patterns  BY <1>0, <3>1 DEF NextOf
      <3> QED  BY <1>1, <2>6, <3>1, <3>2 DEF NextOf
    <2>9. QueueOK(q2, cbs, active', cut, sc, mt)  BY <2>4, <2>7, <2>8 DEF QueueOK
    <2>10. \A r : InQ(chPq, r) => InQ(q2, r)  BY <2>4 DEF InQ
    <2>11. InQ(q2, p)  BY <2>2, <2>4 DEF InQ
    <2>12. Covers(q2, cbs, active', cut, chPc', chJob')
      BY <1>1, <1>8, <2>10, <2>11 DEF Covers
    <2>13. q2 \in Seq(Hybrid!Item) /\ Len(q2) <= Cardinality(Patterns)
      BY <2>4, RankedFits DEF Ranked
    <2> QED
      BY <1>0, <1>1, <1>7, <1>9, <2>3, <2>6, <2>9, <2>10, <2>12, <2>13
  <1>10. CASE /\ chPq' = chPq /\ match' = match
              /\ cut' = cut \/ cut' = cut \cup {p}
              /\ cut' = cut => Hybrid!First(p, 0) = None
              /\ \E v \in 0 .. BlockLength + 1 : scanStart' = [scanStart EXCEPT ![p] = v]
    <2>1. PICK v \in 0 .. BlockLength + 1 : scanStart' = [scanStart EXCEPT ![p] = v]  BY <1>10
    <2>2. PICK sc, c : sc = scanStart' /\ c = cut'  OBVIOUS
    <2>3. /\ sc \in [Patterns -> 0 .. BlockLength + 1]
          /\ \A r \in Patterns : r # p => sc[r] = scanStart[r]
      BY <1>0, <2>1, <2>2
    <2>4. \A y \in Items(chPq) : NextOf(cbs, active', c, sc, match, y)
      <3> SUFFICES ASSUME NEW y \in Items(chPq) PROVE NextOf(cbs, active', c, sc, match, y)
        OBVIOUS
      <3>1. NextOf(cbs, active, cut, scanStart, match, y) /\ y.id # p  BY <1>2, <1>3
      <3>2. y.id \in Patterns  BY <1>0, <3>1 DEF NextOf
      <3>3. y.id \notin c  BY <1>10, <2>2, <3>1 DEF NextOf
      <3> QED  BY <1>1, <2>3, <3>1, <3>2, <3>3 DEF NextOf
    <2>5. QueueOK(chPq', cbs', active', cut', scanStart', match')
      BY <1>1, <1>2, <1>10, <2>2, <2>4 DEF QueueOK
    <2>6. Covers(chPq', cbs', active', cut', chPc', chJob')
      BY <1>1, <1>5, <1>8, <1>10 DEF Covers
    <2>7. chPq' \in Seq(Hybrid!Item) /\ Len(chPq') <= Cardinality(Patterns)
      BY <1>2, <1>10, RankedFits DEF Ranked
    <2>8. cut' \subseteq Patterns /\ \A r : r \in cut' <=> r \in cut \/ (r = p /\ cut' # cut)
      BY <1>0, <1>6, <1>10
    <2> QED  BY <1>0, <1>1, <1>7, <1>10, <2>2, <2>3, <2>5, <2>6, <2>7, <2>8
  <1>11. (\A b \in Offset : ends[p][b] = None) => Hybrid!First(p, 0) = None
    <2> SUFFICES ASSUME \A b \in Offset : ends[p][b] = None PROVE Hybrid!First(p, 0) = None
      OBVIOUS
    <2>1. ~Leftmost(p, 0, Hybrid!First(p, 0))  BY ItemIs DEF Leftmost
    <2> QED  BY <1>0, <2>1, FirstIs
  <1>12. cut \cup {p} # cut  BY <1>6
  <1> QED  BY <1>9, <1>10, <1>11, <1>12 DEF Activated

\* PCRE runs from the beginning for a pattern that becomes active.
LEMMA ScanActivates ==
    ASSUME Hybrid!TypeOK, NEW p \in Patterns, Frame, cbs' = cbs, active' = active \cup {p},
           NEW v \in 0 .. BlockLength + 1, NEW o \in Hybrid!Outcomes(p, 0),
           Hybrid!ScanPcre(p, o, chPq, v), cut' = Hybrid!CutBy(p, o),
           \A x : Leftmost(p, 0, x) => \A k \in DOMAIN cbs : cbs[k].span.to <= x.to
    PROVE  /\ Activated(p) /\ errors' \in 0 .. MaxErrors
           /\ Hybrid!Fatal(o) => Hybrid!Verdict(o) \in {"SCAN_TERMINATED", "FAIL_INTERNAL"}
  <1>0. EndsOK /\ errors \in 0 .. MaxErrors /\ BlockLength \in 0 .. BlockLength + 1
    BY HybridTypes, HybridConstants
  <1>1. \/ /\ \E x : Found(p, 0, chPq, x)
           /\ ~Hybrid!Fatal(o) /\ Hybrid!CutBy(p, o) = cut
        \/ NoneFound(p, 0, chPq, v) /\ ~Hybrid!Fatal(o) /\ Hybrid!CutBy(p, o) = cut
        \/ /\ AtLimit(p, chPq, IF o.ret = "skip" THEN BlockLength ELSE v)
           /\ Hybrid!CutBy(p, o) = cut \cup {p}
           /\ Hybrid!Verdict(o) \in {"SCAN_TERMINATED", "FAIL_INTERNAL"}
    BY <1>0, ScanPcreIs
  <1>2. CASE (\E x : Found(p, 0, chPq, x)) /\ ~Hybrid!Fatal(o) /\ Hybrid!CutBy(p, o) = cut
    <2>1. PICK x : Found(p, 0, chPq, x)  BY <1>2
    <2>2. Leftmost(p, 0, x)  BY <2>1 DEF Found
    <2>3. Activated(p)  BY <1>2, <2>1, <2>2 DEF Activated, Found
    <2> QED  BY <1>0, <1>2, <2>1, <2>3 DEF Found
  <1>3. CASE NoneFound(p, 0, chPq, v) /\ ~Hybrid!Fatal(o) /\ Hybrid!CutBy(p, o) = cut
    <2>1. \A b \in Offset : 0 <= b  BY HybridConstants DEF Offset
    <2>2. Activated(p)  BY <1>3, <2>1 DEF Activated, NoneFound
    <2> QED  BY <1>0, <1>3, <2>2 DEF NoneFound
  <1>4. CASE /\ AtLimit(p, chPq, IF o.ret = "skip" THEN BlockLength ELSE v)
             /\ Hybrid!CutBy(p, o) = cut \cup {p}
             /\ Hybrid!Verdict(o) \in {"SCAN_TERMINATED", "FAIL_INTERNAL"}
    <2>1. PICK w \in 0 .. BlockLength + 1 : w = IF o.ret = "skip" THEN BlockLength ELSE v
      BY <1>0
    <2>2. /\ chPq' = chPq /\ match' = match
          /\ scanStart' = [scanStart EXCEPT ![p] = w] /\ errors' \in 0 .. MaxErrors
      BY <1>4, <2>1 DEF AtLimit
    <2>3. Activated(p)  BY <1>4, <2>2 DEF Activated
    <2> QED  BY <1>4, <2>2, <2>3
  <1> QED  BY <1>1, <1>2, <1>3, <1>4

\* A scan that fails ends with the history it has.
LEMMA FailedInv ==
    ASSUME HybridInv, Frame, Hybrid!TypeOK', cbs' = cbs, chPc' = "idle",
           res' # "SUCCESS", Len(chPq') <= Cardinality(Patterns)
    PROVE  HybridInv'
  <1>1. HistoryOK(cbs')  BY DEF HybridInv
  <1>2. ReturnOK'  BY DEF ReturnOK
  <1> QED  BY <1>1, <1>2, HybridStep

\* The first matches of the unguarded patterns.
LEMMA InitQueueInv == ASSUME HybridInv, Hybrid!InitQueue PROVE HybridInv'
  <1>1. Hybrid!TypeOK /\ HistoryOK(cbs) /\ ReturnOK  BY DEF HybridInv
  <1>2. chPc = "init" /\ todo # {}  BY DEF Hybrid!InitQueue
  <1>3. res = "SUCCESS" /\ ScanOK  BY <1>2 DEF HybridInv, ReturnOK
  <1>4. PICK p : p = Hybrid!Min(todo)  OBVIOUS
  <1>5. p \in todo /\ todo \subseteq Patterns
    <2>1. todo \subseteq Patterns /\ Patterns \subseteq Nat  BY <1>1, HybridTypes, HybridConstants
    <2>2. p = Min(todo)  BY <1>4, LeastIs
    <2> QED  BY <1>2, <2>1, <2>2, MinIs
  <1>6. /\ Frame /\ todo' = todo \ {p} /\ active' = active \cup {p}
        /\ cur' = cur /\ chJob' = chJob /\ cbs' = cbs
    BY <1>4 DEF Hybrid!InitQueue, Frame
  <1>7. PICK o \in Hybrid!Outcomes(p, 0) :
            /\ Hybrid!ScanPcre(p, o, chPq, scanStart[p])
            /\ cut' = Hybrid!CutBy(p, o)
            /\ \/ Hybrid!Fatal(o) /\ chPc' = "idle" /\ res' = Hybrid!Verdict(o)
               \/ ~Hybrid!Fatal(o) /\ chPc' = chPc /\ res' = res
    BY <1>4 DEF Hybrid!InitQueue, Hybrid!Return
  <1>8. /\ cbs = <<>> /\ cur = 0 /\ todo \cap active = {} /\ active \cup todo = db.unguarded
        /\ QueueOK(chPq, cbs, active, cut, scanStart, match) /\ AnswersOK(cbs, active, cut)
        /\ Covers(chPq, cbs, active, cut, chPc, chJob)
    BY <1>2, <1>3 DEF ScanOK, PlaceOK
  <1>9. p \in Patterns /\ p \notin active /\ scanStart[p] \in 0 .. BlockLength + 1
    <2>1. p \in Patterns /\ p \notin active  BY <1>5, <1>8
    <2>2. scanStart \in [Patterns -> 0 .. BlockLength + 1]  BY <1>1, HybridTypes
    <2> QED  BY <2>1, <2>2
  <1>10. /\ Activated(p) /\ errors' \in 0 .. MaxErrors
         /\ Hybrid!Fatal(o) => Hybrid!Verdict(o) \in {"SCAN_TERMINATED", "FAIL_INTERNAL"}
    <2>1. PICK v \in 0 .. BlockLength + 1 : v = scanStart[p]  BY <1>9
    <2>2. Hybrid!ScanPcre(p, o, chPq, v)  BY <1>7, <2>1
    <2>3. \A x : Leftmost(p, 0, x) => \A k \in DOMAIN cbs : cbs[k].span.to <= x.to  BY <1>8
    <2> QED  BY <1>1, <1>6, <1>7, <1>9, <2>2, <2>3, ScanActivates
  <1>11. /\ QueueOK(chPq', cbs', active', cut', scanStart', match')
         /\ AnswersOK(cbs', active', cut')
         /\ Covers(chPq', cbs', active', cut', chPc', chJob')
         /\ scanStart' \in [Patterns -> 0 .. BlockLength + 1]
         /\ match' \in [Patterns -> Hybrid!Span]
         /\ chPq' \in Seq(Hybrid!Item) /\ Len(chPq') <= Cardinality(Patterns)
         /\ active' \subseteq Patterns /\ cut' \subseteq Patterns
    BY <1>1, <1>2, <1>8, <1>9, <1>10, ActivatedIs
  <1>12. Hybrid!TypeOK'
    <2>1. /\ chPc' \in {"idle", "init", "multi", "catchup", "finish"}
          /\ res' \in {"SUCCESS", "SCAN_TERMINATED", "FAIL_INTERNAL"}
      BY <1>2, <1>3, <1>7, <1>10
    <2>2. cur' \in Offset /\ todo' \subseteq Patterns /\ cbs' \in Seq(Callback)
          /\ chJob' \in Hybrid!Item \cup {Hybrid!Flush}
      BY <1>1, <1>5, <1>6, HybridTypes
    <2> QED  BY <1>1, <1>6, <1>10, <1>11, <2>1, <2>2, TypesNext
  <1>13. CASE Hybrid!Fatal(o)
    <2>1. chPc' = "idle" /\ res' # "SUCCESS"  BY <1>7, <1>10, <1>13
    <2> QED  BY <1>6, <1>11, <1>12, <2>1, FailedInv
  <1>14. CASE ~Hybrid!Fatal(o)
    <2>1. chPc' = "init" /\ res' = "SUCCESS"  BY <1>2, <1>3, <1>7, <1>14
    <2>2. HistoryOK(cbs')  BY <1>1, <1>6
    <2>3. ReturnOK'  BY <1>11, <2>1 DEF ReturnOK
    <2>4. FixedOK(chPq', active', cut', scanStart', cur', todo', chPc', chJob')
      <3>1. \A r \in Hybrid!Fixed(db) : r \notin db.unguarded  BY <1>1, HybridTypes
      <3>2. active' \subseteq db.unguarded  BY <1>5, <1>6, <1>8
      <3> QED  BY <3>1, <3>2 DEF FixedOK
    <2>5. SilentOK'  BY <2>1 DEF SilentOK, ForMatch, ForFlush
    <2>6. PlaceOK'
      <3>1. /\ cbs' = <<>> /\ cur' = 0 /\ todo' \cap active' = {}
            /\ active' \cup todo' = db'.unguarded
        BY <1>5, <1>6, <1>8 DEF Frame
      <3> QED  BY <2>1, <3>1 DEF PlaceOK, ForMatch
    <2>7. MatchOK' /\ (ForFlush' /\ chPc' = "finish" => chPq' = <<>>)
      BY <2>1 DEF MatchOK, ForMatch
    <2> QED  BY <1>6, <1>11, <1>12, <2>2, <2>3, <2>4, <2>5, <2>6, <2>7, HybridStep
  <1> QED  BY <1>13, <1>14

----------------------------------------------------------------------------
(* multiCallback                                                           *)

\* A step of multiCallback for p keeps the invariant when it does so for p:
\* hs_scan goes on, or is stopped because every pattern is active, or is
\* interrupted for a match.
LEMMA MultiStep ==
    ASSUME HybridInv, NEW p \in Patterns, chPc = "multi", todo' = todo \ {p}, Frame,
           cur' = cur, cbs' = cbs, active' = active \cup {p}, res' = res,
           errors' \in 0 .. MaxErrors,
           QueueOK(chPq', cbs', active', cut', scanStart', match'),
           AnswersOK(cbs', active', cut'),
           Covers(chPq', cbs', active', cut', chPc', chJob'),
           scanStart' \in [Patterns -> 0 .. BlockLength + 1],
           match' \in [Patterns -> Hybrid!Span],
           chPq' \in Seq(Hybrid!Item), Len(chPq') <= Cardinality(Patterns),
           cut' \subseteq Patterns,
           \A r \in Patterns : r # p => scanStart'[r] = scanStart[r] /\ (r \in cut' <=> r \in cut),
           \A r : InQ(chPq, r) => InQ(chPq', r),
           p \in Hybrid!Fixed(db) =>
              /\ p \in cut' => scanStart'[p] >= BlockLength
              /\ p \notin cut' /\ p \notin db.single =>
                    /\ NotMissed(p, scanStart'[p], cur, todo', chPc', chJob')
                    /\ InQ(chPq', p) \/ scanStart'[p] >= BlockLength,
           \/ chPc' = "multi" /\ chJob' = chJob
           \/ chPc' = "catchup" /\ chJob' = Hybrid!Flush /\ active' = Patterns
           \/ chPc' = "catchup" /\ chJob' \in Hybrid!Item /\ MatchOK'
    PROVE  HybridInv'
  <1>1. Hybrid!TypeOK /\ HistoryOK(cbs) /\ ReturnOK  BY DEF HybridInv
  <1>2. res = "SUCCESS" /\ ScanOK  BY DEF HybridInv, ReturnOK
  <1>3. /\ FixedOK(chPq, active, cut, scanStart, cur, todo, chPc, chJob)
        /\ SilentOK /\ PlaceOK
    BY <1>2 DEF ScanOK
  <1>4. Hybrid!TypeOK'
    <2>1. /\ active \subseteq Patterns /\ todo \subseteq Patterns /\ cur \in Offset
          /\ cbs \in Seq(Callback) /\ chJob \in Hybrid!Item \cup {Hybrid!Flush}
      BY <1>1, HybridTypes
    <2>2. active' \subseteq Patterns /\ todo' \subseteq Patterns  BY <2>1
    <2>3. /\ chPc' \in {"idle", "init", "multi", "catchup", "finish"}
          /\ chJob' \in Hybrid!Item \cup {Hybrid!Flush}
          /\ res' \in {"SUCCESS", "SCAN_TERMINATED", "FAIL_INTERNAL"}
      BY <1>2, <2>1
    <2> QED  BY <1>1, <2>1, <2>2, <2>3, TypesNext
  <1>5. HistoryOK(cbs')  BY <1>1
  <1>6. ReturnOK'  BY <1>2 DEF ReturnOK
  <1>7. FixedOK(chPq', active', cut', scanStart', cur', todo', chPc', chJob')
    <2> SUFFICES ASSUME NEW r \in Hybrid!Fixed(db), r \in active'
                 PROVE  /\ r \in cut' => scanStart'[r] >= BlockLength
                        /\ r \notin cut' /\ r \notin db.single =>
                              /\ NotMissed(r, scanStart'[r], cur, todo', chPc', chJob')
                              /\ InQ(chPq', r) \/ scanStart'[r] >= BlockLength
      BY DEF FixedOK
    <2>1. CASE r = p  BY <2>1
    <2>2. CASE r # p
      <3>1. r \in Patterns /\ r \in active  BY <1>1, <2>2, HybridTypes
      <3>2. /\ r \in cut => scanStart[r] >= BlockLength
            /\ r \notin cut /\ r \notin db.single =>
                  /\ NotMissed(r, scanStart[r], cur, todo, chPc, chJob)
                  /\ InQ(chPq, r) \/ scanStart[r] >= BlockLength
        BY <1>3, <3>1 DEF FixedOK, Leaving
      <3>3. scanStart'[r] = scanStart[r] /\ (r \in cut' <=> r \in cut)  BY <2>2, <3>1
      <3>4. NotMissed(r, scanStart[r], cur, todo, chPc, chJob)
            => NotMissed(r, scanStart[r], cur, todo', chPc', chJob')
        BY <2>2 DEF NotMissed
      <3> QED  BY <3>2, <3>3, <3>4
    <2> QED  BY <2>1, <2>2
  <1>8. SilentOK'
    <2> SUFFICES ASSUME NEW r \in Patterns, r \notin db.unguarded, r \notin active'
                 PROVE  /\ (chPc = "multi" \/ ForMatch)' => Silent(r, cur, todo)'
                        /\ ForFlush' => \A b \in Offset : ends[r][b] = None
      BY DEF SilentOK, Frame
    <2>1. r \notin active /\ r # p  OBVIOUS
    <2>2. Silent(r, cur, todo)  BY <1>3, <2>1 DEF SilentOK
    <2>3. Silent(r, cur, todo)'  BY <2>1, <2>2 DEF Silent, Frame
    <2>4. ~ForFlush'
      <3>1. active' # Patterns  OBVIOUS
      <3>2. chJob' \in Hybrid!Item => chJob' # Hybrid!Flush  BY HybridConstants
      <3> QED  BY <3>1, <3>2 DEF ForFlush
    <2> QED  BY <2>3, <2>4
  <1>9. PlaceOK'
    <2>1. /\ db.unguarded \subseteq active
          /\ \A k \in DOMAIN cbs : cbs[k].span.to <= cur
          /\ \A r \in todo : r \in Hybrid!Guarded(db)
          /\ \A r \in todo : r \in Hybrid!Fixed(db) =>
                cur >= db.width[r] /\ ends[r][cur - db.width[r]] = cur
      BY <1>3 DEF PlaceOK
    <2>2. chPc' # "init" /\ db'.unguarded \subseteq active'  BY <2>1 DEF Frame
    <2>3. \A k \in DOMAIN cbs' : cbs'[k].span.to <= cur'  BY <2>1
    <2>4. /\ \A r \in todo' : r \in Hybrid!Guarded(db')
          /\ \A r \in todo' : r \in Hybrid!Fixed(db') =>
                cur' >= db'.width[r] /\ ends'[r][cur' - db'.width[r]] = cur'
      BY <2>1 DEF Frame
    <2> QED  BY <2>2, <2>3, <2>4 DEF PlaceOK, Hybrid!Guarded, Hybrid!Fixed
  <1>10. MatchOK' /\ (ForFlush' /\ chPc' = "finish" => chPq' = <<>>)
    <2>1. MatchOK'  BY DEF MatchOK, ForMatch
    <2> QED  BY <2>1
  <1> QED  BY <1>4, <1>5, <1>6, <1>7, <1>8, <1>9, <1>10, HybridStep

\* What holds when hs_scan reports p.
LEMMA MultiIs ==
    ASSUME HybridInv, NEW p \in Patterns, Hybrid!MultiCallback(p)
    PROVE  /\ chPc = "multi" /\ res = "SUCCESS" /\ p \in todo /\ todo' = todo \ {p}
           /\ Frame /\ cur' = cur /\ cbs' = cbs /\ Hybrid!TypeOK
           /\ QueueOK(chPq, cbs, active, cut, scanStart, match) /\ AnswersOK(cbs, active, cut)
           /\ Covers(chPq, cbs, active, cut, chPc, chJob)
           /\ FixedOK(chPq, active, cut, scanStart, cur, todo, chPc, chJob)
           /\ SilentOK /\ PlaceOK
           /\ Len(chPq) <= Cardinality(Patterns)
           /\ p \notin db.unguarded
           /\ p \in Hybrid!Fixed(db) => cur >= db.width[p] /\ ends[p][cur - db.width[p]] = cur
           /\ \A k \in DOMAIN cbs : cbs[k].span.to <= cur
  <1>1. /\ chPc = "multi" /\ p \in todo /\ todo' = todo \ {p}
        /\ Frame /\ cur' = cur /\ cbs' = cbs
    BY DEF Hybrid!MultiCallback, Frame
  <1>2. Hybrid!TypeOK /\ ReturnOK  BY DEF HybridInv
  <1>3. res = "SUCCESS" /\ ScanOK  BY <1>1 DEF HybridInv, ReturnOK
  <1>4. /\ QueueOK(chPq, cbs, active, cut, scanStart, match) /\ AnswersOK(cbs, active, cut)
        /\ Covers(chPq, cbs, active, cut, chPc, chJob)
        /\ FixedOK(chPq, active, cut, scanStart, cur, todo, chPc, chJob)
        /\ SilentOK /\ PlaceOK
    BY <1>3 DEF ScanOK
  <1>5. Len(chPq) <= Cardinality(Patterns)  BY <1>2 DEF ReturnOK
  <1>6. p \notin db.unguarded  BY <1>1, <1>4 DEF PlaceOK, Hybrid!Guarded
  <1>7. /\ p \in Hybrid!Fixed(db) => cur >= db.width[p] /\ ends[p][cur - db.width[p]] = cur
        /\ \A k \in DOMAIN cbs : cbs[k].span.to <= cur
    BY <1>1, <1>4 DEF PlaceOK
  <1> QED  BY <1>1, <1>2, <1>3, <1>4, <1>5, <1>6, <1>7

\* A report that is ignored.
LEMMA IgnoreInv ==
    ASSUME HybridInv, NEW p \in Patterns, Hybrid!MultiCallback(p), NEW b, Hybrid!Ignore(b),
           p \in active,
           p \in Hybrid!Fixed(db) /\ p \notin cut /\ p \notin db.single =>
              NotMissed(p, scanStart[p], cur, todo', chPc', chJob')
    PROVE  HybridInv'
  <1>1. /\ chPc = "multi" /\ todo' = todo \ {p} /\ Frame /\ cur' = cur /\ cbs' = cbs
        /\ Hybrid!TypeOK /\ Len(chPq) <= Cardinality(Patterns)
        /\ QueueOK(chPq, cbs, active, cut, scanStart, match) /\ AnswersOK(cbs, active, cut)
        /\ Covers(chPq, cbs, active, cut, chPc, chJob)
        /\ FixedOK(chPq, active, cut, scanStart, cur, todo, chPc, chJob)
    BY MultiIs
  <1>2. /\ active' = active /\ scanStart' = scanStart /\ match' = match /\ chPq' = chPq
        /\ res' = res /\ errors' = errors /\ cut' = cut
        /\ \/ chPc' = "catchup" /\ chJob' = Hybrid!Flush /\ active = Patterns
           \/ chPc' = chPc /\ chJob' = chJob
    BY DEF Hybrid!Ignore
  <1>3. active' = active \cup {p}  BY <1>2
  <1>4. /\ scanStart \in [Patterns -> 0 .. BlockLength + 1] /\ match \in [Patterns -> Hybrid!Span]
        /\ chPq \in Seq(Hybrid!Item) /\ cut \subseteq Patterns /\ errors \in 0 .. MaxErrors
    BY <1>1, HybridTypes
  <1>5. Covers(chPq', cbs', active', cut', chPc', chJob')
    BY <1>1, <1>2 DEF Covers, Leaving
  <1>6. QueueOK(chPq', cbs', active', cut', scanStart', match') /\ AnswersOK(cbs', active', cut')
    BY <1>1, <1>2
  <1>7. p \in Hybrid!Fixed(db) =>
              /\ p \in cut' => scanStart'[p] >= BlockLength
              /\ p \notin cut' /\ p \notin db.single =>
                    /\ NotMissed(p, scanStart'[p], cur, todo', chPc', chJob')
                    /\ InQ(chPq', p) \/ scanStart'[p] >= BlockLength
    BY <1>1, <1>2 DEF FixedOK, Leaving
  <1> QED  BY <1>1, <1>2, <1>3, <1>4, <1>5, <1>6, <1>7, MultiStep

\* A prefilter has fired before.
LEMMA ConfirmedInv ==
    ASSUME HybridInv, NEW p \in Patterns, Hybrid!MultiCallback(p), Hybrid!Confirmed(p)
    PROVE  HybridInv'
  <1>1. PICK b : b = Hybrid!allConfirm  OBVIOUS
  <1>2. /\ p \in Hybrid!Confirm(db) /\ p \in active /\ Hybrid!Ignore(b)
    BY <1>1 DEF Hybrid!Confirmed
  <1>3. p \notin Hybrid!Fixed(db)  BY <1>2 DEF Hybrid!Confirm
  <1> QED  BY <1>2, <1>3, IgnoreInv

\* A prefilter fires for the first time.
LEMMA FirstConfirmInv ==
    ASSUME HybridInv, NEW p \in Patterns, Hybrid!MultiCallback(p), Hybrid!FirstConfirm(p)
    PROVE  HybridInv'
  <1>1. /\ chPc = "multi" /\ res = "SUCCESS" /\ todo' = todo \ {p} /\ Frame /\ cur' = cur
        /\ cbs' = cbs /\ Hybrid!TypeOK /\ p \notin db.unguarded
        /\ QueueOK(chPq, cbs, active, cut, scanStart, match) /\ AnswersOK(cbs, active, cut)
        /\ Covers(chPq, cbs, active, cut, chPc, chJob)
        /\ SilentOK /\ \A k \in DOMAIN cbs : cbs[k].span.to <= cur
    BY MultiIs
  <1>2. /\ p \in Hybrid!Confirm(db) /\ p \notin active /\ active' = active \cup {p}
        /\ chJob' = chJob
    BY DEF Hybrid!FirstConfirm
  <1>3. PICK o \in Hybrid!Outcomes(p, 0) :
            /\ Hybrid!ScanPcre(p, o, chPq, 0)
            /\ cut' = Hybrid!CutBy(p, o)
            /\ \/ Hybrid!Fatal(o) /\ chPc' = "idle" /\ res' = Hybrid!Verdict(o)
               \/ ~Hybrid!Fatal(o) /\ chPc' = chPc /\ res' = res
    BY DEF Hybrid!FirstConfirm, Hybrid!Return
  <1>4. \A x : Leftmost(p, 0, x) => \A k \in DOMAIN cbs : cbs[k].span.to <= x.to
    <2> SUFFICES ASSUME NEW x, Leftmost(p, 0, x), NEW k \in DOMAIN cbs
                 PROVE  cbs[k].span.to <= x.to
      OBVIOUS
    <2>1. Silent(p, cur, todo)  BY <1>1, <1>2 DEF SilentOK
    <2>2. x \in Hybrid!Item /\ ends[p][x.from] # None /\ ends[p][x.from] = x.to
      BY DEF Leftmost
    <2>3. x.from \in Offset /\ x.to \in Nat  BY <2>2, ItemIs, StartAfterIs
    <2>4. x.to > cur \/ x.to = cur  BY <2>1, <2>2, <2>3 DEF Silent
    <2>5. cbs[k].span.to <= cur  BY <1>1
    <2>6. cur \in Nat /\ cbs[k].span.to \in Nat
      <3>1. cbs \in Seq(Callback) /\ cur \in Offset  BY <1>1, HybridTypes
      <3>2. cbs[k] \in Callback  BY <3>1
      <3> QED  BY <3>1, <3>2, CallbackIs, HybridConstants DEF Offset
    <2> QED  BY <2>3, <2>4, <2>5, <2>6
  <1>5. /\ Activated(p) /\ errors' \in 0 .. MaxErrors
        /\ Hybrid!Fatal(o) => Hybrid!Verdict(o) \in {"SCAN_TERMINATED", "FAIL_INTERNAL"}
    <2>1. 0 \in 0 .. BlockLength + 1  BY HybridConstants
    <2> QED  BY <1>1, <1>2, <1>3, <1>4, <2>1, ScanActivates
  <1>6. /\ QueueOK(chPq', cbs', active', cut', scanStart', match')
        /\ AnswersOK(cbs', active', cut')
        /\ Covers(chPq', cbs', active', cut', chPc', chJob')
        /\ scanStart' \in [Patterns -> 0 .. BlockLength + 1]
        /\ match' \in [Patterns -> Hybrid!Span]
        /\ chPq' \in Seq(Hybrid!Item) /\ Len(chPq') <= Cardinality(Patterns)
        /\ active' \subseteq Patterns /\ cut' \subseteq Patterns
        /\ \A r \in Patterns : r # p => scanStart'[r] = scanStart[r]
        /\ \A r : InQ(chPq, r) => InQ(chPq', r)
        /\ \A r : r \in cut' <=> r \in cut \/ (r = p /\ cut' # cut)
    BY <1>1, <1>2, <1>5, ActivatedIs
  <1>7. CASE Hybrid!Fatal(o)
    <2>1. chPc' = "idle" /\ res' # "SUCCESS"
          /\ res' \in {"SUCCESS", "SCAN_TERMINATED", "FAIL_INTERNAL"}
      BY <1>3, <1>5, <1>7
    <2>2. cur' \in Offset /\ todo' \subseteq Patterns /\ cbs' \in Seq(Callback)
          /\ chJob' \in Hybrid!Item \cup {Hybrid!Flush}
      <3>1. cur \in Offset /\ todo \subseteq Patterns /\ cbs \in Seq(Callback)
            /\ chJob \in Hybrid!Item \cup {Hybrid!Flush}
        BY <1>1, HybridTypes
      <3> QED  BY <1>1, <1>2, <3>1
    <2>3. Hybrid!TypeOK'  BY <1>1, <1>5, <1>6, <2>1, <2>2, TypesNext
    <2> QED  BY <1>1, <1>6, <2>1, <2>3, FailedInv
  <1>8. CASE ~Hybrid!Fatal(o)
    <2>1. chPc' = "multi" /\ chJob' = chJob /\ res' = res  BY <1>1, <1>2, <1>3, <1>8
    <2>2. p \notin Hybrid!Fixed(db)  BY <1>2 DEF Hybrid!Confirm
    <2>3. \A r \in Patterns : r # p => scanStart'[r] = scanStart[r] /\ (r \in cut' <=> r \in cut)
      BY <1>6
    <2> QED  BY <1>1, <1>2, <1>5, <1>6, <2>1, <2>2, <2>3, MultiStep
  <1> QED  BY <1>7, <1>8

\* The match of a fixed-width pattern that hs_scan reports at an offset.
FixedMatch(p) == [from |-> cur - db.width[p], to |-> cur, id |-> p]

\* It is a match of the data, and scanPcre would go on at its end.
LEMMA FixedMatchIs ==
    ASSUME HybridInv, NEW p \in Hybrid!Fixed(db), Hybrid!MultiCallback(p), NEW x,
           x = FixedMatch(p)
    PROVE  /\ p \in Patterns /\ x \in Hybrid!Item /\ x.id = p /\ x.to = cur /\ x.from < cur
           /\ x.from + db.width[p] = cur /\ cur \in Nat /\ db.width[p] \in Nat
           /\ x.from \in Offset /\ ends[p][x.from] # None /\ ends[p][x.from] = x.to
           /\ Hybrid!StartAfter(x) = cur
           /\ \A b \in Offset : ends[p][b] # None =>
                 b \in Nat /\ ends[p][b] \in Nat /\ ends[p][b] = b + db.width[p]
  <1>0. Hybrid!TypeOK  BY DEF HybridInv
  <1>1. /\ p \in Patterns /\ db.width[p] > 0 /\ db.width[p] \in Nat /\ EndsOK
        /\ cur \in Offset /\ cur \in Nat /\ BlockLength \in Nat
    <2>1. p \in Patterns /\ db.width[p] > 0  BY <1>0, HybridTypes
    <2>2. db.width[p] \in Nat /\ EndsOK /\ cur \in Offset  BY <1>0, <2>1, HybridTypes
    <2> QED  BY <2>1, <2>2, HybridConstants DEF Offset
  <1>2. cur >= db.width[p] /\ ends[p][cur - db.width[p]] = cur
    BY <1>1, MultiIs
  <1>3. PICK w, b : w = db.width[p] /\ b = cur - w  OBVIOUS
  <1>4. b \in Offset /\ b < cur /\ b + w = cur  BY <1>1, <1>2, <1>3 DEF Offset
  <1>5. x = [from |-> b, to |-> cur, id |-> p]  BY <1>3 DEF FixedMatch
  <1>6. x \in Hybrid!Item  BY <1>1, <1>4, <1>5 DEF Hybrid!Item, Offset
  <1>7. x.from = b /\ x.to = cur /\ x.id = p  BY <1>5
  <1>8. Hybrid!StartAfter(x) = cur  BY <1>1, <1>4, <1>6, <1>7, StartAfterIs
  <1>9. ends[p][b] = cur /\ cur # None  BY <1>1, <1>2, <1>3, HybridConstants
  <1>10. ASSUME NEW o \in Offset, ends[p][o] # None
         PROVE  o \in Nat /\ ends[p][o] \in Nat /\ ends[p][o] = o + db.width[p]
    <2>1. ends[p][o] \in o .. BlockLength /\ ends[p][o] = o + db.width[p]
      BY <1>1, <1>10 DEF EndsOK
    <2> QED  BY <1>1, <2>1 DEF Offset
  <1> QED  BY <1>1, <1>3, <1>4, <1>6, <1>7, <1>8, <1>9, <1>10

\* The match is the next one of its pattern when none has been missed.
LEMMA FixedLeftmost ==
    ASSUME HybridInv, NEW p \in Hybrid!Fixed(db), Hybrid!MultiCallback(p), NEW x,
           x = FixedMatch(p), NEW s \in Nat, s <= x.from,
           \A b \in Offset : s <= b /\ ends[p][b] # None => ends[p][b] >= cur
    PROVE  Leftmost(p, s, x)
  <1>1. /\ x \in Hybrid!Item /\ x.id = p /\ x.to = cur /\ x.from < cur
        /\ x.from + db.width[p] = cur /\ cur \in Nat /\ db.width[p] \in Nat
        /\ x.from \in Offset /\ ends[p][x.from] # None /\ ends[p][x.from] = x.to
        /\ \A b \in Offset : ends[p][b] # None =>
              b \in Nat /\ ends[p][b] \in Nat /\ ends[p][b] = b + db.width[p]
    BY FixedMatchIs
  <1>2. x.from \in Nat  BY <1>1, HybridConstants DEF Offset
  <1>3. ASSUME NEW o \in Offset, s <= o, ends[p][o] # None PROVE x.from <= o
    <2>1. ends[p][o] >= cur /\ ends[p][o] = o + db.width[p] /\ o \in Nat  BY <1>1, <1>3
    <2> QED  BY <1>1, <1>2, <2>1
  <1>4. x.from <= x.to  BY <1>1, <1>2
  <1> QED  BY <1>1, <1>3, <1>4 DEF Leftmost

\* The first match of a fixed-width pattern.
LEMMA FirstFixedInv ==
    ASSUME HybridInv, NEW p \in Patterns, Hybrid!MultiCallback(p),
           Hybrid!FirstFixed(p, FixedMatch(p))
    PROVE  HybridInv'
  <1>1. /\ chPc = "multi" /\ res = "SUCCESS" /\ todo' = todo \ {p} /\ Frame /\ cur' = cur
        /\ cbs' = cbs /\ Hybrid!TypeOK /\ p \notin db.unguarded
        /\ QueueOK(chPq, cbs, active, cut, scanStart, match) /\ AnswersOK(cbs, active, cut)
        /\ Covers(chPq, cbs, active, cut, chPc, chJob)
        /\ SilentOK /\ \A k \in DOMAIN cbs : cbs[k].span.to <= cur
    BY MultiIs
  <1>2. PICK x : x = FixedMatch(p)  OBVIOUS
  <1>3. /\ p \in Hybrid!Fixed(db) /\ p \notin active /\ active' = active \cup {p}
        /\ Hybrid!Enqueue(x, chPq)
        /\ chPc' = chPc /\ chJob' = chJob /\ res' = res /\ errors' = errors /\ cut' = cut
    BY <1>2 DEF Hybrid!FirstFixed
  <1>4. /\ x \in Hybrid!Item /\ x.id = p /\ x.to = cur /\ x.from < cur
        /\ x.from + db.width[p] = cur /\ cur \in Nat /\ db.width[p] \in Nat
        /\ x.from \in Offset /\ Hybrid!StartAfter(x) = cur
        /\ \A b \in Offset : ends[p][b] # None =>
              b \in Nat /\ ends[p][b] \in Nat /\ ends[p][b] = b + db.width[p]
    BY <1>2, <1>3, FixedMatchIs
  <1>5. \A b \in Offset : ends[p][b] # None => ends[p][b] >= cur
    <2>1. Silent(p, cur, todo)  BY <1>1, <1>3 DEF SilentOK
    <2> QED  BY <1>4, <2>1 DEF Silent
  <1>6. Leftmost(p, 0, x)
    <2>1. 0 <= x.from  BY <1>4, HybridConstants DEF Offset
    <2> QED  BY <1>2, <1>3, <1>5, <2>1, FixedLeftmost
  <1>7. /\ chPq' = Hybrid!Insert(chPq, x) /\ match' = [match EXCEPT ![p] = Spanned(x)]
        /\ scanStart' = [scanStart EXCEPT ![p] = Hybrid!StartAfter(x)]
    BY <1>3, <1>4 DEF Hybrid!Enqueue, Spanned
  <1>8. Activated(p)  BY <1>1, <1>3, <1>4, <1>6, <1>7 DEF Activated
  <1>9. /\ QueueOK(chPq', cbs', active', cut', scanStart', match')
        /\ AnswersOK(cbs', active', cut')
        /\ Covers(chPq', cbs', active', cut', chPc', chJob')
        /\ scanStart' \in [Patterns -> 0 .. BlockLength + 1]
        /\ match' \in [Patterns -> Hybrid!Span]
        /\ chPq' \in Seq(Hybrid!Item) /\ Len(chPq') <= Cardinality(Patterns)
        /\ active' \subseteq Patterns /\ cut' \subseteq Patterns
        /\ \A r \in Patterns : r # p => scanStart'[r] = scanStart[r]
        /\ \A r : InQ(chPq, r) => InQ(chPq', r)
        /\ \A r : r \in cut' <=> r \in cut \/ (r = p /\ cut' # cut)
    BY <1>1, <1>3, <1>8, ActivatedIs
  <1>10. p \notin cut'  BY <1>1, <1>3 DEF AnswersOK
  <1>11. InQ(chPq', p)
    <2>1. Ranked(chPq) /\ \A y \in Items(chPq) : y.id # x.id
      BY <1>1, <1>3, <1>4 DEF QueueOK, NextOf
    <2>2. Items(Hybrid!Insert(chPq, x)) = Items(chPq) \cup {x}  BY <1>4, <2>1, InsertIs
    <2>3. x \in Items(chPq')  BY <1>7, <2>2
    <2> QED  BY <1>4, <2>3 DEF InQ
  <1>12. scanStart'[p] = cur
    <2>1. scanStart \in [Patterns -> 0 .. BlockLength + 1]  BY <1>1, HybridTypes
    <2> QED  BY <1>4, <1>7, <2>1
  <1>13. NotMissed(p, scanStart'[p], cur, todo', chPc', chJob')
    <2>1. db.width[p] > 0  BY <1>1, <1>3, HybridTypes
    <2>2. \A b \in Offset : cur <= b /\ ends[p][b] # None => ends[p][b] > cur
      BY <1>4, <2>1
    <2> QED  BY <1>12, <2>2 DEF NotMissed
  <1>14. /\ errors' \in 0 .. MaxErrors /\ chPc' = "multi"
         /\ \A r \in Patterns : r # p => scanStart'[r] = scanStart[r] /\ (r \in cut' <=> r \in cut)
    BY <1>1, <1>3, <1>9, HybridTypes
  <1> QED  BY <1>1, <1>3, <1>9, <1>10, <1>11, <1>13, <1>14, MultiStep

\* A fixed-width match that overlaps the last one, or that is not wanted.
LEMMA FixedIgnoredInv ==
    ASSUME HybridInv, NEW p \in Patterns, Hybrid!MultiCallback(p),
           Hybrid!FixedIgnored(p, FixedMatch(p))
    PROVE  HybridInv'
  <1>1. PICK x : x = FixedMatch(p)  OBVIOUS
  <1>2. PICK b : b = (~Hybrid!TooEarly(p, x.to) /\ Hybrid!allSingle)  OBVIOUS
  <1>3. /\ p \in Hybrid!Fixed(db) /\ p \in active /\ Hybrid!Ignore(b)
        /\ Hybrid!TooEarly(p, x.to) \/ p \in db.single
    BY <1>1, <1>2 DEF Hybrid!FixedIgnored
  <1>4. ASSUME p \notin db.single
        PROVE  NotMissed(p, scanStart[p], cur, todo', chPc', chJob')
    <2>1. /\ x.to = cur /\ cur \in Nat /\ db.width[p] \in Nat
          /\ \A o \in Offset : ends[p][o] # None =>
                o \in Nat /\ ends[p][o] \in Nat /\ ends[p][o] = o + db.width[p]
      BY <1>1, <1>3, FixedMatchIs
    <2>2. scanStart[p] \in Nat  BY HybridTypes DEF HybridInv
    <2>3. cur < scanStart[p] + db.width[p]  BY <1>3, <1>4, <2>1 DEF Hybrid!TooEarly
    <2>4. \A o \in Offset : scanStart[p] <= o /\ ends[p][o] # None => ends[p][o] > cur
      BY <2>1, <2>2, <2>3
    <2> QED  BY <2>4 DEF NotMissed
  <1> QED  BY <1>3, <1>4, IgnoreInv

\* A fixed-width match that catchupPcre makes way for.
LEMMA FixedCatchUpInv ==
    ASSUME HybridInv, NEW p \in Patterns, Hybrid!MultiCallback(p),
           Hybrid!FixedCatchUp(p, FixedMatch(p))
    PROVE  HybridInv'
  <1>1. /\ chPc = "multi" /\ res = "SUCCESS" /\ todo' = todo \ {p} /\ Frame /\ cur' = cur
        /\ cbs' = cbs /\ Hybrid!TypeOK /\ Len(chPq) <= Cardinality(Patterns)
        /\ QueueOK(chPq, cbs, active, cut, scanStart, match) /\ AnswersOK(cbs, active, cut)
        /\ Covers(chPq, cbs, active, cut, chPc, chJob)
        /\ FixedOK(chPq, active, cut, scanStart, cur, todo, chPc, chJob)
    BY MultiIs
  <1>2. PICK x : x = FixedMatch(p)  OBVIOUS
  <1>3. /\ p \in Hybrid!Fixed(db) /\ p \in active /\ ~Hybrid!TooEarly(p, x.to)
        /\ p \notin db.single /\ chPc' = "catchup" /\ chJob' = x
        /\ active' = active /\ scanStart' = scanStart /\ match' = match /\ chPq' = chPq
        /\ res' = res /\ errors' = errors /\ cut' = cut
    BY <1>2 DEF Hybrid!FixedCatchUp
  <1>4. /\ x \in Hybrid!Item /\ x.id = p /\ x.to = cur /\ x.from < cur
        /\ x.from + db.width[p] = cur /\ cur \in Nat /\ db.width[p] \in Nat
        /\ x.from \in Offset
        /\ \A b \in Offset : ends[p][b] # None =>
              b \in Nat /\ ends[p][b] \in Nat /\ ends[p][b] = b + db.width[p]
    BY <1>2, <1>3, FixedMatchIs
  <1>5. /\ scanStart \in [Patterns -> 0 .. BlockLength + 1] /\ match \in [Patterns -> Hybrid!Span]
        /\ chPq \in Seq(Hybrid!Item) /\ cut \subseteq Patterns /\ errors \in 0 .. MaxErrors
        /\ db.width[p] > 0 /\ scanStart[p] \in Nat /\ cur \in Offset
    BY <1>1, <1>3, HybridTypes
  <1>6. scanStart[p] <= x.from /\ scanStart[p] < BlockLength
    <2>1. scanStart[p] + db.width[p] <= cur  BY <1>3, <1>4, <1>5 DEF Hybrid!TooEarly
    <2>2. x.from \in Nat /\ BlockLength \in Nat /\ cur <= BlockLength
      BY <1>4, <1>5, HybridConstants DEF Offset
    <2> QED  BY <1>4, <1>5, <2>1, <2>2
  <1>7. /\ p \in cut => scanStart[p] >= BlockLength
        /\ p \notin cut => /\ NotMissed(p, scanStart[p], cur, todo, chPc, chJob)
                           /\ InQ(chPq, p) \/ scanStart[p] >= BlockLength
    BY <1>1, <1>3 DEF FixedOK, Leaving
  <1>8. p \notin cut /\ InQ(chPq, p) /\ NotMissed(p, scanStart[p], cur, todo, chPc, chJob)
    <2>1. BlockLength \in Nat  BY HybridConstants
    <2> QED  BY <1>5, <1>6, <1>7, <2>1
  <1>9. Leftmost(p, scanStart[p], x)
    <2>1. \A b \in Offset : scanStart[p] <= b /\ ends[p][b] # None => ends[p][b] >= cur
      BY <1>4, <1>8 DEF NotMissed
    <2>2. PICK s \in Nat : s = scanStart[p]  BY <1>5
    <2>3. Leftmost(p, s, x)
      <3>1. s <= x.from /\ \A b \in Offset : s <= b /\ ends[p][b] # None => ends[p][b] >= cur
        BY <1>6, <2>1, <2>2
      <3> QED  BY <1>2, <1>3, <3>1, FixedLeftmost
    <2> QED  BY <2>2, <2>3
  <1>10. MatchOK'
    <2>1. p \in Hybrid!Fixed(db)'  BY <1>1, <1>3 DEF Frame, Hybrid!Fixed
    <2>2. Leftmost(chJob.id, scanStart[chJob.id], chJob)'
      <3>1. Leftmost(p, scanStart[p], x)  BY <1>9
      <3>2. chJob' = x /\ x.id = p /\ scanStart' = scanStart  BY <1>3, <1>4
      <3> QED  BY <1>1, <3>1, <3>2 DEF Leftmost, Frame
    <2>3. db' = db  BY <1>1 DEF Frame
    <2> QED  BY <1>1, <1>3, <1>4, <1>8, <2>1, <2>2, <2>3 DEF MatchOK
  <1>11. Covers(chPq', cbs', active', cut', chPc', chJob')
    BY <1>1, <1>3 DEF Covers, Leaving
  <1>12. QueueOK(chPq', cbs', active', cut', scanStart', match') /\ AnswersOK(cbs', active', cut')
    BY <1>1, <1>3
  <1>13. NotMissed(p, scanStart'[p], cur, todo', chPc', chJob')
    <2>1. scanStart' = scanStart /\ chPc' = "catchup" /\ chJob'.id = p  BY <1>3, <1>4
    <2> QED  BY <1>8, <2>1 DEF NotMissed
  <1>14. InQ(chPq', p) /\ p \notin cut' /\ active' = active \cup {p} /\ chJob' \in Hybrid!Item
    BY <1>3, <1>4, <1>8
  <1>15. /\ scanStart' \in [Patterns -> 0 .. BlockLength + 1]
         /\ match' \in [Patterns -> Hybrid!Span]
         /\ chPq' \in Seq(Hybrid!Item) /\ cut' \subseteq Patterns /\ errors' \in 0 .. MaxErrors
         /\ Len(chPq') <= Cardinality(Patterns)
         /\ \A r \in Patterns : r # p => scanStart'[r] = scanStart[r] /\ (r \in cut' <=> r \in cut)
         /\ \A r : InQ(chPq, r) => InQ(chPq', r)
    BY <1>1, <1>3, <1>5
  <1> QED  BY <1>1, <1>3, <1>10, <1>11, <1>12, <1>13, <1>14, <1>15, MultiStep

\* Whatever hs_scan reports.
LEMMA MultiCallbackInv ==
    ASSUME HybridInv, NEW p \in Patterns, Hybrid!MultiCallback(p)
    PROVE  HybridInv'
  <1>1. \/ Hybrid!Confirmed(p) \/ Hybrid!FirstConfirm(p)
        \/ Hybrid!FirstFixed(p, FixedMatch(p)) \/ Hybrid!FixedIgnored(p, FixedMatch(p))
        \/ Hybrid!FixedCatchUp(p, FixedMatch(p))
    BY DEF Hybrid!MultiCallback, FixedMatch
  <1> QED
    BY <1>1, ConfirmedInv, FirstConfirmInv, FirstFixedInv, FixedIgnoredInv, FixedCatchUpInv

----------------------------------------------------------------------------
(* catchupPcre                                                             *)

\* PCRE finds no more when there is nothing from its offset on.
LEMMA NoFirst ==
    ASSUME EndsOK, NEW p \in Patterns, NEW s \in Nat,
           \A b \in Offset : s <= b => ends[p][b] = None
    PROVE  Hybrid!First(p, s) = None
  <1>1. ASSUME NEW m, Leftmost(p, s, m) PROVE FALSE
    <2>1. m.from \in Offset /\ s <= m.from /\ ends[p][m.from] # None
      BY <1>1, ItemIs DEF Leftmost
    <2> QED  BY <2>1
  <1> QED  BY <1>1, FirstIs

\* The callback is told the next match of a pattern: the history stays right.
LEMMA HistoryNext ==
    ASSUME NEW h \in Seq(Callback), HistoryOK(h), NEW act, NEW ct, NEW sc, NEW mt,
           AnswersOK(h, act, ct), NEW x \in Hybrid!Item, NextOf(h, act, ct, sc, mt, x),
           NEW c \in Callback, c.span = Spanned(x), c.groups = Spanned(x), c.id = x.id,
           NEW g, g = Append(h, c)
    PROVE  HistoryOK(g)
  <1>1. PICK m : m = Len(h)  OBVIOUS
  <1>2. /\ m \in Nat /\ g \in Seq(Callback) /\ Len(g) = m + 1 /\ g[m + 1] = c
        /\ DOMAIN g = 1 .. m + 1 /\ DOMAIN h = 1 .. m
        /\ \A i \in 1 .. m : g[i] = h[i]
        /\ \A p : \A n \in 0 .. m :
              ToldIn(g, p, n) = ToldIn(h, p, n) /\ GoOnAt(g, p, n) = GoOnAt(h, p, n)
    <2>1. Prolonged(h, c, g)  BY ToldNext
    <2> QED  BY <1>1, <2>1 DEF Prolonged
  <1>3. /\ x.id \notin ct /\ x = Hybrid!First(x.id, GoOnAt(h, x.id, m)) /\ ~Over(h, x.id)
        /\ \A k \in 1 .. m : h[k].span.to <= x.to
    BY <1>1, <1>2 DEF NextOf, Now
  <1>4. c.span.from = x.from /\ c.span.to = x.to  BY DEF Spanned
  <1>5. ASSUME NEW i \in 1 .. m + 1
        PROVE  /\ Hybrid!First(g[i].id, GoOnAt(g, g[i].id, i - 1))
                     = [from |-> g[i].span.from, to |-> g[i].span.to, id |-> g[i].id]
               /\ g[i].groups = g[i].span
               /\ \A j \in ToldIn(g, g[i].id, i - 1) :
                     g[j].answer = "continue" /\ g[i].id \notin db.single
    <2>1. CASE i \in 1 .. m
      <3>1. g[i] = h[i] /\ i - 1 \in 0 .. m /\ \A j \in 1 .. i - 1 : g[j] = h[j]
        BY <1>2, <2>1
      <3>2. PICK n, p : n = i - 1 /\ p = g[i].id  OBVIOUS
      <3>3. /\ ToldIn(g, p, n) = ToldIn(h, p, n) /\ GoOnAt(g, p, n) = GoOnAt(h, p, n)
            /\ n \in 0 .. m
        BY <1>2, <3>1, <3>2
      <3>4. \A j \in ToldIn(h, p, n) : g[j] = h[j]  BY <3>1, <3>2 DEF ToldIn
      <3>5. /\ Hybrid!First(h[i].id, GoOnAt(h, h[i].id, i - 1))
                  = [from |-> h[i].span.from, to |-> h[i].span.to, id |-> h[i].id]
            /\ h[i].groups = h[i].span
            /\ \A j \in ToldIn(h, h[i].id, i - 1) :
                  h[j].answer = "continue" /\ h[i].id \notin db.single
        BY <1>2, <2>1 DEF HistoryOK
      <3> QED  BY <3>1, <3>2, <3>3, <3>4, <3>5
    <2>2. CASE i = m + 1
      <3>1. g[i] = c /\ i - 1 = m /\ m \in 0 .. m  BY <1>2, <2>2
      <3>2. Hybrid!First(x.id, GoOnAt(g, x.id, m)) = [from |-> x.from, to |-> x.to, id |-> x.id]
        BY <1>2, <1>3, <3>1, ItemIs
      <3>3. ASSUME NEW j \in ToldIn(g, x.id, m)
            PROVE  g[j].answer = "continue" /\ x.id \notin db.single
        <4>1. j \in ToldIn(h, x.id, m)  BY <1>2, <3>1, <3>3
        <4>2. j \in 1 .. m /\ h[j].id = x.id /\ g[j] = h[j]  BY <1>2, <4>1 DEF ToldIn
        <4>3. h[j].answer = "continue"  BY <1>2, <1>3, <4>2 DEF AnswersOK
        <4>4. x.id \notin db.single  BY <1>1, <1>3, <4>1 DEF Over
        <4> QED  BY <4>2, <4>3, <4>4
      <3> QED  BY <1>4, <3>1, <3>2, <3>3
    <2>3. i \in 1 .. m \/ i = m + 1  BY <1>2
    <2> QED  BY <2>1, <2>2, <2>3
  <1>6. ASSUME NEW i \in 1 .. m + 1, NEW j \in 1 .. m + 1, i < j
        PROVE  g[i].span.to <= g[j].span.to /\ g[i].answer # "terminate"
    <2>1. i \in 1 .. m /\ g[i] = h[i]  BY <1>2, <1>6
    <2>2. g[i].answer # "terminate"  BY <1>2, <2>1 DEF AnswersOK
    <2>3. CASE j \in 1 .. m
      <3>1. g[j] = h[j]  BY <1>2, <2>3
      <3>2. h[i].span.to <= h[j].span.to  BY <1>2, <1>6, <2>1, <2>3 DEF HistoryOK
      <3> QED  BY <2>1, <2>2, <3>1, <3>2
    <2>4. CASE j = m + 1
      <3>1. g[j].span.to = x.to  BY <1>2, <1>4, <2>4
      <3> QED  BY <1>3, <2>1, <2>2, <3>1
    <2> QED  BY <1>2, <2>3, <2>4
  <1> QED  BY <1>2, <1>5, <1>6 DEF HistoryOK

\* What holds when the callback is given item x, the first one, and answers a:
\* t is left of the queue, and g is the history then.
Reporting(a, x, t, g) ==
    /\ chPc = "catchup" /\ res = "SUCCESS" /\ Hybrid!TypeOK /\ Frame /\ cur' = cur
    /\ todo' = todo /\ active' = active /\ chJob' = chJob
    /\ QueueOK(chPq, cbs, active, cut, scanStart, match) /\ AnswersOK(cbs, active, cut)
    /\ Covers(chPq, cbs, active, cut, chPc, chJob)
    /\ FixedOK(chPq, active, cut, scanStart, cur, todo, chPc, chJob)
    /\ SilentOK /\ PlaceOK /\ MatchOK
    /\ x \in Hybrid!Item /\ x.id \in Patterns /\ x.to <= chJob.to
    /\ NextOf(cbs, active, cut, scanStart, match, x)
    /\ Ranked(t) /\ Len(t) < Cardinality(Patterns)
    /\ \A y \in Items(chPq) : y = x \/ y \in Items(t)
    /\ \A y \in Items(t) : y \in Items(chPq) /\ y.id # x.id /\ x.to <= y.to
    /\ HistoryOK(g) /\ g \in Seq(Callback)
    /\ \A p : p # x.id => Now(g, p) = Now(cbs, p) /\ (Over(g, p) <=> Over(cbs, p))
    /\ Now(g, x.id) = Hybrid!First(x.id, scanStart[x.id])
    /\ x.id \in db.single => Over(g, x.id)
    /\ x.id \notin db.single => ~Over(g, x.id)
    /\ \A k \in DOMAIN g : g[k].span.to <= x.to /\ g[k].id \in active
    /\ a # "terminate" => \A k \in DOMAIN g :
          /\ g[k].answer # "terminate"
          /\ g[k].answer # "continue" => g[k].id \in cut \/ (g[k].id = x.id /\ a = "skip")

\* The report of the first item is such.
LEMMA ReportIs ==
    ASSUME HybridInv, NEW a \in Hybrid!Answers, Hybrid!CatchUpReport(a),
           NEW x, x = Head(chPq), NEW t, t = Tail(chPq), NEW g, g = cbs'
    PROVE  Reporting(a, x, t, g)
  <1>1. /\ chPc = "catchup" /\ chPq # <<>> /\ x.to <= chJob.to /\ Frame /\ cur' = cur
        /\ todo' = todo /\ active' = active /\ chJob' = chJob
        /\ g = Append(cbs, [span |-> Spanned(x), id |-> x.id, groups |-> match[x.id],
                            answer |-> a])
    BY DEF Hybrid!CatchUpReport, Frame, Spanned
  <1>2. Hybrid!TypeOK /\ HistoryOK(cbs) /\ ReturnOK  BY DEF HybridInv
  <1>3. res = "SUCCESS" /\ ScanOK  BY <1>1 DEF HybridInv, ReturnOK
  <1>4. /\ QueueOK(chPq, cbs, active, cut, scanStart, match) /\ AnswersOK(cbs, active, cut)
        /\ Covers(chPq, cbs, active, cut, chPc, chJob)
        /\ FixedOK(chPq, active, cut, scanStart, cur, todo, chPc, chJob)
        /\ SilentOK /\ PlaceOK /\ MatchOK
    BY <1>3 DEF ScanOK
  <1>5. /\ Ranked(chPq) /\ cbs \in Seq(Callback)
        /\ \A y \in Items(chPq) : NextOf(cbs, active, cut, scanStart, match, y)
    BY <1>2, <1>4, HybridTypes DEF QueueOK
  <1>6. /\ Ranked(t) /\ Len(t) = Len(chPq) - 1 /\ x \in Hybrid!Item /\ x \in Items(chPq)
        /\ \A y \in Items(chPq) : x.to <= y.to /\ (y = x \/ y \in Items(t))
        /\ \A y \in Items(t) : y \in Items(chPq) /\ y.id # x.id
    BY <1>1, <1>5, TailIs
  <1>7. Len(t) < Cardinality(Patterns)
    <2>1. /\ Len(chPq) \in Nat /\ Cardinality(Patterns) \in Nat
          /\ Len(chPq) <= Cardinality(Patterns)
      BY <1>5, RankedFits
    <2> QED  BY <1>6, <2>1
  <1>8. NextOf(cbs, active, cut, scanStart, match, x)  BY <1>5, <1>6
  <1>9. x.id \in Patterns  BY <1>6, ItemIs
  <1>10. PICK c : c = [span |-> Spanned(x), id |-> x.id, groups |-> match[x.id], answer |-> a]
    OBVIOUS
  <1>11. c.span = Spanned(x) /\ c.groups = Spanned(x) /\ c.id = x.id /\ c.answer = a
    BY <1>8, <1>10 DEF NextOf
  <1>12. c \in Callback
    <2>1. Spanned(x) \in Hybrid!Span /\ match[x.id] = Spanned(x)
      BY <1>6, <1>8, StartAfterIs DEF NextOf
    <2> QED  BY <1>9, <1>10, <2>1 DEF Callback
  <1>13. g = Append(cbs, c)  BY <1>1, <1>10
  <1>14. HistoryOK(g)
    BY <1>2, <1>4, <1>5, <1>6, <1>8, <1>11, <1>12, <1>13, HistoryNext
  <1>15. /\ g \in Seq(Callback) /\ Len(g) = Len(cbs) + 1 /\ g[Len(cbs) + 1] = c
         /\ \A i \in 1 .. Len(cbs) : g[i] = cbs[i]
         /\ \A p : p # c.id => Now(g, p) = Now(cbs, p) /\ (Over(g, p) <=> Over(cbs, p))
         /\ Now(g, c.id) = Hybrid!First(c.id, Past(c.span))
         /\ ToldIn(g, c.id, Len(g)) # {}
    <2>1. Prolonged(cbs, c, g)  BY <1>5, <1>12, <1>13, ToldNext
    <2> QED  BY <2>1 DEF Prolonged
  <1>16. Now(g, x.id) = Hybrid!First(x.id, scanStart[x.id])
    <2>1. Past(c.span) = scanStart[x.id]  BY <1>6, <1>8, <1>11, StartAfterIs DEF NextOf
    <2> QED  BY <1>11, <1>15, <2>1
  <1>17. (x.id \in db.single => Over(g, x.id)) /\ (x.id \notin db.single => ~Over(g, x.id))
    BY <1>11, <1>15 DEF Over
  <1>18. ASSUME NEW k \in DOMAIN g
         PROVE  \/ k \in DOMAIN cbs /\ g[k] = cbs[k]
                \/ g[k] = c
    <2>1. Len(cbs) \in Nat /\ DOMAIN cbs = 1 .. Len(cbs) /\ DOMAIN g = 1 .. Len(cbs) + 1
      BY <1>5, <1>15
    <2> QED  BY <1>15, <1>18, <2>1
  <1>19. x.to <= x.to  BY <1>6, StartAfterIs
  <1>20. \A k \in DOMAIN g : g[k].span.to <= x.to /\ g[k].id \in active
    <2> SUFFICES ASSUME NEW k \in DOMAIN g PROVE g[k].span.to <= x.to /\ g[k].id \in active
      OBVIOUS
    <2>1. CASE k \in DOMAIN cbs /\ g[k] = cbs[k]
      BY <1>4, <1>8, <2>1 DEF NextOf, AnswersOK
    <2>2. CASE g[k] = c  BY <1>8, <1>11, <1>19, <2>2 DEF NextOf, Spanned
    <2> QED  BY <1>18, <2>1, <2>2
  <1>21. a # "terminate" => \A k \in DOMAIN g :
                 /\ g[k].answer # "terminate"
                 /\ g[k].answer # "continue" => g[k].id \in cut \/ (g[k].id = x.id /\ a = "skip")
    <2> SUFFICES ASSUME a # "terminate", NEW k \in DOMAIN g
                 PROVE  /\ g[k].answer # "terminate"
                        /\ g[k].answer # "continue" =>
                              g[k].id \in cut \/ (g[k].id = x.id /\ a = "skip")
      OBVIOUS
    <2>1. CASE k \in DOMAIN cbs /\ g[k] = cbs[k]  BY <1>4, <2>1 DEF AnswersOK
    <2>2. CASE g[k] = c  BY <1>11, <2>2 DEF Hybrid!Answers
    <2> QED  BY <1>18, <2>1, <2>2
  <1> QED
    BY <1>1, <1>2, <1>3, <1>4, <1>6, <1>7, <1>8, <1>9, <1>14, <1>15, <1>16, <1>17, <1>20,
       <1>21, <1>11
       DEF Reporting

\* catchupPcre gives up: the scan will fail.
LEMMA ReportFails ==
    ASSUME HybridInv, NEW a \in Hybrid!Answers, Hybrid!CatchUpReport(a),
           chPq' = Tail(chPq), match' = match, cut' \subseteq Patterns,
           scanStart' \in [Patterns -> 0 .. BlockLength + 1], errors' \in 0 .. MaxErrors,
           chPc' = "finish", res' \in {"SCAN_TERMINATED", "FAIL_INTERNAL"}
    PROVE  HybridInv'
  <1>1. PICK x, t, g : x = Head(chPq) /\ t = Tail(chPq) /\ g = cbs'  OBVIOUS
  <1>2. /\ Hybrid!TypeOK /\ Frame /\ cur' = cur /\ todo' = todo /\ active' = active
        /\ chJob' = chJob /\ Ranked(t) /\ Len(t) < Cardinality(Patterns)
        /\ HistoryOK(g) /\ g \in Seq(Callback)
    <2>1. Reporting(a, x, t, g)  BY <1>1, ReportIs
    <2> QED  BY <2>1 DEF Reporting
  <1>3. Hybrid!TypeOK'
    <2>1. /\ cur' \in Offset /\ todo' \subseteq Patterns /\ active' \subseteq Patterns
          /\ match' \in [Patterns -> Hybrid!Span] /\ chJob' \in Hybrid!Item \cup {Hybrid!Flush}
      BY <1>2, HybridTypes
    <2>2. chPq' \in Seq(Hybrid!Item) /\ cbs' \in Seq(Callback)  BY <1>1, <1>2 DEF Ranked
    <2>3. /\ chPc' \in {"idle", "init", "multi", "catchup", "finish"}
          /\ res' \in {"SUCCESS", "SCAN_TERMINATED", "FAIL_INTERNAL"}
      OBVIOUS
    <2> QED  BY <1>2, <2>1, <2>2, <2>3, TypesNext
  <1>4. ReturnOK'
    <2>1. Len(t) \in Nat /\ Cardinality(Patterns) \in Nat  BY <1>2, RankedFits
    <2>2. Len(chPq') < Cardinality(Patterns) /\ Len(chPq') <= Cardinality(Patterns)
      BY <1>1, <1>2, <2>1
    <2> QED  BY <2>2 DEF ReturnOK
  <1>5. HistoryOK(cbs')  BY <1>1, <1>2
  <1> QED  BY <1>2, <1>3, <1>4, <1>5, HybridStep

\* The item of a pattern has been reported: there is no next one, or none is
\* wanted, or y is queued.
Dropped(t, p) ==
    /\ chPq' = t
    /\ p \in cut' \/ Now(cbs', p) = None \/ p \in db.single \/ chPc' = "finish"

Replaced(t, p, y) ==
    /\ Leftmost(p, scanStart[p], y) /\ chPq' = Hybrid!Insert(t, y) /\ cut' = cut
    /\ p \notin db.single /\ scanStart'[p] = Hybrid!StartAfter(y) /\ match'[p] = Spanned(y)

\* After a report that does not end the scan the invariant holds.
LEMMA ReportGoesOn ==
    ASSUME HybridInv, NEW a \in Hybrid!Answers, Hybrid!CatchUpReport(a),
           a # "terminate", res' = res, errors' \in 0 .. MaxErrors,
           NEW p, p = Head(chPq).id,
           scanStart' \in [Patterns -> 0 .. BlockLength + 1],
           match' \in [Patterns -> Hybrid!Span],
           \A r \in Patterns : r # p => scanStart'[r] = scanStart[r] /\ match'[r] = match[r],
           cut' = cut \/ cut' = cut \cup {p},
           a = "skip" => p \in cut',
           Dropped(Tail(chPq), p) \/ \E y : Replaced(Tail(chPq), p, y),
           p \in cut' => scanStart'[p] >= BlockLength,
           p \notin cut' => scanStart'[p] >= scanStart[p],
           p \notin cut' /\ chPc' = "catchup" /\ p \notin db.single =>
              scanStart'[p] >= BlockLength \/ \E y : Replaced(Tail(chPq), p, y),
           \/ chPc' = "catchup" /\ p # chJob.id
           \/ /\ chPc' = "finish" /\ p = chJob.id /\ chPq' = Tail(chPq)
              /\ p \in cut' \/ scanStart'[p] = scanStart[p]
    PROVE  HybridInv'
  <1>1. PICK x, t, g : x = Head(chPq) /\ t = Tail(chPq) /\ g = cbs'  OBVIOUS
  <1>2. /\ chPc = "catchup" /\ res = "SUCCESS" /\ Hybrid!TypeOK /\ Frame /\ cur' = cur
        /\ todo' = todo /\ active' = active /\ chJob' = chJob
        /\ QueueOK(chPq, cbs, active, cut, scanStart, match) /\ AnswersOK(cbs, active, cut)
        /\ Covers(chPq, cbs, active, cut, chPc, chJob)
        /\ FixedOK(chPq, active, cut, scanStart, cur, todo, chPc, chJob)
        /\ SilentOK /\ PlaceOK /\ MatchOK
        /\ x \in Hybrid!Item /\ x.id = p /\ p \in Patterns /\ x.to <= chJob.to
        /\ NextOf(cbs, active, cut, scanStart, match, x)
        /\ Ranked(t) /\ Len(t) < Cardinality(Patterns)
        /\ \A y \in Items(chPq) : y = x \/ y \in Items(t)
        /\ \A y \in Items(t) : y \in Items(chPq) /\ y.id # p /\ x.to <= y.to
        /\ HistoryOK(g) /\ g \in Seq(Callback)
        /\ \A r : r # p => Now(g, r) = Now(cbs, r) /\ (Over(g, r) <=> Over(cbs, r))
        /\ Now(g, p) = Hybrid!First(p, scanStart[p])
        /\ p \in db.single => Over(g, p)
        /\ p \notin db.single => ~Over(g, p)
        /\ \A k \in DOMAIN g : g[k].span.to <= x.to /\ g[k].id \in active
        /\ \A k \in DOMAIN g :
              /\ g[k].answer # "terminate"
              /\ g[k].answer # "continue" => g[k].id \in cut \/ (g[k].id = p /\ a = "skip")
    <2>1. Reporting(a, x, t, g)  BY <1>1, ReportIs
    <2>2. x.id = p  BY <1>1
    <2> QED  BY <2>1, <2>2 DEF Reporting
  <1>3. /\ EndsOK /\ active \subseteq Patterns /\ cut \subseteq Patterns /\ cur \in Offset
        /\ todo \subseteq Patterns /\ chJob \in Hybrid!Item \cup {Hybrid!Flush}
        /\ scanStart[p] \in Nat /\ scanStart'[p] \in Nat /\ BlockLength \in Nat
    <2>1. /\ EndsOK /\ active \subseteq Patterns /\ cut \subseteq Patterns /\ cur \in Offset
          /\ todo \subseteq Patterns /\ chJob \in Hybrid!Item \cup {Hybrid!Flush}
          /\ scanStart[p] \in Nat /\ BlockLength \in Nat
      BY <1>2, HybridTypes, HybridConstants
    <2>2. scanStart'[p] \in 0 .. BlockLength + 1  BY <1>2
    <2> QED  BY <2>1, <2>2
  <1>4. p \in active /\ p \notin cut /\ ~Over(cbs, p) /\ scanStart[p] = Hybrid!StartAfter(x)
    BY <1>2 DEF NextOf
  <1>5. \A r : r # p => (r \in cut' <=> r \in cut)  OBVIOUS
  <1>6. \A r : r # p /\ InQ(chPq, r) => InQ(t, r)  BY <1>2 DEF InQ
  <1>7. PICK q, sc, mt, c : q = chPq' /\ sc = scanStart' /\ mt = match' /\ c = cut'  OBVIOUS
  <1>8. \A y \in Items(t) : NextOf(g, active, c, sc, mt, y)
    <2> SUFFICES ASSUME NEW y \in Items(t) PROVE NextOf(g, active, c, sc, mt, y)  OBVIOUS
    <2>1. NextOf(cbs, active, cut, scanStart, match, y) /\ y.id # p /\ x.to <= y.to
      BY <1>2 DEF QueueOK
    <2>2. y.id \in Patterns /\ y.to \in Nat /\ x.to \in Nat
      <3>1. t \in Seq(Hybrid!Item)  BY <1>2 DEF Ranked
      <3>2. y \in Hybrid!Item  BY <3>1 DEF Items
      <3> QED  BY <1>2, <3>2, ItemIs, StartAfterIs
    <2>3. /\ y.id \in active /\ y.id \notin c /\ y = Now(g, y.id) /\ ~Over(g, y.id)
          /\ sc[y.id] = Hybrid!StartAfter(y) /\ mt[y.id] = Spanned(y)
      BY <1>2, <1>5, <1>7, <2>1, <2>2 DEF NextOf
    <2>4. \A k \in DOMAIN g : g[k].span.to <= y.to
      <3> SUFFICES ASSUME NEW k \in DOMAIN g PROVE g[k].span.to <= y.to  OBVIOUS
      <3>1. g[k] \in Callback  BY <1>2
      <3>2. g[k].span.to \in Nat  BY <3>1, CallbackIs, HybridConstants DEF Offset
      <3>3. g[k].span.to <= x.to  BY <1>2
      <3> QED  BY <2>1, <2>2, <3>2, <3>3
    <2> QED  BY <2>3, <2>4 DEF NextOf
  <1>9. /\ Ranked(q) /\ \A y \in Items(q) : NextOf(g, active, c, sc, mt, y)
        /\ \A r : InQ(t, r) => InQ(q, r)
        /\ (Dropped(t, p) /\ q = t) \/ InQ(q, p)
        /\ (\E y : Replaced(t, p, y)) => InQ(q, p)
    <2>1. ASSUME NEW y, Replaced(t, p, y)
          PROVE  /\ Ranked(q) /\ \A z \in Items(q) : NextOf(g, active, c, sc, mt, z)
                 /\ \A r : InQ(t, r) => InQ(q, r)
                 /\ InQ(q, p)
      <3>1. /\ Leftmost(p, scanStart[p], y) /\ q = Hybrid!Insert(t, y) /\ c = cut
            /\ p \notin db.single /\ sc[p] = Hybrid!StartAfter(y) /\ mt[p] = Spanned(y)
        BY <1>7, <2>1 DEF Replaced
      <3>2. y \in Hybrid!Item /\ y.id = p /\ scanStart[p] <= y.from /\ y.from <= y.to
        BY <3>1 DEF Leftmost
      <3>3. \A z \in Items(t) : z.id # y.id  BY <1>2, <3>2
      <3>4. Ranked(q) /\ Items(q) = Items(t) \cup {y}  BY <1>2, <3>1, <3>2, <3>3, InsertIs
      <3>5. y = Now(g, p)
        <4>1. PICK s \in Nat : s = scanStart[p]  BY <1>3
        <4>2. Leftmost(p, s, y)  BY <3>1, <4>1
        <4>3. Hybrid!First(p, s) = y  BY <1>2, <1>3, <4>2, LeftmostIs
        <4> QED  BY <1>2, <4>1, <4>3
      <3>6. \A k \in DOMAIN g : g[k].span.to <= y.to
        <4> SUFFICES ASSUME NEW k \in DOMAIN g PROVE g[k].span.to <= y.to  OBVIOUS
        <4>1. g[k] \in Callback  BY <1>2
        <4>2. g[k].span.to \in Nat  BY <4>1, CallbackIs, HybridConstants DEF Offset
        <4>3. g[k].span.to <= x.to  BY <1>2
        <4>4. x.to <= scanStart[p] /\ x.to \in Nat  BY <1>2, <1>4, StartAfterIs
        <4>5. y.from \in Nat /\ y.to \in Nat  BY <3>2, StartAfterIs
        <4> QED  BY <1>3, <3>2, <4>2, <4>3, <4>4, <4>5
      <3>7. NextOf(g, active, c, sc, mt, y)
        <4>1. ~Over(g, p) /\ p \in active /\ p \notin c  BY <1>2, <1>4, <3>1
        <4> QED  BY <3>1, <3>2, <3>5, <3>6, <4>1 DEF NextOf
      <3>8. (\A r : InQ(t, r) => InQ(q, r)) /\ InQ(q, p)  BY <3>2, <3>4 DEF InQ
      <3> QED  BY <1>8, <3>4, <3>7, <3>8
    <2>2. ASSUME Dropped(t, p) PROVE q = t  BY <1>7, <2>2 DEF Dropped
    <2>3. Dropped(t, p) \/ \E y : Replaced(t, p, y)  BY <1>1
    <2>4. CASE Dropped(t, p) /\ ~(\E y : Replaced(t, p, y))  BY <1>2, <1>8, <2>2, <2>4
    <2>5. CASE \E y : Replaced(t, p, y)  BY <2>1, <2>5
    <2> QED  BY <2>3, <2>4, <2>5
  <1>10. QueueOK(q, g, active, c, sc, mt)  BY <1>9 DEF QueueOK
  <1>11. AnswersOK(g, active, c)
    <2>1. c \subseteq active /\ cut \subseteq c  BY <1>2, <1>4, <1>7 DEF AnswersOK
    <2>2. a = "skip" => p \in c  BY <1>7
    <2> QED  BY <1>2, <2>1, <2>2 DEF AnswersOK
  <1>12. Covers(q, g, active, c, chPc', chJob)
    <2> SUFFICES ASSUME NEW r \in active
                 PROVE  r \in c \/ InQ(q, r) \/ Now(g, r) = None \/ Over(g, r)
                        \/ Leaving(chPc', chJob, r)
      BY DEF Covers
    <2>1. CASE r # p
      <3>1. r \in cut \/ InQ(chPq, r) \/ Now(cbs, r) = None \/ Over(cbs, r)
        BY <1>2 DEF Covers, Leaving
      <3> QED  BY <1>2, <1>5, <1>6, <1>7, <1>9, <2>1, <3>1
    <2>2. CASE r = p
      <3>1. p \in c \/ Now(g, p) = None \/ p \in db.single \/ chPc' = "finish" \/ InQ(q, p)
        BY <1>1, <1>7, <1>9 DEF Dropped
      <3>2. chPc' = "finish" => Leaving(chPc', chJob, p)  BY DEF Leaving
      <3> QED  BY <1>2, <2>2, <3>1, <3>2
    <2> QED  BY <2>1, <2>2
  <1>13. FixedOK(q, active, c, sc, cur, todo, chPc', chJob)
    <2> SUFFICES ASSUME NEW r \in Hybrid!Fixed(db), r \in active
                 PROVE  /\ r \in c => sc[r] >= BlockLength
                        /\ r \notin c /\ r \notin db.single =>
                              /\ NotMissed(r, sc[r], cur, todo, chPc', chJob)
                              /\ \/ InQ(q, r) \/ sc[r] >= BlockLength
                                 \/ Leaving(chPc', chJob, r)
      BY DEF FixedOK
    <2>1. /\ r \in cut => scanStart[r] >= BlockLength
          /\ r \notin cut /\ r \notin db.single =>
                /\ NotMissed(r, scanStart[r], cur, todo, chPc, chJob)
                /\ InQ(chPq, r) \/ scanStart[r] >= BlockLength
      BY <1>2 DEF FixedOK, Leaving
    <2>2. CASE r # p
      <3>1. r \in Patterns  BY <1>2, HybridTypes
      <3>2. sc[r] = scanStart[r] /\ (r \in c <=> r \in cut)  BY <1>5, <1>7, <2>2, <3>1
      <3>3. InQ(chPq, r) => InQ(q, r)  BY <1>6, <1>9, <2>2
      <3>4. NotMissed(r, scanStart[r], cur, todo, chPc, chJob)
            => NotMissed(r, scanStart[r], cur, todo, chPc', chJob)
        BY <1>2 DEF NotMissed
      <3> QED  BY <2>1, <3>2, <3>3, <3>4
    <2>3. CASE r = p
      <3>1. p \in c => sc[p] >= BlockLength  BY <1>7
      <3>2. ASSUME p \notin c, p \notin db.single
            PROVE  NotMissed(p, sc[p], cur, todo, chPc', chJob)
        <4>1. NotMissed(p, scanStart[p], cur, todo, chPc, chJob)  BY <1>4, <2>1, <2>3, <3>2
        <4>2. sc[p] >= scanStart[p] /\ sc[p] \in Nat  BY <1>3, <1>7, <3>2
        <4>3. \A b \in Offset : sc[p] <= b => scanStart[p] <= b
          BY <1>3, <4>2 DEF Offset
        <4> QED  BY <1>2, <4>1, <4>3 DEF NotMissed
      <3>3. p \notin c /\ p \notin db.single =>
               InQ(q, p) \/ sc[p] >= BlockLength \/ Leaving(chPc', chJob, p)
        BY <1>1, <1>7, <1>9 DEF Leaving
      <3> QED  BY <2>3, <3>1, <3>2, <3>3
    <2> QED  BY <2>2, <2>3
  <1>14. (ForMatch' <=> ForMatch) /\ (ForFlush' <=> ForFlush) /\ chPc' # "multi" /\ chPc' # "init"
    BY <1>2 DEF ForMatch, ForFlush
  <1>15. SilentOK'
    BY <1>2, <1>14 DEF SilentOK, Frame, Silent
  <1>16. PlaceOK'
    <2>1. ForMatch => \A k \in DOMAIN g : g[k].span.to <= cur
      <3> SUFFICES ASSUME ForMatch PROVE \A k \in DOMAIN g : g[k].span.to <= cur  OBVIOUS
      <3>1. chJob.to = cur /\ x.to <= cur  BY <1>2 DEF MatchOK
      <3>2. cur \in Nat /\ x.to \in Nat  BY <1>2, <1>3, StartAfterIs DEF Offset
      <3>3. ASSUME NEW k \in DOMAIN g PROVE g[k].span.to <= cur
        <4>1. g[k] \in Callback  BY <1>2
        <4>2. g[k].span.to \in Nat  BY <4>1, CallbackIs, HybridConstants DEF Offset
        <4>3. g[k].span.to <= x.to  BY <1>2
        <4> QED  BY <3>1, <3>2, <4>2, <4>3
      <3> QED  BY <3>3
    <2>2. /\ db.unguarded \subseteq active
          /\ ForMatch =>
              /\ \A r \in todo : r \in Hybrid!Guarded(db)
              /\ \A r \in todo : r \in Hybrid!Fixed(db) =>
                    cur >= db.width[r] /\ ends[r][cur - db.width[r]] = cur
      BY <1>2 DEF PlaceOK
    <2>3. db'.unguarded \subseteq active'  BY <1>2, <2>2 DEF Frame
    <2>4. ForMatch' =>
              /\ \A k \in DOMAIN cbs' : cbs'[k].span.to <= cur'
              /\ \A r \in todo' : r \in Hybrid!Guarded(db')
              /\ \A r \in todo' : r \in Hybrid!Fixed(db') =>
                    cur' >= db'.width[r] /\ ends'[r][cur' - db'.width[r]] = cur'
      BY <1>1, <1>2, <1>14, <2>1, <2>2 DEF Frame
    <2> QED  BY <1>14, <2>3, <2>4 DEF PlaceOK, Hybrid!Guarded, Hybrid!Fixed
  <1>17. MatchOK'
    <2> SUFFICES ASSUME ForMatch PROVE MatchOK'  BY <1>14 DEF MatchOK
    <2>1. /\ chJob.id \in Hybrid!Fixed(db) /\ chJob.id \in active /\ chJob.id \notin db.single
          /\ chJob \in Hybrid!Item /\ chJob.to = cur
          /\ InQ(chPq, chJob.id) /\ chJob.id \notin cut
          /\ Leftmost(chJob.id, scanStart[chJob.id], chJob)
      BY <1>2 DEF MatchOK
    <2>2. /\ chJob'.id \in Hybrid!Fixed(db)' /\ chJob'.id \in active' /\ chJob'.id \notin db'.single
          /\ chJob' \in Hybrid!Item /\ chJob'.to = cur' /\ chJob.id \in Patterns
      BY <1>2, <2>1, ItemIs DEF Frame, Hybrid!Fixed
    <2>3. CASE chPc' = "catchup" /\ p # chJob.id
      <3>1. InQ(chPq', chJob.id) /\ chJob.id \notin cut'
            /\ scanStart'[chJob.id] = scanStart[chJob.id]
        BY <1>5, <1>6, <1>7, <1>9, <2>1, <2>2, <2>3
      <3>2. Leftmost(chJob.id, scanStart[chJob.id], chJob)'
        <4>1. PICK s, j : s = scanStart[chJob.id] /\ j = chJob  OBVIOUS
        <4>2. scanStart'[j.id] = s /\ chJob' = j /\ Leftmost(j.id, s, j)  BY <1>2, <2>1, <3>1, <4>1
        <4> QED  BY <1>2, <4>2 DEF Leftmost, Frame
      <3> QED  BY <1>2, <2>2, <2>3, <3>1, <3>2 DEF MatchOK
    <2>4. CASE /\ chPc' = "finish" /\ p = chJob.id /\ chPq' = t
               /\ p \in cut' \/ scanStart'[p] = scanStart[p]
      <3>1. ~InQ(chPq', p)  BY <1>2, <2>4 DEF InQ
      <3>2. chJob = Now(g, p)
        <4>1. PICK s \in Nat : s = scanStart[p]  BY <1>3
        <4>2. Leftmost(p, s, chJob)  BY <2>1, <2>4, <4>1
        <4>3. Hybrid!First(p, s) = chJob  BY <1>2, <1>3, <4>2, LeftmostIs
        <4> QED  BY <1>2, <4>1, <4>3
      <3>3. scanStart[p] < BlockLength
        <4>1. /\ chJob.from \in Offset /\ scanStart[p] <= chJob.from
              /\ ends[p][chJob.from] # None /\ ends[p][chJob.from] = chJob.to
          BY <2>1, <2>4, ItemIs DEF Leftmost
        <4>2. ends[p][chJob.from] = chJob.from + db.width[p]
          BY <1>2, <1>3, <2>1, <2>4, <4>1 DEF EndsOK
        <4>3. db.width[p] > 0 /\ db.width[p] \in Nat  BY <1>2, <2>1, <2>4, HybridTypes
        <4>4. chJob.from \in Nat /\ cur \in Nat /\ cur <= BlockLength
          BY <1>3, <4>1 DEF Offset
        <4>5. chJob.from < cur  BY <2>1, <4>1, <4>2, <4>3, <4>4
        <4> QED  BY <1>3, <4>1, <4>4, <4>5
      <3>4. chJob.id = p /\ chJob' = chJob /\ cbs' = g  BY <1>1, <1>2, <2>4
      <3>5. chJob = Now(cbs, p)'  BY <1>2, <3>2, <3>4, FirstSame DEF Now
      <3>6. p \notin cut' => scanStart'[p] < BlockLength  BY <2>4, <3>3
      <3>7. chPc' = "finish" /\ chPc' # "catchup"  BY <2>4
      <3> QED  BY <2>2, <3>1, <3>4, <3>5, <3>6, <3>7 DEF MatchOK
    <2> QED  BY <1>1, <2>3, <2>4
  <1>18. ForFlush' /\ chPc' = "finish" => chPq' = <<>>
    <2>1. Hybrid!Flush.id = None  BY DEF Hybrid!Flush
    <2>2. None \notin Patterns  BY HybridConstants
    <2> QED  BY <1>2, <2>1, <2>2 DEF ForFlush
  <1>19. q \in Seq(Hybrid!Item) /\ Len(q) <= Cardinality(Patterns)
    BY <1>9, RankedFits DEF Ranked
  <1>20. Hybrid!TypeOK'
    <2>1. cut' \subseteq Patterns  BY <1>2, <1>3
    <2>2. /\ cur' \in Offset /\ todo' \subseteq Patterns /\ active' \subseteq Patterns
          /\ chJob' \in Hybrid!Item \cup {Hybrid!Flush}
          /\ chPq' \in Seq(Hybrid!Item) /\ cbs' \in Seq(Callback)
      BY <1>1, <1>2, <1>3, <1>7, <1>19
    <2>3. /\ chPc' \in {"idle", "init", "multi", "catchup", "finish"}
          /\ res' \in {"SUCCESS", "SCAN_TERMINATED", "FAIL_INTERNAL"}
      BY <1>2
    <2> QED  BY <1>2, <2>1, <2>2, <2>3, TypesNext
  <1>21. ReturnOK'  BY <1>2, <1>7, <1>19 DEF ReturnOK
  <1>22. /\ QueueOK(chPq', cbs', active', cut', scanStart', match')
         /\ AnswersOK(cbs', active', cut')
         /\ Covers(chPq', cbs', active', cut', chPc', chJob')
         /\ FixedOK(chPq', active', cut', scanStart', cur', todo', chPc', chJob')
         /\ HistoryOK(cbs')
    BY <1>1, <1>2, <1>7, <1>10, <1>11, <1>12, <1>13
  <1> QED  BY <1>2, <1>15, <1>16, <1>17, <1>18, <1>20, <1>21, <1>22, HybridStep

\* Whatever the callback answers.
LEMMA CatchUpReportInv ==
    ASSUME HybridInv, NEW a \in Hybrid!Answers, Hybrid!CatchUpReport(a)
    PROVE  HybridInv'
  <1>1. PICK x, t, g, p : x = Head(chPq) /\ t = Tail(chPq) /\ g = cbs' /\ p = x.id  OBVIOUS
  <1>2. /\ chPc = "catchup" /\ res = "SUCCESS" /\ Hybrid!TypeOK /\ chJob' = chJob
        /\ p \in Patterns /\ Now(g, p) = Hybrid!First(p, scanStart[p])
    <2>1. Reporting(a, x, t, g)  BY <1>1, ReportIs
    <2> QED  BY <1>1, <2>1 DEF Reporting
  <1>3. /\ EndsOK /\ cut \subseteq Patterns /\ scanStart \in [Patterns -> 0 .. BlockLength + 1]
        /\ match \in [Patterns -> Hybrid!Span] /\ errors \in 0 .. MaxErrors
        /\ scanStart[p] \in Nat /\ BlockLength \in Nat
    BY <1>2, HybridTypes, HybridConstants
  <1>4. p = chJob.id <=> Hybrid!OwnMatch(x)  BY <1>1 DEF Hybrid!OwnMatch
  <1>5. (\A b \in Offset : scanStart[p] <= b => ends[p][b] = None) => Now(cbs', p) = None
    <2> SUFFICES ASSUME \A b \in Offset : scanStart[p] <= b => ends[p][b] = None
                 PROVE  Now(cbs', p) = None
      OBVIOUS
    <2>1. PICK s \in Nat : s = scanStart[p]  BY <1>3
    <2>2. Hybrid!First(p, s) = None  BY <1>2, <1>3, <2>1, NoFirst
    <2> QED  BY <1>1, <1>2, <2>1, <2>2
  <1>6. CASE /\ a = "terminate" /\ chPq' = t
             /\ chPc' = "finish" /\ res' = "SCAN_TERMINATED"
             /\ scanStart' = scanStart /\ match' = match /\ errors' = errors /\ cut' = cut
    BY <1>1, <1>3, <1>6, ReportFails
  <1>7. CASE /\ a = "skip" /\ chPq' = t
             /\ scanStart' = [scanStart EXCEPT ![p] = BlockLength]
             /\ cut' = cut \cup {p} /\ match' = match /\ errors' = errors
             /\ \/ p = chJob.id /\ chPc' = "finish" /\ res' = "SUCCESS"
                \/ p # chJob.id /\ chPc' = chPc /\ res' = res
    <2>1. /\ scanStart' \in [Patterns -> 0 .. BlockLength + 1] /\ scanStart'[p] = BlockLength
          /\ \A r \in Patterns : r # p => scanStart'[r] = scanStart[r]
      BY <1>2, <1>3, <1>7
    <2>2. Dropped(Tail(chPq), p) /\ p \in cut'  BY <1>1, <1>7 DEF Dropped
    <2>3. p = Head(chPq).id /\ a # "terminate" /\ res' = res /\ chPq' = Tail(chPq)
      BY <1>1, <1>2, <1>7
    <2>4. \/ chPc' = "catchup" /\ p # chJob.id
          \/ chPc' = "finish" /\ p = chJob.id
      BY <1>2, <1>7
    <2>5. scanStart'[p] >= BlockLength  BY <1>3, <2>1
    <2>6. /\ match' \in [Patterns -> Hybrid!Span] /\ errors' \in 0 .. MaxErrors
          /\ \A r \in Patterns : r # p => match'[r] = match[r]
      BY <1>3, <1>7
    <2> QED  BY <1>7, <2>1, <2>2, <2>3, <2>4, <2>5, <2>6, ReportGoesOn
  <1>8. CASE /\ a = "continue" /\ p = chJob.id /\ chPq' = t
             /\ chPc' = "finish" /\ res' = "SUCCESS"
             /\ scanStart' = scanStart /\ match' = match /\ errors' = errors /\ cut' = cut
    <2>1. Dropped(Tail(chPq), p)  BY <1>1, <1>8 DEF Dropped
    <2>2. /\ p = Head(chPq).id /\ a # "terminate" /\ res' = res /\ chPq' = Tail(chPq)
          /\ a # "skip" /\ chPc' # "catchup"
      BY <1>1, <1>2, <1>8
    <2>3. /\ scanStart' \in [Patterns -> 0 .. BlockLength + 1]
          /\ match' \in [Patterns -> Hybrid!Span] /\ errors' \in 0 .. MaxErrors
          /\ \A r \in Patterns : scanStart'[r] = scanStart[r] /\ match'[r] = match[r]
          /\ scanStart'[p] >= scanStart[p] /\ scanStart'[p] = scanStart[p]
      BY <1>3, <1>8
    <2>4. p \notin cut'
      <3>1. Reporting(a, x, t, g)  BY <1>1, ReportIs
      <3> QED  BY <1>1, <1>8, <3>1 DEF Reporting, NextOf
    <2> QED  BY <1>8, <2>1, <2>2, <2>3, <2>4, ReportGoesOn
  <1>9. CASE /\ a = "continue" /\ p # chJob.id /\ chPq' = t
             /\ ~(BlockLength >= scanStart[p]) \/ p \in db.single
             /\ chPc' = chPc /\ res' = res
             /\ scanStart' = scanStart /\ match' = match /\ errors' = errors /\ cut' = cut
    <2>1. p \notin cut'
      <3>1. Reporting(a, x, t, g)  BY <1>1, ReportIs
      <3> QED  BY <1>1, <1>9, <3>1 DEF Reporting, NextOf
    <2>2. p \notin db.single => scanStart'[p] >= BlockLength /\ Now(cbs', p) = None
      <3> SUFFICES ASSUME p \notin db.single
                   PROVE  scanStart'[p] >= BlockLength /\ Now(cbs', p) = None
        OBVIOUS
      <3>1. scanStart[p] > BlockLength  BY <1>3, <1>9
      <3>2. \A b \in Offset : scanStart[p] <= b => ends[p][b] = None
        BY <1>3, <3>1 DEF Offset
      <3> QED  BY <1>3, <1>5, <1>9, <3>1, <3>2
    <2>3. Dropped(Tail(chPq), p)  BY <1>1, <1>9, <2>2 DEF Dropped
    <2>4. /\ p = Head(chPq).id /\ a # "terminate" /\ res' = res
          /\ a # "skip" /\ chPc' = "catchup"
      BY <1>1, <1>2, <1>9
    <2>5. /\ scanStart' \in [Patterns -> 0 .. BlockLength + 1]
          /\ match' \in [Patterns -> Hybrid!Span] /\ errors' \in 0 .. MaxErrors
          /\ \A r \in Patterns : scanStart'[r] = scanStart[r] /\ match'[r] = match[r]
          /\ scanStart'[p] >= scanStart[p]
      BY <1>3, <1>9
    <2> QED  BY <1>9, <2>1, <2>2, <2>3, <2>4, <2>5, ReportGoesOn
  <1>10. CASE /\ a = "continue" /\ p # chJob.id /\ BlockLength >= scanStart[p]
              /\ p \notin db.single
              /\ \E o \in Hybrid!Outcomes(p, scanStart[p]) :
                    /\ Hybrid!ScanPcre(p, o, t,
                                IF Hybrid!Fatal(o) THEN scanStart[p] ELSE BlockLength)
                    /\ cut' = Hybrid!CutBy(p, o)
                    /\ \/ Hybrid!Fatal(o) /\ chPc' = "finish" /\ res' = Hybrid!Verdict(o)
                       \/ ~Hybrid!Fatal(o) /\ chPc' = chPc /\ res' = res
    <2>1. PICK s \in Nat : s = scanStart[p]  BY <1>3
    <2>2. PICK o \in Hybrid!Outcomes(p, s) :
                    /\ Hybrid!ScanPcre(p, o, t, IF Hybrid!Fatal(o) THEN s ELSE BlockLength)
                    /\ cut' = Hybrid!CutBy(p, o)
                    /\ \/ Hybrid!Fatal(o) /\ chPc' = "finish" /\ res' = Hybrid!Verdict(o)
                       \/ ~Hybrid!Fatal(o) /\ chPc' = chPc /\ res' = res
      BY <1>10, <2>1
    <2>3. PICK v : v = IF Hybrid!Fatal(o) THEN s ELSE BlockLength  OBVIOUS
    <2>4. Hybrid!ScanPcre(p, o, t, v)  BY <2>2, <2>3
    <2>5. \/ /\ \E y : Found(p, s, t, y)
             /\ ~Hybrid!Fatal(o) /\ Hybrid!CutBy(p, o) = cut
          \/ NoneFound(p, s, t, v) /\ ~Hybrid!Fatal(o) /\ Hybrid!CutBy(p, o) = cut
          \/ /\ AtLimit(p, t, IF o.ret = "skip" THEN BlockLength ELSE v)
             /\ Hybrid!CutBy(p, o) = cut \cup {p}
             /\ Hybrid!Verdict(o) \in {"SCAN_TERMINATED", "FAIL_INTERNAL"}
      BY <1>2, <1>3, <2>4, ScanPcreIs
    <2>6. p = Head(chPq).id /\ a # "terminate" /\ a # "skip" /\ t = Tail(chPq)
      BY <1>1, <1>10
    <2>7. p \notin cut
      <3>1. Reporting(a, x, t, g)  BY <1>1, ReportIs
      <3> QED  BY <1>1, <3>1 DEF Reporting, NextOf
    <2>8. CASE (\E y : Found(p, s, t, y)) /\ ~Hybrid!Fatal(o) /\ Hybrid!CutBy(p, o) = cut
      <3>1. PICK y : Found(p, s, t, y)  BY <2>8
      <3>2. y \in Hybrid!Item /\ s <= y.from /\ y.from <= y.to
        BY <3>1 DEF Found, Leftmost
      <3>3. PICK w : w = Hybrid!StartAfter(y)  OBVIOUS
      <3>4. /\ w \in 0 .. BlockLength + 1 /\ w \in Nat /\ w >= y.to /\ Spanned(y) \in Hybrid!Span
            /\ y.from \in Nat /\ y.to \in Nat
        BY <3>2, <3>3, StartAfterIs
      <3>5. w >= s  BY <3>2, <3>4
      <3>6. /\ scanStart' = [scanStart EXCEPT ![p] = w] /\ match' = [match EXCEPT ![p] = Spanned(y)]
            /\ errors' = errors
        BY <3>1, <3>3 DEF Found
      <3>7. /\ scanStart' \in [Patterns -> 0 .. BlockLength + 1] /\ scanStart'[p] = w
            /\ match' \in [Patterns -> Hybrid!Span] /\ match'[p] = Spanned(y)
            /\ \A r \in Patterns : r # p => scanStart'[r] = scanStart[r] /\ match'[r] = match[r]
        BY <1>2, <1>3, <3>4, <3>6
      <3>8. chPc' = "catchup" /\ res' = res /\ cut' = cut  BY <1>2, <2>2, <2>8
      <3>9. Replaced(Tail(chPq), p, y)
        BY <1>10, <2>1, <2>6, <3>1, <3>3, <3>7, <3>8 DEF Replaced, Found
      <3>10. \E z : Replaced(Tail(chPq), p, z)  BY <3>9
      <3>11. scanStart'[p] >= scanStart[p] /\ errors' \in 0 .. MaxErrors /\ p \notin cut'
        BY <1>3, <2>1, <2>7, <3>5, <3>6, <3>7, <3>8
      <3> QED  BY <1>10, <2>6, <3>7, <3>8, <3>10, <3>11, ReportGoesOn
    <2>9. CASE NoneFound(p, s, t, v) /\ ~Hybrid!Fatal(o) /\ Hybrid!CutBy(p, o) = cut
      <3>1. v = BlockLength  BY <2>3, <2>9
      <3>2. /\ scanStart' = [scanStart EXCEPT ![p] = BlockLength] /\ match' = match
            /\ errors' = errors /\ chPq' = t
            /\ \A b \in Offset : scanStart[p] <= b => ends[p][b] = None
        BY <2>1, <2>9, <3>1 DEF NoneFound
      <3>3. /\ scanStart' \in [Patterns -> 0 .. BlockLength + 1] /\ scanStart'[p] = BlockLength
            /\ match' \in [Patterns -> Hybrid!Span] /\ errors' \in 0 .. MaxErrors
            /\ \A r \in Patterns : r # p => scanStart'[r] = scanStart[r] /\ match'[r] = match[r]
        BY <1>2, <1>3, <3>2
      <3>4. chPc' = "catchup" /\ res' = res /\ cut' = cut  BY <1>2, <2>2, <2>9
      <3>5. Dropped(Tail(chPq), p)  BY <1>5, <2>6, <3>2 DEF Dropped
      <3>6. scanStart'[p] >= scanStart[p] /\ scanStart'[p] >= BlockLength /\ p \notin cut'
        BY <1>3, <1>10, <2>7, <3>3, <3>4
      <3> QED  BY <1>10, <2>6, <3>3, <3>4, <3>5, <3>6, ReportGoesOn
    <2>10. CASE /\ AtLimit(p, t, IF o.ret = "skip" THEN BlockLength ELSE v)
                /\ Hybrid!CutBy(p, o) = cut \cup {p}
                /\ Hybrid!Verdict(o) \in {"SCAN_TERMINATED", "FAIL_INTERNAL"}
      <3>1. PICK w : w = IF o.ret = "skip" THEN BlockLength ELSE v  OBVIOUS
      <3>2. /\ chPq' = t /\ match' = match /\ scanStart' = [scanStart EXCEPT ![p] = w]
            /\ errors' \in 0 .. MaxErrors /\ cut' = cut \cup {p}
        BY <2>2, <2>10, <3>1 DEF AtLimit
      <3>3. w \in 0 .. BlockLength + 1
        <4>1. s \in 0 .. BlockLength + 1 /\ BlockLength \in 0 .. BlockLength + 1
          BY <1>3, <1>10, <2>1
        <4> QED  BY <2>3, <3>1, <4>1
      <3>4. /\ scanStart' \in [Patterns -> 0 .. BlockLength + 1] /\ scanStart'[p] = w
            /\ \A r \in Patterns : r # p => scanStart'[r] = scanStart[r]
            /\ cut' \subseteq Patterns
        BY <1>2, <1>3, <3>2, <3>3
      <3>5. CASE Hybrid!Fatal(o)
        BY <2>2, <2>6, <2>10, <3>2, <3>4, <3>5, ReportFails
      <3>6. CASE ~Hybrid!Fatal(o)
        <4>1. w = BlockLength  BY <2>3, <3>1, <3>6
        <4>2. chPc' = "catchup" /\ res' = res  BY <1>2, <2>2, <3>6
        <4>3. Dropped(Tail(chPq), p) /\ p \in cut'  BY <2>6, <3>2 DEF Dropped
        <4>4. scanStart'[p] >= BlockLength  BY <1>3, <3>4, <4>1
        <4>5. match' \in [Patterns -> Hybrid!Span]
              /\ \A r \in Patterns : r # p => match'[r] = match[r]
          BY <1>3, <3>2
        <4> QED  BY <1>10, <2>6, <3>2, <3>4, <4>2, <4>3, <4>4, <4>5, ReportGoesOn
      <3> QED  BY <3>5, <3>6
    <2> QED  BY <2>5, <2>8, <2>9, <2>10
  <1> QED
    BY <1>1, <1>4, <1>6, <1>7, <1>8, <1>9, <1>10 DEF Hybrid!CatchUpReport, Hybrid!Caught

\* catchupPcre is through: it was the end of the scan, and the queue is empty.
LEMMA CatchUpEndInv == ASSUME HybridInv, Hybrid!CatchUpEnd PROVE HybridInv'
  <1>1. /\ chPc = "catchup" /\ (chPq # <<>> => Head(chPq).to > chJob.to)
        /\ chPq' = (IF chPq = <<>> THEN chPq ELSE Hybrid!Insert(chPq, chJob))
        /\ chPc' = "finish" /\ res' = "SUCCESS" /\ Frame /\ cur' = cur /\ todo' = todo
        /\ active' = active /\ scanStart' = scanStart /\ match' = match /\ chJob' = chJob
        /\ errors' = errors /\ cut' = cut /\ cbs' = cbs
    BY DEF Hybrid!CatchUpEnd, Hybrid!Caught, Frame
  <1>2. Hybrid!TypeOK /\ HistoryOK(cbs) /\ ReturnOK  BY DEF HybridInv
  <1>3. res = "SUCCESS" /\ ScanOK  BY <1>1 DEF HybridInv, ReturnOK
  <1>4. /\ QueueOK(chPq, cbs, active, cut, scanStart, match) /\ AnswersOK(cbs, active, cut)
        /\ Covers(chPq, cbs, active, cut, chPc, chJob)
        /\ FixedOK(chPq, active, cut, scanStart, cur, todo, chPc, chJob)
        /\ SilentOK /\ PlaceOK /\ MatchOK
    BY <1>3 DEF ScanOK
  <1>5. Ranked(chPq) /\ BlockLength \in Nat  BY <1>4, HybridConstants DEF QueueOK
  <1>6. chPq # <<>> => /\ Head(chPq).to \in Nat /\ Head(chPq).to <= BlockLength
                       /\ \A y \in Items(chPq) : Head(chPq).to <= y.to
    <2> SUFFICES ASSUME chPq # <<>>
                 PROVE  /\ Head(chPq).to \in Nat /\ Head(chPq).to <= BlockLength
                        /\ \A y \in Items(chPq) : Head(chPq).to <= y.to
      OBVIOUS
    <2>1. PICK h : h = Head(chPq)  OBVIOUS
    <2>2. h \in Hybrid!Item /\ \A y \in Items(chPq) : h.to <= y.to  BY <1>5, <2>1, TailIs
    <2>3. h.to \in Nat /\ h.to <= BlockLength  BY <2>2, StartAfterIs
    <2> QED  BY <2>1, <2>2, <2>3
  <1>7. chJob = Hybrid!Flush
    <2> SUFFICES ASSUME chJob # Hybrid!Flush PROVE FALSE  OBVIOUS
    <2>1. /\ InQ(chPq, chJob.id) /\ Leftmost(chJob.id, scanStart[chJob.id], chJob)
          /\ chJob \in Hybrid!Item
      BY <1>1, <1>4 DEF MatchOK, ForMatch
    <2>2. PICK y \in Items(chPq) : y.id = chJob.id  BY <2>1 DEF InQ
    <2>3. NextOf(cbs, active, cut, scanStart, match, y)  BY <1>4, <2>2 DEF QueueOK
    <2>4. y \in Hybrid!Item /\ chPq # <<>>
      <3>1. chPq \in Seq(Hybrid!Item)  BY <1>5 DEF Ranked
      <3> QED  BY <2>2, <3>1 DEF Items
    <2>5. /\ y.to <= Hybrid!StartAfter(y) /\ y.to \in Nat /\ Hybrid!StartAfter(y) \in Nat
          /\ scanStart[chJob.id] = Hybrid!StartAfter(y)
      BY <2>2, <2>3, <2>4, StartAfterIs DEF NextOf
    <2>6. /\ scanStart[chJob.id] <= chJob.from /\ chJob.from <= chJob.to
          /\ chJob.from \in Nat /\ chJob.to \in Nat
      BY <2>1, StartAfterIs DEF Leftmost
    <2>7. Head(chPq).to <= y.to /\ Head(chPq).to \in Nat /\ Head(chPq).to > chJob.to
      BY <1>1, <1>6, <2>2, <2>4
    <2> QED  BY <2>5, <2>6, <2>7
  <1>8. chPq = <<>> /\ chPq' = chPq
    <2>1. chJob.to = BlockLength  BY <1>7 DEF Hybrid!Flush
    <2> QED  BY <1>1, <1>5, <1>6, <2>1
  <1>9. Hybrid!TypeOK'
    <2>1. chPc' \in {"idle", "init", "multi", "catchup", "finish"}
          /\ res' \in {"SUCCESS", "SCAN_TERMINATED", "FAIL_INTERNAL"}
      BY <1>1
    <2> QED  BY <1>1, <1>2, <1>8, <2>1, TypesNext, HybridTypes
  <1>10. HistoryOK(cbs')  BY <1>1, <1>2
  <1>11. ReturnOK'  BY <1>1, <1>2, <1>8 DEF ReturnOK
  <1>12. QueueOK(chPq', cbs', active', cut', scanStart', match') /\ AnswersOK(cbs', active', cut')
    BY <1>1, <1>4, <1>8
  <1>13. Covers(chPq', cbs', active', cut', chPc', chJob')
    BY <1>1, <1>4, <1>8 DEF Covers, Leaving
  <1>14. FixedOK(chPq', active', cut', scanStart', cur', todo', chPc', chJob')
    BY <1>1, <1>4, <1>8 DEF FixedOK, Leaving, NotMissed
  <1>15. ~ForMatch' /\ (ForFlush' <=> ForFlush) /\ chPc' # "multi" /\ chPc' # "init"
    BY <1>1, <1>7 DEF ForMatch, ForFlush
  <1>16. SilentOK'  BY <1>1, <1>4, <1>15 DEF SilentOK, Frame
  <1>17. PlaceOK'
    <2>1. db.unguarded \subseteq active  BY <1>1, <1>4 DEF PlaceOK
    <2> QED  BY <1>1, <1>15, <2>1 DEF PlaceOK, Frame
  <1>18. MatchOK' /\ (ForFlush' /\ chPc' = "finish" => chPq' = <<>>)
    BY <1>8, <1>15 DEF MatchOK
  <1> QED
    BY <1>1, <1>9, <1>10, <1>11, <1>12, <1>13, <1>14, <1>16, <1>17, <1>18, HybridStep

\* After the flush every match has been reported.
LEMMA FlushedInv ==
    ASSUME HybridInv, Hybrid!Finish, chJob = Hybrid!Flush
    PROVE  HybridInv'
  <1>1. /\ chPc = "finish" /\ chPc' = "idle" /\ Frame /\ cur' = cur /\ todo' = todo
        /\ active' = active /\ scanStart' = scanStart /\ match' = match /\ chPq' = chPq
        /\ chJob' = chJob /\ res' = res /\ errors' = errors /\ cut' = cut /\ cbs' = cbs
    BY DEF Hybrid!Finish, Frame
  <1>2. Hybrid!TypeOK /\ HistoryOK(cbs) /\ ReturnOK  BY DEF HybridInv
  <1>3. Hybrid!TypeOK'
    <2>1. chPc' \in {"idle", "init", "multi", "catchup", "finish"}
          /\ res' \in {"SUCCESS", "SCAN_TERMINATED", "FAIL_INTERNAL"}
      BY <1>1, <1>2 DEF Hybrid!TypeOK
    <2> QED  BY <1>1, <1>2, <2>1, TypesNext, HybridTypes
  <1>4. HistoryOK(cbs')  BY <1>1, <1>2
  <1>5. res = "SUCCESS" =>
           chPq = <<>> /\ \A p \in Patterns : p \in cut \/ Now(cbs, p) = None \/ Over(cbs, p)
    <2> SUFFICES ASSUME res = "SUCCESS"
                 PROVE  /\ chPq = <<>>
                        /\ \A p \in Patterns : p \in cut \/ Now(cbs, p) = None \/ Over(cbs, p)
      OBVIOUS
    <2>1. ScanOK /\ ForFlush /\ ~ForMatch  BY <1>1 DEF HybridInv, ForFlush, ForMatch
    <2>2. /\ chPq = <<>> /\ Covers(chPq, cbs, active, cut, chPc, chJob)
          /\ SilentOK /\ db.unguarded \subseteq active
      BY <1>1, <2>1 DEF ScanOK, PlaceOK
    <2>3. ASSUME NEW p \in Patterns PROVE p \in cut \/ Now(cbs, p) = None \/ Over(cbs, p)
      <3>1. CASE p \in active
        <4>1. ~InQ(chPq, p)  BY <2>2 DEF InQ, Items
        <4>2. ~Leaving(chPc, chJob, p)
          <5>1. chJob.id = None  BY DEF Hybrid!Flush
          <5> QED  BY <5>1, HybridConstants DEF Leaving
        <4> QED  BY <2>2, <3>1, <4>1, <4>2 DEF Covers
      <3>2. CASE p \notin active
        <4>1. \A b \in Offset : ends[p][b] = None  BY <2>1, <2>2, <3>2 DEF SilentOK
        <4>2. PICK s : s = GoOnAt(cbs, p, Len(cbs))  OBVIOUS
        <4>3. s \in Nat
          <5>1. cbs \in Seq(Callback)  BY <1>2, HybridTypes
          <5>2. Len(cbs) \in 0 .. Len(cbs)  BY <5>1
          <5> QED  BY <4>2, <5>1, <5>2, GoOnIsNat
        <4>4. EndsOK  BY <1>2, HybridTypes
        <4>5. Hybrid!First(p, s) = None  BY <4>1, <4>3, <4>4, NoFirst
        <4> QED  BY <4>2, <4>5 DEF Now
      <3> QED  BY <3>1, <3>2
    <2> QED  BY <2>2, <2>3
  <1>6. ReturnOK'
    <2>1. Len(chPq') <= Cardinality(Patterns)  BY <1>1, <1>2 DEF ReturnOK
    <2>2. \A p : Now(cbs, p)' = Now(cbs, p) /\ (Over(cbs, p)' <=> Over(cbs, p))
      BY <1>1, FirstSame DEF Now, Over, Frame
    <2> QED  BY <1>1, <1>5, <2>1, <2>2 DEF ReturnOK
  <1> QED  BY <1>1, <1>3, <1>4, <1>6, HybridStep

\* A scan that failed in catchupPcre: there was room for the match.
LEMMA FinishFails ==
    ASSUME HybridInv, Hybrid!Finish, chJob # Hybrid!Flush, res # "SUCCESS"
    PROVE  HybridInv'
  <1>1. Hybrid!TypeOK /\ HistoryOK(cbs) /\ ReturnOK  BY DEF HybridInv
  <1>2. /\ chPc = "finish" /\ chPc' = "idle" /\ Frame /\ cur' = cur /\ todo' = todo
        /\ active' = active
        /\ chJob' = chJob /\ res' = res /\ errors' = errors /\ cut' = cut /\ cbs' = cbs
        /\ \/ scanStart' = scanStart /\ match' = match /\ chPq' = chPq
           \/ Hybrid!Enqueue(chJob, chPq)
    BY DEF Hybrid!Finish, Frame
  <1>3. /\ chJob \in Hybrid!Item /\ chJob.id \in Patterns /\ chPq \in Seq(Hybrid!Item)
        /\ scanStart \in [Patterns -> 0 .. BlockLength + 1] /\ match \in [Patterns -> Hybrid!Span]
    <2>1. chJob \in Hybrid!Item  BY <1>1, HybridTypes
    <2> QED  BY <1>1, <2>1, HybridTypes, ItemIs
  <1>4. /\ Len(chPq) < Cardinality(Patterns) /\ Len(chPq) \in Nat /\ Cardinality(Patterns) \in Nat
    BY <1>1, <1>2, <1>3, HybridConstants, FS_CardinalityType DEF ReturnOK
  <1>5. /\ scanStart' \in [Patterns -> 0 .. BlockLength + 1] /\ match' \in [Patterns -> Hybrid!Span]
        /\ chPq' \in Seq(Hybrid!Item) /\ Len(chPq') <= Cardinality(Patterns)
    <2>1. CASE scanStart' = scanStart /\ match' = match /\ chPq' = chPq
      BY <1>3, <1>4, <2>1
    <2>2. CASE Hybrid!Enqueue(chJob, chPq)
      <3>1. PICK j, w : j = chJob /\ w = Hybrid!StartAfter(chJob)  OBVIOUS
      <3>2. /\ scanStart' = [scanStart EXCEPT ![j.id] = w]
            /\ match' = [match EXCEPT ![j.id] = Spanned(j)]
            /\ chPq' = Hybrid!Insert(chPq, j)
        BY <2>2, <3>1 DEF Hybrid!Enqueue, Spanned
      <3>3. w \in 0 .. BlockLength + 1 /\ Spanned(j) \in Hybrid!Span /\ j \in Hybrid!Item
        BY <1>3, <3>1, StartAfterIs
      <3>4. /\ Hybrid!Insert(chPq, j) \in Seq(Hybrid!Item)
            /\ Len(Hybrid!Insert(chPq, j)) = Len(chPq) + 1
        BY <1>3, <3>3, PlacedIs
      <3>5. /\ scanStart' \in [Patterns -> 0 .. BlockLength + 1]
            /\ match' \in [Patterns -> Hybrid!Span]
        BY <1>3, <3>2, <3>3
      <3>6. chPq' \in Seq(Hybrid!Item) /\ Len(chPq') = Len(chPq) + 1  BY <3>2, <3>4
      <3>7. Len(chPq') <= Cardinality(Patterns)  BY ONLY <1>4, <3>6
      <3> QED  BY <3>5, <3>6, <3>7
    <2> QED  BY <1>2, <2>1, <2>2
  <1>6. Hybrid!TypeOK'
    <2>1. chPc' \in {"idle", "init", "multi", "catchup", "finish"}
          /\ res' \in {"SUCCESS", "SCAN_TERMINATED", "FAIL_INTERNAL"}
      BY <1>1, <1>2 DEF Hybrid!TypeOK
    <2> QED  BY <1>1, <1>2, <1>5, <2>1, TypesNext, HybridTypes
  <1> QED  BY <1>2, <1>5, <1>6, FailedInv

\* What holds back in multiCallback, with p the pattern of the match.
Back(p) ==
    /\ chPc = "finish" /\ res = "SUCCESS" /\ chPc' = "multi" /\ Frame /\ cur' = cur
    /\ todo' = todo /\ active' = active /\ chJob' = chJob /\ res' = res
    /\ errors' = errors /\ cut' = cut /\ cbs' = cbs
    /\ Hybrid!TypeOK /\ ScanOK /\ ForMatch /\ p = chJob.id
    /\ p \in Hybrid!Fixed(db) /\ p \in active /\ p \notin db.single /\ p \in Patterns
    /\ chJob \in Hybrid!Item /\ chJob.to = cur /\ ~InQ(chPq, p)
    /\ p \notin cut => chJob = Now(cbs, p) /\ scanStart[p] < BlockLength

\* The invariant gives that when catchupPcre was successful.
LEMMA BackIs ==
    ASSUME HybridInv, Hybrid!Finish, chJob # Hybrid!Flush, res = "SUCCESS",
           NEW p, p = chJob.id
    PROVE  Back(p)
  <1>1. Hybrid!TypeOK /\ HistoryOK(cbs) /\ ReturnOK  BY DEF HybridInv
  <1>2. /\ chPc = "finish" /\ chPc' = "multi" /\ Frame /\ cur' = cur /\ todo' = todo
        /\ active' = active
        /\ chJob' = chJob /\ res' = res /\ errors' = errors /\ cut' = cut /\ cbs' = cbs
    BY DEF Hybrid!Finish, Frame
  <1>3. ScanOK /\ ForMatch  BY <1>2 DEF HybridInv, ForMatch
  <1>4. MatchOK  BY <1>3 DEF ScanOK
  <1>5. /\ p \in Hybrid!Fixed(db) /\ p \in active /\ p \notin db.single
        /\ chJob \in Hybrid!Item /\ chJob.to = cur /\ ~InQ(chPq, p)
        /\ p \notin cut => chJob = Now(cbs, p) /\ scanStart[p] < BlockLength
    BY <1>2, <1>3, <1>4 DEF MatchOK
  <1>6. p \in Patterns  BY <1>1, <1>5, HybridTypes
  <1> QED  BY <1>1, <1>2, <1>3, <1>5, <1>6 DEF Back

\* hs_scan goes on when the queue is right for the pattern of the match.
LEMMA BackInv ==
    ASSUME HybridInv, NEW p, Back(p),
           QueueOK(chPq', cbs, active, cut, scanStart', match'),
           scanStart' \in [Patterns -> 0 .. BlockLength + 1],
           match' \in [Patterns -> Hybrid!Span],
           \A r \in Patterns : r # p => scanStart'[r] = scanStart[r],
           \A r : InQ(chPq, r) => InQ(chPq', r),
           p \in cut \/ InQ(chPq', p),
           p \in cut => scanStart'[p] >= BlockLength,
           p \notin cut => NotMissed(p, scanStart'[p], cur, todo, "multi", chJob)
    PROVE  HybridInv'
  <1>1. HistoryOK(cbs) /\ ReturnOK  BY DEF HybridInv
  <1>2. /\ chPc = "finish" /\ res = "SUCCESS" /\ chPc' = "multi" /\ Frame /\ cur' = cur
        /\ todo' = todo /\ active' = active /\ chJob' = chJob /\ res' = res
        /\ errors' = errors /\ cut' = cut /\ cbs' = cbs
        /\ Hybrid!TypeOK /\ ForMatch /\ p = chJob.id /\ p \notin db.single /\ p \in Patterns
        /\ p \in active
    BY DEF Back
  <1>3. /\ AnswersOK(cbs, active, cut)
        /\ Covers(chPq, cbs, active, cut, chPc, chJob)
        /\ FixedOK(chPq, active, cut, scanStart, cur, todo, chPc, chJob)
        /\ SilentOK /\ PlaceOK
    BY DEF Back, ScanOK
  <1>4. chPq' \in Seq(Hybrid!Item) /\ Len(chPq') <= Cardinality(Patterns)
    <2>1. Ranked(chPq')  BY DEF QueueOK
    <2> QED  BY <2>1, RankedFits DEF Ranked
  <1>5. Hybrid!TypeOK'
    <2>1. chPc' \in {"idle", "init", "multi", "catchup", "finish"}
          /\ res' \in {"SUCCESS", "SCAN_TERMINATED", "FAIL_INTERNAL"}
      BY <1>2
    <2> QED  BY <1>2, <1>4, <2>1, TypesNext, HybridTypes
  <1>6. ReturnOK'  BY <1>2, <1>4 DEF ReturnOK
  <1>7. Covers(chPq', cbs, active, cut, "multi", chJob)
    <2> SUFFICES ASSUME NEW r \in active
                 PROVE  r \in cut \/ InQ(chPq', r) \/ Now(cbs, r) = None \/ Over(cbs, r)
      BY DEF Covers
    <2>1. CASE r = p  BY <2>1
    <2>2. CASE r # p
      <3>1. ~Leaving(chPc, chJob, r)  BY <1>2, <2>2 DEF Leaving
      <3> QED  BY <1>3, <3>1 DEF Covers
    <2> QED  BY <2>1, <2>2
  <1>8. FixedOK(chPq', active, cut, scanStart', cur, todo, "multi", chJob)
    <2> SUFFICES ASSUME NEW r \in Hybrid!Fixed(db), r \in active
                 PROVE  /\ r \in cut => scanStart'[r] >= BlockLength
                        /\ r \notin cut /\ r \notin db.single =>
                              /\ NotMissed(r, scanStart'[r], cur, todo, "multi", chJob)
                              /\ InQ(chPq', r) \/ scanStart'[r] >= BlockLength
      BY DEF FixedOK
    <2>1. CASE r = p  BY <2>1
    <2>2. CASE r # p
      <3>1. r \in Patterns /\ ~Leaving(chPc, chJob, r)  BY <1>2, <2>2, HybridTypes DEF Leaving
      <3>2. /\ r \in cut => scanStart[r] >= BlockLength
            /\ r \notin cut /\ r \notin db.single =>
                  /\ NotMissed(r, scanStart[r], cur, todo, chPc, chJob)
                  /\ InQ(chPq, r) \/ scanStart[r] >= BlockLength
        BY <1>3, <3>1 DEF FixedOK
      <3>3. NotMissed(r, scanStart[r], cur, todo, chPc, chJob)
            => NotMissed(r, scanStart[r], cur, todo, "multi", chJob)
        BY <1>2, <2>2 DEF NotMissed
      <3>4. scanStart'[r] = scanStart[r]  BY <2>2, <3>1
      <3> QED  BY <3>2, <3>3, <3>4
    <2> QED  BY <2>1, <2>2
  <1>9. ~ForMatch' /\ ~ForFlush'  BY <1>2 DEF ForMatch, ForFlush
  <1>10. SilentOK'
    <2>1. \A r \in Patterns : r \notin db.unguarded /\ r \notin active => Silent(r, cur, todo)
      BY <1>2, <1>3 DEF SilentOK
    <2>2. \A r \in Patterns : r \notin db'.unguarded /\ r \notin active' => Silent(r, cur, todo)'
      BY <1>2, <2>1 DEF Silent, Frame
    <2> QED  BY <1>9, <2>2 DEF SilentOK
  <1>11. PlaceOK'
    <2>1. /\ db.unguarded \subseteq active
          /\ \A k \in DOMAIN cbs : cbs[k].span.to <= cur
          /\ \A r \in todo : r \in Hybrid!Guarded(db)
          /\ \A r \in todo : r \in Hybrid!Fixed(db) =>
                cur >= db.width[r] /\ ends[r][cur - db.width[r]] = cur
      BY <1>2, <1>3 DEF PlaceOK
    <2>2. /\ chPc' # "init" /\ db'.unguarded \subseteq active'
          /\ \A k \in DOMAIN cbs' : cbs'[k].span.to <= cur'
          /\ \A r \in todo' : r \in Hybrid!Guarded(db')
          /\ \A r \in todo' : r \in Hybrid!Fixed(db') =>
                cur' >= db'.width[r] /\ ends'[r][cur' - db'.width[r]] = cur'
      BY <1>2, <2>1 DEF Frame
    <2> QED  BY <2>2 DEF PlaceOK, Hybrid!Guarded, Hybrid!Fixed
  <1>12. MatchOK' /\ (ForFlush' /\ chPc' = "finish" => chPq' = <<>>)  BY <1>9 DEF MatchOK
  <1>13. /\ QueueOK(chPq', cbs', active', cut', scanStart', match')
         /\ AnswersOK(cbs', active', cut')
         /\ Covers(chPq', cbs', active', cut', chPc', chJob')
         /\ FixedOK(chPq', active', cut', scanStart', cur', todo', chPc', chJob')
         /\ HistoryOK(cbs')
    BY <1>1, <1>2, <1>3, <1>7, <1>8
  <1> QED  BY <1>2, <1>5, <1>6, <1>10, <1>11, <1>12, <1>13, HybridStep

\* Back in multiCallback the match is queued, unless its pattern was given up.
LEMMA FinishInv == ASSUME HybridInv, Hybrid!Finish PROVE HybridInv'
  <1>1. CASE chJob = Hybrid!Flush  BY <1>1, FlushedInv
  <1>2. CASE chJob # Hybrid!Flush /\ res # "SUCCESS"  BY <1>2, FinishFails
  <1>3. CASE chJob # Hybrid!Flush /\ res = "SUCCESS"
    <2>1. PICK p, x : p = x.id /\ x = chJob  OBVIOUS
    <2>2. Back(p)  BY <1>3, <2>1, BackIs
    <2>3. /\ ScanOK /\ Hybrid!TypeOK /\ p \in Hybrid!Fixed(db) /\ p \in active
          /\ p \notin db.single /\ p \in Patterns /\ x \in Hybrid!Item /\ x.to = cur
          /\ ~InQ(chPq, p)
          /\ p \notin cut => x = Now(cbs, p) /\ scanStart[p] < BlockLength
      BY <2>1, <2>2 DEF Back
    <2>4. /\ QueueOK(chPq, cbs, active, cut, scanStart, match)
          /\ p \in cut => scanStart[p] >= BlockLength
          /\ PlaceOK
      BY <2>3 DEF ScanOK, FixedOK
    <2>5. /\ scanStart \in [Patterns -> 0 .. BlockLength + 1]
          /\ match \in [Patterns -> Hybrid!Span] /\ EndsOK /\ cbs \in Seq(Callback)
          /\ cur \in Offset /\ scanStart[p] \in Nat /\ BlockLength \in Nat
          /\ db.width[p] \in Nat /\ db.width[p] > 0
      BY <2>3, HybridTypes, HybridConstants
    <2>6. CASE /\ scanStart[p] >= BlockLength
               /\ scanStart' = scanStart /\ match' = match /\ chPq' = chPq
      <3>1. p \in cut  BY <2>3, <2>5, <2>6
      <3>2. QueueOK(chPq', cbs, active, cut, scanStart', match')  BY <2>4, <2>6
      <3> QED  BY <2>2, <2>4, <2>5, <2>6, <3>1, <3>2, BackInv
    <2>7. CASE scanStart[p] < BlockLength /\ Hybrid!Enqueue(x, chPq)
      <3>1. p \notin cut /\ x = Now(cbs, p)  BY <2>3, <2>4, <2>5, <2>7
      <3>2. PICK s : s = GoOnAt(cbs, p, Len(cbs))  OBVIOUS
      <3>3. s \in Nat /\ Leftmost(p, s, x)
        <4>1. Len(cbs) \in 0 .. Len(cbs)  BY <2>5
        <4>2. s \in Nat  BY <2>5, <3>2, <4>1, GoOnIsNat
        <4>3. x = Hybrid!First(p, s)  BY <3>1, <3>2 DEF Now
        <4>4. x # None  BY <2>3, HybridConstants
        <4> QED  BY <2>3, <2>5, <4>2, <4>3, <4>4, FirstIs
      <3>4. x.from \in Offset /\ x.from \in Nat /\ x.to \in Nat /\ x.from < x.to
        <4>1. /\ x.from \in Offset /\ ends[p][x.from] # None /\ ends[p][x.from] = x.to
          BY <2>3, <3>3, ItemIs DEF Leftmost
        <4>2. x.to = x.from + db.width[p]  BY <2>3, <2>5, <4>1 DEF EndsOK
        <4>3. x.from \in Nat /\ x.to \in Nat  BY <2>3, StartAfterIs
        <4> QED  BY <2>5, <4>1, <4>2, <4>3
      <3>5. PICK w : w = Hybrid!StartAfter(x)  OBVIOUS
      <3>6. w = cur /\ w \in 0 .. BlockLength + 1 /\ Spanned(x) \in Hybrid!Span /\ cur \in Nat
        BY <2>3, <3>4, <3>5, StartAfterIs
      <3>7. /\ scanStart' = [scanStart EXCEPT ![p] = w]
            /\ match' = [match EXCEPT ![p] = Spanned(x)]
            /\ chPq' = Hybrid!Insert(chPq, x)
        BY <2>1, <2>7, <3>5 DEF Hybrid!Enqueue, Spanned
      <3>8. /\ scanStart' \in [Patterns -> 0 .. BlockLength + 1] /\ scanStart'[p] = w
            /\ match' \in [Patterns -> Hybrid!Span] /\ match'[p] = Spanned(x)
            /\ \A r \in Patterns : r # p => scanStart'[r] = scanStart[r] /\ match'[r] = match[r]
        BY <2>3, <2>5, <3>6, <3>7
      <3>9. PICK q, sc, mt : q = chPq' /\ sc = scanStart' /\ mt = match'  OBVIOUS
      <3>10. Ranked(q) /\ Items(q) = Items(chPq) \cup {x}
        <4>1. Ranked(chPq) /\ \A y \in Items(chPq) : y.id # x.id
          BY <2>1, <2>3, <2>4 DEF QueueOK, InQ
        <4> QED  BY <2>3, <3>7, <3>9, <4>1, InsertIs
      <3>11. NextOf(cbs, active, cut, sc, mt, x)
        <4>1. ~Over(cbs, p)  BY <2>3 DEF Over
        <4>2. \A k \in DOMAIN cbs : cbs[k].span.to <= x.to  BY <2>2, <2>3, <2>4 DEF PlaceOK, Back
        <4> QED  BY <2>1, <2>3, <3>1, <3>5, <3>8, <3>9, <4>1, <4>2 DEF NextOf
      <3>12. \A y \in Items(chPq) : NextOf(cbs, active, cut, sc, mt, y)
        <4> SUFFICES ASSUME NEW y \in Items(chPq) PROVE NextOf(cbs, active, cut, sc, mt, y)
          OBVIOUS
        <4>1. NextOf(cbs, active, cut, scanStart, match, y) /\ y.id # p
          BY <2>3, <2>4 DEF QueueOK, InQ
        <4>2. y.id \in Patterns
          <5>1. chPq \in Seq(Hybrid!Item)  BY <2>3, HybridTypes
          <5>2. y \in Hybrid!Item  BY <5>1 DEF Items
          <5> QED  BY <5>2, ItemIs
        <4> QED  BY <3>8, <3>9, <4>1, <4>2 DEF NextOf
      <3>13. QueueOK(q, cbs, active, cut, sc, mt)  BY <3>10, <3>11, <3>12 DEF QueueOK
      <3>14. (\A r : InQ(chPq, r) => InQ(q, r)) /\ InQ(q, p)  BY <2>1, <3>10 DEF InQ
      <3>15. NotMissed(p, cur, cur, todo, "multi", chJob)
        <4>1. ASSUME NEW b \in Offset, cur <= b, ends[p][b] # None PROVE ends[p][b] > cur
          <5>1. ends[p][b] = b + db.width[p]  BY <2>3, <2>5, <4>1 DEF EndsOK
          <5>2. b \in Nat  BY <2>5 DEF Offset
          <5> QED  BY <2>5, <3>6, <4>1, <5>1, <5>2
        <4> QED  BY <4>1 DEF NotMissed
      <3>16. NotMissed(p, scanStart'[p], cur, todo, "multi", chJob)  BY <3>6, <3>8, <3>15
      <3> QED  BY <2>2, <3>1, <3>8, <3>9, <3>13, <3>14, <3>16, BackInv
    <2> QED  BY <1>3, <2>1, <2>6, <2>7 DEF Hybrid!Finish
  <1> QED  BY <1>1, <1>2, <1>3

----------------------------------------------------------------------------
(* The theorems about ch_scan                                              *)

\* Before the first scan.
LEMMA HybridInitInv == ASSUME Hybrid!Init PROVE HybridInv
  <1>1. /\ db \in Databases /\ ends = [p \in Patterns |-> [o \in Offset |-> None]]
        /\ chPc = "idle" /\ cur = 0 /\ todo = {} /\ active = {}
        /\ scanStart = [p \in Patterns |-> 0]
        /\ match = [p \in Patterns |-> [from |-> 0, to |-> 0]]
        /\ chPq = <<>> /\ chJob = Hybrid!Flush /\ res = "SUCCESS"
        /\ errors = 0 /\ cut = {} /\ cbs = <<>>
    BY DEF Hybrid!Init, Offset
  <1>2. BlockLength \in Nat /\ MaxErrors \in Nat  BY HybridConstants
  <1>3. \A p \in Patterns, o \in Offset : ends[p][o] = None  BY <1>1
  <1>4. Hybrid!TypeOK
    <2>1. Hybrid!DataFits(db, ends)  BY <1>3 DEF Hybrid!DataFits, Offset
    <2>2. /\ scanStart \in [Patterns -> 0 .. BlockLength + 1]
          /\ match \in [Patterns -> Hybrid!Span]
      BY <1>1, <1>2 DEF Hybrid!Span
    <2> QED  BY <1>1, <1>2, <2>1, <2>2 DEF Hybrid!TypeOK
  <1>5. DOMAIN cbs = {} /\ Len(cbs) = 0 /\ Len(chPq) = 0  BY <1>1
  <1>6. HistoryOK(cbs)  BY <1>5 DEF HistoryOK
  <1>7. \A p \in Patterns : Now(cbs, p) = None
    <2> SUFFICES ASSUME NEW p \in Patterns PROVE Now(cbs, p) = None  OBVIOUS
    <2>1. GoOnAt(cbs, p, Len(cbs)) = 0  BY <1>5 DEF GoOnAt, ToldIn
    <2>2. EndsOK  BY <1>4, HybridTypes
    <2>3. Hybrid!First(p, 0) = None  BY <1>3, <2>2, NoFirst
    <2> QED  BY <2>1, <2>3 DEF Now
  <1>8. ReturnOK
    <2>1. Cardinality(Patterns) \in Nat  BY HybridConstants, FS_CardinalityType
    <2> QED  BY <1>1, <1>5, <1>7, <2>1 DEF ReturnOK
  <1> QED  BY <1>1, <1>4, <1>6, <1>8 DEF HybridInv

\* Every step of ch_scan keeps the invariant.
LEMMA HybridNextInv == ASSUME HybridInv, Hybrid!Next PROVE HybridInv'
  <1>1. CASE Hybrid!ChScan  BY <1>1, ChScanInv
  <1>2. CASE Hybrid!InitQueue  BY <1>2, InitQueueInv
  <1>3. CASE Hybrid!StartMulti  BY <1>3, StartMultiInv
  <1>4. CASE Hybrid!Advance  BY <1>4, AdvanceInv
  <1>5. CASE \E p \in Patterns : Hybrid!MultiCallback(p)  BY <1>5, MultiCallbackInv
  <1>6. CASE \E a \in Hybrid!Answers : Hybrid!CatchUpReport(a)  BY <1>6, CatchUpReportInv
  <1>7. CASE Hybrid!CatchUpEnd  BY <1>7, CatchUpEndInv
  <1>8. CASE Hybrid!Finish  BY <1>8, FinishInv
  <1> QED  BY <1>1, <1>2, <1>3, <1>4, <1>5, <1>6, <1>7, <1>8 DEF Hybrid!Next

\* So does a step that leaves ch_scan alone.
LEMMA HybridRestsInv == ASSUME HybridInv, UNCHANGED chimeraVars PROVE HybridInv'
  <1>1. /\ db' = db /\ ends' = ends /\ chPc' = chPc /\ cur' = cur /\ todo' = todo
        /\ active' = active /\ scanStart' = scanStart /\ match' = match /\ chPq' = chPq
        /\ chJob' = chJob /\ res' = res /\ errors' = errors /\ cut' = cut /\ cbs' = cbs
    BY DEF chimeraVars
  <1>2. Frame /\ Hybrid!TypeOK /\ HistoryOK(cbs) /\ ReturnOK  BY <1>1 DEF Frame, HybridInv
  <1>3. Hybrid!TypeOK'
    BY <1>1, <1>2 DEF Hybrid!TypeOK, Hybrid!DataFits, Hybrid!Fixed
  <1>4. ReturnOK'
    <2>1. \A p : Now(cbs, p)' = Now(cbs, p) /\ (Over(cbs, p)' <=> Over(cbs, p))
      BY <1>1, <1>2, FirstSame DEF Now, Over
    <2> QED  BY <1>1, <1>2, <2>1 DEF ReturnOK
  <1>5. chPc' # "idle" /\ res' = "SUCCESS" =>
              /\ QueueOK(chPq', cbs', active', cut', scanStart', match')
              /\ AnswersOK(cbs', active', cut')
              /\ Covers(chPq', cbs', active', cut', chPc', chJob')
              /\ FixedOK(chPq', active', cut', scanStart', cur', todo', chPc', chJob')
              /\ SilentOK' /\ PlaceOK' /\ MatchOK'
              /\ ForFlush' /\ chPc' = "finish" => chPq' = <<>>
    <2> SUFFICES ASSUME ScanOK
                 PROVE  /\ QueueOK(chPq', cbs', active', cut', scanStart', match')
                        /\ AnswersOK(cbs', active', cut')
                        /\ Covers(chPq', cbs', active', cut', chPc', chJob')
                        /\ FixedOK(chPq', active', cut', scanStart', cur', todo', chPc', chJob')
                        /\ SilentOK' /\ PlaceOK' /\ MatchOK'
                        /\ ForFlush' /\ chPc' = "finish" => chPq' = <<>>
      BY <1>1 DEF HybridInv
    <2>1. (ForMatch' <=> ForMatch) /\ (ForFlush' <=> ForFlush)  BY <1>1 DEF ForMatch, ForFlush
    <2>2. SilentOK'  BY <1>1, <2>1 DEF ScanOK, SilentOK, Silent
    <2>3. PlaceOK'  BY <1>1, <2>1 DEF ScanOK, PlaceOK, Hybrid!Guarded, Hybrid!Fixed
    <2>4. MatchOK'
      <3>1. Now(cbs, chJob.id)' = Now(cbs, chJob.id)  BY <1>1, <1>2, FirstSame DEF Now
      <3>2. Leftmost(chJob.id, scanStart[chJob.id], chJob)'
               <=> Leftmost(chJob.id, scanStart[chJob.id], chJob)
        BY <1>1 DEF Leftmost
      <3> QED  BY <1>1, <2>1, <3>1, <3>2 DEF ScanOK, MatchOK, Hybrid!Fixed, InQ, Items
    <2> QED  BY <1>1, <2>1, <2>2, <2>3, <2>4 DEF ScanOK
  <1> QED  BY <1>1, <1>2, <1>3, <1>4, <1>5, HybridStep

\* The invariant gives the two properties.
LEMMA HybridFits == ASSUME HybridInv PROVE QueueFits
  <1>1. ReturnOK /\ Hybrid!TypeOK  BY DEF HybridInv
  <1>2. Len(chPq) <= Hybrid!Cardinality(Patterns)  BY <1>1, CardinalityIs DEF ReturnOK
  <1>3. ASSUME res = "SUCCESS", NEW i \in DOMAIN chPq, NEW j \in DOMAIN chPq,
               chPq[i].id = chPq[j].id
        PROVE  i = j
    <2>1. CASE chPc = "idle"
      <3>1. chPq = <<>>  BY <1>1, <1>3, <2>1 DEF ReturnOK
      <3> QED  BY <3>1
    <2>2. CASE chPc # "idle"
      <3>1. Ranked(chPq)  BY <1>3, <2>2 DEF HybridInv, ScanOK, QueueOK
      <3>2. i \in Nat /\ j \in Nat
        <4>1. DOMAIN chPq = 1 .. Len(chPq)  BY <3>1 DEF Ranked
        <4> QED  BY <4>1
      <3>3. (i < j => chPq[i].id # chPq[j].id) /\ (j < i => chPq[j].id # chPq[i].id)
        BY <3>1 DEF Ranked
      <3> QED  BY <1>3, <3>2, <3>3
    <2> QED  BY <2>1, <2>2
  <1> QED  BY <1>2, <1>3 DEF QueueFits, Hybrid!QueueFits

\* The history of the invariant is what PcreExact asks for.
LEMMA HybridExact == ASSUME HybridInv PROVE PcreExact
  <1>1. HistoryOK(cbs) /\ ReturnOK /\ Hybrid!TypeOK  BY DEF HybridInv
  <1>2. ASSUME NEW i \in DOMAIN cbs
        PROVE  /\ Hybrid!Due(cbs[i].id, i - 1)
                     = [from |-> cbs[i].span.from, to |-> cbs[i].span.to, id |-> cbs[i].id]
               /\ cbs[i].groups = cbs[i].span
               /\ \A j \in Hybrid!Told(cbs[i].id, i - 1) :
                     cbs[j].answer = "continue" /\ cbs[i].id \notin db.single
    BY <1>1, ToldIs DEF HistoryOK
  <1>3. \A i, j \in DOMAIN cbs : i < j =>
          cbs[i].span.to <= cbs[j].span.to /\ cbs[i].answer # "terminate"
    BY <1>1 DEF HistoryOK
  <1>4. ASSUME chPc = "idle", res = "SUCCESS", NEW p \in Patterns \ cut
        PROVE  \/ Hybrid!Due(p, Len(cbs)) = None
               \/ p \in db.single /\ Hybrid!Told(p, Len(cbs)) # {}
    <2>1. Now(cbs, p) = None \/ Over(cbs, p)  BY <1>1, <1>4 DEF ReturnOK
    <2> QED  BY <2>1, ToldIs DEF Now, Over
  <1> QED  BY <1>2, <1>3, <1>4 DEF PcreExact, Hybrid!PcreExact

\* ch_scan keeps its invariant, whatever the patterns, the data, what PCRE and
\* hs_scan report and the callbacks answer.
THEOREM HybridInvariant == ObjectsSpec => []HybridInv
  <1>1. ObjectsInit => HybridInv  BY HybridInitInv DEF ObjectsInit
  <1>2. HybridInv /\ [ObjectsNext]_<<used, vars, streams, chimeraVars>> => HybridInv'
    <2> SUFFICES ASSUME HybridInv, [ObjectsNext]_<<used, vars, streams, chimeraVars>>
                 PROVE HybridInv'
      OBVIOUS
    <2>1. \/ Hybrid!Next \/ UNCHANGED chimeraVars  BY DEF ObjectsNext
    <2> QED  BY <2>1, HybridNextInv, HybridRestsInv
  <1> QED  BY <1>1, <1>2, PTL DEF ObjectsSpec

\* The priority queue of ch_scan never holds more than patternCount items, and
\* one item of a pattern at most as long as the scan goes on (ch_runtime.c,
\* pqueue.h).
THEOREM QueueAlwaysFits == ObjectsSpec => []QueueFits
  <1>1. HybridInv => QueueFits  BY HybridFits
  <1> QED  BY <1>1, HybridInvariant, PTL

\* The callbacks of a scan are PCRE's successive matches of each pattern with
\* their groups, in the order of their ends, and none is missing when the scan
\* ends well.
THEOREM PcreReportedExactly == ObjectsSpec => []PcreExact
  <1>1. HybridInv => PcreExact  BY HybridExact
  <1> QED  BY <1>1, HybridInvariant, PTL

\* Both hold of ch_scan by itself.
THEOREM ChimeraSafe == Hybrid!Spec => [](QueueFits /\ PcreExact)
  <1>1. Hybrid!Init => HybridInv  BY HybridInitInv
  <1>2. HybridInv /\ [Hybrid!Next]_Hybrid!vars => HybridInv'
    <2> SUFFICES ASSUME HybridInv, [Hybrid!Next]_Hybrid!vars PROVE HybridInv'  OBVIOUS
    <2>1. CASE Hybrid!Next  BY <2>1, HybridNextInv
    <2>2. CASE UNCHANGED Hybrid!vars
      <3>1. UNCHANGED chimeraVars  BY <2>2 DEF Hybrid!vars, chimeraVars
      <3> QED  BY <3>1, HybridRestsInv
    <2> QED  BY <2>1, <2>2
  <1>3. HybridInv => QueueFits /\ PcreExact  BY HybridFits, HybridExact
  <1> QED  BY <1>1, <1>2, <1>3, PTL DEF Hybrid!Spec
=============================================================================
