--------------------------- MODULE FpCollectorProof ---------------------------
(***************************************************************************)
(* For any scratches, collectors, fragments, batch size and counter width: *)
(* the counters are exact, no trigger stays queued after a call, no        *)
(* fragment is blamed for more than it did, and none that did more is left *)
(* out for one that did less.                                              *)
(*                                                                         *)
(* IInv says what the nesting of scans leaves in each scratch.  A trigger  *)
(* that is owed a report is active and was counted; one whose collector    *)
(* was reset under it is an orphan, and as long as no other scan ran a     *)
(* trigger on that collector its counter is unused, so that its report     *)
(* finds nothing to count.                                                 *)
(***************************************************************************)
EXTENDS FpCollector, FiniteSetTheorems, WellFoundedInduction, TLAPS

Running(s) == \E i \in DOMAIN stack : stack[i].s = s

\* Each scan has a scratch of its own, and between two triggers, as outside
\* of any scan, the scratch remembers none.
Stacked ==
    /\ \A i, j \in DOMAIN stack : stack[i].s = stack[j].s => i = j
    /\ \A s \in Scratch : ~Running(s) => sc[s] = Quiet /\ s \notin owed
    /\ \A i \in DOMAIN stack :
          stack[i].at = "engine" => ~sc[stack[i].s].active /\ stack[i].s \notin owed
    /\ \A s \in Scratch : sc[s].active => sc[s].col # NoCollector

Owing ==
    \A s \in owed : /\ sc[s].active /\ ~sc[s].reported /\ sc[s].key \in Frag
                    /\ nTrig[sc[s].col][sc[s].key] >= 1

Orphan(s) == sc[s].active /\ ~sc[s].reported /\ s \notin owed /\ sc[s].key \in Frag
Orphans ==
    \A s \in Scratch : Orphan(s) /\ sc[s].col \notin blurred =>
        nTrig[sc[s].col][sc[s].key] = 0 /\ nTrue[sc[s].col][sc[s].key] = 0

IInv == /\ TypeOK /\ Stacked /\ Owing /\ Orphans
        /\ CountsExact /\ CommittedAtReturn /\ FeedbackJustified

----------------------------------------------------------------------------
(* Counting a batch *)

LEMMA CountIs ==
    ASSUME NEW f
    PROVE  /\ Count(<<>>, f) = 0
           /\ \A b \in Seq(Key) : Count(b, f) \in Nat
           /\ \A k \in Key : Count(<<k>>, f) = IF k = f THEN 1 ELSE 0
           /\ \A b \in Seq(Key), k \in Key :
                 Count(Append(b, k), f) = Count(b, f) + IF k = f THEN 1 ELSE 0
  <1> DEFINE at(b) == {i \in DOMAIN b : b[i] = f}
  <1>1. Count(<<>>, f) = 0
    <2>1. at(<<>>) = {}  OBVIOUS
    <2> QED  BY <2>1, FS_EmptySet DEF Count
  <1>2. ASSUME NEW b \in Seq(Key)
        PROVE  IsFiniteSet(at(b)) /\ Cardinality(at(b)) \in Nat
    <2>1. IsFiniteSet(1 .. Len(b))  BY FS_Interval
    <2>2. at(b) \subseteq 1 .. Len(b)  OBVIOUS
    <2> QED  BY <2>1, <2>2, FS_Subset, FS_CardinalityType
  <1>3. ASSUME NEW b \in Seq(Key), NEW k \in Key
        PROVE  Count(Append(b, k), f) = Count(b, f) + IF k = f THEN 1 ELSE 0
    <2> DEFINE n == Len(b) + 1
    <2>1. n \notin at(b)  OBVIOUS
    <2>2. CASE k = f
      <3>1. at(Append(b, k)) = at(b) \cup {n}
        <4>1. DOMAIN Append(b, k) = DOMAIN b \cup {n}  OBVIOUS
        <4>2. Append(b, k)[n] = f /\ \A i \in DOMAIN b : Append(b, k)[i] = b[i]
          BY <2>2
        <4> QED  BY <4>1, <4>2
      <3>2. Cardinality(at(b) \cup {n}) = Cardinality(at(b)) + 1
        BY <1>2, <2>1, FS_AddElement
      <3> QED  BY <2>2, <3>1, <3>2 DEF Count
    <2>3. CASE k # f
      <3>1. at(Append(b, k)) = at(b)
        <4>1. DOMAIN Append(b, k) = DOMAIN b \cup {n}  OBVIOUS
        <4>2. Append(b, k)[n] # f /\ \A i \in DOMAIN b : Append(b, k)[i] = b[i]
          BY <2>3
        <4> QED  BY <4>1, <4>2
      <3>2. Count(b, f) \in Nat  BY <1>2 DEF Count
      <3>3. Count(Append(b, k), f) = Count(b, f)  BY <3>1 DEF Count
      <3> QED  BY <2>3, <3>2, <3>3
    <2> QED  BY <2>2, <2>3
  <1>4. ASSUME NEW k \in Key PROVE Count(<<k>>, f) = IF k = f THEN 1 ELSE 0
    <2>1. <<>> \in Seq(Key) /\ <<k>> = Append(<<>>, k)  OBVIOUS
    <2>2. Count(Append(<<>>, k), f) = Count(<<>>, f) + IF k = f THEN 1 ELSE 0
      BY <1>3, <2>1
    <2>3. Count(<<k>>, f) = 0 + IF k = f THEN 1 ELSE 0  BY <1>1, <2>1, <2>2
    <2> QED  BY <2>3
  <1>5. \A b \in Seq(Key) : Count(b, f) \in Nat  BY <1>2 DEF Count
  <1> QED  BY <1>1, <1>3, <1>4, <1>5

\* Counting a batch saturates and leaves the reports alone.
LEMMA FlushedIs ==
    ASSUME NEW x \in [Frag -> Counter], NEW b \in Seq(Key)
    PROVE  /\ Flushed(x, b) \in [Frag -> Counter]
           /\ \A f \in Frag :
                 /\ Flushed(x, b)[f].trigger_count
                       = Least(x[f].trigger_count + Count(b, f), Max)
                 /\ Flushed(x, b)[f].true_trigger_count = x[f].true_trigger_count
  <1> USE CollectorAssumption
  <1>1. ASSUME NEW f \in Frag
        PROVE  /\ Flushed(x, b)[f] \in Counter
               /\ Flushed(x, b)[f].trigger_count
                       = Least(x[f].trigger_count + Count(b, f), Max)
               /\ Flushed(x, b)[f].true_trigger_count = x[f].true_trigger_count
    <2>1. x[f] \in Counter /\ Count(b, f) \in Nat  BY CountIs
    <2>2. x[f].trigger_count \in 0 .. Max /\ x[f].true_trigger_count \in 0 .. Max
      BY <2>1 DEF Counter
    <2>3. Least(x[f].trigger_count + Count(b, f), Max) \in 0 .. Max
      BY <2>1, <2>2 DEF Least
    <2>4. Flushed(x, b)[f] = [x[f] EXCEPT !.trigger_count =
                                Least(x[f].trigger_count + Count(b, f), Max)]
      BY DEF Flushed, sat_add_u64a
    <2> DEFINE n == Least(x[f].trigger_count + Count(b, f), Max)
    <2> HIDE DEF n
    <2>5. Flushed(x, b)[f] = [x[f] EXCEPT !.trigger_count = n] /\ n \in 0 .. Max
      BY <2>3, <2>4 DEF n
    <2>6. /\ Flushed(x, b)[f] \in Counter
          /\ Flushed(x, b)[f].trigger_count = n
          /\ Flushed(x, b)[f].true_trigger_count = x[f].true_trigger_count
      BY <2>1, <2>5 DEF Counter
    <2> QED  BY <2>6 DEF n
  <1>2. Flushed(x, b) \in [Frag -> Counter]
    <2>1. Flushed(x, b) = [f \in Frag |-> Flushed(x, b)[f]]  BY DEF Flushed
    <2> QED  BY <1>1, <2>1
  <1> QED  BY <1>1, <1>2

\* Nothing is counted twice: an empty batch changes nothing.
LEMMA FlushedEmpty ==
    ASSUME NEW x \in [Frag -> Counter], NEW f \in Frag
    PROVE  /\ Flushed(x, <<>>)[f].trigger_count = x[f].trigger_count
           /\ Flushed(x, <<>>)[f].true_trigger_count = x[f].true_trigger_count
  <1> USE CollectorAssumption
  <1>1. <<>> \in Seq(Key) /\ x[f] \in Counter  OBVIOUS
  <1>2. x[f].trigger_count \in 0 .. Max  BY <1>1 DEF Counter
  <1>3. Least(x[f].trigger_count + Count(<<>>, f), Max) = x[f].trigger_count
    BY <1>2, CountIs DEF Least
  <1> QED  BY <1>1, <1>3, FlushedIs

\* The counters of c with what is queued agree with the exact counts.
Agree(x, b, t, r) ==
    \A f \in Frag : /\ Flushed(x, b)[f].trigger_count = Least(t[f], Max)
                    /\ Flushed(x, b)[f].true_trigger_count = Least(r[f], Max)

LEMMA AgreeIs == CountsExact <=>
    \A c \in alive \ blurred : Agree(cnt[c], pending[c], nTrig[c], nTrue[c])
  BY DEF CountsExact, Agree

LEMMA AgreeZero == Agree(Zeroed, <<>>, Nothing, Nothing) /\ Zeroed \in [Frag -> Counter]
  <1> USE CollectorAssumption
  <1>1. Zeroed \in [Frag -> Counter]  BY DEF Zeroed, Counter
  <1>2. \A f \in Frag : Zeroed[f].trigger_count = 0 /\ Zeroed[f].true_trigger_count = 0
                        /\ Nothing[f] = 0 /\ Least(0, Max) = 0
    BY DEF Zeroed, Nothing, Least
  <1> QED  BY <1>1, <1>2, FlushedEmpty DEF Agree

\* A flush moves triggers from the queue to the counters.
LEMMA AgreeFlushed ==
    ASSUME NEW x \in [Frag -> Counter], NEW b \in Seq(Key), NEW t, NEW r, Agree(x, b, t, r)
    PROVE  Agree(Flushed(x, b), <<>>, t, r)
  <1>1. Flushed(x, b) \in [Frag -> Counter]  BY FlushedIs
  <1> QED  BY <1>1, FlushedEmpty DEF Agree

LEMMA FlushIs ==
    ASSUME TypeOK, NEW c \in Collector, Flush(c)
    PROVE  /\ cnt' \in [Collector -> [Frag -> Counter]]
           /\ pending' \in [Collector -> Seq(Key)] /\ pending'[c] = <<>>
           /\ cnt'[c] = Flushed(cnt[c], pending[c])
           /\ \A d \in Collector : d # c => cnt'[d] = cnt[d] /\ pending'[d] = pending[d]
  <1>1. cnt[c] \in [Frag -> Counter] /\ pending[c] \in Seq(Key)  BY DEF TypeOK
  <1>2. Flushed(cnt[c], pending[c]) \in [Frag -> Counter]  BY <1>1, FlushedIs
  <1>3. /\ cnt' = [cnt EXCEPT ![c] = Flushed(cnt[c], pending[c])]
        /\ pending' = [pending EXCEPT ![c] = <<>>]
    BY DEF Flush, TypeOK
  <1> QED  BY <1>2, <1>3 DEF TypeOK

----------------------------------------------------------------------------
(* Calls on collectors *)

LEMMA InitIInv == ASSUME Init PROVE IInv
  <1> USE CollectorAssumption
  <1>1. TypeOK
    <2>1. cnt \in [Collector -> [Frag -> Counter]]  BY AgreeZero DEF Init
    <2>2. /\ sc \in [Scratch -> [col : alive \cup {NoCollector}, active : BOOLEAN,
                                 reported : BOOLEAN, key : Key \cup {0}]]
      BY DEF Init, Quiet
    <2>3. nTrig \in [Collector -> [Frag -> Nat]] /\ nTrue \in [Collector -> [Frag -> Nat]]
      BY DEF Init, Nothing
    <2>4. pending \in [Collector -> Seq(Key)] /\ \A c \in Collector : Len(pending[c]) <= BatchSize
      BY DEF Init
    <2>5. stack \in Seq([s : Scratch, at : Places, cb : BOOLEAN, halt : BOOLEAN])
      BY DEF Init
    <2> QED  BY <2>1, <2>2, <2>3, <2>4, <2>5 DEF Init, TypeOK
  <1>2. Stacked
    <2>1. \A s \in Scratch : sc[s] = Quiet /\ s \notin owed  BY DEF Init
    <2>2. DOMAIN stack = {}  BY DEF Init
    <2>3. \A s \in Scratch : ~sc[s].active  BY <2>1 DEF Quiet
    <2> QED  BY <2>1, <2>2, <2>3 DEF Stacked
  <1>3. Owing /\ CountsExact /\ CommittedAtReturn /\ FeedbackJustified
    BY DEF Init, Owing, CountsExact, CommittedAtReturn, FeedbackJustified
  <1>4. Orphans  BY DEF Init, Orphans, Orphan, Quiet
  <1> QED  BY <1>1, <1>2, <1>3, <1>4 DEF IInv

LEMMA UsedIs == ASSUME NEW c PROVE UsedBy(c) = {s \in Scratch : Running(s) /\ sc[s].col = c}
  BY DEF UsedBy, Free, Running

\* What a running scan relies on: its collector exists, and its counts are
\* kept, or dropped together with the report that is owed.
LEMMA CollectorStep ==
    ASSUME IInv, UNCHANGED <<sc, stack, total>>,
           alive' \subseteq Collector, blurred' \subseteq alive', owed' \subseteq owed,
           cnt' \in [Collector -> [Frag -> Counter]],
           pending' \in [Collector -> Seq(Key)],
           nTrig' \in [Collector -> [Frag -> Nat]], nTrue' \in [Collector -> [Frag -> Nat]],
           \A c \in Collector : pending'[c] = <<>> \/ /\ pending'[c] = pending[c]
                                                      /\ c \in alive' => c \in alive,
           \A c \in alive' \ blurred' : Agree(cnt'[c], pending'[c], nTrig'[c], nTrue'[c]),
           \A s \in Scratch : Running(s) => sc[s].col \in alive' \cup {NoCollector},
           \A s \in Scratch : Running(s) /\ sc[s].col # NoCollector =>
              \/ /\ nTrig'[sc[s].col] = nTrig[sc[s].col] /\ nTrue'[sc[s].col] = nTrue[sc[s].col]
                 /\ sc[s].col \in blurred => sc[s].col \in blurred'
                 /\ s \in owed' <=> s \in owed
              \/ /\ nTrig'[sc[s].col] = Nothing /\ nTrue'[sc[s].col] = Nothing
                 /\ s \notin owed',
           \A r \in fb' : r.sel \subseteq Frag /\ r.p \in Params,
           FeedbackJustified'
    PROVE  IInv'
  <1> USE CollectorAssumption
  <1>0. TypeOK /\ Stacked  BY DEF IInv
  <1>1. \A s \in Scratch : Running(s)' <=> Running(s)  BY DEF Running
  <1>2. \A c \in Collector : pending'[c] \in Seq(Key) /\ Len(pending'[c]) <= BatchSize
    <2> SUFFICES ASSUME NEW c \in Collector PROVE Len(pending'[c]) <= BatchSize
      OBVIOUS
    <2>1. CASE pending'[c] = <<>>  BY <2>1
    <2>2. CASE pending'[c] = pending[c]  BY <1>0, <2>2 DEF TypeOK
    <2> QED  BY <2>1, <2>2
  <1>3. sc' \in [Scratch -> [col : alive' \cup {NoCollector}, active : BOOLEAN,
                             reported : BOOLEAN, key : Key \cup {0}]]
    <2>1. ASSUME NEW s \in Scratch PROVE sc[s].col \in alive' \cup {NoCollector}
      <3>1. CASE Running(s)  BY <3>1
      <3>2. CASE ~Running(s)  BY <1>0, <3>2 DEF Stacked, Quiet
      <3> QED  BY <3>1, <3>2
    <2>2. ASSUME NEW s \in Scratch
          PROVE  sc[s] \in [col : alive' \cup {NoCollector}, active : BOOLEAN,
                            reported : BOOLEAN, key : Key \cup {0}]
      <3>1. sc[s] \in [col : alive \cup {NoCollector}, active : BOOLEAN,
                       reported : BOOLEAN, key : Key \cup {0}]
        BY <1>0 DEF TypeOK
      <3> QED  BY <2>1, <3>1
    <2> DEFINE Fields == [col : alive' \cup {NoCollector}, active : BOOLEAN,
                          reported : BOOLEAN, key : Key \cup {0}]
    <2>3. \A s \in Scratch : sc[s] \in Fields  BY <2>2
    <2> HIDE DEF Fields
    <2>4. sc' = [s \in Scratch |-> sc[s]]  BY <1>0 DEF TypeOK
    <2>5. sc' \in [Scratch -> Fields]  BY <2>3, <2>4
    <2> QED  BY <2>5 DEF Fields
  <1>4. TypeOK'
    <2>1. stack' \in Seq([s : Scratch, at : Places, cb : BOOLEAN, halt : BOOLEAN])
          /\ owed' \subseteq Scratch /\ total' \in Nat
      BY <1>0 DEF TypeOK
    <2> QED  BY <1>2, <1>3, <2>1 DEF TypeOK
  <1>5. Stacked'
    <2>1. \A i \in DOMAIN stack' : stack'[i] = stack[i]  OBVIOUS
    <2> QED  BY <1>0, <1>1, <2>1 DEF Stacked
  <1>6. \A s \in Scratch : sc[s].active => Running(s) /\ sc[s].col # NoCollector
    BY <1>0 DEF Stacked, Quiet
  <1>7. Owing'
    <2> SUFFICES ASSUME NEW s \in owed'
                 PROVE  /\ sc[s].active /\ ~sc[s].reported /\ sc[s].key \in Frag
                        /\ nTrig'[sc[s].col][sc[s].key] >= 1
      BY DEF Owing
    <2>1. /\ s \in owed /\ s \in Scratch
          /\ sc[s].active /\ ~sc[s].reported /\ sc[s].key \in Frag
          /\ nTrig[sc[s].col][sc[s].key] >= 1
      BY <1>0 DEF IInv, Owing, TypeOK
    <2>2. nTrig'[sc[s].col] = nTrig[sc[s].col]  BY <1>6, <2>1
    <2> QED  BY <2>1, <2>2
  <1>8. Orphans'
    <2> SUFFICES ASSUME NEW s \in Scratch,
                        sc[s].active, ~sc[s].reported, s \notin owed', sc[s].key \in Frag,
                        sc[s].col \notin blurred'
                 PROVE  nTrig'[sc[s].col][sc[s].key] = 0 /\ nTrue'[sc[s].col][sc[s].key] = 0
      BY DEF Orphans, Orphan
    <2>1. Running(s) /\ sc[s].col # NoCollector  BY <1>6
    <2>2. CASE nTrig'[sc[s].col] = Nothing /\ nTrue'[sc[s].col] = Nothing
      BY <2>2 DEF Nothing
    <2>3. CASE /\ nTrig'[sc[s].col] = nTrig[sc[s].col] /\ nTrue'[sc[s].col] = nTrue[sc[s].col]
               /\ sc[s].col \in blurred => sc[s].col \in blurred'
               /\ s \in owed' <=> s \in owed
      BY <2>3 DEF IInv, Orphans, Orphan
    <2> QED  BY <2>1, <2>2, <2>3
  <1>9. CountsExact'  BY DEF CountsExact, Agree
  <1>10. CommittedAtReturn'
    <2> SUFFICES ASSUME NEW c \in alive', UsedBy(c)' = {} PROVE pending'[c] = <<>>
      BY DEF CommittedAtReturn
    <2>1. UsedBy(c) = {}  BY DEF UsedBy, Free
    <2>2. CASE pending'[c] = pending[c] /\ c \in alive
      BY <2>1, <2>2 DEF IInv, CommittedAtReturn
    <2>3. c \in Collector  OBVIOUS
    <2>4. pending'[c] = <<>> \/ /\ pending'[c] = pending[c]
                                /\ c \in alive' => c \in alive
      BY <2>3
    <2> QED  BY <2>2, <2>4
  <1> QED  BY <1>4, <1>5, <1>7, <1>8, <1>9, <1>10 DEF IInv

LEMMA NoFeedback == ASSUME fb' = {}
                    PROVE  /\ FeedbackJustified'
                           /\ \A r \in fb' : r.sel \subseteq Frag /\ r.p \in Params
  BY DEF FeedbackJustified

\* create, reset and free zero one collector.
LEMMA ZeroStep ==
    ASSUME IInv, NEW c \in Collector, UNCHANGED <<sc, stack, total>>,
           cnt' = [cnt EXCEPT ![c] = Zeroed], pending' = [pending EXCEPT ![c] = <<>>],
           nTrig' = [nTrig EXCEPT ![c] = Nothing], nTrue' = [nTrue EXCEPT ![c] = Nothing],
           alive' \subseteq Collector, alive' \subseteq alive \cup {c},
           alive \subseteq alive' \cup {c},
           c \notin alive' => UsedBy(c) = {},
           owed' = owed \ UsedBy(c),
           blurred' \in {blurred \ {c}, blurred}, blurred' \subseteq alive',
           fb' = {}
    PROVE  IInv'
  <1> USE CollectorAssumption
  <1>0. TypeOK /\ Stacked  BY DEF IInv
  <1>1. /\ cnt' \in [Collector -> [Frag -> Counter]] /\ cnt'[c] = Zeroed
        /\ \A d \in Collector : d # c => cnt'[d] = cnt[d]
    BY <1>0, AgreeZero DEF TypeOK
  <1>2. /\ pending' \in [Collector -> Seq(Key)] /\ pending'[c] = <<>>
        /\ \A d \in Collector : d # c => pending'[d] = pending[d]
    BY <1>0 DEF TypeOK
  <1>3. Nothing \in [Frag -> Nat]  BY DEF Nothing
  <1>4. /\ nTrig' \in [Collector -> [Frag -> Nat]] /\ nTrig'[c] = Nothing
        /\ \A d \in Collector : d # c => nTrig'[d] = nTrig[d]
    BY <1>0, <1>3 DEF TypeOK
  <1>5. /\ nTrue' \in [Collector -> [Frag -> Nat]] /\ nTrue'[c] = Nothing
        /\ \A d \in Collector : d # c => nTrue'[d] = nTrue[d]
    BY <1>0, <1>3 DEF TypeOK
  <1>6. \A d \in Collector : pending'[d] = <<>> \/ /\ pending'[d] = pending[d]
                                                   /\ d \in alive' => d \in alive
    BY <1>2
  <1>7. ASSUME NEW d \in alive' \ blurred'
        PROVE  Agree(cnt'[d], pending'[d], nTrig'[d], nTrue'[d])
    <2>1. CASE d = c  BY <1>1, <1>2, <1>4, <1>5, <2>1, AgreeZero
    <2>2. CASE d # c
      <3>1. d \in alive \ blurred /\ d \in Collector  BY <2>2
      <3>2. Agree(cnt[d], pending[d], nTrig[d], nTrue[d])  BY <3>1, AgreeIs DEF IInv
      <3> QED  BY <1>1, <1>2, <1>4, <1>5, <2>2, <3>1, <3>2
    <2> QED  BY <2>1, <2>2
  <1>8. \A s \in Scratch : sc[s].col \in alive \cup {NoCollector} /\ alive \subseteq Collector
    BY <1>0 DEF TypeOK
  <1>9. \A s \in Scratch : Running(s) => sc[s].col \in alive' \cup {NoCollector}
    BY <1>8, UsedIs
  <1>10. ASSUME NEW s \in Scratch, Running(s), sc[s].col # NoCollector
         PROVE  \/ /\ nTrig'[sc[s].col] = nTrig[sc[s].col] /\ nTrue'[sc[s].col] = nTrue[sc[s].col]
                   /\ sc[s].col \in blurred => sc[s].col \in blurred'
                   /\ s \in owed' <=> s \in owed
                \/ /\ nTrig'[sc[s].col] = Nothing /\ nTrue'[sc[s].col] = Nothing
                   /\ s \notin owed'
    <2>1. CASE sc[s].col = c  BY <1>4, <1>5, <1>10, <2>1, UsedIs
    <2>2. CASE sc[s].col # c
      <3>1. s \notin UsedBy(c) /\ sc[s].col \in Collector  BY <1>8, <1>10, <2>2, UsedIs
      <3> QED  BY <1>4, <1>5, <2>2, <3>1
    <2> QED  BY <2>1, <2>2
  <1>11. owed' \subseteq owed  OBVIOUS
  <1> QED
    BY <1>1, <1>2, <1>4, <1>5, <1>6, <1>7, <1>9, <1>10, <1>11, NoFeedback, CollectorStep

LEMMA CreateStep == ASSUME IInv, NEW c \in Collector, hs_fp_collector_create(c) PROVE IInv'
  <1>0. TypeOK /\ Stacked  BY DEF IInv
  <1>1. UsedBy(c) = {}
    <2>1. c \notin alive /\ c # NoCollector
      BY CollectorAssumption DEF hs_fp_collector_create
    <2>2. \A s \in Scratch : sc[s].col \in alive \cup {NoCollector}  BY <1>0 DEF TypeOK
    <2> QED  BY <2>1, <2>2, UsedIs
  <1>2. /\ blurred \subseteq alive /\ alive \subseteq Collector  BY <1>0 DEF TypeOK
  <1>3. /\ UNCHANGED <<sc, stack, total>> /\ fb' = {}
        /\ cnt' = [cnt EXCEPT ![c] = Zeroed] /\ pending' = [pending EXCEPT ![c] = <<>>]
        /\ nTrig' = [nTrig EXCEPT ![c] = Nothing] /\ nTrue' = [nTrue EXCEPT ![c] = Nothing]
        /\ alive' = alive \cup {c} /\ owed' = owed /\ blurred' = blurred
    BY DEF hs_fp_collector_create
  <1>4. /\ alive' \subseteq Collector /\ alive' \subseteq alive \cup {c}
        /\ alive \subseteq alive' \cup {c} /\ blurred' \subseteq alive' /\ c \in alive'
    BY <1>2, <1>3
  <1>5. owed' = owed \ UsedBy(c) /\ blurred' \in {blurred \ {c}, blurred}  BY <1>1, <1>3
  <1> QED  BY <1>3, <1>4, <1>5, ZeroStep

LEMMA ResetStep == ASSUME IInv, NEW c \in Collector, hs_fp_collector_reset(c) PROVE IInv'
  <1>1. /\ blurred \subseteq alive /\ alive \subseteq Collector  BY DEF IInv, TypeOK
  <1>2. /\ UNCHANGED <<sc, stack, total>> /\ fb' = {}
        /\ cnt' = [cnt EXCEPT ![c] = Zeroed] /\ pending' = [pending EXCEPT ![c] = <<>>]
        /\ nTrig' = [nTrig EXCEPT ![c] = Nothing] /\ nTrue' = [nTrue EXCEPT ![c] = Nothing]
        /\ alive' = alive /\ owed' = owed \ UsedBy(c) /\ c \in alive
        /\ blurred' \in {blurred \ {c}, blurred}
    BY DEF hs_fp_collector_reset
  <1>3. /\ alive' \subseteq Collector /\ alive' \subseteq alive \cup {c}
        /\ alive \subseteq alive' \cup {c} /\ blurred' \subseteq alive' /\ c \in alive'
    BY <1>1, <1>2
  <1> QED  BY <1>2, <1>3, ZeroStep

LEMMA FreeStep == ASSUME IInv, NEW c \in Collector, hs_fp_collector_free(c) PROVE IInv'
  <1>1. /\ blurred \subseteq alive /\ alive \subseteq Collector  BY DEF IInv, TypeOK
  <1>2. /\ UNCHANGED <<sc, stack, total>> /\ fb' = {}
        /\ cnt' = [cnt EXCEPT ![c] = Zeroed] /\ pending' = [pending EXCEPT ![c] = <<>>]
        /\ nTrig' = [nTrig EXCEPT ![c] = Nothing] /\ nTrue' = [nTrue EXCEPT ![c] = Nothing]
        /\ alive' = alive \ {c} /\ owed' = owed /\ UsedBy(c) = {}
        /\ blurred' = blurred \ {c}
    BY DEF hs_fp_collector_free
  <1>3. /\ alive' \subseteq Collector /\ alive' \subseteq alive \cup {c}
        /\ alive \subseteq alive' \cup {c} /\ blurred' \subseteq alive'
    BY <1>1, <1>2
  <1>4. owed' = owed \ UsedBy(c) /\ blurred' \in {blurred \ {c}, blurred}  BY <1>2
  <1> QED  BY <1>2, <1>3, <1>4, ZeroStep

\* The sum of two flushed collectors is exact when both are.
LEMMA SummedIs ==
    ASSUME TypeOK, NEW a \in Collector, NEW b \in Collector
    PROVE  /\ Summed(a, b) \in [Frag -> Counter]
           /\ Agree(cnt[a], pending[a], nTrig[a], nTrue[a])
              /\ Agree(cnt[b], pending[b], nTrig[b], nTrue[b])
              => Agree(Summed(a, b), <<>>, Plus(nTrig[a], nTrig[b]), Plus(nTrue[a], nTrue[b]))
  <1> USE CollectorAssumption
  <1> DEFINE x == Flushed(cnt[a], pending[a])
             y == Flushed(cnt[b], pending[b])
  <1>1. x \in [Frag -> Counter] /\ y \in [Frag -> Counter]
    <2>1. /\ cnt[a] \in [Frag -> Counter] /\ pending[a] \in Seq(Key)
          /\ cnt[b] \in [Frag -> Counter] /\ pending[b] \in Seq(Key)
      BY DEF TypeOK
    <2> QED  BY <2>1, FlushedIs
  <1>2. \A f \in Frag :
           Summed(a, b)[f] = [trigger_count |-> Least(x[f].trigger_count + y[f].trigger_count, Max),
                              true_trigger_count |->
                                 Least(x[f].true_trigger_count + y[f].true_trigger_count, Max)]
    BY DEF Summed, sat_add_u64a
  <1>3. \A f \in Frag : Summed(a, b)[f] \in Counter
    <2> SUFFICES ASSUME NEW f \in Frag PROVE Summed(a, b)[f] \in Counter
      OBVIOUS
    <2>1. /\ x[f].trigger_count \in 0 .. Max /\ y[f].trigger_count \in 0 .. Max
          /\ x[f].true_trigger_count \in 0 .. Max /\ y[f].true_trigger_count \in 0 .. Max
      BY <1>1 DEF Counter
    <2> HIDE DEF x, y
    <2>2. /\ Least(x[f].trigger_count + y[f].trigger_count, Max) \in 0 .. Max
          /\ Least(x[f].true_trigger_count + y[f].true_trigger_count, Max) \in 0 .. Max
      BY <2>1 DEF Least
    <2> DEFINE m == Least(x[f].trigger_count + y[f].trigger_count, Max)
               n == Least(x[f].true_trigger_count + y[f].true_trigger_count, Max)
    <2> HIDE DEF m, n
    <2>3. Summed(a, b)[f] = [trigger_count |-> m, true_trigger_count |-> n]
          /\ m \in 0 .. Max /\ n \in 0 .. Max
      BY <1>2, <2>2 DEF m, n
    <2> QED  BY <2>3 DEF Counter
  <1>4. Summed(a, b) \in [Frag -> Counter]
    <2>1. Summed(a, b) = [f \in Frag |-> Summed(a, b)[f]]  BY DEF Summed
    <2> QED  BY <1>3, <2>1
  <1>5. ASSUME Agree(cnt[a], pending[a], nTrig[a], nTrue[a]),
               Agree(cnt[b], pending[b], nTrig[b], nTrue[b]), NEW f \in Frag
        PROVE  /\ Flushed(Summed(a, b), <<>>)[f].trigger_count
                     = Least(Plus(nTrig[a], nTrig[b])[f], Max)
               /\ Flushed(Summed(a, b), <<>>)[f].true_trigger_count
                     = Least(Plus(nTrue[a], nTrue[b])[f], Max)
    <2>1. /\ x[f].trigger_count = Least(nTrig[a][f], Max)
          /\ y[f].trigger_count = Least(nTrig[b][f], Max)
          /\ x[f].true_trigger_count = Least(nTrue[a][f], Max)
          /\ y[f].true_trigger_count = Least(nTrue[b][f], Max)
      BY <1>5 DEF Agree
    <2>2. /\ nTrig[a][f] \in Nat /\ nTrig[b][f] \in Nat
          /\ nTrue[a][f] \in Nat /\ nTrue[b][f] \in Nat
      BY DEF TypeOK
    <2>3. /\ Plus(nTrig[a], nTrig[b])[f] = nTrig[a][f] + nTrig[b][f]
          /\ Plus(nTrue[a], nTrue[b])[f] = nTrue[a][f] + nTrue[b][f]
      BY DEF Plus
    <2>4. \A m, n \in Nat : Least(Least(m, Max) + Least(n, Max), Max) = Least(m + n, Max)
      BY DEF Least
    <2>5. /\ Summed(a, b)[f].trigger_count = Least(nTrig[a][f] + nTrig[b][f], Max)
          /\ Summed(a, b)[f].true_trigger_count = Least(nTrue[a][f] + nTrue[b][f], Max)
      <3> HIDE DEF x, y
      <3>1. /\ Summed(a, b)[f].trigger_count
                  = Least(Least(nTrig[a][f], Max) + Least(nTrig[b][f], Max), Max)
            /\ Summed(a, b)[f].true_trigger_count
                  = Least(Least(nTrue[a][f], Max) + Least(nTrue[b][f], Max), Max)
        <4>1. /\ Summed(a, b)[f].trigger_count
                    = Least(x[f].trigger_count + y[f].trigger_count, Max)
              /\ Summed(a, b)[f].true_trigger_count
                    = Least(x[f].true_trigger_count + y[f].true_trigger_count, Max)
          <5> DEFINE m == Least(x[f].trigger_count + y[f].trigger_count, Max)
                     n == Least(x[f].true_trigger_count + y[f].true_trigger_count, Max)
          <5> HIDE DEF m, n
          <5>1. Summed(a, b)[f] = [trigger_count |-> m, true_trigger_count |-> n]
            BY <1>2 DEF m, n
          <5> QED  BY <5>1 DEF m, n
        <4> QED  BY <2>1, <4>1
      <3> QED  BY <2>2, <2>4, <3>1
    <2> QED  BY <1>4, <2>3, <2>5, FlushedEmpty
  <1>6. Agree(cnt[a], pending[a], nTrig[a], nTrue[a])
        /\ Agree(cnt[b], pending[b], nTrig[b], nTrue[b])
        => Agree(Summed(a, b), <<>>, Plus(nTrig[a], nTrig[b]), Plus(nTrue[a], nTrue[b]))
    BY <1>5 DEF Agree
  <1> QED  BY <1>4, <1>6

LEMMA MergeStep ==
    ASSUME IInv, NEW a \in Collector, NEW b \in Collector, NEW o \in Collector,
           hs_fp_collector_merge(a, b, o)
    PROVE  IInv'
  <1> USE CollectorAssumption
  <1>0. TypeOK /\ Stacked  BY DEF IInv
  <1>1. /\ a \in alive /\ b \in alive /\ o \notin alive
        /\ alive' = alive \cup {o}
        /\ cnt' = [c \in Collector |-> IF c = o THEN Summed(a, b)
                                       ELSE IF c \in {a, b} THEN Flushed(cnt[c], pending[c])
                                       ELSE cnt[c]]
        /\ pending' = [c \in Collector |-> IF c \in {a, b, o} THEN <<>> ELSE pending[c]]
        /\ nTrig' = [nTrig EXCEPT ![o] = Plus(nTrig[a], nTrig[b])]
        /\ nTrue' = [nTrue EXCEPT ![o] = Plus(nTrue[a], nTrue[b])]
        /\ blurred' = IF {a, b} \cap blurred # {} THEN blurred \cup {o} ELSE blurred
        /\ fb' = {} /\ UNCHANGED <<sc, stack, owed, total>>
    BY DEF hs_fp_collector_merge
  <1>2. Summed(a, b) \in [Frag -> Counter]  BY <1>0, SummedIs
  <1>3. /\ cnt' \in [Collector -> [Frag -> Counter]] /\ pending' \in [Collector -> Seq(Key)]
    <2>1. \A c \in Collector : cnt[c] \in [Frag -> Counter] /\ pending[c] \in Seq(Key)
      BY <1>0 DEF TypeOK
    <2>2. \A c \in Collector : Flushed(cnt[c], pending[c]) \in [Frag -> Counter]
      BY <2>1, FlushedIs
    <2>3. cnt' \in [Collector -> [Frag -> Counter]]  BY <1>1, <1>2, <2>1, <2>2
    <2>4. pending' \in [Collector -> Seq(Key)]  BY <1>1, <2>1
    <2> QED  BY <2>3, <2>4
  <1>4. /\ Plus(nTrig[a], nTrig[b]) \in [Frag -> Nat]
        /\ Plus(nTrue[a], nTrue[b]) \in [Frag -> Nat]
    BY <1>0 DEF TypeOK, Plus
  <1>5. /\ nTrig' \in [Collector -> [Frag -> Nat]] /\ nTrue' \in [Collector -> [Frag -> Nat]]
        /\ nTrig'[o] = Plus(nTrig[a], nTrig[b]) /\ nTrue'[o] = Plus(nTrue[a], nTrue[b])
        /\ \A c \in Collector : c # o => nTrig'[c] = nTrig[c] /\ nTrue'[c] = nTrue[c]
    BY <1>0, <1>1, <1>4 DEF TypeOK
  <1>6. alive \subseteq Collector /\ blurred \subseteq alive  BY <1>0 DEF TypeOK
  <1>7. \A c \in alive \ blurred : Agree(cnt[c], pending[c], nTrig[c], nTrue[c])
    BY AgreeIs DEF IInv
  <1>8. ASSUME NEW c \in alive' \ blurred'
        PROVE  Agree(cnt'[c], pending'[c], nTrig'[c], nTrue'[c])
    <2>1. CASE c = o
      <3>1. a \notin blurred /\ b \notin blurred  BY <1>1, <1>8, <2>1
      <3>2. Agree(Summed(a, b), <<>>, Plus(nTrig[a], nTrig[b]), Plus(nTrue[a], nTrue[b]))
        BY <1>0, <1>1, <1>7, <3>1, SummedIs
      <3> QED  BY <1>1, <1>5, <2>1, <3>2
    <2>2. CASE c # o
      <3>1. c \in alive \ blurred /\ c \in Collector  BY <1>1, <1>6, <1>8, <2>2
      <3>2. Agree(cnt[c], pending[c], nTrig[c], nTrue[c])  BY <1>7, <3>1
      <3>3. cnt[c] \in [Frag -> Counter] /\ pending[c] \in Seq(Key)
        BY <1>0, <3>1 DEF TypeOK
      <3>4. CASE c \in {a, b}
        <4>1. cnt'[c] = Flushed(cnt[c], pending[c]) /\ pending'[c] = <<>>
          BY <1>1, <2>2, <3>1, <3>4
        <4>2. Agree(Flushed(cnt[c], pending[c]), <<>>, nTrig[c], nTrue[c])
          BY <3>2, <3>3, AgreeFlushed
        <4> QED  BY <1>5, <2>2, <3>1, <4>1, <4>2
      <3>5. CASE c \notin {a, b}
        <4>1. cnt'[c] = cnt[c] /\ pending'[c] = pending[c]
          BY <1>1, <2>2, <3>1, <3>5
        <4> QED  BY <1>5, <2>2, <3>1, <3>2, <4>1
      <3> QED  BY <3>4, <3>5
    <2> QED  BY <2>1, <2>2
  <1>9. \A c \in Collector : pending'[c] = <<>> \/ /\ pending'[c] = pending[c]
                                                   /\ c \in alive' => c \in alive
    BY <1>1
  <1>10. \A s \in Scratch : sc[s].col \in alive \cup {NoCollector}  BY <1>0 DEF TypeOK
  <1>11. \A s \in Scratch : Running(s) => sc[s].col \in alive' \cup {NoCollector}
    BY <1>1, <1>10
  <1>12. ASSUME NEW s \in Scratch, sc[s].col # NoCollector
         PROVE  /\ nTrig'[sc[s].col] = nTrig[sc[s].col] /\ nTrue'[sc[s].col] = nTrue[sc[s].col]
                /\ sc[s].col \in blurred => sc[s].col \in blurred'
                /\ s \in owed' <=> s \in owed
    <2>1. sc[s].col \in Collector /\ sc[s].col # o  BY <1>1, <1>6, <1>10, <1>12
    <2> QED  BY <1>1, <1>5, <2>1
  <1>13. alive' \subseteq Collector /\ blurred' \subseteq alive' /\ owed' \subseteq owed
    BY <1>1, <1>6
  <1> QED
    BY <1>1, <1>3, <1>5, <1>8, <1>9, <1>11, <1>12, <1>13, NoFeedback, CollectorStep

\* What a feedback selects was bad on the counters it was built from.
LEMMA SelectedIsBad ==
    ASSUME NEW x, NEW p
    PROVE  \A sel \in build_feedback_entries(x, p) :
              \A f \in sel : f \in Frag /\ is_bad_fragment(x, f, p)
  BY DEF build_feedback_entries

\* On exact counters the thresholds are passed by the exact counts.
LEMMA BadIsReal ==
    ASSUME NEW x \in [Frag -> Counter], NEW t \in [Frag -> Nat], NEW r \in [Frag -> Nat],
           NEW f \in Frag, NEW p \in Params,
           x[f].trigger_count = Least(t[f], Max), x[f].true_trigger_count = Least(r[f], Max),
           is_bad_fragment(x, f, p)
    PROVE  /\ t[f] - r[f] > 0 /\ t[f] - r[f] >= p.minFp
           /\ t[f] <= Max => /\ t[f] >= p.minTrig
                             /\ (t[f] - r[f]) * RateScale >= t[f] * p.rate
  <1> USE CollectorAssumption
  <1>1. /\ t[f] \in Nat /\ r[f] \in Nat /\ p.minFp \in Nat /\ p.minTrig \in Nat
        /\ p.rate \in Nat /\ RateScale \in Nat /\ Max \in Nat
    OBVIOUS
  <1> DEFINE w == fp(x, f)
  <1>2. w = sub_or_zero_u64a(Least(t[f], Max), Least(r[f], Max))  BY DEF fp
  <1>3. /\ w # 0 /\ w >= p.minFp /\ Least(t[f], Max) >= p.minTrig
        /\ p.rate = 0 \/ w * RateScale >= Least(t[f], Max) * p.rate
    BY DEF is_bad_fragment, ratio_at_least
  <1> HIDE DEF w
  <1>4. w = Least(t[f], Max) - Least(r[f], Max) /\ Least(t[f], Max) > Least(r[f], Max)
    BY <1>1, <1>2, <1>3 DEF sub_or_zero_u64a, Least
  <1>5. t[f] > r[f] /\ w <= t[f] - r[f] /\ w \in Nat
    BY <1>1, <1>4 DEF Least
  <1>6. t[f] - r[f] > 0 /\ t[f] - r[f] >= p.minFp
    BY <1>1, <1>3, <1>5
  <1>7. ASSUME t[f] <= Max
        PROVE  t[f] >= p.minTrig /\ (t[f] - r[f]) * RateScale >= t[f] * p.rate
    <2>1. Least(t[f], Max) = t[f] /\ w = t[f] - r[f]
      BY <1>1, <1>4, <1>5, <1>7 DEF Least
    <2>2. CASE p.rate = 0
      <3>1. t[f] * p.rate = 0 /\ (t[f] - r[f]) * RateScale \in Nat
        BY <1>1, <1>5, <2>1, <2>2
      <3> QED  BY <1>3, <2>1, <3>1
    <2>3. CASE w * RateScale >= Least(t[f], Max) * p.rate
      BY <1>3, <2>1, <2>3
    <2> QED  BY <1>3, <2>2, <2>3
  <1> QED  BY <1>6, <1>7

LEMMA ToFeedbackStep ==
    ASSUME IInv, NEW c \in Collector, NEW p \in Params, hs_fp_collector_to_feedback(c, p)
    PROVE  IInv'
  <1> USE CollectorAssumption
  <1>0. TypeOK /\ Stacked  BY DEF IInv
  <1>1. /\ c \in alive /\ Flush(c) /\ UNCHANGED <<alive, sc, stack, hist>>
        /\ \A q \in fb' : \E sel \in build_feedback_entries(cnt'[c], p) :
              q = [sel |-> sel, p |-> p, nTrig |-> nTrig[c], nTrue |-> nTrue[c],
                   exact |-> c \notin blurred]
    BY DEF hs_fp_collector_to_feedback
  <1>2. /\ cnt' \in [Collector -> [Frag -> Counter]]
        /\ pending' \in [Collector -> Seq(Key)] /\ pending'[c] = <<>>
        /\ cnt'[c] = Flushed(cnt[c], pending[c])
        /\ \A d \in Collector : d # c => cnt'[d] = cnt[d] /\ pending'[d] = pending[d]
    BY <1>0, <1>1, FlushIs
  <1>3. ASSUME NEW d \in alive \ blurred
        PROVE  Agree(cnt'[d], pending'[d], nTrig[d], nTrue[d])
    <2>1. /\ d \in Collector /\ cnt[d] \in [Frag -> Counter] /\ pending[d] \in Seq(Key)
      BY <1>0 DEF TypeOK
    <2>2. Agree(cnt[d], pending[d], nTrig[d], nTrue[d])  BY AgreeIs DEF IInv
    <2>3. CASE d = c
      <3>1. Agree(Flushed(cnt[d], pending[d]), <<>>, nTrig[d], nTrue[d])
        BY <2>1, <2>2, AgreeFlushed
      <3>2. cnt'[d] = Flushed(cnt[d], pending[d]) /\ pending'[d] = <<>>  BY <1>2, <2>3
      <3> QED  BY <3>1, <3>2
    <2>4. CASE d # c  BY <1>2, <2>1, <2>2, <2>4
    <2> QED  BY <2>3, <2>4
  <1>4. \A q \in fb' : q.sel \subseteq Frag /\ q.p \in Params
    BY <1>1, SelectedIsBad
  <1>5. FeedbackJustified'
    <2> SUFFICES ASSUME NEW q \in fb', q.exact, NEW f \in q.sel
                 PROVE  /\ RealFp(q, f) > 0 /\ RealFp(q, f) >= q.p.minFp
                        /\ Unsaturated(q) => Passes(q, f)
      BY DEF FeedbackJustified, RealFp, Unsaturated, Passes
    <2>1. /\ q.sel \in build_feedback_entries(cnt'[c], p) /\ q.p = p
          /\ q.nTrig = nTrig[c] /\ q.nTrue = nTrue[c] /\ c \notin blurred
      <3>1. PICK sel \in build_feedback_entries(cnt'[c], p) :
              q = [sel |-> sel, p |-> p, nTrig |-> nTrig[c], nTrue |-> nTrue[c],
                   exact |-> c \notin blurred]
        BY <1>1
      <3>2. q.exact <=> c \notin blurred  BY <3>1
      <3> QED  BY <3>1, <3>2
    <2>2. f \in Frag /\ is_bad_fragment(cnt'[c], f, p)  BY <2>1, SelectedIsBad
    <2>3. Agree(cnt'[c], <<>>, nTrig[c], nTrue[c])  BY <1>1, <1>2, <1>3, <2>1
    <2>4. /\ cnt'[c][f].trigger_count = Least(nTrig[c][f], Max)
          /\ cnt'[c][f].true_trigger_count = Least(nTrue[c][f], Max)
      BY <1>2, <2>2, <2>3, FlushedEmpty DEF Agree
    <2>5. /\ cnt'[c] \in [Frag -> Counter]
          /\ nTrig[c] \in [Frag -> Nat] /\ nTrue[c] \in [Frag -> Nat]
      BY <1>0, <1>2 DEF TypeOK
    <2>6. /\ nTrig[c][f] - nTrue[c][f] > 0 /\ nTrig[c][f] - nTrue[c][f] >= p.minFp
          /\ nTrig[c][f] <= Max =>
                /\ nTrig[c][f] >= p.minTrig
                /\ (nTrig[c][f] - nTrue[c][f]) * RateScale >= nTrig[c][f] * p.rate
      BY <2>2, <2>4, <2>5, BadIsReal
    <2> QED  BY <2>1, <2>2, <2>6 DEF RealFp, Passes, Unsaturated
  <1>6. alive \subseteq Collector /\ blurred \subseteq alive
        /\ nTrig \in [Collector -> [Frag -> Nat]] /\ nTrue \in [Collector -> [Frag -> Nat]]
        /\ \A s \in Scratch : sc[s].col \in alive \cup {NoCollector}
    BY <1>0 DEF TypeOK
  <1>7. /\ UNCHANGED <<sc, stack, total>>
        /\ UNCHANGED <<alive, nTrig, nTrue, owed, blurred>>
    BY <1>1 DEF hist
  <1>8. \A d \in Collector : pending'[d] = <<>> \/ /\ pending'[d] = pending[d]
                                                   /\ d \in alive' => d \in alive
    BY <1>2, <1>7
  <1>9. \A d \in alive' \ blurred' : Agree(cnt'[d], pending'[d], nTrig'[d], nTrue'[d])
    BY <1>3, <1>7
  <1>10. alive' \subseteq Collector /\ blurred' \subseteq alive' /\ owed' \subseteq owed
         /\ nTrig' \in [Collector -> [Frag -> Nat]] /\ nTrue' \in [Collector -> [Frag -> Nat]]
         /\ \A s \in Scratch : Running(s) => sc[s].col \in alive' \cup {NoCollector}
    BY <1>6, <1>7
  <1>11. \A s \in Scratch : Running(s) /\ sc[s].col # NoCollector =>
            /\ nTrig'[sc[s].col] = nTrig[sc[s].col] /\ nTrue'[sc[s].col] = nTrue[sc[s].col]
            /\ sc[s].col \in blurred => sc[s].col \in blurred'
            /\ s \in owed' <=> s \in owed
    BY <1>7
  <1> QED
    BY <1>2, <1>4, <1>5, <1>7, <1>8, <1>9, <1>10, <1>11, CollectorStep

----------------------------------------------------------------------------
(* Scans *)

Frame == [s : Scratch, at : Places, cb : BOOLEAN, halt : BOOLEAN]
CoreInfo == [col : alive \cup {NoCollector}, active : BOOLEAN,
             reported : BOOLEAN, key : Key \cup {0}]

LEMMA TopIs ==
    ASSUME TypeOK, Depth > 0
    PROVE  /\ Depth \in DOMAIN stack /\ Top.s \in Scratch /\ Running(Top.s)
           /\ Top.at \in Places /\ Top.halt \in BOOLEAN /\ sc[Top.s] \in CoreInfo
           /\ DOMAIN stack = 1 .. Depth /\ Depth \in Nat
  <1>1. stack \in Seq(Frame)  BY DEF TypeOK, Frame
  <1>2. Depth \in DOMAIN stack /\ DOMAIN stack = 1 .. Depth /\ Depth \in Nat
    BY <1>1 DEF Depth
  <1>3. Top \in Frame  BY <1>1, <1>2 DEF Top
  <1>4. Running(Top.s)  BY <1>2 DEF Running, Top
  <1> QED  BY <1>2, <1>3, <1>4 DEF TypeOK, CoreInfo, Frame

LEMMA ScratchIs == ASSUME TypeOK PROVE \A i \in DOMAIN stack : stack[i].s \in Scratch
  <1>1. stack \in Seq(Frame)  BY DEF TypeOK, Frame
  <1>2. \A i \in DOMAIN stack : stack[i] \in Frame  BY <1>1
  <1> QED  BY <1>2 DEF Frame

LEMMA MovedIs ==
    ASSUME TypeOK, Depth > 0, NEW place \in Places, NEW cb \in BOOLEAN, NEW halt \in BOOLEAN,
           Moved(place, cb, halt)
    PROVE  /\ stack' \in Seq([s : Scratch, at : Places, cb : BOOLEAN, halt : BOOLEAN])
           /\ DOMAIN stack' = DOMAIN stack
           /\ \A i \in DOMAIN stack : stack'[i].s = stack[i].s
           /\ \A i \in DOMAIN stack : i # Depth => stack'[i] = stack[i]
           /\ stack'[Depth].at = place
  <1> DEFINE frame == [s |-> Top.s, at |-> place, cb |-> cb, halt |-> halt]
  <1>1. Depth \in DOMAIN stack /\ DOMAIN stack = 1 .. Depth  BY TopIs
  <1>2. frame \in Frame  BY TopIs DEF Frame
  <1>3. frame.s = stack[Depth].s /\ frame.at = place  BY DEF Top
  <1>4. stack' = [stack EXCEPT ![Depth] = frame]  BY <1>1 DEF Moved, Top
  <1> HIDE DEF frame
  <1>5. stack \in Seq(Frame)  BY DEF TypeOK, Frame
  <1>6. stack' \in Seq(Frame)  BY <1>1, <1>2, <1>4, <1>5
  <1>7. DOMAIN stack' = DOMAIN stack /\ stack'[Depth] = frame
        /\ \A i \in DOMAIN stack : i # Depth => stack'[i] = stack[i]
    BY <1>1, <1>4
  <1> QED  BY <1>3, <1>6, <1>7 DEF Frame

\* A step of the innermost scan touches its own scratch and collector only.
LEMMA MovedStep ==
    ASSUME IInv, Depth > 0, NEW place \in Places, NEW cb \in BOOLEAN, NEW halt \in BOOLEAN,
           Moved(place, cb, halt),
           sc' \in [Scratch -> CoreInfo], sc'[Top.s].col = sc[Top.s].col,
           \A t \in Scratch : t # Top.s => sc'[t] = sc[t],
           sc'[Top.s].active => sc'[Top.s].col # NoCollector,
           place = "engine" => ~sc'[Top.s].active /\ Top.s \notin owed',
           owed' \subseteq Scratch,
           \A t \in Scratch : t # Top.s => (t \in owed' <=> t \in owed),
           UNCHANGED alive, fb' = {}, total' \in Nat, blurred' \subseteq alive,
           cnt' \in [Collector -> [Frag -> Counter]], pending' \in [Collector -> Seq(Key)],
           \A d \in Collector : Len(pending'[d]) <= BatchSize,
           \A d \in Collector : d # sc[Top.s].col => pending'[d] = pending[d],
           nTrig' \in [Collector -> [Frag -> Nat]], nTrue' \in [Collector -> [Frag -> Nat]],
           Owing', Orphans', CountsExact'
    PROVE  IInv'
  <1> USE CollectorAssumption
  <1> DEFINE s == Top.s
  <1>0. TypeOK /\ Stacked  BY DEF IInv
  <1>1. /\ stack' \in Seq([s : Scratch, at : Places, cb : BOOLEAN, halt : BOOLEAN])
        /\ DOMAIN stack' = DOMAIN stack
        /\ \A i \in DOMAIN stack : stack'[i].s = stack[i].s
        /\ \A i \in DOMAIN stack : i # Depth => stack'[i] = stack[i]
        /\ stack'[Depth].at = place
    BY <1>0, MovedIs
  <1>2. Depth \in DOMAIN stack /\ s \in Scratch /\ Running(s) /\ stack[Depth].s = s
    BY <1>0, TopIs DEF Top
  <1> HIDE DEF s
  <1>3. \A t \in Scratch : Running(t)' <=> Running(t)  BY <1>1 DEF Running
  <1>4. sc' \in [Scratch -> CoreInfo] /\ \A t \in Scratch : t # s => sc'[t] = sc[t]
    BY DEF s
  <1>5. TypeOK'
    <2>1. sc' \in [Scratch -> [col : alive' \cup {NoCollector}, active : BOOLEAN,
                               reported : BOOLEAN, key : Key \cup {0}]]
      BY <1>4 DEF CoreInfo
    <2>2. alive' \subseteq Collector  BY <1>0 DEF TypeOK
    <2> QED  BY <1>1, <2>1, <2>2, NoFeedback DEF TypeOK
  <1>6. Stacked'
    <2>1. \A i, j \in DOMAIN stack' : stack'[i].s = stack'[j].s => i = j
      BY <1>0, <1>1 DEF Stacked
    <2>2. \A t \in Scratch : ~Running(t)' => sc'[t] = Quiet /\ t \notin owed'
      <3> SUFFICES ASSUME NEW t \in Scratch, ~Running(t) PROVE sc'[t] = Quiet /\ t \notin owed'
        BY <1>3
      <3>1. t # s  BY <1>2
      <3> QED  BY <1>0, <1>4, <3>1 DEF Stacked, s
    <2>3. \A i \in DOMAIN stack' :
             stack'[i].at = "engine" => ~sc'[stack'[i].s].active /\ stack'[i].s \notin owed'
      <3> SUFFICES ASSUME NEW i \in DOMAIN stack, stack'[i].at = "engine"
                   PROVE  ~sc'[stack[i].s].active /\ stack[i].s \notin owed'
        BY <1>1
      <3>1. CASE i = Depth  BY <1>1, <1>2, <1>4, <3>1 DEF s
      <3>2. CASE i # Depth
        <4>1. stack[i].s # s  BY <1>0, <1>2, <3>2 DEF Stacked
        <4>2. stack[i].s \in Scratch  BY <1>0, ScratchIs
        <4>3. stack[i].at = "engine"  BY <1>1, <3>2
        <4>4. ~sc[stack[i].s].active /\ stack[i].s \notin owed  BY <1>0, <4>3 DEF Stacked
        <4>5. sc'[stack[i].s] = sc[stack[i].s]  BY <1>4, <4>1, <4>2
        <4>6. stack[i].s \notin owed'  BY <4>1, <4>2, <4>4 DEF s
        <4> QED  BY <4>4, <4>5, <4>6
      <3> QED  BY <3>1, <3>2
    <2>4. \A t \in Scratch : sc'[t].active => sc'[t].col # NoCollector
      BY <1>0, <1>4 DEF Stacked
    <2>5. \A t : Running(t)' <=> \E i \in DOMAIN stack' : stack'[i].s = t  BY DEF Running
    <2> QED  BY <2>1, <2>2, <2>3, <2>4, <2>5 DEF Stacked
  <1>7. CommittedAtReturn'
    <2> SUFFICES ASSUME NEW d \in alive, UsedBy(d)' = {} PROVE pending'[d] = <<>>
      BY DEF CommittedAtReturn
    <2>1. \A t \in Scratch : sc'[t].col = sc[t].col  BY <1>2, <1>4 DEF s
    <2>2. UsedBy(d)' = {t \in Scratch : Running(t)' /\ sc'[t].col = d}
      BY DEF UsedBy, Free, Running
    <2>3. UsedBy(d) = {}  BY <1>3, <2>1, <2>2, UsedIs
    <2>4. d # sc[s].col  BY <1>2, <2>3, UsedIs DEF s
    <2>5. d \in Collector  BY <1>0 DEF TypeOK
    <2>6. pending'[d] = pending[d]  BY <2>4, <2>5 DEF s
    <2> QED  BY <2>3, <2>6 DEF IInv, CommittedAtReturn
  <1> QED  BY <1>5, <1>6, <1>7, NoFeedback DEF IInv

\* Steps that record nothing.
LEMMA QuietStep ==
    ASSUME IInv, Depth > 0, NEW place \in Places, NEW cb \in BOOLEAN, NEW halt \in BOOLEAN,
           Moved(place, cb, halt), place \in {Top.at, "engine"}, fb' = {},
           sc' = [sc EXCEPT ![Top.s] = IF place = "engine" THEN [Quiet EXCEPT !.col = sc[Top.s].col]
                                       ELSE sc[Top.s]],
           owed' = IF place = "engine" THEN owed \ {Top.s} ELSE owed,
           UNCHANGED <<alive, cnt, pending, nTrig, nTrue, blurred, total>>
    PROVE  IInv'
  <1> USE CollectorAssumption
  <1> DEFINE s == Top.s
             x == IF place = "engine" THEN [Quiet EXCEPT !.col = sc[Top.s].col] ELSE sc[Top.s]
  <1>0. TypeOK /\ Stacked /\ Owing /\ Orphans  BY DEF IInv
  <1>1. s \in Scratch /\ sc[s] \in CoreInfo  BY <1>0, TopIs
  <1>2. /\ x \in CoreInfo /\ x.col = sc[s].col
        /\ x.active => place # "engine" /\ x = sc[s]
    BY <1>1 DEF CoreInfo, Quiet
  <1>3. x.active => x.col # NoCollector  BY <1>0, <1>1, <1>2 DEF Stacked
  <1>4. sc' = [sc EXCEPT ![s] = x] /\ (s \notin owed' \/ place # "engine")
    OBVIOUS
  <1>5. /\ sc'[s] = x /\ \A t \in Scratch : t # s => sc'[t] = sc[t]
    BY <1>0, <1>1 DEF TypeOK
  <1> HIDE DEF x
  <1>6. Owing'
    <2> SUFFICES ASSUME NEW t \in owed'
                 PROVE  /\ sc'[t].active /\ ~sc'[t].reported /\ sc'[t].key \in Frag
                        /\ nTrig[sc'[t].col][sc'[t].key] >= 1
      BY DEF Owing
    <2>1. t \in owed /\ t \in Scratch  BY <1>0 DEF TypeOK
    <2>2. sc'[t] = sc[t]
      <3>1. CASE t # s  BY <1>5, <2>1, <3>1
      <3>2. CASE t = s  BY <1>5, <3>2 DEF x
      <3> QED  BY <3>1, <3>2
    <2> QED  BY <1>0, <2>1, <2>2 DEF Owing
  <1>7. Orphans'
    <2> SUFFICES ASSUME NEW t \in Scratch,
                        sc'[t].active, ~sc'[t].reported, t \notin owed', sc'[t].key \in Frag,
                        sc'[t].col \notin blurred
                 PROVE  nTrig[sc'[t].col][sc'[t].key] = 0 /\ nTrue[sc'[t].col][sc'[t].key] = 0
      BY DEF Orphans, Orphan
    <2>1. sc'[t] = sc[t] /\ t \notin owed
      <3>1. CASE t # s  BY <1>5, <3>1
      <3>2. CASE t = s  BY <1>2, <1>5, <3>2
      <3> QED  BY <3>1, <3>2
    <2> QED  BY <1>0, <2>1 DEF Orphans, Orphan
  <1>8. CountsExact'  BY DEF IInv, CountsExact
  <1>9. /\ sc' \in [Scratch -> CoreInfo]
        /\ \A t \in Scratch : t # Top.s => sc'[t] = sc[t]
        /\ sc'[Top.s].col = sc[Top.s].col
        /\ sc'[Top.s].active => sc'[Top.s].col # NoCollector
        /\ place = "engine" => ~sc'[Top.s].active /\ Top.s \notin owed'
    BY <1>0, <1>1, <1>2, <1>3, <1>4, <1>5 DEF TypeOK, CoreInfo
  <1>10. /\ owed' \subseteq Scratch /\ total' \in Nat /\ blurred' \subseteq alive
         /\ \A t \in Scratch : t # Top.s => (t \in owed' <=> t \in owed)
         /\ cnt' \in [Collector -> [Frag -> Counter]] /\ pending' \in [Collector -> Seq(Key)]
         /\ \A d \in Collector : Len(pending'[d]) <= BatchSize
         /\ \A d \in Collector : d # sc[Top.s].col => pending'[d] = pending[d]
         /\ nTrig' \in [Collector -> [Frag -> Nat]] /\ nTrue' \in [Collector -> [Frag -> Nat]]
         /\ UNCHANGED alive
    BY <1>0 DEF TypeOK
  <1> QED  BY ONLY IInv, Depth > 0, place \in Places, cb \in BOOLEAN, halt \in BOOLEAN, Moved(place, cb, halt), fb' = {}, <1>6, <1>7, <1>8, <1>9, <1>10, MovedStep

LEMMA EndTriggerStep == ASSUME IInv, end_trigger PROVE IInv'
  <1>1. /\ Depth > 0 /\ Moved("engine", FALSE, Top.halt) /\ fb' = {}
        /\ sc' = [sc EXCEPT ![Top.s] = [Quiet EXCEPT !.col = sc[Top.s].col]]
        /\ owed' = owed \ {Top.s}
        /\ UNCHANGED <<alive, cnt, pending, nTrig, nTrue, blurred, total>>
    BY DEF end_trigger, Engine
  <1>2. Top.halt \in BOOLEAN  BY <1>1, TopIs DEF IInv
  <1>3. PICK halt \in BOOLEAN : halt = Top.halt  BY <1>2
  <1>4. "engine" \in Places  BY DEF Places
  <1>5. Moved("engine", FALSE, halt)  BY <1>1, <1>3
  <1> QED  BY <1>1, <1>4, <1>5, QuietStep

\* A step that changes no more than the stack.
LEMMA StandStep ==
    ASSUME IInv, Depth > 0, NEW place \in Places, NEW cb \in BOOLEAN, NEW halt \in BOOLEAN,
           Moved(place, cb, halt), place = Top.at, fb' = {},
           UNCHANGED <<alive, cnt, pending, sc, hist>>
    PROVE  IInv'
  <1>0. TypeOK /\ Stacked  BY DEF IInv
  <1>1. UNCHANGED <<alive, cnt, pending, sc, nTrig, nTrue, owed, blurred, total>>
    BY DEF hist
  <1>2. Owing' /\ Orphans' /\ CountsExact'
    BY <1>1 DEF IInv, Owing, Orphans, Orphan, CountsExact
  <1>3. Depth \in DOMAIN stack /\ Top.s \in Scratch  BY <1>0, TopIs
  <1>4. /\ sc' \in [Scratch -> CoreInfo]
        /\ \A t \in Scratch : t # Top.s => sc'[t] = sc[t]
        /\ sc'[Top.s].col = sc[Top.s].col
        /\ sc'[Top.s].active => sc'[Top.s].col # NoCollector
    BY <1>0, <1>1, <1>3 DEF TypeOK, CoreInfo, Stacked
  <1>5. place = "engine" => ~sc'[Top.s].active /\ Top.s \notin owed'
    BY <1>0, <1>1, <1>3 DEF Stacked, Top
  <1>6. /\ owed' \subseteq Scratch /\ total' \in Nat /\ blurred' \subseteq alive
        /\ cnt' \in [Collector -> [Frag -> Counter]] /\ pending' \in [Collector -> Seq(Key)]
        /\ \A d \in Collector : Len(pending'[d]) <= BatchSize
        /\ nTrig' \in [Collector -> [Frag -> Nat]] /\ nTrue' \in [Collector -> [Frag -> Nat]]
        /\ UNCHANGED <<alive, pending, owed>>
    BY <1>0, <1>1 DEF TypeOK
  <1> QED  BY <1>2, <1>4, <1>5, <1>6, MovedStep

\* A report of a parked match and the return from the callback.
LEMMA LilyReportStep == ASSUME IInv, LilyReport PROVE IInv'
  <1>1. /\ Depth > 0 /\ Moved(Top.at, TRUE, FALSE) /\ fb' = {}
        /\ UNCHANGED <<alive, cnt, pending, sc, hist>>
    BY DEF LilyReport
  <1>2. Top.at \in Places  BY <1>1, TopIs DEF IInv
  <1>3. PICK place \in Places : place = Top.at  BY <1>2
  <1>4. Moved(place, TRUE, FALSE)  BY <1>1, <1>3
  <1> QED  BY <1>1, <1>3, <1>4, StandStep

LEMMA CallbackReturnsStep ==
    ASSUME IInv, NEW h \in BOOLEAN, CallbackReturns(h) PROVE IInv'
  <1>1. /\ Depth > 0 /\ Moved(Top.at, FALSE, h) /\ fb' = {}
        /\ UNCHANGED <<alive, cnt, pending, sc, hist>>
    BY DEF CallbackReturns
  <1>2. Top.at \in Places  BY <1>1, TopIs DEF IInv
  <1>3. PICK place \in Places : place = Top.at  BY <1>2
  <1>4. Moved(place, FALSE, h)  BY <1>1, <1>3
  <1> QED  BY <1>1, <1>3, <1>4, StandStep

\* Queueing a trigger counts it exactly, with a full queue and without.
LEMMA QueueIs ==
    ASSUME TypeOK, NEW c \in Collector, NEW k \in Key, queue_trigger_key(c, k)
    PROVE  /\ cnt' \in [Collector -> [Frag -> Counter]]
           /\ pending' \in [Collector -> Seq(Key)]
           /\ \A d \in Collector : Len(pending'[d]) <= BatchSize
           /\ \A d \in Collector : d # c => cnt'[d] = cnt[d] /\ pending'[d] = pending[d]
           /\ \A t \in [Frag -> Nat], r \in [Frag -> Nat] :
                 Agree(cnt[c], pending[c], t, r) =>
                    Agree(cnt'[c], pending'[c],
                          IF k \in Frag THEN [t EXCEPT ![k] = @ + 1] ELSE t, r)
  <1> USE CollectorAssumption
  <1> DEFINE x == cnt[c]
             b == pending[c]
  <1>1. x \in [Frag -> Counter] /\ b \in Seq(Key) /\ Flushed(x, b) \in [Frag -> Counter]
    <2>1. x \in [Frag -> Counter] /\ b \in Seq(Key)  BY DEF TypeOK
    <2> QED  BY <2>1, FlushedIs
  <1>2. \A t \in [Frag -> Nat], f \in Frag :
           /\ t[f] \in Nat
           /\ (IF k \in Frag THEN [t EXCEPT ![k] = @ + 1] ELSE t)[f]
                 = t[f] + IF k = f THEN 1 ELSE 0
    OBVIOUS
  <1>3. \A m, n \in Nat : Least(m, Max) = Least(n, Max) => Least(m + 1, Max) = Least(n + 1, Max)
    BY DEF Least
  <1>4. CASE Len(b) = BatchSize
    <2> DEFINE y == Flushed(x, b)
    <2>1. cnt' = [cnt EXCEPT ![c] = y] /\ pending' = [pending EXCEPT ![c] = <<k>>]
      BY <1>4 DEF queue_trigger_key, TypeOK
    <2>2. /\ y \in [Frag -> Counter] /\ <<k>> \in Seq(Key) /\ Len(<<k>>) = 1
      BY <1>1
    <2> HIDE DEF y
    <2>3. /\ cnt' \in [Collector -> [Frag -> Counter]] /\ cnt'[c] = y
          /\ \A d \in Collector : d # c => cnt'[d] = cnt[d]
      BY <2>1, <2>2 DEF TypeOK
    <2>4. /\ pending' \in [Collector -> Seq(Key)] /\ pending'[c] = <<k>>
          /\ \A d \in Collector : d # c => pending'[d] = pending[d]
      BY <2>1, <2>2 DEF TypeOK
    <2>5. \A d \in Collector : Len(pending'[d]) <= BatchSize
      <3> SUFFICES ASSUME NEW d \in Collector PROVE Len(pending'[d]) <= BatchSize
        OBVIOUS
      <3>1. CASE d = c
        <4>1. pending'[d] = <<k>> /\ BatchSize >= 1  BY <2>4, <3>1
        <4> QED  BY <2>2, <4>1
      <3>2. CASE d # c  BY <2>4, <3>2 DEF TypeOK
      <3> QED  BY <3>1, <3>2
    <2>6. ASSUME NEW t \in [Frag -> Nat], NEW r \in [Frag -> Nat], Agree(x, b, t, r)
          PROVE  Agree(y, <<k>>, IF k \in Frag THEN [t EXCEPT ![k] = @ + 1] ELSE t, r)
      <3> SUFFICES ASSUME NEW f \in Frag
                   PROVE  /\ Flushed(y, <<k>>)[f].trigger_count
                                = Least(t[f] + IF k = f THEN 1 ELSE 0, Max)
                          /\ Flushed(y, <<k>>)[f].true_trigger_count = Least(r[f], Max)
        BY <1>2 DEF Agree
      <3>1. /\ y[f].trigger_count = Least(t[f], Max)
            /\ y[f].true_trigger_count = Least(r[f], Max)
        BY <2>6 DEF Agree, y
      <3>2. /\ Flushed(y, <<k>>)[f].trigger_count
                  = Least(y[f].trigger_count + Count(<<k>>, f), Max)
            /\ Flushed(y, <<k>>)[f].true_trigger_count = y[f].true_trigger_count
        BY <2>2, FlushedIs
      <3>3. Count(<<k>>, f) = IF k = f THEN 1 ELSE 0  BY CountIs
      <3>4. Least(Least(t[f], Max) + IF k = f THEN 1 ELSE 0, Max)
               = Least(t[f] + IF k = f THEN 1 ELSE 0, Max)
        BY <1>2 DEF Least
      <3> QED  BY <3>1, <3>2, <3>3, <3>4
    <2>7. cnt'[c] = y /\ pending'[c] = <<k>>  BY <2>3, <2>4
    <2>8. ASSUME NEW t \in [Frag -> Nat], NEW r \in [Frag -> Nat],
                 Agree(cnt[c], pending[c], t, r)
          PROVE  Agree(cnt'[c], pending'[c],
                       IF k \in Frag THEN [t EXCEPT ![k] = @ + 1] ELSE t, r)
      <3> DEFINE t1 == IF k \in Frag THEN [t EXCEPT ![k] = @ + 1] ELSE t
      <3>1. Agree(y, <<k>>, t1, r)  BY <2>6, <2>8
      <3> HIDE DEF t1
      <3>2. Agree(cnt'[c], pending'[c], t1, r)  BY <2>7, <3>1
      <3> QED  BY <3>2 DEF t1
    <2> QED  BY <2>3, <2>4, <2>5, <2>8
  <1>5. CASE Len(b) # BatchSize
    <2>1. cnt' = cnt /\ pending' = [pending EXCEPT ![c] = Append(b, k)] /\ Len(b) < BatchSize
      BY <1>5 DEF queue_trigger_key, TypeOK
    <2>2. Append(b, k) \in Seq(Key) /\ Len(Append(b, k)) <= BatchSize  BY <1>1, <2>1
    <2>3. /\ pending' \in [Collector -> Seq(Key)] /\ pending'[c] = Append(b, k)
          /\ \A d \in Collector : d # c => pending'[d] = pending[d]
      BY <2>1, <2>2 DEF TypeOK
    <2>4. \A d \in Collector : Len(pending'[d]) <= BatchSize
      <3> SUFFICES ASSUME NEW d \in Collector PROVE Len(pending'[d]) <= BatchSize
        OBVIOUS
      <3>1. CASE d = c  BY <2>2, <2>3, <3>1
      <3>2. CASE d # c  BY <2>3, <3>2 DEF TypeOK
      <3> QED  BY <3>1, <3>2
    <2>5. ASSUME NEW t \in [Frag -> Nat], NEW r \in [Frag -> Nat], Agree(x, b, t, r)
          PROVE  Agree(x, Append(b, k), IF k \in Frag THEN [t EXCEPT ![k] = @ + 1] ELSE t, r)
      <3> SUFFICES ASSUME NEW f \in Frag
                   PROVE  /\ Flushed(x, Append(b, k))[f].trigger_count
                                = Least(t[f] + IF k = f THEN 1 ELSE 0, Max)
                          /\ Flushed(x, Append(b, k))[f].true_trigger_count = Least(r[f], Max)
        BY <1>2 DEF Agree
      <3>1. /\ Flushed(x, b)[f].trigger_count = Least(t[f], Max)
            /\ Flushed(x, b)[f].true_trigger_count = Least(r[f], Max)
        BY <2>5 DEF Agree
      <3>2. /\ Flushed(x, b)[f].trigger_count = Least(x[f].trigger_count + Count(b, f), Max)
            /\ Flushed(x, b)[f].true_trigger_count = x[f].true_trigger_count
        BY <1>1, FlushedIs
      <3>3. /\ Flushed(x, Append(b, k))[f].trigger_count
                  = Least(x[f].trigger_count + Count(Append(b, k), f), Max)
            /\ Flushed(x, Append(b, k))[f].true_trigger_count = x[f].true_trigger_count
        BY <1>1, <2>2, FlushedIs
      <3>4. Count(Append(b, k), f) = Count(b, f) + IF k = f THEN 1 ELSE 0
        BY <1>1, CountIs
      <3>5. x[f].trigger_count + Count(b, f) \in Nat /\ t[f] \in Nat
        <4>1. x[f].trigger_count \in Nat  BY <1>1 DEF Counter
        <4>2. Count(b, f) \in Nat  BY <1>1, CountIs
        <4> QED  BY <1>2, <4>1, <4>2
      <3>6. Least(x[f].trigger_count + Count(b, f), Max) = Least(t[f], Max)
        BY <3>1, <3>2
      <3>7. CASE k = f
        <4>1. Least(x[f].trigger_count + Count(b, f) + 1, Max) = Least(t[f] + 1, Max)
          BY <1>3, <3>5, <3>6
        <4>2. x[f].trigger_count + (Count(b, f) + 1) = x[f].trigger_count + Count(b, f) + 1
          <5>1. x[f].trigger_count \in Nat  BY <1>1 DEF Counter
          <5>2. Count(b, f) \in Nat  BY <1>1, CountIs
          <5> QED  BY <5>1, <5>2
        <4> QED  BY <3>1, <3>2, <3>3, <3>4, <3>7, <4>1, <4>2
      <3>8. CASE k # f
        <4>0. Count(b, f) \in Nat  BY <1>1, CountIs
        <4>1. Count(b, f) + 0 = Count(b, f) /\ t[f] + 0 = t[f]  BY <3>5, <4>0
        <4> QED  BY <3>1, <3>2, <3>3, <3>4, <3>8, <4>1
      <3> QED  BY <3>7, <3>8
    <2> QED  BY <2>1, <2>3, <2>4, <2>5 DEF TypeOK
  <1> QED  BY <1>4, <1>5

LEMMA BeginTriggerStep == ASSUME IInv, NEW k \in Key, begin_trigger(k) PROVE IInv'
  <1> USE CollectorAssumption
  <1> DEFINE s == Top.s
             c == sc[Top.s].col
  <1>0. TypeOK /\ Stacked /\ Owing /\ Orphans  BY DEF IInv
  <1>1. /\ Depth > 0 /\ Top.at = "engine" /\ Moved("program", FALSE, FALSE) /\ fb' = {}
        /\ alive' = alive
    BY DEF begin_trigger, Engine
  <1>2. /\ s \in Scratch /\ sc[s] \in CoreInfo /\ Running(s) /\ Depth \in DOMAIN stack
        /\ c \in alive \cup {NoCollector}
    BY <1>0, <1>1, TopIs DEF CoreInfo
  <1>3. ~sc[s].active /\ s \notin owed  BY <1>0, <1>1, <1>2 DEF Stacked, Top
  <1>4. "program" \in Places  BY DEF Places
  <1>5. \A t \in owed : t \in Scratch /\ sc[t].active /\ sc[t].col # NoCollector /\ t # s
    BY <1>0, <1>3 DEF Owing, Stacked, TypeOK
  <1>6. CASE c = NoCollector
    <2>1. /\ sc' = [sc EXCEPT ![s] = Quiet] /\ UNCHANGED <<cnt, pending>>
          /\ UNCHANGED <<nTrig, nTrue, owed, blurred, total>>
      BY <1>6 DEF begin_trigger, hist
    <2>2. Quiet \in CoreInfo /\ Quiet.col = NoCollector /\ ~Quiet.active
      BY DEF Quiet, CoreInfo
    <2>3. /\ sc' \in [Scratch -> CoreInfo] /\ sc'[s] = Quiet
          /\ \A t \in Scratch : t # s => sc'[t] = sc[t]
      BY <1>0, <1>2, <2>1, <2>2 DEF TypeOK, CoreInfo
    <2>4. Owing'
      <3> SUFFICES ASSUME NEW t \in owed
                   PROVE  /\ sc'[t].active /\ ~sc'[t].reported /\ sc'[t].key \in Frag
                          /\ nTrig[sc'[t].col][sc'[t].key] >= 1
        BY <2>1 DEF Owing
      <3>1. sc'[t] = sc[t]  BY <1>5, <2>3
      <3> QED  BY <1>0, <3>1 DEF Owing
    <2>5. Orphans'
      <3> SUFFICES ASSUME NEW t \in Scratch,
                          sc'[t].active, ~sc'[t].reported, t \notin owed, sc'[t].key \in Frag,
                          sc'[t].col \notin blurred
                   PROVE  nTrig[sc'[t].col][sc'[t].key] = 0 /\ nTrue[sc'[t].col][sc'[t].key] = 0
        BY <2>1 DEF Orphans, Orphan
      <3>1. t # s  BY <2>2, <2>3
      <3>2. sc'[t] = sc[t]  BY <2>3, <3>1
      <3> QED  BY <1>0, <3>2 DEF Orphans, Orphan
    <2>6. CountsExact'  BY <1>1, <2>1 DEF IInv, CountsExact
    <2>7. /\ owed' \subseteq Scratch /\ total' \in Nat /\ blurred' \subseteq alive
          /\ cnt' \in [Collector -> [Frag -> Counter]] /\ pending' \in [Collector -> Seq(Key)]
          /\ \A d \in Collector : Len(pending'[d]) <= BatchSize
          /\ nTrig' \in [Collector -> [Frag -> Nat]] /\ nTrue' \in [Collector -> [Frag -> Nat]]
      BY <1>0, <2>1 DEF TypeOK
    <2>8. sc'[Top.s].col = sc[Top.s].col /\ ~sc'[Top.s].active  BY <1>6, <2>2, <2>3
    <2>9. \A t \in Scratch : t # Top.s => sc'[t] = sc[t]  BY <2>3
    <2> QED
      BY <1>1, <1>4, <2>1, <2>3, <2>4, <2>5, <2>6, <2>7, <2>8, <2>9, MovedStep
  <1>7. CASE c # NoCollector
    <2>1. /\ queue_trigger_key(c, k)
          /\ sc' = [sc EXCEPT ![s] = [col |-> c, active |-> TRUE, reported |-> FALSE, key |-> k]]
          /\ total' = total + 1
          /\ nTrig' = IF k \in Frag THEN [nTrig EXCEPT ![c][k] = @ + 1] ELSE nTrig
          /\ owed' = IF k \in Frag THEN owed \cup {s} ELSE owed \ {s}
          /\ blurred' = IF \E t \in UsedBy(c) \ {s} :
                              sc[t].active /\ ~sc[t].reported /\ t \notin owed
                        THEN blurred \cup {c} ELSE blurred
          /\ nTrue' = nTrue
      BY <1>7 DEF begin_trigger
    <2>2. c \in alive /\ c \in Collector /\ alive \subseteq Collector
      BY <1>0, <1>2, <1>7 DEF TypeOK
    <2> DEFINE x == [col |-> c, active |-> TRUE, reported |-> FALSE, key |-> k]
    <2>3. x \in CoreInfo /\ x.col = c /\ x.active /\ ~x.reported /\ x.key = k
      BY <2>2 DEF CoreInfo
    <2> HIDE DEF c, x
    <2>4. /\ sc' \in [Scratch -> CoreInfo] /\ sc'[s] = x
          /\ \A t \in Scratch : t # s => sc'[t] = sc[t]
      <3>1. sc' = [sc EXCEPT ![s] = x]  BY <2>1 DEF x
      <3> QED  BY <1>0, <1>2, <2>3, <3>1 DEF TypeOK, CoreInfo
    <2>5. /\ cnt' \in [Collector -> [Frag -> Counter]]
          /\ pending' \in [Collector -> Seq(Key)]
          /\ \A d \in Collector : Len(pending'[d]) <= BatchSize
          /\ \A d \in Collector : d # c => cnt'[d] = cnt[d] /\ pending'[d] = pending[d]
          /\ \A t \in [Frag -> Nat], r \in [Frag -> Nat] :
                Agree(cnt[c], pending[c], t, r) =>
                   Agree(cnt'[c], pending'[c],
                         IF k \in Frag THEN [t EXCEPT ![k] = @ + 1] ELSE t, r)
      <3>1. PICK d \in Collector : d = c  BY <2>2
      <3>2. queue_trigger_key(d, k)  BY <2>1, <3>1
      <3>3. /\ cnt' \in [Collector -> [Frag -> Counter]]
            /\ pending' \in [Collector -> Seq(Key)]
            /\ \A e \in Collector : Len(pending'[e]) <= BatchSize
            /\ \A e \in Collector : e # d => cnt'[e] = cnt[e] /\ pending'[e] = pending[e]
            /\ \A t \in [Frag -> Nat], r \in [Frag -> Nat] :
                  Agree(cnt[d], pending[d], t, r) =>
                     Agree(cnt'[d], pending'[d],
                           IF k \in Frag THEN [t EXCEPT ![k] = @ + 1] ELSE t, r)
        BY <1>0, <3>2, QueueIs
      <3> QED  BY <3>1, <3>3
    <2>6. /\ nTrig' \in [Collector -> [Frag -> Nat]]
          /\ nTrig'[c] = (IF k \in Frag THEN [nTrig[c] EXCEPT ![k] = @ + 1] ELSE nTrig[c])
          /\ \A d \in Collector : d # c => nTrig'[d] = nTrig[d]
          /\ \A d \in Collector, f \in Frag : nTrig'[d][f] >= nTrig[d][f]
          /\ k \in Frag => nTrig'[c][k] >= 1
      <3>0. nTrig \in [Collector -> [Frag -> Nat]]  BY <1>0 DEF TypeOK
      <3>1. CASE k \in Frag
        <4>1. nTrig' = [nTrig EXCEPT ![c] = [nTrig[c] EXCEPT ![k] = nTrig[c][k] + 1]]
          BY <2>1, <2>2, <3>0, <3>1
        <4>2. nTrig[c] \in [Frag -> Nat] /\ nTrig[c][k] \in Nat  BY <2>2, <3>0, <3>1
        <4> DEFINE row == [nTrig[c] EXCEPT ![k] = nTrig[c][k] + 1]
        <4>3. /\ row \in [Frag -> Nat] /\ row[k] = nTrig[c][k] + 1
              /\ \A f \in Frag : f # k => row[f] = nTrig[c][f]
          BY <3>1, <4>2
        <4>4. row = IF k \in Frag THEN [nTrig[c] EXCEPT ![k] = @ + 1] ELSE nTrig[c]
          BY <3>1
        <4> HIDE DEF row
        <4>5. /\ nTrig' \in [Collector -> [Frag -> Nat]] /\ nTrig'[c] = row
              /\ \A d \in Collector : d # c => nTrig'[d] = nTrig[d]
          BY <2>2, <3>0, <4>1, <4>3 DEF row
        <4>6. ASSUME NEW d \in Collector, NEW f \in Frag PROVE nTrig'[d][f] >= nTrig[d][f]
          <5>1. nTrig[d][f] \in Nat  BY <3>0
          <5>2. CASE d # c  BY <4>5, <5>1, <5>2
          <5>3. CASE d = c
            <6>1. CASE f = k  BY <4>2, <4>3, <4>5, <5>3, <6>1
            <6>2. CASE f # k  BY <4>3, <4>5, <5>1, <5>3, <6>2
            <6> QED  BY <6>1, <6>2
          <5> QED  BY <5>2, <5>3
        <4>7. nTrig'[c][k] >= 1  BY <4>2, <4>3, <4>5
        <4> QED  BY <4>4, <4>5, <4>6, <4>7
      <3>2. CASE k \notin Frag  BY <2>1, <3>0, <3>2
      <3> QED  BY <3>1, <3>2
    <2>7. \A t \in Scratch : t # s => (t \in owed' <=> t \in owed)  BY <2>1
    <2>8. s \in owed' <=> k \in Frag  BY <1>3, <2>1
    <2>9. /\ owed' \subseteq Scratch /\ total' \in Nat
          /\ blurred' \subseteq alive /\ blurred \subseteq blurred'
          /\ nTrue' \in [Collector -> [Frag -> Nat]]
      <3>1. owed \subseteq Scratch /\ total \in Nat /\ blurred \subseteq alive
            /\ nTrue \in [Collector -> [Frag -> Nat]]
        BY <1>0 DEF TypeOK
      <3> QED  BY <1>2, <2>1, <2>2, <3>1
    <2>10. \A t \in Scratch : sc[t].active => sc[t].col \in Collector
      BY <1>0, <2>2 DEF TypeOK, Stacked
    <2>11. Owing'
      <3> SUFFICES ASSUME NEW t \in owed'
                   PROVE  /\ sc'[t].active /\ ~sc'[t].reported /\ sc'[t].key \in Frag
                          /\ nTrig'[sc'[t].col][sc'[t].key] >= 1
        BY DEF Owing
      <3>1. CASE t = s  BY <2>3, <2>4, <2>6, <2>8, <3>1
      <3>2. CASE t # s
        <4>1. t \in owed /\ t \in Scratch  BY <2>7, <2>9, <3>2
        <4>2. sc'[t] = sc[t]  BY <2>4, <3>2, <4>1
        <4>3. /\ sc[t].active /\ ~sc[t].reported /\ sc[t].key \in Frag
              /\ nTrig[sc[t].col][sc[t].key] >= 1 /\ sc[t].col \in Collector
          BY <1>0, <2>10, <4>1 DEF Owing
        <4>4. /\ nTrig'[sc[t].col][sc[t].key] >= nTrig[sc[t].col][sc[t].key]
              /\ nTrig'[sc[t].col][sc[t].key] \in Nat /\ nTrig[sc[t].col][sc[t].key] \in Nat
          <5>1. nTrig \in [Collector -> [Frag -> Nat]]  BY <1>0 DEF TypeOK
          <5>2. PICK d \in Collector : d = sc[t].col  BY <4>3
          <5>3. PICK f \in Frag : f = sc[t].key  BY <4>3
          <5>4. nTrig'[d][f] >= nTrig[d][f] /\ nTrig'[d][f] \in Nat /\ nTrig[d][f] \in Nat
            BY <2>6, <5>1
          <5> QED  BY <5>2, <5>3, <5>4
        <4>5. nTrig'[sc[t].col][sc[t].key] >= 1  BY <4>3, <4>4
        <4> QED  BY <4>2, <4>3, <4>5
      <3> QED  BY <3>1, <3>2
    <2>12. Orphans'
      <3> SUFFICES ASSUME NEW t \in Scratch,
                          sc'[t].active, ~sc'[t].reported, t \notin owed', sc'[t].key \in Frag,
                          sc'[t].col \notin blurred'
                   PROVE  nTrig'[sc'[t].col][sc'[t].key] = 0 /\ nTrue'[sc'[t].col][sc'[t].key] = 0
        BY DEF Orphans, Orphan
      <3>1. t # s  BY <2>3, <2>4, <2>8
      <3>2. sc'[t] = sc[t] /\ t \notin owed  BY <2>4, <2>7, <3>1
      <3>3. sc[t].col # c
        <4> SUFFICES ASSUME sc[t].col = c PROVE FALSE
          OBVIOUS
        <4>1. Running(t)  BY <1>0, <3>2 DEF Stacked, Quiet
        <4>2. t \in UsedBy(c) \ {s}  BY <3>1, <4>1, UsedIs
        <4>3. c \in blurred'  BY <2>1, <3>2, <4>2
        <4> QED  BY <3>2, <4>3
      <3>4. sc[t].col \in Collector /\ sc[t].col \notin blurred  BY <2>9, <2>10, <3>2
      <3>5. nTrig'[sc[t].col] = nTrig[sc[t].col]  BY <2>6, <3>3, <3>4
      <3> QED  BY <1>0, <2>1, <3>2, <3>4, <3>5 DEF Orphans, Orphan
    <2>13. CountsExact'
      <3> SUFFICES ASSUME NEW d \in alive \ blurred'
                   PROVE  Agree(cnt'[d], pending'[d], nTrig'[d], nTrue'[d])
        BY <1>1 DEF CountsExact, Agree
      <3>1. d \in alive \ blurred /\ d \in Collector  BY <2>2, <2>9
      <3>2. Agree(cnt[d], pending[d], nTrig[d], nTrue[d])  BY <3>1, AgreeIs DEF IInv
      <3>3. CASE d # c  BY <2>1, <2>5, <2>6, <3>1, <3>2, <3>3
      <3>4. CASE d = c
        <4>1. nTrig[c] \in [Frag -> Nat] /\ nTrue[c] \in [Frag -> Nat]
          BY <1>0, <2>2 DEF TypeOK
        <4>2. Agree(cnt'[c], pending'[c],
                    IF k \in Frag THEN [nTrig[c] EXCEPT ![k] = @ + 1] ELSE nTrig[c], nTrue[c])
          BY <2>5, <3>2, <3>4, <4>1
        <4> QED  BY <2>1, <2>6, <3>4, <4>2
      <3> QED  BY <3>3, <3>4
    <2>14. /\ sc'[Top.s].col = sc[Top.s].col
           /\ sc'[Top.s].active => sc'[Top.s].col # NoCollector
           /\ \A t \in Scratch : t # Top.s => sc'[t] = sc[t]
      BY <1>7, <2>3, <2>4 DEF c
    <2>15. /\ \A t \in Scratch : t # Top.s => (t \in owed' <=> t \in owed)
           /\ \A d \in Collector : d # sc[Top.s].col => pending'[d] = pending[d]
      BY <2>5, <2>7 DEF c
    <2> QED
      BY <1>1, <1>4, <2>4, <2>5, <2>6, <2>9, <2>11, <2>12, <2>13, <2>14, <2>15, MovedStep
  <1> QED  BY <1>6, <1>7

----------------------------------------------------------------------------
(* Reports *)

\* What recording a report of an active trigger does to the counters.
LEMMA FinalReportIs ==
    ASSUME TypeOK, NEW s \in Scratch, NEW c \in Collector, sc[s].col = c, sc[s].active,
           NEW now \in [Frag -> Counter], now = Flushed(cnt[c], pending[c]),
           record_final_report(s)
    PROVE  /\ cnt' \in [Collector -> [Frag -> Counter]]
           /\ pending' \in [Collector -> Seq(Key)] /\ pending'[c] = <<>>
           /\ \A d \in Collector : d # c => cnt'[d] = cnt[d] /\ pending'[d] = pending[d]
           /\ sc' \in [Scratch -> CoreInfo] /\ \A t \in Scratch : t # s => sc'[t] = sc[t]
           /\ sc'[s].col = c /\ sc'[s].active /\ sc'[s].key = sc[s].key
           /\ \/ /\ sc[s].key \in Frag /\ counter_is_used(now[sc[s].key]) /\ ~sc[s].reported
                 /\ sc'[s].reported
                 /\ \A f \in Frag :
                       /\ cnt'[c][f].trigger_count = now[f].trigger_count
                       /\ cnt'[c][f].true_trigger_count =
                             IF f = sc[s].key
                             THEN Least(now[f].true_trigger_count + 1, Max)
                             ELSE now[f].true_trigger_count
              \/ /\ sc[s].key \notin Frag \/ ~counter_is_used(now[sc[s].key]) \/ sc[s].reported
                 /\ cnt'[c] = now /\ sc'[s].reported = sc[s].reported
  <1> USE CollectorAssumption
  <1> DEFINE k == sc[s].key
             found == k \in Frag /\ counter_is_used(now[k])
  <1>1. c # NoCollector  OBVIOUS
  <1>2. /\ pending' = [pending EXCEPT ![c] = <<>>]
        /\ \/ /\ found /\ ~sc[s].reported
              /\ cnt' = [cnt EXCEPT ![c] = [now EXCEPT
                            ![k].true_trigger_count = Least(@ + 1, Max)]]
              /\ sc' = [sc EXCEPT ![s].reported = TRUE]
           \/ /\ ~found \/ sc[s].reported
              /\ cnt' = [cnt EXCEPT ![c] = now]
              /\ sc' = sc
    BY <1>1 DEF record_final_report, sat_add_u64a
  <1>3. /\ pending' \in [Collector -> Seq(Key)] /\ pending'[c] = <<>>
        /\ \A d \in Collector : d # c => pending'[d] = pending[d]
    BY <1>2 DEF TypeOK
  <1>4. sc \in [Scratch -> CoreInfo] /\ sc[s] \in CoreInfo
        /\ cnt \in [Collector -> [Frag -> Counter]]
    BY DEF TypeOK, CoreInfo
  <1>5. CASE found /\ ~sc[s].reported
    <2> DEFINE n == Least(now[k].true_trigger_count + 1, Max)
               row == [now EXCEPT ![k] = [now[k] EXCEPT !.true_trigger_count = n]]
               x == [sc[s] EXCEPT !.reported = TRUE]
    <2>1. n \in 0 .. Max
      <3>1. now[k] \in Counter  BY <1>5
      <3>2. now[k].true_trigger_count \in 0 .. Max  BY <3>1 DEF Counter
      <3> QED  BY <3>2 DEF Least
    <2> HIDE DEF n
    <2>2. /\ row \in [Frag -> Counter]
          /\ \A f \in Frag :
                /\ row[f].trigger_count = now[f].trigger_count
                /\ row[f].true_trigger_count = IF f = k THEN n ELSE now[f].true_trigger_count
      BY <1>5, <2>1 DEF Counter
    <2>3. cnt' = [cnt EXCEPT ![c] = row] /\ sc' = [sc EXCEPT ![s] = x]
      BY <1>2, <1>5 DEF n
    <2>4. x \in CoreInfo /\ x.col = c /\ x.active /\ x.key = sc[s].key /\ x.reported
      BY <1>4 DEF CoreInfo
    <2> HIDE DEF row, x
    <2>5. /\ cnt' \in [Collector -> [Frag -> Counter]] /\ cnt'[c] = row
          /\ \A d \in Collector : d # c => cnt'[d] = cnt[d]
          /\ sc' \in [Scratch -> CoreInfo] /\ sc'[s] = x
          /\ \A t \in Scratch : t # s => sc'[t] = sc[t]
      BY <1>4, <2>2, <2>3, <2>4
    <2>6. \A f \in Frag :
             /\ cnt'[c][f].trigger_count = now[f].trigger_count
             /\ cnt'[c][f].true_trigger_count = IF f = k THEN Least(now[f].true_trigger_count + 1, Max)
                                                ELSE now[f].true_trigger_count
      BY <2>2, <2>5 DEF n
    <2> QED  BY <1>3, <1>5, <2>4, <2>5, <2>6
  <1>6. CASE ~found \/ sc[s].reported
    <2>1. cnt' = [cnt EXCEPT ![c] = now] /\ sc' = sc  BY <1>2, <1>6
    <2>2. /\ cnt' \in [Collector -> [Frag -> Counter]] /\ cnt'[c] = now
          /\ \A d \in Collector : d # c => cnt'[d] = cnt[d]
      BY <1>4, <2>1
    <2> QED  BY <1>3, <1>4, <1>6, <2>1, <2>2
  <1> QED  BY <1>5, <1>6

LEMMA ReportStep == ASSUME IInv, Report PROVE IInv'
  <1> USE CollectorAssumption
  <1>0. TypeOK /\ Stacked /\ Owing /\ Orphans  BY DEF IInv
  <1> DEFINE s == Top.s
             k == sc[Top.s].key
  <1>1. /\ Depth > 0 /\ record_final_report(s) /\ Moved(Top.at, TRUE, FALSE) /\ fb' = {}
        /\ nTrue' = IF s \in owed /\ Top.at = "program"
                    THEN [nTrue EXCEPT ![sc[s].col][sc[s].key] = @ + 1] ELSE nTrue
        /\ owed' = IF Top.at = "program" THEN owed \ {s} ELSE owed
        /\ UNCHANGED <<alive, nTrig, blurred, total>>
    BY DEF Report
  <1>2. /\ s \in Scratch /\ sc[s] \in CoreInfo /\ Depth \in DOMAIN stack /\ Top.at \in Places
    BY <1>0, <1>1, TopIs
  <1>3. PICK place \in Places : place = Top.at  BY <1>2
  <1>4. CASE ~sc[s].active
    <2>1. s \notin owed  BY <1>0, <1>4 DEF Owing
    <2>2. UNCHANGED <<cnt, pending, sc>>  BY <1>1, <1>4 DEF record_final_report
    <2>3. UNCHANGED <<alive, cnt, pending, sc, hist>>  BY <1>1, <2>1, <2>2 DEF hist
    <2> QED  BY <1>1, <1>3, <2>3, StandStep
  <1>5. CASE sc[s].active
    <2>1. Top.at = "program"
      <3>1. Top.at # "engine"  BY <1>0, <1>2, <1>5 DEF Stacked, Top
      <3> QED  BY <1>2, <3>1 DEF Places
    <2>2. alive \subseteq Collector /\ blurred \subseteq alive  BY <1>0 DEF TypeOK
    <2>3. PICK c \in alive : c = sc[s].col  BY <1>0, <1>2, <1>5 DEF Stacked, CoreInfo
    <2>4. c \in Collector  BY <2>2
    <2>5. /\ cnt[c] \in [Frag -> Counter] /\ pending[c] \in Seq(Key)
          /\ nTrig[c] \in [Frag -> Nat] /\ nTrue[c] \in [Frag -> Nat]
          /\ nTrig \in [Collector -> [Frag -> Nat]] /\ nTrue \in [Collector -> [Frag -> Nat]]
      BY <1>0, <2>4 DEF TypeOK
    <2>6. PICK now \in [Frag -> Counter] : now = Flushed(cnt[c], pending[c])
      BY <2>5, FlushedIs
    <2>7. /\ cnt' \in [Collector -> [Frag -> Counter]]
          /\ pending' \in [Collector -> Seq(Key)] /\ pending'[c] = <<>>
          /\ \A d \in Collector : d # c => cnt'[d] = cnt[d] /\ pending'[d] = pending[d]
          /\ sc' \in [Scratch -> CoreInfo] /\ \A t \in Scratch : t # s => sc'[t] = sc[t]
          /\ sc'[s].col = c /\ sc'[s].active /\ sc'[s].key = k
          /\ \/ /\ k \in Frag /\ counter_is_used(now[k]) /\ ~sc[s].reported
                /\ sc'[s].reported
                /\ \A f \in Frag :
                      /\ cnt'[c][f].trigger_count = now[f].trigger_count
                      /\ cnt'[c][f].true_trigger_count =
                            IF f = k THEN Least(now[f].true_trigger_count + 1, Max)
                            ELSE now[f].true_trigger_count
             \/ /\ k \notin Frag \/ ~counter_is_used(now[k]) \/ sc[s].reported
                /\ cnt'[c] = now /\ sc'[s].reported = sc[s].reported
      <3>1. PICK t \in Scratch : t = s  BY <1>2
      <3>2. record_final_report(t) /\ sc[t].col = c /\ sc[t].active
        BY <1>1, <1>5, <2>3, <3>1
      <3>3. TypeOK /\ now = Flushed(cnt[c], pending[c]) /\ now \in [Frag -> Counter]
        BY <1>0, <2>6
      <3>4. k = sc[t].key  BY <3>1
      <3>5. /\ cnt' \in [Collector -> [Frag -> Counter]]
            /\ pending' \in [Collector -> Seq(Key)] /\ pending'[c] = <<>>
            /\ \A d \in Collector : d # c => cnt'[d] = cnt[d] /\ pending'[d] = pending[d]
            /\ sc' \in [Scratch -> CoreInfo] /\ \A u \in Scratch : u # t => sc'[u] = sc[u]
            /\ sc'[t].col = c /\ sc'[t].active /\ sc'[t].key = sc[t].key
            /\ \/ /\ sc[t].key \in Frag /\ counter_is_used(now[sc[t].key]) /\ ~sc[t].reported
                  /\ sc'[t].reported
                  /\ \A f \in Frag :
                        /\ cnt'[c][f].trigger_count = now[f].trigger_count
                        /\ cnt'[c][f].true_trigger_count =
                              IF f = sc[t].key
                              THEN Least(now[f].true_trigger_count + 1, Max)
                              ELSE now[f].true_trigger_count
               \/ /\ sc[t].key \notin Frag \/ ~counter_is_used(now[sc[t].key]) \/ sc[t].reported
                  /\ cnt'[c] = now /\ sc'[t].reported = sc[t].reported
        BY ONLY <2>4, <3>2, <3>3, FinalReportIs
      <3> HIDE DEF s, k
      <3> QED  BY <3>1, <3>4, <3>5
    <2>8. owed' = owed \ {s} /\ UNCHANGED <<alive, nTrig, blurred, total>>  BY <1>1, <2>1
    <2>9. \A d \in Collector : Len(pending'[d]) <= BatchSize
      <3> SUFFICES ASSUME NEW d \in Collector PROVE Len(pending'[d]) <= BatchSize
        OBVIOUS
      <3>1. CASE d = c  BY <2>7, <3>1
      <3>2. CASE d # c  BY <1>0, <2>7, <3>2 DEF TypeOK
      <3> QED  BY <3>1, <3>2
    <2>10. c \notin blurred => Agree(cnt[c], pending[c], nTrig[c], nTrue[c])
      BY <2>3, AgreeIs DEF IInv
    <2>11. Owing'
      <3> SUFFICES ASSUME NEW t \in owed'
                   PROVE  /\ sc'[t].active /\ ~sc'[t].reported /\ sc'[t].key \in Frag
                          /\ nTrig[sc'[t].col][sc'[t].key] >= 1
        BY <2>8 DEF Owing
      <3>1. t \in owed /\ t # s /\ t \in Scratch  BY <1>0, <2>8 DEF TypeOK
      <3>2. sc'[t] = sc[t]  BY <2>7, <3>1
      <3> QED  BY <1>0, <3>1, <3>2 DEF Owing
    <2>12. CASE s \in owed
      <3>1. ~sc[s].reported /\ k \in Frag /\ nTrig[c][k] >= 1
        BY <1>0, <2>3, <2>12 DEF Owing
      <3> HIDE DEF s, k
      <3>2. nTrue' = [nTrue EXCEPT ![c] = [nTrue[c] EXCEPT ![k] = nTrue[c][k] + 1]]
        BY <1>1, <2>1, <2>3, <2>4, <2>5, <2>12 DEF s, k
      <3> DEFINE row == [nTrue[c] EXCEPT ![k] = nTrue[c][k] + 1]
      <3>3. /\ row \in [Frag -> Nat] /\ row[k] = nTrue[c][k] + 1
            /\ \A f \in Frag : f # k => row[f] = nTrue[c][f]
        BY <2>5, <3>1
      <3> HIDE DEF row
      <3>4. /\ nTrue' \in [Collector -> [Frag -> Nat]] /\ nTrue'[c] = row
            /\ \A d \in Collector : d # c => nTrue'[d] = nTrue[d]
        BY <2>4, <2>5, <3>2, <3>3 DEF row
      <3>5. ASSUME c \notin blurred
            PROVE  Agree(cnt'[c], pending'[c], nTrig[c], nTrue'[c]) /\ sc'[s].reported
        <4>1. \A f \in Frag : /\ now[f].trigger_count = Least(nTrig[c][f], Max)
                              /\ now[f].true_trigger_count = Least(nTrue[c][f], Max)
          BY <2>6, <2>10, <3>5 DEF Agree
        <4>2. counter_is_used(now[k])
          <5>1. now[k].trigger_count = Least(nTrig[c][k], Max) /\ nTrig[c][k] \in Nat
            BY <2>5, <3>1, <4>1
          <5>2. Least(nTrig[c][k], Max) >= 1  BY <3>1, <5>1 DEF Least
          <5> QED  BY <5>1, <5>2 DEF counter_is_used
        <4>3. /\ sc'[s].reported
              /\ \A f \in Frag :
                    /\ cnt'[c][f].trigger_count = now[f].trigger_count
                    /\ cnt'[c][f].true_trigger_count =
                          IF f = k THEN Least(now[f].true_trigger_count + 1, Max)
                          ELSE now[f].true_trigger_count
          BY <2>7, <3>1, <4>2 DEF s, k
        <4>4. ASSUME NEW f \in Frag
              PROVE  /\ cnt'[c][f].trigger_count = Least(nTrig[c][f], Max)
                     /\ cnt'[c][f].true_trigger_count = Least(row[f], Max)
          <5>1. nTrue[c][f] \in Nat  BY <2>5
          <5>2. Least(Least(nTrue[c][f], Max) + 1, Max) = Least(nTrue[c][f] + 1, Max)
            BY <5>1 DEF Least
          <5>3. CASE f = k  BY <3>3, <4>1, <4>3, <5>2, <5>3
          <5>4. CASE f # k  BY <3>3, <4>1, <4>3, <5>4
          <5> QED  BY <5>3, <5>4
        <4>5. cnt'[c] \in [Frag -> Counter]  BY <2>4, <2>7
        <4>6. Agree(cnt'[c], <<>>, nTrig[c], row)  BY <4>4, <4>5, FlushedEmpty DEF Agree
        <4> QED  BY <2>7, <3>4, <4>3, <4>6
      <3>6. CountsExact'
        <4> SUFFICES ASSUME NEW d \in alive \ blurred
                     PROVE  Agree(cnt'[d], pending'[d], nTrig[d], nTrue'[d])
          BY <2>8 DEF CountsExact, Agree
        <4>1. CASE d = c  BY <3>5, <4>1
        <4>2. CASE d # c
          <5>1. d \in Collector  BY <2>2
          <5>2. Agree(cnt[d], pending[d], nTrig[d], nTrue[d])  BY AgreeIs DEF IInv
          <5> QED  BY <2>7, <3>4, <4>2, <5>1, <5>2
        <4> QED  BY <4>1, <4>2
      <3>7. Orphans'
        <4> SUFFICES ASSUME NEW t \in Scratch,
                            sc'[t].active, ~sc'[t].reported, t \notin owed', sc'[t].key \in Frag,
                            sc'[t].col \notin blurred
                     PROVE  nTrig[sc'[t].col][sc'[t].key] = 0 /\ nTrue'[sc'[t].col][sc'[t].key] = 0
          BY <2>8 DEF Orphans, Orphan
        <4>1. t # s
          <5> SUFFICES ASSUME t = s PROVE FALSE
            OBVIOUS
          <5>1. c \notin blurred  BY <2>7 DEF s
          <5> QED  BY <3>5, <5>1
        <4>2. sc'[t] = sc[t] /\ t \notin owed  BY <2>7, <2>8, <4>1 DEF s
        <4>3. nTrig[sc[t].col][sc[t].key] = 0 /\ nTrue[sc[t].col][sc[t].key] = 0
          BY <1>0, <4>2 DEF Orphans, Orphan
        <4>4. sc[t].col \in Collector  BY <1>0, <2>2, <4>2 DEF Stacked, TypeOK
        <4>5. CASE sc[t].col # c  BY <3>4, <4>2, <4>3, <4>4, <4>5
        <4>6. CASE sc[t].col = c
          <5>1. sc[t].key # k /\ sc[t].key \in Frag  BY <3>1, <4>2, <4>3, <4>6
          <5> QED  BY <3>3, <3>4, <4>2, <4>3, <4>6, <5>1
        <4> QED  BY <4>5, <4>6
      <3>8. QED
        <4>1. /\ sc'[Top.s].col = sc[Top.s].col
              /\ sc'[Top.s].active => sc'[Top.s].col # NoCollector
              /\ \A t \in Scratch : t # Top.s => sc'[t] = sc[t]
          BY <2>3, <2>4, <2>7 DEF s
        <4>2. /\ owed' \subseteq Scratch /\ total' \in Nat /\ blurred' \subseteq alive
              /\ \A t \in Scratch : t # Top.s => (t \in owed' <=> t \in owed)
              /\ \A d \in Collector : d # sc[Top.s].col => pending'[d] = pending[d]
              /\ nTrig' \in [Collector -> [Frag -> Nat]] /\ nTrue' \in [Collector -> [Frag -> Nat]]
              /\ UNCHANGED alive
          BY <1>0, <2>3, <2>5, <2>7, <2>8, <3>4 DEF TypeOK, s
        <4>3. place # "engine" /\ Moved(place, TRUE, FALSE)  BY <1>1, <1>3, <2>1
        <4> QED
          BY <1>1, <2>7, <2>9, <2>11, <3>6, <3>7, <4>1, <4>2, <4>3, MovedStep
    <2>13. CASE s \notin owed
      <3>1. nTrue' = nTrue /\ owed' = owed  BY <1>1, <2>8, <2>13
      <3> HIDE DEF s, k
      <3>2. ASSUME c \notin blurred
            PROVE  cnt'[c] = now /\ sc'[s].reported = sc[s].reported
        <4>1. \A f \in Frag : /\ now[f].trigger_count = Least(nTrig[c][f], Max)
                              /\ now[f].true_trigger_count = Least(nTrue[c][f], Max)
          BY <2>6, <2>10, <3>2 DEF Agree
        <4>2. k \in Frag /\ ~sc[s].reported => ~counter_is_used(now[k])
          <5> SUFFICES ASSUME k \in Frag, ~sc[s].reported PROVE ~counter_is_used(now[k])
            OBVIOUS
          <5>1. nTrig[c][k] = 0 /\ nTrue[c][k] = 0
            BY <1>0, <1>2, <1>5, <2>3, <2>13, <3>2 DEF Orphans, Orphan, s, k
          <5>2. Least(0, Max) = 0  BY DEF Least
          <5> QED  BY <4>1, <5>1, <5>2 DEF counter_is_used
        <4> QED  BY <2>7, <4>2
      <3>3. CountsExact'
        <4> SUFFICES ASSUME NEW d \in alive \ blurred
                     PROVE  Agree(cnt'[d], pending'[d], nTrig[d], nTrue[d])
          BY <2>8, <3>1 DEF CountsExact, Agree
        <4>1. CASE d = c
          <5>1. Agree(now, <<>>, nTrig[c], nTrue[c])
            BY <2>5, <2>6, <2>10, <4>1, AgreeFlushed
          <5> QED  BY <2>7, <3>2, <4>1, <5>1
        <4>2. CASE d # c
          <5>1. d \in Collector  BY <2>2
          <5>2. Agree(cnt[d], pending[d], nTrig[d], nTrue[d])  BY AgreeIs DEF IInv
          <5> QED  BY <2>7, <4>2, <5>1, <5>2
        <4> QED  BY <4>1, <4>2
      <3>4. Orphans'
        <4> SUFFICES ASSUME NEW t \in Scratch,
                            sc'[t].active, ~sc'[t].reported, t \notin owed, sc'[t].key \in Frag,
                            sc'[t].col \notin blurred
                     PROVE  nTrig[sc'[t].col][sc'[t].key] = 0 /\ nTrue[sc'[t].col][sc'[t].key] = 0
          BY <2>8, <3>1 DEF Orphans, Orphan
        <4>1. CASE t # s
          <5>1. sc'[t] = sc[t]  BY <2>7, <4>1 DEF s
          <5> QED  BY <1>0, <5>1 DEF Orphans, Orphan
        <4>2. CASE t = s
          <5>1. c \notin blurred  BY <2>7, <4>2 DEF s
          <5>2. /\ ~sc[s].reported /\ sc[s].active /\ sc[s].key = sc'[s].key
                /\ sc[s].col = sc'[s].col
            BY <1>5, <2>3, <2>7, <3>2, <4>2, <5>1 DEF s, k
          <5> QED  BY <1>0, <4>2, <5>2 DEF Orphans, Orphan
        <4> QED  BY <4>1, <4>2
      <3>5. QED
        <4>1. /\ sc'[Top.s].col = sc[Top.s].col
              /\ sc'[Top.s].active => sc'[Top.s].col # NoCollector
              /\ \A t \in Scratch : t # Top.s => sc'[t] = sc[t]
          BY <2>3, <2>4, <2>7 DEF s
        <4>2. /\ owed' \subseteq Scratch /\ total' \in Nat /\ blurred' \subseteq alive
              /\ \A t \in Scratch : t # Top.s => (t \in owed' <=> t \in owed)
              /\ \A d \in Collector : d # sc[Top.s].col => pending'[d] = pending[d]
              /\ nTrig' \in [Collector -> [Frag -> Nat]] /\ nTrue' \in [Collector -> [Frag -> Nat]]
              /\ UNCHANGED alive
          BY <1>0, <2>3, <2>5, <2>7, <2>8, <3>1 DEF TypeOK, s
        <4>3. place # "engine" /\ Moved(place, TRUE, FALSE)  BY <1>1, <1>3, <2>1
        <4> QED
          BY <1>1, <2>7, <2>9, <2>11, <3>3, <3>4, <4>1, <4>2, <4>3, MovedStep
    <2> QED  BY <2>12, <2>13
  <1> QED  BY <1>4, <1>5

----------------------------------------------------------------------------
(* A scan begins and returns *)

LEMMA ScanBeginStep ==
    ASSUME IInv, NEW s \in Scratch, NEW c \in Collector \cup {NoCollector}, ScanBegin(s, c)
    PROVE  IInv'
  <1> USE CollectorAssumption
  <1> DEFINE x == [Quiet EXCEPT !.col = c]
             frame == [s |-> s, at |-> "engine", cb |-> FALSE, halt |-> FALSE]
  <1>0. TypeOK /\ Stacked /\ Owing /\ Orphans  BY DEF IInv
  <1>1. /\ s \in Free /\ c \in alive \cup {NoCollector} /\ fb' = {}
        /\ sc' = [sc EXCEPT ![s] = x] /\ stack' = Append(stack, frame)
        /\ UNCHANGED <<alive, cnt, pending, nTrig, nTrue, owed, blurred, total>>
    BY DEF ScanBegin, hist
  <1>2. x \in CoreInfo /\ x.col = c /\ ~x.active  BY <1>1 DEF CoreInfo, Quiet
  <1>3. frame \in Frame /\ frame.s = s  BY DEF Frame, Places
  <1> HIDE DEF x, frame
  <1>4. sc \in [Scratch -> CoreInfo] /\ stack \in Seq(Frame)
    BY <1>0 DEF TypeOK, CoreInfo, Frame
  <1>5. /\ sc' \in [Scratch -> CoreInfo] /\ sc'[s] = x
        /\ \A t \in Scratch : t # s => sc'[t] = sc[t]
    BY <1>1, <1>2, <1>4
  <1>6. ~Running(s) /\ \A i \in DOMAIN stack : stack[i].s # s  BY <1>1 DEF Free, Running
  <1>7. s \notin owed /\ ~sc[s].active  BY <1>0, <1>6 DEF Stacked, Quiet
  <1> DEFINE n == Len(stack) + 1
  <1>8. /\ stack' \in Seq(Frame) /\ DOMAIN stack' = DOMAIN stack \cup {n}
        /\ n \notin DOMAIN stack /\ stack'[n] = frame
        /\ \A i \in DOMAIN stack : stack'[i] = stack[i]
    BY <1>1, <1>3, <1>4
  <1> HIDE DEF n
  <1>9. \A t \in Scratch : t # s => (Running(t)' <=> Running(t))
    <2> SUFFICES ASSUME NEW t \in Scratch, t # s PROVE Running(t)' <=> Running(t)
      OBVIOUS
    <2>1. Running(t)' <=> \E i \in DOMAIN stack' : stack'[i].s = t  BY DEF Running
    <2> QED  BY <1>3, <1>8, <2>1 DEF Running
  <1>10. Running(s)'
    <2>1. Running(s)' <=> \E i \in DOMAIN stack' : stack'[i].s = s  BY DEF Running
    <2> QED  BY <1>3, <1>8, <2>1
  <1>11. TypeOK'
    <2>1. sc' \in [Scratch -> [col : alive' \cup {NoCollector}, active : BOOLEAN,
                               reported : BOOLEAN, key : Key \cup {0}]]
      BY <1>1, <1>5 DEF CoreInfo
    <2>2. stack' \in Seq([s : Scratch, at : Places, cb : BOOLEAN, halt : BOOLEAN])
      BY <1>8 DEF Frame
    <2> QED  BY <1>0, <1>1, <2>1, <2>2, NoFeedback DEF TypeOK
  <1>12. Stacked'
    <2>1. \A i, j \in DOMAIN stack' : stack'[i].s = stack'[j].s => i = j
      BY <1>0, <1>3, <1>6, <1>8 DEF Stacked
    <2>2. \A t \in Scratch : ~Running(t)' => sc'[t] = Quiet /\ t \notin owed'
      <3> SUFFICES ASSUME NEW t \in Scratch, ~Running(t)' PROVE sc'[t] = Quiet /\ t \notin owed
        BY <1>1
      <3>1. t # s  BY <1>10
      <3>2. ~Running(t) /\ sc'[t] = sc[t]  BY <1>5, <1>9, <3>1
      <3> QED  BY <1>0, <3>2 DEF Stacked
    <2>3. \A i \in DOMAIN stack' :
             stack'[i].at = "engine" => ~sc'[stack'[i].s].active /\ stack'[i].s \notin owed'
      <3> SUFFICES ASSUME NEW i \in DOMAIN stack', stack'[i].at = "engine"
                   PROVE  ~sc'[stack'[i].s].active /\ stack'[i].s \notin owed
        BY <1>1
      <3>1. CASE i = n  BY <1>2, <1>3, <1>5, <1>7, <1>8, <3>1
      <3>2. CASE i # n
        <4>1. i \in DOMAIN stack /\ stack'[i] = stack[i]  BY <1>8, <3>2
        <4>2. stack[i].s # s /\ stack[i].s \in Scratch  BY <1>0, <1>6, <4>1, ScratchIs
        <4>3. sc'[stack[i].s] = sc[stack[i].s]  BY <1>5, <4>2
        <4> QED  BY <1>0, <4>1, <4>3 DEF Stacked
      <3> QED  BY <3>1, <3>2
    <2>4. \A t \in Scratch : sc'[t].active => sc'[t].col # NoCollector
      BY <1>0, <1>2, <1>5 DEF Stacked
    <2>5. \A t : Running(t)' <=> \E i \in DOMAIN stack' : stack'[i].s = t  BY DEF Running
    <2> QED  BY <2>1, <2>2, <2>3, <2>4, <2>5 DEF Stacked
  <1>13. Owing'
    <2> SUFFICES ASSUME NEW t \in owed
                 PROVE  /\ sc'[t].active /\ ~sc'[t].reported /\ sc'[t].key \in Frag
                        /\ nTrig[sc'[t].col][sc'[t].key] >= 1
      BY <1>1 DEF Owing
    <2>1. t # s /\ t \in Scratch  BY <1>0, <1>7 DEF TypeOK
    <2>2. sc'[t] = sc[t]  BY <1>5, <2>1
    <2> QED  BY <1>0, <2>2 DEF Owing
  <1>14. Orphans'
    <2> SUFFICES ASSUME NEW t \in Scratch,
                        sc'[t].active, ~sc'[t].reported, t \notin owed, sc'[t].key \in Frag,
                        sc'[t].col \notin blurred
                 PROVE  nTrig[sc'[t].col][sc'[t].key] = 0 /\ nTrue[sc'[t].col][sc'[t].key] = 0
      BY <1>1 DEF Orphans, Orphan
    <2>1. t # s  BY <1>2, <1>5
    <2>2. sc'[t] = sc[t]  BY <1>5, <2>1
    <2> QED  BY <1>0, <2>2 DEF Orphans, Orphan
  <1>15. CountsExact'  BY <1>1 DEF IInv, CountsExact
  <1>16. CommittedAtReturn'
    <2> SUFFICES ASSUME NEW d \in alive, UsedBy(d)' = {} PROVE pending[d] = <<>>
      BY <1>1 DEF CommittedAtReturn
    <2>1. UsedBy(d)' = {t \in Scratch : Running(t)' /\ sc'[t].col = d}
      BY DEF UsedBy, Free, Running
    <2>2. UsedBy(d) = {}
      <3> SUFFICES ASSUME NEW t \in Scratch, Running(t), sc[t].col = d PROVE FALSE
        BY UsedIs
      <3>1. t # s  BY <1>6
      <3>2. Running(t)' /\ sc'[t].col = d  BY <1>5, <1>9, <3>1
      <3> QED  BY <2>1, <3>2
    <2> QED  BY <2>2 DEF IInv, CommittedAtReturn
  <1> QED  BY <1>1, <1>11, <1>12, <1>13, <1>14, <1>15, <1>16, NoFeedback DEF IInv

LEMMA ScanEndStep == ASSUME IInv, ScanEnd PROVE IInv'
  <1> USE CollectorAssumption
  <1> DEFINE s == Top.s
  <1>0. TypeOK /\ Stacked /\ Owing /\ Orphans  BY DEF IInv
  <1>1. /\ Depth > 0 /\ Top.at = "engine" /\ fb' = {}
        /\ IF sc[s].col # NoCollector THEN Flush(sc[s].col) ELSE UNCHANGED <<cnt, pending>>
        /\ stack' = SubSeq(stack, 1, Depth - 1)
        /\ sc' = [sc EXCEPT ![s] = Quiet]
        /\ UNCHANGED <<alive, nTrig, nTrue, owed, blurred, total>>
    BY DEF ScanEnd, Engine, Records, Verdict, hist
  <1>2. /\ s \in Scratch /\ sc[s] \in CoreInfo /\ Depth \in DOMAIN stack
        /\ DOMAIN stack = 1 .. Depth /\ Depth \in Nat
    BY <1>0, <1>1, TopIs
  <1>3. ~sc[s].active /\ s \notin owed  BY <1>0, <1>1, <1>2 DEF Stacked, Top
  <1>4. stack[Depth].s = s  BY DEF Top
  <1>5. Quiet \in CoreInfo /\ ~Quiet.active /\ Quiet.col = NoCollector
    BY DEF CoreInfo, Quiet
  <1>6. sc \in [Scratch -> CoreInfo] /\ stack \in Seq(Frame) /\ alive \subseteq Collector
    BY <1>0 DEF TypeOK, CoreInfo, Frame
  <1> HIDE DEF s
  <1>7. /\ sc' \in [Scratch -> CoreInfo] /\ sc'[s] = Quiet
        /\ \A t \in Scratch : t # s => sc'[t] = sc[t]
    BY <1>1, <1>2, <1>5, <1>6
  <1>8. /\ stack' \in Seq(Frame) /\ DOMAIN stack' = DOMAIN stack \ {Depth}
        /\ \A i \in DOMAIN stack' : stack'[i] = stack[i]
    <2>1. PICK n \in Nat : n = Depth /\ n > 0  BY <1>1, <1>2
    <2>2. stack' = SubSeq(stack, 1, n - 1) /\ DOMAIN stack = 1 .. n /\ Len(stack) = n
      BY <1>1, <1>2, <2>1 DEF Depth
    <2>3. /\ stack' \in Seq(Frame) /\ DOMAIN stack' = 1 .. (n - 1)
          /\ \A i \in 1 .. (n - 1) : stack'[i] = stack[i]
      BY <1>6, <2>1, <2>2
    <2> QED  BY <2>1, <2>2, <2>3
  <1>9. \A t : Running(t)' <=> \E i \in DOMAIN stack' : stack'[i].s = t  BY DEF Running
  <1>10. \A t \in Scratch : Running(t)' <=> Running(t) /\ t # s
    <2> SUFFICES ASSUME NEW t \in Scratch PROVE Running(t)' <=> Running(t) /\ t # s
      OBVIOUS
    <2>1. ASSUME Running(t)' PROVE Running(t) /\ t # s
      <3>1. PICK i \in DOMAIN stack' : stack'[i].s = t  BY <1>9, <2>1
      <3>2. i \in DOMAIN stack /\ i # Depth /\ stack[i].s = t  BY <1>8, <3>1
      <3> QED  BY <1>0, <1>2, <1>4, <3>2 DEF Stacked, Running
    <2>2. ASSUME Running(t), t # s PROVE Running(t)'
      <3>1. PICK i \in DOMAIN stack : stack[i].s = t  BY <2>2 DEF Running
      <3>2. i \in DOMAIN stack'  BY <1>4, <1>8, <2>2, <3>1
      <3> QED  BY <1>8, <1>9, <3>1, <3>2
    <2> QED  BY <2>1, <2>2
  <1>11. /\ cnt' \in [Collector -> [Frag -> Counter]] /\ pending' \in [Collector -> Seq(Key)]
         /\ \A d \in Collector : d = sc[s].col => /\ cnt'[d] = Flushed(cnt[d], pending[d])
                                                  /\ pending'[d] = <<>>
         /\ \A d \in Collector : d # sc[s].col => cnt'[d] = cnt[d] /\ pending'[d] = pending[d]
    <2>1. CASE sc[s].col = NoCollector
      <3>1. UNCHANGED <<cnt, pending>>  BY <1>1, <2>1
      <3> QED  BY <1>0, <2>1, <3>1 DEF TypeOK
    <2>2. CASE sc[s].col # NoCollector
      <3>1. sc[s].col \in Collector  BY <1>2, <1>6, <2>2 DEF CoreInfo
      <3>2. PICK c \in Collector : c = sc[s].col  BY <3>1
      <3>3. Flush(c)  BY <1>1, <2>2, <3>2
      <3>4. /\ cnt' \in [Collector -> [Frag -> Counter]]
            /\ pending' \in [Collector -> Seq(Key)] /\ pending'[c] = <<>>
            /\ cnt'[c] = Flushed(cnt[c], pending[c])
            /\ \A d \in Collector : d # c => cnt'[d] = cnt[d] /\ pending'[d] = pending[d]
        BY <1>0, <3>3, FlushIs
      <3> QED  BY <3>2, <3>4
    <2> QED  BY <2>1, <2>2
  <1>12. TypeOK'
    <2>1. sc' \in [Scratch -> [col : alive' \cup {NoCollector}, active : BOOLEAN,
                               reported : BOOLEAN, key : Key \cup {0}]]
      BY <1>1, <1>7 DEF CoreInfo
    <2>2. stack' \in Seq([s : Scratch, at : Places, cb : BOOLEAN, halt : BOOLEAN])
      BY <1>8 DEF Frame
    <2>3. \A d \in Collector : Len(pending'[d]) <= BatchSize
      <3> SUFFICES ASSUME NEW d \in Collector PROVE Len(pending'[d]) <= BatchSize
        OBVIOUS
      <3>1. CASE d = sc[s].col
        <4>1. pending'[d] = <<>>  BY <1>11, <3>1
        <4> QED  BY <4>1
      <3>2. CASE d # sc[s].col  BY <1>0, <1>11, <3>2 DEF TypeOK
      <3> QED  BY <3>1, <3>2
    <2> QED  BY <1>0, <1>1, <1>11, <2>1, <2>2, <2>3, NoFeedback DEF TypeOK
  <1>13. Stacked'
    <2>1. \A i, j \in DOMAIN stack' : stack'[i].s = stack'[j].s => i = j
      BY <1>0, <1>8 DEF Stacked
    <2>2. \A t \in Scratch : ~Running(t)' => sc'[t] = Quiet /\ t \notin owed'
      <3> SUFFICES ASSUME NEW t \in Scratch, ~Running(t)' PROVE sc'[t] = Quiet /\ t \notin owed
        BY <1>1
      <3>1. CASE t = s  BY <1>3, <1>7, <3>1
      <3>2. CASE t # s
        <4>1. ~Running(t) /\ sc'[t] = sc[t]  BY <1>7, <1>10, <3>2
        <4> QED  BY <1>0, <4>1 DEF Stacked
      <3> QED  BY <3>1, <3>2
    <2>3. \A i \in DOMAIN stack' :
             stack'[i].at = "engine" => ~sc'[stack'[i].s].active /\ stack'[i].s \notin owed'
      <3> SUFFICES ASSUME NEW i \in DOMAIN stack', stack'[i].at = "engine"
                   PROVE  ~sc'[stack'[i].s].active /\ stack'[i].s \notin owed
        BY <1>1
      <3>1. i \in DOMAIN stack /\ i # Depth /\ stack'[i] = stack[i]  BY <1>8
      <3>2. stack[i].s # s /\ stack[i].s \in Scratch
        BY <1>0, <1>2, <1>4, <3>1, ScratchIs DEF Stacked
      <3>3. sc'[stack[i].s] = sc[stack[i].s]  BY <1>7, <3>2
      <3> QED  BY <1>0, <3>1, <3>3 DEF Stacked
    <2>4. \A t \in Scratch : sc'[t].active => sc'[t].col # NoCollector
      BY <1>0, <1>5, <1>7 DEF Stacked
    <2> QED  BY <1>9, <2>1, <2>2, <2>3, <2>4 DEF Stacked
  <1>14. Owing'
    <2> SUFFICES ASSUME NEW t \in owed
                 PROVE  /\ sc'[t].active /\ ~sc'[t].reported /\ sc'[t].key \in Frag
                        /\ nTrig[sc'[t].col][sc'[t].key] >= 1
      BY <1>1 DEF Owing
    <2>1. t # s /\ t \in Scratch  BY <1>0, <1>3 DEF TypeOK
    <2>2. sc'[t] = sc[t]  BY <1>7, <2>1
    <2> QED  BY <1>0, <2>2 DEF Owing
  <1>15. Orphans'
    <2> SUFFICES ASSUME NEW t \in Scratch,
                        sc'[t].active, ~sc'[t].reported, t \notin owed, sc'[t].key \in Frag,
                        sc'[t].col \notin blurred
                 PROVE  nTrig[sc'[t].col][sc'[t].key] = 0 /\ nTrue[sc'[t].col][sc'[t].key] = 0
      BY <1>1 DEF Orphans, Orphan
    <2>1. t # s  BY <1>5, <1>7
    <2>2. sc'[t] = sc[t]  BY <1>7, <2>1
    <2> QED  BY <1>0, <2>2 DEF Orphans, Orphan
  <1>16. CountsExact'
    <2> SUFFICES ASSUME NEW d \in alive \ blurred
                 PROVE  Agree(cnt'[d], pending'[d], nTrig[d], nTrue[d])
      BY <1>1 DEF CountsExact, Agree
    <2>1. d \in Collector /\ cnt[d] \in [Frag -> Counter] /\ pending[d] \in Seq(Key)
      BY <1>0, <1>6 DEF TypeOK
    <2>2. Agree(cnt[d], pending[d], nTrig[d], nTrue[d])  BY AgreeIs DEF IInv
    <2>3. CASE d = sc[s].col
      <3>1. Agree(Flushed(cnt[d], pending[d]), <<>>, nTrig[d], nTrue[d])
        BY <2>1, <2>2, AgreeFlushed
      <3>2. cnt'[d] = Flushed(cnt[d], pending[d]) /\ pending'[d] = <<>>
        BY <1>11, <2>1, <2>3
      <3> QED  BY <3>1, <3>2
    <2>4. CASE d # sc[s].col  BY <1>11, <2>1, <2>2, <2>4
    <2> QED  BY <2>3, <2>4
  <1>17. CommittedAtReturn'
    <2> SUFFICES ASSUME NEW d \in alive, UsedBy(d)' = {} PROVE pending'[d] = <<>>
      BY <1>1 DEF CommittedAtReturn
    <2>0. d \in Collector  BY <1>6
    <2>1. CASE d = sc[s].col  BY <1>11, <2>0, <2>1
    <2>2. CASE d # sc[s].col
      <3>1. UsedBy(d)' = {t \in Scratch : Running(t)' /\ sc'[t].col = d}
        BY DEF UsedBy, Free, Running
      <3>2. UsedBy(d) = {}
        <4> SUFFICES ASSUME NEW t \in Scratch, Running(t), sc[t].col = d PROVE FALSE
          BY UsedIs
        <4>1. t # s  BY <2>2
        <4>2. Running(t)' /\ sc'[t].col = d  BY <1>7, <1>10, <4>1
        <4> QED  BY <3>1, <4>2
      <3>3. pending[d] = <<>>  BY <3>2 DEF IInv, CommittedAtReturn
      <3> QED  BY <1>11, <2>0, <2>2, <3>3
    <2> QED  BY <2>1, <2>2
  <1> QED  BY <1>1, <1>12, <1>13, <1>14, <1>15, <1>16, <1>17, NoFeedback DEF IInv

----------------------------------------------------------------------------
(* The theorems *)

LEMMA NextStep == ASSUME IInv, [Next]_vars PROVE IInv'
  <1>1. ASSUME NEW c \in Collector, hs_fp_collector_create(c) PROVE IInv'
    BY <1>1, CreateStep
  <1>2. ASSUME NEW c \in Collector, hs_fp_collector_reset(c) PROVE IInv'
    BY <1>2, ResetStep
  <1>3. ASSUME NEW c \in Collector, hs_fp_collector_free(c) PROVE IInv'
    BY <1>3, FreeStep
  <1>4. ASSUME NEW a \in Collector, NEW b \in Collector, NEW out \in Collector,
               hs_fp_collector_merge(a, b, out)
        PROVE  IInv'
    BY <1>4, MergeStep
  <1>5. ASSUME NEW c \in Collector, NEW p \in Params, hs_fp_collector_to_feedback(c, p)
        PROVE  IInv'
    BY <1>5, ToFeedbackStep
  <1>6. ASSUME NEW s \in Scratch, NEW c \in Collector \cup {NoCollector}, ScanBegin(s, c)
        PROVE  IInv'
    BY <1>6, ScanBeginStep
  <1>7. ASSUME NEW k \in Key, begin_trigger(k) PROVE IInv'
    BY <1>7, BeginTriggerStep
  <1>8. CASE end_trigger  BY <1>8, EndTriggerStep
  <1>9. CASE Report  BY <1>9, ReportStep
  <1>10. CASE LilyReport  BY <1>10, LilyReportStep
  <1>11. ASSUME NEW h \in BOOLEAN, CallbackReturns(h) PROVE IInv'
    BY <1>11, CallbackReturnsStep
  <1>12. CASE ScanEnd  BY <1>12, ScanEndStep
  <1>13. CASE UNCHANGED vars
    <2>1. UNCHANGED <<alive, cnt, pending, sc, stack, fb, nTrig, nTrue, owed, blurred, total>>
      BY <1>13 DEF vars, hist
    <2>2. TypeOK'  BY <2>1 DEF IInv, TypeOK
    <2>3. Stacked'  BY <2>1 DEF IInv, Stacked, Running
    <2>4. Owing' /\ Orphans'  BY <2>1 DEF IInv, Owing, Orphans, Orphan
    <2>5. CountsExact' /\ CommittedAtReturn'
      BY <2>1 DEF IInv, CountsExact, CommittedAtReturn, UsedBy, Free
    <2>6. FeedbackJustified'  BY <2>1 DEF IInv, FeedbackJustified
    <2> QED  BY <2>2, <2>3, <2>4, <2>5, <2>6 DEF IInv
  <1> QED
    BY <1>1, <1>2, <1>3, <1>4, <1>5, <1>6, <1>7, <1>8, <1>9, <1>10, <1>11, <1>12, <1>13
    DEF Next

\* The inductive invariant holds in every reachable state.
THEOREM FpCollectorInvariant == Spec => []IInv
  BY InitIInv, NextStep, PTL DEF Spec

\* The counters with the queued triggers are exact, up to the counter's
\* maximum, for any nesting of scans, resets and merges and any batch size
\* (hs_fp_collector_begin_trigger, record_final_report and flush).
THEOREM FpCountsExact == Spec => []CountsExact
  <1>1. IInv => CountsExact  BY DEF IInv
  <1> QED  BY <1>1, FpCollectorInvariant, PTL

\* No trigger stays queued once no scan uses the collector: every
\* *_with_collector call commits what it queued.
THEOREM FpCommitted == Spec => []CommittedAtReturn
  <1>1. IInv => CommittedAtReturn  BY DEF IInv
  <1> QED  BY <1>1, FpCollectorInvariant, PTL

\* What hs_fp_collector_to_feedback selects really did pass the thresholds.
THEOREM FpFeedbackJustified == Spec => []FeedbackJustified
  <1>1. IInv => FeedbackJustified  BY DEF IInv
  <1> QED  BY <1>1, FpCollectorInvariant, PTL

----------------------------------------------------------------------------
(* The selection keeps the worst fragments.  The total of the false        *)
(* positives is a recursive function on sets; that it exists and is not 0  *)
(* when a fragment has a false positive is by induction over the size of   *)
(* the set.                                                                *)

\* The order induction is over, as a set of pairs.
Below == {ss \in Nat \X Nat : ss[1] < ss[2]}

\* Induction, over a set that stands for the predicate.
LEMMA Climb ==
    ASSUME NEW S, 0 \in S, \A n \in Nat : n \in S => n + 1 \in S
    PROVE  Nat \subseteq S
  <1> SUFFICES ASSUME Nat \ S # {} PROVE FALSE  OBVIOUS
  <1>1. IsWellFoundedOn(Below, Nat)
    BY NatLessThanWellFounded, Zenon DEF OpToRel, Below
  <1> DEFINE T == Nat \ S
  <1>2. T \subseteq Nat /\ T # {}  OBVIOUS
  <1> HIDE DEF T
  <1>3. PICK x \in T : \A y \in T : ~ (<<y, x>> \in Below)
    BY <1>1, <1>2, WFMin, Zenon
  <1> USE DEF T
  <1>4. x \in Nat /\ x # 0  BY <1>3
  <1>5. x - 1 \in Nat /\ x = (x - 1) + 1  BY <1>4
  <1>6. x - 1 \in T  BY <1>3, <1>5
  <1>7. <<x - 1, x>> \in Nat \X Nat /\ <<x - 1, x>>[1] < <<x - 1, x>>[2]
    BY <1>4, <1>5
  <1> QED  BY <1>3, <1>6, <1>7 DEF Below

\* One step of the sum: a fragment is added to the sum g of the others.
Add(x, g, S) ==
    IF S = {} THEN 0
    ELSE LET f == CHOOSE y \in S : TRUE IN sat_add_u64a(fp(x, f), g[S \ {f}])

Small(n) == {S \in SUBSET Frag : Cardinality(S) <= n}
SumTo(x, n, g) == g = [S \in Small(n) |-> Add(x, g, S)]

LEMMA SmallIs ==
    ASSUME NEW S \in SUBSET Frag
    PROVE  /\ IsFiniteSet(S) /\ Cardinality(S) \in Nat /\ (Cardinality(S) = 0 <=> S = {})
           /\ \A f \in S : Cardinality(S \ {f}) = Cardinality(S) - 1
  BY CollectorAssumption, FS_Subset, FS_CardinalityType, FS_EmptySet, FS_RemoveElement

LEMMA SumToExists == ASSUME NEW x PROVE \A n \in Nat : \E g : SumTo(x, n, g)
  <1> DEFINE P == {n \in Nat : \E g : SumTo(x, n, g)}
  <1>1. 0 \in P
    <2> DEFINE g == [S \in Small(0) |-> 0]
    <2>1. \A S \in Small(0) : S = {}  BY SmallIs DEF Small
    <2>2. \A S \in Small(0) : Add(x, g, S) = 0  BY <2>1 DEF Add
    <2>3. g = [S \in Small(0) |-> Add(x, g, S)]  BY <2>2
    <2>4. SumTo(x, 0, g)  BY <2>3 DEF SumTo
    <2> QED  BY <2>4
  <1>2. ASSUME NEW n \in Nat, n \in P PROVE n + 1 \in P
    <2>1. PICK g : SumTo(x, n, g)  BY <1>2
    <2> DEFINE h == [S \in Small(n + 1) |-> Add(x, g, S)]
    <2>2. ASSUME NEW S \in Small(n + 1), S # {}
          PROVE  LET f == CHOOSE y \in S : TRUE IN
                 h[S \ {f}] = g[S \ {f}]
      <3> DEFINE f == CHOOSE y \in S : TRUE
      <3>1. f \in S /\ S \in SUBSET Frag /\ Cardinality(S) <= n + 1  BY <2>2 DEF Small
      <3>2. S \ {f} \in SUBSET Frag /\ Cardinality(S \ {f}) <= n
            /\ Cardinality(S \ {f}) \in Nat
        BY <3>1, SmallIs
      <3>3. S \ {f} \in Small(n) /\ S \ {f} \in Small(n + 1)  BY <3>2 DEF Small
      <3>4. h[S \ {f}] = Add(x, g, S \ {f})  BY <3>3
      <3>5. g[S \ {f}] = Add(x, g, S \ {f})  BY <2>1, <3>3 DEF SumTo
      <3> QED  BY <3>4, <3>5
    <2>3. \A S \in Small(n + 1) : Add(x, h, S) = Add(x, g, S)
      <3> SUFFICES ASSUME NEW S \in Small(n + 1) PROVE Add(x, h, S) = Add(x, g, S)
        OBVIOUS
      <3>1. CASE S = {}  BY <3>1 DEF Add
      <3>2. CASE S # {}
        <4> DEFINE f == CHOOSE y \in S : TRUE
        <4>1. h[S \ {f}] = g[S \ {f}]  BY <2>2, <3>2
        <4> HIDE DEF h
        <4> QED  BY <3>2, <4>1 DEF Add
      <3> QED  BY <3>1, <3>2
    <2>4. h = [S \in Small(n + 1) |-> Add(x, h, S)]  BY <2>3
    <2> HIDE DEF h
    <2>5. SumTo(x, n + 1, h)  BY <2>4 DEF SumTo
    <2> QED  BY <2>5
  <1> HIDE DEF P
  <1>3. Nat \subseteq P  BY <1>1, <1>2, Climb
  <1> QED  BY <1>3 DEF P

LEMMA SumIs ==
    ASSUME NEW x \in [Frag -> Counter], NEW n \in Nat, NEW g, SumTo(x, n, g),
           NEW S \in Small(n)
    PROVE  g[S] \in Nat /\ (\A f \in S : fp(x, f) # 0 => g[S] # 0)
  <1> USE CollectorAssumption
  <1> DEFINE Q(m) == \A U \in Small(n) : Cardinality(U) <= m =>
                        g[U] \in Nat /\ (\A f \in U : fp(x, f) # 0 => g[U] # 0)
             P == {m \in Nat : Q(m)}
  <1>1. \A f \in Frag : fp(x, f) \in Nat
    <2>1. \A f \in Frag : x[f].trigger_count \in Nat /\ x[f].true_trigger_count \in Nat
      BY DEF Counter
    <2> QED  BY <2>1 DEF fp, sub_or_zero_u64a
  <1>2. \A U \in Small(n) : g[U] = Add(x, g, U)  BY DEF SumTo
  <1>3. 0 \in P
    <2>1. ASSUME NEW U \in Small(n), Cardinality(U) <= 0
          PROVE  g[U] \in Nat /\ U = {}
      <3>1. U = {}  BY <2>1, SmallIs DEF Small
      <3>2. g[U] = Add(x, g, U)  BY <1>2
      <3>3. Add(x, g, U) = 0  BY <3>1 DEF Add
      <3> QED  BY <3>1, <3>2, <3>3
    <2> QED  BY <2>1
  <1>4. ASSUME NEW m \in Nat, m \in P PROVE m + 1 \in P
    <2>1. ASSUME NEW U \in Small(n), Cardinality(U) <= m + 1
          PROVE  g[U] \in Nat /\ (\A f \in U : fp(x, f) # 0 => g[U] # 0)
      <3>1. CASE U = {}  BY <1>2, <3>1 DEF Add
      <3>2. CASE U # {}
        <4>1. PICK f : f = CHOOSE y \in U : TRUE  OBVIOUS
        <4>2. f \in U /\ U \in SUBSET Frag /\ Cardinality(U) <= n
          BY <3>2, <4>1 DEF Small
        <4>3. /\ U \ {f} \in SUBSET Frag /\ Cardinality(U \ {f}) \in Nat
              /\ Cardinality(U \ {f}) <= m /\ Cardinality(U \ {f}) <= n
          BY <2>1, <4>2, SmallIs
        <4>4. U \ {f} \in Small(n)  BY <4>3 DEF Small
        <4>5. /\ g[U \ {f}] \in Nat
              /\ \A e \in U \ {f} : fp(x, e) # 0 => g[U \ {f}] # 0
          BY <1>4, <4>3, <4>4
        <4>6. g[U] = sat_add_u64a(fp(x, f), g[U \ {f}])
          BY <1>2, <3>2, <4>1 DEF Add
        <4>7. PICK a, b : a = fp(x, f) /\ b = g[U \ {f}]  OBVIOUS
        <4>8. a \in Nat /\ b \in Nat /\ f \in Frag  BY <1>1, <4>2, <4>5, <4>7
        <4>9. g[U] = IF a + b < Max THEN a + b ELSE Max
          BY <4>6, <4>7 DEF sat_add_u64a, Least
        <4>10. g[U] \in Nat /\ (a # 0 \/ b # 0 => g[U] # 0)
          BY <4>8, <4>9
        <4>11. ASSUME NEW e \in U, fp(x, e) # 0 PROVE a # 0 \/ b # 0
          BY <4>5, <4>7, <4>11
        <4> QED  BY <4>10, <4>11
      <3> QED  BY <3>1, <3>2
    <2> QED  BY <2>1
  <1> HIDE DEF P
  <1>5. Nat \subseteq P  BY <1>3, <1>4, Climb
  <1> USE DEF P
  <1>6. Cardinality(S) \in Nat  BY SmallIs DEF Small
  <1>7. Q(Cardinality(S))  BY <1>5, <1>6
  <1> QED  BY <1>6, <1>7

\* A false positive counts in the total.
LEMMA TotalIs ==
    ASSUME NEW x \in [Frag -> Counter], NEW f \in Frag, fp(x, f) # 0
    PROVE  count_total_false_positive(x) # 0
  <1> DEFINE n == Cardinality(Frag)
  <1>1. n \in Nat /\ \A S \in SUBSET Frag : Cardinality(S) <= n
    BY CollectorAssumption, FS_CardinalityType, FS_Subset
  <1> HIDE DEF n
  <1>2. Small(n) = SUBSET Frag  BY <1>1 DEF Small
  <1>3. PICK g : SumTo(x, n, g)  BY <1>1, SumToExists
  <1>4. g = [S \in SUBSET Frag |-> Add(x, g, S)]  BY <1>2, <1>3 DEF SumTo
  <1> DEFINE sum == CHOOSE h : h = [S \in SUBSET Frag |-> Add(x, h, S)]
  <1>5. sum = [S \in SUBSET Frag |-> Add(x, sum, S)]  BY <1>4
  <1>6. count_total_false_positive(x) = sum[Frag]
    BY DEF count_total_false_positive, Add
  <1> HIDE DEF sum
  <1>7. SumTo(x, n, sum)  BY <1>2, <1>5 DEF SumTo
  <1>8. Frag \in Small(n)  BY <1>2
  <1> QED  BY <1>1, <1>6, <1>7, <1>8, SumIs
\* On exact counters that are not saturated the exact counts decide.
LEMMA RealIsBad ==
    ASSUME NEW x \in [Frag -> Counter], NEW t \in [Frag -> Nat], NEW r \in [Frag -> Nat],
           NEW f \in Frag, NEW p \in Params, t[f] <= Max, p.share = 0,
           x[f].trigger_count = Least(t[f], Max), x[f].true_trigger_count = Least(r[f], Max)
    PROVE  /\ fp(x, f) # 0 => fp(x, f) = t[f] - r[f]
           /\ t[f] - r[f] > 0 => fp(x, f) = t[f] - r[f]
           /\ /\ t[f] - r[f] > 0 /\ t[f] - r[f] >= p.minFp /\ t[f] >= p.minTrig
              /\ (t[f] - r[f]) * RateScale >= t[f] * p.rate
              => is_bad_fragment(x, f, p)
  <1> USE CollectorAssumption
  <1>1. PICK a, b, w : a = t[f] /\ b = r[f] /\ w = fp(x, f)  OBVIOUS
  <1>2. a \in Nat /\ b \in Nat /\ a <= Max /\ Max \in Nat \ {0}  BY <1>1
  <1>3. x[f].trigger_count = a /\ x[f].true_trigger_count = IF b < Max THEN b ELSE Max
    BY <1>1, <1>2 DEF Least
  <1>4. w = IF a > (IF b < Max THEN b ELSE Max)
            THEN a - (IF b < Max THEN b ELSE Max) ELSE 0
    BY <1>1, <1>3 DEF fp, sub_or_zero_u64a
  <1>5. (w # 0 => w = a - b) /\ (a - b > 0 => w = a - b)  BY <1>2, <1>4
  <1>6. ASSUME a - b > 0, a - b >= p.minFp, a >= p.minTrig, (a - b) * RateScale >= a * p.rate
        PROVE  is_bad_fragment(x, f, p)
    <2>1. w = a - b /\ w # 0 /\ a # 0  BY <1>2, <1>5, <1>6
    <2>2. count_total_false_positive(x) # 0  BY <1>1, <2>1, TotalIs
    <2>3. ratio_at_least(w, a, p.rate)  BY <1>6, <2>1 DEF ratio_at_least
    <2>4. ratio_at_least(w, count_total_false_positive(x), p.share)
      BY <2>2 DEF ratio_at_least
    <2> QED  BY <1>1, <1>3, <1>6, <2>1, <2>3, <2>4 DEF is_bad_fragment
  <1> QED  BY <1>1, <1>5, <1>6

LEMMA ToFeedbackKeepsWorst ==
    ASSUME IInv, NEW c \in Collector, NEW p \in Params, hs_fp_collector_to_feedback(c, p)
    PROVE  FeedbackKeepsWorst'
  <1> USE CollectorAssumption
  <1>0. TypeOK  BY DEF IInv
  <1>1. /\ c \in alive /\ Flush(c)
        /\ \A q \in fb' : \E sel \in build_feedback_entries(cnt'[c], p) :
              q = [sel |-> sel, p |-> p, nTrig |-> nTrig[c], nTrue |-> nTrue[c],
                   exact |-> c \notin blurred]
    BY DEF hs_fp_collector_to_feedback
  <1> SUFFICES ASSUME NEW q \in fb', q.exact, Unsaturated(q), q.p.share = 0,
                      NEW f \in Frag \ q.sel, Passes(q, f)
               PROVE  /\ q.p.max # 0 /\ Cardinality(q.sel) = q.p.max
                      /\ \A g \in q.sel : RealFp(q, g) >= RealFp(q, f)
    BY DEF FeedbackKeepsWorst, Unsaturated, Passes, RealFp
  <1>2. /\ q.sel \in build_feedback_entries(cnt'[c], p) /\ q.p = p
        /\ q.nTrig = nTrig[c] /\ q.nTrue = nTrue[c] /\ c \notin blurred
    <2>1. PICK sel \in build_feedback_entries(cnt'[c], p) :
            q = [sel |-> sel, p |-> p, nTrig |-> nTrig[c], nTrue |-> nTrue[c],
                 exact |-> c \notin blurred]
      BY <1>1
    <2>2. q.exact <=> c \notin blurred  BY <2>1
    <2> QED  BY <2>1, <2>2
  <1>3. PICK x, t, r : x = cnt'[c] /\ t = nTrig[c] /\ r = nTrue[c]  OBVIOUS
  <1>4. x \in [Frag -> Counter] /\ t \in [Frag -> Nat] /\ r \in [Frag -> Nat]
    BY <1>0, <1>1, <1>3, FlushIs DEF TypeOK
  <1>5. \A g \in Frag : /\ x[g].trigger_count = Least(t[g], Max)
                        /\ x[g].true_trigger_count = Least(r[g], Max)
    <2>1. cnt[c] \in [Frag -> Counter] /\ pending[c] \in Seq(Key)  BY <1>0 DEF TypeOK
    <2>2. Agree(cnt[c], pending[c], t, r)  BY <1>1, <1>2, <1>3, AgreeIs DEF IInv
    <2>3. x = Flushed(cnt[c], pending[c])  BY <1>0, <1>1, <1>3, FlushIs
    <2> QED  BY <2>2, <2>3 DEF Agree
  <1>6. /\ \A g \in Frag : t[g] <= Max
        /\ \A g : RealFp(q, g) = t[g] - r[g]
    BY <1>2, <1>3 DEF Unsaturated, RealFp
  <1>7. \A g \in Frag : /\ fp(x, g) # 0 => fp(x, g) = t[g] - r[g]
                        /\ t[g] - r[g] > 0 => fp(x, g) = t[g] - r[g]
    BY <1>2, <1>4, <1>5, <1>6, RealIsBad
  <1>8. is_bad_fragment(x, f, p) /\ t[f] - r[f] > 0
    <2>1. /\ t[f] - r[f] > 0 /\ t[f] - r[f] >= p.minFp /\ t[f] >= p.minTrig
          /\ (t[f] - r[f]) * RateScale >= t[f] * p.rate
      BY <1>2, <1>3, <1>6 DEF Passes
    <2> QED  BY <1>2, <1>4, <1>5, <1>6, <2>1, RealIsBad
  <1> DEFINE bad == {g \in Frag : is_bad_fragment(x, g, p)}
  <1>9. f \in bad \ q.sel  BY <1>8
  <1>10. /\ p.max # 0 /\ Cardinality(q.sel) = p.max /\ q.sel \subseteq bad
         /\ \A g \in q.sel, h \in bad \ q.sel : ~Before(x, h, g)
    BY <1>2, <1>3, <1>9 DEF build_feedback_entries
  <1>11. ASSUME NEW g \in q.sel PROVE t[g] - r[g] >= t[f] - r[f]
    <2>1. fp(x, g) # 0 /\ g \in Frag  BY <1>10 DEF is_bad_fragment
    <2>2. ~(fp(x, f) > fp(x, g))  BY <1>9, <1>10 DEF Before
    <2>3. fp(x, f) = t[f] - r[f] /\ fp(x, g) = t[g] - r[g]  BY <1>7, <1>8, <2>1
    <2> QED  BY <1>4, <2>1, <2>2, <2>3
  <1> QED  BY <1>2, <1>6, <1>10, <1>11

\* The other steps return no feedback.
LEMMA NoneElse ==
    ASSUME Next PROVE \/ fb' = {}
                      \/ \E c \in Collector, p \in Params : hs_fp_collector_to_feedback(c, p)
  <1>1. ASSUME NEW c \in Collector,
               hs_fp_collector_create(c) \/ hs_fp_collector_reset(c) \/ hs_fp_collector_free(c)
        PROVE  fb' = {}
    BY <1>1 DEF hs_fp_collector_create, hs_fp_collector_reset, hs_fp_collector_free
  <1>2. ASSUME NEW a \in Collector, NEW b \in Collector, NEW out \in Collector,
               hs_fp_collector_merge(a, b, out)
        PROVE  fb' = {}
    BY <1>2 DEF hs_fp_collector_merge
  <1>3. ASSUME NEW s, NEW c, ScanBegin(s, c) PROVE fb' = {}  BY <1>3 DEF ScanBegin
  <1>4. ASSUME NEW k, begin_trigger(k) PROVE fb' = {}  BY <1>4 DEF begin_trigger
  <1>5. ASSUME end_trigger \/ Report \/ LilyReport \/ ScanEnd PROVE fb' = {}
    BY <1>5 DEF end_trigger, Report, LilyReport, ScanEnd
  <1>6. ASSUME NEW h, CallbackReturns(h) PROVE fb' = {}  BY <1>6 DEF CallbackReturns
  <1> QED  BY <1>1, <1>2, <1>3, <1>4, <1>5, <1>6 DEF Next

\* What max_bad_fragments leaves out wasted no more triggers than what feedback
\* keeps (build_feedback_entries).
THEOREM FpFeedbackKeepsWorst == Spec => []FeedbackKeepsWorst
  <1>1. Init => FeedbackKeepsWorst  BY DEF Init, FeedbackKeepsWorst
  <1>2. IInv /\ FeedbackKeepsWorst /\ [Next]_vars => FeedbackKeepsWorst'
    <2> SUFFICES ASSUME IInv, FeedbackKeepsWorst, [Next]_vars PROVE FeedbackKeepsWorst'
      OBVIOUS
    <2>1. CASE fb' = {}  BY <2>1 DEF FeedbackKeepsWorst
    <2>2. CASE \E c \in Collector, p \in Params : hs_fp_collector_to_feedback(c, p)
      BY <2>2, ToFeedbackKeepsWorst
    <2>3. CASE UNCHANGED vars  BY <2>3 DEF vars, FeedbackKeepsWorst
    <2> QED  BY <2>1, <2>2, <2>3, NoneElse
  <1> QED  BY <1>1, <1>2, FpCollectorInvariant, PTL DEF Spec
=============================================================================
