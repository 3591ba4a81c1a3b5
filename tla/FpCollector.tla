----------------------------- MODULE FpCollector -----------------------------
(***************************************************************************)
(* The false-positive feedback collector (src/src/fp_collector.c, built    *)
(* with HS_ENABLE_FP_FEEDBACK) and the places where a scan feeds it:       *)
(* roseCallback_i of src/src/rose/match.c, roseDeliverReport of            *)
(* src/src/report.h and the *_with_collector calls of src/src/runtime.c.   *)
(*                                                                         *)
(* A literal matcher hit runs a program (the trigger); the collector       *)
(* counts, per literal fragment, the triggers and the triggers that        *)
(* reported a match.  Trigger keys are queued and counted in batches, so   *)
(* that a counter lags behind until a flush.                               *)
(*                                                                         *)
(* Any number of scratches scan in one thread: from a user callback the    *)
(* application may start another scan on another scratch, and reset, merge *)
(* or evaluate any collector, the one in use included.  A call for another *)
(* database or with a NULL argument returns HS_INVALID before it changes   *)
(* anything and is no step; an allocation that fails leaves at most a      *)
(* flushed queue, like the parameters hs_fp_collector_to_feedback refuses. *)
(***************************************************************************)
EXTENDS Integers, Sequences, FiniteSets

CONSTANTS
    Scratch, Collector,
    NoCollector,    \* a scan without a collector
    Key,            \* program offsets of literals
    Frag,           \* those with an entry in the fragment table
    StableKey,      \* [Frag -> Nat], RoseFpFragmentMeta.stableKey
    BatchSize,      \* HS_FP_TRIGGER_HISTOGRAM_BATCH_SIZE
    Max,            \* the largest u64a
    RateScale,      \* HS_FP_FEEDBACK_RATE_SCALE
    Params,         \* the hs_fp_feedback_params_t an application passes
    MaxTriggers     \* bound on the triggers of a behaviour and in a merged collector

ASSUME CollectorAssumption ==
    /\ Frag \subseteq Key /\ IsFiniteSet(Frag) /\ NoCollector \notin Collector
    /\ StableKey \in [Frag -> Nat]
    /\ BatchSize \in Nat \ {0} /\ Max \in Nat \ {0} /\ RateScale \in Nat \ {0}
    /\ MaxTriggers \in Nat
    /\ \A p \in Params :
          /\ p.minTrig \in Nat /\ p.minFp \in Nat /\ p.rate \in Nat
          /\ p.share \in Nat /\ p.max \in Nat /\ p.maxGiven \in BOOLEAN

VARIABLES
    alive,      \* collectors that exist
    cnt,        \* collector->counters
    pending,    \* collector->pending_trigger_keys
    sc,         \* the fp_* fields of each scratch's core_info
    stack,      \* the running scans, the innermost last: its scratch, where
                \* it is, whether it is in the callback or was told to stop
    fb,         \* the feedback the last call returned, if it returned any
    nTrig, nTrue, \* exact counts since creation or reset (history)
    owed,       \* scratches whose trigger counts and has not reported (history)
    blurred,    \* collectors reset during a trigger another scan ran into (history)
    total       \* triggers so far (history)

hist == <<nTrig, nTrue, owed, blurred, total>>
vars == <<alive, cnt, pending, sc, stack, fb, hist>>

Counter  == [trigger_count : 0..Max, true_trigger_count : 0..Max]
Zeroed   == [f \in Frag |-> [trigger_count |-> 0, true_trigger_count |-> 0]]
Nothing  == [f \in Frag |-> 0]
\* "engine": between two triggers; "program": in roseProcessMatchInline.
Places   == {"engine", "program"}

TypeOK ==
    /\ alive \subseteq Collector
    /\ cnt \in [Collector -> [Frag -> Counter]]
    /\ pending \in [Collector -> Seq(Key)]
    /\ \A c \in Collector : Len(pending[c]) <= BatchSize
    /\ sc \in [Scratch -> [col : alive \cup {NoCollector}, active : BOOLEAN,
                           reported : BOOLEAN, key : Key \cup {0}]]
    /\ stack \in Seq([s : Scratch, at : Places, cb : BOOLEAN, halt : BOOLEAN])
    /\ \A r \in fb : r.sel \subseteq Frag /\ r.p \in Params
    /\ nTrig \in [Collector -> [Frag -> Nat]] /\ nTrue \in [Collector -> [Frag -> Nat]]
    /\ owed \subseteq Scratch /\ blurred \subseteq alive /\ total \in Nat

Quiet == [col |-> NoCollector, active |-> FALSE, reported |-> FALSE, key |-> 0]

Init ==
    /\ alive = {}
    /\ cnt = [c \in Collector |-> Zeroed] /\ pending = [c \in Collector |-> <<>>]
    /\ sc = [s \in Scratch |-> Quiet] /\ stack = <<>> /\ fb = {}
    /\ nTrig = [c \in Collector |-> Nothing] /\ nTrue = [c \in Collector |-> Nothing]
    /\ owed = {} /\ blurred = {} /\ total = 0

----------------------------------------------------------------------------
(* Counters *)

Least(a, b) == IF a < b THEN a ELSE b
sat_add_u64a(a, b) == Least(a + b, Max)
sub_or_zero_u64a(a, b)  == IF a > b THEN a - b ELSE 0

\* hs_fp_histogram_count_batch: how often a key is in the batch.
Count(batch, f) == Cardinality({i \in DOMAIN batch : batch[i] = f})

\* hs_fp_collector_flush of one collector: keys without a fragment are dropped.
Flushed(counters, batch) ==
    [f \in Frag |-> [counters[f] EXCEPT
        !.trigger_count = sat_add_u64a(@, Count(batch, f))]]

Flush(c) ==
    /\ cnt' = [cnt EXCEPT ![c] = Flushed(@, pending[c])]
    /\ pending' = [pending EXCEPT ![c] = <<>>]

counter_is_used(n) == n.trigger_count # 0 \/ n.true_trigger_count # 0

Free    == {s \in Scratch : \A i \in DOMAIN stack : stack[i].s # s}
UsedBy(c) == {s \in Scratch \ Free : sc[s].col = c}
Depth   == Len(stack)
Top     == stack[Depth]
Moved(place, cb, halt) ==
    stack' = [stack EXCEPT ![Depth] = [s |-> @.s, at |-> place, cb |-> cb, halt |-> halt]]
\* The application is in control: no scan runs, or the innermost is in the
\* user callback.
AppRuns == Depth > 0 => Top.cb

----------------------------------------------------------------------------
(* The application's calls on collectors *)

hs_fp_collector_create(c) ==
    /\ AppRuns /\ c \notin alive
    /\ alive' = alive \cup {c}
    /\ cnt' = [cnt EXCEPT ![c] = Zeroed] /\ pending' = [pending EXCEPT ![c] = <<>>]
    /\ nTrig' = [nTrig EXCEPT ![c] = Nothing] /\ nTrue' = [nTrue EXCEPT ![c] = Nothing]
    /\ fb' = {}
    /\ UNCHANGED <<sc, stack, owed, blurred, total>>

\* clear_collector_counts.
hs_fp_collector_reset(c) ==
    /\ AppRuns /\ c \in alive
    /\ cnt' = [cnt EXCEPT ![c] = Zeroed] /\ pending' = [pending EXCEPT ![c] = <<>>]
    /\ nTrig' = [nTrig EXCEPT ![c] = Nothing] /\ nTrue' = [nTrue EXCEPT ![c] = Nothing]
    /\ owed' = owed \ UsedBy(c)
    /\ blurred' = IF UsedBy(c) = {} THEN blurred \ {c} ELSE blurred
    /\ fb' = {}
    /\ UNCHANGED <<alive, sc, stack, total>>

\* Only a collector no scan is using may be freed.
hs_fp_collector_free(c) ==
    /\ AppRuns /\ c \in alive /\ UsedBy(c) = {}
    /\ alive' = alive \ {c} /\ blurred' = blurred \ {c}
    /\ cnt' = [cnt EXCEPT ![c] = Zeroed] /\ pending' = [pending EXCEPT ![c] = <<>>]
    /\ nTrig' = [nTrig EXCEPT ![c] = Nothing] /\ nTrue' = [nTrue EXCEPT ![c] = Nothing]
    /\ fb' = {}
    /\ UNCHANGED <<sc, stack, owed, total>>

Plus(m, n) == [f \in Frag |-> m[f] + n[f]]

\* Fault: the inputs' queued triggers are not counted before the sum.
Summed_NoFlush(a, b) ==
    [f \in Frag |->
        [trigger_count |-> sat_add_u64a(cnt[a][f].trigger_count, cnt[b][f].trigger_count),
         true_trigger_count |->
            sat_add_u64a(cnt[a][f].true_trigger_count, cnt[b][f].true_trigger_count)]]

\* merge_collector_counts over the flushed inputs.
Summed(a, b) ==
    LET x == Flushed(cnt[a], pending[a])
        y == Flushed(cnt[b], pending[b])
    IN [f \in Frag |->
        [trigger_count |-> sat_add_u64a(x[f].trigger_count, y[f].trigger_count),
         true_trigger_count |->
            sat_add_u64a(x[f].true_trigger_count, y[f].true_trigger_count)]]

\* Two collectors, possibly the same one twice; the inputs are flushed.
hs_fp_collector_merge(a, b, out) ==
    /\ AppRuns /\ {a, b} \subseteq alive /\ out \notin alive
    /\ \A f \in Frag : Plus(nTrig[a], nTrig[b])[f] <= MaxTriggers
    /\ alive' = alive \cup {out}
    /\ cnt' = [c \in Collector |-> IF c = out THEN Summed(a, b)
                                   ELSE IF c \in {a, b} THEN Flushed(cnt[c], pending[c])
                                   ELSE cnt[c]]
    /\ pending' = [c \in Collector |-> IF c \in {a, b, out} THEN <<>> ELSE pending[c]]
    /\ nTrig' = [nTrig EXCEPT ![out] = Plus(nTrig[a], nTrig[b])]
    /\ nTrue' = [nTrue EXCEPT ![out] = Plus(nTrue[a], nTrue[b])]
    /\ blurred' = IF {a, b} \cap blurred # {} THEN blurred \cup {out} ELSE blurred
    /\ fb' = {}
    /\ UNCHANGED <<sc, stack, owed, total>>

----------------------------------------------------------------------------
(* hs_fp_collector_to_feedback *)

fp(counters, f) == sub_or_zero_u64a(counters[f].trigger_count, counters[f].true_trigger_count)

\* The sum of the false positives of all fragments, saturating.
count_total_false_positive(counters) ==
    LET sum[S \in SUBSET Frag] ==
            IF S = {} THEN 0
            ELSE LET f == CHOOSE x \in S : TRUE
                 IN sat_add_u64a(fp(counters, f), sum[S \ {f}])
    IN sum[Frag]

\* num / den >= min / RateScale; the code's integer and long double branches.
ratio_at_least(num, den, min) ==
    den # 0 /\ (min = 0 \/ num * RateScale >= den * min)

\* Fault: every trigger counts as wasted.
is_bad_fragment_AllTriggers(counters, f, p) ==
    /\ counters[f].trigger_count # 0
    /\ counters[f].trigger_count >= p.minTrig /\ counters[f].trigger_count >= p.minFp

is_bad_fragment(counters, f, p) ==
    /\ fp(counters, f) # 0
    /\ counters[f].trigger_count >= p.minTrig /\ fp(counters, f) >= p.minFp
    /\ ratio_at_least(fp(counters, f), counters[f].trigger_count, p.rate)
    /\ ratio_at_least(fp(counters, f), count_total_false_positive(counters), p.share)

\* Fault: compare_feedback_entry_score sorts ascending.
Before_Ascending(counters, g, f) ==
    \/ fp(counters, g) < fp(counters, f)
    \/ fp(counters, g) = fp(counters, f) /\ StableKey[g] < StableKey[f]

\* compare_feedback_entry_score: g is sorted before f.
Before(counters, g, f) ==
    \/ fp(counters, g) > fp(counters, f)
    \/ /\ fp(counters, g) = fp(counters, f)
       /\ \/ counters[g].trigger_count > counters[f].trigger_count
          \/ /\ counters[g].trigger_count = counters[f].trigger_count
             /\ StableKey[g] < StableKey[f]

\* What build_feedback_entries can return: the bad fragments, the first p.max
\* of them when there are more.  A stable key is a hash, so two fragments can
\* compare equal; qsort then leaves them in either order.
build_feedback_entries(counters, p) ==
    LET bad == {f \in Frag : is_bad_fragment(counters, f, p)} IN
    IF p.max # 0 /\ Cardinality(bad) > p.max
    THEN {sel \in SUBSET bad :
            /\ Cardinality(sel) = p.max
            /\ \A g \in sel, f \in bad \ sel : ~Before(counters, f, g)}
    ELSE {bad}

ValidParams(p) ==
    p.rate <= RateScale /\ p.share <= RateScale /\ (p.maxGiven => p.max # 0)

\* The queue is flushed before the parameters are looked at; with bad ones
\* the call returns HS_INVALID and no feedback.
hs_fp_collector_to_feedback(c, p) ==
    /\ AppRuns /\ c \in alive
    /\ Flush(c)
    /\ \/ ~ValidParams(p) /\ fb' = {}
       \/ /\ ValidParams(p)
          /\ \E sel \in build_feedback_entries(cnt'[c], p) :
                fb' = {[sel |-> sel, p |-> p, nTrig |-> nTrig[c], nTrue |-> nTrue[c],
                        exact |-> c \notin blurred]}
    /\ UNCHANGED <<alive, sc, stack, hist>>

----------------------------------------------------------------------------
(* Scans *)

\* A scan, stream write or end-of-data check with collector c (or none)
\* begins: populateCoreInfo clears what the scratch remembers.
ScanBegin(s, c) ==
    /\ AppRuns /\ s \in Free /\ c \in alive \cup {NoCollector}
    /\ sc' = [sc EXCEPT ![s] = [Quiet EXCEPT !.col = c]]
    /\ stack' = Append(stack, [s |-> s, at |-> "engine", cb |-> FALSE, halt |-> FALSE])
    /\ fb' = {}
    /\ UNCHANGED <<alive, cnt, pending, hist>>

Engine(place) == Depth > 0 /\ Top.at = place /\ ~Top.cb

queue_trigger_key(c, k) ==
    \/ /\ Len(pending[c]) = BatchSize
       /\ cnt' = [cnt EXCEPT ![c] = Flushed(@, pending[c])]
       /\ pending' = [pending EXCEPT ![c] = <<k>>]
    \/ /\ Len(pending[c]) < BatchSize
       /\ cnt' = cnt
       /\ pending' = [pending EXCEPT ![c] = Append(@, k)]

\* hs_fp_collector_begin_trigger: a literal was found and its program starts.
begin_trigger(k) ==
    LET s == Top.s
        c == sc[s].col
    IN
    /\ Engine("engine") /\ ~Top.halt /\ total < MaxTriggers
    /\ \/ /\ c = NoCollector
          /\ sc' = [sc EXCEPT ![s] = Quiet]
          /\ UNCHANGED <<cnt, pending, hist>>
       \/ /\ c # NoCollector
          /\ queue_trigger_key(c, k)
          /\ sc' = [sc EXCEPT ![s] = [col |-> c, active |-> TRUE, reported |-> FALSE,
                                      key |-> k]]
          /\ total' = total + 1
          /\ nTrig' = IF k \in Frag THEN [nTrig EXCEPT ![c][k] = @ + 1] ELSE nTrig
          /\ owed' = IF k \in Frag THEN owed \cup {s} ELSE owed \ {s}
          /\ blurred' = IF \E t \in UsedBy(c) \ {s} :
                              sc[t].active /\ ~sc[t].reported /\ t \notin owed
                        THEN blurred \cup {c} ELSE blurred
          /\ nTrue' = nTrue
    /\ Moved("program", FALSE, FALSE)
    /\ fb' = {}
    /\ alive' = alive

end_trigger ==
    /\ Engine("program")
    /\ sc' = [sc EXCEPT ![Top.s] = [Quiet EXCEPT !.col = sc[Top.s].col]]
    /\ owed' = owed \ {Top.s}
    /\ Moved("engine", FALSE, Top.halt)
    /\ fb' = {}
    /\ UNCHANGED <<alive, cnt, pending, nTrig, nTrue, blurred, total>>

\* hs_fp_collector_record_final_report: get_counter without create finds
\* only a counter that is in use.
record_final_report(s) ==
    LET c == sc[s].col
        k == sc[s].key
        now == Flushed(cnt[c], pending[c])
        found == k \in Frag /\ counter_is_used(now[k])
    IN
    IF c = NoCollector \/ ~sc[s].active
    THEN UNCHANGED <<cnt, pending, sc>>
    ELSE /\ pending' = [pending EXCEPT ![c] = <<>>]
         /\ \/ /\ found /\ ~sc[s].reported
               /\ cnt' = [cnt EXCEPT ![c] = [now EXCEPT
                            ![k].true_trigger_count = sat_add_u64a(@, 1)]]
               /\ sc' = [sc EXCEPT ![s].reported = TRUE]
            \/ /\ ~found \/ sc[s].reported
               /\ cnt' = [cnt EXCEPT ![c] = now]
               /\ sc' = sc

\* roseDeliverReport up to the user callback, from the program of a trigger
\* or from an engine that needs no literal.
Report ==
    LET s == Top.s IN
    /\ Depth > 0 /\ ~Top.cb /\ ~Top.halt
    /\ record_final_report(s)
    /\ nTrue' = IF s \in owed /\ Top.at = "program"
               THEN [nTrue EXCEPT ![sc[s].col][sc[s].key] = @ + 1] ELSE nTrue
    /\ owed' = IF Top.at = "program" THEN owed \ {s} ELSE owed
    /\ Moved(Top.at, TRUE, FALSE)
    /\ fb' = {}
    /\ UNCHANGED <<alive, nTrig, blurred, total>>

\* A parked Lily match is reported first (lilyItemReport records nothing).
LilyReport ==
    /\ Depth > 0 /\ ~Top.cb /\ ~Top.halt
    /\ Moved(Top.at, TRUE, FALSE)
    /\ fb' = {}
    /\ UNCHANGED <<alive, cnt, pending, sc, hist>>

CallbackReturns(h) ==
    /\ Depth > 0 /\ Top.cb
    /\ Moved(Top.at, FALSE, h)
    /\ fb' = {}
    /\ UNCHANGED <<alive, cnt, pending, sc, hist>>

Verdict(halt) == IF halt THEN "SCAN_TERMINATED" ELSE "SUCCESS"

\* Fault: a scan the callback stopped is not recorded.
Records_SuccessOnly(rv) == rv = "SUCCESS"

\* Whether a *_with_collector call runs hs_fp_collector_record_scan.
Records(rv) == rv \in {"SUCCESS", "SCAN_TERMINATED"}

\* The call returns.  What it leaves in the scratch is not read again before
\* the next populateCoreInfo.
ScanEnd ==
    LET c == sc[Top.s].col IN
    /\ Engine("engine")
    /\ IF c # NoCollector /\ Records(Verdict(Top.halt)) THEN Flush(c) ELSE UNCHANGED <<cnt, pending>>
    /\ stack' = SubSeq(stack, 1, Depth - 1)
    /\ sc' = [sc EXCEPT ![Top.s] = Quiet]
    /\ fb' = {}
    /\ UNCHANGED <<alive, hist>>

Next ==
    \/ \E c \in Collector : hs_fp_collector_create(c) \/ hs_fp_collector_reset(c)
                            \/ hs_fp_collector_free(c)
    \/ \E a, b, out \in Collector : hs_fp_collector_merge(a, b, out)
    \/ \E c \in Collector, p \in Params : hs_fp_collector_to_feedback(c, p)
    \/ \E s \in Scratch, c \in Collector \cup {NoCollector} : ScanBegin(s, c)
    \/ \E k \in Key : begin_trigger(k)
    \/ end_trigger \/ Report \/ LilyReport
    \/ \E h \in BOOLEAN : CallbackReturns(h)
    \/ ScanEnd

Spec == Init /\ [][Next]_vars

----------------------------------------------------------------------------
(* Properties *)

\* The counters, with the queued triggers, are the exact number of triggers
\* of a fragment and of triggers whose program reported a match, cut off at
\* the counter's maximum: whatever was batched, merged, reset or scanned from
\* inside a callback, and whichever reports came from elsewhere.
CountsExact ==
    \A c \in alive \ blurred, f \in Frag :
        LET now == Flushed(cnt[c], pending[c])[f] IN
        /\ now.trigger_count = Least(nTrig[c][f], Max)
        /\ now.true_trigger_count = Least(nTrue[c][f], Max)

\* Between scans nothing is left in a queue: hs_fp_collector_merge reads its
\* inputs, and a thread its peers' collectors, only after every call has
\* committed its triggers, also one the callback stopped.
CommittedAtReturn == \A c \in alive : UsedBy(c) = {} => pending[c] = <<>>

RealFp(r, f) == r.nTrig[f] - r.nTrue[f]
Passes(r, f) ==
    /\ RealFp(r, f) > 0 /\ RealFp(r, f) >= r.p.minFp /\ r.nTrig[f] >= r.p.minTrig
    /\ RealFp(r, f) * RateScale >= r.nTrig[f] * r.p.rate
Unsaturated(r) == \A f \in Frag : r.nTrig[f] <= Max

\* No fragment is blamed for more than it did: what feedback selects passed
\* the application's thresholds on the exact counts.
FeedbackJustified ==
    \A r \in fb : r.exact => \A f \in r.sel :
        /\ RealFp(r, f) > 0 /\ RealFp(r, f) >= r.p.minFp
        /\ Unsaturated(r) => Passes(r, f)

\* A fragment that passed the thresholds and was left out by
\* max_bad_fragments wasted no more triggers than any that was kept, and the
\* limit is used up.
FeedbackKeepsWorst ==
    \A r \in fb : r.exact /\ Unsaturated(r) /\ r.p.share = 0 =>
        \A f \in Frag \ r.sel : Passes(r, f) =>
            /\ r.p.max # 0 /\ Cardinality(r.sel) = r.p.max
            /\ \A g \in r.sel : RealFp(r, g) >= RealFp(r, f)
=============================================================================
