------------------------------ MODULE CatchUp -------------------------------
(***************************************************************************)
(* Rose catch-up (rose/catchup.c, catchup.h; the triggers of match.c and   *)
(* program_runtime.c).  The literal matcher runs ahead of the engines:     *)
(* outfixes, which need no trigger, suffixes, triggered by literals, and   *)
(* one engine, the MPV, triggered by literals and by other engines.        *)
(* Before a match is reported, every engine is brought up to its offset    *)
(* and what they find is reported in order, through a priority queue of    *)
(* the engines' next matches; the MPV stays out of that queue, because it  *)
(* can be triggered while the queue is served.                             *)
(*                                                                         *)
(* One block is scanned.  An engine is modelled by what it promises its    *)
(* caller: it accepts at fixed offsets (an outfix) or at given distances   *)
(* after its triggers, and can be run to its next match or to an offset.   *)
(* The scan is not stopped by the user here.                               *)
(***************************************************************************)
EXTENDS Integers, Sequences, FiniteSets, FiniteSetsExt, SequencesExt

CONSTANTS
    OutfixEnd,   \* outfixEndQueue: queues 1 .. OutfixEnd - 1 are outfixes
    QueueCount,  \* queues OutfixEnd .. QueueCount - 1 are suffixes
    Dist,        \* distances after a trigger at which an engine accepts
    Feeders,     \* databases: sets of engines whose reports trigger the MPV
    Single,      \* engines whose report has an exhaustion key
    MaxItems,    \* MAX_MQE_LEN
    Length,      \* bound: length of the block
    MaxLits,     \* bound: literal matches
    MaxAccepts   \* bound: matches of an outfix

MPV == 0
Outfix == 1 .. OutfixEnd - 1
Suffix == OutfixEnd .. QueueCount - 1
Engine == 0 .. QueueCount - 1
Literal == QueueCount   \* the source of a literal's own report

ASSUME CatchUpAssumption ==
    /\ OutfixEnd \in Nat \ {0} /\ QueueCount \in Nat /\ OutfixEnd <= QueueCount
    /\ \A q \in Suffix \cup {MPV} : Dist[q] # {} /\ Dist[q] \subseteq 1 .. Length
    /\ \A c \in Feeders : /\ c \subseteq Engine \ {MPV}
                          /\ Single \subseteq Engine \ (c \cup {MPV})
    /\ MaxItems \in 4 .. 10 /\ {Length, MaxLits, MaxAccepts} \subseteq Nat

VARIABLES
    accepts,   \* the outfixes: where each accepts in this block
    rose,      \* the engines and the RoseContext (below)
    pq,        \* scratch->catchup_pq: engines with the offset of a match
    pc,        \* "scan", "build", "blast", "nfas", "resume" or "done"
    job,       \* the literal match being handled
    upTo,      \* "all": the MPV is caught up too; "feeders": it is not
    turn,      \* the suffix buildSufPQ looks at next, the engine that blasts
    okLoc,     \* report_ok_loc
    lits       \* history: the literal matches

\* The database that is scanned.
Chained == rose.chained

vars == <<accepts, rose, pq, pc, job, upTo, turn, okLoc, lits>>

\* An engine: whether its bit in the active array is set, where its queue
\* starts, the triggers queued and all triggers since it came alive.
Engines ==
    [on : BOOLEAN, cur : 0 .. Length, queue : Seq(0 .. Length),
     tops : SUBSET (0 .. Length)]

Off == [on |-> FALSE, cur |-> 0, queue |-> <<>>, tops |-> {}]

NoJob == [kind |-> "none", off |-> 0, q |-> 0]
-----------------------------------------------------------------------------
(***************************************************************************)
(* What an engine promises (external: nfa_api.h).                          *)
(***************************************************************************)
Accepts(q, e, o) ==
    IF q \in Outfix THEN o \in accepts[q] ELSE \E t \in e.tops : o - t \in Dist[q]

\* Whether the engine can accept after an offset, as far as it knows.
CanMatch(q, e, o) ==
    IF q \in Outfix THEN \E a \in accepts[q] : a > o
    ELSE \E t \in e.tops : t + Max(Dist[q]) > o

Ahead(q, e, loc) == {o \in e.cur + 1 .. loc : Accepts(q, e, o)}

\* The items before an offset leave the queue.
StillQueued(queue, o) ==
    SubSeq(queue, Min({i \in DOMAIN queue : queue[i] >= o} \cup {Len(queue) + 1}), Len(queue))
RunTo(e, o) == [e EXCEPT !.cur = o, !.queue = StillQueued(@, o)]

\* The queue was run to the end: it restarts empty at loc, or the engine is
\* dropped (deactivateQueue).
RunOut(q, e, loc) ==
    IF CanMatch(q, e, loc) THEN [e EXCEPT !.cur = loc, !.queue = <<>>] ELSE Off

isQueueFull(e) == Len(e.queue) + 1 + 2 > MaxItems
-----------------------------------------------------------------------------
(***************************************************************************)
(* Reports.  The rose record goes through each call and is returned.       *)
(***************************************************************************)
Deliver(r, q, o) ==
    IF q \in r.spent THEN r
    ELSE [r EXCEPT !.out = Append(@, <<q, o>>),
                   !.spent = IF q \in Single THEN @ \cup {q} ELSE @]

\* An engine reports what it finds from left to right.
Ascending(offsets) ==
    [i \in 1 .. Cardinality(offsets) |->
        CHOOSE o \in offsets : Cardinality({p \in offsets : p <= o}) = i]

\* The MPV reports at some offsets; its reports have no exhaustion key.
DeliverMpv(r, offsets) ==
    [r EXCEPT !.out = @ \o [i \in 1 .. Cardinality(offsets) |-> <<MPV, Ascending(offsets)[i]>>]]

\* updateMinMatchOffsetFromMpv
MpvAt(r, o) ==
    [r EXCEPT !.minMatch = o, !.minNonMpv = Max({@, o})]

canSkipCatchUpMPV(r, o) == o < r.nextMpv \/ ~r.eng[MPV].on

\* roseCatchUpMPV_i: the MPV reports everything up to o, and says where it
\* could match next.
RunMpv(r, o) ==
    LET e     == r.eng[MPV]
        after == [e EXCEPT !.cur = o, !.queue = <<>>]
        ahead == Ahead(MPV, after, Length)
        next  == IF ahead = {} THEN Length ELSE Min(ahead)
        run   == DeliverMpv(r, Ahead(MPV, e, o))
    IN IF o < e.cur
       THEN [MpvAt(r, o) EXCEPT !.nextMpv = o + 1]
       ELSE [MpvAt(run, o) EXCEPT !.eng[MPV] = after,
                                  !.nextMpv = Max({next, o + 1})]

roseCatchUpMPV(r, o) ==
    IF canSkipCatchUpMPV(r, o) THEN MpvAt(r, o) ELSE RunMpv(r, o)

\* pushQueue: an item that repeats the last one is dropped.
Pushed(queue, o) ==
    IF queue # <<>> /\ Last(queue) = o THEN queue ELSE Append(queue, o)

\* A queue that starts at the end of the block is run at once: the engine may
\* not be run again before its state is kept.
WithTop(q, e, o) ==
    LET f == [e EXCEPT !.queue = Pushed(@, o), !.tops = @ \cup {o}]
    IN IF f.cur = Length THEN RunOut(q, f, o) ELSE f

Started(o) == [Off EXCEPT !.on = TRUE, !.cur = o]

\* Fault: the offset of the next MPV match is kept, although the trigger may
\* lead to an earlier one.
Triggered_StaleNext(r, o) == [r EXCEPT !.eng[MPV] = WithTop(MPV, @, o)]

Triggered(r, o) == [r EXCEPT !.eng[MPV] = WithTop(MPV, @, o), !.nextMpv = 0]

\* roseHandleChainMatch, with a full queue flushed first.
roseHandleChainMatch(r, o) ==
    LET e == r.eng[MPV]
    IN IF ~e.on
       THEN Triggered([r EXCEPT !.eng[MPV] = Started(o)], o)
       ELSE IF ~isQueueFull(e) THEN Triggered(r, o)
       ELSE IF e.cur = o THEN Triggered([r EXCEPT !.eng[MPV].queue = <<>>], o)
       ELSE Triggered(roseCatchUpMPV([r EXCEPT !.nextMpv = 0], o), o)

\* The report program of an engine: a chained report triggers the MPV, any
\* other catches it up first (CATCH_UP_MPV, REPORT).
Report(r, q, o) ==
    IF q \in Chained THEN roseHandleChainMatch(r, o)
    ELSE Deliver(roseCatchUpMPV(r, o), q, o)

\* roseSuffixInfoIsExhausted
Exhausted(r, q) == q \in r.spent

\* An engine that was run to its next match waits in the queue for its turn.
Waiting(q, loc) == [q |-> q, loc |-> loc]

\* Run the engine to its next match up to final, or to final.
ToNextMatch(r, q, final, others) ==
    LET ahead == Ahead(q, r.eng[q], final)
    IN /\ rose' = [r EXCEPT !.eng[q] = IF ahead = {} THEN RunOut(q, @, final)
                                       ELSE RunTo(@, Min(ahead))]
       /\ pq' = others \cup IF ahead = {} THEN {} ELSE {Waiting(q, Min(ahead))}

-----------------------------------------------------------------------------
(***************************************************************************)
(* Literal matches, in order of their offset.                              *)
(***************************************************************************)
\* A block starts: every outfix is run to its first match (blockInitSufPQ).
Init ==
    /\ accepts \in [Outfix -> {a \in SUBSET (1 .. Length) : Cardinality(a) <= MaxAccepts}]
    /\ \E chained \in Feeders :
       LET hit == {q \in Outfix : accepts[q] # {}}
       IN /\ rose = [eng |-> [q \in Engine |->
                                IF q \in hit
                                THEN [Started(Min(accepts[q])) EXCEPT !.tops = {0}]
                                ELSE Off],
                     minMatch |-> 0, minNonMpv |-> 0, nextMpv |-> 0,
                     out |-> <<>>, spent |-> {}, chained |-> chained]
          /\ pq = {Waiting(q, Min(accepts[q])) : q \in hit}
    /\ pc = "scan" /\ job = NoJob /\ upTo = "all" /\ turn = 0 /\ okLoc = 0
    /\ lits = {}

AnyOn == \E q \in Engine : rose.eng[q].on

\* buildSufPQ starts: nothing to do without a live suffix.  Every match found
\* at okLoc can be reported as it is found, once the MPV has been.
Begin(r, how) ==
    LET live == {q \in Suffix : r.eng[q].on}
        ok   == r.minNonMpv + 1
    IN /\ upTo' = how
       /\ IF live = {} THEN pc' = "nfas" /\ rose' = r /\ UNCHANGED <<turn, okLoc>>
          ELSE pc' = "build" /\ rose' = roseCatchUpMPV(r, ok) /\ turn' = Min(live)
               /\ okLoc' = ok
       /\ UNCHANGED pq

Resume(r) ==
    /\ rose' = r /\ pc' = "resume" /\ UNCHANGED <<pq, upTo, turn, okLoc>>

\* roseCatchUpTo
roseCatchUpTo(r, o) ==
    \/ o <= r.minMatch /\ Resume(r)
    \/ o > r.minMatch /\ o <= r.minNonMpv /\ Resume(roseCatchUpMPV(r, o))
    \/ /\ o > r.minNonMpv /\ ~AnyOn
       /\ Resume([r EXCEPT !.minMatch = o, !.minNonMpv = o])
    \/ o > r.minNonMpv /\ AnyOn /\ Begin(r, "all")

\* roseCatchUpMpvFeeders: what may trigger the MPV before o.
\* Fault: a chained literal does not wait for the engines that feed the MPV.
roseCatchUpMpvFeeders_Skip(r, o) == Resume(r)

roseCatchUpMpvFeeders(r, o) ==
    \/ (o <= r.minNonMpv \/ Chained = {}) /\ Resume(r)
    \/ /\ o > r.minNonMpv /\ Chained # {} /\ ~AnyOn
       /\ Resume([r EXCEPT !.minNonMpv = o])
    \/ o > r.minNonMpv /\ Chained # {} /\ AnyOn /\ Begin(r, "feeders")

\* The queue of the triggered suffix is full and not all at this offset.
MustFlush(e, o) == e.on /\ isQueueFull(e) /\ e.cur # o

\* A literal match: the engines are caught up as its program needs.
LiteralMatch(kind, o, q) ==
    /\ pc = "scan" /\ Cardinality(lits) < MaxLits /\ o >= job.off
    /\ \A l \in lits : l # [kind |-> kind, off |-> o, q |-> q]
    /\ job' = [kind |-> kind, off |-> o, q |-> q]
    /\ lits' = lits \cup {job'}
    /\ CASE kind = "report" -> roseCatchUpTo(rose, o)
         [] kind = "chain"  -> roseCatchUpMpvFeeders(rose, o)
         [] kind = "suffix" -> IF MustFlush(rose.eng[q], o)
                               THEN roseCatchUpTo(rose, o) ELSE Resume(rose)
    /\ UNCHANGED accepts

\* The end of the block: everything is caught up (roseBlockExec).
EndOfBlock ==
    /\ pc = "scan"
    /\ job' = [kind |-> "end", off |-> Length, q |-> 0]
    /\ roseCatchUpTo(rose, Length)
    /\ UNCHANGED <<accepts, lits>>

\* A queue of triggers all at this offset is flattened.
Flattened(e, o) ==
    IF ~e.on THEN Started(o)
    ELSE IF isQueueFull(e) /\ e.cur = o THEN [e EXCEPT !.queue = <<>>]
    ELSE e

roseTriggerSuffix(r, q, o) ==
    [r EXCEPT !.eng[q] = WithTop(q, Flattened(@, o), o)]

\* A chained literal that finds the MPV queue full while the other engines
\* are behind: they are caught up first.
FlushChain ==
    /\ pc = "resume" /\ job.kind = "chain"
    /\ MustFlush(rose.eng[MPV], job.off) /\ job.off > rose.minNonMpv
    /\ roseCatchUpTo([rose EXCEPT !.nextMpv = 0], job.off)
    /\ UNCHANGED <<accepts, job, lits>>

\* Engines are up to date: the literal's program goes on.
Handle ==
    /\ pc = "resume"
    /\ ~(job.kind = "chain" /\ MustFlush(rose.eng[MPV], job.off)
            /\ job.off > rose.minNonMpv)
    /\ rose' = CASE job.kind = "report" -> Deliver(rose, Literal, job.off)
                 [] job.kind = "chain"  -> roseHandleChainMatch(rose, job.off)
                 [] job.kind = "suffix" -> roseTriggerSuffix(rose, job.q, job.off)
                 [] job.kind = "end"    -> rose
    /\ pc' = IF job.kind = "end" THEN "done" ELSE "scan"
    /\ UNCHANGED <<accepts, pq, job, upTo, turn, okLoc, lits>>
-----------------------------------------------------------------------------
(***************************************************************************)
(* buildSufPQ: one step per live suffix, in queue order.                   *)
(***************************************************************************)
Later == {q \in Suffix : q > turn /\ rose.eng[q].on}

GoOn ==
    IF Later = {} THEN pc' = "nfas" /\ UNCHANGED turn
    ELSE turn' = Min(Later) /\ UNCHANGED pc

\* Fault: matches of the other engines are not looked at.
Earliest_Limit(waiting) == job.off

\* The earliest match known, at most the offset being caught up to.
Earliest(waiting) == Min({x.loc : x \in waiting} \cup {job.off})

\* The last suffix can report directly until another engine has a match.
Direct == Later = {} /\ okLoc <= Earliest(pq)

DropSuffix ==
    /\ pc = "build" /\ Exhausted(rose, turn)
    /\ rose' = [rose EXCEPT !.eng[turn] = Off]
    /\ GoOn /\ UNCHANGED <<accepts, pq, job, upTo, okLoc, lits>>

\* add_to_queue, runNewNfaToNextMatch: a match at okLoc is reported, the next
\* one waits.
AddToQueue ==
    /\ pc = "build" /\ ~Exhausted(rose, turn) /\ ~Direct
    /\ LET hit == Accepts(turn, rose.eng[turn], okLoc) /\ rose.eng[turn].cur < okLoc
           r   == IF hit THEN Report(rose, turn, okLoc) ELSE rose
       IN ToNextMatch(IF hit THEN [r EXCEPT !.eng[turn] = RunTo(@, okLoc)] ELSE r,
                      turn, job.off, pq)
    /\ GoOn /\ UNCHANGED <<accepts, job, upTo, okLoc, lits>>

\* buildSufPQ_final
BlastLast ==
    /\ pc = "build" /\ ~Exhausted(rose, turn) /\ Direct
    /\ pc' = "blast"
    /\ UNCHANGED <<accepts, rose, pq, job, upTo, turn, okLoc, lits>>
-----------------------------------------------------------------------------
(***************************************************************************)
(* blast_queue: the engine reports what it finds up to the next match of   *)
(* another one, one step per match.  It dies when that exhausts it         *)
(* (roseNfaBlastAdaptor).                                                  *)
(***************************************************************************)
\* An engine on its own until another one has a match: where its next step
\* leads after it reported at o.
Reported(r, q, o) ==
    IF Exhausted(r, q)
    THEN rose' = [r EXCEPT !.eng[q] = Off] /\ pc' = "nfas"
    ELSE rose' = [r EXCEPT !.eng[q] = RunTo(@, o)] /\ pc' = "blast"

Blastable == Ahead(turn, rose.eng[turn], Earliest(pq))

BlastReport ==
    /\ pc = "blast" /\ Blastable # {}
    /\ LET o == Min(Blastable) IN Reported(Report(rose, turn, o), turn, o)
    /\ UNCHANGED <<accepts, pq, job, upTo, turn, okLoc, lits>>

\* Outfixes stay in the queue between catch-ups: they are run to the end of
\* the block.
FinalLoc(q) == IF q \in Suffix THEN job.off ELSE Length

BlastEnd ==
    /\ pc = "blast" /\ Blastable = {}
    /\ ToNextMatch(rose, turn, FinalLoc(turn), pq)
    /\ pc' = "nfas" /\ UNCHANGED <<accepts, job, upTo, turn, okLoc, lits>>
-----------------------------------------------------------------------------
(***************************************************************************)
(* roseCatchUpNfas: the earliest match is served, one step per engine.     *)
(***************************************************************************)
First == {x \in pq : x.loc <= job.off /\ \A y \in pq : x.loc <= y.loc}

Serve(x) ==
    /\ pc = "nfas" /\ x \in First
    /\ LET others == pq \ {x}
           r      == Report(roseCatchUpMPV(rose, x.loc), x.q, x.loc)
       IN \/ /\ Earliest(others) = x.loc
             /\ ToNextMatch(r, x.q, FinalLoc(x.q), others)
             /\ UNCHANGED <<pc, turn>>
          \/ /\ Earliest(others) # x.loc
             /\ Reported(r, x.q, x.loc) /\ pq' = others /\ turn' = x.q
    /\ UNCHANGED <<accepts, job, upTo, okLoc, lits>>

\* Nothing is left to report up to the offset: the MPV comes last.
CaughtUp ==
    /\ pc = "nfas" /\ First = {}
    /\ LET r == [rose EXCEPT !.minNonMpv = job.off]
       IN rose' = IF upTo = "all" THEN roseCatchUpMPV(r, job.off) ELSE r
    /\ pc' = "resume"
    /\ UNCHANGED <<accepts, pq, job, upTo, turn, okLoc, lits>>

Next ==
    \/ \E o \in 1 .. Length : LiteralMatch("report", o, Literal)
    \/ \E o \in 1 .. Length : LiteralMatch("chain", o, MPV)
    \/ \E o \in 1 .. Length, q \in Suffix : LiteralMatch("suffix", o, q)
    \/ EndOfBlock \/ FlushChain \/ Handle
    \/ DropSuffix \/ AddToQueue \/ BlastLast \/ BlastReport \/ BlastEnd
    \/ \E x \in pq : Serve(x)
    \/ CaughtUp

Spec == Init /\ [][Next]_vars
-----------------------------------------------------------------------------
TypeOK ==
    /\ rose.minMatch \in 0 .. Length /\ rose.minNonMpv \in 0 .. Length
    /\ rose.nextMpv \in 0 .. Length + 1
    /\ rose.spent \subseteq Single
    /\ \A q \in Engine : /\ rose.eng[q].on \in BOOLEAN
                         /\ rose.eng[q].cur \in 0 .. Length
                         /\ rose.eng[q].tops \subseteq 0 .. Length
                         /\ Len(rose.eng[q].queue) + 1 < MaxItems
    /\ \A x \in pq : x.q \in Engine /\ x.loc \in 1 .. Length
    /\ pc \in {"scan", "resume", "build", "blast", "nfas", "done"}
    /\ turn \in Engine /\ okLoc \in 0 .. Length

(***************************************************************************)
(* What the patterns match, from the literals alone.                       *)
(***************************************************************************)
TrueMatches(q) ==
    {o \in 1 .. Length :
       IF q \in Outfix THEN o \in accepts[q]
       ELSE \E l \in lits : l.kind = "suffix" /\ l.q = q /\ o - l.off \in Dist[q]}

ChainOffsets ==
    {l.off : l \in {x \in lits : x.kind = "chain"}}
    \cup UNION {TrueMatches(q) : q \in Chained}

MpvMatches == {o \in 1 .. Length : \E c \in ChainOffsets : o - c \in Dist[MPV]}

Expected ==
    {<<Literal, l.off>> : l \in {x \in lits : x.kind = "report"}}
    \cup (UNION {{<<q, o>> : o \in TrueMatches(q)} :
                    q \in Engine \ (Chained \cup Single \cup {MPV})})
    \cup {<<q, Min(TrueMatches(q))>> : q \in {s \in Single : TrueMatches(s) # {}}}
    \cup {<<MPV, o>> : o \in MpvMatches}

\* Matches reach the user in order of their end offset, whichever engine they
\* come from and however far the literal matcher ran ahead (catchup.c: the
\* priority queue, second place, report_ok_loc and the MPV's own catch-up).
InOrder == \A i \in 2 .. Len(rose.out) : rose.out[i - 1][2] <= rose.out[i][2]

\* Between literals, exactly the matches the patterns have up to the offset
\* caught up to have been reported, each once, and at the end of the block all
\* of them: none is skipped by a cached offset, a full queue, an engine
\* dropped too early or one left out of the priority queue.
ReportedExact ==
    pc \in {"scan", "done"} =>
       /\ Len(rose.out) = Cardinality(Range(rose.out))
       /\ Range(rose.out) = {m \in Expected : m[2] <= rose.minMatch}
       /\ pc = "done" => Range(rose.out) = Expected

\* The MPV sees its triggers in order: whatever feeds it has been caught up
\* before a later trigger is queued (roseCatchUpMpvFeeders; the queue's
\* commented-out assert in pushQueue).
MpvFedInOrder ==
    LET e == rose.eng[MPV]
    IN e.on => \A i \in DOMAIN e.queue :
                  e.cur <= e.queue[i] /\ (i > 1 => e.queue[i - 1] < e.queue[i])
=============================================================================
