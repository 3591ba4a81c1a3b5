------------------------------ MODULE BlockScan ------------------------------
(***************************************************************************)
(* hs_scan in block mode (hs_scan_internal of src/src/runtime.c), with the *)
(* report path of src/src/report.h and the Lily engines of                 *)
(* src/src/kunpeng-enhanced/runtime_lily.c, over one scratch region that   *)
(* serves any number of scans of any of its databases.                     *)
(*                                                                         *)
(* A step ends at a user callback or at a decision of the scan.  The user  *)
(* callback may ask to stop at any report.  The literal and NFA engines    *)
(* are external here: what they find in the data is chosen when the scan   *)
(* begins, as the ascending offsets `hits` of one rule per engine.  The    *)
(* parked Lily matches are the variables of LilyQueue, and every step on   *)
(* them is a step of LilyQueue.                                            *)
(*                                                                         *)
(* The small-write engine takes the place of the main engine for a short   *)
(* block and reports through the same path; both are "rose" here.  SOM     *)
(* patterns report through roseDeliverSomReport and are not modelled.      *)
(* STATUS_ERROR is only set for an opcode no compiler emits, so it cannot  *)
(* occur here.  Only the NEON build has Lily engines: the x86 build is     *)
(* this model with databases that have none, so that both queues stay      *)
(* empty and every flush returns at once.                                  *)
(***************************************************************************)
EXTENDS Integers, Sequences

CONSTANTS
    Databases,      \* the databases this scratch was allocated for
    Ekey,           \* [AllRules -> keys \cup {NoKey}]: exhaustion key of a rule
    NoKey,          \* INVALID_EKEY
    Capacity,       \* LILY_ITEMS_COUNT
    MaxOffset,      \* longest block
    MaxScans        \* bound on the number of scans

HitEngines == {"lily", "teddy", "rose"}
AllRules   == HitEngines \cup {"zero", "zeroEod", "eod", "comb"}
Engines    == {"lily", "teddy"}

\* A database: the engines and boundary programs its bytecode has and its
\* width bounds.  With a Lily engine the minimum width is at most 1 and there
\* is no maximum width.
DbOK(d) ==
    /\ d.has \subseteq AllRules /\ "rose" \in d.has
    /\ d.minWidth \in Nat /\ d.minWidthX \in Nat /\ d.maxBA \in Nat
    /\ d.minWidth <= d.minWidthX
    /\ d.has \cap Engines # {} => d.minWidthX <= 1 /\ d.maxBA >= MaxOffset

ASSUME ScanAssumption ==
    /\ \A d \in Databases : DbOK(d)
    /\ MaxScans \in Nat
    /\ Capacity \in Nat \ {0} /\ MaxOffset \in Nat \ {0}

VARIABLES
    items, start, lim, halted, out,   \* LilyQueue: scratch->lily_ctx, lily_for_teddy_ctx
    pc,         \* where hs_scan_internal is, "idle" between scans
    db, len,    \* arguments of the running scan
    hits, pos,  \* what each engine finds, and how much of it it has raised
    inUse,      \* scratch->in_use
    status,     \* core_info.status
    evec,       \* core_info.exhaustionVector
    lilyed,     \* a Lily engine returned KHSEL_MATCHING_TERMINATED
    rep,        \* the report in roseDeliverReport: [rule, to]
    after,      \* where the running flush returns to
    ret,        \* what the last hs_scan returned
    scan,       \* number of the scan (history)
    cbs,        \* the callbacks of this scan, in order (history)
    stopped,    \* the callback returned non-zero in this scan (history)
    before,     \* it did so in an earlier scan of this scratch (history)
    owner       \* the scan that parked an engine's items (history)

qvars == <<items, start, lim, halted, out>>
svars == <<db, len, hits, scan>>
hist  == <<cbs, stopped, before, owner>>
vars  == <<qvars, svars, pc, pos, inUse, status, evec, lilyed, rep, after, ret, hist>>

Q == INSTANCE LilyQueue

NoReport == [rule |-> "none", to |-> 0]
Flags    == {"TERMINATED", "EXHAUSTED"}
Labels   == {"idle", "zero_eod", "zero", "gate", "lily", "lily_done", "teddy",
             "engines_done", "rose", "report", "flush", "done_scan", "flushed",
             "eod", "set_retval", "comb", "comb_halt", "crashed"}
Errors   == {"SUCCESS", "SCAN_TERMINATED"}

AscSeqs(n) == {s \in UNION {[1..k -> 1..n] : k \in 0..n} :
                  \A i \in 1..(Len(s) - 1) : s[i] < s[i + 1]}

TypeOK ==
    /\ Q!TypeOK
    /\ pc \in Labels
    /\ db \in Databases /\ len \in 0..MaxOffset
    /\ hits \in [HitEngines -> Seq(Q!Offsets)]
    /\ pos \in [HitEngines -> Nat]
    /\ inUse \in BOOLEAN /\ lilyed \in BOOLEAN /\ stopped \in BOOLEAN
    /\ before \in BOOLEAN
    /\ status \subseteq Flags
    /\ evec \subseteq {Ekey[r] : r \in AllRules} \ {NoKey}
    /\ rep \in [rule : AllRules \cup {"none"}, to : 0..MaxOffset]
    /\ after \in Labels
    /\ ret \in Errors
    /\ scan \in 0..MaxScans
    /\ cbs \in Seq([rule : AllRules, to : 0..MaxOffset, scan : 0..MaxScans])
    /\ owner \in [Engines -> 0..MaxScans]

Init ==
    /\ Q!Init
    /\ pc = "idle"
    /\ db \in Databases /\ len = 0
    /\ hits = [e \in HitEngines |-> <<>>]
    /\ pos = [e \in HitEngines |-> 0]
    /\ inUse = FALSE /\ lilyed = FALSE /\ stopped = FALSE
    /\ status = {} /\ evec = {}
    /\ rep = NoReport /\ after = "idle"
    /\ ret = "SUCCESS" /\ scan = 0
    /\ before = FALSE
    /\ cbs = <<>> /\ owner = [e \in Engines |-> 0]

told_to_stop_matching   == "TERMINATED" \in status
isExhausted(r)          == Ekey[r] # NoKey /\ Ekey[r] \in evec
\* canExhaust: every report of the pattern set has a key.
isAllExhausted(ev)      == \A r \in db.has : Ekey[r] # NoKey /\ Ekey[r] \in ev

\* Fault: the key of a match is never set.
markAsMatched_Never(r)  == evec
markAsMatched(r)        == IF Ekey[r] = NoKey THEN evec ELSE evec \cup {Ekey[r]}

----------------------------------------------------------------------------
(* hs_scan_internal *)

\* Every return path of the scan unmarks the scratch.
Return(rv) ==
    /\ pc' = "idle"
    /\ inUse' = FALSE
    /\ ret' = rv
    /\ rep' = NoReport /\ after' = "idle"

\* The block is outside the widths anything but a boundary report can have.
Outside(d, n) == d.minWidthX > n \/ n > d.maxBA

\* What the engines of d can find in a block of n bytes.
HitsOf(d, n) ==
    {h \in [HitEngines -> AscSeqs(n)] :
        \A e \in HitEngines : e \notin d.has \/ Outside(d, n) => h[e] = <<>>}

\* The call enters with a free scratch: too short a block returns at once,
\* otherwise populateCoreInfo and clearEvec run.  The parked Lily items of an
\* earlier scan stay where they are.
ScanBegin ==
    /\ pc = "idle" /\ ~inUse /\ scan < MaxScans
    /\ \E d \in Databases, n \in 0..MaxOffset : \E h \in HitsOf(d, n) :
        /\ db' = d /\ len' = n /\ hits' = h
        /\ \/ /\ d.minWidth > n
              /\ Return("SUCCESS")
              /\ UNCHANGED <<status, evec>>
           \/ /\ d.minWidth <= n
              /\ inUse' = TRUE
              /\ status' = {} /\ evec' = {}
              /\ pc' = IF n = 0 THEN "zero_eod" ELSE "zero"
              /\ UNCHANGED <<ret, rep, after>>
    /\ scan' = scan + 1
    /\ pos' = [e \in HitEngines |-> 0]
    /\ cbs' = <<>> /\ stopped' = FALSE /\ lilyed' = FALSE
    /\ before' = (before \/ stopped)
    /\ UNCHANGED <<qvars, owner>>

\* Go on to label l without touching anything else.
Goto(l) ==
    /\ pc' = l
    /\ UNCHANGED <<qvars, svars, pos, inUse, status, evec, lilyed, rep, after, ret, hist>>

\* flushStoredLilyMatches(scratch, n) is called; it returns to label l.
Flush(n, l) ==
    /\ Q!BeginFlush(n)
    /\ pc' = "flush" /\ after' = l

\* Fault: only the second engine's queue is looked at.
FlushesFirst_OneQueue(to) == to > 0 /\ items["teddy"] # <<>>

\* Whether roseDeliverReport first flushes the parked matches up to `to`: when
\* either queue holds items.  At offset 0 none of them is due.
FlushesFirst(to) == to > 0 /\ \E e \in Engines : items[e] # <<>>

\* roseDeliverReport begins for rule r at offset to.
Raise(r, to) ==
    /\ rep' = [rule |-> r, to |-> to]
    /\ \/ /\ FlushesFirst(to)
          /\ Flush(to, "report")
       \/ /\ ~FlushesFirst(to)
          /\ pc' = "report"
          /\ UNCHANGED <<qvars, after>>

\* roseRunBoundaryProgram: the program's report, unless its key is on.
Boundary(l, r, to, next) ==
    /\ pc = l
    /\ \/ /\ r \in db.has /\ ~isExhausted(r)
          /\ Raise(r, to)
          /\ UNCHANGED <<svars, pos, inUse, status, evec, lilyed, ret, hist>>
       \/ /\ r \notin db.has \/ isExhausted(r)
          /\ Goto(next)

ZeroEod == Boundary("zero_eod", "zeroEod", 0, "set_retval")
Zero    == Boundary("zero", "zero", 0, "gate")
Eod     == Boundary("eod", "eod", len, "set_retval")

\* The width bounds; then the first Lily engine starts with an empty queue.
Gate ==
    /\ pc = "gate"
    /\ \/ /\ Outside(db, len)
          /\ Goto("done_scan")
       \/ /\ ~Outside(db, len) /\ "lily" \notin db.has
          /\ Goto("lily_done")
       \/ /\ ~Outside(db, len) /\ "lily" \in db.has
          /\ Q!InitItems("lily")
          /\ pc' = "lily"
          /\ UNCHANGED <<svars, pos, inUse, status, evec, lilyed, rep, after, ret, hist>>

\* lilyMatch and lilyForTeddyMatch: the next hit of e is parked, unless the
\* rule's key is on.  RoseDeliverReport marks the key as it parks the match,
\* and flushes both queues when its own is full.
EngineHit(e) ==
    LET to == hits[e][pos[e] + 1] IN
    /\ pc = e /\ pos[e] < Len(hits[e])
    /\ \/ /\ isExhausted(e)
          /\ pos' = [pos EXCEPT ![e] = @ + 1]
          /\ UNCHANGED <<qvars, pc, evec, after, owner>>
       \/ /\ ~isExhausted(e)
          /\ Q!Push(e, to)
          /\ pos' = [pos EXCEPT ![e] = @ + 1]
          /\ evec' = markAsMatched(e)
          /\ owner' = [owner EXCEPT ![e] = scan]
          /\ UNCHANGED <<pc, after>>
       \/ /\ ~isExhausted(e)
          /\ Len(items[e]) >= Capacity /\ start[e] # Len(items[e])
          /\ Flush(Q!All, e)
          /\ UNCHANGED <<pos, evec, owner>>
    /\ UNCHANGED <<svars, inUse, status, lilyed, rep, ret, cbs, stopped, before>>

\* The first Lily engine returns; the second one runs even when the first
\* was told to stop.
LilyDone ==
    /\ pc = "lily" /\ pos["lily"] = Len(hits["lily"])
    /\ Goto("lily_done")

TeddyStart ==
    /\ pc = "lily_done"
    /\ \/ /\ "teddy" \notin db.has
          /\ Goto("engines_done")
       \/ /\ "teddy" \in db.has
          /\ Q!InitItems("teddy")
          /\ pc' = "teddy"
          /\ UNCHANGED <<svars, pos, inUse, status, evec, lilyed, rep, after, ret, hist>>

TeddyDone ==
    /\ pc = "teddy" /\ pos["teddy"] = Len(hits["teddy"])
    /\ Goto("engines_done")

\* A Lily engine that was told to stop keeps the main engine from running.
EnginesDone ==
    /\ pc = "engines_done"
    /\ \/ /\ lilyed
          /\ status' = {"TERMINATED"}
          /\ pc' = "done_scan"
          /\ UNCHANGED <<qvars, svars, pos, inUse, evec, lilyed, rep, after, ret, hist>>
       \/ /\ ~lilyed
          /\ Goto("rose")

\* The main engine raises its next report, unless the rule's key is on.
RoseHit ==
    /\ pc = "rose" /\ pos["rose"] < Len(hits["rose"])
    /\ pos' = [pos EXCEPT !["rose"] = @ + 1]
    /\ \/ /\ isExhausted("rose")
          /\ UNCHANGED <<qvars, pc, rep, after>>
       \/ /\ ~isExhausted("rose")
          /\ Raise("rose", hits["rose"][pos["rose"] + 1])
    /\ UNCHANGED <<svars, inUse, status, evec, lilyed, ret, hist>>

RoseDone ==
    /\ pc = "rose" /\ pos["rose"] = Len(hits["rose"])
    /\ Goto("done_scan")

----------------------------------------------------------------------------
(* The report path *)

\* Where the scan goes on when a report of rule r came back with
\* MO_HALT_MATCHING, and when it did not.
OnHalt(r) == IF r = "rose" THEN "done_scan" ELSE IF r = "comb" THEN "comb_halt" ELSE "set_retval"
OnGoOn(r) == CASE r = "rose" -> "rose"
               [] r = "zero" -> "gate"
               [] r = "comb" -> "comb"
               [] OTHER      -> "set_retval"

\* The user callback for the main report in hand; h says that it asked to
\* stop.  A key that completes the set of keys stops the scan as well.
Callback(h) ==
    LET ev == markAsMatched(rep.rule)
        full == Ekey[rep.rule] # NoKey /\ isAllExhausted(ev)
    IN
    /\ pc = "report"
    /\ cbs' = Append(cbs, [rule |-> rep.rule, to |-> rep.to, scan |-> scan])
    /\ stopped' = (stopped \/ h)
    /\ \/ /\ h
          /\ status' = status \cup {"TERMINATED"}
          /\ evec' = evec
          /\ pc' = OnHalt(rep.rule)
       \/ /\ ~h /\ full
          /\ status' = status \cup {"EXHAUSTED"}
          /\ evec' = ev
          /\ pc' = OnHalt(rep.rule)
       \/ /\ ~h /\ ~full
          /\ status' = status
          /\ evec' = ev
          /\ pc' = OnGoOn(rep.rule)
    /\ UNCHANGED <<qvars, svars, pos, inUse, lilyed, rep, after, ret, before, owner>>

\* Fault: lilyItemReport only returns 1.
LilyStatus_Unmarked(h) == status

LilyStatus(h) == IF h THEN status \cup {"TERMINATED"} ELSE status

\* The user callback for a parked Lily match (lilyItemReport).  Its ReportID
\* is looked up in the table of the database being scanned.
LilyCallback(h) ==
    LET e == Q!Turn(lim) IN
    /\ pc = "flush" /\ e \in db.has
    /\ Q!Deliver(h)
    /\ cbs' = Append(cbs, [rule |-> e, to |-> Q!Due1(e), scan |-> owner[e]])
    /\ stopped' = (stopped \/ h)
    /\ status' = LilyStatus(h)
    /\ UNCHANGED <<svars, pc, pos, inUse, evec, lilyed, rep, after, ret, before, owner>>

\* The item is one an earlier scan left behind, and the database being
\* scanned has no such engine: getLilyReportVec returned NULL, and
\* lilyItemReport reads reportVec[index].
NoTable ==
    LET e == Q!Turn(lim) IN
    /\ pc = "flush" /\ ~halted
    /\ Q!Due(e, lim) /\ e \notin db.has
    /\ Goto("crashed")

\* The flush returns to its caller: roseDeliverReport, the Lily engine whose
\* queue was full (told to stop it gives up the rest of the data), or
\* done_scan.
FlushEnd ==
    /\ pc = "flush"
    /\ Q!EndFlush
    /\ pc' = IF after = "report" /\ halted THEN OnHalt(rep.rule) ELSE after
    /\ lilyed' = (lilyed \/ (halted /\ after \in Engines))
    /\ pos' = IF halted /\ after \in Engines
              THEN [pos EXCEPT ![after] = Len(hits[after])] ELSE pos
    /\ UNCHANGED <<svars, inUse, status, evec, rep, after, ret, hist>>

----------------------------------------------------------------------------
(* done_scan and set_retval *)

\* Fault: the fallback flush is left out.
DoneScan_NoFlush == pc = "done_scan" /\ Goto("flushed")

\* Whatever is still parked is reported, told to stop or not.
DoneScan ==
    /\ pc = "done_scan"
    /\ Flush(Q!All, "flushed")
    /\ UNCHANGED <<svars, pos, inUse, status, evec, lilyed, rep, ret, hist>>

Flushed ==
    /\ pc = "flushed"
    /\ \/ /\ told_to_stop_matching
          /\ Return("SCAN_TERMINATED")
          /\ UNCHANGED <<qvars, svars, pos, status, evec, lilyed, hist>>
       \/ /\ ~told_to_stop_matching
          /\ Goto("eod")

\* lastFlushCombProgram: the combination is reported when its formula holds.
SetRetval ==
    /\ pc = "set_retval"
    /\ \/ /\ "comb" \in db.has /\ ~isExhausted("comb")
          /\ Raise("comb", len)
          /\ UNCHANGED <<svars, pos, inUse, status, evec, lilyed, ret, hist>>
       \/ Goto("comb")

\* Fault: this early return forgets unmarkScratchInUse.
CombHalt_KeepsMark ==
    /\ pc = "comb_halt" /\ pc' = "idle" /\ ret' = "SCAN_TERMINATED"
    /\ UNCHANGED <<qvars, svars, pos, inUse, status, evec, lilyed, rep, after, hist>>

\* The last-flush program halted, be it for exhaustion.
CombHalt ==
    /\ pc = "comb_halt"
    /\ Return("SCAN_TERMINATED")
    /\ UNCHANGED <<qvars, svars, pos, status, evec, lilyed, hist>>

ScanEnd ==
    /\ pc = "comb"
    /\ Return(IF told_to_stop_matching THEN "SCAN_TERMINATED" ELSE "SUCCESS")
    /\ UNCHANGED <<qvars, svars, pos, status, evec, lilyed, hist>>

ScanStep ==
    \/ ZeroEod \/ Zero \/ Gate \/ Eod
    \/ \E e \in Engines : EngineHit(e)
    \/ LilyDone \/ TeddyStart \/ TeddyDone \/ EnginesDone
    \/ RoseHit \/ RoseDone
    \/ \E h \in BOOLEAN : Callback(h) \/ LilyCallback(h)
    \/ NoTable \/ FlushEnd \/ DoneScan \/ Flushed \/ SetRetval \/ CombHalt \/ ScanEnd

Next == ScanBegin \/ ScanStep

Spec == Init /\ [][Next]_vars /\ WF_vars(ScanStep)

----------------------------------------------------------------------------
(* Properties *)

Idle == pc = "idle" /\ scan > 0
\* The callbacks of this scan that are for its own matches; OwnUntilStopped
\* is about the others.
Own == {i \in DOMAIN cbs : cbs[i].scan = scan}
SameKey(r) == {q \in AllRules : Ekey[q] = Ekey[r]}

\* Within a scan the callback sees non-decreasing end offsets over all the
\* engines together, the parked Lily matches included (unit/hyperscan/
\* literals.cpp, MMAdaptor.RoseAfterLilyBlockMode), also after it asked to
\* stop, as long as no Lily queue fills up.
OrderedReports ==
    (\A e \in Engines : Len(hits[e]) <= Capacity) =>
        \A i, j \in Own : i <= j => cbs[i].to <= cbs[j].to

\* A rule with HS_FLAG_SINGLEMATCH is reported at most once per scan, also
\* when a Lily engine marked the key long before the match is delivered and
\* a rule of another engine shares the key.
SingleMatch ==
    \A i, j \in Own :
        Ekey[cbs[i].rule] # NoKey /\ Ekey[cbs[i].rule] = Ekey[cbs[j].rule] => i = j

\* A scan that returns HS_SUCCESS has reported every match the engines found:
\* each one of an unkeyed rule exactly once, one for every key that had any,
\* whichever engine stopped early and however often the Lily queues
\* overflowed.
NothingLost ==
    Idle /\ ret = "SUCCESS" => \A r \in HitEngines :
        IF Ekey[r] = NoKey
        THEN LET mine == {i \in Own : cbs[i].rule = r} IN
             /\ {cbs[i].to : i \in mine} = {hits[r][k] : k \in DOMAIN hits[r]}
             /\ \A i, j \in mine : cbs[i].to = cbs[j].to => i = j
        ELSE hits[r] # <<>> => \E i \in Own : cbs[i].rule \in SameKey(r)

\* hs_scan returns HS_SCAN_TERMINATED exactly when the callback asked to
\* stop, from whichever report site it did (hs_runtime.h:718); for a
\* combination without a single-match key.
TerminatedIffStopped == Idle => (ret = "SCAN_TERMINATED" <=> stopped)

\* As long as no scan of this scratch was stopped by the callback, a scan
\* reports only matches it found itself: every path to a return has drained
\* the parked items, or parked none.
OwnUntilStopped == ~before => Own = DOMAIN cbs

\* The scratch always comes back, as long as no earlier scan was stopped: no
\* report site, flush or early exit leaves a scan hanging or its scratch
\* marked, which would have HS_SCRATCH_IN_USE refuse every later scan.
ScratchComesBack == inUse /\ ~before ~> ~inUse

\* doc/dev-reference/runtime.rst:167: a scratch allocated for several
\* databases supports "scanning against any of the given databases", in any
\* order: no flush meets an item whose report table the database lacks.
ServesEveryDatabase == pc # "crashed"
=============================================================================
