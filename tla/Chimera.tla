------------------------------- MODULE Chimera -------------------------------
(***************************************************************************)
(* ch_scan (chimera/ch_runtime.c): regular expressions with PCRE's         *)
(* semantics, found with the help of one Hyperscan scan.                   *)
(*                                                                         *)
(* A pattern is of one of three kinds.  A fixed-width one is matched by    *)
(* Hyperscan itself.  A guarded one is matched by PCRE, which is started   *)
(* when Hyperscan first reports a prefilter for it.  An unguarded one is   *)
(* matched by PCRE from the beginning.  The next match of every pattern    *)
(* waits in a priority queue, and before a fixed-width match is queued all *)
(* matches up to its end are reported and replaced by the next ones PCRE   *)
(* finds.  The user callback may go on, skip the pattern or stop the scan. *)
(*                                                                         *)
(* External: PCRE, by where it finds a match that begins at an offset, and *)
(* hs_scan, by the order in which it reports.  The capture groups of a     *)
(* match are its two offsets.  A code point is one offset.                 *)
(***************************************************************************)
EXTENDS Integers, Sequences, FiniteSets, FiniteSetsExt, SequencesExt

CONSTANTS
    Patterns,    \* ch_pattern indices, numbers
    Databases,   \* [width, unguarded, single] records
    Data,        \* what PCRE finds: [Patterns -> [0 .. Length -> end or None]]
    None,
    Length,      \* bound: length of the block
    MaxErrors    \* bound: resource limits PCRE runs into, in a scan

\* A pattern of width 0 is not a fixed-width one.
Fixed(d)   == {p \in Patterns : d.width[p] # 0}
Guarded(d) == Patterns \ d.unguarded
Confirm(d) == Guarded(d) \ Fixed(d)

DataFits(d, ends) ==
    \A p \in Patterns, o \in 0 .. Length :
        ends[p][o] # None => /\ ends[p][o] \in o .. Length
                             /\ p \in Fixed(d) => ends[p][o] = o + d.width[p]

(* Assumed of the constants. *)
ChimeraAssumption ==
    /\ Length \in Nat /\ MaxErrors \in Nat
    /\ Patterns \subseteq Nat /\ IsFiniteSet(Patterns)
    /\ None \notin Nat /\ None \notin [from : Nat, to : Nat, id : Nat]
    /\ \A d \in Databases :
          /\ d.width \in [Patterns -> Nat] /\ d.unguarded \subseteq Patterns \ Fixed(d)
          /\ d.single \subseteq Patterns
    /\ Data \subseteq [Patterns -> [0 .. Length -> Nat \cup {None}]]

VARIABLES
    db, ends,   \* the database of the scratch, and the data
    pc,         \* "idle", "init", "multi", "catchup" or "finish"
    cur, left,  \* hs_scan: the offset it is at, and what it reports there;
                \* initQueue: the patterns it has not come to
    active,     \* scratch->active
    scanStart,  \* patternData.scanStart
    match,      \* patternData.match
    pq,         \* scratch->pq, smallest item first
    job,        \* the arguments of catchupPcre
    ret,        \* scratch->ret, and what the last ch_scan returned
    errors,     \* history: resource limits met
    cut,        \* history: patterns given up, by the user or at a limit
    cbs         \* history: the user callbacks of this scan with their answers

vars == <<db, ends, pc, cur, left, active, scanStart, match, pq, job, ret, errors, cut, cbs>>

Span    == [from : 0 .. Length, to : 0 .. Length]
Item    == [from : 0 .. Length, to : 0 .. Length, id : Patterns]
Answers == {"continue", "skip", "terminate"}
Flush   == [from |-> Length, to |-> Length, id |-> None]

TypeOK ==
    /\ db \in Databases /\ DataFits(db, ends)
    /\ pc \in {"idle", "init", "multi", "catchup", "finish"}
    /\ cur \in 0 .. Length /\ left \subseteq Patterns /\ active \subseteq Patterns
    /\ scanStart \in [Patterns -> 0 .. Length + 1] /\ match \in [Patterns -> Span]
    /\ pq \in Seq(Item) /\ job \in Item \cup {Flush}
    /\ ret \in {"SUCCESS", "SCAN_TERMINATED", "FAIL_INTERNAL"}
    /\ errors \in 0 .. MaxErrors /\ cut \subseteq Patterns
    /\ cbs \in Seq([span : Span, id : Patterns, groups : Span, answer : Answers])

Init ==
    /\ db \in Databases /\ ends = [p \in Patterns |-> [o \in 0 .. Length |-> None]]
    /\ pc = "idle" /\ cur = 0 /\ left = {} /\ active = {}
    /\ scanStart = [p \in Patterns |-> 0] /\ match = [p \in Patterns |-> [from |-> 0, to |-> 0]]
    /\ pq = <<>> /\ job = Flush /\ ret = "SUCCESS"
    /\ errors = 0 /\ cut = {} /\ cbs = <<>>
-----------------------------------------------------------------------------
(* The priority queue *)

\* PQ_COMP
PQ_COMP(a, b) ==
    \/ a.to < b.to
    \/ a.to = b.to /\ a.from < b.from
    \/ a.to = b.to /\ a.from = b.from /\ a.id < b.id

\* pq_insert_with: x goes before the first item that it precedes.
Insert(q, x) ==
    LET at == Min({i \in DOMAIN q : PQ_COMP(x, q[i])} \cup {Len(q) + 1}) IN
    InsertAt(q, at, x)

-----------------------------------------------------------------------------
(* scanPcre *)

\* The leftmost match of p from s on (external: pcre_exec).
First(p, s) ==
    LET begins == {o \in s .. Length : ends[p][o] # None} IN
    IF begins = {} THEN None
    ELSE [from |-> Min(begins), to |-> ends[p][Min(begins)], id |-> p]

\* Fault: a vacuous match is found again.
StartAfter_Vacuous(m) == m.to

\* Where the next scan of the pattern starts after match m.
StartAfter(m) == IF m.from # m.to THEN m.to ELSE m.to + 1

\* What scanPcre can do from s on: queue the next match, find none, or meet a
\* limit of PCRE, where the error callback says how to go on; other errors
\* are fatal.
Outcomes(p, s) ==
    {[ret |-> "continue", found |-> First(p, s) # None, item |-> First(p, s), err |-> 0]} \cup
    {[ret |-> r, found |-> FALSE, item |-> None, err |-> 1] :
        r \in {r \in Answers \cup {"fail"} : errors < MaxErrors}}

\* scanPcre(p) with outcome o on queue q; a pattern without a new match that
\* goes on keeps start `otherwise`.
ScanPcre(p, o, q, otherwise) ==
    /\ pq' = IF o.found THEN Insert(q, o.item) ELSE q
    /\ match' = IF o.found
                THEN [match EXCEPT ![p] = [from |-> o.item.from, to |-> o.item.to]] ELSE match
    /\ scanStart' = [scanStart EXCEPT ![p] =
                        IF o.found THEN StartAfter(o.item)
                        ELSE IF o.ret = "skip" THEN Length ELSE otherwise]
    /\ errors' = errors + o.err

CutBy(p, o) == IF o.err = 1 THEN cut \cup {p} ELSE cut

-----------------------------------------------------------------------------
(* ch_scan_i *)

Return(rv) == pc' = "idle" /\ ret' = rv

\* A result of scanPcre that ends the scan.
Fatal(o) == o.ret \in {"terminate", "fail"}
Verdict(o) == IF o.ret = "terminate" THEN "SCAN_TERMINATED" ELSE "FAIL_INTERNAL"

\* Fault: the active set of the last scan is kept.
ClearActive_Kept == active
ClearActive == {}

\* The scan begins: an empty queue and no active pattern; the offsets of an
\* earlier scan stay in patternData.  Until it ends ret is scratch->ret.  One
\* database is scanned with: what another one would leave behind is alike.
ChScan ==
    /\ pc = "idle"
    /\ \E e \in Data : DataFits(db, e) /\ ends' = e
    /\ pc' = "init" /\ left' = db.unguarded /\ db' = db
    /\ active' = ClearActive /\ pq' = <<>> /\ cur' = 0
    /\ ret' = "SUCCESS" /\ errors' = 0 /\ cut' = {} /\ cbs' = <<>>
    /\ UNCHANGED <<scanStart, match, job>>

\* initQueue: the first match of an unguarded pattern.
InitQueue ==
    /\ pc = "init" /\ left # {}
    /\ LET p == Min(left) IN
       /\ left' = left \ {p} /\ active' = active \cup {p}
       /\ \E o \in Outcomes(p, 0) :
             /\ ScanPcre(p, o, pq, scanStart[p])
             /\ cut' = CutBy(p, o)
             /\ \/ Fatal(o) /\ Return(Verdict(o))
                \/ ~Fatal(o) /\ UNCHANGED <<pc, ret>>
    /\ UNCHANGED <<db, ends, cur, job, cbs>>

\* The patterns hs_scan reports at an offset: fixed-width ones where they
\* match; a prefilter at least where its pattern could match and, with a
\* single-match flag, not necessarily again.
Reports(d, e, act, c) ==
    LET hit(p) == \E o \in 0 .. Length : e[p][o] = c
        must   == {p \in Guarded(d) : hit(p) /\ (p \in Fixed(d) \/ p \notin act)}
    IN {must \cup x : x \in SUBSET Confirm(d)}

\* hs_scan starts, unless the database has no patterns for it.
StartMulti ==
    /\ pc = "init" /\ left = {}
    /\ \/ /\ Guarded(db) # {}
          /\ pc' = "multi" /\ left' \in Reports(db, ends, active, 0)
          /\ UNCHANGED job
       \/ /\ Guarded(db) = {}
          /\ pc' = "catchup" /\ job' = Flush
          /\ UNCHANGED left
    /\ UNCHANGED <<db, ends, cur, active, scanStart, match, pq, ret, errors, cut, cbs>>

\* hs_scan goes on to the next offset, or is through; then the queue is
\* flushed.
Advance ==
    /\ pc = "multi" /\ left = {}
    /\ \/ /\ cur < Length
          /\ cur' = cur + 1 /\ left' \in Reports(db, ends, active, cur + 1)
          /\ UNCHANGED <<pc, job>>
       \/ /\ cur = Length
          /\ pc' = "catchup" /\ job' = Flush
          /\ UNCHANGED <<cur, left>>
    /\ UNCHANGED <<db, ends, active, scanStart, match, pq, ret, errors, cut, cbs>>
-----------------------------------------------------------------------------
(* multiCallback *)

allConfirm == Fixed(db) = {}
allSingle  == db.single = Patterns

\* A report that needs nothing done; when nothing can come of any further
\* one, hs_scan is stopped.
Ignore(over) ==
    /\ \/ /\ over /\ active = Patterns
          /\ pc' = "catchup" /\ job' = Flush
       \/ /\ ~(over /\ active = Patterns)
          /\ UNCHANGED <<pc, job>>
    /\ UNCHANGED <<active, scanStart, match, pq, ret, errors, cut>>

\* A prefilter has fired before.
Confirmed(p) ==
    /\ p \in Confirm(db) /\ p \in active
    /\ Ignore(allConfirm)

\* A prefilter fires for the first time: PCRE runs from the beginning.
FirstConfirm(p) ==
    /\ p \in Confirm(db) /\ p \notin active
    /\ active' = active \cup {p}
    /\ \E o \in Outcomes(p, 0) :
          /\ ScanPcre(p, o, pq, 0)
          /\ cut' = CutBy(p, o)
          /\ \/ Fatal(o) /\ Return(Verdict(o))
             \/ ~Fatal(o) /\ UNCHANGED <<pc, ret>>
    /\ UNCHANGED job

\* A fixed-width match goes into the queue.
Enqueue(x, q) ==
    /\ scanStart' = [scanStart EXCEPT ![x.id] = StartAfter(x)]
    /\ match' = [match EXCEPT ![x.id] = [from |-> x.from, to |-> x.to]]
    /\ pq' = Insert(q, x)

FirstFixed(p, x) ==
    /\ p \in Fixed(db) /\ p \notin active
    /\ active' = active \cup {p}
    /\ Enqueue(x, pq)
    /\ UNCHANGED <<pc, job, ret, errors, cut>>

\* The match overlaps the last one, or PCRE has already queued it.
TooEarly(p, to) == to < scanStart[p] + db.width[p]

FixedIgnored(p, x) ==
    /\ p \in Fixed(db) /\ p \in active
    /\ TooEarly(p, x.to) \/ p \in db.single
    /\ Ignore(~TooEarly(p, x.to) /\ allSingle)

FixedCatchUp(p, x) ==
    /\ p \in Fixed(db) /\ p \in active /\ ~TooEarly(p, x.to) /\ p \notin db.single
    /\ pc' = "catchup" /\ job' = x
    /\ UNCHANGED <<active, scanStart, match, pq, ret, errors, cut>>

MultiCallback(p) ==
    LET x == [from |-> cur - db.width[p], to |-> cur, id |-> p] IN
    /\ pc = "multi" /\ p \in left /\ left' = left \ {p}
    /\ \/ Confirmed(p)
       \/ FirstConfirm(p)
       \/ FirstFixed(p, x)
       \/ FixedIgnored(p, x)
       \/ FixedCatchUp(p, x)
    /\ UNCHANGED <<db, ends, cur, cbs>>
-----------------------------------------------------------------------------
(* catchupPcre *)

\* catchupPcre returns rv.
Caught(rv) == pc' = "finish" /\ ret' = rv

\* Fault: PCRE is asked for the next match of every pattern.
OwnMatch_Never(top) == FALSE

\* The last match of the pattern whose next one hs_scan has found: PCRE need
\* not look for it, and catchupPcre is done.
OwnMatch(top) == top.id = job.id

\* The user callback for the first item, and its answer.
CatchUpReport(answer) ==
    LET top  == Head(pq)
        span == [from |-> top.from, to |-> top.to]
        again == Length >= scanStart[top.id] /\ top.id \notin db.single
    IN
    /\ pc = "catchup" /\ pq # <<>> /\ top.to <= job.to
    /\ cbs' = Append(cbs, [span |-> span, id |-> top.id, groups |-> match[top.id],
                           answer |-> answer])
    /\ \/ /\ answer = "terminate"
          /\ pq' = Tail(pq)
          /\ Caught("SCAN_TERMINATED")
          /\ UNCHANGED <<scanStart, match, errors, cut>>
       \/ /\ answer = "skip"
          /\ pq' = Tail(pq)
          /\ scanStart' = [scanStart EXCEPT ![top.id] = Length]
          /\ cut' = cut \cup {top.id}
          /\ \/ OwnMatch(top) /\ Caught("SUCCESS")
             \/ ~OwnMatch(top) /\ UNCHANGED <<pc, ret>>
          /\ UNCHANGED <<match, errors>>
       \/ /\ answer = "continue" /\ OwnMatch(top)
          /\ pq' = Tail(pq)
          /\ Caught("SUCCESS")
          /\ UNCHANGED <<scanStart, match, errors, cut>>
       \/ /\ answer = "continue" /\ ~OwnMatch(top) /\ ~again
          /\ pq' = Tail(pq)
          /\ UNCHANGED <<pc, ret, scanStart, match, errors, cut>>
       \/ /\ answer = "continue" /\ ~OwnMatch(top) /\ again
          /\ \E o \in Outcomes(top.id, scanStart[top.id]) :
                /\ ScanPcre(top.id, o, Tail(pq),
                            IF Fatal(o) THEN scanStart[top.id] ELSE Length)
                /\ cut' = CutBy(top.id, o)
                /\ \/ Fatal(o) /\ Caught(Verdict(o))
                   \/ ~Fatal(o) /\ UNCHANGED <<pc, ret>>
    /\ UNCHANGED <<db, ends, cur, left, active, job>>

\* Nothing up to the end of the match is left.  A later item would have the
\* match inserted here, and by multiCallback once more.
CatchUpEnd ==
    /\ pc = "catchup"
    /\ pq # <<>> => Head(pq).to > job.to
    /\ pq' = IF pq = <<>> THEN pq ELSE Insert(pq, job)
    /\ Caught("SUCCESS")
    /\ UNCHANGED <<db, ends, cur, left, active, scanStart, match, job, errors, cut, cbs>>

\* Back in multiCallback the match is queued, unless its pattern was skipped;
\* a result other than success ends hs_scan and the call.
Finish ==
    /\ pc = "finish"
    /\ \/ /\ job = Flush
          /\ pc' = "idle"
          /\ UNCHANGED <<scanStart, match, pq>>
       \/ /\ job # Flush
          /\ pc' = IF ret = "SUCCESS" THEN "multi" ELSE "idle"
          /\ \/ /\ scanStart[job.id] >= Length
                /\ UNCHANGED <<scanStart, match, pq>>
             \/ /\ scanStart[job.id] < Length
                /\ Enqueue(job, pq)
    /\ UNCHANGED <<db, ends, cur, left, active, job, ret, errors, cut, cbs>>

Next ==
    \/ ChScan \/ InitQueue \/ StartMulti \/ Advance
    \/ \E p \in Patterns : MultiCallback(p)
    \/ \E a \in Answers : CatchUpReport(a)
    \/ CatchUpEnd \/ Finish

Spec == Init /\ [][Next]_vars
-----------------------------------------------------------------------------
(* Properties *)

\* The callbacks for p among the first n.
Told(p, n) == {i \in 1 .. n : cbs[i].id = p}

\* Where PCRE goes on after those callbacks: at the beginning, or where the
\* last match ended, and one further on if that one was empty.
Resume(p, n) ==
    IF Told(p, n) = {} THEN 0
    ELSE LET m == cbs[Max(Told(p, n))].span IN IF m.from = m.to THEN m.to + 1 ELSE m.to

\* PCRE's next match of p then.
Due(p, n) == First(p, Resume(p, n))

\* For each pattern the callback sees PCRE's successive matches with their
\* own groups, whichever of Hyperscan and PCRE found which of them and
\* whatever the scratch was used for before, and one at most with the
\* single-match flag; a scan that ends well has given them all, up to a skip
\* or a resource limit.  The matches of all patterns come in the order of
\* their ends.  The callback's answer holds (ch_runtime.h): nothing comes
\* after TERMINATE, and no match of a pattern after SKIP_PATTERN.
PcreExact ==
    /\ \A i \in DOMAIN cbs :
          LET p == cbs[i].id IN
          /\ Due(p, i - 1) = [from |-> cbs[i].span.from, to |-> cbs[i].span.to, id |-> p]
          /\ cbs[i].groups = cbs[i].span
          /\ \A j \in Told(p, i - 1) : cbs[j].answer = "continue" /\ p \notin db.single
    /\ \A i, j \in DOMAIN cbs : i < j =>
          cbs[i].span.to <= cbs[j].span.to /\ cbs[i].answer # "terminate"
    /\ pc = "idle" /\ ret = "SUCCESS" =>
          \A p \in Patterns \ cut :
             \/ Due(p, Len(cbs)) = None
             \/ p \in db.single /\ Told(p, Len(cbs)) # {}

\* The queue is an array of patternCount items.  It never overflows, and as
\* long as the scan goes on it holds one item of a pattern at most: the next
\* match, found by one of the two engines.
QueueFits ==
    /\ Len(pq) <= Cardinality(Patterns)
    /\ ret = "SUCCESS" => \A i, j \in DOMAIN pq : pq[i].id = pq[j].id => i = j
=============================================================================
