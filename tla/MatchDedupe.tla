----------------------------- MODULE MatchDedupe -----------------------------
(***************************************************************************)
(* The match deduper of a scratch (struct match_deduper).  Engines can     *)
(* raise the same report several times at one offset, and a report with a  *)
(* look-ahead assertion is raised one byte late and adjusted back          *)
(* (offset_adjust -1), so two offsets are open at any time.  Plain reports *)
(* go out at once, unless the log of their offset already has their key.   *)
(* Reports with a start of match are held back until their offset is       *)
(* closed, so that the least start can be given.  The logs live in the     *)
(* scratch and are never cleared at the end of a call: the next call finds *)
(* what the last one left.                                                 *)
(***************************************************************************)
EXTENDS Integers, Sequences, FiniteSets, SequencesExt, FiniteSetsExt

CONSTANTS
    Ext,        \* dkeys of reports without a start of match
    Som,        \* dkeys of reports with one
    NoKey,      \* MO_INVALID_IDX: a report that needs no dedupe
    Mod,        \* 2^64: offsets are counted modulo it
    Horizon,    \* distance from which on a start is lost (SOM precision)
    MaxOffset,  \* bound: offsets of a call
    MaxReports, \* bound: reports raised, in all calls together
    MaxCalls    \* bound: calls that use the scratch

(* Assumed of the constants. *)
DedupeAssumption ==
    /\ IsFiniteSet(Ext \cup Som) /\ Ext \cap Som = {} /\ NoKey \notin Ext \cup Som
    /\ {Mod, Horizon, MaxOffset, MaxReports, MaxCalls} \subseteq Nat
    /\ Mod % 2 = 0 /\ MaxOffset + 2 < Mod

VARIABLES
    current,    \* deduper.current_report_offset
    log,        \* deduper.log[2]: keys raised at offsets of that parity
    somLog,     \* deduper.som_log[2]
    starts,     \* deduper.som_start_log[2]
    dirty,      \* deduper.som_log_dirty, two bits
    stage,      \* where dedupeCatchup or the end of the call has got to
    report,     \* the report it is about: <<key, from, adjust, offset>>
    sent,       \* keys clearSomLog has given of the log it runs over
    stopped,    \* STATUS_TERMINATED
    active,     \* a scan call is running
    last,       \* tctxt->minMatchOffset: reports are raised in offset order
    calls,      \* bound: calls made
    raised,     \* history: reports raised in this call, <<key, from, to>>
    count,      \* bound: how many
    out         \* history: callbacks of this call, <<key, from, to, adjusted>>

deduper == <<current, log, somLog, starts, dirty>>
flush == <<stage, report, sent>>
vars == <<deduper, flush, stopped, active, last, calls, raised, count, out>>

AllOnes == Mod - 1          \* ~0ULL
PastHorizon == AllOnes      \* HS_OFFSET_PAST_HORIZON, the same value
Parity(o) == o % 2
Key == Ext \cup Som
Offset == 0 .. MaxOffset
Start == Offset \cup {PastHorizon}
Idle == <<NoKey, 0, 0, 0>>
Ending == <<NoKey, 0, 0, AllOnes>>
Report == (Key \cup {NoKey}) \X Start \X {-1, 0} \X (Offset \cup {AllOnes})

TypeOK ==
    /\ current \in Offset \cup {AllOnes}
    /\ log \in [0 .. 1 -> SUBSET Ext]
    /\ somLog \in [0 .. 1 -> SUBSET Som]
    /\ starts \in [0 .. 1 -> [Som -> Start]]
    /\ dirty \in 0 .. 3
    /\ stage \in {"idle", "first", "second", "done"}
    /\ report \in Report /\ sent \subseteq Som
    /\ stopped \in BOOLEAN /\ active \in BOOLEAN
    /\ last \in Offset /\ calls \in 0 .. MaxCalls
    /\ raised \subseteq (Key \cup {NoKey}) \X Start \X Offset
    /\ count \in 0 .. MaxReports
    /\ \A i \in DOMAIN out : out[i] \in (Key \cup {NoKey}) \X Start \X Offset \X BOOLEAN

(* A fresh scratch: what its logs hold is whatever the memory held. *)
Init ==
    /\ current = AllOnes
    /\ log \in [0 .. 1 -> SUBSET Ext]
    /\ somLog \in [0 .. 1 -> SUBSET Som]
    /\ starts = [b \in 0 .. 1 |-> [k \in Som |-> 0]]
    /\ dirty = 1
    /\ stage = "idle" /\ report = Idle /\ sent = {}
    /\ stopped = FALSE /\ active = FALSE
    /\ last = 0 /\ calls = 0 /\ raised = {} /\ count = 0 /\ out = <<>>

\* Fault: the logs of the last call are taken to be clean.
ResetDirty_Clean == 0

(* populateCoreInfo: "som logs have not been cleared". *)
ResetDirty == 1

(* A call begins: hs_scan, a stream write, or the end of a stream. *)
Begin(base) ==
    /\ ~active /\ calls < MaxCalls
    /\ active' = TRUE /\ stopped' = FALSE
    /\ current' = AllOnes /\ dirty' = ResetDirty
    /\ last' = base /\ calls' = calls + 1
    /\ raised' = {} /\ out' = <<>>
    /\ UNCHANGED <<log, somLog, starts, flush, count>>

----------------------------------------------------------------------------
(* Flushing the start-of-match logs *)

(***************************************************************************)
(* flushStoredSomMatches(offset), up to the first match: nothing to do     *)
(* when no log is dirty, and logs of an earlier call are just cleared.     *)
(***************************************************************************)
BeginFlush(offset) ==
    \/ /\ dirty = 0
       /\ stage' = "done"
       /\ UNCHANGED <<somLog, dirty>>
    \/ /\ dirty # 0 /\ current = AllOnes
       /\ somLog' = [b \in 0 .. 1 |-> {}]
       /\ dirty' = 0
       /\ stage' = "done"
    \/ /\ dirty # 0 /\ current # AllOnes
       /\ stage' = "first"
       /\ UNCHANGED <<somLog, dirty>>

(* The offset moves by one: only the first of the two logs is flushed. *)
OneLog == report[4] = (current + 1) % Mod

(* The log of the byte before the current offset is first. *)
LogOffset == IF stage = "first" THEN (current - 1) % Mod ELSE current

(* However a flush ends, its dirty bits go. *)
Leave(next) ==
    /\ stage' = next
    /\ dirty' = IF next = "second" THEN dirty
                ELSE IF OneLog THEN dirty \div 2 ELSE 0

\* Fault: the second log is flushed although the user has asked to stop.
AfterHalt_GoesOn == IF stage = "first" /\ ~OneLog THEN "second" ELSE "idle"

(* clearSomLog(first) || clearSomLog(second), and DEDUPE_HALT: the report  *)
(* that closed the offsets is dropped.                                     *)
AfterHalt == "idle"

AfterLog == IF stage = "first" /\ ~OneLog THEN "second" ELSE "done"

\* Fault: matches that are held back are not flagged.
Adjusted_Never(to) == FALSE

Adjusted(to) == current # to

(***************************************************************************)
(* One turn of the loop of clearSomLog: the match of one key is given,     *)
(* flagged as adjusted when its offset is not the current one.  A log that *)
(* was not run to its end keeps its content.                               *)
(***************************************************************************)
FireMatch(k, halt) ==
    LET b == Parity(LogOffset) IN
    /\ stage \in {"first", "second"}
    /\ k \in somLog[b] \ sent
    /\ out' = Append(out, <<k, starts[b][k], LogOffset, Adjusted(LogOffset)>>)
    /\ IF halt
       THEN /\ stopped' = TRUE
            /\ sent' = {}
            /\ Leave(AfterHalt)
            /\ report' = IF AfterHalt = "idle" THEN Idle ELSE report
       ELSE /\ sent' = sent \cup {k}
            /\ UNCHANGED <<stopped, stage, dirty, report>>
    /\ UNCHANGED <<current, log, somLog, starts, active, last, calls, raised, count>>

(* Every match of the log is given: fatbit_clear, and on to the next. *)
ClearLog ==
    LET b == Parity(LogOffset) IN
    /\ stage \in {"first", "second"}
    /\ sent = somLog[b]
    /\ somLog' = [somLog EXCEPT ![b] = {}]
    /\ sent' = {}
    /\ Leave(AfterLog)
    /\ UNCHANGED <<current, log, starts, report, stopped, active, last, calls,
                   raised, count, out>>

----------------------------------------------------------------------------
(* Reports *)

(* dedupeCatchup: the plain log of offsets that are closed is cleared. *)
ClearedLog(offset) ==
    IF offset = (current + 1) % Mod
    THEN [log EXCEPT ![Parity(offset)] = {}]
    ELSE [b \in 0 .. 1 |-> {}]

(***************************************************************************)
(* An engine raises report k at the given offset, with a start that lies   *)
(* before its end or too far back to be known (a stored start that was     *)
(* past the horizon, or one that a gough automaton has lost).  Reports are *)
(* raised in offset order; an adjusted one is about the byte before, which *)
(* the call or its history holds.  A report at a new offset closes earlier *)
(* offsets (dedupeCatchup, first half).                                    *)
(***************************************************************************)
Raise(k, from, adj, offset) ==
    /\ active /\ ~stopped /\ stage = "idle" /\ count < MaxReports
    /\ offset >= last
    /\ \/ from <= offset + adj
       \/ from = PastHorizon /\ offset + adj >= Horizon
    /\ report' = <<k, from, adj, offset>>
    /\ IF offset = current
       THEN /\ stage' = "done"
            /\ UNCHANGED <<log, somLog, dirty>>
       ELSE /\ log' = ClearedLog(offset)
            /\ BeginFlush(offset)
    /\ last' = offset /\ count' = count + 1
    /\ raised' = raised \cup {<<k, from, offset + adj>>}
    /\ UNCHANGED <<current, starts, sent, stopped, active, calls, out>>

\* Fault: the log of the offset of the engine is used, not of the report.
LogOf_Unadjusted(offset, adj) == Parity(offset)

LogOf(offset, adj) == Parity(offset + adj)

(* The flush is done and the deduper takes the report. *)
Take ==
    /\ stage = "done" /\ report[4] # AllOnes
    /\ stage' = "idle" /\ report' = Idle
    /\ current' = report[4]
    /\ UNCHANGED <<sent, active, last, calls, raised, count>>

(***************************************************************************)
(* A plain report (DEDUPE, DEDUPE_AND_REPORT, and DEDUPE_SOM with          *)
(* quash_som): skipped if its key is in the log of its offset, delivered   *)
(* otherwise; the user may ask to stop.                                    *)
(***************************************************************************)
TakePlain(halt) ==
    LET k == report[1]
        adj == report[3]
        b == LogOf(report[4], adj)
    IN /\ Take /\ k \notin Som
       /\ log' = IF k = NoKey THEN log ELSE [log EXCEPT ![b] = @ \cup {k}]
       /\ IF k # NoKey /\ k \in log[b]
          THEN ~halt /\ UNCHANGED out
          ELSE out' = Append(out, <<k, 0, report[4] + adj, adj # 0>>)
       /\ stopped' = halt
       /\ UNCHANGED <<somLog, starts, dirty>>

StartOf(seen, old, from) == IF seen /\ old < from THEN old ELSE from

DirtyWith(d, bit) == IF (d \div bit) % 2 = 1 THEN d ELSE d + bit

(* A report with a start of match: logged, never delivered here.  MIN is   *)
(* taken of the numbers, so that any start that is known wins over         *)
(* HS_OFFSET_PAST_HORIZON.                                                 *)
TakeSom ==
    LET k == report[1]
        adj == report[3]
        b == LogOf(report[4], adj)
    IN /\ Take /\ k \in Som
       /\ somLog' = [somLog EXCEPT ![b] = @ \cup {k}]
       /\ starts' = [starts EXCEPT ![b][k] = StartOf(k \in somLog[b], @, report[2])]
       /\ dirty' = DirtyWith(dirty, IF adj # 0 THEN 1 ELSE 2)
       /\ UNCHANGED <<log, stopped, out>>

(***************************************************************************)
(* roseRunBoundaryProgram, before its reports: the logs of an earlier call *)
(* are cleared now if no report of this call has done it.                  *)
(***************************************************************************)
Boundary ==
    /\ active /\ ~stopped /\ stage = "idle"
    /\ current = AllOnes /\ dirty # 0
    /\ somLog' = [b \in 0 .. 1 |-> {}]
    /\ dirty' = 0
    /\ UNCHANGED <<current, log, starts, flush, stopped, active, last, calls,
                   raised, count, out>>

(* The call ends: flushStoredSomMatches(scratch, ~0ULL) unless stopped. *)
End ==
    /\ active /\ stage = "idle"
    /\ IF stopped
       THEN active' = FALSE /\ UNCHANGED <<somLog, dirty, stage, report>>
       ELSE BeginFlush(AllOnes) /\ report' = Ending /\ UNCHANGED active
    /\ UNCHANGED <<current, log, starts, sent, stopped, last, calls, raised, count, out>>

Return ==
    /\ stage = "done" /\ report = Ending
    /\ active' = FALSE
    /\ stage' = "idle" /\ report' = Idle
    /\ UNCHANGED <<deduper, sent, stopped, last, calls, raised, count, out>>

Next ==
    \/ \E base \in Offset : Begin(base)
    \/ \E k \in Ext \cup {NoKey}, adj \in {-1, 0}, o \in Offset :
            o + adj >= 0 /\ Raise(k, 0, adj, o)
    \/ \E k \in Som, from \in Start, adj \in {-1, 0}, o \in Offset :
            o + adj >= 0 /\ Raise(k, from, adj, o)
    \/ \E k \in Som, halt \in BOOLEAN : FireMatch(k, halt)
    \/ ClearLog
    \/ \E halt \in BOOLEAN : TakePlain(halt)
    \/ TakeSom
    \/ Boundary
    \/ End
    \/ Return

Spec == Init /\ [][Next]_vars

----------------------------------------------------------------------------
(* Properties *)

(***************************************************************************)
(* No match is given twice: in one call the callback sees a key at most    *)
(* once at an offset, however often and in whichever order the engines     *)
(* raise it, with or without adjustment, whatever an earlier call left in  *)
(* the logs (dedupeCatchup, clearSomLog).                                  *)
(***************************************************************************)
NoDuplicate ==
    \A i, j \in DOMAIN out :
        (i # j /\ out[i][1] # NoKey) => <<out[i][1], out[i][3]>> # <<out[j][1], out[j][3]>>

(* What the user is to be told of the reports raised: one match for each   *)
(* key and offset, with the least of its starts.                           *)
Owed == {r \in raised : \A q \in raised : (q[1] = r[1] /\ q[3] = r[3]) => r[2] <= q[2]}

Told == {<<out[i][1], out[i][2], out[i][3]>> : i \in DOMAIN out}

(***************************************************************************)
(* Nothing is invented and nothing is lost.  At any time of a call, one    *)
(* the user has stopped included, what was given was raised in this call   *)
(* and has its final start: the earliest start that an engine could tell,  *)
(* and HS_OFFSET_PAST_HORIZON only if none could, even though more reports *)
(* for the match may come after the first (dedupeCatchup holds it back for *)
(* them).  Whatever ends two bytes or more before a match that was given   *)
(* was given too, and a call that was not stopped has given everything.    *)
(***************************************************************************)
ExactDelivery ==
    /\ Told \subseteq Owed
    /\ \A r \in Owed, m \in Told : r[3] < m[3] - 1 => r \in Told
    /\ ~active /\ ~stopped => Owed \subseteq Told

(***************************************************************************)
(* The order the collider checks (UltimateTruth.cpp, lastRawMatch): the    *)
(* end offsets, counted up by one for a match flagged as adjusted, never   *)
(* go back, although held-back matches are mixed with immediate ones.      *)
(***************************************************************************)
RawOrder ==
    \A i, j \in DOMAIN out :
        i < j => out[i][3] + (IF out[i][4] THEN 1 ELSE 0)
                 <= out[j][3] + (IF out[j][4] THEN 1 ELSE 0)

(***************************************************************************)
(* After the user asked to stop no callback is made in this call and the   *)
(* call does not forget that it was stopped: the rest of the log that is   *)
(* being flushed, its second log, the report that made the flush necessary *)
(* and the flush at the end are all left out (clearSomLog,                 *)
(* flushStoredSomMatches_i, DEDUPE_HALT).                                  *)
(***************************************************************************)
SilentAfterStop == [][(active /\ stopped) => (out' = out /\ stopped')]_vars

(***************************************************************************)
(* A start of match that lies past the horizon is reported as such: a      *)
(* match one of whose starts is past it is given with                      *)
(* HS_OFFSET_PAST_HORIZON, as that is its leftmost start (hs_runtime.h,    *)
(* HS_OFFSET_PAST_HORIZON; compilation.rst, "Start of Match").             *)
(***************************************************************************)
LeftmostStart ==
    \A r \in raised, m \in Told :
        (r[1] = m[1] /\ r[3] = m[3] /\ r[2] = PastHorizon) => m[2] = PastHorizon

====
