-------------------------------- MODULE MCSom --------------------------------
(***************************************************************************)
(* The two halves of start of match on small instances: the slots in which *)
(* engines leave where a match began (SomSlots), and the deduper that      *)
(* holds matches back until their start is final (MatchDedupe).            *)
(* They share no state; a behaviour exercises one of them while the other  *)
(* stays as it began.                                                      *)
(***************************************************************************)
EXTENDS SomSlots, TLC

CONSTANTS Ext, Som, NoKey, Mod, Horizon, MaxDedupeOffset, MaxReports, MaxCalls

VARIABLES current, log, somLog, starts, dirty, stage, report, sent, stopped,
          scanning, last, calls, raised, count, out

deduperVars == <<current, log, somLog, starts, dirty, stage, report, sent,
                 stopped, scanning, last, calls, raised, count, out>>

\* A slot of every mode and a locked slot with a parent.
MCSlot == {"a", "b", "c", "d"}
MCMode == [a |-> "lock", b |-> "unset", c |-> "lock", d |-> "reset"]
MCParent == [a |-> NoParent, b |-> NoParent, c |-> "a", d |-> NoParent]

Dedupe == INSTANCE MatchDedupe WITH MaxOffset <- MaxDedupeOffset, active <- scanning
ASSUME DeduperAssumption == Dedupe!DedupeAssumption

SomInit == Init /\ Dedupe!Init

\* The keys of reports with a start of match are interchangeable.
SomKeys == Permutations(Som)

UntouchedDeduper == calls = 0 /\ \A b \in 0 .. 1 : log[b] = {} /\ somLog[b] = {}

SomNext ==
    \/ Init /\ Dedupe!Next /\ UNCHANGED vars
    \/ UntouchedDeduper /\ Next /\ UNCHANGED deduperVars

SomSpec == SomInit /\ [][SomNext]_<<vars, deduperVars>>

\* MatchDedupe: no match is given twice in a call.
NoDuplicate == Dedupe!NoDuplicate

\* MatchDedupe: exactly the reports raised are given, with their final starts.
ExactDelivery == Dedupe!ExactDelivery

\* MatchDedupe: the order of the callbacks that the collider checks.
RawOrder == Dedupe!RawOrder

\* MatchDedupe: no callback after the user asked to stop.
SilentAfterStop == Dedupe!SilentAfterStop

\* MatchDedupe: a start past the horizon counts as the leftmost one.
LeftmostStart == Dedupe!LeftmostStart
=============================================================================
