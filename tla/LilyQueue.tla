------------------------------ MODULE LilyQueue ------------------------------
(***************************************************************************)
(* The two match queues of the Lily short-rule engines                     *)
(* (src/src/kunpeng-enhanced/runtime_lily.c, struct LilyEngineCtx in       *)
(* src/src/scratch.h).  In block mode on AArch64 the Lily engines run      *)
(* before the main engine and park their matches; flushStoredLilyMatches   *)
(* later hands them to the user callback, merged with the main engine's    *)
(* reports.                                                                *)
(*                                                                         *)
(* This module is what the merge PROMISES: a flush up to to_offset reports *)
(* the parked matches with toOffset <= to_offset one at a time, always the *)
(* one with the least toOffset first, "lily" before "teddy" on a tie.      *)
(* LilyFlush is the block-wise loop the code runs and is shown to          *)
(* implement this module.                                                  *)
(*                                                                         *)
(* Data abstraction: an item is its toOffset; the 3-bit report index only  *)
(* selects the ReportID handed to the callback.                            *)
(***************************************************************************)
EXTENDS Integers, Sequences

CONSTANTS
    Capacity,   \* LilyEngineCtx.capacity (LILY_ITEMS_COUNT in the build)
    MaxOffset   \* end of the scanned buffer: offsets are 1..MaxOffset

Engines == {"lily", "teddy"}
Offsets == 1..MaxOffset
\* ALL_LILY_MATCH_ITEMS: larger than every offset an item can carry.
All     == MaxOffset + 1

VARIABLES
    items,      \* [Engines -> Seq(Offsets)], the filled part of ctx.items
    start,      \* [Engines -> Nat], ctx.start: items already reported
    lim,        \* to_offset of the running flush, 0 when none runs
    halted,     \* the callback returned non-zero during the last flush
    out         \* what the callback has seen since the last push (history)

vars == <<items, start, lim, halted, out>>

Unreported(e) == start[e] < Len(items[e])
\* The oldest parked item of an engine that a flush up to n may report.
Due(e, n)     == Unreported(e) /\ items[e][start[e] + 1] <= n
Due1(e)       == items[e][start[e] + 1]

\* The engine whose oldest item is reported next by a flush up to n.
Turn(n) == IF Due("lily", n) /\ (Due("teddy", n) => Due1("lily") <= Due1("teddy"))
           THEN "lily" ELSE "teddy"

Ascending(s) == \A i, j \in DOMAIN s : i <= j => s[i] <= s[j]

TypeOK ==
    /\ items \in [Engines -> Seq(Offsets)]
    /\ start \in [Engines -> Nat]
    /\ lim \in 0..All
    /\ halted \in BOOLEAN
    /\ out \in Seq(Offsets)

Init ==
    /\ items = [e \in Engines |-> <<>>]
    /\ start = [e \in Engines |-> 0]
    /\ lim = 0
    /\ halted = FALSE
    /\ out = <<>>

----------------------------------------------------------------------------
\* initLilyItems / initLilyForTeddyItems: the engine of e starts a new scan.
InitItems(e) ==
    /\ lim = 0
    /\ items' = [items EXCEPT ![e] = <<>>]
    /\ start' = [start EXCEPT ![e] = 0]
    /\ halted' = FALSE
    /\ out' = <<>>
    /\ UNCHANGED lim

\* pushLilyItems accepts: there is room, or everything has been reported and
\* the buffer is reused from its beginning.  An engine scans forwards, so its
\* offsets never decrease.
Push(e, to) ==
    /\ lim = 0
    /\ items[e] # <<>> => items[e][Len(items[e])] <= to
    /\ \/ /\ Len(items[e]) < Capacity
          /\ items' = [items EXCEPT ![e] = Append(@, to)]
          /\ start' = start
       \/ /\ Len(items[e]) >= Capacity
          /\ start[e] = Len(items[e])
          /\ items' = [items EXCEPT ![e] = <<to>>]
          /\ start' = [start EXCEPT ![e] = 0]
    /\ out' = <<>>
    /\ UNCHANGED <<lim, halted>>

\* flushStoredLilyMatches(scratch, n) is called.
BeginFlush(n) ==
    /\ lim = 0
    /\ lim' = n
    /\ halted' = FALSE
    /\ UNCHANGED <<items, start, out>>

\* One user callback; h says that it returned non-zero.
Deliver(h) ==
    LET e == Turn(lim) IN
    /\ lim # 0 /\ ~halted
    /\ Due(e, lim)
    /\ start' = [start EXCEPT ![e] = @ + 1]
    /\ out' = Append(out, Due1(e))
    /\ halted' = h
    /\ UNCHANGED <<items, lim>>

\* The flush returns: the callback asked to stop, or nothing is due.
EndFlush ==
    /\ lim # 0
    /\ halted \/ \A e \in Engines : ~Due(e, lim)
    /\ lim' = 0
    /\ UNCHANGED <<items, start, halted, out>>

Next ==
    \/ \E e \in Engines : InitItems(e)
    \/ \E e \in Engines, to \in Offsets : Push(e, to)
    \/ \E n \in 1..All : BeginFlush(n)
    \/ \E h \in BOOLEAN : Deliver(h)
    \/ EndFlush

Spec == Init /\ [][Next]_vars
=============================================================================
