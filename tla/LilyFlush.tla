------------------------------ MODULE LilyFlush ------------------------------
(***************************************************************************)
(* flushStoredLilyMatches of src/src/kunpeng-enhanced/runtime_lily.c: the  *)
(* two parked-match queues are merged one cache line of items at a time.   *)
(* Two blocks that do not overlap are reported whole (report_range); two   *)
(* that do are merged item by item over local cursors that are written     *)
(* back when the block is left (process_cross_block); what is left of one  *)
(* queue is reported by report_range_with_offset_check.                    *)
(*                                                                         *)
(* One step is one user callback, or one decision of the loop between two  *)
(* callbacks.  The specification implements LilyQueue.                     *)
(***************************************************************************)
EXTENDS Integers, Sequences

CONSTANTS
    Capacity, MaxOffset,
    PerLine     \* LILY_MATCH_ITEMS_PER_CACHELINE

ASSUME LineAssumption == PerLine \in Nat \ {0}
ASSUME SizeAssumption == Capacity \in Nat \ {0} /\ MaxOffset \in Nat \ {0}

VARIABLES
    items, start, lim, halted, out,  \* as in LilyQueue; start is ctx->start
    pc,         \* where flushStoredLilyMatches is
    ptr,        \* l_ptr and t_ptr of process_cross_block, 0 out of scope
    end         \* l_block_end and t_block_end, 0 out of scope

vars == <<items, start, lim, halted, out, pc, ptr, end>>

\* The cursor up to which an engine's items have reached the callback.
cursor == IF pc = "cross" THEN ptr ELSE start

Q == INSTANCE LilyQueue WITH start <- cursor

Engines == Q!Engines
Offsets == Q!Offsets
All     == Q!All
Labels  == {"idle", "main", "range_lily", "range_teddy", "cross",
            "rest_lily", "rest_teddy"}

Zero == [e \in Engines |-> 0]

TypeOK ==
    /\ items \in [Engines -> Seq(Offsets)]
    /\ start \in [Engines -> Nat]
    /\ lim \in 0..All
    /\ halted \in BOOLEAN
    /\ out \in Seq(Offsets)
    /\ pc \in Labels
    /\ ptr \in [Engines -> Nat]
    /\ end \in [Engines -> Nat]

Init ==
    /\ items = [e \in Engines |-> <<>>]
    /\ start = Zero
    /\ lim = 0 /\ halted = FALSE /\ out = <<>>
    /\ pc = "idle"
    /\ ptr = Zero
    /\ end = Zero

At(e)     == items[e][start[e] + 1]      \* items[ctx->start]
AtPtr(e)  == items[e][ptr[e] + 1]
Left(e)   == start[e] < Len(items[e])

----------------------------------------------------------------------------
initLilyItems(e) ==
    /\ pc = "idle"
    /\ items' = [items EXCEPT ![e] = <<>>]
    /\ start' = [start EXCEPT ![e] = 0]
    /\ halted' = FALSE /\ out' = <<>>
    /\ UNCHANGED <<lim, pc, ptr, end>>

\* The item parked for a match that ends at to (offset_adjust is 0 here).
MatchItem(to) == to

\* pushLilyItems with its HS_INSUFFICIENT_SPACE case as a closed guard: the
\* caller flushes and tries again.  The offsets an engine pushes ascend.
pushLilyItems(e, to) ==
    /\ pc = "idle"
    /\ items[e] # <<>> => items[e][Len(items[e])] <= to
    /\ \/ /\ Len(items[e]) < Capacity
          /\ items' = [items EXCEPT ![e] = Append(@, MatchItem(to))]
          /\ start' = start
       \/ /\ Len(items[e]) >= Capacity
          /\ start[e] = Len(items[e])
          /\ items' = [items EXCEPT ![e] = <<MatchItem(to)>>]
          /\ start' = [start EXCEPT ![e] = 0]
    /\ out' = <<>>
    /\ UNCHANGED <<lim, halted, pc, ptr, end>>

\* Entry of flushStoredLilyMatches(scratch, n): nothing parked returns at
\* once, one queue parked goes straight to its remainder loop.
Enter(n) ==
    /\ pc = "idle" /\ lim = 0
    /\ lim' = n
    /\ halted' = FALSE
    /\ pc' = CASE ~Left("lily")                    -> "rest_teddy"
               [] Left("lily") /\ ~Left("teddy")   -> "rest_lily"
               [] Left("lily") /\ Left("teddy")    -> "main"
    /\ UNCHANGED <<items, start, out, ptr, end>>

\* lilyItemReport: one callback for the item a cursor points at.
Report(e, to, h) ==
    /\ out' = Append(out, to)
    /\ halted' = h

\* Fault: the merge loop does not look at to_offset.
MainLoop_NoLimit ==
    /\ ~halted
    /\ \A e \in Engines : Left(e)

MainLoop ==
    /\ ~halted
    /\ \A e \in Engines : Left(e) /\ At(e) <= lim

\* The end of the cache line of items that begins at ctx->start.
calc_block_end(e) ==
    IF start[e] + PerLine > Len(items[e]) THEN Len(items[e]) ELSE start[e] + PerLine

\* Fault: the last item of e's block is compared with the last of f's block.
Precedes_LastOfOther(e, f) ==
    /\ items[e][calc_block_end(e)] <= lim
    /\ items[e][calc_block_end(e)] < items[f][calc_block_end(f)]

\* e's block is due as a whole and lies before f's block.
Precedes(e, f) ==
    /\ items[e][calc_block_end(e)] <= lim
    /\ items[e][calc_block_end(e)] < At(f)

\* One turn of the batched merge loop: the relation of the two blocks picks
\* the loop that reports them.
PickBlock ==
    /\ pc = "main" /\ MainLoop
    /\ end' = [e \in Engines |-> calc_block_end(e)]
    /\ \/ /\ Precedes("lily", "teddy")
          /\ pc' = "range_lily" /\ ptr' = ptr
       \/ /\ ~Precedes("lily", "teddy") /\ Precedes("teddy", "lily")
          /\ pc' = "range_teddy" /\ ptr' = ptr
       \/ /\ ~Precedes("lily", "teddy") /\ ~Precedes("teddy", "lily")
          /\ pc' = "cross" /\ ptr' = start
    /\ UNCHANGED <<items, start, lim, halted, out>>

\* report_range: the for statement advances start after a callback that
\* halts as well.
RangeReport(e, h) ==
    /\ pc = (IF e = "lily" THEN "range_lily" ELSE "range_teddy")
    /\ start[e] < end[e] /\ ~halted
    /\ Report(e, At(e), h)
    /\ start' = [start EXCEPT ![e] = @ + 1]
    /\ UNCHANGED <<items, lim, pc, ptr, end>>

RangeDone(e) ==
    /\ pc = (IF e = "lily" THEN "range_lily" ELSE "range_teddy")
    /\ ~(start[e] < end[e] /\ ~halted)
    /\ pc' = "main" /\ end' = Zero
    /\ UNCHANGED <<items, start, lim, halted, out, ptr>>

\* process_cross_block.  l_has_valid and t_has_valid are re-evaluated on the
\* items at the cursors; when one of them fails the other item is still
\* reported before the loop is left, and the merge loop above sees the rest.
InBlock(e) == ptr[e] < end[e]
Valid(e)   == AtPtr(e) <= lim

\* Fault: teddy's item wins a tie.
TeddyFirst_OnTie == Valid("teddy") /\ (~Valid("lily") \/ AtPtr("teddy") <= AtPtr("lily"))

TeddyFirst == Valid("teddy") /\ (~Valid("lily") \/ AtPtr("teddy") < AtPtr("lily"))

CrossReport(h) ==
    LET e == IF TeddyFirst THEN "teddy" ELSE "lily" IN
    /\ pc = "cross" /\ ~halted
    /\ \A x \in Engines : InBlock(x)
    /\ Valid(e)
    /\ Report(e, AtPtr(e), h)
    /\ \/ /\ \A x \in Engines : Valid(x)
          /\ ptr' = [ptr EXCEPT ![e] = @ + 1]
          /\ UNCHANGED <<start, pc, end>>
       \/ /\ \E x \in Engines : ~Valid(x)
          /\ start' = [ptr EXCEPT ![e] = @ + 1]
          /\ pc' = "main" /\ ptr' = Zero /\ end' = Zero
    /\ UNCHANGED <<items, lim>>

\* The cursors are written back to the two contexts.
CrossDone ==
    /\ pc = "cross"
    /\ ~(/\ ~halted
         /\ \A x \in Engines : InBlock(x)
         /\ \E x \in Engines : Valid(x))
    /\ start' = ptr
    /\ pc' = "main" /\ ptr' = Zero /\ end' = Zero
    /\ UNCHANGED <<items, lim, halted, out>>

\* The merge loop is left: with halt set the flush returns, otherwise the
\* remainders are reported, lily's first.
MainDone ==
    /\ pc = "main" /\ ~MainLoop
    /\ pc' = IF halted THEN "rest_teddy" ELSE "rest_lily"
    /\ UNCHANGED <<items, start, lim, halted, out, ptr, end>>

\* report_range_with_offset_check over the whole remainder of one queue.
RestReport(e, h) ==
    /\ pc = (IF e = "lily" THEN "rest_lily" ELSE "rest_teddy")
    /\ Left(e) /\ ~halted /\ At(e) <= lim
    /\ Report(e, At(e), h)
    /\ start' = [start EXCEPT ![e] = @ + 1]
    /\ UNCHANGED <<items, lim, pc, ptr, end>>

RestLilyDone ==
    /\ pc = "rest_lily"
    /\ ~(Left("lily") /\ ~halted /\ At("lily") <= lim)
    /\ pc' = "rest_teddy"
    /\ UNCHANGED <<items, start, lim, halted, out, ptr, end>>

Return ==
    /\ pc = "rest_teddy"
    /\ ~(Left("teddy") /\ ~halted /\ At("teddy") <= lim)
    /\ pc' = "idle"
    /\ lim' = 0
    /\ UNCHANGED <<items, start, halted, out, ptr, end>>

FlushStep ==
    \/ PickBlock
    \/ \E e \in Engines, h \in BOOLEAN : RangeReport(e, h) \/ RestReport(e, h)
    \/ \E e \in Engines : RangeDone(e)
    \/ \E h \in BOOLEAN : CrossReport(h)
    \/ CrossDone \/ MainDone \/ RestLilyDone \/ Return

Next ==
    \/ \E e \in Engines : initLilyItems(e)
    \/ \E e \in Engines, to \in Offsets : pushLilyItems(e, to)
    \/ \E n \in 1..All : Enter(n)
    \/ FlushStep

\* flushStoredLilyMatches is a plain loop: once entered it runs on.
Spec == Init /\ [][Next]_vars /\ WF_vars(FlushStep)

----------------------------------------------------------------------------
(* Properties *)

\* flushStoredLilyMatches reports parked matches in the order LilyQueue
\* promises and returns only when nothing up to to_offset is left or the
\* callback halted, whatever blocks the two queues are cut into.
ImplementsQueue == Q!Init /\ [][Q!Next]_Q!vars

\* The callback sees non-decreasing end offsets for as long as no engine
\* parks another match, over any number of flushes with any to_offset: the
\* order MMAdaptor.RoseAfterLilyBlockMode of unit/hyperscan/literals.cpp
\* checks on one input.
ReportsAscend == Q!Ascending(out)

\* A flush always returns: every turn of the batched loop reports something,
\* also when process_cross_block starts on a block it cannot finish.
FlushReturns == pc # "idle" ~> pc = "idle"
=============================================================================
