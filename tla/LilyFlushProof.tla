--------------------------- MODULE LilyFlushProof ---------------------------
(***************************************************************************)
(* For every capacity, buffer length and line size: flushStoredLilyMatches *)
(* keeps its types, reports in ascending order, and implements LilyQueue.  *)
(*                                                                         *)
(* IInv strengthens the order property with what each loop of the code     *)
(* relies on: both queues ascend, whatever was reported lies below all     *)
(* that is still parked, a block reported whole (report_range) is due and  *)
(* lies before the other queue, and the remainder loops run only when the  *)
(* other queue has nothing due.                                            *)
(***************************************************************************)
EXTENDS LilyFlush, TLAPS

Other(e) == IF e = "lily" THEN "teddy" ELSE "lily"
RangeOf(e) == IF e = "lily" THEN "range_lily" ELSE "range_teddy"
DueAt(c, e) == c[e] < Len(items[e]) /\ items[e][c[e] + 1] <= lim

Sorted == \A e \in Engines : \A i, j \in 1..Len(items[e]) :
              i <= j => items[e][i] <= items[e][j]
Below(o, c) == \A i \in 1..Len(o) : \A e \in Engines : \A j \in 1..Len(items[e]) :
                  j > c[e] => o[i] <= items[e][j]
Cursors == \A e \in Engines : start[e] <= Len(items[e])
Flushing == (pc = "idle") <=> (lim = 0)
InRange == \A e \in Engines : pc = RangeOf(e) =>
              /\ start[e] <= end[e] /\ end[e] <= Len(items[e]) /\ end[e] > 0
              /\ items[e][end[e]] <= lim
              /\ start[Other(e)] < Len(items[Other(e)])
              /\ items[e][end[e]] < items[Other(e)][start[Other(e)] + 1]
InCross == pc = "cross" => \A e \in Engines : ptr[e] <= end[e] /\ end[e] <= Len(items[e])
InRest ==
    /\ pc = "rest_lily" => halted \/ ~DueAt(start, "lily") \/ ~DueAt(start, "teddy")
    /\ pc = "rest_teddy" => halted \/ ~DueAt(start, "lily")
Ordered(o) == \A i, j \in 1..Len(o) : i <= j => o[i] <= o[j]

IInv ==
    /\ TypeOK /\ Sorted /\ Cursors /\ Flushing
    /\ InRange /\ InCross /\ InRest
    /\ Ordered(out) /\ Below(out, cursor)

----------------------------------------------------------------------------
(* One report *)

\* What ctx->items[ctx->size++] = *item leaves in a queue.
LEMMA AppendFacts ==
    ASSUME NEW S, NEW s \in Seq(S), NEW x \in S
    PROVE  /\ Append(s, x) \in Seq(S)
           /\ Len(s) \in Nat /\ Len(Append(s, x)) = Len(s) + 1
           /\ \A k \in 1..Len(s) : Append(s, x)[k] = s[k] /\ s[k] \in S
           /\ Append(s, x)[Len(s) + 1] = x
  OBVIOUS

\* The oldest item of the rest of a queue bounds the rest from below, because
\* the Lily engines park their matches in ascending order.
LEMMA OldestIsLeast ==
    ASSUME TypeOK, Sorted, NEW e \in Engines, NEW n \in Nat, n < Len(items[e])
    PROVE  /\ n + 1 \in 1..Len(items[e])
           /\ items[e][n + 1] \in Offsets
           /\ \A j \in 1..Len(items[e]) : j > n => items[e][n + 1] <= items[e][j]
  <1>1. items[e] \in Seq(Offsets)  BY DEF TypeOK
  <1>2. Len(items[e]) \in Nat  BY <1>1
  <1>3. n + 1 \in 1..Len(items[e])  BY <1>2
  <1>4. items[e][n + 1] \in Offsets  BY <1>1, <1>3
  <1>5. \A j \in 1..Len(items[e]) : j > n => n + 1 <= j  BY <1>2
  <1> QED  BY <1>3, <1>4, <1>5 DEF Sorted

\* lilyItemReport keeps the callback's offsets ascending when the item it is
\* given is the least of what both cursors still have before them.
LEMMA ReportKeepsOrder ==
    ASSUME TypeOK, Sorted, Ordered(out), NEW c \in [Engines -> Nat], Below(out, c),
           NEW e \in Engines, c[e] < Len(items[e]),
           \A f \in Engines : \A j \in 1..Len(items[f]) :
              j > c[f] => items[e][c[e] + 1] <= items[f][j]
    PROVE  /\ Append(out, items[e][c[e] + 1]) \in Seq(Offsets)
           /\ Ordered(Append(out, items[e][c[e] + 1]))
           /\ Below(Append(out, items[e][c[e] + 1]), [c EXCEPT ![e] = @ + 1])
  <1> DEFINE x == items[e][c[e] + 1]
             o == Append(out, x)
             d == [c EXCEPT ![e] = @ + 1]
  <1>1. /\ c[e] \in Nat
        /\ c[e] + 1 \in 1..Len(items[e])
        /\ x \in Offsets
    BY OldestIsLeast
  <1>2. out \in Seq(Offsets)  BY DEF TypeOK
  <1>3. /\ o \in Seq(Offsets)
        /\ Len(o) = Len(out) + 1
        /\ Len(out) \in Nat
        /\ \A i \in 1..Len(out) : o[i] = out[i] /\ out[i] \in Offsets
        /\ o[Len(out) + 1] = x
    BY <1>1, <1>2
  <1>4. \A i \in 1..Len(out) : out[i] <= x
    BY <1>1 DEF Below
  <1>5. \A y \in Offsets : y <= y  BY DEF Offsets, Q!Offsets
  <1>6. Ordered(o)
    <2> SUFFICES ASSUME NEW i \in 1..Len(o), NEW j \in 1..Len(o), i <= j
                 PROVE  o[i] <= o[j]
      BY DEF Ordered
    <2>1. CASE j \in 1..Len(out)
      BY <2>1, <1>3 DEF Ordered
    <2>2. CASE j = Len(out) + 1 /\ i \in 1..Len(out)
      BY <2>2, <1>3, <1>4
    <2>3. CASE j = Len(out) + 1 /\ i = Len(out) + 1
      BY <2>3, <1>1, <1>3, <1>5
    <2> QED  BY <2>1, <2>2, <2>3, <1>3
  <1>7. Below(o, d)
    <2> SUFFICES ASSUME NEW i \in 1..Len(o), NEW f \in Engines,
                        NEW j \in 1..Len(items[f]), j > d[f]
                 PROVE  o[i] <= items[f][j]
      BY DEF Below
    <2>1. d[f] \in Nat /\ c[f] \in Nat /\ d[f] >= c[f]
      BY <1>1
    <2>2. items[f] \in Seq(Offsets) /\ Len(items[f]) \in Nat
      BY DEF TypeOK
    <2>3. j > c[f]
      BY <2>1, <2>2
    <2>4. CASE i \in 1..Len(out)
      BY <2>3, <2>4, <1>3 DEF Below
    <2>5. CASE i = Len(out) + 1
      BY <2>3, <2>5, <1>3
    <2> QED  BY <2>4, <2>5, <1>3
  <1> QED  BY <1>3, <1>6, <1>7

Oldest(c, e) == items[e][c[e] + 1]
\* e's oldest item is the one LilyQueue reports next.
Next1(c, e) ==
    /\ DueAt(c, e)
    /\ DueAt(c, Other(e)) =>
          IF e = "lily" THEN Oldest(c, "lily") <= Oldest(c, "teddy")
                        ELSE Oldest(c, "teddy") < Oldest(c, "lily")

\* The cursor is typed in every loop of the code.
LEMMA CursorType ==
    ASSUME TypeOK PROVE cursor \in [Engines -> Nat]
  BY DEF TypeOK, cursor

\* Every report of every loop, once its item is known to be the next one:
\* order is kept, and the step is a Deliver of LilyQueue.
LEMMA ReportStep ==
    ASSUME TypeOK, Sorted, Ordered(out), Below(out, cursor),
           NEW e \in Engines, NEW h \in BOOLEAN, lim # 0, ~halted,
           Next1(cursor, e),
           out' = Append(out, Oldest(cursor, e)), halted' = h,
           items' = items, lim' = lim, cursor' = [cursor EXCEPT ![e] = @ + 1]
    PROVE  /\ out' \in Seq(Offsets)
           /\ Ordered(out)' /\ Below(out, cursor)' /\ Sorted'
           /\ Q!Next
  <1> DEFINE x == Oldest(cursor, e)
             f == Other(e)
  <1>1. cursor \in [Engines -> Nat]  BY CursorType
  <1>2. f \in Engines /\ Engines = {e, f} /\ Engines = {"lily", "teddy"}
    BY DEF Other, Engines, Q!Engines
  <1>3. /\ x \in Offsets
        /\ cursor[e] < Len(items[e])
        /\ x <= lim
        /\ \A j \in 1..Len(items[e]) : j > cursor[e] => x <= items[e][j]
    BY <1>1, OldestIsLeast DEF Next1, DueAt, Oldest
  <1>4. \A j \in 1..Len(items[f]) : j > cursor[f] => x <= items[f][j]
    <2>1. CASE cursor[f] < Len(items[f])
      <3>0. cursor[f] \in Nat /\ TypeOK /\ Sorted  BY <1>1, <1>2
      <3>1. /\ Oldest(cursor, f) \in Offsets
            /\ \A j \in 1..Len(items[f]) : j > cursor[f] =>
                  Oldest(cursor, f) <= items[f][j]
        BY <3>0, <1>2, <2>1, OldestIsLeast DEF Oldest
      <3>2. \A j \in 1..Len(items[f]) : items[f][j] \in Offsets
        BY <1>2 DEF TypeOK
      <3>3. lim \in Nat /\ Offsets \subseteq Nat
        BY SizeAssumption DEF TypeOK, All, Q!All, Offsets, Q!Offsets
      <3>4. x <= Oldest(cursor, f)
        <4>1. CASE DueAt(cursor, f)
          <5>1. CASE e = "lily"
            BY <5>1, <4>1 DEF Next1, Other
          <5>2. CASE e = "teddy"
            <6>1. x < Oldest(cursor, f)  BY <5>2, <4>1 DEF Next1, Other
            <6> HIDE DEF x, f
            <6> QED  BY <6>1, <1>3, <3>1, <3>3
          <5> QED  BY <5>1, <5>2, <1>2
        <4>2. CASE ~DueAt(cursor, f)
          <5>1. ~(Oldest(cursor, f) <= lim)  BY <4>2, <2>1 DEF DueAt, Oldest
          <5> HIDE DEF x, f
          <5> QED  BY <5>1, <3>1, <3>3, <1>3
        <4> QED  BY <4>1, <4>2
      <3> HIDE DEF x, f
      <3> QED  BY <3>1, <3>2, <3>3, <3>4, <1>3
    <2>2. CASE ~(cursor[f] < Len(items[f]))
      <3>1. cursor[f] \in Nat /\ Len(items[f]) \in Nat
        BY <1>1, <1>2 DEF TypeOK
      <3> QED  BY <2>2, <3>1
    <2> QED  BY <2>1, <2>2
  <1>5. \A g \in Engines : \A j \in 1..Len(items[g]) :
            j > cursor[g] => items[e][cursor[e] + 1] <= items[g][j]
    BY <1>2, <1>3, <1>4 DEF Oldest
  <1>6. /\ Append(out, x) \in Seq(Offsets)
        /\ Ordered(Append(out, x))
        /\ Below(Append(out, x), [cursor EXCEPT ![e] = @ + 1])
    BY <1>1, <1>3, <1>5, ReportKeepsOrder DEF Oldest
  <1>7. Below(out, cursor)'  BY <1>6 DEF Below
  <1>8. Ordered(out)' /\ Sorted'  BY <1>6 DEF Ordered, Sorted
  <1>9. Q!Deliver(h)
    <2>1. Q!Due(e, lim) = DueAt(cursor, e) /\ Q!Due(f, lim) = DueAt(cursor, f)
      BY DEF Q!Due, Q!Unreported, DueAt
    <2>2. Q!Turn(lim) = e
      <3>1. CASE e = "lily"
        BY <3>1, <2>1 DEF Q!Turn, Q!Due1, Next1, Other, Oldest
      <3>2. CASE e = "teddy"
        <4>1. ~(DueAt(cursor, "lily") /\ Oldest(cursor, "lily") <= Oldest(cursor, "teddy"))
          <5>1. CASE DueAt(cursor, "lily")
            <6>1. Oldest(cursor, "lily") \in Offsets
              BY <5>1, <1>1, <1>2, OldestIsLeast DEF DueAt, Oldest
            <6> QED  BY <5>1, <6>1, <3>2, <1>3 DEF Next1, Other, Offsets, Q!Offsets
          <5> QED  BY <5>1
        <4> QED  BY <3>2, <4>1, <2>1 DEF Q!Turn, Q!Due1, Next1, Other, Oldest
      <3> QED  BY <3>1, <3>2, <1>2
    <2> QED  BY <2>1, <2>2 DEF Q!Deliver, Q!Due1, Oldest, Next1
  <1>10. Q!Next  BY <1>9 DEF Q!Next
  <1> QED  BY <1>6, <1>7, <1>8, <1>10

\* A decision between two callbacks moves no cursor.
LEMMA QuietStep ==
    ASSUME Sorted, Ordered(out), Below(out, cursor),
           items' = items, lim' = lim, halted' = halted, out' = out, cursor' = cursor
    PROVE  Ordered(out)' /\ Below(out, cursor)' /\ Sorted' /\ UNCHANGED Q!vars
  BY DEF Sorted, Ordered, Below, Q!vars

----------------------------------------------------------------------------
(* One lemma per action: the invariant is kept and the step is one of       *)
(* LilyQueue.                                                               *)

\* The engine of e starts a new scan.
LEMMA InitItemsStep ==
    ASSUME IInv, NEW e \in Engines, initLilyItems(e)
    PROVE  IInv' /\ Q!Next
  <1> USE DEF initLilyItems, IInv
  <1>0. Engines = {"lily", "teddy"}  BY DEF Engines, Q!Engines
  <1>1. cursor' = [cursor EXCEPT ![e] = 0] /\ cursor = start
    BY DEF cursor
  <1>2. TypeOK'
    <2>1. <<>> \in Seq(Offsets)  OBVIOUS
    <2>2. items' \in [Engines -> Seq(Offsets)] /\ start' \in [Engines -> Nat]
      BY <2>1 DEF TypeOK
    <2> QED  BY <2>1, <2>2 DEF TypeOK
  <1>3. Sorted' /\ Cursors'  BY DEF Sorted, Cursors, TypeOK
  <1>4. Flushing' /\ InRange' /\ InCross' /\ InRest'
    BY <1>0 DEF Flushing, InRange, InCross, InRest, RangeOf
  <1>5. Ordered(out)' /\ Below(out, cursor)'
    BY DEF Ordered, Below
  <1>6. Q!InitItems(e)
    BY <1>1 DEF Q!InitItems, Flushing
  <1>7. Q!Next  BY <1>6 DEF Q!Next, Engines
  <1> QED  BY <1>2, <1>3, <1>4, <1>5, <1>7

\* A match is parked behind the earlier ones of its engine.
LEMMA PushStep ==
    ASSUME IInv, NEW e \in Engines, NEW to \in Offsets, pushLilyItems(e, to)
    PROVE  IInv' /\ Q!Next
  <1> USE DEF pushLilyItems, IInv, MatchItem
  <1>0. Engines = {"lily", "teddy"}  BY DEF Engines, Q!Engines
  <1>1. cursor' = start' /\ cursor = start
    BY DEF cursor
  <1>2. TypeOK'
    <2>1. <<>> \in Seq(Offsets) /\ <<to>> \in Seq(Offsets)  OBVIOUS
    <2>2. Append(items[e], to) \in Seq(Offsets)  BY DEF TypeOK
    <2>3. items' \in [Engines -> Seq(Offsets)] /\ start' \in [Engines -> Nat]
      <3>1. CASE items' = [items EXCEPT ![e] = Append(@, to)] /\ start' = start
        BY <3>1, <2>2 DEF TypeOK
      <3>2. CASE items' = [items EXCEPT ![e] = <<to>>] /\ start' = [start EXCEPT ![e] = 0]
        BY <3>2, <2>1 DEF TypeOK
      <3> QED  BY <3>1, <3>2
    <2> QED  BY <2>1, <2>3 DEF TypeOK
  <1>3. Sorted'
    <2> SUFFICES ASSUME NEW f \in Engines, NEW i \in 1..Len(items'[f]),
                        NEW j \in 1..Len(items'[f]), i <= j
                 PROVE  items'[f][i] <= items'[f][j]
      BY DEF Sorted
    <2>0. Offsets \subseteq Nat  BY SizeAssumption DEF Offsets, Q!Offsets
    <2>1. Offsets \subseteq Nat /\ items \in [Engines -> Seq(Offsets)]
      BY <2>0 DEF TypeOK
    <2>2. CASE f # e
      BY <2>1, <2>2 DEF Sorted
    <2>3. CASE f = e /\ items'[e] = <<to>>
      BY <2>1, <2>3
    <2>4. CASE f = e /\ items'[e] = Append(items[e], to)
      <3>0. items[e] \in Seq(Offsets)  BY <2>1
      <3>1. /\ Len(items'[e]) = Len(items[e]) + 1
            /\ Len(items[e]) \in Nat
            /\ \A k \in 1..Len(items[e]) : items'[e][k] = items[e][k] /\ items[e][k] \in Nat
            /\ items'[e][Len(items[e]) + 1] = to
        <4> HIDE DEF IInv, pushLilyItems
        <4>1. \A k \in 1..Len(items[e]) : items[e][k] \in Offsets
          BY <3>0, AppendFacts
        <4>2. \A k \in 1..Len(items[e]) : items[e][k] \in Nat  BY <2>0, <4>1
        <4> QED  BY <4>2, <3>0, <2>4, AppendFacts
      <3>2. \A k \in 1..Len(items[e]) : items[e][k] <= to
        <4> SUFFICES ASSUME NEW k \in 1..Len(items[e]) PROVE items[e][k] <= to
          OBVIOUS
        <4>1. items[e] # <<>> /\ Len(items[e]) \in 1..Len(items[e])
          BY <2>1, <3>1
        <4>2. items[e][Len(items[e])] <= to  BY <4>1
        <4>3. items[e][k] <= items[e][Len(items[e])]  BY <4>1, <3>1 DEF Sorted
        <4> QED  BY <4>1, <4>2, <4>3, <3>1, <2>1
      <3>3. CASE j \in 1..Len(items[e])
        BY <3>1, <3>3, <2>4 DEF Sorted
      <3>4. CASE j = Len(items[e]) + 1
        BY <3>1, <3>2, <3>4, <2>1, <2>4
      <3> QED  BY <3>1, <3>3, <3>4, <2>4
    <2>5. items'[e] = <<to>> \/ items'[e] = Append(items[e], to)
      BY <2>1
    <2> QED  BY <2>2, <2>3, <2>4, <2>5
  <1>4. Cursors'
    <2> SUFFICES ASSUME NEW f \in Engines PROVE start'[f] <= Len(items'[f])
      BY DEF Cursors
    <2>1. /\ items[f] \in Seq(Offsets) /\ start[f] \in Nat /\ start[f] <= Len(items[f])
          /\ items \in [Engines -> Seq(Offsets)] /\ start \in [Engines -> Nat]
      BY DEF TypeOK, Cursors
    <2>2. Len(Append(items[f], to)) = Len(items[f]) + 1 /\ Len(items[f]) \in Nat
      BY <2>1
    <2>3. CASE f # e  BY <2>1, <2>3
    <2>4. CASE f = e
      <3>1. CASE items' = [items EXCEPT ![e] = Append(@, to)] /\ start' = start
        BY <3>1, <2>1, <2>2, <2>4
      <3>2. CASE items' = [items EXCEPT ![e] = <<to>>] /\ start' = [start EXCEPT ![e] = 0]
        BY <3>2, <2>1, <2>4
      <3> QED  BY <3>1, <3>2
    <2> QED  BY <2>3, <2>4
  <1>5. Flushing' /\ InRange' /\ InCross' /\ InRest'
    BY <1>0 DEF Flushing, InRange, InCross, InRest, RangeOf
  <1>6. Ordered(out)' /\ Below(out, cursor)'
    BY DEF Ordered, Below
  <1>7. Q!Push(e, to)
    BY <1>1 DEF Q!Push, Flushing
  <1>8. Q!Next  BY <1>7 DEF Q!Next, Engines, Offsets
  <1> QED  BY <1>2, <1>3, <1>4, <1>5, <1>6, <1>8

\* A flush begins.
LEMMA EnterStep ==
    ASSUME IInv, NEW n \in 1..All, Enter(n)
    PROVE  IInv' /\ Q!Next
  <1> USE DEF Enter, IInv
  <1>0. Engines = {"lily", "teddy"}  BY DEF Engines, Q!Engines
  <1>1. pc' \in {"rest_teddy", "rest_lily", "main"}
    BY DEF Left
  <1>2. cursor' = start' /\ cursor = start
    BY <1>1 DEF cursor
  <1>3. n \in Nat /\ n # 0 /\ n \in 0..All
    BY SizeAssumption DEF All, Q!All
  <1>4. TypeOK'  BY <1>1, <1>3 DEF TypeOK, Labels
  <1>5. Sorted' /\ Cursors'  BY DEF Sorted, Cursors
  <1>6. Flushing'  BY <1>1, <1>3 DEF Flushing
  <1>7. InRange' /\ InCross'  BY <1>0, <1>1 DEF InRange, InCross, RangeOf
  <1>8. InRest'  BY <1>0, <1>1 DEF InRest, DueAt, Left
  <1>9. Ordered(out)' /\ Below(out, cursor)'
    BY <1>2 DEF Ordered, Below
  <1>10. Q!BeginFlush(n)  BY <1>2 DEF Q!BeginFlush
  <1>11. Q!Next  BY <1>10 DEF Q!Next, All
  <1> QED  BY <1>4, <1>5, <1>6, <1>7, <1>8, <1>9, <1>11

\* The end of a block lies in the queue, behind the cursor.
LEMMA BlockEnd ==
    ASSUME TypeOK, NEW e \in Engines, start[e] < Len(items[e])
    PROVE  /\ calc_block_end(e) \in Nat /\ calc_block_end(e) > start[e]
           /\ calc_block_end(e) <= Len(items[e])
  <1>1. start[e] \in Nat /\ Len(items[e]) \in Nat  BY DEF TypeOK
  <1> QED  BY <1>1, LineAssumption DEF calc_block_end

\* The merge loop looks at the next two blocks.
LEMMA PickBlockStep ==
    ASSUME IInv, PickBlock
    PROVE  IInv' /\ UNCHANGED Q!vars
  <1> USE DEF PickBlock, IInv
  <1>0. Engines = {"lily", "teddy"}  BY DEF Engines, Q!Engines
  <1>1. cursor' = cursor  BY DEF cursor
  <1>2. \A e \in Engines : start[e] < Len(items[e])  BY DEF MainLoop, Left
  <1>3. \A e \in Engines : /\ calc_block_end(e) \in Nat /\ calc_block_end(e) > start[e]
                            /\ calc_block_end(e) <= Len(items[e]) /\ end'[e] = calc_block_end(e)
    BY <1>2, BlockEnd
  <1>4. TypeOK'
    <2>1. end' \in [Engines -> Nat] /\ ptr' \in [Engines -> Nat]
      BY <1>3 DEF TypeOK
    <2>2. pc' \in Labels  BY DEF Labels
    <2> QED  BY <2>1, <2>2 DEF TypeOK
  <1>5. \A e \in Engines : start[e] \in Nat /\ Len(items[e]) \in Nat  BY DEF TypeOK
  <1>6. Cursors' /\ Flushing' /\ InRest'
    BY DEF Cursors, Flushing, InRest
  <1>7. InCross'
    BY <1>3, <1>5 DEF InCross
  <1>8. InRange'
    <2> SUFFICES ASSUME NEW e \in Engines, pc' = RangeOf(e)
                 PROVE  /\ start[e] <= end'[e] /\ end'[e] <= Len(items[e]) /\ end'[e] > 0
                        /\ items[e][end'[e]] <= lim
                        /\ start[Other(e)] < Len(items[Other(e)])
                        /\ items[e][end'[e]] < items[Other(e)][start[Other(e)] + 1]
      BY DEF InRange
    <2>1. Precedes(e, Other(e)) /\ Other(e) \in Engines
      BY <1>0 DEF RangeOf, Other
    <2>2. start[e] <= end'[e] /\ end'[e] <= Len(items[e]) /\ end'[e] > 0
      BY <1>3, <1>5
    <2>3. /\ items[e][end'[e]] <= lim
          /\ items[e][end'[e]] < items[Other(e)][start[Other(e)] + 1]
      BY <1>3, <2>1 DEF Precedes, At
    <2> QED  BY <1>2, <2>1, <2>2, <2>3
  <1> QED  BY <1>1, <1>4, <1>6, <1>7, <1>8, QuietStep

\* report_range reports an item of a block that lies before the other queue.
LEMMA RangeReportStep ==
    ASSUME IInv, NEW e \in Engines, NEW h \in BOOLEAN, RangeReport(e, h)
    PROVE  IInv' /\ Q!Next
  <1> USE DEF RangeReport, IInv
  <1>0. Engines = {"lily", "teddy"}  BY DEF Engines, Q!Engines
  <1> DEFINE f == Other(e)
  <1>1. f \in Engines /\ f # e /\ pc = RangeOf(e) /\ pc' = pc
    BY <1>0 DEF Other, RangeOf
  <1>2. cursor = start /\ cursor' = start'
    BY <1>0 DEF cursor
  <1>3. /\ start[e] \in Nat /\ end[e] \in Nat /\ Len(items[e]) \in Nat
        /\ start[f] \in Nat /\ items[e] \in Seq(Offsets) /\ lim \in 0..All
    BY <1>1 DEF TypeOK
  <1>4. /\ start[e] < end[e] /\ end[e] <= Len(items[e])
        /\ items[e][end[e]] <= lim
        /\ start[f] < Len(items[f])
        /\ items[e][end[e]] < items[f][start[f] + 1]
    BY <1>1 DEF InRange
  <1>5. start[e] < Len(items[e]) /\ end[e] \in 1..Len(items[e])  BY <1>3, <1>4
  <1>6. /\ items[e][start[e] + 1] \in Offsets
        /\ items[e][start[e] + 1] <= items[e][end[e]]
    BY <1>3, <1>4, <1>5, OldestIsLeast
  <1>7. items[e][end[e]] \in Offsets  BY <1>3, <1>5
  <1>8. items[f][start[f] + 1] \in Offsets
    BY <1>1, <1>3, <1>4, OldestIsLeast
  <1>9. Offsets \subseteq Nat /\ 0..All \subseteq Nat
    BY SizeAssumption DEF Offsets, Q!Offsets, All, Q!All
  <1>10. /\ items[e][start[e] + 1] <= lim
         /\ items[e][start[e] + 1] < items[f][start[f] + 1]
    <2> DEFINE x == items[e][start[e] + 1]
               y == items[e][end[e]]
               z == items[f][start[f] + 1]
    <2>1. x \in Nat /\ y \in Nat /\ z \in Nat /\ lim \in Nat
      BY <1>3, <1>6, <1>7, <1>8, <1>9
    <2>2. x <= y /\ y <= lim /\ y < z  BY <1>4, <1>6
    <2> HIDE DEF x, y, z
    <2>3. x <= lim /\ x < z  BY <2>1, <2>2
    <2> QED  BY <2>3 DEF x, z
  <1>11. Next1(cursor, e)
    <2>1. DueAt(cursor, e)  BY <1>2, <1>5, <1>10 DEF DueAt
    <2>2. Oldest(cursor, e) < Oldest(cursor, f) BY <1>2, <1>10 DEF Oldest
    <2>3. Oldest(cursor, e) \in Nat /\ Oldest(cursor, f) \in Nat
      BY <1>2, <1>6, <1>8, <1>9 DEF Oldest
    <2>4. CASE e = "lily"
      BY <2>1, <2>2, <2>3, <2>4 DEF Next1, Other
    <2>5. CASE e = "teddy"
      BY <2>1, <2>2, <2>5 DEF Next1, Other
    <2> QED  BY <2>4, <2>5, <1>0
  <1>12. lim # 0 /\ ~halted  BY <1>1 DEF Flushing, RangeOf
  <1>13. /\ out' \in Seq(Offsets)
         /\ Ordered(out)' /\ Below(out, cursor)' /\ Sorted' /\ Q!Next
    BY <1>2, <1>11, <1>12, ReportStep DEF Report, At, Oldest
  <1>14. start' \in [Engines -> Nat] /\ start'[e] = start[e] + 1 /\ start'[f] = start[f]
    BY <1>1, <1>3 DEF TypeOK
  <1>15. TypeOK'
    <2>1. halted' \in BOOLEAN  BY DEF Report
    <2> QED  BY <1>13, <1>14, <2>1 DEF TypeOK
  <1>16. Engines = {e, f}  BY <1>0 DEF Other
  <1>17. Cursors'
    <2>1. start'[e] <= Len(items[e])  BY <1>3, <1>5, <1>14
    <2>2. start'[f] <= Len(items[f])  BY <1>1, <1>14 DEF Cursors
    <2> QED  BY <1>16, <2>1, <2>2 DEF Cursors
  <1>18. Flushing' /\ InCross' /\ InRest'
    BY <1>1 DEF Flushing, InCross, InRest, RangeOf
  <1>19. InRange'
    <2> SUFFICES ASSUME NEW g \in Engines, pc' = RangeOf(g)
                 PROVE  /\ start'[g] <= end[g] /\ end[g] <= Len(items[g]) /\ end[g] > 0
                        /\ items[g][end[g]] <= lim
                        /\ start'[Other(g)] < Len(items[Other(g)])
                        /\ items[g][end[g]] < items[Other(g)][start'[Other(g)] + 1]
      BY DEF InRange
    <2>1. g = e  BY <1>0, <1>1 DEF RangeOf
    <2>2. start'[e] <= end[e] /\ end[e] > 0  BY <1>3, <1>4, <1>14
    <2> QED  BY <2>1, <2>2, <1>4, <1>14
  <1> QED  BY <1>13, <1>15, <1>17, <1>18, <1>19

\* The loops hand over to each other without a report.
LEMMA RangeDoneStep ==
    ASSUME IInv, NEW e \in Engines, RangeDone(e)
    PROVE  IInv' /\ UNCHANGED Q!vars
  <1> USE DEF RangeDone, IInv
  <1>0. Engines = {"lily", "teddy"}  BY DEF Engines, Q!Engines
  <1>1. cursor' = cursor /\ pc # "idle" BY <1>0 DEF cursor
  <1>2. TypeOK'
    <2>1. end' \in [Engines -> Nat] /\ pc' \in Labels  BY DEF Zero, Labels
    <2> QED  BY <2>1 DEF TypeOK
  <1>3. Cursors' /\ Flushing' /\ InRest' /\ InCross' /\ InRange'
    BY <1>0, <1>1 DEF Cursors, Flushing, InRest, InCross, InRange, RangeOf
  <1> QED  BY <1>1, <1>2, <1>3, QuietStep

LEMMA CrossDoneStep ==
    ASSUME IInv, CrossDone
    PROVE  IInv' /\ UNCHANGED Q!vars
  <1> USE DEF CrossDone, IInv
  <1>0. Engines = {"lily", "teddy"}  BY DEF Engines, Q!Engines
  <1>1. cursor' = cursor  BY DEF cursor
  <1>2. TypeOK'
    <2>1. Zero \in [Engines -> Nat] /\ pc' \in Labels  BY DEF Zero, Labels
    <2> QED  BY <2>1 DEF TypeOK
  <1>3. Cursors'
    <2>1. \A e \in Engines : /\ ptr[e] \in Nat /\ end[e] \in Nat /\ Len(items[e]) \in Nat
                              /\ ptr[e] <= end[e] /\ end[e] <= Len(items[e])
      BY DEF TypeOK, InCross
    <2> QED  BY <2>1 DEF Cursors
  <1>4. Flushing' /\ InRest' /\ InCross' /\ InRange'
    BY <1>0 DEF Flushing, InRest, InCross, InRange, RangeOf
  <1> QED  BY <1>1, <1>2, <1>3, <1>4, QuietStep

\* The merge loop ends because a queue has nothing due, or on a halt.
LEMMA MainDoneStep ==
    ASSUME IInv, MainDone
    PROVE  IInv' /\ UNCHANGED Q!vars
  <1> USE DEF MainDone, IInv
  <1>0. Engines = {"lily", "teddy"}  BY DEF Engines, Q!Engines
  <1>1. cursor' = cursor /\ pc' \in {"rest_lily", "rest_teddy"} BY DEF cursor
  <1>2. TypeOK'  BY <1>1 DEF TypeOK, Labels
  <1>3. Cursors' /\ Flushing' /\ InCross' /\ InRange'
    BY <1>0, <1>1 DEF Cursors, Flushing, InCross, InRange, RangeOf
  <1>4. InRest'
    BY <1>0 DEF InRest, MainLoop, DueAt, Left, At
  <1> QED  BY <1>1, <1>2, <1>3, <1>4, QuietStep

LEMMA RestLilyDoneStep ==
    ASSUME IInv, RestLilyDone
    PROVE  IInv' /\ UNCHANGED Q!vars
  <1> USE DEF RestLilyDone, IInv
  <1>0. Engines = {"lily", "teddy"}  BY DEF Engines, Q!Engines
  <1>1. cursor' = cursor BY DEF cursor
  <1>2. TypeOK'  BY DEF TypeOK, Labels
  <1>3. Cursors' /\ Flushing' /\ InCross' /\ InRange'
    BY <1>0 DEF Cursors, Flushing, InCross, InRange, RangeOf
  <1>4. InRest'
    BY <1>0 DEF InRest, DueAt, Left, At
  <1> QED  BY <1>1, <1>2, <1>3, <1>4, QuietStep

\* flushStoredLilyMatches returns with nothing due, or halted.
LEMMA ReturnStep ==
    ASSUME IInv, Return
    PROVE  IInv' /\ Q!Next
  <1> USE DEF Return, IInv
  <1>0. Engines = {"lily", "teddy"}  BY DEF Engines, Q!Engines
  <1>1. cursor' = cursor /\ cursor = start BY DEF cursor
  <1>2. TypeOK'
    <2>1. 0 \in 0..All /\ pc' \in Labels  BY SizeAssumption DEF All, Q!All, Labels
    <2> QED  BY <2>1 DEF TypeOK
  <1>3. Cursors' /\ Flushing' /\ InCross' /\ InRange' /\ InRest'
    BY <1>0 DEF Cursors, Flushing, InCross, InRange, InRest, RangeOf
  <1>4. Ordered(out)' /\ Below(out, cursor)' /\ Sorted'
    BY <1>1 DEF Ordered, Below, Sorted
  <1>5. Q!EndFlush
    <2>1. halted \/ (~Q!Due("lily", lim) /\ ~Q!Due("teddy", lim))
      BY <1>1 DEF Q!Due, Q!Unreported, InRest, DueAt, Left, At
    <2> QED  BY <1>1, <2>1 DEF Q!EndFlush, Q!Engines, Flushing
  <1>6. Q!Next  BY <1>5 DEF Q!Next
  <1> QED  BY <1>2, <1>3, <1>4, <1>6

\* report_range_with_offset_check reports the rest of one queue while the
\* other has nothing due.
LEMMA RestReportStep ==
    ASSUME IInv, NEW e \in Engines, NEW h \in BOOLEAN, RestReport(e, h)
    PROVE  IInv' /\ Q!Next
  <1> USE DEF RestReport, IInv
  <1>0. Engines = {"lily", "teddy"}  BY DEF Engines, Q!Engines
  <1> DEFINE f == Other(e)
  <1>1. f \in Engines /\ f # e /\ Engines = {e, f} /\ pc' = pc
    BY <1>0 DEF Other
  <1>2. cursor = start /\ cursor' = start'
    BY <1>0 DEF cursor
  <1>3. /\ start[e] \in Nat /\ start[f] \in Nat
        /\ Len(items[e]) \in Nat /\ Len(items[f]) \in Nat
        /\ start[e] < Len(items[e])
    BY <1>1 DEF TypeOK, Left
  <1>4. DueAt(start, e) /\ ~DueAt(start, f)
    BY <1>0 DEF DueAt, Left, At, InRest, Other
  <1>5. Next1(cursor, e)
    BY <1>2, <1>4 DEF Next1
  <1>6. lim # 0 /\ ~halted  BY <1>0 DEF Flushing
  <1>7. /\ out' \in Seq(Offsets)
        /\ Ordered(out)' /\ Below(out, cursor)' /\ Sorted' /\ Q!Next
    BY <1>2, <1>5, <1>6, ReportStep DEF Report, At, Oldest
  <1>8. start' \in [Engines -> Nat] /\ start'[e] = start[e] + 1 /\ start'[f] = start[f]
    BY <1>1, <1>3 DEF TypeOK
  <1>9. TypeOK'
    <2>1. halted' \in BOOLEAN  BY DEF Report
    <2> QED  BY <1>7, <1>8, <2>1 DEF TypeOK
  <1>10. Cursors'
    <2>1. start'[e] <= Len(items[e])  BY <1>3, <1>8
    <2>2. start'[f] <= Len(items[f])  BY <1>1, <1>8 DEF Cursors
    <2> QED  BY <1>1, <2>1, <2>2 DEF Cursors
  <1>11. Flushing' /\ InCross' /\ InRange'
    BY <1>0 DEF Flushing, InCross, InRange, RangeOf
  <1>12. InRest'
    <2>1. ~DueAt(start', f)  BY <1>4, <1>8 DEF DueAt
    <2>2. CASE e = "lily"
      BY <2>1, <2>2 DEF InRest, DueAt, Other
    <2>3. CASE e = "teddy"
      BY <2>1, <2>3 DEF InRest, DueAt, Other
    <2> QED  BY <2>2, <2>3, <1>0
  <1> QED  BY <1>7, <1>9, <1>10, <1>11, <1>12

\* process_cross_block picks the smaller of the two items at its cursors.
LEMMA CrossReportStep ==
    ASSUME IInv, NEW h \in BOOLEAN, CrossReport(h)
    PROVE  IInv' /\ Q!Next
  <1> USE DEF CrossReport, IInv
  <1>0. Engines = {"lily", "teddy"}  BY DEF Engines, Q!Engines
  <1> DEFINE e == IF TeddyFirst THEN "teddy" ELSE "lily"
             f == Other(e)
             next == [ptr EXCEPT ![e] = @ + 1]
  <1>1. /\ e \in Engines /\ f \in Engines /\ Engines = {e, f} /\ f # e
        /\ pc = "cross" /\ ~halted
        /\ Valid(e)
        /\ Report(e, AtPtr(e), h)
        /\ items' = items /\ lim' = lim
        /\ \A x \in Engines : ptr[x] < end[x]
    BY <1>0 DEF Other, InBlock
  <1>2. /\ ptr[e] \in Nat /\ ptr[f] \in Nat /\ end[e] \in Nat /\ end[f] \in Nat
        /\ Len(items[e]) \in Nat /\ Len(items[f]) \in Nat
        /\ ptr \in [Engines -> Nat] /\ start \in [Engines -> Nat]
        /\ end \in [Engines -> Nat]
    BY <1>1 DEF TypeOK
  <1>3. \A x \in Engines : end[x] <= Len(items[x])  BY <1>1 DEF InCross
  <1>4. ptr[e] < Len(items[e]) /\ ptr[f] < Len(items[f])
        /\ ptr[e] < end[e] /\ ptr[f] < end[f]
    BY <1>1, <1>2, <1>3
  <1>5. AtPtr(e) \in Offsets /\ AtPtr(f) \in Offsets
    BY <1>1, <1>2, <1>4, OldestIsLeast DEF AtPtr
  <1>6. Offsets \subseteq Nat  BY SizeAssumption DEF Offsets, Q!Offsets
  <1>7. cursor = ptr  BY <1>1 DEF cursor
  <1>8. Next1(ptr, e)
    <2>1. DueAt(ptr, e)  BY <1>1, <1>4 DEF DueAt, Valid, AtPtr
    <2>2. DueAt(ptr, f) => Valid(f)  BY DEF DueAt, Valid, AtPtr
    <2>3. CASE TeddyFirst
      BY <2>1, <2>2, <2>3 DEF Next1, TeddyFirst, Other, AtPtr, Oldest
    <2>4. CASE ~TeddyFirst
      <3>1. e = "lily" /\ f = "teddy"  BY <2>4 DEF Other
      <3>2. Valid("teddy") => ~(AtPtr("teddy") < AtPtr("lily"))
        BY <2>4 DEF TeddyFirst
      <3> DEFINE l == AtPtr("lily")
                 t == AtPtr("teddy")
      <3>3. l \in Nat /\ t \in Nat  BY <3>1, <1>5, <1>6
      <3>4. Valid("teddy") => ~(t < l)  BY <3>2
      <3>5. Valid("teddy") => l <= t
        <4> HIDE DEF l, t, e, f, next, CrossReport, IInv
        <4> QED  BY <3>3, <3>4
      <3> QED  BY <2>1, <2>2, <3>1, <3>5 DEF Next1, Other, Oldest, AtPtr
    <2> QED  BY <2>3, <2>4
  <1>9. next \in [Engines -> Nat] /\ next[e] = ptr[e] + 1 /\ next[f] = ptr[f]
    BY <1>1, <1>2
  <1>10. \/ /\ ptr' = next /\ UNCHANGED <<start, pc, end>>
         \/ /\ start' = next /\ pc' = "main" /\ ptr' = Zero /\ end' = Zero
    OBVIOUS
  <1>11. cursor' = next  BY <1>1, <1>10 DEF cursor
  <1>12. lim # 0  BY <1>1 DEF Flushing
  <1>13. /\ out' \in Seq(Offsets)
         /\ Ordered(out)' /\ Below(out, cursor)' /\ Sorted' /\ Q!Next
    <2>1. Next1(cursor, e) /\ cursor' = [cursor EXCEPT ![e] = @ + 1]
      BY <1>7, <1>8, <1>11
    <2>2. out' = Append(out, Oldest(cursor, e)) /\ halted' = h
      BY <1>1, <1>7 DEF Report, AtPtr, Oldest
    <2> HIDE DEF e, f, next, CrossReport
    <2> QED  BY <1>1, <1>12, <2>1, <2>2, ReportStep
  <1>14. next[e] <= end[e] /\ next[f] <= end[f]
         /\ next[e] <= Len(items[e]) /\ next[f] <= Len(items[f])
    BY <1>2, <1>4, <1>9
  <1>15. TypeOK'
    <2>1. halted' \in BOOLEAN  BY <1>1 DEF Report
    <2>2. Zero \in [Engines -> Nat]  BY DEF Zero
    <2>3. /\ start' \in [Engines -> Nat] /\ ptr' \in [Engines -> Nat]
          /\ end' \in [Engines -> Nat] /\ pc' \in Labels
      <3> HIDE DEF e, f, next, CrossReport
      <3> QED  BY <1>1, <1>2, <1>9, <1>10, <2>2 DEF Labels
    <2> QED  BY <1>1, <1>13, <2>1, <2>3 DEF TypeOK
  <1>16. Cursors' /\ Flushing' /\ InCross' /\ InRange' /\ InRest'
    <2> HIDE DEF e, f, next, CrossReport
    <2>1. Cursors'  BY <1>1, <1>10, <1>14 DEF Cursors
    <2>2. Flushing' /\ InRange' /\ InRest'
      BY <1>0, <1>1, <1>10 DEF Flushing, InRange, InRest, RangeOf
    <2>3. InCross'  BY <1>1, <1>3, <1>10, <1>14 DEF InCross
    <2> QED  BY <2>1, <2>2, <2>3
  <1> QED  BY <1>13, <1>15, <1>16

----------------------------------------------------------------------------
(* The theorems *)

LEMMA InitIInv == Init => IInv /\ Q!Init
  <1> SUFFICES ASSUME Init PROVE IInv /\ Q!Init
    OBVIOUS
  <1> USE DEF Init
  <1>0. Engines = {"lily", "teddy"} /\ cursor = start
    BY DEF Engines, Q!Engines, cursor
  <1>1. TypeOK
    <2>1. 0 \in 0..All  BY SizeAssumption DEF All, Q!All
    <2>2. <<>> \in Seq(Offsets) /\ Zero \in [Engines -> Nat]  BY DEF Zero
    <2> QED  BY <2>1, <2>2 DEF TypeOK, Labels
  <1>2. Sorted /\ Cursors
    BY DEF Sorted, Cursors, Zero
  <1>3. Flushing /\ InRange /\ InCross /\ InRest
    BY <1>0 DEF Flushing, InRange, InCross, InRest, RangeOf
  <1>4. Ordered(out) /\ Below(out, cursor)  BY DEF Ordered, Below
  <1>5. Q!Init  BY <1>0 DEF Q!Init, Zero, Engines
  <1> QED  BY <1>1, <1>2, <1>3, <1>4, <1>5 DEF IInv

LEMMA StepIInv == IInv /\ [Next]_vars => IInv' /\ [Q!Next]_Q!vars
  <1> SUFFICES ASSUME IInv, [Next]_vars PROVE IInv' /\ [Q!Next]_Q!vars
    OBVIOUS
  <1>1. CASE \E e \in Engines : initLilyItems(e)
    BY <1>1, InitItemsStep
  <1>2. CASE \E e \in Engines, to \in Offsets : pushLilyItems(e, to)
    BY <1>2, PushStep
  <1>3. CASE \E n \in 1..All : Enter(n)
    BY <1>3, EnterStep
  <1>4. CASE PickBlock
    BY <1>4, PickBlockStep
  <1>5. CASE \E e \in Engines, h \in BOOLEAN : RangeReport(e, h)
    BY <1>5, RangeReportStep
  <1>6. CASE \E e \in Engines, h \in BOOLEAN : RestReport(e, h)
    BY <1>6, RestReportStep
  <1>7. CASE \E e \in Engines : RangeDone(e)
    BY <1>7, RangeDoneStep
  <1>8. CASE \E h \in BOOLEAN : CrossReport(h)
    BY <1>8, CrossReportStep
  <1>9. CASE CrossDone
    BY <1>9, CrossDoneStep
  <1>10. CASE MainDone
    BY <1>10, MainDoneStep
  <1>11. CASE RestLilyDone
    BY <1>11, RestLilyDoneStep
  <1>12. CASE Return
    BY <1>12, ReturnStep
  <1>13. CASE UNCHANGED vars
    <2>1. cursor' = cursor  BY <1>13 DEF vars, cursor
    <2>2. IInv'
      BY <1>13, <2>1 DEF vars, IInv, TypeOK, Sorted, Cursors, Flushing, InRange, InCross,
            InRest, Ordered, Below, DueAt
    <2>3. UNCHANGED Q!vars  BY <1>13, <2>1 DEF vars, Q!vars
    <2> QED  BY <2>2, <2>3
  <1> QED  BY <1>1, <1>2, <1>3, <1>4, <1>5, <1>6, <1>7, <1>8, <1>9, <1>10, <1>11, <1>12,
              <1>13 DEF Next, FlushStep

\* The variables of flushStoredLilyMatches keep their types, whatever the
\* capacity, the buffer and the line size.
THEOREM TypeCorrect == Spec => []TypeOK
  <1>1. Init => IInv  BY InitIInv
  <1>2. IInv /\ [Next]_vars => IInv'  BY StepIInv
  <1>3. IInv => TypeOK  BY DEF IInv
  <1> QED  BY <1>1, <1>2, <1>3, PTL DEF Spec

\* The callback never sees a smaller end offset after a larger one, until an
\* engine parks another match.
THEOREM ReportsAlwaysAscend == Spec => []ReportsAscend
  <1>1. Init => IInv  BY InitIInv
  <1>2. IInv /\ [Next]_vars => IInv'  BY StepIInv
  <1>3. IInv => ReportsAscend
    <2>1. ASSUME TypeOK, Ordered(out) PROVE ReportsAscend
      <3>1. DOMAIN out = 1..Len(out)  BY DEF TypeOK
      <3> QED  BY <2>1, <3>1 DEF ReportsAscend, Q!Ascending, Ordered
    <2> QED  BY <2>1 DEF IInv
  <1> QED  BY <1>1, <1>2, <1>3, PTL DEF Spec

\* flushStoredLilyMatches implements the queue: each callback it makes is the
\* one LilyQueue allows next, and it returns only when LilyQueue may.
THEOREM RefinesQueue == Spec => ImplementsQueue
  <1>1. Init => IInv /\ Q!Init  BY InitIInv
  <1>2. IInv /\ [Next]_vars => IInv' /\ [Q!Next]_Q!vars  BY StepIInv
  <1> QED  BY <1>1, <1>2, PTL DEF Spec, ImplementsQueue
=============================================================================
