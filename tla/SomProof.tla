------------------------------ MODULE SomProof ------------------------------
(***************************************************************************)
(* The two halves of start of match, for any values of the constants.      *)
(*                                                                         *)
(* Slots (SomSlots).  For any slots, modes and plans, and streams of any   *)
(* length: which slots are valid and locked, and the start a slot holds,   *)
(* do not depend on the order of the events of an offset.  IInv says of    *)
(* every slot what the history of the open offset makes of it (SlotInv),   *)
(* and that the marks of som_set_now and som_attempted_set, as far as      *)
(* they are about this offset, tell whether the offset has written the     *)
(* slot and which refused write is stashed (MarkInv).  LEMMA Open shows    *)
(* that both still hold when an event opens a new offset, so that an       *)
(* operation is only compared with what it found.                          *)
(*                                                                         *)
(* Deduper (MatchDedupe).  For any reports and any number of them, for any *)
(* starts, unknown ones included, and wherever the user stops the call:    *)
(* every match is given once, with its final start, in order of offset,    *)
(* none is lost, and none is given after the stop.  DedupeInv compares the *)
(* callbacks and the two pairs of rows with the reports raised so far:     *)
(* between two reports (At), in a flush of the first or the second row     *)
(* (OnFirst, OnSecond), one match after the other, and when it is over     *)
(* (Closed).  Edge is what they share: exactly the reports that are due    *)
(* have been given.                                                        *)
(***************************************************************************)
EXTENDS MCSom, Sequences, FiniteSetTheorems, TLAPS

----------------------------------------------------------------------------
(* The slots                                                               *)

Record == [valid : BOOLEAN, writable : BOOLEAN, start : Start]
Locked == {s \in Slot : Mode[s] = "lock"}

TakenWith(p, w, e, s) ==
    /\ w[s] # {}
    /\ \/ Mode[s] = "reset"
       \/ ~p[s].valid
       \/ Mode[s] = "lock" /\ (p[s].writable \/ s \in e)

Before(start, o) == start = Past \/ start \in 0 .. o

\* start is one of ws, and the earliest unless it was copied from a parent.
Chosen(s, start, ws) ==
    start \in ws /\ (Parent[s] = NoParent => \A v \in ws : start <= v)

SlotInv(s, p, w, e, o) ==
    /\ s \in valid <=> (p[s].valid \/ w[s] # {})
    /\ s \in writable <=> (~TakenWith(p, w, e, s) /\ (p[s].writable \/ s \in e))
    /\ TakenWith(p, w, e, s) => Chosen(s, store[s], w[s])
    /\ s \in valid /\ ~TakenWith(p, w, e, s) => Holds(s, p[s].start)
    /\ s \in valid => Before(store[s], o)
    /\ \A v \in w[s] : Before(v, o)

MarkInv(s, p, w, e, sn, at) ==
    /\ s \in sn <=> TakenWith(p, w, e, s)
    /\ s \in Locked /\ ~TakenWith(p, w, e, s) =>
            /\ s \in at <=> w[s] # {}
            /\ w[s] # {} => Chosen(s, failed[s], w[s])

\* Where the stream is: at the last event of this write, or where it began.
Here == IF now = Past THEN base ELSE now

Types ==
    /\ TypeOK
    /\ writable \subseteq Locked /\ escapes \subseteq Locked
    /\ pre \in [Slot -> Record]
    /\ \A s \in Slot : pre[s].writable => s \in Locked

Times ==
    /\ now # Past => (active /\ now > base) \/ (~active /\ now <= base)
    /\ now = Past => escapes = {} /\ \A s \in Slot : writes[s] = {}

Kept == ~active => \A s \in valid : kept[s] = KeptValue(store[s], base)

IInv ==
    /\ Types /\ Times /\ Kept
    /\ \A s \in Slot : SlotInv(s, pre, writes, escapes, Here)
    /\ now # Past => \A s \in Slot : MarkInv(s, pre, writes, escapes, setNow, attempted)

----------------------------------------------------------------------------
(* Facts of the definitions *)

LEMMA TakenIs == \A s : Taken(s) <=> TakenWith(pre, writes, escapes, s)
  BY DEF Taken, TakenWith

\* The least element of a set is its Min.
LEMMA MinIs == ASSUME NEW S \in SUBSET Int, NEW m \in S, \A v \in S : m <= v
               PROVE  Min(S) = m
  <1>1. \E x \in S : \A y \in S : x <= y  OBVIOUS
  <1>2. Min(S) \in S /\ \A y \in S : Min(S) <= y  BY <1>1 DEF Min
  <1>3. Min(S) \in Int /\ m \in Int /\ Min(S) <= m /\ m <= Min(S)  BY <1>2
  <1> QED  BY <1>3

LEMMA MinOfTwo == ASSUME NEW a \in Int, NEW b \in Int
                  PROVE  Min({a, b}) = IF a <= b THEN a ELSE b
  <1>1. CASE a <= b  BY <1>1, MinIs
  <1>2. CASE ~(a <= b)
    <2>1. b \in {a, b} /\ \A v \in {a, b} : b <= v  BY <1>2
    <2> QED  BY <1>2, <2>1, MinIs
  <1> QED  BY <1>1, <1>2

LEMMA StartsAreNumbers == /\ Past \in Nat /\ MaxOffset \in Nat /\ Sentinel \in Nat
                          /\ MaxOffset < Past /\ Start \subseteq Nat
  BY SlotsAssumption DEF Start

\* What the history makes of a slot.
LEMMA SettledIs ==
    ASSUME IInv, NEW s \in Slot
    PROVE  /\ Settled(s) \in Record
           /\ Settled(s).valid = (s \in valid)
           /\ Settled(s).writable = (s \in writable)
           /\ Settled(s).writable => s \in Locked
           /\ s \in valid => Holds(s, Settled(s).start)
           /\ IdealSlot(s).valid = (s \in valid)
           /\ IdealSlot(s).writable = (s \in writable)
  <1>1. SlotInv(s, pre, writes, escapes, Here) /\ Types  BY DEF IInv
  <1>2. pre[s] \in Record /\ store[s] \in Start /\ writes[s] \in SUBSET Start
    BY <1>1 DEF Types, TypeOK
  <1>3. /\ IdealSlot(s).valid = (s \in valid)
        /\ IdealSlot(s).writable = (s \in writable)
    BY <1>1, TakenIs DEF IdealSlot, SlotInv
  <1>4. IdealSlot(s).start = IF Taken(s) THEN Min(writes[s]) ELSE pre[s].start
    BY DEF IdealSlot
  <1>5. Taken(s) => Chosen(s, store[s], writes[s])  BY <1>1, TakenIs DEF SlotInv
  <1>6. Taken(s) /\ Parent[s] = NoParent => Min(writes[s]) = store[s]
    <2>1. Taken(s) /\ Parent[s] = NoParent =>
             store[s] \in writes[s] /\ \A v \in writes[s] : store[s] <= v
      BY <1>5 DEF Chosen
    <2>2. Start \subseteq Nat  BY StartsAreNumbers
    <2>3. writes[s] \in SUBSET Int
      <3>1. \A v \in writes[s] : v \in Nat  BY <1>2, <2>2
      <3> QED  BY <3>1
    <2> QED  BY <2>1, <2>3, MinIs
  <1>7. Settled(s) = IF Parent[s] = NoParent THEN IdealSlot(s)
                     ELSE [IdealSlot(s) EXCEPT !.start = store[s]]
    BY DEF Settled
  <1>8. IdealSlot(s) = [valid    |-> IdealSlot(s).valid,
                        writable |-> IdealSlot(s).writable,
                        start    |-> IdealSlot(s).start]
    BY DEF IdealSlot
  <1>9. /\ Settled(s).valid = (s \in valid)
        /\ Settled(s).writable = (s \in writable)
        /\ Settled(s).start = IF Parent[s] = NoParent THEN IdealSlot(s).start ELSE store[s]
        /\ Settled(s) = [valid    |-> Settled(s).valid,
                         writable |-> Settled(s).writable,
                         start    |-> Settled(s).start]
    BY <1>3, <1>7, <1>8
  <1>10. Settled(s).start \in Start
    BY <1>2, <1>4, <1>6, <1>9 DEF Record
  <1>11. s \in valid => Holds(s, Settled(s).start)
    <2>1. s \in valid /\ ~Taken(s) => Holds(s, pre[s].start)  BY <1>1, TakenIs DEF SlotInv
    <2>2. Holds(s, store[s])  BY DEF Holds
    <2>3. Settled(s).start = store[s] \/ (~Taken(s) /\ Settled(s).start = pre[s].start)
      BY <1>4, <1>6, <1>9
    <2> QED  BY <2>1, <2>2, <2>3
  <1>12. Settled(s) \in Record
    <2>1. Settled(s).valid \in BOOLEAN /\ Settled(s).writable \in BOOLEAN  BY <1>9
    <2> QED  BY <1>9, <1>10, <2>1 DEF Record
  <1>13. s \in writable => s \in Locked  BY <1>1 DEF Types
  <1> QED  BY <1>3, <1>9, <1>11, <1>12, <1>13

----------------------------------------------------------------------------
(* An event opens its offset *)

\* The history an event is added to: none, if it is the first of its offset.
PreAt(o)     == IF Stale(o) THEN [x \in Slot |-> Settled(x)] ELSE pre
WritesAt(o)  == IF Stale(o) THEN [x \in Slot |-> {}] ELSE writes
EscapesAt(o) == IF Stale(o) THEN {} ELSE escapes

LEMMA Open ==
    ASSUME IInv, NEW o, Enter(o), NEW s \in Slot
    PROVE  /\ SlotInv(s, PreAt(o), WritesAt(o), EscapesAt(o), o)
           /\ MarkInv(s, PreAt(o), WritesAt(o), EscapesAt(o), SetNow(o), Attempted(o))
  <1>1. o \in Nat /\ o # Past /\ base \in Nat /\ base < o /\ (now # Past => now <= o)
    BY StartsAreNumbers DEF Enter, IInv, Types, TypeOK
  <1>2. CASE ~Stale(o)
    BY <1>1, <1>2 DEF Stale, IInv, Here, PreAt, WritesAt, EscapesAt, SetNow, Attempted
  <1>3. CASE Stale(o)
    <2> DEFINE p == [x \in Slot |-> Settled(x)]
               w == [x \in Slot |-> {}]
    <2>1. /\ PreAt(o) = p /\ WritesAt(o) = w /\ EscapesAt(o) = {}
          /\ SetNow(o) = {} /\ Attempted(o) = {}
      BY <1>3 DEF PreAt, WritesAt, EscapesAt, SetNow, Attempted
    <2>2. p[s] = Settled(s) /\ w[s] = {} /\ ~TakenWith(p, w, {}, s)
      BY DEF TakenWith
    <2>3. s \in valid => Before(store[s], o)
      <3>1. s \in valid => Before(store[s], Here)  BY DEF IInv, SlotInv
      <3>2. Here \in Nat /\ Here <= o
        BY <1>1, StartsAreNumbers DEF Here, IInv, Types, TypeOK
      <3> QED  BY <1>1, <3>1, <3>2 DEF Before
    <2>4. /\ p[s].valid = (s \in valid)
          /\ p[s].writable = (s \in writable)
          /\ s \in valid => Holds(s, p[s].start)
      BY <2>2, SettledIs
    <2> HIDE DEF p, w
    <2>5. SlotInv(s, p, w, {}, o)
      BY <2>2, <2>3, <2>4 DEF SlotInv
    <2>6. MarkInv(s, p, w, {}, {}, {})
      BY <2>2 DEF MarkInv
    <2> QED  BY <2>1, <2>5, <2>6
  <1> QED  BY <1>2, <1>3

\* What an event leaves of the history, and the parts of the invariant that
\* hold whatever it does to its slot.
LEMMA Noted ==
    ASSUME IInv, NEW o, Enter(o),
           NEW s \in Slot, NEW chosen \in SUBSET Start, NEW esc \in BOOLEAN,
           esc => s \in Locked, Note(s, o, chosen, esc)
    PROVE  /\ o \in Nat /\ o # Past /\ o \in Start
           /\ now' = o /\ Here' = o /\ base' = base
           /\ pre' = PreAt(o)
           /\ writes' = [WritesAt(o) EXCEPT ![s] = @ \cup chosen]
           /\ escapes' = IF esc THEN EscapesAt(o) \cup {s} ELSE EscapesAt(o)
           /\ Times' /\ Kept'
           /\ pre' \in [Slot -> Record] /\ (\A x \in Slot : pre'[x].writable => x \in Locked)
           /\ writes' \in [Slot -> SUBSET Start] /\ WritesAt(o) \in [Slot -> SUBSET Start]
           /\ escapes' \subseteq Locked
           /\ now' \in Start /\ base' \in 0 .. MaxOffset /\ active' \in BOOLEAN
           /\ events' \in 0 .. MaxEvents /\ kept' \in [Slot -> 0 .. Sentinel]
  <1> USE StartsAreNumbers
  <1>1. /\ o \in Nat /\ o # Past /\ o \in Start /\ base < o /\ base \in Nat
        /\ active /\ active' = active /\ base' = base /\ now' = o /\ kept' = kept
        /\ events' = events + 1 /\ events < MaxEvents
    BY DEF Enter, IInv, Types, TypeOK, Start
  <1>2. /\ pre' = PreAt(o)
        /\ writes' = [WritesAt(o) EXCEPT ![s] = @ \cup chosen]
        /\ escapes' = IF esc THEN EscapesAt(o) \cup {s} ELSE EscapesAt(o)
    BY DEF Note, PreAt, WritesAt, EscapesAt, Stale
  <1>3. WritesAt(o) \in [Slot -> SUBSET Start] /\ EscapesAt(o) \subseteq Locked
    BY DEF WritesAt, EscapesAt, IInv, Types, TypeOK
  <1>4. PreAt(o) \in [Slot -> Record] /\ \A x \in Slot : PreAt(o)[x].writable => x \in Locked
    <2>1. CASE Stale(o)  BY <2>1, SettledIs DEF PreAt
    <2>2. CASE ~Stale(o)  BY <2>2 DEF PreAt, IInv, Types
    <2> QED  BY <2>1, <2>2
  <1>5. Times' /\ Here' = o /\ Kept'  BY <1>1 DEF Times, Here, Kept
  <1>6. events' \in 0 .. MaxEvents
    BY <1>1, SlotsAssumption DEF IInv, Types, TypeOK
  <1>7. writes' \in [Slot -> SUBSET Start]  BY <1>2, <1>3
  <1>8. escapes' \subseteq Locked  BY <1>2, <1>3
  <1>9. base' \in 0 .. MaxOffset /\ kept' \in [Slot -> 0 .. Sentinel] /\ active' \in BOOLEAN
    BY <1>1 DEF IInv, Types, TypeOK
  <1> QED  BY <1>1, <1>2, <1>3, <1>4, <1>5, <1>6, <1>7, <1>8, <1>9

----------------------------------------------------------------------------
(* Operations *)

\* The slots an operation is not about stay as the opened offset has them.
LEMMA Others ==
    ASSUME IInv, NEW o, Enter(o),
           NEW s \in Slot, NEW chosen, NEW esc \in BOOLEAN,
           NEW x \in Slot, x # s,
           pre' = PreAt(o),
           WritesAt(o) \in [Slot -> SUBSET Start],
           writes' = [WritesAt(o) EXCEPT ![s] = @ \cup chosen],
           escapes' = IF esc THEN EscapesAt(o) \cup {s} ELSE EscapesAt(o),
           x \in valid' <=> x \in valid, x \in writable' <=> x \in writable,
           x \in setNow' <=> x \in SetNow(o), x \in attempted' <=> x \in Attempted(o),
           store'[x] = store[x], failed'[x] = failed[x], base' = base, Here' = o
    PROVE  /\ SlotInv(x, pre, writes, escapes, Here)'
           /\ MarkInv(x, pre, writes, escapes, setNow, attempted)'
  <1>1. /\ SlotInv(x, PreAt(o), WritesAt(o), EscapesAt(o), o)
        /\ MarkInv(x, PreAt(o), WritesAt(o), EscapesAt(o), SetNow(o), Attempted(o))
    BY Open
  <1>2. /\ writes'[x] = WritesAt(o)[x]
        /\ x \in escapes' <=> x \in EscapesAt(o)
    OBVIOUS
  <1>3. TakenWith(pre', writes', escapes', x)
            <=> TakenWith(PreAt(o), WritesAt(o), EscapesAt(o), x)
    BY <1>2 DEF TakenWith
  <1>4. \A st : Holds(x, st)' <=> Holds(x, st)
    BY DEF Holds
  <1>5. SlotInv(x, pre, writes, escapes, Here)'
    BY <1>1, <1>2, <1>3, <1>4 DEF SlotInv, Chosen, Before
  <1>6. MarkInv(x, pre, writes, escapes, setNow, attempted)'
    BY <1>1, <1>2, <1>3 DEF MarkInv, Chosen
  <1> QED  BY <1>5, <1>6

\* MayWrite is what the history says: the offset takes the slot, or has
\* taken it, once the write at hand is among its writes.
LEMMA MayWriteIs ==
    ASSUME IInv, NEW o, Enter(o), NEW s \in Slot, NEW w,
           w[s] # {}
    PROVE  MayWrite(s, o) <=> TakenWith(PreAt(o), w, EscapesAt(o), s)
  <1>1. /\ SlotInv(s, PreAt(o), WritesAt(o), EscapesAt(o), o)
        /\ MarkInv(s, PreAt(o), WritesAt(o), EscapesAt(o), SetNow(o), Attempted(o))
    BY Open
  <1> QED  BY <1>1 DEF MayWrite, SlotInv, MarkInv, TakenWith

\* A write, allowed or refused, of a value that is the earliest of the starts
\* offered so far wherever the marks say that one is kept.
LEMMA WriteSlot ==
    ASSUME IInv, NEW o, Enter(o),
           NEW s \in Slot, NEW start \in Start, Before(start, o),
           Note(s, o, {start}, FALSE), valid' = valid \cup {s},
           NEW hit \in Start, NEW miss \in Start,
           s \in SetNow(o) /\ Chosen(s, store[s], WritesAt(o)[s])
               => Chosen(s, hit, WritesAt(o)[s] \cup {start}),
           s \notin SetNow(o) => hit = start,
           s \in Attempted(o) /\ Chosen(s, failed[s], WritesAt(o)[s])
               => Chosen(s, miss, WritesAt(o)[s] \cup {start}),
           s \notin Attempted(o) => miss = start,
           IF MayWrite(s, o) THEN Written(s, o, hit) ELSE Refused(s, o, miss)
    PROVE  IInv'
  <1>1. /\ SlotInv(s, PreAt(o), WritesAt(o), EscapesAt(o), o)
        /\ MarkInv(s, PreAt(o), WritesAt(o), EscapesAt(o), SetNow(o), Attempted(o))
    BY Open
  <1>2. /\ o \in Nat /\ o # Past /\ o \in Start
        /\ now' = o /\ Here' = o /\ base' = base
        /\ pre' = PreAt(o)
        /\ writes' = [WritesAt(o) EXCEPT ![s] = @ \cup {start}]
        /\ escapes' = EscapesAt(o)
        /\ WritesAt(o) \in [Slot -> SUBSET Start]
    <2>1. PICK chosen : chosen = {start}
      OBVIOUS
    <2>2. chosen \in SUBSET Start /\ FALSE \in BOOLEAN /\ s \in Slot /\ Note(s, o, chosen, FALSE)
      BY <2>1
    <2>3. /\ o \in Nat /\ o # Past /\ o \in Start
          /\ now' = o /\ Here' = o /\ base' = base
          /\ pre' = PreAt(o)
          /\ writes' = [WritesAt(o) EXCEPT ![s] = @ \cup chosen]
          /\ escapes' = EscapesAt(o)
          /\ WritesAt(o) \in [Slot -> SUBSET Start]
      BY ONLY IInv, Enter(o), <2>2, Noted
    <2> QED  BY <2>1, <2>3
  <1> DEFINE W == WritesAt(o)[s]
  <1>3. writes'[s] = W \cup {start} /\ writes'[s] # {}  BY <1>2
  <1>4. MayWrite(s, o) <=> TakenWith(pre', writes', escapes', s)
    BY <1>2, <1>3, MayWriteIs
  <1>5. /\ store \in [Slot -> Start] /\ failed \in [Slot -> Start]
        /\ valid \subseteq Slot /\ writable \subseteq Locked
        /\ SetNow(o) \subseteq Slot /\ Attempted(o) \subseteq Slot
    BY DEF IInv, Types, TypeOK, SetNow, Attempted
  <1>6. /\ store' \in [Slot -> Start] /\ failed' \in [Slot -> Start]
        /\ valid' \subseteq Slot /\ writable' \subseteq Locked
        /\ setNow' \subseteq Slot /\ attempted' \subseteq Slot
    <2>1. CASE MayWrite(s, o)  BY <1>5, <2>1 DEF Written
    <2>2. CASE ~MayWrite(s, o)  BY <1>5, <2>2 DEF Refused
    <2> QED  BY <2>1, <2>2
  <1>7. Types' /\ Times' /\ Kept'
    BY <1>6, Noted DEF Types, TypeOK, Locked
  <1>8. ASSUME NEW x \in Slot, x # s
        PROVE  /\ SlotInv(x, pre, writes, escapes, Here)'
               /\ MarkInv(x, pre, writes, escapes, setNow, attempted)'
    <2>1. /\ x \in valid' <=> x \in valid
          /\ x \in writable' <=> x \in writable
          /\ x \in setNow' <=> x \in SetNow(o)
          /\ x \in attempted' <=> x \in Attempted(o)
          /\ store'[x] = store[x] /\ failed'[x] = failed[x]
      BY <1>5, <1>8 DEF Written, Refused
    <2> QED  BY <1>2, <1>8, <2>1, Others
  <1>9. ASSUME NEW v \in Start, v = start \/ v \in W
        PROVE  Before(v, o)
    BY <1>1, <1>9 DEF SlotInv
  <1>10. s \in valid'  OBVIOUS
  <1>11. CASE MayWrite(s, o)
    <2>1. /\ store'[s] = hit /\ s \in setNow' /\ failed' = failed
          /\ writable' = IF Mode[s] = "lock" THEN writable \ {s} ELSE writable
      BY <1>5, <1>11 DEF Written
    <2>2. Chosen(s, hit, writes'[s])
      <3>1. CASE s \in SetNow(o)
        BY <1>1, <1>3, <3>1 DEF MarkInv, SlotInv
      <3>2. CASE s \notin SetNow(o)
        <4>1. ~TakenWith(PreAt(o), WritesAt(o), EscapesAt(o), s)  BY <1>1, <3>2 DEF MarkInv
        <4>2. W = {}  BY <1>2, <1>4, <1>11, <4>1 DEF TakenWith
        <4> QED  BY <1>3, <1>5, <3>2, <4>2, StartsAreNumbers DEF Chosen
      <3> QED  BY <3>1, <3>2
    <2>3. s \notin writable'  BY <1>5, <2>1 DEF Locked
    <2>4. Before(hit, o)  BY <1>3, <1>9, <2>2 DEF Chosen
    <2>5. SlotInv(s, pre, writes, escapes, Here)'
      BY <1>2, <1>3, <1>4, <1>9, <1>10, <1>11, <2>1, <2>2, <2>3, <2>4 DEF SlotInv
    <2>6. MarkInv(s, pre, writes, escapes, setNow, attempted)'
      BY <1>4, <1>11, <2>1 DEF MarkInv
    <2> QED  BY <1>2, <1>7, <1>8, <2>5, <2>6 DEF IInv
  <1>12. CASE ~MayWrite(s, o)
    <2>1. /\ store' = store /\ writable' = writable /\ setNow' = SetNow(o)
          /\ s \in Locked => s \in attempted' /\ failed'[s] = miss
      BY <1>5, <1>12 DEF Refused, Locked
    <2>2. s \in valid /\ s \notin SetNow(o)  BY <1>12 DEF MayWrite
    <2>3. ~TakenWith(PreAt(o), WritesAt(o), EscapesAt(o), s)  BY <1>1, <2>2 DEF MarkInv
    <2>4. s \in Locked => Chosen(s, miss, writes'[s])
      <3>1. CASE s \in Locked /\ s \in Attempted(o)
        BY <1>1, <1>3, <2>3, <3>1 DEF MarkInv
      <3>2. CASE s \in Locked /\ s \notin Attempted(o)
        <4>1. W = {}  BY <1>1, <2>3, <3>2 DEF MarkInv
        <4> QED  BY <1>3, <3>2, <4>1, StartsAreNumbers DEF Chosen
      <3> QED  BY <3>1, <3>2
    <2>5. \A st : Holds(s, st)' <=> Holds(s, st)  BY <1>2, <2>1 DEF Holds
    <2>6. SlotInv(s, pre, writes, escapes, Here)'
      BY <1>1, <1>2, <1>3, <1>4, <1>9, <1>10, <1>12, <2>1, <2>2, <2>3, <2>5 DEF SlotInv
    <2>7. MarkInv(s, pre, writes, escapes, setNow, attempted)'
      BY <1>3, <1>4, <1>12, <2>1, <2>2, <2>4 DEF MarkInv
    <2> QED  BY <1>2, <1>7, <1>8, <2>6, <2>7 DEF IInv
  <1> QED  BY <1>11, <1>12

LEMMA SetStep ==
    ASSUME IInv, NEW o \in 1 .. MaxOffset, NEW s \in Slot,
           NEW start \in Start, Set(s, start, o)
    PROVE  IInv'
  <1>1. /\ Enter(o) /\ Note(s, o, {start}, FALSE) /\ valid' = valid \cup {s}
        /\ Parent[s] = NoParent
        /\ IF MayWrite(s, o)
           THEN Written(s, o, Earliest(s \in SetNow(o), store[s], start))
           ELSE Refused(s, o, Earliest(s \in Attempted(o), failed[s], start))
    BY DEF Set
  <1>2. /\ Before(start, o)
        /\ store[s] \in Start /\ failed[s] \in Start
        /\ WritesAt(o)[s] \in SUBSET Start /\ Start \subseteq Nat
    BY StartsAreNumbers DEF Set, Start, Before, IInv, Types, TypeOK, WritesAt
  <1>3. PICK hit : hit = Earliest(s \in SetNow(o), store[s], start)  OBVIOUS
  <1>4. PICK miss : miss = Earliest(s \in Attempted(o), failed[s], start)  OBVIOUS
  <1>5. hit \in Start /\ miss \in Start  BY <1>2, <1>3, <1>4 DEF Earliest
  <1>6. s \notin SetNow(o) => hit = start  BY <1>3 DEF Earliest
  <1>7. s \notin Attempted(o) => miss = start  BY <1>4 DEF Earliest
  <1>8. s \in SetNow(o) /\ Chosen(s, store[s], WritesAt(o)[s])
           => Chosen(s, hit, WritesAt(o)[s] \cup {start})
    <2> SUFFICES ASSUME s \in SetNow(o), Chosen(s, store[s], WritesAt(o)[s])
                 PROVE  Chosen(s, hit, WritesAt(o)[s] \cup {start})
      OBVIOUS
    <2>1. hit = IF store[s] < start THEN store[s] ELSE start  BY <1>3 DEF Earliest
    <2>2. /\ store[s] \in Nat /\ start \in Nat
          /\ store[s] \in WritesAt(o)[s] /\ \A v \in WritesAt(o)[s] : v \in Nat
      BY <1>2 DEF Chosen
    <2> QED  BY <1>1, <2>1, <2>2 DEF Chosen
  <1>9. s \in Attempted(o) /\ Chosen(s, failed[s], WritesAt(o)[s])
           => Chosen(s, miss, WritesAt(o)[s] \cup {start})
    <2> SUFFICES ASSUME s \in Attempted(o), Chosen(s, failed[s], WritesAt(o)[s])
                 PROVE  Chosen(s, miss, WritesAt(o)[s] \cup {start})
      OBVIOUS
    <2>1. miss = IF failed[s] < start THEN failed[s] ELSE start  BY <1>4 DEF Earliest
    <2>2. /\ failed[s] \in Nat /\ start \in Nat
          /\ failed[s] \in WritesAt(o)[s] /\ \A v \in WritesAt(o)[s] : v \in Nat
      BY <1>2 DEF Chosen
    <2> QED  BY <1>1, <2>1, <2>2 DEF Chosen
  <1> QED
    BY <1>1, <1>2, <1>3, <1>4, <1>5, <1>6, <1>7, <1>8, <1>9, WriteSlot

LEMMA CopyStep ==
    ASSUME IInv, NEW o \in 1 .. MaxOffset, NEW s \in Slot, Copy(s, o)
    PROVE  IInv'
  <1>1. PICK start : start = store[Parent[s]]  OBVIOUS
  <1>2. /\ Enter(o) /\ Note(s, o, {start}, FALSE) /\ valid' = valid \cup {s}
        /\ Parent[s] # NoParent /\ Parent[s] \in valid /\ Parent[s] \in Slot
        /\ IF MayWrite(s, o) THEN Written(s, o, start) ELSE Refused(s, o, start)
    BY <1>1 DEF Copy, IInv, Types, TypeOK
  <1>3. start \in Start  BY <1>1, <1>2 DEF IInv, Types, TypeOK
  <1>4. SlotInv(Parent[s], PreAt(o), WritesAt(o), EscapesAt(o), o)  BY <1>2, Open
  <1>5. Before(start, o)  BY <1>1, <1>2, <1>4 DEF SlotInv
  <1>6. Chosen(s, start, WritesAt(o)[s] \cup {start})  BY <1>2 DEF Chosen
  <1> QED  BY <1>2, <1>3, <1>5, <1>6, WriteSlot

LEMMA MakeWritableStep ==
    ASSUME IInv, NEW o \in 1 .. MaxOffset, NEW s \in Slot,
           MakeWritable(s, o)
    PROVE  IInv'
  <1>1. /\ Enter(o) /\ Note(s, o, {}, TRUE) /\ s \in Locked /\ Mode[s] = "lock"
        /\ attempted' = Attempted(o) /\ valid' = valid /\ failed' = failed
    BY DEF MakeWritable, Locked
  <1>2. /\ SlotInv(s, PreAt(o), WritesAt(o), EscapesAt(o), o)
        /\ MarkInv(s, PreAt(o), WritesAt(o), EscapesAt(o), SetNow(o), Attempted(o))
    BY <1>1, Open
  <1>3. /\ now' = o /\ Here' = o /\ base' = base
        /\ pre' = PreAt(o)
        /\ writes' = [WritesAt(o) EXCEPT ![s] = @ \cup {}]
        /\ escapes' = EscapesAt(o) \cup {s}
        /\ WritesAt(o) \in [Slot -> SUBSET Start]
    BY <1>1, Noted
  <1>4. writes'[s] = WritesAt(o)[s]  BY <1>3
  <1>5. /\ store \in [Slot -> Start] /\ failed \in [Slot -> Start]
        /\ valid \subseteq Slot /\ writable \subseteq Locked
        /\ SetNow(o) \subseteq Slot /\ Attempted(o) \subseteq Slot
    BY DEF IInv, Types, TypeOK, SetNow, Attempted
  <1>6. TakenWith(pre', writes', escapes', s) <=> writes'[s] # {}
    BY <1>1, <1>3 DEF TakenWith
  <1>7. \/ /\ s \in SetNow(o)
           /\ setNow' = SetNow(o) /\ store' = store /\ writable' = writable
        \/ /\ s \notin SetNow(o) /\ s \in Attempted(o)
           /\ setNow' = SetNow(o) \cup {s}
           /\ store' = [store EXCEPT ![s] = failed[s]] /\ writable' = writable
        \/ /\ s \notin SetNow(o) /\ s \notin Attempted(o)
           /\ setNow' = SetNow(o)
           /\ store' = store /\ writable' = writable \cup {s}
    BY DEF MakeWritable, JustWritten
  <1>8. Types' /\ Times' /\ Kept'
    <2>1. /\ store' \in [Slot -> Start] /\ failed' \in [Slot -> Start]
          /\ valid' \subseteq Slot /\ writable' \subseteq Locked
          /\ setNow' \subseteq Slot /\ attempted' \subseteq Slot
      BY <1>1, <1>5, <1>7
    <2> QED  BY <1>1, <2>1, Noted DEF Types, TypeOK, Locked
  <1>9. ASSUME NEW x \in Slot, x # s
        PROVE  /\ SlotInv(x, pre, writes, escapes, Here)'
               /\ MarkInv(x, pre, writes, escapes, setNow, attempted)'
    <2>1. /\ x \in writable' <=> x \in writable
          /\ x \in setNow' <=> x \in SetNow(o)
          /\ store'[x] = store[x]
      BY <1>5, <1>7, <1>9
    <2> QED  BY <1>1, <1>3, <1>9, <2>1, Others
  <1>10. SlotInv(s, pre, writes, escapes, Here)'
    <2>1. CASE s \in SetNow(o)
      <3>1. TakenWith(PreAt(o), WritesAt(o), EscapesAt(o), s)  BY <1>2, <2>1 DEF MarkInv
      <3>2. writes'[s] # {}  BY <1>4, <3>1 DEF TakenWith
      <3> QED  BY <1>1, <1>2, <1>3, <1>4, <1>6, <1>7, <2>1, <3>1, <3>2 DEF SlotInv
    <2>2. CASE s \notin SetNow(o) /\ s \in Attempted(o)
      <3>1. ~TakenWith(PreAt(o), WritesAt(o), EscapesAt(o), s)  BY <1>2, <2>2 DEF MarkInv
      <3>2. writes'[s] # {} /\ Chosen(s, failed[s], writes'[s])
        BY <1>1, <1>2, <1>4, <2>2, <3>1 DEF MarkInv
      <3>3. s \notin writable
        <4>1. ~PreAt(o)[s].writable /\ s \notin EscapesAt(o)
          BY <1>1, <1>4, <3>1, <3>2 DEF TakenWith
        <4> QED  BY <1>2, <4>1 DEF SlotInv
      <3>4. store'[s] = failed[s] /\ Before(failed[s], o)
        BY <1>2, <1>4, <1>5, <1>7, <2>2, <3>2 DEF Chosen, SlotInv
      <3> QED
        BY <1>1, <1>2, <1>3, <1>4, <1>6, <1>7, <2>2, <3>2, <3>3, <3>4 DEF SlotInv
    <2>3. CASE s \notin SetNow(o) /\ s \notin Attempted(o)
      <3>1. ~TakenWith(PreAt(o), WritesAt(o), EscapesAt(o), s)  BY <1>2, <2>3 DEF MarkInv
      <3>2. writes'[s] = {}  BY <1>1, <1>2, <1>4, <2>3, <3>1 DEF MarkInv
      <3>3. \A st : Holds(s, st)' <=> Holds(s, st)  BY <1>3, <1>7, <2>3 DEF Holds
      <3> QED
        BY <1>1, <1>2, <1>3, <1>4, <1>6, <1>7, <2>3, <3>1, <3>2, <3>3 DEF SlotInv
    <2> QED  BY <2>1, <2>2, <2>3
  <1>11. MarkInv(s, pre, writes, escapes, setNow, attempted)'
    <2>1. s \in SetNow(o) => writes'[s] # {}
      BY <1>2, <1>4 DEF MarkInv, TakenWith
    <2>2. s \notin SetNow(o) => (s \in Attempted(o) <=> writes'[s] # {})
      BY <1>1, <1>2, <1>4 DEF MarkInv
    <2>3. s \in setNow' <=> writes'[s] # {}
      BY <1>7, <2>1, <2>2
    <2>4. writes'[s] = {} => s \notin attempted'
      BY <1>1, <1>2, <1>4 DEF MarkInv, TakenWith
    <2> QED  BY <1>6, <2>3, <2>4 DEF MarkInv
  <1> QED  BY <1>3, <1>8, <1>9, <1>10, <1>11 DEF IInv

----------------------------------------------------------------------------
(* Stream writes *)

LEMMA KeptIs ==
    ASSUME NEW start \in Start, NEW o \in 0 .. MaxOffset, Before(start, o)
    PROVE  /\ KeptValue(start, o) \in 0 .. Sentinel
           /\ LoadedValue(KeptValue(start, o), o) \in Start
           /\ Before(LoadedValue(KeptValue(start, o), o), o)
           /\ \/ LoadedValue(KeptValue(start, o), o) = start
              \/ /\ LoadedValue(KeptValue(start, o), o) = Past
                 /\ start # Past /\ o - start >= Sentinel
  <1> USE StartsAreNumbers
  <1>1. CASE start = Past
    BY <1>1 DEF KeptValue, LoadedValue, Before, Start
  <1>2. CASE start # Past
    <2>1. start \in 0 .. o /\ o - start \in Nat  BY <1>2 DEF Before
    <2>2. KeptValue(start, o) = IF o - start <= Sentinel THEN o - start ELSE Sentinel
      BY <1>2, <2>1, MinOfTwo DEF KeptValue
    <2> QED  BY <1>2, <2>1, <2>2 DEF LoadedValue, Before, Start
  <1> QED  BY <1>1, <1>2

LEMMA BeginWriteStep == ASSUME IInv, BeginWrite PROVE IInv'
  <1>1. PICK junk \in {0, MaxOffset}, left \in {{}, Slot} :
          /\ store' = [s \in Slot |-> IF s \in valid THEN LoadedValue(kept[s], base) ELSE junk]
          /\ failed' = [s \in Slot |-> junk]
          /\ setNow' = left /\ attempted' = left
    BY DEF BeginWrite
  <1>2. /\ ~active /\ active' = TRUE /\ now' = Past /\ base' = base
        /\ pre' = [x \in Slot |-> Settled(x)]
        /\ writes' = [x \in Slot |-> {}] /\ escapes' = {}
        /\ valid' = valid /\ writable' = writable /\ kept' = kept /\ events' = events
        /\ Here' = base
    BY DEF BeginWrite, streamState, Here
  <1>3. junk \in Start /\ Past \in Start  BY StartsAreNumbers DEF Start
  <1>4. ASSUME NEW s \in valid
        PROVE  /\ s \in Slot /\ store'[s] \in Start /\ Before(store'[s], base)
               /\ \/ store'[s] = store[s]
                  \/ store'[s] = Past /\ store[s] # Past /\ base - store[s] >= Sentinel
    <2>1. s \in Slot /\ store[s] \in Start /\ base \in 0 .. MaxOffset
      BY DEF IInv, Types, TypeOK
    <2>2. kept[s] = KeptValue(store[s], base)  BY <1>2 DEF IInv, Kept
    <2>3. Before(store[s], Here)  BY <2>1 DEF IInv, SlotInv
    <2>4. Before(store[s], base)
      BY <1>2, <2>1, <2>3, StartsAreNumbers DEF Before, Here, IInv, Times, Types, TypeOK
    <2>5. store'[s] = LoadedValue(kept[s], base)  BY <1>1, <2>1
    <2> QED  BY <2>1, <2>2, <2>4, <2>5, KeptIs
  <1>5. store' \in [Slot -> Start] /\ failed' \in [Slot -> Start]
    BY <1>1, <1>3, <1>4
  <1>6. Types'
    <2>1. setNow' \subseteq Slot /\ attempted' \subseteq Slot  BY <1>1
    <2>2. /\ pre' \in [Slot -> Record] /\ \A s \in Slot : pre'[s].writable => s \in Locked
      BY <1>2, SettledIs
    <2>3. writes' \in [Slot -> SUBSET Start]  BY <1>2
    <2> QED  BY <1>2, <1>3, <1>5, <2>1, <2>2, <2>3 DEF IInv, Types, TypeOK
  <1>7. ASSUME NEW s \in Slot PROVE SlotInv(s, pre, writes, escapes, Here)'
    <2>1. /\ pre'[s] = Settled(s) /\ writes'[s] = {} /\ escapes' = {}
          /\ ~TakenWith(pre', writes', escapes', s)
      BY <1>2 DEF TakenWith
    <2>2. /\ pre'[s].valid = (s \in valid)
          /\ pre'[s].writable = (s \in writable)
          /\ s \in valid => Holds(s, pre'[s].start)
      BY <2>1, SettledIs
    <2>3. s \in valid => Holds(s, pre[s].start)'
      BY <1>2, <1>4, <2>2 DEF Holds
    <2> QED  BY <1>2, <1>4, <2>1, <2>2, <2>3 DEF SlotInv
  <1>8. Times' /\ Kept'  BY <1>2 DEF Times, Kept
  <1> QED  BY <1>2, <1>6, <1>7, <1>8 DEF IInv

LEMMA EndWriteStep ==
    ASSUME IInv, NEW end \in 1 .. MaxOffset, EndWrite(end)
    PROVE  IInv'
  <1>1. /\ active /\ active' = FALSE /\ end > base /\ base' = end
        /\ now = Past \/ end >= now
        /\ kept' = [s \in Slot |-> IF s \in valid THEN KeptValue(store[s], end) ELSE kept[s]]
        /\ UNCHANGED <<valid, writable, store, failed, setNow, attempted, now, events,
                       pre, writes, escapes>>
    BY DEF EndWrite
  <1> USE StartsAreNumbers
  <1>2. end \in 0 .. MaxOffset /\ base \in Nat /\ now \in Nat
    BY DEF IInv, Types, TypeOK
  <1>3. ASSUME NEW v, Before(v, Here) PROVE Before(v, Here')
    BY <1>1, <1>2, <1>3 DEF Before, Here
  <1>4. ASSUME NEW v, Before(v, Here) PROVE Before(v, end)
    BY <1>1, <1>2, <1>4 DEF Before, Here
  <1>5. kept' \in [Slot -> 0 .. Sentinel]
    <2>1. ASSUME NEW s \in Slot, s \in valid PROVE KeptValue(store[s], end) \in 0 .. Sentinel
      <3>1. Before(store[s], Here) /\ store[s] \in Start
        BY <2>1 DEF IInv, SlotInv, Types, TypeOK
      <3> QED  BY <1>2, <1>4, <3>1, KeptIs
    <2> QED  BY <1>1, <2>1 DEF IInv, Types, TypeOK
  <1>6. Types'  BY <1>1, <1>2, <1>5 DEF IInv, Types, TypeOK
  <1>7. Times' /\ Kept'
    BY <1>1, <1>2 DEF Times, Kept, IInv, Types, TypeOK
  <1>8. ASSUME NEW s \in Slot PROVE SlotInv(s, pre, writes, escapes, Here)'
    <2>1. SlotInv(s, pre, writes, escapes, Here)  BY DEF IInv
    <2>2. TakenWith(pre, writes, escapes, s)' <=> TakenWith(pre, writes, escapes, s)
      BY <1>1 DEF TakenWith
    <2>3. Holds(s, pre[s].start) => Holds(s, pre[s].start)'
      <3>1. pre[s].start \in Nat  BY DEF IInv, Types, Record, Start
      <3> QED  BY <1>1, <1>2, <3>1 DEF Holds
    <2>4. /\ s \in valid => Before(store[s], Here)
          /\ \A v \in writes[s] : Before(v, Here)
      BY <2>1 DEF SlotInv
    <2>5. /\ s \in valid => Before(store[s], Here')
          /\ \A v \in writes[s] : Before(v, Here')
      BY <1>3, <2>4
    <2> QED  BY <1>1, <2>1, <2>2, <2>3, <2>5 DEF SlotInv
  <1>9. now' # Past => \A s \in Slot : MarkInv(s, pre, writes, escapes, setNow, attempted)'
    BY <1>1 DEF IInv, MarkInv, TakenWith
  <1> QED  BY <1>6, <1>7, <1>8, <1>9 DEF IInv

----------------------------------------------------------------------------
(* The theorems *)

LEMMA InitIInv == ASSUME Init PROVE IInv
  <1> USE StartsAreNumbers
  <1>1. Types /\ Times
    <2>1. 0 \in Start /\ Past \in Start  BY DEF Start
    <2>2. [valid |-> FALSE, writable |-> FALSE, start |-> 0] \in Record
      BY <2>1 DEF Record
    <2>3. pre \in [Slot -> Record] /\ \A s \in Slot : ~pre[s].writable
      BY <2>2 DEF Init
    <2>4. TypeOK
      <3>1. 0 \in 0 .. Sentinel /\ 0 \in 0 .. MaxOffset /\ 0 \in 0 .. MaxEvents
        BY SlotsAssumption
      <3>2. /\ kept = [s \in Slot |-> 0] /\ store = kept /\ failed = kept
            /\ valid = {} /\ writable = {} /\ setNow = {} /\ attempted = {}
            /\ now = Past /\ base = 0 /\ active = FALSE /\ events = 0
            /\ writes = [s \in Slot |-> {}] /\ escapes = {}
        BY DEF Init
      <3> QED  BY <2>1, <3>1, <3>2 DEF TypeOK
    <2>5. writable = {} /\ escapes = {}  BY DEF Init
    <2>6. Times  BY DEF Init, Times
    <2> QED  BY <2>3, <2>4, <2>5, <2>6 DEF Types
  <1>2. Kept  BY DEF Init, Kept
  <1>3. \A s \in Slot : SlotInv(s, pre, writes, escapes, Here)
    BY DEF Init, SlotInv, TakenWith
  <1> QED  BY <1>1, <1>2, <1>3 DEF IInv, Init

LEMMA NextStep == ASSUME IInv, [Next]_vars PROVE IInv'
  <1>1. CASE BeginWrite  BY <1>1, BeginWriteStep
  <1>2. CASE \E o \in 1 .. MaxOffset : \E s \in Slot, start \in Start : Set(s, start, o)
    BY <1>2, SetStep
  <1>3. CASE \E o \in 1 .. MaxOffset, s \in Slot : Copy(s, o)  BY <1>3, CopyStep
  <1>4. CASE \E o \in 1 .. MaxOffset, s \in Slot : MakeWritable(s, o)
    BY <1>4, MakeWritableStep
  <1>5. CASE \E o \in 1 .. MaxOffset : EndWrite(o)  BY <1>5, EndWriteStep
  <1>6. CASE UNCHANGED vars
    BY <1>6 DEF vars, streamState, IInv, Types, TypeOK, Times, Kept, Here,
                SlotInv, MarkInv, TakenWith, Holds
  <1> QED  BY <1>1, <1>2, <1>3, <1>4, <1>5, <1>6 DEF Next

LEMMA Consequences == ASSUME IInv
                      PROVE  TypeOK /\ LocksExact /\ StartExact
  <1>1. TypeOK  BY DEF IInv, Types
  <1>2. ASSUME NEW s \in Slot
        PROVE  /\ (s \in valid) = IdealSlot(s).valid
               /\ (s \in writable) = IdealSlot(s).writable
    BY SettledIs
  <1>3. ASSUME NEW s \in valid
        PROVE  IF Parent[s] # NoParent /\ Taken(s)
               THEN \E w \in writes[s] : Holds(s, w)
               ELSE Holds(s, IdealSlot(s).start)
    <2>1. s \in Slot  BY <1>1, <1>3 DEF TypeOK
    <2>2. SlotInv(s, pre, writes, escapes, Here)  BY <2>1 DEF IInv
    <2>3. CASE Parent[s] # NoParent /\ Taken(s)
      <3>1. store[s] \in writes[s]  BY <2>2, <2>3, TakenIs DEF SlotInv, Chosen
      <3> QED  BY <2>3, <3>1 DEF Holds
    <2>4. CASE Parent[s] # NoParent /\ ~Taken(s)
      <3>1. IdealSlot(s).start = pre[s].start  BY <2>4 DEF IdealSlot
      <3> QED  BY <2>2, <2>4, <3>1, TakenIs DEF SlotInv
    <2>5. CASE Parent[s] = NoParent
      <3>1. Holds(s, Settled(s).start)  BY <2>1, SettledIs
      <3> QED  BY <2>5, <3>1 DEF Settled
    <2> QED  BY <2>3, <2>4, <2>5
  <1> QED  BY <1>1, <1>2, <1>3 DEF LocksExact, StartExact

\* Stored starts and kept distances stay in their ranges: the distance of a
\* start never underflows (storeSomValue).
THEOREM SlotTypes == Spec => []TypeOK
  <1>1. IInv => TypeOK  BY Consequences
  <1>2. Init => IInv  BY InitIInv
  <1>3. IInv /\ [Next]_vars => IInv'  BY NextStep
  <1> QED  BY <1>1, <1>2, <1>3, PTL DEF Spec

\* Which slots are valid and locked after an offset does not depend on the
\* order of its events (handleSomInternal).
THEOREM SlotLocks == Spec => []LocksExact
  <1>1. IInv => LocksExact  BY Consequences
  <1>2. Init => IInv  BY InitIInv
  <1>3. IInv /\ [Next]_vars => IInv'  BY NextStep
  <1> QED  BY <1>1, <1>2, <1>3, PTL DEF Spec

\* A slot holds the earliest known start that could write it, across any number
\* of stream writes; the sentinel stands for one that fell behind the horizon,
\* and is offered as a start itself by _SET_FROM (setSomLoc, storeSomValue).
THEOREM SlotStarts == Spec => []StartExact
  <1>1. IInv => StartExact  BY Consequences
  <1>2. Init => IInv  BY InitIInv
  <1>3. IInv /\ [Next]_vars => IInv'  BY NextStep
  <1> QED  BY <1>1, <1>2, <1>3, PTL DEF Spec

----------------------------------------------------------------------------
(* The deduper                                                             *)

Triple == (Dedupe!Key \cup {NoKey}) \X Dedupe!Start \X Dedupe!Offset
Entry  == (Dedupe!Key \cup {NoKey}) \X Dedupe!Start \X Dedupe!Offset \X BOOLEAN

\* The report a callback gives, and the count that must not go back.
Of(x)  == <<x[1], x[2], x[3]>>
Raw(x) == x[3] + (IF x[4] THEN 1 ELSE 0)

Once(seq) ==
    \A i, j \in DOMAIN seq :
        (i # j /\ seq[i][1] # NoKey) => <<seq[i][1], seq[i][3]>> # <<seq[j][1], seq[j][3]>>
Ascending(seq) == \A i, j \in DOMAIN seq : i < j => Raw(seq[i]) <= Raw(seq[j])
InOrder(seq) == seq \in Seq(Entry) /\ Once(seq) /\ Ascending(seq)

\* What follows speaks of a set cs of callbacks and a set rs of reports.
Calls(seq) == {seq[i] : i \in DOMAIN seq}
Gives(cs, r) == \E c \in cs : Of(c) = r

Reports(rs) == rs \subseteq Triple /\ \A r \in rs : r[1] \notin Som => r[2] = 0
\* The start is the least number raised for the match.
Leftmost(rs, r) == \A q \in rs : (q[1] = r[1] /\ q[3] = r[3]) => r[2] <= q[2]

\* Nothing is invented, nothing is left out behind a callback, nothing at all.
Sound(cs, rs) == \A c \in cs : Of(c) \in rs /\ Leftmost(rs, Of(c))
NoGap(cs, rs) == \A r \in rs, c \in cs : Leftmost(rs, r) /\ r[3] < c[3] - 1 => Gives(cs, r)
All(cs, rs)   == \A r \in rs : Leftmost(rs, r) => Gives(cs, r)

\* A report is due when the rows before that of e have been given, and of that
\* one the keys K.
Due(r, e, K) == r[1] \in Som => (r[3] < e \/ (r[3] = e /\ r[1] \in K))

\* Exactly the reports that are due have been given.
Edge(cs, rs, e, K) ==
    /\ \A c \in cs : Of(c) \in rs /\ Leftmost(rs, Of(c)) /\ Due(Of(c), e, K)
    /\ \A r \in rs : Leftmost(rs, r) /\ Due(r, e, K) => Gives(cs, r)

\* A row of the plain log names the keys raised at offset t.
LogRow(row, rs, t) == row \subseteq Ext /\ \A k \in Ext : k \in row <=> <<k, 0, t>> \in rs

Plain(lg, rs, n) ==
    /\ LogRow(lg[Dedupe!Parity(n)], rs, n)
    /\ n > 0 => LogRow(lg[1 - Dedupe!Parity(n)], rs, n - 1)

\* A row of the start-of-match log does, and from[k] is the least of the starts.
SomRow(row, from, rs, t) ==
    /\ row \subseteq Som
    /\ \A k \in row : <<k, from[k], t>> \in rs
    /\ \A r \in rs : r[1] \in Som /\ r[3] = t => r[1] \in row /\ from[r[1]] <= r[2]

UpTo(cs, rs, o) == (\A r \in rs : r[3] <= o) /\ \A c \in cs : Raw(c) <= o

\* Between two reports, n the offset of the last one: the rows of both parities
\* stand for n and n - 1, and a clear dirty bit for an empty row.
At(n, lg, sm, from, d, cs, rs) ==
    LET here == Dedupe!Parity(n)
        back == 1 - here
    IN
    /\ UpTo(cs, rs, n) /\ Plain(lg, rs, n)
    /\ SomRow(sm[here], from[here], rs, n)
    /\ SomRow(sm[back], from[back], rs, n - 1)
    /\ d \in {0, 1} => sm[here] = {}
    /\ d \in {0, 2} => sm[back] = {}
    /\ Edge(cs, rs, n - 1, {})

\* In a flush from o to n, of the row of o - 1.
OnFirst(o, n, lg, sm, from, d, K, cs, rs) ==
    LET here == Dedupe!Parity(o)
        back == 1 - here
    IN
    /\ o \in Dedupe!Offset /\ n > o /\ UpTo(cs, rs, o)
    /\ n # Dedupe!AllOnes => Plain(lg, rs, n)
    /\ SomRow(sm[here], from[here], rs, o)
    /\ SomRow(sm[back], from[back], rs, o - 1)
    /\ d \in {0, 1} => sm[here] = {}
    /\ K \subseteq sm[back]
    /\ Edge(cs, rs, o - 1, K)

\* In a flush from o to n, of the row of o.
OnSecond(o, n, lg, sm, from, K, cs, rs) ==
    LET here == Dedupe!Parity(o)
        back == 1 - here
    IN
    /\ o \in Dedupe!Offset /\ n > o + 1 /\ UpTo(cs, rs, o)
    /\ n # Dedupe!AllOnes => Plain(lg, rs, n)
    /\ SomRow(sm[here], from[here], rs, o)
    /\ sm[back] = {}
    /\ K \subseteq sm[here]
    /\ Edge(cs, rs, o, K)

\* The flush is over: nothing is held back at the end of a call.
Closed(n, lg, sm, from, d, cs, rs) ==
    IF n = Dedupe!AllOnes THEN All(cs, rs) ELSE At(n, lg, sm, from, d, cs, rs)

\* TypeOK without the callbacks, whose offsets are those of the rows.
Shape ==
    /\ current \in Dedupe!Offset \cup {Dedupe!AllOnes}
    /\ log \in [0 .. 1 -> SUBSET Ext]
    /\ somLog \in [0 .. 1 -> SUBSET Som]
    /\ starts \in [0 .. 1 -> [Som -> Dedupe!Start]]
    /\ dirty \in 0 .. 3
    /\ stage \in {"idle", "first", "second", "done"}
    /\ report \in Dedupe!Report /\ sent \subseteq Som
    /\ stopped \in BOOLEAN /\ scanning \in BOOLEAN
    /\ last \in Dedupe!Offset /\ calls \in 0 .. MaxCalls /\ count \in 0 .. MaxReports
    /\ Reports(raised)

\* Before the first report of a call the logs may hold anything, unless they
\* were cleared for a boundary report.
Fresh == raised = {} /\ out = <<>> /\ (dirty = 0 => \A b \in 0 .. 1 : somLog[b] = {})

Between ==
    IF current = Dedupe!AllOnes THEN Fresh
    ELSE current = last /\ At(current, log, somLog, starts, dirty, Calls(out), raised)

\* rs are the reports before the one that is being taken.
Taking == <<report[1], report[2], report[4] + report[3]>>
Prior(rs) ==
    /\ Reports(rs)
    /\ IF report[4] = Dedupe!AllOnes THEN raised = rs
       ELSE raised = rs \cup {Taking} /\ Taking \in raised /\ last = report[4]

Phase(rs) ==
    \/ /\ stage = "first"
       /\ OnFirst(current, report[4], log, somLog, starts, dirty, sent, Calls(out), rs)
    \/ /\ stage = "second"
       /\ OnSecond(current, report[4], log, somLog, starts, sent, Calls(out), rs)
    \/ /\ stage = "done" /\ sent = {}
       /\ Closed(report[4], log, somLog, starts, dirty, Calls(out), rs)

Given == InOrder(out) /\ Sound(Calls(out), raised) /\ NoGap(Calls(out), raised)

DedupeInv ==
    /\ Shape /\ Given
    /\ IF stage = "idle" THEN sent = {} ELSE scanning /\ ~stopped
    /\ ~scanning /\ ~stopped => All(Calls(out), raised)
    /\ scanning /\ ~stopped /\ stage = "idle" => Between
    /\ stage # "idle" => \E rs : Prior(rs) /\ Phase(rs)

----------------------------------------------------------------------------
(* Numbers and sequences                                                   *)

\* The constants.
LEMMA Constants ==
    /\ Ext \cap Som = {} /\ NoKey \notin Ext \cup Som
    /\ Mod \in Nat /\ MaxDedupeOffset \in Nat /\ MaxDedupeOffset + 2 < Mod /\ Mod % 2 = 0
    /\ MaxReports \in Nat /\ MaxCalls \in Nat
    /\ Dedupe!AllOnes = Mod - 1 /\ Dedupe!AllOnes \notin Dedupe!Offset
    /\ Dedupe!AllOnes \in Nat /\ Dedupe!PastHorizon = Dedupe!AllOnes
    /\ Dedupe!Key = Ext \cup Som
    /\ Dedupe!Start = Dedupe!Offset \cup {Dedupe!AllOnes}
    /\ \A o \in Dedupe!Offset : o \in Nat /\ o <= MaxDedupeOffset
    /\ \A s \in Dedupe!Start : s \in Nat
    /\ 0 \in Dedupe!Offset /\ 0 \in Dedupe!Start
  <1>2. /\ {Mod, MaxDedupeOffset, MaxReports, MaxCalls} \subseteq Nat
        /\ Mod % 2 = 0 /\ MaxDedupeOffset + 2 < Mod
    BY DeduperAssumption DEF Dedupe!DedupeAssumption
  <1>3. Ext \cap Som = {} /\ NoKey \notin Ext \cup Som
    BY DeduperAssumption DEF Dedupe!DedupeAssumption
  <1>4. Dedupe!AllOnes = Mod - 1 /\ Dedupe!AllOnes \in Nat /\ Dedupe!PastHorizon = Dedupe!AllOnes
    BY <1>2 DEF Dedupe!AllOnes, Dedupe!PastHorizon
  <1>5. /\ \A o \in Dedupe!Offset : o \in Nat /\ o <= MaxDedupeOffset
        /\ 0 \in Dedupe!Offset /\ Dedupe!AllOnes \notin Dedupe!Offset
    BY <1>2, <1>4 DEF Dedupe!Offset
  <1>6. Dedupe!Start = Dedupe!Offset \cup {Dedupe!AllOnes}
    BY <1>4 DEF Dedupe!Start
  <1>7. (\A s \in Dedupe!Start : s \in Nat) /\ 0 \in Dedupe!Start
    BY <1>4, <1>5, <1>6
  <1> QED
    BY <1>2, <1>3, <1>4, <1>5, <1>6, <1>7 DEF Dedupe!Key

\* Two offsets next to each other have different rows, modulo 2^64 too.
LEMMA Rows ==
    ASSUME NEW o \in Dedupe!Offset
    PROVE  /\ Dedupe!Parity(o) \in 0 .. 1 /\ 1 - Dedupe!Parity(o) \in 0 .. 1
           /\ 1 - Dedupe!Parity(o) # Dedupe!Parity(o)
           /\ 0 .. 1 = {Dedupe!Parity(o), 1 - Dedupe!Parity(o)}
           /\ Dedupe!Parity(o + 1) = 1 - Dedupe!Parity(o)
           /\ o > 0 => Dedupe!Parity(o - 1) = 1 - Dedupe!Parity(o)
           /\ Dedupe!Parity((o - 1) % Mod) = 1 - Dedupe!Parity(o)
           /\ (o - 1) % Mod = (IF o = 0 THEN Dedupe!AllOnes ELSE o - 1)
           /\ (o + 1) % Mod = o + 1 /\ o + 1 # Dedupe!AllOnes /\ Dedupe!AllOnes > o + 1
           /\ (Dedupe!AllOnes + 1) % Mod = 0
  <1>1. o \in Nat /\ o + 2 < Mod /\ Mod \in Nat /\ Mod % 2 = 0 /\ Dedupe!AllOnes = Mod - 1
    BY Constants
  <1>2. (o + 1) % Mod = o + 1 /\ (o > 0 => (o - 1) % Mod = o - 1)
    BY <1>1
  <1>3. (0 - 1) % Mod = Mod - 1 /\ Mod % Mod = 0
    BY <1>1
  <1>4. (Mod - 1) % 2 = 1
    BY <1>1
  <1>5. /\ o % 2 \in {0, 1} /\ (o + 1) % 2 = 1 - (o % 2)
        /\ o > 0 => (o - 1) % 2 = 1 - (o % 2)
    BY <1>1
  <1>6. o = 0 => o % 2 = 0  OBVIOUS
  <1>7. (o - 1) % Mod = (IF o = 0 THEN Mod - 1 ELSE o - 1)
    BY <1>1, <1>2, <1>3
  <1>8. ((o - 1) % Mod) % 2 = 1 - (o % 2)
    BY <1>1, <1>4, <1>5, <1>6, <1>7
  <1>9. Mod - 1 + 1 = Mod  BY <1>1
  <1> QED
    BY <1>1, <1>2, <1>3, <1>5, <1>7, <1>8, <1>9 DEF Dedupe!Parity

\* A callback is appended to those made.
LEMMA Grown ==
    ASSUME NEW a, InOrder(a), NEW x \in Entry, NEW b, b = Append(a, x),
           \A c \in Calls(a) : x[1] # NoKey => ~(c[1] = x[1] /\ c[3] = x[3]),
           \A c \in Calls(a) : Raw(c) <= Raw(x)
    PROVE  InOrder(b) /\ Calls(b) = Calls(a) \cup {x}
  <1>1. a \in Seq(Entry) /\ Once(a) /\ Ascending(a)
    BY DEF InOrder
  <1>2. /\ b \in Seq(Entry) /\ DOMAIN b = 1 .. Len(a) + 1 /\ DOMAIN a = 1 .. Len(a)
        /\ b[Len(a) + 1] = x /\ \A i \in DOMAIN a : b[i] = a[i]
        /\ Len(a) \in Nat
    BY <1>1
  <1>3. \A i \in DOMAIN a : b[i] \in Calls(a)
    BY <1>2 DEF Calls
  <1>4. \A i \in DOMAIN b : i \in DOMAIN a \/ (i = Len(a) + 1 /\ b[i] = x)
    BY <1>2
  <1>5. ASSUME NEW i \in DOMAIN b, NEW j \in DOMAIN b, i # j, b[i][1] # NoKey,
               b[i][1] = b[j][1], b[i][3] = b[j][3]
        PROVE  FALSE
    <2>1. CASE i \in DOMAIN a /\ j \in DOMAIN a
      BY <1>1, <1>2, <1>5, <2>1 DEF Once
    <2>2. CASE i \notin DOMAIN a
      BY <1>3, <1>4, <1>5, <2>2
    <2>3. CASE j \notin DOMAIN a
      BY <1>3, <1>4, <1>5, <2>3
    <2> QED  BY <2>1, <2>2, <2>3
  <1>6. Once(b)
    BY <1>5 DEF Once
  <1>7. ASSUME NEW i \in DOMAIN b, NEW j \in DOMAIN b, i < j
        PROVE  Raw(b[i]) <= Raw(b[j])
    <2>1. i \in DOMAIN a
      BY <1>2, <1>7
    <2>2. CASE j \in DOMAIN a
      BY <1>1, <1>2, <1>7, <2>1, <2>2 DEF Ascending
    <2>3. CASE j \notin DOMAIN a
      BY <1>3, <1>4, <2>1, <2>3
    <2> QED  BY <2>2, <2>3
  <1>8. Ascending(b)
    BY <1>7 DEF Ascending
  <1>9. Calls(b) = Calls(a) \cup {x}
    BY <1>2, <1>3, <1>4 DEF Calls
  <1> QED  BY <1>2, <1>6, <1>8, <1>9 DEF InOrder

LEMMA CallsAre == ASSUME NEW a, a \in Seq(Entry)
                  PROVE  Calls(a) \subseteq Entry
  BY DEF Calls

\* The parts of a report and of a callback.
LEMMA ReportIs ==
    ASSUME NEW rs, Reports(rs), NEW r \in rs
    PROVE  /\ r = <<r[1], r[2], r[3]>> /\ r[1] \in Dedupe!Key \cup {NoKey}
           /\ r[2] \in Nat /\ r[3] \in Nat /\ r[3] \in Dedupe!Offset
           /\ r[1] \notin Som => r[2] = 0
  BY Constants DEF Reports, Triple

LEMMA CallIs ==
    ASSUME NEW c \in Entry
    PROVE  /\ Of(c)[1] = c[1] /\ Of(c)[2] = c[2] /\ Of(c)[3] = c[3]
           /\ c[3] \in Nat /\ Raw(c) \in Nat /\ c[3] <= Raw(c)
  BY Constants DEF Entry, Of, Raw

----------------------------------------------------------------------------
(* What has been given, and what is due                                    *)

\* Whoever has given what is due has left no gap, and another report for a row
\* that is not given yet changes nothing about it.
LEMMA Extend ==
    ASSUME NEW cs \in SUBSET Entry, NEW rs, Reports(rs), NEW e \in Int, NEW K,
           Edge(cs, rs, e, K), \A c \in cs : Raw(c) <= e + 1,
           NEW r0, Reports(rs \cup {r0}), r0[3] > e \/ (r0[3] = e /\ K = {})
    PROVE  Sound(cs, rs \cup {r0}) /\ NoGap(cs, rs \cup {r0})
  <1>1. /\ \A c \in cs : Of(c) \in rs /\ Leftmost(rs, Of(c)) /\ Due(Of(c), e, K)
        /\ \A r \in rs : Leftmost(rs, r) /\ Due(r, e, K) => Gives(cs, r)
    BY DEF Edge
  <1>2. r0[1] \notin Som => r0[2] = 0
    BY DEF Reports
  <1>3. \A r \in rs \cup {r0} : r[2] \in Nat /\ r[3] \in Nat
    BY ReportIs
  <1>4. ASSUME NEW c \in cs
        PROVE  Of(c) \in rs \cup {r0} /\ Leftmost(rs \cup {r0}, Of(c))
    <2>1. PICK r \in rs : r = Of(c) /\ Leftmost(rs, r) /\ Due(r, e, K)
      BY <1>1
    <2>2. r0[1] = r[1] /\ r0[3] = r[3] => r[2] <= r0[2]
      <3>1. CASE r[1] \in Som
        <4>1. r[3] < e \/ (r[3] = e /\ r[1] \in K)
          BY <2>1, <3>1 DEF Due
        <4>2. ~(r0[3] = r[3])
          BY <1>3, <4>1
        <4> QED  BY <4>2
      <3>2. CASE r[1] \notin Som
        <4>1. r[2] = 0
          BY <3>2 DEF Reports
        <4> QED  BY <1>3, <4>1
      <3> QED  BY <3>1, <3>2
    <2>3. Leftmost(rs \cup {r0}, r)
      BY <2>1, <2>2 DEF Leftmost
    <2> QED  BY <2>1, <2>3
  <1>5. ASSUME NEW r \in rs \cup {r0}, NEW c \in cs, Leftmost(rs \cup {r0}, r), r[3] < c[3] - 1
        PROVE  Gives(cs, r)
    <2>1. c[3] \in Nat /\ c[3] <= e + 1
      <3>1. c \in Entry /\ Raw(c) <= e + 1
        OBVIOUS
      <3> QED  BY <3>1, CallIs
    <2>2. r[3] < e /\ r[3] \in Nat
      BY <1>3, <1>5, <2>1
    <2>3. r # r0
      BY <2>2
    <2>4. r \in rs /\ Leftmost(rs, r)
      BY <1>5, <2>3 DEF Leftmost
    <2>5. Due(r, e, K)
      BY <2>2 DEF Due
    <2> QED  BY <1>1, <2>4, <2>5
  <1> QED  BY <1>4, <1>5 DEF Sound, NoGap

LEMMA Exactly ==
    ASSUME NEW cs \in SUBSET Entry, NEW rs, Reports(rs), NEW e \in Int, NEW K,
           Edge(cs, rs, e, K), \A c \in cs : Raw(c) <= e + 1
    PROVE  Sound(cs, rs) /\ NoGap(cs, rs)
  <1>1. /\ \A c \in cs : Of(c) \in rs /\ Leftmost(rs, Of(c)) /\ Due(Of(c), e, K)
        /\ \A r \in rs : Leftmost(rs, r) /\ Due(r, e, K) => Gives(cs, r)
    BY DEF Edge
  <1>2. ASSUME NEW r \in rs, NEW c \in cs, Leftmost(rs, r), r[3] < c[3] - 1
        PROVE  Gives(cs, r)
    <2>1. c[3] \in Nat /\ c[3] <= e + 1
      <3>1. c \in Entry /\ Raw(c) <= e + 1
        OBVIOUS
      <3> QED  BY <3>1, CallIs
    <2>2. r[3] < e
      BY <1>2, <2>1, ReportIs
    <2> QED  BY <1>1, <1>2, <2>2 DEF Due
  <1> QED  BY <1>1, <1>2 DEF Sound, NoGap

\* One more match of a row is given.
LEMMA OneMore ==
    ASSUME NEW cs \in SUBSET Entry, NEW rs, Reports(rs), NEW e \in Int, NEW K,
           NEW row, NEW from, SomRow(row, from, rs, e), Edge(cs, rs, e, K),
           NEW k \in row, k \notin K,
           NEW x, Of(x) = <<k, from[k], e>>
    PROVE  /\ Edge(cs \cup {x}, rs, e, K \cup {k})
           /\ \A c \in cs : ~(c[1] = k /\ c[3] = e)
           /\ k \in Som /\ Of(x) \in rs
  <1>1. /\ \A c \in cs : Of(c) \in rs /\ Leftmost(rs, Of(c)) /\ Due(Of(c), e, K)
        /\ \A r \in rs : Leftmost(rs, r) /\ Due(r, e, K) => Gives(cs, r)
    BY DEF Edge
  <1>2. k \in Som /\ Of(x) \in rs
    BY DEF SomRow
  <1>3. PICK h : h = Of(x) /\ h \in rs /\ h[1] = k /\ h[2] = from[k] /\ h[3] = e
    BY <1>2
  <1>4. Leftmost(rs, h)
    BY <1>2, <1>3 DEF SomRow, Leftmost
  <1>5. \A r \in rs : r[3] \in Nat
    BY ReportIs
  <1>6. ASSUME NEW c \in cs PROVE ~(c[1] = k /\ c[3] = e)
    <2>1. PICK r \in rs : r = Of(c) /\ Due(r, e, K)
      BY <1>1
    <2>2. r[1] = c[1] /\ r[3] = c[3]
      BY <2>1 DEF Of
    <2>3. ~(r[1] = k /\ r[3] = e)
      BY <1>2, <1>5, <2>1 DEF Due
    <2> QED  BY <2>2, <2>3
  <1>7. ASSUME NEW c \in cs \cup {x}
        PROVE  Of(c) \in rs /\ Leftmost(rs, Of(c)) /\ Due(Of(c), e, K \cup {k})
    <2>1. CASE c = x
      BY <1>3, <1>4, <2>1 DEF Due
    <2>2. CASE c \in cs
      BY <1>1, <2>2 DEF Due
    <2> QED  BY <2>1, <2>2
  <1>8. ASSUME NEW r \in rs, Leftmost(rs, r), Due(r, e, K \cup {k})
        PROVE  Gives(cs \cup {x}, r)
    <2>1. CASE Due(r, e, K)
      <3>1. Gives(cs, r)
        BY <1>1, <1>8, <2>1
      <3> QED  BY <3>1 DEF Gives
    <2>2. CASE ~Due(r, e, K)
      <3>1. r[1] = k /\ r[3] = e
        BY <1>8, <2>2 DEF Due
      <3>2. r[2] <= h[2] /\ h[2] <= r[2]
        BY <1>3, <1>4, <1>8, <3>1 DEF Leftmost
      <3>3. r = <<r[1], r[2], r[3]>> /\ h = <<h[1], h[2], h[3]>> /\ r[2] \in Nat /\ h[2] \in Nat
        BY <1>3, ReportIs
      <3>4. r[2] = h[2]
        BY <3>2, <3>3
      <3>5. r = h
        BY <1>3, <3>1, <3>3, <3>4
      <3> QED  BY <1>3, <3>5 DEF Gives
    <2> QED  BY <2>1, <2>2
  <1> QED  BY <1>2, <1>6, <1>7, <1>8 DEF Edge

\* A row has been given to its end.
LEMMA NextRow ==
    ASSUME NEW cs, NEW rs, Reports(rs), NEW e \in Int, NEW row, NEW from,
           SomRow(row, from, rs, e), Edge(cs, rs, e, row)
    PROVE  Edge(cs, rs, e + 1, {})
  <1>1. ASSUME NEW r \in rs PROVE Due(r, e, row) <=> Due(r, e + 1, {})
    <2>1. r[3] \in Nat
      BY ReportIs
    <2>2. r[1] \in Som /\ r[3] = e => r[1] \in row
      BY DEF SomRow
    <2> QED  BY <2>1, <2>2 DEF Due
  <1> QED  BY <1>1 DEF Edge

\* No report is as late as the rows that come next: all has been given.
LEMMA Over ==
    ASSUME NEW cs, NEW rs, Reports(rs), NEW o \in Int, \A r \in rs : r[3] <= o,
           Edge(cs, rs, o + 1, {}), NEW e \in Int, e > o
    PROVE  Edge(cs, rs, e, {}) /\ All(cs, rs)
  <1>1. ASSUME NEW r \in rs PROVE Due(r, o + 1, {}) /\ Due(r, e, {})
    <2>1. r[3] \in Nat /\ r[3] <= o
      BY ReportIs
    <2> QED  BY <2>1 DEF Due
  <1> QED  BY <1>1 DEF Edge, All

----------------------------------------------------------------------------
(* The phases of a flush                                                   *)

\* A row without reports.
LEMMA EmptyRow ==
    ASSUME NEW rs, Reports(rs), NEW t \in Int, NEW row, NEW from, row = {},
           \A r \in rs : ~(r[1] \in Som /\ r[3] = t)
    PROVE  SomRow(row, from, rs, t)
  BY DEF SomRow

\* One row is left, and it is the next offset's row before or empty too.
LEMMA Closing ==
    ASSUME NEW o \in Dedupe!Offset, NEW n \in Dedupe!Offset \cup {Dedupe!AllOnes}, n > o,
           NEW cs, NEW rs, Reports(rs), UpTo(cs, rs, o),
           NEW lg, n # Dedupe!AllOnes => Plain(lg, rs, n),
           NEW sm, NEW from, SomRow(sm[Dedupe!Parity(o)], from[Dedupe!Parity(o)], rs, o),
           sm[1 - Dedupe!Parity(o)] = {}, Edge(cs, rs, o, {}),
           NEW d, \/ n = o + 1 /\ (d \in {0, 2} => sm[Dedupe!Parity(o)] = {})
                  \/ sm[Dedupe!Parity(o)] = {},
           \A c \in cs : Raw(c) \in Nat
    PROVE  Closed(n, lg, sm, from, d, cs, rs)
  <1> DEFINE here == Dedupe!Parity(o)
             back == 1 - here
  <1>1. /\ o \in Nat /\ n \in Nat /\ here \in 0 .. 1 /\ 1 - back = here
        /\ n = o + 1 => Dedupe!Parity(n) = back /\ n # Dedupe!AllOnes
    <2>1. here \in 0 .. 1
      BY Rows
    <2> QED  BY <2>1, Rows, Constants
  <1>2. \A r \in rs : r[3] \in Nat /\ r[3] <= o
    BY ReportIs DEF UpTo
  <1>3. n # Dedupe!AllOnes => UpTo(cs, rs, n)
    BY <1>1, <1>2 DEF UpTo
  <1> HIDE DEF here, back
  <1>4. CASE n = o + 1
    <2>1. Dedupe!Parity(n) = back /\ n - 1 = o /\ n # Dedupe!AllOnes
      BY <1>1, <1>4
    <2>2. SomRow(sm[back], from[back], rs, n)
      <3>1. \A r \in rs : ~(r[1] \in Som /\ r[3] = n)
        BY <1>1, <1>2, <1>4
      <3>2. sm[back] = {}
        BY DEF here, back
      <3> QED  BY <1>1, <3>1, <3>2, EmptyRow
    <2>3. SomRow(sm[here], from[here], rs, n - 1) /\ Edge(cs, rs, n - 1, {})
      BY <2>1 DEF here
    <2>4. sm[back] = {} /\ (d \in {0, 2} => sm[here] = {})
      BY DEF here, back
    <2>5. Plain(lg, rs, n)
      BY <2>1
    <2>6. At(n, lg, sm, from, d, cs, rs)
      BY ONLY <1>1, <1>3, <2>1, <2>2, <2>3, <2>4, <2>5 DEF At
    <2> QED  BY ONLY <2>1, <2>6 DEF Closed
  <1>5. CASE n # o + 1
    <2>1. sm[here] = {} /\ sm[back] = {}
      BY <1>5 DEF here, back
    <2>2. n - 1 > o /\ n - 1 \in Int
      BY <1>1, <1>5
    <2>3. Edge(cs, rs, o + 1, {})
      <3>1. SomRow(sm[here], from[here], rs, o) /\ Edge(cs, rs, o, sm[here]) /\ o \in Int
        BY <1>1, <2>1 DEF here
      <3> QED  BY ONLY <3>1, NextRow, Reports(rs)
    <2>4. Edge(cs, rs, n - 1, {}) /\ All(cs, rs)
      <3>1. o \in Int /\ \A r \in rs : r[3] <= o
        BY <1>1, <1>2
      <3> QED  BY ONLY <2>2, <2>3, <3>1, Over, Reports(rs)
    <2>5. \A b \in {here, back} : SomRow(sm[b], from[b], rs, n) /\ SomRow(sm[b], from[b], rs, n - 1)
      <3>1. \A r \in rs : ~(r[1] \in Som /\ r[3] = n) /\ ~(r[1] \in Som /\ r[3] = n - 1)
        BY <1>1, <1>2, <2>2
      <3> QED  BY <1>1, <2>1, <2>2, <3>1, EmptyRow
    <2>6. CASE n = Dedupe!AllOnes
      BY <2>4, <2>6 DEF Closed
    <2>7. CASE n # Dedupe!AllOnes
      <3>1. Dedupe!Parity(n) \in {here, back} /\ 1 - Dedupe!Parity(n) \in {here, back}
        <4>1. n \in Dedupe!Offset
          BY <2>7
        <4>2. Dedupe!Parity(n) \in 0 .. 1 /\ 0 .. 1 = {here, back}
          BY ONLY <4>1, Rows, o \in Dedupe!Offset DEF here, back
        <4> QED  BY <1>1, <4>2 DEF back
      <3>2. PICK p \in {here, back} : p = Dedupe!Parity(n) /\ 1 - p \in {here, back}
        BY <3>1
      <3>3. Plain(lg, rs, n)
        BY <2>7
      <3>4. At(n, lg, sm, from, d, cs, rs)
        BY ONLY <1>3, <2>1, <2>4, <2>5, <2>7, <3>2, <3>3 DEF At
      <3> QED  BY ONLY <2>7, <3>4 DEF Closed
    <2> QED  BY <2>6, <2>7
  <1> QED  BY <1>4, <1>5

\* A new report closes the plain rows of offsets that are over.
LEMMA PlainCleared ==
    ASSUME NEW rs, Reports(rs), NEW o \in Dedupe!Offset, NEW n \in Dedupe!Offset, n > o,
           NEW lg \in [0 .. 1 -> SUBSET Ext], \A r \in rs : r[3] <= o, Plain(lg, rs, o),
           NEW lg2, lg2 = IF n = (o + 1) % Mod THEN [lg EXCEPT ![Dedupe!Parity(n)] = {}]
                          ELSE [b \in 0 .. 1 |-> {}]
    PROVE  Plain(lg2, rs, n)
  <1>1. /\ o \in Nat /\ n \in Nat /\ (o + 1) % Mod = o + 1
        /\ Dedupe!Parity(n) \in 0 .. 1 /\ 1 - Dedupe!Parity(n) \in 0 .. 1
        /\ 1 - Dedupe!Parity(n) # Dedupe!Parity(n)
        /\ n = o + 1 => 1 - Dedupe!Parity(n) = Dedupe!Parity(o)
    <2>1. Dedupe!Parity(o) \in 0 .. 1 /\ Dedupe!Parity(o + 1) = 1 - Dedupe!Parity(o)
      BY Rows
    <2> QED  BY <2>1, Rows, Constants
  <1>2. \A r \in rs : r[3] \in Nat /\ r[3] <= o
    BY ReportIs
  <1>3. ASSUME NEW t \in Int, t > o PROVE LogRow({}, rs, t)
    <2>1. \A k \in Ext : <<k, 0, t>> \notin rs
      <3> SUFFICES ASSUME NEW k \in Ext, <<k, 0, t>> \in rs PROVE FALSE
        OBVIOUS
      <3>1. PICK r \in rs : r[3] = t
        OBVIOUS
      <3> QED  BY <1>1, <1>2, <1>3, <3>1
    <2> QED  BY <2>1 DEF LogRow
  <1>4. LogRow(lg[Dedupe!Parity(o)], rs, o)
    BY DEF Plain
  <1>5. lg2[Dedupe!Parity(n)] = {}
    BY <1>1
  <1>6. CASE n = o + 1
    <2>1. lg2[1 - Dedupe!Parity(n)] = lg[Dedupe!Parity(o)] /\ n - 1 = o
      BY <1>1, <1>6
    <2> QED  BY <1>1, <1>3, <1>4, <1>5, <2>1 DEF Plain
  <1>7. CASE n # o + 1
    <2>1. lg2[1 - Dedupe!Parity(n)] = {} /\ n - 1 > o
      BY <1>1, <1>7
    <2> QED  BY <1>1, <1>3, <1>5, <2>1 DEF Plain
  <1> QED  BY <1>6, <1>7

\* The first report of a call.
LEMMA FirstReport ==
    ASSUME NEW n \in Dedupe!Offset, NEW lg \in [0 .. 1 -> SUBSET Ext],
           NEW lg2, lg2 = IF n = (Dedupe!AllOnes + 1) % Mod
                          THEN [lg EXCEPT ![Dedupe!Parity(n)] = {}]
                          ELSE [b \in 0 .. 1 |-> {}],
           NEW sm, \A b \in 0 .. 1 : sm[b] = {}, NEW from, NEW d
    PROVE  At(n, lg2, sm, from, d, {}, {})
  <1>1. /\ n \in Nat /\ (Dedupe!AllOnes + 1) % Mod = 0
        /\ Dedupe!Parity(n) \in 0 .. 1 /\ 1 - Dedupe!Parity(n) \in 0 .. 1
    BY Rows, Constants
  <1>2. lg2[Dedupe!Parity(n)] = {} /\ (n > 0 => lg2[1 - Dedupe!Parity(n)] = {})
    BY <1>1
  <1>3. Plain(lg2, {}, n)
    BY <1>2 DEF Plain, LogRow
  <1>4. \A b \in 0 .. 1 : \A t : SomRow(sm[b], from[b], {}, t)
    BY DEF SomRow
  <1>5. UpTo({}, {}, n) /\ Edge({}, {}, n - 1, {})
    BY DEF UpTo, Edge
  <1> QED  BY <1>1, <1>3, <1>4, <1>5 DEF At

\* Without dirty rows nothing is held back.
LEMMA NotDirty ==
    ASSUME NEW o \in Dedupe!Offset, NEW n \in Dedupe!Offset \cup {Dedupe!AllOnes}, n > o,
           NEW cs \in SUBSET Entry, NEW rs, Reports(rs), NEW lg, NEW sm, NEW from,
           At(o, lg, sm, from, 0, cs, rs), NEW lg2, n # Dedupe!AllOnes => Plain(lg2, rs, n)
    PROVE  Closed(n, lg2, sm, from, 0, cs, rs)
  <1> DEFINE here == Dedupe!Parity(o)
             back == 1 - here
  <1>1. /\ UpTo(cs, rs, o) /\ sm[here] = {} /\ sm[back] = {}
        /\ SomRow(sm[here], from[here], rs, o) /\ SomRow(sm[back], from[back], rs, o - 1)
        /\ Edge(cs, rs, o - 1, {})
    BY DEF At
  <1>2. o - 1 \in Int /\ o - 1 + 1 = o
    BY Constants
  <1>3. Edge(cs, rs, o, {})
    <2>1. Edge(cs, rs, o - 1, sm[back])
      BY <1>1
    <2>2. Edge(cs, rs, o - 1 + 1, {})
      BY ONLY <1>1, <1>2, <2>1, NextRow, Reports(rs)
    <2> QED  BY <1>2, <2>2
  <1>4. \A c \in cs : Raw(c) \in Nat
    BY CallIs
  <1> QED  BY <1>1, <1>3, <1>4, Closing

\* The row before has been given to its end.
LEMMA FirstOver ==
    ASSUME NEW o, NEW n \in Dedupe!Offset \cup {Dedupe!AllOnes},
           NEW cs \in SUBSET Entry, NEW rs, Reports(rs), NEW lg, NEW sm \in [0 .. 1 -> SUBSET Som],
           NEW from, NEW d \in 0 .. 3, NEW K,
           OnFirst(o, n, lg, sm, from, d, K, cs, rs), K = sm[1 - Dedupe!Parity(o)],
           NEW sm2, sm2 = [sm EXCEPT ![1 - Dedupe!Parity(o)] = {}]
    PROVE  /\ n = o + 1 => Closed(n, lg, sm2, from, d \div 2, cs, rs)
           /\ n # o + 1 => OnSecond(o, n, lg, sm2, from, {}, cs, rs)
  <1> DEFINE here == Dedupe!Parity(o)
             back == 1 - here
  <1>1. /\ o \in Dedupe!Offset /\ n > o /\ UpTo(cs, rs, o)
        /\ n # Dedupe!AllOnes => Plain(lg, rs, n)
        /\ SomRow(sm[here], from[here], rs, o)
        /\ SomRow(sm[back], from[back], rs, o - 1)
        /\ d \in {0, 1} => sm[here] = {}
        /\ Edge(cs, rs, o - 1, K)
    BY DEF OnFirst
  <1>2. o \in Nat /\ n \in Nat /\ o - 1 \in Int /\ o - 1 + 1 = o
    BY <1>1, Constants
  <1>3. here \in 0 .. 1 /\ back \in 0 .. 1 /\ here # back
    BY <1>1, Rows
  <1>4. sm2[here] = sm[here] /\ sm2[back] = {}
    BY <1>3
  <1>5. Edge(cs, rs, o, {})
    <2>1. Edge(cs, rs, o - 1, sm[back])
      BY <1>1
    <2>2. Edge(cs, rs, o - 1 + 1, {})
      BY ONLY <1>1, <1>2, <2>1, NextRow, Reports(rs)
    <2> QED  BY <1>2, <2>2
  <1>6. \A c \in cs : Raw(c) \in Nat
    BY CallIs
  <1>7. SomRow(sm2[here], from[here], rs, o)
    BY <1>1, <1>4
  <1> HIDE DEF here, back
  <1>8. ASSUME n = o + 1 PROVE Closed(n, lg, sm2, from, d \div 2, cs, rs)
    <2>1. d \div 2 \in {0, 2} => d \in {0, 1}
      OBVIOUS
    <2>2. d \div 2 \in {0, 2} => sm2[here] = {}
      BY <1>1, <1>4, <2>1
    <2>3. PICK d2 : d2 = d \div 2 /\ (d2 \in {0, 2} => sm2[here] = {})
      BY <2>2
    <2>4. Closed(n, lg, sm2, from, d2, cs, rs)
      BY ONLY <1>1, <1>4, <1>5, <1>6, <1>7, <1>8, <2>3, Closing, Reports(rs),
              n \in Dedupe!Offset \cup {Dedupe!AllOnes} DEF here, back
    <2> QED  BY <2>3, <2>4
  <1>9. ASSUME n # o + 1 PROVE OnSecond(o, n, lg, sm2, from, {}, cs, rs)
    <2>1. n > o + 1
      BY <1>1, <1>2, <1>9
    <2> QED  BY ONLY <1>1, <1>4, <1>5, <1>7, <2>1 DEF OnSecond, here, back
  <1> QED  BY <1>8, <1>9

\* Both rows have been given to their end.
LEMMA SecondOver ==
    ASSUME NEW o, NEW n \in Dedupe!Offset \cup {Dedupe!AllOnes},
           NEW cs \in SUBSET Entry, NEW rs, Reports(rs), NEW lg, NEW sm \in [0 .. 1 -> SUBSET Som],
           NEW from, NEW K,
           OnSecond(o, n, lg, sm, from, K, cs, rs), K = sm[Dedupe!Parity(o)],
           NEW sm2, sm2 = [sm EXCEPT ![Dedupe!Parity(o)] = {}]
    PROVE  Closed(n, lg, sm2, from, 0, cs, rs)
  <1> DEFINE here == Dedupe!Parity(o)
             back == 1 - here
  <1>1. /\ o \in Dedupe!Offset /\ n > o + 1 /\ UpTo(cs, rs, o)
        /\ n # Dedupe!AllOnes => Plain(lg, rs, n)
        /\ SomRow(sm[here], from[here], rs, o) /\ sm[back] = {}
        /\ Edge(cs, rs, o, sm[here])
    BY DEF OnSecond
  <1>2. o \in Nat /\ n \in Nat /\ o \in Int
    BY <1>1, Constants
  <1>3. here \in 0 .. 1 /\ back \in 0 .. 1 /\ here # back
    BY <1>1, Rows
  <1>4. sm2[here] = {} /\ sm2[back] = {}
    BY <1>1, <1>3
  <1> HIDE DEF here, back
  <1>5. Edge(cs, rs, o + 1, {})
    BY ONLY <1>1, <1>2, NextRow, Reports(rs)
  <1>6. \A r \in rs : r[3] \in Nat /\ r[3] <= o
    BY <1>1, ReportIs DEF UpTo
  <1>7. Edge(cs, rs, n - 1, {}) /\ All(cs, rs)
    <2>1. n - 1 \in Int /\ n - 1 > o
      BY <1>1, <1>2
    <2> QED  BY ONLY <1>2, <1>5, <1>6, <2>1, Over, Reports(rs)
  <1>8. CASE n = Dedupe!AllOnes
    BY <1>7, <1>8 DEF Closed
  <1>9. CASE n # Dedupe!AllOnes
    <2>1. n \in Dedupe!Offset
      BY <1>9
    <2>2. \A p \in 0 .. 1 : sm2[p] = {}
      BY <1>1, <1>4, Rows DEF here, back
    <2>3. \A p \in 0 .. 1 : SomRow(sm2[p], from[p], rs, n) /\ SomRow(sm2[p], from[p], rs, n - 1)
      <3>1. \A r \in rs : ~(r[1] \in Som /\ r[3] = n) /\ ~(r[1] \in Som /\ r[3] = n - 1)
        BY <1>1, <1>2, <1>6
      <3> QED  BY <1>2, <2>2, <3>1, EmptyRow
    <2>4. PICK p \in 0 .. 1 : p = Dedupe!Parity(n) /\ 1 - p \in 0 .. 1
      BY <2>1, Rows
    <2>5. UpTo(cs, rs, n)
      <3>1. \A c \in cs : Raw(c) \in Nat
        BY CallIs
      <3> QED  BY <1>1, <1>2, <1>6, <3>1 DEF UpTo
    <2>6. At(n, lg, sm2, from, 0, cs, rs)
      BY ONLY <1>1, <1>7, <1>9, <2>2, <2>3, <2>4, <2>5 DEF At
    <2> QED  BY <1>9, <2>6 DEF Closed
  <1> QED  BY <1>8, <1>9

----------------------------------------------------------------------------
(* A report is taken                                                       *)

\* A plain callback: the report it gives and how it counts.
LEMMA PlainCall ==
    ASSUME NEW n \in Dedupe!Offset, NEW k \in Ext \cup {NoKey}, NEW t \in Dedupe!Offset,
           t \in {n - 1, n}, NEW x, x = <<k, 0, t, t # n>>
    PROVE  x \in Entry /\ Of(x) = <<k, 0, t>> /\ Raw(x) = n /\ x[1] = k /\ x[3] = t
  <1>1. x[1] = k /\ x[2] = 0 /\ x[3] = t /\ x[4] = (t # n)
    OBVIOUS
  <1>2. x \in Entry
    BY Constants DEF Entry
  <1>3. n \in Nat /\ t \in Nat
    BY Constants
  <1>4. Raw(x) = n
    <2>1. CASE t = n
      <3>1. x[4] = FALSE
        BY ONLY <1>1, <2>1, Zenon
      <3> QED  BY ONLY <1>1, <1>3, <2>1, <3>1 DEF Raw
    <2>2. CASE t = n - 1
      <3>1. t # n
        BY ONLY <1>3, <2>2
      <3>2. x[4] = TRUE
        BY ONLY <1>1, <3>1, Zenon
      <3> QED  BY ONLY <1>1, <1>3, <2>2, <3>2 DEF Raw
    <2> QED  BY <2>1, <2>2
  <1> QED  BY <1>1, <1>2, <1>4 DEF Of

\* A plain report: its key is logged, and it is given unless it was.
LEMMA AtPlain ==
    ASSUME NEW n \in Dedupe!Offset, NEW lg \in [0 .. 1 -> SUBSET Ext], NEW sm, NEW from, NEW d,
           NEW cs \in SUBSET Entry, NEW rs, Reports(rs), At(n, lg, sm, from, d, cs, rs),
           NEW k \in Ext \cup {NoKey}, NEW t \in Dedupe!Offset, t \in {n - 1, n},
           NEW r0, r0 = <<k, 0, t>>, NEW x, Of(x) = r0, Raw(x) = n,
           NEW lg2, lg2 = IF k = NoKey THEN lg
                          ELSE [lg EXCEPT ![Dedupe!Parity(t)] = @ \cup {k}],
           NEW cs2, \/ cs2 = cs \cup {x}
                    \/ cs2 = cs /\ k # NoKey /\ k \in lg[Dedupe!Parity(t)]
    PROVE  At(n, lg2, sm, from, d, cs2, rs \cup {r0})
  <1> DEFINE here == Dedupe!Parity(n)
             back == 1 - here
             rs2  == rs \cup {r0}
  <1>1. /\ here \in 0 .. 1 /\ back \in 0 .. 1 /\ back # here
        /\ t = n => Dedupe!Parity(t) = here
        /\ t # n => Dedupe!Parity(t) = back
        /\ n \in Nat /\ t \in Nat /\ t <= n /\ (t # n => n > 0)
    BY Rows, Constants
  <1>2. /\ UpTo(cs, rs, n)
        /\ LogRow(lg[here], rs, n)
        /\ n > 0 => LogRow(lg[back], rs, n - 1)
        /\ SomRow(sm[here], from[here], rs, n)
        /\ SomRow(sm[back], from[back], rs, n - 1)
        /\ d \in {0, 1} => sm[here] = {}
        /\ d \in {0, 2} => sm[back] = {}
        /\ Edge(cs, rs, n - 1, {})
    BY DEF At, Plain
  <1>3. r0[1] = k /\ r0[2] = 0 /\ r0[3] = t /\ k \notin Som
    BY Constants
  <1>4. Of(x) = r0 /\ Raw(x) = n
    OBVIOUS
  <1> HIDE DEF here, back, rs2
  <1>5. LogRow(lg2[here], rs2, n) /\ (n > 0 => LogRow(lg2[back], rs2, n - 1))
    <2>1. ASSUME NEW j \in Ext, NEW s \in {n - 1, n}
          PROVE  <<j, 0, s>> \in rs2 <=> (<<j, 0, s>> \in rs \/ (j = k /\ s = t))
      BY DEF rs2
    <2>2. CASE k = NoKey
      <3>1. \A j \in Ext : j # k
        BY <2>2, Constants
      <3> QED  BY <1>1, <1>2, <2>1, <2>2, <3>1 DEF LogRow
    <2>3. CASE k # NoKey
      <3>1. k \in Ext  BY <2>3
      <3>2. CASE t = n
        <4>1. lg2[here] = lg[here] \cup {k} /\ lg2[back] = lg[back]
          BY <1>1, <2>3, <3>2
        <4>2. LogRow(lg2[here], rs2, n)
          <5>1. lg2[here] \subseteq Ext
            BY ONLY <1>2, <3>1, <4>1 DEF LogRow
          <5>2. \A j \in Ext : j \in lg2[here] <=> <<j, 0, n>> \in rs2
            BY ONLY <1>2, <2>1, <3>1, <3>2, <4>1 DEF LogRow
          <5> QED  BY <5>1, <5>2 DEF LogRow
        <4>3. n - 1 # t
          BY <1>1, <3>2
        <4>4. n > 0 => LogRow(lg2[back], rs2, n - 1)
          BY ONLY <1>2, <2>1, <4>1, <4>3 DEF LogRow
        <4> QED  BY <4>2, <4>4
      <3>3. CASE t # n
        <4>1. lg2[back] = lg[back] \cup {k} /\ lg2[here] = lg[here]
          BY <1>1, <2>3, <3>3
        <4>2. t = n - 1
          BY <3>3
        <4> QED  BY <1>1, <1>2, <2>1, <3>1, <3>3, <4>1, <4>2 DEF LogRow
      <3> QED  BY <3>2, <3>3
    <2> QED  BY <2>2, <2>3
  <1>6. SomRow(sm[here], from[here], rs2, n) /\ SomRow(sm[back], from[back], rs2, n - 1)
    BY <1>2, <1>3 DEF SomRow, rs2
  <1>7. \A r \in rs2 : Leftmost(rs2, r) <=> (r = r0 \/ Leftmost(rs, r))
    <2>1. ASSUME NEW r \in rs, r[1] = k PROVE r[2] = 0
      BY <1>3, <2>1, ReportIs
    <2>2. \A r \in rs : r[2] \in Nat
      BY ReportIs
    <2>3. Leftmost(rs2, r0)
      BY <1>3, <2>2 DEF Leftmost, rs2
    <2>4. ASSUME NEW r \in rs PROVE Leftmost(rs2, r) <=> Leftmost(rs, r)
      BY <1>3, <2>1, <2>2 DEF Leftmost, rs2
    <2> QED  BY <2>3, <2>4 DEF rs2
  <1>8. Due(r0, n - 1, {})
    BY <1>3 DEF Due
  <1>9. r0 \in rs2 /\ Leftmost(rs2, r0)
    BY <1>7 DEF rs2
  <1>10. Edge(cs2, rs2, n - 1, {})
    <2>1. CASE cs2 = cs /\ k # NoKey /\ k \in lg[Dedupe!Parity(t)]
      <3>1. r0 \in rs
        BY <1>1, <1>2, <2>1 DEF LogRow
      <3>2. rs2 = rs
        BY <3>1 DEF rs2
      <3> QED  BY <1>2, <2>1, <3>2
    <2>2. CASE cs2 = cs \cup {x}
      <3>1. ASSUME NEW c \in cs2
            PROVE  Of(c) \in rs2 /\ Leftmost(rs2, Of(c)) /\ Due(Of(c), n - 1, {})
        <4>1. CASE c = x
          BY <1>4, <1>8, <1>9, <4>1
        <4>2. CASE c \in cs
          <5>1. Of(c) \in rs /\ Leftmost(rs, Of(c)) /\ Due(Of(c), n - 1, {})
            BY <1>2, <4>2 DEF Edge
          <5> QED  BY <1>7, <5>1 DEF rs2
        <4> QED  BY <2>2, <4>1, <4>2
      <3>2. ASSUME NEW r \in rs2, Leftmost(rs2, r), Due(r, n - 1, {})
            PROVE  Gives(cs2, r)
        <4>1. CASE r = r0
          BY <1>4, <2>2, <4>1 DEF Gives
        <4>2. CASE r # r0
          <5>1. r \in rs /\ Leftmost(rs, r)
            BY <1>7, <3>2, <4>2 DEF rs2
          <5>2. Gives(cs, r)
            BY <1>2, <3>2, <5>1 DEF Edge
          <5> QED  BY <2>2, <5>2 DEF Gives
        <4> QED  BY <4>1, <4>2
      <3> QED  BY <3>1, <3>2 DEF Edge
    <2> QED  BY <2>1, <2>2
  <1>11. UpTo(cs2, rs2, n)
    BY <1>1, <1>2, <1>3, <1>4 DEF UpTo, rs2
  <1> QED  BY ONLY <1>2, <1>5, <1>6, <1>10, <1>11 DEF At, Plain, here, back, rs2

\* A report with a start of match: logged with the least of its starts.
\* The row of t with k logged at s, the least start kept.
LoggedSom(sm2, from2, d2, sm, from, d, n, k, s, t) ==
    LET b == Dedupe!Parity(t)
        v == IF k \in sm[b] /\ from[b][k] < s THEN from[b][k] ELSE s
    IN  /\ sm2 = [sm EXCEPT ![b] = @ \cup {k}]
        /\ \A a \in 0 .. 1, j \in Som :
              from2[a][j] = (IF a = b /\ j = k THEN v ELSE from[a][j])
        /\ t = n => d2 = Dedupe!DirtyWith(d, 2)
        /\ t # n => d2 = Dedupe!DirtyWith(d, 1)

LEMMA AtSom ==
    ASSUME NEW n \in Dedupe!Offset, NEW lg, NEW sm \in [0 .. 1 -> SUBSET Som],
           NEW from \in [0 .. 1 -> [Som -> Dedupe!Start]], NEW d \in 0 .. 3,
           NEW cs, NEW rs, Reports(rs), At(n, lg, sm, from, d, cs, rs),
           NEW k \in Som, NEW t \in Dedupe!Offset, t \in {n - 1, n}, NEW s \in Dedupe!Start,
           NEW r0, r0 = <<k, s, t>>, NEW sm2, NEW from2, NEW d2,
           LoggedSom(sm2, from2, d2, sm, from, d, n, k, s, t)
    PROVE  At(n, lg, sm2, from2, d2, cs, rs \cup {r0})
  <1>0. LoggedSom(sm2, from2, d2, sm, from, d, n, k, s, t)
    OBVIOUS
  <1> DEFINE here == Dedupe!Parity(n)
             back == 1 - here
             b    == Dedupe!Parity(t)
             rs2  == rs \cup {r0}
  <1>1. /\ here \in 0 .. 1 /\ back \in 0 .. 1 /\ back # here
        /\ t = n => b = here
        /\ t # n => b = back /\ t = n - 1
        /\ n \in Nat /\ t \in Nat /\ t <= n
    <2>1. n \in Nat /\ t \in Nat
      BY Constants
    <2>2. t # n => t = n - 1 /\ n > 0
      BY <2>1
    <2> QED  BY <2>1, <2>2, Rows
  <1>2. /\ UpTo(cs, rs, n)
        /\ LogRow(lg[here], rs, n)
        /\ n > 0 => LogRow(lg[back], rs, n - 1)
        /\ SomRow(sm[here], from[here], rs, n)
        /\ SomRow(sm[back], from[back], rs, n - 1)
        /\ d \in {0, 1} => sm[here] = {}
        /\ d \in {0, 2} => sm[back] = {}
        /\ Edge(cs, rs, n - 1, {})
    BY DEF At, Plain
  <1>3. r0[1] = k /\ r0[2] = s /\ r0[3] = t /\ k \notin Ext
    BY Constants
  <1>4. b \in 0 .. 1
    BY <1>1
  <1>5. \A r \in rs : r = <<r[1], r[2], r[3]>> /\ r[2] \in Nat /\ r[3] \in Nat
    BY ReportIs
  <1>6. s \in Nat /\ \A a \in 0 .. 1, j \in Som : from[a][j] \in Nat /\ from2[a][j] \in Nat
    <2>0. \A v \in Dedupe!Start : v \in Nat
      BY Constants
    <2>1. s \in Nat /\ \A a \in 0 .. 1, j \in Som : from[a][j] \in Nat
      BY ONLY <2>0, s \in Dedupe!Start, from \in [0 .. 1 -> [Som -> Dedupe!Start]]
    <2>2. ASSUME NEW a \in 0 .. 1, NEW j \in Som PROVE from2[a][j] \in Nat
      <3>1. from[a][j] \in Nat
        BY <2>1
      <3> QED  BY <1>0, <2>1, <3>1 DEF b, LoggedSom
    <2> QED  BY <2>1, <2>2
  <1>7. /\ sm2[b] = sm[b] \cup {k}
        /\ \A a \in 0 .. 1 : a # b => sm2[a] = sm[a] /\ \A j \in Som : from2[a][j] = from[a][j]
        /\ \A j \in Som : j # k => from2[b][j] = from[b][j]
        /\ from2[b][k] = (IF k \in sm[b] /\ from[b][k] < s THEN from[b][k] ELSE s)
    BY <1>0, <1>4 DEF LoggedSom
  <1> HIDE DEF here, back, b, rs2
  <1>8. LogRow(lg[here], rs2, n) /\ (n > 0 => LogRow(lg[back], rs2, n - 1))
    <2>1. \A a : \A j \in Ext : <<j, 0, a>> \in rs2 <=> <<j, 0, a>> \in rs
      BY <1>3 DEF rs2
    <2> QED  BY <1>2, <2>1 DEF LogRow
  <1>9. ASSUME SomRow(sm[b], from[b], rs, t)
        PROVE  SomRow(sm2[b], from2[b], rs2, t)
    <2>1. sm2[b] \subseteq Som
      BY <1>4, <1>7
    <2>2. ASSUME NEW j \in sm2[b] PROVE <<j, from2[b][j], t>> \in rs2
      <3>1. CASE j = k
        BY <1>7, <1>9, <3>1 DEF SomRow, rs2
      <3>2. CASE j # k
        <4>1. j \in sm[b] /\ from2[b][j] = from[b][j]
          BY <1>7, <2>1, <2>2, <3>2
        <4> QED  BY <1>9, <4>1 DEF SomRow, rs2
      <3> QED  BY <3>1, <3>2
    <2>3. ASSUME NEW r \in rs2, r[1] \in Som, r[3] = t
          PROVE  r[1] \in sm2[b] /\ from2[b][r[1]] <= r[2]
      <3>1. CASE r = r0
        BY <1>3, <1>4, <1>6, <1>7, <3>1
      <3>2. CASE r # r0
        <4>1. r \in rs /\ r[1] \in sm[b] /\ from[b][r[1]] <= r[2]
          BY <1>9, <2>3, <3>2 DEF SomRow, rs2
        <4>2. CASE r[1] = k
          BY <1>4, <1>5, <1>6, <1>7, <4>1, <4>2
        <4>3. CASE r[1] # k
          BY <1>7, <2>3, <4>1, <4>3
        <4> QED  BY <4>2, <4>3
      <3> QED  BY <3>1, <3>2
    <2> QED  BY <2>1, <2>2, <2>3 DEF SomRow
  <1>10. ASSUME NEW a \in 0 .. 1, a # b, NEW u, u # t, SomRow(sm[a], from[a], rs, u)
         PROVE  SomRow(sm2[a], from2[a], rs2, u)
    BY <1>3, <1>7, <1>10 DEF SomRow, rs2
  <1>11. SomRow(sm2[here], from2[here], rs2, n) /\ SomRow(sm2[back], from2[back], rs2, n - 1)
    <2>1. CASE t = n
      <3>1. b = here /\ back # b /\ n - 1 # t
        BY <1>1, <2>1
      <3> QED  BY <1>1, <1>2, <1>9, <1>10, <2>1, <3>1
    <2>2. CASE t # n
      <3>1. b = back /\ here # b /\ t = n - 1
        BY <1>1, <2>2
      <3> QED  BY <1>1, <1>2, <1>9, <1>10, <2>2, <3>1
    <2> QED  BY <2>1, <2>2
  <1>12. /\ d2 \in {0, 1} => sm2[here] = {}
         /\ d2 \in {0, 2} => sm2[back] = {}
    <2>1. CASE t = n
      <3>0. d2 = Dedupe!DirtyWith(d, 2)
        BY <1>0, <2>1 DEF LoggedSom
      <3>1. d2 \in {2, 3} /\ (d2 = 2 => d \in {0, 2})
        BY ONLY <3>0, d \in 0 .. 3 DEF Dedupe!DirtyWith
      <3> QED  BY <1>1, <1>2, <1>7, <2>1, <3>1
    <2>2. CASE t # n
      <3>0. d2 = Dedupe!DirtyWith(d, 1)
        BY <1>0, <2>2 DEF LoggedSom
      <3>1. d2 \in {1, 3} /\ (d2 = 1 => d \in {0, 1})
        BY ONLY <3>0, d \in 0 .. 3 DEF Dedupe!DirtyWith
      <3> QED  BY <1>1, <1>2, <1>7, <2>2, <3>1
    <2> QED  BY <2>1, <2>2
  <1>13. Edge(cs, rs2, n - 1, {})
    <2>1. ~Due(r0, n - 1, {})
      BY <1>1, <1>3 DEF Due
    <2>2. ASSUME NEW r \in rs, Due(r, n - 1, {}) PROVE Leftmost(rs2, r) <=> Leftmost(rs, r)
      <3>1. ~(r0[1] = r[1] /\ r0[3] = r[3])
        BY <2>1, <2>2 DEF Due
      <3> QED  BY <3>1 DEF Leftmost, rs2
    <2> QED  BY <1>2, <2>1, <2>2 DEF Edge, rs2
  <1>14. UpTo(cs, rs2, n)
    BY <1>1, <1>2, <1>3 DEF UpTo, rs2
  <1> QED  BY ONLY <1>2, <1>8, <1>11, <1>12, <1>13, <1>14 DEF At, Plain, here, back, rs2

----------------------------------------------------------------------------
(* The steps                                                               *)

\* The start of a flush, with the types of what it changes.
LEMMA FlushBegins ==
    ASSUME Shape, NEW n, Dedupe!BeginFlush(n)
    PROVE  /\ somLog' \in [0 .. 1 -> SUBSET Som] /\ dirty' \in 0 .. 3
           /\ \/ dirty = 0 /\ stage' = "done" /\ somLog' = somLog /\ dirty' = 0
              \/ /\ dirty # 0 /\ current = Dedupe!AllOnes /\ stage' = "done" /\ dirty' = 0
                 /\ somLog' = [b \in 0 .. 1 |-> {}]
              \/ /\ dirty # 0 /\ current # Dedupe!AllOnes /\ stage' = "first"
                 /\ somLog' = somLog /\ dirty' = dirty
  BY DEF Shape, Dedupe!BeginFlush

LEMMA AllOnesStays == (Dedupe!AllOnes)' = Dedupe!AllOnes
  BY DEF Dedupe!AllOnes

LEMMA RaiseStep ==
    ASSUME DedupeInv, NEW k \in Dedupe!Key \cup {NoKey}, NEW s \in Dedupe!Start,
           NEW adj \in {-1, 0}, NEW n \in Dedupe!Offset, n + adj >= 0, k \notin Som => s = 0,
           Dedupe!Raise(k, s, adj, n)
    PROVE  DedupeInv'
  <1>1. /\ scanning /\ ~stopped /\ stage = "idle" /\ count < MaxReports /\ n >= last
        /\ report' = <<k, s, adj, n>> /\ last' = n /\ count' = count + 1
        /\ raised' = raised \cup {<<k, s, n + adj>>}
        /\ UNCHANGED <<current, starts, sent, stopped, scanning, calls, out>>
    BY DEF Dedupe!Raise
  <1>2. \/ n = current /\ stage' = "done" /\ UNCHANGED <<log, somLog, dirty>>
        \/ n # current /\ log' = Dedupe!ClearedLog(n) /\ Dedupe!BeginFlush(n)
    BY DEF Dedupe!Raise
  <1>3. /\ Shape /\ Given /\ Between /\ sent = {} /\ Reports(raised)
        /\ log \in [0 .. 1 -> SUBSET Ext] /\ somLog \in [0 .. 1 -> SUBSET Som]
        /\ out \in Seq(Entry) /\ Calls(out) \subseteq Entry
        /\ current \in Dedupe!Offset \cup {Dedupe!AllOnes}
    BY <1>1, CallsAre DEF DedupeInv, Shape, Given, InOrder
  <1>4. n \in Nat /\ n + adj \in Dedupe!Offset /\ n # Dedupe!AllOnes
    BY Constants DEF Dedupe!Offset
  <1>5. PICK r0 : r0 = <<k, s, n + adj>>
    OBVIOUS
  <1>10. r0[1] = k /\ r0[2] = s /\ r0[3] = n + adj
    BY ONLY <1>5
  <1>11. PICK rs : rs = raised
    OBVIOUS
  <1>6. r0 \in Triple /\ raised' = raised \cup {r0} /\ Reports(raised \cup {r0})
    <2>1. r0 \in Triple
      BY <1>4, <1>5 DEF Triple
    <2> QED  BY <1>1, <1>3, <1>5, <1>10, <2>1 DEF Reports
  <1>7. /\ log' \in [0 .. 1 -> SUBSET Ext] /\ somLog' \in [0 .. 1 -> SUBSET Som]
        /\ dirty' \in 0 .. 3 /\ stage' \in {"first", "done"}
    <2>1. CASE n = current
      BY <1>2, <1>3, <2>1 DEF Shape
    <2>2. CASE n # current
      <3>1. log' \in [0 .. 1 -> SUBSET Ext]
        BY <1>2, <1>3, <2>2 DEF Dedupe!ClearedLog
      <3> QED  BY <1>2, <1>3, <2>2, <3>1, FlushBegins
    <2> QED  BY <2>1, <2>2
  <1>8. Shape'
    <2>1. report' \in Dedupe!Report
      <3>1. Dedupe!PastHorizon \in Dedupe!Start
        BY Constants
      <3> QED  BY <1>1, <1>4 DEF Dedupe!Report
    <2>2. count' \in 0 .. MaxReports
      BY <1>1, <1>3, Constants DEF Shape
    <2>3. /\ current' \in Dedupe!Offset \cup {Dedupe!AllOnes} /\ last' \in Dedupe!Offset
          /\ starts' \in [0 .. 1 -> [Som -> Dedupe!Start]]
          /\ sent' \subseteq Som /\ stopped' \in BOOLEAN /\ scanning' \in BOOLEAN
          /\ calls' \in 0 .. MaxCalls
      BY <1>1, <1>3 DEF Shape
    <2>4. Reports(raised') /\ stage' \in {"idle", "first", "second", "done"}
      BY <1>6, <1>7
    <2> QED  BY ONLY <1>7, <2>1, <2>2, <2>3, <2>4, AllOnesStays DEF Shape, Dedupe!AllOnes
  <1>12. /\ Given'
         /\ \/ /\ stage' = "done"
               /\ Closed(n, log', somLog', starts', dirty', Calls(out'), rs)
            \/ /\ stage' = "first"
               /\ OnFirst(current', n, log', somLog', starts', dirty', {}, Calls(out'), rs)
    <2>1. CASE current = Dedupe!AllOnes
      <3>1. /\ raised = {} /\ out = <<>> /\ (dirty = 0 => \A b \in 0 .. 1 : somLog[b] = {})
        BY <1>3, <2>1 DEF Between, Fresh
      <3>2. Calls(out) = {} /\ Calls(out') = {} /\ InOrder(out')
        BY <1>1, <1>3, <3>1 DEF Calls, Given
      <3>3. n # current
        BY <1>4, <2>1
      <3>4. stage' = "done" /\ \A b \in 0 .. 1 : somLog'[b] = {}
        BY <1>2, <1>3, <2>1, <3>1, <3>3, FlushBegins
      <3>5. PICK lg2, sm2, d2 : lg2 = log' /\ sm2 = somLog' /\ d2 = dirty'
        OBVIOUS
      <3>6. At(n, lg2, sm2, starts, d2, {}, {})
        <4>1. lg2 = IF n = (Dedupe!AllOnes + 1) % Mod THEN [log EXCEPT ![Dedupe!Parity(n)] = {}]
                    ELSE [b \in 0 .. 1 |-> {}]
          BY <1>2, <2>1, <3>3, <3>5 DEF Dedupe!ClearedLog
        <4>2. \A b \in 0 .. 1 : sm2[b] = {}
          BY <3>4, <3>5
        <4> QED  BY ONLY <1>3, <4>1, <4>2, FirstReport, n \in Dedupe!Offset
      <3>7. At(n, log', somLog', starts', dirty', Calls(out'), rs)
        BY <1>1, <1>11, <3>1, <3>2, <3>5, <3>6
      <3>8. Sound(Calls(out'), raised') /\ NoGap(Calls(out'), raised')
        BY <3>2 DEF Sound, NoGap
      <3>10. Closed(n, log', somLog', starts', dirty', Calls(out'), rs)
        BY ONLY <1>4, <3>7 DEF Closed
      <3> QED  BY <3>2, <3>4, <3>8, <3>10 DEF Given
    <2>2. CASE current # Dedupe!AllOnes
      <3>1. /\ current \in Dedupe!Offset /\ current = last
            /\ At(current, log, somLog, starts, dirty, Calls(out), rs)
        BY <1>3, <1>11, <2>2 DEF Between
      <3>2. n >= current /\ current \in Nat /\ current - 1 \in Int
        BY <1>1, <3>1, Constants
      <3>3. Edge(Calls(out), rs, current - 1, {}) /\ UpTo(Calls(out), rs, current)
        BY ONLY <3>1 DEF At
      <3>4. Sound(Calls(out'), raised') /\ NoGap(Calls(out'), raised')
        <4>1. r0[3] > current - 1 \/ r0[3] = current - 1
          BY <1>4, <1>10, <3>2
        <4>2. Reports(rs) /\ Reports(rs \cup {r0})
          BY <1>3, <1>6, <1>11
        <4>3. \A c \in Calls(out) : Raw(c) <= current - 1 + 1
          BY ONLY <3>2, <3>3 DEF UpTo
        <4>4. PICK cs \in SUBSET Entry : cs = Calls(out)
          BY <1>3
        <4>5. Sound(cs, rs \cup {r0}) /\ NoGap(cs, rs \cup {r0})
          BY ONLY <3>2, <3>3, <4>1, <4>2, <4>3, <4>4, Extend
        <4> QED  BY <1>1, <1>6, <1>11, <4>4, <4>5
      <3>5. CASE n = current
        <4>1. stage' = "done" /\ UNCHANGED <<log, somLog, dirty>>
          BY <1>2, <3>5
        <4>2. At(n, log', somLog', starts', dirty', Calls(out'), rs)
          BY <1>1, <3>1, <3>5, <4>1
        <4>3. Closed(n, log', somLog', starts', dirty', Calls(out'), rs)
          BY ONLY <1>4, <4>2 DEF Closed
        <4> QED  BY <1>1, <1>3, <3>4, <4>1, <4>3 DEF Given
      <3>6. CASE n # current
        <4>1. n > current /\ log' = Dedupe!ClearedLog(n) /\ Dedupe!BeginFlush(n)
          BY <1>2, <1>4, <3>2, <3>6
        <4>2. PICK lg2 : lg2 = log'
          OBVIOUS
        <4>3. Plain(lg2, rs, n)
          <5>1. Plain(log, rs, current) /\ \A r \in rs : r[3] <= current
            BY ONLY <3>1 DEF At, UpTo
          <5>2. lg2 = IF n = (current + 1) % Mod THEN [log EXCEPT ![Dedupe!Parity(n)] = {}]
                      ELSE [b \in 0 .. 1 |-> {}]
            BY <4>1, <4>2 DEF Dedupe!ClearedLog
          <5>3. Reports(rs)
            BY <1>3, <1>11
          <5> QED  BY ONLY <1>3, <3>1, <4>1, <5>1, <5>2, <5>3, PlainCleared, n \in Dedupe!Offset
        <4>4. CASE dirty = 0
          <5>1. stage' = "done" /\ somLog' = somLog /\ dirty' = 0
            BY <1>3, <4>1, <4>4, FlushBegins
          <5>2. PICK cs \in SUBSET Entry : cs = Calls(out)
            BY <1>3
          <5>3. Closed(n, lg2, somLog, starts, 0, cs, rs)
            <6>1. At(current, log, somLog, starts, 0, cs, rs) /\ Reports(rs)
              BY <1>3, <1>11, <3>1, <4>4, <5>2
            <6> QED  BY ONLY <3>1, <4>1, <4>3, <6>1, NotDirty, n \in Dedupe!Offset
          <5> QED  BY <1>1, <1>3, <3>4, <4>2, <5>1, <5>2, <5>3 DEF Given
        <4>5. CASE dirty # 0
          <5>1. stage' = "first" /\ somLog' = somLog /\ dirty' = dirty
            BY <1>3, <2>2, <4>1, <4>5, FlushBegins
          <5>2. OnFirst(current, n, lg2, somLog, starts, dirty, {}, Calls(out), rs)
            BY ONLY <3>1, <4>1, <4>3 DEF At, OnFirst
          <5> QED  BY <1>1, <1>3, <3>4, <4>2, <5>1, <5>2 DEF Given
        <4> QED  BY <4>4, <4>5
      <3> QED  BY <3>5, <3>6
    <2> QED  BY <2>1, <2>2
  <1> QED
    <2>1. Prior(rs)'
      <3>1. report'[4] = n /\ report'[1] = k /\ report'[2] = s /\ report'[3] = adj
        BY <1>1
      <3>2. <<report'[1], report'[2], report'[4] + report'[3]>> = r0
        BY <1>5, <3>1
      <3> QED  BY <1>1, <1>3, <1>4, <1>6, <1>11, <3>1, <3>2, AllOnesStays DEF Prior, Taking
    <2>2. Phase(rs)'
      <3>1. report'[4] = n
        BY <1>1
      <3> QED  BY <1>1, <1>3, <1>12, <3>1 DEF Phase
    <2>3. stage' # "idle" /\ scanning' /\ ~stopped'
      BY <1>1, <1>7
    <2> QED  BY <1>8, <1>12, <2>1, <2>2, <2>3 DEF DedupeInv

\* The row that a flush is giving: its offset is e.
Row(e, b, rs) ==
    /\ e \in Dedupe!Offset /\ b \in 0 .. 1 /\ current \in Dedupe!Offset
    /\ stage = "first" => e = current - 1
    /\ stage # "first" => e = current
    /\ SomRow(somLog[b], starts[b], rs, e)
    /\ Edge(Calls(out), rs, e, sent) /\ UpTo(Calls(out), rs, current)

LEMMA GivingRow ==
    ASSUME DedupeInv, stage \in {"first", "second"}, NEW rs, Prior(rs), Phase(rs),
           NEW e, e = Dedupe!LogOffset, NEW b, b = Dedupe!Parity(e), somLog[b] # {}
    PROVE  /\ Row(e, b, rs)
           /\ report[4] # Dedupe!AllOnes => Taking[3] > e
  <1>1. /\ report[3] \in {-1, 0} /\ report[4] \in Dedupe!Offset \cup {Dedupe!AllOnes}
        /\ somLog \in [0 .. 1 -> SUBSET Som]
    BY DEF DedupeInv, Shape, Dedupe!Report
  <1>2. Reports(rs)
    BY DEF Prior
  <1>3. CASE stage = "first"
    <2>1. OnFirst(current, report[4], log, somLog, starts, dirty, sent, Calls(out), rs)
      BY <1>3 DEF Phase
    <2>2. /\ current \in Dedupe!Offset /\ report[4] > current /\ UpTo(Calls(out), rs, current)
          /\ SomRow(somLog[1 - Dedupe!Parity(current)], starts[1 - Dedupe!Parity(current)],
                    rs, current - 1)
          /\ Edge(Calls(out), rs, current - 1, sent)
      BY ONLY <2>1 DEF OnFirst
    <2>3. e = (current - 1) % Mod /\ b = 1 - Dedupe!Parity(current) /\ b \in 0 .. 1
      BY <1>3, <2>2, Rows DEF Dedupe!LogOffset
    <2>4. current > 0
      <3>1. SUFFICES ASSUME current = 0 PROVE FALSE
        BY <2>2, Constants
      <3>2. PICK j : j \in somLog[b]
        OBVIOUS
      <3>3. <<j, starts[b][j], 0 - 1>> \in rs
        BY <2>2, <2>3, <3>1, <3>2 DEF SomRow
      <3>4. PICK r \in rs : r[3] = 0 - 1
        BY <3>3
      <3>5. r[3] \in Nat
        BY <1>2, ReportIs
      <3> QED  BY <3>4, <3>5
    <2>5. e = current - 1 /\ e \in Dedupe!Offset
      BY <2>2, <2>3, <2>4, Rows, Constants DEF Dedupe!Offset
    <2>6. Row(e, b, rs)
      BY <1>3, <2>2, <2>3, <2>5 DEF Row
    <2>7. ASSUME report[4] # Dedupe!AllOnes PROVE Taking[3] > e
      <3>1. report[4] \in Nat /\ current \in Nat /\ Taking[3] = report[4] + report[3]
        BY <1>1, <2>2, Constants DEF Taking
      <3> QED  BY <1>1, <2>2, <2>5, <3>1
    <2> QED  BY <2>6, <2>7
  <1>4. CASE stage = "second"
    <2>1. OnSecond(current, report[4], log, somLog, starts, sent, Calls(out), rs)
      BY <1>4 DEF Phase
    <2>2. /\ current \in Dedupe!Offset /\ report[4] > current + 1
          /\ UpTo(Calls(out), rs, current)
          /\ SomRow(somLog[Dedupe!Parity(current)], starts[Dedupe!Parity(current)], rs, current)
          /\ Edge(Calls(out), rs, current, sent)
      BY ONLY <2>1 DEF OnSecond
    <2>3. e = current /\ b = Dedupe!Parity(current) /\ b \in 0 .. 1
      BY <1>4, <2>2, Rows DEF Dedupe!LogOffset
    <2>4. Row(e, b, rs)
      BY <1>4, <2>2, <2>3 DEF Row
    <2>5. ASSUME report[4] # Dedupe!AllOnes PROVE Taking[3] > e
      <3>1. report[4] \in Nat /\ current \in Nat /\ Taking[3] = report[4] + report[3]
        BY <1>1, <2>2, Constants DEF Taking
      <3> QED  BY <1>1, <2>2, <2>3, <3>1
    <2> QED  BY <2>4, <2>5
  <1> QED  BY <1>3, <1>4

\* A held-back callback: the report it gives and how it counts.
LEMMA HeldCall ==
    ASSUME NEW o \in Dedupe!Offset, NEW e \in Dedupe!Offset, e \in {o - 1, o},
           NEW k \in Som, NEW s \in Dedupe!Start, NEW x, x = <<k, s, e, o # e>>
    PROVE  x \in Entry /\ Of(x) = <<k, s, e>> /\ Raw(x) = o /\ x[1] = k /\ x[3] = e
  <1>1. x[1] = k /\ x[2] = s /\ x[3] = e /\ x[4] = (o # e)
    OBVIOUS
  <1>2. x \in Entry
    BY Constants DEF Entry
  <1>3. o \in Nat /\ e \in Nat
    BY Constants
  <1>4. Raw(x) = o
    <2>1. CASE e = o
      <3>1. x[4] = FALSE
        BY ONLY <1>1, <2>1, Zenon
      <3> QED  BY ONLY <1>1, <1>3, <2>1, <3>1 DEF Raw
    <2>2. CASE e = o - 1
      <3>1. o # e
        BY ONLY <1>3, <2>2
      <3>2. x[4] = TRUE
        BY ONLY <1>1, <3>1, Zenon
      <3> QED  BY ONLY <1>1, <1>3, <2>2, <3>2 DEF Raw
    <2> QED  BY <2>1, <2>2
  <1> QED  BY <1>1, <1>2, <1>4 DEF Of

LEMMA FireStep ==
    ASSUME DedupeInv, NEW k \in Som, NEW halt \in BOOLEAN, Dedupe!FireMatch(k, halt)
    PROVE  DedupeInv'
  <1>1. PICK e, b : e = Dedupe!LogOffset /\ b = Dedupe!Parity(e)
    OBVIOUS
  <1>2. PICK x : x = <<k, starts[b][k], e, current # e>>
    OBVIOUS
  <1>3. /\ stage \in {"first", "second"} /\ k \in somLog[b] \ sent /\ somLog[b] # {}
        /\ out' = Append(out, x)
        /\ UNCHANGED <<current, log, somLog, starts, scanning, last, calls, raised, count>>
    BY <1>1, <1>2 DEF Dedupe!FireMatch, Dedupe!Adjusted
  <1>4. PICK rs : Prior(rs) /\ Phase(rs)
    BY <1>3 DEF DedupeInv
  <1>5. /\ Shape /\ Given /\ InOrder(out) /\ scanning /\ ~stopped
        /\ Calls(out) \subseteq Entry /\ Reports(rs) /\ Reports(raised)
    BY <1>3, <1>4, CallsAre DEF DedupeInv, Given, InOrder, Prior, Shape
  <1>6. Row(e, b, rs) /\ (report[4] # Dedupe!AllOnes => Taking[3] > e)
    BY ONLY <1>1, <1>3, <1>4, GivingRow, DedupeInv
  <1>7. /\ e \in Dedupe!Offset /\ b \in 0 .. 1 /\ current \in Dedupe!Offset
        /\ e \in {current - 1, current} /\ e \in Nat /\ e \in Int /\ current <= e + 1
    <2>1. /\ e \in Dedupe!Offset /\ b \in 0 .. 1 /\ current \in Dedupe!Offset
          /\ e \in {current - 1, current}
      BY <1>6 DEF Row
    <2> QED  BY <2>1, Constants
  <1>8. PICK cs \in SUBSET Entry : cs = Calls(out)
    BY <1>5
  <1>9. starts[b][k] \in Dedupe!Start
    BY <1>5, <1>7 DEF Shape
  <1>10. x \in Entry /\ Of(x) = <<k, starts[b][k], e>> /\ Raw(x) = current /\ x[1] = k /\ x[3] = e
    BY ONLY <1>2, <1>7, <1>9, HeldCall, k \in Som
  <1>11. /\ Edge(cs \cup {x}, rs, e, sent \cup {k})
         /\ \A c \in cs : ~(c[1] = k /\ c[3] = e)
         /\ Of(x) \in rs
    <2>1. PICK row, from, K : row = somLog[b] /\ from = starts[b] /\ K = sent
      OBVIOUS
    <2>2. SomRow(row, from, rs, e) /\ Edge(cs, rs, e, K)
      BY <1>6, <1>8, <2>1 DEF Row
    <2>3. k \in row /\ k \notin K /\ Of(x) = <<k, from[k], e>>
      BY <1>3, <1>10, <2>1
    <2>4. cs \in SUBSET Entry /\ Reports(rs) /\ e \in Int
      BY <1>5, <1>7
    <2>5. /\ Edge(cs \cup {x}, rs, e, K \cup {k})
          /\ \A c \in cs : ~(c[1] = k /\ c[3] = e)
          /\ Of(x) \in rs
      BY ONLY <2>2, <2>3, <2>4, OneMore
    <2> QED  BY <2>1, <2>5
  <1>12. UpTo(cs, rs, current)
    BY <1>6, <1>8 DEF Row
  <1>13. InOrder(out') /\ Calls(out') = cs \cup {x}
    <2>1. \A c \in Calls(out) : Raw(c) <= Raw(x)
      BY ONLY <1>8, <1>10, <1>12 DEF UpTo
    <2>2. \A c \in Calls(out) : x[1] # NoKey => ~(c[1] = x[1] /\ c[3] = x[3])
      BY ONLY <1>8, <1>10, <1>11
    <2>3. PICK q, p : q = out' /\ p = out
      OBVIOUS
    <2>4. InOrder(q) /\ Calls(q) = Calls(p) \cup {x}
      <3>1. x \in Entry
        BY <1>10
      <3> QED  BY ONLY <1>3, <1>5, <2>1, <2>2, <2>3, <3>1, Grown
    <2> QED  BY ONLY <1>8, <2>3, <2>4
  <1>14. PICK cs2 \in SUBSET Entry : cs2 = cs \cup {x} /\ cs2 = Calls(out')
    <2>1. cs \cup {x} \in SUBSET Entry
      BY ONLY <1>10, cs \in SUBSET Entry
    <2> QED  BY ONLY <1>13, <2>1
  <1>15. UpTo(cs2, rs, current)
    BY ONLY <1>7, <1>10, <1>12, <1>14, Constants DEF UpTo
  <1>16. Sound(cs2, raised) /\ NoGap(cs2, raised)
    <2>1. \A c \in cs2 : Raw(c) <= e + 1
      <3>1. \A c \in cs2 : Raw(c) \in Nat /\ Raw(c) <= current
        BY ONLY <1>15, CallIs, cs2 \in SUBSET Entry DEF UpTo
      <3> QED  BY <1>7, <3>1, Constants
    <2>2. PICK K : K = sent \cup {k} /\ Edge(cs2, rs, e, K)
      BY <1>11, <1>14
    <2>3. CASE report[4] = Dedupe!AllOnes
      <3>1. raised = rs
        BY <1>4, <2>3 DEF Prior
      <3> QED  BY ONLY <1>5, <1>7, <2>1, <2>2, <3>1, Exactly, cs2 \in SUBSET Entry
    <2>4. CASE report[4] # Dedupe!AllOnes
      <3>1. PICK r0 : r0 = Taking /\ raised = rs \cup {r0} /\ r0[3] > e
        BY <1>4, <1>6, <2>4 DEF Prior
      <3>2. Reports(rs \cup {r0})
        BY <1>5, <3>1
      <3>3. Sound(cs2, rs \cup {r0}) /\ NoGap(cs2, rs \cup {r0})
        BY ONLY <1>5, <1>7, <2>1, <2>2, <3>1, <3>2, Extend, cs2 \in SUBSET Entry
      <3> QED  BY <3>1, <3>3
    <2> QED  BY <2>3, <2>4
  <1>17. Given'
    BY <1>3, <1>13, <1>14, <1>16 DEF Given
  <1>18. CASE halt
    <2>1. /\ stopped' = TRUE /\ sent' = {} /\ stage' = "idle" /\ report' = Dedupe!Idle
          /\ dirty' = IF Dedupe!OneLog THEN dirty \div 2 ELSE 0
      BY <1>18 DEF Dedupe!FireMatch, Dedupe!AfterHalt, Dedupe!Leave
    <2>2. dirty' \in 0 .. 3
      BY <1>5, <2>1 DEF Shape
    <2>3. report' \in Dedupe!Report
      BY <2>1, Constants DEF Dedupe!Report, Dedupe!Idle
    <2>4. Shape'
      BY <1>3, <1>5, <2>1, <2>2, <2>3, AllOnesStays DEF Shape, Dedupe!AllOnes
    <2> QED  BY <1>17, <2>1, <2>4 DEF DedupeInv
  <1>19. CASE ~halt
    <2>1. sent' = sent \cup {k} /\ UNCHANGED <<stopped, stage, dirty, report>>
      BY <1>19 DEF Dedupe!FireMatch
    <2>2. Shape'
      BY <1>3, <1>5, <2>1, AllOnesStays DEF Shape, Dedupe!AllOnes
    <2>3. Prior(rs)'
      BY <1>3, <1>4, <2>1, AllOnesStays DEF Prior, Taking
    <2>4. Phase(rs)'
      <3>1. PICK K : K = sent \cup {k} /\ Edge(cs2, rs, e, K) /\ K = sent'
        BY <1>11, <1>14, <2>1
      <3>2. CASE stage = "first"
        <4>1. OnFirst(current, report[4], log, somLog, starts, dirty, sent, Calls(out), rs)
          BY <1>4, <3>2 DEF Phase
        <4>2. e = current - 1 /\ b = 1 - Dedupe!Parity(current)
          BY <1>1, <1>6, <1>7, <3>2, Rows DEF Row, Dedupe!LogOffset
        <4>3. K \subseteq somLog[1 - Dedupe!Parity(current)]
          BY <1>3, <3>1, <4>1, <4>2 DEF OnFirst
        <4>4. OnFirst(current, report[4], log, somLog, starts, dirty, K, cs2, rs)
          BY ONLY <1>15, <3>1, <4>1, <4>2, <4>3 DEF OnFirst
        <4> QED  BY <1>3, <1>14, <2>1, <3>1, <3>2, <4>4 DEF Phase
      <3>3. CASE stage = "second"
        <4>1. OnSecond(current, report[4], log, somLog, starts, sent, Calls(out), rs)
          BY <1>4, <3>3 DEF Phase
        <4>2. e = current /\ b = Dedupe!Parity(current)
          BY <1>1, <1>6, <3>3 DEF Row
        <4>3. K \subseteq somLog[Dedupe!Parity(current)]
          BY <1>3, <3>1, <4>1, <4>2 DEF OnSecond
        <4>4. OnSecond(current, report[4], log, somLog, starts, K, cs2, rs)
          BY ONLY <1>15, <3>1, <4>1, <4>2, <4>3 DEF OnSecond
        <4> QED  BY <1>3, <1>14, <2>1, <3>1, <3>3, <4>4 DEF Phase
      <3> QED  BY <1>3, <3>2, <3>3
    <2> QED  BY <1>3, <1>5, <1>17, <2>1, <2>2, <2>3, <2>4 DEF DedupeInv
  <1> QED  BY <1>18, <1>19

LEMMA ClearStep ==
    ASSUME DedupeInv, Dedupe!ClearLog
    PROVE  DedupeInv'
  <1>1. PICK e, b : e = Dedupe!LogOffset /\ b = Dedupe!Parity(e)
    OBVIOUS
  <1>2. /\ stage \in {"first", "second"} /\ sent = somLog[b] /\ sent' = {}
        /\ somLog' = [somLog EXCEPT ![b] = {}] /\ Dedupe!Leave(Dedupe!AfterLog)
        /\ UNCHANGED <<current, log, starts, report, stopped, scanning, last, calls,
                       raised, count, out>>
    BY <1>1 DEF Dedupe!ClearLog
  <1>3. PICK rs : Prior(rs) /\ Phase(rs)
    BY <1>2 DEF DedupeInv
  <1>4. PICK n, sm2, cs : n = report[4] /\ sm2 = somLog' /\ cs = Calls(out)
    OBVIOUS
  <1>5. /\ Shape /\ Given /\ scanning /\ ~stopped /\ Reports(rs) /\ cs \in SUBSET Entry
        /\ n \in Dedupe!Offset \cup {Dedupe!AllOnes}
        /\ somLog \in [0 .. 1 -> SUBSET Som] /\ dirty \in 0 .. 3
    BY <1>2, <1>3, <1>4, CallsAre DEF DedupeInv, Given, InOrder, Prior, Shape, Dedupe!Report
  <1>6. Prior(rs)'
    BY <1>2, <1>3, AllOnesStays DEF Prior, Taking
  <1>7. /\ stage' = Dedupe!AfterLog
        /\ dirty' = IF Dedupe!AfterLog = "second" THEN dirty
                    ELSE IF n = (current + 1) % Mod THEN dirty \div 2 ELSE 0
    BY <1>2, <1>4 DEF Dedupe!Leave, Dedupe!OneLog
  <1>8. /\ dirty' \in 0 .. 3 /\ stage' \in {"second", "done"}
        /\ somLog' \in [0 .. 1 -> SUBSET Som]
    <2>1. dirty \div 2 \in 0 .. 3
      BY ONLY <1>5
    <2>2. dirty' \in 0 .. 3
      BY ONLY <1>5, <1>7, <2>1
    <2>3. stage' \in {"second", "done"}
      BY ONLY <1>7 DEF Dedupe!AfterLog
    <2>4. somLog' \in [0 .. 1 -> SUBSET Som]
      BY ONLY <1>2, <1>5
    <2> QED  BY <2>2, <2>3, <2>4
  <1>9. Shape'
    BY <1>2, <1>5, <1>8, AllOnesStays DEF Shape, Dedupe!AllOnes
  <1>10. CASE stage = "first"
    <2>1. OnFirst(current, n, log, somLog, starts, dirty, sent, cs, rs)
      BY <1>3, <1>4, <1>10 DEF Phase
    <2>2. current \in Dedupe!Offset
      BY <2>1 DEF OnFirst
    <2>3. b = 1 - Dedupe!Parity(current) /\ (current + 1) % Mod = current + 1
      BY <1>1, <1>10, <2>2, Rows DEF Dedupe!LogOffset
    <2>4. /\ n = current + 1 => Closed(n, log, sm2, starts, dirty \div 2, cs, rs)
          /\ n # current + 1 => OnSecond(current, n, log, sm2, starts, {}, cs, rs)
      <3>1. sent = somLog[1 - Dedupe!Parity(current)]
        BY <1>2, <2>3
      <3>2. sm2 = [somLog EXCEPT ![1 - Dedupe!Parity(current)] = {}]
        BY <1>2, <1>4, <2>3
      <3> QED  BY ONLY <1>5, <2>1, <3>1, <3>2, FirstOver
    <2>5. CASE n = current + 1
      <3>1. stage' = "done" /\ dirty' = dirty \div 2
        BY <1>4, <1>7, <1>10, <2>3, <2>5 DEF Dedupe!AfterLog, Dedupe!OneLog
      <3>2. Phase(rs)'
        BY <1>2, <1>4, <2>4, <2>5, <3>1 DEF Phase
      <3> QED  BY <1>2, <1>5, <1>6, <1>9, <3>1, <3>2 DEF DedupeInv, Given
    <2>6. CASE n # current + 1
      <3>1. stage' = "second"
        BY <1>4, <1>7, <1>10, <2>3, <2>6 DEF Dedupe!AfterLog, Dedupe!OneLog
      <3>2. Phase(rs)'
        BY <1>2, <1>4, <2>4, <2>6, <3>1 DEF Phase
      <3> QED  BY <1>2, <1>5, <1>6, <1>9, <3>1, <3>2 DEF DedupeInv, Given
    <2> QED  BY <2>5, <2>6
  <1>11. CASE stage = "second"
    <2>1. OnSecond(current, n, log, somLog, starts, sent, cs, rs)
      BY <1>3, <1>4, <1>11 DEF Phase
    <2>2. current \in Dedupe!Offset /\ n > current + 1
      BY <2>1 DEF OnSecond
    <2>3. b = Dedupe!Parity(current) /\ n # (current + 1) % Mod
      <3>1. n \in Nat /\ current \in Nat
        BY <1>5, <2>2, Constants
      <3>2. b = Dedupe!Parity(current)
        BY <1>1, <1>11 DEF Dedupe!LogOffset
      <3>3. (current + 1) % Mod = current + 1
        BY <2>2, Rows
      <3> QED  BY ONLY <2>2, <3>1, <3>2, <3>3
    <2>4. stage' = "done" /\ dirty' = 0
      BY <1>7, <1>11, <2>3 DEF Dedupe!AfterLog
    <2>5. Closed(n, log, sm2, starts, 0, cs, rs)
      <3>1. sent = somLog[Dedupe!Parity(current)]
        BY <1>2, <2>3
      <3>2. sm2 = [somLog EXCEPT ![Dedupe!Parity(current)] = {}]
        BY <1>2, <1>4, <2>3
      <3> QED  BY ONLY <1>5, <2>1, <3>1, <3>2, SecondOver
    <2>6. Phase(rs)'
      BY <1>2, <1>4, <2>4, <2>5 DEF Phase
    <2> QED  BY <1>2, <1>5, <1>6, <1>9, <2>4, <2>6 DEF DedupeInv, Given
  <1> QED  BY <1>2, <1>10, <1>11

\* A report is taken: what is known of it and of the deduper.
LEMMA TakeIs ==
    ASSUME DedupeInv, Dedupe!Take
    PROVE  \E rs, r0, n, t :
              /\ n = report[4] /\ n \in Dedupe!Offset /\ n = last
              /\ t = n + report[3] /\ t \in Dedupe!Offset /\ t \in {n - 1, n}
              /\ (t = n <=> report[3] = 0)
              /\ r0 = <<report[1], report[2], t>> /\ report[1] \in Dedupe!Key \cup {NoKey}
              /\ report[2] \in Dedupe!Start /\ (report[1] \notin Som => report[2] = 0)
              /\ Reports(rs) /\ raised = rs \cup {r0} /\ Reports(rs \cup {r0})
              /\ At(n, log, somLog, starts, dirty, Calls(out), rs)
              /\ Calls(out) \subseteq Entry /\ sent = {} /\ scanning /\ ~stopped
  <1>1. stage = "done" /\ report[4] # Dedupe!AllOnes
    BY DEF Dedupe!Take
  <1>2. PICK rs : Prior(rs) /\ Phase(rs)
    BY <1>1 DEF DedupeInv
  <1>3. /\ Shape /\ InOrder(out) /\ scanning /\ ~stopped
        /\ Calls(out) \subseteq Entry /\ Reports(raised)
    BY <1>1, CallsAre DEF DedupeInv, Given, InOrder, Shape
  <1>4. PICK n, t : n = report[4] /\ t = n + report[3]
    OBVIOUS
  <1>5. /\ report[1] \in Dedupe!Key \cup {NoKey} /\ report[2] \in Dedupe!Start
        /\ report[3] \in {-1, 0} /\ n \in Dedupe!Offset
    BY <1>1, <1>3, <1>4 DEF Shape, Dedupe!Report
  <1>6. PICK r0 : r0 = <<report[1], report[2], t>>
    OBVIOUS
  <1>7. r0[1] = report[1] /\ r0[2] = report[2] /\ r0[3] = t
    BY ONLY <1>6
  <1>8. /\ Reports(rs) /\ raised = rs \cup {r0} /\ r0 \in raised /\ last = n
    BY <1>1, <1>2, <1>4, <1>6 DEF Prior, Taking
  <1>9. t \in Dedupe!Offset /\ (report[1] \notin Som => report[2] = 0)
    BY <1>3, <1>7, <1>8, ReportIs
  <1>10. n \in Nat /\ t \in {n - 1, n} /\ (t = n <=> report[3] = 0)
    BY <1>4, <1>5, Constants
  <1>11. sent = {} /\ At(n, log, somLog, starts, dirty, Calls(out), rs)
    BY <1>1, <1>2, <1>4 DEF Phase, Closed
  <1>12. Reports(rs \cup {r0})
    BY <1>3, <1>8
  <1> QED  BY <1>3, <1>4, <1>5, <1>6, <1>8, <1>9, <1>10, <1>11, <1>12

\* What holds between two reports.
LEMMA AtGives ==
    ASSUME NEW n \in Dedupe!Offset, NEW lg, NEW sm, NEW from, NEW d, NEW cs \in SUBSET Entry,
           NEW rs, Reports(rs), At(n, lg, sm, from, d, cs, rs)
    PROVE  Sound(cs, rs) /\ NoGap(cs, rs)
  <1>1. n \in Nat /\ n - 1 \in Int /\ n - 1 + 1 = n
    BY Constants
  <1>2. Edge(cs, rs, n - 1, {}) /\ \A c \in cs : Raw(c) <= n - 1 + 1
    BY <1>1 DEF At, UpTo
  <1> QED  BY ONLY <1>1, <1>2, Exactly, Reports(rs), cs \in SUBSET Entry

LEMMA PlainStep ==
    ASSUME DedupeInv, NEW halt \in BOOLEAN, Dedupe!TakePlain(halt)
    PROVE  DedupeInv'
  <1>1. Dedupe!Take /\ report[1] \notin Som
    BY DEF Dedupe!TakePlain
  <1>2. PICK rs, r0, n, t :
              /\ n = report[4] /\ n \in Dedupe!Offset /\ n = last
              /\ t = n + report[3] /\ t \in Dedupe!Offset /\ t \in {n - 1, n}
              /\ (t = n <=> report[3] = 0)
              /\ r0 = <<report[1], report[2], t>> /\ report[1] \in Dedupe!Key \cup {NoKey}
              /\ report[2] \in Dedupe!Start /\ (report[1] \notin Som => report[2] = 0)
              /\ Reports(rs) /\ raised = rs \cup {r0} /\ Reports(rs \cup {r0})
              /\ At(n, log, somLog, starts, dirty, Calls(out), rs)
              /\ Calls(out) \subseteq Entry /\ sent = {} /\ scanning /\ ~stopped
    BY <1>1, TakeIs
  <1>3. PICK k : k = report[1] /\ k \in Ext \cup {NoKey} /\ r0 = <<k, 0, t>>
    BY <1>1, <1>2, Constants
  <1>4. PICK x : x = <<k, 0, t, t # n>>
    OBVIOUS
  <1>5. PICK b, lg2, cs : b = Dedupe!Parity(t) /\ lg2 = log' /\ cs = Calls(out)
    OBVIOUS
  <1>6. /\ stage' = "idle" /\ report' = Dedupe!Idle /\ current' = n /\ stopped' = halt
        /\ UNCHANGED <<sent, scanning, last, calls, raised, count, somLog, starts, dirty>>
    BY <1>2 DEF Dedupe!TakePlain, Dedupe!Take
  <1>7. /\ lg2 = IF k = NoKey THEN log ELSE [log EXCEPT ![b] = @ \cup {k}]
        /\ IF k # NoKey /\ k \in log[b] THEN out' = out
           ELSE out' = Append(out, <<k, 0, t, report[3] # 0>>)
    BY <1>2, <1>3, <1>5 DEF Dedupe!TakePlain, Dedupe!LogOf
  <1>8. IF k # NoKey /\ k \in log[b] THEN out' = out ELSE out' = Append(out, x)
    <2>1. (report[3] # 0) = (t # n)
      BY <1>2
    <2>2. <<k, 0, t, report[3] # 0>> = x
      BY ONLY <1>4, <2>1, Zenon
    <2> QED  BY <1>7, <2>2
  <1>9. /\ Shape /\ Given /\ InOrder(out) /\ cs \in SUBSET Entry
        /\ log \in [0 .. 1 -> SUBSET Ext]
    BY <1>2, <1>5 DEF DedupeInv, Given, Shape
  <1>10. x \in Entry /\ Of(x) = r0 /\ Raw(x) = n /\ x[1] = k /\ x[3] = t
    BY ONLY <1>2, <1>3, <1>4, PlainCall
  <1>11. At(n, log, somLog, starts, dirty, cs, rs)
    BY <1>2, <1>5
  <1>12. /\ InOrder(out')
         /\ \/ Calls(out') = cs \cup {x}
            \/ Calls(out') = cs /\ k # NoKey /\ k \in log[b]
    <2>1. CASE k # NoKey /\ k \in log[b]
      BY <1>5, <1>8, <1>9, <2>1
    <2>2. CASE ~(k # NoKey /\ k \in log[b])
      <3>1. \A c \in cs : Raw(c) <= Raw(x)
        BY ONLY <1>10, <1>11 DEF At, UpTo
      <3>2. ASSUME NEW c \in cs, k # NoKey, c[1] = k, c[3] = t PROVE FALSE
        <4>1. Of(c) \in rs /\ c \in Entry
          BY <1>9, <1>11 DEF At, Edge
        <4>2. Of(c)[1] = k /\ Of(c)[3] = t
          BY <3>2, <4>1, CallIs
        <4>3. Of(c)[2] = 0 /\ Of(c) = <<Of(c)[1], Of(c)[2], Of(c)[3]>>
          BY <1>1, <1>2, <1>3, <4>1, <4>2, ReportIs
        <4>4. <<k, 0, t>> \in rs
          BY <4>1, <4>2, <4>3
        <4>5. k \in Ext
          BY <1>3, <3>2
        <4>6. k \in log[b]
          <5>1. /\ LogRow(log[Dedupe!Parity(n)], rs, n)
                /\ n > 0 => LogRow(log[1 - Dedupe!Parity(n)], rs, n - 1)
            BY <1>11 DEF At, Plain
          <5>2. CASE t = n
            BY <1>5, <4>4, <4>5, <5>1, <5>2 DEF LogRow
          <5>3. CASE t = n - 1
            <6>1. n > 0 /\ b = 1 - Dedupe!Parity(n)
              BY <1>2, <1>5, <5>3, Rows, Constants
            <6> QED  BY <4>4, <4>5, <5>1, <5>3, <6>1 DEF LogRow
          <5> QED  BY <1>2, <5>2, <5>3
        <4> QED  BY <2>2, <3>2, <4>6
      <3>3. PICK q : q = out'
        OBVIOUS
      <3>4. PICK p : p = out
        OBVIOUS
      <3>5. InOrder(q) /\ Calls(q) = Calls(p) \cup {x}
        <4>1. q = Append(p, x) /\ InOrder(p) /\ x \in Entry
          BY <1>8, <1>9, <1>10, <2>2, <3>3, <3>4
        <4>2. \A c \in Calls(p) : x[1] # NoKey => ~(c[1] = x[1] /\ c[3] = x[3])
          BY <1>5, <1>10, <3>2, <3>4
        <4>3. \A c \in Calls(p) : Raw(c) <= Raw(x)
          BY <1>5, <3>1, <3>4
        <4> QED  BY ONLY <4>1, <4>2, <4>3, Grown
      <3> QED  BY <1>5, <3>3, <3>4, <3>5
    <2> QED  BY <2>1, <2>2
  <1>13. PICK cs2 \in SUBSET Entry : cs2 = Calls(out')
    <2>1. Calls(out') \subseteq Entry
      BY ONLY <1>9, <1>10, <1>12
    <2> QED  BY <2>1
  <1>14. At(n, lg2, somLog, starts, dirty, cs2, rs \cup {r0})
    <2>1. PICK lg, sm, from, d : lg = log /\ sm = somLog /\ from = starts /\ d = dirty
      OBVIOUS
    <2>2. At(n, lg, sm, from, d, cs, rs)
      BY <1>11, <2>1
    <2>3. cs2 = cs \cup {x} \/ (cs2 = cs /\ k # NoKey /\ k \in lg[Dedupe!Parity(t)])
      BY <1>5, <1>12, <1>13, <2>1
    <2>4. lg2 = IF k = NoKey THEN lg ELSE [lg EXCEPT ![Dedupe!Parity(t)] = @ \cup {k}]
      BY <1>5, <1>7, <2>1
    <2>5. /\ n \in Dedupe!Offset /\ t \in Dedupe!Offset /\ t \in {n - 1, n} /\ Reports(rs)
          /\ k \in Ext \cup {NoKey} /\ r0 = <<k, 0, t>> /\ Of(x) = r0 /\ Raw(x) = n
          /\ cs \in SUBSET Entry /\ lg \in [0 .. 1 -> SUBSET Ext]
      BY ONLY <1>2, <1>3, <1>9, <1>10, <2>1
    <2>6. At(n, lg2, sm, from, d, cs2, rs \cup {r0})
      BY ONLY <2>2, <2>3, <2>4, <2>5, AtPlain
    <2> QED  BY <2>1, <2>6
  <1>15. Sound(cs2, raised) /\ NoGap(cs2, raised)
    BY ONLY <1>2, <1>14, AtGives, cs2 \in SUBSET Entry
  <1>16. Given'
    BY <1>6, <1>12, <1>13, <1>15 DEF Given
  <1>17. Shape'
    <2>1. report' \in Dedupe!Report
      BY <1>6, Constants DEF Dedupe!Report, Dedupe!Idle
    <2>2. lg2 \in [0 .. 1 -> SUBSET Ext]
      BY ONLY <1>3, <1>7, <1>9
    <2>3. stopped' \in BOOLEAN /\ current' \in Dedupe!Offset \cup {Dedupe!AllOnes}
      BY <1>2, <1>6
    <2> QED  BY <1>5, <1>6, <1>9, <2>1, <2>2, <2>3, AllOnesStays DEF Shape, Dedupe!AllOnes
  <1>18. Between'
    <2>1. At(n, lg2, somLog, starts, dirty, cs2, raised)
      BY <1>2, <1>14
    <2>2. n # Dedupe!AllOnes
      BY <1>2, Constants
    <2> QED  BY <1>2, <1>5, <1>6, <1>13, <2>1, <2>2, AllOnesStays DEF Between
  <1> QED  BY <1>2, <1>6, <1>16, <1>17, <1>18 DEF DedupeInv

LEMMA SomStep ==
    ASSUME DedupeInv, Dedupe!TakeSom
    PROVE  DedupeInv'
  <1>1. Dedupe!Take /\ report[1] \in Som
    BY DEF Dedupe!TakeSom
  <1>2. PICK rs, r0, n, t :
              /\ n = report[4] /\ n \in Dedupe!Offset /\ n = last
              /\ t = n + report[3] /\ t \in Dedupe!Offset /\ t \in {n - 1, n}
              /\ (t = n <=> report[3] = 0)
              /\ r0 = <<report[1], report[2], t>> /\ report[1] \in Dedupe!Key \cup {NoKey}
              /\ report[2] \in Dedupe!Start /\ (report[1] \notin Som => report[2] = 0)
              /\ Reports(rs) /\ raised = rs \cup {r0} /\ Reports(rs \cup {r0})
              /\ At(n, log, somLog, starts, dirty, Calls(out), rs)
              /\ Calls(out) \subseteq Entry /\ sent = {} /\ scanning /\ ~stopped
    BY <1>1, TakeIs
  <1>3. PICK k, s : k = report[1] /\ k \in Som /\ s = report[2] /\ s \in Dedupe!Start
                    /\ r0 = <<k, s, t>>
    BY <1>1, <1>2
  <1>4. PICK b : b = Dedupe!Parity(t)
    OBVIOUS
  <1>5. b \in 0 .. 1
    BY <1>2, <1>4, Rows
  <1>6. /\ stage' = "idle" /\ report' = Dedupe!Idle /\ current' = n
        /\ UNCHANGED <<sent, scanning, last, calls, raised, count, log, stopped, out>>
    BY <1>2 DEF Dedupe!TakeSom, Dedupe!Take
  <1>7. PICK v : v = IF k \in somLog[b] /\ starts[b][k] < s THEN starts[b][k] ELSE s
    OBVIOUS
  <1>8. PICK sm2, from2, d2 : sm2 = somLog' /\ from2 = starts' /\ d2 = dirty'
    OBVIOUS
  <1>9. /\ sm2 = [somLog EXCEPT ![b] = @ \cup {k}]
        /\ from2 = [starts EXCEPT ![b][k] = v]
        /\ d2 = Dedupe!DirtyWith(dirty, IF report[3] # 0 THEN 1 ELSE 2)
    BY <1>2, <1>3, <1>4, <1>7, <1>8 DEF Dedupe!TakeSom, Dedupe!LogOf, Dedupe!StartOf
  <1>10. (t = n => d2 = Dedupe!DirtyWith(dirty, 2)) /\ (t # n => d2 = Dedupe!DirtyWith(dirty, 1))
    BY <1>2, <1>9
  <1>11. PICK sm, from, d, cs : sm = somLog /\ from = starts /\ d = dirty /\ cs = Calls(out)
    OBVIOUS
  <1>12. /\ Shape /\ Given /\ cs \in SUBSET Entry
         /\ sm \in [0 .. 1 -> SUBSET Som] /\ from \in [0 .. 1 -> [Som -> Dedupe!Start]]
         /\ d \in 0 .. 3
    BY <1>2, <1>11 DEF DedupeInv, Given, Shape
  <1>13. from[b][k] \in Dedupe!Start /\ v \in Dedupe!Start
    BY ONLY <1>3, <1>5, <1>7, <1>11, <1>12
  <1>14. LoggedSom(sm2, from2, d2, sm, from, d, n, k, s, t)
    <2>1. \A a \in 0 .. 1, j \in Som :
             from2[a][j] = (IF a = b /\ j = k THEN v ELSE from[a][j])
      BY ONLY <1>5, <1>9, <1>11, <1>12
    <2> QED  BY ONLY <1>4, <1>7, <1>9, <1>10, <1>11, <2>1 DEF LoggedSom
  <1>15. At(n, log, sm2, from2, d2, cs, rs \cup {r0})
    <2>1. PICK lg : lg = log
      OBVIOUS
    <2>2. At(n, lg, sm, from, d, cs, rs)
      BY <1>2, <1>11, <2>1
    <2>3. At(n, lg, sm2, from2, d2, cs, rs \cup {r0})
      BY ONLY <1>2, <1>3, <1>12, <1>14, <2>2, AtSom
    <2> QED  BY <2>1, <2>3
  <1>16. /\ sm2 \in [0 .. 1 -> SUBSET Som] /\ from2 \in [0 .. 1 -> [Som -> Dedupe!Start]]
         /\ d2 \in 0 .. 3
    <2>1. sm2 \in [0 .. 1 -> SUBSET Som]
      BY ONLY <1>3, <1>9, <1>11, <1>12
    <2>2. from2 \in [0 .. 1 -> [Som -> Dedupe!Start]]
      BY ONLY <1>3, <1>5, <1>9, <1>11, <1>12, <1>13
    <2>3. d2 = Dedupe!DirtyWith(d, 2) \/ d2 = Dedupe!DirtyWith(d, 1)
      BY ONLY <1>10, <1>11
    <2>4. d2 \in 0 .. 3
      BY ONLY <1>12, <2>3 DEF Dedupe!DirtyWith
    <2> QED  BY <2>1, <2>2, <2>4
  <1>17. Given'
    BY <1>6, <1>12 DEF Given
  <1>18. Shape'
    <2>1. report' \in Dedupe!Report
      BY <1>6, Constants DEF Dedupe!Report, Dedupe!Idle
    <2>2. current' \in Dedupe!Offset \cup {Dedupe!AllOnes}
      BY <1>2, <1>6
    <2> QED  BY <1>6, <1>8, <1>12, <1>16, <2>1, <2>2, AllOnesStays DEF Shape, Dedupe!AllOnes
  <1>19. Between'
    <2>1. At(n, log, sm2, from2, d2, cs, raised)
      BY <1>2, <1>15
    <2>2. n # Dedupe!AllOnes
      BY <1>2, Constants
    <2> QED  BY <1>2, <1>6, <1>8, <1>11, <2>1, <2>2, AllOnesStays DEF Between
  <1> QED  BY <1>2, <1>6, <1>17, <1>18, <1>19 DEF DedupeInv

LEMMA BeginStep ==
    ASSUME DedupeInv, NEW b \in Dedupe!Offset, Dedupe!Begin(b)
    PROVE  DedupeInv'
  <1>1. /\ ~scanning /\ calls < MaxCalls /\ scanning' = TRUE /\ stopped' = FALSE
        /\ current' = Dedupe!AllOnes /\ dirty' = 1 /\ last' = b /\ calls' = calls + 1
        /\ raised' = {} /\ out' = <<>>
        /\ UNCHANGED <<log, somLog, starts, stage, report, sent, count>>
    BY DEF Dedupe!Begin, Dedupe!ResetDirty, Dedupe!flush
  <1>2. Shape /\ stage = "idle" /\ sent = {}
    BY <1>1 DEF DedupeInv
  <1>3. Shape'
    <2>1. calls' \in 0 .. MaxCalls /\ dirty' \in 0 .. 3
      BY <1>1, <1>2, Constants DEF Shape
    <2>2. Reports(raised')
      BY <1>1 DEF Reports
    <2>3. stopped' \in BOOLEAN /\ scanning' \in BOOLEAN
      BY ONLY <1>1, Zenon
    <2> QED  BY <1>1, <1>2, <2>1, <2>2, <2>3, AllOnesStays DEF Shape, Dedupe!AllOnes
  <1>4. InOrder(out') /\ Calls(out') = {}
    <2>1. PICK q : q = out'
      OBVIOUS
    <2>2. q = <<>>
      BY <1>1, <2>1
    <2>3. InOrder(q) /\ Calls(q) = {}
      BY ONLY <2>2 DEF InOrder, Calls, Once, Ascending
    <2> QED  BY <2>1, <2>3
  <1>5. Given'
    BY <1>4 DEF Given, Sound, NoGap
  <1>6. Between'
    BY <1>1, AllOnesStays DEF Between, Fresh
  <1> QED  BY <1>1, <1>2, <1>3, <1>5, <1>6 DEF DedupeInv

LEMMA BoundaryStep ==
    ASSUME DedupeInv, Dedupe!Boundary
    PROVE  DedupeInv'
  <1>1. /\ scanning /\ ~stopped /\ stage = "idle" /\ current = Dedupe!AllOnes
        /\ somLog' = [b \in 0 .. 1 |-> {}] /\ dirty' = 0
        /\ UNCHANGED <<current, log, starts, stage, report, sent, stopped, scanning, last,
                       calls, raised, count, out>>
    BY DEF Dedupe!Boundary, Dedupe!flush
  <1>2. Shape /\ Given /\ Between /\ sent = {}
    BY <1>1 DEF DedupeInv
  <1>3. Shape'
    BY <1>1, <1>2, AllOnesStays DEF Shape, Dedupe!AllOnes
  <1>4. Given'
    BY <1>1, <1>2 DEF Given
  <1>5. Between'
    BY <1>1, <1>2, AllOnesStays DEF Between, Fresh
  <1> QED  BY <1>1, <1>2, <1>3, <1>4, <1>5 DEF DedupeInv

\* The end of a call: what is held back is flushed, unless it was stopped.
LEMMA EndStep ==
    ASSUME DedupeInv, Dedupe!End
    PROVE  DedupeInv'
  <1>1. /\ scanning /\ stage = "idle"
        /\ UNCHANGED <<current, log, starts, sent, stopped, last, calls, raised, count, out>>
    BY DEF Dedupe!End
  <1>2. Shape /\ Given /\ sent = {} /\ Reports(raised) /\ Calls(out) \subseteq Entry
    BY <1>1, CallsAre DEF DedupeInv, Shape, Given, InOrder
  <1>3. Given'
    BY <1>1, <1>2 DEF Given
  <1>4. CASE stopped
    <2>1. scanning' = FALSE /\ UNCHANGED <<somLog, dirty, stage, report>>
      BY <1>4 DEF Dedupe!End
    <2>2. Shape'
      BY <1>1, <1>2, <2>1, AllOnesStays DEF Shape, Dedupe!AllOnes
    <2> QED  BY <1>1, <1>2, <1>3, <1>4, <2>1, <2>2 DEF DedupeInv
  <1>5. CASE ~stopped
    <2>1. /\ Dedupe!BeginFlush(Dedupe!AllOnes) /\ report' = Dedupe!Ending
          /\ scanning' = scanning
      BY <1>5 DEF Dedupe!End
    <2>2. /\ somLog' \in [0 .. 1 -> SUBSET Som] /\ dirty' \in 0 .. 3
          /\ \/ dirty = 0 /\ stage' = "done" /\ somLog' = somLog /\ dirty' = 0
             \/ current = Dedupe!AllOnes /\ stage' = "done"
             \/ /\ dirty # 0 /\ current # Dedupe!AllOnes /\ stage' = "first"
                /\ somLog' = somLog /\ dirty' = dirty
      BY <1>2, <2>1, FlushBegins
    <2>3. report' \in Dedupe!Report /\ report'[4] = Dedupe!AllOnes
      BY <2>1, Constants DEF Dedupe!Report, Dedupe!Ending
    <2>4. Shape'
      BY <1>1, <1>2, <2>1, <2>2, <2>3, AllOnesStays DEF Shape, Dedupe!AllOnes
    <2>5. PICK rs : rs = raised
      OBVIOUS
    <2>6. Prior(rs)'
      BY <1>1, <1>2, <2>3, <2>5, AllOnesStays DEF Prior
    <2>7. Between
      BY <1>1, <1>5 DEF DedupeInv
    <2>8. Phase(rs)'
      <3>1. CASE current = Dedupe!AllOnes
        <4>1. raised = {}
          BY <2>7, <3>1 DEF Between, Fresh
        <4>2. All(Calls(out'), rs)
          BY <2>5, <4>1 DEF All
        <4>3. Closed(Dedupe!AllOnes, log', somLog', starts', dirty', Calls(out'), rs)
          BY ONLY <4>2 DEF Closed
        <4>4. stage' = "done"
          BY <2>2, <3>1
        <4> QED  BY <1>1, <1>2, <2>3, <4>3, <4>4 DEF Phase
      <3>2. CASE current # Dedupe!AllOnes
        <4>1. /\ current \in Dedupe!Offset
              /\ At(current, log, somLog, starts, dirty, Calls(out), rs)
          BY <1>2, <2>5, <2>7, <3>2 DEF Between, Shape
        <4>2. Dedupe!AllOnes > current
          BY <4>1, Rows, Constants
        <4>3. CASE dirty = 0
          <5>1. stage' = "done"
            BY <2>2, <3>2, <4>3
          <5>2. PICK n, cs, lg2, sm2, from2, d2 :
                   /\ n = Dedupe!AllOnes /\ cs = Calls(out) /\ lg2 = log'
                   /\ sm2 = somLog' /\ from2 = starts' /\ d2 = dirty'
            OBVIOUS
          <5>3. Closed(n, lg2, somLog, starts, 0, cs, rs)
            <6>1. At(current, log, somLog, starts, 0, cs, rs) /\ Reports(rs)
                  /\ cs \in SUBSET Entry
              BY <1>2, <2>5, <4>1, <4>3, <5>2
            <6> QED  BY ONLY <4>1, <4>2, <5>2, <6>1, NotDirty
          <5>4. Closed(n, lg2, sm2, from2, d2, cs, rs)
            BY ONLY <5>2, <5>3 DEF Closed
          <5> QED  BY <1>1, <1>2, <2>3, <5>1, <5>2, <5>4 DEF Phase
        <4>4. CASE dirty # 0
          <5>1. stage' = "first" /\ somLog' = somLog /\ dirty' = dirty
            BY <2>2, <3>2, <4>4
          <5>2. OnFirst(current, Dedupe!AllOnes, log, somLog, starts, dirty, {}, Calls(out), rs)
            BY ONLY <4>1, <4>2 DEF At, OnFirst
          <5> QED  BY <1>1, <1>2, <2>3, <5>1, <5>2 DEF Phase
        <4> QED  BY <4>3, <4>4
      <3> QED  BY <3>1, <3>2
    <2>9. stage' # "idle" /\ scanning' /\ ~stopped'
      BY <1>1, <1>5, <2>1, <2>2
    <2> QED  BY <1>3, <2>4, <2>6, <2>8, <2>9 DEF DedupeInv
  <1> QED  BY <1>4, <1>5

LEMMA ReturnStep ==
    ASSUME DedupeInv, Dedupe!Return
    PROVE  DedupeInv'
  <1>1. /\ stage = "done" /\ report = Dedupe!Ending
        /\ scanning' = FALSE /\ stage' = "idle" /\ report' = Dedupe!Idle
        /\ UNCHANGED <<current, log, somLog, starts, dirty, sent, stopped, last, calls,
                       raised, count, out>>
    BY DEF Dedupe!Return, Dedupe!deduper
  <1>2. PICK rs : Prior(rs) /\ Phase(rs)
    BY <1>1 DEF DedupeInv
  <1>3. report[4] = Dedupe!AllOnes
    BY <1>1 DEF Dedupe!Ending
  <1>4. All(Calls(out), raised) /\ sent = {}
    BY <1>1, <1>2, <1>3 DEF Prior, Phase, Closed
  <1>5. Shape /\ Given
    BY DEF DedupeInv
  <1>6. report' \in Dedupe!Report
    BY <1>1, Constants DEF Dedupe!Report, Dedupe!Idle
  <1>7. Shape'
    BY <1>1, <1>5, <1>6, AllOnesStays DEF Shape, Dedupe!AllOnes
  <1>8. Given' /\ All(Calls(out'), raised')
    BY <1>1, <1>4, <1>5 DEF Given
  <1> QED  BY <1>1, <1>4, <1>7, <1>8 DEF DedupeInv

----------------------------------------------------------------------------
(* The invariant, and the theorems                                         *)

LEMMA DedupeStep == DedupeInv /\ [Dedupe!Next]_(Dedupe!vars) => DedupeInv'
  <1> SUFFICES ASSUME DedupeInv, [Dedupe!Next]_(Dedupe!vars) PROVE DedupeInv'
    OBVIOUS
  <1>1. ASSUME NEW b \in Dedupe!Offset, Dedupe!Begin(b)
        PROVE  DedupeInv'
    BY <1>1, BeginStep
  <1>2. ASSUME NEW k \in Ext \cup {NoKey}, NEW adj \in {-1, 0}, NEW o \in Dedupe!Offset,
               o + adj >= 0, Dedupe!Raise(k, 0, adj, o)
        PROVE  DedupeInv'
    <2>1. k \in Dedupe!Key \cup {NoKey} /\ 0 \in Dedupe!Start /\ k \notin Som
      BY Constants
    <2> QED  BY <1>2, <2>1, RaiseStep
  <1>3. ASSUME NEW k \in Som, NEW s \in Dedupe!Start, NEW adj \in {-1, 0}, NEW o \in Dedupe!Offset,
               o + adj >= 0, Dedupe!Raise(k, s, adj, o)
        PROVE  DedupeInv'
    <2>1. k \in Dedupe!Key \cup {NoKey}
      BY Constants
    <2> QED  BY <1>3, <2>1, RaiseStep
  <1>4. ASSUME NEW k \in Som, NEW halt \in BOOLEAN, Dedupe!FireMatch(k, halt)
        PROVE  DedupeInv'
    BY <1>4, FireStep
  <1>5. CASE Dedupe!ClearLog
    BY <1>5, ClearStep
  <1>6. ASSUME NEW halt \in BOOLEAN, Dedupe!TakePlain(halt)
        PROVE  DedupeInv'
    BY <1>6, PlainStep
  <1>7. CASE Dedupe!TakeSom
    BY <1>7, SomStep
  <1>8. CASE Dedupe!Boundary
    BY <1>8, BoundaryStep
  <1>9. CASE Dedupe!End
    BY <1>9, EndStep
  <1>10. CASE Dedupe!Return
    BY <1>10, ReturnStep
  <1>11. CASE UNCHANGED Dedupe!vars
    <2>1. UNCHANGED <<current, log, somLog, starts, dirty, stage, report, sent, stopped,
                      scanning, last, calls, raised, count, out>>
      BY <1>11 DEF Dedupe!vars, Dedupe!deduper, Dedupe!flush
    <2>2. Shape' /\ Given'
      BY <2>1, AllOnesStays DEF DedupeInv, Shape, Given, Dedupe!AllOnes
    <2>3. Between => Between'
      BY <2>1, AllOnesStays DEF Between, Fresh
    <2>4. \A rs : Prior(rs) /\ Phase(rs) => Prior(rs)' /\ Phase(rs)'
      BY <2>1, AllOnesStays DEF Prior, Phase, Taking
    <2> QED  BY <2>1, <2>2, <2>3, <2>4 DEF DedupeInv
  <1> QED
    BY <1>1, <1>2, <1>3, <1>4, <1>5, <1>6, <1>7, <1>8, <1>9, <1>10, <1>11 DEF Dedupe!Next

LEMMA DedupeStart == Dedupe!Init => DedupeInv
  <1> SUFFICES ASSUME Dedupe!Init PROVE DedupeInv
    OBVIOUS
  <1>1. /\ current = Dedupe!AllOnes /\ log \in [0 .. 1 -> SUBSET Ext]
        /\ somLog \in [0 .. 1 -> SUBSET Som]
        /\ starts = [b \in 0 .. 1 |-> [k \in Som |-> 0]] /\ dirty = 1
        /\ stage = "idle" /\ report = Dedupe!Idle /\ sent = {}
        /\ stopped = FALSE /\ scanning = FALSE /\ last = 0 /\ calls = 0
        /\ raised = {} /\ count = 0 /\ out = <<>>
    BY DEF Dedupe!Init
  <1>2. report \in Dedupe!Report
    BY <1>1, Constants DEF Dedupe!Report, Dedupe!Idle
  <1>3. Shape
    <2>1. calls \in 0 .. MaxCalls /\ count \in 0 .. MaxReports /\ last \in Dedupe!Offset
      BY <1>1, Constants
    <2>2. starts \in [0 .. 1 -> [Som -> Dedupe!Start]]
      BY <1>1, Constants
    <2>3. stopped \in BOOLEAN /\ scanning \in BOOLEAN
      BY ONLY <1>1, Zenon
    <2> QED  BY <1>1, <1>2, <2>1, <2>2, <2>3 DEF Shape, Reports
  <1>4. InOrder(out) /\ Calls(out) = {}
    BY <1>1 DEF InOrder, Calls, Once, Ascending
  <1> QED  BY <1>1, <1>3, <1>4 DEF DedupeInv, Given, Sound, NoGap, All

\* The deduper's part of a behaviour of both.
LEMMA Deduping == SomSpec => Dedupe!Spec
  <1>1. SomInit => Dedupe!Init
    BY DEF SomInit
  <1>2. [SomNext]_<<vars, deduperVars>> => [Dedupe!Next]_(Dedupe!vars)
    BY DEF SomNext, Dedupe!vars, Dedupe!deduper, Dedupe!flush, deduperVars
  <1> QED  BY <1>1, <1>2, PTL DEF SomSpec, Dedupe!Spec

LEMMA DedupeInvariant == SomSpec => []DedupeInv
  BY DedupeStart, DedupeStep, Deduping, PTL DEF Dedupe!Spec

\* No match is given twice in a call, whatever the engines raise and whatever
\* the logs held before (dedupeCatchup, clearSomLog).
THEOREM NeverTwice == SomSpec => []NoDuplicate
  <1>1. DedupeInv => NoDuplicate
    BY DEF DedupeInv, Given, InOrder, Once, NoDuplicate, Dedupe!NoDuplicate
  <1> QED  BY <1>1, DedupeInvariant, PTL

\* At any time of a call, a stopped one too, each match given was raised and has
\* its final start, the least number raised for it; what lies two bytes behind a
\* match given was given, and a call that ran to its end gave everything
\* (dedupeCatchup, flushStoredSomMatches).
THEOREM DeliversExactly == SomSpec => []ExactDelivery
  <1>1. ASSUME DedupeInv PROVE ExactDelivery
    <2>1. /\ Sound(Calls(out), raised) /\ NoGap(Calls(out), raised)
          /\ ~scanning /\ ~stopped => All(Calls(out), raised)
      BY <1>1 DEF DedupeInv, Given
    <2>2. Dedupe!Told = {Of(c) : c \in Calls(out)}
      BY DEF Dedupe!Told, Calls, Of
    <2>3. \A r : r \in Dedupe!Owed <=> r \in raised /\ Leftmost(raised, r)
      BY DEF Dedupe!Owed, Leftmost
    <2>4. \A r : r \in Dedupe!Told <=> Gives(Calls(out), r)
      BY <2>2 DEF Gives
    <2>5. Dedupe!Told \subseteq Dedupe!Owed
      BY <2>1, <2>2, <2>3 DEF Sound
    <2>6. ASSUME NEW r \in Dedupe!Owed, NEW m \in Dedupe!Told, r[3] < m[3] - 1
          PROVE  r \in Dedupe!Told
      <3>1. PICK c \in Calls(out) : m = Of(c)
        BY <2>2
      <3>2. m[3] = c[3]
        BY <3>1 DEF Of
      <3> QED  BY <2>1, <2>3, <2>4, <2>6, <3>1, <3>2 DEF NoGap
    <2>7. ~scanning /\ ~stopped => Dedupe!Owed \subseteq Dedupe!Told
      BY <2>1, <2>3, <2>4 DEF All
    <2> QED  BY <2>5, <2>6, <2>7 DEF ExactDelivery, Dedupe!ExactDelivery
  <1> QED  BY <1>1, DedupeInvariant, PTL

\* Held-back and immediate callbacks come in the order the collider checks.
THEOREM RawInOrder == SomSpec => []RawOrder
  <1>1. DedupeInv => RawOrder
    BY DEF DedupeInv, Given, InOrder, Ascending, Raw, RawOrder, Dedupe!RawOrder
  <1> QED  BY <1>1, DedupeInvariant, PTL

\* A flush that the callback stops gives no further match of its log, nor of the
\* second log, nor of the end of the call, and the call stays stopped.
THEOREM Silent == SomSpec => SilentAfterStop
  <1>1. DedupeInv /\ [Dedupe!Next]_(Dedupe!vars) =>
           [(scanning /\ stopped) => (out' = out /\ stopped')]_(Dedupe!vars)
    <2> SUFFICES ASSUME DedupeInv, [Dedupe!Next]_(Dedupe!vars), scanning, stopped
                 PROVE  out' = out /\ stopped'
      OBVIOUS
    <2>1. stage = "idle"
      BY DEF DedupeInv
    <2>2. CASE Dedupe!End
      BY <2>2 DEF Dedupe!End
    <2>3. CASE UNCHANGED Dedupe!vars
      BY <2>3 DEF Dedupe!vars
    <2> QED
      BY <2>1, <2>2, <2>3 DEF Dedupe!Next, Dedupe!Begin, Dedupe!Raise, Dedupe!FireMatch,
            Dedupe!ClearLog, Dedupe!TakePlain, Dedupe!TakeSom, Dedupe!Take, Dedupe!Boundary,
            Dedupe!Return
  <1> QED  BY <1>1, DedupeInvariant, Deduping, PTL DEF SilentAfterStop, Dedupe!SilentAfterStop, Dedupe!Spec
=============================================================================
