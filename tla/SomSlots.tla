------------------------------ MODULE SomSlots ------------------------------
(***************************************************************************)
(* Start-of-match slots (som_runtime.c, som_stream.c).  Engines record in  *)
(* a slot where a match began.  A slot is written always (reset), once     *)
(* (unset) or when an escape engine has unlocked it (lock); a slot can     *)
(* also take the value of its parent in the plan.  Events of one offset    *)
(* arrive in no particular order: a write can come before the escape that  *)
(* allows it.  Between the writes of a stream the values are kept in the   *)
(* stream as distances of a few bytes, with a sentinel for a start that is *)
(* too far in the past.                                                    *)
(***************************************************************************)
EXTENDS Integers, FiniteSets, FiniteSetsExt

CONSTANTS
    Slot,
    Mode,       \* "reset", "unset" or "lock"
    Parent,     \* the slot a midfix copies from, NoParent if none
    NoParent,
    Sentinel,   \* SOM_SENTINEL_SMALL or _MEDIUM: largest value of som_size bytes
    Past,       \* SOM_SENTINEL_LARGE: ~0ULL
    MaxOffset,  \* bound: bytes of the stream
    MaxEvents   \* bound: SOM operations

ASSUME SlotsAssumption ==
    /\ IsFiniteSet(Slot) /\ NoParent \notin Slot
    /\ Mode \in [Slot -> {"reset", "unset", "lock"}]
    /\ Parent \in [Slot -> Slot \cup {NoParent}]
    /\ {Sentinel, Past, MaxOffset, MaxEvents} \subseteq Nat
    /\ MaxOffset < Past

VARIABLES
    valid,      \* stream state: somValid
    writable,   \* stream state: somWritable
    kept,       \* stream state: somLocation, distances from the stream offset
    store,      \* scratch->som_store
    failed,     \* scratch->som_attempted_store
    setNow,     \* scratch->som_set_now
    attempted,  \* scratch->som_attempted_set
    now,        \* scratch->som_set_now_offset
    base,       \* bytes of earlier writes (id->offset)
    active,     \* a write is running
    events,     \* bound: operations so far
    pre,        \* history: what the slots were before the events of offset now
    writes,     \* history: starts offered to a slot at offset now
    escapes     \* history: slots unlocked at offset now

streamState == <<valid, writable, kept>>
vars == <<valid, writable, kept, store, failed, setNow, attempted, now, base,
          active, events, pre, writes, escapes>>

Start == 0 .. MaxOffset \cup {Past}

TypeOK ==
    /\ valid \subseteq Slot /\ writable \subseteq Slot
    /\ kept \in [Slot -> 0 .. Sentinel]
    /\ store \in [Slot -> Start] /\ failed \in [Slot -> Start]
    /\ setNow \subseteq Slot /\ attempted \subseteq Slot
    /\ now \in Start /\ base \in 0 .. MaxOffset
    /\ active \in BOOLEAN /\ events \in 0 .. MaxEvents
    /\ writes \in [Slot -> SUBSET Start] /\ escapes \subseteq Slot

Init ==
    /\ valid = {} /\ writable = {} /\ kept = [s \in Slot |-> 0]
    /\ store = [s \in Slot |-> 0] /\ failed = [s \in Slot |-> 0]
    /\ setNow = {} /\ attempted = {} /\ now = Past
    /\ base = 0 /\ active = FALSE /\ events = 0
    /\ pre = [s \in Slot |-> [valid |-> FALSE, writable |-> FALSE, start |-> 0]]
    /\ writes = [s \in Slot |-> {}] /\ escapes = {}

----------------------------------------------------------------------------
(* What a slot is after the events of an offset, in whichever order. *)

Taken(s) ==
    /\ writes[s] # {}
    /\ \/ Mode[s] = "reset"
       \/ ~pre[s].valid
       \/ Mode[s] = "lock" /\ (pre[s].writable \/ s \in escapes)

IdealSlot(s) ==
    [valid    |-> pre[s].valid \/ writes[s] # {},
     writable |-> ~Taken(s) /\ (pre[s].writable \/ s \in escapes),
     start    |-> IF Taken(s) THEN Min(writes[s]) ELSE pre[s].start]

(* A midfix copies the value its parent has when it is raised: the copy is *)
(* taken as it is.                                                         *)
Settled(s) ==
    IF Parent[s] = NoParent THEN IdealSlot(s)
    ELSE [IdealSlot(s) EXCEPT !.start = store[s]]

----------------------------------------------------------------------------
(* SOM operations *)

(* The marks are about another offset, or another call. *)
Stale(offset) == offset # now

SetNow(offset) == IF Stale(offset) THEN {} ELSE setNow
Attempted(offset) == IF Stale(offset) THEN {} ELSE attempted

(* Every operation first forgets the marks of earlier offsets. *)
Enter(offset) ==
    /\ active /\ events < MaxEvents
    /\ offset \in base + 1 .. MaxOffset
    /\ now = Past \/ offset >= now
    /\ now' = offset
    /\ events' = events + 1
    /\ UNCHANGED <<kept, base, active>>

(* History: the events of a new offset start from the result of the last. *)
Note(s, offset, starts, esc) ==
    LET fresh == offset # now
        w == IF fresh THEN [x \in Slot |-> {}] ELSE writes
        e == IF fresh THEN {} ELSE escapes
    IN /\ pre' = IF fresh THEN [x \in Slot |-> Settled(x)] ELSE pre
       /\ writes' = [w EXCEPT ![s] = @ \cup starts]
       /\ escapes' = IF esc THEN e \cup {s} ELSE e

(* The three write conditions: always, ok_and_mark_if_unset and            *)
(* ok_and_mark_if_write.                                                   *)
MayWrite(s, offset) ==
    \/ Mode[s] = "reset"
    \/ s \notin valid                       \* unwritten
    \/ s \in SetNow(offset)                 \* written here: resolve the race
    \/ Mode[s] = "lock" /\ s \in writable

\* Fault: the later write wins.
Earliest_Last(marked, old, start) == start

(* Of several writes at an offset the earliest start is kept, as a number: *)
(* one past the horizon (~0ULL) gives way to any other (LIMIT_TO_AT_MOST). *)
Earliest(marked, old, start) == IF marked /\ old < start THEN old ELSE start

Written(s, offset, value) ==
    /\ store' = [store EXCEPT ![s] = value]
    /\ setNow' = SetNow(offset) \cup {s}
    /\ attempted' = Attempted(offset)
    /\ writable' = IF Mode[s] = "lock" THEN writable \ {s} ELSE writable
    /\ UNCHANGED failed

(* A locked slot keeps the attempt, in case its escape is still to come.   *)
(* The conditions mark the slot as valid even when they refuse the write.  *)
Refused(s, offset, value) ==
    /\ setNow' = SetNow(offset)
    /\ IF Mode[s] = "lock"
       THEN /\ attempted' = Attempted(offset) \cup {s}
            /\ failed' = [failed EXCEPT ![s] = value]
       ELSE /\ attempted' = Attempted(offset)
            /\ UNCHANGED failed
    /\ UNCHANGED <<store, writable>>

(* SOM_INTERNAL_LOC_SET and its _IF_ forms; the start is a fixed distance  *)
(* back, found by a reverse NFA, or given by the engine (_SET_FROM), for   *)
(* which it may be past the horizon already.                               *)
Set(s, start, offset) ==
    /\ Parent[s] = NoParent
    /\ start <= offset \/ (start = Past /\ offset >= Sentinel)
    /\ Enter(offset) /\ Note(s, offset, {start}, FALSE)
    /\ valid' = valid \cup {s}
    /\ IF MayWrite(s, offset)
       THEN Written(s, offset, Earliest(s \in SetNow(offset), store[s], start))
       ELSE Refused(s, offset, Earliest(s \in Attempted(offset), failed[s], start))

(* SOM_INTERNAL_LOC_COPY and _COPY_IF_WRITABLE. *)
Copy(s, offset) ==
    /\ Parent[s] # NoParent /\ Parent[s] \in valid
    /\ Enter(offset) /\ Note(s, offset, {store[Parent[s]]}, FALSE)
    /\ valid' = valid \cup {s}
    /\ IF MayWrite(s, offset)
       THEN Written(s, offset, store[Parent[s]])
       ELSE Refused(s, offset, store[Parent[s]])

\* Fault: an escape unlocks a slot that was written at the same offset.
JustWritten_Ignored(s, offset) == FALSE

JustWritten(s, offset) == s \in SetNow(offset)

(* SOM_INTERNAL_LOC_MAKE_WRITABLE, raised by the escape engine of a slot. *)
MakeWritable(s, offset) ==
    /\ Mode[s] = "lock"
    /\ Enter(offset) /\ Note(s, offset, {}, TRUE)
    /\ attempted' = Attempted(offset)
    /\ IF JustWritten(s, offset)
       THEN /\ setNow' = SetNow(offset)
            /\ UNCHANGED <<store, writable>>
       ELSE IF s \in Attempted(offset)
       THEN /\ store' = [store EXCEPT ![s] = failed[s]]
            /\ setNow' = SetNow(offset) \cup {s}
            /\ UNCHANGED writable
       ELSE /\ writable' = writable \cup {s}
            /\ setNow' = SetNow(offset)
            /\ UNCHANGED store
    /\ UNCHANGED <<valid, failed>>

----------------------------------------------------------------------------
(* Stream writes *)

(* storeSomValue *)
KeptValue(start, offset) ==
    IF start = Past THEN Sentinel ELSE Min({offset - start, Sentinel})

(* loadSomValue *)
LoadedValue(rel, offset) == IF rel = Sentinel THEN Past ELSE offset - rel

(* populateCoreInfo and loadSomFromStream.  The scratch has served other   *)
(* streams since: what a slot that is not valid, a mark or a stashed start *)
(* holds is left over from them.                                           *)
BeginWrite ==
    /\ ~active /\ base < MaxOffset
    /\ active' = TRUE
    /\ now' = Past
    /\ \E junk \in {0, MaxOffset}, left \in {{}, Slot} :
        /\ store' = [s \in Slot |-> IF s \in valid THEN LoadedValue(kept[s], base) ELSE junk]
        /\ failed' = [s \in Slot |-> junk]
        /\ setNow' = left /\ attempted' = left
    /\ pre' = [x \in Slot |-> Settled(x)]
    /\ writes' = [x \in Slot |-> {}] /\ escapes' = {}
    /\ UNCHANGED <<streamState, base, events>>

(* storeSomToStream *)
EndWrite(end) ==
    /\ active /\ end > base /\ (now = Past \/ end >= now)
    /\ kept' = [s \in Slot |-> IF s \in valid THEN KeptValue(store[s], end) ELSE kept[s]]
    /\ base' = end
    /\ active' = FALSE
    /\ UNCHANGED <<valid, writable, store, failed, setNow, attempted, now, events,
                   pre, writes, escapes>>

Next ==
    \/ BeginWrite
    \/ \E o \in 1 .. MaxOffset :
        \/ \E s \in Slot, start \in Start : Set(s, start, o)
        \/ \E s \in Slot : Copy(s, o) \/ MakeWritable(s, o)
        \/ EndWrite(o)

Spec == Init /\ [][Next]_vars

----------------------------------------------------------------------------
(* Properties *)

(* A start is held exactly, or its distance did not fit in the stream. *)
Holds(s, start) ==
    \/ store[s] = start
    \/ store[s] = Past /\ base - start >= Sentinel

(***************************************************************************)
(* Races are resolved: whether a slot is valid and whether it is locked    *)
(* after the events of an offset depends on which events there were, not   *)
(* on their order.  A write and the escape that allows it, in either       *)
(* order, leave the slot written and locked again (the stashed attempts    *)
(* and the set-now marks of handleSomInternal), and marks left by another  *)
(* offset, call or stream play no part.                                    *)
(***************************************************************************)
LocksExact ==
    \A s \in Slot : /\ (s \in valid) = IdealSlot(s).valid
                    /\ (s \in writable) = IdealSlot(s).writable

(***************************************************************************)
(* The start a slot holds does not depend on the order in which the writes *)
(* and the escape of an offset came: of the starts offered at the last     *)
(* offset that could write it, it is the earliest that is known, and       *)
(* SOM_SENTINEL_LARGE if all of them were past the horizon.  Stream writes *)
(* keep it, or turn it into SOM_SENTINEL_LARGE when it falls behind the    *)
(* horizon, and never into a wrong offset (setSomLoc, LIMIT_TO_AT_MOST,    *)
(* storeSomValue, loadSomValue).                                           *)
(***************************************************************************)
StartExact ==
    \A s \in valid :
        IF Parent[s] # NoParent /\ Taken(s)
        THEN \E w \in writes[s] : Holds(s, w)
        ELSE Holds(s, IdealSlot(s).start)

====
