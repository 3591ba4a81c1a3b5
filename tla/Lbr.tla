-------------------------------- MODULE Lbr ---------------------------------
(***************************************************************************)
(* The large-bounded-repeat engines (nfa/lbr.c, nfa/lbr_common_impl.h): an *)
(* engine is one bounded repeat of a character class, .{min,max} after a   *)
(* trigger.  Rose queues the offsets of the trigger (tops) and has the     *)
(* queue executed: to the end with a callback at each match (Q), to the    *)
(* next match (Q2), or silently, asking whether the engine accepts at the  *)
(* end (QR, an infix, whose state may lag into the history buffer).  A     *)
(* byte outside the class, an escape, kills the repeat.  Between the       *)
(* writes of a stream the state is packed into the stream.                 *)
(*                                                                         *)
(* The loop of each call takes one step per queue item or callback, so     *)
(* that what is reported can be compared at every item with what the       *)
(* regular expression says.                                                *)
(***************************************************************************)
EXTENDS RepeatModels

CONSTANTS
    Repeats,     \* the repeats checked, each with its type and bounds
    Modes,       \* the ways Rose runs them: "Q", "Q2" or "QR"
    MaxOffset,   \* bound: bytes of the stream
    MaxEscapes,  \* bound: escape bytes in the stream
    MaxItems,    \* bound: items of one queue
    MaxWrites,   \* bound: writes of the stream
    MaxLag       \* bound: bytes an infix lags behind its write

(* Assumed of the constants. *)
LbrAssumption ==
    /\ WordAssumption
    /\ \A r \in Repeats :
          /\ r.type \in {"RING", "RANGE", "BITMAP", "TRAILER", "FIRST", "LAST"}
          /\ r.min \in 1 .. r.max
          /\ r.type = "FIRST" <=> r.max = Inf
          /\ r.type = "RANGE" => r.min < r.max
          /\ r.type = "BITMAP" => r.max < WordBits
          /\ r.type = "TRAILER" => r.min <= WordBits
    /\ Modes \subseteq {"Q", "Q2", "QR"}
    /\ {MaxOffset, MaxEscapes, MaxItems, MaxWrites, MaxLag} \subseteq Nat

VARIABLES
    rep,         \* the engine: RepeatInfo
    mode,        \* how Rose runs it: "Q", "Q2" or "QR"
    lag,         \* bytes by which its state trails a write (QR)
    escapes,     \* the stream: offsets of the bytes that are escapes
    active,      \* the engine's bit in Rose's active array
    lstate,      \* lbr_state.ctrl, Dead when its offset is REPEAT_DEAD
    lastEscape,  \* lbr_state.lastEscape
    packed,      \* stream state: the packed control block
    base,        \* q->offset
    length,      \* q->length
    queue,       \* q->items from q->cur on
    end,         \* the end the call was given
    pos,         \* sp while a call runs, the location of MQE_START otherwise
    pc,          \* "closed", "idle", "item", "topscan", "pending", "halted"
    writes,      \* bound: writes so far
    tops,        \* history: the tops queued
    fired,       \* history: the matches reported
    answer       \* history: what the last QR call returned

stream == <<rep, mode, lag, escapes, tops>>
engine == <<lstate, lastEscape>>
vars == <<rep, mode, lag, escapes, active, lstate, lastEscape, packed, base,
          length, queue, end, pos, pc, writes, tops, fired, answer>>

Dead == [dead |-> TRUE]
Nothing == [nothing |-> TRUE]

Item(type, off) == [type |-> type, off |-> off]

IsTop(item) == item.type = "TOP"

QueueEnd == IF queue = <<>> THEN pos ELSE queue[Len(queue)].off

\* First escape of the bytes from .. to - 1, none when the result is empty
\* (lbrFwdScan*).
Escaped(from, to) == {e \in escapes : from <= e /\ e < to}

repeatIsDead == lstate = Dead

\* A state that can still match after the offset (lbrIsAlive).
lbrIsAlive(o) ==
    /\ ~repeatIsDead
    /\ rep.max = Inf \/ o < repeatLastTop(rep, lstate) + rep.max

lbrInAccept(o) == repeatHasMatch(rep, lstate, o) = "MATCH"

lbrIsActive(o) == lbrInAccept(o) \/ repeatNextMatch(rep, lstate, o) # 0

\* A top: ignored when it repeats the last one.
lbrTop(c, o) ==
    IF c # Dead /\ repeatLastTop(rep, c) = o THEN c
    ELSE repeatStore(rep, c, o, c # Dead)

Init ==
    /\ rep \in Repeats
    /\ mode \in Modes
    /\ lag \in IF mode = "QR" THEN 0 .. MaxLag ELSE {0}
    /\ escapes \in {s \in SUBSET (0 .. MaxOffset - 1) : Cardinality(s) <= MaxEscapes}
    /\ active = FALSE /\ lstate = Dead /\ lastEscape = 0
    /\ packed = Nothing
    /\ base = 0 /\ length = 0 /\ queue = <<>> /\ end = 0 /\ pos = 0
    /\ pc = "closed" /\ writes = 0
    /\ tops = {} /\ fired = {} /\ answer = "none"

\* An engine that is live from the start of the stream (_initCompressedState).
initCompressedState ==
    /\ pc = "closed" /\ writes = 0 /\ ~active
    /\ active' = TRUE /\ tops' = {0}
    /\ packed' = repeatPack(rep, lbrTop(Dead, 0), 0)
    /\ UNCHANGED <<rep, mode, lag, escapes, engine, base, length, queue, end, pos,
                   pc, writes, fired, answer>>

\* A write starts: an active engine is expanded where it was packed.
OpenWrite(n) ==
    /\ pc = "closed" /\ writes < MaxWrites /\ n >= lag
    /\ base + length + n <= MaxOffset
    /\ base' = base + length /\ length' = n /\ writes' = writes + 1
    /\ lstate' = IF active THEN repeatUnpack(rep, packed, pos) ELSE Dead
    /\ lastEscape' = 0
    /\ queue' = IF active THEN <<Item("START", pos)>> ELSE <<>>
    /\ pc' = "idle"
    /\ packed' = Nothing
    /\ UNCHANGED <<stream, active, end, pos, fired, answer>>

\* A LAST repeat is built only when a top leaves nothing of the one before
\* (is_reset).
MayTop(o) ==
    /\ o \in QueueEnd .. base + length - lag
    /\ rep.type = "LAST" => \A t \in tops \ {o} : Escaped(t, o) # {}
                                               \/ o - t > rep.max

\* Rose queues a top; an engine that was not active is initialised first.
PushTop(o) ==
    /\ pc = "idle" /\ Len(queue) < MaxItems
    /\ \A i \in DOMAIN queue : queue[i].type # "END"
    /\ MayTop(o)
    /\ tops' = tops \cup {o}
    /\ queue' = (IF active THEN queue ELSE <<Item("START", o)>>) \o <<Item("TOP", o)>>
    /\ active' = TRUE
    /\ pos' = IF active THEN pos ELSE o
    /\ IF active THEN UNCHANGED engine ELSE lstate' = Dead /\ lastEscape' = 0
    /\ answer' = "none"
    /\ UNCHANGED <<rep, mode, lag, escapes, packed, base, length, end, pc, writes,
                   fired>>

\* Rose closes the queue at x and executes it to e; later calls go on with
\* what was left.  A QR call always takes the whole queue.
Exec(x, e) ==
    /\ pc = "idle" /\ active
    /\ IF queue[Len(queue)].type = "END"
       THEN x = QueueEnd /\ queue' = Tail(queue)
       ELSE x \in QueueEnd .. base + length - lag
            /\ queue' = Append(Tail(queue), Item("END", x))
    /\ e \in pos .. x /\ (mode = "QR" => e = x)
    /\ end' = e /\ pc' = "item" /\ answer' = "none"
    /\ UNCHANGED <<stream, active, engine, packed, base, length, pos, writes,
                   fired>>

\* The control block is packed at the end of the write.
CloseWrite ==
    /\ pc = "idle"
    /\ active => Len(queue) = 1 /\ pos = base + length - lag
    /\ pos' = base + length - lag
    /\ packed' = IF active THEN repeatPack(rep, lstate, pos') ELSE Nothing
    /\ queue' = <<>> /\ lstate' = Dead /\ pc' = "closed" /\ answer' = "none"
    /\ UNCHANGED <<stream, active, lastEscape, base, length, end, writes, fired>>
-----------------------------------------------------------------------------
(***************************************************************************)
(* The loop over the queue (_Q_i, _QR).                                    *)
(***************************************************************************)
Ahead == Escaped(pos, Min({Head(queue).off, end}))

\* Where the scan from pos stops: the item, the end of the call or an escape.
ScanEnd == IF Ahead = {} THEN Min({Head(queue).off, end}) ELSE Min(Ahead)

NextMatch == repeatNextMatch(rep, lstate, pos)

\* lbrFindMatch, and one round of lbrMatchLoop: a match before the scan stops.
MatchAhead ==
    /\ queue # <<>> /\ mode # "QR" /\ ~repeatIsDead
    /\ pos < ScanEnd /\ NextMatch # 0 /\ NextMatch <= ScanEnd

\* CALLBACK_OUTPUT: the match is reported; the callback may halt matching.
FireMatch ==
    /\ pc = "item" /\ mode = "Q" /\ MatchAhead
    /\ fired' = fired \cup {NextMatch} /\ pos' = NextMatch
    /\ pc' \in {"item", "halted"}
    /\ UNCHANGED <<stream, active, engine, packed, base, length, queue, end,
                   writes, answer>>

\* STOP_AT_MATCH: the queue restarts at the match (MO_MATCHES_PENDING).
StopAtMatch ==
    /\ pc = "item" /\ mode = "Q2" /\ MatchAhead
    /\ queue' = <<Item("START", NextMatch)>> \o queue
    /\ pos' = NextMatch /\ pc' = "pending"
    /\ UNCHANGED <<stream, active, engine, packed, base, length, end, writes,
                   fired, answer>>

\* _reportCurrent: Rose has the pending match reported before it goes on.
reportCurrent ==
    /\ pc = "pending"
    /\ fired' = fired \cup {pos}
    /\ pc' \in {"idle", "halted"}
    /\ UNCHANGED <<stream, active, engine, packed, base, length, queue, end, pos,
                   writes, answer>>

\* Fault: the repeat survives an escape.
Cleared_Never(c) == c

\* Whether the scan up to the item or the end of the call met an escape.
Cleared(c) == IF c # Dead /\ Ahead # {} THEN Dead ELSE c

\* The queue restarts at the end of the call, with items left (MO_ALIVE).
Suspend(c) ==
    /\ queue' = <<Item("START", end)>> \o queue
    /\ pos' = end /\ pc' = "idle" /\ lstate' = c
    /\ UNCHANGED <<active, lastEscape, answer>>

\* An item with no match before it: past the end of the call, left to TopScan
\* when the repeat is dead, or applied.
NextItem ==
    /\ pc = "item" /\ queue # <<>> /\ ~MatchAhead
    /\ LET item == Head(queue)
           c    == Cleared(lstate)
       IN \/ item.off > end /\ Suspend(c)
          \/ /\ item.off <= end /\ c = Dead
             /\ pc' = "topscan" /\ lstate' = Dead
             /\ UNCHANGED <<active, lastEscape, queue, pos, answer>>
          \/ /\ item.off <= end /\ c # Dead
             /\ lstate' = IF IsTop(item) THEN lbrTop(c, item.off) ELSE c
             /\ pos' = item.off /\ queue' = Tail(queue)
             /\ UNCHANGED <<active, lastEscape, pc, answer>>
    /\ UNCHANGED <<stream, packed, base, length, end, writes, fired>>

\* The call is over: Rose restarts the queue here or drops the engine.
Return(alive, result) ==
    /\ active' = alive
    /\ queue' = IF alive THEN <<Item("START", pos)>> ELSE <<>>
    /\ pc' = "idle"
    /\ answer' = IF mode = "QR" THEN result ELSE "none"
    /\ end' = 0
    /\ UNCHANGED <<stream, packed, base, length, writes, fired>>

Finish ==
    /\ pc = "item" /\ queue = <<>>
    /\ IF mode = "QR"
       THEN Return(lbrIsActive(pos),
                   IF lbrInAccept(pos) THEN "match"
                   ELSE IF lbrIsActive(pos) THEN "active" ELSE "dead")
       ELSE Return(lbrIsAlive(pos), "none")
    /\ UNCHANGED <<engine, pos>>

(***************************************************************************)
(* _TopScan: a dead repeat looks for a top with no escape before its first *)
(* match.                                                                  *)
(***************************************************************************)
Candidate(item) == IsTop(item) /\ item.off >= lastEscape

\* The bytes scanned backwards from the first match of a top; a top in the
\* history buffer is taken without a scan.
Doomed(top) ==
    IF top >= base
    THEN Escaped(top, Min({end, base + length, top + rep.min}))
    ELSE {}

scanning == pc = "topscan" /\ queue # <<>> /\ Head(queue).off <= end

SkipEvent ==
    /\ scanning /\ ~Candidate(Head(queue))
    /\ queue' = Tail(queue)
    /\ UNCHANGED <<stream, active, engine, packed, base, length, end, pos, pc,
                   writes, fired, answer>>

\* The escape is kept as its place in the buffer.
DropTop ==
    /\ scanning /\ Candidate(Head(queue)) /\ Doomed(Head(queue).off) # {}
    /\ lastEscape' = Max(Doomed(Head(queue).off)) - base
    /\ queue' = Tail(queue)
    /\ UNCHANGED <<stream, active, lstate, packed, base, length, end, pos, pc,
                   writes, fired, answer>>

TakeTop ==
    /\ scanning /\ Candidate(Head(queue)) /\ Doomed(Head(queue).off) = {}
    /\ lstate' = lbrTop(Dead, Head(queue).off)
    /\ pos' = Head(queue).off /\ queue' = Tail(queue) /\ pc' = "item"
    /\ UNCHANGED <<stream, active, lastEscape, packed, base, length, end, writes,
                   fired, answer>>

\* No top left: the call is suspended when items remain, else the engine dies.
NoTop ==
    /\ pc = "topscan" /\ ~scanning
    /\ IF queue # <<>>
       THEN Suspend(Dead) /\ UNCHANGED <<stream, packed, base, length, end, writes,
                                         fired>>
       ELSE Return(FALSE, "dead") /\ pos' = end /\ UNCHANGED engine

Next ==
    \/ initCompressedState
    \/ \E n \in 1 .. MaxOffset : OpenWrite(n)
    \/ \E o \in 0 .. MaxOffset : PushTop(o)
    \/ \E x, e \in 0 .. MaxOffset : Exec(x, e)
    \/ CloseWrite
    \/ FireMatch \/ StopAtMatch \/ reportCurrent \/ NextItem \/ Finish
    \/ SkipEvent \/ DropTop \/ TakeTop \/ NoTop

Spec == Init /\ [][Next]_vars
-----------------------------------------------------------------------------
Offset == 0 .. MaxOffset

\* Every field stays in its range; in particular ring indices stay below the
\* ring's capacity (the asserts of repeatStoreRing) and a list entry is never
\* negative.
TypeOK ==
    /\ rep \in Repeats /\ mode \in Modes /\ lag \in 0 .. MaxLag
    /\ active \in BOOLEAN /\ lastEscape \in Offset
    /\ {base, length, end, pos} \subseteq Offset
    /\ pc \in {"closed", "idle", "item", "topscan", "pending", "halted"}
    /\ tops \subseteq Offset /\ fired \subseteq Offset
    /\ \A i \in DOMAIN queue : queue[i].off \in Offset
    /\ lstate # Dead /\ rep.type = "RING" =>
          /\ {lstate.first, lstate.last} \cup lstate.bits \subseteq 0 .. rep.max
    /\ lstate # Dead /\ rep.type \in {"BITMAP", "TRAILER"} => lstate.bits \subseteq Bits

\* What the regular expression says: an offset matches when it is min to max
\* bytes after a top with no escape between.
Matches ==
    {o \in 1 .. MaxOffset :
        \E t \in tops : o - t \in rep.min .. rep.max /\ Escaped(t, o) = {}}

\* The matches reported are exactly those of the expression, up to the point
\* the engine has reached and, once it is dropped as dead, altogether: no
\* representation forgets a top that still counts, keeps one that does not,
\* or changes its answer when it is packed, whatever the order of tops,
\* escapes, ends of calls and stream writes (repeat.c; _Q_i, _TopScan).
LbrExact ==
    mode # "QR" =>
       fired = {o \in Matches : ~active \/ o < pos \/ (o = pos /\ pc # "pending")}

\* An infix is told of a match exactly when one ends at the offset it asks
\* about, and that the engine is dead only when it can match no more (_QR,
\* repeatHasMatch, lbrIsActive).
AnswerExact ==
    /\ answer = "match" => pos \in Matches
    /\ answer = "active" => pos \notin Matches
    /\ answer = "dead" => \A o \in Matches : o < pos

\* The thinned list of a RANGE repeat fits the slots the compiler gave it
\* (the assert of repeatStoreRange, numRangeSlots).
RangeFits ==
    lstate # Dead /\ rep.type = "RANGE" =>
       /\ Len(lstate.list) <= rangeListCapacity(rep)
       /\ \A i \in 2 .. Len(lstate.list) : lstate.list[i - 1] < lstate.list[i]
=============================================================================
