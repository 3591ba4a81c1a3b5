--------------------------- MODULE DelayedLiterals ---------------------------
(***************************************************************************)
(* Rose replays literal programs in offset order although it does not find *)
(* the literals in that order: the anchored table runs ahead of the        *)
(* floating one and logs what it finds (al_log_sum and its rows), and a    *)
(* floating literal can ask to be replayed some bytes later through a ring *)
(* of delay slots (filledDelayedSlots).  Both are flushed before every     *)
(* later literal.  At the end of a stream write the ring is thrown away    *)
(* and rebuilt in the next write from the history buffer.  The module      *)
(* follows roseStreamExec; block mode is its single write at offset zero.  *)
(***************************************************************************)
EXTENDS Integers, Sequences, FiniteSets, FiniteSetsExt, SequencesExt

CONSTANTS
    SlotCount,          \* DELAY_SLOT_COUNT
    Lit,                \* literals of the floating table
    Anch,               \* literals of the anchored table
    Delay,              \* Delay[l]: bytes after which l is replayed, 0 if never
    LitLen,             \* length of a floating literal
    FloatMin,           \* floatingMinLiteralMatchOffset
    AnchoredDistance,   \* region the anchored table runs over
    HistoryRequired,    \* bytes of history a stream keeps
    MaxDelayedMatch,    \* maxFloatingDelayedMatch, Inf for ROSE_BOUND_INF
    Inf,
    MaxOffset,          \* bound: bytes of the stream
    MaxHits             \* bound: literals found in the stream

ASSUME SlotAssumption == SlotCount \in Nat \ {0}
ASSUME LiteralAssumption ==
    /\ IsFiniteSet(Lit \cup Anch) /\ Lit \cap Anch = {}
    /\ Delay \in [Lit -> 0 .. SlotCount - 1]
    /\ LitLen \in [Lit -> Nat \ {0}]
ASSUME LayoutAssumption ==
    /\ {FloatMin, AnchoredDistance, HistoryRequired, MaxOffset, MaxHits} \subseteq Nat
    /\ MaxDelayedMatch \in Nat \cup {Inf}
    /\ Inf \notin Nat

\* What calcHistoryRequired makes sure of: the history of a stream holds every
\* literal that can still be due, from its first byte.
ASSUME HistoryAssumption ==
    \A l \in Lit : Delay[l] > 0 => LitLen[l] + Delay[l] - 1 <= HistoryRequired

VARIABLES
    pc,         \* where roseStreamExec is
    offset,     \* bytes of the earlier writes (core_info.buf_offset)
    len,        \* bytes of this write
    filled,     \* tctxt->filledDelayedSlots
    slot,       \* the delay slots; a slot that is not filled keeps old content
    delayLast,  \* tctxt->delayLastEndOffset
    lastEnd,    \* tctxt->lastEndOffset
    logSum,     \* scratch->al_log_sum: bit b is set for offset b + 1
    row,        \* the anchored literal log, one row per bit
    victims,    \* flush: victimDelaySlots not yet played
    anchIt,     \* flush: anchored_it
    flushTo,    \* flush: currEnd
    hit,        \* the literal roseCallback_i is called for
    dirty,      \* STATUS_DELAY_DIRTY of the stream
    lastByte,   \* roles that are kept for the last byte only
    stopped,    \* a program returned HWLM_TERMINATE_MATCHING
    found,      \* history: literals found, as <<literal, end offset>>
    out         \* history: programs run, as <<literal, offset, delayed>>

ring == <<filled, slot>>
log == <<logSum, row>>
flush == <<victims, anchIt, flushTo>>
vars == <<pc, offset, len, ring, delayLast, lastEnd, log, flush, hit, dirty,
          lastByte, stopped, found, out>>

NoHit == <<>>
Invalid == -1               \* MMB_INVALID
End == offset + len
DelayIndex_NoMask(n) == n   \* Fault: the slot index is not masked

DelayIndex(n) == n % SlotCount                      \* n & DELAY_MASK
SlotBase(n) == n - (n % SlotCount)                  \* n & ~DELAY_MASK
DelayRebuildLength == Max({0} \cup {LitLen[l] + Delay[l] - 1 : l \in {x \in Lit : Delay[x] > 0}})

TypeOK ==
    /\ pc \in {"idle", "anchored", "rebuild", "floating", "flush", "literal", "cleanup"}
    /\ offset \in 0 .. MaxOffset
    /\ len \in 0 .. MaxOffset
    /\ filled \subseteq 0 .. SlotCount - 1
    /\ slot \in [0 .. SlotCount - 1 -> SUBSET Lit]
    /\ delayLast \in 0 .. MaxOffset
    /\ lastEnd \in 0 .. MaxOffset
    /\ logSum \subseteq 0 .. AnchoredDistance - 1
    /\ row \in [0 .. AnchoredDistance - 1 -> SUBSET Anch]
    /\ victims \subseteq 0 .. 2 * SlotCount - 1
    /\ anchIt \in Invalid .. AnchoredDistance - 1
    /\ flushTo \in 0 .. MaxOffset
    /\ hit \in {NoHit} \cup Lit \X (1 .. MaxOffset)
    /\ dirty \in BOOLEAN /\ stopped \in BOOLEAN
    /\ lastByte \subseteq Lit \cup Anch
    /\ found \subseteq (Lit \cup Anch) \X (1 .. MaxOffset)

Init ==
    /\ pc = "idle" /\ offset = 0 /\ len = 0
    /\ filled = {} /\ slot = [i \in 0 .. SlotCount - 1 |-> {}]
    /\ delayLast = 0 /\ lastEnd = 0
    /\ logSum = {} /\ row = [b \in 0 .. AnchoredDistance - 1 |-> {}]
    /\ victims = {} /\ anchIt = Invalid /\ flushTo = 0 /\ hit = NoHit
    /\ dirty = FALSE /\ lastByte = {} /\ stopped = FALSE
    /\ found = {} /\ out = <<>>

-----------------------------------------------------------------------------
(***************************************************************************)
(* Helpers of the runtime.                                                 *)
(***************************************************************************)

FlushLastByte_Always(at) == \* Fault: also drops what was set at the last byte
    IF at = End THEN {} ELSE lastByte

\* roseFlushLastByteHistory: the roles are dropped once, when the scan first
\* reaches the end of the data of this write.
FlushLastByte(at) ==
    IF lastEnd # End /\ at = End THEN {} ELSE lastByte

TooLate_Never(h) == FALSE \* Fault: replays what the write before played

\* rosePushDelayedMatch for the literals in ls, found at their ends: each goes
\* to the slot of the offset it is due at, unless that was played already.  A
\* slot that was not filled is cleared first.
TooLate(h) == h[2] + Delay[h[1]] <= delayLast

Pushed_NoClear(hs) == \* Fault: fatbit_clear of the slot forgotten
    LET due == {h \in hs : Delay[h[1]] > 0 /\ ~TooLate(h)}
        at(h) == DelayIndex(h[2] + Delay[h[1]])
    IN  /\ filled' = filled \cup {at(h) : h \in due}
        /\ slot' = [i \in DOMAIN slot |->
                     slot[i] \cup {h[1] : h \in {x \in due : at(x) = i}}]

Pushed(hs) ==
    LET due == {h \in hs : Delay[h[1]] > 0 /\ ~TooLate(h)}
        at(h) == DelayIndex(h[2] + Delay[h[1]])
        used == {at(h) : h \in due}
    IN  /\ filled' = filled \cup used
        /\ slot' = [i \in DOMAIN slot |->
                     IF i \in used
                     THEN {h[1] : h \in {x \in due : at(x) = i}}
                          \cup (IF i \in filled THEN slot[i] ELSE {})
                     ELSE slot[i]]

\* Runs the programs of ids one after the other at offset at; each sets its
\* role, and the application may stop the scan in any of them.
Play(ids, at, delayed, roles) ==
    LET order == SetToSeq(ids)
    IN  \E stop \in BOOLEAN, k \in 1 .. Len(order) :
        /\ stop \/ k = Len(order)
        /\ out' = out \o [i \in 1 .. k |-> <<order[i], at, delayed>>]
        /\ lastByte' = roles \cup {order[i] : i \in 1 .. k}
        /\ stopped' = stop

\* bf64_iterate: the first bit above b.
NextBit(b) ==
    LET above == {x \in logSum : x > b}
    IN  IF above = {} THEN Invalid ELSE Min(above)

\* anchored_it_begin
AnchoredBegin ==
    IF lastEnd >= AnchoredDistance THEN Invalid ELSE NextBit(lastEnd - 1)

-----------------------------------------------------------------------------
(***************************************************************************)
(* A stream write: roseStreamExec.                                         *)
(***************************************************************************)
roseStreamExec(n) ==
    /\ pc = "idle" /\ ~stopped
    /\ offset + n <= MaxOffset
    /\ pc' = "anchored"
    /\ len' = n
    /\ delayLast' = offset /\ lastEnd' = offset
    /\ filled' = {} /\ logSum' = {}
    /\ UNCHANGED <<offset, slot, row, flush, hit, dirty, lastByte, stopped, found, out>>

\* The anchored table is one automaton that matches in order, or several that
\* run one after the other; then FloatMin is 1 (findMinFloatingLiteralMatch).
AnchoredNext(e) ==
    \/ FloatMin <= 1
    \/ \A h \in found : (h[1] \in Anch /\ h[2] > offset) => h[2] <= e

\* roseAnchoredCallback: a match before any floating literal can occur runs its
\* program now, a later one is logged (ANCHORED_DELAY,
\* recordAnchoredLiteralMatch; a row that had no bit is cleared first).
roseAnchoredCallback(a, e) ==
    /\ pc = "anchored" /\ ~stopped
    /\ <<a, e>> \notin found /\ Cardinality(found) < MaxHits
    /\ AnchoredNext(e)
    /\ found' = found \cup {<<a, e>>}
    /\ \/ /\ e <= FloatMin
          /\ lastEnd' = e
          /\ Play({a}, e, FALSE, FlushLastByte(e))
          /\ UNCHANGED log
       \/ /\ e > FloatMin
          /\ logSum' = logSum \cup {e - 1}
          /\ row' = [row EXCEPT ![e - 1] = {a} \cup (IF e - 1 \in logSum THEN @ ELSE {})]
          /\ UNCHANGED <<lastEnd, lastByte, stopped, out>>
    /\ UNCHANGED <<pc, offset, len, ring, delayLast, flush, hit, dirty>>

AnchoredDone ==
    /\ pc = "anchored"
    /\ pc' = IF stopped THEN "idle" ELSE "rebuild"
    /\ UNCHANGED <<offset, len, ring, delayLast, lastEnd, log, flush, hit, dirty,
                   lastByte, stopped, found, out>>

HistoryLength == Min({offset, HistoryRequired})
RebuildLength == Min({HistoryLength, DelayRebuildLength})

InRebuild_Short(h) == \* Fault: rebuilds over one byte less
    /\ h[1] \in Lit
    /\ h[2] <= offset
    /\ h[2] - LitLen[h[1]] > offset - RebuildLength

\* The rebuild matcher sees the literals that lie in the last RebuildLength
\* bytes of the history.
InRebuild(h) ==
    /\ h[1] \in Lit
    /\ h[2] <= offset
    /\ h[2] - LitLen[h[1]] >= offset - RebuildLength

NeedRebuild ==
    /\ HistoryLength > 0
    /\ dirty
    /\ IF MaxDelayedMatch = Inf THEN TRUE ELSE offset < MaxDelayedMatch

\* do_rebuild with roseDelayRebuildCallback for every literal in the history.
Rebuild ==
    /\ pc = "rebuild"
    /\ pc' = "floating"
    /\ \/ /\ NeedRebuild
          /\ dirty' = FALSE
          /\ Pushed({h \in found : InRebuild(h)})
       \/ /\ ~NeedRebuild
          /\ UNCHANGED <<ring, dirty>>
    /\ UNCHANGED <<offset, len, delayLast, lastEnd, log, flush, hit, lastByte,
                   stopped, found, out>>

-----------------------------------------------------------------------------
(***************************************************************************)
(* flushQueuedLiterals: replay what is due up to an offset.                *)
(***************************************************************************)

\* The slots to play, as numbers below 2 * SlotCount so that the second lap of
\* the ring sorts after the first, and the slots that stay filled.
Wrapped(to) == SlotBase(delayLast) + SlotCount - 1 < to

Victims_OneLap(to) == \* Fault: the second lap is not told from the first
    LET li == DelayIndex(delayLast)
        ci == DelayIndex(to)
        first == {i \in filled : i > li}
        lap == {i \in filled : i <= li /\ (to > delayLast + SlotCount \/ i <= ci)}
    IN  IF Wrapped(to) THEN first \cup lap
        ELSE {i \in first : i <= ci}

Victims(to) ==
    LET li == DelayIndex(delayLast)
        ci == DelayIndex(to)
        first == {i \in filled : i > li}
        lap == {i \in filled : i <= li /\ (to > delayLast + SlotCount \/ i <= ci)}
    IN  IF Wrapped(to) THEN first \cup {i + SlotCount : i \in lap}
        ELSE {i \in first : i <= ci}

\* The beginning of a flush; with nothing queued it only notes the offset.
BeginFlush(to) ==
    /\ flushTo' = to
    /\ IF delayLast = to \/ (filled = {} /\ logSum = {})
       THEN /\ victims' = {} /\ anchIt' = Invalid
            /\ UNCHANGED filled
       ELSE /\ victims' = Victims(to)
            /\ anchIt' = AnchoredBegin
            /\ filled' = filled \ {DelayIndex(v) : v \in Victims(to)}

VictimOffset(v) == v + SlotBase(delayLast)
NextVictim == Min(victims)

\* flushAnchoredLiteralAtLoc, before the next delay slot.
FlushAnchored ==
    /\ pc = "flush" /\ ~stopped
    /\ anchIt # Invalid
    /\ anchIt < IF victims # {} THEN VictimOffset(NextVictim) ELSE flushTo
    /\ lastEnd' = anchIt + 1
    /\ Play(row[anchIt], anchIt + 1, FALSE, FlushLastByte(anchIt + 1))
    /\ logSum' = IF stopped' THEN logSum ELSE logSum \ {anchIt}
    /\ anchIt' = NextBit(anchIt)
    /\ UNCHANGED <<pc, offset, len, ring, delayLast, row, victims, flushTo, hit,
                   dirty, found>>

\* playDelaySlot; a slot before the first floating match is dropped.
PlayDelaySlot ==
    /\ pc = "flush" /\ ~stopped
    /\ victims # {}
    /\ anchIt = Invalid \/ anchIt >= VictimOffset(NextVictim)
    /\ victims' = victims \ {NextVictim}
    /\ LET at == VictimOffset(NextVictim)
       IN  \/ /\ at < FloatMin
              /\ UNCHANGED <<lastEnd, lastByte, stopped, out>>
           \/ /\ at >= FloatMin
              /\ lastEnd' = at
              /\ Play(slot[DelayIndex(NextVictim)], at, TRUE, FlushLastByte(at))
    /\ UNCHANGED <<pc, offset, len, ring, delayLast, log, anchIt, flushTo, hit,
                   dirty, found>>

FlushOver_AllRows == victims = {} /\ anchIt = Invalid \* Fault: waits for later rows

FlushOver == victims = {} /\ (anchIt = Invalid \/ anchIt >= flushTo)

-----------------------------------------------------------------------------
(***************************************************************************)
(* Floating literals, in the order in which the matcher finds them.        *)
(***************************************************************************)
FloatingNext(e) == \A h \in found : h[1] \in Lit => h[2] <= e

\* roseCallback_i up to the flush
roseCallback(l, e) ==
    /\ pc = "floating"
    /\ <<l, e>> \notin found /\ Cardinality(found) < MaxHits
    /\ FloatingNext(e) /\ LitLen[l] <= e
    /\ found' = found \cup {<<l, e>>}
    /\ hit' = <<l, e>>
    /\ pc' = "flush"
    /\ BeginFlush(e)
    /\ UNCHANGED <<offset, len, slot, delayLast, lastEnd, log, dirty, lastByte,
                   stopped, out>>

\* The end of a flush that the application did not stop.
FlushDone ==
    /\ pc = "flush" /\ ~stopped /\ FlushOver
    /\ delayLast' = flushTo
    /\ pc' = IF hit = NoHit THEN "cleanup" ELSE "literal"
    /\ UNCHANGED <<offset, len, ring, lastEnd, log, flush, hit, dirty, lastByte,
                   stopped, found, out>>

\* roseProcessMatchInline: PUSH_DELAYED, then CHECK_LIT_EARLY, then the roles.
LiteralProgram ==
    /\ pc = "literal"
    /\ Pushed({hit})
    /\ LET e == hit[2]
       IN  \/ /\ e < FloatMin
              /\ UNCHANGED <<lastEnd, lastByte, stopped, out>>
           \/ /\ e >= FloatMin
              /\ lastEnd' = e
              /\ Play({hit[1]}, e, FALSE, FlushLastByte(e))
    /\ pc' = IF stopped' THEN "idle" ELSE "floating"
    /\ hit' = NoHit
    /\ UNCHANGED <<offset, len, delayLast, log, flush, dirty, found>>

\* A program of the flush ended the scan.  The context is reset by the next scan
\* and the stream is never written again, so what they hold is not followed.
FlushStopped ==
    /\ pc = "flush" /\ stopped
    /\ pc' = "idle" /\ hit' = NoHit
    /\ UNCHANGED <<offset, len, ring, delayLast, lastEnd, log, flush, dirty,
                   lastByte, stopped, found, out>>

\* The matcher has seen the whole write: cleanUpDelayed begins its flush.
FloatingDone ==
    /\ pc = "floating"
    /\ pc' = "flush"
    /\ BeginFlush(End)
    /\ UNCHANGED <<offset, len, slot, delayLast, lastEnd, log, hit, dirty,
                   lastByte, stopped, found, out>>

\* The rest of cleanUpDelayed and ensureStreamNeatAndTidy.
CleanUp ==
    /\ pc = "cleanup"
    /\ dirty' = (filled # {})
    /\ filled' = {}
    /\ delayLast' = offset
    /\ lastByte' = FlushLastByte(End)
    /\ lastEnd' = End
    /\ offset' = End
    /\ len' = 0
    /\ pc' = "idle"
    /\ UNCHANGED <<slot, log, flush, hit, stopped, found, out>>

WriteStep ==
    \/ \E a \in Anch, e \in offset + 1 .. Min({End, AnchoredDistance}) :
           roseAnchoredCallback(a, e)
    \/ AnchoredDone
    \/ Rebuild
    \/ \E l \in Lit, e \in offset + 1 .. End : roseCallback(l, e)
    \/ FlushAnchored \/ PlayDelaySlot \/ FlushDone \/ FlushStopped
    \/ LiteralProgram
    \/ FloatingDone
    \/ CleanUp

Next ==
    \/ \E n \in 1 .. MaxOffset : roseStreamExec(n)
    \/ WriteStep

Spec == Init /\ [][Next]_vars

-----------------------------------------------------------------------------
(***************************************************************************)
(* Properties.                                                             *)
(***************************************************************************)

\* Programs run in the order of the offsets they match at, however the log, the
\* ring and the direct matches interleave and wherever the data is cut.
ReplayInOrder ==
    \A i \in 1 .. Len(out) - 1 : out[i][2] <= out[i + 1][2]

\* What one scan of all the data would run up to offset o.
Expected(o) ==
    {<<h[1], h[2], FALSE>> : h \in {x \in found : x[2] <= o /\ (x[1] \in Anch \/ x[2] >= FloatMin)}}
    \cup
    {<<h[1], h[2] + Delay[h[1]], TRUE>> :
        h \in {x \in found : x[1] \in Lit /\ Delay[x[1]] > 0 /\ x[2] + Delay[x[1]] \in FloatMin .. o}}

InBound(p) == MaxDelayedMatch = Inf \/ ~p[3] \/ p[2] <= MaxDelayedMatch

\* Between two writes every literal found so far and due by now has run once,
\* also a delayed one whose delay spans writes (within the offset up to which
\* delayed literals can match).
ReplayExact ==
    (pc = "idle" /\ ~stopped) =>
        /\ {p \in ToSet(out) : InBound(p)} = {p \in Expected(offset) : InBound(p)}
        /\ IsInjective(out)

\* Between two writes the last-byte roles are those of the programs that ran at
\* the last offset: what an end-of-data program may rely on.
LastByteExact ==
    (pc = "idle" /\ ~stopped) =>
        lastByte = {p[1] : p \in {x \in ToSet(out) : x[2] = offset}}
=============================================================================
