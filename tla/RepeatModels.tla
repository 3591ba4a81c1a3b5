---------------------------- MODULE RepeatModels ----------------------------
(***************************************************************************)
(* The bounded-repeat representations of nfa/repeat.c and nfa/repeat.h.    *)
(*                                                                         *)
(* A bounded repeat {min,max} is told the offsets at which it is entered   *)
(* (its "tops") and is asked whether an offset lies between min and max    *)
(* bytes after a top.  Six representations answer from different state: a  *)
(* ring of bits (RING), a list of offsets thinned as it grows (RANGE), one *)
(* word of tops (BITMAP), one word of past matches (TRAILER), and a single *)
(* offset (FIRST, LAST).  Between stream writes the control block is       *)
(* packed relative to the current offset and cut at a horizon.             *)
(*                                                                         *)
(* Everything here is a pure operator of a repeat r (type, min, max) and   *)
(* its state c; a set of small integers stands for a multibit or a word.   *)
(* The sparse and the always-on representations are not modelled.          *)
(***************************************************************************)
EXTENDS Integers, Sequences, FiniteSets, FiniteSetsExt

CONSTANTS
    WordBits,   \* bits in the word of BITMAP and TRAILER (64 in the code)
    Inf         \* REPEAT_INF, the upper bound of an unbounded repeat

WordAssumption == WordBits \in Nat \ {0} /\ Inf \in Nat

Bits == 0 .. WordBits - 1

ShiftUp(bits, n) == {b + n : b \in bits} \cap Bits

ShiftDown(bits, n) == {b - n : b \in {x \in bits : x >= n}}

(***************************************************************************)
(* RING: one bit for each of the last max + 1 offsets.                     *)
(***************************************************************************)
ringCapacity(r) == r.max + 1

Wrap(r, i) == IF i >= ringCapacity(r) THEN i - ringCapacity(r) ELSE i

ringOccupancy(r, c) ==
    IF c.last > c.first THEN c.last - c.first
    ELSE ringCapacity(r) - (c.first - c.last)

ringLastTop(r, c) == c.offset + ringOccupancy(r, c) - 1

ringIsStale(r, c, o) == o - ringLastTop(r, c) >= ringCapacity(r)

storeInitialRingTop(o) == [offset |-> o, first |-> 0, last |-> 1, bits |-> {0}]

\* The bits between the last top and the new one, which held older tops.
Gap(r, c, n) == {Wrap(r, c.last + k) : k \in 0 .. n - 1}

repeatStoreRing(r, c, o, alive) ==
    IF ~alive \/ ringIsStale(r, c, o) THEN storeInitialRingTop(o)
    ELSE LET push   == Max({0, o - c.offset - ringCapacity(r) + 1})
             offset == c.offset + push
             n      == (o - offset) - (ringOccupancy(r, c) - push)
             i      == Wrap(r, c.last + n)
         IN [offset |-> offset,
             first  |-> Wrap(r, c.first + push),
             last   |-> Wrap(r, i + 1),
             bits   |-> (c.bits \ Gap(r, c, n)) \cup {i}]

\* The logical indices lower .. of the bits set between begin and the last
\* top, the wrapped part scanned second.
RingHits(r, c, lower) ==
    LET begin == Wrap(r, c.first + lower)
        end   == IF begin >= c.last THEN ringCapacity(r) ELSE c.last
    IN {i - begin + lower : i \in {b \in c.bits : begin <= b /\ b < end}}
       \cup IF begin >= c.last
            THEN {i + (ringCapacity(r) - begin) + lower :
                     i \in {b \in c.bits : b < c.last}}
            ELSE {}

repeatNextMatchRing(r, c, o) ==
    LET delta == o + 1 - c.offset
        hits  == RingHits(r, c, Max({0, delta - r.max}))
    IN IF delta < r.min THEN c.offset + r.min
       ELSE IF o + 1 > ringLastTop(r, c) + r.max \/ hits = {} THEN 0
       ELSE Max({o + 1, c.offset + Min(hits) + r.min})

\* Whether a bit is set at a logical index in lower .. upper - 1.
ringHasMatch(r, c, lower, upper) ==
    \E k \in lower .. upper - 1 : Wrap(r, c.first + k) \in c.bits

repeatHasMatchRing(r, c, o) ==
    LET delta == o - c.offset
        lower == Max({0, delta - r.max})
        upper == Min({delta - r.min + 1, ringOccupancy(r, c)})
    IN IF delta < r.min THEN "NOMATCH"
       ELSE IF ringIsStale(r, c, o) THEN "STALE"
       ELSE IF lower < upper /\ ringHasMatch(r, c, lower, upper) THEN "MATCH"
       ELSE "NOMATCH"

(***************************************************************************)
(* RANGE: a list of offsets relative to the first.  The last entry is      *)
(* replaced when its windows and the new one's already overlap.            *)
(***************************************************************************)
rangeListCapacity(r) == 2 * ((r.max \div (r.max - r.min)) + 1)

storeInitialRangeTop(o) == [offset |-> o, list |-> <<0>>]

\* Fault: the list is never thinned.
Covered_Never(r, c, o) == FALSE

\* Whether the last top can be forgotten: the one before it and the new one
\* leave no gap between their windows.
Covered(r, c, o) ==
    LET n == Len(c.list)
    IN n >= 2 /\ o - (c.offset + c.list[n - 1]) <= r.max - r.min

repeatStoreRange(r, c, o, alive) ==
    LET live == {i \in DOMAIN c.list : o - (c.offset + c.list[i]) <= r.max}
        from == Min(live)
        kept == [offset |-> c.offset + c.list[from],
                 list   |-> [i \in 1 .. Len(c.list) - from + 1 |->
                               c.list[from + i - 1] - c.list[from]]]
        rel  == o - kept.offset
    IN IF ~alive \/ live = {} THEN storeInitialRangeTop(o)
       ELSE IF Covered(r, kept, o)
            THEN [kept EXCEPT !.list[Len(kept.list)] = rel]
            ELSE [kept EXCEPT !.list = Append(@, rel)]

repeatLastTopRange(r, c) == c.offset + c.list[Len(c.list)]

repeatNextMatchRange(r, c, o) ==
    LET ahead == {i \in DOMAIN c.list : o < c.offset + c.list[i] + r.max
                                     \/ o < c.offset + c.list[i] + r.min}
        top   == c.offset + c.list[Min(ahead)]
    IN IF ahead = {} THEN 0
       ELSE IF o < top + r.min THEN top + r.min ELSE o + 1

repeatHasMatchRange(r, c, o) ==
    IF o - c.offset < r.min THEN "NOMATCH"
    ELSE IF o - repeatLastTopRange(r, c) > r.max THEN "STALE"
    ELSE IF \E i \in DOMAIN c.list : o - (c.offset + c.list[i]) \in r.min .. r.max
         THEN "MATCH" ELSE "NOMATCH"

(***************************************************************************)
(* BITMAP: one word, bit b being a top at offset + b.                      *)
(***************************************************************************)
repeatLastTopBitmap(r, c) == IF c.bits = {} THEN 0 ELSE c.offset + Max(c.bits)

repeatStoreBitmap(r, c, o, alive) ==
    IF ~alive \/ c.bits = {} \/ o > repeatLastTopBitmap(r, c) + r.max
    THEN [offset |-> o, bits |-> {0}]
    ELSE LET push == Max({0, o - c.offset - r.max})
         IN [offset |-> c.offset + push,
             bits   |-> ShiftDown(c.bits, push)
                        \cup ({o - c.offset - push} \cap Bits)]

repeatNextMatchBitmap(r, c, o) ==
    LET ahead == {b \in c.bits : o < c.offset + b + r.max
                               \/ o < c.offset + b + r.min}
        top   == c.offset + Min(ahead)
    IN IF ahead = {} THEN 0
       ELSE IF o < top + r.min THEN top + r.min ELSE o + 1

repeatHasMatchBitmap(r, c, o) ==
    IF c.bits = {} THEN "STALE"
    ELSE IF o - c.offset < r.min THEN "NOMATCH"
    ELSE IF o - repeatLastTopBitmap(r, c) > r.max THEN "STALE"
    ELSE IF \E b \in c.bits : o - (c.offset + b) \in r.min .. r.max
         THEN "MATCH" ELSE "NOMATCH"

(***************************************************************************)
(* TRAILER: the window of the latest top starts at offset; bit b of the    *)
(* word is an earlier match at offset - b - 1.                             *)
(***************************************************************************)
\* Fault: the window left behind is placed one byte too far back.
Trail_Flush(r, c, diff) ==
    ShiftUp(c.bits, diff)
       \cup ShiftUp((0 .. r.max - r.min) \cap Bits, Max({0, diff - (r.max - r.min)}))

\* Earlier matches once the window moves up by diff: those already known and
\* those of the window left behind.
Trail(r, c, diff) ==
    LET width == r.max - r.min
    IN ShiftUp(c.bits, diff)
       \cup IF diff <= width THEN (0 .. diff - 1) \cap Bits
            ELSE ShiftUp((0 .. width) \cap Bits, diff - width - 1)

repeatStoreTrailer(r, c, o, alive) ==
    IF ~alive THEN [offset |-> o + r.min, bits |-> {}]
    ELSE [offset |-> o + r.min,
          bits   |-> {b \in Trail(r, c, o + r.min - c.offset) : b <= r.min}]

repeatLastTopTrailer(r, c) == c.offset - r.min

repeatNextMatchTrailer(r, c, o) ==
    LET earlier == {b \in c.bits : b < c.offset - o - 1}
    IN IF o >= c.offset + (r.max - r.min) THEN 0
       ELSE IF o >= c.offset THEN o + 1
       ELSE IF earlier # {} THEN c.offset - Max(earlier) - 1
       ELSE c.offset

repeatHasMatchTrailer(r, c, o) ==
    IF o > c.offset + (r.max - r.min) THEN "STALE"
    ELSE IF \/ o >= c.offset
            \/ o >= c.offset - r.min /\ c.offset - o - 1 \in c.bits
         THEN "MATCH" ELSE "NOMATCH"

(***************************************************************************)
(* FIRST and LAST: one offset, the first top of an unbounded repeat or the *)
(* latest of one that needs no other.                                      *)
(***************************************************************************)
repeatStoreFirst(r, c, o, alive) == IF alive THEN c ELSE [offset |-> o]

repeatStoreLast(r, c, o, alive) == [offset |-> o]

repeatNextMatchOffset(r, c, o) ==
    IF o < c.offset + r.min THEN c.offset + r.min
    ELSE IF r.max = Inf \/ o < c.offset + r.max THEN o + 1
    ELSE 0

repeatHasMatchFirst(r, c, o) ==
    IF o < c.offset + r.min THEN "NOMATCH" ELSE "MATCH"

repeatHasMatchLast(r, c, o) ==
    IF o < c.offset + r.min THEN "NOMATCH"
    ELSE IF o <= c.offset + r.max THEN "MATCH" ELSE "STALE"
-----------------------------------------------------------------------------
(***************************************************************************)
(* The calls the engines make, by repeat type.                             *)
(***************************************************************************)
repeatStore(r, c, o, alive) ==
    CASE r.type = "RING"    -> repeatStoreRing(r, c, o, alive)
      [] r.type = "RANGE"   -> repeatStoreRange(r, c, o, alive)
      [] r.type = "BITMAP"  -> repeatStoreBitmap(r, c, o, alive)
      [] r.type = "TRAILER" -> repeatStoreTrailer(r, c, o, alive)
      [] r.type = "FIRST"   -> repeatStoreFirst(r, c, o, alive)
      [] r.type = "LAST"    -> repeatStoreLast(r, c, o, alive)

repeatLastTop(r, c) ==
    CASE r.type = "RING"    -> ringLastTop(r, c)
      [] r.type = "RANGE"   -> repeatLastTopRange(r, c)
      [] r.type = "BITMAP"  -> repeatLastTopBitmap(r, c)
      [] r.type = "TRAILER" -> repeatLastTopTrailer(r, c)
      [] OTHER              -> c.offset

repeatNextMatch(r, c, o) ==
    CASE r.type = "RING"    -> repeatNextMatchRing(r, c, o)
      [] r.type = "RANGE"   -> repeatNextMatchRange(r, c, o)
      [] r.type = "BITMAP"  -> repeatNextMatchBitmap(r, c, o)
      [] r.type = "TRAILER" -> repeatNextMatchTrailer(r, c, o)
      [] OTHER              -> repeatNextMatchOffset(r, c, o)

repeatHasMatch(r, c, o) ==
    CASE r.type = "RING"    -> repeatHasMatchRing(r, c, o)
      [] r.type = "RANGE"   -> repeatHasMatchRange(r, c, o)
      [] r.type = "BITMAP"  -> repeatHasMatchBitmap(r, c, o)
      [] r.type = "TRAILER" -> repeatHasMatchTrailer(r, c, o)
      [] r.type = "FIRST"   -> repeatHasMatchFirst(r, c, o)
      [] r.type = "LAST"    -> repeatHasMatchLast(r, c, o)

\* How far back a packed offset may reach (RepeatStateInfo); a farther one is
\* stored as this far.
horizon(r) ==
    CASE r.type = "FIRST"              -> r.min
      [] r.type \in {"LAST", "TRAILER"} -> r.max + 1
      [] r.type \in {"RING", "RANGE"}   -> 2 * r.max + 1
      [] OTHER                         -> 0

storePackedRelative(r, val, o) == Min({o - val, horizon(r)})

\* The base of a packed bitmap: it is not stored, but found again from the
\* offset at which the state is unpacked.
BitmapBase(r, o) == IF o > r.max THEN o - r.max ELSE 0

repeatPackBitmap(r, c, o) ==
    LET base == BitmapBase(r, o)
    IN IF base >= c.offset THEN ShiftDown(c.bits, base - c.offset)
       ELSE ShiftUp(c.bits, c.offset - base)

\* The ring's bits and the range's entries already live in stream state: only
\* the offset is made relative.  The trailer's word is cut to its min bits.
repeatPack(r, c, o) ==
    CASE r.type = "BITMAP"  -> [bits |-> repeatPackBitmap(r, c, o)]
      [] r.type = "TRAILER" ->
            [offset |-> storePackedRelative(r, c.offset - r.min, o),
             bits   |-> {b \in c.bits : b < r.min}]
      [] OTHER -> [c EXCEPT !.offset = storePackedRelative(r, @, o)]

repeatUnpack(r, p, o) ==
    CASE r.type = "BITMAP"  -> [offset |-> BitmapBase(r, o), bits |-> p.bits]
      [] r.type = "TRAILER" -> [p EXCEPT !.offset = o - @ + r.min]
      [] OTHER              -> [p EXCEPT !.offset = o - @]
=============================================================================
