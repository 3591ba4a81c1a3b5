---------------------------- MODULE StreamCompress ----------------------------
(***************************************************************************)
(* Compressed streams: hs_compress_stream, hs_expand_stream and            *)
(* hs_reset_and_expand_stream (stream_compress.c, stream_compress_impl.h). *)
(* The compressed form leaves out whatever the scanner will not read       *)
(* again: the states of engines that are not active, the lag of leftfixes  *)
(* that are not, the slots that are not valid, the anchored state deep in  *)
(* the stream, and history the stream does not have yet.  It is a sequence *)
(* of values without names: expanding recovers which value belongs where   *)
(* from the values it has read before.                                     *)
(*                                                                         *)
(* A stream is a function from locations to values.  What the scanner      *)
(* finds in a write is left open; how a write uses the old state is not.   *)
(***************************************************************************)
EXTENDS Integers, Sequences, FiniteSets, SequencesExt

CONSTANTS
    Streams,            \* stream handles
    Leaf,               \* queues of outfixes and suffixes
    Left,               \* queues of leftfixes that are not transient
    SomSlot,            \* SOM locations
    Source,             \* whose data a stream is given
    Garbage,            \* memory nobody has written
    HistoryRequired,    \* rose->historyRequired
    AnchoredDistance,   \* rose->anchoredDistance
    U32,                \* 2^32
    MaxOffset,          \* bound: bytes written to a stream
    MaxWrites           \* bound: writes to all streams

(* Assumed of the constants. *)
StreamAssumption ==
    /\ IsFiniteSet(Leaf) /\ IsFiniteSet(Left) /\ Leaf \cap Left = {}
    /\ IsFiniteSet(SomSlot) 
    /\ {HistoryRequired, AnchoredDistance, U32, MaxOffset, MaxWrites} \subseteq Nat
    /\ U32 > HistoryRequired

VARIABLES
    st,     \* the streams
    open,   \* handles in use
    writes, \* bound: writes so far
    buf,    \* an application buffer with a compressed stream, <<>> if none
    ideal,  \* history: the stream as if it had been copied, never compressed
    bufOf   \* history: the stream the buffer was made from

vars == <<st, open, writes, buf, ideal, bufOf>>

(* A byte of the data, and what an engine makes of it: no two are equal. *)
Byte(src, i) == <<src, i>>

(***************************************************************************)
(* Locations.  "state" stands for what is always copied as it is: status,  *)
(* roles, long-literal state and groups before the history, and the        *)
(* exhaustion, logical and combination vectors after it ("vectors").       *)
(***************************************************************************)
HistLoc == {<<"history", i>> : i \in 1 .. HistoryRequired}
Loc == {<<l>> : l \in {"offset", "state", "leaf", "left", "anchor", "vectors",
                       "somWritable", "somValid"}}
       \cup HistLoc
       \cup {<<"engine", q>> : q \in Leaf \cup Left}
       \cup {<<"lag", q>> : q \in Left}
       \cup {<<"som", s>> : s \in SomSlot}

offset(x) == x[<<"offset">>]
source(x) == x[<<"state">>][1]
active(x) == x[<<"leaf">>] \cup x[<<"left">>]

TypeOK ==
    /\ open \subseteq Streams
    /\ \A s \in Streams :
        /\ DOMAIN st[s] = Loc
        /\ offset(st[s]) \in 0 .. MaxOffset
        /\ st[s][<<"leaf">>] \subseteq Leaf
        /\ st[s][<<"left">>] \subseteq Left
        /\ st[s][<<"somValid">>] \subseteq SomSlot
        /\ st[s][<<"somWritable">>] \subseteq SomSlot

Nothing(l) ==
    CASE l[1] = "offset" -> 0
      [] l[1] \in {"leaf", "left", "somWritable", "somValid"} -> {}
      [] OTHER -> Garbage

(* Memory of a handle that is not in use. *)
Freed == [l \in Loc |-> Nothing(l)]

(* init_stream; only the bytes of history FDR looks at are initialised.    *)
init_stream(src) ==
    [Freed EXCEPT ![<<"state">>] = Byte(src, 0), ![<<"vectors">>] = Byte(src, 0)]

Init ==
    /\ st = [s \in Streams |-> Freed] /\ open = {}
    /\ ideal = [s \in Streams |-> Freed]
    /\ writes = 0 /\ buf = <<>> /\ bufOf = Freed

----------------------------------------------------------------------------
(* The layout of the compressed form *)

(* Iteration over a multibit visits its keys in order. *)
Each(f, set) == [i \in 1 .. Cardinality(set) |-> <<f, SetToSeq(set)[i]>>]

Head1 == <<<<"offset">>, <<"state">>, <<"leaf">>, <<"left">>>>

(* "the real bits of history"; the offset is narrowed to 32 bits first. *)
HistoryBytes(off) == IF off % U32 < HistoryRequired THEN off % U32 ELSE HistoryRequired

History(off) ==
    [i \in 1 .. HistoryBytes(off) |->
        <<"history", HistoryRequired - HistoryBytes(off) + i>>]

\* Fault: the anchored state is dropped one byte early.
AnchorKept_Early(off) == off < AnchoredDistance - 1

AnchorKept(off) == off <= AnchoredDistance

Anchor(off) == IF AnchorKept(off) THEN <<<<"anchor">>>> ELSE <<>>

(* COPY_LEFTFIXES: the engine state and the lag of every active leftfix. *)
Leftfixes(x) ==
    [i \in 1 .. 2 * Cardinality(x[<<"left">>]) |->
        <<IF i % 2 = 1 THEN "engine" ELSE "lag", SetToSeq(x[<<"left">>])[(i + 1) \div 2]>>]

(* COPY_SOM_INFO, once the valid bits are known. *)
SomValues(x) == Each("som", x[<<"somValid">>])

Body(x) ==
    Anchor(offset(x)) \o History(offset(x)) \o <<<<"vectors">>>>
    \o Each("engine", x[<<"leaf">>]) \o Leftfixes(x)
    \o <<<<"somWritable">>, <<"somValid">>>>

(***************************************************************************)
(* sc_compress: the values at every location of the layout.  sc_expand:    *)
(* the values of the buffer go to the same locations, worked out from the  *)
(* part of the stream that is expanded already.                            *)
(***************************************************************************)
sc_compress(x) ==
    LET layout == Head1 \o Body(x) \o SomValues(x) IN [i \in DOMAIN layout |-> x[layout[i]]]

Fill(x, layout, values) ==
    [l \in Loc |-> IF \E i \in DOMAIN layout : layout[i] = l
                   THEN values[CHOOSE i \in DOMAIN layout : layout[i] = l]
                   ELSE x[l]]

Drop(s, n) == SubSeq(s, n + 1, Len(s))

sc_expand(x, b) ==
    LET h == Fill(x, Head1, b)
        r == Drop(b, Len(Head1))
        y == Fill(h, Body(h), r)
        z == Drop(r, Len(Body(h)))
    IN Fill(y, SomValues(y), z)

----------------------------------------------------------------------------
(* Scanning and the API *)

Active(x, leaf, left) == [x EXCEPT ![<<"leaf">>] = leaf, ![<<"left">>] = left]

(***************************************************************************)
(* A write of one byte.  An engine that stays active goes on from its      *)
(* state, one that becomes active is given a new one; one that is not      *)
(* active leaves its memory alone.  The anchored table starts afresh at    *)
(* offset 0 and goes on from its state up to AnchoredDistance.             *)
(***************************************************************************)
Scanned(x, leaf, left, slots) ==
    LET b == Byte(source(x), offset(x) + 1)
        new == (leaf \cup left) \ active(x)
        y == [l \in Loc |->
                CASE l[1] = "offset" -> offset(x) + 1
                  [] l[1] \in {"state", "vectors"} -> b
                  [] l[1] = "anchor" -> IF offset(x) = 0 THEN b ELSE x[l]
                  [] l[1] = "history" -> IF l[2] = HistoryRequired THEN b
                                         ELSE x[<<"history", l[2] + 1>>]
                  [] l[1] \in {"engine", "lag"} -> IF l[2] \in new THEN b ELSE x[l]
                  [] l[1] = "som" -> IF l[2] \in slots THEN b ELSE x[l]
                  [] l[1] = "somValid" -> x[l] \cup slots
                  [] l[1] = "somWritable" -> x[l] \ slots
                  [] OTHER -> x[l]]
    IN Active(y, leaf, left)

Write(s) ==
    /\ s \in open /\ offset(st[s]) < MaxOffset
    /\ writes < MaxWrites /\ writes' = writes + 1
    /\ \E leaf \in SUBSET Leaf, left \in SUBSET Left, slots \in SUBSET SomSlot :
        /\ st' = [st EXCEPT ![s] = Scanned(@, leaf, left, slots)]
        /\ ideal' = [ideal EXCEPT ![s] = Scanned(@, leaf, left, slots)]
    /\ UNCHANGED <<open, buf, bufOf>>

hs_open_stream(s) ==
    /\ s \notin open
    /\ open' = open \cup {s}
    /\ \E src \in Source :
        /\ st' = [st EXCEPT ![s] = init_stream(src)]
        /\ ideal' = [ideal EXCEPT ![s] = init_stream(src)]
    /\ UNCHANGED <<writes, buf, bufOf>>

(* A buffer that is too small gets HS_INSUFFICIENT_SPACE and the size. *)
hs_compress_stream(s) ==
    /\ s \in open
    /\ buf' = sc_compress(st[s]) /\ bufOf' = ideal[s]
    /\ UNCHANGED <<writes, st, open, ideal>>

(* hs_expand_stream: into memory nobody has written. *)
hs_expand_stream(s) ==
    /\ s \notin open /\ buf # <<>>
    /\ open' = open \cup {s}
    /\ st' = [st EXCEPT ![s] = sc_expand(Freed, buf)]
    /\ ideal' = [ideal EXCEPT ![s] = bufOf]
    /\ UNCHANGED <<writes, buf, bufOf>>

(* hs_reset_and_expand_stream: on top of another stream's state. *)
hs_reset_and_expand_stream(s) ==
    /\ s \in open /\ buf # <<>>
    /\ st' = [st EXCEPT ![s] = sc_expand(@, buf)]
    /\ ideal' = [ideal EXCEPT ![s] = bufOf]
    /\ UNCHANGED <<writes, open, buf, bufOf>>

hs_close_stream(s) ==
    /\ s \in open
    /\ open' = open \ {s}
    /\ st' = [st EXCEPT ![s] = Freed]
    /\ ideal' = [ideal EXCEPT ![s] = Freed]
    /\ UNCHANGED <<writes, buf, bufOf>>

Next ==
    \E s \in Streams :
        \/ hs_open_stream(s) \/ Write(s) \/ hs_compress_stream(s)
        \/ hs_expand_stream(s) \/ hs_reset_and_expand_stream(s)
        \/ hs_close_stream(s)

Spec == Init /\ [][Next]_vars

----------------------------------------------------------------------------
(* Properties *)

(* What the next write can read of a stream: getHistory(Amount), the       *)
(* anchored region, active engines and valid slots.                        *)
Live(x) ==
    {l \in Loc :
        CASE l[1] = "history" -> l[2] > HistoryRequired - offset(x)
          [] l[1] = "anchor" -> offset(x) \in 1 .. AnchoredDistance - 1
          [] l[1] = "engine" -> l[2] \in active(x)
          [] l[1] = "lag" -> l[2] \in x[<<"left">>]
          [] l[1] = "som" -> l[2] \in x[<<"somValid">>]
          [] OTHER -> TRUE}

(***************************************************************************)
(* A stream that went through compression, any number of times and on top  *)
(* of whatever stream, is to the scanner what the original was: all it     *)
(* will read is equal.  hs_runtime.h:574: the compressed representation    *)
(* "can be converted back into a stream state".                            *)
(***************************************************************************)
ExpandedAsCopied ==
    \A s \in open : \A l \in Live(ideal[s]) : st[s][l] = ideal[s][l]
====
