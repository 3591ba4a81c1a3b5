------------------------- MODULE DelayedLiteralsProof -------------------------
(***************************************************************************)
(* For any literals, delays, lengths and cuts of the data: the runtime     *)
(* runs literal programs in offset order; between two writes it has run    *)
(* every program that is due by now once and no other; and the last-byte   *)
(* roles are those of the programs that ran at the end of the data.        *)
(*                                                                         *)
(* Two arguments carry this.  The first is about the ring: it has no room  *)
(* for offsets, only for their residues.  Queued names the literals that   *)
(* wait; they are due less than one lap from the end of the last flush, so *)
(* a slot stands for one offset (OneLap, SameSlot), and the numbers a      *)
(* flush sorts its slots by are the distances to the base of that lap      *)
(* (Number, VictimsAre).  That every literal that still is due is in the   *)
(* ring again after a write was cut rests on the history reaching back to  *)
(* its first byte (Reach, from HistoryAssumption), and on the dirty mark.  *)
(*                                                                         *)
(* The second is about what was run.  Expect says at every step which      *)
(* programs should have been run by now: a literal the flush is for and    *)
(* the anchored rows that are still logged have not, a delayed literal has *)
(* as soon as its offset is gone by.  A step that runs no program leaves   *)
(* Expect as it is (QuietStep); one that does adds exactly the programs it *)
(* runs, none of which was expected before (PlayStep), so none runs twice. *)
(* Log and Reached keep the order: what is logged or filled lies at or     *)
(* after lastEnd, the offset of the latest program.                        *)
(***************************************************************************)
EXTENDS DelayedLiterals, FiniteSetTheorems, WellFoundedInduction, TLAPS

\* What the assumptions say of each constant.
LEMMA Constants ==
    /\ SlotCount \in Nat /\ SlotCount > 0
    /\ IsFiniteSet(Lit \cup Anch) /\ Lit \cap Anch = {}
    /\ Delay \in [Lit -> 0 .. SlotCount - 1]
    /\ LitLen \in [Lit -> Nat \ {0}]
    /\ FloatMin \in Nat /\ AnchoredDistance \in Nat /\ HistoryRequired \in Nat
    /\ MaxOffset \in Nat /\ MaxHits \in Nat
    /\ MaxDelayedMatch = Inf \/ MaxDelayedMatch \in Nat
  BY SlotAssumption, LiteralAssumption, LayoutAssumption

----------------------------------------------------------------------------
(* Residues: the slot of an offset                                         *)

\* A multiple of the number of slots that is less than one lap away is zero.
LEMMA Multiple ==
    ASSUME NEW k \in Int, SlotCount * k < SlotCount, -SlotCount < SlotCount * k
    PROVE  k = 0
  BY Constants

\* An offset is the base of its lap and the number of its slot.
LEMMA Residue ==
    ASSUME NEW n \in Nat
    PROVE  /\ DelayIndex(n) \in 0 .. SlotCount - 1
           /\ SlotBase(n) \in Nat /\ n = SlotBase(n) + DelayIndex(n)
           /\ n \div SlotCount \in Int /\ SlotBase(n) = SlotCount * (n \div SlotCount)
  <1>1. DelayIndex(n) \in 0 .. SlotCount - 1  BY Constants DEF DelayIndex
  <1>2. SlotBase(n) \in Nat /\ n = SlotBase(n) + DelayIndex(n)
    BY Constants DEF DelayIndex, SlotBase
  <1>3. n \div SlotCount \in Int /\ n = (SlotCount * (n \div SlotCount)) + (n % SlotCount)
    BY Constants
  <1>4. SlotBase(n) = SlotCount * (n \div SlotCount)
    <2>1. PICK r, m : r = n % SlotCount /\ m = SlotCount * (n \div SlotCount)  OBVIOUS
    <2>2. r \in Int /\ m \in Int  BY <1>1, <1>3, <2>1, Constants DEF DelayIndex
    <2>3. n = m + r /\ SlotBase(n) = n - r  BY <1>3, <2>1 DEF SlotBase
    <2> QED  BY <2>1, <2>2, <2>3
  <1> QED  BY <1>1, <1>2, <1>3, <1>4

\* Within one lap a slot stands for one offset.
LEMMA OneLap ==
    ASSUME NEW m \in Nat, NEW n \in Nat, DelayIndex(m) = DelayIndex(n),
           m < n + SlotCount, n < m + SlotCount
    PROVE  m = n
  <1>1. PICK p \in Int, q \in Int, i \in Int :
            p = m \div SlotCount /\ q = n \div SlotCount /\ i = DelayIndex(m)
    BY Residue
  <1>2. m = (SlotCount * p) + i /\ n = (SlotCount * q) + i  BY <1>1, Residue
  <1>3. SlotCount * (p - q) = m - n  BY <1>2, Constants
  <1>4. p - q = 0  BY <1>3, Multiple, Constants
  <1> QED  BY <1>3, <1>4, Constants

\* An offset less than one lap above n, seen from the lap of n.
LEMMA Lap ==
    ASSUME NEW n \in Nat, NEW o \in Nat, n <= o, o <= n + SlotCount
    PROVE  /\ o < SlotBase(n) + SlotCount => DelayIndex(o) = o - SlotBase(n)
           /\ SlotBase(n) + SlotCount <= o => DelayIndex(o) = o - SlotBase(n) - SlotCount
  <1>1. PICK b \in Int, i \in Int, k \in Int, p \in Int, q \in Int :
            /\ b = SlotBase(n) /\ i = DelayIndex(n) /\ k = DelayIndex(o)
            /\ p = n \div SlotCount /\ q = o \div SlotCount
    BY Residue
  <1>2. /\ n = b + i /\ b = SlotCount * p /\ i \in 0 .. SlotCount - 1
        /\ o = (SlotCount * q) + k /\ k \in 0 .. SlotCount - 1
    BY <1>1, Residue
  <1>3. SlotCount * (q - p) = (o - b) - k  BY <1>2, Constants
  <1>4. ASSUME o < b + SlotCount PROVE k = o - b
    <2>1. q - p = 0  BY <1>2, <1>3, <1>4, Multiple, Constants
    <2> QED  BY <1>3, <2>1, Constants
  <1>5. ASSUME b + SlotCount <= o PROVE k = o - b - SlotCount
    <2>1. SlotCount * (q - p - 1) = ((o - b) - k) - SlotCount  BY <1>3, Constants
    <2>2. q - p - 1 = 0  BY <1>2, <1>5, <2>1, Multiple, Constants
    <2> QED  BY <2>1, <2>2, Constants
  <1> QED  BY <1>1, <1>4, <1>5

\* The number of a slot that is played, which may be a lap up.
LEMMA LapIndex ==
    ASSUME NEW n \in Nat, NEW v \in Nat, v < 2 * SlotCount
    PROVE  DelayIndex(v) = DelayIndex(v + SlotBase(n))
  <1>0. SlotBase(n) \in Nat /\ v + SlotBase(n) \in Nat
    <2>1. SlotBase(n) \in Nat  BY Residue
    <2> QED  BY <2>1
  <1>1. PICK p \in Int, b \in Int, q \in Int, i \in Int :
            /\ p = n \div SlotCount /\ b = SlotBase(n)
            /\ q = v \div SlotCount /\ i = DelayIndex(v)
    <2>1. n \div SlotCount \in Int /\ v \div SlotCount \in Int  BY Residue
    <2>2. DelayIndex(v) \in Int  BY Residue
    <2> QED  BY <1>0, <2>1, <2>2
  <1>7. PICK w \in Int, k \in Int :
            w = (v + SlotBase(n)) \div SlotCount /\ k = DelayIndex(v + SlotBase(n))
    BY <1>0, Residue
  <1>2. b = SlotCount * p /\ v = (SlotCount * q) + i /\ i \in 0 .. SlotCount - 1
    BY <1>1, Residue
  <1>3. v + b \in Nat  BY <1>1, Residue
  <1>4. v + b = (SlotCount * w) + k /\ k \in 0 .. SlotCount - 1
    BY <1>1, <1>3, <1>7, Residue
  <1>5. PICK d \in Int : d = w - q - p  OBVIOUS
  <1>6. SlotCount * d = i - k  BY <1>2, <1>4, <1>5, Constants
  <1>8. d = 0  BY <1>2, <1>4, <1>6, Multiple, Constants
  <1>9. i = k  BY <1>2, <1>4, <1>6, <1>8, Constants
  <1> QED  BY <1>1, <1>7, <1>9

----------------------------------------------------------------------------
(* Least and greatest numbers, and a set as a sequence                     *)

\* The order induction is over, as a set of pairs.
Below == {ss \in Nat \X Nat : ss[1] < ss[2]}

\* Min of a set of numbers that is not empty.
LEMMA Least ==
    ASSUME NEW T, T \subseteq Nat, T # {}
    PROVE  Min(T) \in T /\ \A y \in T : Min(T) <= y
  <1>1. IsWellFoundedOn(Below, Nat)
    BY NatLessThanWellFounded, Zenon DEF OpToRel, Below
  <1>2. PICK x \in T : \A y \in T : ~ (<<y, x>> \in Below)
    BY <1>1, WFMin, Zenon
  <1>3. ASSUME NEW y \in T PROVE x <= y
    <2>1. x \in Nat /\ y \in Nat  OBVIOUS
    <2>2. <<y, x>> \in Nat \X Nat /\ <<y, x>>[1] = y /\ <<y, x>>[2] = x  BY <2>1
    <2>3. y < x => <<y, x>> \in Below  BY <2>2 DEF Below
    <2> QED  BY <1>2, <2>1, <2>3
  <1> QED  BY <1>3 DEF Min

\* Max of a set of numbers that is not empty and has a bound.
LEMMA Greatest ==
    ASSUME NEW T, T \subseteq Nat, T # {}, NEW n \in Nat, \A y \in T : y <= n
    PROVE  Max(T) \in T /\ \A y \in T : Max(T) >= y
  <1> DEFINE U == {n - y : y \in T}
  <1>1. U \subseteq Nat /\ U # {}
    <2>1. \A y \in T : y \in Nat /\ y <= n  OBVIOUS
    <2>2. \A y \in T : n - y \in Nat  BY <2>1
    <2> QED  BY <2>2
  <1>2. Min(U) \in U /\ \A y \in U : Min(U) <= y  BY <1>1, Least
  <1>3. PICK x \in T : Min(U) = n - x  BY <1>2
  <1>4. ASSUME NEW y \in T PROVE x >= y
    <2>1. n - y \in U /\ x \in Nat /\ y \in Nat  OBVIOUS
    <2>2. n - x <= n - y  BY <1>2, <1>3, <2>1
    <2> QED  BY <2>1, <2>2
  <1> QED  BY <1>4 DEF Max

\* A finite set as a sequence: each element once.
LEMMA SequenceOf ==
    ASSUME NEW S, IsFiniteSet(S)
    PROVE  /\ Len(SetToSeq(S)) = Cardinality(S) /\ Cardinality(S) \in Nat
           /\ SetToSeq(S) \in [1 .. Cardinality(S) -> S]
           /\ \A i, j \in 1 .. Cardinality(S) : SetToSeq(S)[i] = SetToSeq(S)[j] => i = j
           /\ \A x \in S : \E i \in 1 .. Cardinality(S) : SetToSeq(S)[i] = x
  <1> DEFINE n == Cardinality(S)
             f == SetToSeq(S)
  <1>1. n \in Nat /\ ExistsBijection(1 .. n, S)  BY FS_CardinalityType
  <1>2. \E g \in [1 .. n -> S] : IsInjective(g)
    BY <1>1 DEF ExistsBijection, Bijection, Injection
  <1>3. f \in [1 .. n -> S] /\ IsInjective(f)  BY <1>2 DEF SetToSeq
  <1>4. f \in Injection(1 .. n, S)  BY <1>3 DEF Injection
  <1>5. Cardinality(1 .. n) = n  BY <1>1, FS_Interval
  <1>6. IsFiniteSet(1 .. n)  BY <1>1, FS_Interval
  <1>7. f \in Surjection(1 .. n, S)  BY <1>4, <1>5, FS_Injection
  <1>8. \A x \in S : \E i \in 1 .. n : f[i] = x  BY <1>7 DEF Surjection
  <1>9. \A i, j \in 1 .. n : f[i] = f[j] => i = j  BY <1>3 DEF IsInjective
  <1>10. f \in Seq(S) /\ Len(f) = n  BY <1>1, <1>3
  <1> QED  BY <1>1, <1>3, <1>8, <1>9, <1>10

----------------------------------------------------------------------------
(* The slots of a flush                                                    *)

\* The base of the lap a flush starts in.
Base == SlotBase(delayLast)

\* The number under which the offset o of a filled slot is a victim.
LEMMA Number ==
    ASSUME delayLast \in Nat, NEW o \in Nat, delayLast < o, o < delayLast + SlotCount
    PROVE  /\ o - Base \in 0 .. 2 * SlotCount - 1 /\ Base \in Nat
           /\ DelayIndex(o - Base) = DelayIndex(o)
           /\ o < Base + SlotCount =>
                 DelayIndex(o) = o - Base /\ DelayIndex(o) > DelayIndex(delayLast)
           /\ Base + SlotCount <= o =>
                 DelayIndex(o) = o - Base - SlotCount /\ DelayIndex(o) < DelayIndex(delayLast)
  <1>1. PICK n \in Nat, b \in Nat, i \in Int, k \in Int :
            n = delayLast /\ b = Base /\ i = DelayIndex(delayLast) /\ k = DelayIndex(o)
    <2>1. Base \in Nat  BY Residue DEF Base
    <2>2. DelayIndex(delayLast) \in Int /\ DelayIndex(o) \in Int  BY Residue
    <2> QED  BY <2>1, <2>2
  <1>2. /\ n = b + i /\ i \in 0 .. SlotCount - 1 /\ k \in 0 .. SlotCount - 1
        /\ n < o /\ o < n + SlotCount
    BY <1>1, Residue DEF Base
  <1>3. o - b \in Nat /\ o - b < 2 * SlotCount  BY <1>2, Constants
  <1>4. /\ o < b + SlotCount => k = o - b
        /\ b + SlotCount <= o => k = o - b - SlotCount
    BY <1>1, <1>2, Lap, Constants DEF Base
  <1>5. DelayIndex(o - b) = DelayIndex((o - b) + b)  BY <1>1, <1>3, LapIndex DEF Base
  <1>6. (o - b) + b = o  OBVIOUS
  <1>7. DelayIndex(o - b) = k  BY <1>1, <1>5, <1>6
  <1>8. o - b \in 0 .. 2 * SlotCount - 1  BY <1>3, Constants
  <1> QED  BY <1>1, <1>2, <1>4, <1>7, <1>8, Constants

\* The victims of a flush are the filled slots that are due by its end, in the
\* order of their offsets; the others stay filled.
LEMMA VictimsAre ==
    ASSUME delayLast \in Nat, NEW to \in Nat, delayLast < to, NEW D, D \subseteq Nat,
           \A o \in D : delayLast < o /\ o < delayLast + SlotCount,
           filled = {DelayIndex(o) : o \in D}
    PROVE  /\ Victims(to) = {o - Base : o \in {x \in D : x <= to}}
           /\ filled \ {DelayIndex(v) : v \in Victims(to)}
                 = {DelayIndex(o) : o \in {x \in D : x > to}}
           /\ Victims(to) \subseteq 0 .. 2 * SlotCount - 1
  <1>1. PICK n \in Nat, b \in Nat, li \in Int, ci \in Int :
            n = delayLast /\ b = Base /\ li = DelayIndex(delayLast) /\ ci = DelayIndex(to)
    <2>1. Base \in Nat  BY Residue DEF Base
    <2>2. DelayIndex(delayLast) \in Int /\ DelayIndex(to) \in Int  BY Residue
    <2> QED  BY <2>1, <2>2
  <1>2. n = b + li /\ li \in 0 .. SlotCount - 1 /\ ci \in 0 .. SlotCount - 1 /\ n < to
    BY <1>1, Residue DEF Base
  <1>3. to <= n + SlotCount =>
            /\ to < b + SlotCount => ci = to - b
            /\ b + SlotCount <= to => ci = to - b - SlotCount
    BY <1>1, <1>2, Lap DEF Base
  <1>4. Wrapped(to) <=> b + SlotCount <= to
    BY <1>1, <1>2, Constants DEF Wrapped, Base
  <1>5. ASSUME NEW o \in D
        PROVE  /\ o \in Nat /\ n < o /\ o < n + SlotCount
               /\ DelayIndex(o) \in 0 .. SlotCount - 1 /\ DelayIndex(o) \in filled
               /\ o < b + SlotCount => DelayIndex(o) = o - b /\ DelayIndex(o) > li
               /\ b + SlotCount <= o => DelayIndex(o) = o - b - SlotCount /\ DelayIndex(o) < li
               /\ o - b \in 0 .. 2 * SlotCount - 1 /\ DelayIndex(o - b) = DelayIndex(o)
    <2>1. o \in Nat /\ n < o /\ o < n + SlotCount  BY <1>1
    <2>2. DelayIndex(o) \in 0 .. SlotCount - 1 /\ DelayIndex(o) \in filled  BY <2>1, Residue
    <2> QED  BY <1>1, <2>1, <2>2, Number
  <1>6. \A i \in filled : \E o \in D : i = DelayIndex(o)  OBVIOUS
  <1>7. ASSUME NEW v
        PROVE  v \in Victims(to) <=> \E o \in D : o <= to /\ v = o - b
    <2>1. CASE ~Wrapped(to)
      <3>1. to < b + SlotCount /\ ci = to - b  BY <1>2, <1>3, <1>4, <2>1, Constants
      <3>2. v \in Victims(to) <=> v \in filled /\ v > li /\ v <= ci
        BY <1>1, <2>1 DEF Victims
      <3>3. ASSUME v \in filled, v > li, v <= ci PROVE \E o \in D : o <= to /\ v = o - b
        <4>1. PICK o \in D : v = DelayIndex(o)  BY <1>6, <3>3
        <4>2. o < b + SlotCount  BY <1>2, <1>5, <3>3, <4>1, Constants
        <4>3. v = o - b /\ o <= to  BY <1>2, <1>5, <3>1, <3>3, <4>1, <4>2, Constants
        <4> QED  BY <4>3
      <3>4. ASSUME NEW o \in D, o <= to, v = o - b PROVE v \in filled /\ v > li /\ v <= ci
        <4>1. v = DelayIndex(o) /\ v > li /\ v \in filled
          BY <1>2, <1>5, <3>1, <3>4, Constants
        <4> QED  BY <1>2, <1>5, <3>1, <3>4, <4>1, Constants
      <3> QED  BY <3>2, <3>3, <3>4
    <2>2. CASE Wrapped(to)
      <3>1. b + SlotCount <= to  BY <1>4, <2>2
      <3>2. v \in Victims(to) <=>
               \/ v \in filled /\ v > li
               \/ \E i \in filled : /\ v = i + SlotCount /\ i <= li
                                    /\ to > n + SlotCount \/ i <= ci
        BY <1>1, <2>2 DEF Victims
      <3>3. ASSUME v \in filled, v > li PROVE \E o \in D : o <= to /\ v = o - b
        <4>1. PICK o \in D : v = DelayIndex(o)  BY <1>6, <3>3
        <4>2. o < b + SlotCount  BY <1>2, <1>5, <3>3, <4>1, Constants
        <4>3. v = o - b /\ o <= to  BY <1>2, <1>5, <3>1, <4>1, <4>2, Constants
        <4> QED  BY <4>3
      <3>4. ASSUME NEW i \in filled, v = i + SlotCount, i <= li,
                   to > n + SlotCount \/ i <= ci
            PROVE  \E o \in D : o <= to /\ v = o - b
        <4>1. PICK o \in D : i = DelayIndex(o)  BY <1>6
        <4>2. b + SlotCount <= o  BY <1>2, <1>5, <3>4, <4>1, Constants
        <4>3. v = o - b  BY <1>2, <1>5, <3>4, <4>1, <4>2, Constants
        <4>4. o <= to
          <5>1. CASE to > n + SlotCount  BY <1>2, <1>5, <5>1, Constants
          <5>2. CASE to <= n + SlotCount
            <6>1. ci = to - b - SlotCount /\ i <= ci
              BY <1>2, <1>3, <3>1, <3>4, <5>2, Constants
            <6> QED  BY <1>2, <1>5, <4>1, <4>2, <6>1, Constants
          <5> QED  BY <1>2, <5>1, <5>2, Constants
        <4> QED  BY <4>3, <4>4
      <3>5. ASSUME NEW o \in D, o <= to, v = o - b
            PROVE  \/ v \in filled /\ v > li
                   \/ \E i \in filled : /\ v = i + SlotCount /\ i <= li
                                        /\ to > n + SlotCount \/ i <= ci
        <4>1. CASE o < b + SlotCount  BY <1>5, <3>5, <4>1
        <4>2. CASE b + SlotCount <= o
          <5>1. PICK i \in filled : i = DelayIndex(o)  BY <1>5
          <5>2. v = i + SlotCount /\ i <= li  BY <1>2, <1>5, <3>5, <4>2, <5>1, Constants
          <5>3. to > n + SlotCount \/ i <= ci
            BY <1>2, <1>3, <1>5, <3>1, <3>5, <4>2, <5>1, Constants
          <5> QED  BY <5>2, <5>3
        <4> QED  BY <1>2, <1>5, <4>1, <4>2, Constants
      <3> QED  BY <3>2, <3>3, <3>4, <3>5
    <2> QED  BY <2>1, <2>2
  <1>8. Victims(to) = {o - Base : o \in {x \in D : x <= to}}  BY <1>1, <1>7
  <1>9. ASSUME NEW i
        PROVE  i \in filled \ {DelayIndex(v) : v \in Victims(to)}
                  <=> \E o \in D : o > to /\ i = DelayIndex(o)
    <2>1. ASSUME i \in filled, \A v \in Victims(to) : i # DelayIndex(v)
          PROVE  \E o \in D : o > to /\ i = DelayIndex(o)
      <3>1. PICK o \in D : i = DelayIndex(o)  BY <1>6, <2>1
      <3>2. o <= to => o - b \in Victims(to)  BY <1>7
      <3>3. ~(o <= to)  BY <1>5, <2>1, <3>1, <3>2
      <3> QED  BY <1>5, <3>1, <3>3
    <2>2. ASSUME NEW o \in D, o > to, i = DelayIndex(o), NEW v \in Victims(to), i = DelayIndex(v)
          PROVE  FALSE
      <3>1. PICK x \in D : x <= to /\ v = x - b  BY <1>7
      <3>2. DelayIndex(x) = DelayIndex(o)  BY <1>5, <2>2, <3>1
      <3>3. x = o  BY <1>2, <1>5, <3>2, OneLap, Constants
      <3> QED  BY <1>5, <2>2, <3>1, <3>3
    <2> QED  BY <1>5, <2>1, <2>2
  <1>10. filled \ {DelayIndex(v) : v \in Victims(to)} = {DelayIndex(o) : o \in {x \in D : x > to}}
    BY <1>9
  <1>11. Victims(to) \subseteq 0 .. 2 * SlotCount - 1  BY <1>5, <1>7
  <1> QED  BY <1>8, <1>10, <1>11

----------------------------------------------------------------------------
(* Running programs                                                        *)

\* The programs that can be run, as they are noted in out.
Literals   == Lit \cup Anch
Entry      == Literals \X (1 .. MaxOffset) \X BOOLEAN
Ordered(o) == \A i, j \in 1 .. Len(o) : i < j => o[i][2] <= o[j][2]

\* The programs of ran were run at offset at.
Played(ran, at, delayed, roles) ==
    /\ ToSet(out') = ToSet(out) \cup {<<a, at, delayed>> : a \in ran}
    /\ lastByte' = roles \cup ran
New(ids, at, delayed) == \A a \in ids : <<a, at, delayed>> \notin ToSet(out)

\* Programs that run at an offset none of the earlier ones is beyond: what is
\* run, what it leaves in out, and that out stays in order.
LEMMA PlayIs ==
    ASSUME NEW ids, ids \subseteq Literals, NEW at \in 1 .. MaxOffset, NEW delayed \in BOOLEAN,
           NEW roles, Play(ids, at, delayed, roles),
           out \in Seq(Entry), Ordered(out), \A p \in ToSet(out) : p[2] <= at
    PROVE  /\ stopped' \in BOOLEAN
           /\ out' \in Seq(Entry)
           /\ Ordered(out')
           /\ \E ran \in SUBSET ids : (~stopped' => ran = ids) /\ Played(ran, at, delayed, roles)
           /\ IsInjective(out) /\ New(ids, at, delayed) => IsInjective(out')
  <1>1. IsFiniteSet(ids)  BY Constants, FS_Subset DEF Literals
  <1>2. PICK order : order = SetToSeq(ids)  OBVIOUS
  <1>3. PICK c \in Nat : c = Cardinality(ids)  BY <1>1, SequenceOf
  <1>4. /\ Len(order) = c /\ order \in [1 .. c -> ids]
        /\ \A i, j \in 1 .. c : order[i] = order[j] => i = j
        /\ \A x \in ids : \E i \in 1 .. c : order[i] = x
    BY <1>1, <1>2, <1>3, SequenceOf
  <1>5. PICK stop \in BOOLEAN, k \in 1 .. Len(order) :
            /\ stop \/ k = Len(order)
            /\ out' = out \o [i \in 1 .. k |-> <<order[i], at, delayed>>]
            /\ lastByte' = roles \cup {order[i] : i \in 1 .. k}
            /\ stopped' = stop
    BY <1>2 DEF Play
  <1>6. k \in 1 .. c /\ k \in Nat  BY <1>3, <1>4, <1>5
  <1>7. PICK g : g = [i \in 1 .. k |-> <<order[i], at, delayed>>]  OBVIOUS
  <1>8. \A i \in 1 .. k : order[i] \in ids /\ g[i] = <<order[i], at, delayed>>
                          /\ g[i][2] = at /\ g[i] \in Entry
    <2>1. ASSUME NEW i \in 1 .. k
          PROVE  order[i] \in ids /\ g[i] = <<order[i], at, delayed>> /\ g[i][2] = at /\ g[i] \in Entry
      <3>1. order[i] \in ids  BY <1>3, <1>4, <1>6
      <3>2. g[i] = <<order[i], at, delayed>>  BY <1>7
      <3>3. order[i] \in Literals  BY <3>1
      <3> QED  BY <3>1, <3>2, <3>3 DEF Entry
    <2> QED  BY <2>1
  <1>9. g \in Seq(Entry) /\ Len(g) = k
    <2>1. g \in [1 .. k -> Entry]  BY <1>7, <1>8
    <2> QED  BY <1>6, <2>1
  <1>10. PICK n \in Nat : n = Len(out)  OBVIOUS
  <1>11. out' = out \o g  BY <1>5, <1>7
  <1>12. /\ out' \in Seq(Entry) /\ Len(out') = n + k
         /\ \A i \in 1 .. n + k : out'[i] = IF i <= n THEN out[i] ELSE g[i - n]
    <2>1. out \o g \in Seq(Entry)  BY <1>9
    <2>2. Len(out \o g) = Len(out) + Len(g)  BY <1>9
    <2>3. \A i \in 1 .. Len(out) + Len(g) :
             (out \o g)[i] = IF i <= Len(out) THEN out[i] ELSE g[i - Len(out)]
      BY <1>9
    <2> QED  BY <1>9, <1>10, <1>11, <2>1, <2>2, <2>3
  <1>13. DOMAIN out = 1 .. n /\ DOMAIN out' = 1 .. n + k
    <2>1. DOMAIN out = 1 .. Len(out) /\ DOMAIN out' = 1 .. Len(out')  BY <1>12
    <2> QED  BY <1>10, <1>12, <2>1
  <1>14. \A i \in 1 .. n : out[i] \in ToSet(out) /\ out[i][2] <= at /\ out[i] \in Entry
    <2>1. \A i \in 1 .. n : out[i] \in ToSet(out) /\ out[i] \in Entry
      BY <1>10, <1>13 DEF ToSet
    <2> QED  BY <2>1
  <1>15. \A i \in 1 .. n : i \in 1 .. n + k /\ out'[i] = out[i]
    BY <1>6, <1>12
  <1>16. \A i \in 1 .. n + k : ~(i <= n) => i - n \in 1 .. k /\ out'[i] = g[i - n]
    BY <1>6, <1>12
  <1>17. \A i \in 1 .. k : n + i \in 1 .. n + k /\ out'[n + i] = g[i]
    <2>1. ASSUME NEW i \in 1 .. k PROVE n + i \in 1 .. n + k /\ out'[n + i] = g[i]
      <3>1. n + i \in 1 .. n + k /\ ~(n + i <= n) /\ (n + i) - n = i  BY <1>6
      <3> QED  BY <1>16, <3>1
    <2> QED  BY <2>1
  <1>18. Ordered(out')
    <2>1. ASSUME NEW i \in 1 .. n + k, NEW j \in 1 .. n + k, i < j
          PROVE  out'[i][2] <= out'[j][2]
      <3>1. CASE j <= n
        <4>1. i \in 1 .. n /\ j \in 1 .. n  BY <1>6, <2>1, <3>1
        <4> QED  BY <1>10, <1>15, <2>1, <4>1 DEF Ordered
      <3>2. CASE i <= n /\ ~(j <= n)
        <4>1. i \in 1 .. n /\ out'[i] = out[i] /\ out[i][2] <= at  BY <1>14, <1>15, <3>2
        <4>2. out'[j][2] = at  BY <1>8, <1>16, <3>2
        <4> QED  BY <4>1, <4>2
      <3>3. CASE ~(i <= n)
        <4>1. ~(j <= n)  BY <1>6, <2>1, <3>3
        <4>2. out'[i][2] = at /\ out'[j][2] = at  BY <1>8, <1>16, <3>3, <4>1
        <4> QED  BY <4>2
      <3> QED  BY <3>1, <3>2, <3>3
    <2> QED  BY <1>12, <2>1 DEF Ordered
  <1>19. PICK ran : ran = {order[i] : i \in 1 .. k}  OBVIOUS
  <1>20. ran \in SUBSET ids  BY <1>8, <1>19
  <1>21. ~stopped' => ran = ids
    <2>1. ~stopped' => k = c  BY <1>4, <1>5
    <2> QED  BY <1>4, <1>19, <1>20, <2>1
  <1>22. ToSet(out') = ToSet(out) \cup {<<a, at, delayed>> : a \in ran}
    <2>1. ASSUME NEW p \in ToSet(out')
          PROVE  p \in ToSet(out) \/ \E a \in ran : p = <<a, at, delayed>>
      <3>1. PICK i \in 1 .. n + k : p = out'[i]  BY <1>13 DEF ToSet
      <3>2. CASE i <= n  BY <1>13, <1>14, <1>15, <3>1, <3>2
      <3>3. CASE ~(i <= n)
        <4>1. i - n \in 1 .. k /\ p = g[i - n]  BY <1>16, <3>1, <3>3
        <4>2. p = <<order[i - n], at, delayed>> /\ order[i - n] \in ran  BY <1>8, <1>19, <4>1
        <4> QED  BY <4>2
      <3> QED  BY <3>2, <3>3
    <2>2. ASSUME NEW p \in ToSet(out) PROVE p \in ToSet(out')
      <3>1. PICK i \in 1 .. n : p = out[i]  BY <1>13 DEF ToSet
      <3> QED  BY <1>13, <1>15, <3>1 DEF ToSet
    <2>3. ASSUME NEW a \in ran PROVE <<a, at, delayed>> \in ToSet(out')
      <3>1. PICK i \in 1 .. k : a = order[i]  BY <1>19
      <3>2. n + i \in 1 .. n + k /\ out'[n + i] = <<a, at, delayed>>  BY <1>8, <1>17, <3>1
      <3> QED  BY <1>13, <3>2 DEF ToSet
    <2> QED  BY <2>1, <2>2, <2>3
  <1>23. ASSUME IsInjective(out), New(ids, at, delayed)
         PROVE  IsInjective(out')
    <2>1. ASSUME NEW i \in 1 .. n, NEW j \in 1 .. n + k, ~(j <= n) PROVE out'[i] # out'[j]
      <3>1. j - n \in 1 .. k /\ out'[j] = <<order[j - n], at, delayed>> /\ order[j - n] \in ids
        BY <1>8, <1>16, <2>1
      <3>2. out'[j] \notin ToSet(out)  BY <1>23, <3>1 DEF New
      <3> QED  BY <1>14, <1>15, <3>2
    <2>2. ASSUME NEW i \in 1 .. n + k, NEW j \in 1 .. n + k, out'[i] = out'[j]
          PROVE  i = j
      <3>1. CASE i <= n /\ j <= n
        <4>1. i \in 1 .. n /\ j \in 1 .. n /\ out[i] = out[j]  BY <1>15, <2>2, <3>1
        <4> QED  BY <1>13, <1>23, <4>1 DEF IsInjective
      <3>2. CASE i <= n /\ ~(j <= n)
        <4>1. i \in 1 .. n  BY <3>2
        <4> QED  BY <2>1, <2>2, <3>2, <4>1
      <3>3. CASE ~(i <= n) /\ j <= n
        <4>1. j \in 1 .. n  BY <3>3
        <4> QED  BY <2>1, <2>2, <3>3, <4>1
      <3>4. CASE ~(i <= n) /\ ~(j <= n)
        <4>1. PICK x \in 1 .. k, y \in 1 .. k : x = i - n /\ y = j - n  BY <1>16, <3>4
        <4>2. <<order[x], at, delayed>> = <<order[y], at, delayed>>
          BY <1>8, <1>16, <2>2, <3>4, <4>1
        <4>3. order[x] = order[y] /\ x \in 1 .. c /\ y \in 1 .. c  BY <1>6, <4>2
        <4>4. x = y  BY <1>4, <4>3
        <4> QED  BY <1>6, <4>1, <4>4
      <3> QED  BY <3>1, <3>2, <3>3, <3>4
    <2> QED  BY <1>13, <2>2 DEF IsInjective
  <1>24. stopped' \in BOOLEAN /\ lastByte' = roles \cup ran  BY <1>5, <1>19
  <1>25. Played(ran, at, delayed, roles)  BY <1>22, <1>24 DEF Played
  <1> QED  BY <1>12, <1>18, <1>20, <1>21, <1>23, <1>24, <1>25

----------------------------------------------------------------------------
(* The invariant                                                           *)

\* The offset a literal is due at, and whether it waits at all.
Due(h)     == h[2] + Delay[h[1]]
Delayed(h) == h[1] \in Lit /\ Delay[h[1]] > 0
\* Delayed literals may still match in this write.
Early == MaxDelayedMatch = Inf \/ offset < MaxDelayedMatch
\* What is due by Upto has been played.
Upto  == IF pc = "idle" THEN offset ELSE delayLast

\* The literals that wait in the ring: those found in this write, and those of
\* earlier writes if the ring is rebuilt.
Queued == {h \in found : /\ Delayed(h) /\ h # hit /\ Due(h) > delayLast
                         /\ h[2] > offset \/ Early}

\* The ring holds exactly the literals of R.
SlotOf(R, i) == {h[1] : h \in {x \in R : DelayIndex(Due(x)) = i}}
RingHolds(R) == /\ filled = {DelayIndex(Due(h)) : h \in R}
                /\ \A i \in filled : slot[i] = SlotOf(R, i)

\* The ring has been played for offset o.
Gone(o) == \/ o <= Upto
           \/ pc = "flush" /\ o <= flushTo /\ o - Base \notin victims

\* The program p should have been run by now.
Expect(p) ==
    IF p[3]
    THEN /\ Delayed(p) /\ p[2] >= FloatMin /\ Gone(p[2])
         /\ <<p[1], p[2] - Delay[p[1]]>> \in found
    ELSE /\ <<p[1], p[2]>> \in found
         /\ \/ p[1] \in Anch /\ p[2] - 1 \notin logSum
            \/ p[1] \in Lit /\ p[2] >= FloatMin /\ <<p[1], p[2]>> # hit

\* The variables have their types, and out is in order whatever was stopped.
Types ==
    /\ TypeOK /\ End <= MaxOffset
    /\ out \in Seq(Entry) /\ Ordered(out)
    /\ stopped => pc \in {"idle", "anchored", "flush"}

\* Where the write is.
Place ==
    /\ lastEnd <= End
    /\ pc = "idle" => len = 0
    /\ pc # "idle" => offset <= delayLast /\ delayLast <= End /\ offset < End
    /\ pc \in {"anchored", "rebuild"} => delayLast = offset
    /\ pc = "cleanup" => delayLast = End
    /\ pc = "floating" => delayLast = offset \/ \E l \in Lit : <<l, delayLast>> \in found
    /\ pc = "literal" => hit # NoHit /\ hit[2] = delayLast
    /\ pc = "flush" => /\ delayLast <= flushTo /\ flushTo <= End
                       /\ hit # NoHit => hit[2] = flushTo
                       /\ hit = NoHit => flushTo = End
    /\ hit # NoHit => /\ pc \in {"flush", "literal"}
                      /\ hit \in found /\ hit[1] \in Lit /\ hit[2] > offset

\* Literals are found in the data, floating ones in the order of their ends.
Found ==
    \A h \in found :
        /\ h[2] <= End
        /\ h[1] \in Lit => LitLen[h[1]] <= h[2] /\ (h = hit \/ h[2] <= Upto)

\* The ring holds the queued literals, each in the slot of the offset it is
\* due at; in a flush the victims do so for the offsets up to its end.
Ring ==
    /\ pc \in {"anchored", "rebuild"} => filled = {}
    /\ pc \in {"idle", "anchored", "rebuild"} /\ ~dirty /\ Early =>
          \A h \in found : Delayed(h) => Due(h) <= offset
    /\ pc \in {"floating", "literal", "cleanup"} => RingHolds(Queued)
    /\ pc = "flush" =>
          /\ RingHolds({h \in Queued : Due(h) > flushTo})
          /\ \A v \in victims :
                /\ delayLast < v + Base /\ v + Base <= flushTo
                /\ slot[DelayIndex(v)] = {h[1] : h \in {x \in Queued : Due(x) = v + Base}}

\* The log holds the anchored literals beyond what was replayed.
Log ==
    /\ \A b \in logSum :
          /\ offset <= b /\ FloatMin <= b /\ b < End /\ lastEnd <= b
          /\ pc # "flush" => delayLast <= b
          /\ row[b] = {a \in Anch : <<a, b + 1>> \in found}
    /\ pc = "anchored" => \A h \in found :
          h[1] \in Anch /\ h[2] > offset /\ h[2] > FloatMin => h[2] - 1 \in logSum
    /\ pc = "flush" =>
          IF anchIt = Invalid
          THEN /\ \A b \in logSum : flushTo <= b
               /\ victims # {} => logSum = {}
          ELSE anchIt \in logSum /\ \A b \in logSum : anchIt <= b

\* No program has run beyond what the next one can match at.
Reached ==
    /\ pc = "anchored" => lastEnd = offset \/ \E a \in Anch : <<a, lastEnd>> \in found
    /\ pc \notin {"idle", "flush"} => lastEnd <= delayLast \/ lastEnd <= FloatMin
    /\ pc = "flush" => /\ lastEnd <= flushTo \/ lastEnd <= FloatMin
                       /\ \A v \in victims : v + Base >= FloatMin => lastEnd <= v + Base

\* What was run is what is expected; within the bound all of it.
Replayed ==
    /\ \A p \in ToSet(out) : Expect(p) /\ p[2] <= lastEnd
    /\ \A p \in Entry : Expect(p) /\ InBound(p) => p \in ToSet(out)
    /\ IsInjective(out)

\* The roles kept for the last byte, once the end of the data was reached.
Roles ==
    pc = "idle" \/ lastEnd = End =>
        lastByte = {p[1] : p \in {x \in ToSet(out) : x[2] = End}}

Alive == Place /\ Found /\ Ring /\ Log /\ Reached /\ Replayed /\ Roles
IInv  == Types /\ (~stopped => Alive)

----------------------------------------------------------------------------
(* Facts about types                                                       *)

\* The counters are numbers, and NoHit is no literal.
LEMMA Numbers ==
    ASSUME Types
    PROVE  /\ offset \in Nat /\ len \in Nat /\ End \in Nat /\ End <= MaxOffset
           /\ delayLast \in Nat /\ lastEnd \in Nat /\ flushTo \in Nat
           /\ Base \in Nat /\ Upto \in Nat
           /\ stopped \in BOOLEAN /\ dirty \in BOOLEAN
           /\ \A b \in logSum : b \in Nat /\ b < AnchoredDistance
           /\ \A v \in victims : v \in Nat /\ v < 2 * SlotCount
           /\ NoHit \notin found
  <1>1. /\ offset \in Nat /\ len \in Nat /\ delayLast \in Nat /\ lastEnd \in Nat
        /\ flushTo \in Nat /\ stopped \in BOOLEAN /\ dirty \in BOOLEAN
    BY Constants DEF Types, TypeOK
  <1>2. End \in Nat /\ End <= MaxOffset  BY <1>1 DEF Types, End
  <1>3. Base \in Nat  BY <1>1, Residue DEF Base
  <1>4. Upto \in Nat  BY <1>1 DEF Upto
  <1>5. \A b \in logSum : b \in Nat /\ b < AnchoredDistance  BY Constants DEF Types, TypeOK
  <1>6. \A v \in victims : v \in Nat /\ v < 2 * SlotCount  BY Constants DEF Types, TypeOK
  <1>7. NoHit \notin found
    <2>1. NoHit \notin (Lit \cup Anch) \X (1 .. MaxOffset)  BY DEF NoHit
    <2> QED  BY <2>1 DEF Types, TypeOK
  <1> QED  BY <1>1, <1>2, <1>3, <1>4, <1>5, <1>6, <1>7

\* A literal that was found, and the numbers that go with it.
LEMMA FoundIs ==
    ASSUME Types, NEW h \in found
    PROVE  /\ h = <<h[1], h[2]>> /\ h[1] \in Literals /\ h[2] \in 1 .. MaxOffset /\ h[2] \in Nat
           /\ h[1] \in Lit => /\ h[1] \notin Anch
                              /\ Delay[h[1]] \in 0 .. SlotCount - 1 /\ Delay[h[1]] \in Nat
                              /\ LitLen[h[1]] \in Nat /\ LitLen[h[1]] > 0
                              /\ Due(h) \in Nat
  <1>1. h \in Literals \X (1 .. MaxOffset)  BY DEF Types, TypeOK, Literals
  <1>2. h = <<h[1], h[2]>> /\ h[1] \in Literals /\ h[2] \in 1 .. MaxOffset /\ h[2] \in Nat
    BY <1>1, Constants
  <1>3. ASSUME h[1] \in Lit
        PROVE  /\ h[1] \notin Anch
               /\ Delay[h[1]] \in 0 .. SlotCount - 1 /\ Delay[h[1]] \in Nat
               /\ LitLen[h[1]] \in Nat /\ LitLen[h[1]] > 0
               /\ Due(h) \in Nat
    <2>1. h[1] \notin Anch  BY <1>3, Constants
    <2>2. Delay[h[1]] \in 0 .. SlotCount - 1 /\ Delay[h[1]] \in Nat  BY <1>3, Constants
    <2>3. LitLen[h[1]] \in Nat /\ LitLen[h[1]] > 0  BY <1>3, Constants
    <2>4. Due(h) \in Nat  BY <1>2, <2>2 DEF Due
    <2> QED  BY <2>1, <2>2, <2>3, <2>4
  <1> QED  BY <1>2, <1>3

\* A queued literal is due less than one lap from now.
LEMMA QueuedIs ==
    ASSUME Types, Found, pc # "idle", NEW h \in Queued
    PROVE  /\ h \in found /\ Delayed(h) /\ h[1] \in Lit /\ Due(h) \in Nat
           /\ delayLast < Due(h) /\ Due(h) < delayLast + SlotCount
  <1>1. h \in found /\ Delayed(h) /\ h # hit /\ Due(h) > delayLast  BY DEF Queued
  <1>2. h[1] \in Lit  BY <1>1 DEF Delayed
  <1>3. h[2] <= delayLast  BY <1>1, <1>2 DEF Found, Upto
  <1>4. h[2] \in Nat /\ Delay[h[1]] \in Nat /\ Delay[h[1]] <= SlotCount - 1 /\ Due(h) \in Nat
    BY <1>1, <1>2, FoundIs
  <1>5. Due(h) < delayLast + SlotCount
    <2>1. PICK x, d, n : x = h[2] /\ d = Delay[h[1]] /\ n = delayLast  OBVIOUS
    <2>2. x \in Nat /\ d \in Nat /\ n \in Nat /\ Due(h) = x + d /\ x <= n /\ d <= SlotCount - 1
      BY <1>3, <1>4, <2>1, Numbers DEF Due
    <2> QED  BY <2>1, <2>2, Constants
  <1>6. delayLast < Due(h)  BY <1>1, <1>4, Numbers
  <1> QED  BY <1>1, <1>2, <1>4, <1>5, <1>6

\* A delayed literal that is still due in bounds is queued.
LEMMA Waiting ==
    ASSUME Types, Place, pc # "idle", NEW h \in found, Delayed(h), h # hit,
           Due(h) > delayLast, InBound(<<h[1], Due(h), TRUE>>)
    PROVE  h \in Queued
  <1>1. h[2] \in Nat /\ Due(h) \in Nat  BY FoundIs DEF Delayed
  <1>2. MaxDelayedMatch = Inf \/ Due(h) <= MaxDelayedMatch  BY DEF InBound
  <1>3. offset <= delayLast  BY DEF Place
  <1>4. offset < Due(h)  BY <1>1, <1>3, Numbers
  <1>5. Early
    <2>1. CASE MaxDelayedMatch = Inf  BY <2>1 DEF Early
    <2>2. CASE MaxDelayedMatch # Inf
      <3>1. MaxDelayedMatch \in Nat /\ Due(h) <= MaxDelayedMatch  BY <1>2, <2>2, Constants
      <3> QED  BY <1>1, <1>4, <3>1, Numbers DEF Early
    <2> QED  BY <2>1, <2>2
  <1> QED  BY <1>5 DEF Queued

\* Two queued literals in one slot are due at one offset.
LEMMA SameSlot ==
    ASSUME Types, Found, pc # "idle", NEW h \in Queued, NEW x \in Queued,
           DelayIndex(Due(h)) = DelayIndex(Due(x))
    PROVE  Due(h) = Due(x)
  <1>1. PICK m \in Nat, n \in Nat, d \in Nat : m = Due(h) /\ n = Due(x) /\ d = delayLast
    BY QueuedIs, Numbers
  <1>2. d < m /\ m < d + SlotCount /\ d < n /\ n < d + SlotCount  BY <1>1, QueuedIs
  <1>3. m < n + SlotCount /\ n < m + SlotCount  BY <1>2, Constants
  <1>4. m = n  BY <1>1, <1>3, OneLap
  <1> QED  BY <1>1, <1>4

\* The parts of a program that may be run.
LEMMA EntryIs ==
    ASSUME NEW p \in Entry
    PROVE  /\ p = <<p[1], p[2], p[3]>> /\ p[1] \in Literals /\ p[2] \in 1 .. MaxOffset
           /\ p[2] \in Nat /\ p[3] \in BOOLEAN
  BY Constants DEF Entry

\* What was run are programs.
LEMMA OutIs ==
    ASSUME Types
    PROVE  ToSet(out) \subseteq Entry
  BY DEF Types, ToSet

\* The program a delayed expectation is about.
LEMMA ExpectDelayed ==
    ASSUME Types, NEW p \in Entry, p[3], NEW f, f \subseteq Literals \X (1 .. MaxOffset),
           <<p[1], p[2] - Delay[p[1]]>> \in f, Delayed(p)
    PROVE  \E h \in f : /\ h = <<p[1], p[2] - Delay[p[1]]>> /\ Delayed(h) /\ Due(h) = p[2]
                        /\ p = <<h[1], Due(h), TRUE>>
  <1>1. PICK h \in f : h = <<p[1], p[2] - Delay[p[1]]>>  OBVIOUS
  <1>2. h[1] = p[1] /\ h[2] = p[2] - Delay[p[1]]  BY <1>1
  <1>3. Delay[p[1]] \in Nat  BY Constants DEF Delayed
  <1>4. Due(h) = p[2]
    <2>1. PICK d : d = Delay[p[1]]  OBVIOUS
    <2>2. Due(h) = (p[2] - d) + d /\ d \in Nat  BY <1>2, <1>3, <2>1 DEF Due
    <2> QED  BY <2>2, EntryIs
  <1>5. p[3] = TRUE /\ p = <<p[1], p[2], p[3]>>  BY EntryIs
  <1> QED  BY <1>1, <1>2, <1>4, <1>5 DEF Delayed

----------------------------------------------------------------------------
(* What a step changes in the ring and in what was replayed                *)

\* Pushing literals adds them to those the ring holds.
LEMMA PushedIs ==
    ASSUME NEW hs, Pushed(hs), NEW R, RingHolds(R), slot \in [0 .. SlotCount - 1 -> SUBSET Lit],
           filled \subseteq 0 .. SlotCount - 1, \A h \in hs : h[1] \in Lit /\ h[2] \in Nat,
           NEW U, U = R \cup {h \in hs : Delay[h[1]] > 0 /\ ~TooLate(h)}
    PROVE  /\ filled' = {DelayIndex(Due(h)) : h \in U}
           /\ \A i \in filled' : slot'[i] = SlotOf(U, i)
           /\ slot' \in [0 .. SlotCount - 1 -> SUBSET Lit]
           /\ filled' \subseteq 0 .. SlotCount - 1
  <1>1. PICK due : due = {h \in hs : Delay[h[1]] > 0 /\ ~TooLate(h)}  OBVIOUS
  <1>2. PICK used : used = {DelayIndex(Due(h)) : h \in due}  OBVIOUS
  <1>3. filled' = filled \cup used  BY <1>1, <1>2 DEF Pushed, Due
  <1>4. slot' = [i \in DOMAIN slot |->
                   IF i \in used
                   THEN {h[1] : h \in {x \in due : DelayIndex(Due(x)) = i}}
                        \cup (IF i \in filled THEN slot[i] ELSE {})
                   ELSE slot[i]]
    BY <1>1, <1>2 DEF Pushed, Due
  <1>5. U = R \cup due  BY <1>1
  <1>6. ASSUME NEW h \in due PROVE h[1] \in Lit /\ DelayIndex(Due(h)) \in 0 .. SlotCount - 1
    <2>1. h[1] \in Lit /\ h[2] \in Nat  BY <1>1
    <2>2. Delay[h[1]] \in Nat  BY <2>1, Constants
    <2>3. Due(h) \in Nat  BY <2>1, <2>2 DEF Due
    <2> QED  BY <2>1, <2>3, Residue
  <1>7. used \subseteq 0 .. SlotCount - 1  BY <1>2, <1>6
  <1>8. filled' = {DelayIndex(Due(h)) : h \in U}
    BY <1>2, <1>3, <1>5 DEF RingHolds
  <1>9. DOMAIN slot = 0 .. SlotCount - 1  OBVIOUS
  <1>10. ASSUME NEW i \in 0 .. SlotCount - 1
         PROVE  /\ slot'[i] = IF i \in used
                              THEN {h[1] : h \in {x \in due : DelayIndex(Due(x)) = i}}
                                   \cup (IF i \in filled THEN slot[i] ELSE {})
                              ELSE slot[i]
                /\ slot'[i] \in SUBSET Lit
    <2>1. slot'[i] = IF i \in used
                     THEN {h[1] : h \in {x \in due : DelayIndex(Due(x)) = i}}
                          \cup (IF i \in filled THEN slot[i] ELSE {})
                     ELSE slot[i]
      BY <1>4, <1>9
    <2>2. {h[1] : h \in {x \in due : DelayIndex(Due(x)) = i}} \subseteq Lit  BY <1>6
    <2>3. slot[i] \subseteq Lit  OBVIOUS
    <2> QED  BY <2>1, <2>2, <2>3
  <1>11. slot' \in [0 .. SlotCount - 1 -> SUBSET Lit]
    <2>1. slot' = [i \in 0 .. SlotCount - 1 |-> slot'[i]]  BY <1>4, <1>9
    <2> QED  BY <1>10, <2>1
  <1>12. ASSUME NEW i \in filled' PROVE slot'[i] = SlotOf(U, i)
    <2>1. SlotOf(U, i) = SlotOf(R, i) \cup SlotOf(due, i)  BY <1>5 DEF SlotOf
    <2>2. i \in filled => slot[i] = SlotOf(R, i)  BY DEF RingHolds
    <2>3. i \notin filled => SlotOf(R, i) = {}  BY DEF RingHolds, SlotOf
    <2>4. CASE i \in used
      <3>1. i \in 0 .. SlotCount - 1  BY <1>7, <2>4
      <3>2. slot'[i] = SlotOf(due, i) \cup (IF i \in filled THEN slot[i] ELSE {})
        BY <1>10, <2>4, <3>1 DEF SlotOf
      <3> QED  BY <2>1, <2>2, <2>3, <3>2
    <2>5. CASE i \notin used
      <3>1. i \in filled  BY <1>3, <2>5
      <3>2. SlotOf(due, i) = {}  BY <1>2, <2>5 DEF SlotOf
      <3>3. slot'[i] = slot[i]  BY <1>10, <2>5, <3>1
      <3> QED  BY <2>1, <2>2, <3>1, <3>2, <3>3
    <2> QED  BY <2>4, <2>5
  <1> QED  BY <1>3, <1>7, <1>8, <1>11, <1>12

\* A step that runs no program.
LEMMA QuietStep ==
    ASSUME Replayed, out' = out, \A p \in ToSet(out) : p[2] <= lastEnd',
           ToSet(out) \subseteq Entry,
           \A p \in Entry : Expect(p) => Expect(p)',
           \A p \in Entry : Expect(p)' /\ InBound(p) => Expect(p)
    PROVE  Replayed'
  <1>1. ToSet(out)' = ToSet(out)  BY DEF ToSet
  <1>2. IsInjective(out)'  BY DEF Replayed, IsInjective
  <1>3. ASSUME NEW p \in ToSet(out) PROVE Expect(p)' /\ p[2] <= lastEnd'
    <2>1. p \in Entry /\ Expect(p)  BY DEF Replayed
    <2> QED  BY <2>1
  <1>4. ASSUME NEW p \in Entry, Expect(p)', InBound(p) PROVE p \in ToSet(out)
    BY <1>4 DEF Replayed
  <1>5. Entry' = Entry /\ \A p : InBound(p)' = InBound(p)  BY DEF Entry, Literals, InBound
  <1> QED  BY <1>1, <1>2, <1>3, <1>4, <1>5 DEF Replayed

\* What is expected after a step is what was, and the programs of ids.
Runs(ids, at, delayed) ==
    /\ \A p \in Entry : Expect(p) => Expect(p)'
    /\ \A a \in ids : ~Expect(<<a, at, delayed>>) /\ Expect(<<a, at, delayed>>)'
    /\ \A p \in Entry : Expect(p)' /\ InBound(p) =>
          Expect(p) \/ \E a \in ids : p = <<a, at, delayed>>

\* A step that runs the programs of ids at offset at.
LEMMA PlayStep ==
    ASSUME Types, Place, Replayed, Roles, pc # "idle",
           NEW ids, ids \subseteq Literals, NEW at \in 1 .. MaxOffset, lastEnd <= at, at <= End,
           NEW delayed \in BOOLEAN, Play(ids, at, delayed, FlushLastByte(at)),
           lastEnd' = at, UNCHANGED <<offset, len>>,
           ~stopped' => Runs(ids, at, delayed)
    PROVE  /\ stopped' \in BOOLEAN /\ out' \in Seq(Entry) /\ Ordered(out')
           /\ lastByte' \subseteq Literals
           /\ ~stopped' => Replayed' /\ (pc' # "idle" => Roles')
  <1>1. ToSet(out) \subseteq Entry /\ out \in Seq(Entry) /\ Ordered(out)
    BY OutIs DEF Types
  <1>2. \A p \in ToSet(out) : Expect(p) /\ p[2] <= lastEnd  BY DEF Replayed
  <1>3. \A p \in ToSet(out) : p[2] \in Nat /\ p[2] <= at
    <2>1. ASSUME NEW p \in ToSet(out) PROVE p[2] \in Nat /\ p[2] <= at
      <3>1. p[2] \in Nat /\ p[2] <= lastEnd  BY <1>1, <1>2, EntryIs
      <3>2. PICK x, y : x = p[2] /\ y = lastEnd  OBVIOUS
      <3> QED  BY <3>1, <3>2, Numbers, Constants
    <2> QED  BY <2>1
  <1>4. /\ stopped' \in BOOLEAN /\ out' \in Seq(Entry) /\ Ordered(out')
        /\ \E ran \in SUBSET ids :
              (~stopped' => ran = ids) /\ Played(ran, at, delayed, FlushLastByte(at))
        /\ IsInjective(out) /\ New(ids, at, delayed) => IsInjective(out')
    <2>1. \A p \in ToSet(out) : p[2] <= at  BY <1>3
    <2>2. out \in Seq(Entry)  BY <1>1
    <2>3. Ordered(out)  BY <1>1
    <2>4. stopped' \in BOOLEAN   BY <2>1, <2>2, <2>3, PlayIs
    <2>5. out' \in Seq(Entry)   BY <2>1, <2>2, <2>3, PlayIs
    <2>6. Ordered(out')  BY <2>1, <2>2, <2>3, PlayIs
    <2>7. \E ran \in SUBSET ids :
              (~stopped' => ran = ids) /\ Played(ran, at, delayed, FlushLastByte(at))
      BY <2>1, <2>2, <2>3, PlayIs
    <2>8. IsInjective(out) /\ New(ids, at, delayed) => IsInjective(out')
      BY <2>1, <2>2, <2>3, PlayIs
    <2> QED  BY <2>4, <2>5, <2>6, <2>7, <2>8
  <1>5. PICK ran \in SUBSET ids :
              /\ ~stopped' => ran = ids
              /\ ToSet(out') = ToSet(out) \cup {<<a, at, delayed>> : a \in ran}
              /\ lastByte' = FlushLastByte(at) \cup ran
    BY <1>4 DEF Played
  <1>6. lastByte' \subseteq Literals
    <2>1. lastByte \subseteq Literals  BY DEF Types, TypeOK, Literals
    <2>2. FlushLastByte(at) \subseteq Literals  BY <2>1 DEF FlushLastByte
    <2> QED  BY <1>5, <2>2
  <1>7. ToSet(out)' = ToSet(out')  BY DEF ToSet
  <1>8. ASSUME ~stopped' PROVE Replayed'
    <2>1. /\ \A p \in Entry : Expect(p) => Expect(p)'
          /\ \A a \in ids : ~Expect(<<a, at, delayed>>) /\ Expect(<<a, at, delayed>>)'
          /\ \A p \in Entry : Expect(p)' /\ InBound(p) =>
                Expect(p) \/ \E a \in ids : p = <<a, at, delayed>>
      BY <1>8 DEF Runs
    <2>2. ToSet(out') = ToSet(out) \cup {<<a, at, delayed>> : a \in ids}  BY <1>5, <1>8
    <2>3. IsInjective(out)'
      <3>1. New(ids, at, delayed)  BY <1>2, <2>1 DEF New
      <3>2. IsInjective(out)  BY DEF Replayed
      <3>3. IsInjective(out')  BY <1>4, <3>1, <3>2
      <3> QED  BY <3>3 DEF IsInjective
    <2>4. ASSUME NEW p \in ToSet(out') PROVE Expect(p)' /\ p[2] <= lastEnd'
      <3>1. CASE p \in ToSet(out)  BY <1>1, <1>2, <1>3, <2>1, <3>1
      <3>2. CASE \E a \in ids : p = <<a, at, delayed>>
        <4>1. PICK a \in ids : p = <<a, at, delayed>>  BY <3>2
        <4>2. Expect(p)'  BY <2>1, <4>1
        <4>3. p[2] = at  BY <4>1
        <4> QED  BY <4>2, <4>3
      <3> QED  BY <2>2, <3>1, <3>2
    <2>5. ASSUME NEW p \in Entry, Expect(p)', InBound(p) PROVE p \in ToSet(out')
      <3>1. CASE Expect(p)
        <4>1. p \in ToSet(out)  BY <2>5, <3>1 DEF Replayed
        <4> QED  BY <2>2, <4>1
      <3>2. CASE \E a \in ids : p = <<a, at, delayed>>  BY <2>2, <3>2
      <3> QED  BY <2>1, <2>5, <3>1, <3>2
    <2>6. Entry' = Entry /\ \A p : InBound(p)' = InBound(p)  BY DEF Entry, Literals, InBound
    <2> QED  BY <1>7, <2>3, <2>4, <2>5, <2>6 DEF Replayed
  <1>9. ASSUME ~stopped', pc' # "idle" PROVE Roles'
    <2>1. PICK z : z = End  OBVIOUS
    <2>2. End' = z  BY <2>1 DEF End
    <2>3. SUFFICES ASSUME at = z
                   PROVE  lastByte' = {p[1] : p \in {x \in ToSet(out') : x[2] = z}}
      BY <1>7, <1>9, <2>2 DEF Roles
    <2>4. ToSet(out') = ToSet(out) \cup {<<a, at, delayed>> : a \in ids}  BY <1>5, <1>9
    <2>5. lastByte' = FlushLastByte(at) \cup ids  BY <1>5, <1>9
    <2>6. FlushLastByte(at) = {p[1] : p \in {x \in ToSet(out) : x[2] = z}}
      <3>1. CASE lastEnd = z  BY <2>1, <2>3, <3>1 DEF FlushLastByte, Roles
      <3>2. CASE lastEnd # z
        <4>1. FlushLastByte(at) = {}  BY <2>1, <2>3, <3>2 DEF FlushLastByte
        <4>2. ASSUME NEW x \in ToSet(out), x[2] = z PROVE FALSE
          <5>1. z <= lastEnd /\ lastEnd <= z /\ z \in Nat /\ lastEnd \in Nat
            BY <1>2, <2>1, <4>2, Numbers DEF Place
          <5> QED  BY <3>2, <5>1
        <4> QED  BY <4>1, <4>2
      <3> QED  BY <3>1, <3>2
    <2>7. ASSUME NEW a
          PROVE  a \in lastByte' <=> \E p \in ToSet(out') : p[2] = z /\ a = p[1]
      <3>1. ASSUME a \in lastByte' PROVE \E p \in ToSet(out') : p[2] = z /\ a = p[1]
        <4>1. CASE a \in ids
          <5>1. <<a, at, delayed>> \in ToSet(out')  BY <2>4, <4>1
          <5>2. <<a, at, delayed>>[2] = z /\ a = <<a, at, delayed>>[1]  BY <2>3
          <5> QED  BY <5>1, <5>2
        <4>2. CASE a \in FlushLastByte(at)  BY <2>4, <2>6, <4>2
        <4> QED  BY <2>5, <3>1, <4>1, <4>2
      <3>2. ASSUME NEW p \in ToSet(out'), p[2] = z, a = p[1] PROVE a \in lastByte'
        <4>1. CASE p \in ToSet(out)  BY <2>5, <2>6, <3>2, <4>1
        <4>2. CASE \E x \in ids : p = <<x, at, delayed>>  BY <2>5, <3>2, <4>2
        <4> QED  BY <2>4, <4>1, <4>2
      <3> QED  BY <3>1, <3>2
    <2> QED  BY <2>7
  <1> QED  BY <1>4, <1>6, <1>8, <1>9

----------------------------------------------------------------------------
(* The steps between the matchers                                          *)

\* Before the first write nothing was found and nothing is due.
LEMMA InitStep == Init => IInv
  <1> SUFFICES ASSUME Init PROVE IInv  OBVIOUS
  <1>1. ToSet(out) = {} /\ out = <<>>  BY DEF Init, ToSet
  <1>2. TypeOK
    <2>1. offset \in 0 .. MaxOffset /\ len \in 0 .. MaxOffset /\ delayLast \in 0 .. MaxOffset
          /\ lastEnd \in 0 .. MaxOffset /\ flushTo \in 0 .. MaxOffset
      BY Constants DEF Init
    <2>2. slot \in [0 .. SlotCount - 1 -> SUBSET Lit]
          /\ row \in [0 .. AnchoredDistance - 1 -> SUBSET Anch]
      BY DEF Init
    <2>3. anchIt \in Invalid .. AnchoredDistance - 1  BY Constants DEF Init, Invalid
    <2>4. hit \in {NoHit} \cup Lit \X (1 .. MaxOffset)  BY DEF Init
    <2> QED  BY <2>1, <2>2, <2>3, <2>4 DEF Init, TypeOK
  <1>3. End <= MaxOffset /\ End = 0  BY Constants DEF Init, End
  <1>4. out \in Seq(Entry) /\ Ordered(out)  BY <1>1 DEF Ordered
  <1>5. Types  BY <1>2, <1>3, <1>4 DEF Types, Init
  <1>6. Place  BY <1>3 DEF Init, Place, NoHit
  <1>7. Found /\ Ring /\ Log /\ Reached  BY DEF Init, Found, Ring, Log, Reached
  <1>8. Replayed
    <2>1. IsInjective(out)  BY <1>1 DEF IsInjective
    <2>2. \A p : ~Expect(p)  BY DEF Init, Expect
    <2> QED  BY <1>1, <2>1, <2>2 DEF Replayed
  <1>9. Roles  BY <1>1 DEF Roles, Init
  <1> QED  BY <1>5, <1>6, <1>7, <1>8, <1>9 DEF IInv, Alive

\* Between two writes the log is empty and no literal is in hand.
LEMMA AtRest ==
    ASSUME Types, Alive, pc = "idle"
    PROVE  logSum = {} /\ hit = NoHit /\ End = offset
  <1>1. len = 0 /\ hit = NoHit  BY DEF Alive, Place
  <1>2. End = offset  BY <1>1, Numbers DEF End
  <1>3. ASSUME NEW b \in logSum PROVE FALSE
    <2>1. offset <= b /\ b < End  BY DEF Alive, Log
    <2> QED  BY <1>2, <2>1, Numbers
  <1> QED  BY <1>1, <1>2, <1>3

\* roseStreamExec: the log and the ring are empty when a write begins.
LEMMA ExecStep ==
    ASSUME Types, Alive, NEW n \in 1 .. MaxOffset, roseStreamExec(n)
    PROVE  Types' /\ (~stopped' => Alive')
  <1>1. /\ pc = "idle" /\ ~stopped /\ offset + n <= MaxOffset
        /\ pc' = "anchored" /\ len' = n
        /\ delayLast' = offset /\ lastEnd' = offset
        /\ filled' = {} /\ logSum' = {}
        /\ UNCHANGED <<offset, slot, row, victims, anchIt, flushTo, hit, dirty,
                       lastByte, stopped, found, out>>
    BY DEF roseStreamExec, flush
  <1>2. logSum = {} /\ hit = NoHit /\ End = offset  BY <1>1, AtRest
  <1>3. End' = offset + n  BY <1>1 DEF End
  <1>4. /\ offset < End' /\ End' <= MaxOffset /\ End' \in Nat /\ offset \in Nat
        /\ offset \in 0 .. MaxOffset
    BY <1>1, <1>3, Numbers, Constants
  <1>5. Types'
    <2>1. TypeOK'  BY <1>1, <1>4 DEF Types, TypeOK
    <2> QED  BY <1>1, <1>4, <2>1 DEF Types, Entry, Literals, Ordered
  <1>6. Place'
    <2>1. hit' = NoHit  BY <1>1, <1>2
    <2> QED  BY <1>1, <1>4, <2>1 DEF Place
  <1>7. Found'
    <2>1. ASSUME NEW h \in found
          PROVE  h[2] <= End' /\ (h[1] \in Lit => LitLen[h[1]] <= h[2] /\ h[2] <= offset)
      <3>1. h[2] <= offset /\ (h[1] \in Lit => LitLen[h[1]] <= h[2])
        BY <1>2 DEF Alive, Found
      <3>2. h[2] \in Nat  BY FoundIs
      <3> QED  BY <1>4, <3>1, <3>2
    <2>2. Upto' = offset  BY <1>1 DEF Upto
    <2> QED  BY <1>1, <2>1, <2>2 DEF Found
  <1>8. Ring'
    <2>1. ~dirty /\ Early => \A h \in found : Delayed(h) => Due(h) <= offset
      BY <1>1 DEF Alive, Ring
    <2>2. Early' = Early  BY <1>1 DEF Early
    <2> QED  BY <1>1, <2>1, <2>2 DEF Ring, Delayed, Due
  <1>9. Log'
    <2>1. ASSUME NEW h \in found PROVE ~(h[2] > offset)
      <3>1. h[2] <= offset  BY <1>2 DEF Alive, Found
      <3>2. h[2] \in Nat  BY FoundIs
      <3> QED  BY <1>4, <3>1, <3>2
    <2> QED  BY <1>1, <2>1 DEF Log
  <1>10. Reached'
    <2>1. lastEnd' = offset' /\ lastEnd' <= delayLast'  BY <1>1, <1>4
    <2> QED  BY <1>1, <2>1 DEF Reached
  <1>11. Replayed'
    <2>1. ASSUME NEW p \in ToSet(out) PROVE p[2] <= lastEnd'
      <3>1. p[2] <= lastEnd /\ lastEnd <= offset  BY <1>2 DEF Alive, Replayed, Place
      <3>2. p[2] \in Nat  BY OutIs, EntryIs
      <3> QED  BY <1>1, <1>4, <3>1, <3>2, Numbers
    <2>2. Upto' = Upto  BY <1>1 DEF Upto
    <2>3. \A o : Gone(o)' <=> Gone(o)  BY <1>1, <2>2 DEF Gone
    <2>4. \A p : Expect(p)' <=> Expect(p)
      BY <1>1, <1>2, <2>3 DEF Expect, Delayed
    <2> QED  BY <1>1, <2>1, <2>4, OutIs, QuietStep DEF Alive
  <1>12. Roles'
    <2>1. lastEnd' # End'  BY <1>1, <1>3, <1>4
    <2> QED  BY <1>1, <2>1 DEF Roles
  <1> QED  BY <1>5, <1>6, <1>7, <1>8, <1>9, <1>10, <1>11, <1>12 DEF Alive

\* The anchored table is done with the write.
LEMMA AnchoredDoneStep ==
    ASSUME Types, ~stopped => Alive, AnchoredDone
    PROVE  Types' /\ (~stopped' => Alive')
  <1>1. /\ pc = "anchored" /\ pc' = IF stopped THEN "idle" ELSE "rebuild"
        /\ UNCHANGED <<offset, len, filled, slot, delayLast, lastEnd, logSum, row, victims,
                       anchIt, flushTo, hit, dirty, lastByte, stopped, found, out>>
    BY DEF AnchoredDone, ring, log, flush
  <1>2. Types'
    <2>1. TypeOK'  BY <1>1 DEF Types, TypeOK
    <2>2. End' = End  BY <1>1 DEF End
    <2> QED  BY <1>1, <2>1, <2>2 DEF Types, Entry, Literals, Ordered
  <1>3. ASSUME ~stopped PROVE Alive'
    <2>1. pc' = "rebuild" /\ Alive  BY <1>1, <1>3
    <2>2. End' = End /\ Upto' = Upto /\ Early' = Early  BY <1>1, <2>1 DEF End, Upto, Early
    <2>3. Place'  BY <1>1, <2>1, <2>2 DEF Alive, Place
    <2>4. Found'  BY <1>1, <2>1, <2>2 DEF Alive, Found
    <2>5. Ring'  BY <1>1, <2>1, <2>2 DEF Alive, Ring, Delayed, Due
    <2>6. Log'  BY <1>1, <2>1, <2>2 DEF Alive, Log
    <2>7. Reached'  BY <1>1, <2>1, <2>2 DEF Alive, Reached
    <2>8. Replayed'
      <3>1. \A o : Gone(o)' <=> Gone(o)  BY <1>1, <2>1, <2>2 DEF Gone
      <3>2. \A p : Expect(p)' <=> Expect(p)  BY <1>1, <3>1 DEF Expect, Delayed
      <3>3. \A p \in ToSet(out) : p[2] <= lastEnd'  BY <1>1, <2>1 DEF Alive, Replayed
      <3> QED  BY <1>1, <2>1, <3>2, <3>3, OutIs, QuietStep DEF Alive
    <2>9. Roles'  BY <1>1, <2>1, <2>2 DEF Alive, Roles, ToSet
    <2> QED  BY <2>3, <2>4, <2>5, <2>6, <2>7, <2>8, <2>9 DEF Alive
  <1> QED  BY <1>1, <1>2, <1>3

\* A scan that was stopped ends.
LEMMA FlushStoppedStep ==
    ASSUME Types, FlushStopped
    PROVE  Types' /\ stopped'
  <1>1. /\ pc = "flush" /\ stopped /\ pc' = "idle" /\ hit' = NoHit
        /\ UNCHANGED <<offset, len, filled, slot, delayLast, lastEnd, logSum, row, victims,
                       anchIt, flushTo, dirty, lastByte, stopped, found, out>>
    BY DEF FlushStopped, ring, log, flush
  <1>2. TypeOK'  BY <1>1 DEF Types, TypeOK
  <1>3. End' = End  BY <1>1 DEF End
  <1> QED  BY <1>1, <1>2, <1>3 DEF Types, Entry, Literals, Ordered

----------------------------------------------------------------------------
(* The ring is rebuilt                                                     *)

\* The rebuild reaches back as far as any literal that is still due.
LEMMA Reach ==
    ASSUME Types, Found, pc = "rebuild", delayLast = offset, hit = NoHit, NEW h \in found,
           Delayed(h), Due(h) > offset
    PROVE  InRebuild(h) /\ HistoryLength > 0
  <1>1. h[1] \in Lit /\ Delay[h[1]] > 0  BY DEF Delayed
  <1>2. /\ h[2] \in Nat /\ h[2] > 0 /\ Delay[h[1]] \in Nat
        /\ LitLen[h[1]] \in Nat /\ LitLen[h[1]] > 0 /\ NoHit \notin found
    BY <1>1, FoundIs, Numbers
  <1>3. LitLen[h[1]] <= h[2] /\ h[2] <= offset  BY <1>1, <1>2 DEF Found, Upto
  <1>4. PICK e \in Nat, d \in Nat, n \in Nat, o \in Nat, r \in Nat :
            /\ e = h[2] /\ d = Delay[h[1]] /\ n = LitLen[h[1]] /\ o = offset
            /\ r = HistoryRequired
    BY <1>2, Numbers, Constants
  <1>5. d > 0 /\ n > 0 /\ n <= e /\ e <= o /\ e + d > o /\ n + d - 1 <= r
    BY <1>1, <1>2, <1>3, <1>4, HistoryAssumption DEF Due
  <1>6. HistoryLength \in {o, r} /\ HistoryLength <= o /\ HistoryLength <= r
    <2>1. {o, r} \subseteq Nat /\ {o, r} # {}  OBVIOUS
    <2>2. Min({o, r}) \in {o, r} /\ \A y \in {o, r} : Min({o, r}) <= y  BY <2>1, Least
    <2>3. HistoryLength = Min({o, r})  BY <1>4 DEF HistoryLength
    <2> QED  BY <2>2, <2>3
  <1>7. DelayRebuildLength \in Nat /\ n + d - 1 <= DelayRebuildLength
    <2>1. PICK T : T = {0} \cup {LitLen[l] + Delay[l] - 1 : l \in {x \in Lit : Delay[x] > 0}}
      OBVIOUS
    <2>2. ASSUME NEW y \in T PROVE y \in Nat /\ y <= r
      <3>1. CASE y = 0  BY <3>1
      <3>2. CASE y # 0
        <4>1. PICK l \in Lit : Delay[l] > 0 /\ y = LitLen[l] + Delay[l] - 1  BY <2>1, <3>2
        <4>2. LitLen[l] \in Nat /\ LitLen[l] > 0 /\ Delay[l] \in Nat  BY Constants
        <4>3. LitLen[l] + Delay[l] - 1 <= r  BY <1>4, <4>1, HistoryAssumption
        <4>4. LitLen[l] + Delay[l] - 1 \in Nat  BY <4>1, <4>2
        <4> QED  BY <4>1, <4>3, <4>4
      <3> QED  BY <3>1, <3>2
    <2>3. T \subseteq Nat /\ T # {}  BY <2>1, <2>2
    <2>4. \A y \in T : y <= r  BY <2>2
    <2>5. Max(T) \in T /\ \A y \in T : Max(T) >= y  BY <2>3, <2>4, Greatest
    <2>6. DelayRebuildLength = Max(T)  BY <2>1 DEF DelayRebuildLength
    <2>7. n + d - 1 \in T  BY <1>1, <1>4, <2>1
    <2>8. n + d - 1 <= Max(T)  BY <2>2, <2>5, <2>7
    <2> QED  BY <2>2, <2>5, <2>6, <2>8
  <1>8. PICK a \in Nat, b \in Nat : a = HistoryLength /\ b = DelayRebuildLength
    BY <1>6, <1>7
  <1>9. RebuildLength \in {a, b} /\ RebuildLength <= a
    <2>1. {a, b} \subseteq Nat /\ {a, b} # {}  OBVIOUS
    <2>2. Min({a, b}) \in {a, b} /\ \A y \in {a, b} : Min({a, b}) <= y  BY <2>1, Least
    <2>3. RebuildLength = Min({a, b})  BY <1>8 DEF RebuildLength
    <2> QED  BY <2>2, <2>3
  <1>10. e - n >= o - a /\ a > 0
    <2>1. CASE a = o  BY <1>5, <2>1
    <2>2. CASE a = r  BY <1>5, <2>2
    <2> QED  BY <1>6, <1>8, <2>1, <2>2
  <1>11. e - n >= o - b  BY <1>5, <1>7, <1>8
  <1>12. e - n >= o - RebuildLength  BY <1>9, <1>10, <1>11
  <1>13. InRebuild(h)  BY <1>1, <1>4, <1>5, <1>12 DEF InRebuild
  <1> QED  BY <1>8, <1>10, <1>13

\* do_rebuild: the ring holds again what waits from earlier writes.
LEMMA RebuildStep ==
    ASSUME Types, Alive, ~stopped, Rebuild
    PROVE  Types' /\ Alive'
  <1>1. /\ pc = "rebuild" /\ pc' = "floating"
        /\ UNCHANGED <<offset, len, delayLast, lastEnd, logSum, row, victims, anchIt, flushTo,
                       hit, lastByte, stopped, found, out>>
    BY DEF Rebuild, log, flush
  <1>2. \/ NeedRebuild /\ dirty' = FALSE /\ Pushed({h \in found : InRebuild(h)})
        \/ ~NeedRebuild /\ UNCHANGED <<filled, slot, dirty>>
    BY DEF Rebuild, ring
  <1>3. delayLast = offset /\ hit = NoHit /\ filled = {}
    BY <1>1 DEF Alive, Place, Ring
  <1>4. /\ End' = End /\ Upto' = Upto /\ Queued' = Queued /\ Early' = Early
    BY <1>1 DEF End, Upto, Queued, Early, Delayed, Due
  <1>5. ASSUME NEW h \in found
        PROVE  h \in Queued <=> InRebuild(h) /\ Delay[h[1]] > 0 /\ ~TooLate(h) /\ Early
    <2>1. h # hit  BY <1>3, Numbers
    <2>2. h[1] \in Lit => h[2] <= offset
      BY <1>1, <1>3, <2>1 DEF Alive, Found, Upto
    <2>3. ASSUME h[1] \in Lit PROVE (h[2] > offset <=> FALSE) /\ (TooLate(h) <=> ~(Due(h) > delayLast))
      <3>1. h[2] \in Nat /\ Due(h) \in Nat  BY <2>3, FoundIs
      <3> QED  BY <2>2, <2>3, <3>1, Numbers DEF TooLate, Due
    <2>4. CASE h[1] \notin Lit  BY <2>4 DEF Queued, Delayed, InRebuild
    <2>5. CASE h[1] \in Lit
      <3>1. h \in Queued <=> Delay[h[1]] > 0 /\ Due(h) > delayLast /\ Early
        BY <2>1, <2>3, <2>5 DEF Queued, Delayed
      <3>2. Delay[h[1]] > 0 /\ Due(h) > delayLast => InRebuild(h)
        BY <1>1, <1>3, <2>5, Reach DEF Alive, Delayed
      <3> QED  BY <2>3, <2>5, <3>1, <3>2
    <2> QED  BY <2>4, <2>5
  <1>6. /\ filled' = {DelayIndex(Due(h)) : h \in Queued}
        /\ \A i \in filled' : slot'[i] = SlotOf(Queued, i)
        /\ slot' \in [0 .. SlotCount - 1 -> SUBSET Lit]
        /\ filled' \subseteq 0 .. SlotCount - 1
        /\ dirty' \in BOOLEAN
    <2>1. CASE NeedRebuild
      <3>1. Early  BY <2>1 DEF NeedRebuild, Early
      <3>2. PICK hs : hs = {h \in found : InRebuild(h)}  OBVIOUS
      <3>3. Pushed(hs) /\ dirty' = FALSE  BY <1>2, <2>1, <3>2
      <3>4. RingHolds({})  BY <1>3 DEF RingHolds
      <3>5. slot \in [0 .. SlotCount - 1 -> SUBSET Lit] /\ filled \subseteq 0 .. SlotCount - 1
        BY DEF Types, TypeOK
      <3>6. \A h \in hs : h[1] \in Lit /\ h[2] \in Nat
        BY <3>2, FoundIs DEF InRebuild
      <3>7. Queued = {} \cup {h \in hs : Delay[h[1]] > 0 /\ ~TooLate(h)}
        <4>1. Queued \subseteq found  BY DEF Queued
        <4> QED  BY <1>5, <3>1, <3>2, <4>1
      <3>8. PICK U : U = Queued  OBVIOUS
      <3>9. U = {} \cup {h \in hs : Delay[h[1]] > 0 /\ ~TooLate(h)}  BY <3>7, <3>8
      <3>10. filled' = {DelayIndex(Due(h)) : h \in U}
        BY <3>3, <3>4, <3>5, <3>6, <3>9, PushedIs
      <3>11. \A i \in filled' : slot'[i] = SlotOf(U, i)
        BY <3>3, <3>4, <3>5, <3>6, <3>9, PushedIs
      <3>12. slot' \in [0 .. SlotCount - 1 -> SUBSET Lit] /\ filled' \subseteq 0 .. SlotCount - 1
        BY <3>3, <3>4, <3>5, <3>6, <3>9, PushedIs
      <3> QED  BY <3>3, <3>8, <3>10, <3>11, <3>12
    <2>2. CASE ~NeedRebuild
      <3>1. UNCHANGED <<filled, slot, dirty>>  BY <1>2, <2>2
      <3>2. ASSUME NEW h \in Queued PROVE FALSE
        <4>1. h \in found /\ Delayed(h) /\ h[1] \in Lit /\ Due(h) \in Nat /\ delayLast < Due(h)
          BY <1>1, QueuedIs DEF Alive
        <4>2. Early  BY <1>5, <3>2, <4>1
        <4>3. ~(Due(h) <= offset) /\ Due(h) > offset  BY <1>3, <4>1, Numbers
        <4>4. dirty  BY <1>1, <4>1, <4>2, <4>3 DEF Alive, Ring
        <4>5. HistoryLength > 0  BY <1>1, <1>3, <4>1, <4>3, Reach DEF Alive
        <4> QED  BY <2>2, <4>2, <4>4, <4>5 DEF NeedRebuild, Early
      <3> QED  BY <1>3, <3>1, <3>2 DEF Types, TypeOK
    <2> QED  BY <2>1, <2>2
  <1>7. Types'
    <2>1. TypeOK'  BY <1>1, <1>6 DEF Types, TypeOK
    <2> QED  BY <1>1, <1>4, <2>1 DEF Types, Entry, Literals, Ordered
  <1>8. Place'  BY <1>1, <1>3, <1>4 DEF Alive, Place
  <1>9. Found'  BY <1>1, <1>4 DEF Alive, Found
  <1>10. Ring'
    <2>1. RingHolds(Queued)'  BY <1>4, <1>6 DEF RingHolds, SlotOf, Due
    <2> QED  BY <1>1, <2>1 DEF Ring
  <1>11. Log'  BY <1>1, <1>4 DEF Alive, Log
  <1>12. Reached'  BY <1>1 DEF Alive, Reached
  <1>13. Replayed'
    <2>1. \A o : Gone(o)' <=> Gone(o)  BY <1>1, <1>4 DEF Gone
    <2>2. \A p : Expect(p)' <=> Expect(p)  BY <1>1, <2>1 DEF Expect, Delayed
    <2>3. \A p \in ToSet(out) : p[2] <= lastEnd'  BY <1>1 DEF Alive, Replayed
    <2> QED  BY <1>1, <2>2, <2>3, OutIs, QuietStep DEF Alive
  <1>14. Roles'  BY <1>1, <1>4 DEF Alive, Roles, ToSet
  <1> QED  BY <1>7, <1>8, <1>9, <1>10, <1>11, <1>12, <1>13, <1>14 DEF Alive

----------------------------------------------------------------------------
(* The end of a write                                                      *)

\* cleanUpDelayed marks the stream dirty if anything is left in the ring.
LEMMA CleanUpStep ==
    ASSUME Types, Alive, ~stopped, CleanUp
    PROVE  Types' /\ Alive'
  <1>1. /\ pc = "cleanup" /\ pc' = "idle"
        /\ dirty' = (filled # {}) /\ filled' = {} /\ delayLast' = offset
        /\ lastByte' = FlushLastByte(End) /\ lastEnd' = End /\ offset' = End /\ len' = 0
        /\ UNCHANGED <<slot, logSum, row, victims, anchIt, flushTo, hit, stopped, found, out>>
    BY DEF CleanUp, log, flush
  <1>2. /\ delayLast = End /\ hit = NoHit /\ lastEnd <= End /\ offset < End
    BY <1>1 DEF Alive, Place
  <1>3. End' = End  BY <1>1, Numbers DEF End
  <1>4. logSum = {}
    <2>1. ASSUME NEW b \in logSum PROVE FALSE
      <3>1. delayLast <= b /\ b < End  BY <1>1 DEF Alive, Log
      <3> QED  BY <1>2, <3>1, Numbers
    <2> QED  BY <2>1
  <1>5. Upto' = End /\ Upto = End  BY <1>1, <1>2 DEF Upto
  <1>6. Types'
    <2>1. End \in 0 .. MaxOffset  BY Numbers, Constants
    <2>2. lastByte' \subseteq Lit \cup Anch  BY <1>1 DEF FlushLastByte, Types, TypeOK
    <2>3. TypeOK'  BY <1>1, <2>1, <2>2, Constants DEF Types, TypeOK
    <2> QED  BY <1>1, <1>3, <2>3 DEF Types, Entry, Literals, Ordered
  <1>7. Place'
    <2>1. lastEnd' <= End'  BY <1>1, <1>3, Numbers
    <2> QED  BY <1>1, <1>2, <2>1 DEF Place
  <1>8. Found'  BY <1>1, <1>3, <1>5 DEF Alive, Found
  <1>9. Ring'
    <2>1. ASSUME ~dirty', Early', NEW h \in found, Delayed(h), ~(Due(h) <= End) PROVE FALSE
      <3>1. Due(h) \in Nat  BY <2>1, FoundIs DEF Delayed
      <3>2. Due(h) > delayLast  BY <1>2, <2>1, <3>1, Numbers
      <3>3. h # hit  BY <1>2, Numbers
      <3>4. Early
        <4>1. CASE MaxDelayedMatch = Inf  BY <4>1 DEF Early
        <4>2. CASE MaxDelayedMatch # Inf
          <5>1. MaxDelayedMatch \in Nat /\ End < MaxDelayedMatch
            BY <1>1, <2>1, <4>2, Constants DEF Early
          <5> QED  BY <1>2, <5>1, Numbers DEF Early
        <4> QED  BY <4>1, <4>2
      <3>5. h \in Queued  BY <2>1, <3>2, <3>3, <3>4 DEF Queued
      <3>6. filled # {}  BY <1>1, <3>5 DEF Alive, Ring, RingHolds
      <3> QED  BY <1>1, <2>1, <3>6
    <2> QED  BY <1>1, <2>1 DEF Ring, Delayed, Due
  <1>10. Log'  BY <1>1, <1>4 DEF Log
  <1>11. Reached'  BY <1>1 DEF Reached
  <1>12. Replayed'
    <2>1. \A o : Gone(o)' <=> Gone(o)  BY <1>1, <1>5 DEF Gone
    <2>2. \A p : Expect(p)' <=> Expect(p)  BY <1>1, <2>1 DEF Expect, Delayed
    <2>3. ASSUME NEW p \in ToSet(out) PROVE p[2] <= lastEnd'
      <3>1. p[2] \in Nat /\ p[2] <= lastEnd  BY OutIs, EntryIs DEF Alive, Replayed
      <3> QED  BY <1>1, <1>2, <3>1, Numbers
    <2> QED  BY <1>1, <2>2, <2>3, OutIs, QuietStep DEF Alive
  <1>13. Roles'
    <2>1. ToSet(out)' = ToSet(out)  BY <1>1 DEF ToSet
    <2>2. CASE lastEnd = End
      <3>1. lastByte' = lastByte  BY <1>1, <2>2 DEF FlushLastByte
      <3> QED  BY <1>3, <2>1, <2>2, <3>1 DEF Alive, Roles
    <2>3. CASE lastEnd # End
      <3>1. lastByte' = {}  BY <1>1, <2>3 DEF FlushLastByte
      <3>2. ASSUME NEW p \in ToSet(out) PROVE p[2] # End
        <4>1. p[2] \in Nat /\ p[2] <= lastEnd  BY OutIs, EntryIs DEF Alive, Replayed
        <4> QED  BY <1>2, <2>3, <4>1, Numbers
      <3> QED  BY <1>3, <2>1, <3>1, <3>2 DEF Roles
    <2> QED  BY <2>2, <2>3
  <1> QED  BY <1>6, <1>7, <1>8, <1>9, <1>10, <1>11, <1>12, <1>13 DEF Alive

----------------------------------------------------------------------------
(* The end of a flush, and the program of the literal it was for           *)

\* A flush is over when all that is due by its end was played.
LEMMA FlushDoneStep ==
    ASSUME Types, Alive, FlushDone
    PROVE  Types' /\ Alive'
  <1>1. /\ pc = "flush" /\ ~stopped /\ FlushOver
        /\ delayLast' = flushTo
        /\ pc' = IF hit = NoHit THEN "cleanup" ELSE "literal"
        /\ UNCHANGED <<offset, len, filled, slot, lastEnd, logSum, row, victims, anchIt,
                       flushTo, hit, dirty, lastByte, stopped, found, out>>
    BY DEF FlushDone, ring, log, flush
  <1>2. victims = {} /\ (anchIt = Invalid \/ anchIt >= flushTo)  BY <1>1 DEF FlushOver
  <1>3. /\ delayLast <= flushTo /\ flushTo <= End /\ offset <= delayLast /\ offset < End
        /\ hit # NoHit => hit[2] = flushTo
        /\ hit = NoHit => flushTo = End
        /\ hit # NoHit => hit \in found /\ hit[1] \in Lit /\ hit[2] > offset
    BY <1>1 DEF Alive, Place
  <1>4. End' = End /\ Early' = Early /\ Upto' = flushTo /\ Upto = delayLast
    BY <1>1 DEF End, Early, Upto
  <1>5. offset <= flushTo  BY <1>3, Numbers
  <1>6. Types'
    <2>1. TypeOK'  BY <1>1 DEF Types, TypeOK
    <2> QED  BY <1>1, <1>4, <2>1 DEF Types, Entry, Literals, Ordered
  <1>7. Place'
    <2>1. lastEnd <= End  BY DEF Alive, Place
    <2> QED  BY <1>1, <1>3, <1>4, <1>5, <2>1 DEF Place
  <1>8. Found'
    <2>1. ASSUME NEW h \in found, h[1] \in Lit, h # hit PROVE h[2] <= flushTo
      <3>1. h[2] <= delayLast  BY <1>4, <2>1 DEF Alive, Found
      <3>2. h[2] \in Nat  BY FoundIs
      <3> QED  BY <1>3, <3>1, <3>2, Numbers
    <2>2. \A h \in found : h[2] <= End /\ (h[1] \in Lit => LitLen[h[1]] <= h[2])
      BY DEF Alive, Found
    <2> QED  BY <1>1, <1>4, <2>1, <2>2 DEF Found
  <1>9. Ring'
    <2>1. RingHolds({h \in Queued : Due(h) > flushTo})  BY <1>1 DEF Alive, Ring
    <2>2. ASSUME NEW h
          PROVE  h \in Queued /\ Due(h) > flushTo
                 <=> /\ h \in found /\ Delayed(h) /\ h # hit /\ Due(h) > flushTo
                     /\ h[2] > offset \/ Early
      <3>1. ASSUME h \in found, Delayed(h), Due(h) > flushTo PROVE Due(h) > delayLast
        <4>1. Due(h) \in Nat  BY <3>1, FoundIs DEF Delayed
        <4> QED  BY <1>3, <3>1, <4>1, Numbers
      <3> QED  BY <3>1 DEF Queued
    <2>3. Queued' = {h \in found : /\ Delayed(h) /\ h # hit /\ Due(h) > flushTo
                                   /\ h[2] > offset \/ Early}
      BY <1>1, <1>4 DEF Queued, Delayed, Due
    <2>4. Queued' = {h \in Queued : Due(h) > flushTo}
      <3>1. Queued \subseteq found  BY DEF Queued
      <3> QED  BY <2>2, <2>3, <3>1
    <2>5. RingHolds(Queued)'  BY <1>1, <2>1, <2>4 DEF RingHolds, SlotOf, Due
    <2> QED  BY <1>1, <2>5 DEF Ring
  <1>10. Log'
    <2>1. ASSUME NEW b \in logSum PROVE flushTo <= b
      <3>1. CASE anchIt = Invalid  BY <1>1, <3>1 DEF Alive, Log
      <3>2. CASE anchIt # Invalid
        <4>1. anchIt \in logSum /\ anchIt <= b  BY <1>1, <3>2 DEF Alive, Log
        <4> QED  BY <1>2, <3>2, <4>1, Numbers
      <3> QED  BY <3>1, <3>2
    <2> QED  BY <1>1, <1>4, <2>1 DEF Alive, Log
  <1>11. Reached'  BY <1>1 DEF Alive, Reached
  <1>12. Replayed'
    <2>1. ASSUME NEW o \in Nat PROVE Gone(o)' <=> Gone(o)
      <3>1. Gone(o)' <=> o <= flushTo  BY <1>1, <1>4 DEF Gone
      <3>2. Gone(o) <=> o <= delayLast \/ o <= flushTo  BY <1>1, <1>2, <1>4 DEF Gone
      <3>3. o <= delayLast => o <= flushTo  BY <1>3, Numbers
      <3> QED  BY <3>1, <3>2, <3>3
    <2>2. \A p \in Entry : Expect(p)' <=> Expect(p)
      BY <1>1, <2>1, EntryIs DEF Expect, Delayed
    <2>3. \A p \in ToSet(out) : p[2] <= lastEnd'  BY <1>1 DEF Alive, Replayed
    <2> QED  BY <1>1, <2>2, <2>3, OutIs, QuietStep DEF Alive
  <1>13. Roles'  BY <1>1, <1>4 DEF Alive, Roles, ToSet
  <1> QED  BY <1>6, <1>7, <1>8, <1>9, <1>10, <1>11, <1>12, <1>13 DEF Alive

\* roseProcessMatchInline: the literal is queued if it has a delay, then played.
LEMMA LiteralStep ==
    ASSUME Types, Alive, ~stopped, LiteralProgram
    PROVE  Types' /\ (~stopped' => Alive')
  <1>1. /\ pc = "literal" /\ Pushed({hit})
        /\ pc' = (IF stopped' THEN "idle" ELSE "floating") /\ hit' = NoHit
        /\ UNCHANGED <<offset, len, delayLast, logSum, row, victims, anchIt, flushTo,
                       dirty, found>>
    BY DEF LiteralProgram, log, flush
  <1>2. /\ hit # NoHit /\ hit \in found /\ hit[1] \in Lit /\ hit[2] > offset
        /\ hit[2] = delayLast /\ offset <= delayLast /\ delayLast <= End /\ offset < End
        /\ lastEnd <= End
    BY <1>1 DEF Alive, Place
  <1>3. PICK l \in Lit, e \in 1 .. MaxOffset : hit = <<l, e>> /\ l = hit[1] /\ e = hit[2]
    BY <1>2, FoundIs
  <1>4. e \in Nat /\ e = delayLast /\ <<l, e>> \in found /\ l \notin Anch
    BY <1>2, <1>3, Constants
  <1>5. \/ e < FloatMin /\ UNCHANGED <<lastEnd, lastByte, stopped, out>>
        \/ /\ e >= FloatMin /\ lastEnd' = e
           /\ Play({l}, e, FALSE, FlushLastByte(e))
    BY <1>3 DEF LiteralProgram
  <1>6. End' = End /\ Early' = Early  BY <1>1 DEF End, Early
  <1>7. lastEnd <= delayLast \/ lastEnd <= FloatMin  BY <1>1 DEF Alive, Reached
  <1>8. /\ filled' = {DelayIndex(Due(h)) : h \in Queued'}
        /\ \A i \in filled' : slot'[i] = SlotOf(Queued', i)
        /\ slot' \in [0 .. SlotCount - 1 -> SUBSET Lit]
        /\ filled' \subseteq 0 .. SlotCount - 1
    <2>1. PICK hs : hs = {hit}  OBVIOUS
    <2>2. PICK R : R = Queued  OBVIOUS
    <2>3. PICK U : U = Queued'  OBVIOUS
    <2>4. Pushed(hs)  BY <1>1, <2>1
    <2>5. RingHolds(R)  BY <1>1, <2>2 DEF Alive, Ring
    <2>6. slot \in [0 .. SlotCount - 1 -> SUBSET Lit] /\ filled \subseteq 0 .. SlotCount - 1
      BY DEF Types, TypeOK
    <2>7. \A h \in hs : h[1] \in Lit /\ h[2] \in Nat  BY <1>2, <1>3, <1>4, <2>1
    <2>8. U = R \cup {h \in hs : Delay[h[1]] > 0 /\ ~TooLate(h)}
      <3>1. Queued' = {h \in found : /\ Delayed(h) /\ h # NoHit /\ Due(h) > delayLast
                                     /\ h[2] > offset \/ Early}
        BY <1>1, <1>6 DEF Queued, Delayed, Due
      <3>2. \A h \in found : h # NoHit  BY Numbers
      <3>3. TooLate(hit) <=> ~(Due(hit) > delayLast)
        <4>1. Due(hit) \in Nat  BY <1>2, FoundIs
        <4> QED  BY <4>1, Numbers DEF TooLate, Due
      <3>4. hit \in Queued' <=> Delay[hit[1]] > 0 /\ ~TooLate(hit)
        BY <1>2, <3>1, <3>2, <3>3 DEF Delayed
      <3>5. ASSUME NEW h, h # hit PROVE h \in Queued' <=> h \in Queued
        BY <3>1, <3>2, <3>5 DEF Queued
      <3>6. hit \notin Queued  BY DEF Queued
      <3> QED  BY <2>1, <2>2, <2>3, <3>4, <3>5, <3>6
    <2>9. filled' = {DelayIndex(Due(h)) : h \in U}
      BY <2>4, <2>5, <2>6, <2>7, <2>8, PushedIs
    <2>10. \A i \in filled' : slot'[i] = SlotOf(U, i)
      BY <2>4, <2>5, <2>6, <2>7, <2>8, PushedIs
    <2>11. slot' \in [0 .. SlotCount - 1 -> SUBSET Lit] /\ filled' \subseteq 0 .. SlotCount - 1
      BY <2>4, <2>5, <2>6, <2>7, <2>8, PushedIs
    <2> QED  BY <2>3, <2>9, <2>10, <2>11
  <1>9. /\ stopped' \in BOOLEAN /\ out' \in Seq(Entry) /\ Ordered(out')
        /\ lastByte' \subseteq Literals /\ lastEnd' \in 0 .. MaxOffset
        /\ lastEnd' <= End
        /\ lastEnd' <= delayLast \/ lastEnd' <= FloatMin
        /\ ~stopped' => Replayed' /\ Roles'
        /\ \A b \in logSum : lastEnd' <= b
    <2>0. \A o : ~stopped' => (Gone(o)' <=> Gone(o))  BY <1>1 DEF Gone, Upto
    <2>10. \A b \in logSum : delayLast <= b /\ lastEnd <= b  BY <1>1 DEF Alive, Log
    <2>1. CASE e < FloatMin /\ UNCHANGED <<lastEnd, lastByte, stopped, out>>
      <3>1. \A p \in Entry : Expect(p)' <=> Expect(p)
        <4>1. ASSUME NEW p \in Entry PROVE Expect(p)' <=> Expect(p)
          <5>1. p[2] \in Nat  BY EntryIs
          <5>2. <<p[1], p[2]>> = hit => p[2] = e  BY <1>3
          <5>3. <<p[1], p[2]>> = hit => ~(p[2] >= FloatMin)  BY <2>1, <5>1, <5>2, Constants
          <5>4. <<p[1], p[2]>> # NoHit  BY DEF NoHit
          <5> QED  BY <1>1, <2>0, <2>1, <5>3, <5>4 DEF Expect, Delayed
        <4> QED  BY <4>1
      <3>2. \A p \in ToSet(out) : p[2] <= lastEnd'  BY <2>1 DEF Alive, Replayed
      <3>3. Replayed'  BY <2>1, <3>1, <3>2, OutIs, QuietStep DEF Alive
      <3>4. Roles'  BY <1>1, <1>6, <2>1 DEF Alive, Roles, ToSet
      <3>5. out' \in Seq(Entry) /\ Ordered(out') /\ lastByte' \subseteq Literals
            /\ lastEnd' \in 0 .. MaxOffset
        BY <2>1 DEF Types, TypeOK, Literals
      <3>6. stopped' \in BOOLEAN  BY <2>1, Numbers
      <3> QED  BY <1>2, <1>7, <2>1, <2>10, <3>3, <3>4, <3>5, <3>6
    <2>2. CASE e >= FloatMin /\ lastEnd' = e /\ Play({l}, e, FALSE, FlushLastByte(e))
      <3>1. lastEnd <= e /\ e <= End  BY <1>2, <1>4, <1>7, <2>2, Numbers, Constants
      <3>2. ASSUME ~stopped' PROVE Runs({l}, e, FALSE)
        <4>1. ASSUME NEW p \in Entry
              PROVE  Expect(p)' <=> Expect(p) \/ p = <<l, e, FALSE>>
          <5>1. p[3] \in BOOLEAN /\ p = <<p[1], p[2], p[3]>>  BY EntryIs
          <5>2. CASE p[3]
            <6>2. p = <<l, e, FALSE>> => p[3] = FALSE  OBVIOUS
            <6>1. p # <<l, e, FALSE>>  BY <5>2, <6>2
            <6> QED  BY <1>1, <2>0, <3>2, <5>2, <6>1 DEF Expect, Delayed
          <5>3. CASE ~p[3]
            <6>0. p[3] = FALSE  BY <5>1, <5>3
            <6>7. p = <<p[1], p[2], FALSE>>  BY <5>1, <6>0
            <6>8. p = <<l, e, FALSE>> => p[1] = l /\ p[2] = e  OBVIOUS
            <6>1. p = <<l, e, FALSE>> <=> p[1] = l /\ p[2] = e  BY <6>7, <6>8
            <6>2. <<p[1], p[2]>> = hit <=> p[1] = l /\ p[2] = e  BY <1>3
            <6>3. <<p[1], p[2]>> # NoHit  BY DEF NoHit
            <6>4. CASE p[1] = l /\ p[2] = e
              <7>1. Expect(p)'  BY <1>1, <1>4, <2>2, <5>3, <6>3, <6>4 DEF Expect
              <7> QED  BY <6>1, <6>4, <7>1
            <6>5. CASE ~(p[1] = l /\ p[2] = e)
              BY <1>1, <5>3, <6>1, <6>2, <6>3, <6>5 DEF Expect
            <6> QED  BY <6>4, <6>5
          <5> QED  BY <5>2, <5>3
        <4>2. <<l, e, FALSE>> \in Entry  BY <1>3 DEF Entry, Literals
        <4>3. ~Expect(<<l, e, FALSE>>)  BY <1>3, <1>4 DEF Expect
        <4>4. Expect(<<l, e, FALSE>>)'  BY <4>1, <4>2
        <4> QED  BY <4>1, <4>3, <4>4 DEF Runs
      <3>3. {l} \subseteq Literals  BY DEF Literals
      <3>4. pc # "idle" /\ UNCHANGED <<offset, len>>  BY <1>1
      <3>5. stopped' \in BOOLEAN
        BY <2>2, <3>1, <3>2, <3>3, <3>4, PlayStep DEF Alive
      <3>6. out' \in Seq(Entry) /\ Ordered(out')
        BY <2>2, <3>1, <3>2, <3>3, <3>4, PlayStep DEF Alive
      <3>7. lastByte' \subseteq Literals
        BY <2>2, <3>1, <3>2, <3>3, <3>4, PlayStep DEF Alive
      <3>8. ~stopped' => Replayed' /\ (pc' # "idle" => Roles')
        BY <2>2, <3>1, <3>2, <3>3, <3>4, PlayStep DEF Alive
      <3>9. lastEnd' \in 0 .. MaxOffset /\ lastEnd' <= End /\ lastEnd' <= delayLast
        BY <1>4, <2>2, <3>1, Constants
      <3>10. \A b \in logSum : lastEnd' <= b  BY <1>4, <2>2, <2>10
      <3> QED  BY <1>1, <3>5, <3>6, <3>7, <3>8, <3>9, <3>10
    <2> QED  BY <1>5, <2>1, <2>2
  <1>10. Types'
    <2>1. TypeOK'  BY <1>1, <1>8, <1>9 DEF Types, TypeOK, Literals
    <2>2. Ordered(out)' /\ (out \in Seq(Entry))'  BY <1>9 DEF Ordered, Entry, Literals
    <2>3. stopped' => pc' = "idle"  BY <1>1
    <2> QED  BY <1>6, <2>1, <2>2, <2>3 DEF Types
  <1>11. ASSUME ~stopped' PROVE Alive'
    <2>1. pc' = "floating" /\ hit' = NoHit  BY <1>1, <1>11
    <2>2. Place'  BY <1>1, <1>2, <1>4, <1>6, <1>9, <2>1 DEF Place
    <2>3. Found'
      <3>1. Upto' = delayLast /\ Upto = delayLast  BY <1>1, <2>1 DEF Upto
      <3>2. ASSUME NEW h \in found, h[1] \in Lit PROVE h[2] <= delayLast
        <4>1. CASE h = hit  BY <1>2, <4>1, Numbers
        <4>2. CASE h # hit  BY <3>1, <3>2, <4>2 DEF Alive, Found
        <4> QED  BY <4>1, <4>2
      <3>3. \A h \in found : h[2] <= End /\ (h[1] \in Lit => LitLen[h[1]] <= h[2])
        BY DEF Alive, Found
      <3> QED  BY <1>1, <1>6, <3>1, <3>2, <3>3 DEF Found
    <2>4. Ring'
      <3>1. RingHolds(Queued)'  BY <1>8 DEF RingHolds, SlotOf, Due
      <3> QED  BY <2>1, <3>1 DEF Ring
    <2>5. Log'
      <3>1. \A b \in logSum : /\ offset <= b /\ FloatMin <= b /\ b < End /\ delayLast <= b
                              /\ row[b] = {a \in Anch : <<a, b + 1>> \in found}
        BY <1>1 DEF Alive, Log
      <3> QED  BY <1>1, <1>6, <1>9, <2>1, <3>1 DEF Log
    <2>6. Reached'  BY <1>1, <1>9, <2>1 DEF Reached
    <2> QED  BY <1>9, <1>11, <2>2, <2>3, <2>4, <2>5, <2>6 DEF Alive
  <1> QED  BY <1>10, <1>11

----------------------------------------------------------------------------
(* The beginning of a flush                                                *)

\* The next row of the log, if there is one.
LEMMA NextBitIs ==
    ASSUME logSum \subseteq Nat, NEW b \in Int
    PROVE  /\ NextBit(b) = Invalid => \A x \in logSum : x <= b
           /\ NextBit(b) # Invalid =>
                 /\ NextBit(b) \in logSum /\ NextBit(b) > b
                 /\ \A x \in logSum : x > b => NextBit(b) <= x
  <1>1. PICK T : T = {x \in logSum : x > b}  OBVIOUS
  <1>2. T \subseteq Nat  BY <1>1
  <1>3. CASE T = {}
    <2>1. NextBit(b) = Invalid  BY <1>1, <1>3 DEF NextBit
    <2>2. ASSUME NEW x \in logSum PROVE x <= b
      <3>1. x \in Nat /\ ~(x > b)  BY <1>1, <1>3
      <3> QED  BY <3>1
    <2> QED  BY <2>1, <2>2
  <1>4. CASE T # {}
    <2>1. Min(T) \in T /\ \A y \in T : Min(T) <= y  BY <1>2, <1>4, Least
    <2>2. NextBit(b) = Min(T)  BY <1>1, <1>4 DEF NextBit
    <2>3. Min(T) # Invalid  BY <1>2, <2>1 DEF Invalid
    <2> QED  BY <1>1, <2>1, <2>2, <2>3
  <1> QED  BY <1>3, <1>4

\* What a flush takes over from the ring and the log.
Begun(to) ==
    /\ filled' = {DelayIndex(Due(h)) : h \in {x \in Queued : Due(x) > to}}
    /\ filled' \subseteq 0 .. SlotCount - 1
    /\ \A i \in filled' : slot[i] = SlotOf({x \in Queued : Due(x) > to}, i)
    /\ victims' \subseteq 0 .. 2 * SlotCount - 1
    /\ \A v \in victims' :
          /\ delayLast < v + Base /\ v + Base <= to
          /\ slot[DelayIndex(v)] = {h[1] : h \in {x \in Queued : Due(x) = v + Base}}
    /\ \A h \in Queued : Due(h) > to \/ Due(h) - Base \in victims'
    /\ anchIt' \in Invalid .. AnchoredDistance - 1
    /\ IF anchIt' = Invalid
       THEN /\ \A b \in logSum : to <= b
            /\ victims' # {} => logSum = {}
       ELSE anchIt' \in logSum /\ \A b \in logSum : anchIt' <= b

\* A flush takes the slots that are due by its end, and starts at the first row.
LEMMA BeginStep ==
    ASSUME Types, Alive, pc = "floating", NEW to \in Nat, delayLast <= to, BeginFlush(to)
    PROVE  Begun(to)
  <1>1. RingHolds(Queued) /\ Found  BY DEF Alive, Ring
  <1>2. /\ \A h \in Queued : /\ Due(h) \in Nat /\ delayLast < Due(h)
                             /\ Due(h) < delayLast + SlotCount
        /\ filled \subseteq 0 .. SlotCount - 1
        /\ delayLast \in Nat /\ Base \in Nat /\ lastEnd \in Nat
    BY <1>1, QueuedIs, Numbers DEF Types, TypeOK
  <1>3. \A b \in logSum : /\ b \in Nat /\ b < AnchoredDistance
                          /\ delayLast <= b /\ lastEnd <= b
    BY Numbers DEF Alive, Log
  <1>4. CASE delayLast = to \/ (filled = {} /\ logSum = {})
    <2>1. victims' = {} /\ anchIt' = Invalid /\ filled' = filled  BY <1>4 DEF BeginFlush
    <2>2. \A h \in Queued : Due(h) > to
      <3>1. CASE delayLast = to  BY <1>2, <3>1
      <3>2. CASE filled = {}  BY <1>1, <3>2 DEF RingHolds
      <3> QED  BY <1>4, <3>1, <3>2
    <2>3. {x \in Queued : Due(x) > to} = Queued  BY <2>2
    <2>4. anchIt' \in Invalid .. AnchoredDistance - 1  BY <2>1, Constants DEF Invalid
    <2>5. \A b \in logSum : to <= b  BY <1>3, <1>4
    <2>6. filled' = {DelayIndex(Due(h)) : h \in {x \in Queued : Due(x) > to}}
      BY <1>1, <2>1, <2>3 DEF RingHolds
    <2>7. \A i \in filled' : slot[i] = SlotOf({x \in Queued : Due(x) > to}, i)
      BY <1>1, <2>1, <2>3 DEF RingHolds
    <2> QED  BY <1>2, <2>1, <2>2, <2>4, <2>5, <2>6, <2>7 DEF Begun
  <1>5. CASE ~(delayLast = to \/ (filled = {} /\ logSum = {}))
    <2>1. /\ victims' = Victims(to) /\ anchIt' = AnchoredBegin
          /\ filled' = filled \ {DelayIndex(v) : v \in Victims(to)}
      BY <1>5 DEF BeginFlush
    <2>2. delayLast < to  BY <1>2, <1>5
    <2>3. PICK D : D = {Due(h) : h \in Queued}  OBVIOUS
    <2>4. D \subseteq Nat /\ \A o \in D : delayLast < o /\ o < delayLast + SlotCount
      BY <1>2, <2>3
    <2>5. filled = {DelayIndex(o) : o \in D}  BY <1>1, <2>3 DEF RingHolds
    <2>6. Victims(to) = {o - Base : o \in {x \in D : x <= to}}
      BY <1>2, <2>2, <2>4, <2>5, VictimsAre
    <2>7. filled \ {DelayIndex(v) : v \in Victims(to)} = {DelayIndex(o) : o \in {x \in D : x > to}}
      BY <1>2, <2>2, <2>4, <2>5, VictimsAre
    <2>8. Victims(to) \subseteq 0 .. 2 * SlotCount - 1
      BY <1>2, <2>2, <2>4, <2>5, VictimsAre
    <2>9. filled' = {DelayIndex(Due(h)) : h \in {x \in Queued : Due(x) > to}}
      BY <2>1, <2>3, <2>7
    <2>10. filled' \subseteq 0 .. SlotCount - 1  BY <1>2, <2>1
    <2>11. ASSUME NEW h \in Queued, NEW i, i = DelayIndex(Due(h))
           PROVE  slot[i] = {x[1] : x \in {y \in Queued : Due(y) = Due(h)}}
      <3>1. i \in filled /\ slot[i] = SlotOf(Queued, i)  BY <1>1, <2>11 DEF RingHolds
      <3>2. \A y \in Queued : DelayIndex(Due(y)) = i <=> Due(y) = Due(h)
        BY <1>1, <2>11, SameSlot
      <3> QED  BY <3>1, <3>2 DEF SlotOf
    <2>12. ASSUME NEW i \in filled'
           PROVE  slot[i] = SlotOf({x \in Queued : Due(x) > to}, i)
      <3>1. PICK h \in Queued : Due(h) > to /\ i = DelayIndex(Due(h))  BY <2>9
      <3>2. slot[i] = {x[1] : x \in {y \in Queued : Due(y) = Due(h)}}  BY <2>11, <3>1
      <3>3. ASSUME NEW y \in Queued
            PROVE  Due(y) = Due(h) <=> Due(y) > to /\ DelayIndex(Due(y)) = i
        <4>1. DelayIndex(Due(y)) = i => Due(y) = Due(h)  BY <1>1, <3>1, SameSlot
        <4> QED  BY <3>1, <4>1
      <3>4. SlotOf({x \in Queued : Due(x) > to}, i)
              = {x[1] : x \in {y \in Queued : Due(y) > to /\ DelayIndex(Due(y)) = i}}
        BY DEF SlotOf
      <3>5. {y \in Queued : Due(y) = Due(h)}
              = {y \in Queued : Due(y) > to /\ DelayIndex(Due(y)) = i}
        BY <3>3
      <3> QED  BY <3>2, <3>4, <3>5
    <2>13. ASSUME NEW v \in victims'
           PROVE  /\ delayLast < v + Base /\ v + Base <= to
                  /\ slot[DelayIndex(v)] = {h[1] : h \in {x \in Queued : Due(x) = v + Base}}
      <3>1. PICK h \in Queued : Due(h) <= to /\ v = Due(h) - Base  BY <2>1, <2>3, <2>6
      <3>2. v + Base = Due(h)
        <4>1. PICK a \in Nat, b \in Nat : a = Due(h) /\ b = Base  BY <1>2
        <4> QED  BY <3>1, <4>1
      <3>3. DelayIndex(v) = DelayIndex(Due(h))  BY <1>2, <3>1, Number
      <3>4. slot[DelayIndex(v)] = {x[1] : x \in {y \in Queued : Due(y) = Due(h)}}
        BY <2>11, <3>3
      <3> QED  BY <1>2, <3>1, <3>2, <3>4
    <2>14. ASSUME NEW h \in Queued PROVE Due(h) > to \/ Due(h) - Base \in victims'
      <3>1. Due(h) \in D /\ Due(h) \in Nat  BY <1>2, <2>3
      <3> QED  BY <2>1, <2>6, <3>1
    <2>15. /\ anchIt' \in Invalid .. AnchoredDistance - 1
           /\ anchIt' = Invalid => logSum = {}
           /\ anchIt' # Invalid => anchIt' \in logSum /\ \A b \in logSum : anchIt' <= b
      <3>1. CASE lastEnd >= AnchoredDistance
        <4>1. anchIt' = Invalid  BY <2>1, <3>1 DEF AnchoredBegin
        <4>2. ASSUME NEW b \in logSum PROVE FALSE
          <5>1. b < AnchoredDistance /\ lastEnd <= b /\ b \in Nat  BY <1>3
          <5> QED  BY <1>2, <3>1, <5>1, Constants
        <4> QED  BY <4>1, <4>2, Constants DEF Invalid
      <3>2. CASE ~(lastEnd >= AnchoredDistance)
        <4>1. PICK c \in Int : c = lastEnd - 1  BY <1>2
        <4>2. anchIt' = NextBit(c)  BY <2>1, <3>2, <4>1 DEF AnchoredBegin
        <4>3. \A b \in logSum : b > c /\ ~(b <= c)  BY <1>2, <1>3, <4>1
        <4>4. logSum \subseteq Nat  BY <1>3
        <4>5. anchIt' = Invalid => logSum = {}  BY <4>2, <4>3, <4>4, NextBitIs
        <4>6. anchIt' # Invalid => anchIt' \in logSum /\ \A b \in logSum : anchIt' <= b
          BY <4>2, <4>3, <4>4, NextBitIs
        <4>7. anchIt' \in Invalid .. AnchoredDistance - 1
          BY <1>3, <4>6, Constants DEF Invalid
        <4> QED  BY <4>5, <4>6, <4>7
      <3> QED  BY <3>1, <3>2
    <2> QED  BY <2>1, <2>8, <2>9, <2>10, <2>12, <2>13, <2>14, <2>15 DEF Begun
  <1> QED  BY <1>4, <1>5

\* A flush begins; the literal it is for may have been found with this step.
LEMMA EnterFlush ==
    ASSUME Types, Alive, pc = "floating", pc' = "flush",
           NEW to \in 0 .. MaxOffset, delayLast <= to, BeginFlush(to),
           UNCHANGED <<offset, len, slot, delayLast, lastEnd, logSum, row, dirty, lastByte,
                       stopped, out>>,
           found \subseteq found', found' \subseteq Literals \X (1 .. MaxOffset),
           \A h \in found' : h \notin found => h = hit' /\ h[1] \in Lit /\ h[2] = to,
           hit' \notin found
    PROVE  /\ filled' \subseteq 0 .. SlotCount - 1
           /\ victims' \subseteq 0 .. 2 * SlotCount - 1
           /\ anchIt' \in Invalid .. AnchoredDistance - 1
           /\ flushTo' = to
           /\ Ring' /\ Log' /\ Reached' /\ Replayed' /\ Roles'
  <1>1. Begun(to) /\ flushTo' = to /\ to \in Nat
    <2>1. to \in Nat  BY Constants
    <2> QED  BY <2>1, BeginStep DEF BeginFlush
  <1>2. End' = End /\ Early' = Early /\ Base' = Base /\ Upto' = delayLast /\ Upto = delayLast
    BY DEF End, Early, Base, Upto
  <1>3. hit = NoHit /\ NoHit \notin found /\ Base \in Nat /\ delayLast \in Nat /\ lastEnd \in Nat
    BY Numbers DEF Alive, Place
  <1>4. Queued' = Queued
    <2>1. Queued' = {h \in found' : /\ Delayed(h) /\ h # hit' /\ Due(h) > delayLast
                                    /\ h[2] > offset \/ Early}
      BY <1>2 DEF Queued, Delayed, Due
    <2>2. ASSUME NEW h PROVE h \in found' /\ h # hit' <=> h \in found /\ h # hit
      BY <1>3
    <2> QED  BY <2>1, <2>2 DEF Queued
  <1>5. Ring'
    <2>1. PICK R : R = {h \in Queued : Due(h) > to}  OBVIOUS
    <2>2. filled' = {DelayIndex(Due(h)) : h \in R}  BY <1>1, <2>1 DEF Begun
    <2>3. \A i \in filled' : slot[i] = SlotOf(R, i)  BY <1>1, <2>1 DEF Begun
    <2>4. R = {h \in Queued' : Due(h) > flushTo'}  BY <1>1, <1>4, <2>1
    <2>5. RingHolds({h \in Queued : Due(h) > flushTo})'
      BY <2>2, <2>3, <2>4 DEF RingHolds, SlotOf, Due
    <2>6. \A v \in victims' :
             /\ delayLast < v + Base /\ v + Base <= to
             /\ slot[DelayIndex(v)] = {h[1] : h \in {x \in Queued : Due(x) = v + Base}}
      BY <1>1 DEF Begun
    <2>7. \A v \in victims' :
             /\ delayLast' < v + Base' /\ v + Base' <= flushTo'
             /\ slot'[DelayIndex(v)] = {h[1] : h \in {x \in Queued' : Due(x) = v + Base'}}
      BY <1>1, <1>2, <1>4, <2>6
    <2> QED  BY <2>5, <2>7 DEF Ring, Due
  <1>6. Log'
    <2>1. \A b \in logSum : /\ offset <= b /\ FloatMin <= b /\ b < End /\ lastEnd <= b
                            /\ row[b] = {a \in Anch : <<a, b + 1>> \in found}
      BY DEF Alive, Log
    <2>2. ASSUME NEW a \in Anch, NEW b PROVE <<a, b>> \in found' <=> <<a, b>> \in found
      <3>1. <<a, b>>[1] \notin Lit  BY Constants
      <3> QED  BY <3>1
    <2>3. IF anchIt' = Invalid
          THEN /\ \A b \in logSum : to <= b
               /\ victims' # {} => logSum = {}
          ELSE anchIt' \in logSum /\ \A b \in logSum : anchIt' <= b
      BY <1>1 DEF Begun
    <2> QED  BY <1>1, <1>2, <2>1, <2>2, <2>3 DEF Log
  <1>7. Reached'
    <2>1. lastEnd <= delayLast \/ lastEnd <= FloatMin  BY DEF Alive, Reached
    <2>2. lastEnd <= to \/ lastEnd <= FloatMin  BY <1>1, <1>3, <2>1
    <2>3. ASSUME NEW v \in victims', v + Base >= FloatMin PROVE lastEnd <= v + Base
      <3>1. delayLast < v + Base /\ v + Base \in Nat
        <4>1. v \in Nat  BY <1>1, Constants DEF Begun
        <4> QED  BY <1>1, <1>3, <4>1 DEF Begun
      <3> QED  BY <1>3, <2>1, <2>3, <3>1, Constants
    <2> QED  BY <1>1, <1>2, <2>2, <2>3 DEF Reached
  <1>8. \A o : Gone(o)' <=> o <= delayLast \/ (o <= to /\ o - Base \notin victims')
    BY <1>1, <1>2 DEF Gone
  <1>9. \A o : Gone(o) <=> o <= delayLast  BY <1>2 DEF Gone
  <1>10. ASSUME NEW p \in Entry, Expect(p) PROVE Expect(p)'
    <2>1. CASE p[3]  BY <1>8, <1>9, <1>10, <2>1 DEF Expect, Delayed
    <2>2. CASE ~p[3]  BY <1>10, <2>2 DEF Expect
    <2> QED  BY <2>1, <2>2
  <1>11. ASSUME NEW p \in Entry, Expect(p)', InBound(p) PROVE Expect(p)
    <2>1. CASE p[3]
      <3>1. /\ Delayed(p) /\ p[2] >= FloatMin
            /\ p[2] <= delayLast \/ (p[2] <= to /\ p[2] - Base \notin victims')
            /\ <<p[1], p[2] - Delay[p[1]]>> \in found'
        BY <1>8, <1>11, <2>1 DEF Expect, Delayed
      <3>2. PICK f : f = found'  OBVIOUS
      <3>3. PICK h \in f : /\ h = <<p[1], p[2] - Delay[p[1]]>> /\ Delayed(h) /\ Due(h) = p[2]
                           /\ p = <<h[1], Due(h), TRUE>>
        BY <2>1, <3>1, <3>2, ExpectDelayed
      <3>4. h \in found
        <4>1. SUFFICES ASSUME h \notin found PROVE FALSE  OBVIOUS
        <4>2. h[1] \in Lit /\ h[2] = to  BY <3>2, <4>1
        <4>3. Delay[h[1]] \in Nat /\ Delay[h[1]] > 0  BY <3>3, <4>2, Constants DEF Delayed
        <4>4. p[2] > to  BY <1>1, <3>3, <4>2, <4>3 DEF Due
        <4>5. p[2] <= to  BY <1>1, <1>3, <3>1, EntryIs
        <4> QED  BY <1>1, <4>4, <4>5, EntryIs
      <3>5. p[2] <= delayLast
        <4>1. SUFFICES ASSUME ~(p[2] <= delayLast) PROVE FALSE  OBVIOUS
        <4>2. Due(h) > delayLast  BY <1>3, <3>3, <4>1, EntryIs
        <4>3. h # hit /\ InBound(<<h[1], Due(h), TRUE>>)  BY <1>3, <1>11, <3>3, <3>4
        <4>4. h \in Queued  BY <3>3, <3>4, <4>2, <4>3, Waiting DEF Alive
        <4>5. Due(h) > to \/ Due(h) - Base \in victims'  BY <1>1, <4>4 DEF Begun
        <4>6. Due(h) <= to /\ Due(h) - Base \notin victims'  BY <3>1, <3>3, <4>1
        <4>7. Due(h) \in Nat  BY <3>3, EntryIs
        <4> QED  BY <1>1, <4>5, <4>6, <4>7
      <3> QED  BY <1>9, <2>1, <3>1, <3>3, <3>4, <3>5 DEF Expect
    <2>2. CASE ~p[3]
      <3>1. /\ <<p[1], p[2]>> \in found'
            /\ \/ p[1] \in Anch /\ p[2] - 1 \notin logSum
               \/ p[1] \in Lit /\ p[2] >= FloatMin /\ <<p[1], p[2]>> # hit'
        BY <1>11, <2>2 DEF Expect
      <3>2. <<p[1], p[2]>> \in found
        <4>1. p[1] \in Anch => p[1] \notin Lit  BY Constants
        <4> QED  BY <3>1, <4>1
      <3> QED  BY <1>3, <2>2, <3>1, <3>2 DEF Expect
    <2> QED  BY <2>1, <2>2
  <1>12. Replayed'
    <2>1. \A p \in ToSet(out) : p[2] <= lastEnd'  BY DEF Alive, Replayed
    <2>2. \A p \in Entry : Expect(p) => Expect(p)'  BY <1>10
    <2>3. \A p \in Entry : Expect(p)' /\ InBound(p) => Expect(p)  BY <1>11
    <2> QED  BY <2>1, <2>2, <2>3, OutIs, QuietStep DEF Alive
  <1>13. Roles'  BY <1>2 DEF Alive, Roles, ToSet
  <1> QED  BY <1>1, <1>5, <1>6, <1>7, <1>12, <1>13 DEF Begun

\* roseCallback_i: a floating literal is found and a flush begins.
LEMMA CallbackStep ==
    ASSUME Types, Alive, ~stopped, NEW l \in Lit, NEW e \in offset + 1 .. End,
           roseCallback(l, e)
    PROVE  Types' /\ Alive'
  <1>1. /\ pc = "floating" /\ <<l, e>> \notin found /\ FloatingNext(e) /\ LitLen[l] <= e
        /\ found' = found \cup {<<l, e>>} /\ hit' = <<l, e>> /\ pc' = "flush"
        /\ BeginFlush(e)
        /\ UNCHANGED <<offset, len, slot, delayLast, lastEnd, logSum, row, dirty, lastByte,
                       stopped, out>>
    BY DEF roseCallback, log
  <1>15. PICK h : h = <<l, e>>  OBVIOUS
  <1>2. h = <<l, e>> /\ h[1] = l /\ h[2] = e  BY <1>15
  <1>3. e \in 1 .. MaxOffset /\ e \in 0 .. MaxOffset /\ e \in Nat /\ offset < e /\ e <= End
    BY Numbers, Constants
  <1>4. delayLast <= e
    <2>1. CASE delayLast = offset  BY <1>3, <2>1, Numbers
    <2>2. CASE delayLast # offset
      <3>1. PICK x \in Lit : <<x, delayLast>> \in found  BY <1>1, <2>2 DEF Alive, Place
      <3>2. PICK y \in found : y = <<x, delayLast>> /\ y[1] = x /\ y[2] = delayLast  BY <3>1
      <3> QED  BY <1>1, <3>2 DEF FloatingNext
    <2> QED  BY <2>1, <2>2
  <1>5. found \subseteq Literals \X (1 .. MaxOffset)  BY DEF Types, TypeOK, Literals
  <1>6. found' \subseteq Literals \X (1 .. MaxOffset) /\ found \subseteq found'
    <2>1. h \in Literals \X (1 .. MaxOffset)  BY <1>2, <1>3 DEF Literals
    <2> QED  BY <1>1, <1>2, <1>5, <2>1
  <1>7. \A x \in found' : x \notin found => x = hit' /\ x[1] \in Lit /\ x[2] = e
    BY <1>1, <1>2
  <1>8. hit' \notin found  BY <1>1
  <1>9. /\ filled' \subseteq 0 .. SlotCount - 1
        /\ victims' \subseteq 0 .. 2 * SlotCount - 1
        /\ anchIt' \in Invalid .. AnchoredDistance - 1
        /\ flushTo' = e
    BY <1>1, <1>3, <1>4, <1>6, <1>7, <1>8, EnterFlush
  <1>10. Ring' /\ Log' /\ Reached' /\ Replayed' /\ Roles'
    BY <1>1, <1>3, <1>4, <1>6, <1>7, <1>8, EnterFlush
  <1>11. End' = End /\ Upto' = delayLast /\ Upto = delayLast  BY <1>1 DEF End, Upto
  <1>12. Types'
    <2>1. hit' \in {NoHit} \cup Lit \X (1 .. MaxOffset)  BY <1>1, <1>3
    <2>2. TypeOK'  BY <1>1, <1>3, <1>6, <1>9, <2>1 DEF Types, TypeOK, Literals
    <2> QED  BY <1>1, <1>11, <2>2 DEF Types, Entry, Literals, Ordered
  <1>13. Place'
    <2>1. /\ offset <= delayLast /\ delayLast <= End /\ offset < End /\ lastEnd <= End
      BY <1>1 DEF Alive, Place
    <2>2. hit' # NoHit /\ hit'[2] = e /\ hit'[1] \in Lit /\ hit' \in found'
      <3>1. <<l, e>> # NoHit  BY DEF NoHit
      <3> QED  BY <1>1, <1>2, <3>1
    <2> QED  BY <1>1, <1>3, <1>4, <1>9, <1>11, <2>1, <2>2 DEF Place
  <1>14. Found'
    <2>1. ASSUME NEW x \in found'
          PROVE  x[2] <= End /\ (x[1] \in Lit => LitLen[x[1]] <= x[2] /\ (x = hit' \/ x[2] <= delayLast))
      <3>1. CASE x = hit'  BY <1>1, <1>2, <1>3, <3>1
      <3>2. CASE x \in found
        <4>1. x # hit  BY <1>1, <3>2, Numbers DEF Alive, Place
        <4> QED  BY <1>11, <3>2, <4>1 DEF Alive, Found
      <3> QED  BY <1>1, <3>1, <3>2
    <2> QED  BY <1>11, <2>1 DEF Found
  <1> QED  BY <1>10, <1>12, <1>13, <1>14 DEF Alive

\* The flush of cleanUpDelayed begins, up to the end of the data.
LEMMA FloatingDoneStep ==
    ASSUME Types, Alive, ~stopped, FloatingDone
    PROVE  Types' /\ Alive'
  <1>1. /\ pc = "floating" /\ pc' = "flush" /\ BeginFlush(End)
        /\ UNCHANGED <<offset, len, slot, delayLast, lastEnd, logSum, row, hit, dirty, lastByte,
                       stopped, found, out>>
    BY DEF FloatingDone, log
  <1>2. /\ End \in 0 .. MaxOffset /\ End \in Nat /\ NoHit \notin found
    BY Numbers, Constants
  <1>3. /\ offset <= delayLast /\ delayLast <= End /\ offset < End /\ lastEnd <= End
        /\ hit = NoHit
    BY <1>1 DEF Alive, Place
  <1>4. found' \subseteq Literals \X (1 .. MaxOffset) /\ found \subseteq found'
    BY <1>1 DEF Types, TypeOK, Literals
  <1>5. hit' \notin found  BY <1>1, <1>2, <1>3
  <1>6. PICK to \in 0 .. MaxOffset : to = End  BY <1>2
  <1>7. BeginFlush(to) /\ delayLast <= to  BY <1>1, <1>3, <1>6
  <1>8. \A x \in found' : x \notin found => x = hit' /\ x[1] \in Lit /\ x[2] = to
    BY <1>1
  <1>9. /\ filled' \subseteq 0 .. SlotCount - 1
        /\ victims' \subseteq 0 .. 2 * SlotCount - 1
        /\ anchIt' \in Invalid .. AnchoredDistance - 1
        /\ flushTo' = to
    BY <1>1, <1>4, <1>5, <1>7, <1>8, EnterFlush
  <1>10. Ring' /\ Log' /\ Reached' /\ Replayed' /\ Roles'
    BY <1>1, <1>4, <1>5, <1>7, <1>8, EnterFlush
  <1>11. End' = End /\ Upto' = delayLast /\ Upto = delayLast  BY <1>1 DEF End, Upto
  <1>12. Types'
    <2>2. TypeOK'  BY <1>1, <1>6, <1>9 DEF Types, TypeOK
    <2> QED  BY <1>1, <1>11, <2>2 DEF Types, Entry, Literals, Ordered
  <1>13. Place'
    <2>1. End <= End  BY <1>2
    <2> QED  BY <1>1, <1>3, <1>6, <1>9, <1>11, <2>1 DEF Place
  <1>14. Found'  BY <1>1, <1>11 DEF Alive, Found
  <1> QED  BY <1>10, <1>12, <1>13, <1>14 DEF Alive

----------------------------------------------------------------------------
(* The steps of a flush                                                    *)

\* flushAnchoredLiteralAtLoc plays one row, below every slot that is left.
LEMMA FlushAnchoredStep ==
    ASSUME Types, Alive, FlushAnchored
    PROVE  Types' /\ (~stopped' => Alive')
  <1>1. /\ pc = "flush" /\ ~stopped /\ anchIt # Invalid
        /\ anchIt < IF victims # {} THEN VictimOffset(NextVictim) ELSE flushTo
        /\ lastEnd' = anchIt + 1
        /\ Play(row[anchIt], anchIt + 1, FALSE, FlushLastByte(anchIt + 1))
        /\ logSum' = (IF stopped' THEN logSum ELSE logSum \ {anchIt})
        /\ anchIt' = NextBit(anchIt)
        /\ UNCHANGED <<pc, offset, len, filled, slot, delayLast, row, victims, flushTo, hit,
                       dirty, found>>
    BY DEF FlushAnchored, ring
  <1>2. /\ anchIt \in logSum /\ \A b \in logSum : anchIt <= b
        /\ \A b \in logSum : /\ offset <= b /\ FloatMin <= b /\ b < End /\ lastEnd <= b
                             /\ row[b] = {a \in Anch : <<a, b + 1>> \in found}
    BY <1>1 DEF Alive, Log
  <1>3. \A b \in logSum : b \in Nat /\ b < AnchoredDistance  BY Numbers
  <1>4. PICK at \in Nat : at = anchIt + 1  BY <1>2, <1>3
  <1>5. PICK ids : ids = row[anchIt]  OBVIOUS
  <1>6. /\ at \in 1 .. MaxOffset /\ at <= End /\ lastEnd <= at /\ at \in 0 .. MaxOffset
        /\ ids = {a \in Anch : <<a, at>> \in found} /\ ids \subseteq Literals
    <2>1. anchIt \in Nat /\ anchIt < End /\ lastEnd <= anchIt  BY <1>2, <1>3
    <2>2. ids = {a \in Anch : <<a, at>> \in found}  BY <1>2, <1>4, <1>5
    <2>3. ids \subseteq Literals  BY <2>2 DEF Literals
    <2> QED  BY <1>4, <2>1, <2>2, <2>3, Numbers, Constants
  <1>7. at <= flushTo /\ \A v \in victims : at <= v + Base
    <2>1. CASE victims = {}  BY <1>1, <1>3, <1>2, <1>4, <2>1, Numbers
    <2>2. CASE victims # {}
      <3>1. victims \subseteq Nat  BY Numbers
      <3>2. Min(victims) \in victims /\ \A v \in victims : Min(victims) <= v
        BY <2>2, <3>1, Least
      <3>3. PICK m \in Nat : m = Min(victims)  BY <3>1, <3>2
      <3>4. anchIt < m + Base  BY <1>1, <2>2, <3>3 DEF VictimOffset, NextVictim, Base
      <3>5. m + Base <= flushTo  BY <1>1, <3>2, <3>3 DEF Alive, Ring
      <3>6. anchIt \in Nat /\ Base \in Nat /\ flushTo \in Nat  BY <1>2, <1>3, Numbers
      <3>7. at <= m + Base  BY <1>4, <3>3, <3>4, <3>6
      <3>8. at <= flushTo  BY <3>3, <3>5, <3>6, <3>7
      <3>9. ASSUME NEW v \in victims PROVE at <= v + Base
        <4>1. v \in Nat /\ m <= v  BY <3>1, <3>2, <3>3
        <4> QED  BY <3>3, <3>6, <3>7, <4>1
      <3> QED  BY <3>8, <3>9
    <2> QED  BY <2>1, <2>2
  <1>8. End' = End /\ Early' = Early /\ Base' = Base /\ Upto' = Upto /\ Queued' = Queued
    BY <1>1 DEF End, Early, Base, Upto, Queued, Delayed, Due
  <1>9. ASSUME ~stopped' PROVE Runs(ids, at, FALSE)
    <2>1. \A o : Gone(o)' <=> Gone(o)  BY <1>1, <1>8 DEF Gone
    <2>2. logSum' = logSum \ {anchIt}  BY <1>1, <1>9
    <2>3. ASSUME NEW p \in Entry
          PROVE  Expect(p)' <=> Expect(p) \/ \E a \in ids : p = <<a, at, FALSE>>
      <3>1. p = <<p[1], p[2], p[3]>> /\ p[2] \in Nat /\ p[3] \in BOOLEAN  BY EntryIs
      <3>2. CASE p[3]
        <4>1. \A a : p = <<a, at, FALSE>> => p[3] = FALSE  OBVIOUS
        <4> QED  BY <1>1, <2>1, <3>2, <4>1 DEF Expect, Delayed
      <3>3. CASE ~p[3]
        <4>1. p[3] = FALSE  BY <3>1, <3>3
        <4>2. p = <<p[1], p[2], FALSE>>  BY <3>1, <4>1
        <4>3. p[2] - 1 = anchIt <=> p[2] = at
          <5>1. anchIt \in Nat  BY <1>2, <1>3
          <5> QED  BY <1>4, <3>1, <5>1
        <4>4. (\E a \in ids : p = <<a, at, FALSE>>) <=> p[1] \in ids /\ p[2] = at
          <5>1. \A a : p = <<a, at, FALSE>> => p[1] = a /\ p[2] = at  OBVIOUS
          <5> QED  BY <4>2, <5>1
        <4>5. p[1] \in ids /\ p[2] = at <=>
                 p[1] \in Anch /\ <<p[1], p[2]>> \in found /\ p[2] = at
          BY <1>6
        <4> QED  BY <1>1, <1>2, <2>2, <3>3, <4>3, <4>4, <4>5 DEF Expect
      <3> QED  BY <3>1, <3>2, <3>3
    <2>4. ASSUME NEW a \in ids
          PROVE  ~Expect(<<a, at, FALSE>>) /\ Expect(<<a, at, FALSE>>)'
      <3>1. <<a, at, FALSE>> \in Entry  BY <1>6 DEF Entry
      <3>2. Expect(<<a, at, FALSE>>)'  BY <2>3, <3>1
      <3>3. a \in Anch /\ a \notin Lit  BY <1>6, Constants
      <3>4. at - 1 = anchIt /\ at - 1 \in logSum
        <4>1. anchIt \in Nat  BY <1>2, <1>3
        <4> QED  BY <1>2, <1>4, <4>1
      <3>5. ~Expect(<<a, at, FALSE>>)  BY <3>3, <3>4 DEF Expect
      <3> QED  BY <3>2, <3>5
    <2> QED  BY <2>3, <2>4 DEF Runs
  <1>10. /\ stopped' \in BOOLEAN /\ out' \in Seq(Entry) /\ Ordered(out')
         /\ lastByte' \subseteq Literals
         /\ ~stopped' => Replayed' /\ Roles'
    <2>1. Play(ids, at, FALSE, FlushLastByte(at)) /\ lastEnd' = at  BY <1>1, <1>4, <1>5
    <2>2. pc # "idle" /\ pc' # "idle" /\ UNCHANGED <<offset, len>>  BY <1>1
    <2>3. Place /\ Replayed /\ Roles  BY DEF Alive
    <2>4. ~stopped' => Runs(ids, at, FALSE)  BY <1>9
    <2>5. FALSE \in BOOLEAN /\ lastEnd <= at /\ at <= End /\ ids \subseteq Literals
          /\ at \in 1 .. MaxOffset
      BY <1>6
    <2>6. stopped' \in BOOLEAN  BY <2>1, <2>2, <2>3, <2>4, <2>5, PlayStep
    <2>7. out' \in Seq(Entry) /\ Ordered(out')  BY <2>1, <2>2, <2>3, <2>4, <2>5, PlayStep
    <2>8. lastByte' \subseteq Literals  BY <2>1, <2>2, <2>3, <2>4, <2>5, PlayStep
    <2>9. ~stopped' => Replayed' /\ (pc' # "idle" => Roles')
      BY <2>1, <2>2, <2>3, <2>4, <2>5, PlayStep
    <2> QED  BY <2>2, <2>6, <2>7, <2>8, <2>9
  <1>11. /\ anchIt' = Invalid => \A x \in logSum : x <= anchIt
         /\ anchIt' # Invalid =>
               /\ anchIt' \in logSum /\ anchIt' > anchIt
               /\ \A x \in logSum : x > anchIt => anchIt' <= x
    <2>1. PICK b \in Int : b = anchIt  BY <1>2, <1>3
    <2>2. logSum \subseteq Nat /\ anchIt' = NextBit(b)  BY <1>1, <1>3, <2>1
    <2>3. NextBit(b) = Invalid => \A x \in logSum : x <= b  BY <2>2, NextBitIs
    <2>4. NextBit(b) # Invalid =>
               /\ NextBit(b) \in logSum /\ NextBit(b) > b
               /\ \A x \in logSum : x > b => NextBit(b) <= x
      BY <2>2, NextBitIs
    <2> QED  BY <2>1, <2>2, <2>3, <2>4
  <1>12. Types'
    <2>1. anchIt' \in Invalid .. AnchoredDistance - 1
      BY <1>3, <1>11, Constants DEF Invalid
    <2>2. logSum' \subseteq logSum /\ lastEnd' \in 0 .. MaxOffset  BY <1>1, <1>4, <1>6
    <2>3. TypeOK'  BY <1>1, <1>10, <2>1, <2>2 DEF Types, TypeOK, Literals
    <2>4. (out \in Seq(Entry))' /\ Ordered(out)'  BY <1>10 DEF Entry, Literals, Ordered
    <2> QED  BY <1>1, <1>8, <2>3, <2>4 DEF Types
  <1>13. ASSUME ~stopped' PROVE Alive'
    <2>1. Place'  BY <1>1, <1>4, <1>6, <1>8 DEF Alive, Place
    <2>2. Found'  BY <1>1, <1>8 DEF Alive, Found
    <2>3. Ring'  BY <1>1, <1>8 DEF Alive, Ring, RingHolds, SlotOf, Delayed, Due
    <2>4. Log'
      <3>1. logSum' = logSum \ {anchIt}  BY <1>1, <1>13
      <3>2. ASSUME NEW b \in logSum' PROVE b \in logSum /\ b > anchIt /\ at <= b
        <4>1. b \in logSum /\ b # anchIt /\ anchIt <= b /\ b \in Nat /\ anchIt \in Nat
          BY <1>2, <1>3, <3>1
        <4> QED  BY <1>4, <4>1
      <3>3. CASE anchIt' = Invalid
        <4>1. logSum' = {}
          <5>1. ASSUME NEW b \in logSum' PROVE FALSE
            <6>1. b <= anchIt /\ b > anchIt /\ b \in Nat /\ anchIt \in Nat
              BY <1>2, <1>3, <1>11, <3>2, <3>3
            <6> QED  BY <6>1
          <5> QED  BY <5>1
        <4> QED  BY <1>1, <3>3, <4>1 DEF Log
      <3>4. CASE anchIt' # Invalid
        <4>1. anchIt' \in logSum' /\ \A b \in logSum' : anchIt' <= b
          <5>1. anchIt' \in logSum /\ anchIt' > anchIt  BY <1>11, <3>4
          <5>2. anchIt' # anchIt
            <6>1. anchIt' \in Nat /\ anchIt \in Nat  BY <1>2, <1>3, <5>1
            <6> QED  BY <5>1, <6>1
          <5> QED  BY <1>11, <3>1, <3>2, <3>4, <5>1, <5>2
        <4>2. \A b \in logSum' : /\ offset <= b /\ FloatMin <= b /\ b < End /\ lastEnd' <= b
                                 /\ row[b] = {a \in Anch : <<a, b + 1>> \in found}
          BY <1>1, <1>2, <1>4, <3>2
        <4> QED  BY <1>1, <1>8, <3>4, <4>1, <4>2 DEF Log
      <3> QED  BY <3>3, <3>4
    <2>5. Reached'  BY <1>1, <1>4, <1>7, <1>8 DEF Reached
    <2> QED  BY <1>10, <1>13, <2>1, <2>2, <2>3, <2>4, <2>5 DEF Alive
  <1> QED  BY <1>12, <1>13

\* playDelaySlot plays the first of the slots, below every row that is left.
LEMMA PlayDelaySlotStep ==
    ASSUME Types, Alive, PlayDelaySlot
    PROVE  Types' /\ (~stopped' => Alive')
  <1>1. /\ pc = "flush" /\ ~stopped /\ victims # {}
        /\ anchIt = Invalid \/ anchIt >= VictimOffset(NextVictim)
        /\ victims' = victims \ {NextVictim}
        /\ UNCHANGED <<pc, offset, len, filled, slot, delayLast, logSum, row, anchIt, flushTo,
                       hit, dirty, found>>
    BY DEF PlayDelaySlot, ring, log
  <1>2. PICK m : m = NextVictim  OBVIOUS
  <1>3. m \in victims /\ m \in Nat /\ \A v \in victims : v \in Nat /\ m <= v
    <2>1. victims \subseteq Nat  BY Numbers
    <2>2. Min(victims) \in victims /\ \A v \in victims : Min(victims) <= v
      BY <1>1, <2>1, Least
    <2> QED  BY <1>2, <2>1, <2>2 DEF NextVictim
  <1>4. PICK at \in Nat : at = m + Base  BY <1>3, Numbers
  <1>5. VictimOffset(NextVictim) = at  BY <1>2, <1>4 DEF VictimOffset, Base
  <1>6. PICK ids : ids = slot[DelayIndex(m)]  OBVIOUS
  <1>7. /\ delayLast < at /\ at <= flushTo /\ flushTo <= End
        /\ ids = {h[1] : h \in {x \in Queued : Due(x) = at}}
    BY <1>1, <1>3, <1>4, <1>6 DEF Alive, Ring, Place
  <1>8. at \in 1 .. MaxOffset /\ at \in 0 .. MaxOffset /\ at <= End
    BY <1>7, Numbers, Constants
  <1>9. /\ \A h \in Queued : h \in found /\ Delayed(h) /\ h[1] \in Lit /\ Due(h) \in Nat
        /\ ids \subseteq Literals
    <2>1. \A h \in Queued : h \in found /\ Delayed(h) /\ h[1] \in Lit /\ Due(h) \in Nat
      BY <1>1, QueuedIs DEF Alive
    <2>2. \A h \in Queued : h[1] \in Literals  BY <2>1 DEF Literals
    <2> QED  BY <1>7, <2>1, <2>2
  <1>10. End' = End /\ Early' = Early /\ Base' = Base /\ Upto' = Upto /\ Queued' = Queued
         /\ Upto = delayLast
    BY <1>1 DEF End, Early, Base, Upto, Queued, Delayed, Due
  <1>11. ASSUME NEW o \in Nat
         PROVE  (Gone(o)' <=> Gone(o) \/ o = at) /\ (o = at => ~Gone(o))
    <2>1. o - Base = m <=> o = at  BY <1>3, <1>4, Numbers
    <2>2. Gone(o)' <=> o <= delayLast \/ (o <= flushTo /\ o - Base \notin victims \ {m})
      BY <1>1, <1>2, <1>10 DEF Gone
    <2>3. Gone(o) <=> o <= delayLast \/ (o <= flushTo /\ o - Base \notin victims)
      BY <1>1, <1>10 DEF Gone
    <2>4. o = at => o <= flushTo /\ ~(o <= delayLast)  BY <1>7, Numbers
    <2> QED  BY <1>3, <2>1, <2>2, <2>3, <2>4
  <1>12. \A b \in logSum : at <= b /\ lastEnd <= b
    <2>1. ASSUME NEW b \in logSum PROVE at <= b /\ lastEnd <= b
      <3>1. lastEnd <= b  BY DEF Alive, Log
      <3>2. anchIt # Invalid  BY <1>1 DEF Alive, Log
      <3>3. anchIt \in logSum /\ anchIt <= b  BY <1>1, <3>2 DEF Alive, Log
      <3>4. anchIt >= at  BY <1>1, <1>5, <3>2
      <3>5. anchIt \in Nat /\ b \in Nat  BY <3>3, Numbers
      <3> QED  BY <3>1, <3>3, <3>4, <3>5
    <2> QED  BY <2>1
  <1>13. /\ stopped' \in BOOLEAN /\ out' \in Seq(Entry) /\ Ordered(out')
         /\ lastByte' \subseteq Literals /\ lastEnd' \in 0 .. MaxOffset
         /\ ~stopped' => Replayed' /\ Roles'
         /\ lastEnd' <= End
         /\ lastEnd' <= flushTo \/ lastEnd' <= FloatMin
         /\ \A b \in logSum : lastEnd' <= b
         /\ \A v \in victims : v + Base >= FloatMin => lastEnd' <= v + Base
    <2>1. \/ at < FloatMin /\ UNCHANGED <<lastEnd, lastByte, stopped, out>>
          \/ /\ at >= FloatMin /\ lastEnd' = at
             /\ Play(ids, at, TRUE, FlushLastByte(at))
      BY <1>2, <1>5, <1>6 DEF PlayDelaySlot
    <2>2. CASE at < FloatMin /\ UNCHANGED <<lastEnd, lastByte, stopped, out>>
      <3>1. ASSUME NEW p \in Entry PROVE Expect(p)' <=> Expect(p)
        <4>1. p[2] \in Nat /\ p[3] \in BOOLEAN  BY EntryIs
        <4>2. CASE p[3]
          <5>1. p[2] >= FloatMin => (Gone(p[2])' <=> Gone(p[2]))
            BY <1>11, <2>2, <4>1, Constants
          <5> QED  BY <1>1, <4>2, <5>1 DEF Expect, Delayed
        <4>3. CASE ~p[3]  BY <1>1, <4>3 DEF Expect
        <4> QED  BY <4>1, <4>2, <4>3
      <3>2. \A p \in ToSet(out) : p[2] <= lastEnd'  BY <2>2 DEF Alive, Replayed
      <3>3. Replayed'  BY <2>2, <3>1, <3>2, OutIs, QuietStep DEF Alive
      <3>4. Roles'  BY <1>1, <1>10, <2>2 DEF Alive, Roles, ToSet
      <3>5. out' \in Seq(Entry) /\ Ordered(out') /\ lastByte' \subseteq Literals
            /\ lastEnd' \in 0 .. MaxOffset /\ stopped' \in BOOLEAN
        BY <2>2, Numbers DEF Types, TypeOK, Literals
      <3>6. /\ lastEnd' <= End
            /\ lastEnd' <= flushTo \/ lastEnd' <= FloatMin
            /\ \A v \in victims : v + Base >= FloatMin => lastEnd' <= v + Base
        BY <1>1, <2>2 DEF Alive, Place, Reached
      <3>7. \A b \in logSum : lastEnd' <= b  BY <1>12, <2>2
      <3> QED  BY <3>3, <3>4, <3>5, <3>6, <3>7
    <2>3. CASE at >= FloatMin /\ lastEnd' = at /\ Play(ids, at, TRUE, FlushLastByte(at))
      <3>1. lastEnd <= at  BY <1>1, <1>3, <1>4, <2>3 DEF Alive, Reached
      <3>2. ASSUME ~stopped' PROVE Runs(ids, at, TRUE)
        <4>1. ASSUME NEW p \in Entry, Expect(p) PROVE Expect(p)'
          <5>1. p[2] \in Nat /\ p[3] \in BOOLEAN  BY EntryIs
          <5>2. CASE p[3]  BY <1>1, <1>11, <4>1, <5>1, <5>2 DEF Expect, Delayed
          <5>3. CASE ~p[3]  BY <1>1, <4>1, <5>3 DEF Expect
          <5> QED  BY <5>1, <5>2, <5>3
        <4>2. ASSUME NEW a \in ids
              PROVE  ~Expect(<<a, at, TRUE>>) /\ Expect(<<a, at, TRUE>>)'
          <5>1. PICK p : p = <<a, at, TRUE>>  OBVIOUS
          <5>2. p[1] = a /\ p[2] = at /\ p[3] = TRUE  BY <5>1
          <5>3. PICK h \in Queued : Due(h) = at /\ a = h[1]  BY <1>7
          <5>4. h \in found /\ Delayed(h) /\ h = <<h[1], h[2]>> /\ h[2] \in Nat
                /\ Delay[h[1]] \in Nat
            BY <1>9, <5>3, FoundIs
          <5>5. h[2] = at - Delay[a]
            <6>1. PICK d \in Nat, e \in Nat : d = Delay[h[1]] /\ e = h[2]  BY <5>4
            <6>2. e + d = at  BY <5>3, <6>1 DEF Due
            <6> QED  BY <5>3, <6>1, <6>2
          <5>6. <<p[1], p[2] - Delay[p[1]]>> \in found  BY <5>2, <5>3, <5>4, <5>5
          <5>7. Delayed(p)  BY <5>2, <5>3, <5>4 DEF Delayed
          <5>8. Gone(at)' /\ ~Gone(at)  BY <1>11
          <5>9. Expect(p)'  BY <1>1, <2>3, <5>2, <5>6, <5>7, <5>8 DEF Expect, Delayed
          <5>10. ~Expect(p)  BY <5>2, <5>8 DEF Expect
          <5> QED  BY <5>1, <5>9, <5>10
        <4>3. ASSUME NEW p \in Entry, Expect(p)', InBound(p), ~Expect(p)
              PROVE  \E a \in ids : p = <<a, at, TRUE>>
          <5>1. p[2] \in Nat /\ p[3] \in BOOLEAN  BY EntryIs
          <5>2. p[3]
            <6>1. SUFFICES ASSUME ~p[3] PROVE FALSE  OBVIOUS
            <6> QED  BY <1>1, <4>3, <6>1 DEF Expect
          <5>3. /\ Delayed(p) /\ p[2] >= FloatMin /\ Gone(p[2])'
                /\ <<p[1], p[2] - Delay[p[1]]>> \in found
            BY <1>1, <4>3, <5>2 DEF Expect, Delayed
          <5>4. p[2] = at
            <6>1. ~Gone(p[2])  BY <4>3, <5>2, <5>3 DEF Expect
            <6> QED  BY <1>11, <5>1, <5>3, <6>1
          <5>5. PICK f : f = found  OBVIOUS
          <5>6. f \subseteq Literals \X (1 .. MaxOffset)
            BY <5>5 DEF Types, TypeOK, Literals
          <5>7. PICK h \in f : /\ h = <<p[1], p[2] - Delay[p[1]]>> /\ Delayed(h)
                               /\ Due(h) = p[2] /\ p = <<h[1], Due(h), TRUE>>
            <6>1. <<p[1], p[2] - Delay[p[1]]>> \in f  BY <5>3, <5>5
            <6>2. Delayed(p)  BY <5>3
            <6> QED  BY <5>2, <5>6, <6>1, <6>2, ExpectDelayed
          <5>8. h # hit
            <6>1. SUFFICES ASSUME h = hit PROVE FALSE  OBVIOUS
            <6>2. h # NoHit  BY <5>5, Numbers
            <6>3. h[2] = flushTo  BY <1>1, <6>1, <6>2 DEF Alive, Place
            <6>4. Delay[h[1]] \in Nat /\ Delay[h[1]] > 0  BY <5>7, Constants DEF Delayed
            <6>5. Due(h) > flushTo  BY <6>3, <6>4, Numbers DEF Due
            <6> QED  BY <1>7, <5>4, <5>7, <6>5, Numbers
          <5>9. h \in Queued
            <6>1. h \in found /\ Due(h) > delayLast  BY <1>7, <5>4, <5>5, <5>7, Numbers
            <6>2. InBound(<<h[1], Due(h), TRUE>>)  BY <4>3, <5>7
            <6> QED  BY <1>1, <5>7, <5>8, <6>1, <6>2, Waiting DEF Alive
          <5>10. h[1] \in ids  BY <1>7, <5>4, <5>7, <5>9
          <5> QED  BY <5>4, <5>7, <5>10
        <4> QED  BY <4>1, <4>2, <4>3 DEF Runs
      <3>3. pc # "idle" /\ pc' # "idle" /\ UNCHANGED <<offset, len>>  BY <1>1
      <3>4. Place /\ Replayed /\ Roles  BY DEF Alive
      <3>5. ~stopped' => Runs(ids, at, TRUE)  BY <3>2
      <3>6. Play(ids, at, TRUE, FlushLastByte(at)) /\ lastEnd' = at  BY <2>3
      <3>7. TRUE \in BOOLEAN /\ at <= End /\ ids \subseteq Literals /\ at \in 1 .. MaxOffset
        BY <1>8, <1>9
      <3>8. stopped' \in BOOLEAN  BY <3>1, <3>3, <3>4, <3>5, <3>6, <3>7, PlayStep
      <3>9. out' \in Seq(Entry) /\ Ordered(out')
        BY <3>1, <3>3, <3>4, <3>5, <3>6, <3>7, PlayStep
      <3>10. lastByte' \subseteq Literals  BY <3>1, <3>3, <3>4, <3>5, <3>6, <3>7, PlayStep
      <3>11. ~stopped' => Replayed' /\ (pc' # "idle" => Roles')
        BY <3>1, <3>3, <3>4, <3>5, <3>6, <3>7, PlayStep
      <3>12. \A v \in victims : at <= v + Base  BY <1>3, <1>4, Numbers
      <3>13. lastEnd' \in 0 .. MaxOffset /\ lastEnd' <= End /\ lastEnd' <= flushTo
        BY <1>7, <1>8, <2>3
      <3>14. \A b \in logSum : lastEnd' <= b  BY <1>12, <2>3
      <3> QED  BY <2>3, <3>3, <3>8, <3>9, <3>10, <3>11, <3>12, <3>13, <3>14
    <2> QED  BY <2>1, <2>2, <2>3
  <1>14. victims' \subseteq victims  BY <1>1
  <1>15. Types'
    <2>1. TypeOK'  BY <1>1, <1>13, <1>14 DEF Types, TypeOK, Literals
    <2>2. (out \in Seq(Entry))' /\ Ordered(out)'  BY <1>13 DEF Entry, Literals, Ordered
    <2> QED  BY <1>1, <1>10, <2>1, <2>2 DEF Types
  <1>16. ASSUME ~stopped' PROVE Alive'
    <2>1. Place'  BY <1>1, <1>10, <1>13 DEF Alive, Place
    <2>2. Found'  BY <1>1, <1>10 DEF Alive, Found
    <2>3. Ring'
      <3>1. RingHolds({h \in Queued : Due(h) > flushTo})'
        BY <1>1, <1>10 DEF Alive, Ring, RingHolds, SlotOf, Due
      <3>2. \A v \in victims' :
               /\ delayLast < v + Base /\ v + Base <= flushTo
               /\ slot[DelayIndex(v)] = {h[1] : h \in {x \in Queued : Due(x) = v + Base}}
        BY <1>1, <1>14 DEF Alive, Ring
      <3> QED  BY <1>1, <1>10, <3>1, <3>2 DEF Ring, Due
    <2>4. Log'
      <3>1. \A b \in logSum : /\ offset <= b /\ FloatMin <= b /\ b < End
                              /\ row[b] = {a \in Anch : <<a, b + 1>> \in found}
        BY DEF Alive, Log
      <3>2. IF anchIt = Invalid
            THEN (\A b \in logSum : flushTo <= b) /\ logSum = {}
            ELSE anchIt \in logSum /\ \A b \in logSum : anchIt <= b
        BY <1>1 DEF Alive, Log
      <3> QED  BY <1>1, <1>10, <1>13, <3>1, <3>2 DEF Log
    <2>5. Reached'  BY <1>1, <1>10, <1>13, <1>14 DEF Reached
    <2> QED  BY <1>13, <1>16, <2>1, <2>2, <2>3, <2>4, <2>5 DEF Alive
  <1> QED  BY <1>15, <1>16

----------------------------------------------------------------------------
(* The anchored table                                                      *)

\* roseAnchoredCallback runs the program or logs the literal.
LEMMA AnchoredStep ==
    ASSUME Types, Alive, NEW a \in Anch,
           NEW e \in offset + 1 .. Min({End, AnchoredDistance}), roseAnchoredCallback(a, e)
    PROVE  Types' /\ (~stopped' => Alive')
  <1>1. /\ pc = "anchored" /\ ~stopped /\ <<a, e>> \notin found /\ AnchoredNext(e)
        /\ found' = found \cup {<<a, e>>}
        /\ UNCHANGED <<pc, offset, len, filled, slot, delayLast, victims, anchIt, flushTo,
                       hit, dirty>>
    BY DEF roseAnchoredCallback, ring, flush
  <1>2. \/ /\ e <= FloatMin /\ lastEnd' = e
           /\ Play({a}, e, FALSE, FlushLastByte(e))
           /\ UNCHANGED <<logSum, row>>
        \/ /\ e > FloatMin
           /\ logSum' = logSum \cup {e - 1}
           /\ row' = [row EXCEPT ![e - 1] =
                        {a} \cup (IF e - 1 \in logSum THEN row[e - 1] ELSE {})]
           /\ UNCHANGED <<lastEnd, lastByte, stopped, out>>
    BY DEF roseAnchoredCallback, log
  <1>3. /\ e \in Nat /\ e > offset /\ e <= End /\ e <= AnchoredDistance
        /\ e \in 1 .. MaxOffset /\ e - 1 \in 0 .. AnchoredDistance - 1
    <2>1. PICK x \in Nat, y \in Nat : x = End /\ y = AnchoredDistance
      BY Numbers, Constants
    <2>2. {x, y} \subseteq Nat /\ {x, y} # {}  OBVIOUS
    <2>3. Min({x, y}) \in {x, y} /\ \A z \in {x, y} : Min({x, y}) <= z  BY <2>2, Least
    <2>4. PICK z \in Nat : z = Min({x, y})  BY <2>2, <2>3
    <2>5. z <= x /\ z <= y  BY <2>3, <2>4
    <2>6. e \in offset + 1 .. z  BY <2>1, <2>4
    <2> QED  BY <2>1, <2>4, <2>5, <2>6, Numbers, Constants
  <1>4. /\ delayLast = offset /\ hit = NoHit /\ filled = {} /\ offset < End /\ lastEnd <= End
        /\ lastEnd <= offset \/ lastEnd <= FloatMin
    BY <1>1 DEF Alive, Place, Ring, Reached
  <1>5. /\ End' = End /\ Early' = Early /\ Upto' = offset /\ Upto = offset
        /\ \A o : Gone(o)' <=> Gone(o)
    BY <1>1, <1>4 DEF End, Early, Upto, Gone
  <1>6. /\ a \notin Lit /\ a \in Literals
        /\ \A l, o : l \in Lit => (<<l, o>> \in found' <=> <<l, o>> \in found)
        /\ \A h \in found' : h \in found \/ (h[1] = a /\ h[2] = e)
        /\ \A x, o : o # e => (<<x, o>> \in found' <=> <<x, o>> \in found)
    <2>1. a \notin Lit /\ a \in Literals  BY Constants DEF Literals
    <2>2. \A h \in found' : h \in found \/ (h[1] = a /\ h[2] = e)  BY <1>1
    <2>3. ASSUME NEW l, NEW o, l \in Lit \/ o # e
          PROVE  <<l, o>> \in found' <=> <<l, o>> \in found
      <3>1. <<l, o>> # <<a, e>>
        <4>1. l # a \/ o # e  BY <2>1, <2>3
        <4> QED  BY <4>1
      <3> QED  BY <1>1, <3>1
    <2> QED  BY <2>1, <2>2, <2>3
  <1>7. found' \subseteq Literals \X (1 .. MaxOffset)
    <2>1. found \subseteq Literals \X (1 .. MaxOffset)  BY DEF Types, TypeOK, Literals
    <2>2. <<a, e>> \in Literals \X (1 .. MaxOffset)  BY <1>3, <1>6
    <2> QED  BY <1>1, <2>1, <2>2
  <1>8. \A b \in logSum : /\ b \in Nat /\ offset <= b /\ FloatMin <= b /\ b < End /\ lastEnd <= b
                          /\ row[b] = {x \in Anch : <<x, b + 1>> \in found}
    BY Numbers DEF Alive, Log
  <1>9. \A h \in found : h[1] \in Anch /\ h[2] > offset /\ h[2] > FloatMin => h[2] - 1 \in logSum
    BY <1>1 DEF Alive, Log
  <1>10. Found'
    <2>1. ASSUME NEW h \in found'
          PROVE  h[2] <= End /\ (h[1] \in Lit => LitLen[h[1]] <= h[2] /\ h[2] <= offset)
      <3>1. CASE h \in found
        <4>1. h # hit  BY <1>4, <3>1, Numbers
        <4> QED  BY <1>5, <3>1, <4>1 DEF Alive, Found
      <3>2. CASE h[1] = a /\ h[2] = e  BY <1>3, <1>6, <3>2
      <3> QED  BY <1>6, <3>1, <3>2
    <2> QED  BY <1>5, <2>1 DEF Found
  <1>11. Ring'
    <2>1. ~dirty /\ Early => \A h \in found : Delayed(h) => Due(h) <= offset
      BY <1>1 DEF Alive, Ring
    <2>2. \A h \in found' : Delayed(h) => h \in found  BY <1>6 DEF Delayed
    <2> QED  BY <1>1, <1>4, <1>5, <2>1, <2>2 DEF Ring, Delayed, Due
  <1>12. CASE /\ e <= FloatMin /\ lastEnd' = e
              /\ Play({a}, e, FALSE, FlushLastByte(e))
              /\ UNCHANGED <<logSum, row>>
    <2>1. lastEnd <= e
      <3>1. CASE lastEnd = offset  BY <1>3, <3>1, Numbers
      <3>2. CASE lastEnd # offset
        <4>1. PICK x \in Anch : <<x, lastEnd>> \in found  BY <1>1, <3>2 DEF Alive, Reached
        <4>2. PICK h \in found : h = <<x, lastEnd>>  BY <4>1
        <4>3. h[1] \in Anch /\ h[2] = lastEnd  BY <4>2
        <4>4. CASE FloatMin <= 1
          BY <1>3, <1>4, <1>12, <4>4, Numbers, Constants
        <4>5. CASE lastEnd > offset => lastEnd <= e  BY <1>3, <4>5, Numbers
        <4> QED  BY <1>1, <4>3, <4>4, <4>5 DEF AnchoredNext
      <3> QED  BY <3>1, <3>2
    <2>2. ASSUME ~stopped' PROVE Runs({a}, e, FALSE)
      <3>1. e - 1 \notin logSum  BY <1>3, <1>8, <1>12, Constants
      <3>2. ASSUME NEW p \in Entry
            PROVE  Expect(p)' <=> Expect(p) \/ p = <<a, e, FALSE>>
        <4>1. p = <<p[1], p[2], p[3]>> /\ p[3] \in BOOLEAN  BY EntryIs
        <4>2. p = <<a, e, FALSE>> => p[1] = a /\ p[2] = e /\ p[3] = FALSE  OBVIOUS
        <4>3. CASE p[3]
          <5>1. p # <<a, e, FALSE>>  BY <4>2, <4>3
          <5>2. Delayed(p) => (<<p[1], p[2] - Delay[p[1]]>> \in found'
                               <=> <<p[1], p[2] - Delay[p[1]]>> \in found)
            BY <1>6 DEF Delayed
          <5> QED  BY <1>5, <4>3, <5>1, <5>2 DEF Expect, Delayed
        <4>4. CASE ~p[3]
          <5>1. p[3] = FALSE  BY <4>1, <4>4
          <5>2. p = <<p[1], p[2], FALSE>>  BY <4>1, <5>1
          <5>3. p = <<a, e, FALSE>> <=> p[1] = a /\ p[2] = e  BY <4>2, <5>2
          <5>4. <<p[1], p[2]>> \in found' <=> <<p[1], p[2]>> \in found \/ (p[1] = a /\ p[2] = e)
            <6>1. <<p[1], p[2]>> = <<a, e>> <=> p[1] = a /\ p[2] = e  OBVIOUS
            <6> QED  BY <1>1, <6>1
          <5>5. Expect(p)' <=> /\ <<p[1], p[2]>> \in found'
                               /\ \/ p[1] \in Anch /\ p[2] - 1 \notin logSum
                                  \/ p[1] \in Lit /\ p[2] >= FloatMin /\ <<p[1], p[2]>> # hit
            BY <1>1, <1>12, <4>4 DEF Expect
          <5>6. Expect(p) <=> /\ <<p[1], p[2]>> \in found
                              /\ \/ p[1] \in Anch /\ p[2] - 1 \notin logSum
                                 \/ p[1] \in Lit /\ p[2] >= FloatMin /\ <<p[1], p[2]>> # hit
            BY <4>4 DEF Expect
          <5>7. CASE p[1] = a /\ p[2] = e  BY <3>1, <5>3, <5>4, <5>5, <5>7
          <5>8. CASE ~(p[1] = a /\ p[2] = e)  BY <5>3, <5>4, <5>5, <5>6, <5>8
          <5> QED  BY <5>7, <5>8
        <4> QED  BY <4>1, <4>3, <4>4
      <3>3. <<a, e, FALSE>> \in Entry  BY <1>3, <1>6 DEF Entry
      <3>4. Expect(<<a, e, FALSE>>)'  BY <3>2, <3>3
      <3>5. ~Expect(<<a, e, FALSE>>)  BY <1>1 DEF Expect
      <3> QED  BY <3>2, <3>4, <3>5 DEF Runs
    <2>3. pc # "idle" /\ pc' # "idle" /\ UNCHANGED <<offset, len>>  BY <1>1
    <2>4. Place /\ Replayed /\ Roles  BY DEF Alive
    <2>5. ~stopped' => Runs({a}, e, FALSE)  BY <2>2
    <2>6. Play({a}, e, FALSE, FlushLastByte(e)) /\ lastEnd' = e  BY <1>12
    <2>7. FALSE \in BOOLEAN /\ e <= End /\ {a} \subseteq Literals /\ e \in 1 .. MaxOffset
      BY <1>3, <1>6
    <2>8. stopped' \in BOOLEAN  BY <2>1, <2>3, <2>4, <2>5, <2>6, <2>7, PlayStep
    <2>9. out' \in Seq(Entry) /\ Ordered(out')
      BY <2>1, <2>3, <2>4, <2>5, <2>6, <2>7, PlayStep
    <2>10. lastByte' \subseteq Literals  BY <2>1, <2>3, <2>4, <2>5, <2>6, <2>7, PlayStep
    <2>11. ~stopped' => Replayed' /\ (pc' # "idle" => Roles')
      BY <2>1, <2>3, <2>4, <2>5, <2>6, <2>7, PlayStep
    <2>12. Types'
      <3>1. lastEnd' \in 0 .. MaxOffset  BY <1>3, <1>12
      <3>2. TypeOK'  BY <1>1, <1>7, <1>12, <2>8, <2>10, <3>1 DEF Types, TypeOK, Literals
      <3>3. (out \in Seq(Entry))' /\ Ordered(out)'  BY <2>9 DEF Entry, Literals, Ordered
      <3> QED  BY <1>1, <1>5, <3>2, <3>3 DEF Types
    <2>13. ASSUME ~stopped' PROVE Alive'
      <3>1. Place'  BY <1>1, <1>3, <1>4, <1>5, <1>12, Numbers DEF Place
      <3>2. Log'
        <4>1. ASSUME NEW b \in logSum
              PROVE  e <= b /\ row[b] = {x \in Anch : <<x, b + 1>> \in found'}
          <5>1. e <= b /\ b + 1 # e  BY <1>3, <1>8, <1>12, Constants
          <5>2. \A x : <<x, b + 1>> \in found' <=> <<x, b + 1>> \in found  BY <1>6, <5>1
          <5> QED  BY <1>8, <5>1, <5>2
        <4>2. \A h \in found' :
                 h[1] \in Anch /\ h[2] > offset /\ h[2] > FloatMin => h[2] - 1 \in logSum
          <5>1. ~(e > FloatMin)  BY <1>3, <1>12, Constants
          <5> QED  BY <1>6, <1>9, <5>1
        <4> QED  BY <1>1, <1>4, <1>5, <1>8, <1>12, <4>1, <4>2 DEF Log
      <3>3. Reached'
        <4>1. <<a, e>> \in found'  BY <1>1
        <4> QED  BY <1>1, <1>12, <4>1 DEF Reached
      <3> QED  BY <1>10, <1>11, <2>3, <2>11, <2>13, <3>1, <3>2, <3>3 DEF Alive
    <2> QED  BY <2>12, <2>13
  <1>13. CASE /\ e > FloatMin
              /\ logSum' = logSum \cup {e - 1}
              /\ row' = [row EXCEPT ![e - 1] =
                           {a} \cup (IF e - 1 \in logSum THEN row[e - 1] ELSE {})]
              /\ UNCHANGED <<lastEnd, lastByte, stopped, out>>
    <2>1. row \in [0 .. AnchoredDistance - 1 -> SUBSET Anch]
          /\ logSum \subseteq 0 .. AnchoredDistance - 1
      BY DEF Types, TypeOK
    <2>2. \A b \in 0 .. AnchoredDistance - 1 : b # e - 1 => row'[b] = row[b]
      BY <1>3, <1>13, <2>1
    <2>3. row'[e - 1] = {a} \cup (IF e - 1 \in logSum THEN row[e - 1] ELSE {})
      BY <1>3, <1>13, <2>1
    <2>4. row' \in [0 .. AnchoredDistance - 1 -> SUBSET Anch]
      <3>1. {a} \cup (IF e - 1 \in logSum THEN row[e - 1] ELSE {}) \in SUBSET Anch
        BY <1>3, <2>1
      <3> QED  BY <1>13, <2>1, <3>1
    <2>5. row'[e - 1] = {x \in Anch : <<x, e>> \in found'}
      <3>1. (e - 1) + 1 = e  BY <1>3
      <3>2. CASE e - 1 \in logSum
        <4>1. row[e - 1] = {x \in Anch : <<x, e>> \in found}  BY <1>8, <3>1, <3>2
        <4> QED  BY <1>1, <2>3, <3>2, <4>1
      <3>3. CASE e - 1 \notin logSum
        <4>1. ASSUME NEW x \in Anch, <<x, e>> \in found PROVE FALSE
          <5>1. PICK h \in found : h = <<x, e>>  BY <4>1
          <5>2. h[1] = x /\ h[2] = e  BY <5>1
          <5> QED  BY <1>3, <1>9, <1>13, <3>3, <5>2
        <4> QED  BY <1>1, <2>3, <3>3, <4>1
      <3> QED  BY <3>2, <3>3
    <2>6. Types'
      <3>1. logSum' \subseteq 0 .. AnchoredDistance - 1  BY <1>3, <1>13, <2>1
      <3>2. TypeOK'  BY <1>1, <1>7, <1>13, <2>4, <3>1 DEF Types, TypeOK, Literals
      <3> QED  BY <1>1, <1>5, <1>13, <3>2 DEF Types, Entry, Literals, Ordered
    <2>7. Place'  BY <1>1, <1>4, <1>5, <1>13, Numbers DEF Place
    <2>8. Log'
      <3>1. ASSUME NEW b \in logSum'
            PROVE  /\ offset <= b /\ FloatMin <= b /\ b < End /\ lastEnd <= b
                   /\ row'[b] = {x \in Anch : <<x, b + 1>> \in found'}
        <4>1. CASE b = e - 1
          <5>1. b + 1 = e  BY <1>3, <4>1
          <5>2. offset <= b /\ FloatMin <= b /\ b < End /\ lastEnd <= b
            BY <1>3, <1>4, <1>13, <4>1, Numbers, Constants
          <5> QED  BY <2>5, <4>1, <5>1, <5>2
        <4>2. CASE b # e - 1
          <5>1. b \in logSum /\ b \in 0 .. AnchoredDistance - 1  BY <1>13, <2>1, <4>2
          <5>2. b + 1 # e  BY <1>3, <4>2, <5>1, Constants
          <5>3. \A x : <<x, b + 1>> \in found' <=> <<x, b + 1>> \in found  BY <1>6, <5>2
          <5> QED  BY <1>8, <2>2, <4>2, <5>1, <5>3
        <4> QED  BY <4>1, <4>2
      <3>2. \A h \in found' :
               h[1] \in Anch /\ h[2] > offset /\ h[2] > FloatMin => h[2] - 1 \in logSum'
        BY <1>6, <1>9, <1>13
      <3> QED  BY <1>1, <1>4, <1>5, <1>13, <3>1, <3>2 DEF Log
    <2>9. Reached'
      <3>1. lastEnd = offset \/ \E x \in Anch : <<x, lastEnd>> \in found'
        BY <1>1 DEF Alive, Reached
      <3> QED  BY <1>1, <1>4, <1>13, <3>1 DEF Reached
    <2>10. Replayed'
      <3>1. ASSUME NEW p \in Entry PROVE Expect(p)' <=> Expect(p)
        <4>1. p[2] \in Nat /\ p[3] \in BOOLEAN /\ p[1] \in Literals  BY EntryIs
        <4>2. CASE p[3]
          <5>1. Delayed(p) => (<<p[1], p[2] - Delay[p[1]]>> \in found'
                               <=> <<p[1], p[2] - Delay[p[1]]>> \in found)
            BY <1>6 DEF Delayed
          <5> QED  BY <1>5, <4>2, <5>1 DEF Expect, Delayed
        <4>3. CASE ~p[3]
          <5>1. Expect(p)' <=> /\ <<p[1], p[2]>> \in found'
                               /\ \/ p[1] \in Anch /\ p[2] - 1 \notin logSum'
                                  \/ p[1] \in Lit /\ p[2] >= FloatMin /\ <<p[1], p[2]>> # hit
            BY <1>1, <4>3 DEF Expect
          <5>2. Expect(p) <=> /\ <<p[1], p[2]>> \in found
                              /\ \/ p[1] \in Anch /\ p[2] - 1 \notin logSum
                                 \/ p[1] \in Lit /\ p[2] >= FloatMin /\ <<p[1], p[2]>> # hit
            BY <4>3 DEF Expect
          <5>3. CASE p[1] \in Lit
            <6>1. p[1] \notin Anch  BY <5>3, Constants
            <6> QED  BY <1>6, <5>1, <5>2, <5>3, <6>1
          <5>4. CASE p[1] \notin Lit /\ p[2] # e
            <6>1. p[2] - 1 # e - 1  BY <1>3, <4>1, <5>4
            <6>2. p[2] - 1 \in logSum' <=> p[2] - 1 \in logSum  BY <1>13, <6>1
            <6> QED  BY <1>6, <5>1, <5>2, <5>4, <6>2
          <5>5. CASE p[1] \notin Lit /\ p[2] = e
            <6>1. p[2] - 1 \in logSum'  BY <1>13, <5>5
            <6>2. ASSUME p[1] \in Anch, <<p[1], e>> \in found PROVE e - 1 \in logSum
              <7>1. PICK h \in found : h = <<p[1], e>>  BY <6>2
              <7>2. h[1] = p[1] /\ h[2] = e  BY <7>1
              <7> QED  BY <1>3, <1>9, <1>13, <6>2, <7>2
            <6> QED  BY <5>1, <5>2, <5>5, <6>1, <6>2
          <5> QED  BY <5>3, <5>4, <5>5
        <4> QED  BY <4>1, <4>2, <4>3
      <3>2. \A p \in ToSet(out) : p[2] <= lastEnd'  BY <1>13 DEF Alive, Replayed
      <3> QED  BY <1>13, <3>1, <3>2, OutIs, QuietStep DEF Alive
    <2>11. Roles'  BY <1>1, <1>5, <1>13 DEF Alive, Roles, ToSet
    <2> QED  BY <1>10, <1>11, <2>6, <2>7, <2>8, <2>9, <2>10, <2>11 DEF Alive
  <1> QED  BY <1>2, <1>12, <1>13

----------------------------------------------------------------------------
(* Every step, and the theorems                                            *)

\* Every step keeps the invariant.
LEMMA Step == IInv /\ [Next]_vars => IInv'
  <1> SUFFICES ASSUME IInv, [Next]_vars PROVE IInv'  OBVIOUS
  <1>1. Types /\ (~stopped => Alive)  BY DEF IInv
  <1>2. stopped => pc \in {"idle", "anchored", "flush"}  BY <1>1 DEF Types
  <1>3. ASSUME NEW n \in 1 .. MaxOffset, roseStreamExec(n) PROVE IInv'
    <2>1. Alive  BY <1>1, <1>3 DEF roseStreamExec
    <2> QED  BY <1>1, <1>3, <2>1, ExecStep DEF IInv
  <1>4. ASSUME NEW a \in Anch, NEW e \in offset + 1 .. Min({End, AnchoredDistance}),
               roseAnchoredCallback(a, e)
        PROVE  IInv'
    <2>1. Alive  BY <1>1, <1>4 DEF roseAnchoredCallback
    <2> QED  BY <1>1, <1>4, <2>1, AnchoredStep DEF IInv
  <1>5. CASE AnchoredDone  BY <1>1, <1>5, AnchoredDoneStep DEF IInv
  <1>6. CASE Rebuild
    <2>1. ~stopped /\ Alive  BY <1>1, <1>2, <1>6 DEF Rebuild
    <2> QED  BY <1>1, <1>6, <2>1, RebuildStep DEF IInv
  <1>7. ASSUME NEW l \in Lit, NEW e \in offset + 1 .. End, roseCallback(l, e) PROVE IInv'
    <2>1. ~stopped /\ Alive  BY <1>1, <1>2, <1>7 DEF roseCallback
    <2> QED  BY <1>1, <1>7, <2>1, CallbackStep DEF IInv
  <1>8. CASE FlushAnchored
    <2>1. Alive  BY <1>1, <1>8 DEF FlushAnchored
    <2> QED  BY <1>1, <1>8, <2>1, FlushAnchoredStep DEF IInv
  <1>9. CASE PlayDelaySlot
    <2>1. Alive  BY <1>1, <1>9 DEF PlayDelaySlot
    <2> QED  BY <1>1, <1>9, <2>1, PlayDelaySlotStep DEF IInv
  <1>10. CASE FlushDone
    <2>1. Alive  BY <1>1, <1>10 DEF FlushDone
    <2> QED  BY <1>1, <1>10, <2>1, FlushDoneStep DEF IInv
  <1>11. CASE FlushStopped  BY <1>1, <1>11, FlushStoppedStep DEF IInv
  <1>12. CASE LiteralProgram
    <2>1. ~stopped /\ Alive  BY <1>1, <1>2, <1>12 DEF LiteralProgram
    <2> QED  BY <1>1, <1>12, <2>1, LiteralStep DEF IInv
  <1>13. CASE FloatingDone
    <2>1. ~stopped /\ Alive  BY <1>1, <1>2, <1>13 DEF FloatingDone
    <2> QED  BY <1>1, <1>13, <2>1, FloatingDoneStep DEF IInv
  <1>14. CASE CleanUp
    <2>1. ~stopped /\ Alive  BY <1>1, <1>2, <1>14 DEF CleanUp
    <2> QED  BY <1>1, <1>14, <2>1, CleanUpStep DEF IInv
  <1>15. CASE UNCHANGED vars
    <2>1. UNCHANGED <<pc, offset, len, filled, slot, delayLast, lastEnd, logSum, row, victims,
                      anchIt, flushTo, hit, dirty, lastByte, stopped, found, out>>
      BY <1>15 DEF vars, ring, log, flush
    <2>2. /\ End' = End /\ Early' = Early /\ Base' = Base /\ Upto' = Upto
          /\ Queued' = Queued /\ ToSet(out)' = ToSet(out)
      BY <2>1 DEF End, Early, Base, Upto, Queued, Delayed, Due, ToSet
    <2>3. Types'  BY <1>1, <2>1, <2>2 DEF Types, TypeOK, Entry, Literals, Ordered
    <2>4. ASSUME ~stopped PROVE Alive'
      <3>1. Alive  BY <1>1, <2>4
      <3>2. Place' /\ Found'  BY <2>1, <2>2, <3>1 DEF Alive, Place, Found
      <3>3. Ring'  BY <2>1, <2>2, <3>1 DEF Alive, Ring, RingHolds, SlotOf, Delayed, Due
      <3>4. Log' /\ Reached'  BY <2>1, <2>2, <3>1 DEF Alive, Log, Reached
      <3>5. Replayed'
        <4>1. \A o : Gone(o)' <=> Gone(o)  BY <2>1, <2>2 DEF Gone
        <4>2. \A p : Expect(p)' <=> Expect(p)  BY <2>1, <4>1 DEF Expect, Delayed
        <4>3. \A p \in ToSet(out) : p[2] <= lastEnd'  BY <2>1, <3>1 DEF Alive, Replayed
        <4> QED  BY <1>1, <2>1, <3>1, <4>2, <4>3, OutIs, QuietStep DEF Alive
      <3>6. Roles'  BY <2>1, <2>2, <3>1 DEF Alive, Roles
      <3> QED  BY <3>2, <3>3, <3>4, <3>5, <3>6 DEF Alive
    <2> QED  BY <2>1, <2>3, <2>4 DEF IInv
  <1> QED  BY <1>3, <1>4, <1>5, <1>6, <1>7, <1>8, <1>9, <1>10, <1>11, <1>12, <1>13, <1>14,
              <1>15 DEF Next, WriteStep

\* The ring, the log and what was run stay consistent (roseStreamExec).
THEOREM ReplayInvariant == Spec => []IInv
  BY InitStep, Step, PTL DEF Spec

\* Programs run in the order of the offsets they match at, however the anchored
\* log, the delay ring and direct matches interleave (flushQueuedLiterals,
\* flushAnchoredLiteralAtLoc, playDelaySlot).
THEOREM ReplaysAscend == Spec => []ReplayInOrder
  <1>1. IInv => ReplayInOrder
    <2> SUFFICES ASSUME IInv, NEW i \in 1 .. Len(out) - 1
                 PROVE  out[i][2] <= out[i + 1][2]
      BY DEF ReplayInOrder
    <2>1. Ordered(out) /\ out \in Seq(Entry)  BY DEF IInv, Types
    <2>2. Len(out) \in Nat  BY <2>1
    <2>3. i \in 1 .. Len(out) /\ i + 1 \in 1 .. Len(out) /\ i < i + 1  BY <2>2
    <2> QED  BY <2>1, <2>3 DEF Ordered
  <1> QED  BY <1>1, ReplayInvariant, PTL

\* Between two writes every program that is due by now ran exactly once, also a
\* delayed one whose delay spans writes (flushQueuedLiterals, rosePushDelayedMatch,
\* roseDelayRebuildCallback, cleanUpDelayed).
THEOREM ReplaysExact == Spec => []ReplayExact
  <1>1. IInv => ReplayExact
    <2> SUFFICES ASSUME IInv, pc = "idle", ~stopped
                 PROVE  /\ {p \in ToSet(out) : InBound(p)} = {p \in Expected(offset) : InBound(p)}
                        /\ IsInjective(out)
      BY DEF ReplayExact
    <2>1. Types /\ Alive  BY DEF IInv
    <2>2. logSum = {} /\ hit = NoHit /\ End = offset  BY <2>1, AtRest
    <2>3. \A o : Gone(o) <=> o <= offset  BY DEF Gone, Upto
    <2>4. \A h \in found : h # hit /\ h[2] <= offset /\ h[2] \in Nat /\ h = <<h[1], h[2]>>
      BY <2>1, <2>2, Numbers, FoundIs DEF Alive, Found
    <2>5. ASSUME NEW p \in Entry, Expect(p) PROVE p \in Expected(offset)
      <3>1. p = <<p[1], p[2], p[3]>> /\ p[2] \in Nat /\ p[3] \in BOOLEAN  BY EntryIs
      <3>2. CASE p[3]
        <4>1. /\ Delayed(p) /\ p[2] >= FloatMin /\ p[2] <= offset
              /\ <<p[1], p[2] - Delay[p[1]]>> \in found
          BY <2>3, <2>5, <3>2 DEF Expect
        <4>2. PICK f : f = found  OBVIOUS
        <4>3. f \subseteq Literals \X (1 .. MaxOffset)
          BY <2>1, <4>2 DEF Types, TypeOK, Literals
        <4>4. PICK h \in f : /\ h = <<p[1], p[2] - Delay[p[1]]>> /\ Delayed(h)
                             /\ Due(h) = p[2] /\ p = <<h[1], Due(h), TRUE>>
          <5>1. <<p[1], p[2] - Delay[p[1]]>> \in f  BY <4>1, <4>2
          <5>2. Delayed(p)  BY <4>1
          <5> QED  BY <2>1, <3>2, <4>3, <5>1, <5>2, ExpectDelayed
        <4>5. h[2] + Delay[h[1]] \in FloatMin .. offset
          BY <2>1, <3>1, <4>1, <4>4, Numbers, Constants DEF Due
        <4>6. h \in {x \in found : x[1] \in Lit /\ Delay[x[1]] > 0
                                   /\ x[2] + Delay[x[1]] \in FloatMin .. offset}
          BY <4>2, <4>4, <4>5 DEF Delayed
        <4>7. p = <<h[1], h[2] + Delay[h[1]], TRUE>>  BY <4>4 DEF Due
        <4> QED  BY <4>6, <4>7 DEF Expected
      <3>3. CASE ~p[3]
        <4>1. /\ <<p[1], p[2]>> \in found
              /\ p[1] \in Anch \/ (p[1] \in Lit /\ p[2] >= FloatMin)
          BY <2>5, <3>3 DEF Expect
        <4>2. PICK h \in found : h = <<p[1], p[2]>>  BY <4>1
        <4>3. h[1] = p[1] /\ h[2] = p[2] /\ h[2] <= offset  BY <2>4, <4>2
        <4>4. p[3] = FALSE  BY <3>1, <3>3
        <4>5. p = <<h[1], h[2], FALSE>>  BY <3>1, <4>3, <4>4
        <4>6. h \in {x \in found : x[2] <= offset /\ (x[1] \in Anch \/ x[2] >= FloatMin)}
          BY <4>1, <4>3
        <4> QED  BY <4>5, <4>6 DEF Expected
      <3> QED  BY <3>1, <3>2, <3>3
    <2>6. ASSUME NEW p \in Expected(offset) PROVE p \in Entry /\ Expect(p)
      <3>1. CASE p \in {<<h[1], h[2], FALSE>> : h \in {x \in found :
                            x[2] <= offset /\ (x[1] \in Anch \/ x[2] >= FloatMin)}}
        <4>1. PICK h \in found : /\ h[1] \in Anch \/ h[2] >= FloatMin
                                 /\ p = <<h[1], h[2], FALSE>>
          BY <3>1
        <4>2. p[1] = h[1] /\ p[2] = h[2] /\ p[3] = FALSE  BY <4>1
        <4>3. h[1] \in Literals /\ h[2] \in 1 .. MaxOffset  BY <2>1, FoundIs
        <4>4. <<p[1], p[2]>> \in found /\ <<p[1], p[2]>> # hit  BY <2>4, <4>2
        <4>5. p \in Entry  BY <4>1, <4>3 DEF Entry
        <4>6. p[1] \in Anch \/ (p[1] \in Lit /\ p[2] >= FloatMin)
          BY <4>1, <4>2, <4>3 DEF Literals
        <4> QED  BY <2>2, <4>2, <4>4, <4>5, <4>6 DEF Expect
      <3>2. CASE p \in {<<h[1], h[2] + Delay[h[1]], TRUE>> : h \in {x \in found :
                            x[1] \in Lit /\ Delay[x[1]] > 0
                            /\ x[2] + Delay[x[1]] \in FloatMin .. offset}}
        <4>1. PICK h \in found : /\ h[1] \in Lit /\ Delay[h[1]] > 0
                                 /\ h[2] + Delay[h[1]] \in FloatMin .. offset
                                 /\ p = <<h[1], h[2] + Delay[h[1]], TRUE>>
          BY <3>2
        <4>2. PICK e \in Nat, d \in Nat, at \in Nat :
                  e = h[2] /\ d = Delay[h[1]] /\ at = e + d
          BY <2>1, <4>1, FoundIs
        <4>3. p = <<h[1], at, TRUE>> /\ at \in FloatMin .. offset  BY <4>1, <4>2
        <4>4. p[1] = h[1] /\ p[2] = at /\ p[3] = TRUE  BY <4>3
        <4>5. at \in 1 .. MaxOffset
          <5>1. e > 0  BY <2>1, <4>2, FoundIs
          <5> QED  BY <2>1, <2>2, <4>2, <4>3, <5>1, Numbers, Constants
        <4>6. p \in Entry
          <5>1. h[1] \in Literals  BY <4>1 DEF Literals
          <5> QED  BY <4>3, <4>5, <5>1 DEF Entry
        <4>7. p[2] - Delay[p[1]] = h[2]  BY <4>2, <4>4
        <4>8. <<p[1], p[2] - Delay[p[1]]>> \in found  BY <2>4, <4>4, <4>7
        <4>9. Delayed(p)  BY <4>1, <4>4 DEF Delayed
        <4>10. p[2] >= FloatMin /\ p[2] <= offset
          BY <2>1, <4>3, <4>4, Numbers, Constants
        <4> QED  BY <2>3, <4>4, <4>6, <4>8, <4>9, <4>10 DEF Expect
      <3> QED  BY <2>6, <3>1, <3>2 DEF Expected
    <2>7. \A p \in ToSet(out) : p \in Entry /\ Expect(p)
      BY <2>1, OutIs DEF Alive, Replayed
    <2>8. \A p \in Entry : Expect(p) /\ InBound(p) => p \in ToSet(out)
      BY <2>1 DEF Alive, Replayed
    <2>9. IsInjective(out)  BY <2>1 DEF Alive, Replayed
    <2> QED  BY <2>5, <2>6, <2>7, <2>8, <2>9
  <1> QED  BY <1>1, ReplayInvariant, PTL

\* Between two writes the last-byte roles are those of the programs that ran at
\* the end of the data (roseFlushLastByteHistory, ensureStreamNeatAndTidy).
THEOREM LastByteKept == Spec => []LastByteExact
  <1>1. IInv => LastByteExact
    <2> SUFFICES ASSUME IInv, pc = "idle", ~stopped
                 PROVE  lastByte = {p[1] : p \in {x \in ToSet(out) : x[2] = offset}}
      BY DEF LastByteExact
    <2>1. Types /\ Alive  BY DEF IInv
    <2>2. End = offset  BY <2>1, AtRest
    <2> QED  BY <2>1, <2>2 DEF Alive, Roles
  <1> QED  BY <1>1, ReplayInvariant, PTL
=============================================================================
