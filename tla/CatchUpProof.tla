------------------------------ MODULE CatchUpProof ------------------------------
EXTENDS CatchUp, FiniteSetTheorems, FunctionTheorems, WellFoundedInduction, TLAPS

\* The offsets in a block, what can be reported, and the engines but the MPV.
Times   == 0 .. Length
Reports == (0 .. QueueCount) \X Times
Others  == Engine \ {MPV}

----------------------------------------------------------------------------
(* Least and greatest elements, and the order in which the MPV reports     *)

\* The order induction is over, as a set of pairs.
Below == {ss \in Nat \X Nat : ss[1] < ss[2]}

\* A set of numbers that is not empty has a least one.
LEMMA MinIs ==
    ASSUME NEW T, T \subseteq Nat, T # {}
    PROVE  Min(T) \in T /\ \A y \in T : Min(T) <= y
  <1>1. IsWellFoundedOn(Below, Nat)
    BY NatLessThanWellFounded, Zenon DEF OpToRel, Below
  <1>2. PICK x \in T : \A y \in T : ~ (<<y, x>> \in Below)
    BY <1>1, WFMin, Zenon
  <1>3. ASSUME NEW y \in T PROVE x <= y
    <2>1. x \in Nat /\ y \in Nat OBVIOUS
    <2>2. <<y, x>> \in Nat \X Nat /\ <<y, x>>[1] = y /\ <<y, x>>[2] = x  BY <2>1
    <2>3. y < x => <<y, x>> \in Below  BY <2>2 DEF Below
    <2> QED BY <1>2, <2>1, <2>3
  <1> QED BY <1>3 DEF Min

\* A bounded set of numbers that is not empty has a greatest one.
LEMMA MaxIs ==
    ASSUME NEW n \in Nat, NEW T, T \subseteq 0 .. n, T # {}
    PROVE  Max(T) \in T /\ \A y \in T : y <= Max(T)
  <1> DEFINE U == {n - y : y \in T}
  <1>1. U \subseteq Nat /\ U # {}
    <2>1. \A y \in T : n - y \in Nat  OBVIOUS
    <2> QED  BY <2>1
  <1>2. PICK m \in U : \A u \in U : m <= u
    <2> HIDE DEF U
    <2> QED  BY <1>1, MinIs
  <1>3. PICK x \in T : m = n - x  BY <1>2
  <1>4. \A y \in T : y <= x
    <2> SUFFICES ASSUME NEW y \in T PROVE y <= x  OBVIOUS
    <2>1. n - y \in U  OBVIOUS
    <2>2. n - x <= n - y  BY <1>2, <1>3, <2>1
    <2>3. x \in Nat /\ y \in Nat  OBVIOUS
    <2> QED  BY <2>2, <2>3
  <1>5. \A y \in T : x >= y  BY <1>4
  <1> QED  BY <1>3, <1>4, <1>5 DEF Max

\* The greater of two numbers.
LEMMA MaxOfTwo ==
    ASSUME NEW a \in Int, NEW b \in Int
    PROVE  Max({a, b}) = IF a >= b THEN a ELSE b
  <1> DEFINE c == IF a >= b THEN a ELSE b
  <1>1. c \in {a, b} /\ (\A y \in {a, b} : c >= y)  OBVIOUS
  <1>2. \A x \in {a, b} : (\A y \in {a, b} : x >= y) => x = c  OBVIOUS
  <1> HIDE DEF c
  <1>3. Max({a, b}) = c  BY <1>1, <1>2 DEF Max
  <1> QED  BY <1>3 DEF c

\* How many offsets of S are not after o.
Rank(S, o) == Cardinality({p \in S : p <= o})

\* The ranks of the offsets of S are 1 up to the number of them, in order: the
\* MPV's run reports each offset once, from left to right.
LEMMA RankIs ==
    ASSUME NEW n \in Nat, NEW S, S \subseteq 0 .. n
    PROVE  /\ IsFiniteSet(S) /\ Cardinality(S) \in Nat
           /\ \A o \in S : Rank(S, o) \in 1 .. Cardinality(S)
           /\ \A o, p \in S : o < p => Rank(S, o) < Rank(S, p)
           /\ \A i \in 1 .. Cardinality(S) : \E o \in S : Rank(S, o) = i
  <1>1. IsFiniteSet(S) /\ Cardinality(S) \in Nat
    <2>1. IsFiniteSet(0 .. n) /\ S \in SUBSET (0 .. n)  BY FS_Interval
    <2>2. IsFiniteSet(S)  BY <2>1, FS_Subset
    <2> QED  BY <2>2, FS_CardinalityType
  <1> DEFINE notAfter(o) == {p \in S : p <= o}
  <1>2. \A o \in S : /\ notAfter(o) \in SUBSET S /\ IsFiniteSet(notAfter(o)) /\ o \in notAfter(o)
                     /\ Rank(S, o) \in Nat /\ Rank(S, o) <= Cardinality(S)
    <2> SUFFICES ASSUME NEW o \in S
                 PROVE  /\ notAfter(o) \in SUBSET S /\ IsFiniteSet(notAfter(o)) /\ o \in notAfter(o)
                        /\ Rank(S, o) \in Nat /\ Rank(S, o) <= Cardinality(S)
      OBVIOUS
    <2>1. notAfter(o) \in SUBSET S /\ o \in notAfter(o)  OBVIOUS
    <2>2. IsFiniteSet(notAfter(o)) /\ Cardinality(notAfter(o)) <= Cardinality(S)
      BY <1>1, <2>1, FS_Subset
    <2>3. Cardinality(notAfter(o)) \in Nat  BY <2>2, FS_CardinalityType
    <2> QED  BY <2>1, <2>2, <2>3 DEF Rank
  <1>3. \A o \in S : Rank(S, o) \in 1 .. Cardinality(S)
    <2> SUFFICES ASSUME NEW o \in S PROVE Rank(S, o) \in 1 .. Cardinality(S)  OBVIOUS
    <2>1. notAfter(o) # {} /\ IsFiniteSet(notAfter(o))  BY <1>2
    <2>2. Cardinality(notAfter(o)) # 0  BY <2>1, FS_EmptySet
    <2>3. Rank(S, o) # 0  BY <2>2 DEF Rank
    <2>4. Rank(S, o) \in Nat /\ Rank(S, o) <= Cardinality(S)  BY <1>2
    <2> QED  BY <1>1, <2>3, <2>4
  <1>4. ASSUME NEW o \in S, NEW p \in S, o < p PROVE Rank(S, o) < Rank(S, p)
    <2>1. notAfter(o) \in SUBSET notAfter(p) /\ p \in notAfter(p) /\ p \notin notAfter(o)
      <3>1. \A x \in S : x \in Nat  OBVIOUS
      <3>2. \A x \in S : x <= o => x <= p  BY <1>4, <3>1
      <3>3. notAfter(o) \in SUBSET notAfter(p)  BY <3>2
      <3>4. p \in notAfter(p) /\ p \notin notAfter(o)  BY <1>4, <3>1
      <3> QED  BY <3>3, <3>4
    <2>2. Cardinality(notAfter(o)) <= Cardinality(notAfter(p))
          /\ Cardinality(notAfter(o)) # Cardinality(notAfter(p))
      BY <1>2, <2>1, FS_Subset
    <2> QED  BY <1>2, <2>2 DEF Rank
  <1>5. ASSUME NEW i \in 1 .. Cardinality(S) PROVE \E o \in S : Rank(S, o) = i
    <2> DEFINE f == [o \in S |-> Rank(S, o)]
               N == 1 .. Cardinality(S)
    <2>1. f \in [S -> N]  BY <1>3
    <2>2. \A o, p \in S : f[o] = f[p] => o = p
      <3> SUFFICES ASSUME NEW o \in S, NEW p \in S, f[o] = f[p], o # p PROVE FALSE
        OBVIOUS
      <3>1. o < p \/ p < o  OBVIOUS
      <3>2. Rank(S, o) = Rank(S, p)  OBVIOUS
      <3>3. Rank(S, o) \in Nat /\ Rank(S, p) \in Nat  BY <1>2
      <3> QED  BY <1>4, <3>1, <3>2, <3>3
    <2>3. f \in Injection(S, N)  BY <2>1, <2>2 DEF Injection, IsInjective
    <2>4. IsFiniteSet(N) /\ Cardinality(N) = Cardinality(S)  BY <1>1, FS_Interval
    <2> HIDE DEF f, N
    <2>5. f \in Surjection(S, N)  BY <2>3, <2>4, FS_Injection
    <2>6. i \in N  BY DEF N
    <2>7. \E o \in S : f[o] = i  BY <2>5, <2>6 DEF Surjection
    <2> QED  BY <2>7 DEF f
  <1> QED  BY <1>1, <1>3, <1>4, <1>5

\* The offsets in order, each once.
LEMMA AscendingIs ==
    ASSUME NEW n \in Nat, NEW S, S \subseteq 0 .. n
    PROVE  /\ Cardinality(S) \in Nat
           /\ DOMAIN Ascending(S) = 1 .. Cardinality(S)
           /\ \A i \in 1 .. Cardinality(S) : Ascending(S)[i] \in S
           /\ \A i, j \in 1 .. Cardinality(S) : i < j => Ascending(S)[i] < Ascending(S)[j]
           /\ \A o \in S : \E i \in 1 .. Cardinality(S) : Ascending(S)[i] = o
  <1>1. /\ Cardinality(S) \in Nat
        /\ \A o \in S : Rank(S, o) \in 1 .. Cardinality(S)
        /\ \A o, p \in S : o < p => Rank(S, o) < Rank(S, p)
        /\ \A i \in 1 .. Cardinality(S) : \E o \in S : Rank(S, o) = i
    BY RankIs
  <1>2. \A i \in 1 .. Cardinality(S) :
           Ascending(S)[i] = CHOOSE o \in S : Rank(S, o) = i
    BY DEF Ascending, Rank
  <1>3. \A i \in 1 .. Cardinality(S) :
           Ascending(S)[i] \in S /\ Rank(S, Ascending(S)[i]) = i
    BY <1>1, <1>2
  <1>4. ASSUME NEW i \in 1 .. Cardinality(S), NEW j \in 1 .. Cardinality(S), i < j
        PROVE  Ascending(S)[i] < Ascending(S)[j]
    <2>1. PICK a, b : a = Ascending(S)[i] /\ b = Ascending(S)[j]  OBVIOUS
    <2>2. a \in S /\ b \in S /\ Rank(S, a) = i /\ Rank(S, b) = j  BY <1>3, <2>1
    <2>3. a \in Nat /\ b \in Nat  BY <2>2
    <2>4. ~(b < a) /\ a # b  BY <1>1, <1>4, <2>2
    <2> QED  BY <2>1, <2>3, <2>4
  <1>5. ASSUME NEW o \in S PROVE \E i \in 1 .. Cardinality(S) : Ascending(S)[i] = o
    <2>1. PICK i : i = Rank(S, o)  OBVIOUS
    <2>2. i \in 1 .. Cardinality(S)  BY <1>1, <2>1
    <2>3. PICK a : a = Ascending(S)[i]  OBVIOUS
    <2>4. a \in S /\ Rank(S, a) = Rank(S, o)  BY <1>3, <2>1, <2>2, <2>3
    <2>5. a \in Nat /\ o \in Nat /\ i \in Nat  BY <2>2, <2>4
    <2>6. a = o  BY <1>1, <2>1, <2>2, <2>4, <2>5
    <2> QED  BY <2>2, <2>3, <2>6
  <1>6. DOMAIN Ascending(S) = 1 .. Cardinality(S)  BY DEF Ascending
  <1> QED  BY <1>1, <1>3, <1>4, <1>5, <1>6

----------------------------------------------------------------------------
(* What was reported                                                       *)

\* In order, each match once, and nothing past b.
OutUpTo(s, b) ==
    /\ \A i \in DOMAIN s : s[i][2] <= b
    /\ \A i, j \in DOMAIN s : i < j => s[i][2] <= s[j][2] /\ s[i] # s[j]

\* One more report, not before the last one and new, keeps the reports in order.
LEMMA OutOne ==
    ASSUME NEW s \in Seq(Reports), NEW b \in Times, OutUpTo(s, b), NEW q \in 0 .. QueueCount,
           <<q, b>> \notin Range(s)
    PROVE  /\ Append(s, <<q, b>>) \in Seq(Reports)
           /\ OutUpTo(Append(s, <<q, b>>), b)
           /\ Range(Append(s, <<q, b>>)) = Range(s) \cup {<<q, b>>}
  <1>1. PICK m : m = <<q, b>>  OBVIOUS
  <1>2. m \in Reports /\ m[2] = b /\ m \notin Range(s)  BY <1>1 DEF Reports
  <1>3. PICK t : t = Append(s, m)  OBVIOUS
  <1>4. /\ t \in Seq(Reports) /\ DOMAIN t = 1 .. Len(s) + 1 /\ DOMAIN s = 1 .. Len(s)
        /\ Len(s) \in Nat /\ t[Len(s) + 1] = m /\ \A i \in DOMAIN s : t[i] = s[i]
    BY <1>2, <1>3
  <1>5. \A i \in DOMAIN s : s[i] # m  BY <1>2 DEF Range
  <1>6. \A i \in DOMAIN s : s[i][2] \in Times  BY DEF Reports
  <1>7. \A i \in DOMAIN t : t[i][2] <= b
    <2> SUFFICES ASSUME NEW i \in DOMAIN t PROVE t[i][2] <= b  OBVIOUS
    <2>1. CASE i \in DOMAIN s  BY <1>4, <2>1 DEF OutUpTo
    <2>2. CASE i = Len(s) + 1  BY <1>2, <1>4, <2>2 DEF Times
    <2> QED  BY <1>4, <2>1, <2>2
  <1>8. ASSUME NEW i \in DOMAIN t, NEW j \in DOMAIN t, i < j
        PROVE  t[i][2] <= t[j][2] /\ t[i] # t[j]
    <2>1. i \in DOMAIN s  BY <1>4, <1>8
    <2>2. CASE j \in DOMAIN s  BY <1>4, <1>8, <2>1, <2>2 DEF OutUpTo
    <2>3. CASE j = Len(s) + 1  BY <1>2, <1>4, <1>5, <1>7, <2>1, <2>3
    <2> QED  BY <1>4, <2>2, <2>3
  <1>9. Range(t) = Range(s) \cup {m}
    <2>1. DOMAIN t = DOMAIN s \cup {Len(s) + 1}  BY <1>4
    <2> QED  BY <1>4, <2>1 DEF Range
  <1> QED  BY <1>1, <1>3, <1>4, <1>7, <1>8, <1>9 DEF OutUpTo

\* What the MPV adds when it is run.
Run(S) == [i \in 1 .. Cardinality(S) |-> <<MPV, Ascending(S)[i]>>]

\* So does a run of the MPV over offsets after the last report.
LEMMA OutMpv ==
    ASSUME NEW s \in Seq(Reports), NEW b \in Times, OutUpTo(s, b), NEW c \in Times, b <= c,
           NEW S, S \subseteq Times, \A o \in S : b < o /\ o <= c
    PROVE  /\ s \o Run(S) \in Seq(Reports)
           /\ OutUpTo(s \o Run(S), c)
           /\ Range(s \o Run(S)) = Range(s) \cup {<<MPV, o>> : o \in S}
  <1> USE CatchUpAssumption
  <1>0. Length \in Nat /\ QueueCount \in Nat  OBVIOUS
  <1>1. /\ Cardinality(S) \in Nat
        /\ \A i \in 1 .. Cardinality(S) : Ascending(S)[i] \in S
        /\ \A i, j \in 1 .. Cardinality(S) : i < j => Ascending(S)[i] < Ascending(S)[j]
        /\ \A o \in S : \E i \in 1 .. Cardinality(S) : Ascending(S)[i] = o
    <2>1. S \subseteq 0 .. Length  BY DEF Times
    <2>2. Length \in Nat  BY <1>0
    <2>3. /\ Cardinality(S) \in Nat
          /\ DOMAIN Ascending(S) = 1 .. Cardinality(S)
          /\ \A i \in 1 .. Cardinality(S) : Ascending(S)[i] \in S
          /\ \A i, j \in 1 .. Cardinality(S) : i < j => Ascending(S)[i] < Ascending(S)[j]
          /\ \A o \in S : \E i \in 1 .. Cardinality(S) : Ascending(S)[i] = o
      BY ONLY <2>1, <2>2, AscendingIs, Zenon
    <2> QED  BY <2>3
  <1>2. PICK u, k, n : u = Run(S) /\ k = Cardinality(S) /\ n = Len(s)  OBVIOUS
  <1>3. \A i \in 1 .. k : u[i] = <<MPV, Ascending(S)[i]>>  BY <1>2 DEF Run
  <1>4. \A i \in 1 .. k : u[i][1] = MPV /\ u[i][2] = Ascending(S)[i] /\ u[i] \in Reports
    <2> SUFFICES ASSUME NEW i \in 1 .. k
                 PROVE  u[i][1] = MPV /\ u[i][2] = Ascending(S)[i] /\ u[i] \in Reports
      OBVIOUS
    <2>1. Ascending(S)[i] \in Times  BY <1>1, <1>2
    <2>2. MPV \in 0 .. QueueCount  BY <1>0 DEF MPV
    <2>3. PICK a : a = Ascending(S)[i]  OBVIOUS
    <2>4. u[i] = <<MPV, a>> /\ a \in Times  BY <1>3, <2>1, <2>3
    <2> QED  BY <2>2, <2>3, <2>4 DEF Reports
  <1>5. u = [i \in 1 .. k |-> u[i]] /\ k \in Nat  BY <1>1, <1>2 DEF Run
  <1>6. u \in Seq(Reports) /\ Len(u) = k
    <2>1. u \in [1 .. k -> Reports]  BY <1>4, <1>5
    <2> QED  BY <1>5, <2>1
  <1>7. PICK t : t = s \o u  OBVIOUS
  <1>8. /\ t \in Seq(Reports) /\ Len(t) = n + k /\ n \in Nat /\ DOMAIN t = 1 .. n + k
        /\ DOMAIN s = 1 .. n /\ DOMAIN u = 1 .. k
        /\ \A i \in 1 .. n : t[i] = s[i]
        /\ \A i \in 1 .. k : t[n + i] = u[i]
    BY <1>2, <1>5, <1>6, <1>7, SMTT(60)
  <1>9. \A i \in DOMAIN t : i \in 1 .. n \/ (i - n \in 1 .. k /\ i = n + (i - n))
    BY <1>5, <1>8
  <1>10. \A i \in 1 .. n : t[i][2] \in Times /\ t[i][2] <= b
    <2>1. \A i \in 1 .. n : s[i] \in Reports /\ s[i][2] <= b  BY <1>8 DEF OutUpTo
    <2>2. \A i \in 1 .. n : s[i][2] \in Times  BY <2>1 DEF Reports
    <2> QED  BY <1>8, <2>1, <2>2
  <1>11. \A i \in 1 .. k : /\ t[n + i][2] = Ascending(S)[i] /\ t[n + i][2] \in Times
                           /\ b < t[n + i][2] /\ t[n + i][2] <= c
    <2> SUFFICES ASSUME NEW i \in 1 .. k
                 PROVE  /\ t[n + i][2] = Ascending(S)[i] /\ t[n + i][2] \in Times
                        /\ b < t[n + i][2] /\ t[n + i][2] <= c
      OBVIOUS
    <2>1. t[n + i] = u[i] /\ u[i][2] = Ascending(S)[i]  BY ONLY <1>4, <1>8, i \in 1 .. k, Zenon
    <2>2. Ascending(S)[i] \in S  BY ONLY <1>1, <1>2, i \in 1 .. k
    <2>3. Ascending(S)[i] \in Times /\ b < Ascending(S)[i] /\ Ascending(S)[i] <= c
      BY ONLY <2>2, S \subseteq Times, \A o \in S : b < o /\ o <= c, Zenon
    <2> QED  BY ONLY <2>1, <2>3, Zenon
  <1>12. \A i \in DOMAIN t : t[i][2] <= c
    <2> SUFFICES ASSUME NEW i \in DOMAIN t PROVE t[i][2] <= c  OBVIOUS
    <2>1. CASE i \in 1 .. n  BY <1>10, <2>1 DEF Times
    <2>2. CASE i - n \in 1 .. k /\ i = n + (i - n)
      <3>1. t[n + (i - n)][2] <= c  BY <1>11, <2>2
      <3> QED  BY <2>2, <3>1
    <2> QED  BY <1>9, <2>1, <2>2
  <1>13. ASSUME NEW i \in DOMAIN t, NEW j \in DOMAIN t, i < j
         PROVE  t[i][2] <= t[j][2] /\ t[i] # t[j]
    <2>1. CASE i \in 1 .. n /\ j \in 1 .. n
      BY <1>8, <1>13, <2>1 DEF OutUpTo
    <2>2. CASE i \in 1 .. n /\ j - n \in 1 .. k
      <3>1. PICK m : m = j - n  OBVIOUS
      <3>2. j = n + m /\ m \in 1 .. k  BY <1>8, <2>2, <3>1
      <3>3. b < t[j][2] /\ t[j][2] \in Times  BY <1>11, <3>2
      <3> QED  BY <1>10, <2>2, <3>3 DEF Times
    <2>3. CASE i - n \in 1 .. k /\ j - n \in 1 .. k
      <3>1. PICK l, m : l = i - n /\ m = j - n  OBVIOUS
      <3>2. i = n + l /\ l \in 1 .. k /\ j = n + m /\ m \in 1 .. k /\ l < m
        BY <1>8, <1>13, <2>3, <3>1
      <3>3. t[i][2] < t[j][2] /\ t[i][2] \in Times /\ t[j][2] \in Times
        BY <1>1, <1>2, <1>11, <3>2
      <3> QED  BY <3>3 DEF Times
    <2>4. ~(i - n \in 1 .. k /\ j \in 1 .. n)  BY <1>8, <1>13
    <2> QED  BY <1>9, <2>1, <2>2, <2>3, <2>4
  <1>14. Range(t) = Range(s) \cup {<<MPV, o>> : o \in S}
    <2>1. \A m \in Range(t) : m \in Range(s) \/ m \in {<<MPV, o>> : o \in S}
      <3> SUFFICES ASSUME NEW i \in DOMAIN t
                   PROVE  t[i] \in Range(s) \/ t[i] \in {<<MPV, o>> : o \in S}
        BY DEF Range
      <3>1. CASE i \in 1 .. n  BY <1>8, <3>1 DEF Range
      <3>2. CASE i - n \in 1 .. k /\ i = n + (i - n)
        <4>1. t[i] = u[i - n]  BY <1>8, <3>2
        <4>2. u[i - n] = <<MPV, Ascending(S)[i - n]>> /\ Ascending(S)[i - n] \in S
          BY <1>1, <1>2, <1>3, <3>2
        <4> QED  BY <4>1, <4>2
      <3> QED  BY <1>9, <3>1, <3>2
    <2>2. \A i \in DOMAIN s : s[i] \in Range(t)
      <3>1. \A i \in DOMAIN s : i \in DOMAIN t /\ t[i] = s[i]  BY <1>5, <1>8
      <3> QED  BY <3>1 DEF Range
    <2>3. ASSUME NEW o \in S PROVE <<MPV, o>> \in Range(t)
      <3>1. PICK i \in 1 .. k : Ascending(S)[i] = o  BY <1>1, <1>2
      <3>2. n + i \in DOMAIN t /\ t[n + i] = <<MPV, o>>  BY <1>3, <1>5, <1>8, <3>1
      <3> QED  BY <3>2 DEF Range
    <2>4. \A m \in Range(s) : m \in Range(t)  BY <2>2 DEF Range
    <2> QED  BY <2>1, <2>3, <2>4
  <1>15. OutUpTo(t, c)  BY <1>12, <1>13 DEF OutUpTo
  <1>16. t = s \o Run(S)  BY <1>2, <1>7
  <1> QED  BY <1>8, <1>14, <1>15, <1>16

----------------------------------------------------------------------------
(* The rose record and its updates                                         *)

\* The rose record has its type.
Rose ==
    [eng : [Engine -> Engines], minMatch : Times, minNonMpv : Times,
     nextMpv : 0 .. Length + 1, out : Seq(Reports), spent : SUBSET Single,
     chained : Feeders]

\* What follows from the assumption on the constants.
LEMMA ConstantsAre ==
    /\ Length \in Nat /\ QueueCount \in Nat /\ OutfixEnd \in Nat /\ OutfixEnd >= 1
    /\ OutfixEnd <= QueueCount
    /\ MPV \in Engine /\ MPV \notin Outfix /\ MPV \notin Suffix
    /\ Others \subseteq Engine /\ Suffix \subseteq Others /\ Outfix \subseteq Others
    /\ \A q \in Others : q \in Outfix \/ q \in Suffix
    /\ \A q \in Outfix : q \notin Suffix
    /\ Literal \notin Engine /\ Literal \in 0 .. QueueCount
    /\ Engine \subseteq 0 .. QueueCount /\ Times \subseteq Nat
    /\ Dist[MPV] # {} /\ Dist[MPV] \subseteq 1 .. Length
    /\ \A q \in Suffix : Dist[q] # {} /\ Dist[q] \subseteq 1 .. Length
    /\ \A c \in Feeders : c \subseteq Others /\ Single \subseteq Others /\ c \cap Single = {}
  BY CatchUpAssumption DEF MPV, Outfix, Suffix, Engine, Literal, Others, Times

\* The fields of the rose record.
LEMMA RoseIs ==
    ASSUME NEW r \in Rose
    PROVE  /\ r.minMatch \in Times /\ r.minNonMpv \in Times /\ r.nextMpv \in 0 .. Length + 1
           /\ r.out \in Seq(Reports) /\ r.spent \subseteq Single /\ r.chained \in Feeders
           /\ \A q \in Engine : r.eng[q] \in Engines
  BY DEF Rose

\* The fields of an engine.
LEMMA EngineIs ==
    ASSUME NEW e \in Engines
    PROVE  /\ e.on \in BOOLEAN /\ e.cur \in Times /\ e.queue \in Seq(Times)
           /\ e.tops \subseteq Times
  BY DEF Engines, Times

\* A dead engine and one that was just started.
LEMMA OffIs == /\ Off \in Engines /\ ~Off.on
               /\ \A o \in Times : /\ Started(o) \in Engines /\ Started(o).on
                                   /\ Started(o).cur = o /\ Started(o).queue = <<>>
                                   /\ Started(o).tops = {}
  <1>1. <<>> \in Seq(Times) /\ 0 \in Times  BY ConstantsAre DEF Times
  <1>2. Off \in Engines /\ ~Off.on  BY <1>1 DEF Off, Engines, Times
  <1>3. ASSUME NEW o \in Times
        PROVE  /\ Started(o) \in Engines /\ Started(o).on
               /\ Started(o).cur = o /\ Started(o).queue = <<>> /\ Started(o).tops = {}
    <2>1. Off.queue = <<>> /\ Off.tops = {}  BY DEF Off
    <2>2. PICK e : e = Off  OBVIOUS
    <2>3. e \in Engines /\ e.queue = <<>> /\ e.tops = {}  BY <1>2, <2>1, <2>2
    <2>4. Started(o) = [e EXCEPT !.on = TRUE, !.cur = o]  BY <2>2 DEF Started
    <2> QED  BY <2>3, <2>4 DEF Engines, Times
  <1> QED  BY <1>2, <1>3

\* Two records that differ in the engine q only.
SameBut(r, s, q) ==
    /\ s.minMatch = r.minMatch /\ s.minNonMpv = r.minNonMpv /\ s.nextMpv = r.nextMpv
    /\ s.out = r.out /\ s.spent = r.spent /\ s.chained = r.chained
    /\ \A p \in Engine \ {q} : s.eng[p] = r.eng[p]

\* The record with another engine q is the record but for q.
LEMMA WithEngine ==
    ASSUME NEW r \in Rose, NEW q \in Engine, NEW e \in Engines
    PROVE  /\ [r EXCEPT !.eng[q] = e] \in Rose
           /\ [r EXCEPT !.eng[q] = e].eng[q] = e
           /\ SameBut(r, [r EXCEPT !.eng[q] = e], q)
  <1> DEFINE F == [r.eng EXCEPT ![q] = e]
  <1>1. r.eng \in [Engine -> Engines]  BY DEF Rose
  <1>2. F \in [Engine -> Engines] /\ F[q] = e /\ \A p \in Engine \ {q} : F[p] = r.eng[p]
    BY <1>1
  <1> HIDE DEF F
  <1>3. [r EXCEPT !.eng[q] = e] = [r EXCEPT !.eng = F]
    BY <1>1 DEF F, Rose
  <1>4. PICK s : s = [r EXCEPT !.eng = F]  OBVIOUS
  <1>5. s \in Rose /\ s.eng = F
        /\ s.minMatch = r.minMatch /\ s.minNonMpv = r.minNonMpv /\ s.nextMpv = r.nextMpv
        /\ s.out = r.out /\ s.spent = r.spent /\ s.chained = r.chained
    BY <1>2, <1>4 DEF Rose
  <1> QED  BY <1>2, <1>3, <1>4, <1>5, ZenonT(60) DEF SameBut

\* The rose record with some fields replaced, and what its fields are then.
NextAt(r, n) == [r EXCEPT !.nextMpv = n]
OutAt(r, s) == [r EXCEPT !.out = s]
SpentAt(r, s, t) == [r EXCEPT !.out = s, !.spent = t]

\* A new offset for the next MPV match changes that field only.
LEMMA WithNext ==
    ASSUME NEW r \in Rose, NEW n \in 0 .. Length + 1
    PROVE  /\ NextAt(r, n) \in Rose
           /\ NextAt(r, n).nextMpv = n
           /\ NextAt(r, n).minMatch = r.minMatch
           /\ NextAt(r, n).minNonMpv = r.minNonMpv
           /\ NextAt(r, n).out = r.out
           /\ NextAt(r, n).spent = r.spent
           /\ NextAt(r, n).chained = r.chained
           /\ NextAt(r, n).eng = r.eng
  BY DEF Rose, NextAt

\* New reports change the reports only.
LEMMA WithOut ==
    ASSUME NEW r \in Rose, NEW s \in Seq(Reports)
    PROVE  /\ OutAt(r, s) \in Rose
           /\ OutAt(r, s).out = s
           /\ OutAt(r, s).minMatch = r.minMatch
           /\ OutAt(r, s).minNonMpv = r.minNonMpv
           /\ OutAt(r, s).nextMpv = r.nextMpv
           /\ OutAt(r, s).spent = r.spent
           /\ OutAt(r, s).chained = r.chained
           /\ OutAt(r, s).eng = r.eng
  BY DEF Rose, OutAt

\* New reports and exhausted engines change those two fields only.
LEMMA WithSpent ==
    ASSUME NEW r \in Rose, NEW s \in Seq(Reports), NEW t \in SUBSET Single
    PROVE  /\ SpentAt(r, s, t) \in Rose
           /\ SpentAt(r, s, t).out = s
           /\ SpentAt(r, s, t).minMatch = r.minMatch
           /\ SpentAt(r, s, t).minNonMpv = r.minNonMpv
           /\ SpentAt(r, s, t).nextMpv = r.nextMpv
           /\ SpentAt(r, s, t).spent = t
           /\ SpentAt(r, s, t).chained = r.chained
           /\ SpentAt(r, s, t).eng = r.eng
  BY DEF Rose, SpentAt

\* The later of two offsets.
Later2(a, b) == IF a >= b THEN a ELSE b

\* updateMinMatchOffsetFromMpv moves the two offsets and nothing else.
LEMMA MpvAtIs ==
    ASSUME NEW r \in Rose, NEW o \in Times
    PROVE  /\ MpvAt(r, o) \in Rose
           /\ MpvAt(r, o).minMatch = o
           /\ MpvAt(r, o).minNonMpv = Later2(r.minNonMpv, o)
           /\ MpvAt(r, o).nextMpv = r.nextMpv
           /\ MpvAt(r, o).out = r.out
           /\ MpvAt(r, o).spent = r.spent
           /\ MpvAt(r, o).chained = r.chained
           /\ MpvAt(r, o).eng = r.eng
  <1>1. PICK m : m = Max({r.minNonMpv, o})  OBVIOUS
  <1>2. r.minNonMpv \in Times /\ Times \subseteq Int  BY RoseIs, ConstantsAre
  <1>3. m = Later2(r.minNonMpv, o) /\ m \in Times
    BY <1>1, <1>2, MaxOfTwo DEF Later2
  <1>4. MpvAt(r, o) = [r EXCEPT !.minMatch = o, !.minNonMpv = m]
    BY <1>1 DEF MpvAt, Rose
  <1>5. /\ [r EXCEPT !.minMatch = o, !.minNonMpv = m] \in Rose
        /\ [r EXCEPT !.minMatch = o, !.minNonMpv = m].minMatch = o
        /\ [r EXCEPT !.minMatch = o, !.minNonMpv = m].minNonMpv = m
        /\ [r EXCEPT !.minMatch = o, !.minNonMpv = m].nextMpv = r.nextMpv
        /\ [r EXCEPT !.minMatch = o, !.minNonMpv = m].out = r.out
        /\ [r EXCEPT !.minMatch = o, !.minNonMpv = m].spent = r.spent
        /\ [r EXCEPT !.minMatch = o, !.minNonMpv = m].chained = r.chained
        /\ [r EXCEPT !.minMatch = o, !.minNonMpv = m].eng = r.eng
    BY <1>3 DEF Rose
  <1> QED  BY <1>3, <1>4, <1>5

----------------------------------------------------------------------------
(* The MPV                                                                 *)

\* Where the MPV accepts after its position, up to loc.
Met(e, loc) == {o \in e.cur + 1 .. loc : \E t \in e.tops : o - t \in Dist[MPV]}

\* What the MPV has ahead is what its triggers lead to after its position.
LEMMA MetIs == \A e, loc : Ahead(MPV, e, loc) = Met(e, loc)
  BY ConstantsAre DEF Ahead, Accepts, Met

\* What it has still to report comes after what was reported and not before
\* the offset it has promised.
Due(e, m, n) == e.on => \A o \in Met(e, Length) : o > m /\ o >= n

\* Its queue ascends from its position.
Climbs(e) ==
    e.on => /\ \A i \in DOMAIN e.queue : e.cur <= e.queue[i]
            /\ \A i, j \in DOMAIN e.queue : i < j => e.queue[i] < e.queue[j]

\* Its position and its queue reach no farther than v.
Within(e, v) == e.on => e.cur <= v /\ \A i \in DOMAIN e.queue : e.queue[i] <= v

\* Reports are in order up to minMatch, and the MPV is in step with them.
Orderly(r) ==
    /\ OutUpTo(r.out, r.minMatch) /\ r.minMatch <= r.minNonMpv
    /\ Due(r.eng[MPV], r.minMatch, r.nextMpv) /\ Climbs(r.eng[MPV])

\* The matches the MPV has reported or will report.
Made(r) ==
    {n \in Times : <<MPV, n>> \in Range(r.out)
                   \/ (r.eng[MPV].on /\ n \in Met(r.eng[MPV], Length))}

\* s is r after a step that concerns the MPV alone.
MpvMoved(r, s) ==
    /\ s \in Rose /\ Orderly(s)
    /\ s.spent = r.spent /\ s.chained = r.chained
    /\ \A q \in Others : s.eng[q] = r.eng[q]
    /\ Range(r.out) \subseteq Range(s.out)
    /\ \A m \in Range(s.out) : m \in Range(r.out) \/ m[1] = MPV

\* Two steps of the MPV are a step of the MPV.
LEMMA MovedTwice ==
    ASSUME NEW r, NEW s, NEW t, MpvMoved(r, s), MpvMoved(s, t) PROVE MpvMoved(r, t)
  BY DEF MpvMoved

\* The MPV is an engine.
LEMMA MpvEngine == ASSUME NEW r \in Rose PROVE r.eng[MPV] \in Engines
  BY RoseIs, ConstantsAre

\* The MPV is skipped: it has nothing to report up to o.
LEMMA SkipMpv ==
    ASSUME NEW r \in Rose, Orderly(r), NEW o \in Times, r.minMatch <= o,
           NEW s \in Rose, s.minMatch = o, s.minNonMpv = Later2(r.minNonMpv, o),
           s.out = r.out, s.spent = r.spent, s.chained = r.chained, s.eng = r.eng,
           Due(r.eng[MPV], o, s.nextMpv)
    PROVE  MpvMoved(r, s) /\ Made(s) = Made(r)
  <1>1. /\ r.minMatch \in Times /\ r.minNonMpv \in Times /\ Times \subseteq Nat
        /\ r.out \in Seq(Reports)
    BY RoseIs, ConstantsAre
  <1>2. OutUpTo(s.out, o)
    <2>1. \A i \in DOMAIN r.out : r.out[i] \in Reports  BY <1>1
    <2>2. \A i \in DOMAIN r.out : r.out[i][2] \in Times  BY <2>1 DEF Reports
    <2> QED  BY <1>1, <2>2 DEF Orderly, OutUpTo
  <1>3. o <= s.minNonMpv  BY <1>1 DEF Later2
  <1>4. Orderly(s)  BY <1>2, <1>3 DEF Orderly
  <1>5. Made(s) = Made(r)  BY DEF Made
  <1> QED  BY <1>4, <1>5 DEF MpvMoved

\* An engine record with a new position and queue.
EngAt(e, o, u) == [e EXCEPT !.cur = o, !.queue = u]

\* A new position and queue change those two fields only.
LEMMA EngineAt ==
    ASSUME NEW e \in Engines, NEW o \in Times, NEW u \in Seq(Times)
    PROVE  /\ EngAt(e, o, u) \in Engines
           /\ EngAt(e, o, u).on = e.on
           /\ EngAt(e, o, u).cur = o
           /\ EngAt(e, o, u).queue = u
           /\ EngAt(e, o, u).tops = e.tops
  BY DEF Engines, Times, EngAt

\* The MPV is run to o.
LEMMA RunMpvIs ==
    ASSUME NEW r \in Rose, Orderly(r), NEW o \in Times, r.minMatch <= o,
           r.eng[MPV].on, r.eng[MPV].cur <= o
    PROVE  LET s == RunMpv(r, o) IN
           /\ MpvMoved(r, s) /\ Made(s) = Made(r)
           /\ s.minMatch = o /\ s.minNonMpv = Later2(r.minNonMpv, o)
           /\ s.eng[MPV].on /\ s.eng[MPV].cur = o /\ s.eng[MPV].queue = <<>>
  <1>a. PICK e : e = r.eng[MPV]  OBVIOUS
  <1>b. PICK after : after = EngAt(e, o, <<>>)  OBVIOUS
  <1>c. PICK ahead, S : ahead = Ahead(MPV, after, Length) /\ S = Ahead(MPV, e, o)  OBVIOUS
  <1>d. PICK next : next = IF ahead = {} THEN Length ELSE Min(ahead)  OBVIOUS
  <1>e. PICK u, run : u = r.out \o Run(S) /\ run = DeliverMpv(r, S)  OBVIOUS
  <1>f. PICK at : at = MpvAt(run, o)  OBVIOUS
  <1>0. /\ Length \in Nat /\ Times \subseteq Nat /\ o \in Nat /\ o <= Length
        /\ r.minMatch \in Times /\ r.minNonMpv \in Times /\ r.out \in Seq(Reports)
        /\ e \in Engines
    BY <1>a, RoseIs, ConstantsAre, MpvEngine DEF Times
  <1>1. e.cur \in Times /\ e.tops \subseteq Times /\ e.on /\ e.cur <= o
    BY <1>0, <1>a, EngineIs
  <1>2. /\ after \in Engines /\ after.on /\ after.cur = o /\ after.queue = <<>>
        /\ after.tops = e.tops
    <2>1. PICK w : w = <<>>  OBVIOUS
    <2>2. w \in Seq(Times) /\ o \in Times /\ after = EngAt(e, o, w)  BY <1>b, <2>1
    <2>3. /\ after \in Engines /\ after.on = e.on /\ after.cur = o /\ after.queue = w
          /\ after.tops = e.tops
      BY <1>0, <2>2, EngineAt
    <2> QED  BY <1>1, <2>1, <2>3
  <1>3. ahead = {n \in Met(e, Length) : n > o}
    <2>1. ahead = {n \in o + 1 .. Length : \E t \in e.tops : n - t \in Dist[MPV]}
      BY <1>2, <1>c, MetIs DEF Met
    <2>2. e.cur \in Nat  BY <1>0, <1>1
    <2> QED  BY <1>0, <1>1, <2>1, <2>2 DEF Met
  <1>4. S = {n \in Met(e, Length) : n <= o}
    <2>1. S = {n \in e.cur + 1 .. o : \E t \in e.tops : n - t \in Dist[MPV]}
      BY <1>c, MetIs DEF Met
    <2>2. e.cur \in Nat  BY <1>0, <1>1
    <2> QED  BY <1>0, <1>1, <2>1, <2>2 DEF Met
  <1>5. Met(e, Length) \subseteq Times
    <2>1. e.cur \in Nat  BY <1>0, <1>1
    <2> QED  BY <1>0, <2>1 DEF Met, Times
  <1>6. \A n \in Met(e, Length) : n > r.minMatch  BY <1>1, <1>a DEF Orderly, Due
  <1>7. /\ u \in Seq(Reports) /\ OutUpTo(u, o)
        /\ Range(u) = Range(r.out) \cup {<<MPV, n>> : n \in S}
    <2>1. S \subseteq Times /\ \A n \in S : r.minMatch < n /\ n <= o
      BY <1>0, <1>4, <1>5, <1>6
    <2>2. OutUpTo(r.out, r.minMatch)  BY DEF Orderly
    <2> QED  BY <1>0, <1>e, <2>1, <2>2, OutMpv
  <1>8. run = OutAt(r, u)  BY <1>e DEF DeliverMpv, Run, Rose, OutAt
  <1>9. /\ run \in Rose /\ run.out = u /\ run.minNonMpv = r.minNonMpv
        /\ run.spent = r.spent /\ run.chained = r.chained /\ run.eng = r.eng
    BY <1>7, <1>8, WithOut
  <1>10. /\ at \in Rose /\ at.minMatch = o /\ at.minNonMpv = Later2(r.minNonMpv, o)
         /\ at.out = u /\ at.spent = r.spent /\ at.chained = r.chained
         /\ at.eng = r.eng
    BY <1>0, <1>9, <1>f, MpvAtIs
  <1>11. PICK n : n = Max({next, o + 1})  OBVIOUS
  <1>12. n \in 0 .. Length + 1 /\ \A m \in ahead : m >= n
    <2>1. next \in Times /\ \A m \in ahead : next <= m
      <3>1. ahead \subseteq Times  BY <1>3, <1>5
      <3>2. CASE ahead = {}  BY <1>0, <1>d, <3>2 DEF Times
      <3>3. CASE ahead # {}
        <4>1. Min(ahead) \in ahead /\ \A m \in ahead : Min(ahead) <= m
          BY <1>0, <3>1, <3>3, MinIs
        <4> QED  BY <1>d, <3>1, <3>3, <4>1
      <3> QED  BY <3>2, <3>3
    <2>2. next \in Int /\ o + 1 \in Int  BY <1>0, <2>1
    <2>3. n = IF next >= o + 1 THEN next ELSE o + 1  BY <1>11, <2>2, MaxOfTwo
    <2>4. \A m \in ahead : m >= o + 1
      <3>1. \A m \in ahead : m \in Nat /\ m > o  BY <1>0, <1>3, <1>5
      <3> QED  BY <1>0, <3>1
    <2> QED  BY <1>0, <2>1, <2>3, <2>4 DEF Times
  <1>13. PICK w : w = [at EXCEPT !.eng[MPV] = after]  OBVIOUS
  <1>14. w \in Rose /\ w.eng[MPV] = after /\ SameBut(at, w, MPV)
    BY <1>2, <1>10, <1>13, WithEngine, ConstantsAre
  <1>15. PICK s : s = NextAt(w, n)  OBVIOUS
  <1>16. /\ s \in Rose /\ s.nextMpv = n /\ s.minMatch = w.minMatch
         /\ s.minNonMpv = w.minNonMpv /\ s.out = w.out /\ s.spent = w.spent
         /\ s.chained = w.chained /\ s.eng = w.eng
    BY <1>12, <1>14, <1>15, WithNext
  <1>17. RunMpv(r, o) = s
    <2>1. ~(o < e.cur)
      <3>1. e.cur \in Nat /\ o \in Nat  BY <1>0, <1>1
      <3> QED  BY <1>1, <3>1
    <2>2. RunMpv(r, o) = [at EXCEPT !.eng[MPV] = after, !.nextMpv = n]
      BY <1>11, <1>a, <1>b, <1>c, <1>d, <1>e, <1>f, <2>1 DEF RunMpv, EngAt
    <2>3. [at EXCEPT !.eng[MPV] = after, !.nextMpv = n] = s
      BY <1>13, <1>15 DEF NextAt
    <2> QED  BY <2>2, <2>3
  <1>18. /\ s.minMatch = o /\ s.minNonMpv = Later2(r.minNonMpv, o)
         /\ s.spent = r.spent /\ s.chained = r.chained /\ s.out = u
         /\ s.eng[MPV] = after /\ \A q \in Others : s.eng[q] = r.eng[q]
    BY <1>10, <1>14, <1>16 DEF SameBut, Others
  <1>19. Orderly(s)
    <2>1. OutUpTo(s.out, s.minMatch)  BY <1>7, <1>18
    <2>2. s.minMatch <= s.minNonMpv  BY <1>0, <1>18 DEF Later2
    <2>3. Met(after, Length) = ahead  BY <1>c, MetIs
    <2>4. Due(after, o, n)
      <3>1. \A m \in ahead : m > o  BY <1>3
      <3> QED  BY <1>12, <2>3, <3>1 DEF Due
    <2>5. Climbs(after)  BY <1>2 DEF Climbs
    <2> QED  BY <1>16, <1>18, <2>1, <2>2, <2>4, <2>5 DEF Orderly
  <1>20. Range(s.out) = Range(r.out) \cup {<<MPV, m>> : m \in S}  BY <1>7, <1>18
  <1>21. MpvMoved(r, s)
    <2>1. \A m \in Range(s.out) : m \in Range(r.out) \/ m[1] = MPV  BY <1>20
    <2> QED  BY <1>16, <1>18, <1>19, <1>20, <2>1 DEF MpvMoved
  <1>22. Made(s) = Made(r)
    <2>1. \A m : m \in Made(s) <=> m \in Times /\ (<<MPV, m>> \in Range(s.out) \/ m \in ahead)
      BY <1>2, <1>18, <1>c, MetIs DEF Made
    <2>2. \A m : m \in Made(r) <=>
              m \in Times /\ (<<MPV, m>> \in Range(r.out) \/ m \in Met(e, Length))
      BY <1>1, <1>a DEF Made
    <2>3. \A m : <<MPV, m>> \in Range(s.out) <=> <<MPV, m>> \in Range(r.out) \/ m \in S
      BY <1>20
    <2>4. \A m : m \in Met(e, Length) <=> m \in S \/ m \in ahead
      <3>1. \A m \in Met(e, Length) : m \in Nat  BY <1>0, <1>5
      <3> QED  BY <1>0, <1>3, <1>4, <3>1
    <2> QED  BY <2>1, <2>2, <2>3, <2>4
  <1> QED  BY <1>2, <1>17, <1>18, <1>21, <1>22

\* The MPV is caught up to o, by whichever way.
LEMMA CatchMpvIs ==
    ASSUME NEW r \in Rose, Orderly(r), NEW o \in Times, r.minMatch <= o
    PROVE  LET s == roseCatchUpMPV(r, o) IN
           /\ MpvMoved(r, s) /\ Made(s) = Made(r)
           /\ s.minMatch = o /\ s.minNonMpv = Later2(r.minNonMpv, o)
           /\ \A v \in Times : o <= v /\ Within(r.eng[MPV], v) => Within(s.eng[MPV], v)
  <1>a. PICK e : e = r.eng[MPV]  OBVIOUS
  <1>b. PICK at : at = MpvAt(r, o)  OBVIOUS
  <1>0. /\ o \in Nat /\ o <= Length /\ Length \in Nat
        /\ r.nextMpv \in 0 .. Length + 1 /\ e \in Engines
    BY <1>a, RoseIs, ConstantsAre, MpvEngine DEF Times
  <1>1. e.cur \in Nat  BY <1>0, EngineIs, ConstantsAre
  <1>2. /\ at \in Rose /\ at.minMatch = o /\ at.minNonMpv = Later2(r.minNonMpv, o)
        /\ at.nextMpv = r.nextMpv /\ at.out = r.out /\ at.spent = r.spent
        /\ at.chained = r.chained /\ at.eng = r.eng
    BY <1>b, MpvAtIs
  <1>3. e.on => \A m \in Met(e, Length) : m \in Nat /\ m > e.cur /\ m >= r.nextMpv
    <2>1. \A m \in Met(e, Length) : m \in Nat /\ m > e.cur  BY <1>0, <1>1 DEF Met
    <2> QED  BY <1>a, <2>1 DEF Orderly, Due
  <1>4. CASE canSkipCatchUpMPV(r, o)
    <2>1. roseCatchUpMPV(r, o) = at  BY <1>b, <1>4 DEF roseCatchUpMPV
    <2>2. Due(e, o, r.nextMpv)
      <3>1. ~e.on \/ o < r.nextMpv  BY <1>4, <1>a DEF canSkipCatchUpMPV
      <3> QED  BY <1>0, <1>3, <3>1 DEF Due
    <2>3. MpvMoved(r, at) /\ Made(at) = Made(r)
      <3>1. Due(r.eng[MPV], o, at.nextMpv)  BY <2>2, <1>2, <1>a
      <3> QED  BY <1>2, <3>1, SkipMpv
    <2> QED  BY <1>2, <2>1, <2>3
  <1>5. CASE ~canSkipCatchUpMPV(r, o) /\ o < e.cur
    <2>1. PICK s : s = NextAt(at, o + 1)  OBVIOUS
    <2>2. roseCatchUpMPV(r, o) = s
      BY <1>5, <1>a, <1>b, <2>1 DEF roseCatchUpMPV, RunMpv, NextAt
    <2>3. PICK n : n = o + 1  OBVIOUS
    <2>4. n \in 0 .. Length + 1 /\ s = NextAt(at, n)  BY <1>0, <2>1, <2>3
    <2>5. /\ s \in Rose /\ s.nextMpv = n /\ s.minMatch = o
          /\ s.minNonMpv = Later2(r.minNonMpv, o) /\ s.out = r.out /\ s.spent = r.spent
          /\ s.chained = r.chained /\ s.eng = r.eng
      BY <1>2, <2>4, WithNext
    <2>6. Due(e, o, n)
      <3>1. e.on => \A m \in Met(e, Length) : m > o /\ m >= o + 1
        BY <1>0, <1>1, <1>3, <1>5
      <3> QED  BY <2>3, <3>1 DEF Due
    <2>7. MpvMoved(r, s) /\ Made(s) = Made(r)
      <3>1. Due(r.eng[MPV], o, s.nextMpv)  BY <2>5, <2>6, <1>a
      <3> QED  BY <2>5, <3>1, SkipMpv
    <2> QED  BY <2>2, <2>5, <2>7
  <1>6. CASE ~canSkipCatchUpMPV(r, o) /\ ~(o < e.cur)
    <2>1. PICK s : s = RunMpv(r, o)  OBVIOUS
    <2>2. roseCatchUpMPV(r, o) = s  BY <1>6, <2>1 DEF roseCatchUpMPV
    <2>3. r.eng[MPV].on /\ r.eng[MPV].cur <= o
      BY <1>0, <1>1, <1>6, <1>a DEF canSkipCatchUpMPV
    <2>4. /\ MpvMoved(r, s) /\ Made(s) = Made(r)
          /\ s.minMatch = o /\ s.minNonMpv = Later2(r.minNonMpv, o)
          /\ s.eng[MPV].on /\ s.eng[MPV].cur = o /\ s.eng[MPV].queue = <<>>
      BY <2>1, <2>3, RunMpvIs
    <2>5. \A v \in Times : o <= v => Within(s.eng[MPV], v)  BY <2>4 DEF Within
    <2> QED  BY <2>2, <2>4, <2>5
  <1> QED  BY <1>4, <1>5, <1>6

----------------------------------------------------------------------------
(* A trigger of the MPV                                                    *)

\* The matches that a trigger at o leads to.
Spawned(q, o) == {n \in Times : n - o \in Dist[q]}

\* A trigger leads to matches after it and within the block.
LEMMA SpawnedIs ==
    ASSUME NEW q \in Suffix \cup {MPV}, NEW o \in Times, NEW n \in Spawned(q, o)
    PROVE  n \in Nat /\ n > o /\ n <= Length /\ n >= 1
  <1>1. Dist[q] \subseteq 1 .. Length /\ o \in Nat  BY ConstantsAre
  <1> QED  BY <1>1, ConstantsAre DEF Spawned, Times

\* pushQueue appends the trigger, or drops it when it repeats the last one.
LEMMA PushedIs ==
    ASSUME NEW u \in Seq(Times), NEW o \in Times
    PROVE  /\ Pushed(u, o) \in Seq(Times)
           /\ \A i \in DOMAIN Pushed(u, o) : i \in DOMAIN u \/ (i > Len(u) /\ Pushed(u, o)[i] = o)
           /\ \A i \in DOMAIN u : Pushed(u, o)[i] = u[i] /\ i <= Len(u)
           /\ DOMAIN Pushed(u, o) # DOMAIN u => u = <<>> \/ u[Len(u)] # o
           /\ Pushed(u, o) = u \/ Pushed(u, o) = Append(u, o)
  BY DEF Pushed, Last

\* An engine record with a new queue and new triggers.
Topped(e, u, t) == [e EXCEPT !.queue = u, !.tops = t]

\* A new queue and new triggers change those two fields only.
LEMMA ToppedIs ==
    ASSUME NEW e \in Engines, NEW u \in Seq(Times), NEW t \in SUBSET Times
    PROVE  /\ Topped(e, u, t) \in Engines
           /\ Topped(e, u, t).on = e.on /\ Topped(e, u, t).cur = e.cur
           /\ Topped(e, u, t).queue = u /\ Topped(e, u, t).tops = t
  BY DEF Engines, Times, Topped

\* An engine with a trigger more: what it knows of the block.
LEMMA WithTopIs ==
    ASSUME NEW e \in Engines, e.on, NEW o \in Times, e.cur <= o,
           NEW q \in Engine
    PROVE  LET f == WithTop(q, e, o) IN
           /\ f \in Engines
           /\ e.cur # Length => /\ f.on /\ f.cur = e.cur /\ f.tops = e.tops \cup {o}
                                /\ f.queue = Pushed(e.queue, o)
           /\ e.cur = Length /\ f.on => f.cur = Length /\ f.queue = <<>>
  <1>0. /\ o \in Times /\ e.cur \in Times /\ e.queue \in Seq(Times) /\ e.tops \subseteq Times
        /\ Length \in Times
    BY EngineIs, ConstantsAre DEF Times
  <1>1. PICK u, t : u = Pushed(e.queue, o) /\ t = e.tops \cup {o}  OBVIOUS
  <1>2. u \in Seq(Times) /\ t \in SUBSET Times  BY <1>0, <1>1, PushedIs
  <1>3. PICK f : f = Topped(e, u, t)  OBVIOUS
  <1>4. /\ f \in Engines /\ f.on = e.on /\ f.cur = e.cur /\ f.queue = u /\ f.tops = t
    BY <1>2, <1>3, ToppedIs, ZenonT(60)
  <1>5. WithTop(q, e, o) = IF f.cur = Length THEN RunOut(q, f, o) ELSE f
    BY <1>1, <1>3 DEF WithTop, Topped
  <1>6. CASE e.cur # Length  BY <1>1, <1>4, <1>5, <1>6
  <1>7. CASE e.cur = Length
    <2>1. o = Length  BY <1>0, <1>7, ConstantsAre DEF Times
    <2>2. PICK w, g : w = <<>> /\ g = EngAt(f, o, w)  OBVIOUS
    <2>3. w \in Seq(Times)  BY <2>2
    <2>4. g \in Engines /\ g.cur = o /\ g.queue = w  BY <1>4, <2>2, <2>3, EngineAt
    <2>5. RunOut(q, f, o) = g \/ RunOut(q, f, o) = Off  BY <2>2 DEF RunOut, EngAt
    <2> QED  BY <1>4, <1>5, <1>7, <2>1, <2>2, <2>4, <2>5, OffIs
  <1> QED  BY <1>6, <1>7

\* The MPV is triggered at o, with its queue at o or before it.
LEMMA TriggeredIs ==
    ASSUME NEW r \in Rose, Orderly(r), NEW o \in Times, r.minMatch <= o,
           r.eng[MPV].on, Within(r.eng[MPV], o)
    PROVE  LET s == Triggered(r, o) IN
           /\ MpvMoved(r, s) /\ Made(s) = Made(r) \cup Spawned(MPV, o)
           /\ s.minMatch = r.minMatch /\ s.minNonMpv = r.minNonMpv
           /\ Within(s.eng[MPV], o)
  <1>a. PICK e, f : e = r.eng[MPV] /\ f = WithTop(MPV, e, o)  OBVIOUS
  <1>0. /\ e \in Engines /\ e.on /\ o \in Nat /\ o <= Length /\ Length \in Nat
        /\ r.minMatch \in Nat /\ MPV \in Engine /\ r.minMatch \in Times
    BY <1>a, RoseIs, ConstantsAre, MpvEngine DEF Times
  <1>1. /\ e.cur \in Nat /\ e.cur <= o /\ e.cur <= Length
        /\ e.queue \in Seq(Times) /\ e.tops \subseteq Times
        /\ \A i \in DOMAIN e.queue : e.queue[i] <= o
    BY <1>0, <1>a, EngineIs DEF Within, Times
  <1>2. /\ f \in Engines
        /\ e.cur # Length => /\ f.on /\ f.cur = e.cur /\ f.tops = e.tops \cup {o}
                             /\ f.queue = Pushed(e.queue, o)
        /\ e.cur = Length /\ f.on => f.cur = Length /\ f.queue = <<>>
    BY <1>0, <1>1, <1>a, WithTopIs
  <1>b. PICK w : w = [r EXCEPT !.eng[MPV] = f]  OBVIOUS
  <1>3. w \in Rose /\ w.eng[MPV] = f /\ SameBut(r, w, MPV)
    BY <1>0, <1>2, <1>b, WithEngine
  <1>c. PICK s, n : s = NextAt(w, n) /\ n = 0  OBVIOUS
  <1>4. /\ s \in Rose /\ s.nextMpv = 0 /\ s.minMatch = w.minMatch
        /\ s.minNonMpv = w.minNonMpv /\ s.out = w.out /\ s.spent = w.spent
        /\ s.chained = w.chained /\ s.eng = w.eng
    <2>1. n \in 0 .. Length + 1 /\ s = NextAt(w, n)  BY <1>0, <1>c
    <2> QED  BY <1>3, <1>c, <2>1, WithNext
  <1>5. Triggered(r, o) = s
    BY <1>a, <1>b, <1>c DEF Triggered, NextAt, Rose
  <1>6. /\ s.minMatch = r.minMatch /\ s.minNonMpv = r.minNonMpv
        /\ s.spent = r.spent /\ s.chained = r.chained /\ s.out = r.out
        /\ s.eng[MPV] = f /\ \A q \in Others : s.eng[q] = r.eng[q]
    BY <1>3, <1>4 DEF SameBut, Others
  \* At the end of the block there is nothing left to find.
  <1>7. CASE e.cur = Length
    <2>1. f.on => f.cur = Length /\ f.queue = <<>>  BY <1>2, <1>7
    <2>2. f.on => Met(f, Length) = {}  BY <1>0, <2>1 DEF Met
    <2>3. Met(e, Length) = {}  BY <1>0, <1>7 DEF Met
    <2>4. o = Length  BY <1>0, <1>1, <1>7
    <2>5. Spawned(MPV, o) = {}
      <3>1. \A m \in Spawned(MPV, o) : m > o /\ m <= Length /\ m \in Nat
        BY SpawnedIs
      <3> QED  BY <1>0, <2>4, <3>1
    <2>6. Due(f, s.minMatch, s.nextMpv) /\ Climbs(f) /\ Within(f, o)
      BY <1>0, <2>1, <2>2, <2>4 DEF Due, Climbs, Within
    <2>7. Orderly(s)  BY <1>6, <2>6 DEF Orderly
    <2>8. Made(s) = Made(r) \cup Spawned(MPV, o)
      BY <1>6, <1>a, <2>2, <2>3, <2>5 DEF Made
    <2>9. MpvMoved(r, s)  BY <1>4, <1>6, <2>7 DEF MpvMoved
    <2> QED  BY <1>5, <1>6, <2>6, <2>8, <2>9
  <1>8. CASE e.cur # Length
    <2>1. f.on /\ f.cur = e.cur /\ f.tops = e.tops \cup {o} /\ f.queue = Pushed(e.queue, o)
      BY <1>2, <1>8
    <2>2. \A m : m \in Met(f, Length) <=> m \in Met(e, Length) \/ m \in Spawned(MPV, o)
      <3>1. \A m \in Spawned(MPV, o) : m - o \in Dist[MPV] /\ m \in Nat /\ m > o /\ m <= Length
        BY SpawnedIs DEF Spawned
      <3>2. \A m : m \in Met(e, Length) <=>
                   m \in e.cur + 1 .. Length /\ \E t \in e.tops : m - t \in Dist[MPV]
        BY DEF Met
      <3>3. \A m : m \in Met(f, Length) <=>
                   /\ m \in e.cur + 1 .. Length
                   /\ m - o \in Dist[MPV] \/ \E t \in e.tops : m - t \in Dist[MPV]
        BY <2>1 DEF Met
      <3>4. \A m \in e.cur + 1 .. Length : m \in Times  BY <1>0, <1>1 DEF Times
      <3>5. \A m \in Spawned(MPV, o) : m \in e.cur + 1 .. Length  BY <1>0, <1>1, <3>1
      <3>6. \A m : m \in Spawned(MPV, o) <=> m \in Times /\ m - o \in Dist[MPV]
        BY DEF Spawned
      <3> QED  BY <3>2, <3>3, <3>4, <3>5, <3>6
    <2>3. Due(f, s.minMatch, s.nextMpv)
      <3>1. \A m \in Met(e, Length) : m > r.minMatch /\ m >= 0
        <4>1. \A m \in Met(e, Length) : m > r.minMatch  BY <1>0, <1>a DEF Orderly, Due
        <4>2. \A m \in Met(e, Length) : m >= 0  BY <1>0, <1>1 DEF Met
        <4> QED  BY <4>1, <4>2
      <3>2. \A m \in Spawned(MPV, o) : m > r.minMatch /\ m >= 0
        <4>1. \A m \in Spawned(MPV, o) : m > o /\ m \in Nat  BY SpawnedIs
        <4> QED  BY <1>0, <4>1
      <3> QED  BY <1>4, <1>6, <2>2, <3>1, <3>2 DEF Due
    <2>4. PICK u, v : u = e.queue /\ v = f.queue  OBVIOUS
    <2>5. /\ u \in Seq(Times) /\ v \in Seq(Times)
          /\ v = u \/ (v = Append(u, o) /\ (u = <<>> \/ u[Len(u)] # o))
      BY <1>1, <2>1, <2>4 DEF Pushed, Last
    <2>6. /\ \A i \in DOMAIN u : e.cur <= u[i] /\ u[i] <= o /\ u[i] \in Nat
          /\ \A i, j \in DOMAIN u : i < j => u[i] < u[j]
      <3>1. \A i \in DOMAIN u : e.cur <= u[i] /\ u[i] <= o
        BY <1>0, <1>1, <1>a, <2>4 DEF Orderly, Climbs
      <3>2. \A i, j \in DOMAIN u : i < j => u[i] < u[j]
        BY <1>0, <1>a, <2>4 DEF Orderly, Climbs
      <3>3. \A i \in DOMAIN u : u[i] \in Nat  BY <2>5, ConstantsAre
      <3> QED  BY <3>1, <3>2, <3>3
    <2>7. /\ \A i \in DOMAIN v : e.cur <= v[i] /\ v[i] <= o
          /\ \A i, j \in DOMAIN v : i < j => v[i] < v[j]
      <3>1. CASE v = u  BY <2>6, <3>1
      <3>2. CASE v = Append(u, o) /\ u = <<>>
        <4>1. DOMAIN v = {1} /\ v[1] = o  BY <2>5, <3>2
        <4> QED  BY <1>0, <1>1, <4>1
      <3>3. CASE v = Append(u, o) /\ u # <<>> /\ u[Len(u)] # o
        <4>1. /\ Len(u) \in Nat /\ DOMAIN u = 1 .. Len(u) /\ DOMAIN v = 1 .. Len(u) + 1
              /\ v[Len(u) + 1] = o /\ \A i \in DOMAIN u : v[i] = u[i]
          BY <1>0, <2>5, <3>3
        <4>2. Len(u) \in DOMAIN u
          <5>1. u \in Seq(Times) /\ u # <<>>  BY <2>5, <3>3
          <5>2. Len(u) # 0  BY <5>1
          <5> QED  BY <4>1, <5>2
        <4>3. \A i \in DOMAIN u : u[i] < o
          <5>1. u[Len(u)] < o  BY <1>0, <2>6, <3>3, <4>2
          <5>2. \A i \in DOMAIN u : i = Len(u) \/ i < Len(u)  BY <4>1
          <5>3. \A i \in DOMAIN u : i < Len(u) => u[i] < u[Len(u)]  BY <2>6, <4>2
          <5> QED  BY <1>0, <2>6, <4>2, <5>1, <5>2, <5>3
        <4>4. \A i \in DOMAIN v : i \in DOMAIN u \/ i = Len(u) + 1  BY <4>1
        <4>5. \A i \in DOMAIN v : e.cur <= v[i] /\ v[i] <= o
          BY <1>0, <1>1, <2>6, <4>1, <4>4
        <4>6. \A i, j \in DOMAIN v : i < j => v[i] < v[j]
          <5> SUFFICES ASSUME NEW i \in DOMAIN v, NEW j \in DOMAIN v, i < j
                       PROVE  v[i] < v[j]
            OBVIOUS
          <5>1. i \in DOMAIN u  BY <4>1
          <5>2. CASE j \in DOMAIN u  BY <2>6, <4>1, <5>1, <5>2
          <5>3. CASE j = Len(u) + 1  BY <4>1, <4>3, <5>1, <5>3
          <5> QED  BY <4>4, <5>2, <5>3
        <4> QED  BY <4>5, <4>6
      <3> QED  BY <2>5, <3>1, <3>2, <3>3
    <2>8. Climbs(f) /\ Within(f, o)  BY <1>1, <2>1, <2>4, <2>7 DEF Climbs, Within
    <2>9. Orderly(s)  BY <1>6, <2>3, <2>8 DEF Orderly
    <2>10. MpvMoved(r, s)  BY <1>4, <1>6, <2>9 DEF MpvMoved
    <2>11. Made(s) = Made(r) \cup Spawned(MPV, o)
      <3>1. \A m : m \in Made(s) <=>
                   m \in Times /\ (<<MPV, m>> \in Range(r.out) \/ m \in Met(f, Length))
        BY <1>6, <2>1 DEF Made
      <3>2. \A m : m \in Made(r) <=>
                   m \in Times /\ (<<MPV, m>> \in Range(r.out) \/ m \in Met(e, Length))
        BY <1>0, <1>a DEF Made
      <3>3. \A m \in Spawned(MPV, o) : m \in Times  BY DEF Spawned
      <3> QED  BY <2>2, <3>1, <3>2, <3>3
    <2> QED  BY <1>5, <1>6, <2>8, <2>10, <2>11
  <1> QED  BY <1>7, <1>8

\* An MPV that has the same matches to report is as good as the one it replaces.
LEMMA SameButMpv ==
    ASSUME NEW r \in Rose, Orderly(r), NEW e \in Engines, Due(e, r.minMatch, r.nextMpv),
           Climbs(e),
           \A m \in Times : (e.on /\ m \in Met(e, Length))
                            <=> (r.eng[MPV].on /\ m \in Met(r.eng[MPV], Length))
    PROVE  LET s == [r EXCEPT !.eng[MPV] = e] IN
           /\ MpvMoved(r, s) /\ Made(s) = Made(r) /\ s.eng[MPV] = e
           /\ s.minMatch = r.minMatch /\ s.minNonMpv = r.minNonMpv
  <1>a. PICK s : s = [r EXCEPT !.eng[MPV] = e]  OBVIOUS
  <1>1. s \in Rose /\ s.eng[MPV] = e /\ SameBut(r, s, MPV)
    BY <1>a, WithEngine, ConstantsAre
  <1>2. /\ s.minMatch = r.minMatch /\ s.minNonMpv = r.minNonMpv /\ s.nextMpv = r.nextMpv
        /\ s.spent = r.spent /\ s.chained = r.chained /\ s.out = r.out
        /\ \A q \in Others : s.eng[q] = r.eng[q]
    BY <1>1 DEF SameBut, Others
  <1>3. Orderly(s)  BY <1>1, <1>2 DEF Orderly
  <1>4. Made(s) = Made(r)  BY <1>1, <1>2 DEF Made
  <1>5. MpvMoved(r, s)  BY <1>1, <1>2, <1>3 DEF MpvMoved
  <1> QED  BY <1>1, <1>2, <1>4, <1>5, <1>a

\* A chained report: whatever the state of the MPV and of its queue.
LEMMA HandleChainIs ==
    ASSUME NEW r \in Rose, Orderly(r), NEW o \in Times, r.minMatch <= o,
           Within(r.eng[MPV], o)
    PROVE  LET s == roseHandleChainMatch(r, o) IN
           /\ MpvMoved(r, s) /\ Made(s) = Made(r) \cup Spawned(MPV, o)
           /\ s.minMatch \in {r.minMatch, o}
           /\ \/ s.minNonMpv = r.minNonMpv
              \/ MustFlush(r.eng[MPV], o) /\ s.minNonMpv = Later2(r.minNonMpv, o)
           /\ Within(s.eng[MPV], o)
  <1>a. PICK e, s : e = r.eng[MPV] /\ s = roseHandleChainMatch(r, o)  OBVIOUS
  <1>0. /\ e \in Engines /\ o \in Nat /\ o <= Length /\ Length \in Nat /\ MPV \in Engine
        /\ r.minMatch \in Nat /\ r.minMatch \in Times /\ r.minNonMpv \in Times
        /\ Times \subseteq Nat /\ e.cur \in Times /\ Within(e, o)
    BY <1>a, RoseIs, ConstantsAre, MpvEngine, EngineIs DEF Times
  <1>1. CASE ~e.on
    <2>1. PICK g : g = Started(o)  OBVIOUS
    <2>2. /\ g \in Engines /\ g.on /\ g.cur = o /\ g.queue = <<>> /\ g.tops = {}
      BY <2>1, OffIs
    <2>3. Met(g, Length) = {}  BY <2>2 DEF Met
    <2>4. PICK w : w = [r EXCEPT !.eng[MPV] = g]  OBVIOUS
    <2>5. Due(g, r.minMatch, r.nextMpv) /\ Climbs(g) /\ Within(g, o)
      BY <1>0, <2>2, <2>3 DEF Due, Climbs, Within
    <2>6. \A m \in Times : (g.on /\ m \in Met(g, Length))
                           <=> (r.eng[MPV].on /\ m \in Met(r.eng[MPV], Length))
      BY <1>1, <1>a, <2>3
    <2>7. /\ MpvMoved(r, w) /\ Made(w) = Made(r) /\ w.eng[MPV] = g
          /\ w.minMatch = r.minMatch /\ w.minNonMpv = r.minNonMpv
      BY <2>2, <2>4, <2>5, <2>6, SameButMpv
    <2>8. s = Triggered(w, o)  BY <1>1, <1>a, <2>1, <2>4 DEF roseHandleChainMatch
    <2>9. w \in Rose /\ Orderly(w) /\ w.minMatch <= o /\ w.eng[MPV].on /\ Within(w.eng[MPV], o)
      BY <2>2, <2>5, <2>7 DEF MpvMoved
    <2>10. /\ MpvMoved(w, s) /\ Made(s) = Made(w) \cup Spawned(MPV, o)
           /\ s.minMatch = w.minMatch /\ s.minNonMpv = w.minNonMpv
           /\ Within(s.eng[MPV], o)
      BY <2>8, <2>9, TriggeredIs
    <2>11. MpvMoved(r, s)  BY <2>7, <2>10, MovedTwice
    <2> QED  BY <1>a, <2>7, <2>10, <2>11
  <1>2. CASE e.on /\ ~isQueueFull(e)
    <2>1. s = Triggered(r, o)  BY <1>2, <1>a DEF roseHandleChainMatch
    <2>2. /\ MpvMoved(r, s) /\ Made(s) = Made(r) \cup Spawned(MPV, o)
          /\ s.minMatch = r.minMatch /\ s.minNonMpv = r.minNonMpv
          /\ Within(s.eng[MPV], o)
      <3>1. r.eng[MPV].on  BY <1>2, <1>a
      <3> QED  BY <2>1, <3>1, TriggeredIs
    <2> QED  BY <1>a, <2>2
  <1>3. CASE e.on /\ isQueueFull(e) /\ e.cur = o
    <2>1. PICK u, g : u = <<>> /\ g = EngAt(e, o, u)  OBVIOUS
    <2>2. u \in Seq(Times) /\ o \in Times /\ g = EngAt(e, o, u)  BY <2>1
    <2>3. /\ g \in Engines /\ g.on /\ g.cur = e.cur /\ g.queue = u /\ g.tops = e.tops
      <3>1. g \in Engines /\ g.on = e.on /\ g.cur = o /\ g.queue = u /\ g.tops = e.tops
        BY <1>0, <2>2, EngineAt
      <3> QED  BY <1>3, <3>1
    <2>4. Met(g, Length) = Met(e, Length)  BY <2>3 DEF Met
    <2>5. Due(g, r.minMatch, r.nextMpv) /\ Climbs(g) /\ Within(g, o)
      BY <1>0, <1>3, <1>a, <2>1, <2>3, <2>4 DEF Due, Climbs, Within, Orderly
    <2>6. \A m \in Times : (g.on /\ m \in Met(g, Length))
                           <=> (r.eng[MPV].on /\ m \in Met(r.eng[MPV], Length))
      BY <1>3, <1>a, <2>3, <2>4
    <2>7. PICK w : w = [r EXCEPT !.eng[MPV] = g]  OBVIOUS
    <2>8. /\ MpvMoved(r, w) /\ Made(w) = Made(r) /\ w.eng[MPV] = g
          /\ w.minMatch = r.minMatch /\ w.minNonMpv = r.minNonMpv
      BY <2>3, <2>5, <2>6, <2>7, SameButMpv
    <2>9. [r EXCEPT !.eng[MPV].queue = <<>>] = w
      <3>1. r.eng \in [Engine -> Engines]  BY DEF Rose
      <3>2. [e EXCEPT !.queue = <<>>] = g
        BY <1>0, <1>3, <2>1 DEF EngAt, Engines
      <3>3. [r EXCEPT !.eng[MPV].queue = <<>>] = [r EXCEPT !.eng[MPV] = [e EXCEPT !.queue = <<>>]]
        BY <1>a
      <3> QED  BY <2>7, <3>2, <3>3
    <2>10. s = Triggered(w, o)  BY <1>3, <1>a, <2>9 DEF roseHandleChainMatch
    <2>11. w \in Rose /\ Orderly(w) /\ w.minMatch <= o /\ w.eng[MPV].on /\ Within(w.eng[MPV], o)
      BY <2>3, <2>5, <2>8 DEF MpvMoved
    <2>12. /\ MpvMoved(w, s) /\ Made(s) = Made(w) \cup Spawned(MPV, o)
           /\ s.minMatch = w.minMatch /\ s.minNonMpv = w.minNonMpv
           /\ Within(s.eng[MPV], o)
      BY <2>10, <2>11, TriggeredIs
    <2>13. MpvMoved(r, s)  BY <2>8, <2>12, MovedTwice
    <2> QED  BY <1>a, <2>8, <2>12, <2>13
  <1>4. CASE e.on /\ isQueueFull(e) /\ e.cur # o
    <2>1. PICK w, n : n = 0 /\ w = NextAt(r, n)  OBVIOUS
    <2>2. n \in 0 .. Length + 1  BY <1>0, <2>1
    <2>3. /\ w \in Rose /\ w.nextMpv = n /\ w.minMatch = r.minMatch
          /\ w.minNonMpv = r.minNonMpv /\ w.out = r.out /\ w.spent = r.spent
          /\ w.chained = r.chained /\ w.eng = r.eng
      BY <2>1, <2>2, WithNext
    <2>4. Orderly(w) /\ MpvMoved(r, w) /\ Made(w) = Made(r)
      <3>1. \A m \in Met(e, Length) : m >= 0
        <4>1. e.cur \in Nat  BY <1>0
        <4> QED  BY <1>0, <4>1 DEF Met
      <3>2. Due(e, w.minMatch, w.nextMpv)
        BY <1>4, <1>a, <2>1, <2>3, <3>1 DEF Orderly, Due
      <3>3. Orderly(w)  BY <1>a, <2>3, <3>2 DEF Orderly
      <3>4. Made(w) = Made(r)  BY <2>3 DEF Made
      <3> QED  BY <2>3, <3>3, <3>4 DEF MpvMoved
    <2>5. PICK x : x = roseCatchUpMPV(w, o)  OBVIOUS
    <2>6. x = RunMpv(w, o)
      <3>1. ~canSkipCatchUpMPV(w, o)  BY <1>0, <1>4, <1>a, <2>1, <2>3 DEF canSkipCatchUpMPV
      <3> QED  BY <2>5, <3>1 DEF roseCatchUpMPV
    <2>7. w.eng[MPV].on /\ w.eng[MPV].cur <= o /\ w.minMatch <= o
      BY <1>0, <1>4, <1>a, <2>3 DEF Within
    <2>8. /\ MpvMoved(w, x) /\ Made(x) = Made(w)
          /\ x.minMatch = o /\ x.minNonMpv = Later2(w.minNonMpv, o)
          /\ x.eng[MPV].on /\ x.eng[MPV].cur = o /\ x.eng[MPV].queue = <<>>
      BY <2>3, <2>4, <2>6, <2>7, RunMpvIs
    <2>9. x \in Rose /\ Orderly(x) /\ x.minMatch <= o /\ Within(x.eng[MPV], o)
      BY <1>0, <2>8 DEF MpvMoved, Within
    <2>10. s = Triggered(x, o)
      BY <1>4, <1>a, <2>1, <2>5 DEF roseHandleChainMatch, NextAt
    <2>11. /\ MpvMoved(x, s) /\ Made(s) = Made(x) \cup Spawned(MPV, o)
           /\ s.minMatch = x.minMatch /\ s.minNonMpv = x.minNonMpv
           /\ Within(s.eng[MPV], o)
      BY <2>8, <2>9, <2>10, TriggeredIs
    <2>12. MpvMoved(r, x)  BY <2>4, <2>8, MovedTwice
    <2>13. MpvMoved(r, s)  BY <2>11, <2>12, MovedTwice
    <2>14. MustFlush(r.eng[MPV], o)  BY <1>4, <1>a DEF MustFlush
    <2> QED  BY <1>a, <2>3, <2>4, <2>8, <2>11, <2>13, <2>14
  <1> QED  BY <1>1, <1>2, <1>3, <1>4

----------------------------------------------------------------------------
(* What is reported, what the engines have still to report and what the    *)
(* patterns match                                                          *)

\* The match was reported.
Got(r, q, o) == <<q, o>> \in Range(r.out)

\* P: what each engine but the MPV has still to report; T: what it matches.
Kept(P) == P \in [Others -> SUBSET (1 .. Length)]

\* No engine has anything to report before the offset the engines were caught up to.
Low(r, P) == \A q \in Others : \A o \in P[q] : r.minNonMpv <= o

\* Nothing the MPV was fed with lies after a trigger it has still to get.
Fed(r, P, b) ==
    /\ Within(r.eng[MPV], b)
    /\ \A q \in r.chained : \A o \in P[q] : Within(r.eng[MPV], o)

\* An engine without an exhaustion key that does not feed the MPV: each of its
\* matches is either reported or still to be reported, and never both.
Plain(r, P, T) ==
    \A q \in Others : q \notin r.chained /\ q \notin Single =>
        \A o \in Times : /\ o \in T[q] <=> Got(r, q, o) \/ o \in P[q]
                         /\ ~(Got(r, q, o) /\ o \in P[q])

\* q reported its first match and nothing else.
OnlyFirst(r, q, T) ==
    \E o \in T[q] : /\ \A n \in Times : Got(r, q, n) <=> n = o
                    /\ \A n \in T[q] : o <= n

\* An engine with an exhaustion key has all to report, or reported its first match.
Once(r, P, T) ==
    \A q \in Single : IF q \in r.spent THEN OnlyFirst(r, q, T)
                      ELSE P[q] = T[q] /\ \A n \in Times : ~Got(r, q, n)

\* An engine that feeds the MPV reports nothing itself, and its triggers up to b
\* only are over.
Feeds(r, P, T, b) ==
    \A q \in r.chained : /\ \A n \in Times : ~Got(r, q, n)
                         /\ P[q] \subseteq T[q]
                         /\ \A o \in T[q] : o \notin P[q] => o <= b

\* The offsets the MPV was triggered at: by the literals, at C, or by an engine.
Fired(r, P, T, C) == {c \in Times : c \in C \/ \E q \in r.chained : c \in T[q] /\ c \notin P[q]}

\* The MPV reports what its triggers so far lead to, neither more nor less.
MpvExact(r, P, T, C) ==
    \A n \in Times : n \in Made(r) <=> \E c \in Fired(r, P, T, C) : n \in Spawned(MPV, c)

\* Literals report at L.
LitExact(r, L) == \A n \in Times : Got(r, Literal, n) <=> n \in L

\* What holds of the record r, with P still to be reported, when the patterns match
\* T, the literals triggered the MPV at C and reported at L, and b is the offset
\* of the literal being handled.
Core(r, P, T, C, L, b) ==
    /\ r \in Rose /\ Orderly(r) /\ Kept(P) /\ Kept(T) /\ b \in Times
    /\ Low(r, P) /\ Fed(r, P, b)
    /\ Plain(r, P, T) /\ Once(r, P, T) /\ Feeds(r, P, T, b) /\ MpvExact(r, P, T, C)
    /\ LitExact(r, L)

\* The engines that feed the MPV are not exhaustible, and neither is the MPV.
LEMMA OthersAre ==
    \A r \in Rose : /\ \A q \in r.chained : q \in Others /\ q \notin Single
                    /\ \A q \in Single : q \in Others
  <1> SUFFICES ASSUME NEW r \in Rose
               PROVE  /\ \A q \in r.chained : q \in Others /\ q \notin Single
                      /\ \A q \in Single : q \in Others
    OBVIOUS
  <1>1. r.chained \in Feeders  BY RoseIs
  <1>2. r.chained \subseteq Others /\ Single \subseteq Others /\ r.chained \cap Single = {}
    BY <1>1, ConstantsAre
  <1> QED  BY <1>2

\* A step of the MPV reports nothing for another engine.
LEMMA GotSame ==
    ASSUME NEW r \in Rose, NEW s, MpvMoved(r, s), NEW q, q # MPV, NEW o
    PROVE  Got(s, q, o) <=> Got(r, q, o)
  <1>1. <<q, o>>[1] # MPV  OBVIOUS
  <1> QED  BY <1>1 DEF Got, MpvMoved

\* What is still to be reported lies within the block.
LEMMA KeptIs ==
    ASSUME NEW P, Kept(P), NEW q \in Others, NEW o \in P[q]
    PROVE  o \in Times /\ o \in 1 .. Length /\ o \in Nat
  <1>1. P[q] \in SUBSET (1 .. Length)  BY DEF Kept
  <1> QED  BY <1>1, ConstantsAre DEF Times

\* A step of the MPV that changes none of its matches keeps Core.
LEMMA CoreMove ==
    ASSUME NEW r, NEW s, NEW P, NEW T, NEW C, NEW L, NEW b,
           Core(r, P, T, C, L, b), MpvMoved(r, s), Made(s) = Made(r),
           Low(s, P), Fed(s, P, b)
    PROVE  Core(s, P, T, C, L, b)
  <1>1. /\ r \in Rose /\ s \in Rose /\ Orderly(s) /\ s.spent = r.spent /\ s.chained = r.chained
    BY DEF Core, MpvMoved
  <1>2. \A q, o : q # MPV => (Got(s, q, o) <=> Got(r, q, o))  BY <1>1, GotSame
  <1>3. \A q \in Others : q # MPV  BY DEF Others
  <1>4. \A q \in Single : q # MPV  BY <1>1, <1>3, OthersAre
  <1>5. \A q \in r.chained : q # MPV  BY <1>1, <1>3, OthersAre
  <1>6. Plain(s, P, T)
    <2>1. Plain(r, P, T)  BY DEF Core
    <2> QED  BY <1>1, <1>2, <1>3, <2>1 DEF Plain
  <1>7. Once(s, P, T)
    <2>1. Once(r, P, T)  BY DEF Core
    <2>2. \A q \in Single : OnlyFirst(r, q, T) => OnlyFirst(s, q, T)
      BY <1>2, <1>4 DEF OnlyFirst
    <2> QED  BY <1>1, <1>2, <1>4, <2>1, <2>2 DEF Once
  <1>8. Feeds(s, P, T, b)
    <2>1. Feeds(r, P, T, b)  BY DEF Core
    <2> QED  BY <1>1, <1>2, <1>5, <2>1 DEF Feeds
  <1>9. MpvExact(s, P, T, C)
    <2>1. MpvExact(r, P, T, C)  BY DEF Core
    <2>2. Fired(s, P, T, C) = Fired(r, P, T, C)  BY <1>1 DEF Fired
    <2> QED  BY <2>1, <2>2 DEF MpvExact
  <1>10. LitExact(s, L)
    <2>1. LitExact(r, L) /\ Literal # MPV  BY ConstantsAre DEF Core
    <2> QED  BY <1>2, <2>1 DEF LitExact
  <1> QED  BY <1>1, <1>6, <1>7, <1>8, <1>9, <1>10 DEF Core

\* The MPV is caught up to an offset that nothing pending lies before.
LEMMA CoreCatchMpv ==
    ASSUME NEW r, NEW P, NEW T, NEW C, NEW L, NEW b, NEW o \in Times,
           Core(r, P, T, C, L, b), r.minMatch <= o, o <= b,
           \A q \in Others : \A n \in P[q] : o <= n
    PROVE  LET s == roseCatchUpMPV(r, o) IN
           /\ Core(s, P, T, C, L, b)
           /\ s.minMatch = o /\ s.minNonMpv = Later2(r.minNonMpv, o)
           /\ s.spent = r.spent /\ s.chained = r.chained
           /\ \A q \in Others : s.eng[q] = r.eng[q]
  <1>a. PICK s : s = roseCatchUpMPV(r, o)  OBVIOUS
  <1>1. r \in Rose /\ Orderly(r) /\ Kept(P) /\ b \in Times  BY DEF Core
  <1>2. /\ MpvMoved(r, s) /\ Made(s) = Made(r)
        /\ s.minMatch = o /\ s.minNonMpv = Later2(r.minNonMpv, o)
        /\ \A v \in Times : o <= v /\ Within(r.eng[MPV], v) => Within(s.eng[MPV], v)
    BY <1>1, <1>a, CatchMpvIs
  <1>3. s.spent = r.spent /\ s.chained = r.chained /\ \A q \in Others : s.eng[q] = r.eng[q]
    BY <1>2 DEF MpvMoved
  <1>4. Low(s, P)  BY <1>2 DEF Core, Low, Later2
  <1>5. Fed(s, P, b)
    <2>1. Within(s.eng[MPV], b)  BY <1>1, <1>2 DEF Core, Fed
    <2>2. ASSUME NEW q \in s.chained, NEW n \in P[q] PROVE Within(s.eng[MPV], n)
      <3>1. q \in r.chained /\ q \in Others  BY <1>1, <1>3, OthersAre
      <3>2. Within(r.eng[MPV], n)  BY <3>1 DEF Core, Fed
      <3>3. o <= n /\ n \in Times  BY <1>1, <3>1, KeptIs
      <3> QED  BY <1>2, <3>2, <3>3
    <2> QED  BY <2>1, <2>2 DEF Fed
  <1>6. Core(s, P, T, C, L, b)  BY <1>2, <1>4, <1>5, CoreMove
  <1> QED  BY <1>2, <1>3, <1>6, <1>a

\* An engine other than the MPV changes, not what it has still to report.
LEMMA CoreSame ==
    ASSUME NEW r, NEW s \in Rose, NEW P, NEW T, NEW C, NEW L, NEW b, NEW q \in Others,
           Core(r, P, T, C, L, b), SameBut(r, s, q)
    PROVE  Core(s, P, T, C, L, b)
  <1>1. /\ s.minMatch = r.minMatch /\ s.minNonMpv = r.minNonMpv /\ s.nextMpv = r.nextMpv
        /\ s.out = r.out /\ s.spent = r.spent /\ s.chained = r.chained
        /\ s.eng[MPV] = r.eng[MPV]
    BY ConstantsAre DEF SameBut, Others
  <1>2. \A p, o : Got(s, p, o) <=> Got(r, p, o)  BY <1>1 DEF Got
  <1>3. Made(s) = Made(r)  BY <1>1 DEF Made
  <1>4. Fired(s, P, T, C) = Fired(r, P, T, C)  BY <1>1 DEF Fired
  <1>5. \A p : OnlyFirst(r, p, T) => OnlyFirst(s, p, T)  BY <1>2 DEF OnlyFirst
  <1>6. Orderly(s)  BY <1>1 DEF Core, Orderly
  <1>7. Low(s, P) /\ Fed(s, P, b)  BY <1>1 DEF Core, Low, Fed
  <1>8. Plain(s, P, T)  BY <1>1, <1>2 DEF Core, Plain
  <1>9. Once(s, P, T)  BY <1>1, <1>2, <1>5 DEF Core, Once
  <1>10. Feeds(s, P, T, b)  BY <1>1, <1>2 DEF Core, Feeds
  <1>11. MpvExact(s, P, T, C)  BY <1>3, <1>4 DEF Core, MpvExact
  <1>12. LitExact(s, L)  BY <1>2 DEF Core, LitExact
  <1> QED  BY <1>6, <1>7, <1>8, <1>9, <1>10, <1>11, <1>12 DEF Core

----------------------------------------------------------------------------
(* A report                                                                *)

\* P2 is P but for the engine q.
Elsewhere(P, P2, q) == Kept(P2) /\ \A p \in Others : p # q => P2[p] = P[p]

\* A new report at the offset caught up to keeps the reports in order and the MPV
\* as it was.
LEMMA DeliverIs ==
    ASSUME NEW r \in Rose, Orderly(r), NEW o \in Times, r.minMatch = o,
           NEW q \in 0 .. QueueCount, q # MPV, q \notin r.spent, ~Got(r, q, o)
    PROVE  LET s == Deliver(r, q, o) IN
           /\ s \in Rose /\ Orderly(s) /\ Made(s) = Made(r)
           /\ \A p, n : Got(s, p, n) <=> Got(r, p, n) \/ (p = q /\ n = o)
           /\ \A p : p \in s.spent <=> p \in r.spent \/ (p = q /\ q \in Single)
           /\ s.minMatch = r.minMatch /\ s.minNonMpv = r.minNonMpv
           /\ s.chained = r.chained /\ s.eng = r.eng
  <1>a. PICK u, t, s : /\ u = Append(r.out, <<q, o>>)
                       /\ t = (IF q \in Single THEN r.spent \cup {q} ELSE r.spent)
                       /\ s = SpentAt(r, u, t)
    OBVIOUS
  <1>0. r.out \in Seq(Reports) /\ r.spent \subseteq Single /\ OutUpTo(r.out, o)
    BY RoseIs DEF Orderly
  <1>1. u \in Seq(Reports) /\ OutUpTo(u, o) /\ Range(u) = Range(r.out) \cup {<<q, o>>}
    <2>1. <<q, o>> \notin Range(r.out)  BY DEF Got
    <2> QED  BY <1>0, <1>a, <2>1, OutOne
  <1>2. t \in SUBSET Single /\ \A p : p \in t <=> p \in r.spent \/ (p = q /\ q \in Single)
    BY <1>0, <1>a
  <1>3. /\ s \in Rose /\ s.out = u /\ s.minMatch = r.minMatch
        /\ s.minNonMpv = r.minNonMpv /\ s.nextMpv = r.nextMpv /\ s.spent = t
        /\ s.chained = r.chained /\ s.eng = r.eng
    <2>1. u \in Seq(Reports) /\ t \in SUBSET Single /\ s = SpentAt(r, u, t)
      BY <1>1, <1>2, <1>a
    <2> QED  BY <2>1, WithSpent
  <1>4. Deliver(r, q, o) = s  BY <1>a DEF Deliver, SpentAt, Rose
  <1>5. \A p, n : <<p, n>> \in Range(u) <=> <<p, n>> \in Range(r.out) \/ (p = q /\ n = o)
    BY <1>1
  <1>6. \A p, n : Got(s, p, n) <=> Got(r, p, n) \/ (p = q /\ n = o)
    BY <1>3, <1>5 DEF Got
  <1>7. Orderly(s)  BY <1>1, <1>3 DEF Orderly
  <1>8. Made(s) = Made(r)
    <2>1. \A n : <<MPV, n>> \in Range(u) <=> <<MPV, n>> \in Range(r.out)  BY <1>5
    <2> QED  BY <1>3, <2>1 DEF Made
  <1> QED  BY <1>2, <1>3, <1>4, <1>6, <1>7, <1>8

\* What an exhausted engine has still to report does not matter.
LEMMA CoreDrop ==
    ASSUME NEW r, NEW P, NEW T, NEW C, NEW L, NEW b, NEW P2, NEW q \in r.spent,
           Core(r, P, T, C, L, b), Elsewhere(P, P2, q), \A o \in P2[q] : r.minNonMpv <= o
    PROVE  Core(r, P2, T, C, L, b)
  <1>0. r \in Rose /\ Kept(P2)  BY DEF Core, Elsewhere
  <1>1. q \in Single /\ q \in Others /\ q \notin r.chained
    BY <1>0, RoseIs, OthersAre
  <1>2. \A p \in r.chained : p \in Others /\ p # q /\ P2[p] = P[p]
    BY <1>0, <1>1, OthersAre DEF Elsewhere
  <1>3. \A p \in Others : p # q => P2[p] = P[p]  BY DEF Elsewhere
  <1>4. Low(r, P2)  BY <1>3 DEF Core, Low
  <1>5. Fed(r, P2, b)  BY <1>2 DEF Core, Fed
  <1>6. Plain(r, P2, T)  BY <1>1, <1>3 DEF Core, Plain
  <1>7. Once(r, P2, T)
    <2>1. \A p \in Single : p \in Others  BY <1>0, OthersAre
    <2>2. Once(r, P, T)  BY DEF Core
    <2>3. ASSUME NEW p \in Single
          PROVE  IF p \in r.spent THEN OnlyFirst(r, p, T)
                 ELSE P2[p] = T[p] /\ \A n \in Times : ~Got(r, p, n)
      <3>1. CASE p = q  BY <2>2, <3>1 DEF Once
      <3>2. CASE p # q  BY <1>3, <2>1, <2>2, <3>2 DEF Once
      <3> QED  BY <3>1, <3>2
    <2> QED  BY <2>3 DEF Once
  <1>8. Feeds(r, P2, T, b)  BY <1>2 DEF Core, Feeds
  <1>9. Fired(r, P2, T, C) = Fired(r, P, T, C)  BY <1>2 DEF Fired
  <1>10. MpvExact(r, P2, T, C)  BY <1>9 DEF Core, MpvExact
  <1> QED  BY <1>0, <1>4, <1>5, <1>6, <1>7, <1>8, <1>10 DEF Core

\* An engine that does not feed the MPV reports at o, where the MPV is.
LEMMA CoreDeliver ==
    ASSUME NEW r, NEW P, NEW T, NEW C, NEW L, NEW b, NEW P2, NEW q \in Others,
           NEW o \in P[q],
           Core(r, P, T, C, L, b), q \notin r.chained, q \notin r.spent, r.minMatch = o,
           \A n \in P[q] : o <= n,
           Elsewhere(P, P2, q), \A n \in P2[q] : r.minNonMpv <= n,
           q \notin Single => P2[q] = P[q] \ {o}
    PROVE  LET s == Deliver(r, q, o) IN
           /\ Core(s, P2, T, C, L, b)
           /\ s.minMatch = o /\ s.minNonMpv = r.minNonMpv
           /\ s.chained = r.chained /\ s.eng = r.eng
           /\ q \in Single => q \in s.spent
  <1>a. PICK s : s = Deliver(r, q, o)  OBVIOUS
  <1>0. r \in Rose /\ Orderly(r) /\ Kept(P) /\ Kept(P2) /\ Kept(T)
    BY DEF Core, Elsewhere
  <1>1. o \in Times /\ o \in 1 .. Length /\ q \in 0 .. QueueCount /\ q # MPV /\ q # Literal
    BY <1>0, KeptIs, ConstantsAre DEF Others
  <1>2. ~Got(r, q, o)
    <2>1. CASE q \in Single  BY <1>1, <2>1 DEF Core, Once
    <2>2. CASE q \notin Single  BY <1>1, <2>2 DEF Core, Plain
    <2> QED  BY <2>1, <2>2
  <1>3. /\ s \in Rose /\ Orderly(s) /\ Made(s) = Made(r)
        /\ \A p, n : Got(s, p, n) <=> Got(r, p, n) \/ (p = q /\ n = o)
        /\ \A p : p \in s.spent <=> p \in r.spent \/ (p = q /\ q \in Single)
        /\ s.minMatch = r.minMatch /\ s.minNonMpv = r.minNonMpv
        /\ s.chained = r.chained /\ s.eng = r.eng
    BY <1>0, <1>1, <1>2, <1>a, DeliverIs
  <1>4. \A p \in Others : p # q => P2[p] = P[p] /\ \A n : Got(s, p, n) <=> Got(r, p, n)
    BY <1>3 DEF Elsewhere
  <1>5. \A p \in r.chained : p \in Others /\ p # q  BY <1>0, OthersAre
  <1>6. Low(s, P2)  BY <1>3, <1>4 DEF Core, Low
  <1>7. Fed(s, P2, b)  BY <1>3, <1>4, <1>5 DEF Core, Fed
  <1>8. Plain(s, P2, T)
    <2>1. Plain(r, P, T)  BY DEF Core
    <2>2. ASSUME NEW p \in Others, p \notin s.chained, p \notin Single, NEW n \in Times
          PROVE  /\ n \in T[p] <=> Got(s, p, n) \/ n \in P2[p]
                 /\ ~(Got(s, p, n) /\ n \in P2[p])
      <3>1. /\ n \in T[p] <=> Got(r, p, n) \/ n \in P[p]
            /\ ~(Got(r, p, n) /\ n \in P[p])
        BY <1>3, <2>1, <2>2 DEF Plain
      <3>2. CASE p # q  BY <1>4, <3>1, <3>2
      <3>3. CASE p = q
        <4>1. n \in P2[p] <=> n \in P[p] /\ n # o  BY <2>2, <3>3
        <4>2. Got(s, p, n) <=> Got(r, p, n) \/ n = o  BY <1>3, <3>3
        <4>3. o \in P[p]  BY <3>3
        <4> QED  BY <3>1, <4>1, <4>2, <4>3
      <3> QED  BY <3>2, <3>3
    <2> QED  BY <2>2 DEF Plain
  <1>9. Once(s, P2, T)
    <2>1. Once(r, P, T)  BY DEF Core
    <2>2. ASSUME NEW p \in Single
          PROVE  IF p \in s.spent THEN OnlyFirst(s, p, T)
                 ELSE P2[p] = T[p] /\ \A n \in Times : ~Got(s, p, n)
      <3>1. CASE p = q
        <4>1. p \in s.spent  BY <1>3, <3>1
        <4>2. P[q] = T[q] /\ \A n \in Times : ~Got(r, q, n)
          BY <2>1, <3>1 DEF Once
        <4>3. /\ o \in T[p] /\ \A n \in T[p] : o <= n
              /\ \A n \in Times : Got(s, p, n) <=> n = o
          BY <1>1, <1>3, <3>1, <4>2
        <4> QED  BY <4>1, <4>3 DEF OnlyFirst
      <3>2. CASE p # q
        <4>1. p \in Others  BY <1>0, OthersAre
        <4>2. p \in s.spent <=> p \in r.spent  BY <1>3, <3>2
        <4>3. OnlyFirst(r, p, T) => OnlyFirst(s, p, T)
          BY <1>4, <3>2, <4>1 DEF OnlyFirst
        <4> QED  BY <1>4, <2>1, <3>2, <4>1, <4>2, <4>3 DEF Once
      <3> QED  BY <3>1, <3>2
    <2> QED  BY <2>2 DEF Once
  <1>10. Feeds(s, P2, T, b)
    BY <1>3, <1>4, <1>5 DEF Core, Feeds
  <1>11. MpvExact(s, P2, T, C)
    <2>1. Fired(s, P2, T, C) = Fired(r, P, T, C)  BY <1>3, <1>4, <1>5 DEF Fired
    <2> QED  BY <1>3, <2>1 DEF Core, MpvExact
  <1>12. LitExact(s, L)  BY <1>1, <1>3 DEF Core, LitExact
  <1>13. Core(s, P2, T, C, L, b)
    BY <1>0, <1>3, <1>6, <1>7, <1>8, <1>9, <1>10, <1>11, <1>12 DEF Core
  <1> QED  BY <1>3, <1>13, <1>a

\* The earliest match that is pending is reported.
LEMMA CoreReport ==
    ASSUME NEW r, NEW P, NEW T, NEW C, NEW L, NEW b, NEW P2, NEW q \in Others,
           NEW o \in P[q], o <= b,
           Core(r, P, T, C, L, b), r.chained = Chained,
           \A p \in Others : \A n \in P[p] : o <= n,
           Elsewhere(P, P2, q), \A n \in P2[q] : o <= n,
           q \notin Single => P2[q] = P[q] \ {o}
    PROVE  LET s == Report(r, q, o) IN
           /\ Core(s, P2, T, C, L, b)
           /\ s.minMatch \in {r.minMatch, o} /\ s.minNonMpv \in {r.minNonMpv, o}
           /\ s.chained = r.chained /\ \A p \in Others : s.eng[p] = r.eng[p]
           /\ q \in Single => q \in s.spent
  <1>a. PICK s : s = Report(r, q, o)  OBVIOUS
  <1>0. /\ r \in Rose /\ Orderly(r) /\ Kept(P) /\ Kept(P2) /\ Kept(T) /\ b \in Times
        /\ r.minMatch \in Times /\ r.minNonMpv \in Times /\ r.minMatch <= r.minNonMpv
        /\ Times \subseteq Nat
    BY RoseIs, ConstantsAre DEF Core, Elsewhere, Orderly
  <1>1. o \in Times /\ o \in 1 .. Length /\ o \in Nat /\ q # MPV /\ q # Literal
    BY <1>0, KeptIs, ConstantsAre DEF Others
  <1>2. r.minNonMpv <= o /\ r.minMatch <= o
    <2>1. r.minNonMpv <= o  BY DEF Core, Low
    <2>2. r.minMatch \in Nat /\ r.minNonMpv \in Nat  BY <1>0
    <2> QED  BY <1>0, <1>1, <2>1, <2>2
  <1>3. Later2(r.minNonMpv, o) = o
    <2>1. r.minNonMpv \in Nat  BY <1>0
    <2> QED  BY <1>1, <1>2, <2>1 DEF Later2
  <1>4. CASE q \in r.chained
    <2>1. s = roseHandleChainMatch(r, o)  BY <1>4, <1>a DEF Report
    <2>2. Within(r.eng[MPV], o)  BY <1>4 DEF Core, Fed
    <2>3. /\ MpvMoved(r, s) /\ Made(s) = Made(r) \cup Spawned(MPV, o)
          /\ s.minMatch \in {r.minMatch, o}
          /\ s.minNonMpv \in {r.minNonMpv, o}
          /\ Within(s.eng[MPV], o)
      <3>1. PICK z : z = roseHandleChainMatch(r, o)  OBVIOUS
      <3>2. /\ MpvMoved(r, z) /\ Made(z) = Made(r) \cup Spawned(MPV, o)
            /\ z.minMatch \in {r.minMatch, o}
            /\ \/ z.minNonMpv = r.minNonMpv
               \/ MustFlush(r.eng[MPV], o) /\ z.minNonMpv = Later2(r.minNonMpv, o)
            /\ Within(z.eng[MPV], o)
        BY <1>0, <1>1, <1>2, <2>2, <3>1, HandleChainIs
      <3> QED  BY <1>3, <2>1, <3>1, <3>2
    <2>4. /\ s \in Rose /\ Orderly(s) /\ s.spent = r.spent /\ s.chained = r.chained
          /\ \A p \in Others : s.eng[p] = r.eng[p]
      BY <2>3 DEF MpvMoved
    <2>5. \A p, n : p # MPV => (Got(s, p, n) <=> Got(r, p, n))  BY <1>0, <2>3, GotSame
    <2>6. q \notin Single /\ P2[q] = P[q] \ {o}  BY <1>0, <1>4, OthersAre
    <2>7. \A p \in Others : p # MPV /\ (p # q => P2[p] = P[p])  BY DEF Elsewhere, Others
    <2>8. \A p \in Others : \A n \in P2[p] : n \in P[p] /\ o <= n /\ n \in Times
      <3>1. \A p \in Others : \A n \in P2[p] : n \in P[p]  BY <2>6, <2>7
      <3> QED  BY <1>0, <3>1, KeptIs
    <2>9. \A p \in r.chained : p \in Others  BY <1>0, OthersAre
    <2>10. Low(s, P2)
      <3>1. Low(r, P)  BY DEF Core
      <3> QED  BY <2>3, <2>8, <3>1 DEF Low
    <2>11. Fed(s, P2, b)
      <3>1. s.eng[MPV] \in Engines  BY <2>4, MpvEngine
      <3>2. PICK e : e = s.eng[MPV]  OBVIOUS
      <3>3. e.cur \in Nat /\ \A i \in DOMAIN e.queue : e.queue[i] \in Nat
        <4>1. e.cur \in Times /\ e.queue \in Seq(Times)  BY <3>1, <3>2, EngineIs
        <4>2. PICK u : u = e.queue  OBVIOUS
        <4>3. u \in Seq(Times)  BY <4>1, <4>2
        <4>4. \A i \in DOMAIN u : u[i] \in Times  BY <4>3
        <4> QED  BY <1>0, <4>1, <4>2, <4>4
      <3>4. \A v \in Nat : o <= v => Within(e, v)
        <4>1. Within(e, o)  BY <2>3, <3>2
        <4> QED  BY <1>1, <3>3, <4>1 DEF Within
      <3>5. \A p \in s.chained : \A n \in P2[p] : o <= n /\ n \in Nat
        BY <1>0, <2>4, <2>8, <2>9
      <3> QED  BY <1>0, <3>2, <3>4, <3>5 DEF Fed
    <2>12. Plain(s, P2, T)
      <3>1. Plain(r, P, T)  BY DEF Core
      <3>2. \A p \in Others : p \notin s.chained => p # q  BY <1>4, <2>4
      <3> QED  BY <2>4, <2>5, <2>7, <3>1, <3>2 DEF Plain
    <2>13. Once(s, P2, T)
      <3>1. Once(r, P, T)  BY DEF Core
      <3>2. \A p \in Single : p \in Others /\ p # q  BY <1>0, <2>6, OthersAre
      <3>3. \A p \in Single : OnlyFirst(r, p, T) => OnlyFirst(s, p, T)
        BY <2>5, <2>7, <3>2 DEF OnlyFirst
      <3> QED  BY <2>4, <2>5, <2>7, <3>1, <3>2, <3>3 DEF Once
    <2>14. Feeds(s, P2, T, b)
      <3>1. Feeds(r, P, T, b)  BY DEF Core
      <3>2. ASSUME NEW p \in s.chained
            PROVE  /\ \A n \in Times : ~Got(s, p, n)
                   /\ P2[p] \subseteq T[p]
                   /\ \A n \in T[p] : n \notin P2[p] => n <= b
        <4>1. p \in Others /\ p \in r.chained  BY <2>4, <2>9
        <4>2. /\ \A n \in Times : ~Got(r, p, n)
              /\ P[p] \subseteq T[p] /\ \A n \in T[p] : n \notin P[p] => n <= b
          BY <3>1, <4>1 DEF Feeds
        <4>3. \A n : n \in P[p] /\ n \notin P2[p] => n = o  BY <2>6, <2>7, <4>1
        <4> QED  BY <2>5, <2>7, <2>8, <4>1, <4>2, <4>3
      <3> QED  BY <3>2 DEF Feeds
    <2>15. MpvExact(s, P2, T, C)
      <3>1. MpvExact(r, P, T, C) /\ P[q] \subseteq T[q]  BY <1>4 DEF Core, Feeds
      <3>2. \A c : c \in Fired(s, P2, T, C) <=> c \in Fired(r, P, T, C) \/ c = o
        <4>1. \A p \in r.chained : \A c : c \notin P2[p] <=> c \notin P[p] \/ (p = q /\ c = o)
          BY <2>6, <2>7, <2>9
        <4> QED  BY <1>1, <1>4, <2>4, <3>1, <4>1 DEF Fired
      <3>3. \A n \in Times : n \in Made(s) <=> n \in Made(r) \/ n \in Spawned(MPV, o)
        BY <2>3
      <3> QED  BY <3>1, <3>2, <3>3 DEF MpvExact
    <2>16. LitExact(s, L)
      <3>1. LitExact(r, L) /\ Literal # MPV  BY ConstantsAre DEF Core
      <3> QED  BY <2>5, <3>1 DEF LitExact
    <2>17. Core(s, P2, T, C, L, b)
      BY <1>0, <2>4, <2>10, <2>11, <2>12, <2>13, <2>14, <2>15, <2>16 DEF Core
    <2> QED  BY <1>a, <2>3, <2>4, <2>6, <2>17
  <1>5. CASE q \notin r.chained
    <2>1. PICK w : w = roseCatchUpMPV(r, o)  OBVIOUS
    <2>2. /\ Core(w, P, T, C, L, b)
          /\ w.minMatch = o /\ w.minNonMpv = o
          /\ w.spent = r.spent /\ w.chained = r.chained
          /\ \A p \in Others : w.eng[p] = r.eng[p]
      <3>1. /\ Core(w, P, T, C, L, b)
            /\ w.minMatch = o /\ w.minNonMpv = Later2(r.minNonMpv, o)
            /\ w.spent = r.spent /\ w.chained = r.chained
            /\ \A p \in Others : w.eng[p] = r.eng[p]
        BY <1>1, <1>2, <2>1, CoreCatchMpv
      <3> QED  BY <1>3, <3>1
    <2>3. s = Deliver(w, q, o)  BY <1>5, <1>a, <2>1 DEF Report
    <2>4. CASE q \in w.spent
      <3>1. s = w  BY <2>3, <2>4 DEF Deliver
      <3>2. Core(w, P2, T, C, L, b)
        <4>1. \A n \in P2[q] : w.minNonMpv <= n  BY <2>2
        <4> QED  BY <2>2, <2>4, <4>1, CoreDrop
      <3> QED  BY <1>a, <2>2, <2>4, <3>1, <3>2
    <2>5. CASE q \notin w.spent
      <3>1. q \notin w.chained /\ \A n \in P[q] : o <= n  BY <1>5, <2>2
      <3>2. \A n \in P2[q] : w.minNonMpv <= n  BY <2>2
      <3>3. /\ Core(s, P2, T, C, L, b)
            /\ s.minMatch = o /\ s.minNonMpv = w.minNonMpv
            /\ s.chained = w.chained /\ s.eng = w.eng
            /\ q \in Single => q \in s.spent
        BY <2>2, <2>3, <2>5, <3>1, <3>2, CoreDeliver
      <3> QED  BY <1>a, <2>2, <3>3
    <2> QED  BY <2>4, <2>5
  <1> QED  BY <1>4, <1>5

----------------------------------------------------------------------------
(* A literal, a trigger, the end of a catch-up                             *)

\* A literal reports at the offset that was caught up to.
LEMMA CoreLiteral ==
    ASSUME NEW r, NEW P, NEW T, NEW C, NEW L, NEW b, NEW o \in Times, o \notin L,
           Core(r, P, T, C, L, b), r.minMatch = o
    PROVE  LET s == Deliver(r, Literal, o) IN
           /\ Core(s, P, T, C, L \cup {o}, b)
           /\ s.minMatch = o /\ s.minNonMpv = r.minNonMpv
           /\ s.chained = r.chained /\ s.eng = r.eng
  <1>a. PICK s, q : s = Deliver(r, q, o) /\ q = Literal  OBVIOUS
  <1>0. r \in Rose /\ Orderly(r) /\ LitExact(r, L)  BY DEF Core
  <1>1. /\ q \in 0 .. QueueCount /\ q # MPV /\ q \notin r.spent /\ ~Got(r, q, o)
        /\ \A p \in Others : p # q
    <2>1. q \notin Engine /\ MPV \in Engine /\ q \in 0 .. QueueCount  BY <1>a, ConstantsAre
    <2>2. r.spent \subseteq Single /\ \A p \in Single : p \in Others
      BY <1>0, RoseIs, OthersAre
    <2>3. ~Got(r, q, o)  BY <1>0, <1>a DEF LitExact
    <2> QED  BY <2>1, <2>2, <2>3 DEF Others
  <1>2. /\ s \in Rose /\ Orderly(s) /\ Made(s) = Made(r)
        /\ \A p, n : Got(s, p, n) <=> Got(r, p, n) \/ (p = q /\ n = o)
        /\ \A p : p \in s.spent <=> p \in r.spent \/ (p = q /\ q \in Single)
        /\ s.minMatch = r.minMatch /\ s.minNonMpv = r.minNonMpv
        /\ s.chained = r.chained /\ s.eng = r.eng
    BY <1>0, <1>1, <1>a, DeliverIs
  <1>3. /\ \A p \in Single : p \in Others
        /\ \A p \in r.chained : p \in Others
    BY <1>0, OthersAre
  <1>4. \A p \in Others : \A n : Got(s, p, n) <=> Got(r, p, n)  BY <1>1, <1>2
  <1>5. \A p \in Single : p \in s.spent <=> p \in r.spent  BY <1>1, <1>2, <1>3
  <1>6. \A p \in Others : OnlyFirst(r, p, T) => OnlyFirst(s, p, T)
    BY <1>4 DEF OnlyFirst
  <1>7. Low(s, P) /\ Fed(s, P, b)  BY <1>2 DEF Core, Low, Fed
  <1>8. Plain(s, P, T)  BY <1>2, <1>4 DEF Core, Plain
  <1>9. Once(s, P, T)  BY <1>3, <1>4, <1>5, <1>6 DEF Core, Once
  <1>10. Feeds(s, P, T, b)  BY <1>2, <1>3, <1>4 DEF Core, Feeds
  <1>11. MpvExact(s, P, T, C)
    <2>1. Fired(s, P, T, C) = Fired(r, P, T, C)  BY <1>2 DEF Fired
    <2> QED  BY <1>2, <2>1 DEF Core, MpvExact
  <1>12. LitExact(s, L \cup {o})  BY <1>0, <1>2, <1>a DEF LitExact
  <1>13. Core(s, P, T, C, L \cup {o}, b)
    BY <1>2, <1>7, <1>8, <1>9, <1>10, <1>11, <1>12 DEF Core
  <1> QED  BY <1>2, <1>13, <1>a

\* What feeds the MPV has nothing to report before o, and an MPV that must be
\* caught up to make room does not overtake the other engines.
ChainReady(r, P, o) ==
    /\ \A q \in r.chained : \A n \in P[q] : o <= n
    /\ MustFlush(r.eng[MPV], o) => o <= r.minNonMpv

\* A chained literal triggers the MPV.
LEMMA CoreChain ==
    ASSUME NEW r, NEW P, NEW T, NEW C, NEW L, NEW o \in Times,
           Core(r, P, T, C, L, o), r.minNonMpv <= o, ChainReady(r, P, o)
    PROVE  LET s == roseHandleChainMatch(r, o) IN
           /\ Core(s, P, T, C \cup {o}, L, o)
           /\ s.minMatch \in {r.minMatch, o} /\ s.minNonMpv = r.minNonMpv
           /\ s.chained = r.chained /\ \A q \in Others : s.eng[q] = r.eng[q]
  <1>a. PICK s : s = roseHandleChainMatch(r, o)  OBVIOUS
  <1>0. /\ r \in Rose /\ Orderly(r) /\ Kept(P) /\ Kept(T)
        /\ r.minMatch \in Times /\ r.minNonMpv \in Times /\ r.minMatch <= r.minNonMpv
        /\ Times \subseteq Nat
    BY RoseIs, ConstantsAre DEF Core, Orderly
  <1>1. r.minMatch \in Nat /\ r.minNonMpv \in Nat /\ o \in Nat  BY <1>0
  <1>2. r.minMatch <= o  BY <1>0, <1>1
  <1>3. Within(r.eng[MPV], o)  BY DEF Core, Fed
  <1>4. /\ MpvMoved(r, s) /\ Made(s) = Made(r) \cup Spawned(MPV, o)
        /\ s.minMatch \in {r.minMatch, o}
        /\ \/ s.minNonMpv = r.minNonMpv
           \/ MustFlush(r.eng[MPV], o) /\ s.minNonMpv = Later2(r.minNonMpv, o)
        /\ Within(s.eng[MPV], o)
    BY <1>0, <1>2, <1>3, <1>a, HandleChainIs
  <1>5. s.minNonMpv = r.minNonMpv
    <2>1. MustFlush(r.eng[MPV], o) => Later2(r.minNonMpv, o) = r.minNonMpv
      BY <1>1 DEF Later2, ChainReady
    <2> QED  BY <1>4, <2>1
  <1>6. /\ s \in Rose /\ Orderly(s) /\ s.spent = r.spent /\ s.chained = r.chained
        /\ \A q \in Others : s.eng[q] = r.eng[q]
    BY <1>4 DEF MpvMoved
  <1>7. \A p, n : p # MPV => (Got(s, p, n) <=> Got(r, p, n))  BY <1>0, <1>4, GotSame
  <1>8. /\ \A p \in Single : p \in Others /\ p # MPV
        /\ \A p \in r.chained : p \in Others /\ p # MPV
        /\ \A p \in Others : p # MPV
    BY <1>0, OthersAre DEF Others
  <1>9. Low(s, P)  BY <1>5 DEF Core, Low
  <1>10. Fed(s, P, o)
    <2>1. s.eng[MPV] \in Engines  BY <1>6, MpvEngine
    <2>2. PICK e, u : e = s.eng[MPV] /\ u = e.queue  OBVIOUS
    <2>3. e.cur \in Nat /\ \A i \in DOMAIN u : u[i] \in Nat
      <3>1. e.cur \in Times /\ u \in Seq(Times)  BY <2>1, <2>2, EngineIs
      <3>2. \A i \in DOMAIN u : u[i] \in Times  BY <3>1
      <3> QED  BY <1>0, <3>1, <3>2
    <2>4. \A v \in Nat : o <= v => Within(e, v)
      <3>1. Within(e, o)  BY <1>4, <2>2
      <3> QED  BY <1>1, <2>2, <2>3, <3>1 DEF Within
    <2>5. \A p \in s.chained : \A n \in P[p] : o <= n /\ n \in Nat
      BY <1>0, <1>6, <1>8, KeptIs DEF ChainReady
    <2> QED  BY <1>4, <2>2, <2>4, <2>5 DEF Fed
  <1>11. Plain(s, P, T)  BY <1>6, <1>7, <1>8 DEF Core, Plain
  <1>12. Once(s, P, T)
    <2>1. \A p \in Single : OnlyFirst(r, p, T) => OnlyFirst(s, p, T)
      BY <1>7, <1>8 DEF OnlyFirst
    <2> QED  BY <1>6, <1>7, <1>8, <2>1 DEF Core, Once
  <1>13. Feeds(s, P, T, o)  BY <1>6, <1>7, <1>8 DEF Core, Feeds
  <1>14. MpvExact(s, P, T, C \cup {o})
    <2>1. MpvExact(r, P, T, C)  BY DEF Core
    <2>2. \A c : c \in Fired(s, P, T, C \cup {o}) <=> c \in Fired(r, P, T, C) \/ c = o
      BY <1>6 DEF Fired
    <2>3. \A n \in Times : n \in Made(s) <=> n \in Made(r) \/ n \in Spawned(MPV, o)
      BY <1>4
    <2> QED  BY <2>1, <2>2, <2>3 DEF MpvExact
  <1>15. LitExact(s, L)
    <2>1. LitExact(r, L) /\ Literal # MPV  BY ConstantsAre DEF Core
    <2> QED  BY <1>7, <2>1 DEF LitExact
  <1>16. Core(s, P, T, C \cup {o}, L, o)
    BY <1>0, <1>6, <1>9, <1>10, <1>11, <1>12, <1>13, <1>14, <1>15 DEF Core
  <1> QED  BY <1>4, <1>5, <1>6, <1>16, <1>a

\* A suffix gets a trigger: it has more to report, all of it after b.
LEMMA CoreTop ==
    ASSUME NEW r, NEW P, NEW T, NEW C, NEW L, NEW b, NEW q \in Others, NEW P2, NEW T2,
           NEW S, Core(r, P, T, C, L, b), r.minNonMpv <= b, Elsewhere(P, P2, q),
           Elsewhere(T, T2, q), P2[q] = P[q] \cup S, T2[q] = T[q] \cup S,
           \A n \in S : b < n
    PROVE  Core(r, P2, T2, C, L, b)
  <1>0. /\ r \in Rose /\ Orderly(r) /\ Kept(P) /\ Kept(T) /\ Kept(P2) /\ Kept(T2)
        /\ b \in Times /\ Times \subseteq Nat
        /\ r.minMatch \in Times /\ r.minNonMpv \in Times /\ r.minMatch <= r.minNonMpv
    BY RoseIs, ConstantsAre DEF Core, Elsewhere, Orderly
  <1>1. b \in Nat /\ r.minMatch \in Nat /\ r.minNonMpv \in Nat  BY <1>0
  <1>2. /\ \A p \in Single : p \in Others
        /\ \A p \in r.chained : p \in Others
        /\ \A p \in Others : p # q => P2[p] = P[p] /\ T2[p] = T[p]
    BY <1>0, OthersAre DEF Elsewhere
  <1>3. \A n \in S : n \in Nat /\ n \in Times /\ b < n
    <2>1. \A n \in S : n \in P2[q]  OBVIOUS
    <2> QED  BY <1>0, <2>1, KeptIs
  \* Nothing after b was reported.
  <1>4. \A n \in S : ~Got(r, q, n)
    <2> SUFFICES ASSUME NEW n \in S, Got(r, q, n) PROVE FALSE  OBVIOUS
    <2>1. PICK i \in DOMAIN r.out : r.out[i] = <<q, n>>  BY DEF Got, Range
    <2>2. r.out[i][2] <= r.minMatch  BY <1>0 DEF Orderly, OutUpTo
    <2>3. n <= r.minMatch  BY <2>1, <2>2
    <2>4. n \in Nat /\ b < n  BY <1>3
    <2> QED  BY <1>0, <1>1, <2>3, <2>4
  <1>5. Low(r, P2)
    <2>1. ASSUME NEW p \in Others, NEW n \in P2[p] PROVE r.minNonMpv <= n
      <3>1. CASE n \in P[p]  BY <3>1 DEF Core, Low
      <3>2. CASE n \notin P[p]
        <4>1. n \in S  BY <1>2, <2>1, <3>2
        <4> QED  BY <1>1, <1>3, <4>1
      <3> QED  BY <3>1, <3>2
    <2> QED  BY <2>1 DEF Low
  <1>6. Fed(r, P2, b)
    <2>1. r.eng[MPV] \in Engines  BY <1>0, MpvEngine
    <2>2. PICK e, u : e = r.eng[MPV] /\ u = e.queue  OBVIOUS
    <2>3. e.cur \in Nat /\ \A i \in DOMAIN u : u[i] \in Nat
      <3>1. e.cur \in Times /\ u \in Seq(Times)  BY <2>1, <2>2, EngineIs
      <3>2. \A i \in DOMAIN u : u[i] \in Times  BY <3>1
      <3> QED  BY <1>0, <3>1, <3>2
    <2>4. \A n \in S : Within(e, n)
      <3>1. Within(e, b)  BY <2>2 DEF Core, Fed
      <3> QED  BY <1>1, <1>3, <2>2, <2>3, <3>1 DEF Within
    <2>5. ASSUME NEW p \in r.chained, NEW n \in P2[p] PROVE Within(e, n)
      <3>1. CASE n \in P[p]  BY <2>2, <3>1 DEF Core, Fed
      <3>2. CASE n \notin P[p]  BY <1>2, <2>4, <2>5, <3>2
      <3> QED  BY <3>1, <3>2
    <2>6. Within(e, b)  BY <2>2 DEF Core, Fed
    <2> QED  BY <2>2, <2>5, <2>6 DEF Fed
  <1>7. Plain(r, P2, T2)
    <2>1. ASSUME NEW p \in Others, p \notin r.chained, p \notin Single, NEW n \in Times
          PROVE  /\ n \in T2[p] <=> Got(r, p, n) \/ n \in P2[p]
                 /\ ~(Got(r, p, n) /\ n \in P2[p])
      <3>1. /\ n \in T[p] <=> Got(r, p, n) \/ n \in P[p]
            /\ ~(Got(r, p, n) /\ n \in P[p])
        BY <2>1 DEF Core, Plain
      <3>2. CASE p = q  BY <1>4, <3>1, <3>2
      <3>3. CASE p # q  BY <1>2, <3>1, <3>3
      <3> QED  BY <3>2, <3>3
    <2> QED  BY <2>1 DEF Plain
  <1>8. Once(r, P2, T2)
    <2>1. ASSUME NEW p \in Single
          PROVE  IF p \in r.spent THEN OnlyFirst(r, p, T2)
                 ELSE P2[p] = T2[p] /\ \A n \in Times : ~Got(r, p, n)
      <3>1. IF p \in r.spent THEN OnlyFirst(r, p, T)
            ELSE P[p] = T[p] /\ \A n \in Times : ~Got(r, p, n)
        BY DEF Core, Once
      <3>2. CASE p # q
        <4>1. P2[p] = P[p] /\ T2[p] = T[p]  BY <1>2, <3>2
        <4> QED  BY <3>1, <4>1 DEF OnlyFirst
      <3>3. CASE p = q /\ p \notin r.spent  BY <3>1, <3>3
      <3>4. CASE p = q /\ p \in r.spent
        <4>1. PICK o \in T[p] : /\ \A n \in Times : Got(r, p, n) <=> n = o
                                /\ \A n \in T[p] : o <= n
          BY <3>1, <3>4 DEF OnlyFirst
        <4>2. o \in Times /\ o \in Nat  BY <1>0, <1>2, <4>1, KeptIs
        <4>3. o <= r.minMatch
          <5>1. Got(r, p, o)  BY <4>1, <4>2
          <5>2. PICK i \in DOMAIN r.out : r.out[i] = <<p, o>>  BY <5>1 DEF Got, Range
          <5>3. r.out[i][2] <= r.minMatch  BY <1>0 DEF Orderly, OutUpTo
          <5> QED  BY <5>2, <5>3
        <4>4. \A n \in S : o <= n  BY <1>0, <1>1, <1>3, <4>2, <4>3
        <4>5. o \in T2[p] /\ \A n \in T2[p] : o <= n  BY <3>4, <4>1, <4>4
        <4> QED  BY <3>4, <4>1, <4>5 DEF OnlyFirst
      <3> QED  BY <3>2, <3>3, <3>4
    <2> QED  BY <2>1 DEF Once
  <1>9. Feeds(r, P2, T2, b)
    <2>1. ASSUME NEW p \in r.chained
          PROVE  /\ \A n \in Times : ~Got(r, p, n)
                 /\ P2[p] \subseteq T2[p]
                 /\ \A n \in T2[p] : n \notin P2[p] => n <= b
      <3>1. /\ \A n \in Times : ~Got(r, p, n)
            /\ P[p] \subseteq T[p]
            /\ \A n \in T[p] : n \notin P[p] => n <= b
        BY DEF Core, Feeds
      <3>2. CASE p = q  BY <3>1, <3>2
      <3>3. CASE p # q  BY <1>2, <3>1, <3>3
      <3> QED  BY <3>2, <3>3
    <2> QED  BY <2>1 DEF Feeds
  \* A match that triggered the MPV is not found again.
  <1>10. Fired(r, P2, T2, C) = Fired(r, P, T, C)
    <2>1. \A p \in r.chained : \A c : c \in T2[p] /\ c \notin P2[p] <=> c \in T[p] /\ c \notin P[p]
      <3> SUFFICES ASSUME NEW p \in r.chained, NEW c
                   PROVE  c \in T2[p] /\ c \notin P2[p] <=> c \in T[p] /\ c \notin P[p]
        OBVIOUS
      <3>1. CASE p # q  BY <1>2, <3>1
      <3>2. CASE p = q /\ c \notin S  BY <3>2
      <3>3. CASE p = q /\ c \in S
        <4>1. c \in Nat /\ b < c  BY <1>3, <3>3
        <4>2. c \in T[p] /\ c \notin P[p] => c <= b  BY DEF Core, Feeds
        <4> QED  BY <1>1, <3>3, <4>1, <4>2
      <3> QED  BY <3>1, <3>2, <3>3
    <2> QED  BY <2>1 DEF Fired
  <1>11. MpvExact(r, P2, T2, C)  BY <1>10 DEF Core, MpvExact
  <1> QED  BY <1>0, <1>5, <1>6, <1>7, <1>8, <1>9, <1>11 DEF Core

\* The offsets that were caught up to move on; the MPV has nothing to report.
LEMMA CoreAt ==
    ASSUME NEW r, NEW P, NEW T, NEW C, NEW L, NEW b, Core(r, P, T, C, L, b),
           NEW s \in Rose, s.out = r.out, s.spent = r.spent, s.chained = r.chained,
           s.eng = r.eng, s.nextMpv \in {r.nextMpv, 0},
           s.minMatch = r.minMatch \/ (~r.eng[MPV].on /\ r.minMatch <= s.minMatch),
           s.minMatch <= s.minNonMpv,
           \A q \in Others : \A n \in P[q] : s.minNonMpv <= n
    PROVE  Core(s, P, T, C, L, b)
  <1>0. /\ r \in Rose /\ Orderly(r) /\ r.minMatch \in Times /\ s.minMatch \in Times
        /\ Times \subseteq Nat /\ r.eng[MPV] \in Engines
    BY RoseIs, ConstantsAre, MpvEngine DEF Core
  <1>1. Made(s) = Made(r)  BY DEF Made
  <1>2. OutUpTo(s.out, s.minMatch)
    <2>1. \A i \in DOMAIN r.out : r.out[i][2] <= s.minMatch
      <3> SUFFICES ASSUME NEW i \in DOMAIN r.out PROVE r.out[i][2] <= s.minMatch
        OBVIOUS
      <3>1. r.out[i] \in Reports  BY <1>0, RoseIs
      <3>2. PICK n : n = r.out[i][2]  OBVIOUS
      <3>3. n \in Nat  BY <1>0, <3>1, <3>2 DEF Reports
      <3>4. n <= r.minMatch  BY <1>0, <3>2 DEF Orderly, OutUpTo
      <3>5. r.minMatch \in Nat /\ s.minMatch \in Nat  BY <1>0
      <3>6. r.minMatch <= s.minMatch  BY <3>5
      <3> QED  BY <3>2, <3>3, <3>4, <3>5, <3>6
    <2> QED  BY <1>0, <2>1 DEF Orderly, OutUpTo
  <1>3. Due(s.eng[MPV], s.minMatch, s.nextMpv)
    <2>1. PICK e : e = r.eng[MPV]  OBVIOUS
    <2>2. CASE ~e.on  BY <2>1, <2>2 DEF Due
    <2>3. CASE e.on
      <3>1. \A m \in Met(e, Length) : m >= 0
        <4>1. e.cur \in Nat  BY <1>0, <2>1, EngineIs
        <4> QED  BY <4>1, ConstantsAre DEF Met
      <3> QED  BY <1>0, <2>1, <2>3, <3>1 DEF Due, Orderly
    <2> QED  BY <2>2, <2>3
  <1>4. Orderly(s)  BY <1>0, <1>2, <1>3 DEF Orderly
  <1>5. MpvMoved(r, s)  BY <1>4 DEF MpvMoved
  <1>6. Low(s, P)  BY DEF Low
  <1>7. Fed(s, P, b)  BY DEF Core, Fed
  <1> QED  BY <1>1, <1>5, <1>6, <1>7, CoreMove

\* The literal matcher moves on.
LEMMA CoreLater ==
    ASSUME NEW r, NEW P, NEW T, NEW C, NEW L, NEW b, Core(r, P, T, C, L, b),
           NEW c \in Times, b <= c
    PROVE  Core(r, P, T, C, L, c)
  <1>0. r \in Rose /\ b \in Nat /\ c \in Nat /\ r.eng[MPV] \in Engines /\ Kept(T)
    BY ConstantsAre, MpvEngine DEF Core
  <1>1. Fed(r, P, c)
    <2>1. PICK e, u : e = r.eng[MPV] /\ u = e.queue  OBVIOUS
    <2>2. e.cur \in Nat /\ \A i \in DOMAIN u : u[i] \in Nat
      <3>1. e.cur \in Times /\ u \in Seq(Times)  BY <1>0, <2>1, EngineIs
      <3>2. \A i \in DOMAIN u : u[i] \in Times  BY <3>1
      <3> QED  BY <3>1, <3>2, ConstantsAre
    <2>3. Within(e, c)
      <3>1. Within(e, b)  BY <2>1 DEF Core, Fed
      <3> QED  BY <1>0, <2>1, <2>2, <3>1 DEF Within
    <2> QED  BY <2>1, <2>3 DEF Core, Fed
  <1>2. Feeds(r, P, T, c)
    <2>1. Feeds(r, P, T, b)  BY DEF Core
    <2>2. \A q \in r.chained : \A n \in T[q] : n \in Nat
      BY <1>0, OthersAre, KeptIs
    <2>3. \A n \in Nat : n <= b => n <= c  BY <1>0
    <2> QED  BY <2>1, <2>2, <2>3 DEF Feeds
  <1> QED  BY <1>1, <1>2 DEF Core

----------------------------------------------------------------------------
(* The engines: what each has still to report                              *)

\* Each outfix accepts at offsets of the block.
AcceptsOK(a) == a \in [Outfix -> SUBSET (1 .. Length)]

\* Where an engine accepts, with the outfixes' offsets as a parameter.
AcceptsIn(a, q, e, o) ==
    IF q \in Outfix THEN o \in a[q] ELSE \E t \in e.tops : o - t \in Dist[q]

\* Where the engine accepts after its position.
Beyond(a, q, e) == {o \in 1 .. Length : o > e.cur /\ AcceptsIn(a, q, e, o)}

\* Where it accepts after its position or waits for its turn, at W.
Left(a, q, e, W) ==
    {o \in 1 .. Length : e.on /\ AcceptsIn(a, q, e, o) /\ (o > e.cur \/ o \in W)}

\* The offset the engine waits for in the priority queue.
WaitsFor(p, q) == {o \in 1 .. Length : Waiting(q, o) \in p}

\* What each engine has still to report.
Pending(a, r, p) == [q \in Others |-> Left(a, q, r.eng[q], WaitsFor(p, q))]

\* What is left of a queue is a queue.
LEMMA StillQueuedIs ==
    ASSUME NEW u \in Seq(Times), NEW o \in Times PROVE StillQueued(u, o) \in Seq(Times)
  <1>1. PICK I, k : I = {i \in DOMAIN u : u[i] >= o} \cup {Len(u) + 1} /\ k = Min(I)
    OBVIOUS
  <1>2. Len(u) \in Nat /\ DOMAIN u = 1 .. Len(u)  OBVIOUS
  <1>3. I \subseteq 1 .. Len(u) + 1 /\ I # {}  BY <1>1, <1>2
  <1>4. I \subseteq Nat  BY <1>2, <1>3
  <1>5. k \in I  BY <1>1, <1>3, <1>4, MinIs
  <1>6. k \in 1 .. Len(u) + 1  BY <1>3, <1>5
  <1>7. SubSeq(u, k, Len(u)) \in Seq(Times)  BY <1>2, <1>6
  <1> QED  BY <1>1, <1>7 DEF StillQueued

\* Running an engine to an offset moves its position and keeps its triggers.
LEMMA RunToIs ==
    ASSUME NEW e \in Engines, NEW o \in Times
    PROVE  /\ RunTo(e, o) \in Engines
           /\ RunTo(e, o).on = e.on /\ RunTo(e, o).cur = o /\ RunTo(e, o).tops = e.tops
  <1>1. PICK u, f : u = StillQueued(e.queue, o) /\ f = EngAt(e, o, u)  OBVIOUS
  <1>2. u \in Seq(Times) /\ o \in Times /\ f = EngAt(e, o, u)
    BY <1>1, EngineIs, StillQueuedIs
  <1>3. f \in Engines /\ f.on = e.on /\ f.cur = o /\ f.queue = u /\ f.tops = e.tops
    BY <1>2, EngineAt
  <1>4. RunTo(e, o) = f  BY <1>1 DEF RunTo, EngAt, Engines
  <1> QED  BY <1>3, <1>4

\* What an engine finds up to an offset is where it accepts after its position.
LEMMA AheadIs ==
    ASSUME NEW q \in Others, NEW e \in Engines, NEW loc \in Times
    PROVE  \A o : o \in Ahead(q, e, loc) <=> o \in Beyond(accepts, q, e) /\ o <= loc
  <1>1. e.cur \in Nat /\ loc \in Nat /\ loc <= Length /\ Length \in Nat
    BY EngineIs, ConstantsAre DEF Times
  <1>2. \A o : o \in e.cur + 1 .. loc <=> o \in 1 .. Length /\ o > e.cur /\ o <= loc
    BY <1>1
  <1>3. \A o : Accepts(q, e, o) <=> AcceptsIn(accepts, q, e, o)
    BY DEF Accepts, AcceptsIn
  <1> QED  BY <1>2, <1>3 DEF Ahead, Beyond

\* Where an engine accepts after its position lies within the block.
LEMMA BeyondIs ==
    ASSUME NEW a, NEW q, NEW e \in Engines
    PROVE  /\ Beyond(a, q, e) \subseteq 1 .. Length
           /\ \A o \in Beyond(a, q, e) : o \in Nat /\ o \in Times /\ e.cur < o
  BY EngineIs, ConstantsAre DEF Beyond, Times

\* An engine that was run to loc and found nothing.
LEMMA RunOutIs ==
    ASSUME AcceptsOK(accepts), NEW q \in Others, NEW e \in Engines, e.on,
           NEW loc \in Times, e.cur <= loc, Ahead(q, e, loc) = {}
    PROVE  LET f == RunOut(q, e, loc) IN
           /\ f \in Engines
           /\ f.on => /\ f.cur = loc /\ Beyond(accepts, q, f) = Beyond(accepts, q, e)
                      /\ \A o \in Beyond(accepts, q, f) : loc < o
                      /\ q \in Outfix => loc # Length
           /\ ~f.on => Beyond(accepts, q, e) = {}
  <1>1. PICK f, g, u : f = RunOut(q, e, loc) /\ u = <<>> /\ g = EngAt(e, loc, u)  OBVIOUS
  <1>2. u \in Seq(Times) /\ loc \in Times /\ g = EngAt(e, loc, u)  BY <1>1
  <1>3. g \in Engines /\ g.on = e.on /\ g.cur = loc /\ g.queue = u /\ g.tops = e.tops
    BY <1>2, EngineAt, ZenonT(60)
  <1>4. f = IF CanMatch(q, e, loc) THEN g ELSE Off  BY <1>1 DEF RunOut, EngAt
  <1>5. /\ loc \in Nat /\ Length \in Nat /\ e.cur \in Nat /\ e.tops \subseteq Times
        /\ Times \subseteq Nat /\ loc <= Length
    BY EngineIs, ConstantsAre DEF Times
  <1>6. \A o \in Beyond(accepts, q, e) : loc < o /\ o \in Nat
    <2>1. \A o \in Beyond(accepts, q, e) : ~(o <= loc)  BY AheadIs
    <2>2. \A o \in Beyond(accepts, q, e) : o \in Nat  BY BeyondIs
    <2> QED  BY <1>5, <2>1, <2>2
  <1>7. CASE CanMatch(q, e, loc)
    <2>1. f = g  BY <1>4, <1>7
    <2>2. \A o \in 1 .. Length : AcceptsIn(accepts, q, g, o) <=> AcceptsIn(accepts, q, e, o)
      BY <1>3 DEF AcceptsIn
    <2>3. \A o \in Beyond(accepts, q, e) : o \in Beyond(accepts, q, g)
      BY <1>3, <1>6, <2>2 DEF Beyond
    <2>4. \A o \in Beyond(accepts, q, g) : o \in Beyond(accepts, q, e)
      <3>1. \A o \in 1 .. Length : o > loc => o > e.cur  BY <1>5
      <3> QED  BY <1>3, <2>2, <3>1 DEF Beyond
    <2>5. Beyond(accepts, q, g) = Beyond(accepts, q, e)  BY <2>3, <2>4
    <2>6. q \in Outfix => loc # Length
      <3>1. q \in Outfix => accepts[q] \in SUBSET (1 .. Length)  BY DEF AcceptsOK
      <3>2. q \in Outfix => \E o \in accepts[q] : o > loc  BY <1>7 DEF CanMatch
      <3> QED  BY <1>5, <3>1, <3>2
    <2> QED  BY <1>1, <1>3, <1>6, <2>1, <2>5, <2>6
  <1>8. CASE ~CanMatch(q, e, loc)
    <2>1. f = Off  BY <1>4, <1>8
    <2>2. Beyond(accepts, q, e) = {}
      <3> SUFFICES ASSUME NEW o \in Beyond(accepts, q, e) PROVE FALSE  OBVIOUS
      <3>1. o \in Nat /\ loc < o /\ AcceptsIn(accepts, q, e, o)  BY <1>6 DEF Beyond
      <3>2. CASE q \in Outfix  BY <1>8, <3>1, <3>2 DEF AcceptsIn, CanMatch
      <3>3. CASE q \notin Outfix
        <4>1. PICK t \in e.tops : o - t \in Dist[q]  BY <3>1, <3>3 DEF AcceptsIn
        <4>2. q \in Suffix  BY <3>3, ConstantsAre
        <4>3. Dist[q] # {} /\ Dist[q] \subseteq 0 .. Length
          BY <4>2, ConstantsAre
        <4>4. PICK m : m = Max(Dist[q])  OBVIOUS
        <4>5. m \in Dist[q] /\ \A y \in Dist[q] : y <= m
          BY <1>5, <4>3, <4>4, MaxIs
        <4>6. o - t <= m /\ m \in Nat /\ t \in Nat
          <5>1. o - t <= m  BY <4>1, <4>5
          <5>2. m \in 0 .. Length  BY <4>3, <4>5
          <5>3. t \in Times  BY <1>5, <4>1
          <5> QED  BY <1>5, <5>1, <5>2, <5>3
        <4>7. ~(t + m > loc)  BY <1>8, <3>3, <4>1, <4>4 DEF CanMatch
        <4> QED  BY <1>5, <3>1, <4>6, <4>7
      <3> QED  BY <3>2, <3>3
    <2> QED  BY <1>1, <2>1, <2>2, OffIs
  <1> QED  BY <1>7, <1>8

\* The engine run to its next match up to final, and its place in the queue.
NextEngine(q, e, final) ==
    IF Ahead(q, e, final) = {} THEN RunOut(q, e, final)
    ELSE RunTo(e, Min(Ahead(q, e, final)))
NextWait(q, e, final) ==
    IF Ahead(q, e, final) = {} THEN {} ELSE {Min(Ahead(q, e, final))}

\* Run to its next match, an engine has the same matches to report as before: the
\* one it waits for, and those after it.
LEMMA NextEngineIs ==
    ASSUME AcceptsOK(accepts), NEW q \in Others, NEW e \in Engines, e.on,
           NEW final \in Times, e.cur <= final
    PROVE  LET f == NextEngine(q, e, final)
               W == NextWait(q, e, final)
           IN /\ f \in Engines /\ W \subseteq 1 .. Length
              /\ Left(accepts, q, f, W) = Beyond(accepts, q, e)
              /\ \A o \in W : /\ f.on /\ f.cur = o /\ o <= final /\ W = {o}
                              /\ AcceptsIn(accepts, q, f, o)
              /\ f.on => f.cur <= final
              /\ f.on /\ W = {} => /\ \A o \in Beyond(accepts, q, f) : final < o
                                   /\ q \in Outfix => final # Length
  <1>a. PICK f, W, A : /\ f = NextEngine(q, e, final) /\ W = NextWait(q, e, final)
                       /\ A = Ahead(q, e, final)
    OBVIOUS
  <1>0. final \in Nat  BY ConstantsAre
  <1>1. CASE A = {}
    <2>1. f = RunOut(q, e, final) /\ W = {}  BY <1>1, <1>a DEF NextEngine, NextWait
    <2>2. /\ f \in Engines
          /\ f.on => /\ f.cur = final /\ Beyond(accepts, q, f) = Beyond(accepts, q, e)
                     /\ \A o \in Beyond(accepts, q, f) : final < o
                     /\ q \in Outfix => final # Length
          /\ ~f.on => Beyond(accepts, q, e) = {}
      <3>1. Ahead(q, e, final) = {}  BY <1>1, <1>a
      <3> QED  BY <2>1, <3>1, RunOutIs
    <2>3. Left(accepts, q, f, W) = IF f.on THEN Beyond(accepts, q, f) ELSE {}
      BY <2>1 DEF Left, Beyond
    <2>4. f.on => f.cur <= final  BY <1>0, <2>2
    <2>5. Left(accepts, q, f, W) = Beyond(accepts, q, e)
      <3>1. CASE f.on  BY <2>2, <2>3, <3>1
      <3>2. CASE ~f.on  BY <2>2, <2>3, <3>2
      <3> QED  BY <3>1, <3>2
    <2> QED  BY <1>a, <2>1, <2>2, <2>4, <2>5
  <1>2. CASE A # {}
    <2>1. PICK o : o = Min(A)  OBVIOUS
    <2>2. f = RunTo(e, o) /\ W = {o}  BY <1>2, <1>a, <2>1 DEF NextEngine, NextWait
    <2>3. \A n : n \in A <=> n \in Beyond(accepts, q, e) /\ n <= final  BY <1>a, AheadIs
    <2>4. \A n \in Beyond(accepts, q, e) : n \in 1 .. Length /\ n \in Nat /\ n \in Times /\ e.cur < n
      BY BeyondIs
    <2>5. A \subseteq Nat  BY <2>3, <2>4
    <2>6. o \in A /\ \A n \in A : o <= n  BY <1>2, <2>1, <2>5, MinIs
    <2>7. /\ o \in Beyond(accepts, q, e) /\ o <= final /\ o \in Times /\ o \in Nat
          /\ o \in 1 .. Length
      BY <2>3, <2>4, <2>6
    <2>8. f \in Engines /\ f.on = e.on /\ f.cur = o /\ f.tops = e.tops
      <3>1. o \in Times /\ f = RunTo(e, o)  BY <2>2, <2>7
      <3> QED  BY <3>1, RunToIs
    <2>9. f.on  BY <2>8
    <2>10. \A n : AcceptsIn(accepts, q, f, n) <=> AcceptsIn(accepts, q, e, n)
      BY <2>8 DEF AcceptsIn
    <2>11. \A n : n \in Left(accepts, q, f, W) <=>
                  n \in 1 .. Length /\ AcceptsIn(accepts, q, e, n) /\ (n > o \/ n = o)
      BY <2>2, <2>8, <2>9, <2>10 DEF Left
    <2>12. \A n : n \in Beyond(accepts, q, e) <=>
                  n \in 1 .. Length /\ AcceptsIn(accepts, q, e, n) /\ n > e.cur
      BY DEF Beyond
    <2>13. \A n \in 1 .. Length : n > o \/ n = o => n > e.cur
      <3>1. e.cur \in Nat /\ e.cur < o  BY <2>4, <2>7, EngineIs, ConstantsAre
      <3> QED  BY <2>7, <3>1
    <2>14. \A n \in Beyond(accepts, q, e) : n > o \/ n = o
      <3>1. \A n \in Beyond(accepts, q, e) : n <= final => o <= n  BY <2>3, <2>6
      <3> QED  BY <1>0, <2>4, <2>7, <3>1
    <2>15. Left(accepts, q, f, W) = Beyond(accepts, q, e)
      BY <2>11, <2>12, <2>13, <2>14
    <2>16. AcceptsIn(accepts, q, f, o)  BY <2>7, <2>10, <2>12
    <2> QED  BY <1>a, <2>2, <2>7, <2>8, <2>9, <2>15, <2>16
  <1> QED  BY <1>1, <1>2

----------------------------------------------------------------------------
(* The engines and the priority queue                                      *)

\* One engine: W is where it waits, ny whether it has still to be run in this
\* catch-up, c whether a catch-up to b is under way.
LaneOK(a, q, e, W, b, ny, c) ==
    /\ \A o \in W : /\ e.on /\ e.cur = o /\ AcceptsIn(a, q, e, o) /\ ~ny
                    /\ ~c => q \in Outfix
                    /\ q \in Suffix => o <= b
    /\ e.on => /\ q \in Outfix => W # {} \/ ny
               /\ q \in Suffix => e.cur <= b
               /\ c /\ W = {} /\ ~ny => \A o \in Beyond(a, q, e) : b < o

\* The priority queue holds offsets of the block for engines but the MPV.
PqOK(p) == p \subseteq [q : Others, loc : 1 .. Length]

\* N: the engines that have still to be run.
Lanes(a, r, p, b, N, c) ==
    /\ AcceptsOK(a) /\ PqOK(p)
    /\ \A q \in Others : LaneOK(a, q, r.eng[q], WaitsFor(p, q), b, q \in N, c)

\* What is still to be reported, engine by engine.
LEMMA PendingIs ==
    ASSUME NEW a, NEW r, NEW p
    PROVE  /\ Kept(Pending(a, r, p))
           /\ \A q \in Others : Pending(a, r, p)[q] = Left(a, q, r.eng[q], WaitsFor(p, q))
  BY DEF Kept, Pending, Left

\* What is in the priority queue, engine by engine.
LEMMA WaitingIs ==
    ASSUME NEW p, PqOK(p)
    PROVE  /\ \A x \in p : /\ x.q \in Others /\ x.loc \in 1 .. Length
                           /\ x = Waiting(x.q, x.loc) /\ x.loc \in WaitsFor(p, x.q)
           /\ \A q, o : o \in WaitsFor(p, q) => Waiting(q, o) \in p
           /\ \A q, o : Waiting(q, o).q = q /\ Waiting(q, o).loc = o
  <1>1. \A q, o : Waiting(q, o).q = q /\ Waiting(q, o).loc = o  BY DEF Waiting
  <1>2. ASSUME NEW x \in p
        PROVE  /\ x.q \in Others /\ x.loc \in 1 .. Length
               /\ x = Waiting(x.q, x.loc) /\ x.loc \in WaitsFor(p, x.q)
    <2>1. x \in [q : Others, loc : 1 .. Length]  BY DEF PqOK
    <2>2. x.q \in Others /\ x.loc \in 1 .. Length /\ x = Waiting(x.q, x.loc)
      BY <2>1 DEF Waiting
    <2>3. x.loc \in WaitsFor(p, x.q)
      <3>1. Waiting(x.q, x.loc) \in p  BY <2>2
      <3> QED  BY <2>2, <3>1 DEF WaitsFor
    <2> QED  BY <2>2, <2>3
  <1> QED  BY <1>1, <1>2 DEF WaitsFor

\* What an engine has still to report: where it waits, and what comes after.
LEMMA LeftIs ==
    ASSUME NEW a, NEW q \in Others, NEW e \in Engines, NEW W \in SUBSET (1 .. Length),
           NEW b, NEW ny, NEW c, LaneOK(a, q, e, W, b, ny, c)
    PROVE  /\ e.on => Left(a, q, e, W) = Beyond(a, q, e) \cup W
           /\ ~e.on => Left(a, q, e, W) = {}
           /\ ny => W = {}
           /\ \A o, n \in W : o = n
           /\ \A o \in W : \A n \in Left(a, q, e, W) : o <= n
  <1>1. \A o \in W : e.on /\ e.cur = o /\ AcceptsIn(a, q, e, o) /\ ~ny  BY DEF LaneOK
  <1>2. \A o : o \in Beyond(a, q, e) <=> o \in 1 .. Length /\ o > e.cur /\ AcceptsIn(a, q, e, o)
    BY DEF Beyond
  <1>3. \A o : o \in Left(a, q, e, W) <=>
               o \in 1 .. Length /\ e.on /\ AcceptsIn(a, q, e, o) /\ (o > e.cur \/ o \in W)
    BY DEF Left
  <1>4. \A o \in W : \A n \in Left(a, q, e, W) : o <= n
    <2> SUFFICES ASSUME NEW o \in W, NEW n \in Left(a, q, e, W) PROVE o <= n
      OBVIOUS
    <2>1. e.cur = o /\ o \in Nat  BY <1>1, ConstantsAre
    <2>2. n \in Nat /\ (n > o \/ n = o)
      <3>1. n \in 1 .. Length /\ (n > e.cur \/ n \in W)  BY <1>3
      <3>2. n \in W => n = o  BY <1>1
      <3> QED  BY <2>1, <3>1, <3>2, ConstantsAre
    <2> QED  BY <2>1, <2>2
  <1> QED  BY <1>1, <1>2, <1>3, <1>4

\* During a catch-up an engine that was run has nothing before the earliest
\* match in the queue, or before the offset that is caught up to.
LEMMA PendingFrom ==
    ASSUME NEW a, NEW r \in Rose, NEW p, NEW b \in Times, NEW N, Lanes(a, r, p, b, N, TRUE),
           NEW v \in Times, v <= b, \A x \in p : v <= x.loc,
           NEW q \in Others, q \notin N, NEW o \in Pending(a, r, p)[q]
    PROVE  v <= o
  <1>1. PICK e, W : e = r.eng[q] /\ W = WaitsFor(p, q)  OBVIOUS
  <1>2. /\ e \in Engines /\ W \in SUBSET (1 .. Length)
        /\ LaneOK(a, q, e, W, b, q \in N, TRUE) /\ PqOK(p)
    <2>1. e \in Engines  BY <1>1, RoseIs, ConstantsAre
    <2>2. W \in SUBSET (1 .. Length)  BY <1>1 DEF WaitsFor
    <2>3. LaneOK(a, q, r.eng[q], WaitsFor(p, q), b, q \in N, TRUE)  BY DEF Lanes
    <2> QED  BY <1>1, <2>1, <2>2, <2>3 DEF Lanes
  <1>3. o \in Left(a, q, e, W)  BY <1>1, PendingIs
  <1>4. e.on  BY <1>3 DEF Left
  <1>5. o \in Nat /\ b \in Nat /\ v \in Nat
    <2>1. o \in 1 .. Length  BY <1>3 DEF Left
    <2> QED  BY <2>1, ConstantsAre
  <1>6. CASE W # {}
    <2>1. PICK w \in W : TRUE  BY <1>6
    <2>2. w <= o  BY <1>2, <1>3, LeftIs
    <2>3. v <= w
      <3>1. Waiting(q, w) \in p /\ Waiting(q, w).loc = w
        BY <1>1, <1>2, <2>1, WaitingIs
      <3> QED  BY <3>1
    <2>4. w \in Nat  BY <1>2, ConstantsAre
    <2> QED  BY <1>5, <2>2, <2>3, <2>4
  <1>7. CASE W = {}
    <2>1. q \notin Outfix  BY <1>2, <1>4, <1>7 DEF LaneOK
    <2>2. \A n \in Beyond(a, q, e) : b < n  BY <1>2, <1>4, <1>7 DEF LaneOK
    <2>3. Left(a, q, e, W) = Beyond(a, q, e)  BY <1>4, <1>7 DEF Left, Beyond
    <2> QED  BY <1>3, <1>5, <2>2, <2>3
  <1> QED  BY <1>6, <1>7

\* A step of one engine.
LEMMA LanesStep ==
    ASSUME NEW a, NEW r, NEW s, NEW p, NEW p2, NEW b, NEW N, NEW N2, NEW c, NEW q \in Others,
           Lanes(a, r, p, b, N, c), PqOK(p2),
           \A x \in Others : x # q => /\ s.eng[x] = r.eng[x]
                                      /\ WaitsFor(p2, x) = WaitsFor(p, x)
                                      /\ x \in N2 <=> x \in N,
           LaneOK(a, q, s.eng[q], WaitsFor(p2, q), b, q \in N2, c)
    PROVE  /\ Lanes(a, s, p2, b, N2, c)
           /\ Elsewhere(Pending(a, r, p), Pending(a, s, p2), q)
  <1>1. ASSUME NEW x \in Others
        PROVE  LaneOK(a, x, s.eng[x], WaitsFor(p2, x), b, x \in N2, c)
    <2>1. CASE x = q  BY <2>1
    <2>2. CASE x # q
      <3>1. LaneOK(a, x, r.eng[x], WaitsFor(p, x), b, x \in N, c)  BY DEF Lanes
      <3> QED  BY <2>2, <3>1
    <2> QED  BY <2>1, <2>2
  <1>2. \A x \in Others : x # q => Pending(a, s, p2)[x] = Pending(a, r, p)[x]
    BY PendingIs
  <1>3. Kept(Pending(a, s, p2))  BY PendingIs
  <1>4. AcceptsOK(a)  BY DEF Lanes
  <1>5. Lanes(a, s, p2, b, N2, c)  BY <1>1, <1>4 DEF Lanes
  <1> QED  BY <1>2, <1>3, <1>5 DEF Elsewhere

----------------------------------------------------------------------------
(* A catch-up starts                                                       *)

\* Lanes and Pending depend on the engines of the record alone, without the MPV.
LEMMA LanesSame ==
    ASSUME NEW a, NEW r, NEW s, NEW p, NEW b, NEW N, NEW c,
           \A q \in Others : s.eng[q] = r.eng[q]
    PROVE  /\ Lanes(a, r, p, b, N, c) => Lanes(a, s, p, b, N, c)
           /\ Pending(a, s, p) = Pending(a, r, p)
  BY DEF Lanes, Pending

\* The engines still to be run, by phase.
NotYetAt(c, t, r) ==
    IF c = "build" THEN {t} \cup {q \in Suffix : q > t /\ r.eng[q].on}
    ELSE IF c = "blast" THEN {t} ELSE {}

\* Nothing pending up to where the engines were caught up to.
Strict(r, P) == \A q \in Others : \A n \in P[q] : r.minNonMpv < n

\* The suffix whose turn it is.
TurnAt(c, t, k, r) ==
    /\ c = "build" => t \in Suffix /\ r.eng[t].on /\ k = r.minNonMpv /\ r.minMatch = k
    /\ c = "blast" => t \in Others /\ r.eng[t].on

\* What a catch-up of r to o leads to at once: it is over or under way.
CatchUp(o, T, C, L) ==
    /\ pc' \in {"resume", "nfas", "build"} /\ pq' = pq
    /\ Core(rose', Pending(accepts, rose', pq), T, C, L, o)
    /\ Lanes(accepts, rose', pq, o, NotYetAt(pc', turn', rose'), pc' # "resume")
    /\ rose'.minNonMpv <= o
    /\ pc' = "resume" => Strict(rose', Pending(accepts, rose', pq))
    /\ pc' = "build" => TurnAt("build", turn', okLoc', rose')

\* Nothing has to be caught up.
LEMMA ResumeIs ==
    ASSUME NEW r, NEW o, NEW T, NEW C, NEW L, Resume(r),
           Core(r, Pending(accepts, r, pq), T, C, L, o), Strict(r, Pending(accepts, r, pq)),
           Lanes(accepts, r, pq, o, {}, FALSE), r.minNonMpv <= o
    PROVE  CatchUp(o, T, C, L) /\ pc' = "resume" /\ rose' = r
  <1>1. rose' = r /\ pc' = "resume" /\ pq' = pq  BY DEF Resume
  <1>2. NotYetAt(pc', turn', rose') = {}  BY <1>1 DEF NotYetAt
  <1>3. (pc' # "resume") = FALSE  BY <1>1
  <1> QED  BY <1>1, <1>2, <1>3 DEF CatchUp

\* buildSufPQ starts from engines that are caught up so far.
LEMMA BeginIs ==
    ASSUME NEW r, NEW o, NEW how, NEW T, NEW C, NEW L, Begin(r, how),
           Core(r, Pending(accepts, r, pq), T, C, L, o), Strict(r, Pending(accepts, r, pq)),
           Lanes(accepts, r, pq, o, {}, FALSE), r.minNonMpv < o
    PROVE  /\ CatchUp(o, T, C, L) /\ pc' # "resume" /\ upTo' = how
           /\ rose'.chained = r.chained
  <1>0. /\ r \in Rose /\ Orderly(r) /\ o \in Times /\ o \in Nat /\ o <= Length
        /\ r.minMatch \in Times /\ r.minNonMpv \in Times /\ r.minMatch <= r.minNonMpv
        /\ r.minMatch \in Nat /\ r.minNonMpv \in Nat /\ Length \in Nat
    BY RoseIs, ConstantsAre DEF Core, Orderly, Times
  <1>a. PICK live, P : /\ live = {q \in Suffix : r.eng[q].on}
                       /\ P = Pending(accepts, r, pq)
    OBVIOUS
  \* No suffix waits outside a catch-up.
  <1>1. Lanes(accepts, r, pq, o, live, TRUE)
    <2>1. ASSUME NEW q \in Others
          PROVE  LaneOK(accepts, q, r.eng[q], WaitsFor(pq, q), o, q \in live, TRUE)
      <3>1. LaneOK(accepts, q, r.eng[q], WaitsFor(pq, q), o, FALSE, FALSE)
        <4>1. LaneOK(accepts, q, r.eng[q], WaitsFor(pq, q), o, q \in {}, FALSE)
          BY DEF Lanes
        <4>2. (q \in {}) = FALSE  OBVIOUS
        <4> QED  BY <4>1, <4>2
      <3>2. q \in Outfix => q \notin live  BY <1>a, ConstantsAre
      <3>3. q \in Suffix /\ r.eng[q].on => q \in live  BY <1>a
      <3>4. q \in Outfix \/ q \in Suffix  BY ConstantsAre
      <3> QED  BY <3>1, <3>2, <3>3, <3>4 DEF LaneOK
    <2> QED  BY <2>1 DEF Lanes
  <1>2. CASE live = {}
    <2>1. pc' = "nfas" /\ rose' = r /\ pq' = pq /\ upTo' = how
      BY <1>2, <1>a DEF Begin
    <2>2. NotYetAt(pc', turn', rose') = live  BY <1>2, <2>1 DEF NotYetAt
    <2>3. (pc' # "resume") = TRUE  BY <2>1
    <2>4. r.minNonMpv <= o  BY <1>0
    <2> QED  BY <1>1, <2>1, <2>2, <2>3, <2>4 DEF CatchUp
  <1>3. CASE live # {}
    <2>1. PICK s, k, t : s = roseCatchUpMPV(r, k) /\ k = r.minNonMpv + 1 /\ t = Min(live)
      OBVIOUS
    <2>2. pc' = "build" /\ rose' = s /\ pq' = pq /\ upTo' = how /\ turn' = t /\ okLoc' = k
      BY <1>3, <1>a, <2>1 DEF Begin
    <2>3. k \in Nat /\ k \in Times /\ k <= o /\ r.minMatch <= k /\ Later2(r.minNonMpv, k) = k
      BY <1>0, <2>1 DEF Times, Later2
    <2>4. \A q \in Others : \A n \in P[q] : k <= n
      <3>1. \A q \in Others : \A n \in P[q] : r.minNonMpv < n  BY <1>a DEF Strict
      <3>2. \A q \in Others : \A n \in P[q] : n \in Nat  BY <1>a, PendingIs, KeptIs
      <3>3. \A n \in Nat : r.minNonMpv < n => k <= n  BY <1>0, <2>1
      <3> QED  BY <3>1, <3>2, <3>3
    <2>5. /\ Core(s, P, T, C, L, o)
          /\ s.minMatch = k /\ s.minNonMpv = k
          /\ s.chained = r.chained
          /\ \A q \in Others : s.eng[q] = r.eng[q]
      <3>1. Core(r, P, T, C, L, o)  BY <1>a
      <3>2. /\ Core(s, P, T, C, L, o)
            /\ s.minMatch = k /\ s.minNonMpv = Later2(r.minNonMpv, k)
            /\ s.spent = r.spent /\ s.chained = r.chained
            /\ \A q \in Others : s.eng[q] = r.eng[q]
        BY <2>1, <2>3, <2>4, <3>1, CoreCatchMpv
      <3> QED  BY <2>3, <3>2
    <2>6. Pending(accepts, s, pq) = P /\ Lanes(accepts, s, pq, o, live, TRUE)
      BY <1>1, <1>a, <2>5, LanesSame
    <2>7. t \in live /\ \A q \in live : t <= q
      <3>1. live \subseteq Nat  BY <1>a, ConstantsAre DEF Suffix
      <3> QED  BY <1>3, <2>1, <3>1, MinIs
    <2>8. t \in Suffix /\ s.eng[t].on
      BY <1>a, <2>5, <2>7, ConstantsAre
    <2>9. NotYetAt("build", t, s) = live
      <3>1. \A q \in Suffix : s.eng[q] = r.eng[q] /\ q \in Int
        BY <2>5, ConstantsAre DEF Suffix
      <3>2. \A q \in live : q = t \/ q > t  BY <1>a, <2>7, <3>1
      <3> QED  BY <1>a, <2>7, <3>1, <3>2 DEF NotYetAt
    <2>10. NotYetAt(pc', turn', rose') = live /\ (pc' # "resume") = TRUE  BY <2>2, <2>9
    <2>11. TurnAt("build", turn', okLoc', rose')  BY <2>2, <2>5, <2>8 DEF TurnAt
    <2> QED  BY <2>2, <2>3, <2>5, <2>6, <2>10, <2>11 DEF CatchUp
  <1> QED  BY <1>2, <1>3

\* The record with the two offsets replaced.
BoundsAt(r, m, n) == [r EXCEPT !.minMatch = m, !.minNonMpv = n]

\* New offsets change those two fields only.
LEMMA WithBounds ==
    ASSUME NEW r \in Rose, NEW m \in Times, NEW n \in Times
    PROVE  /\ BoundsAt(r, m, n) \in Rose
           /\ BoundsAt(r, m, n).minMatch = m
           /\ BoundsAt(r, m, n).minNonMpv = n
           /\ BoundsAt(r, m, n).nextMpv = r.nextMpv
           /\ BoundsAt(r, m, n).out = r.out
           /\ BoundsAt(r, m, n).spent = r.spent
           /\ BoundsAt(r, m, n).chained = r.chained
           /\ BoundsAt(r, m, n).eng = r.eng
  BY DEF Rose, BoundsAt

\* No engine is on: the offsets move on.
LEMMA IdleIs ==
    ASSUME NEW r, NEW o, NEW m, NEW T, NEW C, NEW L, Resume(BoundsAt(r, m, o)),
           Core(r, Pending(accepts, r, pq), T, C, L, o),
           Lanes(accepts, r, pq, o, {}, FALSE), r.minNonMpv <= o,
           r.eng = rose.eng, ~AnyOn, m \in {r.minMatch, o}
    PROVE  /\ CatchUp(o, T, C, L) /\ pc' = "resume" /\ rose'.chained = r.chained
           /\ rose'.minMatch = m /\ rose'.minNonMpv = o
  <1>a. PICK s, P : s = BoundsAt(r, m, o) /\ P = Pending(accepts, r, pq)  OBVIOUS
  <1>0. /\ r \in Rose /\ Orderly(r) /\ o \in Times /\ o \in Nat
        /\ r.minMatch \in Times /\ r.minNonMpv \in Times /\ r.minMatch <= r.minNonMpv
        /\ r.minMatch \in Nat /\ r.minNonMpv \in Nat
    BY RoseIs, ConstantsAre DEF Core, Orderly
  <1>1. /\ s \in Rose /\ s.minMatch = m /\ s.minNonMpv = o /\ s.nextMpv = r.nextMpv
        /\ s.out = r.out /\ s.spent = r.spent /\ s.chained = r.chained /\ s.eng = r.eng
    <2>1. r \in Rose /\ m \in Times /\ o \in Times /\ s = BoundsAt(r, m, o)  BY <1>0, <1>a
    <2> QED  BY <2>1, WithBounds
  <1>2. \A q \in Engine : ~r.eng[q].on  BY DEF AnyOn
  <1>3. \A q \in Others : P[q] = {}
    <2>1. \A q \in Others : ~r.eng[q].on  BY <1>2, ConstantsAre
    <2> QED  BY <1>a, <2>1, PendingIs DEF Left
  <1>4. Core(s, P, T, C, L, o)
    <2>1. Core(r, P, T, C, L, o)  BY <1>a
    <2>2. ~r.eng[MPV].on  BY <1>2, ConstantsAre
    <2>3. r.minMatch <= s.minMatch /\ s.minMatch <= s.minNonMpv
      BY <1>0, <1>1
    <2>4. \A q \in Others : \A n \in P[q] : s.minNonMpv <= n  BY <1>3
    <2>5. s.nextMpv \in {r.nextMpv, 0}  BY <1>1
    <2> QED  BY <1>1, <2>1, <2>2, <2>3, <2>4, <2>5, CoreAt
  <1>5. Pending(accepts, s, pq) = P /\ Lanes(accepts, s, pq, o, {}, FALSE)
    BY <1>1, <1>a, LanesSame, ZenonT(60)
  <1>6. Strict(s, P)  BY <1>3 DEF Strict
  <1>7. Resume(s) /\ s.minNonMpv <= o  BY <1>0, <1>1, <1>a
  <1>8. CatchUp(o, T, C, L) /\ pc' = "resume" /\ rose' = s
    BY <1>4, <1>5, <1>6, <1>7, ResumeIs
  <1> QED  BY <1>1, <1>8

\* roseCatchUpTo starts a catch-up, or has caught up to the offset already.
LEMMA CatchUpToIs ==
    ASSUME NEW r, NEW o, NEW T, NEW C, NEW L, roseCatchUpTo(r, o),
           Core(r, Pending(accepts, r, pq), T, C, L, o), Strict(r, Pending(accepts, r, pq)),
           Lanes(accepts, r, pq, o, {}, FALSE), r.minNonMpv <= o, r.eng = rose.eng
    PROVE  /\ CatchUp(o, T, C, L) /\ rose'.chained = r.chained
           /\ pc' = "resume" => rose'.minMatch = o
           /\ pc' # "resume" => upTo' = "all"
  <1>0. /\ r \in Rose /\ Orderly(r) /\ o \in Times /\ o \in Nat
        /\ r.minMatch \in Times /\ r.minNonMpv \in Times /\ r.minMatch <= r.minNonMpv
        /\ r.minMatch \in Nat /\ r.minNonMpv \in Nat
    BY RoseIs, ConstantsAre DEF Core, Orderly
  <1>1. CASE o <= r.minMatch /\ Resume(r)
    <2>1. r.minMatch = o  BY <1>0, <1>1
    <2>2. CatchUp(o, T, C, L) /\ pc' = "resume" /\ rose' = r  BY <1>1, ResumeIs
    <2> QED  BY <2>1, <2>2
  <1>2. CASE o > r.minMatch /\ o <= r.minNonMpv /\ Resume(roseCatchUpMPV(r, o))
    <2>1. PICK s, P : s = roseCatchUpMPV(r, o) /\ P = Pending(accepts, r, pq)  OBVIOUS
    <2>2. r.minNonMpv = o /\ Later2(r.minNonMpv, o) = o /\ r.minMatch <= o
      BY <1>0, <1>2 DEF Later2
    <2>3. \A q \in Others : \A n \in P[q] : o <= n
      <3>1. \A q \in Others : \A n \in P[q] : o < n  BY <2>1, <2>2 DEF Strict
      <3>2. \A q \in Others : \A n \in P[q] : n \in Nat  BY <2>1, PendingIs, KeptIs
      <3> QED  BY <1>0, <3>1, <3>2
    <2>4. /\ Core(s, P, T, C, L, o)
          /\ s.minMatch = o /\ s.minNonMpv = o
          /\ s.chained = r.chained
          /\ \A q \in Others : s.eng[q] = r.eng[q]
      <3>1. Core(r, P, T, C, L, o) /\ o <= o  BY <1>0, <2>1
      <3>2. /\ Core(s, P, T, C, L, o)
            /\ s.minMatch = o /\ s.minNonMpv = Later2(r.minNonMpv, o)
            /\ s.spent = r.spent /\ s.chained = r.chained
            /\ \A q \in Others : s.eng[q] = r.eng[q]
        BY <1>0, <2>1, <2>2, <2>3, <3>1, CoreCatchMpv
      <3> QED  BY <2>2, <3>2
    <2>5. Pending(accepts, s, pq) = P /\ Lanes(accepts, s, pq, o, {}, FALSE)
      BY <2>1, <2>4, LanesSame
    <2>6. Strict(s, P) /\ Resume(s) /\ s.minNonMpv <= o
      BY <1>0, <1>2, <2>1, <2>2, <2>4 DEF Strict
    <2>7. CatchUp(o, T, C, L) /\ pc' = "resume" /\ rose' = s
      BY <2>4, <2>5, <2>6, ResumeIs
    <2> QED  BY <2>4, <2>7
  <1>3. CASE o > r.minNonMpv /\ ~AnyOn
             /\ Resume([r EXCEPT !.minMatch = o, !.minNonMpv = o])
    <2>1. Resume(BoundsAt(r, o, o))  BY <1>3 DEF BoundsAt
    <2>2. o \in {r.minMatch, o}  OBVIOUS
    <2>3. /\ CatchUp(o, T, C, L) /\ pc' = "resume" /\ rose'.chained = r.chained
          /\ rose'.minMatch = o /\ rose'.minNonMpv = o
      BY <1>3, <2>1, <2>2, IdleIs
    <2> QED  BY <2>3
  <1>4. CASE o > r.minNonMpv /\ AnyOn /\ Begin(r, "all")
    <2>1. r.minNonMpv < o  BY <1>0, <1>4
    <2>2. /\ CatchUp(o, T, C, L) /\ pc' # "resume" /\ upTo' = "all"
          /\ rose'.chained = r.chained
      BY <1>4, <2>1, BeginIs
    <2> QED  BY <2>2
  <1> QED  BY <1>1, <1>2, <1>3, <1>4 DEF roseCatchUpTo

\* roseCatchUpMpvFeeders starts one, or all that feeds the MPV was caught up.
LEMMA CatchUpFeedersIs ==
    ASSUME NEW r, NEW o, NEW T, NEW C, NEW L, roseCatchUpMpvFeeders(r, o),
           Core(r, Pending(accepts, r, pq), T, C, L, o), Strict(r, Pending(accepts, r, pq)),
           Lanes(accepts, r, pq, o, {}, FALSE), r.minNonMpv <= o, r.eng = rose.eng
    PROVE  /\ CatchUp(o, T, C, L) /\ rose'.chained = r.chained
           /\ pc' = "resume" => Chained = {} \/ rose'.minNonMpv = o
  <1>0. /\ r \in Rose /\ o \in Times /\ o \in Nat
        /\ r.minMatch \in Times /\ r.minNonMpv \in Times /\ r.minNonMpv \in Nat
    BY RoseIs, ConstantsAre DEF Core
  <1>1. CASE (o <= r.minNonMpv \/ Chained = {}) /\ Resume(r)
    <2>1. r.minNonMpv = o \/ Chained = {}  BY <1>0, <1>1
    <2>2. CatchUp(o, T, C, L) /\ pc' = "resume" /\ rose' = r  BY <1>1, ResumeIs
    <2> QED  BY <2>1, <2>2
  <1>2. CASE o > r.minNonMpv /\ Chained # {} /\ ~AnyOn
             /\ Resume([r EXCEPT !.minNonMpv = o])
    <2>1. PICK m : m = r.minMatch  OBVIOUS
    <2>2. BoundsAt(r, m, o) = [r EXCEPT !.minNonMpv = o]
      BY <1>0, <2>1 DEF BoundsAt, Rose
    <2>3. Resume(BoundsAt(r, m, o))  BY <1>2, <2>2
    <2>4. m \in {r.minMatch, o}  BY <2>1
    <2>5. /\ CatchUp(o, T, C, L) /\ pc' = "resume" /\ rose'.chained = r.chained
          /\ rose'.minMatch = m /\ rose'.minNonMpv = o
      BY <1>2, <2>3, <2>4, IdleIs
    <2> QED  BY <2>5
  <1>3. CASE o > r.minNonMpv /\ Chained # {} /\ AnyOn /\ Begin(r, "feeders")
    <2>1. r.minNonMpv < o  BY <1>0, <1>3
    <2>2. /\ CatchUp(o, T, C, L) /\ pc' # "resume" /\ upTo' = "feeders"
          /\ rose'.chained = r.chained
      BY <1>3, <2>1, BeginIs
    <2> QED  BY <2>2
  <1> QED  BY <1>1, <1>2, <1>3 DEF roseCatchUpMpvFeeders

----------------------------------------------------------------------------
(* The inductive invariant                                                 *)

\* A catch-up is under way.
Catching == pc \in {"build", "blast", "nfas"}

\* The literals whose program has run.
Handled == IF pc \in {"scan", "done"} THEN lits ELSE lits \ {job}

\* What the patterns match once the literals H were handled.
TrueOf(a, H) ==
    [q \in Others |-> {o \in 1 .. Length :
        IF q \in Outfix THEN o \in a[q]
        ELSE \E l \in H : l.kind = "suffix" /\ l.q = q /\ o - l.off \in Dist[q]}]
\* The offsets at which the literals H triggered the MPV and reported.
ChainAt(H) == {l.off : l \in {x \in H : x.kind = "chain"}}
ReportAt(H) == {l.off : l \in {x \in H : x.kind = "report"}}

\* A literal match.
LitOK(l) ==
    /\ l \in [kind : {"report", "chain", "suffix"}, off : 1 .. Length, q : 0 .. QueueCount]
    /\ l.kind = "report" => l.q = Literal
    /\ l.kind = "chain" => l.q = MPV
    /\ l.kind = "suffix" => l.q \in Suffix

\* The literal being handled and how far a catch-up for it has got.
JobOK ==
    /\ job.off \in Times /\ rose.minNonMpv <= job.off
    /\ \A l \in lits : LitOK(l) /\ l.off <= job.off
    /\ pc \in {"scan", "done", "resume", "build", "blast", "nfas"}
    /\ pc \notin {"scan", "done"} => job.kind = "end" \/ job \in lits
    /\ job.kind = "end" => job.off = Length
    /\ Catching /\ job.kind # "chain" => upTo = "all"
    /\ pc = "resume" /\ job.kind \in {"report", "end"} => rose.minMatch = job.off
    /\ pc = "resume" /\ job.kind = "chain" => Chained = {} \/ rose.minNonMpv = job.off
    /\ pc = "done" => rose.minMatch = Length

\* The inductive invariant.
IInv ==
    /\ Core(rose, Pending(accepts, rose, pq), TrueOf(accepts, Handled), ChainAt(Handled),
            ReportAt(Handled), job.off)
    /\ Lanes(accepts, rose, pq, job.off, NotYetAt(pc, turn, rose), Catching)
    /\ ~Catching => Strict(rose, Pending(accepts, rose, pq))
    /\ TurnAt(pc, turn, okLoc, rose)
    /\ JobOK

\* An outfix whose first match was found waits for its turn.
LEMMA FirstFound ==
    ASSUME NEW a, AcceptsOK(a), NEW q \in Outfix, a[q] # {}
    PROVE  LET o == Min(a[q])
               e == [Started(o) EXCEPT !.tops = {0}]
           IN /\ o \in 1 .. Length /\ o \in a[q]
              /\ e \in Engines /\ e.on /\ e.cur = o
              /\ Left(a, q, e, {o}) = a[q]
  <1>a. PICK o, t, f, e : /\ o = Min(a[q]) /\ t = {0} /\ f = Started(o)
                          /\ e = Topped(f, f.queue, t)
    OBVIOUS
  <1>1. a[q] \subseteq 1 .. Length  BY DEF AcceptsOK
  <1>2. o \in a[q] /\ \A n \in a[q] : o <= n
    <2>1. a[q] \subseteq Nat  BY <1>1
    <2> QED  BY <1>a, <2>1, MinIs
  <1>3. o \in 1 .. Length /\ o \in Nat /\ o \in Times  BY <1>1, <1>2, ConstantsAre DEF Times
  <1>4. f \in Engines /\ f.on /\ f.cur = o  BY <1>3, <1>a, OffIs
  <1>5. t \in SUBSET Times  BY <1>a, ConstantsAre DEF Times
  <1>6. e \in Engines /\ e.on = f.on /\ e.cur = f.cur
    <2>1. PICK u : u = f.queue  OBVIOUS
    <2>2. u \in Seq(Times) /\ e = Topped(f, u, t)  BY <1>4, <1>a, <2>1, EngineIs
    <2>3. f \in Engines /\ u \in Seq(Times) /\ t \in SUBSET Times /\ e = Topped(f, u, t)
      BY <1>4, <1>5, <2>2
    <2> QED  BY <2>3, ToppedIs
  <1>7. [f EXCEPT !.tops = t] = e  BY <1>4, <1>a DEF Topped, Engines
  <1>8. Left(a, q, e, {o}) = a[q]
    <2>1. \A n : n \in Left(a, q, e, {o}) <=> n \in 1 .. Length /\ n \in a[q] /\ (n > o \/ n = o)
      BY <1>4, <1>6 DEF Left, AcceptsIn
    <2>2. \A n \in a[q] : n \in 1 .. Length /\ (n > o \/ n = o)  BY <1>1, <1>2, <1>3
    <2> QED  BY <2>1, <2>2
  <1> QED  BY <1>2, <1>3, <1>4, <1>6, <1>7, <1>8, <1>a

\* It holds when a block starts.
LEMMA InitInv == Init => IInv
  <1> SUFFICES ASSUME Init PROVE IInv  OBVIOUS
  <1>1. AcceptsOK(accepts)  BY DEF Init, AcceptsOK
  <1>2. PICK chained \in Feeders :
          /\ rose = [eng |-> [q \in Engine |->
                                IF q \in {p \in Outfix : accepts[p] # {}}
                                THEN [Started(Min(accepts[q])) EXCEPT !.tops = {0}]
                                ELSE Off],
                     minMatch |-> 0, minNonMpv |-> 0, nextMpv |-> 0,
                     out |-> <<>>, spent |-> {}, chained |-> chained]
          /\ pq = {Waiting(q, Min(accepts[q])) : q \in {p \in Outfix : accepts[p] # {}}}
    BY DEF Init
  <1>3. /\ pc = "scan" /\ job = NoJob /\ lits = {} /\ job.off = 0
        /\ Handled = {} /\ ~Catching /\ NotYetAt(pc, turn, rose) = {}
    BY DEF Init, NoJob, Handled, Catching, NotYetAt
  <1>4. /\ rose.minMatch = 0 /\ rose.minNonMpv = 0 /\ rose.nextMpv = 0
        /\ rose.out = <<>> /\ rose.spent = {} /\ rose.chained \in Feeders
        /\ \A q \in Engine : rose.eng[q] = IF q \in Outfix /\ accepts[q] # {}
                                           THEN [Started(Min(accepts[q])) EXCEPT !.tops = {0}]
                                           ELSE Off
    BY <1>2
  <1>5. 0 \in Times /\ 0 \in 0 .. Length + 1  BY ConstantsAre DEF Times
  <1>6. \A q \in Engine : rose.eng[q] \in Engines
    <2> SUFFICES ASSUME NEW q \in Engine PROVE rose.eng[q] \in Engines  OBVIOUS
    <2>1. CASE q \in Outfix /\ accepts[q] # {}
      <3>1. PICK e : e = [Started(Min(accepts[q])) EXCEPT !.tops = {0}]  OBVIOUS
      <3>2. e \in Engines  BY <1>1, <2>1, <3>1, FirstFound
      <3> QED  BY <1>4, <2>1, <3>1, <3>2
    <2>2. CASE ~(q \in Outfix /\ accepts[q] # {})
      <3>1. rose.eng[q] = Off  BY <1>4, <2>2
      <3> QED  BY <3>1, OffIs
    <2> QED  BY <2>1, <2>2
  <1>7. rose \in Rose
    <2>1. rose.eng \in [Engine -> Engines]  BY <1>2, <1>6
    <2>2. <<>> \in Seq(Reports)  OBVIOUS
    <2>3. PICK F : F = rose.eng  OBVIOUS
    <2>4. PICK ch : ch = rose.chained  OBVIOUS
    <2>5. rose = [eng |-> F, minMatch |-> 0, minNonMpv |-> 0, nextMpv |-> 0,
                  out |-> <<>>, spent |-> {}, chained |-> ch]
      BY <1>2, <2>3, <2>4
    <2>6. F \in [Engine -> Engines] /\ ch \in Feeders  BY <1>4, <2>1, <2>3, <2>4
    <2> QED  BY <1>5, <2>2, <2>5, <2>6 DEF Rose
  <1>8. ~rose.eng[MPV].on  BY <1>4, ConstantsAre, OffIs
  <1>9. \A q \in Outfix : accepts[q] # {} => Min(accepts[q]) \in 1 .. Length
    BY <1>1, FirstFound
  <1>10. PqOK(pq)
    <2>1. \A q \in Outfix : q \in Others  BY ConstantsAre
    <2> QED  BY <1>2, <1>9, <2>1 DEF PqOK, Waiting
  <1>11. \A q \in Others :
            WaitsFor(pq, q) = IF q \in Outfix /\ accepts[q] # {} THEN {Min(accepts[q])} ELSE {}
    <2>1. \A q, o : Waiting(q, o) \in pq
                    <=> q \in Outfix /\ accepts[q] # {} /\ o = Min(accepts[q])
      <3>1. \A q, o, p, n : Waiting(q, o) = Waiting(p, n) <=> q = p /\ o = n
        BY DEF Waiting
      <3> QED  BY <1>2, <3>1
    <2> QED  BY <1>9, <2>1 DEF WaitsFor
  <1>12. PICK P, T : P = Pending(accepts, rose, pq) /\ T = TrueOf(accepts, Handled)
    OBVIOUS
  <1>13. \A q \in Others : P[q] = T[q]
    <2> SUFFICES ASSUME NEW q \in Others PROVE P[q] = T[q]  OBVIOUS
    <2>1. P[q] = Left(accepts, q, rose.eng[q], WaitsFor(pq, q))  BY <1>12, PendingIs
    <2>2. T[q] = IF q \in Outfix THEN {o \in 1 .. Length : o \in accepts[q]} ELSE {}
      BY <1>3, <1>12 DEF TrueOf
    <2>3. q \in Engine  BY ConstantsAre
    <2>4. CASE q \in Outfix /\ accepts[q] # {}
      <3>1. PICK o, e : o = Min(accepts[q]) /\ e = [Started(o) EXCEPT !.tops = {0}]  OBVIOUS
      <3>2. rose.eng[q] = e /\ WaitsFor(pq, q) = {o}  BY <1>4, <1>11, <2>3, <2>4, <3>1
      <3>3. Left(accepts, q, e, {o}) = accepts[q]  BY <1>1, <2>4, <3>1, FirstFound
      <3>4. accepts[q] \subseteq 1 .. Length  BY <1>1, <2>4 DEF AcceptsOK
      <3> QED  BY <2>1, <2>2, <2>4, <3>2, <3>3, <3>4
    <2>5. CASE ~(q \in Outfix /\ accepts[q] # {})
      <3>1. ~rose.eng[q].on  BY <1>4, <2>3, <2>5, OffIs
      <3>2. P[q] = {}  BY <2>1, <3>1 DEF Left
      <3> QED  BY <2>2, <2>5, <3>2
    <2> QED  BY <2>4, <2>5
  <1>14. Kept(P) /\ Kept(T)
    <2>1. Kept(P)  BY <1>12, PendingIs
    <2>2. Kept(T)  BY <1>12 DEF Kept, TrueOf
    <2> QED  BY <2>1, <2>2
  <1>15. \A q \in Others : \A n \in P[q] : 0 < n /\ 0 <= n
    BY <1>14, KeptIs, ConstantsAre
  <1>16. \A q, o : ~Got(rose, q, o)  BY <1>4 DEF Got, Range
  <1>17. Core(rose, P, T, ChainAt(Handled), ReportAt(Handled), 0)
    <2>1. Orderly(rose)  BY <1>4, <1>8 DEF Orderly, OutUpTo, Due, Climbs
    <2>2. Low(rose, P)  BY <1>4, <1>15 DEF Low
    <2>3. Fed(rose, P, 0)  BY <1>8 DEF Fed, Within
    <2>4. Plain(rose, P, T)  BY <1>13, <1>16 DEF Plain
    <2>5. Once(rose, P, T)
      <3>1. \A q \in Single : q \in Others  BY <1>7, OthersAre
      <3> QED  BY <1>4, <1>13, <1>16, <3>1 DEF Once
    <2>6. \A q \in rose.chained : P[q] = T[q]  BY <1>7, <1>13, OthersAre
    <2>7. Feeds(rose, P, T, 0)  BY <1>16, <2>6 DEF Feeds
    <2>8. ChainAt(Handled) = {} /\ ReportAt(Handled) = {}
      BY <1>3 DEF ChainAt, ReportAt
    <2>9. MpvExact(rose, P, T, ChainAt(Handled))
      <3>1. Fired(rose, P, T, ChainAt(Handled)) = {}  BY <2>6, <2>8 DEF Fired
      <3>2. Made(rose) = {}
        <4>1. \A n : <<MPV, n>> \notin Range(rose.out)  BY <1>16 DEF Got
        <4> QED  BY <1>8, <4>1 DEF Made
      <3> QED  BY <3>1, <3>2 DEF MpvExact
    <2>10. LitExact(rose, ReportAt(Handled))  BY <1>16, <2>8 DEF LitExact
    <2> QED  BY <1>5, <1>7, <1>14, <2>1, <2>2, <2>3, <2>4, <2>5, <2>7, <2>9, <2>10 DEF Core
  <1>18. Lanes(accepts, rose, pq, 0, {}, FALSE)
    <2>1. ASSUME NEW q \in Others
          PROVE  LaneOK(accepts, q, rose.eng[q], WaitsFor(pq, q), 0, q \in {}, FALSE)
      <3>0. q \in Engine  BY ConstantsAre
      <3>1. CASE q \in Outfix /\ accepts[q] # {}
        <4>1. PICK o, e : o = Min(accepts[q]) /\ e = [Started(o) EXCEPT !.tops = {0}]  OBVIOUS
        <4>2. rose.eng[q] = e /\ WaitsFor(pq, q) = {o}  BY <1>4, <1>11, <3>0, <3>1, <4>1
        <4>3. o \in accepts[q] /\ e.on /\ e.cur = o  BY <1>1, <3>1, <4>1, FirstFound, ZenonT(60)
        <4>4. q \notin Suffix  BY <3>1, ConstantsAre
        <4> QED  BY <3>1, <4>2, <4>3, <4>4 DEF LaneOK, AcceptsIn
      <3>2. CASE ~(q \in Outfix /\ accepts[q] # {})
        <4>1. ~rose.eng[q].on /\ WaitsFor(pq, q) = {}  BY <1>4, <1>11, <3>0, <3>2, OffIs
        <4> QED  BY <4>1 DEF LaneOK
      <3> QED  BY <3>1, <3>2
    <2> QED  BY <1>1, <1>10, <2>1 DEF Lanes
  <1>19. Strict(rose, P)  BY <1>4, <1>15 DEF Strict
  <1>20. TurnAt(pc, turn, okLoc, rose)  BY <1>3 DEF TurnAt
  <1>21. JobOK
    <2>1. job.kind = "none"  BY <1>3 DEF NoJob
    <2>2. rose.minNonMpv <= job.off  BY <1>3, <1>4
    <2> QED  BY <1>3, <1>5, <2>1, <2>2 DEF JobOK
  <1>22. Catching = FALSE  BY <1>3 DEF Catching
  <1> QED  BY <1>3, <1>12, <1>17, <1>18, <1>19, <1>20, <1>21, <1>22 DEF IInv

----------------------------------------------------------------------------
(* The literals: a catch-up starts                                         *)

\* Between literals the engines stand as they did, whatever offset comes next.
LEMMA LanesLater ==
    ASSUME NEW a, NEW r \in Rose, NEW p, NEW b \in Times, NEW c \in Times, b <= c,
           Lanes(a, r, p, b, {}, FALSE)
    PROVE  Lanes(a, r, p, c, {}, FALSE)
  <1>1. b \in Nat /\ c \in Nat  BY ConstantsAre
  <1>2. ASSUME NEW q \in Others
        PROVE  LaneOK(a, q, r.eng[q], WaitsFor(p, q), c, q \in {}, FALSE)
    <2>1. LaneOK(a, q, r.eng[q], WaitsFor(p, q), b, q \in {}, FALSE)  BY DEF Lanes
    <2>2. r.eng[q] \in Engines  BY RoseIs, ConstantsAre
    <2>3. r.eng[q].cur \in Nat  BY <2>2, EngineIs, ConstantsAre
    <2>4. q \in Outfix => q \notin Suffix  BY ConstantsAre
    <2> QED  BY <1>1, <2>1, <2>3, <2>4 DEF LaneOK
  <1> QED  BY <1>2 DEF Lanes

\* Before a literal is handled, with the offset o it ends at.
LEMMA ScanIs ==
    ASSUME IInv, pc \in {"scan", "resume"}, NEW o \in Times, job.off <= o
    PROVE  /\ Core(rose, Pending(accepts, rose, pq), TrueOf(accepts, Handled),
                   ChainAt(Handled), ReportAt(Handled), o)
           /\ Lanes(accepts, rose, pq, o, {}, FALSE)
           /\ Strict(rose, Pending(accepts, rose, pq))
           /\ rose.minNonMpv <= o
  <1>1. ~Catching /\ NotYetAt(pc, turn, rose) = {} /\ Catching = FALSE
    BY DEF Catching, NotYetAt
  <1>2. rose \in Rose /\ job.off \in Times /\ job.off \in Nat /\ o \in Nat
        /\ rose.minNonMpv <= job.off /\ rose.minNonMpv \in Nat
    BY ConstantsAre, RoseIs DEF IInv, Core, JobOK
  <1>3. Lanes(accepts, rose, pq, job.off, {}, FALSE)  BY <1>1 DEF IInv
  <1>4. Lanes(accepts, rose, pq, o, {}, FALSE)  BY <1>2, <1>3, LanesLater
  <1>5. Core(rose, Pending(accepts, rose, pq), TrueOf(accepts, Handled),
             ChainAt(Handled), ReportAt(Handled), o)
    <2>1. PICK P, T, C, L : /\ P = Pending(accepts, rose, pq) /\ T = TrueOf(accepts, Handled)
                            /\ C = ChainAt(Handled) /\ L = ReportAt(Handled)
      OBVIOUS
    <2>2. Core(rose, P, T, C, L, job.off)  BY <2>1 DEF IInv
    <2>3. Core(rose, P, T, C, L, o)  BY <2>2, CoreLater
    <2> QED  BY <2>1, <2>3
  <1>6. Strict(rose, Pending(accepts, rose, pq))  BY <1>1 DEF IInv
  <1>7. rose.minNonMpv <= o  BY <1>2
  <1> QED  BY <1>4, <1>5, <1>6, <1>7

\* A catch-up that started, or was over at once, keeps the invariant.
LEMMA StartedInv ==
    ASSUME NEW H, NEW o,
           CatchUp(o, TrueOf(accepts, H), ChainAt(H), ReportAt(H)),
           accepts' = accepts, Handled' = H, job'.off = o, JobOK'
    PROVE  IInv'
  <1>1. /\ pc' \in {"resume", "nfas", "build"} /\ pq' = pq
        /\ Core(rose', Pending(accepts, rose', pq), TrueOf(accepts, H), ChainAt(H),
                ReportAt(H), o)
        /\ Lanes(accepts, rose', pq, o, NotYetAt(pc', turn', rose'), pc' # "resume")
        /\ pc' = "resume" => Strict(rose', Pending(accepts, rose', pq))
        /\ pc' = "build" => TurnAt("build", turn', okLoc', rose')
    BY DEF CatchUp
  <1>2. Catching' = (pc' # "resume")  BY <1>1 DEF Catching
  <1>3. TurnAt(pc', turn', okLoc', rose')  BY <1>1 DEF TurnAt
  <1>4. Core(rose', Pending(accepts', rose', pq'), TrueOf(accepts', Handled'),
             ChainAt(Handled'), ReportAt(Handled'), job'.off)
    BY <1>1
  <1>5. Lanes(accepts', rose', pq', job'.off, NotYetAt(pc', turn', rose'), Catching')
    BY <1>1, <1>2
  <1>6. ~Catching' => Strict(rose', Pending(accepts', rose', pq'))
    BY <1>1, <1>2
  <1> QED  BY <1>3, <1>4, <1>5, <1>6 DEF IInv

\* A literal match keeps the invariant.
LEMMA LiteralMatchInv ==
    ASSUME IInv, NEW kind \in {"report", "chain", "suffix"}, NEW o \in 1 .. Length, NEW q,
           kind = "report" => q = Literal, kind = "chain" => q = MPV,
           kind = "suffix" => q \in Suffix, LiteralMatch(kind, o, q)
    PROVE  IInv'
  <1>1. /\ pc = "scan" /\ o >= job.off /\ accepts' = accepts
        /\ job' = [kind |-> kind, off |-> o, q |-> q] /\ lits' = lits \cup {job'}
        /\ \A l \in lits : l # [kind |-> kind, off |-> o, q |-> q]
    BY DEF LiteralMatch
  <1>2. job'.kind = kind /\ job'.off = o /\ job'.q = q /\ job' \notin lits  BY <1>1
  <1>3. o \in Times /\ o \in Nat /\ job.off \in Nat /\ job.off <= o
    <2>1. job.off \in Times  BY DEF IInv, JobOK
    <2> QED  BY <1>1, <2>1, ConstantsAre DEF Times
  <1>4. /\ Core(rose, Pending(accepts, rose, pq), TrueOf(accepts, lits),
                ChainAt(lits), ReportAt(lits), o)
        /\ Lanes(accepts, rose, pq, o, {}, FALSE)
        /\ Strict(rose, Pending(accepts, rose, pq))
        /\ rose.minNonMpv <= o
    <2>1. Handled = lits  BY <1>1 DEF Handled
    <2> QED  BY <1>1, <1>3, <2>1, ScanIs
  <1>5. PICK T, C, L : T = TrueOf(accepts, lits) /\ C = ChainAt(lits) /\ L = ReportAt(lits)
    OBVIOUS
  <1>6. Core(rose, Pending(accepts, rose, pq), T, C, L, o)  BY <1>4, <1>5
  <1>7. /\ CatchUp(o, T, C, L) /\ rose'.chained = rose.chained
        /\ pc' = "resume" /\ kind = "report" => rose'.minMatch = o
        /\ pc' = "resume" /\ kind = "chain" => Chained = {} \/ rose'.minNonMpv = o
        /\ pc' # "resume" /\ kind # "chain" => upTo' = "all"
    <2>1. CASE kind = "report"
      <3>1. roseCatchUpTo(rose, o)  BY <2>1 DEF LiteralMatch
      <3>2. /\ CatchUp(o, T, C, L) /\ rose'.chained = rose.chained
            /\ pc' = "resume" => rose'.minMatch = o
            /\ pc' # "resume" => upTo' = "all"
        BY <1>4, <1>6, <3>1, CatchUpToIs
      <3> QED  BY <2>1, <3>2
    <2>2. CASE kind = "chain"
      <3>1. roseCatchUpMpvFeeders(rose, o)  BY <2>2 DEF LiteralMatch
      <3>2. /\ CatchUp(o, T, C, L) /\ rose'.chained = rose.chained
            /\ pc' = "resume" => Chained = {} \/ rose'.minNonMpv = o
        BY <1>4, <1>6, <3>1, CatchUpFeedersIs
      <3> QED  BY <2>2, <3>2
    <2>3. CASE kind = "suffix"
      <3>1. roseCatchUpTo(rose, o) \/ Resume(rose)  BY <2>3 DEF LiteralMatch
      <3>2. CASE roseCatchUpTo(rose, o)
        <4>1. /\ CatchUp(o, T, C, L) /\ rose'.chained = rose.chained
              /\ pc' = "resume" => rose'.minMatch = o
              /\ pc' # "resume" => upTo' = "all"
          BY <1>4, <1>6, <3>2, CatchUpToIs
        <4> QED  BY <2>3, <4>1
      <3>3. CASE Resume(rose)
        <4>1. CatchUp(o, T, C, L) /\ pc' = "resume" /\ rose' = rose
          BY <1>4, <1>6, <3>3, ResumeIs
        <4> QED  BY <2>3, <4>1
      <3> QED  BY <3>1, <3>2, <3>3
    <2> QED  BY <2>1, <2>2, <2>3
  <1>8. /\ pc' \in {"resume", "nfas", "build"} /\ rose'.minNonMpv <= o  BY <1>7 DEF CatchUp
  <1>9. Handled' = lits  BY <1>1, <1>2, <1>8 DEF Handled
  <1>10. LitOK(job')
    <2>1. q \in 0 .. QueueCount  BY ConstantsAre
    <2> QED  BY <1>1, <2>1 DEF LitOK
  <1>11. JobOK'
    <2>1. \A l \in lits' : LitOK(l) /\ l.off <= job'.off
      <3>1. ASSUME NEW l \in lits PROVE LitOK(l) /\ l.off <= o
        <4>1. LitOK(l) /\ l.off <= job.off  BY DEF IInv, JobOK
        <4>2. l.off \in Nat  BY <4>1, ConstantsAre DEF LitOK
        <4> QED  BY <1>3, <4>1, <4>2
      <3> QED  BY <1>1, <1>2, <1>3, <1>10, <3>1
    <2>2. job'.kind # "end" /\ job' \in lits'  BY <1>1, <1>2
    <2>3. job'.off \in Times /\ rose'.minNonMpv <= job'.off  BY <1>2, <1>3, <1>8
    <2>4. Catching' => pc' # "resume"  BY DEF Catching
    <2>5. Chained' = Chained  BY <1>7 DEF Chained
    <2> QED  BY <1>2, <1>7, <1>8, <2>1, <2>2, <2>3, <2>4, <2>5 DEF JobOK
  <1>12. CatchUp(o, TrueOf(accepts, lits), ChainAt(lits), ReportAt(lits))
    BY <1>5, <1>7
  <1> QED  BY <1>1, <1>2, <1>9, <1>11, <1>12, StartedInv

\* So does the end of the block.
LEMMA EndOfBlockInv == ASSUME IInv, EndOfBlock PROVE IInv'
  <1>1. /\ pc = "scan" /\ accepts' = accepts /\ lits' = lits
        /\ job' = [kind |-> "end", off |-> Length, q |-> 0]
        /\ roseCatchUpTo(rose, Length)
    BY DEF EndOfBlock
  <1>2. job'.kind = "end" /\ job'.off = Length  BY <1>1
  <1>3. PICK o : o = Length  OBVIOUS
  <1>4. o \in Times /\ job.off <= o
    <2>1. job.off \in Times  BY DEF IInv, JobOK
    <2> QED  BY <1>3, <2>1, ConstantsAre DEF Times
  <1>5. Handled = lits  BY <1>1 DEF Handled
  <1>6. PICK T, C, L : T = TrueOf(accepts, lits) /\ C = ChainAt(lits) /\ L = ReportAt(lits)
    OBVIOUS
  <1>7. /\ Core(rose, Pending(accepts, rose, pq), T, C, L, o)
        /\ Lanes(accepts, rose, pq, o, {}, FALSE)
        /\ Strict(rose, Pending(accepts, rose, pq))
        /\ rose.minNonMpv <= o
    BY <1>1, <1>4, <1>5, <1>6, ScanIs
  <1>8. /\ CatchUp(o, T, C, L) /\ rose'.chained = rose.chained
        /\ pc' = "resume" => rose'.minMatch = o
        /\ pc' # "resume" => upTo' = "all"
    <2>1. roseCatchUpTo(rose, o)  BY <1>1, <1>3
    <2> QED  BY <1>7, <2>1, CatchUpToIs
  <1>9. pc' \in {"resume", "nfas", "build"} /\ rose'.minNonMpv <= o  BY <1>8 DEF CatchUp
  <1>10. \A l \in lits : LitOK(l) /\ l.off <= o
    <2> SUFFICES ASSUME NEW l \in lits PROVE LitOK(l) /\ l.off <= o  OBVIOUS
    <2>1. LitOK(l)  BY DEF IInv, JobOK
    <2>2. l.off \in 1 .. Length  BY <2>1 DEF LitOK
    <2> QED  BY <1>3, <2>1, <2>2
  <1>11. job' \notin lits
    <2>1. \A l \in lits : l.kind # "end"
      <3>1. \A l \in lits : l.kind \in {"report", "chain", "suffix"}  BY <1>10 DEF LitOK
      <3> QED  BY <3>1
    <2> QED  BY <1>2, <2>1
  <1>12. Handled' = lits  BY <1>1, <1>9, <1>11 DEF Handled
  <1>13. JobOK'
    <2>1. Catching' => pc' # "resume"  BY DEF Catching
    <2>2. pc' # "done"  BY <1>9
    <2>3. job'.off = o  BY <1>2, <1>3
    <2> QED  BY <1>1, <1>2, <1>3, <1>4, <1>8, <1>9, <1>10, <2>1, <2>2, <2>3 DEF JobOK
  <1>14. CatchUp(o, TrueOf(accepts, lits), ChainAt(lits), ReportAt(lits))  BY <1>6, <1>8
  <1> QED  BY <1>1, <1>2, <1>3, <1>12, <1>13, <1>14, StartedInv

\* So does flushing a chained literal's full queue.
LEMMA FlushChainInv == ASSUME IInv, FlushChain PROVE IInv'
  <1>1. /\ pc = "resume" /\ job.kind = "chain" /\ accepts' = accepts /\ lits' = lits
        /\ job' = job
    BY DEF FlushChain
  <1>2. PICK o, n, w : o = job.off /\ n = 0 /\ w = NextAt(rose, n)  OBVIOUS
  <1>3. roseCatchUpTo(w, o)  BY <1>1, <1>2 DEF FlushChain, NextAt
  <1>4. PICK T, C, L : /\ T = TrueOf(accepts, Handled) /\ C = ChainAt(Handled)
                       /\ L = ReportAt(Handled)
    OBVIOUS
  <1>5. o \in Times /\ job.off <= o /\ n \in 0 .. Length + 1
    <2>1. job.off \in Times  BY DEF IInv, JobOK
    <2>2. o \in Times /\ o \in Nat  BY <1>2, <2>1, ConstantsAre
    <2>3. n \in 0 .. Length + 1  BY <1>2, ConstantsAre
    <2> QED  BY <1>2, <2>2, <2>3
  <1>6. /\ Core(rose, Pending(accepts, rose, pq), T, C, L, o)
        /\ Lanes(accepts, rose, pq, o, {}, FALSE)
        /\ Strict(rose, Pending(accepts, rose, pq))
        /\ rose.minNonMpv <= o
    BY <1>1, <1>4, <1>5, ScanIs
  <1>7. rose \in Rose /\ Orderly(rose)  BY <1>6 DEF Core
  <1>8. /\ w \in Rose /\ w.nextMpv = 0 /\ w.minMatch = rose.minMatch
        /\ w.minNonMpv = rose.minNonMpv /\ w.out = rose.out /\ w.spent = rose.spent
        /\ w.chained = rose.chained /\ w.eng = rose.eng
    BY <1>2, <1>5, <1>7, WithNext
  <1>9. PICK P : P = Pending(accepts, rose, pq)  OBVIOUS
  <1>10. Core(w, P, T, C, L, o)
    <2>1. Core(rose, P, T, C, L, o)  BY <1>6, <1>9
    <2>2. w.nextMpv \in {rose.nextMpv, 0} /\ w.minMatch <= w.minNonMpv
      BY <1>7, <1>8 DEF Orderly
    <2>3. \A q \in Others : \A m \in P[q] : w.minNonMpv <= m
      BY <1>8, <2>1 DEF Core, Low
    <2> QED  BY <1>8, <2>1, <2>2, <2>3, CoreAt
  <1>11. Pending(accepts, w, pq) = P /\ Lanes(accepts, w, pq, o, {}, FALSE)
    BY <1>6, <1>8, <1>9, LanesSame
  <1>12. Strict(w, P)  BY <1>6, <1>8, <1>9 DEF Strict
  <1>13. /\ CatchUp(o, T, C, L) /\ rose'.chained = w.chained
         /\ pc' = "resume" => rose'.minMatch = o
         /\ pc' # "resume" => upTo' = "all"
    <2>1. w.minNonMpv <= o  BY <1>6, <1>8
    <2> QED  BY <1>3, <1>8, <1>10, <1>11, <1>12, <2>1, CatchUpToIs
  <1>14. /\ pc' \in {"resume", "nfas", "build"} /\ rose'.minNonMpv <= o
         /\ Core(rose', Pending(accepts, rose', pq), T, C, L, o)
    BY <1>13 DEF CatchUp
  <1>15. Handled' = Handled  BY <1>1, <1>14 DEF Handled
  <1>16. JobOK'
    <2>1. pc' = "resume" => rose'.minNonMpv = o
      <3>1. rose' \in Rose /\ rose'.minMatch <= rose'.minNonMpv
        BY <1>14 DEF Core, Orderly
      <3>2. rose'.minNonMpv \in Nat /\ o \in Nat  BY <1>5, <3>1, RoseIs, ConstantsAre
      <3> QED  BY <1>13, <1>14, <3>1, <3>2
    <2>2. Catching' => pc' # "resume"  BY DEF Catching
    <2>3. JobOK  BY DEF IInv
    <2> QED  BY <1>1, <1>2, <1>13, <1>14, <2>1, <2>2, <2>3 DEF JobOK
  <1>17. CatchUp(o, TrueOf(accepts, Handled), ChainAt(Handled), ReportAt(Handled))
    BY <1>4, <1>13
  <1> QED  BY <1>1, <1>2, <1>15, <1>16, <1>17, StartedInv

----------------------------------------------------------------------------
(* The literal's program goes on                                           *)

\* The parts of the invariant when the literal's program has run.
LEMMA HandledInv ==
    ASSUME JobOK, pc' \in {"scan", "done"},
           accepts' = accepts, pq' = pq, job' = job, lits' = lits,
           Core(rose', Pending(accepts, rose', pq), TrueOf(accepts, lits), ChainAt(lits),
                ReportAt(lits), job.off),
           Lanes(accepts, rose', pq, job.off, {}, FALSE),
           Strict(rose', Pending(accepts, rose', pq)),
           rose'.minNonMpv <= job.off, pc' = "done" => rose'.minMatch = Length
    PROVE  IInv'
  <1>1. /\ Handled' = lits /\ NotYetAt(pc', turn', rose') = {} /\ Catching' = FALSE
        /\ pc' # "resume"
    BY DEF Handled, NotYetAt, Catching
  <1>2. TurnAt(pc', turn', okLoc', rose')  BY DEF TurnAt
  <1>3. JobOK'  BY <1>1 DEF JobOK
  <1> QED  BY <1>1, <1>2, <1>3 DEF IInv

\* A suffix with a trigger more.
LEMMA TopSuffix ==
    ASSUME NEW a, NEW q \in Suffix, NEW e \in Engines, NEW o \in Times, e.on => e.cur <= o
    PROVE  LET f == WithTop(q, Flattened(e, o), o) IN
           /\ f \in Engines
           /\ f.on => f.cur <= o
           /\ Left(a, q, f, {}) = Left(a, q, e, {}) \cup (Spawned(q, o) \cap 1 .. Length)
  <1>a. PICK g, f : g = Flattened(e, o) /\ f = WithTop(q, g, o)  OBVIOUS
  <1>0. /\ o \in Nat /\ Length \in Nat /\ o <= Length /\ q \in Engine /\ q \notin Outfix
        /\ e.cur \in Nat
    BY ConstantsAre, EngineIs DEF Times
  <1>1. /\ g \in Engines /\ g.on /\ g.cur <= o
        /\ Left(a, q, g, {}) = Left(a, q, e, {})
    <2>1. CASE ~e.on
      <3>1. g = Started(o)  BY <1>a, <2>1 DEF Flattened
      <3>2. g \in Engines /\ g.on /\ g.cur = o /\ g.tops = {}  BY <3>1, OffIs
      <3>3. Left(a, q, g, {}) = {} /\ Left(a, q, e, {}) = {}
        BY <1>0, <2>1, <3>2 DEF Left, AcceptsIn
      <3> QED  BY <1>0, <3>2, <3>3
    <2>2. CASE e.on /\ isQueueFull(e) /\ e.cur = o
      <3>1. PICK u, h : u = <<>> /\ h = EngAt(e, o, u)  OBVIOUS
      <3>2. e \in Engines /\ u \in Seq(Times) /\ o \in Times /\ h = EngAt(e, o, u)
        BY <3>1
      <3>3. h \in Engines /\ h.on = e.on /\ h.cur = o /\ h.queue = u /\ h.tops = e.tops
        BY <3>2, EngineAt
      <3>4. g = h  BY <1>a, <2>2, <3>1 DEF Flattened, EngAt, Engines
      <3>5. Left(a, q, h, {}) = Left(a, q, e, {})
        BY <2>2, <3>3 DEF Left, AcceptsIn
      <3> QED  BY <1>0, <2>2, <3>3, <3>4, <3>5
    <2>3. CASE e.on /\ ~(isQueueFull(e) /\ e.cur = o)
      <3>1. g = e  BY <1>a, <2>3 DEF Flattened
      <3> QED  BY <2>3, <3>1
    <2> QED  BY <2>1, <2>2, <2>3
  <1>2. /\ f \in Engines
        /\ g.cur # Length => /\ f.on /\ f.cur = g.cur /\ f.tops = g.tops \cup {o}
                             /\ f.queue = Pushed(g.queue, o)
        /\ g.cur = Length /\ f.on => f.cur = Length /\ f.queue = <<>>
    BY <1>0, <1>1, <1>a, WithTopIs
  <1>3. g.cur \in Nat  BY <1>1, EngineIs, ConstantsAre
  <1>4. \A n \in Spawned(q, o) : n \in Nat /\ n > o /\ n <= Length  BY SpawnedIs
  <1>5. \A n : n \in Left(a, q, g, {}) <=>
               n \in 1 .. Length /\ n > g.cur /\ \E t \in g.tops : n - t \in Dist[q]
    BY <1>0, <1>1 DEF Left, AcceptsIn
  <1>6. CASE g.cur # Length
    <2>1. f.on /\ f.cur = g.cur /\ f.tops = g.tops \cup {o}  BY <1>2, <1>6
    <2>2. \A n : n \in Left(a, q, f, {}) <=>
                 /\ n \in 1 .. Length /\ n > g.cur
                 /\ n - o \in Dist[q] \/ \E t \in g.tops : n - t \in Dist[q]
      BY <1>0, <2>1 DEF Left, AcceptsIn
    <2>3. \A n \in 1 .. Length : n \in Spawned(q, o) <=> n - o \in Dist[q]
      BY <1>0 DEF Spawned, Times
    <2>4. \A n \in Spawned(q, o) : n > g.cur  BY <1>0, <1>1, <1>3, <1>4
    <2>5. Left(a, q, f, {}) = Left(a, q, g, {}) \cup (Spawned(q, o) \cap 1 .. Length)
      BY <1>5, <2>2, <2>3, <2>4
    <2> QED  BY <1>1, <1>2, <1>a, <2>1, <2>5
  <1>7. CASE g.cur = Length
    <2>1. f.on => f.cur = Length  BY <1>2, <1>7
    <2>2. Left(a, q, f, {}) = {}  BY <1>0, <2>1 DEF Left
    <2>3. Left(a, q, g, {}) = {}  BY <1>0, <1>5, <1>7
    <2>4. Spawned(q, o) = {}
      <3>1. o = Length  BY <1>0, <1>1, <1>7
      <3> QED  BY <1>0, <1>4, <3>1
    <2>5. f.on => f.cur <= o  BY <1>0, <1>1, <1>7, <2>1
    <2> QED  BY <1>1, <1>2, <1>a, <2>2, <2>3, <2>4, <2>5
  <1> QED  BY <1>6, <1>7

\* The literal's program keeps the invariant.
LEMMA HandleInv == ASSUME IInv, Handle PROVE IInv'
  <1>1. /\ pc = "resume" /\ accepts' = accepts /\ pq' = pq /\ job' = job /\ lits' = lits
        /\ ~(job.kind = "chain" /\ MustFlush(rose.eng[MPV], job.off)
               /\ job.off > rose.minNonMpv)
        /\ pc' = IF job.kind = "end" THEN "done" ELSE "scan"
    BY DEF Handle
  <1>2. PICK o, H, P, T, C, L :
          /\ o = job.off /\ H = lits \ {job} /\ P = Pending(accepts, rose, pq)
          /\ T = TrueOf(accepts, H) /\ C = ChainAt(H) /\ L = ReportAt(H)
    OBVIOUS
  <1>3. Handled = H  BY <1>1, <1>2 DEF Handled
  <1>4. JobOK  BY DEF IInv
  <1>5. o \in Times /\ o \in Nat /\ job.off <= o
    <2>1. o \in Times /\ o \in Nat  BY <1>2, <1>4, ConstantsAre DEF JobOK
    <2> QED  BY <1>2, <2>1
  <1>6. /\ Core(rose, P, T, C, L, o) /\ Lanes(accepts, rose, pq, o, {}, FALSE)
        /\ Strict(rose, P) /\ rose.minNonMpv <= o
    BY <1>1, <1>2, <1>3, <1>5, ScanIs
  <1>7. /\ rose \in Rose /\ rose.minNonMpv \in Nat /\ rose.minMatch <= rose.minNonMpv
        /\ rose.minMatch \in Nat
    BY <1>6, RoseIs, ConstantsAre DEF Core, Orderly
  <1>8. pc' \in {"scan", "done"}  BY <1>1
  <1>9. job.kind # "end" => job \in lits /\ LitOK(job) /\ lits = H \cup {job}
    BY <1>1, <1>2, <1>4 DEF JobOK
  <1>10. \A l \in lits : LitOK(l)  BY <1>4 DEF JobOK
  <1>11. CASE job.kind = "report"
    <2>1. rose' = Deliver(rose, Literal, o)  BY <1>11, <1>2 DEF Handle
    <2>2. rose.minMatch = o  BY <1>1, <1>2, <1>4, <1>11 DEF JobOK
    <2>3. /\ TrueOf(accepts, lits) = T /\ ChainAt(lits) = C /\ ReportAt(lits) = L \cup {o}
      <3>1. TrueOf(accepts, lits) = T
        <4>1. \A q, n : (\E l \in lits : l.kind = "suffix" /\ l.q = q /\ n - l.off \in Dist[q])
                        <=> (\E l \in H : l.kind = "suffix" /\ l.q = q /\ n - l.off \in Dist[q])
          BY <1>9, <1>11
        <4> QED  BY <1>2, <4>1 DEF TrueOf
      <3>2. ChainAt(lits) = C  BY <1>2, <1>9, <1>11 DEF ChainAt
      <3>3. ReportAt(lits) = L \cup {o}  BY <1>2, <1>9, <1>11 DEF ReportAt
      <3> QED  BY <3>1, <3>2, <3>3
    <2>4. o \notin L
      <3> SUFFICES ASSUME o \in L PROVE FALSE  OBVIOUS
      <3>1. PICK l \in H : l.kind = "report" /\ l.off = o  BY <1>2 DEF ReportAt
      <3>2. LitOK(l) /\ LitOK(job) /\ l # job  BY <1>2, <1>9, <1>10, <1>11, <3>1
      <3>3. l.q = job.q /\ l.kind = job.kind /\ l.off = job.off
        BY <1>2, <1>11, <3>1, <3>2 DEF LitOK
      <3>4. /\ l = [kind |-> l.kind, off |-> l.off, q |-> l.q]
            /\ job = [kind |-> job.kind, off |-> job.off, q |-> job.q]
        BY <3>2 DEF LitOK
      <3> QED  BY <3>2, <3>3, <3>4
    <2>5. /\ Core(rose', P, T, C, L \cup {o}, o)
          /\ rose'.minMatch = o /\ rose'.minNonMpv = rose.minNonMpv
          /\ rose'.chained = rose.chained /\ rose'.eng = rose.eng
      <3>1. PICK s : s = Deliver(rose, Literal, o)  OBVIOUS
      <3>2. /\ Core(s, P, T, C, L \cup {o}, o)
            /\ s.minMatch = o /\ s.minNonMpv = rose.minNonMpv
            /\ s.chained = rose.chained /\ s.eng = rose.eng
        BY <1>5, <1>6, <2>2, <2>4, <3>1, CoreLiteral
      <3> QED  BY <2>1, <3>1, <3>2
    <2>6. Pending(accepts, rose', pq) = P /\ Lanes(accepts, rose', pq, o, {}, FALSE)
      <3>1. \A q \in Others : rose'.eng[q] = rose.eng[q]  BY <2>5
      <3> QED  BY <1>2, <1>6, <3>1, LanesSame
    <2>7. Strict(rose', P)  BY <1>6, <2>5 DEF Strict
    <2>8. pc' # "done"  BY <1>1, <1>11
    <2> QED  BY <1>1, <1>2, <1>4, <1>6, <1>8, <2>3, <2>5, <2>6, <2>7, <2>8, HandledInv
  <1>12. CASE job.kind = "chain"
    <2>1. rose' = roseHandleChainMatch(rose, o)  BY <1>12, <1>2 DEF Handle
    <2>2. TrueOf(accepts, lits) = T /\ ChainAt(lits) = C \cup {o} /\ ReportAt(lits) = L
      <3>1. TrueOf(accepts, lits) = T
        <4>1. \A q, n : (\E l \in lits : l.kind = "suffix" /\ l.q = q /\ n - l.off \in Dist[q])
                        <=> (\E l \in H : l.kind = "suffix" /\ l.q = q /\ n - l.off \in Dist[q])
          BY <1>9, <1>12
        <4> QED  BY <1>2, <4>1 DEF TrueOf
      <3>2. ChainAt(lits) = C \cup {o}  BY <1>2, <1>9, <1>12 DEF ChainAt
      <3>3. ReportAt(lits) = L  BY <1>2, <1>9, <1>12 DEF ReportAt
      <3> QED  BY <3>1, <3>2, <3>3
    <2>3. \A q \in rose.chained : \A n \in P[q] : o <= n
      <3>1. CASE Chained = {}  BY <3>1 DEF Chained
      <3>2. CASE rose.minNonMpv = o
        <4>1. \A q \in rose.chained : q \in Others  BY <1>7, OthersAre
        <4> QED  BY <1>6, <3>2, <4>1 DEF Core, Low
      <3> QED  BY <1>1, <1>2, <1>4, <1>12, <3>1, <3>2 DEF JobOK
    <2>4. MustFlush(rose.eng[MPV], o) => o <= rose.minNonMpv
      BY <1>1, <1>2, <1>5, <1>7, <1>12
    <2>5. /\ Core(rose', P, T, C \cup {o}, L, o)
          /\ rose'.minNonMpv = rose.minNonMpv
          /\ \A q \in Others : rose'.eng[q] = rose.eng[q]
      <3>1. PICK s : s = roseHandleChainMatch(rose, o)  OBVIOUS
      <3>2. /\ Core(s, P, T, C \cup {o}, L, o)
            /\ s.minMatch \in {rose.minMatch, o} /\ s.minNonMpv = rose.minNonMpv
            /\ s.chained = rose.chained /\ \A q \in Others : s.eng[q] = rose.eng[q]
        <4>1. ChainReady(rose, P, o)  BY <2>3, <2>4 DEF ChainReady
        <4> QED  BY <1>5, <1>6, <3>1, <4>1, CoreChain, ZenonT(60)
      <3> QED  BY <2>1, <3>1, <3>2
    <2>6. Pending(accepts, rose', pq) = P /\ Lanes(accepts, rose', pq, o, {}, FALSE)
      BY <1>2, <1>6, <2>5, LanesSame
    <2>7. Strict(rose', P)  BY <1>6, <2>5 DEF Strict
    <2>8. pc' # "done"  BY <1>1, <1>12
    <2> QED  BY <1>1, <1>2, <1>4, <1>6, <1>8, <2>2, <2>5, <2>6, <2>7, <2>8, HandledInv
  <1>13. CASE job.kind = "suffix"
    <2>1. PICK q, e, f, S : /\ q = job.q /\ e = rose.eng[q]
                            /\ f = WithTop(q, Flattened(e, o), o)
                            /\ S = Spawned(q, o) \cap 1 .. Length
      OBVIOUS
    <2>2. q \in Suffix /\ q \in Others /\ q \in Engine /\ q \notin Outfix
      BY <1>9, <1>13, <2>1, ConstantsAre DEF LitOK
    <2>3. rose' = [rose EXCEPT !.eng[q] = f]
      BY <1>13, <1>2, <2>1 DEF Handle, roseTriggerSuffix
    <2>4. e \in Engines  BY <1>7, <2>1, <2>2, RoseIs
    <2>5. WaitsFor(pq, q) = {} /\ (e.on => e.cur <= o)
      <3>1. LaneOK(accepts, q, e, WaitsFor(pq, q), o, q \in {}, FALSE)
        BY <1>6, <2>1, <2>2 DEF Lanes
      <3> QED  BY <2>2, <3>1 DEF LaneOK
    <2>6. /\ f \in Engines
          /\ f.on => f.cur <= o
          /\ Left(accepts, q, f, {}) = Left(accepts, q, e, {}) \cup S
      BY <1>5, <2>1, <2>2, <2>4, <2>5, TopSuffix
    <2>8. rose' \in Rose /\ rose'.eng[q] = f /\ SameBut(rose, rose', q)
      BY <1>7, <2>2, <2>3, <2>6, WithEngine
    <2>9. \A p \in Others : p # q => rose'.eng[p] = rose.eng[p]
      BY <2>8, ConstantsAre DEF SameBut
    <2>10. PICK P2, T2 : P2 = Pending(accepts, rose', pq) /\ T2 = TrueOf(accepts, lits)
      OBVIOUS
    <2>11. Lanes(accepts, rose', pq, o, {}, FALSE) /\ Elsewhere(P, P2, q)
      <3>0. PICK N : N = {}  OBVIOUS
      <3>1. PqOK(pq) /\ Lanes(accepts, rose, pq, o, N, FALSE)  BY <1>6, <3>0 DEF Lanes
      <3>2. LaneOK(accepts, q, rose'.eng[q], WaitsFor(pq, q), o, q \in N, FALSE)
        BY <2>2, <2>5, <2>6, <2>8 DEF LaneOK
      <3>3. \A x \in Others : x # q => /\ rose'.eng[x] = rose.eng[x]
                                       /\ WaitsFor(pq, x) = WaitsFor(pq, x)
                                       /\ x \in N <=> x \in N
        BY <2>9
      <3>4. /\ Lanes(accepts, rose', pq, o, N, FALSE)
            /\ Elsewhere(Pending(accepts, rose, pq), Pending(accepts, rose', pq), q)
        BY <2>2, <3>1, <3>2, <3>3, LanesStep
      <3> QED  BY <1>2, <2>10, <3>0, <3>4
    <2>12. P2[q] = P[q] \cup S
      <3>1. P[q] = Left(accepts, q, rose.eng[q], WaitsFor(pq, q))
        BY <1>2, <2>2, PendingIs
      <3>2. P2[q] = Left(accepts, q, rose'.eng[q], WaitsFor(pq, q))
        BY <2>2, <2>10, PendingIs
      <3> QED  BY <2>1, <2>5, <2>6, <2>8, <3>1, <3>2
    <2>13. Elsewhere(T, T2, q) /\ T2[q] = T[q] \cup S
      <3>1. Kept(T2)  BY <2>10 DEF Kept, TrueOf
      <3>2. \A p, n : (\E l \in lits : l.kind = "suffix" /\ l.q = p /\ n - l.off \in Dist[p])
                      <=> \/ \E l \in H : l.kind = "suffix" /\ l.q = p /\ n - l.off \in Dist[p]
                          \/ p = q /\ n - o \in Dist[q]
        BY <1>2, <1>9, <1>13, <2>1
      <3>3. \A p \in Others : T2[p] = {n \in 1 .. Length :
              IF p \in Outfix THEN n \in accepts[p]
              ELSE \E l \in lits : l.kind = "suffix" /\ l.q = p /\ n - l.off \in Dist[p]}
        BY <2>10 DEF TrueOf
      <3>4. \A p \in Others : T[p] = {n \in 1 .. Length :
              IF p \in Outfix THEN n \in accepts[p]
              ELSE \E l \in H : l.kind = "suffix" /\ l.q = p /\ n - l.off \in Dist[p]}
        BY <1>2 DEF TrueOf
      <3>5. ASSUME NEW p \in Others, p # q PROVE T2[p] = T[p]
        <4>1. \A n : (\E l \in lits : l.kind = "suffix" /\ l.q = p /\ n - l.off \in Dist[p])
                     <=> (\E l \in H : l.kind = "suffix" /\ l.q = p /\ n - l.off \in Dist[p])
          BY <3>2, <3>5
        <4> QED  BY <3>3, <3>4, <4>1, ZenonT(60)
      <3>6. \A n \in 1 .. Length : n \in S <=> n - o \in Dist[q]
        BY <2>1, ConstantsAre DEF Spawned, Times
      <3>7. \A n : n \in T2[q] <=> n \in T[q] \/ n \in S
        <4>1. \A n \in S : n \in 1 .. Length  BY <2>1
        <4>2. \A n : n \in T2[q] <=> /\ n \in 1 .. Length
                 /\ \E l \in lits : l.kind = "suffix" /\ l.q = q /\ n - l.off \in Dist[q]
          BY <2>2, <3>3
        <4>3. \A n : n \in T[q] <=> /\ n \in 1 .. Length
                 /\ \E l \in H : l.kind = "suffix" /\ l.q = q /\ n - l.off \in Dist[q]
          BY <2>2, <3>4
        <4> QED  BY <3>2, <3>6, <4>1, <4>2, <4>3
      <3> QED  BY <3>1, <3>5, <3>7 DEF Elsewhere
    <2>14. \A n \in S : o < n /\ n \in Nat
      <3>1. \A n \in Spawned(q, o) : n > o /\ n \in Nat  BY <1>5, <2>2, SpawnedIs
      <3> QED  BY <1>5, <2>1, <3>1
    <2>15. Core(rose', P2, T2, C, L, o)
      <3>1. Core(rose, P2, T2, C, L, o)
        BY <1>6, <2>2, <2>11, <2>12, <2>13, <2>14, CoreTop
      <3> QED  BY <2>2, <2>8, <3>1, CoreSame
    <2>16. ChainAt(lits) = C /\ ReportAt(lits) = L
      BY <1>2, <1>9, <1>13 DEF ChainAt, ReportAt
    <2>17. rose'.minNonMpv = rose.minNonMpv  BY <2>8 DEF SameBut
    <2>18. Strict(rose', P2)
      <3>1. ASSUME NEW p \in Others, NEW n \in P2[p] PROVE rose.minNonMpv < n
        <4>1. CASE n \in P[p]  BY <1>6, <4>1 DEF Strict
        <4>2. CASE n \notin P[p]
          <5>1. n \in S  BY <2>11, <2>12, <3>1, <4>2 DEF Elsewhere
          <5> QED  BY <1>5, <1>6, <1>7, <2>14, <5>1
        <4> QED  BY <4>1, <4>2
      <3> QED  BY <2>17, <3>1 DEF Strict
    <2>19. pc' # "done"  BY <1>1, <1>13
    <2> QED
      BY <1>1, <1>2, <1>4, <1>6, <1>8, <2>10, <2>11, <2>15, <2>16, <2>17, <2>18, <2>19, HandledInv
  <1>14. CASE job.kind = "end"
    <2>1. rose' = rose  BY <1>14 DEF Handle
    <2>2. H = lits
      <3>1. job \notin lits  BY <1>10, <1>14 DEF LitOK
      <3> QED  BY <1>2, <3>1
    <2>3. rose.minMatch = Length  BY <1>1, <1>4, <1>14 DEF JobOK
    <2> QED  BY <1>1, <1>2, <1>4, <1>6, <1>8, <2>1, <2>2, <2>3, HandledInv
  <1>15. job.kind \in {"report", "chain", "suffix", "end"}  BY <1>9 DEF LitOK
  <1> QED  BY <1>11, <1>12, <1>13, <1>14, <1>15

----------------------------------------------------------------------------
(* Steps of a catch-up                                                     *)

\* The parts of the invariant within a catch-up.
LEMMA SteppedInv ==
    ASSUME JobOK, Catching, pc' \in {"build", "blast", "nfas"},
           accepts' = accepts, job' = job, lits' = lits, upTo' = upTo,
           Core(rose', Pending(accepts, rose', pq'), TrueOf(accepts, Handled),
                ChainAt(Handled), ReportAt(Handled), job.off),
           Lanes(accepts, rose', pq', job.off, NotYetAt(pc', turn', rose'), TRUE),
           TurnAt(pc', turn', okLoc', rose'), rose'.minNonMpv <= job.off
    PROVE  IInv'
  <1>1. Handled' = Handled /\ Catching' = TRUE  BY DEF Handled, Catching
  <1>2. JobOK'
    <2>1. pc \notin {"scan", "done"} /\ pc' \notin {"scan", "done", "resume"}  BY DEF Catching
    <2> QED  BY <2>1 DEF JobOK, Catching
  <1> QED  BY <1>1, <1>2 DEF IInv

\* From w, which agrees with r outside the engine q, the step to s gives q the
\* new state f, and the new queue p2 the offsets W.
Moved(a, r, w, s, p, p2, b, N, N2, q, f, W) ==
    /\ w \in Rose /\ s \in Rose /\ q \in Others /\ f \in Engines
    /\ Lanes(a, r, p, b, N, TRUE)
    /\ \A x \in Others : x # q => w.eng[x] = r.eng[x]
    /\ SameBut(w, s, q) /\ s.eng[q] = f /\ PqOK(p2) /\ WaitsFor(p2, q) = W
    /\ \A x \in Others : x # q => WaitsFor(p2, x) = WaitsFor(p, x)
    /\ \A x \in Others : x # q => (x \in N2 <=> x \in N)
    /\ LaneOK(a, q, f, W, b, q \in N2, TRUE)

MovedTo(a, r, s, p, p2, b, N2, q, f, W) ==
    /\ Lanes(a, s, p2, b, N2, TRUE)
    /\ Elsewhere(Pending(a, r, p), Pending(a, s, p2), q)
    /\ Pending(a, s, p2)[q] = Left(a, q, f, W)

\* A record that differs in the engine q, and what the queue says of q.
LEMMA OneLane ==
    ASSUME NEW a, NEW r, NEW w, NEW s, NEW p, NEW p2, NEW b, NEW N, NEW N2, NEW q, NEW f, NEW W,
           Moved(a, r, w, s, p, p2, b, N, N2, q, f, W)
    PROVE  MovedTo(a, r, s, p, p2, b, N2, q, f, W)
  <1>0. /\ w \in Rose /\ s \in Rose /\ q \in Others /\ f \in Engines
        /\ Lanes(a, r, p, b, N, TRUE)
        /\ \A x \in Others : x # q => w.eng[x] = r.eng[x]
        /\ SameBut(w, s, q) /\ s.eng[q] = f /\ PqOK(p2) /\ WaitsFor(p2, q) = W
        /\ \A x \in Others : x # q => WaitsFor(p2, x) = WaitsFor(p, x)
        /\ \A x \in Others : x # q => (x \in N2 <=> x \in N)
        /\ LaneOK(a, q, f, W, b, q \in N2, TRUE)
    BY DEF Moved
  <1>1. \A x \in Others : x # q => /\ s.eng[x] = r.eng[x]
                                   /\ WaitsFor(p2, x) = WaitsFor(p, x)
                                   /\ x \in N2 <=> x \in N
    BY <1>0, ConstantsAre DEF SameBut
  <1>2. LaneOK(a, q, s.eng[q], WaitsFor(p2, q), b, q \in N2, TRUE)  BY <1>0
  <1>3. /\ Lanes(a, s, p2, b, N2, TRUE)
        /\ Elsewhere(Pending(a, r, p), Pending(a, s, p2), q)
    BY <1>0, <1>1, <1>2, LanesStep
  <1>4. Pending(a, s, p2)[q] = Left(a, q, f, W)
    <2>1. Pending(a, s, p2)[q] = Left(a, q, s.eng[q], WaitsFor(p2, q))  BY <1>0, PendingIs
    <2> QED  BY <1>0, <2>1
  <1> QED  BY <1>3, <1>4 DEF MovedTo

\* Functions that agree.
LEMMA KeptSame ==
    ASSUME NEW P, NEW P2, NEW P3, NEW q \in Others, Elsewhere(P, P2, q), Elsewhere(P, P3, q),
           P2[q] = P3[q]
    PROVE  P2 = P3
  <1>1. P2 \in [Others -> SUBSET (1 .. Length)] /\ P3 \in [Others -> SUBSET (1 .. Length)]
    BY DEF Elsewhere, Kept
  <1>2. \A x \in Others : P2[x] = P3[x]  BY DEF Elsewhere
  <1> QED  BY <1>1, <1>2

\* The offset o was reported.
Popped(P, q, o) == [P EXCEPT ![q] = @ \ {o}]

\* A match less to report for the engine q.
LEMMA PoppedIs ==
    ASSUME NEW P, Kept(P), NEW q \in Others, NEW o
    PROVE  Elsewhere(P, Popped(P, q, o), q) /\ Popped(P, q, o)[q] = P[q] \ {o}
  BY DEF Kept, Elsewhere, Popped

\* A match in a queue without the engine q: who waits.
LEMMA WaitsWith ==
    ASSUME NEW p, NEW q, NEW W \in SUBSET (1 .. Length), PqOK(p), q \in Others,
           WaitsFor(p, q) = {}
    PROVE  LET p2 == p \cup {Waiting(q, o) : o \in W} IN
           /\ PqOK(p2) /\ WaitsFor(p2, q) = W
           /\ \A x \in Others : x # q => WaitsFor(p2, x) = WaitsFor(p, x)
  <1> DEFINE p2 == p \cup {Waiting(q, o) : o \in W}
  <1>1. \A x, y, o, n : Waiting(x, o) = Waiting(y, n) <=> x = y /\ o = n  BY DEF Waiting
  <1>2. PqOK(p2)
    <2>1. \A o \in W : Waiting(q, o) \in [q : Others, loc : 1 .. Length]  BY DEF Waiting
    <2> QED  BY <2>1 DEF PqOK
  <1>3. \A x, o : Waiting(x, o) \in p2 <=> Waiting(x, o) \in p \/ (x = q /\ o \in W)
    BY <1>1
  <1> HIDE DEF p2
  <1>4. \A x : x # q => WaitsFor(p2, x) = WaitsFor(p, x)  BY <1>3 DEF WaitsFor
  <1>5. WaitsFor(p2, q) = W
    <2>1. \A o \in 1 .. Length : Waiting(q, o) \notin p  BY DEF WaitsFor
    <2> QED  BY <1>3, <2>1 DEF WaitsFor
  <1> QED  BY <1>2, <1>4, <1>5 DEF p2

\* The queue without a match.
LEMMA WaitsWithout ==
    ASSUME NEW p, PqOK(p), NEW x \in p, WaitsFor(p, x.q) \subseteq {x.loc}
    PROVE  /\ PqOK(p \ {x}) /\ WaitsFor(p \ {x}, x.q) = {}
           /\ \A y \in Others : y # x.q => WaitsFor(p \ {x}, y) = WaitsFor(p, y)
  <1>1. x = Waiting(x.q, x.loc)  BY WaitingIs
  <1>2. \A y, z, o, n : Waiting(y, o) = Waiting(z, n) <=> y = z /\ o = n  BY DEF Waiting
  <1>3. \A y, o : Waiting(y, o) \in p \ {x}
                  <=> Waiting(y, o) \in p /\ ~(y = x.q /\ o = x.loc)
    BY <1>1, <1>2
  <1>4. PqOK(p \ {x})  BY DEF PqOK
  <1>5. \A y : y # x.q => WaitsFor(p \ {x}, y) = WaitsFor(p, y)  BY <1>3 DEF WaitsFor
  <1>6. WaitsFor(p \ {x}, x.q) = {}
    <2>1. \A o \in WaitsFor(p, x.q) : o = x.loc  OBVIOUS
    <2> QED  BY <1>3, <2>1 DEF WaitsFor
  <1> QED  BY <1>4, <1>5, <1>6

\* An engine run to its next match, or to the offset final.
LEMMA NextMatchIs ==
    ASSUME NEW P3, NEW T, NEW C, NEW L, NEW b \in Times, NEW N, NEW N2, NEW q \in Others, q \notin N2,
           NEW r1 \in Rose, NEW p0, NEW final \in Times,
           Core(r1, P3, T, C, L, b), Lanes(accepts, rose, pq, b, N, TRUE),
           \A x \in Others : x # q => r1.eng[x] = rose.eng[x],
           r1.eng[q].on, r1.eng[q].cur <= final,
           b <= final, q \in Suffix => final = b, q \in Outfix => final = Length,
           PqOK(p0), WaitsFor(p0, q) = {},
           \A x \in Others : x # q => WaitsFor(p0, x) = WaitsFor(pq, x),
           \A x \in Others : x # q => (x \in N2 <=> x \in N),
           Elsewhere(Pending(accepts, rose, pq), P3, q), P3[q] = Beyond(accepts, q, r1.eng[q]),
           ToNextMatch(r1, q, final, p0)
    PROVE  /\ Core(rose', Pending(accepts, rose', pq'), T, C, L, b)
           /\ Lanes(accepts, rose', pq', b, N2, TRUE)
           /\ SameBut(r1, rose', q)
  <1>a. PICK e, f, W : /\ e = r1.eng[q] /\ f = NextEngine(q, e, final)
                       /\ W = NextWait(q, e, final)
    OBVIOUS
  <1>0. e \in Engines /\ e.on /\ e.cur <= final /\ AcceptsOK(accepts)
    BY <1>a, RoseIs, ConstantsAre DEF Lanes
  <1>1. /\ f \in Engines /\ W \subseteq 1 .. Length
        /\ Left(accepts, q, f, W) = Beyond(accepts, q, e)
        /\ \A o \in W : /\ f.on /\ f.cur = o /\ o <= final /\ W = {o}
                        /\ AcceptsIn(accepts, q, f, o)
        /\ f.on => f.cur <= final
        /\ f.on /\ W = {} => /\ \A o \in Beyond(accepts, q, f) : final < o
                             /\ q \in Outfix => final # Length
    BY <1>0, <1>a, NextEngineIs
  <1>2. rose' = [r1 EXCEPT !.eng[q] = f]
    BY <1>a DEF ToNextMatch, NextEngine
  <1>3. pq' = p0 \cup {Waiting(q, o) : o \in W}
    BY <1>a DEF ToNextMatch, NextWait
  <1>4. PICK p2 : p2 = pq'  OBVIOUS
  <1>5. /\ PqOK(p2) /\ WaitsFor(p2, q) = W
        /\ \A x \in Others : x # q => WaitsFor(p2, x) = WaitsFor(pq, x)
    <2>1. W \in SUBSET (1 .. Length)  BY <1>1
    <2>2. /\ PqOK(p2) /\ WaitsFor(p2, q) = W
          /\ \A x \in Others : x # q => WaitsFor(p2, x) = WaitsFor(p0, x)
      BY <1>3, <1>4, <2>1, WaitsWith
    <2> QED  BY <2>2
  <1>6. LaneOK(accepts, q, f, W, b, q \in N2, TRUE)
    <2>1. \A n \in Beyond(accepts, q, f) : final < n => b < n
      <3>1. \A n \in Beyond(accepts, q, f) : n \in Nat  BY <1>1, BeyondIs
      <3> QED  BY <3>1, ConstantsAre
    <2> QED  BY <1>1, <2>1 DEF LaneOK
  <1>7. PICK s : s = rose'  OBVIOUS
  <1>8. /\ s \in Rose /\ SameBut(r1, s, q) /\ s.eng[q] = f
        /\ Lanes(accepts, s, p2, b, N2, TRUE)
        /\ Elsewhere(Pending(accepts, rose, pq), Pending(accepts, s, p2), q)
        /\ Pending(accepts, s, p2)[q] = Left(accepts, q, f, W)
    <2>1. s = [r1 EXCEPT !.eng[q] = f]  BY <1>2, <1>7
    <2>2. s \in Rose /\ SameBut(r1, s, q) /\ s.eng[q] = f
      BY <1>1, <2>1, WithEngine, ConstantsAre
    <2>3. /\ Lanes(accepts, s, p2, b, N2, TRUE)
          /\ Elsewhere(Pending(accepts, rose, pq), Pending(accepts, s, p2), q)
          /\ Pending(accepts, s, p2)[q] = Left(accepts, q, f, W)
      <3>1. Moved(accepts, rose, r1, s, pq, p2, b, N, N2, q, f, W)
        BY <1>1, <1>5, <1>6, <2>2 DEF Moved
      <3>2. MovedTo(accepts, rose, s, pq, p2, b, N2, q, f, W)  BY <3>1, OneLane
      <3> QED  BY <3>2 DEF MovedTo
    <2> QED  BY <2>2, <2>3
  <1>9. Pending(accepts, s, p2) = P3
    <2>1. Pending(accepts, s, p2)[q] = P3[q]  BY <1>1, <1>8, <1>a
    <2> QED  BY <1>8, <2>1, KeptSame
  <1>10. Core(s, P3, T, C, L, b)  BY <1>8, CoreSame
  <1> QED  BY <1>4, <1>7, <1>8, <1>9, <1>10

\* An engine goes on alone after it reported, or is dropped.
LEMMA ReportedIs ==
    ASSUME NEW P3, NEW T, NEW C, NEW L, NEW b \in Times, NEW N, NEW q \in Others, NEW r1 \in Rose,
           NEW o \in Times, o <= b,
           Core(r1, P3, T, C, L, b), Lanes(accepts, rose, pq, b, N, TRUE),
           \A x \in Others : x # q => r1.eng[x] = rose.eng[x], r1.eng[q].on,
           PqOK(pq'), WaitsFor(pq', q) = {},
           \A x \in Others : x # q => WaitsFor(pq', x) = WaitsFor(pq, x),
           \A x \in Others : x # q => x \notin N,
           Elsewhere(Pending(accepts, rose, pq), P3, q),
           P3[q] = Beyond(accepts, q, RunTo(r1.eng[q], o)),
           Reported(r1, q, o), turn' = q
    PROVE  /\ Core(rose', Pending(accepts, rose', pq'), T, C, L, b)
           /\ Lanes(accepts, rose', pq', b, NotYetAt(pc', turn', rose'), TRUE)
           /\ TurnAt(pc', turn', okLoc', rose')
           /\ pc' \in {"blast", "nfas"} /\ SameBut(r1, rose', q)
  <1>a. PICK e, g, s, p2, W : /\ e = r1.eng[q] /\ g = RunTo(e, o) /\ s = rose' /\ p2 = pq'
                              /\ W = {}
    OBVIOUS
  <1>0. e \in Engines /\ e.on  BY <1>a, RoseIs, ConstantsAre
  <1>1. g \in Engines /\ g.on = e.on /\ g.cur = o /\ g.tops = e.tops
    BY <1>0, <1>a, RunToIs
  <1>2. CASE Exhausted(r1, q)
    <2>1. s = [r1 EXCEPT !.eng[q] = Off] /\ pc' = "nfas"  BY <1>2, <1>a DEF Reported
    <2>2. PICK N2, f : N2 = {} /\ f = Off  OBVIOUS
    <2>3. NotYetAt(pc', turn', rose') = N2 /\ TurnAt(pc', turn', okLoc', rose')
      BY <2>1, <2>2 DEF NotYetAt, TurnAt
    <2>4. LaneOK(accepts, q, f, W, b, q \in N2, TRUE) /\ f \in Engines
      BY <1>a, <2>2, OffIs DEF LaneOK
    <2>5. \A x \in Others : x # q => (x \in N2 <=> x \in N)  BY <2>2
    <2>6. s = [r1 EXCEPT !.eng[q] = f]  BY <2>1, <2>2
    <2>7. /\ s \in Rose /\ SameBut(r1, s, q) /\ s.eng[q] = f
          /\ Lanes(accepts, s, p2, b, N2, TRUE)
          /\ Elsewhere(Pending(accepts, rose, pq), Pending(accepts, s, p2), q)
          /\ Pending(accepts, s, p2)[q] = Left(accepts, q, f, W)
      <3>1. s \in Rose /\ SameBut(r1, s, q) /\ s.eng[q] = f
        BY <1>a, <2>4, <2>5, <2>6, WithEngine, ConstantsAre
      <3>2. /\ Lanes(accepts, s, p2, b, N2, TRUE)
            /\ Elsewhere(Pending(accepts, rose, pq), Pending(accepts, s, p2), q)
            /\ Pending(accepts, s, p2)[q] = Left(accepts, q, f, W)
        <4>1. Moved(accepts, rose, r1, s, pq, p2, b, N, N2, q, f, W)
          BY <1>1, <1>a, <2>4, <2>5, <2>6, <3>1 DEF Moved
        <4>2. MovedTo(accepts, rose, s, pq, p2, b, N2, q, f, W)  BY <4>1, OneLane
        <4> QED  BY <4>2 DEF MovedTo
      <3> QED  BY <3>1, <3>2
    <2>8. PICK P2 : P2 = Pending(accepts, s, p2)  OBVIOUS
    <2>9. P2[q] = {}  BY <2>2, <2>7, <2>8, OffIs DEF Left
    <2>10. Core(r1, P2, T, C, L, b)
      <3>1. q \in r1.spent  BY <1>2 DEF Exhausted
      <3>2. Elsewhere(P3, P2, q)  BY <2>7, <2>8 DEF Elsewhere
      <3>3. \A n \in P2[q] : r1.minNonMpv <= n  BY <2>9
      <3> QED  BY <3>1, <3>2, <3>3, CoreDrop
    <2>11. Core(s, P2, T, C, L, b)  BY <2>7, <2>10, CoreSame
    <2> QED  BY <1>a, <2>1, <2>3, <2>7, <2>8, <2>11
  <1>3. CASE ~Exhausted(r1, q)
    <2>1. s = [r1 EXCEPT !.eng[q] = g] /\ pc' = "blast"  BY <1>3, <1>a DEF Reported
    <2>2. PICK N2 : N2 = {q}  OBVIOUS
    <2>3. NotYetAt(pc', turn', rose') = N2  BY <2>1, <2>2 DEF NotYetAt
    <2>4. LaneOK(accepts, q, g, W, b, q \in N2, TRUE)
      BY <1>1, <1>a, <2>2 DEF LaneOK
    <2>5. \A x \in Others : x # q => (x \in N2 <=> x \in N)  BY <2>2
    <2>6. s = [r1 EXCEPT !.eng[q] = g]  BY <2>1
    <2>7. /\ s \in Rose /\ SameBut(r1, s, q) /\ s.eng[q] = g
          /\ Lanes(accepts, s, p2, b, N2, TRUE)
          /\ Elsewhere(Pending(accepts, rose, pq), Pending(accepts, s, p2), q)
          /\ Pending(accepts, s, p2)[q] = Left(accepts, q, g, W)
      <3>1. s \in Rose /\ SameBut(r1, s, q) /\ s.eng[q] = g
        BY <1>1, <1>a, <2>4, <2>5, <2>6, WithEngine, ConstantsAre
      <3>2. /\ Lanes(accepts, s, p2, b, N2, TRUE)
            /\ Elsewhere(Pending(accepts, rose, pq), Pending(accepts, s, p2), q)
            /\ Pending(accepts, s, p2)[q] = Left(accepts, q, g, W)
        <4>1. Moved(accepts, rose, r1, s, pq, p2, b, N, N2, q, g, W)
          BY <1>1, <1>a, <2>4, <2>5, <2>6, <3>1 DEF Moved
        <4>2. MovedTo(accepts, rose, s, pq, p2, b, N2, q, g, W)  BY <4>1, OneLane
        <4> QED  BY <4>2 DEF MovedTo
      <3> QED  BY <3>1, <3>2
    <2>8. Pending(accepts, s, p2) = P3
      <3>1. Left(accepts, q, g, W) = Beyond(accepts, q, g)
        BY <1>0, <1>1, <1>a DEF Left, Beyond
      <3>2. Pending(accepts, s, p2)[q] = P3[q]  BY <1>a, <2>7, <3>1
      <3> QED  BY <2>7, <3>2, KeptSame
    <2>9. Core(s, P3, T, C, L, b)  BY <2>7, CoreSame
    <2>10. TurnAt(pc', turn', okLoc', rose')
      BY <1>0, <1>1, <1>a, <2>1, <2>7 DEF TurnAt
    <2> QED  BY <1>a, <2>1, <2>3, <2>7, <2>8, <2>9, <2>10
  <1> QED  BY <1>2, <1>3

\* A catch-up is under way.
LEMMA CatchingIs ==
    ASSUME IInv, pc \in {"build", "blast", "nfas"}
    PROVE  /\ Core(rose, Pending(accepts, rose, pq), TrueOf(accepts, Handled),
                   ChainAt(Handled), ReportAt(Handled), job.off)
           /\ Lanes(accepts, rose, pq, job.off, NotYetAt(pc, turn, rose), TRUE)
           /\ TurnAt(pc, turn, okLoc, rose) /\ JobOK /\ Catching /\ PqOK(pq) /\ AcceptsOK(accepts)
           /\ rose \in Rose /\ Orderly(rose) /\ job.off \in Times /\ job.off \in Nat
           /\ rose.minNonMpv <= job.off
  <1>1. Catching = TRUE  BY DEF Catching
  <1>2. Lanes(accepts, rose, pq, job.off, NotYetAt(pc, turn, rose), TRUE)
    BY <1>1 DEF IInv
  <1>3. /\ Core(rose, Pending(accepts, rose, pq), TrueOf(accepts, Handled),
                ChainAt(Handled), ReportAt(Handled), job.off)
        /\ TurnAt(pc, turn, okLoc, rose) /\ JobOK
    BY DEF IInv
  <1>4. PqOK(pq) /\ AcceptsOK(accepts)  BY <1>2 DEF Lanes
  <1>5. rose \in Rose /\ Orderly(rose) /\ job.off \in Times  BY <1>3 DEF Core
  <1>6. job.off \in Nat /\ rose.minNonMpv <= job.off  BY <1>3, <1>5, ConstantsAre DEF JobOK
  <1> QED  BY <1>1, <1>2, <1>3, <1>4, <1>5, <1>6

\* The earliest match known.
LEMMA EarliestIs ==
    ASSUME NEW p, PqOK(p), job.off \in Times
    PROVE  /\ Earliest(p) \in Times /\ Earliest(p) <= job.off
           /\ \A x \in p : Earliest(p) <= x.loc
  <1>1. PICK S : S = {x.loc : x \in p} \cup {job.off}  OBVIOUS
  <1>2. \A x \in p : x.loc \in 1 .. Length  BY WaitingIs
  <1>3. \A x \in p : x.loc \in Times  BY <1>2, ConstantsAre DEF Times
  <1>4. S \subseteq Times /\ S \subseteq Nat /\ S # {}  BY <1>1, <1>3, ConstantsAre
  <1>5. Min(S) \in S /\ \A y \in S : Min(S) <= y  BY <1>4, MinIs
  <1>6. Earliest(p) = Min(S)  BY <1>1 DEF Earliest
  <1> QED  BY <1>1, <1>4, <1>5, <1>6

\* An engine run to the first match it has before it.
LEMMA BeyondRunTo ==
    ASSUME NEW a, NEW q \in Others, NEW e \in Engines, NEW o \in Times, e.cur <= o,
           \A n \in Beyond(a, q, e) : o <= n
    PROVE  Beyond(a, q, RunTo(e, o)) = Beyond(a, q, e) \ {o}
  <1>1. PICK f : f = RunTo(e, o)  OBVIOUS
  <1>2. f \in Engines /\ f.cur = o /\ f.tops = e.tops  BY <1>1, RunToIs
  <1>3. \A n : AcceptsIn(a, q, f, n) <=> AcceptsIn(a, q, e, n)  BY <1>2 DEF AcceptsIn
  <1>4. \A n : n \in Beyond(a, q, f) <=> n \in 1 .. Length /\ n > o /\ AcceptsIn(a, q, e, n)
    BY <1>2, <1>3 DEF Beyond
  <1>5. \A n : n \in Beyond(a, q, e) <=> n \in 1 .. Length /\ n > e.cur /\ AcceptsIn(a, q, e, n)
    BY DEF Beyond
  <1>6. e.cur \in Nat /\ o \in Nat /\ \A n \in 1 .. Length : n \in Nat
    <2>1. e.cur \in Times  BY EngineIs
    <2>2. e.cur \in Nat /\ o \in Nat  BY <2>1, ConstantsAre
    <2>3. \A n \in 1 .. Length : n \in Nat  OBVIOUS
    <2> QED  BY <2>2, <2>3
  <1>7. \A n \in Beyond(a, q, e) : n \in Nat  BY <1>5, <1>6
  <1>8. \A n \in Beyond(a, q, e) : n # o => n > o  BY <1>6, <1>7
  <1>9. \A n \in 1 .. Length : n > o => n > e.cur /\ n # o  BY <1>6
  <1>10. \A n : n \in Beyond(a, q, f) <=> n \in Beyond(a, q, e) /\ n # o
    BY <1>4, <1>5, <1>8, <1>9
  <1> QED  BY <1>1, <1>10

\* Where an engine that does not wait, and is on, has still to report.
LEMMA AllBeyond ==
    ASSUME NEW a, NEW r \in Rose, NEW p, NEW b, NEW N, Lanes(a, r, p, b, N, TRUE),
           NEW q \in Others, r.eng[q].on
    PROVE  /\ r.eng[q] \in Engines
           /\ q \in N => /\ WaitsFor(p, q) = {}
                         /\ Pending(a, r, p)[q] = Beyond(a, q, r.eng[q])
           /\ q \in Suffix => r.eng[q].cur <= b
  <1>1. PICK e, W : e = r.eng[q] /\ W = WaitsFor(p, q)  OBVIOUS
  <1>2. /\ e \in Engines /\ W \in SUBSET (1 .. Length) /\ e.on
        /\ LaneOK(a, q, e, W, b, q \in N, TRUE)
    <2>1. e \in Engines  BY <1>1, RoseIs, ConstantsAre
    <2>2. W \in SUBSET (1 .. Length)  BY <1>1 DEF WaitsFor
    <2>3. LaneOK(a, q, r.eng[q], WaitsFor(p, q), b, q \in N, TRUE)  BY DEF Lanes
    <2> QED  BY <1>1, <2>1, <2>2, <2>3
  <1>3. Pending(a, r, p)[q] = Left(a, q, e, W)  BY <1>1, PendingIs
  <1>4. /\ Left(a, q, e, W) = Beyond(a, q, e) \cup W
        /\ q \in N => W = {}
        /\ \A o, n \in W : o = n
    <2>1. PICK ny : ny = (q \in N)  OBVIOUS
    <2>2. LaneOK(a, q, e, W, b, ny, TRUE)  BY <1>2, <2>1
    <2>3. e.on => Left(a, q, e, W) = Beyond(a, q, e) \cup W  BY <1>2, <2>2, LeftIs
    <2>4. q \in N => W = {}  BY <1>2 DEF LaneOK
    <2>5. \A o, n \in W : o = n  BY <1>2, <2>2, LeftIs
    <2> QED  BY <1>2, <2>1, <2>3, <2>4, <2>5
  <1>5. q \in N => W = {} /\ Pending(a, r, p)[q] = Beyond(a, q, e)  BY <1>3, <1>4
  <1>6. q \in Suffix => e.cur <= b  BY <1>2 DEF LaneOK
  <1> QED  BY <1>1, <1>2, <1>3, <1>5, <1>6

\* Where an engine that waits has still to report.
Waits(a, r, p, b, N, q, e, W, o, R) ==
    /\ r \in Rose /\ Lanes(a, r, p, b, N, TRUE) /\ q \in Others
    /\ e = r.eng[q] /\ W = WaitsFor(p, q) /\ o \in W /\ R = Pending(a, r, p)[q]
WaitsAlone(a, q, e, W, o, R) ==
    /\ e \in Engines /\ e.on /\ e.cur = o /\ o \in R /\ W = {o}
    /\ R \ {o} = Beyond(a, q, e)

\* An engine that waits has the match it waits for to report, and those after it.
LEMMA WaitsAt ==
    ASSUME NEW a, NEW r, NEW p, NEW b, NEW N, NEW q, NEW e, NEW W, NEW o, NEW R,
           Waits(a, r, p, b, N, q, e, W, o, R)
    PROVE  WaitsAlone(a, q, e, W, o, R)
  <1>0. /\ r \in Rose /\ Lanes(a, r, p, b, N, TRUE) /\ q \in Others
        /\ e = r.eng[q] /\ W = WaitsFor(p, q) /\ o \in W /\ R = Pending(a, r, p)[q]
    BY DEF Waits
  <1>1. PICK ny : ny = (q \in N)  OBVIOUS
  <1>2. LaneOK(a, q, e, W, b, ny, TRUE)  BY <1>0, <1>1 DEF Lanes
  <1>3. e \in Engines /\ W \in SUBSET (1 .. Length)
    <2>1. e \in Engines  BY <1>0, RoseIs, ConstantsAre
    <2>2. W \in SUBSET (1 .. Length)  BY <1>0 DEF WaitsFor
    <2> QED  BY <2>1, <2>2
  <1>4. e.on /\ e.cur = o  BY <1>0, <1>2 DEF LaneOK
  <1>5. R = Left(a, q, e, W)  BY <1>0, PendingIs
  <1>6. Left(a, q, e, W) = Beyond(a, q, e) \cup W  BY <1>0, <1>2, <1>3, <1>4, LeftIs, ZenonT(60)
  <1>7. \A m, n \in W : m = n  BY <1>0, <1>2, <1>3, LeftIs, ZenonT(60)
  <1>8. W = {o}  BY <1>0, <1>7
  <1>9. o \notin Beyond(a, q, e)
    <2>1. \A n \in Beyond(a, q, e) : n \in Nat /\ e.cur < n  BY <1>3, BeyondIs
    <2> QED  BY <1>4, <2>1
  <1> QED  BY <1>0, <1>3, <1>4, <1>5, <1>6, <1>8, <1>9 DEF WaitsAlone

\* An engine that has still to be run has all that lies after its position to report.
LEMMA NotYetRun ==
    ASSUME NEW a, NEW r \in Rose, NEW p, NEW b, NEW N, Lanes(a, r, p, b, N, TRUE),
           NEW q \in Others, q \in N, r.eng[q].on
    PROVE  Pending(a, r, p)[q] = Beyond(a, q, r.eng[q])
  <1>1. WaitsFor(p, q) = {}  BY AllBeyond
  <1>2. Pending(a, r, p)[q] = Left(a, q, r.eng[q], WaitsFor(p, q))  BY PendingIs
  <1>3. PICK e, W : e = r.eng[q] /\ W = WaitsFor(p, q)  OBVIOUS
  <1>4. Left(a, q, e, W) = Beyond(a, q, e)  BY <1>1, <1>3 DEF Left, Beyond
  <1> QED  BY <1>2, <1>3, <1>4

\* The other engines are not concerned.
LEMMA NextMatchElse ==
    ASSUME NEW r1 \in Rose, NEW q, NEW final, NEW p0, ToNextMatch(r1, q, final, p0)
    PROVE  \A x \in Engine : x # q => rose'.eng[x] = r1.eng[x]
  <1>1. PICK F, e : F = r1.eng /\ rose' = [r1 EXCEPT !.eng[q] = e]
    BY DEF ToNextMatch
  <1>2. F \in [Engine -> Engines]  BY <1>1 DEF Rose
  <1>3. rose'.eng = [F EXCEPT ![q] = e]  BY <1>1 DEF Rose
  <1> QED  BY <1>1, <1>2, <1>3

\* buildSufPQ goes on to the next live suffix, if there is one.
LEMMA GoOnIs ==
    ASSUME pc = "build", turn \in Suffix, GoOn,
           \A x \in Suffix : x # turn => rose'.eng[x] = rose.eng[x]
    PROVE  /\ pc' \in {"build", "nfas"}
           /\ \A x \in Others : x # turn => (x \in NotYetAt(pc', turn', rose')
                                             <=> x \in NotYetAt(pc, turn, rose))
           /\ turn \notin NotYetAt(pc', turn', rose')
           /\ pc' = "build" => turn' \in Suffix /\ rose'.eng[turn'].on
  <1>1. PICK A : A = Later  OBVIOUS
  <1>2. \A x : x \in A <=> x \in Suffix /\ x > turn /\ rose.eng[x].on  BY <1>1 DEF Later
  <1>3. \A x : x \in NotYetAt(pc, turn, rose) <=> x = turn \/ x \in A  BY <1>2 DEF NotYetAt
  <1>4. \A x \in Suffix : x \in Nat  BY ConstantsAre DEF Suffix
  <1>5. CASE A = {}
    <2>1. pc' = "nfas"  BY <1>1, <1>5 DEF GoOn
    <2>2. NotYetAt(pc', turn', rose') = {}  BY <2>1 DEF NotYetAt
    <2> QED  BY <1>3, <1>5, <2>1, <2>2
  <1>6. CASE A # {}
    <2>1. PICK t : t = Min(A)  OBVIOUS
    <2>2. turn' = t /\ pc' = "build"  BY <1>1, <1>6, <2>1 DEF GoOn
    <2>3. A \subseteq Nat  BY <1>2, <1>4
    <2>4. t \in A /\ \A x \in A : t <= x  BY <1>6, <2>1, <2>3, MinIs
    <2>5. t \in Suffix /\ t > turn /\ rose.eng[t].on /\ t \in Nat /\ turn \in Nat /\ t # turn
      BY <1>2, <1>4, <2>4
    <2>6. \A x : x \in NotYetAt(pc', turn', rose')
                 <=> x = t \/ (x \in Suffix /\ x > t /\ rose'.eng[x].on)
      BY <2>2 DEF NotYetAt
    <2>7. \A x \in Suffix : x > t => x > turn /\ x # turn  BY <1>4, <2>5
    <2>8. \A x : x \in NotYetAt(pc', turn', rose') <=> x \in A
      <3>1. \A x \in A : x = t \/ x > t  BY <2>3, <2>4, <2>5
      <3>2. \A x \in Suffix : x > t => (rose'.eng[x].on <=> rose.eng[x].on)  BY <2>7
      <3> QED  BY <1>2, <2>4, <2>6, <2>7, <3>1, <3>2
    <2>9. turn \notin A  BY <1>2, <2>5
    <2>10. rose'.eng[turn'].on  BY <2>2, <2>5
    <2> QED  BY <1>3, <2>2, <2>5, <2>8, <2>9, <2>10
  <1> QED  BY <1>5, <1>6

\* Dropping an exhausted suffix keeps the invariant: it has nothing to report.
LEMMA DropSuffixInv == ASSUME IInv, DropSuffix PROVE IInv'
  <1>a. PICK P, T, C, L, b, q, N, W, f, P2, s, N2 :
            /\ P = Pending(accepts, rose, pq) /\ T = TrueOf(accepts, Handled)
            /\ C = ChainAt(Handled) /\ L = ReportAt(Handled) /\ b = job.off
            /\ q = turn /\ N = NotYetAt(pc, turn, rose) /\ W = WaitsFor(pq, q)
            /\ f = Off /\ s = rose' /\ P2 = Pending(accepts, s, pq)
            /\ N2 = NotYetAt(pc', turn', rose')
    OBVIOUS
  <1>1. /\ pc = "build" /\ q \in rose.spent /\ GoOn /\ s = [rose EXCEPT !.eng[q] = f]
        /\ accepts' = accepts /\ pq' = pq /\ job' = job /\ lits' = lits /\ upTo' = upTo
        /\ okLoc' = okLoc
    BY <1>a DEF DropSuffix, Exhausted
  <1>2. /\ Core(rose, P, T, C, L, b) /\ Lanes(accepts, rose, pq, b, N, TRUE)
        /\ TurnAt(pc, turn, okLoc, rose) /\ JobOK /\ Catching /\ PqOK(pq)
        /\ rose \in Rose /\ rose.minNonMpv <= b
    BY <1>1, <1>a, CatchingIs
  <1>3. /\ q \in Suffix /\ rose.eng[q].on /\ q \in Others /\ q \in Engine
        /\ okLoc = rose.minNonMpv /\ rose.minMatch = okLoc
    BY <1>1, <1>2, <1>a, ConstantsAre DEF TurnAt
  <1>4. q \in N  BY <1>1, <1>a DEF NotYetAt
  <1>5. W = {}  BY <1>2, <1>3, <1>4, <1>a, AllBeyond
  <1>6. f \in Engines /\ ~f.on  BY <1>a, OffIs
  <1>7. s \in Rose /\ s.eng[q] = f /\ SameBut(rose, s, q)
    BY <1>1, <1>2, <1>3, <1>6, WithEngine
  <1>8. \A x \in Engine : x # q => s.eng[x] = rose.eng[x]  BY <1>7 DEF SameBut
  <1>9. /\ pc' \in {"build", "nfas"}
        /\ \A x \in Others : x # q => (x \in N2 <=> x \in N)
        /\ q \notin N2
        /\ pc' = "build" => turn' \in Suffix /\ rose'.eng[turn'].on
    <2>1. \A x \in Suffix : x \in Engine  BY ConstantsAre
    <2>2. \A x \in Suffix : x # turn => rose'.eng[x] = rose.eng[x]  BY <1>8, <1>a, <2>1
    <2>3. pc = "build" /\ turn \in Suffix /\ GoOn  BY <1>1, <1>3, <1>a
    <2>4. pc' \in {"build", "nfas"}  BY <2>2, <2>3, GoOnIs
    <2>5. \A x \in Others : x # turn => (x \in NotYetAt(pc', turn', rose')
                                         <=> x \in NotYetAt(pc, turn, rose))
      BY <2>2, <2>3, GoOnIs
    <2>6. turn \notin NotYetAt(pc', turn', rose')  BY <2>2, <2>3, GoOnIs
    <2>7. pc' = "build" => turn' \in Suffix /\ rose'.eng[turn'].on  BY <2>2, <2>3, GoOnIs
    <2> QED  BY <1>a, <2>4, <2>5, <2>6, <2>7
  <1>10. MovedTo(accepts, rose, s, pq, pq, b, N2, q, f, W)
    <2>1. LaneOK(accepts, q, f, W, b, q \in N2, TRUE)  BY <1>5, <1>6 DEF LaneOK
    <2>2. Moved(accepts, rose, rose, s, pq, pq, b, N, N2, q, f, W)
      BY <1>2, <1>3, <1>6, <1>7, <1>9, <1>a, <2>1 DEF Moved
    <2> QED  BY <2>2, OneLane
  <1>11. Lanes(accepts, s, pq, b, N2, TRUE) /\ Elsewhere(P, P2, q) /\ P2[q] = {}
    BY <1>10, <1>6, <1>a DEF MovedTo, Left
  <1>12. Core(s, P2, T, C, L, b)
    <2>1. \A o \in P2[q] : rose.minNonMpv <= o  BY <1>11
    <2>2. Core(rose, P2, T, C, L, b)  BY <1>1, <1>2, <1>11, <2>1, CoreDrop
    <2> QED  BY <1>3, <1>7, <2>2, CoreSame
  <1>13. s.minNonMpv = rose.minNonMpv /\ s.minMatch = rose.minMatch  BY <1>7 DEF SameBut
  <1>14. TurnAt(pc', turn', okLoc', s)  BY <1>1, <1>3, <1>9, <1>13, <1>a DEF TurnAt
  <1> QED  BY <1>1, <1>2, <1>9, <1>11, <1>12, <1>13, <1>14, <1>a, SteppedInv

\* So does choosing the last suffix to report directly.
LEMMA BlastLastInv == ASSUME IInv, BlastLast PROVE IInv'
  <1>1. /\ pc = "build" /\ pc' = "blast" /\ Later = {} /\ rose' = rose /\ turn' = turn
        /\ accepts' = accepts /\ pq' = pq /\ job' = job /\ lits' = lits /\ upTo' = upTo
        /\ okLoc' = okLoc
    BY DEF BlastLast, Direct
  <1>2. /\ Core(rose, Pending(accepts, rose, pq), TrueOf(accepts, Handled),
                ChainAt(Handled), ReportAt(Handled), job.off)
        /\ Lanes(accepts, rose, pq, job.off, NotYetAt(pc, turn, rose), TRUE)
        /\ TurnAt(pc, turn, okLoc, rose) /\ JobOK /\ Catching /\ rose.minNonMpv <= job.off
    BY <1>1, CatchingIs
  <1>3. NotYetAt(pc', turn', rose') = NotYetAt(pc, turn, rose)
    <2>1. NotYetAt(pc, turn, rose) = {turn} \cup Later  BY <1>1 DEF NotYetAt, Later
    <2>2. NotYetAt(pc', turn', rose') = {turn}  BY <1>1 DEF NotYetAt
    <2> QED  BY <1>1, <2>1, <2>2
  <1>4. TurnAt(pc', turn', okLoc', rose')  BY <1>1, <1>2, ConstantsAre DEF TurnAt
  <1> QED  BY <1>1, <1>2, <1>3, <1>4, SteppedInv

\* So does the end of a blast, when the engine goes back to the queue.
LEMMA BlastEndInv == ASSUME IInv, BlastEnd PROVE IInv'
  <1>a. PICK P, T, C, L, b, q, N, N2, final :
            /\ P = Pending(accepts, rose, pq) /\ T = TrueOf(accepts, Handled)
            /\ C = ChainAt(Handled) /\ L = ReportAt(Handled) /\ b = job.off
            /\ q = turn /\ N = NotYetAt(pc, turn, rose) /\ N2 = {}
            /\ final = FinalLoc(q)
    OBVIOUS
  <1>1. /\ pc = "blast" /\ ToNextMatch(rose, q, final, pq) /\ pc' = "nfas"
        /\ accepts' = accepts /\ job' = job /\ lits' = lits /\ upTo' = upTo
    BY <1>a DEF BlastEnd
  <1>2. /\ Core(rose, P, T, C, L, b) /\ Lanes(accepts, rose, pq, b, N, TRUE)
        /\ TurnAt(pc, turn, okLoc, rose) /\ JobOK /\ Catching /\ PqOK(pq)
        /\ rose \in Rose /\ rose.minNonMpv <= b /\ b \in Times
    BY <1>1, <1>a, CatchingIs
  <1>3. q \in Others /\ rose.eng[q].on  BY <1>1, <1>2, <1>a DEF TurnAt
  <1>4. N = {q}  BY <1>1, <1>a DEF NotYetAt
  <1>5. /\ WaitsFor(pq, q) = {} /\ P[q] = Beyond(accepts, q, rose.eng[q])
        /\ q \in Suffix => rose.eng[q].cur <= b
        /\ rose.eng[q] \in Engines
    <2>1. q \in N  BY <1>4
    <2>2. rose.eng[q] \in Engines  BY <1>2, <1>3, AllBeyond
    <2>3. WaitsFor(pq, q) = {} /\ P[q] = Beyond(accepts, q, rose.eng[q])
      <3>1. WaitsFor(pq, q) = {}  BY <1>2, <1>3, <2>1, AllBeyond
      <3>2. Pending(accepts, rose, pq)[q] = Beyond(accepts, q, rose.eng[q])
        BY <1>2, <1>3, <2>1, NotYetRun
      <3> QED  BY <1>a, <3>1, <3>2
    <2>4. q \in Suffix => rose.eng[q].cur <= b  BY <1>2, <1>3, AllBeyond
    <2> QED  BY <2>2, <2>3, <2>4
  <1>6. /\ final \in Times /\ rose.eng[q].cur <= final /\ b <= final
        /\ q \in Suffix => final = b
        /\ q \in Outfix => final = Length
    <2>1. final = IF q \in Suffix THEN b ELSE Length  BY <1>a DEF FinalLoc
    <2>2. /\ b \in Nat /\ b <= Length /\ rose.eng[q].cur \in Nat /\ rose.eng[q].cur <= Length
          /\ Length \in Times
      BY <1>2, <1>5, EngineIs, ConstantsAre DEF Times
    <2>3. q \in Outfix => q \notin Suffix  BY ConstantsAre
    <2> QED  BY <1>2, <1>5, <2>1, <2>2, <2>3
  <1>7. Elsewhere(P, P, q)  BY <1>a, PendingIs DEF Elsewhere
  <1>8. q \notin N2 /\ \A x \in Others : x # q => (x \in N2 <=> x \in N)  BY <1>4, <1>a
  <1>9. /\ Core(rose', Pending(accepts, rose', pq'), T, C, L, b)
        /\ Lanes(accepts, rose', pq', b, N2, TRUE)
        /\ SameBut(rose, rose', q)
    BY <1>1, <1>2, <1>3, <1>5, <1>6, <1>7, <1>8, <1>a, NextMatchIs, ZenonT(60)
  <1>10. /\ NotYetAt(pc', turn', rose') = N2 /\ TurnAt(pc', turn', okLoc', rose')
         /\ rose'.minNonMpv <= b
    BY <1>1, <1>2, <1>9, <1>a DEF NotYetAt, TurnAt, SameBut
  <1> QED  BY <1>1, <1>2, <1>9, <1>10, <1>a, SteppedInv

\* Who has the least match still to report: the engine q, at o.
Leads(P, q, o) ==
    /\ o \in P[q] /\ \A p \in Others : \A n \in P[p] : o <= n

\* The engine q reports what comes first of all.
LEMMA LeaderReports ==
    ASSUME NEW r, NEW P, NEW T, NEW C, NEW L, NEW b, NEW q \in Others, NEW o,
           Core(r, P, T, C, L, b), r.chained = Chained, Leads(P, q, o), o <= b
    PROVE  LET s == Report(r, q, o) IN
           /\ s \in Rose /\ Core(s, Popped(P, q, o), T, C, L, b)
           /\ s.minMatch \in {r.minMatch, o} /\ s.minNonMpv \in {r.minNonMpv, o}
           /\ \A p \in Others : s.eng[p] = r.eng[p]
  <1>a. PICK s, P2 : s = Report(r, q, o) /\ P2 = Popped(P, q, o)  OBVIOUS
  <1>1. Kept(P)  BY DEF Core
  <1>2. Elsewhere(P, P2, q) /\ P2[q] = P[q] \ {o}  BY <1>1, <1>a, PoppedIs
  <1>3. o \in P[q] /\ (\A p \in Others : \A n \in P[p] : o <= n) /\ \A n \in P2[q] : o <= n
    BY <1>2 DEF Leads
  <1>4. q \notin Single => P2[q] = P[q] \ {o}  BY <1>2
  <1>5. /\ Core(s, P2, T, C, L, b)
        /\ s.minMatch \in {r.minMatch, o} /\ s.minNonMpv \in {r.minNonMpv, o}
        /\ s.chained = r.chained /\ \A p \in Others : s.eng[p] = r.eng[p]
    BY <1>2, <1>3, <1>4, <1>a, CoreReport
  <1>6. s \in Rose  BY <1>5 DEF Core
  <1> QED  BY <1>5, <1>6, <1>a

\* The offset that what is caught up so far reaches stays within the catch-up.
LEMMA BoundKept ==
    ASSUME NEW m, NEW n, NEW o, NEW b, n <= b, o <= b, m \in {n, o} PROVE m <= b
  OBVIOUS

\* So does a report of a blast.
LEMMA BlastReportInv == ASSUME IInv, BlastReport PROVE IInv'
  <1>a. PICK P, T, C, L, b, q, N, e, o, r1, P3, A, v :
            /\ P = Pending(accepts, rose, pq) /\ T = TrueOf(accepts, Handled)
            /\ C = ChainAt(Handled) /\ L = ReportAt(Handled) /\ b = job.off
            /\ q = turn /\ N = NotYetAt(pc, turn, rose) /\ e = rose.eng[q]
            /\ A = Blastable /\ o = Min(A) /\ r1 = Report(rose, q, o)
            /\ P3 = Popped(P, q, o) /\ v = Earliest(pq)
    OBVIOUS
  <1>1. /\ pc = "blast" /\ A # {} /\ Reported(r1, q, o)
        /\ accepts' = accepts /\ pq' = pq /\ job' = job /\ lits' = lits /\ upTo' = upTo
        /\ turn' = q
    BY <1>a DEF BlastReport
  <1>2. /\ Core(rose, P, T, C, L, b) /\ Lanes(accepts, rose, pq, b, N, TRUE)
        /\ TurnAt(pc, turn, okLoc, rose) /\ JobOK /\ Catching /\ PqOK(pq)
        /\ rose \in Rose /\ rose.minNonMpv <= b /\ b \in Times
    BY <1>1, <1>a, CatchingIs
  <1>3. q \in Others /\ e.on  BY <1>1, <1>2, <1>a DEF TurnAt
  <1>4. N = {q}  BY <1>1, <1>a DEF NotYetAt
  <1>5. WaitsFor(pq, q) = {} /\ P[q] = Beyond(accepts, q, e) /\ e \in Engines
    <2>1. q \in N /\ rose.eng[q].on  BY <1>3, <1>4, <1>a
    <2>2. rose.eng[q] \in Engines  BY <1>2, <1>3, <2>1, AllBeyond
    <2>3. WaitsFor(pq, q) = {}  BY <1>2, <1>3, <2>1, AllBeyond
    <2>4. Pending(accepts, rose, pq)[q] = Beyond(accepts, q, rose.eng[q])
      BY <1>2, <1>3, <2>1, NotYetRun
    <2> QED  BY <1>a, <2>2, <2>3, <2>4
  <1>6. v \in Times /\ v <= b /\ \A x \in pq : v <= x.loc
    <2>1. job.off \in Times  BY <1>2, <1>a
    <2>2. Earliest(pq) \in Times /\ Earliest(pq) <= job.off /\ \A x \in pq : Earliest(pq) <= x.loc
      BY <1>2, <2>1, EarliestIs
    <2> QED  BY <1>a, <2>2
  <1>7. \A n : n \in A <=> n \in Beyond(accepts, q, e) /\ n <= v
    <2>1. A = Ahead(q, e, v)  BY <1>a DEF Blastable
    <2> QED  BY <1>3, <1>5, <1>6, <2>1, AheadIs
  <1>8. \A n \in Beyond(accepts, q, e) : n \in Nat /\ n \in Times /\ e.cur < n
    BY <1>5, BeyondIs
  <1>9. /\ o \in Beyond(accepts, q, e) /\ o <= v /\ \A n \in A : o <= n
        /\ o \in Nat /\ o \in Times /\ e.cur < o
    <2>1. A \subseteq Nat  BY <1>7, <1>8
    <2>2. o \in A /\ \A n \in A : o <= n  BY <1>1, <1>a, <2>1, MinIs
    <2> QED  BY <1>7, <1>8, <2>2
  <1>10. v \in Nat /\ b \in Nat /\ o <= b
    <2>1. v \in Nat /\ b \in Nat  BY <1>2, <1>6, ConstantsAre
    <2> QED  BY <1>6, <1>9, <2>1
  <1>11. \A n \in Beyond(accepts, q, e) : o <= n
    <2>1. \A n \in Beyond(accepts, q, e) : n <= v \/ v < n  BY <1>8, <1>10
    <2> QED  BY <1>7, <1>8, <1>9, <1>10, <2>1
  <1>12. Leads(P, q, o)
    <2>1. ASSUME NEW p \in Others, NEW n \in P[p] PROVE o <= n
      <3>1. CASE p = q  BY <1>5, <1>11, <2>1, <3>1
      <3>2. CASE p # q
        <4>1. p \notin N /\ n \in Pending(accepts, rose, pq)[p]  BY <1>4, <1>a, <2>1, <3>2
        <4>2. v <= n  BY <1>2, <1>6, <4>1, PendingFrom
        <4>3. n \in Nat
          <5>1. Kept(P)  BY <1>2 DEF Core
          <5> QED  BY <5>1, <2>1, KeptIs
        <4> QED  BY <1>9, <1>10, <4>2, <4>3
      <3> QED  BY <3>1, <3>2
    <2> QED  BY <1>5, <1>9, <2>1 DEF Leads
  <1>13. /\ r1 \in Rose /\ Core(r1, P3, T, C, L, b)
         /\ r1.minNonMpv \in {rose.minNonMpv, o}
         /\ \A p \in Others : r1.eng[p] = rose.eng[p]
    <2>1. rose.chained = Chained  BY DEF Chained
    <2> QED  BY <1>2, <1>3, <1>10, <1>12, <1>a, <2>1, LeaderReports
  <1>14. Elsewhere(P, P3, q) /\ P3[q] = Beyond(accepts, q, RunTo(r1.eng[q], o))
    <2>1. Kept(P)  BY <1>2 DEF Core
    <2>2. Elsewhere(P, P3, q) /\ P3[q] = P[q] \ {o}  BY <1>3, <1>a, <2>1, PoppedIs
    <2>3. e.cur <= o
      <3>1. e.cur \in Nat  BY <1>5, EngineIs, ConstantsAre
      <3> QED  BY <1>9, <3>1
    <2>4. Beyond(accepts, q, RunTo(e, o)) = Beyond(accepts, q, e) \ {o}
      <3>1. q \in Others /\ e \in Engines /\ o \in Times /\ e.cur <= o  BY <1>3, <1>5, <1>9, <2>3
      <3> QED  BY ONLY <1>11, <3>1, BeyondRunTo
    <2>5. r1.eng[q] = e  BY <1>3, <1>13, <1>a
    <2> QED  BY <1>5, <2>2, <2>4, <2>5
  <1>15. /\ Core(rose', Pending(accepts, rose', pq'), T, C, L, b)
         /\ Lanes(accepts, rose', pq', b, NotYetAt(pc', turn', rose'), TRUE)
         /\ TurnAt(pc', turn', okLoc', rose')
         /\ pc' \in {"blast", "nfas"} /\ SameBut(r1, rose', q)
    <2>1. \A x \in Others : x # q => r1.eng[x] = rose.eng[x]  BY <1>13
    <2>2. r1.eng[q].on  BY <1>3, <1>13, <1>a
    <2>3. /\ PqOK(pq') /\ WaitsFor(pq', q) = {}
          /\ \A x \in Others : x # q => WaitsFor(pq', x) = WaitsFor(pq, x)
      BY <1>1, <1>2, <1>5
    <2>4. \A x \in Others : x # q => x \notin N  BY <1>4
    <2>5. Elsewhere(Pending(accepts, rose, pq), P3, q)  BY <1>14, <1>a
    <2> QED
      BY <1>1, <1>2, <1>3, <1>9, <1>10, <1>13, <1>14, <2>1, <2>2, <2>3, <2>4, <2>5, ReportedIs
  <1>16. rose'.minNonMpv <= b
    <2>1. rose'.minNonMpv = r1.minNonMpv  BY <1>15 DEF SameBut
    <2> QED  BY <1>2, <1>10, <1>13, <2>1, BoundKept
  <1> QED  BY <1>1, <1>2, <1>15, <1>16, <1>a, SteppedInv

\* So does adding a suffix to the queue.
LEMMA AddToQueueInv == ASSUME IInv, AddToQueue PROVE IInv'
  <1>a. PICK P, T, C, L, b, q, N, e, o, hit :
            /\ P = Pending(accepts, rose, pq) /\ T = TrueOf(accepts, Handled)
            /\ C = ChainAt(Handled) /\ L = ReportAt(Handled) /\ b = job.off
            /\ q = turn /\ N = NotYetAt(pc, turn, rose) /\ e = rose.eng[q]
            /\ o = okLoc /\ hit = (Accepts(q, e, o) /\ e.cur < o)
    OBVIOUS
  <1>1. /\ pc = "build" /\ GoOn /\ okLoc' = o
        /\ accepts' = accepts /\ job' = job /\ lits' = lits /\ upTo' = upTo
    BY <1>a DEF AddToQueue
  <1>2. /\ Core(rose, P, T, C, L, b) /\ Lanes(accepts, rose, pq, b, N, TRUE)
        /\ TurnAt(pc, turn, okLoc, rose) /\ JobOK /\ Catching /\ PqOK(pq)
        /\ rose \in Rose /\ rose.minNonMpv <= b /\ b \in Times
    BY <1>1, <1>a, CatchingIs
  <1>3. /\ q \in Suffix /\ q \in Others /\ q \in Engine /\ q \notin Outfix /\ e.on
        /\ o = rose.minNonMpv /\ rose.minMatch = o
    BY <1>1, <1>2, <1>a, ConstantsAre DEF TurnAt
  <1>4. q \in N  BY <1>1, <1>a DEF NotYetAt
  <1>5. WaitsFor(pq, q) = {} /\ P[q] = Beyond(accepts, q, e) /\ e \in Engines /\ e.cur <= b
    <2>1. q \in N /\ rose.eng[q].on  BY <1>3, <1>4, <1>a
    <2>2. rose.eng[q] \in Engines  BY <1>2, <1>3, <2>1, AllBeyond
    <2>3. WaitsFor(pq, q) = {}  BY <1>2, <1>3, <2>1, AllBeyond
    <2>4. Pending(accepts, rose, pq)[q] = Beyond(accepts, q, rose.eng[q])
      BY <1>2, <1>3, <2>1, NotYetRun
    <2>5. rose.eng[q].cur <= b  BY <1>2, <1>3, <2>1, AllBeyond
    <2> QED  BY <1>a, <2>2, <2>3, <2>4, <2>5
  <1>6. /\ o \in Times /\ o \in Nat /\ o <= b /\ e.cur \in Nat
        /\ \A p \in Others : \A n \in P[p] : o <= n
    <2>1. o \in Times /\ o <= b  BY <1>2, <1>3, RoseIs
    <2>2. e.cur \in Times  BY <1>5, EngineIs
    <2>3. \A p \in Others : \A n \in P[p] : o <= n  BY <1>2, <1>3 DEF Core, Low
    <2> QED  BY <2>1, <2>2, <2>3, ConstantsAre
  <1>7. Kept(P)  BY <1>2 DEF Core
  \* The engine after the match at okLoc, if there is one.
  <1>8. \E r1, P3 : /\ Core(r1, P3, T, C, L, b) /\ r1 \in Rose
                    /\ \A x \in Engine : x # q /\ x # MPV => r1.eng[x] = rose.eng[x]
                    /\ r1.eng[q].on /\ r1.eng[q].cur <= b
                    /\ r1.minMatch = o /\ r1.minNonMpv = o
                    /\ Elsewhere(P, P3, q) /\ P3[q] = Beyond(accepts, q, r1.eng[q])
                    /\ ToNextMatch(r1, q, b, pq)
    <2>1. CASE hit
      <3>a. PICK r, f, s, P3 : /\ r = Report(rose, q, o) /\ f = RunTo(e, o)
                               /\ s = [r EXCEPT !.eng[q] = f] /\ P3 = Popped(P, q, o)
        OBVIOUS
      <3>1. e.cur < o /\ Accepts(q, e, o)  BY <1>a, <2>1
      <3>2. o \in Beyond(accepts, q, e)
        <4>1. o \in 1 .. Length  BY <1>6, <3>1, ConstantsAre DEF Times
        <4>2. AcceptsIn(accepts, q, e, o)  BY <3>1 DEF Accepts, AcceptsIn
        <4> QED  BY <1>6, <3>1, <4>1, <4>2 DEF Beyond
      <3>3. Leads(P, q, o)  BY <1>5, <1>6, <3>2 DEF Leads
      <3>4. /\ r \in Rose /\ Core(r, P3, T, C, L, b)
            /\ r.minMatch = o /\ r.minNonMpv = o
            /\ \A p \in Others : r.eng[p] = rose.eng[p]
        <4>1. rose.chained = Chained  BY DEF Chained
        <4>2. /\ r \in Rose /\ Core(r, P3, T, C, L, b)
              /\ r.minMatch \in {rose.minMatch, o} /\ r.minNonMpv \in {rose.minNonMpv, o}
              /\ \A p \in Others : r.eng[p] = rose.eng[p]
          BY <1>2, <1>3, <1>6, <3>3, <3>a, <4>1, LeaderReports
        <4> QED  BY <1>3, <4>2
      <3>5. r.eng[q] = e  BY <1>3, <1>a, <3>4
      <3>6. f \in Engines /\ f.on = e.on /\ f.cur = o  BY <1>5, <1>6, <3>a, RunToIs
      <3>7. s \in Rose /\ s.eng[q] = f /\ SameBut(r, s, q)
        BY <1>3, <3>4, <3>6, <3>a, WithEngine
      <3>8. Core(s, P3, T, C, L, b)  BY <1>3, <3>4, <3>7, CoreSame
      <3>9. Elsewhere(P, P3, q) /\ P3[q] = Beyond(accepts, q, f)
        <4>1. Elsewhere(P, P3, q) /\ P3[q] = P[q] \ {o}  BY <1>3, <1>7, <3>a, PoppedIs
        <4>2. e.cur <= o  BY <1>6, <3>1
        <4>3. \A n \in Beyond(accepts, q, e) : o <= n  BY <1>3, <1>5, <1>6
        <4>4. Beyond(accepts, q, RunTo(e, o)) = Beyond(accepts, q, e) \ {o}
          BY <1>3, <1>5, <1>6, <4>2, <4>3, BeyondRunTo
        <4> QED  BY <1>5, <3>a, <4>1, <4>4
      <3>10. \A x \in Engine : x # q /\ x # MPV => s.eng[x] = rose.eng[x]
        BY <3>4, <3>7 DEF SameBut, Others
      <3>11. ToNextMatch(s, q, b, pq)
        <4>1. s = [r EXCEPT !.eng[q] = RunTo(@, o)]
          BY <3>5, <3>a
        <4>2. hit = (Accepts(turn, rose.eng[turn], okLoc) /\ rose.eng[turn].cur < okLoc)
          BY <1>a
        <4> QED  BY <1>a, <2>1, <3>a, <4>1, <4>2 DEF AddToQueue
      <3>12. s.minMatch = o /\ s.minNonMpv = o  BY <3>4, <3>7 DEF SameBut
      <3>13. s.eng[q].on /\ s.eng[q].cur <= b  BY <1>3, <1>6, <3>6, <3>7
      <3>14. P3[q] = Beyond(accepts, q, s.eng[q])  BY <3>7, <3>9
      <3> QED  BY <3>7, <3>8, <3>9, <3>10, <3>11, <3>12, <3>13, <3>14
    <2>2. CASE ~hit
      <3>1. ToNextMatch(rose, q, b, pq)
        <4>1. hit = (Accepts(turn, rose.eng[turn], okLoc) /\ rose.eng[turn].cur < okLoc)
          BY <1>a
        <4> QED  BY <1>a, <2>2, <4>1 DEF AddToQueue
      <3>2. Elsewhere(P, P, q)  BY <1>7 DEF Elsewhere
      <3> QED  BY <1>2, <1>3, <1>5, <1>a, <3>1, <3>2
    <2>3. hit \in BOOLEAN  BY <1>a
    <2> QED  BY <2>1, <2>2, <2>3
  <1>9. PICK r1, P3 : /\ Core(r1, P3, T, C, L, b) /\ r1 \in Rose
                      /\ \A x \in Engine : x # q /\ x # MPV => r1.eng[x] = rose.eng[x]
                      /\ r1.eng[q].on /\ r1.eng[q].cur <= b
                      /\ r1.minMatch = o /\ r1.minNonMpv = o
                      /\ Elsewhere(P, P3, q) /\ P3[q] = Beyond(accepts, q, r1.eng[q])
                      /\ ToNextMatch(r1, q, b, pq)
    BY <1>8
  <1>10. PICK N2 : N2 = NotYetAt(pc', turn', rose')  OBVIOUS
  <1>11. /\ pc' \in {"build", "nfas"}
         /\ \A x \in Others : x # q => (x \in N2 <=> x \in N)
         /\ q \notin N2
         /\ pc' = "build" => turn' \in Suffix /\ rose'.eng[turn'].on
    <2>1. \A x \in Engine : x # q => rose'.eng[x] = r1.eng[x]  BY <1>9, NextMatchElse
    <2>2. \A x \in Suffix : x \in Engine /\ x # MPV  BY ConstantsAre
    <2>3. \A x \in Suffix : x # turn => rose'.eng[x] = rose.eng[x]
      BY <1>9, <1>a, <2>1, <2>2
    <2>4. pc = "build" /\ turn \in Suffix /\ GoOn  BY <1>1, <1>3, <1>a
    <2>5. pc' \in {"build", "nfas"}  BY <2>3, <2>4, GoOnIs
    <2>6. \A x \in Others : x # turn => (x \in NotYetAt(pc', turn', rose')
                                         <=> x \in NotYetAt(pc, turn, rose))
      BY <2>3, <2>4, GoOnIs
    <2>7. turn \notin NotYetAt(pc', turn', rose')  BY <2>3, <2>4, GoOnIs
    <2>8. pc' = "build" => turn' \in Suffix /\ rose'.eng[turn'].on  BY <2>3, <2>4, GoOnIs
    <2> QED  BY <1>10, <1>a, <2>5, <2>6, <2>7, <2>8
  <1>12. /\ Core(rose', Pending(accepts, rose', pq'), T, C, L, b)
         /\ Lanes(accepts, rose', pq', b, N2, TRUE)
         /\ SameBut(r1, rose', q)
    <2>1. \A x \in Others : x # q => r1.eng[x] = rose.eng[x]  BY <1>9, ConstantsAre DEF Others
    <2>2. b <= b /\ (q \in Suffix => b = b) /\ (q \in Outfix => b = Length)
      BY <1>2, <1>3, ConstantsAre
    <2>3. Elsewhere(Pending(accepts, rose, pq), P3, q)  BY <1>9, <1>a
    <2>4. \A x \in Others : x # q => WaitsFor(pq, x) = WaitsFor(pq, x)  OBVIOUS
    <2> QED  BY <1>2, <1>3, <1>5, <1>9, <1>11, <2>1, <2>2, <2>3, <2>4, NextMatchIs, ZenonT(60)
  <1>13. /\ rose'.minNonMpv = o /\ rose'.minMatch = o  BY <1>9, <1>12 DEF SameBut
  <1>14. TurnAt(pc', turn', okLoc', rose')  BY <1>1, <1>11, <1>13 DEF TurnAt
  <1>15. rose'.minNonMpv <= b /\ pc' \in {"build", "blast", "nfas"}  BY <1>6, <1>11, <1>13
  <1> QED  BY <1>1, <1>2, <1>10, <1>12, <1>14, <1>15, <1>a, SteppedInv

\* Where the engine may be run to, once it stands at o in a catch-up to b.
LEMMA FinalIs ==
    ASSUME NEW q \in Others, NEW o \in Times, NEW b \in Times, b = job.off, o <= b
    PROVE  LET final == FinalLoc(q) IN
           /\ final \in Times /\ o <= final /\ b <= final
           /\ q \in Suffix => final = b
           /\ q \in Outfix => final = Length
  <1>a. PICK final : final = FinalLoc(q)  OBVIOUS
  <1>1. final = IF q \in Suffix THEN b ELSE Length  BY <1>a DEF FinalLoc
  <1>2. /\ b \in Nat /\ b <= Length /\ o \in Nat /\ o <= Length /\ Length \in Times
    BY ConstantsAre DEF Times
  <1>3. q \in Outfix => q \notin Suffix  BY ConstantsAre
  <1> QED  BY <1>1, <1>2, <1>3, <1>a

\* The match that is served first comes first of all.
LEMMA FirstLeads ==
    ASSUME IInv, pc = "nfas", NEW x \in First
    PROVE  /\ Leads(Pending(accepts, rose, pq), x.q, x.loc)
           /\ x.q \in Others /\ x.loc \in Times /\ x.loc <= job.off
           /\ rose.eng[x.q] \in Engines /\ rose.eng[x.q].on /\ rose.eng[x.q].cur = x.loc
           /\ WaitsFor(pq, x.q) = {x.loc}
           /\ Pending(accepts, rose, pq)[x.q] \ {x.loc} = Beyond(accepts, x.q, rose.eng[x.q])
           /\ rose.minMatch <= x.loc
  <1>a. PICK P, b, q, o, N :
            /\ P = Pending(accepts, rose, pq) /\ b = job.off /\ q = x.q /\ o = x.loc
            /\ N = NotYetAt(pc, turn, rose)
    OBVIOUS
  <1>1. /\ Lanes(accepts, rose, pq, b, N, TRUE) /\ PqOK(pq) /\ rose \in Rose /\ b \in Times
        /\ Low(rose, P) /\ Orderly(rose) /\ Kept(P)
    BY <1>a, CatchingIs DEF Core
  <1>2. x \in pq /\ o <= b /\ \A y \in pq : o <= y.loc  BY <1>a DEF First
  <1>3. q \in Others /\ o \in 1 .. Length /\ o \in WaitsFor(pq, q)
    BY <1>1, <1>2, <1>a, WaitingIs
  <1>4. o \in Times /\ o \in Nat  BY <1>3, ConstantsAre DEF Times
  <1>5. N = {}  BY <1>a DEF NotYetAt
  <1>6. PICK e, W, R : e = rose.eng[q] /\ W = WaitsFor(pq, q) /\ R = Pending(accepts, rose, pq)[q]
    OBVIOUS
  <1>7. o \in W  BY <1>3, <1>6
  <1>8. /\ e \in Engines /\ e.on /\ e.cur = o /\ o \in R /\ W = {o}
        /\ R \ {o} = Beyond(accepts, q, e)
    <2>1. Waits(accepts, rose, pq, b, N, q, e, W, o, R)
      BY <1>1, <1>3, <1>6, <1>7 DEF Waits
    <2>2. WaitsAlone(accepts, q, e, W, o, R)  BY <2>1, WaitsAt
    <2> QED  BY <2>2 DEF WaitsAlone
  <1>9. \A p \in Others : \A n \in P[p] : o <= n
    <2> SUFFICES ASSUME NEW p \in Others, NEW n \in P[p] PROVE o <= n  OBVIOUS
    <2>1. p \notin N /\ n \in Pending(accepts, rose, pq)[p]  BY <1>5, <1>a
    <2> QED  BY <1>1, <1>2, <1>4, <2>1, PendingFrom
  <1>10. Leads(P, q, o)  BY <1>6, <1>8, <1>9, <1>a DEF Leads
  <1>11. rose.minMatch <= o
    <2>1. rose.minNonMpv <= o  BY <1>1, <1>3, <1>6, <1>8, <1>a DEF Low
    <2>2. rose.minMatch \in Nat /\ rose.minNonMpv \in Nat /\ rose.minMatch <= rose.minNonMpv
      BY <1>1, RoseIs, ConstantsAre DEF Orderly
    <2> QED  BY <1>4, <2>1, <2>2
  <1> QED  BY <1>2, <1>3, <1>4, <1>6, <1>7, <1>8, <1>10, <1>11, <1>a

\* So does serving the earliest match of the queue.
LEMMA ServeInv == ASSUME IInv, NEW x, Serve(x) PROVE IInv'
  <1>a. PICK P, T, C, L, b, q, N, e, o, r0, r1, P3, others, final, N2 :
            /\ P = Pending(accepts, rose, pq) /\ T = TrueOf(accepts, Handled)
            /\ C = ChainAt(Handled) /\ L = ReportAt(Handled) /\ b = job.off
            /\ q = x.q /\ N = NotYetAt(pc, turn, rose) /\ e = rose.eng[q] /\ o = x.loc
            /\ r0 = roseCatchUpMPV(rose, o) /\ r1 = Report(r0, q, o)
            /\ P3 = Popped(P, q, o) /\ others = pq \ {x} /\ final = FinalLoc(q)
            /\ N2 = {}
    OBVIOUS
  <1>1. /\ pc = "nfas" /\ x \in First /\ accepts' = accepts /\ job' = job /\ lits' = lits
        /\ upTo' = upTo
        /\ \/ ToNextMatch(r1, q, final, others) /\ pc' = pc
           \/ Reported(r1, q, o) /\ pq' = others /\ turn' = q
    BY <1>a DEF Serve
  <1>2. /\ Core(rose, P, T, C, L, b) /\ Lanes(accepts, rose, pq, b, N, TRUE)
        /\ JobOK /\ Catching /\ PqOK(pq)
        /\ rose \in Rose /\ rose.minNonMpv <= b /\ b \in Times
    BY <1>1, <1>a, CatchingIs
  <1>3. /\ Leads(P, q, o) /\ q \in Others /\ o \in Times /\ o <= b
        /\ e \in Engines /\ e.on /\ e.cur = o /\ WaitsFor(pq, q) = {o}
        /\ P[q] \ {o} = Beyond(accepts, q, e) /\ rose.minMatch <= o
    BY <1>1, <1>a, FirstLeads
  <1>4. N = {} /\ x \in pq  BY <1>1, <1>a DEF NotYetAt, First
  <1>5. /\ Core(r0, P, T, C, L, b)
        /\ r0.minNonMpv \in {rose.minNonMpv, o} /\ r0.chained = Chained
        /\ \A p \in Others : r0.eng[p] = rose.eng[p]
    <2>1. \A p \in Others : \A n \in P[p] : o <= n  BY <1>3 DEF Leads
    <2>2. /\ Core(r0, P, T, C, L, b)
          /\ r0.minMatch = o /\ r0.minNonMpv = Later2(rose.minNonMpv, o)
          /\ r0.spent = rose.spent /\ r0.chained = rose.chained
          /\ \A p \in Others : r0.eng[p] = rose.eng[p]
      BY <1>2, <1>3, <1>a, <2>1, CoreCatchMpv
    <2> QED  BY <2>2 DEF Later2, Chained
  <1>6. /\ r1 \in Rose /\ Core(r1, P3, T, C, L, b)
        /\ r1.minNonMpv \in {r0.minNonMpv, o}
        /\ \A p \in Others : r1.eng[p] = r0.eng[p]
    BY <1>3, <1>5, <1>a, LeaderReports
  <1>7. r1.minNonMpv <= b
    <2>1. r1.minNonMpv \in {rose.minNonMpv, o}  BY <1>5, <1>6
    <2> QED  BY <1>2, <1>3, <2>1, BoundKept
  <1>8. /\ \A p \in Others : p # q => r1.eng[p] = rose.eng[p]
        /\ r1.eng[q] = e /\ r1.eng[q].on
    BY <1>3, <1>5, <1>6, <1>a
  <1>9. Elsewhere(P, P3, q) /\ P3[q] = Beyond(accepts, q, e)
    <2>1. Kept(P)  BY <1>2 DEF Core
    <2>2. Elsewhere(P, P3, q) /\ P3[q] = P[q] \ {o}  BY <1>3, <1>a, <2>1, PoppedIs
    <2> QED  BY <1>3, <2>2
  <1>10. /\ PqOK(others) /\ WaitsFor(others, q) = {}
         /\ \A y \in Others : y # q => WaitsFor(others, y) = WaitsFor(pq, y)
    <2>1. WaitsFor(pq, x.q) \subseteq {x.loc}  BY <1>3, <1>a
    <2>2. PqOK(pq \ {x})  BY <1>2, <1>4, <2>1, WaitsWithout
    <2>3. WaitsFor(pq \ {x}, x.q) = {}  BY <1>2, <1>4, <2>1, WaitsWithout
    <2>4. \A y \in Others : y # x.q => WaitsFor(pq \ {x}, y) = WaitsFor(pq, y)
      BY <1>2, <1>4, <2>1, WaitsWithout
    <2> QED  BY <1>a, <2>2, <2>3, <2>4
  \* It is run to its next match, because another engine has one at this offset.
  <1>11. CASE ToNextMatch(r1, q, final, others) /\ pc' = pc
    <2>1. /\ final \in Times /\ o <= final /\ b <= final
          /\ q \in Suffix => final = b
          /\ q \in Outfix => final = Length
      BY <1>2, <1>3, <1>a, FinalIs
    <2>2. q \notin N2 /\ \A p \in Others : p # q => (p \in N2 <=> p \in N)  BY <1>4, <1>a
    <2>3. r1.eng[q].cur <= final  BY <1>3, <1>8, <2>1
    <2>4. Elsewhere(Pending(accepts, rose, pq), P3, q) /\ P3[q] = Beyond(accepts, q, r1.eng[q])
      BY <1>8, <1>9, <1>a
    <2>5. ToNextMatch(r1, q, final, others)  BY <1>11
    <2>6. /\ Core(rose', Pending(accepts, rose', pq'), T, C, L, b)
          /\ Lanes(accepts, rose', pq', b, N2, TRUE)
          /\ SameBut(r1, rose', q)
      <3>1. /\ q \in Others /\ q \notin N2 /\ r1 \in Rose /\ b \in Times /\ final \in Times
            /\ Core(r1, P3, T, C, L, b) /\ Lanes(accepts, rose, pq, b, N, TRUE)
            /\ \A y \in Others : y # q => r1.eng[y] = rose.eng[y]
            /\ r1.eng[q].on /\ r1.eng[q].cur <= final
            /\ b <= final
            /\ q \in Suffix => final = b
            /\ q \in Outfix => final = Length
        BY <1>2, <1>3, <1>6, <1>8, <2>1, <2>2, <2>3
      <3>2. /\ PqOK(others) /\ WaitsFor(others, q) = {}
            /\ \A y \in Others : y # q => WaitsFor(others, y) = WaitsFor(pq, y)
            /\ \A y \in Others : y # q => (y \in N2 <=> y \in N)
            /\ Elsewhere(Pending(accepts, rose, pq), P3, q)
            /\ P3[q] = Beyond(accepts, q, r1.eng[q])
            /\ ToNextMatch(r1, q, final, others)
        BY <1>10, <2>2, <2>4, <2>5
      <3> QED  BY <3>1, <3>2, NextMatchIs
    <2>7. /\ NotYetAt(pc', turn', rose') = N2 /\ TurnAt(pc', turn', okLoc', rose')
          /\ rose'.minNonMpv <= b /\ pc' = "nfas"
      BY <1>1, <1>7, <1>11, <1>a, <2>6 DEF NotYetAt, TurnAt, SameBut
    <2> QED  BY <1>1, <1>2, <1>a, <2>6, <2>7, SteppedInv
  \* It goes on alone.
  <1>12. CASE Reported(r1, q, o) /\ pq' = others /\ turn' = q
    <2>1. /\ PqOK(pq') /\ WaitsFor(pq', q) = {}
          /\ \A y \in Others : y # q => WaitsFor(pq', y) = WaitsFor(pq, y)
      BY <1>10, <1>12
    <2>2. \A y \in Others : y # q => y \notin N  BY <1>4
    <2>3. Elsewhere(Pending(accepts, rose, pq), P3, q)  BY <1>9, <1>a
    <2>4. P3[q] = Beyond(accepts, q, RunTo(r1.eng[q], o))
      <3>1. PICK f : f = RunTo(e, o)  OBVIOUS
      <3>2. f.cur = o /\ f.tops = e.tops  BY <1>3, <3>1, RunToIs
      <3>3. Beyond(accepts, q, f) = Beyond(accepts, q, e)
        BY <1>3, <3>2 DEF Beyond, AcceptsIn
      <3> QED  BY <1>8, <1>9, <3>1, <3>3
    <2>5. Reported(r1, q, o) /\ turn' = q  BY <1>12
    <2>6. /\ Core(rose', Pending(accepts, rose', pq'), T, C, L, b)
          /\ Lanes(accepts, rose', pq', b, NotYetAt(pc', turn', rose'), TRUE)
          /\ TurnAt(pc', turn', okLoc', rose')
          /\ pc' \in {"blast", "nfas"} /\ SameBut(r1, rose', q)
      BY <1>2, <1>3, <1>6, <1>8, <2>1, <2>2, <2>3, <2>4, <2>5, ReportedIs
    <2>7. rose'.minNonMpv <= b  BY <1>7, <2>6 DEF SameBut
    <2> QED  BY <1>1, <1>2, <1>a, <2>6, <2>7, SteppedInv
  <1> QED  BY <1>1, <1>11, <1>12

\* Nothing in the queue lies within the catch-up: nothing pending does.
LEMMA NothingFirst ==
    ASSUME IInv, pc = "nfas", First = {}
    PROVE  /\ \A x \in pq : job.off < x.loc
           /\ \A q \in Others : \A n \in Pending(accepts, rose, pq)[q] : job.off < n
  <1>a. PICK b, N : b = job.off /\ N = NotYetAt(pc, turn, rose)  OBVIOUS
  <1>1. /\ Lanes(accepts, rose, pq, b, N, TRUE) /\ PqOK(pq) /\ rose \in Rose /\ b \in Times
        /\ b \in Nat
    BY <1>a, CatchingIs
  <1>2. \A x \in pq : x.loc \in 1 .. Length /\ x.loc \in Nat
    BY <1>1, WaitingIs, ConstantsAre
  <1>3. ASSUME NEW x \in pq, ~(b < x.loc) PROVE FALSE
    <2>1. PICK S : S = {y.loc : y \in pq}  OBVIOUS
    <2>2. S \subseteq Nat /\ S # {}  BY <1>2, <2>1
    <2>3. Min(S) \in S /\ \A v \in S : Min(S) <= v  BY <2>2, MinIs
    <2>4. PICK y \in pq : y.loc = Min(S)  BY <2>1, <2>3
    <2>5. \A z \in pq : y.loc <= z.loc  BY <2>1, <2>3, <2>4
    <2>6. y.loc <= b
      <3>1. x.loc \in Nat /\ y.loc \in Nat /\ y.loc <= x.loc  BY <1>2, <2>5
      <3> QED  BY <1>1, <1>3, <3>1
    <2> QED  BY <1>a, <2>5, <2>6 DEF First
  <1>4. \A x \in pq : b < x.loc  BY <1>3
  <1>5. N = {}  BY <1>a DEF NotYetAt
  <1>6. ASSUME NEW q \in Others, NEW n \in Pending(accepts, rose, pq)[q] PROVE b < n
    <2>1. PICK e, W : e = rose.eng[q] /\ W = WaitsFor(pq, q)  OBVIOUS
    <2>2. PICK ny : ny = (q \in N)  OBVIOUS
    <2>3. /\ e \in Engines /\ W \in SUBSET (1 .. Length) /\ ~ny
          /\ LaneOK(accepts, q, e, W, b, ny, TRUE)
      <3>1. e \in Engines  BY <1>1, <2>1, RoseIs, ConstantsAre
      <3>2. W \in SUBSET (1 .. Length)  BY <2>1 DEF WaitsFor
      <3>3. LaneOK(accepts, q, rose.eng[q], WaitsFor(pq, q), b, q \in N, TRUE)
        BY <1>1 DEF Lanes
      <3> QED  BY <1>5, <2>1, <2>2, <3>1, <3>2, <3>3
    <2>4. n \in Left(accepts, q, e, W)  BY <1>6, <2>1, PendingIs
    <2>5. e.on /\ n \in 1 .. Length /\ n \in Nat  BY <2>4, ConstantsAre DEF Left
    <2>6. CASE W # {}
      <3>1. PICK w \in W : TRUE  BY <2>6
      <3>2. w <= n  BY <2>3, <2>4, LeftIs
      <3>3. b < w
        <4>1. Waiting(q, w) \in pq /\ Waiting(q, w).loc = w  BY <1>1, <2>1, <3>1, WaitingIs
        <4> QED  BY <1>4, <4>1
      <3>4. w \in Nat  BY <2>3, ConstantsAre
      <3> QED  BY <1>1, <2>5, <3>2, <3>3, <3>4
    <2>7. CASE W = {}
      <3>1. \A o \in Beyond(accepts, q, e) : b < o  BY <2>3, <2>5, <2>7 DEF LaneOK
      <3>2. Left(accepts, q, e, W) = Beyond(accepts, q, e)
        BY <2>5, <2>7 DEF Left, Beyond
      <3> QED  BY <2>4, <3>1, <3>2
    <2> QED  BY <2>6, <2>7
  <1> QED  BY <1>4, <1>6, <1>a

\* So does the end of the catch-up.
LEMMA CaughtUpInv == ASSUME IInv, CaughtUp PROVE IInv'
  <1>a. PICK P, H, T, C, L, b, N, r, s :
            /\ P = Pending(accepts, rose, pq) /\ H = Handled /\ T = TrueOf(accepts, H)
            /\ C = ChainAt(H) /\ L = ReportAt(H) /\ b = job.off
            /\ N = NotYetAt(pc, turn, rose)
            /\ r = BoundsAt(rose, rose.minMatch, b)
            /\ s = IF upTo = "all" THEN roseCatchUpMPV(r, b) ELSE r
    OBVIOUS
  <1>1. /\ pc = "nfas" /\ First = {} /\ pc' = "resume"
        /\ accepts' = accepts /\ pq' = pq /\ job' = job /\ lits' = lits /\ upTo' = upTo
    BY DEF CaughtUp
  <1>2. /\ Core(rose, P, T, C, L, b) /\ Lanes(accepts, rose, pq, b, N, TRUE)
        /\ JobOK /\ Catching /\ PqOK(pq) /\ AcceptsOK(accepts)
        /\ rose \in Rose /\ Orderly(rose) /\ rose.minNonMpv <= b /\ b \in Times /\ b \in Nat
    BY <1>1, <1>a, CatchingIs
  <1>3. \A q \in Others : \A n \in P[q] : b < n /\ b <= n
    <2>1. \A q \in Others : \A n \in P[q] : b < n  BY <1>1, <1>a, NothingFirst
    <2>2. Kept(P)  BY <1>2 DEF Core
    <2>3. \A q \in Others : \A n \in P[q] : n \in Nat  BY <2>2, KeptIs
    <2> QED  BY <1>2, <2>1, <2>3
  <1>4. rose.minMatch \in Times /\ rose.minMatch <= b
    <2>1. rose.minMatch \in Times /\ rose.minNonMpv \in Times  BY <1>2, RoseIs
    <2>2. rose.minMatch \in Nat /\ rose.minNonMpv \in Nat /\ rose.minMatch <= rose.minNonMpv
      BY <1>2, <2>1, ConstantsAre DEF Orderly
    <2> QED  BY <1>2, <2>1, <2>2
  <1>5. rose' = s
    <2>1. [rose EXCEPT !.minNonMpv = b] = r
      BY <1>2, <1>a DEF BoundsAt, Rose
    <2> QED  BY <1>a, <2>1 DEF CaughtUp
  <1>6. /\ r \in Rose /\ r.minMatch = rose.minMatch /\ r.minNonMpv = b
        /\ r.nextMpv = rose.nextMpv /\ r.out = rose.out /\ r.spent = rose.spent
        /\ r.chained = rose.chained /\ r.eng = rose.eng
    <2>1. PICK m : m = rose.minMatch  OBVIOUS
    <2>2. rose \in Rose /\ m \in Times /\ b \in Times /\ r = BoundsAt(rose, m, b)
      BY <1>2, <1>4, <1>a, <2>1
    <2>3. /\ r \in Rose /\ r.minMatch = m /\ r.minNonMpv = b
          /\ r.nextMpv = rose.nextMpv /\ r.out = rose.out /\ r.spent = rose.spent
          /\ r.chained = rose.chained /\ r.eng = rose.eng
      BY <2>2, WithBounds
    <2> QED  BY <2>1, <2>3
  <1>7. Core(r, P, T, C, L, b)
    <2>1. r.nextMpv \in {rose.nextMpv, 0} /\ r.minMatch <= r.minNonMpv  BY <1>4, <1>6
    <2>2. \A q \in Others : \A n \in P[q] : r.minNonMpv <= n  BY <1>3, <1>6
    <2> QED  BY <1>2, <1>6, <2>1, <2>2, CoreAt
  <1>8. /\ Core(s, P, T, C, L, b) /\ s.minNonMpv = b
        /\ upTo = "all" => s.minMatch = b
        /\ s.chained = rose.chained
        /\ \A q \in Others : s.eng[q] = rose.eng[q]
    <2>1. CASE upTo = "all"
      <3>1. s = roseCatchUpMPV(r, b)  BY <1>a, <2>1
      <3>2. r.minMatch <= b /\ b <= b  BY <1>2, <1>4, <1>6
      <3>3. \A q \in Others : \A n \in P[q] : b <= n  BY <1>3
      <3>4. /\ Core(s, P, T, C, L, b)
            /\ s.minMatch = b /\ s.minNonMpv = Later2(r.minNonMpv, b)
            /\ s.spent = r.spent /\ s.chained = r.chained
            /\ \A q \in Others : s.eng[q] = r.eng[q]
        BY <1>2, <1>7, <3>1, <3>2, <3>3, CoreCatchMpv
      <3>5. Later2(r.minNonMpv, b) = b  BY <1>6 DEF Later2
      <3> QED  BY <1>6, <3>4, <3>5
    <2>2. CASE upTo # "all"  BY <1>6, <1>7, <1>a, <2>2
    <2> QED  BY <2>1, <2>2
  <1>9. Pending(accepts, s, pq) = P  BY <1>8, <1>a, LanesSame
  <1>10. Strict(s, P)  BY <1>3, <1>8 DEF Strict
  <1>11. Lanes(accepts, s, pq, b, {}, FALSE)
    <2>1. ASSUME NEW q \in Others
          PROVE  LaneOK(accepts, q, s.eng[q], WaitsFor(pq, q), b, q \in {}, FALSE)
      <3>1. PICK e, W : e = rose.eng[q] /\ W = WaitsFor(pq, q)  OBVIOUS
      <3>2. LaneOK(accepts, q, e, W, b, FALSE, TRUE)
        <4>1. LaneOK(accepts, q, rose.eng[q], WaitsFor(pq, q), b, q \in N, TRUE)
          BY <1>2 DEF Lanes
        <4>2. (q \in N) = FALSE  BY <1>1, <1>a DEF NotYetAt
        <4> QED  BY <3>1, <4>1, <4>2
      <3>3. \A o \in W : b < o /\ o \in Nat
        <4>1. \A o \in W : Waiting(q, o) \in pq /\ Waiting(q, o).loc = o
          BY <1>2, <3>1, WaitingIs
        <4>2. \A x \in pq : b < x.loc  BY <1>1, <1>a, NothingFirst
        <4>3. \A o \in W : o \in 1 .. Length  BY <3>1 DEF WaitsFor
        <4> QED  BY <4>1, <4>2, <4>3, ConstantsAre
      <3>4. \A o \in W : q \notin Suffix
        <4>1. \A o \in W : q \in Suffix => o <= b  BY <3>2 DEF LaneOK
        <4> QED  BY <1>2, <3>3, <4>1
      <3>5. \A o \in W : q \in Outfix  BY <3>4, ConstantsAre
      <3>6. LaneOK(accepts, q, e, W, b, FALSE, FALSE)  BY <3>2, <3>5 DEF LaneOK
      <3>7. (q \in {}) = FALSE  OBVIOUS
      <3> QED  BY <1>8, <3>1, <3>6, <3>7
    <2> QED  BY <1>2, <2>1 DEF Lanes
  <1>12. Handled' = H /\ Catching' = FALSE /\ NotYetAt(pc', turn', rose') = {}
    BY <1>1, <1>a DEF Handled, Catching, NotYetAt
  <1>13. TurnAt(pc', turn', okLoc', rose')  BY <1>1 DEF TurnAt
  <1>14. JobOK'
    <2>1. job.kind # "chain" => upTo = "all"  BY <1>2 DEF JobOK
    <2>2. rose'.minNonMpv = b /\ (job.kind # "chain" => rose'.minMatch = b)
      BY <1>5, <1>8, <2>1
    <2>3. b <= b  BY <1>2
    <2>4. pc \notin {"scan", "done"}  BY <1>1
    <2> QED  BY <1>1, <1>2, <1>12, <1>a, <2>2, <2>3, <2>4 DEF JobOK, Catching
  <1> QED  BY <1>1, <1>5, <1>8, <1>9, <1>10, <1>11, <1>12, <1>13, <1>14, <1>a DEF IInv

----------------------------------------------------------------------------
(* The invariant holds in every reachable state                            *)

\* Every step keeps the invariant.
LEMMA NextInv == IInv /\ [Next]_vars => IInv'
  <1> SUFFICES ASSUME IInv, [Next]_vars PROVE IInv'  OBVIOUS
  <1>1. ASSUME NEW o \in 1 .. Length, LiteralMatch("report", o, Literal) PROVE IInv'
    BY <1>1, LiteralMatchInv
  <1>2. ASSUME NEW o \in 1 .. Length, LiteralMatch("chain", o, MPV) PROVE IInv'
    BY <1>2, LiteralMatchInv
  <1>3. ASSUME NEW o \in 1 .. Length, NEW q \in Suffix, LiteralMatch("suffix", o, q)
        PROVE  IInv'
    BY <1>3, LiteralMatchInv
  <1>4. CASE EndOfBlock  BY <1>4, EndOfBlockInv
  <1>5. CASE FlushChain  BY <1>5, FlushChainInv
  <1>6. CASE Handle  BY <1>6, HandleInv
  <1>7. CASE DropSuffix  BY <1>7, DropSuffixInv
  <1>8. CASE AddToQueue  BY <1>8, AddToQueueInv
  <1>9. CASE BlastLast  BY <1>9, BlastLastInv
  <1>10. CASE BlastReport  BY <1>10, BlastReportInv
  <1>11. CASE BlastEnd  BY <1>11, BlastEndInv
  <1>12. ASSUME NEW x \in pq, Serve(x) PROVE IInv'  BY <1>12, ServeInv
  <1>13. CASE CaughtUp  BY <1>13, CaughtUpInv
  <1>14. CASE UNCHANGED vars
    <2>1. /\ accepts' = accepts /\ rose' = rose /\ pq' = pq /\ pc' = pc /\ job' = job
          /\ upTo' = upTo /\ turn' = turn /\ okLoc' = okLoc /\ lits' = lits
      BY <1>14 DEF vars
    <2>2. Catching' = Catching /\ Handled' = Handled  BY <2>1 DEF Catching, Handled
    <2>3. JobOK'  BY <2>1, <2>2 DEF IInv, JobOK, Chained
    <2> QED  BY <2>1, <2>2, <2>3 DEF IInv
  <1> QED
    BY <1>1, <1>2, <1>3, <1>4, <1>5, <1>6, <1>7, <1>8, <1>9, <1>10, <1>11, <1>12, <1>13, <1>14
    DEF Next

\* In every reachable state what was reported, what the engines and the
\* priority queue have still to report, and what the patterns match fit
\* together (IInv): the rest of this module reads the properties off it.
THEOREM Invariant == Spec => []IInv
  <1>1. Init => IInv  BY InitInv
  <1>2. IInv /\ [Next]_vars => IInv'  BY NextInv
  <1> QED  BY <1>1, <1>2, PTL DEF Spec

\* Matches reach the user in the order of their end offsets, for any number of
\* engines and any patterns: the priority queue, second place, report_ok_loc
\* and the MPV's catch-up never let a later match pass an earlier one.
THEOREM ReportedInOrder == Spec => []InOrder
  <1>1. IInv => InOrder
    <2> SUFFICES ASSUME IInv, NEW i \in 2 .. Len(rose.out)
                 PROVE  rose.out[i - 1][2] <= rose.out[i][2]
      BY DEF InOrder
    <2>1. rose \in Rose /\ OutUpTo(rose.out, rose.minMatch)  BY DEF IInv, Core, Orderly
    <2>2. PICK u, j : u = rose.out /\ j = i - 1  OBVIOUS
    <2>3. u \in Seq(Reports)  BY <2>1, <2>2, RoseIs
    <2>4. DOMAIN u = 1 .. Len(u) /\ Len(u) \in Nat  BY <2>3
    <2>5. i \in DOMAIN u /\ j \in DOMAIN u /\ j < i  BY <2>2, <2>4
    <2>6. u[j][2] <= u[i][2]  BY <2>1, <2>2, <2>5 DEF OutUpTo
    <2> QED  BY <2>2, <2>6
  <1> QED  BY <1>1, Invariant, PTL

\* The MPV's queue of triggers starts at its position and ascends, whoever
\* feeds it: literals, outfixes and suffixes.
THEOREM MpvFedAscending == Spec => []MpvFedInOrder
  <1>1. IInv => MpvFedInOrder
    <2> SUFFICES ASSUME IInv, rose.eng[MPV].on, NEW i \in DOMAIN rose.eng[MPV].queue
                 PROVE  /\ rose.eng[MPV].cur <= rose.eng[MPV].queue[i]
                        /\ i > 1 => rose.eng[MPV].queue[i - 1] < rose.eng[MPV].queue[i]
      BY DEF MpvFedInOrder
    <2>1. rose \in Rose /\ Climbs(rose.eng[MPV])  BY DEF IInv, Core, Orderly
    <2>2. PICK e, u : e = rose.eng[MPV] /\ u = e.queue  OBVIOUS
    <2>3. u \in Seq(Times)  BY <2>1, <2>2, MpvEngine, EngineIs
    <2>4. DOMAIN u = 1 .. Len(u) /\ Len(u) \in Nat  BY <2>3
    <2>5. e.cur <= u[i] /\ \A j, k \in DOMAIN u : j < k => u[j] < u[k]
      BY <2>1, <2>2 DEF Climbs
    <2>6. ASSUME i > 1 PROVE u[i - 1] < u[i]
      <3>1. i \in DOMAIN u  BY <2>2
      <3>2. i - 1 \in DOMAIN u /\ i - 1 < i  BY <2>4, <2>6, <3>1
      <3> QED  BY <2>5, <3>1, <3>2
    <2> QED  BY <2>2, <2>5, <2>6
  <1> QED  BY <1>1, Invariant, PTL

----------------------------------------------------------------------------
(* What was reported is what the patterns match                            *)

\* The expected matches, engine by engine.
LEMMA ExpectedIs ==
    /\ \A q, o : <<q, o>> \in Expected <=>
         \/ q = Literal /\ o \in ReportAt(lits)
         \/ q \in Engine \ (Chained \cup Single \cup {MPV}) /\ o \in TrueMatches(q)
         \/ q \in Single /\ TrueMatches(q) # {} /\ o = Min(TrueMatches(q))
         \/ q = MPV /\ o \in MpvMatches
    /\ \A m \in Expected : m = <<m[1], m[2]>>
  <1> DEFINE A == {<<Literal, l.off>> : l \in {x \in lits : x.kind = "report"}}
             B == UNION {{<<q, o>> : o \in TrueMatches(q)} :
                            q \in Engine \ (Chained \cup Single \cup {MPV})}
             D == {<<q, Min(TrueMatches(q))>> : q \in {s \in Single : TrueMatches(s) # {}}}
             E == {<<MPV, o>> : o \in MpvMatches}
  <1>1. Expected = A \cup B \cup D \cup E  BY DEF Expected
  <1>2. \A q, o : <<q, o>> \in A <=> q = Literal /\ o \in ReportAt(lits)
    <2>1. \A q, o : <<q, o>> \in A
                    <=> \E l \in {x \in lits : x.kind = "report"} : <<q, o>> = <<Literal, l.off>>
      OBVIOUS
    <2>2. \A o : o \in ReportAt(lits) <=> \E l \in {x \in lits : x.kind = "report"} : o = l.off
      BY DEF ReportAt
    <2> QED  BY <2>1, <2>2
  <1>3. \A q, o : <<q, o>> \in B
                  <=> q \in Engine \ (Chained \cup Single \cup {MPV}) /\ o \in TrueMatches(q)
    <2>1. \A m : m \in B <=> \E q \in Engine \ (Chained \cup Single \cup {MPV}) :
                               \E o \in TrueMatches(q) : m = <<q, o>>
      OBVIOUS
    <2> QED  BY <2>1
  <1>4. \A q, o : <<q, o>> \in D
                  <=> q \in Single /\ TrueMatches(q) # {} /\ o = Min(TrueMatches(q))
    <2>1. \A m : m \in D <=> \E q \in {s \in Single : TrueMatches(s) # {}} :
                               m = <<q, Min(TrueMatches(q))>>
      OBVIOUS
    <2> QED  BY <2>1
  <1>5. \A q, o : <<q, o>> \in E <=> q = MPV /\ o \in MpvMatches
    <2>1. \A m : m \in E <=> \E o \in MpvMatches : m = <<MPV, o>>  OBVIOUS
    <2> QED  BY <2>1
  <1>6. \A m \in Expected : m = <<m[1], m[2]>>
    <2>1. \A m \in A : m = <<m[1], m[2]>>  OBVIOUS
    <2>2. \A m \in B : m = <<m[1], m[2]>>  OBVIOUS
    <2>3. \A m \in D : m = <<m[1], m[2]>>  OBVIOUS
    <2>4. \A m \in E : m = <<m[1], m[2]>>  OBVIOUS
    <2> HIDE DEF A, B, D, E
    <2> QED  BY <1>1, <2>1, <2>2, <2>3, <2>4
  <1> HIDE DEF A, B, D, E
  <1> QED  BY <1>1, <1>2, <1>3, <1>4, <1>5, <1>6

\* Between literals nothing that is pending lies within what was caught up.
LEMMA BetweenIs ==
    ASSUME IInv, pc \in {"scan", "done"}
    PROVE  \E P : /\ Core(rose, P, TrueOf(accepts, lits), ChainAt(lits), ReportAt(lits), job.off)
                  /\ \A q \in Others : \A n \in P[q] : rose.minMatch < n
                  /\ rose.minMatch \in Nat /\ rose \in Rose
                  /\ \A o \in ReportAt(lits) \cup ChainAt(lits) : o \in 1 .. Length
                  /\ pc = "done" => rose.minMatch = Length
  <1>a. PICK P : P = Pending(accepts, rose, pq)  OBVIOUS
  <1>1. Handled = lits /\ ~Catching  BY DEF Handled, Catching
  <1>2. /\ Core(rose, P, TrueOf(accepts, lits), ChainAt(lits), ReportAt(lits), job.off)
        /\ Strict(rose, P) /\ JobOK
    BY <1>1, <1>a DEF IInv
  <1>3. /\ rose \in Rose /\ rose.minMatch \in Times /\ rose.minNonMpv \in Times
        /\ rose.minMatch <= rose.minNonMpv /\ Kept(P)
    BY <1>2, RoseIs DEF Core, Orderly
  <1>4. rose.minMatch \in Nat /\ rose.minNonMpv \in Nat  BY <1>3, ConstantsAre
  <1>5. ASSUME NEW q \in Others, NEW n \in P[q] PROVE rose.minMatch < n
    <2>1. rose.minNonMpv < n  BY <1>2 DEF Strict
    <2>2. n \in Nat  BY <1>3, <1>5, KeptIs
    <2> QED  BY <1>3, <1>4, <2>1, <2>2
  <1>6. \A o \in ReportAt(lits) \cup ChainAt(lits) : o \in 1 .. Length
    <2>1. \A l \in lits : l.off \in 1 .. Length  BY <1>2 DEF JobOK, LitOK
    <2> QED  BY <2>1 DEF ReportAt, ChainAt
  <1>7. pc = "done" => rose.minMatch = Length  BY <1>2 DEF JobOK
  <1> QED  BY <1>2, <1>3, <1>4, <1>5, <1>6, <1>7

\* A match was reported when it is one of the patterns' and was caught up to.
LEMMA ReportsAre ==
    ASSUME IInv, pc \in {"scan", "done"}
    PROVE  \A q, o : Got(rose, q, o) <=> <<q, o>> \in Expected /\ o <= rose.minMatch
  <1>a. PICK r, z, T, C, L, b : /\ r = rose /\ z = rose.minMatch /\ T = TrueOf(accepts, lits)
                                /\ C = ChainAt(lits) /\ L = ReportAt(lits) /\ b = job.off
    OBVIOUS
  <1>0. PICK P : /\ Core(r, P, T, C, L, b)
                 /\ \A q \in Others : \A n \in P[q] : z < n
                 /\ z \in Nat /\ r \in Rose
                 /\ \A o \in L \cup C : o \in 1 .. Length
    BY <1>a, BetweenIs
  <1>1. \A q, o : Got(r, q, o) => /\ q \in 0 .. QueueCount /\ o \in Times /\ o \in Nat /\ o <= z
    <2> SUFFICES ASSUME NEW q, NEW o, Got(r, q, o)
                 PROVE  /\ q \in 0 .. QueueCount /\ o \in Times /\ o \in Nat /\ o <= z
      OBVIOUS
    <2>1. PICK u : u = r.out  OBVIOUS
    <2>2. u \in Seq(Reports) /\ OutUpTo(u, z)  BY <1>0, <1>a, <2>1, RoseIs DEF Core, Orderly
    <2>3. PICK i \in DOMAIN u : u[i] = <<q, o>>  BY <2>1 DEF Got, Range
    <2>4. u[i] \in Reports /\ u[i][2] <= z  BY <2>2, <2>3 DEF OutUpTo
    <2>5. <<q, o>> \in (0 .. QueueCount) \X Times  BY <2>3, <2>4 DEF Reports
    <2>6. q \in 0 .. QueueCount /\ o \in Times  BY <2>5
    <2> QED  BY <2>3, <2>4, <2>6, ConstantsAre
  <1>2. /\ \A q \in Others : T[q] = TrueMatches(q)
        /\ \A q : TrueMatches(q) \subseteq 1 .. Length
        /\ \A o \in 1 .. Length : o \in Times /\ o \in Nat
    BY <1>a, ConstantsAre DEF TrueOf, TrueMatches, Times
  <1>3. /\ \A q \in r.chained : q \in Others /\ q \notin Single
        /\ \A q \in Single : q \in Others
        /\ r.chained = Chained
    BY <1>0, <1>a, OthersAre DEF Chained
  <1>4. \A q : q \in Others <=> q \in Engine /\ q # MPV  BY DEF Others
  <1>5. \A o : Got(r, Literal, o) <=> o \in L /\ o <= z
    <2>1. \A n \in Times : Got(r, Literal, n) <=> n \in L  BY <1>0 DEF Core, LitExact
    <2>2. \A o \in L : o \in Times  BY <1>0, <1>2
    <2> QED  BY <1>1, <2>1, <2>2
  <1>6. ASSUME NEW q \in Others, q \notin r.chained, q \notin Single, NEW o
        PROVE  Got(r, q, o) <=> o \in TrueMatches(q) /\ o <= z
    <2>1. \A n \in Times : n \in T[q] <=> Got(r, q, n) \/ n \in P[q]
      BY <1>0, <1>6 DEF Core, Plain
    <2>2. Got(r, q, o) => o \in TrueMatches(q) /\ o <= z  BY <1>1, <1>2, <2>1
    <2>3. o \in TrueMatches(q) /\ o <= z => Got(r, q, o)
      <3> SUFFICES ASSUME o \in TrueMatches(q), o <= z PROVE Got(r, q, o)  OBVIOUS
      <3>1. o \in Times /\ o \in Nat /\ o \in T[q]  BY <1>2
      <3>2. o \notin P[q]
        <4>1. o \in P[q] => z < o  BY <1>0
        <4> QED  BY <1>0, <3>1, <4>1
      <3> QED  BY <2>1, <3>1, <3>2
    <2> QED  BY <2>2, <2>3
  <1>7. ASSUME NEW q \in Single, NEW o
        PROVE  Got(r, q, o)
               <=> TrueMatches(q) # {} /\ o = Min(TrueMatches(q)) /\ o <= z
    <2>1. q \in Others /\ T[q] = TrueMatches(q) /\ T[q] \subseteq 1 .. Length
      BY <1>2, <1>3
    <2>2. T[q] # {} => Min(T[q]) \in T[q] /\ \A n \in T[q] : Min(T[q]) <= n
      <3>1. T[q] \subseteq Nat  BY <1>2, <2>1
      <3> QED  BY <3>1, MinIs
    <2>3. CASE q \in r.spent
      <3>1. PICK m \in T[q] : /\ \A n \in Times : Got(r, q, n) <=> n = m
                              /\ \A n \in T[q] : m <= n
        BY <1>0, <2>3 DEF Core, Once, OnlyFirst
      <3>2. PICK k : k = Min(T[q])  OBVIOUS
      <3>3. T[q] # {} /\ k \in T[q] /\ m <= k /\ k <= m  BY <2>2, <3>1, <3>2
      <3>4. m \in Nat /\ k \in Nat /\ m \in Times  BY <1>2, <2>1, <3>3
      <3>5. m = k  BY <3>3, <3>4
      <3>6. Got(r, q, m)  BY <3>1, <3>4
      <3>7. Got(r, q, o) => o = m /\ o <= z  BY <1>1, <3>1
      <3> QED  BY <2>1, <3>2, <3>3, <3>5, <3>6, <3>7
    <2>4. CASE q \notin r.spent
      <3>1. P[q] = T[q] /\ \A n \in Times : ~Got(r, q, n)
        BY <1>0, <2>4 DEF Core, Once
      <3>2. ~Got(r, q, o)  BY <1>1, <3>1
      <3>3. T[q] # {} => ~(Min(T[q]) <= z)
        <4>1. \A n \in T[q] : z < n /\ n \in Nat  BY <1>0, <1>2, <2>1, <3>1
        <4> QED  BY <1>0, <2>2, <4>1
      <3> QED  BY <2>1, <3>2, <3>3
    <2> QED  BY <2>3, <2>4
  <1>8. \A q \in r.chained : \A o : ~Got(r, q, o)
    <2>1. \A q \in r.chained : \A n \in Times : ~Got(r, q, n)  BY <1>0 DEF Core, Feeds
    <2> QED  BY <1>1, <2>1
  <1>9. ASSUME NEW n PROVE Got(r, MPV, n) <=> n \in MpvMatches /\ n <= z
    <2>1. \A c : c \in ChainOffsets <=> c \in C \/ \E q \in r.chained : c \in T[q]
      BY <1>2, <1>3, <1>a DEF ChainOffsets, ChainAt
    <2>2. \A c : c \in Fired(r, P, T, C)
                 <=> /\ c \in Times
                     /\ c \in C \/ \E q \in r.chained : c \in T[q] /\ c \notin P[q]
      BY DEF Fired
    <2>3. \A m \in Times : m \in Made(r)
                           <=> \E c \in Fired(r, P, T, C) : m \in Spawned(MPV, c)
      BY <1>0 DEF Core, MpvExact
    <2>4. \A c : \A m \in Spawned(MPV, c) : m - c \in Dist[MPV]  BY DEF Spawned
    <2>5. Got(r, MPV, n) => n \in MpvMatches /\ n <= z
      <3> SUFFICES ASSUME Got(r, MPV, n) PROVE n \in MpvMatches /\ n <= z  OBVIOUS
      <3>1. n \in Times /\ n <= z  BY <1>1
      <3>2. n \in Made(r)  BY <3>1 DEF Made, Got
      <3>3. PICK c \in Fired(r, P, T, C) : n \in Spawned(MPV, c)  BY <2>3, <3>1, <3>2
      <3>4. c \in Times /\ c \in ChainOffsets  BY <2>1, <2>2, <3>3
      <3>5. n \in Nat /\ n >= 1 /\ n <= Length  BY <3>3, <3>4, SpawnedIs
      <3>6. n \in 1 .. Length  BY <3>5, ConstantsAre
      <3> QED  BY <2>4, <3>1, <3>3, <3>4, <3>6 DEF MpvMatches
    <2>6. n \in MpvMatches /\ n <= z => Got(r, MPV, n)
      <3> SUFFICES ASSUME n \in MpvMatches, n <= z PROVE Got(r, MPV, n)  OBVIOUS
      <3>1. n \in 1 .. Length /\ n \in Times /\ n \in Nat  BY <1>2 DEF MpvMatches
      <3>2. PICK c \in ChainOffsets : n - c \in Dist[MPV]  BY DEF MpvMatches
      <3>3. c \in 1 .. Length  BY <1>0, <1>2, <1>3, <2>1, <3>2
      <3>4. c \in Times /\ c \in Nat  BY <1>2, <3>3
      <3>5. n \in Spawned(MPV, c)  BY <3>1, <3>2 DEF Spawned
      <3>6. c < n  BY <3>4, <3>5, SpawnedIs
      <3>7. c \in Fired(r, P, T, C)
        <4>1. \A q \in r.chained : c \notin P[q]
          <5>1. \A q \in r.chained : c \in P[q] => z < c  BY <1>0, <1>3
          <5>2. ~(z < c)  BY <1>0, <3>1, <3>4, <3>6
          <5> QED  BY <5>1, <5>2
        <4> QED  BY <2>1, <2>2, <3>2, <3>4, <4>1
      <3>8. n \in Made(r)  BY <2>3, <3>1, <3>5, <3>7
      <3>9. ~(r.eng[MPV].on /\ n \in Met(r.eng[MPV], Length))
        <4>1. Due(r.eng[MPV], z, r.nextMpv)  BY <1>0, <1>a DEF Core, Orderly
        <4>2. r.eng[MPV].on /\ n \in Met(r.eng[MPV], Length) => n > z  BY <4>1 DEF Due
        <4> QED  BY <1>0, <3>1, <4>2
      <3> QED  BY <3>8, <3>9 DEF Made, Got
    <2> QED  BY <2>5, <2>6
  <1>10. ASSUME NEW q, NEW o
         PROVE  Got(r, q, o) <=> <<q, o>> \in Expected /\ o <= z
    <2>1. <<q, o>> \in Expected <=>
            \/ q = Literal /\ o \in L
            \/ q \in Engine \ (Chained \cup Single \cup {MPV}) /\ o \in TrueMatches(q)
            \/ q \in Single /\ TrueMatches(q) # {} /\ o = Min(TrueMatches(q))
            \/ q = MPV /\ o \in MpvMatches
      BY <1>a, ExpectedIs
    <2>2. Literal \notin Engine /\ MPV \in Engine /\ Others \subseteq Engine
      BY ConstantsAre
    <2>3. CASE q = Literal
      <3>1. q # MPV /\ q \notin Engine /\ q \notin Single  BY <1>3, <2>2, <2>3
      <3> QED  BY <1>5, <2>1, <2>3, <3>1
    <2>4. CASE q = MPV
      <3>1. q # Literal /\ q \notin Single  BY <1>3, <1>4, <2>2, <2>4
      <3> QED  BY <1>9, <2>1, <2>4, <3>1
    <2>5. CASE q \in Single
      <3>1. q # Literal /\ q # MPV  BY <1>3, <1>4, <2>2, <2>5
      <3> QED  BY <1>7, <2>1, <2>5, <3>1
    <2>6. CASE q \in r.chained
      <3>1. q # Literal /\ q # MPV /\ q \notin Single /\ q \in Chained
        BY <1>3, <1>4, <2>2, <2>6
      <3> QED  BY <1>8, <2>1, <2>6, <3>1
    <2>7. CASE q \in Others /\ q \notin r.chained /\ q \notin Single
      <3>1. q # Literal /\ q \in Engine \ (Chained \cup Single \cup {MPV})
        BY <1>3, <1>4, <2>2, <2>7
      <3> QED  BY <1>6, <2>1, <2>7, <3>1
    <2>8. CASE q \notin Others /\ q # MPV /\ q # Literal
      <3>1. q \notin Engine /\ q \notin Single  BY <1>3, <1>4, <2>8
      <3>2. q \notin 0 .. QueueCount
        <4>1. QueueCount \in Nat  BY CatchUpAssumption
        <4>2. q \notin 0 .. QueueCount - 1 /\ q # QueueCount
          BY <2>8, <3>1 DEF Literal, Engine
        <4> QED  BY <4>1, <4>2
      <3> QED  BY <1>1, <2>1, <2>8, <3>1, <3>2
    <2> QED  BY <2>3, <2>4, <2>5, <2>6, <2>7, <2>8
  <1> QED  BY <1>10, <1>a

\* Between literals the user has got exactly the matches the patterns have up
\* to the offset caught up to, each once, and at the end of the block all of
\* them, for any number of engines, triggers and literals.
THEOREM ReportedExactly == Spec => []ReportedExact
  <1>1. IInv => ReportedExact
    <2> SUFFICES ASSUME IInv, pc \in {"scan", "done"}
                 PROVE  /\ Len(rose.out) = Cardinality(Range(rose.out))
                        /\ Range(rose.out) = {m \in Expected : m[2] <= rose.minMatch}
                        /\ pc = "done" => Range(rose.out) = Expected
      BY DEF ReportedExact
    <2>1. rose \in Rose /\ OutUpTo(rose.out, rose.minMatch)  BY DEF IInv, Core, Orderly
    <2>2. PICK u, R, z : u = rose.out /\ R = Range(u) /\ z = rose.minMatch  OBVIOUS
    <2>3. u \in Seq(Reports) /\ DOMAIN u = 1 .. Len(u) /\ Len(u) \in Nat
      BY <2>1, <2>2, RoseIs
    <2>4. Len(u) = Cardinality(R)
      <3>1. u \in [1 .. Len(u) -> R]  BY <2>2, <2>3 DEF Range
      <3>2. \A i, j \in DOMAIN u : i < j => u[i] # u[j]  BY <2>1, <2>2 DEF OutUpTo
      <3>3. \A i, j \in 1 .. Len(u) : u[i] = u[j] => i = j  BY <2>3, <3>2
      <3>4. u \in Bijection(1 .. Len(u), R)
        <4>1. u \in Injection(1 .. Len(u), R)  BY <2>3, <3>1, <3>3, Fun_IsInj
        <4>2. \A m \in R : \E i \in 1 .. Len(u) : u[i] = m  BY <2>2, <2>3 DEF Range
        <4>3. u \in Surjection(1 .. Len(u), R)  BY <3>1, <4>2, Fun_IsSurj
        <4> QED  BY <4>1, <4>3, Fun_IsBij
      <3>5. ExistsBijection(1 .. Len(u), R)  BY <3>4, Fun_ExistsBij
      <3> QED  BY <2>3, <3>5, FS_CountingElements
    <2>5. \A m : m \in R <=> m \in Expected /\ m[2] <= z
      <3> SUFFICES ASSUME NEW m PROVE m \in R <=> m \in Expected /\ m[2] <= z  OBVIOUS
      <3>1. \A q, o : <<q, o>> \in R <=> <<q, o>> \in Expected /\ o <= z
        BY <2>2, ReportsAre DEF Got
      <3>2. m \in R => m = <<m[1], m[2]>>
        <4>1. m \in R => m \in Reports  BY <2>2, <2>3 DEF Range
        <4> QED  BY <4>1 DEF Reports
      <3>3. m \in Expected => m = <<m[1], m[2]>>  BY ExpectedIs
      <3> QED  BY <3>1, <3>2, <3>3
    <2>6. pc = "done" => R = Expected
      <3> SUFFICES ASSUME pc = "done" PROVE R = Expected  OBVIOUS
      <3>1. z = Length  BY <2>2, BetweenIs
      <3>2. \A m \in Expected : m[2] <= Length
        <4> SUFFICES ASSUME NEW m \in Expected PROVE m[2] <= Length  OBVIOUS
        <4>1. PICK q, o : q = m[1] /\ o = m[2]  OBVIOUS
        <4>2. <<q, o>> \in Expected  BY <4>1, ExpectedIs
        <4>3. \A o1 \in ReportAt(lits) : o1 \in 1 .. Length  BY BetweenIs
        <4>4. \A q1 : TrueMatches(q1) \subseteq 1 .. Length /\ MpvMatches \subseteq 1 .. Length
          BY DEF TrueMatches, MpvMatches
        <4>5. \A q1 : TrueMatches(q1) # {} => Min(TrueMatches(q1)) \in TrueMatches(q1)
          <5>1. \A q1 : TrueMatches(q1) \subseteq Nat  BY <4>4
          <5> QED  BY <5>1, MinIs
        <4>6. o \in 1 .. Length
          BY <4>2, <4>3, <4>4, <4>5, ExpectedIs
        <4> QED  BY <4>1, <4>6, ConstantsAre
      <3> QED  BY <2>5, <3>1, <3>2
    <2> QED  BY <2>2, <2>4, <2>5, <2>6
  <1> QED  BY <1>1, Invariant, PTL
=============================================================================
