---------------------------- MODULE BlockScanProof ----------------------------
(***************************************************************************)
(* For any databases, blocks, hits and exhaustion keys: a scan reports its *)
(* own matches only until the callback stopped one, hs_scan returns        *)
(* HS_SCAN_TERMINATED exactly when it was stopped, a key is reported once, *)
(* the reports come in the order of their offsets as long as no Lily queue *)
(* fills up, and a scan that succeeds has reported every match.            *)
(*                                                                         *)
(* Six invariants carry this.  Control ties the flush to the place it    *)
(* returns to and the status to the callback's answers.  Drain says where  *)
(* no parked match may be left: everywhere but between the start of an     *)
(* engine and the end of done_scan's flush.  Keys says that a key is in    *)
(* one place only: the exhaustion vector has it as soon as a match is      *)
(* parked or reported, and a report that is being made is not parked.      *)
(*                                                                         *)
(* Bounds says that hits and parked matches ascend, and that what is       *)
(* parked for this scan was raised; Order says that everything reported so *)
(* far is below what still is to come; and Kept says of every raised hit   *)
(* that it was reported once or is waiting, in its queue or as the report  *)
(* in hand, and of an engine the scan has left that it raised them all.    *)
(***************************************************************************)
EXTENDS BlockScan, TLAPS

Parked(e) == start[e] < Len(items[e])
Drained   == \A e \in Engines : ~Parked(e)

InReport  == pc = "report" \/ (pc = "flush" /\ after = "report")
Main      == {"rose", "zero", "zeroEod", "eod", "comb"}

Control ==
    /\ \A e \in Engines : start[e] <= Len(items[e]) /\ owner[e] <= scan
    /\ pc \notin {"flush", "crashed"} => lim = 0
    /\ pc = "flush" => /\ lim # 0 /\ after \in Engines \cup {"report", "flushed"}
                       /\ after # "report" => lim = Q!All
                       /\ halted => stopped
    /\ InReport => rep.rule \in Main
    /\ lilyed => stopped
    /\ pc # "idle" => ("TERMINATED" \in status <=> stopped)

\* The places without parked matches, as long as nothing was stopped.
Quiescent == {"idle", "zero_eod", "zero", "gate", "flushed", "eod", "set_retval",
              "comb", "comb_halt"}

Drain ==
    ~before =>
        /\ ~stopped /\ (pc \in Quiescent \/ (InReport /\ rep.rule # "rose")) => Drained
        /\ \A e \in Engines : Parked(e) => owner[e] = scan
        /\ \A i \in DOMAIN cbs : cbs[i].scan = scan

IInv == TypeOK /\ Control /\ Drain

\* The last-flush program halts only when the callback asked to: what it
\* reports has no key that could complete the set.
Verdict == pc = "comb_halt" => stopped

Keyed(r) == Ekey[r] # NoKey
OwnParked(e) == Parked(e) /\ owner[e] = scan

\* The scan was told to stop and raises no more keyed reports.
Winding ==
    \/ pc \in {"idle", "crashed"}
    \/ /\ "TERMINATED" \in status
       /\ \/ pc \in {"done_scan", "flushed", "set_retval", "comb", "comb_halt"}
          \/ pc = "flush" /\ after = "flushed"
          \/ InReport /\ rep.rule = "comb"

Keys ==
    /\ \A i \in Own : Keyed(cbs[i].rule) /\ Ekey[cbs[i].rule] \notin evec => Winding
    /\ \A e \in Engines : OwnParked(e) /\ Keyed(e) =>
          /\ Ekey[e] \in evec /\ start[e] + 1 = Len(items[e])
          /\ \A i \in Own : Ekey[cbs[i].rule] # Ekey[e]
          /\ \A f \in Engines : f # e /\ OwnParked(f) => Ekey[f] # Ekey[e]
    /\ InReport /\ Keyed(rep.rule) => Ekey[rep.rule] \notin evec
    /\ \A e \in Engines : (pc = e \/ (pc = "flush" /\ after = e)) /\ Parked(e) => owner[e] = scan
    /\ SingleMatch

----------------------------------------------------------------------------
(* Steps of the queues *)

LEMMA ElementIs == ASSUME NEW S, NEW s \in Seq(S), NEW i \in 1 .. Len(s) PROVE s[i] \in S
  OBVIOUS

LEMMA QueueTypes ==
    TypeOK => /\ items \in [Engines -> Seq(1 .. MaxOffset)] /\ start \in [Engines -> Nat]
              /\ lim \in 0 .. MaxOffset + 1 /\ halted \in BOOLEAN /\ out \in Seq(1 .. MaxOffset)
  BY DEF TypeOK, Q!TypeOK, Q!Engines, Engines, Q!Offsets, Q!All

LEMMA QueueTypesNext ==
    ASSUME items' \in [Engines -> Seq(1 .. MaxOffset)], start' \in [Engines -> Nat],
           lim' \in 0 .. MaxOffset + 1, halted' \in BOOLEAN, out' \in Seq(1 .. MaxOffset)
    PROVE  Q!TypeOK'
  BY DEF Q!TypeOK, Q!Engines, Engines, Q!Offsets, Q!All

LEMMA InitItemsIs ==
    ASSUME TypeOK, NEW e \in Engines, Q!InitItems(e)
    PROVE  /\ Q!TypeOK' /\ lim' = 0 /\ lim = 0
           /\ items'[e] = <<>> /\ start'[e] = 0
           /\ \A f \in Engines : f # e => items'[f] = items[f] /\ start'[f] = start[f]
  <1>1. /\ items' = [items EXCEPT ![e] = <<>>] /\ start' = [start EXCEPT ![e] = 0]
        /\ halted' = FALSE /\ out' = <<>> /\ lim' = lim /\ lim = 0
    BY DEF Q!InitItems
  <1>2. <<>> \in Seq(1 .. MaxOffset)  OBVIOUS
  <1> QED  BY <1>1, <1>2, QueueTypes, QueueTypesNext

LEMMA PushIs ==
    ASSUME TypeOK, NEW e \in Engines, start[e] <= Len(items[e]), NEW to \in 1 .. MaxOffset,
           Q!Push(e, to)
    PROVE  /\ Q!TypeOK' /\ lim' = 0 /\ lim = 0
           /\ \A f \in Engines : f # e => items'[f] = items[f] /\ start'[f] = start[f]
           /\ start'[e] < Len(items'[e])
           /\ ~Parked(e) => start'[e] + 1 = Len(items'[e])
  <1> DEFINE app == Append(items[e], to)
             one == <<to>>
  <1>0. /\ items \in [Engines -> Seq(1 .. MaxOffset)] /\ start \in [Engines -> Nat]
        /\ lim \in 0 .. MaxOffset + 1 /\ halted \in BOOLEAN
    BY QueueTypes
  <1>1. /\ app \in Seq(1 .. MaxOffset) /\ Len(app) = Len(items[e]) + 1
        /\ one \in Seq(1 .. MaxOffset) /\ Len(one) = 1
    BY <1>0
  <1> HIDE DEF app, one
  <1>2. /\ out' = <<>> /\ lim' = lim /\ halted' = halted /\ lim = 0
        /\ \/ items' = [items EXCEPT ![e] = app] /\ start' = start
           \/ items' = [items EXCEPT ![e] = one] /\ start' = [start EXCEPT ![e] = 0]
    BY <1>0 DEF Q!Push, app, one
  <1>3. CASE items' = [items EXCEPT ![e] = app] /\ start' = start
    <2>1. /\ items' \in [Engines -> Seq(1 .. MaxOffset)] /\ items'[e] = app
          /\ \A f \in Engines : f # e => items'[f] = items[f]
      BY <1>0, <1>1, <1>3
    <2>2. Q!TypeOK'  BY <1>0, <1>2, <1>3, <2>1, QueueTypesNext
    <2>3. Len(items[e]) \in Nat /\ start[e] \in Nat  BY <1>0
    <2> QED  BY <1>1, <1>2, <1>3, <2>1, <2>2, <2>3 DEF Parked
  <1>4. CASE items' = [items EXCEPT ![e] = one] /\ start' = [start EXCEPT ![e] = 0]
    <2>1. /\ items' \in [Engines -> Seq(1 .. MaxOffset)] /\ items'[e] = one
          /\ start' \in [Engines -> Nat] /\ start'[e] = 0
          /\ \A f \in Engines : f # e => items'[f] = items[f] /\ start'[f] = start[f]
      BY <1>0, <1>1, <1>4
    <2>2. Q!TypeOK'  BY <1>0, <1>2, <2>1, QueueTypesNext
    <2>3. start'[e] = 0 /\ Len(items'[e]) = 1  BY <1>1, <2>1
    <2>4. start'[e] < Len(items'[e]) /\ start'[e] + 1 = Len(items'[e])  BY <2>3
    <2> QED  BY <1>2, <2>1, <2>2, <2>4
  <1> QED  BY <1>2, <1>3, <1>4

LEMMA DeliverIs ==
    ASSUME TypeOK, NEW h \in BOOLEAN, Q!Deliver(h)
    PROVE  LET e == Q!Turn(lim) IN
           /\ e \in Engines /\ Q!TypeOK' /\ lim' = lim /\ lim # 0 /\ halted' = h
           /\ items' = items /\ start' = [start EXCEPT ![e] = start[e] + 1]
           /\ Parked(e) /\ Q!Due1(e) \in 1 .. MaxOffset /\ Q!Due1(e) <= lim
           /\ Q!Due1(e) = items[e][start[e] + 1]
  <1> DEFINE e == Q!Turn(lim)
  <1>0. /\ items \in [Engines -> Seq(1 .. MaxOffset)] /\ start \in [Engines -> Nat]
        /\ lim \in 0 .. MaxOffset + 1 /\ out \in Seq(1 .. MaxOffset)
    BY QueueTypes
  <1>1. e \in Engines  BY DEF Q!Turn, Engines
  <1>2. /\ lim # 0 /\ Q!Due(e, lim) /\ start' = [start EXCEPT ![e] = start[e] + 1]
        /\ out' = Append(out, Q!Due1(e)) /\ halted' = h /\ items' = items /\ lim' = lim
    BY <1>0, <1>1 DEF Q!Deliver
  <1> HIDE DEF e
  <1>3. Parked(e) /\ items[e][start[e] + 1] <= lim /\ Q!Due1(e) = items[e][start[e] + 1]
    BY <1>2 DEF Q!Due, Q!Unreported, Q!Due1, Parked
  <1>4. items[e] \in Seq(1 .. MaxOffset) /\ start[e] + 1 \in 1 .. Len(items[e])
    BY <1>0, <1>1, <1>3 DEF Parked
  <1>5. Q!Due1(e) \in 1 .. MaxOffset  BY <1>3, <1>4, ElementIs
  <1>6. start' \in [Engines -> Nat] /\ out' \in Seq(1 .. MaxOffset)
    BY <1>0, <1>1, <1>2, <1>5
  <1>7. Q!TypeOK'  BY <1>0, <1>2, <1>6, QueueTypesNext
  <1> QED  BY <1>1, <1>2, <1>3, <1>5, <1>7 DEF e

\* A flush of everything that was not stopped leaves nothing behind.
LEMMA FlushedAll ==
    ASSUME TypeOK, lim = Q!All, \A e \in Engines : ~Q!Due(e, lim)
    PROVE  Drained
  <1> SUFFICES ASSUME NEW e \in Engines, Parked(e) PROVE FALSE
    BY DEF Drained
  <1>1. items[e] \in Seq(1 .. MaxOffset) /\ start[e] \in Nat  BY QueueTypes
  <1>2. start[e] + 1 \in 1 .. Len(items[e])  BY <1>1 DEF Parked
  <1>3. items[e][start[e] + 1] \in 1 .. MaxOffset  BY <1>1, <1>2, ElementIs
  <1>4. items[e][start[e] + 1] <= MaxOffset + 1  BY <1>3, ScanAssumption
  <1> QED  BY <1>4 DEF Q!Due, Q!Unreported, Q!All, Parked

----------------------------------------------------------------------------
(* Between two reports *)

Between == {"zero_eod", "zero", "gate", "lily", "lily_done", "teddy", "engines_done", "rose",
            "done_scan", "flushed", "eod", "set_retval", "comb"}

LEMMA GotoStep ==
    ASSUME IInv, pc \in Between, NEW l \in Between, Goto(l),
           l \in Quiescent => pc \in Quiescent
    PROVE  IInv'
  <1>0. TypeOK /\ Control /\ Drain  BY DEF IInv
  <1>1. /\ pc' = l
        /\ UNCHANGED <<items, start, lim, halted, out>> /\ UNCHANGED <<db, len, hits, scan>>
        /\ UNCHANGED <<pos, inUse, status, evec, lilyed, rep, after, ret>>
        /\ UNCHANGED <<cbs, stopped, before, owner>>
    BY DEF Goto, qvars, svars, hist
  <1>2. TypeOK'  BY <1>0, <1>1 DEF TypeOK, Q!TypeOK, Between, Labels
  <1>3. Control'
    <2>1. lim = 0 /\ l \notin {"flush", "crashed", "report", "idle"}
      BY <1>0 DEF Control, Between
    <2> QED  BY <1>0, <1>1, <2>1 DEF Control, InReport, Between
  <1>4. Drain'
    <2>1. Drained' <=> Drained  BY <1>1 DEF Drained, Parked
    <2>2. \A e \in Engines : Parked(e)' <=> Parked(e)  BY <1>1 DEF Parked
    <2>3. ~InReport'  BY <1>1 DEF InReport, Between
    <2> QED  BY <1>0, <1>1, <2>1, <2>2, <2>3 DEF Drain
  <1> QED  BY <1>2, <1>3, <1>4 DEF IInv

\* A report begins; it may have to flush the parked matches first.
LEMMA RaiseIs ==
    ASSUME NEW r \in AllRules, NEW to \in 0 .. MaxOffset, TypeOK, Raise(r, to)
    PROVE  /\ rep' = [rule |-> r, to |-> to] /\ rep'.rule = r /\ rep'.to = to
           /\ UNCHANGED <<items, start, out>> /\ Q!TypeOK'
           /\ \/ /\ pc' = "flush" /\ after' = "report" /\ lim' = to /\ lim' # 0 /\ ~halted'
              \/ /\ pc' = "report" /\ after' = after /\ lim' = lim /\ halted' = halted
  <1>0. /\ items \in [Engines -> Seq(1 .. MaxOffset)] /\ start \in [Engines -> Nat]
        /\ lim \in 0 .. MaxOffset + 1 /\ halted \in BOOLEAN /\ out \in Seq(1 .. MaxOffset)
    BY QueueTypes
  <1>1. rep' = [rule |-> r, to |-> to]  BY DEF Raise
  <1>2. CASE FlushesFirst(to)
    <2>1. /\ pc' = "flush" /\ after' = "report" /\ lim' = to /\ lim' # 0 /\ ~halted'
          /\ UNCHANGED <<items, start, out>> /\ halted' \in BOOLEAN
      <3>1. Flush(to, "report")  BY <1>2 DEF Raise
      <3>2. to # 0  BY <1>2, ScanAssumption DEF FlushesFirst
      <3>3. /\ pc' = "flush" /\ after' = "report" /\ lim' = to /\ halted' = FALSE
            /\ UNCHANGED <<items, start, out>>
        BY <3>1 DEF Flush, Q!BeginFlush
      <3> QED  BY <3>2, <3>3
    <2>2. lim' \in 0 .. MaxOffset + 1  BY <2>1, ScanAssumption
    <2> QED  BY <1>0, <1>1, <2>1, <2>2, QueueTypesNext
  <1>3. CASE ~FlushesFirst(to)
    <2>1. /\ pc' = "report" /\ after' = after /\ UNCHANGED <<items, start, lim, halted, out>>
      BY <1>3 DEF Raise, qvars
    <2> QED  BY <1>0, <1>1, <2>1, QueueTypesNext
  <1> QED  BY <1>2, <1>3

LEMMA RaiseStep ==
    ASSUME IInv, NEW r \in Main, NEW to \in 0 .. MaxOffset, Raise(r, to), pc \in Between,
           UNCHANGED <<svars, inUse, status, evec, lilyed, ret, hist>>,
           pos' \in [HitEngines -> Nat], r # "rose" => pc \in Quiescent
    PROVE  IInv'
  <1>0. TypeOK /\ Control /\ Drain  BY DEF IInv
  <1>1. r \in AllRules  BY DEF Main, AllRules, HitEngines
  <1>2. /\ rep' = [rule |-> r, to |-> to] /\ rep'.rule = r
        /\ UNCHANGED <<items, start, out>> /\ Q!TypeOK'
        /\ \/ /\ pc' = "flush" /\ after' = "report" /\ lim' = to /\ lim' # 0 /\ ~halted'
           \/ /\ pc' = "report" /\ after' = after /\ lim' = lim /\ halted' = halted
    BY <1>0, <1>1, RaiseIs
  <1>3. /\ UNCHANGED <<db, len, hits, scan>> /\ UNCHANGED <<inUse, status, evec, lilyed, ret>>
        /\ UNCHANGED <<cbs, stopped, before, owner>>
    BY DEF svars, hist
  <1>4. lim = 0 /\ pc # "idle"  BY <1>0 DEF Control, Between
  <1>5. TypeOK'
    <2>1. pc' \in Labels /\ after' \in Labels  BY <1>0, <1>2 DEF TypeOK, Labels
    <2>2. rep' \in [rule : AllRules \cup {"none"}, to : 0 .. MaxOffset]  BY <1>1, <1>2
    <2> QED  BY <1>0, <1>2, <1>3, <2>1, <2>2 DEF TypeOK
  <1>6. Control'
    <2>1. \A e \in Engines : start'[e] <= Len(items'[e]) /\ owner'[e] <= scan'
      BY <1>0, <1>2, <1>3 DEF Control
    <2>2. pc' \notin {"flush", "crashed"} => lim' = 0  BY <1>2, <1>4
    <2> QED  BY <1>0, <1>2, <1>3, <1>4, <2>1, <2>2 DEF Control, InReport
  <1>7. Drain'
    <2>1. Drained' <=> Drained  BY <1>2 DEF Drained, Parked
    <2>2. \A e \in Engines : Parked(e)' <=> Parked(e)  BY <1>2 DEF Parked
    <2>3. InReport' /\ pc' \notin Quiescent  BY <1>2 DEF InReport, Quiescent
    <2> QED  BY <1>0, <1>2, <1>3, <2>1, <2>2, <2>3 DEF Drain
  <1> QED  BY <1>5, <1>6, <1>7 DEF IInv

\* The scan returns; nothing was parked unless it was stopped.
LEMMA ReturnStep ==
    ASSUME IInv, pc \in Quiescent, lim = 0, NEW rv \in Errors, Return(rv),
           UNCHANGED <<qvars, svars, pos, status, evec, lilyed, hist>>
    PROVE  IInv'
  <1>0. TypeOK /\ Control /\ Drain  BY DEF IInv
  <1>1. /\ UNCHANGED <<items, start, lim, halted, out>> /\ UNCHANGED <<db, len, hits, scan>>
        /\ UNCHANGED <<pos, status, evec, lilyed>> /\ UNCHANGED <<cbs, stopped, before, owner>>
        /\ pc' = "idle" /\ inUse' = FALSE /\ ret' = rv /\ rep' = NoReport /\ after' = "idle"
    BY DEF qvars, svars, hist, Return
  <1>2. TypeOK'
    <2>1. rep' \in [rule : AllRules \cup {"none"}, to : 0 .. MaxOffset]
      BY <1>1, ScanAssumption DEF NoReport
    <2> QED  BY <1>0, <1>1, <2>1 DEF TypeOK, Q!TypeOK, Labels
  <1>3. Control'  BY <1>0, <1>1 DEF Control, InReport
  <1>4. Drain'
    <2>1. Drained' <=> Drained  BY <1>1 DEF Drained, Parked
    <2>2. \A e \in Engines : Parked(e)' <=> Parked(e)  BY <1>1 DEF Parked
    <2> QED  BY <1>0, <1>1, <2>1, <2>2 DEF Drain, InReport
  <1> QED  BY <1>2, <1>3, <1>4 DEF IInv

----------------------------------------------------------------------------
(* The scan begins *)

LEMMA HitsIs ==
    ASSUME NEW d, NEW n \in 0 .. MaxOffset, NEW h \in HitsOf(d, n)
    PROVE  h \in [HitEngines -> Seq(1 .. MaxOffset)]
  <1> USE ScanAssumption
  <1>1. ASSUME NEW s \in AscSeqs(n) PROVE s \in Seq(1 .. MaxOffset)
    <2>1. PICK k \in 0 .. n : s \in [1 .. k -> 1 .. n]  BY DEF AscSeqs
    <2>2. s \in Seq(1 .. n)  BY <2>1
    <2>3. 1 .. n \subseteq 1 .. MaxOffset  OBVIOUS
    <2> QED  BY <2>1, <2>3
  <1>2. h \in [HitEngines -> AscSeqs(n)]  BY DEF HitsOf
  <1> QED  BY <1>1, <1>2

LEMMA ScanBeginIs ==
    ASSUME TypeOK, ScanBegin
    PROVE  /\ TypeOK' /\ pc = "idle" /\ scan' = scan + 1
           /\ UNCHANGED <<items, start, lim, halted, out, owner>>
           /\ cbs' = <<>> /\ ~stopped' /\ ~lilyed' /\ (before' <=> before \/ stopped)
           /\ \/ pc' = "idle" /\ ret' = "SUCCESS"
              \/ pc' \in {"zero_eod", "zero"} /\ status' = {} /\ evec' = {}
  <1> USE ScanAssumption
  <1>1. PICK d \in Databases, n \in 0 .. MaxOffset : \E h \in HitsOf(d, n) :
           /\ db' = d /\ len' = n /\ hits' = h
           /\ \/ /\ d.minWidth > n
                 /\ Return("SUCCESS")
                 /\ UNCHANGED <<status, evec>>
              \/ /\ d.minWidth <= n
                 /\ inUse' = TRUE
                 /\ status' = {} /\ evec' = {}
                 /\ pc' = IF n = 0 THEN "zero_eod" ELSE "zero"
                 /\ UNCHANGED <<ret, rep, after>>
    BY DEF ScanBegin
  <1>2. /\ pc = "idle" /\ scan < MaxScans /\ scan' = scan + 1
        /\ pos' = [e \in HitEngines |-> 0] /\ cbs' = <<>> /\ stopped' = FALSE /\ lilyed' = FALSE
        /\ before' = (before \/ stopped)
        /\ UNCHANGED <<items, start, lim, halted, out>> /\ owner' = owner
    BY DEF ScanBegin, qvars
  <1>3. hits' \in [HitEngines -> Seq(1 .. MaxOffset)]  BY <1>1, HitsIs
  <1>4. /\ pc' \in Labels /\ status' \subseteq Flags /\ ret' \in Errors /\ after' \in Labels
        /\ evec' \subseteq {Ekey[r] : r \in AllRules} \ {NoKey} /\ inUse' \in BOOLEAN
        /\ rep' \in [rule : AllRules \cup {"none"}, to : 0 .. MaxOffset]
        /\ \/ pc' = "idle" /\ ret' = "SUCCESS"
           \/ pc' \in {"zero_eod", "zero"} /\ status' = {} /\ evec' = {}
    <2>1. CASE Return("SUCCESS") /\ UNCHANGED <<status, evec>>
      <3>1. /\ pc' = "idle" /\ ret' = "SUCCESS" /\ inUse' = FALSE /\ after' = "idle"
            /\ rep' = NoReport /\ status' = status /\ evec' = evec
        BY <2>1 DEF Return
      <3>2. NoReport \in [rule : AllRules \cup {"none"}, to : 0 .. MaxOffset]  BY DEF NoReport
      <3> QED  BY <3>1, <3>2 DEF TypeOK, Labels, Errors
    <2>2. CASE /\ inUse' = TRUE /\ status' = {} /\ evec' = {}
               /\ pc' = IF n = 0 THEN "zero_eod" ELSE "zero"
               /\ UNCHANGED <<ret, rep, after>>
      BY <2>2 DEF TypeOK, Labels
    <2> QED  BY <1>1, <2>1, <2>2
  <1>5. scan \in 0 .. MaxScans /\ scan' \in 0 .. MaxScans  BY <1>2 DEF TypeOK
  <1>6. /\ db' \in Databases /\ len' \in 0 .. MaxOffset  BY <1>1
  <1>7. Q!TypeOK' /\ owner' \in [Engines -> 0 .. MaxScans]
    BY <1>2 DEF TypeOK, Q!TypeOK
  <1>8. /\ cbs' \in Seq([rule : AllRules, to : 0 .. MaxOffset, scan : 0 .. MaxScans])
        /\ pos' \in [HitEngines -> Nat] /\ before' \in BOOLEAN
    BY <1>2 DEF TypeOK
  <1>9. hits' \in [HitEngines -> Seq(Q!Offsets)]  BY <1>3 DEF Q!Offsets
  <1>10. TypeOK'  BY <1>2, <1>4, <1>5, <1>6, <1>7, <1>8, <1>9 DEF TypeOK
  <1> QED  BY <1>2, <1>4, <1>10 DEF TypeOK

LEMMA ScanBeginStep == ASSUME IInv, ScanBegin PROVE IInv'
  <1>0. TypeOK /\ Control /\ Drain  BY DEF IInv
  <1>1. /\ TypeOK' /\ pc = "idle" /\ scan' = scan + 1
        /\ UNCHANGED <<items, start, lim, halted, out, owner>>
        /\ cbs' = <<>> /\ ~stopped' /\ ~lilyed' /\ (before' <=> before \/ stopped)
        /\ \/ pc' = "idle" /\ ret' = "SUCCESS"
           \/ pc' \in {"zero_eod", "zero"} /\ status' = {} /\ evec' = {}
    BY <1>0, ScanBeginIs
  <1>2. lim' = 0 /\ ~InReport'  BY <1>0, <1>1 DEF Control, InReport
  <1>3. \A e \in Engines : owner[e] \in Nat /\ scan \in Nat
    BY <1>0, ScanAssumption DEF TypeOK
  <1>4. Control'
    <2>1. \A e \in Engines : start'[e] <= Len(items'[e]) /\ owner'[e] <= scan'
      BY <1>0, <1>1, <1>3 DEF Control
    <2> QED  BY <1>1, <1>2, <2>1 DEF Control
  <1>5. Drain'
    <2>1. Drained' <=> Drained  BY <1>1 DEF Drained, Parked
    <2>2. \A e \in Engines : Parked(e)' <=> Parked(e)  BY <1>1 DEF Parked
    <2>3. ~before' => Drained  BY <1>0, <1>1 DEF Drain, Quiescent
    <2>4. ~before' => \A e \in Engines : ~Parked(e)'  BY <2>2, <2>3 DEF Drained
    <2> QED  BY <1>1, <2>1, <2>3, <2>4 DEF Drain
  <1> QED  BY <1>1, <1>4, <1>5 DEF IInv

----------------------------------------------------------------------------
(* The Lily engines *)

\* Gate and TeddyStart: the queue of the engine is emptied.
LEMMA StartStep ==
    ASSUME IInv, NEW e \in Engines, Q!InitItems(e), pc \in Between, pc' = e,
           UNCHANGED <<svars, pos, inUse, status, evec, lilyed, rep, after, ret, hist>>
    PROVE  IInv'
  <1>0. TypeOK /\ Control /\ Drain  BY DEF IInv
  <1>1. /\ Q!TypeOK' /\ lim' = 0
        /\ items'[e] = <<>> /\ start'[e] = 0
        /\ \A f \in Engines : f # e => items'[f] = items[f] /\ start'[f] = start[f]
    BY <1>0, InitItemsIs
  <1>2. /\ UNCHANGED <<db, len, hits, scan>> /\ UNCHANGED <<cbs, stopped, before, owner>>
        /\ UNCHANGED <<pos, inUse, status, evec, lilyed, rep, after, ret>>
    BY DEF svars, hist
  <1>3. pc' \notin Quiescent /\ ~InReport' /\ pc' \notin {"idle", "flush"} /\ pc # "idle"
    BY DEF Engines, Quiescent, InReport, Between
  <1>4. TypeOK'
    <2>1. pc' \in Labels  BY DEF Engines, Labels
    <2> QED  BY <1>0, <1>1, <1>2, <2>1 DEF TypeOK
  <1>5. start'[e] = Len(items'[e]) /\ ~Parked(e)'  BY <1>1 DEF Parked
  <1>6. \A f \in Engines : f # e => (Parked(f)' <=> Parked(f))  BY <1>1 DEF Parked
  <1>7. Control'
    <2>1. \A f \in Engines : start'[f] <= Len(items'[f]) /\ owner'[f] <= scan'
      <3> SUFFICES ASSUME NEW f \in Engines PROVE start'[f] <= Len(items'[f])
        BY <1>0, <1>2 DEF Control
      <3>1. CASE f = e  BY <1>1, <3>1
      <3>2. CASE f # e  BY <1>0, <1>1, <3>2 DEF Control
      <3> QED  BY <3>1, <3>2
    <2> QED  BY <1>0, <1>1, <1>2, <1>3, <2>1 DEF Control
  <1>8. Drain'  BY <1>0, <1>2, <1>3, <1>5, <1>6 DEF Drain
  <1> QED  BY <1>4, <1>7, <1>8 DEF IInv

LEMMA HitIs ==
    ASSUME TypeOK, NEW e \in Engines, pos[e] < Len(hits[e])
    PROVE  /\ hits[e][pos[e] + 1] \in 1 .. MaxOffset /\ e \in HitEngines /\ e \in AllRules
           /\ [pos EXCEPT ![e] = @ + 1] \in [HitEngines -> Nat]
  <1>1. e \in HitEngines /\ e \in AllRules  BY DEF Engines, HitEngines, AllRules
  <1>2. hits[e] \in Seq(1 .. MaxOffset) /\ pos[e] \in Nat /\ pos \in [HitEngines -> Nat]
    BY <1>1 DEF TypeOK, Q!Offsets
  <1>3. pos[e] + 1 \in 1 .. Len(hits[e])  BY <1>2
  <1>4. hits[e][pos[e] + 1] \in 1 .. MaxOffset  BY <1>2, <1>3, ElementIs
  <1> QED  BY <1>1, <1>2, <1>4

LEMMA EngineHitStep == ASSUME IInv, NEW e \in Engines, EngineHit(e) PROVE IInv'
  <1> USE ScanAssumption
  <1> DEFINE to == hits[e][pos[e] + 1]
  <1>0. TypeOK /\ Control /\ Drain  BY DEF IInv
  <1>1. /\ pc = e /\ pos[e] < Len(hits[e])
        /\ UNCHANGED <<db, len, hits, scan>> /\ UNCHANGED <<inUse, status, lilyed, rep, ret>>
        /\ UNCHANGED <<cbs, stopped, before>>
    BY DEF EngineHit, svars
  <1>2. /\ to \in 1 .. MaxOffset /\ e \in HitEngines /\ e \in AllRules
        /\ [pos EXCEPT ![e] = @ + 1] \in [HitEngines -> Nat]
    BY <1>0, <1>1, HitIs
  <1>3. lim = 0 /\ pc \notin Quiescent /\ ~InReport
    BY <1>0, <1>1 DEF Control, Engines, Quiescent, InReport
  <1>4. CASE /\ pos' = [pos EXCEPT ![e] = @ + 1]
             /\ UNCHANGED <<qvars, pc, evec, after, owner>>
    <2>1. UNCHANGED <<items, start, lim, halted, out>> /\ UNCHANGED <<pc, evec, after, owner>>
      BY <1>4 DEF qvars
    <2>2. TypeOK'  BY <1>0, <1>1, <1>2, <1>4, <2>1 DEF TypeOK, Q!TypeOK
    <2>3. Control'  BY <1>0, <1>1, <2>1 DEF Control, InReport
    <2>4. Drain'  BY <1>0, <1>1, <2>1 DEF Drain, Drained, Parked, InReport
    <2> QED  BY <2>2, <2>3, <2>4 DEF IInv
  <1>5. CASE /\ Q!Push(e, to)
             /\ pos' = [pos EXCEPT ![e] = @ + 1]
             /\ evec' = markAsMatched(e)
             /\ owner' = [owner EXCEPT ![e] = scan]
             /\ UNCHANGED <<pc, after>>
    <2> HIDE DEF to
    <2>1. /\ Q!TypeOK' /\ lim' = 0 /\ start'[e] < Len(items'[e])
          /\ \A f \in Engines : f # e => items'[f] = items[f] /\ start'[f] = start[f]
      BY <1>0, <1>2, <1>5, PushIs DEF Control
    <2>2. scan \in 0 .. MaxScans /\ owner \in [Engines -> 0 .. MaxScans]
      BY <1>0 DEF TypeOK
    <2>3. /\ owner' \in [Engines -> 0 .. MaxScans] /\ owner'[e] = scan
          /\ \A f \in Engines : f # e => owner'[f] = owner[f]
      BY <1>5, <2>2
    <2>4. evec' \subseteq {Ekey[r] : r \in AllRules} \ {NoKey}
      BY <1>0, <1>2, <1>5 DEF markAsMatched, TypeOK
    <2>5. TypeOK'  BY <1>0, <1>1, <1>2, <1>5, <2>1, <2>3, <2>4 DEF TypeOK
    <2>6. Control'
      <3>1. \A f \in Engines : start'[f] <= Len(items'[f]) /\ owner'[f] <= scan'
        <4> SUFFICES ASSUME NEW f \in Engines
                     PROVE  start'[f] <= Len(items'[f]) /\ owner'[f] <= scan
          BY <1>1
        <4>1. CASE f = e
          <5>1. start'[e] \in Nat /\ Len(items'[e]) \in Nat
            BY <2>1 DEF Q!TypeOK, Engines, Q!Engines
          <5> QED  BY <2>1, <2>2, <2>3, <4>1, <5>1
        <4>2. CASE f # e  BY <1>0, <2>1, <2>3, <4>2 DEF Control
        <4> QED  BY <4>1, <4>2
      <3> QED  BY <1>0, <1>1, <1>3, <1>5, <2>1, <3>1 DEF Control, InReport
    <2>7. Drain'
      <3>1. \A f \in Engines : f # e => (Parked(f)' <=> Parked(f))  BY <2>1 DEF Parked
      <3>2. pc' \notin Quiescent /\ ~InReport'  BY <1>3, <1>5 DEF InReport
      <3> QED  BY <1>0, <1>1, <2>3, <3>1, <3>2 DEF Drain
    <2> QED  BY <2>5, <2>6, <2>7 DEF IInv
  <1>6. CASE Flush(Q!All, e) /\ UNCHANGED <<pos, evec, owner>>
    <2>1. /\ pc' = "flush" /\ after' = e /\ lim' = Q!All /\ ~halted'
          /\ UNCHANGED <<items, start, out>> /\ halted' \in BOOLEAN
      BY <1>6 DEF Flush, Q!BeginFlush
    <2>2. Q!All = MaxOffset + 1 /\ Q!All \in 0 .. MaxOffset + 1 /\ Q!All # 0
      BY DEF Q!All
    <2>3. Q!TypeOK'
      <3>1. lim' \in 0 .. MaxOffset + 1  BY <2>1, <2>2
      <3> QED  BY <1>0, <2>1, <3>1, QueueTypes, QueueTypesNext
    <2>4. pc' \in Labels /\ after' \in Labels /\ after' # "report"
      BY <2>1 DEF Labels, Engines
    <2>5. TypeOK'  BY <1>0, <1>1, <1>6, <2>3, <2>4 DEF TypeOK
    <2>6. Control'
      <3>1. ~InReport'  BY <2>1, <2>4 DEF InReport
      <3>2. pc # "idle"  BY <1>1 DEF Engines
      <3> QED  BY <1>0, <1>1, <1>6, <2>1, <2>2, <3>1, <3>2 DEF Control
    <2>7. Drain'
      <3>1. \A f \in Engines : Parked(f)' <=> Parked(f)  BY <2>1 DEF Parked
      <3>2. pc' \notin Quiescent /\ ~InReport'  BY <2>1, <2>4 DEF InReport, Quiescent
      <3> QED  BY <1>0, <1>1, <1>6, <3>1, <3>2 DEF Drain
    <2> QED  BY <2>5, <2>6, <2>7 DEF IInv
  <1> QED  BY <1>4, <1>5, <1>6 DEF EngineHit

\* The Lily engines are through; one that was told to stop ends the scan.
LEMMA EnginesDoneStep == ASSUME IInv, EnginesDone PROVE IInv'
  <1>0. TypeOK /\ Control /\ Drain  BY DEF IInv
  <1>1. pc = "engines_done"  BY DEF EnginesDone
  <1>2. CASE lilyed
    <2>1. /\ status' = {"TERMINATED"} /\ pc' = "done_scan" /\ stopped
          /\ UNCHANGED <<items, start, lim, halted, out>> /\ UNCHANGED <<db, len, hits, scan>>
          /\ UNCHANGED <<pos, inUse, evec, lilyed, rep, after, ret>>
          /\ UNCHANGED <<cbs, stopped, before, owner>>
      BY <1>0, <1>2 DEF EnginesDone, Goto, Control, qvars, svars, hist
    <2>2. TypeOK'  BY <1>0, <2>1 DEF TypeOK, Q!TypeOK, Labels, Flags
    <2>3. Control'  BY <1>0, <1>1, <2>1 DEF Control, InReport
    <2>4. Drain'
      <3>1. \A e \in Engines : Parked(e)' <=> Parked(e)  BY <2>1 DEF Parked
      <3> QED  BY <1>0, <2>1, <3>1 DEF Drain, InReport, Quiescent
    <2> QED  BY <2>2, <2>3, <2>4 DEF IInv
  <1>3. CASE ~lilyed
    <2>1. PICK l \in Between : l = "rose"  BY DEF Between
    <2>2. Goto(l)  BY <1>3, <2>1 DEF EnginesDone
    <2> QED  BY <1>1, <2>1, <2>2, GotoStep DEF Between, Quiescent
  <1> QED  BY <1>2, <1>3

----------------------------------------------------------------------------
(* Callbacks and flushes *)

Record == [rule : AllRules, to : 0 .. MaxOffset, scan : 0 .. MaxScans]

\* The history of callbacks grows by one.
LEMMA AppendIs ==
    ASSUME TypeOK, NEW x \in Record, cbs' = Append(cbs, x)
    PROVE  /\ cbs' \in Seq(Record) /\ DOMAIN cbs' = DOMAIN cbs \cup {Len(cbs) + 1}
           /\ Len(cbs) + 1 \notin DOMAIN cbs /\ cbs'[Len(cbs) + 1] = x
           /\ \A i \in DOMAIN cbs : cbs'[i] = cbs[i]
           /\ DOMAIN cbs \subseteq Int /\ Len(cbs) + 1 \in Int
  <1>1. cbs \in Seq(Record)  BY DEF TypeOK, Record
  <1> QED  BY <1>1

LEMMA CallbackIs ==
    ASSUME IInv, NEW h \in BOOLEAN, Callback(h)
    PROVE  /\ pc = "report" /\ rep.rule \in Main /\ scan \in 0 .. MaxScans
           /\ cbs' = Append(cbs, [rule |-> rep.rule, to |-> rep.to, scan |-> scan])
           /\ [rule |-> rep.rule, to |-> rep.to, scan |-> scan] \in Record
           /\ stopped' = (stopped \/ h)
           /\ \/ /\ h /\ status' = status \cup {"TERMINATED"} /\ evec' = evec
                 /\ pc' = OnHalt(rep.rule)
              \/ /\ ~h /\ Keyed(rep.rule) /\ status' = status \cup {"EXHAUSTED"}
                 /\ evec' = markAsMatched(rep.rule) /\ pc' = OnHalt(rep.rule)
              \/ /\ ~h /\ status' = status /\ evec' = markAsMatched(rep.rule)
                 /\ pc' = OnGoOn(rep.rule)
           /\ UNCHANGED <<items, start, lim, halted, out>> /\ UNCHANGED <<db, len, hits, scan>>
           /\ UNCHANGED <<pos, inUse, lilyed, rep, after, ret, before, owner>>
  <1>1. pc = "report" /\ InReport  BY DEF Callback, InReport
  <1>2. rep.rule \in Main /\ scan \in 0 .. MaxScans /\ rep.to \in 0 .. MaxOffset
    BY <1>1 DEF IInv, Control, TypeOK
  <1>3. rep.rule \in AllRules  BY <1>2 DEF Main, AllRules, HitEngines
  <1>4. [rule |-> rep.rule, to |-> rep.to, scan |-> scan] \in Record  BY <1>2, <1>3 DEF Record
  <1>5. /\ UNCHANGED <<items, start, lim, halted, out>> /\ UNCHANGED <<db, len, hits, scan>>
        /\ UNCHANGED <<pos, inUse, lilyed, rep, after, ret, before, owner>>
    BY DEF Callback, qvars, svars
  <1> QED  BY <1>1, <1>2, <1>4, <1>5 DEF Callback, Keyed

LEMMA CallbackStep == ASSUME IInv, NEW h \in BOOLEAN, Callback(h) PROVE IInv'
  <1> DEFINE x == [rule |-> rep.rule, to |-> rep.to, scan |-> scan]
  <1>0. TypeOK /\ Control /\ Drain  BY DEF IInv
  <1>1. /\ pc = "report" /\ rep.rule \in Main /\ scan \in 0 .. MaxScans
        /\ cbs' = Append(cbs, x) /\ x \in Record /\ x.scan = scan
        /\ stopped' = (stopped \/ h)
        /\ \/ /\ h /\ status' = status \cup {"TERMINATED"} /\ evec' = evec
              /\ pc' = OnHalt(rep.rule)
           \/ /\ ~h /\ status' = status \cup {"EXHAUSTED"}
              /\ evec' = markAsMatched(rep.rule) /\ pc' = OnHalt(rep.rule)
           \/ /\ ~h /\ status' = status /\ evec' = markAsMatched(rep.rule)
              /\ pc' = OnGoOn(rep.rule)
        /\ UNCHANGED <<items, start, lim, halted, out>> /\ UNCHANGED <<db, len, hits, scan>>
        /\ UNCHANGED <<pos, inUse, lilyed, rep, after, ret, before, owner>>
    BY CallbackIs
  <1> HIDE DEF x
  <1>2. /\ cbs' \in Seq(Record) /\ DOMAIN cbs' = DOMAIN cbs \cup {Len(cbs) + 1}
        /\ cbs'[Len(cbs) + 1] = x /\ \A i \in DOMAIN cbs : cbs'[i] = cbs[i]
    BY <1>0, <1>1, AppendIs
  <1>3. /\ pc' \in {"done_scan", "comb_halt", "set_retval", "rose", "gate", "comb"}
        /\ pc' \in Quiescent => rep.rule # "rose"
    BY <1>1 DEF OnHalt, OnGoOn, Main, Quiescent
  <1>4. TypeOK'
    <2>1. pc' \in Labels  BY <1>3 DEF Labels
    <2>2. status' \subseteq Flags  BY <1>0, <1>1 DEF TypeOK, Flags
    <2>3. rep.rule \in AllRules  BY <1>1 DEF Main, AllRules, HitEngines
    <2>4. evec' \subseteq {Ekey[r] : r \in AllRules} \ {NoKey}
      BY <1>0, <1>1, <2>3 DEF TypeOK, markAsMatched
    <2>5. stopped' \in BOOLEAN  BY <1>0, <1>1 DEF TypeOK
    <2>6. cbs' \in Seq([rule : AllRules, to : 0 .. MaxOffset, scan : 0 .. MaxScans])
      BY <1>2 DEF Record
    <2> QED  BY <1>0, <1>1, <2>1, <2>2, <2>4, <2>5, <2>6 DEF TypeOK, Q!TypeOK
  <1>5. ~InReport' /\ pc' \notin {"flush", "crashed", "idle"}  BY <1>3 DEF InReport
  <1>6. Control'
    <2>1. "TERMINATED" \in status' <=> stopped'  BY <1>0, <1>1 DEF Control, TypeOK
    <2> QED  BY <1>0, <1>1, <1>5, <2>1 DEF Control
  <1>7. Drain'
    <2>1. Drained' <=> Drained  BY <1>1 DEF Drained, Parked
    <2>2. \A e \in Engines : Parked(e)' <=> Parked(e)  BY <1>1 DEF Parked
    <2>3. InReport  BY <1>1 DEF InReport
    <2>4. ~before => \A i \in DOMAIN cbs' : cbs'[i].scan = scan'
      BY <1>0, <1>1, <1>2 DEF Drain
    <2>5. ~stopped' => ~stopped  BY <1>1
    <2> QED  BY <1>0, <1>1, <1>3, <1>5, <2>1, <2>2, <2>3, <2>4, <2>5 DEF Drain
  <1> QED  BY <1>4, <1>6, <1>7 DEF IInv

\* The engine whose parked match is reported, and what it reports.
LEMMA LilyCallbackIs ==
    ASSUME IInv, NEW h \in BOOLEAN, LilyCallback(h)
    PROVE  \E e \in Engines, to \in 1 .. MaxOffset :
              /\ pc = "flush" /\ lim' = lim /\ halted' = h /\ Q!TypeOK'
              /\ items' = items /\ start' = [start EXCEPT ![e] = start[e] + 1] /\ Parked(e)
              /\ start \in [Engines -> Nat] /\ to = items[e][start[e] + 1] /\ to <= lim
              /\ cbs' = Append(cbs, [rule |-> e, to |-> to, scan |-> owner[e]])
              /\ [rule |-> e, to |-> to, scan |-> owner[e]] \in Record
              /\ stopped' = (stopped \/ h)
              /\ status' = (IF h THEN status \cup {"TERMINATED"} ELSE status)
              /\ UNCHANGED <<db, len, hits, scan>>
              /\ UNCHANGED <<pc, pos, inUse, evec, lilyed, rep, after, ret, before, owner>>
  <1> USE ScanAssumption
  <1> DEFINE e == Q!Turn(lim)
  <1>1. /\ pc = "flush" /\ Q!Deliver(h)
        /\ cbs' = Append(cbs, [rule |-> e, to |-> Q!Due1(e), scan |-> owner[e]])
        /\ stopped' = (stopped \/ h)
        /\ status' = (IF h THEN status \cup {"TERMINATED"} ELSE status)
        /\ UNCHANGED <<db, len, hits, scan>>
        /\ UNCHANGED <<pc, pos, inUse, evec, lilyed, rep, after, ret, before, owner>>
    BY DEF LilyCallback, LilyStatus, svars
  <1>2. /\ e \in Engines /\ Q!TypeOK' /\ lim' = lim /\ lim # 0 /\ halted' = h
        /\ items' = items /\ start' = [start EXCEPT ![e] = start[e] + 1]
        /\ Parked(e) /\ Q!Due1(e) \in 1 .. MaxOffset /\ Q!Due1(e) <= lim
        /\ Q!Due1(e) = items[e][start[e] + 1]
    BY <1>1, DeliverIs DEF IInv
  <1> HIDE DEF e
  <1>3. owner[e] \in 0 .. MaxScans  BY <1>2 DEF IInv, TypeOK
  <1>4. e \in AllRules  BY <1>2 DEF Engines, AllRules, HitEngines
  <1>5. [rule |-> e, to |-> Q!Due1(e), scan |-> owner[e]] \in Record
    BY <1>2, <1>3, <1>4 DEF Record
  <1>6. start \in [Engines -> Nat]  BY QueueTypes DEF IInv
  <1>7. PICK to \in 1 .. MaxOffset : to = Q!Due1(e)  BY <1>2
  <1> QED  BY <1>1, <1>2, <1>5, <1>6, <1>7

LEMMA LilyCallbackStep == ASSUME IInv, NEW h \in BOOLEAN, LilyCallback(h) PROVE IInv'
  <1>0. TypeOK /\ Control /\ Drain  BY DEF IInv
  <1>1. PICK e \in Engines, to \in 1 .. MaxOffset :
           /\ pc = "flush" /\ lim' = lim /\ halted' = h /\ Q!TypeOK'
           /\ items' = items /\ start' = [start EXCEPT ![e] = start[e] + 1] /\ Parked(e)
           /\ start \in [Engines -> Nat]
           /\ cbs' = Append(cbs, [rule |-> e, to |-> to, scan |-> owner[e]])
           /\ [rule |-> e, to |-> to, scan |-> owner[e]] \in Record
           /\ stopped' = (stopped \/ h)
           /\ status' = (IF h THEN status \cup {"TERMINATED"} ELSE status)
           /\ UNCHANGED <<db, len, hits, scan>>
           /\ UNCHANGED <<pc, pos, inUse, evec, lilyed, rep, after, ret, before, owner>>
    BY LilyCallbackIs
  <1> DEFINE x == [rule |-> e, to |-> to, scan |-> owner[e]]
  <1>2. x \in Record /\ x.scan = owner[e] /\ cbs' = Append(cbs, x)  BY <1>1
  <1> HIDE DEF x
  <1>3. /\ cbs' \in Seq(Record) /\ DOMAIN cbs' = DOMAIN cbs \cup {Len(cbs) + 1}
        /\ cbs'[Len(cbs) + 1] = x /\ \A i \in DOMAIN cbs : cbs'[i] = cbs[i]
    BY <1>0, <1>2, AppendIs
  <1>4. /\ start'[e] = start[e] + 1 /\ \A f \in Engines : f # e => start'[f] = start[f]
        /\ start[e] \in Nat
    BY <1>1
  <1>5. Len(items[e]) \in Nat  BY <1>0, QueueTypes
  <1>6. TypeOK'
    <2>1. status' \subseteq Flags  BY <1>0, <1>1 DEF TypeOK, Flags
    <2>2. cbs' \in Seq([rule : AllRules, to : 0 .. MaxOffset, scan : 0 .. MaxScans])
      BY <1>3 DEF Record
    <2>3. stopped' \in BOOLEAN  BY <1>0, <1>1 DEF TypeOK
    <2> QED  BY <1>0, <1>1, <2>1, <2>2, <2>3 DEF TypeOK
  <1>7. Control'
    <2>1. \A f \in Engines : start'[f] <= Len(items'[f]) /\ owner'[f] <= scan'
      BY <1>0, <1>1, <1>4, <1>5 DEF Control, Parked
    <2>2. "TERMINATED" \in status' <=> stopped'  BY <1>0, <1>1 DEF Control, TypeOK
    <2>3. InReport' <=> InReport  BY <1>1 DEF InReport
    <2> QED  BY <1>0, <1>1, <2>1, <2>2, <2>3 DEF Control
  <1>8. Drain'
    <2>1. \A f \in Engines : Parked(f)' => Parked(f)  BY <1>1, <1>4, <1>5 DEF Parked
    <2>2. Drained => Drained'  BY <2>1 DEF Drained
    <2>3. ~before => \A i \in DOMAIN cbs' : cbs'[i].scan = scan'
      BY <1>0, <1>1, <1>2, <1>3 DEF Drain
    <2>4. (InReport' <=> InReport) /\ (~stopped' => ~stopped)  BY <1>1 DEF InReport
    <2> QED  BY <1>0, <1>1, <2>1, <2>2, <2>3, <2>4 DEF Drain
  <1> QED  BY <1>6, <1>7, <1>8 DEF IInv

LEMMA NoTableStep == ASSUME IInv, NoTable PROVE IInv'
  <1>0. TypeOK /\ Control /\ Drain  BY DEF IInv
  <1>1. /\ pc = "flush" /\ pc' = "crashed"
        /\ UNCHANGED <<items, start, lim, halted, out>> /\ UNCHANGED <<db, len, hits, scan>>
        /\ UNCHANGED <<pos, inUse, status, evec, lilyed, rep, after, ret>>
        /\ UNCHANGED <<cbs, stopped, before, owner>>
    BY DEF NoTable, Goto, qvars, svars, hist
  <1>2. TypeOK'  BY <1>0, <1>1 DEF TypeOK, Q!TypeOK, Labels
  <1>3. Control'  BY <1>0, <1>1 DEF Control, InReport
  <1>4. Drain'
    <2>1. \A e \in Engines : Parked(e)' <=> Parked(e)  BY <1>1 DEF Parked
    <2> QED  BY <1>0, <1>1, <2>1 DEF Drain, InReport, Quiescent
  <1> QED  BY <1>2, <1>3, <1>4 DEF IInv

LEMMA FlushEndIs ==
    ASSUME IInv, FlushEnd
    PROVE  /\ pc = "flush" /\ lim' = 0
           /\ halted \/ \A e \in Engines : ~Q!Due(e, lim)
           /\ pc' = (IF after = "report" /\ halted THEN OnHalt(rep.rule) ELSE after)
           /\ lilyed' = (lilyed \/ (halted /\ after \in Engines))
           /\ pos' = (IF halted /\ after \in Engines
                      THEN [pos EXCEPT ![after] = Len(hits[after])] ELSE pos)
           /\ UNCHANGED <<items, start, halted, out>> /\ UNCHANGED <<db, len, hits, scan>>
           /\ UNCHANGED <<inUse, status, evec, rep, after, ret>>
           /\ UNCHANGED <<cbs, stopped, before, owner>>
  BY DEF FlushEnd, Q!EndFlush, Q!Engines, Engines, svars, hist

LEMMA FlushEndStep == ASSUME IInv, FlushEnd PROVE IInv'
  <1>0. TypeOK /\ Control /\ Drain  BY DEF IInv
  <1>1. /\ pc = "flush" /\ lim' = 0
        /\ halted \/ \A e \in Engines : ~Q!Due(e, lim)
        /\ pc' = (IF after = "report" /\ halted THEN OnHalt(rep.rule) ELSE after)
        /\ lilyed' = (lilyed \/ (halted /\ after \in Engines))
        /\ pos' = (IF halted /\ after \in Engines
                   THEN [pos EXCEPT ![after] = Len(hits[after])] ELSE pos)
        /\ UNCHANGED <<items, start, halted, out>> /\ UNCHANGED <<db, len, hits, scan>>
        /\ UNCHANGED <<inUse, status, evec, rep, after, ret>>
        /\ UNCHANGED <<cbs, stopped, before, owner>>
    BY FlushEndIs
  <1>2. /\ after \in Engines \cup {"report", "flushed"} /\ (after # "report" => lim = Q!All)
        /\ (halted => stopped) /\ (after = "report" => rep.rule \in Main /\ InReport)
    BY <1>0, <1>1 DEF Control, InReport
  <1>3. /\ after = "report" /\ halted => pc' \in {"done_scan", "comb_halt", "set_retval"}
        /\ after = "report" /\ ~halted => pc' = "report"
        /\ after # "report" => pc' = after
    BY <1>1, <1>2 DEF OnHalt, Main
  <1>4. pc' \notin {"idle", "flush", "crashed"}  BY <1>2, <1>3 DEF Engines
  <1>5. TypeOK'
    <2>1. pc' \in Labels  BY <1>2, <1>3 DEF Labels, Engines
    <2>2. pos' \in [HitEngines -> Nat]
      <3>1. pos \in [HitEngines -> Nat] /\ hits \in [HitEngines -> Seq(1 .. MaxOffset)]
        BY <1>0 DEF TypeOK, Q!Offsets
      <3>2. after \in Engines => after \in HitEngines /\ Len(hits[after]) \in Nat
        BY <3>1 DEF Engines, HitEngines
      <3> QED  BY <1>1, <3>1, <3>2
    <2>3. lilyed' \in BOOLEAN  BY <1>0, <1>1 DEF TypeOK
    <2>4. Q!TypeOK'
      <3>1. lim' \in 0 .. MaxOffset + 1  BY <1>1, ScanAssumption
      <3> QED  BY <1>0, <1>1, <3>1, QueueTypes, QueueTypesNext
    <2> QED  BY <1>0, <1>1, <2>1, <2>2, <2>3, <2>4 DEF TypeOK
  <1>6. Control'
    <2>1. InReport' => rep'.rule \in Main  BY <1>1, <1>2, <1>3, <1>4 DEF InReport, Engines
    <2>2. lilyed' => stopped'  BY <1>0, <1>1, <1>2 DEF Control
    <2> QED  BY <1>0, <1>1, <1>4, <2>1, <2>2 DEF Control
  <1>7. Drain'
    <2>1. Drained' <=> Drained  BY <1>1 DEF Drained, Parked
    <2>2. \A e \in Engines : Parked(e)' <=> Parked(e)  BY <1>1 DEF Parked
    <2>3. ASSUME ~before, ~stopped, pc' \in Quiescent \/ (InReport' /\ rep.rule # "rose")
          PROVE  Drained
      <3>0. ~halted  BY <1>2, <2>3
      <3>1. CASE after = "report"
        <4>1. rep.rule # "rose"  BY <1>3, <2>3, <3>0, <3>1 DEF Quiescent
        <4> QED  BY <1>0, <1>2, <2>3, <3>1, <4>1 DEF Drain
      <3>2. CASE after \in Engines  BY <1>3, <2>3, <3>2 DEF Engines, Quiescent, InReport
      <3>3. CASE after = "flushed"
        BY <1>0, <1>1, <1>2, <3>0, <3>3, FlushedAll
      <3> QED  BY <1>2, <3>1, <3>2, <3>3
    <2> QED  BY <1>0, <1>1, <2>1, <2>2, <2>3 DEF Drain
  <1> QED  BY <1>5, <1>6, <1>7 DEF IInv

LEMMA DoneScanStep == ASSUME IInv, DoneScan PROVE IInv'
  <1>0. TypeOK /\ Control /\ Drain  BY DEF IInv
  <1>1. /\ pc = "done_scan" /\ pc' = "flush" /\ after' = "flushed" /\ lim' = Q!All
        /\ halted' = FALSE /\ UNCHANGED <<items, start, out>>
        /\ UNCHANGED <<db, len, hits, scan>> /\ UNCHANGED <<pos, inUse, status, evec, lilyed, rep, ret>>
        /\ UNCHANGED <<cbs, stopped, before, owner>>
    BY DEF DoneScan, Flush, Q!BeginFlush, svars, hist
  <1>2. Q!All \in 0 .. MaxOffset + 1 /\ Q!All # 0  BY ScanAssumption DEF Q!All
  <1>3. Q!TypeOK'  BY <1>0, <1>1, <1>2, QueueTypes, QueueTypesNext
  <1>4. TypeOK'  BY <1>0, <1>1, <1>3 DEF TypeOK, Labels
  <1>5. Control'  BY <1>0, <1>1, <1>2 DEF Control, InReport
  <1>6. Drain'
    <2>1. \A e \in Engines : Parked(e)' <=> Parked(e)  BY <1>1 DEF Parked
    <2>2. pc' \notin Quiescent /\ ~InReport'  BY <1>1 DEF Quiescent, InReport
    <2> QED  BY <1>0, <1>1, <2>1, <2>2 DEF Drain
  <1> QED  BY <1>4, <1>5, <1>6 DEF IInv

\* The boundary programs.
LEMMA BoundaryStep ==
    ASSUME IInv, NEW l \in {"zero_eod", "zero", "eod"}, NEW r \in {"zeroEod", "zero", "eod"},
           NEW to \in 0 .. MaxOffset, NEW next \in {"set_retval", "gate"}, Boundary(l, r, to, next)
    PROVE  IInv'
  <1>1. pc = l /\ pc \in Between /\ pc \in Quiescent  BY DEF Boundary, Between, Quiescent
  <1>2. CASE /\ Raise(r, to)
             /\ UNCHANGED <<svars, pos, inUse, status, evec, lilyed, ret, hist>>
    <2>1. r \in Main /\ r # "rose"  BY DEF Main
    <2>2. pos' \in [HitEngines -> Nat]  BY <1>2 DEF IInv, TypeOK
    <2> QED  BY <1>1, <1>2, <2>1, <2>2, RaiseStep
  <1>3. CASE Goto(next)
    <2>1. next \in Between  BY DEF Between
    <2> QED  BY <1>1, <1>3, <2>1, GotoStep
  <1> QED  BY <1>2, <1>3 DEF Boundary

LEMMA LimIs == ASSUME IInv, pc \in Between \cup {"comb_halt"} PROVE lim = 0
  BY DEF IInv, Control, Between

LEMMA InitStep == ASSUME Init PROVE IInv
  <1> USE ScanAssumption
  <1>1. Q!TypeOK
    <2>1. items = [e \in Q!Engines |-> <<>>] /\ start = [e \in Q!Engines |-> 0]
          /\ lim = 0 /\ halted = FALSE /\ out = <<>>
      BY DEF Init, Q!Init
    <2>2. <<>> \in Seq(Q!Offsets) /\ 0 \in 0 .. Q!All  BY DEF Q!All
    <2> QED  BY <2>1, <2>2 DEF Q!TypeOK
  <1>2. TypeOK
    <2>1. rep \in [rule : AllRules \cup {"none"}, to : 0 .. MaxOffset]  BY DEF Init, NoReport
    <2>2. hits \in [HitEngines -> Seq(Q!Offsets)]  BY DEF Init
    <2>3. /\ pos \in [HitEngines -> Nat] /\ owner \in [Engines -> 0 .. MaxScans]
          /\ cbs \in Seq([rule : AllRules, to : 0 .. MaxOffset, scan : 0 .. MaxScans])
      BY DEF Init
    <2>4. /\ pc = "idle" /\ db \in Databases /\ len = 0 /\ after = "idle" /\ ret = "SUCCESS"
          /\ scan = 0 /\ status = {} /\ evec = {}
          /\ inUse = FALSE /\ lilyed = FALSE /\ stopped = FALSE /\ before = FALSE
      BY DEF Init
    <2>5. 0 \in 0 .. MaxOffset /\ 0 \in 0 .. MaxScans  OBVIOUS
    <2>6. pc \in Labels /\ after \in Labels /\ ret \in Errors  BY <2>4 DEF Labels, Errors
    <2> QED  BY <1>1, <2>1, <2>2, <2>3, <2>4, <2>5, <2>6 DEF TypeOK
  <1>3. \A e \in Engines : start[e] = 0 /\ items[e] = <<>> /\ owner[e] = 0
    BY DEF Init, Q!Init, Engines, Q!Engines
  <1>4. Control  BY <1>3 DEF Init, Control, InReport, Q!Init
  <1>5. Drain  BY <1>3 DEF Init, Drain, Drained, Parked
  <1> QED  BY <1>2, <1>4, <1>5 DEF IInv

LEMMA NextStep == ASSUME IInv, [Next]_vars PROVE IInv'
  <1>0. len \in 0 .. MaxOffset /\ 0 \in 0 .. MaxOffset  BY ScanAssumption DEF IInv, TypeOK
  <1>1. CASE ScanBegin  BY <1>1, ScanBeginStep
  <1>2. CASE ZeroEod  BY <1>0, <1>2, BoundaryStep DEF ZeroEod
  <1>3. CASE Zero  BY <1>0, <1>3, BoundaryStep DEF Zero
  <1>4. CASE Eod
    <2>1. PICK to \in 0 .. MaxOffset : to = len  BY <1>0
    <2> QED  BY <1>4, <2>1, BoundaryStep DEF Eod
  <1>5. CASE Gate
    <2>1. pc = "gate" /\ pc \in Between /\ "lily" \in Engines
      BY <1>5 DEF Gate, Between, Engines
    <2>2. CASE Goto("done_scan")  BY <2>1, <2>2, GotoStep DEF Between, Quiescent
    <2>3. CASE Goto("lily_done")  BY <2>1, <2>3, GotoStep DEF Between, Quiescent
    <2>4. CASE /\ Q!InitItems("lily") /\ pc' = "lily"
               /\ UNCHANGED <<svars, pos, inUse, status, evec, lilyed, rep, after, ret, hist>>
      BY <2>1, <2>4, StartStep
    <2> QED  BY <1>5, <2>2, <2>3, <2>4 DEF Gate
  <1>6. ASSUME NEW e \in Engines, EngineHit(e) PROVE IInv'  BY <1>6, EngineHitStep
  <1>7. CASE LilyDone
    BY <1>7, GotoStep DEF LilyDone, Between, Quiescent
  <1>8. CASE TeddyStart
    <2>1. pc = "lily_done" /\ pc \in Between /\ "teddy" \in Engines
      BY <1>8 DEF TeddyStart, Between, Engines
    <2>2. CASE Goto("engines_done")  BY <2>1, <2>2, GotoStep DEF Between, Quiescent
    <2>3. CASE /\ Q!InitItems("teddy") /\ pc' = "teddy"
               /\ UNCHANGED <<svars, pos, inUse, status, evec, lilyed, rep, after, ret, hist>>
      BY <2>1, <2>3, StartStep
    <2> QED  BY <1>8, <2>2, <2>3 DEF TeddyStart
  <1>9. CASE TeddyDone
    BY <1>9, GotoStep DEF TeddyDone, Between, Quiescent
  <1>10. CASE EnginesDone  BY <1>10, EnginesDoneStep
  <1>11. CASE RoseHit
    <2>1. /\ pc = "rose" /\ pc \in Between /\ pc \notin Quiescent /\ pos["rose"] < Len(hits["rose"])
          /\ pos' = [pos EXCEPT !["rose"] = @ + 1]
          /\ UNCHANGED <<svars, inUse, status, evec, lilyed, ret, hist>>
      BY <1>11 DEF RoseHit, Between, Quiescent
    <2>2. /\ pos \in [HitEngines -> Nat] /\ hits["rose"] \in Seq(1 .. MaxOffset)
          /\ pos["rose"] \in Nat /\ "rose" \in HitEngines
      BY DEF IInv, TypeOK, HitEngines, Q!Offsets
    <2>3. pos' \in [HitEngines -> Nat]  BY <2>1, <2>2
    <2>4. CASE UNCHANGED <<qvars, pc, rep, after>>
      <3>1. /\ UNCHANGED <<items, start, lim, halted, out>> /\ UNCHANGED <<db, len, hits, scan>>
            /\ UNCHANGED <<pc, rep, after, inUse, status, evec, lilyed, ret>>
            /\ UNCHANGED <<cbs, stopped, before, owner>>
        BY <2>1, <2>4 DEF qvars, svars, hist
      <3>2. TypeOK'  BY <2>3, <3>1 DEF IInv, TypeOK, Q!TypeOK
      <3>3. Control'  BY <3>1 DEF IInv, Control, InReport
      <3>4. Drain'  BY <3>1 DEF IInv, Drain, Drained, Parked, InReport
      <3> QED  BY <3>2, <3>3, <3>4 DEF IInv
    <2>5. CASE Raise("rose", hits["rose"][pos["rose"] + 1])
      <3>1. pos["rose"] + 1 \in 1 .. Len(hits["rose"])  BY <2>1, <2>2
      <3>2. hits["rose"][pos["rose"] + 1] \in 0 .. MaxOffset
        <4>1. hits["rose"][pos["rose"] + 1] \in 1 .. MaxOffset  BY <2>2, <3>1, ElementIs
        <4> QED  BY <4>1, ScanAssumption
      <3>3. PICK to \in 0 .. MaxOffset : to = hits["rose"][pos["rose"] + 1]  BY <3>2
      <3>4. Raise("rose", to) /\ "rose" \in Main  BY <2>5, <3>3 DEF Main
      <3> QED  BY <2>1, <2>3, <3>4, RaiseStep
    <2> QED  BY <1>11, <2>4, <2>5 DEF RoseHit
  <1>12. CASE RoseDone
    BY <1>12, GotoStep DEF RoseDone, Between, Quiescent
  <1>13. ASSUME NEW h \in BOOLEAN, Callback(h) PROVE IInv'  BY <1>13, CallbackStep
  <1>14. ASSUME NEW h \in BOOLEAN, LilyCallback(h) PROVE IInv'  BY <1>14, LilyCallbackStep
  <1>15. CASE NoTable  BY <1>15, NoTableStep
  <1>16. CASE FlushEnd  BY <1>16, FlushEndStep
  <1>17. CASE DoneScan  BY <1>17, DoneScanStep
  <1>18. CASE Flushed
    <2>1. pc = "flushed" /\ pc \in Between /\ pc \in Quiescent
      BY <1>18 DEF Flushed, Between, Quiescent
    <2>2. CASE Goto("eod")  BY <2>1, <2>2, GotoStep DEF Between, Quiescent
    <2>3. CASE /\ Return("SCAN_TERMINATED")
               /\ UNCHANGED <<qvars, svars, pos, status, evec, lilyed, hist>>
      BY <2>1, <2>3, LimIs, ReturnStep DEF Errors
    <2> QED  BY <1>18, <2>2, <2>3 DEF Flushed
  <1>19. CASE SetRetval
    <2>1. pc = "set_retval" /\ pc \in Between /\ pc \in Quiescent
      BY <1>19 DEF SetRetval, Between, Quiescent
    <2>2. CASE Goto("comb")  BY <2>1, <2>2, GotoStep DEF Between, Quiescent
    <2>3. CASE /\ Raise("comb", len)
               /\ UNCHANGED <<svars, pos, inUse, status, evec, lilyed, ret, hist>>
      <3>1. PICK to \in 0 .. MaxOffset : to = len  BY <1>0
      <3>2. Raise("comb", to) /\ "comb" \in Main  BY <2>3, <3>1 DEF Main
      <3>3. pos' \in [HitEngines -> Nat]  BY <2>3 DEF IInv, TypeOK
      <3> QED  BY <2>1, <2>3, <3>2, <3>3, RaiseStep
    <2> QED  BY <1>19, <2>2, <2>3 DEF SetRetval
  <1>20. CASE CombHalt
    BY <1>20, LimIs, ReturnStep DEF CombHalt, Quiescent, Errors
  <1>21. CASE ScanEnd
    <2>1. pc \in Between /\ pc \in Quiescent  BY <1>21 DEF ScanEnd, Between, Quiescent
    <2>2. PICK rv \in Errors : rv = IF told_to_stop_matching THEN "SCAN_TERMINATED" ELSE "SUCCESS"
      BY DEF Errors
    <2> QED  BY <1>21, <2>1, <2>2, LimIs, ReturnStep DEF ScanEnd
  <1>22. CASE UNCHANGED vars
    <2>1. /\ UNCHANGED <<items, start, lim, halted, out>> /\ UNCHANGED <<db, len, hits, scan>>
          /\ UNCHANGED <<pc, pos, inUse, status, evec, lilyed, rep, after, ret>>
          /\ UNCHANGED <<cbs, stopped, before, owner>>
      BY <1>22 DEF vars, qvars, svars, hist
    <2>2. TypeOK'  BY <2>1 DEF IInv, TypeOK, Q!TypeOK
    <2>3. Control'  BY <2>1 DEF IInv, Control, InReport
    <2>4. Drain'  BY <2>1 DEF IInv, Drain, Drained, Parked, InReport
    <2> QED  BY <2>2, <2>3, <2>4 DEF IInv
  <1> QED
    BY <1>1, <1>2, <1>3, <1>4, <1>5, <1>6, <1>7, <1>8, <1>9, <1>10, <1>11, <1>12, <1>13, <1>14,
       <1>15, <1>16, <1>17, <1>18, <1>19, <1>20, <1>21, <1>22
    DEF Next, ScanStep

\* The control state, the queues and the answers stay consistent.
THEOREM BlockScanInvariant == Spec => []IInv
  BY InitStep, NextStep, PTL DEF Spec

\* As long as the callback never stopped a scan of this scratch, every match
\* it sees is one the running scan found (lilyItemReport, done_scan).
THEOREM OwnMatches == Spec => []OwnUntilStopped
  <1>1. IInv => OwnUntilStopped
    <2> SUFFICES ASSUME IInv, ~before PROVE Own = DOMAIN cbs
      BY DEF OwnUntilStopped
    <2>1. \A i \in DOMAIN cbs : cbs[i].scan = scan  BY DEF IInv, Drain
    <2> QED  BY <2>1 DEF Own
  <1> QED  BY <1>1, BlockScanInvariant, PTL

----------------------------------------------------------------------------
(* Exhaustion keys *)

\* A step that reports and parks nothing.
LEMMA KeysStay ==
    ASSUME Keys, UNCHANGED <<items, start, owner, cbs, scan, evec>>,
           Winding => Winding',
           InReport' /\ Keyed(rep'.rule) => Ekey[rep'.rule] \notin evec,
           \A e \in Engines : (pc' = e \/ (pc' = "flush" /\ after' = e)) =>
              pc = e \/ (pc = "flush" /\ after = e)
    PROVE  Keys'
  <1>1. /\ items' = items /\ start' = start /\ owner' = owner /\ cbs' = cbs
        /\ scan' = scan /\ evec' = evec
    OBVIOUS
  <1>2. Own' = Own  BY <1>1 DEF Own
  <1>3. \A e \in Engines : (Parked(e)' <=> Parked(e)) /\ (OwnParked(e)' <=> OwnParked(e))
    BY <1>1 DEF Parked, OwnParked
  <1>4. SingleMatch'  BY <1>1, <1>2 DEF Keys, SingleMatch
  <1> QED  BY <1>1, <1>2, <1>3, <1>4 DEF Keys, Keyed

LEMMA KeysGoto ==
    ASSUME Keys, pc \in Between, NEW l \in Between \ Engines, Goto(l),
           pc \in {"done_scan", "flushed", "set_retval", "comb"} /\ "TERMINATED" \in status
              => l = "comb"
    PROVE  Keys'
  <1>1. /\ pc' = l /\ UNCHANGED <<items, start, owner, cbs, scan, evec>>
        /\ status' = status
    BY DEF Goto, qvars, svars, hist
  <1>2. ~InReport'  BY <1>1 DEF InReport, Between
  <1>3. Winding => Winding'  BY <1>1 DEF Winding, InReport, Between
  <1>4. \A e \in Engines : ~(pc' = e \/ (pc' = "flush" /\ after' = e))
    BY <1>1 DEF Between
  <1> QED  BY <1>1, <1>2, <1>3, <1>4, KeysStay

LEMMA KeysRaise ==
    ASSUME TypeOK, Keys, pc \in Between, NEW r \in Main, NEW to \in 0 .. MaxOffset, Raise(r, to),
           UNCHANGED <<svars, inUse, status, evec, lilyed, ret, hist>>,
           ~isExhausted(r),
           pc \in {"done_scan", "flushed", "set_retval", "comb"} => r = "comb"
    PROVE  Keys'
  <1>0. r \in AllRules  BY DEF Main, AllRules, HitEngines
  <1>1. /\ rep'.rule = r /\ UNCHANGED <<items, start, out>>
        /\ \/ /\ pc' = "flush" /\ after' = "report" /\ lim' = to /\ lim' # 0 /\ ~halted'
           \/ /\ pc' = "report" /\ after' = after /\ lim' = lim /\ halted' = halted
    BY <1>0, RaiseIs
  <1>2. UNCHANGED <<items, start, owner, cbs, scan, evec>> /\ status' = status
    BY <1>1 DEF svars, hist
  <1>3. InReport' /\ (Keyed(r) => Ekey[r] \notin evec)
    BY <1>1 DEF InReport, isExhausted, Keyed
  <1>4. Winding => Winding'  BY <1>1, <1>2, <1>3 DEF Winding, InReport, Between
  <1>5. \A e \in Engines : ~(pc' = e \/ (pc' = "flush" /\ after' = e))
    BY <1>1 DEF Engines
  <1> QED  BY <1>1, <1>2, <1>3, <1>4, <1>5, KeysStay

LEMMA KeysReturn ==
    ASSUME Keys, NEW rv, Return(rv),
           UNCHANGED <<qvars, svars, pos, status, evec, lilyed, hist>>
    PROVE  Keys'
  <1>1. UNCHANGED <<items, start, owner, cbs, scan, evec>> /\ pc' = "idle"
    BY DEF qvars, svars, hist, Return
  <1>2. Winding' /\ ~InReport'  BY <1>1 DEF Winding, InReport
  <1>3. \A e \in Engines : ~(pc' = e \/ (pc' = "flush" /\ after' = e))
    BY <1>1 DEF Engines
  <1> QED  BY <1>1, <1>2, <1>3, KeysStay

\* A new scan: no match is its own yet.
LEMMA KeysScanBegin == ASSUME IInv, Keys, ScanBegin PROVE Keys'
  <1>1. /\ scan' = scan + 1 /\ UNCHANGED <<items, start, owner>> /\ cbs' = <<>>
        /\ pc' \in {"idle", "zero_eod", "zero"}
    BY ScanBeginIs DEF IInv
  <1>2. Own' = {}  BY <1>1 DEF Own
  <1>3. \A e \in Engines : owner[e] \in Nat /\ scan \in Nat /\ owner[e] <= scan
    BY ScanAssumption DEF IInv, TypeOK, Control
  <1>4. \A e \in Engines : ~OwnParked(e)'  BY <1>1, <1>3 DEF OwnParked
  <1>5. ~InReport' /\ \A e \in Engines : ~(pc' = e \/ (pc' = "flush" /\ after' = e))
    BY <1>1 DEF InReport, Engines
  <1> QED  BY <1>2, <1>4, <1>5 DEF Keys, SingleMatch

LEMMA KeysStart ==
    ASSUME IInv, Keys, NEW e \in Engines, Q!InitItems(e), pc \in Between, pc' = e,
           pc \notin {"done_scan", "flushed", "set_retval", "comb"},
           UNCHANGED <<svars, pos, inUse, status, evec, lilyed, rep, after, ret, hist>>
    PROVE  Keys'
  <1>1. /\ items'[e] = <<>> /\ start'[e] = 0
        /\ \A f \in Engines : f # e => items'[f] = items[f] /\ start'[f] = start[f]
    BY InitItemsIs DEF IInv
  <1>2. UNCHANGED <<owner, cbs, scan, evec, status>>  BY DEF svars, hist
  <1>3. ~Parked(e)' /\ \A f \in Engines : f # e => (Parked(f)' <=> Parked(f))
    BY <1>1 DEF Parked
  <1>4. \A f \in Engines : OwnParked(f)' => OwnParked(f) /\ f # e
    BY <1>2, <1>3 DEF OwnParked
  <1>5. Own' = Own /\ SingleMatch'  BY <1>2 DEF Own, Keys, SingleMatch
  <1>6. ~InReport' /\ ~Winding  BY DEF InReport, Engines, Winding, Between
  <1>7. ASSUME NEW f \in Engines, pc' = f \/ (pc' = "flush" /\ after' = f) PROVE f = e
    BY <1>7 DEF Engines
  <1> QED  BY <1>1, <1>2, <1>3, <1>4, <1>5, <1>6, <1>7 DEF Keys, Keyed

\* A match is parked: its key was nowhere, and now is in the vector.
LEMMA KeysPush ==
    ASSUME IInv, Keys, NEW e \in Engines, NEW to \in 1 .. MaxOffset, pc = e, ~isExhausted(e),
           Q!Push(e, to), evec' = markAsMatched(e), owner' = [owner EXCEPT ![e] = scan],
           UNCHANGED <<pc, after, svars, status, cbs, rep>>
    PROVE  Keys'
  <1>0. TypeOK /\ Control  BY DEF IInv
  <1>1. /\ start'[e] < Len(items'[e])
        /\ \A f \in Engines : f # e => items'[f] = items[f] /\ start'[f] = start[f]
        /\ ~Parked(e) => start'[e] + 1 = Len(items'[e])
    BY <1>0, PushIs DEF Control
  <1>2. scan' = scan /\ cbs' = cbs  BY DEF svars
  <1>3. /\ owner'[e] = scan /\ \A f \in Engines : f # e => owner'[f] = owner[f]
    BY <1>0 DEF TypeOK
  <1>4. Own' = Own /\ SingleMatch'  BY <1>2 DEF Own, Keys, SingleMatch
  <1>5. \A f \in Engines : f # e => (OwnParked(f)' <=> OwnParked(f))
    BY <1>1, <1>2, <1>3 DEF OwnParked, Parked
  <1>6. ~InReport' /\ ~Winding /\ ~InReport
    BY DEF InReport, Engines, Winding
  <1>7. evec \subseteq evec' /\ (Keyed(e) => Ekey[e] \in evec' /\ Ekey[e] \notin evec)
    BY DEF markAsMatched, isExhausted, Keyed
  <1>8. ASSUME NEW i \in Own', Keyed(cbs'[i].rule) PROVE Ekey[cbs'[i].rule] \in evec'
    BY <1>2, <1>4, <1>6, <1>7, <1>8 DEF Keys
  <1>9. ASSUME NEW f \in Engines, OwnParked(f)', Keyed(f)
        PROVE  /\ Ekey[f] \in evec' /\ start'[f] + 1 = Len(items'[f])
               /\ \A i \in Own' : Ekey[cbs'[i].rule] # Ekey[f]
               /\ \A g \in Engines : g # f /\ OwnParked(g)' => Ekey[g] # Ekey[f]
    <2>1. CASE f = e
      <3>1. Ekey[e] \in evec' /\ Ekey[e] \notin evec /\ Ekey[e] # NoKey
        BY <1>7, <1>9, <2>1 DEF Keyed
      <3>2. ~Parked(e)
        <4>1. ~OwnParked(e)  BY <1>9, <2>1, <3>1 DEF Keys
        <4>2. Parked(e) => owner[e] = scan  BY DEF Keys
        <4> QED  BY <4>1, <4>2 DEF OwnParked
      <3>3. \A i \in Own : Ekey[cbs[i].rule] # Ekey[e]
        BY <1>6, <3>1 DEF Keys, Keyed
      <3>4. \A g \in Engines : g # e /\ OwnParked(g) => Ekey[g] # Ekey[e]
        BY <3>1 DEF Keys, Keyed
      <3> QED  BY <1>1, <1>2, <1>4, <1>5, <2>1, <3>1, <3>2, <3>3, <3>4
    <2>2. CASE f # e
      <3>1. OwnParked(f)  BY <1>5, <1>9, <2>2
      <3>2. /\ Ekey[f] \in evec /\ start[f] + 1 = Len(items[f])
            /\ \A i \in Own : Ekey[cbs[i].rule] # Ekey[f]
            /\ \A g \in Engines : g # f /\ OwnParked(g) => Ekey[g] # Ekey[f]
        BY <1>9, <3>1 DEF Keys
      <3>3. Ekey[e] # Ekey[f]  BY <1>7, <1>9, <3>2 DEF Keyed
      <3> QED  BY <1>1, <1>2, <1>4, <1>5, <1>7, <2>2, <3>2, <3>3
    <2> QED  BY <2>1, <2>2
  <1>10. ASSUME NEW f \in Engines, pc' = f \/ (pc' = "flush" /\ after' = f) PROVE f = e
    BY <1>10 DEF Engines
  <1> QED  BY <1>2, <1>3, <1>4, <1>6, <1>8, <1>9, <1>10 DEF Keys, Keyed

LEMMA KeysEngineHit == ASSUME IInv, Keys, NEW e \in Engines, EngineHit(e) PROVE Keys'
  <1> DEFINE to == hits[e][pos[e] + 1]
  <1>1. /\ pc = e /\ pos[e] < Len(hits[e]) /\ to \in 1 .. MaxOffset
        /\ UNCHANGED <<svars, status, rep, cbs>>
    BY HitIs DEF EngineHit, IInv
  <1>2. ~Winding  BY <1>1 DEF Winding, InReport, Engines
  <1>3. CASE UNCHANGED <<qvars, pc, evec, after, owner>>
    <2>1. UNCHANGED <<items, start, owner, cbs, scan, evec>> /\ pc' = pc
      BY <1>1, <1>3 DEF qvars, svars
    <2>2. ~InReport'  BY <1>1, <2>1 DEF InReport, Engines
    <2>3. \A f \in Engines : (pc' = f \/ (pc' = "flush" /\ after' = f)) =>
              pc = f \/ (pc = "flush" /\ after = f)
      BY <1>3
    <2> QED  BY <1>2, <2>1, <2>2, <2>3, KeysStay
  <1>4. CASE /\ ~isExhausted(e)
             /\ Q!Push(e, to) /\ evec' = markAsMatched(e)
             /\ owner' = [owner EXCEPT ![e] = scan]
             /\ UNCHANGED <<pc, after>>
    <2> HIDE DEF to
    <2>1. UNCHANGED <<pc, after, svars, status, cbs, rep>>  BY <1>1, <1>4
    <2> QED  BY <1>1, <1>4, <2>1, KeysPush
  <1>5. CASE Flush(Q!All, e) /\ UNCHANGED <<pos, evec, owner>>
    <2>1. /\ UNCHANGED <<items, start, owner, cbs, scan, evec>>
          /\ pc' = "flush" /\ after' = e
      BY <1>1, <1>5 DEF Flush, Q!BeginFlush, svars
    <2>2. ~InReport'  BY <2>1 DEF InReport, Engines
    <2>3. \A f \in Engines : (pc' = f \/ (pc' = "flush" /\ after' = f)) => pc = f
      BY <1>1, <2>1 DEF Engines
    <2> QED  BY <1>2, <2>1, <2>2, <2>3, KeysStay
  <1> QED  BY <1>1, <1>3, <1>4, <1>5 DEF EngineHit

LEMMA KeysRoseHit == ASSUME IInv, Keys, RoseHit PROVE Keys'
  <1>1. /\ pc = "rose" /\ pc \in Between /\ pos["rose"] < Len(hits["rose"])
        /\ UNCHANGED <<svars, inUse, status, evec, lilyed, ret, hist>>
    BY DEF RoseHit, Between
  <1>2. CASE UNCHANGED <<qvars, pc, rep, after>>
    <2>1. UNCHANGED <<items, start, owner, cbs, scan, evec>> /\ pc' = pc /\ after' = after
      BY <1>1, <1>2 DEF qvars, svars, hist
    <2>2. ~InReport' /\ ~Winding  BY <1>1, <2>1 DEF InReport, Winding
    <2> QED  BY <2>1, <2>2, KeysStay
  <1>3. CASE ~isExhausted("rose") /\ Raise("rose", hits["rose"][pos["rose"] + 1])
    <2>1. hits["rose"] \in Seq(1 .. MaxOffset) /\ pos["rose"] + 1 \in 1 .. Len(hits["rose"])
      BY <1>1 DEF IInv, TypeOK, HitEngines, Q!Offsets
    <2>2. hits["rose"][pos["rose"] + 1] \in 1 .. MaxOffset  BY <2>1, ElementIs
    <2>3. PICK to \in 0 .. MaxOffset : to = hits["rose"][pos["rose"] + 1]
      BY <2>2, ScanAssumption
    <2>4. Raise("rose", to) /\ "rose" \in Main  BY <1>3, <2>3 DEF Main
    <2> QED  BY <1>1, <1>3, <2>4, KeysRaise DEF IInv
  <1> QED  BY <1>2, <1>3 DEF RoseHit

LEMMA KeysEnginesDone == ASSUME IInv, Keys, EnginesDone PROVE Keys'
  <1>1. pc = "engines_done" /\ pc \in Between  BY DEF EnginesDone, Between
  <1>2. CASE lilyed
    <2>1. UNCHANGED <<items, start, owner, cbs, scan, evec>> /\ pc' = "done_scan"
      BY <1>2 DEF EnginesDone, Goto, qvars, svars, hist
    <2>2. ~InReport' /\ ~Winding  BY <1>1, <2>1 DEF InReport, Winding
    <2>3. \A e \in Engines : ~(pc' = e \/ (pc' = "flush" /\ after' = e))
      BY <2>1 DEF Engines
    <2> QED  BY <2>1, <2>2, <2>3, KeysStay
  <1>3. CASE ~lilyed
    <2>1. PICK l \in Between \ Engines : l = "rose"  BY DEF Between, Engines
    <2>2. Goto(l)  BY <1>3, <2>1 DEF EnginesDone
    <2> QED  BY <1>1, <2>2, KeysGoto
  <1> QED  BY <1>2, <1>3

LEMMA KeysNoTable == ASSUME IInv, Keys, NoTable PROVE Keys'
  <1>1. UNCHANGED <<items, start, owner, cbs, scan, evec>> /\ pc' = "crashed"
    BY DEF NoTable, Goto, qvars, svars, hist
  <1>2. ~InReport' /\ Winding'  BY <1>1 DEF InReport, Winding
  <1>3. \A e \in Engines : ~(pc' = e \/ (pc' = "flush" /\ after' = e))
    BY <1>1 DEF Engines
  <1> QED  BY <1>1, <1>2, <1>3, KeysStay

LEMMA KeysFlushEnd == ASSUME IInv, Keys, FlushEnd PROVE Keys'
  <1>1. /\ pc = "flush" /\ after \in Engines \cup {"report", "flushed"}
        /\ after = "report" => rep.rule \in Main
        /\ pc' = (IF after = "report" /\ halted THEN OnHalt(rep.rule) ELSE after)
        /\ UNCHANGED <<items, start, owner, cbs, scan, evec, status, rep, after>>
    BY FlushEndIs DEF IInv, Control, InReport
  <1>2. /\ after = "report" /\ halted /\ rep.rule = "comb" => pc' = "comb_halt"
        /\ after = "report" /\ halted => pc' \in {"done_scan", "comb_halt", "set_retval"}
        /\ after = "report" /\ ~halted => pc' = "report"
        /\ after # "report" => pc' = after
    BY <1>1 DEF OnHalt, Main
  <1>3. Winding => Winding'
    <2>1. ASSUME Winding PROVE Winding'
      <3>1. /\ "TERMINATED" \in status /\ "TERMINATED" \in status'
            /\ after = "flushed" \/ (after = "report" /\ rep.rule = "comb")
        BY <1>1, <2>1 DEF Winding, InReport
      <3>2. CASE after = "flushed"  BY <1>2, <3>1, <3>2 DEF Winding
      <3>3. CASE after = "report" /\ rep.rule = "comb"
        BY <1>1, <1>2, <3>1, <3>3 DEF Winding, InReport
      <3> QED  BY <3>1, <3>2, <3>3
    <2> QED  BY <2>1
  <1>4. InReport' => after = "report" /\ InReport  BY <1>1, <1>2 DEF InReport, Engines
  <1>5. InReport' /\ Keyed(rep'.rule) => Ekey[rep'.rule] \notin evec
    BY <1>1, <1>4 DEF Keys, Keyed
  <1>6. \A e \in Engines : (pc' = e \/ (pc' = "flush" /\ after' = e)) => pc = "flush" /\ after = e
    BY <1>1, <1>2 DEF Engines
  <1> QED  BY <1>1, <1>3, <1>5, <1>6, KeysStay

LEMMA KeysDoneScan == ASSUME IInv, Keys, DoneScan PROVE Keys'
  <1>1. /\ pc = "done_scan" /\ pc' = "flush" /\ after' = "flushed" /\ status' = status
        /\ UNCHANGED <<items, start, owner, cbs, scan, evec>>
    BY DEF DoneScan, Flush, Q!BeginFlush, svars, hist
  <1>2. ~InReport' /\ (Winding => Winding')  BY <1>1 DEF InReport, Winding
  <1>3. \A e \in Engines : ~(pc' = e \/ (pc' = "flush" /\ after' = e))
    BY <1>1 DEF Engines
  <1> QED  BY <1>1, <1>2, <1>3, KeysStay

\* The main report is made: its key was in no earlier report of this scan.
LEMMA KeysCallback ==
    ASSUME Ekey["comb"] = NoKey, IInv, Keys, NEW h \in BOOLEAN, Callback(h)
    PROVE  Keys'
  <1> DEFINE r == rep.rule
             x == [rule |-> r, to |-> rep.to, scan |-> scan]
             n == Len(cbs) + 1
  <1>1. /\ pc = "report" /\ r \in Main /\ cbs' = Append(cbs, x) /\ x \in Record
        /\ x.rule = r /\ x.scan = scan
        /\ \/ /\ "TERMINATED" \in status' /\ evec' = evec /\ pc' = OnHalt(r)
           \/ /\ evec' = markAsMatched(r) /\ pc' = OnHalt(r)
           \/ /\ evec' = markAsMatched(r) /\ pc' = OnGoOn(r)
        /\ "TERMINATED" \in status => "TERMINATED" \in status'
        /\ UNCHANGED <<items, start, owner, scan, after, rep>>
    BY CallbackIs
  <1> HIDE DEF x
  <1>2. /\ DOMAIN cbs' = DOMAIN cbs \cup {n} /\ n \notin DOMAIN cbs /\ cbs'[n] = x
        /\ \A i \in DOMAIN cbs : cbs'[i] = cbs[i]
    BY <1>1, AppendIs DEF IInv
  <1> HIDE DEF n
  <1>3. Own' = Own \cup {n} /\ n \notin Own /\ \A i \in Own : cbs'[i] = cbs[i]
    BY <1>1, <1>2 DEF Own
  <1>4. /\ pc' \in {"done_scan", "comb_halt", "set_retval", "rose", "gate", "comb"}
        /\ r = "comb" => pc' \in {"comb_halt", "comb"}
        /\ pc' = OnHalt(r) => pc' \in {"done_scan", "comb_halt", "set_retval"}
    BY <1>1 DEF OnHalt, OnGoOn, Main
  <1>5. /\ evec \subseteq evec'
        /\ Keyed(r) => Ekey[r] \in evec' \/ ("TERMINATED" \in status' /\ pc' = OnHalt(r))
    BY <1>1 DEF markAsMatched, Keyed
  <1>6. InReport /\ (Keyed(r) => Ekey[r] \notin evec /\ r # "comb")
    BY <1>1 DEF InReport, Keys, Keyed
  <1>7. Winding => r = "comb" /\ "TERMINATED" \in status
    BY <1>1 DEF Winding, InReport
  <1>8. Winding => Winding'  BY <1>1, <1>4, <1>7 DEF Winding
  <1>9. Keyed(r) => \A i \in Own : Ekey[cbs[i].rule] # Ekey[r]
    <2> SUFFICES ASSUME Keyed(r), NEW i \in Own, Ekey[cbs[i].rule] = Ekey[r] PROVE FALSE
      OBVIOUS
    <2>1. Keyed(cbs[i].rule) /\ Ekey[cbs[i].rule] \notin evec  BY <1>6 DEF Keyed
    <2>2. Winding  BY <2>1 DEF Keys
    <2> QED  BY <1>6, <1>7, <2>2
  <1>10. ASSUME NEW i \in Own', Keyed(cbs'[i].rule), Ekey[cbs'[i].rule] \notin evec'
         PROVE  Winding'
    <2>1. CASE i = n
      <3>1. cbs'[i].rule = r  BY <1>1, <1>2, <2>1
      <3>2. "TERMINATED" \in status' /\ pc' = OnHalt(r)  BY <1>5, <1>10, <3>1
      <3> QED  BY <1>4, <3>2 DEF Winding
    <2>2. CASE i \in Own
      <3>1. Keyed(cbs[i].rule) /\ Ekey[cbs[i].rule] \notin evec
        BY <1>3, <1>5, <1>10, <2>2
      <3> QED  BY <1>8, <2>2, <3>1 DEF Keys
    <2> QED  BY <1>3, <2>1, <2>2
  <1>11. \A e \in Engines : OwnParked(e)' <=> OwnParked(e)
    BY <1>1 DEF OwnParked, Parked
  <1>12. ASSUME NEW e \in Engines, OwnParked(e)', Keyed(e)
         PROVE  /\ Ekey[e] \in evec' /\ start'[e] + 1 = Len(items'[e])
                /\ \A i \in Own' : Ekey[cbs'[i].rule] # Ekey[e]
                /\ \A f \in Engines : f # e /\ OwnParked(f)' => Ekey[f] # Ekey[e]
    <2>1. /\ Ekey[e] \in evec /\ start[e] + 1 = Len(items[e])
          /\ \A i \in Own : Ekey[cbs[i].rule] # Ekey[e]
          /\ \A f \in Engines : f # e /\ OwnParked(f) => Ekey[f] # Ekey[e]
      BY <1>11, <1>12 DEF Keys
    <2>2. Ekey[r] # Ekey[e]  BY <1>6, <1>12, <2>1 DEF Keyed
    <2> QED  BY <1>1, <1>2, <1>3, <1>5, <1>11, <2>1, <2>2
  <1>13. ~InReport' /\ \A e \in Engines : ~(pc' = e \/ (pc' = "flush" /\ after' = e))
    BY <1>4 DEF InReport, Engines
  <1>14. SingleMatch'
    <2> SUFFICES ASSUME NEW i \in Own', NEW j \in Own', Keyed(cbs'[i].rule),
                        Ekey[cbs'[i].rule] = Ekey[cbs'[j].rule], i # j
                 PROVE  FALSE
      BY DEF SingleMatch, Keyed
    <2>1. CASE i \in Own /\ j \in Own
      BY <1>3, <2>1 DEF Keys, SingleMatch, Keyed
    <2>2. CASE i \in Own /\ j = n
      BY <1>1, <1>2, <1>3, <1>9, <2>2 DEF Keyed
    <2>3. CASE i = n /\ j \in Own
      BY <1>1, <1>2, <1>3, <1>9, <2>3 DEF Keyed
    <2> QED  BY <1>3, <2>1, <2>2, <2>3
  <1> QED  BY <1>10, <1>12, <1>13, <1>14 DEF Keys, Keyed

\* A parked match is reported: a keyed one is the last item of its queue.
LEMMA KeysLilyCallback ==
    ASSUME IInv, Keys, NEW h \in BOOLEAN, LilyCallback(h)
    PROVE  Keys'
  <1>1. PICK e \in Engines, to \in 1 .. MaxOffset :
           /\ pc = "flush" /\ items' = items /\ Parked(e)
           /\ start' = [start EXCEPT ![e] = start[e] + 1] /\ start \in [Engines -> Nat]
           /\ cbs' = Append(cbs, [rule |-> e, to |-> to, scan |-> owner[e]])
           /\ [rule |-> e, to |-> to, scan |-> owner[e]] \in Record
           /\ status' = (IF h THEN status \cup {"TERMINATED"} ELSE status)
           /\ UNCHANGED <<scan, pc, evec, rep, after, owner>>
    BY LilyCallbackIs
  <1> DEFINE x == [rule |-> e, to |-> to, scan |-> owner[e]]
             n == Len(cbs) + 1
  <1>2. x \in Record /\ x.rule = e /\ x.scan = owner[e] /\ cbs' = Append(cbs, x)  BY <1>1
  <1> HIDE DEF x
  <1>3. /\ DOMAIN cbs' = DOMAIN cbs \cup {n} /\ n \notin DOMAIN cbs /\ cbs'[n] = x
        /\ \A i \in DOMAIN cbs : cbs'[i] = cbs[i]
    BY <1>2, AppendIs DEF IInv
  <1> HIDE DEF n
  <1>4. /\ \A i \in Own' : i \in Own \/ (i = n /\ OwnParked(e))
        /\ \A i \in Own : cbs'[i] = cbs[i]
    BY <1>1, <1>2, <1>3 DEF Own, OwnParked
  <1>5. /\ start'[e] = start[e] + 1 /\ \A f \in Engines : f # e => start'[f] = start[f]
        /\ start[e] \in Nat /\ Len(items[e]) \in Nat
    BY <1>1, QueueTypes DEF IInv
  <1>6. /\ \A f \in Engines : Parked(f)' => Parked(f)
        /\ \A f \in Engines : OwnParked(f)' => OwnParked(f)
    BY <1>1, <1>5 DEF Parked, OwnParked
  <1>7. cbs'[n].rule = e  BY <1>2, <1>3
  <1>8. OwnParked(e) /\ Keyed(e) =>
           /\ Ekey[e] \in evec /\ ~Parked(e)'
           /\ \A i \in Own : Ekey[cbs[i].rule] # Ekey[e]
    BY <1>1, <1>5 DEF Keys, Parked
  <1>9. Winding => Winding'  BY <1>1 DEF Winding, InReport
  <1>10. ASSUME NEW i \in Own', Keyed(cbs'[i].rule), Ekey[cbs'[i].rule] \notin evec'
         PROVE  Winding'
    <2>1. CASE i \in Own
      <3>1. Keyed(cbs[i].rule) /\ Ekey[cbs[i].rule] \notin evec  BY <1>1, <1>4, <1>10, <2>1
      <3> QED  BY <1>9, <2>1, <3>1 DEF Keys
    <2>2. CASE i = n /\ OwnParked(e)  BY <1>1, <1>7, <1>8, <1>10, <2>2
    <2> QED  BY <1>4, <2>1, <2>2
  <1>11. ASSUME NEW f \in Engines, OwnParked(f)', Keyed(f)
         PROVE  /\ Ekey[f] \in evec' /\ start'[f] + 1 = Len(items'[f])
                /\ \A i \in Own' : Ekey[cbs'[i].rule] # Ekey[f]
                /\ \A g \in Engines : g # f /\ OwnParked(g)' => Ekey[g] # Ekey[f]
    <2>1. OwnParked(f) /\ Parked(f)'  BY <1>6, <1>11 DEF OwnParked
    <2>2. f # e  BY <1>8, <1>11, <2>1
    <2>3. /\ Ekey[f] \in evec /\ start[f] + 1 = Len(items[f])
          /\ \A i \in Own : Ekey[cbs[i].rule] # Ekey[f]
          /\ \A g \in Engines : g # f /\ OwnParked(g) => Ekey[g] # Ekey[f]
      BY <1>11, <2>1 DEF Keys
    <2>4. \A i \in Own' : Ekey[cbs'[i].rule] # Ekey[f]
      BY <1>4, <1>7, <2>2, <2>3
    <2> QED  BY <1>1, <1>5, <1>6, <2>2, <2>3, <2>4
  <1>12. SingleMatch'
    <2> SUFFICES ASSUME NEW i \in Own', NEW j \in Own', Keyed(cbs'[i].rule),
                        Ekey[cbs'[i].rule] = Ekey[cbs'[j].rule], i # j
                 PROVE  FALSE
      BY DEF SingleMatch, Keyed
    <2>1. CASE i \in Own /\ j \in Own
      BY <1>4, <2>1 DEF Keys, SingleMatch, Keyed
    <2>2. CASE i \in Own /\ j = n /\ OwnParked(e)
      BY <1>4, <1>7, <1>8, <2>2 DEF Keyed
    <2>3. CASE i = n /\ j \in Own /\ OwnParked(e)
      BY <1>4, <1>7, <1>8, <2>3 DEF Keyed
    <2> QED  BY <1>4, <2>1, <2>2, <2>3
  <1>13. InReport' /\ Keyed(rep'.rule) => Ekey[rep'.rule] \notin evec'
    BY <1>1 DEF InReport, Keys
  <1>14. ASSUME NEW f \in Engines, pc' = f \/ (pc' = "flush" /\ after' = f), Parked(f)'
         PROVE  owner'[f] = scan'
    BY <1>1, <1>6, <1>14 DEF Keys
  <1> QED  BY <1>10, <1>11, <1>12, <1>13, <1>14 DEF Keys, Keyed

LEMMA KeysNext == ASSUME Ekey["comb"] = NoKey, IInv, Keys, [Next]_vars PROVE Keys'
  <1>0. len \in 0 .. MaxOffset /\ 0 \in 0 .. MaxOffset /\ TypeOK  BY ScanAssumption DEF IInv, TypeOK
  <1>1. CASE ScanBegin  BY <1>1, KeysScanBegin
  <1>2. ASSUME NEW l \in {"zero_eod", "zero", "eod"}, NEW r \in {"zeroEod", "zero", "eod"},
               NEW to \in 0 .. MaxOffset, NEW next \in {"set_retval", "gate"},
               Boundary(l, r, to, next)
        PROVE  Keys'
    <2>1. /\ pc = l /\ pc \in Between
          /\ pc \notin {"done_scan", "flushed", "set_retval", "comb"}
      BY <1>2 DEF Boundary, Between
    <2>2. CASE /\ ~isExhausted(r) /\ Raise(r, to)
               /\ UNCHANGED <<svars, pos, inUse, status, evec, lilyed, ret, hist>>
      <3>1. r \in Main  BY DEF Main
      <3> QED  BY <1>0, <2>1, <2>2, <3>1, KeysRaise
    <2>3. CASE Goto(next)
      <3>1. next \in Between \ Engines  BY DEF Between, Engines
      <3> QED  BY <2>1, <2>3, <3>1, KeysGoto
    <2> QED  BY <1>2, <2>2, <2>3 DEF Boundary
  <1>3. CASE ZeroEod  BY <1>0, <1>2, <1>3 DEF ZeroEod
  <1>4. CASE Zero  BY <1>0, <1>2, <1>4 DEF Zero
  <1>5. CASE Eod
    <2>1. PICK to \in 0 .. MaxOffset : to = len  BY <1>0
    <2> QED  BY <1>2, <1>5, <2>1 DEF Eod
  <1>6. CASE Gate
    <2>1. pc = "gate" /\ pc \in Between /\ "lily" \in Engines
      BY <1>6 DEF Gate, Between, Engines
    <2>2. CASE Goto("done_scan")  BY <2>1, <2>2, KeysGoto DEF Between, Engines
    <2>3. CASE Goto("lily_done")  BY <2>1, <2>3, KeysGoto DEF Between, Engines
    <2>4. CASE /\ Q!InitItems("lily") /\ pc' = "lily"
               /\ UNCHANGED <<svars, pos, inUse, status, evec, lilyed, rep, after, ret, hist>>
      BY <2>1, <2>4, KeysStart
    <2> QED  BY <1>6, <2>2, <2>3, <2>4 DEF Gate
  <1>7. ASSUME NEW e \in Engines, EngineHit(e) PROVE Keys'  BY <1>7, KeysEngineHit
  <1>8. CASE LilyDone  BY <1>8, KeysGoto DEF LilyDone, Between, Engines
  <1>9. CASE TeddyStart
    <2>1. pc = "lily_done" /\ pc \in Between /\ "teddy" \in Engines
      BY <1>9 DEF TeddyStart, Between, Engines
    <2>2. CASE Goto("engines_done")  BY <2>1, <2>2, KeysGoto DEF Between, Engines
    <2>3. CASE /\ Q!InitItems("teddy") /\ pc' = "teddy"
               /\ UNCHANGED <<svars, pos, inUse, status, evec, lilyed, rep, after, ret, hist>>
      BY <2>1, <2>3, KeysStart
    <2> QED  BY <1>9, <2>2, <2>3 DEF TeddyStart
  <1>10. CASE TeddyDone  BY <1>10, KeysGoto DEF TeddyDone, Between, Engines
  <1>11. CASE EnginesDone  BY <1>11, KeysEnginesDone
  <1>12. CASE RoseHit  BY <1>12, KeysRoseHit
  <1>13. CASE RoseDone  BY <1>13, KeysGoto DEF RoseDone, Between, Engines
  <1>14. ASSUME NEW h \in BOOLEAN, Callback(h) PROVE Keys'  BY <1>14, KeysCallback
  <1>15. ASSUME NEW h \in BOOLEAN, LilyCallback(h) PROVE Keys'  BY <1>15, KeysLilyCallback
  <1>16. CASE NoTable  BY <1>16, KeysNoTable
  <1>17. CASE FlushEnd  BY <1>17, KeysFlushEnd
  <1>18. CASE DoneScan  BY <1>18, KeysDoneScan
  <1>19. CASE Flushed
    <2>1. pc = "flushed" /\ pc \in Between  BY <1>19 DEF Flushed, Between
    <2>2. CASE ~told_to_stop_matching /\ Goto("eod")
      BY <2>1, <2>2, KeysGoto DEF Between, Engines, told_to_stop_matching
    <2>3. CASE /\ Return("SCAN_TERMINATED")
               /\ UNCHANGED <<qvars, svars, pos, status, evec, lilyed, hist>>
      BY <2>3, KeysReturn
    <2> QED  BY <1>19, <2>2, <2>3 DEF Flushed
  <1>20. CASE SetRetval
    <2>1. pc = "set_retval" /\ pc \in Between  BY <1>20 DEF SetRetval, Between
    <2>2. CASE Goto("comb")  BY <2>1, <2>2, KeysGoto DEF Between, Engines
    <2>3. CASE /\ ~isExhausted("comb") /\ Raise("comb", len)
               /\ UNCHANGED <<svars, pos, inUse, status, evec, lilyed, ret, hist>>
      <3>1. PICK to \in 0 .. MaxOffset : to = len  BY <1>0
      <3>2. Raise("comb", to) /\ "comb" \in Main  BY <2>3, <3>1 DEF Main
      <3> QED  BY <1>0, <2>1, <2>3, <3>2, KeysRaise
    <2> QED  BY <1>20, <2>2, <2>3 DEF SetRetval
  <1>21. CASE CombHalt  BY <1>21, KeysReturn DEF CombHalt
  <1>22. CASE ScanEnd  BY <1>22, KeysReturn DEF ScanEnd
  <1>23. CASE UNCHANGED vars
    <2>1. /\ UNCHANGED <<items, start, owner, cbs, scan, evec>>
          /\ UNCHANGED <<pc, status, after, rep>>
      BY <1>23 DEF vars, qvars, svars, hist
    <2>2. Winding => Winding'  BY <2>1 DEF Winding, InReport
    <2>3. InReport' /\ Keyed(rep'.rule) => Ekey[rep'.rule] \notin evec
      BY <2>1 DEF InReport, Keys, Keyed
    <2> QED  BY <2>1, <2>2, <2>3, KeysStay
  <1> QED
    BY <1>1, <1>3, <1>4, <1>5, <1>6, <1>7, <1>8, <1>9, <1>10, <1>11, <1>12, <1>13, <1>14,
       <1>15, <1>16, <1>17, <1>18, <1>19, <1>20, <1>21, <1>22, <1>23
    DEF Next, ScanStep

LEMMA KeysInit == ASSUME Init PROVE Keys
  <1>1. /\ cbs = <<>> /\ pc = "idle" /\ rep = NoReport
        /\ \A e \in Engines : start[e] = 0 /\ items[e] = <<>>
    BY DEF Init, Q!Init, Engines, Q!Engines
  <1>2. Own = {} /\ ~InReport  BY <1>1 DEF Own, InReport
  <1>3. \A e \in Engines : ~Parked(e)  BY <1>1 DEF Parked
  <1> QED  BY <1>2, <1>3 DEF Keys, SingleMatch, OwnParked

\* A scan reports a rule with HS_FLAG_SINGLEMATCH, or the rules that share a
\* key, at most once, also the match a Lily engine parked long before; for
\* a combination without a key (roseDeliverReport, markAsMatched).
THEOREM OneMatchPerKey == ASSUME Ekey["comb"] = NoKey PROVE Spec => []SingleMatch
  <1>1. Init => Keys  BY KeysInit
  <1>2. IInv /\ Keys /\ [Next]_vars => Keys'  BY KeysNext
  <1>3. Keys => SingleMatch  BY DEF Keys
  <1> QED  BY <1>1, <1>2, <1>3, BlockScanInvariant, PTL DEF Spec

----------------------------------------------------------------------------
(* The verdict *)

\* A step that does not return: only a callback that asked to stop leads to
\* comb_halt.
Onward == pc' # "idle" /\ (pc' = "comb_halt" => stopped')

LEMMA OnwardHolds == ASSUME Onward PROVE Verdict' /\ TerminatedIffStopped'
  BY DEF Onward, Verdict, TerminatedIffStopped, Idle

LEMMA RaisePc == ASSUME NEW r, NEW to, Raise(r, to) PROVE Onward
  BY DEF Raise, Flush, Onward

LEMMA VerdictCallback ==
    ASSUME Ekey["comb"] = NoKey, IInv, NEW h \in BOOLEAN, Callback(h)
    PROVE  Onward
  <1>1. /\ rep.rule \in Main /\ stopped' = (stopped \/ h)
        /\ \/ h /\ pc' = OnHalt(rep.rule)
           \/ Keyed(rep.rule) /\ pc' = OnHalt(rep.rule)
           \/ pc' = OnGoOn(rep.rule)
    BY CallbackIs
  <1>2. Keyed(rep.rule) => rep.rule # "comb"  BY DEF Keyed
  <1> QED  BY <1>1, <1>2 DEF OnHalt, OnGoOn, Main, Onward

LEMMA VerdictFlushEnd == ASSUME IInv, FlushEnd PROVE Onward
  <1>1. /\ pc = "flush" /\ after \in Engines \cup {"report", "flushed"}
        /\ after = "report" => rep.rule \in Main
        /\ pc' = (IF after = "report" /\ halted THEN OnHalt(rep.rule) ELSE after)
        /\ (halted => stopped) /\ stopped' = stopped
    BY FlushEndIs DEF IInv, Control, InReport
  <1> QED  BY <1>1 DEF OnHalt, Main, Engines, Onward

LEMMA VerdictReturn ==
    ASSUME NEW rv, Return(rv), rv = "SCAN_TERMINATED" <=> stopped, UNCHANGED <<stopped, scan>>
    PROVE  Verdict' /\ TerminatedIffStopped'
  BY DEF Return, Verdict, TerminatedIffStopped, Idle

LEMMA VerdictNext ==
    ASSUME Ekey["comb"] = NoKey, IInv, Verdict, TerminatedIffStopped, [Next]_vars
    PROVE  Verdict' /\ TerminatedIffStopped'
  <1>0. pc # "idle" => ("TERMINATED" \in status <=> stopped)  BY DEF IInv, Control
  <1>1. CASE ScanBegin
    <2>1. /\ ~stopped'
          /\ \/ pc' = "idle" /\ ret' = "SUCCESS"
             \/ pc' \in {"zero_eod", "zero"}
      BY <1>1, ScanBeginIs DEF IInv
    <2> QED  BY <2>1 DEF Verdict, TerminatedIffStopped, Idle
  <1>2. ASSUME NEW l, NEW r, NEW to, NEW next \in {"set_retval", "gate"}, Boundary(l, r, to, next)
        PROVE  Onward
    BY <1>2, RaisePc DEF Boundary, Goto, Onward
  <1>3. CASE ZeroEod \/ Zero \/ Eod  BY <1>2, <1>3, OnwardHolds DEF ZeroEod, Zero, Eod
  <1>4. CASE Gate  BY <1>4, OnwardHolds DEF Gate, Goto, Onward
  <1>5. ASSUME NEW e \in Engines, EngineHit(e) PROVE Onward
    BY <1>5 DEF EngineHit, Flush, Onward, Engines
  <1>6. CASE LilyDone \/ TeddyStart \/ TeddyDone \/ EnginesDone \/ RoseDone
    <2>1. Onward
      BY <1>6 DEF LilyDone, TeddyStart, TeddyDone, EnginesDone, RoseDone, Goto, Onward
    <2> QED  BY <2>1, OnwardHolds
  <1>7. CASE RoseHit
    <2>1. Onward  BY <1>7, RaisePc DEF RoseHit, Onward
    <2> QED  BY <2>1, OnwardHolds
  <1>8. ASSUME NEW h \in BOOLEAN, Callback(h) PROVE Onward  BY <1>8, VerdictCallback
  <1>9. ASSUME NEW h \in BOOLEAN, LilyCallback(h) PROVE Onward
    BY <1>9 DEF LilyCallback, Onward
  <1>10. CASE NoTable  BY <1>10, OnwardHolds DEF NoTable, Goto, Onward
  <1>11. CASE FlushEnd  BY <1>11, VerdictFlushEnd, OnwardHolds
  <1>12. CASE DoneScan  BY <1>12, OnwardHolds DEF DoneScan, Flush, Onward
  <1>13. CASE Flushed
    <2>1. CASE /\ told_to_stop_matching /\ Return("SCAN_TERMINATED")
               /\ UNCHANGED <<qvars, svars, pos, status, evec, lilyed, hist>>
      <3>1. stopped  BY <1>0, <1>13, <2>1 DEF Flushed, told_to_stop_matching
      <3> QED  BY <2>1, <3>1, VerdictReturn DEF svars, hist
    <2>2. CASE Goto("eod")  BY <2>2, OnwardHolds DEF Goto, Onward
    <2> QED  BY <1>13, <2>1, <2>2 DEF Flushed
  <1>14. CASE SetRetval
    <2>1. Onward  BY <1>14, RaisePc DEF SetRetval, Goto, Onward
    <2> QED  BY <2>1, OnwardHolds
  <1>15. CASE CombHalt
    <2>1. stopped /\ Return("SCAN_TERMINATED") /\ UNCHANGED <<stopped, scan>>
      BY <1>15 DEF CombHalt, Verdict, svars, hist
    <2> QED  BY <2>1, VerdictReturn
  <1>16. CASE ScanEnd
    <2>1. PICK rv : rv = IF told_to_stop_matching THEN "SCAN_TERMINATED" ELSE "SUCCESS"
      OBVIOUS
    <2>2. pc = "comb" /\ Return(rv) /\ UNCHANGED <<stopped, scan>>
      BY <1>16, <2>1 DEF ScanEnd, svars, hist
    <2>3. rv = "SCAN_TERMINATED" <=> stopped  BY <1>0, <2>1, <2>2 DEF told_to_stop_matching
    <2> QED  BY <2>2, <2>3, VerdictReturn
  <1>17. CASE UNCHANGED vars
    <2>1. UNCHANGED <<pc, scan, ret, stopped>>  BY <1>17 DEF vars, svars, hist
    <2> QED  BY <2>1 DEF Verdict, TerminatedIffStopped, Idle
  <1> QED
    BY <1>1, <1>3, <1>4, <1>5, <1>6, <1>7, <1>8, <1>9, <1>10, <1>11, <1>12, <1>13, <1>14,
       <1>15, <1>16, <1>17, OnwardHolds
    DEF Next, ScanStep

\* hs_scan returns HS_SCAN_TERMINATED exactly when the callback asked to stop
\* (hs_scan_internal's return paths); for a combination without a key.
THEOREM TerminatedExactly == ASSUME Ekey["comb"] = NoKey PROVE Spec => []TerminatedIffStopped
  <1>1. Init => Verdict /\ TerminatedIffStopped
    BY DEF Init, Verdict, TerminatedIffStopped, Idle
  <1>2. IInv /\ Verdict /\ TerminatedIffStopped /\ [Next]_vars => Verdict' /\ TerminatedIffStopped'
    BY VerdictNext
  <1> QED  BY <1>1, <1>2, BlockScanInvariant, PTL DEF Spec

----------------------------------------------------------------------------
(* The order of the reports *)

\* The offsets the callback saw for the running scan, and those of its own
\* matches that engine e has parked.
Seen    == {cbs[i].to : i \in Own}
Left(e) == {items[e][k] : k \in {j \in start[e] + 1 .. Len(items[e]) : owner[e] = scan}}
UpTo(n) == \A v \in Seen : v <= n
InOrder == \A i, j \in Own : i <= j => cbs[i].to <= cbs[j].to

\* The hits engine r has raised, and the next one.
Got(r)    == {hits[r][k] : k \in 1 .. pos[r]}
Coming(r) == hits[r][pos[r] + 1]
More(r)   == pos[r] < Len(hits[r])

HitsOK(r) ==
    /\ pos[r] <= Len(hits[r])
    /\ \A k \in 1 .. Len(hits[r]) : hits[r][k] <= len
    /\ \A k \in 1 .. Len(hits[r]) - 1 : hits[r][k] < hits[r][k + 1]

Strict(e) ==
    owner[e] = scan =>
        \A j, k \in start[e] + 1 .. Len(items[e]) : j < k => items[e][j] < items[e][k]

Raised == \A r \in HitEngines : HitsOK(r) /\ (More(r) => \A v \in Got(r) : v < Coming(r))

\* Hits and parked matches ascend and lie in the block.
Bounds ==
    /\ Raised
    /\ \A e \in Engines : Left(e) \subseteq Got(e) /\ Strict(e)
    /\ \A e \in Engines : (pc = e \/ (pc = "flush" /\ after = e)) /\ Parked(e) => owner[e] = scan
    /\ pc = "flush" /\ after = "report" => lim = rep.to
    /\ InReport => rep.to <= len /\ (rep.rule \in {"zero", "zeroEod"} => rep.to = 0)
    /\ UpTo(len)

LEMMA CbsAre ==
    ASSUME TypeOK
    PROVE  /\ cbs \in Seq(Record) /\ Own \subseteq 1 .. Len(cbs) /\ Seen \subseteq 0 .. MaxOffset
           /\ \A i \in Own : cbs[i].to \in 0 .. MaxOffset /\ cbs[i].to \in Seen
  <1>1. cbs \in Seq(Record)  BY DEF TypeOK, Record
  <1>2. \A i \in 1 .. Len(cbs) : cbs[i] \in Record  BY <1>1
  <1>3. \A i \in Own : i \in 1 .. Len(cbs) /\ cbs[i].to \in 0 .. MaxOffset
    BY <1>1, <1>2 DEF Own, Record
  <1> QED  BY <1>1, <1>3 DEF Seen

LEMMA SeenSame ==
    ASSUME UNCHANGED <<cbs, scan>>
    PROVE  Own' = Own /\ Seen' = Seen /\ InOrder' = InOrder
  BY DEF Own, Seen, InOrder

\* One more callback, for a match of scan x.scan.
LEMMA SeenGrows ==
    ASSUME TypeOK, NEW x \in Record, cbs' = Append(cbs, x), scan' = scan
    PROVE  /\ x.scan = scan => /\ Seen' = Seen \cup {x.to}
                               /\ InOrder /\ (\A v \in Seen : v <= x.to) => InOrder'
           /\ x.scan # scan => Seen' = Seen /\ (InOrder => InOrder')
  <1>1. /\ DOMAIN cbs' = DOMAIN cbs \cup {Len(cbs) + 1}
        /\ Len(cbs) + 1 \notin DOMAIN cbs /\ cbs'[Len(cbs) + 1] = x
        /\ \A i \in DOMAIN cbs : cbs'[i] = cbs[i]
    BY AppendIs
  <1>2. Own \subseteq DOMAIN cbs  BY DEF Own
  <1>3. cbs \in Seq(Record) /\ Own \subseteq 1 .. Len(cbs) /\ x.to \in Int
        /\ \A i \in Own : cbs[i].to \in Int /\ cbs[i].to \in Seen
    BY CbsAre DEF Record
  <1> DEFINE n == Len(cbs) + 1
  <1>4. n \in Int /\ \A i \in Own : i \in Int /\ i < n  BY <1>3
  <1> HIDE DEF n
  <1>5. CASE x.scan = scan
    <2>1. Own' = Own \cup {n}  BY <1>1, <1>5 DEF Own, n
    <2>2. cbs'[n] = x /\ \A i \in Own : cbs'[i] = cbs[i]  BY <1>1, <1>2 DEF n
    <2>3. Seen' = Seen \cup {x.to}  BY <2>1, <2>2 DEF Seen
    <2>4. ASSUME InOrder, \A v \in Seen : v <= x.to PROVE InOrder'
      <3> SUFFICES ASSUME NEW i \in Own \cup {n}, NEW j \in Own \cup {n}, i <= j
                   PROVE  cbs'[i].to <= cbs'[j].to
        BY <2>1 DEF InOrder
      <3>1. CASE i \in Own /\ j \in Own  BY <2>2, <2>4, <3>1 DEF InOrder
      <3>2. CASE i \in Own /\ j = n  BY <1>3, <2>2, <2>4, <3>2
      <3>3. CASE i = n /\ j \in Own  BY <1>4, <3>3
      <3>4. CASE i = n /\ j = n
        <4>1. cbs'[i].to = x.to /\ cbs'[j].to = x.to  BY <2>2, <3>4
        <4> QED  BY <1>3, <4>1
      <3> QED  BY <3>1, <3>2, <3>3, <3>4
    <2> QED  BY <1>5, <2>3, <2>4
  <1>6. CASE x.scan # scan
    <2>1. Own' = Own  BY <1>1, <1>6 DEF Own
    <2>2. \A i \in Own : cbs'[i] = cbs[i]  BY <1>1, <1>2
    <2> QED  BY <1>6, <2>1, <2>2 DEF Seen, InOrder
  <1> QED  BY <1>5, <1>6

LEMMA LeftSame ==
    ASSUME NEW e \in Engines, items'[e] = items[e], start'[e] = start[e], owner'[e] = owner[e], scan' = scan
    PROVE  Left(e)' = Left(e) /\ Strict(e)' = Strict(e)
  BY DEF Left, Strict

LEMMA LeftEmpty == ASSUME NEW e, owner[e] # scan \/ start[e] >= Len(items[e]), TypeOK, e \in Engines
                   PROVE Left(e) = {}
  <1>1. start[e] \in Nat /\ Len(items[e]) \in Nat  BY QueueTypes
  <1> QED  BY <1>1 DEF Left

\* A hit that is parked: the waiting matches of its engine grow by it.
LEMMA LeftPush ==
    ASSUME TypeOK, NEW e \in Engines, start[e] <= Len(items[e]), NEW to \in 1 .. MaxOffset,
           Q!Push(e, to), owner' = [owner EXCEPT ![e] = scan], scan' = scan,
           Parked(e) => owner[e] = scan, Strict(e), \A v \in Left(e) : v < to
    PROVE  /\ Left(e)' = Left(e) \cup {to} /\ Strict(e)'
           /\ \A f \in Engines : f # e => Left(f)' = Left(f) /\ Strict(f)' = Strict(f)
           /\ Len(items'[e]) <= Len(items[e]) + 1
  <1> DEFINE s == items[e]
             n == Len(items[e])
             app == Append(items[e], to)
             one == <<to>>
  <1>0. /\ items \in [Engines -> Seq(1 .. MaxOffset)] /\ start \in [Engines -> Nat]
        /\ owner \in [Engines -> 0 .. MaxScans]
    BY QueueTypes DEF TypeOK
  <1>1. /\ s \in Seq(1 .. MaxOffset) /\ n \in Nat /\ start[e] \in Nat
        /\ Len(app) = n + 1 /\ app[n + 1] = to /\ \A k \in 1 .. n : app[k] = s[k]
        /\ Len(one) = 1 /\ one[1] = to
        /\ \A k \in 1 .. n : s[k] \in Int
    <2>1. s \in Seq(1 .. MaxOffset) /\ n \in Nat /\ start[e] \in Nat  BY <1>0
    <2>2. \A k \in 1 .. n : s[k] \in 1 .. MaxOffset  BY <2>1, ElementIs
    <2>3. /\ Len(app) = n + 1 /\ app[n + 1] = to /\ \A k \in 1 .. n : app[k] = s[k]
      BY <2>1
    <2>4. Len(one) = 1 /\ one[1] = to  OBVIOUS
    <2> QED  BY <2>1, <2>2, <2>3, <2>4
  <1>2. /\ \A f \in Engines : f # e => items'[f] = items[f] /\ start'[f] = start[f]
        /\ owner'[e] = scan /\ \A f \in Engines : f # e => owner'[f] = owner[f]
    BY <1>0, PushIs
  <1>3. \A f \in Engines : f # e => Left(f)' = Left(f) /\ Strict(f)' = Strict(f)
    BY <1>2, LeftSame
  <1> HIDE DEF app, one
  <1>4. \/ items' = [items EXCEPT ![e] = app] /\ start' = start
        \/ start[e] = n /\ items' = [items EXCEPT ![e] = one] /\ start' = [start EXCEPT ![e] = 0]
    BY <1>0 DEF Q!Push, app, one
  <1>5. Left(e) = {s[k] : k \in start[e] + 1 .. n}
    <2>1. CASE Parked(e)  BY <2>1 DEF Left
    <2>2. CASE ~Parked(e)  BY <1>1, <2>2 DEF Left, Parked
    <2> QED  BY <2>1, <2>2
  <1>6. \A j, k \in start[e] + 1 .. n : j < k => s[j] < s[k]
    <2>1. CASE Parked(e)  BY <2>1 DEF Strict
    <2>2. CASE ~Parked(e)  BY <1>1, <2>2 DEF Parked
    <2> QED  BY <2>1, <2>2
  <1> HIDE DEF s, n
  <1>7. CASE items' = [items EXCEPT ![e] = app] /\ start' = start
    <2>1. items'[e] = app /\ start'[e] = start[e]  BY <1>0, <1>7
    <2>2. start[e] <= n  BY DEF n
    <2>3. start[e] + 1 .. n + 1 = (start[e] + 1 .. n) \cup {n + 1}  BY <1>1, <2>2
    <2>4. \A k \in start[e] + 1 .. n : app[k] = s[k]  BY <1>1
    <2>5. Left(e)' = {app[k] : k \in start[e] + 1 .. n + 1}  BY <1>1, <1>2, <2>1 DEF Left
    <2>6. Left(e)' = Left(e) \cup {to}
      <3>1. Left(e)' = {app[k] : k \in start[e] + 1 .. n} \cup {app[n + 1]}  BY <2>3, <2>5
      <3>2. {app[k] : k \in start[e] + 1 .. n} = {s[k] : k \in start[e] + 1 .. n}  BY <2>4
      <3> QED  BY <1>1, <1>5, <3>1, <3>2
    <2>7. Strict(e)'
      <3> SUFFICES ASSUME NEW j \in start[e] + 1 .. n + 1, NEW k \in start[e] + 1 .. n + 1, j < k
                   PROVE  app[j] < app[k]
        BY <1>1, <2>1 DEF Strict
      <3>1. j \in start[e] + 1 .. n /\ app[j] = s[j] /\ s[j] \in Left(e)  BY <1>1, <1>5, <2>4
      <3>2. CASE k = n + 1  BY <1>1, <3>1, <3>2
      <3>3. CASE k # n + 1
        <4>1. k \in start[e] + 1 .. n  BY <1>1, <3>3
        <4> QED  BY <1>6, <2>4, <3>1, <4>1
      <3> QED  BY <3>2, <3>3
    <2> QED  BY <1>1, <1>3, <2>1, <2>6, <2>7 DEF n
  <1>8. CASE start[e] = n /\ items' = [items EXCEPT ![e] = one] /\ start' = [start EXCEPT ![e] = 0]
    <2>1. items'[e] = one /\ start'[e] = 0  BY <1>0, <1>8
    <2>2. Left(e) = {}  BY <1>1, <1>5, <1>8
    <2>0. start'[e] + 1 .. Len(items'[e]) = {1}
      <3>1. Len(items'[e]) = 1 /\ start'[e] = 0  BY <1>1, <2>1
      <3> QED  BY <3>1
    <2>3. Left(e)' = {one[k] : k \in {1}}  BY <1>2, <2>0, <2>1 DEF Left
    <2>4. Left(e)' = {to}  BY <1>1, <2>3
    <2>5. Strict(e)'
      <3> SUFFICES ASSUME NEW j \in {1}, NEW k \in {1}, j < k PROVE FALSE
        BY <2>0 DEF Strict
      <3> QED  OBVIOUS
    <2>6. Len(items'[e]) = 1  BY <1>1, <2>1
    <2> QED  BY <1>1, <1>3, <2>2, <2>4, <2>5, <2>6 DEF n
  <1> QED  BY <1>4, <1>7, <1>8

\* The parked match that is reported is the least of all of them.
LEMMA LeftDeliver ==
    ASSUME TypeOK, NEW h \in BOOLEAN, Q!Deliver(h), UNCHANGED <<owner, scan>>,
           \A e \in Engines : Strict(e), NEW e \in Engines, e = Q!Turn(lim),
           NEW to, to = items[e][start[e] + 1]
    PROVE  /\ owner[e] = scan => /\ Left(e) = Left(e)' \cup {to} /\ to \notin Left(e)'
                                 /\ \A f \in Engines : \A w \in Left(f) : to <= w
           /\ owner[e] # scan => Left(e)' = {} /\ Left(e) = {}
           /\ \A f \in Engines : f # e => Left(f)' = Left(f)
           /\ \A f \in Engines : Strict(f)'
  <1>0. /\ items \in [Engines -> Seq(1 .. MaxOffset)] /\ start \in [Engines -> Nat]
        /\ owner' = owner /\ scan' = scan /\ lim \in Int
    BY QueueTypes
  <1>1. /\ items' = items /\ start' = [start EXCEPT ![e] = start[e] + 1]
        /\ Parked(e) /\ to <= lim
    BY DeliverIs
  <1>2. start'[e] = start[e] + 1 /\ \A f \in Engines : f # e => start'[f] = start[f]
    BY <1>0, <1>1
  <1>3. \A f \in Engines : f # e => Left(f)' = Left(f) /\ Strict(f)' = Strict(f)
    BY <1>0, <1>1, <1>2, LeftSame
  <1>4. \A f \in Engines : \A k \in 1 .. Len(items[f]) : items[f][k] \in Int
    <2> SUFFICES ASSUME NEW f \in Engines, NEW k \in 1 .. Len(items[f]) PROVE items[f][k] \in Int
      OBVIOUS
    <2>1. items[f] \in Seq(1 .. MaxOffset)  BY <1>0
    <2>2. items[f][k] \in 1 .. MaxOffset  BY <2>1, ElementIs
    <2> QED  BY <2>2
  <1>5. \A f \in Engines : Len(items[f]) \in Nat /\ start[f] \in Nat  BY <1>0
  <1>6. \A f \in Engines : Parked(f) => to <= items[f][start[f] + 1]
    <2> SUFFICES ASSUME NEW f \in Engines, Parked(f) PROVE to <= items[f][start[f] + 1]
      OBVIOUS
    <2>1. items[f][start[f] + 1] \in Int  BY <1>4, <1>5 DEF Parked
    <2>2. to \in Int  BY <1>1, <1>4, <1>5 DEF Parked
    <2>3. CASE ~Q!Due(f, lim)  BY <1>0, <1>1, <2>1, <2>2, <2>3 DEF Q!Due, Q!Unreported, Parked
    <2>4. CASE Q!Due(f, lim)
      <3>1. Q!Due(e, lim)  BY <1>1 DEF Q!Due, Q!Unreported, Parked
      <3> QED  BY <2>1, <2>2, <2>4, <3>1 DEF Q!Turn, Q!Due1, Engines
    <2> QED  BY <2>3, <2>4
  <1>7. \A f \in Engines : \A w \in Left(f) : to <= w
    <2> SUFFICES ASSUME NEW f \in Engines, NEW k \in start[f] + 1 .. Len(items[f]), owner[f] = scan
                 PROVE  to <= items[f][k]
      BY DEF Left
    <2>1. Parked(f) /\ start[f] + 1 \in start[f] + 1 .. Len(items[f])  BY <1>5 DEF Parked
    <2>2. to \in Int /\ items[f][k] \in Int /\ items[f][start[f] + 1] \in Int
      <3>1. /\ start[e] + 1 \in 1 .. Len(items[e]) /\ start[f] + 1 \in 1 .. Len(items[f])
            /\ k \in 1 .. Len(items[f])
        BY <1>1, <1>5, <2>1 DEF Parked
      <3> QED  BY <1>4, <3>1
    <2>3. k = start[f] + 1 \/ items[f][start[f] + 1] < items[f][k]  BY <1>5, <2>1 DEF Strict
    <2>4. to <= items[f][start[f] + 1]  BY <1>6, <2>1
    <2> QED  BY <2>2, <2>3, <2>4
  <1>8. Strict(e)'
    <2> SUFFICES ASSUME owner[e] = scan, NEW j \in start[e] + 2 .. Len(items[e]),
                        NEW k \in start[e] + 2 .. Len(items[e]), j < k
                 PROVE  items[e][j] < items[e][k]
      BY <1>0, <1>1, <1>2, <1>5 DEF Strict
    <2> QED  BY <1>1, <1>5 DEF Strict
  <1>9. CASE owner[e] = scan
    <2>1. Left(e) = {items[e][k] : k \in start[e] + 1 .. Len(items[e])}  BY <1>9 DEF Left
    <2>2. Left(e)' = {items[e][k] : k \in start[e] + 2 .. Len(items[e])}
      <3>1. Left(e)' = {items[e][k] : k \in start[e] + 1 + 1 .. Len(items[e])}
        BY <1>0, <1>1, <1>2, <1>9 DEF Left
      <3>2. start[e] + 1 + 1 = start[e] + 2  BY <1>5
      <3> QED  BY <3>1, <3>2
    <2>3. start[e] + 1 .. Len(items[e]) = {start[e] + 1} \cup (start[e] + 2 .. Len(items[e]))
      BY <1>1, <1>5 DEF Parked
    <2>4. Left(e) = Left(e)' \cup {to}  BY <2>1, <2>2, <2>3
    <2>5. \A k \in start[e] + 2 .. Len(items[e]) : to < items[e][k]
      BY <1>1, <1>5, <1>9 DEF Strict, Parked
    <2>6. \A k \in start[e] + 2 .. Len(items[e]) : to # items[e][k]
      <3> SUFFICES ASSUME NEW k \in start[e] + 2 .. Len(items[e]) PROVE to # items[e][k]
        OBVIOUS
      <3>1. to < items[e][k] /\ items[e][k] \in Int  BY <1>1, <1>4, <1>5, <2>5
      <3> QED  BY <3>1
    <2>7. to \notin Left(e)'  BY <2>2, <2>6
    <2> QED  BY <1>3, <1>7, <1>8, <1>9, <2>4, <2>7
  <1>10. CASE owner[e] # scan
    <2>1. Left(e) = {}  BY <1>10 DEF Left
    <2>2. Left(e)' = {}  BY <1>0, <1>10 DEF Left
    <2> QED  BY <1>3, <1>8, <1>10, <2>1, <2>2
  <1> QED  BY <1>9, <1>10

LEMMA HitsAre ==
    ASSUME TypeOK, Raised, NEW r \in HitEngines
    PROVE  /\ pos[r] \in Nat /\ Len(hits[r]) \in Nat /\ pos[r] <= Len(hits[r])
           /\ \A k \in 1 .. Len(hits[r]) : hits[r][k] \in 1 .. MaxOffset /\ hits[r][k] <= len
           /\ Got(r) \subseteq 1 .. MaxOffset /\ \A v \in Got(r) : v <= len
           /\ More(r) => Coming(r) \in 1 .. MaxOffset /\ Coming(r) <= len
  <1>1. hits[r] \in Seq(1 .. MaxOffset) /\ pos[r] \in Nat  BY DEF TypeOK, Q!Offsets
  <1>2. \A k \in 1 .. Len(hits[r]) : hits[r][k] \in 1 .. MaxOffset  BY <1>1, ElementIs
  <1>3. /\ pos[r] <= Len(hits[r]) /\ \A k \in 1 .. Len(hits[r]) : hits[r][k] <= len
        /\ Len(hits[r]) \in Nat
    BY <1>1 DEF Raised, HitsOK
  <1>4. \A k \in 1 .. pos[r] : k \in 1 .. Len(hits[r])  BY <1>1, <1>3
  <1>5. More(r) => pos[r] + 1 \in 1 .. Len(hits[r])  BY <1>1, <1>3 DEF More
  <1> QED  BY <1>1, <1>2, <1>3, <1>4, <1>5 DEF Got, Coming

LEMMA HitsStay ==
    ASSUME UNCHANGED <<hits, pos, len>>
    PROVE  /\ Raised' = Raised
           /\ \A r \in HitEngines : Got(r)' = Got(r) /\ More(r)' = More(r) /\ Coming(r)' = Coming(r)
  <1>1. hits' = hits /\ pos' = pos /\ len' = len  OBVIOUS
  <1>2. \A r \in HitEngines : /\ Got(r)' = Got(r) /\ More(r)' = More(r) /\ Coming(r)' = Coming(r)
                              /\ HitsOK(r)' = HitsOK(r)
    BY <1>1 DEF Got, More, Coming, HitsOK
  <1> QED  BY <1>2 DEF Raised

\* An engine raises its next hit: it is above all it has raised.
LEMMA HitsAdvance ==
    ASSUME TypeOK, Raised, NEW r \in HitEngines, More(r), pos' = [pos EXCEPT ![r] = @ + 1],
           UNCHANGED <<hits, len>>
    PROVE  /\ Raised' /\ pos'[r] = pos[r] + 1 /\ Got(r)' = Got(r) \cup {Coming(r)}
           /\ \A q \in HitEngines : q # r => /\ pos'[q] = pos[q] /\ Got(q)' = Got(q)
                                             /\ More(q)' = More(q) /\ Coming(q)' = Coming(q)
           /\ \A v \in Got(r) : v < Coming(r)
           /\ More(r)' => Coming(r) < Coming(r)'
  <1>0. /\ pos \in [HitEngines -> Nat] /\ hits' = hits /\ len' = len /\ pos[r] \in Nat
        /\ Len(hits[r]) \in Nat /\ pos[r] < Len(hits[r])
    BY HitsAre DEF TypeOK, More
  <1>1. pos'[r] = pos[r] + 1 /\ \A q \in HitEngines : q # r => pos'[q] = pos[q]  BY <1>0
  <1>2. 1 .. pos[r] + 1 = (1 .. pos[r]) \cup {pos[r] + 1}  BY <1>0
  <1>3. Got(r)' = Got(r) \cup {Coming(r)}
    <2>1. Got(r)' = {hits[r][k] : k \in 1 .. pos[r] + 1}  BY <1>0, <1>1 DEF Got
    <2> QED  BY <1>2, <2>1 DEF Got, Coming
  <1>4. ASSUME NEW q \in HitEngines, q # r
        PROVE  /\ Got(q)' = Got(q) /\ More(q)' = More(q) /\ Coming(q)' = Coming(q)
               /\ HitsOK(q)' = HitsOK(q)
    <2>1. pos'[q] = pos[q]  BY <1>1, <1>4
    <2> QED  BY <1>0, <2>1 DEF Got, More, Coming, HitsOK
  <1>5. \A v \in Got(r) : v < Coming(r)  BY DEF Raised
  <1>6. HitsOK(r)'
    <2>1. pos'[r] <= Len(hits[r])  BY <1>0, <1>1
    <2> QED  BY <1>0, <2>1 DEF Raised, HitsOK
  <1>7. More(r)' => Coming(r) < Coming(r)'
    <2> SUFFICES ASSUME pos[r] + 1 < Len(hits[r]) PROVE hits[r][pos[r] + 1] < hits[r][pos[r] + 1 + 1]
      BY <1>0, <1>1 DEF More, Coming
    <2>1. pos[r] + 1 \in 1 .. Len(hits[r]) - 1  BY <1>0
    <2> QED  BY <2>1 DEF Raised, HitsOK
  <1>8. More(r)' => \A v \in Got(r)' : v < Coming(r)'
    <2> SUFFICES ASSUME More(r)', NEW v \in Got(r)' PROVE v < Coming(r)'
      OBVIOUS
    <2>1. Coming(r) < Coming(r)' /\ Coming(r) \in Int /\ v \in Int
      BY <1>3, <1>7, HitsAre
    <2>2. Coming(r)' \in Int
      <3>1. pos[r] + 1 + 1 \in 1 .. Len(hits[r])  BY <1>0, <1>1 DEF More
      <3>2. hits[r][pos[r] + 1 + 1] \in Int  BY <3>1, HitsAre
      <3> QED  BY <1>0, <1>1, <3>2 DEF Coming
    <2>3. v = Coming(r) \/ v < Coming(r)  BY <1>3, <1>5
    <2> QED  BY <2>1, <2>2, <2>3
  <1>9. Raised'
    <2> SUFFICES ASSUME NEW q \in HitEngines
                 PROVE  HitsOK(q)' /\ (More(q)' => \A v \in Got(q)' : v < Coming(q)')
      BY DEF Raised
    <2>1. CASE q = r  BY <1>6, <1>8, <2>1
    <2>2. CASE q # r  BY <1>4, <2>2 DEF Raised
    <2> QED  BY <2>1, <2>2
  <1> QED  BY <1>1, <1>3, <1>4, <1>5, <1>7, <1>9

\* An engine that was told to stop gives up the rest.
LEMMA HitsGiveUp ==
    ASSUME TypeOK, Raised, NEW r \in HitEngines, pos' = [pos EXCEPT ![r] = Len(hits[r])],
           UNCHANGED <<hits, len>>
    PROVE  /\ Raised' /\ pos'[r] = Len(hits[r]) /\ Got(r) \subseteq Got(r)'
           /\ \A q \in HitEngines : q # r => Got(q)' = Got(q) /\ pos'[q] = pos[q]
  <1>0. /\ pos \in [HitEngines -> Nat] /\ hits' = hits /\ len' = len /\ pos[r] \in Nat
        /\ Len(hits[r]) \in Nat /\ pos[r] <= Len(hits[r])
    BY HitsAre DEF TypeOK
  <1>1. pos'[r] = Len(hits[r]) /\ \A q \in HitEngines : q # r => pos'[q] = pos[q]  BY <1>0
  <1>2. Got(r) \subseteq Got(r)'
    <2>1. \A k \in 1 .. pos[r] : k \in 1 .. Len(hits[r])  BY <1>0
    <2> QED  BY <1>0, <1>1, <2>1 DEF Got
  <1>3. ASSUME NEW q \in HitEngines, q # r
        PROVE  /\ Got(q)' = Got(q) /\ More(q)' = More(q) /\ Coming(q)' = Coming(q)
               /\ HitsOK(q)' = HitsOK(q)
    <2>1. pos'[q] = pos[q]  BY <1>1, <1>3
    <2> QED  BY <1>0, <2>1 DEF Got, More, Coming, HitsOK
  <1>4. HitsOK(r)' /\ ~More(r)'
    <2>1. pos'[r] <= Len(hits[r])  BY <1>0, <1>1
    <2>2. ~More(r)'  BY <1>0, <1>1 DEF More
    <2> QED  BY <1>0, <2>1, <2>2 DEF Raised, HitsOK
  <1>5. Raised'
    <2> SUFFICES ASSUME NEW q \in HitEngines
                 PROVE  HitsOK(q)' /\ (More(q)' => \A v \in Got(q)' : v < Coming(q)')
      BY DEF Raised
    <2>1. CASE q = r  BY <1>4, <2>1
    <2>2. CASE q # r  BY <1>3, <2>2 DEF Raised
    <2> QED  BY <2>1, <2>2
  <1> QED  BY <1>1, <1>2, <1>3, <1>5

----------------------------------------------------------------------------
(* Ascending offsets *)

Early == {"gate", "lily", "lily_done", "teddy", "engines_done"}
\* The places where the main engine has not run to its end.
Upcoming == pc \in Early \cup {"zero", "rose"} \/ (InReport /\ rep.rule \in {"zero", "rose"})
NoOverflow == \A e \in Engines : Len(hits[e]) <= Capacity

\* What the callback saw is below everything that is still to come.
Order ==
    /\ pc \in {"zero_eod", "zero"} => Seen = {}
    /\ NoOverflow =>
        /\ InOrder
        /\ pc \in Early => UpTo(0)
        /\ \A e \in Engines : \A w \in Left(e) : UpTo(w)
        /\ InReport => UpTo(rep.to)
        /\ pc = "report" => \A e \in Engines : \A w \in Left(e) : rep.to <= w
        /\ Upcoming /\ More("rose") => UpTo(Coming("rose")) /\ (InReport => rep.to <= Coming("rose"))
        /\ \A e \in Engines : pc = e => Len(items[e]) <= pos[e]
        /\ pc = "flush" => after \notin Engines

\* A step that neither parks nor reports.
LEMMA BoundsQuiet ==
    ASSUME Bounds, UNCHANGED <<items, start, owner, cbs, scan, len>>,
           Raised', \A e \in Engines : Got(e) \subseteq Got(e)',
           \A e \in Engines : (pc' = e \/ (pc' = "flush" /\ after' = e)) =>
              pc = e \/ (pc = "flush" /\ after = e),
           pc' = "flush" /\ after' = "report" => lim' = rep'.to,
           InReport' => rep'.to <= len /\ (rep'.rule \in {"zero", "zeroEod"} => rep'.to = 0)
    PROVE  Bounds'
  <1>1. /\ \A e \in Engines : Left(e)' = Left(e) /\ Strict(e)' = Strict(e)
        /\ UpTo(len)' = UpTo(len)
    BY LeftSame, SeenSame DEF UpTo
  <1>2. \A e \in Engines : Parked(e)' = Parked(e)  BY DEF Parked
  <1> QED  BY <1>1, <1>2 DEF Bounds

LEMMA OrderQuiet ==
    ASSUME Order, UNCHANGED <<items, start, owner, cbs, scan, hits>>,
           pc' \in {"zero_eod", "zero"} => Seen = {},
           NoOverflow =>
             /\ pc' \in Early => UpTo(0)
             /\ InReport' => UpTo(rep'.to)
             /\ pc' = "report" => \A e \in Engines : \A w \in Left(e) : rep'.to <= w
             /\ Upcoming' /\ More("rose")' =>
                  UpTo(Coming("rose")') /\ (InReport' => rep'.to <= Coming("rose")')
             /\ \A e \in Engines : pc' = e => Len(items[e]) <= pos'[e]
             /\ pc' = "flush" => after' \notin Engines
    PROVE  Order'
  <1>1. Seen' = Seen /\ InOrder' = InOrder /\ NoOverflow' = NoOverflow
    BY SeenSame DEF NoOverflow
  <1>2. \A e \in Engines : Left(e)' = Left(e)  BY LeftSame
  <1>3. items' = items  OBVIOUS
  <1> QED  BY <1>1, <1>2, <1>3 DEF Order, UpTo

OInv == Bounds /\ Order

LEMMA OrderGoto ==
    ASSUME OInv, pc \in Between, NEW l \in Between \ (Engines \cup {"zero", "zero_eod"}), Goto(l),
           l \in Early => pc \in Early \cup {"zero"}, l = "rose" => pc \in Early
    PROVE  OInv'
  <1>1. /\ pc' = l /\ UNCHANGED <<items, start, owner, cbs, scan, hits, len, pos>>
    BY DEF Goto, qvars, svars, hist
  <1>2. ~InReport' /\ pc' # "flush" /\ \A e \in Engines : pc' # e
    BY <1>1 DEF InReport, Between
  <1>3. /\ Raised' /\ \A e \in HitEngines : Got(e)' = Got(e)
        /\ More("rose")' = More("rose") /\ Coming("rose")' = Coming("rose")
    BY <1>1, HitsStay DEF OInv, Bounds, HitEngines
  <1>4. Bounds'
    <2>1. \A e \in Engines : Got(e) \subseteq Got(e)'  BY <1>3 DEF Engines, HitEngines
    <2> QED  BY <1>1, <1>2, <1>3, <2>1, BoundsQuiet DEF OInv
  <1>5. l \in Early => pc \in Early \/ Seen = {}  BY DEF OInv, Order
  <1>6. Upcoming' => Upcoming  BY <1>1, <1>2 DEF Upcoming
  <1>7. NoOverflow => /\ pc' \in Early => UpTo(0)
                      /\ Upcoming' /\ More("rose")' => UpTo(Coming("rose")')
    BY <1>1, <1>3, <1>5, <1>6 DEF OInv, Order, UpTo
  <1>8. Order'
    <2>1. pc' \notin {"zero_eod", "zero", "report"}  BY <1>1, <1>2 DEF InReport
    <2> QED  BY <1>1, <1>2, <1>7, <2>1, OrderQuiet DEF OInv
  <1> QED  BY <1>4, <1>8 DEF OInv

LEMMA LeftIs == ASSUME TypeOK, NEW e \in Engines PROVE Left(e) \subseteq 1 .. MaxOffset
  <1>1. items[e] \in Seq(1 .. MaxOffset) /\ start[e] \in Nat  BY QueueTypes
  <1>2. \A k \in start[e] + 1 .. Len(items[e]) : items[e][k] \in 1 .. MaxOffset
    <2> SUFFICES ASSUME NEW k \in start[e] + 1 .. Len(items[e])
                 PROVE  items[e][k] \in 1 .. MaxOffset
      OBVIOUS
    <2>1. k \in 1 .. Len(items[e])  BY <1>1
    <2> QED  BY <1>1, <2>1, ElementIs
  <1> QED  BY <1>2 DEF Left

\* A report begins: what was seen is below it, and so is what is parked when
\* it goes first.
LEMMA OrderRaise ==
    ASSUME TypeOK, OInv, pc \in Between, NEW r \in Main, NEW to \in 0 .. MaxOffset, Raise(r, to),
           UNCHANGED <<svars, cbs, owner>>,
           Raised', \A e \in Engines : Got(e) \subseteq Got(e)',
           to <= len, r \in {"zero", "zeroEod"} => to = 0, NoOverflow => UpTo(to),
           NoOverflow /\ r \in {"zero", "rose"} /\ More("rose")' =>
              to <= Coming("rose")' /\ UpTo(Coming("rose")')
    PROVE  OInv'
  <1>0. r \in AllRules  BY DEF Main, AllRules, HitEngines
  <1>1. /\ rep'.rule = r /\ rep'.to = to /\ UNCHANGED <<items, start, owner, cbs, scan, hits, len>>
        /\ \/ /\ pc' = "flush" /\ after' = "report" /\ lim' = to
           \/ /\ pc' = "report"
    BY <1>0, RaiseIs DEF svars
  <1>2. InReport' /\ \A e \in Engines : pc' # e /\ ~(pc' = "flush" /\ after' = e)
    BY <1>1 DEF InReport, Engines
  <1>3. Bounds'  BY <1>1, <1>2, BoundsQuiet DEF OInv
  <1>4. pc' = "report" => \A e \in Engines : \A w \in Left(e) : to <= w
    <2> SUFFICES ASSUME pc' = "report", NEW e \in Engines, NEW w \in Left(e) PROVE to <= w
      OBVIOUS
    <2>1. ~FlushesFirst(to)  BY DEF Raise, Flush
    <2>2. CASE to > 0
      <3>1. items[e] = <<>> /\ start[e] \in Nat  BY <2>1, <2>2, QueueTypes DEF FlushesFirst
      <3>2. Left(e) = {}  BY <3>1 DEF Left
      <3> QED  BY <3>2
    <2>3. CASE to = 0
      <3>1. w \in 1 .. MaxOffset  BY LeftIs
      <3> QED  BY <2>3, <3>1
    <2> QED  BY <2>2, <2>3
  <1>5. Upcoming' => r \in {"zero", "rose"}  BY <1>1 DEF Upcoming, Early
  <1>6. pc' \notin Early /\ pc' \notin {"zero", "zero_eod"}  BY <1>1 DEF Early
  <1>7. pc' = "flush" => after' \notin Engines  BY <1>2
  <1>8. Order'  BY <1>1, <1>2, <1>4, <1>5, <1>6, <1>7, OrderQuiet DEF OInv
  <1> QED  BY <1>3, <1>8 DEF OInv

LEMMA OrderReturn ==
    ASSUME OInv, NEW rv, Return(rv),
           UNCHANGED <<qvars, svars, pos, status, evec, lilyed, hist>>
    PROVE  OInv'
  <1>1. UNCHANGED <<items, start, owner, cbs, scan, hits, len, pos>> /\ pc' = "idle"
    BY DEF qvars, svars, hist, Return
  <1>2. Raised' /\ \A e \in HitEngines : Got(e)' = Got(e)  BY <1>1, HitsStay DEF OInv, Bounds
  <1>3. \A e \in Engines : Got(e) \subseteq Got(e)'  BY <1>2 DEF Engines, HitEngines
  <1>4. ~InReport' /\ ~Upcoming' /\ pc' \notin Early /\ \A e \in Engines : pc' # e
    BY <1>1 DEF InReport, Upcoming, Early, Engines
  <1>5. Bounds'  BY <1>1, <1>2, <1>3, <1>4, BoundsQuiet DEF OInv
  <1>6. Order'  BY <1>1, <1>4, OrderQuiet DEF OInv
  <1> QED  BY <1>5, <1>6 DEF OInv

\* What the engines of the new scan will find.
LEMMA ScanBeginHits ==
    ASSUME ScanBegin
    PROVE  /\ Raised' /\ \A r \in HitEngines : pos'[r] = 0 /\ Got(r)' = {}
           /\ \A r \in HitEngines : r \notin db'.has \/ Outside(db', len') => hits'[r] = <<>>
           /\ pc' = "zero_eod" => len' = 0
           /\ pc' = "idle" => \A r \in HitEngines : hits'[r] = <<>>
  <1>1. PICK d \in Databases, n \in 0 .. MaxOffset : \E h \in HitsOf(d, n) :
           /\ db' = d /\ len' = n /\ hits' = h
           /\ \/ /\ d.minWidth > n /\ Return("SUCCESS")
              \/ /\ pc' = IF n = 0 THEN "zero_eod" ELSE "zero"
    BY DEF ScanBegin
  <1>2. PICK h \in HitsOf(d, n) : hits' = h  BY <1>1
  <1>3. pos' = [e \in HitEngines |-> 0]  BY DEF ScanBegin
  <1>4. /\ h \in [HitEngines -> AscSeqs(n)]
        /\ \A r \in HitEngines : r \notin d.has \/ Outside(d, n) => h[r] = <<>>
    BY DEF HitsOf
  <1>5. ASSUME NEW r \in HitEngines PROVE HitsOK(r)' /\ Got(r)' = {} /\ pos'[r] = 0
    <2>1. h[r] \in AscSeqs(n) /\ pos'[r] = 0  BY <1>3, <1>4
    <2>2. PICK k \in 0 .. n : h[r] \in [1 .. k -> 1 .. n]  BY <2>1 DEF AscSeqs
    <2>3. Len(h[r]) = k /\ k \in Nat /\ h[r] \in Seq(1 .. n)  BY <2>2
    <2>4. \A i \in 1 .. k : h[r][i] \in 1 .. n  BY <2>2
    <2>5. \A i \in 1 .. k : h[r][i] <= n  BY <2>4
    <2>6. \A i \in 1 .. k - 1 : h[r][i] < h[r][i + 1]  BY <2>1, <2>3 DEF AscSeqs
    <2>7. HitsOK(r)'
      <3>1. hits'[r] = h[r] /\ len' = n  BY <1>1, <1>2
      <3>2. pos'[r] <= Len(hits'[r])  BY <2>1, <2>3, <3>1
      <3> QED  BY <2>3, <2>5, <2>6, <3>1, <3>2 DEF HitsOK
    <2>8. Got(r)' = {}
      <3>1. 1 .. pos'[r] = {}  BY <2>1
      <3> QED  BY <3>1 DEF Got
    <2> QED  BY <2>1, <2>7, <2>8
  <1>6. Raised'  BY <1>5 DEF Raised
  <1>7. pc' = "idle" => Outside(d, n)
    <2> SUFFICES ASSUME pc' = "idle" PROVE Outside(d, n)
      OBVIOUS
    <2>1. d.minWidth > n  BY <1>1
    <2>2. d.minWidth <= d.minWidthX /\ d.minWidth \in Nat /\ d.minWidthX \in Nat
      BY ScanAssumption DEF DbOK
    <2>3. d.minWidthX > n  BY <2>1, <2>2
    <2> QED  BY <2>3 DEF Outside
  <1>8. pc' = "zero_eod" => len' = 0  BY <1>1 DEF Return
  <1> QED  BY <1>1, <1>2, <1>4, <1>5, <1>6, <1>7, <1>8

LEMMA OrderScanBegin == ASSUME IInv, OInv, ScanBegin PROVE OInv'
  <1>1. /\ scan' = scan + 1 /\ UNCHANGED <<items, start, owner>> /\ cbs' = <<>>
        /\ pc' \in {"idle", "zero_eod", "zero"}
    BY ScanBeginIs DEF IInv
  <1>2. Own' = {} /\ Seen' = {} /\ InOrder'  BY <1>1 DEF Own, Seen, InOrder
  <1>3. \A e \in Engines : owner[e] \in Nat /\ scan \in Nat /\ owner[e] <= scan
    BY ScanAssumption DEF IInv, TypeOK, Control
  <1>4. \A e \in Engines : Left(e)' = {} /\ Strict(e)'  BY <1>1, <1>3 DEF Left, Strict
  <1>5. /\ ~InReport' /\ pc' \notin Early \cup {"flush", "report"}
        /\ \A e \in Engines : ~(pc' = e \/ (pc' = "flush" /\ after' = e))
    BY <1>1 DEF InReport, Engines, Early
  <1>6. Bounds'  BY <1>2, <1>4, <1>5, ScanBeginHits DEF Bounds, UpTo
  <1>7. Order'  BY <1>2, <1>4, <1>5 DEF Order, UpTo
  <1> QED  BY <1>6, <1>7 DEF OInv

LEMMA OrderStart ==
    ASSUME IInv, OInv, NEW e \in Engines, Q!InitItems(e), pc \in Early, pc' = e,
           UNCHANGED <<svars, pos, inUse, status, evec, lilyed, rep, after, ret, hist>>
    PROVE  OInv'
  <1>1. /\ items'[e] = <<>> /\ start'[e] = 0
        /\ \A f \in Engines : f # e => items'[f] = items[f] /\ start'[f] = start[f]
    BY InitItemsIs DEF IInv
  <1>2. UNCHANGED <<owner, cbs, scan, hits, len, pos>>  BY DEF svars, hist
  <1>3. Left(e)' = {} /\ Strict(e)'  BY <1>1 DEF Left, Strict
  <1>4. \A f \in Engines : f # e => Left(f)' = Left(f) /\ Strict(f)' = Strict(f)
    BY <1>1, <1>2, LeftSame
  <1>5. /\ Raised' = Raised
        /\ \A f \in HitEngines : Got(f)' = Got(f) /\ More(f)' = More(f) /\ Coming(f)' = Coming(f)
    BY <1>2, HitsStay
  <1>6. Seen' = Seen /\ InOrder' = InOrder /\ NoOverflow' = NoOverflow
    BY <1>2, SeenSame DEF NoOverflow
  <1>7. ~InReport' /\ pc' \notin {"flush", "report", "zero", "zero_eod"}
    BY DEF InReport, Engines
  <1>8. ASSUME NEW f \in Engines, pc' = f \/ (pc' = "flush" /\ after' = f) PROVE f = e
    BY <1>8 DEF Engines
  <1>9. Bounds'
    <2>1. \A f \in Engines : f \in HitEngines  BY DEF Engines, HitEngines
    <2>2. \A f \in Engines : Left(f)' \subseteq Got(f)' /\ Strict(f)'
      BY <1>3, <1>4, <1>5, <2>1 DEF OInv, Bounds
    <2>3. ~Parked(e)'  BY <1>1 DEF Parked
    <2> QED  BY <1>2, <1>5, <1>6, <1>7, <1>8, <2>2, <2>3 DEF OInv, Bounds, UpTo
  <1>10. Order'
    <2>1. "rose" \in HitEngines /\ pos[e] \in Nat
      BY DEF HitEngines, Engines, IInv, TypeOK
    <2>2. Upcoming' => Upcoming  BY DEF Upcoming
    <2>3. \A f \in Engines : pc' = f => Len(items'[f]) <= pos'[f]
      <3> SUFFICES ASSUME NEW f \in Engines, pc' = f PROVE Len(items'[f]) <= pos'[f]
        OBVIOUS
      <3>1. f = e  OBVIOUS
      <3>2. Len(<<>>) = 0 /\ 0 <= pos[e]  BY <2>1
      <3> QED  BY <1>1, <1>2, <3>1, <3>2
    <2>4. NoOverflow => \A f \in Engines : \A w \in Left(f)' : UpTo(w)
      <3> SUFFICES ASSUME NoOverflow, NEW f \in Engines, NEW w \in Left(f)' PROVE UpTo(w)
        OBVIOUS
      <3>1. f # e  BY <1>3
      <3>2. w \in Left(f)  BY <1>4, <3>1
      <3> QED  BY <3>2 DEF OInv, Order
    <2> QED  BY <1>5, <1>6, <1>7, <2>1, <2>2, <2>3, <2>4 DEF OInv, Order, UpTo
  <1> QED  BY <1>9, <1>10 DEF OInv

\* A match is parked: it is above what the engine parked or raised before.
LEMMA OrderPush ==
    ASSUME IInv, OInv, NEW e \in Engines, NEW to \in 1 .. MaxOffset, pc = e,
           More(e), to = Coming(e), Q!Push(e, to),
           owner' = [owner EXCEPT ![e] = scan], pos' = [pos EXCEPT ![e] = @ + 1],
           UNCHANGED <<pc, after, svars, cbs, rep>>
    PROVE  OInv'
  <1>0. TypeOK /\ Control /\ Raised /\ e \in HitEngines /\ "rose" \in HitEngines /\ e # "rose"
    BY DEF IInv, OInv, Bounds, Engines, HitEngines
  <1>1. UNCHANGED <<cbs, scan, hits, len>>  BY DEF svars
  <1>2. /\ Raised' /\ pos'[e] = pos[e] + 1 /\ Got(e)' = Got(e) \cup {to}
        /\ \A q \in HitEngines : q # e => /\ Got(q)' = Got(q) /\ More(q)' = More(q)
                                          /\ Coming(q)' = Coming(q)
        /\ \A v \in Got(e) : v < to
    BY <1>0, <1>1, HitsAdvance
  <1>3. \A f \in Engines : Left(f) \subseteq Got(f) /\ Strict(f)  BY DEF OInv, Bounds
  <1>4. Parked(e) => owner[e] = scan  BY DEF OInv, Bounds
  <1>5. /\ Left(e)' = Left(e) \cup {to} /\ Strict(e)'
        /\ \A f \in Engines : f # e => Left(f)' = Left(f) /\ Strict(f)' = Strict(f)
        /\ Len(items'[e]) <= Len(items[e]) + 1
    <2>1. \A v \in Left(e) : v < to  BY <1>2, <1>3
    <2>2. start[e] <= Len(items[e])  BY <1>0 DEF Control
    <2> QED  BY <1>0, <1>1, <1>3, <1>4, <2>1, <2>2, LeftPush
  <1>6. ~InReport' /\ pc' \notin {"flush", "report", "zero", "zero_eod", "rose"} /\ pc' \in Early
    BY DEF InReport, Engines, Early
  <1>7. ASSUME NEW f \in Engines, pc' = f \/ (pc' = "flush" /\ after' = f) PROVE f = e
    BY <1>7 DEF Engines
  <1>8. Seen' = Seen /\ InOrder' = InOrder /\ NoOverflow' = NoOverflow
    BY <1>1, SeenSame DEF NoOverflow
  <1>9. Bounds'
    <2>1. \A f \in Engines : Left(f)' \subseteq Got(f)' /\ Strict(f)'
      <3> SUFFICES ASSUME NEW f \in Engines PROVE Left(f)' \subseteq Got(f)' /\ Strict(f)'
        OBVIOUS
      <3>1. CASE f = e  BY <1>2, <1>3, <1>5, <3>1
      <3>2. CASE f # e
        <4>1. f \in HitEngines  BY DEF Engines, HitEngines
        <4> QED  BY <1>2, <1>3, <1>5, <3>2, <4>1
      <3> QED  BY <3>1, <3>2
    <2>2. owner'[e] = scan'  BY <1>0, <1>1 DEF TypeOK
    <2> QED  BY <1>1, <1>2, <1>6, <1>7, <1>8, <2>1, <2>2 DEF OInv, Bounds, UpTo
  <1>10. Order'
    <2>1. Upcoming' => Upcoming  BY <1>6 DEF Upcoming
    <2>2. NoOverflow => UpTo(0) /\ Len(items[e]) <= pos[e]  BY <1>6 DEF OInv, Order
    <2>3. NoOverflow => \A f \in Engines : \A w \in Left(f)' : UpTo(w)
      <3> SUFFICES ASSUME NoOverflow, NEW f \in Engines, NEW w \in Left(f)' PROVE UpTo(w)
        OBVIOUS
      <3>1. CASE w \in Left(f)  BY <3>1 DEF OInv, Order
      <3>2. CASE w \notin Left(f)
        <4>1. w = to  BY <1>5, <3>2
        <4>2. Seen \subseteq Int /\ to > 0  BY <1>0, CbsAre
        <4> QED  BY <2>2, <4>1, <4>2 DEF UpTo
      <3> QED  BY <3>1, <3>2
    <2>4. NoOverflow => \A f \in Engines : pc' = f => Len(items'[f]) <= pos'[f]
      <3> SUFFICES ASSUME NoOverflow PROVE Len(items'[e]) <= pos'[e]
        BY <1>7
      <3>1. Len(items[e]) \in Nat /\ pos[e] \in Nat /\ Len(items'[e]) \in Nat
        <4>1. Q!TypeOK'  BY <1>0, PushIs DEF Control
        <4> QED  BY <1>0, <4>1, QueueTypes, HitsAre DEF Q!TypeOK, Engines, Q!Engines
      <3> QED  BY <1>2, <1>5, <2>2, <3>1
    <2> QED  BY <1>0, <1>2, <1>6, <1>8, <2>1, <2>2, <2>3, <2>4 DEF OInv, Order, UpTo
  <1> QED  BY <1>9, <1>10 DEF OInv

LEMMA OrderEngineHit == ASSUME IInv, OInv, NEW e \in Engines, EngineHit(e) PROVE OInv'
  <1>0. TypeOK /\ Raised /\ e \in HitEngines /\ "rose" \in HitEngines /\ e # "rose"
    BY DEF IInv, OInv, Bounds, Engines, HitEngines
  <1>1. /\ pc = e /\ More(e) /\ UNCHANGED <<cbs, scan, hits, len, rep, svars>>
        /\ Coming(e) \in 1 .. MaxOffset
    BY <1>0, HitsAre DEF EngineHit, svars, More
  <1>3. CASE pos' = [pos EXCEPT ![e] = @ + 1] /\ UNCHANGED <<qvars, pc, evec, after, owner>>
    <2>1. UNCHANGED <<items, start, owner, cbs, scan, hits, len>> /\ pc' = pc /\ rep' = rep
      BY <1>1, <1>3 DEF qvars
    <2>2. /\ Raised' /\ pos'[e] = pos[e] + 1 /\ Got(e)' = Got(e) \cup {Coming(e)}
          /\ \A q \in HitEngines : q # e => /\ Got(q)' = Got(q) /\ More(q)' = More(q)
                                            /\ Coming(q)' = Coming(q)
      BY <1>0, <1>1, <1>3, <2>1, HitsAdvance
    <2>3. \A f \in Engines : Got(f) \subseteq Got(f)'
      <3> SUFFICES ASSUME NEW f \in Engines PROVE Got(f) \subseteq Got(f)'
        OBVIOUS
      <3>1. f \in HitEngines  BY DEF Engines, HitEngines
      <3> QED  BY <2>2, <3>1
    <2>4. ~InReport' /\ pc' # "flush" /\ pc' \notin {"report", "zero", "zero_eod"} /\ pc' \in Early
      BY <1>1, <2>1 DEF InReport, Engines, Early
    <2>5. Bounds'  BY <1>1, <2>1, <2>2, <2>3, <2>4, BoundsQuiet DEF OInv
    <2>6. Upcoming' => Upcoming  BY <2>1, <2>4 DEF Upcoming
    <2>7. NoOverflow => \A f \in Engines : pc' = f => Len(items[f]) <= pos'[f]
      <3> SUFFICES ASSUME NoOverflow PROVE Len(items[e]) <= pos'[e]
        BY <1>1, <2>1
      <3>1. Len(items[e]) <= pos[e]  BY <1>1 DEF OInv, Order
      <3>2. Len(items[e]) \in Nat /\ pos[e] \in Nat  BY <1>0, QueueTypes, HitsAre
      <3> QED  BY <2>2, <3>1, <3>2
    <2>8. NoOverflow => UpTo(0) /\ (Upcoming /\ More("rose") => UpTo(Coming("rose")))
      BY <2>1, <2>4 DEF OInv, Order
    <2>9. Order'  BY <1>0, <2>1, <2>2, <2>4, <2>6, <2>7, <2>8, OrderQuiet DEF OInv
    <2> QED  BY <2>5, <2>9 DEF OInv
  <1>4. CASE /\ Q!Push(e, hits[e][pos[e] + 1])
             /\ pos' = [pos EXCEPT ![e] = @ + 1] /\ owner' = [owner EXCEPT ![e] = scan]
             /\ UNCHANGED <<pc, after>>
    <2>1. PICK to \in 1 .. MaxOffset : to = Coming(e)  BY <1>1
    <2>2. Q!Push(e, to)  BY <1>4, <2>1 DEF Coming
    <2> QED  BY <1>1, <1>4, <2>1, <2>2, OrderPush
  <1>5. CASE /\ Len(items[e]) >= Capacity
             /\ Flush(Q!All, e) /\ UNCHANGED <<pos, evec, owner>>
    <2>1. /\ UNCHANGED <<items, start, owner, cbs, scan, hits, len, pos>>
          /\ pc' = "flush" /\ after' = e
      BY <1>1, <1>5 DEF Flush, Q!BeginFlush
    <2>2. ~NoOverflow
      <3> SUFFICES ASSUME NoOverflow PROVE FALSE
        OBVIOUS
      <3>1. Len(items[e]) <= pos[e] /\ Len(hits[e]) <= Capacity /\ pos[e] < Len(hits[e])
        BY <1>1 DEF OInv, Order, NoOverflow, More
      <3>2. Len(items[e]) \in Nat /\ pos[e] \in Nat /\ Len(hits[e]) \in Nat /\ Capacity \in Nat
        BY <1>0, QueueTypes, HitsAre, ScanAssumption
      <3> QED  BY <1>5, <3>1, <3>2
    <2>3. /\ Raised' /\ \A f \in HitEngines : Got(f)' = Got(f)
      BY <1>0, <2>1, HitsStay
    <2>4. \A f \in Engines : Got(f) \subseteq Got(f)'  BY <2>3 DEF Engines, HitEngines
    <2>5. ~InReport' /\ after' # "report" /\ \A f \in Engines : pc' # f
      BY <2>1 DEF InReport, Engines
    <2>6. Bounds'  BY <1>1, <2>1, <2>3, <2>4, <2>5, BoundsQuiet DEF OInv
    <2>7. Order'  BY <2>1, <2>2, OrderQuiet DEF OInv
    <2> QED  BY <2>6, <2>7 DEF OInv
  <1> QED  BY <1>1, <1>3, <1>4, <1>5 DEF EngineHit

LEMMA OrderEnginesDone == ASSUME IInv, OInv, EnginesDone PROVE OInv'
  <1>1. pc = "engines_done" /\ pc \in Between /\ pc \in Early  BY DEF EnginesDone, Between, Early
  <1>2. CASE lilyed
    <2>1. /\ UNCHANGED <<items, start, owner, cbs, scan, hits, len, pos>>
          /\ pc' = "done_scan"
      BY <1>2 DEF EnginesDone, Goto, qvars, svars, hist
    <2>2. Raised' /\ \A e \in HitEngines : Got(e)' = Got(e)  BY <2>1, HitsStay DEF OInv, Bounds
    <2>3. \A e \in Engines : Got(e) \subseteq Got(e)'  BY <2>2 DEF Engines, HitEngines
    <2>4. ~InReport' /\ ~Upcoming' /\ pc' \notin Early /\ \A e \in Engines : pc' # e
      BY <2>1 DEF InReport, Upcoming, Early, Engines
    <2>5. Bounds'  BY <2>1, <2>2, <2>3, <2>4, BoundsQuiet DEF OInv
    <2>6. Order'  BY <2>1, <2>4, OrderQuiet DEF OInv
    <2> QED  BY <2>5, <2>6 DEF OInv
  <1>3. CASE ~lilyed
    <2>1. PICK l \in Between \ (Engines \cup {"zero", "zero_eod"}) : l = "rose"
      BY DEF Between, Engines
    <2>2. Goto(l)  BY <1>3, <2>1 DEF EnginesDone
    <2> QED  BY <1>1, <2>1, <2>2, OrderGoto DEF Early
  <1> QED  BY <1>2, <1>3

LEMMA OrderRoseHit == ASSUME IInv, OInv, RoseHit PROVE OInv'
  <1>0. TypeOK /\ Raised /\ "rose" \in HitEngines /\ len \in Int /\ Seen \subseteq Int
    <2>1. TypeOK /\ Raised  BY DEF IInv, OInv, Bounds
    <2> QED  BY <2>1, CbsAre DEF TypeOK, HitEngines
  <1>1. /\ pc = "rose" /\ pc \in Between /\ More("rose")
        /\ pos' = [pos EXCEPT !["rose"] = @ + 1]
        /\ UNCHANGED <<svars, inUse, status, evec, lilyed, ret, hist>>
        /\ UNCHANGED <<cbs, scan, hits, len, owner>>
    BY DEF RoseHit, Between, More, svars, hist
  <1>2. /\ Raised' /\ Got("rose")' = Got("rose") \cup {Coming("rose")}
        /\ \A q \in HitEngines : q # "rose" => Got(q)' = Got(q)
        /\ More("rose")' => Coming("rose") < Coming("rose")'
        /\ Coming("rose") \in 1 .. MaxOffset /\ Coming("rose") <= len
    BY <1>0, <1>1, HitsAdvance, HitsAre
  <1>3. \A e \in Engines : Got(e) \subseteq Got(e)'  BY <1>2 DEF Engines, HitEngines
  <1>4. NoOverflow => UpTo(Coming("rose"))  BY <1>1 DEF OInv, Order, Upcoming
  <1>5. More("rose")' => Coming("rose")' \in Int
    <2> SUFFICES ASSUME More("rose")' PROVE Coming("rose")' \in Int
      OBVIOUS
    <2>1. hits'["rose"] \in Seq(1 .. MaxOffset) /\ pos'["rose"] \in Nat
      BY <1>0, <1>1 DEF TypeOK, Q!Offsets
    <2>2. pos'["rose"] + 1 \in 1 .. Len(hits'["rose"])  BY <2>1 DEF More
    <2>3. hits'["rose"][pos'["rose"] + 1] \in 1 .. MaxOffset  BY <2>1, <2>2, ElementIs
    <2> QED  BY <2>3 DEF Coming
  <1>6. NoOverflow /\ More("rose")' => Coming("rose") <= Coming("rose")' /\ UpTo(Coming("rose")')
    <2> SUFFICES ASSUME NoOverflow, More("rose")'
                 PROVE  Coming("rose") <= Coming("rose")' /\ \A v \in Seen : v <= Coming("rose")'
      BY DEF UpTo
    <2>1. /\ Coming("rose") < Coming("rose")' /\ Coming("rose") \in Int /\ Coming("rose")' \in Int
          /\ \A v \in Seen : v \in Int /\ v <= Coming("rose")
      BY <1>0, <1>2, <1>4, <1>5 DEF UpTo
    <2> QED  BY <2>1
  <1>7. CASE UNCHANGED <<qvars, pc, rep, after>>
    <2>1. UNCHANGED <<items, start, owner, cbs, scan, hits, len, pc, rep, after>>
      BY <1>1, <1>7 DEF qvars
    <2>2. ~InReport' /\ pc' \notin Early \cup {"flush", "report", "zero", "zero_eod"}
          /\ \A e \in Engines : pc' # e
      BY <1>1, <2>1 DEF InReport, Early, Engines
    <2>3. Bounds'  BY <1>2, <1>3, <2>1, <2>2, BoundsQuiet DEF OInv
    <2>4. Order'  BY <1>6, <2>1, <2>2, OrderQuiet DEF OInv
    <2> QED  BY <2>3, <2>4 DEF OInv
  <1>8. CASE Raise("rose", hits["rose"][pos["rose"] + 1])
    <2>1. PICK to \in 0 .. MaxOffset : to = Coming("rose")  BY <1>2, ScanAssumption
    <2>2. Raise("rose", to) /\ "rose" \in Main  BY <1>8, <2>1 DEF Main, Coming
    <2> QED  BY <1>0, <1>1, <1>2, <1>3, <1>4, <1>6, <2>1, <2>2, OrderRaise
  <1> QED  BY <1>7, <1>8 DEF RoseHit

\* The main report: nothing seen is above it, nothing parked below.
LEMMA OrderCallback == ASSUME IInv, OInv, NEW h \in BOOLEAN, Callback(h) PROVE OInv'
  <1>1. /\ pc = "report" /\ rep.rule \in Main /\ InReport
        /\ cbs' = Append(cbs, [rule |-> rep.rule, to |-> rep.to, scan |-> scan])
        /\ [rule |-> rep.rule, to |-> rep.to, scan |-> scan] \in Record
        /\ pc' = OnHalt(rep.rule) \/ pc' = OnGoOn(rep.rule)
        /\ UNCHANGED <<items, start, owner, scan, hits, len, pos, after, rep>>
    BY CallbackIs DEF InReport
  <1>2. PICK x \in Record : /\ x = [rule |-> rep.rule, to |-> rep.to, scan |-> scan]
                            /\ cbs' = Append(cbs, x) /\ x.to = rep.to /\ x.scan = scan
    BY <1>1
  <1>3. /\ Seen' = Seen \cup {rep.to}
        /\ InOrder /\ UpTo(rep.to) => InOrder'
    <2>1. TypeOK /\ scan' = scan  BY <1>1 DEF IInv
    <2> QED  BY <1>2, <2>1, SeenGrows DEF UpTo
  <1>4. /\ pc' \in {"done_scan", "comb_halt", "set_retval", "rose", "gate", "comb"}
        /\ pc' = "rose" => rep.rule = "rose"
        /\ pc' = "gate" => rep.rule = "zero"
    BY <1>1 DEF OnHalt, OnGoOn, Main
  <1>5. ~InReport' /\ \A e \in Engines : pc' # e /\ ~(pc' = "flush" /\ after' = e)
    BY <1>4 DEF InReport, Engines
  <1>6. /\ Raised' = Raised
        /\ \A e \in HitEngines : Got(e)' = Got(e) /\ More(e)' = More(e) /\ Coming(e)' = Coming(e)
    BY <1>1, HitsStay
  <1>7. \A e \in Engines : Left(e)' = Left(e) /\ Strict(e)' = Strict(e) /\ e \in HitEngines
    BY <1>1, LeftSame DEF Engines, HitEngines
  <1>8. Bounds'
    <2>1. UpTo(len)'  BY <1>1, <1>3 DEF OInv, Bounds, UpTo
    <2> QED  BY <1>1, <1>4, <1>5, <1>6, <1>7, <2>1 DEF OInv, Bounds
  <1>9. NoOverflow' = NoOverflow  BY <1>1 DEF NoOverflow
  <1>10. Upcoming' => Upcoming /\ rep.rule \in {"zero", "rose"}
    BY <1>1, <1>4, <1>5 DEF Upcoming, Early
  <1>11. ASSUME NoOverflow PROVE pc' \in Early => UpTo(0)'
    <2>1. pc' \in Early => rep.rule = "zero"  BY <1>4 DEF Early
    <2>2. rep.rule = "zero" => rep.to = 0  BY <1>1 DEF OInv, Bounds
    <2>3. UpTo(rep.to)  BY <1>1, <1>11 DEF OInv, Order
    <2> QED  BY <1>3, <2>1, <2>2, <2>3 DEF UpTo
  <1>12. ASSUME NoOverflow, NEW e \in Engines, NEW w \in Left(e)' PROVE UpTo(w)'
    <2>1. w \in Left(e)  BY <1>7
    <2>2. UpTo(w) /\ rep.to <= w  BY <1>1, <1>12, <2>1 DEF OInv, Order
    <2> QED  BY <1>3, <2>2 DEF UpTo
  <1>13. ASSUME NoOverflow, Upcoming', More("rose")' PROVE UpTo(Coming("rose"))'
    <2>1. "rose" \in HitEngines  BY DEF HitEngines
    <2>2. UpTo(Coming("rose")) /\ rep.to <= Coming("rose")
      BY <1>1, <1>6, <1>10, <1>13, <2>1 DEF OInv, Order
    <2> QED  BY <1>3, <1>6, <2>1, <2>2 DEF UpTo
  <1>14. Order'
    <2>1. NoOverflow => InOrder'  BY <1>1, <1>3 DEF OInv, Order
    <2>2. pc' \notin {"zero", "zero_eod", "report", "flush"}  BY <1>4
    <2> QED  BY <1>5, <1>9, <1>11, <1>12, <1>13, <2>1, <2>2 DEF Order, UpTo
  <1> QED  BY <1>8, <1>14 DEF OInv

LEMMA LilyCallbackTurn ==
    ASSUME TypeOK, NEW h \in BOOLEAN, LilyCallback(h)
    PROVE  \E e \in Engines, to \in 1 .. MaxOffset, x \in Record :
              /\ pc = "flush" /\ lim' = lim /\ items' = items /\ e = Q!Turn(lim)
              /\ start' = [start EXCEPT ![e] = start[e] + 1] /\ Parked(e)
              /\ start \in [Engines -> Nat] /\ to = items[e][start[e] + 1] /\ to <= lim
              /\ cbs' = Append(cbs, x) /\ x.rule = e /\ x.to = to /\ x.scan = owner[e]
              /\ stopped' = (stopped \/ h) /\ Q!Deliver(h)
              /\ UNCHANGED <<hits, scan, len, db, pc, pos, evec, rep, after, owner>>
  <1>1. Q!Deliver(h) /\ Q!Turn(lim) \in Engines  BY DEF LilyCallback, Q!Turn, Engines
  <1>2. /\ Q!Due1(Q!Turn(lim)) \in 1 .. MaxOffset /\ Q!Due1(Q!Turn(lim)) <= lim
        /\ Q!Due1(Q!Turn(lim)) = items[Q!Turn(lim)][start[Q!Turn(lim)] + 1]
        /\ Parked(Q!Turn(lim)) /\ lim' = lim /\ items' = items
        /\ start' = [start EXCEPT ![Q!Turn(lim)] = start[Q!Turn(lim)] + 1]
    BY <1>1, DeliverIs
  <1>3. /\ pc = "flush" /\ stopped' = (stopped \/ h)
        /\ cbs' = Append(cbs, [rule |-> Q!Turn(lim), to |-> Q!Due1(Q!Turn(lim)),
                               scan |-> owner[Q!Turn(lim)]])
        /\ UNCHANGED <<hits, scan, len, db, pc, pos, evec, rep, after, owner>>
    BY DEF LilyCallback, svars
  <1>4. PICK e \in Engines : e = Q!Turn(lim)  BY <1>1
  <1>5. PICK to \in 1 .. MaxOffset : to = Q!Due1(e)  BY <1>2, <1>4
  <1> DEFINE x == [rule |-> e, to |-> to, scan |-> owner[e]]
  <1>6. x \in Record
    <2>1. e \in AllRules /\ owner[e] \in 0 .. MaxScans /\ to \in 0 .. MaxOffset
      BY ScanAssumption DEF Engines, AllRules, HitEngines, TypeOK
    <2> QED  BY <2>1 DEF Record
  <1>7. start \in [Engines -> Nat]  BY QueueTypes
  <1> QED  BY <1>1, <1>2, <1>3, <1>4, <1>5, <1>6, <1>7

\* A parked match is reported: the least one, and below the flush's bound.
LEMMA OrderLilyCallback == ASSUME IInv, OInv, NEW h \in BOOLEAN, LilyCallback(h) PROVE OInv'
  <1>0. TypeOK /\ lim \in Int  BY QueueTypes DEF IInv
  <1>1. PICK e \in Engines, to \in 1 .. MaxOffset, x \in Record :
           /\ pc = "flush" /\ lim' = lim /\ items' = items /\ e = Q!Turn(lim)
           /\ start' = [start EXCEPT ![e] = start[e] + 1] /\ Parked(e)
           /\ start \in [Engines -> Nat] /\ to = items[e][start[e] + 1] /\ to <= lim
           /\ cbs' = Append(cbs, x) /\ x.rule = e /\ x.to = to /\ x.scan = owner[e]
           /\ UNCHANGED <<hits, scan, len, pc, pos, rep, after, owner>>
    BY <1>0, LilyCallbackTurn
  <1>3. /\ owner[e] = scan => /\ Left(e) = Left(e)' \cup {to} /\ to \notin Left(e)'
                              /\ \A f \in Engines : \A w \in Left(f) : to <= w
        /\ owner[e] # scan => Left(e)' = {} /\ Left(e) = {}
        /\ \A f \in Engines : f # e => Left(f)' = Left(f)
        /\ \A f \in Engines : Strict(f)'
    <2>1. \A f \in Engines : Strict(f)  BY DEF OInv, Bounds
    <2>2. Q!Deliver(h) /\ UNCHANGED <<owner, scan>>  BY <1>1 DEF LilyCallback
    <2> QED  BY <1>0, <1>1, <2>1, <2>2, LeftDeliver
  <1>4. \A f \in Engines : Left(f)' \subseteq Left(f)
    <2> SUFFICES ASSUME NEW f \in Engines PROVE Left(f)' \subseteq Left(f)
      OBVIOUS
    <2>1. CASE f = e  BY <1>3, <2>1
    <2>2. CASE f # e  BY <1>3, <2>2
    <2> QED  BY <2>1, <2>2
  <1>5. /\ owner[e] = scan => /\ Seen' = Seen \cup {to} /\ to \in Left(e)
                              /\ InOrder /\ UpTo(to) => InOrder'
        /\ owner[e] # scan => Seen' = Seen /\ (InOrder => InOrder')
    <2>1. scan' = scan  BY <1>1
    <2> QED  BY <1>0, <1>1, <1>3, <2>1, SeenGrows DEF UpTo
  <1>6. /\ Raised' = Raised
        /\ \A f \in HitEngines : Got(f)' = Got(f) /\ More(f)' = More(f) /\ Coming(f)' = Coming(f)
    BY <1>1, HitsStay
  <1>7. (InReport' <=> InReport) /\ (Upcoming' <=> Upcoming) /\ NoOverflow' = NoOverflow
    BY <1>1 DEF InReport, Upcoming, NoOverflow
  <1>8. \A f \in Engines : Parked(f)' => Parked(f)
    <2>1. Len(items[e]) \in Nat /\ start[e] \in Nat  BY <1>0, QueueTypes
    <2>2. start'[e] = start[e] + 1 /\ \A f \in Engines : f # e => start'[f] = start[f]
      BY <1>1
    <2> QED  BY <1>1, <2>1, <2>2 DEF Parked
  <1>9. Left(e) \subseteq Got(e) /\ e \in HitEngines /\ Raised
    BY DEF OInv, Bounds, Engines, HitEngines
  <1>10. Bounds'
    <2>1. UpTo(len)'
      <3>1. to \in Left(e) => to <= len  BY <1>0, <1>9, HitsAre
      <3> QED  BY <1>1, <1>5, <3>1 DEF OInv, Bounds, UpTo
    <2>2. \A f \in Engines : Left(f)' \subseteq Got(f)'
      BY <1>4, <1>6 DEF OInv, Bounds, Engines, HitEngines
    <2> QED  BY <1>1, <1>3, <1>6, <1>7, <1>8, <2>1, <2>2 DEF OInv, Bounds
  <1>11. CASE owner[e] # scan
    <2>1. NoOverflow => \A f \in Engines : \A w \in Left(f)' : UpTo(w)'
      BY <1>4, <1>5, <1>11 DEF OInv, Order, UpTo
    <2>2. "rose" \in HitEngines  BY DEF HitEngines
    <2>3. pc' \notin Early /\ \A f \in Engines : pc' # f  BY <1>1 DEF Early, Engines
    <2>4. Order'  BY <1>1, <1>5, <1>6, <1>7, <1>11, <2>1, <2>2, <2>3 DEF OInv, Order, UpTo
    <2> QED  BY <1>10, <2>4 DEF OInv
  <1>12. CASE owner[e] = scan
    <2>1. to \in Left(e) /\ Seen' = Seen \cup {to}  BY <1>5, <1>12
    <2>2. NoOverflow => UpTo(to) /\ InOrder'  BY <1>5, <1>12, <2>1 DEF OInv, Order
    <2>3. NoOverflow => \A f \in Engines : \A w \in Left(f)' : UpTo(w)'
      <3> SUFFICES ASSUME NoOverflow, NEW f \in Engines, NEW w \in Left(f)' PROVE UpTo(w)'
        OBVIOUS
      <3>1. w \in Left(f)  BY <1>4
      <3>2. to <= w /\ UpTo(w)  BY <1>3, <1>12, <3>1 DEF OInv, Order
      <3> QED  BY <2>1, <3>2 DEF UpTo
    <2>4. InReport => lim = rep.to  BY <1>1 DEF InReport, OInv, Bounds
    <2>5. NoOverflow /\ InReport' => UpTo(rep.to)'
      BY <1>1, <1>7, <2>1, <2>4 DEF OInv, Order, UpTo
    <2>6. NoOverflow /\ Upcoming' /\ More("rose")' =>
             UpTo(Coming("rose"))' /\ (InReport' => rep.to <= Coming("rose"))
      <3> SUFFICES ASSUME NoOverflow, Upcoming', More("rose")'
                   PROVE  UpTo(Coming("rose"))' /\ (InReport' => rep.to <= Coming("rose"))
        OBVIOUS
      <3>1. "rose" \in HitEngines  BY DEF HitEngines
      <3>2. InReport  BY <1>1, <1>7 DEF Upcoming, Early
      <3>3. UpTo(Coming("rose")) /\ rep.to <= Coming("rose")
        BY <1>6, <1>7, <3>1, <3>2 DEF OInv, Order
      <3>4. Coming("rose") \in Int  BY <1>0, <1>6, <1>9, <3>1, HitsAre
      <3>5. to <= Coming("rose")  BY <1>0, <1>1, <2>4, <3>2, <3>3, <3>4
      <3> QED  BY <1>6, <2>1, <3>1, <3>3, <3>5 DEF UpTo
    <2>7. pc' \notin Early \cup {"zero", "zero_eod", "report"} /\ \A f \in Engines : pc' # f
      BY <1>1 DEF Early, Engines
    <2>8. rep' = rep /\ after' = after /\ (pc' = "flush" => pc = "flush") /\ "rose" \in HitEngines
      BY <1>1 DEF HitEngines
    <2>9. Order'
      BY <1>6, <1>7, <2>2, <2>3, <2>5, <2>6, <2>7, <2>8 DEF OInv, Order
    <2> QED  BY <1>10, <2>9 DEF OInv
  <1> QED  BY <1>11, <1>12

LEMMA OrderNoTable == ASSUME OInv, NoTable PROVE OInv'
  <1>1. UNCHANGED <<items, start, owner, cbs, scan, hits, len, pos>> /\ pc' = "crashed"
    BY DEF NoTable, Goto, qvars, svars, hist
  <1>2. Raised' /\ \A e \in HitEngines : Got(e)' = Got(e)  BY <1>1, HitsStay DEF OInv, Bounds
  <1>3. \A e \in Engines : Got(e) \subseteq Got(e)'  BY <1>2 DEF Engines, HitEngines
  <1>4. ~InReport' /\ ~Upcoming' /\ pc' \notin Early /\ \A e \in Engines : pc' # e
    BY <1>1 DEF InReport, Upcoming, Early, Engines
  <1>5. Bounds'  BY <1>1, <1>2, <1>3, <1>4, BoundsQuiet DEF OInv
  <1>6. Order'  BY <1>1, <1>4, OrderQuiet DEF OInv
  <1> QED  BY <1>5, <1>6 DEF OInv

LEMMA OrderDoneScan == ASSUME OInv, DoneScan PROVE OInv'
  <1>1. UNCHANGED <<items, start, owner, cbs, scan, hits, len, pos>>
        /\ pc' = "flush" /\ after' = "flushed"
    BY DEF DoneScan, Flush, Q!BeginFlush, svars, hist
  <1>2. Raised' /\ \A e \in HitEngines : Got(e)' = Got(e)  BY <1>1, HitsStay DEF OInv, Bounds
  <1>3. \A e \in Engines : Got(e) \subseteq Got(e)'  BY <1>2 DEF Engines, HitEngines
  <1>4. ~InReport' /\ ~Upcoming' /\ pc' \notin Early
        /\ \A e \in Engines : pc' # e /\ after' # e
    BY <1>1 DEF InReport, Upcoming, Early, Engines
  <1>5. Bounds'  BY <1>1, <1>2, <1>3, <1>4, BoundsQuiet DEF OInv
  <1>6. Order'  BY <1>1, <1>4, OrderQuiet DEF OInv
  <1> QED  BY <1>5, <1>6 DEF OInv

\* The flush of a report ends: what stays parked is above its bound.
LEMMA OrderFlushEnd == ASSUME IInv, OInv, FlushEnd PROVE OInv'
  <1>0. TypeOK /\ Raised /\ lim \in Int  BY QueueTypes DEF IInv, OInv, Bounds
  <1>1. /\ pc = "flush" /\ after \in Engines \cup {"report", "flushed"}
        /\ after = "report" => rep.rule \in Main
        /\ halted \/ \A e \in Engines : ~Q!Due(e, lim)
        /\ pc' = (IF after = "report" /\ halted THEN OnHalt(rep.rule) ELSE after)
        /\ pos' = (IF halted /\ after \in Engines
                   THEN [pos EXCEPT ![after] = Len(hits[after])] ELSE pos)
        /\ UNCHANGED <<items, start, owner, cbs, scan, hits, len, rep, after>>
    BY FlushEndIs DEF IInv, Control, InReport
  <1>2. /\ after = "report" /\ halted => pc' \in {"done_scan", "comb_halt", "set_retval"}
        /\ after = "report" /\ ~halted => pc' = "report"
        /\ after # "report" => pc' = after
    BY <1>1 DEF OnHalt, Main
  <1>3. Raised' /\ \A e \in Engines : Got(e) \subseteq Got(e)'
    <2>1. CASE halted /\ after \in Engines
      <3>1. after \in HitEngines  BY <2>1 DEF Engines, HitEngines
      <3>2. PICK r \in HitEngines : r = after  BY <3>1
      <3>3. pos' = [pos EXCEPT ![r] = Len(hits[r])] /\ UNCHANGED <<hits, len>>
        BY <1>1, <2>1, <3>2
      <3>4. /\ Raised' /\ Got(r) \subseteq Got(r)'
            /\ \A q \in HitEngines : q # r => Got(q)' = Got(q)
        BY <1>0, <3>3, HitsGiveUp
      <3> QED  BY <3>4 DEF Engines, HitEngines
    <2>2. CASE ~(halted /\ after \in Engines)
      <3>1. pos' = pos  BY <1>1, <2>2
      <3>2. Raised' = Raised /\ \A e \in HitEngines : Got(e)' = Got(e)  BY <1>1, <3>1, HitsStay
      <3> QED  BY <1>0, <3>2 DEF Engines, HitEngines
    <2> QED  BY <2>1, <2>2
  <1>4. InReport' => after = "report" /\ pc' = "report" /\ ~halted /\ InReport
    BY <1>1, <1>2 DEF InReport, Engines
  <1>5. \A e \in Engines : (pc' = e \/ (pc' = "flush" /\ after' = e)) => pc = "flush" /\ after = e
    BY <1>1, <1>2 DEF Engines
  <1>6. pc' \notin {"flush", "zero", "zero_eod"}  BY <1>1, <1>2 DEF Engines
  <1>7. Bounds'
    <2>1. InReport' => rep'.to <= len /\ (rep'.rule \in {"zero", "zeroEod"} => rep'.to = 0)
      BY <1>1, <1>4 DEF OInv, Bounds
    <2> QED  BY <1>1, <1>3, <1>5, <1>6, <2>1, BoundsQuiet DEF OInv
  <1>8. ASSUME NoOverflow PROVE after \notin Engines  BY <1>1, <1>8 DEF OInv, Order
  <1>9. ASSUME NoOverflow, pc' = "report", NEW e \in Engines, NEW w \in Left(e)
        PROVE  rep.to <= w
    <2>1. after = "report" /\ ~halted  BY <1>2, <1>4, <1>9 DEF InReport
    <2>2. lim = rep.to /\ Strict(e)  BY <1>1, <2>1 DEF OInv, Bounds
    <2>3. /\ items[e] \in Seq(1 .. MaxOffset) /\ start[e] \in Nat /\ Len(items[e]) \in Nat
          /\ start[e] <= Len(items[e])
      BY <1>0, QueueTypes DEF IInv, Control
    <2>4. PICK k \in start[e] + 1 .. Len(items[e]) : w = items[e][k] /\ owner[e] = scan
      BY DEF Left
    <2>5. start[e] + 1 \in 1 .. Len(items[e]) /\ k \in 1 .. Len(items[e])  BY <2>3
    <2>6. items[e][start[e] + 1] \in 1 .. MaxOffset /\ items[e][k] \in 1 .. MaxOffset
      BY <2>3, <2>5, ElementIs
    <2>7. ~(items[e][start[e] + 1] <= lim)
      <3>1. ~Q!Due(e, lim)  BY <1>1, <2>1
      <3>2. start[e] < Len(items[e])  BY <2>3, <2>5
      <3> QED  BY <3>1, <3>2 DEF Q!Due, Q!Unreported
    <2>8. k = start[e] + 1 \/ items[e][start[e] + 1] < items[e][k]
      BY <2>2, <2>3, <2>4, <2>5 DEF Strict
    <2> QED  BY <1>0, <2>2, <2>4, <2>6, <2>7, <2>8
  <1>10. NoOverflow => pos' = pos  BY <1>1, <1>8
  <1>11. NoOverflow => More("rose")' = More("rose") /\ Coming("rose")' = Coming("rose")
    <2> SUFFICES ASSUME pos' = pos
                 PROVE  More("rose")' = More("rose") /\ Coming("rose")' = Coming("rose")
      BY <1>10
    <2> QED  BY <1>1 DEF More, Coming
  <1>12. NoOverflow => pc' \notin Early /\ \A e \in Engines : pc' # e
    BY <1>1, <1>2, <1>8 DEF Early, Engines
  <1>13. NoOverflow /\ Upcoming' => Upcoming /\ (InReport' => InReport)
    BY <1>1, <1>2, <1>4, <1>6, <1>12 DEF Upcoming, Engines
  <1>14. Order'
    <2>1. NoOverflow /\ InReport' => UpTo(rep'.to)  BY <1>1, <1>4 DEF OInv, Order
    <2>2. NoOverflow /\ Upcoming' /\ More("rose")' =>
             UpTo(Coming("rose")') /\ (InReport' => rep'.to <= Coming("rose")')
      BY <1>1, <1>11, <1>13 DEF OInv, Order
    <2>3. NoOverflow /\ pc' = "report" => \A e \in Engines : \A w \in Left(e) : rep'.to <= w
      BY <1>1, <1>9
    <2> QED  BY <1>1, <1>6, <1>12, <2>1, <2>2, <2>3, OrderQuiet DEF OInv
  <1> QED  BY <1>7, <1>14 DEF OInv

LEMMA OrderNext == ASSUME IInv, OInv, [Next]_vars PROVE OInv'
  <1>0. /\ TypeOK /\ len \in 0 .. MaxOffset /\ 0 \in 0 .. MaxOffset /\ Raised
        /\ Seen \subseteq Int /\ UpTo(len) /\ (pc \in {"zero", "zero_eod"} => Seen = {})
    <2>1. TypeOK  BY DEF IInv
    <2> QED  BY <2>1, CbsAre, ScanAssumption DEF TypeOK, OInv, Bounds, Order
  <1>1. CASE ScanBegin  BY <1>1, OrderScanBegin
  <1>2. ASSUME NEW r \in {"zeroEod", "zero", "eod", "comb"}, NEW to \in 0 .. MaxOffset, Raise(r, to),
               UNCHANGED <<svars, pos, inUse, status, evec, lilyed, ret, hist>>,
               pc \in Between, r \in {"eod", "comb"} => to = len,
               r \in {"zero", "zeroEod"} => to = 0 /\ pc \in {"zero", "zero_eod"}
        PROVE  OInv'
    <2>1. r \in Main /\ UNCHANGED <<svars, cbs, owner>> /\ UNCHANGED <<hits, pos, len>>
      BY <1>2 DEF Main, svars, hist
    <2>2. /\ Raised' /\ \A f \in HitEngines : Got(f)' = Got(f) /\ More(f)' = More(f)
                                              /\ Coming(f)' = Coming(f)
      BY <1>0, <2>1, HitsStay
    <2>3. \A e \in Engines : Got(e) \subseteq Got(e)'  BY <2>2 DEF Engines, HitEngines
    <2>4. to <= len  BY <1>0, <1>2
    <2>5. UpTo(to)
      <3>1. CASE r \in {"zero", "zeroEod"}  BY <1>0, <1>2, <3>1 DEF UpTo
      <3>2. CASE r \in {"eod", "comb"}  BY <1>0, <1>2, <3>2
      <3> QED  BY <3>1, <3>2
    <2>6. r \in {"zero", "rose"} /\ More("rose")' => to <= Coming("rose")' /\ UpTo(Coming("rose")')
      <3> SUFFICES ASSUME r = "zero", More("rose")'
                   PROVE  to <= Coming("rose")' /\ UpTo(Coming("rose")')
        BY <1>2
      <3>1. "rose" \in HitEngines  BY DEF HitEngines
      <3>2. Coming("rose")' \in 1 .. MaxOffset  BY <1>0, <2>2, <3>1, HitsAre
      <3> QED  BY <1>0, <1>2, <3>2 DEF UpTo
    <2> QED  BY <1>0, <1>2, <2>1, <2>2, <2>3, <2>4, <2>5, <2>6, OrderRaise
  <1>3. CASE ZeroEod
    <2>1. pc = "zero_eod" /\ pc \in Between  BY <1>3 DEF ZeroEod, Boundary, Between
    <2>2. CASE Goto("set_retval")  BY <2>1, <2>2, OrderGoto DEF Between, Engines, Early
    <2> QED  BY <1>0, <1>2, <1>3, <2>1, <2>2 DEF ZeroEod, Boundary
  <1>4. CASE Zero
    <2>1. pc = "zero" /\ pc \in Between  BY <1>4 DEF Zero, Boundary, Between
    <2>2. CASE Goto("gate")  BY <2>1, <2>2, OrderGoto DEF Between, Engines, Early
    <2> QED  BY <1>0, <1>2, <1>4, <2>1, <2>2 DEF Zero, Boundary
  <1>5. CASE Eod
    <2>1. pc = "eod" /\ pc \in Between  BY <1>5 DEF Eod, Boundary, Between
    <2>2. CASE Goto("set_retval")  BY <2>1, <2>2, OrderGoto DEF Between, Engines, Early
    <2>3. PICK to \in 0 .. MaxOffset : to = len  BY <1>0
    <2> QED  BY <1>0, <1>2, <1>5, <2>1, <2>2, <2>3 DEF Eod, Boundary
  <1>6. CASE Gate
    <2>1. pc = "gate" /\ pc \in Between /\ pc \in Early /\ "lily" \in Engines
      BY <1>6 DEF Gate, Between, Engines, Early
    <2>2. CASE Goto("done_scan")  BY <2>1, <2>2, OrderGoto DEF Between, Engines, Early
    <2>3. CASE Goto("lily_done")  BY <2>1, <2>3, OrderGoto DEF Between, Engines
    <2>4. CASE /\ Q!InitItems("lily") /\ pc' = "lily"
               /\ UNCHANGED <<svars, pos, inUse, status, evec, lilyed, rep, after, ret, hist>>
      BY <2>1, <2>4, OrderStart
    <2> QED  BY <1>6, <2>2, <2>3, <2>4 DEF Gate
  <1>7. ASSUME NEW e \in Engines, EngineHit(e) PROVE OInv'  BY <1>7, OrderEngineHit
  <1>8. CASE LilyDone  BY <1>8, OrderGoto DEF LilyDone, Between, Engines, Early
  <1>9. CASE TeddyStart
    <2>1. pc = "lily_done" /\ pc \in Between /\ pc \in Early /\ "teddy" \in Engines
      BY <1>9 DEF TeddyStart, Between, Engines, Early
    <2>2. CASE Goto("engines_done")  BY <2>1, <2>2, OrderGoto DEF Between, Engines
    <2>3. CASE /\ Q!InitItems("teddy") /\ pc' = "teddy"
               /\ UNCHANGED <<svars, pos, inUse, status, evec, lilyed, rep, after, ret, hist>>
      BY <2>1, <2>3, OrderStart
    <2> QED  BY <1>9, <2>2, <2>3 DEF TeddyStart
  <1>10. CASE TeddyDone  BY <1>10, OrderGoto DEF TeddyDone, Between, Engines, Early
  <1>11. CASE EnginesDone  BY <1>11, OrderEnginesDone
  <1>12. CASE RoseHit  BY <1>12, OrderRoseHit
  <1>13. CASE RoseDone  BY <1>13, OrderGoto DEF RoseDone, Between, Engines, Early
  <1>14. ASSUME NEW h \in BOOLEAN, Callback(h) PROVE OInv'  BY <1>14, OrderCallback
  <1>15. ASSUME NEW h \in BOOLEAN, LilyCallback(h) PROVE OInv'  BY <1>15, OrderLilyCallback
  <1>16. CASE NoTable  BY <1>16, OrderNoTable
  <1>17. CASE FlushEnd  BY <1>17, OrderFlushEnd
  <1>18. CASE DoneScan  BY <1>18, OrderDoneScan
  <1>19. CASE Flushed
    <2>1. pc = "flushed" /\ pc \in Between  BY <1>19 DEF Flushed, Between
    <2>2. CASE Goto("eod")  BY <2>1, <2>2, OrderGoto DEF Between, Engines, Early
    <2>3. CASE /\ Return("SCAN_TERMINATED")
               /\ UNCHANGED <<qvars, svars, pos, status, evec, lilyed, hist>>
      BY <2>3, OrderReturn
    <2> QED  BY <1>19, <2>2, <2>3 DEF Flushed
  <1>20. CASE SetRetval
    <2>1. pc = "set_retval" /\ pc \in Between  BY <1>20 DEF SetRetval, Between
    <2>2. CASE Goto("comb")  BY <2>1, <2>2, OrderGoto DEF Between, Engines, Early
    <2>3. PICK to \in 0 .. MaxOffset : to = len  BY <1>0
    <2> QED  BY <1>0, <1>2, <1>20, <2>1, <2>2, <2>3 DEF SetRetval
  <1>21. CASE CombHalt  BY <1>21, OrderReturn DEF CombHalt
  <1>22. CASE ScanEnd  BY <1>22, OrderReturn DEF ScanEnd
  <1>23. CASE UNCHANGED vars
    <2>1. /\ UNCHANGED <<items, start, owner, cbs, scan, hits, len, pos>>
          /\ UNCHANGED <<pc, after, rep, lim>>
      BY <1>23 DEF vars, qvars, svars, hist
    <2>2. /\ Raised' = Raised
          /\ \A e \in HitEngines : Got(e)' = Got(e) /\ More(e)' = More(e) /\ Coming(e)' = Coming(e)
      BY <2>1, HitsStay
    <2>3. (InReport' <=> InReport) /\ (Upcoming' <=> Upcoming)  BY <2>1 DEF InReport, Upcoming
    <2>4. \A e \in Engines : e \in HitEngines  BY DEF Engines, HitEngines
    <2>5. "rose" \in HitEngines  BY DEF HitEngines
    <2>6. Bounds'  BY <1>0, <2>1, <2>2, <2>3, <2>4, BoundsQuiet DEF OInv, Bounds
    <2>7. Order'  BY <2>1, <2>2, <2>3, <2>5, OrderQuiet DEF OInv, Order
    <2> QED  BY <2>6, <2>7 DEF OInv
  <1> QED
    BY <1>1, <1>3, <1>4, <1>5, <1>6, <1>7, <1>8, <1>9, <1>10, <1>11, <1>12, <1>13, <1>14,
       <1>15, <1>16, <1>17, <1>18, <1>19, <1>20, <1>21, <1>22, <1>23
    DEF Next, ScanStep

LEMMA OrderInit == ASSUME Init PROVE OInv
  <1>1. /\ cbs = <<>> /\ pc = "idle" /\ rep = NoReport /\ len = 0
        /\ \A e \in Engines : start[e] = 0 /\ items[e] = <<>>
        /\ \A r \in HitEngines : pos[r] = 0 /\ hits[r] = <<>>
    BY DEF Init, Q!Init, Engines, Q!Engines
  <1>2. Own = {} /\ Seen = {} /\ ~InReport /\ ~Upcoming
    BY <1>1 DEF Own, Seen, InReport, Upcoming, Early
  <1>3. \A e \in Engines : Left(e) = {} /\ Strict(e) /\ ~Parked(e)
    BY <1>1 DEF Left, Strict, Parked
  <1>4. Raised  BY <1>1 DEF Raised, HitsOK, More
  <1>5. Bounds  BY <1>1, <1>2, <1>3, <1>4 DEF Bounds, UpTo
  <1>6. Order  BY <1>1, <1>2, <1>3 DEF Order, UpTo, InOrder, Early, Engines
  <1> QED  BY <1>5, <1>6 DEF OInv

\* Within a scan the callback sees non-decreasing end offsets over all the
\* engines together, the parked Lily matches included, as long as no Lily
\* queue fills up (roseDeliverReport's flush, flushStoredLilyMatches).
THEOREM ReportsAscend == Spec => []OrderedReports
  <1>1. OInv => OrderedReports  BY DEF OInv, Order, InOrder, NoOverflow, OrderedReports
  <1> QED  BY <1>1, OrderInit, OrderNext, BlockScanInvariant, PTL DEF Spec

----------------------------------------------------------------------------
(* Nothing is lost *)

\* The main engine's report in hand.
RoseDue    == InReport /\ rep.rule = "rose"
Mine(r)    == {i \in Own : cbs[i].rule = r}
SeenOf(r)  == {cbs[i].to : i \in Mine(r)}
\* The hits of r that were raised and are on their way to the callback.
Waiting(r) == IF r = "rose" THEN (IF RoseDue THEN {rep.to} ELSE {}) ELSE Left(r)
On(r)      == Keyed(r) /\ Ekey[r] \in evec

Distinct(r) == \A i, j \in Mine(r) : cbs[i].to = cbs[j].to => i = j

\* Every hit that was raised is reported once or waits to be.
Whole(r) ==
    /\ SeenOf(r) \cup Waiting(r) = Got(r)
    /\ SeenOf(r) \cap Waiting(r) = {}
    /\ Distinct(r)

\* The places after the end of engine r, and those before its start.
PastAt(l, r) ==
    \/ l \in {"done_scan", "flushed", "eod", "set_retval", "comb", "comb_halt"}
    \/ r # "rose" /\ l \in {"engines_done", "rose"}
    \/ r = "lily" /\ l \in {"lily_done", "teddy"}
Past(r) ==
    \/ PastAt(pc, r)
    \/ pc = "flush" /\ (after = "flushed" \/ (after = "teddy" /\ r = "lily"))
    \/ InReport /\ (rep.rule \in {"eod", "comb", "zeroEod"} \/ (rep.rule = "rose" /\ r # "rose"))
NotYet(r) ==
    \/ pc \in {"zero", "gate"} \/ (InReport /\ rep.rule = "zero")
    \/ r = "teddy" /\ (pc \in {"lily", "lily_done"} \/ (pc = "flush" /\ after = "lily"))
Calm == pc \in Quiescent \/ (InReport /\ rep.rule # "rose")

Found ==
    /\ \A r \in HitEngines : r \notin db.has \/ Outside(db, len) => hits[r] = <<>>
    /\ pc = "zero_eod" \/ (InReport /\ rep.rule = "zeroEod") => len = 0
    /\ \A r \in Engines : NotYet(r) => pos[r] = 0

Lost ==
    /\ Calm => \A e \in Engines : Left(e) = {}
    /\ \A r \in HitEngines : Past(r) => pos[r] = Len(hits[r]) \/ On(r)
    /\ \A r \in HitEngines : ~Keyed(r) => Whole(r)
    /\ \A r \in HitEngines : Keyed(r) /\ pos[r] > 0 => On(r) \/ (r = "rose" /\ RoseDue)
    /\ \A k \in evec : \/ \E i \in Own : Ekey[cbs[i].rule] = k
                       \/ \E e \in Engines : Left(e) # {} /\ Ekey[e] = k

\* The scan is on its way and may yet succeed.
Live == ~stopped /\ pc \notin {"idle", "crashed"}
Kept == Found /\ (Live => Lost)

LEMMA NoHits ==
    ASSUME TypeOK, Raised, NEW r \in HitEngines, len = 0 \/ hits[r] = <<>>
    PROVE  pos[r] = Len(hits[r]) /\ pos[r] = 0
  <1>1. /\ pos[r] \in Nat /\ Len(hits[r]) \in Nat /\ pos[r] <= Len(hits[r])
        /\ \A k \in 1 .. Len(hits[r]) : hits[r][k] \in 1 .. MaxOffset /\ hits[r][k] <= len
    BY HitsAre
  <1>2. Len(hits[r]) = 0
    <2>1. CASE len = 0
      <3>1. CASE Len(hits[r]) = 0  BY <3>1
      <3>2. CASE Len(hits[r]) # 0
        <4>1. 1 \in 1 .. Len(hits[r])  BY <1>1, <3>2
        <4>2. hits[r][1] \in 1 .. MaxOffset /\ hits[r][1] <= 0  BY <1>1, <2>1, <4>1
        <4> QED  BY <4>2
      <3> QED  BY <3>1, <3>2
    <2>2. CASE hits[r] = <<>>  BY <2>2
    <2> QED  BY <2>1, <2>2
  <1> QED  BY <1>1, <1>2

LEMMA FoundStay ==
    ASSUME Found, UNCHANGED <<db, len, hits>>,
           pc' = "zero_eod" \/ (InReport' /\ rep'.rule = "zeroEod") =>
              pc = "zero_eod" \/ (InReport /\ rep.rule = "zeroEod"),
           \A r \in Engines : NotYet(r)' => NotYet(r) /\ pos'[r] = pos[r]
    PROVE  Found'
  BY DEF Found, Outside

\* A step that neither raises nor reports.
LEMMA LostQuiet ==
    ASSUME Lost, UNCHANGED <<items, start, owner, cbs, scan, hits, pos, evec>>,
           RoseDue' <=> RoseDue, RoseDue => rep'.to = rep.to,
           Calm' => \A e \in Engines : Left(e) = {},
           \A r \in HitEngines : Past(r)' => Past(r) \/ pos[r] = Len(hits[r]) \/ On(r)
    PROVE  Lost'
  <1>1. Own' = Own /\ cbs' = cbs /\ evec' = evec /\ pos' = pos /\ hits' = hits
    BY SeenSame
  <1>2. \A e \in Engines : Left(e)' = Left(e)  BY LeftSame
  <1>3. \A r \in HitEngines : /\ Waiting(r)' = Waiting(r) /\ Got(r)' = Got(r) /\ On(r)' = On(r)
                              /\ Mine(r)' = Mine(r) /\ SeenOf(r)' = SeenOf(r)
    BY <1>1, <1>2 DEF Waiting, Got, On, Mine, SeenOf, Keyed, HitEngines, Engines
  <1>4. \A r \in HitEngines : Whole(r)' = Whole(r)  BY <1>1, <1>3 DEF Whole, Distinct
  <1> QED  BY <1>1, <1>2, <1>3, <1>4 DEF Lost, Keyed

LEMMA KeptGoto ==
    ASSUME Kept, pc \in Between, NEW l \in Between \ (Engines \cup {"zero", "zero_eod"}), Goto(l),
           l \in Quiescent => pc \in Quiescent, l = "gate" => pc = "zero",
           l = "lily_done" => pc \in {"gate", "lily"},
           \A r \in HitEngines : PastAt(l, r) => PastAt(pc, r) \/ pos[r] = Len(hits[r])
    PROVE  Kept' /\ pc' # "idle"
  <1>1. /\ pc' = l /\ UNCHANGED <<items, start, owner, cbs, scan, hits, len, pos, evec, db>>
        /\ stopped' = stopped
    BY DEF Goto, qvars, svars, hist
  <1>2. ~InReport' /\ pc' \notin {"flush", "zero_eod", "idle"} /\ ~InReport
        /\ pc \notin {"flush", "idle", "crashed"}
    BY <1>1 DEF InReport, Between
  <1>3. Found'
    <2>1. \A r \in Engines : NotYet(r)' => NotYet(r)  BY <1>1, <1>2 DEF NotYet, Engines
    <2> QED  BY <1>1, <1>2, <2>1, FoundStay DEF Kept
  <1>4. ASSUME Live' PROVE Lost'
    <2>1. Lost  BY <1>1, <1>2, <1>4 DEF Kept, Live
    <2>2. Calm' => Calm  BY <1>1, <1>2 DEF Calm
    <2>3. Calm' => \A e \in Engines : Left(e) = {}  BY <2>1, <2>2 DEF Lost
    <2>4. \A r \in HitEngines : Past(r)' => PastAt(l, r)  BY <1>1, <1>2 DEF Past
    <2>5. \A r \in HitEngines : PastAt(pc, r) => Past(r)  BY DEF Past
    <2> QED  BY <1>1, <1>2, <2>1, <2>3, <2>4, <2>5, LostQuiet DEF RoseDue
  <1> QED  BY <1>2, <1>3, <1>4 DEF Kept

\* A boundary or combination report begins: nothing of this scan is parked.
LEMMA KeptRaise ==
    ASSUME IInv, OInv, Kept, NEW l \in {"zero_eod", "zero", "eod", "set_retval"}, pc = l,
           NEW r \in {"zeroEod", "zero", "eod", "comb"}, NEW to \in 0 .. MaxOffset, Raise(r, to),
           UNCHANGED <<svars, pos, inUse, status, evec, lilyed, ret, hist>>,
           r = "zeroEod" <=> l = "zero_eod", r = "zero" <=> l = "zero"
    PROVE  Kept' /\ pc' # "idle"
  <1>0. r \in AllRules /\ r # "rose"  BY DEF AllRules, HitEngines
  <1>1. /\ rep'.rule = r /\ UNCHANGED <<items, start>>
        /\ \/ pc' = "flush" /\ after' = "report"
           \/ pc' = "report"
        /\ UNCHANGED <<db, len, hits, pos, evec, cbs, scan, stopped, owner>>
    BY <1>0, RaiseIs DEF IInv, svars, hist
  <1>2. InReport' /\ ~InReport  BY <1>1 DEF InReport
  <1>3. Found'
    <2>1. \A e \in Engines : NotYet(e)' => NotYet(e) /\ pos'[e] = pos[e]
      BY <1>1, <1>2 DEF NotYet
    <2> QED  BY <1>1, <1>2, <2>1, FoundStay DEF Kept
  <1>4. ASSUME Live' PROVE Lost'
    <2>1. Lost /\ Calm  BY <1>1, <1>4 DEF Kept, Live, Calm, Quiescent
    <2>2. \A q \in HitEngines : Past(q)' => Past(q) \/ pos[q] = Len(hits[q])
      <3> SUFFICES ASSUME NEW q \in HitEngines, Past(q)' PROVE Past(q) \/ pos[q] = Len(hits[q])
        OBVIOUS
      <3>1. r \in {"eod", "comb", "zeroEod"}  BY <1>0, <1>1 DEF Past, PastAt
      <3>2. CASE l = "zero_eod"
        <4>1. len = 0 /\ TypeOK /\ Raised  BY <3>2 DEF Kept, Found, IInv, OInv, Bounds
        <4> QED  BY <4>1, NoHits
      <3>3. CASE l \in {"eod", "set_retval"}  BY <3>3 DEF Past, PastAt
      <3> QED  BY <3>1, <3>2, <3>3
    <2>3. ~RoseDue /\ ~RoseDue'  BY <1>0, <1>1, <1>2 DEF RoseDue
    <2>4. \A e \in Engines : Left(e) = {}  BY <2>1 DEF Lost
    <2> QED  BY <1>1, <2>1, <2>2, <2>3, <2>4, LostQuiet
  <1> QED  BY <1>1, <1>3, <1>4 DEF Kept

LEMMA KeptScanBegin == ASSUME IInv, ScanBegin PROVE Kept'
  <1>1. /\ scan' = scan + 1 /\ UNCHANGED <<items, start, owner>> /\ cbs' = <<>>
        /\ \/ pc' = "idle"
           \/ pc' \in {"zero_eod", "zero"} /\ evec' = {}
    BY ScanBeginIs DEF IInv
  <1>2. Own' = {}  BY <1>1 DEF Own
  <1>3. \A e \in Engines : owner[e] \in Nat /\ scan \in Nat /\ owner[e] <= scan
    BY ScanAssumption DEF IInv, TypeOK, Control
  <1>4. \A e \in Engines : Left(e)' = {}  BY <1>1, <1>3 DEF Left
  <1>5. ~InReport' /\ ~RoseDue' /\ pc' # "flush"  BY <1>1 DEF InReport, RoseDue
  <1>6. /\ \A r \in HitEngines : pos'[r] = 0 /\ Got(r)' = {}
        /\ \A r \in HitEngines : r \notin db'.has \/ Outside(db', len') => hits'[r] = <<>>
        /\ pc' = "zero_eod" => len' = 0
    BY ScanBeginHits
  <1>7. Found'
    <2>1. \A r \in Engines : pos'[r] = 0  BY <1>6 DEF Engines, HitEngines
    <2> QED  BY <1>5, <1>6, <2>1 DEF Found, Outside
  <1>8. ASSUME Live' PROVE Lost'
    <2>1. pc' \in {"zero_eod", "zero"} /\ evec' = {}  BY <1>1, <1>8 DEF Live
    <2>2. \A r \in HitEngines : ~Past(r)'  BY <1>5, <2>1 DEF Past, PastAt
    <2>3. \A r \in HitEngines : Mine(r)' = {} /\ SeenOf(r)' = {} /\ Waiting(r)' = {}
      BY <1>2, <1>4, <1>5 DEF Mine, SeenOf, Waiting, HitEngines, Engines
    <2>4. \A r \in HitEngines : Whole(r)'  BY <1>6, <2>3 DEF Whole, Distinct
    <2>5. \A r \in HitEngines : ~(pos'[r] > 0)  BY <1>6
    <2> QED  BY <1>4, <2>1, <2>2, <2>4, <2>5 DEF Lost
  <1> QED  BY <1>7, <1>8 DEF Kept

\* Gate and TeddyStart: the engine has raised nothing, so nothing is parked.
LEMMA KeptStart ==
    ASSUME IInv, OInv, Kept, NEW e \in Engines, Q!InitItems(e), pc \in {"gate", "lily_done"},
           pc' = e, e = "lily" <=> pc = "gate",
           UNCHANGED <<svars, pos, inUse, status, evec, lilyed, rep, after, ret, hist>>
    PROVE  Kept' /\ pc' # "idle"
  <1>1. /\ items'[e] = <<>> /\ start'[e] = 0
        /\ \A f \in Engines : f # e => items'[f] = items[f] /\ start'[f] = start[f]
    BY InitItemsIs DEF IInv
  <1>2. UNCHANGED <<db, len, hits, pos, evec, cbs, scan, stopped, owner>>  BY DEF svars, hist
  <1>3. ~InReport' /\ ~InReport /\ pc' \notin {"idle", "flush", "zero_eod"} /\ e \in HitEngines
    BY DEF InReport, Engines, HitEngines
  <1>4. e = "lily" \/ e = "teddy"  BY DEF Engines
  <1>5. Left(e)' = {}  BY <1>1 DEF Left
  <1>6. Left(e) = {}
    <2>1. pos[e] = 0  BY <1>4 DEF Kept, Found, NotYet
    <2>2. 1 .. pos[e] = {}  BY <2>1
    <2>3. Got(e) = {}  BY <2>2 DEF Got
    <2> QED  BY <2>3 DEF OInv, Bounds
  <1>7. \A f \in Engines : Left(f)' = Left(f)
    <2> SUFFICES ASSUME NEW f \in Engines PROVE Left(f)' = Left(f)
      OBVIOUS
    <2>1. CASE f = e  BY <1>5, <1>6, <2>1
    <2>2. CASE f # e  BY <1>1, <1>2, <2>2, LeftSame
    <2> QED  BY <2>1, <2>2
  <1>8. Found'
    <2>1. \A r \in Engines : NotYet(r)' => NotYet(r)
      BY <1>3, <1>4 DEF NotYet, Engines
    <2> QED  BY <1>2, <1>3, <2>1, FoundStay DEF Kept
  <1>9. ASSUME Live' PROVE Lost'
    <2>1. Lost  BY <1>2, <1>9 DEF Kept, Live
    <2>2. ~RoseDue /\ ~RoseDue' /\ ~Calm'
      BY <1>3 DEF RoseDue, Calm, Engines, Quiescent
    <2>3. \A r \in HitEngines : Past(r)' => Past(r)
      BY <1>3, <1>4 DEF Past, PastAt
    <2>4. Own' = Own /\ cbs' = cbs /\ evec' = evec /\ pos' = pos /\ hits' = hits
      BY <1>2, SeenSame
    <2>5. \A r \in HitEngines : /\ Waiting(r)' = Waiting(r) /\ Got(r)' = Got(r) /\ On(r)' = On(r)
                                /\ Mine(r)' = Mine(r) /\ SeenOf(r)' = SeenOf(r)
      BY <1>7, <2>2, <2>4 DEF Waiting, Got, On, Mine, SeenOf, Keyed, HitEngines, Engines
    <2>6. \A r \in HitEngines : Whole(r)' = Whole(r)  BY <2>4, <2>5 DEF Whole, Distinct
    <2> QED  BY <1>7, <2>1, <2>2, <2>3, <2>4, <2>5, <2>6 DEF Lost, Keyed
  <1> QED  BY <1>3, <1>8, <1>9 DEF Kept

\* A hit is raised into the queue of its engine.
LEMMA KeptPush ==
    ASSUME IInv, OInv, Kept, NEW e \in Engines, NEW to \in 1 .. MaxOffset, pc = e,
           More(e), to = Coming(e), Q!Push(e, to), evec' = markAsMatched(e),
           owner' = [owner EXCEPT ![e] = scan], pos' = [pos EXCEPT ![e] = @ + 1],
           UNCHANGED <<pc, after, svars, cbs, rep, stopped>>
    PROVE  Kept'
  <1>0. TypeOK /\ Control /\ Raised /\ e \in HitEngines /\ e # "rose"
    BY DEF IInv, OInv, Bounds, Engines, HitEngines
  <1>1. UNCHANGED <<db, cbs, scan, hits, len>>  BY DEF svars
  <1>2. /\ pos'[e] = pos[e] + 1 /\ Got(e)' = Got(e) \cup {to}
        /\ \A q \in HitEngines : q # e => pos'[q] = pos[q] /\ Got(q)' = Got(q)
        /\ \A v \in Got(e) : v < to
    BY <1>0, <1>1, HitsAdvance
  <1>3. /\ Left(e)' = Left(e) \cup {to}
        /\ \A f \in Engines : f # e => Left(f)' = Left(f)
    <2>1. Left(e) \subseteq Got(e) /\ Strict(e) /\ (Parked(e) => owner[e] = scan)
      BY DEF OInv, Bounds
    <2>2. \A v \in Left(e) : v < to  BY <1>2, <2>1
    <2>3. start[e] <= Len(items[e])  BY <1>0 DEF Control
    <2> QED  BY <1>0, <1>1, <2>1, <2>2, <2>3, LeftPush
  <1>4. ~InReport' /\ ~InReport /\ pc \notin {"flush", "zero_eod"}
    BY DEF InReport, Engines
  <1>5. e = "lily" \/ e = "teddy"  BY DEF Engines
  <1>6. Found'
    <2>1. \A r \in Engines : NotYet(r)' => NotYet(r) /\ r # e
      BY <1>4, <1>5 DEF NotYet, Engines
    <2>2. \A r \in Engines : r # e => pos'[r] = pos[r]  BY <1>2 DEF Engines, HitEngines
    <2> QED  BY <1>1, <1>4, <2>1, <2>2, FoundStay DEF Kept
  <1>7. ASSUME Live' PROVE Lost'
    <2>1. Lost  BY <1>7 DEF Kept, Live
    <2>2. ~RoseDue /\ ~RoseDue' /\ ~Calm'
      BY <1>4, <1>5 DEF RoseDue, Calm, Quiescent
    <2>3. evec \subseteq evec' /\ (Keyed(e) => evec' = evec \cup {Ekey[e]})
          /\ (~Keyed(e) => evec' = evec)
      BY DEF markAsMatched, Keyed
    <2>4. Own' = Own /\ cbs' = cbs /\ hits' = hits  BY <1>1, SeenSame
    <2>5. \A r \in HitEngines : /\ Mine(r)' = Mine(r) /\ SeenOf(r)' = SeenOf(r)
                                /\ (On(r) => On(r)') /\ (r # e => Waiting(r)' = Waiting(r))
      BY <1>3, <2>2, <2>3, <2>4 DEF Waiting, On, Mine, SeenOf, Keyed, HitEngines, Engines
    <2>6. ASSUME NEW r \in HitEngines, Past(r)' PROVE pos'[r] = Len(hits'[r]) \/ On(r)'
      <3>1. Past(r) /\ r # e  BY <1>4, <1>5, <2>6 DEF Past, PastAt
      <3> QED  BY <1>2, <2>1, <2>4, <2>5, <3>1 DEF Lost
    <2>7. ASSUME NEW r \in HitEngines, ~Keyed(r) PROVE Whole(r)'
      <3>1. Whole(r)  BY <2>1, <2>7 DEF Lost
      <3>2. CASE r # e  BY <1>2, <2>4, <2>5, <3>1, <3>2 DEF Whole, Distinct
      <3>3. CASE r = e
        <4>1. Waiting(e) = Left(e) /\ Waiting(e)' = Left(e) \cup {to}
          BY <1>0, <1>3 DEF Waiting
        <4>2. Got(e) \subseteq Int  BY <1>0, HitsAre
        <4>3. to \notin Got(e)  BY <1>2, <4>2
        <4>4. to \notin SeenOf(e)  BY <3>1, <3>3, <4>3 DEF Whole
        <4>5. SeenOf(e)' \cup Waiting(e)' = Got(e)' /\ SeenOf(e)' \cap Waiting(e)' = {}
          BY <1>2, <2>5, <3>1, <3>3, <4>1, <4>4, <1>0 DEF Whole
        <4>6. Mine(e)' = Mine(e)  BY <1>0, <2>5
        <4> QED  BY <2>4, <3>1, <3>3, <4>5, <4>6 DEF Whole, Distinct
      <3> QED  BY <3>2, <3>3
    <2>8. ASSUME NEW r \in HitEngines, Keyed(r), pos'[r] > 0 PROVE On(r)'
      <3>1. CASE r = e  BY <2>3, <2>8, <3>1 DEF On, Keyed
      <3>2. CASE r # e  BY <1>2, <2>1, <2>2, <2>5, <2>8, <3>2 DEF Lost
      <3> QED  BY <3>1, <3>2
    <2>9. ASSUME NEW k \in evec'
          PROVE  \/ \E i \in Own' : Ekey[cbs'[i].rule] = k
                 \/ \E f \in Engines : Left(f)' # {} /\ Ekey[f] = k
      <3>1. CASE k \in evec
        <4>1. \/ \E i \in Own : Ekey[cbs[i].rule] = k
              \/ \E f \in Engines : Left(f) # {} /\ Ekey[f] = k
          BY <2>1, <3>1 DEF Lost
        <4>2. \A f \in Engines : Left(f) \subseteq Left(f)'  BY <1>3
        <4> QED  BY <2>4, <4>1, <4>2
      <3>2. CASE k \notin evec
        <4>1. k = Ekey[e]  BY <2>3, <3>2, <2>9
        <4> QED  BY <1>3, <4>1
      <3> QED  BY <3>1, <3>2
    <2> QED  BY <2>2, <2>6, <2>7, <2>8, <2>9 DEF Lost, Keyed
  <1> QED  BY <1>6, <1>7 DEF Kept

\* A hit whose key is on is dropped.
LEMMA KeptSkip ==
    ASSUME IInv, OInv, Kept, NEW e \in HitEngines, pc = e, More(e), On(e),
           pos' = [pos EXCEPT ![e] = @ + 1],
           UNCHANGED <<items, start, owner, cbs, scan, hits, len, db, evec, stopped>>,
           UNCHANGED <<pc, after, rep>>
    PROVE  Kept'
  <1>0. TypeOK /\ Raised  BY DEF IInv, OInv, Bounds
  <1>2. /\ pos'[e] = pos[e] + 1
        /\ \A q \in HitEngines : q # e => pos'[q] = pos[q] /\ Got(q)' = Got(q)
    BY <1>0, HitsAdvance
  <1>4. ~InReport' /\ ~InReport /\ pc \notin {"flush", "zero_eod"}
    BY DEF InReport, HitEngines
  <1>5. e = "lily" \/ e = "teddy" \/ e = "rose"  BY DEF HitEngines
  <1>6. Found'
    <2>1. \A r \in Engines : NotYet(r)' => NotYet(r) /\ r # e
      BY <1>4, <1>5 DEF NotYet, Engines
    <2>2. \A r \in Engines : r # e => pos'[r] = pos[r]  BY <1>2 DEF Engines, HitEngines
    <2> QED  BY <1>4, <2>1, <2>2, FoundStay DEF Kept
  <1>7. ASSUME Live' PROVE Lost'
    <2>1. Lost  BY <1>7 DEF Kept, Live
    <2>2. ~RoseDue /\ ~RoseDue' /\ ~Calm'
      BY <1>4, <1>5 DEF RoseDue, Calm, Quiescent
    <2>3. \A f \in Engines : Left(f)' = Left(f)  BY LeftSame
    <2>4. Own' = Own /\ cbs' = cbs /\ hits' = hits /\ evec' = evec  BY SeenSame
    <2>5. \A r \in HitEngines : /\ Mine(r)' = Mine(r) /\ SeenOf(r)' = SeenOf(r)
                                /\ On(r)' = On(r) /\ Waiting(r)' = Waiting(r)
      BY <2>2, <2>3, <2>4 DEF Waiting, On, Mine, SeenOf, Keyed, HitEngines, Engines
    <2>6. ASSUME NEW r \in HitEngines, Past(r)' PROVE pos'[r] = Len(hits'[r]) \/ On(r)'
      <3>1. Past(r)  BY <1>4, <2>6 DEF Past
      <3>2. r = e \/ pos'[r] = pos[r]  BY <1>2
      <3> QED  BY <2>1, <2>4, <2>5, <3>1, <3>2 DEF Lost
    <2>7. ASSUME NEW r \in HitEngines, ~Keyed(r) PROVE Whole(r)'
      <3>1. Whole(r) /\ r # e  BY <2>1, <2>7 DEF Lost, On
      <3> QED  BY <1>2, <2>4, <2>5, <3>1 DEF Whole, Distinct
    <2>8. ASSUME NEW r \in HitEngines, Keyed(r), pos'[r] > 0 PROVE On(r)'
      <3>1. r = e \/ pos'[r] = pos[r]  BY <1>2
      <3> QED  BY <2>1, <2>2, <2>5, <2>8, <3>1 DEF Lost
    <2> QED  BY <2>1, <2>2, <2>3, <2>4, <2>6, <2>7, <2>8 DEF Lost, Keyed
  <1> QED  BY <1>6, <1>7 DEF Kept

LEMMA KeptEngineHit ==
    ASSUME IInv, OInv, Kept, NEW e \in Engines, EngineHit(e) PROVE Kept' /\ pc' # "idle"
  <1>0. TypeOK /\ Raised /\ e \in HitEngines /\ e \notin {"flush", "idle", "report", "crashed"}
    BY DEF IInv, OInv, Bounds, Engines, HitEngines
  <1>1. /\ pc = e /\ More(e) /\ UNCHANGED <<db, cbs, scan, hits, len, rep, svars, stopped>>
        /\ Coming(e) \in 1 .. MaxOffset
    BY <1>0, HitsAre DEF EngineHit, svars, More
  <1>2. CASE /\ isExhausted(e) /\ pos' = [pos EXCEPT ![e] = @ + 1]
             /\ UNCHANGED <<qvars, pc, evec, after, owner>>
    <2>1. UNCHANGED <<items, start, owner, evec, pc, after>>  BY <1>2 DEF qvars
    <2>2. On(e)  BY <1>2 DEF isExhausted, On, Keyed
    <2> QED  BY <1>0, <1>1, <1>2, <2>1, <2>2, KeptSkip
  <1>3. CASE /\ Q!Push(e, hits[e][pos[e] + 1]) /\ evec' = markAsMatched(e)
             /\ pos' = [pos EXCEPT ![e] = @ + 1] /\ owner' = [owner EXCEPT ![e] = scan]
             /\ UNCHANGED <<pc, after>>
    <2>1. PICK to \in 1 .. MaxOffset : to = Coming(e)  BY <1>1
    <2>2. Q!Push(e, to)  BY <1>3, <2>1 DEF Coming
    <2>3. UNCHANGED <<pc, after, svars, cbs, rep, stopped>> /\ pc' # "idle"  BY <1>0, <1>1, <1>3
    <2> QED  BY <1>1, <1>3, <2>1, <2>2, <2>3, KeptPush
  <1>4. CASE Flush(Q!All, e) /\ UNCHANGED <<pos, evec, owner>>
    <2>1. /\ UNCHANGED <<items, start, owner, cbs, scan, hits, len, pos, db, evec, stopped>>
          /\ pc' = "flush" /\ after' = e
      BY <1>1, <1>4 DEF Flush, Q!BeginFlush
    <2>2. ~InReport' /\ ~InReport  BY <1>0, <1>1, <2>1 DEF InReport
    <2>3. e = "lily" \/ e = "teddy"  BY DEF Engines
    <2>4. Found'
      <3>1. \A r \in Engines : NotYet(r)' => NotYet(r)
        BY <1>1, <2>1, <2>2, <2>3 DEF NotYet, Engines
      <3> QED  BY <2>1, <2>2, <3>1, FoundStay DEF Kept
    <2>5. ASSUME Live' PROVE Lost'
      <3>1. Lost  BY <1>0, <1>1, <2>1, <2>5 DEF Kept, Live
      <3>2. ~RoseDue /\ ~RoseDue' /\ ~Calm'  BY <2>1, <2>2 DEF RoseDue, Calm, Quiescent
      <3>3. \A r \in HitEngines : Past(r)' => Past(r)
        BY <1>1, <2>1, <2>2, <2>3 DEF Past, PastAt
      <3> QED  BY <2>1, <3>1, <3>2, <3>3, LostQuiet
    <2> QED  BY <2>1, <2>4, <2>5 DEF Kept
  <1> QED  BY <1>1, <1>2, <1>3, <1>4 DEF EngineHit

\* One more callback for a match of this scan: only its rule's are touched.
LEMMA MineGrows ==
    ASSUME TypeOK, NEW x \in Record, cbs' = Append(cbs, x), scan' = scan, x.scan = scan
    PROVE  /\ \A r : r # x.rule => SeenOf(r)' = SeenOf(r) /\ (Distinct(r) => Distinct(r)')
           /\ SeenOf(x.rule)' = SeenOf(x.rule) \cup {x.to}
           /\ Distinct(x.rule) /\ x.to \notin SeenOf(x.rule) => Distinct(x.rule)'
           /\ \A i \in Own : i \in Own' /\ cbs'[i] = cbs[i]
           /\ \E i \in Own' : cbs'[i].rule = x.rule
  <1> DEFINE n == Len(cbs) + 1
  <1>1. /\ DOMAIN cbs' = DOMAIN cbs \cup {n}
        /\ n \notin DOMAIN cbs /\ cbs'[n] = x
        /\ \A i \in DOMAIN cbs : cbs'[i] = cbs[i]
    BY AppendIs
  <1> HIDE DEF n
  <1>2. /\ Own' = Own \cup {n} /\ n \notin Own
        /\ \A i \in Own : cbs'[i] = cbs[i]
    BY <1>1 DEF Own
  <1>3. \A r : r # x.rule => Mine(r)' = Mine(r)  BY <1>1, <1>2 DEF Mine
  <1>4. Mine(x.rule)' = Mine(x.rule) \cup {n}  BY <1>1, <1>2 DEF Mine
  <1>5. \A r : Mine(r) \subseteq Own  BY DEF Mine
  <1>6. ASSUME NEW r, r # x.rule
        PROVE  SeenOf(r)' = SeenOf(r) /\ (Distinct(r) => Distinct(r)')
    <2>1. Mine(r)' = Mine(r)  BY <1>3, <1>6
    <2>2. \A i \in Mine(r) : cbs'[i] = cbs[i]  BY <1>2, <1>5
    <2> QED  BY <2>1, <2>2 DEF SeenOf, Distinct
  <1>7. SeenOf(x.rule)' = SeenOf(x.rule) \cup {x.to}
    <2>1. \A i \in Mine(x.rule) : cbs'[i] = cbs[i]  BY <1>2, <1>5
    <2>2. SeenOf(x.rule)' = {cbs'[i].to : i \in Mine(x.rule) \cup {n}}  BY <1>4 DEF SeenOf
    <2>3. {cbs'[i].to : i \in Mine(x.rule) \cup {n}}
             = {cbs'[i].to : i \in Mine(x.rule)} \cup {cbs'[n].to}
      OBVIOUS
    <2>4. {cbs'[i].to : i \in Mine(x.rule)} = SeenOf(x.rule)  BY <2>1 DEF SeenOf
    <2> QED  BY <1>1, <2>2, <2>3, <2>4
  <1>8. ASSUME Distinct(x.rule), x.to \notin SeenOf(x.rule) PROVE Distinct(x.rule)'
    <2> SUFFICES ASSUME NEW i \in Mine(x.rule) \cup {n}, NEW j \in Mine(x.rule) \cup {n},
                        cbs'[i].to = cbs'[j].to
                 PROVE  i = j
      BY <1>4 DEF Distinct
    <2>1. \A k \in Mine(x.rule) : cbs'[k] = cbs[k] /\ cbs[k].to # x.to
      BY <1>2, <1>5, <1>8 DEF SeenOf
    <2>2. CASE i \in Mine(x.rule) /\ j \in Mine(x.rule)  BY <1>8, <2>1, <2>2 DEF Distinct
    <2>3. CASE i = n /\ j \in Mine(x.rule)  BY <1>1, <2>1, <2>3
    <2>4. CASE i \in Mine(x.rule) /\ j = n  BY <1>1, <2>1, <2>4
    <2> QED  BY <2>2, <2>3, <2>4
  <1>9. \E i \in Own' : cbs'[i].rule = x.rule  BY <1>1, <1>2
  <1> QED  BY <1>2, <1>6, <1>7, <1>8, <1>9

\* A callback for a match an earlier scan left behind.
LEMMA MineSame ==
    ASSUME TypeOK, NEW x \in Record, cbs' = Append(cbs, x), scan' = scan, x.scan # scan
    PROVE  /\ \A r : SeenOf(r)' = SeenOf(r) /\ (Distinct(r) => Distinct(r)')
           /\ \A i \in Own : i \in Own' /\ cbs'[i] = cbs[i]
  <1>1. /\ DOMAIN cbs' = DOMAIN cbs \cup {Len(cbs) + 1}
        /\ Len(cbs) + 1 \notin DOMAIN cbs /\ cbs'[Len(cbs) + 1] = x
        /\ \A i \in DOMAIN cbs : cbs'[i] = cbs[i]
    BY AppendIs
  <1>2. Own' = Own /\ \A i \in Own : cbs'[i] = cbs[i]  BY <1>1 DEF Own
  <1>3. \A r : Mine(r)' = Mine(r) /\ Mine(r) \subseteq Own  BY <1>2 DEF Mine
  <1>4. \A r : \A i \in Mine(r) : cbs'[i] = cbs[i]  BY <1>2, <1>3
  <1> QED  BY <1>2, <1>3, <1>4 DEF SeenOf, Distinct

LEMMA KeptCallback ==
    ASSUME IInv, OInv, Kept, NEW h \in BOOLEAN, Callback(h) PROVE Kept' /\ pc' # "idle"
  <1>q. PICK q : q = rep.rule  OBVIOUS
  <1> USE <1>q
  <1>0. TypeOK /\ Raised  BY DEF IInv, OInv, Bounds
  <1>1. /\ pc = "report" /\ q \in Main /\ InReport
        /\ stopped' = (stopped \/ h)
        /\ \/ h
           \/ evec' = markAsMatched(q) /\ pc' = OnHalt(q)
           \/ evec' = markAsMatched(q) /\ pc' = OnGoOn(q)
        /\ pc' = OnHalt(q) \/ pc' = OnGoOn(q)
        /\ UNCHANGED <<items, start, owner, scan, hits, db, len, pos, after, rep>>
    BY CallbackIs DEF InReport
  <1>2. PICK x \in Record : cbs' = Append(cbs, x) /\ x.rule = q /\ x.to = rep.to /\ x.scan = scan
    BY CallbackIs
  <1>3. /\ pc' \in {"done_scan", "comb_halt", "set_retval", "rose", "gate", "comb"}
        /\ pc' = "gate" => q = "zero"
        /\ pc' = "rose" => q = "rose"
        /\ pc' \in Quiescent => q # "rose"
        /\ pc' = OnGoOn(q) => \A r \in HitEngines : PastAt(pc', r) => Past(r)
    <2>1. /\ OnHalt(q) \in {"done_scan", "comb_halt", "set_retval"}
          /\ q = "rose" => OnHalt(q) = "done_scan"
          /\ q = "rose" => OnGoOn(q) = "rose"
          /\ q = "zero" => OnGoOn(q) = "gate"
          /\ q = "comb" => OnGoOn(q) = "comb"
          /\ q \in {"eod", "zeroEod"} => OnGoOn(q) = "set_retval"
      BY <1>1 DEF OnHalt, OnGoOn, Main
    <2>2. q \in {"rose", "zero", "zeroEod", "eod", "comb"}  BY <1>1 DEF Main
    <2>3. pc' = OnGoOn(q) => \A r \in HitEngines : PastAt(pc', r) => Past(r)
      BY <1>1, <2>1, <2>2 DEF PastAt, Past
    <2> QED  BY <1>1, <2>1, <2>2, <2>3 DEF Quiescent
  <1>4. ~InReport' /\ pc' \notin {"flush", "zero_eod", "idle"}  BY <1>3 DEF InReport
  <1>5. Found'
    <2>1. \A r \in Engines : NotYet(r)' => NotYet(r)
      BY <1>1, <1>3, <1>4 DEF NotYet
    <2> QED  BY <1>1, <1>4, <2>1, FoundStay DEF Kept
  <1>6. ASSUME Live' PROVE Lost'
    <2>1. Lost /\ ~h /\ evec' = markAsMatched(q)  BY <1>1, <1>6 DEF Kept, Live
    <2>2. ~RoseDue' /\ (RoseDue <=> q = "rose")  BY <1>1, <1>4 DEF RoseDue
    <2>3. /\ \A e \in Engines : Left(e)' = Left(e)
          /\ \A r \in HitEngines : Got(r)' = Got(r)
          /\ pos' = pos /\ hits' = hits
      BY <1>1, LeftSame, HitsStay
    <2>4. evec \subseteq evec' /\ (Keyed(q) => evec' = evec \cup {Ekey[q]})
          /\ (~Keyed(q) => evec' = evec)
      BY <2>1 DEF markAsMatched, Keyed
    <2>5. \A r \in HitEngines : On(r) => On(r)'  BY <2>4 DEF On, Keyed
    <2>6. /\ \A r : r # q => SeenOf(r)' = SeenOf(r) /\ (Distinct(r) => Distinct(r)')
          /\ SeenOf(q)' = SeenOf(q) \cup {rep.to}
          /\ Distinct(q) /\ rep.to \notin SeenOf(q) => Distinct(q)'
          /\ \A i \in Own : i \in Own' /\ cbs'[i] = cbs[i]
          /\ \E i \in Own' : cbs'[i].rule = q
      <3>1. scan' = scan  BY <1>1
      <3>2. /\ \A r : r # x.rule => SeenOf(r)' = SeenOf(r) /\ (Distinct(r) => Distinct(r)')
            /\ SeenOf(x.rule)' = SeenOf(x.rule) \cup {x.to}
            /\ Distinct(x.rule) /\ x.to \notin SeenOf(x.rule) => Distinct(x.rule)'
            /\ \A i \in Own : i \in Own' /\ cbs'[i] = cbs[i]
            /\ \E i \in Own' : cbs'[i].rule = x.rule
        BY <1>0, <1>2, <3>1, MineGrows
      <3>3. x.rule = q /\ x.to = rep.to  BY <1>2
      <3> QED  BY <3>2, <3>3
    <2>7. Calm' => \A e \in Engines : Left(e)' = {}
      <3>1. Calm' => Calm  BY <1>1, <1>3, <1>4 DEF Calm
      <3> QED  BY <2>1, <2>3, <3>1 DEF Lost
    <2>8. ASSUME NEW r \in HitEngines, Past(r)' PROVE pos'[r] = Len(hits'[r]) \/ On(r)'
      <3>1. PastAt(pc', r)  BY <1>4, <2>8 DEF Past
      <3>2. CASE pc' = OnGoOn(q)  BY <1>3, <2>1, <2>3, <2>5, <3>1, <3>2 DEF Lost
      <3>3. CASE pc' # OnGoOn(q)
        <4>1. isAllExhausted(evec')
          BY <2>1, <3>3 DEF Callback
        <4>2. CASE r \in db.has  BY <4>1, <4>2 DEF isAllExhausted, On, Keyed
        <4>3. CASE r \notin db.has
          <5>1. hits[r] = <<>>  BY <4>3 DEF Kept, Found
          <5> QED  BY <1>0, <2>3, <5>1, NoHits
        <4> QED  BY <4>2, <4>3
      <3> QED  BY <3>2, <3>3
    <2>9. ASSUME NEW r \in HitEngines, ~Keyed(r) PROVE Whole(r)'
      <3>1. Whole(r)  BY <2>1, <2>9 DEF Lost
      <3>2. CASE r # q
        <4>1. r = "rose" => ~RoseDue  BY <2>2, <3>2
        <4>2. Waiting(r)' = Waiting(r)
          BY <2>2, <2>3, <4>1 DEF Waiting, HitEngines, Engines
        <4> QED  BY <2>3, <2>6, <3>1, <3>2, <4>2 DEF Whole
      <3>3. CASE r = q
        <4>1. r = "rose"  BY <1>1, <3>3 DEF HitEngines, Main
        <4>2. Waiting(r) = {rep.to} /\ Waiting(r)' = {}
          BY <2>2, <3>3, <4>1 DEF Waiting
        <4>3. rep.to \notin SeenOf(r)  BY <3>1, <4>2 DEF Whole
        <4>4. SeenOf(r) \cup {rep.to} = Got(r) /\ Distinct(r)  BY <3>1, <4>2 DEF Whole
        <4>5. SeenOf(r)' = SeenOf(r) \cup {rep.to} /\ Distinct(r)'
          BY <2>6, <3>3, <4>3, <4>4
        <4>6. Got(r)' = Got(r)  BY <2>3
        <4>7. SeenOf(r)' \cup Waiting(r)' = Got(r)'  BY <4>2, <4>4, <4>5, <4>6
        <4>8. SeenOf(r)' \cap Waiting(r)' = {}  BY <4>2
        <4> QED  BY <4>5, <4>7, <4>8 DEF Whole
      <3> QED  BY <3>2, <3>3
    <2>10. ASSUME NEW r \in HitEngines, Keyed(r), pos'[r] > 0 PROVE On(r)'
      <3>1. On(r) \/ (r = "rose" /\ RoseDue)  BY <2>1, <2>3, <2>10 DEF Lost
      <3>2. r = q => On(r)'  BY <2>4, <2>10 DEF On, Keyed
      <3> QED  BY <2>2, <2>5, <3>1, <3>2
    <2>11. ASSUME NEW k \in evec'
           PROVE  \/ \E i \in Own' : Ekey[cbs'[i].rule] = k
                  \/ \E f \in Engines : Left(f)' # {} /\ Ekey[f] = k
      <3>1. CASE k \in evec
        <4>1. \/ \E i \in Own : Ekey[cbs[i].rule] = k
              \/ \E f \in Engines : Left(f) # {} /\ Ekey[f] = k
          BY <2>1, <3>1 DEF Lost
        <4> QED  BY <2>3, <2>6, <4>1
      <3>2. CASE k \notin evec
        <4>1. k = Ekey[q]  BY <2>4, <2>11, <3>2
        <4> QED  BY <2>6, <4>1
      <3> QED  BY <3>1, <3>2
    <2> QED  BY <2>7, <2>8, <2>9, <2>10, <2>11 DEF Lost, Keyed
  <1> QED  BY <1>4, <1>5, <1>6 DEF Kept

LEMMA KeptLilyCallback ==
    ASSUME IInv, OInv, Kept, NEW h \in BOOLEAN, LilyCallback(h) PROVE Kept' /\ pc' # "idle"
  <1>0. TypeOK /\ Raised  BY DEF IInv, OInv, Bounds
  <1>1. PICK e \in Engines, to \in 1 .. MaxOffset, x \in Record :
           /\ pc = "flush" /\ e = Q!Turn(lim) /\ to = items[e][start[e] + 1]
           /\ cbs' = Append(cbs, x) /\ x.rule = e /\ x.to = to /\ x.scan = owner[e]
           /\ stopped' = (stopped \/ h) /\ Q!Deliver(h)
           /\ UNCHANGED <<hits, scan, len, db, pc, pos, evec, rep, after, owner>>
    BY <1>0, LilyCallbackTurn
  <1>2. /\ owner[e] = scan => Left(e) = Left(e)' \cup {to} /\ to \notin Left(e)'
        /\ owner[e] # scan => Left(e)' = {} /\ Left(e) = {}
        /\ \A f \in Engines : f # e => Left(f)' = Left(f)
    <2>1. \A f \in Engines : Strict(f)  BY DEF OInv, Bounds
    <2>2. UNCHANGED <<owner, scan>>  BY <1>1
    <2> QED  BY <1>0, <1>1, <2>1, <2>2, LeftDeliver
  <1>3. /\ (InReport' <=> InReport) /\ (RoseDue' <=> RoseDue) /\ (Calm' <=> Calm)
        /\ \A r \in HitEngines : Past(r)' <=> Past(r)
        /\ \A r \in Engines : NotYet(r)' <=> NotYet(r)
    BY <1>1 DEF InReport, RoseDue, Calm, Past, PastAt, NotYet
  <1>4. Found'
    <2>1. \A r \in Engines : pos'[r] = pos[r]  BY <1>1
    <2> QED  BY <1>1, <1>3, <2>1, FoundStay DEF Kept
  <1>5. ASSUME Live' PROVE Lost'
    <2>1. Lost  BY <1>1, <1>5 DEF Kept, Live
    <2>2. /\ \A r \in HitEngines : Got(r)' = Got(r) /\ On(r)' = On(r)
          /\ pos' = pos /\ hits' = hits /\ evec' = evec /\ scan' = scan
      BY <1>1, HitsStay DEF On, Keyed
    <2>3. \A f \in Engines : Left(f)' \subseteq Left(f)  BY <1>2
    <2>4. Calm' => \A f \in Engines : Left(f)' = {}  BY <1>3, <2>1, <2>3 DEF Lost
    <2>5. e \in HitEngines /\ e # "rose"  BY DEF Engines, HitEngines
    <2>6. \A r \in HitEngines : r # e => Waiting(r)' = Waiting(r)
      BY <1>1, <1>2, <1>3 DEF Waiting, HitEngines, Engines
    <2>7. CASE owner[e] # scan
      <3>1. /\ \A r : SeenOf(r)' = SeenOf(r) /\ (Distinct(r) => Distinct(r)')
            /\ \A i \in Own : i \in Own' /\ cbs'[i] = cbs[i]
        BY <1>0, <1>1, <2>2, <2>7, MineSame
      <3>2. \A f \in Engines : Left(f)' = Left(f)  BY <1>2, <2>7
      <3>3. \A r \in HitEngines : Waiting(r)' = Waiting(r)
        BY <1>1, <1>3, <3>2 DEF Waiting, HitEngines, Engines
      <3>4. \A r \in HitEngines : Whole(r) => Whole(r)'
        BY <2>2, <3>1, <3>3 DEF Whole
      <3>5. ASSUME NEW k \in evec'
            PROVE  \/ \E i \in Own' : Ekey[cbs'[i].rule] = k
                   \/ \E f \in Engines : Left(f)' # {} /\ Ekey[f] = k
        BY <2>1, <2>2, <3>1, <3>2, <3>5 DEF Lost
      <3> QED  BY <1>3, <2>1, <2>2, <2>4, <3>4, <3>5 DEF Lost, Keyed
    <2>8. CASE owner[e] = scan
      <3>1. /\ \A r : r # e => SeenOf(r)' = SeenOf(r) /\ (Distinct(r) => Distinct(r)')
            /\ SeenOf(e)' = SeenOf(e) \cup {to}
            /\ Distinct(e) /\ to \notin SeenOf(e) => Distinct(e)'
            /\ \A i \in Own : i \in Own' /\ cbs'[i] = cbs[i]
            /\ \E i \in Own' : cbs'[i].rule = e
        BY <1>0, <1>1, <2>2, <2>8, MineGrows
      <3>2. Left(e) = Left(e)' \cup {to} /\ to \notin Left(e)'  BY <1>2, <2>8
      <3>3. ASSUME NEW r \in HitEngines, Whole(r) PROVE Whole(r)'
        <4>1. CASE r # e  BY <2>2, <2>6, <3>1, <3>3, <4>1 DEF Whole
        <4>2. CASE r = e
          <5>1. Waiting(e) = Left(e) /\ Waiting(e)' = Left(e)'  BY <2>5 DEF Waiting
          <5>2. to \notin SeenOf(e)  BY <3>2, <3>3, <4>2, <5>1 DEF Whole
          <5>3. /\ SeenOf(e)' \cup Waiting(e)' = SeenOf(e) \cup Waiting(e)
                /\ SeenOf(e) \cap Waiting(e) = {} => SeenOf(e)' \cap Waiting(e)' = {}
            BY <3>1, <3>2, <5>1
          <5> QED  BY <2>2, <2>5, <3>1, <3>3, <4>2, <5>2, <5>3 DEF Whole
        <4> QED  BY <4>1, <4>2
      <3>4. ASSUME NEW k \in evec'
            PROVE  \/ \E i \in Own' : Ekey[cbs'[i].rule] = k
                   \/ \E f \in Engines : Left(f)' # {} /\ Ekey[f] = k
        <4>1. \/ \E i \in Own : Ekey[cbs[i].rule] = k
              \/ \E f \in Engines : Left(f) # {} /\ Ekey[f] = k
          BY <2>1, <2>2, <3>4 DEF Lost
        <4>2. CASE \E i \in Own : Ekey[cbs[i].rule] = k  BY <3>1, <4>2
        <4>3. CASE \E f \in Engines : Left(f) # {} /\ Ekey[f] = k
          <5>1. PICK f \in Engines : Left(f) # {} /\ Ekey[f] = k  BY <4>3
          <5>2. CASE f = e  BY <3>1, <5>1, <5>2
          <5>3. CASE f # e  BY <1>2, <5>1, <5>3
          <5> QED  BY <5>2, <5>3
        <4> QED  BY <4>1, <4>2, <4>3
      <3> QED  BY <1>3, <2>1, <2>2, <2>4, <3>3, <3>4 DEF Lost, Keyed
    <2> QED  BY <2>7, <2>8
  <1>6. pc' # "idle"  BY <1>1
  <1> QED  BY <1>4, <1>5, <1>6 DEF Kept

LEMMA KeptEnginesDone == ASSUME IInv, Kept, EnginesDone PROVE Kept' /\ pc' # "idle"
  <1>1. pc = "engines_done" /\ pc \in Between  BY DEF EnginesDone, Between
  <1>2. CASE lilyed
    <2>1. /\ pc' = "done_scan" /\ stopped' = stopped
          /\ UNCHANGED <<db, len, hits, pos>>
      BY <1>2 DEF EnginesDone, Goto, svars, hist
    <2>2. stopped  BY <1>2 DEF IInv, Control
    <2>3. Found'  BY <2>1, FoundStay DEF Kept, NotYet, InReport
    <2> QED  BY <2>1, <2>2, <2>3 DEF Kept, Live
  <1>3. CASE ~lilyed
    <2>1. PICK l \in Between \ (Engines \cup {"zero", "zero_eod"}) : l = "rose"
      BY DEF Between, Engines
    <2>2. Goto(l)  BY <1>3, <2>1 DEF EnginesDone
    <2>3. \A r \in HitEngines : PastAt(l, r) => PastAt(pc, r)  BY <1>1, <2>1 DEF PastAt
    <2> QED  BY <1>1, <2>1, <2>2, <2>3, KeptGoto DEF Quiescent
  <1> QED  BY <1>2, <1>3

\* The main engine's report is taken in hand.
LEMMA KeptRoseRaise ==
    ASSUME IInv, OInv, Kept, NEW to \in 0 .. MaxOffset, to = Coming("rose"), Raise("rose", to),
           pc = "rose", More("rose"), pos' = [pos EXCEPT !["rose"] = @ + 1],
           UNCHANGED <<db, len, hits, evec, cbs, scan, stopped, owner>>
    PROVE  Kept' /\ pc' # "idle"
  <1>0. TypeOK /\ Raised /\ "rose" \in HitEngines /\ "rose" \in AllRules
    BY DEF IInv, OInv, Bounds, HitEngines, AllRules
  <1>1. /\ rep'.rule = "rose" /\ rep'.to = to /\ UNCHANGED <<items, start>>
        /\ \/ pc' = "flush" /\ after' = "report"
           \/ pc' = "report"
    BY <1>0, RaiseIs
  <1>2. /\ pos'["rose"] = pos["rose"] + 1 /\ Got("rose")' = Got("rose") \cup {to}
        /\ \A q \in HitEngines : q # "rose" => pos'[q] = pos[q] /\ Got(q)' = Got(q)
        /\ \A v \in Got("rose") : v < to
    BY <1>0, HitsAdvance
  <1>3. RoseDue' /\ ~RoseDue /\ ~InReport /\ InReport' /\ pc' # "idle"
    BY <1>1 DEF RoseDue, InReport
  <1>4. Found'
    <2>1. \A r \in Engines : ~NotYet(r)'  BY <1>1 DEF NotYet
    <2> QED  BY <1>1, <2>1, FoundStay DEF Kept
  <1>5. ASSUME Live' PROVE Lost'
    <2>1. Lost  BY <1>5 DEF Kept, Live
    <2>2. ~Calm'  BY <1>1 DEF Calm, Quiescent
    <2>3. \A f \in Engines : Left(f)' = Left(f)  BY <1>1, LeftSame
    <2>4. Own' = Own /\ cbs' = cbs /\ hits' = hits /\ evec' = evec  BY SeenSame
    <2>5. \A r \in HitEngines : Mine(r)' = Mine(r) /\ SeenOf(r)' = SeenOf(r) /\ On(r)' = On(r)
      BY <2>4 DEF On, Mine, SeenOf, Keyed
    <2>6. ASSUME NEW r \in HitEngines, Past(r)' PROVE pos'[r] = Len(hits'[r]) \/ On(r)'
      <3>1. r # "rose"  BY <1>1, <2>6 DEF Past, PastAt
      <3>2. Past(r)  BY <3>1 DEF Past, PastAt
      <3> QED  BY <1>2, <2>1, <2>4, <2>5, <3>1, <3>2 DEF Lost
    <2>7. ASSUME NEW r \in HitEngines, ~Keyed(r) PROVE Whole(r)'
      <3>1. Whole(r)  BY <2>1, <2>7 DEF Lost
      <3>2. Distinct(r)'  BY <2>4, <2>5, <3>1 DEF Whole, Distinct
      <3>3. CASE r # "rose"
        <4>1. Waiting(r)' = Waiting(r)  BY <2>3, <3>3 DEF Waiting, HitEngines, Engines
        <4> QED  BY <1>2, <2>5, <3>1, <3>2, <3>3, <4>1 DEF Whole
      <3>4. CASE r = "rose"
        <4>1. Waiting("rose") = {} /\ Waiting("rose")' = {to}  BY <1>1, <1>3 DEF Waiting
        <4>2. Got("rose") \subseteq Int  BY <1>0, HitsAre
        <4>3. to \notin Got("rose")  BY <1>2, <4>2
        <4>4. SeenOf("rose") = Got("rose")  BY <3>1, <3>4, <4>1 DEF Whole
        <4>5. SeenOf("rose")' = SeenOf("rose")  BY <1>0, <2>5
        <4> QED  BY <1>2, <3>2, <3>4, <4>1, <4>3, <4>4, <4>5 DEF Whole
      <3> QED  BY <3>3, <3>4
    <2>8. ASSUME NEW r \in HitEngines, Keyed(r), pos'[r] > 0
          PROVE  On(r)' \/ (r = "rose" /\ RoseDue')
      <3>1. CASE r = "rose"  BY <1>3, <3>1
      <3>2. CASE r # "rose"  BY <1>2, <2>1, <2>5, <2>8, <3>2 DEF Lost
      <3> QED  BY <3>1, <3>2
    <2> QED  BY <2>1, <2>2, <2>3, <2>4, <2>6, <2>7, <2>8 DEF Lost, Keyed
  <1> QED  BY <1>3, <1>4, <1>5 DEF Kept

LEMMA KeptRoseHit == ASSUME IInv, OInv, Kept, RoseHit PROVE Kept' /\ pc' # "idle"
  <1>0. TypeOK /\ Raised /\ "rose" \in HitEngines  BY DEF IInv, OInv, Bounds, HitEngines
  <1>1. /\ pc = "rose" /\ More("rose") /\ pos' = [pos EXCEPT !["rose"] = @ + 1]
        /\ UNCHANGED <<db, len, hits, evec, cbs, scan, stopped, owner>>
    BY DEF RoseHit, More, svars, hist
  <1>2. CASE isExhausted("rose") /\ UNCHANGED <<qvars, pc, rep, after>>
    <2>1. UNCHANGED <<items, start, pc, after, rep>> /\ pc' # "idle"  BY <1>1, <1>2 DEF qvars
    <2>2. On("rose")  BY <1>2 DEF isExhausted, On, Keyed
    <2> QED  BY <1>0, <1>1, <2>1, <2>2, KeptSkip
  <1>3. CASE Raise("rose", hits["rose"][pos["rose"] + 1])
    <2>1. Coming("rose") \in 1 .. MaxOffset  BY <1>0, <1>1, HitsAre
    <2>2. PICK to \in 0 .. MaxOffset : to = Coming("rose")  BY <2>1, ScanAssumption
    <2>3. Raise("rose", to)  BY <1>3, <2>2 DEF Coming
    <2> QED  BY <1>1, <2>2, <2>3, KeptRoseRaise
  <1> QED  BY <1>2, <1>3 DEF RoseHit

LEMMA KeptNoTable == ASSUME Kept, NoTable PROVE Kept' /\ pc' # "idle"
  <1>1. pc' = "crashed" /\ UNCHANGED <<db, len, hits, pos>>  BY DEF NoTable, Goto, svars
  <1>2. Found'  BY <1>1, FoundStay DEF Kept, NotYet, InReport
  <1> QED  BY <1>1, <1>2 DEF Kept, Live

LEMMA KeptDoneScan == ASSUME IInv, Kept, DoneScan PROVE Kept' /\ pc' # "idle"
  <1>1. /\ pc = "done_scan" /\ pc' = "flush" /\ after' = "flushed" /\ stopped' = stopped
        /\ UNCHANGED <<items, start, owner, cbs, scan, hits, len, pos, db, evec>>
    BY DEF DoneScan, Flush, Q!BeginFlush, svars, hist
  <1>2. Found'  BY <1>1, FoundStay DEF Kept, NotYet, InReport
  <1>3. ASSUME Live' PROVE Lost'
    <2>1. Lost  BY <1>1, <1>3 DEF Kept, Live
    <2>2. ~RoseDue /\ ~RoseDue' /\ ~Calm'  BY <1>1 DEF RoseDue, InReport, Calm, Quiescent
    <2>3. \A r \in HitEngines : Past(r)  BY <1>1 DEF Past, PastAt
    <2> QED  BY <1>1, <2>1, <2>2, <2>3, LostQuiet
  <1> QED  BY <1>1, <1>2, <1>3 DEF Kept

LEMMA KeptFlushEnd == ASSUME IInv, OInv, Kept, FlushEnd PROVE Kept' /\ pc' # "idle"
  <1>0. TypeOK /\ Raised  BY DEF IInv, OInv, Bounds
  <1>1. /\ pc = "flush" /\ after \in Engines \cup {"report", "flushed"}
        /\ after = "report" => rep.rule \in Main
        /\ after # "report" => lim = Q!All
        /\ halted => stopped
        /\ halted \/ \A e \in Engines : ~Q!Due(e, lim)
        /\ pc' = (IF after = "report" /\ halted THEN OnHalt(rep.rule) ELSE after)
        /\ pos' = (IF halted /\ after \in Engines
                   THEN [pos EXCEPT ![after] = Len(hits[after])] ELSE pos)
        /\ UNCHANGED <<items, start, owner, cbs, scan, hits, len, rep, after, db, evec, stopped>>
    BY FlushEndIs DEF IInv, Control, InReport
  <1>2. /\ after = "report" /\ halted => pc' \in {"done_scan", "comb_halt", "set_retval"}
        /\ after = "report" /\ ~halted => pc' = "report"
        /\ after # "report" => pc' = after
    BY <1>1 DEF OnHalt, Main
  <1>3. pc' \in {"done_scan", "comb_halt", "set_retval", "report", "lily", "teddy", "flushed"}
    BY <1>1, <1>2 DEF Engines
  <1>4. InReport' => InReport  BY <1>1, <1>2, <1>3 DEF InReport
  <1>5. Found'
    <2> SUFFICES ASSUME NEW r \in Engines, NotYet(r)' PROVE NotYet(r) /\ pos'[r] = pos[r]
      BY <1>1, <1>3, <1>4, FoundStay DEF Kept
    <2>1. CASE InReport' /\ rep'.rule = "zero"
      <3>1. after \notin Engines  BY <1>1, <1>2, <2>1 DEF InReport, Engines
      <3> QED  BY <1>1, <1>4, <2>1, <3>1 DEF NotYet
    <2>2. CASE ~(InReport' /\ rep'.rule = "zero")
      <3>1. r = "teddy" /\ pc' = "lily"  BY <1>3, <2>2 DEF NotYet
      <3>2. after = "lily"  BY <1>1, <1>2, <3>1
      <3>3. NotYet(r)  BY <1>1, <3>1, <3>2 DEF NotYet
      <3>4. pos'[r] = pos[r]
        <4>1. pos \in [HitEngines -> Nat] /\ r \in HitEngines /\ r # after
          BY <1>0, <3>1, <3>2 DEF TypeOK, HitEngines
        <4> QED  BY <1>1, <4>1
      <3> QED  BY <3>3, <3>4
    <2> QED  BY <2>1, <2>2
  <1>6. ASSUME Live' PROVE Lost'
    <2>1. ~halted /\ Lost  BY <1>1, <1>6 DEF Kept, Live
    <2>2. pos' = pos /\ pc' = after  BY <1>1, <2>1
    <2>3. InReport' <=> InReport  BY <1>1, <2>2 DEF InReport, Engines
    <2>4. Calm' => \A e \in Engines : Left(e) = {}
      <3>1. CASE after = "flushed"
        <4>1. Drained  BY <1>0, <1>1, <2>1, <3>1, FlushedAll
        <4>2. \A e \in Engines : start[e] >= Len(items[e])
          <5> SUFFICES ASSUME NEW e \in Engines PROVE start[e] >= Len(items[e])
            OBVIOUS
          <5>1. start[e] \in Nat /\ Len(items[e]) \in Nat  BY <1>0, QueueTypes
          <5>2. ~(start[e] < Len(items[e]))  BY <4>1 DEF Drained, Parked
          <5> QED  BY <5>1, <5>2
        <4> QED  BY <1>0, <4>2, LeftEmpty
      <3>2. CASE after # "flushed"
        <4>1. Calm' => Calm  BY <1>1, <2>2, <2>3, <3>2 DEF Calm, Quiescent, Engines
        <4> QED  BY <2>1, <4>1 DEF Lost
      <3> QED  BY <3>1, <3>2
    <2>5. \A r \in HitEngines : Past(r)' => Past(r)
      BY <1>1, <2>2, <2>3 DEF Past, PastAt, Engines
    <2> QED  BY <1>1, <2>1, <2>2, <2>3, <2>4, <2>5, LostQuiet DEF RoseDue
  <1> QED  BY <1>3, <1>5, <1>6 DEF Kept

\* What NothingLost says of rule r, in terms of SeenOf.
Exact(r) ==
    IF Ekey[r] = NoKey
    THEN SeenOf(r) = {hits[r][k] : k \in DOMAIN hits[r]} /\ Distinct(r)
    ELSE hits[r] # <<>> => \E i \in Own : cbs[i].rule \in SameKey(r)

LEMMA NothingLostIs ==
    /\ NothingLost <=> (Idle /\ ret = "SUCCESS" => \A r \in HitEngines : Exact(r))
    /\ NothingLost' <=> (Idle' /\ ret' = "SUCCESS" => \A r \in HitEngines : Exact(r)')
  BY DEF NothingLost, Exact, SeenOf, Distinct, Mine

LEMMA ExactSame == ASSUME UNCHANGED <<cbs, scan, hits>>, NEW r PROVE Exact(r)' = Exact(r)
  <1>1. Own' = Own /\ Mine(r)' = Mine(r)  BY DEF Own, Mine
  <1>2. SeenOf(r)' = SeenOf(r) /\ Distinct(r)' = Distinct(r)  BY <1>1 DEF SeenOf, Distinct
  <1> QED  BY <1>1, <1>2 DEF Exact

\* The scan returns.  With HS_SUCCESS it comes from the end, every engine is
\* done and nothing waits.
LEMMA KeptReturn ==
    ASSUME IInv, OInv, Kept, pc \in {"flushed", "comb", "comb_halt"}, NEW rv, Return(rv),
           rv = "SUCCESS" => pc = "comb" /\ ~told_to_stop_matching,
           UNCHANGED <<qvars, svars, pos, status, evec, lilyed, hist>>
    PROVE  Kept' /\ NothingLost'
  <1>0. TypeOK /\ Raised  BY DEF IInv, OInv, Bounds
  <1>1. /\ pc' = "idle" /\ ret' = rv /\ rep' = NoReport
        /\ UNCHANGED <<db, len, hits, pos, cbs, scan>>
    BY DEF Return, svars, hist
  <1>2. Found'  BY <1>1, FoundStay DEF Kept, NotYet, InReport
  <1>3. Kept'  BY <1>1, <1>2 DEF Kept, Live
  <1>5. NothingLost'
    <2> SUFFICES ASSUME rv = "SUCCESS", NEW r \in HitEngines
                 PROVE  Exact(r)
      <3>1. \A r \in HitEngines : Exact(r)' = Exact(r)  BY <1>1, ExactSame
      <3>2. NothingLost' <=> (Idle' /\ ret' = "SUCCESS" => \A r \in HitEngines : Exact(r)')
        BY NothingLostIs
      <3> QED  BY <1>1, <3>1, <3>2
    <2>1. pc = "comb" /\ ~stopped  BY DEF IInv, Control, told_to_stop_matching
    <2>2. Lost  BY <2>1 DEF Kept, Live
    <2>3. \A e \in Engines : Left(e) = {}  BY <2>1, <2>2 DEF Lost, Calm, Quiescent
    <2>4. pos[r] = Len(hits[r]) \/ On(r)  BY <2>1, <2>2 DEF Lost, Past, PastAt
    <2>5. hits[r] \in Seq(1 .. MaxOffset) /\ pos[r] \in Nat  BY <1>0 DEF TypeOK, Q!Offsets
    <2>6. CASE Ekey[r] = NoKey
      <3>1. Whole(r) /\ pos[r] = Len(hits[r])  BY <2>2, <2>4, <2>6 DEF Lost, Keyed, On
      <3>2. Waiting(r) = {}
        BY <2>1, <2>3 DEF Waiting, RoseDue, InReport, HitEngines, Engines
      <3>3. Got(r) = {hits[r][k] : k \in DOMAIN hits[r]}  BY <2>5, <3>1 DEF Got
      <3> QED  BY <2>6, <3>1, <3>2, <3>3 DEF Whole, Exact
    <2>7. CASE Ekey[r] # NoKey
      <3> SUFFICES ASSUME hits[r] # <<>> PROVE \E i \in Own : cbs[i].rule \in SameKey(r)
        BY <2>7 DEF Exact
      <3>1. Len(hits[r]) > 0  BY <2>5
      <3>2. pos[r] > 0 => On(r) \/ RoseDue  BY <2>2, <2>7 DEF Lost, Keyed
      <3>3. On(r)  BY <2>1, <2>4, <3>1, <3>2 DEF RoseDue, InReport
      <3>4. PICK i \in Own : Ekey[cbs[i].rule] = Ekey[r]  BY <2>2, <2>3, <3>3 DEF Lost, On
      <3>5. cbs[i].rule \in AllRules
        <4>1. cbs \in Seq(Record) /\ i \in 1 .. Len(cbs)  BY <1>0, CbsAre
        <4>2. cbs[i] \in Record  BY <4>1, ElementIs
        <4> QED  BY <4>2 DEF Record
      <3> QED  BY <3>4, <3>5 DEF SameKey
    <2> QED  BY <2>6, <2>7
  <1> QED  BY <1>3, <1>5

KInv == Kept /\ NothingLost

LEMMA KeptNext == ASSUME IInv, OInv, KInv, [Next]_vars PROVE KInv'
  <1>0. TypeOK /\ Kept /\ NothingLost /\ len \in 0 .. MaxOffset /\ Raised /\ 0 \in 0 .. MaxOffset
    <2>1. TypeOK  BY DEF IInv
    <2> QED  BY <2>1, ScanAssumption DEF TypeOK, OInv, Bounds, KInv
  <1>1. ASSUME Kept', pc' # "idle" PROVE KInv'
    BY <1>1 DEF KInv, NothingLost, Idle
  <1>2. ASSUME NEW l \in Between \ (Engines \cup {"zero", "zero_eod"}), Goto(l), pc \in Between,
               l \in Quiescent => pc \in Quiescent, l = "gate" => pc = "zero",
               l = "lily_done" => pc \in {"gate", "lily"},
               \A r \in HitEngines : PastAt(l, r) => PastAt(pc, r) \/ pos[r] = Len(hits[r])
        PROVE  KInv'
    BY <1>0, <1>1, <1>2, KeptGoto
  <1>3. \A r \in HitEngines : r \notin db.has \/ Outside(db, len) => pos[r] = Len(hits[r])
    <2> SUFFICES ASSUME NEW r \in HitEngines, r \notin db.has \/ Outside(db, len)
                 PROVE  pos[r] = Len(hits[r])
      OBVIOUS
    <2>1. hits[r] = <<>>  BY <1>0 DEF Kept, Found
    <2> QED  BY <1>0, <2>1, NoHits
  <1>4. CASE ScanBegin
    <2>1. Kept'  BY <1>4, KeptScanBegin
    <2>2. CASE pc' # "idle"  BY <1>1, <2>1, <2>2
    <2>3. CASE pc' = "idle"
      <3>1. \A r \in HitEngines : hits'[r] = <<>>  BY <1>4, <2>3, ScanBeginHits
      <3>2. cbs' = <<>>  BY <1>4, ScanBeginIs DEF IInv
      <3>3. Own' = {}  BY <3>2 DEF Own
      <3>4. NothingLost'  BY <3>1, <3>3 DEF NothingLost
      <3> QED  BY <2>1, <3>4 DEF KInv
    <2> QED  BY <2>2, <2>3
  <1>5. ASSUME NEW l \in {"zero_eod", "zero", "eod", "set_retval"}, pc = l,
               NEW r \in {"zeroEod", "zero", "eod", "comb"}, NEW to \in 0 .. MaxOffset, Raise(r, to),
               UNCHANGED <<svars, pos, inUse, status, evec, lilyed, ret, hist>>,
               r = "zeroEod" <=> l = "zero_eod", r = "zero" <=> l = "zero"
        PROVE  KInv'
    BY <1>0, <1>1, <1>5, KeptRaise
  <1>6. CASE ZeroEod
    <2>1. pc = "zero_eod" /\ pc \in Between  BY <1>6 DEF ZeroEod, Boundary, Between
    <2>2. \A r \in HitEngines : pos[r] = Len(hits[r])
      <3>1. len = 0  BY <1>0, <2>1 DEF Kept, Found
      <3> QED  BY <1>0, <3>1, NoHits
    <2>3. CASE Goto("set_retval")
      BY <1>2, <2>1, <2>2, <2>3 DEF Between, Engines, Quiescent
    <2>4. CASE /\ Raise("zeroEod", 0)
               /\ UNCHANGED <<svars, pos, inUse, status, evec, lilyed, ret, hist>>
      BY <1>0, <1>5, <2>1, <2>4
    <2> QED  BY <1>6, <2>3, <2>4 DEF ZeroEod, Boundary
  <1>7. CASE Zero
    <2>1. pc = "zero" /\ pc \in Between  BY <1>7 DEF Zero, Boundary, Between
    <2>2. CASE Goto("gate")
      BY <1>2, <2>1, <2>2 DEF Between, Engines, Quiescent, PastAt
    <2>3. CASE /\ Raise("zero", 0)
               /\ UNCHANGED <<svars, pos, inUse, status, evec, lilyed, ret, hist>>
      BY <1>0, <1>5, <2>1, <2>3
    <2> QED  BY <1>7, <2>2, <2>3 DEF Zero, Boundary
  <1>8. CASE Eod
    <2>1. pc = "eod" /\ pc \in Between  BY <1>8 DEF Eod, Boundary, Between
    <2>2. CASE Goto("set_retval")
      BY <1>2, <2>1, <2>2 DEF Between, Engines, Quiescent, PastAt
    <2>3. CASE /\ Raise("eod", len)
               /\ UNCHANGED <<svars, pos, inUse, status, evec, lilyed, ret, hist>>
      BY <1>0, <1>5, <2>1, <2>3
    <2> QED  BY <1>8, <2>2, <2>3 DEF Eod, Boundary
  <1>9. CASE Gate
    <2>1. pc = "gate" /\ pc \in Between /\ "lily" \in Engines
      BY <1>9 DEF Gate, Between, Engines
    <2>2. CASE Outside(db, len) /\ Goto("done_scan")
      BY <1>2, <1>3, <2>1, <2>2 DEF Between, Engines, Quiescent
    <2>3. CASE "lily" \notin db.has /\ Goto("lily_done")
      BY <1>2, <1>3, <2>1, <2>3 DEF Between, Engines, Quiescent, PastAt
    <2>4. CASE /\ Q!InitItems("lily") /\ pc' = "lily"
               /\ UNCHANGED <<svars, pos, inUse, status, evec, lilyed, rep, after, ret, hist>>
      BY <1>0, <1>1, <2>1, <2>4, KeptStart
    <2> QED  BY <1>9, <2>2, <2>3, <2>4 DEF Gate
  <1>10. ASSUME NEW e \in Engines, EngineHit(e) PROVE KInv'
    BY <1>0, <1>1, <1>10, KeptEngineHit
  <1>11. CASE LilyDone
    BY <1>2, <1>11 DEF LilyDone, Between, Engines, Quiescent, PastAt
  <1>12. CASE TeddyStart
    <2>1. pc = "lily_done" /\ pc \in Between /\ "teddy" \in Engines
      BY <1>12 DEF TeddyStart, Between, Engines
    <2>2. CASE "teddy" \notin db.has /\ Goto("engines_done")
      <3>1. \A r \in HitEngines : PastAt("engines_done", r) => PastAt(pc, r) \/ r = "teddy"
        BY <2>1 DEF PastAt, HitEngines
      <3> QED  BY <1>2, <1>3, <2>1, <2>2, <3>1 DEF Between, Engines, Quiescent
    <2>3. CASE /\ Q!InitItems("teddy") /\ pc' = "teddy"
               /\ UNCHANGED <<svars, pos, inUse, status, evec, lilyed, rep, after, ret, hist>>
      BY <1>0, <1>1, <2>1, <2>3, KeptStart
    <2> QED  BY <1>12, <2>2, <2>3 DEF TeddyStart
  <1>13. CASE TeddyDone
    <2>1. \A r \in HitEngines : PastAt("engines_done", r) => PastAt("teddy", r) \/ r = "teddy"
      BY DEF PastAt, HitEngines
    <2> QED  BY <1>2, <1>13, <2>1 DEF TeddyDone, Between, Engines, Quiescent
  <1>14. CASE EnginesDone  BY <1>0, <1>1, <1>14, KeptEnginesDone
  <1>15. CASE RoseHit  BY <1>0, <1>1, <1>15, KeptRoseHit
  <1>16. CASE RoseDone
    <2>1. \A r \in HitEngines : PastAt("done_scan", r) => PastAt("rose", r) \/ r = "rose"
      BY DEF PastAt, HitEngines
    <2> QED  BY <1>2, <1>16, <2>1 DEF RoseDone, Between, Engines, Quiescent
  <1>17. ASSUME NEW h \in BOOLEAN, Callback(h) PROVE KInv'  BY <1>0, <1>1, <1>17, KeptCallback
  <1>18. ASSUME NEW h \in BOOLEAN, LilyCallback(h) PROVE KInv'
    BY <1>0, <1>1, <1>18, KeptLilyCallback
  <1>19. CASE NoTable  BY <1>0, <1>1, <1>19, KeptNoTable
  <1>20. CASE FlushEnd  BY <1>0, <1>1, <1>20, KeptFlushEnd
  <1>21. CASE DoneScan  BY <1>0, <1>1, <1>21, KeptDoneScan
  <1>22. ASSUME pc \in {"flushed", "comb", "comb_halt"}, NEW rv, Return(rv),
                rv = "SUCCESS" => pc = "comb" /\ ~told_to_stop_matching,
                UNCHANGED <<qvars, svars, pos, status, evec, lilyed, hist>>
         PROVE  KInv'
    BY <1>0, <1>22, KeptReturn DEF KInv
  <1>23. CASE Flushed
    <2>1. pc = "flushed" /\ pc \in Between  BY <1>23 DEF Flushed, Between
    <2>2. CASE Goto("eod")
      BY <1>2, <2>1, <2>2 DEF Between, Engines, Quiescent, PastAt
    <2>3. CASE /\ Return("SCAN_TERMINATED")
               /\ UNCHANGED <<qvars, svars, pos, status, evec, lilyed, hist>>
      BY <1>22, <2>1, <2>3
    <2> QED  BY <1>23, <2>2, <2>3 DEF Flushed
  <1>24. CASE SetRetval
    <2>1. pc = "set_retval" /\ pc \in Between  BY <1>24 DEF SetRetval, Between
    <2>2. CASE Goto("comb")
      BY <1>2, <2>1, <2>2 DEF Between, Engines, Quiescent, PastAt
    <2>3. CASE /\ Raise("comb", len)
               /\ UNCHANGED <<svars, pos, inUse, status, evec, lilyed, ret, hist>>
      BY <1>0, <1>5, <2>1, <2>3
    <2> QED  BY <1>24, <2>2, <2>3 DEF SetRetval
  <1>25. CASE CombHalt  BY <1>22, <1>25 DEF CombHalt
  <1>26. CASE ScanEnd
    <2>1. PICK rv \in Errors : /\ rv = (IF told_to_stop_matching THEN "SCAN_TERMINATED" ELSE "SUCCESS")
                               /\ Return(rv)
      BY <1>26 DEF ScanEnd, Errors
    <2>2. rv = "SUCCESS" => ~told_to_stop_matching  BY <2>1
    <2> QED  BY <1>22, <1>26, <2>1, <2>2 DEF ScanEnd
  <1>27. CASE UNCHANGED vars
    <2>1. /\ UNCHANGED <<items, start, owner, cbs, scan, hits, len, pos, db, evec>>
          /\ UNCHANGED <<pc, after, rep, stopped, ret>>
      BY <1>27 DEF vars, qvars, svars, hist
    <2>2. /\ (InReport' <=> InReport) /\ (RoseDue' <=> RoseDue) /\ (Calm' <=> Calm)
          /\ \A r \in HitEngines : Past(r)' <=> Past(r)
          /\ \A r \in Engines : NotYet(r)' <=> NotYet(r)
      BY <2>1 DEF InReport, RoseDue, Calm, Past, PastAt, NotYet
    <2>3. Found'  BY <1>0, <2>1, <2>2, FoundStay DEF Kept
    <2>4. ASSUME Live' PROVE Lost'
      <3>1. Lost  BY <1>0, <2>1, <2>4 DEF Kept, Live
      <3>2. Calm' => \A e \in Engines : Left(e) = {}  BY <2>2, <3>1 DEF Lost
      <3> QED  BY <2>1, <2>2, <3>1, <3>2, LostQuiet
    <2>5. \A r \in HitEngines : Exact(r)' = Exact(r)  BY <2>1, ExactSame
    <2>6. NothingLost'
      <3>1. NothingLost' <=> (Idle' /\ ret' = "SUCCESS" => \A r \in HitEngines : Exact(r)')
        BY NothingLostIs
      <3> QED  BY <1>0, <2>1, <2>5, <3>1, NothingLostIs DEF Idle
    <2> QED  BY <2>3, <2>4, <2>6 DEF KInv, Kept
  <1> QED
    BY <1>4, <1>6, <1>7, <1>8, <1>9, <1>10, <1>11, <1>12, <1>13, <1>14, <1>15, <1>16, <1>17,
       <1>18, <1>19, <1>20, <1>21, <1>23, <1>24, <1>25, <1>26, <1>27
    DEF Next, ScanStep

LEMMA KeptInit == ASSUME Init PROVE KInv
  <1>1. /\ pc = "idle" /\ scan = 0 /\ rep = NoReport
        /\ \A r \in HitEngines : pos[r] = 0 /\ hits[r] = <<>>
    BY DEF Init
  <1>2. Found
    <2>1. ~InReport /\ pc # "zero_eod"  BY <1>1 DEF InReport
    <2> QED  BY <1>1, <2>1 DEF Found, Engines, HitEngines
  <1> QED  BY <1>1, <1>2 DEF KInv, Kept, Live, NothingLost, Idle

\* A scan that returns HS_SUCCESS has reported every match the engines found:
\* each one of an unkeyed rule exactly once, one for every key that had any,
\* whichever engine stopped early and however often the Lily queues
\* overflowed (hs_scan_internal, roseDeliverReport, flushStoredLilyMatches).
THEOREM EveryHitReported == Spec => []NothingLost
  <1>1. KInv => NothingLost  BY DEF KInv
  <1> QED
    BY <1>1, OrderInit, OrderNext, KeptInit, KeptNext, BlockScanInvariant, PTL DEF Spec
=============================================================================
