-------------------------- MODULE StreamRuntimeProof --------------------------
(***************************************************************************)
(* For any databases, automaton, number of streams, history length and     *)
(* bounds: the verdict of a scan, silence after the callback asked to      *)
(* stop, the history buffer and, in the AArch64 build, that a stream       *)
(* reports what one scan of all its data reports.                          *)
(*                                                                         *)
(* IInv relates what a stream has stored to what happened to it.  At rest  *)
(* a stream is marked as terminated exactly if its callback asked to stop, *)
(* and one that is not broken has its offset at the end of its data.       *)
(* While a call works on a stream the mark is in the status of the scratch *)
(* instead, and the offset stands before the chunk: what a nested call may *)
(* do to the other streams must not disturb either.                        *)
(*                                                                         *)
(* SInv relates what a stream has reported to the run of the NFA over all  *)
(* its data.  At rest that is all that is due of the data, and the stored  *)
(* state is the run at its end; a stream that is broken, and so scanned    *)
(* no more, has nothing due in whatever follows: its NFA is dead or all    *)
(* keys are on.  While the NFA runs it is all that is due up to the byte   *)
(* the NFA is at.  The run is a recursive function of the text; what it    *)
(* computes is shown by induction over the length (Climb).                 *)
(***************************************************************************)
EXTENDS StreamRuntime, WellFoundedInduction, TLAPS

Terminated(s) == "TERMINATED" \in st[s].status
Writing == pc \in {"zero", "exec"}

\* Where a call is, and on which streams it works.
CallShape ==
    /\ inUse = (pc # "idle")
    /\ Writing => /\ call.op \in {"scan", "vector"}
                  /\ st[call.s].status = {}
    /\ pc = "vector" => call.op = "vector"
    /\ pc \in {"eod", "eod_done"} => call.op \in {"vector", "close", "reset", "copy"}
    /\ pc # "idle" /\ call.op = "vector" => call.s = "bstate"
    /\ pc # "idle" /\ call.op # "vector" => call.s \in open
    /\ pc # "idle" /\ call.op = "copy" => call.from \in open /\ call.from # call.s
    /\ pc = "zero" => status = {}
    /\ pc = "exec" /\ status # {} => nfa = Dead

\* Stored marks and what the callback asked for.
Marks ==
    /\ \A s \in Streams :
          ~(s = call.s /\ pc \in {"exec", "eod_done"}) => (Terminated(s) <=> stopped[s])
    /\ pc = "exec" => ("TERMINATED" \in status <=> stopped[call.s])
    /\ \A s \in Streams \ open : ~stopped[s] /\ data[s] = <<>>

\* The same for the stream in the scratch, while hs_scan_vector runs.
VectorMarks ==
    pc # "idle" /\ call.op = "vector" =>
        /\ pc \in {"vector", "zero", "eod"} => ~stopped["bstate"]
        /\ pc \in {"vector", "eod"} => ~Terminated("bstate")
        /\ pc \in {"vector", "eod"} /\ st["bstate"].status # {}
               => status = st["bstate"].status
        /\ pc = "eod_done" => ("TERMINATED" \in status <=> stopped["bstate"])

\* What a call that is running has appended to the data of a stream.
Pending(s) == IF Writing /\ s = call.s THEN call.chunk ELSE <<>>

TailOf(x, d, c) ==
    /\ Len(d) = x.offset + Len(c)
    /\ \A i \in 1 .. HistoryRequired :
          i <= x.offset => x.history[HistoryRequired + 1 - i] = d[x.offset + 1 - i]
    /\ \A k \in 1 .. Len(c) : d[x.offset + k] = c[k]

Tails == \A s \in open : st[s].status = {} => TailOf(st[s], data[s], Pending(s))

IInv == TypeOK /\ CallShape /\ Marks /\ VectorMarks /\ ScanVerdict /\ Tails

----------------------------------------------------------------------------
(* Facts of the definitions *)

LEMMA Constants ==
    /\ Streams \subseteq Ids /\ "bstate" \in Ids /\ "bstate" \notin Streams
    /\ "none" \notin Ids
    /\ HistoryRequired \in Nat /\ MaxBlocks \in Nat
    /\ Start \in NfaState /\ Dead \in NfaState
    /\ \A q \in NfaState, b \in Byte : Delta[q][b] \in NfaState
  BY BoundAssumption, NfaAssumption DEF Ids

LEMMA FreshIs == /\ Fresh \in [1 .. HistoryRequired -> Byte \cup {Filler}]
                 /\ \A d \in Databases, h \in [1 .. HistoryRequired -> Byte \cup {Filler}] :
                       init_stream(d, h) \in StreamState
                 /\ Freed \in StreamState
  <1>1. Fresh \in [1 .. HistoryRequired -> Byte \cup {Filler}]  BY DEF Fresh
  <1>2. \A d \in Databases, h \in [1 .. HistoryRequired -> Byte \cup {Filler}] :
           init_stream(d, h) \in StreamState
    BY Constants DEF init_stream, StreamState
  <1>3. (CHOOSE d \in Databases : TRUE) \in Databases  BY DatabaseAssumption
  <1> QED  BY <1>1, <1>2, <1>3 DEF Freed

\* A stream that a chunk was appended to, once its history was maintained.
LEMMA TailMoves ==
    ASSUME NEW x \in StreamState, NEW y \in StreamState, NEW d \in Seq(Byte),
           NEW c \in Seq(Byte), TailOf(x, d, c),
           y.offset = x.offset + Len(c),
           y.history = maintainHistoryBuffer(x.history, c)
    PROVE  TailOf(y, d, <<>>)
  <1>1. x.offset \in Nat /\ Len(c) \in Nat /\ HistoryRequired \in Nat
    BY Constants DEF StreamState
  <1>2. Len(d) = y.offset + Len(<<>>)  BY <1>1 DEF TailOf
  <1>3. ASSUME NEW i \in 1 .. HistoryRequired, i <= y.offset
        PROVE  y.history[HistoryRequired + 1 - i] = d[y.offset + 1 - i]
    <2> DEFINE j == HistoryRequired + 1 - i
    <2>1. j \in 1 .. HistoryRequired /\ i \in Nat  BY <1>1
    <2>2. y.history[j] = IF j + Len(c) <= HistoryRequired THEN x.history[j + Len(c)]
                         ELSE c[j + Len(c) - HistoryRequired]
      BY <2>1 DEF maintainHistoryBuffer
    <2>3. CASE j + Len(c) <= HistoryRequired
      <3>1. i - Len(c) \in 1 .. HistoryRequired /\ i - Len(c) <= x.offset
        BY <1>1, <1>3, <2>1, <2>3
      <3>2. x.history[HistoryRequired + 1 - (i - Len(c))] = d[x.offset + 1 - (i - Len(c))]
        BY <3>1 DEF TailOf
      <3>3. /\ HistoryRequired + 1 - (i - Len(c)) = j + Len(c)
            /\ x.offset + 1 - (i - Len(c)) = y.offset + 1 - i
        BY <1>1, <2>1
      <3> QED  BY <2>2, <2>3, <3>2, <3>3
    <2>4. CASE ~(j + Len(c) <= HistoryRequired)
      <3>1. j + Len(c) - HistoryRequired \in 1 .. Len(c)  BY <1>1, <2>1, <2>4
      <3>2. d[x.offset + (j + Len(c) - HistoryRequired)] = c[j + Len(c) - HistoryRequired]
        BY <3>1 DEF TailOf
      <3>3. x.offset + (j + Len(c) - HistoryRequired) = y.offset + 1 - i
        BY <1>1, <2>1
      <3> QED  BY <2>2, <2>4, <3>2, <3>3
    <2> QED  BY <2>3, <2>4
  <1>4. \A k \in 1 .. Len(<<>>) : d[y.offset + k] = <<>>[k]  OBVIOUS
  <1> QED  BY <1>2, <1>3, <1>4 DEF TailOf

\* A chunk is appended to the data of a stream whose data ends at its offset.
LEMMA TailAppends ==
    ASSUME NEW x \in StreamState, NEW d \in Seq(Byte), NEW c \in Seq(Byte),
           TailOf(x, d, <<>>)
    PROVE  TailOf(x, d \o c, c)
  <1>1. x.offset \in Nat /\ x.offset = Len(d) /\ HistoryRequired \in Nat
    BY Constants DEF StreamState, TailOf
  <1>2. Len(d \o c) = x.offset + Len(c)  BY <1>1
  <1>3. \A i \in 1 .. HistoryRequired :
           i <= x.offset => (d \o c)[x.offset + 1 - i] = d[x.offset + 1 - i]
    BY <1>1
  <1>4. \A k \in 1 .. Len(c) : (d \o c)[x.offset + k] = c[k]  BY <1>1
  <1> QED  BY <1>2, <1>3, <1>4 DEF TailOf

LEMMA TailFresh == ASSUME NEW x \in StreamState, x.offset = 0
                   PROVE  TailOf(x, <<>>, <<>>)
  BY DEF TailOf, StreamState

\* The key a match adds to a stream is a key of its database.
LEMMA MarkedIs ==
    ASSUME TypeOK, NEW s \in Ids, NEW r, HasRule(s, r), NEW h \in BOOLEAN
    PROVE  /\ Marked(s, r, h) \in SUBSET Keys
           /\ Raised(s, r, h) \in SUBSET Flags
           /\ "TERMINATED" \in Raised(s, r, h) <=> h
  <1>1. st[s] \in StreamState  BY DEF TypeOK
  <1>2. st[s].db \in Databases /\ st[s].evec \in SUBSET Keys  BY <1>1 DEF StreamState
  <1>3. KeyOf(s, r) # NoKey => KeyOf(s, r) \in Keys
    <2> DEFINE of(d) == {d.key[q] : q \in DOMAIN d.key}
    <2>1. KeyOf(s, r) \in of(st[s].db)  BY DEF KeyOf, HasRule
    <2>2. of(st[s].db) \in {of(d) : d \in Databases}
      <3> HIDE DEF of
      <3> QED  BY <1>2
    <2>3. KeyOf(s, r) \in UNION {of(d) : d \in Databases}  BY <2>1, <2>2
    <2>4. Keys = (UNION {of(d) : d \in Databases}) \ {NoKey}  BY DEF Keys
    <2> HIDE DEF of
    <2> QED  BY <2>3, <2>4
  <1>4. Marked(s, r, h) \in SUBSET Keys  BY <1>2, <1>3 DEF Marked
  <1> QED  BY <1>4 DEF Raised, Flags

----------------------------------------------------------------------------
(* One write *)

LEMMA InitIInv == ASSUME Init PROVE IInv
  <1> USE Constants
  <1>1. TypeOK
    <2>1. st \in [Ids -> StreamState]  BY FreshIs DEF Init
    <2>2. call \in [op : Ops, s : Ids \cup {"none"}, from : Streams \cup {"none"},
                    chunk : Seq(Byte)]
      BY DEF Init, NoCall, Call, Ops
    <2>3. /\ data \in [Ids -> Seq(Byte)] /\ reported \in [Ids -> Seq(Event)]
          /\ stopped \in [Ids -> BOOLEAN]
      BY DEF Init
    <2> QED  BY <2>1, <2>2, <2>3 DEF Init, TypeOK, Labels
  <1>2. CallShape  BY DEF Init, CallShape, Writing
  <1>3. Marks
    <2>1. \A s \in Ids : st[s].status = {} /\ ~stopped[s] /\ data[s] = <<>>
      BY DEF Init, Freed, init_stream
    <2> QED  BY <2>1 DEF Init, Marks, Terminated
  <1>4. VectorMarks /\ ScanVerdict  BY DEF Init, VectorMarks, ScanVerdict, NoCall, Call
  <1>5. Tails  BY DEF Init, Tails
  <1> QED  BY <1>1, <1>2, <1>3, <1>4, <1>5 DEF IInv

\* What Leave leaves, given the verdict for the callback's wish.
LEMMA LeaveIs ==
    ASSUME TypeOK, NEW op \in {"scan", "vector"}, NEW s \in Ids,
           NEW rv \in {"SUCCESS", "SCAN_TERMINATED"}, Leave(op, s, rv)
    PROVE  /\ pc' \in {"idle", "vector"} /\ pc' \in Labels /\ ret' = rv
           /\ pc' = "vector" <=> (op = "vector" /\ rv = "SUCCESS")
           /\ inUse' = (pc' # "idle") /\ inUse' \in BOOLEAN
           /\ call'.op = op /\ call'.s = s /\ pos' \in Nat /\ nfa' \in NfaState
           /\ call' \in [op : Ops, s : Ids \cup {"none"}, from : Streams \cup {"none"},
                         chunk : Seq(Byte)]
           /\ ~Writing'
           /\ ret' \in {"SUCCESS", "SCAN_TERMINATED"}
  BY Constants DEF Leave, Call, Ops, Labels, Writing

\* A write begins, from an application's call or from hs_scan_vector.
LEMMA ScanInternalStep ==
    ASSUME IInv, NEW op \in {"scan", "vector"}, NEW s \in Ids, NEW c \in Seq(Byte),
           op = "scan" => pc = "idle" /\ s \in open,
           op = "vector" => pc = "vector" /\ s = "bstate",
           ScanInternal(op, s, c), todo' \in Nat
    PROVE  IInv'
  <1> USE Constants
  <1>0. TypeOK  BY DEF IInv
  <1>1. /\ st' = st /\ open' = open /\ reported' = reported /\ stopped' = stopped
        /\ data' \in [Ids -> Seq(Byte)] /\ data'[s] \in {data[s], data[s] \o c}
        /\ \A x \in Ids : x # s => data'[x] = data[x]
    BY <1>0 DEF ScanInternal, TypeOK
  <1>2. st[s] \in StreamState /\ open \subseteq Streams /\ status \subseteq Flags
        /\ st[s].status \subseteq Flags
    BY <1>0 DEF TypeOK, StreamState
  <1>3. Terminated(s) <=> stopped[s]
    <2>1. CASE op = "scan"
      <3>1. pc = "idle" /\ s \in Streams  BY <1>2, <2>1
      <3> QED  BY <3>1 DEF IInv, Marks
    <2>2. CASE op = "vector"
      <3>1. pc = "vector" /\ s = "bstate"  BY <2>2
      <3>2. call.op = "vector"  BY <3>1 DEF IInv, CallShape
      <3> QED  BY <3>1, <3>2 DEF IInv, VectorMarks
    <2> QED  BY <2>1, <2>2
  <1>4. ~Writing /\ pc \notin {"eod", "eod_done"}  BY DEF Writing
  <1>5. \A x \in Streams : Terminated(x) <=> stopped[x]
    BY <1>4 DEF IInv, Marks, Writing
  <1>6. \A x \in Streams \ open : ~stopped'[x] /\ data'[x] = <<>>
    <2>1. \A x \in Streams \ open : x # s  OBVIOUS
    <2> QED  BY <1>1, <2>1 DEF IInv, Marks
  <1>7. \A x \in open : st[x].status = {} => TailOf(st[x], data[x], <<>>)
    BY <1>4 DEF IInv, Tails, Pending
  <1>8. CASE st[s].status # {} \/ c = <<>>
    <2> DEFINE rv == IF Terminated(s) THEN "SCAN_TERMINATED" ELSE "SUCCESS"
    <2>1. Leave(op, s, rv) /\ status' = status
      BY <1>8 DEF ScanInternal, Broken, Terminated
    <2>2. /\ pc' \in {"idle", "vector"} /\ pc' \in Labels /\ ret' = rv
          /\ pc' = "vector" <=> (op = "vector" /\ rv = "SUCCESS")
          /\ inUse' = (pc' # "idle") /\ inUse' \in BOOLEAN
          /\ call'.op = op /\ call'.s = s /\ pos' \in Nat /\ nfa' \in NfaState
          /\ call' \in [op : Ops, s : Ids \cup {"none"}, from : Streams \cup {"none"},
                        chunk : Seq(Byte)]
          /\ ~Writing'
          /\ ret' \in {"SUCCESS", "SCAN_TERMINATED"}
      BY <1>0, <2>1, LeaveIs
    <2>3. TypeOK'  BY <1>0, <1>1, <2>1, <2>2 DEF TypeOK
    <2>4. CallShape'  BY <2>2 DEF CallShape, Writing
    <2>5. Marks'  BY <1>1, <1>5, <1>6, <2>2 DEF Marks, Terminated
    <2>6. ScanVerdict'  BY <1>1, <1>3, <2>2 DEF ScanVerdict
    <2>7. VectorMarks'
      <3>1. CASE op = "vector" /\ pc' = "vector"
        <4>1. ~Terminated(s) /\ ~stopped[s]  BY <1>3, <2>2, <3>1
        <4>2. pc = "vector" /\ s = "bstate" /\ call.op = "vector"
          BY <3>1 DEF IInv, CallShape
        <4>3. st["bstate"].status # {} => status = st["bstate"].status
          BY <4>2 DEF IInv, VectorMarks
        <4> QED  BY <1>1, <2>1, <2>2, <3>1, <4>1, <4>2, <4>3 DEF VectorMarks, Terminated
      <3>2. CASE ~(op = "vector" /\ pc' = "vector")
        BY <2>2, <3>2 DEF VectorMarks
      <3> QED  BY <3>1, <3>2
    <2>8. Tails'
      <3>1. ASSUME NEW x \in open, st[x].status = {}
            PROVE  TailOf(st[x], data'[x], <<>>)
        <4>1. TailOf(st[x], data[x], <<>>)  BY <1>7, <3>1
        <4>2. CASE x # s
          <5>1. data'[x] = data[x]  BY <1>1, <1>2, <4>2
          <5> QED  BY <4>1, <5>1
        <4>3. CASE x = s
          <5>1. c = <<>> /\ data[s] \in Seq(Byte)
            BY <1>0, <1>8, <3>1, <4>3 DEF TypeOK
          <5>2. data[s] \o <<>> = data[s]  BY <5>1
          <5> QED  BY <1>1, <4>1, <4>3, <5>1, <5>2
        <4> QED  BY <4>2, <4>3
      <3> QED  BY <1>1, <2>2, <3>1 DEF Tails, Pending
    <2> QED  BY <2>3, <2>4, <2>5, <2>6, <2>7, <2>8 DEF IInv
  <1>9. CASE st[s].status = {} /\ c # <<>>
    <2>1. /\ pc' = "zero" /\ inUse' = TRUE /\ status' = {}
          /\ call' = Call(op, s, "none", c)
          /\ UNCHANGED <<pos, nfa, ret>>
          /\ data' = [data EXCEPT ![s] = @ \o c]
      BY <1>9 DEF ScanInternal, Broken
    <2>2. /\ call'.op = op /\ call'.s = s /\ call'.chunk = c
          /\ call' \in [op : Ops, s : Ids \cup {"none"}, from : Streams \cup {"none"},
                        chunk : Seq(Byte)]
      BY <2>1 DEF Call, Ops
    <2>3. TypeOK'  BY <1>0, <1>1, <2>1, <2>2 DEF TypeOK, Labels
    <2>4. CallShape'  BY <1>1, <1>9, <2>1, <2>2 DEF CallShape, Writing
    <2>5. Marks'  BY <1>1, <1>5, <1>6, <2>1 DEF Marks, Terminated
    <2>6. ScanVerdict'  BY <2>1 DEF ScanVerdict
    <2>7. VectorMarks'
      <3>1. op = "vector" => ~stopped'["bstate"]
        BY <1>1, <1>3, <1>9 DEF Terminated
      <3> QED  BY <2>1, <2>2, <3>1 DEF VectorMarks
    <2>8. Tails'
      <3>1. ASSUME NEW x \in open, st[x].status = {}
            PROVE  TailOf(st[x], data'[x], IF x = s THEN c ELSE <<>>)
        <4>1. TailOf(st[x], data[x], <<>>)  BY <1>7, <3>1
        <4>2. st[x] \in StreamState /\ data[x] \in Seq(Byte) /\ x \in Ids
          BY <1>0, <1>2 DEF TypeOK
        <4>3. data'[x] = IF x = s THEN data[x] \o c ELSE data[x]
          BY <1>0, <2>1, <4>2 DEF TypeOK
        <4> QED  BY <4>1, <4>2, <4>3, TailAppends
      <3>2. Writing'  BY <2>1 DEF Writing
      <3> QED  BY <1>1, <2>2, <3>1, <3>2 DEF Tails, Pending
    <2> QED  BY <2>3, <2>4, <2>5, <2>6, <2>7, <2>8 DEF IInv
  <1> QED  BY <1>8, <1>9

LEMMA TailSame ==
    ASSUME NEW x, NEW y, NEW d, NEW c, TailOf(x, d, c),
           y.offset = x.offset, y.history = x.history
    PROVE  TailOf(y, d, c)
  BY DEF TailOf

\* What the invariant says of the stream a write works on.
LEMMA WritingIs ==
    ASSUME IInv, Writing
    PROVE  /\ call.s \in Ids /\ call.op \in {"scan", "vector"}
           /\ call.chunk \in Seq(Byte)
           /\ st[call.s] \in StreamState /\ st[call.s].status = {}
           /\ pc = "zero" => ~stopped[call.s]
           /\ pc = "exec" => ("TERMINATED" \in status <=> stopped[call.s])
           /\ call.s \in open => TailOf(st[call.s], data[call.s], call.chunk)
           /\ \A x \in open : x # call.s /\ st[x].status = {}
                                 => TailOf(st[x], data[x], <<>>)
           /\ \A x \in Streams : x # call.s => (Terminated(x) <=> stopped[x])
           /\ call.op = "scan" => call.s \in open
           /\ call.op = "vector" => call.s = "bstate"
  <1> USE Constants
  <1>1. /\ call.op \in {"scan", "vector"} /\ st[call.s].status = {} /\ pc # "idle"
        /\ call.op = "scan" => call.s \in open
        /\ call.op = "vector" => call.s = "bstate"
    BY DEF IInv, CallShape, Writing
  <1>2. call.s \in Ids /\ call.chunk \in Seq(Byte) /\ open \subseteq Streams
    BY <1>1 DEF IInv, TypeOK
  <1>3. st[call.s] \in StreamState  BY <1>2 DEF IInv, TypeOK
  <1>4. pc = "zero" => ~stopped[call.s]
    <2>1. CASE call.op = "scan"
      BY <1>1, <1>2, <2>1 DEF IInv, Marks, Terminated
    <2>2. CASE call.op = "vector"
      BY <1>1, <2>2 DEF IInv, VectorMarks
    <2> QED  BY <1>1, <2>1, <2>2
  <1>5. pc = "exec" => ("TERMINATED" \in status <=> stopped[call.s])
    BY DEF IInv, Marks
  <1>6. \A x \in open : st[x].status = {}
                           => TailOf(st[x], data[x], IF x = call.s THEN call.chunk ELSE <<>>)
    BY DEF IInv, Tails, Pending
  <1>7. \A x \in Streams : x # call.s => (Terminated(x) <=> stopped[x])
    BY DEF IInv, Marks
  <1> QED  BY <1>1, <1>2, <1>3, <1>4, <1>5, <1>6, <1>7

\* The keys that are on change; nothing else of the stream does.
LEMMA EvecIs ==
    ASSUME TypeOK, NEW s \in Ids, NEW ev \in SUBSET Keys,
           st' = [st EXCEPT ![s].evec = ev]
    PROVE  /\ st' \in [Ids -> StreamState]
           /\ \A x \in Ids : /\ st'[x].status = st[x].status
                             /\ st'[x].offset = st[x].offset
                             /\ st'[x].history = st[x].history
                             /\ st'[x].db = st[x].db
  <1>1. \A x \in Ids : st[x] \in StreamState  BY DEF TypeOK
  <1>2. st'[s] = [st[s] EXCEPT !.evec = ev]  BY DEF TypeOK
  <1>3. \A x \in Ids : x # s => st'[x] = st[x]  BY DEF TypeOK
  <1>4. /\ st'[s] \in StreamState
        /\ st'[s].status = st[s].status /\ st'[s].offset = st[s].offset
        /\ st'[s].history = st[s].history /\ st'[s].db = st[s].db
    BY <1>1, <1>2 DEF StreamState
  <1>5. st' \in [Ids -> StreamState]  BY <1>1, <1>3, <1>4 DEF TypeOK
  <1> QED  BY <1>3, <1>4, <1>5

LEMMA CallbackIs ==
    ASSUME TypeOK, NEW s \in Ids, NEW r \in AllRules, NEW to \in Nat, NEW h \in BOOLEAN,
           Callback(s, r, to, h)
    PROVE  /\ reported' \in [Ids -> Seq(Event)] /\ stopped' \in [Ids -> BOOLEAN]
           /\ stopped'[s] <=> (stopped[s] \/ h)
           /\ \A x \in Ids : x # s => stopped'[x] = stopped[x] /\ reported'[x] = reported[x]
  <1>1. [rule |-> r, to |-> to] \in Event  BY DEF Event
  <1>2. Append(reported[s], [rule |-> r, to |-> to]) \in Seq(Event)  BY <1>1 DEF TypeOK
  <1>3. reported' \in [Ids -> Seq(Event)]  BY <1>2 DEF Callback, TypeOK
  <1>4. /\ stopped' \in [Ids -> BOOLEAN]
        /\ stopped'[s] <=> (stopped[s] \/ h)
        /\ \A x \in Ids : x # s => stopped'[x] = stopped[x] /\ reported'[x] = reported[x]
    BY DEF Callback, TypeOK
  <1> QED  BY <1>3, <1>4

LEMMA ZeroReportStep == ASSUME IInv, NEW h \in BOOLEAN, ZeroReport(h) PROVE IInv'
  <1> USE Constants
  <1> DEFINE s == call.s
             flags == Raised(s, "zero", h)
  <1>0. TypeOK /\ Writing  BY DEF IInv, ZeroReport, Writing
  <1>1. /\ s \in Ids /\ call.op \in {"scan", "vector"}
        /\ st[s] \in StreamState /\ st[s].status = {} /\ ~stopped[s] /\ status = {}
        /\ pc = "zero" /\ HasRule(s, "zero") /\ Callback(s, "zero", 0, h)
        /\ UNCHANGED <<open, todo, data>>
    BY <1>0, WritingIs DEF ZeroReport, ZeroDue, IInv, CallShape
  <1>2. /\ reported' \in [Ids -> Seq(Event)] /\ stopped' \in [Ids -> BOOLEAN]
        /\ stopped'[s] <=> h
        /\ \A x \in Ids : x # s => stopped'[x] = stopped[x]
    BY <1>0, <1>1, CallbackIs DEF AllRules
  <1>3. /\ Marked(s, "zero", h) \in SUBSET Keys /\ flags \in SUBSET Flags
        /\ "TERMINATED" \in flags <=> h
    BY <1>0, <1>1, MarkedIs
  <1>4. status' = flags  BY <1>1 DEF ZeroReport
  <1>5. open \subseteq Streams /\ \A x \in Streams \ open : ~stopped[x] /\ data[x] = <<>>
    BY <1>0 DEF TypeOK, IInv, Marks
  <1>6. s \in Streams => s \in open  BY <1>0, WritingIs
  <1>7. CASE flags # {}
    <2> DEFINE rv == IF h THEN "SCAN_TERMINATED" ELSE "SUCCESS"
    <2>1. /\ st' = [st EXCEPT ![s].evec = Marked(s, "zero", h), ![s].status = flags]
          /\ Leave(call.op, s, rv)
      BY <1>1, <1>7 DEF ZeroReport, Broken
    <2>2. /\ pc' \in {"idle", "vector"} /\ pc' \in Labels /\ ret' = rv
          /\ pc' = "vector" <=> (call.op = "vector" /\ rv = "SUCCESS")
          /\ inUse' = (pc' # "idle") /\ inUse' \in BOOLEAN
          /\ call'.op = call.op /\ call'.s = s /\ pos' \in Nat /\ nfa' \in NfaState
          /\ call' \in [op : Ops, s : Ids \cup {"none"}, from : Streams \cup {"none"},
                        chunk : Seq(Byte)]
          /\ ~Writing'
          /\ ret' \in {"SUCCESS", "SCAN_TERMINATED"}
      BY <1>0, <1>1, <2>1, LeaveIs
    <2>3. /\ st'[s] = [st[s] EXCEPT !.evec = Marked(s, "zero", h), !.status = flags]
          /\ \A x \in Ids : x # s => st'[x] = st[x]
          /\ DOMAIN st' = Ids
      BY <1>0, <1>1, <2>1 DEF TypeOK
    <2>4. st'[s] \in StreamState /\ st'[s].status = flags
      BY <1>1, <1>3, <2>3 DEF StreamState
    <2>5. st' \in [Ids -> StreamState]  BY <1>0, <1>1, <2>1, <2>3, <2>4 DEF TypeOK
    <2>6. TypeOK'  BY <1>0, <1>1, <1>2, <1>3, <1>4, <2>2, <2>5 DEF TypeOK
    <2>7. CallShape'
      <3>1. pc' = "vector" => call'.op = "vector" /\ call'.s = "bstate"
        BY <1>0, <2>2, WritingIs
      <3> QED  BY <2>2, <3>1 DEF CallShape, Writing
    <2>8. Marks'
      <3>1. ASSUME NEW x \in Streams PROVE Terminated(x)' <=> stopped'[x]
        <4>1. CASE x = s  BY <1>2, <1>3, <2>4, <4>1 DEF Terminated
        <4>2. CASE x # s
          <5>1. Terminated(x) <=> stopped[x]  BY <1>0, <4>2, WritingIs
          <5> QED  BY <1>2, <2>3, <4>2, <5>1 DEF Terminated
        <4> QED  BY <4>1, <4>2
      <3>2. \A x \in Streams \ open : ~stopped'[x] /\ data'[x] = <<>>
        BY <1>1, <1>2, <1>5, <1>6
      <3> QED  BY <1>1, <2>2, <3>1, <3>2 DEF Marks
    <2>9. VectorMarks'
      <3>1. CASE pc' = "vector"
        <4>1. s = "bstate" /\ ~h  BY <1>0, <2>2, <3>1, WritingIs
        <4> QED  BY <1>2, <1>3, <1>4, <2>2, <2>4, <3>1, <4>1 DEF VectorMarks, Terminated
      <3>2. CASE pc' # "vector"  BY <2>2, <3>2 DEF VectorMarks
      <3> QED  BY <3>1, <3>2
    <2>10. ScanVerdict'  BY <1>2, <2>2 DEF ScanVerdict
    <2>11. Tails'
      <3>1. ASSUME NEW x \in open, st'[x].status = {}
            PROVE  TailOf(st'[x], data'[x], <<>>)
        <4>1. x # s /\ x \in Ids  BY <1>5, <1>7, <2>4, <3>1
        <4> QED  BY <1>0, <1>1, <2>3, <3>1, <4>1, WritingIs
      <3> QED  BY <1>1, <2>2, <3>1 DEF Tails, Pending
    <2> QED  BY <2>6, <2>7, <2>8, <2>9, <2>10, <2>11 DEF IInv
  <1>8. CASE flags = {}
    <2>1. /\ st' = [st EXCEPT ![s].evec = Marked(s, "zero", h)]
          /\ BeginExec(s) /\ UNCHANGED <<inUse, ret, call>>
      BY <1>1, <1>8 DEF ZeroReport, Broken
    <2>2. pc' = "exec" /\ pos' = 0 /\ nfa' \in NfaState
      BY <1>1, <2>1 DEF BeginExec, StreamState
    <2>3. /\ st' \in [Ids -> StreamState]
          /\ \A x \in Ids : /\ st'[x].status = st[x].status
                            /\ st'[x].offset = st[x].offset
                            /\ st'[x].history = st[x].history
      BY <1>0, <1>1, <1>3, <2>1, EvecIs
    <2>4. ~h /\ status' = {}  BY <1>3, <1>4, <1>8
    <2>5. TypeOK'  BY <1>0, <1>1, <1>2, <2>1, <2>2, <2>3, <2>4 DEF TypeOK, Labels
    <2>6. CallShape'
      BY <1>0, <1>1, <2>1, <2>2, <2>3, <2>4, WritingIs DEF CallShape, Writing, IInv
    <2>7. Marks'
      <3>1. \A x \in Streams : x # s => (Terminated(x)' <=> stopped'[x])
        BY <1>0, <1>2, <2>3, WritingIs DEF Terminated
      <3>2. \A x \in Streams \ open : ~stopped'[x] /\ data'[x] = <<>>
        BY <1>1, <1>2, <1>5, <1>6
      <3> QED  BY <1>1, <1>2, <2>1, <2>2, <2>4, <3>1, <3>2 DEF Marks
    <2>8. VectorMarks' /\ ScanVerdict'  BY <2>2 DEF VectorMarks, ScanVerdict
    <2>9. Tails'
      <3>1. ASSUME NEW x \in open, st'[x].status = {}
            PROVE  TailOf(st'[x], data'[x], IF x = s THEN call.chunk ELSE <<>>)
        <4>1. x \in Ids  BY <1>5
        <4>2. TailOf(st[x], data[x], IF x = s THEN call.chunk ELSE <<>>)
          BY <1>0, <2>3, <3>1, <4>1, WritingIs
        <4> QED  BY <1>1, <2>3, <4>1, <4>2, TailSame
      <3>2. Writing'  BY <2>2 DEF Writing
      <3> QED  BY <1>1, <2>1, <3>1, <3>2 DEF Tails, Pending
    <2> QED  BY <2>5, <2>6, <2>7, <2>8, <2>9 DEF IInv
  <1> QED  BY <1>7, <1>8

LEMMA ZeroNoneStep == ASSUME IInv, ZeroNone PROVE IInv'
  <1> USE Constants
  <1>0. TypeOK /\ Writing /\ pc = "zero" /\ status = {}
    BY DEF IInv, ZeroNone, Writing, CallShape
  <1>1. /\ pc' = "exec" /\ pos' = 0 /\ nfa' \in NfaState
        /\ UNCHANGED <<st, open, inUse, status, call, todo, ret, hist>>
    BY <1>0, WritingIs DEF ZeroNone, BeginExec, StreamState
  <1>2. TypeOK'  BY <1>0, <1>1 DEF TypeOK, Labels, hist
  <1>3. CallShape'  BY <1>0, <1>1 DEF IInv, CallShape, Writing
  <1>4. Marks'
    <2>1. \A x \in Streams : x # call.s => (Terminated(x) <=> stopped[x])
      BY <1>0, WritingIs
    <2>2. ~stopped[call.s]  BY <1>0, WritingIs
    <2>3. \A x \in Streams \ open : ~stopped[x] /\ data[x] = <<>>  BY DEF IInv, Marks
    <2> QED  BY <1>0, <1>1, <2>1, <2>2, <2>3 DEF Marks, Terminated, hist
  <1>5. VectorMarks' /\ ScanVerdict'  BY <1>1 DEF VectorMarks, ScanVerdict
  <1>6. Tails'  BY <1>0, <1>1 DEF IInv, Tails, Pending, Writing, hist
  <1> QED  BY <1>2, <1>3, <1>4, <1>5, <1>6 DEF IInv

\* The state the NFA moves to.
LEMMA NextIs ==
    ASSUME IInv, pc = "exec", Running
    PROVE  NextState \in NfaState /\ pos + 1 \in Nat /\ status = {} /\ nfa # Dead
  <1>1. Writing  BY DEF Writing
  <1>2. call.chunk \in Seq(Byte) /\ pos \in Nat /\ nfa \in NfaState
    BY <1>1, WritingIs DEF IInv, TypeOK
  <1>3. call.chunk[pos + 1] \in Byte  BY <1>2 DEF Running
  <1> QED  BY <1>2, <1>3, Constants DEF NextState, Running, IInv, CallShape

LEMMA ExecByteStep == ASSUME IInv, ExecByte PROVE IInv'
  <1>1. /\ pc = "exec" /\ Running /\ pos' = pos + 1 /\ nfa' = NextState
        /\ UNCHANGED <<st, open, inUse, status, pc, call, todo, ret, hist>>
    BY DEF ExecByte
  <1>2. nfa' \in NfaState /\ pos' \in Nat /\ status = {}  BY <1>1, NextIs
  <1>3. TypeOK'  BY <1>1, <1>2 DEF IInv, TypeOK, hist
  <1>4. CallShape'  BY <1>1, <1>2 DEF IInv, CallShape, Writing
  <1>5. Marks' /\ VectorMarks' /\ ScanVerdict' /\ Tails'
    BY <1>1 DEF IInv, Marks, VectorMarks, ScanVerdict, Tails, Pending, Writing, Terminated, hist
  <1> QED  BY <1>3, <1>4, <1>5 DEF IInv

LEMMA ExecReportStep == ASSUME IInv, NEW h \in BOOLEAN, ExecReport(h) PROVE IInv'
  <1> USE Constants
  <1> DEFINE s == call.s
             flags == Raised(s, "fa", h)
  <1>0. TypeOK /\ Writing /\ pc = "exec" /\ Running
    BY DEF IInv, ExecReport, Writing
  <1>1. /\ s \in Ids /\ st[s] \in StreamState /\ st[s].status = {}
        /\ status = {} /\ ~stopped[s] /\ pos + 1 \in Nat /\ NextState \in NfaState
    BY <1>0, WritingIs, NextIs
  <1>2. HasRule(s, "fa")  BY <1>1, DatabaseAssumption DEF HasRule, StreamState
  <1>3. st[s].offset + pos + 1 \in Nat
    BY <1>0, <1>1 DEF StreamState, TypeOK
  <1>4. /\ Callback(s, "fa", st[s].offset + pos + 1, h)
        /\ st' = [st EXCEPT ![s].evec = Marked(s, "fa", h)]
        /\ pos' = pos + 1
        /\ nfa' = IF Broken(status') THEN Dead ELSE NextState
        /\ UNCHANGED <<open, inUse, pc, call, todo, ret, data>>
        /\ status' = flags
    BY <1>1 DEF ExecReport
  <1>5. /\ reported' \in [Ids -> Seq(Event)] /\ stopped' \in [Ids -> BOOLEAN]
        /\ stopped'[s] <=> h
        /\ \A x \in Ids : x # s => stopped'[x] = stopped[x]
    BY <1>0, <1>1, <1>3, <1>4, CallbackIs DEF AllRules
  <1>6. /\ Marked(s, "fa", h) \in SUBSET Keys /\ flags \in SUBSET Flags
        /\ "TERMINATED" \in flags <=> h
    BY <1>0, <1>1, <1>2, MarkedIs
  <1>7. /\ st' \in [Ids -> StreamState]
        /\ \A x \in Ids : /\ st'[x].status = st[x].status
                          /\ st'[x].offset = st[x].offset
                          /\ st'[x].history = st[x].history
    BY <1>0, <1>1, <1>4, <1>6, EvecIs
  <1>8. open \subseteq Streams /\ \A x \in Streams \ open : ~stopped[x] /\ data[x] = <<>>
    BY <1>0 DEF TypeOK, IInv, Marks
  <1>9. s \in Streams => s \in open  BY <1>0, WritingIs
  <1>10. TypeOK'  BY <1>0, <1>1, <1>4, <1>5, <1>6, <1>7 DEF TypeOK
  <1>11. CallShape'
    BY <1>0, <1>1, <1>4, <1>7 DEF IInv, CallShape, Writing, Broken
  <1>12. Marks'
    <2>1. \A x \in Streams : x # s => (Terminated(x)' <=> stopped'[x])
      BY <1>0, <1>5, <1>7, WritingIs DEF Terminated
    <2>2. \A x \in Streams \ open : ~stopped'[x] /\ data'[x] = <<>>
      BY <1>4, <1>5, <1>8, <1>9
    <2> QED  BY <1>0, <1>4, <1>5, <1>6, <2>1, <2>2 DEF Marks
  <1>13. VectorMarks' /\ ScanVerdict'  BY <1>0, <1>4 DEF VectorMarks, ScanVerdict
  <1>14. Tails'
    <2>1. ASSUME NEW x \in open, st'[x].status = {}
          PROVE  TailOf(st'[x], data'[x], IF x = s THEN call.chunk ELSE <<>>)
      <3>1. x \in Ids  BY <1>8
      <3>2. TailOf(st[x], data[x], IF x = s THEN call.chunk ELSE <<>>)
        BY <1>0, <1>7, <2>1, <3>1, WritingIs
      <3> QED  BY <1>4, <1>7, <3>1, <3>2, TailSame
    <2>2. Writing'  BY <1>0, <1>4 DEF Writing
    <2> QED  BY <1>4, <2>1, <2>2 DEF Tails, Pending
  <1> QED  BY <1>10, <1>11, <1>12, <1>13, <1>14 DEF IInv

LEMMA ExecDoneStep == ASSUME IInv, ExecDone PROVE IInv'
  <1> USE Constants
  <1> DEFINE s == call.s
             flags == AfterExec(s, ExecFlags)
             rv == IF "TERMINATED" \in flags THEN "SCAN_TERMINATED" ELSE "SUCCESS"
             new == [st[s] EXCEPT
                        !.nfa = IF nfa # Dead THEN nfa ELSE @,
                        !.status = flags,
                        !.history = IF flags # {} THEN @ ELSE maintainHistoryBuffer(@, call.chunk),
                        !.offset = IF flags # {} THEN @ ELSE @ + Len(call.chunk)]
  <1>0. TypeOK /\ Writing /\ pc = "exec"  BY DEF IInv, ExecDone, Writing
  <1>1. /\ s \in Ids /\ st[s] \in StreamState /\ call.op \in {"scan", "vector"}
        /\ call.chunk \in Seq(Byte) /\ Len(call.chunk) \in Nat
        /\ "TERMINATED" \in status <=> stopped[s]
    BY <1>0, WritingIs
  <1>2. flags \in SUBSET Flags /\ ("TERMINATED" \in flags <=> stopped[s])
    <2>1. ExecFlags \in SUBSET Flags /\ ("TERMINATED" \in ExecFlags <=> stopped[s])
      BY <1>0, <1>1 DEF ExecFlags, Flags, TypeOK
    <2> QED  BY <2>1 DEF AfterExec, Flags
  <1>3. /\ status' = flags /\ st' = [st EXCEPT ![s] = new]
        /\ Leave(call.op, s, rv) /\ UNCHANGED <<open, todo, hist>>
    BY DEF ExecDone, Stored, Broken
  <1> HIDE DEF flags
  <1>4. \A c \in Seq(Byte), g \in [1 .. HistoryRequired -> Byte \cup {Filler}] :
           maintainHistoryBuffer(g, c) \in [1 .. HistoryRequired -> Byte \cup {Filler}]
    <2> SUFFICES ASSUME NEW c \in Seq(Byte),
                        NEW g \in [1 .. HistoryRequired -> Byte \cup {Filler}],
                        NEW i \in 1 .. HistoryRequired
                 PROVE  (IF i + Len(c) <= HistoryRequired THEN g[i + Len(c)]
                         ELSE c[i + Len(c) - HistoryRequired]) \in Byte \cup {Filler}
      BY DEF maintainHistoryBuffer
    <2>1. CASE i + Len(c) <= HistoryRequired
      <3>1. i + Len(c) \in 1 .. HistoryRequired  BY <2>1
      <3> QED  BY <2>1, <3>1
    <2>2. CASE ~(i + Len(c) <= HistoryRequired)
      <3>1. i + Len(c) - HistoryRequired \in 1 .. Len(c)  BY <2>2
      <3>2. c[i + Len(c) - HistoryRequired] \in Byte  BY <3>1
      <3> QED  BY <2>2, <3>2
    <2> QED  BY <2>1, <2>2
  <1>5. /\ new \in StreamState /\ new.status = flags
        /\ flags = {} => /\ new.offset = st[s].offset + Len(call.chunk)
                         /\ new.history = maintainHistoryBuffer(st[s].history, call.chunk)
    <2>1. nfa \in NfaState  BY <1>0 DEF TypeOK
    <2>2. st[s].history \in [1 .. HistoryRequired -> Byte \cup {Filler}]  BY <1>1 DEF StreamState
    <2>3. maintainHistoryBuffer(st[s].history, call.chunk)
             \in [1 .. HistoryRequired -> Byte \cup {Filler}]
      BY <1>1, <1>4, <2>2
    <2>4. /\ (IF nfa # Dead THEN nfa ELSE st[s].nfa) \in NfaState
          /\ (IF flags # {} THEN st[s].offset ELSE st[s].offset + Len(call.chunk)) \in Nat
      BY <1>1, <2>1 DEF StreamState
    <2> QED  BY <1>1, <1>2, <2>3, <2>4 DEF StreamState
  <1>6. /\ st' \in [Ids -> StreamState] /\ st'[s] = new
        /\ \A x \in Ids : x # s => st'[x] = st[x]
    <2> HIDE DEF new
    <2> QED  BY <1>0, <1>1, <1>3, <1>5 DEF TypeOK
  <1> HIDE DEF new
  <1>7. /\ pc' \in {"idle", "vector"} /\ pc' \in Labels /\ ret' = rv
        /\ pc' = "vector" <=> (call.op = "vector" /\ rv = "SUCCESS")
        /\ inUse' = (pc' # "idle") /\ inUse' \in BOOLEAN
        /\ call'.op = call.op /\ call'.s = s /\ pos' \in Nat /\ nfa' \in NfaState
        /\ call' \in [op : Ops, s : Ids \cup {"none"}, from : Streams \cup {"none"},
                      chunk : Seq(Byte)]
        /\ ~Writing'
        /\ ret' \in {"SUCCESS", "SCAN_TERMINATED"}
    BY <1>0, <1>1, <1>3, LeaveIs
  <1>8. open \subseteq Streams /\ \A x \in Streams \ open : ~stopped[x] /\ data[x] = <<>>
    BY <1>0 DEF TypeOK, IInv, Marks
  <1>9. TypeOK'  BY <1>0, <1>2, <1>3, <1>6, <1>7 DEF TypeOK, hist
  <1>10. CallShape'
    <2>1. pc' = "vector" => call'.op = "vector" /\ call'.s = "bstate"
      BY <1>0, <1>7, WritingIs
    <2> QED  BY <1>7, <2>1 DEF CallShape, Writing
  <1>11. Marks'
    <2>1. ASSUME NEW x \in Streams PROVE Terminated(x)' <=> stopped[x]
      <3>1. CASE x = s  BY <1>2, <1>5, <1>6, <3>1 DEF Terminated
      <3>2. CASE x # s
        <4>1. Terminated(x) <=> stopped[x]  BY <1>0, <3>2, WritingIs
        <4> QED  BY <1>6, <3>2, <4>1 DEF Terminated
      <3> QED  BY <3>1, <3>2
    <2> QED  BY <1>3, <1>7, <1>8, <2>1 DEF Marks, hist
  <1>12. VectorMarks'
    <2>1. CASE pc' = "vector"
      <3>1. s = "bstate" /\ "TERMINATED" \notin flags  BY <1>0, <1>7, <2>1, WritingIs
      <3> QED
        BY <1>2, <1>3, <1>5, <1>6, <1>7, <2>1, <3>1 DEF VectorMarks, Terminated, hist
    <2>2. CASE pc' # "vector"  BY <1>7, <2>2 DEF VectorMarks
    <2> QED  BY <2>1, <2>2
  <1>13. ScanVerdict'  BY <1>2, <1>3, <1>7 DEF ScanVerdict, hist
  <1>14. Tails'
    <2>1. ASSUME NEW x \in open, st'[x].status = {}
          PROVE  TailOf(st'[x], data[x], <<>>)
      <3>1. CASE x = s
        <4>1. flags = {} /\ data[s] \in Seq(Byte)
          BY <1>0, <1>1, <1>5, <1>6, <2>1, <3>1 DEF TypeOK
        <4>2. TailOf(st[s], data[s], call.chunk)  BY <1>0, <3>1, WritingIs
        <4>3. TailOf(new, data[s], <<>>)  BY <1>1, <1>5, <4>1, <4>2, TailMoves
        <4> QED  BY <1>6, <3>1, <4>3
      <3>2. CASE x # s
        <4>1. x \in Ids  BY <1>8
        <4> QED  BY <1>0, <1>6, <2>1, <3>2, <4>1, WritingIs
      <3> QED  BY <3>1, <3>2
    <2> QED  BY <1>3, <1>7, <2>1 DEF Tails, Pending, hist
  <1> QED  BY <1>9, <1>10, <1>11, <1>12, <1>13, <1>14 DEF IInv

----------------------------------------------------------------------------
(* Vectored mode and the end of a stream *)

LEMMA VectorStep == ASSUME IInv, NEW d \in Databases, hs_scan_vector(d) PROVE IInv'
  <1> USE Constants
  <1>0. TypeOK /\ pc = "idle"  BY DEF IInv, hs_scan_vector
  <1>1. /\ st' = [st EXCEPT !["bstate"] = init_stream(d, Fresh)]
        /\ pc' = "vector" /\ inUse' = TRUE
        /\ call' = Call("vector", "bstate", "none", <<>>)
        /\ todo' = MaxBlocks
        /\ data' = [data EXCEPT !["bstate"] = <<>>]
        /\ reported' = [reported EXCEPT !["bstate"] = <<>>]
        /\ stopped' = [stopped EXCEPT !["bstate"] = FALSE]
        /\ UNCHANGED <<open, status, pos, nfa, ret>>
    BY DEF hs_scan_vector
  <1>2. init_stream(d, Fresh) \in StreamState /\ init_stream(d, Fresh).status = {}
    BY FreshIs DEF init_stream
  <1>3. /\ call' \in [op : Ops, s : Ids \cup {"none"}, from : Streams \cup {"none"},
                      chunk : Seq(Byte)]
        /\ call'.op = "vector" /\ call'.s = "bstate"
    BY <1>1 DEF Call, Ops
  <1>4. /\ st' \in [Ids -> StreamState] /\ st'["bstate"].status = {}
        /\ data' \in [Ids -> Seq(Byte)] /\ reported' \in [Ids -> Seq(Event)]
        /\ stopped' \in [Ids -> BOOLEAN] /\ ~stopped'["bstate"]
        /\ \A x \in Streams : st'[x] = st[x] /\ data'[x] = data[x] /\ stopped'[x] = stopped[x]
    <2> DEFINE new == init_stream(d, Fresh)
    <2> HIDE DEF new
    <2>1. st' = [st EXCEPT !["bstate"] = new] /\ new \in StreamState /\ new.status = {}
      BY <1>1, <1>2 DEF new
    <2>2. st' \in [Ids -> StreamState] /\ st'["bstate"] = new
      BY <1>0, <2>1 DEF TypeOK
    <2>3. data' \in [Ids -> Seq(Byte)]  BY <1>0, <1>1 DEF TypeOK
    <2>4. reported' \in [Ids -> Seq(Event)]  BY <1>0, <1>1 DEF TypeOK
    <2>5. stopped' \in [Ids -> BOOLEAN] /\ ~stopped'["bstate"]  BY <1>0, <1>1 DEF TypeOK
    <2>6. \A x \in Streams : x \in Ids /\ x # "bstate"  OBVIOUS
    <2>7. \A x \in Streams : st'[x] = st[x] /\ data'[x] = data[x] /\ stopped'[x] = stopped[x]
      BY <1>0, <1>1, <2>1, <2>6 DEF TypeOK
    <2> QED  BY <2>1, <2>2, <2>3, <2>4, <2>5, <2>7
  <1>5. TypeOK'  BY <1>0, <1>1, <1>3, <1>4 DEF TypeOK, Labels
  <1>6. CallShape'  BY <1>1, <1>3 DEF CallShape, Writing
  <1>7. Marks'  BY <1>0, <1>1, <1>4 DEF IInv, Marks, Terminated
  <1>8. VectorMarks'  BY <1>1, <1>4 DEF VectorMarks, Terminated
  <1>9. ScanVerdict'  BY <1>1 DEF ScanVerdict
  <1>10. Tails'
    <2>1. open \subseteq Streams  BY <1>0 DEF TypeOK
    <2>2. ~Writing /\ ~Writing'  BY <1>0, <1>1 DEF Writing
    <2>3. \A x \in open : st[x].status = {} => TailOf(st[x], data[x], <<>>)
      BY <2>2 DEF IInv, Tails, Pending
    <2>4. \A x \in open : st'[x] = st[x] /\ data'[x] = data[x]  BY <1>4, <2>1
    <2> QED  BY <1>1, <2>2, <2>3, <2>4 DEF Tails, Pending
  <1> QED  BY <1>5, <1>6, <1>7, <1>8, <1>9, <1>10 DEF IInv

LEMMA VectorCloseStep == ASSUME IInv, VectorClose PROVE IInv'
  <1>1. /\ pc = "vector" /\ pc' = "eod"
        /\ UNCHANGED <<st, open, inUse, status, call, pos, nfa, todo, ret, hist>>
    BY DEF VectorClose
  <1>2. TypeOK'  BY <1>1 DEF IInv, TypeOK, Labels, hist
  <1>3. CallShape'  BY <1>1 DEF IInv, CallShape, Writing
  <1>4. Marks' /\ VectorMarks' /\ ScanVerdict' /\ Tails'
    BY <1>1 DEF IInv, Marks, VectorMarks, ScanVerdict, Tails, Pending, Writing, Terminated, hist
  <1> QED  BY <1>2, <1>3, <1>4 DEF IInv

LEMMA EodBeginStep ==
    ASSUME IInv, NEW op \in EodOps, NEW s \in Streams, NEW from \in Streams \cup {"none"},
           EodBegin(op, s, from)
    PROVE  IInv'
  <1> USE Constants
  <1>1. /\ pc = "idle" /\ s \in open
        /\ op = "copy" => from \in open /\ from # s
        /\ call' = Call(op, s, from, <<>>)
        /\ pc' = "eod" /\ inUse' = TRUE
        /\ UNCHANGED <<st, open, status, pos, nfa, todo, ret, hist>>
    BY DEF EodBegin, CanCopy
  <1>2. /\ call' \in [op : Ops, s : Ids \cup {"none"}, from : Streams \cup {"none"},
                      chunk : Seq(Byte)]
        /\ call'.op = op /\ call'.s = s /\ call'.from = from
    BY <1>1 DEF Call, Ops, EodOps
  <1>3. op \in {"close", "reset", "copy"}  BY DEF EodOps
  <1>4. TypeOK'  BY <1>1, <1>2 DEF IInv, TypeOK, Labels, hist
  <1>5. CallShape'  BY <1>1, <1>2, <1>3 DEF CallShape, Writing
  <1>6. Marks'  BY <1>1 DEF IInv, Marks, Terminated, hist
  <1>7. VectorMarks' /\ ScanVerdict'  BY <1>1, <1>2, <1>3 DEF VectorMarks, ScanVerdict
  <1>8. Tails'  BY <1>1 DEF IInv, Tails, Pending, Writing, hist
  <1> QED  BY <1>4, <1>5, <1>6, <1>7, <1>8 DEF IInv

\* What the invariant says of the stream whose end is being reported.
LEMMA EodIs ==
    ASSUME IInv, pc \in {"eod", "eod_done"}
    PROVE  /\ call.s \in Ids /\ st[call.s] \in StreamState
           /\ call.op \in {"vector", "close", "reset", "copy"}
           /\ call.op = "vector" => call.s = "bstate"
           /\ call.op # "vector" => call.s \in open
           /\ call.op = "copy" => call.from \in open /\ call.from # call.s
           /\ pc = "eod" => (Terminated(call.s) <=> stopped[call.s])
  <1> USE Constants
  <1>1. /\ call.op \in {"vector", "close", "reset", "copy"}
        /\ call.op = "vector" => call.s = "bstate"
        /\ call.op # "vector" => call.s \in open
        /\ call.op = "copy" => call.from \in open /\ call.from # call.s
    BY DEF IInv, CallShape
  <1>2. call.s \in Ids  BY <1>1 DEF IInv, TypeOK
  <1>3. st[call.s] \in StreamState  BY <1>2 DEF IInv, TypeOK
  <1>4. pc = "eod" => (Terminated(call.s) <=> stopped[call.s])
    <2>1. CASE call.op = "vector"  BY <1>1, <2>1 DEF IInv, VectorMarks
    <2>2. CASE call.op # "vector"
      <3>1. call.s \in Streams  BY <1>1, <2>2 DEF IInv, TypeOK
      <3> QED  BY <3>1 DEF IInv, Marks
    <2> QED  BY <2>1, <2>2
  <1> QED  BY <1>1, <1>2, <1>3, <1>4

LEMMA EodReportStep == ASSUME IInv, NEW h \in BOOLEAN, EodReport(h) PROVE IInv'
  <1> USE Constants
  <1> DEFINE s == call.s
             r == EodRule(s)
             flags == Raised(s, r, h)
  <1>0. TypeOK /\ pc = "eod"  BY DEF IInv, EodReport
  <1>1. /\ s \in Ids /\ st[s] \in StreamState /\ st[s].status = {} /\ ~stopped[s]
    BY <1>0, EodIs DEF EodReport, EodSkipped, Broken, Terminated
  <1>2. HasRule(s, r) /\ r \in AllRules /\ st[s].offset \in Nat
    BY <1>1 DEF EodReport, EodDue, EodRule, AllRules, StreamState
  <1>3. /\ Callback(s, r, st[s].offset, h)
        /\ st' = [st EXCEPT ![s].evec = Marked(s, r, h)]
        /\ pc' = "eod_done" /\ status' = flags
        /\ UNCHANGED <<open, inUse, call, pos, nfa, todo, ret, data>>
    BY <1>1 DEF EodReport
  <1> HIDE DEF r
  <1>4. /\ reported' \in [Ids -> Seq(Event)] /\ stopped' \in [Ids -> BOOLEAN]
        /\ stopped'[s] <=> h
        /\ \A x \in Ids : x # s => stopped'[x] = stopped[x]
    BY <1>0, <1>1, <1>2, <1>3, CallbackIs
  <1>5. /\ Marked(s, r, h) \in SUBSET Keys /\ flags \in SUBSET Flags
        /\ "TERMINATED" \in flags <=> h
    BY <1>0, <1>1, <1>2, MarkedIs
  <1>6. /\ st' \in [Ids -> StreamState]
        /\ \A x \in Ids : /\ st'[x].status = st[x].status
                          /\ st'[x].offset = st[x].offset
                          /\ st'[x].history = st[x].history
    BY <1>0, <1>1, <1>3, <1>5, EvecIs
  <1>7. TypeOK'  BY <1>0, <1>3, <1>4, <1>5, <1>6 DEF TypeOK, Labels
  <1>8. CallShape'  BY <1>0, <1>3 DEF IInv, CallShape, Writing
  <1>9. Marks'
    <2>1. \A x \in Streams : x # s => (Terminated(x)' <=> stopped'[x])
      BY <1>0, <1>4, <1>6 DEF IInv, Marks, Terminated
    <2>2. s \in Streams => s \in open  BY <1>0, EodIs
    <2>3. \A x \in Streams \ open : ~stopped'[x] /\ data'[x] = <<>>
      BY <1>3, <1>4, <2>2 DEF IInv, Marks
    <2> QED  BY <1>3, <2>1, <2>3 DEF Marks
  <1>10. VectorMarks'
    <2>1. call.op = "vector" => s = "bstate"  BY <1>0, EodIs
    <2> QED  BY <1>3, <1>4, <1>5, <2>1 DEF VectorMarks
  <1>11. ScanVerdict'  BY <1>3 DEF ScanVerdict
  <1>12. Tails'
    <2>1. ASSUME NEW x \in open, st'[x].status = {}
          PROVE  TailOf(st'[x], data'[x], <<>>)
      <3>1. x \in Ids  BY <1>0 DEF TypeOK
      <3>2. TailOf(st[x], data[x], <<>>)
        BY <1>0, <1>6, <2>1, <3>1 DEF IInv, Tails, Pending, Writing
      <3> QED  BY <1>3, <1>6, <3>1, <3>2, TailSame
    <2> QED  BY <1>3, <2>1 DEF Tails, Pending, Writing
  <1> QED  BY <1>7, <1>8, <1>9, <1>10, <1>11, <1>12 DEF IInv

LEMMA EodNoneStep == ASSUME IInv, EodNone PROVE IInv'
  <1> USE Constants
  <1>1. /\ TypeOK /\ pc = "eod" /\ pc' = "eod_done"
        /\ UNCHANGED <<st, open, inUse, call, pos, nfa, todo, ret, hist>>
        /\ \/ status' = status /\ st[call.s].status # {}
           \/ status' = st[call.s].status
    BY DEF IInv, EodNone, EodSkipped, Broken
  <1>2. status' \subseteq Flags
    BY <1>1, EodIs DEF TypeOK, StreamState
  <1>3. TypeOK'  BY <1>1, <1>2 DEF TypeOK, Labels, hist
  <1>4. CallShape'  BY <1>1 DEF IInv, CallShape, Writing
  <1>5. Marks'  BY <1>1 DEF IInv, Marks, Terminated, hist
  <1>6. VectorMarks'
    <2>1. CASE call.op = "vector"
      <3>1. call.s = "bstate"  BY <1>1, <2>1, EodIs
      <3>2. /\ ~Terminated("bstate") /\ ~stopped["bstate"]
            /\ st["bstate"].status # {} => status = st["bstate"].status
        BY <1>1, <2>1 DEF IInv, VectorMarks
      <3> QED  BY <1>1, <3>1, <3>2 DEF VectorMarks, Terminated, hist
    <2>2. CASE call.op # "vector"  BY <1>1, <2>2 DEF VectorMarks
    <2> QED  BY <2>1, <2>2
  <1>7. ScanVerdict'  BY <1>1 DEF ScanVerdict
  <1>8. Tails'  BY <1>1 DEF IInv, Tails, Pending, Writing, hist
  <1> QED  BY <1>3, <1>4, <1>5, <1>6, <1>7, <1>8 DEF IInv

----------------------------------------------------------------------------
(* Streams that are freed, reset or overwritten *)

\* What Finish makes of a stream, given one to copy that is at rest.
LEMMA FinishIs ==
    ASSUME TypeOK, NEW op \in EodOps, NEW s \in open, NEW from \in Streams \cup {"none"},
           op = "copy" => from \in open, Finish(op, s, from)
    PROVE  /\ st' \in [Ids -> StreamState] /\ data' \in [Ids -> Seq(Byte)]
           /\ reported' \in [Ids -> Seq(Event)] /\ stopped' \in [Ids -> BOOLEAN]
           /\ open' = (IF op = "close" THEN open \ {s} ELSE open)
           /\ \A x \in Ids : x # s => /\ st'[x] = st[x] /\ data'[x] = data[x]
                                      /\ stopped'[x] = stopped[x]
           /\ op # "copy" => /\ st'[s].status = {} /\ st'[s].offset = 0
                             /\ data'[s] = <<>> /\ ~stopped'[s]
           /\ op = "copy" => /\ st'[s] = st[from] /\ data'[s] = data[from]
                             /\ stopped'[s] = stopped[from]
  <1> USE Constants
  <1>1. open \subseteq Streams /\ s \in Ids /\ st[s] \in StreamState  BY DEF TypeOK
  <1>2. open' = (IF op = "close" THEN open \ {s} ELSE open)  BY DEF Finish
  <1>3. CASE op # "copy"
    <2> DEFINE new == IF op = "close" THEN Freed ELSE init_stream(st[s].db, st[s].history)
    <2>1. /\ st' = [st EXCEPT ![s] = new]
          /\ data' = [data EXCEPT ![s] = <<>>]
          /\ reported' = [reported EXCEPT ![s] = <<>>]
          /\ stopped' = [stopped EXCEPT ![s] = FALSE]
      BY <1>3, <1>1 DEF Finish, TypeOK
    <2>2. new \in StreamState /\ new.status = {} /\ new.offset = 0
      <3>1. st[s].db \in Databases
            /\ st[s].history \in [1 .. HistoryRequired -> Byte \cup {Filler}]
        BY <1>1 DEF StreamState
      <3>2. init_stream(st[s].db, st[s].history) \in StreamState  BY <3>1, FreshIs
      <3>3. /\ Freed.status = {} /\ Freed.offset = 0
            /\ init_stream(st[s].db, st[s].history).status = {}
            /\ init_stream(st[s].db, st[s].history).offset = 0
        BY DEF Freed, init_stream
      <3> QED  BY <3>2, <3>3, FreshIs
    <2> HIDE DEF new
    <2>3. /\ st' \in [Ids -> StreamState] /\ st'[s] = new
          /\ \A x \in Ids : x # s => st'[x] = st[x]
      BY <1>1, <2>1, <2>2 DEF TypeOK
    <2>4. /\ data' \in [Ids -> Seq(Byte)] /\ data'[s] = <<>>
          /\ \A x \in Ids : x # s => data'[x] = data[x]
      BY <1>1, <2>1 DEF TypeOK
    <2>5. reported' \in [Ids -> Seq(Event)]  BY <1>1, <2>1 DEF TypeOK
    <2>6. /\ stopped' \in [Ids -> BOOLEAN] /\ ~stopped'[s]
          /\ \A x \in Ids : x # s => stopped'[x] = stopped[x]
      BY <1>1, <2>1 DEF TypeOK
    <2> QED  BY <1>2, <1>3, <2>2, <2>3, <2>4, <2>5, <2>6
  <1>4. CASE op = "copy"
    <2>1. /\ st' = [st EXCEPT ![s] = st[from]]
          /\ data' = [data EXCEPT ![s] = data[from]]
          /\ reported' = [reported EXCEPT ![s] = reported[from]]
          /\ stopped' = [stopped EXCEPT ![s] = stopped[from]]
      BY <1>4 DEF Finish
    <2>2. from \in Ids  BY <1>1, <1>4
    <2>3. /\ st' \in [Ids -> StreamState] /\ st'[s] = st[from]
          /\ \A x \in Ids : x # s => st'[x] = st[x]
      BY <1>1, <2>1, <2>2 DEF TypeOK
    <2>4. /\ data' \in [Ids -> Seq(Byte)] /\ data'[s] = data[from]
          /\ \A x \in Ids : x # s => data'[x] = data[x]
      BY <1>1, <2>1, <2>2 DEF TypeOK
    <2>5. reported' \in [Ids -> Seq(Event)]  BY <1>1, <2>1, <2>2 DEF TypeOK
    <2>6. /\ stopped' \in [Ids -> BOOLEAN] /\ stopped'[s] = stopped[from]
          /\ \A x \in Ids : x # s => stopped'[x] = stopped[x]
      BY <1>1, <2>1, <2>2 DEF TypeOK
    <2> QED  BY <1>2, <1>4, <2>3, <2>4, <2>5, <2>6
  <1> QED  BY <1>3, <1>4

LEMMA EodFinishStep == ASSUME IInv, EodFinish PROVE IInv'
  <1> USE Constants
  <1>0. /\ TypeOK /\ pc = "eod_done" /\ pc' = "idle" /\ inUse' = FALSE
        /\ UNCHANGED <<status, pos, nfa, todo>>
    BY DEF IInv, EodFinish
  <1>1. CASE call.op = "vector"
    <2>1. /\ ret' = IF "TERMINATED" \in status THEN "SCAN_TERMINATED" ELSE "SUCCESS"
          /\ UNCHANGED <<st, open, call, hist>>
      BY <1>1 DEF EodFinish
    <2>2. call.s = "bstate" /\ ("TERMINATED" \in status <=> stopped["bstate"])
      BY <1>0, <1>1 DEF IInv, CallShape, VectorMarks
    <2>3. TypeOK'  BY <1>0, <2>1 DEF TypeOK, Labels, hist
    <2>4. CallShape'  BY <1>0 DEF CallShape, Writing
    <2>5. Marks'  BY <1>0, <2>1, <2>2 DEF IInv, Marks, Terminated, hist
    <2>6. VectorMarks' /\ ScanVerdict'
      BY <1>0, <2>1, <2>2 DEF VectorMarks, ScanVerdict, hist
    <2>7. Tails'  BY <1>0, <2>1 DEF IInv, Tails, Pending, Writing, hist
    <2> QED  BY <2>3, <2>4, <2>5, <2>6, <2>7 DEF IInv
  <1>2. CASE call.op # "vector"
    <2> DEFINE s == call.s
               from == call.from
    <2>1. /\ ret' = "SUCCESS" /\ call' = NoCall /\ Finish(call.op, s, from)
      BY <1>2 DEF EodFinish
    <2>2. /\ call.op \in EodOps /\ s \in open
          /\ call.op = "copy" => from \in open /\ from # s
      BY <1>0, <1>2, EodIs DEF EodOps
    <2>3. open \subseteq Streams /\ from \in Streams \cup {"none"} /\ s \in Streams
      BY <1>0, <2>2 DEF TypeOK
    <2> HIDE DEF s, from
    <2>4. /\ st' \in [Ids -> StreamState] /\ data' \in [Ids -> Seq(Byte)]
          /\ reported' \in [Ids -> Seq(Event)] /\ stopped' \in [Ids -> BOOLEAN]
          /\ open' = (IF call.op = "close" THEN open \ {s} ELSE open)
          /\ \A x \in Ids : x # s => /\ st'[x] = st[x] /\ data'[x] = data[x]
                                     /\ stopped'[x] = stopped[x]
          /\ call.op # "copy" => /\ st'[s].status = {} /\ st'[s].offset = 0
                                 /\ data'[s] = <<>> /\ ~stopped'[s]
          /\ call.op = "copy" => /\ st'[s] = st[from] /\ data'[s] = data[from]
                                 /\ stopped'[s] = stopped[from]
      BY <1>0, <2>1, <2>2, <2>3, FinishIs
    <2>5. /\ call' \in [op : Ops, s : Ids \cup {"none"}, from : Streams \cup {"none"},
                        chunk : Seq(Byte)]
          /\ call'.op = "none"
      BY <2>1 DEF NoCall, Call, Ops
    <2>6. open' \subseteq Streams /\ open' \subseteq open  BY <2>3, <2>4
    <2>7. TypeOK'  BY <1>0, <2>1, <2>4, <2>5, <2>6 DEF TypeOK, Labels
    <2>8. CallShape'  BY <1>0 DEF CallShape, Writing
    <2>9. VectorMarks' /\ ScanVerdict'  BY <1>0, <2>5 DEF VectorMarks, ScanVerdict
    <2>10. \A x \in Streams : x # s => (Terminated(x) <=> stopped[x])
      BY <1>0 DEF IInv, Marks, s
    <2>11. \A x \in Streams \ open : x # s /\ x \in Ids /\ ~stopped[x] /\ data[x] = <<>>
      BY <2>2 DEF IInv, Marks
    <2>12. Marks'
      <3>1. \A x \in Streams : Terminated(x)' <=> stopped'[x]
        BY <2>2, <2>3, <2>4, <2>10 DEF Terminated
      <3>2. \A x \in Streams \ open' : ~stopped'[x] /\ data'[x] = <<>>
        BY <2>2, <2>4, <2>11
      <3> QED  BY <1>0, <3>1, <3>2 DEF Marks
    <2>13. \A x \in open : st[x].status = {} => TailOf(st[x], data[x], <<>>)
      BY <1>0 DEF IInv, Tails, Pending, Writing
    <2>14. Tails'
      <3>1. ASSUME NEW x \in open', st'[x].status = {}
            PROVE  TailOf(st'[x], data'[x], <<>>)
        <4>1. CASE x # s  BY <2>3, <2>4, <2>6, <2>13, <3>1, <4>1
        <4>2. CASE x = s /\ call.op = "copy"  BY <2>2, <2>4, <2>13, <3>1, <4>2
        <4>3. CASE x = s /\ call.op # "copy"
          <5>1. st'[s] \in StreamState  BY <2>3, <2>4
          <5>2. TailOf(st'[s], <<>>, <<>>)  BY <2>4, <4>3, <5>1, TailFresh
          <5> QED  BY <2>4, <4>3, <5>2
        <4> QED  BY <4>1, <4>2, <4>3
      <3> QED  BY <1>0, <3>1 DEF Tails, Pending, Writing
    <2> QED  BY <2>7, <2>8, <2>9, <2>12, <2>14 DEF IInv
  <1> QED  BY <1>1, <1>2

----------------------------------------------------------------------------
(* Calls that leave the running one alone *)

\* Only s changes, and no running call works on it: at rest s agrees with its
\* history afterwards.
LEMMA SideStep ==
    ASSUME IInv, NEW s \in Streams, Forget, Aside,
           pc # "idle" => s # call.s,
           pc # "idle" /\ call.op = "copy" => s # call.from,
           open' \subseteq Streams, open' \subseteq open \cup {s}, open \subseteq open' \cup {s},
           st' \in [Ids -> StreamState], data' \in [Ids -> Seq(Byte)],
           reported' \in [Ids -> Seq(Event)], stopped' \in [Ids -> BOOLEAN],
           \A x \in Ids : x # s => /\ st'[x] = st[x] /\ data'[x] = data[x]
                                   /\ stopped'[x] = stopped[x],
           Terminated(s)' <=> stopped'[s],
           s \notin open' => ~stopped'[s] /\ data'[s] = <<>>,
           s \in open' /\ st'[s].status = {} => TailOf(st'[s], data'[s], <<>>)
    PROVE  IInv'
  <1> USE Constants
  <1>0. TypeOK /\ open \subseteq Streams  BY DEF IInv, TypeOK
  <1>1. /\ UNCHANGED <<inUse, status, pc, pos, nfa, todo, ret>>
        /\ pc = "idle" => call' = NoCall
        /\ pc # "idle" => call' = call
    BY DEF Forget, Aside
  <1>2. /\ call' \in [op : Ops, s : Ids \cup {"none"}, from : Streams \cup {"none"},
                      chunk : Seq(Byte)]
        /\ pc = "idle" => call'.op = "none"
    <2>1. CASE pc = "idle"
      <3>1. call' = NoCall  BY <1>1, <2>1
      <3> QED  BY <3>1 DEF NoCall, Call, Ops
    <2>2. CASE pc # "idle"
      <3>1. call' = call  BY <1>1, <2>2
      <3> QED  BY <1>0, <2>2, <3>1 DEF TypeOK
    <2> QED  BY <2>1, <2>2
  <1>3. TypeOK'
    <2>1. /\ inUse' \in BOOLEAN /\ status' \subseteq Flags /\ pc' \in Labels /\ pos' \in Nat
          /\ nfa' \in NfaState /\ todo' \in Nat /\ ret' \in {"SUCCESS", "SCAN_TERMINATED"}
      BY <1>0, <1>1 DEF TypeOK
    <2> QED  BY <1>2, <2>1 DEF TypeOK
  <1>4. CallShape'
    <2>1. CASE pc = "idle"  BY <1>1, <2>1 DEF IInv, CallShape, Writing
    <2>2. CASE pc # "idle"
      <3>1. Writing => call.s \in Ids /\ st[call.s].status = {}
        BY WritingIs
      <3>2. Writing => st'[call.s].status = {}  BY <2>2, <3>1
      <3>3. call.op # "vector" => call.s \in open /\ call.s \in open'
        BY <2>2 DEF IInv, CallShape
      <3>4. call.op = "copy" => call.from \in open' /\ call.from # call.s
        BY <2>2 DEF IInv, CallShape
      <3>5. /\ call' = call /\ pc' = pc /\ inUse' = inUse /\ status' = status /\ nfa' = nfa
        BY <1>1, <2>2
      <3>6. Writing' <=> Writing  BY <3>5 DEF Writing
      <3>7. CallShape  BY DEF IInv
      <3> QED  BY <3>2, <3>3, <3>4, <3>5, <3>6, <3>7 DEF CallShape
    <2> QED  BY <2>1, <2>2
  <1>5. Marks'
    <2>1. ASSUME NEW x \in Streams, ~(x = call.s /\ pc \in {"exec", "eod_done"})
          PROVE  Terminated(x)' <=> stopped'[x]
      <3>1. CASE x # s
        <4>1. Terminated(x) <=> stopped[x]  BY <2>1 DEF IInv, Marks
        <4> QED  BY <3>1, <4>1 DEF Terminated
      <3>2. CASE x = s  BY <3>2
      <3> QED  BY <3>1, <3>2
    <2>2. pc = "exec" => ("TERMINATED" \in status <=> stopped'[call.s])
      <3>1. pc = "exec" => call.s \in Ids /\ call.s # s
                           /\ ("TERMINATED" \in status <=> stopped[call.s])
        BY WritingIs DEF Writing
      <3> QED  BY <3>1
    <2>3. \A x \in Streams \ open' : ~stopped'[x] /\ data'[x] = <<>>
      BY DEF IInv, Marks
    <2>4. pc \in {"exec", "eod_done"} => call' = call  BY <1>1
    <2> QED  BY <1>1, <2>1, <2>2, <2>3, <2>4 DEF Marks
  <1>6. VectorMarks'
    <2>1. st'["bstate"] = st["bstate"] /\ stopped'["bstate"] = stopped["bstate"]
      OBVIOUS
    <2> QED  BY <1>1, <2>1 DEF IInv, VectorMarks, Terminated
  <1>7. ScanVerdict'  BY <1>1, <1>2 DEF ScanVerdict
  <1>8. Tails'
    <2>1. ASSUME NEW x \in open', st'[x].status = {}
          PROVE  TailOf(st'[x], data'[x], IF Writing /\ x = call.s THEN call.chunk ELSE <<>>)
      <3>1. CASE x # s
        <4>1. x \in open /\ x \in Ids  BY <1>0, <3>1
        <4>2. TailOf(st[x], data[x], Pending(x))
          BY <2>1, <3>1, <4>1 DEF IInv, Tails
        <4> QED  BY <3>1, <4>1, <4>2 DEF Pending
      <3>2. CASE x = s
        <4>1. ~(Writing /\ x = call.s)  BY <3>2 DEF Writing
        <4> QED  BY <2>1, <3>2, <4>1
      <3> QED  BY <3>1, <3>2
    <2>2. Writing' <=> Writing  BY <1>1 DEF Writing
    <2>3. Writing => call' = call  BY <1>1 DEF Writing
    <2> QED  BY <2>1, <2>2, <2>3 DEF Tails, Pending
  <1> QED  BY <1>3, <1>4, <1>5, <1>6, <1>7, <1>8 DEF IInv

\* A handle that is not allocated is in no call's hands.
LEMMA NotCalled ==
    ASSUME IInv, NEW s \in Streams, s \notin open
    PROVE  /\ pc # "idle" => s # call.s
           /\ pc # "idle" /\ call.op = "copy" => s # call.from
  BY Constants DEF IInv, CallShape

LEMMA OpenStep ==
    ASSUME IInv, NEW s \in Streams, NEW d \in Databases, hs_open_stream(s, d)
    PROVE  IInv'
  <1> USE Constants
  <1>0. TypeOK /\ open \subseteq Streams  BY DEF IInv, TypeOK
  <1> DEFINE new == init_stream(d, Fresh)
  <1>1. new \in StreamState /\ new.status = {} /\ new.offset = 0
    BY FreshIs DEF init_stream
  <1>2. /\ s \notin open /\ open' = open \cup {s}
        /\ st' = [st EXCEPT ![s] = new]
        /\ Forget /\ Aside /\ UNCHANGED <<data, reported, stopped>>
    BY DEF hs_open_stream, hist
  <1> HIDE DEF new
  <1>3. /\ st' \in [Ids -> StreamState] /\ st'[s] = new
        /\ \A x \in Ids : x # s => st'[x] = st[x]
    BY <1>0, <1>1, <1>2 DEF TypeOK
  <1>4. data[s] = <<>> /\ ~stopped[s]  BY <1>2 DEF IInv, Marks
  <1>5. TailOf(new, <<>>, <<>>)  BY <1>1, TailFresh
  <1>6. Terminated(s)' <=> stopped'[s]  BY <1>1, <1>2, <1>3, <1>4 DEF Terminated
  <1>7. TailOf(st'[s], data'[s], <<>>)  BY <1>2, <1>3, <1>4, <1>5
  <1>8. /\ data' \in [Ids -> Seq(Byte)] /\ reported' \in [Ids -> Seq(Event)]
        /\ stopped' \in [Ids -> BOOLEAN]
        /\ \A x \in Ids : data'[x] = data[x] /\ stopped'[x] = stopped[x]
    BY <1>0, <1>2 DEF TypeOK
  <1>9. /\ pc # "idle" => s # call.s
        /\ pc # "idle" /\ call.op = "copy" => s # call.from
    BY <1>2, NotCalled
  <1>10. open' \subseteq Streams /\ open' \subseteq open \cup {s} /\ open \subseteq open' \cup {s}
         /\ s \in open'
    BY <1>0, <1>2
  <1> QED  BY <1>2, <1>3, <1>6, <1>7, <1>8, <1>9, <1>10, SideStep

\* A stream that no call works on is at rest.
LEMMA AtRest ==
    ASSUME IInv, NEW f \in open, ~Busy(f)
    PROVE  /\ Terminated(f) <=> stopped[f]
           /\ st[f].status = {} => TailOf(st[f], data[f], <<>>)
  <1>1. f \in Streams  BY DEF IInv, TypeOK
  <1>2. Terminated(f) <=> stopped[f]  BY <1>1 DEF Busy, IInv, Marks
  <1>3. st[f].status = {} => TailOf(st[f], data[f], <<>>)
    BY DEF Busy, IInv, Tails, Pending, Writing
  <1> QED  BY <1>2, <1>3

LEMMA CopyStep ==
    ASSUME IInv, NEW s \in Streams, NEW from \in Streams, hs_copy_stream(s, from)
    PROVE  IInv'
  <1> USE Constants
  <1>0. TypeOK /\ open \subseteq Streams  BY DEF IInv, TypeOK
  <1>1. /\ s \notin open /\ from \in open /\ ~Busy(from) /\ open' = open \cup {s}
        /\ st' = [st EXCEPT ![s] = st[from]]
        /\ data' = [data EXCEPT ![s] = data[from]]
        /\ reported' = [reported EXCEPT ![s] = reported[from]]
        /\ stopped' = [stopped EXCEPT ![s] = stopped[from]]
        /\ Forget /\ Aside
    BY DEF hs_copy_stream
  <1>2. from \in Ids  BY <1>0
  <1>3. /\ st' \in [Ids -> StreamState] /\ st'[s] = st[from]
        /\ \A x \in Ids : x # s => st'[x] = st[x]
    BY <1>0, <1>1, <1>2 DEF TypeOK
  <1>4. /\ data' \in [Ids -> Seq(Byte)] /\ data'[s] = data[from]
        /\ \A x \in Ids : x # s => data'[x] = data[x]
    BY <1>0, <1>1, <1>2 DEF TypeOK
  <1>5. reported' \in [Ids -> Seq(Event)]  BY <1>0, <1>1, <1>2 DEF TypeOK
  <1>6. /\ stopped' \in [Ids -> BOOLEAN] /\ stopped'[s] = stopped[from]
        /\ \A x \in Ids : x # s => stopped'[x] = stopped[x]
    BY <1>0, <1>1, <1>2 DEF TypeOK
  <1>7. /\ Terminated(from) <=> stopped[from]
        /\ st[from].status = {} => TailOf(st[from], data[from], <<>>)
    BY <1>1, AtRest
  <1>8. Terminated(s)' <=> stopped'[s]  BY <1>3, <1>6, <1>7 DEF Terminated
  <1>9. st'[s].status = {} => TailOf(st'[s], data'[s], <<>>)  BY <1>3, <1>4, <1>7
  <1>10. /\ pc # "idle" => s # call.s
         /\ pc # "idle" /\ call.op = "copy" => s # call.from
    BY <1>1, NotCalled
  <1>11. open' \subseteq Streams /\ open' \subseteq open \cup {s} /\ open \subseteq open' \cup {s}
         /\ s \in open'
    BY <1>0, <1>1
  <1> QED  BY <1>1, <1>3, <1>4, <1>5, <1>6, <1>8, <1>9, <1>10, <1>11, SideStep

LEMMA WithoutEventsStep ==
    ASSUME IInv, NEW op \in EodOps, NEW s \in Streams, NEW from \in Streams \cup {"none"},
           WithoutEvents(op, s, from)
    PROVE  IInv'
  <1> USE Constants
  <1>0. TypeOK /\ open \subseteq Streams  BY DEF IInv, TypeOK
  <1>1. /\ s \in open /\ ~Busy(s) /\ Finish(op, s, from) /\ Forget /\ Aside
        /\ op = "copy" => from \in open /\ from # s /\ ~Busy(from)
    BY DEF WithoutEvents, CanCopy
  <1>2. /\ st' \in [Ids -> StreamState] /\ data' \in [Ids -> Seq(Byte)]
        /\ reported' \in [Ids -> Seq(Event)] /\ stopped' \in [Ids -> BOOLEAN]
        /\ open' = (IF op = "close" THEN open \ {s} ELSE open)
        /\ \A x \in Ids : x # s => /\ st'[x] = st[x] /\ data'[x] = data[x]
                                   /\ stopped'[x] = stopped[x]
        /\ op # "copy" => /\ st'[s].status = {} /\ st'[s].offset = 0
                          /\ data'[s] = <<>> /\ ~stopped'[s]
        /\ op = "copy" => /\ st'[s] = st[from] /\ data'[s] = data[from]
                          /\ stopped'[s] = stopped[from]
    BY <1>0, <1>1, FinishIs
  <1>3. /\ op = "copy" => /\ Terminated(from) <=> stopped[from]
                          /\ st[from].status = {} => TailOf(st[from], data[from], <<>>)
    BY <1>1, AtRest
  <1>4. Terminated(s)' <=> stopped'[s]
    <2>1. CASE op = "copy"  BY <1>2, <1>3, <2>1 DEF Terminated
    <2>2. CASE op # "copy"  BY <1>2, <2>2 DEF Terminated
    <2> QED  BY <2>1, <2>2
  <1>5. st'[s].status = {} => TailOf(st'[s], data'[s], <<>>)
    <2>1. CASE op = "copy"  BY <1>2, <1>3, <2>1
    <2>2. CASE op # "copy"
      <3>1. st'[s] \in StreamState  BY <1>2
      <3> QED  BY <1>2, <2>2, <3>1, TailFresh
    <2> QED  BY <2>1, <2>2
  <1>6. /\ pc # "idle" => s # call.s
        /\ pc # "idle" /\ call.op = "copy" => s # call.from
    BY <1>1 DEF Busy
  <1>7. open' \subseteq Streams /\ open' \subseteq open \cup {s} /\ open \subseteq open' \cup {s}
    BY <1>0, <1>2
  <1>8. s \notin open' => op # "copy"  BY <1>1, <1>2
  <1> QED  BY <1>1, <1>2, <1>4, <1>5, <1>6, <1>7, <1>8, SideStep

----------------------------------------------------------------------------
(* The first invariant, and what follows from it *)

LEMMA NextStep == ASSUME IInv, [Next]_vars PROVE IInv'
  <1> USE Constants
  <1>1. CASE \E s \in Streams, d \in Databases : hs_open_stream(s, d)
    BY <1>1, OpenStep
  <1>2. CASE \E s, from \in Streams : hs_copy_stream(s, from)
    BY <1>2, CopyStep
  <1>3. CASE \E s \in Streams, c \in Chunk : hs_scan_stream(s, c)
    <2>1. PICK s \in Streams, c \in Chunk : hs_scan_stream(s, c)  BY <1>3
    <2>2. /\ pc = "idle" /\ s \in open /\ ScanInternal("scan", s, c) /\ todo' \in Nat
      BY <2>1 DEF hs_scan_stream, IInv, TypeOK
    <2>3. c \in Seq(Byte)  BY BoundAssumption DEF Chunk
    <2> QED  BY <2>2, <2>3, ScanInternalStep
  <1>4. CASE \E d \in Databases : hs_scan_vector(d)
    BY <1>4, VectorStep
  <1>5. CASE \E c \in Chunk : VectorBlock(c)
    <2>1. PICK c \in Chunk : VectorBlock(c)  BY <1>5
    <2>2. /\ pc = "vector" /\ ScanInternal("vector", "bstate", c) /\ todo' \in Nat
      BY <2>1 DEF VectorBlock, IInv, TypeOK
    <2>3. c \in Seq(Byte)  BY BoundAssumption DEF Chunk
    <2> QED  BY <2>2, <2>3, ScanInternalStep
  <1>6. CASE \E op \in EodOps, s \in Streams, from \in Streams \cup {"none"} :
                EodBegin(op, s, from) \/ WithoutEvents(op, s, from)
    BY <1>6, EodBeginStep, WithoutEventsStep
  <1>7. CASE CallStep
    BY <1>7, ZeroReportStep, ExecReportStep, EodReportStep, ZeroNoneStep, ExecByteStep,
       ExecDoneStep, VectorCloseStep, EodNoneStep, EodFinishStep
    DEF CallStep
  <1>8. CASE UNCHANGED vars
    <2>1. TypeOK' /\ CallShape'
      BY <1>8 DEF IInv, vars, hist, TypeOK, CallShape, Writing
    <2>2. Marks' /\ VectorMarks' /\ ScanVerdict' /\ Tails'
      BY <1>8 DEF IInv, vars, hist, Marks, VectorMarks, ScanVerdict, Tails, Pending, Writing,
                  Terminated
    <2> QED  BY <2>1, <2>2 DEF IInv
  <1> QED  BY <1>1, <1>2, <1>3, <1>4, <1>5, <1>6, <1>7, <1>8 DEF Next

\* Every reachable state satisfies the inductive invariant.
THEOREM StreamInvariant == Spec => []IInv
  <1>1. Init => IInv  BY InitIInv
  <1>2. IInv /\ [Next]_vars => IInv'  BY NextStep
  <1> QED  BY <1>1, <1>2, PTL DEF Spec

\* hs_scan_stream and hs_scan_vector return HS_SCAN_TERMINATED exactly when
\* the callback asked to stop on that stream, whatever other streams were
\* copied, reset or closed meanwhile.
THEOREM Verdict == Spec => []ScanVerdict
  <1>1. IInv => ScanVerdict  BY DEF IInv
  <1> QED  BY <1>1, StreamInvariant, PTL

\* maintainHistoryBuffer keeps the bytes before the offset, for writes of any
\* length, in any stream that can go on.
THEOREM History == Spec => []HistoryIsTail
  <1>1. IInv => HistoryIsTail
    <2> SUFFICES ASSUME IInv, NEW s \in open, st[s].status = {}, ~Busy(s)
                 PROVE  /\ st[s].offset = Len(data[s])
                        /\ \A i \in 1 .. HistoryRequired :
                              i <= st[s].offset =>
                                st[s].history[HistoryRequired + 1 - i]
                                  = data[s][st[s].offset + 1 - i]
      BY DEF HistoryIsTail, Broken
    <2>1. TailOf(st[s], data[s], <<>>)  BY AtRest
    <2>2. st[s].offset \in Nat  BY Constants DEF IInv, TypeOK, StreamState
    <2> QED  BY <2>1, <2>2 DEF TailOf
  <1> QED  BY <1>1, StreamInvariant, PTL

\* After the callback asked to stop on a stream it is not called for it
\* again: only a copy of another stream changes what was reported.
THEOREM Stopped == Spec => StoppedForGood
  <1> DEFINE Silent == \A s \in Ids : stopped[s] /\ stopped'[s] =>
                          reported'[s] = reported[s] \/ \E f \in Ids : reported'[s] = reported[f]
  <1>1. IInv /\ [Next]_vars => [Silent]_vars
    <2> SUFFICES ASSUME IInv, Next, NEW s \in Ids, stopped[s], stopped'[s]
                 PROVE  reported'[s] = reported[s] \/ \E f \in Ids : reported'[s] = reported[f]
      BY DEF Silent
    <2> USE Constants
    <2>0. TypeOK  BY DEF IInv
    <2>1. ASSUME UNCHANGED reported PROVE reported'[s] = reported[s]  BY <2>1
    <2>2. ASSUME NEW x \in open, NEW op \in EodOps, NEW from \in Streams \cup {"none"},
                 op = "copy" => from \in open, Finish(op, x, from)
          PROVE  reported'[s] = reported[s] \/ \E f \in Ids : reported'[s] = reported[f]
      <3>1. x \in Ids  BY <2>0 DEF TypeOK
      <3>2. CASE op = "copy"
        <4>1. reported' = [reported EXCEPT ![x] = reported[from]] /\ from \in Ids
          BY <2>0, <2>2, <3>2 DEF Finish, TypeOK
        <4> QED  BY <2>0, <3>1, <4>1 DEF TypeOK
      <3>3. CASE op # "copy"
        <4>1. /\ reported' = [reported EXCEPT ![x] = <<>>]
              /\ stopped' = [stopped EXCEPT ![x] = FALSE]
          BY <2>2, <3>3 DEF Finish
        <4>2. s # x  BY <2>0, <3>1, <4>1 DEF TypeOK
        <4> QED  BY <2>0, <3>1, <4>1, <4>2 DEF TypeOK
      <3> QED  BY <3>2, <3>3
    <2>3. ASSUME NEW r \in AllRules, NEW to \in Nat, NEW h \in BOOLEAN,
                 ~stopped[call.s], Callback(call.s, r, to, h)
          PROVE  reported'[s] = reported[s]
      <3>1. s # call.s  BY <2>3
      <3> QED  BY <2>0, <2>3, <3>1 DEF Callback, TypeOK
    <2>4. CASE \E x \in Streams, d \in Databases : hs_open_stream(x, d)
      BY <2>1, <2>4 DEF hs_open_stream, hist
    <2>5. CASE \E x, from \in Streams : hs_copy_stream(x, from)
      <3>1. PICK x \in Streams, from \in Streams : hs_copy_stream(x, from)  BY <2>5
      <3>2. reported' = [reported EXCEPT ![x] = reported[from]]  BY <3>1 DEF hs_copy_stream
      <3> QED  BY <2>0, <3>2 DEF TypeOK
    <2>6. CASE \E x \in Streams, c \in Chunk : hs_scan_stream(x, c)
      BY <2>1, <2>6 DEF hs_scan_stream, ScanInternal
    <2>7. CASE \E d \in Databases : hs_scan_vector(d)
      <3>1. /\ reported' = [reported EXCEPT !["bstate"] = <<>>]
            /\ stopped' = [stopped EXCEPT !["bstate"] = FALSE]
        BY <2>7 DEF hs_scan_vector
      <3>2. s # "bstate"  BY <2>0, <3>1 DEF TypeOK
      <3> QED  BY <2>0, <3>1, <3>2 DEF TypeOK
    <2>8. CASE \E c \in Chunk : VectorBlock(c)
      BY <2>1, <2>8 DEF VectorBlock, ScanInternal
    <2>9. CASE \E op \in EodOps, x \in Streams, from \in Streams \cup {"none"} :
                  EodBegin(op, x, from) \/ WithoutEvents(op, x, from)
      <3>1. PICK op \in EodOps, x \in Streams, from \in Streams \cup {"none"} :
                  EodBegin(op, x, from) \/ WithoutEvents(op, x, from)
        BY <2>9
      <3>2. CASE EodBegin(op, x, from)  BY <2>1, <3>2 DEF EodBegin, hist
      <3>3. CASE WithoutEvents(op, x, from)
        BY <2>2, <3>3 DEF WithoutEvents, CanCopy
      <3> QED  BY <3>1, <3>2, <3>3
    <2>10. ASSUME NEW h \in BOOLEAN, ZeroReport(h) PROVE reported'[s] = reported[s]
      <3>1. pc = "zero" /\ Writing /\ Callback(call.s, "zero", 0, h)
        BY <2>10 DEF ZeroReport, Writing
      <3> QED  BY <2>3, <3>1, WritingIs DEF AllRules
    <2>11. ASSUME NEW h \in BOOLEAN, ExecReport(h) PROVE reported'[s] = reported[s]
      <3>1. /\ pc = "exec" /\ Writing /\ Running
            /\ Callback(call.s, "fa", st[call.s].offset + pos + 1, h)
        BY <2>11 DEF ExecReport, Writing
      <3>2. ~stopped[call.s]  BY <3>1, NextIs, WritingIs
      <3>3. st[call.s].offset + pos + 1 \in Nat
        BY <2>0, <3>1, WritingIs DEF StreamState, TypeOK
      <3> QED  BY <2>3, <3>1, <3>2, <3>3 DEF AllRules
    <2>12. ASSUME NEW h \in BOOLEAN, EodReport(h) PROVE reported'[s] = reported[s]
      <3>1. /\ pc = "eod" /\ st[call.s].status = {}
            /\ Callback(call.s, EodRule(call.s), st[call.s].offset, h)
        BY <2>12 DEF EodReport, EodSkipped, Broken
      <3>2. ~stopped[call.s]  BY <3>1, EodIs DEF Terminated
      <3>3. st[call.s].offset \in Nat /\ EodRule(call.s) \in AllRules
        BY <3>1, EodIs DEF StreamState, EodRule, AllRules
      <3> QED  BY <2>3, <3>1, <3>2, <3>3
    <2>13. CASE ZeroNone \/ ExecByte \/ ExecDone \/ VectorClose \/ EodNone
      BY <2>1, <2>13 DEF ZeroNone, ExecByte, ExecDone, VectorClose, EodNone, hist
    <2>14. CASE EodFinish
      <3>1. CASE call.op = "vector"  BY <2>1, <2>14, <3>1 DEF EodFinish, hist
      <3>2. CASE call.op # "vector"
        <4>1. pc = "eod_done" /\ Finish(call.op, call.s, call.from)
          BY <2>14, <3>2 DEF EodFinish
        <4>2. /\ call.op \in EodOps /\ call.s \in open
              /\ call.op = "copy" => call.from \in open
          BY <3>2, <4>1, EodIs DEF EodOps
        <4>3. call.from \in Streams \cup {"none"}  BY <2>0 DEF TypeOK
        <4> QED  BY <2>2, <4>1, <4>2, <4>3
      <3> QED  BY <3>1, <3>2
    <2> QED
      BY <2>4, <2>5, <2>6, <2>7, <2>8, <2>9, <2>10, <2>11, <2>12, <2>13, <2>14
      DEF Next, CallStep
  <1>2. StoppedForGood <=> [][Silent]_vars  BY DEF StoppedForGood
  <1> HIDE DEF Silent
  <1> QED  BY <1>1, <1>2, StreamInvariant, PTL DEF Spec

----------------------------------------------------------------------------
(* The run of the NFA over a text, by induction over its length            *)

\* The order induction is over, as a set of pairs.
Below == {ss \in Nat \X Nat : ss[1] < ss[2]}

\* A set of numbers that is not empty has a least one.
LEMMA Least ==
    ASSUME NEW T, T \subseteq Nat, T # {}
    PROVE  \E x \in T : \A y \in T : x <= y
  <1>1. IsWellFoundedOn(Below, Nat)
    BY NatLessThanWellFounded, Zenon DEF OpToRel, Below
  <1>2. PICK x \in T : \A y \in T : ~ (<<y, x>> \in Below)
    BY <1>1, WFMin, Zenon
  <1>3. ASSUME NEW y \in T PROVE x <= y
    <2>1. x \in Nat /\ y \in Nat OBVIOUS
    <2>2. <<y, x>> \in Nat \X Nat /\ <<y, x>>[1] = y /\ <<y, x>>[2] = x  BY <2>1
    <2>3. y < x => <<y, x>> \in Below  BY <2>2 DEF Below
    <2> QED BY <1>2, <2>1, <2>3
  <1> QED BY <1>3

\* Induction, over a set that stands for the predicate.
LEMMA Climb ==
    ASSUME NEW S, 0 \in S, \A n \in Nat : n \in S => n + 1 \in S
    PROVE  Nat \subseteq S
  <1> SUFFICES ASSUME Nat \ S # {} PROVE FALSE  OBVIOUS
  <1>1. PICK x \in Nat \ S : \A y \in Nat \ S : x <= y  BY Least
  <1>2. x # 0 /\ x \in Nat  BY <1>1
  <1>3. x - 1 \in Nat /\ ~(x <= x - 1)  BY <1>2
  <1>4. x - 1 \in S  BY <1>1, <1>3
  <1>5. (x - 1) + 1 = x  BY <1>2
  <1> QED BY <1>1, <1>3, <1>4, <1>5

\* The body of the function Run.
RunStep(d, f, i) == IF i = 0 THEN Start ELSE Delta[f[i - 1]][d[i]]
\* A run over the first n bytes of d.
RunTo(d, n, f) ==
    /\ f \in [0 .. n -> NfaState] /\ f[0] = Start
    /\ \A i \in 1 .. n : f[i] = Delta[f[i - 1]][d[i]]

\* The function Run exists, and is what its definition says.
LEMMA RunIs ==
    ASSUME NEW d \in Seq(Byte)
    PROVE  /\ Run(d) \in [0 .. Len(d) -> NfaState]
           /\ Run(d)[0] = Start
           /\ \A i \in 1 .. Len(d) : Run(d)[i] = Delta[Run(d)[i - 1]][d[i]]
  <1> DEFINE S == {n \in Nat : n <= Len(d) => \E f : RunTo(d, n, f)}
  <1>1. 0 \in S
    <2>1. RunTo(d, 0, [i \in 0 .. 0 |-> Start])  BY NfaAssumption DEF RunTo
    <2> QED  BY <2>1
  <1>2. ASSUME NEW n \in Nat, n \in S PROVE n + 1 \in S
    <2> SUFFICES ASSUME n + 1 <= Len(d) PROVE \E f : RunTo(d, n + 1, f)
      OBVIOUS
    <2>1. PICK f : RunTo(d, n, f)  BY <1>2
    <2>2. f[n] \in NfaState /\ d[n + 1] \in Byte  BY <2>1 DEF RunTo
    <2>3. Delta[f[n]][d[n + 1]] \in NfaState  BY <2>2, NfaAssumption
    <2> DEFINE g == [i \in 0 .. n + 1 |-> IF i = n + 1 THEN Delta[f[n]][d[n + 1]] ELSE f[i]]
    <2>4. g \in [0 .. n + 1 -> NfaState]
      <3>1. \A i \in 0 .. n + 1 : i # n + 1 => f[i] \in NfaState  BY <2>1 DEF RunTo
      <3> QED  BY <2>3, <3>1
    <2>5. g[0] = Start  BY <2>1 DEF RunTo
    <2>6. ASSUME NEW i \in 1 .. n + 1 PROVE g[i] = Delta[g[i - 1]][d[i]]
      <3>1. i \in 0 .. n + 1 /\ i - 1 \in 0 .. n + 1 /\ i - 1 # n + 1  OBVIOUS
      <3>2. g[i - 1] = f[i - 1]  BY <3>1
      <3>3. CASE i = n + 1  BY <3>1, <3>2, <3>3
      <3>4. CASE i # n + 1
        <4>1. i \in 1 .. n  BY <3>4
        <4>2. g[i] = f[i]  BY <3>1, <3>4
        <4> QED  BY <2>1, <3>2, <4>1, <4>2 DEF RunTo
      <3> QED  BY <3>3, <3>4
    <2> HIDE DEF g
    <2> QED  BY <2>4, <2>5, <2>6 DEF RunTo
  <1>3. Nat \subseteq S
    <2> HIDE DEF S
    <2> QED  BY <1>1, <1>2, Climb
  <1>4. PICK f : RunTo(d, Len(d), f)
    <2>1. Len(d) \in Nat  OBVIOUS
    <2> QED  BY <1>3, <2>1
  <1>5. f = [i \in 0 .. Len(d) |-> RunStep(d, f, i)]
    <2>1. \A i \in 0 .. Len(d) : f[i] = RunStep(d, f, i)
      BY <1>4 DEF RunTo, RunStep
    <2> QED  BY <1>4, <2>1 DEF RunTo
  <1>6. Run(d) = CHOOSE h : h = [i \in 0 .. Len(d) |-> RunStep(d, h, i)]
    BY DEF Run, RunStep
  <1>7. Run(d) = [i \in 0 .. Len(d) |-> RunStep(d, Run(d), i)]
    BY <1>5, <1>6, Zenon
  <1>8. ASSUME NEW i \in 1 .. Len(d)
        PROVE  Run(d)[i] = Delta[Run(d)[i - 1]][d[i]]
    <2>1. i \in 0 .. Len(d) /\ i # 0  OBVIOUS
    <2>2. Run(d)[i] = RunStep(d, Run(d), i)  BY <1>7, <2>1, Zenon
    <2> QED  BY <2>1, <2>2 DEF RunStep
  <1>9. Run(d)[0] = Start
    <2>1. 0 \in 0 .. Len(d)  OBVIOUS
    <2>2. Run(d)[0] = RunStep(d, Run(d), 0)  BY <1>7, <2>1, Zenon
    <2> QED  BY <2>2 DEF RunStep
  <1>10. ASSUME NEW i \in 0 .. Len(d) PROVE Run(d)[i] = f[i]
    <2> DEFINE U == {n \in Nat : n <= Len(d) => Run(d)[n] = f[n]}
    <2>1. 0 \in U  BY <1>4, <1>9 DEF RunTo
    <2>2. ASSUME NEW n \in Nat, n \in U PROVE n + 1 \in U
      <3> SUFFICES ASSUME n + 1 <= Len(d) PROVE Run(d)[n + 1] = f[n + 1]
        OBVIOUS
      <3>1. n + 1 \in 1 .. Len(d) /\ (n + 1) - 1 = n  OBVIOUS
      <3>2. Run(d)[n] = f[n]  BY <2>2
      <3>3. Run(d)[n + 1] = Delta[Run(d)[n]][d[n + 1]]  BY <1>8, <3>1
      <3>4. f[n + 1] = Delta[f[n]][d[n + 1]]  BY <1>4, <3>1 DEF RunTo
      <3> QED  BY <3>2, <3>3, <3>4
    <2>3. Nat \subseteq U
      <3> HIDE DEF U
      <3> QED  BY <2>1, <2>2, Climb
    <2> QED  BY <2>3
  <1>11. Run(d) \in [0 .. Len(d) -> NfaState]
    <2>1. \A i \in 0 .. Len(d) : f[i] \in NfaState  BY <1>4 DEF RunTo
    <2>2. \A i \in 0 .. Len(d) : RunStep(d, Run(d), i) \in NfaState
      <3>1. \A i \in 0 .. Len(d) : Run(d)[i] = RunStep(d, Run(d), i)  BY <1>7, Zenon
      <3> QED  BY <1>10, <2>1, <3>1
    <2>3. [i \in 0 .. Len(d) |-> RunStep(d, Run(d), i)] \in [0 .. Len(d) -> NfaState]
      BY <2>2
    <2> QED  BY <1>7, <2>3
  <1> QED  BY <1>8, <1>9, <1>11

\* The run over a longer text begins with the run over the shorter one.
LEMMA RunPrefix ==
    ASSUME NEW d \in Seq(Byte), NEW c \in Seq(Byte), NEW i \in 0 .. Len(d)
    PROVE  Run(d \o c)[i] = Run(d)[i]
  <1> DEFINE U == {n \in Nat : n <= Len(d) => Run(d \o c)[n] = Run(d)[n]}
  <1>1. d \o c \in Seq(Byte) /\ Len(d \o c) = Len(d) + Len(c)  OBVIOUS
  <1>2. 0 \in U  BY <1>1, RunIs
  <1>3. ASSUME NEW n \in Nat, n \in U PROVE n + 1 \in U
    <2> SUFFICES ASSUME n + 1 <= Len(d) PROVE Run(d \o c)[n + 1] = Run(d)[n + 1]
      OBVIOUS
    <2>1. n + 1 \in 1 .. Len(d) /\ n + 1 \in 1 .. Len(d \o c) /\ (n + 1) - 1 = n  BY <1>1
    <2>2. (d \o c)[n + 1] = d[n + 1]  BY <2>1
    <2>3. Run(d \o c)[n] = Run(d)[n]  BY <1>3
    <2>4. Run(d \o c)[n + 1] = Delta[Run(d \o c)[n]][(d \o c)[n + 1]]
      BY <1>1, <2>1, RunIs
    <2>5. Run(d)[n + 1] = Delta[Run(d)[n]][d[n + 1]]  BY <2>1, RunIs
    <2> QED  BY <2>2, <2>3, <2>4, <2>5
  <1>4. Nat \subseteq U
    <2> HIDE DEF U
    <2> QED  BY <1>2, <1>3, Climb
  <1> QED  BY <1>4

\* A dead automaton stays dead.
LEMMA RunDead ==
    ASSUME NEW d \in Seq(Byte), NEW i \in 0 .. Len(d), Run(d)[i] = Dead,
           NEW j \in i .. Len(d)
    PROVE  Run(d)[j] = Dead
  <1> DEFINE U == {n \in Nat : i + n <= Len(d) => Run(d)[i + n] = Dead}
  <1>1. 0 \in U  OBVIOUS
  <1>2. ASSUME NEW n \in Nat, n \in U PROVE n + 1 \in U
    <2> SUFFICES ASSUME i + (n + 1) <= Len(d) PROVE Run(d)[i + (n + 1)] = Dead
      OBVIOUS
    <2>1. i + n + 1 \in 1 .. Len(d) /\ (i + n + 1) - 1 = i + n /\ i + (n + 1) = i + n + 1
      OBVIOUS
    <2>2. Run(d)[i + n] = Dead  BY <1>2
    <2>3. Run(d)[i + n + 1] = Delta[Dead][d[i + n + 1]]  BY <2>1, <2>2, RunIs
    <2>4. d[i + n + 1] \in Byte  BY <2>1
    <2> QED  BY <2>1, <2>3, <2>4, NfaAssumption
  <1>3. Nat \subseteq U
    <2> HIDE DEF U
    <2> QED  BY <1>1, <1>2, Climb
  <1>4. j - i \in Nat /\ i + (j - i) = j /\ j <= Len(d)  OBVIOUS
  <1>5. j - i \in U  BY <1>3, <1>4
  <1>6. i + (j - i) <= Len(d) => Run(d)[i + (j - i)] = Dead  BY <1>5
  <1> QED  BY <1>4, <1>6

----------------------------------------------------------------------------
(* Events *)

LEMMA MatchesIs ==
    ASSUME NEW d \in Seq(Byte)
    PROVE  /\ Matches(d) \subseteq Event
           /\ \A e : e \in Matches(d) <=>
                \/ e = [rule |-> "zero", to |-> 0] /\ d # <<>>
                \/ \E k \in 1 .. Len(d) : /\ e = [rule |-> "fa", to |-> k]
                                          /\ Run(d)[k] \in Accept
           /\ \A e \in Matches(d) : e.to \in 0 .. Len(d) /\ e.rule \in {"zero", "fa"}
  <1>1. d # <<>> <=> 1 \in 1 .. Len(d)  OBVIOUS
  <1>2. \A e : e \in Matches(d) <=>
                \/ e = [rule |-> "zero", to |-> 0] /\ d # <<>>
                \/ \E k \in 1 .. Len(d) : /\ e = [rule |-> "fa", to |-> k]
                                          /\ Run(d)[k] \in Accept
    BY <1>1 DEF Matches
  <1>3. \A e \in Matches(d) : /\ e.to \in 0 .. Len(d) /\ e.rule \in {"zero", "fa"}
                              /\ e \in Event
    BY <1>2 DEF Event, AllRules
  <1> QED  BY <1>2, <1>3

LEMMA MatchesEodIs ==
    ASSUME NEW d \in Seq(Byte)
    PROVE  /\ MatchesEod(d) \subseteq Event
           /\ \A e \in MatchesEod(d) :
                 /\ e.to = Len(d)
                 /\ e.rule = IF d = <<>> THEN "zeroEod" ELSE "eod"
                 /\ d # <<>> => Run(d)[Len(d)] \in AcceptEod
           /\ d = <<>> => [rule |-> "zeroEod", to |-> 0] \in MatchesEod(d)
           /\ d # <<>> /\ Run(d)[Len(d)] \in AcceptEod
                 => [rule |-> "eod", to |-> Len(d)] \in MatchesEod(d)
  <1>1. CASE d = <<>>
    <2>1. MatchesEod(d) = {[rule |-> "zeroEod", to |-> 0]}  BY <1>1 DEF MatchesEod
    <2> QED  BY <1>1, <2>1 DEF Event, AllRules
  <1>2. CASE d # <<>>
    <2>1. \A e : e \in MatchesEod(d) <=> /\ e = [rule |-> "eod", to |-> Len(d)]
                                         /\ Run(d)[Len(d)] \in AcceptEod
      BY <1>2 DEF MatchesEod
    <2>2. Len(d) \in Nat  OBVIOUS
    <2> QED  BY <1>2, <2>1, <2>2 DEF Event, AllRules
  <1> QED  BY <1>1, <1>2

\* A match of the NFA.
Fa(k) == [rule |-> "fa", to |-> k]

\* What has been reported, what is due of all data, and the keys that are on.
Events(g)      == {g[i] : i \in DOMAIN g}
InTurn(g)      == \A i, j \in DOMAIN g : i < j => Before(g[i], g[j])
KeysOf(db, E)  == {db.key[e.rule] : e \in E} \ {NoKey}
Whole(x, d)    == Due(Matches(d), x.db)
UpTo(x, d, n)  == {e \in Whole(x, d) : e.to <= n}
WholeEod(x, d) == Due(Matches(d) \cup MatchesEod(d), x.db)

\* Of the matches with a key the first is always due.
LEMMA FirstOfKey ==
    ASSUME NEW m, m \subseteq Event, NEW db, NEW f \in m,
           f.rule \in DOMAIN db.key, db.key[f.rule] # NoKey
    PROVE  \E e \in Due(m, db) : db.key[e.rule] = db.key[f.rule]
  <1> DEFINE same == {e \in m : e.rule \in DOMAIN db.key /\ db.key[e.rule] = db.key[f.rule]}
             T == {e.to : e \in same}
  <1>1. f \in same /\ \A e \in same : e.to \in Nat  BY DEF Event
  <1>2. T \subseteq Nat /\ T # {}  BY <1>1
  <1>3. PICK t \in T : \A u \in T : t <= u
    <2> HIDE DEF T
    <2> QED  BY <1>2, Least
  <1> DEFINE first == {e \in same : e.to = t}
  <1>4. PICK e \in first : e.rule # "eod" \/ \A g \in first : g.rule = "eod"
    BY <1>3
  <1>5. ASSUME NEW g \in m, g.rule \in DOMAIN db.key, db.key[g.rule] = db.key[e.rule]
        PROVE  ~Before(g, e)
    <2>1. g \in same  BY <1>4, <1>5
    <2>2. g.to \in Nat /\ e.to = t /\ t \in Nat /\ t <= g.to  BY <1>1, <1>2, <1>3, <1>4, <2>1
    <2>3. g.to = e.to => g \in first  BY <2>1, <2>2
    <2> QED  BY <1>4, <2>2, <2>3 DEF Before
  <1>6. e \in Due(m, db)  BY <1>4, <1>5 DEF Due
  <1> QED  BY <1>4, <1>6

\* Matches added after the others do not change what is due of those.
LEMMA DueIn ==
    ASSUME NEW m, NEW p, p \subseteq m, NEW db,
           \A f \in m \ p, e \in p : ~Before(f, e)
    PROVE  Due(p, db) = Due(m, db) \cap p
  BY DEF Due

\* A match that all earlier ones come before is due if its key is not on.
LEMMA NextDue ==
    ASSUME NEW m, NEW p, p \subseteq m, m \subseteq Event, NEW db, NEW e \in m,
           \A f \in p : Before(f, e), \A f \in m \ p : ~Before(f, e),
           e.rule \in DOMAIN db.key
    PROVE  e \in Due(m, db) <=>
              db.key[e.rule] = NoKey \/ db.key[e.rule] \notin KeysOf(db, Due(p, db))
  <1>1. \A f \in Due(p, db) : f \in p /\ f.rule \in DOMAIN db.key  BY DEF Due
  <1>2. ASSUME e \in Due(m, db), db.key[e.rule] # NoKey, NEW f \in Due(p, db)
        PROVE  db.key[e.rule] # db.key[f.rule]
    BY <1>1, <1>2 DEF Due
  <1>3. ASSUME e \notin Due(m, db)
        PROVE  /\ db.key[e.rule] # NoKey
               /\ \E f \in Due(p, db) : db.key[f.rule] = db.key[e.rule]
    <2>1. db.key[e.rule] # NoKey  BY <1>3 DEF Due
    <2>2. PICK f \in m : /\ f.rule \in DOMAIN db.key /\ db.key[f.rule] = db.key[e.rule]
                         /\ Before(f, e)
      BY <1>3 DEF Due
    <2>3. f \in p  BY <2>2
    <2>4. p \subseteq Event  OBVIOUS
    <2> QED  BY <2>1, <2>2, <2>3, <2>4, FirstOfKey
  <1> QED  BY <1>2, <1>3 DEF KeysOf

LEMMA AllOnDue ==
    ASSUME NEW m, NEW p, p \subseteq m, m \subseteq Event, NEW db,
           \A f \in p, e \in m \ p : Before(f, e),
           \A f \in m \ p, e \in p : ~Before(f, e),
           \A r \in DOMAIN db.key : db.key[r] \in {db.key[f.rule] : f \in Due(p, db)} \ {NoKey}
    PROVE  Due(m, db) = Due(p, db)
  <1>1. Due(p, db) = Due(m, db) \cap p  BY DueIn
  <1>2. ASSUME NEW e \in Due(m, db), e \notin p PROVE FALSE
    <2>1. e \in m /\ e.rule \in DOMAIN db.key  BY <1>2 DEF Due
    <2>2. PICK f \in Due(p, db) : db.key[f.rule] = db.key[e.rule]  BY <2>1
    <2>3. f \in p /\ f \in m /\ f.rule \in DOMAIN db.key  BY <2>2 DEF Due
    <2>4. Before(f, e)  BY <1>2, <2>1, <2>3
    <2> QED  BY <2>1, <2>2, <2>3, <2>4 DEF Due
  <1> QED  BY <1>1, <1>2

LEMMA Reported ==
    ASSUME NEW g \in Seq(Event), NEW e \in Event
    PROVE  /\ Append(g, e) \in Seq(Event)
           /\ Events(Append(g, e)) = Events(g) \cup {e}
           /\ InTurn(g) /\ (\A f \in Events(g) : Before(f, e)) => InTurn(Append(g, e))
  <1> DEFINE h == Append(g, e)
  <1>1. /\ h \in Seq(Event) /\ DOMAIN g = 1 .. Len(g) /\ DOMAIN h = 1 .. Len(g) + 1
        /\ h[Len(g) + 1] = e /\ \A i \in 1 .. Len(g) : h[i] = g[i]
        /\ Len(g) \in Nat
    OBVIOUS
  <1> HIDE DEF h
  <1>2. \A i \in DOMAIN h : i \in DOMAIN g \/ i = Len(g) + 1  BY <1>1
  <1>3. Events(h) = Events(g) \cup {e}
    <2>1. \A f \in Events(h) : f \in Events(g) \cup {e}  BY <1>1, <1>2 DEF Events
    <2>2. \A f \in Events(g) : f \in Events(h)
      <3>1. \A i \in DOMAIN g : i \in DOMAIN h  BY <1>1
      <3> QED  BY <1>1, <3>1 DEF Events
    <2>3. e \in Events(h)
      <3>1. Len(g) + 1 \in DOMAIN h  BY <1>1
      <3> QED  BY <1>1, <3>1 DEF Events
    <2> QED  BY <2>1, <2>2, <2>3
  <1>4. ASSUME InTurn(g), \A f \in Events(g) : Before(f, e)
        PROVE  InTurn(h)
    <2> SUFFICES ASSUME NEW i \in DOMAIN h, NEW j \in DOMAIN h, i < j
                 PROVE  Before(h[i], h[j])
      BY DEF InTurn
    <2>1. i \in DOMAIN g /\ h[i] = g[i]  BY <1>1
    <2>2. CASE j \in DOMAIN g  BY <1>1, <1>4, <2>1, <2>2 DEF InTurn
    <2>3. CASE j = Len(g) + 1
      <3>1. g[i] \in Events(g)  BY <2>1 DEF Events
      <3> QED  BY <1>1, <1>4, <2>1, <2>3, <3>1
    <2> QED  BY <1>2, <2>2, <2>3
  <1> QED  BY <1>1, <1>3, <1>4 DEF h

LEMMA NoneReported ==
    Events(<<>>) = {} /\ InTurn(<<>>) /\ (\A db : KeysOf(db, {}) = {})
  BY DEF Events, InTurn, KeysOf

\* A scan of an empty text matches nothing.
LEMMA WholeOfNothing == ASSUME NEW x PROVE Whole(x, <<>>) = {}
  <1>1. <<>> \in Seq(Byte) /\ 1 .. Len(<<>>) = {}  OBVIOUS
  <1>2. Matches(<<>>) = {}  BY <1>1, MatchesIs
  <1> QED  BY <1>2 DEF Whole, Due

LEMMA MatchesGrow ==
    ASSUME NEW d \in Seq(Byte), NEW c \in Seq(Byte)
    PROVE  /\ Matches(d) \subseteq Matches(d \o c)
           /\ d # <<>> => \A e \in Matches(d \o c) :
                             e \in Matches(d) <=> e.to <= Len(d)
  <1>1. d \o c \in Seq(Byte) /\ Len(d \o c) = Len(d) + Len(c)  OBVIOUS
  <1>2. d # <<>> => d \o c # <<>>  BY <1>1
  <1>3. \A k \in 1 .. Len(d) : k \in 1 .. Len(d \o c) /\ Run(d \o c)[k] = Run(d)[k]
    BY <1>1, RunPrefix
  <1>4. ASSUME NEW e \in Matches(d) PROVE e \in Matches(d \o c)
    <2>1. CASE e = [rule |-> "zero", to |-> 0] /\ d # <<>>
      BY <1>1, <1>2, <2>1, MatchesIs
    <2>2. CASE \E k \in 1 .. Len(d) : e = [rule |-> "fa", to |-> k] /\ Run(d)[k] \in Accept
      <3>1. PICK k \in 1 .. Len(d) : e = [rule |-> "fa", to |-> k] /\ Run(d)[k] \in Accept
        BY <2>2
      <3> QED  BY <1>1, <1>3, <3>1, MatchesIs
    <2> QED  BY <2>1, <2>2, MatchesIs
  <1>5. ASSUME d # <<>>, NEW e \in Matches(d \o c), e.to <= Len(d)
        PROVE  e \in Matches(d)
    <2>1. CASE e = [rule |-> "zero", to |-> 0]  BY <1>5, <2>1, MatchesIs
    <2>2. CASE e # [rule |-> "zero", to |-> 0]
      <3>1. PICK k \in 1 .. Len(d \o c) : /\ e = [rule |-> "fa", to |-> k]
                                          /\ Run(d \o c)[k] \in Accept
        BY <1>1, <2>2, MatchesIs
      <3>2. k \in 1 .. Len(d)  BY <1>1, <1>5, <3>1
      <3> QED  BY <1>3, <3>1, <3>2, MatchesIs
    <2> QED  BY <2>1, <2>2
  <1>6. \A e \in Matches(d) : e.to <= Len(d)  BY MatchesIs
  <1> QED  BY <1>4, <1>5, <1>6

\* What was due of the text so far is what is due of a longer one up to there.
LEMMA WholeGrows ==
    ASSUME NEW d \in Seq(Byte), NEW c \in Seq(Byte), NEW x
    PROVE  /\ Whole(x, d) \subseteq Whole(x, d \o c)
           /\ d # <<>> => UpTo(x, d \o c, Len(d)) = Whole(x, d)
  <1>1. d \o c \in Seq(Byte)  OBVIOUS
  <1>2. CASE d = <<>>  BY <1>2, WholeOfNothing
  <1>3. CASE d # <<>>
    <2>1. ASSUME NEW f \in Matches(d \o c) \ Matches(d), NEW e \in Matches(d)
          PROVE  ~Before(f, e)
      <3>1. ~(f.to <= Len(d)) /\ f.to \in Nat /\ e.to \in Nat /\ e.to <= Len(d)
        BY <1>1, <1>3, MatchesGrow, MatchesIs DEF Event
      <3> QED  BY <3>1 DEF Before
    <2>2. Whole(x, d) = Whole(x, d \o c) \cap Matches(d)
      BY <2>1, MatchesGrow, DueIn DEF Whole
    <2>3. \A e \in Whole(x, d \o c) : e \in Matches(d \o c)  BY DEF Whole, Due
    <2> QED  BY <1>3, <2>2, <2>3, MatchesGrow DEF UpTo
  <1> QED  BY <1>2, <1>3

\* An automaton that died, and keys that are all on, leave nothing to report.
LEMMA WholeOfDead ==
    ASSUME NEW d \in Seq(Byte), NEW c \in Seq(Byte), NEW x, d # <<>>,
           Run(d)[Len(d)] = Dead
    PROVE  Whole(x, d \o c) = Whole(x, d) /\ Run(d \o c)[Len(d \o c)] = Dead
  <1>1. d \o c \in Seq(Byte) /\ Len(d \o c) = Len(d) + Len(c) /\ Len(d) \in Nat /\ Len(c) \in Nat
    OBVIOUS
  <1>2. Run(d \o c)[Len(d)] = Dead  BY RunPrefix
  <1>3. \A k \in Len(d) .. Len(d \o c) : Run(d \o c)[k] = Dead
    <2>1. Len(d) \in 0 .. Len(d \o c)  BY <1>1
    <2> QED  BY <1>1, <1>2, <2>1, RunDead
  <1>4. Matches(d \o c) = Matches(d)
    <2>1. ASSUME NEW e \in Matches(d \o c), ~(e.to <= Len(d)) PROVE FALSE
      <3>1. CASE e = [rule |-> "zero", to |-> 0]  BY <1>1, <2>1, <3>1
      <3>2. CASE e # [rule |-> "zero", to |-> 0]
        <4>1. PICK k \in 1 .. Len(d \o c) : /\ e = [rule |-> "fa", to |-> k]
                                            /\ Run(d \o c)[k] \in Accept
          BY <1>1, <3>2, MatchesIs
        <4>2. k \in Len(d) .. Len(d \o c)  BY <1>1, <2>1, <4>1
        <4> QED  BY <1>3, <4>1, <4>2, NfaAssumption
      <3> QED  BY <3>1, <3>2
    <2> QED  BY <2>1, MatchesGrow
  <1>5. Len(d \o c) \in Len(d) .. Len(d \o c)  BY <1>1
  <1> QED  BY <1>3, <1>4, <1>5 DEF Whole

LEMMA WholeOfAllOn ==
    ASSUME NEW d \in Seq(Byte), NEW c \in Seq(Byte), NEW x, d # <<>>,
           AllOn(x.db, KeysOf(x.db, Whole(x, d)))
    PROVE  Whole(x, d \o c) = Whole(x, d)
  <1> DEFINE m == Matches(d \o c)
             p == Matches(d)
  <1>1. d \o c \in Seq(Byte)  OBVIOUS
  <1>2. p \subseteq m /\ m \subseteq Event  BY <1>1, MatchesGrow, MatchesIs
  <1>3. ASSUME NEW f \in p, NEW e \in m \ p PROVE Before(f, e) /\ ~Before(e, f)
    <2>1. f.to \in Nat /\ e.to \in Nat /\ Len(d) \in Nat /\ f.to <= Len(d) /\ ~(e.to <= Len(d))
      BY <1>2, <1>3, MatchesGrow, MatchesIs DEF Event
    <2> QED  BY <2>1 DEF Before
  <1>4. \A r \in DOMAIN x.db.key : x.db.key[r] \in {x.db.key[f.rule] : f \in Due(p, x.db)} \ {NoKey}
    BY DEF AllOn, KeysOf, Whole
  <1> HIDE DEF m, p
  <1>5. Due(m, x.db) = Due(p, x.db)  BY <1>2, <1>3, <1>4, AllOnDue
  <1> QED  BY <1>5 DEF Whole, m, p

\* The matches due up to a byte.
LEMMA UpToIs ==
    ASSUME NEW d \in Seq(Byte), NEW x, NEW n \in Nat
    PROVE  UpTo(x, d, n) = Due({f \in Matches(d) : f.to <= n}, x.db)
  <1> DEFINE m == Matches(d)
             p == {f \in m : f.to <= n}
  <1>1. m \subseteq Event  BY MatchesIs
  <1>2. ASSUME NEW f \in m \ p, NEW e \in p PROVE ~Before(f, e)
    <2>1. f.to \in Nat /\ e.to \in Nat /\ ~(f.to <= n) /\ e.to <= n
      BY <1>1 DEF Event
    <2> QED  BY <2>1 DEF Before
  <1>3. Due(p, x.db) = Due(m, x.db) \cap p  BY <1>2, DueIn
  <1>4. \A e \in Due(m, x.db) : e \in m  BY DEF Due
  <1> QED  BY <1>3, <1>4 DEF UpTo, Whole

LEMMA UpToAllOn ==
    ASSUME NEW d \in Seq(Byte), NEW x, NEW n \in Nat,
           AllOn(x.db, KeysOf(x.db, UpTo(x, d, n)))
    PROVE  UpTo(x, d, n) = Whole(x, d)
  <1> DEFINE m == Matches(d)
             p == {f \in m : f.to <= n}
  <1>1. p \subseteq m /\ m \subseteq Event  BY MatchesIs
  <1>2. ASSUME NEW f \in p, NEW e \in m \ p PROVE Before(f, e) /\ ~Before(e, f)
    <2>1. f.to \in Nat /\ e.to \in Nat /\ f.to <= n /\ ~(e.to <= n)
      BY <1>1 DEF Event
    <2> QED  BY <2>1 DEF Before
  <1>3. UpTo(x, d, n) = Due(p, x.db)  BY UpToIs
  <1>4. \A r \in DOMAIN x.db.key : x.db.key[r] \in {x.db.key[f.rule] : f \in Due(p, x.db)} \ {NoKey}
    BY <1>3 DEF AllOn, KeysOf
  <1> HIDE DEF m, p
  <1>5. Due(m, x.db) = Due(p, x.db)  BY <1>1, <1>2, <1>4, AllOnDue
  <1> QED  BY <1>3, <1>5 DEF Whole, m, p

LEMMA UpToDead ==
    ASSUME NEW d \in Seq(Byte), NEW x, NEW n \in 0 .. Len(d),
           Run(d)[n] = Dead \/ n = Len(d)
    PROVE  UpTo(x, d, n) = Whole(x, d)
  <1> SUFFICES ASSUME NEW e \in Matches(d) PROVE e.to <= n
    BY DEF UpTo, Whole, Due
  <1>1. CASE n = Len(d)  BY <1>1, MatchesIs
  <1>2. CASE Run(d)[n] = Dead
    <2>1. CASE e = [rule |-> "zero", to |-> 0]  BY <2>1
    <2>2. CASE e # [rule |-> "zero", to |-> 0]
      <3>1. PICK k \in 1 .. Len(d) : e = [rule |-> "fa", to |-> k] /\ Run(d)[k] \in Accept
        BY <2>2, MatchesIs
      <3>2. ~(k <= n) => k \in n .. Len(d)  OBVIOUS
      <3>3. ~(k <= n) => Run(d)[k] = Dead  BY <1>2, <3>2, RunDead
      <3> QED  BY <3>1, <3>3, NfaAssumption
    <2> QED  BY <2>1, <2>2
  <1> QED  BY <1>1, <1>2

LEMMA UpToZero ==
    ASSUME NEW d \in Seq(Byte), d # <<>>, NEW x
    PROVE  UpTo(x, d, 0) = IF "zero" \in DOMAIN x.db.key THEN {[rule |-> "zero", to |-> 0]} ELSE {}
  <1> DEFINE z == [rule |-> "zero", to |-> 0]
             p == {f \in Matches(d) : f.to <= 0}
  <1>1. p = {z}
    <2>1. z \in p  BY MatchesIs
    <2>2. ASSUME NEW f \in p PROVE f = z
      <3>1. ~\E k \in 1 .. Len(d) : f = [rule |-> "fa", to |-> k] /\ Run(d)[k] \in Accept
        BY <2>2
      <3> QED  BY <2>2, <3>1, MatchesIs
    <2> QED  BY <2>1, <2>2
  <1>2. ~Before(z, z)  BY DEF Before
  <1>3. UpTo(x, d, 0) = Due({z}, x.db)  BY <1>1, UpToIs
  <1> HIDE DEF p
  <1>4. z.rule = "zero"  OBVIOUS
  <1> HIDE DEF z
  <1>5. Due({z}, x.db) = IF "zero" \in DOMAIN x.db.key THEN {z} ELSE {}
    BY <1>2, <1>4 DEF Due
  <1> QED  BY <1>3, <1>5 DEF z

\* One byte on.
LEMMA UpToNext ==
    ASSUME NEW d \in Seq(Byte), NEW x, "fa" \in DOMAIN x.db.key, NEW n \in Nat,
           n + 1 <= Len(d), NEW e, e = Fa(n + 1)
    PROVE  /\ e \in UpTo(x, d, n + 1) <=>
                 /\ Run(d)[n + 1] \in Accept
                 /\ \/ x.db.key["fa"] = NoKey
                    \/ x.db.key["fa"] \notin KeysOf(x.db, UpTo(x, d, n))
           /\ UpTo(x, d, n + 1) \ {e} = UpTo(x, d, n)
           /\ \A f \in UpTo(x, d, n) : Before(f, e)
  <1> DEFINE m == Matches(d)
             p == {f \in m : f.to <= n}
  <1>1. m \subseteq Event /\ p \subseteq m  BY MatchesIs
  <1> USE DEF Fa
  <1>2. e.rule = "fa" /\ e.to = n + 1  OBVIOUS
  <1>3. n + 1 \in 1 .. Len(d)  OBVIOUS
  <1>4. e \in m <=> Run(d)[n + 1] \in Accept  BY <1>2, <1>3, MatchesIs
  <1>5. \A f \in p : Before(f, e)
    <2> TAKE f \in p
    <2>1. f.to \in Nat /\ f.to < n + 1  BY <1>1 DEF Event
    <2> QED  BY <1>2, <2>1 DEF Before
  <1>6. \A f \in m \ p : ~Before(f, e)
    <2> TAKE f \in m \ p
    <2>1. f.to \in Nat /\ ~(f.to < n + 1)  BY <1>1 DEF Event
    <2> QED  BY <1>2, <2>1 DEF Before
  <1>7. UpTo(x, d, n) = Due(p, x.db)  BY UpToIs
  <1>8. \A f \in m : f.to <= n + 1 /\ ~(f.to <= n) => f = e
    <2> TAKE f \in m
    <2> HAVE f.to <= n + 1 /\ ~(f.to <= n)
    <2>1. f.to = n + 1  BY <1>1 DEF Event
    <2>2. f # [rule |-> "zero", to |-> 0]  BY <2>1
    <2>3. PICK k \in 1 .. Len(d) : f = [rule |-> "fa", to |-> k]  BY <2>2, MatchesIs
    <2> QED  BY <2>1, <2>3
  <1>9. \A f \in Whole(x, d) : f \in m  BY DEF Whole, Due
  <1>10. UpTo(x, d, n + 1) \ {e} = UpTo(x, d, n)
    <2>1. \A f \in m : f.to <= n => f.to <= n + 1 /\ f # e  BY <1>1, <1>2 DEF Event
    <2> QED  BY <1>8, <1>9, <2>1 DEF UpTo
  <1>11. e \in UpTo(x, d, n + 1) <=> e \in Due(m, x.db)  BY <1>2 DEF UpTo, Whole
  <1>12. e \in Due(m, x.db) => e \in m  BY DEF Due
  <1>13. ASSUME e \in m
         PROVE  e \in Due(m, x.db) <=>
                   \/ x.db.key["fa"] = NoKey
                   \/ x.db.key["fa"] \notin KeysOf(x.db, UpTo(x, d, n))
    <2> HIDE DEF m, p
    <2>1. e \in Due(m, x.db) <=>
              x.db.key[e.rule] = NoKey \/ x.db.key[e.rule] \notin KeysOf(x.db, Due(p, x.db))
      BY <1>1, <1>2, <1>5, <1>6, <1>13, NextDue
    <2> QED  BY <1>2, <1>7, <2>1
  <1>14. \A f \in UpTo(x, d, n) : f \in p  BY <1>9 DEF UpTo
  <1> QED  BY <1>4, <1>5, <1>10, <1>11, <1>12, <1>13, <1>14

\* The end of the data.
LEMMA EodDueIs ==
    ASSUME NEW d \in Seq(Byte), NEW x
    PROVE  /\ WholeEod(x, d) \subseteq Whole(x, d) \cup Due(MatchesEod(d), x.db)
           /\ \A e : e \in WholeEod(x, d) <=>
                \/ e \in Whole(x, d)
                \/ /\ e \in MatchesEod(d) /\ e.rule \in DOMAIN x.db.key
                   /\ \/ x.db.key[e.rule] = NoKey
                      \/ x.db.key[e.rule] \notin KeysOf(x.db, Whole(x, d))
           /\ \A f \in Whole(x, d), e \in MatchesEod(d) : Before(f, e)
  <1> DEFINE p == Matches(d)
             m == p \cup MatchesEod(d)
  <1>1. p \subseteq m /\ m \subseteq Event  BY MatchesIs, MatchesEodIs
  <1>2. ASSUME NEW f \in p, NEW e \in MatchesEod(d) PROVE Before(f, e) /\ ~Before(e, f)
    <2>1. d # <<>>
      <3>1. Matches(<<>>) = {}
        <4>1. <<>> \in Seq(Byte) /\ 1 .. Len(<<>>) = {}  OBVIOUS
        <4> QED  BY <4>1, MatchesIs
      <3> QED  BY <1>2, <3>1
    <2>2. f.to \in 0 .. Len(d) /\ f.rule # "eod" /\ e.to = Len(d) /\ e.rule = "eod"
      BY <2>1, MatchesIs, MatchesEodIs
    <2> QED  BY <2>2 DEF Before
  <1>3. ASSUME NEW e \in MatchesEod(d) PROVE e \notin p
    <2>1. e.rule \notin {"zero", "fa"}  BY MatchesEodIs
    <2> QED  BY <2>1, MatchesIs
  <1>4. ASSUME NEW f \in MatchesEod(d), NEW e \in MatchesEod(d) PROVE ~Before(f, e)
    <2>0. Len(d) \in Nat  OBVIOUS
    <2>1. f.to = Len(d) /\ e.to = Len(d)  BY MatchesEodIs
    <2>2. f.rule = e.rule  BY MatchesEodIs
    <2> QED  BY <2>0, <2>1, <2>2 DEF Before
  <1>5. \A f \in m \ p, e \in p : ~Before(f, e)  BY <1>2
  <1>6. Due(p, x.db) = Due(m, x.db) \cap p
    <2> HIDE DEF m, p
    <2> QED  BY <1>1, <1>5, DueIn
  <1>7. \A e \in Due(m, x.db) : e \in m /\ e.rule \in DOMAIN x.db.key  BY DEF Due
  <1>8. \A f \in Due(p, x.db) : f \in p  BY DEF Due
  <1>9. ASSUME NEW e \in MatchesEod(d), e.rule \in DOMAIN x.db.key
        PROVE  e \in Due(m, x.db) <=>
                  x.db.key[e.rule] = NoKey \/ x.db.key[e.rule] \notin KeysOf(x.db, Due(p, x.db))
    <2>1. \A f \in p : Before(f, e)  BY <1>2
    <2>2. \A f \in m \ p : ~Before(f, e)  BY <1>4
    <2>3. e \in m  OBVIOUS
    <2> HIDE DEF m, p
    <2>4. e \in Due(m, x.db) <=>
              x.db.key[e.rule] = NoKey \/ x.db.key[e.rule] \notin KeysOf(x.db, Due(p, x.db))
      BY <1>1, <1>9, <2>1, <2>2, <2>3, NextDue
    <2> QED  BY <2>4
  <1>10. \A e \in Due(m, x.db) : e \in MatchesEod(d) => e \in Due(MatchesEod(d), x.db)
    BY DEF Due
  <1>11. Whole(x, d) = Due(p, x.db) /\ WholeEod(x, d) = Due(m, x.db)  BY DEF Whole, WholeEod
  <1>12. \A e : e \in m <=> e \in p \/ e \in MatchesEod(d)  OBVIOUS
  <1> HIDE DEF p, m
  <1>13. WholeEod(x, d) \subseteq Whole(x, d) \cup Due(MatchesEod(d), x.db)
    BY <1>6, <1>7, <1>10, <1>11, <1>12
  <1>14. \A f \in Whole(x, d), e \in MatchesEod(d) : Before(f, e)
    BY <1>2, <1>8, <1>11
  <1>15. ASSUME NEW e
         PROVE  e \in WholeEod(x, d) <=>
                \/ e \in Whole(x, d)
                \/ /\ e \in MatchesEod(d) /\ e.rule \in DOMAIN x.db.key
                   /\ \/ x.db.key[e.rule] = NoKey
                      \/ x.db.key[e.rule] \notin KeysOf(x.db, Whole(x, d))
    <2>1. CASE e \in p
      <3>1. e \notin MatchesEod(d)  BY <1>3, <2>1
      <3>2. e \in Due(p, x.db) <=> e \in Due(m, x.db)  BY <1>6, <2>1
      <3> QED  BY <1>11, <3>1, <3>2
    <2>2. CASE e \notin p
      <3>1. e \notin Due(p, x.db)  BY <1>8, <2>2
      <3>2. e \in Due(m, x.db) => e \in MatchesEod(d) /\ e.rule \in DOMAIN x.db.key
        BY <1>7, <1>12, <2>2
      <3> QED  BY <1>9, <1>11, <3>1, <3>2
    <2> QED  BY <2>1, <2>2
  <1> QED  BY <1>13, <1>14, <1>15

----------------------------------------------------------------------------
(* What a stream has reported: the second invariant                        *)

\* A stream that no call is in the middle of writing to or ending.
RestOK(x, d, g, stop) ==
    /\ InTurn(g)
    /\ Events(g) \subseteq Whole(x, d)
    /\ ~stop => /\ Events(g) = Whole(x, d)
                /\ x.evec = KeysOf(x.db, Events(g))
                /\ x.status = {} => /\ x.offset = Len(d)
                                    /\ d # <<>> => x.nfa = Run(d)[Len(d)]
                /\ x.status # {} => /\ d # <<>>
                                    /\ Run(d)[Len(d)] = Dead \/ AllOn(x.db, x.evec)

\* A stream that chunk c is being written to.
WriteOK(x, d, g, stop, c) ==
    /\ c # <<>> /\ Len(d) = x.offset + Len(c)
    /\ \A k \in 1 .. Len(c) : d[x.offset + k] = c[k]
    /\ InTurn(g)
    /\ Events(g) \subseteq Whole(x, d)
    /\ ~stop => x.evec = KeysOf(x.db, Events(g))

\* Before the NFA, which begins at the stored state.
ZeroOK(x, d, g) ==
    /\ x.offset = 0 => g = <<>>
    /\ x.offset # 0 => Events(g) = UpTo(x, d, x.offset) /\ x.nfa = Run(d)[x.offset]

\* The NFA is in state q after n bytes of the data.
ExecOK(x, d, g, stop, n, q, flags) ==
    /\ n <= Len(d)
    /\ flags = {} => Events(g) = UpTo(x, d, n) /\ q = Run(d)[n]
    /\ flags # {} /\ ~stop => Events(g) = Whole(x, d) /\ AllOn(x.db, x.evec)

\* After the matches at the end of the data.
EodOK(x, d, g, stop) ==
    /\ InTurn(g)
    /\ Events(g) \subseteq Whole(x, d) \cup Due(MatchesEod(d), x.db)
    /\ ~stop => Events(g) = WholeEod(x, d)

Resting(s) ==
    \/ s \in open /\ ~(s = call.s /\ (Writing \/ pc = "eod_done"))
    \/ s = "bstate" /\ call.op = "vector" /\ pc \in {"vector", "eod"}

Unused == \A s \in Streams \ open : reported[s] = <<>>
Rests  == \A s \in Ids : Resting(s) => RestOK(st[s], data[s], reported[s], stopped[s])
Writes ==
    /\ Writing => WriteOK(st[call.s], data[call.s], reported[call.s], stopped[call.s],
                          call.chunk)
    /\ pc = "zero" => ZeroOK(st[call.s], data[call.s], reported[call.s])
    /\ pc = "exec" => ExecOK(st[call.s], data[call.s], reported[call.s], stopped[call.s],
                             st[call.s].offset + pos, nfa, status)
Ends == pc = "eod_done" =>
            EodOK(st[call.s], data[call.s], reported[call.s], stopped[call.s])
\* What the last hs_scan_vector left in the scratch.
Vectored ==
    call.op # "vector" \/ pc = "idle" =>
        /\ InTurn(reported["bstate"])
        /\ Events(reported["bstate"])
              \subseteq Whole(st["bstate"], data["bstate"])
                            \cup Due(MatchesEod(data["bstate"]), st["bstate"].db)

SInv == Unused /\ Rests /\ Writes /\ Ends /\ Vectored

----------------------------------------------------------------------------

LEMMA OfDb ==
    ASSUME NEW x, NEW y, y.db = x.db, NEW d
    PROVE  /\ Whole(y, d) = Whole(x, d) /\ WholeEod(y, d) = WholeEod(x, d)
           /\ \A n : UpTo(y, d, n) = UpTo(x, d, n)
  BY DEF Whole, WholeEod, UpTo

LEMMA KeysWith ==
    ASSUME NEW db, NEW E, NEW e
    PROVE  KeysOf(db, E \cup {e}) = KeysOf(db, E) \cup ({db.key[e.rule]} \ {NoKey})
  BY DEF KeysOf

LEMMA RestFresh ==
    ASSUME NEW x, x.offset = 0, x.evec = {}, x.status = {}, NEW stop
    PROVE  RestOK(x, <<>>, <<>>, stop)
  BY NoneReported, WholeOfNothing DEF RestOK

\* A write to a stream that is broken.
LEMMA RestBroken ==
    ASSUME NEW x, NEW d \in Seq(Byte), NEW g, NEW c \in Seq(Byte),
           RestOK(x, d, g, FALSE), x.status # {}
    PROVE  RestOK(x, d \o c, g, FALSE)
  <1>1. /\ InTurn(g) /\ Events(g) = Whole(x, d) /\ x.evec = KeysOf(x.db, Events(g))
        /\ d # <<>> /\ (Run(d)[Len(d)] = Dead \/ AllOn(x.db, x.evec))
    BY DEF RestOK
  <1>2. d \o c # <<>>  BY <1>1
  <1>3. CASE Run(d)[Len(d)] = Dead  BY <1>1, <1>2, <1>3, WholeOfDead DEF RestOK
  <1>4. CASE AllOn(x.db, x.evec)  BY <1>1, <1>2, <1>4, WholeOfAllOn DEF RestOK
  <1> QED  BY <1>1, <1>3, <1>4

\* A write begins.
LEMMA WriteBegins ==
    ASSUME NEW x, x.offset \in Nat, NEW d \in Seq(Byte), NEW g \in Seq(Event),
           NEW c \in Seq(Byte), c # <<>>,
           RestOK(x, d, g, FALSE), x.status = {}
    PROVE  WriteOK(x, d \o c, g, FALSE, c) /\ ZeroOK(x, d \o c, g)
  <1>1. /\ InTurn(g) /\ Events(g) = Whole(x, d) /\ x.evec = KeysOf(x.db, Events(g))
        /\ x.offset = Len(d) /\ (d # <<>> => x.nfa = Run(d)[Len(d)])
    BY DEF RestOK
  <1>2. Len(d \o c) = x.offset + Len(c) /\ \A k \in 1 .. Len(c) : (d \o c)[x.offset + k] = c[k]
    BY <1>1
  <1>3. Events(g) \subseteq Whole(x, d \o c)  BY <1>1, WholeGrows
  <1>4. WriteOK(x, d \o c, g, FALSE, c)  BY <1>1, <1>2, <1>3 DEF WriteOK
  <1>5. CASE d = <<>>
    <2>1. Events(g) = {} /\ x.offset = 0  BY <1>1, <1>5, WholeOfNothing
    <2>2. g = <<>>
      <3>1. g # <<>> => g[1] \in Events(g)  BY DEF Events
      <3> QED  BY <2>1, <3>1
    <2> QED  BY <1>4, <2>1, <2>2 DEF ZeroOK
  <1>6. CASE d # <<>>
    <2>1. x.offset # 0 /\ x.offset \in 0 .. Len(d)  BY <1>1, <1>6
    <2>2. UpTo(x, d \o c, x.offset) = Whole(x, d)  BY <1>1, <1>6, WholeGrows
    <2>3. Run(d \o c)[x.offset] = x.nfa  BY <1>1, <1>6, <2>1, RunPrefix
    <2> QED  BY <1>1, <1>4, <2>1, <2>2, <2>3 DEF ZeroOK
  <1> QED  BY <1>5, <1>6

\* The zero-offset program has nothing to report.
LEMMA ZeroSkips ==
    ASSUME NEW x, x.offset \in Nat, NEW d \in Seq(Byte), NEW g, NEW c \in Seq(Byte),
           WriteOK(x, d, g, FALSE, c), ZeroOK(x, d, g),
           ~(x.offset = 0 /\ "zero" \in DOMAIN x.db.key
                /\ (x.db.key["zero"] = NoKey \/ x.db.key["zero"] \notin x.evec))
    PROVE  ExecOK(x, d, g, FALSE, x.offset, IF x.offset = 0 THEN Start ELSE x.nfa, {})
  <1>1. x.offset <= Len(d) /\ d # <<>>  BY DEF WriteOK
  <1>2. CASE x.offset = 0
    <2>1. Events(g) = {} /\ x.evec = {}  BY <1>2, NoneReported DEF WriteOK, ZeroOK
    <2>2. "zero" \notin DOMAIN x.db.key  BY <1>2, <2>1
    <2>3. UpTo(x, d, 0) = {}  BY <1>1, <2>2, UpToZero
    <2>4. Run(d)[0] = Start  BY RunIs
    <2> QED  BY <1>1, <1>2, <2>1, <2>3, <2>4 DEF ExecOK
  <1>3. CASE x.offset # 0  BY <1>1, <1>3 DEF ExecOK, ZeroOK
  <1> QED  BY <1>2, <1>3

\* It reports.
LEMMA ZeroAdds ==
    ASSUME NEW x, x.offset = 0, NEW d \in Seq(Byte), NEW g, NEW c \in Seq(Byte),
           WriteOK(x, d, g, FALSE, c), ZeroOK(x, d, g), "zero" \in DOMAIN x.db.key,
           NEW e \in Event, e = [rule |-> "zero", to |-> 0]
    PROVE  /\ g = <<>> /\ x.evec = {} /\ d # <<>>
           /\ UpTo(x, d, 0) = {e} /\ {e} \subseteq Whole(x, d)
           /\ Run(d)[0] = Start
  <1>0. g = <<>>  BY DEF ZeroOK
  <1>1. d # <<>> /\ x.evec = {}
    <2>1. Events(g) = {}  BY <1>0, NoneReported
    <2>2. x.evec = KeysOf(x.db, {})  BY <2>1 DEF WriteOK
    <2>3. c # <<>> /\ Len(d) = 0 + Len(c)  BY DEF WriteOK
    <2> QED  BY <2>2, <2>3, NoneReported
  <1>2. UpTo(x, d, 0) = {e}  BY <1>1, UpToZero
  <1>3. {e} \subseteq Whole(x, d)  BY <1>2 DEF UpTo
  <1> QED  BY <1>0, <1>1, <1>2, <1>3, RunIs

\* One byte of a write.
LEMMA ByteOn ==
    ASSUME NEW x, NEW d \in Seq(Byte), NEW g \in Seq(Event), NEW n \in Nat,
           NEW k \in Nat, k = n + 1, k <= Len(d),
           "fa" \in DOMAIN x.db.key, Events(g) = UpTo(x, d, n),
           x.evec = KeysOf(x.db, Events(g)),
           NEW e \in Event, e = Fa(k)
    PROVE  /\ Run(d)[k] = Delta[Run(d)[n]][d[k]]
           /\ (Run(d)[k] \in Accept => x.db.key["fa"] # NoKey /\ x.db.key["fa"] \in x.evec)
                 => Events(g) = UpTo(x, d, k)
           /\ Run(d)[k] \in Accept /\ ~(x.db.key["fa"] # NoKey /\ x.db.key["fa"] \in x.evec)
                 => Events(g) \cup {e} = UpTo(x, d, k)
           /\ \A f \in Events(g) : Before(f, e)
  <1>1. k \in 1 .. Len(d) /\ k - 1 = n  OBVIOUS
  <1>2. Run(d)[k] = Delta[Run(d)[n]][d[k]]  BY <1>1, RunIs
  <1>3. /\ e \in UpTo(x, d, k) <=>
                 /\ Run(d)[k] \in Accept
                 /\ \/ x.db.key["fa"] = NoKey
                    \/ x.db.key["fa"] \notin KeysOf(x.db, UpTo(x, d, n))
        /\ UpTo(x, d, k) \ {e} = UpTo(x, d, n)
        /\ \A f \in UpTo(x, d, n) : Before(f, e)
    BY UpToNext
  <1> QED  BY <1>2, <1>3

LEMMA SideSInv ==
    ASSUME IInv, SInv, NEW s \in Streams, Forget, Aside,
           open' \subseteq open \cup {s}, open \subseteq open' \cup {s},
           \A x \in Ids : x # s => /\ st'[x] = st[x] /\ data'[x] = data[x]
                                   /\ reported'[x] = reported[x] /\ stopped'[x] = stopped[x],
           pc # "idle" => s # call.s,
           s \in open' => RestOK(st'[s], data'[s], reported'[s], stopped'[s]),
           s \notin open' => reported'[s] = <<>>
    PROVE  SInv'
  <1> USE Constants
  <1>1. /\ pc' = pc /\ pos' = pos /\ nfa' = nfa /\ status' = status
        /\ pc # "idle" => call' = call
        /\ pc = "idle" => call'.op = "none"
    BY DEF Forget, Aside, NoCall, Call
  <1>2. Writing' <=> Writing  BY <1>1 DEF Writing
  <1>3. Writing => pc # "idle"  BY DEF Writing
  <1>4. Unused'  BY DEF SInv, Unused
  <1>5. Rests'
    <2> SUFFICES ASSUME NEW x \in Ids, Resting(x)'
                 PROVE  RestOK(st'[x], data'[x], reported'[x], stopped'[x])
      BY DEF Rests
    <2>1. CASE x = s
      <3>1. x \in open'  BY <2>1 DEF Resting
      <3> QED  BY <2>1, <3>1
    <2>2. CASE x # s
      <3>1. Resting(x)  BY <1>1, <1>2, <1>3, <2>2 DEF Resting
      <3> QED  BY <2>2, <3>1 DEF SInv, Rests
    <2> QED  BY <2>1, <2>2
  <1>6. Writes'
    <2>1. Writing => call' = call /\ call.s # s /\ call.s \in Ids
      BY <1>1, <1>3, WritingIs
    <2>2. pc \in {"zero", "exec"} => Writing  BY DEF Writing
    <2> QED  BY <1>1, <1>2, <2>1, <2>2 DEF SInv, Writes
  <1>7. Ends'
    <2>1. pc = "eod_done" => call' = call /\ call.s # s /\ call.s \in Ids
      BY <1>1, EodIs
    <2> QED  BY <1>1, <2>1 DEF SInv, Ends
  <1>8. Vectored'  BY <1>1 DEF SInv, Vectored
  <1> QED  BY <1>4, <1>5, <1>6, <1>7, <1>8 DEF SInv

----------------------------------------------------------------------------
(* The steps of a write                                                    *)

LEMMA InitSInv == ASSUME Init PROVE SInv
  <1>1. /\ \A s \in Ids : reported[s] = <<>>
        /\ open = {} /\ pc = "idle" /\ call.op = "none"
    BY DEF Init, NoCall, Call
  <1>2. "bstate" \in Ids /\ Streams \subseteq Ids  BY Constants
  <1>3. Vectored  BY <1>1, <1>2, NoneReported DEF Vectored
  <1> QED  BY <1>1, <1>2, <1>3 DEF SInv, Unused, Rests, Resting, Writes, Writing, Ends

\* A stream at rest before a write.
LEMMA BeforeWrite ==
    ASSUME IInv, SInv, NEW op \in {"scan", "vector"}, NEW s \in Ids,
           op = "scan" => pc = "idle" /\ s \in open,
           op = "vector" => pc = "vector" /\ s = "bstate"
    PROVE  /\ RestOK(st[s], data[s], reported[s], stopped[s])
           /\ Terminated(s) <=> stopped[s]
  <1>1. CASE op = "scan"
    <2>1. pc = "idle" /\ s \in Streams  BY <1>1 DEF IInv, TypeOK
    <2>2. Resting(s)  BY <1>1 DEF Resting, Writing
    <2> QED  BY <2>1, <2>2 DEF IInv, Marks, SInv, Rests
  <1>2. CASE op = "vector"
    <2>1. pc = "vector" /\ s = "bstate"  BY <1>2
    <2>2. call.op = "vector"  BY <2>1 DEF IInv, CallShape
    <2>3. Resting(s)  BY <2>1, <2>2 DEF Resting
    <2> QED  BY <2>1, <2>2, <2>3 DEF IInv, VectorMarks, SInv, Rests
  <1> QED  BY <1>1, <1>2

LEMMA ScanSInv ==
    ASSUME IInv, SInv, NEW op \in {"scan", "vector"}, NEW s \in Ids, NEW c \in Seq(Byte),
           op = "scan" => pc = "idle" /\ s \in open,
           op = "vector" => pc = "vector" /\ s = "bstate",
           ScanInternal(op, s, c)
    PROVE  SInv'
  <1> USE Constants
  <1>0. TypeOK /\ open \subseteq Streams  BY DEF IInv, TypeOK
  <1>1. /\ st' = st /\ open' = open /\ reported' = reported /\ stopped' = stopped
        /\ data'[s] = IF Terminated(s) THEN data[s] ELSE data[s] \o c
        /\ \A x \in Ids : x # s => data'[x] = data[x]
    BY <1>0 DEF ScanInternal, TypeOK, Terminated
  <1>2. /\ st[s] \in StreamState /\ data[s] \in Seq(Byte) /\ reported[s] \in Seq(Event)
        /\ st[s].offset \in Nat
    BY <1>0 DEF TypeOK, StreamState
  <1>3. /\ RestOK(st[s], data[s], reported[s], stopped[s])
        /\ Terminated(s) <=> stopped[s]
    BY BeforeWrite
  <1>4. ~Writing /\ pc # "eod_done" /\ (op = "vector" => call.op = "vector")
    BY DEF Writing, IInv, CallShape
  <1>5. Unused'  BY <1>1 DEF SInv, Unused
  <1>6. op = "scan" => s # "bstate"  BY <1>0
  <1>7. CASE st[s].status # {} \/ c = <<>>
    <2>1. PICK rv : Leave(op, s, rv)
      BY <1>7 DEF ScanInternal, Broken
    <2>2. pc' \in {"idle", "vector"} /\ call'.op = op /\ call'.s = s
          /\ (pc' = "vector" => op = "vector") /\ ~Writing'
      BY <2>1 DEF Leave, Call, Writing
    <2>3. RestOK(st[s], data'[s], reported[s], stopped[s])
      <3>1. CASE Terminated(s)  BY <1>1, <1>3, <3>1
      <3>2. CASE ~Terminated(s) /\ st[s].status # {}
        <4>1. stopped[s] = FALSE  BY <1>0, <1>3, <3>2 DEF TypeOK
        <4> QED  BY <1>1, <1>2, <1>3, <3>2, <4>1, RestBroken
      <3>3. CASE ~Terminated(s) /\ c = <<>>
        <4>1. data[s] \o <<>> = data[s]  BY <1>2
        <4> QED  BY <1>1, <1>3, <3>3, <4>1
      <3> QED  BY <1>7, <3>1, <3>2, <3>3
    <2>4. Rests'
      <3> SUFFICES ASSUME NEW x \in Ids, Resting(x)'
                   PROVE  RestOK(st'[x], data'[x], reported'[x], stopped'[x])
        BY DEF Rests
      <3>1. CASE x = s  BY <1>1, <2>3, <3>1
      <3>2. CASE x # s
        <4>1. x \in open  BY <1>1, <2>2, <3>2 DEF Resting
        <4>2. Resting(x)  BY <1>4, <4>1 DEF Resting
        <4> QED  BY <1>1, <3>2, <4>2 DEF SInv, Rests
      <3> QED  BY <3>1, <3>2
    <2>5. Writes' /\ Ends'  BY <2>2 DEF Writes, Ends, Writing
    <2>6. Vectored'
      <3>1. CASE op = "scan"  BY <1>1, <1>6, <3>1 DEF SInv, Vectored
      <3>2. CASE op = "vector"
        <4>1. s = "bstate"  BY <3>2
        <4> QED  BY <1>1, <2>3, <4>1 DEF Vectored, RestOK
      <3> QED  BY <3>1, <3>2
    <2> QED  BY <1>5, <2>4, <2>5, <2>6 DEF SInv
  <1>8. CASE st[s].status = {} /\ c # <<>>
    <2>1. pc' = "zero" /\ call'.op = op /\ call'.s = s /\ call'.chunk = c
      BY <1>8 DEF ScanInternal, Broken, Call
    <2>2. stopped[s] = FALSE /\ data'[s] = data[s] \o c
      BY <1>0, <1>1, <1>3, <1>8 DEF TypeOK, Terminated
    <2>3. WriteOK(st[s], data'[s], reported[s], FALSE, c) /\ ZeroOK(st[s], data'[s], reported[s])
      <3>1. RestOK(st[s], data[s], reported[s], FALSE)  BY <1>3, <2>2
      <3>2. /\ WriteOK(st[s], data[s] \o c, reported[s], FALSE, c)
            /\ ZeroOK(st[s], data[s] \o c, reported[s])
        BY <1>2, <1>8, <3>1, WriteBegins
      <3> QED  BY <2>2, <3>2
    <2>4. Writes'  BY <1>1, <2>1, <2>2, <2>3 DEF Writes
    <2>5. Rests'
      <3> SUFFICES ASSUME NEW x \in Ids, Resting(x)'
                   PROVE  RestOK(st'[x], data'[x], reported'[x], stopped'[x])
        BY DEF Rests
      <3>1. x \in open /\ x # s  BY <1>1, <2>1 DEF Resting, Writing
      <3>2. Resting(x)  BY <1>4, <3>1 DEF Resting
      <3> QED  BY <1>1, <3>1, <3>2 DEF SInv, Rests
    <2>6. Ends'  BY <2>1 DEF Ends
    <2>7. Vectored'
      <3>1. CASE op = "scan"  BY <1>1, <1>6, <3>1 DEF SInv, Vectored
      <3>2. CASE op = "vector"  BY <2>1, <3>2 DEF Vectored
      <3> QED  BY <3>1, <3>2
    <2> QED  BY <1>5, <2>4, <2>5, <2>6, <2>7 DEF SInv
  <1> QED  BY <1>7, <1>8

\* Streams that the running write does not touch.
LEMMA WritingOthers ==
    ASSUME IInv, SInv, Writing, NEW s \in Ids, s = call.s, open' = open,
           call'.s = s, call'.op = call.op,
           \A x \in Ids : x # s => /\ st'[x] = st[x] /\ data'[x] = data[x]
                                   /\ reported'[x] = reported[x] /\ stopped'[x] = stopped[x],
           Resting(s)' => RestOK(st'[s], data'[s], reported'[s], stopped'[s]),
           pc' = "idle" => RestOK(st'[s], data'[s], reported'[s], stopped'[s])
    PROVE  Unused' /\ Rests' /\ Vectored'
  <1> USE Constants
  <1>1. /\ call.op \in {"scan", "vector"} /\ open \subseteq Streams
        /\ call.op = "scan" => s \in open
        /\ call.op = "vector" => s = "bstate"
    BY WritingIs DEF IInv, TypeOK
  <1>2. Unused'
    <2>1. \A x \in Streams \ open : x # s /\ x \in Ids  BY <1>1
    <2> QED  BY <2>1 DEF SInv, Unused
  <1>3. Rests'
    <2> SUFFICES ASSUME NEW x \in Ids, Resting(x)'
                 PROVE  RestOK(st'[x], data'[x], reported'[x], stopped'[x])
      BY DEF Rests
    <2>1. CASE x = s  BY <2>1
    <2>2. CASE x # s
      <3>1. Resting(x)  BY <1>1, <2>2 DEF Resting
      <3> QED  BY <2>2, <3>1 DEF SInv, Rests
    <2> QED  BY <2>1, <2>2
  <1>4. Vectored'
    <2>1. CASE call.op = "scan"
      <3>1. s # "bstate"  BY <1>1, <2>1
      <3> QED  BY <2>1, <3>1 DEF SInv, Vectored
    <2>2. CASE call.op = "vector"
      <3>1. s = "bstate"  BY <1>1, <2>2
      <3> QED  BY <2>2, <3>1 DEF Vectored, RestOK
    <2> QED  BY <1>1, <2>1, <2>2
  <1> QED  BY <1>2, <1>3, <1>4

\* The write goes on, and ends.
LEMMA WriteGoesOn ==
    ASSUME IInv, SInv, Writing, NEW s \in Ids, s = call.s, open' = open, call' = call,
           pc' = "exec", NEW n \in Nat, n = st'[s].offset + pos',
           \A x \in Ids : x # s => /\ st'[x] = st[x] /\ data'[x] = data[x]
                                   /\ reported'[x] = reported[x] /\ stopped'[x] = stopped[x],
           WriteOK(st'[s], data'[s], reported'[s], stopped'[s], call.chunk),
           ExecOK(st'[s], data'[s], reported'[s], stopped'[s], n, nfa', status')
    PROVE  SInv'
  <1>1. Writing'  BY DEF Writing
  <1>2. ~Resting(s)'
    <2>1. s = call'.s /\ Writing' /\ pc' \notin {"vector", "eod"}  BY <1>1
    <2> QED  BY <2>1 DEF Resting
  <1>3. Unused' /\ Rests' /\ Vectored'  BY <1>2, WritingOthers
  <1>4. Writes'  BY <1>1 DEF Writes
  <1>5. Ends'  BY DEF Ends
  <1> QED  BY <1>3, <1>4, <1>5 DEF SInv

LEMMA WriteEnds ==
    ASSUME IInv, SInv, Writing, NEW s \in Ids, s = call.s, open' = open,
           NEW rv, Leave(call.op, s, rv),
           \A x \in Ids : x # s => /\ st'[x] = st[x] /\ data'[x] = data[x]
                                   /\ reported'[x] = reported[x] /\ stopped'[x] = stopped[x],
           RestOK(st'[s], data'[s], reported'[s], stopped'[s])
    PROVE  SInv'
  <1>1. pc' \in {"idle", "vector"} /\ call'.op = call.op /\ call'.s = s /\ ~Writing'
    BY DEF Leave, Call, Writing
  <1>2. Unused' /\ Rests' /\ Vectored'  BY <1>1, WritingOthers
  <1>3. Writes' /\ Ends'  BY <1>1 DEF Writes, Ends, Writing
  <1> QED  BY <1>2, <1>3 DEF SInv

\* Every key is on: what is due up to here is all that is due.
LEMMA AllReported ==
    ASSUME NEW d \in Seq(Byte), NEW x, NEW n \in Nat, NEW E, E = UpTo(x, d, n),
           AllOn(x.db, KeysOf(x.db, E))
    PROVE  E = Whole(x, d)
  BY UpToAllOn

\* The keys a report turns on, and the flags it raises.
LEMMA MarkedOn ==
    ASSUME NEW s, NEW r, NEW h \in BOOLEAN
    PROVE  /\ ~h => Marked(s, r, h) = st[s].evec \cup ({st[s].db.key[r]} \ {NoKey})
           /\ ~h /\ Raised(s, r, h) # {} => AllOn(st[s].db, Marked(s, r, h))
           /\ h => Raised(s, r, h) # {}
  BY DEF Marked, Raised, KeyOf

\* Only one stream changes, and nothing else of it.
LEMMA EvecSame ==
    ASSUME TypeOK, NEW s \in Ids, NEW ev \in SUBSET Keys,
           st' = [st EXCEPT ![s].evec = ev]
    PROVE  /\ st'[s].db = st[s].db /\ st'[s].offset = st[s].offset /\ st'[s].nfa = st[s].nfa
           /\ st'[s].evec = ev
           /\ \A x \in Ids : x # s => st'[x] = st[x]
  <1>1. st[s] \in StreamState  BY DEF TypeOK
  <1>2. st'[s] = [st[s] EXCEPT !.evec = ev]  BY DEF TypeOK
  <1>3. /\ st'[s].db = st[s].db /\ st'[s].offset = st[s].offset /\ st'[s].nfa = st[s].nfa
        /\ st'[s].evec = ev
    BY <1>1, <1>2 DEF StreamState
  <1>4. \A x \in Ids : x # s => st'[x] = st[x]  BY DEF TypeOK
  <1> QED BY <1>3, <1>4

LEMMA CallbackAppends ==
    ASSUME TypeOK, NEW s \in Ids, NEW r, NEW to, NEW h,
           Callback(s, r, to, h)
    PROVE  /\ reported'[s] = Append(reported[s], [rule |-> r, to |-> to])
           /\ \A x \in Ids : x # s => reported'[x] = reported[x] /\ stopped'[x] = stopped[x]
  BY DEF Callback, TypeOK

LEMMA ZeroNoneSInv == ASSUME IInv, SInv, ZeroNone PROVE SInv'
  <1> USE Constants
  <1>0. TypeOK /\ Writing /\ pc = "zero" /\ status = {}
    BY DEF IInv, ZeroNone, Writing, CallShape
  <1>1. PICK s \in Ids : s = call.s  BY <1>0, WritingIs
  <1>2. /\ pc' = "exec" /\ pos' = 0 /\ nfa' = IF st[s].offset = 0 THEN Start ELSE st[s].nfa
        /\ ~ZeroDue(s)
        /\ UNCHANGED <<st, open, inUse, status, call, todo, ret, data, reported, stopped>>
    BY <1>1 DEF ZeroNone, BeginExec, hist
  <1>3. /\ st[s] \in StreamState /\ data[s] \in Seq(Byte) /\ st[s].offset \in Nat
        /\ call.chunk \in Seq(Byte) /\ stopped[s] = FALSE
    BY <1>0, <1>1, WritingIs DEF TypeOK, StreamState
  <1>4. /\ WriteOK(st[s], data[s], reported[s], FALSE, call.chunk)
        /\ ZeroOK(st[s], data[s], reported[s])
    BY <1>0, <1>1, <1>3 DEF SInv, Writes
  <1>5. ExecOK(st[s], data[s], reported[s], FALSE, st[s].offset,
               IF st[s].offset = 0 THEN Start ELSE st[s].nfa, {})
    BY <1>2, <1>3, <1>4, ZeroSkips DEF ZeroDue, HasRule, isExhausted, KeyOf
  <1>6. st[s].offset = st'[s].offset + pos'  BY <1>2, <1>3
  <1> QED  BY <1>0, <1>1, <1>2, <1>3, <1>4, <1>5, <1>6, WriteGoesOn

LEMMA ZeroReportSInv == ASSUME IInv, SInv, NEW h \in BOOLEAN, ZeroReport(h) PROVE SInv'
  <1>0. TypeOK /\ Writing /\ pc = "zero" /\ status = {}
    BY DEF IInv, ZeroReport, Writing, CallShape
  <1>1. PICK s \in Ids : s = call.s  BY <1>0, WritingIs
  <1>2. /\ st[s] \in StreamState /\ data[s] \in Seq(Byte) /\ st[s].offset = 0
        /\ call.chunk \in Seq(Byte) /\ stopped[s] = FALSE /\ HasRule(s, "zero")
        /\ Callback(s, "zero", 0, h) /\ UNCHANGED <<open, data>>
    BY <1>0, <1>1, WritingIs DEF TypeOK, StreamState, ZeroReport, ZeroDue
  <1>3. PICK ev \in SUBSET Keys, flags \in SUBSET Flags :
            ev = Marked(s, "zero", h) /\ flags = Raised(s, "zero", h)
    BY <1>0, <1>2, MarkedIs
  <1>4. status' = flags  BY <1>0, <1>1, <1>3 DEF ZeroReport
  <1>5. PICK e \in Event : e = [rule |-> "zero", to |-> 0]
    BY DEF Event, AllRules
  <1> DEFINE x == st[s]
             d == data[s]
             g == Append(reported[s], e)
  <1>6. /\ WriteOK(x, d, reported[s], FALSE, call.chunk)
        /\ ZeroOK(x, d, reported[s])
    BY <1>0, <1>1, <1>2 DEF SInv, Writes
  <1>7. /\ x.evec = {} /\ d # <<>> /\ InTurn(g) /\ Events(g) = {e}
        /\ UpTo(x, d, 0) = {e} /\ {e} \subseteq Whole(x, d) /\ Run(d)[0] = Start
    <2> HIDE DEF x, d, g
    <2>1. d \in Seq(Byte) /\ x.offset = 0 /\ "zero" \in DOMAIN x.db.key
      BY <1>2 DEF x, d, HasRule
    <2>2. WriteOK(x, d, reported[s], FALSE, call.chunk) /\ ZeroOK(x, d, reported[s])
      BY <1>6
    <2>3. /\ reported[s] = <<>> /\ x.evec = {} /\ d # <<>>
          /\ UpTo(x, d, 0) = {e} /\ {e} \subseteq Whole(x, d)
          /\ Run(d)[0] = Start
      BY <1>2, <1>5, <2>1, <2>2, ZeroAdds
    <2>4. InTurn(g) /\ Events(g) = {e}
      <3>1. /\ reported[s] \in Seq(Event) /\ Events(reported[s]) = {} /\ InTurn(reported[s])
        BY <2>3, NoneReported
      <3> QED  BY <3>1, Reported DEF g
    <2> QED  BY <2>3, <2>4
  <1>8. /\ reported'[s] = g /\ \A y \in Ids : y # s => reported'[y] = reported[y]
        /\ \A y \in Ids : y # s => stopped'[y] = stopped[y]
        /\ stopped'[s] = h
    BY <1>0, <1>2, <1>5 DEF Callback, TypeOK
  <1>9. /\ ~h => ev = KeysOf(x.db, {e})
        /\ ~h /\ flags # {} => AllOn(x.db, ev)
        /\ h => flags # {}
    <2>1. {e} = {} \cup {e} /\ e.rule = "zero"  BY <1>5
    <2>2. KeysOf(x.db, {e}) = {x.db.key["zero"]} \ {NoKey}
      <3>1. KeysOf(x.db, {} \cup {e}) = KeysOf(x.db, {}) \cup ({x.db.key[e.rule]} \ {NoKey})
        BY KeysWith
      <3>2. KeysOf(x.db, {}) = {}  BY NoneReported
      <3> QED  BY <2>1, <3>1, <3>2
    <2>3. /\ ~h => Marked(s, "zero", h) = st[s].evec \cup ({st[s].db.key["zero"]} \ {NoKey})
          /\ ~h /\ Raised(s, "zero", h) # {} => AllOn(st[s].db, Marked(s, "zero", h))
          /\ h => Raised(s, "zero", h) # {}
      BY MarkedOn
    <2> QED  BY <1>3, <1>7, <2>2, <2>3
  <1>10. CASE flags # {}
    <2>1. /\ st' = [st EXCEPT ![s].evec = ev, ![s].status = flags]
          /\ Leave(call.op, s, IF h THEN "SCAN_TERMINATED" ELSE "SUCCESS")
      BY <1>0, <1>1, <1>3, <1>10 DEF ZeroReport, Broken
    <2>2. /\ st'[s] = [x EXCEPT !.evec = ev, !.status = flags]
          /\ \A y \in Ids : y # s => st'[y] = st[y]
      BY <1>0, <1>2, <2>1 DEF TypeOK
    <2>3. st'[s].db = x.db /\ st'[s].evec = ev /\ st'[s].status = flags
      BY <1>2, <2>2 DEF StreamState
    <2>4. ~h => {e} = Whole(x, d)
      <3> SUFFICES ASSUME ~h PROVE {e} = Whole(x, d)  OBVIOUS
      <3>1. AllOn(x.db, KeysOf(x.db, {e})) /\ {e} = UpTo(x, d, 0) /\ d \in Seq(Byte)
        BY <1>2, <1>7, <1>9, <1>10
      <3> HIDE DEF x, d
      <3> QED  BY <3>1, AllReported
    <2>5. Whole(st'[s], d) = Whole(x, d)  BY <2>3, OfDb
    <2>6. RestOK(st'[s], d, g, h)
      <3> HIDE DEF g, x, d
      <3> QED  BY <1>7, <1>9, <1>10, <2>3, <2>4, <2>5 DEF RestOK
    <2>7. RestOK(st'[s], data'[s], reported'[s], stopped'[s])
      BY <1>2, <1>8, <2>6
    <2> QED  BY <1>0, <1>1, <1>2, <1>8, <2>1, <2>2, <2>7, WriteEnds
  <1>11. CASE flags = {}
    <2>1. /\ st' = [st EXCEPT ![s].evec = ev] /\ BeginExec(s) /\ call' = call
      BY <1>0, <1>1, <1>3, <1>11 DEF ZeroReport, Broken
    <2>2. /\ st'[s].db = x.db /\ st'[s].offset = 0 /\ st'[s].evec = ev
          /\ \A y \in Ids : y # s => st'[y] = st[y]
      <3>2. /\ st'[s].db = st[s].db /\ st'[s].offset = st[s].offset /\ st'[s].evec = ev
            /\ \A y \in Ids : y # s => st'[y] = st[y]
        BY <1>0, <2>1, EvecSame
      <3> QED  BY <1>2, <3>2
    <2>3. ~h  BY <1>9, <1>11
    <2>4. /\ Whole(st'[s], d) = Whole(x, d) /\ UpTo(st'[s], d, 0) = UpTo(x, d, 0)
      BY <2>2, OfDb
    <2>5. WriteOK(st'[s], d, g, h, call.chunk)
      <3> HIDE DEF g, d
      <3> QED  BY <1>2, <1>6, <1>7, <1>9, <2>2, <2>3, <2>4 DEF WriteOK
    <2>6. pc' = "exec" /\ pos' = 0 /\ nfa' = Start  BY <1>2, <2>1 DEF BeginExec
    <2>7. ExecOK(st'[s], d, g, h, 0, Start, {})
      BY <1>2, <1>7, <2>4 DEF ExecOK
    <2>8. 0 = st'[s].offset + pos' /\ 0 \in Nat  BY <2>2, <2>6
    <2> HIDE DEF g, d
    <2>9. /\ WriteOK(st'[s], data'[s], reported'[s], stopped'[s], call.chunk)
          /\ ExecOK(st'[s], data'[s], reported'[s], stopped'[s], 0, nfa', status')
      BY <1>2, <1>4, <1>8, <1>11, <2>5, <2>6, <2>7 DEF d
    <2> QED  BY <1>0, <1>1, <1>2, <1>8, <2>1, <2>2, <2>6, <2>8, <2>9, WriteGoesOn
  <1> QED  BY <1>10, <1>11

\* The stream whose NFA runs, and the byte it is at.
LEMMA ExecIs ==
    ASSUME IInv, SInv, pc = "exec", NEW s \in Ids, s = call.s, NEW n, n = st[s].offset + pos
    PROVE  /\ st[s] \in StreamState /\ data[s] \in Seq(Byte) /\ reported[s] \in Seq(Event)
           /\ st[s].offset \in Nat /\ pos \in Nat /\ n \in Nat
           /\ call.chunk \in Seq(Byte) /\ "fa" \in DOMAIN st[s].db.key
           /\ WriteOK(st[s], data[s], reported[s], stopped[s], call.chunk)
           /\ ExecOK(st[s], data[s], reported[s], stopped[s], n, nfa, status)
           /\ status = {} => stopped[s] = FALSE
           /\ "TERMINATED" \in status <=> stopped[s]
  <1>1. Writing /\ TypeOK  BY DEF Writing, IInv
  <1>2. /\ st[s] \in StreamState /\ data[s] \in Seq(Byte) /\ reported[s] \in Seq(Event)
        /\ call.chunk \in Seq(Byte) /\ ("TERMINATED" \in status <=> stopped[s])
        /\ stopped[s] \in BOOLEAN /\ pos \in Nat
    BY <1>1, WritingIs DEF TypeOK
  <1>3. st[s].offset \in Nat /\ st[s].db \in Databases  BY <1>2 DEF StreamState
  <1>4. n \in Nat  BY <1>2, <1>3
  <1>5. "fa" \in DOMAIN st[s].db.key  BY <1>3, DatabaseAssumption
  <1>6. /\ WriteOK(st[s], data[s], reported[s], stopped[s], call.chunk)
        /\ ExecOK(st[s], data[s], reported[s], stopped[s], n, nfa, status)
    BY <1>1 DEF SInv, Writes
  <1> QED  BY <1>2, <1>3, <1>4, <1>5, <1>6

\* The byte the NFA consumes is the next one of the data.
LEMMA ByteIs ==
    ASSUME IInv, SInv, pc = "exec", Running, NEW s \in Ids, s = call.s,
           NEW n \in Nat, n = st[s].offset + pos, NEW k \in Nat, k = n + 1
    PROVE  /\ WriteOK(st[s], data[s], reported[s], FALSE, call.chunk)
           /\ k <= Len(data[s]) /\ k = st[s].offset + (pos + 1)
           /\ NextState = Run(data[s])[k]
           /\ status = {} /\ stopped[s] = FALSE
           /\ Events(reported[s]) = UpTo(st[s], data[s], n)
           /\ st[s].evec = KeysOf(st[s].db, Events(reported[s]))
  <1>0. PICK x, d, g : x = st[s] /\ d = data[s] /\ g = reported[s]  OBVIOUS
  <1>1. /\ WriteOK(x, d, g, stopped[s], call.chunk)
        /\ ExecOK(x, d, g, stopped[s], n, nfa, status)
        /\ x.offset \in Nat /\ pos \in Nat /\ call.chunk \in Seq(Byte)
        /\ x \in StreamState /\ d \in Seq(Byte) /\ g \in Seq(Event)
        /\ "fa" \in DOMAIN x.db.key
        /\ status = {} => stopped[s] = FALSE
    BY <1>0, ExecIs
  <1>2. status = {} /\ pos < Len(call.chunk)  BY NextIs DEF Running
  <1>3. pos + 1 \in 1 .. Len(call.chunk) /\ Len(call.chunk) \in Nat  BY <1>1, <1>2
  <1>4. k = x.offset + (pos + 1)
    <2>1. x.offset \in Nat /\ pos \in Nat /\ n = x.offset + pos  BY <1>0, <1>1
    <2> QED  BY <2>1
  <1>5. d[k] = call.chunk[pos + 1] /\ k <= Len(d)
    <2>1. d[x.offset + (pos + 1)] = call.chunk[pos + 1]  BY <1>1, <1>3 DEF WriteOK
    <2>2. Len(d) = x.offset + Len(call.chunk)  BY <1>1 DEF WriteOK
    <2>3. x.offset \in Nat /\ pos \in Nat  BY <1>1
    <2>4. k <= Len(d)  BY <1>3, <1>4, <2>2, <2>3
    <2> QED  BY <1>4, <2>1, <2>4
  <1>6. nfa = Run(d)[n] /\ Events(g) = UpTo(x, d, n)
    BY <1>1, <1>2 DEF ExecOK
  <1>7. x.evec = KeysOf(x.db, Events(g))  BY <1>1, <1>2 DEF WriteOK
  <1>8. NextState = Run(d)[k]
    <2>1. k \in 1 .. Len(d) /\ k - 1 = n  BY <1>1, <1>5
    <2>2. Run(d)[k] = Delta[Run(d)[k - 1]][d[k]]  BY <1>1, <2>1, RunIs
    <2> QED  BY <1>5, <1>6, <2>1, <2>2 DEF NextState
  <1> QED  BY <1>0, <1>1, <1>2, <1>4, <1>5, <1>6, <1>7, <1>8

LEMMA ExecByteSInv == ASSUME IInv, SInv, ExecByte PROVE SInv'
  <1>0. /\ pc = "exec" /\ Running /\ Writing /\ pos' = pos + 1 /\ nfa' = NextState
        /\ UNCHANGED <<st, open, inUse, status, pc, call, todo, ret, data, reported, stopped>>
        /\ NextState \in Accept => isExhausted(call.s, "fa")
    BY DEF ExecByte, Writing, hist
  <1>1. PICK s \in Ids : s = call.s  BY <1>0, WritingIs
  <1>2. PICK x, d, g : x = st[s] /\ d = data[s] /\ g = reported[s]  OBVIOUS
  <1>3. PICK n \in Nat, k \in Nat : n = x.offset + pos /\ k = n + 1
    <2>1. PICK n : n = x.offset + pos  OBVIOUS
    <2>2. n \in Nat  BY <1>0, <1>1, <1>2, <2>1, ExecIs
    <2> QED  BY <2>1, <2>2
  <1>4. /\ x \in StreamState /\ d \in Seq(Byte) /\ g \in Seq(Event)
        /\ x.offset \in Nat /\ pos \in Nat /\ "fa" \in DOMAIN x.db.key
        /\ WriteOK(x, d, g, FALSE, call.chunk)
        /\ k <= Len(d) /\ k = x.offset + (pos + 1)
        /\ NextState = Run(d)[k]
        /\ status = {} /\ stopped[s] = FALSE
        /\ Events(g) = UpTo(x, d, n)
        /\ x.evec = KeysOf(x.db, Events(g))
    <2>1. n = st[s].offset + pos  BY <1>2, <1>3
    <2>2. /\ st[s] \in StreamState /\ data[s] \in Seq(Byte) /\ reported[s] \in Seq(Event)
          /\ st[s].offset \in Nat /\ pos \in Nat /\ "fa" \in DOMAIN st[s].db.key
      BY <1>0, <1>1, <2>1, ExecIs
    <2>3. /\ WriteOK(st[s], data[s], reported[s], FALSE, call.chunk)
          /\ k <= Len(data[s]) /\ k = st[s].offset + (pos + 1)
          /\ NextState = Run(data[s])[k]
          /\ status = {} /\ stopped[s] = FALSE
          /\ Events(reported[s]) = UpTo(st[s], data[s], n)
          /\ st[s].evec = KeysOf(st[s].db, Events(reported[s]))
      BY <1>0, <1>1, <1>3, <2>1, ByteIs
    <2> QED  BY <1>2, <2>2, <2>3
  <1>5. PICK e \in Event : e = Fa(k)
    BY DEF Event, AllRules, Fa
  <1>6. Run(d)[k] \in Accept => /\ x.db.key["fa"] # NoKey
                                /\ x.db.key["fa"] \in x.evec
    BY <1>0, <1>1, <1>2, <1>4 DEF isExhausted, KeyOf
  <1>7. Events(g) = UpTo(x, d, k)
    <2>1. k = n + 1 /\ k <= Len(d) /\ "fa" \in DOMAIN x.db.key  BY <1>3, <1>4
    <2>2. Events(g) = UpTo(x, d, n) /\ x.evec = KeysOf(x.db, Events(g))  BY <1>4
    <2>3. d \in Seq(Byte) /\ g \in Seq(Event)  BY <1>4
    <2> QED  BY <1>5, <1>6, <2>1, <2>2, <2>3, ByteOn
  <1>8. ExecOK(x, d, g, FALSE, k, NextState, status)
    BY <1>4, <1>7 DEF ExecOK
  <1>9. /\ WriteOK(st'[s], data'[s], reported'[s], stopped'[s], call.chunk)
        /\ ExecOK(st'[s], data'[s], reported'[s], stopped'[s], k, nfa', status')
    BY <1>0, <1>2, <1>4, <1>8
  <1>10. k = st'[s].offset + pos'  BY <1>0, <1>2, <1>4
  <1> QED  BY <1>0, <1>1, <1>9, <1>10, WriteGoesOn

LEMMA ByteReports ==
    ASSUME NEW x, NEW d \in Seq(Byte), NEW g \in Seq(Event), NEW n \in Nat,
           NEW k \in Nat, k = n + 1, k <= Len(d),
           "fa" \in DOMAIN x.db.key, Events(g) = UpTo(x, d, n),
           x.evec = KeysOf(x.db, Events(g)),
           Run(d)[k] \in Accept, ~(x.db.key["fa"] # NoKey /\ x.db.key["fa"] \in x.evec),
           NEW e \in Event, e = Fa(k)
    PROVE  Events(g) \cup {e} = UpTo(x, d, k) /\ \A f \in Events(g) : Before(f, e)
  <1>1. Run(d)[k] \in Accept /\ ~(x.db.key["fa"] # NoKey /\ x.db.key["fa"] \in x.evec)
             => Events(g) \cup {e} = UpTo(x, d, k)
    BY ByteOn
  <1>2. \A f \in UpTo(x, d, n) : Before(f, e)  BY UpToNext
  <1> QED  BY <1>1, <1>2

LEMMA ExecReportSInv == ASSUME IInv, SInv, NEW h \in BOOLEAN, ExecReport(h) PROVE SInv'
  <1>0. /\ pc = "exec" /\ Running /\ Writing /\ TypeOK
        /\ NextState \in Accept /\ ~isExhausted(call.s, "fa")
    BY DEF ExecReport, Writing, IInv
  <1>1. PICK s \in Ids : s = call.s  BY <1>0, WritingIs
  <1>2. PICK x, d, g0 : x = st[s] /\ d = data[s] /\ g0 = reported[s]  OBVIOUS
  <1>3. PICK n \in Nat, k \in Nat : n = x.offset + pos /\ k = n + 1
    <2>1. PICK n : n = x.offset + pos  OBVIOUS
    <2>2. n \in Nat  BY <1>0, <1>1, <1>2, <2>1, ExecIs
    <2> QED  BY <2>1, <2>2
  <1>4. /\ x \in StreamState /\ d \in Seq(Byte) /\ g0 \in Seq(Event)
        /\ x.offset \in Nat /\ pos \in Nat /\ "fa" \in DOMAIN x.db.key
        /\ WriteOK(x, d, g0, FALSE, call.chunk)
        /\ k <= Len(d) /\ k = x.offset + (pos + 1)
        /\ NextState = Run(d)[k]
        /\ status = {} /\ stopped[s] = FALSE
        /\ Events(g0) = UpTo(x, d, n)
        /\ x.evec = KeysOf(x.db, Events(g0))
    <2>1. n = st[s].offset + pos  BY <1>2, <1>3
    <2>2. /\ st[s] \in StreamState /\ data[s] \in Seq(Byte) /\ reported[s] \in Seq(Event)
          /\ st[s].offset \in Nat /\ pos \in Nat /\ "fa" \in DOMAIN st[s].db.key
      BY <1>0, <1>1, <2>1, ExecIs
    <2>3. /\ WriteOK(st[s], data[s], reported[s], FALSE, call.chunk)
          /\ k <= Len(data[s]) /\ k = st[s].offset + (pos + 1)
          /\ NextState = Run(data[s])[k]
          /\ status = {} /\ stopped[s] = FALSE
          /\ Events(reported[s]) = UpTo(st[s], data[s], n)
          /\ st[s].evec = KeysOf(st[s].db, Events(reported[s]))
      BY <1>0, <1>1, <1>3, <2>1, ByteIs
    <2> QED  BY <1>2, <2>2, <2>3
  <1>5. PICK e \in Event : e = Fa(k)
    BY DEF Event, AllRules, Fa
  <1>6. PICK ev \in SUBSET Keys, flags \in SUBSET Flags :
            ev = Marked(s, "fa", h) /\ flags = Raised(s, "fa", h)
    BY <1>0, <1>2, <1>4, MarkedIs DEF HasRule
  <1>7. /\ Callback(s, "fa", k, h)
        /\ st' = [st EXCEPT ![s].evec = ev]
        /\ pos' = pos + 1 /\ nfa' = (IF flags # {} THEN Dead ELSE NextState)
        /\ UNCHANGED <<open, inUse, pc, call, todo, ret, data>>
        /\ status' = flags
    <2>0. x.offset \in Nat /\ pos \in Nat /\ k = x.offset + (pos + 1)  BY <1>4
    <2>1. st[s].offset + pos + 1 = k  BY <1>2, <2>0
    <2> QED  BY <1>1, <1>4, <1>6, <2>1 DEF ExecReport, Broken
  <1>8. ~(x.db.key["fa"] # NoKey /\ x.db.key["fa"] \in x.evec)
    BY <1>0, <1>1, <1>2 DEF isExhausted, KeyOf
  <1>9. InTurn(g0)  BY <1>4 DEF WriteOK
  <1>10. PICK g : g = Append(g0, e)  OBVIOUS
  <1>11. /\ Events(g) = UpTo(x, d, k) /\ InTurn(g)
         /\ Events(g) = Events(g0) \cup {e}
    <2>1. k = n + 1 /\ k <= Len(d) /\ "fa" \in DOMAIN x.db.key  BY <1>3, <1>4
    <2>2. Events(g0) = UpTo(x, d, n) /\ x.evec = KeysOf(x.db, Events(g0))  BY <1>4
    <2>3. d \in Seq(Byte) /\ g0 \in Seq(Event)  BY <1>4
    <2>4. Run(d)[k] \in Accept  BY <1>0, <1>4
    <2>5. Events(g0) \cup {e} = UpTo(x, d, k) /\ \A f \in Events(g0) : Before(f, e)
      BY <1>5, <1>8, <2>1, <2>2, <2>3, <2>4, ByteReports
    <2>7. Events(g) = Events(g0) \cup {e} /\ InTurn(g)
      BY <1>9, <1>10, <2>3, <2>5, Reported
    <2> QED  BY <2>5, <2>7
  <1>12. /\ ~h => ev = KeysOf(x.db, Events(g))
         /\ ~h /\ flags # {} => AllOn(x.db, ev)
         /\ h => flags # {}
    <2>1. e.rule = "fa"  BY <1>5 DEF Fa
    <2>2. KeysOf(x.db, Events(g)) = KeysOf(x.db, Events(g0)) \cup ({x.db.key["fa"]} \ {NoKey})
      <3>1. KeysOf(x.db, Events(g0) \cup {e})
               = KeysOf(x.db, Events(g0)) \cup ({x.db.key[e.rule]} \ {NoKey})
        BY KeysWith
      <3> QED  BY <1>11, <2>1, <3>1
    <2>3. /\ ~h => Marked(s, "fa", h) = st[s].evec \cup ({st[s].db.key["fa"]} \ {NoKey})
          /\ ~h /\ Raised(s, "fa", h) # {} => AllOn(st[s].db, Marked(s, "fa", h))
          /\ h => Raised(s, "fa", h) # {}
      BY MarkedOn
    <2> QED  BY <1>2, <1>4, <1>6, <2>2, <2>3
  <1>13. /\ st'[s].db = x.db /\ st'[s].offset = x.offset /\ st'[s].evec = ev
         /\ \A y \in Ids : y # s => st'[y] = st[y]
    BY <1>0, <1>2, <1>7, EvecSame
  <1>14. /\ reported'[s] = g
         /\ \A y \in Ids : y # s => reported'[y] = reported[y] /\ stopped'[y] = stopped[y]
    <2>1. reported'[s] = Append(reported[s], Fa(k))
      BY <1>0, <1>7, CallbackAppends DEF Fa
    <2>2. \A y \in Ids : y # s => reported'[y] = reported[y] /\ stopped'[y] = stopped[y]
      BY <1>0, <1>7, CallbackAppends
    <2> QED  BY <1>2, <1>5, <1>10, <2>1, <2>2
  <1>15. stopped'[s] = h  BY <1>0, <1>4, <1>7 DEF Callback, TypeOK
  <1>16. ~h /\ flags # {} => Events(g) = Whole(x, d)
    <2> SUFFICES ASSUME ~h, flags # {} PROVE Events(g) = Whole(x, d)  OBVIOUS
    <2>1. Events(g) = UpTo(x, d, k) /\ AllOn(x.db, KeysOf(x.db, Events(g))) /\ d \in Seq(Byte)
      BY <1>4, <1>11, <1>12
    <2> QED  BY <2>1, AllReported
  <1>17. PICK y : y = st'[s]  OBVIOUS
  <1>18. /\ y.db = x.db /\ y.offset = x.offset /\ y.evec = ev
         /\ Whole(y, d) = Whole(x, d) /\ UpTo(y, d, k) = UpTo(x, d, k)
    <2>1. y.db = x.db /\ y.offset = x.offset /\ y.evec = ev  BY <1>13, <1>17
    <2> QED  BY <2>1, OfDb
  <1>19. Events(g) \subseteq Whole(x, d)  BY <1>11 DEF UpTo
  <1>20. WriteOK(y, d, g, h, call.chunk)
    BY <1>4, <1>11, <1>12, <1>18, <1>19 DEF WriteOK
  <1>21. ExecOK(y, d, g, h, k, IF flags # {} THEN Dead ELSE NextState, flags)
    BY <1>4, <1>11, <1>12, <1>16, <1>18 DEF ExecOK
  <1>22. data'[s] = d  BY <1>2, <1>7
  <1>23. /\ WriteOK(st'[s], data'[s], reported'[s], stopped'[s], call.chunk)
         /\ ExecOK(st'[s], data'[s], reported'[s], stopped'[s], k, nfa', status')
    BY <1>7, <1>14, <1>15, <1>17, <1>20, <1>21, <1>22
  <1>24. k = st'[s].offset + pos'  BY <1>4, <1>7, <1>13
  <1>25. pc' = "exec" /\ \A z \in Ids : z # s => data'[z] = data[z]  BY <1>0, <1>7
  <1> QED  BY <1>0, <1>1, <1>7, <1>13, <1>14, <1>23, <1>24, <1>25, WriteGoesOn

\* The engine returns.
LEMMA ExecEnds ==
    ASSUME NEW x, x.offset \in Nat, NEW d \in Seq(Byte), NEW g, NEW stop \in BOOLEAN,
           NEW c \in Seq(Byte), WriteOK(x, d, g, stop, c),
           NEW n \in Nat, NEW q, NEW flags, ExecOK(x, d, g, stop, n, q, flags),
           flags = {} => stop = FALSE,
           flags # {} => q = Dead, q # Dead => n >= Len(d),
           NEW y, y.db = x.db, y.evec = x.evec,
           y.status = {} => q # Dead /\ y.offset = Len(d) /\ y.nfa = q,
           y.status # {} => q = Dead
    PROVE  RestOK(y, d, g, stop)
  <1>1. /\ InTurn(g) /\ Events(g) \subseteq Whole(x, d) /\ d # <<>> /\ n <= Len(d)
        /\ ~stop => x.evec = KeysOf(x.db, Events(g))
    BY DEF WriteOK, ExecOK
  <1>2. Whole(y, d) = Whole(x, d)  BY OfDb
  <1>3. CASE flags = {}
    <2>1. Events(g) = UpTo(x, d, n) /\ q = Run(d)[n] /\ n \in 0 .. Len(d)
      BY <1>1, <1>3 DEF ExecOK
    <2>2. Run(d)[n] = Dead \/ n = Len(d)  BY <1>1, <2>1
    <2>3. UpTo(x, d, n) = Whole(x, d)  BY <2>1, <2>2, UpToDead
    <2>4. q = Dead => Run(d)[Len(d)] = Dead
      <3>1. Len(d) \in n .. Len(d)  BY <2>1
      <3> QED  BY <2>1, <3>1, RunDead
    <2>5. q # Dead => q = Run(d)[Len(d)]  BY <2>1, <2>2
    <2> QED  BY <1>1, <1>2, <2>1, <2>3, <2>4, <2>5 DEF RestOK
  <1>4. CASE flags # {}
    <2>1. ~stop => Events(g) = Whole(x, d) /\ AllOn(x.db, x.evec)  BY <1>4 DEF ExecOK
    <2>2. y.status # {}  BY <1>4
    <2> QED  BY <1>1, <1>2, <2>1, <2>2 DEF RestOK
  <1> QED  BY <1>3, <1>4

LEMMA ExecDoneSInv == ASSUME HAVE_NEON, IInv, SInv, ExecDone PROVE SInv'
  <1>0. pc = "exec" /\ ~Running /\ Writing /\ TypeOK
    BY DEF ExecDone, Writing, IInv
  <1>1. PICK s \in Ids : s = call.s  BY <1>0, WritingIs
  <1>2. PICK x, d, g, c : x = st[s] /\ d = data[s] /\ g = reported[s] /\ c = call.chunk
    OBVIOUS
  <1>3. PICK n : n = st[s].offset + pos  OBVIOUS
  <1>4. PICK flags : flags = ExecFlags  OBVIOUS
  <1>5. /\ x \in StreamState /\ d \in Seq(Byte) /\ c \in Seq(Byte)
        /\ x.offset \in Nat /\ pos \in Nat /\ n \in Nat
        /\ WriteOK(x, d, g, stopped[s], c)
        /\ ExecOK(x, d, g, stopped[s], n, nfa, status)
        /\ status = {} => stopped[s] = FALSE
    <2>1. /\ st[s] \in StreamState /\ data[s] \in Seq(Byte) /\ call.chunk \in Seq(Byte)
          /\ st[s].offset \in Nat /\ pos \in Nat /\ n \in Nat
          /\ WriteOK(st[s], data[s], reported[s], stopped[s], call.chunk)
          /\ ExecOK(st[s], data[s], reported[s], stopped[s], n, nfa, status)
          /\ status = {} => stopped[s] = FALSE
      BY <1>0, <1>1, <1>3, ExecIs
    <2> QED  BY <1>2, <2>1
  <1>6. /\ stopped[s] \in BOOLEAN
        /\ status # {} => nfa = Dead
        /\ nfa # Dead => n >= Len(d)
        /\ Len(d) = x.offset + Len(c)
    <2>1. Len(d) = x.offset + Len(c)  BY <1>5 DEF WriteOK
    <2>2. nfa # Dead => pos >= Len(c) /\ Len(c) \in Nat  BY <1>0, <1>2, <1>5 DEF Running
    <2>3. n = x.offset + pos /\ x.offset \in Nat /\ pos \in Nat  BY <1>2, <1>3, <1>5
    <2>4. nfa # Dead => n >= Len(d)  BY <2>1, <2>2, <2>3
    <2>5. stopped[s] \in BOOLEAN /\ (status # {} => nfa = Dead)
      BY <1>0 DEF TypeOK, IInv, CallShape
    <2> QED  BY <2>1, <2>4, <2>5
  <1>7. PICK y : y = [x EXCEPT
                !.nfa = IF nfa # Dead THEN nfa ELSE @,
                !.status = flags,
                !.history = IF Broken(flags) THEN @ ELSE maintainHistoryBuffer(@, c),
                !.offset = IF Broken(flags) THEN @ ELSE @ + Len(c)]
    OBVIOUS
  <1>8. /\ y.db = x.db /\ y.evec = x.evec /\ y.status = flags
        /\ y.nfa = (IF nfa # Dead THEN nfa ELSE x.nfa)
        /\ y.offset = IF flags # {} THEN x.offset ELSE x.offset + Len(c)
    BY <1>5, <1>7 DEF StreamState, Broken
  <1>9. flags = {} <=> nfa # Dead
    <2>1. nfa # Dead => flags = {}  BY <1>4, <1>6 DEF ExecFlags
    <2>2. nfa = Dead => flags # {}
      <3>1. CASE "TERMINATED" \in status  BY <1>4, <3>1 DEF ExecFlags
      <3>2. CASE "TERMINATED" \notin status  BY <1>4, <3>2 DEF ExecFlags
      <3> QED  BY <3>1, <3>2
    <2> QED  BY <2>1, <2>2
  <1>10. RestOK(y, d, g, stopped[s])
    <2>1. /\ flags = {} => nfa # Dead /\ y.offset = Len(d) /\ y.nfa = nfa
          /\ flags # {} => nfa = Dead
      BY <1>6, <1>8, <1>9
    <2>2. PICK stop \in BOOLEAN : stop = stopped[s]  BY <1>6
    <2>3. WriteOK(x, d, g, stop, c) /\ ExecOK(x, d, g, stop, n, nfa, status)  BY <1>5, <2>2
    <2>4. /\ status = {} => stop = FALSE
          /\ status # {} => nfa = Dead
          /\ nfa # Dead => n >= Len(d)
      BY <1>5, <1>6, <2>2
    <2>5. /\ y.db = x.db /\ y.evec = x.evec
          /\ y.status = {} => nfa # Dead /\ y.offset = Len(d) /\ y.nfa = nfa
          /\ y.status # {} => nfa = Dead
      BY <1>8, <2>1
    <2>6. RestOK(y, d, g, stop)
      <3>1. x.offset \in Nat /\ d \in Seq(Byte) /\ c \in Seq(Byte) /\ n \in Nat
        BY <1>5
      <3>2. PICK q, fl : q = nfa /\ fl = status  OBVIOUS
      <3>3. /\ ExecOK(x, d, g, stop, n, q, fl)
            /\ fl = {} => stop = FALSE
            /\ fl # {} => q = Dead
            /\ q # Dead => n >= Len(d)
            /\ y.status = {} => q # Dead /\ y.offset = Len(d) /\ y.nfa = q
            /\ y.status # {} => q = Dead
        BY <2>3, <2>4, <2>5, <3>2
      <3>4. y.db = x.db /\ y.evec = x.evec /\ WriteOK(x, d, g, stop, c)  BY <2>3, <2>5
      <3> QED  BY <3>1, <3>3, <3>4, ExecEnds
    <2> QED  BY <2>2, <2>6
  <1>11. /\ st' = [st EXCEPT ![s] = y]
         /\ UNCHANGED <<open, data, reported, stopped>>
         /\ \E rv : Leave(call.op, s, rv)
    <2>1. AfterExec(s, ExecFlags) = flags  BY <1>4 DEF AfterExec
    <2>2. Stored(flags) = flags  BY DEF Stored
    <2> QED  BY <1>1, <1>2, <1>7, <2>1, <2>2 DEF ExecDone, hist
  <1>12. PICK rv : Leave(call.op, s, rv)  BY <1>11
  <1>13. st'[s] = y /\ \A z \in Ids : z # s => st'[z] = st[z]  BY <1>0, <1>11 DEF TypeOK
  <1>14. RestOK(st'[s], data'[s], reported'[s], stopped'[s])
    BY <1>2, <1>10, <1>11, <1>13
  <1> QED  BY <1>0, <1>1, <1>11, <1>12, <1>13, <1>14, WriteEnds

LEMMA VectorSInv ==
    ASSUME IInv, SInv, NEW d \in Databases, hs_scan_vector(d) PROVE SInv'
  <1> USE Constants
  <1>0. TypeOK /\ open \subseteq Streams  BY DEF IInv, TypeOK
  <1>1. /\ pc = "idle" /\ pc' = "vector" /\ call'.s = "bstate" /\ call'.op = "vector"
        /\ open' = open
        /\ st'["bstate"] = init_stream(d, Fresh) /\ data'["bstate"] = <<>>
        /\ reported'["bstate"] = <<>>
        /\ \A x \in Ids : x # "bstate" =>
                /\ st'[x] = st[x] /\ data'[x] = data[x]
                /\ reported'[x] = reported[x] /\ stopped'[x] = stopped[x]
    BY <1>0 DEF hs_scan_vector, TypeOK, Call
  <1>2. RestOK(st'["bstate"], data'["bstate"], reported'["bstate"], stopped'["bstate"])
    <2>1. /\ st'["bstate"].offset = 0 /\ st'["bstate"].evec = {}
          /\ st'["bstate"].status = {}
      BY <1>1 DEF init_stream
    <2> QED  BY <1>1, <2>1, RestFresh
  <1>3. Unused'
    <2>1. \A x \in Streams \ open : x # "bstate" /\ x \in Ids  OBVIOUS
    <2> QED  BY <1>1, <2>1 DEF SInv, Unused
  <1>4. Rests'
    <2> SUFFICES ASSUME NEW x \in Ids, Resting(x)'
                 PROVE  RestOK(st'[x], data'[x], reported'[x], stopped'[x])
      BY DEF Rests
    <2>1. CASE x = "bstate"  BY <1>2, <2>1
    <2>2. CASE x # "bstate"
      <3>1. x \in open  BY <1>1, <2>2 DEF Resting
      <3>2. Resting(x)  BY <1>1, <3>1 DEF Resting, Writing
      <3> QED  BY <1>1, <2>2, <3>2 DEF SInv, Rests
    <2> QED  BY <2>1, <2>2
  <1>5. Writes' /\ Ends' /\ Vectored'  BY <1>1 DEF Writes, Writing, Ends, Vectored
  <1> QED  BY <1>3, <1>4, <1>5 DEF SInv

LEMMA VectorCloseSInv == ASSUME IInv, SInv, VectorClose PROVE SInv'
  <1>1. /\ pc = "vector" /\ pc' = "eod"
        /\ UNCHANGED <<st, open, call, data, reported, stopped>>
    BY DEF VectorClose, hist
  <1>2. \A x \in Ids : Resting(x)' => Resting(x)
    BY <1>1 DEF Resting, Writing
  <1>3. Unused' /\ Rests'  BY <1>1, <1>2 DEF SInv, Unused, Rests
  <1>4. Writes' /\ Ends'  BY <1>1 DEF Writes, Writing, Ends
  <1>5. Vectored'
    <2>1. call.op = "vector"  BY <1>1 DEF IInv, CallShape
    <2> QED  BY <1>1, <2>1 DEF Vectored
  <1> QED  BY <1>3, <1>4, <1>5 DEF SInv

LEMMA EodBeginSInv ==
    ASSUME IInv, SInv, NEW op \in EodOps, NEW s \in Streams,
           NEW from \in Streams \cup {"none"}, EodBegin(op, s, from)
    PROVE  SInv'
  <1>1. /\ pc = "idle" /\ pc' = "eod" /\ call'.op = op /\ op # "vector"
        /\ UNCHANGED <<st, open, data, reported, stopped>>
    BY DEF EodBegin, Call, hist, EodOps
  <1>2. \A x \in Ids : Resting(x)' => Resting(x)
    BY <1>1 DEF Resting, Writing
  <1>3. Unused' /\ Rests'  BY <1>1, <1>2 DEF SInv, Unused, Rests
  <1>4. Writes' /\ Ends'  BY <1>1 DEF Writes, Writing, Ends
  <1>5. Vectored'  BY <1>1 DEF SInv, Vectored
  <1> QED  BY <1>3, <1>4, <1>5 DEF SInv

----------------------------------------------------------------------------
(* The end of the data, and the calls that replace a stream                *)

\* Nothing is due at the end of the data.
LEMMA EodSame ==
    ASSUME NEW d \in Seq(Byte), NEW x, NEW g, NEW stop \in BOOLEAN,
           RestOK(x, d, g, stop),
           ~stop => \A e \in MatchesEod(d) : e.rule \in DOMAIN x.db.key =>
                       x.db.key[e.rule] # NoKey /\ x.db.key[e.rule] \in x.evec
    PROVE  EodOK(x, d, g, stop)
  <1>1. InTurn(g) /\ Events(g) \subseteq Whole(x, d)  BY DEF RestOK
  <1>2. ASSUME ~stop PROVE Events(g) = WholeEod(x, d)
    <2>1. Events(g) = Whole(x, d) /\ x.evec = KeysOf(x.db, Whole(x, d))
      BY <1>2 DEF RestOK
    <2>2. \A e : e \in WholeEod(x, d) <=>
                \/ e \in Whole(x, d)
                \/ /\ e \in MatchesEod(d) /\ e.rule \in DOMAIN x.db.key
                   /\ \/ x.db.key[e.rule] = NoKey
                      \/ x.db.key[e.rule] \notin KeysOf(x.db, Whole(x, d))
      BY EodDueIs
    <2>3. \A e : e \in WholeEod(x, d) <=> e \in Whole(x, d)
      BY <1>2, <2>1, <2>2
    <2> QED  BY <2>1, <2>3
  <1> QED  BY <1>1, <1>2 DEF EodOK

\* The match at the end is reported.
LEMMA EodAdds ==
    ASSUME NEW d \in Seq(Byte), NEW x, NEW g0 \in Seq(Event), RestOK(x, d, g0, FALSE),
           NEW e \in Event, e \in MatchesEod(d), e.rule \in DOMAIN x.db.key,
           x.db.key[e.rule] = NoKey \/ x.db.key[e.rule] \notin x.evec,
           NEW g, g = Append(g0, e), NEW y, y.db = x.db, NEW stop \in BOOLEAN
    PROVE  EodOK(y, d, g, stop)
  <1>1. /\ InTurn(g0) /\ Events(g0) = Whole(x, d)
        /\ x.evec = KeysOf(x.db, Whole(x, d))
    BY DEF RestOK
  <1>2. \A f : f \in WholeEod(x, d) <=>
            \/ f \in Whole(x, d)
            \/ /\ f \in MatchesEod(d) /\ f.rule \in DOMAIN x.db.key
               /\ \/ x.db.key[f.rule] = NoKey
                  \/ x.db.key[f.rule] \notin KeysOf(x.db, Whole(x, d))
    BY EodDueIs
  <1>3. \A f \in MatchesEod(d) : f = e
    <2>1. \A f \in MatchesEod(d) :
             f \in Event /\ f.to = Len(d) /\ f.rule = IF d = <<>> THEN "zeroEod" ELSE "eod"
      BY MatchesEodIs
    <2>2. \A f \in MatchesEod(d) : f.to = e.to /\ f.rule = e.rule  BY <2>1
    <2>3. \A f \in Event : f.to = e.to /\ f.rule = e.rule => f = e  BY DEF Event
    <2> QED  BY <2>1, <2>2, <2>3
  <1>4. WholeEod(x, d) = Whole(x, d) \cup {e}  BY <1>1, <1>2, <1>3
  <1>5. \A f \in Events(g0) : Before(f, e)
    <2>1. \A f \in Whole(x, d), q \in MatchesEod(d) : Before(f, q)  BY EodDueIs
    <2> QED  BY <1>1, <2>1
  <1>6. Events(g) = Events(g0) \cup {e} /\ InTurn(g)  BY <1>1, <1>5, Reported
  <1>7. WholeEod(x, d) \subseteq Whole(x, d) \cup Due(MatchesEod(d), x.db)  BY EodDueIs
  <1>8. /\ Events(g) = WholeEod(x, d) /\ InTurn(g)
        /\ Events(g) \subseteq Whole(x, d) \cup Due(MatchesEod(d), x.db)
    BY <1>1, <1>4, <1>6, <1>7
  <1>9. Whole(y, d) = Whole(x, d) /\ WholeEod(y, d) = WholeEod(x, d)  BY OfDb
  <1> QED  BY <1>8, <1>9 DEF EodOK

\* The stream whose end is checked.
LEMMA EndingIs ==
    ASSUME IInv, SInv, pc = "eod", NEW s \in Ids, s = call.s
    PROVE  /\ RestOK(st[s], data[s], reported[s], stopped[s])
           /\ st[s] \in StreamState /\ data[s] \in Seq(Byte) /\ reported[s] \in Seq(Event)
           /\ stopped[s] \in BOOLEAN /\ st[s].offset \in Nat /\ st[s].nfa \in NfaState
           /\ st[s].status = {} => stopped[s] = FALSE
  <1>1. TypeOK /\ ~Writing  BY DEF IInv, Writing
  <1>2. /\ call.op = "vector" => call.s = "bstate"
        /\ call.op # "vector" => call.s \in open
        /\ (Terminated(s) <=> stopped[s])
    BY EodIs
  <1>3. Resting(s)  BY <1>1, <1>2 DEF Resting
  <1>4. RestOK(st[s], data[s], reported[s], stopped[s])  BY <1>3 DEF SInv, Rests
  <1>5. /\ st[s] \in StreamState /\ data[s] \in Seq(Byte) /\ reported[s] \in Seq(Event)
        /\ stopped[s] \in BOOLEAN
    BY <1>1 DEF TypeOK
  <1>6. st[s].offset \in Nat /\ st[s].nfa \in NfaState  BY <1>5 DEF StreamState
  <1>7. st[s].status = {} => stopped[s] = FALSE  BY <1>2, <1>5 DEF Terminated
  <1> QED  BY <1>4, <1>5, <1>6, <1>7

LEMMA EodEnds ==
    ASSUME IInv, SInv, pc = "eod", NEW s \in Ids, s = call.s, pc' = "eod_done",
           UNCHANGED <<open, call>>,
           \A x \in Ids : x # s => /\ st'[x] = st[x] /\ data'[x] = data[x]
                                   /\ reported'[x] = reported[x] /\ stopped'[x] = stopped[x],
           EodOK(st'[s], data'[s], reported'[s], stopped'[s])
    PROVE  SInv'
  <1> USE Constants
  <1>1. /\ call.op = "vector" => s = "bstate"
        /\ call.op # "vector" => s \in open
        /\ open \subseteq Streams
    BY EodIs DEF IInv, TypeOK
  <1>2. Unused'
    <2>1. \A x \in Streams \ open : x # s /\ x \in Ids  BY <1>1
    <2> QED  BY <2>1 DEF SInv, Unused
  <1>3. Rests'
    <2> SUFFICES ASSUME NEW x \in Ids, Resting(x)'
                 PROVE  RestOK(st'[x], data'[x], reported'[x], stopped'[x])
      BY DEF Rests
    <2>1. x \in open /\ x # s  BY DEF Resting, Writing
    <2>2. Resting(x)  BY <2>1 DEF Resting
    <2> QED  BY <2>1, <2>2 DEF SInv, Rests
  <1>4. Writes'  BY DEF Writes, Writing
  <1>5. Ends'  BY DEF Ends
  <1>6. Vectored'
    <2>1. CASE call.op = "vector"  BY <2>1 DEF Vectored
    <2>2. CASE call.op # "vector"
      <3>1. s # "bstate"  BY <1>1, <2>2
      <3> QED  BY <2>2, <3>1 DEF SInv, Vectored
    <2> QED  BY <2>1, <2>2
  <1> QED  BY <1>2, <1>3, <1>4, <1>5, <1>6 DEF SInv

LEMMA EodNoneSInv == ASSUME IInv, SInv, EodNone PROVE SInv'
  <1>0. /\ pc = "eod" /\ pc' = "eod_done"
        /\ UNCHANGED <<st, open, call, data, reported, stopped>>
        /\ EodSkipped(call.s) \/ (~EodSkipped(call.s) /\ ~EodDue(call.s))
    BY DEF EodNone, hist
  <1>1. PICK s \in Ids : s = call.s  BY <1>0, EodIs
  <1>2. PICK x, d, g, stop : x = st[s] /\ d = data[s] /\ g = reported[s] /\ stop = stopped[s]
    OBVIOUS
  <1>3. /\ RestOK(x, d, g, stop) /\ x \in StreamState /\ d \in Seq(Byte)
        /\ stop \in BOOLEAN /\ x.offset \in Nat
    <2>1. /\ RestOK(st[s], data[s], reported[s], stopped[s]) /\ st[s] \in StreamState
          /\ data[s] \in Seq(Byte) /\ stopped[s] \in BOOLEAN /\ st[s].offset \in Nat
      BY <1>0, <1>1, EndingIs
    <2> QED  BY <1>2, <2>1
  <1>4. ASSUME ~stop, NEW e \in MatchesEod(d), e.rule \in DOMAIN x.db.key
        PROVE  x.db.key[e.rule] # NoKey /\ x.db.key[e.rule] \in x.evec
    <2>1. /\ x.status = {} => x.offset = Len(d) /\ (d # <<>> => x.nfa = Run(d)[Len(d)])
          /\ x.status # {} => d # <<>> /\ (Run(d)[Len(d)] = Dead \/ AllOn(x.db, x.evec))
      BY <1>3, <1>4 DEF RestOK
    <2>2. /\ e.rule = IF d = <<>> THEN "zeroEod" ELSE "eod"
          /\ d # <<>> => Run(d)[Len(d)] \in AcceptEod
      BY <1>3, MatchesEodIs
    <2>3. AllOn(x.db, x.evec) => x.db.key[e.rule] # NoKey /\ x.db.key[e.rule] \in x.evec
      BY <1>4 DEF AllOn
    <2>4. CASE x.status # {}
      <3>1. Run(d)[Len(d)] # Dead  BY <2>1, <2>2, <2>4, NfaAssumption
      <3> QED  BY <2>1, <2>3, <2>4, <3>1
    <2>5. CASE x.status = {}
      <3>1. ~EodDue(s)  BY <1>0, <1>1, <1>2, <2>5 DEF EodSkipped, Broken
      <3>2. x.offset = 0 <=> d = <<>>  BY <1>3, <2>1, <2>5
      <3>3. EodRule(s) = e.rule  BY <1>2, <2>2, <3>2 DEF EodRule
      <3>4. x.offset # 0 => x.nfa \in AcceptEod  BY <2>1, <2>2, <2>5, <3>2
      <3>5. HasRule(s, EodRule(s))  BY <1>2, <1>4, <3>3 DEF HasRule
      <3>6. isExhausted(s, EodRule(s)) \/ AllOn(x.db, x.evec)
        BY <1>2, <3>1, <3>4, <3>5 DEF EodDue, isAllExhausted
      <3>7. isExhausted(s, EodRule(s)) => x.db.key[e.rule] # NoKey /\ x.db.key[e.rule] \in x.evec
        BY <1>2, <3>3 DEF isExhausted, KeyOf
      <3> QED  BY <2>3, <3>6, <3>7
    <2> QED  BY <2>4, <2>5
  <1>5. EodOK(x, d, g, stop)
    <2>1. ~stop => \A e \in MatchesEod(d) : e.rule \in DOMAIN x.db.key =>
                       x.db.key[e.rule] # NoKey /\ x.db.key[e.rule] \in x.evec
      BY <1>4
    <2> QED  BY <1>3, <2>1, EodSame
  <1> QED  BY <1>0, <1>1, <1>2, <1>5, EodEnds

LEMMA EodReportSInv == ASSUME IInv, SInv, NEW h \in BOOLEAN, EodReport(h) PROVE SInv'
  <1>0. /\ pc = "eod" /\ TypeOK /\ pc' = "eod_done" /\ UNCHANGED <<open, call, data>>
        /\ ~EodSkipped(call.s) /\ EodDue(call.s)
    BY DEF EodReport, IInv
  <1>1. PICK s \in Ids : s = call.s  BY <1>0, EodIs
  <1>2. PICK x, d, g0 : x = st[s] /\ d = data[s] /\ g0 = reported[s]  OBVIOUS
  <1>3. x.status = {}  BY <1>0, <1>1, <1>2 DEF EodSkipped, Broken
  <1>4. /\ RestOK(x, d, g0, FALSE) /\ x \in StreamState /\ d \in Seq(Byte)
        /\ g0 \in Seq(Event) /\ x.offset \in Nat
    <2>1. /\ RestOK(st[s], data[s], reported[s], stopped[s]) /\ st[s] \in StreamState
          /\ data[s] \in Seq(Byte) /\ reported[s] \in Seq(Event) /\ st[s].offset \in Nat
          /\ st[s].status = {} => stopped[s] = FALSE
      BY <1>0, <1>1, EndingIs
    <2>2. stopped[s] = FALSE  BY <1>2, <1>3, <2>1
    <2> QED  BY <1>2, <2>1, <2>2
  <1>5. PICK r : r = EodRule(s)  OBVIOUS
  <1>6. /\ r = (IF d = <<>> THEN "zeroEod" ELSE "eod")
        /\ x.offset = Len(d) /\ (d # <<>> => x.nfa = Run(d)[Len(d)])
    <2>1. x.offset = Len(d) /\ (d # <<>> => x.nfa = Run(d)[Len(d)])
      BY <1>3, <1>4 DEF RestOK
    <2>2. x.offset = 0 <=> d = <<>>  BY <1>4, <2>1
    <2> QED  BY <1>2, <1>5, <2>1, <2>2 DEF EodRule
  <1>7. /\ r \in DOMAIN x.db.key
        /\ x.db.key[r] = NoKey \/ x.db.key[r] \notin x.evec
        /\ x.offset # 0 => x.nfa \in AcceptEod
    BY <1>0, <1>1, <1>2, <1>5 DEF EodDue, HasRule, isExhausted, KeyOf
  <1>8. PICK e \in Event : e = [rule |-> r, to |-> Len(d)]
    <2>1. r \in AllRules /\ Len(d) \in Nat  BY <1>4, <1>6 DEF AllRules
    <2> QED  BY <2>1 DEF Event
  <1>9. e \in MatchesEod(d)
    <2>1. CASE d = <<>>
      <3>1. [rule |-> "zeroEod", to |-> 0] \in MatchesEod(d)  BY <1>4, <2>1, MatchesEodIs
      <3>2. Len(d) = 0  BY <2>1
      <3> QED  BY <1>6, <1>8, <2>1, <3>1, <3>2
    <2>2. CASE d # <<>>
      <3>1. Len(d) # 0  BY <1>4, <2>2
      <3>2. Run(d)[Len(d)] \in AcceptEod  BY <1>6, <1>7, <2>2, <3>1
      <3>3. [rule |-> "eod", to |-> Len(d)] \in MatchesEod(d)
        BY <1>4, <2>2, <3>2, MatchesEodIs
      <3> QED  BY <1>6, <1>8, <2>2, <3>3
    <2> QED  BY <2>1, <2>2
  <1>10. PICK ev \in SUBSET Keys : ev = Marked(s, r, h)
    <2>1. HasRule(s, r)  BY <1>2, <1>7 DEF HasRule
    <2> QED  BY <1>0, <2>1, MarkedIs
  <1>11. /\ st' = [st EXCEPT ![s].evec = ev]
         /\ Callback(s, r, Len(d), h)
    BY <1>1, <1>2, <1>5, <1>6, <1>10 DEF EodReport
  <1>12. PICK y : y = st'[s]  OBVIOUS
  <1>13. y.db = x.db /\ \A z \in Ids : z # s => st'[z] = st[z]
    <2>1. st'[s].db = st[s].db /\ \A z \in Ids : z # s => st'[z] = st[z]
      BY <1>0, <1>11, EvecSame
    <2> QED  BY <1>2, <1>12, <2>1
  <1>14. PICK g : g = Append(g0, e)  OBVIOUS
  <1>15. /\ reported'[s] = g /\ stopped'[s] \in BOOLEAN
         /\ \A z \in Ids : z # s => reported'[z] = reported[z] /\ stopped'[z] = stopped[z]
    <2>1. reported'[s] = Append(reported[s], [rule |-> r, to |-> Len(d)])
      BY <1>0, <1>11, CallbackAppends
    <2>2. \A z \in Ids : z # s => reported'[z] = reported[z] /\ stopped'[z] = stopped[z]
      BY <1>0, <1>11, CallbackAppends
    <2>3. stopped'[s] \in BOOLEAN  BY <1>0, <1>11 DEF Callback, TypeOK
    <2> QED  BY <1>2, <1>8, <1>14, <2>1, <2>2, <2>3
  <1>16. PICK stop \in BOOLEAN : stop = stopped'[s]  BY <1>15
  <1>17. EodOK(y, d, g, stop)
    <2>1. e.rule = r  BY <1>8
    <2>2. /\ e.rule \in DOMAIN x.db.key
          /\ x.db.key[e.rule] = NoKey \/ x.db.key[e.rule] \notin x.evec
      BY <1>7, <2>1
    <2>3. d \in Seq(Byte) /\ g0 \in Seq(Event) /\ RestOK(x, d, g0, FALSE)  BY <1>4
    <2>4. y.db = x.db  BY <1>13
    <2> QED  BY <1>9, <1>14, <2>2, <2>3, <2>4, EodAdds
  <1>18. EodOK(st'[s], data'[s], reported'[s], stopped'[s])
    BY <1>0, <1>2, <1>12, <1>15, <1>16, <1>17
  <1> QED  BY <1>0, <1>1, <1>13, <1>15, <1>18, EodEnds

\* What Finish does to the reports.
LEMMA FinishReports ==
    ASSUME TypeOK, NEW op \in EodOps, NEW s \in open, NEW from \in Streams \cup {"none"},
           op = "copy" => from \in open, Finish(op, s, from)
    PROVE  /\ \A x \in Ids : x # s => /\ st'[x] = st[x] /\ data'[x] = data[x]
                                      /\ reported'[x] = reported[x]
                                      /\ stopped'[x] = stopped[x]
           /\ open' = (IF op = "close" THEN open \ {s} ELSE open)
           /\ op # "copy" => /\ st'[s].status = {} /\ st'[s].offset = 0 /\ st'[s].evec = {}
                             /\ data'[s] = <<>> /\ reported'[s] = <<>>
           /\ op = "copy" => /\ st'[s] = st[from] /\ data'[s] = data[from]
                             /\ reported'[s] = reported[from] /\ stopped'[s] = stopped[from]
  <1> USE Constants
  <1>1. /\ \A x \in Ids : x # s => /\ st'[x] = st[x] /\ data'[x] = data[x]
                                   /\ stopped'[x] = stopped[x]
        /\ open' = (IF op = "close" THEN open \ {s} ELSE open)
        /\ op # "copy" => /\ st'[s].status = {} /\ st'[s].offset = 0 /\ data'[s] = <<>>
        /\ op = "copy" => /\ st'[s] = st[from] /\ data'[s] = data[from]
                          /\ stopped'[s] = stopped[from]
    BY FinishIs
  <1>2. open \subseteq Streams /\ s \in Ids  BY DEF TypeOK
  <1>3. CASE op # "copy"
    <2>1. reported' = [reported EXCEPT ![s] = <<>>]  BY <1>3 DEF Finish
    <2>2. reported'[s] = <<>> /\ \A x \in Ids : x # s => reported'[x] = reported[x]
      BY <1>2, <2>1 DEF TypeOK
    <2>3. st' = [st EXCEPT ![s] = IF op = "close" THEN Freed
                                  ELSE init_stream(st[s].db, st[s].history)]
      BY <1>2, <1>3 DEF Finish, TypeOK
    <2>4. st'[s].evec = {}
      <3>1. st'[s] = IF op = "close" THEN Freed ELSE init_stream(st[s].db, st[s].history)
        BY <1>2, <2>3 DEF TypeOK
      <3> QED  BY <3>1 DEF Freed, init_stream
    <2> QED  BY <1>1, <1>3, <2>2, <2>4
  <1>4. CASE op = "copy"
    <2>1. reported' = [reported EXCEPT ![s] = reported[from]]  BY <1>4 DEF Finish
    <2>2. reported'[s] = reported[from] /\ \A x \in Ids : x # s => reported'[x] = reported[x]
      BY <1>2, <2>1 DEF TypeOK
    <2> QED  BY <1>1, <1>4, <2>2
  <1> QED  BY <1>3, <1>4

\* A stream that takes over another one, or begins anew.
LEMMA FinishRests ==
    ASSUME TypeOK, SInv, NEW op \in EodOps, NEW s \in open, NEW from \in Streams \cup {"none"},
           op = "copy" => from \in open /\ Resting(from), Finish(op, s, from)
    PROVE  RestOK(st'[s], data'[s], reported'[s], stopped'[s])
  <1> USE Constants
  <1>1. /\ op # "copy" => /\ st'[s].status = {} /\ st'[s].offset = 0 /\ st'[s].evec = {}
                          /\ data'[s] = <<>> /\ reported'[s] = <<>>
        /\ op = "copy" => /\ st'[s] = st[from] /\ data'[s] = data[from]
                          /\ reported'[s] = reported[from] /\ stopped'[s] = stopped[from]
    BY FinishReports
  <1>2. CASE op = "copy"
    <2>1. from \in Ids /\ Resting(from)  BY <1>2 DEF TypeOK
    <2>2. RestOK(st[from], data[from], reported[from], stopped[from])
      BY <2>1 DEF SInv, Rests
    <2> QED  BY <1>1, <1>2, <2>2
  <1>3. CASE op # "copy"  BY <1>1, <1>3, RestFresh
  <1> QED  BY <1>2, <1>3

LEMMA EodFinishSInv == ASSUME IInv, SInv, EodFinish PROVE SInv'
  <1> USE Constants
  <1>0. pc = "eod_done" /\ pc' = "idle" /\ TypeOK /\ open \subseteq Streams
    BY DEF EodFinish, IInv, TypeOK
  <1>1. PICK s \in Ids : s = call.s  BY <1>0, EodIs
  <1>2. /\ call.op = "vector" => s = "bstate"
        /\ call.op # "vector" => s \in open
        /\ call.op \in {"vector", "close", "reset", "copy"}
        /\ call.op = "copy" => call.from \in open /\ call.from # s
    BY <1>0, <1>1, EodIs
  <1>3. Writes' /\ Ends' /\ (Writing' <=> FALSE)  BY <1>0 DEF Writes, Writing, Ends
  <1>4. \A x \in Ids : Resting(x)' => x \in open'  BY <1>0 DEF Resting
  <1>5. \A x \in open : x # s => Resting(x)  BY <1>1 DEF Resting
  <1>6. CASE call.op = "vector"
    <2>1. UNCHANGED <<st, open, call, data, reported, stopped>>
      BY <1>6 DEF EodFinish, hist
    <2>2. \A x \in Ids : Resting(x)' => Resting(x)
      <3>1. s \notin open  BY <1>0, <1>2, <1>6
      <3> QED  BY <1>4, <1>5, <2>1, <3>1
    <2>3. Unused' /\ Rests'  BY <2>1, <2>2 DEF SInv, Unused, Rests
    <2>4. EodOK(st[s], data[s], reported[s], stopped[s])  BY <1>0, <1>1 DEF SInv, Ends
    <2>5. Vectored'
      <3>1. s = "bstate"  BY <1>2, <1>6
      <3> QED  BY <2>1, <2>4, <3>1 DEF EodOK, Vectored
    <2> QED  BY <1>3, <2>3, <2>5 DEF SInv
  <1>7. CASE call.op # "vector"
    <2>1. PICK op \in EodOps, from \in Streams \cup {"none"} :
              op = call.op /\ from = call.from
      BY <1>0, <1>2, <1>7 DEF EodOps, TypeOK
    <2>2. Finish(op, s, from)  BY <1>1, <1>7, <2>1 DEF EodFinish
    <2>3. s \in open /\ s # "bstate" /\ (op = "copy" => from \in open /\ Resting(from))
      BY <1>0, <1>2, <1>5, <1>7, <2>1
    <2>4. RestOK(st'[s], data'[s], reported'[s], stopped'[s])
      BY <1>0, <2>2, <2>3, FinishRests
    <2>5. /\ \A x \in Ids : x # s => /\ st'[x] = st[x] /\ data'[x] = data[x]
                                     /\ reported'[x] = reported[x]
                                     /\ stopped'[x] = stopped[x]
          /\ open' = (IF op = "close" THEN open \ {s} ELSE open)
          /\ op # "copy" => reported'[s] = <<>>
      BY <1>0, <2>2, <2>3, FinishReports
    <2>6. Rests'
      <3> SUFFICES ASSUME NEW x \in Ids, Resting(x)'
                   PROVE  RestOK(st'[x], data'[x], reported'[x], stopped'[x])
        BY DEF Rests
      <3>1. CASE x = s  BY <2>4, <3>1
      <3>2. CASE x # s
        <4>1. x \in open  BY <1>4, <2>5
        <4> QED  BY <1>5, <2>5, <3>2, <4>1 DEF SInv, Rests
      <3> QED  BY <3>1, <3>2
    <2>7. Unused'
      <3> SUFFICES ASSUME NEW x \in Streams \ open' PROVE reported'[x] = <<>>
        BY DEF Unused
      <3>1. CASE x = s  BY <2>3, <2>5, <3>1
      <3>2. CASE x # s
        <4>1. x \in Streams \ open /\ x \in Ids  BY <2>5, <3>2
        <4> QED  BY <2>5, <3>2, <4>1 DEF SInv, Unused
      <3> QED  BY <3>1, <3>2
    <2>8. Vectored'  BY <1>7, <2>3, <2>5 DEF SInv, Vectored
    <2> QED  BY <1>3, <2>6, <2>7, <2>8 DEF SInv
  <1> QED  BY <1>6, <1>7

LEMMA OpenSInv ==
    ASSUME IInv, SInv, NEW s \in Streams, NEW d \in Databases, hs_open_stream(s, d)
    PROVE  SInv'
  <1> USE Constants
  <1>0. TypeOK  BY DEF IInv
  <1>1. /\ s \notin open /\ open' = open \cup {s} /\ Forget /\ Aside
        /\ UNCHANGED <<data, reported, stopped>>
        /\ st'[s] = init_stream(d, Fresh)
        /\ \A x \in Ids : x # s => st'[x] = st[x]
    BY <1>0 DEF hs_open_stream, hist, TypeOK
  <1>2. data[s] = <<>> /\ reported[s] = <<>>
    BY <1>1 DEF IInv, Marks, SInv, Unused
  <1>3. st'[s].offset = 0 /\ st'[s].evec = {} /\ st'[s].status = {}
    BY <1>1 DEF init_stream
  <1>4. RestOK(st'[s], <<>>, <<>>, stopped'[s])  BY <1>3, RestFresh
  <1>5. RestOK(st'[s], data'[s], reported'[s], stopped'[s])  BY <1>1, <1>2, <1>4
  <1>6. pc # "idle" => s # call.s  BY <1>1, NotCalled
  <1> QED  BY <1>1, <1>5, <1>6, SideSInv

LEMMA NotBusyRests ==
    ASSUME IInv, SInv, NEW f \in open, ~Busy(f)
    PROVE  Resting(f) /\ RestOK(st[f], data[f], reported[f], stopped[f])
  <1>1. f \in Ids  BY Constants DEF IInv, TypeOK
  <1>2. Resting(f)  BY DEF Busy, Resting, Writing
  <1> QED  BY <1>1, <1>2 DEF SInv, Rests

LEMMA CopySInv ==
    ASSUME IInv, SInv, NEW s \in Streams, NEW from \in Streams, hs_copy_stream(s, from)
    PROVE  SInv'
  <1> USE Constants
  <1>0. TypeOK  BY DEF IInv
  <1>1. /\ s \notin open /\ from \in open /\ ~Busy(from) /\ open' = open \cup {s}
        /\ Forget /\ Aside
    BY DEF hs_copy_stream
  <1>2. /\ st'[s] = st[from] /\ data'[s] = data[from]
        /\ reported'[s] = reported[from] /\ stopped'[s] = stopped[from]
    BY <1>0 DEF hs_copy_stream, TypeOK
  <1>3. \A x \in Ids : x # s => /\ st'[x] = st[x] /\ data'[x] = data[x]
                                /\ reported'[x] = reported[x] /\ stopped'[x] = stopped[x]
    BY <1>0 DEF hs_copy_stream, TypeOK
  <1>4. RestOK(st[from], data[from], reported[from], stopped[from])
    BY <1>1, NotBusyRests
  <1>5. RestOK(st'[s], data'[s], reported'[s], stopped'[s])  BY <1>2, <1>4
  <1>6. pc # "idle" => s # call.s  BY <1>1, NotCalled
  <1> QED  BY <1>1, <1>3, <1>5, <1>6, SideSInv

LEMMA WithoutEventsSInv ==
    ASSUME IInv, SInv, NEW op \in EodOps, NEW s \in Streams,
           NEW from \in Streams \cup {"none"}, WithoutEvents(op, s, from)
    PROVE  SInv'
  <1>0. TypeOK  BY DEF IInv
  <1>1. /\ s \in open /\ ~Busy(s) /\ Finish(op, s, from) /\ Forget /\ Aside
        /\ op = "copy" => from \in open /\ ~Busy(from)
    BY DEF WithoutEvents, CanCopy
  <1>2. op = "copy" => from \in open /\ Resting(from)  BY <1>1, NotBusyRests
  <1>3. RestOK(st'[s], data'[s], reported'[s], stopped'[s])
    BY <1>0, <1>1, <1>2, FinishRests
  <1>4. /\ \A x \in Ids : x # s => /\ st'[x] = st[x] /\ data'[x] = data[x]
                                   /\ reported'[x] = reported[x] /\ stopped'[x] = stopped[x]
        /\ open' = (IF op = "close" THEN open \ {s} ELSE open)
        /\ op # "copy" => reported'[s] = <<>>
    BY <1>0, <1>1, FinishReports
  <1>5. pc # "idle" => s # call.s  BY <1>1 DEF Busy
  <1>6. open' \subseteq open \cup {s} /\ open \subseteq open' \cup {s}  BY <1>4
  <1>7. s \notin open' => reported'[s] = <<>>  BY <1>1, <1>4
  <1> QED  BY <1>1, <1>3, <1>4, <1>5, <1>6, <1>7, SideSInv

LEMMA NextSInv == ASSUME HAVE_NEON, IInv, SInv, [Next]_vars PROVE SInv'
  <1> USE Constants
  <1>0. Chunk \subseteq Seq(Byte) /\ open \subseteq Streams
    BY BoundAssumption DEF Chunk, IInv, TypeOK
  <1>1. CASE \E s \in Streams, d \in Databases : hs_open_stream(s, d)
    BY <1>1, OpenSInv
  <1>2. CASE \E s, from \in Streams : hs_copy_stream(s, from)
    BY <1>2, CopySInv
  <1>3. CASE \E s \in Streams, c \in Chunk : hs_scan_stream(s, c)
    <2>1. PICK s \in Streams, c \in Chunk : hs_scan_stream(s, c)  BY <1>3
    <2>2. pc = "idle" /\ s \in open /\ ScanInternal("scan", s, c)
      BY <2>1 DEF hs_scan_stream
    <2> QED  BY <1>0, <2>2, ScanSInv
  <1>4. CASE \E d \in Databases : hs_scan_vector(d)
    BY <1>4, VectorSInv
  <1>5. CASE \E c \in Chunk : VectorBlock(c)
    <2>1. PICK c \in Chunk : VectorBlock(c)  BY <1>5
    <2>2. pc = "vector" /\ ScanInternal("vector", "bstate", c)
      BY <2>1 DEF VectorBlock
    <2> QED  BY <1>0, <2>2, ScanSInv
  <1>6. CASE \E op \in EodOps, s \in Streams, from \in Streams \cup {"none"} :
                EodBegin(op, s, from) \/ WithoutEvents(op, s, from)
    BY <1>6, EodBeginSInv, WithoutEventsSInv
  <1>7. CASE CallStep
    BY <1>7, ZeroReportSInv, ExecReportSInv, EodReportSInv, ZeroNoneSInv, ExecByteSInv,
       ExecDoneSInv, VectorCloseSInv, EodNoneSInv, EodFinishSInv
    DEF CallStep
  <1>8. CASE UNCHANGED vars
    <2>1. UNCHANGED <<st, open, status, pc, call, pos, nfa, data, reported, stopped>>
      BY <1>8 DEF vars, hist
    <2>2. Unused' /\ Rests' /\ Ends' /\ Vectored'
      BY <2>1 DEF SInv, Unused, Rests, Resting, Writing, Ends, Vectored
    <2>3. Writes'  BY <2>1 DEF SInv, Writes, Writing
    <2> QED  BY <2>2, <2>3 DEF SInv
  <1> QED  BY <1>1, <1>2, <1>3, <1>4, <1>5, <1>6, <1>7, <1>8 DEF Next

\* In the AArch64 build every reachable state satisfies both invariants.
THEOREM ReportInvariant == ASSUME HAVE_NEON PROVE Spec => []SInv
  <1>1. Init => SInv  BY InitSInv
  <1>2. IInv /\ SInv /\ [Next]_vars => SInv'  BY NextSInv
  <1> QED  BY <1>1, <1>2, StreamInvariant, PTL DEF Spec

\* Whatever the writes, and whichever other streams were opened, copied, reset
\* or closed meanwhile, the callbacks of a stream are those of one scan of all
\* its data, in order and each once, if the status the engine raised is kept
\* (in the build without NEON it is not: the run stream_x86 refutes the
\* property there).
THEOREM Streamed == ASSUME HAVE_NEON PROVE Spec => []StreamedAsWhole
  <1>1. IInv /\ SInv => StreamedAsWhole
    <2> SUFFICES ASSUME IInv, SInv, NEW s \in open \cup {"bstate"}, pc \notin {"eod", "eod_done"}
                 PROVE  /\ Got(s) \subseteq Due(Matches(data[s]), st[s].db)
                                              \cup Due(MatchesEod(data[s]), st[s].db)
                        /\ ~Busy(s) /\ ~stopped[s] /\ s # "bstate" =>
                              Got(s) = Due(Matches(data[s]), st[s].db)
                        /\ \A i, j \in DOMAIN reported[s] :
                              i < j => Before(reported[s][i], reported[s][j])
      BY DEF StreamedAsWhole
    <2> USE Constants
    <2>1. /\ Got(s) = Events(reported[s]) /\ s \in Ids
          /\ Whole(st[s], data[s]) = Due(Matches(data[s]), st[s].db)
      BY DEF Got, Events, Whole, IInv, TypeOK
    <2>2. CASE Resting(s)
      <3>1. RestOK(st[s], data[s], reported[s], stopped[s])
        BY <2>1, <2>2 DEF SInv, Rests
      <3> QED  BY <2>1, <3>1 DEF RestOK, InTurn
    <2>3. CASE s = call.s /\ Writing
      <3>1. WriteOK(st[s], data[s], reported[s], stopped[s], call.chunk)
        BY <2>3 DEF SInv, Writes
      <3>2. Busy(s)  BY <2>3 DEF Busy, Writing
      <3> QED  BY <2>1, <3>1, <3>2 DEF WriteOK, InTurn
    <2>4. CASE s = "bstate" /\ (call.op # "vector" \/ pc = "idle")
      BY <2>1, <2>4 DEF SInv, Vectored, InTurn
    <2>5. Resting(s) \/ (s = call.s /\ Writing)
             \/ (s = "bstate" /\ (call.op # "vector" \/ pc = "idle"))
      <3>1. CASE s \in open  BY <3>1 DEF Resting
      <3>2. CASE s = "bstate" /\ call.op = "vector" /\ pc # "idle"
        <4>1. call.s = "bstate" /\ pc \in Labels
          BY <3>2 DEF IInv, CallShape, TypeOK
        <4> QED  BY <3>2, <4>1 DEF Resting, Writing, Labels
      <3> QED  BY <3>1, <3>2
    <2> QED  BY <2>2, <2>3, <2>4, <2>5
  <1> QED  BY <1>1, StreamInvariant, ReportInvariant, PTL

\* report_eod_matches brings the callbacks of a stream to those of one scan of
\* all its data with its end, also for a stream that was exhausted and whose
\* offset stood still.
THEOREM EndReported == ASSUME HAVE_NEON PROVE Spec => []EodExact
  <1>1. IInv /\ SInv => EodExact
    <2> SUFFICES ASSUME IInv, SInv, pc = "eod_done", ~stopped[call.s]
                 PROVE  Got(call.s) = Due(Matches(data[call.s]) \cup MatchesEod(data[call.s]),
                                          st[call.s].db)
      BY DEF EodExact
    <2>1. EodOK(st[call.s], data[call.s], reported[call.s], stopped[call.s])
      BY DEF SInv, Ends
    <2> QED  BY <2>1 DEF EodOK, WholeEod, Got, Events
  <1> QED  BY <1>1, StreamInvariant, ReportInvariant, PTL
=============================================================================
