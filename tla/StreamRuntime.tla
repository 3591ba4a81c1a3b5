---------------------------- MODULE StreamRuntime ----------------------------
(***************************************************************************)
(* Streaming and vectored mode of src/src/runtime.c for databases that     *)
(* run as ROSE_RUNTIME_SINGLE_OUTFIX: one NFA, with the zero-offset        *)
(* boundary programs, over any number of stream handles and one scratch.   *)
(*                                                                         *)
(* A step is one byte consumed by the NFA, with the user callback for a    *)
(* match there, or one stage of an API call.  The callback may ask to stop *)
(* at any report, and from inside it the application may open, copy,       *)
(* reset or close other streams; a nested call that needs the scratch      *)
(* returns HS_SCRATCH_IN_USE and changes nothing.                          *)
(*                                                                         *)
(* The NFA is external: a deterministic automaton whose state 'Dead' can   *)
(* accept nothing more.  The scratch serves streaming and vectored         *)
(* databases only, so the parked Lily matches of BlockScan do not exist.   *)
(* STATUS_ERROR and STATUS_DELAY_DIRTY cannot occur without literals.      *)
(***************************************************************************)
EXTENDS Integers, Sequences

CONSTANTS
    HAVE_NEON,          \* the build: AArch64, or any other
    Streams,            \* handles hs_open_stream can return
    Databases,          \* a mode, and the key of every rule
    NoKey,              \* INVALID_EKEY
    Byte,
    NfaState, Start, Dead, Delta, Accept, AcceptEod,
    HistoryRequired,    \* rose->historyRequired
    MaxData,            \* bound on the bytes written to a stream
    MaxChunk,           \* bound on the length of one write
    MaxBlocks,          \* bound on the blocks of one hs_scan_vector
    MaxVector           \* bound on their bytes

\* "fa" is a match of the NFA, "eod" one at the end of the stream.
AllRules == {"zero", "zeroEod", "fa", "eod"}

ASSUME DatabaseAssumption ==
    /\ Databases # {}
    /\ \A d \in Databases :
          /\ d.mode \in {"STREAM", "VECTORED"}
          /\ "fa" \in DOMAIN d.key /\ DOMAIN d.key \subseteq AllRules
ASSUME NfaAssumption ==
    /\ {Start, Dead} \subseteq NfaState /\ Start # Dead
    /\ Delta \in [NfaState -> [Byte -> NfaState]]
    /\ \A b \in Byte : Delta[Dead][b] = Dead
    /\ Accept \subseteq NfaState \ {Dead} /\ AcceptEod \subseteq NfaState \ {Dead}
ASSUME BoundAssumption ==
    /\ HAVE_NEON \in BOOLEAN
    /\ HistoryRequired \in Nat /\ MaxData \in Nat /\ MaxChunk \in Nat
    /\ MaxBlocks \in Nat /\ MaxVector \in Nat
    /\ "bstate" \notin Streams /\ "none" \notin Streams

\* hs_scan_vector keeps its stream in scratch->bstate.
Ids == Streams \cup {"bstate"}

VARIABLES
    st,         \* struct hs_stream and its state, for every handle
    open,       \* the handles that are allocated
    inUse,      \* scratch->in_use
    status,     \* scratch->core_info.status
    pc,         \* where the running call is
    call,       \* the running call, or the last scan: [op, s, from, chunk]
    pos,        \* bytes of the chunk the NFA has consumed
    nfa,        \* q->state, the NFA state in the scratch
    todo,       \* blocks hs_scan_vector may still scan
    ret,        \* what the last call returned
    data,       \* all bytes written to a stream (history)
    reported,   \* the callbacks for a stream, in order (history)
    stopped     \* the callback asked to stop on this stream (history)

hist == <<data, reported, stopped>>
vars == <<st, open, inUse, status, pc, call, pos, nfa, todo, ret, hist>>

Flags  == {"TERMINATED", "EXHAUSTED"}
Labels == {"idle", "zero", "exec", "vector", "eod", "eod_done"}
Ops    == {"none", "scan", "vector", "close", "reset", "copy"}
Keys   == (UNION {{d.key[r] : r \in DOMAIN d.key} : d \in Databases}) \ {NoKey}
Chunk  == UNION {[1..n -> Byte] : n \in 0..MaxChunk}
Filler == "x5a"         \* what init_stream writes into the history buffer
Event  == [rule : AllRules, to : Nat]

StreamState ==
    [db : Databases, offset : Nat, status : SUBSET Flags, evec : SUBSET Keys,
     nfa : NfaState, history : [1..HistoryRequired -> Byte \cup {Filler}]]
Call(op, s, from, c) == [op |-> op, s |-> s, from |-> from, chunk |-> c]
NoCall == Call("none", "none", "none", <<>>)

TypeOK ==
    /\ st \in [Ids -> StreamState]
    /\ open \subseteq Streams
    /\ inUse \in BOOLEAN
    /\ status \subseteq Flags
    /\ pc \in Labels
    /\ call \in [op : Ops, s : Ids \cup {"none"}, from : Streams \cup {"none"},
                 chunk : Seq(Byte)]
    /\ pos \in Nat
    /\ nfa \in NfaState
    /\ todo \in Nat
    /\ ret \in {"SUCCESS", "SCAN_TERMINATED"}
    /\ data \in [Ids -> Seq(Byte)]
    /\ reported \in [Ids -> Seq(Event)]
    /\ stopped \in [Ids -> BOOLEAN]

\* init_stream; init_outfixes gives the NFA its compressed initial state.
init_stream(d, history) ==
    [db |-> d, offset |-> 0, status |-> {}, evec |-> {}, nfa |-> Start,
     history |-> history]
Fresh == [i \in 1..HistoryRequired |-> Filler]
\* The memory of a handle that is not allocated: nothing reads it.
Freed == init_stream(CHOOSE d \in Databases : TRUE, Fresh)

Init ==
    /\ st = [s \in Ids |-> Freed]
    /\ open = {}
    /\ inUse = FALSE /\ status = {} /\ pc = "idle" /\ call = NoCall
    /\ pos = 0 /\ nfa = Start /\ todo = 0 /\ ret = "SUCCESS"
    /\ data = [s \in Ids |-> <<>>]
    /\ reported = [s \in Ids |-> <<>>]
    /\ stopped = [s \in Ids |-> FALSE]

----------------------------------------------------------------------------
(* Reports *)

Broken(flags)     == flags # {}
HasRule(s, r)     == r \in DOMAIN st[s].db.key
KeyOf(s, r)       == st[s].db.key[r]
isExhausted(s, r) == KeyOf(s, r) # NoKey /\ KeyOf(s, r) \in st[s].evec
\* canExhaust, and every key is on.
AllOn(d, ev)      == \A r \in DOMAIN d.key : d.key[r] # NoKey /\ d.key[r] \in ev
isAllExhausted(s) == AllOn(st[s].db, st[s].evec)

\* markAsMatched after a callback that did not ask to stop.
Marked(s, r, h) ==
    IF h \/ KeyOf(s, r) = NoKey THEN st[s].evec ELSE st[s].evec \cup {KeyOf(s, r)}

\* Fault: the callback's return value is not noted.
Raised_Unheard(s, r, h) ==
    IF KeyOf(s, r) # NoKey /\ AllOn(st[s].db, Marked(s, r, h)) THEN {"EXHAUSTED"} ELSE {}

\* The flags a report raises: roseDeliverReport, then roseHaltIfExhausted.
\* Any flag halts the engine that reported.
Raised(s, r, h) ==
    IF h THEN {"TERMINATED"}
    ELSE IF KeyOf(s, r) # NoKey /\ AllOn(st[s].db, Marked(s, r, h))
         THEN {"EXHAUSTED"} ELSE {}

\* The user callback for rule r at offset to.
Callback(s, r, to, h) ==
    /\ reported' = [reported EXCEPT ![s] = Append(@, [rule |-> r, to |-> to])]
    /\ stopped' = [stopped EXCEPT ![s] = @ \/ h]

----------------------------------------------------------------------------
(* hs_scan_stream_internal *)

\* Fault: the return path does not call unmarkScratchInUse.
Leave_KeepsMark(op, s, rv) ==
    /\ pc' = IF op = "vector" /\ rv = "SUCCESS" THEN "vector" ELSE "idle"
    /\ inUse' = TRUE
    /\ ret' = rv
    /\ pos' = 0 /\ nfa' = Start
    /\ call' = Call(op, s, "none", <<>>)

\* The end of one write: hs_scan_vector goes on to its next block.  What the
\* engine leaves in its queue is not read again.
Leave(op, s, rv) ==
    /\ pc' = IF op = "vector" /\ rv = "SUCCESS" THEN "vector" ELSE "idle"
    /\ inUse' = (op = "vector" /\ rv = "SUCCESS")
    /\ ret' = rv
    /\ pos' = 0 /\ nfa' = Start
    /\ call' = Call(op, s, "none", <<>>)

\* A broken stream and an empty write return before anything is done.
ScanInternal(op, s, c) ==
    /\ data' = IF "TERMINATED" \in st[s].status THEN data
               ELSE [data EXCEPT ![s] = @ \o c]
    /\ \/ /\ Broken(st[s].status)
          /\ Leave(op, s, IF "TERMINATED" \in st[s].status
                          THEN "SCAN_TERMINATED" ELSE "SUCCESS")
          /\ status' = status
       \/ /\ ~Broken(st[s].status) /\ c = <<>>
          /\ Leave(op, s, "SUCCESS")
          /\ status' = status
       \/ /\ ~Broken(st[s].status) /\ c # <<>>
          /\ pc' = "zero" /\ inUse' = TRUE
          /\ call' = Call(op, s, "none", c)
          /\ status' = st[s].status
          /\ UNCHANGED <<pos, nfa, ret>>
    /\ UNCHANGED <<st, open, reported, stopped>>

hs_scan_stream(s, c) ==
    /\ pc = "idle" /\ ~inUse /\ s \in open
    /\ Len(data[s]) + Len(c) <= MaxData
    /\ ScanInternal("scan", s, c)
    /\ todo' = todo

\* soleOutfixStreamExec starts: a new queue, or the stored state expanded.
BeginExec(s) ==
    /\ pc' = "exec" /\ pos' = 0
    /\ nfa' = IF st[s].offset = 0 THEN Start ELSE st[s].nfa

ZeroDue(s) == st[s].offset = 0 /\ HasRule(s, "zero") /\ ~isExhausted(s, "zero")

\* The zero-offset boundary program; when it halts, the status is stored and
\* the call returns.
ZeroReport(h) ==
    LET s == call.s
        now == status \cup Raised(s, "zero", h)
    IN
    /\ pc = "zero" /\ ZeroDue(s)
    /\ Callback(s, "zero", 0, h)
    /\ status' = now
    /\ \/ /\ Broken(now)
          /\ st' = [st EXCEPT ![s].evec = Marked(s, "zero", h), ![s].status = now]
          /\ Leave(call.op, s, IF h THEN "SCAN_TERMINATED" ELSE "SUCCESS")
       \/ /\ ~Broken(now)
          /\ st' = [st EXCEPT ![s].evec = Marked(s, "zero", h)]
          /\ BeginExec(s)
          /\ UNCHANGED <<inUse, ret, call>>
    /\ UNCHANGED <<open, todo, data>>

ZeroNone ==
    /\ pc = "zero" /\ ~ZeroDue(call.s)
    /\ BeginExec(call.s)
    /\ UNCHANGED <<st, open, inUse, status, call, todo, ret, hist>>

\* The NFA consumes a byte.  A report that halts leaves it dead.
NextState == Delta[nfa][call.chunk[pos + 1]]
Running   == pos < Len(call.chunk) /\ nfa # Dead

ExecByte ==
    /\ pc = "exec" /\ Running
    /\ NextState \in Accept => isExhausted(call.s, "fa")
    /\ pos' = pos + 1 /\ nfa' = NextState
    /\ UNCHANGED <<st, open, inUse, status, pc, call, todo, ret, hist>>

ExecReport(h) ==
    LET s == call.s IN
    /\ pc = "exec" /\ Running
    /\ NextState \in Accept /\ ~isExhausted(s, "fa")
    /\ Callback(s, "fa", st[s].offset + pos + 1, h)
    /\ status' = status \cup Raised(s, "fa", h)
    /\ st' = [st EXCEPT ![s].evec = Marked(s, "fa", h)]
    /\ pos' = pos + 1
    /\ nfa' = IF Broken(status') THEN Dead ELSE NextState
    /\ UNCHANGED <<open, inUse, pc, call, todo, ret, data>>

\* Fault: the history is not moved up when the write is short.
maintainHistoryBuffer_NoMove(his, c) ==
    [i \in 1..HistoryRequired |->
        IF i + Len(c) <= HistoryRequired THEN his[i] ELSE c[i + Len(c) - HistoryRequired]]

\* The last HistoryRequired bytes of the old history followed by the chunk.
maintainHistoryBuffer(his, c) ==
    [i \in 1..HistoryRequired |->
        IF i + Len(c) <= HistoryRequired THEN his[i + Len(c)]
        ELSE c[i + Len(c) - HistoryRequired]]

\* soleOutfixStreamExec's own verdict.
ExecFlags == IF nfa # Dead \/ "TERMINATED" \in status THEN status
             ELSE status \cup {"EXHAUSTED"}

\* Fault: only the keys decide whether a stream is exhausted.
AfterExec_KeysOnly(s, flags) ==
    IF "TERMINATED" \notin flags /\ isAllExhausted(s)
    THEN flags \cup {"EXHAUSTED"} ELSE flags \ {"EXHAUSTED"}

\* What hs_scan_stream_internal makes of it.  The build without NEON
\* recomputes STATUS_EXHAUSTED from the exhaustion keys.
AfterExec(s, flags) ==
    IF HAVE_NEON THEN flags
    ELSE IF "TERMINATED" \notin flags /\ isAllExhausted(s)
         THEN flags \cup {"EXHAUSTED"} ELSE flags \ {"EXHAUSTED"}

\* Fault: STATUS_TERMINATED is not stored in the stream.
Stored_Exhausted(flags) == flags \ {"TERMINATED"}

\* setStreamStatus.
Stored(flags) == flags

\* The engine returns: the state of a live NFA is compressed, the status is
\* stored, and a stream that can go on moves its history and its offset.
ExecDone ==
    LET s == call.s
        flags == AfterExec(s, ExecFlags)
        old == st[s]
    IN
    /\ pc = "exec" /\ ~Running
    /\ status' = flags
    /\ st' = [st EXCEPT ![s] = [old EXCEPT
                !.nfa = IF nfa # Dead THEN nfa ELSE @,
                !.status = Stored(flags),
                !.history = IF Broken(flags) THEN @ ELSE maintainHistoryBuffer(@, call.chunk),
                !.offset = IF Broken(flags) THEN @ ELSE @ + Len(call.chunk)]]
    /\ Leave(call.op, s, IF "TERMINATED" \in flags THEN "SCAN_TERMINATED" ELSE "SUCCESS")
    /\ UNCHANGED <<open, todo, hist>>

----------------------------------------------------------------------------
(* Vectored mode *)

hs_scan_vector(d) ==
    /\ pc = "idle" /\ ~inUse /\ d.mode = "VECTORED"
    /\ st' = [st EXCEPT !["bstate"] = init_stream(d, Fresh)]
    /\ pc' = "vector" /\ inUse' = TRUE
    /\ call' = Call("vector", "bstate", "none", <<>>)
    /\ todo' = MaxBlocks
    /\ data' = [data EXCEPT !["bstate"] = <<>>]
    /\ reported' = [reported EXCEPT !["bstate"] = <<>>]
    /\ stopped' = [stopped EXCEPT !["bstate"] = FALSE]
    /\ UNCHANGED <<open, status, pos, nfa, ret>>

VectorBlock(c) ==
    /\ pc = "vector" /\ todo > 0
    /\ Len(data["bstate"]) + Len(c) <= MaxVector
    /\ ScanInternal("vector", "bstate", c)
    /\ todo' = todo - 1

VectorClose ==
    /\ pc = "vector"
    /\ pc' = "eod"
    /\ UNCHANGED <<st, open, inUse, status, call, pos, nfa, todo, ret, hist>>

----------------------------------------------------------------------------
(* report_eod_matches, and the calls that run it before they free, reset or *)
(* overwrite a stream.                                                      *)

Busy(s) == pc # "idle" /\ s \in {call.s, call.from}
\* reset_and_copy: both streams of the same database, and not the same.
CanCopy(s, from) == from \in open /\ from # s /\ st[from].db = st[s].db

EodBegin(op, s, from) ==
    /\ pc = "idle" /\ ~inUse /\ s \in open
    /\ IF op = "copy" THEN CanCopy(s, from) ELSE from = "none"
    /\ call' = Call(op, s, from, <<>>)
    /\ pc' = "eod" /\ inUse' = TRUE
    /\ UNCHANGED <<st, open, status, pos, nfa, todo, ret, hist>>

EodRule(s) == IF st[s].offset = 0 THEN "zeroEod" ELSE "eod"
\* soleOutfixEodExec checks the expanded state; at offset 0 only the boundary
\* program runs.
EodDue(s) ==
    /\ HasRule(s, EodRule(s)) /\ ~isExhausted(s, EodRule(s))
    /\ st[s].offset # 0 => ~isAllExhausted(s) /\ st[s].nfa \in AcceptEod

\* Fault: report_eod_matches does not look at the stored status.
EodSkipped_Never(s) == FALSE

EodSkipped(s) == Broken(st[s].status)

EodReport(h) ==
    LET s == call.s IN
    /\ pc = "eod" /\ ~EodSkipped(s) /\ EodDue(s)
    /\ Callback(s, EodRule(s), st[s].offset, h)
    /\ status' = st[s].status \cup Raised(s, EodRule(s), h)
    /\ st' = [st EXCEPT ![s].evec = Marked(s, EodRule(s), h)]
    /\ pc' = "eod_done"
    /\ UNCHANGED <<open, inUse, call, pos, nfa, todo, ret, data>>

EodNone ==
    LET s == call.s IN
    /\ pc = "eod"
    /\ \/ EodSkipped(s) /\ status' = status
       \/ ~EodSkipped(s) /\ ~EodDue(s) /\ status' = st[s].status
    /\ pc' = "eod_done"
    /\ UNCHANGED <<st, open, inUse, call, pos, nfa, todo, ret, hist>>

\* hs_close_stream frees, hs_reset_stream runs init_stream without touching
\* the history buffer, hs_reset_and_copy_stream overwrites.
Finish(op, s, from) ==
    /\ open' = IF op = "close" THEN open \ {s} ELSE open
    /\ \/ /\ op \in {"close", "reset"}
          /\ st' = [st EXCEPT ![s] = IF op = "close" THEN Freed
                                     ELSE init_stream(@.db, @.history)]
          /\ data' = [data EXCEPT ![s] = <<>>]
          /\ reported' = [reported EXCEPT ![s] = <<>>]
          /\ stopped' = [stopped EXCEPT ![s] = FALSE]
       \/ /\ op = "copy"
          /\ st' = [st EXCEPT ![s] = st[from]]
          /\ data' = [data EXCEPT ![s] = data[from]]
          /\ reported' = [reported EXCEPT ![s] = reported[from]]
          /\ stopped' = [stopped EXCEPT ![s] = stopped[from]]

EodFinish ==
    /\ pc = "eod_done"
    /\ \/ /\ call.op = "vector"
          /\ ret' = IF "TERMINATED" \in status THEN "SCAN_TERMINATED" ELSE "SUCCESS"
          /\ UNCHANGED <<st, open, call, hist>>
       \/ /\ call.op # "vector"
          /\ ret' = "SUCCESS" /\ call' = NoCall
          /\ Finish(call.op, call.s, call.from)
    /\ pc' = "idle" /\ inUse' = FALSE
    /\ UNCHANGED <<status, pos, nfa, todo>>

----------------------------------------------------------------------------
(* Calls that need no scratch; the application may also make them from the  *)
(* callback, for streams the running call does not work on.                 *)

Forget == call' = IF pc = "idle" THEN NoCall ELSE call
Aside  == UNCHANGED <<inUse, status, pc, pos, nfa, todo, ret>>

hs_open_stream(s, d) ==
    /\ s \notin open /\ d.mode = "STREAM"
    /\ open' = open \cup {s}
    /\ st' = [st EXCEPT ![s] = init_stream(d, Fresh)]
    /\ Forget /\ Aside
    /\ UNCHANGED hist

hs_copy_stream(s, from) ==
    /\ s \notin open /\ from \in open /\ ~Busy(from)
    /\ open' = open \cup {s}
    /\ st' = [st EXCEPT ![s] = st[from]]
    /\ data' = [data EXCEPT ![s] = data[from]]
    /\ reported' = [reported EXCEPT ![s] = reported[from]]
    /\ stopped' = [stopped EXCEPT ![s] = stopped[from]]
    /\ Forget /\ Aside

\* close, reset and reset_and_copy without a callback.
WithoutEvents(op, s, from) ==
    /\ s \in open /\ ~Busy(s)
    /\ IF op = "copy" THEN CanCopy(s, from) /\ ~Busy(from) ELSE from = "none"
    /\ Finish(op, s, from)
    /\ Forget /\ Aside

CallStep ==
    \/ \E h \in BOOLEAN : ZeroReport(h) \/ ExecReport(h) \/ EodReport(h)
    \/ ZeroNone \/ ExecByte \/ ExecDone
    \/ VectorClose \/ EodNone \/ EodFinish

EodOps == {"close", "reset", "copy"}

Next ==
    \/ \E s \in Streams, d \in Databases : hs_open_stream(s, d)
    \/ \E s, from \in Streams : hs_copy_stream(s, from)
    \/ \E s \in Streams, c \in Chunk : hs_scan_stream(s, c)
    \/ \E d \in Databases : hs_scan_vector(d)
    \/ \E c \in Chunk : VectorBlock(c)
    \/ \E op \in EodOps, s \in Streams, from \in Streams \cup {"none"} :
          EodBegin(op, s, from) \/ WithoutEvents(op, s, from)
    \/ CallStep

\* A call that was made runs on by itself.
Spec == Init /\ [][Next]_vars /\ WF_vars(CallStep)

----------------------------------------------------------------------------
(* Properties *)

\* The reference: one run of the NFA over all the data, written at once.
Run(d) == LET f[i \in 0..Len(d)] == IF i = 0 THEN Start ELSE Delta[f[i - 1]][d[i]] IN f

\* What a rule set matches in data d, the end of the stream aside.
Matches(d) ==
    {[rule |-> "zero", to |-> 0] : x \in {1} \cap 1..Len(d)}
    \cup {[rule |-> "fa", to |-> i] : i \in {k \in 1..Len(d) : Run(d)[k] \in Accept}}
MatchesEod(d) ==
    IF d = <<>> THEN {[rule |-> "zeroEod", to |-> 0]}
    ELSE {[rule |-> "eod", to |-> Len(d)] : x \in {1 : y \in {Run(d)[Len(d)]} \cap AcceptEod}}

\* At the last byte an ordinary match comes before the one of the end.
Before(f, e) == f.to < e.to \/ (f.to = e.to /\ f.rule # "eod" /\ e.rule = "eod")

\* What of the events m the callback must see for database db: those of its
\* rules, and of those that share a key only the first.
Due(m, db) ==
    LET mine == {e \in m : e.rule \in DOMAIN db.key} IN
    {e \in mine : db.key[e.rule] = NoKey \/
        \A f \in mine : db.key[f.rule] = db.key[e.rule] => ~Before(f, e)}

Got(s) == {reported[s][i] : i \in DOMAIN reported[s]}

\* The callbacks for a stream are those for one scan of all data written to
\* it, in ascending order and without repetition, however the data was cut
\* into writes, whichever other streams were opened, copied, reset or closed
\* in between, and although an exhausted stream is not scanned any more
\* (doc/dev-reference/runtime.rst:60-63).
StreamedAsWhole ==
    \A s \in open \cup {"bstate"} : pc \notin {"eod", "eod_done"} =>
        LET due == Due(Matches(data[s]), st[s].db) IN
        /\ Got(s) \subseteq due \cup Due(MatchesEod(data[s]), st[s].db)
        /\ ~Busy(s) /\ ~stopped[s] /\ s # "bstate" => Got(s) = due
        /\ \A i, j \in DOMAIN reported[s] :
              i < j => Before(reported[s][i], reported[s][j])

\* Closing, resetting or overwriting a stream with a callback, and the end of
\* hs_scan_vector, add exactly the end-of-data matches of the whole data, even
\* for a stream whose offset stood still since it was exhausted.
EodExact ==
    pc = "eod_done" /\ ~stopped[call.s] =>
        LET d == data[call.s] IN
        Got(call.s) = Due(Matches(d) \cup MatchesEod(d), st[call.s].db)

\* doc/dev-reference/runtime.rst:52: once the callback asked to stop, it is
\* not called again for that stream by later writes, by the end-of-data
\* checks, or by a copy of the stream, until the stream is reset, closed or
\* overwritten.
StoppedForGood ==
    [][\A s \in Ids : stopped[s] /\ stopped'[s] =>
            reported'[s] = reported[s] \/ \E f \in Ids : reported'[s] = reported[f]]_vars

\* hs_scan_stream and hs_scan_vector return HS_SCAN_TERMINATED exactly when
\* the callback has asked to stop on that stream, in this write or an earlier
\* one.
ScanVerdict ==
    pc = "idle" /\ call.op \in {"scan", "vector"} =>
        (ret = "SCAN_TERMINATED" <=> stopped[call.s])

\* The history buffer of a stream that can go on ends with the last bytes
\* before its offset, also when writes are shorter than the history: the
\* literal matchers read it in the next write.
HistoryIsTail ==
    \A s \in open : ~Broken(st[s].status) /\ ~Busy(s) =>
        /\ st[s].offset = Len(data[s])
        /\ \A i \in 1..HistoryRequired :
              i <= st[s].offset =>
                st[s].history[HistoryRequired + 1 - i] = data[s][st[s].offset + 1 - i]

\* Every call returns and gives the scratch back.
CallReturns == inUse ~> ~inUse
=============================================================================
