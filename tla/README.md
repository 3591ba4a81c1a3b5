# A TLA+ model of the Ultrascan runtime

Ultrascan is a multi-pattern regular expression matcher derived from Hyperscan.
Its compiler turns patterns into a bytecode database; its runtime scans data
against a database with a caller-supplied *scratch* region and calls a user
callback for every match. This directory models the runtime: the protocol
between the API calls, the engines, the callback and the state that survives a
call. Paths below are relative to the repository root (`src/runtime.c` is
`src/src/runtime.c` in `PROJECT.json`).

To run it: `tlc -config X.cfg M` for each pair in `PROJECT.json` "runs";
`tlapm P.tla` for each module whose name ends in `Proof`.

## 1. Inventory

| Part | State it keeps | Operations | Talks to |
|---|---|---|---|
| Block mode (`src/runtime.c` `hs_scan_internal`) | `scratch->in_use`, `core_info.status`, exhaustion vector | one scan: boundary programs, Lily engines, main or small-write engine, last flush, end-of-data and combination programs | Lily engines, Rose, callback |
| Report path (`src/report.h`, `src/rose/match.h`) | exhaustion keys, status flags, dedupe logs | `roseDeliverReport`, `markAsMatched`, `roseHaltIfExhausted`, `dedupeCatchup` | every engine, Lily queues, collector, callback |
| Lily engines (`src/kunpeng-enhanced/runtime_lily.c`) | two match queues in the scratch (`LilyEngineCtx`) | park a match, flush up to an offset, flush on overflow | report path, callback |
| Streaming and vectored mode (`src/runtime.c`) | per stream: offset, status, exhaustion vector, compressed NFA state, history | open, scan, copy, reset, reset-and-copy, close; `hs_scan_vector` | Rose or a single NFA, callback |
| Stream compression (`src/stream_compress*`) | none; the application's buffer | compress, expand, reset-and-expand | streams |
| Rose: literals (`src/rose/match.c`, `stream.c`, `block.c`) | delay ring, anchored log, last-byte roles | literal callbacks, flush of ring and log, rebuild from history | literal matchers, programs |
| Rose: catch-up (`src/rose/catchup.c`) | engine queues, active array, `catchup_pq`, `next_mpv_offset` | trigger engines, catch up to an offset | engines, report path |
| Bounded repeats (`src/nfa/repeat.c`, `lbr*`) | a control block; ring, list or word of past tops | store a top, next match, has match, pack, unpack; queue execution | Rose |
| SOM and dedupe (`src/som/`, `src/report.h`) | SOM slots, logs of two offsets | set, copy, unlock; dedupe, hold back, flush | report path, streams |
| FP feedback collector (`src/fp_collector.c`) | per fragment counters, a queue of trigger keys; the current trigger in the scratch | create, reset, merge, free, to_feedback; begin and end of a trigger, record a report | Rose callback, report path, `*_with_collector` calls |
| Scratch (`src/scratch.c`) | the region, its sizes and its mark | alloc (grow), clone, free | all scans |
| Chimera (`chimera/`) | own scratch: active set, next match of each pattern, a priority queue | `ch_scan` | `hs_scan`, PCRE, two callbacks |
| Literal matchers, automata | none between calls, or NFA stream state | search, queue execution | Rose |
| Compiler (`src/parser`, `src/nfagraph`, `src/rose/rose_build*`) | none at run time | compile | produces databases |
| Databases, dispatch, allocators, tools | none | serialise, check, select code for the CPU | |

What is hard here. The library starts no threads; concurrency comes from the
callback, which runs in the middle of a scan, may stop it at any report and may
call the API again. State outlives calls: the scratch keeps queues, logs and
flags from one scan to the next, whatever database that one used; a stream
keeps an offset, a status and engine states that must agree. Matches are not
found where they are delivered: Lily engines run first and park theirs, the
anchored table and the literal matcher run ahead of the engines they trigger,
delayed literals wait in a ring, matches with a start are held back, Chimera
asks two engines for the same matches, and the collector counts triggers in
batches. All these queues have fixed sizes. `hazards` in `PROJECT.json` lists
these places line by line.

What correctness means, per part:

- Lily queues: every parked match is delivered once, in offset order, unless
  the callback stops.
- Block mode: order over all engines, one report per single-match key, nothing
  lost, the return value tells whether the callback stopped the scan, the
  scratch is released, a scan reports its own matches only.
- Streams: cutting the data into writes changes nothing; a stopped stream stays
  stopped; the end-of-data matches are those of the whole data; a stream that
  was compressed and expanded reads like a copy.
- Rose: programs run and matches are reported in offset order, exactly those
  the literals and engines call for, wherever the data is cut.
- SOM and dedupe: a match is given once, with the earliest start that is known,
  and none after a stop; the order of events at one offset plays no part.
- Repeats: every representation answers as the regular expression does.
- Collector: batching changes no count; feedback names only fragments whose
  counts pass the thresholds, the worst first.
- Scratch: large enough for every database it was allocated for; no block lost
  or freed twice; nothing moved under a scan.
- Chimera: PCRE's successive matches of each pattern, in the order of ends.

## 2. Modules

| Module | Models |
|---|---|
| `LilyQueue` | what the two Lily queues promise: a flush delivers the least due item first |
| `LilyFlush` | the code of `flushStoredLilyMatches`, block by block; implements `LilyQueue` |
| `BlockScan` | `hs_scan` with the report path; its Lily queues are `LilyQueue` |
| `StreamRuntime` | streaming and vectored mode for databases that run as one NFA |
| `StreamCompress` | compressed streams |
| `DelayedLiterals` | `roseStreamExec`: anchored log, delay ring, last-byte roles |
| `CatchUp` | Rose catch-up in a block: outfixes, suffixes, the MPV, the priority queue |
| `RepeatModels` | the six bounded-repeat representations, as operators |
| `Lbr` | the large-bounded-repeat engines, which run on `RepeatModels` |
| `MatchDedupe` | the match deduper and matches held back for their start |
| `SomSlots` | start-of-match slots and their form in the stream |
| `FpCollector` | the collector and the hooks that feed it |
| `ScratchAlloc` | scratch regions |
| `Chimera` | `ch_scan` |
| `*Proof` | theorems about the module they are named after; `SomProof` is about `SomSlots` and `MatchDedupe`, `ObjectsProof` about `ScratchAlloc`, `StreamCompress` and `Chimera` |
| `MC*` | constants and compositions for TLC |

Operators named `X_Something` with a comment `Fault:` are deliberate defects.
They are not used by any specification; substituting one for `X` must violate
the property listed with it in `PROJECT.json`.

Three modules compose with others: `LilyFlush` and `BlockScan` both stand on
`LilyQueue`, and `Lbr` on `RepeatModels`. `MCSom` (`SomSlots`, `MatchDedupe`),
`MCCatchUp` (`CatchUp`, `Lbr`) and `MCObjects` (`ScratchAlloc`,
`StreamCompress`, `Chimera`) put specifications side by side that share no
state; a behaviour exercises one of them while the others stay in an initial
state, so that a run checks the sum of the state spaces and not their product.

**LilyQueue, LilyFlush.** An item is its `toOffset`. `items[e]`, `start[e]` are
the filled part and the cursor of `lily_ctx` ("lily") and `lily_for_teddy_ctx`
("teddy"). `LilyFlush` adds the program counter of `flushStoredLilyMatches`,
the local cursors `ptr` and the block ends `end`. One step is one callback or
one decision of the loop: `PickBlock` chooses between `report_range`
(`RangeReport`) and `process_cross_block` (`CrossReport`); `RestReport` is
`report_range_with_offset_check`. `PerLine` is the number of items in a cache
line. The refinement mapping takes the local cursors while
`process_cross_block` runs and `ctx->start` otherwise: between two callbacks of
that loop the contexts are behind, and are written back by `CrossDone` or by
the report that leaves the loop.

**BlockScan.** `pc` follows `hs_scan_internal`; one action per stage. What an
engine finds (`hits`) is chosen when the scan begins, as ascending offsets of
one rule per engine: "lily", "teddy", "rose" (the main or small-write engine),
the boundary rules "zero", "zeroEod", "eod" and the combination "comb". `Raise`
is `roseDeliverReport` up to the Lily flush, `Callback` the rest of it with
`roseHaltIfExhausted`; `LilyCallback` is `lilyItemReport`; `EngineHit` is
`RoseDeliverReport` of `runtime_lily.c`, overflow flush included. `NoTable` is
the read through a missing report table. Lily engines exist only in block-mode
databases (`shortcut_literal.cpp` tests `!cc.streaming`) and only in the NEON
build, after `hs_set_grey_overrides` allowed them. A rule a combination refers
to never goes to Lily. Not in it: SOM reports, `STATUS_ERROR` (raised only for
an unknown opcode), and argument errors, which change nothing.

**StreamRuntime.** `st[s]` is `struct hs_stream` with the state behind it;
`"bstate"` is the stream `hs_scan_vector` keeps in the scratch. A write is
`ScanInternal`, `ZeroReport`/`ZeroNone`, one `ExecByte` or `ExecReport` per
byte, and `ExecDone`, which stores status, history, offset and NFA state as the
end of `hs_scan_stream_internal` does. `HAVE_NEON` selects between the two
versions of the code that recomputes `STATUS_EXHAUSTED`. The NFA is any
deterministic automaton (`Delta`, `Accept`, `AcceptEod`) with a dead state.
Calls without a callback need no scratch and are also possible from inside a
callback on streams the running call does not work on. A NULL callback with a
scratch is the callback that never stops, minus the end-of-data check.

**StreamCompress.** A stream is a function from locations (offset, status,
history bytes, anchored state, per-engine state, lag, SOM slots) to values; the
compressed form is a sequence of values without names, and expanding decides
from the values read so far which location the next one belongs to. `ideal` is
the same stream kept by copying. What a scan writes is left open, except that
it sets offset and history as the code does.

**DelayedLiterals.** One write is `roseStreamExec`: the anchored table fills
the log, the ring is rebuilt from history, the floating table is scanned hit by
hit, each hit flushes log and ring up to its offset (`flushQueuedLiterals_i`,
`playVictims`), and `cleanUpDelayed` ends the write. `found` holds the literals
in the data, as a reference.

**CatchUp.** `rose` bundles the engines with the fields of `RoseContext` that
one call threads through (`minMatchOffset`, `next_mpv_offset`). An engine is
what `nfa_api.h` promises: it accepts at given distances after its triggers and
can be run to its next match or to an offset. `LiteralMatch` is a literal that
reports, chains to the MPV or triggers a suffix, after `roseCatchUpTo` or
`roseCatchUpMpvFeeders`; `DropSuffix`, `AddToQueue` and `BlastLast` are the
loop of `buildSufPQ`, `Serve` one turn of `roseCatchUpNfas`. `blast_queue`, which
lets one engine report on its own until another has a match, is one step per
match (`BlastReport`) and one for its end (`BlastEnd`). `RunMpv` takes in every
trigger queued and computes the next match from all of them; the code keeps the
items beyond the offset it runs to (`src/rose/catchup.c:417-424`), and
`nfaExecMpv_QueueExecRaw` (`src/nfa/mpv.c:1068-1083`) then gives it an earlier
offset to look at again, so that it runs the MPV more often, for the same
matches. The scan is not stopped by the user, and streams are not in it.

**RepeatModels, Lbr.** A set of small numbers stands for a ring of bits or a
word, so that wrapping, thinning, shifting and cutting at the horizon are those
of the code. `Lbr` follows `_Q_i` and `_TopScan` item by item. `tops`,
`escapes` and `fired` give the reference: an offset matches if it is min to max
bytes after a top without an escape between.

**MatchDedupe, SomSlots.** `MatchDedupe` has the even and odd logs of keys, the
logs of matches with a start, `som_log_dirty` and the stored starts. A call is
`Begin`, reports in any order the contract of `minMatchOffset` allows,
`Boundary`, and `End` with its `Return`. A report is `Raise` (the first half of
`dedupeCatchup`, up to the flush), the flush it causes, and `TakePlain` or
`TakeSom` (the second half). A flush makes one step for each callback
(`FireMatch`, a turn of the loop of `clearSomLog`), so that the user can stop it
at any match of either log, and one at the end of a log (`ClearLog`); `stage`
says which log it is in and `sent` which keys it has given. `SomSlots` has the
slots and the set-now and attempted-set marks of `handleSomInternal` and
`setSomFromSomAware`; `pre`, `writes` and `escapes` remember the offset's events
without their order, and `IdealSlot` says what they amount to. In both a start
is an offset at or before the end of the match, or `HS_OFFSET_PAST_HORIZON`
(`PastHorizon`, `Past`), as a stored slot, a gough automaton or `_SET_FROM` can
hand it on. Both keep the least number of several, as the code does.

**FpCollector.** `cnt` and `pending` are a collector's counters and its queue;
`sc` the `fp_*` fields of a scratch; `stack` the scans that are running, nested
through callbacks. `nTrig` and `nTrue` count, independently of the code, the
triggers and the triggers that reported. A trigger key without an entry in the
fragment table is in `Key` but not in `Frag`. All fragments have
a table, an engine and a length; the entries `to_feedback` passes over because
one of these is unknown (`src/fp_collector.c:348-351`) have no counterpart.

**ScratchAlloc.** `mem` is the heap as far as scratch regions go, `var` the
handles of the application, `scans` the nested scans. `hs_alloc_scratch` is one
action with the outcomes its two allocations can have. The sizes are a function
on `Dim`; the four that the code compares in a special way have names.

**Chimera.** `scanStart`, `match` and `pq` are the fields of `ch_scratch`. A
step is one call of `multiCallback`, one turn of the loop of `catchupPcre`, or
one stage of `ch_scan_i`. PCRE is given by where a match that begins at an
offset ends; `hs_scan` reports fixed-width matches exactly, and prefilters
wherever it likes, but at least where the pattern ends for the first time.

## 3. Runs

| Run | Bounds | Checks |
|---|---|---|
| `lily_flush` | queues of 3, 2 items a line, offsets 1..3 | `ReportsAscend`, `ImplementsQueue`, `FlushReturns` |
| `block_scan` | 2 scans, 3 databases, blocks up to 3 bytes, queues of 2, two rules sharing a key | `OrderedReports`, `SingleMatch`, `NothingLost`, `TerminatedIffStopped`, `OwnUntilStopped`, `ScratchComesBack` |
| `stream` | 2 streams, 2 bytes each, with and without a key; vectored scans of up to 4 blocks and 4 bytes, 3 databases | `StreamedAsWhole`, `EodExact`, `ScanVerdict`, `HistoryIsTail`, `StoppedForGood`, `CallReturns` |
| `fp_collector` | 2 scratches, 2 collectors, 2 fragments and a key without one, batch of 2, counters saturating at 2, 3 triggers | `CountsExact`, `CommittedAtReturn`, `FeedbackJustified`, `FeedbackKeepsWorst` |
| `delayed_literals` | a ring of 4, delays 1 and 3, 7 bytes in any number of writes, 4 hits, 3 bytes of history | `ReplayInOrder`, `ReplayExact`, `LastByteExact` |
| `som` | deduper: 2 calls with 3 reports together, 2 keys with a start and one without, starts known or past a horizon of 2, offsets to 3 modulo 8; slots: every mode and a locked slot with a parent, 4 operations, 3 bytes, sentinel at 2 | `NoDuplicate`, `ExactDelivery`, `RawOrder`, `SilentAfterStop`; `LocksExact`, `StartExact` |
| `objects` | scratches: 2 handles, 3 blocks, 3 databases none of which is least in everything, scans nested twice; compression: 2 streams, 3 writes, 3 bytes; Chimera: 3 patterns in 5 mixes, 3 bytes, scan after scan, 1 resource limit a scan | `FitsAll`, `MemoryExact`, `ScanKeepsRegion`; `ExpandedAsCopied`; `PcreExact`, `QueueFits` |
| `catch_up` | Rose: an outfix, 2 suffixes (one with a key) and the MPV, queues of 4, 3 literals, 5 bytes; a repeat engine: six representations at bounds up to 4, a word of 3 bits, 4 bytes, 1 escape, queues of 3, 3 writes, lag 1 | `InOrder`, `ReportedExact`, `MpvFedInOrder`; `LbrExact`, `AnswerExact`, `RangeFits` |

Each module also has a `TypeOK`. It is not among the checked properties: it
holds on these instances, and is proved, alone or inside the invariant, where
there is a proof module.

Why the bounds are enough to be interesting. Queues of three with lines of two
give two full-line/partial-line blocks on either side, every relation of two
blocks, and reuse after a full flush. A block of three bytes lets an engine
find three matches with queues of two, so the overflow flush happens; two scans
are what a left-over needs. Two bytes in two-byte writes cover one write, two
writes, an empty write and a history longer than a write; the automaton
`^a(b+a)*` can match, go on, and die. Three triggers fill a batch of two and
saturate a counter of two. Seven bytes with a ring of four let the ring go
round, and three bytes of history are the least with which the longer delay can
be rebuilt. Offsets to three modulo eight give every pair of parities and a
fresh deduper (`current_report_offset` = 2^64 - 1); two keys with a start fill a
log with two matches, so that a flush can stop between them, and three reports
fill both logs and close them. With a sentinel of two, a start three bytes back
no longer fits the stream. Repeat bounds of two in a
word of three bits shift bits out; a RANGE of 1 to 4 has a list that must be
thinned; the ring has three positions and four bytes go round it. A queue of
four with its end marker is full after two triggers. Three bytes hold adjacent,
overlapping, nested and empty matches of three patterns.

Two bounds are not numbers. In the run `stream` an application uses the scratch
for streams or for vectored scans (`OneMode`): the two leave nothing to each
other but what `hs_scan_vector` overwrites when it begins, and their product is
out of reach. `fp_collector`, `objects` and `som` use symmetry, over scratches and
collectors, over stream handles and sources, and over the keys with a start,
which are only ever compared; no liveness property is checked in these runs.

Deadlock is not checked where a bound ends a behaviour (`MaxScans`,
`MaxOffset`, `MaxHits`, the end of a block) or a state has no successor by
intent (`NoTable`).

**Fairness.** `WF_vars(FlushStep)`, `WF_vars(ScanStep)` and
`WF_vars(CallStep)`: a call that has begun runs on. The code is sequential and
takes no lock; the only thing it waits for is the user callback, assumed to
return. Nothing is assumed about whether the application makes another call.
The other specifications state no fairness and only safety is checked of them.

**What the properties rule out and what they do not.** `OrderedReports`
excludes scans in which a Lily queue fills up: the overflow flush delivers
before the main engine has run and order is given up there.
`TerminatedIffStopped` is for combinations without a single-match key (a
combination that exhausts the last key makes `hs_scan` return
`HS_SCAN_TERMINATED` by itself). `ScratchComesBack` and `OwnUntilStopped` speak
of scratches on which no earlier scan was stopped; the next section says why.
`CountsExact` excludes a collector that was reset from a callback in the middle
of a trigger into whose rest another scan then ran. `ReplayExact` and
`LastByteExact` speak of streams the user has not stopped, `ReplayExact` of
delayed literals up to `maxFloatingDelayedMatch`. `StartExact` lets a slot with
a parent hold any of the starts offered, because a copy is not compared with
what the slot has. `ExactDelivery` and `StartExact` ask for the least of the
starts as a number, which is the earliest one that is known; that the earliest
of all may be one past the horizon is `LeftmostStart`, which the code does not
keep (below). `PcreExact` asks for completeness only of patterns that were
neither skipped by the user nor given up at a limit of PCRE.

### Disagreements found

| Run | Property | What the run shows |
|---|---|---|
| `block_scan_stale` | `ServesEveryDatabase` | items left by a stopped scan are flushed by a scan of a database without the engine, whose report table is NULL |
| `stream_x86` | `StreamedAsWhole` | without NEON `STATUS_EXHAUSTED` of a dead NFA is cleared (`src/runtime.c:1094`) and the next write scans from a stale state |
| `stream_compress_wrap` | `ExpandedAsCopied` | `sc_compress` and its companions cut the stream offset to 32 bits before they compare it with `historyRequired` (`src/stream_compress_impl.h:127`): just past a multiple of 4 GiB history is left out that the scanner reads |
| `som_horizon` | `LeftmostStart` | a match raised with `HS_OFFSET_PAST_HORIZON` (~0ULL, the earliest start) and again with a later one is given with the later one: `MIN(starts[dkey], from_offset)` (`src/report.h:101`) takes the numbers |

The runs and the same properties on the other side: `block_scan` shows
`OwnUntilStopped`, `stream` shows `StreamedAsWhole` for the NEON build, and
`objects` shows `ExpandedAsCopied` below the wrap-around. For starts of match,
`som` shows `ExactDelivery` and `StartExact`, which say what the minimum of the
numbers does give. A slot has the same minimum (`LIMIT_TO_AT_MOST`,
`src/som/som_runtime.c:65` and `:459`) against the comment above it, "in favour
of the earliest som"; gough's own minimum (`src/nfa/gough.c:214-221`) treats
~0ULL as the earliest. Two lesser
disagreements are visible in `BlockScan` without a run of their own: `done_scan`
(`src/runtime.c:463`) flushes parked Lily matches although the callback asked
to stop, and so calls it again; and `README_en.md:116` says more than 4096 hits
stop the scan, where `RoseDeliverReport` flushes and goes on.

## 4. Proofs

The theorems hold for every value of the constants that satisfies the named
assumptions of the module (types, and the facts about databases that the
compiler guarantees). The bounds of the runs are constants too, so they hold
for executions of any length, and for any number of streams, scratches,
fragments, slots or databases.

**LilyFlushProof** (`TypeCorrect`, `ReportsAlwaysAscend`, `RefinesQueue`).
`ReportsAscend` is not inductive: that the next item is not below the last one
reported depends on what is still parked and on which loop runs. `IInv` adds
`Sorted` (an engine scans forwards), `Below(out, cursor)` (what was reported
lies below all that is parked), `InRange` (a block being reported whole is due
and ends before the other queue's oldest item), `InCross` and `Cursors` (the
cursors stay inside blocks and queues), `InRest` (a remainder loop runs only
when the other queue has nothing due, or the callback stopped) and `Flushing`.
Lemma `ReportKeepsOrder` carries all five report actions. For the refinement
every report step is `Q!Deliver`, `Enter` is `Q!BeginFlush`, `Return` is
`Q!EndFlush`, and the block decisions stutter.

**BlockScanProof** (`OwnMatches`, `OneMatchPerKey`, `TerminatedExactly`,
`ReportsAscend`, `EveryHitReported`). `Control` ties a flush to the place it
returns to, and the status to the callback's answers. `Drain` says where no
parked match may be left: everywhere but between the start of an engine and the
end of `done_scan`'s flush, as long as no scan was stopped. `Keys` says that a
key is in one place: the exhaustion vector has it as soon as a match is parked
or reported, and a report being made is not parked. `OneMatchPerKey` and
`TerminatedExactly` assume `Ekey["comb"] = NoKey`, the case the properties are
about. For the order, `Bounds` says that hits and queues ascend and that what is
parked for this scan was raised by it, and `Order` that everything reported lies
at or below everything still to come: the report in hand, the parked matches,
the hits of engines not yet run, and the boundary. It needs the place of every
engine in the sequence, because a Lily engine parks matches far ahead of those
that Rose reports. For completeness, `Kept` says of every raised hit that it was
reported once or waits (in its queue or as the report in hand), of a raised key
that it is on, and of an engine the scan has left that it raised all its hits or
was right to stop.

**StreamRuntimeProof** (`StreamInvariant`, `Verdict`, `History`, `Stopped`,
`Streamed`, `EndReported`). At rest a stream is marked as terminated exactly if
its callback asked to stop (`Marks`); while a call works on it the mark is in
the scratch's status instead, and for a vectored scan in between
(`VectorMarks`). `Tails` is `HistoryIsTail` with the offset standing before the
chunk of a running write. `CallShape` says where a call is and on which streams
it works, which is what keeps the nested calls apart. A second invariant,
`SInv`, compares the callbacks of a stream with one scan of its data. `RestOK`
says that a stream at rest has reported what is due, that its exhaustion vector
holds the keys of that, and that its stored state is that of the automaton after
its last byte, or, if it is marked as exhausted, that nothing further can be
due: the automaton is dead or every key is on. `WriteOK`, `ZeroOK` and `ExecOK`
say how far a write has come: up to the scanned byte, the reports are what is
due of the prefix; `EodOK` adds the end. Both theorems assume `HAVE_NEON`,
because without it a write forgets the mark of a dead automaton and goes on from
a state that no longer belongs to the data: the invariant fails, and the run
`stream_x86` shows the property violated there. What the automaton does over all
the data is a recursive function; its defining equation is proved from the
well-founded order on `Nat` (`WFMin`, in the lemmas `Least` and `Climb`), as the
library's induction theorems take an operator.

**DelayedLiteralsProof** (`ReplayInvariant`, `ReplaysAscend`, `ReplaysExact`,
`LastByteKept`). `Found` fixes what was found so far, and `Queued` names the
delayed literals that still wait: due after the last flush of the ring, by less
than one lap (`Delay < SlotCount`), so that a slot stands for one offset
(lemmas `OneLap`, `SameSlot`, `Number`). `Ring` says that within a write the ring
holds them slot by slot, and that between writes nothing waits unless the stream
is marked dirty; then the next write rebuilds the ring, and gets the same one
because the history reaches back far enough (lemma `Reach`, from
`HistoryAssumption`, which is `calcHistoryRequired` of
`rose_build_bytecode.cpp`). `Log` says the same of the rows of the anchored log.
`Reached` and `Replayed` compare what ran with `Expect`, which says for
every point of a write what should have: a flush first fixes the `victims` (ring
and log between two offsets) and plays them one at a time, and each one played
moves the point. `ReplayExact` alone says nothing in the middle of a flush, nor
of what waits in the ring; hence the strengthening.

**FpCollectorProof** (`FpCountsExact`, `FpCommitted`, `FpFeedbackJustified`,
`FpFeedbackKeepsWorst`).
`Stacked` gives every running scan a scratch of its own; `Owing` and `Orphans`
say of a trigger that has not reported whether its report will be counted: one
that is owed was counted, one whose collector was reset finds its counter
unused. For what feedback keeps, `TotalIs` shows by induction over the number of
fragments that the saturating total exists and is not 0 when a fragment has a
false positive, so that a fragment that passes the thresholds is among the
candidates; the order of `compare_feedback_entry_score` does the rest, also
when stable keys, which are hashes, are equal.

**ObjectsProof** (`ScratchFitsAll`, `ScratchMemoryExact`,
`ScratchKeptDuringScan`; `ExpandsAsCopied`; `PcreReportedExactly`,
`QueueAlwaysFits`, `ChimeraSafe`). For scratch, `LogFits` (the log of a
region is right for its number of keys) is what lets `hs_alloc_scratch` grow the
log only together with the keys; `Forgotten` clears the history of a handle that
became NULL. For compressed streams, `CompressInv` says that every open stream
agrees with its ideal copy on what is live (`Agree`), and that the buffer is the
compressed form of a stream that agrees with `bufOf`. Agreement covers the
offset, the active engines and the valid slots, so that both have one layout
(`AgreeIs`). Lemma `LayoutIs` shows that the layout names every live location,
`ExpandIs` that `sc_expand` works out the same layout from what it has read so
far, and `ScannedIs` that a write reads nothing but what is live. The theorem
assumes `MaxOffset < U32`: beyond, `HistoryIs` fails, and the run
`stream_compress_wrap` shows the property violated there.

For Chimera, `PcreExact` says of each callback that it is the match PCRE finds
next after the callbacks before it; it looks back only, and says nothing of what
waits. `HybridInv` adds that. Of a running scan, `QueueOK` says that the queue
is sorted, has one item of a pattern, and that an item is the next match of its
pattern, not yet skipped, with its groups in `match`, the offset after it in
`scanStart`, and an end no earlier than any reported; `Covers`, that an active
pattern has its item, or nothing more is wanted of it, or its match has just
been reported and the next is to be queued. The fixed-width patterns are the
hard part, because `hs_scan` and PCRE both come upon their matches: `FixedOK`
says that every match that begins at or after `scanStart` ends where `hs_scan`
has still to report it or is just doing so, and `MatchOK` that the match for
which `hs_scan` is interrupted is the next of its pattern, until it is reported.
`SilentOK` says that a pattern without a match so far cannot have had one, since
the first prefilter activates it. `ReturnOK` keeps one place of the queue free
while an error is on its way out. `QueueFits` follows because the items have
different patterns, `PcreExact` because at the end the queue is empty and
`Covers` leaves only patterns of which nothing more is wanted. The next match of
a pattern is a least element, which exists by the well-founded order on `Nat`
(`MinIs`, from `WFMin`). `ChimeraAssumption` has no more than the types of the
constants and that a pattern PCRE runs from the beginning has no fixed width;
that matches end within the block, and fixed-width ones after their width, is
`DataFits`, by which `ch_scan` chooses its data.

**SomProof** (`SlotTypes`, `SlotLocks`, `SlotStarts`; `NeverTwice`,
`DeliversExactly`, `RawInOrder`, `Silent`). For the slots, `SlotInv` says of
every slot what the events of the open offset make of it, and `MarkInv` that
the marks, as far as they are about this offset, tell whether the offset has
written the slot and which refused write is stashed. Lemma `Open` shows that
both survive when an event opens a new offset, so that each operation is only
compared with what it found.

For the deduper, `DedupeInv` compares the callbacks of a call with the reports
raised so far, which for one that is being taken are those before it (`Prior`).
`Between` reports, a call that has had none yet is `Fresh` (the logs may hold
whatever an earlier call left in them, unless they were cleared for a boundary
report), and after one `At` says that the rows of the two parities name the
reports raised at its offset and at the one before, with the least start of
each, and that a clear bit of `som_log_dirty` means an empty row. Within a flush
`OnFirst` and `OnSecond` say the same of the rows that are left, and `Closed` of
the end. What they share is `Edge`: exactly the reports that are due were
given, where due means plain, or of a row already given, or of a key already
given of the row that is being flushed. This is why `ExactDelivery` holds in the
middle of a flush, and of a call the user stops there: `Sound` (what was given
was raised and has its final start) and `NoGap` (nothing two bytes behind a
match given is missing) follow from `Edge` wherever it stands (`Exactly`).
Lemma `OneMore` carries `Edge` over one match, `NextRow` over the end of a row,
`Closing` over a change of offset; `Extend` shows that a report which is only
being raised spoils nothing that was given.
`Silent` needs no more than that a flush runs only in a call that is not
stopped and is left by the halt. That no two reports share a row needs
`DedupeAssumption`: offsets stay two below the wrap of `u64a`.

**CatchUpProof** (`ReportedInOrder`, `ReportedExactly`, `MpvFedAscending`). A
catch-up leaves the engines at different offsets, and neither the order of the
reports nor their set says anything of an engine that is behind. `IInv` therefore
works with `Pending`, what each engine has still to report: the match it waits
for in the priority queue and those after its position. `Core` relates it to the
reports and to the patterns. An engine's matches are split into reported ones
and pending ones (`Plain`, `Once`), nothing pending lies below `minNonMpv`
(`Low`), a trigger of the MPV that is pending lies after all the MPV was fed
with (`Fed`, `Feeds`), and the MPV has reported or has ahead of it what its
triggers so far lead to (`MpvExact`). `Orderly` keeps the reports in order up to
`minMatch` and says of the cached `nextMpv` that the MPV has nothing before it;
this is what makes skipping the MPV safe, and why a trigger must reset it.
`Lanes` says of each engine where it stands: in the queue with its next match, or
with no match up to the offset being caught up to, or still to be run in this
catch-up (`NotYetAt`, by the phase and `turn`); outfixes are in the queue or
dead. Between literals nothing pending is left up to the offset (`Strict`), and
`TurnAt` and `JobOK` carry `report_ok_loc` and the arguments of the catch-up
through its steps. Each step is either a step of the MPV alone, which keeps what
it has made (`MpvMoved`, `CoreMove`), or a report of one engine, which moves one
offset from `Pending` to the reports (`Popped`). At the end `ReportsAre` reads
the exact set of reports off the invariant, and `ReportedExact` follows by
counting. `CatchUpAssumption` has an engine accept only after its trigger and an
exhaustible engine not feed the MPV.

Only model-checked. Liveness (`FlushReturns`, `ScratchComesBack`,
`CallReturns`) is beyond the prover. The three invariants of `Lbr` (`LbrExact`,
`AnswerExact`, `RangeFits`) were not attempted: they hold of six representations
at once, and `LbrExact` compares the engine with the language of a bounded
repeat, all ways to start and escape within it, so that its proof would be one
for each representation of what `RepeatModels` packs into bits.

## 5. Not modelled

Only about one line in a hundred of the repository is in the map, and that will
not change much. Most lines are a test framework, unit tests, generated tables
and dumpers, or the compiler: a sequential transformation of some 130,000 lines
whose state lives within one function call. Its results enter as assumptions
on the databases (`ScanAssumption`, `DatabaseAssumption`, `CatchUpAssumption`).
The SIMD matchers (FDR, Teddy, Noodle, Hao) and the automata (LimEx,
McClellan, Sheng, Gough) are algorithms on bytes and words without a protocol;
they enter as what they are asked to deliver: hits at chosen offsets, or a
machine behind the queue interface. The SVE2 backend of the collector computes
what the NEON one does. Serialisation, CPU dispatch, allocator registration and
the tools keep no state between calls. What the compiler does with feedback is
a heuristic.

Within the modelled parts: groups and look-around of Rose programs, leftfixes
other than as engines with a lag, castle and tamarama, the sparse repeat,
full-Rose and pure-literal streams, catch-up in streams or stopped by the
user, capture groups and UTF-8 in Chimera, and damaged compressed buffers.

## 6. Plan

Done: the Lily queues and block mode with their proofs; streams; the collector;
delayed literals; dedupe and SOM; compression and scratch; repeats; catch-up;
Chimera; proofs about all modules but `Lbr`.

Next, in this order:

1. `RangeFits` and `LbrExact` of `Lbr`, one representation at a time.
2. The stop by the user in `CatchUp`, and catch-up over stream writes
   (`streamInitSufPQ`, queues kept between writes).
3. Castle and tamarama on top of `RepeatModels`.
