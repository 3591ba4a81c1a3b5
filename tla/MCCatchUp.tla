----------------------------- MODULE MCCatchUp ------------------------------
(***************************************************************************)
(* Engines and their queues on small instances: Rose's catch-up of the     *)
(* MPV, one outfix and two suffixes, of which one reports once (CatchUp),  *)
(* and one queue of a large bounded repeat (Lbr), with every               *)
(* representation and the smallest bounds that make it thin, wrap, shift a *)
(* bit out of the word or cut at the horizon.  They share no state; a      *)
(* behaviour exercises one of them while the other stays as it began.      *)
(***************************************************************************)
EXTENDS CatchUp, TLC

CONSTANTS WordBits, Inf, Repeats, Modes, MaxOffset, MaxEscapes, MaxQueue,
          MaxWrites, MaxLag

VARIABLES used,     \* which of the two a behaviour exercises
          rep, mode, lag, escapes, active, lstate, lastEscape, packed, base,
          length, queue, end, pos, lbrPc, writes, tops, fired, answer

lbrVars == <<rep, mode, lag, escapes, active, lstate, lastEscape, packed, base,
             length, queue, end, pos, lbrPc, writes, tops, fired, answer>>

MCDist == (0 :> {1, 2}) @@ (1 :> {}) @@ (2 :> {2}) @@ (3 :> {1, 3})

R(t, a, b) == [type |-> t, min |-> a, max |-> b]
MCRepeats == {R("RING", 1, 2), R("RANGE", 1, 4), R("BITMAP", 1, 2),
              R("TRAILER", 2, 3), R("FIRST", 2, 9), R("LAST", 1, 2)}
MCModes == {"Q", "Q2", "QR"}

Repeat == INSTANCE Lbr WITH MaxItems <- MaxQueue, pc <- lbrPc
ASSUME RepeatAssumption == Repeat!LbrAssumption

\* The one that is not exercised begins in one of its initial states.
EnginesInit ==
    /\ used \in {"rose", "repeat"}
    /\ Init /\ Repeat!Init
    /\ used = "rose" => /\ rep = R("LAST", 1, 2) /\ mode = "Q" /\ escapes = {}
    /\ used = "repeat" => /\ rose.chained = {}
                         /\ \A q \in Outfix : accepts[q] = {}

EnginesNext ==
    /\ \/ used = "rose" /\ Next /\ UNCHANGED lbrVars
       \/ used = "repeat" /\ Repeat!Next /\ UNCHANGED vars
    /\ UNCHANGED used

EnginesSpec == EnginesInit /\ [][EnginesNext]_<<used, vars, lbrVars>>

\* Lbr: the matches reported are those of the regular expression.
LbrExact == Repeat!LbrExact

\* Lbr: what an infix is told of its matches.
AnswerExact == Repeat!AnswerExact

\* Lbr: the list of a RANGE repeat fits.
RangeFits == Repeat!RangeFits
=============================================================================
