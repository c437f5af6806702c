---------------------------------- MODULE When ----------------------------------
(***************************************************************************)
(* The time of a scheduled game: /bingo schedule turns a duration or a      *)
(* date into a fire time (internal/when), puts its unix seconds into the    *)
(* custom id of a pool select, and the select, used later or never, is      *)
(* what writes the schedule (discord/schedule.go).                          *)
(*                                                                          *)
(* Durations are signed machine words: every product and sum of them wraps. *)
(* Dates are not durations: adding a duration to a date does not wrap, and  *)
(* the distance of two dates saturates.  A text is what the parser makes of *)
(* it: a count before the first "d", the rest, or a date.                   *)
(***************************************************************************)
EXTENDS Integers

CONSTANTS
    HalfWord,    \* durations are -HalfWord .. HalfWord - 1 (2^63 nanoseconds)
    Day,         \* 24 * time.Hour, in the unit of durations
    Second,      \* time.Second
    Horizon,     \* MaxHorizon
    MaxNow       \* bound: the clock stops here

ASSUME WhenAssumption ==
    /\ {HalfWord, Day, Second} \subseteq Nat \ {0}
    /\ Horizon \in 0 .. HalfWord - 2     \* the longest duration is farther away
    /\ MaxNow \in Nat

VARIABLES
    now,         \* the wall clock
    offer,       \* the last select shown: what was asked and when, its fire time
    row          \* the schedule last written: its fire time, when it was asked

vars == <<now, offer, row>>

Word == -HalfWord .. HalfWord - 1
None == [kind |-> "none"]

\* Two's complement addition and multiplication of durations.
Wrap(x) == ((x + HalfWord) % (2 * HalfWord)) - HalfWord

\* Mutant: the distance of two dates wraps like a duration.
SubWraps(t, u) == Wrap(t - u)

\* Time.Sub: a distance that no duration holds becomes the longest one.
Sub(t, u) ==
    IF t - u \in Word THEN t - u ELSE IF t < u THEN -HalfWord ELSE HalfWord - 1

--------------------------------------------------------------------------------
\* Mutant: what follows the days is dropped.
DaysAlone(days, rest) == IF days > 0 THEN Wrap(days * Day) ELSE rest

\* Days are an int, the rest is a duration; the days are turned into one.
Total(days, rest) == Wrap(Wrap(days * Day) + rest)

\* ParseDuration, where it gives no error: no negative count of days, and a
\* positive sum (the rest alone may be negative, as in 1d-2h).
ParsesDuration(days, rest) ==
    /\ days >= 0
    /\ Total(days, rest) > 0

\* validateFuture
InFuture(at) ==
    /\ at > now
    /\ Sub(at, now) <= Horizon

--------------------------------------------------------------------------------
Init == now \in 0 .. MaxNow /\ offer = None /\ row = None

Offer(kind, asked, at) ==
    /\ InFuture(at)
    /\ offer' = [kind |-> kind, asked |-> asked, at |-> at, unix |-> at \div Second]
    /\ UNCHANGED <<now, row>>

\* /bingo schedule in:<days>d<rest>.  Commands that are refused change nothing.
ScheduleIn(days, rest) ==
    /\ ParsesDuration(days, rest)
    /\ Offer("in", [days |-> days, rest |-> rest, at |-> now], now + Total(days, rest))

\* /bingo schedule at:<date>: any date of the calendar, past ones and those
\* farther away than a duration reaches included.
ScheduleAt(at) == Offer("at", [days |-> 0, rest |-> 0, at |-> now], at)

\* The select is used, maybe long after it was shown: its custom id is taken as
\* it stands and nothing asks again whether the time is still to come.
Select ==
    /\ offer.kind # "none"
    /\ row' = [kind |-> "row", at |-> offer.at, unix |-> offer.unix, asked |-> offer.asked.at]
    /\ UNCHANGED <<now, offer>>

\* The clock.
Tick ==
    /\ now < MaxNow
    /\ now' = now + 1
    /\ UNCHANGED <<offer, row>>

Next ==
    \/ \E days \in -1 .. HalfWord - 1, rest \in Word : ScheduleIn(days, rest)
    \/ \E at \in -HalfWord .. 3 * HalfWord : ScheduleAt(at)
    \/ Select
    \/ Tick

Spec == Init /\ [][Next]_vars

--------------------------------------------------------------------------------
TypeOK ==
    /\ now \in 0 .. MaxNow
    /\ \/ offer = None
       \/ offer \in [kind : {"in", "at"}, at : Nat, unix : Nat,
                    asked : [days : Nat, rest : Word, at : 0 .. MaxNow]]
    /\ row = None \/ row \in [kind : {"row"}, at : Nat, unix : Nat, asked : 0 .. MaxNow]

\* Whatever wraps or saturates on the way, and however late the select is used:
\* no fire time offered or written lies farther ahead of the command than
\* MaxHorizon, and none was in the past when the command ran (validateFuture).
WithinHorizon ==
    /\ offer # None => offer.at \in offer.asked.at + 1 .. offer.asked.at + Horizon
    /\ row # None => row.unix * Second \in row.asked - Second + 1 .. row.asked + Horizon

\* An accepted duration is the one that was typed, if its days alone fit into a
\* word: a sum that wraps is negative and refused, so that only the product can
\* go unnoticed (ParseDuration).  When the days do not fit, a huge count can come
\* out as a short delay.
MeansWhatItSays ==
    offer # None =>
        LET a == offer.asked IN
        offer.kind = "in" /\ a.days * Day < HalfWord
            => offer.at = a.at + a.days * Day + a.rest
================================================================================
