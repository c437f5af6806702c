------------------------------- MODULE WhenProofs -------------------------------
(***************************************************************************)
(* The time of a scheduled game, for every width of a word and every        *)
(* length of a day, of a second and of the horizon.                         *)
(***************************************************************************)
EXTENDS When, TLAPS

\* What the seconds written into the custom id leave out is less than a second.
LEMMA WholeSeconds ==
    ASSUME NEW a \in Nat, NEW s \in Nat \ {0}
    PROVE  /\ a \div s \in Nat
           /\ (a \div s) * s \in a - s + 1 .. a
  OBVIOUS

LEMMA SmallRemainder ==
    ASSUME NEW m \in Nat \ {0}, NEW y \in 0 .. m - 1
    PROVE  y % m = y
  OBVIOUS

\* A wrapped number is a word, and a word stays what it is.
LEMMA WrapIsWord ==
    ASSUME NEW x \in Int
    PROVE  /\ Wrap(x) \in Word
           /\ x \in Word => Wrap(x) = x
  <1> DEFINE m == 2 * HalfWord
             y == x + HalfWord
  <1>1. m \in Nat \ {0} /\ y \in Int
    BY WhenAssumption
  <1>2. y % m \in 0 .. m - 1
    <2> HIDE DEF m, y
    <2> QED BY <1>1
  <1>3. y \in 0 .. m - 1 => y % m = y
    <2> HIDE DEF m, y
    <2> QED BY <1>1, SmallRemainder
  <1> QED BY <1>2, <1>3, WhenAssumption DEF Wrap, Word

\* The saturating distance is honest up to the horizon, which a word holds.
LEMMA SubBelowHorizon ==
    ASSUME NEW t \in Int, NEW u \in Int, Sub(t, u) <= Horizon, t > u
    PROVE  t - u <= Horizon
  BY WhenAssumption DEF Sub, Word

LEMMA OneTurn ==
    ASSUME NEW m \in Nat \ {0}, NEW y \in m .. 2 * m - 1
    PROVE  y % m = y - m
  <1>1. y - m \in 0 .. m - 1
    OBVIOUS
  <1>2. (y - m) % m = y - m
    BY <1>1, SmallRemainder
  <1>3. y % m = (y - m) % m
    OBVIOUS
  <1> QED BY <1>2, <1>3

\* A sum of two words that does not fit is negative, so ParseDuration refuses it:
\* if the days fit, what it accepts is exact.
LEMMA SumsAreExact ==
    ASSUME NEW days \in Nat, NEW rest \in Word,
           days * Day < HalfWord, Total(days, rest) > 0
    PROVE  Total(days, rest) = days * Day + rest
  <1> DEFINE p == days * Day
  <1>1. p \in Nat /\ p \in Word /\ rest \in Int /\ p + rest \in Int
    BY WhenAssumption DEF Word
  <1>2. Total(days, rest) = Wrap(p + rest)
    BY <1>1, WrapIsWord DEF Total
  <1>3. CASE p + rest \in Word
    BY <1>1, <1>2, <1>3, WrapIsWord
  <1>4. CASE p + rest \notin Word
    <2> DEFINE m == 2 * HalfWord
               y == p + rest + HalfWord
    <2>1. m \in Nat \ {0} /\ y \in m .. 2 * m - 1
      <3> HIDE DEF p
      <3> QED BY <1>1, <1>4, WhenAssumption DEF Word
    <2>2. y % m = y - m
      <3> HIDE DEF m, y
      <3> QED BY <2>1, OneTurn
    <2>3. Wrap(p + rest) < 0
      <3> HIDE DEF p
      <3> QED BY <1>1, <2>1, <2>2, WhenAssumption DEF Wrap, Word
    <2>4. Total(days, rest) < 0
      BY <1>2, <2>3
    <2>5. Total(days, rest) \in Int
      BY <1>1, <1>2, WrapIsWord, WhenAssumption DEF Word
    <2> QED BY <2>4, <2>5
  <1> QED BY <1>3, <1>4

--------------------------------------------------------------------------------
\* What an offer's custom id holds.
OfferSeconds == offer # None => offer.unix = offer.at \div Second

IInv == TypeOK /\ WithinHorizon /\ MeansWhatItSays /\ OfferSeconds

LEMMA InitIInv == Init => IInv
  BY DEF Init, IInv, TypeOK, WithinHorizon, MeansWhatItSays, OfferSeconds

\* A fire time that validateFuture lets through keeps the invariant, if a typed
\* duration is exact whenever its days fit.
LEMMA OfferKeepsIInv ==
    ASSUME IInv, NEW kind \in {"in", "at"}, NEW at \in Int,
           NEW days \in Nat, NEW rest \in Word,
           kind = "in" /\ days * Day < HalfWord => at = now + days * Day + rest,
           Offer(kind, [days |-> days, rest |-> rest, at |-> now], at)
    PROVE  IInv'
  <1> DEFINE asked == [days |-> days, rest |-> rest, at |-> now]
             new == [kind |-> kind, asked |-> asked, at |-> at, unix |-> at \div Second]
  <1>1. now \in 0 .. MaxNow /\ now \in Nat /\ Horizon \in Nat /\ Second \in Nat \ {0}
    BY WhenAssumption DEF IInv, TypeOK
  <1>2. at > now /\ at - now <= Horizon
    BY <1>1, SubBelowHorizon DEF Offer, InFuture
  <1>3. at \in Nat
    BY <1>1, <1>2
  <1>4. offer' = new /\ UNCHANGED <<now, row>>
    BY DEF Offer
  <1>5. offer'.at = at /\ offer'.asked = asked /\ offer'.kind = kind
        /\ offer'.unix = at \div Second
    BY <1>4
  <1>6. TypeOK'
    <2>1. at \div Second \in Nat
      BY <1>1, <1>3, WholeSeconds
    <2>2. new \in [kind : {"in", "at"}, at : Nat, unix : Nat,
                  asked : [days : Nat, rest : Word, at : 0 .. MaxNow]]
      BY <1>1, <1>3, <2>1
    <2> QED BY <1>4, <2>2 DEF IInv, TypeOK
  <1>7. WithinHorizon'
    <2>1. at \in now + 1 .. now + Horizon
      BY <1>1, <1>2
    <2> QED BY <1>4, <1>5, <2>1 DEF IInv, WithinHorizon
  <1>8. MeansWhatItSays'
    BY <1>5 DEF MeansWhatItSays
  <1>9. OfferSeconds'
    BY <1>5 DEF OfferSeconds
  <1> QED BY <1>6, <1>7, <1>8, <1>9 DEF IInv

LEMMA NextIInv == IInv /\ [Next]_vars => IInv'
  <1> SUFFICES ASSUME IInv, [Next]_vars
               PROVE  IInv'
    OBVIOUS
  <1>1. now \in 0 .. MaxNow /\ now \in Nat
    BY WhenAssumption DEF IInv, TypeOK
  <1>2. ASSUME NEW days \in -1 .. HalfWord - 1, NEW rest \in Word, ScheduleIn(days, rest)
        PROVE  IInv'
    <2>1. days \in Nat /\ Total(days, rest) > 0
      BY <1>2, WhenAssumption DEF ScheduleIn, ParsesDuration
    <2>2. rest \in Int /\ days * Day \in Int
      BY <2>1, WhenAssumption DEF Word
    <2>3. Total(days, rest) \in Int
      <3>1. Wrap(days * Day) \in Int
        BY <2>2, WrapIsWord, WhenAssumption DEF Word
      <3>2. Wrap(Wrap(days * Day) + rest) \in Int
        BY <2>2, <3>1, WrapIsWord, WhenAssumption DEF Word
      <3> QED BY <3>2 DEF Total
    <2>4. days * Day < HalfWord => now + Total(days, rest) = now + days * Day + rest
      <3> SUFFICES ASSUME days * Day < HalfWord
                   PROVE  now + Total(days, rest) = now + days * Day + rest
        OBVIOUS
      <3>1. Total(days, rest) = days * Day + rest
        BY <2>1, SumsAreExact
      <3> DEFINE p == days * Day
      <3> HIDE DEF p
      <3> QED BY <1>1, <2>2, <3>1 DEF p
    <2>5. Offer("in", [days |-> days, rest |-> rest, at |-> now], now + Total(days, rest))
      BY <1>2 DEF ScheduleIn
    <2>6. now + Total(days, rest) \in Int
      BY <1>1, <2>3
    <2> QED BY <2>1, <2>4, <2>5, <2>6, OfferKeepsIInv
  <1>3. ASSUME NEW at \in -HalfWord .. 3 * HalfWord, ScheduleAt(at)
        PROVE  IInv'
    <2>1. 0 \in Nat /\ 0 \in Word /\ at \in Int
      BY WhenAssumption DEF Word
    <2>2. Offer("at", [days |-> 0, rest |-> 0, at |-> now], at)
      BY <1>3 DEF ScheduleAt
    <2> QED BY <2>1, <2>2, OfferKeepsIInv
  <1>4. CASE Select
    <2>1. /\ offer # None
          /\ row' = [kind |-> "row", at |-> offer.at, unix |-> offer.unix,
                     asked |-> offer.asked.at]
          /\ UNCHANGED <<now, offer>>
      BY <1>4 DEF Select, None
    <2>2. offer.at \in Nat /\ offer.unix \in Nat /\ offer.asked.at \in 0 .. MaxNow
      BY <2>1 DEF IInv, TypeOK
    <2>3. TypeOK'
      BY <2>1, <2>2 DEF IInv, TypeOK
    <2>4. WithinHorizon'
      <3>1. offer.at \in offer.asked.at + 1 .. offer.asked.at + Horizon
        BY <2>1 DEF IInv, WithinHorizon
      <3>2. offer.unix * Second \in offer.at - Second + 1 .. offer.at
        BY <2>1, <2>2, WholeSeconds, WhenAssumption DEF IInv, OfferSeconds
      <3>3. offer.unix * Second \in offer.asked.at - Second + 1 .. offer.asked.at + Horizon
        <4> DEFINE q == offer.unix * Second
        <4>1. q \in Int /\ offer.at \in Int /\ offer.asked.at \in Int /\ Horizon \in Int /\ Second \in Int
          BY <2>2, WhenAssumption
        <4> HIDE DEF q
        <4> QED BY <3>1, <3>2, <4>1 DEF q
      <3> QED BY <2>1, <3>1, <3>3 DEF WithinHorizon
    <2> QED BY <2>1, <2>3, <2>4 DEF IInv, MeansWhatItSays, OfferSeconds
  <1>5. CASE Tick
    <2>1. now' \in 0 .. MaxNow
      BY <1>1, <1>5, WhenAssumption DEF Tick
    <2> QED BY <1>5, <2>1
            DEF Tick, IInv, TypeOK, WithinHorizon, MeansWhatItSays, OfferSeconds
  <1>6. CASE UNCHANGED vars
    BY <1>6 DEF vars, IInv, TypeOK, WithinHorizon, MeansWhatItSays, OfferSeconds
  <1> QED BY <1>2, <1>3, <1>4, <1>5, <1>6 DEF Next

LEMMA SpecIInv == Spec => []IInv
  BY InitIInv, NextIInv, PTL DEF Spec

\* Every fire time that is offered or written lies in the future of the command
\* and within MaxHorizon of it (Resolve, validateFuture), for every word size.
THEOREM AlwaysWithinHorizon == Spec => []WithinHorizon
  <1>1. IInv => WithinHorizon
    BY DEF IInv
  <1> QED BY <1>1, SpecIInv, PTL

\* A duration whose days fit into a word is accepted exactly or refused
\* (ParseDuration): the wrapping sum alone never deceives.
THEOREM DurationsMeanWhatTheySay == Spec => []MeansWhatItSays
  <1>1. IInv => MeansWhatItSays
    BY DEF IInv
  <1> QED BY <1>1, SpecIInv, PTL
================================================================================
