----------------------------- MODULE RateLimiter -----------------------------
(***************************************************************************)
(* The calls a process makes to one marketplace, slowed to the allowed      *)
(* number per window.  The limiter keeps the times of the calls it let      *)
(* through; a call that finds the window full sleeps and looks again.       *)
(* Integrations of one marketplace share the times, each with a limit of    *)
(* its own.                                                                 *)
(***************************************************************************)
EXTENDS FiniteSets, Integers, Sequences

CONSTANTS
  Calls,        \* concurrent calls (a bound)
  WindowLength, \* in ticks of the clock
  Limits,       \* the limits integrations may set
  LastTick      \* the clock stops here (a bound)

ASSUME LimiterAssumption ==
  WindowLength \in Nat \ {0} /\ Limits \subseteq Nat \ {0} /\ LastTick \in Nat

VARIABLES
  clock,
  times,   \* the times the limiter remembers, as they come
  passed,  \* history: the calls let through, when and held to which limit
  nap      \* nap[u]: whether a call sleeps, until when and the limit it is held to

limiterVars == <<clock, times, passed, nap>>

-----------------------------------------------------------------------------
Ticks == 0..LastTick
Nap   == [asleep : BOOLEAN, until : 0..(LastTick + WindowLength), limit : Limits \cup {0}]
Awake == [asleep |-> FALSE, until |-> 0, limit |-> 0]

LimiterTypeOK ==
  /\ clock \in Ticks
  /\ times \in Seq(Ticks)
  /\ passed \in Seq([at : Ticks, limit : Limits])
  /\ nap \in [Calls -> Nap]

\* The calls let through in the window that ends now.
InWindow == {i \in DOMAIN passed : clock - passed[i].at < WindowLength}

\* The first of the remembered times that the window holds: they are in order.
FirstRecent ==
  CHOOSE k \in 1..(Len(times) + 1) : \A i \in DOMAIN times : k <= i <=> clock - times[i] < WindowLength

Recent == SubSeq(times, FirstRecent, Len(times))

\* Mutant: sleeps until the youngest call leaves the window.
UntilYoungest == Recent[Len(Recent)] + WindowLength

\* A full window has room again when its oldest call leaves it.
UntilOldest == Recent[1] + WindowLength

LetThrough(u, limit) ==
  /\ times' = Append(Recent, clock)
  /\ passed' = Append(passed, [at |-> clock, limit |-> limit])
  /\ nap' = [nap EXCEPT ![u] = Awake]
  /\ UNCHANGED clock

\* throttle() runs to its only await in one step.
Throttle(u, limit) ==
  \/ Len(Recent) < limit /\ LetThrough(u, limit)
  \/ /\ Len(Recent) >= limit
     /\ nap' = [nap EXCEPT ![u] = [asleep |-> TRUE, until |-> UntilOldest, limit |-> limit]]
     /\ UNCHANGED <<clock, times, passed>>

Arrives(u, limit) == ~nap[u].asleep /\ Throttle(u, limit)

Due(u) == nap[u].asleep /\ nap[u].until <= clock

\* Mutant: a call that has slept goes ahead.
WakeAndGo(u) == Due(u) /\ LetThrough(u, nap[u].limit)

\* The call wakes and starts over; others may have been quicker.
Wake(u) == Due(u) /\ Throttle(u, nap[u].limit)

\* A timer that is due fires before time goes on by a whole tick.
TickOn ==
  /\ clock < LastTick /\ \A u \in Calls : ~Due(u)
  /\ clock' = clock + 1
  /\ UNCHANGED <<times, passed, nap>>

LimiterInit ==
  /\ clock = 0
  /\ times = << >>
  /\ passed = << >>
  /\ nap = [u \in Calls |-> Awake]

LimiterNext ==
  \/ \E u \in Calls : (\E limit \in Limits : Arrives(u, limit)) \/ Wake(u)
  \/ TickOn

LimiterSpec == LimiterInit /\ [][LimiterNext]_limiterVars

-----------------------------------------------------------------------------
(* Properties *)

\* However the calls interleave and sleep, with each that throttle() let through
\* its window held no more than its own limit.
WindowNeverCrowded ==
  \A i \in DOMAIN passed :
    Cardinality({j \in 1..i : passed[i].at - passed[j].at < WindowLength}) <= passed[i].limit

\* A call sleeps no longer than it must: until it is due, its window is full.
NoNeedlessNap == \A u \in Calls : nap[u].asleep /\ ~Due(u) => Cardinality(InWindow) >= nap[u].limit

\* Calls are held back neither too little nor too much.
CallsArePaced == WindowNeverCrowded /\ NoNeedlessNap

=============================================================================
