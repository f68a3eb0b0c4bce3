------------------------- MODULE AnnounceBackoffProofs -------------------------
(***************************************************************************)
(* Theorems of AnnounceBackoff, for every choice of delays and periods.    *)
(***************************************************************************)
EXTENDS AnnounceBackoff, TLAPS

FlagsOK ==
    /\ skip \in BOOLEAN /\ own \in BOOLEAN /\ crossed \in BOOLEAN
    /\ sc \in {"idle", "stores", "tests", "starts", "waits", "doubles"}
    /\ cb \in {"idle", "judges"}
NumbersOK ==
    /\ delay \in 0 .. UserMax /\ temp_d \in 0 .. UserMax /\ (own => delay <= Cap)
    /\ left \in 0 .. Wrap - 1 /\ remaining \in -Tick .. UserMax
    /\ timer5 \in Off .. Tick /\ timer3h \in Off .. Calm

\* Only a delay longer than the period is counted, a call has set its next one, and a stopped
\* timer that is to be started has no call under way.
Places ==
    /\ sc \in {"stores", "tests", "starts"} => temp_d > Tick
    /\ cb = "judges" => timer5 = Tick
    /\ sc = "starts" => timer5 = Off
Running == timer5 # Off /\ cb = "idle" => remaining >= 0

\* Between the store and the delay the count is whole, or less by the one call that came, and
\* that call stops the timer only when less than a period is left.
Beginning ==
    sc \in {"tests", "starts"} /\ remaining # 0
        => \/ remaining = temp_d
           \/ remaining = temp_d - Tick /\ crossed /\ (timer5 = Tick \/ timer5 = Off)

\* While the timer runs the count is ahead of the clock by the time to the next call, less
\* the time the timer had to go when the delay started; with the timer stopped, less than a
\* period is left.
InPhase ==
    sc = "waits" /\ Counted /\ remaining # 0 /\ timer5 # Off
        => 0 <= remaining - left + timer5 /\ remaining - left + timer5 <= Tick
Stopped ==
    sc = "waits" /\ Counted /\ remaining # 0 /\ timer5 = Off
        => remaining < Tick /\ left <= remaining + Tick

IInv == NumbersOK /\ Places /\ Running /\ CountdownStops /\ Beginning /\ InPhase /\ Stopped

USE DelayAssumption DEF Off, vars, server

LEMMA FlagsStep == FlagsOK /\ [Next]_vars => FlagsOK'
  BY Zenon DEF FlagsOK, Next, AttemptAtOnce, AttemptBegins, Waits, StoresCount, TestsTimer,
               StartsTimer, DelayEnds, FiveMinutes, Judges, ThreeHours, SessionStarts,
               SessionEnds, UserSets, Passes

\* Whatever the user set, the next delay is one of the code's own.
LEMMA DoubledFits == \A d \in 0 .. UserMax : Doubled(d) \in 0 .. Cap
  BY DEF Doubled

LEMMA DelayFits == \A d \in 0 .. UserMax : d % Wrap \in 0 .. Wrap - 1 /\ (d < Wrap => d % Wrap = d)
<1> SUFFICES ASSUME NEW d \in 0 .. UserMax
             PROVE  d % Wrap \in 0 .. Wrap - 1 /\ (d < Wrap => d % Wrap = d)
  OBVIOUS
<1>1. Wrap \in Nat \ {0} /\ d \in Nat
  OBVIOUS
<1> QED
  BY <1>1

LEMMA InvStep == FlagsOK /\ IInv /\ [Next]_vars => IInv'
<1> SUFFICES ASSUME FlagsOK, IInv, [Next]_vars PROVE IInv'
  OBVIOUS
<1> USE DEF IInv, NumbersOK, Places, Running, CountdownStops, Beginning, InPhase, Stopped, Counted
<1>1. CASE AttemptAtOnce
  BY <1>1 DEF AttemptAtOnce
<1>2. CASE AttemptBegins
  <2>1. CASE delay > Tick /\ sc' = "stores" /\ UNCHANGED left
    BY <1>2, <2>1 DEF AttemptBegins
  <2>2. CASE delay <= Tick /\ Waits(delay)
    BY <1>2, <2>2, DelayFits DEF AttemptBegins, Waits
  <2> QED
    BY <1>2, <2>1, <2>2 DEF AttemptBegins
<1>3. CASE StoresCount
  BY <1>3 DEF StoresCount, SetCount
<1>4. CASE TestsTimer
  <2>1. CASE timer5 = Off
    BY <1>4, <2>1 DEF TestsTimer, Waits
  <2>2. CASE timer5 # Off
    <3>1. left' \in 0 .. Wrap - 1 /\ (Counted => left' = temp_d)
      BY <1>4, <2>2, DelayFits DEF TestsTimer, Waits
    <3>2. sc = "tests" /\ sc' = "waits"
          /\ UNCHANGED <<delay, skip, temp_d, remaining, timer5, cb, timer3h, own, crossed>>
      BY <1>4, <2>2 DEF TestsTimer, Waits
    <3>3. NumbersOK' /\ Places' /\ Running' /\ CountdownStops' /\ Beginning'
      BY <2>2, <3>1, <3>2
    <3>4. remaining # 0 => remaining = temp_d \/ (remaining = temp_d - Tick /\ timer5 = Tick)
      BY <2>2, <3>2
    <3>5. InPhase' /\ Stopped'
      <4>1. SUFFICES ASSUME Counted', remaining' # 0
                     PROVE  LET ahead == remaining' - left' + timer5' IN 0 <= ahead /\ ahead <= Tick
        BY <2>2, <3>2
      <4>2. left' = temp_d
        BY <3>1, <3>2, <4>1
      <4> QED
        BY <2>2, <3>2, <3>4, <4>1, <4>2
    <3> QED
      BY <3>3, <3>5
  <2> QED
    BY <2>1, <2>2
<1>5. CASE StartsTimer
  <2>1. left' \in 0 .. Wrap - 1 /\ (Counted => left' = temp_d)
    BY <1>5, DelayFits DEF StartsTimer, Waits
  <2>2. /\ sc = "starts" /\ sc' = "waits" /\ timer5' = Tick
        /\ UNCHANGED <<delay, skip, temp_d, remaining, cb, timer3h, own, crossed>>
    BY <1>5 DEF StartsTimer, Waits
  <2>3. NumbersOK' /\ Places' /\ Running'
    BY <2>1, <2>2
  <2>4. CountdownStops' /\ Beginning'
    BY <2>1, <2>2
  <2>5. remaining # 0 => remaining = temp_d \/ remaining = temp_d - Tick
    BY <2>2
  <2>6. InPhase' /\ Stopped'
    <3>1. SUFFICES ASSUME Counted', remaining' # 0
                   PROVE  LET ahead == remaining' - left' + timer5' IN 0 <= ahead /\ ahead <= Tick
      BY <2>2
    <3>2. left' = temp_d
      BY <2>1, <2>2, <3>1
    <3> QED
      BY <2>2, <2>5, <3>1, <3>2
  <2> QED
    BY <2>3, <2>4, <2>6
<1>6. CASE DelayEnds
  <2>1. delay' \in 0 .. Cap
    BY <1>6, DoubledFits DEF DelayEnds
  <2> QED
    BY <1>6, <2>1 DEF DelayEnds
<1>7. CASE FiveMinutes
  <2>1. CASE remaining = 0
    BY <1>7, <2>1 DEF FiveMinutes
  <2>2. CASE remaining # 0
    <3>1. /\ timer5 = 0 /\ remaining' = remaining - Tick /\ timer5' = Tick /\ cb' = "judges"
          /\ UNCHANGED <<delay, skip, sc, temp_d, left, timer3h, own>>
      BY <1>7, <2>2 DEF FiveMinutes
    <3>2. NumbersOK' /\ Places' /\ Running' /\ CountdownStops'
      BY <1>7, <2>2, <3>1 DEF FiveMinutes
    <3>3. Beginning'
      <4>1. sc = "tests" => crossed'
        BY <1>7, <2>2 DEF FiveMinutes
      <4>2. sc \in {"tests", "starts"} => sc = "tests" /\ remaining = temp_d
        BY <2>2, <3>1
      <4> QED
        BY <3>1, <4>1, <4>2
    <3>4. remaining \in Int /\ left \in Int /\ Tick \in Int /\ timer5' # Off
      BY <3>1
    <3>5. InPhase'
      BY <2>2, <3>1, <3>4 DEF Counted
    <3>6. Stopped'
      BY <3>1, <3>4
    <3> QED
      BY <3>2, <3>3, <3>5, <3>6
  <2> QED
    BY <2>1, <2>2
<1>8. CASE Judges
  BY <1>8 DEF Judges, StopAtLast
<1>9. CASE ThreeHours
  BY <1>9 DEF ThreeHours
<1>10. CASE SessionStarts \/ SessionEnds \/ UserSets
  BY <1>10 DEF SessionStarts, SessionEnds, UserSets
<1>11. CASE Passes
  BY <1>11 DEF Passes
<1>12. CASE UNCHANGED vars
  BY <1>12
<1> QED
  BY <1>1, <1>2, <1>3, <1>4, <1>5, <1>6, <1>7, <1>8, <1>9, <1>10, <1>11, <1>12 DEF Next

LEMMA InvHolds == Spec => [](FlagsOK /\ IInv)
<1>1. Init => FlagsOK
  BY Zenon DEF Init, FlagsOK
<1>2. Init => IInv
  BY DEF Init, IInv, NumbersOK, Places, Running, CountdownStops, Beginning, InPhase, Stopped
<1> QED
  BY <1>1, <1>2, FlagsStep, InvStep, PTL DEF Spec

\* Whatever the user sets, no delay the code sets itself leaves its range, and no count is
\* more than a period below zero.
THEOREM TypeCorrect == Spec => []TypeOK
<1>1. FlagsOK /\ IInv => TypeOK
  BY DEF FlagsOK, IInv, NumbersOK, TypeOK
<1> QED
  BY <1>1, InvHolds, PTL

\* A countdown that runs has a whole period to subtract, unless a call came just between the
\* store of its count and the test of its timer.
THEOREM CountdownNeverNegative == Spec => []CountdownStops
<1>1. IInv => CountdownStops
  BY DEF IInv
<1> QED
  BY <1>1, InvHolds, PTL

\* What the user is told of a delay is within a period of the truth.
THEOREM CountdownCorrect == Spec => []CountdownIsTrue
<1>1. IInv => CountdownIsTrue
  BY DEF IInv, NumbersOK, InPhase, Stopped, CountdownIsTrue
<1> QED
  BY <1>1, InvHolds, PTL
=============================================================================
