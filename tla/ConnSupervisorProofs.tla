------------------------- MODULE ConnSupervisorProofs -------------------------
(***************************************************************************)
(* Type correctness of the connectivity supervisor; that it never reboots  *)
(* a device sooner than the disconnect timeout after a connect, but for a  *)
(* connect that meets the callback between its two reads; and that an      *)
(* outage it watches ends in a reboot within a bounded time: for every     *)
(* value of the timing constants and any number of boots.                  *)
(***************************************************************************)
EXTENDS ConnSupervisor, TLAPS

\* The flags stay Boolean in every step (the first part of the type invariant).
LEMMA FlagsStep == FlagsOK /\ [Next]_vars => FlagsOK'
<1>. USE DEF FlagsOK
<1>. SUFFICES ASSUME FlagsOK, [Next]_vars PROVE FlagsOK'
  OBVIOUS
<1>1. CASE Tick
  BY <1>1, Zenon DEF Tick
<1>2. CASE InitActor
  BY <1>2, Zenon DEF InitActor
<1>3. CASE ReadResponse
  BY <1>3, Zenon DEF ReadResponse, ApplyWDT
<1>4. CASE MarkConnectedBegin
  BY <1>4, Zenon DEF MarkConnectedBegin
<1>5. CASE MarkConnectedClears \/ MarkConnectedEnd
  BY <1>5, Zenon DEF MarkConnectedClears, OutageEnds, MarkConnectedEnd
<1>6. CASE MarkDisconnected
  BY <1>6, Zenon DEF MarkDisconnected
<1>7. CASE SetWDT
  BY <1>7, Zenon DEF SetWDT, ApplyWDT
<1>8. CASE SetEver
  BY <1>8, Zenon DEF SetEver
<1>9. CASE TimerFires
  BY <1>9, Zenon DEF TimerFires
<1>10. CASE TimerTests \/ TimerJudges
  BY <1>10, Zenon DEF TimerTests, TimerJudges
<1>11. CASE Reboot
  BY <1>11, Zenon DEF Reboot
<1>12. CASE UNCHANGED vars
  BY <1>12 DEF vars, stateVars
<1>. QED
  BY <1>1, <1>2, <1>3, <1>4, <1>5, <1>6, <1>7, <1>8, <1>9, <1>10, <1>11, <1>12 DEF Next

\* The supervisor's variables keep their types: no handler, callback or set() leaves
\* a clock variable outside the naturals or a property outside 0 and 1.
THEOREM TypeCorrect == Spec => []TypeOK
<1>. USE TimesAssumption DEF TimesAssumption, TypeOK, FileContents, TrackOutage
<1>1. Init => TypeOK
  <2>1. Init => FlagsOK
    BY Zenon DEF Init, FlagsOK
  <2>. QED
    BY <2>1 DEF Init
<1>2. TypeOK /\ [Next]_vars => TypeOK'
  <2>. SUFFICES ASSUME TypeOK, [Next]_vars PROVE TypeOK'
    OBVIOUS
  <2>. FlagsOK'
    BY FlagsStep
  <2>1. CASE Tick
    BY <2>1 DEF Tick
  <2>2. CASE InitActor
    BY <2>2 DEF InitActor
  <2>3. CASE ReadResponse
    BY <2>3 DEF ReadResponse, ApplyWDT
  <2>4. CASE MarkConnectedBegin
    BY <2>4 DEF MarkConnectedBegin
  <2>5. CASE MarkConnectedClears \/ MarkConnectedEnd
    BY <2>5 DEF MarkConnectedClears, MarkConnectedEnd, OutageEnds
  <2>6. CASE MarkDisconnected
    BY <2>6 DEF MarkDisconnected
  <2>7. CASE SetWDT
    BY <2>7 DEF SetWDT, ApplyWDT
  <2>8. CASE SetEver
    BY <2>8 DEF SetEver
  <2>9. CASE TimerFires
    BY <2>9 DEF TimerFires
  <2>10. CASE TimerTests \/ TimerJudges
    BY <2>10 DEF TimerTests, TimerJudges, OutageStart
  <2>11. CASE Reboot
    BY <2>11 DEF Reboot
  <2>12. CASE UNCHANGED vars
    BY <2>12 DEF vars, stateVars
  <2>. QED
    BY <2>1, <2>2, <2>3, <2>4, <2>5, <2>6, <2>7, <2>8, <2>9, <2>10, <2>11, <2>12 DEF Next
<1>. QED
  BY <1>1, <1>2, PTL DEF Spec

\* What has lasted t since d has lasted t since any earlier l.
LEMMA EarlierIsLonger ==
    \A n, l, d, t \in Nat : d >= l /\ n - d >= t => n - l >= t
OBVIOUS

\* What makes NoEarlyReboot inductive: a running outage clock was started after the
\* last connect cleared it, and so was the one that the callback is judging, unless the
\* two have raced; a callback that goes on past its start has a boot time; no recorded
\* time lies in the future.
OutageClockInv ==
    /\ discStart # 0 => raced \/ discStart >= lastConnect
    /\ cb = "judging" => raced \/ (seen = discStart /\ discStart # 0)
    /\ cb # "idle" => bootTime # 0
    /\ discStart <= now
    /\ lastConnect <= now
    /\ NoEarlyReboot

\* periodic_timer_callback calls Restart_ESP_Xface only when DiscTimeout has passed
\* since connectivity_supervisor_mark_connected last ended an outage, however the steps of the
\* two interleave, whatever SET commands and re-initialisations happen in between, unless
\* the connect fell between the callback's test and use of disconnect_start_us.
THEOREM NeverEarly == Spec => []NoEarlyReboot
<1>. USE TimesAssumption DEF TimesAssumption, OutageClockInv, NoEarlyReboot
<1>1. Init => OutageClockInv
  BY DEF Init
<1>2. TypeOK /\ OutageClockInv /\ [Next]_vars => OutageClockInv'
  <2>. SUFFICES ASSUME TypeOK, OutageClockInv, [Next]_vars PROVE OutageClockInv'
    OBVIOUS
  <2>0. /\ now \in Nat \ {0} /\ discStart \in Nat /\ lastConnect \in Nat /\ seen \in Nat
        /\ raced \in BOOLEAN /\ bootTime \in Nat
    BY DEF TypeOK, FlagsOK
  <2>1. CASE Tick
    BY <2>0, <2>1 DEF Tick, Running, AtRest
  <2>2. CASE InitActor
    BY <2>0, <2>2 DEF InitActor, Running
  <2>3. CASE \/ ReadResponse \/ SetWDT \/ SetEver \/ MarkConnectedBegin \/ MarkConnectedEnd
             \/ MarkDisconnected
    BY <2>0, <2>3 DEF ReadResponse, SetWDT, SetEver, MarkConnectedBegin, MarkConnectedEnd,
                      MarkDisconnected
  <2>4. CASE MarkConnectedClears
    BY <2>0, <2>4 DEF MarkConnectedClears, OutageEnds, Running
  <2>5. CASE TimerFires
    BY <2>0, <2>5 DEF TimerFires, Running
  <2>6. CASE TimerTests
    BY <2>0, <2>6 DEF TimerTests, OutageStart, Running
  <2>7. CASE TimerJudges
    <3>1. CASE raced
      BY <2>0, <2>7, <3>1 DEF TimerJudges
    <3>2. CASE ~raced
      <4>1. Judged = {discStart} /\ discStart # 0 /\ discStart >= lastConnect
        BY <2>7, <3>2, Zenon DEF TimerJudges, Judged
      <4>2. rebooting' => now - discStart >= DiscTimeout
        BY <2>7, <4>1, Zenon DEF TimerJudges, Running
      <4>3. UNCHANGED <<now, discStart, lastConnect>> /\ cb' = "idle"
        BY <2>7 DEF TimerJudges
      <4>4. NoEarlyReboot'
        BY <2>0, <4>1, <4>2, <4>3
      <4>. QED
        BY <2>0, <4>1, <4>3, <4>4
    <3>. QED
      BY <3>1, <3>2
  <2>8. CASE Reboot
    BY <2>0, <2>8 DEF Reboot
  <2>9. CASE UNCHANGED vars
    BY <2>9 DEF vars, stateVars
  <2>. QED
    BY <2>1, <2>2, <2>3, <2>4, <2>5, <2>6, <2>7, <2>8, <2>9 DEF Next
<1>3. OutageClockInv => NoEarlyReboot
  OBVIOUS
<1>. QED
  BY <1>1, <1>2, <1>3, TypeCorrect, PTL DEF Spec

\* A running timer is due, at the latest one period from now, and no outage clock was
\* started in the future.
DueInv ==
    /\ timerOn => now <= nextFire /\ nextFire <= now + Interval
    /\ discStart <= now

\* t is in the first period of the outage o, or in the period that follows the last
\* callback that need not reboot.
Deadline(t, o, d) == t <= o + Interval \/ (d # 0 /\ t < d + DiscTimeout + Interval)

\* In a watched outage the outage clock starts at the first callback, or has started, and
\* the next callback, or the one running, is in time.  A connect that is not yet done is met
\* only in an outage that has just begun (the actor was reset meanwhile), and so is a judging
\* callback whose outage clock is not the one it has tested.
InTime ==
    /\ outageSince \in Nat /\ outageSince <= now
    /\ discStart <= outageSince + Interval
    /\ mark # "idle" => outageSince = now
    /\ cb = "judging" => outageSince = now \/ (seen = discStart /\ discStart # 0)
    /\ Deadline(IF cb = "idle" THEN nextFire ELSE now, outageSince, discStart)

\* What makes OutageBounded inductive.
OutageInv == outageSince # -1 => Watching /\ InTime

\* ENABLE_WDT stops the timer, or starts one that is stopped, or changes nothing.
LEMMA ApplyWDTResult ==
    ASSUME NEW w, ApplyWDT(w)
    PROVE  \/ ~timerOn'
           \/ timerOn' /\ ~timerOn /\ nextFire' = now + Interval
           \/ timerOn' /\ timerOn /\ nextFire' = nextFire
BY Zenon DEF ApplyWDT

\* Every step keeps the running timer due within one period.
LEMMA DueStep == TypeOK /\ DueInv /\ [Next]_vars => DueInv'
<1>. SUFFICES ASSUME TypeOK, DueInv, [Next]_vars PROVE DueInv'
  OBVIOUS
<1>. USE TimesAssumption DEF TimesAssumption, DueInv
<1>0. now \in Nat /\ nextFire \in Nat /\ discStart \in Nat
  BY DEF TypeOK
<1>1. CASE Tick
  BY <1>0, <1>1 DEF Tick
<1>2. CASE InitActor
  BY <1>0, <1>2 DEF InitActor
<1>3. CASE ReadResponse \/ SetWDT
  <2>1. PICK w : ApplyWDT(w)
    BY <1>3, Zenon DEF ReadResponse, SetWDT
  <2>2. now' = now /\ discStart' = discStart
    BY <1>3 DEF ReadResponse, SetWDT
  <2>. QED
    BY <1>0, <2>1, <2>2, ApplyWDTResult
<1>5. CASE SetEver \/ MarkConnectedBegin \/ MarkDisconnected
  BY <1>0, <1>5 DEF SetEver, MarkConnectedBegin, MarkDisconnected
<1>6. CASE MarkConnectedClears \/ MarkConnectedEnd
  BY <1>0, <1>6 DEF MarkConnectedClears, MarkConnectedEnd, OutageEnds
<1>7. CASE TimerFires
  BY <1>0, <1>7 DEF TimerFires
<1>8. CASE TimerTests \/ TimerJudges
  BY <1>0, <1>8 DEF TimerTests, TimerJudges, OutageStart
<1>9. CASE Reboot
  BY <1>9 DEF Reboot
<1>10. CASE UNCHANGED vars
  BY <1>10 DEF vars, stateVars
<1>. QED
  BY <1>1, <1>2, <1>3, <1>5, <1>6, <1>7, <1>8, <1>9, <1>10 DEF Next

\* A state in which no outage is watched, or one has just begun, satisfies OutageInv.
LEMMA OutageBegins ==
    /\ TypeOK /\ DueInv
    /\ (~Watching /\ outageSince = -1) \/ (Watching /\ outageSince = now)
    => OutageInv
<1>. SUFFICES ASSUME TypeOK, DueInv,
                     (~Watching /\ outageSince = -1) \/ (Watching /\ outageSince = now)
              PROVE  OutageInv
  OBVIOUS
<1>1. CASE ~Watching /\ outageSince = -1
  BY <1>1 DEF OutageInv
<1>2. CASE Watching /\ outageSince = now
  <2>1. timerOn
    BY <1>2, Zenon DEF Watching
  <2>2. /\ now \in Nat /\ nextFire \in Nat /\ discStart \in Nat /\ Interval \in Nat
        /\ discStart <= now /\ nextFire <= now + Interval
    BY <2>1, TimesAssumption DEF TimesAssumption, TypeOK, DueInv
  <2>3. now <= now /\ discStart <= now + Interval /\ now <= now + Interval
    BY <2>2
  <2>4. \A t \in {nextFire, now} : Deadline(t, outageSince, discStart)
    BY <1>2, <2>2, <2>3, Zenon DEF Deadline
  <2>. QED
    BY <1>2, <2>2, <2>3, <2>4, Zenon DEF OutageInv, InTime
<1>. QED
  BY <1>1, <1>2

\* While an outage is watched, every step leaves its callbacks in time.
LEMMA OutageContinues ==
    TypeOK /\ DueInv /\ Watching /\ InTime /\ outageSince' = outageSince /\ Watching' /\ Next
        => Reboot \/ InTime'
<1>. SUFFICES ASSUME TypeOK, DueInv, Watching, InTime, outageSince' = outageSince, Watching', Next
              PROVE  Reboot \/ InTime'
  OBVIOUS
<1>0. /\ now \in Nat /\ nextFire \in Nat /\ discStart \in Nat /\ outageSince \in Nat
      /\ Interval \in Nat \ {0} /\ DiscTimeout \in Nat \ {0}
  BY TimesAssumption DEF TimesAssumption, TypeOK, InTime
<1>a. timerOn /\ ~connectedNow /\ ever = 1 /\ ~InGrace
  BY Zenon DEF Watching, Armed
<1>b. timerOn' /\ ~connectedNow' /\ ever' = 1
  BY Zenon DEF Watching, Armed
<1>c. discStart <= now /\ now <= nextFire /\ nextFire <= now + Interval
  BY <1>a DEF DueInv
<1>1. CASE Tick
  BY <1>0, <1>1 DEF Tick, AtRest, InTime, Deadline
<1>2. CASE InitActor \/ MarkConnectedBegin \/ MarkDisconnected
  <2>1. ~InitActor
    BY <1>b DEF InitActor
  <2>. QED
    BY <2>1, <1>2, <1>a, <1>b, Zenon DEF MarkConnectedBegin, MarkDisconnected
<1>3. CASE ReadResponse \/ SetWDT
  <2>1. PICK w : ApplyWDT(w)
    BY <1>3, Zenon DEF ReadResponse, SetWDT
  <2>2. nextFire' = nextFire
    BY <2>1, ApplyWDTResult, <1>a, <1>b, Zenon
  <2>. QED
    BY <1>3, <2>2 DEF ReadResponse, SetWDT, InTime, Deadline
<1>4. CASE SetEver
  BY <1>4 DEF SetEver, InTime, Deadline
<1>5. CASE MarkConnectedClears
  <2>1. now' = now /\ nextFire' = nextFire /\ mark' # "idle" /\ cb' = cb /\ outageSince = now
    BY <1>5 DEF MarkConnectedClears, InTime
  <2>2. discStart' \in Nat /\ discStart' <= discStart
    BY <1>0, <1>5 DEF MarkConnectedClears, OutageEnds
  <2>3. /\ nextFire <= outageSince + Interval /\ now <= outageSince + Interval
        /\ discStart' <= outageSince + Interval
    BY <1>0, <1>c, <2>1, <2>2
  <2>. QED
    BY <2>1, <2>3 DEF InTime, Deadline
<1>8. CASE MarkConnectedEnd
  <2>1. now' = now /\ UNCHANGED <<discStart, seen>> /\ mark' = "idle" /\ cb' = cb /\ outageSince = now
    BY <1>8 DEF MarkConnectedEnd, InTime
  <2>2. nextFire' = nextFire \/ nextFire' = now + Interval
    BY <1>8 DEF MarkConnectedEnd
  <2>3. nextFire' <= now + Interval /\ now <= now + Interval
    BY <1>0, <1>c, <2>2
  <2>. QED
    BY <1>0, <2>1, <2>3 DEF InTime, Deadline
<1>6. CASE TimerFires
  <2>1. cb = "idle" /\ now = nextFire /\ now' = now /\ mark' = mark
    BY <1>6 DEF TimerFires
  <2>2. ever # 0
    BY <1>a
  <2>3. cb' = "unhealthy" /\ discStart' = discStart
    BY <1>6, <1>a, <2>2, Zenon DEF TimerFires, Healthy
  <2>. QED
    BY <2>1, <2>3 DEF InTime, Deadline
<1>7. CASE TimerTests
  <2>1. cb = "unhealthy" /\ cb' = "judging" /\ now' = now /\ mark' = mark
    BY <1>7 DEF TimerTests
  <2>2. discStart' = OutageStart /\ seen' = discStart'
    BY <1>7 DEF TimerTests
  <2>. QED
    BY <1>0, <2>1, <2>2 DEF OutageStart, InTime, Deadline, TypeOK
<1>9. CASE TimerJudges
  <2>1. /\ cb = "judging" /\ cb' = "idle" /\ mark' = mark
        /\ now' = now /\ nextFire' = nextFire /\ discStart' = discStart
    BY <1>9 DEF TimerJudges
  <2>2. CASE outageSince = now
    <3>1. nextFire <= outageSince + Interval
      BY <1>c, <2>2
    <3>. QED
      BY <2>1, <2>2, <3>1 DEF InTime, Deadline
  <2>3. CASE seen = discStart /\ discStart # 0
    <3>1. Judged = {discStart}
      BY <2>3, Zenon DEF Judged
    <3>2. ~(now - discStart >= DiscTimeout)
      BY <1>9, <1>b, <3>1, Zenon DEF TimerJudges
    <3>3. nextFire < discStart + DiscTimeout + Interval
      BY <1>0, <1>c, <3>2
    <3>. QED
      BY <2>1, <2>3, <3>3 DEF InTime, Deadline
  <2>. QED
    BY <2>1, <2>2, <2>3 DEF InTime
<1>. QED
  BY <1>1, <1>2, <1>3, <1>4, <1>5, <1>6, <1>7, <1>8, <1>9 DEF Next

\* Every step keeps OutageInv: it ends the outage, begins one, or leaves it in time.
LEMMA OutageStep == TypeOK /\ DueInv /\ OutageInv /\ TypeOK' /\ DueInv' /\ [Next]_vars => OutageInv'
<1>. SUFFICES ASSUME TypeOK, DueInv, OutageInv, TypeOK', DueInv', [Next]_vars PROVE OutageInv'
  OBVIOUS
<1>1. CASE UNCHANGED vars
  BY <1>1 DEF vars, stateVars, OutageInv, InTime, Watching, Armed, InGrace, Deadline
<1>2. (~Watching' /\ outageSince' = -1) \/ (Watching' /\ outageSince' = now') => OutageInv'
  <2>1. (TypeOK /\ DueInv /\ ((~Watching /\ outageSince = -1) \/ (Watching /\ outageSince = now))
           => OutageInv)'
    BY OutageBegins, PTL
  <2>. QED
    BY <2>1, Zenon
<1>3. CASE Reboot
  <2>1. ~Watching' /\ outageSince' = -1
    BY <1>3, Zenon DEF Reboot, Watching
  <2>. QED
    BY <1>2, <2>1
<1>4. CASE Next /\ ~Reboot
  <2>1. TrackOutage
    BY <1>4, Zenon DEF Next, Tick, InitActor, ReadResponse, MarkConnectedBegin, MarkConnectedClears,
       MarkConnectedEnd, MarkDisconnected, SetWDT, SetEver, TimerFires, TimerTests, TimerJudges
  <2>2. CASE ~Watching' \/ outageSince = -1
    BY <1>2, <2>1, <2>2, Zenon DEF TrackOutage
  <2>3. CASE Watching' /\ outageSince # -1
    <3>1. outageSince' = outageSince
      BY <2>1, <2>3, Zenon DEF TrackOutage
    <3>. QED
      BY <1>4, <2>3, <3>1, OutageContinues, Zenon DEF OutageInv
  <2>. QED
    BY <2>2, <2>3
<1>. QED
  BY <1>1, <1>3, <1>4

\* An outage that the armed supervisor watches without interruption ends in a reboot less
\* than two timer periods after the timeout, for every timeout, period and grace, whatever
\* disconnect_start_us an earlier outage has left behind.
THEOREM NeverStarved == Spec => []OutageBounded
<1>1. Init => DueInv /\ OutageInv
  BY DEF Init, DueInv, OutageInv
<1>2. TypeOK /\ DueInv /\ OutageInv => OutageBounded
  <2>. SUFFICES ASSUME TypeOK, DueInv, OutageInv, outageSince # -1
                PROVE  now - outageSince < DiscTimeout + 2 * Interval
    BY DEF OutageBounded
  <2>1. timerOn /\ InTime
    BY Zenon DEF OutageInv, Watching
  <2>2. /\ now \in Nat /\ nextFire \in Nat /\ discStart \in Nat /\ outageSince \in Nat
        /\ Interval \in Nat \ {0} /\ DiscTimeout \in Nat \ {0}
    BY <2>1, TimesAssumption DEF TimesAssumption, TypeOK, InTime
  <2>3. now <= nextFire /\ discStart <= outageSince + Interval
    BY <2>1 DEF DueInv, InTime
  <2>4. \E t \in Nat : now <= t /\ Deadline(t, outageSince, discStart)
    BY <2>1, <2>2, <2>3 DEF InTime
  <2>. QED
    BY <2>2, <2>3, <2>4 DEF Deadline
<1>. QED
  BY <1>1, <1>2, DueStep, OutageStep, TypeCorrect, PTL DEF Spec
===============================================================================
