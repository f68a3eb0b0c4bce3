---------------------------- MODULE ConnSupervisor ----------------------------
(***************************************************************************)
(* The connectivity supervisor of the IHUB actor (src/main/iHub_Actor.c):  *)
(* a periodic esp_timer that reboots the device when the IoT Hub           *)
(* connection has been unhealthy for too long.                             *)
(*                                                                         *)
(* Three contexts share its variables: the esp_timer task runs the         *)
(* callback, the session task (other core) marks the connection, the IHUB  *)
(* monitor task re-initialises the actor and sets its properties.  The     *)
(* callback and connectivity_supervisor_mark_connected are each split      *)
(* wherever the other core can interleave: there is no lock.  Time is      *)
(* counted in units that no single callback or mark lasts.                 *)
(***************************************************************************)
EXTENDS Integers

CONSTANTS
    Grace,       \* CONNECTIVITY_BOOT_GRACE_US
    DiscTimeout, \* CONNECTIVITY_DISCONNECT_TIMEOUT_US
    ActTimeout,  \* CONNECTIVITY_ACTIVITY_TIMEOUT_US
    Interval,    \* CONNECTIVITY_SUPERVISOR_INTERVAL_US
    MaxTime      \* bound on the clock of one boot

ASSUME TimesAssumption ==
    /\ Grace \in Nat /\ DiscTimeout \in Nat \ {0} /\ ActTimeout \in Nat
    /\ Interval \in Nat \ {0}
    /\ MaxTime \in Nat \ {0}

VARIABLES
    now,          \* esp_timer_get_time(), restarts at every boot
    inited,       \* init() has created the periodic timer in this boot
    timerOn,      \* esp_timer_is_active(periodic_timer)
    nextFire,     \* when the running timer is due
    cb,           \* the callback: not running, found the link unhealthy, or judging the outage
    seen,         \* the outage start that the judging callback has tested or stored (else 0)
    mark,         \* connectivity_supervisor_mark_connected: not running, or how far it is
    connectedNow, \* ihub_connected_now
    ever,         \* iHub_Para.ever_connected_since_boot
    bootTime,     \* boot_time_us (0: unset)
    discStart,    \* disconnect_start_us (0: unset)
    lastActivity, \* last_successful_activity_us
    file,         \* ENABLE_WDT and EVER_CONNECTED_SINCE_BOOT in A:/System/IHUB.json
    readResp,     \* the READ responses on their way to the IHUB actor (at most one)
    rebooting,    \* Restart_ESP_Xface has been called
    lastConnect,  \* history: when a mark_connected last cleared disconnect_start_us (0: never)
    raced,        \* history: that store of 0 met a judging callback, and no later one replaced it
    outageSince   \* history: since when the supervisor has watched one outage (-1: no)

stateVars == <<now, inited, timerOn, nextFire, cb, mark, connectedNow,
               ever, bootTime, discStart, lastActivity, file, readResp, rebooting, seen>>
vars == <<stateVars, lastConnect, raced, outageSince>>

-------------------------------------------------------------------------------

\* now - boot_time_us < CONNECTIVITY_BOOT_GRACE_US, or the boot time is unset
InGrace == bootTime = 0 \/ now - bootTime < Grace

\* connectivity_supervisor_is_armed's result
Armed == ~InGrace /\ ever = 1

\* The supervisor is watching an outage: armed, its timer runs, no session.
Watching == timerOn /\ Armed /\ ~connectedNow

\* The history variable outageSince: reset by every step that leaves Watching.
TrackOutage ==
    outageSince' = IF ~Watching' THEN -1 ELSE IF outageSince = -1 THEN now' ELSE outageSince

FileContents == [ever : {0, 1}, wdt : {0, 1}]

Running == ~rebooting
AtRest == cb = "idle" /\ mark = "idle"

\* RAM at boot; the supervisor's properties are whatever the file has kept.
Init ==
    /\ now = 1 /\ inited = FALSE /\ timerOn = FALSE /\ nextFire = 0
    /\ cb = "idle" /\ mark = "idle" /\ connectedNow = FALSE /\ ever = 0
    /\ bootTime = 0 /\ discStart = 0 /\ lastActivity = 0
    /\ readResp = {} /\ rebooting = FALSE
    /\ file \in FileContents
    /\ seen = 0 /\ lastConnect = 0 /\ raced = FALSE /\ outageSince = -1

-------------------------------------------------------------------------------

\* Time passes; the esp_timer task runs a due callback before the clock moves on.
Tick ==
    /\ Running /\ AtRest /\ now < MaxTime
    /\ timerOn => now < nextFire
    /\ now' = now + 1
    /\ UNCHANGED <<inited, timerOn, nextFire, cb, mark, connectedNow, ever, bootTime,
                   discStart, lastActivity, file, readResp, rebooting, lastConnect, seen, raced>>
    /\ TrackOutage

\* init() of the actor: at boot, and again after the DEINIT of every stack reset.
\* It clears ever_connected_since_boot until the READ of IHUB.json answers (a stack
\* reset lasts seconds: the previous READ has been answered by then).
InitActor ==
    /\ Running /\ readResp = {}
    /\ inited' = TRUE
    /\ ever' = 0
    /\ connectedNow' = FALSE
    /\ IF bootTime = 0
       THEN bootTime' = now /\ discStart' = 0 /\ lastActivity' = now
       ELSE UNCHANGED <<bootTime, discStart, lastActivity>>
    /\ readResp' = {file}
    /\ IF inited
       THEN UNCHANGED <<timerOn, nextFire>>
       ELSE timerOn' = TRUE /\ nextFire' = now + Interval
    /\ UNCHANGED <<now, cb, mark, file, rebooting, lastConnect, seen, raced>>
    /\ TrackOutage

\* Mutant: the timer is due one period before its start.
ApplyWDTPast(w) == timerOn' = (w = 1) /\ nextFire' = now - Interval

\* set("ENABLE_WDT", w): starts or stops the periodic timer
ApplyWDT(w) ==
    /\ timerOn' = (w = 1)
    /\ nextFire' = IF w = 1 /\ ~timerOn THEN now + Interval ELSE nextFire

\* Analyse_Response: the READ response sets both properties from the file.
ReadResponse ==
    /\ Running
    /\ \E r \in readResp : ever' = r.ever /\ ApplyWDT(r.wdt)
    /\ readResp' = {}
    /\ UNCHANGED <<now, inited, cb, mark, connectedNow, bootTime, discStart, lastActivity,
                   file, rebooting, lastConnect, seen, raced>>
    /\ TrackOutage

\* A SET command on ENABLE_WDT: stored in the file and applied
SetWDT ==
    /\ Running /\ inited
    /\ \E w \in {0, 1} : ApplyWDT(w) /\ file' = [file EXCEPT !.wdt = w]
    /\ UNCHANGED <<now, inited, cb, mark, connectedNow, ever, bootTime, discStart,
                   lastActivity, readResp, rebooting, lastConnect, seen, raced>>
    /\ TrackOutage

\* A SET command on EVER_CONNECTED_SINCE_BOOT
SetEver ==
    /\ Running /\ inited
    /\ \E e \in {0, 1} : ever' = e /\ file' = [file EXCEPT !.ever = e]
    /\ UNCHANGED <<now, inited, timerOn, nextFire, cb, mark, connectedNow, bootTime,
                   discStart, lastActivity, readResp, rebooting, lastConnect, seen, raced>>
    /\ TrackOutage

\* connectivity_supervisor_mark_connected up to and with ihub_connected_now = true
MarkConnectedBegin ==
    /\ Running /\ inited /\ mark = "idle"
    /\ mark' = "begun"
    /\ connectedNow' = TRUE
    /\ UNCHANGED <<now, inited, timerOn, nextFire, cb, ever, bootTime, discStart,
                   lastActivity, file, readResp, rebooting, lastConnect, seen, raced>>
    /\ TrackOutage

\* Mutant: a connect does not end the outage.
OutageGoesOn == UNCHANGED <<discStart, raced>>

\* disconnect_start_us = 0, two words written.  A callback that is between its test and its
\* use of the variable may have one of them overwritten, or overwrite one: what is left is
\* at most what it was.
OutageEnds ==
    IF cb = "judging" THEN discStart' \in 0 .. discStart /\ raced' = TRUE
                      ELSE discStart' = 0 /\ raced' = FALSE

\* ... up to and with that store
MarkConnectedClears ==
    /\ Running /\ mark = "begun"
    /\ mark' = "cleared"
    /\ ever' = 1
    /\ OutageEnds
    /\ lastConnect' = now
    /\ UNCHANGED <<now, inited, timerOn, nextFire, cb, connectedNow, bootTime, lastActivity,
                   file, readResp, rebooting, seen>>
    /\ TrackOutage

\* ... and the rest of it, with the WRITE_VAR that persists the flag.  The first
\* connect of a session task also restarts a running timer (esp_timer_restart), the later
\* ones, of Connect_IHUB, do not.
MarkConnectedEnd ==
    /\ Running /\ mark = "cleared"
    /\ mark' = "idle"
    /\ lastActivity' = now
    /\ file' = [file EXCEPT !.ever = 1]
    /\ nextFire' = nextFire \/ (timerOn /\ nextFire' = now + Interval)
    /\ UNCHANGED <<now, inited, timerOn, cb, connectedNow, ever, bootTime, discStart, readResp,
                   rebooting, lastConnect, seen, raced>>
    /\ TrackOutage

\* iHub_conn_status_set with any other status
MarkDisconnected ==
    /\ Running /\ inited /\ mark = "idle" /\ connectedNow
    /\ connectedNow' = FALSE
    /\ UNCHANGED <<now, inited, timerOn, nextFire, cb, mark, ever, bootTime, discStart,
                   lastActivity, file, readResp, rebooting, lastConnect, seen, raced>>
    /\ TrackOutage

-------------------------------------------------------------------------------

\* connectivity_supervisor_is_armed as the callback runs it: in the boot grace it
\* also refreshes last_successful_activity_us.
Healthy == connectedNow /\ now - lastActivity <= ActTimeout

\* periodic_timer_callback up to the health decision
TimerFires ==
    /\ Running /\ timerOn /\ cb = "idle" /\ now = nextFire
    /\ nextFire' = now + Interval
    /\ bootTime' = IF bootTime = 0 THEN now ELSE bootTime
    /\ \/ /\ InGrace
          /\ lastActivity' = now
          /\ UNCHANGED <<cb, discStart, raced>>
       \/ /\ ~InGrace /\ ever = 0
          /\ UNCHANGED <<cb, discStart, lastActivity, raced>>
       \/ /\ Armed /\ Healthy
          /\ lastActivity' = now /\ discStart' = 0 /\ raced' = FALSE
          /\ UNCHANGED cb
       \/ /\ Armed /\ ~Healthy
          /\ cb' = "unhealthy"
          /\ UNCHANGED <<discStart, lastActivity, raced>>
    /\ UNCHANGED <<now, inited, timerOn, mark, connectedNow, ever, file, readResp,
                   rebooting, lastConnect, seen>>
    /\ TrackOutage

\* Mutant: every unhealthy period starts the outage clock again.
OutageStartAgain == now

OutageStart == IF discStart = 0 THEN now ELSE discStart

\* ... its test of the outage clock, which starts one that does not run
TimerTests ==
    /\ Running /\ cb = "unhealthy"
    /\ cb' = "judging"
    /\ discStart' = OutageStart /\ seen' = discStart'
    /\ raced' = (raced /\ discStart # 0)
    /\ UNCHANGED <<now, inited, timerOn, nextFire, mark, connectedNow, ever, bootTime,
                   lastActivity, file, readResp, rebooting, lastConnect>>
    /\ TrackOutage

\* What the callback takes for the start of the outage: what it has tested; when a connect has
\* stored 0 since, that or whatever the two words are when it reads them again.
Judged == IF discStart = seen THEN {seen} ELSE 0 .. seen

\* ... and its end: reboot when the outage has lasted
TimerJudges ==
    /\ Running /\ cb = "judging"
    /\ cb' = "idle" /\ seen' = 0
    /\ \E start \in Judged :
         IF now - start >= DiscTimeout
         THEN rebooting' = TRUE /\ timerOn' = FALSE
         ELSE UNCHANGED <<rebooting, timerOn>>
    /\ UNCHANGED <<now, inited, nextFire, mark, connectedNow, ever, bootTime, discStart,
                   lastActivity, file, readResp, lastConnect, raced>>
    /\ TrackOutage

\* The watchdog reset that Restart_ESP_Xface waits for: RAM is lost, the file stays.
Reboot ==
    /\ rebooting
    /\ now' = 1 /\ inited' = FALSE /\ timerOn' = FALSE /\ nextFire' = 0
    /\ cb' = "idle" /\ mark' = "idle" /\ connectedNow' = FALSE /\ ever' = 0
    /\ bootTime' = 0 /\ discStart' = 0 /\ lastActivity' = 0
    /\ readResp' = {} /\ rebooting' = FALSE
    /\ seen' = 0 /\ lastConnect' = 0 /\ raced' = FALSE /\ outageSince' = -1
    /\ UNCHANGED file

Next ==
    \/ Tick \/ InitActor \/ ReadResponse
    \/ MarkConnectedBegin \/ MarkConnectedClears \/ MarkConnectedEnd \/ MarkDisconnected
    \/ SetWDT \/ SetEver
    \/ TimerFires \/ TimerTests \/ TimerJudges
    \/ Reboot

Spec == Init /\ [][Next]_vars

-------------------------------------------------------------------------------

FlagsOK ==
    /\ inited \in BOOLEAN /\ timerOn \in BOOLEAN /\ connectedNow \in BOOLEAN
    /\ rebooting \in BOOLEAN /\ raced \in BOOLEAN

\* The type invariant
TypeOK ==
    /\ FlagsOK
    /\ now \in Nat \ {0} /\ nextFire \in Nat
    /\ cb \in {"idle", "unhealthy", "judging"} /\ mark \in {"idle", "begun", "cleared"}
    /\ ever \in {0, 1} /\ file \in FileContents /\ readResp \subseteq FileContents
    /\ bootTime \in Nat /\ discStart \in Nat /\ lastActivity \in Nat
    /\ seen \in Nat /\ lastConnect \in Nat /\ outageSince \in Int

\* periodic_timer_callback never reboots a device less than DiscTimeout after a connect
\* has ended the outage, at whatever step of mark_connected on the other core it comes and
\* however often the watchdog was switched off and on, but for one case that the code
\* has: the connect ends the outage just between the callback's test of disconnect_start_us
\* and its use, where now - 0 may be taken for the length of the outage.
NoEarlyReboot == rebooting => raced \/ now - lastConnect >= DiscTimeout

\* The supervisor cannot be starved of a real outage: once armed with its timer
\* running, an outage it watches without interruption ends in a reboot less
\* than two timer periods after the timeout, whatever discStart an earlier outage left behind.
OutageBounded ==
    ~rebooting /\ outageSince # -1 => now - outageSince < DiscTimeout + 2 * Interval
===============================================================================
