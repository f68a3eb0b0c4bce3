---------------------------- MODULE AnnounceBackoff ----------------------------
(***************************************************************************)
(* The delay before a device announce: src/main/SYSTEM_Actor.c, the case   *)
(* STATE_NTP_SYNC_CHECK of Server_Connect, and its two timers.  Each       *)
(* attempt doubles DEVICE_ANNOUNCE_F_DELAY; a session that stays up for    *)
(* three hours resets it.  While a long delay runs, a five-minute timer    *)
(* counts remaining_time_device_ann down for the user.                     *)
(*                                                                         *)
(* Server_Connect and the timer task run on one core, the timer task with  *)
(* the higher priority: a callback interrupts Server_Connect anywhere, and *)
(* Server_Connect goes on inside a callback only where that may block, in  *)
(* Add_Response_msg.                                                       *)
(*                                                                         *)
(* Time is discrete.  A timer holds the time to its next call, Off if it   *)
(* is stopped; time does not pass a call that is due, nor between the      *)
(* lines of a task that does not wait.                                     *)
(***************************************************************************)
EXTENDS Integers

CONSTANTS
    Start,   \* the delay assumed when it is 0 (5 s)
    Restart, \* the delay after the longest one (10 s)
    Cap,     \* the code sets no longer delay (100000 s)
    UserMax, \* the user may set any uint32_t (2^32 - 1)
    Wrap,    \* vTaskDelay takes 32 bits of ticks: a longer delay starts again from 0 (2^32 / 100 s)
    Tick,    \* the period of periodic_timer_5 (300 s), and the delay from which it runs
    Calm     \* the period of periodic_timer (3 h)

ASSUME DelayAssumption ==
    /\ Start \in Nat \ {0} /\ Restart \in Nat \ {0} /\ Cap \in Nat
    /\ UserMax \in Nat /\ Wrap \in Nat /\ Tick \in Nat \ {0} /\ Calm \in Nat \ {0}
    /\ 2 * Start <= Cap /\ Restart <= Cap /\ Cap <= UserMax /\ Cap < Wrap

VARIABLES
    delay,     \* Device_Announce_F_delay_u32
    skip,      \* Device_Announce_F_delay_Flag_1 is 0: the first attempt does not wait
    sc,        \* where Server_Connect is in the case STATE_NTP_SYNC_CHECK
    temp_d,    \* its local copy of the delay
    left,      \* what is left of the vTaskDelay
    remaining, \* remaining_time_device_ann
    timer5,    \* periodic_timer_5
    cb,        \* its callback: "idle", or "judges" after Add_Response_msg
    timer3h,   \* periodic_timer
    own,       \* history: the code set the delay, not the user
    crossed    \* history: a call came between the store of the count and the test of the timer

server == <<sc, temp_d, left>>
vars == <<delay, skip, sc, temp_d, left, remaining, timer5, cb, timer3h, own, crossed>>

Off == -1

\* The type invariant: whatever the user sets, the code itself sets no delay beyond Cap, and
\* the count is never more than a period below zero.
TypeOK ==
    /\ delay \in 0 .. UserMax /\ temp_d \in 0 .. UserMax /\ (own => delay <= Cap)
    /\ left \in 0 .. Wrap - 1 /\ remaining \in -Tick .. UserMax
    /\ skip \in BOOLEAN /\ own \in BOOLEAN /\ crossed \in BOOLEAN
    /\ sc \in {"idle", "stores", "tests", "starts", "waits", "doubles"}
    /\ cb \in {"idle", "judges"}
    /\ timer5 \in Off .. Tick /\ timer3h \in Off .. Calm

Init ==
    /\ delay = 0 /\ skip = TRUE /\ sc = "idle" /\ temp_d = 0 /\ left = 0 /\ cb = "idle"
    /\ remaining = 0 /\ timer5 = Tick /\ timer3h = Calm /\ own = TRUE /\ crossed = FALSE

\* Mutant: the delay just set is compared, not the one to come.
CompareOld(d) == IF d > Cap THEN Restart ELSE 2 * d

Doubled(d) == IF 2 * d > Cap THEN Restart ELSE 2 * d

\* The first attempt after boot, and one that finds no delay, go on at once.
AttemptAtOnce ==
    /\ sc = "idle" /\ (skip \/ delay = 0)
    /\ temp_d' = IF skip THEN delay ELSE Start
    /\ skip' = FALSE /\ sc' = "doubles"
    /\ UNCHANGED <<delay, left, remaining, timer5, cb, timer3h, own, crossed>>

Waits(d) == sc' = "waits" /\ left' = d % Wrap

\* A delay longer than the timer's period is counted down.
AttemptBegins ==
    /\ sc = "idle" /\ ~skip /\ delay # 0
    /\ temp_d' = delay
    /\ \/ delay > Tick /\ sc' = "stores" /\ UNCHANGED left
       \/ delay <= Tick /\ Waits(delay)
    /\ UNCHANGED <<delay, skip, remaining, timer5, cb, timer3h, own, crossed>>

\* Mutant: a timer that still runs is left to its own count.
KeepCount == remaining' = IF timer5 = Off THEN temp_d ELSE remaining

SetCount == remaining' = temp_d

\* (The store of 64 bits is one step: only a count below zero has an upper word, its timer is
\* stopped, and a call that stops it meanwhile does as it would before the store.)
StoresCount ==
    /\ sc = "stores" /\ sc' = "tests"
    /\ SetCount
    /\ crossed' = FALSE
    /\ UNCHANGED <<delay, skip, temp_d, left, timer5, cb, timer3h, own>>

\* esp_timer_is_active, and vTaskDelay if it is
TestsTimer ==
    /\ sc = "tests"
    /\ \/ timer5 = Off /\ sc' = "starts" /\ UNCHANGED left
       \/ timer5 # Off /\ Waits(temp_d)
    /\ UNCHANGED <<delay, skip, temp_d, remaining, timer5, cb, timer3h, own, crossed>>

StartsTimer ==
    /\ sc = "starts"
    /\ timer5' = Tick /\ Waits(temp_d)
    /\ UNCHANGED <<delay, skip, temp_d, remaining, cb, timer3h, own, crossed>>

\* vTaskDelay has returned: the copy is doubled, whatever happened to the delay meanwhile.
DelayEnds ==
    /\ sc = "doubles" \/ (sc = "waits" /\ left = 0)
    /\ sc' = "idle" /\ delay' = Doubled(temp_d) /\ own' = TRUE
    /\ UNCHANGED <<skip, temp_d, left, remaining, timer5, cb, timer3h, crossed>>

\* periodic_timer_callback_5_Minute, to the message for the user; esp_timer has set the next
\* call before this one
FiveMinutes ==
    /\ timer5 = 0 /\ cb = "idle"
    /\ \/ remaining = 0 /\ timer5' = Off /\ UNCHANGED <<remaining, cb, crossed>>
       \/ /\ remaining # 0 /\ remaining' = remaining - Tick
          /\ timer5' = Tick /\ cb' = "judges" /\ crossed' = (crossed \/ sc = "tests")
    /\ UNCHANGED <<delay, skip, server, timer3h, own>>

\* Mutant: the timer runs on until a call finds nothing left.
RunOn == UNCHANGED timer5

\* The timer stops itself when less than a period is left.
StopAtLast == timer5' = IF remaining < Tick THEN Off ELSE timer5

\* ... and to its end
Judges ==
    /\ cb = "judges" /\ cb' = "idle"
    /\ StopAtLast
    /\ UNCHANGED <<delay, skip, server, remaining, timer3h, own, crossed>>

\* periodic_timer_callback, in the same task
ThreeHours ==
    /\ timer3h = 0 /\ cb = "idle"
    /\ delay' = 0 /\ remaining' = 0 /\ timer3h' = Off /\ own' = TRUE
    /\ UNCHANGED <<skip, server, timer5, cb, crossed>>

\* IHUB_CONNECTION_STATUS CONNECTED starts the three hours; DISCONNECTED of IHUB or of
\* WIFI stops them.
SessionStarts ==
    /\ timer3h = Off /\ timer3h' = Calm
    /\ UNCHANGED <<delay, skip, server, remaining, timer5, cb, own, crossed>>

SessionEnds ==
    /\ timer3h # Off /\ timer3h' = Off
    /\ UNCHANGED <<delay, skip, server, remaining, timer5, cb, own, crossed>>

\* SET of DEVICE_ANNOUNCE_F_DELAY: what atoi makes of the text, unchecked
UserSets ==
    /\ delay' \in 0 .. UserMax /\ own' = FALSE
    /\ UNCHANGED <<skip, server, remaining, timer5, cb, timer3h, crossed>>

\* A unit of time
Passes ==
    /\ sc = "idle" \/ (sc = "waits" /\ left > 0)
    /\ cb = "idle" /\ timer5 # 0 /\ timer3h # 0
    /\ left' = IF sc = "waits" THEN left - 1 ELSE left
    /\ timer5' = IF timer5 = Off THEN Off ELSE timer5 - 1
    /\ timer3h' = IF timer3h = Off THEN Off ELSE timer3h - 1
    /\ UNCHANGED <<delay, skip, sc, temp_d, remaining, cb, own, crossed>>

Next ==
    \/ AttemptAtOnce \/ AttemptBegins \/ StoresCount \/ TestsTimer \/ StartsTimer \/ DelayEnds
    \/ FiveMinutes \/ Judges \/ ThreeHours \/ SessionStarts \/ SessionEnds \/ UserSets \/ Passes

Spec == Init /\ [][Next]_vars

-------------------------------------------------------------------------------
(* Properties                                                              *)

\* The delay is counted down, and vTaskDelay waits as long as it says.
Counted == temp_d > Tick /\ temp_d < Wrap

\* The countdown told to the user is right to within a period of its timer, also when that
\* timer still ran from before, when a call comes while the delay begins, or when the three
\* hours end meanwhile (then nothing is told).
CountdownIsTrue ==
    sc = "waits" /\ Counted /\ remaining # 0 => remaining - left \in -Tick .. Tick

\* A timer that runs between its calls has a whole period to subtract, or nothing, so that no
\* count is told below zero (remaining_time_device_ann is signed).  One order breaks this: a
\* call between the store of a new count and the test of the timer stops it when the new
\* delay is less than two periods, and Server_Connect starts it again with the rest.
CountdownStops == timer5 # Off /\ cb = "idle" /\ remaining # 0 /\ ~crossed => remaining >= Tick
=============================================================================
