------------------------------ MODULE EventCheck ------------------------------
(***************************************************************************)
(* The schedule of the lights: src/main/EVENT_Actor.c.  Tasks_EventCheck   *)
(* looks at the clock every 200 ms and once a minute goes twice through    *)
(* Schedule_table: it finds the lowest SortOrder of the records due in     *)
(* this minute, then sends every due record of that order to the task that *)
(* executes scripts.  Update_Schedule_Table refills the table meanwhile,   *)
(* row by row and without the check task's knowledge (the mutex is         *)
(* commented out there), and the actor's monitor task, on the other core,  *)
(* writes the clock reading, the sunset, the time warp and the flag that   *)
(* both tasks use.                                                         *)
(*                                                                         *)
(* Minutes are counted from 1; a minute has an early phase, its first six  *)
(* seconds, and a late one.  The date range and the week days of a record  *)
(* are the sets of days they allow; sunrise is treated as sunset is.       *)
(***************************************************************************)
EXTENDS Integers, Sequences

CONSTANTS
    Rows,       \* MAX_EVENT_ORDER, 400
    IndexRange, \* what a uint8_t EventOrder can tell apart, 256
    Day,        \* minutes of a day
    LastOrder,  \* what priority_number starts from, 100
    SunOf,      \* external: the minute the sun sets, per day
    Schedules,  \* external: the contents Schedule.db may have
    Warps,      \* external: the minutes a TIMEWARP may begin or end with
    MaxMinute,  \* bound on the clock
    MaxCommands \* bound on the commands the monitor takes; INIT counts for none, GET_RTC_TIME for two

\* What a row holds; `at' is the minute of the day, or the offset from the sunset.
Record == [script : Nat, sun : BOOLEAN, at : Int, order : Nat, range : SUBSET Nat, week : SUBSET Nat]

ASSUME EventCheckAssumption ==
    /\ Rows \in Nat \ {0} /\ IndexRange \in Nat \ {0} /\ Day \in Nat \ {0} /\ LastOrder \in Nat \ {0}
    /\ MaxMinute \in Nat \ {0} /\ MaxCommands \in Nat
    /\ SunOf \in [0 .. MaxMinute \div Day -> 0 .. Day - 1]
    /\ Schedules \subseteq Seq(Record) /\ Warps \subseteq 0 .. MaxMinute

VARIABLES
    clock,    \* the real time
    now,      \* UserDateTime_1
    pc,       \* where Tasks_EventCheck is
    i,        \* schedule_record
    order,    \* priority_number
    times,    \* Event_Hour and Event_Minute
    today,    \* CurrentTotalDays
    prev,     \* prevDD
    done,     \* executedThisMinute
    table,    \* Schedule_table
    sun,      \* Str_SS_SR
    flag,     \* Event_Execution_Flag
    warp,     \* startEPOC1, 0 when no time warp runs
    warpEnd,  \* endEPOC1
    rtc,      \* where GET_RTC_TIME is, and its reading
    reload,   \* where Update_Schedule_Table is
    commands, \* how many commands have been taken
    polled,   \* the clock has been looked at in this phase
    lost,     \* an access beyond the table: from then on C promises nothing
    real,     \* history: the last poll read the real time
    shown,    \* history: the time that `now' shows, unless it was disturbed
    lastRun,  \* history: the last real minute worked for
    sent,     \* history: how often each row was sent for it
    renewed,  \* history: since it began the task was restarted, time warped, or `now' disturbed
    steady,   \* history: nothing the round reads has changed since its poll
    watching, \* history: since the end of the last minute the task has been polling the real time
    meanwhile, \* history: what TIMEWARP has done since the last poll
    message,  \* history: the message being sent
    full      \* history: a record was stored in the last row

taskVars == <<pc, i, order, times, today, prev, done>>
sharedVars == <<now, table, sun, flag, warp, warpEnd>>
outerVars == <<rtc, reload, commands>>
pastVars == <<real, shown, lastRun, sent, renewed, steady, watching, meanwhile, message>>
tableVars == <<lost, full>>
vars == <<clock, polled, taskVars, sharedVars, outerVars, pastVars, tableVars>>

Minutes == 0 .. MaxMinute
DayOf(m) == m \div Day
Days == 0 .. MaxMinute \div Day
Never == 0 - 1
Empty == [script |-> 0, sun |-> FALSE, at |-> 0, order |-> 0, range |-> {}, week |-> {}]
NoMessage == [simulated |-> FALSE, marked |-> FALSE, meanwhile |-> "none"]
\* Where the check task is between its reading of the time and its last message.
Turn == {"judge", "scan", "send", "delay"}

Unsent == [r \in 1 .. Rows |-> 0]
NoReload == [at |-> "none", row |-> 1, rows |-> <<>>]
Asking == [NoReload EXCEPT !.at = "asking"]
NoRtc == [at |-> "none", reads |-> [day |-> 0, time |-> 0, late |-> FALSE]]

\* A time as the fields of UserDateTime_1 show it: the date, the hour and minute, the second.
Shown(c) == [day |-> DayOf(c.minute), time |-> c.minute % Day, late |-> c.late]

\* A record the reload has begun: ScriptID is stored before everything the scans look at.
Half(r) ==
    [script |-> r.script, sun |-> FALSE, at |-> 0, order |-> 0, range |-> {}, week |-> {}]

\* Event_Hour and Event_Minute of a record.  C divides towards zero: of a negative sum one of the
\* two is out of range, in the unsigned Event_Hour or in Event_Minute, and never met.
EventTime(r, sunset) ==
    IF ~r.sun THEN r.at
    ELSE IF sunset + r.at < 0 THEN Never ELSE (sunset + r.at) % Day

-----------------------------------------------------------------------------

\* The monitor has taken what the console sends at the boot: INIT and UPDATE_SCH_TABLE.
Init ==
    /\ clock = [minute |-> 1, late |-> FALSE] /\ now = Shown(clock)
    /\ pc = "sync" /\ i = 1 /\ order = LastOrder /\ times = Unsent /\ today = 0 /\ prev = Never
    /\ done = FALSE
    /\ table = [r \in 1 .. Rows |-> Empty] /\ sun = 0
    /\ flag = TRUE /\ warp = 0 /\ warpEnd = 0
    /\ rtc = NoRtc /\ reload = Asking /\ commands = 0
    /\ polled = FALSE /\ real = TRUE /\ shown = clock /\ lastRun = 0 /\ sent = Unsent
    /\ renewed = FALSE /\ steady = FALSE /\ watching = FALSE /\ meanwhile = "none"
    /\ message = NoMessage /\ lost = FALSE /\ full = FALSE

-----------------------------------------------------------------------------
(***************************************************************************)
(* Time goes on whatever the tasks do.  A task that polls every 200 ms     *)
(* looks at the clock in each phase; that it does is no guard of the clock *)
(* but what `watching' requires.                                           *)
(***************************************************************************)

Tick ==
    /\ clock.late => clock.minute < MaxMinute
    /\ clock' = [minute |-> IF clock.late THEN clock.minute + 1 ELSE clock.minute,
                 late |-> ~clock.late]
    /\ polled' = FALSE
    /\ watching' = (polled /\ IF clock.late THEN pc = "poll" /\ warp = 0 ELSE watching)
    /\ UNCHANGED <<taskVars, sharedVars, outerVars, tableVars, real, shown, lastRun, sent, renewed,
                   steady, meanwhile, message>>

-----------------------------------------------------------------------------
(***************************************************************************)
(* Tasks_EventCheck.                                                       *)
(***************************************************************************)

\* "RTC is set and events are enabled."
Synced ==
    /\ pc = "sync"
    /\ pc' = IF flag THEN "poll" ELSE "none"
    /\ UNCHANGED <<clock, polled, i, order, times, today, prev, done, sharedVars, outerVars, pastVars,
                   tableVars>>

Exit ==
    /\ pc' = "none" /\ watching' = FALSE /\ message' = NoMessage
    /\ UNCHANGED <<clock, polled, i, order, times, today, prev, done, sharedVars, outerVars,
                   real, shown, lastRun, sent, renewed, steady, meanwhile, tableVars>>

PollsDisabled == pc = "poll" /\ ~flag /\ Exit

\* The reading the turn works with.
Reading == IF warp = 0 THEN Shown(clock) ELSE Shown([minute |-> warp, late |-> FALSE])

\* The clock or the time warp is read and stored in UserDateTime_1, where everything after looks.
Polls ==
    /\ pc = "poll" /\ flag
    /\ now' = Reading /\ order' = LastOrder /\ pc' = "judge"
    /\ real' = (warp = 0) /\ shown' = IF warp = 0 THEN clock ELSE shown
    /\ steady' = TRUE /\ meanwhile' = "none"
    /\ UNCHANGED <<clock, polled, i, times, today, prev, done, table, sun, flag, warp, warpEnd,
                   outerVars, lastRun, sent, renewed, watching, message, tableVars>>

\* Mutant: the round of the minute is not remembered.
MayRunAgain == ~now.late

MayRun == ~now.late /\ ~done

\* The clock has been looked at in this phase by a turn that comes to a decision in it.
Judges == pc = "judge" /\ polled' = (polled \/ now = Shown(clock))

\* There is nothing to do.
PollsIdle ==
    /\ Judges /\ ~MayRun
    /\ pc' = "end"
    /\ UNCHANGED <<clock, i, order, times, today, prev, done, sharedVars, outerVars, pastVars,
                   tableVars>>

\* The round of a minute begins; a real one asks for the sunset first.
Begins ==
    /\ Judges /\ MayRun
    /\ pc' = "scan" /\ i' = 1 /\ done' = TRUE /\ today' = now.day
    /\ sun' = IF warp = 0 THEN SunOf[now.day] ELSE sun
    /\ IF real
       THEN /\ lastRun' = shown.minute
            /\ sent' = IF shown.minute = lastRun THEN sent ELSE Unsent
            /\ renewed' = (renewed /\ (shown.minute = lastRun \/ ~steady))
       ELSE UNCHANGED <<lastRun, sent, renewed>>
    /\ UNCHANGED <<clock, order, times, prev, now, table, flag, warp, warpEnd, outerVars, real, shown,
                   steady, watching, meanwhile, message, tableVars>>

\* Mutant: the loops go on to the end of the table.
AtAnyRow == i <= Rows

\* The loops go on while ScriptID is not 0, and know no other end.  That of the word behind the
\* table may be 0 and end them; `Overruns' is when it is not.
AtRow == i <= Rows /\ table[i].script # 0

Overruns ==
    /\ pc \in {"scan", "send"} /\ i = Rows + 1
    /\ lost' = TRUE
    /\ UNCHANGED <<clock, polled, taskVars, sharedVars, outerVars, pastVars, full>>

\* Start_EpochDay and Stop_EpochDay take the row as a uint8_t: of row 257 they see the first.
DateRow(r) == ((r - 1) % IndexRange) + 1
InRange == today \in table[DateRow(i)].range
InForce == InRange /\ today \in table[i].week
Minute == now.time

\* The sunset is computed anew by the first record in its range on a new day, if it is a sunset record.
SunSeen ==
    IF InRange /\ table[i].sun /\ prev # now.day THEN SunOf[now.day] ELSE sun
TimeSeen == IF InRange \/ ~table[i].sun THEN EventTime(table[i], SunSeen) ELSE 0

\* Mutant: the order 0 of an unused record counts.
IsLowerOrZero == InForce /\ TimeSeen = Minute /\ table[i].order <= order

IsLower ==
    InForce /\ TimeSeen = Minute /\ table[i].order <= order /\ table[i].order # 0 /\ order # 0

\* One turn of the first loop, which looks for the order to execute.
Scans ==
    /\ pc = "scan" /\ AtRow
    /\ times' = [times EXCEPT ![i] = TimeSeen]
    /\ sun' = SunSeen
    /\ prev' = IF InRange THEN now.day ELSE prev
    /\ order' = IF IsLower THEN table[i].order ELSE order
    /\ IF flag THEN pc' = pc /\ i' = i + 1 /\ watching' = watching
               ELSE pc' = "none" /\ i' = i /\ watching' = FALSE
    /\ UNCHANGED <<clock, polled, today, done, now, table, flag, warp, warpEnd, outerVars, real,
                   shown, lastRun, sent, renewed, steady, meanwhile, message, tableVars>>

ScanEnds ==
    /\ pc = "scan" /\ ~AtRow
    /\ pc' = "send" /\ i' = 1
    /\ UNCHANGED <<clock, polled, order, times, today, prev, done, sharedVars, outerVars, pastVars,
                   tableVars>>

Chosen == AtRow /\ InForce /\ times[i] = Minute /\ table[i].order = order

\* Mutant: the last minute of a time warp is left out.
MarkedButLast == warp # 0 /\ warp < warpEnd

\* "NotToExecute" of a message.
Marked == warp # 0

\* One turn of the second loop that sends its record, and the sunset of the day to the console;
\* the task then waits 500 ms.
Sends ==
    /\ pc = "send" /\ Chosen
    /\ pc' = "delay" /\ sun' = SunOf[now.day]
    /\ sent' = IF real THEN [sent EXCEPT ![i] = @ + 1] ELSE sent
    /\ message' = [simulated |-> ~real, marked |-> Marked, meanwhile |-> meanwhile]
    /\ UNCHANGED <<clock, polled, i, order, times, today, prev, done, now, table, flag, warp, warpEnd,
                   outerVars, real, shown, lastRun, renewed, steady, watching, meanwhile, tableVars>>

NextRow ==
    /\ flag
    /\ pc = "delay" \/ (pc = "send" /\ AtRow /\ ~Chosen)
    /\ pc' = "send" /\ i' = i + 1 /\ message' = NoMessage
    /\ UNCHANGED <<clock, polled, order, times, today, prev, done, sharedVars, outerVars, real, shown,
                   lastRun, sent, renewed, steady, watching, meanwhile, tableVars>>

RowSeesDisabled ==
    /\ ~flag
    /\ pc = "delay" \/ (pc = "send" /\ ~Chosen)
    /\ Exit

RoundEnds ==
    /\ pc = "send" /\ ~AtRow /\ flag
    /\ pc' = "ran"
    /\ UNCHANGED <<clock, polled, i, order, times, today, prev, done, sharedVars, outerVars, pastVars,
                   tableVars>>

\* Mutant: only a time warp makes the task ready for the next minute.
RearmedByWarp == warp # 0

Rearmed == now.late \/ warp # 0

\* Mutant: the end is compared for equality.
WarpMeetsEnd == warp + 1 = warpEnd

WarpIsOver == warp + 1 >= warpEnd

\* A time warp goes on by a minute with every turn of the task, until it is over.
TurnEnds ==
    /\ pc \in {"ran", "end"}
    /\ pc' = "poll"
    /\ done' = IF Rearmed THEN FALSE ELSE done
    /\ warp' = IF warp = 0 \/ WarpIsOver THEN 0 ELSE warp + 1
    /\ warpEnd' = IF warp # 0 /\ WarpIsOver THEN 0 ELSE warpEnd
    /\ UNCHANGED <<clock, polled, i, order, times, today, prev, now, table, sun, flag, outerVars,
                   pastVars, tableVars>>

-----------------------------------------------------------------------------
(***************************************************************************)
(* The commands of the monitor task.                                       *)
(***************************************************************************)

Command(n) == rtc.at = "none" /\ commands + n <= MaxCommands /\ commands' = commands + n

\* INIT: the task is created if its handle is NULL.
Initialise ==
    /\ rtc.at = "none" /\ pc = "none"
    /\ pc' = "sync" /\ i' = 1 /\ order' = LastOrder /\ times' = Unsent /\ today' = 0
    /\ prev' = Never /\ done' = FALSE
    /\ renewed' = TRUE
    /\ UNCHANGED <<clock, polled, sharedVars, outerVars, real, shown, lastRun, sent, steady, watching,
                   meanwhile, message, tableVars>>

\* SETEVTTASKFG, from an update of the firmware.
SetFlag ==
    /\ Command(1) /\ flag' = ~flag
    /\ UNCHANGED <<clock, polled, taskVars, now, table, sun, warp, warpEnd, rtc, reload, pastVars,
                   tableVars>>

\* TIMEWARP with a startEPOC, which is stored at any time and whatever it is: less than a minute
\* is rounded to 0 and cancels the warp.  What it was before the rounding is left out.
WarpStarts ==
    /\ Command(1)
    /\ warp' \in Warps
    /\ renewed' = TRUE /\ steady' = FALSE /\ watching' = FALSE /\ polled' = FALSE
    /\ meanwhile' = IF pc \notin Turn THEN meanwhile
                    ELSE IF warp' = 0 THEN "cancel" ELSE "start"
    /\ UNCHANGED <<clock, taskVars, now, table, sun, flag, warpEnd, rtc, reload, real, shown,
                   lastRun, sent, message, tableVars>>

\* TIMEWARP with an endEPOC; with both it is one after the other.
WarpEnds ==
    /\ Command(1)
    /\ warpEnd' \in Warps
    /\ UNCHANGED <<clock, polled, taskVars, now, table, sun, flag, warp, rtc, reload, pastVars,
                   tableVars>>

\* GET_RTC_TIME reads the clock; what it has read it stores later, field by field, where the check
\* task has its own reading.
GetRtcTime ==
    /\ Command(2)
    /\ rtc' = [at |-> "time", reads |-> Shown(clock)]
    /\ UNCHANGED <<clock, polled, taskVars, sharedVars, reload, pastVars, tableVars>>

\* A store into UserDateTime_1, of one of the values `fields'; the check task's own store may come
\* after it.  It disturbs the turn if what is shown then is neither what it was nor the clock.
Lands(next, fields) ==
    /\ now' \in fields \cup (IF pc = "judge" THEN {now} ELSE {})
    /\ rtc' = [rtc EXCEPT !.at = next]
    /\ shown' = IF now' = Shown(clock) THEN clock ELSE shown
    /\ steady' = (steady /\ now' = now)
    /\ LET disturbs == now' \notin {now, Shown(clock)} /\ pc # "poll"
       IN  /\ renewed' = (renewed \/ disturbs)
           /\ watching' = (watching /\ ~disturbs)
           /\ polled' = (polled /\ ~disturbs)
    /\ UNCHANGED <<clock, taskVars, table, sun, flag, warp, warpEnd, reload, commands, real,
                   lastRun, sent, meanwhile, message, tableVars>>

\* The new hour with the old minute is another time of the day, the new month with the old date
\* another day: any, as long as what is to be stored differs from what is there.
RtcTime ==
    /\ rtc.at = "time"
    /\ \/ Lands("second", {[now EXCEPT !.time = rtc.reads.time]})
       \/ now.time # rtc.reads.time /\ Lands("time", {[now EXCEPT !.time = t] : t \in 0 .. Day - 1})

RtcSecond == rtc.at = "second" /\ Lands("date", {[now EXCEPT !.late = rtc.reads.late]})

RtcDate ==
    /\ rtc.at = "date"
    /\ \/ Lands("sun", {[now EXCEPT !.day = rtc.reads.day]})
       \/ now.day # rtc.reads.day /\ Lands("date", {[now EXCEPT !.day = d] : d \in Days})

\* CalculateSunsetTime is for the date it finds there, earlier or later.
RtcSun ==
    /\ rtc.at = "sun" /\ rtc' = NoRtc
    /\ \E d \in {rtc.reads.day, now.day} : sun' = SunOf[d]
    /\ steady' = (steady /\ sun' = sun)
    /\ UNCHANGED <<clock, polled, taskVars, now, table, flag, warp, warpEnd, reload, commands, real,
                   shown, lastRun, sent, renewed, watching, meanwhile, message, tableVars>>

\* UPDATE_SCH_TABLE, when a schedule was downloaded; a reload that still runs keeps its task.
UpdateSchedule ==
    /\ Command(1) /\ rtc' = rtc
    /\ reload' = IF flag /\ reload.at = "none" THEN Asking ELSE reload
    /\ UNCHANGED <<clock, polled, taskVars, sharedVars, pastVars, tableVars>>

-----------------------------------------------------------------------------
(***************************************************************************)
(* Update_Schedule_Table.  Every answer may fail to come.                  *)
(***************************************************************************)

\* The flag, the size of the file or its first and last row end it before it touches the table.
ReloadFails ==
    /\ reload.at = "asking"
    /\ reload' = NoReload
    /\ UNCHANGED <<clock, polled, taskVars, sharedVars, rtc, commands, pastVars, tableVars>>

\* A poll that has not come to its decision has not looked at the table.
ReloadTable(rows) ==
    /\ table' = rows /\ steady' = (steady /\ pc = "judge")
    /\ UNCHANGED <<clock, polled, taskVars, now, sun, flag, warp, warpEnd, rtc, commands, real,
                   shown, lastRun, sent, renewed, watching, meanwhile, message, lost>>

ReloadClears ==
    /\ reload.at = "asking"
    /\ \E rows \in Schedules : reload' = [at |-> "rows", row |-> 1, rows |-> rows]
    /\ ReloadTable([r \in 1 .. Rows |-> Empty]) /\ full' = full

RowBegins ==
    /\ reload.at = "rows" /\ reload.row <= Len(reload.rows) /\ reload.row <= Rows
    /\ reload' = [reload EXCEPT !.at = "half"]
    /\ ReloadTable([table EXCEPT ![reload.row] = Half(reload.rows[reload.row])])
    /\ full' = (full \/ reload.row = Rows)

RowEnds ==
    /\ reload.at = "half"
    /\ reload' = [reload EXCEPT !.at = "rows", !.row = @ + 1]
    /\ ReloadTable([table EXCEPT ![reload.row] = reload.rows[reload.row]]) /\ full' = full

\* The schedule has more rows than the table.
ReloadOverruns ==
    /\ reload.at = "rows" /\ reload.row <= Len(reload.rows) /\ reload.row > Rows
    /\ lost' = TRUE
    /\ UNCHANGED <<clock, polled, taskVars, sharedVars, outerVars, pastVars, full>>

\* The last row is stored, or a row has not come in 50 seconds.
ReloadEnds ==
    /\ reload.at = "rows"
    /\ reload' = NoReload
    /\ UNCHANGED <<clock, polled, taskVars, sharedVars, rtc, commands, pastVars, tableVars>>

-----------------------------------------------------------------------------

Check ==
    \/ Synced \/ PollsDisabled \/ Polls \/ PollsIdle \/ Begins \/ Scans \/ ScanEnds \/ Sends
    \/ NextRow \/ RowSeesDisabled \/ RoundEnds \/ TurnEnds \/ Overruns

Monitor ==
    \/ Initialise \/ SetFlag \/ WarpStarts \/ WarpEnds \/ UpdateSchedule
    \/ GetRtcTime \/ RtcTime \/ RtcSecond \/ RtcDate \/ RtcSun

Reload ==
    ReloadFails \/ ReloadClears \/ RowBegins \/ RowEnds \/ ReloadOverruns \/ ReloadEnds

Next == ~lost /\ (Tick \/ Check \/ Monitor \/ Reload)

Spec == Init /\ [][Next]_vars

-----------------------------------------------------------------------------
(***************************************************************************)
(* Properties.                                                             *)
(***************************************************************************)

Clock == [minute : Minutes, late : BOOLEAN]
Fields == [day : Days, time : 0 .. Day - 1, late : BOOLEAN]

TaskOK ==
    /\ pc \in {"none", "sync", "poll", "judge", "scan", "send", "delay", "ran", "end"}
    /\ i \in 1 .. Rows + 1 /\ order \in 0 .. LastOrder /\ today \in Days
    /\ pc = "delay" => i <= Rows
    /\ times \in [1 .. Rows -> Int] /\ prev \in Int /\ done \in BOOLEAN

SharedOK ==
    /\ now \in Fields /\ table \in [1 .. Rows -> Record] /\ sun \in Int /\ flag \in BOOLEAN
    /\ warp \in Minutes /\ warpEnd \in Minutes

OuterOK ==
    /\ rtc \in [at : {"none", "time", "second", "date", "sun"}, reads : Fields]
    /\ reload \in [at : {"none", "asking", "rows", "half"}, row : 1 .. Rows + 1,
                   rows : Schedules \cup {<<>>}]
    /\ reload.at = "half" => reload.row <= Len(reload.rows) /\ reload.row <= Rows
    /\ commands \in 0 .. MaxCommands

Meanwhile == {"none", "start", "cancel"}

PastOK ==
    /\ real \in BOOLEAN /\ renewed \in BOOLEAN /\ steady \in BOOLEAN /\ watching \in BOOLEAN
    /\ shown \in Clock /\ lastRun \in Minutes /\ sent \in [1 .. Rows -> Nat]
    /\ meanwhile \in Meanwhile
    /\ message \in [simulated : BOOLEAN, marked : BOOLEAN, meanwhile : Meanwhile]

\* Every value a step of the two tasks stores is one its variable can hold; a time warp ends before
\* it runs past its end.
TypeOK ==
    /\ clock \in Clock /\ polled \in BOOLEAN /\ lost \in BOOLEAN /\ full \in BOOLEAN
    /\ TaskOK /\ SharedOK /\ OuterOK /\ PastOK

\* Neither the loops nor the reload leave Schedule_table, which none of them checks, as long as no
\* schedule with a record for its last row was stored.  With one the program may overrun it.
KeepsToTable == lost => full

\* No record is sent twice for one minute, however long the sending takes and whatever the reload
\* changes meanwhile: unless in that minute the task was restarted, or a time warp was asked for,
\* which clear executedThisMinute, or GET_RTC_TIME stored a time that was over, or half of one,
\* while the task was working with its own.
OncePerMinute == ~renewed => \A r \in 1 .. Rows : sent[r] <= 1

\* A script sent for a minute of a time warp carries NotToExecute, so the lights do not follow a
\* simulation, and one sent for the real time does not: unless since the clock was read TIMEWARP
\* has cancelled the warp, or started one.
SimulationIsMarked ==
    /\ message.simulated /\ ~message.marked => message.meanwhile = "cancel"
    /\ message.marked /\ ~message.simulated => message.meanwhile = "start"

\* The scans stop at the first unused row.
Visible(t, r) == \A q \in 1 .. r : t[q].script # 0

Due(t, r, m) ==
    /\ Visible(t, r) /\ DayOf(m) \in t[r].range \cap t[r].week /\ t[r].order \in 1 .. LastOrder
    /\ EventTime(t[r], SunOf[DayOf(m)]) = m % Day

\* What a schedule asks for in a minute: of the records due, those of the lowest order from 1.
Asked(t, m) ==
    {r \in 1 .. Rows :
        Due(t, r, m) /\ \A q \in 1 .. Rows : Due(t, q, m) => t[r].order <= t[q].order}

\* The schedule has no more records than a uint8_t tells apart.
Countable(t) == \A r \in 1 .. Rows : Visible(t, r) => r <= IndexRange

\* A round that worked for the real time and under which nothing changed has sent what the
\* schedule asks for, no more and no less: no order left over from the round before, no sunset of
\* another day, and a record of the same order is not stopped by the first.
RoundIsRight ==
    pc = "ran" /\ real /\ steady /\ ~renewed /\ Countable(table)
        => {r \in 1 .. Rows : sent[r] > 0} = Asked(table, lastRun)

\* No minute passes without its round while the task has been polling the real time since the end
\* of the minute before, undisturbed by GET_RTC_TIME: executedThisMinute is always cleared by then.
EveryMinuteRuns ==
    [][clock'.minute # clock.minute /\ watching => lastRun = clock.minute]_vars

=============================================================================
