--------------------------- MODULE EventCheckProofs ---------------------------
(* Proofs about the schedule of the lights, for every schedule and every length of a day. *)
EXTENDS EventCheck, TLAPS

USE EventCheckAssumption

\* The day of a minute is one whose sunset is known.
LEMMA DayKnown == ASSUME NEW m \in Minutes PROVE DayOf(m) \in Days
BY DEF Minutes, DayOf, Days

LEMMA SunKnown == ASSUME NEW d \in Days PROVE SunOf[d] \in Int /\ d \in Nat
BY DEF Days

\* What UserDateTime_1 shows of a time.
LEMMA ShownTyped == ASSUME NEW c \in Clock PROVE Shown(c) \in Fields
<1>1. c.minute \in Minutes /\ c.late \in BOOLEAN /\ c.minute \in Int
  BY DEF Clock, Minutes
<1>2. DayOf(c.minute) \in Days
  BY <1>1, DayKnown
<1>3. c.minute % Day \in 0 .. Day - 1
  BY <1>1
<1> QED
  BY <1>1, <1>2, <1>3 DEF Shown, Fields

\* The time a record asks for is a number, also the one never met.
LEMMA TimeTyped == ASSUME NEW r \in Record, NEW s \in Int PROVE EventTime(r, s) \in Int
BY DEF EventTime, Record, Never

LEMMA EmptyTyped == /\ Empty \in Record
                   /\ Unsent \in [1 .. Rows -> Nat] /\ Unsent \in [1 .. Rows -> Int]
BY DEF Empty, Record, Unsent

\* What the locals of the task are when it is created.
LEMMA LocalsTyped ==
    1 \in 1 .. Rows + 1 /\ LastOrder \in 0 .. LastOrder /\ Never \in Int /\ 0 \in Days
BY DayKnown DEF Never, Days, Minutes

LEMMA HalfTyped == ASSUME NEW r \in Record PROVE Half(r) \in Record
BY DEF Half, Record

LEMMA ReadingTyped == ASSUME TypeOK PROVE Reading \in Fields
<1>1. clock \in Clock /\ [minute |-> warp, late |-> FALSE] \in Clock
  BY DEF TypeOK, SharedOK, Clock
<1> QED
  BY <1>1, ShownTyped DEF Reading

\* Of each group of variables: what a step leaves alone keeps its type.
LEMMA TaskStays == ASSUME TaskOK, UNCHANGED taskVars PROVE TaskOK'
BY DEF TaskOK, taskVars

LEMMA SharedStays == ASSUME SharedOK, UNCHANGED sharedVars PROVE SharedOK'
BY DEF SharedOK, sharedVars

\* What GET_RTC_TIME and the reload are at when they begin.
LEMMA OutersTyped ==
    /\ NoRtc.reads \in Fields /\ NoRtc.at = "none" /\ NoReload = [at |-> "none", row |-> 1, rows |-> <<>>]
    /\ Asking = [at |-> "asking", row |-> 1, rows |-> <<>>]
    /\ NoRtc \in [at : {"none", "time", "second", "date", "sun"}, reads : Fields]
    /\ NoMessage \in [simulated : BOOLEAN, marked : BOOLEAN, meanwhile : Meanwhile]
BY LocalsTyped DEF NoRtc, NoReload, Asking, Fields, NoMessage, Meanwhile

LEMMA OuterStays == ASSUME OuterOK, UNCHANGED outerVars PROVE OuterOK'
BY DEF OuterOK, outerVars

\* A step of the reload leaves the command alone, and the commands the reload.
LEMMA RtcStays ==
    ASSUME OuterOK, rtc' \in [at : {"none", "time", "second", "date", "sun"}, reads : Fields],
           reload' = reload, commands' \in 0 .. MaxCommands
    PROVE  OuterOK'
BY DEF OuterOK

LEMMA PastStays == ASSUME PastOK, UNCHANGED pastVars PROVE PastOK'
BY DEF PastOK, pastVars

-----------------------------------------------------------------------------

LEMMA InitTyped == ASSUME Init PROVE TypeOK
<1> USE DEF Init
<1>0. 1 \in Minutes /\ 0 \in Minutes
  BY DEF Minutes
<1>1. clock \in Clock /\ polled \in BOOLEAN /\ lost \in BOOLEAN /\ full \in BOOLEAN
  BY <1>0 DEF Clock
<1>2. TaskOK
  BY EmptyTyped, LocalsTyped DEF TaskOK
<1>3. SharedOK
  BY <1>0, <1>1, EmptyTyped, ShownTyped DEF SharedOK
<1>4. OuterOK
  BY OutersTyped, LocalsTyped DEF OuterOK
<1>5. PastOK
  BY <1>0, <1>1, EmptyTyped, OutersTyped DEF PastOK, Meanwhile
<1> QED
  BY <1>1, <1>2, <1>3, <1>4, <1>5 DEF TypeOK

LEMMA TickTyped == ASSUME TypeOK, Tick PROVE TypeOK'
<1>1. clock' \in Clock
  BY DEF Tick, TypeOK, Clock, Minutes
<1>2. watching' \in BOOLEAN
  BY Zenon DEF Tick, TypeOK, PastOK
<1>3. PastOK'
  BY <1>2 DEF Tick, TypeOK, PastOK
<1> QED
  BY <1>1, <1>3, TaskStays, SharedStays, OuterStays DEF Tick, TypeOK, tableVars

\* A decision of the check task leaves the flags Boolean.
LEMMA JudgesTyped == ASSUME TypeOK, Judges PROVE polled' \in BOOLEAN
BY Zenon DEF Judges, TypeOK

LEMMA CheckTyped == ASSUME TypeOK, Check PROVE TypeOK'
<1> USE DEF TypeOK, tableVars
<1>1. CASE Synced
  <2>1. TaskOK'
    BY <1>1 DEF Synced, TaskOK
  <2> QED
    BY <1>1, <2>1, SharedStays, OuterStays, PastStays DEF Synced
<1>2. CASE PollsDisabled \/ RowSeesDisabled
  <2>0. Exit
    BY <1>2 DEF PollsDisabled, RowSeesDisabled
  <2>1. TaskOK' /\ PastOK'
    BY <2>0, OutersTyped DEF Exit, TaskOK, PastOK
  <2> QED
    BY <2>0, <2>1, SharedStays, OuterStays DEF Exit
<1>3. CASE Polls
  <2>1. TaskOK' /\ SharedOK'
    BY <1>3, ReadingTyped, LocalsTyped DEF Polls, TaskOK, SharedOK
  <2>2. PastOK'
    BY <1>3 DEF Polls, PastOK, Meanwhile
  <2> QED
    BY <1>3, <2>1, <2>2, OuterStays DEF Polls
<1>4. CASE PollsIdle
  <2>1. TaskOK'
    BY <1>4 DEF PollsIdle, TaskOK
  <2> QED
    BY <1>4, <2>1, JudgesTyped, SharedStays, OuterStays, PastStays DEF PollsIdle
<1>5. CASE Begins
  <2>1. now.day \in Days /\ shown.minute \in Minutes
    BY DEF SharedOK, Fields, PastOK, Clock
  <2>2. today' \in Days /\ sun' \in Int
    BY <1>5, <2>1, SunKnown DEF Begins, SharedOK
  <2>3. renewed' \in BOOLEAN
    BY <1>5, Zenon DEF Begins, PastOK
  <2>4. PastOK'
    BY <1>5, <2>1, <2>3, EmptyTyped DEF Begins, PastOK
  <2>5. TaskOK' /\ SharedOK'
    BY <1>5, <2>2, LocalsTyped DEF Begins, TaskOK, SharedOK
  <2> QED
    BY <1>5, <2>4, <2>5, JudgesTyped, OuterStays DEF Begins
<1>6. CASE Scans
  <2>1. i \in 1 .. Rows /\ table[i] \in Record /\ now.day \in Days
    BY <1>6 DEF Scans, AtRow, SharedOK, TaskOK, Fields
  <2>2. SunSeen \in Int
    BY <2>1, SunKnown DEF SunSeen, SharedOK
  <2>3. TimeSeen \in Int
    BY <2>1, <2>2, TimeTyped DEF TimeSeen
  <2>4. order' \in 0 .. LastOrder
    BY <1>6, <2>1 DEF Scans, IsLower, TaskOK, Record
  <2>5. TaskOK'
    BY <1>6, <2>1, <2>2, <2>3, <2>4, SunKnown DEF Scans, TaskOK
  <2>6. SharedOK' /\ PastOK'
    BY <1>6, <2>2 DEF Scans, SharedOK, PastOK
  <2> QED
    BY <1>6, <2>5, <2>6, OuterStays DEF Scans
<1>7. CASE ScanEnds \/ RoundEnds
  <2>1. TaskOK'
    BY <1>7, LocalsTyped DEF ScanEnds, RoundEnds, TaskOK
  <2> QED
    BY <1>7, <2>1, SharedStays, OuterStays, PastStays DEF ScanEnds, RoundEnds
<1>8. CASE Sends
  <2>1. i \in 1 .. Rows /\ now.day \in Days
    BY <1>8 DEF Sends, Chosen, AtRow, TaskOK, SharedOK, Fields
  <2>2. TaskOK'
    BY <1>8, <2>1 DEF Sends, TaskOK
  <2>3. SharedOK'
    BY <1>8, <2>1, SunKnown DEF Sends, SharedOK
  <2>4. PastOK'
    BY <1>8, <2>1 DEF Sends, Marked, PastOK
  <2> QED
    BY <1>8, <2>2, <2>3, <2>4, OuterStays DEF Sends
<1>9. CASE NextRow
  <2>1. TaskOK'
    BY <1>9 DEF NextRow, AtRow, TaskOK
  <2>2. PastOK'
    BY <1>9, OutersTyped DEF NextRow, PastOK
  <2> QED
    BY <1>9, <2>1, <2>2, SharedStays, OuterStays DEF NextRow
<1>10. CASE TurnEnds
  <2>1. TaskOK'
    BY <1>10 DEF TurnEnds, TaskOK
  <2>2. SharedOK'
    BY <1>10 DEF TurnEnds, WarpIsOver, SharedOK, Minutes
  <2> QED
    BY <1>10, <2>1, <2>2, OuterStays, PastStays DEF TurnEnds
<1>11. CASE Overruns
  BY <1>11, TaskStays, SharedStays, OuterStays, PastStays DEF Overruns
<1> QED
  BY <1>1, <1>2, <1>3, <1>4, <1>5, <1>6, <1>7, <1>8, <1>9, <1>10, <1>11 DEF Check

\* A store of GET_RTC_TIME is of a time, whichever field it has come to.
LEMMA LandsTyped ==
    ASSUME TypeOK, NEW next \in {"none", "time", "second", "date", "sun"},
           NEW fields \in SUBSET Fields, Lands(next, fields)
    PROVE  TypeOK'
<1> USE DEF TypeOK, tableVars
<1>1. SharedOK'
  <2>1. now' \in Fields
    BY DEF Lands, SharedOK
  <2> QED
    BY <2>1 DEF Lands, SharedOK
<1>2. OuterOK'
  <2>1. rtc' \in [at : {"none", "time", "second", "date", "sun"}, reads : Fields]
    BY DEF Lands, OuterOK
  <2> QED
    BY <2>1, RtcStays DEF Lands, OuterOK
<1>3. steady' \in BOOLEAN /\ renewed' \in BOOLEAN /\ watching' \in BOOLEAN /\ polled' \in BOOLEAN
  BY Zenon DEF Lands, PastOK
<1>4. PastOK'
  BY <1>3 DEF Lands, PastOK
<1> QED
  BY <1>1, <1>2, <1>3, <1>4, TaskStays DEF Lands

LEMMA RtcTyped ==
    ASSUME TypeOK, RtcTime \/ RtcSecond \/ RtcDate \/ RtcSun PROVE TypeOK'
<1>1. now \in Fields /\ rtc.reads \in Fields
  BY DEF TypeOK, SharedOK, OuterOK
<1>2. /\ {[now EXCEPT !.time = rtc.reads.time]} \in SUBSET Fields
      /\ {[now EXCEPT !.time = t] : t \in 0 .. Day - 1} \in SUBSET Fields
      /\ {[now EXCEPT !.late = rtc.reads.late]} \in SUBSET Fields
      /\ {[now EXCEPT !.day = rtc.reads.day]} \in SUBSET Fields
      /\ {[now EXCEPT !.day = d] : d \in Days} \in SUBSET Fields
  BY <1>1 DEF Fields
<1>3. CASE RtcTime
  BY <1>2, <1>3, LandsTyped DEF RtcTime
<1>4. CASE RtcSecond
  BY <1>2, <1>4, LandsTyped DEF RtcSecond
<1>5. CASE RtcDate
  BY <1>2, <1>5, LandsTyped DEF RtcDate
<1>6. CASE RtcSun
  <2> USE DEF TypeOK, tableVars
  <2>1. sun' \in Int
    <3>1. rtc.reads.day \in Days /\ now.day \in Days
      BY <1>1 DEF Fields
    <3> QED
      BY <1>6, <3>1, SunKnown DEF RtcSun
  <2>2. SharedOK'
    BY <1>6, <2>1 DEF RtcSun, SharedOK
  <2>3. OuterOK'
    BY <1>6, OutersTyped, RtcStays DEF RtcSun, OuterOK
  <2>4. steady' \in BOOLEAN
    BY <1>6, Zenon DEF RtcSun, PastOK
  <2>5. PastOK'
    BY <1>6, <2>4 DEF RtcSun, PastOK
  <2> QED
    BY <1>6, <2>2, <2>3, <2>5, TaskStays DEF RtcSun
<1> QED
  BY <1>3, <1>4, <1>5, <1>6

LEMMA MonitorTyped == ASSUME TypeOK, Monitor PROVE TypeOK'
<1> USE DEF TypeOK, tableVars
<1>0. ASSUME NEW n \in {1, 2}, Command(n) PROVE commands' \in 0 .. MaxCommands
  BY <1>0 DEF Command, OuterOK
<1>1. CASE Initialise
  <2>1. TaskOK'
    BY <1>1, EmptyTyped, LocalsTyped DEF Initialise, TaskOK
  <2>2. PastOK'
    BY <1>1 DEF Initialise, PastOK
  <2> QED
    BY <1>1, <2>1, <2>2, SharedStays, OuterStays DEF Initialise
<1>2. CASE SetFlag
  <2>1. SharedOK' /\ OuterOK'
    BY <1>0, <1>2, RtcStays DEF SetFlag, SharedOK, OuterOK
  <2> QED
    BY <1>2, <2>1, TaskStays, PastStays DEF SetFlag
<1>3. CASE WarpStarts
  <2>1. SharedOK'
    BY <1>3 DEF WarpStarts, SharedOK, Minutes
  <2>2. OuterOK'
    BY <1>0, <1>3, RtcStays DEF WarpStarts, OuterOK
  <2>3. meanwhile' \in Meanwhile
    BY <1>3 DEF WarpStarts, PastOK, Meanwhile
  <2>4. PastOK'
    BY <1>3, <2>3 DEF WarpStarts, PastOK
  <2> QED
    BY <1>3, <2>1, <2>2, <2>4, TaskStays DEF WarpStarts
<1>4. CASE WarpEnds
  <2>1. SharedOK'
    BY <1>4 DEF WarpEnds, SharedOK, Minutes
  <2>2. OuterOK'
    BY <1>0, <1>4, RtcStays DEF WarpEnds, OuterOK
  <2> QED
    BY <1>4, <2>1, <2>2, TaskStays, PastStays DEF WarpEnds
<1>5. CASE UpdateSchedule
  <2>1. reload' = reload \/ reload' = [at |-> "asking", row |-> 1, rows |-> <<>>]
    BY <1>5, OutersTyped DEF UpdateSchedule
  <2>2. commands' \in 0 .. MaxCommands /\ rtc' = rtc
    BY <1>0, <1>5 DEF UpdateSchedule
  <2>3. OuterOK'
    BY <2>1, <2>2, LocalsTyped DEF OuterOK
  <2> QED
    BY <1>5, <2>3, TaskStays, SharedStays, PastStays DEF UpdateSchedule
<1>6. CASE GetRtcTime
  <2>1. Shown(clock) \in Fields
    BY ShownTyped
  <2>2. OuterOK'
    BY <1>0, <1>6, <2>1, RtcStays DEF GetRtcTime, OuterOK
  <2> QED
    BY <1>6, <2>2, TaskStays, SharedStays, PastStays DEF GetRtcTime
<1> QED
  BY <1>1, <1>2, <1>3, <1>4, <1>5, <1>6, RtcTyped DEF Monitor

LEMMA ReloadTyped == ASSUME TypeOK, Reload PROVE TypeOK'
<1> USE DEF TypeOK, tableVars
<1>0. reload.rows \in Seq(Record) /\ reload.row \in 1 .. Rows + 1
  <2>1. Schedules \cup {<<>>} \subseteq Seq(Record)
    OBVIOUS
  <2>2. reload.rows \in Schedules \cup {<<>>} /\ reload.row \in 1 .. Rows + 1
    BY DEF OuterOK
  <2> QED
    BY <2>1, <2>2
<1>1. CASE ReloadFails \/ ReloadEnds
  <2>1. OuterOK'
    BY <1>1, OutersTyped, LocalsTyped DEF ReloadFails, ReloadEnds, OuterOK
  <2> QED
    BY <1>1, <2>1, TaskStays, SharedStays, PastStays DEF ReloadFails, ReloadEnds
<1>2. ASSUME NEW rows \in [1 .. Rows -> Record], ReloadTable(rows)
      PROVE  SharedOK' /\ PastOK' /\ TaskOK' /\ clock' \in Clock /\ polled' \in BOOLEAN /\ lost' \in BOOLEAN
  <2>1. steady' \in BOOLEAN
    BY <1>2, Zenon DEF ReloadTable, PastOK
  <2>2. SharedOK' /\ PastOK'
    BY <1>2, <2>1 DEF ReloadTable, SharedOK, PastOK
  <2> QED
    BY <1>2, <2>2, TaskStays DEF ReloadTable
<1>3. CASE ReloadClears
  <2>1. [r \in 1 .. Rows |-> Empty] \in [1 .. Rows -> Record]
    BY EmptyTyped
  <2>2. OuterOK'
    BY <1>3, LocalsTyped DEF ReloadClears, ReloadTable, OuterOK
  <2> QED
    BY <1>2, <1>3, <2>1, <2>2 DEF ReloadClears
<1>4. CASE RowBegins
  <2>1. reload.row \in 1 .. Rows /\ reload.rows[reload.row] \in Record
    BY <1>0, <1>4 DEF RowBegins
  <2>2. [table EXCEPT ![reload.row] = Half(reload.rows[reload.row])] \in [1 .. Rows -> Record]
    BY <2>1, HalfTyped DEF SharedOK
  <2>3. OuterOK'
    BY <1>4 DEF RowBegins, ReloadTable, OuterOK
  <2>4. full' \in BOOLEAN
    BY <1>4, Zenon DEF RowBegins
  <2> QED
    BY <1>2, <1>4, <2>2, <2>3, <2>4 DEF RowBegins
<1>5. CASE RowEnds
  <2>1. reload.row \in 1 .. Rows /\ reload.rows[reload.row] \in Record
    BY <1>0, <1>5 DEF RowEnds, OuterOK
  <2>2. [table EXCEPT ![reload.row] = reload.rows[reload.row]] \in [1 .. Rows -> Record]
    BY <2>1 DEF SharedOK
  <2>3. reload.row + 1 \in 1 .. Rows + 1
    BY <2>1
  <2>4. OuterOK'
    BY <1>5, <2>3 DEF RowEnds, ReloadTable, OuterOK
  <2> QED
    BY <1>2, <1>5, <2>2, <2>4 DEF RowEnds
<1>6. CASE ReloadOverruns
  BY <1>6, TaskStays, SharedStays, OuterStays, PastStays DEF ReloadOverruns
<1> QED
  BY <1>1, <1>3, <1>4, <1>5, <1>6 DEF Reload

\* Every value stored by the two tasks and the monitor has its type, for a schedule of any length,
\* and no time warp passes its bounds.
THEOREM TypeCorrect == Spec => []TypeOK
<1>1. Init => TypeOK
  BY InitTyped
<1>2. TypeOK /\ [Next]_vars => TypeOK'
  <2>1. ASSUME TypeOK, UNCHANGED vars PROVE TypeOK'
    BY <2>1, TaskStays, SharedStays, OuterStays, PastStays DEF vars, tableVars, TypeOK
  <2> QED
    BY <2>1, TickTyped, CheckTyped, MonitorTyped, ReloadTyped DEF Next
<1> QED
  BY <1>1, <1>2, PTL DEF Spec

-----------------------------------------------------------------------------
(***************************************************************************)
(* What leaves the table has a full one behind it.                         *)
(***************************************************************************)

\* Until a record is stored in its last row, that row ends the loops and the reload does not pass it.
Filled ==
    /\ lost => full
    /\ ~full => /\ table[Rows].script = 0 /\ i <= Rows
                /\ reload.row <= Rows /\ (reload.at = "half" => reload.row < Rows)
                /\ (pc = "delay" => i < Rows)

LEMMA FilledStays ==
    ASSUME Filled, full' = full, lost' = lost,
           i' \in {1, i}, UNCHANGED <<table, reload>>, pc' # "delay" \/ UNCHANGED <<pc, i>>
    PROVE  Filled'
BY DEF Filled

\* The table is not left before a schedule was stored that fills it.
THEOREM TableKept == Spec => []KeepsToTable
<1>1. Init => Filled
  <2> SUFFICES ASSUME Init PROVE Filled
    OBVIOUS
  <2>1. Rows \in 1 .. Rows
    OBVIOUS
  <2> QED
    BY <2>1, OutersTyped DEF Init, Filled, Empty
<1>2. TypeOK /\ Filled /\ [Next]_vars => Filled'
  <2> SUFFICES ASSUME TypeOK, Filled, [Next]_vars PROVE Filled'
    OBVIOUS
  <2> USE DEF taskVars, sharedVars, outerVars, tableVars
  <2>0. /\ Rows \in 1 .. Rows /\ i \in 1 .. Rows + 1 /\ i \in Int /\ table \in [1 .. Rows -> Record]
        /\ reload.row \in 1 .. Rows + 1 /\ reload.row \in Int /\ full \in BOOLEAN
    BY DEF TypeOK, TaskOK, SharedOK, OuterOK
  <2>1. CASE Tick \/ UNCHANGED vars
    BY <2>1, FilledStays DEF Tick, vars
  <2>2. CASE Check
    <3>1. CASE Synced \/ PollsDisabled \/ RowSeesDisabled
      BY <3>1, FilledStays DEF Synced, PollsDisabled, RowSeesDisabled, Exit
    <3>2. CASE Polls \/ PollsIdle \/ Begins \/ ScanEnds \/ RoundEnds \/ TurnEnds
      BY <3>2, FilledStays DEF Polls, PollsIdle, Begins, Judges, ScanEnds, RoundEnds, TurnEnds
    <3>3. CASE Scans
      BY <2>0, <3>3 DEF Scans, AtRow, Filled
    <3>4. CASE Sends
      BY <2>0, <3>4 DEF Sends, Chosen, AtRow, Filled
    <3>5. CASE NextRow
      BY <2>0, <3>5 DEF NextRow, AtRow, Filled
    <3>6. CASE Overruns
      BY <2>0, <3>6 DEF Overruns, Filled
    <3> QED
      BY <2>2, <3>1, <3>2, <3>3, <3>4, <3>5, <3>6 DEF Check
  <2>3. CASE Monitor
    <3>1. CASE UpdateSchedule
      BY <2>0, <3>1, OutersTyped DEF UpdateSchedule, Filled
    <3> QED
      BY <2>3, <3>1, FilledStays
         DEF Monitor, Initialise, SetFlag, WarpStarts, WarpEnds, GetRtcTime, RtcTime, RtcSecond,
             RtcDate, RtcSun, Lands
  <2>4. CASE Reload
    <3>1. CASE ReloadFails \/ ReloadEnds
      BY <2>0, <3>1, OutersTyped DEF ReloadFails, ReloadEnds, Filled
    <3>2. CASE ReloadClears
      BY <2>0, <3>2 DEF ReloadClears, ReloadTable, Filled, Empty
    <3>3. CASE RowBegins
      <4>1. /\ reload.row <= Rows /\ reload' = [reload EXCEPT !.at = "half"] /\ UNCHANGED <<pc, i, lost>>
            /\ table' = [table EXCEPT ![reload.row] = Half(reload.rows[reload.row])]
            /\ ~full' => ~full /\ reload.row # Rows
        BY <3>3 DEF RowBegins, ReloadTable
      <4>2. reload'.row = reload.row /\ (~full' => table'[Rows] = table[Rows])
        BY <2>0, <4>1 DEF TypeOK, OuterOK
      <4>3. lost' => full'
        BY <3>3 DEF RowBegins, ReloadTable, Filled
      <4> QED
        BY <2>0, <4>1, <4>2, <4>3 DEF Filled
    <3>4. CASE RowEnds
      <4>1. /\ reload.at = "half" /\ reload' = [reload EXCEPT !.at = "rows", !.row = @ + 1]
            /\ table' = [table EXCEPT ![reload.row] = reload.rows[reload.row]]
            /\ UNCHANGED <<pc, i, lost, full>>
        BY <3>4 DEF RowEnds, ReloadTable
      <4>2. /\ reload'.row = reload.row + 1 /\ reload'.at = "rows"
            /\ reload.row # Rows => table'[Rows] = table[Rows]
        BY <2>0, <4>1 DEF TypeOK, OuterOK
      <4> QED
        BY <2>0, <4>1, <4>2 DEF Filled
    <3>5. CASE ReloadOverruns
      BY <2>0, <3>5 DEF ReloadOverruns, Filled
    <3> QED
      BY <2>4, <3>1, <3>2, <3>3, <3>4, <3>5 DEF Reload
  <2> QED
    BY <2>1, <2>2, <2>3, <2>4 DEF Next
<1>3. Filled => KeepsToTable
  BY DEF Filled, KeepsToTable
<1> QED
  BY <1>1, <1>2, <1>3, TypeCorrect, PTL DEF Spec

-----------------------------------------------------------------------------

\* A turn that reads the time warp or the clock goes on so until TIMEWARP comes between: only it and
\* the end of a turn change startEPOC1.
Simulating ==
    /\ pc \in Turn => /\ ~real /\ warp = 0 => meanwhile = "cancel"
                      /\ real /\ warp # 0 => meanwhile = "start"
    /\ SimulationIsMarked

\* A message is marked as the round it belongs to, unless TIMEWARP has come between.
THEOREM SimulationMarked == Spec => []SimulationIsMarked
<1>1. Init => Simulating
  BY DEF Init, Simulating, SimulationIsMarked, NoMessage, Turn
<1>2. Simulating /\ [Next]_vars => Simulating'
  <2> SUFFICES ASSUME Simulating, [Next]_vars PROVE Simulating'
    OBVIOUS
  <2> USE DEF Simulating, SimulationIsMarked, Turn, taskVars, sharedVars, outerVars, pastVars
  <2>1. CASE Tick \/ UNCHANGED vars
    BY <2>1 DEF Tick, vars
  <2>2. CASE Check
    <3>1. CASE Synced \/ PollsDisabled \/ RowSeesDisabled
      BY <3>1 DEF Synced, PollsDisabled, RowSeesDisabled, Exit, NoMessage
    <3>2. CASE Polls
      BY <3>2 DEF Polls
    <3>3. CASE PollsIdle \/ Begins
      BY <3>3 DEF PollsIdle, Begins, Judges
    <3>4. CASE Scans \/ ScanEnds \/ RoundEnds \/ Overruns
      BY <3>4 DEF Scans, ScanEnds, RoundEnds, Overruns
    <3>5. CASE NextRow
      BY <3>5 DEF NextRow, NoMessage
    <3>6. CASE Sends
      <4>1. message' = [simulated |-> ~real, marked |-> warp # 0, meanwhile |-> meanwhile]
        BY <3>6 DEF Sends, Marked
      <4>2. pc = "send" /\ pc' = "delay" /\ real' = real /\ warp' = warp /\ meanwhile' = meanwhile
        BY <3>6 DEF Sends
      <4>3. /\ ~real /\ warp = 0 => meanwhile = "cancel"
            /\ real /\ warp # 0 => meanwhile = "start"
        BY <4>2
      <4>4. SimulationIsMarked'
        BY <4>1, <4>3
      <4> QED
        BY <4>2, <4>3, <4>4
    <3>7. CASE TurnEnds
      BY <3>7 DEF TurnEnds
    <3> QED
      BY <2>2, <3>1, <3>2, <3>3, <3>4, <3>5, <3>6, <3>7 DEF Check
  <2>3. CASE Monitor
    <3>1. CASE WarpStarts
      BY <3>1 DEF WarpStarts
    <3>2. CASE RtcTime \/ RtcSecond \/ RtcDate \/ RtcSun
      BY <3>2 DEF RtcTime, RtcSecond, RtcDate, RtcSun, Lands
    <3> QED
      BY <2>3, <3>1, <3>2
         DEF Monitor, Initialise, SetFlag, WarpEnds, GetRtcTime, UpdateSchedule
  <2>4. CASE Reload
    BY <2>4
       DEF Reload, ReloadFails, ReloadClears, RowBegins, RowEnds, ReloadOverruns, ReloadEnds,
           ReloadTable
  <2> QED
    BY <2>1, <2>2, <2>3, <2>4 DEF Next
<1>3. Simulating => SimulationIsMarked
  BY DEF Simulating
<1> QED
  BY <1>1, <1>2, <1>3, PTL DEF Spec

-----------------------------------------------------------------------------
(***************************************************************************)
(* One round a minute.                                                     *)
(***************************************************************************)

\* A time that the clock has shown.
Past(c) ==
    /\ c.minute <= clock.minute
    /\ c.minute = clock.minute /\ c.late => clock.late

\* A steady turn works with what it has read.
Judging ==
    pc = "judge" /\ steady => /\ real <=> warp = 0
                              /\ real => now = Shown(shown) /\ Past(shown)

\* What the task works with is not ahead of the clock, nor behind the last round.
Behind ==
    /\ lastRun <= shown.minute /\ Past(shown)
    /\ pc \notin {"poll", "none"} => now = Shown(shown)

\* In the early phase of a minute that had its round executedThisMinute is set, and so it is when
\* a reading of that phase is judged.
Remembered ==
    /\ lastRun = clock.minute => done \/ clock.late
    /\ pc = "judge" /\ lastRun = shown.minute => done \/ shown.late

\* Of the round's rows only those before the one it is at have been sent.
SentSoFar ==
    \A r \in 1 .. Rows :
        /\ sent[r] <= 1
        /\ pc = "scan" => sent[r] = 0
        /\ pc = "send" /\ r >= i => sent[r] = 0
        /\ pc = "delay" /\ r > i => sent[r] = 0

Once ==
    /\ Judging
    /\ ~renewed => warp = 0 /\ real /\ Behind /\ Remembered /\ SentSoFar

\* The numbers the argument compares.
LEMMA Numbers ==
    ASSUME TypeOK
    PROVE  /\ clock \in Clock /\ clock.minute \in Nat /\ clock.late \in BOOLEAN
           /\ shown \in Clock /\ shown.minute \in Nat /\ shown.late \in BOOLEAN
           /\ lastRun \in Nat /\ i \in Nat /\ sent \in [1 .. Rows -> Nat]
           /\ real \in BOOLEAN /\ steady \in BOOLEAN /\ renewed \in BOOLEAN
BY DEF TypeOK, SharedOK, TaskOK, PastOK, Clock, Minutes

\* A step that leaves the round and its past alone keeps the invariant.
LEMMA OnceStays ==
    ASSUME Once, UNCHANGED <<clock, now, shown, warp, done, i, sent, lastRun, real, renewed>>,
           pc' = "judge" => pc = "judge" /\ steady' \in {FALSE, steady},
           \/ pc' = pc
           \/ pc' \in {"none", "poll"}
           \/ pc \notin {"none", "poll"} /\ pc' \notin {"scan", "send", "delay"}
    PROVE  Once'
<1>1. Judging'
  BY DEF Once, Judging, Past
<1>2. ASSUME ~renewed PROVE Behind' /\ Remembered' /\ SentSoFar'
  BY <1>2 DEF Once, Behind, Past, Remembered, SentSoFar
<1> QED
  BY <1>1, <1>2 DEF Once

\* The clock is read: what the turn works with is the present.
LEMMA OncePolls == ASSUME TypeOK, Once, Polls PROVE Once'
<1>1. /\ pc = "poll" /\ pc' = "judge" /\ now' = Reading /\ real' = (warp = 0)
      /\ shown' = IF warp = 0 THEN clock ELSE shown
      /\ UNCHANGED <<clock, warp, done, i, sent, lastRun, renewed>>
  BY DEF Polls
<1>2. ASSUME warp = 0 PROVE now' = Shown(shown') /\ Past(shown)' /\ shown' = clock
  BY <1>1, <1>2, Numbers DEF Reading, Past
<1>3. Judging'
  BY <1>1, <1>2 DEF Judging
<1>4. ASSUME ~renewed PROVE warp = 0 /\ Behind' /\ Remembered' /\ SentSoFar'
  <2>1. warp = 0 /\ Behind /\ Remembered /\ SentSoFar
    BY <1>4 DEF Once
  <2>2. lastRun <= clock.minute
    BY <2>1, Numbers DEF Behind, Past
  <2>3. Behind' /\ Remembered'
    BY <1>1, <1>2, <2>1, <2>2 DEF Behind, Remembered
  <2>4. SentSoFar'
    BY <1>1, <2>1 DEF SentSoFar
  <2> QED
    BY <2>1, <2>3, <2>4
<1> QED
  BY <1>1, <1>3, <1>4 DEF Once

\* The round of a minute begins once: under the invariant its minute is a new one.
LEMMA OnceBegins == ASSUME TypeOK, Once, Begins PROVE Once'
<1>1. /\ pc = "judge" /\ pc' = "scan" /\ done' = TRUE /\ ~now.late /\ ~done
      /\ UNCHANGED <<clock, now, warp, shown, real, steady>>
  BY DEF Begins, Judges, MayRun
<1>2. Judging'
  BY <1>1 DEF Judging
<1>3. CASE ~real
  BY <1>1, <1>2, <1>3 DEF Begins, Once
<1>4. CASE real
  <2>1. /\ lastRun' = shown.minute
        /\ sent' = IF shown.minute = lastRun THEN sent ELSE Unsent
        /\ renewed' = (renewed /\ (shown.minute = lastRun \/ ~steady))
    BY <1>4 DEF Begins
  <2> SUFFICES ASSUME ~renewed'
               PROVE  warp = 0 /\ Behind' /\ Remembered' /\ SentSoFar'
    BY <1>1, <1>2, <1>4 DEF Once
  <2>2. /\ warp = 0 /\ now = Shown(shown) /\ Past(shown) /\ shown.minute # lastRun
    <3>1. CASE ~renewed
      <4>1. warp = 0 /\ Behind /\ Remembered
        BY <3>1 DEF Once
      <4>2. now = Shown(shown) /\ Past(shown)
        BY <1>1, <4>1 DEF Behind
      <4>3. now.late = shown.late
        BY <4>2 DEF Shown
      <4> QED
        BY <1>1, <4>1, <4>2, <4>3 DEF Remembered
    <3>2. CASE renewed
      <4>1. shown.minute # lastRun /\ steady
        BY <2>1, <3>2, Numbers
      <4> QED
        BY <1>1, <1>4, <4>1 DEF Once, Judging
    <3> QED
      BY <3>1, <3>2
  <2>3. sent' = Unsent
    BY <2>1, <2>2
  <2>4. SentSoFar'
    BY <1>1, <2>3 DEF SentSoFar, Unsent
  <2>5. Behind' /\ Remembered'
    BY <1>1, <2>1, <2>2, Numbers DEF Behind, Past, Remembered
  <2> QED
    BY <2>2, <2>4, <2>5
<1> QED
  BY <1>3, <1>4

LEMMA OnceChecks == ASSUME TypeOK, Once, Check PROVE Once'
<1> USE DEF taskVars, sharedVars, pastVars, outerVars
<1>1. CASE Synced \/ PollsDisabled \/ RowSeesDisabled \/ RoundEnds \/ PollsIdle \/ Overruns
  BY <1>1, OnceStays
     DEF Synced, PollsDisabled, RowSeesDisabled, Exit, RoundEnds, PollsIdle, Judges, Overruns
<1>2. CASE Polls
  BY <1>2, OncePolls
<1>3. CASE Begins
  BY <1>3, OnceBegins
<1>4. CASE Scans
  <2>1. UNCHANGED <<clock, now, shown, warp, done, sent, lastRun, real, renewed>>
    BY <1>4 DEF Scans
  <2>2. pc = "scan" /\ pc' \in {"scan", "none"}
    BY <1>4 DEF Scans
  <2>3. Judging'
    BY <2>2 DEF Judging
  <2>4. ASSUME ~renewed PROVE Behind' /\ Remembered' /\ SentSoFar'
    BY <2>1, <2>2, <2>4 DEF Once, Behind, Past, Remembered, SentSoFar
  <2> QED
    BY <2>1, <2>3, <2>4 DEF Once
<1>5. CASE ScanEnds \/ Sends \/ NextRow
  <2>1. /\ UNCHANGED <<clock, now, shown, warp, done, lastRun, real, renewed>>
        /\ pc \in {"scan", "send", "delay"} /\ pc' \in {"send", "delay"}
    BY <1>5 DEF ScanEnds, Sends, NextRow
  <2>2. Judging'
    BY <2>1 DEF Judging
  <2>3. ASSUME ~renewed PROVE Behind' /\ Remembered'
    BY <2>1, <2>3 DEF Once, Behind, Past, Remembered
  <2>4. ASSUME ~renewed, ScanEnds PROVE SentSoFar'
    BY <2>4 DEF ScanEnds, Once, SentSoFar
  <2>5. ASSUME ~renewed, NextRow PROVE SentSoFar'
    BY <2>5, Numbers DEF NextRow, Once, SentSoFar
  <2>6. ASSUME ~renewed, Sends PROVE SentSoFar'
    <3>1. /\ pc = "send" /\ pc' = "delay" /\ i' = i
          /\ sent' = IF real THEN [sent EXCEPT ![i] = @ + 1] ELSE sent
      BY <2>6 DEF Sends
    <3> QED
      BY <2>6, <3>1, Numbers DEF Once, SentSoFar
  <2> QED
    BY <1>5, <2>1, <2>2, <2>3, <2>4, <2>5, <2>6 DEF Once
<1>6. CASE TurnEnds
  <2>1. /\ warp = 0 => warp' = 0
        /\ done' = IF Rearmed THEN FALSE ELSE done
        /\ pc \in {"ran", "end"} /\ pc' = "poll"
        /\ UNCHANGED <<clock, now, shown, i, sent, lastRun, real, renewed>>
    BY <1>6 DEF TurnEnds
  <2>2. Judging'
    BY <2>1 DEF Judging
  <2>3. ASSUME ~renewed PROVE Remembered'
    <3>1. now.late = shown.late /\ warp = 0 /\ Behind /\ Remembered
      BY <2>1, <2>3 DEF Once, Behind, Shown
    <3> QED
      BY <2>1, <3>1, Numbers DEF Rearmed, Behind, Past, Remembered
  <2>4. ASSUME ~renewed PROVE Behind' /\ SentSoFar'
    BY <2>1, <2>4 DEF Once, Behind, Past, SentSoFar
  <2> QED
    BY <2>1, <2>2, <2>3, <2>4 DEF Once
<1> QED
  BY <1>1, <1>2, <1>3, <1>4, <1>5, <1>6 DEF Check

\* A store of GET_RTC_TIME leaves what is shown alone, brings it to the clock, or renews the round.
LEMMA OnceLands ==
    ASSUME TypeOK, Once, NEW next, NEW fields, Lands(next, fields) PROVE Once'
<1>1. /\ UNCHANGED <<clock, warp, pc, i, done, sent, lastRun, real>>
      /\ shown' = (IF now' = Shown(clock) THEN clock ELSE shown)
      /\ steady' = (steady /\ now' = now)
  BY DEF Lands, taskVars
<1>2. CASE now' = Shown(clock)
  <2>1. shown' = clock /\ Past(shown)' /\ now' = Shown(shown')
    BY <1>1, <1>2, Numbers DEF Past
  <2>2. steady' => steady
    BY <1>1
  <2>3. Judging'
    BY <1>1, <2>1, <2>2 DEF Once, Judging
  <2>4. renewed' = renewed
    BY <1>2, Numbers DEF Lands
  <2>5. ASSUME ~renewed PROVE Behind' /\ Remembered' /\ SentSoFar'
    <3>1. Behind /\ Remembered /\ SentSoFar
      BY <2>5 DEF Once
    <3>2. lastRun <= clock.minute
      BY <3>1, Numbers DEF Behind, Past
    <3>3. Behind' /\ Remembered'
      BY <1>1, <2>1, <3>1, <3>2 DEF Behind, Remembered
    <3> QED
      BY <1>1, <3>1, <3>3 DEF SentSoFar
  <2> QED
    BY <1>1, <2>3, <2>4, <2>5 DEF Once
<1>3. CASE now' # Shown(clock)
  <2>1. shown' = shown
    BY <1>1, <1>3
  <2>2. steady' => steady /\ now' = now
    BY <1>1
  <2>3. Judging'
    BY <1>1, <2>1, <2>2 DEF Once, Judging, Past
  <2>4. ASSUME ~renewed' PROVE ~renewed /\ (now' = now \/ pc = "poll")
    BY <1>3, <2>4, Numbers DEF Lands
  <2>5. ASSUME ~renewed' PROVE Behind' /\ Remembered' /\ SentSoFar'
    BY <1>1, <2>1, <2>4, <2>5 DEF Once, Behind, Past, Remembered, SentSoFar
  <2> QED
    BY <1>1, <2>3, <2>4, <2>5 DEF Once
<1> QED
  BY <1>2, <1>3

LEMMA OnceHolds == Spec => []Once
<1>1. Init => Once
  BY DEF Init, Once, Judging, Behind, Past, Remembered, SentSoFar, Unsent, Shown
<1>2. TypeOK /\ Once /\ [Next]_vars => Once'
  <2> SUFFICES ASSUME TypeOK, Once, [Next]_vars PROVE Once'
    OBVIOUS
  <2> USE DEF taskVars, sharedVars, outerVars, pastVars
  <2>1. CASE UNCHANGED vars
    BY <2>1, OnceStays DEF vars
  <2>2. CASE Tick
    <3>1. /\ clock' = [minute |-> IF clock.late THEN clock.minute + 1 ELSE clock.minute,
                       late |-> ~clock.late]
          /\ UNCHANGED <<now, shown, warp, done, i, sent, lastRun, real, renewed, steady, pc>>
      BY <2>2 DEF Tick
    <3>2. ASSUME Past(shown) PROVE Past(shown)'
      BY <3>1, <3>2, Numbers DEF Past
    <3>3. Judging'
      BY <3>1, <3>2 DEF Once, Judging
    <3>4. ASSUME Behind, Remembered PROVE Behind' /\ Remembered'
      <4>1. Behind'
        BY <3>1, <3>2, <3>4 DEF Behind
      <4>2. Remembered'
        BY <3>1, <3>4, Numbers DEF Behind, Past, Remembered
      <4> QED
        BY <4>1, <4>2
    <3> QED
      BY <3>1, <3>3, <3>4 DEF Once, SentSoFar
  <2>3. CASE Check
    BY <2>3, OnceChecks
  <2>4. CASE Monitor
    <3>1. CASE Initialise \/ WarpStarts
      BY <3>1 DEF Initialise, WarpStarts, Once, Judging
    <3>2. CASE SetFlag \/ UpdateSchedule \/ WarpEnds \/ GetRtcTime \/ RtcSun
      BY <3>2, OnceStays, Numbers DEF SetFlag, UpdateSchedule, WarpEnds, GetRtcTime, RtcSun
    <3>3. CASE RtcTime \/ RtcSecond \/ RtcDate
      BY <3>3, OnceLands DEF RtcTime, RtcSecond, RtcDate
    <3> QED
      BY <2>4, <3>1, <3>2, <3>3 DEF Monitor
  <2>5. CASE Reload
    BY <2>5, OnceStays, Numbers
       DEF Reload, ReloadFails, ReloadClears, RowBegins, RowEnds, ReloadOverruns, ReloadEnds,
           ReloadTable
  <2> QED
    BY <2>1, <2>2, <2>3, <2>4, <2>5 DEF Next
<1> QED
  BY <1>1, <1>2, TypeCorrect, PTL DEF Spec

\* No record is sent twice for one minute, unless a restart, a time warp or a time that was over
\* came between.
THEOREM RunsOnce == Spec => []OncePerMinute
<1>1. Once => OncePerMinute
  BY DEF Once, SentSoFar, OncePerMinute
<1> QED
  BY <1>1, OnceHolds, PTL

-----------------------------------------------------------------------------
(***************************************************************************)
(* A round that nothing disturbs sends what the schedule asks for.         *)
(***************************************************************************)

InRound == pc \in {"scan", "send", "delay", "ran"}
Undisturbed == InRound /\ real /\ steady /\ ~renewed /\ Countable(table)

\* What the round works with.
RoundBegun ==
    /\ today = now.day /\ now.day = DayOf(lastRun) /\ now.time = lastRun % Day
    /\ sun = SunOf[today]

\* What the first loop has stored for row r tells whether its record is due.
Seen(t, h, r, m) ==
    /\ Visible(t, r)
    /\ Due(t, r, m) <=> /\ DayOf(m) \in t[r].range \cap t[r].week
                        /\ h[r] = m % Day /\ t[r].order \in 1 .. LastOrder

\* Order o is the lowest of the records due among the first n rows.
LowestOf(t, o, n, m) ==
    /\ o \in 1 .. LastOrder
    /\ \A r \in 1 .. n : Due(t, r, m) => o <= t[r].order
    /\ o = LastOrder \/ \E r \in 1 .. n : Due(t, r, m) /\ t[r].order = o

\* Of the first n rows those the schedule asks for have been sent.
SentOf(t, s, n, m) == \A r \in 1 .. n : s[r] > 0 <=> r \in Asked(t, m)

AllSeen(t, h, o, m) ==
    (\A r \in 1 .. Rows : Visible(t, r) => Seen(t, h, r, m)) /\ LowestOf(t, o, Rows, m)

Right ==
    /\ pc = "judge" => order = LastOrder
    /\ Undisturbed =>
        /\ RoundBegun
        /\ pc = "scan" => /\ \A r \in 1 .. i - 1 : Seen(table, times, r, lastRun)
                          /\ LowestOf(table, order, i - 1, lastRun)
        /\ pc # "scan" => /\ AllSeen(table, times, order, lastRun)
                          /\ \A r \in 1 .. i - 1 : Visible(table, r)
        /\ pc = "send" => SentOf(table, sent, i - 1, lastRun)
        /\ pc = "delay" => SentOf(table, sent, i, lastRun) /\ Visible(table, i)
        /\ pc = "ran" => SentOf(table, sent, Rows, lastRun)

\* What the loops compare.
LEMMA Loops ==
    ASSUME TypeOK
    PROVE  /\ i \in 1 .. Rows + 1 /\ order \in 0 .. LastOrder /\ times \in [1 .. Rows -> Int]
           /\ table \in [1 .. Rows -> Record] /\ sent \in [1 .. Rows -> Nat]
           /\ lastRun \in Minutes /\ sun \in Int
BY DEF TypeOK, TaskOK, SharedOK, PastOK

\* A step that leaves the round alone, or disturbs it, keeps the invariant.
LEMMA RightStays ==
    ASSUME Right, UNCHANGED <<i, order, times, today, lastRun, sent, real>>,
           \/ ~steady' \/ renewed' \/ pc' \notin {"scan", "send", "delay", "ran"}
           \/ UNCHANGED <<now, table, sun, steady, renewed>>,
           pc' = pc \/ pc' \notin {"judge", "scan", "send", "delay", "ran"}
    PROVE  Right'
BY DEF Right, Undisturbed, InRound, RoundBegun

LEMMA BeginsRight == ASSUME TypeOK, Once, Right, Begins PROVE Right'
<1>0. /\ pc = "judge" /\ pc' = "scan" /\ i' = 1 /\ today' = now.day
      /\ sun' = (IF warp = 0 THEN SunOf[now.day] ELSE sun)
      /\ UNCHANGED <<order, now, real, steady>>
  BY DEF Begins, Judges
<1> SUFFICES ASSUME Undisturbed' PROVE Right'
  BY <1>0 DEF Right
<1>1. real /\ steady /\ order = LastOrder
  BY <1>0 DEF Undisturbed, Right
<1>2. warp = 0 /\ now = Shown(shown) /\ lastRun' = shown.minute
  BY <1>0, <1>1 DEF Once, Judging, Begins
<1>3. now.day = DayOf(shown.minute) /\ now.time = shown.minute % Day
  BY <1>2 DEF Shown
<1>4. RoundBegun'
  BY <1>0, <1>2, <1>3 DEF RoundBegun
<1>5. LowestOf(table', LastOrder, 0, lastRun')
  BY DEF LowestOf
<1> QED
  BY <1>0, <1>1, <1>4, <1>5 DEF Right

\* The first loop: the dates, the sunset and the time of the record are those of its own row.
LEMMA RowSeen ==
    ASSUME TypeOK, Right, Undisturbed, Scans, flag
    PROVE  /\ sun' = sun /\ Visible(table, i)
           /\ Seen(table, times', i, lastRun)
           /\ IsLower <=> Due(table, i, lastRun) /\ table[i].order <= order
<1>1. /\ pc = "scan" /\ AtRow /\ RoundBegun /\ LowestOf(table, order, i - 1, lastRun)
      /\ \A r \in 1 .. i - 1 : Seen(table, times, r, lastRun)
  BY DEF Scans, Right
<1>2. i \in 1 .. Rows /\ table[i] \in Record
  BY <1>1, Loops DEF AtRow
<1>3. Visible(table, i)
  BY <1>1, <1>2 DEF AtRow, Visible, Seen
<1>4. DateRow(i) = i
  <2>1. i <= IndexRange
    BY <1>2, <1>3 DEF Undisturbed, Countable
  <2> QED
    BY <1>2, <2>1 DEF DateRow
<1>5. SunSeen = sun /\ sun' = sun
  BY <1>1 DEF SunSeen, RoundBegun, Scans
<1>6. InRange <=> DayOf(lastRun) \in table[i].range
  BY <1>1, <1>4 DEF InRange, RoundBegun
<1>7. InRange => TimeSeen = EventTime(table[i], SunOf[DayOf(lastRun)])
  BY <1>1, <1>5 DEF TimeSeen, RoundBegun
<1>8. InForce <=> DayOf(lastRun) \in table[i].range \cap table[i].week
  BY <1>1, <1>6 DEF InForce, RoundBegun
<1>9. Minute = lastRun % Day
  BY <1>1 DEF Minute, RoundBegun
<1>10. Due(table, i, lastRun) <=> /\ InForce /\ TimeSeen = Minute
                                  /\ table[i].order \in 1 .. LastOrder
  BY <1>3, <1>6, <1>7, <1>8, <1>9 DEF Due, InForce
<1>11. times'[i] = TimeSeen
  BY <1>2, Loops DEF Scans
<1>12. table[i].order \in Nat /\ order \in 1 .. LastOrder
  BY <1>1, <1>2 DEF Record, LowestOf
<1> QED
  BY <1>3, <1>5, <1>8, <1>9, <1>10, <1>11, <1>12 DEF Seen, IsLower

LEMMA ScansRight == ASSUME TypeOK, Right, Scans PROVE Right'
<1> SUFFICES ASSUME Undisturbed' PROVE Right'
  BY DEF Right, Scans
<1>1. /\ pc = "scan" /\ pc' = "scan" /\ i' = i + 1 /\ flag /\ AtRow
      /\ UNCHANGED <<today, now, table, lastRun, sent, real, steady, renewed>>
  BY DEF Scans, Undisturbed, InRound, sharedVars
<1>2. Undisturbed
  BY <1>1 DEF Undisturbed, InRound
<1>3. /\ RoundBegun /\ LowestOf(table, order, i - 1, lastRun)
      /\ \A r \in 1 .. i - 1 : Seen(table, times, r, lastRun)
  BY <1>1, <1>2 DEF Right
<1>4. /\ sun' = sun /\ Visible(table, i) /\ Seen(table, times', i, lastRun)
      /\ IsLower <=> Due(table, i, lastRun) /\ table[i].order <= order
  BY <1>1, <1>2, RowSeen
<1>5. i \in 1 .. Rows /\ times' = [times EXCEPT ![i] = TimeSeen]
  BY <1>1, Loops DEF AtRow, Scans
<1>6. \A r \in 1 .. i' - 1 : Seen(table, times', r, lastRun)
  <2>1. ASSUME NEW r \in 1 .. i - 1 PROVE Seen(table, times', r, lastRun)
    <3>1. times'[r] = times[r]
      BY <1>5, Loops
    <3> QED
      BY <1>3, <3>1 DEF Seen
  <2>2. i' - 1 = i /\ \A r \in 1 .. i : r \in 1 .. i - 1 \/ r = i
    BY <1>1, <1>5
  <2> QED
    BY <1>4, <2>1, <2>2
<1>7. LowestOf(table, order', i' - 1, lastRun)
  <2>1. /\ order' = (IF IsLower THEN table[i].order ELSE order)
        /\ order \in 1 .. LastOrder /\ table[i].order \in Nat
    BY <1>3, <1>5, Loops DEF Scans, LowestOf, Record
  <2>2. \A r \in 1 .. i : r \in 1 .. i - 1 \/ r = i
    BY <1>5
  <2>3. \A r \in 1 .. i - 1 : r \in 1 .. i /\ table[r].order \in Nat
    BY <1>5, Loops DEF Record
  <2>4. CASE IsLower
    <3>1. table[i].order \in 1 .. LastOrder
      BY <1>4, <2>4 DEF Due
    <3>2. \A r \in 1 .. i : Due(table, r, lastRun) => table[i].order <= table[r].order
      BY <1>3, <1>4, <2>1, <2>2, <2>3, <2>4, <3>1 DEF LowestOf
    <3> QED
      BY <1>1, <1>4, <1>5, <2>1, <2>4, <3>1, <3>2 DEF LowestOf
  <2>5. CASE ~IsLower
    <3>1. \A r \in 1 .. i : Due(table, r, lastRun) => order <= table[r].order
      BY <1>3, <1>4, <2>1, <2>2, <2>5 DEF LowestOf
    <3> QED
      BY <1>1, <1>3, <1>5, <2>1, <2>3, <2>5, <3>1 DEF LowestOf
  <2> QED
    BY <2>4, <2>5
<1> QED
  BY <1>1, <1>3, <1>4, <1>6, <1>7 DEF Right, RoundBegun

\* The first loop stops at the first unused row, when all those before it are seen.
LEMMA ScanEndsRight == ASSUME TypeOK, Right, ScanEnds PROVE Right'
<1> SUFFICES ASSUME Undisturbed' PROVE Right'
  BY DEF Right, ScanEnds
<1>1. /\ pc = "scan" /\ pc' = "send" /\ i' = 1 /\ ~AtRow
      /\ UNCHANGED <<today, now, table, sun, order, times, lastRun, sent, real, steady, renewed>>
  BY DEF ScanEnds, sharedVars, pastVars
<1>2. Undisturbed
  BY <1>1 DEF Undisturbed, InRound
<1>3. /\ RoundBegun /\ LowestOf(table, order, i - 1, lastRun)
      /\ \A r \in 1 .. i - 1 : Seen(table, times, r, lastRun)
  BY <1>1, <1>2 DEF Right
<1>4. ASSUME NEW r \in 1 .. Rows, Visible(table, r) PROVE r \in 1 .. i - 1
  BY <1>1, <1>4, Loops DEF AtRow, Visible
<1>5. i - 1 \in 0 .. Rows
  BY Loops
<1>6. LowestOf(table, order, Rows, lastRun)
  BY <1>3, <1>4, <1>5 DEF LowestOf, Due
<1>7. AllSeen(table, times, order, lastRun)
  BY <1>3, <1>4, <1>6 DEF AllSeen
<1>8. SentOf(table, sent, 0, lastRun)
  BY DEF SentOf
<1> QED
  BY <1>1, <1>3, <1>7, <1>8 DEF Right, RoundBegun

\* The second loop chooses exactly the records the schedule asks for.
LEMMA ChosenIsAsked ==
    ASSUME TypeOK, Right, Undisturbed, pc = "send", AtRow
    PROVE  /\ Visible(table, i)
           /\ Chosen <=> i \in Asked(table, lastRun)
<1>1. /\ RoundBegun /\ AllSeen(table, times, order, lastRun)
      /\ \A r \in 1 .. i - 1 : Visible(table, r)
  BY DEF Right
<1>2. i \in 1 .. Rows /\ table[i] \in Record /\ table[i].order \in Nat
  <2>1. i \in 1 .. Rows /\ table[i] \in Record
    BY Loops DEF AtRow
  <2> QED
    BY <2>1 DEF Record
<1>3. Visible(table, i)
  <2>1. table[i].script # 0 /\ \A q \in 1 .. i : q = i \/ q \in 1 .. i - 1
    BY <1>2 DEF AtRow
  <2>2. \A q \in 1 .. i - 1 : table[q].script # 0
    <3> SUFFICES ASSUME NEW q \in 1 .. i - 1 PROVE table[q].script # 0
      OBVIOUS
    <3>1. Visible(table, q) /\ q \in 1 .. q
      BY <1>1, <1>2
    <3> QED
      BY <3>1 DEF Visible
  <2> QED
    BY <2>1, <2>2 DEF Visible
<1>4. Seen(table, times, i, lastRun) /\ LowestOf(table, order, Rows, lastRun)
  BY <1>1, <1>2, <1>3 DEF AllSeen
<1>5. DateRow(i) = i
  <2>1. i <= IndexRange
    BY <1>2, <1>3 DEF Undisturbed, Countable
  <2> QED
    BY <1>2, <2>1 DEF DateRow
<1>6. /\ InForce <=> DayOf(lastRun) \in table[i].range \cap table[i].week
      /\ Minute = lastRun % Day
  BY <1>1, <1>5 DEF InForce, InRange, Minute, RoundBegun
<1>7. order \in 1 .. LastOrder
  BY <1>4 DEF LowestOf
<1>8. Chosen => Due(table, i, lastRun) /\ table[i].order = order
  BY <1>4, <1>6, <1>7 DEF Chosen, Seen
<1>9. Due(table, i, lastRun) /\ table[i].order = order => Chosen
  BY <1>4, <1>6 DEF Chosen, Seen
<1>10. ASSUME i \in Asked(table, lastRun) PROVE table[i].order = order
  <2>1. Due(table, i, lastRun) /\ \A q \in 1 .. Rows : Due(table, q, lastRun) => table[i].order <= table[q].order
    BY <1>10 DEF Asked
  <2>2. order <= table[i].order /\ table[i].order <= LastOrder
    BY <1>2, <1>4, <2>1 DEF LowestOf, Due
  <2>3. table[i].order <= order
    BY <1>4, <2>1, <2>2 DEF LowestOf
  <2> QED
    BY <1>2, <1>7, <2>2, <2>3
<1>11. Due(table, i, lastRun) /\ table[i].order = order => i \in Asked(table, lastRun)
  BY <1>2, <1>4 DEF LowestOf, Asked
<1>12. i \in Asked(table, lastRun) => Due(table, i, lastRun)
  BY DEF Asked
<1> QED
  BY <1>3, <1>8, <1>9, <1>10, <1>11, <1>12

LEMMA SendsRight == ASSUME TypeOK, Right, Sends PROVE Right'
<1> SUFFICES ASSUME Undisturbed' PROVE Right'
  BY DEF Right, Sends
<1>1. /\ pc = "send" /\ pc' = "delay" /\ Chosen /\ sun' = SunOf[now.day]
      /\ UNCHANGED <<i, today, now, table, order, times, lastRun, real, steady, renewed>>
  BY DEF Sends
<1>2. Undisturbed
  BY <1>1 DEF Undisturbed, InRound
<1>3. /\ RoundBegun /\ AllSeen(table, times, order, lastRun) /\ SentOf(table, sent, i - 1, lastRun)
      /\ \A r \in 1 .. i - 1 : Visible(table, r)
  BY <1>1, <1>2 DEF Right
<1>4. Visible(table, i) /\ i \in Asked(table, lastRun) /\ i \in 1 .. Rows
  BY <1>1, <1>2, ChosenIsAsked, Loops DEF Chosen, AtRow
<1>5. sent' = [sent EXCEPT ![i] = @ + 1] /\ sent[i] \in Nat
  BY <1>2, <1>4, Loops DEF Sends, Undisturbed
<1>6. \A r \in 1 .. i : r = i \/ r \in 1 .. i - 1
  BY <1>4
<1>7. sent'[i] > 0 /\ \A r \in 1 .. i - 1 : sent'[r] = sent[r]
  BY <1>4, <1>5, Loops
<1>8. SentOf(table, sent', i, lastRun)
  BY <1>3, <1>4, <1>6, <1>7 DEF SentOf
<1>9. RoundBegun'
  BY <1>1, <1>3 DEF RoundBegun
<1> QED
  BY <1>1, <1>3, <1>4, <1>8, <1>9 DEF Right

LEMMA NextRowRight == ASSUME TypeOK, Once, Right, NextRow PROVE Right'
<1> SUFFICES ASSUME Undisturbed' PROVE Right'
  BY DEF Right, NextRow
<1>1. /\ pc = "delay" \/ (pc = "send" /\ AtRow /\ ~Chosen)
      /\ pc' = "send" /\ i' = i + 1
      /\ UNCHANGED <<today, now, table, sun, order, times, lastRun, sent, real, steady, renewed>>
  BY DEF NextRow, sharedVars, pastVars
<1>2. Undisturbed
  BY <1>1 DEF Undisturbed, InRound
<1>3. /\ RoundBegun /\ AllSeen(table, times, order, lastRun)
      /\ \A r \in 1 .. i - 1 : Visible(table, r)
  BY <1>1, <1>2 DEF Right
<1>4. i \in Nat /\ i \in 1 .. Rows + 1 /\ i' - 1 = i /\ \A r \in 1 .. i : r = i \/ r \in 1 .. i - 1
  BY <1>1, Loops
<1>5. SentOf(table, sent, i, lastRun) /\ Visible(table, i)
  <2>1. CASE pc = "delay"
    BY <1>2, <2>1 DEF Right
  <2>2. CASE pc = "send" /\ AtRow /\ ~Chosen
    <3>1. Visible(table, i) /\ i \notin Asked(table, lastRun) /\ SentOf(table, sent, i - 1, lastRun)
      BY <1>2, <2>2, ChosenIsAsked DEF Right
    <3>2. sent[i] = 0
      BY <1>2, <1>4, <2>2 DEF Once, SentSoFar, Undisturbed, AtRow
    <3> QED
      BY <1>4, <3>1, <3>2 DEF SentOf
  <2> QED
    BY <1>1, <2>1, <2>2
<1>6. \A r \in 1 .. i : Visible(table, r)
  BY <1>3, <1>4, <1>5
<1> QED
  BY <1>1, <1>3, <1>4, <1>5, <1>6 DEF Right, RoundBegun

\* The rows after the last are none the schedule asks for, and were not sent.
LEMMA RoundEndsRight == ASSUME TypeOK, Once, Right, RoundEnds PROVE Right'
<1> SUFFICES ASSUME Undisturbed' PROVE Right'
  BY DEF Right, RoundEnds
<1>1. /\ pc = "send" /\ pc' = "ran" /\ ~AtRow
      /\ UNCHANGED <<i, today, now, table, sun, order, times, lastRun, sent, real, steady, renewed>>
  BY DEF RoundEnds, sharedVars, pastVars
<1>2. Undisturbed
  BY <1>1 DEF Undisturbed, InRound
<1>3. /\ RoundBegun /\ AllSeen(table, times, order, lastRun) /\ SentOf(table, sent, i - 1, lastRun)
      /\ \A r \in 1 .. i - 1 : Visible(table, r)
  BY <1>1, <1>2 DEF Right
<1>4. ASSUME NEW r \in 1 .. Rows, r \notin 1 .. i - 1
      PROVE  sent[r] = 0 /\ r \notin Asked(table, lastRun)
  <2>1. r >= i /\ i \in 1 .. r
    BY <1>4, Loops
  <2>2. sent[r] = 0
    BY <1>1, <1>2, <2>1 DEF Once, SentSoFar, Undisturbed
  <2>3. ~Visible(table, r)
    BY <1>1, <2>1 DEF AtRow, Visible
  <2> QED
    BY <2>2, <2>3 DEF Asked, Due
<1>5. SentOf(table, sent, Rows, lastRun)
  BY <1>3, <1>4, Loops DEF SentOf
<1> QED
  BY <1>1, <1>3, <1>5 DEF Right, RoundBegun

\* An undisturbed round sends the due rows of the lowest order and no others, for every schedule
\* of at most IndexRange records.
THEOREM RoundsAreRight == Spec => []RoundIsRight
<1>1. Init => Right
  BY DEF Init, Right, Undisturbed, InRound
<1>2. TypeOK /\ Once /\ Right /\ [Next]_vars => Right'
  <2> SUFFICES ASSUME TypeOK, Once, Right, [Next]_vars PROVE Right'
    OBVIOUS
  <2> USE DEF taskVars, sharedVars, outerVars, pastVars
  <2>1. CASE UNCHANGED vars
    BY <2>1, RightStays DEF vars
  <2>2. CASE Tick
    BY <2>2, RightStays DEF Tick
  <2>3. CASE Check
    <3>1. CASE Synced \/ PollsDisabled \/ RowSeesDisabled
      BY <3>1, RightStays DEF Synced, PollsDisabled, RowSeesDisabled, Exit
    <3>2. CASE Polls \/ PollsIdle \/ TurnEnds
      BY <3>2 DEF Polls, PollsIdle, Judges, TurnEnds, Right, Undisturbed, InRound
    <3>3. CASE Overruns
      BY <3>3, RightStays DEF Overruns
    <3> QED
      BY <2>3, <3>1, <3>2, <3>3, BeginsRight, ScansRight, ScanEndsRight, SendsRight, NextRowRight,
         RoundEndsRight DEF Check
  <2>4. CASE Monitor
    <3>1. CASE Initialise
      BY <3>1 DEF Initialise, Right, Undisturbed, InRound
    <3>2. CASE SetFlag \/ WarpStarts \/ WarpEnds \/ GetRtcTime \/ UpdateSchedule
      BY <3>2, RightStays DEF SetFlag, WarpStarts, WarpEnds, GetRtcTime, UpdateSchedule
    <3>3. ASSUME NEW next, NEW fields, Lands(next, fields) PROVE Right'
      <4>1. now' # now => ~steady'
        BY <3>3 DEF Lands
      <4>2. now' = now => steady' = steady /\ renewed' = renewed
        BY <3>3, Numbers DEF Lands
      <4> QED
        BY <3>3, <4>1, <4>2, RightStays DEF Lands
    <3>4. CASE RtcTime \/ RtcSecond \/ RtcDate
      BY <3>3, <3>4 DEF RtcTime, RtcSecond, RtcDate
    <3>5. CASE RtcSun
      <4>1. ~steady' \/ (steady' = steady /\ sun' = sun)
        BY <3>5, Numbers DEF RtcSun
      <4> QED
        BY <3>5, <4>1, RightStays DEF RtcSun
    <3> QED
      BY <2>4, <3>1, <3>2, <3>4, <3>5 DEF Monitor
  <2>5. CASE Reload
    <3>1. CASE ReloadFails \/ ReloadOverruns \/ ReloadEnds
      BY <3>1, RightStays DEF ReloadFails, ReloadOverruns, ReloadEnds
    <3>2. ASSUME NEW rows, ReloadTable(rows) PROVE Right'
      <4>1. ~steady' \/ pc' \notin {"scan", "send", "delay", "ran"}
        BY <3>2 DEF ReloadTable
      <4> QED
        BY <3>2, <4>1, RightStays DEF ReloadTable
    <3> QED
      BY <2>5, <3>1, <3>2 DEF Reload, ReloadClears, RowBegins, RowEnds
  <2> QED
    BY <2>1, <2>2, <2>3, <2>4, <2>5 DEF Next
<1>3. Right => RoundIsRight
  <2> SUFFICES ASSUME Right, pc = "ran", real, steady, ~renewed, Countable(table)
               PROVE  {r \in 1 .. Rows : sent[r] > 0} = Asked(table, lastRun)
    BY DEF RoundIsRight
  <2>1. SentOf(table, sent, Rows, lastRun)
    BY DEF Right, Undisturbed, InRound
  <2> QED
    BY <2>1 DEF SentOf, Asked
<1> QED
  BY <1>1, <1>2, <1>3, TypeCorrect, OnceHolds, PTL DEF Spec

-----------------------------------------------------------------------------
(***************************************************************************)
(* Every minute that is polled has its round.                              *)
(***************************************************************************)

\* The task begins with executedThisMinute cleared; a poll in the late phase of a minute clears it,
\* in the turn that follows.
ClearedLate ==
    /\ pc = "sync" => ~done
    /\ clock.late /\ polled /\ warp = 0 =>
           /\ pc \notin {"scan", "send", "delay", "ran"}
           /\ pc \in {"judge", "end"} => now.late
           /\ pc = "poll" => ~done

\* The minute that is watched had its round, or is at its first poll.
Watched ==
    watching => /\ warp = 0
                /\ pc = "judge" => shown.minute = clock.minute /\ real
                /\ \/ lastRun = clock.minute
                   \/ /\ ~clock.late /\ ~polled /\ ~done
                      /\ pc = "poll" \/ (pc = "judge" /\ now = Shown(clock))

LEMMA WatchedStays ==
    ASSUME ClearedLate, Watched,
           UNCHANGED <<clock, now, shown, real, warp, done, lastRun, watching, polled, pc>>
    PROVE  ClearedLate' /\ Watched'
BY DEF ClearedLate, Watched

LEMMA WatchedChecks ==
    ASSUME TypeOK, ClearedLate, Watched, Check PROVE ClearedLate' /\ Watched'
<1> USE DEF taskVars, sharedVars, pastVars, outerVars
<1>1. CASE Synced
  BY <1>1 DEF Synced, ClearedLate, Watched
<1>2. CASE PollsDisabled \/ RowSeesDisabled
  BY <1>2 DEF PollsDisabled, RowSeesDisabled, Exit, ClearedLate, Watched
<1>3. CASE Polls
  BY <1>3 DEF Polls, Reading, Shown, ClearedLate, Watched
<1>4. CASE PollsIdle
  <2>1. /\ pc = "judge" /\ pc' = "end" /\ ~MayRun /\ (polled' => polled \/ now = Shown(clock))
        /\ UNCHANGED <<clock, now, warp, done, lastRun, watching>>
    BY <1>4 DEF PollsIdle, Judges
  <2>2. now = Shown(clock) => now.late = clock.late
    BY DEF Shown
  <2>3. ClearedLate'
    BY <2>1, <2>2 DEF ClearedLate
  <2>4. Watched'
    BY <2>1, <2>2 DEF MayRun, Watched
  <2> QED
    BY <2>3, <2>4
<1>5. CASE Begins
  <2>1. /\ pc = "judge" /\ pc' = "scan" /\ MayRun /\ (polled' => polled \/ now = Shown(clock))
        /\ (real => lastRun' = shown.minute)
        /\ UNCHANGED <<clock, now, warp, watching>>
    BY <1>5 DEF Begins, Judges
  <2>2. now = Shown(clock) => now.late = clock.late
    BY DEF Shown
  <2>3. ClearedLate'
    BY <2>1, <2>2 DEF MayRun, ClearedLate
  <2>4. Watched'
    BY <2>1 DEF Watched
  <2> QED
    BY <2>3, <2>4
<1>6. CASE Scans
  BY <1>6 DEF Scans, ClearedLate, Watched
<1>7. CASE ScanEnds \/ Sends \/ NextRow \/ RoundEnds
  BY <1>7 DEF ScanEnds, Sends, NextRow, RoundEnds, ClearedLate, Watched
<1>8. CASE TurnEnds
  BY <1>8 DEF TurnEnds, Rearmed, ClearedLate, Watched
<1>9. CASE Overruns
  BY <1>9 DEF Overruns, ClearedLate, Watched
<1> QED
  BY <1>1, <1>2, <1>3, <1>4, <1>5, <1>6, <1>7, <1>8, <1>9 DEF Check

LEMMA WatchedLands ==
    ASSUME TypeOK, ClearedLate, Watched, NEW next, NEW fields, Lands(next, fields)
    PROVE  ClearedLate' /\ Watched'
<1>1. /\ UNCHANGED <<clock, warp, pc, done, lastRun, real>>
      /\ shown' = (IF now' = Shown(clock) THEN clock ELSE shown)
  BY DEF Lands, taskVars
<1>2. polled \in BOOLEAN /\ watching \in BOOLEAN
  BY DEF TypeOK, PastOK
<1>3. /\ polled' => polled /\ (now' = now \/ now' = Shown(clock) \/ pc = "poll")
      /\ watching' => watching /\ (now' = now \/ now' = Shown(clock) \/ pc = "poll")
      /\ ~polled => ~polled'
  BY <1>2, Zenon DEF Lands
<1>4. now' = Shown(clock) => now'.late = clock.late
  BY DEF Shown
<1>5. ClearedLate'
  BY <1>1, <1>3, <1>4 DEF ClearedLate
<1>6. Watched'
  BY <1>1, <1>3 DEF Watched
<1> QED
  BY <1>5, <1>6

\* The clock does not leave a minute the task has been polling without a round for it.
THEOREM NoMinuteMissed == Spec => EveryMinuteRuns
<1>1. Init => ClearedLate /\ Watched
  BY DEF Init, ClearedLate, Watched
<1>2. TypeOK /\ ClearedLate /\ Watched /\ [Next]_vars => ClearedLate' /\ Watched'
  <2> SUFFICES ASSUME TypeOK, ClearedLate, Watched, [Next]_vars PROVE ClearedLate' /\ Watched'
    OBVIOUS
  <2> USE DEF taskVars, sharedVars, outerVars, pastVars
  <2>1. CASE UNCHANGED vars
    BY <2>1, WatchedStays DEF vars
  <2>2. CASE Tick
    <3>1. polled \in BOOLEAN /\ watching \in BOOLEAN
      BY DEF TypeOK, PastOK
    <3>2. /\ watching' => polled
          /\ watching' /\ clock.late => pc = "poll" /\ warp = 0
          /\ watching' /\ ~clock.late => watching
          /\ polled' = FALSE
      BY <2>2, <3>1, Zenon DEF Tick
    <3>3. /\ clock'.late = ~clock.late /\ (~clock.late => clock'.minute = clock.minute)
          /\ UNCHANGED <<pc, now, shown, real, warp, done, lastRun>>
      BY <2>2 DEF Tick
    <3>4. ClearedLate'
      BY <3>2, <3>3 DEF ClearedLate
    <3>5. Watched'
      BY <3>2, <3>3 DEF ClearedLate, Watched, TypeOK, Clock
    <3> QED
      BY <3>4, <3>5
  <2>3. CASE Check
    BY <2>3, WatchedChecks
  <2>4. CASE Monitor
    <3>1. CASE Initialise
      BY <3>1 DEF Initialise, ClearedLate, Watched
    <3>2. CASE WarpStarts
      BY <3>2 DEF WarpStarts, ClearedLate, Watched
    <3>3. CASE RtcTime \/ RtcSecond \/ RtcDate
      BY <3>3, WatchedLands DEF RtcTime, RtcSecond, RtcDate
    <3>4. CASE SetFlag \/ UpdateSchedule \/ WarpEnds \/ GetRtcTime \/ RtcSun
      BY <3>4, WatchedStays DEF SetFlag, UpdateSchedule, WarpEnds, GetRtcTime, RtcSun
    <3> QED
      BY <2>4, <3>1, <3>2, <3>3, <3>4 DEF Monitor
  <2>5. CASE Reload
    BY <2>5, WatchedStays
       DEF Reload, ReloadFails, ReloadClears, RowBegins, RowEnds, ReloadOverruns, ReloadEnds,
           ReloadTable
  <2> QED
    BY <2>1, <2>2, <2>3, <2>4, <2>5 DEF Next
<1>3. TypeOK /\ Watched /\ [Next]_vars
          => [clock'.minute # clock.minute /\ watching => lastRun = clock.minute]_vars
  <2> SUFFICES ASSUME TypeOK, Watched, Next, clock'.minute # clock.minute, watching
               PROVE  lastRun = clock.minute
    BY DEF vars
  <2>1. CASE Tick
    <3>1. clock.late
      BY <2>1 DEF Tick
    <3> QED
      BY <3>1 DEF Watched
  <2>2. CASE Check \/ Monitor \/ Reload
    <3>1. UNCHANGED clock
      BY <2>2
         DEF Check, Synced, PollsDisabled, Polls, PollsIdle, Begins, Scans, ScanEnds, Sends,
             NextRow, RowSeesDisabled, RoundEnds, TurnEnds, Overruns, Exit, Monitor, Initialise,
             SetFlag, WarpStarts, WarpEnds, GetRtcTime, RtcTime, RtcSecond, RtcDate, RtcSun, Lands,
             UpdateSchedule, Reload, ReloadFails, ReloadClears, RowBegins, RowEnds,
             ReloadOverruns, ReloadEnds, ReloadTable
    <3> QED
      BY <3>1
  <2> QED
    BY <2>1, <2>2 DEF Next
<1> QED
  BY <1>1, <1>2, <1>3, TypeCorrect, PTL DEF Spec, EveryMinuteRuns

=============================================================================
