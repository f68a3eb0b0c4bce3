----------------------------- MODULE EventExecute -----------------------------
(***************************************************************************)
(* The execution of scripts: Tasks_ExecuteMethodForEvent of                *)
(* src/main/EVENT_Actor.c.  The schedule, EXECUTESCENE and EXECUTEACTION   *)
(* put what is to run into Script_Execute_Que; the task asks the SQL actor *)
(* how many rows of Action.db a script has, then for the rows, and runs    *)
(* the methods of each.  Both answers come back through one queue,         *)
(* Script_Execute_Que2, and carry nothing of the question.  The task holds *)
(* EventActorMutex over all of this, and Update_Schedule_Table waits for   *)
(* it.                                                                     *)
(*                                                                         *)
(* LIGHTING.OFF is deferred the way LIGHTING.ON is and not told apart;     *)
(* Override_Sport, which exempts an event from it, the ramp times and the  *)
(* event log are left out.  So is what becomes of two senders that both    *)
(* find no task and create it on the same stack.                           *)
(***************************************************************************)
EXTENDS Integers, Sequences, SequencesExt

CONSTANTS
    Scripts,    \* the ids scripts are asked for by, also of some that Action.db does not have
    Table,      \* external: the rows of each, in Action.db
    QueueSize,  \* ScriptExecute_Ack_QUE_COUNT, 100
    Faulty,     \* answers may be lost or late, and memory exhausted
    MaxCommands \* bound on what is sent to the actor

\* Running a method is answered with ESP_OK, unless it "fails"; a "scene" runs a further script.
Method == [kind : {"on", "other", "scene", "fails"}, scene : Nat]

\* A row is for one device, this one or another.
Row == [own : BOOLEAN, methods : Seq(Method)]

ASSUME EventExecuteAssumption ==
    /\ 0 \in Scripts /\ Scripts \subseteq Nat /\ Table \in [Scripts -> Seq(Row)]
    /\ \A s \in Scripts : \A j \in DOMAIN Table[s] : \A k \in DOMAIN Table[s][j].methods :
           Table[s][j].methods[k].kind = "scene" => Table[s][j].methods[k].scene \in Scripts
    /\ QueueSize \in Nat \ {0} /\ Faulty \in BOOLEAN /\ MaxCommands \in Nat

VARIABLES
    pc,         \* where the task is
    script,     \* u16ScriptID
    first,      \* u16ScriptID_11
    action,     \* u16ActionIndex
    byAction,   \* u8ActionIndex_avl_local, static
    known,      \* Deviceid is set
    skip,       \* u8NotToExecuteFlag
    cnt,        \* Script_ID_cnt
    row,        \* root_new, the row whose methods run
    k,          \* i of the loop over its methods
    todo,       \* Script_Execute_Que
    answers,    \* Script_Execute_Que2 and what is on its way into it
    asked,      \* how many GETs of the DEVICEID are unanswered
    calls,      \* EXECUTESCENE commands the methods have sent to the actor
    plain,      \* execute_com
    flag,       \* Event_Execution_Flag
    warp,       \* startEPOC1 # 0
    deferring,  \* the time is before defer_on_u64
    holder,     \* EventActorMutex
    reload,     \* where Update_Schedule_Table is
    commands,   \* how many commands have been sent
    target,     \* history: the rows asked for by what is served
    ran,        \* history: the rows whose methods were begun for it
    byEvent,    \* history: it comes from the schedule
    undeferred, \* history: an event switched the lights on while that was deferred
    regular     \* history: every answer came in time, and nothing was asked for that miscounts

localVars == <<script, first, action, byAction, known, skip, cnt, row, k>>
queueVars == <<todo, answers, asked, calls>>
sharedVars == <<plain, flag, warp, deferring>>
pastVars == <<target, ran, byEvent, undeferred, regular>>
vars == <<pc, localVars, queueVars, sharedVars, holder, reload, commands, pastVars>>

\* The rows of the table are referred to by script and place.  An ActionIndex is such a reference,
\* 0 or one that no row of the table has.
None == <<0, 0>>
Unknown == <<1, 0>>
Refs == UNION {{s} \X (1 .. Len(Table[s])) : s \in Scripts}
Actions == Refs \cup {None, Unknown}
RowsOf(s) == [j \in 1 .. Len(Table[s]) |-> <<s, j>>]
RowOf(a) == IF a \in Refs THEN <<a>> ELSE <<>>
At(ref) == Table[ref[1]][ref[2]]

Count(n) == [kind |-> "count", n |-> n, ref |-> None]
RowAnswer(ref) == [kind |-> "row", n |-> 0, ref |-> ref]
AnswerRows(refs) == [j \in DOMAIN refs |-> RowAnswer(refs[j])]

-----------------------------------------------------------------------------

Init ==
    /\ pc = "none" /\ script = 0 /\ first = 0 /\ action = None /\ byAction = FALSE
    /\ known = FALSE /\ skip = FALSE /\ cnt = 0 /\ row = None /\ k = 1
    /\ todo = <<>> /\ answers = <<>> /\ asked = 0 /\ calls = <<>>
    /\ plain = FALSE /\ flag = TRUE /\ warp = FALSE /\ deferring = FALSE
    /\ holder = "none" /\ reload = "none" /\ commands = 0
    /\ target = <<>> /\ ran = <<>> /\ byEvent = FALSE /\ undeferred = FALSE /\ regular = TRUE

-----------------------------------------------------------------------------
(***************************************************************************)
(* What is put into Script_Execute_Que.  Its sender creates the task if    *)
(* there is none, and the send gives up after one tick.                    *)
(***************************************************************************)

ScriptMessage(s, e, n) == [names |-> "script", script |-> s, action |-> None, event |-> e, skip |-> n]
ActionMessage(a) == [names |-> "action", script |-> 0, action |-> a, event |-> FALSE, skip |-> FALSE]
DeviceMessage == [names |-> "device", script |-> 0, action |-> None, event |-> FALSE, skip |-> FALSE]

\* The message the task has taken and not yet read is still the first of todo.
Waiting == IF pc \in {"lock", "locked"} THEN Len(todo) - 1 ELSE Len(todo)

\* Mutant: the queue has no end.
PutAlways(m) == todo' = Append(todo, m)

Put(m) == todo' = IF Waiting < QueueSize THEN Append(todo, m) ELSE todo

\* A new task asks for the DEVICEID, or ends at once if events are disabled.
Send(m) ==
    /\ Put(m)
    /\ IF pc = "none" /\ flag
       THEN /\ pc' = "receive" /\ asked' = asked + 1
            /\ script' = 0 /\ first' = 0 /\ action' = None /\ known' = FALSE
       ELSE UNCHANGED <<pc, asked, script, first, action, known>>
    /\ UNCHANGED <<byAction, skip, cnt, row, k, answers, flag, warp, deferring, holder, reload,
                   pastVars>>

Command == commands < MaxCommands /\ commands' = commands + 1

\* Tasks_EventCheck has found the record of a script due.
SendEvent ==
    /\ Command
    /\ \E s \in Scripts : Send(ScriptMessage(s, TRUE, warp))
    /\ plain' = FALSE
    /\ UNCHANGED calls

\* EXECUTESCENE of a user
SendScene ==
    /\ Command
    /\ \E s \in Scripts : Send(ScriptMessage(s, FALSE, FALSE))
    /\ plain' = TRUE
    /\ UNCHANGED calls

\* EXECUTESCENE of a method; EVENT_SCENE says that it runs for an event.
TakeCall ==
    /\ calls # <<>>
    /\ Send(ScriptMessage(Head(calls).script, FALSE, FALSE))
    /\ plain' = Head(calls).plain
    /\ calls' = Tail(calls)
    /\ UNCHANGED commands

\* EXECUTEACTION, of any ActionIndex
SendAction ==
    /\ Command
    /\ \E a \in Actions : Send(ActionMessage(a))
    /\ UNCHANGED <<plain, calls>>

DeviceAnswers ==
    /\ asked > 0 /\ asked' = asked - 1
    /\ Put(DeviceMessage)
    /\ UNCHANGED <<pc, localVars, answers, calls, sharedVars, holder, reload, commands, pastVars>>

-----------------------------------------------------------------------------
(***************************************************************************)
(* Tasks_ExecuteMethodForEvent.                                            *)
(***************************************************************************)

Receive ==
    /\ pc = "receive" /\ todo # <<>>
    /\ pc' = "lock"
    /\ UNCHANGED <<localVars, queueVars, sharedVars, holder, reload, commands, pastVars>>

\* One method for every row of this device, that answers with ESP_OK and reads no answers itself.
OneMethod(ref) ==
    At(ref).own => Len(At(ref).methods) = 1 /\ At(ref).methods[1].kind \in {"on", "other"}

\* What the fields of a message set: the others keep what an earlier message set.
Takes(m) ==
    /\ script' = IF m.names = "script" THEN m.script ELSE script
    /\ first' = IF m.names = "script" THEN m.script ELSE first
    /\ action' = IF m.names = "action" THEN m.action ELSE action
    /\ byAction' = IF m.names = "device" THEN byAction ELSE m.names = "action"
    /\ known' = (known \/ m.names = "device")
    /\ skip' = m.skip
    /\ byEvent' = IF m.names = "device" THEN byEvent ELSE m.event

Runnable == known /\ (script # 0 \/ action # None)

Locks ==
    /\ pc = "lock" /\ holder = "none"
    /\ pc' = "locked" /\ holder' = "executor"
    /\ UNCHANGED <<localVars, queueVars, sharedVars, reload, commands, pastVars>>

\* With the mutex the message is read; without a device or anything to run it is done with.
\* An action is asked for as one row, whether Action.db has it or not.
Begins ==
    /\ pc = "locked"
    /\ todo' = Tail(todo) /\ Takes(Head(todo))
    /\ ran' = <<>> /\ row' = None /\ k' = 1
    /\ IF ~Runnable'
       THEN pc' = "done" /\ target' = <<>> /\ UNCHANGED <<cnt, answers>>
       ELSE IF byAction'
       THEN /\ pc' = "rows" /\ cnt' = 1
            /\ target' = RowOf(action') /\ answers' = answers \o AnswerRows(RowOf(action'))
       ELSE /\ pc' = "count" /\ cnt' = 0
            /\ target' = RowsOf(script')
            /\ answers' = Append(answers, Count(Len(Table[script'])))
    /\ regular' = (/\ regular /\ \A j \in DOMAIN target' : OneMethod(target'[j])
                   /\ pc' = "rows" => action' \in Refs)
    /\ UNCHANGED <<asked, calls, sharedVars, holder, reload, commands, undeferred>>

TakesAnswer ==
    /\ answers # <<>> /\ answers' = Tail(answers)
    /\ UNCHANGED <<script, first, action, byAction, known, skip, todo, asked, calls, sharedVars,
                   holder, reload, commands, target, byEvent, undeferred, regular>>

\* Mutant: the rows are counted from 0.
FromZero(a) == IF a.kind = "count" THEN a.n - 1 ELSE 0

\* An answer without "COUNT()" leaves the count at 0.
CountIn(a) == IF a.kind = "count" THEN a.n ELSE 0

CountArrives ==
    /\ pc = "count" /\ answers # <<>>
    /\ cnt' = CountIn(Head(answers))
    /\ IF cnt' > 0 THEN pc' = "rows" /\ answers' = Tail(answers) \o AnswerRows(RowsOf(script))
                   ELSE pc' = "done" /\ answers' = Tail(answers)
    /\ UNCHANGED <<script, first, action, byAction, known, skip, row, k, todo, asked, calls,
                   sharedVars, holder, reload, commands, pastVars>>

\* Where the loop over the rows goes on.
Loop(n) == IF n > 0 THEN "rows" ELSE "done"

\* Mutant: the row of another device is not counted.
CountOwnOnly(a) == cnt

\* The row of another device is counted; a count that comes instead of a row is not.
NotOwn(a) == IF a.kind = "row" THEN cnt - 1 ELSE cnt

RowArrives ==
    /\ pc = "rows" /\ answers # <<>>
    /\ LET a == Head(answers) IN
       IF a.kind = "row" /\ At(a.ref).own
       THEN /\ pc' = IF At(a.ref).methods = <<>> THEN "rows" ELSE "methods"
            /\ row' = a.ref /\ k' = 1 /\ ran' = Append(ran, a.ref) /\ UNCHANGED cnt
       ELSE cnt' = NotOwn(a) /\ pc' = Loop(cnt') /\ UNCHANGED <<row, k, ran>>
    /\ TakesAnswer

CurrentMethod == At(row).methods[k]

\* After a method: the next of the row, else the next row.
GoesOn ==
    IF k < Len(At(row).methods) THEN pc' = "methods" /\ k' = k + 1
                                ELSE pc' = Loop(cnt') /\ UNCHANGED k

MethodStep ==
    UNCHANGED <<first, action, byAction, known, skip, row, todo, asked, sharedVars, holder, reload,
                commands, target, ran, byEvent, regular>>

\* For a simulated event nothing is run, and each method counts as run.
Skips ==
    /\ pc = "methods" /\ ~byAction /\ (skip \/ warp)
    /\ cnt' = cnt - 1 /\ GoesOn
    /\ MethodStep /\ UNCHANGED <<script, answers, calls, undeferred>>

Runs == pc = "methods" /\ (byAction \/ ~(skip \/ warp))

\* execute_com exempts what a user's scene runs; the flag is not the message's own.
Defers == deferring /\ ~plain /\ ~byAction

RunsMethod ==
    /\ Runs /\ CurrentMethod.kind # "scene"
    /\ cnt' = IF CurrentMethod.kind = "fails" THEN cnt ELSE cnt - 1
    /\ undeferred' = (undeferred \/ (/\ CurrentMethod.kind = "on" /\ byEvent /\ ~byAction
                                     /\ deferring /\ ~Defers))
    /\ GoesOn
    /\ MethodStep /\ UNCHANGED <<script, answers, calls>>

\* The console takes EXECUTESCENE; of an event it first went through the rows of the scene.
Calls(s, p) == calls' = Append(calls, [script |-> s, plain |-> p])

RunsScene ==
    /\ Runs /\ CurrentMethod.kind = "scene" /\ (plain \/ byAction)
    /\ cnt' = cnt - 1 /\ Calls(CurrentMethod.scene, TRUE) /\ GoesOn
    /\ MethodStep /\ UNCHANGED <<script, answers, undeferred>>

\* The scene of an event: its script is asked for as the event's was.
SceneBegins ==
    /\ Runs /\ CurrentMethod.kind = "scene" /\ ~plain /\ ~byAction /\ CurrentMethod.scene # first
    /\ script' = CurrentMethod.scene /\ cnt' = 0
    /\ answers' = Append(answers, Count(Len(Table[CurrentMethod.scene])))
    /\ pc' = "sceneCount"
    /\ MethodStep /\ UNCHANGED <<k, calls, undeferred>>

SceneEnds == cnt' = 0 - 1 /\ Calls(script, FALSE) /\ GoesOn

SceneCountArrives ==
    /\ pc = "sceneCount" /\ answers # <<>>
    /\ IF CountIn(Head(answers)) > 0
       THEN /\ cnt' = CountIn(Head(answers)) /\ pc' = "sceneRows"
            /\ answers' = Tail(answers) \o AnswerRows(RowsOf(script)) /\ UNCHANGED <<k, calls>>
       ELSE SceneEnds /\ answers' = Tail(answers)
    /\ MethodStep /\ UNCHANGED <<script, undeferred>>

\* Whatever comes is counted as a row of the scene.
SceneRowArrives ==
    /\ pc = "sceneRows" /\ answers # <<>>
    /\ answers' = Tail(answers)
    /\ IF cnt > 1 THEN cnt' = cnt - 1 /\ UNCHANGED <<pc, k, calls>> ELSE SceneEnds
    /\ MethodStep /\ UNCHANGED <<script, undeferred>>

\* Mutant: the mutex is left to the task that ends.
KeepMutex == UNCHANGED holder

GiveMutex == holder' = "none"

Exit ==
    /\ GiveMutex /\ pc' = "none"
    /\ UNCHANGED <<first, action, byAction, known, skip, cnt, row, k, queueVars, sharedVars, reload,
                   commands, target, ran, byEvent, undeferred>>

\* "As Scene ID and schedule ID are same, cannot execute the event."
SameScene ==
    /\ Runs /\ CurrentMethod.kind = "scene" /\ ~plain /\ ~byAction /\ CurrentMethod.scene = first
    /\ script' = CurrentMethod.scene /\ Exit /\ UNCHANGED regular

\* The flag is looked at when something was to be run.
Done ==
    /\ pc = "done"
    /\ IF Runnable /\ ~flag
       THEN Exit /\ UNCHANGED <<script, regular>>
       ELSE /\ GiveMutex /\ pc' = "receive"
            /\ UNCHANGED <<localVars, queueVars, sharedVars, reload, commands, pastVars>>

-----------------------------------------------------------------------------
(***************************************************************************)
(* Answers that do not come, or not within the 10 seconds of a wait.  A    *)
(* wait for a row that runs out is begun again.                            *)
(***************************************************************************)

Late == Faulty \/ answers = <<>>

CountTimesOut ==
    /\ pc = "count" /\ Late
    /\ pc' = "done" /\ regular' = FALSE
    /\ UNCHANGED <<localVars, queueVars, sharedVars, holder, reload, commands, target, ran, byEvent,
                   undeferred>>

SceneTimesOut ==
    /\ pc = "sceneCount" /\ Late
    /\ SceneEnds
    /\ MethodStep /\ UNCHANGED <<script, answers, undeferred>>

\* A queue is full, or the SQL actor fails.
AnswerLost ==
    /\ Faulty
    /\ \E j \in DOMAIN answers : answers' = RemoveAt(answers, j)
    /\ regular' = FALSE
    /\ UNCHANGED <<pc, localVars, todo, asked, calls, sharedVars, holder, reload, commands, target,
                   ran, byEvent, undeferred>>

\* cJSON_Parse finds no memory, for an answer or for the message itself: the task ends, what it
\* took is gone and the other answers are left where they are.
ParseFails ==
    /\ Faulty /\ GiveMutex /\ pc' = "none"
    /\ \/ /\ pc = "locked"
          /\ todo' = Tail(todo) /\ UNCHANGED <<answers, regular>>
       \/ /\ pc \in {"count", "rows", "sceneCount"} /\ answers # <<>>
          /\ answers' = Tail(answers) /\ regular' = FALSE /\ UNCHANGED todo
    /\ UNCHANGED <<localVars, asked, calls, sharedVars, reload, commands, target, ran, byEvent,
                   undeferred>>

-----------------------------------------------------------------------------
(***************************************************************************)
(* The tasks the executor shares the flag, the time warp, the time and the *)
(* mutex with.                                                             *)
(***************************************************************************)

SharedStep ==
    UNCHANGED <<pc, localVars, queueVars, plain, holder, pastVars>>

SetFlag == Command /\ flag' = ~flag /\ SharedStep /\ UNCHANGED <<warp, deferring, reload>>

\* TIMEWARP, and the end of one in Tasks_EventCheck
Warps == Command /\ warp' = ~warp /\ SharedStep /\ UNCHANGED <<flag, deferring, reload>>

\* A SET of DEFER_ON, and the end of that time
DeferChanges == Command /\ deferring' = ~deferring /\ SharedStep /\ UNCHANGED <<flag, warp, reload>>

UpdateSchedule ==
    /\ Command /\ flag /\ reload = "none"
    /\ reload' = "lock"
    /\ SharedStep /\ UNCHANGED <<flag, warp, deferring>>

ReloadStep ==
    UNCHANGED <<pc, localVars, queueVars, sharedVars, commands, pastVars>>

ReloadLocks ==
    /\ reload = "lock" /\ holder = "none"
    /\ reload' = "inside" /\ holder' = "reload"
    /\ ReloadStep

\* Update_Schedule_Table gives the mutex on each of its ways out.
ReloadEnds ==
    /\ reload = "inside"
    /\ reload' = "none" /\ holder' = "none"
    /\ ReloadStep

-----------------------------------------------------------------------------

Execute ==
    \/ Receive \/ Locks \/ Begins \/ CountArrives \/ RowArrives \/ Skips \/ RunsMethod \/ RunsScene
    \/ SceneBegins \/ SceneCountArrives \/ SceneRowArrives \/ SameScene \/ Done
    \/ CountTimesOut \/ SceneTimesOut

Requests == SendEvent \/ SendScene \/ SendAction \/ TakeCall \/ DeviceAnswers

Others == SetFlag \/ Warps \/ DeferChanges \/ UpdateSchedule \/ ReloadLocks \/ ReloadEnds

Next == Execute \/ AnswerLost \/ ParseFails \/ Requests \/ Others

Spec == Init /\ [][Next]_vars

\* The scheduler runs each task in the end.
FairSpec == Spec /\ WF_vars(Execute) /\ WF_vars(ReloadLocks) /\ WF_vars(ReloadEnds)

-----------------------------------------------------------------------------
(***************************************************************************)
(* Properties.                                                             *)
(***************************************************************************)

Inside == {"locked", "count", "rows", "methods", "sceneCount", "sceneRows", "done"}

LocalsOK ==
    /\ pc \in {"none", "receive", "lock"} \cup Inside
    /\ script \in Scripts /\ first \in Scripts
    /\ action \in Actions /\ byAction \in BOOLEAN
    /\ known \in BOOLEAN /\ skip \in BOOLEAN /\ cnt \in Int
    /\ row \in Refs \cup {None} /\ k \in Nat
    /\ pc = "methods" => row # None /\ k \in DOMAIN At(row).methods

Messages ==
    [names : {"script", "action", "device"}, script : Scripts, action : Actions, event : BOOLEAN,
     skip : BOOLEAN]
Answers ==
    [kind : {"count"}, n : Nat, ref : {None}] \cup [kind : {"row"}, n : {0}, ref : Refs]

QueuesOK ==
    /\ todo \in Seq(Messages) /\ Waiting <= QueueSize
    /\ pc \in {"lock", "locked"} => todo # <<>>
    /\ answers \in Seq(Answers) /\ asked \in Nat
    /\ calls \in Seq([script : Scripts, plain : BOOLEAN])

OthersOK ==
    /\ plain \in BOOLEAN /\ flag \in BOOLEAN /\ warp \in BOOLEAN /\ deferring \in BOOLEAN
    /\ holder \in {"none", "executor", "reload"} /\ reload \in {"none", "lock", "inside"}
    /\ commands \in 0 .. MaxCommands

PastOK ==
    /\ target \in Seq(Refs) /\ ran \in Seq(Refs)
    /\ byEvent \in BOOLEAN /\ undeferred \in BOOLEAN /\ regular \in BOOLEAN

\* Whatever answers come in whatever order, a row is never run from where there is none and the
\* queue of scripts keeps to its size.
TypeOK == LocalsOK /\ QueuesOK /\ OthersOK /\ PastOK

\* The executor holds the mutex exactly while it works on a message, and so the schedule is never
\* reloaded under it: no way out of the task, of which there are many, forgets to give it.
MutexIsReturned ==
    /\ holder = "executor" <=> pc \in Inside
    /\ holder = "reload" <=> reload = "inside"

\* As long as every answer came in time, each row ran one method and each action asked for was in
\* Action.db, what ran for a message are the rows of this device of what it asked for, each once and
\* in their order: no answer meant for an earlier question is taken for its own, though nothing in
\* the answers tells them apart.
RowsAreAsked ==
    regular /\ pc = "done" =>
        /\ {ran[j] : j \in DOMAIN ran} = {target[j] : j \in {i \in DOMAIN target : At(target[i]).own}}
        /\ \A j \in DOMAIN ran : \A i \in 1 .. j - 1 : ran[i][2] < ran[j][2]

\* Under the same condition the executor waits for what will come and takes all that comes: its
\* counter is the number of rows under way, so that it neither waits, with the mutex, for a row more
\* nor leaves one to the next message, which would take it for its own answer.  The condition says
\* what else could make it wait for ever: a lost answer, a row whose methods fail or are none, and
\* an ActionIndex that Action.db does not have, for which the counter is 1 and nothing is answered.
AnswersAreCounted ==
    regular =>
        /\ pc = "count" => answers # <<>>
        /\ pc = "rows" => cnt > 0 /\ cnt = Len(answers)
        /\ pc \in {"none", "receive", "lock", "locked"} => answers = <<>>

\* Under the same condition a reload of the schedule gets its turn: the executor counts each row
\* it takes and does not wait, with the mutex, for one that will not come.  After an ActionIndex
\* that Action.db does not have it may wait for ever.
ReloadGetsIn == reload = "lock" ~> reload = "inside" \/ ~regular

\* "End epoc time for defer": until then an event does not switch the lights on.
DeferHonoured == ~undeferred

=============================================================================
