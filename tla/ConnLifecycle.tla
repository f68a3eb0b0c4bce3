----------------------------- MODULE ConnLifecycle -----------------------------
(***************************************************************************)
(* Who is in charge of the connection: the SYSTEM task, Server_Connect and *)
(* MonSrvConn of src/main/SYSTEM_Actor.c with the IHUB actor, as one       *)
(* composition.  Server_Connect opens a session and ends; MonSrvConn then  *)
(* watches it by events and by a poll, and ends in Reset_Stack, whose last *)
(* step asks SYSTEM for the next SERVER_CONNECT.  Any of the three tasks   *)
(* may be inside Reset_Stack while the others are.                         *)
(*                                                                         *)
(* IHUB's events to SYSTEM and the messages to Server_Connect are queues,  *)
(* because their order matters; the other queues are the sets of the       *)
(* messages in them: the properties do not depend on their order.  A       *)
(* handler takes milliseconds, so a delay (vTaskDelay, a receive that      *)
(* times out) ends only when no task has something to take: Quiet.         *)
(***************************************************************************)
EXTENDS Integers, Sequences, FiniteSets

CONSTANTS
    Lossy,       \* TRUE: a queue full for a tick (QUE_DELAY) may drop a message
    MaxCommands, \* bound on the user's commands
    MaxCalls,    \* bound on the SERVER_CONNECTs waiting at SYSTEM
    MaxQueue,    \* bound on the messages in due, and on those in MonSrvConn_Que
    MaxNews,     \* bound on the IHUB events waiting at SYSTEM
    MaxMessages  \* the length of ServerConnect_Que

ASSUME ConstantsAssumption ==
    /\ Lossy \in BOOLEAN /\ MaxCommands \in Nat
    /\ MaxCalls \in Nat \ {0} /\ MaxQueue \in Nat \ {0} /\ MaxNews \in Nat \ {0}
    /\ MaxMessages \in Nat \ {0}

VARIABLES
    flag,     \* Server_Conn_Flag is Enable
    started,  \* the READ of the SYSTEM file has been answered since boot
    sys,      \* SYSTEM: "ready" to take a message, "poll" in initiate_ServerConnect, or a place of Reset_Stack
    calls,    \* SERVER_CONNECTs in SYSTEM's queue
    news,     \* IHUB_CONNECTION_STATUS events in SYSTEM's queue
    due,      \* requests without an answer yet, and answers and events SYSTEM has yet to forward
    sc,       \* Server_Connect: "none" (ServerConnect_Handle is NULL), "run", "busy", "hub", a place of Reset_Stack
    scq,      \* ServerConnect_Que
    mon,      \* MonSrvConn: "none" (MonSrvConn_Handle is NULL), CurrentMonSrvState, or a place of Reset_Stack
    monq,     \* MonSrvConn_Que
    seen,     \* l_wifi_status and l_eth_status: the links the monitor saw connected
    hub,      \* the IHUB actor: "off" (DEINIT), "idle", or the state of its session
    leaving,  \* a session task told to stop by DEINIT is still on its way out
    excused,  \* history: the flag went off, the SERVER_CONNECT of a task that ended was lost, or
              \* Server_Connect ended on a late success
    late,     \* history: a success in scq is of a session whose monitor has ended meanwhile
    commands  \* commands of the user so far

sysVars == <<flag, started, sys, calls, news>>
scVars == <<sc, scq>>
monVars == <<mon, monq, seen>>
hubVars == <<hub, leaving>>
vars == <<sysVars, due, scVars, monVars, hubVars, excused, late, commands>>

\* A CONNECTED is in the queue q of Server_Connect.
HasSuccess(q) == \E i \in DOMAIN q : q[i] = "UP"

\* Reset_Stack: the delay before IHUB's DEINIT, the one before its INIT, the one before
\* SERVER_CONNECT is sent.
Resetting == {"wait", "down", "up"}
Polling == {"idle", "ihub", "links", "apinfo", "rescue", "scan"}
Session == {"connecting", "connected", "recovering"}
Asked == {"status", "links", "apinfo", "rescue", "scan"}
Forwarded == (Asked \ {"status"}) \cup {"STATUS_OK", "STATUS_BAD", "WIFI_DOWN", "ETH_DOWN"}

FlagsOK ==
    /\ flag \in BOOLEAN /\ started \in BOOLEAN /\ leaving \in BOOLEAN
    /\ excused \in BOOLEAN /\ late \in BOOLEAN
PlacesOK ==
    /\ sys \in {"ready", "poll"} \cup Resetting
    /\ sc \in {"none", "run", "busy", "hub"} \cup Resetting
    /\ mon \in {"none", "ending", "leaving"} \cup Polling \cup Resetting
    /\ hub \in {"off", "idle"} \cup Session
    /\ calls \in 0 .. MaxCalls /\ commands \in 0 .. MaxCommands
QueuesOK ==
    /\ news \in Seq({"CONNECTED", "DISCONNECTED"}) /\ Len(news) <= MaxNews
    /\ due \subseteq Asked \cup Forwarded
    /\ scq \in Seq({"UP", "DOWN", "REINIT"}) /\ Len(scq) <= MaxMessages
    /\ monq \subseteq Forwarded \cup {"CONNECTED", "DISCONNECTED", "DELETE_MON"}
    /\ seen \subseteq {"wifi", "eth"}

\* The type invariant
TypeOK == FlagsOK /\ PlacesOK /\ QueuesOK

Init ==
    /\ flag = TRUE /\ started = FALSE /\ sys = "ready" /\ calls = 0 /\ news = <<>>
    /\ due = {} /\ sc = "none" /\ scq = <<>>
    /\ mon = "none" /\ monq = {} /\ seen = {}
    /\ hub = "idle" /\ leaving = FALSE /\ excused = FALSE /\ late = FALSE /\ commands = 0

\* No task that takes messages has one.
Quiet ==
    /\ sys = "ready" => calls = 0 /\ news = <<>>
    /\ sc \in {"run", "hub"} => scq = <<>>
    /\ mon \in Polling => monq = {}
    /\ mon \notin {"ending", "leaving"}

\* A message in a queue, if it is not full
Put(queue, m) == IF Cardinality(queue) < MaxQueue THEN queue \cup {m} ELSE queue

\* xQueueSend to the queue of a task, if its handle is not NULL.  What comes to a monitor
\* that resets the stack is thrown away by its xQueueReset.
SendToServerConnect(m) ==
    \/ sc # "none" /\ Len(scq) < MaxMessages /\ scq' = Append(scq, m)
    \/ (sc = "none" \/ Len(scq) = MaxMessages \/ Lossy) /\ scq' = scq
SendToMonitor(m) ==
    \/ monq' = IF mon \in Polling \cup {"leaving"} THEN Put(monq, m) ELSE monq
    \/ Lossy /\ monq' = monq

\* The first step of Reset_Stack disconnects Wi-Fi, which an event reports.
BeginReset == due' \in {due, Put(due, "WIFI_DOWN")}

-------------------------------------------------------------------------------
(* The SYSTEM task                                                         *)

CreateServerConnect ==
    /\ sc' = "run" /\ excused' = ~flag

\* initiate_ServerConnect, up to its first delay
Initiate ==
    \/ /\ mon # "none" /\ sys' = "poll"
       /\ UNCHANGED <<sc, scq, excused>>
    \/ /\ mon = "none" /\ sc = "none" /\ sys' = "ready"
       /\ CreateServerConnect /\ UNCHANGED scq
    \/ /\ mon = "none" /\ sc # "none" /\ sys' = "ready"
       /\ SendToServerConnect("REINIT")
       /\ UNCHANGED <<sc, excused>>

\* SERVER_CONNECT
TakeServerConnect ==
    /\ sys = "ready" /\ calls > 0
    /\ calls' = calls - 1
    /\ \/ flag /\ Initiate
       \/ ~flag /\ UNCHANGED <<sys, scVars, excused>>
    /\ UNCHANGED <<flag, started, news, due, monVars, hubVars, late, commands>>

\* Analyse_Response: FILE_SYSTEM's READ, once after a boot
TakeRead ==
    /\ sys = "ready" /\ ~started
    /\ started' = TRUE
    /\ \/ sc = "none" /\ Initiate
       \/ sc # "none" /\ UNCHANGED <<sys, scVars, excused>>
    /\ UNCHANGED <<flag, calls, news, due, monVars, hubVars, late, commands>>

\* The monitor has ended within the five seconds.
PollSeesEnd ==
    /\ sys = "poll" /\ mon = "none"
    /\ sys' = "ready"
    /\ \/ sc = "none" /\ CreateServerConnect
       \/ sc # "none" /\ UNCHANGED <<sc, excused>>
    /\ UNCHANGED <<flag, started, calls, news, due, scq, monVars, hubVars, late, commands>>

\* It has not: DELETE_MON.
PollRunsOut ==
    /\ sys = "poll" /\ mon # "none" /\ Quiet
    /\ sys' = "ready"
    /\ SendToMonitor("DELETE_MON")
    /\ UNCHANGED <<flag, started, calls, news, due, scVars, mon, seen, hubVars, excused, late, commands>>

\* Mutant: the new monitor is not started while Server_Connect runs.
WatchUnlessRunning == IF sc = "none" THEN mon' = "idle" ELSE mon' = mon

\* InitMonSrvConn
StartMonitor == mon' = "idle"

\* Analyse_Response: IHUB_CONNECTION_STATUS CONNECTED
TakeConnected ==
    /\ sys = "ready" /\ news # <<>> /\ Head(news) = "CONNECTED"
    /\ news' = Tail(news)
    /\ \/ /\ mon = "none"
          /\ SendToServerConnect("UP")
          /\ StartMonitor
          /\ seen' = {} /\ UNCHANGED monq
       \/ /\ mon # "none"
          /\ SendToMonitor("CONNECTED")
          /\ UNCHANGED <<scq, mon, seen>>
    /\ UNCHANGED <<flag, started, sys, calls, due, sc, hubVars, excused, late, commands>>

\* Analyse_Response: IHUB_CONNECTION_STATUS DISCONNECTED
TakeDisconnected ==
    /\ sys = "ready" /\ news # <<>> /\ Head(news) = "DISCONNECTED"
    /\ news' = Tail(news)
    /\ \/ /\ mon = "none" /\ sc # "none"
          /\ SendToServerConnect("DOWN")
          /\ UNCHANGED <<sys, due, monq>>
       \/ /\ mon = "none" /\ sc = "none" /\ flag
          /\ sys' = "wait" /\ BeginReset
          /\ UNCHANGED <<scq, monq>>
       \/ /\ mon = "none" /\ sc = "none" /\ ~flag
          /\ UNCHANGED <<sys, due, scq, monq>>
       \/ /\ mon # "none"
          /\ SendToMonitor("DISCONNECTED")
          /\ UNCHANGED <<sys, due, scq>>
    /\ UNCHANGED <<flag, started, calls, sc, mon, seen, hubVars, excused, late, commands>>

\* Analyse_Response: an answer to the monitor's poll, or an event of WIFI or ETH
Forward(m) ==
    /\ sys = "ready" /\ m \in due \cap Forwarded
    /\ due' = due \ {m}
    /\ SendToMonitor(m)
    /\ UNCHANGED <<sysVars, scVars, mon, seen, hubVars, excused, late, commands>>

-------------------------------------------------------------------------------
(* Reset_Stack, in the task whose place is at                              *)

DeinitActors ==
    /\ hub' = "off" /\ leaving' = (leaving \/ hub \in Session)

\* Mutant: IHUB is initialised only if the session task has gone.
InitWhenGone == hub' = (IF hub = "off" /\ ~leaving THEN "idle" ELSE hub) /\ UNCHANGED leaving

InitActors == hub' = (IF hub = "off" THEN "idle" ELSE hub) /\ UNCHANGED leaving

\* Mutant: the bound is forgotten.
CallUnbounded == calls' = calls + 1

\* SERVER_CONNECT; with MaxCalls of them waiting one more is lost.
CallServerConnect == calls' = IF calls < MaxCalls THEN calls + 1 ELSE calls

\* The next place, and what that step does; next is where the task goes at the end.
ResetStep(at, after, next) ==
    /\ at \in Resetting /\ Quiet
    /\ \/ at = "wait" /\ after = "down" /\ DeinitActors /\ UNCHANGED calls
       \/ at = "down" /\ after = "up" /\ InitActors /\ UNCHANGED calls
       \/ /\ at = "up" /\ after = next
          /\ CallServerConnect
          /\ UNCHANGED hubVars

\* The last step's SERVER_CONNECT is lost.
CallLost(at) == Lossy /\ at = "up" /\ Quiet

SysReset ==
    /\ \E p \in Resetting \cup {"ready"} : ResetStep(sys, p, "ready") /\ sys' = p
    /\ UNCHANGED <<flag, started, news, due, scVars, monVars, excused, late, commands>>

ScReset ==
    /\ \E p \in Resetting \cup {"run"} : ResetStep(sc, p, "run") /\ sc' = p
    /\ UNCHANGED <<flag, started, sys, news, due, scq, monVars, excused, late, commands>>

MonReset ==
    /\ \E p \in Resetting \cup {"ending"} : ResetStep(mon, p, "ending") /\ mon' = p
    /\ UNCHANGED <<flag, started, sys, news, due, scVars, monq, seen, excused, late, commands>>

\* The call that ends a reset is lost: Server_Connect goes on by itself, the others
\* leave it to nobody.
SysCallLost ==
    /\ CallLost(sys) /\ sys' = "ready" /\ excused' = TRUE
    /\ UNCHANGED <<flag, started, calls, news, due, scVars, monVars, hubVars, late, commands>>

ScCallLost ==
    /\ CallLost(sc) /\ sc' = "run"
    /\ UNCHANGED <<sysVars, due, scq, monVars, hubVars, excused, late, commands>>

MonCallLost ==
    /\ CallLost(mon) /\ mon' = "ending" /\ excused' = TRUE
    /\ UNCHANGED <<sysVars, due, scVars, monq, seen, hubVars, late, commands>>

-------------------------------------------------------------------------------
(* Server_Connect, at the level of what the others see of it               *)

ScRest == UNCHANGED <<sysVars, monVars, excused, late, commands>>

\* The flag is read at the top of the loop.
ScDisabled ==
    /\ ~flag /\ sc \in {"run", "hub"}
    /\ sc' = "none"
    /\ UNCHANGED <<scq, due, hubVars>> /\ ScRest

\* REINIT starts the attempt over; other messages tell a task that does not wait for
\* IHUB nothing.
ScTake ==
    /\ sc = "run" /\ scq # <<>>
    /\ scq' = Tail(scq) /\ late' = (late /\ HasSuccess(scq'))
    /\ UNCHANGED <<sysVars, sc, due, monVars, hubVars, excused, commands>>

\* handle_waiting_for_ihub_response: CONNECTED, or a monitor that runs, is success.  The
\* task ends, whatever comes after it in the queue.
ScHubAnswer ==
    /\ sc = "hub" /\ scq # <<>>
    /\ scq' = Tail(scq) /\ late' = (late /\ HasSuccess(scq'))
    /\ \/ /\ Head(scq) = "REINIT" /\ sc' = "run"
          /\ UNCHANGED <<due, excused>>
       \/ /\ Head(scq) = "UP" \/ (Head(scq) = "DOWN" /\ mon # "none")
          /\ sc' = "none"
          /\ excused' = (excused \/ (late /\ mon = "none"))
          /\ UNCHANGED due
       \/ /\ Head(scq) = "DOWN" /\ mon = "none"
          /\ sc' = "wait" /\ BeginReset
          /\ UNCHANGED excused
    /\ UNCHANGED <<sysVars, monVars, hubVars, commands>>

\* Ten seconds pass without a message, and in the end its minute.
ScHubTimeout ==
    /\ sc = "hub" /\ Quiet
    /\ \/ mon # "none" /\ sc' = "none" /\ UNCHANGED due
       \/ mon = "none" /\ sc' = "wait" /\ BeginReset
    /\ UNCHANGED <<scq, hubVars>> /\ ScRest

\* A handler delays, for the announce up to 100 seconds.
ScDelay ==
    /\ \/ sc = "run" /\ sc' = "busy"
       \/ sc = "busy" /\ Quiet /\ sc' = "run"
    /\ UNCHANGED <<scq, due, hubVars>> /\ ScRest

\* FAILED_1 to FAILED_13: 30 seconds, then Reset_Stack.
ScFails ==
    /\ sc = "run"
    /\ sc' = "wait" /\ BeginReset
    /\ UNCHANGED <<scq, hubVars>> /\ ScRest

\* The device is announced: CONNECT, which IHUB refuses while it has a session.  A session
\* task on its way out is revived by it, or nothing starts.  The answers of the attempt, the
\* last one perhaps that of an earlier attempt, may be ahead of what is in the queue now.
ScConnectsHub ==
    /\ sc = "run"
    /\ sc' = "hub"
    /\ \/ hub \in Session /\ UNCHANGED hubVars
       \/ hub \notin Session /\ hub' = "connecting" /\ leaving' = FALSE
       \/ hub \notin Session /\ leaving /\ hub' = "idle" /\ UNCHANGED leaving
    /\ UNCHANGED <<scq, due>> /\ ScRest

-------------------------------------------------------------------------------
(* MonSrvConn                                                              *)

MonRest == UNCHANGED <<sysVars, scVars, hubVars, excused, late, commands>>

\* Send_CMD_To_Other_Actor, and the state that waits for the answer
Ask(request, place) == due' = Put(due, request) /\ mon' = place

\* Mutant: the status is not looked at.
EndsByEvent(m) == m \in {"DISCONNECTED", "WIFI_DOWN", "DELETE_MON"}

\* The events every state obeys, and handle_ihub_status: any status but IHUB CONNECTED.
EndsMonitor(m) ==
    \/ m \in {"DISCONNECTED", "WIFI_DOWN", "DELETE_MON"}
    \/ m = "ETH_DOWN" /\ "wifi" \notin seen
    \/ m = "STATUS_BAD" /\ mon = "ihub"

\* Mon_reset_stack; what its locals and its queue hold is of no use any more.
ResetsStack == mon' = "wait" /\ seen' = {} /\ BeginReset

\* handle_idle_state
AskStatus == Ask("status", "ihub") /\ UNCHANGED seen

\* After handle_ihub_status any message falls through to the next request.
AskLinks == Ask("links", "links") /\ seen' = seen \ {"wifi"}

\* handle_wifi_eth_enabled_status: with neither link it stays.
LinksAnswer ==
    /\ seen' \in SUBSET {"wifi", "eth"}
    /\ \/ "wifi" \in seen' /\ Ask("apinfo", "apinfo")
       \/ seen' = {"eth"} /\ Ask("rescue", "rescue")
       \/ seen' = {} /\ UNCHANGED <<mon, due>>

\* WIFI DISCONNECT: the monitor waits for the event.
DropWifi == due' = Put(due, "WIFI_DOWN") /\ UNCHANGED mon

\* handle_rescue_ssid: no rescue network or already on it, not on it, none but Ethernet
RescueAnswer ==
    /\ \/ mon' = "idle" /\ UNCHANGED due
       \/ Ask("scan", "scan")
       \/ "eth" \in seen /\ DropWifi
    /\ UNCHANGED seen

\* mon_handle_network_scan: another network; the rescue network or Ethernet is back, with
\* Wi-Fi to leave for it; nothing found.
ScanAnswer ==
    /\ \/ mon' = "idle" /\ UNCHANGED due
       \/ "wifi" \in seen /\ DropWifi
       \/ UNCHANGED <<mon, due>>
    /\ UNCHANGED seen

\* A message without the keys of the state starts its timer, or finds it run out.
NoAnswer == mon' \in {mon, "idle"} /\ UNCHANGED <<due, seen>>

\* The message m of the queue
MonTake(m) ==
    /\ mon \in Polling /\ flag /\ m \in monq
    /\ \/ EndsMonitor(m) /\ ResetsStack
       \/ /\ ~EndsMonitor(m)
          /\ \/ mon = "idle" /\ AskStatus
             \/ mon = "ihub" /\ AskLinks
             \/ mon = "links" /\ m = "links" /\ LinksAnswer
             \/ mon = "apinfo" /\ m \in {"apinfo", "scan"} /\ Ask("rescue", "rescue") /\ UNCHANGED seen
             \/ mon = "rescue" /\ m = "rescue" /\ RescueAnswer
             \/ mon = "scan" /\ m = "scan" /\ ScanAnswer
             \/ mon = "scan" /\ m = "scan" /\ seen = {"eth"} /\ ResetsStack
             \/ mon \in {"links", "apinfo", "rescue", "scan"} /\ NoAnswer
    /\ monq' = (IF mon' \in Polling THEN monq \ {m} ELSE {})
    /\ MonRest

\* A minute without a message: only the idle state does anything.
MonTimeout ==
    /\ mon = "idle" /\ flag /\ Quiet
    /\ AskStatus
    /\ UNCHANGED monq /\ MonRest

\* SER_TASK_DIS_FLAG: the task ends, and its queue stays as it is.
MonDisabled ==
    /\ ~flag /\ mon \in Polling
    /\ mon' = "none"
    /\ \/ UNCHANGED monq
       \/ \E m \in monq : monq' = monq \ {m}
    /\ late' = (late \/ HasSuccess(scq))
    /\ UNCHANGED <<sysVars, scVars, due, seen, hubVars, excused, commands>>

\* The end of Mon_reset_stack: xQueueReset ...
MonResetsQueue ==
    /\ mon = "ending"
    /\ mon' = "leaving"
    /\ UNCHANGED <<monq, due, seen>> /\ MonRest

\* ... and the handle.
MonLeaves ==
    /\ mon = "leaving"
    /\ mon' = "none"
    /\ late' = (late \/ HasSuccess(scq))
    /\ UNCHANGED <<sysVars, scVars, monq, due, seen, hubVars, excused, commands>>

-------------------------------------------------------------------------------
(* The IHUB actor, as IHubSession has it                                   *)

HubRest == UNCHANGED <<sysVars, scVars, monVars, excused, late, commands>>

\* Broadcast IHUB_CONNECTION_STATUS
Announce(s) == Len(news) < MaxNews /\ news' = Append(news, s)

HubAnnounces ==
    /\ \/ hub = "connecting" /\ hub' = "connected" /\ Announce("CONNECTED") /\ UNCHANGED leaving
       \/ /\ hub \in {"connecting", "recovering"} /\ hub' = "idle"
          /\ Announce("DISCONNECTED") /\ UNCHANGED leaving
       \/ leaving /\ leaving' = FALSE /\ Announce("DISCONNECTED") /\ UNCHANGED hub
    /\ UNCHANGED <<flag, started, sys, calls, due, scVars, monVars, excused, late, commands>>

\* A session task ends without an event: on its way out, or for lack of internet.
HubEndsSilently ==
    /\ \/ leaving /\ leaving' = FALSE /\ UNCHANGED hub
       \/ hub = "connecting" /\ hub' = "idle" /\ UNCHANGED leaving
    /\ UNCHANGED due /\ HubRest

LinkBreaks ==
    /\ hub = "connected" /\ hub' = "recovering"
    /\ UNCHANGED <<leaving, due>> /\ HubRest

Recovers ==
    /\ hub = "recovering" /\ hub' = "connected"
    /\ UNCHANGED <<leaving, due>> /\ HubRest

\* GET STATUS, which wakes an actor that is not initialised.  get() has a text for every
\* status but CONNECTION_IN_PROGRESS, which is sent as its number.
StatusAnswer ==
    /\ "status" \in due
    /\ due' = (due \ {"status"}) \cup {IF hub = "connected" THEN "STATUS_OK" ELSE "STATUS_BAD"}
    /\ hub' = (IF hub = "off" THEN "idle" ELSE hub)
    /\ UNCHANGED leaving /\ HubRest

Command == commands < MaxCommands /\ commands' = commands + 1

\* An event of WIFI or of ETH
NetworkEvent ==
    /\ due' \in {Put(due, "WIFI_DOWN"), Put(due, "ETH_DOWN")}
    /\ Command
    /\ UNCHANGED <<sysVars, scVars, monVars, hubVars, excused, late>>

-------------------------------------------------------------------------------
(* The user, over BLE, a console or the cloud                              *)

UserServerConnect ==
    /\ Command /\ CallServerConnect
    /\ UNCHANGED <<flag, started, sys, news, due, scVars, monVars, hubVars, excused, late>>

\* STACK_RESET: ten seconds, then Reset_Stack.
UserStackReset ==
    /\ Command /\ sys = "ready" /\ sys' = "wait" /\ BeginReset
    /\ UNCHANGED <<flag, started, calls, news, scVars, monVars, hubVars, excused, late>>

\* SETSERVCONNFLAG
UserSetsFlag ==
    /\ Command /\ sys = "ready" /\ flag' = ~flag
    /\ excused' = (excused \/ flag)
    /\ UNCHANGED <<started, sys, calls, news, due, scVars, monVars, hubVars, late>>

\* IHUB's DISCONNECT ends a connected session without an event.
UserDisconnects ==
    /\ Command /\ hub = "connected" /\ hub' = "idle"
    /\ UNCHANGED <<sysVars, due, scVars, monVars, leaving, excused, late>>

-------------------------------------------------------------------------------
SystemTask ==
    \/ TakeServerConnect \/ TakeRead \/ PollSeesEnd \/ PollRunsOut
    \/ TakeConnected \/ TakeDisconnected \/ SysReset \/ SysCallLost
    \/ \E m \in Forwarded : Forward(m)

ServerConnectTask ==
    \/ ScDisabled \/ ScHubTimeout \/ ScDelay \/ ScFails \/ ScConnectsHub
    \/ ScReset \/ ScCallLost \/ ScTake \/ ScHubAnswer

Monitor ==
    \/ MonTimeout \/ MonDisabled \/ MonResetsQueue \/ MonLeaves \/ MonReset \/ MonCallLost
    \/ \E m \in monq : MonTake(m)

IHub == HubAnnounces \/ HubEndsSilently \/ LinkBreaks \/ Recovers \/ StatusAnswer

User == UserServerConnect \/ UserStackReset \/ UserSetsFlag \/ UserDisconnects

Next == SystemTask \/ ServerConnectTask \/ Monitor \/ IHub \/ NetworkEvent \/ User

Spec == Init /\ [][Next]_vars

-------------------------------------------------------------------------------
(* Fairness: each task goes on when it can again and again (a handler      *)
(* returns, a delay ends); an attempt gets to IHUB or fails, as            *)
(* ServerConnect's EveryWaitEnds has it; a session that is being opened,   *)
(* recovered or told to end does so in the end, as IHubSession has it.     *)
Fairness ==
    /\ SF_vars(SystemTask) /\ SF_vars(ServerConnectTask) /\ SF_vars(Monitor)
    /\ SF_vars(ScFails \/ ScConnectsHub)
    /\ WF_vars(HubAnnounces \/ HubEndsSilently) /\ WF_vars(StatusAnswer)

FairSpec == Spec /\ Fairness

-------------------------------------------------------------------------------
(* Properties                                                              *)

\* After the start some task is in charge of the connection at any moment: Server_Connect
\* exists, the monitor watches or resets, a SERVER_CONNECT waits, or SYSTEM itself resets or
\* waits for the monitor to end.  Three things leave nobody: disabling the flag; the loss of
\* the call that ends a reset; and a CONNECTED that Server_Connect, back from the delay of its
\* announce, takes when the monitor of that session has already ended: it exits, and the REINIT
\* that asked for the next session stays in its queue.
InCharge ==
    \/ ~started \/ excused
    \/ sc # "none" \/ mon \in Polling \cup Resetting
    \/ calls > 0 \/ sys # "ready"

\* However the Reset_Stacks of three tasks overlap, an IHUB actor that is not initialised is
\* one that a task still has to initialise.
StackUp == hub = "off" => "down" \in {sys, sc, mon}

\* The device does not stop trying: again and again there is an attempt or a session,
\* unless the user switched connections off, Server_Connect ended on the success of a session
\* whose monitor was gone (see InCharge), or the monitor waits for an answer that nothing will
\* bring.
Waits == mon \in Polling \ {"idle"} /\ due = {} /\ monq = {}
NeverGivesUp == []<>(excused \/ sc # "none" \/ hub \in Session \/ Waits)

\* SYSTEM_Actor.c:4172 against iHub_Actor.c:3281: the monitor does not reset the stack while
\* IHUB recovers its session in place.
RecoveryLeftAlone ==
    [][(mon = "ihub" /\ mon' = "wait" /\ "STATUS_BAD" \in monq \ monq') => hub # "recovering"]_vars
=============================================================================
