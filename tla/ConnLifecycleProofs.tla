------------------------- MODULE ConnLifecycleProofs -------------------------
(***************************************************************************)
(* Theorems of ConnLifecycle, for every bound and with or without lost     *)
(* messages: the types, that somebody is always in charge of the           *)
(* connection, and that no overlap of stack resets leaves IHUB off.        *)
(*                                                                         *)
(* The truth values, the places of the tasks and the queues are proved     *)
(* apart: most steps change one kind only.                                 *)
(***************************************************************************)
EXTENDS ConnLifecycle, TLAPS

\* What InCharge needs to be inductive.  A monitor on its way out has a successor; with the
\* flag off nobody is expected; and a success in the queue of Server_Connect is that of a session
\* which a monitor watches, or it is late.
Inherited == mon \in {"ending", "leaving"} => excused \/ calls > 0 \/ sys = "poll"
OffIsExcused == ~flag => excused
SuccessIsWatched == HasSuccess(scq) => late \/ mon # "none"
Handover == Inherited /\ OffIsExcused /\ SuccessIsWatched

USE ConstantsAssumption DEF sysVars, scVars, monVars, hubVars, vars

-------------------------------------------------------------------------------
(* Truth values                                                            *)

LEMMA FlagsStep == FlagsOK /\ [Next]_vars => FlagsOK'
<1> SUFFICES ASSUME FlagsOK, [Next]_vars PROVE FlagsOK'
  OBVIOUS
<1> USE DEF FlagsOK
<1>1. CASE SystemTask
  <2>1. CASE TakeServerConnect
    BY <2>1, Zenon DEF TakeServerConnect, Initiate, CreateServerConnect
  <2>2. CASE TakeRead
    BY <2>2, Zenon DEF TakeRead, Initiate, CreateServerConnect
  <2>3. CASE PollSeesEnd
    BY <2>3, Zenon DEF PollSeesEnd, CreateServerConnect
  <2>4. CASE PollRunsOut \/ TakeConnected \/ TakeDisconnected \/ SysCallLost
    BY <2>4, Zenon DEF PollRunsOut, TakeConnected, TakeDisconnected, SysCallLost
  <2>5. CASE SysReset
    BY <2>5, Zenon DEF SysReset, ResetStep, DeinitActors, InitActors
  <2>6. CASE \E m \in Forwarded : Forward(m)
    BY <2>6, Zenon DEF Forward
  <2> QED
    BY <1>1, <2>1, <2>2, <2>3, <2>4, <2>5, <2>6, Zenon DEF SystemTask
<1>2. CASE ServerConnectTask
  <2>1. CASE ScDisabled \/ ScHubTimeout \/ ScDelay \/ ScFails \/ ScConnectsHub \/ ScCallLost
    BY <2>1, Zenon DEF ScDisabled, ScHubTimeout, ScDelay, ScFails, ScConnectsHub, ScCallLost, ScRest
  <2>2. CASE ScReset
    BY <2>2, Zenon DEF ScReset, ResetStep, DeinitActors, InitActors
  <2>3. CASE ScTake \/ ScHubAnswer
    BY <2>3, Zenon DEF ScTake, ScHubAnswer
  <2> QED
    BY <1>2, <2>1, <2>2, <2>3, Zenon DEF ServerConnectTask
<1>3. CASE Monitor
  <2>1. CASE MonTimeout \/ MonDisabled \/ MonResetsQueue \/ MonLeaves \/ MonCallLost
    BY <2>1, Zenon DEF MonTimeout, MonDisabled, MonResetsQueue, MonLeaves, MonCallLost, MonRest
  <2>2. CASE MonReset
    BY <2>2, Zenon DEF MonReset, ResetStep, DeinitActors, InitActors
  <2>3. CASE \E m \in monq : MonTake(m)
    BY <2>3, Zenon DEF MonTake, MonRest
  <2> QED
    BY <1>3, <2>1, <2>2, <2>3, Zenon DEF Monitor
<1>4. CASE IHub
  BY <1>4, Zenon DEF IHub, HubAnnounces, HubEndsSilently, LinkBreaks, Recovers, StatusAnswer, HubRest
<1>5. CASE NetworkEvent \/ User
  BY <1>5, Zenon
     DEF NetworkEvent, User, UserServerConnect, UserStackReset, UserSetsFlag, UserDisconnects
<1>6. CASE UNCHANGED vars
  BY <1>6, Zenon
<1> QED
  BY <1>1, <1>2, <1>3, <1>4, <1>5, <1>6, Zenon DEF Next

-------------------------------------------------------------------------------
(* Places                                                                  *)

\* A step of Reset_Stack
LEMMA ResetStepPlaces ==
    ASSUME PlacesOK, NEW at, NEW after, NEW next, ResetStep(at, after, next)
    PROVE  hub' \in {"off", "idle"} \cup Session /\ calls' \in 0 .. MaxCalls
  BY DEF PlacesOK, ResetStep, DeinitActors, InitActors, CallServerConnect

LEMMA MonTakePlaces ==
    ASSUME NEW m, MonTake(m)
    PROVE  mon' \in Polling \cup {"wait"}
  BY DEF MonTake, ResetsStack, AskStatus, AskLinks, LinksAnswer, RescueAnswer,
         ScanAnswer, NoAnswer, Ask, DropWifi, Polling

LEMMA PlacesStep == PlacesOK /\ [Next]_vars => PlacesOK'
<1> SUFFICES ASSUME PlacesOK, [Next]_vars PROVE PlacesOK'
  OBVIOUS
<1> USE DEF PlacesOK
<1>1. CASE SystemTask
  <2>1. CASE TakeServerConnect
    BY <2>1 DEF TakeServerConnect, Initiate, CreateServerConnect
  <2>2. CASE TakeRead
    BY <2>2 DEF TakeRead, Initiate, CreateServerConnect
  <2>3. CASE PollSeesEnd
    BY <2>3 DEF PollSeesEnd, CreateServerConnect
  <2>4. CASE PollRunsOut \/ SysCallLost
    BY <2>4 DEF PollRunsOut, SysCallLost
  <2>5. CASE TakeConnected
    BY <2>5 DEF TakeConnected, StartMonitor, Polling
  <2>6. CASE TakeDisconnected
    BY <2>6 DEF TakeDisconnected, Resetting
  <2>7. CASE SysReset
    BY <2>7, ResetStepPlaces DEF SysReset
  <2>8. CASE \E m \in Forwarded : Forward(m)
    BY <2>8 DEF Forward
  <2> QED
    BY <1>1, <2>1, <2>2, <2>3, <2>4, <2>5, <2>6, <2>7, <2>8, Zenon DEF SystemTask
<1>2. CASE ServerConnectTask
  <2>1. CASE ScDisabled \/ ScHubTimeout \/ ScDelay \/ ScFails \/ ScCallLost
    BY <2>1 DEF ScDisabled, ScHubTimeout, ScDelay, ScFails, ScCallLost, ScRest, Resetting
  <2>2. CASE ScConnectsHub
    BY <2>2 DEF ScConnectsHub, ScRest, Session
  <2>3. CASE ScReset
    BY <2>3, ResetStepPlaces DEF ScReset
  <2>4. CASE ScTake \/ ScHubAnswer
    BY <2>4 DEF ScTake, ScHubAnswer, Resetting
  <2> QED
    BY <1>2, <2>1, <2>2, <2>3, <2>4, Zenon DEF ServerConnectTask
<1>3. CASE Monitor
  <2>1. CASE MonTimeout \/ MonDisabled \/ MonResetsQueue \/ MonLeaves \/ MonCallLost
    BY <2>1 DEF MonTimeout, AskStatus, Ask, MonDisabled, MonResetsQueue, MonLeaves, MonCallLost,
                MonRest, Polling
  <2>2. CASE MonReset
    BY <2>2, ResetStepPlaces DEF MonReset
  <2>3. ASSUME NEW m \in monq, MonTake(m) PROVE PlacesOK'
    <3>1. mon' \in Polling \cup Resetting
      BY <2>3, MonTakePlaces DEF Resetting
    <3>2. UNCHANGED <<sys, sc, hub, calls, commands>>
      BY <2>3 DEF MonTake, MonRest
    <3> QED
      BY <3>1, <3>2
  <2> QED
    BY <1>3, <2>1, <2>2, <2>3, Zenon DEF Monitor
<1>4. CASE IHub
  BY <1>4 DEF IHub, HubAnnounces, HubEndsSilently, LinkBreaks, Recovers, StatusAnswer, HubRest,
              Session
<1>5. CASE NetworkEvent \/ User
  BY <1>5 DEF NetworkEvent, User, UserServerConnect, UserStackReset, UserSetsFlag,
              UserDisconnects, CallServerConnect, Command, Resetting
<1>6. CASE UNCHANGED vars
  BY <1>6
<1> QED
  BY <1>1, <1>2, <1>3, <1>4, <1>5, <1>6, Zenon DEF Next

-------------------------------------------------------------------------------
(* Queues                                                                  *)

LEMMA PutType ==
    ASSUME NEW S, NEW queue \in SUBSET S, NEW m \in S
    PROVE  Put(queue, m) \in SUBSET S
  BY DEF Put

\* What is sent goes into the queue of a task or gets lost.
LEMMA Sending ==
    ASSUME QueuesOK
    PROVE  /\ \A m \in {"UP", "DOWN", "REINIT"} :
                SendToServerConnect(m) =>
                  scq' \in Seq({"UP", "DOWN", "REINIT"}) /\ Len(scq') <= MaxMessages
           /\ \A m \in Forwarded \cup {"CONNECTED", "DISCONNECTED", "DELETE_MON"} :
                SendToMonitor(m) => monq' \subseteq Forwarded \cup {"CONNECTED", "DISCONNECTED", "DELETE_MON"}
           /\ \A r \in Asked \cup Forwarded : Put(due, r) \subseteq Asked \cup Forwarded
           /\ BeginReset => due' \subseteq Asked \cup Forwarded
<1>1. \A r \in Asked \cup Forwarded : Put(due, r) \subseteq Asked \cup Forwarded
  BY PutType DEF QueuesOK
<1>2. "WIFI_DOWN" \in Forwarded
  BY DEF Forwarded
<1> QED
  BY <1>1, <1>2 DEF QueuesOK, SendToServerConnect, SendToMonitor, Put, BeginReset

LEMMA MonTakeQueues ==
    ASSUME QueuesOK, NEW m \in monq, MonTake(m)
    PROVE  QueuesOK'
<1>1. due' \subseteq Asked \cup Forwarded
  <2>1. {"status", "links", "apinfo", "rescue", "scan", "WIFI_DOWN"} \subseteq Asked \cup Forwarded
    BY DEF Asked, Forwarded
  <2> HIDE DEF vars
  <2> QED
    BY <2>1, Sending
       DEF QueuesOK, MonTake, ResetsStack, AskStatus, AskLinks, LinksAnswer, RescueAnswer,
           ScanAnswer, NoAnswer, Ask, DropWifi
<1>2. seen' \subseteq {"wifi", "eth"}
  BY DEF QueuesOK, MonTake, ResetsStack, AskStatus, AskLinks, LinksAnswer, RescueAnswer,
         ScanAnswer, NoAnswer
<1>3. monq' \subseteq monq
  BY DEF MonTake
<1>4. UNCHANGED <<scq, news>>
  BY DEF MonTake, MonRest
<1> QED
  BY <1>1, <1>2, <1>3, <1>4 DEF QueuesOK

LEMMA QueuesStep == QueuesOK /\ [Next]_vars => QueuesOK'
<1> SUFFICES ASSUME QueuesOK, [Next]_vars PROVE QueuesOK'
  OBVIOUS
<1> USE Sending DEF QueuesOK
<1>1. CASE SystemTask
  <2>1. CASE TakeServerConnect
    BY <2>1 DEF TakeServerConnect, Initiate
  <2>2. CASE TakeRead
    BY <2>2 DEF TakeRead, Initiate
  <2>3. CASE PollSeesEnd
    BY <2>3 DEF PollSeesEnd
  <2>4. CASE PollRunsOut \/ SysCallLost
    BY <2>4 DEF PollRunsOut, SysCallLost
  <2>5. CASE TakeConnected
    <3>1. news' \in Seq({"CONNECTED", "DISCONNECTED"}) /\ Len(news') <= MaxNews
      BY <2>5 DEF TakeConnected
    <3> QED
      BY <2>5, <3>1 DEF TakeConnected
  <2>6. CASE TakeDisconnected
    <3>1. news' \in Seq({"CONNECTED", "DISCONNECTED"}) /\ Len(news') <= MaxNews
      BY <2>6 DEF TakeDisconnected
    <3> QED
      BY <2>6, <3>1 DEF TakeDisconnected
  <2>7. CASE SysReset
    BY <2>7 DEF SysReset
  <2>8. CASE \E m \in Forwarded : Forward(m)
    BY <2>8 DEF Forward
  <2> QED
    BY <1>1, <2>1, <2>2, <2>3, <2>4, <2>5, <2>6, <2>7, <2>8, Zenon DEF SystemTask
<1>2. CASE ServerConnectTask
  <2>1. CASE ScDisabled \/ ScHubTimeout \/ ScDelay \/ ScFails \/ ScConnectsHub \/ ScCallLost
    BY <2>1 DEF ScDisabled, ScHubTimeout, ScDelay, ScFails, ScConnectsHub, ScCallLost, ScRest
  <2>2. CASE ScReset
    BY <2>2 DEF ScReset
  <2>3. CASE ScTake \/ ScHubAnswer
    <3>1. scq' \in Seq({"UP", "DOWN", "REINIT"}) /\ Len(scq') <= MaxMessages
      BY <2>3 DEF ScTake, ScHubAnswer
    <3> QED
      BY <2>3, <3>1 DEF ScTake, ScHubAnswer
  <2> QED
    BY <1>2, <2>1, <2>2, <2>3, Zenon DEF ServerConnectTask
<1>3. CASE Monitor
  <2>1. CASE MonTimeout
    <3>1. "status" \in Asked \cup Forwarded
      BY DEF Asked
    <3> QED
      BY <2>1, <3>1 DEF MonTimeout, AskStatus, Ask, MonRest
  <2>2. CASE MonDisabled \/ MonResetsQueue \/ MonLeaves \/ MonCallLost
    BY <2>2 DEF MonDisabled, MonResetsQueue, MonLeaves, MonCallLost, MonRest
  <2>3. CASE MonReset
    BY <2>3 DEF MonReset
  <2> QED
    BY <1>3, <2>1, <2>2, <2>3, MonTakeQueues, Zenon DEF Monitor
<1>4. CASE IHub
  <2>1. CASE HubAnnounces
    <3>1. news' \in Seq({"CONNECTED", "DISCONNECTED"}) /\ Len(news') <= MaxNews
      <4>1. PICK s \in {"CONNECTED", "DISCONNECTED"} : Announce(s)
        BY <2>1, Zenon DEF HubAnnounces
      <4> QED
        BY <4>1 DEF Announce
    <3> QED
      BY <2>1, <3>1 DEF HubAnnounces
  <2>2. CASE HubEndsSilently \/ LinkBreaks \/ Recovers
    BY <2>2 DEF HubEndsSilently, LinkBreaks, Recovers, HubRest
  <2>3. CASE StatusAnswer
    BY <2>3 DEF StatusAnswer, HubRest, Forwarded
  <2> QED
    BY <1>4, <2>1, <2>2, <2>3, Zenon DEF IHub
<1>5. CASE NetworkEvent
  <2>1. {"WIFI_DOWN", "ETH_DOWN"} \subseteq Asked \cup Forwarded
    BY DEF Forwarded
  <2> QED
    BY <1>5, <2>1 DEF NetworkEvent
<1>6. CASE User
  BY <1>6 DEF User, UserServerConnect, UserStackReset, UserSetsFlag, UserDisconnects
<1>7. CASE UNCHANGED vars
  BY <1>7
<1> QED
  BY <1>1, <1>2, <1>3, <1>4, <1>5, <1>6, <1>7, Zenon DEF Next

\* Every variable keeps its type: the queues hold only messages of their task, and no
\* counter passes its bound.
THEOREM TypeCorrect == Spec => []TypeOK
<1>1. Init => TypeOK
  <2> SUFFICES ASSUME Init PROVE TypeOK
    OBVIOUS
  <2>1. FlagsOK
    BY Zenon DEF Init, FlagsOK
  <2>2. PlacesOK /\ QueuesOK
    BY DEF Init, PlacesOK, QueuesOK
  <2> QED
    BY <2>1, <2>2 DEF TypeOK
<1>2. TypeOK /\ [Next]_vars => TypeOK'
  BY FlagsStep, PlacesStep, QueuesStep, Zenon DEF TypeOK
<1> QED
  BY <1>1, <1>2, PTL DEF Spec

-------------------------------------------------------------------------------
(* IHUB is initialised again                                               *)

\* However the Reset_Stacks of SYSTEM, Server_Connect and the monitor overlap, an IHUB that
\* is off is one that a task inside Reset_Stack, between DEINIT and INIT, brings back.
THEOREM StackComesUp == Spec => []StackUp
<1>1. Init => StackUp
  BY DEF Init, StackUp
<1>2. PlacesOK /\ StackUp /\ [Next]_vars => StackUp'
  <2> SUFFICES ASSUME PlacesOK, StackUp, [Next]_vars PROVE StackUp'
    OBVIOUS
  <2> USE DEF StackUp
  <2>1. CASE SystemTask
    <3>1. CASE SysReset
      BY <3>1 DEF SysReset, ResetStep, DeinitActors, InitActors, Resetting
    <3>2. CASE SystemTask /\ ~SysReset
      <4>1. hub' = hub /\ (sc' = sc \/ sc = "none")
        BY <3>2 DEF SystemTask, TakeServerConnect, TakeRead, PollSeesEnd, PollRunsOut,
                    TakeConnected, TakeDisconnected, SysCallLost, Forward, Initiate,
                    CreateServerConnect
      <4>2. sys # "down"
        BY <3>2 DEF SystemTask, TakeServerConnect, TakeRead, PollSeesEnd, PollRunsOut,
                    TakeConnected, TakeDisconnected, SysCallLost, CallLost, Forward
      <4>3. mon' = mon \/ mon = "none"
        BY <3>2 DEF SystemTask, TakeServerConnect, TakeRead, PollSeesEnd, PollRunsOut,
                    TakeConnected, TakeDisconnected, SysCallLost, Forward
      <4> QED
        BY <4>1, <4>2, <4>3
    <3> QED
      BY <2>1, <3>1, <3>2
  <2>2. CASE ServerConnectTask
    <3>1. CASE ScReset
      BY <3>1 DEF ScReset, ResetStep, DeinitActors, InitActors, Resetting
    <3>2. CASE ScConnectsHub
      BY <3>2 DEF ScConnectsHub, ScRest
    <3>3. CASE ServerConnectTask /\ ~ScReset /\ ~ScConnectsHub
      BY <3>3 DEF ServerConnectTask, ScDisabled, ScHubTimeout, ScDelay, ScFails, ScCallLost,
                  CallLost, ScTake, ScHubAnswer, ScRest
    <3> QED
      BY <2>2, <3>1, <3>2, <3>3
  <2>3. CASE Monitor
    <3>1. CASE MonReset
      BY <3>1 DEF MonReset, ResetStep, DeinitActors, InitActors, Resetting
    <3>2. CASE Monitor /\ ~MonReset
      BY <3>2 DEF Monitor, MonTimeout, MonDisabled, MonResetsQueue, MonLeaves, MonCallLost,
                  CallLost, MonTake, MonRest, Polling
    <3> QED
      BY <2>3, <3>1, <3>2
  <2>4. CASE IHub
    BY <2>4 DEF IHub, HubAnnounces, HubEndsSilently, LinkBreaks, Recovers, StatusAnswer, HubRest
  <2>5. CASE NetworkEvent \/ User
    BY <2>5 DEF NetworkEvent, User, UserServerConnect, UserStackReset, UserSetsFlag,
                UserDisconnects
  <2>6. CASE UNCHANGED vars
    BY <2>6
  <2> QED
    BY <2>1, <2>2, <2>3, <2>4, <2>5, <2>6, Zenon DEF Next
<1> QED
  BY <1>1, <1>2, TypeCorrect, PTL DEF Spec, TypeOK

-------------------------------------------------------------------------------
(* Somebody is in charge                                                   *)

IInv == InCharge /\ Handover

LEMMA InChargeInit == Init => IInv
  BY DEF Init, IInv, InCharge, Handover, Inherited, OffIsExcused, SuccessIsWatched, HasSuccess

\* A step that ends a reset leaves a SERVER_CONNECT behind.
LEMMA ResetStepCalls ==
    ASSUME PlacesOK, NEW at, NEW after, NEW next, ResetStep(at, after, next),
           next \notin Resetting
    PROVE  /\ calls > 0 => calls' > 0
           /\ after = next => calls' > 0
           /\ after # next => after \in Resetting
  BY DEF PlacesOK, ResetStep, CallServerConnect, Resetting

\* Only CONNECTED adds a success to the queue of Server_Connect; taking a message adds none.
LEMMA SuccessSent ==
    ASSUME QueuesOK, NEW m \in {"UP", "DOWN", "REINIT"}, SendToServerConnect(m)
    PROVE  HasSuccess(scq') => HasSuccess(scq) \/ m = "UP"
<1>1. CASE scq' = Append(scq, m)
  <2> DEFINE n == Len(scq)
  <2>1. /\ n \in Nat /\ DOMAIN scq' = 1 .. n + 1 /\ scq'[n + 1] = m
        /\ \A i \in 1 .. n : scq'[i] = scq[i]
    BY <1>1 DEF QueuesOK
  <2>2. DOMAIN scq = 1 .. n
    BY DEF QueuesOK
  <2> QED
    BY <2>1, <2>2 DEF HasSuccess
<1>2. CASE scq' = scq
  BY <1>2 DEF HasSuccess
<1> QED
  BY <1>1, <1>2 DEF SendToServerConnect

LEMMA SuccessTaken ==
    ASSUME QueuesOK, scq # <<>>
    PROVE  /\ HasSuccess(Tail(scq)) => HasSuccess(scq)
           /\ Head(scq) = "UP" => HasSuccess(scq)
<1> DEFINE n == Len(scq)
<1>1. /\ n \in Nat \ {0} /\ DOMAIN scq = 1 .. n /\ Head(scq) = scq[1]
      /\ DOMAIN Tail(scq) = 1 .. n - 1
      /\ \A i \in 1 .. n - 1 : Tail(scq)[i] = scq[i + 1]
  BY DEF QueuesOK
<1>2. 1 \in 1 .. n /\ \A i \in 1 .. n - 1 : i + 1 \in 1 .. n
  BY <1>1
<1> QED
  BY <1>1, <1>2, Zenon DEF HasSuccess

LEMMA InChargeStep == TypeOK /\ IInv /\ [Next]_vars => IInv'
<1> SUFFICES ASSUME FlagsOK, PlacesOK, QueuesOK, IInv, [Next]_vars PROVE IInv'
  BY DEF TypeOK
<1> USE DEF IInv, InCharge, Handover, Inherited, OffIsExcused, SuccessIsWatched
<1>1. CASE SystemTask
  <2>1. CASE TakeServerConnect
    <3>1. SuccessIsWatched'
      BY <2>1, SuccessSent DEF TakeServerConnect, Initiate, CreateServerConnect
    <3> QED
      BY <2>1, <3>1 DEF TakeServerConnect, Initiate, CreateServerConnect, PlacesOK, FlagsOK
  <2>2. CASE TakeRead
    <3>1. SuccessIsWatched'
      BY <2>2, SuccessSent DEF TakeRead, Initiate, CreateServerConnect
    <3> QED
      BY <2>2, <3>1 DEF TakeRead, Initiate, CreateServerConnect, PlacesOK, FlagsOK
  <2>3. CASE PollSeesEnd
    BY <2>3 DEF PollSeesEnd, CreateServerConnect, FlagsOK
  <2>4. CASE PollRunsOut
    BY <2>4 DEF PollRunsOut, Quiet, PlacesOK
  <2>5. CASE TakeConnected
    BY <2>5 DEF TakeConnected, StartMonitor, Polling
  <2>6. CASE TakeDisconnected
    <3>1. SuccessIsWatched'
      BY <2>6, SuccessSent DEF TakeDisconnected
    <3> QED
      BY <2>6, <3>1 DEF TakeDisconnected
  <2>7. CASE SysReset
    <3>1. PICK p \in Resetting \cup {"ready"} : ResetStep(sys, p, "ready") /\ sys' = p
      BY <2>7 DEF SysReset
    <3>2. (calls > 0 => calls' > 0) /\ sys \in Resetting /\ sys' # "poll" /\ (sys' = "ready" => calls' > 0)
      BY <3>1, ResetStepCalls DEF ResetStep, Resetting
    <3>3. UNCHANGED <<flag, started, sc, scq, mon, excused, late>>
      BY <2>7 DEF SysReset
    <3> QED
      BY <3>2, <3>3 DEF PlacesOK, Resetting
  <2>8. CASE SysCallLost
    BY <2>8 DEF SysCallLost
  <2>9. CASE \E m \in Forwarded : Forward(m)
    BY <2>9 DEF Forward
  <2> QED
    BY <1>1, <2>1, <2>2, <2>3, <2>4, <2>5, <2>6, <2>7, <2>8, <2>9, Zenon DEF SystemTask
<1>2. CASE ServerConnectTask
  <2>1. CASE ScDisabled
    BY <2>1 DEF ScDisabled, ScRest
  <2>2. CASE ScHubTimeout
    BY <2>2 DEF ScHubTimeout, ScRest, Quiet, PlacesOK
  <2>3. CASE ScDelay \/ ScFails \/ ScConnectsHub
    BY <2>3 DEF ScDelay, ScFails, ScConnectsHub, ScRest
  <2>4. CASE ScReset
    <3>1. PICK p \in Resetting \cup {"run"} : ResetStep(sc, p, "run") /\ sc' = p
      BY <2>4 DEF ScReset
    <3>2. (calls > 0 => calls' > 0) /\ sc' \notin {"none", "hub"}
      BY <3>1, ResetStepCalls DEF Resetting
    <3>3. UNCHANGED <<flag, started, sys, scq, mon, excused, late>>
      BY <2>4 DEF ScReset
    <3> QED
      BY <3>2, <3>3 DEF PlacesOK
  <2>5. CASE ScCallLost
    BY <2>5 DEF ScCallLost
  <2>6. CASE ScTake
    BY <2>6, SuccessTaken DEF ScTake
  <2>7. CASE ScHubAnswer
    <3>1. SuccessIsWatched' /\ UNCHANGED <<flag, started, sys, calls, mon>>
      BY <2>7, SuccessTaken DEF ScHubAnswer
    <3>2. excused => excused'
      BY <2>7, Zenon DEF ScHubAnswer
    <3>3. sc' # "none" \/ mon # "none" \/ excused'
      <4>1. Head(scq) = "UP" => late \/ mon # "none"
        BY <2>7, SuccessTaken, Zenon DEF ScHubAnswer
      <4> QED
        BY <2>7, <4>1, Zenon DEF ScHubAnswer
    <3> QED
      BY <3>1, <3>2, <3>3 DEF PlacesOK
  <2> QED
    BY <1>2, <2>1, <2>2, <2>3, <2>4, <2>5, <2>6, <2>7, Zenon DEF ServerConnectTask
<1>3. CASE Monitor
  <2>1. CASE MonTimeout
    BY <2>1 DEF MonTimeout, AskStatus, Ask, MonRest, Polling
  <2>2. CASE MonDisabled
    BY <2>2 DEF MonDisabled, MonRest
  <2>3. CASE MonResetsQueue \/ MonLeaves \/ MonCallLost
    BY <2>3 DEF MonResetsQueue, MonLeaves, MonCallLost, MonRest, Polling, Resetting
  <2>4. CASE MonReset
    BY <2>4, ResetStepCalls DEF MonReset, Quiet, PlacesOK, Resetting, Polling, ResetStep
  <2>5. ASSUME NEW m \in monq, MonTake(m) PROVE IInv'
    <3>1. mon \in Polling /\ mon' \in Polling \cup {"wait"}
      BY <2>5, MonTakePlaces DEF MonTake
    <3>2. UNCHANGED <<flag, started, sys, calls, sc, scq, excused, late>>
      BY <2>5 DEF MonTake, MonRest
    <3> QED
      BY <3>1, <3>2 DEF Polling, Resetting
  <2> QED
    BY <1>3, <2>1, <2>2, <2>3, <2>4, <2>5, Zenon DEF Monitor
<1>4. CASE IHub
  BY <1>4 DEF IHub, HubAnnounces, HubEndsSilently, LinkBreaks, Recovers, StatusAnswer, HubRest
<1>5. CASE NetworkEvent \/ User
  <2>1. CASE NetworkEvent \/ UserDisconnects
    BY <2>1 DEF NetworkEvent, UserDisconnects
  <2>2. CASE UserServerConnect
    BY <2>2 DEF UserServerConnect, CallServerConnect, PlacesOK
  <2>3. CASE UserStackReset
    BY <2>3 DEF UserStackReset
  <2>4. CASE UserSetsFlag
    <3>1. excused' \/ flag'
      BY <2>4, Zenon DEF UserSetsFlag, FlagsOK
    <3>2. excused => excused'
      BY <2>4, Zenon DEF UserSetsFlag
    <3>3. UNCHANGED <<started, sys, calls, sc, scq, mon, late>>
      BY <2>4 DEF UserSetsFlag
    <3> QED
      BY <3>1, <3>2, <3>3
  <2> QED
    BY <1>5, <2>1, <2>2, <2>3, <2>4, Zenon DEF User
<1>6. CASE UNCHANGED vars
  BY <1>6
<1> QED
  BY <1>1, <1>2, <1>3, <1>4, <1>5, <1>6, Zenon DEF Next

\* From the start on, some task is in charge of the connection at any moment, unless the
\* flag went off, the call that ends a reset was lost, or Server_Connect ended on a CONNECTED
\* whose monitor had ended while it was in the queue.
THEOREM AlwaysInCharge == Spec => []InCharge
<1>1. IInv => InCharge
  BY DEF IInv
<1> QED
  BY <1>1, InChargeInit, InChargeStep, TypeCorrect, PTL DEF Spec
=============================================================================
