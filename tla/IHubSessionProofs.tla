--------------------------- MODULE IHubSessionProofs ---------------------------
(***************************************************************************)
(* Proofs about the IHUB actor: its types, and three invariants that the   *)
(* runs check with three attempts, for every number of attempts and with   *)
(* or without lost replies.                                                *)
(***************************************************************************)
EXTENDS IHubSession, TLAPS

\* The flags stay Boolean (the first conjunct of TypeOK).
LEMMA FlagsStep == FlagsOK /\ [Next]_vars => FlagsOK'
<1>. SUFFICES ASSUME FlagsOK, [Next]_vars PROVE FlagsOK'
  OBVIOUS
<1>. USE DEF FlagsOK
<1>1. CASE InitActor
  BY <1>1, Zenon DEF InitActor
<1>2. CASE CONNECT
  BY <1>2, Zenon DEF CONNECT
<1>3. CASE ClearDeleteFlag
  BY <1>3, Zenon DEF ClearDeleteFlag
<1>4. CASE StartDemoTask
  BY <1>4, Zenon DEF StartDemoTask
<1>5. CASE DISCONNECT
  BY <1>5, Zenon DEF DISCONNECT
<1>6. CASE DEINIT
  BY <1>6, Zenon DEF DEINIT
<1>7. CASE NetStatusResponse
  BY <1>7, Zenon DEF NetStatusResponse
<1>8. CASE DeviceIdResponse
  BY <1>8, Zenon DEF DeviceIdResponse
<1>9. CASE ReceiveDeviceId
  BY <1>9, Zenon DEF ReceiveDeviceId, ToExit, Rest
<1>10. CASE NoInternet
  BY <1>10, Zenon DEF NoInternet, End, Rest
<1>11. CASE ConnectTLS
  BY <1>11, Zenon DEF ConnectTLS, ToExit, Rest
<1>12. CASE AtExit
  BY <1>12, Zenon DEF AtExit, ToExit, Rest
<1>13. CASE ConnectMQTT
  BY <1>13, Zenon DEF ConnectMQTT, ToExit, Rest
<1>14. CASE Subscribe
  BY <1>14, Zenon DEF Subscribe, ToExit, Rest
<1>15. CASE LoopTop
  BY <1>15, Zenon DEF LoopTop, ExitOr, ToExit, Rest
<1>16. CASE RefreshToken
  BY <1>16, Zenon DEF RefreshToken, Rest
<1>17. CASE RefreshConnect
  BY <1>17, Zenon DEF RefreshConnect, ConnectIHUB, ToExit, Rest
<1>18. CASE ProcessLoop
  BY <1>18, Zenon DEF ProcessLoop, ExitOr, ToExit, Rest
<1>19. CASE ProcessLoopFailed
  BY <1>19, Zenon DEF ProcessLoopFailed, StartRecovery, Rest
<1>20. CASE ContextIsStale
  BY <1>20, Zenon DEF ContextIsStale, StartRecovery, Rest
<1>21. CASE NextAttempt
  BY <1>21, Zenon DEF NextAttempt, Rest
<1>22. CASE BackoffElapsed
  BY <1>22, Zenon DEF BackoffElapsed, Rest
<1>23. CASE Reconnect
  BY <1>23, Zenon DEF Reconnect, ConnectIHUB, Rest
<1>24. CASE GiveUp
  BY <1>24, Zenon DEF GiveUp, AnnounceLoss, Rest
<1>25. CASE FailClose
  BY <1>25, Zenon DEF FailClose, End, Rest
<1>26. CASE ExitClose
  BY <1>26, Zenon DEF ExitClose, End, Rest
<1>27. CASE DeviceIdLost
  BY <1>27, Zenon DEF DeviceIdLost
<1>28. CASE LinkBreaks
  BY <1>28, Zenon DEF LinkBreaks
<1>29. CASE LinkStalls
  BY <1>29, Zenon DEF LinkStalls
<1>30. CASE UNCHANGED vars
  BY <1>30 DEF vars
<1>. QED
  BY <1>1, <1>2, <1>3, <1>4, <1>5, <1>6, <1>7, <1>8, <1>9, <1>10, <1>11, <1>12,
     <1>13, <1>14, <1>15, <1>16, <1>17, <1>18, <1>19, <1>20, <1>21, <1>22, <1>23, <1>24, <1>25, <1>26, <1>27, <1>28, <1>29, <1>30 DEF Next, Monitor, Session

\* The strengthening that makes the invariants inductive: an attempt under way is one
\* of the MaxAttempts; the status names a session only between its MQTT connect and
\* its teardown; the session that recovery works on was announced.
IInv ==
    /\ TypeOK
    /\ OneDeviceId
    /\ ses \in {"backoff", "reconnect"} => attempt <= MaxAttempts
    /\ status = "CONNECTED" => ses \in {"subscribe", "loop", "refresh", "process", "exitClose"}
    /\ Serving \/ Recovering \/ ses = "subscribe" => told = "CONNECTED"

\* Every step of the monitor task, the session task and the network preserves it.
LEMMA IInvStep == IInv /\ [Next]_vars => IInv'
<1>. SUFFICES ASSUME IInv, [Next]_vars PROVE IInv'
  OBVIOUS
<1>. FlagsOK'
  BY FlagsStep DEF IInv, TypeOK
<1>. USE ConstantsAssumption DEF ConstantsAssumption, IInv, TypeOK, OneDeviceId, Statuses, Up,
         Serving, Recovering
<1>1. CASE InitActor
  BY <1>1 DEF InitActor
<1>2. CASE CONNECT
  BY <1>2 DEF CONNECT
<1>3. CASE ClearDeleteFlag
  BY <1>3 DEF ClearDeleteFlag
<1>4. CASE StartDemoTask
  BY <1>4 DEF StartDemoTask
<1>5. CASE DISCONNECT
  BY <1>5 DEF DISCONNECT
<1>6. CASE DEINIT
  BY <1>6 DEF DEINIT
<1>7. CASE NetStatusResponse
  BY <1>7 DEF NetStatusResponse
<1>8. CASE DeviceIdResponse
  BY <1>8 DEF DeviceIdResponse
<1>9. CASE ReceiveDeviceId
  BY <1>9 DEF ReceiveDeviceId, ToExit, Rest
<1>10. CASE NoInternet
  BY <1>10 DEF NoInternet, ToExit, End, Rest
<1>11. CASE ConnectTLS
  BY <1>11 DEF ConnectTLS, ToExit, Rest
<1>12. CASE AtExit
  BY <1>12 DEF AtExit, ToExit, Rest
<1>13. CASE ConnectMQTT
  BY <1>13 DEF ConnectMQTT, ToExit, Rest
<1>14. CASE Subscribe
  BY <1>14 DEF Subscribe, ToExit, Rest
<1>15. CASE LoopTop
  BY <1>15 DEF LoopTop, ExitOr, ToExit, Rest
<1>16. CASE RefreshToken
  BY <1>16 DEF RefreshToken, Rest
<1>17. CASE RefreshConnect
  BY <1>17 DEF RefreshConnect, ConnectIHUB, ToExit, Rest
<1>18. CASE ProcessLoop
  BY <1>18 DEF ProcessLoop, ExitOr, ToExit, Rest
<1>19. CASE ProcessLoopFailed
  BY <1>19 DEF ProcessLoopFailed, StartRecovery, Rest
<1>20. CASE ContextIsStale
  BY <1>20 DEF ContextIsStale, StartRecovery, Rest
<1>21. CASE NextAttempt
  BY <1>21 DEF NextAttempt, MoreAttempts, Rest
<1>22. CASE BackoffElapsed
  BY <1>22 DEF BackoffElapsed, Rest
<1>23. CASE Reconnect
  BY <1>23 DEF Reconnect, AttemptFailed, ConnectIHUB, Rest
<1>24. CASE GiveUp
  BY <1>24 DEF GiveUp, MoreAttempts, AnnounceLoss, Rest
<1>25. CASE FailClose
  BY <1>25 DEF FailClose, End, Rest
<1>26. CASE ExitClose
  BY <1>26 DEF ExitClose, End, Rest
<1>27. CASE DeviceIdLost
  BY <1>27 DEF DeviceIdLost
<1>28. CASE LinkBreaks
  BY <1>28 DEF LinkBreaks
<1>29. CASE LinkStalls
  BY <1>29 DEF LinkStalls
<1>30. CASE UNCHANGED vars
  BY <1>30 DEF vars
<1>. QED
  BY <1>1, <1>2, <1>3, <1>4, <1>5, <1>6, <1>7, <1>8, <1>9, <1>10, <1>11, <1>12,
     <1>13, <1>14, <1>15, <1>16, <1>17, <1>18, <1>19, <1>20, <1>21, <1>22, <1>23, <1>24, <1>25, <1>26, <1>27, <1>28, <1>29, <1>30 DEF Next, Monitor, Session

\* The invariant holds in every reachable state.
LEMMA Inductive == Spec => []IInv
<1>1. Init => IInv
  <2>1. Init => FlagsOK
    BY Zenon DEF Init, FlagsOK
  <2>. QED
    BY <2>1, ConstantsAssumption
    DEF ConstantsAssumption, Init, IInv, TypeOK, OneDeviceId, Statuses, Up, Serving, Recovering
<1>. QED
  BY <1>1, IInvStep, PTL DEF Spec

\* The actor's variables keep their types: in particular the in-task attempt counter
\* never passes MaxAttempts + 1, whatever clears Delete_task_flag meanwhile.
THEOREM TypeCorrect == Spec => []TypeOK
<1>1. IInv => TypeOK
  BY DEF IInv
<1>. QED
  BY <1>1, Inductive, PTL

\* conn_status never says CONNECTED once the session task has ended: SYSTEM's poll is
\* never answered by a dead session, and CONNECT is never refused because of one.
THEOREM GhostFree == Spec => []NoGhostSession
<1>1. IInv => NoGhostSession
  BY DEF IInv, NoGhostSession
<1>. QED
  BY <1>1, Inductive, PTL

\* A session that is served was announced: DISCONNECTED is never SYSTEM's last word
\* about a session that prvAzureDemoTask still serves.
THEOREM Announced == Spec => []ServedAsAnnounced
<1>1. IInv => ServedAsAnnounced
  BY DEF IInv, ServedAsAnnounced
<1>. QED
  BY <1>1, Inductive, PTL

\* DEVICEID answers never outlive the session task that asked for them.
THEOREM AnswersMatch == Spec => []OneDeviceId
<1>1. IInv => OneDeviceId
  BY DEF IInv
<1>. QED
  BY <1>1, Inductive, PTL

\* In-task recovery broadcasts DISCONNECTED, on which SYSTEM resets the whole stack, only
\* from GiveUp: with its attempts used up, or with Delete_task_flag set.
THEOREM EscalationIsLast == Spec => EscalatesLast
<1>1. IInv /\ [Next]_vars
        => [Recovering /\ told' = "DISCONNECTED" /\ told # "DISCONNECTED"
              => attempt > MaxAttempts \/ del = 1]_vars
  <2>. SUFFICES ASSUME IInv, Next, Recovering, told' # told
                PROVE  attempt > MaxAttempts \/ del = 1
    BY DEF vars
  <2>. USE DEF Recovering
  <2>1. CASE GiveUp
    <3>1. attempt \in Int /\ MaxAttempts \in Int
      BY ConstantsAssumption DEF ConstantsAssumption, IInv, TypeOK
    <3>. QED
      BY <2>1, <3>1 DEF GiveUp, MoreAttempts, AnnounceLoss
  <2>2. ~(NextAttempt \/ BackoffElapsed \/ Reconnect)
    BY DEF NextAttempt, BackoffElapsed, Reconnect, Rest
  <2>3. ~Monitor
    BY DEF Monitor, InitActor, CONNECT, ClearDeleteFlag, StartDemoTask, DISCONNECT, DEINIT,
           NetStatusResponse, DeviceIdResponse
  <2>4. ~(DeviceIdLost \/ LinkBreaks \/ LinkStalls)
    BY DEF DeviceIdLost, LinkBreaks, LinkStalls
  <2>5. ~(ReceiveDeviceId \/ NoInternet \/ ConnectTLS \/ AtExit \/ ConnectMQTT \/ Subscribe)
    BY DEF ReceiveDeviceId, NoInternet, ConnectTLS, AtExit, ConnectMQTT, Subscribe
  <2>6. ~(LoopTop \/ RefreshToken \/ RefreshConnect \/ ProcessLoop \/ ProcessLoopFailed
            \/ ContextIsStale \/ FailClose \/ ExitClose)
    BY DEF LoopTop, RefreshToken, RefreshConnect, ProcessLoop, ProcessLoopFailed,
           ContextIsStale, FailClose, ExitClose
  <2>. QED
    BY <2>1, <2>2, <2>3, <2>4, <2>5, <2>6 DEF Next, Session
<1>. QED
  BY <1>1, Inductive, PTL DEF Spec, EscalatesLast
\* The parts of a step that IHUB's announcements and the phases of a session depend on.
LEMMA PhaseMoves ==
    ASSUME TypeOK, Next, ~UNCHANGED <<ses, told>>
    PROVE  Promise!Next \/ UNCHANGED <<phaseOf(ses), told>>
<1>. USE DEF Promise!Next, Promise!Move, Promise!Silent, Promise!Announce, Promise!MayAnnounce
<1>1. CASE StartDemoTask
  BY <1>1 DEF StartDemoTask, Promise!Open, phaseOf
<1>2. CASE ReceiveDeviceId \/ NoInternet \/ ConnectTLS \/ AtExit
  BY <1>2 DEF ReceiveDeviceId, NoInternet, ConnectTLS, AtExit, ToExit, End, phaseOf,
              Promise!TryFails, Promise!Close, Promise!End
<1>3. CASE ConnectMQTT
  BY <1>3 DEF ConnectMQTT, ToExit, phaseOf, Promise!Established, Promise!Close
<1>4. CASE Subscribe \/ LoopTop \/ RefreshToken \/ ProcessLoop
  BY <1>4 DEF Subscribe, LoopTop, RefreshToken, ProcessLoop, ExitOr, ToExit, phaseOf, Promise!Close
<1>5. CASE RefreshConnect
  BY <1>5 DEF RefreshConnect, ToExit, phaseOf, Promise!Close
<1>6. CASE ProcessLoopFailed \/ ContextIsStale
  BY <1>6 DEF ProcessLoopFailed, ContextIsStale, StartRecovery, phaseOf, Promise!Lose
<1>7. CASE NextAttempt \/ BackoffElapsed
  BY <1>7 DEF NextAttempt, BackoffElapsed, phaseOf
<1>8. CASE Reconnect
  BY <1>8 DEF Reconnect, AttemptFailed, phaseOf, Promise!Regain
<1>9. CASE GiveUp
  BY <1>9 DEF GiveUp, AnnounceLoss, phaseOf, Promise!Escalate
<1>10. CASE FailClose \/ ExitClose
  BY <1>10 DEF FailClose, ExitClose, End, phaseOf, Promise!End
<1>11. CASE Monitor \/ DeviceIdLost \/ LinkBreaks \/ LinkStalls
  <2>1. ~(InitActor \/ CONNECT \/ ClearDeleteFlag \/ DISCONNECT \/ DEINIT \/ NetStatusResponse)
    BY DEF InitActor, CONNECT, ClearDeleteFlag, DISCONNECT, DEINIT, NetStatusResponse
  <2>2. ~(DeviceIdResponse \/ DeviceIdLost \/ LinkBreaks \/ LinkStalls)
    BY DEF DeviceIdResponse, DeviceIdLost, LinkBreaks, LinkStalls
  <2>. QED
    BY <1>1, <1>11, <2>1, <2>2 DEF Monitor
<1>. QED
  BY <1>1, <1>2, <1>3, <1>4, <1>5, <1>6, <1>7, <1>8, <1>9, <1>10, <1>11 DEF Next, Session

\* The actor keeps its promise to SYSTEM: CONNECTED is announced when a session opens and at no
\* other time, a session comes back from a recovery in silence or DISCONNECTED is announced
\* as the recovery ends, and no CONNECT brings a session on its way out back into service.
THEOREM ImplementsPromise == Spec => PromiseSpec
<1>1. Init => Promise!Init
  BY DEF Init, Promise!Init, phaseOf
<1>2. IInv /\ [Next]_vars => [Promise!Next]_<<phaseOf(ses), told>>
  <2>. SUFFICES ASSUME IInv, [Next]_vars PROVE [Promise!Next]_<<phaseOf(ses), told>>
    OBVIOUS
  <2>1. CASE UNCHANGED <<ses, told>>
    BY <2>1
  <2>2. CASE ~UNCHANGED <<ses, told>>
    <3>1. Next
      BY <2>2 DEF vars
    <3>. QED
      BY <2>2, <3>1, PhaseMoves DEF IInv
  <2>. QED
    BY <2>1, <2>2
<1>. QED
  BY <1>1, <1>2, Inductive, PTL DEF Spec, PromiseSpec, Promise!Spec

\* A step of prvAttemptInTaskReconnect is one of these, and the others leave the recovery alone.
LEMMA RecoverySteps ==
    ASSUME Recovering, Recovering', Next, ses' # ses \/ attempt' # attempt
    PROVE  NextAttempt \/ BackoffElapsed \/ Reconnect
<1>. USE DEF Recovering
<1>1. ~Monitor
  BY DEF Monitor, InitActor, CONNECT, ClearDeleteFlag, StartDemoTask, DISCONNECT, DEINIT,
         NetStatusResponse, DeviceIdResponse
<1>2. ~(DeviceIdLost \/ LinkBreaks \/ LinkStalls)
  BY DEF DeviceIdLost, LinkBreaks, LinkStalls
<1>3. ~(ReceiveDeviceId \/ NoInternet \/ ConnectTLS \/ AtExit \/ ConnectMQTT \/ Subscribe)
  BY DEF ReceiveDeviceId, NoInternet, ConnectTLS, AtExit, ConnectMQTT, Subscribe
<1>4. ~(LoopTop \/ RefreshToken \/ RefreshConnect \/ ProcessLoop \/ ProcessLoopFailed
          \/ ContextIsStale \/ FailClose \/ ExitClose)
  BY DEF LoopTop, RefreshToken, RefreshConnect, ProcessLoop, ProcessLoopFailed,
         ContextIsStale, FailClose, ExitClose
<1>5. ~GiveUp
  BY DEF GiveUp
<1>. QED
  BY <1>1, <1>2, <1>3, <1>4, <1>5 DEF Next, Session

\* The measure behind the end of a recovery: no interleaving with the monitor, which may set
\* and clear the flag at any time, lets a recovery go round without using up an attempt.
THEOREM RecoveryTerminates == Spec => RecoveryShrinks
<1>1. IInv /\ [Next]_vars
        => [Recovering /\ Recovering' /\ (ses' # ses \/ attempt' # attempt)
              => Budget' < Budget /\ Budget' \in Nat]_vars
  <2>. SUFFICES ASSUME IInv, Next, Recovering, Recovering', ses' # ses \/ attempt' # attempt
                PROVE  Budget' < Budget /\ Budget' \in Nat
    BY DEF vars
  <2>1. /\ MaxAttempts \in Nat /\ attempt \in 1 .. MaxAttempts + 1
        /\ ses \in {"backoff", "reconnect"} => attempt <= MaxAttempts
    BY ConstantsAssumption DEF ConstantsAssumption, IInv, TypeOK
  <2>2. CASE NextAttempt
    BY <2>1, <2>2 DEF NextAttempt, MoreAttempts, Budget
  <2>3. CASE BackoffElapsed
    BY <2>1, <2>3 DEF BackoffElapsed, Budget
  <2>4. CASE Reconnect
    <3>1. ses = "reconnect" /\ ses' = "recover" /\ attempt' = attempt + 1
      BY <2>4 DEF Reconnect, AttemptFailed, Recovering
    <3>. QED
      BY <2>1, <3>1 DEF Budget
  <2>. QED
    BY <2>2, <2>3, <2>4, RecoverySteps
<1>. QED
  BY <1>1, Inductive, PTL DEF Spec, RecoveryShrinks
===============================================================================
