------------------------------ MODULE IHubSession ------------------------------
(***************************************************************************)
(* The IHUB actor (src/main/iHub_Actor.c): its monitor task, which obeys   *)
(* CONNECT, DISCONNECT, DEINIT and INIT, and the session task              *)
(* prvAzureDemoTask, which opens the TLS and MQTT session, serves it,      *)
(* renews its SAS token, recovers it in place and tears it down.           *)
(*                                                                         *)
(* The two share iHub_Para.conn_status, Delete_task_flag and the task      *)
(* handle.  Both run on core 1 and the session task has the higher         *)
(* priority, so it can run between any two steps of the monitor, and the   *)
(* monitor only while the session task blocks (a network call, a delay, a  *)
(* queue): those are the values of ses.                                    *)
(***************************************************************************)
EXTENDS Integers

CONSTANTS
    MaxAttempts, \* sampleazureiotINTASK_RECONNECT_MAX_ATTEMPTS
    Lossy        \* TRUE: a full queue may drop the reply to GET DEVICEID

ASSUME ConstantsAssumption == MaxAttempts \in Nat \ {0} /\ Lossy \in BOOLEAN

VARIABLES
    inited,    \* FirstiHubEntry: the monitor task runs
    status,    \* iHub_Para.conn_status
    del,       \* Delete_task_flag
    mon,       \* where the monitor is in the handler of CONNECT
    ses,       \* where the session task blocks; "none": vStartDemoTask_handle is NULL
    attempt,   \* ulAttempt of prvAttemptInTaskReconnect
    cause,     \* what started the recovery: "loop" (ProcessLoop) or "stale"
    link,      \* the MQTT session: "down", "bare" (no subscriptions), "full", "stalled"
    internet,  \* s_is_connected_to_internet
    idReq,     \* GET DEVICEID requests SYSTEM has not answered
    idQ,       \* messages in IHUB_Connect_Queue
    told,      \* the last IHUB_CONNECTION_STATUS event broadcast
    stopReq    \* history: a DISCONNECT or DEINIT is waiting to be obeyed

vars == <<inited, status, del, mon, ses, attempt, cause, link, internet, idReq, idQ, told, stopReq>>

Statuses == {"NOT_INITIALISED", "INITIALISED", "DISCONNECTED", "CONNECTED", "NOT_CONNECTED",
             "CONNECTION_IN_PROGRESS"}

Up == {"bare", "full", "stalled"}

FlagsOK == inited \in BOOLEAN /\ internet \in BOOLEAN /\ stopReq \in BOOLEAN

\* The type invariant
TypeOK ==
    /\ FlagsOK
    /\ status \in Statuses
    /\ del \in {0, 1}
    /\ mon \in {"idle", "accepted", "cleared"}
    /\ ses \in {"none", "await_id", "tls", "mqtt", "subscribe", "loop", "refresh", "process",
                "recover", "backoff", "reconnect", "exit", "exitClose", "failClose"}
    /\ attempt \in 1 .. MaxAttempts + 1
    /\ cause \in {"loop", "stale"}
    /\ link \in Up \cup {"down"}
    /\ idReq \in 0 .. 1 /\ idQ \in 0 .. 1
    /\ told \in {"none", "CONNECTED", "DISCONNECTED"}

Init ==
    /\ inited = FALSE /\ status = "NOT_INITIALISED" /\ del = 0
    /\ mon = "idle" /\ ses = "none" /\ attempt = 1 /\ cause = "loop"
    /\ link = "down" /\ internet = FALSE /\ idReq = 0 /\ idQ = 0
    /\ told = "none" /\ stopReq = FALSE

-------------------------------------------------------------------------------
(* The monitor task                                                        *)

\* INIT, or any message but DEINIT to an actor that is not initialised
InitActor ==
    /\ ~inited
    /\ inited' = TRUE
    /\ status' = "INITIALISED"
    /\ UNCHANGED <<del, mon, ses, attempt, cause, link, internet, idReq, idQ, told, stopReq>>

\* CONNECT: refused while a connection is in progress or up.
CONNECT ==
    /\ inited /\ mon = "idle"
    /\ status \notin {"CONNECTION_IN_PROGRESS", "CONNECTED"}
    /\ status' = "NOT_CONNECTED"
    /\ mon' = "accepted"
    /\ UNCHANGED <<inited, del, ses, attempt, cause, link, internet, idReq, idQ, told, stopReq>>

\* iHub_Connect clears the flag ...
ClearDeleteFlag ==
    /\ mon = "accepted"
    /\ mon' = "cleared"
    /\ del' = 0 /\ stopReq' = FALSE
    /\ UNCHANGED <<inited, status, ses, attempt, cause, link, internet, idReq, idQ, told>>

\* ... and vStartDemoTask creates the session task if there is none.  The task has
\* the higher priority: it asks SYSTEM for DEVICEID and blocks on IHUB_Connect_Queue.
StartDemoTask ==
    /\ mon = "cleared"
    /\ mon' = "idle"
    /\ IF ses = "none"
       THEN /\ ses' = "await_id"
            /\ status' = "CONNECTION_IN_PROGRESS"
            /\ link' = "down"
            /\ idReq' = idReq + 1
       ELSE UNCHANGED <<ses, status, link, idReq>>
    /\ UNCHANGED <<inited, del, attempt, cause, internet, idQ, told, stopReq>>

DISCONNECT ==
    /\ inited /\ mon = "idle"
    /\ del' = 1
    /\ stopReq' = (ses # "none")
    /\ UNCHANGED <<inited, status, mon, ses, attempt, cause, link, internet, idReq, idQ, told>>

\* Deinit_Actor: the monitor task ends, the session task is asked to.
DEINIT ==
    /\ inited /\ mon = "idle"
    /\ inited' = FALSE
    /\ del' = 1
    /\ stopReq' = (ses # "none")
    /\ UNCHANGED <<status, mon, ses, attempt, cause, link, internet, idReq, idQ, told>>

\* Analyse_Response: the NET_STATUS that CONNECT asks CONSOLE for; never cleared.
NetStatusResponse ==
    /\ inited /\ mon = "idle" /\ ~internet
    /\ internet' = TRUE
    /\ UNCHANGED <<inited, status, del, mon, ses, attempt, cause, link, idReq, idQ, told, stopReq>>

\* Analyse_Response: SYSTEM's DEVICEID goes to IHUB_Connect_Queue.
DeviceIdResponse ==
    /\ inited /\ mon = "idle" /\ idReq > 0
    /\ idReq' = idReq - 1
    /\ idQ' = idQ + 1
    /\ UNCHANGED <<inited, status, del, mon, ses, attempt, cause, link, internet, told, stopReq>>

\* SYSTEM's queue or IHUB's was full for a tick: the message is dropped.
DeviceIdLost ==
    /\ Lossy /\ idReq > 0
    /\ idReq' = idReq - 1
    /\ UNCHANGED <<inited, status, del, mon, ses, attempt, cause, link, internet, idQ, told, stopReq>>

-------------------------------------------------------------------------------
(* The session task.  Every action leaves these alone.                     *)

Rest == UNCHANGED <<inited, mon, internet, idReq>>

\* From the label exit with the flag set: close an MQTT session that the status still
\* names (only NOT_CONNECTED announces it), then the socket.
ToExit(s) ==
    /\ del' = 1
    /\ ses' = "exitClose"
    /\ \/ /\ s = "NOT_CONNECTED" /\ internet
          /\ status' = "DISCONNECTED" /\ told' = "DISCONNECTED"
       \/ /\ status' = s /\ UNCHANGED told
    /\ link' = "down"

\* The session task is gone.
End == ses' = "none" /\ stopReq' = FALSE /\ link' = "down"

\* Mutant: the DEVICEID is peeked at and stays in the queue.
PeekDeviceId ==
    /\ ses = "await_id" /\ idQ > 0
    /\ ses' = "tls"
    /\ UNCHANGED <<del, status, link, told, idQ, attempt, cause, stopReq>> /\ Rest

ReceiveDeviceId ==
    /\ ses = "await_id" /\ idQ > 0
    /\ idQ' = idQ - 1
    /\ \/ ses' = "tls" /\ UNCHANGED <<del, status, link, told>>
       \/ ToExit(status)                    \* AzureIoT_Init or the credentials failed
    /\ UNCHANGED <<attempt, cause, stopReq>> /\ Rest

\* Round by round without internet: the flag ends the task by the label exit, the
\* hundredth round ends it at once and leaves the status as it is.
NoInternet ==
    /\ ses = "tls" /\ ~internet
    /\ \/ del = 1 /\ ToExit(status) /\ UNCHANGED stopReq
       \/ End /\ UNCHANGED <<status, del, told>>
    /\ UNCHANGED <<attempt, cause, idQ>> /\ Rest

\* prvConnectToServerWithBackoffRetries and the set-up of the client
ConnectTLS ==
    /\ ses = "tls" /\ internet
    /\ \/ ses' = "mqtt" /\ UNCHANGED <<del, status, link, told>>
       \/ /\ ses' = "exit" /\ del' = 1      \* TLS or OptionsInit failed: announced
          /\ told' = "DISCONNECTED"
          /\ UNCHANGED <<status, link>>
       \/ ToExit(status)                    \* Init or SetSymmetricKey failed
    /\ UNCHANGED <<attempt, cause, idQ, stopReq>> /\ Rest

\* Mutant: the task goes back to its loop, not to its start.
AtExitResumed ==
    /\ ses = "exit"
    /\ \/ del = 1 /\ ToExit(status)
       \/ del = 0 /\ ses' = "loop" /\ UNCHANGED <<del, status, link, told>>
    /\ UNCHANGED <<attempt, cause, idQ, stopReq>> /\ Rest

\* The broadcast of the failure let a CONNECT clear the flag: start over; or close.
AtExit ==
    /\ ses = "exit"
    /\ \/ del = 1 /\ ToExit(status)
       \/ del = 0 /\ ses' = "tls" /\ UNCHANGED <<del, status, link, told>>
    /\ UNCHANGED <<attempt, cause, idQ, stopReq>> /\ Rest

ConnectMQTT ==
    /\ ses = "mqtt"
    /\ \/ /\ ses' = "subscribe" /\ link' = "bare"
          /\ status' = "CONNECTED" /\ told' = "CONNECTED"
          /\ UNCHANGED del
       \/ ToExit("NOT_CONNECTED")
    /\ UNCHANGED <<attempt, cause, idQ, stopReq>> /\ Rest

Subscribe ==
    /\ ses = "subscribe"
    /\ \/ ses' = "loop" /\ link' = (IF link = "bare" THEN "full" ELSE link)
          /\ UNCHANGED <<del, status, told>>
       \/ ToExit(status)
    /\ UNCHANGED <<attempt, cause, idQ, stopReq>> /\ Rest

-------------------------------------------------------------------------------
(* The connected loop                                                      *)

\* Connect_IHUB: all of it; or nothing, perhaps with the flag set (TLS, OptionsInit);
\* or the MQTT session without its subscriptions.
ConnectIHUB(st, l, d) ==
    \/ st = "CONNECTED" /\ l = "full" /\ d = del
    \/ st = status /\ l = "down" /\ d \in {del, 1}
    \/ st = status /\ l = "bare" /\ d = del

\* Mutant: the flag is not looked at.
ExitNever(next) == ses' = next /\ UNCHANGED <<del, status, told, link>>

\* if( Delete_task_flag == 1 ) goto exit, else go on at next
ExitOr(next) ==
    \/ del = 1 /\ ToExit(status)
    \/ del = 0 /\ ses' = next /\ UNCHANGED <<del, status, told, link>>

\* The token is not expiring.
LoopTop ==
    /\ ses = "loop"
    /\ ExitOr("process")
    /\ UNCHANGED <<attempt, cause, idQ, stopReq>> /\ Rest

\* Azure_RefreshToken_IfExpiring drops the session, with the status still CONNECTED ...
RefreshToken ==
    /\ ses = "loop"
    /\ ses' = "refresh" /\ link' = "down"
    /\ UNCHANGED <<status, del, attempt, cause, idQ, told, stopReq>> /\ Rest

\* ... and connects again, whatever comes of it.
RefreshConnect ==
    /\ ses = "refresh"
    /\ \E st \in Statuses, l \in {"down", "bare", "full"}, d \in {0, 1} :
          /\ ConnectIHUB(st, l, d)
          /\ \/ /\ d = 1 /\ ToExit(st)
             \/ /\ d = 0 /\ ses' = "process"
                /\ status' = st /\ link' = l /\ del' = 0
                /\ UNCHANGED told
    /\ UNCHANGED <<attempt, cause, idQ, stopReq>> /\ Rest

StartRecovery(c) ==
    /\ ses' = "recover" /\ attempt' = 1 /\ cause' = c
    /\ status' = "CONNECTION_IN_PROGRESS"
    /\ UNCHANGED <<del, told, link>>

\* AzureIoTHubClient_ProcessLoop succeeded and the context is not stale.
ProcessLoop ==
    /\ ses = "process" /\ link \in {"bare", "full"}
    /\ ExitOr("loop")
    /\ UNCHANGED <<attempt, cause, idQ, stopReq>> /\ Rest

ProcessLoopFailed ==
    /\ ses = "process" /\ link \in {"down", "stalled"}
    /\ StartRecovery("loop")
    /\ UNCHANGED <<idQ, stopReq>> /\ Rest

ContextIsStale ==
    /\ ses = "process" /\ link = "stalled"
    /\ StartRecovery("stale")
    /\ UNCHANGED <<idQ, stopReq>> /\ Rest

\* Mutants: one attempt too many, one too few.
MoreAttemptsLate == attempt <= MaxAttempts + 1
MoreAttemptsEarly == attempt < MaxAttempts

MoreAttempts == attempt <= MaxAttempts

\* prvAttemptInTaskReconnect: the next attempt drops what is left of the session.
NextAttempt ==
    /\ ses = "recover" /\ MoreAttempts /\ del = 0
    /\ ses' = "backoff" /\ link' = "down"
    /\ UNCHANGED <<status, del, attempt, cause, idQ, told, stopReq>> /\ Rest

BackoffElapsed ==
    /\ ses = "backoff" /\ del = 0
    /\ ses' = "reconnect"
    /\ UNCHANGED <<status, del, attempt, cause, link, idQ, told, stopReq>> /\ Rest

\* Mutant: a failed attempt is not counted.
AttemptUncounted == ses' = "recover" /\ UNCHANGED attempt

AttemptFailed == ses' = "recover" /\ attempt' = attempt + 1

\* Connect_IHUB and what prvAttemptInTaskReconnect makes of it: the flag is cleared
\* either way.
Reconnect ==
    /\ ses = "reconnect"
    /\ \E st \in Statuses, l \in {"down", "bare", "full"}, d \in {0, 1} :
          /\ ConnectIHUB(st, l, d)
          /\ status' = st /\ link' = l /\ del' = 0
          /\ IF st = "CONNECTED"
             THEN ses' = "loop" /\ UNCHANGED attempt
             ELSE AttemptFailed
    /\ UNCHANGED <<cause, idQ, told, stopReq>> /\ Rest

\* Mutant: a recovery from a stale context ends without a word.
AnnounceLoopOnly == told' = IF cause = "loop" THEN "DISCONNECTED" ELSE told

AnnounceLoss == told' = "DISCONNECTED"

\* Recovery is exhausted or asked to stop: announce it and tear the session down.
GiveUp ==
    /\ \/ ses = "recover" /\ (~MoreAttempts \/ del = 1)
       \/ ses = "backoff" /\ del = 1
    /\ AnnounceLoss
    /\ del' = 1
    /\ IF cause = "loop"
       THEN ses' = "failClose" /\ status' = "DISCONNECTED" /\ UNCHANGED link
       ELSE /\ ses' = "exitClose" /\ link' = "down"
            /\ \/ UNCHANGED status
               \/ status = "NOT_CONNECTED" /\ status' = "DISCONNECTED"
    /\ UNCHANGED <<attempt, cause, idQ, stopReq>> /\ Rest

\* The end of the connected loop's own teardown: unsubscribe and disconnect; a failed
\* MQTT disconnect leaves the status as the monitor may have set it meanwhile.
FailClose ==
    /\ ses = "failClose"
    /\ \/ status' = "DISCONNECTED" /\ del' = 1
       \/ UNCHANGED <<status, del>>
    /\ End
    /\ UNCHANGED <<attempt, cause, idQ, told>> /\ Rest

\* Mutant: the end of the task is not entered in the status.
ExitCloseSilent ==
    /\ ses = "exitClose"
    /\ End
    /\ UNCHANGED <<status, del, attempt, cause, idQ, told>> /\ Rest

\* The end of the label exit
ExitClose ==
    /\ ses = "exitClose"
    /\ status' = "DISCONNECTED"
    /\ End
    /\ UNCHANGED <<del, attempt, cause, idQ, told>> /\ Rest

-------------------------------------------------------------------------------
(* The network                                                             *)

LinkBreaks ==
    /\ link \in Up /\ link' = "down"
    /\ UNCHANGED <<inited, status, del, mon, ses, attempt, cause, internet, idReq, idQ, told, stopReq>>

LinkStalls ==
    /\ link \in {"bare", "full"} /\ link' = "stalled"
    /\ UNCHANGED <<inited, status, del, mon, ses, attempt, cause, internet, idReq, idQ, told, stopReq>>

Monitor ==
    \/ InitActor \/ CONNECT \/ ClearDeleteFlag \/ StartDemoTask \/ DISCONNECT \/ DEINIT
    \/ NetStatusResponse \/ DeviceIdResponse

Session ==
    \/ ReceiveDeviceId \/ NoInternet \/ ConnectTLS \/ AtExit \/ ConnectMQTT \/ Subscribe
    \/ LoopTop \/ RefreshToken \/ RefreshConnect
    \/ ProcessLoop \/ ProcessLoopFailed \/ ContextIsStale
    \/ NextAttempt \/ BackoffElapsed \/ Reconnect \/ GiveUp \/ FailClose \/ ExitClose

Next == Monitor \/ Session \/ DeviceIdLost \/ LinkBreaks \/ LinkStalls

Spec == Init /\ [][Next]_vars

\* FreeRTOS runs a ready task; every blocking call of the session task has a timeout
\* except the wait for DEVICEID, which SYSTEM answers and which wakes the actor up.
Fairness ==
    /\ WF_vars(Session)
    /\ WF_vars(ClearDeleteFlag \/ StartDemoTask)
    /\ SF_vars(DeviceIdResponse)
    /\ WF_vars(InitActor /\ idReq > 0)

FairSpec == Spec /\ Fairness

-------------------------------------------------------------------------------
(* Properties                                                              *)

Serving == ses \in {"loop", "refresh", "process"}
Recovering == ses \in {"recover", "backoff", "reconnect"}

\* The status a poll of SYSTEM's monitor reads: CONNECTED is never left behind by a
\* session task that has ended, on any of its seven ways out.  With it the poll would
\* trust a dead session and CONNECT would be refused forever.
NoGhostSession == ses = "none" => status # "CONNECTED"

\* What SYSTEM was told last agrees with a session being served: a session is never
\* served after its DISCONNECTED was announced, in particular by a CONNECT that
\* revives the task on its way out.
ServedAsAnnounced == Serving => told = "CONNECTED"

\* One reply of SYSTEM per session task: a second DEVICEID never waits in
\* IHUB_Connect_Queue to start the next session with the answer of an earlier one.
OneDeviceId == idReq + idQ <= (IF ses = "await_id" THEN 1 ELSE 0)

\* In-task recovery escalates (broadcasts DISCONNECTED, which makes SYSTEM reset the
\* whole stack) only when its attempts are used up or the flag is set.
EscalatesLast ==
    [][Recovering /\ told' = "DISCONNECTED" /\ told # "DISCONNECTED"
          => attempt > MaxAttempts \/ del = 1]_vars

\* Recovery makes progress: whatever the monitor, the flag and the network do meanwhile,
\* each of its steps takes it nearer to its end.  The budget counts the blocking calls an
\* attempt still has, over the attempts that are left.
Budget ==
    3 * (MaxAttempts + 1 - attempt)
    + (IF ses = "recover" THEN 2 ELSE IF ses = "backoff" THEN 1 ELSE 0)
RecoveryShrinks ==
    [][Recovering /\ Recovering' /\ (ses' # ses \/ attempt' # attempt)
          => Budget' < Budget /\ Budget' \in Nat]_vars

\* To those who hear its announcements the actor keeps the promise: each place where the
\* session task blocks is in one phase of a session.
phaseOf(s) ==
    CASE s = "none" -> "none"
      [] s \in {"await_id", "tls", "mqtt", "exit"} -> "opening"
      [] s \in {"subscribe", "loop", "refresh", "process"} -> "served"
      [] s \in {"recover", "backoff", "reconnect"} -> "recovering"
      [] s \in {"exitClose", "failClose"} -> "closing"
Promise == INSTANCE HubPromise WITH phase <- phaseOf(ses)
PromiseSpec == Promise!Spec

\* A DISCONNECT or DEINIT that does not fall into a call of Connect_IHUB ends the
\* session task, unless a CONNECT takes it back, or the task waits for a DEVICEID that was
\* lost, for which the code has no timeout.
IdLost == ses = "await_id" /\ idReq + idQ = 0
StopHonoured == (stopReq /\ ses # "reconnect" /\ del = 1) ~> (~stopReq \/ IdLost)

\* Recovery, during which the status is CONNECTION_IN_PROGRESS and nothing is announced,
\* ends: the session is served again or the task has gone.
RecoveryEnds == Recovering ~> (Serving \/ ses = "none")
===============================================================================
