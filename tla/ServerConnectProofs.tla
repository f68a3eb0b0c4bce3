-------------------------- MODULE ServerConnectProofs --------------------------
(***************************************************************************)
(* Proofs about ServerConnect, for every choice of limits, every number of *)
(* events and attempts of any length: type correctness, the two safety     *)
(* invariants, and that the task implements ConnAttempt.                   *)
(*                                                                         *)
(* The conjunction of the three invariants is inductive as it stands.  The *)
(* flags and the ages of the timers are proved in lemmas of their own: an  *)
(* action says of a flag only TRUE, FALSE or a condition, and the ages are *)
(* a function over the timers of which an action changes one or all.       *)
(***************************************************************************)
EXTENDS ServerConnect, TLAPS

\* A task that is gone, or about to go, has no message in hand: no handler runs for it.
IdleWaits == state \in {"none", "CONNECTED"} => got = "blocked"

IInv == TypeOK /\ WindowOwned /\ WaitFits /\ IdleWaits

\* Every request the handlers make is one that has answers, and every answer is a message
\* the queue may hold.
LEMMA AnswersAreMessages ==
    /\ Requests = {"enable", "scan", "ssid", "eth", "announce", "ping", "gateway", "advert",
                    "ihub", "restart"}
    /\ \A r \in Requests : Answers[r] \subseteq Messages
    /\ Unsolicited \subseteq Messages
  <1>1. Requests = {"enable", "scan", "ssid", "eth", "announce", "ping", "gateway", "advert",
                    "ihub", "restart"}
    BY DEF Requests, Answers
  <1>2. \A r \in Requests : Answers[r] \subseteq Messages
    <2> TAKE r \in Requests
    <2>1. Answers[r] \in {Answers[q] : q \in Requests}
      OBVIOUS
    <2> QED
      BY <2>1, Zenon DEF Messages
  <1>3. Unsolicited \subseteq Messages
    BY Zenon DEF Messages
  <1> QED
    BY <1>1, <1>2, <1>3

\* A flag is only given a truth value.
LEMMA FlagsStep == FlagsOK /\ [Next]_vars => FlagsOK'
  <1> SUFFICES ASSUME FlagsOK, [Next]_vars PROVE FlagsOK'
    OBVIOUS
  <1> USE DEF FlagsOK, Go
  <1>1. CASE CreateTask BY <1>1, Zenon DEF CreateTask
  <1>2. CASE DisableFlag BY <1>2, Zenon DEF DisableFlag
  <1>3. CASE Provision BY <1>3, Zenon DEF Provision
  <1>4. CASE InitMonSrvConn BY <1>4, Zenon DEF InitMonSrvConn
  <1>5. CASE MonitorEnds BY <1>5, Zenon DEF MonitorEnds
  <1>6. CASE RestartLost BY <1>6, Zenon DEF RestartLost
  <1>7. CASE ReceiveAnswer BY <1>7, Zenon DEF ReceiveAnswer, Receive
  <1>8. CASE ReceiveEvent BY <1>8, Zenon DEF ReceiveEvent, Receive
  <1>9. CASE TimesOut BY <1>9, Zenon DEF TimesOut
  <1>10. CASE CheckCredentials BY <1>10, Zenon DEF CheckCredentials, Advertise
  <1>11. CASE Discard BY <1>11, Zenon DEF Discard
  <1>12. CASE InvalidJson BY <1>12, Zenon DEF InvalidJson
  <1> USE DEF TimeOut
  <1>13. CASE HandleWifiEnabled BY <1>13, Zenon DEF HandleWifiEnabled, WifiEnabled
  <1>14. CASE HandleBleStartResp BY <1>14, Zenon DEF HandleBleStartResp, WifiEnabled
  <1>15. CASE HandleNetworkScan
    <2>1. ethSeen' \in BOOLEAN BY <1>15, Zenon DEF HandleNetworkScan
    <2>2. creds' = creds BY <1>15, Zenon DEF HandleNetworkScan, Advertise, Join
    <2> QED BY <1>15, <2>1, <2>2, Zenon DEF HandleNetworkScan
  <1>16. CASE HandleWifiConnectSsid BY <1>16, Zenon DEF HandleWifiConnectSsid, Advertise
  <1>17. CASE HandleEthConnect BY <1>17, Zenon DEF HandleEthConnect
  <1>18. CASE HandleNtpSyncCheck BY <1>18, Zenon DEF HandleNtpSyncCheck
  <1>19. CASE HandleDeviceAnnounce BY <1>19, Zenon DEF HandleDeviceAnnounce
  <1>20. CASE HandlePingDns BY <1>20, Zenon DEF HandlePingDns
  <1>21. CASE HandlePingGateway BY <1>21, Zenon DEF HandlePingGateway
  <1>22. CASE HandleIhubResponse BY <1>22, Zenon DEF HandleIhubResponse
  <1>23. CASE HandleFailedState BY <1>23, Zenon DEF HandleFailedState
  <1>24. CASE Exit BY <1>24, Zenon DEF Exit
  <1>25. CASE UNCHANGED vars BY <1>25, Zenon DEF vars
  <1> QED
    BY <1>1, <1>2, <1>3, <1>4, <1>5, <1>6, <1>7, <1>8, <1>9, <1>10, <1>11, <1>12, <1>13, <1>14,
       <1>15, <1>16, <1>17, <1>18, <1>19, <1>20, <1>21, <1>22, <1>23, <1>24, <1>25, Zenon
    DEF Next, Environment, Handle

\* Time passing, and a timer started or cleared, keep every age between Off and just past
\* the limit.
LEMMA TimersStayInRange ==
    ASSUME AgeOK
    PROVE  /\ \A s \in Nat : age' = Aged(s) => AgeOK'
           /\ \A t \in Timers : age' = Clear(t) => AgeOK'
           /\ \A t \in Timers : age' = [age EXCEPT ![t] = 0] => AgeOK'
           /\ \A t \in Timers : StartTimer(t) => AgeOK'
           /\ age' = age => AgeOK'
  <1> USE ConstantsAssumption DEF ConstantsAssumption, AgeOK, Off
  <1>1. \A s \in Nat : age' = Aged(s) => AgeOK'
    <2> SUFFICES ASSUME NEW s \in Nat, age' = Aged(s) PROVE AgeOK'
      OBVIOUS
    <2>1. \A t \in Timers : age'[t] = IF age[t] = -1 THEN -1
                            ELSE IF age[t] + s > Limit[t] THEN Limit[t] + 1 ELSE age[t] + s
      BY DEF Aged
    <2>2. \A t \in Timers : age'[t] \in Int /\ -1 <= age'[t] /\ age'[t] <= Limit[t] + 1
      BY <2>1
    <2>3. age' \in [Timers -> Int]
      BY <2>2 DEF Aged
    <2> QED
      BY <2>2, <2>3
  <1>2. \A t \in Timers : age' = Clear(t) => AgeOK'
    BY DEF Clear
  <1>3. \A t \in Timers : age' = [age EXCEPT ![t] = 0] => AgeOK'
    OBVIOUS
  <1> QED
    BY <1>1, <1>2, <1>3 DEF StartTimer

\* The ages of the timers are in range after every step: each handler changes them in one
\* of the ways of TimersStayInRange.
LEMMA AgeStep == AgeOK /\ TypeOK /\ [Next]_vars => AgeOK'
  <1> SUFFICES ASSUME AgeOK, TypeOK, [Next]_vars PROVE AgeOK'
    OBVIOUS
  <1>0. /\ \A s \in Nat : age' = Aged(s) => AgeOK'
        /\ \A t \in Timers : age' = Clear(t) => AgeOK'
        /\ \A t \in Timers : StartTimer(t) => AgeOK'
        /\ \A t \in Timers : age' = [age EXCEPT ![t] = 0] => AgeOK'
        /\ age' = age => AgeOK'
    BY TimersStayInRange
  <1>1. wait \in Nat /\ {0, wait} \subseteq Nat
    BY DEF TypeOK
  <1>2. CASE ReceiveAnswer \/ ReceiveEvent
    BY <1>2, <1>0, <1>1, Zenon DEF ReceiveAnswer, ReceiveEvent, Receive
  <1>3. CASE TimesOut
    BY <1>3, <1>0, <1>1, Zenon DEF TimesOut
  <1>4. CASE Environment
    BY <1>4, <1>0, Zenon
    DEF Environment, CreateTask, DisableFlag, Provision, InitMonSrvConn, MonitorEnds, RestartLost
  <1>5. CASE Handle
    <2>1. {"wifi_enabled", "network_scan", "wifi_connect", "eth", "device_announce", "ping_dns",
           "ping_gateway", "ihub"} \subseteq Timers /\ {0, 80} \subseteq Nat /\ 35 \in Nat
      BY DEF Timers
    <2>2. CASE CheckCredentials \/ Discard \/ InvalidJson \/ Exit
      BY <2>2, <1>0, Zenon DEF CheckCredentials, Discard, InvalidJson, Exit
    <2>3. CASE HandleWifiEnabled \/ HandleBleStartResp
      <3>1. PICK s : WifiEnabled(s)
        BY <2>3, Zenon DEF HandleWifiEnabled, HandleBleStartResp
      <3> QED
        BY <3>1, <2>1, <1>0 DEF WifiEnabled
    <2>4. CASE HandleNetworkScan
      <3>1. \/ age' = age \/ age' = Clear("network_scan")
            \/ age' = [age EXCEPT !["network_scan"] = 0]
        BY <2>4 DEF HandleNetworkScan, AgeOK, Timers
      <3> QED
        BY <3>1, <2>1, <1>0
    <2>5. CASE HandleWifiConnectSsid \/ HandleEthConnect
      BY <2>5, <2>1, <1>0 DEF HandleWifiConnectSsid, HandleEthConnect, TimeOut
    <2>6. CASE HandleNtpSyncCheck \/ HandleFailedState
      BY <2>6, <2>1, <1>0 DEF HandleNtpSyncCheck, HandleFailedState
    <2>7. CASE HandleDeviceAnnounce \/ HandlePingDns
      BY <2>7, <2>1, <1>0 DEF HandleDeviceAnnounce, HandlePingDns, TimeOut
    <2>8. CASE HandlePingGateway \/ HandleIhubResponse
      BY <2>8, <2>1, <1>0 DEF HandlePingGateway, HandleIhubResponse, TimeOut
    <2> QED
      BY <1>5, <2>2, <2>3, <2>4, <2>5, <2>6, <2>7, <2>8, Zenon DEF Handle
  <1>6. CASE UNCHANGED vars
    BY <1>6, <1>0 DEF vars
  <1> QED
    BY <1>2, <1>3, <1>4, <1>5, <1>6, Zenon DEF Next

StateOK == state \in States
QueueOK ==
    /\ got \in Messages \cup {"blocked", "none"}
    /\ wait \in {1, 3, 10, 30, 60, 300}
    /\ events \in 0 .. MaxEvents
CountOK == count \subseteq 1 .. 3
DueOK == due \subseteq Requests

\* No step leaves the states of the enumeration.
LEMMA StateStep == StateOK /\ [Next]_vars => StateOK'
  <1> SUFFICES ASSUME StateOK, [Next]_vars PROVE StateOK'
    OBVIOUS
  <1> USE DEF StateOK, States, Failed, Go
  <1>1. CASE Environment
    BY <1>1 DEF Environment, CreateTask, DisableFlag, Provision, InitMonSrvConn, MonitorEnds,
                RestartLost
  <1>2. CASE ReceiveAnswer
    BY <1>2 DEF ReceiveAnswer, Receive
  <1>3. CASE ReceiveEvent
    BY <1>3 DEF ReceiveEvent, Receive
  <1>4. CASE TimesOut
    BY <1>4 DEF TimesOut
  <1>5. CASE Handle
    <2>1. CASE CheckCredentials
      BY <2>1 DEF CheckCredentials, Advertise
    <2>2. CASE Discard
      BY <2>2 DEF Discard
    <2>3. CASE InvalidJson
      BY <2>3 DEF InvalidJson
    <2>4. CASE HandleWifiEnabled
      BY <2>4 DEF HandleWifiEnabled, WifiEnabled, TimeOut
    <2>5. CASE HandleBleStartResp
      BY <2>5 DEF HandleBleStartResp, WifiEnabled, TimeOut
    <2>6. CASE HandleNetworkScan
      BY <2>6 DEF HandleNetworkScan, Advertise, Join
    <2>7. CASE HandleWifiConnectSsid
      BY <2>7 DEF HandleWifiConnectSsid, Advertise, TimeOut
    <2>8. CASE HandleEthConnect
      BY <2>8 DEF HandleEthConnect, TimeOut
    <2>9. CASE HandleNtpSyncCheck
      BY <2>9 DEF HandleNtpSyncCheck
    <2>10. CASE HandleDeviceAnnounce
      BY <2>10 DEF HandleDeviceAnnounce, TimeOut
    <2>11. CASE HandlePingDns
      BY <2>11 DEF HandlePingDns, TimeOut
    <2>12. CASE HandlePingGateway
      BY <2>12 DEF HandlePingGateway, TimeOut
    <2>13. CASE HandleIhubResponse
      BY <2>13 DEF HandleIhubResponse, TimeOut
    <2>14. CASE HandleFailedState
      BY <2>14 DEF HandleFailedState
    <2>15. CASE Exit
      BY <2>15 DEF Exit
    <2> QED
      BY <1>5, <2>1, <2>2, <2>3, <2>4, <2>5, <2>6, <2>7, <2>8,
         <2>9, <2>10, <2>11, <2>12, <2>13, <2>14, <2>15, Zenon
      DEF Handle
  <1>6. CASE UNCHANGED vars
    BY <1>6 DEF vars
  <1> QED
    BY <1>1, <1>2, <1>3, <1>4, <1>5, <1>6, Zenon DEF Next

\* The queue, the waits and the requests hold what they are declared to hold.
LEMMA QueueStep == QueueOK /\ DueOK /\ [Next]_vars => QueueOK'
  <1> SUFFICES ASSUME QueueOK, DueOK, [Next]_vars PROVE QueueOK'
    OBVIOUS
  <1> USE ConstantsAssumption DEF ConstantsAssumption, QueueOK, Go
  <1>1. CASE Environment
    BY <1>1 DEF Environment, CreateTask, DisableFlag, Provision, InitMonSrvConn, MonitorEnds,
                RestartLost
  <1>2. CASE ReceiveAnswer
    BY <1>2, AnswersAreMessages DEF ReceiveAnswer, Receive, DueOK
  <1>3. CASE ReceiveEvent
    BY <1>3, AnswersAreMessages DEF ReceiveEvent, Receive
  <1>4. CASE TimesOut
    BY <1>4 DEF TimesOut
  <1>5. CASE Handle
    <2>1. CASE CheckCredentials
      BY <2>1, AnswersAreMessages DEF CheckCredentials, Advertise
    <2>2. CASE Discard
      BY <2>2, AnswersAreMessages DEF Discard
    <2>3. CASE InvalidJson
      BY <2>3, AnswersAreMessages DEF InvalidJson
    <2>4. CASE HandleWifiEnabled
      BY <2>4, AnswersAreMessages DEF HandleWifiEnabled, WifiEnabled, TimeOut
    <2>5. CASE HandleBleStartResp
      BY <2>5, AnswersAreMessages DEF HandleBleStartResp, WifiEnabled, TimeOut
    <2>6. CASE HandleNetworkScan
      BY <2>6, AnswersAreMessages DEF HandleNetworkScan, Advertise, Join
    <2>7. CASE HandleWifiConnectSsid
      BY <2>7, AnswersAreMessages DEF HandleWifiConnectSsid, Advertise, TimeOut
    <2>8. CASE HandleEthConnect
      BY <2>8, AnswersAreMessages DEF HandleEthConnect, TimeOut
    <2>9. CASE HandleNtpSyncCheck
      BY <2>9, AnswersAreMessages DEF HandleNtpSyncCheck
    <2>10. CASE HandleDeviceAnnounce
      BY <2>10, AnswersAreMessages DEF HandleDeviceAnnounce, TimeOut
    <2>11. CASE HandlePingDns
      BY <2>11, AnswersAreMessages DEF HandlePingDns, TimeOut
    <2>12. CASE HandlePingGateway
      BY <2>12, AnswersAreMessages DEF HandlePingGateway, TimeOut
    <2>13. CASE HandleIhubResponse
      BY <2>13, AnswersAreMessages DEF HandleIhubResponse, TimeOut
    <2>14. CASE HandleFailedState
      BY <2>14, AnswersAreMessages DEF HandleFailedState
    <2>15. CASE Exit
      BY <2>15, AnswersAreMessages DEF Exit
    <2> QED
      BY <1>5, <2>1, <2>2, <2>3, <2>4, <2>5, <2>6, <2>7, <2>8,
         <2>9, <2>10, <2>11, <2>12, <2>13, <2>14, <2>15, Zenon
      DEF Handle
  <1>6. CASE UNCHANGED vars
    BY <1>6 DEF vars
  <1> QED
    BY <1>1, <1>2, <1>3, <1>4, <1>5, <1>6, Zenon DEF Next

\* The flags of the BLE window are the three of the code.
LEMMA CountStep == CountOK /\ [Next]_vars => CountOK'
  <1> SUFFICES ASSUME CountOK, [Next]_vars PROVE CountOK'
    OBVIOUS
  <1> USE DEF CountOK, Go
  <1>1. CASE Environment
    BY <1>1 DEF Environment, CreateTask, DisableFlag, Provision, InitMonSrvConn, MonitorEnds,
                RestartLost
  <1>2. CASE ReceiveAnswer
    BY <1>2 DEF ReceiveAnswer, Receive
  <1>3. CASE ReceiveEvent
    BY <1>3 DEF ReceiveEvent, Receive
  <1>4. CASE TimesOut
    BY <1>4 DEF TimesOut
  <1>5. CASE Handle
    <2>1. CASE CheckCredentials
      <3>1. count' \in {count, count \cup {1}, count \ {1}}
        BY <2>1, Zenon DEF CheckCredentials, Advertise
      <3> QED
        BY <3>1
    <2>2. CASE Discard
      BY <2>2 DEF Discard
    <2>3. CASE InvalidJson
      BY <2>3 DEF InvalidJson
    <2>4. CASE HandleWifiEnabled
      BY <2>4 DEF HandleWifiEnabled, WifiEnabled, TimeOut
    <2>5. CASE HandleBleStartResp
      BY <2>5 DEF HandleBleStartResp, WifiEnabled, TimeOut
    <2>6. CASE HandleNetworkScan
      <3>1. count' \in {count, count \cup {2}}
        BY <2>6, Zenon DEF HandleNetworkScan, Advertise, Join, Go
      <3> QED
        BY <3>1
    <2>7. CASE HandleWifiConnectSsid
      <3>1. count' \in {count, count \cup {3}}
        BY <2>7, Zenon DEF HandleWifiConnectSsid, Advertise, TimeOut
      <3> QED
        BY <3>1
    <2>8. CASE HandleEthConnect
      BY <2>8 DEF HandleEthConnect, TimeOut
    <2>9. CASE HandleNtpSyncCheck
      BY <2>9 DEF HandleNtpSyncCheck
    <2>10. CASE HandleDeviceAnnounce
      BY <2>10 DEF HandleDeviceAnnounce, TimeOut
    <2>11. CASE HandlePingDns
      BY <2>11 DEF HandlePingDns, TimeOut
    <2>12. CASE HandlePingGateway
      BY <2>12 DEF HandlePingGateway, TimeOut
    <2>13. CASE HandleIhubResponse
      BY <2>13 DEF HandleIhubResponse, TimeOut
    <2>14. CASE HandleFailedState
      BY <2>14 DEF HandleFailedState
    <2>15. CASE Exit
      BY <2>15 DEF Exit
    <2> QED
      BY <1>5, <2>1, <2>2, <2>3, <2>4, <2>5, <2>6, <2>7, <2>8,
         <2>9, <2>10, <2>11, <2>12, <2>13, <2>14, <2>15, Zenon
      DEF Handle
  <1>6. CASE UNCHANGED vars
    BY <1>6 DEF vars
  <1> QED
    BY <1>1, <1>2, <1>3, <1>4, <1>5, <1>6, Zenon DEF Next

\* The handlers make the requests of AnswersAreMessages, the other actors none.
LEMMA DueStep == DueOK /\ [Next]_vars => DueOK'
  <1> SUFFICES ASSUME DueOK, [Next]_vars PROVE DueOK'
    OBVIOUS
  <1> USE DEF DueOK, Ask
  <1>1. CASE Environment
    BY <1>1 DEF Environment, CreateTask, DisableFlag, Provision, InitMonSrvConn, MonitorEnds,
                RestartLost
  <1>2. CASE ReceiveAnswer
    BY <1>2, AnswersAreMessages DEF ReceiveAnswer, Receive
  <1>3. CASE ReceiveEvent
    BY <1>3, AnswersAreMessages DEF ReceiveEvent, Receive
  <1>4. CASE TimesOut
    BY <1>4 DEF TimesOut
  <1>5. CASE Handle
    <2>1. CASE CheckCredentials
      BY <2>1, AnswersAreMessages DEF CheckCredentials, Advertise
    <2>2. CASE Discard
      BY <2>2, AnswersAreMessages DEF Discard
    <2>3. CASE InvalidJson
      BY <2>3, AnswersAreMessages DEF InvalidJson
    <2>4. CASE HandleWifiEnabled
      BY <2>4, AnswersAreMessages DEF HandleWifiEnabled, WifiEnabled, TimeOut
    <2>5. CASE HandleBleStartResp
      BY <2>5, AnswersAreMessages DEF HandleBleStartResp, WifiEnabled, TimeOut
    <2>6. CASE HandleNetworkScan
      BY <2>6, AnswersAreMessages DEF HandleNetworkScan, Advertise, Join
    <2>7. CASE HandleWifiConnectSsid
      BY <2>7, AnswersAreMessages DEF HandleWifiConnectSsid, Advertise, TimeOut
    <2>8. CASE HandleEthConnect
      BY <2>8, AnswersAreMessages DEF HandleEthConnect, TimeOut
    <2>9. CASE HandleNtpSyncCheck
      BY <2>9, AnswersAreMessages DEF HandleNtpSyncCheck
    <2>10. CASE HandleDeviceAnnounce
      BY <2>10, AnswersAreMessages DEF HandleDeviceAnnounce, TimeOut
    <2>11. CASE HandlePingDns
      BY <2>11, AnswersAreMessages DEF HandlePingDns, TimeOut
    <2>12. CASE HandlePingGateway
      BY <2>12, AnswersAreMessages DEF HandlePingGateway, TimeOut
    <2>13. CASE HandleIhubResponse
      BY <2>13, AnswersAreMessages DEF HandleIhubResponse, TimeOut
    <2>14. CASE HandleFailedState
      BY <2>14, AnswersAreMessages DEF HandleFailedState
    <2>15. CASE Exit
      BY <2>15, AnswersAreMessages DEF Exit
    <2> QED
      BY <1>5, <2>1, <2>2, <2>3, <2>4, <2>5, <2>6, <2>7, <2>8,
         <2>9, <2>10, <2>11, <2>12, <2>13, <2>14, <2>15, Zenon
      DEF Handle
  <1>6. CASE UNCHANGED vars
    BY <1>6 DEF vars
  <1> QED
    BY <1>1, <1>2, <1>3, <1>4, <1>5, <1>6, Zenon DEF Next

\* The BLE window is only entered with a count set, and no handler takes its count away
\* and stays.
LEMMA WindowStep == WindowOwned /\ [Next]_vars => WindowOwned'
  <1> SUFFICES ASSUME WindowOwned, [Next]_vars PROVE WindowOwned'
    OBVIOUS
  <1> USE DEF WindowOwned, Go, At, Failed
  <1>1. CASE Environment
    BY <1>1 DEF Environment, CreateTask, DisableFlag, Provision, InitMonSrvConn, MonitorEnds,
                RestartLost
  <1>2. CASE ReceiveAnswer
    BY <1>2 DEF ReceiveAnswer, Receive
  <1>3. CASE ReceiveEvent
    BY <1>3 DEF ReceiveEvent, Receive
  <1>4. CASE TimesOut
    BY <1>4 DEF TimesOut
  <1>5. CASE Handle
    <2>1. CASE CheckCredentials
      BY <2>1 DEF CheckCredentials, Advertise
    <2>2. CASE Discard
      BY <2>2 DEF Discard
    <2>3. CASE InvalidJson
      BY <2>3 DEF InvalidJson
    <2>4. CASE HandleWifiEnabled
      BY <2>4 DEF HandleWifiEnabled, WifiEnabled, TimeOut
    <2>5. CASE HandleBleStartResp
      BY <2>5 DEF HandleBleStartResp, WifiEnabled, TimeOut
    <2>6. CASE HandleNetworkScan
      BY <2>6 DEF HandleNetworkScan, Advertise, Join
    <2>7. CASE HandleWifiConnectSsid
      BY <2>7 DEF HandleWifiConnectSsid, Advertise, TimeOut
    <2>8. CASE HandleEthConnect
      BY <2>8 DEF HandleEthConnect, TimeOut
    <2>9. CASE HandleNtpSyncCheck
      BY <2>9 DEF HandleNtpSyncCheck
    <2>10. CASE HandleDeviceAnnounce
      BY <2>10 DEF HandleDeviceAnnounce, TimeOut
    <2>11. CASE HandlePingDns
      BY <2>11 DEF HandlePingDns, TimeOut
    <2>12. CASE HandlePingGateway
      BY <2>12 DEF HandlePingGateway, TimeOut
    <2>13. CASE HandleIhubResponse
      BY <2>13 DEF HandleIhubResponse, TimeOut
    <2>14. CASE HandleFailedState
      BY <2>14 DEF HandleFailedState
    <2>15. CASE Exit
      BY <2>15 DEF Exit
    <2> QED
      BY <1>5, <2>1, <2>2, <2>3, <2>4, <2>5, <2>6, <2>7, <2>8,
         <2>9, <2>10, <2>11, <2>12, <2>13, <2>14, <2>15, Zenon
      DEF Handle
  <1>6. CASE UNCHANGED vars
    BY <1>6 DEF vars
  <1> QED
    BY <1>1, <1>2, <1>3, <1>4, <1>5, <1>6, Zenon DEF Next

\* Where the task is told to wait five minutes, the state it goes to allows it.
LEMMA WaitStep == WaitFits /\ QueueOK /\ [Next]_vars => WaitFits'
  <1> SUFFICES ASSUME WaitFits, QueueOK, [Next]_vars PROVE WaitFits'
    OBVIOUS
  <1> USE DEF WaitFits, QueueOK, Go, At, Failed
  <1>1. CASE Environment
    BY <1>1 DEF Environment, CreateTask, DisableFlag, Provision, InitMonSrvConn, MonitorEnds,
                RestartLost
  <1>2. CASE ReceiveAnswer
    BY <1>2 DEF ReceiveAnswer, Receive
  <1>3. CASE ReceiveEvent
    BY <1>3 DEF ReceiveEvent, Receive
  <1>4. CASE TimesOut
    BY <1>4 DEF TimesOut
  <1>5. CASE Handle
    <2>1. CASE CheckCredentials
      BY <2>1 DEF CheckCredentials, Advertise
    <2>2. CASE Discard
      BY <2>2 DEF Discard
    <2>3. CASE InvalidJson
      BY <2>3 DEF InvalidJson
    <2>4. CASE HandleWifiEnabled
      BY <2>4 DEF HandleWifiEnabled, WifiEnabled, TimeOut
    <2>5. CASE HandleBleStartResp
      BY <2>5 DEF HandleBleStartResp, WifiEnabled, TimeOut
    <2>6. CASE HandleNetworkScan
      BY <2>6 DEF HandleNetworkScan, Advertise, Join
    <2>7. CASE HandleWifiConnectSsid
      BY <2>7 DEF HandleWifiConnectSsid, Advertise, TimeOut
    <2>8. CASE HandleEthConnect
      BY <2>8 DEF HandleEthConnect, TimeOut
    <2>9. CASE HandleNtpSyncCheck
      BY <2>9 DEF HandleNtpSyncCheck
    <2>10. CASE HandleDeviceAnnounce
      BY <2>10 DEF HandleDeviceAnnounce, TimeOut
    <2>11. CASE HandlePingDns
      BY <2>11 DEF HandlePingDns, TimeOut
    <2>12. CASE HandlePingGateway
      BY <2>12 DEF HandlePingGateway, TimeOut
    <2>13. CASE HandleIhubResponse
      BY <2>13 DEF HandleIhubResponse, TimeOut
    <2>14. CASE HandleFailedState
      BY <2>14 DEF HandleFailedState
    <2>15. CASE Exit
      BY <2>15 DEF Exit
    <2> QED
      BY <1>5, <2>1, <2>2, <2>3, <2>4, <2>5, <2>6, <2>7, <2>8,
         <2>9, <2>10, <2>11, <2>12, <2>13, <2>14, <2>15, Zenon
      DEF Handle
  <1>6. CASE UNCHANGED vars
    BY <1>6 DEF vars
  <1> QED
    BY <1>1, <1>2, <1>3, <1>4, <1>5, <1>6, Zenon DEF Next

\* A task without a state takes no message, and a handler gives up the one it had.
LEMMA IdleStep == IdleWaits /\ [Next]_vars => IdleWaits'
  <1> SUFFICES ASSUME IdleWaits, [Next]_vars PROVE IdleWaits'
    OBVIOUS
  <1> USE DEF IdleWaits, Go
  <1>1. CASE Environment
    BY <1>1 DEF Environment, CreateTask, DisableFlag, Provision, InitMonSrvConn, MonitorEnds,
                RestartLost
  <1>2. CASE ReceiveAnswer
    BY <1>2 DEF ReceiveAnswer, Receive, Blocked
  <1>3. CASE ReceiveEvent
    BY <1>3 DEF ReceiveEvent, Receive, Blocked
  <1>4. CASE TimesOut
    BY <1>4 DEF TimesOut, Blocked
  <1>5. CASE Handle
    <2>1. CASE CheckCredentials
      BY <2>1 DEF CheckCredentials, Advertise
    <2>2. CASE Discard
      BY <2>2 DEF Discard
    <2>3. CASE InvalidJson
      BY <2>3 DEF InvalidJson
    <2>4. CASE HandleWifiEnabled
      BY <2>4 DEF HandleWifiEnabled, WifiEnabled, TimeOut
    <2>5. CASE HandleBleStartResp
      BY <2>5 DEF HandleBleStartResp, WifiEnabled, TimeOut
    <2>6. CASE HandleNetworkScan
      BY <2>6 DEF HandleNetworkScan, Advertise, Join
    <2>7. CASE HandleWifiConnectSsid
      BY <2>7 DEF HandleWifiConnectSsid, Advertise, TimeOut
    <2>8. CASE HandleEthConnect
      BY <2>8 DEF HandleEthConnect, TimeOut
    <2>9. CASE HandleNtpSyncCheck
      BY <2>9 DEF HandleNtpSyncCheck
    <2>10. CASE HandleDeviceAnnounce
      BY <2>10 DEF HandleDeviceAnnounce, TimeOut
    <2>11. CASE HandlePingDns
      BY <2>11 DEF HandlePingDns, TimeOut
    <2>12. CASE HandlePingGateway
      BY <2>12 DEF HandlePingGateway, TimeOut
    <2>13. CASE HandleIhubResponse
      BY <2>13 DEF HandleIhubResponse, TimeOut
    <2>14. CASE HandleFailedState
      BY <2>14 DEF HandleFailedState
    <2>15. CASE Exit
      BY <2>15 DEF Exit
    <2> QED
      BY <1>5, <2>1, <2>2, <2>3, <2>4, <2>5, <2>6, <2>7, <2>8,
         <2>9, <2>10, <2>11, <2>12, <2>13, <2>14, <2>15, Zenon
      DEF Handle
  <1>6. CASE UNCHANGED vars
    BY <1>6 DEF vars
  <1> QED
    BY <1>1, <1>2, <1>3, <1>4, <1>5, <1>6, Zenon DEF Next


\* The moves between states that the code makes.
StateMove ==
    \/ state' = state
    \/ state = "none" /\ state' = "CHECK_CREDENTIALS"
    \/ state \in States \ {"none"} /\ state' = "none"
    \/ /\ state \in States \ {"none", "CONNECTED"}
       /\ state' \in Failed \cup {"CHECK_CREDENTIALS", "CHECK_BLE_START_RESP", "CHECK_WIFI_ENABLED",
                                  "NETWORK_SCAN", "WIFI_CONNECT_SSID", "ETH_CONNECT"}
    \/ state \in {"WIFI_CONNECT_SSID", "ETH_CONNECT"} /\ state' = "NTP_SYNC_CHECK"
    \/ state = "NTP_SYNC_CHECK" /\ state' = "DEVICE_ANNOUNCE"
    \/ state = "DEVICE_ANNOUNCE" /\ state' \in {"PING_DNS", "WAITING_FOR_IHUB_RESPONSE"}
    \/ state = "PING_DNS" /\ state' = "PING_GATEWAY"
    \/ state = "WAITING_FOR_IHUB_RESPONSE" /\ state' = "CONNECTED"

\* Every step of the task makes one of them.
LEMMA Moves == StateOK /\ IdleWaits /\ [Next]_vars => StateMove
  <1> SUFFICES ASSUME StateOK, IdleWaits, [Next]_vars PROVE StateMove
    OBVIOUS
  <1> USE DEF StateMove, StateOK, IdleWaits, Go, At, States, Failed
  <1>1. CASE Environment
    BY <1>1 DEF Environment, CreateTask, DisableFlag, Provision, InitMonSrvConn, MonitorEnds,
                RestartLost
  <1>2. CASE ReceiveAnswer
    BY <1>2 DEF ReceiveAnswer, Receive
  <1>3. CASE ReceiveEvent
    BY <1>3 DEF ReceiveEvent, Receive
  <1>4. CASE TimesOut
    BY <1>4 DEF TimesOut
  <1>5. CASE Handle
    <2>1. CASE CheckCredentials
      BY <2>1 DEF CheckCredentials, Advertise
    <2>2. CASE Discard
      BY <2>2 DEF Discard
    <2>3. CASE InvalidJson
      BY <2>3 DEF InvalidJson
    <2>4. CASE HandleWifiEnabled
      BY <2>4 DEF HandleWifiEnabled, WifiEnabled, TimeOut
    <2>5. CASE HandleBleStartResp
      BY <2>5 DEF HandleBleStartResp, WifiEnabled, TimeOut
    <2>6. CASE HandleNetworkScan
      BY <2>6 DEF HandleNetworkScan, Advertise, Join
    <2>7. CASE HandleWifiConnectSsid
      BY <2>7 DEF HandleWifiConnectSsid, Advertise, TimeOut
    <2>8. CASE HandleEthConnect
      BY <2>8 DEF HandleEthConnect, TimeOut
    <2>9. CASE HandleNtpSyncCheck
      BY <2>9 DEF HandleNtpSyncCheck
    <2>10. CASE HandleDeviceAnnounce
      BY <2>10 DEF HandleDeviceAnnounce, TimeOut
    <2>11. CASE HandlePingDns
      BY <2>11 DEF HandlePingDns, TimeOut
    <2>12. CASE HandlePingGateway
      BY <2>12 DEF HandlePingGateway, TimeOut
    <2>13. CASE HandleIhubResponse
      BY <2>13 DEF HandleIhubResponse, TimeOut
    <2>14. CASE HandleFailedState
      BY <2>14 DEF HandleFailedState
    <2>15. CASE Exit
      BY <2>15 DEF Exit
    <2> QED
      BY <1>5, <2>1, <2>2, <2>3, <2>4, <2>5, <2>6, <2>7, <2>8,
         <2>9, <2>10, <2>11, <2>12, <2>13, <2>14, <2>15, Zenon
      DEF Handle
  <1>6. CASE UNCHANGED vars
    BY <1>6 DEF vars
  <1> QED
    BY <1>1, <1>2, <1>3, <1>4, <1>5, <1>6, Zenon DEF Next

\* The inductive invariant holds in every state of every behaviour.
LEMMA Inductive == Spec => []IInv
  <1>1. Init => IInv
    <2> SUFFICES ASSUME Init PROVE IInv
      OBVIOUS
    <2>1. FlagsOK
      BY Zenon DEF Init, FlagsOK
    <2>2. AgeOK
      BY ConstantsAssumption DEF Init, AgeOK, Off, ConstantsAssumption
    <2>3. StateOK /\ QueueOK /\ CountOK /\ DueOK
      BY ConstantsAssumption DEF Init, StateOK, States, QueueOK, CountOK, DueOK, ConstantsAssumption
    <2>4. WindowOwned /\ WaitFits /\ IdleWaits
      BY DEF Init, WindowOwned, WaitFits, IdleWaits
    <2> QED
      BY <2>1, <2>2, <2>3, <2>4, Zenon DEF IInv, TypeOK, StateOK, QueueOK, CountOK, DueOK
  <1>2. IInv /\ [Next]_vars => IInv'
    <2> SUFFICES ASSUME IInv, [Next]_vars PROVE IInv'
      OBVIOUS
    <2>1. FlagsOK' /\ AgeOK'
      BY FlagsStep, AgeStep, Zenon DEF IInv, TypeOK
    <2>2. StateOK /\ QueueOK /\ CountOK /\ DueOK
      BY Zenon DEF IInv, TypeOK, StateOK, QueueOK, CountOK, DueOK
    <2>3. StateOK' /\ QueueOK' /\ CountOK' /\ DueOK'
      BY <2>2, StateStep, QueueStep, CountStep, DueStep, Zenon
    <2>4. WindowOwned' /\ WaitFits' /\ IdleWaits'
      BY <2>2, WindowStep, WaitStep, IdleStep, Zenon DEF IInv
    <2> QED
      BY <2>1, <2>3, <2>4, Zenon DEF IInv, TypeOK, StateOK, QueueOK, CountOK, DueOK
  <1> QED
    BY <1>1, <1>2, PTL DEF Spec

\* Type correctness: every variable of Server_Connect keeps its type and every timer its
\* range, however long the device runs.
THEOREM TypeCorrect == Spec => []TypeOK
  BY Inductive, PTL DEF IInv

\* The BLE window is always open on the account of one of its three flags.
THEOREM WindowAlwaysOwned == Spec => []WindowOwned
  BY Inductive, PTL DEF IInv

\* No state that waits for an answer is entered or kept with the five-minute wait.
THEOREM WaitsFit == Spec => []WaitFits
  BY Inductive, PTL DEF IInv

\* Every behaviour of Server_Connect is, seen through phaseOf, one of ConnAttempt: nothing
\* is announced but over a network, nothing is CONNECTED but after an announce.
THEOREM ImplementsAttempt == Spec => AttemptSpec
  <1>1. Init => Attempt!Init
    BY DEF Init, Attempt!Init, phaseOf
  <1>2. IInv /\ [Next]_vars => [Attempt!Next]_(phaseOf(state))
    <2> SUFFICES ASSUME IInv, [Next]_vars PROVE [Attempt!Next]_(phaseOf(state))
      OBVIOUS
    <2>1. StateMove
      BY Moves, Zenon DEF IInv, TypeOK, StateOK
    <2> USE DEF Attempt!Next, Attempt!Move, Attempt!Running
    <2>2. CASE state' = state
      BY <2>2 DEF phaseOf
    <2>3. CASE state = "none" /\ state' = "CHECK_CREDENTIALS"
      BY <2>3 DEF phaseOf, Attempt!Start
    <2>4. CASE state \in States \ {"none"} /\ state' = "none"
      BY <2>4 DEF phaseOf, States, Failed, Attempt!Stop
    <2>5. CASE /\ state \in States \ {"none", "CONNECTED"}
               /\ state' \in Failed \cup {"CHECK_CREDENTIALS", "CHECK_BLE_START_RESP",
                     "CHECK_WIFI_ENABLED", "NETWORK_SCAN", "WIFI_CONNECT_SSID", "ETH_CONNECT"}
      <3>1. phaseOf(state) \in Attempt!Running
        BY <2>5 DEF phaseOf, States, Failed
      <3>2. phaseOf(state)' \in {"credentials", "provisioning", "network", "failed"}
        BY <2>5 DEF phaseOf, Failed
      <3> QED
        BY <3>1, <3>2 DEF Attempt!Restart, Attempt!Fail
    <2>6. CASE state \in {"WIFI_CONNECT_SSID", "ETH_CONNECT"} /\ state' = "NTP_SYNC_CHECK"
      BY <2>6 DEF phaseOf, Attempt!LinkUp
    <2>7. CASE \/ state = "NTP_SYNC_CHECK" /\ state' = "DEVICE_ANNOUNCE"
               \/ state = "PING_DNS" /\ state' = "PING_GATEWAY"
      BY <2>7 DEF phaseOf
    <2>8. CASE state = "DEVICE_ANNOUNCE" /\ state' \in {"PING_DNS", "WAITING_FOR_IHUB_RESPONSE"}
      BY <2>8 DEF phaseOf, Attempt!Diagnose, Attempt!Announced
    <2>9. CASE state = "WAITING_FOR_IHUB_RESPONSE" /\ state' = "CONNECTED"
      BY <2>9 DEF phaseOf, Attempt!Connect
    <2> QED
      BY <2>1, <2>2, <2>3, <2>4, <2>5, <2>6, <2>7, <2>8, <2>9, Zenon DEF StateMove
  <1> QED
    BY <1>1, <1>2, Inductive, PTL DEF Spec, AttemptSpec, Attempt!Spec
================================================================================
