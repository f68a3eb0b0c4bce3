----------------------------- MODULE ServerConnect -----------------------------
(***************************************************************************)
(* The Server_Connect task of src/main/SYSTEM_Actor.c: the state machine   *)
(* that takes the device from credentials, over Wi-Fi or Ethernet and the  *)
(* device announce, to an IoT Hub session.                                 *)
(*                                                                         *)
(* One round of the loop is two actions: the xQueueReceive (a message      *)
(* arrives, or que_rx_delay passes) and the handler of the state.  The     *)
(* SYSTEM task and the other actors are the environment: they answer the   *)
(* requests the handlers send, late, or never.  The *_timeout_start        *)
(* variables are static in the file and outlive an attempt and the task.   *)
(* Times are in seconds; the age of a timer is capped just past its limit, *)
(* where no comparison tells more apart.                                   *)
(***************************************************************************)
EXTENDS Integers

CONSTANTS
    Limit,     \* the *_TIMEOUT_SECONDS, by timer
    MaxEvents, \* bound on the events of Environment and Receive nobody asked for
    Reinit     \* TRUE: SERVER_CONNECT may also be asked for from outside

Timers == {"wifi_enabled", "network_scan", "wifi_connect", "eth",
           "device_announce", "ping_dns", "ping_gateway", "ihub"}

ASSUME ConstantsAssumption ==
    /\ Limit \in [Timers -> Nat]
    /\ MaxEvents \in Nat /\ Reinit \in BOOLEAN

VARIABLES
    state,      \* State; "none": ServerConnect_Handle is NULL
    got,        \* "blocked" in xQueueReceive, then the message, or "none" if it timed out
    wait,       \* que_rx_delay
    age,        \* seconds since each *_timeout_start, Off when it is 0
    count,      \* which of timeout_count_credential{,_2,_3}_u8 are 1
    advertised, \* BLE_INIT_Flag
    creds,      \* DeviceAnnounce_URL and APIkey are set
    ethSeen,    \* eth_keyVal is "AVAILABLE"
    dnsFailed,  \* ping_dns_data is the text of a failed ping
    mon,        \* MonSrvConn_Handle is not NULL
    due,        \* requests whose answer may still come
    events      \* events nobody asked for, so far

vars == <<state, got, wait, age, count, advertised, creds, ethSeen, dnsFailed, mon, due, events>>

Off == -1

Failed == {"FAILED_1", "FAILED_2", "FAILED_3", "FAILED_4", "FAILED_5", "FAILED_6", "FAILED_10",
           "FAILED_11", "FAILED_12", "FAILED_13", "FAILED_PING_GATEWAY"}
States == Failed \cup
    {"none", "CHECK_CREDENTIALS", "CHECK_BLE_START_RESP", "CHECK_WIFI_ENABLED", "NETWORK_SCAN",
     "WIFI_CONNECT_SSID", "ETH_CONNECT", "NTP_SYNC_CHECK", "DEVICE_ANNOUNCE", "PING_DNS",
     "PING_GATEWAY", "WAITING_FOR_IHUB_RESPONSE", "CONNECTED"}

\* What the handlers ask of other actors, and the answers SYSTEM forwards.  "ADVERT" is
\* a RESP that no ping sent.
Answers == [enable |-> {"WIFI_ON", "WIFI_OFF"},
            scan |-> {"SSID", "ETHERNET", "NOT_AVAILABLE"},
            ssid |-> {"WIFI_UP", "WIFI_DOWN"},
            eth |-> {"ETH_UP", "ETH_DOWN"},
            announce |-> {"HTTP_200", "HTTP_PARTIAL", "HTTP_BARE", "HTTP_REFUSED"},
            ping |-> {"PING_OK", "PING_FAILED"},
            gateway |-> {"PING_OK", "PING_FAILED"},
            advert |-> {"ADVERT"},
            ihub |-> {"IHUB_UP", "IHUB_DOWN"},
            restart |-> {"REINIT"}]
Requests == DOMAIN Answers

\* Wi-Fi events, the second answer to an ENABLE asked twice, IHUB's DISCONNECTED, a status
\* nobody asked for, an answer longer than a queue item, SERVER_CONNECT
Unsolicited == {"WIFI_UP", "WIFI_DOWN", "WIFI_ON", "IHUB_DOWN", "NOTICE", "CUT"}
                   \cup (IF Reinit THEN {"REINIT"} ELSE {})
Messages == (UNION {Answers[r] : r \in Requests}) \cup Unsolicited

FlagsOK == advertised \in BOOLEAN /\ creds \in BOOLEAN /\ ethSeen \in BOOLEAN
           /\ dnsFailed \in BOOLEAN /\ mon \in BOOLEAN
AgeOK == age \in [Timers -> Int] /\ \A t \in Timers : Off <= age[t] /\ age[t] <= Limit[t] + 1

\* The type invariant
TypeOK ==
    /\ FlagsOK
    /\ AgeOK
    /\ state \in States
    /\ got \in Messages \cup {"blocked", "none"}
    /\ wait \in {1, 3, 10, 30, 60, 300}
    /\ count \subseteq 1 .. 3
    /\ due \subseteq Requests
    /\ events \in 0 .. MaxEvents

Aged(s) ==
    [t \in Timers |-> IF age[t] = Off THEN Off
                      ELSE IF age[t] + s > Limit[t] THEN Limit[t] + 1 ELSE age[t] + s]
Clear(t) == [age EXCEPT ![t] = Off]

Init ==
    /\ state = "none" /\ got = "blocked" /\ wait = 3
    /\ age = [t \in Timers |-> Off]
    /\ count = {} /\ advertised = FALSE /\ creds \in BOOLEAN
    /\ ethSeen = FALSE /\ dnsFailed = FALSE /\ mon = FALSE
    /\ due = {} /\ events = 0

-------------------------------------------------------------------------------
(* The SYSTEM task, the other actors and the user, while the task waits:   *)
(* between a message and its handler they would change nothing it reads.   *)

\* initiate_ServerConnect with neither task alive; the locals start afresh.
CreateTask ==
    /\ state = "none" /\ ~mon
    /\ state' = "CHECK_CREDENTIALS" /\ got' = "blocked" /\ wait' = 3
    /\ count' = {} /\ ethSeen' = FALSE /\ dnsFailed' = FALSE
    /\ UNCHANGED <<age, advertised, creds, mon, due, events>>

\* SETSERVCONNFLAG with 0: the task exits at the top of its loop.
DisableFlag ==
    /\ state \notin {"none", "CONNECTED"} /\ got = "blocked"
    /\ events < MaxEvents /\ events' = events + 1
    /\ state' = "none"
    /\ UNCHANGED <<got, wait, age, count, advertised, creds, ethSeen, dnsFailed, mon, due>>

\* The URL and the API key are set, over BLE or a console.
Provision ==
    /\ ~creds /\ creds' = TRUE
    /\ UNCHANGED <<state, got, wait, age, count, advertised, ethSeen, dnsFailed, mon, due, events>>

\* IHUB's CONNECTED event: SYSTEM starts the monitor whether or not its message to the
\* queue gets through.
InitMonSrvConn ==
    /\ "ihub" \in due /\ ~mon /\ mon' = TRUE
    /\ UNCHANGED <<state, got, wait, age, count, advertised, creds, ethSeen, dnsFailed, due, events>>

\* The monitor task gives up, or obeys DELETE_MON.
MonitorEnds ==
    /\ mon /\ mon' = FALSE
    /\ UNCHANGED <<state, got, wait, age, count, advertised, creds, ethSeen, dnsFailed, due, events>>

\* A queue was full for a tick: the SERVER_CONNECT of a reset is lost.  (Any other lost
\* answer is one that is never received.)
RestartLost ==
    /\ "restart" \in due /\ due' = due \ {"restart"}
    /\ UNCHANGED <<state, got, wait, age, count, advertised, creds, ethSeen, dnsFailed, mon, events>>

-------------------------------------------------------------------------------
(* xQueueReceive.  A message comes at once or in the last moment.          *)

Blocked == state \notin {"none", "CONNECTED"} /\ got = "blocked"

Receive(m) ==
    /\ Blocked
    /\ got' = m
    /\ \E s \in {0, wait} : age' = Aged(s)
    /\ UNCHANGED <<state, wait, count, advertised, creds, ethSeen, dnsFailed>>

\* IHUBRESP CONNECTED comes from the handler that also starts the monitor.
ReceiveAnswer ==
    \E r \in due : \E m \in Answers[r] :
        /\ Receive(m)
        /\ due' = due \ {r}
        /\ mon' = (mon \/ m = "IHUB_UP")
        /\ UNCHANGED events

ReceiveEvent ==
    \E m \in Unsolicited :
        /\ events < MaxEvents /\ events' = events + 1
        /\ Receive(m)
        /\ UNCHANGED <<mon, due>>

\* The wait passes.  SYSTEM obeys the SERVER_CONNECT of a reset within the minute the
\* task waits after it.
TimesOut ==
    /\ Blocked
    /\ ~(state = "CHECK_CREDENTIALS" /\ "restart" \in due)
    /\ got' = "none"
    /\ age' = Aged(wait)
    /\ UNCHANGED <<state, wait, count, advertised, creds, ethSeen, dnsFailed, mon, due, events>>

-------------------------------------------------------------------------------
(* The handlers.  Each goes back to xQueueReceive, in the next state.      *)

Go(s) ==
    /\ got' = "blocked"
    /\ state' = s
    /\ UNCHANGED <<creds, events>>

Ask(rs) == due' = due \cup rs

\* The message is for the handler of s, not a REINIT, nor invalid JSON.
At(s) == state = s /\ got \notin {"blocked", "REINIT", "CUT"}

\* if(t == 0) t = time(NULL); else if(difftime(...) > limit) { t = 0; state = s; }
Expired(t) == age[t] > Limit[t]

\* Mutant: the timer is started at every call.
StartTimerAgain(t) == age' = [age EXCEPT ![t] = 0]

StartTimer(t) == age' = IF age[t] = Off THEN [age EXCEPT ![t] = 0] ELSE age
TimeOut(t, s) ==
    \/ ~Expired(t) /\ StartTimer(t) /\ Go(state)
    \/ Expired(t) /\ age' = Clear(t) /\ Go(s)

\* Mutants: the window is opened on the flag of the next one, on none.
AdvertiseNext(n) == count' = count \cup {n + 1} /\ wait' = 300 /\ Go("CHECK_BLE_START_RESP")
AdvertiseUnowned(n) == UNCHANGED count /\ wait' = 300 /\ Go("CHECK_BLE_START_RESP")

\* Set credentials over BLE: advertise, and wait up to five minutes.
Advertise(n) ==
    /\ count' = count \cup {n}
    /\ wait' = 300
    /\ Go("CHECK_BLE_START_RESP")

\* Device credentials are checked on REINIT in any state, or when the wait passes.
CheckCredentials ==
    /\ got = "REINIT" \/ (state = "CHECK_CREDENTIALS" /\ got = "none")
    /\ \/ creds /\ wait' = 3 /\ Ask({"enable"}) /\ Go("CHECK_WIFI_ENABLED")
          /\ UNCHANGED <<count, advertised>>
       \/ ~creds /\ 1 \notin count /\ ~advertised /\ advertised' = TRUE /\ Advertise(1)
          /\ Ask({"advert"})
       \/ ~creds /\ (1 \in count \/ advertised) /\ wait' = 300 /\ count' = count \ {1}
          /\ Go("CHECK_CREDENTIALS") /\ UNCHANGED <<due, advertised>>
    /\ UNCHANGED <<age, ethSeen, dnsFailed, mon>>

\* "unwanted que receive in between" is dropped
Discard ==
    /\ At("CHECK_CREDENTIALS") /\ got # "none"
    /\ Go(state)
    /\ UNCHANGED <<wait, age, count, advertised, ethSeen, dnsFailed, mon, due>>

InvalidJson ==
    /\ got = "CUT"
    /\ Go("FAILED_2")
    /\ UNCHANGED <<wait, age, count, advertised, ethSeen, dnsFailed, mon, due>>

\* handle_wifi_enabled, entered in s
WifiEnabled(s) ==
    \/ got = "WIFI_ON" /\ Ask({"scan"}) /\ age' = Clear("wifi_enabled") /\ Go("NETWORK_SCAN")
    \/ got = "WIFI_OFF" /\ Ask({"eth"}) /\ age' = Clear("wifi_enabled") /\ Go("ETH_CONNECT")
    \/ /\ got \notin {"WIFI_ON", "WIFI_OFF"}
       /\ \/ ~Expired("wifi_enabled") /\ StartTimer("wifi_enabled") /\ Go(s)
          \/ Expired("wifi_enabled") /\ age' = Clear("wifi_enabled") /\ Go("CHECK_CREDENTIALS")
       /\ UNCHANGED due

HandleWifiEnabled ==
    /\ At("CHECK_WIFI_ENABLED")
    /\ WifiEnabled(state)
    /\ UNCHANGED <<wait, count, advertised, ethSeen, dnsFailed, mon>>

\* handle_ble_start_resp: any message or the timeout ends the window, in favour of the
\* first count that is 1 (WindowOwned: one is), and falls through to handle_wifi_enabled.
HandleBleStartResp ==
    /\ At("CHECK_BLE_START_RESP")
    /\ \E n \in count :
        /\ \A k \in count : n <= k
        /\ count' = count \ {n}
        /\ WifiEnabled(IF n = 1 THEN "CHECK_CREDENTIALS" ELSE IF n = 2 THEN "FAILED_1" ELSE "FAILED_3")
    /\ UNCHANGED <<wait, advertised, ethSeen, dnsFailed, mon>>

\* Mutant: the wait for the connection is the wait there was.
JoinUnbounded == Ask({"ssid"}) /\ Go("WIFI_CONNECT_SSID") /\ UNCHANGED wait

Join == Ask({"ssid"}) /\ Go("WIFI_CONNECT_SSID") /\ wait' = 30

\* handle_network_scan.  A choice of Ethernet can be overridden in the same call.
HandleNetworkScan ==
    /\ At("NETWORK_SCAN")
    /\ \/ /\ got = "SSID" /\ Join
          /\ UNCHANGED <<age, count, ethSeen>>
       \/ /\ got # "SSID"
          /\ ethSeen' = (ethSeen \/ got = "ETHERNET")
          /\ age' = IF got = "NOT_AVAILABLE" THEN age
                    ELSE IF Expired("network_scan") THEN Clear("network_scan")
                    ELSE [age EXCEPT !["network_scan"] = IF @ = Off THEN 0 ELSE @]
          /\ \/ /\ got = "NOT_AVAILABLE" \/ Expired("network_scan")
                /\ 2 \notin count /\ Advertise(2)
                /\ Ask({"advert"} \cup IF ethSeen' THEN {"eth"} ELSE {})
             \/ /\ (got # "NOT_AVAILABLE" /\ ~Expired("network_scan")) \/ 2 \in count
                /\ wait' = 30 /\ UNCHANGED count
                /\ IF ethSeen' THEN Ask({"eth"}) /\ Go("ETH_CONNECT")
                   ELSE UNCHANGED due /\ Go(state)
    /\ UNCHANGED <<advertised, dnsFailed, mon>>

HandleWifiConnectSsid ==
    /\ At("WIFI_CONNECT_SSID")
    /\ \/ got = "WIFI_UP" /\ age' = Clear("wifi_connect") /\ wait' = 1 /\ Go("NTP_SYNC_CHECK")
          /\ UNCHANGED <<count, due>>
       \/ got = "WIFI_DOWN" /\ 3 \notin count /\ age' = Clear("wifi_connect") /\ Advertise(3)
          /\ Ask({"advert"})
       \/ got = "WIFI_DOWN" /\ 3 \in count /\ age' = Clear("wifi_connect") /\ wait' = 30 /\ Go(state)
          /\ UNCHANGED <<count, due>>
       \/ got \notin {"WIFI_UP", "WIFI_DOWN"} /\ TimeOut("wifi_connect", "FAILED_3") /\ wait' = 30
          /\ UNCHANGED <<count, due>>
    /\ UNCHANGED <<advertised, ethSeen, dnsFailed, mon>>

\* handle_eth_connect.  wifi_enabled is never 0 here, so its wait of ten minutes is dead.
HandleEthConnect ==
    /\ At("ETH_CONNECT")
    /\ \/ got = "ETH_UP" /\ age' = Clear("eth") /\ wait' = 1 /\ Go("NTP_SYNC_CHECK")
       \/ got = "ETH_DOWN" /\ TimeOut("eth", "FAILED_4") /\ UNCHANGED wait
       \/ got \notin {"ETH_UP", "ETH_DOWN"} /\ TimeOut("eth", "FAILED_5") /\ UNCHANGED wait
    /\ UNCHANGED <<count, advertised, ethSeen, dnsFailed, mon, due>>

\* STATE_NTP_SYNC_CHECK: the announce is sent after Device_Announce_F_delay_u32, at first
\* nothing, in the long run past every limit.
HandleNtpSyncCheck ==
    /\ At("NTP_SYNC_CHECK")
    /\ \E s \in {0, 80} : age' = Aged(s)
    /\ Ask({"announce"}) /\ wait' = 60
    /\ Go("DEVICE_ANNOUNCE")
    /\ UNCHANGED <<count, advertised, ethSeen, dnsFailed, mon>>

HandleDeviceAnnounce ==
    /\ At("DEVICE_ANNOUNCE")
    /\ wait' = 10
    /\ \/ got = "HTTP_REFUSED" /\ age' = Clear("device_announce") /\ Ask({"ping"}) /\ Go("PING_DNS")
       \/ got = "HTTP_200" /\ age' = Clear("device_announce") /\ Ask({"ihub"})
          /\ Go("WAITING_FOR_IHUB_RESPONSE")
       \/ got = "HTTP_PARTIAL" /\ age' = Clear("device_announce") /\ Go("FAILED_13") /\ UNCHANGED due
       \/ got = "HTTP_BARE" /\ Go(state) /\ UNCHANGED <<age, due>>
       \/ /\ got \notin Answers["announce"] /\ TimeOut("device_announce", "PING_DNS")
          /\ Ask(IF Expired("device_announce") THEN {"ping"} ELSE {})
    /\ UNCHANGED <<count, advertised, ethSeen, dnsFailed, mon>>

\* handle_ping_dns keeps the text of any RESP.
HandlePingDns ==
    /\ At("PING_DNS")
    /\ \/ got = "PING_OK" /\ age' = Clear("ping_dns") /\ dnsFailed' = FALSE /\ Go("FAILED_6")
          /\ UNCHANGED due
       \/ got = "PING_FAILED" /\ age' = Clear("ping_dns") /\ dnsFailed' = TRUE /\ Ask({"gateway"})
          /\ Go("PING_GATEWAY")
       \/ got = "ADVERT" /\ dnsFailed' = FALSE /\ Go(state) /\ UNCHANGED <<age, due>>
       \/ /\ got \notin {"PING_OK", "PING_FAILED", "ADVERT"} /\ TimeOut("ping_dns", "PING_GATEWAY")
          /\ Ask(IF Expired("ping_dns") THEN {"gateway"} ELSE {})
          /\ UNCHANGED dnsFailed
    /\ UNCHANGED <<wait, count, advertised, ethSeen, mon>>

\* handle_ping_gateway asks whether the DNS ping failed where it means the gateway's.
HandlePingGateway ==
    /\ At("PING_GATEWAY")
    /\ \/ got = "PING_OK" /\ age' = Clear("ping_gateway") /\ Go("FAILED_10")
       \/ got \in {"PING_FAILED", "ADVERT"} /\ dnsFailed /\ age' = Clear("ping_gateway")
          /\ Go("FAILED_PING_GATEWAY")
       \/ got \in {"PING_FAILED", "ADVERT"} /\ ~dnsFailed /\ Go(state) /\ UNCHANGED age
       \/ got \notin {"PING_OK", "PING_FAILED", "ADVERT"} /\ TimeOut("ping_gateway", "FAILED_PING_GATEWAY")
    /\ UNCHANGED <<wait, count, advertised, ethSeen, dnsFailed, mon, due>>

\* handle_waiting_for_ihub_response.  A living monitor makes it a success.
HandleIhubResponse ==
    /\ At("WAITING_FOR_IHUB_RESPONSE")
    /\ wait' = 10
    /\ \/ mon /\ age' = Clear("ihub") /\ Go("CONNECTED")
       \/ ~mon /\ got = "IHUB_UP" /\ Go("CONNECTED") /\ UNCHANGED age
       \/ ~mon /\ got = "IHUB_DOWN" /\ Go("FAILED_11") /\ UNCHANGED age
       \/ ~mon /\ got \notin Answers["ihub"] /\ TimeOut("ihub", "FAILED_12")
    /\ UNCHANGED <<count, advertised, ethSeen, dnsFailed, mon, due>>

\* Mutant: the task tries the announce again while the stack is being reset.
HandleFailedStateOnline ==
    /\ state \in Failed /\ got \notin {"blocked", "REINIT", "CUT"}
    /\ age' = Aged(35)
    /\ due' = {"restart"} /\ wait' = 60
    /\ Go("NTP_SYNC_CHECK")
    /\ UNCHANGED <<count, advertised, ethSeen, dnsFailed, mon>>

\* STATE_FAILED*: half a minute, then Reset_Stack, whose SERVER_CONNECT comes back as
\* REINIT.  What the de-initialised actors still owed is not sent, what has come in the
\* meantime is ahead of REINIT in the queue and falls to Discard.
HandleFailedState ==
    /\ state \in Failed /\ got \notin {"blocked", "REINIT", "CUT"}
    /\ age' = Aged(35)
    /\ due' = {"restart"} /\ wait' = 60
    /\ Go("CHECK_CREDENTIALS")
    /\ UNCHANGED <<count, advertised, ethSeen, dnsFailed, mon>>

\* if(state == STATE_CONNECTED) goto exit
Exit ==
    /\ state = "CONNECTED"
    /\ state' = "none"
    /\ UNCHANGED <<got, wait, age, count, advertised, creds, ethSeen, dnsFailed, mon, due, events>>

Handle ==
    \/ CheckCredentials \/ Discard \/ InvalidJson
    \/ HandleWifiEnabled \/ HandleBleStartResp \/ HandleNetworkScan
    \/ HandleWifiConnectSsid \/ HandleEthConnect \/ HandleNtpSyncCheck
    \/ HandleDeviceAnnounce \/ HandlePingDns \/ HandlePingGateway \/ HandleIhubResponse
    \/ HandleFailedState \/ Exit

Environment ==
    /\ got = "blocked"
    /\ CreateTask \/ DisableFlag \/ Provision \/ InitMonSrvConn \/ MonitorEnds \/ RestartLost

Next == Environment \/ ReceiveAnswer \/ ReceiveEvent \/ TimesOut \/ Handle

Spec == Init /\ [][Next]_vars

\* The scheduler runs the task, time passes, and the SERVER_CONNECT of a reset is obeyed.
RestartObeyed == ReceiveAnswer /\ got' = "REINIT"
FairSpec == Spec /\ WF_vars(Handle) /\ WF_vars(TimesOut) /\ WF_vars(RestartObeyed)

-------------------------------------------------------------------------------
(* Properties                                                              *)

\* The BLE window is always open on somebody's account, so that its end leads somewhere:
\* a flag of an earlier window, or none, would leave the task in it for good.
WindowOwned == state = "CHECK_BLE_START_RESP" => count # {}

\* The five-minute wait of the BLE window does not outlive it into a later rung of the
\* attempt, although que_rx_delay is set apart from the state and often not at all.  (The
\* fall-through of the BLE state may carry it into the two states it can reach.)
WaitFits ==
    /\ state \in {"CHECK_WIFI_ENABLED", "WIFI_CONNECT_SSID", "NTP_SYNC_CHECK", "DEVICE_ANNOUNCE",
                  "PING_DNS", "PING_GATEWAY", "WAITING_FOR_IHUB_RESPONSE"} => wait <= 60
    /\ state \in {"PING_DNS", "PING_GATEWAY", "WAITING_FOR_IHUB_RESPONSE"} => wait = 10

\* The task implements the abstract attempt: it announces only over a network, connects
\* only after an announce, and after a failure only starts again.
phaseOf(s) ==
    CASE s = "none" -> "off"
      [] s = "CHECK_CREDENTIALS" -> "credentials"
      [] s = "CHECK_BLE_START_RESP" -> "provisioning"
      [] s \in {"CHECK_WIFI_ENABLED", "NETWORK_SCAN", "WIFI_CONNECT_SSID", "ETH_CONNECT"} -> "network"
      [] s \in {"NTP_SYNC_CHECK", "DEVICE_ANNOUNCE"} -> "online"
      [] s \in {"PING_DNS", "PING_GATEWAY"} -> "diagnosis"
      [] s = "WAITING_FOR_IHUB_RESPONSE" -> "hub"
      [] s = "CONNECTED" -> "done"
      [] OTHER -> "failed"
Attempt == INSTANCE ConnAttempt WITH phase <- phaseOf(state)
AttemptSpec == Attempt!Spec

\* No wait is for ever, whatever the other actors fail to answer: the timer of each state
\* runs.  (Without credentials the task may stay in CHECK_CREDENTIALS; a scan without networks
\* may stay in NETWORK_SCAN, when a REINIT of the BLE window has left its flag set.)
Timed == {"CHECK_BLE_START_RESP", "CHECK_WIFI_ENABLED", "WIFI_CONNECT_SSID", "ETH_CONNECT",
          "DEVICE_ANNOUNCE", "PING_DNS", "PING_GATEWAY", "WAITING_FOR_IHUB_RESPONSE"}
EveryWaitEnds == \A s \in Timed : state = s ~> state # s
===============================================================================
