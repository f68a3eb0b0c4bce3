------------------------------ MODULE WifiConnect ------------------------------
(***************************************************************************)
(* How the WIFI actor joins a network: src/main/WIFI_Actor.c.  Its task    *)
(* runs on core 1 and takes CONNECT_SSID, DISCONNECT and DEINIT one after  *)
(* the other; wifi_event_handler runs in the task of ESP-IDF's event loop  *)
(* on core 0, at the same time.  They share wifi_connected, the event      *)
(* group's CONNECTED_BIT, the two counters of networks and STATUS, without *)
(* a lock.                                                                 *)
(*                                                                         *)
(* The driver, DHCP and the scan are external: a join is refused, granted  *)
(* or not answered, a link is lost at any time, and the list of networks   *)
(* may be replaced between its two parses.  A CONNECT_SSID that finds no   *)
(* readable list changes nothing.  The handler sends its messages in        *)
(* milliseconds: the wait of ten seconds and the delay of 100 ms do not end *)
(* while it is in the middle of an event.                                   *)
(***************************************************************************)
EXTENDS Integers, Sequences

CONSTANTS
    MaxNetworks, \* bound on the networks of a scan
    MaxRetries,  \* max_retries, 3
    MaxEvents    \* the length of the event loop's queue, 32: the driver waits for room

ASSUME WifiAssumption ==
    MaxNetworks \in Nat /\ MaxRetries \in Nat \ {0} /\ MaxEvents \in Nat \ {0}

VARIABLES
    place,     \* where the WIFI task is
    networks,  \* the list just parsed: is the n-th network the wanted one?
    current,   \* current_ssid_attempt
    total,     \* total_ssid_attempts
    retry,     \* retry_count
    max,       \* max_retries as trigger_next_wifi_attempt has it
    bit,       \* CONNECTED_BIT_u16 of the event group
    connected, \* wifi_connected
    status,    \* status_u8, the property STATUS
    denied,    \* wifi_disconnect_reason is 15, a handshake timeout
    link,      \* external: what the driver has
    events,    \* external: what the event loop has yet to deliver
    handling,  \* what wifi_event_handler still has to do
    scanning,  \* wifi_scan_task is in wifi_scan
    told,      \* the last WIFI_CONNECTION_STATUS announced
    course,    \* history: how far the last CONNECT_SSID got
    pending    \* history: nothing has been announced since it began

taskVars == <<place, networks, retry, max, course>>
sharedVars == <<current, total, bit, connected, status, denied>>
driverVars == <<link, events>>
vars == <<taskVars, sharedVars, driverVars, handling, scanning, told, pending>>

\* "parsing": between the two parses of the list; "waiting": in xEventGroupWaitBits, of which
\* "woken" and "late" are the two ends; "off": between esp_wifi_stop and esp_wifi_start.
Place == {"idle", "deleted", "parsing", "looping", "joining", "leaving", "waiting", "woken",
          "late", "off"}
Lists == UNION {[1 .. n -> BOOLEAN] : n \in 0 .. MaxNetworks}
Lost == {"LOST", "DENIED"}
Up == {"associated", "ip"}

FlagsOK ==
    bit \in BOOLEAN /\ connected \in BOOLEAN /\ denied \in BOOLEAN
    /\ scanning \in BOOLEAN /\ pending \in BOOLEAN

CountersOK ==
    /\ current \in 0 .. MaxNetworks /\ total \in 0 .. MaxNetworks
    /\ retry \in 0 .. MaxRetries /\ max \in {1, MaxRetries}

PlacesOK ==
    /\ place \in Place /\ networks \in Lists
    /\ status \in {"ZERO", "NOT_CONNECTED", "CONNECTED"}
    /\ link \in {"down", "connecting"} \cup Up
    /\ events \in Seq({"ASSOCIATED", "IP"} \cup Lost) /\ Len(events) <= MaxEvents
    /\ handling \in {"none", "associated", "ip", "lost"}
    /\ told \in {"none", "CONNECTED", "DISCONNECTED"}
    /\ course \in {"none", "parsed", "begun", "tried"}

\* The type invariant: the counters stay within the list whatever the two tasks do to them,
\* and no network is tried more than MaxRetries times.
TypeOK == FlagsOK /\ CountersOK /\ PlacesOK

Init ==
    /\ place = "idle" /\ networks = <<>> /\ current = 0 /\ total = 0 /\ retry = 0
    /\ max = MaxRetries /\ bit = FALSE /\ connected = FALSE /\ status = "ZERO"
    /\ denied = FALSE /\ link = "down" /\ events = <<>> /\ handling = "none"
    /\ scanning = FALSE /\ told = "none" /\ course = "none" /\ pending = FALSE

------------------------------------------------------------------------------
(* The driver's calls *)

Post(e) == Len(events) < MaxEvents /\ events' = Append(events, e)

\* esp_wifi_disconnect and esp_wifi_stop: the loss of a link, or of a join, is an event.
Leave ==
    IF link = "down"
    THEN UNCHANGED driverVars
    ELSE link' = "down" /\ Post("LOST")

\* Mutant: the driver is not stopped when a network is given up.
KeepDriver == UNCHANGED driverVars

StopDriver == Leave

------------------------------------------------------------------------------
(* The WIFI task *)

\* Mutant: the announcement is forgotten.
SayNothing == UNCHANGED <<told, pending>>

SayDisconnected == told' = "DISCONNECTED" /\ pending' = FALSE

\* Mutant: one retry too many.
OneMore == retry <= max

MayRetry == retry < max

\* The first parse and init_wifi_connection_attempts.
ConnectSsid ==
    /\ place = "idle"
    /\ place' = "parsing" /\ course' = "parsed"
    /\ current' = 0 /\ total' \in 0 .. MaxNetworks /\ connected' = FALSE
    /\ pending' = FALSE
    /\ UNCHANGED <<networks, retry, max, bit, status, denied, driverVars, handling, scanning, told>>

\* The second parse finds a list.
Begin ==
    /\ place = "parsing"
    /\ place' = "looping" /\ course' = "begun" /\ networks' \in Lists
    /\ max' = MaxRetries /\ retry' = 0 /\ pending' = TRUE
    /\ UNCHANGED <<sharedVars, driverVars, handling, scanning, told>>

\* The second parse finds a buffer that the scan has cleared and not yet printed: return.
Abandon ==
    /\ place = "parsing" /\ scanning
    /\ place' = "idle"
    /\ UNCHANGED <<networks, retry, max, course, sharedVars, driverVars, handling, scanning, told, pending>>

HasNetwork == current < total /\ current < Len(networks)

SkipNetwork ==
    /\ place = "looping" /\ HasNetwork /\ ~networks[current + 1]
    /\ current' = current + 1
    /\ UNCHANGED <<taskVars, total, bit, connected, status, denied, driverVars, handling, scanning, told, pending>>

TryNetwork ==
    /\ place = "looping" /\ HasNetwork /\ networks[current + 1]
    /\ place' = "joining" /\ retry' = 0
    /\ UNCHANGED <<networks, max, course, sharedVars, driverVars, handling, scanning, told, pending>>

\* The end of the loop, and its announcement.
GiveUp ==
    /\ place = "looping" /\ ~HasNetwork
    /\ place' = "idle" /\ SayDisconnected
    /\ UNCHANGED <<networks, retry, max, course, sharedVars, driverVars, handling, scanning>>

\* wifi_join up to its delay
Join ==
    /\ place = "joining" /\ MayRetry
    /\ place' = "leaving" /\ course' = "tried" /\ bit' = FALSE
    /\ Leave
    /\ UNCHANGED <<networks, retry, max, current, total, connected, status, denied, handling, scanning, told, pending>>

\* esp_wifi_connect; the wait finds a bit that is already set.
ConnectStarts ==
    /\ place = "leaving"
    /\ link' = "connecting" /\ denied' = FALSE
    /\ place' = IF bit THEN "woken" ELSE "waiting"
    /\ UNCHANGED <<networks, retry, max, course, current, total, bit, connected, status, events, handling, scanning, told, pending>>

\* esp_wifi_connect returns an error.
ConnectFails ==
    /\ place = "leaving"
    /\ place' = "joining" /\ retry' = retry + 1 /\ denied' = FALSE
    /\ UNCHANGED <<networks, max, course, current, total, bit, connected, status, driverVars, handling, scanning, told, pending>>

WaitSucceeds ==
    /\ place = "woken"
    /\ place' = "idle" /\ denied' = FALSE
    /\ UNCHANGED <<networks, retry, max, course, current, total, bit, connected, status, driverVars, handling, scanning, told, pending>>

WaitTimesOut ==
    /\ place = "waiting" /\ handling = "none"
    /\ place' = "late"
    /\ UNCHANGED <<networks, retry, max, course, sharedVars, driverVars, handling, scanning, told, pending>>

\* The end of a wifi_join that failed, the handler having run in between or not.
JoinFails ==
    /\ place = "late"
    /\ place' = "joining" /\ retry' = retry + 1
    /\ max' = IF denied THEN 1 ELSE max
    /\ bit' = FALSE /\ connected' = FALSE /\ status' = "NOT_CONNECTED"
    /\ UNCHANGED <<networks, course, current, total, denied, driverVars, handling, scanning, told, pending>>

\* All retries failed: esp_wifi_stop ...
StopWifi ==
    /\ place = "joining" /\ ~MayRetry
    /\ place' = "off"
    /\ StopDriver
    /\ UNCHANGED <<networks, retry, max, course, sharedVars, handling, scanning, told, pending>>

\* ... and esp_wifi_start, then the next network.
StartWifi ==
    /\ place = "off" /\ handling = "none"
    /\ place' = "looping" /\ current' = current + 1
    /\ UNCHANGED <<networks, retry, max, course, total, bit, connected, status, denied, driverVars, handling, scanning, told, pending>>

\* The command DISCONNECT; the wait for the bit that follows changes nothing.
Disconnect ==
    /\ place = "idle"
    /\ Leave /\ status' = "NOT_CONNECTED"
    /\ UNCHANGED <<taskVars, current, total, bit, connected, denied, handling, scanning, told, pending>>

\* The task deletes itself; what Deinit_Actor has after that is not reached.
Deinit ==
    /\ place = "idle"
    /\ place' = "deleted"
    /\ UNCHANGED <<networks, retry, max, course, sharedVars, driverVars, handling, scanning, told, pending>>

\* The next message finds FirstEntry_bool FALSE: init, with wifi_setup.
InitActor ==
    /\ place = "deleted"
    /\ place' = "idle" /\ status' = "ZERO"
    /\ UNCHANGED <<networks, retry, max, course, current, total, bit, connected, denied, driverVars, handling, scanning, told, pending>>

------------------------------------------------------------------------------
(* wifi_event_handler: an event is taken, and its announcement or its last *)
(* assignment is a step of its own                                         *)

Take(e) == handling = "none" /\ events # <<>> /\ Head(events) = e /\ events' = Tail(events)

\* xEventGroupSetBits makes the waiting task ready.
SetBit == bit' = TRUE /\ place' = IF place = "waiting" THEN "woken" ELSE place

TakeAssociated ==
    /\ Take("ASSOCIATED") /\ SetBit
    /\ handling' = "associated"
    /\ UNCHANGED <<networks, retry, max, course, current, total, connected, status, denied, link, scanning, told, pending>>

\* Mutant: the flag is left to GOT_IP.
LeaveFlag == UNCHANGED connected

SetFlag == connected' = TRUE

EndAssociated ==
    /\ handling = "associated"
    /\ handling' = "none" /\ SetFlag
    /\ UNCHANGED <<taskVars, current, total, bit, status, denied, driverVars, scanning, told, pending>>

TakeIp ==
    /\ Take("IP") /\ SetBit
    /\ connected' = TRUE /\ current' = 0 /\ total' = 0 /\ status' = "CONNECTED"
    /\ handling' = "ip"
    /\ UNCHANGED <<networks, retry, max, course, denied, link, scanning, told, pending>>

EndIp ==
    /\ handling = "ip"
    /\ handling' = "none" /\ told' = "CONNECTED" /\ pending' = FALSE
    /\ UNCHANGED <<taskVars, sharedVars, driverVars, scanning>>

\* The loss is announced if the device was connected or nothing is left to try.
TakeLost ==
    \E e \in Lost :
        /\ Take(e)
        /\ denied' = (e = "DENIED")
        /\ IF connected \/ current >= total
           THEN connected' = FALSE /\ status' = "NOT_CONNECTED" /\ handling' = "lost"
           ELSE UNCHANGED <<connected, status, handling>>
        /\ UNCHANGED <<taskVars, current, total, bit, link, scanning, told, pending>>

EndLost ==
    /\ handling = "lost"
    /\ handling' = "none" /\ told' = "DISCONNECTED" /\ pending' = FALSE /\ bit' = FALSE
    /\ UNCHANGED <<taskVars, current, total, connected, status, denied, driverVars, scanning>>

------------------------------------------------------------------------------
(* The driver, DHCP and wifi_scan_task *)

Associate ==
    /\ link = "connecting" /\ link' = "associated" /\ Post("ASSOCIATED")
    /\ UNCHANGED <<taskVars, sharedVars, handling, scanning, told, pending>>

Refuse ==
    /\ link = "connecting" /\ link' = "down" /\ \E e \in Lost : Post(e)
    /\ UNCHANGED <<taskVars, sharedVars, handling, scanning, told, pending>>

\* The event loop starts DHCP when it delivers ASSOCIATED.
GetIp ==
    /\ link = "associated" /\ \A i \in 1 .. Len(events) : events[i] # "ASSOCIATED"
    /\ link' = "ip" /\ Post("IP")
    /\ UNCHANGED <<taskVars, sharedVars, handling, scanning, told, pending>>

LoseLink ==
    /\ link \in Up /\ link' = "down" /\ Post("LOST")
    /\ UNCHANGED <<taskVars, sharedVars, handling, scanning, told, pending>>

\* wifi_scan_task scans every minute while wifi_connected is FALSE.
Scan ==
    /\ scanning \/ ~connected
    /\ scanning' = ~scanning
    /\ UNCHANGED <<taskVars, sharedVars, driverVars, handling, told, pending>>

------------------------------------------------------------------------------
Command == ConnectSsid \/ Disconnect \/ Deinit \/ InitActor

Work ==
    \/ Begin \/ Abandon \/ SkipNetwork \/ TryNetwork \/ GiveUp
    \/ Join \/ ConnectStarts \/ ConnectFails \/ WaitSucceeds \/ WaitTimesOut \/ JoinFails
    \/ StopWifi \/ StartWifi

Handler ==
    TakeAssociated \/ EndAssociated \/ TakeIp \/ EndIp \/ TakeLost \/ EndLost

Answer == Associate \/ Refuse \/ GetIp \/ LoseLink

Next == Command \/ Work \/ Handler \/ Answer \/ Scan

Spec == Init /\ [][Next]_vars

\* Both tasks run when they can; a link that has no address gets one or is lost, in the end.
FairSpec ==
    /\ Spec /\ WF_vars(Work) /\ WF_vars(Handler)
    /\ WF_vars(link = "associated" /\ (GetIp \/ LoseLink))

------------------------------------------------------------------------------
(* Properties *)

\* Nothing is under way in the WIFI task or in the event loop.
Settled == place \in {"idle", "deleted"} /\ events = <<>> /\ handling = "none"

\* A CONNECT_SSID that tried no network is excepted below.  One whose second parse failed, or
\* found a shorter list (WIFI_Actor.c:1380, 1409), leaves the counters of a connection being made,
\* and one that found no network of that name announces DISCONNECTED and leaves the link alone.
Tried == course \in {"none", "tried"}

\* A loss is told: once everything has settled, a device whose last announcement was CONNECTED
\* has a link, although the handler passes over losses while a connection is being made and the
\* task and the handler overwrite each other's flags.
LossIsTold == Settled /\ Tried /\ told = "CONNECTED" => link # "down"

\* A connection is told: once everything has settled, a device with an address has announced
\* CONNECTED last, although a join may time out just as it succeeds.
UpIsTold == Settled /\ Tried /\ link = "ip" => told = "CONNECTED"

\* No CONNECT_SSID ends without an answer and without anything to come: when all has settled and
\* nothing has been announced since it began, the link is up and waits for its address, and the
\* handler would announce its loss, although a bit left by an earlier link may have ended the wait.
AnswerIsDue == Settled /\ pending => link = "associated" /\ connected

\* Server_Connect is answered: a CONNECT_SSID that found the list is followed by an announcement,
\* if no other command comes: by the task, which fails, or by the handler, when the address comes
\* or the link that was joined is lost before.
Answered == <>[][~Command]_vars => (pending ~> ~pending)
==============================================================================
