--------------------------- MODULE WifiConnectProofs ---------------------------
(***************************************************************************)
(* Proofs about WifiConnect: its type invariant, and that a loss and a     *)
(* connection are both told, for any number of networks, retries and       *)
(* pending events.                                                         *)
(***************************************************************************)
EXTENDS WifiConnect, TLAPS

Event == {"ASSOCIATED", "IP"} \cup Lost

\* The last event the driver has posted and the event loop has not delivered.
LastIn(E) == events # <<>> /\ events[Len(events)] \in E

Resting == place \in {"idle", "deleted"}

\* A link that is not up was lost after everything that is still to be delivered.
LossIsLast ==
    link \notin Up => \/ events = <<>> /\ handling \in {"none", "lost"}
                      \/ LastIn(Lost)

\* wifi_join connects from a link that is down.
JoinFromDown == place = "leaving" => link = "down"

\* A bit set since wifi_join cleared it comes from a link that the handler knows of ...
BitIsKnown ==
    place = "leaving" /\ bit => connected \/ handling \in {"associated", "lost"}

\* ... and whose loss it has yet to see.
BitIsStale == place = "leaving" /\ bit => LastIn(Lost) \/ handling = "lost"

\* The handler that is about to announce CONNECTED has set wifi_connected, and no one has
\* cleared it but a CONNECT_SSID under way.
IpIsKnown ==
    handling = "ip" /\ Tried /\ place \in {"idle", "deleted", "woken", "looping"} => connected

\* What makes the handler announce a loss, after an announcement of CONNECTED.
WillTell ==
    (Resting \/ place = "woken") /\ Tried /\ told = "CONNECTED"
        => connected \/ current >= total \/ handling \in {"associated", "lost"}

\* After an announcement of CONNECTED, a link that is not up has a loss to be told.
HasToTell ==
    (Resting \/ place = "woken") /\ Tried /\ told = "CONNECTED" /\ link \notin Up
        => LastIn(Lost) \/ handling = "lost"

\* Between the two parses nothing has been tried yet.
ParsingIsUntried == place = "parsing" => course = "parsed"

Telling ==
    /\ ParsingIsUntried /\ LossIsLast /\ JoinFromDown /\ BitIsKnown /\ BitIsStale
    /\ IpIsKnown /\ WillTell /\ HasToTell

IInv == TypeOK /\ Telling

\* The driver is stopped when the loop goes on after a network was tried.
StoppedFirst == place \in {"leaving", "off"} \/ (place = "looping" /\ Tried) => link = "down"

\* An address that a network tried has given is about to be announced, or announced.
AddressIsTold ==
    Tried /\ link = "ip" => \/ LastIn({"IP"})
                            \/ events = <<>> /\ handling = "ip"
                            \/ events = <<>> /\ handling = "none" /\ told = "CONNECTED"

UInv == TypeOK /\ StoppedFirst /\ AddressIsTold

------------------------------------------------------------------------------
(* Sequences *)

LEMMA AppendLast ==
    ASSUME NEW S, NEW s \in Seq(S), NEW e \in S
    PROVE  /\ Append(s, e) \in Seq(S) /\ Append(s, e) # <<>>
           /\ Len(Append(s, e)) = Len(s) + 1
           /\ Append(s, e)[Len(Append(s, e))] = e
  OBVIOUS

LEMMA TailLast ==
    ASSUME NEW S, NEW s \in Seq(S), s # <<>>
    PROVE  /\ Tail(s) \in Seq(S) /\ Len(Tail(s)) = Len(s) - 1
           /\ Tail(s) # <<>> => Tail(s)[Len(Tail(s))] = s[Len(s)]
           /\ Tail(s) = <<>> => s[Len(s)] = Head(s)
  <1>1. Len(s) \in Nat /\ Len(s) > 0 /\ Tail(s) \in Seq(S) /\ Len(Tail(s)) = Len(s) - 1
    OBVIOUS
  <1>2. ASSUME Tail(s) # <<>> PROVE Tail(s)[Len(Tail(s))] = s[Len(s)]
    <2>1. Len(Tail(s)) \in 1 .. Len(Tail(s))
      BY <1>1, <1>2
    <2> QED BY <1>1, <2>1
  <1>3. ASSUME Tail(s) = <<>> PROVE s[Len(s)] = Head(s)
    <2>1. Len(s) = 1
      <3> DEFINE t == Tail(s)
      <3>1. Len(<<>>) = 0
        OBVIOUS
      <3>2. t = <<>> /\ Len(t) = Len(s) - 1 /\ Len(s) \in Nat
        BY <1>1, <1>3
      <3> HIDE DEF t
      <3>3. Len(t) = 0
        BY <3>1, <3>2
      <3> QED BY <3>2, <3>3
    <2> QED BY <2>1
  <1> QED BY <1>1, <1>2, <1>3

------------------------------------------------------------------------------
(* The type invariant *)

\* While a network is tried, there is a next one to count and a retry left.
Room ==
    /\ place \in {"joining", "leaving", "waiting", "woken", "late", "off"} => current < MaxNetworks
    /\ place \in {"leaving", "waiting", "woken", "late"} => retry < MaxRetries

TypeInv == TypeOK /\ Room

LEMMA TypeStep == TypeInv /\ [Next]_vars => TypeInv'
  <1> SUFFICES ASSUME TypeInv, [Next]_vars PROVE TypeInv'
    OBVIOUS
  <1> USE WifiAssumption
  <1>1. FlagsOK'
    <2>1. CASE Command \/ UNCHANGED vars \/ Scan
      BY <2>1 DEF TypeInv, TypeOK, FlagsOK, Command, ConnectSsid, Disconnect, Deinit, InitActor, Scan,
         vars, sharedVars, taskVars, driverVars
    <2>2. CASE Work
      BY <2>2 DEF TypeInv, TypeOK, FlagsOK, Work, Begin, Abandon, SkipNetwork, TryNetwork, GiveUp, Join,
         ConnectStarts, ConnectFails, WaitSucceeds, WaitTimesOut, JoinFails, StopWifi, StartWifi,
         SayDisconnected, sharedVars, taskVars, driverVars
    <2>3. CASE Handler \/ Answer
      BY <2>3 DEF TypeInv, TypeOK, FlagsOK, Handler, TakeAssociated, EndAssociated, TakeIp, EndIp, TakeLost,
         EndLost, SetBit, SetFlag, Answer, Associate, Refuse, GetIp, LoseLink, sharedVars, taskVars, driverVars
    <2> QED BY <2>1, <2>2, <2>3 DEF Next
  <1>2. CountersOK' /\ Room'
    <2>1. CASE Command \/ UNCHANGED vars \/ Scan
      BY <2>1 DEF TypeInv, TypeOK, CountersOK, Room, Command, ConnectSsid, Disconnect, Deinit, InitActor, Scan,
         vars, sharedVars, taskVars, driverVars
    <2>2. CASE Work
      BY <2>2 DEF TypeInv, TypeOK, CountersOK, Room, Work, Begin, Abandon, SkipNetwork, TryNetwork, GiveUp, Join,
         ConnectStarts, ConnectFails, WaitSucceeds, WaitTimesOut, JoinFails, StopWifi, StartWifi,
         HasNetwork, MayRetry, SayDisconnected, sharedVars, taskVars, driverVars
    <2>3. CASE Handler \/ Answer
      BY <2>3 DEF TypeInv, TypeOK, CountersOK, Room, Handler, TakeAssociated, EndAssociated, TakeIp, EndIp, TakeLost,
         EndLost, SetBit, SetFlag, Answer, Associate, Refuse, GetIp, LoseLink, sharedVars, taskVars, driverVars
    <2> QED BY <2>1, <2>2, <2>3 DEF Next
  <1>3. PlacesOK'
    <2> DEFINE LinksOK == link \in {"down", "connecting"} \cup Up
               EventsOK == events \in Seq(Event) /\ Len(events) <= MaxEvents
               OthersOK == /\ place \in Place /\ networks \in Lists
                           /\ status \in {"ZERO", "NOT_CONNECTED", "CONNECTED"}
                           /\ handling \in {"none", "associated", "ip", "lost"}
                           /\ told \in {"none", "CONNECTED", "DISCONNECTED"}
                           /\ course \in {"none", "parsed", "begun", "tried"}
    <2>1. LinksOK /\ EventsOK /\ OthersOK
      BY DEF TypeInv, TypeOK, PlacesOK, Event
    <2>2. EventsOK'
      <3>1. CASE events' = events
        BY <2>1, <3>1
      <3>2. CASE \E e \in Event : Post(e)
        BY <2>1, <3>2, AppendLast DEF Post
      <3>3. CASE events # <<>> /\ events' = Tail(events)
        BY <2>1, <3>3, TailLast
      <3>4. events' = events \/ (\E e \in Event : Post(e)) \/ (events # <<>> /\ events' = Tail(events))
        BY DEF Next, vars, Command, ConnectSsid, Disconnect, Deinit, InitActor, Scan,
           Work, Begin, Abandon, SkipNetwork, TryNetwork, GiveUp, Join, ConnectStarts, ConnectFails,
           WaitSucceeds, WaitTimesOut, JoinFails, StopWifi, StopDriver, StartWifi, Leave, Handler, TakeAssociated,
           EndAssociated, TakeIp, EndIp, TakeLost, EndLost, Take, Answer, Associate, Refuse, GetIp,
           LoseLink, driverVars, Event, Lost
      <3> QED BY <3>1, <3>2, <3>3, <3>4
    <2>3. LinksOK' /\ OthersOK'
      <3>1. CASE Command \/ UNCHANGED vars \/ Scan
        BY <2>1, <3>1 DEF Command, ConnectSsid, Disconnect, Deinit, InitActor, Scan, Leave, Place,
           vars, sharedVars, taskVars, driverVars
      <3>2. CASE Work
        BY <2>1, <3>2 DEF Work, Begin, Abandon, SkipNetwork, TryNetwork, GiveUp, Join,
           ConnectStarts, ConnectFails, WaitSucceeds, WaitTimesOut, JoinFails, StopWifi, StopDriver, StartWifi,
           SayDisconnected, Leave, Place, sharedVars, taskVars, driverVars
      <3>3. CASE Handler \/ Answer
        BY <2>1, <3>3 DEF Handler, TakeAssociated, EndAssociated, TakeIp, EndIp, TakeLost, EndLost, SetBit,
           SetFlag, Answer, Associate, Refuse, GetIp, LoseLink, Place, Up, sharedVars, taskVars, driverVars
      <3> QED BY <3>1, <3>2, <3>3 DEF Next
    <2> QED BY <2>2, <2>3 DEF PlacesOK, Event
  <1> QED BY <1>1, <1>2, <1>3 DEF TypeInv, TypeOK

LEMMA InitType == Init => TypeInv
  <1>1. <<>> \in Lists
    <2>1. <<>> \in [1 .. 0 -> BOOLEAN]
      OBVIOUS
    <2>2. 0 \in 0 .. MaxNetworks
      BY WifiAssumption
    <2> QED BY <2>1, <2>2 DEF Lists
  <1> SUFFICES ASSUME Init PROVE TypeInv
    OBVIOUS
  <1>2. FlagsOK
    BY DEF Init, FlagsOK
  <1>3. CountersOK /\ Room
    BY WifiAssumption DEF Init, CountersOK, Room
  <1>4. events \in Seq({"ASSOCIATED", "IP"} \cup Lost) /\ Len(events) <= MaxEvents
    BY WifiAssumption DEF Init
  <1>5. networks \in Lists
    BY <1>1 DEF Init
  <1> QED BY <1>2, <1>3, <1>4, <1>5 DEF Init, TypeInv, TypeOK, PlacesOK, Place

\* The type invariant: no network past the list and no retry past the last, although the handler
\* resets the counters while the task counts (WIFI_Actor.c:1515, 1742).
THEOREM TypeCorrect == Spec => []TypeOK
  <1>1. TypeInv => TypeOK
    BY DEF TypeInv
  <1> QED BY InitType, TypeStep, <1>1, PTL DEF Spec

------------------------------------------------------------------------------
(* The events still to be delivered *)

LEMMA Posted ==
    ASSUME TypeOK, NEW E, NEW e \in E, e \in Event, Post(e)
    PROVE  LastIn(E)' /\ events' # <<>>
  <1>1. events \in Seq(Event)
    BY DEF TypeOK, PlacesOK, Event
  <1> QED BY <1>1, AppendLast DEF LastIn, Post

LEMMA Taken ==
    ASSUME TypeOK, NEW E, NEW e, Take(e), LastIn(E)
    PROVE  LastIn(E)' \/ (e \in E /\ events' = <<>>)
  <1>1. events \in Seq(Event) /\ events # <<>> /\ events' = Tail(events) /\ Head(events) = e
    BY DEF TypeOK, PlacesOK, Event, Take
  <1>2. /\ Tail(events) # <<>> => Tail(events)[Len(Tail(events))] = events[Len(events)]
        /\ Tail(events) = <<>> => events[Len(events)] = Head(events)
    BY <1>1, TailLast
  <1>3. events' # <<>> => events'[Len(events')] = events[Len(events)]
    BY <1>1, <1>2
  <1>4. events' = <<>> => events[Len(events)] = e
    BY <1>1, <1>2
  <1> QED BY <1>3, <1>4 DEF LastIn

LEMMA SameEvents ==
    ASSUME events' = events, NEW E
    PROVE  LastIn(E)' <=> LastIn(E)
  BY DEF LastIn

\* Leaving a link that is not down posts its loss.
LEMMA Left ==
    ASSUME TypeOK, Leave
    PROVE  /\ link' = "down"
           /\ \/ link = "down" /\ events' = events
              \/ LastIn(Lost)' /\ events' # <<>>
  <1>1. "LOST" \in Lost /\ "LOST" \in Event
    BY DEF Lost, Event
  <1>2. CASE link = "down"
    BY <1>2 DEF Leave, driverVars
  <1>3. CASE link # "down"
    <2>1. link' = "down" /\ Post("LOST")
      BY <1>3 DEF Leave
    <2> QED BY <1>1, <2>1, Posted
  <1> QED BY <1>2, <1>3

------------------------------------------------------------------------------
(* A loss is told *)

LEMMA TellStep == IInv /\ [Next]_vars => Telling'
  <1> SUFFICES ASSUME TypeOK, Telling, [Next]_vars PROVE Telling'
    BY DEF IInv
  <1> USE DEF Telling, ParsingIsUntried, LossIsLast, JoinFromDown, BitIsKnown, BitIsStale, IpIsKnown,
              WillTell, HasToTell, Resting, Tried
  <1>1. CASE ConnectSsid
    <2>1. events' = events
      BY <1>1 DEF ConnectSsid, driverVars
    <2> QED BY <1>1, <2>1, SameEvents DEF ConnectSsid, taskVars, sharedVars, driverVars
  <1>2. CASE Begin
    <2>1. events' = events
      BY <1>2 DEF Begin, driverVars
    <2> QED BY <1>2, <2>1, SameEvents DEF Begin, taskVars, sharedVars, driverVars
  <1>3. CASE Abandon
    <2>1. events' = events
      BY <1>3 DEF Abandon, driverVars
    <2> QED BY <1>3, <2>1, SameEvents DEF Abandon, taskVars, sharedVars, driverVars
  <1>4. CASE SkipNetwork
    <2>1. events' = events
      BY <1>4 DEF SkipNetwork, driverVars
    <2> QED BY <1>4, <2>1, SameEvents DEF SkipNetwork, HasNetwork, taskVars, sharedVars, driverVars
  <1>5. CASE TryNetwork
    <2>1. events' = events
      BY <1>5 DEF TryNetwork, driverVars
    <2> QED BY <1>5, <2>1, SameEvents DEF TryNetwork, taskVars, sharedVars, driverVars
  <1>6. CASE GiveUp
    <2>1. events' = events
      BY <1>6 DEF GiveUp, driverVars
    <2> QED BY <1>6, <2>1, SameEvents DEF GiveUp, SayDisconnected, taskVars, sharedVars, driverVars
  <1>7. CASE ConnectStarts
    <2>1. events' = events
      BY <1>7 DEF ConnectStarts, driverVars
    <2> QED BY <1>7, <2>1, SameEvents DEF ConnectStarts, Up, taskVars, sharedVars, driverVars
  <1>8. CASE ConnectFails
    <2>1. events' = events
      BY <1>8 DEF ConnectFails, driverVars
    <2> QED BY <1>8, <2>1, SameEvents DEF ConnectFails, taskVars, sharedVars, driverVars
  <1>9. CASE WaitSucceeds
    <2>1. events' = events
      BY <1>9 DEF WaitSucceeds, driverVars
    <2> QED BY <1>9, <2>1, SameEvents DEF WaitSucceeds, taskVars, sharedVars, driverVars
  <1>10. CASE WaitTimesOut
    <2>1. events' = events
      BY <1>10 DEF WaitTimesOut, driverVars
    <2> QED BY <1>10, <2>1, SameEvents DEF WaitTimesOut, taskVars, sharedVars, driverVars
  <1>11. CASE JoinFails
    <2>1. events' = events
      BY <1>11 DEF JoinFails, driverVars
    <2> QED BY <1>11, <2>1, SameEvents DEF JoinFails, taskVars, sharedVars, driverVars
  <1>12. CASE StartWifi
    <2>1. events' = events
      BY <1>12 DEF StartWifi, driverVars
    <2> QED BY <1>12, <2>1, SameEvents DEF StartWifi, taskVars, sharedVars, driverVars
  <1>13. CASE Deinit
    <2>1. events' = events
      BY <1>13 DEF Deinit, driverVars
    <2> QED BY <1>13, <2>1, SameEvents DEF Deinit, taskVars, sharedVars, driverVars
  <1>14. CASE InitActor
    <2>1. events' = events
      BY <1>14 DEF InitActor, driverVars
    <2> QED BY <1>14, <2>1, SameEvents DEF InitActor, taskVars, sharedVars, driverVars
  <1>15. CASE EndAssociated
    <2>1. events' = events
      BY <1>15 DEF EndAssociated, driverVars
    <2> QED BY <1>15, <2>1, SameEvents DEF EndAssociated, SetFlag, taskVars, sharedVars, driverVars
  <1>16. CASE EndIp
    <2>1. events' = events
      BY <1>16 DEF EndIp, driverVars
    <2> QED BY <1>16, <2>1, SameEvents DEF EndIp, taskVars, sharedVars, driverVars
  <1>17. CASE EndLost
    <2>1. events' = events
      BY <1>17 DEF EndLost, driverVars
    <2> QED BY <1>17, <2>1, SameEvents DEF EndLost, taskVars, sharedVars, driverVars
  <1>18. CASE Scan
    <2>1. events' = events
      BY <1>18 DEF Scan, driverVars
    <2> QED BY <1>18, <2>1, SameEvents DEF Scan, taskVars, sharedVars, driverVars
  <1>19. CASE Join
    <2>1. Leave
      BY <1>19 DEF Join
    <2> QED BY <1>19, <2>1, Left, SameEvents DEF Join, taskVars, sharedVars, Up
  <1>20. CASE StopWifi
    <2>1. Leave
      BY <1>20 DEF StopWifi, StopDriver
    <2> QED BY <1>20, <2>1, Left, SameEvents DEF StopWifi, taskVars, sharedVars, Up
  <1>21. CASE Disconnect
    <2>1. Leave
      BY <1>21 DEF Disconnect
    <2> QED BY <1>21, <2>1, Left, SameEvents DEF Disconnect, taskVars, sharedVars, Up
  <1>22. CASE Associate
    BY <1>22 DEF Associate, taskVars, sharedVars, Up
  <1>23. CASE GetIp
    BY <1>23 DEF GetIp, taskVars, sharedVars, Up
  <1>24. CASE Refuse
    <2>1. LastIn(Lost)' /\ events' # <<>>
      BY <1>24, Posted DEF Refuse, Lost, Event
    <2> QED BY <1>24, <2>1 DEF Refuse, taskVars, sharedVars, Up
  <1>25. CASE LoseLink
    <2>1. LastIn(Lost)' /\ events' # <<>>
      BY <1>25, Posted DEF LoseLink, Lost, Event
    <2> QED BY <1>25, <2>1 DEF LoseLink, taskVars, sharedVars, Up
  <1>26. CASE TakeAssociated
    <2>1. events # <<>> /\ handling = "none" /\ (LastIn(Lost) => LastIn(Lost)')
      BY <1>26, Taken DEF TakeAssociated, Take, Lost
    <2>2. /\ link' = link /\ course' = course /\ told' = told
          /\ handling' = "associated" /\ (place' = place \/ place' = "woken")
      BY <1>26 DEF TakeAssociated, SetBit
    <2>3. link' \notin Up => LastIn(Lost)'
      BY <2>1, <2>2
    <2>4. JoinFromDown' /\ (place' = "leaving" => link' \notin Up)
      BY <2>2 DEF Up
    <2> QED BY <2>2, <2>3, <2>4
  <1>27. CASE TakeIp
    <2>1. events # <<>> /\ handling = "none" /\ (LastIn(Lost) => LastIn(Lost)')
      BY <1>27, Taken DEF TakeIp, Take, Lost
    <2>2. /\ link' = link /\ course' = course /\ told' = told
          /\ handling' = "ip" /\ (place' = place \/ place' = "woken")
          /\ connected'
      BY <1>27 DEF TakeIp, SetBit
    <2>3. link' \notin Up => LastIn(Lost)'
      BY <2>1, <2>2
    <2>4. JoinFromDown' /\ (place' = "leaving" => link' \notin Up)
      BY <2>2 DEF Up
    <2> QED BY <2>2, <2>3, <2>4
  <1>28. CASE TakeLost
    <2>1. events # <<>> /\ handling = "none" /\ (LastIn(Lost) => LastIn(Lost)' \/ events' = <<>>)
      BY <1>28, Taken DEF TakeLost, Take
    <2> QED BY <1>28, <2>1 DEF TakeLost, taskVars, sharedVars
  <1>29. CASE UNCHANGED vars
    BY <1>29, SameEvents DEF vars, taskVars, sharedVars, driverVars
  <1> QED BY <1>1, <1>2, <1>3, <1>4, <1>5, <1>6, <1>7, <1>8, <1>9, <1>10, <1>11, <1>12, <1>13, <1>14,
          <1>15, <1>16, <1>17, <1>18, <1>19, <1>20, <1>21, <1>22, <1>23, <1>24, <1>25, <1>26, <1>27, <1>28, <1>29
      DEF Next, Command, Work, Handler, Answer

\* A loss is told (WIFI_Actor.c:1632, 1695), for any list of networks, any number of retries
\* and any delay of the event loop.
THEOREM LossTold == Spec => []LossIsTold
  <1>1. Init => Telling
    BY DEF Init, Telling, ParsingIsUntried, LossIsLast, JoinFromDown, BitIsKnown, BitIsStale, IpIsKnown,
       WillTell, HasToTell
  <1>2. IInv => LossIsTold
    BY DEF IInv, Telling, HasToTell, LossIsTold, Settled, Resting, LastIn, Up
  <1>3. TypeInv => TypeOK
    BY DEF TypeInv
  <1>4. TypeInv /\ Telling /\ [Next]_vars => (TypeInv /\ Telling)'
    BY TypeStep, TellStep, <1>3 DEF IInv
  <1>5. TypeInv /\ Telling => LossIsTold
    BY <1>2, <1>3 DEF IInv
  <1> QED BY InitType, <1>1, <1>4, <1>5, PTL DEF Spec

------------------------------------------------------------------------------
(* A connection is told *)

LEMMA AddressStep == UInv /\ [Next]_vars => StoppedFirst' /\ AddressIsTold'
  <1> SUFFICES ASSUME TypeOK, StoppedFirst, AddressIsTold, [Next]_vars
               PROVE  StoppedFirst' /\ AddressIsTold'
    BY DEF UInv
  <1> USE DEF StoppedFirst, AddressIsTold, Tried
  <1>1. CASE ConnectSsid
    <2>1. events' = events
      BY <1>1 DEF ConnectSsid, driverVars
    <2> QED BY <1>1, <2>1, SameEvents DEF ConnectSsid, taskVars, sharedVars, driverVars
  <1>2. CASE Begin
    <2>1. events' = events
      BY <1>2 DEF Begin, driverVars
    <2> QED BY <1>2, <2>1, SameEvents DEF Begin, taskVars, sharedVars, driverVars
  <1>3. CASE Abandon
    <2>1. events' = events
      BY <1>3 DEF Abandon, driverVars
    <2> QED BY <1>3, <2>1, SameEvents DEF Abandon, taskVars, sharedVars, driverVars
  <1>4. CASE SkipNetwork
    <2>1. events' = events
      BY <1>4 DEF SkipNetwork, driverVars
    <2> QED BY <1>4, <2>1, SameEvents DEF SkipNetwork, taskVars, sharedVars, driverVars
  <1>5. CASE TryNetwork
    <2>1. events' = events
      BY <1>5 DEF TryNetwork, driverVars
    <2> QED BY <1>5, <2>1, SameEvents DEF TryNetwork, taskVars, sharedVars, driverVars
  <1>6. CASE GiveUp
    <2>1. events' = events
      BY <1>6 DEF GiveUp, driverVars
    <2> QED BY <1>6, <2>1, SameEvents DEF GiveUp, SayDisconnected, taskVars, sharedVars, driverVars
  <1>7. CASE ConnectStarts
    <2>1. events' = events
      BY <1>7 DEF ConnectStarts, driverVars
    <2> QED BY <1>7, <2>1, SameEvents DEF ConnectStarts, taskVars, sharedVars, driverVars
  <1>8. CASE ConnectFails
    <2>1. events' = events
      BY <1>8 DEF ConnectFails, driverVars
    <2> QED BY <1>8, <2>1, SameEvents DEF ConnectFails, taskVars, sharedVars, driverVars
  <1>9. CASE WaitSucceeds
    <2>1. events' = events
      BY <1>9 DEF WaitSucceeds, driverVars
    <2> QED BY <1>9, <2>1, SameEvents DEF WaitSucceeds, taskVars, sharedVars, driverVars
  <1>10. CASE WaitTimesOut
    <2>1. events' = events
      BY <1>10 DEF WaitTimesOut, driverVars
    <2> QED BY <1>10, <2>1, SameEvents DEF WaitTimesOut, taskVars, sharedVars, driverVars
  <1>11. CASE JoinFails
    <2>1. events' = events
      BY <1>11 DEF JoinFails, driverVars
    <2> QED BY <1>11, <2>1, SameEvents DEF JoinFails, taskVars, sharedVars, driverVars
  <1>12. CASE StartWifi
    <2>1. events' = events
      BY <1>12 DEF StartWifi, driverVars
    <2> QED BY <1>12, <2>1, SameEvents DEF StartWifi, taskVars, sharedVars, driverVars
  <1>13. CASE Deinit
    <2>1. events' = events
      BY <1>13 DEF Deinit, driverVars
    <2> QED BY <1>13, <2>1, SameEvents DEF Deinit, taskVars, sharedVars, driverVars
  <1>14. CASE InitActor
    <2>1. events' = events
      BY <1>14 DEF InitActor, driverVars
    <2> QED BY <1>14, <2>1, SameEvents DEF InitActor, taskVars, sharedVars, driverVars
  <1>15. CASE EndAssociated
    <2>1. events' = events
      BY <1>15 DEF EndAssociated, driverVars
    <2> QED BY <1>15, <2>1, SameEvents DEF EndAssociated, taskVars, sharedVars, driverVars
  <1>16. CASE EndIp
    <2>1. events' = events
      BY <1>16 DEF EndIp, driverVars
    <2> QED BY <1>16, <2>1, SameEvents DEF EndIp, taskVars, sharedVars, driverVars
  <1>17. CASE EndLost
    <2>1. events' = events
      BY <1>17 DEF EndLost, driverVars
    <2> QED BY <1>17, <2>1, SameEvents DEF EndLost, taskVars, sharedVars, driverVars
  <1>18. CASE Scan
    <2>1. events' = events
      BY <1>18 DEF Scan, driverVars
    <2> QED BY <1>18, <2>1, SameEvents DEF Scan, taskVars, sharedVars, driverVars
  <1>19. CASE Join
    <2>1. Leave
      BY <1>19 DEF Join
    <2> QED BY <1>19, <2>1, Left DEF Join, taskVars, sharedVars
  <1>20. CASE StopWifi
    <2>1. Leave
      BY <1>20 DEF StopWifi, StopDriver
    <2> QED BY <1>20, <2>1, Left DEF StopWifi, taskVars, sharedVars
  <1>21. CASE Disconnect
    <2>1. Leave
      BY <1>21 DEF Disconnect
    <2> QED BY <1>21, <2>1, Left DEF Disconnect, taskVars, sharedVars
  <1>22. CASE Associate
    BY <1>22 DEF Associate, taskVars, sharedVars, Up
  <1>23. CASE Refuse
    BY <1>23 DEF Refuse, taskVars, sharedVars, Up
  <1>24. CASE LoseLink
    BY <1>24 DEF LoseLink, taskVars, sharedVars, Up
  <1>25. CASE GetIp
    <2>1. LastIn({"IP"})' /\ link = "associated"
      BY <1>25, Posted DEF GetIp, Event
    <2> QED BY <1>25, <2>1 DEF GetIp, taskVars, sharedVars
  <1>26. CASE TakeAssociated
    <2>1. Take("ASSOCIATED") /\ events # <<>> /\ handling = "none"
      BY <1>26 DEF TakeAssociated, Take
    <2>2. LastIn({"IP"}) => LastIn({"IP"})' \/ ("ASSOCIATED" \in {"IP"} /\ events' = <<>>)
      BY <2>1, Taken
    <2> QED BY <1>26, <2>1, <2>2 DEF TakeAssociated, SetBit, taskVars, sharedVars
  <1>27. CASE TakeIp
    <2>1. Take("IP") /\ events # <<>> /\ handling = "none"
      BY <1>27 DEF TakeIp, Take
    <2>2. LastIn({"IP"}) => LastIn({"IP"})' \/ ("IP" \in {"IP"} /\ events' = <<>>)
      BY <2>1, Taken
    <2> QED BY <1>27, <2>1, <2>2 DEF TakeIp, SetBit, taskVars, sharedVars
  <1>28. CASE TakeLost
    <2>1. PICK e \in Lost : Take(e)
      BY <1>28 DEF TakeLost
    <2>2. events # <<>> /\ handling = "none"
      BY <2>1 DEF Take
    <2>3. LastIn({"IP"}) => LastIn({"IP"})' \/ (e \in {"IP"} /\ events' = <<>>)
      BY <2>1, Taken
    <2> QED BY <1>28, <2>2, <2>3 DEF TakeLost, Lost, taskVars, sharedVars
  <1>29. CASE UNCHANGED vars
    BY <1>29, SameEvents DEF vars, taskVars, sharedVars, driverVars
  <1> QED BY <1>1, <1>2, <1>3, <1>4, <1>5, <1>6, <1>7, <1>8, <1>9, <1>10, <1>11, <1>12, <1>13, <1>14,
          <1>15, <1>16, <1>17, <1>18, <1>19, <1>20, <1>21, <1>22, <1>23, <1>24, <1>25, <1>26, <1>27, <1>28, <1>29
      DEF Next, Command, Work, Handler, Answer

\* A connection is told (WIFI_Actor.c:1778), although a join may time out, and clear the flags
\* of the handler, just as it succeeds (1972).
THEOREM UpTold == Spec => []UpIsTold
  <1>1. Init => StoppedFirst /\ AddressIsTold
    BY DEF Init, StoppedFirst, AddressIsTold
  <1>2. AddressIsTold => UpIsTold
    BY DEF AddressIsTold, UpIsTold, Settled, LastIn
  <1>3. TypeInv => TypeOK
    BY DEF TypeInv
  <1>4. TypeInv /\ StoppedFirst /\ AddressIsTold /\ [Next]_vars
            => (TypeInv /\ StoppedFirst /\ AddressIsTold)'
    BY TypeStep, AddressStep, <1>3 DEF UInv
  <1> QED BY InitType, <1>1, <1>2, <1>4, PTL DEF Spec
------------------------------------------------------------------------------
(* A CONNECT_SSID is answered, or its answer is due *)

\* The wait of wifi_join found the bit, and nothing has been announced since.
Joined == place \in {"woken", "idle", "deleted"} /\ pending

\* That bit comes from a join, and between the two parses nothing is to be answered yet.
JoinedAfterTrying ==
    /\ place \in {"leaving", "waiting", "woken", "late"} \/ Joined => course = "tried"
    /\ place = "parsing" => ~pending

\* The handler would announce a loss ...
LossWillBeTold == Joined => connected \/ handling \in {"associated", "lost"}

\* ... and has one to announce if the link is not up: a bit left by an earlier link ends
\* the wait, but the loss of that link is still to be delivered.
LossIsComing == Joined /\ link \notin Up => LastIn(Lost) \/ handling = "lost"

\* An address of a network tried is about to be announced.
AddressIsComing ==
    course = "tried" /\ pending /\ link = "ip" => LastIn({"IP"}) \/ (events = <<>> /\ handling = "ip")

Answering == JoinedAfterTrying /\ LossWillBeTold /\ LossIsComing /\ AddressIsComing

\* The steps of the task that leave the driver's events alone.
LEMMA WorkAnswers ==
    ASSUME Telling, Answering, events' = events,
           \/ ConnectSsid \/ Deinit \/ InitActor \/ Begin \/ Abandon \/ SkipNetwork \/ TryNetwork
           \/ GiveUp \/ ConnectStarts \/ ConnectFails \/ WaitSucceeds \/ WaitTimesOut \/ JoinFails
           \/ StartWifi \/ Scan
    PROVE  Answering'
  <1> USE SameEvents DEF Telling, BitIsKnown, BitIsStale, Answering, Joined, JoinedAfterTrying,
                         LossWillBeTold, LossIsComing, AddressIsComing
  <1>1. CASE ConnectSsid \/ Deinit \/ InitActor \/ Scan
    BY <1>1 DEF ConnectSsid, Deinit, InitActor, Scan, taskVars, sharedVars, driverVars
  <1>2. CASE Begin \/ Abandon \/ SkipNetwork \/ TryNetwork \/ GiveUp
    BY <1>2 DEF Begin, Abandon, SkipNetwork, TryNetwork, GiveUp, SayDisconnected,
                taskVars, sharedVars, driverVars
  <1>3. CASE ConnectStarts
    BY <1>3 DEF ConnectStarts, Up, taskVars, sharedVars, driverVars
  <1>4. CASE ConnectFails \/ WaitSucceeds \/ WaitTimesOut \/ JoinFails \/ StartWifi
    BY <1>4 DEF ConnectFails, WaitSucceeds, WaitTimesOut, JoinFails, StartWifi,
                taskVars, sharedVars, driverVars
  <1> QED BY <1>1, <1>2, <1>3, <1>4

\* The steps that leave the link, and those of the driver.
LEMMA DriverAnswers ==
    ASSUME TypeOK, Answering, Join \/ StopWifi \/ Disconnect \/ Answer
    PROVE  Answering'
  <1> USE DEF Answering, Joined, JoinedAfterTrying, LossWillBeTold, LossIsComing, AddressIsComing
  <1>1. CASE Join \/ StopWifi \/ Disconnect
    <2>1. Leave
      BY <1>1 DEF Join, StopWifi, StopDriver, Disconnect
    <2> QED BY <1>1, <2>1, Left, SameEvents DEF Join, StopWifi, Disconnect, taskVars, sharedVars, Up
  <1>2. CASE Refuse \/ LoseLink
    <2>1. LastIn(Lost)' /\ link' = "down"
      BY <1>2, Posted DEF Refuse, LoseLink, Lost, Event
    <2> QED BY <1>2, <2>1 DEF Refuse, LoseLink, taskVars, sharedVars, Up
  <1>3. CASE Associate
    BY <1>3 DEF Associate, taskVars, sharedVars, Up
  <1>4. CASE GetIp
    <2>1. LastIn({"IP"})' /\ link = "associated"
      BY <1>4, Posted DEF GetIp, Event
    <2> QED BY <1>4, <2>1 DEF GetIp, taskVars, sharedVars, Up
  <1> QED BY <1>1, <1>2, <1>3, <1>4 DEF Answer

\* The steps of wifi_event_handler.
LEMMA HandlerAnswers ==
    ASSUME TypeOK, Telling, Answering, Handler
    PROVE  Answering'
  <1> USE DEF Answering, Joined, JoinedAfterTrying, LossWillBeTold, LossIsComing, AddressIsComing
  <1>1. CASE EndAssociated \/ EndIp \/ EndLost
    <2>1. events' = events
      BY <1>1 DEF EndAssociated, EndIp, EndLost, driverVars
    <2> QED BY <1>1, <2>1, SameEvents
            DEF EndAssociated, EndIp, EndLost, SetFlag, taskVars, sharedVars, driverVars
  <1>2. CASE TakeAssociated
    <2>1. Take("ASSOCIATED") /\ events # <<>> /\ handling = "none"
      BY <1>2 DEF TakeAssociated, Take
    <2>2. LastIn(Lost) => LastIn(Lost)' \/ ("ASSOCIATED" \in Lost /\ events' = <<>>)
      BY <2>1, Taken
    <2>3. LastIn({"IP"}) => LastIn({"IP"})' \/ ("ASSOCIATED" \in {"IP"} /\ events' = <<>>)
      BY <2>1, Taken
    <2>4. link \notin Up => LastIn(Lost)
      BY <2>1 DEF Telling, LossIsLast
    <2> QED BY <1>2, <2>1, <2>2, <2>3, <2>4 DEF TakeAssociated, SetBit, Lost
  <1>3. CASE TakeIp
    <2>1. Take("IP") /\ events # <<>> /\ handling = "none"
      BY <1>3 DEF TakeIp, Take
    <2>2. LastIn(Lost) => LastIn(Lost)' \/ ("IP" \in Lost /\ events' = <<>>)
      BY <2>1, Taken
    <2>3. LastIn({"IP"}) => LastIn({"IP"})' \/ ("IP" \in {"IP"} /\ events' = <<>>)
      BY <2>1, Taken
    <2>4. link \notin Up => LastIn(Lost)
      BY <2>1 DEF Telling, LossIsLast
    <2> QED BY <1>3, <2>1, <2>2, <2>3, <2>4 DEF TakeIp, SetBit, Lost
  <1>4. CASE TakeLost
    <2>1. PICK e \in Lost : Take(e)
      BY <1>4 DEF TakeLost
    <2>2. events # <<>> /\ handling = "none"
      BY <2>1 DEF Take
    <2>3. LastIn({"IP"}) => LastIn({"IP"})' \/ (e \in {"IP"} /\ events' = <<>>)
      BY <2>1, Taken
    <2>4. LastIn(Lost) => LastIn(Lost)' \/ (e \in Lost /\ events' = <<>>)
      BY <2>1, Taken
    <2> QED BY <1>4, <2>1, <2>2, <2>3, <2>4 DEF TakeLost, Lost, taskVars, sharedVars
  <1> QED BY <1>1, <1>2, <1>3, <1>4 DEF Handler

LEMMA AnswerStep == IInv /\ Answering /\ [Next]_vars => Answering'
  <1> SUFFICES ASSUME TypeOK, Telling, Answering, [Next]_vars PROVE Answering'
    BY DEF IInv
  <1>1. CASE UNCHANGED vars
    BY <1>1, SameEvents DEF Answering, Joined, JoinedAfterTrying, LossWillBeTold, LossIsComing,
       AddressIsComing, vars, taskVars, sharedVars, driverVars
  <1>2. CASE Join \/ StopWifi \/ Disconnect \/ Answer
    BY <1>2, DriverAnswers
  <1>3. CASE Handler
    BY <1>3, HandlerAnswers
  <1>4. CASE \/ ConnectSsid \/ Deinit \/ InitActor \/ Begin \/ Abandon \/ SkipNetwork \/ TryNetwork
             \/ GiveUp \/ ConnectStarts \/ ConnectFails \/ WaitSucceeds \/ WaitTimesOut \/ JoinFails
             \/ StartWifi \/ Scan
    <2>1. events' = events
      BY <1>4 DEF ConnectSsid, Deinit, InitActor, Begin, Abandon, SkipNetwork, TryNetwork, GiveUp,
         ConnectStarts, ConnectFails, WaitSucceeds, WaitTimesOut, JoinFails, StartWifi, Scan, driverVars
    <2> QED BY <1>4, <2>1, WorkAnswers
  <1> QED BY <1>1, <1>2, <1>3, <1>4 DEF Next, Command, Work

\* A CONNECT_SSID that found the list is not forgotten (WIFI_Actor.c:1519, 1957): whichever of the
\* task and the handler comes first, once nothing is under way it has been answered, or the link
\* it made waits for its address and its loss would be announced.
THEOREM NoAnswerForgotten == Spec => []AnswerIsDue
  <1>1. Init => Telling /\ Answering
    BY DEF Init, Telling, ParsingIsUntried, LossIsLast, JoinFromDown, BitIsKnown, BitIsStale, IpIsKnown,
       WillTell, HasToTell, Answering, Joined, JoinedAfterTrying, LossWillBeTold, LossIsComing,
       AddressIsComing
  <1>2. Answering => AnswerIsDue
    BY DEF Answering, Joined, JoinedAfterTrying, LossWillBeTold, LossIsComing, AddressIsComing,
       AnswerIsDue, Settled, LastIn, Up
  <1>3. TypeInv => TypeOK
    BY DEF TypeInv
  <1>4. TypeInv /\ Telling /\ Answering /\ [Next]_vars => (TypeInv /\ Telling /\ Answering)'
    BY TypeStep, TellStep, AnswerStep, <1>3 DEF IInv
  <1> QED BY InitType, <1>1, <1>2, <1>4, PTL DEF Spec
==============================================================================
