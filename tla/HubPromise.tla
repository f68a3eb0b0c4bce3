------------------------------- MODULE HubPromise -------------------------------
(***************************************************************************)
(* What the IHUB actor promises those who hear its announcements, SYSTEM   *)
(* above all: a session is announced when it opens and at no other time;   *)
(* its recovery in place is silent, and an end of the recovery without a   *)
(* session is not; and a session on its way out is never served again.     *)
(***************************************************************************)

VARIABLES
    phase, \* of the session: "none", or one of Phases
    told   \* the last IHUB_CONNECTION_STATUS announced

Phases == {"opening", "served", "recovering", "closing"}

Init == phase = "none" /\ told = "none"

Move(from, to) == phase \in from /\ phase' = to
Silent == told' = told
Announce(m) == told' = m
MayAnnounce(m) == Silent \/ Announce(m)

Open == Move({"none"}, "opening") /\ Silent

\* One of several tries of an opening session has failed.
TryFails == Move({"opening"}, "opening") /\ Announce("DISCONNECTED")

Established == Move({"opening"}, "served") /\ Announce("CONNECTED")

Lose == Move({"served"}, "recovering") /\ Silent
Regain == Move({"recovering"}, "served") /\ Silent
Escalate == Move({"recovering"}, "closing") /\ Announce("DISCONNECTED")

\* A session that never opened or that is told to stop: what asked for it may know.
Close == Move({"opening", "served"}, "closing") /\ MayAnnounce("DISCONNECTED")
End == Move({"opening", "closing"}, "none") /\ Silent

Next == Open \/ TryFails \/ Established \/ Lose \/ Regain \/ Escalate \/ Close \/ End

Spec == Init /\ [][Next]_<<phase, told>>
===============================================================================
