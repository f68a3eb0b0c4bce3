------------------------------ MODULE ConnAttempt ------------------------------
(***************************************************************************)
(* What the connection flow of src/main/SYSTEM_Actor.c promises, whatever  *)
(* messages come and whichever timers run out: an attempt climbs from the  *)
(* credentials to the network, the device announce and the IoT Hub one     *)
(* rung at a time, is a success only from the top, and after a failure     *)
(* begins again at the bottom.                                             *)
(***************************************************************************)

VARIABLE phase

Running == {"credentials", "provisioning", "network", "online", "diagnosis", "hub", "failed"}
Phases == Running \cup {"off", "done"}

PhaseOK == phase \in Phases

Init == phase = "off"

Move(from, to) == phase \in from /\ phase' \in to

Start == Move({"off"}, {"credentials"})

\* BLE provisioning is offered for want of credentials or of a network.
Offer == Move({"credentials", "network"}, {"provisioning"})
OfferEnds == Move({"provisioning"}, {"credentials", "network", "failed"})

FindNetwork == Move({"credentials"}, {"network"})
LinkUp == Move({"network"}, {"online"})
Announced == Move({"online"}, {"hub"})
Diagnose == Move({"online"}, {"diagnosis"})
Connect == Move({"hub"}, {"done"})

Fail == Move(Running, {"failed"})

\* A new attempt begins, and may already have checked the credentials.
Restart == Move(Running, {"credentials", "provisioning", "network"})

Stop == Move(Running \cup {"done"}, {"off"})

Next == \/ Start \/ Offer \/ OfferEnds \/ FindNetwork \/ LinkUp \/ Announced \/ Diagnose
        \/ Connect \/ Fail \/ Restart \/ Stop

Spec == Init /\ [][Next]_phase
===============================================================================
