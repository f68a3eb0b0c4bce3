---------------------------- MODULE MC_ServerConnect ----------------------------
(* ServerConnect for TLC: the limits of the code, and shorter ones for the runs with      *)
(* events.  A short limit of 0 runs out in any receive that waits, the two of 3 seconds   *)
(* in the second receive of 3.                                                            *)
EXTENDS ServerConnect

SourceLimit == [wifi_enabled |-> 3, network_scan |-> 3, wifi_connect |-> 60, eth |-> 3,
                device_announce |-> 51, ping_dns |-> 40, ping_gateway |-> 40, ihub |-> 60]
ShortLimit == [t \in Timers |-> IF t \in {"wifi_enabled", "network_scan"} THEN 3 ELSE 0]
=================================================================================
