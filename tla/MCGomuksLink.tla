---------------------------- MODULE MCGomuksLink ----------------------------
(* An instance of GomuksLink for TLC. *)
EXTENDS GomuksLink, TLC

CONSTANTS k1, k2

(* Typing events between others, first, and last. *)
MCEventKind ==
    [r \in Runs |-> [n \in 1..MaxEvents |-> IF (n + r) % 3 = 0 THEN "typing" ELSE "sync"]]

Limit(who, many, lost) == [calls |-> who, events |-> many, breaks |-> lost]

(* Two calls that may meet, one call among events, and events alone. *)
MCLimits ==
    { Limit({k1, k2}, 0, 2), Limit({k1, k2}, 1, 1), Limit({k1}, 3, 2), Limit({}, 4, 3) }
=============================================================================
