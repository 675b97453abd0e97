---------------------------- MODULE SendService ----------------------------
(***************************************************************************)
(* What POST /api/messages/send and /redact promise to a client: one       *)
(* answer per request, "ok" only for a message a backend took, "failed"    *)
(* without a copy taken unless something was in doubt, and at most one     *)
(* copy more than there were doubts (a lost response, a backend that       *)
(* failed after taking the message).                                       *)
(***************************************************************************)
EXTENDS Naturals

CONSTANT Requests

VARIABLES
    status,     \* "idle", "open", "ok" or "failed"
    copies,     \* how many backends took the message
    doubt       \* how many outcomes nobody could know

svars == <<status, copies, doubt>>

Init ==
    /\ status = [r \in Requests |-> "idle"]
    /\ copies = [r \in Requests |-> 0]
    /\ doubt = [r \in Requests |-> 0]

Open(r) ==
    /\ status[r] = "idle"
    /\ status' = [status EXCEPT ![r] = "open"]
    /\ UNCHANGED <<copies, doubt>>

(* One more copy, if every earlier copy is matched by a doubt. *)
Deliver(r) ==
    /\ status[r] # "idle"
    /\ copies[r] <= doubt[r]
    /\ copies' = [copies EXCEPT ![r] = @ + 1]

Doubt(r) == doubt' = [doubt EXCEPT ![r] = @ + 1]

(* An answer agrees with what is known after the step. *)
Answer(r) ==
    /\ status[r] = "open"
    /\ \/ copies'[r] > 0 /\ status' = [status EXCEPT ![r] = "ok"]
       \/ /\ copies'[r] = 0 \/ doubt'[r] > 0
          /\ status' = [status EXCEPT ![r] = "failed"]

Attempt(r) ==
    /\ status[r] # "idle"
    /\ Deliver(r) \/ UNCHANGED copies
    /\ Doubt(r) \/ UNCHANGED doubt
    /\ Answer(r) \/ UNCHANGED status

Next == \E r \in Requests : Open(r) \/ Attempt(r)

Spec == Init /\ [][Next]_svars
=============================================================================
