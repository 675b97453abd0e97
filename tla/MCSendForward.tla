--------------------------- MODULE MCSendForward ---------------------------
(* Instances of SendForward for TLC. *)
EXTENDS SendForward, TLC

CONSTANTS c1, c2

MCNodes == 1..3
MCCtypes == {c1, c2}

(* One client's call and two relayed ones, or up to three clients' calls. *)
MCCalls == 1..3

(***************************************************************************)
(* Clients use node 1, which cannot send c1 itself and sends c2.           *)
(***************************************************************************)
MCCaps ==
    (1 :> (c1 :> "none" @@ c2 :> "send")) @@
    (2 :> (c1 :> "send" @@ c2 :> "full")) @@
    (3 :> (c1 :> "full" @@ c2 :> "recv"))
=============================================================================
