---------------------------- MODULE MCLiveConfig ----------------------------
(* An instance of LiveConfig for TLC. *)
EXTENDS LiveConfig, TLC

CONSTANTS h1, h2

MCHandlers == {h1, h2}

MCParsable == [f \in Flags |-> IF f = "batctl" THEN {0, 1} ELSE {0, 10, 20, 30}]

MCDefault ==
    "batctl" :> 1 @@ "interval" :> 10 @@ "pause" :> 75 @@ "resume" :> 30

(***************************************************************************)
(* A flag alone; two flags, one of which does not parse; the halves of the *)
(* pair, each valid with the default of the other but not with each other; *)
(* a flag with a half of the pair.                                         *)
(***************************************************************************)
MCPatches ==
    { "batctl" :> 0,
      "interval" :> 20 @@ "batctl" :> 7,
      "pause" :> 40,
      "resume" :> 50 @@ "interval" :> 20 }

(* FEDLET_INTERVAL is set when the process starts. *)
MCEnv == "interval" :> 30
=============================================================================
