---------------------------- MODULE MCLiveCharge ----------------------------
(***************************************************************************)
(* The settings and the charge control that one of them switches, for TLC. *)
(* LiveConfig takes the hook of batctl as one step, ChargeControl (Linux)  *)
(* and MacCharge look into it; they share no variable, so a behaviour lets *)
(* one of them move (part), the others stay in an initial state.           *)
(***************************************************************************)
EXTENDS MCLiveConfig, ChargeControl, MacCharge

VARIABLE part

liveVars == <<part, vars, gVars, dVars>>

(* Two hooks with nodes that fail or do nothing; a restart; nodes that come*)
(* or go; both of these, with one hook.                                    *)
MCGPlans ==
    { GPlan(<<"threshold", "switch">>, 2, 3, 0, 0),
      GPlan(<<"switch", "level">>, 1, 3, 0, 1),
      GPlan(<<"level", "threshold">>, 1, 2, 1, 0),
      GPlan(<<"switch", "threshold">>, 0, 1, 2, 1) }

(* The two ways to write more than one key; one key, with keys that come or*)
(* go; the tools, with a restart.                                          *)
MCDPlans ==
    { DPlan(<<"firmware", "pair">>, 1, 2, 0, 0),
      DPlan(<<"level", "adapter">>, 1, 1, 1, 0),
      DPlan(<<"bclm", "smc">>, 1, 1, 0, 1) }

LiveInit ==
    /\ part \in {"settings", "charge", "mac"}
    /\ Init /\ ChargeInit /\ MacInit
    /\ part # "charge" =>
          /\ gPlan = CHOOSE p \in GPlans : TRUE
          /\ gUsable = {} /\ gLoop = "none"
    /\ part # "mac" =>
          /\ dPlan = CHOOSE p \in DPlans : TRUE
          /\ dPresent = {} /\ dAct[DLoop].pc = "none"

LiveNext ==
    \/ part = "settings" /\ Next /\ UNCHANGED <<part, gVars, dVars>>
    \/ part = "charge" /\ ChargeNext /\ UNCHANGED <<part, vars, dVars>>
    \/ part = "mac" /\ MacNext /\ UNCHANGED <<part, vars, gVars>>

LiveSpec == LiveInit /\ [][LiveNext]_liveVars

-----------------------------------------------------------------------------
(* The values of all variables. *)
LiveTypeOK == TypeOK /\ ChargeTypeOK /\ MacTypeOK
=============================================================================
