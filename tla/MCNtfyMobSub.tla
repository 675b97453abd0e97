---------------------------- MODULE MCNtfyMobSub ----------------------------
(***************************************************************************)
(* The pushes of the bridge, for TLC: to an ntfy server, and by the mobile *)
(* subscriptions.  They share no variable, so a behaviour lets one of them *)
(* move (part), the other stays in an initial state.                       *)
(***************************************************************************)
EXTENDS MCNtfyPublish, MobSub

CONSTANTS aa, ab

VARIABLE part

pushVars == <<part, vars, wVars>>

(* Every kind of notification; the topic; the registry with its pushes.    *)
MCWPlans ==
    { WPlan(<<<<"send", "moz">>, <<"sealed", "moz">>, <<"plain", "self">>>>, 2, 1, 0, 0, 0),
      WPlan(<<<<"send", "moz">>, <<"send", "ntfy">>, <<"badfile", "ntfy">>>>, 2, 1, 0, 0, 0),
      WPlan(<<<<"send", "moz">>>>, 6, 0, 0, 0, 0),
      WPlan(<<>>, 0, 1, 4, 4, 2) }

PushInit ==
    /\ part \in {"ntfy", "mobsub"}
    /\ Init /\ MobSubInit
    /\ part # "mobsub" => wPlan = CHOOSE p \in WPlans : p.notes = <<>>

PushNext ==
    \/ part = "ntfy" /\ Next /\ UNCHANGED <<part, wVars>>
    \/ part = "mobsub" /\ MobSubNext /\ UNCHANGED <<part, vars>>

PushSpec == PushInit /\ [][PushNext]_pushVars

-----------------------------------------------------------------------------
(* The values of all variables. *)
PushTypeOK == TypeOK /\ MobSubTypeOK
=============================================================================
