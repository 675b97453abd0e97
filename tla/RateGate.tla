------------------------------ MODULE RateGate ------------------------------
(***************************************************************************)
(* The rate gate that bdtieba, zhihu and xhs each keep a copy of.  Every   *)
(* request waits at it; an answer that says "too fast" closes it for a     *)
(* delay that doubles up to a cap, an answer that is fine resets it.       *)
(* Requests of several goroutines are on their way at the same time, so an *)
(* answer may belong to a request that passed before the gate was closed.  *)
(* Here time passes, in ticks.                                             *)
(***************************************************************************)
EXTENDS Integers

CONSTANTS
    RateReqs,       \* requests
    RateBase,       \* the first delay
    RateMax         \* the longest

ASSUME RateAssumption ==
    /\ RateBase \in Nat \ {0}
    /\ RateMax \in Nat
    /\ RateBase <= RateMax

VARIABLES
    rNow,           \* the clock
    rUntil,         \* rateUntil; 0 is the zero time
    rBackoff,       \* rateBackoff
    rPc             \* where each request is

rVars == <<rNow, rUntil, rBackoff, rPc>>

RTypeOK ==
    /\ rNow \in Nat \ {0}
    /\ rUntil \in Nat
    /\ rBackoff \in {0} \cup (RateBase..RateMax)
    /\ rPc \in [RateReqs -> {"idle", "gate", "sent"}]

RateInit ==
    /\ rNow = 1
    /\ rUntil = 0
    /\ rBackoff = 0
    /\ rPc = [r \in RateReqs |-> "idle"]

Tick ==
    /\ rNow' = rNow + 1
    /\ UNCHANGED <<rUntil, rBackoff, rPc>>

BeginRequest(r) ==
    /\ rPc[r] = "idle"
    /\ rPc' = [rPc EXCEPT ![r] = "gate"]
    /\ UNCHANGED <<rNow, rUntil, rBackoff>>

(* It sleeps until the gate opens, and looks again. *)
WaitRateGate(r) ==
    /\ rPc[r] = "gate"
    /\ rUntil <= rNow
    /\ rPc' = [rPc EXCEPT ![r] = "sent"]
    /\ UNCHANGED <<rNow, rUntil, rBackoff>>

Mut_Doubled == IF rBackoff = 0 THEN RateBase ELSE 2 * rBackoff

Doubled == IF rBackoff = 0 THEN RateBase
           ELSE IF 2 * rBackoff > RateMax THEN RateMax ELSE 2 * rBackoff

NoteRateLimit(r) ==
    /\ rPc[r] = "sent"
    /\ rBackoff' = Doubled
    /\ rUntil' = rNow + rBackoff'
    /\ rPc' = [rPc EXCEPT ![r] = "idle"]
    /\ UNCHANGED rNow

Mut_ClearRateLimit(r) ==
    /\ rPc[r] = "sent"
    /\ rUntil' = 0 /\ rBackoff' = RateBase
    /\ rPc' = [rPc EXCEPT ![r] = "idle"]
    /\ UNCHANGED rNow

(* A success within the delay was sent before it, and changes nothing.     *)
(* After a reset the next delay is twice the first.                        *)
ClearRateLimit(r) ==
    /\ rPc[r] = "sent"
    /\ IF rUntil > rNow THEN UNCHANGED <<rUntil, rBackoff>>
       ELSE rUntil' = 0 /\ rBackoff' = RateBase
    /\ rPc' = [rPc EXCEPT ![r] = "idle"]
    /\ UNCHANGED rNow

(* Any other answer, or none. *)
OtherAnswer(r) ==
    /\ rPc[r] = "sent"
    /\ rPc' = [rPc EXCEPT ![r] = "idle"]
    /\ UNCHANGED <<rNow, rUntil, rBackoff>>

RateNext ==
    \/ Tick
    \/ \E r \in RateReqs :
          BeginRequest(r) \/ WaitRateGate(r) \/ NoteRateLimit(r) \/ ClearRateLimit(r)
          \/ OtherAnswer(r)

RateSpec == RateInit /\ [][RateNext]_rVars

-----------------------------------------------------------------------------
(* While the gate is closed no answer opens it earlier than it was to      *)
(* open, neither a success of a request that passed before it closed nor a *)
(* further throttling.                                                     *)
NeverLiftedEarly == [][rNow < rUntil => rUntil' >= rUntil]_rVars
=============================================================================
