---------------------------- MODULE NtfyPublish ----------------------------
(***************************************************************************)
(* The push of every published message to an ntfy server                   *)
(* (fedbridge/ntfysh_publish.go): backends publish concurrently, a refusal *)
(* installs a window during which messages are skipped, and a success      *)
(* removes it.  Time is counted in units of which BackoffMin are the 60 s  *)
(* of the code; the window is kept as the time left until ntfyRetryAfter.  *)
(***************************************************************************)
EXTENDS Naturals, FiniteSets

CONSTANTS
    Publishers,     \* backend goroutines that call publishNtfy
    MaxCalls,       \* bound of the model: calls made in a behaviour
    BackoffMin,     \* ntfyBackoffMin
    BackoffMax,     \* ntfyBackoffMax
    MaxWait,        \* the hour a Retry-After header is clamped to
    RetryAfters     \* what parseRetryAfter returns; 0 without a usable header

ASSUME PublishersAssumption == IsFiniteSet(Publishers)
ASSUME MaxCallsAssumption == MaxCalls \in Nat
ASSUME BackoffAssumption ==
    /\ BackoffMin \in Nat \ {0}
    /\ BackoffMax \in Nat
    /\ MaxWait \in Nat
    /\ BackoffMin <= BackoffMax
    /\ BackoffMax <= MaxWait
ASSUME RetryAftersAssumption == RetryAfters \subseteq Nat

VARIABLES
    pc,         \* where each publisher is
    header,     \* the Retry-After of the refusal a publisher handles
    left,       \* time until ntfyRetryAfter; 0 when it has passed
    ntfyBackoff,
    ntfySentOK,
    ntfySentFail,
    ntfySkipped,
    started,    \* history: calls made
    reported,   \* history: skipped messages reported in the log
    early,      \* history: passed the check before the latest refusal
    demand      \* history: time left of the window the server asked for

counters == <<ntfySentOK, ntfySentFail, ntfySkipped, reported>>
window == <<left, ntfyBackoff, early, demand>>
vars == <<pc, header, left, ntfyBackoff, ntfySentOK, ntfySentFail, ntfySkipped,
          started, reported, early, demand>>

PCs == {"idle", "skip", "post", "ok", "clear", "report", "broken", "refused", "install"}

TypeOK ==
    /\ pc \in [Publishers -> PCs]
    /\ header \in [Publishers -> RetryAfters \cup {0}]
    /\ left \in 0..MaxWait
    /\ ntfyBackoff \in BackoffMin..BackoffMax
    /\ ntfySentOK \in Nat
    /\ ntfySentFail \in Nat
    /\ ntfySkipped \in Nat
    /\ started \in 0..MaxCalls
    /\ reported \in Nat
    /\ early \in [Publishers -> BOOLEAN]
    /\ demand \in Nat

Init ==
    /\ pc = [p \in Publishers |-> "idle"]
    /\ header = [p \in Publishers |-> 0]
    /\ left = 0
    /\ ntfyBackoff = BackoffMin
    /\ ntfySentOK = 0 /\ ntfySentFail = 0 /\ ntfySkipped = 0
    /\ started = 0 /\ reported = 0
    /\ early = [p \in Publishers |-> FALSE]
    /\ demand = 0

Lesser(a, b) == IF a < b THEN a ELSE b
Greater(a, b) == IF a > b THEN a ELSE b

(* Publishers past the check whose answer has not changed the window. *)
Sent == {"post", "ok", "clear", "refused", "install"}

Goto(p, from, to) == pc[p] = from /\ pc' = [pc EXCEPT ![p] = to]

-----------------------------------------------------------------------------
(* The window check, under ntfyMu. *)

Call(p) == started < MaxCalls /\ started' = started + 1

InBackoff(p) ==
    /\ Call(p)
    /\ left > 0
    /\ Goto(p, "idle", "skip")
    /\ UNCHANGED <<header, counters, window>>

(* Mutant: the window is not looked at. *)
Mut_Begin(p) ==
    /\ Call(p)
    /\ Goto(p, "idle", "post")
    /\ early' = [early EXCEPT ![p] = FALSE]
    /\ UNCHANGED <<header, counters, left, ntfyBackoff, demand>>

Begin(p) ==
    /\ Call(p)
    /\ left = 0
    /\ Goto(p, "idle", "post")
    /\ early' = [early EXCEPT ![p] = FALSE]
    /\ UNCHANGED <<header, counters, left, ntfyBackoff, demand>>

CountSkip(p) ==
    /\ Goto(p, "skip", "idle")
    /\ ntfySkipped' = ntfySkipped + 1
    /\ UNCHANGED <<header, started, ntfySentOK, ntfySentFail, reported, window>>

-----------------------------------------------------------------------------
(* The POST returns: 200, another status, or no response in 31 s. *)

PostOk(p) == Goto(p, "post", "ok") /\ UNCHANGED <<header, started, counters, window>>

PostBroken(p) == Goto(p, "post", "broken") /\ UNCHANGED <<header, started, counters, window>>

PostRefused(p) ==
    /\ Goto(p, "post", "refused")
    /\ \E d \in RetryAfters : header' = [header EXCEPT ![p] = d]
    /\ UNCHANGED <<started, counters, window>>

-----------------------------------------------------------------------------
CountOk(p) ==
    /\ Goto(p, "ok", "clear")
    /\ ntfySentOK' = ntfySentOK + 1
    /\ UNCHANGED <<header, started, ntfySentFail, ntfySkipped, reported, window>>

(* Under ntfyMu: the window and the escalation are forgotten. *)
Clear(p) ==
    /\ Goto(p, "clear", "report")
    /\ left' = 0
    /\ ntfyBackoff' = BackoffMin
    /\ demand' = IF early[p] THEN 0 ELSE demand
    /\ UNCHANGED <<header, started, counters, early>>

(* Mutant: the counter is read, logged, and then set to 0 by the next call. *)
Mut_Report(p) ==
    /\ Goto(p, "report", "idle")
    /\ reported' = reported + ntfySkipped
    /\ UNCHANGED <<header, started, ntfySentOK, ntfySentFail, ntfySkipped, window>>

(* ntfySkipped.Swap(0), and the log line. *)
Report(p) ==
    /\ Goto(p, "report", "idle")
    /\ reported' = reported + ntfySkipped
    /\ ntfySkipped' = 0
    /\ UNCHANGED <<header, started, ntfySentOK, ntfySentFail, window>>

(* No response: the window stays as it is. *)
CountBroken(p) ==
    /\ Goto(p, "broken", "idle")
    /\ ntfySentFail' = ntfySentFail + 1
    /\ UNCHANGED <<header, started, ntfySentOK, ntfySkipped, reported, window>>

CountRefused(p) ==
    /\ Goto(p, "refused", "install")
    /\ ntfySentFail' = ntfySentFail + 1
    /\ UNCHANGED <<header, started, ntfySentOK, ntfySkipped, reported, window>>

(* Mutant: a Retry-After header is taken as it comes. *)
Mut_Wait(p) == IF header[p] = 0 THEN ntfyBackoff ELSE header[p]

(* Without a header the escalating default; a header is clamped. *)
Wait(p) == IF header[p] = 0 THEN ntfyBackoff ELSE Lesser(header[p], MaxWait)

(* Under ntfyMu: the window ends Wait(p) from now. *)
Install(p) ==
    /\ Goto(p, "install", "idle")
    /\ left' = Wait(p)
    /\ ntfyBackoff' = IF header[p] = 0 THEN Lesser(2 * ntfyBackoff, BackoffMax)
                      ELSE BackoffMin
    /\ demand' = IF early[p] THEN Wait(p) ELSE Greater(demand, Wait(p))
    /\ early' = [q \in Publishers |-> early[q] \/ (q # p /\ pc[q] \in Sent)]
    /\ header' = [header EXCEPT ![p] = 0]
    /\ UNCHANGED <<started, counters>>

-----------------------------------------------------------------------------
Tick ==
    /\ left > 0
    /\ left' = left - 1
    /\ demand' = IF demand > 0 THEN demand - 1 ELSE 0
    /\ UNCHANGED <<pc, header, ntfyBackoff, started, counters, early>>

Publish(p) ==
    \/ InBackoff(p) \/ Begin(p) \/ CountSkip(p)
    \/ PostOk(p) \/ PostBroken(p) \/ PostRefused(p)
    \/ CountOk(p) \/ Clear(p) \/ Report(p)
    \/ CountBroken(p) \/ CountRefused(p) \/ Install(p)

Next == Tick \/ \E p \in Publishers : Publish(p)

Spec == Init /\ [][Next]_vars

-----------------------------------------------------------------------------
(* Publishers whose call no counter shows yet. *)
Uncounted == {p \in Publishers : pc[p] \in {"skip", "post", "ok", "broken", "refused"}}

(***************************************************************************)
(* No call is lost from the statistics: each one is sent, failed, skipped, *)
(* reported as skipped when the window ended, or still under way, although *)
(* the counters are updated one by one by concurrent publishers.           *)
(***************************************************************************)
Accounting ==
    started = ntfySentOK + ntfySentFail + ntfySkipped + reported + Cardinality(Uncounted)

(***************************************************************************)
(* A message passes the check only when the window the server asked for is *)
(* over.  The one thing that cuts a window short is the answer to a        *)
(* message that had passed the check before the refusal came.              *)
(***************************************************************************)
WindowRespected ==
    [][\A p \in Publishers : pc[p] = "idle" /\ pc'[p] = "post" => demand = 0]_vars
=============================================================================
