------------------------- MODULE NtfyPublishProofs -------------------------
(***************************************************************************)
(* Proofs about NtfyPublish: for any finite set of publishers, no call is  *)
(* lost from the statistics, and the window the server asked for holds     *)
(* except against the answers of messages that were already on their way.  *)
(***************************************************************************)
EXTENDS NtfyPublish, FiniteSetTheorems, TLAPS

(* The window kept is the one the server asked for, and while it is open   *)
(* every message still on its way had passed the check before.             *)
WindowKept ==
    /\ demand = left
    /\ \A p \in Publishers : pc[p] \in Sent /\ ~early[p] => demand = 0

IInv == TypeOK /\ WindowKept /\ Accounting

(* The wait installed is at most an hour, and the next default is in bounds. *)
LEMMA WaitBounds ==
    ASSUME NEW p \in Publishers, TypeOK
    PROVE  /\ Wait(p) \in 0..MaxWait
           /\ Lesser(2 * ntfyBackoff, BackoffMax) \in BackoffMin..BackoffMax
<1>1. ntfyBackoff \in Nat /\ ntfyBackoff >= BackoffMin /\ ntfyBackoff <= BackoffMax
  BY BackoffAssumption DEF TypeOK
<1>2. header[p] \in Nat
  <2>1. header[p] \in RetryAfters \/ header[p] = 0
    BY DEF TypeOK
  <2>2. \A d \in RetryAfters : d \in Nat
    BY RetryAftersAssumption
  <2> QED
    BY <2>1, <2>2
<1>3. ASSUME NEW a \in Nat, NEW b \in Nat
      PROVE  Lesser(a, b) \in Nat /\ Lesser(a, b) <= b /\ (Lesser(a, b) = a \/ Lesser(a, b) = b)
  BY DEF Lesser
<1>4. Wait(p) \in 0..MaxWait
  <2>1. CASE header[p] = 0
    BY <2>1, <1>1, BackoffAssumption DEF Wait
  <2>2. CASE header[p] # 0
    BY <2>2, <1>2, <1>3, BackoffAssumption DEF Wait
  <2> QED
    BY <2>1, <2>2
<1>5. Lesser(2 * ntfyBackoff, BackoffMax) \in BackoffMin..BackoffMax
  <2>1. ASSUME NEW a \in Nat, a >= BackoffMin
        PROVE  Lesser(a, BackoffMax) \in BackoffMin..BackoffMax
    BY <2>1, BackoffAssumption DEF Lesser
  <2>2. 2 * ntfyBackoff \in Nat /\ 2 * ntfyBackoff >= BackoffMin
    BY <1>1, BackoffAssumption
  <2> QED
    BY <2>1, <2>2
<1> QED
  BY <1>4, <1>5

-----------------------------------------------------------------------------
(* The initial values have their types. *)
LEMMA TypeInit == Init => TypeOK
BY BackoffAssumption, MaxCallsAssumption DEF Init, TypeOK, PCs

(* Each step keeps the types. *)
LEMMA TypeStep == TypeOK /\ [Next]_vars => TypeOK'
<1> SUFFICES ASSUME TypeOK, [Next]_vars PROVE TypeOK'
  OBVIOUS
<1>1. CASE UNCHANGED vars
  BY <1>1 DEF vars, TypeOK
<1>2. CASE Tick
  BY <1>2, BackoffAssumption DEF Tick, TypeOK, counters
<1>3. ASSUME NEW p \in Publishers, Publish(p) PROVE TypeOK'
  <2>1. CASE InBackoff(p)
    BY <1>3, <2>1, MaxCallsAssumption
    DEF InBackoff, Call, Goto, TypeOK, PCs, counters, window
  <2>2. CASE Begin(p)
    BY <1>3, <2>2, MaxCallsAssumption DEF Begin, Call, Goto, TypeOK, PCs, counters
  <2>3. CASE CountSkip(p)
    BY <1>3, <2>3 DEF CountSkip, Goto, TypeOK, PCs, window
  <2>4. CASE PostOk(p) \/ PostBroken(p)
    BY <1>3, <2>4 DEF PostOk, PostBroken, Goto, TypeOK, PCs, counters, window
  <2>5. CASE PostRefused(p)
    BY <1>3, <2>5 DEF PostRefused, Goto, TypeOK, PCs, counters, window
  <2>6. CASE CountOk(p)
    BY <1>3, <2>6 DEF CountOk, Goto, TypeOK, PCs, window
  <2>7. CASE Clear(p)
    BY <1>3, <2>7, BackoffAssumption DEF Clear, Goto, TypeOK, PCs, counters
  <2>8. CASE Report(p)
    BY <1>3, <2>8 DEF Report, Goto, TypeOK, PCs, window
  <2>9. CASE CountBroken(p) \/ CountRefused(p)
    BY <1>3, <2>9 DEF CountBroken, CountRefused, Goto, TypeOK, PCs, window
  <2>10. CASE Install(p)
    <3>1. /\ left' \in 0..MaxWait
          /\ ntfyBackoff' \in BackoffMin..BackoffMax
          /\ demand' \in Nat
      BY <2>10, <1>3, WaitBounds, BackoffAssumption DEF Install, TypeOK, Greater
    <3> QED
      BY <1>3, <2>10, <3>1 DEF Install, Goto, TypeOK, PCs, counters
  <2> QED
    BY <1>3, <2>1, <2>2, <2>3, <2>4, <2>5, <2>6, <2>7, <2>8, <2>9, <2>10 DEF Publish
<1> QED
  BY <1>1, <1>2, <1>3 DEF Next

-----------------------------------------------------------------------------
(* The server has asked for nothing at the start. *)
LEMMA WindowInit == Init => WindowKept
BY DEF Init, WindowKept, Sent

(* Each step keeps what the server asks for below the time left. *)
LEMMA WindowStep == TypeOK /\ WindowKept /\ [Next]_vars => WindowKept'
<1> SUFFICES ASSUME TypeOK, WindowKept, [Next]_vars PROVE WindowKept'
  OBVIOUS
<1>1. CASE UNCHANGED vars
  BY <1>1 DEF vars, WindowKept
<1>2. CASE Tick
  BY <1>2 DEF Tick, WindowKept, TypeOK, Sent
<1>3. ASSUME NEW p \in Publishers, Publish(p) PROVE WindowKept'
  <2>1. CASE InBackoff(p) \/ CountSkip(p) \/ PostOk(p) \/ PostBroken(p)
             \/ PostRefused(p) \/ CountOk(p) \/ Report(p) \/ CountBroken(p) \/ CountRefused(p)
    <3>1. UNCHANGED window
      BY <2>1 DEF InBackoff, CountSkip, PostOk, PostBroken, PostRefused, CountOk, Report,
                  CountBroken, CountRefused
    <3>2. \A q \in Publishers : pc'[q] \in Sent => pc[q] \in Sent
      BY <1>3, <2>1 DEF InBackoff, CountSkip, PostOk, PostBroken, PostRefused, CountOk, Report,
                  CountBroken, CountRefused, Goto, TypeOK, Sent
    <3> QED
      BY <3>1, <3>2 DEF WindowKept, window
  <2>2. CASE Begin(p)
    BY <1>3, <2>2 DEF Begin, Goto, WindowKept, TypeOK
  <2>3. CASE Clear(p)
    <3>1. demand' = 0 /\ left' = 0
      BY <1>3, <2>3 DEF Clear, Goto, WindowKept, Sent
    <3> QED
      BY <3>1 DEF WindowKept
  <2>4. CASE Install(p)
    <3>1. pc[p] \in Sent /\ pc'[p] = "idle"
      BY <1>3, <2>4 DEF Install, Goto, Sent, TypeOK
    <3>2. demand' = Wait(p) /\ left' = Wait(p)
      <4>1. Wait(p) \in Nat
        BY <1>3, WaitBounds, BackoffAssumption
      <4> QED
        BY <1>3, <2>4, <3>1, <4>1 DEF Install, WindowKept, Greater
    <3>3. \A q \in Publishers : pc'[q] \in Sent => early'[q]
      BY <1>3, <2>4, <3>1 DEF Install, Goto, TypeOK, Sent
    <3> QED
      BY <3>2, <3>3 DEF WindowKept
  <2> QED
    BY <1>3, <2>1, <2>2, <2>3, <2>4 DEF Publish
<1> QED
  BY <1>1, <1>2, <1>3 DEF Next

-----------------------------------------------------------------------------
(* A publisher joins or leaves those no counter shows: their number follows. *)
LEMMA CountJoin ==
    ASSUME NEW p \in Publishers, p \notin Uncounted, Uncounted' = Uncounted \cup {p}
    PROVE  Cardinality(Uncounted)' = Cardinality(Uncounted) + 1
<1>1. IsFiniteSet(Uncounted)
  BY PublishersAssumption, FS_Subset DEF Uncounted
<1> QED
  BY <1>1, FS_AddElement

(* When one publisher leaves the set of the uncounted, its size falls by one. *)
LEMMA CountLeave ==
    ASSUME NEW p \in Publishers, p \in Uncounted, Uncounted' = Uncounted \ {p}
    PROVE  Cardinality(Uncounted)' = Cardinality(Uncounted) - 1
<1>1. IsFiniteSet(Uncounted)
  BY PublishersAssumption, FS_Subset DEF Uncounted
<1> QED
  BY <1>1, FS_RemoveElement

(* Nobody has been counted at the start. *)
LEMMA AccountingInit == Init => Accounting
<1> SUFFICES ASSUME Init PROVE Accounting
  OBVIOUS
<1>1. Uncounted = {}
  BY DEF Init, Uncounted
<1> QED
  BY <1>1, FS_EmptySet DEF Init, Accounting

(* Each step keeps the sum of the counters and of the calls under way. *)
LEMMA AccountingStep == TypeOK /\ Accounting /\ [Next]_vars => Accounting'
<1> SUFFICES ASSUME TypeOK, Accounting, [Next]_vars PROVE Accounting'
  OBVIOUS
<1>1. /\ started \in Nat /\ ntfySentOK \in Nat /\ ntfySentFail \in Nat
      /\ ntfySkipped \in Nat /\ reported \in Nat
      /\ Cardinality(Uncounted) \in Nat
  <2>1. IsFiniteSet(Uncounted)
    BY PublishersAssumption, FS_Subset DEF Uncounted
  <2> QED
    BY <2>1, FS_CardinalityType, MaxCallsAssumption DEF TypeOK
<1>2. CASE UNCHANGED vars
  BY <1>2 DEF vars, Accounting, Uncounted
<1>3. CASE Tick
  BY <1>3 DEF Tick, Accounting, Uncounted, counters
<1>4. ASSUME NEW p \in Publishers, Publish(p) PROVE Accounting'
  <2>1. CASE InBackoff(p) \/ Begin(p)
    <3>1. p \notin Uncounted /\ Uncounted' = Uncounted \cup {p}
      BY <1>4, <2>1 DEF InBackoff, Begin, Goto, Uncounted, TypeOK
    <3>2. started' = started + 1 /\ UNCHANGED counters
      BY <2>1 DEF InBackoff, Begin, Call
    <3>3. Cardinality(Uncounted') = Cardinality(Uncounted) + 1
      BY <1>4, <3>1, CountJoin
    <3> QED
      BY <1>1, <3>2, <3>3 DEF Accounting, counters
  <2>2. CASE CountSkip(p) \/ CountOk(p) \/ CountBroken(p) \/ CountRefused(p)
    <3>1. p \in Uncounted /\ Uncounted' = Uncounted \ {p}
      BY <1>4, <2>2 DEF CountSkip, CountOk, CountBroken, CountRefused, Goto, Uncounted, TypeOK
    <3>2. /\ UNCHANGED <<started, reported>>
          /\ \/ ntfySkipped' = ntfySkipped + 1 /\ UNCHANGED <<ntfySentOK, ntfySentFail>>
             \/ ntfySentOK' = ntfySentOK + 1 /\ UNCHANGED <<ntfySkipped, ntfySentFail>>
             \/ ntfySentFail' = ntfySentFail + 1 /\ UNCHANGED <<ntfySentOK, ntfySkipped>>
      BY <2>2 DEF CountSkip, CountOk, CountBroken, CountRefused
    <3>3. Cardinality(Uncounted') = Cardinality(Uncounted) - 1
      BY <1>4, <3>1, CountLeave
    <3> QED
      BY <1>1, <3>2, <3>3 DEF Accounting
  <2>3. CASE PostOk(p) \/ PostBroken(p) \/ PostRefused(p)
    <3>1. Uncounted' = Uncounted
      BY <1>4, <2>3 DEF PostOk, PostBroken, PostRefused, Goto, Uncounted, TypeOK
    <3>2. UNCHANGED <<started, counters>>
      BY <2>3 DEF PostOk, PostBroken, PostRefused
    <3> QED
      BY <3>1, <3>2 DEF Accounting, counters
  <2>4. CASE Clear(p) \/ Report(p) \/ Install(p)
    <3>1. Uncounted' = Uncounted
      BY <1>4, <2>4 DEF Clear, Report, Install, Goto, Uncounted, TypeOK
    <3>2. /\ UNCHANGED <<started, ntfySentOK, ntfySentFail>>
          /\ \/ UNCHANGED <<ntfySkipped, reported>>
             \/ ntfySkipped' = 0 /\ reported' = reported + ntfySkipped
      BY <2>4 DEF Clear, Report, Install, counters
    <3> QED
      BY <1>1, <3>1, <3>2 DEF Accounting
  <2> QED
    BY <1>4, <2>1, <2>2, <2>3, <2>4 DEF Publish
<1> QED
  BY <1>2, <1>3, <1>4 DEF Next

-----------------------------------------------------------------------------
(* The inductive invariant holds in every reachable state. *)
THEOREM Invariance == Spec => []IInv
<1>1. Init => IInv
  BY TypeInit, WindowInit, AccountingInit DEF IInv
<1>2. IInv /\ [Next]_vars => IInv'
  BY TypeStep, WindowStep, AccountingStep DEF IInv
<1> QED
  BY <1>1, <1>2, PTL DEF Spec

(***************************************************************************)
(* No call of a publisher is ever missing from the statistics.             *)
(***************************************************************************)
THEOREM AccountingTheorem == Spec => []Accounting
<1>1. IInv => Accounting
  BY DEF IInv
<1> QED
  BY <1>1, Invariance, PTL

(***************************************************************************)
(* A message passes the check only when the window the server asked for is *)
(* over, for any number of publishers and any wait times.                  *)
(***************************************************************************)
THEOREM WindowTheorem == Spec => WindowRespected
<1>1. ASSUME IInv, [Next]_vars, NEW p \in Publishers, pc[p] = "idle", pc'[p] = "post"
      PROVE  demand = 0
  <2>1. PICK q \in Publishers : Publish(q)
    BY <1>1 DEF Next, Tick, vars
  <2>2. Begin(q)
    BY <1>1, <2>1 DEF Publish, InBackoff, Begin, CountSkip, PostOk, PostBroken, PostRefused,
        CountOk, Clear, Report, CountBroken, CountRefused, Install, Goto, IInv, TypeOK
  <2> QED
    BY <1>1, <2>2 DEF Begin, IInv, WindowKept
<1>2. IInv /\ [Next]_vars =>
          [\A p \in Publishers : pc[p] = "idle" /\ pc'[p] = "post" => demand = 0]_vars
  BY <1>1
<1> QED
  BY <1>2, Invariance, PTL DEF Spec, WindowRespected
=============================================================================
