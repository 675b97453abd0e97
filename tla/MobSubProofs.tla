---------------------------- MODULE MobSubProofs ----------------------------
(***************************************************************************)
(* Proofs about MobSub: for any messages, subscriptions, lost connections, *)
(* restarts and waits, the mobile side keeps its promises.                 *)
(***************************************************************************)
EXTENDS MCNtfyMobSub, NtfyPublishProofs

-----------------------------------------------------------------------------
(* The inductive invariant, in four parts.                                 *)

Receiver ==
    /\ wPc \in {"dial", "hello", "read", "handle", "ack", "wait"}
    /\ wTimes \in [Notes -> 0..2]
    /\ wSending \in [Notes -> Nat]
    /\ wPosted \subseteq Notes /\ wServer \subseteq wPosted
    /\ wInbox \subseteq wServer
    /\ wPc \in {"dial", "hello", "wait"} => wInbox = {}

(* The notification the loop is at is still stored, and not delivered any  *)
(* more; once it is to be acknowledged it was handled, or cannot be.       *)
Taken(n) == wSending[n] > 0 \/ n \in wDone \cup wUnfit \cup wLost

Current ==
    /\ wPc \in {"handle", "ack"} => wNote \in wServer /\ wNote \notin wInbox
    /\ wPc = "ack" => Taken(wNote)

(* What is forgotten was taken; what is stored and was handed over has an  *)
(* ack that got lost, or is about to be sent.                              *)
Storage ==
    /\ \A n \in wPosted : n \notin wServer => Taken(n)
    /\ \A n \in Notes : wTimes[n] > 0 => n \in wPosted
    /\ \A n \in wServer : wTimes[n] > 0 => n \in wRetried \/ (wPc = "ack" /\ n = wNote)
    /\ \A n \in Notes : wTimes[n] = 2 => n \in wRetried

Registry ==
    /\ wSince \in Nat
    /\ wAge \in [WAuths -> Nat]
    /\ \A a \in WAuths : wSubs[a] # 0 => wAge[a] <= WTtl + wSince

MInv == Receiver /\ Current /\ Storage /\ Registry

received == <<wPlan, wPosted, wServer, wPc, wInbox, wNote, wOutcome, wExcuses>>

-----------------------------------------------------------------------------
(* The invariant implies the property. *)
LEMMA MobSubHonestFromInv == MInv => MobSubHonest
<1> SUFFICES ASSUME MInv PROVE MobSubHonest
  OBVIOUS
<1>1. ReceivedHonest
  BY DEF MInv, Storage, Taken, ReceivedHonest, Forgotten
<1>2. RegistryFresh
  BY DEF MInv, Registry, RegistryFresh, Known
<1> QED
  BY <1>1, <1>2 DEF MobSubHonest

(* A step of the registry or of a push leaves the receiver alone. *)
LEMMA ReceivedFrame ==
    ASSUME MInv, UNCHANGED received
    PROVE  Receiver' /\ Current' /\ Storage'
<1>1. wSending' = wSending /\ wTimes' = wTimes /\ wDone' = wDone /\ wUnfit' = wUnfit
      /\ wLost' = wLost /\ wRetried' = wRetried
  BY DEF received, wOutcome, wExcuses
<1>2. Notes' = Notes
  BY DEF received, Notes
<1>3. Receiver'
  BY <1>2, <1>1 DEF MInv, Receiver, received
<1>4. Current'
  BY <1>1 DEF MInv, Current, Taken, received
<1>5. Storage'
  BY <1>1, <1>2 DEF MInv, Storage, Taken, received
<1> QED
  BY <1>3, <1>4, <1>5

(* A step of the receiver leaves the registry alone. *)
LEMMA RegistryFrame == MInv /\ UNCHANGED wRegistry => Registry'
BY DEF MInv, Registry, wRegistry

(* The invariant holds when the process starts. *)
LEMMA MobSubStarts == MobSubInit => MInv
<1> SUFFICES ASSUME MobSubInit PROVE MInv
  OBVIOUS
<1>1. Receiver /\ Current
  BY DEF MobSubInit, Receiver, Current
<1>2. Storage
  BY DEF MobSubInit, Storage
<1>3. Registry
  BY MobSubAssumption DEF MobSubInit, Registry
<1> QED
  BY <1>1, <1>2, <1>3 DEF MInv

-----------------------------------------------------------------------------
(* What a message that is handed over becomes: counted once more, taken,   *)
(* and nothing else is lost from sight.                                    *)
LEMMA Handled ==
    ASSUME MInv, NEW n \in Notes, HandleMobSubMsg(n), wLost' = wLost, wPlan' = wPlan
    PROVE  /\ wTimes' \in [Notes -> 0..2]
           /\ wTimes'[n] > 0
           /\ wTimes'[n] = 2 => wTimes[n] > 0
           /\ \A m \in Notes : m # n => wTimes'[m] = wTimes[m]
           /\ wSending' \in [Notes -> Nat]
           /\ Taken(n)'
           /\ \A m \in Notes : Taken(m) => Taken(m)'
<1>1. wTimes[n] \in 0..2 /\ wTimes \in [Notes -> 0..2] /\ wSending \in [Notes -> Nat]
  BY DEF MInv, Receiver
<1>2. wTimes' = [wTimes EXCEPT ![n] = IF @ < 2 THEN @ + 1 ELSE @]
  BY DEF HandleMobSubMsg
<1>3. /\ wTimes' \in [Notes -> 0..2]
      /\ wTimes'[n] > 0
      /\ wTimes'[n] = 2 => wTimes[n] > 0
  BY <1>1, <1>2
<1>4. \A m \in Notes : m # n => wTimes'[m] = wTimes[m]
  BY <1>1, <1>2
<1>5. CASE wSending' = [wSending EXCEPT ![n] = @ + 1] /\ wDone' = wDone /\ wUnfit' = wUnfit
  <2>1. wSending[n] \in Nat /\ wSending'[n] = wSending[n] + 1
    BY <1>1, <1>5
  <2>2. wSending' \in [Notes -> Nat]
    BY <1>1, <1>5, <2>1
  <2>3. \A m \in Notes : m # n => wSending'[m] = wSending[m]
    BY <1>1, <1>5
  <2>4. wSending'[n] > 0
    BY <2>1
  <2> QED
    BY <1>3, <1>4, <1>5, <2>2, <2>3, <2>4 DEF Taken
<1>6. CASE wSending' = wSending /\ wDone' = wDone /\ wUnfit' = wUnfit \cup {n}
  BY <1>1, <1>3, <1>4, <1>6 DEF Taken
<1>7. CASE wSending' = wSending /\ wDone' = wDone \cup {n} /\ wUnfit' = wUnfit
  BY <1>1, <1>3, <1>4, <1>7 DEF Taken
<1> QED
  BY <1>5, <1>6, <1>7 DEF HandleMobSubMsg

(* A goroutine that returns leaves its message dispatched. *)
LEMMA DispatchedStep == ASSUME MInv, NEW n \in Notes, Dispatched(n) PROVE MInv'
<1>1. /\ wSending' = [wSending EXCEPT ![n] = @ - 1] /\ wSending[n] > 0
      /\ wDone' = wDone \cup {n}
      /\ wPlan' = wPlan /\ wPosted' = wPosted /\ wServer' = wServer /\ wPc' = wPc
      /\ wInbox' = wInbox /\ wNote' = wNote /\ wTimes' = wTimes /\ wUnfit' = wUnfit
      /\ wLost' = wLost /\ wRetried' = wRetried /\ UNCHANGED wRegistry
  BY DEF Dispatched, wMozilla, wExcuses
<1>2. Notes' = Notes
  BY <1>1 DEF Notes
<1>3. wSending \in [Notes -> Nat] /\ wSending[n] \in Nat
  BY DEF MInv, Receiver
<1>4. wSending' \in [Notes -> Nat]
  <2>1. wSending[n] - 1 \in Nat
    BY <1>1, <1>3
  <2> QED
    BY <1>1, <1>3, <2>1
<1>5. \A m \in Notes : Taken(m) => Taken(m)'
  <2>1. \A m \in Notes : m # n => wSending'[m] = wSending[m]
    BY <1>1, <1>3
  <2> QED
    BY <1>1, <2>1 DEF Taken
<1>6. Receiver'
  BY <1>1, <1>2, <1>4 DEF MInv, Receiver
<1>7. Current'
  BY <1>1, <1>5 DEF MInv, Current, Receiver
<1>8. Storage'
  BY <1>1, <1>2, <1>5 DEF MInv, Storage, Receiver
<1> QED
  BY <1>1, <1>6, <1>7, <1>8, RegistryFrame DEF MInv

(* What is stored was never handed over. *)
LEMMA StoreStep == ASSUME MInv, NEW n \in Notes, Store(n) PROVE MInv'
<1>1. /\ n \notin wPosted
      /\ wPosted' = wPosted \cup {n} /\ wServer' = wServer \cup {n}
      /\ wInbox' = (IF wPc \in {"read", "handle", "ack"} THEN wInbox \cup {n} ELSE wInbox)
      /\ wPlan' = wPlan /\ wPc' = wPc /\ wNote' = wNote /\ wTimes' = wTimes
      /\ wSending' = wSending /\ wDone' = wDone /\ wUnfit' = wUnfit
      /\ wLost' = wLost /\ wRetried' = wRetried /\ UNCHANGED wRegistry
  BY DEF Store, wOutcome, wExcuses
<1>2. Notes' = Notes
  BY <1>1 DEF Notes
<1>3. wTimes[n] \in 0..2 /\ ~ (wTimes[n] > 0)
  BY <1>1 DEF MInv, Storage, Receiver
<1>4. \A m : Taken(m)' <=> Taken(m)
  BY <1>1 DEF Taken
<1>5. Receiver'
  BY <1>1, <1>2 DEF MInv, Receiver
<1>6. Current'
  BY <1>1, <1>4 DEF MInv, Current, Receiver
<1>7. Storage'
  BY <1>1, <1>2, <1>3, <1>4 DEF MInv, Storage, Receiver
<1> QED
  BY <1>1, <1>5, <1>6, <1>7, RegistryFrame DEF MInv

(* What expires is lost, and was not being read. *)
LEMMA ExpireStep == ASSUME MInv, NEW n \in Notes, WExpire(n) PROVE MInv'
<1>1. /\ n \in wServer /\ n \notin wInbox /\ wNote # n
      /\ wServer' = wServer \ {n} /\ wLost' = wLost \cup {n}
      /\ wPlan' = wPlan /\ wPosted' = wPosted /\ wPc' = wPc /\ wInbox' = wInbox
      /\ wNote' = wNote /\ wTimes' = wTimes /\ wSending' = wSending /\ wDone' = wDone
      /\ wUnfit' = wUnfit /\ wRetried' = wRetried /\ UNCHANGED wRegistry
  BY DEF WExpire, wOutcome
<1>2. Notes' = Notes
  BY <1>1 DEF Notes
<1>3. /\ \A m : Taken(m) => Taken(m)'
      /\ Taken(n)'
  BY <1>1 DEF Taken
<1>4. Receiver'
  BY <1>1, <1>2 DEF MInv, Receiver
<1>5. Current'
  BY <1>1, <1>3 DEF MInv, Current
<1>6. Storage'
  BY <1>1, <1>2, <1>3 DEF MInv, Storage
<1> QED
  BY <1>1, <1>4, <1>5, <1>6, RegistryFrame DEF MInv

(* A message on the topic is handled or lost. *)
LEMMA TopicStep == ASSUME MInv, NEW n \in Notes, NtfyMessage(n) PROVE MInv'
<1>1. /\ n \notin wPosted /\ wPosted' = wPosted \cup {n}
      /\ wPlan' = wPlan /\ wServer' = wServer /\ wPc' = wPc /\ wInbox' = wInbox
      /\ wNote' = wNote /\ wRetried' = wRetried /\ UNCHANGED wRegistry
  BY DEF NtfyMessage, wMozilla
<1>2. Notes' = Notes
  BY <1>1 DEF Notes
<1>3. /\ wTimes \in [Notes -> 0..2] /\ wSending \in [Notes -> Nat]
      /\ ~ (wTimes[n] > 0)
  BY <1>1 DEF MInv, Storage, Receiver
<1>4. /\ wTimes' \in [Notes -> 0..2]
      /\ wTimes'[n] = 2 => wTimes[n] > 0
      /\ \A m \in Notes : m # n => wTimes'[m] = wTimes[m]
      /\ wSending' \in [Notes -> Nat]
      /\ Taken(n)'
      /\ \A m \in Notes : Taken(m) => Taken(m)'
  <2>1. CASE HandleMobSubMsg(n) /\ wLost' = wLost
    BY <1>1, <2>1, Handled
  <2>2. CASE wLost' = wLost \cup {n} /\ UNCHANGED wOutcome
    <3>1. wTimes' = wTimes /\ wSending' = wSending /\ wDone' = wDone /\ wUnfit' = wUnfit
      BY <2>2 DEF wOutcome
    <3> QED
      BY <1>3, <2>2, <3>1 DEF Taken
  <2> QED
    BY <2>1, <2>2 DEF NtfyMessage
<1>5. Receiver'
  BY <1>1, <1>2, <1>4 DEF MInv, Receiver
<1>6. n \notin wServer /\ wServer \subseteq Notes
  BY <1>1 DEF MInv, Receiver
<1>7. Current'
  BY <1>1, <1>4, <1>6 DEF MInv, Current
<1>8. Storage'
  <2>1. \A m \in wPosted' : m \notin wServer' => Taken(m)'
    BY <1>1, <1>4 DEF MInv, Storage, Receiver
  <2>2. \A m \in Notes : wTimes'[m] > 0 => m \in wPosted'
    BY <1>1, <1>4 DEF MInv, Storage
  <2>3. \A m \in wServer' : wTimes'[m] > 0 => m \in wRetried' \/ (wPc' = "ack" /\ m = wNote')
    BY <1>1, <1>4, <1>6 DEF MInv, Storage
  <2>4. \A m \in Notes : wTimes'[m] = 2 => m \in wRetried'
    BY <1>1, <1>3, <1>4 DEF MInv, Storage
  <2> QED
    BY <1>2, <2>1, <2>2, <2>3, <2>4 DEF Storage
<1> QED
  BY <1>1, <1>5, <1>7, <1>8, RegistryFrame DEF MInv

-----------------------------------------------------------------------------
(* The connection to the push service. *)

(* Dialling, waiting and the hello: everything stored is delivered, and    *)
(* what was handed over before is known to have lost its ack.              *)
LEMMA ConnectStep == ASSUME MInv, MozDial \/ MozHello \/ MozWaited PROVE MInv'
<1>1. /\ wPc \in {"dial", "hello", "wait"} /\ wPc' \in {"dial", "hello", "read"}
      /\ IF wPc' = "read" THEN wInbox' = wServer ELSE wInbox' = wInbox
      /\ wPlan' = wPlan /\ wPosted' = wPosted /\ wServer' = wServer /\ wNote' = wNote
      /\ wTimes' = wTimes /\ wSending' = wSending /\ wDone' = wDone /\ wUnfit' = wUnfit
      /\ wLost' = wLost /\ wRetried' = wRetried /\ UNCHANGED wRegistry
  BY DEF MozDial, MozHello, MozWaited, MozGoto, wOutcome, wExcuses
<1>2. Notes' = Notes
  BY <1>1 DEF Notes
<1>3. \A m : Taken(m)' <=> Taken(m)
  BY <1>1 DEF Taken
<1>4. Receiver'
  BY <1>1, <1>2 DEF MInv, Receiver
<1>5. Current'
  BY <1>1 DEF Current
<1>6. Storage'
  BY <1>1, <1>2, <1>3 DEF MInv, Storage
<1> QED
  BY <1>1, <1>4, <1>5, <1>6, RegistryFrame DEF MInv

(* A notification that is read is stored until it is acknowledged. *)
LEMMA ReadStep == ASSUME MInv, NEW n \in Notes, MozNotification(n) PROVE MInv'
<1>1. /\ n \in wInbox /\ wPc = "read"
      /\ wPc' = (IF Kind(n) = "sealed" THEN "ack" ELSE "handle")
      /\ wInbox' = wInbox \ {n} /\ wNote' = n
      /\ wUnfit' = (IF Kind(n) = "sealed" THEN wUnfit \cup {n} ELSE wUnfit)
      /\ wPlan' = wPlan /\ wPosted' = wPosted /\ wServer' = wServer
      /\ wTimes' = wTimes /\ wSending' = wSending /\ wDone' = wDone
      /\ wLost' = wLost /\ wRetried' = wRetried /\ UNCHANGED wRegistry
  BY DEF MozNotification, MozGoto, wExcuses
<1>2. Notes' = Notes
  BY <1>1 DEF Notes
<1>3. /\ \A m : Taken(m) => Taken(m)'
      /\ wPc' = "ack" => Taken(n)'
  BY <1>1 DEF Taken
<1>4. Receiver'
  BY <1>1, <1>2 DEF MInv, Receiver
<1>5. Current'
  BY <1>1, <1>3 DEF MInv, Current, Receiver
<1>6. Storage'
  BY <1>1, <1>2, <1>3 DEF MInv, Storage
<1> QED
  BY <1>1, <1>4, <1>5, <1>6, RegistryFrame DEF MInv

(* It is acknowledged only after it was handled. *)
LEMMA HandleStep == ASSUME MInv, MozHandle PROVE MInv'
<1>1. /\ wPc = "handle" /\ wPc' = "ack" /\ HandleMobSubMsg(wNote)
      /\ wPlan' = wPlan /\ wPosted' = wPosted /\ wServer' = wServer /\ wInbox' = wInbox
      /\ wNote' = wNote /\ wLost' = wLost /\ wRetried' = wRetried /\ UNCHANGED wRegistry
  BY DEF MozHandle, MozGoto, wMozilla, wExcuses
<1>2. Notes' = Notes
  BY <1>1 DEF Notes
<1>3. /\ wNote \in wServer /\ wNote \notin wInbox /\ wNote \in Notes
      /\ wServer \subseteq Notes /\ wPosted \subseteq Notes
  BY <1>1 DEF MInv, Current, Receiver
<1>4. PICK n \in Notes : n = wNote
  BY <1>3
<1>5. HandleMobSubMsg(n)
  BY <1>1, <1>4
<1>6. /\ wTimes' \in [Notes -> 0..2]
      /\ wTimes'[n] = 2 => wTimes[n] > 0
      /\ \A m \in Notes : m # n => wTimes'[m] = wTimes[m]
      /\ wSending' \in [Notes -> Nat]
      /\ Taken(n)'
      /\ \A m \in Notes : Taken(m) => Taken(m)'
  BY <1>1, <1>5, Handled
<1>7. wTimes[n] > 0 => n \in wRetried
  BY <1>1, <1>3, <1>4 DEF MInv, Storage
<1>8. Receiver'
  BY <1>1, <1>2, <1>6 DEF MInv, Receiver
<1>9. Current'
  <2>1. Taken(wNote)'
    BY <1>1, <1>4, <1>6 DEF Taken
  <2> QED
    BY <1>1, <1>3, <2>1 DEF Current, Taken
<1>10. Storage'
  <2>1. \A m \in wPosted' : m \notin wServer' => Taken(m)'
    BY <1>1, <1>3, <1>6 DEF MInv, Storage
  <2>2. \A m \in Notes : wTimes'[m] > 0 => m \in wPosted'
    <3>1. n \in wPosted
      BY <1>3, <1>4 DEF MInv, Receiver
    <3> QED
      BY <1>1, <1>6, <3>1 DEF MInv, Storage
  <2>3. \A m \in wServer' : wTimes'[m] > 0 => m \in wRetried' \/ (wPc' = "ack" /\ m = wNote')
    BY <1>1, <1>3, <1>4, <1>6 DEF MInv, Storage
  <2>4. \A m \in Notes : wTimes'[m] = 2 => m \in wRetried'
    BY <1>1, <1>6, <1>7 DEF MInv, Storage
  <2> QED
    BY <1>2, <2>1, <2>2, <2>3, <2>4 DEF Storage
<1> QED
  BY <1>1, <1>8, <1>9, <1>10, RegistryFrame DEF MInv

(* An ack that arrives removes what was taken; one that is lost is noted. *)
LEMMA AckStep == ASSUME MInv, MozAck PROVE MInv'
<1>1. /\ wPc = "ack" /\ wPc' = "read"
      /\ wPlan' = wPlan /\ wPosted' = wPosted /\ wInbox' = wInbox
      /\ wTimes' = wTimes /\ wSending' = wSending /\ wDone' = wDone /\ wUnfit' = wUnfit
      /\ wLost' = wLost /\ UNCHANGED wRegistry
      /\ \/ wServer' = wServer \ {wNote} /\ wRetried' = wRetried
         \/ wServer' = wServer /\ wRetried' = wRetried \cup {wNote}
  BY DEF MozAck, MozGoto, Unacked, wOutcome, wExcuses
<1>2. Notes' = Notes
  BY <1>1 DEF Notes
<1>3. \A m : Taken(m)' <=> Taken(m)
  BY <1>1 DEF Taken
<1>4. Receiver'
  BY <1>1, <1>2 DEF MInv, Receiver, Current
<1>5. Current'
  BY <1>1 DEF Current
<1>6. Storage'
  <2>1. \A m \in wPosted' : m \notin wServer' => Taken(m)'
    BY <1>1, <1>3 DEF MInv, Storage, Current
  <2>2. \A m \in wServer' : wTimes'[m] > 0 => m \in wRetried'
    BY <1>1 DEF MInv, Storage
  <2> QED
    BY <1>1, <1>2, <2>1, <2>2 DEF MInv, Storage
<1> QED
  BY <1>1, <1>4, <1>5, <1>6, RegistryFrame DEF MInv

(* What was handed over and not acknowledged will come again. *)
LEMMA FailsStep == ASSUME MInv, NEW stable \in BOOLEAN, MozFails(stable) PROVE MInv'
<1>1. /\ wPc \in {"dial", "hello", "read", "ack"} /\ wPc' = "wait"
      /\ wInbox' = {} /\ Unacked
      /\ wPlan' = wPlan /\ wPosted' = wPosted /\ wServer' = wServer
      /\ wTimes' = wTimes /\ wSending' = wSending /\ wDone' = wDone /\ wUnfit' = wUnfit
      /\ wLost' = wLost /\ UNCHANGED wRegistry
  BY DEF MozFails, MozGoto, wOutcome
<1>2. Notes' = Notes
  BY <1>1 DEF Notes
<1>3. \A m : Taken(m)' <=> Taken(m)
  BY <1>1 DEF Taken
<1>4. wRetried \subseteq wRetried' /\ (wPc = "ack" => wNote \in wRetried')
  BY <1>1 DEF Unacked
<1>5. Receiver'
  BY <1>1, <1>2 DEF MInv, Receiver
<1>6. Current'
  BY <1>1 DEF Current
<1>7. Storage'
  BY <1>1, <1>2, <1>3, <1>4 DEF MInv, Storage
<1> QED
  BY <1>1, <1>5, <1>6, <1>7, RegistryFrame DEF MInv

(* A restart loses the messages in goroutines, and the subscriptions. *)
LEMMA MobSubCrashStep == ASSUME MInv, MobSubCrash PROVE MInv'
<1>1. /\ wPc' = "dial" /\ wInbox' = {} /\ Unacked
      /\ wLost' = wLost \cup {n \in Notes : wSending[n] > 0}
      /\ wSending' = [n \in Notes |-> 0]
      /\ wSubs' = [a \in WAuths |-> 0] /\ wAge' = [a \in WAuths |-> 0] /\ wSince' = 0
      /\ wPlan' = wPlan /\ wPosted' = wPosted /\ wServer' = wServer
      /\ wTimes' = wTimes /\ wDone' = wDone /\ wUnfit' = wUnfit
  BY DEF MobSubCrash
<1>2. Notes' = Notes
  BY <1>1 DEF Notes
<1>3. \A m \in Notes : Taken(m) => Taken(m)'
  BY <1>1 DEF Taken
<1>4. wRetried \subseteq wRetried' /\ (wPc = "ack" => wNote \in wRetried')
  BY <1>1 DEF Unacked
<1>5. Receiver'
  BY <1>1, <1>2 DEF MInv, Receiver
<1>6. Current'
  BY <1>1 DEF Current
<1>7. Storage'
  BY <1>1, <1>2, <1>3, <1>4 DEF MInv, Storage, Receiver
<1>8. Registry'
  BY <1>1, MobSubAssumption DEF Registry
<1> QED
  BY <1>5, <1>6, <1>7, <1>8 DEF MInv

-----------------------------------------------------------------------------
(* An announcement drops what has expired, and time passes for all. *)
LEMMA RegistryStep ==
    ASSUME MInv, WTick \/ \E a \in WAuths : OnP2PTopicEvent(a)
    PROVE  MInv'
<1>1. UNCHANGED received
  BY DEF WTick, OnP2PTopicEvent, wMozilla, received
<1>2. CASE WTick
  <2>1. /\ wAge' = [a \in WAuths |-> IF wSubs[a] = 0 THEN 0 ELSE wAge[a] + 1]
        /\ wSince' = wSince + 1 /\ wSubs' = wSubs
    BY <1>2 DEF WTick
  <2>2. wSince \in Nat /\ wAge \in [WAuths -> Nat]
    BY DEF MInv, Registry
  <2>3. \A a \in WAuths : wAge[a] \in Nat /\ wAge'[a] = IF wSubs[a] = 0 THEN 0 ELSE wAge[a] + 1
    BY <2>1, <2>2
  <2>4. wAge' \in [WAuths -> Nat]
    BY <2>1, <2>2
  <2>5. \A a \in WAuths : wSubs'[a] # 0 => wAge'[a] <= WTtl + wSince'
    BY <2>1, <2>2, <2>3, MobSubAssumption DEF MInv, Registry
  <2> QED
    BY <1>1, <2>1, <2>2, <2>4, <2>5, ReceivedFrame DEF MInv, Registry
<1>3. ASSUME NEW a \in WAuths, OnP2PTopicEvent(a)
      PROVE  MInv'
  <2>1. /\ wSubs' = [b \in WAuths |-> IF b = a THEN wCounts'.announces
                                      ELSE IF b \in Expired THEN 0 ELSE wSubs[b]]
        /\ wAge' = [b \in WAuths |-> IF wSubs'[b] = 0 \/ b = a THEN 0 ELSE wAge[b]]
        /\ wSince' = 0
    BY <1>3 DEF OnP2PTopicEvent
  <2>2. wAge \in [WAuths -> Nat]
    BY DEF MInv, Registry
  <2>3. wAge' \in [WAuths -> Nat]
    BY <2>1, <2>2
  <2>4. ASSUME NEW b \in WAuths, wSubs'[b] # 0
        PROVE  wAge'[b] <= WTtl + wSince'
    <3>1. CASE b = a
      BY <2>1, <3>1, MobSubAssumption
    <3>2. CASE b # a
      <4>1. wSubs[b] # 0 /\ b \notin Expired
        BY <2>1, <2>4, <3>2
      <4>2. wAge[b] \in Nat /\ ~ (wAge[b] > WTtl)
        BY <2>2, <4>1 DEF Expired, Known
      <4>3. wAge'[b] = wAge[b]
        BY <2>1, <2>4, <3>2
      <4> QED
        BY <2>1, <4>2, <4>3, MobSubAssumption
    <3> QED
      BY <3>1, <3>2
  <2>5. Registry'
    BY <2>1, <2>3, <2>4 DEF Registry
  <2> QED
    BY <1>1, <2>5, ReceivedFrame DEF MInv
<1> QED
  BY <1>2, <1>3

(* Subscribing to the topic, pushing, and doing nothing change neither. *)
LEMMA OtherStep ==
    ASSUME MInv,
           \/ NtfySubscribe \/ NtfyEnds \/ UNCHANGED wVars
           \/ \E k \in 1..wPlan.pushes :
                 PublishMozPush(k) \/ \E s \in wPush[k] : SendMozPushSunup(k, s)
    PROVE  MInv'
<1>1. UNCHANGED received /\ UNCHANGED wRegistry
  BY DEF NtfySubscribe, NtfyEnds, PublishMozPush, SendMozPushSunup, wVars, wMozilla, received
<1> QED
  BY <1>1, ReceivedFrame, RegistryFrame DEF MInv

-----------------------------------------------------------------------------
(* The invariant holds in every state. *)
LEMMA MInvAlways == MobSubSpec => []MInv
<1>1. ASSUME MInv, [MobSubNext]_wVars
      PROVE  MInv'
  <2>1. ASSUME NEW n \in Notes,
               \/ WPost(n) \/ SelfSend(n) \/ WExpire(n) \/ NtfyMessage(n)
               \/ MozNotification(n) \/ Dispatched(n)
        PROVE  MInv'
    <3>1. CASE WPost(n) \/ SelfSend(n)
      BY <1>1, <3>1, StoreStep DEF WPost, SelfSend
    <3>2. CASE WExpire(n)
      BY <1>1, <3>2, ExpireStep
    <3>3. CASE NtfyMessage(n)
      BY <1>1, <3>3, TopicStep
    <3>4. CASE MozNotification(n)
      BY <1>1, <3>4, ReadStep
    <3>5. CASE Dispatched(n)
      BY <1>1, <3>5, DispatchedStep
    <3> QED
      BY <2>1, <3>1, <3>2, <3>3, <3>4, <3>5
  <2>2. CASE MozDial \/ MozHello \/ MozWaited
    BY <1>1, <2>2, ConnectStep
  <2>3. CASE MozHandle
    BY <1>1, <2>3, HandleStep
  <2>4. CASE MozAck
    BY <1>1, <2>4, AckStep
  <2>5. ASSUME NEW stable \in BOOLEAN, MozFails(stable)
        PROVE  MInv'
    BY <1>1, <2>5, FailsStep
  <2>6. CASE MobSubCrash
    BY <1>1, <2>6, MobSubCrashStep
  <2>7. CASE WTick \/ \E a \in WAuths : OnP2PTopicEvent(a)
    BY <1>1, <2>7, RegistryStep
  <2>8. CASE \/ NtfySubscribe \/ NtfyEnds \/ UNCHANGED wVars
             \/ \E k \in 1..wPlan.pushes :
                   PublishMozPush(k) \/ \E s \in wPush[k] : SendMozPushSunup(k, s)
    BY <1>1, <2>8, OtherStep
  <2> QED
    BY <1>1, <2>1, <2>2, <2>3, <2>4, <2>5, <2>6, <2>7, <2>8 DEF MobSubNext
<1> QED
  BY <1>1, MobSubStarts, PTL DEF MobSubSpec

(* A notification from the push service is acknowledged only after it was  *)
(* handled, lost or repeated only as ReceivedHonest says, and an expired   *)
(* subscription survives no announcement: for any messages, connections    *)
(* that break and restarts (mobsubMozillaOnce, handleMobSubMsg,            *)
(* onP2PTopicEvent).                                                       *)
THEOREM MobSubTheorem == MobSubSpec => []MobSubHonest
BY MInvAlways, MobSubHonestFromInv, PTL

-----------------------------------------------------------------------------
(* The values of the variables, in parts.  A message is handed to a        *)
(* goroutine once more only when a connection broke or the process started *)
(* again since, so what breaks bounds the goroutines that send it.         *)
WCounted ==
    /\ wPlan \in WPlans
    /\ wCounts \in [breaks: 0..wPlan.breaks, crashes: 0..wPlan.crashes,
                    ticks: 0..wPlan.ticks, announces: 0..wPlan.announces]
WWaiting == wBackoff \in WMinBackoff..(2 * WMaxBackoff) /\ wTopic \in BOOLEAN
WMarked ==
    /\ wNote \in Notes \cup {0}
    /\ wDone \subseteq Notes /\ wUnfit \subseteq Notes /\ wLost \subseteq Notes
    /\ wRetried \subseteq Notes
Broken == wCounts.breaks + wCounts.crashes
WSent ==
    /\ \A n \in Notes : wSending[n] > 0 => n \in wPosted
    /\ \A n \in Notes : wSending[n] <= Broken + 1
    /\ \A n \in wServer : wSending[n] <= Broken \/ (wPc = "ack" /\ n = wNote)
WSubscribed ==
    /\ wSubs \in [WAuths -> 0..wCounts.announces]
    /\ wAge \in [WAuths -> 0..wCounts.ticks] /\ wSince \in 0..wCounts.ticks
WPushed == wPush \in [1..wPlan.pushes -> SUBSET (WAuths \X Nat)]

WTyped == MInv /\ WCounted /\ WWaiting /\ WMarked /\ WSent /\ WSubscribed /\ WPushed

(* The bounds of a behaviour are numbers. *)
LEMMA WBounds ==
    ASSUME WCounted
    PROVE  /\ wPlan.breaks \in Nat /\ wPlan.crashes \in Nat /\ wPlan.ticks \in Nat
           /\ wPlan.announces \in Nat /\ wPlan.pushes \in Nat
           /\ wCounts.breaks \in 0..wPlan.breaks /\ wCounts.crashes \in 0..wPlan.crashes
           /\ wCounts.ticks \in 0..wPlan.ticks /\ wCounts.announces \in 0..wPlan.announces
BY MobSubPlans DEF WCounted

(* What counting does to each counter. *)
LEMMA WCountGrows ==
    ASSUME WCounted,
           \/ WCount("breaks") \/ WCount("crashes") \/ WCount("ticks") \/ WCount("announces")
           \/ UNCHANGED wCounts
    PROVE  /\ wCounts'.breaks = IF WCount("breaks") THEN wCounts.breaks + 1 ELSE wCounts.breaks
           /\ wCounts'.crashes = IF WCount("crashes") THEN wCounts.crashes + 1 ELSE wCounts.crashes
           /\ wCounts'.ticks = IF WCount("ticks") THEN wCounts.ticks + 1 ELSE wCounts.ticks
           /\ wCounts'.announces = IF WCount("announces") THEN wCounts.announces + 1
                                   ELSE wCounts.announces
           /\ wCounts' \in [breaks: Nat, crashes: Nat, ticks: Nat, announces: Nat]
<1>1. /\ wCounts.breaks \in Nat /\ wCounts.crashes \in Nat
      /\ wCounts.ticks \in Nat /\ wCounts.announces \in Nat
  BY WBounds
<1>2. wCounts \in [breaks: Nat, crashes: Nat, ticks: Nat, announces: Nat]
  BY <1>1 DEF WCounted
<1>3. CASE WCount("breaks")
  BY <1>1, <1>2, <1>3 DEF WCount
<1>4. CASE WCount("crashes")
  BY <1>1, <1>2, <1>4 DEF WCount
<1>5. CASE WCount("ticks")
  BY <1>1, <1>2, <1>5 DEF WCount
<1>6. CASE WCount("announces")
  BY <1>1, <1>2, <1>6 DEF WCount
<1>7. CASE UNCHANGED wCounts
  BY <1>1, <1>2, <1>7 DEF WCount
<1> QED
  BY <1>3, <1>4, <1>5, <1>6, <1>7

(* What is counted stays within its bounds. *)
LEMMA WCountOf ==
    ASSUME WCounted, wPlan' = wPlan,
           \/ WCount("breaks") \/ WCount("crashes") \/ WCount("ticks") \/ WCount("announces")
           \/ UNCHANGED wCounts
    PROVE  WCounted'
<1>1. /\ wPlan.breaks \in Nat /\ wPlan.crashes \in Nat /\ wPlan.ticks \in Nat
      /\ wPlan.announces \in Nat
      /\ wCounts.breaks \in 0..wPlan.breaks /\ wCounts.crashes \in 0..wPlan.crashes
      /\ wCounts.ticks \in 0..wPlan.ticks /\ wCounts.announces \in 0..wPlan.announces
  BY WBounds
<1>2. CASE WCount("breaks")
  BY <1>1, <1>2 DEF WCounted, WCount
<1>3. CASE WCount("crashes")
  BY <1>1, <1>3 DEF WCounted, WCount
<1>4. CASE WCount("ticks")
  BY <1>1, <1>4 DEF WCounted, WCount
<1>5. CASE WCount("announces")
  BY <1>1, <1>5 DEF WCounted, WCount
<1>6. CASE UNCHANGED wCounts
  BY <1>6 DEF WCounted
<1> QED
  BY <1>2, <1>3, <1>4, <1>5, <1>6

(* Every action counts within the bounds of the behaviour. *)
LEMMA WCountedStep == WTyped /\ [MobSubNext]_wVars => WCounted'
<1> SUFFICES ASSUME WTyped, [MobSubNext]_wVars PROVE WCounted'
  OBVIOUS
<1> USE DEF WTyped
<1>1. ASSUME NEW n \in Notes, Store(n)
      PROVE  WCounted'
  BY <1>1, WCountOf DEF Store
<1>2. ASSUME NEW n \in Notes, WExpire(n)
      PROVE  WCounted'
  BY <1>2, WCountOf DEF WExpire
<1>3. ASSUME NEW n \in Notes, NtfyMessage(n)
      PROVE  WCounted'
  BY <1>3, WCountOf DEF NtfyMessage
<1>4. ASSUME NEW n \in Notes, MozNotification(n)
      PROVE  WCounted'
  BY <1>4, WCountOf DEF MozNotification, MozGoto
<1>5. ASSUME NEW n \in Notes, Dispatched(n)
      PROVE  WCounted'
  BY <1>5, WCountOf DEF Dispatched
<1>6. CASE NtfySubscribe
  BY <1>6, WCountOf DEF NtfySubscribe
<1>7. CASE NtfyEnds
  BY <1>7, WCountOf DEF NtfyEnds
<1>8. CASE MozDial
  BY <1>8, WCountOf DEF MozDial, MozGoto
<1>9. CASE MozHello
  BY <1>9, WCountOf DEF MozHello, MozGoto
<1>10. CASE MozHandle
  BY <1>10, WCountOf DEF MozHandle, MozGoto
<1>11. CASE MozAck
  BY <1>11, WCountOf DEF MozAck, MozGoto
<1>12. CASE MozWaited
  BY <1>12, WCountOf DEF MozWaited, MozGoto
<1>13. ASSUME NEW stable \in BOOLEAN, MozFails(stable)
      PROVE  WCounted'
  BY <1>13, WCountOf DEF MozFails, MozGoto
<1>14. ASSUME NEW a \in WAuths, OnP2PTopicEvent(a)
      PROVE  WCounted'
  BY <1>14, WCountOf DEF OnP2PTopicEvent
<1>15. CASE WTick
  BY <1>15, WCountOf DEF WTick
<1>16. ASSUME NEW k \in 1..wPlan.pushes, PublishMozPush(k)
      PROVE  WCounted'
  BY <1>16, WCountOf DEF PublishMozPush
<1>17. ASSUME NEW k \in 1..wPlan.pushes, NEW s \in wPush[k], SendMozPushSunup(k, s)
      PROVE  WCounted'
  BY <1>17, WCountOf DEF SendMozPushSunup
<1>18. CASE MobSubCrash
  BY <1>18, WCountOf DEF MobSubCrash
<1>19. CASE UNCHANGED wVars
  BY <1>19, WCountOf DEF wVars
<1> QED
  BY <1>1, <1>2, <1>3, <1>4, <1>5, <1>6, <1>7, <1>8, <1>9, <1>10, <1>11, <1>12, <1>13, <1>14,
     <1>15, <1>16, <1>17, <1>18, <1>19
     DEF MobSubNext, WPost, SelfSend

(* The wait grows up to twice the maximum. *)
LEMMA WWaitingStep == WTyped /\ [MobSubNext]_wVars => WWaiting'
<1> SUFFICES ASSUME WTyped, [MobSubNext]_wVars PROVE WWaiting'
  OBVIOUS
<1> USE DEF WTyped
<1>1. ASSUME NEW n \in Notes, Store(n)
      PROVE  WWaiting'
  BY <1>1 DEF Store, wMozilla, WWaiting
<1>2. ASSUME NEW n \in Notes, WExpire(n)
      PROVE  WWaiting'
  BY <1>2 DEF WExpire, wMozilla, WWaiting
<1>3. ASSUME NEW n \in Notes, NtfyMessage(n)
      PROVE  WWaiting'
  BY <1>3 DEF NtfyMessage, wMozilla, WWaiting
<1>4. ASSUME NEW n \in Notes, MozNotification(n)
      PROVE  WWaiting'
  BY <1>4 DEF MozNotification, MozGoto, wMozilla, WWaiting
<1>5. ASSUME NEW n \in Notes, Dispatched(n)
      PROVE  WWaiting'
  BY <1>5 DEF Dispatched, wMozilla, WWaiting
<1>6. CASE NtfySubscribe
  BY <1>6 DEF NtfySubscribe, wMozilla, WWaiting
<1>7. CASE NtfyEnds
  BY <1>7 DEF NtfyEnds, wMozilla, WWaiting
<1>8. CASE MozDial
  BY <1>8 DEF MozDial, MozGoto, wMozilla, WWaiting
<1>9. CASE MozHello
  BY <1>9 DEF MozHello, MozGoto, wMozilla, WWaiting
<1>10. CASE MozHandle
  BY <1>10 DEF MozHandle, MozGoto, wMozilla, WWaiting
<1>11. CASE MozAck
  BY <1>11 DEF MozAck, MozGoto, wMozilla, WWaiting
<1>12. CASE MozWaited
  <2>1. wBackoff \in WMinBackoff..(2 * WMaxBackoff) /\ WMinBackoff \in Nat /\ WMaxBackoff \in Nat
    BY MobSubAssumption DEF WWaiting
  <2>2. wBackoff' = (IF wBackoff < WMaxBackoff THEN 2 * wBackoff ELSE wBackoff) /\ wTopic' = wTopic
    BY <1>12 DEF MozWaited, MozGoto
  <2>3. wBackoff' \in WMinBackoff..(2 * WMaxBackoff)
    BY <2>1, <2>2
  <2> QED
    BY <2>2, <2>3 DEF WWaiting
<1>13. ASSUME NEW stable \in BOOLEAN, MozFails(stable)
      PROVE  WWaiting'
  <2>1. WMinBackoff \in WMinBackoff..(2 * WMaxBackoff)
    BY MobSubAssumption
  <2>2. wBackoff' \in {wBackoff, WMinBackoff} /\ wTopic' = wTopic
    BY <1>13 DEF MozFails, MozGoto
  <2> QED
    BY <2>1, <2>2 DEF WWaiting
<1>14. ASSUME NEW a \in WAuths, OnP2PTopicEvent(a)
      PROVE  WWaiting'
  BY <1>14 DEF OnP2PTopicEvent, wMozilla, WWaiting
<1>15. CASE WTick
  BY <1>15 DEF WTick, wMozilla, WWaiting
<1>16. ASSUME NEW k \in 1..wPlan.pushes, PublishMozPush(k)
      PROVE  WWaiting'
  BY <1>16 DEF PublishMozPush, wMozilla, WWaiting
<1>17. ASSUME NEW k \in 1..wPlan.pushes, NEW s \in wPush[k], SendMozPushSunup(k, s)
      PROVE  WWaiting'
  BY <1>17 DEF SendMozPushSunup, wMozilla, WWaiting
<1>18. CASE MobSubCrash
  <2>1. WMinBackoff \in WMinBackoff..(2 * WMaxBackoff)
    BY MobSubAssumption
  <2> QED
    BY <1>18, <2>1 DEF MobSubCrash, WWaiting
<1>19. CASE UNCHANGED wVars
  BY <1>19 DEF wVars, wMozilla, WWaiting
<1> QED
  BY <1>1, <1>2, <1>3, <1>4, <1>5, <1>6, <1>7, <1>8, <1>9, <1>10, <1>11, <1>12, <1>13, <1>14,
     <1>15, <1>16, <1>17, <1>18, <1>19
     DEF MobSubNext, WPost, SelfSend

(* What is noted is noted of a message. *)
LEMMA WMarkedStep == WTyped /\ [MobSubNext]_wVars => WMarked'
<1> SUFFICES ASSUME WTyped, [MobSubNext]_wVars PROVE WMarked'
  OBVIOUS
<1> USE DEF WTyped
<1>1. ASSUME NEW n \in Notes, Store(n)
      PROVE  WMarked'
  <2>1. Notes' = Notes
    BY <1>1 DEF Store, Notes
  <2> QED
    BY <1>1, <2>1 DEF Store, wOutcome, wExcuses, WMarked
<1>2. ASSUME NEW n \in Notes, WExpire(n)
      PROVE  WMarked'
  <2>1. Notes' = Notes
    BY <1>2 DEF WExpire, Notes
  <2> QED
    BY <1>2, <2>1 DEF WExpire, wOutcome, wMozilla, wExcuses, WMarked
<1>3. ASSUME NEW n \in Notes, NtfyMessage(n)
      PROVE  WMarked'
  <2>1. Notes' = Notes
    BY <1>3 DEF NtfyMessage, Notes
  <2>2. wDone' \subseteq wDone \cup {n} /\ wUnfit' \subseteq wUnfit \cup {n} /\ wLost' \subseteq wLost \cup {n}
    BY <1>3 DEF NtfyMessage, HandleMobSubMsg, wOutcome
  <2>3. wNote' = wNote /\ wRetried' = wRetried
    BY <1>3 DEF NtfyMessage, wMozilla
  <2> QED
    BY <2>1, <2>2, <2>3 DEF WMarked
<1>4. ASSUME NEW n \in Notes, MozNotification(n)
      PROVE  WMarked'
  <2>1. Notes' = Notes
    BY <1>4 DEF MozNotification, MozGoto, Notes
  <2> QED
    BY <1>4, <2>1 DEF MozNotification, MozGoto, wOutcome, wExcuses, WMarked
<1>5. ASSUME NEW n \in Notes, Dispatched(n)
      PROVE  WMarked'
  <2>1. Notes' = Notes
    BY <1>5 DEF Dispatched, Notes
  <2> QED
    BY <1>5, <2>1 DEF Dispatched, wOutcome, wMozilla, wExcuses, WMarked
<1>6. CASE NtfySubscribe
  <2>1. Notes' = Notes
    BY <1>6 DEF NtfySubscribe, Notes
  <2> QED
    BY <1>6, <2>1 DEF NtfySubscribe, wMozilla, wOutcome, wExcuses, WMarked
<1>7. CASE NtfyEnds
  <2>1. Notes' = Notes
    BY <1>7 DEF NtfyEnds, Notes
  <2> QED
    BY <1>7, <2>1 DEF NtfyEnds, wMozilla, wOutcome, wExcuses, WMarked
<1>8. CASE MozDial
  <2>1. Notes' = Notes
    BY <1>8 DEF MozDial, MozGoto, Notes
  <2> QED
    BY <1>8, <2>1 DEF MozDial, MozGoto, wMozilla, wOutcome, wExcuses, WMarked
<1>9. CASE MozHello
  <2>1. Notes' = Notes
    BY <1>9 DEF MozHello, MozGoto, Notes
  <2> QED
    BY <1>9, <2>1 DEF MozHello, MozGoto, wMozilla, wOutcome, wExcuses, WMarked
<1>10. CASE MozHandle
  <2>1. Notes' = Notes
    BY <1>10 DEF MozHandle, MozGoto, Notes
  <2>2. wNote \in Notes
    BY <1>10 DEF MozHandle, MozGoto, MInv, Current, Receiver
  <2>3. wDone' \subseteq wDone \cup {wNote} /\ wUnfit' \subseteq wUnfit \cup {wNote}
    BY <1>10 DEF MozHandle, HandleMobSubMsg
  <2>4. wNote' = wNote /\ wRetried' = wRetried /\ wLost' = wLost
    BY <1>10 DEF MozHandle, wMozilla, wExcuses
  <2> QED
    BY <2>1, <2>2, <2>3, <2>4 DEF WMarked
<1>11. CASE MozAck
  <2>1. Notes' = Notes
    BY <1>11 DEF MozAck, MozGoto, Notes
  <2>2. wPc = "ack" => wNote \in Notes
    BY DEF MInv, Current, Receiver
  <2>3. wRetried' \subseteq Notes
    BY <1>11, <2>2 DEF MozAck, MozGoto, Unacked, wExcuses, WMarked
  <2>4. wLost' \subseteq Notes /\ wNote' = 0
    BY <1>11 DEF MozAck, MozGoto, wExcuses, WMarked
  <2>5. wDone' = wDone /\ wUnfit' = wUnfit
    BY <1>11 DEF MozAck, MozGoto, wOutcome
  <2> QED
    BY <2>1, <2>3, <2>4, <2>5 DEF WMarked
<1>12. CASE MozWaited
  <2>1. Notes' = Notes
    BY <1>12 DEF MozWaited, MozGoto, Notes
  <2> QED
    BY <1>12, <2>1 DEF MozWaited, MozGoto, wMozilla, wOutcome, wExcuses, WMarked
<1>13. ASSUME NEW stable \in BOOLEAN, MozFails(stable)
      PROVE  WMarked'
  <2>1. Notes' = Notes
    BY <1>13 DEF MozFails, MozGoto, Notes
  <2>2. wPc = "ack" => wNote \in Notes
    BY DEF MInv, Current, Receiver
  <2>3. wRetried' \subseteq Notes
    BY <1>13, <2>2 DEF MozFails, MozGoto, Unacked, wExcuses, WMarked
  <2>4. wLost' \subseteq Notes /\ wNote' = 0
    BY <1>13 DEF MozFails, MozGoto, wExcuses, WMarked
  <2>5. wDone' = wDone /\ wUnfit' = wUnfit
    BY <1>13 DEF MozFails, MozGoto, wOutcome
  <2> QED
    BY <2>1, <2>3, <2>4, <2>5 DEF WMarked
<1>14. ASSUME NEW a \in WAuths, OnP2PTopicEvent(a)
      PROVE  WMarked'
  <2>1. Notes' = Notes
    BY <1>14 DEF OnP2PTopicEvent, Notes
  <2> QED
    BY <1>14, <2>1 DEF OnP2PTopicEvent, wMozilla, wOutcome, wExcuses, WMarked
<1>15. CASE WTick
  <2>1. Notes' = Notes
    BY <1>15 DEF WTick, Notes
  <2> QED
    BY <1>15, <2>1 DEF WTick, wMozilla, wOutcome, wExcuses, WMarked
<1>16. ASSUME NEW k \in 1..wPlan.pushes, PublishMozPush(k)
      PROVE  WMarked'
  <2>1. Notes' = Notes
    BY <1>16 DEF PublishMozPush, Notes
  <2> QED
    BY <1>16, <2>1 DEF PublishMozPush, wMozilla, wOutcome, wExcuses, WMarked
<1>17. ASSUME NEW k \in 1..wPlan.pushes, NEW s \in wPush[k], SendMozPushSunup(k, s)
      PROVE  WMarked'
  <2>1. Notes' = Notes
    BY <1>17 DEF SendMozPushSunup, Notes
  <2> QED
    BY <1>17, <2>1 DEF SendMozPushSunup, wMozilla, wOutcome, wExcuses, WMarked
<1>18. CASE MobSubCrash
  <2>1. Notes' = Notes
    BY <1>18 DEF MobSubCrash, Notes
  <2>2. wPc = "ack" => wNote \in Notes
    BY DEF MInv, Current, Receiver
  <2>3. wRetried' \subseteq Notes
    BY <1>18, <2>2 DEF MobSubCrash, Unacked, wExcuses, WMarked
  <2>4. wLost' \subseteq Notes /\ wNote' = 0
    BY <1>18 DEF MobSubCrash, wExcuses, WMarked
  <2>5. wDone' = wDone /\ wUnfit' = wUnfit
    BY <1>18 DEF MobSubCrash, wOutcome
  <2> QED
    BY <2>1, <2>3, <2>4, <2>5 DEF WMarked
<1>19. CASE UNCHANGED wVars
  <2>1. Notes' = Notes
    BY <1>19 DEF wVars, Notes
  <2> QED
    BY <1>19, <2>1 DEF wVars, wMozilla, wOutcome, wExcuses, WMarked
<1> QED
  BY <1>1, <1>2, <1>3, <1>4, <1>5, <1>6, <1>7, <1>8, <1>9, <1>10, <1>11, <1>12, <1>13, <1>14,
     <1>15, <1>16, <1>17, <1>18, <1>19
     DEF MobSubNext, WPost, SelfSend

(* Only what broke makes a message be handed over again. *)
LEMMA WSentStep == WTyped /\ [MobSubNext]_wVars => WSent'
<1> SUFFICES ASSUME WTyped, [MobSubNext]_wVars PROVE WSent'
  OBVIOUS
<1> USE DEF WTyped
<1>1. ASSUME NEW n \in Notes, Store(n)
      PROVE  WSent'
  <2>1. Notes' = Notes /\ wSending \in [Notes -> Nat] /\ wPosted \subseteq Notes /\ wServer \subseteq wPosted
    BY <1>1 DEF Store, Notes, MInv, Receiver
  <2>2. wCounts.breaks \in Nat /\ wCounts.crashes \in Nat
    BY WBounds
  <2>3. Broken' = Broken /\ Broken \in Nat
    BY <1>1, <2>2 DEF Store, Broken
  <2>4. /\ wPosted' = wPosted \cup {n} /\ wServer' = wServer \cup {n} /\ n \notin wPosted
        /\ wSending' = wSending /\ wPc' = wPc /\ wNote' = wNote
    BY <1>1 DEF Store, wOutcome
  <2>5. wSending[n] <= Broken
    BY <2>1, <2>3, <2>4 DEF WSent
  <2> QED
    BY <2>1, <2>3, <2>4, <2>5 DEF WSent
<1>2. ASSUME NEW n \in Notes, WExpire(n)
      PROVE  WSent'
  <2>1. Notes' = Notes /\ wSending \in [Notes -> Nat] /\ wPosted \subseteq Notes /\ wServer \subseteq wPosted
    BY <1>2 DEF WExpire, Notes, MInv, Receiver
  <2>2. wCounts.breaks \in Nat /\ wCounts.crashes \in Nat
    BY WBounds
  <2>3. Broken' = Broken + 1 /\ Broken \in Nat
    <3>1. WCount("breaks") /\ wCounts' = [wCounts EXCEPT !["breaks"] = wCounts.breaks + 1]
      BY <1>2 DEF WExpire, WCount
    <3>2. wCounts'.breaks = wCounts.breaks + 1 /\ wCounts'.crashes = wCounts.crashes
      BY <3>1 DEF WCounted
    <3> QED
      BY <2>2, <3>2 DEF Broken
  <2>4. /\ wPosted' = wPosted /\ wServer' = wServer \ {n}
        /\ wSending' = wSending /\ wPc' = wPc /\ wNote' = wNote
    BY <1>2 DEF WExpire, wOutcome
  <2> QED
    BY <2>1, <2>3, <2>4 DEF WSent
<1>3. ASSUME NEW n \in Notes, NtfyMessage(n)
      PROVE  WSent'
  <2>1. Notes' = Notes /\ wSending \in [Notes -> Nat] /\ wPosted \subseteq Notes /\ wServer \subseteq wPosted
    BY <1>3 DEF NtfyMessage, Notes, MInv, Receiver
  <2>2. wCounts.breaks \in Nat /\ wCounts.crashes \in Nat
    BY WBounds
  <2>3. Broken' = Broken /\ Broken \in Nat
    BY <1>3, <2>2 DEF NtfyMessage, Broken
  <2>4. /\ wPosted' = wPosted \cup {n} /\ n \notin wPosted
        /\ wServer' = wServer /\ wPc' = wPc /\ wNote' = wNote
    BY <1>3 DEF NtfyMessage, wMozilla
  <2>5. wSending' = wSending \/ wSending' = [wSending EXCEPT ![n] = @ + 1]
    BY <1>3 DEF NtfyMessage, HandleMobSubMsg, wOutcome
  <2>6. wSending[n] = 0
    BY <2>1, <2>4 DEF WSent
  <2>7. \A m \in Notes : wSending'[m] = wSending[m] \/ (m = n /\ wSending'[m] = 1)
    BY <2>1, <2>5, <2>6
  <2> QED
    BY <2>1, <2>3, <2>4, <2>7 DEF WSent
<1>4. ASSUME NEW n \in Notes, MozNotification(n)
      PROVE  WSent'
  <2>1. Notes' = Notes /\ wSending \in [Notes -> Nat] /\ wPosted \subseteq Notes /\ wServer \subseteq wPosted
    BY <1>4 DEF MozNotification, MozGoto, Notes, MInv, Receiver
  <2>2. wCounts.breaks \in Nat /\ wCounts.crashes \in Nat
    BY WBounds
  <2>3. Broken' = Broken /\ Broken \in Nat
    BY <1>4, <2>2 DEF MozNotification, MozGoto, Broken
  <2>4. /\ wPosted' = wPosted /\ wServer' = wServer /\ wSending' = wSending /\ wPc = "read"
    BY <1>4 DEF MozNotification, MozGoto
  <2> QED
    BY <2>1, <2>3, <2>4 DEF WSent
<1>5. ASSUME NEW n \in Notes, Dispatched(n)
      PROVE  WSent'
  <2>1. Notes' = Notes /\ wSending \in [Notes -> Nat] /\ wPosted \subseteq Notes /\ wServer \subseteq wPosted
    BY <1>5 DEF Dispatched, Notes, MInv, Receiver
  <2>2. wCounts.breaks \in Nat /\ wCounts.crashes \in Nat
    BY WBounds
  <2>3. Broken' = Broken /\ Broken \in Nat
    BY <1>5, <2>2 DEF Dispatched, Broken
  <2>4. /\ wPosted' = wPosted /\ wServer' = wServer /\ wPc' = wPc /\ wNote' = wNote
        /\ wSending' = [wSending EXCEPT ![n] = @ - 1] /\ wSending[n] > 0
    BY <1>5 DEF Dispatched, wMozilla
  <2>5. \A m \in Notes : wSending'[m] = IF m = n THEN wSending[m] - 1 ELSE wSending[m]
    BY <2>1, <2>4
  <2> QED
    BY <2>1, <2>3, <2>4, <2>5 DEF WSent
<1>6. CASE NtfySubscribe
  <2>1. Notes' = Notes /\ wSending \in [Notes -> Nat] /\ wPosted \subseteq Notes /\ wServer \subseteq wPosted
    BY <1>6 DEF NtfySubscribe, Notes, MInv, Receiver
  <2>2. wCounts.breaks \in Nat /\ wCounts.crashes \in Nat
    BY WBounds
  <2>3. Broken' = Broken /\ Broken \in Nat
    BY <1>6, <2>2 DEF NtfySubscribe, Broken
  <2>4. UNCHANGED <<wPosted, wServer, wSending, wPc, wNote>>
    BY <1>6 DEF NtfySubscribe, wMozilla, wOutcome
  <2> QED
    BY <2>1, <2>3, <2>4 DEF WSent
<1>7. CASE NtfyEnds
  <2>1. Notes' = Notes /\ wSending \in [Notes -> Nat] /\ wPosted \subseteq Notes /\ wServer \subseteq wPosted
    BY <1>7 DEF NtfyEnds, Notes, MInv, Receiver
  <2>2. wCounts.breaks \in Nat /\ wCounts.crashes \in Nat
    BY WBounds
  <2>3. Broken' = Broken + 1 /\ Broken \in Nat
    <3>1. WCount("breaks") /\ wCounts' = [wCounts EXCEPT !["breaks"] = wCounts.breaks + 1]
      BY <1>7 DEF NtfyEnds, WCount
    <3>2. wCounts'.breaks = wCounts.breaks + 1 /\ wCounts'.crashes = wCounts.crashes
      BY <3>1 DEF WCounted
    <3> QED
      BY <2>2, <3>2 DEF Broken
  <2>4. UNCHANGED <<wPosted, wServer, wSending, wPc, wNote>>
    BY <1>7 DEF NtfyEnds, wMozilla, wOutcome
  <2> QED
    BY <2>1, <2>3, <2>4 DEF WSent
<1>8. CASE MozDial
  <2>1. Notes' = Notes /\ wSending \in [Notes -> Nat] /\ wPosted \subseteq Notes /\ wServer \subseteq wPosted
    BY <1>8 DEF MozDial, MozGoto, Notes, MInv, Receiver
  <2>2. wCounts.breaks \in Nat /\ wCounts.crashes \in Nat
    BY WBounds
  <2>3. Broken' = Broken /\ Broken \in Nat
    BY <1>8, <2>2 DEF MozDial, MozGoto, Broken
  <2>4. UNCHANGED <<wPosted, wServer, wSending, wNote>> /\ wPc # "ack"
    BY <1>8 DEF MozDial, MozGoto, wOutcome
  <2> QED
    BY <2>1, <2>3, <2>4 DEF WSent
<1>9. CASE MozHello
  <2>1. Notes' = Notes /\ wSending \in [Notes -> Nat] /\ wPosted \subseteq Notes /\ wServer \subseteq wPosted
    BY <1>9 DEF MozHello, MozGoto, Notes, MInv, Receiver
  <2>2. wCounts.breaks \in Nat /\ wCounts.crashes \in Nat
    BY WBounds
  <2>3. Broken' = Broken /\ Broken \in Nat
    BY <1>9, <2>2 DEF MozHello, MozGoto, Broken
  <2>4. UNCHANGED <<wPosted, wServer, wSending, wNote>> /\ wPc # "ack"
    BY <1>9 DEF MozHello, MozGoto, wOutcome
  <2> QED
    BY <2>1, <2>3, <2>4 DEF WSent
<1>10. CASE MozHandle
  <2>1. Notes' = Notes /\ wSending \in [Notes -> Nat] /\ wPosted \subseteq Notes /\ wServer \subseteq wPosted
    BY <1>10 DEF MozHandle, MozGoto, Notes, MInv, Receiver
  <2>2. wCounts.breaks \in Nat /\ wCounts.crashes \in Nat
    BY WBounds
  <2>3. Broken' = Broken /\ Broken \in Nat
    BY <1>10, <2>2 DEF MozHandle, MozGoto, Broken
  <2>4. /\ UNCHANGED <<wPosted, wServer, wNote>> /\ wPc = "handle" /\ wPc' = "ack"
        /\ wNote \in wServer /\ wNote \in Notes
    BY <1>10, <2>1 DEF MozHandle, MozGoto, wMozilla, MInv, Current
  <2>5. wSending' = wSending \/ wSending' = [wSending EXCEPT ![wNote] = @ + 1]
    BY <1>10 DEF MozHandle, HandleMobSubMsg
  <2>6. wSending[wNote] <= Broken /\ wSending[wNote] \in Nat
    BY <2>1, <2>4 DEF WSent
  <2>7. \A m \in Notes : wSending'[m] = wSending[m] \/ (m = wNote /\ wSending'[m] = wSending[m] + 1)
    BY <2>1, <2>5
  <2> QED
    BY <2>1, <2>3, <2>4, <2>6, <2>7 DEF WSent
<1>11. CASE MozAck
  <2>1. Notes' = Notes /\ wSending \in [Notes -> Nat] /\ wPosted \subseteq Notes /\ wServer \subseteq wPosted
    BY <1>11 DEF MozAck, MozGoto, Notes, MInv, Receiver
  <2>2. wCounts.breaks \in Nat /\ wCounts.crashes \in Nat
    BY WBounds
  <2>3. /\ UNCHANGED <<wPosted, wSending>> /\ wPc = "ack" /\ wPc' = "read"
    BY <1>11 DEF MozAck, MozGoto, wOutcome
  <2>4. CASE wServer' = wServer \ {wNote} /\ UNCHANGED wCounts
    BY <2>1, <2>2, <2>3, <2>4 DEF WSent, Broken
  <2>5. CASE WCount("breaks") /\ wServer' = wServer
    <3>1. wCounts' = [wCounts EXCEPT !["breaks"] = wCounts.breaks + 1]
      BY <2>5 DEF WCount
    <3>2. wCounts'.breaks = wCounts.breaks + 1 /\ wCounts'.crashes = wCounts.crashes
      BY <3>1 DEF WCounted
    <3>3. Broken' = Broken + 1 /\ Broken \in Nat
      BY <2>2, <3>2 DEF Broken
    <3> QED
      BY <2>1, <2>3, <2>5, <3>3 DEF WSent
  <2> QED
    BY <1>11, <2>4, <2>5 DEF MozAck
<1>12. CASE MozWaited
  <2>1. Notes' = Notes /\ wSending \in [Notes -> Nat] /\ wPosted \subseteq Notes /\ wServer \subseteq wPosted
    BY <1>12 DEF MozWaited, MozGoto, Notes, MInv, Receiver
  <2>2. wCounts.breaks \in Nat /\ wCounts.crashes \in Nat
    BY WBounds
  <2>3. Broken' = Broken /\ Broken \in Nat
    BY <1>12, <2>2 DEF MozWaited, MozGoto, Broken
  <2>4. UNCHANGED <<wPosted, wServer, wSending, wNote>> /\ wPc # "ack"
    BY <1>12 DEF MozWaited, MozGoto, wOutcome
  <2> QED
    BY <2>1, <2>3, <2>4 DEF WSent
<1>13. ASSUME NEW stable \in BOOLEAN, MozFails(stable)
      PROVE  WSent'
  <2>1. Notes' = Notes /\ wSending \in [Notes -> Nat] /\ wPosted \subseteq Notes /\ wServer \subseteq wPosted
    BY <1>13 DEF MozFails, MozGoto, Notes, MInv, Receiver
  <2>2. wCounts.breaks \in Nat /\ wCounts.crashes \in Nat
    BY WBounds
  <2>3. Broken' = Broken + 1 /\ Broken \in Nat
    <3>1. WCount("breaks") /\ wCounts' = [wCounts EXCEPT !["breaks"] = wCounts.breaks + 1]
      BY <1>13 DEF MozFails, MozGoto, WCount
    <3>2. wCounts'.breaks = wCounts.breaks + 1 /\ wCounts'.crashes = wCounts.crashes
      BY <3>1 DEF WCounted
    <3> QED
      BY <2>2, <3>2 DEF Broken
  <2>4. UNCHANGED <<wPosted, wServer, wSending>>
    BY <1>13 DEF MozFails, MozGoto, wOutcome
  <2> QED
    BY <2>1, <2>3, <2>4 DEF WSent
<1>14. ASSUME NEW a \in WAuths, OnP2PTopicEvent(a)
      PROVE  WSent'
  <2>1. Notes' = Notes /\ wSending \in [Notes -> Nat] /\ wPosted \subseteq Notes /\ wServer \subseteq wPosted
    BY <1>14 DEF OnP2PTopicEvent, Notes, MInv, Receiver
  <2>2. wCounts.breaks \in Nat /\ wCounts.crashes \in Nat
    BY WBounds
  <2>3. wCounts' = [wCounts EXCEPT !["announces"] = wCounts.announces + 1]
    BY <1>14 DEF OnP2PTopicEvent, WCount
  <2>4. wCounts'.breaks = wCounts.breaks /\ wCounts'.crashes = wCounts.crashes
    BY <2>3 DEF WCounted
  <2>5. Broken' = Broken
    BY <2>4 DEF Broken
  <2>6. UNCHANGED <<wPosted, wServer, wSending, wPc, wNote>>
    BY <1>14 DEF OnP2PTopicEvent, wMozilla, wOutcome
  <2> QED
    BY <2>1, <2>5, <2>6 DEF WSent
<1>15. CASE WTick
  <2>1. Notes' = Notes /\ wSending \in [Notes -> Nat] /\ wPosted \subseteq Notes /\ wServer \subseteq wPosted
    BY <1>15 DEF WTick, Notes, MInv, Receiver
  <2>2. wCounts.breaks \in Nat /\ wCounts.crashes \in Nat
    BY WBounds
  <2>3. wCounts' = [wCounts EXCEPT !["ticks"] = wCounts.ticks + 1]
    BY <1>15 DEF WTick, WCount
  <2>4. wCounts'.breaks = wCounts.breaks /\ wCounts'.crashes = wCounts.crashes
    BY <2>3 DEF WCounted
  <2>5. Broken' = Broken
    BY <2>4 DEF Broken
  <2>6. UNCHANGED <<wPosted, wServer, wSending, wPc, wNote>>
    BY <1>15 DEF WTick, wMozilla, wOutcome
  <2> QED
    BY <2>1, <2>5, <2>6 DEF WSent
<1>16. ASSUME NEW k \in 1..wPlan.pushes, PublishMozPush(k)
      PROVE  WSent'
  <2>1. Notes' = Notes /\ wSending \in [Notes -> Nat] /\ wPosted \subseteq Notes /\ wServer \subseteq wPosted
    BY <1>16 DEF PublishMozPush, Notes, MInv, Receiver
  <2>2. wCounts.breaks \in Nat /\ wCounts.crashes \in Nat
    BY WBounds
  <2>3. Broken' = Broken /\ Broken \in Nat
    BY <1>16, <2>2 DEF PublishMozPush, Broken
  <2>4. UNCHANGED <<wPosted, wServer, wSending, wPc, wNote>>
    BY <1>16 DEF PublishMozPush, wMozilla, wOutcome
  <2> QED
    BY <2>1, <2>3, <2>4 DEF WSent
<1>17. ASSUME NEW k \in 1..wPlan.pushes, NEW s \in wPush[k], SendMozPushSunup(k, s)
      PROVE  WSent'
  <2>1. Notes' = Notes /\ wSending \in [Notes -> Nat] /\ wPosted \subseteq Notes /\ wServer \subseteq wPosted
    BY <1>17 DEF SendMozPushSunup, Notes, MInv, Receiver
  <2>2. wCounts.breaks \in Nat /\ wCounts.crashes \in Nat
    BY WBounds
  <2>3. Broken' = Broken /\ Broken \in Nat
    BY <1>17, <2>2 DEF SendMozPushSunup, Broken
  <2>4. UNCHANGED <<wPosted, wServer, wSending, wPc, wNote>>
    BY <1>17 DEF SendMozPushSunup, wMozilla, wOutcome
  <2> QED
    BY <2>1, <2>3, <2>4 DEF WSent
<1>18. CASE MobSubCrash
  <2>1. Notes' = Notes /\ wSending \in [Notes -> Nat] /\ wPosted \subseteq Notes /\ wServer \subseteq wPosted
    BY <1>18 DEF MobSubCrash, Notes, MInv, Receiver
  <2>2. wCounts.breaks \in Nat /\ wCounts.crashes \in Nat
    BY WBounds
  <2>3. wSending' = [m \in Notes |-> 0] /\ wServer' = wServer
    BY <1>18 DEF MobSubCrash
  <2>4. wCounts' = [wCounts EXCEPT !["crashes"] = wCounts.crashes + 1]
    BY <1>18 DEF MobSubCrash, WCount
  <2>5. wCounts'.breaks = wCounts.breaks /\ wCounts'.crashes = wCounts.crashes + 1
    BY <2>4 DEF WCounted
  <2>6. Broken' \in Nat
    BY <2>2, <2>5 DEF Broken
  <2>7. \A n \in Notes : wSending'[n] = 0
    BY <2>3
  <2>8. PICK b \in Nat : b = Broken'
    BY <2>6
  <2>9. 0 <= b /\ 0 <= b + 1 /\ ~ (0 > 0)
    OBVIOUS
  <2>10. \A n \in Notes' : wSending'[n] > 0 => n \in wPosted'
    BY <2>1, <2>7, <2>9
  <2>11. \A n \in Notes' : wSending'[n] <= Broken' + 1
    BY <2>1, <2>7, <2>8, <2>9
  <2>12. \A n \in wServer' : wSending'[n] <= Broken'
    BY <2>1, <2>3, <2>7, <2>8, <2>9
  <2> QED
    BY <2>10, <2>11, <2>12 DEF WSent
<1>19. CASE UNCHANGED wVars
  <2>1. Notes' = Notes /\ wSending \in [Notes -> Nat] /\ wPosted \subseteq Notes /\ wServer \subseteq wPosted
    BY <1>19 DEF wVars, Notes, MInv, Receiver
  <2>2. wCounts.breaks \in Nat /\ wCounts.crashes \in Nat
    BY WBounds
  <2>3. Broken' = Broken /\ Broken \in Nat
    BY <1>19, <2>2 DEF wVars, Broken
  <2>4. UNCHANGED <<wPosted, wServer, wSending, wPc, wNote>>
    BY <1>19 DEF wVars, wMozilla, wOutcome
  <2> QED
    BY <2>1, <2>3, <2>4 DEF WSent
<1> QED
  BY <1>1, <1>2, <1>3, <1>4, <1>5, <1>6, <1>7, <1>8, <1>9, <1>10, <1>11, <1>12, <1>13, <1>14,
     <1>15, <1>16, <1>17, <1>18, <1>19
     DEF MobSubNext, WPost, SelfSend

(* No subscription is older than the time that has passed. *)
LEMMA WSubscribedStep == WTyped /\ [MobSubNext]_wVars => WSubscribed'
<1> SUFFICES ASSUME WTyped, [MobSubNext]_wVars PROVE WSubscribed'
  OBVIOUS
<1> USE DEF WTyped
<1>1. ASSUME NEW n \in Notes, Store(n)
      PROVE  WSubscribed'
  BY <1>1 DEF Store, wRegistry, WSubscribed
<1>2. ASSUME NEW n \in Notes, WExpire(n)
      PROVE  WSubscribed'
  <2>1. wCounts' = [wCounts EXCEPT !["breaks"] = wCounts.breaks + 1]
    BY <1>2 DEF WExpire, WCount
  <2>2. wCounts'.announces = wCounts.announces /\ wCounts'.ticks = wCounts.ticks
    BY <2>1 DEF WCounted
  <2>3. UNCHANGED wRegistry
    BY <1>2 DEF WExpire
  <2> QED
    BY <2>2, <2>3 DEF wRegistry, WSubscribed
<1>3. ASSUME NEW n \in Notes, NtfyMessage(n)
      PROVE  WSubscribed'
  BY <1>3 DEF NtfyMessage, wRegistry, WSubscribed
<1>4. ASSUME NEW n \in Notes, MozNotification(n)
      PROVE  WSubscribed'
  BY <1>4 DEF MozNotification, MozGoto, wRegistry, WSubscribed
<1>5. ASSUME NEW n \in Notes, Dispatched(n)
      PROVE  WSubscribed'
  BY <1>5 DEF Dispatched, wRegistry, WSubscribed
<1>6. CASE NtfySubscribe
  BY <1>6 DEF NtfySubscribe, wRegistry, WSubscribed
<1>7. CASE NtfyEnds
  <2>1. wCounts' = [wCounts EXCEPT !["breaks"] = wCounts.breaks + 1]
    BY <1>7 DEF NtfyEnds, WCount
  <2>2. wCounts'.announces = wCounts.announces /\ wCounts'.ticks = wCounts.ticks
    BY <2>1 DEF WCounted
  <2>3. UNCHANGED wRegistry
    BY <1>7 DEF NtfyEnds
  <2> QED
    BY <2>2, <2>3 DEF wRegistry, WSubscribed
<1>8. CASE MozDial
  BY <1>8 DEF MozDial, MozGoto, wRegistry, WSubscribed
<1>9. CASE MozHello
  BY <1>9 DEF MozHello, MozGoto, wRegistry, WSubscribed
<1>10. CASE MozHandle
  BY <1>10 DEF MozHandle, MozGoto, wRegistry, WSubscribed
<1>11. CASE MozAck
  <2>1. UNCHANGED wCounts \/ wCounts' = [wCounts EXCEPT !["breaks"] = wCounts.breaks + 1]
    BY <1>11 DEF MozAck, WCount
  <2>2. wCounts'.announces = wCounts.announces /\ wCounts'.ticks = wCounts.ticks
    BY <2>1 DEF WCounted
  <2>3. UNCHANGED wRegistry
    BY <1>11 DEF MozAck, MozGoto
  <2> QED
    BY <2>2, <2>3 DEF wRegistry, WSubscribed
<1>12. CASE MozWaited
  BY <1>12 DEF MozWaited, MozGoto, wRegistry, WSubscribed
<1>13. ASSUME NEW stable \in BOOLEAN, MozFails(stable)
      PROVE  WSubscribed'
  <2>1. wCounts' = [wCounts EXCEPT !["breaks"] = wCounts.breaks + 1]
    BY <1>13 DEF MozFails, MozGoto, WCount
  <2>2. wCounts'.announces = wCounts.announces /\ wCounts'.ticks = wCounts.ticks
    BY <2>1 DEF WCounted
  <2>3. UNCHANGED wRegistry
    BY <1>13 DEF MozFails, MozGoto
  <2> QED
    BY <2>2, <2>3 DEF wRegistry, WSubscribed
<1>14. ASSUME NEW a \in WAuths, OnP2PTopicEvent(a)
      PROVE  WSubscribed'
  <2>1. /\ wCounts.announces \in Nat /\ wCounts.ticks \in Nat
        /\ wSubs \in [WAuths -> 0..wCounts.announces] /\ wAge \in [WAuths -> 0..wCounts.ticks]
        /\ wSince \in 0..wCounts.ticks
    BY WBounds DEF WSubscribed
  <2>2. wCounts' = [wCounts EXCEPT !["announces"] = wCounts.announces + 1]
    BY <1>14 DEF OnP2PTopicEvent, WCount
  <2>3. wCounts'.announces = wCounts.announces + 1 /\ wCounts'.ticks = wCounts.ticks
    BY <2>2 DEF WCounted
  <2>4. wSubs' \in [WAuths -> 0..(wCounts.announces + 1)]
    <3>1. \A b \in WAuths : /\ wCounts'.announces \in 0..(wCounts.announces + 1)
                            /\ wSubs[b] \in 0..(wCounts.announces + 1)
      BY <2>1, <2>3
    <3> QED
      BY <1>14, <2>1, <3>1 DEF OnP2PTopicEvent
  <2>5. wAge' \in [WAuths -> 0..wCounts.ticks] /\ wSince' = 0
    BY <1>14, <2>1 DEF OnP2PTopicEvent
  <2> QED
    BY <2>1, <2>3, <2>4, <2>5 DEF WSubscribed
<1>15. CASE WTick
  <2>1. /\ wCounts.announces \in Nat /\ wCounts.ticks \in Nat
        /\ wSubs \in [WAuths -> 0..wCounts.announces] /\ wAge \in [WAuths -> 0..wCounts.ticks]
        /\ wSince \in 0..wCounts.ticks
    BY WBounds DEF WSubscribed
  <2>2. wCounts' = [wCounts EXCEPT !["ticks"] = wCounts.ticks + 1]
    BY <1>15 DEF WTick, WCount
  <2>3. wCounts'.announces = wCounts.announces /\ wCounts'.ticks = wCounts.ticks + 1
    BY <2>2 DEF WCounted
  <2>4. wAge' \in [WAuths -> 0..(wCounts.ticks + 1)]
    <3>1. \A b \in WAuths : 0 \in 0..(wCounts.ticks + 1) /\ wAge[b] + 1 \in 0..(wCounts.ticks + 1)
      BY <2>1
    <3> QED
      BY <1>15, <3>1 DEF WTick
  <2>5. wSince' \in 0..(wCounts.ticks + 1) /\ wSubs' = wSubs
    BY <1>15, <2>1 DEF WTick
  <2> QED
    BY <2>1, <2>3, <2>4, <2>5 DEF WSubscribed
<1>16. ASSUME NEW k \in 1..wPlan.pushes, PublishMozPush(k)
      PROVE  WSubscribed'
  BY <1>16 DEF PublishMozPush, wRegistry, WSubscribed
<1>17. ASSUME NEW k \in 1..wPlan.pushes, NEW s \in wPush[k], SendMozPushSunup(k, s)
      PROVE  WSubscribed'
  BY <1>17 DEF SendMozPushSunup, wRegistry, WSubscribed
<1>18. CASE MobSubCrash
  <2>1. wCounts.announces \in Nat /\ wCounts.ticks \in Nat
    BY WBounds
  <2>2. wCounts' = [wCounts EXCEPT !["crashes"] = wCounts.crashes + 1]
    BY <1>18 DEF MobSubCrash, WCount
  <2>3. wCounts'.announces = wCounts.announces /\ wCounts'.ticks = wCounts.ticks
    BY <2>2 DEF WCounted
  <2> QED
    BY <1>18, <2>1, <2>3 DEF MobSubCrash, WSubscribed
<1>19. CASE UNCHANGED wVars
  BY <1>19 DEF wVars, wRegistry, WSubscribed
<1> QED
  BY <1>1, <1>2, <1>3, <1>4, <1>5, <1>6, <1>7, <1>8, <1>9, <1>10, <1>11, <1>12, <1>13, <1>14,
     <1>15, <1>16, <1>17, <1>18, <1>19
     DEF MobSubNext, WPost, SelfSend

(* A push goes to the subscriptions that were known. *)
LEMMA WPushedStep == WTyped /\ [MobSubNext]_wVars => WPushed'
<1> SUFFICES ASSUME WTyped, [MobSubNext]_wVars PROVE WPushed'
  OBVIOUS
<1> USE DEF WTyped
<1>1. ASSUME NEW n \in Notes, Store(n)
      PROVE  WPushed'
  BY <1>1 DEF Store, WPushed
<1>2. ASSUME NEW n \in Notes, WExpire(n)
      PROVE  WPushed'
  BY <1>2 DEF WExpire, WPushed
<1>3. ASSUME NEW n \in Notes, NtfyMessage(n)
      PROVE  WPushed'
  BY <1>3 DEF NtfyMessage, WPushed
<1>4. ASSUME NEW n \in Notes, MozNotification(n)
      PROVE  WPushed'
  BY <1>4 DEF MozNotification, MozGoto, WPushed
<1>5. ASSUME NEW n \in Notes, Dispatched(n)
      PROVE  WPushed'
  BY <1>5 DEF Dispatched, WPushed
<1>6. CASE NtfySubscribe
  BY <1>6 DEF NtfySubscribe, WPushed
<1>7. CASE NtfyEnds
  BY <1>7 DEF NtfyEnds, WPushed
<1>8. CASE MozDial
  BY <1>8 DEF MozDial, MozGoto, WPushed
<1>9. CASE MozHello
  BY <1>9 DEF MozHello, MozGoto, WPushed
<1>10. CASE MozHandle
  BY <1>10 DEF MozHandle, MozGoto, WPushed
<1>11. CASE MozAck
  BY <1>11 DEF MozAck, MozGoto, WPushed
<1>12. CASE MozWaited
  BY <1>12 DEF MozWaited, MozGoto, WPushed
<1>13. ASSUME NEW stable \in BOOLEAN, MozFails(stable)
      PROVE  WPushed'
  BY <1>13 DEF MozFails, MozGoto, WPushed
<1>14. ASSUME NEW a \in WAuths, OnP2PTopicEvent(a)
      PROVE  WPushed'
  BY <1>14 DEF OnP2PTopicEvent, WPushed
<1>15. CASE WTick
  BY <1>15 DEF WTick, WPushed
<1>16. ASSUME NEW k \in 1..wPlan.pushes, PublishMozPush(k)
      PROVE  WPushed'
  <2>1. wSubs \in [WAuths -> 0..wCounts.announces]
    BY DEF WSubscribed
  <2>2. {<<a, wSubs[a]>> : a \in Known} \in SUBSET (WAuths \X Nat)
    BY <2>1 DEF Known
  <2> QED
    BY <1>16, <2>2 DEF PublishMozPush, WPushed
<1>17. ASSUME NEW k \in 1..wPlan.pushes, NEW s \in wPush[k], SendMozPushSunup(k, s)
      PROVE  WPushed'
  BY <1>17 DEF SendMozPushSunup, WPushed
<1>18. CASE MobSubCrash
  BY <1>18 DEF MobSubCrash, WPushed
<1>19. CASE UNCHANGED wVars
  BY <1>19 DEF wVars, WPushed
<1> QED
  BY <1>1, <1>2, <1>3, <1>4, <1>5, <1>6, <1>7, <1>8, <1>9, <1>10, <1>11, <1>12, <1>13, <1>14,
     <1>15, <1>16, <1>17, <1>18, <1>19
     DEF MobSubNext, WPost, SelfSend

(* The variables of the mobile subscriptions keep to their values. *)
LEMMA MobSubTypes == MobSubSpec => []MobSubTypeOK
<1>1. MobSubInit => WCounted /\ WWaiting /\ WMarked /\ WSent /\ WSubscribed /\ WPushed
  <2> SUFFICES ASSUME MobSubInit
               PROVE  WCounted /\ WWaiting /\ WMarked /\ WSent /\ WSubscribed /\ WPushed
    OBVIOUS
  <2>1. WCounted
    BY MobSubPlans DEF MobSubInit, WCounted
  <2>2. WWaiting
    <3>1. WMinBackoff \in WMinBackoff..(2 * WMaxBackoff)
      BY MobSubAssumption
    <3> QED
      BY <3>1 DEF MobSubInit, WWaiting
  <2>3. WMarked
    BY DEF MobSubInit, WMarked
  <2>4. WSent
    BY DEF MobSubInit, WSent, Broken
  <2>5. WSubscribed
    BY DEF MobSubInit, WSubscribed
  <2>6. WPushed
    BY DEF MobSubInit, WPushed
  <2> QED
    BY <2>1, <2>2, <2>3, <2>4, <2>5, <2>6
<1>2. WTyped /\ MInv' /\ [MobSubNext]_wVars => WTyped'
  BY WCountedStep, WWaitingStep, WMarkedStep, WSentStep, WSubscribedStep, WPushedStep DEF WTyped
<1>3. WTyped => MobSubTypeOK
  <2> SUFFICES ASSUME WTyped PROVE MobSubTypeOK
    OBVIOUS
  <2>1. wPlan \in WPlans /\ \A n \in Notes : Kind(n) \in Kinds /\ Way(n) \in Ways
    <3>1. wPlan \in WPlans
      BY DEF WTyped, WCounted
    <3>2. wPlan.notes \in Seq(Kinds \X Ways)
      BY <3>1, MobSubPlans
    <3>3. \A n \in Notes : wPlan.notes[n] \in Kinds \X Ways
      BY <3>2 DEF Notes
    <3> QED
      BY <3>1, <3>3 DEF Kind, Way
  <2>2. /\ wPosted \subseteq Notes /\ wServer \subseteq wPosted /\ wInbox \subseteq wPosted
        /\ wPc \in {"dial", "hello", "read", "handle", "ack", "wait"}
        /\ wTimes \in [Notes -> 0..2]
    BY DEF WTyped, MInv, Receiver
  <2>3. wSending \in [Notes -> 0..(wPlan.breaks + wPlan.crashes + 1)]
    <3>1. /\ wPlan.breaks \in Nat /\ wPlan.crashes \in Nat
          /\ wCounts.breaks \in 0..wPlan.breaks /\ wCounts.crashes \in 0..wPlan.crashes
      BY WBounds DEF WTyped
    <3>2. wSending \in [Notes -> Nat] /\ \A n \in Notes : wSending[n] <= Broken + 1
      BY DEF WTyped, MInv, Receiver, WSent
    <3>3. Broken \in Nat /\ Broken <= wPlan.breaks + wPlan.crashes
      BY <3>1 DEF Broken
    <3>4. \A n \in Notes : wSending[n] \in 0..(wPlan.breaks + wPlan.crashes + 1)
      BY <3>1, <3>2, <3>3
    <3> QED
      BY <3>2, <3>4
  <2>4. /\ wSubs \in [WAuths -> 0..wPlan.announces]
        /\ wAge \in [WAuths -> 0..wPlan.ticks] /\ wSince \in 0..wPlan.ticks
    <3>1. /\ wPlan.announces \in Nat /\ wPlan.ticks \in Nat
          /\ wCounts.announces \in 0..wPlan.announces /\ wCounts.ticks \in 0..wPlan.ticks
      BY WBounds DEF WTyped
    <3>2. /\ 0..wCounts.announces \subseteq 0..wPlan.announces
          /\ 0..wCounts.ticks \subseteq 0..wPlan.ticks
      BY <3>1
    <3> QED
      BY <3>2 DEF WTyped, WSubscribed
  <2> QED
    BY <2>1, <2>2, <2>3, <2>4 DEF WTyped, WCounted, WWaiting, WMarked, WPushed, MobSubTypeOK
<1> QED
  BY <1>1, <1>2, <1>3, MInvAlways, PTL DEF MobSubSpec, WTyped

-----------------------------------------------------------------------------
(* A behaviour of both ways to push is one of each of them. *)
LEMMA PushParts == PushSpec => Init /\ [][Next]_vars /\ MobSubSpec
<1>1. PushInit => Init /\ MobSubInit
  BY DEF PushInit
<1>2. [PushNext]_pushVars => [Next]_vars /\ [MobSubNext]_wVars
  <2> SUFFICES ASSUME [PushNext]_pushVars
               PROVE  [Next]_vars /\ [MobSubNext]_wVars
    OBVIOUS
  <2>1. CASE Next /\ UNCHANGED <<part, wVars>>
    BY <2>1
  <2>2. CASE MobSubNext /\ UNCHANGED <<part, vars>>
    BY <2>2
  <2>3. CASE UNCHANGED pushVars
    BY <2>3 DEF pushVars
  <2> QED
    BY <2>1, <2>2, <2>3 DEF PushNext
<1> QED
  BY <1>1, <1>2, PTL DEF PushSpec, MobSubSpec

(* The variables of both ways to push keep to their values, whichever      *)
(* moves.                                                                  *)
THEOREM PushTypeTheorem == PushSpec => []PushTypeOK
<1>1. Init /\ [][Next]_vars => []TypeOK
  BY TypeInit, TypeStep, PTL
<1> QED
  BY <1>1, PushParts, MobSubTypes, PTL DEF PushTypeOK
=============================================================================
