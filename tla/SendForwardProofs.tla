------------------------- MODULE SendForwardProofs -------------------------
(***************************************************************************)
(* Proofs about SendForward for every set of nodes, contact types and      *)
(* calls, and every registry.                                              *)
(***************************************************************************)
EXTENDS SendForward, FiniteSetTheorems, TLAPS

Child(j) == Active(j) /\ req[j].parent # NoCall

(* A child's parent is a client's call that has gone to its peers. *)
TreeAt(j) ==
    Child(j) =>
        /\ req[j].ttl = 1
        /\ req[req[j].parent].parent = NoCall
        /\ pc[req[j].parent] \in {"relay", "wait", "done"}
        /\ ~accepted[req[j].parent]

Tree == \A j \in Calls : TreeAt(j)

(* Only a call with ttl 0 is in the peer loop; it waits for its own child. *)
LoopingAt(k) ==
    /\ lost[k] => Active(k)
    /\ pc[k] \in {"relay", "wait"} => req[k].ttl = 0 /\ ~accepted[k]
    /\ pc[k] = "wait" =>
         /\ child[k] \in Calls
         /\ Child(child[k])
         /\ req[child[k]].parent = k
         /\ ~lost[child[k]]

Looping == \A k \in Calls : LoopingAt(k)

(* What an answer says about the backend. *)
AnswersAt(k) ==
    /\ reply[k] = "ok" \/ accepted[k] => pc[k] = "done"
    /\ accepted[k] /\ ~unsure[k] => reply[k] = "ok"
    /\ pc[k] = "done" /\ reply[k] = "ok" /\ req[k].ttl = 1 => accepted[k]

Answers == \A k \in Calls : AnswersAt(k)

(***************************************************************************)
(* The caller still waits for a child that runs and was not given up, and  *)
(* for one that succeeded unless the caller has finished too.              *)
(***************************************************************************)
AwaitedAt(j) ==
    Child(j) /\ ~lost[j] =>
        \/ pc[req[j].parent] = "wait" /\ child[req[j].parent] = j
        \/ pc[j] = "done" /\ (pc[req[j].parent] = "done" \/ reply[j] # "ok")

Awaited == \A j \in Calls : AwaitedAt(j)

Structure == TypeOK /\ Tree /\ Looping /\ Answers /\ Awaited

-----------------------------------------------------------------------------
USE NodesAssumption, CtypesAssumption, ClientNodesAssumption,
    CallsAssumption, MaxEventsAssumption

(* A new request is a request. *)
LEMMA NewReqType ==
    ASSUME NEW n \in Nodes, NEW kind \in Kinds, NEW form, NEW c \in Ctypes,
           NEW ttl \in {0, 1}, NEW parent \in Calls \cup {NoCall}
    PROVE  NewReq(n, kind, form, c, ttl, parent) \in Req
  BY DEF NewReq, Req, ParamsReadable

(* The log stays a sequence of numbers when it is appended to and cut. *)
LEMMA AppendEventType ==
    ASSUME NEW evs \in Seq(Nat), NEW id \in Nat
    PROVE  AppendEvent(evs, id) \in Seq(Nat)
  <1>1. CASE Len(evs) < MaxEvents
    BY <1>1 DEF AppendEvent
  <1>2. CASE Len(evs) >= MaxEvents
    <2>1. LastN(evs, MaxEvents - 1) \in Seq(Nat)
      BY <1>2 DEF LastN
    <2> QED
      BY <2>1, <1>2 DEF AppendEvent
  <1> QED
    BY <1>1, <1>2

(* The specification starts in the states TypeOK describes. *)
LEMMA InitType == Init => TypeOK
  <1> SUFFICES ASSUME Init PROVE TypeOK
    OBVIOUS
  <1>1. /\ (CHOOSE n \in Nodes : TRUE) \in Nodes
        /\ (CHOOSE c \in Ctypes : TRUE) \in Ctypes
    OBVIOUS
  <1>2. NoReq \in Req
    BY <1>1 DEF NoReq, NewReq, Req, Kinds, ParamsReadable
  <1> QED
    BY <1>2 DEF Init, InitCalls, TypeOK, PCs, Replies

(* Every step keeps them. *)
LEMMA StepType == TypeOK /\ [Next]_vars => TypeOK'
  <1> SUFFICES ASSUME TypeOK, [Next]_vars PROVE TypeOK'
    OBVIOUS
  <1> USE DEF TypeOK, PCs, Replies, Goto, Finish, events, loop, history
  <1>1. ASSUME NEW k \in Calls, Request(k) PROVE TypeOK'
    <2>1. PICK n \in Nodes, kind \in Kinds, form \in Forms, c \in Ctypes :
            ClientRequest(k, n, kind, form, c)
      BY <1>1 DEF Request
    <2>2. NewReq(n, kind, form, c, 0, NoCall) \in Req
      BY NewReqType
    <2> QED
      BY <2>1, <2>2 DEF ClientRequest
  <1>2. ASSUME NEW k \in Calls, RecordSend(k) PROVE TypeOK'
    <2> DEFINE n == req[k].node
    <2>1. n \in Nodes
      BY DEF Req
    <2>2. simEvents[n] \in Seq(Nat) /\ simNextID[n] \in Nat \ {0}
      BY <2>1
    <2>3. AppendEvent(simEvents[n], simNextID[n]) \in Seq(Nat)
      BY <2>2, AppendEventType
    <2>4. simNextID[n] + 1 \in Nat \ {0}
      BY <2>2
    <2> HIDE DEF n
    <2>5. simEvents' \in [Nodes -> Seq(Nat)] /\ simNextID' \in [Nodes -> Nat \ {0}]
      BY <1>2, <2>1, <2>3, <2>4 DEF RecordSend, n
    <2> QED
      BY <1>2, <2>5 DEF RecordSend
  <1>3. ASSUME NEW k \in Calls, Ask(k) PROVE TypeOK'
    <2>1. PICK j \in Calls \ {k}, p \in Nodes : AskPeer(k, j, p)
      BY <1>3 DEF Ask
    <2>2. NewReq(p, req[k].kind, "multipart", req[k].ctype, 1, k) \in Req
      BY NewReqType DEF Req
    <2> QED
      BY <2>1, <2>2 DEF AskPeer
  <1>4. ASSUME NEW k \in Calls,
               \/ RejectParams(k) \/ RejectUnknown(k) \/ AcceptRedact(k)
               \/ DispatchRefused(k) \/ DispatchReady(k)
               \/ SendFnOk(k) \/ PeersExhausted(k)
        PROVE TypeOK'
    BY <1>4 DEF RejectParams, RejectUnknown, AcceptRedact, DispatchRefused,
         DispatchReady, SendFnOk, PeersExhausted
  <1>5. ASSUME NEW k \in Calls, DispatchNoSender(k) \/ SendFnNotConnected(k)
        PROVE TypeOK'
    <2>1. UNCHANGED <<req, child, accepted, unsure, lost, simEvents, simNextID>>
      BY <1>5 DEF DispatchNoSender, SendFnNotConnected
    <2>2. RelayOrFail(k)
      BY <1>5 DEF DispatchNoSender, SendFnNotConnected
    <2>3. CASE StartRelay(k)
      <3>1. PICK peers \in SUBSET (Nodes \ {req[k].node}) :
               todo' = [todo EXCEPT ![k] = peers]
        BY <2>3 DEF StartRelay
      <3>2. todo' \in [Calls -> SUBSET Nodes]
        BY <3>1
      <3> QED
        BY <2>1, <2>3, <3>2 DEF StartRelay
    <2>4. CASE Finish(k, "error") /\ UNCHANGED todo
      BY <2>1, <2>4
    <2> QED
      BY <2>2, <2>3, <2>4 DEF RelayOrFail
  <1>6. ASSUME NEW k \in Calls, SendFnError(k) PROVE TypeOK'
    BY <1>6 DEF SendFnError
  <1>7. ASSUME NEW k \in Calls,
               Unreachable(k) \/ PeerAnswers(k) \/ ResponseLost(k)
        PROVE TypeOK'
    <2>1. CASE Unreachable(k)
      BY <2>1 DEF Unreachable, PeerUnreachable
    <2>2. CASE PeerAnswers(k)
      BY <2>2 DEF PeerAnswers
    <2>3. CASE ResponseLost(k)
      BY <2>3 DEF ResponseLost
    <2> QED
      BY <1>7, <2>1, <2>2, <2>3
  <1>8. CASE UNCHANGED vars
    BY <1>8 DEF vars
  <1> QED
    BY <1>1, <1>2, <1>3, <1>4, <1>5, <1>6, <1>7, <1>8 DEF Next, Step

(* What the step lemmas need of TypeOK. *)
CallTypes ==
    /\ req \in [Calls -> Req]
    /\ pc \in [Calls -> PCs]
    /\ reply \in [Calls -> Replies]
    /\ child \in [Calls -> Calls \cup {NoCall}]
    /\ accepted \in [Calls -> BOOLEAN]
    /\ unsure \in [Calls -> BOOLEAN]
    /\ lost \in [Calls -> BOOLEAN]
    /\ \A k \in Calls : req[k].parent \in Calls \cup {NoCall}

(* Well-typed states have well-typed calls. *)
LEMMA CallTypesLemma == TypeOK => CallTypes
  BY DEF TypeOK, CallTypes, Req

(* The relay tree stays one level deep. *)
LEMMA StepTree == Structure /\ [Next]_vars => Tree'
  <1> SUFFICES ASSUME Structure, [Next]_vars, NEW j \in Calls PROVE TreeAt(j)'
    BY DEF Tree
  <1>0. CallTypes
    BY CallTypesLemma DEF Structure
  <1>a. TreeAt(j) /\ (\A k \in Calls : TreeAt(k) /\ LoopingAt(k) /\ AnswersAt(k))
    BY <1>0, CallsAssumption DEF Structure, Tree, Looping, Answers, Awaited
  <1> USE DEF CallTypes, Goto, Finish, events, loop, history, Active, Child,
             TreeAt, LoopingAt, AnswersAt
  <1>1. ASSUME NEW k \in Calls, Request(k) PROVE TreeAt(j)'
    BY <1>0, <1>a, <1>1 DEF Request, ClientRequest, NewReq, FirstFree
  <1>2. ASSUME NEW k \in Calls, RejectParams(k) PROVE TreeAt(j)'
    BY <1>0, <1>a, <1>2 DEF RejectParams
  <1>3. ASSUME NEW k \in Calls, RejectUnknown(k) PROVE TreeAt(j)'
    BY <1>0, <1>a, <1>3 DEF RejectUnknown
  <1>4. ASSUME NEW k \in Calls, RecordSend(k) PROVE TreeAt(j)'
    BY <1>0, <1>a, <1>4 DEF RecordSend
  <1>5. ASSUME NEW k \in Calls, AcceptRedact(k) PROVE TreeAt(j)'
    BY <1>0, <1>a, <1>5 DEF AcceptRedact
  <1>6. ASSUME NEW k \in Calls, DispatchNoSender(k) PROVE TreeAt(j)'
    <2>1. /\ UNCHANGED <<req, child, accepted, unsure, lost>>
          /\ \/ /\ pc' = [pc EXCEPT ![k] = "relay"] /\ reply' = reply
                /\ req[k].ttl = 0
             \/ /\ pc' = [pc EXCEPT ![k] = "done"]
                /\ reply' = [reply EXCEPT ![k] = "error"]
      BY <1>6 DEF DispatchNoSender, RelayOrFail, StartRelay, MayRelay
    <2>2. pc[k] = "dispatch"
      BY <1>6 DEF DispatchNoSender
    <2>3. SUFFICES ASSUME Child(j)' PROVE TreeAt(j)'
      OBVIOUS
    <2>4. Child(j) /\ req[j].parent \in Calls /\ req[j].parent # k
      BY <1>0, <1>a, <2>1, <2>2, <2>3
    <2>5. pc'[req[j].parent] = pc[req[j].parent]
      BY <1>0, <2>1, <2>4
    <2> QED
      BY <1>0, <1>a, <2>1, <2>2, <2>4, <2>5
  <1>7. ASSUME NEW k \in Calls, DispatchRefused(k) PROVE TreeAt(j)'
    BY <1>0, <1>a, <1>7 DEF DispatchRefused
  <1>8. ASSUME NEW k \in Calls, DispatchReady(k) PROVE TreeAt(j)'
    BY <1>0, <1>a, <1>8 DEF DispatchReady
  <1>9. ASSUME NEW k \in Calls, SendFnOk(k) PROVE TreeAt(j)'
    BY <1>0, <1>a, <1>9 DEF SendFnOk
  <1>10. ASSUME NEW k \in Calls, SendFnNotConnected(k) PROVE TreeAt(j)'
    <2>1. /\ UNCHANGED <<req, child, accepted, unsure, lost>>
          /\ \/ /\ pc' = [pc EXCEPT ![k] = "relay"] /\ reply' = reply
                /\ req[k].ttl = 0
             \/ /\ pc' = [pc EXCEPT ![k] = "done"]
                /\ reply' = [reply EXCEPT ![k] = "error"]
      BY <1>10 DEF SendFnNotConnected, RelayOrFail, StartRelay, MayRelay
    <2>2. pc[k] = "sendfn"
      BY <1>10 DEF SendFnNotConnected
    <2>3. SUFFICES ASSUME Child(j)' PROVE TreeAt(j)'
      OBVIOUS
    <2>4. Child(j) /\ req[j].parent \in Calls /\ req[j].parent # k
      BY <1>0, <1>a, <2>1, <2>2, <2>3
    <2>5. pc'[req[j].parent] = pc[req[j].parent]
      BY <1>0, <2>1, <2>4
    <2> QED
      BY <1>0, <1>a, <2>1, <2>2, <2>4, <2>5
  <1>11. ASSUME NEW k \in Calls, SendFnError(k) PROVE TreeAt(j)'
    BY <1>0, <1>a, <1>11 DEF SendFnError
  <1>12. ASSUME NEW k \in Calls, Ask(k) PROVE TreeAt(j)'
    <2>1. PICK i \in Calls \ {k}, p \in Nodes : AskPeer(k, i, p)
      BY <1>12 DEF Ask
    <2> DEFINE new == NewReq(p, req[k].kind, "multipart", req[k].ctype, 1, k)
    <2>2. new.ttl = 1 /\ new.parent = k
      BY DEF NewReq
    <2> HIDE DEF new
    <2>3. /\ req' = [req EXCEPT ![i] = new]
          /\ pc' = [pc EXCEPT ![k] = "wait", ![i] = "recv"]
          /\ child' = [child EXCEPT ![k] = i]
          /\ UNCHANGED <<reply, accepted, unsure, lost>>
          /\ pc[k] = "relay" /\ pc[i] = "free"
      BY <2>1 DEF AskPeer, FirstFree, new
    <2>4. req[k].ttl = 0 /\ req[k].parent = NoCall /\ k # NoCall /\ ~accepted[k] /\ ~lost[i]
      BY <1>a, <1>0, <2>3, CallsAssumption
    <2>5. CASE j = i
      BY <1>0, <2>2, <2>3, <2>4, <2>5
    <2>6. CASE j # i
      <3>1. /\ req'[j] = req[j] /\ (j # k => pc'[j] = pc[j])
            /\ pc'[k] = "wait" /\ req'[k] = req[k] /\ child'[k] = i
            /\ req'[i] = new /\ pc'[i] = "recv"
        BY <1>0, <2>3, <2>6
      <3>2. ASSUME Child(j)
            PROVE  /\ j # k /\ req[j].parent \in Calls /\ req[j].parent # i
                   /\ req'[req[j].parent] = req[req[j].parent]
                   /\ pc'[req[j].parent] \in {"relay", "wait", "done"}
        <4>1. j # k /\ req[j].parent \in Calls /\ pc[req[j].parent] # "free"
          BY <1>0, <1>a, <2>4, <3>2
        <4> QED
          BY <1>0, <1>a, <2>3, <3>2, <4>1
      <3>3. ASSUME pc[j] = "wait", j # k
            PROVE  /\ child'[j] = child[j] /\ child[j] # i
                   /\ req'[child[j]] = req[child[j]] /\ pc'[child[j]] # "free"
        <4>1. child[j] \in Calls /\ pc[child[j]] # "free"
          BY <1>a, <3>3
        <4> QED
          BY <1>0, <2>3, <3>3, <4>1
      <3> QED
        BY <1>0, <1>a, <2>2, <2>3, <2>4, <2>6, <3>1, <3>2, <3>3
    <2> QED
      BY <2>5, <2>6
  <1>13. ASSUME NEW k \in Calls, Unreachable(k) PROVE TreeAt(j)'
    BY <1>0, <1>a, <1>13 DEF Unreachable, PeerUnreachable
  <1>14. ASSUME NEW k \in Calls, PeerAnswers(k) PROVE TreeAt(j)'
    <2>1. /\ UNCHANGED <<req, child, accepted, unsure, lost>>
          /\ pc[k] = "wait" /\ pc[child[k]] = "done"
          /\ \/ /\ pc' = [pc EXCEPT ![k] = "done"]
                /\ reply' = [reply EXCEPT ![k] = "ok"]
                /\ reply[child[k]] = "ok"
             \/ /\ pc' = [pc EXCEPT ![k] = "relay"]
                /\ reply' = reply /\ reply[child[k]] # "ok"
      BY <1>14 DEF PeerAnswers
    <2>2. req[k].ttl = 0 /\ ~accepted[k]
      BY <1>a, <2>1
    <2>3. SUFFICES ASSUME Child(j)' PROVE TreeAt(j)'
      OBVIOUS
    <2>4. Child(j) /\ req[j].parent \in Calls
      BY <1>0, <1>a, <2>1, <2>3
    <2>5. CASE req[j].parent = k
      BY <1>0, <1>a, <2>1, <2>2, <2>4, <2>5
    <2>6. CASE req[j].parent # k
      <3>1. pc'[req[j].parent] = pc[req[j].parent]
        BY <1>0, <2>1, <2>4, <2>6
      <3>2. j # k => pc'[j] = pc[j] /\ reply'[j] = reply[j]
        BY <1>0, <2>1
      <3>3. j # k
        BY <1>0, <1>a, <2>1, <2>2, <2>4
      <3> QED
        BY <1>0, <1>a, <2>1, <2>4, <3>1, <3>2, <3>3
    <2> QED
      BY <2>5, <2>6
  <1>15. ASSUME NEW k \in Calls, ResponseLost(k) PROVE TreeAt(j)'
    BY <1>0, <1>a, <1>15 DEF ResponseLost
  <1>16. ASSUME NEW k \in Calls, PeersExhausted(k) PROVE TreeAt(j)'
    BY <1>0, <1>a, <1>16 DEF PeersExhausted
  <1>17. CASE UNCHANGED vars
    BY <1>0, <1>a, <1>17 DEF vars
  <1> QED
    BY <1>1, <1>2, <1>3, <1>4, <1>5, <1>6, <1>7, <1>8, <1>9, <1>10, <1>11, <1>12, <1>13, <1>14, <1>15, <1>16, <1>17 DEF Next, Step

(* A waiting call keeps waiting for its own child. *)
LEMMA StepLooping == Structure /\ [Next]_vars => Looping'
  <1> SUFFICES ASSUME Structure, [Next]_vars, NEW j \in Calls PROVE LoopingAt(j)'
    BY DEF Looping
  <1>0. CallTypes
    BY CallTypesLemma DEF Structure
  <1>a. LoopingAt(j) /\ (\A k \in Calls : TreeAt(k) /\ LoopingAt(k) /\ AnswersAt(k))
    BY <1>0, CallsAssumption DEF Structure, Tree, Looping, Answers, Awaited
  <1> USE DEF CallTypes, Goto, Finish, events, loop, history, Active, Child,
             TreeAt, LoopingAt, AnswersAt
  <1>1. ASSUME NEW k \in Calls, Request(k) PROVE LoopingAt(j)'
    BY <1>0, <1>a, <1>1 DEF Request, ClientRequest, NewReq, FirstFree
  <1>2. ASSUME NEW k \in Calls, RejectParams(k) PROVE LoopingAt(j)'
    BY <1>0, <1>a, <1>2 DEF RejectParams
  <1>3. ASSUME NEW k \in Calls, RejectUnknown(k) PROVE LoopingAt(j)'
    BY <1>0, <1>a, <1>3 DEF RejectUnknown
  <1>4. ASSUME NEW k \in Calls, RecordSend(k) PROVE LoopingAt(j)'
    BY <1>0, <1>a, <1>4 DEF RecordSend
  <1>5. ASSUME NEW k \in Calls, AcceptRedact(k) PROVE LoopingAt(j)'
    BY <1>0, <1>a, <1>5 DEF AcceptRedact
  <1>6. ASSUME NEW k \in Calls, DispatchNoSender(k) PROVE LoopingAt(j)'
    <2>1. /\ UNCHANGED <<req, child, accepted, unsure, lost>>
          /\ \/ /\ pc' = [pc EXCEPT ![k] = "relay"] /\ reply' = reply
                /\ req[k].ttl = 0
             \/ /\ pc' = [pc EXCEPT ![k] = "done"]
                /\ reply' = [reply EXCEPT ![k] = "error"]
      BY <1>6 DEF DispatchNoSender, RelayOrFail, StartRelay, MayRelay
    <2>2. pc[k] = "dispatch"
      BY <1>6 DEF DispatchNoSender
    <2>3. ~accepted[k] /\ (j # k => pc'[j] = pc[j])
      BY <1>0, <1>a, <2>1, <2>2
    <2>4. j = k => pc'[j] = "done" \/ (pc'[j] = "relay" /\ req[k].ttl = 0)
      BY <1>0, <2>1
    <2>5. pc'[child[j]] # "free" \/ pc[child[j]] = "free" \/ child[j] \notin Calls
      BY <1>0, <2>1
    <2>6. CASE j = k
      BY <1>0, <1>a, <2>1, <2>3, <2>4, <2>6
    <2>7. CASE j # k
      BY <1>0, <1>a, <2>1, <2>3, <2>5, <2>7
    <2> QED
      BY <2>6, <2>7
  <1>7. ASSUME NEW k \in Calls, DispatchRefused(k) PROVE LoopingAt(j)'
    BY <1>0, <1>a, <1>7 DEF DispatchRefused
  <1>8. ASSUME NEW k \in Calls, DispatchReady(k) PROVE LoopingAt(j)'
    BY <1>0, <1>a, <1>8 DEF DispatchReady
  <1>9. ASSUME NEW k \in Calls, SendFnOk(k) PROVE LoopingAt(j)'
    BY <1>0, <1>a, <1>9 DEF SendFnOk
  <1>10. ASSUME NEW k \in Calls, SendFnNotConnected(k) PROVE LoopingAt(j)'
    <2>1. /\ UNCHANGED <<req, child, accepted, unsure, lost>>
          /\ \/ /\ pc' = [pc EXCEPT ![k] = "relay"] /\ reply' = reply
                /\ req[k].ttl = 0
             \/ /\ pc' = [pc EXCEPT ![k] = "done"]
                /\ reply' = [reply EXCEPT ![k] = "error"]
      BY <1>10 DEF SendFnNotConnected, RelayOrFail, StartRelay, MayRelay
    <2>2. pc[k] = "sendfn"
      BY <1>10 DEF SendFnNotConnected
    <2>3. ~accepted[k] /\ (j # k => pc'[j] = pc[j])
      BY <1>0, <1>a, <2>1, <2>2
    <2>4. j = k => pc'[j] = "done" \/ (pc'[j] = "relay" /\ req[k].ttl = 0)
      BY <1>0, <2>1
    <2>5. pc'[child[j]] # "free" \/ pc[child[j]] = "free" \/ child[j] \notin Calls
      BY <1>0, <2>1
    <2>6. CASE j = k
      BY <1>0, <1>a, <2>1, <2>3, <2>4, <2>6
    <2>7. CASE j # k
      BY <1>0, <1>a, <2>1, <2>3, <2>5, <2>7
    <2> QED
      BY <2>6, <2>7
  <1>11. ASSUME NEW k \in Calls, SendFnError(k) PROVE LoopingAt(j)'
    BY <1>0, <1>a, <1>11 DEF SendFnError
  <1>12. ASSUME NEW k \in Calls, Ask(k) PROVE LoopingAt(j)'
    <2>1. PICK i \in Calls \ {k}, p \in Nodes : AskPeer(k, i, p)
      BY <1>12 DEF Ask
    <2> DEFINE new == NewReq(p, req[k].kind, "multipart", req[k].ctype, 1, k)
    <2>2. new.ttl = 1 /\ new.parent = k
      BY DEF NewReq
    <2> HIDE DEF new
    <2>3. /\ req' = [req EXCEPT ![i] = new]
          /\ pc' = [pc EXCEPT ![k] = "wait", ![i] = "recv"]
          /\ child' = [child EXCEPT ![k] = i]
          /\ UNCHANGED <<reply, accepted, unsure, lost>>
          /\ pc[k] = "relay" /\ pc[i] = "free"
      BY <2>1 DEF AskPeer, FirstFree, new
    <2>4. req[k].ttl = 0 /\ req[k].parent = NoCall /\ k # NoCall /\ ~accepted[k] /\ ~lost[i]
      BY <1>a, <1>0, <2>3, CallsAssumption
    <2>5. CASE j = i
      BY <1>0, <2>2, <2>3, <2>4, <2>5
    <2>6. CASE j # i
      <3>1. /\ req'[j] = req[j] /\ (j # k => pc'[j] = pc[j])
            /\ pc'[k] = "wait" /\ req'[k] = req[k] /\ child'[k] = i
            /\ req'[i] = new /\ pc'[i] = "recv"
        BY <1>0, <2>3, <2>6
      <3>2. ASSUME Child(j)
            PROVE  /\ j # k /\ req[j].parent \in Calls /\ req[j].parent # i
                   /\ req'[req[j].parent] = req[req[j].parent]
                   /\ pc'[req[j].parent] \in {"relay", "wait", "done"}
        <4>1. j # k /\ req[j].parent \in Calls /\ pc[req[j].parent] # "free"
          BY <1>0, <1>a, <2>4, <3>2
        <4> QED
          BY <1>0, <1>a, <2>3, <3>2, <4>1
      <3>3. ASSUME pc[j] = "wait", j # k
            PROVE  /\ child'[j] = child[j] /\ child[j] # i
                   /\ req'[child[j]] = req[child[j]] /\ pc'[child[j]] # "free"
        <4>1. child[j] \in Calls /\ pc[child[j]] # "free"
          BY <1>a, <3>3
        <4> QED
          BY <1>0, <2>3, <3>3, <4>1
      <3> QED
        BY <1>0, <1>a, <2>2, <2>3, <2>4, <2>6, <3>1, <3>2, <3>3
    <2> QED
      BY <2>5, <2>6
  <1>13. ASSUME NEW k \in Calls, Unreachable(k) PROVE LoopingAt(j)'
    BY <1>0, <1>a, <1>13 DEF Unreachable, PeerUnreachable
  <1>14. ASSUME NEW k \in Calls, PeerAnswers(k) PROVE LoopingAt(j)'
    <2>1. /\ UNCHANGED <<req, child, accepted, unsure, lost>>
          /\ pc[k] = "wait" /\ pc[child[k]] = "done"
          /\ \/ /\ pc' = [pc EXCEPT ![k] = "done"]
                /\ reply' = [reply EXCEPT ![k] = "ok"]
                /\ reply[child[k]] = "ok"
             \/ /\ pc' = [pc EXCEPT ![k] = "relay"]
                /\ reply' = reply /\ reply[child[k]] # "ok"
      BY <1>14 DEF PeerAnswers
    <2>2. req[k].ttl = 0 /\ ~accepted[k]
      BY <1>a, <2>1
    <2>3. j # k => pc'[j] = pc[j]
      BY <1>0, <2>1
    <2>4. j = k => pc'[j] \in {"done", "relay"}
      BY <1>0, <2>1
    <2>5. pc'[child[j]] # "free" \/ pc[child[j]] = "free" \/ child[j] \notin Calls
      BY <1>0, <2>1
    <2> QED
      BY <1>0, <1>a, <2>1, <2>2, <2>3, <2>4, <2>5
  <1>15. ASSUME NEW k \in Calls, ResponseLost(k) PROVE LoopingAt(j)'
    BY <1>0, <1>a, <1>15 DEF ResponseLost
  <1>16. ASSUME NEW k \in Calls, PeersExhausted(k) PROVE LoopingAt(j)'
    BY <1>0, <1>a, <1>16 DEF PeersExhausted
  <1>17. CASE UNCHANGED vars
    BY <1>0, <1>a, <1>17 DEF vars
  <1> QED
    BY <1>1, <1>2, <1>3, <1>4, <1>5, <1>6, <1>7, <1>8, <1>9, <1>10, <1>11, <1>12, <1>13, <1>14, <1>15, <1>16, <1>17 DEF Next, Step

(* Answers keep agreeing with the backend. *)
LEMMA StepAnswers == Structure /\ [Next]_vars => Answers'
  <1> SUFFICES ASSUME Structure, [Next]_vars, NEW j \in Calls PROVE AnswersAt(j)'
    BY DEF Answers
  <1>0. CallTypes
    BY CallTypesLemma DEF Structure
  <1>a. AnswersAt(j) /\ (\A k \in Calls : TreeAt(k) /\ LoopingAt(k) /\ AnswersAt(k))
    BY <1>0, CallsAssumption DEF Structure, Tree, Looping, Answers, Awaited
  <1> USE DEF CallTypes, Goto, Finish, events, loop, history, Active, Child,
             LoopingAt, AnswersAt, TreeAt
  <1>1. ASSUME NEW k \in Calls, Request(k) PROVE AnswersAt(j)'
    BY <1>0, <1>a, <1>1 DEF Request, ClientRequest, NewReq, FirstFree
  <1>2. ASSUME NEW k \in Calls, RejectParams(k) PROVE AnswersAt(j)'
    BY <1>0, <1>a, <1>2 DEF RejectParams
  <1>3. ASSUME NEW k \in Calls, RejectUnknown(k) PROVE AnswersAt(j)'
    BY <1>0, <1>a, <1>3 DEF RejectUnknown
  <1>4. ASSUME NEW k \in Calls, RecordSend(k) PROVE AnswersAt(j)'
    BY <1>0, <1>a, <1>4 DEF RecordSend
  <1>5. ASSUME NEW k \in Calls, AcceptRedact(k) PROVE AnswersAt(j)'
    BY <1>0, <1>a, <1>5 DEF AcceptRedact
  <1>6. ASSUME NEW k \in Calls, DispatchNoSender(k) PROVE AnswersAt(j)'
    BY <1>0, <1>a, <1>6 DEF DispatchNoSender, RelayOrFail, StartRelay, MayRelay
  <1>7. ASSUME NEW k \in Calls, DispatchRefused(k) PROVE AnswersAt(j)'
    BY <1>0, <1>a, <1>7 DEF DispatchRefused
  <1>8. ASSUME NEW k \in Calls, DispatchReady(k) PROVE AnswersAt(j)'
    BY <1>0, <1>a, <1>8 DEF DispatchReady
  <1>9. ASSUME NEW k \in Calls, SendFnOk(k) PROVE AnswersAt(j)'
    BY <1>0, <1>a, <1>9 DEF SendFnOk
  <1>10. ASSUME NEW k \in Calls, SendFnNotConnected(k) PROVE AnswersAt(j)'
    BY <1>0, <1>a, <1>10 DEF SendFnNotConnected, RelayOrFail, StartRelay, MayRelay
  <1>11. ASSUME NEW k \in Calls, SendFnError(k) PROVE AnswersAt(j)'
    BY <1>0, <1>a, <1>11 DEF SendFnError
  <1>12. ASSUME NEW k \in Calls, Ask(k) PROVE AnswersAt(j)'
    BY <1>0, <1>a, <1>12 DEF Ask, AskPeer, NewReq, FirstFree
  <1>13. ASSUME NEW k \in Calls, Unreachable(k) PROVE AnswersAt(j)'
    BY <1>0, <1>a, <1>13 DEF Unreachable, PeerUnreachable
  <1>14. ASSUME NEW k \in Calls, PeerAnswers(k) PROVE AnswersAt(j)'
    BY <1>0, <1>a, <1>14 DEF PeerAnswers
  <1>15. ASSUME NEW k \in Calls, ResponseLost(k) PROVE AnswersAt(j)'
    BY <1>0, <1>a, <1>15 DEF ResponseLost
  <1>16. ASSUME NEW k \in Calls, PeersExhausted(k) PROVE AnswersAt(j)'
    BY <1>0, <1>a, <1>16 DEF PeersExhausted
  <1>17. CASE UNCHANGED vars
    BY <1>0, <1>a, <1>17 DEF vars
  <1> QED
    BY <1>1, <1>2, <1>3, <1>4, <1>5, <1>6, <1>7, <1>8, <1>9, <1>10, <1>11, <1>12, <1>13, <1>14, <1>15, <1>16, <1>17 DEF Next, Step

(* No success of a child that is waited for is overlooked. *)
LEMMA StepAwaited == Structure /\ [Next]_vars => Awaited'
  <1> SUFFICES ASSUME Structure, [Next]_vars, NEW j \in Calls PROVE AwaitedAt(j)'
    BY DEF Awaited
  <1>0. CallTypes
    BY CallTypesLemma DEF Structure
  <1>a. AwaitedAt(j) /\ (\A k \in Calls : TreeAt(k) /\ LoopingAt(k) /\ AnswersAt(k))
    BY <1>0, CallsAssumption DEF Structure, Tree, Looping, Answers, Awaited
  <1> USE DEF CallTypes, Goto, Finish, events, loop, history, Active, Child,
             TreeAt, LoopingAt, AwaitedAt, AnswersAt
  <1>1. ASSUME NEW k \in Calls, Request(k) PROVE AwaitedAt(j)'
    BY <1>0, <1>a, <1>1 DEF Request, ClientRequest, NewReq, FirstFree
  <1>2. ASSUME NEW k \in Calls, RejectParams(k) PROVE AwaitedAt(j)'
    BY <1>0, <1>a, <1>2 DEF RejectParams
  <1>3. ASSUME NEW k \in Calls, RejectUnknown(k) PROVE AwaitedAt(j)'
    BY <1>0, <1>a, <1>3 DEF RejectUnknown
  <1>4. ASSUME NEW k \in Calls, RecordSend(k) PROVE AwaitedAt(j)'
    BY <1>0, <1>a, <1>4 DEF RecordSend
  <1>5. ASSUME NEW k \in Calls, AcceptRedact(k) PROVE AwaitedAt(j)'
    BY <1>0, <1>a, <1>5 DEF AcceptRedact
  <1>6. ASSUME NEW k \in Calls, DispatchNoSender(k) PROVE AwaitedAt(j)'
    <2>1. /\ UNCHANGED <<req, child, accepted, unsure, lost>>
          /\ \/ /\ pc' = [pc EXCEPT ![k] = "relay"] /\ reply' = reply
                /\ req[k].ttl = 0
             \/ /\ pc' = [pc EXCEPT ![k] = "done"]
                /\ reply' = [reply EXCEPT ![k] = "error"]
      BY <1>6 DEF DispatchNoSender, RelayOrFail, StartRelay, MayRelay
    <2>2. pc[k] = "dispatch"
      BY <1>6 DEF DispatchNoSender
    <2>3. SUFFICES ASSUME Child(j)' PROVE AwaitedAt(j)'
      OBVIOUS
    <2>4. Child(j) /\ req[j].parent \in Calls /\ req[j].parent # k
      BY <1>0, <1>a, <2>1, <2>2, <2>3
    <2>5. pc'[req[j].parent] = pc[req[j].parent]
      BY <1>0, <2>1, <2>4
    <2> QED
      BY <1>0, <1>a, <2>1, <2>2, <2>4, <2>5
  <1>7. ASSUME NEW k \in Calls, DispatchRefused(k) PROVE AwaitedAt(j)'
    BY <1>0, <1>a, <1>7 DEF DispatchRefused
  <1>8. ASSUME NEW k \in Calls, DispatchReady(k) PROVE AwaitedAt(j)'
    BY <1>0, <1>a, <1>8 DEF DispatchReady
  <1>9. ASSUME NEW k \in Calls, SendFnOk(k) PROVE AwaitedAt(j)'
    BY <1>0, <1>a, <1>9 DEF SendFnOk
  <1>10. ASSUME NEW k \in Calls, SendFnNotConnected(k) PROVE AwaitedAt(j)'
    <2>1. /\ UNCHANGED <<req, child, accepted, unsure, lost>>
          /\ \/ /\ pc' = [pc EXCEPT ![k] = "relay"] /\ reply' = reply
                /\ req[k].ttl = 0
             \/ /\ pc' = [pc EXCEPT ![k] = "done"]
                /\ reply' = [reply EXCEPT ![k] = "error"]
      BY <1>10 DEF SendFnNotConnected, RelayOrFail, StartRelay, MayRelay
    <2>2. pc[k] = "sendfn"
      BY <1>10 DEF SendFnNotConnected
    <2>3. SUFFICES ASSUME Child(j)' PROVE AwaitedAt(j)'
      OBVIOUS
    <2>4. Child(j) /\ req[j].parent \in Calls /\ req[j].parent # k
      BY <1>0, <1>a, <2>1, <2>2, <2>3
    <2>5. pc'[req[j].parent] = pc[req[j].parent]
      BY <1>0, <2>1, <2>4
    <2> QED
      BY <1>0, <1>a, <2>1, <2>2, <2>4, <2>5
  <1>11. ASSUME NEW k \in Calls, SendFnError(k) PROVE AwaitedAt(j)'
    BY <1>0, <1>a, <1>11 DEF SendFnError
  <1>12. ASSUME NEW k \in Calls, Ask(k) PROVE AwaitedAt(j)'
    BY <1>0, <1>a, <1>12 DEF Ask, AskPeer, NewReq, FirstFree
  <1>13. ASSUME NEW k \in Calls, Unreachable(k) PROVE AwaitedAt(j)'
    BY <1>0, <1>a, <1>13 DEF Unreachable, PeerUnreachable
  <1>14. ASSUME NEW k \in Calls, PeerAnswers(k) PROVE AwaitedAt(j)'
    <2>1. /\ UNCHANGED <<req, child, accepted, unsure, lost>>
          /\ pc[k] = "wait" /\ pc[child[k]] = "done"
          /\ \/ /\ pc' = [pc EXCEPT ![k] = "done"]
                /\ reply' = [reply EXCEPT ![k] = "ok"]
                /\ reply[child[k]] = "ok"
             \/ /\ pc' = [pc EXCEPT ![k] = "relay"]
                /\ reply' = reply /\ reply[child[k]] # "ok"
      BY <1>14 DEF PeerAnswers
    <2>2. req[k].ttl = 0 /\ ~accepted[k]
      BY <1>a, <2>1
    <2>3. SUFFICES ASSUME Child(j)' PROVE AwaitedAt(j)'
      OBVIOUS
    <2>4. Child(j) /\ req[j].parent \in Calls
      BY <1>0, <1>a, <2>1, <2>3
    <2>5. CASE req[j].parent = k
      BY <1>0, <1>a, <2>1, <2>2, <2>4, <2>5
    <2>6. CASE req[j].parent # k
      <3>1. pc'[req[j].parent] = pc[req[j].parent]
        BY <1>0, <2>1, <2>4, <2>6
      <3>2. j # k => pc'[j] = pc[j] /\ reply'[j] = reply[j]
        BY <1>0, <2>1
      <3>3. j # k
        BY <1>0, <1>a, <2>1, <2>2, <2>4
      <3> QED
        BY <1>0, <1>a, <2>1, <2>4, <3>1, <3>2, <3>3
    <2> QED
      BY <2>5, <2>6
  <1>15. ASSUME NEW k \in Calls, ResponseLost(k) PROVE AwaitedAt(j)'
    BY <1>0, <1>a, <1>15 DEF ResponseLost
  <1>16. ASSUME NEW k \in Calls, PeersExhausted(k) PROVE AwaitedAt(j)'
    BY <1>0, <1>a, <1>16 DEF PeersExhausted
  <1>17. CASE UNCHANGED vars
    BY <1>0, <1>a, <1>17 DEF vars
  <1> QED
    BY <1>1, <1>2, <1>3, <1>4, <1>5, <1>6, <1>7, <1>8, <1>9, <1>10, <1>11, <1>12, <1>13, <1>14, <1>15, <1>16, <1>17 DEF Next, Step

(* What every step leaves true of an execution. *)
Grows(j) ==
    /\ Active(j) => Active(j)' /\ req'[j] = req[j]
    /\ unsure[j] => unsure'[j]
    /\ lost[j] => lost'[j]
    /\ accepted[j] => accepted'[j]
    /\ accepted'[j] /\ ~accepted[j] =>
         /\ pc[j] = "sendfn"
         /\ \A i \in Calls \ {j} : accepted'[i] = accepted[i]
    /\ lost'[j] /\ ~lost[j] => pc[req[j].parent] = "wait"
    /\ reply'[j] = "ok" /\ reply[j] # "ok" =>
         \/ accepted'[j]
         \/ /\ pc[j] = "wait" /\ reply[child[j]] = "ok" /\ pc[child[j]] = "done"
            /\ UNCHANGED <<req, accepted, lost>>

(***************************************************************************)
(* History only grows, and only by the call that runs its backend.         *)
(***************************************************************************)
LEMMA StepHistory ==
    ASSUME Structure, [Next]_vars, NEW j \in Calls
    PROVE  Grows(j)
  <1>0. CallTypes
    BY CallTypesLemma DEF Structure
  <1>a. \A k \in Calls : LoopingAt(k) /\ AnswersAt(k)
    BY DEF Structure, Looping, Answers
  <1> USE DEF CallTypes, Goto, Finish, events, loop, history, Active, Child,
              LoopingAt, AnswersAt
  <1>1. ASSUME NEW k \in Calls, Request(k)
        PROVE Grows(j)
    BY <1>0, <1>a, <1>1 DEF Request, ClientRequest, NewReq, FirstFree, Grows
  <1>2. ASSUME NEW k \in Calls, RejectParams(k) \/ RejectUnknown(k)
        PROVE Grows(j)
    BY <1>0, <1>a, <1>2 DEF RejectParams, RejectUnknown, Grows
  <1>3. ASSUME NEW k \in Calls, RecordSend(k) \/ AcceptRedact(k)
        PROVE Grows(j)
    BY <1>0, <1>a, <1>3 DEF RecordSend, AcceptRedact, Grows
  <1>4. ASSUME NEW k \in Calls, DispatchNoSender(k)
        PROVE Grows(j)
    BY <1>0, <1>a, <1>4 DEF DispatchNoSender, RelayOrFail, StartRelay, MayRelay, Grows
  <1>5. ASSUME NEW k \in Calls, DispatchRefused(k) \/ DispatchReady(k)
        PROVE Grows(j)
    BY <1>0, <1>a, <1>5 DEF DispatchRefused, DispatchReady, Grows
  <1>6. ASSUME NEW k \in Calls, SendFnOk(k)
        PROVE Grows(j)
    BY <1>0, <1>a, <1>6 DEF SendFnOk, Grows
  <1>7. ASSUME NEW k \in Calls, SendFnNotConnected(k)
        PROVE Grows(j)
    BY <1>0, <1>a, <1>7 DEF SendFnNotConnected, RelayOrFail, StartRelay, MayRelay, Grows
  <1>8. ASSUME NEW k \in Calls, SendFnError(k)
        PROVE Grows(j)
    BY <1>0, <1>a, <1>8 DEF SendFnError, Grows
  <1>9. ASSUME NEW k \in Calls, Ask(k)
        PROVE Grows(j)
    BY <1>0, <1>a, <1>9 DEF Ask, AskPeer, NewReq, FirstFree, Grows
  <1>10. ASSUME NEW k \in Calls, Unreachable(k)
        PROVE Grows(j)
    BY <1>0, <1>a, <1>10 DEF Unreachable, PeerUnreachable, Grows
  <1>11. ASSUME NEW k \in Calls, PeerAnswers(k)
        PROVE Grows(j)
    BY <1>0, <1>a, <1>11 DEF PeerAnswers, Grows
  <1>12. ASSUME NEW k \in Calls, ResponseLost(k)
        PROVE Grows(j)
    BY <1>0, <1>a, <1>12 DEF ResponseLost, Grows
  <1>13. ASSUME NEW k \in Calls, PeersExhausted(k)
        PROVE Grows(j)
    BY <1>0, <1>a, <1>13 DEF PeersExhausted, Grows
  <1>14. CASE UNCHANGED vars
    BY <1>14 DEF vars, Grows
  <1> QED
    BY <1>1, <1>2, <1>3, <1>4, <1>5, <1>6, <1>7, <1>8, <1>9, <1>10, <1>11, <1>12, <1>13, <1>14 DEF Next, Step

(***************************************************************************)
(* A new copy next to an older one of the same request: the caller gave    *)
(* one of them up, or the older one's backend had failed.                  *)
(***************************************************************************)
LEMMA NewCopy ==
    ASSUME Structure, NEW j \in Calls, NEW k \in Calls, j # k,
           Active(j), Active(k), SameRequest(j, k),
           pc[j] = "sendfn", accepted[k]
    PROVE  lost[j] \/ lost[k] \/ unsure[k]
  <1>0. /\ TreeAt(j) /\ TreeAt(k) /\ AnswersAt(k)
        /\ AwaitedAt(j) /\ AwaitedAt(k)
    BY DEF Structure, Tree, Answers, Awaited
  <1>1. NoCall \notin Calls
    OBVIOUS
  <1>2. CASE req[j].parent = k
    BY <1>0, <1>1, <1>2 DEF TreeAt, Child
  <1>3. CASE req[k].parent = j
    BY <1>0, <1>1, <1>3 DEF TreeAt, Child
  <1>4. CASE req[j].parent # NoCall /\ req[j].parent = req[k].parent
    BY <1>0, <1>4 DEF AwaitedAt, AnswersAt, Child
  <1> QED
    BY <1>2, <1>3, <1>4 DEF SameRequest

(* Two backends take one request only if something was in doubt. *)
LEMMA StepDuplicate ==
    Structure /\ DuplicateNeedsDoubt /\ [Next]_vars => DuplicateNeedsDoubt'
  <1> SUFFICES ASSUME Structure, DuplicateNeedsDoubt, [Next]_vars,
                      NEW j \in Calls, NEW k \in Calls, j # k,
                      Active(j)', Active(k)', SameRequest(j, k)',
                      accepted'[j], accepted'[k]
               PROVE  lost'[j] \/ lost'[k] \/ unsure'[j] \/ unsure'[k]
    BY DEF DuplicateNeedsDoubt
  <1>1. Grows(j) /\ Grows(k)
    BY StepHistory
  <1>2. AnswersAt(j) /\ AnswersAt(k)
    BY DEF Structure, Answers
  <1>3. Active(j) /\ Active(k)
    BY <1>1, <1>2 DEF Grows, AnswersAt, Active
  <1>4. SameRequest(j, k) /\ SameRequest(k, j)
    BY <1>1, <1>3 DEF Grows, SameRequest
  <1>5. CASE accepted[j] /\ accepted[k]
    BY <1>1, <1>3, <1>4, <1>5 DEF Grows, DuplicateNeedsDoubt
  <1>6. CASE ~accepted[j]
    <2>1. pc[j] = "sendfn" /\ accepted[k]
      BY <1>1, <1>6 DEF Grows
    <2> QED
      BY <1>1, <1>3, <1>4, <2>1, NewCopy DEF Grows
  <1>7. CASE ~accepted[k]
    <2>1. pc[k] = "sendfn" /\ accepted[j]
      BY <1>1, <1>7 DEF Grows
    <2> QED
      BY <1>1, <1>3, <1>4, <2>1, NewCopy DEF Grows
  <1> QED
    BY <1>5, <1>6, <1>7

(* An answer 200 has a copy behind it that nobody gave up. *)
LEMMA StepDelivered ==
    Structure /\ OkIsDelivered /\ [Next]_vars => OkIsDelivered'
  <1> SUFFICES ASSUME Structure, OkIsDelivered, [Next]_vars,
                      NEW k \in Calls, Active(k)', reply'[k] = "ok"
               PROVE  \/ accepted'[k]
                      \/ \E j \in Calls : /\ Active(j)'
                                          /\ req'[j].parent = k
                                          /\ accepted'[j]
                                          /\ ~lost'[j]
    BY DEF OkIsDelivered
  <1>1. \A j \in Calls : Grows(j) /\ TreeAt(j) /\ LoopingAt(j) /\ AnswersAt(j)
    BY StepHistory DEF Structure, Tree, Looping, Answers
  <1>2. CASE reply[k] = "ok"
    <2>1. pc[k] = "done" /\ Active(k)
      BY <1>1, <1>2 DEF AnswersAt, Active
    <2>2. CASE accepted[k]
      BY <1>1, <2>2 DEF Grows
    <2>3. CASE ~accepted[k]
      <3>1. PICK j \in Calls : /\ Active(j) /\ req[j].parent = k
                               /\ accepted[j] /\ ~lost[j]
        BY <1>2, <2>1, <2>3 DEF OkIsDelivered
      <3>2. /\ Active(j)' /\ req'[j].parent = k
            /\ accepted'[j] /\ ~lost'[j]
        BY <1>1, <2>1, <3>1 DEF Grows
      <3> QED
        BY <3>2
    <2> QED
      BY <2>2, <2>3
  <1>3. CASE reply[k] # "ok" /\ ~accepted'[k]
    <2>0. /\ pc[k] = "wait" /\ reply[child[k]] = "ok" /\ pc[child[k]] = "done"
          /\ UNCHANGED <<req, accepted, lost>>
      BY <1>1, <1>3 DEF Grows
    <2>1. PICK c \in Calls : c = child[k]
      BY <1>1, <2>0 DEF LoopingAt
    <2>2. /\ Child(c) /\ req[c].parent = k /\ ~lost[c]
          /\ pc[c] = "done" /\ reply[c] = "ok"
      BY <1>1, <2>0, <2>1 DEF LoopingAt
    <2>3. accepted[c]
      BY <1>1, <2>2 DEF TreeAt, AnswersAt
    <2>4. Active(c)'
      BY <1>1, <2>2 DEF Grows, Child
    <2> QED
      BY <2>0, <2>2, <2>3, <2>4
  <1> QED
    BY <1>2, <1>3

-----------------------------------------------------------------------------
(* The inductive invariant holds at the start. *)
LEMMA InitStructure == Init => Structure /\ OkIsDelivered /\ DuplicateNeedsDoubt
  <1> SUFFICES ASSUME Init PROVE Structure /\ OkIsDelivered /\ DuplicateNeedsDoubt
    OBVIOUS
  <1>1. TypeOK
    BY InitType
  <1>2. \A k \in Calls : /\ pc[k] = "free" /\ reply[k] = "none"
                         /\ ~accepted[k] /\ ~lost[k]
    BY DEF Init, InitCalls
  <1>3. Tree /\ Looping /\ Answers /\ Awaited
    BY <1>2 DEF Tree, TreeAt, Looping, LoopingAt, Answers, AnswersAt, Awaited,
         AwaitedAt, Child, Active
  <1>4. OkIsDelivered /\ DuplicateNeedsDoubt
    BY <1>2 DEF OkIsDelivered, DuplicateNeedsDoubt
  <1> QED
    BY <1>1, <1>3, <1>4 DEF Structure

(* Each step keeps the inductive invariant. *)
LEMMA StepStructure == Structure /\ [Next]_vars => Structure'
  <1> QED
    BY StepType, StepTree, StepLooping, StepAnswers, StepAwaited DEF Structure

(* The inductive invariant holds in every reachable state. *)
LEMMA SpecStructure == Spec => []Structure
  <1> QED
    BY InitStructure, StepStructure, PTL DEF Spec

(***************************************************************************)
(* Type correctness, for every instance.                                   *)
(***************************************************************************)
THEOREM TypeCorrect == Spec => []TypeOK
  <1> QED
    BY InitType, StepType, PTL DEF Spec

(***************************************************************************)
(* Relaying never chains, whatever the number of nodes and requests: the   *)
(* ttl written by ForeachSend is enough to keep requests from circling.    *)
(***************************************************************************)
THEOREM RelayTheorem == Spec => []NoRelayChain
  <1>1. Structure => NoRelayChain
    <2> SUFFICES ASSUME Structure, NEW k \in Calls, Child(k)
                 PROVE  /\ Active(req[k].parent)
                        /\ req[req[k].parent].parent = NoCall
      BY DEF NoRelayChain, Child
    <2>1. TreeAt(k)
      BY DEF Structure, Tree
    <2> QED
      BY <2>1 DEF TreeAt, Active
  <1> QED
    BY <1>1, SpecStructure, PTL

(***************************************************************************)
(* A request answered 200 was taken, by the node that answered or by the   *)
(* peer it heard.                                                          *)
(***************************************************************************)
THEOREM DeliveryTheorem == Spec => []OkIsDelivered
  <1>1. Init => Structure /\ OkIsDelivered
    BY InitStructure
  <1>2. Structure /\ OkIsDelivered /\ [Next]_vars
          => (Structure /\ OkIsDelivered)'
    BY StepStructure, StepDelivered
  <1> QED
    BY <1>1, <1>2, PTL DEF Spec

(***************************************************************************)
(* A request is taken by two backends only after an outcome nobody could   *)
(* know, for every cluster and every interleaving of the handlers.         *)
(***************************************************************************)
THEOREM DuplicateTheorem == Spec => []DuplicateNeedsDoubt
  <1>1. Init => Structure /\ DuplicateNeedsDoubt
    BY InitStructure
  <1>2. Structure /\ DuplicateNeedsDoubt /\ [Next]_vars
          => (Structure /\ DuplicateNeedsDoubt)'
    BY StepStructure, StepDuplicate
  <1> QED
    BY <1>1, <1>2, PTL DEF Spec

-----------------------------------------------------------------------------
(* The event log of a node. *)

(* evs holds the latest of the ids 1 .. next - 1, as many as fit. *)
Latest(evs, next) ==
    /\ Len(evs) <= MaxEvents
    /\ \A i \in 1..Len(evs) : evs[i] + Len(evs) = next + i - 1
    /\ Len(evs) < MaxEvents => Len(evs) = next - 1

(***************************************************************************)
(* The cut to capacity - 1 and the append drop the oldest id only.         *)
(***************************************************************************)
LEMMA AppendEventLatest ==
    ASSUME NEW evs \in Seq(Nat), NEW next \in Nat \ {0}, Latest(evs, next)
    PROVE  Latest(AppendEvent(evs, next), next + 1)
  <1>1. CASE Len(evs) < MaxEvents
    <2>1. AppendEvent(evs, next) = Append(evs, next)
      BY <1>1 DEF AppendEvent
    <2>2. Len(Append(evs, next)) = Len(evs) + 1
      OBVIOUS
    <2>3. ASSUME NEW i \in 1..(Len(evs) + 1)
          PROVE  Append(evs, next)[i] + (Len(evs) + 1) = (next + 1) + i - 1
      BY <1>1 DEF Latest
    <2> QED
      BY <1>1, <2>1, <2>2, <2>3 DEF Latest
  <1>2. CASE Len(evs) = MaxEvents
    <2> DEFINE cut == SubSeq(evs, 2, Len(evs))
    <2>1. AppendEvent(evs, next) = Append(cut, next)
      <3>1. Len(evs) - (MaxEvents - 1) + 1 = 2 /\ Len(evs) > MaxEvents - 1
        BY <1>2
      <3> QED
        BY <1>2, <3>1 DEF AppendEvent, LastN
    <2>2. /\ cut \in Seq(Nat)
          /\ Len(cut) = Len(evs) - 1
          /\ \A i \in 1..(Len(evs) - 1) : cut[i] = evs[i + 1]
      BY <1>2
    <2> HIDE DEF cut
    <2>3. Len(Append(cut, next)) = Len(evs)
      BY <2>2
    <2>4. ASSUME NEW i \in 1..Len(evs)
          PROVE  Append(cut, next)[i] + Len(evs) = (next + 1) + i - 1
      <3>1. CASE i = Len(evs)
        BY <2>2, <3>1
      <3>2. CASE i < Len(evs)
        <4>1. Append(cut, next)[i] = evs[i + 1]
          BY <2>2, <3>2
        <4>2. evs[i + 1] + Len(evs) = next + (i + 1) - 1
          BY <3>2 DEF Latest
        <4>3. evs[i + 1] \in Nat
          BY <3>2
        <4> QED
          BY <4>1, <4>2, <4>3
      <3>3. i = Len(evs) \/ i < Len(evs)
        OBVIOUS
      <3> QED
        BY <3>1, <3>2, <3>3
    <2>5. PICK new : new = Append(cut, next)
      OBVIOUS
    <2>6. Len(new) = Len(evs) 
      BY <2>3, <2>5
    <2>7. \A i \in 1..Len(new) : new[i] + Len(new) = (next + 1) + i - 1
      BY <2>4, <2>5, <2>6
    <2>8. Latest(new, next + 1)
      BY <1>2, <2>6, <2>7 DEF Latest
    <2> QED
      BY <2>1, <2>5, <2>8
  <1> QED
    BY <1>1, <1>2 DEF Latest

(* Only a recorded send writes the log, and it writes one event. *)
LEMMA StepEvents ==
    TypeOK /\ EventsAreLatest /\ [Next]_vars => EventsAreLatest'
  <1> SUFFICES ASSUME TypeOK, EventsAreLatest, [Next]_vars, NEW n \in Nodes
               PROVE  Latest(simEvents'[n], simNextID'[n])
    BY DEF EventsAreLatest, Latest
  <1>1. Latest(simEvents[n], simNextID[n])
    BY DEF EventsAreLatest, Latest
  <1>2. CASE UNCHANGED events
    BY <1>1, <1>2 DEF events
  <1>3. ASSUME NEW k \in Calls, RecordSend(k)
        PROVE  Latest(simEvents'[n], simNextID'[n])
    <2>1. CASE req[k].node = n
      <3>1. simEvents[n] \in Seq(Nat) /\ simNextID[n] \in Nat \ {0}
        BY DEF TypeOK
      <3>2. Latest(AppendEvent(simEvents[n], simNextID[n]), simNextID[n] + 1)
        BY <1>1, <3>1, AppendEventLatest
      <3>3. /\ simEvents'[n] = AppendEvent(simEvents[n], simNextID[n])
            /\ simNextID'[n] = simNextID[n] + 1
        BY <1>3, <2>1 DEF RecordSend, TypeOK
      <3> QED
        BY <3>2, <3>3
    <2>2. CASE req[k].node # n
      BY <1>1, <1>3, <2>2 DEF RecordSend, TypeOK
    <2> QED
      BY <2>1, <2>2
  <1>4. UNCHANGED events \/ \E k \in Calls : RecordSend(k)
    BY DEF Next, Step, Request, ClientRequest, RejectParams, RejectUnknown,
           AcceptRedact, DispatchNoSender, DispatchRefused, DispatchReady,
           SendFnOk, SendFnNotConnected, SendFnError, Ask, AskPeer,
           Unreachable, PeerUnreachable, PeerAnswers, ResponseLost,
           PeersExhausted, vars, events
  <1> QED
    BY <1>2, <1>3, <1>4

(***************************************************************************)
(* The event log of a node, whatever its capacity: nothing but the oldest  *)
(* events is ever missing from it.                                         *)
(***************************************************************************)
THEOREM EventsTheorem == Spec => []EventsAreLatest
  <1>1. Init => TypeOK /\ EventsAreLatest
    <2>1. Init => EventsAreLatest
      BY DEF Init, EventsAreLatest
    <2> QED
      BY <2>1, InitType
  <1>2. TypeOK /\ EventsAreLatest /\ [Next]_vars
          => (TypeOK /\ EventsAreLatest)'
    BY StepType, StepEvents
  <1> QED
    BY <1>1, <1>2, PTL DEF Spec

-----------------------------------------------------------------------------
(* The refinement of SendService. *)

(* The copies and the doubts of a client's request, as sets of executions. *)
CopySet(r) == {k \in Family(r) : accepted[k]}
DoubtSet(r) == {k \in Family(r) : lost[k] \/ unsure[k]}

(* Only finitely many executions have started; only they leave marks. *)
Marked ==
    /\ IsFiniteSet({k \in Calls : Active(k)})
    /\ \A k \in Calls : unsure[k] => Active(k)

ServiceInv == Structure /\ DuplicateNeedsDoubt /\ Marked

(***************************************************************************)
(* Two finite sets: if all but at most one element of the first is in the  *)
(* second, and the exception is paid for by an element of its own, the     *)
(* first is not the larger one.                                            *)
(***************************************************************************)
LEMMA Paid ==
    ASSUME NEW C, NEW D, IsFiniteSet(C), IsFiniteSet(D),
           \A i, j \in C \ D : i = j,
           C \ D # {} => D \ C # {}
    PROVE  Cardinality(C) <= Cardinality(D)
  <1>1. CASE C \subseteq D
    BY <1>1, FS_Subset
  <1>2. CASE ~(C \subseteq D)
    <2>1. PICK i \in C : i \notin D
      BY <1>2
    <2>2. PICK k \in D : k \notin C
      BY <2>1
    <2>3. C \ {i} \subseteq D \ {k}
      BY <2>1, <2>2
    <2>4. /\ IsFiniteSet(C \ {i}) /\ IsFiniteSet(D \ {k})
          /\ Cardinality(C \ {i}) = Cardinality(C) - 1
          /\ Cardinality(D \ {k}) = Cardinality(D) - 1
      BY <2>1, <2>2, FS_RemoveElement
    <2>5. Cardinality(C \ {i}) <= Cardinality(D \ {k})
      BY <2>3, <2>4, FS_Subset
    <2>6. Cardinality(C) \in Nat /\ Cardinality(D) \in Nat
      BY FS_CardinalityType
    <2> QED
      BY <2>4, <2>5, <2>6
  <1> QED
    BY <1>1, <1>2

(* Adding an element to a finite set. *)
LEMMA AddedElement ==
    ASSUME NEW S, IsFiniteSet(S), NEW x
    PROVE  /\ Cardinality(S \cup {x}) \in Nat \ {0}
           /\ x \notin S => Cardinality(S \cup {x}) = Cardinality(S) + 1
           /\ \/ Cardinality(S \cup {x}) = Cardinality(S) + 1
              \/ Cardinality(S \cup {x}) = Cardinality(S)
  <1>1. IsFiniteSet(S \cup {x})
    BY FS_AddElement
  <1>2. Cardinality(S \cup {x}) \in Nat /\ Cardinality(S) \in Nat
    BY <1>1, FS_CardinalityType
  <1>3. S \cup {x} # {}
    OBVIOUS
  <1>4. Cardinality(S \cup {x}) # 0
    BY <1>1, <1>3, FS_EmptySet
  <1>5. CASE x \in S
    <2>1. S \cup {x} = S
      BY <1>5
    <2> QED
      BY <1>2, <1>4, <1>5, <2>1
  <1>6. CASE x \notin S
    BY <1>2, <1>4, <1>6, FS_AddElement
  <1> QED
    BY <1>5, <1>6

(* An execution starts when it is created, and marks it when it runs. *)
LEMMA StepMarks ==
    ASSUME Structure, Marked, [Next]_vars, NEW j \in Calls
    PROVE  /\ unsure'[j] /\ ~unsure[j] => pc[j] = "sendfn"
           /\ lost'[j] /\ ~lost[j] => Active(j)
  <1>0. CallTypes
    BY CallTypesLemma DEF Structure
  <1>a. LoopingAt(j) /\ \A k \in Calls : LoopingAt(k)
    BY DEF Structure, Looping
  <1>1. UNCHANGED <<unsure, lost>> \/
        \E k \in Calls : SendFnError(k) \/ ResponseLost(k)
    BY DEF Next, Step, Request, ClientRequest, RejectParams, RejectUnknown,
           RecordSend, AcceptRedact, DispatchNoSender, DispatchRefused,
           DispatchReady, SendFnOk, SendFnNotConnected, Ask, AskPeer,
           Unreachable, PeerUnreachable, PeerAnswers, PeersExhausted, vars, history
  <1>2. ASSUME NEW k \in Calls, SendFnError(k)
        PROVE  /\ unsure'[j] /\ ~unsure[j] => pc[j] = "sendfn"
               /\ lost'[j] /\ ~lost[j] => Active(j)
    BY <1>0, <1>2 DEF SendFnError, CallTypes
  <1>3. ASSUME NEW k \in Calls, ResponseLost(k)
        PROVE  /\ unsure'[j] /\ ~unsure[j] => pc[j] = "sendfn"
               /\ lost'[j] /\ ~lost[j] => Active(j)
    BY <1>0, <1>a, <1>3 DEF ResponseLost, CallTypes, LoopingAt, Child
  <1> QED
    BY <1>1, <1>2, <1>3

(* One step starts one execution at most. *)
LEMMA StepStarts ==
    ASSUME Structure, [Next]_vars
    PROVE  \E j : \A k \in Calls : k # j /\ Active(k)' => Active(k)
  <1>0. CallTypes
    BY CallTypesLemma DEF Structure
  <1> USE DEF Active, CallTypes, Goto, Finish
  <1>1. ASSUME NEW k \in Calls, Request(k)
        PROVE  \A i \in Calls : i # k /\ Active(i)' => Active(i)
    BY <1>0, <1>1 DEF Request, ClientRequest
  <1>2. ASSUME NEW k \in Calls, NEW j \in Calls \ {k}, NEW p \in Nodes,
               AskPeer(k, j, p)
        PROVE  \A i \in Calls : i # j /\ Active(i)' => Active(i)
    BY <1>0, <1>2 DEF AskPeer
  <1>3. ASSUME NEW k \in Calls, Step(k), ~Ask(k)
        PROVE  \A i \in Calls : i # k /\ Active(i)' => Active(i)
    BY <1>0, <1>3 DEF Step, RejectParams, RejectUnknown,
           RecordSend, AcceptRedact, DispatchNoSender, DispatchRefused,
           DispatchReady, SendFnOk, SendFnNotConnected, SendFnError, RelayOrFail,
           StartRelay, ResponseLost,
           Unreachable, PeerUnreachable, PeerAnswers, PeersExhausted
  <1>4. CASE UNCHANGED vars
    <2>1. \A k \in Calls : Active(k)' => Active(k)
      BY <1>4 DEF vars
    <2> QED
      BY <2>1
  <1> QED
    BY <1>1, <1>2, <1>3, <1>4 DEF Next, Ask

(* A step starts one execution at most, and only started ones are marked. *)
LEMMA StepMarked == Structure /\ Marked /\ [Next]_vars => Marked'
  <1> SUFFICES ASSUME Structure, Marked, [Next]_vars PROVE Marked'
    OBVIOUS
  <1>1. ASSUME NEW k \in Calls, unsure'[k] PROVE Active(k)'
    <2>1. Active(k)
      BY <1>1, StepMarks DEF Marked, Active
    <2> QED
      BY <2>1, StepHistory DEF Grows
  <1>2. IsFiniteSet({k \in Calls : Active(k)}')
    <2> DEFINE A == {k \in Calls : Active(k)}
               B == {k \in Calls : pc'[k] # "free"}
    <2>1. PICK j : \A k \in Calls : k # j /\ Active(k)' => Active(k)
      BY StepStarts
    <2>2. B \subseteq A \cup {j}
      BY <2>1 DEF Active
    <2>3. IsFiniteSet(A \cup {j})
      BY FS_AddElement DEF Marked
    <2>4. IsFiniteSet(B)
      BY <2>2, <2>3, FS_Subset
    <2> QED
      BY <2>4 DEF Active
  <1> QED
    BY <1>1, <1>2 DEF Marked

(* No execution has started. *)
LEMMA InitMarked == Init => Marked
  <1> SUFFICES ASSUME Init PROVE Marked
    OBVIOUS
  <1>1. {k \in Calls : Active(k)} = {}
    BY DEF Init, InitCalls, Active
  <1>2. IsFiniteSet({})
    BY FS_EmptySet
  <1> QED
    BY <1>1, <1>2 DEF Marked, Init, InitCalls

(* What the refinement needs holds at the start ... *)
LEMMA InitServiceInv == Init => ServiceInv
  BY InitStructure, InitMarked DEF ServiceInv

(* ... and after every step. *)
LEMMA StepServiceInv == ServiceInv /\ [Next]_vars => ServiceInv'
  BY StepStructure, StepDuplicate, StepMarked DEF ServiceInv

-----------------------------------------------------------------------------
(* An execution of a family has started; so has the client's call. *)
LEMMA FamilyActive ==
    ASSUME Structure, NEW r \in Calls, NEW k \in Family(r)
    PROVE  /\ k \in Calls /\ Active(k) /\ Active(r)
           /\ req[r].parent = NoCall
           /\ k # r => Child(k) /\ req[k].parent = r
  <1>1. k \in Calls /\ Active(k) /\ req[r].parent = NoCall
        /\ (k = r \/ req[k].parent = r)
    BY DEF Family
  <1>2. TreeAt(k)
    BY <1>1 DEF Structure, Tree
  <1>3. r # NoCall
    OBVIOUS
  <1> QED
    BY <1>1, <1>2, <1>3 DEF TreeAt, Child, Active

(***************************************************************************)
(* A step changes the copies and the doubts of a request by the marks it   *)
(* sets only: an execution that starts has none.                           *)
(***************************************************************************)
LEMMA FamilyStep ==
    ASSUME ServiceInv, [Next]_vars, NEW r \in Calls
    PROVE  /\ CopySet(r)' = {k \in Family(r) : accepted'[k]}
           /\ DoubtSet(r)' = {k \in Family(r) : lost'[k] \/ unsure'[k]}
  <1>0. Structure /\ Marked
    BY DEF ServiceInv
  <1>1. \A k \in Calls : Grows(k) /\ TreeAt(k) /\ AnswersAt(k) /\ LoopingAt(k)
    BY <1>0, StepHistory DEF Structure, Tree, Answers, Looping
  <1>2. ASSUME NEW k \in Calls, accepted'[k] \/ lost'[k] \/ unsure'[k]
        PROVE  Active(k)
    BY <1>0, <1>1, <1>2, StepMarks DEF Grows, AnswersAt, LoopingAt, Marked, Active
  <1>3. ASSUME NEW k \in Calls, Active(k) PROVE k \in Family(r)' <=> k \in Family(r)
    <2>1. Active(k)' /\ req'[k] = req[k]
      BY <1>1, <1>3 DEF Grows
    <2>2. CASE Active(r)
      <3>1. req'[r] = req[r]
        BY <1>1, <2>2 DEF Grows
      <3> QED
        BY <1>3, <2>1, <3>1 DEF Family
    <2>3. CASE ~Active(r)
      <3>1. k # r
        BY <1>3, <2>3
      <3>2. req[k].parent # r
        BY <1>1, <1>3, <2>3 DEF TreeAt, Child, Active
      <3> QED
        BY <2>1, <3>1, <3>2 DEF Family
    <2> QED
      BY <2>2, <2>3
  <1>4. \A k \in Family(r) : k \in Calls /\ Active(k)
    BY DEF Family
  <1>5. \A k \in Family(r)' : k \in Calls
    BY DEF Family
  <1>6. CopySet(r)' = {k \in Family(r)' : accepted'[k]}
        /\ DoubtSet(r)' = {k \in Family(r)' : lost'[k] \/ unsure'[k]}
    BY DEF CopySet, DoubtSet
  <1> QED
    BY <1>2, <1>3, <1>4, <1>5, <1>6

(* The copies and the doubts of a request can be counted. *)
LEMMA FamilyFinite ==
    ASSUME Marked, NEW r \in Calls
    PROVE  /\ IsFiniteSet(CopySet(r)) /\ IsFiniteSet(DoubtSet(r))
           /\ Cardinality(CopySet(r)) \in Nat /\ Cardinality(DoubtSet(r)) \in Nat
  <1>1. CopySet(r) \subseteq {k \in Calls : Active(k)}
    BY DEF CopySet, Family
  <1>2. DoubtSet(r) \subseteq {k \in Calls : Active(k)}
    BY DEF DoubtSet, Family
  <1>3. IsFiniteSet({k \in Calls : Active(k)})
    BY DEF Marked
  <1>4. IsFiniteSet(CopySet(r)) /\ IsFiniteSet(DoubtSet(r))
    BY <1>1, <1>2, <1>3, FS_Subset
  <1> QED
    BY <1>4, FS_CardinalityType

(***************************************************************************)
(* When a backend is about to take a request, every copy taken before is   *)
(* matched by a doubt.                                                     *)
(***************************************************************************)
LEMMA CopiesPaid ==
    ASSUME ServiceInv, NEW r \in Calls, NEW k \in Family(r), pc[k] = "sendfn"
    PROVE  Cardinality(CopySet(r)) <= Cardinality(DoubtSet(r))
  <1>0. Structure /\ Marked /\ DuplicateNeedsDoubt
    BY DEF ServiceInv
  <1>1. k \in Calls /\ Active(k) /\ req[r].parent = NoCall
        /\ ~accepted[k] /\ (k = r \/ req[k].parent = r)
    BY <1>0 DEF Family, Structure, Answers, AnswersAt
  <1>2. ASSUME NEW i \in CopySet(r), NEW j \in CopySet(r), i # j
        PROVE  i \in DoubtSet(r) \/ j \in DoubtSet(r)
    <2>1. /\ i \in Calls /\ Active(i) /\ (i = r \/ req[i].parent = r) /\ accepted[i]
          /\ j \in Calls /\ Active(j) /\ (j = r \/ req[j].parent = r) /\ accepted[j]
          /\ i \in Family(r) /\ j \in Family(r)
      BY DEF CopySet, Family
    <2>2. SameRequest(i, j)
      BY <1>2, <2>1 DEF SameRequest
    <2>3. lost[i] \/ lost[j] \/ unsure[i] \/ unsure[j]
      BY <1>0, <1>2, <2>1, <2>2 DEF DuplicateNeedsDoubt
    <2> QED
      BY <2>1, <2>3 DEF DoubtSet
  <1>3. ASSUME NEW i \in CopySet(r), i \notin DoubtSet(r)
        PROVE  k \in DoubtSet(r) /\ k \notin CopySet(r)
    <2>1. /\ i \in Calls /\ Active(i) /\ (i = r \/ req[i].parent = r) /\ accepted[i]
          /\ i \in Family(r)
      BY DEF CopySet, Family
    <2>2. ~lost[i] /\ ~unsure[i]
      BY <1>3, <2>1 DEF DoubtSet
    <2>3. i # k
      BY <1>1, <2>1
    <2>4. SameRequest(k, i)
      BY <1>1, <2>1, <2>3 DEF SameRequest
    <2>5. lost[k]
      BY <1>0, <1>1, <2>1, <2>2, <2>3, <2>4, NewCopy
    <2> QED
      BY <1>1, <2>5 DEF DoubtSet, CopySet
  <1>4. IsFiniteSet(CopySet(r)) /\ IsFiniteSet(DoubtSet(r))
    BY <1>0, FamilyFinite
  <1> QED
    BY <1>2, <1>3, <1>4, Paid

-----------------------------------------------------------------------------
(* The abstract state of request r and what a step may do to it. *)
Copies(r) == Cardinality(CopySet(r))
Doubts(r) == Cardinality(DoubtSet(r))

Still(r) ==
    /\ ClientStatus(r)' = ClientStatus(r)
    /\ Copies(r)' = Copies(r)
    /\ Doubts(r)' = Doubts(r)

(* What one attempt of the service may do to its request. *)
Attempted(r) ==
    /\ ClientStatus(r) # "idle"
    /\ \/ Copies(r) <= Doubts(r) /\ Copies(r)' = Copies(r) + 1
       \/ Copies(r)' = Copies(r)
    /\ Doubts(r)' = Doubts(r) + 1 \/ Doubts(r)' = Doubts(r)
    /\ \/ ClientStatus(r) = "open" /\ ClientStatus(r)' = "ok" /\ Copies(r)' > 0
       \/ /\ ClientStatus(r) = "open" /\ ClientStatus(r)' = "failed"
          /\ Copies(r)' = 0 \/ Doubts(r)' > 0
       \/ ClientStatus(r)' = ClientStatus(r)

Opened(r) ==
    /\ ClientStatus(r) = "idle" /\ ClientStatus(r)' = "open"
    /\ Copies(r)' = Copies(r) /\ Doubts(r)' = Doubts(r)

(* An attempt of one request is a step of the service. *)
LEMMA AttemptMaps ==
    ASSUME NEW r \in Calls, Attempted(r), \A s \in Calls \ {r} : Still(s)
    PROVE  Service!Next
  <1> DEFINE st == [s \in Calls |-> ClientStatus(s)]
             cp == [s \in Calls |-> Copies(s)]
             db == [s \in Calls |-> Doubts(s)]
  <1>1. /\ st' = [st EXCEPT ![r] = ClientStatus(r)']
        /\ cp' = [cp EXCEPT ![r] = Copies(r)']
        /\ db' = [db EXCEPT ![r] = Doubts(r)']
    BY DEF Still
  <1>2. st[r] = ClientStatus(r) /\ cp[r] = Copies(r) /\ db[r] = Doubts(r)
        /\ cp'[r] = Copies(r)' /\ db'[r] = Doubts(r)'
    OBVIOUS
  <1>3. \A s \in Calls : st[s] = ClientStatus(s)
    OBVIOUS
  <1>4. st = [st EXCEPT ![r] = ClientStatus(r)]
        /\ cp = [cp EXCEPT ![r] = Copies(r)]
        /\ db = [db EXCEPT ![r] = Doubts(r)]
    OBVIOUS
  <1> HIDE DEF st, cp, db
  <1>5. /\ st[r] # "idle"
        /\ \/ cp[r] <= db[r] /\ cp' = [cp EXCEPT ![r] = @ + 1]
           \/ cp' = cp
        /\ db' = [db EXCEPT ![r] = @ + 1] \/ db' = db
        /\ \/ st[r] = "open" /\ cp'[r] > 0 /\ st' = [st EXCEPT ![r] = "ok"]
           \/ /\ st[r] = "open"
              /\ cp'[r] = 0 \/ db'[r] > 0
              /\ st' = [st EXCEPT ![r] = "failed"]
           \/ st' = st
    BY <1>1, <1>2, <1>4 DEF Attempted
  <1>6. Service!Attempt(r)
    BY <1>5 DEF Service!Attempt, Service!Deliver, Service!Doubt, Service!Answer,
           st, cp, db, Copies, Doubts, CopySet, DoubtSet
  <1> QED
    BY <1>6 DEF Service!Next

(* So is the opening of a request. *)
LEMMA OpenMaps ==
    ASSUME NEW r \in Calls, Opened(r), \A s \in Calls \ {r} : Still(s)
    PROVE  Service!Next
  <1> DEFINE st == [s \in Calls |-> ClientStatus(s)]
             cp == [s \in Calls |-> Copies(s)]
             db == [s \in Calls |-> Doubts(s)]
  <1>1. /\ st' = [st EXCEPT ![r] = "open"] /\ st[r] = "idle"
        /\ cp' = cp /\ db' = db
    BY DEF Still, Opened
  <1> HIDE DEF st, cp, db
  <1>2. Service!Open(r)
    BY <1>1 DEF Service!Open, st, cp, db, Copies, Doubts, CopySet, DoubtSet
  <1> QED
    BY <1>2 DEF Service!Next

(* A step that changes no request's abstract state is a stutter. *)
LEMMA StillMaps ==
    ASSUME \A s \in Calls : Still(s)
    PROVE  UNCHANGED Service!svars
  BY DEF Still, Copies, Doubts, CopySet, DoubtSet, Service!svars

(* The request an execution belongs to. *)
Root(k) == IF req[k].parent = NoCall THEN k ELSE req[k].parent

(* An execution belongs to one request, which is not idle. *)
LEMMA RootFamily ==
    ASSUME Structure, NEW k \in Calls, Active(k)
    PROVE  /\ Root(k) \in Calls /\ k \in Family(Root(k))
           /\ ClientStatus(Root(k)) # "idle"
           /\ \A s \in Calls : k \in Family(s) => s = Root(k)
  <1>1. CallTypes
    BY CallTypesLemma DEF Structure
  <1>2. TreeAt(k)
    BY DEF Structure, Tree
  <1>3. NoCall \notin Calls
    OBVIOUS
  <1>4. CASE req[k].parent = NoCall
    BY <1>3, <1>4 DEF Root, Family, ClientStatus
  <1>5. CASE req[k].parent # NoCall
    <2>1. req[k].parent \in Calls /\ Active(req[k].parent)
          /\ req[req[k].parent].parent = NoCall
      BY <1>1, <1>2, <1>5 DEF CallTypes, TreeAt, Child, Active
    <2> QED
      BY <1>5, <2>1 DEF Root, Family, ClientStatus
  <1> QED
    BY <1>4, <1>5

(* What a step that leaves the marks of a family alone does to its counts. *)
LEMMA QuietFamily ==
    ASSUME ServiceInv, [Next]_vars, NEW s \in Calls
    PROVE  /\ (\A k \in Family(s) : accepted'[k] = accepted[k]) =>
                 CopySet(s)' = CopySet(s) /\ Copies(s)' = Copies(s)
           /\ (\A k \in Family(s) : lost'[k] = lost[k] /\ unsure'[k] = unsure[k]) =>
                 DoubtSet(s)' = DoubtSet(s) /\ Doubts(s)' = Doubts(s)
  <1>1. /\ CopySet(s)' = {k \in Family(s) : accepted'[k]}
        /\ DoubtSet(s)' = {k \in Family(s) : lost'[k] \/ unsure'[k]}
    BY FamilyStep
  <1>2. CopySet(s) = {k \in Family(s) : accepted[k]}
        /\ DoubtSet(s) = {k \in Family(s) : lost[k] \/ unsure[k]}
    BY DEF CopySet, DoubtSet
  <1>3. Copies(s)' = Cardinality(CopySet(s)') /\ Doubts(s)' = Cardinality(DoubtSet(s)')
    BY DEF Copies, Doubts
  <1> QED
    BY <1>1, <1>2, <1>3 DEF Copies, Doubts

(* The mark of one execution counts once, in its own family. *)
LEMMA MarkCounts ==
    ASSUME ServiceInv, [Next]_vars, NEW r \in Calls, NEW k \in Family(r),
           \A i \in Calls \ {k} : /\ accepted'[i] = accepted[i]
                                  /\ lost'[i] = lost[i]
                                  /\ unsure'[i] = unsure[i]
    PROVE  /\ ~accepted[k] /\ accepted'[k] => Copies(r)' = Copies(r) + 1
           /\ Doubts(r)' = Doubts(r) + 1 \/ Doubts(r)' = Doubts(r)
           /\ accepted'[k] => Copies(r)' > 0
           /\ lost'[k] \/ unsure'[k] => Doubts(r)' > 0
           /\ Copies(r)' \in Nat /\ Doubts(r)' \in Nat
  <1>0. Structure /\ Marked /\ k \in Calls /\ Active(k)
    BY DEF ServiceInv, Family
  <1>1. /\ CopySet(r)' = {i \in Family(r) : accepted'[i]}
        /\ DoubtSet(r)' = {i \in Family(r) : lost'[i] \/ unsure'[i]}
    BY FamilyStep
  <1>2. Grows(k)
    BY <1>0, StepHistory
  <1>3. \A i \in Family(r) : i \in Calls
    BY DEF Family
  <1>4. CopySet(r)' = CopySet(r) \cup (IF accepted'[k] THEN {k} ELSE {})
    BY <1>1, <1>2, <1>3 DEF CopySet, Grows
  <1>5. DoubtSet(r)' = DoubtSet(r) \cup (IF lost'[k] \/ unsure'[k] THEN {k} ELSE {})
    BY <1>1, <1>2, <1>3 DEF DoubtSet, Grows
  <1>6. /\ IsFiniteSet(CopySet(r)) /\ IsFiniteSet(DoubtSet(r))
        /\ Cardinality(CopySet(r)) \in Nat /\ Cardinality(DoubtSet(r)) \in Nat
    BY <1>0, FamilyFinite
  <1>7. Copies(r)' = Cardinality(CopySet(r)') /\ Doubts(r)' = Cardinality(DoubtSet(r)')
    BY DEF Copies, Doubts
  <1>8. ~accepted[k] => k \notin CopySet(r)
    BY DEF CopySet
  <1>9. /\ Cardinality(CopySet(r) \cup {k}) \in Nat \ {0}
        /\ k \notin CopySet(r) =>
             Cardinality(CopySet(r) \cup {k}) = Cardinality(CopySet(r)) + 1
    BY <1>6, AddedElement
  <1>10. /\ Cardinality(DoubtSet(r) \cup {k}) \in Nat \ {0}
         /\ \/ Cardinality(DoubtSet(r) \cup {k}) = Cardinality(DoubtSet(r)) + 1
            \/ Cardinality(DoubtSet(r) \cup {k}) = Cardinality(DoubtSet(r))
    BY <1>6, AddedElement
  <1>d. /\ Doubts(r)' = Doubts(r) + 1 \/ Doubts(r)' = Doubts(r)
        /\ lost'[k] \/ unsure'[k] => Doubts(r)' > 0
        /\ Doubts(r)' \in Nat
    <2>1. CASE lost'[k] \/ unsure'[k]
      <3>1. DoubtSet(r)' = DoubtSet(r) \cup {k}
        BY <1>5, <2>1
      <3> QED
        BY <1>6, <1>7, <1>10, <3>1 DEF Doubts
    <2>2. CASE ~(lost'[k] \/ unsure'[k])
      <3>1. DoubtSet(r)' = DoubtSet(r)
        BY <1>5, <2>2
      <3> QED
        BY <1>6, <1>7, <2>2, <3>1 DEF Doubts
    <2> QED
      BY <2>1, <2>2
  <1>11. CASE accepted'[k]
    <2>1. CopySet(r)' = CopySet(r) \cup {k}
      BY <1>4, <1>11
    <2> QED
      BY <1>6, <1>7, <1>8, <1>9, <1>11, <2>1, <1>d DEF Copies
  <1>12. CASE ~accepted'[k]
    <2>1. CopySet(r)' = CopySet(r)
      BY <1>4, <1>12
    <2> QED
      BY <1>6, <1>7, <1>12, <2>1, <1>d
  <1> QED
    BY <1>11, <1>12

(* The client's call of a request it has not relayed has no copy behind it. *)
LEMMA NoCopyYet ==
    ASSUME Structure, NEW k \in Calls, pc[k] \in {"recv", "dispatch", "sendfn"}
    PROVE  Family(k) \subseteq {k} /\ CopySet(k) = {} /\ ~accepted[k]
  <1>1. ~accepted[k]
    BY DEF Structure, Answers, AnswersAt
  <1>2. ASSUME NEW i \in Family(k), i # k PROVE FALSE
    <2>1. i \in Calls /\ Child(i) /\ req[i].parent = k
      BY <1>2, FamilyActive
    <2>2. TreeAt(i)
      BY <2>1 DEF Structure, Tree
    <2> QED
      BY <2>1, <2>2 DEF TreeAt
  <1> QED
    BY <1>1, <1>2 DEF CopySet

(***************************************************************************)
(* A caller in its peer loop has no copy behind it but those in doubt.     *)
(***************************************************************************)
LEMMA LoopCopiesDoubted ==
    ASSUME Structure, NEW k \in Calls, pc[k] = "relay"
    PROVE  CopySet(k) \subseteq DoubtSet(k)
  <1> SUFFICES ASSUME NEW i \in CopySet(k) PROVE i \in DoubtSet(k)
    OBVIOUS
  <1>1. i \in Family(k) /\ accepted[i]
    BY DEF CopySet
  <1>2. LoopingAt(k)
    BY DEF Structure, Looping
  <1>3. i # k
    BY <1>1, <1>2 DEF LoopingAt
  <1>4. i \in Calls /\ Child(i) /\ req[i].parent = k
    BY <1>1, <1>3, FamilyActive
  <1>5. AwaitedAt(i) /\ AnswersAt(i)
    BY <1>4 DEF Structure, Awaited, Answers
  <1>6. lost[i] \/ unsure[i]
    BY <1>1, <1>4, <1>5 DEF AwaitedAt, AnswersAt
  <1> QED
    BY <1>1, <1>6 DEF DoubtSet

-----------------------------------------------------------------------------
(* Every step of the handlers is a step of the service, or a stutter. *)
ServiceStep == Service!Next \/ UNCHANGED Service!svars

(* The other requests do not notice a step of one execution. *)
LEMMA OthersStill ==
    ASSUME ServiceInv, [Next]_vars, NEW k \in Calls, Active(k),
           UNCHANGED req,
           \A i \in Calls \ {k} : pc'[i] = pc[i] /\ reply'[i] = reply[i],
           NEW m \in Family(Root(k)),
           \A i \in Calls \ {m} : /\ accepted'[i] = accepted[i]
                                  /\ lost'[i] = lost[i]
                                  /\ unsure'[i] = unsure[i],
           NEW s \in Calls \ {Root(k)}
    PROVE  Still(s)
  <1>0. Structure
    BY DEF ServiceInv
  <1>1. m \in Calls /\ Active(m)
    BY <1>0, FamilyActive, RootFamily
  <1>2. k \notin Family(s)
    BY <1>0, RootFamily
  <1>3. m \notin Family(s)
    <2>1. Root(k) = Root(m) /\ (m \in Family(s) => s = Root(m))
      BY <1>0, <1>1, RootFamily
    <2> QED
      BY <2>1
  <1>4. \A i \in Family(s) : i \in Calls
    BY DEF Family
  <1>5. Copies(s)' = Copies(s) /\ Doubts(s)' = Doubts(s)
    BY <1>3, <1>4, QuietFamily
  <1>6. CASE s = k
    <2>1. req[k].parent # NoCall
      BY <1>6 DEF Root
    <2> QED
      BY <1>5, <1>6, <2>1 DEF Still, ClientStatus
  <1>7. CASE s # k
    BY <1>5, <1>7 DEF Still, ClientStatus, Active
  <1> QED
    BY <1>6, <1>7

(* A handler that goes on without an answer. *)
LEMMA MoveMaps ==
    ASSUME ServiceInv, [Next]_vars, NEW k \in Calls, NEW where,
           pc[k] \notin {"free", "done"}, where \notin {"free", "done"},
           Goto(k, where), UNCHANGED <<req, reply, accepted, lost, unsure>>
    PROVE  ServiceStep
  <1>1. pc \in [Calls -> PCs]
    BY DEF ServiceInv, Structure, TypeOK
  <1>2. ASSUME NEW s \in Calls PROVE Still(s)
    <2>1. Copies(s)' = Copies(s) /\ Doubts(s)' = Doubts(s)
      BY QuietFamily
    <2>2. ClientStatus(s)' = ClientStatus(s)
      BY <1>1 DEF Goto, ClientStatus, Active
    <2> QED
      BY <2>1, <2>2 DEF Still
  <1> QED
    BY <1>2, StillMaps DEF ServiceStep

(* A handler that answers with an error. *)
LEMMA FailMaps ==
    ASSUME ServiceInv, [Next]_vars, NEW k \in Calls, NEW r \in Replies \ {"ok"},
           pc[k] \notin {"free", "done"}, Finish(k, r),
           UNCHANGED <<req, accepted, lost, unsure>>,
           CopySet(k) \subseteq DoubtSet(k)
    PROVE  ServiceStep
  <1>0. /\ Structure /\ Marked
        /\ pc \in [Calls -> PCs] /\ reply \in [Calls -> Replies]
    BY DEF ServiceInv, Structure, TypeOK
  <1>1. \A s \in Calls : Copies(s)' = Copies(s) /\ Doubts(s)' = Doubts(s)
    BY QuietFamily
  <1>2. ASSUME NEW s \in Calls, s # k \/ req[k].parent # NoCall PROVE Still(s)
    <2>1. ClientStatus(s)' = ClientStatus(s)
      BY <1>0, <1>2 DEF Finish, Goto, ClientStatus, Active
    <2> QED
      BY <1>1, <2>1 DEF Still
  <1>3. CASE req[k].parent # NoCall
    BY <1>2, <1>3, StillMaps DEF ServiceStep
  <1>4. CASE req[k].parent = NoCall
    <2>1. ClientStatus(k) = "open" /\ ClientStatus(k)' = "failed"
      BY <1>0, <1>4 DEF Finish, Goto, ClientStatus, Active
    <2>2. Copies(k) = 0 \/ Doubts(k) > 0
      <3>1. IsFiniteSet(CopySet(k)) /\ IsFiniteSet(DoubtSet(k))
            /\ Copies(k) \in Nat /\ Doubts(k) \in Nat
        BY <1>0, FamilyFinite DEF Copies, Doubts
      <3>2. Copies(k) <= Doubts(k)
        BY <3>1, FS_Subset DEF Copies, Doubts
      <3> QED
        BY <3>1, <3>2
    <2>3. Attempted(k)
      BY <1>1, <2>1, <2>2 DEF Attempted
    <2> QED
      BY <1>2, <2>3, AttemptMaps DEF ServiceStep
  <1> QED
    BY <1>3, <1>4

(***************************************************************************)
(* A backend that takes the message, tells so or not, and the answer.      *)
(***************************************************************************)
LEMMA SendFnMaps ==
    ASSUME ServiceInv, [Next]_vars, NEW k \in Calls, SendFnOk(k) \/ SendFnError(k)
    PROVE  ServiceStep
  <1>0. /\ Structure /\ CallTypes /\ pc[k] = "sendfn" /\ Active(k)
        /\ pc \in [Calls -> PCs] /\ reply \in [Calls -> Replies]
    BY CallTypesLemma DEF ServiceInv, Structure, TypeOK, SendFnOk, SendFnError, Active
  <1>r. PICK r \in Calls : r = Root(k)
    BY <1>0, RootFamily
  <1>1. k \in Family(r) /\ ClientStatus(r) # "idle"
    BY <1>0, <1>r, RootFamily
  <1>2. ~accepted[k]
    BY <1>0, NoCopyYet
  <1>3. /\ UNCHANGED <<req, lost>> /\ pc' = [pc EXCEPT ![k] = "done"]
        /\ \A i \in Calls \ {k} : /\ accepted'[i] = accepted[i]
                                  /\ lost'[i] = lost[i]
                                  /\ unsure'[i] = unsure[i]
        /\ accepted[k] \in BOOLEAN /\ accepted'[k] \in BOOLEAN
        /\ \/ accepted'[k] /\ reply' = [reply EXCEPT ![k] = "ok"]
           \/ unsure'[k] /\ reply' = [reply EXCEPT ![k] = "error"]
    BY <1>0 DEF SendFnOk, SendFnError, Finish, Goto, history, CallTypes
  <1>4. \A s \in Calls \ {r} : Still(s)
    BY <1>0, <1>r, <1>1, <1>3, OthersStill
  <1>5. /\ accepted'[k] => Copies(r)' = Copies(r) + 1
        /\ Doubts(r)' = Doubts(r) + 1 \/ Doubts(r)' = Doubts(r)
        /\ accepted'[k] => Copies(r)' > 0
        /\ unsure'[k] => Doubts(r)' > 0
    BY <1>1, <1>2, <1>3, MarkCounts
  <1>6. ~accepted'[k] => Copies(r)' = Copies(r)
    <2>1. \A i \in Family(r) : i \in Calls
      BY DEF Family
    <2> QED
      BY <1>1, <1>2, <1>3, <2>1, QuietFamily
  <1>7. Copies(r) <= Doubts(r)
    BY <1>0, <1>1, CopiesPaid DEF Copies, Doubts
  <1>8. \/ ClientStatus(r) = "open" /\ ClientStatus(r)' = "ok" /\ Copies(r)' > 0
        \/ ClientStatus(r) = "open" /\ ClientStatus(r)' = "failed" /\ Doubts(r)' > 0
        \/ ClientStatus(r)' = ClientStatus(r)
    <2>1. CASE r = k
      <3>1. req[k].parent = NoCall
        BY <1>0, <1>1, <2>1, FamilyActive
      <3>2. ClientStatus(k) = "open"
        BY <1>0, <3>1 DEF ClientStatus, Active
      <3>3. \/ accepted'[k] /\ ClientStatus(k)' = "ok"
            \/ unsure'[k] /\ ClientStatus(k)' = "failed"
        BY <1>0, <1>3, <3>1 DEF ClientStatus, Active
      <3> QED
        BY <1>5, <2>1, <3>2, <3>3
    <2>2. CASE r # k
      BY <1>0, <1>1, <1>3, <2>2 DEF ClientStatus, Active
    <2> QED
      BY <2>1, <2>2
  <1>9. Attempted(r)
    BY <1>1, <1>5, <1>6, <1>7, <1>8 DEF Attempted
  <1> QED
    BY <1>1, <1>4, <1>9, AttemptMaps DEF ServiceStep

(* The caller of a peer that took the message answers 200. *)
LEMMA AnswerMaps ==
    ASSUME ServiceInv, [Next]_vars, NEW k \in Calls, PeerAnswers(k)
    PROVE  ServiceStep
  <1>0. /\ Structure /\ Marked /\ CallTypes
        /\ pc \in [Calls -> PCs] /\ reply \in [Calls -> Replies]
        /\ LoopingAt(k) /\ TreeAt(k)
    BY CallTypesLemma DEF ServiceInv, Structure, TypeOK, Looping, Tree
  <1>1. /\ pc[k] = "wait" /\ pc[child[k]] = "done"
        /\ UNCHANGED <<req, accepted, lost, unsure>>
    BY DEF PeerAnswers, history
  <1>2. CASE Goto(k, "relay") /\ UNCHANGED reply
    BY <1>1, <1>2, MoveMaps
  <1>3. CASE reply[child[k]] = "ok" /\ Finish(k, "ok")
    <2>1. /\ child[k] \in Calls /\ Child(child[k])
          /\ req[child[k]].parent = k /\ req[k].parent = NoCall
      BY <1>0, <1>1 DEF LoopingAt, TreeAt, Child, Active
    <2>2. TreeAt(child[k]) /\ AnswersAt(child[k])
      BY <2>1, <1>0 DEF Structure, Tree, Answers
    <2>3. accepted[child[k]]
      BY <1>1, <1>3, <2>1, <2>2 DEF TreeAt, AnswersAt
    <2>4. child[k] \in CopySet(k)
      BY <2>1, <2>3 DEF CopySet, Family, Child
    <2>5. IsFiniteSet(CopySet(k)) /\ Copies(k) \in Nat
      BY <1>0, FamilyFinite DEF Copies
    <2>6. Copies(k) > 0
      BY <2>4, <2>5, FS_EmptySet DEF Copies
    <2>7. \A s \in Calls : Copies(s)' = Copies(s) /\ Doubts(s)' = Doubts(s)
      BY <1>1, QuietFamily
    <2>8. ClientStatus(k) = "open" /\ ClientStatus(k)' = "ok"
      BY <1>0, <1>1, <1>3, <2>1 DEF ClientStatus, Active, Finish, Goto
    <2>9. ASSUME NEW s \in Calls \ {k} PROVE Still(s)
      <3>1. ClientStatus(s)' = ClientStatus(s)
        BY <1>0, <1>1, <1>3 DEF ClientStatus, Active, Finish, Goto
      <3> QED
        BY <2>7, <3>1 DEF Still
    <2>10. Attempted(k)
      BY <2>6, <2>7, <2>8 DEF Attempted
    <2> QED
      BY <2>9, <2>10, AttemptMaps DEF ServiceStep
  <1> QED
    BY <1>2, <1>3 DEF PeerAnswers

(* A lost response is a doubt about the caller's request. *)
LEMMA LostMaps ==
    ASSUME ServiceInv, [Next]_vars, NEW k \in Calls, ResponseLost(k)
    PROVE  ServiceStep
  <1>0. /\ Structure /\ CallTypes
        /\ pc \in [Calls -> PCs] /\ reply \in [Calls -> Replies]
        /\ LoopingAt(k) /\ TreeAt(k)
    BY CallTypesLemma DEF ServiceInv, Structure, TypeOK, Looping, Tree
  <1>1. /\ pc[k] = "wait" /\ lost' = [lost EXCEPT ![child[k]] = TRUE]
        /\ pc' = [pc EXCEPT ![k] = "relay"]
        /\ UNCHANGED <<req, reply, accepted, unsure>>
    BY DEF ResponseLost, Goto
  <1>2. PICK c \in Calls : c = child[k]
    BY <1>0, <1>1 DEF LoopingAt
  <1>3. Child(c) /\ req[c].parent = k /\ req[k].parent = NoCall /\ Active(k)
    BY <1>0, <1>1, <1>2 DEF LoopingAt, TreeAt, Child, Active
  <1>4. c \in Family(k) /\ Root(k) = k
    BY <1>3 DEF Family, Child, Root
  <1>5. \A i \in Calls \ {c} : /\ accepted'[i] = accepted[i]
                               /\ lost'[i] = lost[i]
                               /\ unsure'[i] = unsure[i]
    BY <1>0, <1>1, <1>2 DEF CallTypes
  <1>6. \A i \in Calls \ {k} : pc'[i] = pc[i] /\ reply'[i] = reply[i]
    BY <1>0, <1>1
  <1>7. \A s \in Calls \ {k} : Still(s)
    BY <1>1, <1>3, <1>4, <1>5, <1>6, OthersStill
  <1>8. Doubts(k)' = Doubts(k) + 1 \/ Doubts(k)' = Doubts(k)
    BY <1>4, <1>5, MarkCounts
  <1>9. Copies(k)' = Copies(k)
    BY <1>1, QuietFamily
  <1>10. ClientStatus(k) = "open" /\ ClientStatus(k)' = "open"
    BY <1>0, <1>1, <1>3 DEF ClientStatus, Active
  <1>11. Attempted(k)
    BY <1>8, <1>9, <1>10 DEF Attempted
  <1> QED
    BY <1>7, <1>11, AttemptMaps DEF ServiceStep

(* A client's call opens its request. *)
LEMMA RequestMaps ==
    ASSUME ServiceInv, [Next]_vars, NEW k \in Calls, Request(k)
    PROVE  ServiceStep
  <1>0. Structure /\ CallTypes
    BY CallTypesLemma DEF ServiceInv, Structure
  <1>a. PICK n \in Nodes, kind \in Kinds, form \in Forms, c \in Ctypes :
          ClientRequest(k, n, kind, form, c)
    BY DEF Request
  <1> DEFINE new == NewReq(n, kind, form, c, 0, NoCall)
  <1>b. new.parent = NoCall
    BY DEF NewReq
  <1> HIDE DEF new
  <1>1. /\ req' = [req EXCEPT ![k] = new] /\ new.parent = NoCall
        /\ pc' = [pc EXCEPT ![k] = "recv"] /\ pc[k] = "free"
        /\ UNCHANGED <<reply, accepted, lost, unsure>>
    BY <1>a, <1>b DEF ClientRequest, FirstFree, Goto, history, new
  <1>2. \A s \in Calls : Copies(s)' = Copies(s) /\ Doubts(s)' = Doubts(s)
    BY <1>1, QuietFamily
  <1>3. Opened(k)
    BY <1>0, <1>1, <1>2 DEF Opened, ClientStatus, Active, CallTypes
  <1>4. ASSUME NEW s \in Calls \ {k} PROVE Still(s)
    BY <1>0, <1>1, <1>2 DEF Still, ClientStatus, Active, CallTypes
  <1> QED
    BY <1>3, <1>4, OpenMaps DEF ServiceStep

(* A request passed to a peer stays one request of the service. *)
LEMMA AskMaps ==
    ASSUME ServiceInv, [Next]_vars, NEW k \in Calls, Ask(k)
    PROVE  ServiceStep
  <1>0. Structure /\ CallTypes
    BY CallTypesLemma DEF ServiceInv, Structure
  <1>1. PICK j \in Calls \ {k}, p \in Nodes : AskPeer(k, j, p)
    BY DEF Ask
  <1> DEFINE new == NewReq(p, req[k].kind, "multipart", req[k].ctype, 1, k)
  <1>b. new.parent = k
    BY DEF NewReq
  <1> HIDE DEF new
  <1>2. /\ req' = [req EXCEPT ![j] = new] /\ new.parent = k
        /\ pc' = [pc EXCEPT ![k] = "wait", ![j] = "recv"]
        /\ pc[k] = "relay" /\ pc[j] = "free"
        /\ UNCHANGED <<reply, accepted, lost, unsure>>
    BY <1>1, <1>b DEF AskPeer, FirstFree, history, new
  <1>3. \A s \in Calls : Copies(s)' = Copies(s) /\ Doubts(s)' = Doubts(s)
    BY <1>2, QuietFamily
  <1>4. ASSUME NEW s \in Calls PROVE ClientStatus(s)' = ClientStatus(s)
    <2>1. CASE s = j
      BY <1>0, <1>2, <2>1 DEF ClientStatus, Active, CallTypes
    <2>2. CASE s # j
      BY <1>0, <1>2, <2>2 DEF ClientStatus, Active, CallTypes
    <2> QED
      BY <2>1, <2>2
  <1> QED
    BY <1>3, <1>4, StillMaps DEF ServiceStep, Still

(* Each step of the handlers, by action. *)
LEMMA StepService == ServiceInv /\ [Next]_vars => ServiceStep
  <1> SUFFICES ASSUME ServiceInv, [Next]_vars PROVE ServiceStep
    OBVIOUS
  <1> USE DEF Goto, Finish, events, loop, history
  <1>0. Structure
    BY DEF ServiceInv
  <1>1. ASSUME NEW k \in Calls,
               \/ RecordSend(k) \/ AcceptRedact(k) \/ DispatchReady(k)
        PROVE ServiceStep
    <2>1. PICK where \in {"dispatch", "sendfn"} :
            /\ pc' = [pc EXCEPT ![k] = where] /\ pc[k] \notin {"free", "done"}
            /\ UNCHANGED <<req, reply, accepted, lost, unsure>>
      BY <1>1 DEF RecordSend, AcceptRedact, DispatchReady
    <2> QED
      BY <2>1, MoveMaps
  <1>2. ASSUME NEW k \in Calls,
               \/ RejectParams(k) \/ RejectUnknown(k) \/ DispatchRefused(k)
        PROVE ServiceStep
    <2>1. PICK r \in Replies \ {"ok"} :
            /\ Finish(k, r) /\ pc[k] \in {"recv", "dispatch"}
            /\ UNCHANGED <<req, accepted, lost, unsure>>
      BY <1>2 DEF RejectParams, RejectUnknown, DispatchRefused, Replies
    <2>2. CopySet(k) \subseteq DoubtSet(k)
      BY <1>0, <2>1, NoCopyYet
    <2> QED
      BY <2>1, <2>2, FailMaps
  <1>3. ASSUME NEW k \in Calls, DispatchNoSender(k) \/ SendFnNotConnected(k)
        PROVE ServiceStep
    <2>1. /\ RelayOrFail(k) /\ pc[k] \in {"dispatch", "sendfn"}
          /\ UNCHANGED <<req, accepted, lost, unsure>>
      BY <1>3 DEF DispatchNoSender, SendFnNotConnected
    <2>2. CASE Goto(k, "relay") /\ UNCHANGED reply
      BY <2>1, <2>2, MoveMaps
    <2>3. CASE Finish(k, "error")
      <3>1. CopySet(k) \subseteq DoubtSet(k)
        BY <1>0, <2>1, NoCopyYet
      <3>2. "error" \in Replies \ {"ok"}
        BY DEF Replies
      <3> QED
        BY <2>1, <2>3, <3>1, <3>2, FailMaps
    <2> QED
      BY <2>1, <2>2, <2>3 DEF RelayOrFail, StartRelay
  <1>4. ASSUME NEW k \in Calls, PeersExhausted(k)
        PROVE ServiceStep
    <2>1. /\ Finish(k, "error") /\ pc[k] = "relay"
          /\ UNCHANGED <<req, accepted, lost, unsure>>
      BY <1>4 DEF PeersExhausted
    <2>2. CopySet(k) \subseteq DoubtSet(k)
      BY <1>0, <2>1, LoopCopiesDoubted
    <2>3. "error" \in Replies \ {"ok"}
      BY DEF Replies
    <2> QED
      BY <2>1, <2>2, <2>3, FailMaps
  <1>5. ASSUME UNCHANGED <<req, pc, reply, accepted, lost, unsure>>
        PROVE ServiceStep
    <2>1. \A s \in Calls : Copies(s)' = Copies(s) /\ Doubts(s)' = Doubts(s)
      BY <1>5, QuietFamily
    <2>2. \A s \in Calls : ClientStatus(s)' = ClientStatus(s)
      BY <1>5 DEF ClientStatus, Active
    <2> QED
      BY <2>1, <2>2, StillMaps DEF Still, ServiceStep
  <1>6. ASSUME NEW k \in Calls, Unreachable(k)
        PROVE UNCHANGED <<req, pc, reply, accepted, lost, unsure>>
    BY <1>6 DEF Unreachable, PeerUnreachable
  <1>7. CASE UNCHANGED vars
    BY <1>5, <1>7 DEF vars
  <1> QED
    BY <1>1, <1>2, <1>3, <1>4, <1>5, <1>6, <1>7, SendFnMaps, AnswerMaps,
       LostMaps, RequestMaps, AskMaps DEF Next, Step

(* The service starts with every request idle, uncopied and undoubted. *)
LEMMA InitService == Init => Service!Init
  <1> SUFFICES ASSUME Init PROVE Service!Init
    OBVIOUS
  <1>1. \A k \in Calls : pc[k] = "free"
    BY DEF Init, InitCalls
  <1>2. \A r \in Calls : Family(r) = {} /\ ClientStatus(r) = "idle"
    BY <1>1 DEF Family, ClientStatus, Active
  <1>3. \A r \in Calls : {k \in Family(r) : accepted[k]} = {}
                         /\ {k \in Family(r) : lost[k] \/ unsure[k]} = {}
    BY <1>2
  <1>4. Cardinality({}) = 0
    BY FS_EmptySet
  <1> QED
    BY <1>2, <1>3, <1>4 DEF Service!Init

(***************************************************************************)
(* The handlers of every cluster, relay, losses and failures included,     *)
(* implement the abstract service: a client's request is answered once,    *)
(* with 200 only when a copy was taken, and is taken once more than there  *)
(* were doubts at the most.                                                *)
(***************************************************************************)
THEOREM RefinementTheorem == Spec => ServiceSpec
  <1>1. Init => Service!Init
    BY InitService
  <1>2. Spec => []ServiceInv
    BY InitServiceInv, StepServiceInv, PTL DEF Spec
  <1>3. ServiceInv /\ [Next]_vars => [Service!Next]_(Service!svars)
    BY StepService DEF ServiceStep
  <1> QED
    BY <1>1, <1>2, <1>3, PTL DEF Spec, ServiceSpec, Service!Spec
=============================================================================
