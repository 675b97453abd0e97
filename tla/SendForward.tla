---------------------------- MODULE SendForward ----------------------------
(***************************************************************************)
(* Outgoing messages of the bridge: POST /api/messages/send and            *)
(* POST /api/messages/redact (fedbridge/toxrestsim.go) on every node of a  *)
(* cluster, the dispatch to the local protocol backend and the relay to    *)
(* the peers when this node has no usable backend                          *)
(* (fedbridge/senddispatch.go).                                            *)
(*                                                                         *)
(* A handler execution is a "call".  A call started by a client has parent *)
(* NoCall; a call started by ForeachSend or ForeachRedact of another call  *)
(* has that call as its parent.  The peer list, the readiness of a backend *)
(* and the outcome of a backend's send function are the environment's:     *)
(* each time the code asks, any answer is possible.                        *)
(***************************************************************************)
EXTENDS Naturals, FiniteSets, Sequences

CONSTANTS
    Nodes,      \* cluster nodes; ordered like the peer ids sorted by getPeerList
    ClientNodes, \* the nodes whose API clients call
    Ctypes,     \* contact types
    Calls,      \* identities of handler executions, taken in increasing order
    NoCall,     \* the parent of a client's call
    Caps,       \* Caps[n][c]: what ctypeRegistry of node n holds for c
    MaxEvents   \* capacity of simEvents (512 in the code)

(***************************************************************************)
(* "none": not registered; "recv": registered with nil SendFn and RedactFn;*)
(* "send": SendFn only; "full": SendFn and RedactFn.                       *)
(***************************************************************************)
CapKinds == {"none", "recv", "send", "full"}

ASSUME NodesAssumption == Nodes \subseteq Nat /\ Nodes # {}
ASSUME ClientNodesAssumption == ClientNodes \subseteq Nodes
ASSUME CtypesAssumption == Ctypes # {}
ASSUME CapsAssumption == Caps \in [Nodes -> [Ctypes -> CapKinds]]
ASSUME CallsAssumption == Calls \subseteq Nat /\ NoCall \notin Calls
ASSUME MaxEventsAssumption == MaxEvents \in Nat \ {0}

VARIABLES
    req,        \* what each call was asked, set when it starts
    pc,         \* how far its handler is
    reply,      \* its answer
    todo,       \* the peers its loop has not tried
    child,      \* the call its loop waits for
    accepted,   \* history: its backend took the message
    unsure,     \* history: its backend failed without telling
    lost,       \* history: its caller stopped waiting for it
    simEvents,  \* per node: local ids of the latest sent events
    simNextID   \* per node: next local id

events == <<simEvents, simNextID>>
loop == <<todo, child>>
history == <<accepted, unsure, lost>>
vars == <<req, pc, reply, todo, child, accepted, unsure, lost, simEvents, simNextID>>

Kinds == {"send", "redact"}
Forms == {"urlencoded", "multipart", "incomplete"}
PCs == {"free", "recv", "dispatch", "sendfn", "relay", "wait", "done"}
Replies == {"none", "ok", "missing_params", "unknown_ctype", "error"}

Req == [node : Nodes, kind : Kinds, readable : BOOLEAN, ctype : Ctypes,
        ttl : {0, 1}, parent : Calls \cup {NoCall}]

TypeOK ==
    /\ req \in [Calls -> Req]
    /\ pc \in [Calls -> PCs]
    /\ reply \in [Calls -> Replies]
    /\ todo \in [Calls -> SUBSET Nodes]
    /\ child \in [Calls -> Calls \cup {NoCall}]
    /\ accepted \in [Calls -> BOOLEAN]
    /\ unsure \in [Calls -> BOOLEAN]
    /\ lost \in [Calls -> BOOLEAN]
    /\ simEvents \in [Nodes -> Seq(Nat)]
    /\ simNextID \in [Nodes -> Nat \ {0}]

(***************************************************************************)
(* Does FormValue return the parameters of a body?  handleMessageSend      *)
(* parses multipart bodies; handleMessageRedact calls ParseForm only, which*)
(* leaves a multipart body unread, so type, id and message_id are empty.   *)
(* An incomplete form lacks one of them, or carries a file over the limit. *)
(***************************************************************************)
ParamsReadable(kind, form) ==
    form = "urlencoded" \/ (form = "multipart" /\ kind = "send")

NewReq(n, kind, form, c, ttl, parent) ==
    [node |-> n, kind |-> kind, readable |-> ParamsReadable(kind, form),
     ctype |-> c, ttl |-> ttl, parent |-> parent]

NoReq == NewReq(CHOOSE n \in Nodes : TRUE, "send", "urlencoded",
                CHOOSE c \in Ctypes : TRUE, 0, NoCall)

InitCalls ==
    /\ req = [k \in Calls |-> NoReq]
    /\ pc = [k \in Calls |-> "free"]
    /\ reply = [k \in Calls |-> "none"]
    /\ todo = [k \in Calls |-> {}]
    /\ child = [k \in Calls |-> NoCall]
    /\ accepted = [k \in Calls |-> FALSE]
    /\ unsure = [k \in Calls |-> FALSE]
    /\ lost = [k \in Calls |-> FALSE]

(* Mutant: simNextID keeps the zero value of its type. *)
Mut_Init ==
    /\ InitCalls
    /\ simEvents = [n \in Nodes |-> <<>>]
    /\ simNextID = [n \in Nodes |-> 0]

Init ==
    /\ InitCalls
    /\ simEvents = [n \in Nodes |-> <<>>]
    /\ simNextID = [n \in Nodes |-> 1]

-----------------------------------------------------------------------------
(* Helpers of the handlers. *)

(* The last m elements of s. *)
LastN(s, m) == IF Len(s) > m THEN SubSeq(s, Len(s) - m + 1, Len(s)) ELSE s

(* Mutant: a full log is cut to its capacity before the append. *)
Mut_AppendEvent(evs, id) ==
    Append(IF Len(evs) >= MaxEvents THEN LastN(evs, MaxEvents) ELSE evs, id)

(* simEvents is cut to capacity - 1 when full, then the event is appended. *)
AppendEvent(evs, id) ==
    Append(IF Len(evs) >= MaxEvents THEN LastN(evs, MaxEvents - 1) ELSE evs, id)

(* Is there a function to call for this kind of request? *)
HasFn(k) ==
    LET cap == Caps[req[k].node][req[k].ctype]
    IN  IF req[k].kind = "send" THEN cap \in {"send", "full"} ELSE cap = "full"

(***************************************************************************)
(* The errors of DispatchSend and DispatchRedact before the backend is     *)
(* called that contain "no local sender for": an unregistered ctype, or a  *)
(* nil SendFn.  A nil RedactFn answers "does not support redact".          *)
(***************************************************************************)
NoLocalSender(k) ==
    \/ Caps[req[k].node][req[k].ctype] = "none"
    \/ req[k].kind = "send" /\ ~HasFn(k)

(* Mutant: the ttl of a relayed request is not looked at. *)
Mut_MayRelay(k) == req[k].ttl \in {0, 1}

(* Only a request that was not relayed itself may be relayed. *)
MayRelay(k) == req[k].ttl = 0

Goto(k, where) == pc' = [pc EXCEPT ![k] = where]

Finish(k, r) == Goto(k, "done") /\ reply' = [reply EXCEPT ![k] = r]

(* Mutant: no check for an empty peer list, so no error is ever set. *)
Mut_StartRelay(k) ==
    \E peers \in SUBSET (Nodes \ {req[k].node}) :
        /\ todo' = [todo EXCEPT ![k] = peers]
        /\ IF peers = {} THEN Finish(k, "ok") ELSE Goto(k, "relay") /\ UNCHANGED reply

(* ForeachSend / ForeachRedact: take the peer list and try them in order. *)
StartRelay(k) ==
    \E peers \in SUBSET (Nodes \ {req[k].node}) :
        /\ todo' = [todo EXCEPT ![k] = peers]
        /\ Goto(k, "relay")
        /\ UNCHANGED reply

RelayOrFail(k) ==
    \/ MayRelay(k) /\ StartRelay(k)
    \/ ~MayRelay(k) /\ Finish(k, "error") /\ UNCHANGED todo

-----------------------------------------------------------------------------
FirstFree(k) ==
    /\ pc[k] = "free"
    /\ \A j \in Calls : j < k => pc[j] # "free"

(* A client posts a request to node n. *)
ClientRequest(k, n, kind, form, c) ==
    /\ FirstFree(k)
    /\ n \in ClientNodes
    /\ req' = [req EXCEPT ![k] = NewReq(n, kind, form, c, 0, NoCall)]
    /\ Goto(k, "recv")
    /\ UNCHANGED <<reply, loop, history, events>>

(* Parameters missing: 4xx, nothing else happens. *)
RejectParams(k) ==
    /\ pc[k] = "recv"
    /\ ~req[k].readable
    /\ Finish(k, "missing_params")
    /\ UNCHANGED <<req, loop, history, events>>

(* C1: the ctype is not registered here and the peer list is empty: 400. *)
RejectUnknown(k) ==
    /\ pc[k] = "recv"
    /\ req[k].kind = "send" /\ req[k].readable
    /\ Caps[req[k].node][req[k].ctype] = "none"
    /\ Finish(k, "unknown_ctype")
    /\ UNCHANGED <<req, loop, history, events>>

(* A send that passed the checks is recorded before it is dispatched. *)
RecordSend(k) ==
    LET n == req[k].node IN
    /\ pc[k] = "recv"
    /\ req[k].kind = "send" /\ req[k].readable
    /\ simEvents' = [simEvents EXCEPT ![n] = AppendEvent(@, simNextID[n])]
    /\ simNextID' = [simNextID EXCEPT ![n] = @ + 1]
    /\ Goto(k, "dispatch")
    /\ UNCHANGED <<req, reply, loop, history>>

(* A redact with its parameters goes straight to DispatchRedact. *)
AcceptRedact(k) ==
    /\ pc[k] = "recv"
    /\ req[k].kind = "redact" /\ req[k].readable
    /\ Goto(k, "dispatch")
    /\ UNCHANGED <<req, reply, loop, history, events>>

-----------------------------------------------------------------------------
(* DispatchSend / DispatchRedact up to the backend's function. *)

DispatchNoSender(k) ==
    /\ pc[k] = "dispatch"
    /\ NoLocalSender(k)
    /\ RelayOrFail(k)
    /\ UNCHANGED <<req, child, history, events>>

(* "does not support redact" and "not ready!!!" are final: no relay. *)
DispatchRefused(k) ==
    /\ pc[k] = "dispatch"
    /\ ~NoLocalSender(k)
    /\ Finish(k, "error")
    /\ UNCHANGED <<req, loop, history, events>>

(* Status() says running and connected: the function is called. *)
DispatchReady(k) ==
    /\ pc[k] = "dispatch"
    /\ HasFn(k)
    /\ Goto(k, "sendfn")
    /\ UNCHANGED <<req, reply, loop, history, events>>

(* The function returned a result. *)
SendFnOk(k) ==
    /\ pc[k] = "sendfn"
    /\ accepted' = [accepted EXCEPT ![k] = TRUE]
    /\ Finish(k, "ok")
    /\ UNCHANGED <<req, loop, unsure, lost, events>>

(* The backend disconnected after Status() was read: "not connected". *)
SendFnNotConnected(k) ==
    /\ pc[k] = "sendfn"
    /\ RelayOrFail(k)
    /\ UNCHANGED <<req, child, history, events>>

(* Any other error; the remote side may have taken the message. *)
SendFnError(k) ==
    /\ pc[k] = "sendfn"
    /\ \E took \in BOOLEAN : accepted' = [accepted EXCEPT ![k] = took]
    /\ unsure' = [unsure EXCEPT ![k] = TRUE]
    /\ Finish(k, "error")
    /\ UNCHANGED <<req, loop, lost, events>>

-----------------------------------------------------------------------------
(* The peer loop of ForeachSend / ForeachRedact. *)

NextPeer(k, p) == p \in todo[k] /\ \A q \in todo[k] : p <= q

(* The next peer gets a multipart POST with ttl=1. *)
AskPeer(k, j, p) ==
    /\ pc[k] = "relay"
    /\ NextPeer(k, p)
    /\ FirstFree(j)
    /\ req' = [req EXCEPT ![j] =
                 NewReq(p, req[k].kind, "multipart", req[k].ctype, 1, k)]
    /\ pc' = [pc EXCEPT ![k] = "wait", ![j] = "recv"]
    /\ child' = [child EXCEPT ![k] = j]
    /\ todo' = [todo EXCEPT ![k] = @ \ {p}]
    /\ UNCHANGED <<reply, history, events>>

(* Mutant: the loop does not move on to the next peer. *)
Mut_PeerUnreachable(k, p) ==
    /\ pc[k] = "relay"
    /\ NextPeer(k, p)
    /\ UNCHANGED vars

(* The connection fails before the peer sees the request. *)
PeerUnreachable(k, p) ==
    /\ pc[k] = "relay"
    /\ NextPeer(k, p)
    /\ todo' = [todo EXCEPT ![k] = @ \ {p}]
    /\ UNCHANGED <<req, pc, reply, child, history, events>>

(* Mutant: any HTTP response counts as success. *)
Mut_AnyAnswer(k) ==
    /\ pc[k] = "wait" /\ pc[child[k]] = "done"
    /\ Finish(k, "ok")
    /\ UNCHANGED <<req, loop, history, events>>

(* Mutant: the loop does not end at the first success. *)
Mut_NoBreak(k) ==
    /\ pc[k] = "wait" /\ pc[child[k]] = "done"
    /\ Goto(k, "relay")
    /\ UNCHANGED <<req, reply, loop, history, events>>

(* HTTP 200 ends the loop with success; other codes try the next peer. *)
PeerAnswers(k) ==
    /\ pc[k] = "wait" /\ pc[child[k]] = "done"
    /\ \/ reply[child[k]] = "ok" /\ Finish(k, "ok")
       \/ reply[child[k]] # "ok" /\ Goto(k, "relay") /\ UNCHANGED reply
    /\ UNCHANGED <<req, loop, history, events>>

(* The connection fails after the request was delivered. *)
ResponseLost(k) ==
    /\ pc[k] = "wait"
    /\ lost' = [lost EXCEPT ![child[k]] = TRUE]
    /\ Goto(k, "relay")
    /\ UNCHANGED <<req, reply, loop, accepted, unsure, events>>

(* Every peer failed, or there was none. *)
PeersExhausted(k) ==
    /\ pc[k] = "relay"
    /\ todo[k] = {}
    /\ Finish(k, "error")
    /\ UNCHANGED <<req, loop, history, events>>

-----------------------------------------------------------------------------
Request(k) ==
    \E n \in Nodes, kind \in Kinds, form \in Forms, c \in Ctypes :
        ClientRequest(k, n, kind, form, c)

Ask(k) == \E j \in Calls \ {k}, p \in Nodes : AskPeer(k, j, p)

Unreachable(k) == \E p \in Nodes : PeerUnreachable(k, p)

(* The steps of a handler that is running. *)
Step(k) ==
    \/ RejectParams(k) \/ RejectUnknown(k) \/ RecordSend(k) \/ AcceptRedact(k)
    \/ DispatchNoSender(k) \/ DispatchRefused(k) \/ DispatchReady(k)
    \/ SendFnOk(k) \/ SendFnNotConnected(k) \/ SendFnError(k)
    \/ Ask(k) \/ Unreachable(k) \/ PeerAnswers(k) \/ ResponseLost(k)
    \/ PeersExhausted(k)

Next == \E k \in Calls : Request(k) \/ Step(k)

(***************************************************************************)
(* Every handler runs in a goroutine of its own, which the Go scheduler    *)
(* never starves, and every HTTP call returns a response or an error.      *)
(***************************************************************************)
Fairness == \A k \in Calls : WF_vars(Step(k))

Spec == Init /\ [][Next]_vars /\ Fairness

-----------------------------------------------------------------------------
Active(k) == pc[k] # "free"

(* The client's call a call belongs to. *)
SameRequest(j, k) ==
    \/ j = k
    \/ req[j].parent = k
    \/ req[k].parent = j
    \/ req[j].parent # NoCall /\ req[j].parent = req[k].parent

(***************************************************************************)
(* A relayed call never relays again: requests do not travel through the   *)
(* cluster in chains or circles ("cutoff infinite loop send").             *)
(***************************************************************************)
NoRelayChain ==
    \A k \in Calls : Active(k) /\ req[k].parent # NoCall =>
        /\ Active(req[k].parent)
        /\ req[req[k].parent].parent = NoCall

(***************************************************************************)
(* A call answered 200 was taken by its own backend, or by the backend of  *)
(* the peer whose answer ended the loop.                                   *)
(***************************************************************************)
OkIsDelivered ==
    \A k \in Calls : Active(k) /\ reply[k] = "ok" =>
        \/ accepted[k]
        \/ \E j \in Calls : /\ Active(j)
                            /\ req[j].parent = k
                            /\ accepted[j]
                            /\ ~lost[j]

(***************************************************************************)
(* A client's request reaches two backends only after an execution whose   *)
(* outcome its caller could not know: the response was lost, or the        *)
(* backend's function failed although the message was taken.               *)
(***************************************************************************)
DuplicateNeedsDoubt ==
    \A j, k \in Calls :
        /\ j # k
        /\ Active(j) /\ Active(k)
        /\ SameRequest(j, k)
        /\ accepted[j] /\ accepted[k]
        => lost[j] \/ lost[k] \/ unsure[j] \/ unsure[k]

(***************************************************************************)
(* simEvents of a node holds exactly the latest local ids, in order: the   *)
(* cut to capacity - 1 drops the oldest event and no other.                *)
(***************************************************************************)
EventsAreLatest ==
    \A n \in Nodes :
        /\ Len(simEvents[n]) <= MaxEvents
        /\ \A i \in 1..Len(simEvents[n]) :
             simEvents[n][i] + Len(simEvents[n]) = simNextID[n] + i - 1
        /\ Len(simEvents[n]) < MaxEvents => Len(simEvents[n]) = simNextID[n] - 1

(***************************************************************************)
(* Every execution is answered: the peer loop ends, whatever the peers do. *)
(***************************************************************************)
EveryCallAnswered ==
    \A k \in Calls : (pc[k] = "recv") ~> (pc[k] = "done")

(***************************************************************************)
(* The handlers, the relay included, implement the abstract service.       *)
(***************************************************************************)
Family(r) ==
    {k \in Calls : /\ Active(k)
                   /\ req[r].parent = NoCall
                   /\ k = r \/ req[k].parent = r}

ClientStatus(r) ==
    IF ~Active(r) \/ req[r].parent # NoCall THEN "idle"
    ELSE IF pc[r] # "done" THEN "open"
    ELSE IF reply[r] = "ok" THEN "ok" ELSE "failed"

Service == INSTANCE SendService WITH
    Requests <- Calls,
    status <- [r \in Calls |-> ClientStatus(r)],
    copies <- [r \in Calls |-> Cardinality({k \in Family(r) : accepted[k]})],
    doubt <- [r \in Calls |->
                Cardinality({k \in Family(r) : lost[k] \/ unsure[k]})]

ServiceSpec == Service!Spec

(***************************************************************************)
(* The redact of a message relayed to a peer is understood by that peer:   *)
(* senddispatch.go writes type, id, message_id and ttl as form fields      *)
(* "used in handleMessageRedact".                                          *)
(***************************************************************************)
RelayedRedactUnderstood ==
    \A k \in Calls :
        Active(k) /\ req[k].kind = "redact" /\ req[k].parent # NoCall
            => reply[k] # "missing_params"
=============================================================================
