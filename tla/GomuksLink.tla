----------------------------- MODULE GomuksLink -----------------------------
(***************************************************************************)
(* The gomuks backend (fbprotocols/gomuks): one websocket, on which the    *)
(* server numbers its events -1, -2, ... and answers requests by their     *)
(* positive id.  poll_gomuks dials and runs the event loop; a reader       *)
(* goroutine hands messages to it through msgCh; Send and Redact, called   *)
(* by any goroutine, register a channel in pendingSends, write, and wait.  *)
(* A new connection resumes after the last event received.                 *)
(*                                                                         *)
(* The server and the network are outside this repository and modelled     *)
(* from how the code uses them: a server keeps the events of its run, says *)
(* its run id first, goes on where a client of the same run left off, and  *)
(* answers a request at most once.  Message n of a run has the request id  *)
(* -n.                                                                     *)
(***************************************************************************)
EXTENDS Integers, Sequences

CONSTANTS
    Calls,          \* executions of Send and Redact
    MsgCap,         \* capacity of msgCh, 512 in the code
    EventKind,      \* EventKind[r][n]: what event n of run r is
    MaxEvents,      \* bounds of the model: events of a run,
    MaxBreaks,      \* connections that break,
    Limits          \* and combinations of smaller bounds, one for each behaviour

Runs == 1..(MaxBreaks + 1)
Kinds == {"sync", "typing"}

ASSUME MsgCapAssumption == MsgCap \in Nat
ASSUME BoundsAssumption == MaxEvents \in Nat /\ MaxBreaks \in Nat
ASSUME LimitsAssumption ==
    Limits \subseteq [calls : SUBSET Calls, events : 0..MaxEvents, breaks : 0..MaxBreaks]
ASSUME EventKindAssumption == EventKind \in [Runs -> [1..MaxEvents -> Kinds]]

VARIABLES
    limit,          \* the bounds of this behaviour
    serverRun,      \* the run of the server
    latest,         \* number of events of this run
    conns,          \* number of connections made; names the latest one
    connRun,        \* the run of the server at its other end
    alive,          \* it carries messages
    announced,      \* run_id was read from it
    cursor,         \* the event the reader gets next
    sent,           \* requests that reached a server
    served,         \* what became of each request there
    answers,        \* answers under way on this connection
    breaks,         \* number of broken connections
    poll,           \* where poll_gomuks is
    reader,         \* is the reader goroutine reading?
    msgCh,          \* what it has read; one message beyond MsgCap is in its hand
    gomuksConn,     \* the connection senders use; 0 is nil
    gomuksRunID,    \* 0 is ""
    lastRecvNegID,
    gomuksSeq,
    pendingSends,   \* pairs of a request id and the call that waits for it
    pc,             \* where each call is
    conn,           \* the connection it read
    seq,            \* its request id
    ch,             \* what its channel holds
    closed,         \* calls whose channel is closed
    result,         \* what it returned
    taken,          \* history: the last event taken from this connection
    upto,           \* history: upto[r]: the last event published of run r
    late            \* history: calls that registered after their connection was cleared

server == <<limit, serverRun, latest, sent, served>>
link == <<conns, connRun, alive, announced, cursor, answers, breaks>>
resume == <<gomuksRunID, lastRecvNegID, taken, upto>>
call == <<gomuksSeq, pendingSends, pc, conn, seq, ch, closed, result, late>>
vars == <<limit, serverRun, latest, conns, connRun, alive, announced, cursor, sent, served,
          answers, breaks, poll, reader, msgCh, gomuksConn, gomuksRunID, lastRecvNegID,
          gomuksSeq, pendingSends, pc, conn, seq, ch, closed, result, taken, upto, late>>

Verdicts == {"ok", "refused"}
Message == [type : Kinds \cup Verdicts \cup {"run"}, n : Nat]
Msg(type, n) == [type |-> type, n |-> n]

Polls == {"dial", "loop", "clear", "sweep", "close"}
PCs == {"free", "register", "write", "wait", "done"}
Contents == Verdicts \cup {"empty", "disconnected"}
Results == Verdicts \cup {"none", "offline", "broken", "disconnected", "timeout"}

NetTypes ==
    /\ limit \in Limits
    /\ breaks \in 0..MaxBreaks
    /\ serverRun \in 1..(breaks + 1)
    /\ latest \in 0..MaxEvents
    /\ conns \in Nat
    /\ connRun \in Runs
    /\ alive \in BOOLEAN
    /\ announced \in BOOLEAN
    /\ cursor \in Nat \ {0}
    /\ sent \subseteq Calls
    /\ served \in [Calls -> Verdicts \cup {"none"}]
    /\ answers \subseteq Calls

LoopTypes ==
    /\ poll \in Polls
    /\ reader \in BOOLEAN
    /\ msgCh \in Seq(Message)
    /\ Len(msgCh) <= MsgCap + 1
    /\ gomuksConn \in Nat
    /\ gomuksRunID \in Runs \cup {0}
    /\ lastRecvNegID \in Int
    /\ taken \in Nat
    /\ upto \in [Runs -> Nat]

CallTypes ==
    /\ gomuksSeq \in Nat
    /\ pendingSends \subseteq Nat \X Calls
    /\ pc \in [Calls -> PCs]
    /\ conn \in [Calls -> Nat]
    /\ seq \in [Calls -> Nat]
    /\ ch \in [Calls -> Contents]
    /\ closed \subseteq Calls
    /\ result \in [Calls -> Results]
    /\ late \subseteq Calls

TypeOK == NetTypes /\ LoopTypes /\ CallTypes

Init ==
    /\ limit \in Limits
    /\ serverRun = 1 /\ connRun = 1
    /\ latest = 0
    /\ conns = 0 /\ alive = FALSE /\ announced = FALSE /\ cursor = 1
    /\ sent = {} /\ answers = {}
    /\ served = [k \in Calls |-> "none"]
    /\ breaks = 0
    /\ poll = "dial" /\ reader = FALSE /\ msgCh = <<>>
    /\ gomuksConn = 0 /\ gomuksRunID = 0 /\ lastRecvNegID = 0
    /\ gomuksSeq = 0 /\ pendingSends = {}
    /\ pc = [k \in Calls |-> "free"]
    /\ conn = [k \in Calls |-> 0]
    /\ seq = [k \in Calls |-> 0]
    /\ ch = [k \in Calls |-> "empty"]
    /\ closed = {}
    /\ result = [k \in Calls |-> "none"]
    /\ taken = 0
    /\ upto = [r \in Runs |-> 0]
    /\ late = {}

-----------------------------------------------------------------------------
(* The server and the network. *)

Emit ==
    /\ latest < limit.events
    /\ latest' = latest + 1
    /\ UNCHANGED <<limit, serverRun, sent, served, link, poll, reader, msgCh, gomuksConn, resume, call>>

(* A request may be served long after its sender gave up. *)
Serve(k, verdict) ==
    /\ k \in sent
    /\ sent' = sent \ {k}
    /\ served' = [served EXCEPT ![k] = verdict]
    /\ answers' = IF alive /\ conn[k] = conns THEN answers \cup {k} ELSE answers
    /\ UNCHANGED <<limit, serverRun, latest, conns, connRun, alive, announced, cursor, breaks,
                   poll, reader, msgCh, gomuksConn, resume, call>>

Break ==
    /\ breaks < limit.breaks
    /\ breaks' = breaks + 1

(* Also when pingLoop cannot write and closes the connection. *)
LinkBreaks ==
    /\ Break
    /\ alive
    /\ alive' = FALSE /\ answers' = {}
    /\ UNCHANGED <<server, conns, connRun, announced, cursor, poll, reader, msgCh,
                   gomuksConn, resume, call>>

ServerRestarts ==
    /\ Break
    /\ serverRun' = serverRun + 1 /\ latest' = 0
    /\ alive' = FALSE /\ answers' = {} /\ sent' = {}
    /\ UNCHANGED <<limit, served, conns, connRun, announced, cursor, poll, reader, msgCh,
                   gomuksConn, resume, call>>

-----------------------------------------------------------------------------
(* The reader goroutine. *)

(* Mutant: msgCh has no limit. *)
Mut_ReadNext(m) ==
    /\ reader /\ alive
    /\ msgCh' = Append(msgCh, m)

ReadNext(m) ==
    /\ reader /\ alive
    /\ Len(msgCh) <= MsgCap
    /\ msgCh' = Append(msgCh, m)

ReadRun ==
    /\ ~announced
    /\ ReadNext(Msg("run", connRun))
    /\ announced' = TRUE
    /\ UNCHANGED <<server, conns, connRun, alive, cursor, answers, breaks, poll, reader,
                   gomuksConn, resume, call>>

ReadEvent ==
    /\ announced
    /\ cursor <= latest
    /\ ReadNext(Msg(EventKind[connRun][cursor], cursor))
    /\ cursor' = cursor + 1
    /\ UNCHANGED <<server, conns, connRun, alive, announced, answers, breaks, poll, reader,
                   gomuksConn, resume, call>>

ReadAnswer(k) ==
    /\ announced
    /\ k \in answers
    /\ ReadNext(Msg(served[k], seq[k]))
    /\ answers' = answers \ {k}
    /\ UNCHANGED <<server, conns, connRun, alive, announced, cursor, breaks, poll, reader,
                   gomuksConn, resume, call>>

(* Mutant: the reader returns without closing msgCh. *)
Mut_ReadFails ==
    /\ reader /\ ~alive
    /\ Len(msgCh) <= MsgCap
    /\ UNCHANGED vars

(* A read error, or nothing, not even a pong, for 30 s: msgCh is closed. *)
ReadFails ==
    /\ reader /\ ~alive
    /\ Len(msgCh) <= MsgCap
    /\ reader' = FALSE
    /\ UNCHANGED <<server, link, poll, msgCh, gomuksConn, resume, call>>

(* msgCh stays full for 30 s: the message in hand is dropped. *)
ReaderStuck ==
    /\ Break
    /\ reader
    /\ Len(msgCh) = MsgCap + 1
    /\ msgCh' = SubSeq(msgCh, 1, MsgCap)
    /\ reader' = FALSE
    /\ UNCHANGED <<server, conns, connRun, alive, announced, cursor, answers, poll,
                   gomuksConn, resume, call>>

-----------------------------------------------------------------------------
(* poll_gomuks and gomuksEventLoop. *)

(* run_id and last_received_event go into the query. *)
Resumes == gomuksRunID = serverRun /\ lastRecvNegID < 0

Dial ==
    /\ poll = "dial"
    /\ poll' = "loop"
    /\ conns' = conns + 1 /\ gomuksConn' = conns + 1
    /\ connRun' = serverRun
    /\ alive' = TRUE /\ announced' = FALSE
    /\ taken' = IF Resumes THEN -lastRecvNegID ELSE latest
    /\ cursor' = taken' + 1
    /\ answers' = {}
    /\ reader' = TRUE /\ msgCh' = <<>>
    /\ UNCHANGED <<server, breaks, gomuksRunID, lastRecvNegID, upto, call>>

TakeMsg(m) ==
    /\ poll = "loop"
    /\ msgCh # <<>>
    /\ m = Head(msgCh)
    /\ msgCh' = Tail(msgCh)

(* Mutant: the position of another run is kept. *)
Mut_HandleRun(m) ==
    /\ TakeMsg(m)
    /\ m.type = "run"
    /\ gomuksRunID' = m.n
    /\ UNCHANGED <<server, link, poll, reader, gomuksConn, lastRecvNegID, taken, upto, call>>

(* Another run than before: its events are numbered anew. *)
HandleRun(m) ==
    /\ TakeMsg(m)
    /\ m.type = "run"
    /\ gomuksRunID' = m.n
    /\ lastRecvNegID' = IF gomuksRunID \in {0, m.n} THEN lastRecvNegID ELSE 0
    /\ UNCHANGED <<server, link, poll, reader, gomuksConn, taken, upto, call>>

(* Dropped before lastRecvNegID is looked at. *)
HandleTyping(m) ==
    /\ TakeMsg(m)
    /\ m.type = "typing"
    /\ taken' = m.n
    /\ UNCHANGED <<server, link, poll, reader, gomuksConn, gomuksRunID, lastRecvNegID,
                   upto, call>>

Lesser(a, b) == IF a < b THEN a ELSE b

(* lastRecvNegID moves, then the message is published. *)
PublishEvent(m) ==
    /\ TakeMsg(m)
    /\ m.type = "sync"
    /\ lastRecvNegID' = Lesser(-m.n, lastRecvNegID)
    /\ taken' = m.n
    /\ upto' = [upto EXCEPT ![connRun] = m.n]
    /\ UNCHANGED <<server, link, poll, reader, gomuksConn, gomuksRunID, call>>

(* The channel has room for one answer; none waits when the call is gone. *)
HandleAnswer(m) ==
    /\ TakeMsg(m)
    /\ m.type \in Verdicts
    /\ \A k \in Calls : <<m.n, k>> \in pendingSends => ch[k] = "empty"
    /\ ch' = [k \in Calls |-> IF <<m.n, k>> \in pendingSends THEN m.type ELSE ch[k]]
    /\ UNCHANGED <<server, link, poll, reader, gomuksConn, resume, gomuksSeq, pendingSends,
                   pc, conn, seq, closed, result, late>>

(* The reader is gone and what it had read is handled. *)
LoopEnds ==
    /\ poll = "loop"
    /\ ~reader /\ msgCh = <<>>
    /\ poll' = "clear"
    /\ UNCHANGED <<server, link, reader, msgCh, gomuksConn, resume, call>>

(* Mutant: senders go on using the connection. *)
Mut_Clear ==
    /\ poll = "clear"
    /\ poll' = "sweep"
    /\ UNCHANGED <<server, link, reader, msgCh, gomuksConn, resume, call>>

(* The deferred function: gomuksConn is nil for senders from now on; *)
Clear ==
    /\ poll = "clear"
    /\ poll' = "sweep"
    /\ gomuksConn' = 0
    /\ UNCHANGED <<server, link, reader, msgCh, resume, call>>

Registered == {k \in Calls : \E p \in pendingSends : p[2] = k}

(* Mutant: the channels are closed without an error. *)
Mut_Sweep ==
    /\ poll = "sweep"
    /\ poll' = "close"
    /\ closed' = closed \cup Registered
    /\ pendingSends' = {}
    /\ UNCHANGED <<server, link, reader, msgCh, gomuksConn, resume, gomuksSeq, pc, conn,
                   seq, ch, result, late>>

(* every pending call fails; *)
Sweep ==
    /\ poll = "sweep"
    /\ poll' = "close"
    /\ ch' = [k \in Calls |-> IF k \in Registered /\ ch[k] = "empty" THEN "disconnected" ELSE ch[k]]
    /\ closed' = closed \cup Registered
    /\ pendingSends' = {}
    /\ UNCHANGED <<server, link, reader, msgCh, gomuksConn, resume, gomuksSeq, pc, conn,
                   seq, result, late>>

(* and the connection is closed. *)
Close ==
    /\ poll = "close"
    /\ poll' = "dial"
    /\ alive' = FALSE /\ answers' = {}
    /\ UNCHANGED <<server, conns, connRun, announced, cursor, breaks, reader, msgCh,
                   gomuksConn, resume, call>>

-----------------------------------------------------------------------------
(* Send and Redact. *)

Goto(k, from, to) == pc[k] = from /\ pc' = [pc EXCEPT ![k] = to]

Return(k, from, r) ==
    /\ Goto(k, from, "done")
    /\ result' = [result EXCEPT ![k] = r]

(* gomuksConn is read and an id taken, under muGomuks. *)
Begin(k) ==
    /\ k \in limit.calls
    /\ conn' = [conn EXCEPT ![k] = gomuksConn]
    /\ gomuksSeq' = gomuksSeq + 1
    /\ seq' = [seq EXCEPT ![k] = gomuksSeq + 1]
    /\ \/ gomuksConn = 0 /\ Return(k, "free", "offline")
       \/ gomuksConn # 0 /\ Goto(k, "free", "register") /\ UNCHANGED result
    /\ UNCHANGED <<server, link, poll, reader, msgCh, gomuksConn, resume, pendingSends, ch,
                   closed, late>>

Register(k) ==
    /\ Goto(k, "register", "write")
    /\ pendingSends' = {p \in pendingSends : p[1] # seq[k]} \cup {<<seq[k], k>>}
    /\ late' = IF gomuksConn = conn[k] THEN late ELSE late \cup {k}
    /\ UNCHANGED <<server, link, poll, reader, msgCh, gomuksConn, resume, gomuksSeq, conn,
                   seq, ch, closed, result>>

(* The deferred delete. *)
Forget(k) == pendingSends' = {p \in pendingSends : p[1] # seq[k]}

(* Is the connection the call has read still open on this side? *)
Open(k) == conn[k] = conns /\ poll # "dial"

(* What is written to a broken connection may be lost without an error. *)
Write(k) ==
    /\ Open(k)
    /\ Goto(k, "write", "wait")
    /\ sent' = IF alive THEN sent \cup {k} ELSE sent
    /\ UNCHANGED <<limit, serverRun, latest, served, link, poll, reader, msgCh, gomuksConn, resume,
                   gomuksSeq, pendingSends, conn, seq, ch, closed, result, late>>

WriteFails(k) ==
    /\ ~(Open(k) /\ alive)
    /\ Return(k, "write", "broken")
    /\ Forget(k)
    /\ UNCHANGED <<server, link, poll, reader, msgCh, gomuksConn, resume, gomuksSeq, conn,
                   seq, ch, closed, late>>

(* The channel has something, or is closed: then nil, no error, is read. *)
Receive(k) ==
    /\ ch[k] # "empty" \/ k \in closed
    /\ Return(k, "wait", IF ch[k] = "empty" THEN "ok" ELSE ch[k])
    /\ Forget(k)
    /\ UNCHANGED <<server, link, poll, reader, msgCh, gomuksConn, resume, gomuksSeq, conn,
                   seq, ch, closed, late>>

(* After 67 s, 30 s for Redact; an answer may come at the same time. *)
Timeout(k) ==
    /\ Return(k, "wait", "timeout")
    /\ Forget(k)
    /\ UNCHANGED <<server, link, poll, reader, msgCh, gomuksConn, resume, gomuksSeq, conn,
                   seq, ch, closed, late>>

-----------------------------------------------------------------------------
Read == ReadRun \/ ReadEvent \/ (\E k \in Calls : ReadAnswer(k)) \/ ReadFails
Handle(m) == HandleRun(m) \/ HandleTyping(m) \/ PublishEvent(m) \/ HandleAnswer(m)
HandleNext == msgCh # <<>> /\ Handle(Head(msgCh))
Loop == HandleNext \/ LoopEnds \/ Clear \/ Sweep \/ Close
Send(k) == Begin(k) \/ Register(k) \/ Write(k) \/ WriteFails(k) \/ Receive(k) \/ Timeout(k)

Next ==
    \/ Emit
    \/ \E k \in Calls, verdict \in Verdicts : Serve(k, verdict)
    \/ LinkBreaks \/ ServerRestarts
    \/ Read \/ ReaderStuck
    \/ Dial \/ Loop
    \/ \E k \in Calls : Send(k)

(***************************************************************************)
(* The goroutines go on; publishing an event ends (its requests have       *)
(* timeouts); the server is reachable again some time after each break.    *)
(***************************************************************************)
Fairness == WF_vars(Read) /\ WF_vars(Loop) /\ WF_vars(Dial)

Spec == Init /\ [][Next]_vars /\ Fairness

-----------------------------------------------------------------------------
(***************************************************************************)
(* A send that returns without an error was carried out by the server, and *)
(* one that returns the server's error was refused: no call ever takes the *)
(* answer to another one, or a channel closed by a disconnect, for its own,*)
(* whatever was sent, answered and timed out on earlier connections.       *)
(***************************************************************************)
AnswersAreOwn ==
    \A k \in Calls : result[k] \in Verdicts => served[k] = result[k]

(***************************************************************************)
(* Only a call that registered after its connection was cleared is left to *)
(* its own timeout when that connection is closed; the sweep fails all the *)
(* others at once, although it runs under another lock.                    *)
(***************************************************************************)
SweepReachesAll ==
    \A k \in Calls :
        pc[k] = "wait" /\ ch[k] = "empty" /\ ~Open(k) => k \in late

(***************************************************************************)
(* While the server runs, no event is published twice or skipped, through  *)
(* broken connections, a stuck reader and changes of the run, once the     *)
(* first one of the run was published: what lies between an event and the  *)
(* one published before it are typing events.                              *)
(***************************************************************************)
Gapless ==
    [][\A m \in {Head(msgCh) : i \in {1} \cap DOMAIN msgCh} :
          PublishEvent(m) /\ upto[connRun] > 0 =>
              /\ upto[connRun] < m.n
              /\ \A n \in (upto[connRun] + 1)..(m.n - 1) : EventKind[connRun][n] = "typing"]_vars

(***************************************************************************)
(* What is sent after the first event was published is published in the    *)
(* end, unless the server starts a new run: the reader, the loop and       *)
(* reconnecting never stop waiting for each other.                         *)
(***************************************************************************)
Behind ==
    /\ upto[serverRun] > 0
    /\ \E n \in upto[serverRun] + 1..latest : EventKind[serverRun][n] = "sync"

EveryEventArrives == Behind ~> ~Behind
=============================================================================
