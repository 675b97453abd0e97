-------------------------- MODULE GomuksLinkProofs --------------------------
(***************************************************************************)
(* Proofs about GomuksLink: for any calls, any capacity of msgCh and any   *)
(* number of broken connections, a call never takes the answer to another  *)
(* one, the sweep reaches every call but the late ones, and no event is    *)
(* skipped or published twice while the server runs.                       *)
(***************************************************************************)
EXTENDS GomuksLink, TLAPS

-----------------------------------------------------------------------------
(* Request ids are unique, and a pending one belongs to a call that waits. *)
Numbered ==
    /\ \A k \in Calls : seq[k] <= gomuksSeq /\ (seq[k] = 0 <=> pc[k] = "free")
    /\ \A j, k \in Calls : j # k /\ seq[j] = seq[k] => seq[k] = 0
    /\ \A s \in Nat, k \in Calls :
          <<s, k>> \in pendingSends => s = seq[k] /\ pc[k] \in {"write", "wait"}

(* Whatever holds an answer holds that of its call. *)
OwnedByCalls ==
    \A k \in Calls :
        /\ ch[k] \in Verdicts => served[k] = ch[k]
        /\ k \in closed => ch[k] # "empty"
        /\ pc[k] \in {"free", "register", "write"} => served[k] = "none" /\ k \notin sent
        /\ k \in sent => served[k] = "none"
        /\ k \in answers => served[k] \in Verdicts
        /\ result[k] \in Verdicts => served[k] = result[k]

Own(m) ==
    m.type \in Verdicts =>
        /\ m.n \in 1..gomuksSeq
        /\ \A k \in Calls : seq[k] = m.n => served[k] = m.type

Owned == OwnedByCalls /\ \A i \in DOMAIN msgCh : Own(msgCh[i])

(* A call that nothing has reached yet is pending on the open connection,  *)
(* and the sweep of that connection is still to come.                      *)
Unswept ==
    /\ gomuksConn # 0 => gomuksConn = conns /\ poll \in {"loop", "clear"}
    /\ \A k \in Calls :
          /\ pc[k] = "register" => conn[k] # 0
          /\ pc[k] \in {"write", "wait"} /\ ch[k] = "empty" /\ k \notin late =>
                /\ conn[k] = conns
                /\ poll \in {"loop", "clear", "sweep"}
                /\ <<seq[k], k>> \in pendingSends

(* The position to resume from is that of the last event published. *)
Positions ==
    /\ gomuksRunID <= connRun
    /\ connRun <= serverRun
    /\ alive => connRun = serverRun
    /\ connRun = serverRun => cursor <= latest + 1
    /\ cursor <= MaxEvents + 1
    /\ taken < cursor
    /\ gomuksRunID = 0 => lastRecvNegID = 0
    /\ gomuksRunID # 0 => upto[gomuksRunID] = -lastRecvNegID
    /\ \A r \in Runs : r > gomuksRunID => upto[r] = 0
    /\ upto[connRun] <= taken
    /\ upto[connRun] > 0 => \A n \in (upto[connRun] + 1)..taken : EventKind[connRun][n] = "typing"

IsEvent(i) == i \in DOMAIN msgCh /\ msgCh[i].type \in Kinds

(* The run id is known, or comes first. *)
RunKnown == gomuksRunID = connRun \/ (msgCh # <<>> /\ msgCh[1].type = "run")

(* msgCh holds the events after the last one taken, in order, with none    *)
(* missing between two of them, and after the run id if there is one.      *)
Ordered ==
    /\ ~announced => msgCh = <<>>
    /\ (announced /\ reader) \/ msgCh # <<>> => RunKnown
    /\ \A i \in DOMAIN msgCh : msgCh[i].type = "run" => i = 1 /\ msgCh[i].n = connRun
    /\ \A i \in DOMAIN msgCh : IsEvent(i) =>
          /\ taken < msgCh[i].n /\ msgCh[i].n < cursor
          /\ msgCh[i].type = EventKind[connRun][msgCh[i].n]
          /\ \A j \in DOMAIN msgCh : IsEvent(j) /\ j < i => msgCh[j].n < msgCh[i].n
          /\ \A n \in (taken + 1)..(msgCh[i].n - 1) :
                \E j \in DOMAIN msgCh : IsEvent(j) /\ j < i /\ msgCh[j].n = n
    /\ reader => \A n \in (taken + 1)..(cursor - 1) :
                    \E j \in DOMAIN msgCh : IsEvent(j) /\ msgCh[j].n = n

IInv == TypeOK /\ Numbered /\ Owned /\ Unswept /\ Positions /\ Ordered

-----------------------------------------------------------------------------
(* The inductive invariant holds at the start. *)
LEMMA InitInvariant == Init => IInv
<1> SUFFICES ASSUME Init PROVE IInv
  OBVIOUS
<1>0. 1 \in Runs /\ MaxBreaks \in Nat /\ MaxEvents \in Nat
  BY BoundsAssumption DEF Runs
<1>1. NetTypes
  <2>1. limit \in Limits /\ breaks \in 0..MaxBreaks /\ serverRun \in 1..(breaks + 1)
    BY <1>0 DEF Init
  <2>2. latest \in 0..MaxEvents /\ conns \in Nat /\ connRun \in Runs /\ cursor \in Nat \ {0}
    BY <1>0 DEF Init
  <2>3. served \in [Calls -> Verdicts \cup {"none"}]
    BY DEF Init
  <2>4. alive \in BOOLEAN /\ announced \in BOOLEAN /\ sent \subseteq Calls /\ answers \subseteq Calls
    BY DEF Init
  <2> QED
    BY <2>1, <2>2, <2>3, <2>4 DEF NetTypes
<1>2. LoopTypes
  <2>1. upto \in [Runs -> Nat]
    BY DEF Init
  <2>2. msgCh \in Seq(Message) /\ Len(msgCh) <= MsgCap + 1
    BY MsgCapAssumption DEF Init
  <2>3. poll \in Polls /\ reader \in BOOLEAN /\ gomuksConn \in Nat /\ gomuksRunID \in Runs \cup {0}
    BY DEF Init, Polls
  <2>4. lastRecvNegID \in Int /\ taken \in Nat
    BY DEF Init
  <2> QED
    BY <2>1, <2>2, <2>3, <2>4 DEF LoopTypes
<1>3. CallTypes
  BY DEF Init, CallTypes, PCs, Contents, Results
<1>4. Numbered /\ Owned /\ Unswept
  BY DEF Init, Numbered, Owned, OwnedByCalls, Unswept, Verdicts
<1>5. Positions
  BY <1>0 DEF Init, Positions
<1>6. Ordered
  BY DEF Init, Ordered, IsEvent
<1> QED
  BY <1>1, <1>2, <1>3, <1>4, <1>5, <1>6 DEF IInv, TypeOK

-----------------------------------------------------------------------------
(* Which steps change what. *)

Taken(m) == m = Head(msgCh) /\ msgCh # <<>>

(* The steps that change the server or the connection. *)
LEMMA NetFrame ==
    ASSUME [Next]_vars
    PROVE  \/ UNCHANGED <<server, link>>
           \/ Emit \/ LinkBreaks \/ ServerRestarts \/ ReadRun \/ ReadEvent \/ ReaderStuck
           \/ Dial \/ Close
           \/ \E k \in Calls, verdict \in Verdicts : Serve(k, verdict)
           \/ \E k \in Calls : ReadAnswer(k) \/ Write(k)
<1>1. CASE UNCHANGED vars
  BY <1>1 DEF vars, server, link
<1>2. CASE ReadFails \/ LoopEnds \/ Clear \/ Sweep
  BY <1>2 DEF ReadFails, LoopEnds, Clear, Sweep
<1>3. CASE HandleNext
  BY <1>3 DEF HandleNext, Handle, HandleRun, HandleTyping, PublishEvent, HandleAnswer
<1>4. ASSUME NEW k \in Calls, Begin(k) \/ Register(k) \/ WriteFails(k) \/ Receive(k) \/ Timeout(k)
      PROVE  UNCHANGED <<server, link>>
  BY <1>4 DEF Begin, Register, WriteFails, Receive, Timeout
<1> QED
  BY <1>1, <1>2, <1>3, <1>4 DEF Next, Read, Loop, Send

(* The steps that change the goroutines of the connection, msgCh or the position. *)
LEMMA LoopFrame ==
    ASSUME [Next]_vars
    PROVE  \/ UNCHANGED <<poll, reader, msgCh, gomuksConn, resume>>
           \/ ReadRun \/ ReadEvent \/ ReadFails \/ ReaderStuck
           \/ Dial \/ LoopEnds \/ Clear \/ Sweep \/ Close
           \/ \E k \in Calls : ReadAnswer(k)
           \/ \E m : HandleRun(m) \/ HandleTyping(m) \/ PublishEvent(m) \/ HandleAnswer(m)
<1>1. CASE UNCHANGED vars
  BY <1>1 DEF vars, resume
<1>2. CASE Emit \/ LinkBreaks \/ ServerRestarts
  BY <1>2 DEF Emit, LinkBreaks, ServerRestarts
<1>3. ASSUME NEW k \in Calls, NEW verdict \in Verdicts, Serve(k, verdict)
      PROVE  UNCHANGED <<poll, reader, msgCh, gomuksConn, resume>>
  BY <1>3 DEF Serve
<1>4. ASSUME NEW k \in Calls, Send(k)
      PROVE  UNCHANGED <<poll, reader, msgCh, gomuksConn, resume>>
  BY <1>4 DEF Send, Begin, Register, Write, WriteFails, Receive, Timeout
<1> QED
  BY <1>1, <1>2, <1>3, <1>4 DEF Next, Read, Loop, HandleNext, Handle

(* The steps that change a call. *)
LEMMA CallFrame ==
    ASSUME [Next]_vars
    PROVE  \/ UNCHANGED call
           \/ Sweep
           \/ \E m : HandleAnswer(m)
           \/ \E k \in Calls : \/ Begin(k) \/ Register(k) \/ Write(k) \/ WriteFails(k)
                               \/ Receive(k) \/ Timeout(k)
<1>1. CASE UNCHANGED vars
  BY <1>1 DEF vars, call
<1>2. CASE Emit \/ LinkBreaks \/ ServerRestarts \/ Read \/ ReaderStuck
  BY <1>2 DEF Emit, LinkBreaks, ServerRestarts, Read, ReadRun, ReadEvent, ReadAnswer, ReadFails,
              ReaderStuck
<1>3. CASE Dial \/ LoopEnds \/ Clear \/ Close
  BY <1>3 DEF Dial, LoopEnds, Clear, Close
<1>4. ASSUME NEW k \in Calls, NEW verdict \in Verdicts, Serve(k, verdict)
      PROVE  UNCHANGED call
  BY <1>4 DEF Serve
<1>5. ASSUME NEW m, HandleRun(m) \/ HandleTyping(m) \/ PublishEvent(m)
      PROVE  UNCHANGED call
  BY <1>5 DEF HandleRun, HandleTyping, PublishEvent
<1> QED
  BY <1>1, <1>2, <1>3, <1>4, <1>5 DEF Next, Loop, HandleNext, Handle, Send

-----------------------------------------------------------------------------
(* What steps do to msgCh. *)

(* Taking a message of msgCh leaves the others, one place further on. *)
LEMMA TakeTail ==
    ASSUME LoopTypes, NEW m, TakeMsg(m)
    PROVE  /\ msgCh # <<>> /\ m = msgCh[1] /\ m \in Message
           /\ msgCh' \in Seq(Message)
           /\ DOMAIN msgCh = 1..Len(msgCh)
           /\ Len(msgCh) \in Nat \ {0}
           /\ Len(msgCh') = Len(msgCh) - 1
           /\ DOMAIN msgCh' = 1..(Len(msgCh) - 1)
           /\ \A i \in DOMAIN msgCh' : msgCh'[i] = msgCh[i + 1]
BY DEF LoopTypes, TakeMsg

(* Reading a message appends one to msgCh. *)
LEMMA ReadAppend ==
    ASSUME LoopTypes, NEW m \in Message, ReadNext(m)
    PROVE  /\ msgCh' \in Seq(Message)
           /\ DOMAIN msgCh = 1..Len(msgCh)
           /\ Len(msgCh) \in Nat
           /\ Len(msgCh') = Len(msgCh) + 1
           /\ Len(msgCh') <= MsgCap + 1
           /\ DOMAIN msgCh' = 1..(Len(msgCh) + 1)
           /\ \A i \in DOMAIN msgCh : msgCh'[i] = msgCh[i]
           /\ msgCh'[Len(msgCh) + 1] = m
BY MsgCapAssumption DEF LoopTypes, ReadNext

(* A reader that gives up loses its last message, and no other. *)
LEMMA StuckPrefix ==
    ASSUME LoopTypes, ReaderStuck
    PROVE  /\ msgCh' \in Seq(Message)
           /\ DOMAIN msgCh = 1..(MsgCap + 1)
           /\ Len(msgCh') = MsgCap
           /\ DOMAIN msgCh' = 1..MsgCap
           /\ \A i \in DOMAIN msgCh' : msgCh'[i] = msgCh[i]
<1>1. Len(msgCh) = MsgCap + 1 /\ msgCh' = SubSeq(msgCh, 1, MsgCap)
  BY DEF ReaderStuck
<1>2. \A i \in 1..MsgCap : msgCh[i] \in Message
  BY <1>1, MsgCapAssumption DEF LoopTypes
<1> QED
  BY <1>1, <1>2, MsgCapAssumption DEF LoopTypes

(* The limits of a behaviour are within those of the constants. *)
LEMMA LimitBounds ==
    ASSUME NetTypes
    PROVE  limit.calls \subseteq Calls /\ limit.events \in 0..MaxEvents /\ limit.breaks \in 0..MaxBreaks
BY LimitsAssumption DEF NetTypes

-----------------------------------------------------------------------------
(* Each step keeps the types of the server and of the connection. *)
LEMMA NetTypeStep ==
    ASSUME TypeOK, [Next]_vars
    PROVE  NetTypes'
<1>0. limit.events \in 0..MaxEvents /\ limit.breaks \in 0..MaxBreaks
  BY LimitBounds DEF TypeOK
<1> USE BoundsAssumption DEF TypeOK
<1>1. CASE UNCHANGED <<server, link>>
  BY <1>1 DEF NetTypes, server, link
<1>2. CASE Emit
  BY <1>0, <1>2 DEF Emit, NetTypes, link
<1>3. CASE LinkBreaks
  <2>1. breaks' \in 0..MaxBreaks /\ serverRun' \in 1..(breaks' + 1)
    BY <1>0, <1>3 DEF LinkBreaks, Break, NetTypes, server
  <2> QED
    BY <1>3, <2>1 DEF LinkBreaks, NetTypes, server
<1>4. CASE ServerRestarts
  <2>1. breaks' \in 0..MaxBreaks /\ serverRun' \in 1..(breaks' + 1) /\ latest' \in 0..MaxEvents
    BY <1>0, <1>4 DEF ServerRestarts, Break, NetTypes
  <2> QED
    BY <1>4, <2>1 DEF ServerRestarts, NetTypes
<1>5. CASE ReadRun
  BY <1>5 DEF ReadRun, NetTypes, server
<1>6. CASE ReadEvent
  BY <1>6 DEF ReadEvent, NetTypes, server
<1>7. CASE ReaderStuck
  BY <1>0, <1>7 DEF ReaderStuck, Break, NetTypes, server
<1>8. CASE Dial
  <2>1. taken' \in Nat
    BY <1>8 DEF Dial, Resumes, NetTypes, LoopTypes
  <2>2. cursor' \in Nat \ {0} /\ conns' \in Nat /\ connRun' \in Runs
    BY <1>8, <2>1 DEF Dial, NetTypes, Runs
  <2> QED
    BY <1>8, <2>2 DEF Dial, NetTypes, server
<1>9. CASE Close
  BY <1>9 DEF Close, NetTypes, server
<1>10. ASSUME NEW k \in Calls, NEW verdict \in Verdicts, Serve(k, verdict)
       PROVE  NetTypes'
  BY <1>10 DEF Serve, NetTypes
<1>11. ASSUME NEW k \in Calls, ReadAnswer(k)
       PROVE  NetTypes'
  BY <1>11 DEF ReadAnswer, NetTypes, server
<1>12. ASSUME NEW k \in Calls, Write(k)
       PROVE  NetTypes'
  BY <1>12 DEF Write, NetTypes, link
<1> QED
  BY <1>1, <1>2, <1>3, <1>4, <1>5, <1>6, <1>7, <1>8, <1>9, <1>10, <1>11, <1>12, NetFrame

(* Each step keeps the types of the goroutines' variables, and the capacity of msgCh. *)
LEMMA LoopTypeStep ==
    ASSUME TypeOK, Owned, Ordered, [Next]_vars
    PROVE  LoopTypes'
<1> USE MsgCapAssumption, BoundsAssumption DEF TypeOK
<1>1. CASE UNCHANGED <<poll, reader, msgCh, gomuksConn, resume>>
  BY <1>1 DEF LoopTypes, resume
<1>2. CASE ReadRun
  <2>1. Msg("run", connRun) \in Message
    BY DEF Msg, Message, NetTypes, Runs
  <2> QED
    BY <1>2, <2>1, ReadAppend DEF ReadRun, LoopTypes, resume
<1>3. CASE ReadEvent
  <2>1. EventKind[connRun][cursor] \in Kinds
    BY <1>3, EventKindAssumption DEF ReadEvent, NetTypes
  <2>2. Msg(EventKind[connRun][cursor], cursor) \in Message
    BY <2>1 DEF Msg, Message, NetTypes
  <2> QED
    BY <1>3, <2>2, ReadAppend DEF ReadEvent, LoopTypes, resume
<1>4. CASE ReadFails
  BY <1>4 DEF ReadFails, LoopTypes, resume
<1>5. CASE ReaderStuck
  <2>1. msgCh' \in Seq(Message) /\ Len(msgCh') <= MsgCap + 1
    BY <1>5, StuckPrefix
  <2> QED
    BY <1>5, <2>1 DEF ReaderStuck, LoopTypes, resume
<1>6. CASE Dial
  <2>1. taken' \in Nat
    BY <1>6 DEF Dial, Resumes, NetTypes, LoopTypes
  <2> QED
    BY <1>6, <2>1 DEF Dial, LoopTypes, NetTypes, Polls
<1>7. CASE LoopEnds \/ Clear \/ Sweep \/ Close
  BY <1>7 DEF LoopEnds, Clear, Sweep, Close, LoopTypes, Polls, resume
<1>8. ASSUME NEW k \in Calls, ReadAnswer(k), served[k] \in Verdicts
      PROVE  LoopTypes'
  <2>1. Msg(served[k], seq[k]) \in Message
    BY <1>8 DEF Msg, Message, CallTypes
  <2>2. msgCh' \in Seq(Message) /\ Len(msgCh') <= MsgCap + 1
    BY <1>8, <2>1, ReadAppend DEF ReadAnswer
  <2> QED
    BY <1>8, <2>2 DEF ReadAnswer, LoopTypes, resume
<1>9. ASSUME NEW m, TakeMsg(m)
      PROVE  m \in Message /\ msgCh' \in Seq(Message) /\ Len(msgCh') <= MsgCap + 1
  <2>1. Len(msgCh) \in Nat /\ Len(msgCh) <= MsgCap + 1
    BY DEF LoopTypes
  <2> QED
    BY <1>9, <2>1, TakeTail
<1>10. ASSUME NEW m, HandleRun(m)
       PROVE  LoopTypes'
  <2>1. m \in Message /\ msgCh' \in Seq(Message) /\ Len(msgCh') <= MsgCap + 1
    BY <1>9, <1>10 DEF HandleRun
  <2>2. m.n = connRun
    BY <1>10, TakeTail DEF HandleRun, Ordered
  <2>3. gomuksRunID' \in Runs \cup {0} /\ lastRecvNegID' \in Int
    BY <1>10, <2>2 DEF HandleRun, NetTypes, LoopTypes
  <2> QED
    BY <1>10, <2>1, <2>3 DEF HandleRun, LoopTypes
<1>11. ASSUME NEW m, HandleTyping(m)
       PROVE  LoopTypes'
  <2>1. m \in Message /\ msgCh' \in Seq(Message) /\ Len(msgCh') <= MsgCap + 1
    BY <1>9, <1>11 DEF HandleTyping
  <2>2. taken' \in Nat
    BY <1>11, <2>1 DEF HandleTyping, Message
  <2> QED
    BY <1>11, <2>1, <2>2 DEF HandleTyping, LoopTypes
<1>12. ASSUME NEW m, PublishEvent(m)
       PROVE  LoopTypes'
  <2>1. m \in Message /\ msgCh' \in Seq(Message) /\ Len(msgCh') <= MsgCap + 1
    BY <1>9, <1>12 DEF PublishEvent
  <2>2. taken' \in Nat /\ lastRecvNegID' \in Int
    BY <1>12, <2>1 DEF PublishEvent, Message, Lesser, LoopTypes
  <2>3. upto' \in [Runs -> Nat]
    BY <1>12, <2>1 DEF PublishEvent, Message, LoopTypes
  <2> QED
    BY <1>12, <2>1, <2>2, <2>3 DEF PublishEvent, LoopTypes
<1>13. ASSUME NEW m, HandleAnswer(m)
       PROVE  LoopTypes'
  <2>1. m \in Message /\ msgCh' \in Seq(Message) /\ Len(msgCh') <= MsgCap + 1
    BY <1>9, <1>13 DEF HandleAnswer
  <2> QED
    BY <1>13, <2>1 DEF HandleAnswer, LoopTypes, resume
<1>14. ASSUME NEW k \in Calls, ReadAnswer(k)
       PROVE  served[k] \in Verdicts
  BY <1>14 DEF ReadAnswer, Owned, OwnedByCalls
<1> QED
  BY <1>1, <1>2, <1>3, <1>4, <1>5, <1>6, <1>7, <1>8, <1>10, <1>11, <1>12, <1>13, <1>14, LoopFrame

(* Each step keeps the types of the calls. *)
LEMMA CallTypeStep ==
    ASSUME TypeOK, [Next]_vars
    PROVE  CallTypes'
<1> USE DEF TypeOK
<1>1. CASE UNCHANGED call
  BY <1>1 DEF CallTypes, call
<1>2. CASE Sweep
  <2>1. ch' \in [Calls -> Contents] /\ closed' \subseteq Calls
    BY <1>2 DEF Sweep, Registered, Contents, CallTypes
  <2> QED
    BY <1>2, <2>1 DEF Sweep, CallTypes
<1>3. ASSUME NEW m, HandleAnswer(m)
      PROVE  CallTypes'
  <2>1. ch' \in [Calls -> Contents]
    BY <1>3 DEF HandleAnswer, Contents, CallTypes
  <2> QED
    BY <1>3, <2>1 DEF HandleAnswer, CallTypes
<1>4. ASSUME NEW k \in Calls, Begin(k)
      PROVE  CallTypes'
  <2>1. /\ conn' \in [Calls -> Nat] /\ gomuksSeq' \in Nat /\ seq' \in [Calls -> Nat]
    BY <1>4 DEF Begin, CallTypes, LoopTypes
  <2>2. pc' \in [Calls -> PCs] /\ result' \in [Calls -> Results]
    BY <1>4 DEF Begin, Goto, Return, PCs, Results, CallTypes
  <2> QED
    BY <1>4, <2>1, <2>2 DEF Begin, CallTypes
<1>5. ASSUME NEW k \in Calls, Register(k)
      PROVE  CallTypes'
  <2>1. pendingSends' \subseteq Nat \X Calls /\ late' \subseteq Calls
    BY <1>5 DEF Register, CallTypes
  <2>2. pc' \in [Calls -> PCs]
    BY <1>5 DEF Register, Goto, PCs, CallTypes
  <2> QED
    BY <1>5, <2>1, <2>2 DEF Register, CallTypes
<1>6. ASSUME NEW k \in Calls, Write(k)
      PROVE  CallTypes'
  <2>1. pc' \in [Calls -> PCs]
    BY <1>6 DEF Write, Goto, PCs, CallTypes
  <2> QED
    BY <1>6, <2>1 DEF Write, CallTypes
<1>7. ASSUME NEW k \in Calls, NEW from, NEW r \in Results, Return(k, from, r), Forget(k)
      PROVE  /\ pendingSends' \subseteq Nat \X Calls
             /\ pc' \in [Calls -> PCs]
             /\ result' \in [Calls -> Results]
  BY <1>7 DEF Return, Goto, Forget, PCs, CallTypes
<1>8. ASSUME NEW k \in Calls, WriteFails(k)
      PROVE  CallTypes'
  <2>1. "broken" \in Results
    BY DEF Results
  <2>2. /\ pendingSends' \subseteq Nat \X Calls
        /\ pc' \in [Calls -> PCs]
        /\ result' \in [Calls -> Results]
    BY <1>7, <1>8, <2>1 DEF WriteFails
  <2> QED
    BY <1>8, <2>2 DEF WriteFails, CallTypes
<1>9. ASSUME NEW k \in Calls, Receive(k)
      PROVE  CallTypes'
  <2> DEFINE r == IF ch[k] = "empty" THEN "ok" ELSE ch[k]
  <2>1. r \in Results
    BY DEF Results, Contents, Verdicts, CallTypes
  <2>2. /\ pendingSends' \subseteq Nat \X Calls
        /\ pc' \in [Calls -> PCs]
        /\ result' \in [Calls -> Results]
    BY <1>7, <1>9, <2>1 DEF Receive
  <2> QED
    BY <1>9, <2>2 DEF Receive, CallTypes
<1>10. ASSUME NEW k \in Calls, Timeout(k)
       PROVE  CallTypes'
  <2>1. "timeout" \in Results
    BY DEF Results
  <2>2. /\ pendingSends' \subseteq Nat \X Calls
        /\ pc' \in [Calls -> PCs]
        /\ result' \in [Calls -> Results]
    BY <1>7, <1>10, <2>1 DEF Timeout
  <2> QED
    BY <1>10, <2>2 DEF Timeout, CallTypes
<1> QED
  BY <1>1, <1>2, <1>3, <1>4, <1>5, <1>6, <1>8, <1>9, <1>10, CallFrame

-----------------------------------------------------------------------------
(* Each step keeps request ids unique, and pending ones those of waiting calls. *)
LEMMA NumberedStep ==
    ASSUME TypeOK, Numbered, [Next]_vars
    PROVE  Numbered'
<1> USE DEF TypeOK
<1>1. CASE UNCHANGED call
  BY <1>1 DEF Numbered, call
<1>2. CASE Sweep
  BY <1>2 DEF Sweep, Numbered
<1>3. ASSUME NEW m, HandleAnswer(m)
      PROVE  Numbered'
  BY <1>3 DEF HandleAnswer, Numbered
<1>4. ASSUME NEW k \in Calls, Begin(k)
      PROVE  Numbered'
  <2>1. /\ pc[k] = "free" /\ pc'[k] \in {"register", "done"}
        /\ \A j \in Calls \ {k} : pc'[j] = pc[j] /\ seq'[j] = seq[j]
        /\ seq'[k] = gomuksSeq + 1 /\ gomuksSeq' = gomuksSeq + 1 /\ gomuksSeq \in Nat
        /\ pendingSends' = pendingSends
    BY <1>4 DEF Begin, Goto, Return, CallTypes
  <2>2. \A j \in Calls : seq[j] \in Nat
    BY DEF CallTypes
  <2> QED
    BY <2>1, <2>2 DEF Numbered
<1>5. ASSUME NEW k \in Calls, Register(k)
      PROVE  Numbered'
  <2>1. /\ pc[k] = "register" /\ pc'[k] = "write"
        /\ \A j \in Calls \ {k} : pc'[j] = pc[j]
        /\ seq' = seq /\ gomuksSeq' = gomuksSeq
    BY <1>5 DEF Register, Goto, CallTypes
  <2>2. \A s \in Nat, j \in Calls :
            <<s, j>> \in pendingSends' => <<s, j>> \in pendingSends \/ (s = seq[k] /\ j = k)
    BY <1>5 DEF Register
  <2> QED
    BY <2>1, <2>2 DEF Numbered
<1>6. ASSUME NEW k \in Calls, Write(k)
      PROVE  Numbered'
  <2>1. /\ pc[k] = "write" /\ pc'[k] = "wait"
        /\ \A j \in Calls \ {k} : pc'[j] = pc[j]
        /\ seq' = seq /\ gomuksSeq' = gomuksSeq /\ pendingSends' = pendingSends
    BY <1>6 DEF Write, Goto, CallTypes
  <2> QED
    BY <2>1 DEF Numbered
<1>7. ASSUME NEW k \in Calls, WriteFails(k) \/ Receive(k) \/ Timeout(k)
      PROVE  Numbered'
  <2>1. /\ pc[k] # "free" /\ pc'[k] = "done"
        /\ \A j \in Calls \ {k} : pc'[j] = pc[j]
        /\ seq' = seq /\ gomuksSeq' = gomuksSeq
    BY <1>7 DEF WriteFails, Receive, Timeout, Return, Goto, CallTypes
  <2>2. \A s \in Nat, j \in Calls :
            <<s, j>> \in pendingSends' => <<s, j>> \in pendingSends /\ s # seq[k]
    BY <1>7 DEF WriteFails, Receive, Timeout, Forget
  <2> QED
    BY <2>1, <2>2 DEF Numbered
<1> QED
  BY <1>1, <1>2, <1>3, <1>4, <1>5, <1>6, <1>7, CallFrame

-----------------------------------------------------------------------------
(* A message in msgCh after a step was there before, is no answer, or was  *)
(* read from the connection.                                               *)
LEMMA MessageOrigin ==
    ASSUME TypeOK, Owned, [Next]_vars, NEW i \in DOMAIN msgCh'
    PROVE  \/ \E j \in DOMAIN msgCh : msgCh'[i] = msgCh[j]
           \/ msgCh'[i].type \notin Verdicts
           \/ \E k \in Calls : ReadAnswer(k) /\ msgCh'[i] = Msg(served[k], seq[k])
<1> USE DEF TypeOK
<1>1. CASE msgCh' = msgCh
  BY <1>1
<1>2. CASE msgCh' = <<>>
  BY <1>2
<1>3. ASSUME NEW m, TakeMsg(m)
      PROVE  \E j \in DOMAIN msgCh : msgCh'[i] = msgCh[j]
  <2>1. /\ DOMAIN msgCh = 1..Len(msgCh) /\ Len(msgCh) \in Nat \ {0}
        /\ i \in 1..(Len(msgCh) - 1) /\ msgCh'[i] = msgCh[i + 1]
    BY <1>3, TakeTail
  <2> QED
    BY <2>1
<1>4. CASE ReaderStuck
  <2>1. /\ DOMAIN msgCh = 1..(MsgCap + 1)
        /\ i \in 1..MsgCap /\ msgCh'[i] = msgCh[i]
    BY <1>4, StuckPrefix
  <2> QED
    BY <2>1, MsgCapAssumption
<1>5. ASSUME NEW m \in Message, ReadNext(m)
      PROVE  (\E j \in DOMAIN msgCh : msgCh'[i] = msgCh[j]) \/ msgCh'[i] = m
  <2>1. /\ DOMAIN msgCh = 1..Len(msgCh) /\ Len(msgCh) \in Nat
        /\ DOMAIN msgCh' = 1..(Len(msgCh) + 1)
        /\ \A j \in DOMAIN msgCh : msgCh'[j] = msgCh[j]
        /\ msgCh'[Len(msgCh) + 1] = m
    BY <1>5, ReadAppend
  <2>2. i \in DOMAIN msgCh \/ i = Len(msgCh) + 1
    BY <2>1
  <2> QED
    BY <2>1, <2>2
<1>6. CASE ReadRun
  <2>1. Msg("run", connRun) \in Message
    BY DEF Msg, Message, NetTypes, Runs
  <2>2. Msg("run", connRun).type \notin Verdicts
    BY DEF Msg, Verdicts
  <2> QED
    BY <1>5, <1>6, <2>1, <2>2 DEF ReadRun
<1>7. CASE ReadEvent
  <2>1. EventKind[connRun][cursor] \in Kinds
    BY <1>7, BoundsAssumption, EventKindAssumption DEF ReadEvent, NetTypes
  <2>2. Msg(EventKind[connRun][cursor], cursor) \in Message
    BY <2>1 DEF Msg, Message, NetTypes
  <2>3. Msg(EventKind[connRun][cursor], cursor).type \notin Verdicts
    BY <2>1 DEF Msg, Verdicts, Kinds
  <2> QED
    BY <1>5, <1>7, <2>2, <2>3 DEF ReadEvent
<1>8. ASSUME NEW k \in Calls, ReadAnswer(k)
      PROVE  \/ \E j \in DOMAIN msgCh : msgCh'[i] = msgCh[j]
             \/ msgCh'[i].type \notin Verdicts
             \/ msgCh'[i] = Msg(served[k], seq[k])
  <2>1. served[k] \in Verdicts
    BY <1>8 DEF ReadAnswer, Owned, OwnedByCalls
  <2>2. Msg(served[k], seq[k]) \in Message
    BY <2>1 DEF Msg, Message, CallTypes
  <2> QED
    BY <1>5, <1>8, <2>2 DEF ReadAnswer
<1>9. CASE UNCHANGED <<poll, reader, msgCh, gomuksConn, resume>>
  BY <1>1, <1>9
<1>10. CASE ReadFails \/ LoopEnds \/ Clear \/ Sweep \/ Close
  BY <1>1, <1>10 DEF ReadFails, LoopEnds, Clear, Sweep, Close
<1>11. CASE Dial
  BY <1>2, <1>11 DEF Dial
<1>12. ASSUME NEW m, HandleRun(m) \/ HandleTyping(m) \/ PublishEvent(m) \/ HandleAnswer(m)
       PROVE  \E j \in DOMAIN msgCh : msgCh'[i] = msgCh[j]
  BY <1>3, <1>12 DEF HandleRun, HandleTyping, PublishEvent, HandleAnswer
<1> QED
  BY <1>4, <1>6, <1>7, <1>8, <1>9, <1>10, <1>11, <1>12, LoopFrame

(* What is known of an answer stays true. *)
LEMMA OwnKept ==
    ASSUME TypeOK, Numbered, Owned, [Next]_vars, NEW m \in Message, Own(m)
    PROVE  Own(m)'
<1> SUFFICES ASSUME m.type \in Verdicts
             PROVE  /\ m.n \in 1..gomuksSeq'
                    /\ \A j \in Calls : seq'[j] = m.n => served'[j] = m.type
  BY DEF Own
<1>0. m.n \in 1..gomuksSeq /\ \A j \in Calls : seq[j] = m.n => served[j] = m.type
  BY DEF Own
<1>1. gomuksSeq' \in Nat /\ gomuksSeq <= gomuksSeq'
  <2>1. ASSUME NEW k \in Calls, \/ Begin(k) \/ Register(k) \/ Write(k) \/ WriteFails(k)
                                \/ Receive(k) \/ Timeout(k)
        PROVE  gomuksSeq' \in {gomuksSeq, gomuksSeq + 1}
    BY <2>1 DEF Begin, Register, Write, WriteFails, Receive, Timeout
  <2>2. ASSUME Sweep \/ UNCHANGED call \/ \E mm : HandleAnswer(mm)
        PROVE  gomuksSeq' = gomuksSeq
    BY <2>2 DEF Sweep, call, HandleAnswer
  <2>3. gomuksSeq \in Nat
    BY DEF TypeOK, CallTypes
  <2> QED
    BY <2>1, <2>2, <2>3, CallFrame
<1>2. \A j \in Calls : seq'[j] = seq[j] \/ seq'[j] = gomuksSeq + 1
  <2>1. ASSUME NEW k \in Calls, \/ Begin(k) \/ Register(k) \/ Write(k) \/ WriteFails(k)
                                \/ Receive(k) \/ Timeout(k)
        PROVE  \A j \in Calls : seq'[j] = seq[j] \/ seq'[j] = gomuksSeq + 1
    BY <2>1 DEF TypeOK, CallTypes, Begin, Register, Write, WriteFails, Receive, Timeout
  <2>2. ASSUME Sweep \/ UNCHANGED call \/ \E mm : HandleAnswer(mm)
        PROVE  seq' = seq
    BY <2>2 DEF Sweep, call, HandleAnswer
  <2> QED
    BY <2>1, <2>2, CallFrame
<1>3. \A j \in Calls : served'[j] = served[j] \/ served[j] = "none"
  <2>1. ASSUME NEW k \in Calls, NEW verdict \in Verdicts, Serve(k, verdict)
        PROVE  \A j \in Calls : served'[j] = served[j] \/ served[j] = "none"
    BY <2>1 DEF Serve, Owned, OwnedByCalls, TypeOK, NetTypes
  <2>2. ASSUME NEW k \in Calls, ReadAnswer(k) \/ Write(k)
        PROVE  served' = served
    BY <2>2 DEF ReadAnswer, Write, server
  <2>3. ASSUME \/ UNCHANGED <<server, link>>
               \/ Emit \/ LinkBreaks \/ ServerRestarts \/ ReadRun \/ ReadEvent \/ ReaderStuck
               \/ Dial \/ Close
        PROVE  served' = served
    BY <2>3 DEF server, Emit, LinkBreaks, ServerRestarts, ReadRun, ReadEvent, ReaderStuck, Dial, Close
  <2> QED
    BY <2>1, <2>2, <2>3, NetFrame
<1>4. m.n \in 1..gomuksSeq'
  BY <1>0, <1>1 DEF TypeOK, CallTypes
<1>5. ASSUME NEW j \in Calls, seq'[j] = m.n
      PROVE  served'[j] = m.type
  <2>1. seq[j] = m.n
    BY <1>0, <1>2, <1>5 DEF TypeOK, CallTypes
  <2>2. served[j] = m.type
    BY <1>0, <2>1
  <2> QED
    BY <1>3, <2>2 DEF Verdicts
<1> QED
  BY <1>4, <1>5

(* Each step leaves each call with its own answer. *)
LEMMA OwnedByCallsStep ==
    ASSUME TypeOK, Numbered, Owned, [Next]_vars
    PROVE  OwnedByCalls'
<1> USE DEF TypeOK
<1>1. CASE UNCHANGED vars
  BY <1>1 DEF Owned, OwnedByCalls, vars
<1>2. ASSUME NEW k \in Calls, NEW verdict \in Verdicts, Serve(k, verdict)
      PROVE  OwnedByCalls'
  <2>1. /\ k \in sent /\ sent' = sent \ {k}
        /\ served'[k] = verdict
        /\ \A j \in Calls \ {k} : served'[j] = served[j]
        /\ answers' \subseteq answers \cup {k}
        /\ UNCHANGED <<ch, closed, pc, result>>
    BY <1>2 DEF Serve, NetTypes, call
  <2>2. served[k] = "none" /\ "none" \notin Verdicts
    BY <2>1 DEF Owned, OwnedByCalls, Verdicts
  <2> QED
    BY <2>1, <2>2 DEF Owned, OwnedByCalls
<1>3. CASE Emit \/ LinkBreaks \/ ServerRestarts \/ ReadRun \/ ReadEvent \/ ReadFails \/ ReaderStuck
           \/ Dial \/ LoopEnds \/ Clear \/ Close
  <2>1. UNCHANGED <<ch, closed, pc, served, result>> /\ sent' \subseteq sent /\ answers' \subseteq answers
    BY <1>3 DEF Emit, LinkBreaks, ServerRestarts, ReadRun, ReadEvent, ReadFails, ReaderStuck, Dial,
                LoopEnds, Clear, Close, server, link, call
  <2> QED
    BY <2>1 DEF Owned, OwnedByCalls
<1>4. ASSUME NEW k \in Calls, ReadAnswer(k)
      PROVE  OwnedByCalls'
  BY <1>4 DEF ReadAnswer, Owned, OwnedByCalls, server, call
<1>5. ASSUME NEW m, HandleRun(m) \/ HandleTyping(m) \/ PublishEvent(m)
      PROVE  OwnedByCalls'
  <2>1. UNCHANGED <<ch, closed, pc, served, result, sent, answers>>
    BY <1>5 DEF HandleRun, HandleTyping, PublishEvent, server, link, call
  <2> QED
    BY <2>1 DEF Owned, OwnedByCalls
<1>6. ASSUME NEW m, HandleAnswer(m)
      PROVE  OwnedByCalls'
  <2>1. m \in Message /\ m.type \in Verdicts /\ Own(m)
    BY <1>6, TakeTail DEF HandleAnswer, Owned
  <2>2. ASSUME NEW k \in Calls, <<m.n, k>> \in pendingSends
        PROVE  served[k] = m.type
    BY <2>1, <2>2 DEF Own, Numbered, Message
  <2>3. UNCHANGED <<closed, pc, served, result, sent, answers>>
    BY <1>6 DEF HandleAnswer, server, link
  <2>4. \A k \in Calls : ch'[k] = IF <<m.n, k>> \in pendingSends THEN m.type ELSE ch[k]
    BY <1>6 DEF HandleAnswer
  <2>5. "empty" \notin Verdicts
    BY DEF Verdicts
  <2> QED
    BY <2>1, <2>2, <2>3, <2>4, <2>5 DEF Owned, OwnedByCalls
<1>7. CASE Sweep
  <2>1. UNCHANGED <<pc, served, result, sent, answers>>
    BY <1>7 DEF Sweep, server, link
  <2>2. \A k \in Calls : ch'[k] = IF k \in Registered /\ ch[k] = "empty" THEN "disconnected" ELSE ch[k]
    BY <1>7 DEF Sweep
  <2>3. closed' = closed \cup Registered
    BY <1>7 DEF Sweep
  <2>4. "disconnected" \notin Verdicts
    BY DEF Verdicts
  <2> QED
    BY <2>1, <2>2, <2>3, <2>4 DEF Owned, OwnedByCalls
<1>8. ASSUME NEW k \in Calls, Begin(k) \/ Register(k)
      PROVE  OwnedByCalls'
  <2>1. /\ pc[k] \in {"free", "register"}
        /\ \A j \in Calls \ {k} : pc'[j] = pc[j] /\ result'[j] = result[j]
        /\ result'[k] \in {result[k], "offline"}
        /\ UNCHANGED <<ch, closed, served, sent, answers>>
    BY <1>8 DEF Begin, Register, Goto, Return, CallTypes, server, link
  <2>2. "offline" \notin Verdicts
    BY DEF Verdicts
  <2> QED
    BY <2>1, <2>2 DEF Owned, OwnedByCalls
<1>9. ASSUME NEW k \in Calls, Write(k)
      PROVE  OwnedByCalls'
  <2>1. /\ pc[k] = "write" /\ pc'[k] = "wait"
        /\ \A j \in Calls \ {k} : pc'[j] = pc[j]
        /\ sent' \subseteq sent \cup {k}
        /\ UNCHANGED <<ch, closed, served, result, answers>>
    BY <1>9 DEF Write, Goto, CallTypes, link
  <2> QED
    BY <2>1 DEF Owned, OwnedByCalls
<1>10. ASSUME NEW k \in Calls, WriteFails(k) \/ Receive(k) \/ Timeout(k)
       PROVE  OwnedByCalls'
  <2>1. /\ pc'[k] = "done"
        /\ \A j \in Calls \ {k} : pc'[j] = pc[j] /\ result'[j] = result[j]
        /\ UNCHANGED <<ch, closed, served, sent, answers>>
    BY <1>10 DEF WriteFails, Receive, Timeout, Goto, Return, CallTypes, server, link
  <2>2. result'[k] \in {"broken", "timeout"} \/ result'[k] = ch[k]
    BY <1>10 DEF WriteFails, Receive, Timeout, Return, CallTypes, Owned, OwnedByCalls
  <2>3. "broken" \notin Verdicts /\ "timeout" \notin Verdicts
    BY DEF Verdicts
  <2> QED
    BY <2>1, <2>2, <2>3 DEF Owned, OwnedByCalls
<1> QED
  BY <1>1, <1>2, <1>3, <1>4, <1>5, <1>6, <1>7, <1>8, <1>9, <1>10
     DEF Next, Read, Loop, HandleNext, Handle, Send

(* Each step keeps each answer on its way that of its call. *)
LEMMA OwnedStep ==
    ASSUME TypeOK, Numbered, Owned, [Next]_vars
    PROVE  Owned'
<1>1. ASSUME NEW i \in DOMAIN msgCh'
      PROVE  Own(msgCh[i])'
  <2>1. ASSUME NEW j \in DOMAIN msgCh, msgCh'[i] = msgCh[j]
        PROVE  Own(msgCh[i])'
    <3>1. msgCh[j] \in Message /\ Own(msgCh[j])
      BY DEF TypeOK, LoopTypes, Owned
    <3>2. PICK m \in Message : m = msgCh[j]
      BY <3>1
    <3>3. Own(m)
      BY <3>1, <3>2 DEF Own
    <3>4. Own(m)'
      BY <3>3, OwnKept
    <3> QED
      BY <2>1, <3>2, <3>4 DEF Own
  <2>2. CASE msgCh'[i].type \notin Verdicts
    BY <2>2 DEF Own
  <2>3. ASSUME NEW k \in Calls, ReadAnswer(k), msgCh'[i] = Msg(served[k], seq[k])
        PROVE  Own(msgCh[i])'
    <3>1. served[k] \in Verdicts /\ pc[k] # "free"
      BY <2>3 DEF ReadAnswer, Owned, OwnedByCalls, Verdicts
    <3>2. seq[k] \in 1..gomuksSeq
      BY <3>1 DEF Numbered, TypeOK, CallTypes
    <3>3. \A j \in Calls : seq[j] = seq[k] => j = k
      BY <3>2 DEF Numbered
    <3>4. UNCHANGED <<seq, served, gomuksSeq>>
      BY <2>3 DEF ReadAnswer, call, server
    <3> QED
      BY <2>3, <3>2, <3>3, <3>4 DEF Own, Msg
  <2> QED
    BY <2>1, <2>2, <2>3, MessageOrigin
<1> QED
  BY <1>1, OwnedByCallsStep DEF Owned

-----------------------------------------------------------------------------
(* Each step keeps a call nothing has reached in front of the sweep of its connection. *)
LEMMA UnsweptStep ==
    ASSUME TypeOK, Numbered, Unswept, [Next]_vars
    PROVE  Unswept'
<1> USE DEF TypeOK
<1>1. ASSUME UNCHANGED <<gomuksConn, conns, poll, pc, conn, seq, ch, late, pendingSends>>
      PROVE  Unswept'
  BY <1>1 DEF Unswept
<1>2. CASE UNCHANGED vars
  BY <1>1, <1>2 DEF vars
<1>3. CASE Emit \/ LinkBreaks \/ ServerRestarts \/ ReadRun \/ ReadEvent \/ ReadFails \/ ReaderStuck
  BY <1>1, <1>3 DEF Emit, LinkBreaks, ServerRestarts, ReadRun, ReadEvent, ReadFails, ReaderStuck,
                    link, call
<1>4. ASSUME NEW k \in Calls, ReadAnswer(k) \/ \E verdict \in Verdicts : Serve(k, verdict)
      PROVE  Unswept'
  BY <1>1, <1>4 DEF ReadAnswer, Serve, call
<1>5. ASSUME NEW m, HandleRun(m) \/ HandleTyping(m) \/ PublishEvent(m)
      PROVE  Unswept'
  BY <1>1, <1>5 DEF HandleRun, HandleTyping, PublishEvent, link, call
<1>6. ASSUME NEW m, HandleAnswer(m)
      PROVE  Unswept'
  <2>1. \A k \in Calls : ch'[k] = ch[k] \/ ch'[k] \in Verdicts
    BY <1>6 DEF HandleAnswer
  <2>2. UNCHANGED <<gomuksConn, conns, poll, pc, conn, seq, late, pendingSends>>
    BY <1>6 DEF HandleAnswer, link
  <2>3. "empty" \notin Verdicts
    BY DEF Verdicts
  <2> QED
    BY <2>1, <2>2, <2>3 DEF Unswept
<1>7. CASE Dial
  <2>1. poll = "dial" /\ poll' = "loop" /\ conns' = conns + 1 /\ gomuksConn' = conns + 1
    BY <1>7 DEF Dial
  <2>2. UNCHANGED <<pc, conn, seq, ch, late, pendingSends>>
    BY <1>7 DEF Dial, call
  <2> QED
    BY <2>1, <2>2 DEF Unswept
<1>8. CASE LoopEnds \/ Clear
  <2>1. UNCHANGED <<conns, pc, conn, seq, ch, late, pendingSends>>
    BY <1>8 DEF LoopEnds, Clear, link, call
  <2>2. \/ poll' = "clear" /\ gomuksConn' = gomuksConn
        \/ poll' = "sweep" /\ gomuksConn' = 0
    BY <1>8 DEF LoopEnds, Clear
  <2>3. poll \in {"loop", "clear"}
    BY <1>8 DEF LoopEnds, Clear
  <2> QED
    BY <2>1, <2>2, <2>3 DEF Unswept
<1>9. CASE Sweep
  <2>1. UNCHANGED <<conns, gomuksConn, pc, conn, seq, late>> /\ poll = "sweep"
    BY <1>9 DEF Sweep, link
  <2>2. \A k \in Calls : ch'[k] = "empty" => ch[k] = "empty" /\ k \notin Registered
    BY <1>9 DEF Sweep
  <2>3. \A k \in Calls : <<seq[k], k>> \in pendingSends => k \in Registered
    BY DEF Registered
  <2>4. gomuksConn' = 0
    BY <2>1 DEF Unswept
  <2> QED
    BY <2>1, <2>2, <2>3, <2>4 DEF Unswept
<1>10. CASE Close
  <2>1. UNCHANGED <<conns, gomuksConn, pc, conn, seq, ch, late, pendingSends>> /\ poll = "close"
    BY <1>10 DEF Close, call
  <2> QED
    BY <2>1 DEF Unswept
<1>11. ASSUME NEW k \in Calls, Begin(k)
       PROVE  Unswept'
  <2>1. /\ pc'[k] \in {"register", "done"} /\ (pc'[k] = "register" => conn'[k] # 0)
        /\ \A j \in Calls \ {k} : pc'[j] = pc[j] /\ conn'[j] = conn[j] /\ seq'[j] = seq[j]
        /\ UNCHANGED <<conns, gomuksConn, poll, ch, late, pendingSends>>
    BY <1>11 DEF Begin, Goto, Return, CallTypes, link
  <2> QED
    BY <2>1 DEF Unswept
<1>12. ASSUME NEW k \in Calls, Register(k)
       PROVE  Unswept'
  <2>1. /\ pc[k] = "register" /\ pc'[k] = "write"
        /\ \A j \in Calls \ {k} : pc'[j] = pc[j]
        /\ UNCHANGED <<conns, gomuksConn, poll, ch, conn, seq>>
    BY <1>12 DEF Register, Goto, CallTypes, link
  <2>2. late \subseteq late' /\ (k \notin late' => gomuksConn = conn[k])
    BY <1>12 DEF Register
  <2>3. <<seq[k], k>> \in pendingSends'
    BY <1>12 DEF Register
  <2>4. ASSUME NEW j \in Calls \ {k}, <<seq[j], j>> \in pendingSends
        PROVE  <<seq[j], j>> \in pendingSends'
    <3>1. seq[j] # seq[k]
      BY <2>1 DEF Numbered
    <3> QED
      BY <1>12, <2>4, <3>1 DEF Register
  <2>5. conn[k] # 0
    BY <2>1 DEF Unswept
  <2> QED
    BY <2>1, <2>2, <2>3, <2>4, <2>5 DEF Unswept
<1>13. ASSUME NEW k \in Calls, Write(k)
       PROVE  Unswept'
  <2>1. /\ pc[k] = "write" /\ pc'[k] = "wait"
        /\ \A j \in Calls \ {k} : pc'[j] = pc[j]
        /\ UNCHANGED <<conns, gomuksConn, poll, ch, conn, seq, late, pendingSends>>
    BY <1>13 DEF Write, Goto, CallTypes, link
  <2> QED
    BY <2>1 DEF Unswept
<1>14. ASSUME NEW k \in Calls, WriteFails(k) \/ Receive(k) \/ Timeout(k)
       PROVE  Unswept'
  <2>1. /\ pc[k] \in {"write", "wait"} /\ pc'[k] = "done"
        /\ \A j \in Calls \ {k} : pc'[j] = pc[j]
        /\ UNCHANGED <<conns, gomuksConn, poll, ch, conn, seq, late>>
    BY <1>14 DEF WriteFails, Receive, Timeout, Return, Goto, CallTypes, link
  <2>2. ASSUME NEW j \in Calls \ {k}, <<seq[j], j>> \in pendingSends
        PROVE  <<seq[j], j>> \in pendingSends'
    <3>1. seq[j] # seq[k]
      BY <2>1 DEF Numbered
    <3> QED
      BY <1>14, <2>2, <3>1 DEF WriteFails, Receive, Timeout, Forget
  <2> QED
    BY <2>1, <2>2 DEF Unswept
<1> QED
  BY <1>2, <1>3, <1>4, <1>5, <1>6, <1>7, <1>8, <1>9, <1>10, <1>11, <1>12, <1>13, <1>14
     DEF Next, Read, Loop, HandleNext, Handle, Send

-----------------------------------------------------------------------------
(* The path of events. *)

events == <<serverRun, latest, connRun, alive, announced, cursor, resume, msgCh, reader>>

(* The steps that change the events, or how far they were taken. *)
LEMMA EventsFrame ==
    ASSUME [Next]_vars
    PROVE  \/ UNCHANGED events
           \/ Emit \/ LinkBreaks \/ ServerRestarts \/ ReadRun \/ ReadEvent \/ ReadFails
           \/ ReaderStuck \/ Dial \/ Close
           \/ \E k \in Calls : ReadAnswer(k)
           \/ \E m : HandleRun(m) \/ HandleTyping(m) \/ PublishEvent(m) \/ HandleAnswer(m)
<1>1. CASE UNCHANGED vars
  BY <1>1 DEF vars, events, resume
<1>2. CASE LoopEnds \/ Clear \/ Sweep
  BY <1>2 DEF LoopEnds, Clear, Sweep, events, server, link
<1>3. ASSUME NEW k \in Calls, Send(k)
      PROVE  UNCHANGED events
  BY <1>3 DEF Send, Begin, Register, Write, WriteFails, Receive, Timeout, events, server, link
<1>4. ASSUME NEW k \in Calls, NEW verdict \in Verdicts, Serve(k, verdict)
      PROVE  UNCHANGED events
  BY <1>4 DEF Serve, events
<1> QED
  BY <1>1, <1>2, <1>3, <1>4 DEF Next, Read, Loop, HandleNext, Handle

(* An event in front of msgCh is the one after the last one taken. *)
LEMMA HeadEvent ==
    ASSUME TypeOK, Ordered, NEW m, TakeMsg(m), m.type \in Kinds
    PROVE  /\ m.n = taken + 1
           /\ m.n < cursor
           /\ m.type = EventKind[connRun][m.n]
           /\ gomuksRunID = connRun
<1>1. m = msgCh[1] /\ m \in Message /\ 1 \in DOMAIN msgCh /\ DOMAIN msgCh = 1..Len(msgCh)
  BY TakeTail DEF TypeOK
<1>2. IsEvent(1)
  BY <1>1 DEF IsEvent
<1>3. /\ RunKnown
      /\ taken < m.n /\ m.n < cursor
      /\ m.type = EventKind[connRun][m.n]
      /\ \A n \in (taken + 1)..(m.n - 1) :
            \E j \in DOMAIN msgCh : IsEvent(j) /\ j < 1 /\ msgCh[j].n = n
  BY <1>1, <1>2 DEF Ordered, TakeMsg
<1>4. gomuksRunID = connRun
  BY <1>1, <1>3 DEF RunKnown, Kinds
<1>5. ~(taken + 1 \in (taken + 1)..(m.n - 1))
  BY <1>1, <1>3
<1>6. m.n = taken + 1
  BY <1>1, <1>3, <1>5 DEF Message, TypeOK, LoopTypes
<1> QED
  BY <1>3, <1>4, <1>6

(* The run id at the head of msgCh is that of the connection. *)
LEMMA HeadRun ==
    ASSUME TypeOK, Ordered, NEW m, TakeMsg(m), m.type = "run"
    PROVE  m.n = connRun
BY TakeTail DEF TypeOK, Ordered

(* Each step keeps the position to resume from that of the last event published. *)
LEMMA PositionsStep ==
    ASSUME TypeOK, Positions, Ordered, [Next]_vars
    PROVE  Positions'
<1> USE BoundsAssumption DEF TypeOK
<1>0. /\ serverRun \in Nat /\ connRun \in Runs /\ connRun \in Nat /\ connRun > 0
      /\ gomuksRunID \in Nat /\ cursor \in Nat /\ taken \in Nat /\ latest \in 0..MaxEvents
      /\ upto \in [Runs -> Nat] /\ lastRecvNegID \in Int
  BY DEF NetTypes, LoopTypes, Runs
<1>1. CASE UNCHANGED events
  BY <1>1 DEF events, resume, Positions
<1>2. CASE Emit
  <2>1. /\ latest' = latest + 1
        /\ UNCHANGED <<serverRun, connRun, alive, cursor, gomuksRunID, lastRecvNegID, taken, upto>>
    BY <1>2 DEF Emit, link, resume
  <2> QED
    BY <1>0, <2>1 DEF Positions
<1>3. CASE LinkBreaks \/ Close
  <2>1. /\ alive' = FALSE
        /\ UNCHANGED <<serverRun, latest, connRun, cursor, gomuksRunID, lastRecvNegID, taken, upto>>
    BY <1>3 DEF LinkBreaks, Close, server, resume
  <2> QED
    BY <1>0, <2>1 DEF Positions
<1>4. CASE ServerRestarts
  <2>1. /\ alive' = FALSE /\ serverRun' = serverRun + 1
        /\ UNCHANGED <<connRun, cursor, gomuksRunID, lastRecvNegID, taken, upto>>
    BY <1>4 DEF ServerRestarts, resume
  <2> QED
    BY <1>0, <2>1 DEF Positions
<1>5. CASE ReadRun \/ ReadFails \/ ReaderStuck
  <2>1. UNCHANGED <<serverRun, latest, alive, connRun, cursor, gomuksRunID, lastRecvNegID, taken, upto>>
    BY <1>5 DEF ReadRun, ReadFails, ReaderStuck, server, link, resume
  <2> QED
    BY <2>1 DEF Positions
<1>6. CASE ReadEvent
  <2>1. /\ cursor <= latest /\ cursor' = cursor + 1
        /\ UNCHANGED <<serverRun, latest, alive, connRun, gomuksRunID, lastRecvNegID, taken, upto>>
    BY <1>6 DEF ReadEvent, server, resume
  <2> QED
    BY <1>0, <2>1 DEF Positions
<1>7. ASSUME NEW k \in Calls, ReadAnswer(k)
      PROVE  Positions'
  <2>1. UNCHANGED <<serverRun, latest, alive, connRun, cursor, gomuksRunID, lastRecvNegID, taken, upto>>
    BY <1>7 DEF ReadAnswer, server, resume
  <2> QED
    BY <2>1 DEF Positions
<1>8. CASE Dial
  <2>1. /\ connRun' = serverRun /\ cursor' = taken' + 1
        /\ taken' = IF Resumes THEN -lastRecvNegID ELSE latest
        /\ UNCHANGED <<serverRun, latest, gomuksRunID, lastRecvNegID, upto>>
    BY <1>8 DEF Dial, server
  <2>2. serverRun \in Runs
    BY DEF NetTypes, Runs
  <2>3. upto[serverRun] <= latest
    <3>1. CASE connRun = serverRun
      BY <1>0, <3>1 DEF Positions
    <3>2. CASE connRun # serverRun
      BY <1>0, <2>2, <3>2 DEF Positions
    <3> QED
      BY <3>1, <3>2
  <2>4. CASE Resumes
    <3>1. gomuksRunID = serverRun /\ upto[serverRun] = taken'
      BY <1>0, <2>1, <2>4 DEF Resumes, Positions
    <3> QED
      BY <1>0, <2>1, <2>2, <2>3, <3>1 DEF Positions
  <2>5. CASE ~Resumes
    <3>1. upto[serverRun] = 0
      <4>1. CASE gomuksRunID = serverRun
        BY <1>0, <2>2, <2>5, <4>1 DEF Resumes, Positions
      <4>2. CASE gomuksRunID # serverRun
        BY <1>0, <2>2, <4>2 DEF Positions
      <4> QED
        BY <4>1, <4>2
    <3> QED
      BY <1>0, <2>1, <2>2, <2>5, <3>1 DEF Positions
  <2> QED
    BY <2>4, <2>5
<1>9. ASSUME NEW m, HandleRun(m)
      PROVE  Positions'
  <2>1. gomuksRunID' = connRun
    BY <1>9, HeadRun DEF HandleRun
  <2>2. /\ lastRecvNegID' = IF gomuksRunID \in {0, connRun} THEN lastRecvNegID ELSE 0
        /\ UNCHANGED <<serverRun, latest, alive, connRun, cursor, taken, upto>>
    BY <1>9, HeadRun DEF HandleRun, server, link
  <2>3. upto[connRun] = -lastRecvNegID'
    BY <1>0, <2>2 DEF Positions
  <2> QED
    BY <1>0, <2>1, <2>2, <2>3 DEF Positions
<1>10. ASSUME NEW m, HandleTyping(m)
       PROVE  Positions'
  <2>1. /\ taken' = taken + 1 /\ taken + 1 < cursor
        /\ EventKind[connRun][taken + 1] = "typing"
    BY <1>10, HeadEvent DEF HandleTyping, Kinds
  <2>2. UNCHANGED <<serverRun, latest, alive, connRun, cursor, gomuksRunID, lastRecvNegID, upto>>
    BY <1>10 DEF HandleTyping, server, link
  <2>3. ASSUME upto[connRun] > 0
        PROVE  \A n \in (upto[connRun] + 1)..(taken + 1) : EventKind[connRun][n] = "typing"
    BY <1>0, <2>1, <2>3 DEF Positions
  <2> QED
    BY <1>0, <2>1, <2>2, <2>3 DEF Positions
<1>11. ASSUME NEW m, PublishEvent(m)
       PROVE  Positions'
  <2>1. m.n = taken + 1 /\ m.n < cursor /\ gomuksRunID = connRun
    BY <1>11, HeadEvent DEF PublishEvent, Kinds
  <2>2. /\ taken' = taken + 1
        /\ lastRecvNegID' = Lesser(-(taken + 1), lastRecvNegID)
        /\ upto' = [upto EXCEPT ![connRun] = taken + 1]
        /\ UNCHANGED <<serverRun, latest, alive, connRun, cursor, gomuksRunID>>
    BY <1>11, <2>1 DEF PublishEvent, server, link
  <2>3. lastRecvNegID' = -(taken + 1)
    BY <1>0, <2>1, <2>2 DEF Positions, Lesser
  <2>4. upto'[connRun] = taken + 1 /\ \A r \in Runs \ {connRun} : upto'[r] = upto[r]
    BY <1>0, <2>2
  <2> QED
    BY <1>0, <2>1, <2>2, <2>3, <2>4 DEF Positions
<1>12. ASSUME NEW m, HandleAnswer(m)
       PROVE  Positions'
  <2>1. UNCHANGED <<serverRun, latest, alive, connRun, cursor, gomuksRunID, lastRecvNegID, taken, upto>>
    BY <1>12 DEF HandleAnswer, server, link, resume
  <2> QED
    BY <2>1 DEF Positions
<1> QED
  BY <1>1, <1>2, <1>3, <1>4, <1>5, <1>6, <1>7, <1>8, <1>9, <1>10, <1>11, <1>12, EventsFrame

(* Ordered after a step that takes the first message.  It is the next      *)
(* event, or no event and taken stays.                                     *)
LEMMA OrderedTail ==
    ASSUME TypeOK, Ordered, NEW m, TakeMsg(m),
           UNCHANGED <<announced, reader, connRun, cursor>>,
           gomuksRunID' = connRun,
           NEW t \in Nat, taken' = t,
           m.type \in Kinds => t = m.n,
           m.type \notin Kinds => t = taken
    PROVE  Ordered'
<1> USE DEF TypeOK
<1>1. /\ m = msgCh[1] /\ m \in Message
      /\ DOMAIN msgCh = 1..Len(msgCh)
      /\ Len(msgCh) \in Nat \ {0}
      /\ DOMAIN msgCh' = 1..(Len(msgCh) - 1)
      /\ \A i \in DOMAIN msgCh' : msgCh'[i] = msgCh[i + 1]
  BY TakeTail
<1>2. taken \in Nat /\ cursor \in Nat
  BY <1>1 DEF LoopTypes, NetTypes, Message
<1>3. RunKnown'
  BY DEF RunKnown
<1>4. announced
  BY <1>1 DEF Ordered, TakeMsg
<1>5. \A i \in DOMAIN msgCh' : i + 1 \in DOMAIN msgCh /\ i + 1 # 1
  BY <1>1
<1>6. \A i \in DOMAIN msgCh : i # 1 => i - 1 \in DOMAIN msgCh' /\ msgCh'[i - 1] = msgCh[i]
  BY <1>1
<1>7. \A i \in DOMAIN msgCh' : msgCh'[i].type # "run"
  BY <1>1, <1>5 DEF Ordered
<1>8. ASSUME NEW n \in Nat, n > t, NEW j \in DOMAIN msgCh, IsEvent(j), msgCh[j].n = n
      PROVE  j # 1
  <2>1. CASE m.type \in Kinds
    BY <1>1, <1>2, <1>8, <2>1
  <2>2. CASE m.type \notin Kinds
    BY <1>1, <1>8, <2>2 DEF IsEvent
  <2> QED
    BY <2>1, <2>2
<1>9. taken <= t
  <2>1. CASE m.type \in Kinds
    BY <1>2, <2>1, HeadEvent
  <2> QED
    BY <1>2, <2>1
<1>10. ASSUME NEW i \in DOMAIN msgCh', msgCh'[i].type \in Kinds
       PROVE  /\ t < msgCh'[i].n /\ msgCh'[i].n < cursor
              /\ msgCh'[i].type = EventKind[connRun][msgCh'[i].n]
              /\ \A j \in DOMAIN msgCh' :
                    msgCh'[j].type \in Kinds /\ j < i => msgCh'[j].n < msgCh'[i].n
              /\ \A n \in (t + 1)..(msgCh'[i].n - 1) :
                    \E j \in DOMAIN msgCh' :
                        msgCh'[j].type \in Kinds /\ j < i /\ msgCh'[j].n = n
  <2>1. msgCh'[i] = msgCh[i + 1] /\ IsEvent(i + 1) /\ i \in Nat
    BY <1>1, <1>5, <1>10 DEF IsEvent
  <2>2. t < msgCh[i + 1].n
    <3>1. CASE m.type \in Kinds
      <4>1. IsEvent(1) /\ 1 \in DOMAIN msgCh /\ 1 < i + 1
        BY <1>1, <2>1, <3>1 DEF IsEvent
      <4> QED
        BY <1>1, <1>5, <2>1, <3>1, <4>1 DEF Ordered
    <3>2. CASE m.type \notin Kinds
      BY <1>5, <2>1, <3>2 DEF Ordered
    <3> QED
      BY <3>1, <3>2
  <2>3. msgCh[i + 1].n < cursor /\ msgCh[i + 1].type = EventKind[connRun][msgCh[i + 1].n]
    BY <1>5, <2>1 DEF Ordered
  <2>4. ASSUME NEW j \in DOMAIN msgCh', msgCh'[j].type \in Kinds, j < i
        PROVE  msgCh'[j].n < msgCh'[i].n
    <3>1. msgCh'[j] = msgCh[j + 1] /\ IsEvent(j + 1) /\ j + 1 < i + 1
      BY <1>1, <1>5, <2>4 DEF IsEvent
    <3> QED
      BY <1>5, <2>1, <3>1 DEF Ordered
  <2>5. ASSUME NEW n \in (t + 1)..(msgCh'[i].n - 1)
        PROVE  \E j \in DOMAIN msgCh' :
                   msgCh'[j].type \in Kinds /\ j < i /\ msgCh'[j].n = n
    <3>1. msgCh[i + 1].n \in Nat
      <4>1. i + 1 \in DOMAIN msgCh
        BY <2>1 DEF IsEvent
      <4>2. msgCh[i + 1] \in Message
        BY <4>1 DEF LoopTypes
      <4> QED
        BY <4>2 DEF Message
    <3>2. n \in (taken + 1)..(msgCh[i + 1].n - 1) /\ n \in Nat /\ n > t
      BY <1>2, <1>9, <2>1, <3>1
    <3>3. PICK j \in DOMAIN msgCh : IsEvent(j) /\ j < i + 1 /\ msgCh[j].n = n
      BY <1>5, <2>1, <3>2 DEF Ordered
    <3>4. j # 1
      BY <1>8, <3>2, <3>3
    <3>5. j - 1 \in DOMAIN msgCh' /\ msgCh'[j - 1] = msgCh[j] /\ j - 1 < i
      BY <1>1, <1>6, <2>1, <3>3, <3>4
    <3> QED
      BY <3>3, <3>5 DEF IsEvent
  <2> QED
    BY <2>1, <2>2, <2>3, <2>4, <2>5
<1>11. ASSUME reader, NEW n \in (t + 1)..(cursor - 1)
       PROVE  \E j \in DOMAIN msgCh' : msgCh'[j].type \in Kinds /\ msgCh'[j].n = n
  <2>1. n \in (taken + 1)..(cursor - 1) /\ n \in Nat /\ n > t
    BY <1>2, <1>9
  <2>2. PICK j \in DOMAIN msgCh : IsEvent(j) /\ msgCh[j].n = n
    BY <1>11, <2>1 DEF Ordered
  <2>3. j # 1
    BY <1>8, <2>1, <2>2
  <2> QED
    BY <1>6, <2>2, <2>3 DEF IsEvent
<1> QED
  BY <1>3, <1>4, <1>7, <1>10, <1>11 DEF Ordered, IsEvent

(* Ordered after the reader hands on something that is no event. *)
LEMMA OrderedAppend ==
    ASSUME TypeOK, Ordered, NEW m \in Message, ReadNext(m), m.type \notin Kinds, announced',
           m.type = "run" => msgCh = <<>> /\ m.n = connRun,
           m.type # "run" => announced,
           UNCHANGED <<reader, connRun, cursor, gomuksRunID, taken>>
    PROVE  Ordered'
<1> USE DEF TypeOK
<1>1. /\ DOMAIN msgCh = 1..Len(msgCh) /\ Len(msgCh) \in Nat
      /\ DOMAIN msgCh' = 1..(Len(msgCh) + 1)
      /\ \A i \in DOMAIN msgCh : msgCh'[i] = msgCh[i]
      /\ msgCh'[Len(msgCh) + 1] = m
  BY ReadAppend
<1>2. \A i \in DOMAIN msgCh' : i \in DOMAIN msgCh \/ i = Len(msgCh) + 1
  BY <1>1
<1>3. DOMAIN msgCh \subseteq DOMAIN msgCh'
  BY <1>1
<1>4. \A i \in DOMAIN msgCh' :
          msgCh'[i].type \in Kinds <=> i \in DOMAIN msgCh /\ msgCh[i].type \in Kinds
  BY <1>1, <1>2
<1>5. 1 \in DOMAIN msgCh' /\ msgCh' # <<>>
  BY <1>1
<1>6. msgCh # <<>> => 1 \in DOMAIN msgCh
  BY <1>1 DEF LoopTypes
<1>7. RunKnown => RunKnown'
  BY <1>1, <1>5, <1>6 DEF RunKnown
<1>8. RunKnown'
  <2>1. CASE m.type = "run"
    <3>1. msgCh'[1] = m
      BY <1>1, <2>1 DEF LoopTypes
    <3> QED
      BY <1>5, <2>1, <3>1 DEF RunKnown
  <2>2. CASE m.type # "run"
    BY <1>7, <2>2 DEF Ordered, ReadNext
  <2> QED
    BY <2>1, <2>2
<1>9. \A i \in DOMAIN msgCh' : msgCh'[i].type = "run" => i = 1 /\ msgCh'[i].n = connRun
  <2>1. CASE m.type = "run"
    BY <1>1, <2>1 DEF LoopTypes
  <2>2. CASE m.type # "run"
    BY <1>1, <1>2, <2>2 DEF Ordered
  <2> QED
    BY <2>1, <2>2
<1>10. ASSUME NEW i \in DOMAIN msgCh', msgCh'[i].type \in Kinds
       PROVE  /\ taken < msgCh'[i].n /\ msgCh'[i].n < cursor
              /\ msgCh'[i].type = EventKind[connRun][msgCh'[i].n]
              /\ \A j \in DOMAIN msgCh' :
                    msgCh'[j].type \in Kinds /\ j < i => msgCh'[j].n < msgCh'[i].n
              /\ \A n \in (taken + 1)..(msgCh'[i].n - 1) :
                    \E j \in DOMAIN msgCh' :
                        msgCh'[j].type \in Kinds /\ j < i /\ msgCh'[j].n = n
  <2>1. IsEvent(i) /\ i \in DOMAIN msgCh /\ msgCh'[i] = msgCh[i]
    BY <1>1, <1>4, <1>10 DEF IsEvent
  <2>2. /\ taken < msgCh[i].n /\ msgCh[i].n < cursor
        /\ msgCh[i].type = EventKind[connRun][msgCh[i].n]
        /\ \A j \in DOMAIN msgCh : IsEvent(j) /\ j < i => msgCh[j].n < msgCh[i].n
        /\ \A n \in (taken + 1)..(msgCh[i].n - 1) :
              \E j \in DOMAIN msgCh : IsEvent(j) /\ j < i /\ msgCh[j].n = n
    BY <2>1 DEF Ordered
  <2> QED
    BY <1>1, <1>3, <1>4, <2>1, <2>2 DEF IsEvent
<1>11. ASSUME reader, NEW n \in (taken + 1)..(cursor - 1)
       PROVE  \E j \in DOMAIN msgCh' : msgCh'[j].type \in Kinds /\ msgCh'[j].n = n
  <2>1. PICK j \in DOMAIN msgCh : IsEvent(j) /\ msgCh[j].n = n
    BY <1>11 DEF Ordered
  <2> QED
    BY <1>1, <1>3, <2>1 DEF IsEvent
<1> QED
  BY <1>8, <1>9, <1>10, <1>11 DEF Ordered, IsEvent

(* Each step keeps the events of msgCh in order, without one missing in between. *)
LEMMA OrderedStep ==
    ASSUME TypeOK, Positions, Owned, Ordered, [Next]_vars
    PROVE  Ordered'
<1> USE DEF TypeOK
<1>0. ASSUME UNCHANGED <<announced, reader, connRun, cursor, msgCh, gomuksRunID, taken>>
      PROVE  Ordered'
  BY <1>0 DEF Ordered, IsEvent, RunKnown
<1>1. CASE UNCHANGED events
  BY <1>0, <1>1 DEF events, resume
<1>2. CASE Emit \/ LinkBreaks \/ ServerRestarts \/ Close
  BY <1>0, <1>2 DEF Emit, LinkBreaks, ServerRestarts, Close, link, resume
<1>3. CASE ReadFails
  <2>1. reader' = FALSE /\ UNCHANGED <<announced, connRun, cursor, msgCh, gomuksRunID, taken>>
    BY <1>3 DEF ReadFails, link, resume
  <2> QED
    BY <2>1 DEF Ordered, IsEvent, RunKnown
<1>4. CASE Dial
  <2>1. announced' = FALSE /\ msgCh' = <<>> /\ cursor' = taken' + 1
    BY <1>4 DEF Dial
  <2>2. taken' \in Int
    BY <1>4 DEF Dial, NetTypes, LoopTypes
  <2>3. (taken' + 1)..(cursor' - 1) = {}
    <3> DEFINE t == taken'
    <3>1. t \in Int /\ cursor' = t + 1
      BY <2>1, <2>2
    <3> HIDE DEF t
    <3>2. (t + 1)..(cursor' - 1) = {}
      BY <3>1
    <3> QED
      BY <3>2 DEF t
  <2>4. DOMAIN msgCh' = {}
    BY <2>1
  <2> QED
    BY <2>1, <2>3, <2>4 DEF Ordered, IsEvent
<1>5. CASE ReadRun
  <2>1. Msg("run", connRun) \in Message
    BY DEF Msg, Message, NetTypes, Runs
  <2>2. /\ Msg("run", connRun).type = "run" /\ Msg("run", connRun).n = connRun
        /\ Msg("run", connRun).type \notin Kinds
    BY DEF Msg, Kinds
  <2>3. /\ msgCh = <<>> /\ ReadNext(Msg("run", connRun)) /\ announced'
        /\ UNCHANGED <<reader, connRun, cursor, gomuksRunID, taken>>
    BY <1>5 DEF ReadRun, Ordered, resume
  <2> HIDE DEF TypeOK
  <2> QED
    BY <2>1, <2>2, <2>3, OrderedAppend
<1>6. ASSUME NEW k \in Calls, ReadAnswer(k)
      PROVE  Ordered'
  <2>1. served[k] \in Verdicts
    BY <1>6 DEF ReadAnswer, Owned, OwnedByCalls
  <2>2. Msg(served[k], seq[k]) \in Message
    BY <2>1 DEF Msg, Message, CallTypes
  <2>3. /\ Msg(served[k], seq[k]).type # "run"
        /\ Msg(served[k], seq[k]).type \notin Kinds
    BY <2>1 DEF Msg, Kinds, Verdicts
  <2>4. /\ ReadNext(Msg(served[k], seq[k])) /\ announced /\ announced'
        /\ UNCHANGED <<reader, connRun, cursor, gomuksRunID, taken>>
    BY <1>6 DEF ReadAnswer, resume
  <2> HIDE DEF TypeOK
  <2> QED
    BY <2>2, <2>3, <2>4, OrderedAppend
<1>7. ASSUME NEW m, HandleRun(m) \/ HandleAnswer(m)
      PROVE  Ordered'
  <2>1. m.type \notin Kinds /\ TakeMsg(m)
    BY <1>7 DEF HandleRun, HandleAnswer, Kinds, Verdicts
  <2>2. UNCHANGED <<announced, reader, connRun, cursor, taken>>
    BY <1>7 DEF HandleRun, HandleAnswer, link, resume
  <2>3. gomuksRunID' = connRun
    <3>1. CASE HandleRun(m)
      BY <3>1, HeadRun DEF HandleRun
    <3>2. CASE HandleAnswer(m)
      <4>1. gomuksRunID' = gomuksRunID /\ m.type # "run"
        BY <3>2 DEF HandleAnswer, Verdicts, resume
      <4>2. RunKnown /\ m = msgCh[1]
        BY <2>1, TakeTail DEF Ordered, TakeMsg
      <4> QED
        BY <4>1, <4>2 DEF RunKnown
    <3> QED
      BY <1>7, <3>1, <3>2
  <2>4. taken \in Nat /\ taken' = taken
    BY <2>2 DEF LoopTypes
  <2> HIDE DEF TypeOK
  <2> QED
    BY <2>1, <2>2, <2>3, <2>4, OrderedTail
<1>8. ASSUME NEW m, HandleTyping(m) \/ PublishEvent(m)
      PROVE  Ordered'
  <2>1. m.type \in Kinds /\ TakeMsg(m)
    BY <1>8 DEF HandleTyping, PublishEvent, Kinds
  <2>2. UNCHANGED <<announced, reader, connRun, cursor, gomuksRunID>> /\ taken' = m.n
    BY <1>8 DEF HandleTyping, PublishEvent, link
  <2>3. gomuksRunID = connRun /\ m.n \in Nat
    BY <2>1, HeadEvent, TakeTail DEF Message
  <2> HIDE DEF TypeOK
  <2> QED
    BY <2>1, <2>2, <2>3, OrderedTail
<1>9. CASE ReaderStuck
  <2>1. /\ reader' = FALSE
        /\ UNCHANGED <<announced, connRun, cursor, gomuksRunID, taken>>
    BY <1>9 DEF ReaderStuck, link, resume
  <2>2. /\ DOMAIN msgCh = 1..(MsgCap + 1)
        /\ DOMAIN msgCh' = 1..MsgCap
        /\ \A i \in DOMAIN msgCh' : msgCh'[i] = msgCh[i]
        /\ msgCh' \in Seq(Message)
    BY <1>9, StuckPrefix
  <2>3. announced
    BY <1>9, <2>2, MsgCapAssumption DEF Ordered, LoopTypes, ReaderStuck
  <2>4. msgCh' # <<>> => RunKnown'
    <3>0. \A s \in Seq(Message) : s # <<>> => 1 \in DOMAIN s
      OBVIOUS
    <3>1. msgCh' # <<>> => 1 \in DOMAIN msgCh'
      BY <2>2, <3>0
    <3>2. msgCh # <<>>
      BY <1>9, MsgCapAssumption DEF ReaderStuck, LoopTypes
    <3> QED
      BY <2>1, <2>2, <3>1, <3>2 DEF RunKnown, Ordered
  <2>5. ASSUME NEW i \in DOMAIN msgCh'
        PROVE  /\ i \in DOMAIN msgCh /\ i \in 1..MsgCap
               /\ \A j \in DOMAIN msgCh : j < i => j \in DOMAIN msgCh'
    BY <2>2, MsgCapAssumption
  <2>6. \A i \in DOMAIN msgCh' : msgCh'[i].type = "run" => i = 1 /\ msgCh'[i].n = connRun
    BY <2>2, <2>5 DEF Ordered
  <2>7. ASSUME NEW i \in DOMAIN msgCh', msgCh'[i].type \in Kinds
        PROVE  /\ taken < msgCh'[i].n /\ msgCh'[i].n < cursor
               /\ msgCh'[i].type = EventKind[connRun][msgCh'[i].n]
               /\ \A j \in DOMAIN msgCh' :
                     msgCh'[j].type \in Kinds /\ j < i => msgCh'[j].n < msgCh'[i].n
               /\ \A n \in (taken + 1)..(msgCh'[i].n - 1) :
                     \E j \in DOMAIN msgCh' :
                         msgCh'[j].type \in Kinds /\ j < i /\ msgCh'[j].n = n
    <3>1. IsEvent(i) /\ i \in DOMAIN msgCh /\ msgCh'[i] = msgCh[i]
      BY <2>2, <2>5, <2>7 DEF IsEvent
    <3>2. /\ taken < msgCh[i].n /\ msgCh[i].n < cursor
          /\ msgCh[i].type = EventKind[connRun][msgCh[i].n]
          /\ \A j \in DOMAIN msgCh : IsEvent(j) /\ j < i => msgCh[j].n < msgCh[i].n
          /\ \A n \in (taken + 1)..(msgCh[i].n - 1) :
                \E j \in DOMAIN msgCh : IsEvent(j) /\ j < i /\ msgCh[j].n = n
      BY <3>1 DEF Ordered
    <3> QED
      BY <2>2, <2>5, <3>1, <3>2 DEF IsEvent
  <2> QED
    BY <2>1, <2>3, <2>4, <2>6, <2>7 DEF Ordered, IsEvent
<1>10. CASE ReadEvent
  <2> DEFINE m == Msg(EventKind[connRun][cursor], cursor)
             L == Len(msgCh)
  <2>1. EventKind[connRun][cursor] \in Kinds
    BY <1>10, BoundsAssumption, EventKindAssumption DEF ReadEvent, NetTypes
  <2>2. m \in Message
    BY <2>1 DEF Msg, Message, NetTypes
  <2>3. /\ reader /\ ReadNext(m) /\ announced /\ cursor' = cursor + 1
        /\ UNCHANGED <<announced, reader, connRun, gomuksRunID, taken>>
    BY <1>10 DEF ReadEvent, ReadNext, resume
  <2>4. /\ DOMAIN msgCh = 1..L /\ L \in Nat
        /\ DOMAIN msgCh' = 1..(L + 1)
        /\ \A i \in DOMAIN msgCh : msgCh'[i] = msgCh[i]
        /\ msgCh'[L + 1] = m
    BY <2>2, <2>3, ReadAppend
  <2>5. m.n = cursor /\ m.type = EventKind[connRun][cursor] /\ m.type \in Kinds /\ m.type # "run"
    BY <2>1 DEF Msg, Kinds
  <2> HIDE DEF m, L
  <2>6. taken \in Nat /\ cursor \in Nat /\ taken < cursor
    BY DEF NetTypes, LoopTypes, Positions
  <2>7. /\ DOMAIN msgCh \subseteq DOMAIN msgCh'
        /\ L + 1 \in DOMAIN msgCh'
        /\ \A i \in DOMAIN msgCh' : i \in DOMAIN msgCh \/ i = L + 1
        /\ \A i \in DOMAIN msgCh : i < L + 1
        /\ \A i \in DOMAIN msgCh : ~(L + 1 < i)
    BY <2>4
  <2>8. RunKnown'
    <3>1. RunKnown
      BY <2>3 DEF Ordered
    <3>2. 1 \in DOMAIN msgCh' /\ msgCh' # <<>>
      BY <2>4
    <3>3. msgCh # <<>> => 1 \in DOMAIN msgCh
      BY <2>4 DEF LoopTypes, L
    <3> QED
      BY <2>3, <2>4, <3>1, <3>2, <3>3 DEF RunKnown
  <2>9. \A i \in DOMAIN msgCh' : msgCh'[i].type = "run" => i = 1 /\ msgCh'[i].n = connRun
    BY <2>4, <2>5, <2>7 DEF Ordered
  <2>10. ASSUME NEW i \in DOMAIN msgCh, msgCh[i].type \in Kinds
         PROVE  /\ taken < msgCh[i].n /\ msgCh[i].n < cursor /\ msgCh[i].n \in Nat
                /\ msgCh[i].type = EventKind[connRun][msgCh[i].n]
                /\ \A j \in DOMAIN msgCh :
                      msgCh[j].type \in Kinds /\ j < i => msgCh[j].n < msgCh[i].n
                /\ \A n \in (taken + 1)..(msgCh[i].n - 1) :
                      \E j \in DOMAIN msgCh :
                          msgCh[j].type \in Kinds /\ j < i /\ msgCh[j].n = n
    <3>1. IsEvent(i)
      BY <2>10 DEF IsEvent
    <3>2. msgCh[i] \in Message
      BY DEF LoopTypes
    <3> QED
      BY <3>1, <3>2 DEF Ordered, IsEvent, Message
  <2>11. \A n \in (taken + 1)..(cursor - 1) :
             \E j \in DOMAIN msgCh : msgCh[j].type \in Kinds /\ msgCh[j].n = n
    BY <2>3 DEF Ordered, IsEvent
  <2>12. ASSUME NEW i \in DOMAIN msgCh', msgCh'[i].type \in Kinds
         PROVE  /\ taken < msgCh'[i].n /\ msgCh'[i].n < cursor + 1
                /\ msgCh'[i].type = EventKind[connRun][msgCh'[i].n]
                /\ \A j \in DOMAIN msgCh' :
                      msgCh'[j].type \in Kinds /\ j < i => msgCh'[j].n < msgCh'[i].n
                /\ \A n \in (taken + 1)..(msgCh'[i].n - 1) :
                      \E j \in DOMAIN msgCh' :
                          msgCh'[j].type \in Kinds /\ j < i /\ msgCh'[j].n = n
    <3>1. CASE i \in DOMAIN msgCh
      <4>1. msgCh'[i] = msgCh[i] /\ msgCh[i].type \in Kinds
        BY <2>4, <2>12, <3>1
      <4>2. \A j \in DOMAIN msgCh' : j < i => j \in DOMAIN msgCh /\ msgCh'[j] = msgCh[j]
        BY <2>4, <2>7, <3>1
      <4>3. \A j \in DOMAIN msgCh : j \in DOMAIN msgCh' /\ msgCh'[j] = msgCh[j]
        BY <2>4, <2>7
      <4>4. taken < msgCh'[i].n /\ msgCh'[i].n < cursor + 1
        BY <2>6, <2>10, <3>1, <4>1
      <4> QED
        BY <2>10, <3>1, <4>1, <4>2, <4>3, <4>4
    <3>2. CASE i = L + 1
      <4>1. msgCh'[i] = m
        BY <2>4, <3>2
      <4>2. \A j \in DOMAIN msgCh' : j < i => j \in DOMAIN msgCh /\ msgCh'[j] = msgCh[j]
        BY <2>4, <2>7, <3>2
      <4>3. \A j \in DOMAIN msgCh : j \in DOMAIN msgCh' /\ msgCh'[j] = msgCh[j] /\ j < i
        BY <2>4, <2>7, <3>2
      <4>4. taken < cursor /\ cursor < cursor + 1
        BY <2>6
      <4>5. \A j \in DOMAIN msgCh : msgCh[j].type \in Kinds => msgCh[j].n < cursor
        BY <2>10
      <4> QED
        BY <2>5, <2>11, <4>1, <4>2, <4>3, <4>4, <4>5
    <3> QED
      BY <2>7, <3>1, <3>2
  <2>13. ASSUME NEW n \in (taken + 1)..((cursor + 1) - 1)
         PROVE  \E j \in DOMAIN msgCh' : msgCh'[j].type \in Kinds /\ msgCh'[j].n = n
    <3>1. CASE n = cursor
      BY <2>4, <2>5, <2>7, <3>1
    <3>2. CASE n # cursor
      <4>1. n \in (taken + 1)..(cursor - 1)
        BY <2>6, <3>2
      <4> QED
        BY <2>4, <2>7, <2>11, <4>1
    <3> QED
      BY <3>1, <3>2
  <2> QED
    BY <2>3, <2>8, <2>9, <2>12, <2>13 DEF Ordered, IsEvent
<1> QED
  BY <1>1, <1>2, <1>3, <1>4, <1>5, <1>6, <1>7, <1>8, <1>9, <1>10, EventsFrame

-----------------------------------------------------------------------------
(* The inductive invariant holds in every reachable state. *)
LEMMA Invariance == Spec => []IInv
<1>1. IInv /\ [Next]_vars => IInv'
  BY NetTypeStep, LoopTypeStep, CallTypeStep, NumberedStep, OwnedStep, UnsweptStep,
     PositionsStep, OrderedStep DEF IInv, TypeOK
<1> QED
  BY InitInvariant, <1>1, PTL DEF Spec

(***************************************************************************)
(* The types hold; msgCh and the reader hold MsgCap + 1 messages at most.  *)
(***************************************************************************)
THEOREM TypeCorrect == Spec => []TypeOK
<1>1. IInv => TypeOK
  BY DEF IInv
<1> QED
  BY Invariance, <1>1, PTL

(***************************************************************************)
(* No Send or Redact takes the answer to another request, or the close of  *)
(* its channel by the sweep, for its own.                                  *)
(***************************************************************************)
THEOREM AnswersTheorem == Spec => []AnswersAreOwn
<1>1. IInv => AnswersAreOwn
  BY DEF IInv, Owned, OwnedByCalls, AnswersAreOwn
<1> QED
  BY Invariance, <1>1, PTL

(***************************************************************************)
(* The deferred sweep of the event loop leaves no call waiting but those   *)
(* that registered after gomuksConn was cleared.                           *)
(***************************************************************************)
THEOREM SweepTheorem == Spec => []SweepReachesAll
<1>1. IInv => SweepReachesAll
  BY DEF IInv, Unswept, SweepReachesAll, Open
<1> QED
  BY Invariance, <1>1, PTL

(***************************************************************************)
(* No event is published twice or skipped while the server runs, however   *)
(* often the connection breaks or the reader gives up.                     *)
(***************************************************************************)
THEOREM GaplessTheorem == Spec => Gapless
<1> DEFINE Step(m) ==
        PublishEvent(m) /\ upto[connRun] > 0 =>
            /\ upto[connRun] < m.n
            /\ \A n \in (upto[connRun] + 1)..(m.n - 1) : EventKind[connRun][n] = "typing"
           AllSteps == \A m \in {Head(msgCh) : i \in {1} \cap DOMAIN msgCh} : Step(m)
<1>1. ASSUME IInv, NEW m, PublishEvent(m), upto[connRun] > 0
      PROVE  /\ upto[connRun] < m.n
             /\ \A n \in (upto[connRun] + 1)..(m.n - 1) : EventKind[connRun][n] = "typing"
  <2>1. m.n = taken + 1
    BY <1>1, HeadEvent DEF IInv, PublishEvent, Kinds
  <2>2. taken \in Nat /\ upto[connRun] \in Nat
    BY <1>1 DEF IInv, TypeOK, NetTypes, LoopTypes
  <2>3. /\ upto[connRun] <= taken
        /\ \A n \in (upto[connRun] + 1)..taken : EventKind[connRun][n] = "typing"
    BY <1>1 DEF IInv, Positions
  <2>4. (taken + 1) - 1 = taken /\ upto[connRun] < taken + 1
    BY <2>2, <2>3
  <2> QED
    BY <2>1, <2>3, <2>4
<1>2. IInv => [AllSteps]_vars
  BY <1>1
<1>3. [][AllSteps]_vars => Gapless
  BY DEF Gapless
<1> QED
  BY Invariance, <1>2, PTL DEF Gapless
=============================================================================
