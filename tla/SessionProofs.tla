--------------------------- MODULE SessionProofs ---------------------------
(***************************************************************************)
(* Proofs about the sessions.  RateGate: for any delays and any number of  *)
(* requests on their way no answer shortens a wait.  XhsSession: for any   *)
(* number of requests, pages and challenges the request blocked last can   *)
(* be released.  ZhihuSession: the process ends only by a race of two      *)
(* logins, and credentials are dropped only when they were refused.        *)
(* BiliSession: at most one login page and one rotation of the cookies at  *)
(* a time.                                                                 *)
(***************************************************************************)
EXTENDS MCSessions, FiniteSetTheorems, TLAPS

-----------------------------------------------------------------------------
(* A gate never stays closed for longer than the delay it was closed with, *)
(* so that the next delay, which is not shorter, ends no earlier.          *)
RInv ==
    /\ rNow \in Nat /\ rUntil \in Nat
    /\ rBackoff \in Nat /\ rBackoff <= RateMax
    /\ rUntil <= rNow + rBackoff

-----------------------------------------------------------------------------
(* The next delay is a number up to the cap, and not shorter than this one.*)
LEMMA DoubledGrows ==
    ASSUME RInv
    PROVE  Doubled \in Nat /\ rBackoff <= Doubled /\ Doubled <= RateMax
BY RateAssumption DEF RInv, Doubled

(* A success that clears the gate finds it open. *)
LEMMA ClearStep ==
    ASSUME RInv, NEW r \in RateReqs, ClearRateLimit(r)
    PROVE  RInv' /\ (rNow < rUntil => rUntil' >= rUntil)
<1>1. CASE rUntil > rNow
  BY <1>1 DEF ClearRateLimit, RInv
<1>2. CASE ~ (rUntil > rNow)
  BY <1>2, RateAssumption DEF ClearRateLimit, RInv
<1> QED
  BY <1>1, <1>2

(* A throttling while the gate is closed ends no earlier than the last. *)
LEMMA NoteStep ==
    ASSUME RInv, NEW r \in RateReqs, NoteRateLimit(r)
    PROVE  RInv' /\ rUntil' >= rUntil
<1>1. rBackoff' = Doubled /\ rUntil' = rNow + rBackoff' /\ rNow' = rNow
  BY DEF NoteRateLimit
<1> QED
  BY <1>1, DoubledGrows, RateAssumption DEF RInv

(* Every step keeps the invariant and leaves a closed gate closed.         *)
LEMMA RateStep ==
    ASSUME RInv, [RateNext]_rVars
    PROVE  RInv' /\ (rNow < rUntil => rUntil' >= rUntil)
<1>1. CASE Tick
  BY <1>1 DEF Tick, RInv
<1>2. ASSUME NEW r \in RateReqs, BeginRequest(r) \/ WaitRateGate(r) \/ OtherAnswer(r)
      PROVE  RInv' /\ (rNow < rUntil => rUntil' >= rUntil)
  BY <1>2 DEF BeginRequest, WaitRateGate, OtherAnswer, RInv
<1>3. ASSUME NEW r \in RateReqs, NoteRateLimit(r)
      PROVE  RInv' /\ (rNow < rUntil => rUntil' >= rUntil)
  BY <1>3, NoteStep
<1>4. ASSUME NEW r \in RateReqs, ClearRateLimit(r)
      PROVE  RInv' /\ (rNow < rUntil => rUntil' >= rUntil)
  BY <1>4, ClearStep
<1>5. CASE UNCHANGED rVars
  BY <1>5 DEF rVars, RInv
<1> QED
  BY <1>1, <1>2, <1>3, <1>4, <1>5 DEF RateNext

-----------------------------------------------------------------------------
(* While the gate of a backend is closed, no answer opens it earlier than  *)
(* it was to open: neither a success of a request that passed before it    *)
(* closed (clearRateLimit) nor a further throttling (noteRateLimit), for   *)
(* any first and longest delay and any number of requests.                 *)
THEOREM GateTheorem == RateSpec => NeverLiftedEarly
<1>1. RateInit => RInv
  BY RateAssumption DEF RateInit, RInv
<1>2. RInv /\ [RateNext]_rVars => RInv'
  BY RateStep
<1>3. RInv /\ [RateNext]_rVars => [rNow < rUntil => rUntil' >= rUntil]_rVars
  BY RateStep
<1> QED
  BY <1>1, <1>2, <1>3, PTL DEF RateSpec, NeverLiftedEarly

(* The clock, the delays and the requests keep to their values. *)
LEMMA RateTyped == RateInit /\ [][RateNext]_rVars => []RTypeOK
<1>1. RateInit => RTypeOK
  BY RateAssumption DEF RateInit, RTypeOK
<1>2. RTypeOK /\ [RateNext]_rVars => RTypeOK'
  <2> SUFFICES ASSUME RTypeOK, [RateNext]_rVars PROVE RTypeOK'
    OBVIOUS
  <2>1. Doubled \in RateBase..RateMax
    BY RateAssumption DEF RTypeOK, Doubled
  <2>2. CASE Tick
    BY <2>2 DEF Tick, RTypeOK
  <2>3. ASSUME NEW r \in RateReqs, BeginRequest(r) \/ WaitRateGate(r) \/ OtherAnswer(r)
        PROVE  RTypeOK'
    BY <2>3 DEF BeginRequest, WaitRateGate, OtherAnswer, RTypeOK
  <2>4. ASSUME NEW r \in RateReqs, NoteRateLimit(r) PROVE RTypeOK'
    <3>1. rUntil' \in Nat
      BY <2>1, <2>4, RateAssumption DEF NoteRateLimit, RTypeOK
    <3> QED
      BY <2>1, <2>4, <3>1 DEF NoteRateLimit, RTypeOK
  <2>5. ASSUME NEW r \in RateReqs, ClearRateLimit(r) PROVE RTypeOK'
    <3>1. rUntil' \in Nat /\ rBackoff' \in {0} \cup (RateBase..RateMax)
      BY <2>5, RateAssumption DEF ClearRateLimit, RTypeOK
    <3> QED
      BY <2>5, <3>1 DEF ClearRateLimit, RTypeOK
  <2>6. CASE UNCHANGED rVars
    BY <2>6 DEF rVars, RTypeOK
  <2> QED
    BY <2>2, <2>3, <2>4, <2>5, <2>6 DEF RateNext
<1> QED
  BY <1>1, <1>2, PTL

-----------------------------------------------------------------------------
(* The xhs session.  Its inductive invariant: every actor holds a record,  *)
(* the latest challenge is an actor's, and the property itself.            *)
XFields == {"pc", "goal", "page", "web", "verdict", "released"}
Whole(r) == r = [f \in XFields |-> r[f]]

XShape ==
    /\ xAct = [a \in XActors |-> xAct[a]]
    /\ \A a \in XActors : Whole(xAct[a])
    /\ xLatest \in XActors \cup {Nobody}

XInv == XShape /\ LatestIsPending

(* A step after which nobody waits for a challenge who did not before. *)
Calm ==
    /\ XShape'
    /\ xRisk' = xRisk /\ xLatest' = xLatest
    /\ \A b \in XActors : xAct'[b].pc = "risk" => xAct'[b] = xAct[b]

(* The invariant holds when the process starts. *)
LEMMA XhsStarts == XhsInit => XInv
<1> SUFFICES ASSUME XhsInit PROVE XInv
  OBVIOUS
<1>1. /\ xAct = [a \in XActors |-> IF a = XLoop THEN [XIdle EXCEPT !.pc = "ensure"] ELSE XIdle]
      /\ xLatest = Nobody
  BY DEF XhsInit
<1>2. Whole(XIdle) /\ Whole([XIdle EXCEPT !.pc = "ensure"])
  BY DEF Whole, XIdle, XFields
<1>3. XShape
  BY <1>1, <1>2 DEF XShape
<1> QED
  BY <1>1, <1>3 DEF XInv, LatestIsPending

(* A calm step keeps the invariant. *)
LEMMA CalmStep == XInv /\ Calm => XInv'
BY DEF XInv, Calm, XShape, LatestIsPending

(* A step that moves no actor and touches no challenge is calm. *)
LEMMA StillStep == XInv /\ UNCHANGED <<xAct, xRisks>> => Calm
BY DEF XInv, XShape, Calm, xRisks

(* A step of one actor that does not come to wait is calm. *)
LEMMA ActorMoves ==
    ASSUME XShape, UNCHANGED xRisks, NEW a \in XActors, NEW r,
           xAct' = [xAct EXCEPT ![a] = r],
           Whole(r), r["pc"] # "risk"
    PROVE  Calm
<1>1. /\ \A b \in XActors : b # a => xAct'[b] = xAct[b]
      /\ xAct'[a] = r
      /\ xAct' = [b \in XActors |-> xAct'[b]]
  BY DEF XShape
<1>2. \A b \in XActors : Whole(xAct'[b])
  BY <1>1 DEF XShape
<1> QED
  BY <1>1, <1>2 DEF XShape, Calm, xRisks

(* An actor goes to another place. *)
LEMMA GotoCalm ==
    ASSUME XShape, UNCHANGED xRisks, NEW a \in XActors, NEW place, place # "risk",
           XGoto(a, place)
    PROVE  Calm
<1> DEFINE r == [xAct[a] EXCEPT !.pc = place]
<1>1. Whole(r) /\ r["pc"] = place
  BY DEF Whole, XFields, XShape
<1>2. xAct' = [xAct EXCEPT ![a] = r]
  BY DEF XGoto, XShape
<1> HIDE DEF r
<1> QED
  BY <1>1, <1>2, ActorMoves

(* It notes what its probe is for. *)
LEMMA SeekCalm ==
    ASSUME XShape, UNCHANGED xRisks, NEW a \in XActors, NEW place, place # "risk",
           NEW goal,
           XSeek(a, place, goal)
    PROVE  Calm
<1> DEFINE r == [xAct[a] EXCEPT !.pc = place, !.goal = goal]
<1>1. Whole(r) /\ r["pc"] = place
  BY DEF Whole, XFields, XShape
<1>2. xAct' = [xAct EXCEPT ![a] = r]
  BY DEF XSeek, XShape
<1> HIDE DEF r
<1> QED
  BY <1>1, <1>2, ActorMoves

(* A request of the page begins. *)
LEMMA LoginCalm ==
    ASSUME XShape, UNCHANGED xRisks, NEW a \in XActors, NEW place, place # "risk",
           NEW goal, NEW at,
           xAct' = [xAct EXCEPT ![a].pc = place, ![a].goal = goal, ![a].page = at]
    PROVE  Calm
<1> DEFINE r == [xAct[a] EXCEPT !.pc = place, !.goal = goal, !.page = at]
<1>1. Whole(r) /\ r["pc"] = place
  BY DEF Whole, XFields, XShape
<1>2. xAct' = [xAct EXCEPT ![a] = r]
  BY DEF XShape
<1> HIDE DEF r
<1> QED
  BY <1>1, <1>2, ActorMoves

(* A request of its own is answered or has failed. *)
LEMMA AnswerCalm ==
    ASSUME XShape, UNCHANGED xRisks, NEW a \in XActors, NEW place, place # "risk",
           NEW goal, NEW web, NEW v,
           xAct' = [xAct EXCEPT ![a].pc = place, ![a].goal = goal, ![a].web = web,
                          ![a].verdict = v]
    PROVE  Calm
<1> DEFINE r == [xAct[a] EXCEPT !.pc = place, !.goal = goal, !.web = web, !.verdict = v]
<1>1. Whole(r) /\ r["pc"] = place
  BY DEF Whole, XFields, XShape
<1>2. xAct' = [xAct EXCEPT ![a] = r]
  BY DEF XShape
<1> HIDE DEF r
<1> QED
  BY <1>1, <1>2, ActorMoves

(* A request that was released is sent once more. *)
LEMMA RepeatCalm ==
    ASSUME XShape, UNCHANGED xRisks, NEW a \in XActors, NEW place, place # "risk",
           NEW web, NEW v,
           xAct' = [xAct EXCEPT ![a].pc = place, ![a].web = web, ![a].released = FALSE,
                          ![a].verdict = v]
    PROVE  Calm
<1> DEFINE r == [xAct[a] EXCEPT !.pc = place, !.web = web, !.released = FALSE, !.verdict = v]
<1>1. Whole(r) /\ r["pc"] = place
  BY DEF Whole, XFields, XShape
<1>2. xAct' = [xAct EXCEPT ![a] = r]
  BY DEF XShape
<1> HIDE DEF r
<1> QED
  BY <1>1, <1>2, ActorMoves

(* One that waited in vain has failed. *)
LEMMA TimeoutCalm ==
    ASSUME XShape, UNCHANGED xRisks, NEW a \in XActors, NEW place, place # "risk",
           NEW v,
           xAct' = [xAct EXCEPT ![a].pc = place, ![a].released = FALSE, ![a].verdict = v]
    PROVE  Calm
<1> DEFINE r == [xAct[a] EXCEPT !.pc = place, !.released = FALSE, !.verdict = v]
<1>1. Whole(r) /\ r["pc"] = place
  BY DEF Whole, XFields, XShape
<1>2. xAct' = [xAct EXCEPT ![a] = r]
  BY DEF XShape
<1> HIDE DEF r
<1> QED
  BY <1>1, <1>2, ActorMoves

(* It is done; or it starts afresh at a place. *)
LEMMA LeaveCalm ==
    ASSUME XShape, UNCHANGED xRisks, NEW a \in XActors,
           XLeave(a) \/ xAct' = [xAct EXCEPT ![a] = [XIdle EXCEPT !.pc = "ensure"]]
    PROVE  Calm
<1>1. Whole(XIdle) /\ XIdle["pc"] = "idle"
  BY DEF Whole, XIdle, XFields
<1>2. Whole([XIdle EXCEPT !.pc = "ensure"]) /\ [XIdle EXCEPT !.pc = "ensure"]["pc"] = "ensure"
  BY DEF Whole, XIdle, XFields
<1>3. CASE XLeave(a)
  <2>1. xAct' = [xAct EXCEPT ![a] = XIdle]
    BY <1>3 DEF XLeave
  <2> QED
    BY <1>1, <2>1, ActorMoves
<1>4. CASE xAct' = [xAct EXCEPT ![a] = [XIdle EXCEPT !.pc = "ensure"]]
  BY <1>2, <1>4, ActorMoves
<1> QED
  BY <1>3, <1>4

-----------------------------------------------------------------------------
(* A request is answered, or its challenge is the latest and the pending.  *)
LEMMA AskStep ==
    ASSUME XInv, NEW a \in XActors, NEW goal, XAsk(a, goal)
    PROVE  XInv'
<1>1. CASE UNCHANGED xRisks /\ \E v \in {"ok", "refused", "error"} :
             xAct' = [xAct EXCEPT ![a].pc = "answer", ![a].goal = goal, ![a].web = xWeb,
                        ![a].verdict = v]
  <2>1. PICK v \in {"ok", "refused", "error"} :
             xAct' = [xAct EXCEPT ![a].pc = "answer", ![a].goal = goal, ![a].web = xWeb,
                        ![a].verdict = v]
    BY <1>1
  <2>2. XShape
    BY DEF XInv
  <2>3. Calm
    BY <1>1, <2>1, <2>2, AnswerCalm
  <2> QED
    BY <2>3, CalmStep
<1>2. CASE /\ xAct' = [xAct EXCEPT ![a].pc = "risk", ![a].goal = goal, ![a].released = FALSE]
           /\ xRisk' = a /\ xLatest' = a
  <2> DEFINE r == [xAct[a] EXCEPT !.pc = "risk", !.goal = goal, !.released = FALSE]
  <2>1. Whole(r)
    BY DEF Whole, XFields, XInv, XShape
  <2>2. xAct' = [xAct EXCEPT ![a] = r]
    BY <1>2 DEF XInv, XShape
  <2> HIDE DEF r
  <2>3. XShape'
    BY <1>2, <2>1, <2>2 DEF XInv, XShape
  <2> QED
    BY <1>2, <2>3 DEF XInv, LatestIsPending
<1>3. \/ /\ UNCHANGED xRisks
         /\ xAct' = [xAct EXCEPT ![a].pc = "answer", ![a].goal = goal, ![a].web = xWeb,
                       ![a].verdict = IF xWeb \in xAccepted THEN "ok" ELSE "refused"]
      \/ /\ UNCHANGED xRisks
         /\ xAct' = [xAct EXCEPT ![a].pc = "answer", ![a].goal = goal, ![a].web = xWeb,
                       ![a].verdict = "error"]
      \/ /\ xAct' = [xAct EXCEPT ![a].pc = "risk", ![a].goal = goal, ![a].released = FALSE]
         /\ xRisk' = a /\ xLatest' = a
  BY DEF XAsk
<1> QED
  BY <1>1, <1>2, <1>3

(* What an actor does with its request; one that waited and is released or *)
(* gives up does not wait any more.                                        *)
LEMMA RequestStep ==
    ASSUME XInv, NEW a \in XActors, XRequest(a)
    PROVE  XInv'
<1> USE DEF XInv
<1>1. CASE XProbe(a)
  <2>1. CASE XGoto(a, "rejected") /\ UNCHANGED xRisks
    BY <2>1, GotoCalm, CalmStep
  <2>2. CASE XAsk(a, xAct[a].goal)
    BY <2>2, AskStep
  <2> QED
    BY <1>1, <2>1, <2>2 DEF XProbe
<1>2. CASE XAnswered(a)
  <2>1. UNCHANGED xRisks
    BY <1>2 DEF XAnswered
  <2>2. PICK place \in {"verified", "rejected", "unsure"} : XGoto(a, place)
    BY <1>2 DEF XAnswered
  <2> QED
    BY <2>1, <2>2, GotoCalm, CalmStep
<1>3. CASE RiskEnds(a)
  <2>1. UNCHANGED xRisks
    BY <1>3 DEF RiskEnds
  <2>2. PICK v \in {"ok", "refused", "error"} :
            \/ xAct' = [xAct EXCEPT ![a].pc = "answer", ![a].web = xWeb, ![a].released = FALSE,
                          ![a].verdict = v]
            \/ xAct' = [xAct EXCEPT ![a].pc = "answer", ![a].released = FALSE, ![a].verdict = v]
    BY <1>3 DEF RiskEnds
  <2>3. CASE xAct' = [xAct EXCEPT ![a].pc = "answer", ![a].web = xWeb, ![a].released = FALSE,
                        ![a].verdict = v]
    BY <2>1, <2>3, RepeatCalm, CalmStep
  <2>4. CASE xAct' = [xAct EXCEPT ![a].pc = "answer", ![a].released = FALSE, ![a].verdict = v]
    BY <2>1, <2>4, TimeoutCalm, CalmStep
  <2> QED
    BY <2>2, <2>3, <2>4
<1> QED
  BY <1>1, <1>2, <1>3 DEF XRequest

(* The listener of a page is up: the loop is done, its QR flow starts.     *)
LEMMA ServeStep == ASSUME XInv, XServe PROVE XInv'
<1>1. XShape /\ UNCHANGED xRisks /\ XLoop \in XActors
  BY DEF XInv, XServe, XActors
<1>2. CASE XLeave(XLoop)
  BY <1>1, <1>2, LeaveCalm, CalmStep
<1>3. CASE xAct' = [xAct EXCEPT ![XLoop] = XIdle,
                      ![<<"qr", xPages>>] = [XIdle EXCEPT !.pc = "create", !.page = xState]]
  <2>1. Whole(XIdle) /\ XIdle.pc = "idle"
    BY DEF Whole, XIdle, XFields
  <2> DEFINE r == [XIdle EXCEPT !.pc = "create", !.page = xState]
  <2>2. Whole(r) /\ r.pc = "create"
    BY DEF Whole, XIdle, XFields
  <2>3. xAct' = [xAct EXCEPT ![XLoop] = XIdle, ![<<"qr", xPages>>] = r]
    BY <1>3
  <2> HIDE DEF r
  <2>4. /\ xAct' = [b \in XActors |-> xAct'[b]]
        /\ \A b \in XActors : xAct'[b] \in {xAct[b], XIdle, r}
    BY <1>1, <2>3 DEF XShape
  <2>5. Calm
    BY <1>1, <2>1, <2>2, <2>4 DEF XShape, Calm, xRisks
  <2> QED
    BY <2>5, CalmStep
<1> QED
  BY <1>2, <1>3 DEF XServe

(* The steps of the poll loop. *)
LEMMA XLoopSteps == ASSUME XInv, XLoopStep PROVE XInv'
<1>1. XShape /\ XLoop \in XActors
  BY DEF XInv, XActors
<1>2. CASE XRound \/ XGateway \/ XScheduleLogin \/ XStartUI \/ XEnsured \/ EnsureGuest
  <2>1. UNCHANGED xRisks
    BY <1>2 DEF XRound, XGateway, XScheduleLogin, XStartUI, XEnsured, EnsureGuest
  <2>2. \/ XLeave(XLoop)
        \/ \E place \in {"round", "ensure", "startUI", "page", "schedule", "mint", "serve"} :
              XGoto(XLoop, place)
    <3>1. CASE XRound
      BY <3>1 DEF XRound
    <3>2. CASE XGateway
      BY <3>2 DEF XGateway
    <3>3. CASE XScheduleLogin
      BY <3>3 DEF XScheduleLogin
    <3>4. CASE XStartUI
      BY <3>4 DEF XStartUI
    <3>5. CASE XEnsured
      BY <3>5 DEF XEnsured
    <3>6. CASE EnsureGuest
      BY <3>6 DEF EnsureGuest
    <3> QED
      BY <1>2, <3>1, <3>2, <3>3, <3>4, <3>5, <3>6
  <2> QED
    BY <1>1, <2>1, <2>2, LeaveCalm, GotoCalm, CalmStep
<1>3. CASE XRoundAsks
  BY <1>1, <1>3, AskStep DEF XRoundAsks
<1>4. CASE XRoundEnds
  <2>1. UNCHANGED xRisks
    BY <1>4 DEF XRoundEnds
  <2>2. XLeave(XLoop) \/ xAct' = [xAct EXCEPT ![XLoop] = [XIdle EXCEPT !.pc = "ensure"]]
    BY <1>4 DEF XRoundEnds, XLeave
  <2> QED
    BY <1>1, <2>1, <2>2, LeaveCalm, CalmStep
<1>5. CASE XEnsureSession
  <2>1. UNCHANGED xRisks
    BY <1>5 DEF XEnsureSession
  <2>2. \/ \E place \in {"schedule", "mint"} : XGoto(XLoop, place)
        \/ \E goal \in {"ready", "guest"} : XSeek(XLoop, "probe", goal)
    BY <1>5 DEF XEnsureSession
  <2> QED
    BY <1>1, <2>1, <2>2, SeekCalm, GotoCalm, CalmStep
<1> QED
  BY <1>2, <1>3, <1>4, <1>5, ServeStep DEF XLoopStep

(* The QR flow of a page, logins, and what follows a login. *)
LEMMA LoginStep ==
    ASSUME XInv,
           \/ \E a \in XActors \ {XLoop} : XLoginEnds(a)
           \/ \E f \in XFlows : QrCreate(f) \/ XQrTop(f) \/ XQrPoll(f)
           \/ \E p \in XPages, r \in XRequests : XLogin(r, p)
    PROVE  XInv'
<1>1. XShape
  BY DEF XInv
<1>2. ASSUME NEW a \in XActors, XLoginEnds(a)
      PROVE  XInv'
  <2>1. XLeave(a) /\ UNCHANGED xRisks
    BY <1>2 DEF XLoginEnds
  <2> QED
    BY <1>1, <2>1, LeaveCalm, CalmStep
<1>3. ASSUME NEW f \in XFlows, QrCreate(f) \/ XQrTop(f) \/ XQrPoll(f)
      PROVE  XInv'
  <2>1. UNCHANGED xRisks /\ f \in XActors
    BY <1>3 DEF QrCreate, XQrTop, XQrPoll, XActors
  <2>2. \/ XLeave(f) \/ \E place \in {"top", "ask"} : XGoto(f, place)
        \/ XSeek(f, "probe", "login")
    BY <1>3 DEF QrCreate, XQrTop, XQrPoll
  <2> QED
    BY <1>1, <2>1, <2>2, LeaveCalm, GotoCalm, SeekCalm, CalmStep
<1>4. ASSUME NEW p \in XPages, NEW r \in XRequests, XLogin(r, p)
      PROVE  XInv'
  <2>1. /\ UNCHANGED xRisks /\ r \in XActors
        /\ xAct' = [xAct EXCEPT ![r].pc = "probe", ![r].goal = "login", ![r].page = p]
    BY <1>4 DEF XLogin, XActors
  <2> QED
    BY <1>1, <2>1, LoginCalm, CalmStep
<1> QED
  BY <1>2, <1>3, <1>4

(* A confirmation releases the pending request, which is the latest if     *)
(* that one still waits.                                                   *)
LEMMA ConfirmStep ==
    ASSUME XInv, NEW p \in XPages, ClearRisk(p)
    PROVE  XInv'
<1>1. /\ xLatest' = xLatest
      /\ xAct' = (IF xAct[xRisk].pc = "risk" THEN [xAct EXCEPT ![xRisk].released = TRUE]
                  ELSE xAct)
  BY DEF ClearRisk
<1>2. CASE xAct' = xAct
  <2>1. xLatest # Nobody /\ xAct[xLatest].pc = "risk" => xAct[xLatest].released
    <3>1. xLatest # Nobody /\ xAct[xLatest].pc = "risk" /\ ~xAct[xLatest].released =>
            xAct[xRisk].pc = "risk" /\ xRisk = xLatest
      BY DEF XInv, LatestIsPending
    <3>2. xLatest # Nobody /\ xAct[xLatest].pc = "risk" /\ ~xAct[xLatest].released => FALSE
      <4> SUFFICES ASSUME xLatest # Nobody, xAct[xLatest].pc = "risk", ~xAct[xLatest].released
                   PROVE  FALSE
        OBVIOUS
      <4>1. xRisk = xLatest /\ xLatest \in XActors
        BY <3>1 DEF XInv, XShape
      <4>2. xAct' = [xAct EXCEPT ![xLatest].released = TRUE]
        BY <1>1, <4>1
      <4>3. xAct'[xLatest].released = TRUE
        BY <4>1, <4>2 DEF XInv, XShape, Whole, XFields
      <4> QED
        BY <1>2, <4>3
    <3> QED
      BY <3>2
  <2> QED
    BY <1>1, <1>2, <2>1 DEF XInv, XShape, LatestIsPending
<1>3. CASE /\ xAct[xRisk].pc = "risk" /\ xRisk \in XActors
           /\ xAct' = [xAct EXCEPT ![xRisk].released = TRUE]
  <2> DEFINE r == [xAct[xRisk] EXCEPT !.released = TRUE]
  <2>1. Whole(r) /\ r.released = TRUE
    BY <1>3 DEF Whole, XFields, XInv, XShape
  <2>2. xAct' = [xAct EXCEPT ![xRisk] = r]
    BY <1>3 DEF XInv, XShape
  <2> HIDE DEF r
  <2>3. /\ xAct' = [b \in XActors |-> xAct'[b]]
        /\ xAct'[xRisk] = r
        /\ \A b \in XActors : b # xRisk => xAct'[b] = xAct[b]
    BY <1>3, <2>2 DEF XInv, XShape
  <2>4. XShape'
    BY <1>1, <2>1, <2>3 DEF XInv, XShape
  <2>5. LatestIsPending'
    BY <1>1, <2>1, <2>3 DEF XInv, XShape, LatestIsPending
  <2> QED
    BY <2>4, <2>5 DEF XInv
<1>4. xRisk \notin XActors => [xAct EXCEPT ![xRisk].released = TRUE] = xAct
  BY DEF XInv, XShape
<1> QED
  BY <1>1, <1>2, <1>3, <1>4

-----------------------------------------------------------------------------
(* As long as the request that was blocked last waits for its challenge,   *)
(* the challenge is the pending one, so that the page can release it; for  *)
(* any users, pages and requests (relayRisk and clearRisk).                *)
THEOREM ChallengeTheorem == XhsSpec => []LatestIsPending
<1>1. ASSUME XInv, [XhsNext]_xVars
      PROVE  XInv'
  <2>1. ASSUME NEW a \in XActors, XRequest(a)
        PROVE  XInv'
    BY <1>1, <2>1, RequestStep
  <2>2. ASSUME NEW p \in XPages, ClearRisk(p)
        PROVE  XInv'
    BY <1>1, <2>2, ConfirmStep
  <2>3. CASE \/ XCooldownEnds \/ XCloseUI \/ UNCHANGED xVars
             \/ \E p \in XPages : XPageEnds(p) \/ XPageGone(p)
             \/ \E w \in XUsers \cup {Guest} : XSiteRejects(w)
    <3>1. UNCHANGED <<xAct, xRisks>>
      BY <2>3 DEF XCooldownEnds, XCloseUI, XPageEnds, XPageGone, XSiteRejects, xVars, xRisks
    <3> QED
      BY <1>1, <3>1, StillStep, CalmStep
  <2> QED
    BY <1>1, <2>1, <2>2, <2>3, XLoopSteps, LoginStep DEF XhsNext
<1>2. XInv => LatestIsPending
  BY DEF XInv
<1> QED
  BY <1>1, <1>2, XhsStarts, PTL DEF XhsSpec

-----------------------------------------------------------------------------
(* The values of the variables of the xhs session, in parts.               *)
XPlaces ==
    {"idle", "ensure", "probe", "answer", "risk", "verified", "unsure", "rejected",
     "round", "mint", "schedule", "startUI", "page", "serve", "create", "top", "ask"}
XGoals == {"none", "ready", "guest", "round", "login"}
XVerdicts == {"none", "ok", "refused", "error"}
XActs(n) ==
    [pc : XPlaces, goal : XGoals, page : 0..n, web : XWebs, verdict : XVerdicts, released : BOOLEAN]
XUse == [faults : 0..xLimit.faults, reqs : 0..xLimit.reqs, rounds : 0..xLimit.rounds]

XActing == xAct \in [XActors -> XActs(xPages)]
XUsing == xLimit \in XLimits /\ xUsed \in XUse /\ xAccepted \subseteq XUsers \cup {Guest}
XHolding == xFile \in [web : XWebs, status : XStatuses] /\ xWeb \in XWebs /\ xStatus \in XStatuses
XFlagged == xCooling \in BOOLEAN /\ xForce \in BOOLEAN /\ xCrashed \in BOOLEAN
XShowing ==
    /\ xPages \in 0..xLimit.pages
    /\ xActive \in 0..xPages /\ xState \in 0..xPages /\ xStop \in 0..xPages
    /\ xClosed \subseteq 1..xPages
    /\ xWatch \in [XPages -> {"none", "nil", "wait", "shutdown", "gone"}]
    /\ xTimers \in Nat
XWaiting == xRisk \in XActors \cup {Nobody} /\ xLatest \in XActors \cup {Nobody}

(* Before the first login page is made nobody but the loop is at work, and *)
(* nothing is to be stopped; a page that is watched was made.              *)
XUnopened ==
    /\ xPages > 0 => xStop > 0
    /\ xPages = 0 => /\ xTimers = 0
                     /\ \A a \in XActors \ {XLoop} : xAct[a].pc = "idle"
                     /\ xAct[XLoop].pc \notin {"page", "serve"}
    /\ \A p \in XPages : xWatch[p] # "none" => p <= xPages

XTyped == XActing /\ XUsing /\ XHolding /\ XFlagged /\ XShowing /\ XWaiting /\ XUnopened

(* The bounds of a behaviour are numbers. *)
LEMMA XLimitsOf ==
    ASSUME XUsing
    PROVE  /\ xLimit.pages \in Nat /\ xLimit.faults \in Nat /\ xLimit.reqs \in Nat
           /\ xLimit.rounds \in Nat
BY XhsAssumption DEF XUsing

(* A record of an actor stays one when a field gets a value of its kind.   *)
LEMMA XFieldOf ==
    ASSUME NEW n \in Nat, NEW r \in XActs(n)
    PROVE  /\ \A v \in XPlaces : [r EXCEPT !.pc = v] \in XActs(n)
           /\ \A v \in XGoals : [r EXCEPT !.goal = v] \in XActs(n)
           /\ \A v \in 0..n : [r EXCEPT !.page = v] \in XActs(n)
           /\ \A v \in XWebs : [r EXCEPT !.web = v] \in XActs(n)
           /\ \A v \in XVerdicts : [r EXCEPT !.verdict = v] \in XActs(n)
           /\ \A v \in BOOLEAN : [r EXCEPT !.released = v] \in XActs(n)
<1>1. \A v \in XPlaces : [r EXCEPT !.pc = v] \in XActs(n)
  BY DEF XActs
<1>2. \A v \in XGoals : [r EXCEPT !.goal = v] \in XActs(n)
  BY DEF XActs
<1>3. \A v \in 0..n : [r EXCEPT !.page = v] \in XActs(n)
  BY DEF XActs
<1>4. \A v \in XWebs : [r EXCEPT !.web = v] \in XActs(n)
  BY DEF XActs
<1>5. \A v \in XVerdicts : [r EXCEPT !.verdict = v] \in XActs(n)
  BY DEF XActs
<1>6. \A v \in BOOLEAN : [r EXCEPT !.released = v] \in XActs(n)
  BY DEF XActs
<1> QED
  BY <1>1, <1>2, <1>3, <1>4, <1>5, <1>6

(* XIdle, at whatever place, is the record of an actor. *)
LEMMA XIdleOf ==
    ASSUME NEW n \in Nat
    PROVE  /\ XIdle \in XActs(n)
           /\ \A v \in XPlaces : /\ [XIdle EXCEPT !.pc = v] \in XActs(n)
                                 /\ [XIdle EXCEPT !.pc = v].pc = v
           /\ \A v \in XPlaces, p \in 0..n : [XIdle EXCEPT !.pc = v, !.page = p] \in XActs(n)
<1>1. XIdle \in XActs(n)
  BY DEF XIdle, XActs, XPlaces, XGoals, XVerdicts, XWebs
<1>2. ASSUME NEW v \in XPlaces, NEW p \in 0..n
      PROVE  [XIdle EXCEPT !.pc = v, !.page = p] \in XActs(n)
  <2>1. [XIdle EXCEPT !.pc = v, !.page = p] = [[XIdle EXCEPT !.pc = v] EXCEPT !.page = p]
    BY DEF XIdle
  <2>2. [XIdle EXCEPT !.pc = v] \in XActs(n)
    BY <1>1, XFieldOf
  <2> QED
    BY <2>1, <2>2, XFieldOf
<1>3. \A v \in XPlaces : [XIdle EXCEPT !.pc = v].pc = v
  BY DEF XIdle
<1> QED
  BY <1>1, <1>2, <1>3, XFieldOf

(* An actor that gets another record, and the others keep theirs. *)
LEMMA XPutOf ==
    ASSUME NEW n \in Nat, NEW f \in [XActors -> XActs(n)], NEW a \in XActors, NEW r \in XActs(n)
    PROVE  /\ [f EXCEPT ![a] = r] \in [XActors -> XActs(n)]
           /\ \A b \in XActors : [f EXCEPT ![a] = r][b] = IF b = a THEN r ELSE f[b]
OBVIOUS

(* What a step of the actor a does to the records: it alone gets another.  *)
XMoves(a, pc) ==
    /\ xAct' \in [XActors -> XActs(xPages)]
    /\ \A b \in XActors \ {a} : xAct'[b] = xAct[b]
    /\ xAct'[a].pc = pc

(* One record is replaced by one at place v. *)
LEMMA XMovesOf ==
    ASSUME XActing, xPages \in Nat, NEW a \in XActors, NEW r \in XActs(xPages), NEW v, r.pc = v,
           xAct' = [xAct EXCEPT ![a] = r]
    PROVE  XMoves(a, v)
BY XPutOf DEF XActing, XMoves

(* The same for one that only goes to another place, *)
LEMMA XGotoOf ==
    ASSUME XActing, xPages \in Nat, NEW a \in XActors, NEW v \in XPlaces, XGoto(a, v)
    PROVE  XMoves(a, v)
<1>1. xAct' = [xAct EXCEPT ![a] = [xAct[a] EXCEPT !.pc = v]]
  BY DEF XGoto, XActing
<1>2. [xAct[a] EXCEPT !.pc = v] \in XActs(xPages) /\ [xAct[a] EXCEPT !.pc = v].pc = v
  <2>1. xAct[a] \in XActs(xPages)
    BY DEF XActing
  <2> QED
    BY <2>1, XFieldOf DEF XActs
<1> QED
  BY <1>1, <1>2, XMovesOf

(* and for one that ends. *)
LEMMA XLeaveOf ==
    ASSUME XActing, xPages \in Nat, NEW a \in XActors, XLeave(a)
    PROVE  XMoves(a, "idle")
<1>1. XIdle.pc = "idle" /\ XIdle \in XActs(xPages)
  BY XIdleOf DEF XIdle
<1> QED
  BY <1>1, XPutOf DEF XLeave, XActing, XMoves

(* Two, three or four fields at once. *)
LEMMA XSeekOf ==
    ASSUME XActing, xPages \in Nat, NEW a \in XActors, NEW v \in XPlaces, NEW g \in XGoals,
           XSeek(a, v, g)
    PROVE  XMoves(a, v)
<1> DEFINE r == [xAct[a] EXCEPT !.pc = v]
           s == [r EXCEPT !.goal = g]
<1>1. xAct[a] \in XActs(xPages)
  BY DEF XActing
<1>2. xAct' = [xAct EXCEPT ![a] = s]
  BY <1>1 DEF XSeek, XActing, XActs
<1>3. r \in XActs(xPages) /\ r.pc = v
  BY <1>1, XFieldOf DEF XActs
<1> HIDE DEF r
<1>4. s \in XActs(xPages) /\ s.pc = v
  BY <1>3, XFieldOf DEF XActs
<1> HIDE DEF s
<1> QED
  BY <1>2, <1>4, XMovesOf

(* The probe of a login is a move to that place. *)
LEMMA XLoginOf ==
    ASSUME XActing, xPages \in Nat, NEW a \in XActors, NEW p \in 0..xPages,
           xAct' = [xAct EXCEPT ![a].pc = "probe", ![a].goal = "login", ![a].page = p]
    PROVE  XMoves(a, "probe")
<1> DEFINE r == [xAct[a] EXCEPT !.pc = "probe"]
           s == [r EXCEPT !.goal = "login"]
           t == [s EXCEPT !.page = p]
<1>1. xAct[a] \in XActs(xPages) /\ "probe" \in XPlaces /\ "login" \in XGoals
  BY DEF XActing, XPlaces, XGoals
<1>2. xAct' = [xAct EXCEPT ![a] = t]
  BY <1>1 DEF XActing, XActs
<1>3. r \in XActs(xPages) /\ r.pc = "probe"
  BY <1>1, XFieldOf DEF XActs
<1> HIDE DEF r
<1>4. s \in XActs(xPages) /\ s.pc = "probe"
  BY <1>1, <1>3, XFieldOf DEF XActs
<1> HIDE DEF s
<1>5. t \in XActs(xPages) /\ t.pc = "probe"
  BY <1>4, XFieldOf DEF XActs
<1> HIDE DEF t
<1> QED
  BY <1>2, <1>5, XMovesOf

(* An answer, for a goal and to a request with a session. *)
LEMMA XAnswerOf ==
    ASSUME XActing, xPages \in Nat, NEW a \in XActors, NEW g \in XGoals, NEW w \in XWebs,
           NEW v \in XVerdicts,
           xAct' = [xAct EXCEPT ![a].pc = "answer", ![a].goal = g, ![a].web = w, ![a].verdict = v]
    PROVE  XMoves(a, "answer")
<1> DEFINE r == [xAct[a] EXCEPT !.pc = "answer"]
           s == [r EXCEPT !.goal = g]
           t == [s EXCEPT !.web = w]
           u == [t EXCEPT !.verdict = v]
<1>1. xAct[a] \in XActs(xPages) /\ "answer" \in XPlaces
  BY DEF XActing, XPlaces
<1>2. xAct' = [xAct EXCEPT ![a] = u]
  BY <1>1 DEF XActing, XActs
<1>3. r \in XActs(xPages) /\ r.pc = "answer"
  BY <1>1, XFieldOf DEF XActs
<1> HIDE DEF r
<1>4. s \in XActs(xPages) /\ s.pc = "answer"
  BY <1>3, XFieldOf DEF XActs
<1> HIDE DEF s
<1>5. t \in XActs(xPages) /\ t.pc = "answer"
  BY <1>4, XFieldOf DEF XActs
<1> HIDE DEF t
<1>6. u \in XActs(xPages) /\ u.pc = "answer"
  BY <1>5, XFieldOf DEF XActs
<1> HIDE DEF u
<1> QED
  BY <1>2, <1>6, XMovesOf

(* The answer to the repetition of a released request. *)
LEMMA XRepeatOf ==
    ASSUME XActing, xPages \in Nat, NEW a \in XActors, NEW w \in XWebs, NEW v \in XVerdicts,
           xAct' = [xAct EXCEPT ![a].pc = "answer", ![a].web = w, ![a].released = FALSE,
                          ![a].verdict = v]
    PROVE  XMoves(a, "answer")
<1> DEFINE r == [xAct[a] EXCEPT !.pc = "answer"]
           s == [r EXCEPT !.web = w]
           t == [s EXCEPT !.released = FALSE]
           u == [t EXCEPT !.verdict = v]
<1>1. xAct[a] \in XActs(xPages) /\ "answer" \in XPlaces
  BY DEF XActing, XPlaces
<1>2. xAct' = [xAct EXCEPT ![a] = u]
  BY <1>1 DEF XActing, XActs
<1>3. r \in XActs(xPages) /\ r.pc = "answer"
  BY <1>1, XFieldOf DEF XActs
<1> HIDE DEF r
<1>4. s \in XActs(xPages) /\ s.pc = "answer"
  BY <1>3, XFieldOf DEF XActs
<1> HIDE DEF s
<1>5. t \in XActs(xPages) /\ t.pc = "answer"
  BY <1>4, XFieldOf DEF XActs
<1> HIDE DEF t
<1>6. u \in XActs(xPages) /\ u.pc = "answer"
  BY <1>5, XFieldOf DEF XActs
<1> HIDE DEF u
<1> QED
  BY <1>2, <1>6, XMovesOf

(* A challenge nobody confirmed. *)
LEMMA XTimeoutOf ==
    ASSUME XActing, xPages \in Nat, NEW a \in XActors,
           xAct' = [xAct EXCEPT ![a].pc = "answer", ![a].released = FALSE, ![a].verdict = "error"]
    PROVE  XMoves(a, "answer")
<1> DEFINE r == [xAct[a] EXCEPT !.pc = "answer"]
           s == [r EXCEPT !.released = FALSE]
           t == [s EXCEPT !.verdict = "error"]
<1>1. xAct[a] \in XActs(xPages) /\ "answer" \in XPlaces /\ "error" \in XVerdicts
  BY DEF XActing, XPlaces, XVerdicts
<1>2. xAct' = [xAct EXCEPT ![a] = t]
  BY <1>1 DEF XActing, XActs
<1>3. r \in XActs(xPages) /\ r.pc = "answer"
  BY <1>1, XFieldOf DEF XActs
<1> HIDE DEF r
<1>4. s \in XActs(xPages) /\ s.pc = "answer"
  BY <1>3, XFieldOf DEF XActs
<1> HIDE DEF s
<1>5. t \in XActs(xPages) /\ t.pc = "answer"
  BY <1>1, <1>4, XFieldOf DEF XActs
<1> HIDE DEF t
<1> QED
  BY <1>2, <1>5, XMovesOf

(* A challenge to wait for. *)
LEMMA XBlockedOf ==
    ASSUME XActing, xPages \in Nat, NEW a \in XActors, NEW g \in XGoals,
           xAct' = [xAct EXCEPT ![a].pc = "risk", ![a].goal = g, ![a].released = FALSE]
    PROVE  XMoves(a, "risk")
<1> DEFINE r == [xAct[a] EXCEPT !.pc = "risk"]
           s == [r EXCEPT !.goal = g]
           t == [s EXCEPT !.released = FALSE]
<1>1. xAct[a] \in XActs(xPages) /\ "risk" \in XPlaces
  BY DEF XActing, XPlaces
<1>2. xAct' = [xAct EXCEPT ![a] = t]
  BY <1>1 DEF XActing, XActs
<1>3. r \in XActs(xPages) /\ r.pc = "risk"
  BY <1>1, XFieldOf DEF XActs
<1> HIDE DEF r
<1>4. s \in XActs(xPages) /\ s.pc = "risk"
  BY <1>3, XFieldOf DEF XActs
<1> HIDE DEF s
<1>5. t \in XActs(xPages) /\ t.pc = "risk"
  BY <1>4, XFieldOf DEF XActs
<1> HIDE DEF t
<1> QED
  BY <1>2, <1>5, XMovesOf

(* A step of an actor: it moves alone, before the first page only the loop *)
(* does, and the loop comes to the page only by making it.                 *)
XMover ==
    /\ UNCHANGED xUi
    /\ \E a \in XActors, v \in XPlaces :
          /\ XMoves(a, v)
          /\ a # XLoop => xAct[a].pc # "idle" \/ xPages > 0
          /\ v \in {"page", "serve"} => xAct[a].pc = "page"

(* A request of an actor that is at work leads it to an answer or to wait. *)
LEMMA XAskOf ==
    ASSUME XTyped, NEW a \in XActors, NEW g \in XGoals, XAsk(a, g)
    PROVE  /\ \E v \in {"answer", "risk"} : XMoves(a, v)
           /\ XFault \/ UNCHANGED xUsed
           /\ XWaiting'
<1>1. XActing /\ xPages \in Nat /\ xWeb \in XWebs
  BY XLimitsOf DEF XTyped, XShowing, XHolding
<1>2. CASE /\ xAct' = [xAct EXCEPT ![a].pc = "answer", ![a].goal = g, ![a].web = xWeb,
                             ![a].verdict = IF xWeb \in xAccepted THEN "ok" ELSE "refused"]
           /\ UNCHANGED <<xUsed, xRisks>>
  <2>1. PICK v \in XVerdicts : v = IF xWeb \in xAccepted THEN "ok" ELSE "refused"
    BY DEF XVerdicts
  <2>2. xAct' = [xAct EXCEPT ![a].pc = "answer", ![a].goal = g, ![a].web = xWeb, ![a].verdict = v]
    BY <1>2, <2>1
  <2>3. XMoves(a, "answer")
    BY <1>1, <2>2, XAnswerOf
  <2> QED
    BY <1>2, <2>3 DEF XTyped, XWaiting, xRisks
<1>3. CASE /\ XFault
           /\ xAct' = [xAct EXCEPT ![a].pc = "answer", ![a].goal = g, ![a].web = xWeb,
                             ![a].verdict = "error"]
           /\ UNCHANGED xRisks
  <2>1. XMoves(a, "answer")
    BY <1>1, <1>3, XAnswerOf DEF XVerdicts
  <2> QED
    BY <1>3, <2>1 DEF XTyped, XWaiting, xRisks
<1>4. CASE /\ XFault
           /\ xAct' = [xAct EXCEPT ![a].pc = "risk", ![a].goal = g, ![a].released = FALSE]
           /\ xRisk' = a
           /\ xLatest' = a
  <2>1. XMoves(a, "risk")
    BY <1>1, <1>4, XBlockedOf
  <2> QED
    BY <1>4, <2>1 DEF XWaiting
<1> QED
  BY <1>2, <1>3, <1>4 DEF XAsk

(* What is used up stays within its bounds. *)
LEMMA XUsedOf ==
    ASSUME XUsing
    PROVE  /\ XFault => xUsed' \in XUse
           /\ xUsed.reqs < xLimit.reqs /\ xUsed' = [xUsed EXCEPT !.reqs = @ + 1] => xUsed' \in XUse
           /\ xUsed.rounds < xLimit.rounds /\ xUsed' = [xUsed EXCEPT !.rounds = @ + 1] => xUsed' \in XUse
BY XLimitsOf DEF XUsing, XUse, XFault

(* What is used up stays within its bounds. *)
LEMMA XUsingKeeps ==
    ASSUME XUsing, xLimit' = xLimit, xUsed' = xUsed \/ xUsed' \in XUse, xAccepted' \subseteq xAccepted
    PROVE  XUsing'
BY DEF XUsing, XUse

(* The actions of the loop that make no page. *)
LEMMA XLoopMoves ==
    ASSUME XTyped,
           \/ XRound \/ XRoundAsks \/ XRoundEnds \/ XGateway \/ XEnsureSession \/ XEnsured
           \/ EnsureGuest \/ XScheduleLogin
    PROVE  XMover
<1>1. XActing /\ xPages \in Nat /\ XLoop \in XActors
  BY XLimitsOf DEF XTyped, XShowing, XActors
<1>2. XActs(xPages) = [pc : XPlaces, goal : XGoals, page : 0..xPages, web : XWebs,
                       verdict : XVerdicts, released : BOOLEAN]
  BY DEF XActs
<1>3. ASSUME NEW v \in XPlaces \ {"page", "serve"}, XMoves(XLoop, v), UNCHANGED xUi
      PROVE  XMover
  BY <1>1, <1>3 DEF XMover
<1>4. CASE XRound
  BY <1>1, <1>3, <1>4, XGotoOf DEF XRound, XPlaces
<1>5. CASE XRoundAsks
  <2>1. PICK v \in {"answer", "risk"} : XMoves(XLoop, v)
    BY <1>1, <1>5, XAskOf DEF XRoundAsks, XGoals
  <2> QED
    BY <1>3, <1>5, <2>1 DEF XRoundAsks, XPlaces
<1>6. CASE XRoundEnds
  <2>1. CASE xAct' = [xAct EXCEPT ![XLoop] = XIdle]
    BY <1>1, <1>3, <1>6, <2>1, XLeaveOf DEF XRoundEnds, XLeave, XPlaces
  <2>2. CASE xAct' = [xAct EXCEPT ![XLoop] = [XIdle EXCEPT !.pc = "ensure"]]
    <3>1. [XIdle EXCEPT !.pc = "ensure"] \in XActs(xPages) /\ [XIdle EXCEPT !.pc = "ensure"].pc = "ensure"
      BY <1>1, XIdleOf DEF XPlaces
    <3>2. XMoves(XLoop, "ensure")
      BY <1>1, <2>2, <3>1, XPutOf DEF XActing, XMoves
    <3> QED
      BY <1>3, <1>6, <3>2 DEF XRoundEnds, XPlaces
  <2> QED
    BY <1>6, <2>1, <2>2 DEF XRoundEnds
<1>7. CASE XGateway
  BY <1>1, <1>3, <1>7, XGotoOf DEF XGateway, XPlaces
<1>8. CASE XEnsureSession
  <2>1. \/ \E g \in XGoals : XSeek(XLoop, "probe", g)
        \/ XGoto(XLoop, "schedule") \/ XGoto(XLoop, "mint")
    BY <1>8 DEF XEnsureSession, XGoals
  <2>2. XMoves(XLoop, "probe") \/ XMoves(XLoop, "schedule") \/ XMoves(XLoop, "mint")
    BY <1>1, <2>1, XSeekOf, XGotoOf DEF XPlaces
  <2> QED
    BY <1>3, <1>8, <2>2 DEF XEnsureSession, XPlaces
<1>9. CASE XEnsured
  <2>1. XGoto(XLoop, "schedule") \/ XGoto(XLoop, "mint") \/ XLeave(XLoop)
    BY <1>9 DEF XEnsured
  <2>2. XMoves(XLoop, "schedule") \/ XMoves(XLoop, "mint") \/ XMoves(XLoop, "idle")
    BY <1>1, <2>1, XLeaveOf, XGotoOf DEF XPlaces
  <2> QED
    BY <1>3, <1>9, <2>2 DEF XEnsured, XPlaces
<1>10. CASE EnsureGuest
  <2>1. CASE XAt(XLoop, "page") /\ XGoto(XLoop, "serve")
    <3>1. XMoves(XLoop, "serve")
      BY <1>1, <2>1, XGotoOf DEF XPlaces
    <3> QED
      BY <1>1, <1>10, <2>1, <3>1 DEF XMover, EnsureGuest, XPlaces, XAt
  <2>2. CASE XLeave(XLoop)
    BY <1>1, <1>3, <1>10, <2>2, XLeaveOf DEF EnsureGuest, XPlaces
  <2> QED
    BY <1>10, <2>1, <2>2 DEF EnsureGuest, XAt
<1>11. CASE XScheduleLogin
  <2>1. XGoto(XLoop, "startUI") \/ XLeave(XLoop)
    BY <1>11 DEF XScheduleLogin
  <2>2. XMoves(XLoop, "startUI") \/ XMoves(XLoop, "idle")
    BY <1>1, <2>1, XLeaveOf, XGotoOf DEF XPlaces
  <2> QED
    BY <1>3, <1>11, <2>2 DEF XScheduleLogin, XPlaces
<1> QED
  BY <1>4, <1>5, <1>6, <1>7, <1>8, <1>9, <1>10, <1>11

(* Those of whoever has a request, and of the QR flow. *)
LEMMA XActorMoves ==
    ASSUME XTyped, NEW a \in XActors, XRequest(a) \/ (a \in XFlows /\ (QrCreate(a) \/ XQrTop(a) \/ XQrPoll(a)))
    PROVE  XMover
<1>1. XActing /\ xPages \in Nat /\ xWeb \in XWebs /\ xAct[a].goal \in XGoals
  BY XLimitsOf DEF XTyped, XShowing, XActing, XActs, XHolding
<1>2. UNCHANGED xUi /\ xAct[a].pc # "idle"
  BY DEF XRequest, XProbe, XAnswered, RiskEnds, QrCreate, XQrTop, XQrPoll, XAt
<1>3. ASSUME NEW v \in XPlaces \ {"page", "serve"}, XMoves(a, v)
      PROVE  XMover
  BY <1>2, <1>3 DEF XMover
<1>4. CASE XProbe(a)
  <2>1. XGoto(a, "rejected") \/ XAsk(a, xAct[a].goal)
    BY <1>4 DEF XProbe
  <2>2. XMoves(a, "rejected") \/ XMoves(a, "answer") \/ XMoves(a, "risk")
    BY <1>1, <2>1, XGotoOf, XAskOf DEF XPlaces
  <2> QED
    BY <1>3, <2>2 DEF XPlaces
<1>5. CASE XAnswered(a)
  <2>1. XGoto(a, "verified") \/ XGoto(a, "rejected") \/ XGoto(a, "unsure")
    BY <1>5 DEF XAnswered
  <2>2. XMoves(a, "verified") \/ XMoves(a, "rejected") \/ XMoves(a, "unsure")
    BY <1>1, <2>1, XGotoOf DEF XPlaces
  <2> QED
    BY <1>3, <2>2 DEF XPlaces
<1>6. CASE RiskEnds(a)
  <2>1. PICK v \in XVerdicts : v = IF xWeb \in xAccepted THEN "ok" ELSE "refused"
    BY DEF XVerdicts
  <2>2. \/ xAct' = [xAct EXCEPT ![a].pc = "answer", ![a].web = xWeb, ![a].released = FALSE,
                          ![a].verdict = v]
        \/ xAct' = [xAct EXCEPT ![a].pc = "answer", ![a].released = FALSE, ![a].verdict = "error"]
    BY <1>6, <2>1 DEF RiskEnds
  <2>3. XMoves(a, "answer")
    BY <1>1, <2>2, XRepeatOf, XTimeoutOf
  <2> QED
    BY <1>3, <2>3 DEF XPlaces
<1>7. CASE QrCreate(a)
  <2>1. XMoves(a, "idle") \/ XMoves(a, "top")
    BY <1>1, <1>7, XLeaveOf, XGotoOf DEF QrCreate, XPlaces
  <2> QED
    BY <1>3, <2>1 DEF XPlaces
<1>8. CASE XQrTop(a)
  <2>1. XMoves(a, "idle") \/ XMoves(a, "ask")
    BY <1>1, <1>8, XLeaveOf, XGotoOf DEF XQrTop, XPlaces
  <2> QED
    BY <1>3, <2>1 DEF XPlaces
<1>9. CASE XQrPoll(a)
  <2>1. XMoves(a, "idle") \/ XMoves(a, "top") \/ XMoves(a, "probe")
    BY <1>1, <1>9, XLeaveOf, XGotoOf, XSeekOf DEF XQrPoll, XPlaces, XGoals
  <2> QED
    BY <1>3, <2>1 DEF XPlaces
<1> QED
  BY <1>4, <1>5, <1>6, <1>7, <1>8, <1>9 DEF XRequest

(* A request of a page, which was made, begins. *)
LEMMA XLoginMoves ==
    ASSUME XTyped, NEW p \in XPages, NEW r \in XRequests, XLogin(r, p)
    PROVE  XMover
<1>1. XActing /\ xPages \in Nat /\ r \in XActors
  BY XLimitsOf DEF XTyped, XShowing, XActors
<1>2. p \in 0..xPages /\ xPages > 0
  BY <1>1 DEF XTyped, XUnopened, XLogin, XServed, XPages
<1>3. XMoves(r, "probe")
  BY <1>1, <1>2, XLoginOf DEF XLogin
<1> QED
  BY <1>1, <1>2, <1>3 DEF XMover, XLogin, XPlaces

(* What a moving actor keeps. *)
LEMMA XMoverKeeps == ASSUME XTyped, XMover PROVE XActing' /\ XUnopened'
<1>1. UNCHANGED xUi
  BY DEF XMover
<1>2. PICK a \in XActors, v \in XPlaces :
          /\ XMoves(a, v)
          /\ a # XLoop => xAct[a].pc # "idle" \/ xPages > 0
          /\ v \in {"page", "serve"} => xAct[a].pc = "page"
  BY DEF XMover
<1>3. XActing'
  BY <1>1, <1>2 DEF XActing, XMoves, xUi
<1>4. XUnopened'
  <2>1. XLoop \in XActors /\ xPages \in Nat
    BY XLimitsOf DEF XTyped, XShowing, XActors
  <2>2. ASSUME xPages = 0 PROVE a = XLoop /\ xAct'[XLoop].pc \notin {"page", "serve"}
    BY <1>2, <2>1, <2>2 DEF XTyped, XUnopened, XMoves
  <2> QED
    BY <1>1, <1>2, <2>1, <2>2 DEF XTyped, XUnopened, XMoves, xUi
<1> QED
  BY <1>3, <1>4

(* The login page: it is made, or fails to come up, or ends. *)
LEMMA XStartSteps == ASSUME XTyped, XStartUI PROVE XActing' /\ XShowing' /\ XUnopened'
<1>1. XActing /\ xPages \in Nat /\ xLimit.pages \in Nat /\ XLoop \in XActors /\ xLimit' = xLimit
  BY XLimitsOf DEF XTyped, XShowing, XActors, XStartUI, xWorld
<1>2. CASE XLeave(XLoop) /\ UNCHANGED xUi
  <2>1. XMoves(XLoop, "idle")
    BY <1>1, <1>2, XLeaveOf
  <2>2. XMover
    BY <1>1, <1>2, <2>1 DEF XMover, XPlaces
  <2> QED
    BY <1>1, <1>2, <2>2, XMoverKeeps DEF XTyped, XShowing, xUi
<1>3. CASE /\ xPages < xLimit.pages
           /\ xPages' = xPages + 1
           /\ xActive' = xPages' /\ xState' = xPages' /\ xStop' = xPages'
           /\ XGoto(XLoop, "page")
           /\ UNCHANGED <<xClosed, xWatch, xTimers>>
  <2>1. XMoves(XLoop, "page")
    BY <1>1, <1>3, XGotoOf DEF XPlaces
  <2>2. XActs(xPages) \subseteq XActs(xPages')
    <3>1. 0..xPages \subseteq 0..xPages'
      BY <1>1, <1>3
    <3> QED
      BY <3>1 DEF XActs
  <2>3. XActing'
    BY <2>1, <2>2 DEF XMoves, XActing
  <2>4. XShowing'
    BY <1>1, <1>3 DEF XTyped, XShowing
  <2>5. XUnopened'
    BY <1>1, <1>3 DEF XTyped, XUnopened, XPages
  <2> QED
    BY <2>3, <2>4, <2>5
<1> QED
  BY <1>2, <1>3 DEF XStartUI

(* The page is served, or its address cannot be taken. *)
LEMMA XServeSteps == ASSUME XTyped, XServe PROVE XActing' /\ XShowing' /\ XUnopened'
<1>1. XActing /\ xPages \in Nat /\ XLoop \in XActors /\ xLimit' = xLimit /\ xPages' = xPages
  BY XLimitsOf DEF XTyped, XShowing, XActors, XServe, xWorld
<1>2. xPages > 0
  BY <1>1 DEF XTyped, XUnopened, XServe, XAt
<1>3. CASE /\ xWatch' = [xWatch EXCEPT ![xPages] = IF xState = 0 THEN "nil" ELSE "wait"]
           /\ xAct' = [xAct EXCEPT ![XLoop] = XIdle,
                              ![<<"qr", xPages>>] = [XIdle EXCEPT !.pc = "create", !.page = xState]]
           /\ UNCHANGED <<xActive, xUsed>>
  <2> DEFINE fresh == [XIdle EXCEPT !.pc = "create", !.page = xState]
             alone == [xAct EXCEPT ![XLoop] = XIdle]
  <2>1. XIdle \in XActs(xPages) /\ fresh \in XActs(xPages) /\ XIdle.pc = "idle"
    BY <1>1, XIdleOf DEF XTyped, XShowing, XPlaces, XIdle
  <2>2. alone \in [XActors -> XActs(xPages)] /\ alone[XLoop].pc = "idle"
    BY <1>1, <2>1, XPutOf DEF XActing
  <2>3. xAct' = [alone EXCEPT ![<<"qr", xPages>>] = fresh]
    BY <1>3 DEF XActing
  <2> HIDE DEF fresh, alone
  <2>4. xAct' \in [XActors -> XActs(xPages)]
    BY <2>1, <2>2, <2>3
  <2>5. XShowing'
    BY <1>1, <1>3 DEF XTyped, XShowing, XServe
  <2>6. XUnopened'
    BY <1>1, <1>2, <1>3 DEF XTyped, XUnopened, XServe, XPages, XShowing
  <2> QED
    BY <1>1, <2>4, <2>5, <2>6 DEF XActing
<1>4. CASE xActive' = 0 /\ XLeave(XLoop) /\ UNCHANGED xWatch
  <2>1. XMoves(XLoop, "idle")
    BY <1>1, <1>4, XLeaveOf
  <2>2. XShowing'
    BY <1>1, <1>4 DEF XTyped, XShowing, XServe
  <2>3. XUnopened'
    BY <1>1, <1>2, <1>4 DEF XTyped, XUnopened, XServe
  <2> QED
    BY <1>1, <2>1, <2>2, <2>3 DEF XMoves, XActing
<1> QED
  BY <1>3, <1>4 DEF XServe

(* The server of a page ends. *)
LEMMA XEndSteps ==
    ASSUME XTyped, NEW p \in XPages, XPageEnds(p) \/ XPageGone(p)
    PROVE  XActing' /\ XShowing' /\ XUnopened'
<1>1. /\ xWatch[p] # "none"
      /\ xWatch' = [xWatch EXCEPT ![p] = "shutdown"] \/ xWatch' = [xWatch EXCEPT ![p] = "gone"]
      /\ xActive' \in {0, xActive} /\ xState' \in {0, xState}
      /\ UNCHANGED <<xLimit, xAct, xPages, xStop, xClosed, xTimers>>
  BY DEF XPageEnds, XPageGone, xWorld
<1>2. xPages \in Nat
  BY XLimitsOf DEF XTyped, XShowing
<1>3. XShowing'
  BY <1>1, <1>2 DEF XTyped, XShowing
<1>4. XUnopened'
  BY <1>1, <1>2 DEF XTyped, XUnopened, XShowing
<1> QED
  BY <1>1, <1>3, <1>4 DEF XTyped, XActing

(* The timer of a login closes the channel of a page that was made. *)
LEMMA XCloseSteps == ASSUME XTyped, XCloseUI PROVE XActing' /\ XShowing' /\ XUnopened'
<1>1. /\ xTimers > 0 /\ xTimers' = xTimers - 1 /\ xClosed' = xClosed \cup {xStop}
      /\ UNCHANGED <<xLimit, xAct, xPages, xActive, xState, xStop, xWatch>>
  BY DEF XCloseUI, xWorld
<1>2. xPages \in Nat /\ xTimers \in Nat
  BY XLimitsOf DEF XTyped, XShowing
<1>3. xStop \in 1..xPages
  BY <1>1, <1>2 DEF XTyped, XUnopened, XShowing
<1>4. XShowing'
  BY <1>1, <1>2, <1>3 DEF XTyped, XShowing
<1>5. XUnopened'
  BY <1>1, <1>2, <1>3 DEF XTyped, XUnopened
<1> QED
  BY <1>1, <1>4, <1>5 DEF XTyped, XActing

(* A login ends, with a timer when it succeeded. *)
LEMMA XLoginEndSteps ==
    ASSUME XTyped, NEW a \in XActors \ {XLoop}, XLoginEnds(a)
    PROVE  XActing' /\ XShowing' /\ XUnopened'
<1>1. /\ xTimers' \in {xTimers, xTimers + 1} /\ xAct[a].pc # "idle"
      /\ UNCHANGED <<xLimit, xPages, xActive, xState, xStop, xClosed, xWatch>>
  BY DEF XLoginEnds, XAt, xWorld
<1>2. xPages \in Nat /\ xTimers \in Nat /\ XActing
  BY XLimitsOf DEF XTyped, XShowing
<1>3. xPages > 0
  BY <1>1, <1>2 DEF XTyped, XUnopened
<1>4. XMoves(a, "idle")
  BY <1>2, XLeaveOf DEF XLoginEnds
<1>5. XShowing'
  BY <1>1, <1>2 DEF XTyped, XShowing
<1>6. XUnopened'
  BY <1>1, <1>2, <1>3 DEF XTyped, XUnopened
<1> QED
  BY <1>1, <1>4, <1>5, <1>6 DEF XMoves, XActing

(* A challenge is confirmed. *)
LEMMA XClearSteps ==
    ASSUME XTyped, NEW p \in XPages, ClearRisk(p)
    PROVE  XActing' /\ XUnopened' /\ XWaiting'
<1>1. XActing /\ xPages \in Nat /\ xRisk \in XActors /\ UNCHANGED xUi
  BY XLimitsOf DEF XTyped, XShowing, XWaiting, ClearRisk
<1>2. XWaiting'
  BY DEF XTyped, XWaiting, ClearRisk
<1>3. CASE UNCHANGED xAct
  BY <1>1, <1>2, <1>3 DEF XTyped, XActing, XUnopened, xUi
<1>4. CASE xAct[xRisk].pc = "risk" /\ xAct' = [xAct EXCEPT ![xRisk].released = TRUE]
  <2>1. xAct[xRisk] \in XActs(xPages)
    BY <1>1 DEF XActing
  <2>2. /\ [xAct[xRisk] EXCEPT !.released = TRUE] \in XActs(xPages)
        /\ [xAct[xRisk] EXCEPT !.released = TRUE].pc = "risk"
    BY <1>1, <1>4, <2>1, XFieldOf DEF XActs
  <2>3. xAct' = [xAct EXCEPT ![xRisk] = [xAct[xRisk] EXCEPT !.released = TRUE]]
    BY <1>4, <2>1 DEF XActs, XActing
  <2>4. XMoves(xRisk, "risk")
    BY <1>1, <2>2, <2>3, XPutOf DEF XActing, XMoves
  <2>5. XMover
    BY <1>1, <1>4, <2>4 DEF XMover, XPlaces
  <2> QED
    BY <1>2, <2>5, XMoverKeeps
<1> QED
  BY <1>2, <1>3, <1>4 DEF ClearRisk

-----------------------------------------------------------------------------
(* Every action keeps the values of the actors and of the login page. *)
LEMMA XActingStep == XTyped /\ [XhsNext]_xVars => XActing' /\ XShowing' /\ XUnopened'
<1> SUFFICES ASSUME XTyped, [XhsNext]_xVars PROVE XActing' /\ XShowing' /\ XUnopened'
  OBVIOUS
<1>1. ASSUME XMover, UNCHANGED xLimit PROVE XActing' /\ XShowing' /\ XUnopened'
  BY <1>1, XMoverKeeps DEF XTyped, XShowing, XMover, xUi
<1>2. ASSUME UNCHANGED <<xLimit, xAct, xUi>> PROVE XActing' /\ XShowing' /\ XUnopened'
  BY <1>2 DEF XTyped, XActing, XShowing, XUnopened, xUi
<1>3. CASE XLoopStep
  <2>1. xLimit' = xLimit
    BY <1>3 DEF XLoopStep, XRound, XRoundAsks, XRoundEnds, XGateway, XEnsureSession, XEnsured,
       EnsureGuest, XScheduleLogin, XStartUI, XServe, xWorld
  <2> QED
    BY <1>1, <1>3, <2>1, XLoopMoves, XStartSteps, XServeSteps DEF XLoopStep
<1>4. CASE XCooldownEnds
  BY <1>2, <1>4 DEF XCooldownEnds, xWorld
<1>5. CASE XCloseUI
  BY <1>5, XCloseSteps
<1>6. ASSUME NEW a \in XActors, XRequest(a) PROVE XActing' /\ XShowing' /\ XUnopened'
  <2>1. xLimit' = xLimit
    BY <1>6 DEF XRequest, XProbe, XAnswered, RiskEnds, xWorld
  <2> QED
    BY <1>1, <1>6, <2>1, XActorMoves
<1>7. ASSUME NEW a \in XActors \ {XLoop}, XLoginEnds(a) PROVE XActing' /\ XShowing' /\ XUnopened'
  BY <1>7, XLoginEndSteps
<1>8. ASSUME NEW f \in XFlows, QrCreate(f) \/ XQrTop(f) \/ XQrPoll(f)
      PROVE  XActing' /\ XShowing' /\ XUnopened'
  <2>1. xLimit' = xLimit /\ f \in XActors
    BY <1>8 DEF QrCreate, XQrTop, XQrPoll, xWorld, XActors
  <2> QED
    BY <1>1, <1>8, <2>1, XActorMoves
<1>9. ASSUME NEW p \in XPages, XPageEnds(p) \/ XPageGone(p) PROVE XActing' /\ XShowing' /\ XUnopened'
  BY <1>9, XEndSteps
<1>10. ASSUME NEW p \in XPages, ClearRisk(p) PROVE XActing' /\ XShowing' /\ XUnopened'
  <2>1. UNCHANGED <<xLimit, xUi>>
    BY <1>10 DEF ClearRisk, xWorld
  <2> QED
    BY <1>10, <2>1, XClearSteps DEF XTyped, XShowing, xUi
<1>11. ASSUME NEW p \in XPages, NEW r \in XRequests, XLogin(r, p)
       PROVE  XActing' /\ XShowing' /\ XUnopened'
  <2>1. xLimit' = xLimit
    BY <1>11 DEF XLogin, xWorld
  <2> QED
    BY <1>1, <1>11, <2>1, XLoginMoves
<1>12. ASSUME NEW w, XSiteRejects(w) PROVE XActing' /\ XShowing' /\ XUnopened'
  BY <1>2, <1>12 DEF XSiteRejects
<1>13. CASE UNCHANGED xVars
  BY <1>2, <1>13 DEF xVars, xUi
<1> QED
  BY <1>3, <1>4, <1>5, <1>6, <1>7, <1>8, <1>9, <1>10, <1>11, <1>12, <1>13 DEF XhsNext

(* And those of the bounds, the session, the cooldown and the challenge. *)
LEMMA XUsingStep == XTyped /\ [XhsNext]_xVars => XUsing'
<1> SUFFICES ASSUME XTyped, [XhsNext]_xVars PROVE XUsing'
  OBVIOUS
<1> USE DEF XTyped, xWorld
<1>1. CASE XRound
  BY <1>1, XUsedOf, XUsingKeeps DEF XRound
<1>2. CASE XRoundAsks
  <2>1. (XFault \/ UNCHANGED xUsed) /\ UNCHANGED <<xLimit, xAccepted>>
    BY <1>2, XAskOf DEF XRoundAsks, XGoals, XActors
  <2> QED
    BY <2>1, XUsedOf, XUsingKeeps
<1>3. CASE XRoundEnds
  BY <1>3, XUsingKeeps DEF XRoundEnds
<1>4. CASE XGateway
  BY <1>4, XUsingKeeps DEF XGateway
<1>5. CASE XEnsureSession
  BY <1>5, XUsingKeeps DEF XEnsureSession
<1>6. CASE XEnsured
  BY <1>6, XUsingKeeps DEF XEnsured
<1>7. CASE EnsureGuest
  <2>1. (XFault \/ UNCHANGED xUsed) /\ UNCHANGED <<xLimit, xAccepted>>
    BY <1>7 DEF EnsureGuest
  <2> QED
    BY <2>1, XUsedOf, XUsingKeeps
<1>8. CASE XScheduleLogin
  BY <1>8, XUsingKeeps DEF XScheduleLogin
<1>9. CASE XStartUI
  BY <1>9, XUsingKeeps DEF XStartUI
<1>10. CASE XServe
  <2>1. (XFault \/ UNCHANGED xUsed) /\ UNCHANGED <<xLimit, xAccepted>>
    BY <1>10 DEF XServe
  <2> QED
    BY <2>1, XUsedOf, XUsingKeeps
<1>11. CASE XCooldownEnds
  BY <1>11, XUsingKeeps DEF XCooldownEnds
<1>12. CASE XCloseUI
  BY <1>12, XUsingKeeps DEF XCloseUI
<1>13. ASSUME NEW a \in XActors, XProbe(a)
      PROVE  XUsing'
  <2>1. xAct[a].goal \in XGoals
    BY DEF XActing, XActs
  <2>2. (XFault \/ UNCHANGED xUsed) /\ UNCHANGED <<xLimit, xAccepted>>
    BY <1>13, <2>1, XAskOf DEF XProbe
  <2> QED
    BY <2>2, XUsedOf, XUsingKeeps
<1>14. ASSUME NEW a \in XActors, XAnswered(a)
      PROVE  XUsing'
  BY <1>14, XUsingKeeps DEF XAnswered
<1>15. ASSUME NEW a \in XActors, RiskEnds(a)
      PROVE  XUsing'
  BY <1>15, XUsingKeeps DEF RiskEnds
<1>16. ASSUME NEW a \in XActors, XLoginEnds(a)
      PROVE  XUsing'
  BY <1>16, XUsingKeeps DEF XLoginEnds
<1>17. ASSUME NEW f \in XFlows, QrCreate(f)
      PROVE  XUsing'
  BY <1>17, XUsingKeeps DEF QrCreate
<1>18. ASSUME NEW f \in XFlows, XQrTop(f)
      PROVE  XUsing'
  BY <1>18, XUsingKeeps DEF XQrTop
<1>19. ASSUME NEW f \in XFlows, XQrPoll(f)
      PROVE  XUsing'
  BY <1>19, XUsingKeeps DEF XQrPoll
<1>20. ASSUME NEW p \in XPages, XPageEnds(p)
      PROVE  XUsing'
  BY <1>20, XUsingKeeps DEF XPageEnds
<1>21. ASSUME NEW p \in XPages, XPageGone(p)
      PROVE  XUsing'
  BY <1>21, XUsingKeeps DEF XPageGone
<1>22. ASSUME NEW p \in XPages, ClearRisk(p)
      PROVE  XUsing'
  BY <1>22, XUsingKeeps DEF ClearRisk
<1>23. ASSUME NEW p \in XPages, NEW r \in XRequests, XLogin(r, p)
      PROVE  XUsing'
  BY <1>23, XUsedOf, XUsingKeeps DEF XLogin, XServed
<1>24. ASSUME NEW w \in XUsers \cup {Guest}, XSiteRejects(w)
      PROVE  XUsing'
  BY <1>24, XUsedOf, XUsingKeeps DEF XSiteRejects
<1>25. CASE UNCHANGED xVars
  BY <1>25, XUsingKeeps DEF xVars
<1> QED
  BY <1>1, <1>2, <1>3, <1>4, <1>5, <1>6, <1>7, <1>8, <1>9, <1>10, <1>11, <1>12, <1>13, <1>14, <1>15, <1>16, <1>17, <1>18, <1>19, <1>20, <1>21, <1>22, <1>23, <1>24, <1>25 DEF XhsNext, XLoopStep, XRequest

(* Every action keeps the fields of the client. *)
LEMMA XHoldingStep == XTyped /\ [XhsNext]_xVars => XHolding'
<1> SUFFICES ASSUME XTyped, [XhsNext]_xVars PROVE XHolding'
  OBVIOUS
<1> USE DEF XTyped, XHolding, xAuth
<1>1. CASE XRound
  BY <1>1 DEF XRound
<1>2. CASE XRoundAsks
  BY <1>2 DEF XRoundAsks
<1>3. CASE XRoundEnds
  BY <1>3 DEF XRoundEnds
<1>4. CASE XGateway
  BY <1>4 DEF XGateway
<1>5. CASE XEnsureSession
  BY <1>5 DEF XEnsureSession
<1>6. CASE XEnsured
  BY <1>6 DEF XEnsured
<1>7. CASE EnsureGuest
  BY <1>7 DEF EnsureGuest, XWebs, XStatuses, XCopy
<1>8. CASE XScheduleLogin
  BY <1>8 DEF XScheduleLogin
<1>9. CASE XStartUI
  BY <1>9 DEF XStartUI
<1>10. CASE XServe
  BY <1>10 DEF XServe
<1>11. CASE XCooldownEnds
  BY <1>11 DEF XCooldownEnds
<1>12. CASE XCloseUI
  BY <1>12 DEF XCloseUI
<1>13. ASSUME NEW a \in XActors, XProbe(a)
      PROVE  XHolding'
  BY <1>13 DEF XProbe, XMarkInvalid, XWebs, XStatuses
<1>14. ASSUME NEW a \in XActors, XAnswered(a)
      PROVE  XHolding'
  <2>1. xStatus' \in XStatuses /\ xWeb' \in XWebs
    BY <1>14 DEF XAnswered, XMarkInvalid, XWebs, XStatuses
  <2>2. xFile' = xFile \/ xFile' = [web |-> xWeb, status |-> xStatus']
    BY <1>14 DEF XAnswered, XCopy
  <2> QED
    BY <2>1, <2>2
<1>15. ASSUME NEW a \in XActors, RiskEnds(a)
      PROVE  XHolding'
  BY <1>15 DEF RiskEnds
<1>16. ASSUME NEW a \in XActors, XLoginEnds(a)
      PROVE  XHolding'
  BY <1>16 DEF XLoginEnds, XCopy
<1>17. ASSUME NEW f \in XFlows, QrCreate(f)
      PROVE  XHolding'
  BY <1>17 DEF QrCreate
<1>18. ASSUME NEW f \in XFlows, XQrTop(f)
      PROVE  XHolding'
  BY <1>18 DEF XQrTop
<1>19. ASSUME NEW f \in XFlows, XQrPoll(f)
      PROVE  XHolding'
  BY <1>19 DEF XQrPoll, XWebs
<1>20. ASSUME NEW p \in XPages, XPageEnds(p)
      PROVE  XHolding'
  BY <1>20 DEF XPageEnds
<1>21. ASSUME NEW p \in XPages, XPageGone(p)
      PROVE  XHolding'
  BY <1>21 DEF XPageGone
<1>22. ASSUME NEW p \in XPages, ClearRisk(p)
      PROVE  XHolding'
  BY <1>22 DEF ClearRisk
<1>23. ASSUME NEW p \in XPages, NEW r \in XRequests, XLogin(r, p)
      PROVE  XHolding'
  BY <1>23 DEF XLogin, XWebs
<1>24. ASSUME NEW w \in XUsers \cup {Guest}, XSiteRejects(w)
      PROVE  XHolding'
  BY <1>24 DEF XSiteRejects
<1>25. CASE UNCHANGED xVars
  BY <1>25 DEF xVars
<1> QED
  BY <1>1, <1>2, <1>3, <1>4, <1>5, <1>6, <1>7, <1>8, <1>9, <1>10, <1>11, <1>12, <1>13, <1>14, <1>15, <1>16, <1>17, <1>18, <1>19, <1>20, <1>21, <1>22, <1>23, <1>24, <1>25 DEF XhsNext, XLoopStep, XRequest

(* Every action keeps the flags flags. *)
LEMMA XFlaggedStep == XTyped /\ [XhsNext]_xVars => XFlagged'
<1> SUFFICES ASSUME XTyped, [XhsNext]_xVars PROVE XFlagged'
  OBVIOUS
<1> USE DEF XTyped, XFlagged, xGate
<1>1. CASE XRound
  BY <1>1 DEF XRound
<1>2. CASE XRoundAsks
  BY <1>2 DEF XRoundAsks
<1>3. CASE XRoundEnds
  BY <1>3 DEF XRoundEnds
<1>4. CASE XGateway
  BY <1>4 DEF XGateway
<1>5. CASE XEnsureSession
  BY <1>5 DEF XEnsureSession
<1>6. CASE XEnsured
  BY <1>6 DEF XEnsured
<1>7. CASE EnsureGuest
  BY <1>7 DEF EnsureGuest
<1>8. CASE XScheduleLogin
  BY <1>8 DEF XScheduleLogin
<1>9. CASE XStartUI
  BY <1>9 DEF XStartUI
<1>10. CASE XServe
  BY <1>10 DEF XServe
<1>11. CASE XCooldownEnds
  BY <1>11 DEF XCooldownEnds
<1>12. CASE XCloseUI
  <2>1. xCrashed' \in BOOLEAN
    BY <1>12 DEF XCloseUI
  <2> QED
    BY <1>12, <2>1 DEF XCloseUI
<1>13. ASSUME NEW a \in XActors, XProbe(a)
      PROVE  XFlagged'
  BY <1>13 DEF XProbe
<1>14. ASSUME NEW a \in XActors, XAnswered(a)
      PROVE  XFlagged'
  BY <1>14 DEF XAnswered
<1>15. ASSUME NEW a \in XActors, RiskEnds(a)
      PROVE  XFlagged'
  BY <1>15 DEF RiskEnds
<1>16. ASSUME NEW a \in XActors, XLoginEnds(a)
      PROVE  XFlagged'
  BY <1>16 DEF XLoginEnds
<1>17. ASSUME NEW f \in XFlows, QrCreate(f)
      PROVE  XFlagged'
  <2>1. xCrashed' \in BOOLEAN
    BY <1>17 DEF QrCreate
  <2> QED
    BY <1>17, <2>1 DEF QrCreate
<1>18. ASSUME NEW f \in XFlows, XQrTop(f)
      PROVE  XFlagged'
  BY <1>18 DEF XQrTop
<1>19. ASSUME NEW f \in XFlows, XQrPoll(f)
      PROVE  XFlagged'
  BY <1>19 DEF XQrPoll
<1>20. ASSUME NEW p \in XPages, XPageEnds(p)
      PROVE  XFlagged'
  BY <1>20 DEF XPageEnds
<1>21. ASSUME NEW p \in XPages, XPageGone(p)
      PROVE  XFlagged'
  BY <1>21 DEF XPageGone
<1>22. ASSUME NEW p \in XPages, ClearRisk(p)
      PROVE  XFlagged'
  BY <1>22 DEF ClearRisk
<1>23. ASSUME NEW p \in XPages, NEW r \in XRequests, XLogin(r, p)
      PROVE  XFlagged'
  BY <1>23 DEF XLogin
<1>24. ASSUME NEW w \in XUsers \cup {Guest}, XSiteRejects(w)
      PROVE  XFlagged'
  BY <1>24 DEF XSiteRejects
<1>25. CASE UNCHANGED xVars
  BY <1>25 DEF xVars
<1> QED
  BY <1>1, <1>2, <1>3, <1>4, <1>5, <1>6, <1>7, <1>8, <1>9, <1>10, <1>11, <1>12, <1>13, <1>14, <1>15, <1>16, <1>17, <1>18, <1>19, <1>20, <1>21, <1>22, <1>23, <1>24, <1>25 DEF XhsNext, XLoopStep, XRequest

(* Every action keeps the requests that wait. *)
LEMMA XWaitingStep == XTyped /\ [XhsNext]_xVars => XWaiting'
<1> SUFFICES ASSUME XTyped, [XhsNext]_xVars PROVE XWaiting'
  OBVIOUS
<1> USE DEF XTyped, XWaiting, xRisks
<1>1. CASE XRound
  BY <1>1 DEF XRound
<1>2. CASE XRoundAsks
  BY <1>2, XAskOf DEF XRoundAsks, XGoals, XActors
<1>3. CASE XRoundEnds
  BY <1>3 DEF XRoundEnds
<1>4. CASE XGateway
  BY <1>4 DEF XGateway
<1>5. CASE XEnsureSession
  BY <1>5 DEF XEnsureSession
<1>6. CASE XEnsured
  BY <1>6 DEF XEnsured
<1>7. CASE EnsureGuest
  BY <1>7 DEF EnsureGuest
<1>8. CASE XScheduleLogin
  BY <1>8 DEF XScheduleLogin
<1>9. CASE XStartUI
  BY <1>9 DEF XStartUI
<1>10. CASE XServe
  BY <1>10 DEF XServe
<1>11. CASE XCooldownEnds
  BY <1>11 DEF XCooldownEnds
<1>12. CASE XCloseUI
  BY <1>12 DEF XCloseUI
<1>13. ASSUME NEW a \in XActors, XProbe(a)
      PROVE  XWaiting'
  <2>1. xAct[a].goal \in XGoals
    BY DEF XActing, XActs
  <2> QED
    BY <1>13, <2>1, XAskOf DEF XProbe
<1>14. ASSUME NEW a \in XActors, XAnswered(a)
      PROVE  XWaiting'
  BY <1>14 DEF XAnswered
<1>15. ASSUME NEW a \in XActors, RiskEnds(a)
      PROVE  XWaiting'
  BY <1>15 DEF RiskEnds
<1>16. ASSUME NEW a \in XActors, XLoginEnds(a)
      PROVE  XWaiting'
  BY <1>16 DEF XLoginEnds
<1>17. ASSUME NEW f \in XFlows, QrCreate(f)
      PROVE  XWaiting'
  BY <1>17 DEF QrCreate
<1>18. ASSUME NEW f \in XFlows, XQrTop(f)
      PROVE  XWaiting'
  BY <1>18 DEF XQrTop
<1>19. ASSUME NEW f \in XFlows, XQrPoll(f)
      PROVE  XWaiting'
  BY <1>19 DEF XQrPoll
<1>20. ASSUME NEW p \in XPages, XPageEnds(p)
      PROVE  XWaiting'
  BY <1>20 DEF XPageEnds
<1>21. ASSUME NEW p \in XPages, XPageGone(p)
      PROVE  XWaiting'
  BY <1>21 DEF XPageGone
<1>22. ASSUME NEW p \in XPages, ClearRisk(p)
      PROVE  XWaiting'
  BY <1>22, XClearSteps
<1>23. ASSUME NEW p \in XPages, NEW r \in XRequests, XLogin(r, p)
      PROVE  XWaiting'
  BY <1>23 DEF XLogin
<1>24. ASSUME NEW w \in XUsers \cup {Guest}, XSiteRejects(w)
      PROVE  XWaiting'
  BY <1>24 DEF XSiteRejects
<1>25. CASE UNCHANGED xVars
  BY <1>25 DEF xVars
<1> QED
  BY <1>1, <1>2, <1>3, <1>4, <1>5, <1>6, <1>7, <1>8, <1>9, <1>10, <1>11, <1>12, <1>13, <1>14, <1>15, <1>16, <1>17, <1>18, <1>19, <1>20, <1>21, <1>22, <1>23, <1>24, <1>25 DEF XhsNext, XLoopStep, XRequest

(* The variables of the xhs session keep to their values. *)
LEMMA XhsTyped == XhsInit /\ [][XhsNext]_xVars => []XTypeOK
<1>1. XhsInit => XTyped
  <2> SUFFICES ASSUME XhsInit PROVE XTyped
    OBVIOUS
  <2>1. XUsing
    <3>1. xLimit \in XLimits /\ xUsed = [faults |-> 0, reqs |-> 0, rounds |-> 0]
          /\ xAccepted = XUsers \cup {Guest}
      BY DEF XhsInit
    <3>2. xLimit.faults \in Nat /\ xLimit.reqs \in Nat /\ xLimit.rounds \in Nat
      BY <3>1, XhsAssumption
    <3> QED
      BY <3>1, <3>2 DEF XUsing, XUse
  <2>2. XHolding
    BY DEF XhsInit, XHolding, XCopy, XWebs, XStatuses, LoadedStatus
  <2>3. XFlagged /\ XWaiting
    BY DEF XhsInit, XFlagged, XWaiting
  <2>4. XActing /\ (\A a \in XActors \ {XLoop} : xAct[a].pc = "idle") /\ xAct[XLoop].pc = "ensure"
    <3>1. xPages = 0 /\ xAct = [a \in XActors |-> IF a = XLoop THEN [XIdle EXCEPT !.pc = "ensure"] ELSE XIdle]
      BY DEF XhsInit
    <3>2. /\ XIdle \in XActs(0) /\ [XIdle EXCEPT !.pc = "ensure"] \in XActs(0)
          /\ [XIdle EXCEPT !.pc = "ensure"].pc = "ensure"
      BY XIdleOf DEF XPlaces
    <3>4. XIdle.pc = "idle"
      BY DEF XIdle
    <3>3. XLoop \in XActors
      BY DEF XActors
    <3> QED
      BY <3>1, <3>2, <3>3, <3>4 DEF XActing
  <2>5. XShowing
    <3>1. xLimit.pages \in Nat
      BY XhsAssumption DEF XhsInit
    <3> QED
      BY <3>1 DEF XhsInit, XShowing
  <2>6. XUnopened
    BY <2>4 DEF XhsInit, XUnopened
  <2> QED
    BY <2>1, <2>2, <2>3, <2>4, <2>5, <2>6 DEF XTyped
<1>2. XTyped /\ [XhsNext]_xVars => XTyped'
  BY XActingStep, XUsingStep, XHoldingStep, XFlaggedStep, XWaitingStep DEF XTyped
<1>3. XTyped => XTypeOK
  <2> SUFFICES ASSUME XTyped PROVE XTypeOK
    OBVIOUS
  <2>1. {xCooling, xForce, xCrashed} \subseteq BOOLEAN
    BY DEF XTyped, XFlagged
  <2>2. {xActive, xState, xStop} \subseteq 0..xPages /\ {xRisk, xLatest} \subseteq XActors \cup {Nobody}
    BY DEF XTyped, XShowing, XWaiting
  <2> QED
    BY <2>1, <2>2 DEF XTyped, XActing, XUsing, XUse, XHolding, XShowing, XTypeOK, XActs, XPlaces,
       XGoals, XVerdicts
<1> QED
  BY <1>1, <1>2, <1>3, PTL

-----------------------------------------------------------------------------
(* The values of the variables, in parts that a step disturbs together. *)
ZVerdicts == {"ok", "401", "html", "error", "absent", "none"}
ZActs(n) == [pc : ZPcs, page : 0..n, cred : ZCreds \cup {NoCred}, verdict : ZVerdicts,
             write : ZCopies \cup {NoCopy}]
ZBudget == [faults : 0..zLimit.faults, reqs : 0..zLimit.reqs, rounds : 0..zLimit.rounds]
ZWorldOK ==
    /\ zLimit \in ZLimits
    /\ zUsed \in ZBudget
    /\ zAccepted \subseteq ZCreds
    /\ zFile \in ZCopies
    /\ zCred \in ZCreds \cup {NoCred}
    /\ zStatus \in ZStatuses
    /\ zMu \in ZhihuReqs \cup {"free"}
ZFlagsOK == {zCooling, zForce, zOpened, zGuest, zCrashed} \subseteq BOOLEAN
ZActOK == zAct \in [ZActors -> ZActs(zPages)]
ZUiOK ==
    /\ zPages \in 0..zLimit.pages
    /\ zStop = zPages
    /\ {zActive, zState} \subseteq 0..zPages
    /\ zClosed \cup zRisk \subseteq 1..zPages
    /\ zSpawned \subseteq 0..zPages
    /\ zStage \in [ZPages -> ZStages]
    /\ zWatch \in [ZPages -> {"none", "wait", "shutdown", "gone"}]
    /\ zOverlaps \in Nat

(* The page that is served is the active one, which a loop makes only      *)
(* while there is none.  Whoever does something else than the loop does it *)
(* for a page.                                                             *)
ZServed ==
    /\ \A p \in ZPages : zWatch[p] = "wait" => p = zActive
    /\ zAct["loop"].pc = "serve" =>
          zPages > 0 /\ zActive = zPages /\ \A p \in ZPages : zWatch[p] # "wait"
    /\ \A a \in ZActors \ {"loop"} : zAct[a].pc # "idle" => zPages > 0
    /\ zSpawned # {} => zPages > 0
    /\ zLogins > 0 => zPages > 0

(* Without an overlap ui.state is the page that is made, and nobody holds  *)
(* a page that is nil.                                                     *)
ZNotNil ==
    zOverlaps = 0 =>
        /\ zAct["loop"].pc = "serve" =>
              zState = zPages /\ \A p \in ZPages : zWatch[p] # "shutdown"
        /\ 0 \notin zSpawned
        /\ \A a \in ZActors \ {"loop"} : zAct[a].pc # "idle" => zAct[a].page # 0

(* A login that succeeded is about to start its timer, has started it, or  *)
(* has closed a stop channel.                                              *)
Finishing == {a \in ZActors : zAct[a].pc = "finish"}
Closing == IF zClosed = {} THEN 0 ELSE 1
ZCounted ==
    /\ zTimers \in Nat /\ zLogins \in Nat
    /\ IsFiniteSet(Finishing)
    /\ zTimers + Cardinality(Finishing) + Closing <= zLogins

(* The HTML answers since the last success are faults, and so are those    *)
(* that are not read yet.                                                  *)
Shedding == {a \in ZActors : zAct[a].pc = "answer" /\ zAct[a].verdict = "html"}
ZShed ==
    /\ zSheds \in Nat
    /\ IsFiniteSet(Shedding)
    /\ zSheds + Cardinality(Shedding) <= zUsed.faults

(* What the loop knows of the credential it asked about. *)
ZRefused ==
    LET v == zAct["loop"].verdict IN
    /\ zAct["loop"].pc = "answer" /\ v = "401" => zAct["loop"].cred \notin zAccepted
    /\ zAct["loop"].pc = "rejected" =>
          \/ v = "401" /\ zAct["loop"].cred \notin zAccepted
          \/ v = "html" /\ zUsed.faults >= Shed
          \/ v = "absent"

ZInv ==
    /\ ZWorldOK /\ ZFlagsOK /\ ZActOK /\ ZUiOK /\ ZServed /\ ZNotNil /\ ZCounted /\ ZShed
    /\ ZRefused /\ CrashNeedsRace

-----------------------------------------------------------------------------
(* What an actor that goes on, leaves or saves does to where actors are.   *)
Others(a) == \A k \in ZActors \ {a} : zAct'[k] = zAct[k]
Acted(a, places) ==
    \/ Leave(a)
    \/ \E place \in places : Goto(a, place)
    \/ \E place \in places, copy \in ZCopies : GotoSaving(a, place, copy)
Keeps(a) ==
    /\ zAct'[a].page = zAct[a].page
    /\ zAct'[a].verdict = zAct[a].verdict /\ zAct'[a].cred = zAct[a].cred

(* An idle actor has a record of its kind. *)
LEMMA IdleIsAct == ASSUME NEW n \in Nat PROVE Idle \in ZActs(n)
  BY DEF Idle, ZActs, ZPcs, ZVerdicts

(* One actor gets another record, the others keep theirs. *)
LEMMA PutAct ==
    ASSUME ZActOK, zPages \in Nat, NEW a \in ZActors, NEW q \in ZActs(zPages),
           zAct' = [zAct EXCEPT ![a] = q], zPages' = zPages
    PROVE  ZActOK' /\ zAct'[a] = q /\ Others(a)
  BY DEF ZActOK, Others

(* Goto is such a move, and keeps what the actor holds; *)
LEMMA GotoActs ==
    ASSUME ZActOK, zPages \in Nat, NEW a \in ZActors, NEW place \in ZPcs, Goto(a, place),
           zPages' = zPages
    PROVE  ZActOK' /\ zAct'[a].pc = place /\ Keeps(a) /\ Others(a)
  <1> DEFINE q == [zAct[a] EXCEPT !.pc = place]
  <1>1. q \in ZActs(zPages) /\ q.pc = place
        /\ q.page = zAct[a].page /\ q.verdict = zAct[a].verdict /\ q.cred = zAct[a].cred
    BY DEF ZActOK, ZActs
  <1>2. zAct' = [zAct EXCEPT ![a] = q]
    BY DEF Goto
  <1> HIDE DEF q
  <1> QED
    BY <1>1, <1>2, PutAct DEF Keeps

(* so is GotoSaving; *)
LEMMA SavingActs ==
    ASSUME ZActOK, zPages \in Nat, NEW a \in ZActors, NEW place \in ZPcs, NEW copy \in ZCopies,
           GotoSaving(a, place, copy), zPages' = zPages
    PROVE  ZActOK' /\ zAct'[a].pc = place /\ Keeps(a) /\ Others(a)
  <1> DEFINE q == [zAct[a] EXCEPT !.pc = place, !.write = copy]
  <1>1. q \in ZActs(zPages) /\ q.pc = place
        /\ q.page = zAct[a].page /\ q.verdict = zAct[a].verdict /\ q.cred = zAct[a].cred
    BY DEF ZActOK, ZActs
  <1>2. zAct' = [zAct EXCEPT ![a] = q]
    BY DEF GotoSaving
  <1> HIDE DEF q
  <1> QED
    BY <1>1, <1>2, PutAct DEF Keeps

(* one that has acted is idle, or goes on. *)
LEMMA ActedActs ==
    ASSUME ZActOK, zPages \in Nat, NEW a \in ZActors, NEW places, places \subseteq ZPcs,
           Acted(a, places), zPages' = zPages
    PROVE  /\ ZActOK' /\ Others(a)
           /\ zAct'[a] = Idle \/ (zAct'[a].pc \in places /\ Keeps(a))
  <1>1. CASE Leave(a)
    BY <1>1, IdleIsAct, PutAct DEF Leave
  <1>2. CASE \E place \in places : Goto(a, place)
    BY <1>2, GotoActs
  <1>3. CASE \E place \in places, copy \in ZCopies : GotoSaving(a, place, copy)
    BY <1>3, SavingActs
  <1> QED
    BY <1>1, <1>2, <1>3 DEF Acted

(* Counts that stay, where nobody comes to be counted. *)
LEMMA CountStays ==
    ASSUME ZCounted, \A k \in ZActors : zAct'[k].pc = "finish" => zAct[k].pc = "finish",
           UNCHANGED <<zTimers, zLogins, zClosed>>
    PROVE  ZCounted'
  <1>1. Finishing' \subseteq Finishing
    BY DEF Finishing
  <1>2. IsFiniteSet(Finishing') /\ Cardinality(Finishing') <= Cardinality(Finishing)
    BY <1>1, FS_Subset DEF ZCounted
  <1>3. Cardinality(Finishing') \in Nat /\ Cardinality(Finishing) \in Nat /\ Closing \in {0, 1}
        /\ Closing' = Closing
    BY <1>2, FS_CardinalityType DEF ZCounted, Closing
  <1> QED
    BY <1>2, <1>3 DEF ZCounted

(* No actor sheds that did not before. *)
LEMMA ShedStays ==
    ASSUME ZShed, zUsed.faults \in Nat, zUsed'.faults \in Nat, zUsed'.faults >= zUsed.faults,
           \A k \in ZActors : zAct'[k].pc = "answer" /\ zAct'[k].verdict = "html" =>
               zAct[k].pc = "answer" /\ zAct[k].verdict = "html",
           UNCHANGED zSheds
    PROVE  ZShed'
  <1>1. Shedding' \subseteq Shedding
    BY DEF Shedding
  <1>2. IsFiniteSet(Shedding') /\ Cardinality(Shedding') <= Cardinality(Shedding)
    BY <1>1, FS_Subset DEF ZShed
  <1>3. Cardinality(Shedding') \in Nat /\ Cardinality(Shedding) \in Nat
    BY <1>2, FS_CardinalityType DEF ZShed
  <1> QED
    BY <1>2, <1>3 DEF ZShed

(* A step by an actor that is not about to start a timer, and sends nothing*)
(* and reads nothing.                                                      *)
LEMMA ActedCalm ==
    ASSUME ZCounted, ZShed, NEW a \in ZActors, Others(a),
           zAct'[a] = Idle \/ (zAct'[a].pc \notin {"finish", "answer"}),
           UNCHANGED <<zTimers, zLogins, zClosed, zSheds>>,
           zUsed.faults \in Nat, zUsed'.faults \in Nat, zUsed'.faults >= zUsed.faults
    PROVE  ZCounted' /\ ZShed'
  <1>1. /\ \A k \in ZActors : zAct'[k].pc = "finish" => zAct[k].pc = "finish"
        /\ \A k \in ZActors : zAct'[k].pc = "answer" => zAct'[k] = zAct[k]
    BY DEF Others, Idle
  <1> QED
    BY <1>1, CountStays, ShedStays

(* A request puts its verdict into the record of its actor. *)
LEMMA AskActs ==
    ASSUME ZActOK, ZWorldOK, zPages \in Nat, zLimit.faults \in Nat, zLimit.rounds \in Nat,
           NEW a \in ZActors, NEW place \in ZPcs, Ask(a, place),
           place = "feed" => zUsed.rounds < zLimit.rounds, zPages' = zPages, zLimit' = zLimit
    PROVE  /\ ZActOK' /\ Others(a)
           /\ zAct'[a].pc = place /\ zAct'[a].page = zAct[a].page
           /\ (zAct'[a].verdict = "401" => zAct'[a].cred \notin zAccepted)
           /\ (zUsed \in ZBudget)'
           /\ zUsed'.faults >= zUsed.faults
           /\ (zAct'[a].verdict = "html" => zUsed'.faults = zUsed.faults + 1)
  <1>1. PICK v \in {IF zCred \in zAccepted THEN "ok" ELSE "401"}
                   \cup (IF Faulty THEN {"html", "error"} ELSE {}) :
           /\ zAct' = [zAct EXCEPT ![a].pc = place, ![a].cred = zCred, ![a].verdict = v]
           /\ zUsed' = [zUsed EXCEPT !.faults = IF v \in {"html", "error"} THEN @ + 1 ELSE @,
                                     !.rounds = IF place = "feed" THEN @ + 1 ELSE @]
    BY DEF Ask
  <1>2. v \in ZVerdicts /\ (v \in {"html", "error"} => zUsed.faults < zLimit.faults)
        /\ (v = "401" => zCred \notin zAccepted)
    BY DEF ZVerdicts, Faulty
  <1> DEFINE q == [zAct[a] EXCEPT !.pc = place, !.cred = zCred, !.verdict = v]
  <1>3. q \in ZActs(zPages) /\ q.pc = place /\ q.page = zAct[a].page
        /\ q.verdict = v /\ q.cred = zCred
    BY <1>2 DEF ZActOK, ZActs, ZWorldOK
  <1>4. zAct' = [zAct EXCEPT ![a] = q]
    BY <1>1
  <1>5. /\ zUsed'.faults = (IF v \in {"html", "error"} THEN zUsed.faults + 1 ELSE zUsed.faults)
        /\ zUsed'.rounds = (IF place = "feed" THEN zUsed.rounds + 1 ELSE zUsed.rounds)
        /\ zUsed' = [faults |-> zUsed'.faults, reqs |-> zUsed.reqs, rounds |-> zUsed'.rounds]
    BY <1>1 DEF ZWorldOK, ZBudget
  <1>6. /\ zUsed.faults \in 0..zLimit.faults /\ zUsed.rounds \in 0..zLimit.rounds
        /\ zUsed.reqs \in 0..zLimit.reqs
    BY DEF ZWorldOK, ZBudget
  <1>7. zUsed'.faults \in 0..zLimit.faults /\ zUsed'.rounds \in 0..zLimit.rounds
    BY <1>2, <1>5, <1>6
  <1>8. (zUsed \in ZBudget)'
    BY <1>5, <1>6, <1>7 DEF ZBudget
  <1> HIDE DEF q
  <1>9. ZActOK' /\ zAct'[a] = q /\ Others(a)
    BY <1>3, <1>4, PutAct
  <1> QED
    BY <1>2, <1>3, <1>5, <1>6, <1>8, <1>9

(* Who shows a page that is there does not end the process. *)
LEMMA ShowSafe ==
    ASSUME ZNotNil, NEW a \in ZActors \ {"loop"}, zAct[a].pc # "idle", zOverlaps \in Nat,
           zCrashed' => zAct[a].page = 0, zOverlaps' = zOverlaps
    PROVE  CrashNeedsRace'
  BY DEF ZNotNil, CrashNeedsRace

(* Noting a risk check changes the stage of one page. *)
LEMMA SetRiskStage ==
    ASSUME ZUiOK, zPages \in Nat, NEW p \in 0..zPages, SetRisk(p)
    PROVE  zRisk' \subseteq 1..zPages /\ zStage' \in [ZPages -> ZStages]
  <1>1. CASE UNCHANGED page
    BY <1>1 DEF page, ZUiOK
  <1>2. CASE Show(p, "risk") /\ zRisk' = zRisk \cup ({p} \ {0})
    <2>1. {p} \ {0} \subseteq 1..zPages
      OBVIOUS
    <2>2. zStage' = zStage \/ zStage' = [zStage EXCEPT ![p] = "risk"]
      BY <1>2 DEF Show
    <2> QED
      BY <1>2, <2>1, <2>2 DEF ZUiOK, ZStages
  <1> QED
    BY <1>1, <1>2 DEF SetRisk

-----------------------------------------------------------------------------

(* Every action keeps the invariant of the zhihu session. *)
LEMMA ZStep == ZInv /\ [ZhihuNext]_zVars => ZInv'
  <1> SUFFICES ASSUME ZInv, [ZhihuNext]_zVars PROVE ZInv'
    OBVIOUS
  <1>w. ZWorldOK /\ ZFlagsOK /\ ZActOK /\ ZUiOK
    BY DEF ZInv
  <1>i. ZServed /\ ZNotNil /\ ZCounted /\ ZShed /\ ZRefused /\ CrashNeedsRace
    BY DEF ZInv
  <1>l. {zLimit.pages, zLimit.faults, zLimit.reqs, zLimit.rounds} \subseteq Nat
    BY <1>w, ZLimitsAssumption DEF ZWorldOK
  <1>a. /\ "loop" \in ZActors /\ "qr" \in ZActors /\ "qr" # "loop"
        /\ \A r \in ZhihuReqs : r \in ZActors /\ r \notin {"loop", "qr"}
    BY ZActorsAssumption DEF ZActors
  <1>n. zPages \in Nat /\ zUsed.faults \in Nat /\ zOverlaps \in Nat
    BY <1>w, <1>l DEF ZUiOK, ZWorldOK, ZBudget
  <1>1. CASE Round
    <2>1. /\ zAct["loop"].pc = "idle" /\ zPages' = zPages /\ zLimit' = zLimit
          /\ UNCHANGED <<zAccepted, zFile, zCred, zMu, ui, page, zSpawned, zLogins, zSheds>>
          /\ zUsed.rounds < zLimit.rounds
      BY <1>1 DEF Round, At, ui, sess, phone
    <2>m. /\ ZActOK' /\ Others("loop")
          /\ zAct'["loop"].page = zAct["loop"].page
          /\ (zUsed \in ZBudget)' /\ zUsed'.faults >= zUsed.faults
          /\ \/ zAct'["loop"].pc = "feed"
                /\ (zAct'["loop"].verdict = "401" => zAct'["loop"].cred \notin zAccepted)
                /\ (zAct'["loop"].verdict = "html" => zUsed'.faults = zUsed.faults + 1)
             \/ zAct'["loop"].pc = "ensure" 
      <3>2. CASE Goto("loop", "ensure") /\ UNCHANGED zUsed
        <4>0. (zUsed \in ZBudget)' /\ zUsed'.faults >= zUsed.faults
          BY <2>1, <3>2, <1>w, <1>n DEF ZWorldOK, ZBudget
        <4>1. "ensure" \in ZPcs
          BY DEF ZPcs
        <4> QED
          BY <4>0, <4>1, <3>2, <2>1, <1>w, <1>n, <1>a, GotoActs DEF Keeps
      <3>3. CASE Ask("loop", "feed")
        <4>1. "feed" \in ZPcs /\ zLimit.faults \in Nat /\ zLimit.rounds \in Nat
          BY <1>l DEF ZPcs
        <4> HIDE DEF Ask
        <4> QED
          BY <2>1, <3>3, <4>1, <1>w, <1>n, <1>a, AskActs
      <3> QED
        BY <1>1, <3>2, <3>3 DEF Round
    <2> USE DEF Round, At, Goto, Ask, sess, gate, ui, page, phone, NoCopy, Faulty, Copy
    <2>11. ZWorldOK'
      BY <1>1, <2>1, <2>m, <1>w DEF Round, ZWorldOK, ZStatuses, sess
    <2>12. ZFlagsOK'
      BY <1>w, <1>1 DEF ZFlagsOK
    <2>13. ZActOK'
      BY <2>m
    <2>14. ZUiOK'
      BY <1>w, <1>i, <1>1 DEF ZUiOK, ZServed, ZStages
    <2>15. ZServed'
      BY <2>1, <2>m, <1>i, <1>a DEF ZServed, Others, ui
    <2>16. ZNotNil'
      BY <2>1, <2>m, <1>i, <1>a DEF ZNotNil, Others, ui
    <2>17. ZCounted'
      <3>1. \A k \in ZActors : zAct'[k].pc = "finish" => zAct[k].pc = "finish"
        BY <2>m DEF Others
      <3> QED
        BY <2>1, <3>1, <1>i, CountStays DEF ui
    <2>18. ZShed'
      <3>1. \A k \in ZActors : zAct'[k].pc = "answer" /\ zAct'[k].verdict = "html" =>
                zAct[k].pc = "answer" /\ zAct[k].verdict = "html"
        BY <2>m DEF Others
      <3>2. zUsed'.faults \in Nat
        BY <2>m, <2>1, <1>l DEF ZBudget
      <3> QED
        BY <2>1, <2>m, <3>1, <3>2, <1>i, <1>n, ShedStays
    <2>19. ZRefused'
      BY <2>1, <2>m DEF ZRefused
    <2>20. CrashNeedsRace'
      BY <1>i, <1>1 DEF CrashNeedsRace, ZNotNil, ZCounted, ZUiOK
    <2> QED
      BY <2>11, <2>12, <2>13, <2>14, <2>15, <2>16, <2>17, <2>18, <2>19, <2>20 DEF ZInv
  <1>2. CASE HandleRoundErr
    <2>m. Acted("loop", {"ensure"}) /\ zPages' = zPages
      BY <1>2, <1>w DEF Acted, HandleRoundErr, MarkSessionInvalid,
         ZWorldOK, ZCopies, ZStatuses, At, Goto, Leave, GotoSaving, Copy, world, sess, gate, ui,
            page, phone
    <2>n. /\ ZActOK' /\ Others("loop")
          /\ zAct'["loop"] = Idle \/ (zAct'["loop"].pc \in {"ensure"} /\ Keeps("loop"))
      <3>1. {"ensure"} \subseteq ZPcs
        BY DEF ZPcs
      <3> QED
        BY <2>m, <3>1, <1>w, <1>n, <1>a, ActedActs
    <2>c. ZCounted' /\ ZShed'
      <3>1. /\ UNCHANGED <<zTimers, zLogins, zClosed, zSheds>>
            /\ zUsed'.faults \in Nat /\ zUsed'.faults >= zUsed.faults
        BY <1>2, <1>w, <1>n DEF HandleRoundErr, MarkSessionInvalid,
           ZWorldOK, ZBudget, At, Goto, Leave, GotoSaving, Copy, world, sess, gate, ui, page, phone
      <3> QED
        BY <2>n, <3>1, <1>i, <1>n, <1>a, ActedCalm
    <2> USE DEF HandleRoundErr, At, MarkSessionInvalid, Goto, Leave, world, gate, ui,
             page, phone, NoCopy, GotoSaving, Copy, Idle
    <2>11. ZWorldOK'
      BY <1>w, <1>l, <1>a, ZNewAssumption, <1>2 DEF ZWorldOK, ZBudget, ZStatuses, ZCopies
    <2>12. ZFlagsOK'
      BY <1>w, <1>2 DEF ZFlagsOK
    <2>13. ZActOK'
      BY <2>n
    <2>14. ZUiOK'
      BY <1>w, <1>i, <1>2 DEF ZUiOK, ZServed, ZStages
    <2>15. ZServed'
      BY <1>w, <1>i, <1>a, <1>2 DEF ZServed, ZActOK, ZActs, ZUiOK
    <2>16. ZNotNil'
      BY <1>w, <1>i, <1>a, <1>2 DEF ZNotNil, ZServed, ZActOK, ZActs, ZUiOK
    <2>17. ZCounted'
      BY <2>c
    <2>18. ZShed'
      BY <2>c
    <2>19. ZRefused'
      BY <1>w, <1>i, <1>a, <1>2 DEF ZRefused, ZActOK, ZActs, ZUiOK
    <2>20. CrashNeedsRace'
      BY <1>i, <1>2 DEF CrashNeedsRace, ZNotNil, ZCounted, ZUiOK
    <2> QED
      BY <2>11, <2>12, <2>13, <2>14, <2>15, <2>16, <2>17, <2>18, <2>19, <2>20 DEF ZInv
  <1>3. CASE ReloginDue
    <2> USE DEF ReloginDue, At, Goto, world, sess, gate, ui, page, phone, NoCopy, Copy
    <2>11. ZWorldOK'
      BY <1>w, <1>l, <1>a, ZNewAssumption, <1>3 DEF ZWorldOK, ZBudget, ZStatuses, ZCopies
    <2>12. ZFlagsOK'
      BY <1>w, <1>3 DEF ZFlagsOK
    <2>13. ZActOK'
      BY <1>w, <1>a, <1>3 DEF ZActOK, ZActs, ZPcs, ZVerdicts, ZCopies, ZStatuses
    <2>14. ZUiOK'
      BY <1>w, <1>i, <1>3 DEF ZUiOK, ZServed, ZStages
    <2>15. ZServed'
      BY <1>w, <1>i, <1>a, <1>3 DEF ZServed, ZActOK, ZActs, ZUiOK
    <2>16. ZNotNil'
      BY <1>w, <1>i, <1>a, <1>3 DEF ZNotNil, ZServed, ZActOK, ZActs, ZUiOK
    <2>17. ZCounted'
      BY <1>w, <1>i, <1>3 DEF ZCounted, ZActOK, ZActs, ZUiOK, Finishing, Closing
    <2>18. ZShed'
      BY <1>w, <1>i, <1>3 DEF ZShed, ZActOK, ZActs, Shedding, ZWorldOK, ZBudget
    <2>19. ZRefused'
      BY <1>w, <1>i, <1>a, <1>3 DEF ZRefused, ZActOK, ZActs, ZUiOK
    <2>20. CrashNeedsRace'
      BY <1>i, <1>3 DEF CrashNeedsRace, ZNotNil, ZCounted, ZUiOK
    <2> QED
      BY <2>11, <2>12, <2>13, <2>14, <2>15, <2>16, <2>17, <2>18, <2>19, <2>20 DEF ZInv
  <1>4. CASE AuthCheck
    <2> USE DEF AuthCheck, At, Goto, sess, gate, ui, page, phone, NoCopy, Copy
    <2>11. ZWorldOK'
      BY <1>w, <1>l, <1>a, ZNewAssumption, <1>4 DEF ZWorldOK, ZBudget, ZStatuses, ZCopies
    <2>12. ZFlagsOK'
      BY <1>w, <1>4 DEF ZFlagsOK
    <2>13. ZActOK'
      BY <1>w, <1>a, <1>4 DEF ZActOK, ZActs, ZPcs, ZVerdicts, ZCopies, ZStatuses
    <2>14. ZUiOK'
      BY <1>w, <1>i, <1>4 DEF ZUiOK, ZServed, ZStages
    <2>15. ZServed'
      BY <1>w, <1>i, <1>a, <1>4 DEF ZServed, ZActOK, ZActs, ZUiOK
    <2>16. ZNotNil'
      BY <1>w, <1>i, <1>a, <1>4 DEF ZNotNil, ZServed, ZActOK, ZActs, ZUiOK
    <2>17. ZCounted'
      BY <1>w, <1>i, <1>4 DEF ZCounted, ZActOK, ZActs, ZUiOK, Finishing, Closing
    <2>18. ZShed'
      BY <1>w, <1>i, <1>4 DEF ZShed, ZActOK, ZActs, Shedding, ZWorldOK, ZBudget
    <2>19. ZRefused'
      BY <1>w, <1>i, <1>a, <1>4 DEF ZRefused, ZActOK, ZActs, ZUiOK
    <2>20. CrashNeedsRace'
      BY <1>i, <1>4 DEF CrashNeedsRace, ZNotNil, ZCounted, ZUiOK
    <2> QED
      BY <2>11, <2>12, <2>13, <2>14, <2>15, <2>16, <2>17, <2>18, <2>19, <2>20 DEF ZInv
  <1>5. CASE EnsureSession
    <2> USE DEF EnsureSession, At, Goto, world, sess, gate, ui, page, phone, NoCopy,
             Copy
    <2>11. ZWorldOK'
      BY <1>w, <1>l, <1>a, ZNewAssumption, <1>5 DEF ZWorldOK, ZBudget, ZStatuses, ZCopies
    <2>12. ZFlagsOK'
      BY <1>w, <1>5 DEF ZFlagsOK
    <2>13. ZActOK'
      BY <1>w, <1>a, <1>5 DEF ZActOK, ZActs, ZPcs, ZVerdicts, ZCopies, ZStatuses
    <2>14. ZUiOK'
      BY <1>w, <1>i, <1>5 DEF ZUiOK, ZServed, ZStages
    <2>15. ZServed'
      BY <1>w, <1>i, <1>a, <1>5 DEF ZServed, ZActOK, ZActs, ZUiOK
    <2>16. ZNotNil'
      BY <1>w, <1>i, <1>a, <1>5 DEF ZNotNil, ZServed, ZActOK, ZActs, ZUiOK
    <2>17. ZCounted'
      BY <1>w, <1>i, <1>5 DEF ZCounted, ZActOK, ZActs, ZUiOK, Finishing, Closing
    <2>18. ZShed'
      BY <1>w, <1>i, <1>5 DEF ZShed, ZActOK, ZActs, Shedding, ZWorldOK, ZBudget
    <2>19. ZRefused'
      BY <1>w, <1>i, <1>a, <1>5 DEF ZRefused, ZActOK, ZActs, ZUiOK
    <2>20. CrashNeedsRace'
      BY <1>i, <1>5 DEF CrashNeedsRace, ZNotNil, ZCounted, ZUiOK
    <2> QED
      BY <2>11, <2>12, <2>13, <2>14, <2>15, <2>16, <2>17, <2>18, <2>19, <2>20 DEF ZInv
  <1>6. CASE SessionEnsured
    <2>m. Acted("loop", {"schedule"}) /\ zPages' = zPages
      BY <1>6, <1>w DEF Acted, SessionEnsured, MarkSessionInvalid,
         ZWorldOK, ZCopies, ZStatuses, At, Goto, Leave, GotoSaving, Copy, world, sess, gate, ui,
            page, phone
    <2>n. /\ ZActOK' /\ Others("loop")
          /\ zAct'["loop"] = Idle \/ (zAct'["loop"].pc \in {"schedule"} /\ Keeps("loop"))
      <3>1. {"schedule"} \subseteq ZPcs
        BY DEF ZPcs
      <3> QED
        BY <2>m, <3>1, <1>w, <1>n, <1>a, ActedActs
    <2>c. ZCounted' /\ ZShed'
      <3>1. /\ UNCHANGED <<zTimers, zLogins, zClosed, zSheds>>
            /\ zUsed'.faults \in Nat /\ zUsed'.faults >= zUsed.faults
        BY <1>6, <1>w, <1>n DEF SessionEnsured, MarkSessionInvalid,
           ZWorldOK, ZBudget, At, Goto, Leave, GotoSaving, Copy, world, sess, gate, ui, page, phone
      <3> QED
        BY <2>n, <3>1, <1>i, <1>n, <1>a, ActedCalm
    <2> USE DEF SessionEnsured, At, Leave, MarkSessionInvalid, gate, world, ui, page,
             phone, NoCopy, Idle, GotoSaving, Copy
    <2>11. ZWorldOK'
      BY <1>w, <1>l, <1>a, ZNewAssumption, <1>6 DEF ZWorldOK, ZBudget, ZStatuses, ZCopies
    <2>12. ZFlagsOK'
      BY <1>w, <1>6 DEF ZFlagsOK
    <2>13. ZActOK'
      BY <2>n
    <2>14. ZUiOK'
      BY <1>w, <1>i, <1>6 DEF ZUiOK, ZServed, ZStages
    <2>15. ZServed'
      BY <1>w, <1>i, <1>a, <1>6 DEF ZServed, ZActOK, ZActs, ZUiOK
    <2>16. ZNotNil'
      BY <1>w, <1>i, <1>a, <1>6 DEF ZNotNil, ZServed, ZActOK, ZActs, ZUiOK
    <2>17. ZCounted'
      BY <2>c
    <2>18. ZShed'
      BY <2>c
    <2>19. ZRefused'
      BY <1>w, <1>i, <1>a, <1>6 DEF ZRefused, ZActOK, ZActs, ZUiOK
    <2>20. CrashNeedsRace'
      BY <1>i, <1>6 DEF CrashNeedsRace, ZNotNil, ZCounted, ZUiOK
    <2> QED
      BY <2>11, <2>12, <2>13, <2>14, <2>15, <2>16, <2>17, <2>18, <2>19, <2>20 DEF ZInv
  <1>7. CASE ScheduleLogin
    <2>m. Acted("loop", {"startUI"}) /\ zPages' = zPages
      BY <1>7, <1>w DEF Acted, ScheduleLogin,
         ZWorldOK, ZCopies, ZStatuses, At, Goto, Leave, GotoSaving, Copy, world, sess, gate, ui,
            page, phone
    <2>n. /\ ZActOK' /\ Others("loop")
          /\ zAct'["loop"] = Idle \/ (zAct'["loop"].pc \in {"startUI"} /\ Keeps("loop"))
      <3>1. {"startUI"} \subseteq ZPcs
        BY DEF ZPcs
      <3> QED
        BY <2>m, <3>1, <1>w, <1>n, <1>a, ActedActs
    <2>c. ZCounted' /\ ZShed'
      <3>1. /\ UNCHANGED <<zTimers, zLogins, zClosed, zSheds>>
            /\ zUsed'.faults \in Nat /\ zUsed'.faults >= zUsed.faults
        BY <1>7, <1>w, <1>n DEF ScheduleLogin,
           ZWorldOK, ZBudget, At, Goto, Leave, GotoSaving, Copy, world, sess, gate, ui, page, phone
      <3> QED
        BY <2>n, <3>1, <1>i, <1>n, <1>a, ActedCalm
    <2> USE DEF ScheduleLogin, At, Leave, Goto, world, sess, ui, page, phone, NoCopy,
             Idle, Copy
    <2>11. ZWorldOK'
      BY <1>w, <1>l, <1>a, ZNewAssumption, <1>7 DEF ZWorldOK, ZBudget, ZStatuses, ZCopies
    <2>12. ZFlagsOK'
      BY <1>w, <1>7 DEF ZFlagsOK
    <2>13. ZActOK'
      BY <2>n
    <2>14. ZUiOK'
      BY <1>w, <1>i, <1>7 DEF ZUiOK, ZServed, ZStages
    <2>15. ZServed'
      BY <1>w, <1>i, <1>a, <1>7 DEF ZServed, ZActOK, ZActs, ZUiOK
    <2>16. ZNotNil'
      BY <1>w, <1>i, <1>a, <1>7 DEF ZNotNil, ZServed, ZActOK, ZActs, ZUiOK
    <2>17. ZCounted'
      BY <2>c
    <2>18. ZShed'
      BY <2>c
    <2>19. ZRefused'
      BY <1>w, <1>i, <1>a, <1>7 DEF ZRefused, ZActOK, ZActs, ZUiOK
    <2>20. CrashNeedsRace'
      BY <1>i, <1>7 DEF CrashNeedsRace, ZNotNil, ZCounted, ZUiOK
    <2> QED
      BY <2>11, <2>12, <2>13, <2>14, <2>15, <2>16, <2>17, <2>18, <2>19, <2>20 DEF ZInv
  <1>8. CASE StartLoginUI
    <2>1. /\ zAct["loop"].pc = "startUI"
          /\ UNCHANGED <<zClosed, zWatch, zTimers, zLogins, zSpawned, zSheds, zUsed, zLimit, zRisk>>
      BY <1>8 DEF StartLoginUI, At, ui, world, sess
    <2>2. ASSUME UNCHANGED <<ui, zStage>>, Goto("loop", "open")
          PROVE  ZActOK' /\ ZUiOK' /\ ZServed' /\ ZNotNil' /\ ZCounted' /\ ZShed' /\ CrashNeedsRace'
      <3>1. ZActOK' /\ zAct'["loop"].pc = "open" /\ Keeps("loop") /\ Others("loop")
        <4>1. "open" \in ZPcs
          BY DEF ZPcs
        <4> QED
          BY <2>2, <4>1, <1>w, <1>n, <1>a, GotoActs DEF ui
      <3>2. ZUiOK' /\ ZServed' /\ ZNotNil' /\ CrashNeedsRace'
        BY <1>8, <2>1, <2>2, <3>1, <1>w, <1>i, <1>a
           DEF StartLoginUI, ui, ZUiOK, ZServed, ZNotNil, CrashNeedsRace, Others
      <3>3. ZCounted' /\ ZShed'
        BY <2>1, <3>1, <1>i, <1>n, <1>a, ActedCalm
      <3> QED
        BY <3>1, <3>2, <3>3
    <2>3. ASSUME zActive = 0, zPages < zLimit.pages, zPages' = zPages + 1,
                 zActive' = zPages', zState' = zPages', zStop' = zPages',
                 zStage' = [zStage EXCEPT ![zPages'] = "idle"],
                 zOverlaps' = zOverlaps + Cardinality({p \in ZPages : zWatch[p] = "shutdown"}),
                 Goto("loop", "serve")
          PROVE  ZActOK' /\ ZUiOK' /\ ZServed' /\ ZNotNil' /\ ZCounted' /\ ZShed' /\ CrashNeedsRace'
      <3> DEFINE down == {p \in ZPages : zWatch[p] = "shutdown"}
                 q == [zAct["loop"] EXCEPT !.pc = "serve"]
      <3>1. IsFiniteSet(down) /\ Cardinality(down) \in Nat
            /\ (Cardinality(down) = 0 => \A p \in ZPages : zWatch[p] # "shutdown")
        <4>1. IsFiniteSet(ZPages)
          BY ZLimitsAssumption, FS_Interval DEF ZPages
        <4>2. IsFiniteSet(down) /\ Cardinality(down) \in Nat
          BY <4>1, FS_Subset, FS_CardinalityType
        <4>3. Cardinality(down) = 0 => down = {}
          BY <4>2, FS_EmptySet
        <4> QED
          BY <4>2, <4>3
      <3>2. q \in ZActs(zPages') /\ \A r \in ZActs(zPages) : r \in ZActs(zPages')
        BY <1>w, <1>n, <1>a, <2>3 DEF ZActOK, ZActs, ZPcs
      <3>3. zAct' = [zAct EXCEPT !["loop"] = q]
        BY <2>3 DEF Goto
      <3>4. zAct'["loop"].pc = "serve" /\ Others("loop") /\ zAct' \in [ZActors -> ZActs(zPages')]
        BY <3>2, <3>3, <1>w, <1>a DEF ZActOK, Others
      <3>5. ZActOK'
        BY <3>4 DEF ZActOK, ZActs
      <3>6. ZUiOK'
        <4>1. zPages + 1 \in 0..zLimit.pages
          BY <1>l, <1>w, <1>n, <2>3
        <4>2. zOverlaps' \in Nat
          BY <1>n, <2>3, <3>1
        <4>3. zStage' \in [ZPages -> ZStages]
          BY <1>w, <2>3 DEF ZUiOK, ZStages
        <4> QED
          BY <1>w, <1>n, <2>1, <2>3, <4>1, <4>2, <4>3 DEF ZUiOK
      <3>7. ZServed'
        BY <1>i, <1>n, <1>a, <2>1, <2>3, <3>4 DEF ZServed, ZPages, Others
      <3>8. zOverlaps' = 0 => zOverlaps = 0 /\ Cardinality(down) = 0
        BY <1>n, <2>3, <3>1
      <3>9. ZNotNil'
        BY <1>i, <1>n, <1>a, <2>1, <2>3, <3>1, <3>4, <3>8 DEF ZNotNil, Others
      <3>10. ZCounted' /\ ZShed'
        BY <2>1, <3>4, <1>i, <1>n, <1>a, ActedCalm
      <3>11. CrashNeedsRace'
        BY <1>8 DEF StartLoginUI, At, CrashNeedsRace
      <3> QED
        BY <3>5, <3>6, <3>7, <3>9, <3>10, <3>11
    <2>m. ZActOK' /\ ZUiOK' /\ ZServed' /\ ZNotNil' /\ ZCounted' /\ ZShed' /\ CrashNeedsRace'
      BY <1>8, <2>2, <2>3 DEF StartLoginUI
    <2>11. ZWorldOK'
      BY <1>w, <1>l, <1>a, ZNewAssumption, <1>8
         DEF StartLoginUI, At, Goto, ui, world, sess, gate, phone, NoCopy, Copy, ZWorldOK,
             ZBudget, ZStatuses, ZCopies
    <2>12. ZFlagsOK'
      BY <1>w, <1>8
         DEF StartLoginUI, At, Goto, ui, world, sess, gate, phone, NoCopy, Copy, ZFlagsOK
    <2>13. ZActOK'
      BY <2>m
    <2>14. ZUiOK'
      BY <2>m
    <2>15. ZServed'
      BY <2>m
    <2>16. ZNotNil'
      BY <2>m
    <2>17. ZCounted'
      BY <2>m
    <2>18. ZShed'
      BY <2>m
    <2>19. ZRefused'
      BY <1>w, <1>i, <1>a, <1>8
         DEF StartLoginUI, At, Goto, ui, world, sess, gate, phone, NoCopy, Copy, ZRefused,
             ZActOK, ZActs, ZUiOK
    <2>20. CrashNeedsRace'
      BY <2>m
    <2> QED
      BY <2>11, <2>12, <2>13, <2>14, <2>15, <2>16, <2>17, <2>18, <2>19, <2>20 DEF ZInv
  <1>9. CASE Serve
    <2>m. Acted("loop", {"open"}) /\ zPages' = zPages
      BY <1>9, <1>w DEF Acted, Serve, Faulty, Fault,
         ZWorldOK, ZCopies, ZStatuses, At, Goto, Leave, GotoSaving, Copy, world, sess, gate, ui,
            page, phone
    <2>n. /\ ZActOK' /\ Others("loop")
          /\ zAct'["loop"] = Idle \/ (zAct'["loop"].pc \in {"open"} /\ Keeps("loop"))
      <3>1. {"open"} \subseteq ZPcs
        BY DEF ZPcs
      <3> QED
        BY <2>m, <3>1, <1>w, <1>n, <1>a, ActedActs
    <2>c. ZCounted' /\ ZShed'
      <3>1. /\ UNCHANGED <<zTimers, zLogins, zClosed, zSheds>>
            /\ zUsed'.faults \in Nat /\ zUsed'.faults >= zUsed.faults
        BY <1>9, <1>w, <1>n DEF Serve, Faulty, Fault,
           ZWorldOK, ZBudget, At, Goto, Leave, GotoSaving, Copy, world, sess, gate, ui, page, phone
      <3> QED
        BY <2>n, <3>1, <1>i, <1>n, <1>a, ActedCalm
    <2> USE DEF Serve, At, Goto, Faulty, Fault, Leave, sess, gate, phone, NoCopy, Idle,
             Copy, page
    <2>11. ZWorldOK'
      BY <1>w, <1>l, <1>a, ZNewAssumption, <1>9 DEF ZWorldOK, ZBudget, ZStatuses, ZCopies
    <2>12. ZFlagsOK'
      BY <1>w, <1>9 DEF ZFlagsOK
    <2>13. ZActOK'
      BY <2>n
    <2>14. ZUiOK'
      BY <1>w, <1>i, <1>9 DEF ZUiOK, ZServed, ZStages
    <2>15. ZServed'
      BY <1>w, <1>i, <1>a, <1>9 DEF ZServed, ZActOK, ZActs, ZUiOK
    <2>16. ZNotNil'
      BY <1>w, <1>i, <1>a, <1>9 DEF ZNotNil, ZServed, ZActOK, ZActs, ZUiOK
    <2>17. ZCounted'
      BY <2>c
    <2>18. ZShed'
      BY <2>c
    <2>19. ZRefused'
      BY <1>w, <1>i, <1>a, <1>9 DEF ZRefused, ZActOK, ZActs, ZUiOK
    <2>20. CrashNeedsRace'
      BY <1>i, <1>9 DEF CrashNeedsRace, ZNotNil, ZCounted, ZUiOK
    <2> QED
      BY <2>11, <2>12, <2>13, <2>14, <2>15, <2>16, <2>17, <2>18, <2>19, <2>20 DEF ZInv
  <1>10. CASE OpenLoginBrowserOnce
    <2>m. Acted("loop", {}) /\ zPages' = zPages
      BY <1>10, <1>w DEF Acted, OpenLoginBrowserOnce,
         ZWorldOK, ZCopies, ZStatuses, At, Goto, Leave, GotoSaving, Copy, world, sess, gate, ui,
            page, phone
    <2>n. /\ ZActOK' /\ Others("loop")
          /\ zAct'["loop"] = Idle \/ (zAct'["loop"].pc \in {} /\ Keeps("loop"))
      <3>1. {} \subseteq ZPcs
        BY DEF ZPcs
      <3> QED
        BY <2>m, <3>1, <1>w, <1>n, <1>a, ActedActs
    <2>c. ZCounted' /\ ZShed'
      <3>1. /\ UNCHANGED <<zTimers, zLogins, zClosed, zSheds>>
            /\ zUsed'.faults \in Nat /\ zUsed'.faults >= zUsed.faults
        BY <1>10, <1>w, <1>n DEF OpenLoginBrowserOnce,
           ZWorldOK, ZBudget, At, Goto, Leave, GotoSaving, Copy, world, sess, gate, ui, page, phone
      <3> QED
        BY <2>n, <3>1, <1>i, <1>n, <1>a, ActedCalm
    <2> USE DEF OpenLoginBrowserOnce, At, Leave, world, sess, gate, page, phone, NoCopy,
             Idle, Copy
    <2>11. ZWorldOK'
      BY <1>w, <1>l, <1>a, ZNewAssumption, <1>10 DEF ZWorldOK, ZBudget, ZStatuses, ZCopies
    <2>12. ZFlagsOK'
      BY <1>w, <1>10 DEF ZFlagsOK
    <2>13. ZActOK'
      BY <2>n
    <2>14. ZUiOK'
      BY <1>w, <1>i, <1>10 DEF ZUiOK, ZServed, ZStages
    <2>15. ZServed'
      BY <1>w, <1>i, <1>a, <1>10 DEF ZServed, ZActOK, ZActs, ZUiOK
    <2>16. ZNotNil'
      BY <1>w, <1>i, <1>a, <1>10 DEF ZNotNil, ZServed, ZActOK, ZActs, ZUiOK
    <2>17. ZCounted'
      BY <2>c
    <2>18. ZShed'
      BY <2>c
    <2>19. ZRefused'
      BY <1>w, <1>i, <1>a, <1>10 DEF ZRefused, ZActOK, ZActs, ZUiOK
    <2>20. CrashNeedsRace'
      BY <1>i, <1>10 DEF CrashNeedsRace, ZNotNil, ZCounted, ZUiOK
    <2> QED
      BY <2>11, <2>12, <2>13, <2>14, <2>15, <2>16, <2>17, <2>18, <2>19, <2>20 DEF ZInv
  <1>11. CASE QrBegin
    <2>m. Acted("qr", {"probe", "top"}) /\ zPages' = zPages
      BY <1>11, <1>w DEF Acted, QrBegin, SetRisk, Show,
         ZWorldOK, ZCopies, ZStatuses, At, Goto, Leave, GotoSaving, Copy, world, sess, gate, ui,
            page, phone
    <2>n. /\ ZActOK' /\ Others("qr")
          /\ zAct'["qr"] = Idle \/ (zAct'["qr"].pc \in {"probe", "top"} /\ Keeps("qr"))
      <3>1. {"probe", "top"} \subseteq ZPcs
        BY DEF ZPcs
      <3> QED
        BY <2>m, <3>1, <1>w, <1>n, <1>a, ActedActs
    <2>c. ZCounted' /\ ZShed'
      <3>1. /\ UNCHANGED <<zTimers, zLogins, zClosed, zSheds>>
            /\ zUsed'.faults \in Nat /\ zUsed'.faults >= zUsed.faults
        BY <1>11, <1>w, <1>n DEF QrBegin, SetRisk, Show,
           ZWorldOK, ZBudget, At, Goto, Leave, GotoSaving, Copy, world, sess, gate, ui, page, phone
      <3> QED
        BY <2>n, <3>1, <1>i, <1>n, <1>a, ActedCalm
    <2> USE DEF QrBegin, At, Show, page, Leave, SetRisk, Goto, world, sess, gate, ui,
             phone, NoCopy, Idle, Copy
    <2>11. ZWorldOK'
      BY <1>w, <1>l, <1>a, ZNewAssumption, <1>11 DEF ZWorldOK, ZBudget, ZStatuses, ZCopies
    <2>12. ZFlagsOK'
      BY <1>w, <1>11 DEF ZFlagsOK
    <2>13. ZActOK'
      BY <2>n
    <2>14. ZUiOK'
      <3>1. zAct["qr"].page \in 0..zPages
        BY <1>w, <1>a DEF ZActOK, ZActs
      <3>2. zRisk' \subseteq 1..zPages /\ zStage' \in [ZPages -> ZStages]
        <4>1. CASE SetRisk(zAct["qr"].page)
          BY <1>w, <1>n, <3>1, <4>1, SetRiskStage
        <4>2. CASE UNCHANGED page
          BY <1>w, <4>2 DEF ZUiOK, page
        <4>3. CASE /\ UNCHANGED zRisk
                   /\ \E s \in {"failed", "waiting", "scanned"} : Show(zAct["qr"].page, s)
          <5>1. {"failed", "waiting", "scanned"} \subseteq ZStages
            BY DEF ZStages
          <5> QED
            BY <1>w, <4>3, <5>1 DEF ZUiOK, Show
        <4> QED
          BY <1>11, <4>1, <4>2, <4>3 DEF QrBegin
      <3> QED
        BY <1>11, <1>w, <3>2
           DEF QrBegin, ZUiOK, At, Goto, Leave, GotoSaving, Copy, world, sess, gate,
               ui, page, phone
    <2>15. ZServed'
      BY <1>w, <1>i, <1>a, <1>11 DEF ZServed, ZActOK, ZActs, ZUiOK
    <2>16. ZNotNil'
      BY <1>w, <1>i, <1>a, <1>11 DEF ZNotNil, ZServed, ZActOK, ZActs, ZUiOK
    <2>17. ZCounted'
      BY <2>c
    <2>18. ZShed'
      BY <2>c
    <2>19. ZRefused'
      BY <1>w, <1>i, <1>a, <1>11 DEF ZRefused, ZActOK, ZActs, ZUiOK
    <2>20. CrashNeedsRace'
      <3>1. /\ zAct["qr"].pc # "idle" /\ "qr" \in ZActors \ {"loop"} /\ zOverlaps' = zOverlaps
            /\ zCrashed' => zAct["qr"].page = 0
        BY <1>11, <1>w, <1>a
           DEF QrBegin, SetRisk, Show, ZFlagsOK, At, Goto, Leave, GotoSaving, Copy,
               world, sess, gate, ui, page, phone
      <3> QED
        BY <3>1, <1>i, <1>n, ShowSafe
    <2> QED
      BY <2>11, <2>12, <2>13, <2>14, <2>15, <2>16, <2>17, <2>18, <2>19, <2>20 DEF ZInv
  <1>12. CASE QrTop
    <2>m. Acted("qr", {"ask"}) /\ zPages' = zPages
      BY <1>12, <1>w DEF Acted, QrTop, Show,
         ZWorldOK, ZCopies, ZStatuses, At, Goto, Leave, GotoSaving, Copy, world, sess, gate, ui,
            page, phone
    <2>n. /\ ZActOK' /\ Others("qr")
          /\ zAct'["qr"] = Idle \/ (zAct'["qr"].pc \in {"ask"} /\ Keeps("qr"))
      <3>1. {"ask"} \subseteq ZPcs
        BY DEF ZPcs
      <3> QED
        BY <2>m, <3>1, <1>w, <1>n, <1>a, ActedActs
    <2>c. ZCounted' /\ ZShed'
      <3>1. /\ UNCHANGED <<zTimers, zLogins, zClosed, zSheds>>
            /\ zUsed'.faults \in Nat /\ zUsed'.faults >= zUsed.faults
        BY <1>12, <1>w, <1>n DEF QrTop, Show,
           ZWorldOK, ZBudget, At, Goto, Leave, GotoSaving, Copy, world, sess, gate, ui, page, phone
      <3> QED
        BY <2>n, <3>1, <1>i, <1>n, <1>a, ActedCalm
    <2> USE DEF QrTop, At, Leave, page, Goto, Show, world, sess, gate, ui, phone,
             NoCopy, Idle, Copy
    <2>11. ZWorldOK'
      BY <1>w, <1>l, <1>a, ZNewAssumption, <1>12 DEF ZWorldOK, ZBudget, ZStatuses, ZCopies
    <2>12. ZFlagsOK'
      BY <1>w, <1>12 DEF ZFlagsOK
    <2>13. ZActOK'
      BY <2>n
    <2>14. ZUiOK'
      BY <1>w, <1>i, <1>12 DEF ZUiOK, ZServed, ZStages
    <2>15. ZServed'
      BY <1>w, <1>i, <1>a, <1>12 DEF ZServed, ZActOK, ZActs, ZUiOK
    <2>16. ZNotNil'
      BY <1>w, <1>i, <1>a, <1>12 DEF ZNotNil, ZServed, ZActOK, ZActs, ZUiOK
    <2>17. ZCounted'
      BY <2>c
    <2>18. ZShed'
      BY <2>c
    <2>19. ZRefused'
      BY <1>w, <1>i, <1>a, <1>12 DEF ZRefused, ZActOK, ZActs, ZUiOK
    <2>20. CrashNeedsRace'
      <3>1. /\ zAct["qr"].pc # "idle" /\ "qr" \in ZActors \ {"loop"} /\ zOverlaps' = zOverlaps
            /\ zCrashed' => zAct["qr"].page = 0
        BY <1>12, <1>w, <1>a
           DEF QrTop, Show, ZFlagsOK, At, Goto, Leave, GotoSaving, Copy, world, sess,
               gate, ui, page, phone
      <3> QED
        BY <3>1, <1>i, <1>n, ShowSafe
    <2> QED
      BY <2>11, <2>12, <2>13, <2>14, <2>15, <2>16, <2>17, <2>18, <2>19, <2>20 DEF ZInv
  <1>13. CASE QrPoll
    <2>m. Acted("qr", {"top", "probe"}) /\ zPages' = zPages
      BY <1>13, <1>w DEF Acted, QrPoll, SetRisk, Show,
         ZWorldOK, ZCopies, ZStatuses, At, Goto, Leave, GotoSaving, Copy, world, sess, gate, ui,
            page, phone
    <2>n. /\ ZActOK' /\ Others("qr")
          /\ zAct'["qr"] = Idle \/ (zAct'["qr"].pc \in {"top", "probe"} /\ Keeps("qr"))
      <3>1. {"top", "probe"} \subseteq ZPcs
        BY DEF ZPcs
      <3> QED
        BY <2>m, <3>1, <1>w, <1>n, <1>a, ActedActs
    <2>c. ZCounted' /\ ZShed'
      <3>1. /\ UNCHANGED <<zTimers, zLogins, zClosed, zSheds>>
            /\ zUsed'.faults \in Nat /\ zUsed'.faults >= zUsed.faults
        BY <1>13, <1>w, <1>n DEF QrPoll, SetRisk, Show,
           ZWorldOK, ZBudget, At, Goto, Leave, GotoSaving, Copy, world, sess, gate, ui, page, phone
      <3> QED
        BY <2>n, <3>1, <1>i, <1>n, <1>a, ActedCalm
    <2> USE DEF QrPoll, At, Goto, page, SetRisk, Show, Leave, world, gate, ui, phone,
             NoCopy, Idle, Copy
    <2>11. ZWorldOK'
      BY <1>w, <1>l, <1>a, ZNewAssumption, <1>13 DEF ZWorldOK, ZBudget, ZStatuses, ZCopies
    <2>12. ZFlagsOK'
      BY <1>w, <1>13 DEF ZFlagsOK
    <2>13. ZActOK'
      BY <2>n
    <2>14. ZUiOK'
      <3>1. zAct["qr"].page \in 0..zPages
        BY <1>w, <1>a DEF ZActOK, ZActs
      <3>2. zRisk' \subseteq 1..zPages /\ zStage' \in [ZPages -> ZStages]
        <4>1. CASE SetRisk(zAct["qr"].page)
          BY <1>w, <1>n, <3>1, <4>1, SetRiskStage
        <4>2. CASE UNCHANGED page
          BY <1>w, <4>2 DEF ZUiOK, page
        <4>3. CASE /\ UNCHANGED zRisk
                   /\ \E s \in {"failed", "waiting", "scanned"} : Show(zAct["qr"].page, s)
          <5>1. {"failed", "waiting", "scanned"} \subseteq ZStages
            BY DEF ZStages
          <5> QED
            BY <1>w, <4>3, <5>1 DEF ZUiOK, Show
        <4> QED
          BY <1>13, <4>1, <4>2, <4>3 DEF QrPoll
      <3> QED
        BY <1>13, <1>w, <3>2
           DEF QrPoll, ZUiOK, At, Goto, Leave, GotoSaving, Copy, world, sess, gate,
               ui, page, phone
    <2>15. ZServed'
      BY <1>w, <1>i, <1>a, <1>13 DEF ZServed, ZActOK, ZActs, ZUiOK
    <2>16. ZNotNil'
      BY <1>w, <1>i, <1>a, <1>13 DEF ZNotNil, ZServed, ZActOK, ZActs, ZUiOK
    <2>17. ZCounted'
      BY <2>c
    <2>18. ZShed'
      BY <2>c
    <2>19. ZRefused'
      BY <1>w, <1>i, <1>a, <1>13 DEF ZRefused, ZActOK, ZActs, ZUiOK
    <2>20. CrashNeedsRace'
      <3>1. /\ zAct["qr"].pc # "idle" /\ "qr" \in ZActors \ {"loop"} /\ zOverlaps' = zOverlaps
            /\ zCrashed' => zAct["qr"].page = 0
        BY <1>13, <1>w, <1>a
           DEF QrPoll, SetRisk, Show, ZFlagsOK, At, Goto, Leave, GotoSaving, Copy,
               world, sess, gate, ui, page, phone
      <3> QED
        BY <3>1, <1>i, <1>n, ShowSafe
    <2> QED
      BY <2>11, <2>12, <2>13, <2>14, <2>15, <2>16, <2>17, <2>18, <2>19, <2>20 DEF ZInv
  <1>14. CASE CooldownEnds
    <2> USE DEF CooldownEnds, world, sess, ui, page, phone
    <2>11. ZWorldOK'
      BY <1>w, <1>l, <1>a, ZNewAssumption, <1>14 DEF ZWorldOK, ZBudget, ZStatuses, ZCopies
    <2>12. ZFlagsOK'
      BY <1>w, <1>14 DEF ZFlagsOK
    <2>13. ZActOK'
      BY <1>w, <1>a, <1>14 DEF ZActOK, ZActs, ZPcs, ZVerdicts, ZCopies, ZStatuses
    <2>14. ZUiOK'
      BY <1>w, <1>i, <1>14 DEF ZUiOK, ZServed, ZStages
    <2>15. ZServed'
      BY <1>w, <1>i, <1>a, <1>14 DEF ZServed, ZActOK, ZActs, ZUiOK
    <2>16. ZNotNil'
      BY <1>w, <1>i, <1>a, <1>14 DEF ZNotNil, ZServed, ZActOK, ZActs, ZUiOK
    <2>17. ZCounted'
      BY <1>w, <1>i, <1>14 DEF ZCounted, ZActOK, ZActs, ZUiOK, Finishing, Closing
    <2>18. ZShed'
      BY <1>w, <1>i, <1>14 DEF ZShed, ZActOK, ZActs, Shedding, ZWorldOK, ZBudget
    <2>19. ZRefused'
      BY <1>w, <1>i, <1>a, <1>14 DEF ZRefused, ZActOK, ZActs, ZUiOK
    <2>20. CrashNeedsRace'
      BY <1>i, <1>14 DEF CrashNeedsRace, ZNotNil, ZCounted, ZUiOK
    <2> QED
      BY <2>11, <2>12, <2>13, <2>14, <2>15, <2>16, <2>17, <2>18, <2>19, <2>20 DEF ZInv
  <1>15. CASE CloseUI
    <2>m. /\ zTimers > 0 /\ zTimers <= zLogins - Closing /\ zLogins > 0 /\ zPages > 0
          /\ Cardinality(Finishing) \in Nat
      <3>1. Cardinality(Finishing) \in Nat /\ Closing \in {0, 1} /\ zTimers > 0
        BY <1>15, <1>i, FS_CardinalityType DEF ZCounted, Closing, CloseUI
      <3> QED
        BY <1>i, <3>1 DEF ZCounted, ZServed
    <2> USE DEF CloseUI, world, sess, gate, phone
    <2>11. ZWorldOK'
      BY <1>w, <1>l, <1>a, ZNewAssumption, <1>15 DEF ZWorldOK, ZBudget, ZStatuses, ZCopies
    <2>12. ZFlagsOK'
      BY <1>w, <1>15 DEF ZFlagsOK
    <2>13. ZActOK'
      BY <1>w, <1>a, <1>15 DEF ZActOK, ZActs, ZPcs, ZVerdicts, ZCopies, ZStatuses
    <2>14. ZUiOK'
      <3>1. zStop \in 1..zPages
        BY <1>w, <1>n, <2>m DEF ZUiOK
      <3> QED
        BY <1>15, <1>w, <3>1 DEF CloseUI, ZUiOK, world
    <2>15. ZServed'
      BY <1>w, <1>i, <1>a, <1>15 DEF ZServed, ZActOK, ZActs, ZUiOK
    <2>16. ZNotNil'
      BY <1>w, <1>i, <1>a, <1>15 DEF ZNotNil, ZServed, ZActOK, ZActs, ZUiOK
    <2>17. ZCounted'
      <3>1. UNCHANGED <<Finishing, zLogins>> /\ zTimers' = zTimers - 1 /\ Closing' = 1
        BY <1>15 DEF CloseUI, Finishing, Closing
      <3>2. Closing \in {0, 1}
        BY DEF Closing
      <3> QED
        BY <1>i, <2>m, <3>1, <3>2 DEF ZCounted
    <2>18. ZShed'
      BY <1>w, <1>i, <1>15 DEF ZShed, ZActOK, ZActs, Shedding, ZWorldOK, ZBudget
    <2>19. ZRefused'
      BY <1>w, <1>i, <1>a, <1>15 DEF ZRefused, ZActOK, ZActs, ZUiOK
    <2>20. CrashNeedsRace'
      <3>1. zCrashed' => Closing = 1
        BY <1>15 DEF CloseUI, Closing
      <3>2. zLogins \in Nat /\ zTimers \in Nat /\ zLogins' = zLogins
        BY <1>15, <1>i DEF CloseUI, ZCounted
      <3> QED
        BY <2>m, <3>1, <3>2 DEF CrashNeedsRace
    <2> QED
      BY <2>11, <2>12, <2>13, <2>14, <2>15, <2>16, <2>17, <2>18, <2>19, <2>20 DEF ZInv
  <1>16. ASSUME NEW a \in ZActors, WriteFile(a) PROVE ZInv'
    <2> USE DEF WriteFile, NoCopy, world, sess, gate, ui, page, phone, Copy
    <2>11. ZWorldOK'
      <3>1. zAct[a].write \in ZCopies
        BY <1>16, <1>w DEF WriteFile, ZActOK, ZActs
      <3> QED
        BY <1>16, <1>w, <3>1 DEF WriteFile, ZWorldOK, ZBudget, world, sess, phone
    <2>12. ZFlagsOK'
      BY <1>w, <1>16 DEF ZFlagsOK
    <2>13. ZActOK'
      BY <1>w, <1>a, <1>16 DEF ZActOK, ZActs, ZPcs, ZVerdicts, ZCopies, ZStatuses
    <2>14. ZUiOK'
      BY <1>w, <1>i, <1>16 DEF ZUiOK, ZServed, ZStages
    <2>15. ZServed'
      BY <1>w, <1>i, <1>a, <1>16 DEF ZServed, ZActOK, ZActs, ZUiOK
    <2>16. ZNotNil'
      BY <1>w, <1>i, <1>a, <1>16 DEF ZNotNil, ZServed, ZActOK, ZActs, ZUiOK
    <2>17. ZCounted'
      BY <1>w, <1>i, <1>16 DEF ZCounted, ZActOK, ZActs, ZUiOK, Finishing, Closing
    <2>18. ZShed'
      BY <1>w, <1>i, <1>16 DEF ZShed, ZActOK, ZActs, Shedding, ZWorldOK, ZBudget
    <2>19. ZRefused'
      BY <1>w, <1>i, <1>a, <1>16 DEF ZRefused, ZActOK, ZActs, ZUiOK
    <2>20. CrashNeedsRace'
      BY <1>i, <1>16 DEF CrashNeedsRace, ZNotNil, ZCounted, ZUiOK
    <2> QED
      BY <2>11, <2>12, <2>13, <2>14, <2>15, <2>16, <2>17, <2>18, <2>19, <2>20 DEF ZInv
  <1>17. ASSUME NEW a \in ZActors, ProbeSession(a) PROVE ZInv'
    <2>1. /\ zAct[a].pc = "probe" /\ zPages' = zPages /\ zLimit' = zLimit
          /\ UNCHANGED <<zAccepted, zFile, zCred, zMu, ui, page, zSpawned, zLogins, zSheds>>

      BY <1>17 DEF ProbeSession, At, ui, sess, phone
    <2>m. /\ ZActOK' /\ Others(a)
          /\ zAct'[a].page = zAct[a].page
          /\ (zUsed \in ZBudget)' /\ zUsed'.faults >= zUsed.faults
          /\ \/ zAct'[a].pc = "answer"
                /\ (zAct'[a].verdict = "401" => zAct'[a].cred \notin zAccepted)
                /\ (zAct'[a].verdict = "html" => zUsed'.faults = zUsed.faults + 1)
             \/ zAct'[a].pc = "rejected" /\ zAct'[a].verdict = "absent"
      <3>2. CASE /\ zAct' = [zAct EXCEPT ![a].pc = "rejected", ![a].verdict = "absent",
                                        ![a].write = Copy(NoCred, "invalid")]
                  /\ UNCHANGED zUsed
        <4>0. (zUsed \in ZBudget)' /\ zUsed'.faults >= zUsed.faults
          BY <2>1, <3>2, <1>w, <1>n DEF ZWorldOK, ZBudget
        <4> DEFINE q == [zAct[a] EXCEPT !.pc = "rejected", !.verdict = "absent",
                                       !.write = Copy(NoCred, "invalid")]
        <4>1. q \in ZActs(zPages) /\ q.pc = "rejected" /\ q.page = zAct[a].page
              /\ q.verdict = "absent"
          BY <1>w DEF ZActOK, ZActs, ZPcs, ZVerdicts, ZCopies, ZStatuses, Copy
        <4>2. zAct' = [zAct EXCEPT ![a] = q]
          BY <3>2
        <4> HIDE DEF q
        <4>3. ZActOK' /\ zAct'[a] = q /\ Others(a)
          BY <4>1, <4>2, <1>w, <1>n, <2>1, PutAct
        <4> QED
          BY <4>0, <4>1, <4>3
      <3>3. CASE Ask(a, "answer")
        <4>1. "answer" \in ZPcs /\ zLimit.faults \in Nat /\ zLimit.rounds \in Nat
          BY <1>l DEF ZPcs
        <4> HIDE DEF Ask
        <4> QED
          BY <2>1, <3>3, <4>1, <1>w, <1>n, <1>a, AskActs
      <3> QED
        BY <1>17, <3>2, <3>3 DEF ProbeSession
    <2> USE DEF ProbeSession, At, Copy, Ask, gate, ui, page, phone, NoCopy, Faulty
    <2>11. ZWorldOK'
      BY <1>17, <2>1, <2>m, <1>w DEF ProbeSession, ZWorldOK, ZStatuses, sess
    <2>12. ZFlagsOK'
      BY <1>w, <1>17 DEF ZFlagsOK
    <2>13. ZActOK'
      BY <2>m
    <2>14. ZUiOK'
      BY <1>w, <1>i, <1>17 DEF ZUiOK, ZServed, ZStages
    <2>15. ZServed'
      BY <2>1, <2>m, <1>i, <1>a DEF ZServed, Others, ui
    <2>16. ZNotNil'
      BY <2>1, <2>m, <1>i, <1>a DEF ZNotNil, Others, ui
    <2>17. ZCounted'
      <3>1. \A k \in ZActors : zAct'[k].pc = "finish" => zAct[k].pc = "finish"
        BY <2>m DEF Others
      <3> QED
        BY <2>1, <3>1, <1>i, CountStays DEF ui
    <2>18. ZShed'
      <3>1. zUsed'.faults \in Nat
        BY <2>m, <2>1, <1>l DEF ZBudget
      <3>2. CASE zAct'[a].pc = "answer" /\ zAct'[a].verdict = "html"
        <4>1. Shedding' = Shedding \cup {a} /\ a \notin Shedding
          BY <2>1, <2>m, <3>2 DEF Shedding, Others
        <4>2. IsFiniteSet(Shedding') /\ Cardinality(Shedding') = Cardinality(Shedding) + 1
          BY <1>i, <4>1, FS_AddElement DEF ZShed
        <4>3. Cardinality(Shedding) \in Nat /\ zUsed'.faults = zUsed.faults + 1
          BY <1>i, <2>m, <3>2, FS_CardinalityType DEF ZShed
        <4> QED
          BY <1>i, <1>n, <2>1, <4>2, <4>3 DEF ZShed
      <3>3. CASE ~(zAct'[a].pc = "answer" /\ zAct'[a].verdict = "html")
        <4>1. \A k \in ZActors : zAct'[k].pc = "answer" /\ zAct'[k].verdict = "html" =>
                  zAct[k].pc = "answer" /\ zAct[k].verdict = "html"
          BY <2>m, <3>3 DEF Others
        <4> QED
          BY <2>1, <2>m, <3>1, <4>1, <1>i, <1>n, ShedStays
      <3> QED
        BY <3>2, <3>3
    <2>19. ZRefused'
      <3>1. CASE a = "loop"
        BY <3>1, <2>1, <2>m DEF ZRefused
      <3>2. CASE a # "loop"
        BY <3>2, <2>1, <2>m, <1>i, <1>a, <1>n DEF ZRefused, Others, ZBudget, Shed
      <3> QED
        BY <3>1, <3>2
    <2>20. CrashNeedsRace'
      BY <1>i, <1>17 DEF CrashNeedsRace, ZNotNil, ZCounted, ZUiOK
    <2> QED
      BY <2>11, <2>12, <2>13, <2>14, <2>15, <2>16, <2>17, <2>18, <2>19, <2>20 DEF ZInv
  <1>18. ASSUME NEW a \in ZActors, SessionAnswered(a) PROVE ZInv'
    <2>m. Acted(a, {"verified", "rejected", "unsure"}) /\ zPages' = zPages
      BY <1>18, <1>w DEF Acted, SessionAnswered, MarkSessionInvalid, Shed,
         ZWorldOK, ZCopies, ZStatuses, At, Goto, Leave, GotoSaving, Copy, world, sess, gate, ui,
            page, phone
    <2>n. /\ ZActOK' /\ Others(a)
          /\ zAct'[a] = Idle \/ (zAct'[a].pc \in {"verified", "rejected", "unsure"} /\ Keeps(a))
      <3>1. {"verified", "rejected", "unsure"} \subseteq ZPcs
        BY DEF ZPcs
      <3> QED
        BY <2>m, <3>1, <1>w, <1>n, <1>a, ActedActs
    <2> USE DEF SessionAnswered, At, Goto, MarkSessionInvalid, Shed, world, gate, ui,
             page, phone, NoCopy, GotoSaving, Copy
    <2>11. ZWorldOK'
      BY <1>w, <1>l, <1>a, ZNewAssumption, <1>18 DEF ZWorldOK, ZBudget, ZStatuses, ZCopies
    <2>12. ZFlagsOK'
      BY <1>w, <1>18 DEF ZFlagsOK
    <2>13. ZActOK'
      BY <2>n
    <2>14. ZUiOK'
      BY <1>w, <1>i, <1>18 DEF ZUiOK, ZServed, ZStages
    <2>15. ZServed'
      BY <1>w, <1>i, <1>a, <1>18 DEF ZServed, ZActOK, ZActs, ZUiOK
    <2>16. ZNotNil'
      BY <1>w, <1>i, <1>a, <1>18 DEF ZNotNil, ZServed, ZActOK, ZActs, ZUiOK
    <2>17. ZCounted'
      BY <1>w, <1>i, <1>18 DEF ZCounted, ZActOK, ZActs, ZUiOK, Finishing, Closing
    <2>18. ZShed'
      <3>1. zAct[a].pc = "answer" /\ zAct'[a].pc # "answer" /\ UNCHANGED zUsed
        BY <1>18, <2>n DEF SessionAnswered, At, Idle, world
      <3>2. Shedding' = Shedding \ {a}
        BY <2>n, <3>1 DEF Shedding, Others
      <3>3. /\ IsFiniteSet(Shedding') /\ Cardinality(Shedding') \in Nat
            /\ Cardinality(Shedding) \in Nat
        BY <1>i, <3>2, FS_RemoveElement, FS_CardinalityType DEF ZShed
      <3>4. CASE zSheds' = zSheds + 1 /\ zAct[a].verdict = "html"
        <4>1. a \in Shedding
          BY <3>1, <3>4 DEF Shedding
        <4>2. Cardinality(Shedding') = Cardinality(Shedding) - 1
          BY <1>i, <3>2, <4>1, FS_RemoveElement DEF ZShed
        <4> QED
          BY <1>i, <1>n, <3>1, <3>3, <3>4, <4>2 DEF ZShed
      <3>5. CASE zSheds' \in {0, zSheds}
        <4>1. Cardinality(Shedding') <= Cardinality(Shedding)
          BY <1>i, <3>2, FS_Subset DEF ZShed
        <4> QED
          BY <1>i, <1>n, <3>1, <3>3, <3>5, <4>1 DEF ZShed
      <3> QED
        BY <1>18, <3>4, <3>5 DEF SessionAnswered
    <2>19. ZRefused'
      BY <1>w, <1>i, <1>a, <1>18 DEF ZRefused, ZActOK, ZActs, ZUiOK
    <2>20. CrashNeedsRace'
      BY <1>i, <1>18 DEF CrashNeedsRace, ZNotNil, ZCounted, ZUiOK
    <2> QED
      BY <2>11, <2>12, <2>13, <2>14, <2>15, <2>16, <2>17, <2>18, <2>19, <2>20 DEF ZInv
  <1>19. ASSUME NEW a \in ZActors \ {"loop"}, LoginFails(a) PROVE ZInv'
    <2>m. Acted(a, {}) /\ zPages' = zPages
      BY <1>19, <1>w DEF Acted, LoginFails, Show,
         ZWorldOK, ZCopies, ZStatuses, At, Goto, Leave, GotoSaving, Copy, world, sess, gate, ui,
            page, phone
    <2>n. /\ ZActOK' /\ Others(a)
          /\ zAct'[a] = Idle \/ (zAct'[a].pc \in {} /\ Keeps(a))
      <3>1. {} \subseteq ZPcs
        BY DEF ZPcs
      <3> QED
        BY <2>m, <3>1, <1>w, <1>n, <1>a, ActedActs
    <2>c. ZCounted' /\ ZShed'
      <3>1. /\ UNCHANGED <<zTimers, zLogins, zClosed, zSheds>>
            /\ zUsed'.faults \in Nat /\ zUsed'.faults >= zUsed.faults
        BY <1>19, <1>w, <1>n DEF LoginFails, Show,
           ZWorldOK, ZBudget, At, Goto, Leave, GotoSaving, Copy, world, sess, gate, ui, page, phone
      <3> QED
        BY <2>n, <3>1, <1>i, <1>n, <1>a, ActedCalm
    <2> USE DEF LoginFails, At, Show, page, Leave, world, sess, gate, ui, phone, NoCopy,
             Idle, Copy
    <2>11. ZWorldOK'
      BY <1>w, <1>l, <1>a, ZNewAssumption, <1>19 DEF ZWorldOK, ZBudget, ZStatuses, ZCopies
    <2>12. ZFlagsOK'
      BY <1>w, <1>19 DEF ZFlagsOK
    <2>13. ZActOK'
      BY <2>n
    <2>14. ZUiOK'
      BY <1>w, <1>i, <1>19 DEF ZUiOK, ZServed, ZStages
    <2>15. ZServed'
      BY <1>w, <1>i, <1>a, <1>19 DEF ZServed, ZActOK, ZActs, ZUiOK
    <2>16. ZNotNil'
      BY <1>w, <1>i, <1>a, <1>19 DEF ZNotNil, ZServed, ZActOK, ZActs, ZUiOK
    <2>17. ZCounted'
      BY <2>c
    <2>18. ZShed'
      BY <2>c
    <2>19. ZRefused'
      BY <1>w, <1>i, <1>a, <1>19 DEF ZRefused, ZActOK, ZActs, ZUiOK
    <2>20. CrashNeedsRace'
      <3>1. /\ zAct[a].pc # "idle" /\ a \in ZActors \ {"loop"} /\ zOverlaps' = zOverlaps
            /\ zCrashed' => zAct[a].page = 0
        BY <1>19, <1>w, <1>a
           DEF LoginFails, Show, ZFlagsOK, At, Goto, Leave, GotoSaving, Copy, world,
               sess, gate, ui, page, phone
      <3> QED
        BY <3>1, <1>i, <1>n, ShowSafe
    <2> QED
      BY <2>11, <2>12, <2>13, <2>14, <2>15, <2>16, <2>17, <2>18, <2>19, <2>20 DEF ZInv
  <1>20. ASSUME NEW a \in ZActors \ {"loop"}, LoginVerified(a) PROVE ZInv'
    <2>m. Acted(a, {"final"}) /\ zPages' = zPages
      BY <1>20, <1>w DEF Acted, LoginVerified,
         ZWorldOK, ZCopies, ZStatuses, At, Goto, Leave, GotoSaving, Copy, world, sess, gate, ui,
            page, phone
    <2>n. /\ ZActOK' /\ Others(a)
          /\ zAct'[a] = Idle \/ (zAct'[a].pc \in {"final"} /\ Keeps(a))
      <3>1. {"final"} \subseteq ZPcs
        BY DEF ZPcs
      <3> QED
        BY <2>m, <3>1, <1>w, <1>n, <1>a, ActedActs
    <2>c. ZCounted' /\ ZShed'
      <3>1. /\ UNCHANGED <<zTimers, zLogins, zClosed, zSheds>>
            /\ zUsed'.faults \in Nat /\ zUsed'.faults >= zUsed.faults
        BY <1>20, <1>w, <1>n DEF LoginVerified,
           ZWorldOK, ZBudget, At, Goto, Leave, GotoSaving, Copy, world, sess, gate, ui, page, phone
      <3> QED
        BY <2>n, <3>1, <1>i, <1>n, <1>a, ActedCalm
    <2> USE DEF LoginVerified, At, GotoSaving, Copy, world, sess, gate, ui, page, phone,
             NoCopy
    <2>11. ZWorldOK'
      BY <1>w, <1>l, <1>a, ZNewAssumption, <1>20 DEF ZWorldOK, ZBudget, ZStatuses, ZCopies
    <2>12. ZFlagsOK'
      BY <1>w, <1>20 DEF ZFlagsOK
    <2>13. ZActOK'
      BY <2>n
    <2>14. ZUiOK'
      BY <1>w, <1>i, <1>20 DEF ZUiOK, ZServed, ZStages
    <2>15. ZServed'
      BY <1>w, <1>i, <1>a, <1>20 DEF ZServed, ZActOK, ZActs, ZUiOK
    <2>16. ZNotNil'
      BY <1>w, <1>i, <1>a, <1>20 DEF ZNotNil, ZServed, ZActOK, ZActs, ZUiOK
    <2>17. ZCounted'
      BY <2>c
    <2>18. ZShed'
      BY <2>c
    <2>19. ZRefused'
      BY <1>w, <1>i, <1>a, <1>20 DEF ZRefused, ZActOK, ZActs, ZUiOK
    <2>20. CrashNeedsRace'
      BY <1>i, <1>20 DEF CrashNeedsRace, ZNotNil, ZCounted, ZUiOK
    <2> QED
      BY <2>11, <2>12, <2>13, <2>14, <2>15, <2>16, <2>17, <2>18, <2>19, <2>20 DEF ZInv
  <1>21. ASSUME NEW a \in ZActors \ {"loop"}, FinalizeLogin(a) PROVE ZInv'
    <2>m. Acted(a, {"finish"}) /\ zPages' = zPages
      BY <1>21, <1>w DEF Acted, FinalizeLogin, Show,
         ZWorldOK, ZCopies, ZStatuses, At, Goto, Leave, GotoSaving, Copy, world, sess, gate, ui,
            page, phone
    <2>n. /\ ZActOK' /\ Others(a)
          /\ zAct'[a] = Idle \/ (zAct'[a].pc \in {"finish"} /\ Keeps(a))
      <3>1. {"finish"} \subseteq ZPcs
        BY DEF ZPcs
      <3> QED
        BY <2>m, <3>1, <1>w, <1>n, <1>a, ActedActs
    <2> USE DEF FinalizeLogin, At, Show, page, GotoSaving, Copy, world, sess, gate, ui,
             phone, NoCopy
    <2>11. ZWorldOK'
      BY <1>w, <1>l, <1>a, ZNewAssumption, <1>21 DEF ZWorldOK, ZBudget, ZStatuses, ZCopies
    <2>12. ZFlagsOK'
      BY <1>w, <1>21 DEF ZFlagsOK
    <2>13. ZActOK'
      BY <2>n
    <2>14. ZUiOK'
      BY <1>w, <1>i, <1>21 DEF ZUiOK, ZServed, ZStages
    <2>15. ZServed'
      BY <1>w, <1>i, <1>a, <1>21 DEF ZServed, ZActOK, ZActs, ZUiOK
    <2>16. ZNotNil'
      BY <1>w, <1>i, <1>a, <1>21 DEF ZNotNil, ZServed, ZActOK, ZActs, ZUiOK
    <2>17. ZCounted'
      <3>1. zAct'[a].pc = "finish" /\ zAct[a].pc = "final"
        BY <1>21, <2>n, <1>w DEF FinalizeLogin, At, GotoSaving, Idle, ZActOK, ZActs
      <3>2. Finishing' = Finishing \cup {a} /\ a \notin Finishing
        BY <2>n, <3>1 DEF Finishing, Others
      <3>3. IsFiniteSet(Finishing') /\ Cardinality(Finishing') = Cardinality(Finishing) + 1
        BY <1>i, <3>2, FS_AddElement DEF ZCounted
      <3>4. zLogins' = zLogins + 1 /\ UNCHANGED <<zTimers, zClosed>>
        BY <1>21 DEF FinalizeLogin, ui
      <3>5. Cardinality(Finishing) \in Nat
        BY <1>i, FS_CardinalityType DEF ZCounted
      <3> QED
        BY <1>i, <3>3, <3>4, <3>5 DEF ZCounted, Closing
    <2>18. ZShed'
      BY <1>w, <1>i, <1>21 DEF ZShed, ZActOK, ZActs, Shedding, ZWorldOK, ZBudget
    <2>19. ZRefused'
      BY <1>w, <1>i, <1>a, <1>21 DEF ZRefused, ZActOK, ZActs, ZUiOK
    <2>20. CrashNeedsRace'
      <3>1. /\ zAct[a].pc # "idle" /\ a \in ZActors \ {"loop"} /\ zOverlaps' = zOverlaps
            /\ zCrashed' => zAct[a].page = 0
        BY <1>21, <1>w, <1>a
           DEF FinalizeLogin, Show, ZFlagsOK, At, Goto, Leave, GotoSaving, Copy,
               world, sess, gate, ui, page, phone
      <3> QED
        BY <3>1, <1>i, <1>n, ShowSafe
    <2> QED
      BY <2>11, <2>12, <2>13, <2>14, <2>15, <2>16, <2>17, <2>18, <2>19, <2>20 DEF ZInv
  <1>22. ASSUME NEW a \in ZActors \ {"loop"}, LoginDone(a) PROVE ZInv'
    <2>m. Acted(a, {}) /\ zPages' = zPages
      BY <1>22, <1>w DEF Acted, LoginDone,
         ZWorldOK, ZCopies, ZStatuses, At, Goto, Leave, GotoSaving, Copy, world, sess, gate, ui,
            page, phone
    <2>n. /\ ZActOK' /\ Others(a)
          /\ zAct'[a] = Idle \/ (zAct'[a].pc \in {} /\ Keeps(a))
      <3>1. {} \subseteq ZPcs
        BY DEF ZPcs
      <3> QED
        BY <2>m, <3>1, <1>w, <1>n, <1>a, ActedActs
    <2> USE DEF LoginDone, At, Leave, world, sess, page, phone, NoCopy, Idle, Copy
    <2>11. ZWorldOK'
      BY <1>w, <1>l, <1>a, ZNewAssumption, <1>22 DEF ZWorldOK, ZBudget, ZStatuses, ZCopies
    <2>12. ZFlagsOK'
      BY <1>w, <1>22 DEF ZFlagsOK
    <2>13. ZActOK'
      BY <2>n
    <2>14. ZUiOK'
      BY <1>w, <1>i, <1>22 DEF ZUiOK, ZServed, ZStages
    <2>15. ZServed'
      BY <1>w, <1>i, <1>a, <1>22 DEF ZServed, ZActOK, ZActs, ZUiOK
    <2>16. ZNotNil'
      BY <1>w, <1>i, <1>a, <1>22 DEF ZNotNil, ZServed, ZActOK, ZActs, ZUiOK
    <2>17. ZCounted'
      <3>1. zAct'[a].pc = "idle" /\ zAct[a].pc = "finish"
        BY <1>22, <2>n DEF LoginDone, At, Idle
      <3>2. Finishing' = Finishing \ {a} /\ a \in Finishing
        BY <2>n, <3>1 DEF Finishing, Others
      <3>3. IsFiniteSet(Finishing') /\ Cardinality(Finishing') = Cardinality(Finishing) - 1
        BY <1>i, <3>2, FS_RemoveElement DEF ZCounted
      <3>4. zTimers' = zTimers + 1 /\ UNCHANGED <<zLogins, zClosed>>
        BY <1>22 DEF LoginDone
      <3>5. Cardinality(Finishing) \in Nat
        BY <1>i, FS_CardinalityType DEF ZCounted
      <3> QED
        BY <1>i, <3>3, <3>4, <3>5 DEF ZCounted, Closing
    <2>18. ZShed'
      BY <1>w, <1>i, <1>22 DEF ZShed, ZActOK, ZActs, Shedding, ZWorldOK, ZBudget
    <2>19. ZRefused'
      BY <1>w, <1>i, <1>a, <1>22 DEF ZRefused, ZActOK, ZActs, ZUiOK
    <2>20. CrashNeedsRace'
      BY <1>i, <1>22 DEF CrashNeedsRace, ZNotNil, ZCounted, ZUiOK
    <2> QED
      BY <2>11, <2>12, <2>13, <2>14, <2>15, <2>16, <2>17, <2>18, <2>19, <2>20 DEF ZInv
  <1>23. ASSUME NEW p \in ZPages, PageEnds(p) PROVE ZInv'
    <2> USE DEF PageEnds, world, sess, gate, page, phone
    <2>11. ZWorldOK'
      BY <1>w, <1>l, <1>a, ZNewAssumption, <1>23 DEF ZWorldOK, ZBudget, ZStatuses, ZCopies
    <2>12. ZFlagsOK'
      BY <1>w, <1>23 DEF ZFlagsOK
    <2>13. ZActOK'
      BY <1>w, <1>a, <1>23 DEF ZActOK, ZActs, ZPcs, ZVerdicts, ZCopies, ZStatuses
    <2>14. ZUiOK'
      BY <1>w, <1>i, <1>23 DEF ZUiOK, ZServed, ZStages
    <2>15. ZServed'
      BY <1>w, <1>i, <1>a, <1>23 DEF ZServed, ZActOK, ZActs, ZUiOK
    <2>16. ZNotNil'
      BY <1>w, <1>i, <1>a, <1>23 DEF ZNotNil, ZServed, ZActOK, ZActs, ZUiOK
    <2>17. ZCounted'
      BY <1>w, <1>i, <1>23 DEF ZCounted, ZActOK, ZActs, ZUiOK, Finishing, Closing
    <2>18. ZShed'
      BY <1>w, <1>i, <1>23 DEF ZShed, ZActOK, ZActs, Shedding, ZWorldOK, ZBudget
    <2>19. ZRefused'
      BY <1>w, <1>i, <1>a, <1>23 DEF ZRefused, ZActOK, ZActs, ZUiOK
    <2>20. CrashNeedsRace'
      BY <1>i, <1>23 DEF CrashNeedsRace, ZNotNil, ZCounted, ZUiOK
    <2> QED
      BY <2>11, <2>12, <2>13, <2>14, <2>15, <2>16, <2>17, <2>18, <2>19, <2>20 DEF ZInv
  <1>24. ASSUME NEW p \in ZPages, PageGone(p) PROVE ZInv'
    <2> USE DEF PageGone, world, sess, gate, page, phone
    <2>11. ZWorldOK'
      BY <1>w, <1>l, <1>a, ZNewAssumption, <1>24 DEF ZWorldOK, ZBudget, ZStatuses, ZCopies
    <2>12. ZFlagsOK'
      BY <1>w, <1>24 DEF ZFlagsOK
    <2>13. ZActOK'
      BY <1>w, <1>a, <1>24 DEF ZActOK, ZActs, ZPcs, ZVerdicts, ZCopies, ZStatuses
    <2>14. ZUiOK'
      BY <1>w, <1>i, <1>24 DEF ZUiOK, ZServed, ZStages
    <2>15. ZServed'
      BY <1>w, <1>i, <1>a, <1>24 DEF ZServed, ZActOK, ZActs, ZUiOK
    <2>16. ZNotNil'
      BY <1>w, <1>i, <1>a, <1>24 DEF ZNotNil, ZServed, ZActOK, ZActs, ZUiOK
    <2>17. ZCounted'
      BY <1>w, <1>i, <1>24 DEF ZCounted, ZActOK, ZActs, ZUiOK, Finishing, Closing
    <2>18. ZShed'
      BY <1>w, <1>i, <1>24 DEF ZShed, ZActOK, ZActs, Shedding, ZWorldOK, ZBudget
    <2>19. ZRefused'
      BY <1>w, <1>i, <1>a, <1>24 DEF ZRefused, ZActOK, ZActs, ZUiOK
    <2>20. CrashNeedsRace'
      BY <1>i, <1>24 DEF CrashNeedsRace, ZNotNil, ZCounted, ZUiOK
    <2> QED
      BY <2>11, <2>12, <2>13, <2>14, <2>15, <2>16, <2>17, <2>18, <2>19, <2>20 DEF ZInv
  <1>25. ASSUME NEW p \in ZPages, QrStart(p) PROVE ZInv'
    <2>m. /\ p # 0 /\ zPages > 0 /\ p \in 0..zPages /\ zUsed'.faults = zUsed.faults
          /\ UNCHANGED <<ui, zLogins>>
      BY <1>25, <1>i, <1>w, <1>n DEF QrStart, Served, ZServed, ZUiOK, ZPages, ZWorldOK, ZBudget
    <2> USE DEF QrStart, Served, sess, gate, ui, phone
    <2>11. ZWorldOK'
      BY <1>w, <1>l, <1>a, ZNewAssumption, <1>25 DEF ZWorldOK, ZBudget, ZStatuses, ZCopies
    <2>12. ZFlagsOK'
      BY <1>w, <1>25 DEF ZFlagsOK
    <2>13. ZActOK'
      BY <1>w, <1>a, <1>25 DEF ZActOK, ZActs, ZPcs, ZVerdicts, ZCopies, ZStatuses
    <2>14. ZUiOK'
      BY <1>w, <1>i, <1>25 DEF ZUiOK, ZServed, ZStages
    <2>15. ZServed'
      BY <1>25, <2>m, <1>i, <1>a DEF ZServed, QrStart, ui
    <2>16. ZNotNil'
      BY <1>25, <2>m, <1>i, <1>a DEF ZNotNil, QrStart, ui
    <2>17. ZCounted'
      BY <1>w, <1>i, <1>25 DEF ZCounted, ZActOK, ZActs, ZUiOK, Finishing, Closing
    <2>18. ZShed'
      BY <1>w, <1>i, <1>25 DEF ZShed, ZActOK, ZActs, Shedding, ZWorldOK, ZBudget
    <2>19. ZRefused'
      BY <1>w, <1>i, <1>a, <1>25 DEF ZRefused, ZActOK, ZActs, ZUiOK
    <2>20. CrashNeedsRace'
      BY <1>i, <1>25 DEF CrashNeedsRace, ZNotNil, ZCounted, ZUiOK
    <2> QED
      BY <2>11, <2>12, <2>13, <2>14, <2>15, <2>16, <2>17, <2>18, <2>19, <2>20 DEF ZInv
  <1>26. ASSUME NEW p \in zSpawned, QrStarts(p) PROVE ZInv'
    <2>m. UNCHANGED zAct \/ (Others("qr") /\ zAct'["qr"].pc = "begin")
      BY <1>26, <1>w, <1>a DEF QrStarts, Others, ZActOK, ZActs
    <2>c. ZCounted' /\ ZShed'
      <3>1. UNCHANGED <<zTimers, zLogins, zClosed, zSheds, zUsed>>
        BY <1>26 DEF QrStarts, ui, sess, world
      <3>2. CASE UNCHANGED zAct
        BY <3>1, <3>2, <1>i, <1>n, CountStays, ShedStays
      <3>3. CASE Others("qr") /\ zAct'["qr"].pc = "begin"
        BY <3>1, <3>3, <1>i, <1>n, <1>a, ActedCalm
      <3> QED
        BY <2>m, <3>2, <3>3
    <2> USE DEF QrStarts, Idle, page, world, sess, gate, ui, phone, NoCopy, Copy
    <2>11. ZWorldOK'
      BY <1>w, <1>l, <1>a, ZNewAssumption, <1>26 DEF ZWorldOK, ZBudget, ZStatuses, ZCopies
    <2>12. ZFlagsOK'
      BY <1>w, <1>26 DEF ZFlagsOK
    <2>13. ZActOK'
      BY <1>w, <1>a, <1>26 DEF ZActOK, ZActs, ZPcs, ZVerdicts, ZCopies, ZStatuses
    <2>14. ZUiOK'
      BY <1>w, <1>i, <1>26 DEF ZUiOK, ZServed, ZStages
    <2>15. ZServed'
      BY <1>w, <1>i, <1>a, <1>26 DEF ZServed, ZActOK, ZActs, ZUiOK
    <2>16. ZNotNil'
      BY <1>w, <1>i, <1>a, <1>26 DEF ZNotNil, ZServed, ZActOK, ZActs, ZUiOK
    <2>17. ZCounted'
      BY <2>c
    <2>18. ZShed'
      BY <2>c
    <2>19. ZRefused'
      BY <1>w, <1>i, <1>a, <1>26 DEF ZRefused, ZActOK, ZActs, ZUiOK
    <2>20. CrashNeedsRace'
      BY <1>i, <1>26 DEF CrashNeedsRace, ZNotNil, ZCounted, ZUiOK
    <2> QED
      BY <2>11, <2>12, <2>13, <2>14, <2>15, <2>16, <2>17, <2>18, <2>19, <2>20 DEF ZInv
  <1>27. ASSUME NEW c \in ZCreds, SiteRejects(c) PROVE ZInv'
    <2>m. zUsed'.faults \in Nat /\ zUsed'.faults >= zUsed.faults /\ UNCHANGED <<zAct, zSheds>>
      BY <1>27, <1>w, <1>n DEF SiteRejects, Fault, ZWorldOK, ZBudget, sess
    <2> USE DEF SiteRejects, Faulty, Fault, sess, gate, ui, page, phone
    <2>11. ZWorldOK'
      BY <1>w, <1>l, <1>a, ZNewAssumption, <1>27 DEF ZWorldOK, ZBudget, ZStatuses, ZCopies
    <2>12. ZFlagsOK'
      BY <1>w, <1>27 DEF ZFlagsOK
    <2>13. ZActOK'
      BY <1>w, <1>a, <1>27 DEF ZActOK, ZActs, ZPcs, ZVerdicts, ZCopies, ZStatuses
    <2>14. ZUiOK'
      BY <1>w, <1>i, <1>27 DEF ZUiOK, ZServed, ZStages
    <2>15. ZServed'
      BY <1>w, <1>i, <1>a, <1>27 DEF ZServed, ZActOK, ZActs, ZUiOK
    <2>16. ZNotNil'
      BY <1>w, <1>i, <1>a, <1>27 DEF ZNotNil, ZServed, ZActOK, ZActs, ZUiOK
    <2>17. ZCounted'
      BY <1>w, <1>i, <1>27 DEF ZCounted, ZActOK, ZActs, ZUiOK, Finishing, Closing
    <2>18. ZShed'
      BY <2>m, <1>i, <1>n, ShedStays
    <2>19. ZRefused'
      BY <1>27, <2>m, <1>i, <1>n DEF SiteRejects, ZRefused, Shed
    <2>20. CrashNeedsRace'
      BY <1>i, <1>27 DEF CrashNeedsRace, ZNotNil, ZCounted, ZUiOK
    <2> QED
      BY <2>11, <2>12, <2>13, <2>14, <2>15, <2>16, <2>17, <2>18, <2>19, <2>20 DEF ZInv
  <1>28. ASSUME NEW r \in ZhihuReqs, PhoneLock(r) PROVE ZInv'
    <2>m. Acted(r, {"send", "solve", "sign"}) /\ zPages' = zPages
      BY <1>28, <1>w DEF Acted, PhoneLock,
         ZWorldOK, ZCopies, ZStatuses, At, Goto, Leave, GotoSaving, Copy, world, sess, gate, ui,
            page, phone
    <2>n. /\ ZActOK' /\ Others(r)
          /\ zAct'[r] = Idle \/ (zAct'[r].pc \in {"send", "solve", "sign"} /\ Keeps(r))
      <3>1. {"send", "solve", "sign"} \subseteq ZPcs
        BY DEF ZPcs
      <3> QED
        BY <2>m, <3>1, <1>w, <1>n, <1>a, ActedActs
    <2>c. ZCounted' /\ ZShed'
      <3>1. /\ UNCHANGED <<zTimers, zLogins, zClosed, zSheds>>
            /\ zUsed'.faults \in Nat /\ zUsed'.faults >= zUsed.faults
        BY <1>28, <1>w, <1>n DEF PhoneLock,
           ZWorldOK, ZBudget, At, Goto, Leave, GotoSaving, Copy, world, sess, gate, ui, page, phone
      <3> QED
        BY <2>n, <3>1, <1>i, <1>n, <1>a, ActedCalm
    <2> USE DEF PhoneLock, At, phone, Goto, world, sess, gate, ui, page, NoCopy, Copy
    <2>11. ZWorldOK'
      BY <1>w, <1>l, <1>a, ZNewAssumption, <1>28 DEF ZWorldOK, ZBudget, ZStatuses, ZCopies
    <2>12. ZFlagsOK'
      BY <1>w, <1>28 DEF ZFlagsOK
    <2>13. ZActOK'
      BY <2>n
    <2>14. ZUiOK'
      BY <1>w, <1>i, <1>28 DEF ZUiOK, ZServed, ZStages
    <2>15. ZServed'
      BY <1>w, <1>i, <1>a, <1>28 DEF ZServed, ZActOK, ZActs, ZUiOK
    <2>16. ZNotNil'
      BY <1>w, <1>i, <1>a, <1>28 DEF ZNotNil, ZServed, ZActOK, ZActs, ZUiOK
    <2>17. ZCounted'
      BY <2>c
    <2>18. ZShed'
      BY <2>c
    <2>19. ZRefused'
      BY <1>w, <1>i, <1>a, <1>28 DEF ZRefused, ZActOK, ZActs, ZUiOK
    <2>20. CrashNeedsRace'
      BY <1>i, <1>28 DEF CrashNeedsRace, ZNotNil, ZCounted, ZUiOK
    <2> QED
      BY <2>11, <2>12, <2>13, <2>14, <2>15, <2>16, <2>17, <2>18, <2>19, <2>20 DEF ZInv
  <1>29. ASSUME NEW r \in ZhihuReqs, SendDigits(r) PROVE ZInv'
    <2>m. Acted(r, {}) /\ zPages' = zPages
      BY <1>29, <1>w DEF Acted, SendDigits, Show,
         ZWorldOK, ZCopies, ZStatuses, At, Goto, Leave, GotoSaving, Copy, world, sess, gate, ui,
            page, phone
    <2>n. /\ ZActOK' /\ Others(r)
          /\ zAct'[r] = Idle \/ (zAct'[r].pc \in {} /\ Keeps(r))
      <3>1. {} \subseteq ZPcs
        BY DEF ZPcs
      <3> QED
        BY <2>m, <3>1, <1>w, <1>n, <1>a, ActedActs
    <2>c. ZCounted' /\ ZShed'
      <3>1. /\ UNCHANGED <<zTimers, zLogins, zClosed, zSheds>>
            /\ zUsed'.faults \in Nat /\ zUsed'.faults >= zUsed.faults
        BY <1>29, <1>w, <1>n DEF SendDigits, Show,
           ZWorldOK, ZBudget, At, Goto, Leave, GotoSaving, Copy, world, sess, gate, ui, page, phone
      <3> QED
        BY <2>n, <3>1, <1>i, <1>n, <1>a, ActedCalm
    <2> USE DEF SendDigits, At, page, Show, Leave, world, sess, gate, ui, NoCopy, Idle,
             Copy
    <2>11. ZWorldOK'
      BY <1>w, <1>l, <1>a, ZNewAssumption, <1>29 DEF ZWorldOK, ZBudget, ZStatuses, ZCopies
    <2>12. ZFlagsOK'
      BY <1>w, <1>29 DEF ZFlagsOK
    <2>13. ZActOK'
      BY <2>n
    <2>14. ZUiOK'
      BY <1>w, <1>i, <1>29 DEF ZUiOK, ZServed, ZStages
    <2>15. ZServed'
      BY <1>w, <1>i, <1>a, <1>29 DEF ZServed, ZActOK, ZActs, ZUiOK
    <2>16. ZNotNil'
      BY <1>w, <1>i, <1>a, <1>29 DEF ZNotNil, ZServed, ZActOK, ZActs, ZUiOK
    <2>17. ZCounted'
      BY <2>c
    <2>18. ZShed'
      BY <2>c
    <2>19. ZRefused'
      BY <1>w, <1>i, <1>a, <1>29 DEF ZRefused, ZActOK, ZActs, ZUiOK
    <2>20. CrashNeedsRace'
      <3>1. zAct[r].pc # "idle" /\ r \in ZActors \ {"loop"} /\ zOverlaps' = zOverlaps /\ ~zCrashed
        BY <1>29, <1>a DEF SendDigits, At, ui
      <3>2. UNCHANGED page \/ \E s : Show(zAct[r].page, s)
        BY <1>29 DEF SendDigits
      <3>3. zCrashed' => zAct[r].page = 0
        BY <3>1, <3>2 DEF page, Show
      <3> QED
        BY <3>1, <3>3, <1>i, <1>n, ShowSafe
    <2> QED
      BY <2>11, <2>12, <2>13, <2>14, <2>15, <2>16, <2>17, <2>18, <2>19, <2>20 DEF ZInv
  <1>30. ASSUME NEW r \in ZhihuReqs, PhoneSignIn(r) PROVE ZInv'
    <2>m. Acted(r, {"probe", "rejected"}) /\ zPages' = zPages
      BY <1>30, <1>w DEF Acted, PhoneSignIn,
         ZWorldOK, ZCopies, ZStatuses, At, Goto, Leave, GotoSaving, Copy, world, sess, gate, ui,
            page, phone
    <2>n. /\ ZActOK' /\ Others(r)
          /\ zAct'[r] = Idle \/ (zAct'[r].pc \in {"probe", "rejected"} /\ Keeps(r))
      <3>1. {"probe", "rejected"} \subseteq ZPcs
        BY DEF ZPcs
      <3> QED
        BY <2>m, <3>1, <1>w, <1>n, <1>a, ActedActs
    <2>c. ZCounted' /\ ZShed'
      <3>1. /\ UNCHANGED <<zTimers, zLogins, zClosed, zSheds>>
            /\ zUsed'.faults \in Nat /\ zUsed'.faults >= zUsed.faults
        BY <1>30, <1>w, <1>n DEF PhoneSignIn,
           ZWorldOK, ZBudget, At, Goto, Leave, GotoSaving, Copy, world, sess, gate, ui, page, phone
      <3> QED
        BY <2>n, <3>1, <1>i, <1>n, <1>a, ActedCalm
    <2> USE DEF PhoneSignIn, At, Goto, GotoSaving, Copy, world, gate, ui, page, NoCopy
    <2>11. ZWorldOK'
      BY <1>w, <1>l, <1>a, ZNewAssumption, <1>30 DEF ZWorldOK, ZBudget, ZStatuses, ZCopies
    <2>12. ZFlagsOK'
      BY <1>w, <1>30 DEF ZFlagsOK
    <2>13. ZActOK'
      BY <2>n
    <2>14. ZUiOK'
      BY <1>w, <1>i, <1>30 DEF ZUiOK, ZServed, ZStages
    <2>15. ZServed'
      BY <1>w, <1>i, <1>a, <1>30 DEF ZServed, ZActOK, ZActs, ZUiOK
    <2>16. ZNotNil'
      BY <1>w, <1>i, <1>a, <1>30 DEF ZNotNil, ZServed, ZActOK, ZActs, ZUiOK
    <2>17. ZCounted'
      BY <2>c
    <2>18. ZShed'
      BY <2>c
    <2>19. ZRefused'
      BY <1>w, <1>i, <1>a, <1>30 DEF ZRefused, ZActOK, ZActs, ZUiOK
    <2>20. CrashNeedsRace'
      BY <1>i, <1>30 DEF CrashNeedsRace, ZNotNil, ZCounted, ZUiOK
    <2> QED
      BY <2>11, <2>12, <2>13, <2>14, <2>15, <2>16, <2>17, <2>18, <2>19, <2>20 DEF ZInv
  <1>31. ASSUME NEW r \in ZhihuReqs, SignInFails(r) PROVE ZInv'
    <2> USE DEF SignInFails, At, Goto, world, sess, gate, ui, page, NoCopy, Copy
    <2>11. ZWorldOK'
      BY <1>w, <1>l, <1>a, ZNewAssumption, <1>31 DEF ZWorldOK, ZBudget, ZStatuses, ZCopies
    <2>12. ZFlagsOK'
      BY <1>w, <1>31 DEF ZFlagsOK
    <2>13. ZActOK'
      BY <1>w, <1>a, <1>31 DEF ZActOK, ZActs, ZPcs, ZVerdicts, ZCopies, ZStatuses
    <2>14. ZUiOK'
      BY <1>w, <1>i, <1>31 DEF ZUiOK, ZServed, ZStages
    <2>15. ZServed'
      BY <1>w, <1>i, <1>a, <1>31 DEF ZServed, ZActOK, ZActs, ZUiOK
    <2>16. ZNotNil'
      BY <1>w, <1>i, <1>a, <1>31 DEF ZNotNil, ZServed, ZActOK, ZActs, ZUiOK
    <2>17. ZCounted'
      BY <1>w, <1>i, <1>31 DEF ZCounted, ZActOK, ZActs, ZUiOK, Finishing, Closing
    <2>18. ZShed'
      BY <1>w, <1>i, <1>31 DEF ZShed, ZActOK, ZActs, Shedding, ZWorldOK, ZBudget
    <2>19. ZRefused'
      BY <1>w, <1>i, <1>a, <1>31 DEF ZRefused, ZActOK, ZActs, ZUiOK
    <2>20. CrashNeedsRace'
      BY <1>i, <1>31 DEF CrashNeedsRace, ZNotNil, ZCounted, ZUiOK
    <2> QED
      BY <2>11, <2>12, <2>13, <2>14, <2>15, <2>16, <2>17, <2>18, <2>19, <2>20 DEF ZInv
  <1>32. ASSUME NEW p \in ZPages, NEW r \in ZhihuReqs, CookieLogin(r, p) PROVE ZInv'
    <2>m. /\ p # 0 /\ zPages > 0 /\ p \in 0..zPages /\ zUsed'.faults = zUsed.faults
          /\ UNCHANGED <<ui, zLogins>>
      BY <1>32, <1>i, <1>w, <1>n DEF CookieLogin, Served, ZServed, ZUiOK, ZPages, ZWorldOK, ZBudget
    <2>n. Others(r) /\ zAct'[r].page = p /\ zAct'[r].pc \in {"probe", "phone", "captcha", "verify"}
          /\ zSpawned' = zSpawned /\ zSheds' = zSheds
      BY <1>32, <1>w, <1>a DEF CookieLogin, Others, ZActOK, ZActs, sess
    <2> USE DEF CookieLogin, Served, At, page, gate, ui, phone, NoCopy, Copy
    <2>11. ZWorldOK'
      BY <1>w, <1>l, <1>a, ZNewAssumption, <1>32 DEF ZWorldOK, ZBudget, ZStatuses, ZCopies
    <2>12. ZFlagsOK'
      BY <1>w, <1>32 DEF ZFlagsOK
    <2>13. ZActOK'
      BY <1>w, <1>a, <1>32 DEF ZActOK, ZActs, ZPcs, ZVerdicts, ZCopies, ZStatuses
    <2>14. ZUiOK'
      BY <1>w, <1>i, <1>32 DEF ZUiOK, ZServed, ZStages
    <2>15. ZServed'
      BY <2>m, <2>n, <1>i, <1>a DEF ZServed, Others, ui
    <2>16. ZNotNil'
      BY <2>m, <2>n, <1>i, <1>a DEF ZNotNil, Others, ui
    <2>17. ZCounted'
      BY <2>m, <2>n, <1>i, <1>a, <1>n, ActedCalm DEF ui
    <2>18. ZShed'
      BY <2>m, <2>n, <1>i, <1>a, <1>n, ActedCalm DEF ui
    <2>19. ZRefused'
      BY <1>w, <1>i, <1>a, <1>32 DEF ZRefused, ZActOK, ZActs, ZUiOK
    <2>20. CrashNeedsRace'
      BY <1>i, <1>32 DEF CrashNeedsRace, ZNotNil, ZCounted, ZUiOK
    <2> QED
      BY <2>11, <2>12, <2>13, <2>14, <2>15, <2>16, <2>17, <2>18, <2>19, <2>20 DEF ZInv
  <1>33. ASSUME NEW p \in ZPages, NEW r \in ZhihuReqs, PhoneRequest(r, p) PROVE ZInv'
    <2>m. /\ p # 0 /\ zPages > 0 /\ p \in 0..zPages /\ zUsed'.faults = zUsed.faults
          /\ UNCHANGED <<ui, zLogins>>
      BY <1>33, <1>i, <1>w, <1>n DEF PhoneRequest, Served, ZServed, ZUiOK, ZPages, ZWorldOK, ZBudget
    <2>n. Others(r) /\ zAct'[r].page = p /\ zAct'[r].pc \in {"probe", "phone", "captcha", "verify"}
          /\ zSpawned' = zSpawned /\ zSheds' = zSheds
      BY <1>33, <1>w, <1>a DEF PhoneRequest, Others, ZActOK, ZActs, sess
    <2> USE DEF PhoneRequest, Served, phone, At, page, sess, gate, ui, NoCopy, Copy
    <2>11. ZWorldOK'
      BY <1>w, <1>l, <1>a, ZNewAssumption, <1>33 DEF ZWorldOK, ZBudget, ZStatuses, ZCopies
    <2>12. ZFlagsOK'
      BY <1>w, <1>33 DEF ZFlagsOK
    <2>13. ZActOK'
      BY <1>w, <1>a, <1>33 DEF ZActOK, ZActs, ZPcs, ZVerdicts, ZCopies, ZStatuses
    <2>14. ZUiOK'
      BY <1>w, <1>i, <1>33 DEF ZUiOK, ZServed, ZStages
    <2>15. ZServed'
      BY <2>m, <2>n, <1>i, <1>a DEF ZServed, Others, ui
    <2>16. ZNotNil'
      BY <2>m, <2>n, <1>i, <1>a DEF ZNotNil, Others, ui
    <2>17. ZCounted'
      BY <2>m, <2>n, <1>i, <1>a, <1>n, ActedCalm DEF ui
    <2>18. ZShed'
      BY <2>m, <2>n, <1>i, <1>a, <1>n, ActedCalm DEF ui
    <2>19. ZRefused'
      BY <1>w, <1>i, <1>a, <1>33 DEF ZRefused, ZActOK, ZActs, ZUiOK
    <2>20. CrashNeedsRace'
      BY <1>i, <1>33 DEF CrashNeedsRace, ZNotNil, ZCounted, ZUiOK
    <2> QED
      BY <2>11, <2>12, <2>13, <2>14, <2>15, <2>16, <2>17, <2>18, <2>19, <2>20 DEF ZInv
  <1>34. CASE UNCHANGED zVars
    <2> USE DEF zVars
    <2>11. ZWorldOK'
      BY <1>w, <1>l, <1>a, ZNewAssumption, <1>34 DEF ZWorldOK, ZBudget, ZStatuses, ZCopies
    <2>12. ZFlagsOK'
      BY <1>w, <1>34 DEF ZFlagsOK
    <2>13. ZActOK'
      BY <1>w, <1>a, <1>34 DEF ZActOK, ZActs, ZPcs, ZVerdicts, ZCopies, ZStatuses
    <2>14. ZUiOK'
      BY <1>w, <1>i, <1>34 DEF ZUiOK, ZServed, ZStages
    <2>15. ZServed'
      BY <1>w, <1>i, <1>a, <1>34 DEF ZServed, ZActOK, ZActs, ZUiOK
    <2>16. ZNotNil'
      BY <1>w, <1>i, <1>a, <1>34 DEF ZNotNil, ZServed, ZActOK, ZActs, ZUiOK
    <2>17. ZCounted'
      BY <1>w, <1>i, <1>34 DEF ZCounted, ZActOK, ZActs, ZUiOK, Finishing, Closing
    <2>18. ZShed'
      BY <1>w, <1>i, <1>34 DEF ZShed, ZActOK, ZActs, Shedding, ZWorldOK, ZBudget
    <2>19. ZRefused'
      BY <1>w, <1>i, <1>a, <1>34 DEF ZRefused, ZActOK, ZActs, ZUiOK
    <2>20. CrashNeedsRace'
      BY <1>i, <1>34 DEF CrashNeedsRace, ZNotNil, ZCounted, ZUiOK
    <2> QED
      BY <2>11, <2>12, <2>13, <2>14, <2>15, <2>16, <2>17, <2>18, <2>19, <2>20 DEF ZInv
  <1> QED
    BY <1>1, <1>2, <1>3, <1>4, <1>5, <1>6, <1>7, <1>8, <1>9, <1>10, <1>11, <1>12, <1>13, <1>14,
       <1>15, <1>16, <1>17, <1>18, <1>19, <1>20, <1>21, <1>22, <1>23, <1>24, <1>25, <1>26,
       <1>27, <1>28, <1>29, <1>30, <1>31, <1>32, <1>33, <1>34
       DEF ZhihuNext, LoopStep, Flow, Probing, Login, UserStep, Request

(* It holds at first. *)
LEMMA ZInit == ZhihuInit => ZInv
  <1> SUFFICES ASSUME ZhihuInit PROVE ZInv
    OBVIOUS
  <1> USE DEF ZhihuInit
  <1>l. {zLimit.pages, zLimit.faults, zLimit.reqs, zLimit.rounds} \subseteq Nat
    BY ZLimitsAssumption
  <1>1. ZWorldOK
    <2>1. zFile \in ZCopies
      BY DEF ZCopies, ZStatuses, Copy
    <2>2. zCred \in ZCreds \cup {NoCred} /\ zStatus \in ZStatuses
      BY <2>1 DEF ZCopies, LoadedCred
    <2>3. zUsed \in ZBudget
      BY <1>l DEF ZBudget
    <2> QED
      BY <2>1, <2>2, <2>3 DEF ZWorldOK
  <1>2. ZFlagsOK
    BY DEF ZFlagsOK
  <1>3. ZActOK
    <2>1. Idle \in ZActs(zPages)
      BY IdleIsAct
    <2>2. [Idle EXCEPT !.pc = "ensure"] \in ZActs(zPages)
      BY <2>1 DEF ZActs, ZPcs
    <2> QED
      BY <2>1, <2>2 DEF ZActOK
  <1>4. ZUiOK
    BY <1>l DEF ZUiOK, ZStages
  <1>5. \A a \in ZActors : zAct[a].pc \in {"idle", "ensure"} /\ (a # "loop" => zAct[a].pc = "idle")
    BY DEF Idle
  <1>6. ZServed /\ ZNotNil /\ ZRefused /\ CrashNeedsRace
    BY <1>5 DEF ZServed, ZNotNil, ZRefused, CrashNeedsRace, ZActors
  <1>7. Finishing = {} /\ Shedding = {} /\ IsFiniteSet({}) /\ Cardinality({}) = 0
    BY <1>5, FS_EmptySet DEF Finishing, Shedding
  <1>8. ZCounted /\ ZShed
    BY <1>7 DEF ZCounted, ZShed, Closing
  <1> QED
    BY <1>1, <1>2, <1>3, <1>4, <1>6, <1>8 DEF ZInv

(* It contains the types. *)
LEMMA ZInvTypes == ZInv => ZTypeOK
  <1> SUFFICES ASSUME ZInv PROVE ZTypeOK
    OBVIOUS
  <1>1. Cardinality(Finishing) \in Nat /\ Closing \in {0, 1}
    BY FS_CardinalityType DEF ZInv, ZCounted, Closing
  <1>2. zTimers \in 0..zLogins /\ {zSheds, zLogins, zOverlaps} \subseteq Nat
    BY <1>1 DEF ZInv, ZCounted, ZShed, ZUiOK
  <1>3. zPages \in Nat
    BY ZLimitsAssumption DEF ZInv, ZWorldOK, ZUiOK
  <1>4. {zActive, zState, zStop} \subseteq 0..zPages
    BY <1>3 DEF ZInv, ZUiOK
  <1> QED
    BY <1>2, <1>4 DEF ZInv, ZTypeOK, ZWorldOK, ZFlagsOK, ZActOK, ZUiOK, ZBudget, ZActs, ZVerdicts

(* The session of zhihu is well typed, for any requests, credentials,      *)
(* pages and limits.                                                       *)
THEOREM ZhihuTypeTheorem == ZhihuSpec => []ZTypeOK
  BY ZInit, ZStep, ZInvTypes, PTL DEF ZhihuSpec

(* The process ends only after two logins or with a page that overlaps     *)
(* another, for any number of requests, pages and QR flows.                *)
THEOREM CrashTheorem == ZhihuSpec => []CrashNeedsRace
  <1>1. ZInv => CrashNeedsRace
    BY DEF ZInv
  <1> QED
    BY <1>1, ZInit, ZStep, PTL DEF ZhihuSpec

(* The loop drops a credential only after a refusal, whatever logins put   *)
(* in its place while the loop asked.                                      *)
THEOREM DropsTheorem == ZhihuSpec => DropsAreRefusals
  <1> DEFINE Justified ==
        zAct["loop"].pc = "rejected" /\ zCred # NoCred /\ zCred' = NoCred =>
            \/ zAct["loop"].verdict = "401" /\ zAct["loop"].cred \notin zAccepted
            \/ zAct["loop"].verdict = "html" /\ zUsed.faults >= Shed
            \/ zAct["loop"].verdict = "absent"
  <1>1. ZInv => Justified
    BY DEF ZInv, ZRefused
  <1>2. ZInv /\ [ZhihuNext]_zVars => [Justified]_zVars
    BY <1>1
  <1> QED
    BY <1>2, ZInit, ZStep, PTL DEF ZhihuSpec, DropsAreRefusals

-----------------------------------------------------------------------------
USE BActorsAssumption, BLimitsAssumption

BPcs == {"idle", "ensure", "load", "refresh", "wait", "rotated", "probe", "answer",
         "failed", "gate", "startUI", "serve", "round", "begin", "top", "ask", "done"}
BGoals == {"none", "ensure", "check", "login", "final"}
BVerdicts == {"none", "ok", "out", "html", "error", "refused", "envelope"}
BActs(n) == [pc : BPcs, goal : BGoals, page : 0..n, verdict : BVerdicts, token : BTokens]
BBudget == [faults : 0..bLimit.faults, reqs : 0..bLimit.reqs,
            rotations : 0..bLimit.rotations, checks : 0..bLimit.checks]

(* What an actor holds, and the pages that were never made. *)
BHeld ==
    /\ bIssued <= bUsed.rotations + 1
    /\ bSpawned \subseteq 1..bPages
    /\ \A p \in BPages : bWatch[p] # "none" => p <= bPages
    /\ \A a \in BiliReqs \cup {"qr"} : bAct[a].pc # "idle" => bAct[a].page \in 1..bPages
    /\ \A l \in BiliLoops : bAct[l].pc = "serve" => bAct[l].page \in 1..bPages
    /\ \A l \in BiliLoops \cup {"check"} : bAct[l].goal \in {"none", "ensure", "check"}
    /\ \A a \in BiliReqs \cup {"qr"} : bAct[a].goal \in {"none", "login", "final"}

(* The types, in parts a step disturbs together. *)
BWorldOK ==
    /\ bLimit \in BLimits /\ bUsed \in BBudget
    /\ bAccepted \subseteq BSessions
    /\ bIssued \in BTokens /\ bToken \in BTokens
    /\ bFile \in BCopies
    /\ bSess \in BSessions \cup {NoSession}
    /\ bStatus \in BStatuses
BFlagsOK == {bLimited, bCooling, bInFlight, bOnce, bKey} \subseteq BOOLEAN
BActOK == bAct \in [BActors -> BActs(bPages)]
BUiOK ==
    /\ bPages \in 0..bLimit.pages
    /\ {bActive, bStop} \cup bSpawned \subseteq 0..bPages
    /\ bCloses \in [BPages -> Nat]
    /\ bWatch \in [BPages -> {"none", "wait", "shutdown", "gone"}]
    /\ bDone \subseteq 1..bPages
    /\ bTimers \in Nat

BTypes == BWorldOK /\ BFlagsOK /\ BActOK /\ BUiOK /\ BHeld

(* The types, and what the actors hold, are BTypes. *)
LEMMA BTypesTypeOK == BTypes <=> BTypeOK /\ BHeld
  BY DEF BTypes, BTypeOK, BWorldOK, BFlagsOK, BActOK, BUiOK, BActs, BPcs, BGoals, BVerdicts, BBudget

(* They hold at first. *)
LEMMA BInitTypes == BiliInit => BTypes
  <1> SUFFICES ASSUME BiliInit PROVE BTypes
    OBVIOUS
  <1>1. /\ bLimit \in BLimits
        /\ {bLimit.pages, bLimit.faults, bLimit.reqs, bLimit.rotations, bLimit.checks}
             \subseteq Nat
    BY DEF BiliInit
  <1>2. BIdle \in BActs(0)
    BY <1>1 DEF BIdle, BActs, BPcs, BGoals, BVerdicts, BTokens
  <1>3. bUsed \in BBudget
    BY <1>1 DEF BiliInit, BBudget
  <1>4. bFile \in BCopies
    BY <1>1 DEF BiliInit, BCopies, BCopy, BTokens, BStatuses
  <1>5. bAct \in [BActors -> BActs(0)]
    BY <1>2 DEF BiliInit
  <1>6. BTypeOK
    <2>1. /\ bLimit \in BLimits /\ bUsed \in BBudget /\ bAccepted \subseteq BSessions
          /\ bIssued \in BTokens /\ bToken \in BTokens /\ bFile \in BCopies
          /\ bSess \in BSessions \cup {NoSession} /\ bStatus \in BStatuses
      BY <1>1, <1>3, <1>4 DEF BiliInit, BTokens, BStatuses
    <2>2. bAct \in [BActors -> BActs(bPages)]
      BY <1>5 DEF BiliInit
    <2>3. {bLimited, bCooling, bInFlight, bOnce, bKey} \subseteq BOOLEAN
      BY DEF BiliInit
    <2>5. bPages \in 0..bLimit.pages
      BY <1>1 DEF BiliInit
    <2>6. {bActive, bStop} \cup bSpawned \subseteq 0..bPages
      BY DEF BiliInit
    <2>4. /\ bCloses \in [BPages -> Nat]
          /\ bWatch \in [BPages -> {"none", "wait", "shutdown", "gone"}]
          /\ bDone \subseteq 1..bPages /\ bTimers \in Nat
      BY DEF BiliInit
    <2> QED
      BY <2>1, <2>2, <2>3, <2>4, <2>5, <2>6 DEF BTypeOK, BBudget, BActs, BPcs, BGoals, BVerdicts
  <1>7. BHeld
    BY <1>1 DEF BiliInit, BHeld, BIdle, BActors
  <1> QED
    BY <1>6, <1>7, BTypesTypeOK
(* Every step keeps what the site was told and what was used up. *)
LEMMA RotateKeeps ==
    ASSUME BTypes, NEW l \in BiliLoops, Rotate(l), bLimit' = bLimit
    PROVE  /\ bUsed' \in BBudget' /\ bIssued' \in BTokens'
           /\ bIssued' <= bUsed'.rotations + 1
  <1> USE DEF BTypes, BWorldOK, BHeld, BTokens, BBudget
  <1>0. {bLimit.pages, bLimit.faults, bLimit.reqs, bLimit.rotations, bLimit.checks} \subseteq Nat
    OBVIOUS
  <1>1. CASE /\ bUsed.rotations < bLimit.rotations /\ bIssued' = bIssued + 1
             /\ bUsed' = [bUsed EXCEPT !.rotations = @ + 1]
    BY <1>0, <1>1
  <1>2. CASE /\ bUsed.rotations < bLimit.rotations /\ bIssued' = bIssued + 1
             /\ bUsed.faults < bLimit.faults
             /\ bUsed' = [bUsed EXCEPT !.rotations = @ + 1, !.faults = @ + 1]
    <2>1. bUsed' = [faults |-> bUsed.faults + 1, reqs |-> bUsed.reqs,
                    rotations |-> bUsed.rotations + 1, checks |-> bUsed.checks]
      BY <1>2
    <2>2. bUsed.faults + 1 \in 0..bLimit.faults /\ bUsed.rotations + 1 \in 0..bLimit.rotations
      BY <1>0, <1>2
    <2> QED
      BY <1>0, <1>2, <2>1, <2>2
  <1>3. CASE BFault /\ UNCHANGED bIssued
    BY <1>0, <1>3 DEF BFault
  <1>4. CASE UNCHANGED <<bUsed, bIssued>>
    BY <1>0, <1>4
  <1> QED
    BY <1>1, <1>2, <1>3, <1>4 DEF Rotate

(* An actor goes on, or a record is put in its place. *)
LEMMA ActMoves ==
    ASSUME NEW n \in Nat, NEW f \in [BActors -> BActs(n)], NEW a \in BActors, NEW place \in BPcs,
           NEW goal \in BGoals, NEW p \in 0..n
    PROVE  /\ [f EXCEPT ![a].pc = place, ![a].goal = goal] \in [BActors -> BActs(n)]
           /\ [f EXCEPT ![a].pc = place, ![a].goal = goal, ![a].page = p] \in [BActors -> BActs(n)]
  <1>1. /\ [f[a] EXCEPT !.pc = place, !.goal = goal] \in BActs(n)
        /\ [f[a] EXCEPT !.pc = place, !.goal = goal, !.page = p] \in BActs(n)
    BY DEF BActs
  <1>2. /\ [f EXCEPT ![a].pc = place, ![a].goal = goal]
             = [f EXCEPT ![a] = [f[a] EXCEPT !.pc = place, !.goal = goal]]
        /\ [f EXCEPT ![a].pc = place, ![a].goal = goal, ![a].page = p]
             = [f EXCEPT ![a] = [f[a] EXCEPT !.pc = place, !.goal = goal, !.page = p]]
    OBVIOUS
  <1> QED
    BY <1>1, <1>2

(* Records of the right kind keep the types of the actors. *)
LEMMA ActKept ==
    ASSUME bAct' \in [BActors -> BActs(bPages)], bPages' = bPages, bLimit' = bLimit PROVE BActOK'
  BY DEF BActOK, BActs, BTokens

(* A loop that does not serve moves, and nothing else. *)
LEMMA HeldKept ==
    ASSUME BHeld, NEW l \in BiliLoops, \A a \in BActors \ {l} : bAct'[a] = bAct[a],
           bAct'[l].pc # "serve", bAct'[l].goal \in {"none", "ensure", "check"},
           UNCHANGED <<bIssued, bUsed, bSpawned, bPages, bWatch>>
    PROVE  BHeld'
  BY BActorsAssumption DEF BHeld, BActors

(* Closing a page counts as one more close. *)
LEMMA CloseOnceCounts ==
    ASSUME bCloses \in [BPages -> Nat], CloseOnce PROVE bCloses' \in [BPages -> Nat]
  <1>1. \A p \in BPages : bCloses[p] + 1 \in Nat
    OBVIOUS
  <1> QED
    BY <1>1 DEF CloseOnce

(* Every step keeps the types, and what the actors hold. *)
LEMMA BStepTypes == BTypes /\ [BiliNext]_bVars => BTypes'
  <1> SUFFICES ASSUME BTypes, [BiliNext]_bVars PROVE BTypes'
    OBVIOUS
  <1> USE DEF BTypes, BIdle, BCopy, BCopies, BTokens, BStatuses, BActors, BActs, BPcs, BGoals,
              BVerdicts, BBudget,
             BAt, BGoto, BEnter, BLeave, bWorld, bAuth, bGates, bUi, bPage, BWorldOK, BFlagsOK,
                BActOK, BUiOK, BHeld
  <1>0. {bLimit.pages, bLimit.faults, bLimit.reqs, bLimit.rotations, bLimit.checks} \subseteq Nat
    OBVIOUS
  <1>1. ASSUME NEW l \in BiliLoops, EnsureBegins(l) PROVE BTypes'
    BY <1>0, <1>1 DEF EnsureBegins
  <1>2. ASSUME NEW l \in BiliLoops, LoadAuth(l) PROVE BTypes'
    <2>1. BWorldOK'
      BY <1>0, <1>2 DEF LoadAuth
    <2>2. BFlagsOK'
      BY <1>0, <1>2 DEF LoadAuth
    <2>3. BActOK'
      BY <1>0, <1>2 DEF LoadAuth
    <2>4. BUiOK'
      BY <1>0, <1>2 DEF LoadAuth
    <2>5. BHeld'
      BY <1>0, <1>2 DEF LoadAuth
    <2> QED
      BY <2>1, <2>2, <2>3, <2>4, <2>5
  <1>3. ASSUME NEW l \in BiliLoops, BRound(l) PROVE BTypes'
    <2>1. BWorldOK'
      BY <1>0, <1>3 DEF BRound, BFault
    <2>2. BFlagsOK'
      BY <1>0, <1>3 DEF BRound, BFault
    <2>3. BActOK'
      BY <1>0, <1>3 DEF BRound, BFault
    <2>4. BUiOK'
      BY <1>0, <1>3 DEF BRound, BFault
    <2>5. BHeld'
      BY <1>0, <1>3 DEF BRound, BFault
    <2> QED
      BY <2>1, <2>2, <2>3, <2>4, <2>5
  <1>4. ASSUME NEW l \in BiliLoops, RefreshBegins(l) PROVE BTypes'
    <2>1. BWorldOK'
      <3>1. CASE Rotate(l)
        BY <1>4, <3>1, RotateKeeps DEF RefreshBegins
      <3>2. CASE UNCHANGED <<bUsed, bIssued>>
        BY <1>4, <3>2 DEF RefreshBegins
      <3> QED
        BY <1>4, <3>1, <3>2 DEF RefreshBegins
    <2>2. BFlagsOK'
      BY <1>0, <1>4 DEF RefreshBegins, Rotate, BFault
    <2>3. BActOK'
      BY <1>0, <1>4 DEF RefreshBegins, Rotate, BFault
    <2>4. BUiOK'
      BY <1>0, <1>4 DEF RefreshBegins, Rotate, BFault
    <2>5. BHeld'
      <3>1. CASE Rotate(l)
        <4>1. bIssued' <= bUsed'.rotations + 1
          BY <1>4, <3>1, RotateKeeps DEF RefreshBegins
        <4>2. /\ \A a \in BActors \ {l} : bAct'[a] = bAct[a]
              /\ bAct'[l].pc = "rotated" /\ bAct'[l].goal = bAct[l].goal
          BY <3>1 DEF Rotate
        <4> QED
          BY <1>4, <4>1, <4>2, BActorsAssumption DEF RefreshBegins
      <3>2. CASE UNCHANGED <<bUsed, bIssued>> /\ bAct'[l].pc \in {"wait", "gate"}
                   /\ \E place \in {"wait", "gate"} : BGoto(l, place)
        BY <1>4, <3>2, BActorsAssumption DEF RefreshBegins
      <3> QED
        BY <1>4, <3>1, <3>2 DEF RefreshBegins
    <2> QED
      BY <2>1, <2>2, <2>3, <2>4, <2>5
  <1>5. ASSUME NEW l \in BiliLoops, RefreshWaited(l) PROVE BTypes'
    <2>1. BWorldOK'
      BY <1>0, <1>5 DEF RefreshWaited
    <2>2. BFlagsOK'
      BY <1>0, <1>5 DEF RefreshWaited
    <2>3. BActOK'
      <3>1. CASE bStatus = "ready"
        <4>1. /\ "probe" \in BPcs /\ "ensure" \in BGoals /\ 0 \in 0..bPages /\ l \in BActors
              /\ bPages \in Nat
              /\ bAct \in [BActors -> BActs(bPages)]
          BY <1>0
        <4> HIDE DEF BTypes, BWorldOK, BFlagsOK, BActOK, BUiOK, BHeld, BActs, BTokens, BIdle,
                    BPcs, BGoals, BActors
        <4>2. [bAct EXCEPT ![l].pc = "probe", ![l].goal = "ensure"] \in [BActors -> BActs(bPages)]
          BY <4>1, ActMoves
        <4>3. bPages' = bPages /\ bLimit' = bLimit
          BY <1>5 DEF RefreshWaited
        <4>4. bAct' \in [BActors -> BActs(bPages)]
          BY <1>5, <3>1, <4>2 DEF RefreshWaited
        <4> QED
          BY <4>3, <4>4, ActKept
      <3>2. CASE bStatus # "ready"
        BY <1>5, <3>2 DEF RefreshWaited
      <3> QED
        BY <3>1, <3>2
    <2>4. BUiOK'
      BY <1>0, <1>5 DEF RefreshWaited
    <2>5. BHeld'
      BY <1>0, <1>5 DEF RefreshWaited
    <2> QED
      BY <2>1, <2>2, <2>3, <2>4, <2>5
  <1>6. ASSUME NEW l \in BiliLoops, RefreshEnds(l) PROVE BTypes'
    <2>1. BWorldOK'
      BY <1>0, <1>6 DEF RefreshEnds, BSetAndSave
    <2>2. BFlagsOK'
      BY <1>0, <1>6 DEF RefreshEnds, BSetAndSave
    <2>3. BActOK'
      <3>1. bAct' = [bAct EXCEPT ![l] = [BIdle EXCEPT !.pc = "probe", !.goal = "ensure"]]
            \/ bAct' = [bAct EXCEPT ![l] = [BIdle EXCEPT !.pc = "gate"]]
        BY <1>6 DEF RefreshEnds
      <3>2. BIdle \in BActs(bPages)
        BY <1>0
      <3>3. [BIdle EXCEPT !.pc = "probe", !.goal = "ensure"] \in BActs(bPages)
        BY <3>2
      <3>4. [BIdle EXCEPT !.pc = "gate"] \in BActs(bPages)
        BY <3>2
      <3>5. PICK r \in BActs(bPages) : bAct' = [bAct EXCEPT ![l] = r]
        BY <3>1, <3>3, <3>4
      <3>6. bAct \in [BActors -> BActs(bPages)] /\ l \in BActors
        OBVIOUS
      <3>7. bPages' = bPages /\ bLimit' = bLimit
        BY <1>6 DEF RefreshEnds
      <3> HIDE DEF BTypes, BWorldOK, BFlagsOK, BActOK, BUiOK, BHeld, BActs, BTokens, BIdle
      <3> QED
        BY <3>5, <3>6, <3>7, ActKept
    <2>4. BUiOK'
      BY <1>0, <1>6 DEF RefreshEnds, BSetAndSave
    <2>5. BHeld'
      <3>1. bAct' = [bAct EXCEPT ![l] = [BIdle EXCEPT !.pc = "probe", !.goal = "ensure"]]
            \/ bAct' = [bAct EXCEPT ![l] = [BIdle EXCEPT !.pc = "gate"]]
        BY <1>6 DEF RefreshEnds
      <3>2. /\ \A a \in BActors \ {l} : bAct'[a] = bAct[a]
            /\ bAct'[l].pc # "serve" /\ bAct'[l].goal \in {"none", "ensure"}
        <4>1. bAct \in [BActors -> BActs(bPages)] /\ l \in BActors
          OBVIOUS
        <4> HIDE DEF BActs, BActOK, BTypes, BHeld
        <4> QED
          BY <3>1, <4>1
      <3>3. BHeld /\ UNCHANGED <<bIssued, bUsed, bSpawned, bPages, bWatch>>
        BY <1>6 DEF RefreshEnds
      <3> HIDE DEF BTypes, BWorldOK, BFlagsOK, BActOK, BUiOK, BHeld, BActs, BTokens, BIdle
      <3> QED
        BY <3>2, <3>3, HeldKept
    <2> QED
      BY <2>1, <2>2, <2>3, <2>4, <2>5
  <1>7. ASSUME NEW l \in BiliLoops, NotConfirmed(l) PROVE BTypes'
    <2>1. BWorldOK'
      BY <1>0, <1>7 DEF NotConfirmed, BSetAndSave
    <2>2. BFlagsOK'
      BY <1>0, <1>7 DEF NotConfirmed, BSetAndSave
    <2>3. BActOK'
      BY <1>0, <1>7 DEF NotConfirmed, BSetAndSave
    <2>4. BUiOK'
      BY <1>0, <1>7 DEF NotConfirmed, BSetAndSave
    <2>5. BHeld'
      BY <1>0, <1>7 DEF NotConfirmed, BSetAndSave
    <2> QED
      BY <2>1, <2>2, <2>3, <2>4, <2>5
  <1>8. ASSUME NEW l \in BiliLoops, LoginGate(l) PROVE BTypes'
    BY <1>0, <1>8 DEF LoginGate
  <1>9. ASSUME NEW l \in BiliLoops, BStartUI(l) PROVE BTypes'
    BY <1>0, <1>9 DEF BStartUI
  <1>10. ASSUME NEW l \in BiliLoops, BServe(l) PROVE BTypes'
    <2>1. BWorldOK'
      BY <1>0, <1>10 DEF BServe, BFault
    <2>2. BFlagsOK'
      BY <1>0, <1>10 DEF BServe, BFault
    <2>3. BActOK'
      BY <1>0, <1>10 DEF BServe, BFault
    <2>4. BUiOK'
      BY <1>0, <1>10 DEF BServe, BFault
    <2>5. BHeld'
      BY <1>0, <1>10 DEF BServe, BFault
    <2> QED
      BY <2>1, <2>2, <2>3, <2>4, <2>5
  <1>11. ASSUME NEW a \in BActors, BProbe(a) PROVE BTypes'
    <2>1. BWorldOK'
      BY <1>0, <1>11 DEF BProbe, ProbeFailed, BFault, BSetAndSave
    <2>2. BFlagsOK'
      BY <1>0, <1>11 DEF BProbe, ProbeFailed, BFault, BSetAndSave
    <2>3. BActOK'
      BY <1>0, <1>11 DEF BProbe, ProbeFailed, BFault, BSetAndSave
    <2>4. BUiOK'
      BY <1>0, <1>11 DEF BProbe, ProbeFailed, BFault, BSetAndSave
    <2>5. BHeld'
      BY <1>0, <1>11 DEF BProbe, ProbeFailed, BFault, BSetAndSave
    <2> QED
      BY <2>1, <2>2, <2>3, <2>4, <2>5
  <1>12. ASSUME NEW a \in BActors, BAnswered(a) PROVE BTypes'
    <2>1. BWorldOK'
      BY <1>0, <1>12 DEF BAnswered, ProbeFailed, BSetAndSave
    <2>2. BFlagsOK'
      BY <1>0, <1>12 DEF BAnswered, ProbeFailed, BSetAndSave
    <2>3. BActOK'
      BY <1>0, <1>12 DEF BAnswered, ProbeFailed, BSetAndSave
    <2>4. BUiOK'
      BY <1>0, <1>12 DEF BAnswered, ProbeFailed, BSetAndSave
    <2>5. BHeld'
      <3>1. /\ \A k \in BActors \ {a} : bAct'[k] = bAct[k]
            /\ bAct'[a].pc # "serve"
            /\ a \in BiliReqs \cup {"qr"} => bAct'[a] = BIdle \/ bAct'[a].page = bAct[a].page
            /\ bAct'[a].goal \in {bAct[a].goal, "none"}
        <4>1. CASE bAct' = [bAct EXCEPT ![a] = BIdle]
          BY <4>1
        <4>2. CASE /\ bAct[a].goal = "ensure"
                   /\ bAct' = [bAct EXCEPT ![a] = [BIdle EXCEPT !.pc = "round"]]
          BY <4>2
        <4>3. CASE \E place \in {"done", "failed"} : bAct' = [bAct EXCEPT ![a].pc = place]
          BY <4>3
        <4> QED
          BY <1>12, <4>1, <4>2, <4>3 DEF BAnswered, ProbeFailed
      <3> QED
        BY <1>12, <3>1, BActorsAssumption DEF BAnswered
    <2> QED
      BY <2>1, <2>2, <2>3, <2>4, <2>5
  <1>13. ASSUME NEW a \in BiliReqs \cup {"qr"}, BFinalize(a) PROVE BTypes'
    <2>1. BWorldOK'
      BY <1>0, <1>13 DEF BFinalize
    <2>2. BFlagsOK'
      BY <1>0, <1>13 DEF BFinalize
    <2>3. BActOK'
      BY <1>0, <1>13 DEF BFinalize
    <2>4. BUiOK'
      BY <1>0, <1>13 DEF BFinalize
    <2>5. BHeld'
      BY <1>0, <1>13 DEF BFinalize
    <2> QED
      BY <2>1, <2>2, <2>3, <2>4, <2>5
  <1>14. ASSUME NEW a \in BiliReqs \cup {"qr"}, BLoginFails(a) PROVE BTypes'
    <2>1. BWorldOK'
      BY <1>0, <1>14 DEF BLoginFails
    <2>2. BFlagsOK'
      BY <1>0, <1>14 DEF BLoginFails
    <2>3. BActOK'
      BY <1>0, <1>14 DEF BLoginFails
    <2>4. BUiOK'
      BY <1>0, <1>14 DEF BLoginFails
    <2>5. BHeld'
      BY <1>0, <1>14 DEF BLoginFails
    <2> QED
      BY <2>1, <2>2, <2>3, <2>4, <2>5
  <1>15. ASSUME NEW p \in BPages, BPageEnds(p) PROVE BTypes'
    <2>1. BWorldOK'
      BY <1>0, <1>15 DEF BPageEnds, CloseOnce
    <2>2. BFlagsOK'
      BY <1>0, <1>15 DEF BPageEnds, CloseOnce
    <2>3. BActOK'
      BY <1>0, <1>15 DEF BPageEnds, CloseOnce
    <2>4. BUiOK'
      <3>1. bCloses' \in [BPages -> Nat]
        BY <1>15, CloseOnceCounts DEF BPageEnds
      <3> QED
        BY <1>15, <3>1 DEF BPageEnds
    <2>5. BHeld'
      BY <1>0, <1>15 DEF BPageEnds, CloseOnce
    <2> QED
      BY <2>1, <2>2, <2>3, <2>4, <2>5
  <1>16. ASSUME NEW p \in BPages, BPageGone(p) PROVE BTypes'
    BY <1>0, <1>16 DEF BPageGone
  <1>17. ASSUME NEW p \in BPages, QrRestart(p) PROVE BTypes'
    <2>1. BWorldOK'
      BY <1>0, <1>17 DEF QrRestart, BServed
    <2>2. BFlagsOK'
      BY <1>0, <1>17 DEF QrRestart, BServed
    <2>3. BActOK'
      BY <1>0, <1>17 DEF QrRestart, BServed
    <2>4. BUiOK'
      <3>1. p \in 1..bPages
        BY <1>17 DEF QrRestart, BServed, BPages
      <3> QED
        BY <1>17, <3>1 DEF QrRestart
    <2>5. BHeld'
      <3>1. p \in 1..bPages
        BY <1>17 DEF QrRestart, BServed, BPages
      <3>2. bUsed'.rotations = bUsed.rotations
        BY <1>17 DEF QrRestart, BServed
      <3> QED
        BY <1>17, <3>1, <3>2 DEF QrRestart
    <2> QED
      BY <2>1, <2>2, <2>3, <2>4, <2>5
  <1>18. ASSUME NEW p \in BPages, SmsSend(p) PROVE BTypes'
    <2>1. BWorldOK'
      BY <1>0, <1>18 DEF SmsSend, BServed
    <2>2. BFlagsOK'
      BY <1>0, <1>18 DEF SmsSend, BServed
    <2>3. BActOK'
      BY <1>0, <1>18 DEF SmsSend, BServed
    <2>4. BUiOK'
      BY <1>0, <1>18 DEF SmsSend, BServed
    <2>5. BHeld'
      BY <1>0, <1>18 DEF SmsSend, BServed
    <2> QED
      BY <2>1, <2>2, <2>3, <2>4, <2>5
  <1>19. ASSUME NEW p \in bSpawned, BQrStarts(p) PROVE BTypes'
    BY <1>0, <1>19 DEF BQrStarts
  <1>20. ASSUME NEW c \in BSessions, BSiteRejects(c) PROVE BTypes'
    BY <1>0, <1>20 DEF BSiteRejects, BFault
  <1>21. CASE PeriodicCheck
    BY <1>0, <1>21 DEF PeriodicCheck
  <1>22. CASE BQrBegin
    BY <1>0, <1>22 DEF BQrBegin
  <1>23. CASE BQrTop
    BY <1>0, <1>23 DEF BQrTop
  <1>24. CASE BQrPoll
    BY <1>0, <1>24 DEF BQrPoll
  <1>25. CASE BCloseUI
    <2>1. BWorldOK'
      BY <1>0, <1>25 DEF BCloseUI, CloseOnce
    <2>2. BFlagsOK'
      BY <1>0, <1>25 DEF BCloseUI, CloseOnce
    <2>3. BActOK'
      BY <1>0, <1>25 DEF BCloseUI, CloseOnce
    <2>4. BUiOK'
      <3>1. bCloses' \in [BPages -> Nat]
        BY <1>25, CloseOnceCounts DEF BCloseUI
      <3> QED
        BY <1>25, <3>1 DEF BCloseUI
    <2>5. BHeld'
      BY <1>0, <1>25 DEF BCloseUI, CloseOnce
    <2> QED
      BY <2>1, <2>2, <2>3, <2>4, <2>5
  <1>26. CASE BBackoffEnds
    BY <1>0, <1>26 DEF BBackoffEnds
  <1>27. CASE BCooldownEnds
    BY <1>0, <1>27 DEF BCooldownEnds
  <1>28. ASSUME NEW p \in BPages, NEW r \in BiliReqs, BCookieLogin(r, p) PROVE BTypes'
    <2>1. BWorldOK'
      BY <1>0, <1>28 DEF BCookieLogin, BServed
    <2>2. BFlagsOK'
      BY <1>0, <1>28 DEF BCookieLogin, BServed
    <2>3. BActOK'
      <3>1. p \in 1..bPages
        BY <1>28 DEF BCookieLogin, BServed, BPages
      <3>2. /\ "probe" \in BPcs /\ "login" \in BGoals /\ p \in 0..bPages /\ r \in BActors
            /\ bPages \in Nat
            /\ bAct \in [BActors -> BActs(bPages)]
        BY <1>0, <3>1
      <3> HIDE DEF BTypes, BWorldOK, BFlagsOK, BActOK, BUiOK, BHeld, BActs, BTokens, BIdle,
                  BPcs, BGoals, BActors
      <3>3. [bAct EXCEPT ![r].pc = "probe", ![r].goal = "login", ![r].page = p]
              \in [BActors -> BActs(bPages)]
        BY <3>2, ActMoves
      <3>4. bAct' \in [BActors -> BActs(bPages)]
        BY <1>28, <3>3 DEF BCookieLogin
      <3>5. bPages' = bPages /\ bLimit' = bLimit
        BY <1>28 DEF BCookieLogin, BServed
      <3> QED
        BY <3>4, <3>5, ActKept
    <2>4. BUiOK'
      BY <1>0, <1>28 DEF BCookieLogin, BServed
    <2>5. BHeld'
      <3>1. p \in 1..bPages
        BY <1>28 DEF BCookieLogin, BServed, BPages
      <3>2. bUsed'.rotations = bUsed.rotations
        BY <1>28 DEF BCookieLogin, BServed
      <3> QED
        BY <1>28, <3>1, <3>2, BActorsAssumption DEF BCookieLogin
    <2> QED
      BY <2>1, <2>2, <2>3, <2>4, <2>5
  <1>29. ASSUME NEW p \in BPages, NEW r \in BiliReqs, NEW w, FormLogin(r, p, w) PROVE BTypes'
    <2>1. BWorldOK'
      BY <1>0, <1>29 DEF FormLogin, BServed
    <2>2. BFlagsOK'
      BY <1>0, <1>29 DEF FormLogin, BServed
    <2>3. BActOK'
      BY <1>0, <1>29 DEF FormLogin, BServed
    <2>4. BUiOK'
      BY <1>0, <1>29 DEF FormLogin, BServed
    <2>5. BHeld'
      <3>1. p \in 1..bPages
        BY <1>29 DEF FormLogin, BServed, BPages
      <3>2. bUsed'.rotations = bUsed.rotations
        BY <1>29 DEF FormLogin, BServed
      <3> QED
        BY <1>29, <3>1, <3>2, BActorsAssumption DEF FormLogin
    <2> QED
      BY <2>1, <2>2, <2>3, <2>4, <2>5
  <1>30. CASE UNCHANGED bVars
    BY <1>0, <1>30 DEF bVars
  <1> QED
    BY <1>1, <1>2, <1>3, <1>4, <1>5, <1>6, <1>7, <1>8, <1>9, <1>10, <1>11, <1>12, <1>13,
       <1>14, <1>15, <1>16, <1>17, <1>18, <1>19, <1>20, <1>21, <1>22, <1>23, <1>24, <1>25,
       <1>26, <1>27, <1>28, <1>29, <1>30
       DEF BiliNext, Gateway, BProbing, BQrFlow, BLoginEnds, BUser

-----------------------------------------------------------------------------
(* Why only one page is served: the pages that are up, and the page a loop *)
(* is about to serve, are the active one, and a loop makes a page only     *)
(* while none is active.  And why only one rotation runs: the flag is set  *)
(* for as long as a loop waits for its answer.                             *)
Up(p) == bWatch[p] \in {"wait", "shutdown"}
Serving(l) == bAct[l].pc = "serve"
Rotating(l) == bAct[l].pc = "rotated"

ActiveIsUp ==
    /\ \A p \in BPages : Up(p) => p = bActive
    /\ \A l \in BiliLoops : Serving(l) =>
          /\ bActive # 0 /\ bAct[l].page = bActive
          /\ \A p \in BPages : ~Up(p)
    /\ \A k, l \in BiliLoops : Serving(k) /\ Serving(l) => k = l
FlagIsUp ==
    /\ \A l \in BiliLoops : Rotating(l) => bInFlight
    /\ \A k, l \in BiliLoops : Rotating(k) /\ Rotating(l) => k = l
One == BTypes /\ ActiveIsUp /\ FlagIsUp

(* A step in which no loop comes to serve or to rotate. *)
LEMMA BCalmStep ==
    ASSUME ActiveIsUp, FlagIsUp, UNCHANGED <<bWatch, bActive, bInFlight>>,
           \A l \in BiliLoops : bAct'[l] = bAct[l] \/ bAct'[l].pc \notin {"serve", "rotated"}
    PROVE  ActiveIsUp' /\ FlagIsUp'
  BY DEF ActiveIsUp, FlagIsUp, Up, Serving, Rotating

(* An actor goes to a place, and leaves the others where they are. *)
LEMMA GoesOn ==
    ASSUME NEW n, bAct \in [BActors -> BActs(n)], NEW a \in BActors, NEW place,
           \/ BGoto(a, place)
           \/ BEnter(a, place)
           \/ BLeave(a) /\ place = "idle"
           \/ \E v : bAct' = [bAct EXCEPT ![a].pc = place, ![a].verdict = v]
    PROVE  bAct'[a].pc = place /\ \A k \in BActors \ {a} : bAct'[k] = bAct[k]
  BY DEF BGoto, BEnter, BLeave, BActs, BIdle

(* Every action keeps the invariant. *)
LEMMA StepOne == One /\ [BiliNext]_bVars => One'
  <1> SUFFICES ASSUME One, [BiliNext]_bVars PROVE One'
    OBVIOUS
  <1>t. BTypes'
    BY BStepTypes DEF One
  <1>a. bAct \in [BActors -> BActs(bPages)] /\ bPages \in Nat
    BY DEF One, BTypes, BActOK, BUiOK
  <1>w. bWatch \in [BPages -> {"none", "wait", "shutdown", "gone"}]
    BY DEF One, BTypes, BUiOK
  <1>o. ActiveIsUp /\ FlagIsUp
    BY DEF One
  <1>n. \A l \in BiliLoops : l \in BActors /\ l \notin BiliReqs \cup {"qr", "check"}
    BY BActorsAssumption DEF BActors
  <1>1. ASSUME NEW l \in BiliLoops, EnsureBegins(l) PROVE ActiveIsUp' /\ FlagIsUp'
    <2>1. UNCHANGED <<bWatch, bActive, bInFlight>>
      BY <1>1 DEF EnsureBegins, bUi, bGates
    <2>2. PICK place \in {"round", "load", "refresh"} :
             BGoto(l, place) \/ BEnter(l, place) \/ (BLeave(l) /\ place = "idle")
      BY <1>1, <1>o DEF EnsureBegins, One, BTypes, BWorldOK, BStatuses, BActOK, BActs, BVerdicts
    <2>3. bAct'[l].pc = place /\ \A k \in BActors \ {l} : bAct'[k] = bAct[k]
      BY <2>2, <1>a, <1>n, GoesOn
    <2>4. \A k \in BiliLoops : bAct'[k] = bAct[k] \/ bAct'[k].pc \notin {"serve", "rotated"}
      BY <2>3, <1>n
    <2> QED
      BY <2>1, <2>4, <1>o, <1>t, BCalmStep DEF One
  <1>2. ASSUME NEW l \in BiliLoops, LoadAuth(l) PROVE ActiveIsUp' /\ FlagIsUp'
    <2>1. UNCHANGED <<bWatch, bActive, bInFlight>>
      BY <1>2 DEF LoadAuth, bUi, bGates
    <2>2. \A k \in BiliLoops : bAct'[k] = bAct[k] \/ bAct'[k].pc \notin {"serve", "rotated"}
      BY <1>2, <1>a, <1>n DEF LoadAuth, BGoto, BEnter, BLeave, BIdle
    <2> QED
      BY <2>1, <2>2, <1>o, <1>t, BCalmStep DEF One
  <1>3. ASSUME NEW l \in BiliLoops, BRound(l) PROVE ActiveIsUp' /\ FlagIsUp'
    <2>1. UNCHANGED <<bWatch, bActive, bInFlight>>
      BY <1>3 DEF BRound, BFault, bUi, bGates
    <2>2. \A k \in BiliLoops : bAct'[k] = bAct[k] \/ bAct'[k].pc \notin {"serve", "rotated"}
      BY <1>3, <1>a, <1>n DEF BRound, BFault, BGoto, BEnter, BLeave, BIdle
    <2> QED
      BY <2>1, <2>2, <1>o, <1>t, BCalmStep DEF One
  <1>4. ASSUME NEW l \in BiliLoops, RefreshBegins(l) PROVE ActiveIsUp' /\ FlagIsUp'
    <2>1. UNCHANGED <<bWatch, bActive>>
      BY <1>4 DEF RefreshBegins, bUi
    <2>2. CASE bAct'[l].pc = "rotated" /\ bInFlight' /\ ~bInFlight
      <3>1. \A k \in BiliLoops \ {l} : bAct'[k] = bAct[k]
        BY <1>4, <1>a, <1>n DEF RefreshBegins, Rotate, BGoto
      <3> QED
        BY <2>1, <2>2, <3>1, <1>o DEF ActiveIsUp, FlagIsUp, Up, Serving, Rotating
    <2>3. CASE UNCHANGED bInFlight /\ \E place \in {"wait", "gate"} : BGoto(l, place)
      <3>1. \A k \in BiliLoops : bAct'[k] = bAct[k] \/ bAct'[k].pc \notin {"serve", "rotated"}
        BY <2>3, <1>a, <1>n DEF BGoto
      <3> QED
        BY <2>1, <2>3, <3>1, <1>o, BCalmStep
    <2>4. Rotate(l) => bAct'[l].pc = "rotated"
      BY <1>a, <1>n DEF Rotate, BActs
    <2> QED
      BY <1>4, <2>2, <2>3, <2>4 DEF RefreshBegins
  <1>5. ASSUME NEW l \in BiliLoops, RefreshWaited(l) PROVE ActiveIsUp' /\ FlagIsUp'
    <2>1. UNCHANGED <<bWatch, bActive, bInFlight>>
      BY <1>5 DEF RefreshWaited, bUi, bGates
    <2>2. \A k \in BiliLoops : bAct'[k] = bAct[k] \/ bAct'[k].pc \notin {"serve", "rotated"}
      BY <1>5, <1>a, <1>n DEF RefreshWaited, BGoto, BEnter, BLeave, BIdle
    <2> QED
      BY <2>1, <2>2, <1>o, <1>t, BCalmStep DEF One
  <1>6. ASSUME NEW l \in BiliLoops, RefreshEnds(l) PROVE ActiveIsUp' /\ FlagIsUp'
    <2>1. UNCHANGED <<bWatch, bActive>> /\ Rotating(l)
      BY <1>6 DEF RefreshEnds, bUi, BAt, Rotating
    <2>5. bAct' = [bAct EXCEPT ![l] = [BIdle EXCEPT !.pc = "probe", !.goal = "ensure"]]
            \/ bAct' = [bAct EXCEPT ![l] = [BIdle EXCEPT !.pc = "gate"]]
      BY <1>6 DEF RefreshEnds, BEnter
    <2>2. \A k \in BiliLoops :
             IF k = l THEN bAct'[k].pc \in {"probe", "gate"} ELSE bAct'[k] = bAct[k]
      BY <2>5, <1>a, <1>n DEF BIdle
    <2> QED
      BY <2>1, <2>2, <1>o DEF ActiveIsUp, FlagIsUp, Up, Serving, Rotating
  <1>7. ASSUME NEW l \in BiliLoops, NotConfirmed(l) PROVE ActiveIsUp' /\ FlagIsUp'
    <2>1. UNCHANGED <<bWatch, bActive, bInFlight>>
      BY <1>7 DEF NotConfirmed, BSetAndSave, bUi, bGates
    <2>2. \A k \in BiliLoops : bAct'[k] = bAct[k] \/ bAct'[k].pc \notin {"serve", "rotated"}
      BY <1>7, <1>a, <1>n DEF NotConfirmed, BSetAndSave, BGoto, BEnter, BLeave, BIdle
    <2> QED
      BY <2>1, <2>2, <1>o, <1>t, BCalmStep DEF One
  <1>8. ASSUME NEW l \in BiliLoops, LoginGate(l) PROVE ActiveIsUp' /\ FlagIsUp'
    <2>1. UNCHANGED <<bWatch, bActive, bInFlight>>
      BY <1>8 DEF LoginGate, bUi, bGates
    <2>2. PICK place \in {"idle", "startUI"} :
             BGoto(l, place) \/ BEnter(l, place) \/ (BLeave(l) /\ place = "idle")
      BY <1>8, <1>o DEF LoginGate, One, BTypes, BWorldOK, BStatuses, BActOK, BActs, BVerdicts
    <2>3. bAct'[l].pc = place /\ \A k \in BActors \ {l} : bAct'[k] = bAct[k]
      BY <2>2, <1>a, <1>n, GoesOn
    <2>4. \A k \in BiliLoops : bAct'[k] = bAct[k] \/ bAct'[k].pc \notin {"serve", "rotated"}
      BY <2>3, <1>n
    <2> QED
      BY <2>1, <2>4, <1>o, <1>t, BCalmStep DEF One
  <1>9. ASSUME NEW l \in BiliLoops, BStartUI(l) PROVE ActiveIsUp' /\ FlagIsUp'
    <2>1. UNCHANGED <<bWatch, bInFlight>>
      BY <1>9 DEF BStartUI, bUi, bGates
    <2>2. CASE BLeave(l) /\ UNCHANGED bActive
      <3>1. \A k \in BiliLoops : bAct'[k] = bAct[k] \/ bAct'[k].pc \notin {"serve", "rotated"}
        BY <2>2, <1>a, <1>n DEF BLeave, BIdle
      <3> QED
        BY <2>1, <2>2, <3>1, <1>o, BCalmStep
    <2>3. CASE bActive = 0 /\ bActive' = bPages + 1
               /\ bAct' = [bAct EXCEPT ![l].pc = "serve", ![l].page = bPages + 1]
      <3>1. \A k \in BiliLoops :
               IF k = l THEN bAct'[k].pc = "serve" /\ bAct'[k].page = bPages + 1
                        ELSE bAct'[k] = bAct[k]
        BY <2>3, <1>a, <1>n DEF BActs
      <3>2. \A p \in BPages : ~Up(p) /\ ~Up(p)'
        BY <2>1, <2>3, <1>o DEF ActiveIsUp, Up, BPages
      <3>3. \A k \in BiliLoops : ~Serving(k)
        BY <2>3, <1>o DEF ActiveIsUp
      <3>4. bActive' # 0
        BY <2>3, <1>a
      <3> QED
        BY <2>1, <2>3, <3>1, <3>2, <3>3, <3>4, <1>o DEF ActiveIsUp, FlagIsUp, Serving, Rotating
    <2> QED
      BY <1>9, <2>2, <2>3 DEF BStartUI, bUi
  <1>10. ASSUME NEW l \in BiliLoops, BServe(l) PROVE ActiveIsUp' /\ FlagIsUp'
    <2>1. /\ Serving(l) /\ UNCHANGED bInFlight
          /\ \/ bWatch' = [bWatch EXCEPT ![bAct[l].page] = "wait"] /\ UNCHANGED bActive
             \/ bActive' = 0 /\ UNCHANGED bWatch
      BY <1>10 DEF BServe, BAt, Serving
    <2>2. \A k \in BiliLoops : IF k = l THEN bAct'[k].pc = "idle" ELSE bAct'[k] = bAct[k]
      BY <1>10, <1>a, <1>n DEF BServe, BLeave, BIdle
    <2>3. \A k \in BiliLoops : ~Serving(k)'
      BY <2>1, <2>2, <1>o DEF ActiveIsUp, Serving
    <2>4. \A p \in BPages : Up(p)' => p = bActive'
      BY <2>1, <1>o, <1>w DEF ActiveIsUp, Up
    <2> QED
      BY <2>1, <2>2, <2>3, <2>4, <1>o DEF ActiveIsUp, FlagIsUp, Rotating
  <1>11. ASSUME NEW a \in BActors, BProbe(a) PROVE ActiveIsUp' /\ FlagIsUp'
    <2>1. UNCHANGED <<bWatch, bActive, bInFlight>>
      BY <1>11 DEF BProbe, ProbeFailed, BFault, BSetAndSave, bUi, bGates
    <2>2. PICK place \in {"done", "failed", "answer"} :
             BGoto(a, place) \/ \E v : bAct' = [bAct EXCEPT ![a].pc = place, ![a].verdict = v]
      <3>1. ProbeFailed(a) \in {"done", "failed"}
        BY DEF ProbeFailed
      <3>2. CASE bSess = NoSession
        BY <1>11, <3>1, <3>2 DEF BProbe
      <3>3. CASE bSess # NoSession
        <4>1. \E v : bAct' = [bAct EXCEPT ![a].pc = "answer", ![a].verdict = v]
          BY <1>11, <3>3 DEF BProbe
        <4> QED
          BY <4>1
      <3> QED
        BY <3>2, <3>3
    <2>3. bAct'[a].pc = place /\ \A k \in BActors \ {a} : bAct'[k] = bAct[k]
      BY <2>2, <1>a, <1>n, GoesOn
    <2>4. \A k \in BiliLoops : bAct'[k] = bAct[k] \/ bAct'[k].pc \notin {"serve", "rotated"}
      BY <2>3, <1>n
    <2> QED
      BY <2>1, <2>4, <1>o, <1>t, BCalmStep DEF One
  <1>12. ASSUME NEW a \in BActors, BAnswered(a) PROVE ActiveIsUp' /\ FlagIsUp'
    <2>1. UNCHANGED <<bWatch, bActive, bInFlight>>
      BY <1>12 DEF BAnswered, ProbeFailed, BSetAndSave, bUi, bGates
    <2>2. PICK place \in {"round", "idle", "done", "failed"} :
             BGoto(a, place) \/ BEnter(a, place) \/ (BLeave(a) /\ place = "idle")
      BY <1>12, <1>o
         DEF BAnswered, ProbeFailed, BSetAndSave, One, BTypes, BWorldOK, BStatuses,
             BActOK, BActs, BVerdicts
    <2>3. bAct'[a].pc = place /\ \A k \in BActors \ {a} : bAct'[k] = bAct[k]
      BY <2>2, <1>a, <1>n, GoesOn
    <2>4. \A k \in BiliLoops : bAct'[k] = bAct[k] \/ bAct'[k].pc \notin {"serve", "rotated"}
      BY <2>3, <1>n
    <2> QED
      BY <2>1, <2>4, <1>o, <1>t, BCalmStep DEF One
  <1>13. ASSUME NEW a \in BiliReqs \cup {"qr"}, BFinalize(a) PROVE ActiveIsUp' /\ FlagIsUp'
    <2>1. UNCHANGED <<bWatch, bActive, bInFlight>>
      BY <1>13 DEF BFinalize, bUi, bGates
    <2>2. \A k \in BiliLoops : bAct'[k] = bAct[k] \/ bAct'[k].pc \notin {"serve", "rotated"}
      BY <1>13, <1>a, <1>n DEF BFinalize, BGoto, BEnter, BLeave, BIdle
    <2> QED
      BY <2>1, <2>2, <1>o, <1>t, BCalmStep DEF One
  <1>14. ASSUME NEW a \in BiliReqs \cup {"qr"}, BLoginFails(a) PROVE ActiveIsUp' /\ FlagIsUp'
    <2>1. UNCHANGED <<bWatch, bActive, bInFlight>>
      BY <1>14 DEF BLoginFails, bUi, bGates
    <2>2. \A k \in BiliLoops : bAct'[k] = bAct[k] \/ bAct'[k].pc \notin {"serve", "rotated"}
      BY <1>14, <1>a, <1>n DEF BLoginFails, BGoto, BEnter, BLeave, BIdle
    <2> QED
      BY <2>1, <2>2, <1>o, <1>t, BCalmStep DEF One
  <1>15. ASSUME NEW p \in BPages, BPageEnds(p) PROVE ActiveIsUp' /\ FlagIsUp'
    <2> USE DEF BPageEnds, bGates
    <2>1. UNCHANGED <<bActive, bInFlight, bAct>> /\ \A q \in BPages : Up(q)' => Up(q)
      BY <1>15, <1>w DEF Up
    <2> QED
      BY <2>1, <1>o DEF ActiveIsUp, FlagIsUp, Serving, Rotating
  <1>16. ASSUME NEW p \in BPages, BPageGone(p) PROVE ActiveIsUp' /\ FlagIsUp'
    <2>1. UNCHANGED <<bInFlight, bAct>> /\ Up(p) /\ bActive' = 0
      BY <1>16 DEF BPageGone, bGates, Up
    <2>2. \A q \in BPages : ~Up(q)'
      BY <1>16, <1>o, <1>w DEF BPageGone, Up, ActiveIsUp
    <2>3. \A k \in BiliLoops : ~Serving(k)'
      BY <2>1, <1>o DEF ActiveIsUp, Serving
    <2> QED
      BY <2>1, <2>2, <2>3, <1>o DEF ActiveIsUp, FlagIsUp, Rotating
  <1>17. ASSUME NEW p \in BPages, QrRestart(p) PROVE ActiveIsUp' /\ FlagIsUp'
    <2>1. UNCHANGED <<bWatch, bActive, bInFlight>>
      BY <1>17 DEF QrRestart, BServed, bUi, bGates
    <2>2. \A k \in BiliLoops : bAct'[k] = bAct[k] \/ bAct'[k].pc \notin {"serve", "rotated"}
      BY <1>17, <1>a, <1>n DEF QrRestart, BServed, BGoto, BEnter, BLeave, BIdle
    <2> QED
      BY <2>1, <2>2, <1>o, <1>t, BCalmStep DEF One
  <1>18. ASSUME NEW p \in BPages, SmsSend(p) PROVE ActiveIsUp' /\ FlagIsUp'
    <2>1. UNCHANGED <<bWatch, bActive, bInFlight>>
      BY <1>18 DEF SmsSend, BServed, bUi, bGates
    <2>2. \A k \in BiliLoops : bAct'[k] = bAct[k] \/ bAct'[k].pc \notin {"serve", "rotated"}
      BY <1>18, <1>a, <1>n DEF SmsSend, BServed, BGoto, BEnter, BLeave, BIdle
    <2> QED
      BY <2>1, <2>2, <1>o, <1>t, BCalmStep DEF One
  <1>19. ASSUME NEW p \in bSpawned, BQrStarts(p) PROVE ActiveIsUp' /\ FlagIsUp'
    <2>1. UNCHANGED <<bWatch, bActive, bInFlight>>
      BY <1>19 DEF BQrStarts, bUi, bGates
    <2>2. \A k \in BiliLoops : bAct'[k] = bAct[k] \/ bAct'[k].pc \notin {"serve", "rotated"}
      BY <1>19, <1>a, <1>n DEF BQrStarts, BGoto, BEnter, BLeave, BIdle
    <2> QED
      BY <2>1, <2>2, <1>o, <1>t, BCalmStep DEF One
  <1>20. ASSUME NEW c \in BSessions, BSiteRejects(c) PROVE ActiveIsUp' /\ FlagIsUp'
    <2>1. UNCHANGED <<bWatch, bActive, bInFlight>>
      BY <1>20 DEF BSiteRejects, BFault, bUi, bGates
    <2>2. \A k \in BiliLoops : bAct'[k] = bAct[k] \/ bAct'[k].pc \notin {"serve", "rotated"}
      BY <1>20, <1>a, <1>n DEF BSiteRejects, BFault, BGoto, BEnter, BLeave, BIdle
    <2> QED
      BY <2>1, <2>2, <1>o, <1>t, BCalmStep DEF One
  <1>21. CASE PeriodicCheck
    <2>1. UNCHANGED <<bWatch, bActive, bInFlight>>
      BY <1>21 DEF PeriodicCheck, bUi, bGates
    <2>2. \A k \in BiliLoops : bAct'[k] = bAct[k] \/ bAct'[k].pc \notin {"serve", "rotated"}
      BY <1>21, <1>a, <1>n DEF PeriodicCheck, BGoto, BEnter, BLeave, BIdle
    <2> QED
      BY <2>1, <2>2, <1>o, <1>t, BCalmStep DEF One
  <1>22. CASE BQrBegin
    <2>1. UNCHANGED <<bWatch, bActive, bInFlight>>
      BY <1>22 DEF BQrBegin, bUi, bGates
    <2>2. \A k \in BiliLoops : bAct'[k] = bAct[k] \/ bAct'[k].pc \notin {"serve", "rotated"}
      BY <1>22, <1>a, <1>n DEF BQrBegin, BGoto, BEnter, BLeave, BIdle
    <2> QED
      BY <2>1, <2>2, <1>o, <1>t, BCalmStep DEF One
  <1>23. CASE BQrTop
    <2>1. UNCHANGED <<bWatch, bActive, bInFlight>>
      BY <1>23 DEF BQrTop, bUi, bGates
    <2>2. \A k \in BiliLoops : bAct'[k] = bAct[k] \/ bAct'[k].pc \notin {"serve", "rotated"}
      BY <1>23, <1>a, <1>n DEF BQrTop, BGoto, BEnter, BLeave, BIdle
    <2> QED
      BY <2>1, <2>2, <1>o, <1>t, BCalmStep DEF One
  <1>24. CASE BQrPoll
    <2>1. UNCHANGED <<bWatch, bActive, bInFlight>>
      BY <1>24 DEF BQrPoll, bUi, bGates
    <2>2. \A k \in BiliLoops : bAct'[k] = bAct[k] \/ bAct'[k].pc \notin {"serve", "rotated"}
      BY <1>24, <1>a, <1>n DEF BQrPoll, BGoto, BEnter, BLeave, BIdle
    <2> QED
      BY <2>1, <2>2, <1>o, <1>t, BCalmStep DEF One
  <1>25. CASE BCloseUI
    <2>1. UNCHANGED <<bWatch, bActive, bInFlight, bAct>>
      BY <1>25 DEF BCloseUI, bGates
    <2> QED
      BY <2>1, <1>o, <1>t, BCalmStep DEF One
  <1>26. CASE BBackoffEnds
    <2>1. UNCHANGED <<bWatch, bActive, bInFlight>>
      BY <1>26 DEF BBackoffEnds, bUi, bGates
    <2>2. \A k \in BiliLoops : bAct'[k] = bAct[k] \/ bAct'[k].pc \notin {"serve", "rotated"}
      BY <1>26, <1>a, <1>n DEF BBackoffEnds, BGoto, BEnter, BLeave, BIdle
    <2> QED
      BY <2>1, <2>2, <1>o, <1>t, BCalmStep DEF One
  <1>27. CASE BCooldownEnds
    <2>1. UNCHANGED <<bWatch, bActive, bInFlight>>
      BY <1>27 DEF BCooldownEnds, bUi, bGates
    <2>2. \A k \in BiliLoops : bAct'[k] = bAct[k] \/ bAct'[k].pc \notin {"serve", "rotated"}
      BY <1>27, <1>a, <1>n DEF BCooldownEnds, BGoto, BEnter, BLeave, BIdle
    <2> QED
      BY <2>1, <2>2, <1>o, <1>t, BCalmStep DEF One
  <1>28. ASSUME NEW p \in BPages, NEW r \in BiliReqs, BCookieLogin(r, p)
         PROVE  ActiveIsUp' /\ FlagIsUp'
    <2>1. UNCHANGED <<bWatch, bActive, bInFlight>>
      BY <1>28 DEF BCookieLogin, BServed, bUi, bGates
    <2>2. \A k \in BiliLoops : bAct'[k] = bAct[k] \/ bAct'[k].pc \notin {"serve", "rotated"}
      BY <1>28, <1>a, <1>n DEF BCookieLogin, BServed, BGoto, BEnter, BLeave, BIdle
    <2> QED
      BY <2>1, <2>2, <1>o, <1>t, BCalmStep DEF One
  <1>29. ASSUME NEW p \in BPages, NEW r \in BiliReqs, NEW w, FormLogin(r, p, w)
         PROVE  ActiveIsUp' /\ FlagIsUp'
    <2>1. UNCHANGED <<bWatch, bActive, bInFlight>>
      BY <1>29 DEF FormLogin, BServed, bUi, bGates
    <2>2. \A k \in BiliLoops : bAct'[k] = bAct[k] \/ bAct'[k].pc \notin {"serve", "rotated"}
      BY <1>29, <1>a, <1>n DEF FormLogin, BServed, BGoto, BEnter, BLeave, BIdle
    <2> QED
      BY <2>1, <2>2, <1>o, <1>t, BCalmStep DEF One
  <1>30. CASE UNCHANGED bVars
    <2>1. UNCHANGED <<bWatch, bActive, bInFlight>>
      BY <1>30 DEF bVars, bUi, bGates
    <2>2. \A k \in BiliLoops : bAct'[k] = bAct[k] \/ bAct'[k].pc \notin {"serve", "rotated"}
      BY <1>30, <1>a, <1>n DEF bVars, BGoto, BEnter, BLeave, BIdle
    <2> QED
      BY <2>1, <2>2, <1>o, <1>t, BCalmStep DEF One
  <1> QED
    BY <1>t, <1>1, <1>2, <1>3, <1>4, <1>5, <1>6, <1>7, <1>8, <1>9, <1>10, <1>11, <1>12,
       <1>13, <1>14, <1>15, <1>16, <1>17, <1>18, <1>19, <1>20, <1>21, <1>22, <1>23, <1>24,
       <1>25, <1>26, <1>27, <1>28, <1>29, <1>30
       DEF One, BiliNext, Gateway, BProbing, BQrFlow, BLoginEnds, BUser

(* A part of a singleton has at most one element. *)
LEMMA AtMostOne == ASSUME NEW S, \E x : S \subseteq {x} PROVE Cardinality(S) <= 1
  <1>1. PICK x : S \subseteq {x}
    OBVIOUS
  <1>2. IsFiniteSet({x}) /\ Cardinality({x}) = 1
    BY FS_Singleton
  <1>3. IsFiniteSet(S) /\ Cardinality(S) <= Cardinality({x})
    BY <1>1, <1>2, FS_Subset
  <1> QED
    BY <1>2, <1>3

(* The loops that find the session missing together open one page, and one *)
(* of them rotates the token.                                              *)
LEMMA OneIsEnough == One => OneAtATime
  <1> SUFFICES ASSUME One PROVE OneAtATime
    OBVIOUS
  <1> USE DEF One, ActiveIsUp, FlagIsUp, Up, Serving, Rotating
  <1>1. OneLoginServer
    <2>1. {p \in BPages : bWatch[p] \in {"wait", "shutdown"}}
            \cup {bAct[l].page : l \in {k \in BiliLoops : bAct[k].pc = "serve"}} \subseteq {bActive}
      OBVIOUS
    <2> QED
      BY <2>1, AtMostOne DEF OneLoginServer
  <1>2. OneRotation
    <2>1. \E x : {l \in BiliLoops : bAct[l].pc = "rotated"} \subseteq {x}
      <3>1. CASE \E k \in BiliLoops : Rotating(k)
        <4>1. PICK k \in BiliLoops : Rotating(k)
          BY <3>1
        <4>2. {l \in BiliLoops : bAct[l].pc = "rotated"} \subseteq {k}
          BY <4>1
        <4> QED
          BY <4>2
      <3>2. CASE ~\E k \in BiliLoops : Rotating(k)
        <4>1. {l \in BiliLoops : bAct[l].pc = "rotated"} \subseteq {0}
          BY <3>2
        <4> QED
          BY <4>1
      <3> QED
        BY <3>1, <3>2
    <2> QED
      BY <2>1, AtMostOne DEF OneRotation
  <1> QED
    BY <1>1, <1>2 DEF OneAtATime

(* It holds at first. *)
LEMMA InitOne == BiliInit => One
  <1> SUFFICES ASSUME BiliInit PROVE One
    OBVIOUS
  <1>1. ActiveIsUp /\ FlagIsUp
    BY DEF BiliInit, ActiveIsUp, FlagIsUp, Up, Serving, Rotating, BIdle, BActors
  <1> QED
    BY <1>1, BInitTypes DEF One

(* The session of bilibili is well typed, for any loops, requests, pages   *)
(* and limits.                                                             *)
THEOREM BiliTypeTheorem == BiliSpec => []BTypeOK
  <1>1. BTypes => BTypeOK
    BY BTypesTypeOK
  <1> QED
    BY BInitTypes, BStepTypes, <1>1, PTL DEF BiliSpec

(* Any number of loops that find the session missing share one login page  *)
(* and one rotation of the refresh token, whatever the user, the timers    *)
(* and the watchers do in the meantime.                                    *)
THEOREM OneAtATimeTheorem == BiliSpec => []OneAtATime
  BY InitOne, StepOne, OneIsEnough, PTL DEF BiliSpec

-----------------------------------------------------------------------------
(* A behaviour of the sessions together is one of each of them.            *)
LEMMA SessionParts ==
    MCSpec => /\ ZhihuInit /\ [][ZhihuNext]_zVars
              /\ XhsInit /\ [][XhsNext]_xVars
              /\ BiliInit /\ [][BiliNext]_bVars
              /\ RateInit /\ [][RateNext]_rVars
<1>1. MCInit => ZhihuInit /\ XhsInit /\ BiliInit /\ RateInit
  BY DEF MCInit
<1>2. [MCNext]_sessionVars =>
          [ZhihuNext]_zVars /\ [XhsNext]_xVars /\ [BiliNext]_bVars /\ [RateNext]_rVars
  <2> SUFFICES ASSUME [MCNext]_sessionVars
               PROVE  [ZhihuNext]_zVars /\ [XhsNext]_xVars /\ [BiliNext]_bVars /\ [RateNext]_rVars
    OBVIOUS
  <2>1. CASE ZhihuNext /\ UNCHANGED <<part, xVars, bVars, rVars>>
    BY <2>1
  <2>2. CASE XhsNext /\ UNCHANGED <<part, zVars, bVars, rVars>>
    BY <2>2
  <2>3. CASE BiliNext /\ UNCHANGED <<part, zVars, xVars, rVars>>
    BY <2>3
  <2>4. CASE RateNext /\ UNCHANGED <<part, zVars, xVars, bVars>>
    BY <2>4
  <2>5. CASE UNCHANGED sessionVars
    BY <2>5 DEF sessionVars
  <2> QED
    BY <2>1, <2>2, <2>3, <2>4, <2>5 DEF MCNext
<1> QED
  BY <1>1, <1>2, PTL DEF MCSpec

(* The variables of the sessions and of the rate gate keep to their values,*)
(* whichever of them moves.                                                *)
THEOREM SessionsTypeTheorem == MCSpec => []SessionsTypeOK
<1>1. ZhihuInit /\ [][ZhihuNext]_zVars => []ZTypeOK
  BY ZInit, ZStep, ZInvTypes, PTL
<1>2. BiliInit /\ [][BiliNext]_bVars => []BTypeOK
  BY BInitTypes, BStepTypes, BTypesTypeOK, PTL
<1> QED
  BY <1>1, <1>2, SessionParts, XhsTyped, RateTyped, PTL DEF SessionsTypeOK
=============================================================================
