----------------------------- MODULE XhsSession -----------------------------
(***************************************************************************)
(* The session of the xhs backend (fbprotocols/xhs): the cookie            *)
(* web_session, of a user or of a guest.  The hot board needs none; the    *)
(* notifications need a user's, and only for them the poll loop may open   *)
(* the login page.  A guest session is minted where one suffices, and      *)
(* before a page is served.                                                *)
(*                                                                         *)
(* A request that the site blocks by a challenge waits until the person in *)
(* front of the page confirms it, or for riskTimeout; one challenge is     *)
(* pending at a time, the latest.  Requests are sent with the session of   *)
(* the moment and answered later; saveAuth is one step; time is left out.  *)
(***************************************************************************)
EXTENDS Naturals, FiniteSets

CONSTANTS
    XReqs,          \* requests of the login page handled at the same time
    XUsers,         \* sessions of users
    XMaxPages,      \* login pages made at most
    XLimits         \* bounds of a behaviour, and whether notifications are on

ASSUME XhsAssumption ==
    \A l \in XLimits : /\ l.pages \in Nat /\ l.faults \in Nat /\ l.reqs \in Nat /\ l.rounds \in Nat

NoWeb == "none"
Guest == "guest"
XPages == 1..XMaxPages
XLoop == <<"loop", 0>>
XFlows == {"qr"} \X XPages
XRequests == {"req"} \X (1..XReqs)
XActors == {XLoop} \cup XFlows \cup XRequests
XWebs == XUsers \cup {NoWeb, Guest}

VARIABLES
    xLimit,         \* the bounds of this behaviour: pages, faults, reqs, rounds; need
    xUsed,          \* what is used up of them
    xAccepted,      \* sessions the site accepts
    xFile,          \* xhs-auth.json
    xWeb,           \* the cookie web_session
    xStatus,        \* auth.status
    xCooling,       \* reLogin.nextAt lies ahead
    xForce,         \* the first ensureSession, which ignores it
    xAct,           \* where each actor is, and what it holds
    xPages,         \* number of login pages made
    xActive,        \* the page of ui.lnAddr while ui.active; 0 is not active
    xState,         \* the page of ui.state; 0 is nil
    xStop,          \* the page of ui.stop; 0 is nil
    xClosed,        \* pages whose stop channel is closed
    xWatch,         \* where the watcher of each page is
    xTimers,        \* timers of finished logins
    xRisk,          \* who registered riskCur and riskDone; nobody if they are nil
    xLatest,        \* history: who registered the latest challenge
    xCrashed        \* a panic ended the process

xWorld == <<xLimit, xAccepted>>
xAuth == <<xFile, xWeb, xStatus>>
xGate == <<xCooling, xForce>>
xUi == <<xPages, xActive, xState, xStop, xClosed, xWatch, xTimers>>
xRisks == <<xRisk, xLatest>>
xVars == <<xLimit, xUsed, xAccepted, xFile, xWeb, xStatus, xCooling, xForce, xAct, xPages, xActive,
           xState, xStop, xClosed, xWatch, xTimers, xRisk, xLatest, xCrashed>>

Nobody == <<"nobody", 0>>
XIdle == [pc |-> "idle", goal |-> "none", page |-> 0, web |-> NoWeb, verdict |-> "none",
          released |-> FALSE]
XCopy(w, status) == [web |-> w, status |-> status]
XStatuses == {"empty", "ready", "guest", "invalid"}

XTypeOK ==
    /\ xLimit \in XLimits
    /\ xUsed \in [faults : 0..xLimit.faults, reqs : 0..xLimit.reqs, rounds : 0..xLimit.rounds]
    /\ xAccepted \subseteq XUsers \cup {Guest}
    /\ xFile \in [web : XWebs, status : XStatuses]
    /\ xWeb \in XWebs
    /\ xStatus \in XStatuses
    /\ {xCooling, xForce, xCrashed} \subseteq BOOLEAN
    /\ xAct \in [XActors ->
          [pc : {"idle", "ensure", "probe", "answer", "risk", "verified", "unsure", "rejected",
                 "round", "mint", "schedule", "startUI", "page", "serve", "create", "top", "ask"},
           goal : {"none", "ready", "guest", "round", "login"}, page : 0..xPages, web : XWebs,
           verdict : {"none", "ok", "refused", "error"}, released : BOOLEAN]]
    /\ xPages \in 0..xLimit.pages
    /\ {xActive, xState, xStop} \subseteq 0..xPages
    /\ xClosed \subseteq 1..xPages
    /\ xWatch \in [XPages -> {"none", "nil", "wait", "shutdown", "gone"}]
    /\ xTimers \in Nat
    /\ {xRisk, xLatest} \subseteq XActors \cup {Nobody}

(* loadAuthInto: a session of the file is ready, whosever it is. *)
LoadedStatus(file) == IF file.status = "guest" THEN "ready" ELSE file.status

(* Start, after an earlier run that left a file or none. *)
XhsInit ==
    /\ xLimit \in XLimits
    /\ xUsed = [faults |-> 0, reqs |-> 0, rounds |-> 0]
    /\ xAccepted = XUsers \cup {Guest}
    /\ xFile \in {XCopy(NoWeb, "empty"), XCopy(NoWeb, "invalid"), XCopy(Guest, "guest")}
                 \cup {XCopy(u, "ready") : u \in XUsers}
    /\ xWeb = xFile.web
    /\ xStatus = LoadedStatus(xFile)
    /\ xCooling = FALSE /\ xForce = TRUE
    /\ xAct = [a \in XActors |-> IF a = XLoop THEN [XIdle EXCEPT !.pc = "ensure"] ELSE XIdle]
    /\ xPages = 0 /\ xActive = 0 /\ xState = 0 /\ xStop = 0 /\ xClosed = {}
    /\ xWatch = [p \in XPages |-> "none"]
    /\ xTimers = 0 /\ xRisk = Nobody /\ xLatest = Nobody /\ xCrashed = FALSE

XAt(a, place) == ~xCrashed /\ xAct[a].pc = place
XGoto(a, place) == xAct' = [xAct EXCEPT ![a].pc = place]
XSeek(a, place, goal) == xAct' = [xAct EXCEPT ![a].pc = place, ![a].goal = goal]
XLeave(a) == xAct' = [xAct EXCEPT ![a] = XIdle]
XFault == xUsed.faults < xLimit.faults /\ xUsed' = [xUsed EXCEPT !.faults = @ + 1]

(* markSessionInvalid drops the session; neither is saved. *)
XMarkInvalid == xStatus' = "invalid" /\ xWeb' = NoWeb

-----------------------------------------------------------------------------
(* exec: a request of the actor a, answered, failed, or blocked, when      *)
(* relayRisk makes its challenge the pending one.                          *)
XAsk(a, goal) ==
    \/ /\ xAct' = [xAct EXCEPT ![a].pc = "answer", ![a].goal = goal, ![a].web = xWeb,
                     ![a].verdict = IF xWeb \in xAccepted THEN "ok" ELSE "refused"]
       /\ UNCHANGED <<xUsed, xRisks>>
    \/ /\ XFault
       /\ xAct' = [xAct EXCEPT ![a].pc = "answer", ![a].goal = goal, ![a].web = xWeb,
                     ![a].verdict = "error"]
       /\ UNCHANGED xRisks
    \/ /\ XFault
       /\ xAct' = [xAct EXCEPT ![a].pc = "risk", ![a].goal = goal, ![a].released = FALSE]
       /\ xRisk' = a
       /\ xLatest' = a

Mut_RiskEnds(a) ==
    /\ XAt(a, "risk")
    /\ \/ /\ xAct[a].released
          /\ xAct' = [xAct EXCEPT ![a].pc = "answer", ![a].web = xWeb, ![a].released = FALSE,
                        ![a].verdict = IF xWeb \in xAccepted THEN "ok" ELSE "refused"]
          /\ UNCHANGED xRisk
       \/ /\ xAct' = [xAct EXCEPT ![a].pc = "answer", ![a].released = FALSE, ![a].verdict = "error"]
          /\ xRisk' = Nobody
    /\ UNCHANGED <<xWorld, xUsed, xAuth, xGate, xUi, xLatest, xCrashed>>

(* The challenge was confirmed, and the request is sent once more; or      *)
(* nobody came, which leaves riskCur as it is.                             *)
RiskEnds(a) ==
    /\ XAt(a, "risk")
    /\ \/ /\ xAct[a].released
          /\ xAct' = [xAct EXCEPT ![a].pc = "answer", ![a].web = xWeb, ![a].released = FALSE,
                        ![a].verdict = IF xWeb \in xAccepted THEN "ok" ELSE "refused"]
       \/ xAct' = [xAct EXCEPT ![a].pc = "answer", ![a].released = FALSE, ![a].verdict = "error"]
    /\ UNCHANGED <<xWorld, xUsed, xAuth, xGate, xUi, xRisks, xCrashed>>

(* verifySession, before its request. *)
XProbe(a) ==
    /\ XAt(a, "probe")
    /\ IF xWeb = NoWeb
       THEN XMarkInvalid /\ XGoto(a, "rejected") /\ UNCHANGED <<xUsed, xRisks>>
       ELSE XAsk(a, xAct[a].goal) /\ UNCHANGED <<xWeb, xStatus>>
    /\ UNCHANGED <<xWorld, xFile, xGate, xUi, xCrashed>>

(* verifySession, with the answer; the session it marks, drops or saves    *)
(* may be a later one than it asked about.                                 *)
XAnswered(a) ==
    /\ XAt(a, "answer") /\ xAct[a].goal # "round"
    /\ \/ /\ xAct[a].verdict = "ok"
          /\ xStatus' = IF xAct[a].web = Guest THEN "guest" ELSE "ready"
          /\ xFile' = XCopy(xWeb, xStatus')
          /\ XGoto(a, "verified")
          /\ UNCHANGED xWeb
       \/ /\ xAct[a].verdict = "refused"
          /\ XMarkInvalid
          /\ XGoto(a, "rejected")
          /\ UNCHANGED xFile
       \/ /\ xAct[a].verdict = "error"
          /\ XGoto(a, "unsure")
          /\ UNCHANGED xAuth
    /\ UNCHANGED <<xWorld, xUsed, xGate, xUi, xRisks, xCrashed>>

-----------------------------------------------------------------------------
(* The rounds of the poll loop: the hot board whatever the session, the    *)
(* others with a ready one.                                                *)
XRound ==
    /\ XAt(XLoop, "idle")
    /\ xUsed.rounds < xLimit.rounds
    /\ xLimit.need => xStatus = "ready"
    /\ XGoto(XLoop, "round")
    /\ xUsed' = [xUsed EXCEPT !.rounds = @ + 1]
    /\ UNCHANGED <<xWorld, xAuth, xGate, xUi, xRisks, xCrashed>>

XRoundAsks ==
    /\ XAt(XLoop, "round")
    /\ XAsk(XLoop, "round")
    /\ UNCHANGED <<xWorld, xAuth, xGate, xUi, xCrashed>>

(* handleRoundErr: a refusal leads through the gateway. *)
XRoundEnds ==
    /\ XAt(XLoop, "answer") /\ xAct[XLoop].goal = "round"
    /\ xAct' = [xAct EXCEPT ![XLoop] = IF xAct[XLoop].verdict = "refused"
                                      THEN [XIdle EXCEPT !.pc = "ensure"] ELSE XIdle]
    /\ UNCHANGED <<xWorld, xUsed, xAuth, xGate, xUi, xRisks, xCrashed>>

Mut_XGateway ==
    /\ XAt(XLoop, "idle")
    /\ ~xCooling /\ xStatus \notin {"ready", "guest"}
    /\ XGoto(XLoop, "ensure")
    /\ UNCHANGED <<xWorld, xUsed, xAuth, xGate, xUi, xRisks, xCrashed>>

(* A tick out of the cooldown that finds no session, or, with the          *)
(* notifications on, every half an hour.                                   *)
XGateway ==
    /\ XAt(XLoop, "idle")
    /\ xLimit.need \/ (~xCooling /\ xStatus \notin {"ready", "guest"})
    /\ XGoto(XLoop, "ensure")
    /\ UNCHANGED <<xWorld, xUsed, xAuth, xGate, xUi, xRisks, xCrashed>>

(* ensureSession. *)
XEnsureSession ==
    /\ XAt(XLoop, "ensure")
    /\ CASE xStatus = "ready" -> XSeek(XLoop, "probe", "ready")
         [] xStatus = "guest" /\ ~xLimit.need -> XSeek(XLoop, "probe", "guest")
         [] xStatus # "ready" /\ xLimit.need -> XGoto(XLoop, "schedule")
         [] OTHER -> XGoto(XLoop, "mint")
    /\ UNCHANGED <<xWorld, xUsed, xAuth, xGate, xUi, xRisks, xCrashed>>

XEnsured ==
    /\ xAct[XLoop].goal \in {"ready", "guest"}
    /\ \/ /\ XAt(XLoop, "verified")
          /\ IF xAct[XLoop].goal = "ready" /\ xLimit.need /\ xStatus = "guest"
             THEN XGoto(XLoop, "schedule") /\ UNCHANGED xGate
             ELSE XLeave(XLoop) /\ xCooling' = FALSE /\ xForce' = FALSE
       \/ XAt(XLoop, "unsure") /\ XLeave(XLoop) /\ xForce' = FALSE /\ UNCHANGED xCooling
       \/ /\ XAt(XLoop, "rejected")
          /\ XGoto(XLoop, IF xAct[XLoop].goal = "ready" THEN "schedule" ELSE "mint")
          /\ UNCHANGED xGate
    /\ UNCHANGED <<xWorld, xUsed, xAuth, xUi, xRisks, xCrashed>>

(* ensureGuestSession, for the gateway or for a page: only where there is  *)
(* no session.                                                             *)
EnsureGuest ==
    /\ XAt(XLoop, "mint") \/ XAt(XLoop, "page")
    /\ \/ /\ xWeb = NoWeb
          /\ xWeb' = Guest /\ xStatus' = "guest" /\ xFile' = XCopy(Guest, "guest")
          /\ UNCHANGED xUsed
       \/ xWeb = NoWeb /\ XFault /\ UNCHANGED xAuth
       \/ xWeb # NoWeb /\ UNCHANGED <<xAuth, xUsed>>
    /\ IF xAct[XLoop].pc = "page"
       THEN XGoto(XLoop, "serve") /\ UNCHANGED xForce
       ELSE XLeave(XLoop) /\ xForce' = FALSE
    /\ UNCHANGED <<xWorld, xCooling, xUi, xRisks, xCrashed>>

XScheduleLogin ==
    /\ XAt(XLoop, "schedule")
    /\ xForce' = FALSE
    /\ IF xCooling /\ ~xForce
       THEN XLeave(XLoop) /\ UNCHANGED xCooling
       ELSE XGoto(XLoop, "startUI") /\ xCooling' = TRUE
    /\ UNCHANGED <<xWorld, xUsed, xAuth, xUi, xRisks, xCrashed>>

XCooldownEnds ==
    /\ ~xCrashed /\ xCooling
    /\ xCooling' = FALSE
    /\ UNCHANGED <<xWorld, xUsed, xAuth, xForce, xAct, xUi, xRisks, xCrashed>>

-----------------------------------------------------------------------------
(* startLoginUI: the page that runs, or a new one, for which a guest       *)
(* session is minted before ui.state is read again.                        *)
XStartUI ==
    /\ XAt(XLoop, "startUI")
    /\ \/ xActive # 0 /\ XLeave(XLoop) /\ UNCHANGED xUi
       \/ /\ xActive = 0 /\ xPages < xLimit.pages
          /\ xPages' = xPages + 1
          /\ xActive' = xPages' /\ xState' = xPages' /\ xStop' = xPages'
          /\ XGoto(XLoop, "page")
          /\ UNCHANGED <<xClosed, xWatch, xTimers>>
    /\ UNCHANGED <<xWorld, xUsed, xAuth, xGate, xRisks, xCrashed>>

XServe ==
    /\ XAt(XLoop, "serve")
    /\ \/ /\ xWatch' = [xWatch EXCEPT ![xPages] = IF xState = 0 THEN "nil" ELSE "wait"]
          /\ xAct' = [xAct EXCEPT ![XLoop] = XIdle,
                        ![<<"qr", xPages>>] = [XIdle EXCEPT !.pc = "create", !.page = xState]]
          /\ UNCHANGED <<xActive, xUsed>>
       \/ /\ XFault
          /\ xActive' = 0
          /\ XLeave(XLoop)
          /\ UNCHANGED xWatch
    /\ UNCHANGED <<xWorld, xAuth, xGate, xPages, xState, xStop, xClosed, xTimers, xRisks,
                   xCrashed>>

(* The watcher: its stop channel was closed, or loginTimeout.  It leaves   *)
(* the channel as it is.                                                   *)
XPageEnds(p) ==
    /\ ~xCrashed
    /\ xWatch[p] \in {"wait", "nil"}
    /\ xWatch' = [xWatch EXCEPT ![p] = "shutdown"]
    /\ xActive' = 0
    /\ UNCHANGED <<xWorld, xUsed, xAuth, xGate, xAct, xPages, xState, xStop, xClosed, xTimers,
                   xRisks, xCrashed>>

XPageGone(p) ==
    /\ ~xCrashed
    /\ xWatch[p] = "shutdown"
    /\ xWatch' = [xWatch EXCEPT ![p] = "gone"]
    /\ xState' = 0
    /\ UNCHANGED <<xWorld, xUsed, xAuth, xGate, xAct, xPages, xActive, xStop, xClosed, xTimers,
                   xRisks, xCrashed>>

(* The timer of a finished login; closing a channel twice is a panic. *)
XCloseUI ==
    /\ ~xCrashed
    /\ xTimers > 0
    /\ xTimers' = xTimers - 1
    /\ xClosed' = xClosed \cup {xStop}
    /\ xCrashed' = (xStop \in xClosed)
    /\ UNCHANGED <<xWorld, xUsed, xAuth, xGate, xAct, xPages, xActive, xState, xStop, xWatch,
                   xRisks>>

(* What follows the probe of a login, by a request or the QR flow. *)
XLoginEnds(a) ==
    /\ xAct[a].goal = "login"
    /\ \/ /\ XAt(a, "verified")
          /\ xFile' = XCopy(xWeb, xStatus)
          /\ xTimers' = xTimers + 1
       \/ (XAt(a, "unsure") \/ XAt(a, "rejected")) /\ UNCHANGED <<xFile, xTimers>>
    /\ XLeave(a)
    /\ UNCHANGED <<xWorld, xUsed, xWeb, xStatus, xGate, xPages, xActive, xState, xStop, xClosed,
                   xWatch, xRisks, xCrashed>>

-----------------------------------------------------------------------------
(* The QR flow of a page, which shows what it gets on the page: a nil page *)
(* ends the process.                                                       *)
QrCreate(f) ==
    /\ XAt(f, "create")
    /\ xCrashed' = (xAct[f].page = 0)
    /\ XLeave(f) \/ XGoto(f, "top")
    /\ UNCHANGED <<xWorld, xUsed, xAuth, xGate, xUi, xRisks>>

(* The stop channel of the moment, or the deadline, ends it. *)
XQrTop(f) ==
    /\ XAt(f, "top")
    /\ XLeave(f) \/ (xStop \notin xClosed /\ XGoto(f, "ask"))
    /\ UNCHANGED <<xWorld, xUsed, xAuth, xGate, xUi, xRisks, xCrashed>>

(* qrPollStatus and qrComplete: nothing yet, void, or a user's session. *)
XQrPoll(f) ==
    /\ XAt(f, "ask")
    /\ \/ (XGoto(f, "top") \/ XLeave(f)) /\ UNCHANGED xWeb
       \/ /\ xWeb' \in XUsers \cap xAccepted
          /\ XSeek(f, "probe", "login")
    /\ UNCHANGED <<xWorld, xUsed, xFile, xStatus, xGate, xUi, xRisks, xCrashed>>

(* Requests of the page, answered until its watcher ends it. *)
XServed(p) ==
    /\ ~xCrashed /\ xWatch[p] = "wait"
    /\ xUsed.reqs < xLimit.reqs
    /\ xUsed' = [xUsed EXCEPT !.reqs = @ + 1]

(* /api/verify brings a user's session, /api/cookie any. *)
XLogin(r, p) ==
    /\ XServed(p) /\ XAt(r, "idle")
    /\ xWeb' \in XUsers \cup {Guest}
    /\ xAct' = [xAct EXCEPT ![r].pc = "probe", ![r].goal = "login", ![r].page = p]
    /\ UNCHANGED <<xWorld, xFile, xStatus, xGate, xUi, xRisks, xCrashed>>

(* /api/risk/continue: clearRisk. *)
ClearRisk(p) ==
    /\ ~xCrashed /\ xWatch[p] = "wait"
    /\ xRisk # Nobody
    /\ xRisk' = Nobody
    /\ xAct' = IF xAct[xRisk].pc = "risk" THEN [xAct EXCEPT ![xRisk].released = TRUE] ELSE xAct
    /\ UNCHANGED <<xWorld, xUsed, xAuth, xGate, xUi, xLatest, xCrashed>>

(* The site ends a session. *)
XSiteRejects(w) ==
    /\ ~xCrashed
    /\ w \in xAccepted
    /\ XFault
    /\ xAccepted' = xAccepted \ {w}
    /\ UNCHANGED <<xLimit, xAuth, xGate, xAct, xUi, xRisks, xCrashed>>

-----------------------------------------------------------------------------
XLoopStep ==
    \/ XRound \/ XRoundAsks \/ XRoundEnds \/ XGateway \/ XEnsureSession \/ XEnsured \/ EnsureGuest
    \/ XScheduleLogin \/ XStartUI \/ XServe
XRequest(a) == XProbe(a) \/ XAnswered(a) \/ RiskEnds(a)

XhsNext ==
    \/ XLoopStep \/ XCooldownEnds \/ XCloseUI
    \/ \E a \in XActors : XRequest(a)
    \/ \E a \in XActors \ {XLoop} : XLoginEnds(a)
    \/ \E f \in XFlows : QrCreate(f) \/ XQrTop(f) \/ XQrPoll(f)
    \/ \E p \in XPages : XPageEnds(p) \/ XPageGone(p) \/ ClearRisk(p)
    \/ \E p \in XPages, r \in XRequests : XLogin(r, p)
    \/ \E w \in XUsers \cup {Guest} : XSiteRejects(w)

(* The loop goes on, requests end, by riskTimeout if need be, and so do    *)
(* cooldowns; nobody is made to use a page or to confirm a challenge.      *)
XhsFairness ==
    /\ WF_xVars(XLoopStep \/ XRequest(XLoop))
    /\ WF_xVars(XCooldownEnds)

XhsSpec == XhsInit /\ [][XhsNext]_xVars /\ XhsFairness

-----------------------------------------------------------------------------
(* Properties. *)

(* The same, where notifications are on, for every session that is not a   *)
(* user's, a guest's included.                                             *)
XhsLoginOffered ==
    xLimit.need =>
        \/ xStatus = "ready" \/ xCrashed \/ xPages = xLimit.pages
        \/ \E p \in XPages : xWatch[p] \in {"wait", "nil"}

(* The request that was blocked last can be released from the page as long *)
(* as it waits: its challenge stays the pending one, whatever became of    *)
(* earlier ones that it replaced.                                          *)
LatestIsPending ==
    xLatest # Nobody /\ xAct[xLatest].pc = "risk" /\ ~xAct[xLatest].released => xRisk = xLatest
=============================================================================
