---------------------------- MODULE BiliSession -----------------------------
(***************************************************************************)
(* The session of the bilibili backend (fbprotocols/bilibili).  Three poll *)
(* loops pass the same gateway, ensureSession, before every round, with no *)
(* lock around it: each may find the session missing, rotate the refresh   *)
(* token, or open the login page.  A fourth loop probes a ready session.   *)
(* The page logs in by a cookie, a password, an SMS code or a QR code, and *)
(* is closed by the timer of a login or by its watcher, through one Once.  *)
(*                                                                         *)
(* A request to the site is sent with what is stored at that moment and    *)
(* answered later.  saveAuth is one step.  Of what a page shows the model  *)
(* keeps whether it is "done", which ends the QR flow.  Time is left out:  *)
(* backoffs and cooldowns end, and a page is left alone for too long, at   *)
(* any moment.                                                             *)
(***************************************************************************)
EXTENDS Naturals, FiniteSets

CONSTANTS
    BiliLoops,      \* loops behind ensureSession
    BiliReqs,       \* requests of the login page being handled at the same time
    BSessions,      \* values of SESSDATA
    BMaxPages,      \* login pages made at most
    BLimits         \* bounds of a behaviour, and the ways its user logs in

(* An actor is one thing only; bounds are numbers. *)
ASSUME BActorsAssumption ==
    /\ BiliLoops \cap BiliReqs = {}
    /\ {"check", "qr"} \cap (BiliLoops \cup BiliReqs) = {}
ASSUME BLimitsAssumption ==
    /\ BMaxPages \in Nat
    /\ \A l \in BLimits : {l.pages, l.faults, l.reqs, l.rotations, l.checks} \subseteq Nat

NoSession == "none"
BActors == BiliLoops \cup BiliReqs \cup {"check", "qr"}
BPages == 1..BMaxPages

VARIABLES
    bLimit,         \* the bounds of this behaviour: pages, faults, reqs, rotations, checks
    bUsed,          \* what is used up of them
    bAccepted,      \* sessions the site accepts
    bIssued,        \* the refresh token the site takes; each is taken once
    bFile,          \* bilibili-auth.json
    bSess,          \* the cookie SESSDATA
    bToken,         \* auth.refreshToken; 0 is the empty one
    bStatus,        \* auth.status
    bLimited,       \* rateLimit.backoffUntil lies ahead
    bCooling,       \* reLogin.nextAt lies ahead
    bInFlight,      \* refreshInFlight
    bAct,           \* where each actor is, and what it holds
    bPages,         \* number of login pages made
    bActive,        \* the page of ui.lnAddr while ui.active; 0 is not active
    bStop,          \* the page of ui.stop; 0 is nil
    bOnce,          \* ui.closeOnce is done
    bCloses,        \* how often the stop channel of each page was closed
    bWatch,         \* where the watcher of each page is
    bDone,          \* pages that show a finished login
    bTimers,        \* timers of finished logins
    bSpawned,       \* pages whose QR flow is about to start
    bKey            \* smsCaptchaKey is set

bWorld == <<bLimit, bAccepted, bIssued>>
bAuth == <<bSess, bToken, bStatus>>
bGates == <<bLimited, bCooling, bInFlight>>
bUi == <<bPages, bActive, bStop, bOnce, bCloses, bWatch, bTimers>>
bPage == <<bDone, bSpawned, bKey>>
bVars == <<bLimit, bUsed, bAccepted, bIssued, bFile, bSess, bToken, bStatus, bLimited, bCooling,
           bInFlight, bAct, bPages, bActive, bStop, bOnce, bCloses, bWatch, bDone,
           bTimers, bSpawned, bKey>>

BCopy(s, t, status) == [sess |-> s, token |-> t, status |-> status]
BIdle == [pc |-> "idle", goal |-> "none", page |-> 0, verdict |-> "none", token |-> 0]

BStatuses == {"empty", "ready", "invalid"}
BTokens == 0..(bLimit.rotations + 1)
BCopies == [sess : BSessions \cup {NoSession}, token : BTokens, status : BStatuses]

BTypeOK ==
    /\ bLimit \in BLimits
    /\ bUsed \in [faults : 0..bLimit.faults, reqs : 0..bLimit.reqs,
                  rotations : 0..bLimit.rotations, checks : 0..bLimit.checks]
    /\ bAccepted \subseteq BSessions
    /\ bIssued \in BTokens /\ bToken \in BTokens
    /\ bFile \in BCopies
    /\ bSess \in BSessions \cup {NoSession}
    /\ bStatus \in BStatuses
    /\ {bLimited, bCooling, bInFlight, bOnce, bKey} \subseteq BOOLEAN
    /\ bAct \in [BActors ->
          [pc : {"idle", "ensure", "load", "refresh", "wait", "rotated", "probe", "answer",
                 "failed", "gate", "startUI", "serve", "round", "begin", "top", "ask", "done"},
           goal : {"none", "ensure", "check", "login", "final"}, page : 0..bPages,
           verdict : {"none", "ok", "out", "html", "error", "refused", "envelope"},
           token : BTokens]]
    /\ bPages \in 0..bLimit.pages
    /\ {bActive, bStop} \cup bSpawned \subseteq 0..bPages
    /\ bCloses \in [BPages -> Nat]
    /\ bWatch \in [BPages -> {"none", "wait", "shutdown", "gone"}]
    /\ bDone \subseteq 1..bPages
    /\ bTimers \in Nat

(* Start.  Nothing is loaded before the first round. *)
BiliInit ==
    /\ bLimit \in BLimits
    /\ bUsed = [faults |-> 0, reqs |-> 0, rotations |-> 0, checks |-> 0]
    /\ bAccepted = BSessions
    /\ bIssued = 1
    /\ bFile \in {BCopy(NoSession, 0, "empty")}
                 \cup {BCopy(s, 1, u) : s \in BSessions, u \in {"ready", "invalid"}}
    /\ bSess = NoSession /\ bToken = 0 /\ bStatus = "empty"
    /\ bLimited = FALSE /\ bCooling = FALSE /\ bInFlight = FALSE
    /\ bAct = [a \in BActors |-> BIdle]
    /\ bPages = 0 /\ bActive = 0 /\ bStop = 0 /\ bOnce = FALSE
    /\ bCloses = [p \in BPages |-> 0]
    /\ bWatch = [p \in BPages |-> "none"]
    /\ bDone = {}
    /\ bTimers = 0 /\ bSpawned = {} /\ bKey = FALSE

BAt(a, place) == bAct[a].pc = place
BGoto(a, place) == bAct' = [bAct EXCEPT ![a].pc = place]
BEnter(a, place) == bAct' = [bAct EXCEPT ![a] = [BIdle EXCEPT !.pc = place]]
BLeave(a) == bAct' = [bAct EXCEPT ![a] = BIdle]
BFault == bUsed.faults < bLimit.faults /\ bUsed' = [bUsed EXCEPT !.faults = @ + 1]

(* setAuthStatus, or the assignment, followed by saveAuth. *)
BSetAndSave(s, t, status) ==
    /\ bStatus' = status
    /\ bFile' = BCopy(s, t, status)

-----------------------------------------------------------------------------
(* Where a probe that failed leads the one who asked for it: ensureSession *)
(* and logins see an error, finalizeLogin ignores it.                      *)
ProbeFailed(a) == IF bAct[a].goal = "final" THEN "done" ELSE "failed"

(* probeSession, before its request. *)
BProbe(a) ==
    /\ BAt(a, "probe")
    /\ \/ /\ bSess = NoSession
          /\ BSetAndSave(bSess, bToken, "invalid")
          /\ BGoto(a, ProbeFailed(a))
          /\ UNCHANGED bUsed
       \/ /\ bSess # NoSession
          /\ \/ /\ bAct' = [bAct EXCEPT ![a].pc = "answer",
                               ![a].verdict = IF bSess \in bAccepted THEN "ok" ELSE "out"]
                /\ UNCHANGED bUsed
             \/ /\ BFault
                /\ \E v \in {"html", "error"} :
                      bAct' = [bAct EXCEPT ![a].pc = "answer", ![a].verdict = v]
          /\ UNCHANGED <<bFile, bStatus>>
    /\ UNCHANGED <<bWorld, bSess, bToken, bGates, bUi, bPage>>

(* probeSession, with the answer.  An HTML page makes the session ready,   *)
(* and is a failed probe all the same.                                     *)
BAnswered(a) ==
    /\ BAt(a, "answer")
    /\ \/ /\ bAct[a].verdict = "ok"
          /\ BSetAndSave(bSess, bToken, "ready") /\ bLimited' = FALSE
          /\ CASE bAct[a].goal = "ensure" -> BEnter(a, "round")
               [] bAct[a].goal = "check" -> BLeave(a)
               [] OTHER -> BGoto(a, "done")
       \/ /\ bAct[a].verdict = "out"
          /\ BSetAndSave(bSess, bToken, "invalid") /\ bLimited' = FALSE
          /\ BGoto(a, ProbeFailed(a))
       \/ /\ bAct[a].verdict = "html"
          /\ bStatus' = "ready" /\ bLimited' = TRUE
          /\ BGoto(a, ProbeFailed(a))
          /\ UNCHANGED bFile
       \/ /\ bAct[a].verdict = "error"
          /\ BGoto(a, ProbeFailed(a))
          /\ UNCHANGED <<bStatus, bFile, bLimited>>
    /\ UNCHANGED <<bWorld, bUsed, bSess, bToken, bCooling, bInFlight, bUi, bPage>>

-----------------------------------------------------------------------------
(* A tick of a loop: runAuthRound, and ensureSession up to the first step  *)
(* that waits.                                                             *)
EnsureBegins(l) ==
    /\ BAt(l, "idle")
    /\ ~bLimited
    /\ BGoto(l, CASE bStatus = "ready" -> "round"
                  [] bStatus = "empty" -> "load"
                  [] bStatus = "invalid" -> "refresh")
    /\ UNCHANGED <<bWorld, bUsed, bFile, bAuth, bGates, bUi, bPage>>

(* loadAuth: where the file has no cookie the one that is there stays, but *)
(* not the token and the status.                                           *)
LoadAuth(l) ==
    /\ BAt(l, "load")
    /\ bSess' = IF bFile.sess = NoSession THEN bSess ELSE bFile.sess
    /\ bToken' = bFile.token
    /\ bStatus' = IF bFile.status = "invalid" THEN "invalid"
                  ELSE IF bFile.sess # NoSession THEN "ready" ELSE "empty"
    /\ BGoto(l, IF bStatus' = "ready" THEN "round" ELSE "gate")
    /\ UNCHANGED <<bWorld, bUsed, bFile, bGates, bUi, bPage>>

(* The requests of a round; an HTML page begins a backoff. *)
BRound(l) ==
    /\ BAt(l, "round")
    /\ BLeave(l)
    /\ \/ UNCHANGED <<bUsed, bLimited>>
       \/ BFault /\ bLimited' = TRUE
    /\ UNCHANGED <<bWorld, bFile, bAuth, bCooling, bInFlight, bUi, bPage>>

(* What the site does with the token it is sent.  It takes a token once;   *)
(* its answer may be lost, or be an envelope, of which the code reads      *)
(* status 0 and no token.                                                  *)
Rotate(l) ==
    \/ /\ bToken = bIssued /\ bUsed.rotations < bLimit.rotations
       /\ bIssued' = bIssued + 1
       /\ \/ /\ bUsed' = [bUsed EXCEPT !.rotations = @ + 1]
             /\ bAct' = [bAct EXCEPT ![l].pc = "rotated", ![l].verdict = "ok",
                                     ![l].token = bIssued']
          \/ /\ bUsed.faults < bLimit.faults
             /\ bUsed' = [bUsed EXCEPT !.rotations = @ + 1, !.faults = @ + 1]
             /\ bAct' = [bAct EXCEPT ![l].pc = "rotated", ![l].verdict = "error"]
    \/ /\ bToken # bIssued \/ bUsed.rotations = bLimit.rotations
       /\ \E v \in {"refused", "envelope"} :
             bAct' = [bAct EXCEPT ![l].pc = "rotated", ![l].verdict = v]
       /\ UNCHANGED <<bUsed, bIssued>>
    \/ /\ BFault
       /\ bAct' = [bAct EXCEPT ![l].pc = "rotated", ![l].verdict = "error"]
       /\ UNCHANGED bIssued

Mut_RefreshBegins(l) ==
    /\ BAt(l, "refresh")
    /\ \/ /\ bToken = 0 \/ bSess = NoSession
          /\ BGoto(l, "gate")
          /\ UNCHANGED <<bInFlight, bUsed, bIssued>>
       \/ /\ bToken # 0 /\ bSess # NoSession
          /\ bInFlight' = TRUE
          /\ Rotate(l)
    /\ UNCHANGED <<bLimit, bAccepted, bFile, bAuth, bLimited, bCooling, bUi, bPage>>

(* refreshCookies: one rotation at a time, others wait for it, though not  *)
(* for long.                                                               *)
RefreshBegins(l) ==
    /\ BAt(l, "refresh")
    /\ \/ /\ bInFlight
          /\ BGoto(l, "wait")
          /\ UNCHANGED <<bInFlight, bUsed, bIssued>>
       \/ /\ ~bInFlight
          /\ bToken = 0 \/ bSess = NoSession
          /\ BGoto(l, "gate")
          /\ UNCHANGED <<bInFlight, bUsed, bIssued>>
       \/ /\ ~bInFlight
          /\ bToken # 0 /\ bSess # NoSession
          /\ bInFlight' = TRUE
          /\ Rotate(l)
    /\ UNCHANGED <<bLimit, bAccepted, bFile, bAuth, bLimited, bCooling, bUi, bPage>>

RefreshWaited(l) ==
    /\ BAt(l, "wait")
    /\ bAct' = IF bStatus = "ready"
               THEN [bAct EXCEPT ![l].pc = "probe", ![l].goal = "ensure"]
               ELSE [bAct EXCEPT ![l].pc = "gate"]
    /\ UNCHANGED <<bWorld, bUsed, bFile, bAuth, bGates, bUi, bPage>>

RefreshEnds(l) ==
    /\ BAt(l, "rotated")
    /\ bInFlight' = FALSE
    /\ \/ /\ bAct[l].verdict \in {"ok", "envelope"}
          /\ bSess' \in {bSess} \cup (IF bAct[l].verdict = "ok" THEN bAccepted ELSE {})
          /\ bToken' = bAct[l].token
          /\ BSetAndSave(bSess', bToken', "ready")
          /\ bAct' = [bAct EXCEPT ![l] = [BIdle EXCEPT !.pc = "probe", !.goal = "ensure"]]
       \/ /\ bAct[l].verdict \in {"refused", "error"}
          /\ UNCHANGED <<bSess, bToken>>
          /\ BSetAndSave(bSess, bToken, "invalid")
          /\ BEnter(l, "gate")
    /\ UNCHANGED <<bWorld, bUsed, bLimited, bCooling, bUi, bPage>>

(* The probe that confirms a rotation failed. *)
NotConfirmed(l) ==
    /\ BAt(l, "failed")
    /\ BSetAndSave(bSess, bToken, "invalid")
    /\ BEnter(l, "gate")
    /\ UNCHANGED <<bWorld, bUsed, bSess, bToken, bGates, bUi, bPage>>

(* The loop that probes a ready session now and then. *)
PeriodicCheck ==
    /\ \/ /\ BAt("check", "idle")
          /\ bStatus = "ready"
          /\ bUsed.checks < bLimit.checks
          /\ bUsed' = [bUsed EXCEPT !.checks = @ + 1]
          /\ bAct' = [bAct EXCEPT !["check"].pc = "probe", !["check"].goal = "check"]
       \/ BAt("check", "failed") /\ BLeave("check") /\ UNCHANGED bUsed
    /\ UNCHANGED <<bWorld, bFile, bAuth, bGates, bUi, bPage>>

-----------------------------------------------------------------------------
(* loginGate. *)
LoginGate(l) ==
    /\ BAt(l, "gate")
    /\ IF bCooling THEN BLeave(l) ELSE BGoto(l, "startUI")
    /\ UNCHANGED <<bWorld, bUsed, bFile, bAuth, bGates, bUi, bPage>>

(* startLoginUI, under ui.mu: the page that is there, or a new one. *)
BStartUI(l) ==
    /\ BAt(l, "startUI")
    /\ \/ /\ bActive # 0
          /\ BLeave(l)
          /\ UNCHANGED bUi
       \/ /\ bActive = 0 /\ bPages < bLimit.pages
          /\ bPages' = bPages + 1
          /\ bActive' = bPages' /\ bStop' = bPages' /\ bOnce' = FALSE
          /\ bAct' = [bAct EXCEPT ![l].pc = "serve", ![l].page = bPages']
          /\ UNCHANGED <<bCloses, bWatch, bTimers>>
    /\ UNCHANGED <<bWorld, bUsed, bFile, bAuth, bGates, bPage>>

(* waitServing: the page is up, with its watcher and its QR flow, or is    *)
(* given up and the gate armed.                                            *)
BServe(l) ==
    /\ BAt(l, "serve")
    /\ \/ /\ bWatch' = [bWatch EXCEPT ![bAct[l].page] = "wait"]
          /\ bSpawned' = bSpawned \cup {bAct[l].page}
          /\ UNCHANGED <<bActive, bCooling, bUsed>>
       \/ /\ BFault
          /\ bActive' = 0
          /\ bCooling' = TRUE
          /\ UNCHANGED <<bWatch, bSpawned>>
    /\ BLeave(l)
    /\ UNCHANGED <<bWorld, bFile, bAuth, bLimited, bInFlight, bPages, bStop, bOnce, bCloses,
                   bTimers, bDone, bKey>>

(* ui.closeOnce, which belongs to the page of the moment. *)
CloseOnce ==
    /\ bOnce' = TRUE
    /\ bCloses' = IF bOnce THEN bCloses ELSE [bCloses EXCEPT ![bStop] = @ + 1]

Mut_BPageEnds(p) ==
    /\ bWatch[p] = "wait"
    /\ bWatch' = [bWatch EXCEPT ![p] = "shutdown"]
    /\ bActive' = 0
    /\ CloseOnce
    /\ UNCHANGED <<bWorld, bUsed, bFile, bAuth, bGates, bAct, bPages, bStop, bTimers, bPage>>

(* The watcher: the stop channel was closed or the page was left alone.    *)
(* The page stays the active one until its server is down.                 *)
BPageEnds(p) ==
    /\ bWatch[p] = "wait"
    /\ bWatch' = [bWatch EXCEPT ![p] = "shutdown"]
    /\ CloseOnce
    /\ UNCHANGED <<bWorld, bUsed, bFile, bAuth, bGates, bAct, bPages, bActive, bStop, bTimers,
                   bPage>>

BPageGone(p) ==
    /\ bWatch[p] = "shutdown"
    /\ bWatch' = [bWatch EXCEPT ![p] = "gone"]
    /\ bActive' = 0
    /\ UNCHANGED <<bWorld, bUsed, bFile, bAuth, bGates, bAct, bPages, bStop, bOnce, bCloses,
                   bTimers, bPage>>

(* The timer of a finished login. *)
BCloseUI ==
    /\ bTimers > 0
    /\ bTimers' = bTimers - 1
    /\ CloseOnce
    /\ UNCHANGED <<bWorld, bUsed, bFile, bAuth, bGates, bAct, bPages, bActive, bStop, bWatch,
                   bPage>>

-----------------------------------------------------------------------------
(* finalizeLogin: a probe whose outcome it ignores, and what follows it. *)
BFinalize(a) ==
    /\ BAt(a, "done")
    /\ \/ /\ bAct[a].goal = "login"
          /\ bAct' = [bAct EXCEPT ![a].pc = "probe", ![a].goal = "final"]
          /\ UNCHANGED <<bFile, bDone, bCooling, bTimers>>
       \/ /\ bAct[a].goal = "final"
          /\ bDone' = bDone \cup {bAct[a].page}
          /\ bFile' = BCopy(bSess, bToken, bStatus)
          /\ bCooling' = FALSE
          /\ bTimers' = bTimers + 1
          /\ BLeave(a)
    /\ UNCHANGED <<bWorld, bUsed, bAuth, bLimited, bInFlight, bPages, bActive, bStop, bOnce,
                   bCloses, bWatch, bSpawned, bKey>>

(* A login whose probe failed is shown, over what the page showed. *)
BLoginFails(a) ==
    /\ BAt(a, "failed")
    /\ bDone' = bDone \ {bAct[a].page}
    /\ BLeave(a)
    /\ UNCHANGED <<bWorld, bUsed, bFile, bAuth, bGates, bUi, bSpawned, bKey>>

(* The QR flow: one at a time. *)
BQrStarts(p) ==
    /\ p \in bSpawned
    /\ bSpawned' = bSpawned \ {p}
    /\ IF bAct["qr"] = BIdle
       THEN bAct' = [bAct EXCEPT !["qr"].pc = "begin", !["qr"].page = p]
       ELSE UNCHANGED bAct
    /\ UNCHANGED <<bWorld, bUsed, bFile, bAuth, bGates, bUi, bDone, bKey>>

(* A code at the first attempt, or none: one that a later attempt brings   *)
(* does not clear the error of the first.                                  *)
BQrBegin ==
    /\ BAt("qr", "begin")
    /\ bDone' = bDone \ {bAct["qr"].page}
    /\ BLeave("qr") \/ ("qr" \in bLimit.ways /\ BGoto("qr", "top"))
    /\ UNCHANGED <<bWorld, bUsed, bFile, bAuth, bGates, bUi, bSpawned, bKey>>

(* The top of the loop: the stop channel of the moment, a finished login   *)
(* and the deadline end the flow.                                          *)
BQrTop ==
    /\ BAt("qr", "top")
    /\ \/ BLeave("qr")
       \/ /\ bCloses[bStop] = 0 /\ bAct["qr"].page \notin bDone
          /\ BGoto("qr", "ask")
    /\ UNCHANGED <<bWorld, bUsed, bFile, bAuth, bGates, bUi, bPage>>

(* The answer: none yet or scanned, void, or confirmed, with a session or  *)
(* with the one that is there.                                             *)
BQrPoll ==
    /\ BAt("qr", "ask")
    /\ \/ BGoto("qr", "top") /\ UNCHANGED <<bSess, bToken>>
       \/ BLeave("qr") /\ UNCHANGED <<bSess, bToken>>
       \/ /\ bAct["qr"].page \notin bDone
          /\ bSess' \in bAccepted \cup ({bSess} \ {NoSession})
          /\ bToken' = bIssued
          /\ bAct' = [bAct EXCEPT !["qr"].pc = "probe", !["qr"].goal = "login"]
    /\ UNCHANGED <<bWorld, bUsed, bFile, bStatus, bGates, bUi, bPage>>

(* Requests of the page, answered until its watcher ends it. *)
BServed(p, way) ==
    /\ bWatch[p] = "wait"
    /\ way \in bLimit.ways
    /\ bUsed.reqs < bLimit.reqs
    /\ bUsed' = [bUsed EXCEPT !.reqs = @ + 1]

QrRestart(p) ==
    /\ BServed(p, "qr")
    /\ bDone' = bDone \ {p}
    /\ bSpawned' = bSpawned \cup {p}
    /\ UNCHANGED <<bWorld, bFile, bAuth, bGates, bAct, bUi, bKey>>

(* /api/cookie: any session, with a token or without. *)
BCookieLogin(r, p) ==
    /\ BServed(p, "cookie") /\ BAt(r, "idle")
    /\ bSess' \in BSessions
    /\ bToken' \in {0, bIssued}
    /\ bAct' = [bAct EXCEPT ![r].pc = "probe", ![r].goal = "login", ![r].page = p]
    /\ UNCHANGED <<bWorld, bFile, bStatus, bGates, bUi, bPage>>

(* /api/sms. *)
SmsSend(p) ==
    /\ BServed(p, "sms")
    /\ \/ bKey' = TRUE /\ UNCHANGED bDone
       \/ bDone' \in {bDone, bDone \ {p}} /\ UNCHANGED bKey
    /\ UNCHANGED <<bWorld, bFile, bAuth, bGates, bAct, bUi, bSpawned>>

(* /api/password and /api/smslogin: an answer without a cookie leaves the  *)
(* one that is there, which passes for a login.                            *)
FormLogin(r, p, way) ==
    /\ BServed(p, way) /\ BAt(r, "idle")
    /\ \/ bDone' = bDone \ {p} /\ UNCHANGED <<bAct, bSess>>
       \/ /\ way = "sms" => bKey
          /\ bSess' \in bAccepted \cup ({bSess} \ {NoSession})
          /\ bAct' = [bAct EXCEPT ![r].pc = "done", ![r].goal = "login", ![r].page = p]
          /\ UNCHANGED bDone
    /\ UNCHANGED <<bWorld, bFile, bToken, bStatus, bGates, bUi, bSpawned, bKey>>

-----------------------------------------------------------------------------
BBackoffEnds ==
    /\ bLimited
    /\ bLimited' = FALSE
    /\ UNCHANGED <<bWorld, bUsed, bFile, bAuth, bCooling, bInFlight, bAct, bUi, bPage>>

BCooldownEnds ==
    /\ bCooling
    /\ bCooling' = FALSE
    /\ UNCHANGED <<bWorld, bUsed, bFile, bAuth, bLimited, bInFlight, bAct, bUi, bPage>>

(* The site ends a session. *)
BSiteRejects(c) ==
    /\ c \in bAccepted
    /\ BFault
    /\ bAccepted' = bAccepted \ {c}
    /\ UNCHANGED <<bLimit, bIssued, bFile, bAuth, bGates, bAct, bUi, bPage>>

Gateway(l) ==
    \/ EnsureBegins(l) \/ LoadAuth(l) \/ BRound(l) \/ RefreshBegins(l) \/ RefreshWaited(l)
    \/ RefreshEnds(l) \/ NotConfirmed(l) \/ LoginGate(l) \/ BStartUI(l) \/ BServe(l)
BProbing(a) == BProbe(a) \/ BAnswered(a)
BQrFlow == BQrBegin \/ BQrTop \/ BQrPoll
BLoginEnds(a) == BFinalize(a) \/ BLoginFails(a)
BUser(p) ==
    \/ QrRestart(p) \/ SmsSend(p)
    \/ \E r \in BiliReqs : BCookieLogin(r, p) \/ \E w \in {"password", "sms"} : FormLogin(r, p, w)

BiliNext ==
    \/ PeriodicCheck \/ BQrFlow \/ BCloseUI \/ BBackoffEnds \/ BCooldownEnds
    \/ \E l \in BiliLoops : Gateway(l)
    \/ \E a \in BActors : BProbing(a)
    \/ \E a \in BiliReqs \cup {"qr"} : BLoginEnds(a)
    \/ \E p \in BPages : BPageEnds(p) \/ BPageGone(p) \/ BUser(p)
    \/ \E p \in bSpawned : BQrStarts(p)
    \/ \E c \in BSessions : BSiteRejects(c)

(* Loops tick and their requests end; nobody is made to use a page, and a  *)
(* page may stay for as long as it likes.                                  *)
BiliFairness ==
    /\ \A l \in BiliLoops : WF_bVars(Gateway(l) \/ BProbing(l))
    /\ WF_bVars(BBackoffEnds) /\ WF_bVars(BCooldownEnds)
    /\ \A p \in BPages : WF_bVars(BPageGone(p))

BiliSpec == BiliInit /\ [][BiliNext]_bVars /\ BiliFairness

-----------------------------------------------------------------------------
(* Properties. *)

(* Two servers never run beside each other, and none is opened while an    *)
(* earlier one still shuts down.                                           *)
OneLoginServer ==
    Cardinality({p \in BPages : bWatch[p] \in {"wait", "shutdown"}}
                \cup {bAct[l].page : l \in {k \in BiliLoops : bAct[k].pc = "serve"}}) <= 1

(* The refresh token, which the site takes once, is never sent by two      *)
(* loops at the same time.                                                 *)
OneRotation == Cardinality({l \in BiliLoops : bAct[l].pc = "rotated"}) <= 1

(* The loops that find the session missing at the same time share what     *)
(* brings it back: one login page, and one rotation of the refresh token.  *)
OneAtATime == OneLoginServer /\ OneRotation

(* What a session that is not ready must get to: the rotation or a login   *)
(* brings it back, or there is a login page.                               *)
BiliLoginOffered ==
    \/ bStatus = "ready" \/ bPages = bLimit.pages
    \/ \E p \in BPages : bWatch[p] = "wait"
=============================================================================
