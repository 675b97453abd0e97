---------------------------- MODULE ZhihuSession ----------------------------
(***************************************************************************)
(* The session of the zhihu backend (fbprotocols/zhihu): one credential,   *)
(* the cookie z_c0, that the poll loop probes, and that a login page       *)
(* served on localhost replaces, by a scanned QR code, a phone code or a   *)
(* pasted cookie.  The loop is the only one that opens a page; the page's  *)
(* handlers, its QR flow, its watcher and the timer of a finished login    *)
(* run beside it and share ui and sess with it.                            *)
(*                                                                         *)
(* A request to the site is two steps, sent with the credential of that    *)
(* moment and answered later.  So is saveAuth: a copy of the session, then *)
(* the write of the file.  Time is left out: waits end at any moment.      *)
(***************************************************************************)
EXTENDS Naturals, FiniteSets

CONSTANTS
    ZhihuReqs,      \* requests of the login page being handled at the same time
    ZCreds,         \* values of z_c0
    ZNew,           \* the one a login by phone or QR code brings
    ZMaxPages,      \* login pages made at most
    ZLimits         \* bounds of a behaviour, and the ways its user logs in

(* An actor is one thing only; a login brings a credential; bounds are     *)
(* numbers.                                                                *)
ASSUME ZActorsAssumption == ZhihuReqs \cap {"loop", "qr", "free"} = {}
ASSUME ZNewAssumption == ZNew \in ZCreds
ASSUME ZLimitsAssumption ==
    /\ ZMaxPages \in Nat
    /\ \A l \in ZLimits : {l.pages, l.faults, l.reqs, l.rounds} \subseteq Nat

NoCred == "none"
Shed == 3                       \* meHTMLShedLimit
ZActors == {"loop", "qr"} \cup ZhihuReqs
ZPages == 1..ZMaxPages

VARIABLES
    zLimit,         \* the bounds of this behaviour: pages, requests, faults, rounds
    zUsed,          \* what is used up of them
    zAccepted,      \* credentials the site accepts
    zFile,          \* zhihu-auth.json
    zCred,          \* sess.zC0
    zStatus,        \* sess.status
    zSheds,         \* meHTMLSheds
    zCooling,       \* reLogin.nextAt lies ahead
    zForce,         \* the first ensureSession, which ignores it
    zAct,           \* where each actor is, and what it holds
    zPages,         \* number of login pages made
    zActive,        \* the page of ui.lnAddr; 0 is not active
    zState,         \* the page of ui.state; 0 is nil
    zStop,          \* the page of ui.stop; 0 is nil
    zOpened,        \* ui.opened
    zClosed,        \* pages whose stop channel is closed
    zWatch,         \* where the watcher of each page is
    zTimers,        \* timers of finished logins
    zStage,         \* what each page shows
    zRisk,          \* pages that show a verification link
    zSpawned,       \* pages whose QR flow is about to start; 0 is a nil page
    zMu,            \* who holds phoneClientMu
    zGuest,         \* the phone client has its guest token
    zLogins,        \* history: logins that succeeded
    zOverlaps,      \* history: pages that started while another shut down
    zCrashed        \* a panic ended the process

world == <<zLimit, zUsed, zAccepted>>
sess == <<zCred, zStatus, zSheds>>
gate == <<zCooling, zForce>>
ui == <<zPages, zActive, zState, zStop, zOpened, zClosed, zWatch, zTimers, zOverlaps>>
page == <<zStage, zRisk, zCrashed>>
phone == <<zMu, zGuest>>
zVars == <<zLimit, zUsed, zAccepted, zFile, zCred, zStatus, zSheds, zCooling, zForce, zAct,
           zPages, zActive, zState, zStop, zOpened, zClosed, zWatch, zTimers, zStage, zRisk,
           zSpawned, zMu, zGuest, zLogins, zOverlaps, zCrashed>>

Copy(c, s) == [cred |-> c, status |-> s]
NoCopy == Copy(NoCred, "nothing")
Idle == [pc |-> "idle", page |-> 0, cred |-> NoCred, verdict |-> "none", write |-> NoCopy]

ZStatuses == {"empty", "ready", "invalid"}
ZCopies == [cred : ZCreds \cup {NoCred}, status : ZStatuses]
ZStages == {"none", "nil", "idle", "waiting", "scanned", "captcha", "risk", "done", "expired",
            "failed"}
ZPcs == {"idle", "feed", "ensure", "probe", "answer", "verified", "unsure", "rejected", "schedule",
         "startUI", "serve", "open", "begin", "top", "ask", "phone", "captcha", "verify", "send",
         "solve", "sign", "reset", "final", "finish"}

(* The values of the variables; what the loop, the flow and the requests   *)
(* hold belongs to pages that exist.                                       *)
ZTypeOK ==
    /\ zLimit \in ZLimits
    /\ zAccepted \subseteq ZCreds
    /\ zFile \in ZCopies
    /\ zCred \in ZCreds \cup {NoCred}
    /\ zStatus \in ZStatuses
    /\ {zCooling, zForce, zOpened, zGuest, zCrashed} \subseteq BOOLEAN
    /\ zAct \in [ZActors -> [pc : ZPcs, page : 0..zPages, cred : ZCreds \cup {NoCred},
                             verdict : {"ok", "401", "html", "error", "absent", "none"},
                             write : ZCopies \cup {NoCopy}]]
    /\ zPages \in 0..zLimit.pages
    /\ {zActive, zState, zStop} \subseteq 0..zPages
    /\ zClosed \cup zRisk \subseteq 1..zPages
    /\ zSpawned \subseteq 0..zPages
    /\ zStage \in [ZPages -> ZStages]
    /\ zWatch \in [ZPages -> {"none", "wait", "shutdown", "gone"}]
    /\ zMu \in ZhihuReqs \cup {"free"}
    /\ zTimers \in 0..zLogins
    /\ {zSheds, zLogins, zOverlaps} \subseteq Nat
    /\ zUsed \in [faults : 0..zLimit.faults, reqs : 0..zLimit.reqs, rounds : 0..zLimit.rounds]

(* loadAuth: a credential that was marked invalid is left in the file. *)
LoadedCred(file) == IF file.status = "invalid" THEN NoCred ELSE file.cred

(* Start, after an earlier run that left a file or none. *)
ZhihuInit ==
    /\ zLimit \in ZLimits
    /\ zUsed = [faults |-> 0, reqs |-> 0, rounds |-> 0]
    /\ zAccepted = ZCreds
    /\ zFile \in {Copy(NoCred, "empty")} \cup [cred : ZCreds, status : {"ready", "invalid"}]
    /\ zCred = LoadedCred(zFile)
    /\ zStatus = zFile.status
    /\ zSheds = 0
    /\ zCooling = FALSE /\ zForce = TRUE
    /\ zAct = [a \in ZActors |-> IF a = "loop" THEN [Idle EXCEPT !.pc = "ensure"] ELSE Idle]
    /\ zPages = 0 /\ zActive = 0 /\ zState = 0 /\ zStop = 0 /\ zOpened = FALSE
    /\ zClosed = {} /\ zTimers = 0 /\ zRisk = {} /\ zSpawned = {}
    /\ zStage = [p \in ZPages |-> "none"]
    /\ zWatch = [p \in ZPages |-> "none"]
    /\ zMu = "free" /\ zGuest = FALSE
    /\ zLogins = 0 /\ zOverlaps = 0
    /\ zCrashed = FALSE

(* The actor a is at a place, and has no file to write before it goes on. *)
At(a, place) == ~zCrashed /\ zAct[a].pc = place /\ zAct[a].write = NoCopy
Goto(a, place) == zAct' = [zAct EXCEPT ![a].pc = place]
Leave(a) == zAct' = [zAct EXCEPT ![a] = Idle]

(* saveAuth: what is copied under the lock reaches the file later. *)
GotoSaving(a, place, copy) == zAct' = [zAct EXCEPT ![a].pc = place, ![a].write = copy]

(* What the page p shows; a nil page ends the process. *)
Show(p, stage) ==
    /\ zStage' = IF p = 0 THEN zStage ELSE [zStage EXCEPT ![p] = stage]
    /\ zCrashed' = (p = 0)

Faulty == zUsed.faults < zLimit.faults
Fault == zUsed' = [zUsed EXCEPT !.faults = @ + 1]

-----------------------------------------------------------------------------
WriteFile(a) ==
    /\ ~zCrashed
    /\ zAct[a].write # NoCopy
    /\ zFile' = zAct[a].write
    /\ zAct' = [zAct EXCEPT ![a].write = NoCopy]
    /\ UNCHANGED <<world, sess, gate, ui, page, zSpawned, phone, zLogins>>

(* markSessionInvalid saves the session it finds. *)
MarkSessionInvalid(a, place) ==
    /\ zStatus' = "invalid"
    /\ GotoSaving(a, place, Copy(zCred, "invalid"))

(* getRawRef sends with the cookie of the moment. *)
Ask(a, place) ==
    \E v \in {IF zCred \in zAccepted THEN "ok" ELSE "401"}
              \cup (IF Faulty THEN {"html", "error"} ELSE {}) :
        /\ zAct' = [zAct EXCEPT ![a].pc = place, ![a].cred = zCred, ![a].verdict = v]
        /\ zUsed' = [zUsed EXCEPT !.faults = IF v \in {"html", "error"} THEN @ + 1 ELSE @,
                                  !.rounds = IF place = "feed" THEN @ + 1 ELSE @]

(* verifySession, before its request: without a credential none is sent.   *)
ProbeSession(a) ==
    /\ At(a, "probe")
    /\ IF zCred = NoCred
       THEN /\ zStatus' = "invalid"
            /\ zAct' = [zAct EXCEPT ![a].pc = "rejected", ![a].verdict = "absent",
                                    ![a].write = Copy(NoCred, "invalid")]
            /\ UNCHANGED zUsed
       ELSE Ask(a, "answer") /\ UNCHANGED zStatus
    /\ UNCHANGED <<zLimit, zAccepted, zFile, zCred, zSheds, gate, ui, page, zSpawned, phone,
                   zLogins>>

Mut_SessionAnswered(a) ==
    /\ At(a, "answer")
    /\ \/ /\ zAct[a].verdict = "ok"
          /\ zStatus' = "ready" /\ zSheds' = 0
          /\ Goto(a, "verified")
       \/ /\ zAct[a].verdict # "ok"
          /\ MarkSessionInvalid(a, "rejected")
          /\ UNCHANGED zSheds
    /\ UNCHANGED <<world, zFile, zCred, gate, ui, page, zSpawned, phone, zLogins>>

(* verifySession, with the answer; the session it marks may be a later one. *)
SessionAnswered(a) ==
    /\ At(a, "answer")
    /\ \/ /\ zAct[a].verdict = "ok"
          /\ zStatus' = "ready" /\ zSheds' = 0
          /\ Goto(a, "verified")
       \/ /\ zAct[a].verdict = "401"
          /\ MarkSessionInvalid(a, "rejected")
          /\ UNCHANGED zSheds
       \/ /\ zAct[a].verdict = "html"
          /\ zSheds' = zSheds + 1
          /\ IF zSheds' < Shed
             THEN Goto(a, "unsure") /\ UNCHANGED zStatus
             ELSE MarkSessionInvalid(a, "rejected")
       \/ /\ zAct[a].verdict = "error"
          /\ Goto(a, "unsure")
          /\ UNCHANGED <<zStatus, zSheds>>
    /\ UNCHANGED <<world, zFile, zCred, gate, ui, page, zSpawned, phone, zLogins>>

-----------------------------------------------------------------------------
(* The poll loop.  A feed is fetched only while the session is ready. *)
Round ==
    /\ At("loop", "idle")
    /\ zStatus = "ready"
    /\ zUsed.rounds < zLimit.rounds
    /\ IF zCred = NoCred
       THEN Goto("loop", "ensure") /\ UNCHANGED zUsed
       ELSE Ask("loop", "feed")
    /\ UNCHANGED <<zLimit, zAccepted, zFile, sess, gate, ui, page, zSpawned, phone, zLogins>>

(* handleRoundErr: a session that was probed a moment ago is not probed    *)
(* again for an HTML answer.                                               *)
HandleRoundErr ==
    /\ At("loop", "feed")
    /\ \/ zAct["loop"].verdict = "401" /\ MarkSessionInvalid("loop", "ensure")
       \/ zAct["loop"].verdict = "html" /\ Goto("loop", "ensure") /\ UNCHANGED zStatus
       \/ /\ zAct["loop"].verdict # "401"
          /\ zAct["loop"].verdict = "html" => zStatus = "ready"
          /\ Leave("loop")
          /\ UNCHANGED zStatus
    /\ UNCHANGED <<world, zFile, zCred, zSheds, gate, ui, page, zSpawned, phone, zLogins>>

(* A tick finds the session not ready and no cooldown. *)
ReloginDue ==
    /\ At("loop", "idle")
    /\ zStatus # "ready" /\ ~zCooling
    /\ Goto("loop", "ensure")
    /\ UNCHANGED <<world, zFile, sess, gate, ui, page, zSpawned, phone, zLogins>>

(* Every half an hour, whatever the state of the session. *)
AuthCheck ==
    /\ At("loop", "idle")
    /\ zUsed.rounds < zLimit.rounds
    /\ zUsed' = [zUsed EXCEPT !.rounds = @ + 1]
    /\ Goto("loop", "ensure")
    /\ UNCHANGED <<zLimit, zAccepted, zFile, sess, gate, ui, page, zSpawned, phone, zLogins>>

EnsureSession ==
    /\ At("loop", "ensure")
    /\ Goto("loop", IF zCred # NoCred THEN "probe" ELSE "schedule")
    /\ UNCHANGED <<world, zFile, sess, gate, ui, page, zSpawned, phone, zLogins>>

(* What ensureSession does with the outcome of the probe. *)
SessionEnsured ==
    /\ \/ /\ At("loop", "verified") \/ At("loop", "unsure")
          /\ zCooling' = (zCooling /\ zAct["loop"].pc = "unsure")
          /\ zForce' = FALSE
          /\ Leave("loop")
          /\ UNCHANGED <<zCred, zStatus>>
       \/ /\ At("loop", "rejected")
          /\ MarkSessionInvalid("loop", "schedule")
          /\ zCred' = NoCred
          /\ UNCHANGED gate
    /\ UNCHANGED <<world, zFile, zSheds, ui, page, zSpawned, phone, zLogins>>

ScheduleLogin ==
    /\ At("loop", "schedule")
    /\ zForce' = FALSE
    /\ IF zCooling /\ ~zForce
       THEN Leave("loop") /\ UNCHANGED zCooling
       ELSE Goto("loop", "startUI") /\ zCooling' = TRUE
    /\ UNCHANGED <<world, zFile, sess, ui, page, zSpawned, phone, zLogins>>

CooldownEnds ==
    /\ ~zCrashed
    /\ zCooling
    /\ zCooling' = FALSE
    /\ UNCHANGED <<world, zFile, sess, zForce, zAct, ui, page, zSpawned, phone, zLogins>>

-----------------------------------------------------------------------------
(* startLoginUI, under ui.mu: the page that runs, or a new one. *)
StartLoginUI ==
    /\ At("loop", "startUI")
    /\ \/ /\ zActive # 0
          /\ Goto("loop", "open")
          /\ UNCHANGED <<ui, zStage>>
       \/ /\ zActive = 0 /\ zPages < zLimit.pages
          /\ zPages' = zPages + 1
          /\ zActive' = zPages' /\ zState' = zPages' /\ zStop' = zPages'
          /\ zOpened' = FALSE
          /\ zStage' = [zStage EXCEPT ![zPages'] = "idle"]
          /\ zOverlaps' = zOverlaps + Cardinality({p \in ZPages : zWatch[p] = "shutdown"})
          /\ Goto("loop", "serve")
          /\ UNCHANGED <<zClosed, zWatch, zTimers>>
    /\ UNCHANGED <<world, zFile, sess, gate, zRisk, zCrashed, zSpawned, phone, zLogins>>

(* startLoginUI reads ui.state again, outside the lock, for the handlers,  *)
(* and starts the watcher and the QR flow, unless the listener is not up.  *)
Serve ==
    /\ At("loop", "serve")
    /\ \/ /\ zWatch' = [zWatch EXCEPT ![zPages] = "wait"]
          /\ zStage' = IF zState = 0 THEN [zStage EXCEPT ![zPages] = "nil"] ELSE zStage
          /\ zSpawned' = zSpawned \cup {zState}
          /\ Goto("loop", "open")
          /\ UNCHANGED <<zActive, zOpened, zUsed>>
       \/ /\ Faulty /\ Fault
          /\ zActive' = 0 /\ zOpened' = FALSE
          /\ Leave("loop")
          /\ UNCHANGED <<zStage, zSpawned, zWatch>>
    /\ UNCHANGED <<zLimit, zAccepted, zFile, sess, gate, zPages, zState, zStop, zClosed, zTimers,
                   zOverlaps, zRisk, zCrashed, phone, zLogins>>

OpenLoginBrowserOnce ==
    /\ At("loop", "open")
    /\ zOpened' = TRUE
    /\ Leave("loop")
    /\ UNCHANGED <<world, zFile, sess, gate, zPages, zActive, zState, zStop, zClosed, zWatch,
                   zTimers, zOverlaps, page, zSpawned, phone, zLogins>>

Mut_PageEnds(p) ==
    /\ ~zCrashed
    /\ zWatch[p] = "wait"
    /\ zWatch' = [zWatch EXCEPT ![p] = "shutdown"]
    /\ zActive' = 0 /\ zOpened' = FALSE
    /\ zClosed' = zClosed \cup {p}
    /\ UNCHANGED <<world, zFile, sess, gate, zAct, zPages, zState, zStop, zTimers, zOverlaps, page,
                   zSpawned, phone, zLogins>>

(* The watcher of a page: its stop channel was closed, or the page was     *)
(* left alone for loginTimeout.                                            *)
PageEnds(p) ==
    /\ ~zCrashed
    /\ zWatch[p] = "wait"
    /\ zWatch' = [zWatch EXCEPT ![p] = "shutdown"]
    /\ zActive' = 0 /\ zOpened' = FALSE
    /\ UNCHANGED <<world, zFile, sess, gate, zAct, zPages, zState, zStop, zClosed, zTimers,
                   zOverlaps, page, zSpawned, phone, zLogins>>

PageGone(p) ==
    /\ ~zCrashed
    /\ zWatch[p] = "shutdown"
    /\ zWatch' = [zWatch EXCEPT ![p] = "gone"]
    /\ zState' = 0
    /\ UNCHANGED <<world, zFile, sess, gate, zAct, zPages, zActive, zStop, zOpened, zClosed,
                   zTimers, zOverlaps, page, zSpawned, phone, zLogins>>

(* The timer of a finished login closes the stop channel of the moment;    *)
(* closing it twice is a panic.                                            *)
CloseUI ==
    /\ ~zCrashed
    /\ zTimers > 0
    /\ zTimers' = zTimers - 1
    /\ zClosed' = zClosed \cup {zStop}
    /\ zCrashed' = (zStop \in zClosed)
    /\ UNCHANGED <<world, zFile, sess, gate, zAct, zPages, zActive, zState, zStop, zOpened, zWatch,
                   zOverlaps, zStage, zRisk, zSpawned, phone, zLogins>>

-----------------------------------------------------------------------------
(* A login by the actor a, a request or the QR flow, whose probe ended. *)
LoginFails(a) ==
    /\ At(a, "unsure") \/ At(a, "rejected")
    /\ Show(zAct[a].page, "failed")
    /\ Leave(a)
    /\ UNCHANGED <<world, zFile, sess, gate, ui, zRisk, zSpawned, phone, zLogins>>

LoginVerified(a) ==
    /\ At(a, "verified")
    /\ GotoSaving(a, "final", Copy(zCred, zStatus))
    /\ UNCHANGED <<world, zFile, sess, gate, ui, page, zSpawned, phone, zLogins>>

(* finalizeLogin up to its saveAuth, and after it. *)
FinalizeLogin(a) ==
    /\ At(a, "final")
    /\ Show(zAct[a].page, "done")
    /\ GotoSaving(a, "finish", Copy(zCred, zStatus))
    /\ zLogins' = zLogins + 1
    /\ UNCHANGED <<world, zFile, sess, gate, ui, zRisk, zSpawned, phone>>

LoginDone(a) ==
    /\ At(a, "finish")
    /\ zCooling' = FALSE
    /\ zTimers' = zTimers + 1
    /\ Leave(a)
    /\ UNCHANGED <<world, zFile, sess, zForce, zPages, zActive, zState, zStop, zOpened, zClosed,
                   zWatch, zOverlaps, page, zSpawned, phone, zLogins>>

Login(a) == LoginFails(a) \/ LoginVerified(a) \/ FinalizeLogin(a) \/ LoginDone(a)

-----------------------------------------------------------------------------
(* The QR flow.  One runs at a time; another ends at once. *)
QrStarts(p) ==
    /\ ~zCrashed
    /\ p \in zSpawned
    /\ zSpawned' = zSpawned \ {p}
    /\ IF zAct["qr"] = Idle
       THEN zAct' = [zAct EXCEPT !["qr"].pc = "begin", !["qr"].page = p]
       ELSE UNCHANGED zAct
    /\ UNCHANGED <<world, zFile, sess, gate, ui, page, phone, zLogins>>

(* setRisk: once, until a reset. *)
SetRisk(p) ==
    IF p \in zRisk
    THEN UNCHANGED page
    ELSE Show(p, "risk") /\ zRisk' = zRisk \cup ({p} \ {0})

(* qrBegin: no code, a human is asked for, the session is accepted as it   *)
(* is, or a code.                                                          *)
QrBegin ==
    /\ At("qr", "begin")
    /\ \/ Show(zAct["qr"].page, "failed") /\ Leave("qr") /\ UNCHANGED zRisk
       \/ /\ "qr" \in zLimit.ways
          /\ \/ SetRisk(zAct["qr"].page) /\ Leave("qr")
             \/ zCred \in zAccepted /\ Goto("qr", "probe") /\ UNCHANGED page
             \/ Show(zAct["qr"].page, "waiting") /\ Goto("qr", "top") /\ UNCHANGED zRisk
    /\ UNCHANGED <<world, zFile, sess, gate, ui, zSpawned, phone, zLogins>>

(* The top of the loop: the stop channel of the moment, and the deadline. *)
QrTop ==
    /\ At("qr", "top")
    /\ \/ zStop \in zClosed /\ Leave("qr") /\ UNCHANGED page
       \/ zStop \notin zClosed /\ Goto("qr", "ask") /\ UNCHANGED page
       \/ /\ zStop \notin zClosed
          /\ Show(zAct["qr"].page, IF zAct["qr"].page \in zRisk THEN "failed" ELSE "expired")
          /\ Leave("qr")
          /\ UNCHANGED zRisk
    /\ UNCHANGED <<world, zFile, sess, gate, ui, zSpawned, phone, zLogins>>

(* qrScanInfo, and what its answer says. *)
QrPoll ==
    /\ At("qr", "ask")
    /\ \/ Goto("qr", "top") /\ UNCHANGED <<page, zCred>>
       \/ SetRisk(zAct["qr"].page) /\ Goto("qr", "top") /\ UNCHANGED zCred
       \/ /\ Show(zAct["qr"].page, "failed")
          /\ Leave("qr")
          /\ UNCHANGED <<zRisk, zCred>>
       \/ Show(zAct["qr"].page, "scanned") /\ Goto("qr", "top") /\ UNCHANGED <<zRisk, zCred>>
       \/ /\ ZNew \in zAccepted
          /\ zCred' = ZNew
          /\ Show(zAct["qr"].page, "scanned") /\ Goto("qr", "probe")
          /\ UNCHANGED zRisk
    /\ UNCHANGED <<world, zFile, zStatus, zSheds, gate, ui, zSpawned, phone, zLogins>>

-----------------------------------------------------------------------------
(* Requests of the page, which answers them until its watcher ends it. *)
Served(p, way) ==
    /\ ~zCrashed
    /\ zWatch[p] = "wait" /\ zStage[p] # "nil"
    /\ way \in zLimit.ways
    /\ zUsed.reqs < zLimit.reqs
    /\ zUsed' = [zUsed EXCEPT !.reqs = @ + 1]

(* /api/qrstart: reset, and another QR flow. *)
QrStart(p) ==
    /\ Served(p, "qr")
    /\ zStage' = [zStage EXCEPT ![p] = "idle"]
    /\ zRisk' = zRisk \ {p}
    /\ zSpawned' = zSpawned \cup {p}
    /\ UNCHANGED <<zLimit, zAccepted, zFile, sess, gate, zAct, ui, zCrashed, phone, zLogins>>

(* /api/cookie: any credential may be pasted. *)
CookieLogin(r, p) ==
    /\ Served(p, "cookie") /\ At(r, "idle")
    /\ \E c \in ZCreds : zCred' = c
    /\ zAct' = [zAct EXCEPT ![r].pc = "probe", ![r].page = p]
    /\ UNCHANGED <<zLimit, zAccepted, zFile, zStatus, zSheds, gate, ui, page, zSpawned, phone,
                   zLogins>>

(* /api/phone, /api/captcha and /api/verify, which take phoneClientMu. *)
PhoneRequest(r, p) ==
    /\ Served(p, "phone") /\ At(r, "idle")
    /\ \E k \in {"phone", "captcha", "verify"} :
          zAct' = [zAct EXCEPT ![r].pc = k, ![r].page = p]
    /\ UNCHANGED <<zLimit, zAccepted, zFile, sess, gate, ui, page, zSpawned, phone, zLogins>>

PhoneLock(r) ==
    /\ zMu = "free"
    /\ zMu' = r
    /\ \/ At(r, "phone") /\ Goto(r, "send")
       \/ At(r, "captcha") /\ Goto(r, "solve")
       \/ At(r, "verify") /\ Goto(r, "sign")
    /\ UNCHANGED <<world, zFile, sess, gate, ui, page, zSpawned, zGuest, zLogins>>

(* zhihuPhoneSendDigits and zhihuPhoneVerifyCaptcha, and what their        *)
(* handlers show: the code was sent, a picture is to be solved, or an      *)
(* error in a step before or after the guest token.                        *)
SendDigits(r) ==
    /\ \/ /\ At(r, "send")
          /\ \/ UNCHANGED page /\ zGuest' = TRUE
             \/ Show(zAct[r].page, "captcha") /\ zGuest' = TRUE /\ UNCHANGED zRisk
             \/ Show(zAct[r].page, "failed") /\ zGuest' \in {zGuest, TRUE} /\ UNCHANGED zRisk
       \/ /\ At(r, "solve")
          /\ \/ UNCHANGED page /\ zGuest' = TRUE
             \/ Show(zAct[r].page, "waiting") /\ zGuest' = TRUE /\ UNCHANGED zRisk
             \/ Show(zAct[r].page, "failed") /\ zGuest' \in {zGuest, TRUE} /\ UNCHANGED zRisk
    /\ zMu' = "free"
    /\ Leave(r)
    /\ UNCHANGED <<world, zFile, sess, gate, ui, zSpawned, zLogins>>

(* zhihuPhoneSignIn that succeeds, and applyPhoneWebSession. *)
PhoneSignIn(r) ==
    /\ At(r, "sign")
    /\ zMu' = "free" /\ zGuest' = TRUE
    /\ \/ /\ ZNew \in zAccepted
          /\ zCred' = ZNew
          /\ Goto(r, "probe")
          /\ UNCHANGED zStatus
       \/ /\ zCred' = NoCred
          /\ zStatus' = "invalid"
          /\ GotoSaving(r, "rejected", Copy(NoCred, "invalid"))
    /\ UNCHANGED <<world, zFile, zSheds, gate, ui, page, zSpawned, zLogins>>

(* One that fails goes on to resetPhoneClient, which locks phoneClientMu,  *)
(* while zhihuPhoneSignIn holds it until it returns: there is no next step.*)
SignInFails(r) ==
    /\ At(r, "sign")
    /\ zGuest' \in {zGuest, TRUE}
    /\ Goto(r, "reset")
    /\ UNCHANGED <<world, zFile, sess, gate, ui, page, zSpawned, zMu, zLogins>>

-----------------------------------------------------------------------------
(* The site ends a session. *)
SiteRejects(c) ==
    /\ ~zCrashed
    /\ Faulty /\ Fault
    /\ c \in zAccepted
    /\ zAccepted' = zAccepted \ {c}
    /\ UNCHANGED <<zLimit, zFile, sess, gate, zAct, ui, page, zSpawned, phone, zLogins>>

LoopStep ==
    \/ Round \/ HandleRoundErr \/ ReloginDue \/ AuthCheck \/ EnsureSession \/ SessionEnsured
    \/ ScheduleLogin \/ StartLoginUI \/ Serve \/ OpenLoginBrowserOnce
Flow == QrBegin \/ QrTop \/ QrPoll
Probing(a) == WriteFile(a) \/ ProbeSession(a) \/ SessionAnswered(a)
Request(r) == PhoneLock(r) \/ SendDigits(r) \/ PhoneSignIn(r) \/ SignInFails(r)
UserStep(p) ==
    \/ QrStart(p)
    \/ \E r \in ZhihuReqs : CookieLogin(r, p) \/ PhoneRequest(r, p)

ZhihuNext ==
    \/ LoopStep \/ Flow \/ CooldownEnds \/ CloseUI
    \/ \E a \in ZActors : Probing(a)
    \/ \E a \in ZActors \ {"loop"} : Login(a)
    \/ \E p \in ZPages : PageEnds(p) \/ PageGone(p) \/ UserStep(p)
    \/ \E p \in zSpawned : QrStarts(p)
    \/ \E r \in ZhihuReqs : Request(r)
    \/ \E c \in ZCreds : SiteRejects(c)

(* The goroutines run on and requests to the site end; what a user does,   *)
(* and how long a page is left alone, is not fair.                         *)
ZhihuFairness ==
    /\ WF_zVars(LoopStep \/ Probing("loop"))
    /\ WF_zVars(CooldownEnds)
    /\ \A r \in ZhihuReqs : WF_zVars(Request(r) \/ Probing(r))

ZhihuSpec == ZhihuInit /\ [][ZhihuNext]_zVars /\ ZhihuFairness

-----------------------------------------------------------------------------
(* Properties. *)

(* The process ends only when two logins succeeded, whose timers close the *)
(* same channel, or when a page started while an earlier one shut down and *)
(* took ui.state from it: one login on a page nobody else overlaps is      *)
(* safe.                                                                   *)
CrashNeedsRace == zCrashed => zLogins > 1 \/ zOverlaps > 0

(* The loop drops a credential only after its own probe was refused, and a *)
(* refusal is a 401 for the credential that was sent, or an HTML answer    *)
(* that is the third with no success in between, or a probe that found no  *)
(* credential to send, because a login by phone had cleared it after the   *)
(* loop saw one; an answer that fails drops nothing.                       *)
DropsAreRefusals ==
    [][zAct["loop"].pc = "rejected" /\ zCred # NoCred /\ zCred' = NoCred =>
          \/ zAct["loop"].verdict = "401" /\ zAct["loop"].cred \notin zAccepted
          \/ zAct["loop"].verdict = "html" /\ zUsed.faults >= Shed
          \/ zAct["loop"].verdict = "absent"]_zVars

(* What a session that is lost must get to: a login page, or ready again.  *)
LoginOffered ==
    \/ zStatus = "ready" \/ zCrashed
    \/ zPages = zLimit.pages \/ \E p \in ZPages : zWatch[p] = "wait"

(* A step of the phone login that waits for its turn gets it: a sign-in    *)
(* that failed is followed by a fresh attempt.                             *)
PhoneTurnComes ==
    \A r \in ZhihuReqs :
        zAct[r].pc \in {"phone", "captcha", "verify"} ~>
            zAct[r].pc \notin {"phone", "captcha", "verify"} \/ zCrashed
=============================================================================
