----------------------------- MODULE MCSessions -----------------------------
(***************************************************************************)
(* The three sessions and the rate gate, for TLC.  They share no variable, *)
(* so one run lets one of them move (part); the others stay in an initial  *)
(* state in which there is nothing to do.                                  *)
(***************************************************************************)
EXTENDS ZhihuSession, XhsSession, BiliSession, RateGate, TLC

CONSTANTS r1, r2, old, new, u1, l1, l2, s1, MaxNow

VARIABLE part

sessionVars == <<part, zVars, xVars, bVars, rVars>>

ZLimit(p, f, r, n, w) == [pages |-> p, faults |-> f, reqs |-> r, rounds |-> n, ways |-> w]
XLimit(p, f, r, n, b) == [pages |-> p, faults |-> f, reqs |-> r, rounds |-> n, need |-> b]
BLimit(p, f, r, n, c, w) ==
    [pages |-> p, faults |-> f, reqs |-> r, rotations |-> n, checks |-> c, ways |-> w]

(* Many failures and no page in use; a lost session while a cookie is      *)
(* pasted; two cookies at once; a QR code; two pages and a failure; a      *)
(* phone.                                                                  *)
MCZLimits ==
    { ZLimit(1, 3, 0, 1, {}), ZLimit(1, 1, 1, 0, {"cookie"}), ZLimit(1, 0, 2, 0, {"cookie"}),
      ZLimit(1, 0, 1, 0, {"qr"}), ZLimit(2, 1, 0, 0, {}), ZLimit(1, 0, 1, 0, {"phone"}) }

(* A round that fails or is blocked; two pages; the hot board alone; two   *)
(* requests that are blocked.                                              *)
MCXLimits ==
    { XLimit(1, 1, 0, 1, TRUE), XLimit(2, 0, 0, 0, TRUE), XLimit(1, 2, 0, 1, FALSE),
      XLimit(1, 2, 1, 0, TRUE) }

(* No page at all; a rotation that fails beside a probe; two pages and a   *)
(* failure; and the ways to log in.                                        *)
MCBLimits ==
    { BLimit(0, 0, 0, 0, 0, {}), BLimit(1, 1, 0, 1, 1, {}), BLimit(2, 1, 0, 0, 0, {}),
      BLimit(1, 0, 1, 0, 0, {"cookie"}),
      BLimit(1, 0, 1, 0, 0, {"qr"}), BLimit(1, 0, 2, 0, 0, {"sms"}), BLimit(1, 0, 1, 0, 0, {"password"}) }

MCInit ==
    /\ part \in {"zhihu", "xhs", "bili", "gate"}
    /\ ZhihuInit /\ XhsInit /\ BiliInit /\ RateInit
    /\ part # "zhihu" => zLimit = CHOOSE l \in ZLimits : TRUE
    /\ part # "zhihu" => zFile = Copy(new, "ready")
    /\ part # "xhs" => xLimit = CHOOSE l \in XLimits : TRUE
    /\ part # "xhs" => xFile = XCopy(u1, "ready")
    /\ part # "bili" => bLimit = BLimit(0, 0, 0, 0, 0, {})
    /\ part # "bili" => bFile = BCopy(NoSession, 0, "empty")

MCNext ==
    \/ part = "zhihu" /\ ZhihuNext /\ UNCHANGED <<part, xVars, bVars, rVars>>
    \/ part = "xhs" /\ XhsNext /\ UNCHANGED <<part, zVars, bVars, rVars>>
    \/ part = "bili" /\ BiliNext /\ UNCHANGED <<part, zVars, xVars, rVars>>
    \/ part = "gate" /\ RateNext /\ rNow' <= MaxNow /\ UNCHANGED <<part, zVars, xVars, bVars>>


MCSpec ==
    /\ MCInit /\ [][MCNext]_sessionVars
    /\ WF_zVars(part = "zhihu" /\ (LoopStep \/ Probing("loop")))
    /\ WF_zVars(part = "zhihu" /\ CooldownEnds)
    /\ WF_xVars(part = "xhs" /\ (XLoopStep \/ XRequest(XLoop)))
    /\ WF_xVars(part = "xhs" /\ XCooldownEnds)
    /\ \A l \in BiliLoops : WF_bVars(part = "bili" /\ (Gateway(l) \/ BProbing(l)))
    /\ WF_bVars(part = "bili" /\ BBackoffEnds)
    /\ WF_bVars(part = "bili" /\ BCooldownEnds)
    /\ \A p \in BPages : WF_bVars(part = "bili" /\ BPageGone(p))

-----------------------------------------------------------------------------
(* The values of all variables. *)
SessionsTypeOK == ZTypeOK /\ XTypeOK /\ BTypeOK /\ RTypeOK

(* A session that is lost is ready again or has a login page in the end,   *)
(* in each of the three backends: no cooldown, backoff, rotation in flight,*)
(* unanswered challenge or page that failed to come up stops the loops for *)
(* good.  (Only a crash, and the bound on pages, end the promise.)         *)
EverySessionOffered == []<>(LoginOffered /\ XhsLoginOffered /\ BiliLoginOffered)
=============================================================================
