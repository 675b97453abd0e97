--------------------------- MODULE ChargeControl ---------------------------
(***************************************************************************)
(* The charge control of a laptop (fbprotocols/chargectl, ctrl_linux.go,   *)
(* and its hook in fedbridge/chargectl.go): a loop that writes a limit to  *)
(* the first node of the battery it can use and moves on when a node fails *)
(* or does nothing; Start and Stop of that loop, under loopMu; and Release,*)
(* which lifts the limit, outside of it.  The hook of the flag batctl runs *)
(* them in the goroutine of each PATCH.                                    *)
(*                                                                         *)
(* A node is limited or not; a threshold node has a second file, its start.*)
(* Charge type, capacities and delays only matter through what they decide.*)
(***************************************************************************)
EXTENDS Integers, Sequences, FiniteSetsExt

CONSTANTS
    GHandlers,      \* goroutines that run the hook
    GReprobe,       \* reprobeAfter
    GStrikes,       \* effectiveStrikes
    GPlans          \* bounds of the model, see GPlan

ASSUME ChargeAssumption ==
    /\ GReprobe \in Nat \ {0} /\ GStrikes \in Nat \ {0}
    /\ \A p \in GPlans :
          /\ p.modes \in Seq({"threshold", "level", "switch"})
          /\ p.faults \in Nat /\ p.toggles \in Nat /\ p.shifts \in Nat /\ p.crashes \in Nat

(* The kind of each node, in the order of the tables; how often a write    *)
(* fails, the hook runs, a node comes or goes, and the process restarts.   *)
GPlan(m, f, t, s, c) == [modes |-> m, faults |-> f, toggles |-> t, shifts |-> s, crashes |-> c]

VARIABLES
    gPlan,          \* the nodes and bounds of this behaviour
    gCounts,        \* failed writes, hooks, shifts and restarts so far
    gUsable,        \* nodes that exist and are writable
    gEnd,           \* nodes that hold a limit
    gStart,         \* threshold nodes whose start file holds one
    gPc,            \* where each goroutine is in the hook
    gRel,           \* the node its Release writes to, 0 for none
    gLock,          \* loopMu is held over a wait
    gLoop,          \* where the loop is
    gStop,          \* loopStop is closed
    gCtl,           \* the node of the loop, 0 for none
    gDegraded,      \* it is used without its start file
    gBad,           \* nodes the loop has given up
    gFails,         \* writeFails
    gIneff,         \* ineffective
    gHot,           \* the check found the battery full and charging
    gRaced,         \* history: limited again after a Release had passed
    gFailed,        \* history: a write of Release failed
    gAside          \* history: limited where no Release will look

gHardware == <<gUsable, gEnd, gStart>>
gHook == <<gPc, gRel>>
gHandles == <<gLock, gStop>>
gLoopState == <<gCtl, gDegraded, gBad, gFails, gIneff, gHot>>
gHistory == <<gRaced, gFailed, gAside>>
gVars == <<gPlan, gCounts, gHardware, gHook, gHandles, gLoop, gLoopState, gHistory>>

GNodes == 1..Len(gPlan.modes)
GMode(n) == gPlan.modes[n]
GFree == "free"

ChargeTypeOK ==
    /\ gPlan \in GPlans
    /\ gCounts \in [faults: 0..gPlan.faults, toggles: 0..gPlan.toggles,
                    shifts: 0..gPlan.shifts, crashes: 0..gPlan.crashes]
    /\ gUsable \subseteq GNodes /\ gEnd \subseteq GNodes /\ gStart \subseteq GNodes
    /\ gPc \in [GHandlers -> {"idle", "start", "release", "lift", "liftStart", "stop", "wait"}]
    /\ gRel \in [GHandlers -> 0..Len(gPlan.modes)]
    /\ gLock \in GHandlers \cup {GFree}
    /\ gLoop \in {"none", "begin", "check", "limit", "allow", "limitStart", "tick", "done"}
    /\ gStop \in BOOLEAN /\ gDegraded \in BOOLEAN /\ gHot \in BOOLEAN
    /\ gCtl \in 0..Len(gPlan.modes) /\ gBad \subseteq GNodes
    /\ gFails \in 0..GReprobe /\ gIneff \in 0..GStrikes
    /\ gRaced \subseteq GNodes /\ gFailed \subseteq GNodes /\ gAside \subseteq GNodes

(* StartFn starts the loop when batctl is on. *)
ChargeInit ==
    /\ gPlan \in GPlans
    /\ gCounts = [faults |-> 0, toggles |-> 0, shifts |-> 0, crashes |-> 0]
    /\ gUsable \in {GNodes, {}}
    /\ gEnd = {} /\ gStart = {}
    /\ gPc = [h \in GHandlers |-> "idle"] /\ gRel = [h \in GHandlers |-> 0]
    /\ gLock = GFree /\ gStop = FALSE
    /\ gLoop \in {"none", "begin"}
    /\ gCtl = 0 /\ gDegraded = FALSE /\ gBad = {}
    /\ gFails = 0 /\ gIneff = 0 /\ gHot = FALSE
    /\ gRaced = {} /\ gFailed = {} /\ gAside = {}

-----------------------------------------------------------------------------
(* probeControllerSkip: the first node that can be used, 0 for none. *)
Probe(skip) == IF gUsable \subseteq skip THEN 0 ELSE Min(gUsable \ skip)

Count(what) ==
    /\ gCounts[what] < gPlan[what]
    /\ gCounts' = [gCounts EXCEPT ![what] = @ + 1]

(* writeValue gives up: the node is gone, or refuses all its tries. *)
WriteFails(n) == IF n \in gUsable THEN Count("faults") ELSE UNCHANGED gCounts

(* A node comes or goes: a module is loaded, a driver bound again.  What   *)
(* holds a limit may now be behind another node, or out of reach.          *)
Shift(n) ==
    /\ Count("shifts")
    /\ gUsable' = IF n \in gUsable THEN gUsable \ {n} ELSE gUsable \cup {n}
    /\ gAside' = gAside \cup gEnd \cup gStart
    /\ UNCHANGED <<gPlan, gEnd, gStart, gHook, gHandles, gLoop, gLoopState, gRaced, gFailed>>

-----------------------------------------------------------------------------
(* The loop. *)

LoopGoto(from, to) ==
    /\ gLoop = from /\ gLoop' = to
    /\ UNCHANGED <<gPlan, gUsable, gHook, gHandles>>

LoopBegins ==
    /\ LoopGoto("begin", IF Probe({}) = 0 THEN "tick" ELSE "check")
    /\ gCtl' = Probe({})
    /\ gDegraded' = FALSE /\ gBad' = {} /\ gFails' = 0 /\ gIneff' = 0
    /\ UNCHANGED <<gCounts, gEnd, gStart, gHot, gHistory>>

LoopEnds ==
    /\ gStop
    /\ LoopGoto("tick", "done")
    /\ UNCHANGED <<gCounts, gEnd, gStart, gLoopState, gHistory>>

(* The ticker fires; select may take it although loopStop is closed.  A    *)
(* node that failed or did nothing too often is given up for another.      *)
LoopTicks ==
    LET spent == gCtl # 0 /\ (gFails >= GReprobe \/ gIneff >= GStrikes)
        other == Probe(gBad')
    IN  /\ gBad' = IF spent THEN gBad \cup {gCtl} ELSE gBad
        /\ gCtl' = IF (gCtl = 0 \/ spent) /\ other # 0 THEN other ELSE gCtl
        /\ gDegraded' = (gDegraded /\ gCtl' = gCtl)
        /\ gFails' = IF spent THEN 0 ELSE gFails
        /\ gIneff' = IF spent THEN 0 ELSE gIneff
        /\ LoopGoto("tick", IF gCtl' = 0 THEN "tick" ELSE "check")
        /\ UNCHANGED <<gCounts, gEnd, gStart, gHot, gHistory>>

(* There is no battery, or its capacity cannot be read; or a switch node   *)
(* finds it between the two bounds.                                        *)
CheckLeaves ==
    /\ LoopGoto("check", "tick")
    /\ UNCHANGED <<gCounts, gEnd, gStart, gLoopState, gHistory>>

(* What a check reads of battery and charger: at or above pauseAt or not;  *)
(* and, when it is, plugged in and still rising or drawing current.        *)
Readings == {r \in [full: BOOLEAN, hot: BOOLEAN] : r.hot => r.full}

(* A switch node is written by the capacity, the others hold the limit. *)
CheckDecides(r) ==
    /\ LoopGoto("check", IF GMode(gCtl) = "switch" /\ ~r.full THEN "allow" ELSE "limit")
    /\ gHot' = r.hot
    /\ UNCHANGED <<gCounts, gEnd, gStart, gCtl, gDegraded, gBad, gFails, gIneff, gHistory>>

(* checkEffective, at the end of a check. *)
CheckEffective == gIneff' = IF gHot THEN gIneff + 1 ELSE 0

(* Some hook will not lift node n any more. *)
Passed(n) ==
    \E h \in GHandlers :
        \/ gPc[h] \in {"liftStart", "stop", "wait"}
        \/ gPc[h] = "lift" /\ gRel[h] # n

(* Notes that the loop has limited its node. *)
Limits ==
    /\ gRaced' = IF Passed(gCtl) THEN gRaced \cup {gCtl} ELSE gRaced
    /\ gAside' = IF Probe({}) # gCtl THEN gAside \cup {gCtl} ELSE gAside
    /\ UNCHANGED gFailed

(* ensureThreshold, ensureLevel, stopCharging: the limit is written. *)
LoopLimits ==
    LET start == GMode(gCtl) = "threshold" /\ ~gDegraded
    IN  /\ gCtl \in gUsable
        /\ LoopGoto("limit", IF start THEN "limitStart" ELSE "tick")
        /\ gEnd' = gEnd \cup {gCtl}
        /\ Limits
        /\ IF start THEN UNCHANGED <<gFails, gIneff>> ELSE gFails' = 0 /\ CheckEffective
        /\ UNCHANGED <<gCounts, gStart, gCtl, gDegraded, gBad, gHot>>

(* The start file; when that fails the node is used without it. *)
LoopLimitsStart ==
    /\ LoopGoto("limitStart", "tick")
    /\ gFails' = 0 /\ CheckEffective
    /\ \/ /\ gCtl \in gUsable
          /\ gStart' = gStart \cup {gCtl}
          /\ Limits
          /\ UNCHANGED <<gCounts, gDegraded>>
       \/ WriteFails(gCtl) /\ gDegraded' = TRUE /\ UNCHANGED <<gStart, gHistory>>
    /\ UNCHANGED <<gEnd, gCtl, gBad, gHot>>

(* startCharging: the switch node allows charging again. *)
LoopAllows ==
    /\ gCtl \in gUsable
    /\ LoopGoto("allow", "tick")
    /\ gEnd' = gEnd \ {gCtl}
    /\ gFails' = 0 /\ CheckEffective
    /\ UNCHANGED <<gCounts, gStart, gCtl, gDegraded, gBad, gHot, gHistory>>

(* The write and its retries fail.  A switch node skips checkEffective. *)
LoopWriteFails ==
    /\ \/ LoopGoto("limit", "tick")
       \/ LoopGoto("allow", "tick")
    /\ WriteFails(gCtl)
    /\ gFails' = gFails + 1
    /\ IF GMode(gCtl) = "switch" THEN UNCHANGED gIneff ELSE CheckEffective
    /\ UNCHANGED <<gEnd, gStart, gCtl, gDegraded, gBad, gHot, gHistory>>

-----------------------------------------------------------------------------
(* The hook. *)

HookGoto(h, from, to) ==
    /\ gPc[h] = from /\ gPc' = [gPc EXCEPT ![h] = to]
    /\ UNCHANGED <<gPlan, gUsable>>

(* applyBatctl: on starts the loop, off releases the limit and stops it. *)
ApplyBatctl(h, on) ==
    /\ HookGoto(h, "idle", IF on THEN "start" ELSE "release")
    /\ Count("toggles")
    /\ UNCHANGED <<gEnd, gStart, gRel, gHandles, gLoop, gLoopState, gHistory>>

StartLoop(h) ==
    /\ gLock = GFree
    /\ HookGoto(h, "start", "idle")
    /\ gLoop' = IF gLoop = "none" THEN "begin" ELSE gLoop
    /\ UNCHANGED <<gCounts, gEnd, gStart, gRel, gHandles, gLoopState, gHistory>>

(* Release looks for a node on its own; nodes the loop gave up count. *)
ReleaseProbes(h) ==
    /\ HookGoto(h, "release", IF Probe({}) = 0 THEN "stop" ELSE "lift")
    /\ gRel' = [gRel EXCEPT ![h] = Probe({})]
    /\ UNCHANGED <<gCounts, gEnd, gStart, gHandles, gLoop, gLoopState, gHistory>>

(* Mutant: only the kinds with a threshold are lifted. *)
Mut_ReleaseLifts(h) ==
    LET n == gRel[h]
    IN  /\ n \in gUsable
        /\ HookGoto(h, "lift", IF GMode(n) = "threshold" THEN "liftStart" ELSE "stop")
        /\ gEnd' = IF GMode(n) = "switch" THEN gEnd ELSE gEnd \ {n}
        /\ gRaced' = gRaced \ {n} /\ gFailed' = gFailed \ {n} /\ gAside' = gAside \ {n}
        /\ UNCHANGED <<gCounts, gStart, gRel, gHandles, gLoop, gLoopState>>

ReleaseLifts(h) ==
    LET n == gRel[h]
    IN  /\ n \in gUsable
        /\ HookGoto(h, "lift", IF GMode(n) = "threshold" THEN "liftStart" ELSE "stop")
        /\ gEnd' = gEnd \ {n}
        /\ gRaced' = gRaced \ {n} /\ gFailed' = gFailed \ {n} /\ gAside' = gAside \ {n}
        /\ UNCHANGED <<gCounts, gStart, gRel, gHandles, gLoop, gLoopState>>

ReleaseLiftsStart(h) ==
    /\ gRel[h] \in gUsable
    /\ HookGoto(h, "liftStart", "stop")
    /\ gStart' = gStart \ {gRel[h]}
    /\ UNCHANGED <<gCounts, gEnd, gRel, gHandles, gLoop, gLoopState, gHistory>>

(* Logged only; a start file is not tried when the end file failed. *)
ReleaseFails(h) ==
    /\ HookGoto(h, "lift", "stop") \/ HookGoto(h, "liftStart", "stop")
    /\ WriteFails(gRel[h])
    /\ gFailed' = gFailed \cup {gRel[h]}
    /\ UNCHANGED <<gEnd, gStart, gRel, gHandles, gLoop, gLoopState, gRaced, gAside>>

(* Stop closes loopStop, *)
StopLoop(h) ==
    /\ gLock = GFree
    /\ HookGoto(h, "stop", IF gLoop = "none" THEN "idle" ELSE "wait")
    /\ gLock' = IF gLoop = "none" THEN GFree ELSE h
    /\ gStop' = (gLoop # "none")
    /\ UNCHANGED <<gCounts, gEnd, gStart, gRel, gLoop, gLoopState, gHistory>>

(* and waits for the loop with the lock held. *)
StopReturns(h) ==
    /\ HookGoto(h, "wait", "idle")
    /\ gLoop = "done" /\ gLoop' = "none"
    /\ gLock' = GFree /\ gStop' = FALSE
    /\ UNCHANGED <<gCounts, gEnd, gStart, gRel, gLoopState, gHistory>>

-----------------------------------------------------------------------------
(* The process ends, the hardware keeps its values; batctl may be off when *)
(* it starts again, and then StartFn releases nothing.                     *)
ChargeCrash(on) ==
    /\ Count("crashes")
    /\ gPc' = [h \in GHandlers |-> "idle"] /\ gRel' = [h \in GHandlers |-> 0]
    /\ gLock' = GFree /\ gStop' = FALSE
    /\ gLoop' = IF on THEN "begin" ELSE "none"
    /\ gAside' = gAside \cup {n \in gEnd \cup gStart : on => n # Probe({})}
    /\ UNCHANGED <<gPlan, gHardware, gLoopState, gRaced, gFailed>>

ChargeLoop ==
    \/ LoopBegins \/ LoopEnds \/ LoopTicks
    \/ CheckLeaves \/ \E r \in Readings : CheckDecides(r)
    \/ LoopLimits \/ LoopLimitsStart \/ LoopAllows \/ LoopWriteFails

ChargeHook(h) ==
    \/ \E on \in BOOLEAN : ApplyBatctl(h, on)
    \/ StartLoop(h) \/ ReleaseProbes(h) \/ ReleaseLifts(h) \/ ReleaseLiftsStart(h)
    \/ ReleaseFails(h) \/ StopLoop(h) \/ StopReturns(h)

ChargeNext ==
    \/ ChargeLoop
    \/ \E h \in GHandlers : ChargeHook(h)
    \/ \E n \in GNodes : Shift(n)
    \/ \E on \in BOOLEAN : ChargeCrash(on)

ChargeSpec == ChargeInit /\ [][ChargeNext]_gVars

-----------------------------------------------------------------------------
(***************************************************************************)
(* "Release best-effort lifts the configured ceiling so the pack charges   *)
(* normally again": once batctl is off and no hook is at work, a node is   *)
(* still limited only if the loop wrote to it after the Release had passed *)
(* (Release comes before Stop), a write of Release failed, or it is not    *)
(* the node Release looks at: the loop had moved on to it, a node came or  *)
(* went, or the process started again, with batctl off or with another     *)
(* node first.                                                             *)
(***************************************************************************)
LiftedWhenOff ==
    gLoop = "none" /\ (\A h \in GHandlers : gPc[h] = "idle") =>
        gEnd \cup gStart \subseteq gRaced \cup gFailed \cup gAside
=============================================================================
