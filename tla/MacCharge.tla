----------------------------- MODULE MacCharge -----------------------------
(***************************************************************************)
(* The charge control of a Mac (fbprotocols/chargectl, ctrl_darwin.go and  *)
(* smc_darwin.go): the loop uses one of several backends, which it lists   *)
(* once, and moves on to the next when one fails or does nothing; Release  *)
(* lists them anew and tries each until one takes the write.  Unlike on    *)
(* Linux a limit may be several keys of the SMC, written one by one and    *)
(* read back, and Release and the loop may do so to the same keys.         *)
(* The hook in fedbridge/chargectl.go is the one of ChargeControl.         *)
(***************************************************************************)
EXTENDS Integers, Sequences, FiniteSetsExt

CONSTANTS
    DHandlers,      \* goroutines that run the hook
    DReprobe,       \* reprobeAfter
    DStrikes,       \* effectiveStrikes
    DPlans          \* bounds of the model, see DPlan

(* The kind of each backend, in the order of macBackends; how often a write*)
(* or a read fails, the hook runs, a backend comes or goes, and the process*)
(* restarts.                                                               *)
DPlan(m, f, t, s, c) == [modes |-> m, faults |-> f, toggles |-> t, shifts |-> s, crashes |-> c]

(***************************************************************************)
(* What a write does, by the kind of backend.  firmware: bfF0 off, bfD0,   *)
(* bfE0 with bfF0 on, unless the window is already there (look); pair: CH0C*)
(* and CH0B; level: BCLM; switch and adapter: one key; bclm, smc: the tools*)
(* for BCLM and for CH0B, which read nothing back.                         *)
(***************************************************************************)
Steps ==
    [firmware |-> <<"look", "down", "main", "up">>, pair |-> <<"second", "main", "read">>,
     level |-> <<"main", "read">>, switch |-> <<"main", "read">>,
     adapter |-> <<"main", "read">>, bclm |-> <<"main">>, smc |-> <<"second", "main">>]

DLoop == "loop"

(* Each backend has keys of its own.  bclm and smc write the keys of level *)
(* and pair, so a plan has them as on a Mac whose SMC does not open, where *)
(* macBackends lists the tools alone.                                      *)
OwnKeys(modes) ==
    /\ (\E i \in DOMAIN modes : modes[i] \in {"bclm", "smc"}) =>
          \A i \in DOMAIN modes : modes[i] \in {"bclm", "smc"}
    /\ \A i, j \in DOMAIN modes :
          modes[i] = modes[j] /\ modes[i] # "switch" => i = j

ASSUME MacAssumption ==
    /\ DReprobe \in Nat \ {0} /\ DStrikes \in Nat \ {0}
    /\ DLoop \notin DHandlers
    /\ \A p \in DPlans : /\ p.modes \in Seq(DOMAIN Steps) /\ OwnKeys(p.modes)
                         /\ p.faults \in Nat /\ p.toggles \in Nat
                         /\ p.shifts \in Nat /\ p.crashes \in Nat

VARIABLES
    dPlan,          \* the backends and bounds of this behaviour
    dCounts,        \* failures, hooks, shifts and restarts so far
    dPresent,       \* backends that macBackends finds
    dLow,           \* keys that hold a limit
    dDown,          \* firmware backends whose window is off
    dAct,           \* the loop and the hooks: where they are, and in which write
    dLock,          \* loopMu is held over a wait
    dStop,          \* loopStop is closed
    dLimit,         \* the write of the loop is to limit
    dHot,           \* the check found the battery full and charging
    dFails,         \* writeFails
    dIneff,         \* ineffective
    dRaced,         \* history: limited again after a Release had passed
    dFailed,        \* history: a write of Release failed
    dMissed         \* history: no Release looked at it

dHandles == <<dLock, dStop>>
dHardware == <<dLow, dDown>>
dLoopState == <<dLimit, dHot, dFails, dIneff>>
dHistory == <<dRaced, dFailed, dMissed>>
dVars == <<dPlan, dCounts, dPresent, dHardware, dAct, dHandles, dLoopState, dHistory>>

DActors == DHandlers \cup {DLoop}
DNodes == 1..Len(dPlan.modes)
DMode(n) == dPlan.modes[n]
DKeys == DNodes \X {"main", "second"}
DFree == "free"

(* pc, the backend (0 for none), those listed, and the step of the write.  *)
Act(pc, n, list, step) == [pc |-> pc, node |-> n, list |-> list, step |-> step]

MacTypeOK ==
    /\ dPlan \in DPlans
    /\ dCounts \in [faults: 0..dPlan.faults, toggles: 0..dPlan.toggles,
                    shifts: 0..dPlan.shifts, crashes: 0..dPlan.crashes]
    /\ dPresent \subseteq DNodes /\ dDown \subseteq DNodes /\ dLow \subseteq DKeys
    /\ dAct \in [DActors -> [pc: {"none", "begin", "check", "tick", "done", "idle", "start",
                                  "release", "write", "stop", "wait"},
                             node: 0..Len(dPlan.modes), list: SUBSET DNodes, step: 0..4]]
    /\ dLock \in DHandlers \cup {DFree} /\ dStop \in BOOLEAN
    /\ dLimit \in BOOLEAN /\ dHot \in BOOLEAN
    /\ dFails \in 0..DReprobe /\ dIneff \in 0..DStrikes
    /\ dRaced \subseteq DKeys /\ dFailed \subseteq DKeys /\ dMissed \subseteq DKeys

Resting(pc) == Act(pc, 0, {}, 0)

(* StartFn starts the loop when batctl is on. *)
MacInit ==
    /\ dPlan \in DPlans
    /\ dCounts = [faults |-> 0, toggles |-> 0, shifts |-> 0, crashes |-> 0]
    /\ dPresent \in {DNodes, {}}
    /\ dLow = {} /\ dDown = {}
    /\ \E pc \in {"none", "begin"} :
          dAct = [a \in DActors |-> Resting(IF a = DLoop THEN pc ELSE "idle")]
    /\ dLock = DFree /\ dStop = FALSE
    /\ dLimit = FALSE /\ dHot = FALSE /\ dFails = 0 /\ dIneff = 0
    /\ dRaced = {} /\ dFailed = {} /\ dMissed = {}

-----------------------------------------------------------------------------
DCount(what) ==
    /\ dCounts[what] < dPlan[what]
    /\ dCounts' = [dCounts EXCEPT ![what] = @ + 1]

(* The first of a set of backends, 0 for none. *)
DFirst(s) == IF s = {} THEN 0 ELSE Min(s)
Later(a) == {n \in dAct[a].list : n > dAct[a].node}

(* A key or a tool comes or goes. *)
MacShift(n) ==
    /\ DCount("shifts")
    /\ dPresent' = IF n \in dPresent THEN dPresent \ {n} ELSE dPresent \cup {n}
    /\ UNCHANGED <<dPlan, dHardware, dAct, dHandles, dLoopState, dHistory>>

-----------------------------------------------------------------------------
(* A write, of the loop or of a Release. *)

StepIs(a, step) == dAct[a].pc = "write" /\ Steps[DMode(dAct[a].node)][dAct[a].step] = step
LastStep(a) == dAct[a].step = Len(Steps[DMode(dAct[a].node)])
Limiting(a) == a = DLoop /\ dLimit
Key(a, key) == <<dAct[a].node, key>>

(* The loop judges the effect of its write; Release returns. *)
WriteEnds(a) ==
    IF a = DLoop
    THEN /\ dAct' = [dAct EXCEPT ![a] = Act("tick", @.node, @.list, 0)]
         /\ dFails' = 0
         /\ dIneff' = IF dHot THEN dIneff + 1 ELSE 0
    ELSE /\ dAct' = [dAct EXCEPT ![a] = Resting("stop")]
         /\ UNCHANGED <<dFails, dIneff>>

WriteGoes(a) ==
    /\ UNCHANGED <<dPlan, dPresent, dHandles, dLimit, dHot>>
    /\ IF LastStep(a) THEN WriteEnds(a)
       ELSE dAct' = [dAct EXCEPT ![a] = Act("write", @.node, @.list, @.step + 1)] /\ UNCHANGED <<dFails, dIneff>>

(* Notes what the backends hold that come after the one that Release ends  *)
(* with.                                                                   *)
Misses(a, ends) ==
    dMissed' = IF a # DLoop /\ ends
               THEN dMissed \cup {k \in dLow : k[1] > dAct[a].node} ELSE dMissed

(* Mutant: Release gives up with the first backend. *)
Mut_WriteErrs(a) ==
    /\ UNCHANGED <<dPlan, dPresent, dHardware, dHandles, dLimit, dHot, dIneff, dRaced, dMissed>>
    /\ IF a = DLoop
       THEN /\ dAct' = [dAct EXCEPT ![a] = Act("tick", @.node, @.list, 0)]
            /\ dFails' = dFails + 1 /\ UNCHANGED dFailed
       ELSE /\ dAct' = [dAct EXCEPT ![a] = Resting("stop")]
            /\ dFailed' = dFailed \cup ({dAct[a].node} \X {"main", "second"})
            /\ UNCHANGED dFails

(* The loop counts it; Release goes on with the next backend. *)
WriteErrs(a) ==
    /\ UNCHANGED <<dPlan, dPresent, dHardware, dHandles, dLimit, dHot, dIneff, dRaced, dMissed>>
    /\ IF a = DLoop
       THEN /\ dAct' = [dAct EXCEPT ![a] = Act("tick", @.node, @.list, 0)]
            /\ dFails' = dFails + 1 /\ UNCHANGED dFailed
       ELSE /\ dAct' = [dAct EXCEPT ![a] =
                           IF Later(a) = {} THEN Resting("stop")
                           ELSE Act("write", Min(Later(a)), @.list, 1)]
            /\ dFailed' = dFailed \cup ({dAct[a].node} \X {"main", "second"})
            /\ UNCHANGED dFails

(* writeFirmware leaves a window that is as wanted alone; it may be another*)
(* one all the same, by its lower bound or since the settings changed.     *)
LookFinds(a) ==
    /\ StepIs(a, "look") /\ dAct[a].node \in dPresent \ dDown
    /\ (Key(a, "main") \in dLow) = Limiting(a)
    /\ UNCHANGED <<dPlan, dCounts, dPresent, dHardware, dHandles, dLimit, dHot, dRaced, dFailed>>
    /\ WriteEnds(a) /\ Misses(a, TRUE)

LookDiffers(a) ==
    /\ StepIs(a, "look")
    /\ WriteGoes(a) /\ UNCHANGED <<dCounts, dHardware, dHistory>>

(* Release h will not write key k of its list any more. *)
StepsPassed(n, step) == {Steps[DMode(n)][i] : i \in 1..(step - 1)}
MacPassed(h, k) ==
    \/ dAct[h].pc \in {"stop", "wait"}
    \/ /\ dAct[h].pc = "write"
       /\ \/ k[1] \notin dAct[h].list
          \/ k[1] < dAct[h].node
          \/ k[1] = dAct[h].node /\ k[2] \in StepsPassed(k[1], dAct[h].step)

(* A key is written: a limit by the loop, or lifted. *)
WriteKey(a, key) ==
    LET k == Key(a, key)
    IN  /\ StepIs(a, key) /\ dAct[a].node \in dPresent
        /\ dLow' = IF Limiting(a) THEN dLow \cup {k} ELSE dLow \ {k}
        /\ dRaced' = IF Limiting(a) /\ \E h \in DHandlers : MacPassed(h, k)
                     THEN dRaced \cup {k} ELSE dRaced \ {k}
        /\ dFailed' = dFailed \ {k}
        /\ IF Limiting(a) THEN dMissed' = dMissed \ {k} ELSE Misses(a, LastStep(a))
        /\ WriteGoes(a)
        /\ UNCHANGED <<dCounts, dDown>>

(* bfF0 is cleared before, and set after the window is written. *)
WindowOff(a) ==
    /\ StepIs(a, "down") /\ dAct[a].node \in dPresent
    /\ dDown' = dDown \cup {dAct[a].node}
    /\ WriteGoes(a) /\ UNCHANGED <<dCounts, dLow, dHistory>>

WindowOn(a) ==
    /\ StepIs(a, "up") /\ dAct[a].node \in dPresent
    /\ dDown' = dDown \ {dAct[a].node}
    /\ WriteGoes(a) /\ Misses(a, TRUE) /\ UNCHANGED <<dCounts, dLow, dRaced, dFailed>>

(* The SMC accepts a write and drops it. *)
WriteDropped(a, key) ==
    /\ StepIs(a, key) /\ dAct[a].node \in dPresent
    /\ DCount("faults")
    /\ dFailed' = IF a = DLoop THEN dFailed ELSE dFailed \cup {Key(a, key)}
    /\ WriteGoes(a) /\ Misses(a, LastStep(a)) /\ UNCHANGED <<dHardware, dRaced>>

(* The key is read back: what was dropped, or written by another goroutine *)
(* since, counts as a failure.                                             *)
ReadBack(a) ==
    /\ StepIs(a, "read") /\ dAct[a].node \in dPresent
    /\ IF (Key(a, "main") \in dLow) = Limiting(a)
       THEN WriteGoes(a) /\ Misses(a, TRUE) /\ UNCHANGED <<dHardware, dRaced, dFailed>>
       ELSE WriteErrs(a)
    /\ UNCHANGED dCounts

(* The backend is gone, or refuses. *)
WriteFailed(a) ==
    /\ dAct[a].pc = "write" /\ ~StepIs(a, "look")
    /\ IF dAct[a].node \in dPresent THEN DCount("faults") ELSE UNCHANGED dCounts
    /\ WriteErrs(a)

MacWrite(a) ==
    \/ LookFinds(a) \/ LookDiffers(a) \/ WindowOff(a) \/ WindowOn(a)
    \/ \E key \in {"main", "second"} : WriteKey(a, key) \/ WriteDropped(a, key)
    \/ ReadBack(a) \/ WriteFailed(a)

-----------------------------------------------------------------------------
(* The loop. *)

MacLoopAt(pc) == dAct[DLoop].pc = pc /\ UNCHANGED <<dPlan, dCounts, dPresent, dHardware, dHandles, dHistory>>

(* With a backend it checks at once. *)
Using(list, n) == dAct' = [dAct EXCEPT ![DLoop] = Act(IF n = 0 THEN "tick" ELSE "check", n, list, 0)]

MacLoopBegins ==
    /\ MacLoopAt("begin")
    /\ Using(dPresent, DFirst(dPresent))
    /\ dFails' = 0 /\ dIneff' = 0 /\ UNCHANGED <<dLimit, dHot>>

MacLoopEnds ==
    /\ MacLoopAt("tick") /\ dStop
    /\ dAct' = [dAct EXCEPT ![DLoop] = Resting("done")]
    /\ UNCHANGED dLoopState

(* The ticker fires; select may take it although loopStop is closed.  The  *)
(* last backend of the list is kept.                                       *)
MacLoopTicks ==
    LET act == dAct[DLoop]
        spent == dFails >= DReprobe \/ dIneff >= DStrikes
    IN  /\ MacLoopAt("tick")
        /\ IF act.node = 0 THEN Using(dPresent, DFirst(dPresent))
           ELSE Using(act.list, IF spent /\ Later(DLoop) # {} THEN Min(Later(DLoop)) ELSE act.node)
        /\ IF act.node # 0 /\ spent THEN dFails' = 0 /\ dIneff' = 0 ELSE UNCHANGED <<dFails, dIneff>>
        /\ UNCHANGED <<dLimit, dHot>>

(* Written by the capacity, not by the window. *)
Switching(n) == DMode(n) \in {"pair", "switch", "adapter", "smc"}

(* There is no battery, or its capacity cannot be read. *)
MacCheckLeaves ==
    /\ MacLoopAt("check")
    /\ dAct' = [dAct EXCEPT ![DLoop] = Act("tick", @.node, @.list, 0)]
    /\ UNCHANGED dLoopState

(* Between the two bounds, or an adapter to cut while running on battery.  *)
MacCheckIdles ==
    /\ MacLoopAt("check") /\ Switching(dAct[DLoop].node)
    /\ dAct' = [dAct EXCEPT ![DLoop] = Act("tick", @.node, @.list, 0)]
    /\ dIneff' = 0 /\ UNCHANGED <<dLimit, dHot, dFails>>

(* full: at or above pauseAt; hot: and plugged in, still rising or charging*)
MacReadings == {r \in [full: BOOLEAN, hot: BOOLEAN] : r.hot => r.full}

MacCheckDecides(r) ==
    /\ MacLoopAt("check")
    /\ dAct' = [dAct EXCEPT ![DLoop] = Act("write", @.node, @.list, 1)]
    /\ dLimit' = (Switching(dAct[DLoop].node) => r.full)
    /\ dHot' = r.hot
    /\ UNCHANGED <<dFails, dIneff>>

MacLoop ==
    \/ MacLoopBegins \/ MacLoopEnds \/ MacLoopTicks
    \/ MacCheckLeaves \/ MacCheckIdles \/ \E r \in MacReadings : MacCheckDecides(r)
    \/ MacWrite(DLoop)

-----------------------------------------------------------------------------
(* The hook. *)

MacHookAt(h, pc) == dAct[h].pc = pc /\ UNCHANGED <<dPlan, dPresent, dHardware, dLoopState, dRaced, dFailed>>

(* applyBatctl: on starts the loop, off releases the limit and stops it. *)
MacApplyBatctl(h, on) ==
    /\ MacHookAt(h, "idle") /\ DCount("toggles")
    /\ dAct' = [dAct EXCEPT ![h] = Resting(IF on THEN "start" ELSE "release")]
    /\ UNCHANGED <<dHandles, dMissed>>

MacStart(h) ==
    /\ MacHookAt(h, "start") /\ dLock = DFree
    /\ dAct' = [dAct EXCEPT ![h] = Resting("idle"),
                            ![DLoop] = IF @.pc = "none" THEN Resting("begin") ELSE @]
    /\ UNCHANGED <<dCounts, dHandles, dMissed>>

(* Release lists the backends that are there now. *)
MacReleases(h) ==
    /\ MacHookAt(h, "release")
    /\ dAct' = [dAct EXCEPT ![h] = IF dPresent = {} THEN Resting("stop")
                                   ELSE Act("write", Min(dPresent), dPresent, 1)]
    /\ dMissed' = dMissed \cup {k \in dLow : k[1] \notin dPresent}
    /\ UNCHANGED <<dCounts, dHandles>>

(* Stop closes loopStop, *)
MacStopLoop(h) ==
    /\ MacHookAt(h, "stop") /\ dLock = DFree
    /\ dAct' = [dAct EXCEPT ![h] = Resting(IF dAct[DLoop].pc = "none" THEN "idle" ELSE "wait")]
    /\ dLock' = IF dAct[DLoop].pc = "none" THEN DFree ELSE h
    /\ dStop' = (dAct[DLoop].pc # "none")
    /\ UNCHANGED <<dCounts, dMissed>>

(* and waits for the loop with the lock held. *)
MacStopReturns(h) ==
    /\ MacHookAt(h, "wait") /\ dAct[DLoop].pc = "done"
    /\ dAct' = [dAct EXCEPT ![h] = Resting("idle"), ![DLoop] = Resting("none")]
    /\ dLock' = DFree /\ dStop' = FALSE
    /\ UNCHANGED <<dCounts, dMissed>>

MacHook(h) ==
    \/ \E on \in BOOLEAN : MacApplyBatctl(h, on)
    \/ MacStart(h) \/ MacReleases(h) \/ MacWrite(h) \/ MacStopLoop(h) \/ MacStopReturns(h)

-----------------------------------------------------------------------------
(* The process ends, the SMC keeps its values; batctl may be off when it   *)
(* starts again, and then StartFn releases nothing.                        *)
MacCrash(on) ==
    /\ DCount("crashes")
    /\ dAct' = [a \in DActors |->
                  Resting(IF a # DLoop THEN "idle" ELSE IF on THEN "begin" ELSE "none")]
    /\ dLock' = DFree /\ dStop' = FALSE
    /\ dMissed' = IF on THEN dMissed ELSE dMissed \cup dLow
    /\ UNCHANGED <<dPlan, dPresent, dHardware, dLoopState, dRaced, dFailed>>

MacNext ==
    \/ MacLoop
    \/ \E h \in DHandlers : MacHook(h)
    \/ \E n \in DNodes : MacShift(n)
    \/ \E on \in BOOLEAN : MacCrash(on)

MacSpec == MacInit /\ [][MacNext]_dVars

-----------------------------------------------------------------------------
(***************************************************************************)
(* "Release best-effort lifts the charge ceiling on each backend so the    *)
(* pack charges normally again": once batctl is off and no hook is at work,*)
(* a key holds a limit only if the loop wrote it after Release had passed  *)
(* it, a write of Release to its backend failed, or Release did not come to*)
(* that backend: it was not there, or Release returned because one before  *)
(* it had taken its write; or the process started with batctl off.  A      *)
(* limit written later than that, by a loop no Release had passed, has to  *)
(* be lifted again.                                                        *)
(***************************************************************************)
MacLiftedWhenOff ==
    dAct[DLoop].pc = "none" /\ (\A h \in DHandlers : dAct[h].pc = "idle") =>
        {k \in dLow : k[1] \notin dDown} \subseteq dRaced \cup dFailed \cup dMissed
=============================================================================
