-------------------------- MODULE LiveConfigProofs --------------------------
(***************************************************************************)
(* Proofs about LiveConfig: for every set of handlers, PATCHes and sources *)
(* of settings, the charge control keeps a valid window, nothing of a      *)
(* rejected PATCH is live or stored, a PATCH that meets no other takes     *)
(* effect as a whole or not at all, and a restart brings back what was     *)
(* live when PATCHes came one at a time and were stored.  And about        *)
(* ChargeControl and MacCharge, which look into the hook of batctl: for any*)
(* nodes, backends and hooks, no limit stays that LiftedWhenOff and        *)
(* MacLiftedWhenOff do not excuse.                                         *)
(***************************************************************************)
EXTENDS MCLiveCharge, WellFoundedInduction, TLAPS

(* All values of a partial assignment have a known origin. *)
Traced(f) == \A n \in DOMAIN f : FromSomewhere(n, f[n])

(* Where a handler is between its checks and its answer. *)
Past == {"flags", "store", "hooks", "snapshot", "apply", "read", "truncate", "fill"}

(* What a handler holds: its copy is traced, and so is its PATCH once accepted. *)
HandlerInv(h) ==
    /\ DOMAIN body[h] \subseteq Names
    /\ Traced(copy[h])
    /\ pc[h] = "store" => DOMAIN copy[h] = Names
    /\ pc[h] \in Past => \A n \in DOMAIN body[h] : <<n, body[h][n]>> \in agreed

Shape ==
    /\ pc \in [Handlers -> PCs]
    /\ DOMAIN body = Handlers
    /\ DOMAIN copy = Handlers

IInv ==
    /\ Shape
    /\ WindowValid
    /\ DOMAIN live = Names /\ Traced(live)
    /\ Traced(file)
    /\ \A h \in Handlers : HandlerInv(h)

(* An overlay of traced assignments is traced. *)
LEMMA OverlayTraced ==
    ASSUME NEW f, NEW g, Traced(f), \A n \in DOMAIN g : FromSomewhere(n, g[n])
    PROVE  /\ Traced(Overlay(f, g))
           /\ DOMAIN Overlay(f, g) = DOMAIN f \cup DOMAIN g
BY DEF Overlay, Traced

(* The pair the process starts with fits, and comes from its sources. *)
LEMMA BootPairValid ==
    ASSUME NEW s
    PROVE  /\ ValidWindow(BootPair(s))
           /\ DOMAIN BootPair(s) = Extras
           /\ \A n \in Extras : \/ BootPair(s)[n] = Default[n]
                                \/ n \in DOMAIN s /\ BootPair(s)[n] = s[n]
<1> DEFINE dft == [n \in Extras |-> Default[n]]
           pair == Overlay(dft, [n \in DOMAIN s \cap Extras |-> s[n]])
<1>1. ValidWindow(dft)
  BY DefaultAssumption DEF ValidWindow, Extras, Names
<1>2. /\ DOMAIN pair = Extras
      /\ \A n \in Extras : pair[n] = Default[n] \/ (n \in DOMAIN s /\ pair[n] = s[n])
  BY DEF Overlay
<1>3. BootPair(s) = IF ValidWindow(pair) THEN pair ELSE dft
  BY DEF BootPair
<1> HIDE DEF pair
<1>4. DOMAIN dft = Extras /\ \A n \in Extras : dft[n] = Default[n]
  OBVIOUS
<1> HIDE DEF dft
<1> QED
  BY <1>1, <1>2, <1>3, <1>4

(* The settings after a start are traced when those of the file are. *)
LEMMA BootTraced ==
    ASSUME NEW s,
           \A n \in DOMAIN s \cap Names : FromSomewhere(n, s[n])
    PROVE  /\ Traced(Overlay(BootFlags(s), BootPair(s)))
           /\ DOMAIN Overlay(BootFlags(s), BootPair(s)) = Names
<1>1. /\ DOMAIN BootFlags(s) = Flags
      /\ \A f \in Flags : BootFlags(s)[f] = Default[f] \/ (f \in DOMAIN s /\ BootFlags(s)[f] = s[f])
  BY DEF BootFlags
<1>2. /\ Traced(BootFlags(s))
      /\ \A n \in DOMAIN BootPair(s) : FromSomewhere(n, BootPair(s)[n])
  BY <1>1, BootPairValid DEF Traced, FromSomewhere, Names
<1>3. DOMAIN BootPair(s) = Extras
  BY BootPairValid
<1>4. /\ Traced(Overlay(BootFlags(s), BootPair(s)))
      /\ DOMAIN Overlay(BootFlags(s), BootPair(s)) = DOMAIN BootFlags(s) \cup DOMAIN BootPair(s)
  <2> HIDE DEF Traced
  <2> QED
    BY ONLY <1>2, OverlayTraced
<1> QED
  BY <1>1, <1>3, <1>4 DEF Names

(* Env and a traced file make traced sources. *)
LEMMA SourcesTraced ==
    ASSUME Traced(file)
    PROVE  \A n \in DOMAIN Sources \cap Names : FromSomewhere(n, Sources[n])
BY DEF Sources, Overlay, Traced, FromSomewhere, None

(* The inductive invariant holds at the start. *)
LEMMA InitInv == Init => IInv
<1> SUFFICES ASSUME Init PROVE IInv
  OBVIOUS
<1>1. Traced(file)
  BY DEF Init, Traced, None
<1>2. \A n \in DOMAIN Env \cap Names : FromSomewhere(n, Env[n])
  BY DEF FromSomewhere
<1>3. DOMAIN live = Names /\ Traced(live)
  BY <1>2, BootTraced DEF Init
<1>4. WindowValid
  BY BootPairValid DEF Init, WindowValid
<1>5. Shape /\ \A h \in Handlers : HandlerInv(h)
  BY DEF Init, Shape, PCs, HandlerInv, Traced, None, Past
<1> QED
  BY <1>1, <1>3, <1>4, <1>5 DEF IInv

(* What was traced stays traced: accepted values are only ever added. *)
LEMMA TracedKept ==
    ASSUME agreed \subseteq agreed', NEW f, Traced(f)
    PROVE  \A n \in DOMAIN f : FromSomewhere(n, f[n])'
BY DEF Traced, FromSomewhere

(* A step of one handler: what must be shown of it, the rest follows. *)
LEMMA HandlerStep ==
    ASSUME IInv, NEW h \in Handlers, Shape',
           \A g \in Handlers \ {h} :
               pc'[g] = pc[g] /\ body'[g] = body[g] /\ copy'[g] = copy[g],
           agreed \subseteq agreed',
           WindowValid',
           live' = live \/ (DOMAIN live' = Names /\ Traced(live)'),
           file' = file \/ Traced(file)',
           HandlerInv(h)'
    PROVE  IInv'
<1>1. DOMAIN live' = Names /\ Traced(live)'
  BY TracedKept DEF IInv, Traced
<1>2. Traced(file)'
  BY TracedKept DEF IInv, Traced
<1>3. ASSUME NEW g \in Handlers, g # h PROVE HandlerInv(g)'
  <2>1. HandlerInv(g) /\ pc'[g] = pc[g] /\ body'[g] = body[g] /\ copy'[g] = copy[g]
    BY <1>3 DEF IInv
  <2>2. Traced(copy[g])'
    BY <2>1, TracedKept DEF HandlerInv, Traced
  <2> QED
    BY <2>1, <2>2 DEF HandlerInv
<1> QED
  BY <1>1, <1>2, <1>3 DEF IInv

(* Handlers that only move, without touching settings or their copy. *)
LEMMA MoveStep ==
    ASSUME IInv, NEW h \in Handlers, NEW q \in PCs,
           pc' = [pc EXCEPT ![h] = q],
           q # "store",
           q \in Past => pc[h] \in Past,
           UNCHANGED <<live, thresholds, file, body, copy, agreed>>
    PROVE  IInv'
<1>1. Shape'
  BY DEF IInv, Shape
<1>2. HandlerInv(h)'
  <2>1. HandlerInv(h) /\ pc'[h] = q
    BY DEF IInv, Shape
  <2>2. Traced(copy[h])'
    BY <2>1 DEF HandlerInv, Traced, FromSomewhere
  <2> QED
    BY <2>1, <2>2 DEF HandlerInv
<1> QED
  BY <1>1, <1>2, HandlerStep DEF IInv, WindowValid, Shape

(* Each step keeps the inductive invariant. *)
LEMMA StepInv == IInv /\ [Next]_vars => IInv'
<1> SUFFICES ASSUME IInv, [Next]_vars PROVE IInv'
  OBVIOUS
<1>1. CASE UNCHANGED vars
  <2>1. Traced(live)' /\ Traced(file)' /\ \A h \in Handlers : HandlerInv(h)'
    BY <1>1 DEF IInv, vars, Traced, FromSomewhere, HandlerInv
  <2> QED
    BY <1>1, <2>1 DEF IInv, vars, Shape, WindowValid
<1>2. CASE Restart
  <2>1. \A n \in DOMAIN Sources \cap Names : FromSomewhere(n, Sources[n])
    BY SourcesTraced DEF IInv
  <2>2. DOMAIN live' = Names /\ Traced(live')
    BY <2>1, <1>2, BootTraced DEF Restart, Boot
  <2>3. agreed' = agreed /\ file' = file
    BY <1>2 DEF Restart, stored
  <2>4. Traced(live)' /\ Traced(file)'
    BY <2>2, <2>3 DEF IInv, Traced, FromSomewhere
  <2>5. WindowValid'
    BY <1>2, BootPairValid DEF Restart, Boot, WindowValid
  <2>6. Shape' /\ \A h \in Handlers : HandlerInv(h)'
    BY <1>2 DEF Restart, Shape, PCs, HandlerInv, Traced, None, Past
  <2> QED
    BY <2>2, <2>4, <2>5, <2>6 DEF IInv
<1>3. ASSUME NEW h \in Handlers, NEW p \in Patches, Receive(h, p) PROVE IInv'
  <2>1. Shape' /\ pc'[h] = "validate" /\ body'[h] = p /\ copy' = copy
    BY <1>3 DEF Receive, IInv, Shape, PCs
  <2>2. HandlerInv(h)'
    <3>1. Traced(copy[h])'
      BY <1>3 DEF Receive, IInv, HandlerInv, Traced, FromSomewhere
    <3> QED
      BY <2>1, <3>1, PatchesAssumption DEF HandlerInv, IsSettings, Past
  <2> QED
    BY <1>3, <2>1, <2>2, HandlerStep
    DEF Receive, IInv, Shape, WindowValid, conf, stored
<1>4. ASSUME NEW h \in Handlers, Handle(h) PROVE IInv'
  <2>1. CASE Try(h)
    BY <1>4, <2>1, MoveStep
    DEF Try, TryRead, Goto, PCs, Past, conf, stored, history
  <2>2. CASE TrySet(h)
    <3>1. PICK q \in {"restore", "validate"} : pc' = [pc EXCEPT ![h] = q]
      BY <2>2 DEF TrySet, Goto
    <3> QED
      BY <1>4, <2>2, <3>1, MoveStep DEF TrySet, PCs, Past, stored, history
  <2>3. CASE TryRestore(h)
    BY <1>4, <2>3, MoveStep DEF TryRestore, Goto, PCs, Past, stored, local, history
  <2>4. CASE Reject(h)
    BY <1>4, <2>4, MoveStep DEF Reject, Goto, PCs, Past, conf, stored, local, history
  <2>5. CASE Accept(h)
    <3>1. /\ Shape' /\ pc'[h] = "flags"
          /\ agreed' = agreed \cup {<<n, body[h][n]>> : n \in DOMAIN body[h]}
          /\ UNCHANGED <<live, thresholds, file, body, copy>>
      BY <2>5 DEF Accept, Goto, IInv, Shape, PCs, conf, stored
    <3>2. HandlerInv(h)'
      <4>1. Traced(copy[h])'
        BY <3>1 DEF IInv, HandlerInv, Traced, FromSomewhere
      <4> QED
        BY <3>1, <4>1 DEF IInv, HandlerInv
    <3> QED
      BY <1>4, <2>5, <3>1, <3>2, HandlerStep DEF Accept, Goto, IInv, Shape, WindowValid
  <2>6. CASE Set(h)
    <3>1. UNCHANGED <<live, thresholds, file, pc, body, copy, agreed>>
      BY <2>6 DEF Set, SetFlag, stored, history
    <3>2. Shape' /\ HandlerInv(h)'
      BY <3>1 DEF IInv, Shape, HandlerInv, Traced, FromSomewhere
    <3> QED
      BY <1>4, <3>1, <3>2, HandlerStep DEF IInv, WindowValid
  <2>7. CASE LoadLive(h)
    <3>1. /\ pc[h] = "flags" /\ pc' = [pc EXCEPT ![h] = "store"]
          /\ copy' = [copy EXCEPT ![h] = live]
          /\ UNCHANGED <<live, thresholds, file, body, agreed>>
      BY <2>7 DEF LoadLive, Goto, conf, stored, history
    <3>2. Shape' /\ pc'[h] = "store" /\ copy'[h] = live
      BY <3>1 DEF IInv, Shape, PCs
    <3>3. HandlerInv(h)'
      <4>1. Traced(live)'
        BY <3>1 DEF IInv, Traced, FromSomewhere
      <4> QED
        BY <3>1, <3>2, <4>1 DEF IInv, HandlerInv, Past, Traced
    <3> QED
      BY <1>4, <3>1, <3>2, <3>3, HandlerStep DEF IInv, Shape, WindowValid
  <2>8. CASE StoreLive(h)
    <3>1. /\ pc[h] = "store" /\ pc' = [pc EXCEPT ![h] = "hooks"]
          /\ live' = Overlay(copy[h], body[h])
          /\ copy' = [copy EXCEPT ![h] = live']
          /\ UNCHANGED <<thresholds, file, body, agreed>>
      BY <2>8 DEF StoreLive, Goto, stored, history
    <3>2. Shape' /\ pc'[h] = "hooks" /\ copy'[h] = live'
      BY <3>1 DEF IInv, Shape, PCs
    <3>3. /\ HandlerInv(h)
          /\ \A n \in DOMAIN body[h] : FromSomewhere(n, body[h][n])
      BY <3>1 DEF IInv, HandlerInv, Past, FromSomewhere
    <3>4. /\ Traced(Overlay(copy[h], body[h]))
          /\ DOMAIN Overlay(copy[h], body[h]) = DOMAIN copy[h] \cup DOMAIN body[h]
      <4>1. Traced(copy[h])
        BY <3>3 DEF HandlerInv
      <4> QED
        BY ONLY <4>1, <3>3, OverlayTraced
    <3>5. DOMAIN live' = Names /\ Traced(live)'
      <4>1. DOMAIN live' = Names
        BY <3>1, <3>3, <3>4 DEF HandlerInv
      <4>2. Traced(live')
        BY <3>1, <3>4
      <4> QED
        BY <3>1, <4>1, <4>2 DEF Traced, FromSomewhere
    <3>6. HandlerInv(h)'
      BY <3>1, <3>2, <3>3, <3>5 DEF HandlerInv, Past, Traced
    <3> QED
      BY <1>4, <3>1, <3>2, <3>5, <3>6, HandlerStep DEF IInv, Shape, WindowValid
  <2>9. CASE RunHooks(h)
    BY <1>4, <2>9, MoveStep DEF RunHooks, Goto, PCs, Past, stored, local, history
  <2>10. CASE TakeSnapshot(h)
    <3>1. /\ pc[h] = "snapshot" /\ pc' = [pc EXCEPT ![h] = "apply"]
          /\ copy' = [copy EXCEPT ![h] = Overlay(live, body[h])]
          /\ UNCHANGED <<live, thresholds, file, body, agreed>>
      BY <2>10 DEF TakeSnapshot, Goto, conf, stored, history
    <3>2. Shape' /\ pc'[h] = "apply" /\ copy'[h] = Overlay(live, body[h])
      BY <3>1 DEF IInv, Shape, PCs
    <3>3. HandlerInv(h) /\ Traced(live) /\ \A n \in DOMAIN body[h] : FromSomewhere(n, body[h][n])
      BY <3>1 DEF IInv, HandlerInv, Past, FromSomewhere
    <3>4. Traced(Overlay(live, body[h]))
      BY ONLY <3>3, OverlayTraced
    <3>5. Traced(copy'[h])
      BY <3>2, <3>4
    <3>6. HandlerInv(h)'
      <4>1. Traced(copy[h])'
        BY <3>1, <3>5 DEF Traced, FromSomewhere
      <4> QED
        BY <3>1, <3>2, <3>3, <4>1 DEF HandlerInv, Past
    <3> QED
      BY <1>4, <3>1, <3>2, <3>6, HandlerStep DEF IInv, Shape, WindowValid
  <2>11. CASE ApplyExtras(h)
    <3>1. /\ pc[h] = "apply" /\ pc' = [pc EXCEPT ![h] = "read"]
          /\ UNCHANGED <<live, file, body, copy, agreed>>
      BY <2>11 DEF ApplyExtras, Goto, stored, local, history
    <3>2. Shape' /\ pc'[h] = "read"
      BY <3>1 DEF IInv, Shape, PCs
    <3>3. HandlerInv(h)'
      <4>1. Traced(copy[h])'
        BY <3>1 DEF IInv, HandlerInv, Traced, FromSomewhere
      <4> QED
        BY <3>1, <3>2, <4>1 DEF IInv, HandlerInv, Past
    <3>4. WindowValid'
      BY <2>11 DEF ApplyExtras, IInv, WindowValid, ValidWindow, Extras
    <3> QED
      BY <1>4, <3>1, <3>2, <3>3, <3>4, HandlerStep DEF IInv, Shape
  <2>12. CASE ReadFile(h)
    <3>1. /\ pc[h] = "read" /\ pc' = [pc EXCEPT ![h] = "truncate"]
          /\ copy' = [copy EXCEPT ![h] = IF torn THEN None ELSE file]
          /\ UNCHANGED <<live, thresholds, file, body, agreed>>
      BY <2>12 DEF ReadFile, Goto, conf, stored, history
    <3>2. Shape' /\ pc'[h] = "truncate" /\ (copy'[h] = None \/ copy'[h] = file)
      BY <3>1 DEF IInv, Shape, PCs
    <3>3. HandlerInv(h)'
      <4>1. Traced(copy[h])'
        BY <3>1, <3>2 DEF IInv, Traced, FromSomewhere, None
      <4> QED
        BY <3>1, <3>2, <4>1 DEF IInv, HandlerInv, Past
    <3> QED
      BY <1>4, <3>1, <3>2, <3>3, HandlerStep DEF IInv, Shape, WindowValid
  <2>13. CASE PersistFails(h)
    BY <1>4, <2>13, MoveStep DEF PersistFails, Goto, PCs, Past, conf, stored, local
  <2>14. CASE Truncate(h) \/ Fill(h)
    <3>1. PICK q \in {"fill", "ok"} : pc' = [pc EXCEPT ![h] = q] /\ pc[h] \in Past
      BY <2>14 DEF Truncate, Fill, Goto, Past
    <3>2. UNCHANGED <<live, thresholds, body, copy, agreed>>
      BY <2>14 DEF Truncate, Fill, conf, local, history
    <3>3. Shape' /\ pc'[h] = q
      BY <3>1, <3>2 DEF IInv, Shape, PCs
    <3>4. HandlerInv(h)'
      <4>1. Traced(copy[h])'
        BY <3>2 DEF IInv, HandlerInv, Traced, FromSomewhere
      <4> QED
        BY <3>1, <3>2, <3>3, <4>1 DEF IInv, HandlerInv
    <3>5. Traced(copy[h]) /\ \A n \in DOMAIN body[h] : FromSomewhere(n, body[h][n])
      BY <3>1 DEF IInv, HandlerInv, FromSomewhere
    <3>6. Traced(Overlay(copy[h], body[h]))
      BY ONLY <3>5, OverlayTraced
    <3>7. Traced(file')
      <4>1. file' = None \/ file' = Overlay(copy[h], body[h])
        BY <2>14 DEF Truncate, Fill
      <4>2. Traced(None)
        BY DEF Traced, None
      <4> QED
        BY <3>6, <4>1, <4>2
    <3>8. Traced(file)'
      BY <3>2, <3>7 DEF Traced, FromSomewhere
    <3> QED
      BY <1>4, <3>1, <3>2, <3>3, <3>4, <3>8, HandlerStep DEF IInv, Shape, WindowValid
  <2> QED
    BY <1>4, <2>1, <2>2, <2>3, <2>4, <2>5, <2>6, <2>7, <2>8, <2>9, <2>10, <2>11, <2>12,
       <2>13, <2>14 DEF Handle
<1> QED
  BY <1>1, <1>2, <1>3, <1>4 DEF Next

(* The inductive invariant holds in every reachable state. *)
THEOREM Invariance == Spec => []IInv
<1>1. Init => IInv
  BY InitInv
<1>2. IInv /\ [Next]_vars => IInv'
  BY StepInv
<1> QED
  BY <1>1, <1>2, PTL DEF Spec

(***************************************************************************)
(* The window of the charge control always has its hysteresis: whatever    *)
(* PATCHes interleave with each other and with restarts.                   *)
(***************************************************************************)
THEOREM WindowTheorem == Spec => []WindowValid
<1>1. IInv => WindowValid
  BY DEF IInv
<1> QED
  BY <1>1, Invariance, PTL

(***************************************************************************)
(* What is live or stored is a default, comes from Env, or passed the      *)
(* checks of some PATCH.                                                   *)
(***************************************************************************)
THEOREM RejectedTheorem == Spec => []RejectedNotApplied
<1>1. IInv => RejectedNotApplied
  BY DEF IInv, Traced, RejectedNotApplied
<1> QED
  BY <1>1, Invariance, PTL

-----------------------------------------------------------------------------
(* One PATCH at a time, and none at the start: what a handler knows.       *)

(* Where a handler is once it stored its changes in the live settings. *)
Stored == {"hooks", "snapshot", "apply", "read", "truncate", "fill"}

(* No other handler is between its checks and its answer. *)
Undisturbed(h) == alone[h] \/ (clean /\ Busy(h))
Sole == \A h \in Handlers : Undisturbed(h) => \A g \in Handlers \ {h} : ~Busy(g)

(* A PATCH gets past its checks only if all of its flags parse. *)
Parses(h, f) == body[h][f] \in Parsable[f]
Checked(h) ==
    \A f \in Flags \cap DOMAIN body[h] :
        /\ pc[h] \in {"validate", "set", "restore"} =>
             f \in todo[h] \/ (pc[h] = "set" /\ trial[h] = f) \/ invalid[h] \/ Parses(h, f)
        /\ pc[h] \in Past => Parses(h, f)

(* The copy of the settings is whole, that of the file has flags that parse. *)
CopyFits(h) ==
    /\ pc[h] \in {"store", "hooks", "apply"} => copy[h] \in [Names -> Int]
    /\ pc[h] \in {"truncate", "fill"} =>
           \A f \in Flags \cap DOMAIN copy[h] : copy[h][f] \in Parsable[f]

(* What a handler that is not disturbed knows of the live settings. *)
Held(h) ==
    Undisturbed(h) =>
        /\ pc[h] \in {"flags", "store"} => ExtrasFit(h)
        /\ pc[h] \in {"store", "hooks", "apply"} => copy[h] = live
        /\ pc[h] \in Stored \cup {"ok"} => \A n \in DOMAIN body[h] : live[n] = body[h][n]
        /\ pc[h] \in Stored => DOMAIN body[h] \cap Extras = {} \/ ValidWindow(live)
        /\ pc[h] = "fill" => torn

(* What a PATCH that meets no other has done so far. *)
Shown(h) ==
    /\ pc[h] = "flags" => \A f \in (Flags \cap DOMAIN body[h]) \ todo[h] : flagVal[f] = body[h][f]
    /\ pc[h] \in Stored \cup {"store", "ok"} =>
           \A f \in Flags \cap DOMAIN body[h] : flagVal[f] = body[h][f]
Took(h) ==
    /\ pc[h] \in {"validate", "set", "restore", "flags", "store", "rejected"} => live = before[h]
    /\ pc[h] \in Stored \cup {"ok"} => live = Overlay(before[h], body[h])
Hooked(h) ==
    pc[h] \in (Stored \ {"hooks"}) \cup {"ok"} /\ "batctl" \in DOMAIN body[h] =>
        loop = (live["batctl"] = 1)
Windowed(h) ==
    pc[h] \in {"read", "truncate", "fill", "ok"} /\ DOMAIN body[h] \cap Extras # {} =>
        thresholds = [n \in Extras |-> live[n]]
Persisted(h) ==
    pc[h] = "ok" => ~torn /\ \A n \in DOMAIN body[h] : n \in DOMAIN file /\ file[n] = body[h][n]
AloneOK(h) == alone[h] => Shown(h) /\ Took(h) /\ Hooked(h) /\ Windowed(h) /\ Persisted(h)

(* The live settings are those of f, or the defaults, but for some names. *)
Mirrors(f, but) ==
    \A n \in Names \ but : live[n] = IF n \in DOMAIN f THEN f[n] ELSE Default[n]

(* One at a time and stored, the file mirrors the live settings. *)
CleanAt(h) ==
    /\ pc[h] \in Stored \ {"fill"} => ~torn /\ Mirrors(file, DOMAIN Env \cup DOMAIN body[h])
    /\ pc[h] = "truncate" => copy[h] = file
    /\ pc[h] = "fill" => Mirrors(copy[h], DOMAIN Env \cup DOMAIN body[h])
Unstored == ~torn /\ Mirrors(file, DOMAIN Env)
Proper == clean /\ DOMAIN Env \cap Extras = {}
Clean ==
    Proper =>
        /\ ValidWindow(live)
        /\ \A h \in Handlers : CleanAt(h)
        /\ (\A h \in Handlers : pc[h] \notin Stored) => Unstored

Here(h) == Checked(h) /\ CopyFits(h) /\ Held(h) /\ AloneOK(h)
AtomicInv == TypeOK /\ DOMAIN before = Handlers /\ Sole /\ Clean /\ \A h \in Handlers : Here(h)

(* A handler at work says what Clean says. *)
CleanHere(h) ==
    Proper => ValidWindow(live) /\ CleanAt(h) /\ (pc[h] \notin Stored => Unstored)

(* A handler at work, and no other, when PATCHes came one at a time. *)
LEMMA CleanNow ==
    ASSUME AtomicInv, NEW h \in Handlers, Busy(h)
    PROVE  CleanHere(h)
<1>1. Clean /\ Sole
  BY DEF AtomicInv
<1>2. Proper => \A g \in Handlers \ {h} : ~Busy(g)
  BY <1>1 DEF Sole, Undisturbed, Proper
<1>3. Proper => \A g \in Handlers \ {h} : pc[g] \notin Stored
  BY <1>2 DEF Busy, Stored, Answers
<1> QED
  BY <1>1, <1>3 DEF Clean, CleanHere

(* The other handlers keep what they hold. *)
Frame(h) ==
    \A g \in Handlers \ {h} :
        /\ pc'[g] = pc[g] /\ body'[g] = body[g] /\ todo'[g] = todo[g] /\ trial'[g] = trial[g]
        /\ invalid'[g] = invalid[g] /\ copy'[g] = copy[g]

(* A step of one handler: what must be shown of it, the rest follows. *)
LEMMA AtomicStep ==
    ASSUME AtomicInv, NEW h \in Handlers, Busy(h), Frame(h),
           UNCHANGED <<alone, before>>, clean' => clean,
           TypeOK', Here(h)', CleanHere(h)'
    PROVE  AtomicInv'
<1>1. Sole /\ \A g \in Handlers : Here(g)
  BY DEF AtomicInv
<1>2. \A g \in Handlers \ {h} : Undisturbed(g)' => Undisturbed(g)
  BY DEF Frame, Undisturbed, Busy
<1>3. \A g \in Handlers \ {h} : ~Undisturbed(g)
  BY <1>1 DEF Sole
<1>4. \A g \in Handlers \ {h} : ~alone'[g] /\ ~Undisturbed(g)'
  BY <1>2, <1>3 DEF Undisturbed
<1>5. Undisturbed(h)' => Undisturbed(h)
  BY DEF Undisturbed
<1>6. Sole'
  <2>1. \A g \in Handlers \ {h} : Busy(g)' => Busy(g)
    BY DEF Frame, Busy
  <2>2. Undisturbed(h)' => \A g \in Handlers \ {h} : ~Busy(g)'
    BY <1>1, <1>5, <2>1 DEF Sole
  <2> QED
    BY <1>4, <2>2 DEF Sole
<1>7. ASSUME NEW g \in Handlers, g # h PROVE Here(g)'
  <2>1. Checked(g)'
    BY <1>1, <1>7 DEF Frame, Here, Checked, Parses
  <2>2. CopyFits(g)'
    BY <1>1, <1>7 DEF Frame, Here, CopyFits
  <2>3. Held(g)' /\ AloneOK(g)'
    BY <1>4, <1>7 DEF Held, AloneOK
  <2> QED
    BY <2>1, <2>2, <2>3 DEF Here
<1>8. Clean'
  <2> SUFFICES ASSUME Proper' PROVE /\ ValidWindow(live')
                                    /\ \A g \in Handlers : CleanAt(g)'
                                    /\ (\A g \in Handlers : pc'[g] \notin Stored) => Unstored'
    BY DEF Clean
  <2>1. ValidWindow(live') /\ CleanAt(h)' /\ (pc'[h] \notin Stored => Unstored')
    BY DEF CleanHere
  <2>2. \A g \in Handlers \ {h} : ~Busy(g)
    BY <1>1 DEF Sole, Undisturbed, Proper
  <2>3. \A g \in Handlers \ {h} : pc'[g] \notin Stored
    BY <2>2 DEF Busy, Stored, Answers, Frame
  <2>4. \A g \in Handlers \ {h} : CleanAt(g)'
    BY <2>3 DEF CleanAt, Stored
  <2> QED
    BY <2>1, <2>4
<1> QED
  BY <1>6, <1>7, <1>8 DEF AtomicInv

(* The empty assignment, and a body, assign to settings. *)
LEMMA NoneTyped == IsSettings(None) /\ DOMAIN None = {}
BY DEF IsSettings, None

(* What a handler was asked to change is a partial assignment. *)
LEMMA BodyTyped ==
    ASSUME TypeOK, NEW h \in Handlers
    PROVE  IsSettings(body[h])
BY PatchesAssumption, NoneTyped DEF TypeOK

(* What an overlay assigns. *)
LEMMA OverlayTyped ==
    ASSUME NEW f, NEW g, IsSettings(f), IsSettings(g)
    PROVE  /\ IsSettings(Overlay(f, g))
           /\ DOMAIN Overlay(f, g) = DOMAIN f \cup DOMAIN g
           /\ \A n \in DOMAIN g : Overlay(f, g)[n] = g[n]
           /\ \A n \in DOMAIN f \ DOMAIN g : Overlay(f, g)[n] = f[n]
           /\ DOMAIN f = Names => Overlay(f, g) \in [Names -> Int]
BY DEF IsSettings, Overlay

-----------------------------------------------------------------------------
(* One step of a handler after the other. *)
LEMMA TryReadAtomic ==
    ASSUME AtomicInv, NEW h \in Handlers, NEW f \in Flags, TryRead(h, f)
    PROVE  AtomicInv'
<1>1. TypeOK /\ Here(h)
  BY DEF AtomicInv
<1>2. /\ pc[h] = "validate"
      /\ f \in todo[h]
      /\ pc' = [pc EXCEPT ![h] = "set"]
      /\ todo' = [todo EXCEPT ![h] = todo[h] \ {f}]
      /\ trial' = [trial EXCEPT ![h] = f]
      /\ old' = [old EXCEPT ![h] = flagVal[f]]
      /\ UNCHANGED <<flagVal, live, thresholds, loop, file, torn, body, invalid, copy, patches,
                     restarts, alone, before, agreed, clean>>
  BY DEF TryRead, Goto, conf, stored, counts, history
<1>3. /\ pc'[h] = "set"
      /\ todo'[h] = todo[h] \ {f}
      /\ trial'[h] = f
      /\ old'[h] = flagVal[f]
  BY <1>1, <1>2 DEF TypeOK
<1>4. Frame(h) /\ Busy(h) /\ (Undisturbed(h)' => Undisturbed(h))
  BY <1>1, <1>2 DEF TypeOK, Frame, Busy, Answers, Undisturbed
<1>5. CleanHere(h)
  BY <1>4, CleanNow
<1>6. TypeOK'
  BY <1>1, <1>2, <1>3 DEF TypeOK, PCs, IsSettings
<1>7. Checked(h)'
  BY <1>1, <1>2, <1>3 DEF Here, Checked, Parses, Past, TypeOK
<1>8. CopyFits(h)'
  BY <1>1, <1>2, <1>3 DEF Here, CopyFits, TypeOK
<1>9. Held(h)'
  BY <1>1, <1>2, <1>3, <1>4 DEF Here, Held, Stored, ExtrasFit
<1>10. AloneOK(h)'
  BY <1>1, <1>2, <1>3, <1>4 DEF Here, AloneOK, Shown, Took, Hooked, Windowed, Persisted, Held,
     Undisturbed, Stored
<1>11. CleanHere(h)'
  BY <1>1, <1>2, <1>3, <1>4, <1>5 DEF CleanHere, Proper, CleanAt, Unstored, Mirrors, Stored
<1> QED
  BY <1>2, <1>4, <1>6, <1>7, <1>8, <1>9, <1>10, <1>11, AtomicStep DEF Here

(* It tries a value that parses, *)
LEMMA TryGoodAtomic ==
    ASSUME AtomicInv, NEW h \in Handlers, TrySet(h), body[h][trial[h]] \in Parsable[trial[h]]
    PROVE  AtomicInv'
<1>1. TypeOK /\ Here(h)
  BY DEF AtomicInv
<1>2. /\ pc[h] = "set"
      /\ pc' = [pc EXCEPT ![h] = "restore"]
      /\ flagVal' = [flagVal EXCEPT ![trial[h]] = body[h][trial[h]]]
      /\ UNCHANGED <<live, thresholds, loop, file, torn, body, todo, trial, old, invalid, copy,
                     patches, restarts, alone, before, agreed, clean>>
  BY DEF TrySet, Goto, stored, counts, history
<1>3. /\ pc'[h] = "restore"
  BY <1>1, <1>2 DEF TypeOK
<1>4. Frame(h) /\ Busy(h) /\ (Undisturbed(h)' => Undisturbed(h))
  BY <1>1, <1>2 DEF TypeOK, Frame, Busy, Answers, Undisturbed
<1>5. CleanHere(h)
  BY <1>4, CleanNow
<1>6. TypeOK'
  <2>1. flagVal' \in [Flags -> Int]
    BY <1>1, <1>2, ParsableAssumption DEF TypeOK
  <2> QED
    BY <1>1, <1>2, <1>3, <2>1 DEF TypeOK, PCs, IsSettings
<1>7. Checked(h)'
  BY <1>1, <1>2, <1>3 DEF Here, Checked, Parses, Past, TypeOK
<1>8. CopyFits(h)'
  BY <1>1, <1>2, <1>3 DEF Here, CopyFits, TypeOK
<1>9. Held(h)'
  BY <1>1, <1>2, <1>3, <1>4 DEF Here, Held, Stored, ExtrasFit
<1>10. AloneOK(h)'
  BY <1>1, <1>2, <1>3, <1>4 DEF Here, AloneOK, Shown, Took, Hooked, Windowed, Persisted, Held,
     Undisturbed, Stored
<1>11. CleanHere(h)'
  BY <1>1, <1>2, <1>3, <1>4, <1>5 DEF CleanHere, Proper, CleanAt, Unstored, Mirrors, Stored
<1> QED
  BY <1>2, <1>4, <1>6, <1>7, <1>8, <1>9, <1>10, <1>11, AtomicStep DEF Here

(* or one that does not, *)
LEMMA TryBadAtomic ==
    ASSUME AtomicInv, NEW h \in Handlers, TrySet(h), body[h][trial[h]] \notin Parsable[trial[h]]
    PROVE  AtomicInv'
<1>1. TypeOK /\ Here(h)
  BY DEF AtomicInv
<1>2. /\ pc[h] = "set"
      /\ pc' = [pc EXCEPT ![h] = "validate"]
      /\ invalid' = [invalid EXCEPT ![h] = TRUE]
      /\ flagVal' = [flagVal EXCEPT ![trial[h]] = 0]
      /\ UNCHANGED <<live, thresholds, loop, file, torn, body, todo, trial, old, copy, patches,
                     restarts, alone, before, agreed, clean>>
  BY DEF TrySet, Goto, stored, counts, history
<1>3. /\ pc'[h] = "validate"
      /\ invalid'[h] = TRUE
  BY <1>1, <1>2 DEF TypeOK
<1>4. Frame(h) /\ Busy(h) /\ (Undisturbed(h)' => Undisturbed(h))
  BY <1>1, <1>2 DEF TypeOK, Frame, Busy, Answers, Undisturbed
<1>5. CleanHere(h)
  BY <1>4, CleanNow
<1>6. TypeOK'
  BY <1>1, <1>2, <1>3 DEF TypeOK, PCs, IsSettings
<1>7. Checked(h)'
  BY <1>1, <1>2, <1>3 DEF Here, Checked, Parses, Past, TypeOK
<1>8. CopyFits(h)'
  BY <1>1, <1>2, <1>3 DEF Here, CopyFits, TypeOK
<1>9. Held(h)'
  BY <1>1, <1>2, <1>3, <1>4 DEF Here, Held, Stored, ExtrasFit
<1>10. AloneOK(h)'
  BY <1>1, <1>2, <1>3, <1>4 DEF Here, AloneOK, Shown, Took, Hooked, Windowed, Persisted, Held,
     Undisturbed, Stored
<1>11. CleanHere(h)'
  BY <1>1, <1>2, <1>3, <1>4, <1>5 DEF CleanHere, Proper, CleanAt, Unstored, Mirrors, Stored
<1> QED
  BY <1>2, <1>4, <1>6, <1>7, <1>8, <1>9, <1>10, <1>11, AtomicStep DEF Here

(* and puts the old one back. *)
LEMMA TryRestoreAtomic ==
    ASSUME AtomicInv, NEW h \in Handlers, TryRestore(h)
    PROVE  AtomicInv'
<1>1. TypeOK /\ Here(h)
  BY DEF AtomicInv
<1>2. /\ pc[h] = "restore"
      /\ pc' = [pc EXCEPT ![h] = "validate"]
      /\ flagVal' = [flagVal EXCEPT ![trial[h]] = old[h]]
      /\ UNCHANGED <<live, thresholds, loop, file, torn, body, todo, trial, old, invalid, copy,
                     patches, restarts, alone, before, agreed, clean>>
  BY DEF TryRestore, Goto, stored, local, counts, history
<1>3. /\ pc'[h] = "validate"
  BY <1>1, <1>2 DEF TypeOK
<1>4. Frame(h) /\ Busy(h) /\ (Undisturbed(h)' => Undisturbed(h))
  BY <1>1, <1>2 DEF TypeOK, Frame, Busy, Answers, Undisturbed
<1>5. CleanHere(h)
  BY <1>4, CleanNow
<1>6. TypeOK'
  BY <1>1, <1>2, <1>3 DEF TypeOK, PCs, IsSettings
<1>7. Checked(h)'
  BY <1>1, <1>2, <1>3 DEF Here, Checked, Parses, Past, TypeOK
<1>8. CopyFits(h)'
  BY <1>1, <1>2, <1>3 DEF Here, CopyFits, TypeOK
<1>9. Held(h)'
  BY <1>1, <1>2, <1>3, <1>4 DEF Here, Held, Stored, ExtrasFit
<1>10. AloneOK(h)'
  BY <1>1, <1>2, <1>3, <1>4 DEF Here, AloneOK, Shown, Took, Hooked, Windowed, Persisted, Held,
     Undisturbed, Stored
<1>11. CleanHere(h)'
  BY <1>1, <1>2, <1>3, <1>4, <1>5 DEF CleanHere, Proper, CleanAt, Unstored, Mirrors, Stored
<1> QED
  BY <1>2, <1>4, <1>6, <1>7, <1>8, <1>9, <1>10, <1>11, AtomicStep DEF Here

(* It answers 400. *)
LEMMA RejectAtomic ==
    ASSUME AtomicInv, NEW h \in Handlers, Reject(h)
    PROVE  AtomicInv'
<1>1. TypeOK /\ Here(h)
  BY DEF AtomicInv
<1>2. /\ pc[h] = "validate"
      /\ pc' = [pc EXCEPT ![h] = "rejected"]
      /\ UNCHANGED <<flagVal, live, thresholds, loop, file, torn, body, todo, trial, old,
                     invalid, copy, patches, restarts, alone, before, agreed, clean>>
  BY DEF Reject, Goto, conf, stored, local, counts, history
<1>3. /\ pc'[h] = "rejected"
  BY <1>1, <1>2 DEF TypeOK
<1>4. Frame(h) /\ Busy(h) /\ (Undisturbed(h)' => Undisturbed(h))
  BY <1>1, <1>2 DEF TypeOK, Frame, Busy, Answers, Undisturbed
<1>5. CleanHere(h)
  BY <1>4, CleanNow
<1>6. TypeOK'
  BY <1>1, <1>2, <1>3 DEF TypeOK, PCs, IsSettings
<1>7. Checked(h)'
  BY <1>1, <1>2, <1>3 DEF Here, Checked, Parses, Past, TypeOK
<1>8. CopyFits(h)'
  BY <1>1, <1>2, <1>3 DEF Here, CopyFits, TypeOK
<1>9. Held(h)'
  BY <1>1, <1>2, <1>3, <1>4 DEF Here, Held, Stored, ExtrasFit
<1>10. AloneOK(h)'
  BY <1>1, <1>2, <1>3, <1>4 DEF Here, AloneOK, Shown, Took, Hooked, Windowed, Persisted, Held,
     Undisturbed, Stored
<1>11. CleanHere(h)'
  BY <1>1, <1>2, <1>3, <1>4, <1>5 DEF CleanHere, Proper, CleanAt, Unstored, Mirrors, Stored
<1> QED
  BY <1>2, <1>4, <1>6, <1>7, <1>8, <1>9, <1>10, <1>11, AtomicStep DEF Here

(* Nothing is left to try, all flags parse and the pair fits. *)
LEMMA AcceptAtomic ==
    ASSUME AtomicInv, NEW h \in Handlers, Accept(h)
    PROVE  AtomicInv'
<1>1. TypeOK /\ Here(h)
  BY DEF AtomicInv
<1>2. /\ pc[h] = "validate"
      /\ todo[h] = {}
      /\ ~invalid[h]
      /\ ExtrasFit(h)
      /\ pc' = [pc EXCEPT ![h] = "flags"]
      /\ todo' = [todo EXCEPT ![h] = Flags \cap DOMAIN body[h]]
      /\ agreed' = agreed \cup {<<n, body[h][n]>> : n \in DOMAIN body[h]}
      /\ UNCHANGED <<flagVal, live, thresholds, loop, file, torn, body, trial, old, invalid,
                     copy, patches, restarts, alone, before, clean>>
  BY DEF Accept, Goto, conf, stored, counts
<1>3. /\ pc'[h] = "flags"
      /\ todo'[h] = Flags \cap DOMAIN body[h]
  BY <1>1, <1>2 DEF TypeOK
<1>4. Frame(h) /\ Busy(h) /\ (Undisturbed(h)' => Undisturbed(h))
  BY <1>1, <1>2 DEF TypeOK, Frame, Busy, Answers, Undisturbed
<1>5. CleanHere(h)
  BY <1>4, CleanNow
<1>6. TypeOK'
  <2>1. \A a \in agreed' : a \in Names \X Int
    BY <1>1, <1>2, BodyTyped DEF TypeOK, IsSettings
  <2> QED
    BY <1>1, <1>2, <1>3, <2>1 DEF TypeOK, PCs, IsSettings
<1>7. Checked(h)'
  BY <1>1, <1>2, <1>3 DEF Here, Checked, Parses, Past, TypeOK
<1>8. CopyFits(h)'
  BY <1>1, <1>2, <1>3 DEF Here, CopyFits, TypeOK
<1>9. Held(h)'
  BY <1>1, <1>2, <1>3, <1>4 DEF Here, Held, Stored, ExtrasFit
<1>10. AloneOK(h)'
  BY <1>1, <1>2, <1>3, <1>4 DEF Here, AloneOK, Shown, Took, Hooked, Windowed, Persisted, Held,
     Undisturbed, Stored
<1>11. CleanHere(h)'
  BY <1>1, <1>2, <1>3, <1>4, <1>5 DEF CleanHere, Proper, CleanAt, Unstored, Mirrors, Stored
<1> QED
  BY <1>2, <1>4, <1>6, <1>7, <1>8, <1>9, <1>10, <1>11, AtomicStep DEF Here

(* It sets a flag for good: the value parses, so it is shown. *)
LEMMA SetFlagAtomic ==
    ASSUME AtomicInv, NEW h \in Handlers, NEW f \in Flags, SetFlag(h, f)
    PROVE  AtomicInv'
<1>1. TypeOK /\ Here(h)
  BY DEF AtomicInv
<1>2. /\ pc[h] = "flags"
      /\ f \in todo[h]
      /\ todo' = [todo EXCEPT ![h] = todo[h] \ {f}]
      /\ flagVal' = [flagVal EXCEPT ![f] = IF body[h][f] \in Parsable[f] THEN body[h][f] ELSE 0]
      /\ UNCHANGED <<live, thresholds, loop, file, torn, pc, body, trial, old, invalid, copy,
                     patches, restarts, alone, before, agreed, clean>>
  BY DEF SetFlag, stored, counts, history
<1>3. /\ todo'[h] = todo[h] \ {f}
  BY <1>1, <1>2 DEF TypeOK
<1>4. Frame(h) /\ Busy(h) /\ (Undisturbed(h)' => Undisturbed(h))
  BY <1>1, <1>2 DEF TypeOK, Frame, Busy, Answers, Undisturbed
<1>5. CleanHere(h)
  BY <1>4, CleanNow
<1>6. TypeOK'
  <2>0. (IF body[h][f] \in Parsable[f] THEN body[h][f] ELSE 0) \in Int
    BY ParsableAssumption
  <2>1. flagVal' \in [Flags -> Int]
    BY <1>1, <1>2, <2>0 DEF TypeOK
  <2> QED
    BY <1>1, <1>2, <1>3, <2>1 DEF TypeOK, PCs, IsSettings
<1>7. Checked(h)'
  BY <1>1, <1>2, <1>3 DEF Here, Checked, Parses, Past, TypeOK
<1>8. CopyFits(h)'
  BY <1>1, <1>2, <1>3 DEF Here, CopyFits, TypeOK
<1>9. Held(h)'
  BY <1>1, <1>2, <1>3, <1>4 DEF Here, Held, Stored, ExtrasFit
<1>10. AloneOK(h)'
  <2>1. f \in DOMAIN body[h] => body[h][f] \in Parsable[f]
    BY <1>1, <1>2 DEF Here, Checked, Parses, Past
  <2>2. /\ f \in DOMAIN body[h] => flagVal'[f] = body[h][f]
        /\ \A g \in Flags \ {f} : flagVal'[g] = flagVal[g]
    BY <1>1, <1>2, <2>1 DEF TypeOK
  <2>3. Shown(h) => Shown(h)'
    BY <1>2, <1>3, <2>2 DEF Shown, Stored
  <2> QED
    BY <1>1, <1>2, <1>3, <2>3 DEF Here, AloneOK, Took, Hooked, Windowed, Persisted, Stored
<1>11. CleanHere(h)'
  BY <1>1, <1>2, <1>3, <1>4, <1>5 DEF CleanHere, Proper, CleanAt, Unstored, Mirrors, Stored
<1> QED
  BY <1>2, <1>4, <1>6, <1>7, <1>8, <1>9, <1>10, <1>11, AtomicStep DEF Here

(* It reads the live settings, *)
LEMMA LoadLiveAtomic ==
    ASSUME AtomicInv, NEW h \in Handlers, LoadLive(h)
    PROVE  AtomicInv'
<1>1. TypeOK /\ Here(h)
  BY DEF AtomicInv
<1>2. /\ pc[h] = "flags"
      /\ todo[h] = {}
      /\ pc' = [pc EXCEPT ![h] = "store"]
      /\ copy' = [copy EXCEPT ![h] = live]
      /\ UNCHANGED <<flagVal, live, thresholds, loop, file, torn, body, todo, trial, old,
                     invalid, patches, restarts, alone, before, agreed, clean>>
  BY DEF LoadLive, Goto, conf, stored, counts, history
<1>3. /\ pc'[h] = "store"
      /\ copy'[h] = live
  BY <1>1, <1>2 DEF TypeOK
<1>4. Frame(h) /\ Busy(h) /\ (Undisturbed(h)' => Undisturbed(h))
  BY <1>1, <1>2 DEF TypeOK, Frame, Busy, Answers, Undisturbed
<1>5. CleanHere(h)
  BY <1>4, CleanNow
<1>6. TypeOK'
  BY <1>1, <1>2, <1>3 DEF TypeOK, PCs, IsSettings
<1>7. Checked(h)'
  BY <1>1, <1>2, <1>3 DEF Here, Checked, Parses, Past, TypeOK
<1>8. CopyFits(h)'
  BY <1>1, <1>2, <1>3 DEF Here, CopyFits, TypeOK
<1>9. Held(h)'
  BY <1>1, <1>2, <1>3, <1>4 DEF Here, Held, Stored, ExtrasFit
<1>10. AloneOK(h)'
  BY <1>1, <1>2, <1>3, <1>4 DEF Here, AloneOK, Shown, Took, Hooked, Windowed, Persisted, Held,
     Undisturbed, Stored
<1>11. CleanHere(h)'
  BY <1>1, <1>2, <1>3, <1>4, <1>5 DEF CleanHere, Proper, CleanAt, Unstored, Mirrors, Stored
<1> QED
  BY <1>2, <1>4, <1>6, <1>7, <1>8, <1>9, <1>10, <1>11, AtomicStep DEF Here

(* and stores them with its changes: they are what was live, overlaid. *)
LEMMA StoreLiveAtomic ==
    ASSUME AtomicInv, NEW h \in Handlers, StoreLive(h)
    PROVE  AtomicInv'
<1>1. TypeOK /\ Here(h)
  BY DEF AtomicInv
<1>2. /\ pc[h] = "store"
      /\ pc' = [pc EXCEPT ![h] = "hooks"]
      /\ copy' = [copy EXCEPT ![h] = live']
      /\ live' = Overlay(copy[h], body[h])
      /\ UNCHANGED <<flagVal, thresholds, loop, file, torn, body, todo, trial, old, invalid,
                     patches, restarts, alone, before, agreed, clean>>
  BY DEF StoreLive, Goto, stored, counts, history
<1>3. /\ pc'[h] = "hooks"
      /\ copy'[h] = live'
  BY <1>1, <1>2 DEF TypeOK
<1>4. Frame(h) /\ Busy(h) /\ (Undisturbed(h)' => Undisturbed(h))
  BY <1>1, <1>2 DEF TypeOK, Frame, Busy, Answers, Undisturbed
<1>5. CleanHere(h)
  BY <1>4, CleanNow
<1>5a. /\ IsSettings(body[h]) /\ copy[h] \in [Names -> Int] /\ live' \in [Names -> Int]
       /\ \A n \in DOMAIN body[h] : n \in Names /\ live'[n] = body[h][n]
       /\ \A n \in Names \ DOMAIN body[h] : live'[n] = copy[h][n]
  <2>1. IsSettings(body[h]) /\ copy[h] \in [Names -> Int]
    BY <1>1, <1>2, BodyTyped DEF Here, CopyFits
  <2>2. IsSettings(copy[h]) /\ DOMAIN copy[h] = Names
    BY <2>1 DEF IsSettings
  <2>3. DOMAIN body[h] \subseteq Names
    BY <2>1 DEF IsSettings
  <2> PICK c, b : c = copy[h] /\ b = body[h]
    OBVIOUS
  <2>4. IsSettings(c) /\ IsSettings(b) /\ DOMAIN c = Names /\ live' = Overlay(c, b)
    BY <1>2, <2>1, <2>2
  <2>5. /\ live' \in [Names -> Int]
        /\ \A n \in DOMAIN b : live'[n] = b[n]
        /\ \A n \in Names \ DOMAIN b : live'[n] = c[n]
    <3>1. /\ Overlay(c, b) \in [Names -> Int]
          /\ \A n \in DOMAIN b : Overlay(c, b)[n] = b[n]
          /\ \A n \in DOMAIN c \ DOMAIN b : Overlay(c, b)[n] = c[n]
      BY ONLY <2>4, OverlayTyped
    <3> QED
      BY ONLY <2>4, <3>1
  <2> QED
    BY <2>1, <2>3, <2>5
<1>5b. Undisturbed(h) => /\ copy[h] = live
                         /\ DOMAIN body[h] \cap Extras = {} \/ ValidWindow(live')
  BY <1>1, <1>2 DEF Here, Held, ExtrasFit
<1>6. TypeOK'
  <2>1. DOMAIN copy' = Handlers /\ \A g \in Handlers : IsSettings(copy'[g])
    BY <1>1, <1>2, <1>5a DEF TypeOK, IsSettings
  <2> QED
    BY <1>1, <1>2, <1>3, <1>5a, <2>1 DEF TypeOK, PCs
<1>7. Checked(h)'
  BY <1>1, <1>2, <1>3 DEF Here, Checked, Parses, Past, TypeOK
<1>8. CopyFits(h)'
  BY <1>3, <1>5a DEF CopyFits
<1>9. Held(h)'
  BY <1>2, <1>3, <1>4, <1>5a, <1>5b DEF Held, Stored
<1>10. AloneOK(h)'
  BY <1>1, <1>2, <1>3, <1>4 DEF Here, AloneOK, Shown, Took, Hooked, Windowed, Persisted, Held,
     Undisturbed, Stored
<1>11. CleanHere(h)'
  <2> SUFFICES ASSUME Proper'
               PROVE  ValidWindow(live') /\ CleanAt(h)'
    BY <1>3 DEF CleanHere, Stored
  <2>1. Undisturbed(h) /\ ValidWindow(live) /\ Unstored
    BY <1>2, <1>4, <1>5 DEF Proper, Undisturbed, CleanHere, Stored
  <2>2. ValidWindow(live')
    BY <1>5a, <1>5b, <2>1 DEF ValidWindow, Extras, Names
  <2>3. ~torn' /\ Mirrors(file, DOMAIN Env \cup DOMAIN body[h])'
    BY <1>2, <1>5a, <1>5b, <2>1 DEF Unstored, Mirrors
  <2> QED
    BY <1>3, <2>2, <2>3 DEF CleanAt, Stored
<1> QED
  BY <1>2, <1>4, <1>6, <1>7, <1>8, <1>9, <1>10, <1>11, AtomicStep DEF Here

(* The hook of batctl sees the value that is live. *)
LEMMA RunHooksAtomic ==
    ASSUME AtomicInv, NEW h \in Handlers, RunHooks(h)
    PROVE  AtomicInv'
<1>1. TypeOK /\ Here(h)
  BY DEF AtomicInv
<1>2. /\ pc[h] = "hooks"
      /\ pc' = [pc EXCEPT ![h] = "snapshot"]
      /\ loop' = IF "batctl" \in DOMAIN body[h] THEN copy[h]["batctl"] = 1 ELSE loop
      /\ UNCHANGED <<flagVal, live, thresholds, file, torn, body, todo, trial, old, invalid,
                     copy, patches, restarts, alone, before, agreed, clean>>
  BY DEF RunHooks, Goto, stored, local, counts, history
<1>3. /\ pc'[h] = "snapshot"
  BY <1>1, <1>2 DEF TypeOK
<1>4. Frame(h) /\ Busy(h) /\ (Undisturbed(h)' => Undisturbed(h))
  BY <1>1, <1>2 DEF TypeOK, Frame, Busy, Answers, Undisturbed
<1>5. CleanHere(h)
  BY <1>4, CleanNow
<1>6. TypeOK'
  BY <1>1, <1>2, <1>3 DEF TypeOK, PCs, IsSettings
<1>7. Checked(h)'
  BY <1>1, <1>2, <1>3 DEF Here, Checked, Parses, Past, TypeOK
<1>8. CopyFits(h)'
  BY <1>1, <1>2, <1>3 DEF Here, CopyFits, TypeOK
<1>9. Held(h)'
  BY <1>1, <1>2, <1>3, <1>4 DEF Here, Held, Stored, ExtrasFit
<1>10. AloneOK(h)'
  BY <1>1, <1>2, <1>3, <1>4 DEF Here, AloneOK, Shown, Took, Hooked, Windowed, Persisted, Held,
     Undisturbed, Stored
<1>11. CleanHere(h)'
  BY <1>1, <1>2, <1>3, <1>4, <1>5 DEF CleanHere, Proper, CleanAt, Unstored, Mirrors, Stored
<1> QED
  BY <1>2, <1>4, <1>6, <1>7, <1>8, <1>9, <1>10, <1>11, AtomicStep DEF Here

(* The snapshot is what is live: its changes are in there already. *)
LEMMA TakeSnapshotAtomic ==
    ASSUME AtomicInv, NEW h \in Handlers, TakeSnapshot(h)
    PROVE  AtomicInv'
<1>1. TypeOK /\ Here(h)
  BY DEF AtomicInv
<1>2. /\ pc[h] = "snapshot"
      /\ pc' = [pc EXCEPT ![h] = "apply"]
      /\ copy' = [copy EXCEPT ![h] = Overlay(live, body[h])]
      /\ UNCHANGED <<flagVal, live, thresholds, loop, file, torn, body, todo, trial, old,
                     invalid, patches, restarts, alone, before, agreed, clean>>
  BY DEF TakeSnapshot, Goto, conf, stored, counts, history
<1>3. /\ pc'[h] = "apply"
      /\ copy'[h] = Overlay(live, body[h])
  BY <1>1, <1>2 DEF TypeOK
<1>4. Frame(h) /\ Busy(h) /\ (Undisturbed(h)' => Undisturbed(h))
  BY <1>1, <1>2 DEF TypeOK, Frame, Busy, Answers, Undisturbed
<1>5. CleanHere(h)
  BY <1>4, CleanNow
<1>5a. /\ IsSettings(body[h]) /\ copy'[h] \in [Names -> Int] /\ live \in [Names -> Int]
       /\ \A n \in DOMAIN body[h] : copy'[h][n] = body[h][n]
       /\ \A n \in Names \ DOMAIN body[h] : copy'[h][n] = live[n]
  <2>1. IsSettings(body[h]) /\ live \in [Names -> Int]
    BY <1>1, BodyTyped DEF TypeOK
  <2>2. IsSettings(live) /\ DOMAIN live = Names
    BY <2>1 DEF IsSettings
  <2> PICK c, b : c = copy'[h] /\ b = body[h]
    OBVIOUS
  <2>3. IsSettings(b) /\ c = Overlay(live, b)
    BY <1>3, <2>1
  <2>4. /\ c \in [Names -> Int]
        /\ \A n \in DOMAIN b : c[n] = b[n]
        /\ \A n \in Names \ DOMAIN b : c[n] = live[n]
    <3>1. /\ IsSettings(Overlay(live, b)) /\ Overlay(live, b) \in [Names -> Int]
          /\ \A n \in DOMAIN b : Overlay(live, b)[n] = b[n]
          /\ \A n \in DOMAIN live \ DOMAIN b : Overlay(live, b)[n] = live[n]
      BY ONLY <2>2, <2>3, OverlayTyped
    <3> QED
      BY ONLY <2>2, <2>3, <3>1
  <2> QED
    BY <2>1, <2>4 DEF IsSettings
<1>6. TypeOK'
  <2>1. DOMAIN copy' = Handlers /\ \A g \in Handlers : IsSettings(copy'[g])
    BY <1>1, <1>2, <1>3, <1>5a DEF TypeOK, IsSettings
  <2> QED
    BY <1>1, <1>2, <1>3, <2>1 DEF TypeOK, PCs
<1>7. Checked(h)'
  BY <1>1, <1>2, <1>3 DEF Here, Checked, Parses, Past, TypeOK
<1>8. CopyFits(h)'
  BY <1>3, <1>5a DEF CopyFits
<1>9. Held(h)'
  <2> SUFFICES ASSUME Undisturbed(h)
               PROVE  /\ copy'[h] = live
                      /\ \A n \in DOMAIN body[h] : live[n] = body[h][n]
                      /\ DOMAIN body[h] \cap Extras = {} \/ ValidWindow(live)
    BY <1>2, <1>3, <1>4 DEF Held, Stored
  <2>1. /\ \A n \in DOMAIN body[h] : live[n] = body[h][n]
        /\ DOMAIN body[h] \cap Extras = {} \/ ValidWindow(live)
    BY <1>1, <1>2 DEF Here, Held, Stored
  <2>2. \A n \in Names : copy'[h][n] = live[n]
    BY <1>5a, <2>1
  <2>3. copy'[h] = live
    BY <1>5a, <2>2
  <2> QED
    BY <2>1, <2>3
<1>10. AloneOK(h)'
  BY <1>1, <1>2, <1>3, <1>4 DEF Here, AloneOK, Shown, Took, Hooked, Windowed, Persisted, Held,
     Undisturbed, Stored
<1>11. CleanHere(h)'
  BY <1>1, <1>2, <1>3, <1>4, <1>5 DEF CleanHere, Proper, CleanAt, Unstored, Mirrors, Stored
<1> QED
  BY <1>2, <1>4, <1>6, <1>7, <1>8, <1>9, <1>10, <1>11, AtomicStep DEF Here

(* A pair that fitted before the changes were stored still fits. *)
LEMMA ApplyExtrasAtomic ==
    ASSUME AtomicInv, NEW h \in Handlers, ApplyExtras(h)
    PROVE  AtomicInv'
<1>1. TypeOK /\ Here(h)
  BY DEF AtomicInv
<1>2. /\ pc[h] = "apply"
      /\ pc' = [pc EXCEPT ![h] = "read"]
      /\ thresholds' = IF ValidWindow(copy[h]) THEN [n \in Extras |-> copy[h][n]] ELSE thresholds
      /\ UNCHANGED <<flagVal, live, loop, file, torn, body, todo, trial, old, invalid, copy,
                     patches, restarts, alone, before, agreed, clean>>
  BY DEF ApplyExtras, Goto, stored, local, counts, history
<1>3. /\ pc'[h] = "read"
  BY <1>1, <1>2 DEF TypeOK
<1>4. Frame(h) /\ Busy(h) /\ (Undisturbed(h)' => Undisturbed(h))
  BY <1>1, <1>2 DEF TypeOK, Frame, Busy, Answers, Undisturbed
<1>5. CleanHere(h)
  BY <1>4, CleanNow
<1>6. TypeOK'
  <2>1. copy[h] \in [Names -> Int] /\ Extras \subseteq Names
    BY <1>1, <1>2 DEF Here, CopyFits, Names
  <2>2. thresholds' \in [Extras -> Int]
    BY <1>1, <1>2, <2>1 DEF TypeOK
  <2> QED
    BY <1>1, <1>2, <1>3, <2>2 DEF TypeOK, PCs, IsSettings
<1>7. Checked(h)'
  BY <1>1, <1>2, <1>3 DEF Here, Checked, Parses, Past, TypeOK
<1>8. CopyFits(h)'
  BY <1>1, <1>2, <1>3 DEF Here, CopyFits, TypeOK
<1>9. Held(h)'
  BY <1>1, <1>2, <1>3, <1>4 DEF Here, Held, Stored, ExtrasFit
<1>10. AloneOK(h)'
  BY <1>1, <1>2, <1>3, <1>4 DEF Here, AloneOK, Shown, Took, Hooked, Windowed, Persisted, Held,
     Undisturbed, Stored
<1>11. CleanHere(h)'
  BY <1>1, <1>2, <1>3, <1>4, <1>5 DEF CleanHere, Proper, CleanAt, Unstored, Mirrors, Stored
<1> QED
  BY <1>2, <1>4, <1>6, <1>7, <1>8, <1>9, <1>10, <1>11, AtomicStep DEF Here

(* It reads the file back. *)
LEMMA ReadFileAtomic ==
    ASSUME AtomicInv, NEW h \in Handlers, ReadFile(h)
    PROVE  AtomicInv'
<1>1. TypeOK /\ Here(h)
  BY DEF AtomicInv
<1>2. /\ pc[h] = "read"
      /\ pc' = [pc EXCEPT ![h] = "truncate"]
      /\ copy' = [copy EXCEPT ![h] = IF torn THEN None ELSE file]
      /\ UNCHANGED <<flagVal, live, thresholds, loop, file, torn, body, todo, trial, old,
                     invalid, patches, restarts, alone, before, agreed, clean>>
  BY DEF ReadFile, Goto, conf, stored, counts, history
<1>3. /\ pc'[h] = "truncate"
      /\ copy'[h] = IF torn THEN None ELSE file
  BY <1>1, <1>2 DEF TypeOK
<1>4. Frame(h) /\ Busy(h) /\ (Undisturbed(h)' => Undisturbed(h))
  BY <1>1, <1>2 DEF TypeOK, Frame, Busy, Answers, Undisturbed
<1>5. CleanHere(h)
  BY <1>4, CleanNow
<1>6. TypeOK'
  <2>1. DOMAIN copy' = Handlers /\ \A g \in Handlers : IsSettings(copy'[g])
    BY <1>1, <1>2, <1>3, NoneTyped DEF TypeOK
  <2> QED
    BY <1>1, <1>2, <1>3, <2>1 DEF TypeOK, PCs
<1>7. Checked(h)'
  BY <1>1, <1>2, <1>3 DEF Here, Checked, Parses, Past, TypeOK
<1>8. CopyFits(h)'
  <2>1. \A f \in Flags \cap DOMAIN copy'[h] : copy'[h][f] \in Parsable[f]
    BY <1>1, <1>3, NoneTyped DEF TypeOK
  <2> QED
    BY <1>3, <2>1 DEF CopyFits
<1>9. Held(h)'
  BY <1>1, <1>2, <1>3, <1>4 DEF Here, Held, Stored, ExtrasFit
<1>10. AloneOK(h)'
  BY <1>1, <1>2, <1>3, <1>4 DEF Here, AloneOK, Shown, Took, Hooked, Windowed, Persisted, Held,
     Undisturbed, Stored
<1>11. CleanHere(h)'
  BY <1>1, <1>2, <1>3, <1>4, <1>5 DEF CleanHere, Proper, CleanAt, Unstored, Mirrors, Stored
<1> QED
  BY <1>2, <1>4, <1>6, <1>7, <1>8, <1>9, <1>10, <1>11, AtomicStep DEF Here

(* It answers 500. *)
LEMMA PersistFailsAtomic ==
    ASSUME AtomicInv, NEW h \in Handlers, PersistFails(h)
    PROVE  AtomicInv'
<1>1. TypeOK /\ Here(h)
  BY DEF AtomicInv
<1>2. /\ pc[h] \in {"truncate", "fill"}
      /\ pc' = [pc EXCEPT ![h] = "failed"]
      /\ clean' = FALSE
      /\ UNCHANGED <<flagVal, live, thresholds, loop, file, torn, body, todo, trial, old,
                     invalid, copy, patches, restarts, alone, before, agreed>>
  BY DEF PersistFails, Goto, conf, stored, local, counts
<1>3. /\ pc'[h] = "failed"
  BY <1>1, <1>2 DEF TypeOK
<1>4. Frame(h) /\ Busy(h) /\ (Undisturbed(h)' => Undisturbed(h))
  BY <1>1, <1>2 DEF TypeOK, Frame, Busy, Answers, Undisturbed
<1>5. CleanHere(h)
  BY <1>4, CleanNow
<1>6. TypeOK'
  BY <1>1, <1>2, <1>3 DEF TypeOK, PCs, IsSettings
<1>7. Checked(h)'
  BY <1>1, <1>2, <1>3 DEF Here, Checked, Parses, Past, TypeOK
<1>8. CopyFits(h)'
  BY <1>1, <1>2, <1>3 DEF Here, CopyFits, TypeOK
<1>9. Held(h)'
  BY <1>1, <1>2, <1>3, <1>4 DEF Here, Held, Stored, ExtrasFit
<1>10. AloneOK(h)'
  BY <1>1, <1>2, <1>3, <1>4 DEF Here, AloneOK, Shown, Took, Hooked, Windowed, Persisted, Held,
     Undisturbed, Stored
<1>11. CleanHere(h)'
  BY <1>1, <1>2, <1>3, <1>4, <1>5 DEF CleanHere, Proper, CleanAt, Unstored, Mirrors, Stored
<1> QED
  BY <1>2, <1>4, <1>6, <1>7, <1>8, <1>9, <1>10, <1>11, AtomicStep DEF Here

(* It empties the file, and holds what was in it. *)
LEMMA TruncateAtomic ==
    ASSUME AtomicInv, NEW h \in Handlers, Truncate(h)
    PROVE  AtomicInv'
<1>1. TypeOK /\ Here(h)
  BY DEF AtomicInv
<1>2. /\ pc[h] = "truncate"
      /\ pc' = [pc EXCEPT ![h] = "fill"]
      /\ file' = None
      /\ torn' = TRUE
      /\ UNCHANGED <<flagVal, live, thresholds, loop, body, todo, trial, old, invalid, copy,
                     patches, restarts, alone, before, agreed, clean>>
  BY DEF Truncate, Goto, conf, local, counts, history
<1>3. /\ pc'[h] = "fill"
  BY <1>1, <1>2 DEF TypeOK
<1>4. Frame(h) /\ Busy(h) /\ (Undisturbed(h)' => Undisturbed(h))
  BY <1>1, <1>2 DEF TypeOK, Frame, Busy, Answers, Undisturbed
<1>5. CleanHere(h)
  BY <1>4, CleanNow
<1>6. TypeOK'
  <2>1. IsSettings(file') /\ \A f \in Flags \cap DOMAIN file' : file'[f] \in Parsable[f]
    BY <1>2, NoneTyped
  <2> QED
    BY <1>1, <1>2, <1>3, <2>1 DEF TypeOK, PCs
<1>7. Checked(h)'
  BY <1>1, <1>2, <1>3 DEF Here, Checked, Parses, Past, TypeOK
<1>8. CopyFits(h)'
  BY <1>1, <1>2, <1>3 DEF Here, CopyFits, TypeOK
<1>9. Held(h)'
  BY <1>1, <1>2, <1>3, <1>4 DEF Here, Held, Stored, ExtrasFit
<1>10. AloneOK(h)'
  BY <1>1, <1>2, <1>3, <1>4 DEF Here, AloneOK, Shown, Took, Hooked, Windowed, Persisted, Held,
     Undisturbed, Stored
<1>11. CleanHere(h)'
  BY <1>1, <1>2, <1>3, <1>4, <1>5 DEF CleanHere, Proper, CleanAt, Unstored, Mirrors, Stored
<1> QED
  BY <1>2, <1>4, <1>6, <1>7, <1>8, <1>9, <1>10, <1>11, AtomicStep DEF Here

(* It writes what it read, overlaid with its changes, *)
LEMMA FillWholeAtomic ==
    ASSUME AtomicInv, NEW h \in Handlers, Fill(h), file' = Overlay(copy[h], body[h]), torn' = FALSE
    PROVE  AtomicInv'
<1>1. TypeOK /\ Here(h)
  BY DEF AtomicInv
<1>2. /\ pc[h] = "fill"
      /\ pc' = [pc EXCEPT ![h] = "ok"]
      /\ file' = Overlay(copy[h], body[h])
      /\ torn' = FALSE
      /\ UNCHANGED <<flagVal, live, thresholds, loop, body, todo, trial, old, invalid, copy,
                     patches, restarts, alone, before, agreed, clean>>
  BY DEF Fill, Goto, conf, local, counts, history
<1>3. /\ pc'[h] = "ok"
  BY <1>1, <1>2 DEF TypeOK
<1>4. Frame(h) /\ Busy(h) /\ (Undisturbed(h)' => Undisturbed(h))
  BY <1>1, <1>2 DEF TypeOK, Frame, Busy, Answers, Undisturbed
<1>5. CleanHere(h)
  BY <1>4, CleanNow
<1>5a. /\ IsSettings(body[h]) /\ IsSettings(copy[h]) /\ IsSettings(file')
       /\ DOMAIN file' = DOMAIN copy[h] \cup DOMAIN body[h]
       /\ \A n \in DOMAIN body[h] : file'[n] = body[h][n]
       /\ \A n \in DOMAIN copy[h] \ DOMAIN body[h] : file'[n] = copy[h][n]
  <2>1. IsSettings(body[h]) /\ IsSettings(copy[h])
    BY <1>1, BodyTyped DEF TypeOK
  <2> PICK c, b : c = copy[h] /\ b = body[h]
    OBVIOUS
  <2>2. IsSettings(c) /\ IsSettings(b) /\ file' = Overlay(c, b)
    BY <1>2, <2>1
  <2>3. /\ IsSettings(file') /\ DOMAIN file' = DOMAIN c \cup DOMAIN b
        /\ \A n \in DOMAIN b : file'[n] = b[n]
        /\ \A n \in DOMAIN c \ DOMAIN b : file'[n] = c[n]
    BY ONLY <2>2, OverlayTyped
  <2> QED
    BY <2>1, <2>3
<1>6. TypeOK'
  <2>1. \A f \in Flags \cap DOMAIN body[h] : body[h][f] \in Parsable[f]
    BY <1>1, <1>2 DEF Here, Checked, Parses, Past
  <2>2. \A f \in Flags \cap DOMAIN copy[h] : copy[h][f] \in Parsable[f]
    BY <1>1, <1>2 DEF Here, CopyFits
  <2>3. \A f \in Flags \cap DOMAIN file' : file'[f] \in Parsable[f]
    BY <1>5a, <2>1, <2>2
  <2> QED
    BY <1>1, <1>2, <1>3, <1>5a, <2>3 DEF TypeOK, PCs
<1>7. Checked(h)'
  BY <1>1, <1>2, <1>3 DEF Here, Checked, Parses, Past, TypeOK
<1>8. CopyFits(h)'
  BY <1>1, <1>2, <1>3 DEF Here, CopyFits, TypeOK
<1>9. Held(h)'
  BY <1>1, <1>2, <1>3, <1>4 DEF Here, Held, Stored, ExtrasFit
<1>10. AloneOK(h)'
  <2>1. Persisted(h)'
    BY <1>2, <1>5a DEF Persisted
  <2> QED
    BY <1>1, <1>2, <1>3, <2>1 DEF Here, AloneOK, Shown, Took, Hooked, Windowed, Stored
<1>11. CleanHere(h)'
  <2> SUFFICES ASSUME Proper'
               PROVE  ValidWindow(live') /\ Unstored'
    BY <1>3 DEF CleanHere, CleanAt, Stored
  <2>1. /\ Undisturbed(h) /\ ValidWindow(live)
        /\ Mirrors(copy[h], DOMAIN Env \cup DOMAIN body[h])
    BY <1>2, <1>4, <1>5 DEF Proper, Undisturbed, CleanHere, CleanAt
  <2>2. \A n \in DOMAIN body[h] : live[n] = body[h][n]
    BY <1>1, <1>2, <2>1 DEF Here, Held, Stored
  <2>3. Mirrors(file, DOMAIN Env)'
    BY <1>2, <1>5a, <2>1, <2>2 DEF Mirrors
  <2> QED
    BY <1>2, <2>1, <2>3 DEF Unstored
<1> QED
  BY <1>2, <1>4, <1>6, <1>7, <1>8, <1>9, <1>10, <1>11, AtomicStep DEF Here

(* or, over the text of another, a mix of both. *)
LEMMA FillMixedAtomic ==
    ASSUME AtomicInv, NEW h \in Handlers, Fill(h), ~torn, file' = None, torn' = TRUE
    PROVE  AtomicInv'
<1>1. TypeOK /\ Here(h)
  BY DEF AtomicInv
<1>2. /\ pc[h] = "fill"
      /\ ~torn
      /\ pc' = [pc EXCEPT ![h] = "ok"]
      /\ file' = None
      /\ torn' = TRUE
      /\ UNCHANGED <<flagVal, live, thresholds, loop, body, todo, trial, old, invalid, copy,
                     patches, restarts, alone, before, agreed, clean>>
  BY DEF Fill, Goto, conf, local, counts, history
<1>3. /\ pc'[h] = "ok"
  BY <1>1, <1>2 DEF TypeOK
<1>4. Frame(h) /\ Busy(h) /\ (Undisturbed(h)' => Undisturbed(h))
  BY <1>1, <1>2 DEF TypeOK, Frame, Busy, Answers, Undisturbed
<1>5. CleanHere(h)
  BY <1>4, CleanNow
<1>6. TypeOK'
  <2>1. IsSettings(file') /\ \A f \in Flags \cap DOMAIN file' : file'[f] \in Parsable[f]
    BY <1>2, NoneTyped
  <2> QED
    BY <1>1, <1>2, <1>3, <2>1 DEF TypeOK, PCs
<1>7. Checked(h)'
  BY <1>1, <1>2, <1>3 DEF Here, Checked, Parses, Past, TypeOK
<1>8. CopyFits(h)'
  BY <1>1, <1>2, <1>3 DEF Here, CopyFits, TypeOK
<1>9. Held(h)'
  BY <1>1, <1>2, <1>3, <1>4 DEF Here, Held, Stored, ExtrasFit
<1>10. AloneOK(h)'
  BY <1>1, <1>2, <1>3, <1>4 DEF Here, AloneOK, Shown, Took, Hooked, Windowed, Persisted, Held,
     Undisturbed, Stored
<1>11. CleanHere(h)'
  <2>1. ~Undisturbed(h)
    BY <1>1, <1>2 DEF Here, Held
  <2> QED
    BY <1>2, <1>4, <2>1 DEF CleanHere, Proper, Undisturbed
<1> QED
  BY <1>2, <1>4, <1>6, <1>7, <1>8, <1>9, <1>10, <1>11, AtomicStep DEF Here

(* A PATCH that arrives disturbs those at work, and is disturbed by them. *)
LEMMA ReceiveAtomic ==
    ASSUME AtomicInv, NEW h \in Handlers, NEW p \in Patches, Receive(h, p)
    PROVE  AtomicInv'
<1>1. TypeOK /\ DOMAIN before = Handlers /\ Sole /\ Clean /\ \A g \in Handlers : Here(g)
  BY DEF AtomicInv
<1>2. /\ patches < MaxPatches /\ patches' = patches + 1
      /\ ~Busy(h)
      /\ pc' = [pc EXCEPT ![h] = "validate"]
      /\ body' = [body EXCEPT ![h] = p]
      /\ todo' = [todo EXCEPT ![h] = Flags \cap DOMAIN p]
      /\ invalid' = [invalid EXCEPT ![h] = FALSE]
      /\ alone' = [i \in Handlers |-> i = h /\ \A j \in Handlers \ {h} : ~Busy(j)]
      /\ before' = [before EXCEPT ![h] = live]
      /\ clean' = (clean /\ \A j \in Handlers \ {h} : ~Busy(j))
      /\ UNCHANGED <<flagVal, live, thresholds, loop, file, torn, trial, old, copy, restarts,
                     agreed>>
  BY DEF Receive, conf, stored, Busy
<1>3. /\ pc'[h] = "validate" /\ body'[h] = p /\ todo'[h] = Flags \cap DOMAIN p
      /\ before'[h] = live /\ DOMAIN before' = Handlers
  BY <1>1, <1>2 DEF TypeOK
<1>4. \A g \in Handlers \ {h} :
        /\ pc'[g] = pc[g] /\ body'[g] = body[g] /\ todo'[g] = todo[g] /\ invalid'[g] = invalid[g]
        /\ (Busy(g)' <=> Busy(g)) /\ ~alone'[g]
  BY <1>1, <1>2 DEF Busy, TypeOK
<1>5. \A g \in Handlers \ {h} : ~Undisturbed(g)'
  BY <1>2, <1>4 DEF Undisturbed
<1>6. TypeOK'
  <2>1. patches' \in 0..MaxPatches
    BY <1>1, <1>2, BoundsAssumption DEF TypeOK
  <2>2. alone' \in [Handlers -> BOOLEAN] /\ clean' \in BOOLEAN
    BY <1>2
  <2> QED
    BY <1>1, <1>2, <2>1, <2>2 DEF TypeOK, PCs
<1>7. Sole'
  <2>1. Undisturbed(h)' => \A g \in Handlers \ {h} : ~Busy(g)
    BY <1>2 DEF Undisturbed
  <2> QED
    BY <1>4, <1>5, <2>1 DEF Sole
<1>8. Clean'
  <2> SUFFICES ASSUME Proper'
               PROVE  /\ ValidWindow(live')
                      /\ \A g \in Handlers : pc'[g] \notin Stored
                      /\ Unstored'
    BY DEF Clean, CleanAt, Stored
  <2>1. Proper /\ \A g \in Handlers : ~Busy(g)
    BY <1>2 DEF Proper
  <2>2. \A g \in Handlers : pc[g] \notin Stored
    BY <2>1 DEF Busy, Stored, Answers
  <2>3. ValidWindow(live) /\ Unstored
    BY <1>1, <2>1, <2>2 DEF Clean
  <2>4. \A g \in Handlers : pc'[g] \notin Stored
    BY <1>3, <1>4, <2>2 DEF Stored
  <2> QED
    BY <1>2, <2>3, <2>4 DEF Unstored, Mirrors
<1>9. Here(h)'
  <2>1. Checked(h)' /\ CopyFits(h)' /\ Held(h)'
    BY <1>3 DEF Checked, Past, CopyFits, Held, Stored
  <2>2. AloneOK(h)'
    BY <1>2, <1>3 DEF AloneOK, Shown, Took, Hooked, Windowed, Persisted, Stored
  <2> QED
    BY <2>1, <2>2 DEF Here
<1>10. ASSUME NEW g \in Handlers, g # h PROVE Here(g)'
  <2>1. Checked(g)' /\ CopyFits(g)'
    BY <1>1, <1>2, <1>4, <1>10 DEF Here, Checked, Parses, CopyFits
  <2> QED
    BY <1>4, <1>5, <1>10, <2>1 DEF Here, Held, AloneOK
<1> QED
  BY <1>3, <1>6, <1>7, <1>8, <1>9, <1>10 DEF AtomicInv

(* The settings the process starts with. *)
LEMMA BootTyped ==
    ASSUME NEW s, IsSettings(s)
    PROVE  /\ BootFlags(s) \in [Flags -> Int]
           /\ BootPair(s) \in [Extras -> Int]
           /\ Overlay(BootFlags(s), BootPair(s)) \in [Names -> Int]
           /\ \A f \in Flags : Overlay(BootFlags(s), BootPair(s))[f] = BootFlags(s)[f]
           /\ \A n \in Extras : Overlay(BootFlags(s), BootPair(s))[n] = BootPair(s)[n]
<1>1. BootFlags(s) \in [Flags -> Int]
  BY DefaultAssumption DEF BootFlags, IsSettings, Names
<1>2. BootPair(s) \in [Extras -> Int]
  <2> DEFINE dft == [n \in Extras |-> Default[n]]
             own == [n \in DOMAIN s \cap Extras |-> s[n]]
  <2>1. dft \in [Extras -> Int]
    BY DefaultAssumption DEF Names
  <2>2. own \in [DOMAIN s \cap Extras -> Int]
    BY DEF IsSettings
  <2>3. DOMAIN dft = Extras /\ DOMAIN own = DOMAIN s \cap Extras
    OBVIOUS
  <2>4. BootPair(s) = dft \/ BootPair(s) = Overlay(dft, own)
    BY DEF BootPair
  <2> HIDE DEF dft, own
  <2>5. Overlay(dft, own) \in [Extras -> Int]
    BY <2>1, <2>2, <2>3 DEF Overlay
  <2> QED
    BY <2>1, <2>4, <2>5
<1>3. Flags \cap Extras = {} /\ Names = Flags \cup Extras
  BY DEF Flags, Extras, Names
<1> DEFINE a == BootFlags(s)
           b == BootPair(s)
<1>4. a \in [Flags -> Int] /\ b \in [Extras -> Int]
  BY <1>1, <1>2
<1> HIDE DEF a, b
<1>5. /\ Overlay(a, b) \in [Names -> Int]
      /\ \A f \in Flags : Overlay(a, b)[f] = a[f]
      /\ \A n \in Extras : Overlay(a, b)[n] = b[n]
  BY <1>3, <1>4 DEF Overlay
<1> QED
  BY <1>1, <1>2, <1>5 DEF a, b

(* A file whose pair fits, and is not half overruled, is what a start brings back. *)
LEMMA BootMirrors ==
    ASSUME NEW f, IsSettings(f), DOMAIN Env \cap Extras = {},
           ValidWindow([n \in Extras |-> IF n \in DOMAIN f THEN f[n] ELSE Default[n]])
    PROVE  LET s == Overlay(f, Env)
           IN  \A n \in Names :
                  Overlay(BootFlags(s), BootPair(s))[n] =
                      IF n \in DOMAIN Env THEN Env[n]
                      ELSE IF n \in DOMAIN f THEN f[n] ELSE Default[n]
<1> DEFINE s == Overlay(f, Env)
<1>1. /\ IsSettings(s) /\ DOMAIN s = DOMAIN f \cup DOMAIN Env
      /\ \A n \in DOMAIN Env : s[n] = Env[n]
      /\ \A n \in DOMAIN f \ DOMAIN Env : s[n] = f[n]
  BY EnvAssumption, OverlayTyped
<1> HIDE DEF s
<1>2. \A n \in Flags : BootFlags(s)[n] =
        IF n \in DOMAIN Env THEN Env[n] ELSE IF n \in DOMAIN f THEN f[n] ELSE Default[n]
  BY <1>1 DEF BootFlags
<1> DEFINE dft == [n \in Extras |-> Default[n]]
           own == [n \in DOMAIN s \cap Extras |-> s[n]]
           pair == [n \in Extras |-> IF n \in DOMAIN f THEN f[n] ELSE Default[n]]
<1>3. Overlay(dft, own) = pair
  <2>1. DOMAIN s \cap Extras = DOMAIN f \cap Extras
    BY <1>1
  <2>2. \A n \in DOMAIN f \cap Extras : s[n] = f[n]
    BY <1>1
  <2> QED
    BY <2>1, <2>2 DEF Overlay
<1>4. BootPair(s) = pair
  BY <1>3 DEF BootPair
<1>5. Names = Flags \cup Extras
  BY DEF Names
<1>6. \A n \in Names : Overlay(BootFlags(s), BootPair(s))[n] =
        IF n \in DOMAIN Env THEN Env[n] ELSE IF n \in DOMAIN f THEN f[n] ELSE Default[n]
  BY <1>1, <1>2, <1>4, <1>5, BootTyped
<1> QED
  BY <1>6 DEF s

(* The sources assign to settings. *)
LEMMA SourcesTyped ==
    ASSUME TypeOK
    PROVE  IsSettings(Sources)
BY NoneTyped, EnvAssumption, OverlayTyped DEF TypeOK, Sources

(* A start brings back the settings that a clean file mirrors. *)
LEMMA RestartBrings ==
    ASSUME AtomicInv, Restart, clean', DOMAIN Env \cap Extras = {}
    PROVE  /\ Unstored
           /\ \A n \in Names : live'[n] = IF n \in DOMAIN Env THEN Env[n] ELSE live[n]
<1>1. Proper /\ \A h \in Handlers : pc[h] \notin Stored
  BY DEF Restart, Proper, Stored, Answers
<1>2. ValidWindow(live) /\ Unstored
  BY <1>1 DEF AtomicInv, Clean
<1>3. \A n \in Names \ DOMAIN Env : live[n] = IF n \in DOMAIN file THEN file[n] ELSE Default[n]
  BY <1>2 DEF Unstored, Mirrors
<1> DEFINE pair == [n \in Extras |-> IF n \in DOMAIN file THEN file[n] ELSE Default[n]]
<1>4. pair["pause"] = live["pause"] /\ pair["resume"] = live["resume"]
  BY <1>3 DEF Extras, Names
<1>5. ValidWindow(pair)
  BY <1>2, <1>4 DEF ValidWindow
<1>6. Sources = Overlay(file, Env)
  BY <1>2 DEF Sources, Unstored
<1>7. IsSettings(file)
  BY DEF AtomicInv, TypeOK
<1>8. \A n \in Names : live'[n] =
        IF n \in DOMAIN Env THEN Env[n] ELSE IF n \in DOMAIN file THEN file[n] ELSE Default[n]
  <2>1. live' = Overlay(BootFlags(Sources), BootPair(Sources))
    BY DEF Restart, Boot
  <2> QED
    BY <1>5, <1>6, <1>7, <2>1, BootMirrors
<1> QED
  BY <1>2, <1>3, <1>8

(* A start leaves no handler at work. *)
LEMMA RestartAtomic ==
    ASSUME AtomicInv, Restart
    PROVE  AtomicInv'
<1>1. TypeOK
  BY DEF AtomicInv
<1>2. /\ restarts < MaxRestarts /\ restarts' = restarts + 1
      /\ flagVal' = BootFlags(Sources)
      /\ live' = Overlay(BootFlags(Sources), BootPair(Sources))
      /\ thresholds' = BootPair(Sources)
      /\ loop' = (BootFlags(Sources)["batctl"] = 1)
      /\ pc' = [h \in Handlers |-> "idle"]
      /\ body' = [h \in Handlers |-> None]
      /\ todo' = [h \in Handlers |-> {}]
      /\ trial' = [h \in Handlers |-> "batctl"]
      /\ old' = [h \in Handlers |-> 0]
      /\ invalid' = [h \in Handlers |-> FALSE]
      /\ copy' = [h \in Handlers |-> None]
      /\ alone' = [h \in Handlers |-> FALSE]
      /\ DOMAIN before' = Handlers
      /\ UNCHANGED <<file, torn, patches, agreed>>
      /\ clean' \in BOOLEAN
  BY BootPairValid DEF Restart, Boot, stored
<1>3. \A h \in Handlers : pc'[h] = "idle" /\ ~alone'[h] /\ ~Busy(h)'
  BY <1>2 DEF Busy
<1>4. TypeOK'
  <2>1. flagVal' \in [Flags -> Int] /\ live' \in [Names -> Int] /\ thresholds' \in [Extras -> Int]
    BY <1>1, <1>2, SourcesTyped, BootTyped
  <2>2. restarts' \in 0..MaxRestarts /\ loop' \in BOOLEAN
    BY <1>1, <1>2, BoundsAssumption DEF TypeOK
  <2>3. DOMAIN copy' = Handlers /\ \A h \in Handlers : IsSettings(copy'[h])
    BY <1>2, NoneTyped
  <2>4. /\ pc' \in [Handlers -> PCs] /\ body' \in [Handlers -> Patches \cup {None}]
        /\ todo' \in [Handlers -> SUBSET Flags] /\ trial' \in [Handlers -> Flags]
        /\ old' \in [Handlers -> Int] /\ invalid' \in [Handlers -> BOOLEAN]
        /\ alone' \in [Handlers -> BOOLEAN]
    BY <1>2 DEF PCs, Flags
  <2> QED
    BY <1>1, <1>2, <2>1, <2>2, <2>3, <2>4 DEF TypeOK
<1>5. Sole'
  BY <1>3 DEF Sole
<1>6. Clean'
  <2> SUFFICES ASSUME Proper'
               PROVE  ValidWindow(live') /\ Unstored'
    BY <1>3 DEF Clean, CleanAt, Stored
  <2>1. /\ Unstored
        /\ \A n \in Names : live'[n] = IF n \in DOMAIN Env THEN Env[n] ELSE live[n]
    BY RestartBrings DEF Proper
  <2>2. Mirrors(file, DOMAIN Env)'
    BY <1>2, <2>1 DEF Unstored, Mirrors
  <2>3. ValidWindow(live')
    <3>1. \A n \in Extras : live'[n] = BootPair(Sources)[n]
      BY <1>1, <1>2, SourcesTyped, BootTyped
    <3> QED
      BY <3>1, BootPairValid DEF ValidWindow, Extras
  <2> QED
    BY <1>2, <2>1, <2>2, <2>3 DEF Unstored
<1>7. \A h \in Handlers : Here(h)'
  <2>1. \A h \in Handlers : ~Undisturbed(h)'
    BY <1>3 DEF Undisturbed
  <2> QED
    BY <1>3, <2>1 DEF Here, Checked, Past, CopyFits, Held, AloneOK
<1> QED
  BY <1>2, <1>4, <1>5, <1>6, <1>7 DEF AtomicInv

(* The first start. *)
LEMMA InitAtomic == Init => AtomicInv
<1> SUFFICES ASSUME Init PROVE AtomicInv
  OBVIOUS
<1>1. \A h \in Handlers : pc[h] = "idle" /\ ~alone[h] /\ ~Busy(h) /\ ~Undisturbed(h)
  BY DEF Init, Busy, Undisturbed
<1>2. IsSettings(Env)
  BY EnvAssumption
<1>3. TypeOK
  <2>1. flagVal \in [Flags -> Int] /\ live \in [Names -> Int] /\ thresholds \in [Extras -> Int]
    BY <1>2, BootTyped DEF Init
  <2>2. IsSettings(file) /\ DOMAIN file = {}
    BY NoneTyped DEF Init
  <2>3. DOMAIN copy = Handlers /\ \A h \in Handlers : IsSettings(copy[h])
    BY NoneTyped DEF Init
  <2>4. patches \in 0..MaxPatches /\ restarts \in 0..MaxRestarts
    BY BoundsAssumption DEF Init
  <2>5. /\ loop \in BOOLEAN /\ torn \in BOOLEAN /\ clean \in BOOLEAN /\ agreed = {}
        /\ pc \in [Handlers -> PCs] /\ body \in [Handlers -> Patches \cup {None}]
        /\ todo \in [Handlers -> SUBSET Flags] /\ trial \in [Handlers -> Flags]
        /\ old \in [Handlers -> Int] /\ invalid \in [Handlers -> BOOLEAN]
        /\ alone \in [Handlers -> BOOLEAN]
    <3>1. alone \in [Handlers -> BOOLEAN]
      BY DEF Init
    <3>2. loop \in BOOLEAN /\ torn \in BOOLEAN /\ clean \in BOOLEAN /\ agreed = {}
      BY DEF Init
    <3> QED
      BY <3>1, <3>2 DEF Init, PCs, Flags
  <2> QED
    BY <2>1, <2>2, <2>3, <2>4, <2>5 DEF TypeOK
<1>4. Sole
  BY <1>1 DEF Sole
<1>5. Clean
  <2> SUFFICES ASSUME DOMAIN Env \cap Extras = {}
               PROVE  ValidWindow(live) /\ Unstored
    BY <1>1 DEF Clean, CleanAt, Stored, Proper
  <2>1. live = Overlay(BootFlags(Env), BootPair(Env)) /\ file = None /\ ~torn
    BY DEF Init
  <2>2. ValidWindow(live)
    <3>1. \A n \in Extras : live[n] = BootPair(Env)[n]
      BY <1>2, <2>1, BootTyped
    <3> QED
      BY <3>1, BootPairValid DEF ValidWindow, Extras
  <2>3. Overlay(None, Env) = Env
    BY <1>2, NoneTyped DEF Overlay, IsSettings
  <2> DEFINE dft == [n \in Extras |-> IF n \in DOMAIN None THEN None[n] ELSE Default[n]]
  <2>4. dft["pause"] = Default["pause"] /\ dft["resume"] = Default["resume"]
    BY NoneTyped DEF Extras
  <2>5. ValidWindow(dft)
    BY <2>4, DefaultAssumption DEF ValidWindow
  <2>6. \A n \in Names : live[n] = IF n \in DOMAIN Env THEN Env[n] ELSE Default[n]
    BY <2>1, <2>3, <2>5, NoneTyped, BootMirrors
  <2> QED
    BY <2>1, <2>2, <2>6, NoneTyped DEF Unstored, Mirrors
<1>6. \A h \in Handlers : Here(h)
  BY <1>1 DEF Here, Checked, Past, CopyFits, Held, AloneOK
<1>7. DOMAIN before = Handlers
  BY DEF Init
<1> QED
  BY <1>3, <1>4, <1>5, <1>6, <1>7 DEF AtomicInv

(* All steps of a handler. *)
LEMMA HandleAtomic ==
    ASSUME AtomicInv, NEW h \in Handlers, Handle(h)
    PROVE  AtomicInv'
<1>1. CASE Try(h)
  BY <1>1, TryReadAtomic DEF Try
<1>2. CASE TrySet(h)
  <2>1. CASE body[h][trial[h]] \in Parsable[trial[h]]
    BY <1>2, <2>1, TryGoodAtomic
  <2>2. CASE body[h][trial[h]] \notin Parsable[trial[h]]
    BY <1>2, <2>2, TryBadAtomic
  <2> QED
    BY <2>1, <2>2
<1>3. CASE Set(h)
  BY <1>3, SetFlagAtomic DEF Set
<1>4. CASE Fill(h)
  <2>1. CASE file' = Overlay(copy[h], body[h]) /\ torn' = FALSE
    BY <1>4, <2>1, FillWholeAtomic
  <2>2. CASE ~torn /\ file' = None /\ torn' = TRUE
    BY <1>4, <2>2, FillMixedAtomic
  <2> QED
    BY <1>4, <2>1, <2>2 DEF Fill
<1> QED
  BY <1>1, <1>2, <1>3, <1>4, TryRestoreAtomic, RejectAtomic, AcceptAtomic, LoadLiveAtomic,
     StoreLiveAtomic, RunHooksAtomic, TakeSnapshotAtomic, ApplyExtrasAtomic, ReadFileAtomic,
     PersistFailsAtomic, TruncateAtomic DEF Handle

(* A step that changes nothing. *)
LEMMA StutterAtomic ==
    ASSUME AtomicInv, UNCHANGED vars
    PROVE  AtomicInv'
<1>1. TypeOK'
  BY DEF AtomicInv, TypeOK, vars
<1>2. Sole'
  BY DEF AtomicInv, Sole, Undisturbed, Busy, vars
<1>3. Clean'
  BY DEF AtomicInv, Clean, Proper, CleanAt, Unstored, Mirrors, vars
<1>4. ASSUME NEW h \in Handlers PROVE Here(h)'
  <2>1. Here(h)
    BY DEF AtomicInv
  <2>2. Checked(h)' /\ CopyFits(h)'
    BY <2>1 DEF Here, Checked, Parses, CopyFits, vars
  <2>3. Held(h)'
    BY <2>1 DEF Here, Held, Undisturbed, Busy, ExtrasFit, vars
  <2>4. AloneOK(h)'
    BY <2>1 DEF Here, AloneOK, Shown, Took, Hooked, Windowed, Persisted, vars
  <2> QED
    BY <2>2, <2>3, <2>4 DEF Here
<1>5. DOMAIN before' = Handlers
  BY DEF AtomicInv, vars
<1> QED
  BY <1>1, <1>2, <1>3, <1>4, <1>5 DEF AtomicInv

(* Each step keeps the invariant. *)
LEMMA AtomicSteps == AtomicInv /\ [Next]_vars => AtomicInv'
BY RestartAtomic, ReceiveAtomic, HandleAtomic, StutterAtomic DEF Next

(* The types, for any handlers, PATCHes and sources of settings. *)
THEOREM SettingsTypeTheorem == Spec => []TypeOK
<1>1. AtomicInv => TypeOK
  BY DEF AtomicInv
<1> QED
  BY <1>1, InitAtomic, AtomicSteps, PTL DEF Spec

(* AloneIsAtomic: a PATCH that meets no other takes effect as a whole, or  *)
(* not at all, however many others come before and after it.               *)
THEOREM AtomicTheorem == Spec => []AloneIsAtomic
<1>1. AtomicInv => AloneIsAtomic
  <2> SUFFICES ASSUME AtomicInv, NEW h \in Handlers, alone[h]
               PROVE  /\ pc[h] = "ok" =>
                           /\ live = Overlay(before[h], body[h])
                           /\ ~torn
                           /\ \A n \in DOMAIN body[h] : n \in DOMAIN file /\ file[n] = body[h][n]
                           /\ \A f \in Flags \cap DOMAIN body[h] : flagVal[f] = live[f]
                           /\ "batctl" \in DOMAIN body[h] => loop = (live["batctl"] = 1)
                           /\ DOMAIN body[h] \cap Extras # {} =>
                                  thresholds = [n \in Extras |-> live[n]]
                      /\ pc[h] = "rejected" => live = before[h]
    BY DEF AloneIsAtomic
  <2>1. Held(h) /\ Shown(h) /\ Took(h) /\ Hooked(h) /\ Windowed(h) /\ Persisted(h)
    BY DEF AtomicInv, Here, AloneOK
  <2>2. pc[h] = "ok" => \A n \in DOMAIN body[h] : live[n] = body[h][n]
    BY <2>1 DEF Held, Undisturbed, Stored
  <2>3. pc[h] = "ok" => \A f \in Flags \cap DOMAIN body[h] : flagVal[f] = live[f]
    BY <2>1, <2>2 DEF Shown, Stored
  <2> QED
    BY <2>1, <2>3 DEF Took, Hooked, Windowed, Persisted, Stored
<1> QED
  BY <1>1, InitAtomic, AtomicSteps, PTL DEF Spec

(* RestartKeeps: what a start brings back, for any file that PATCHes, their*)
(* failures and restarts can leave.                                        *)
THEOREM RestartTheorem == Spec => RestartKeeps
<1> DEFINE Kept ==
        /\ flagVal' = [f \in Flags |-> live'[f]]
        /\ thresholds' = [n \in Extras |-> live'[n]]
        /\ loop' = (live'["batctl"] = 1)
        /\ clean' /\ DOMAIN Env \cap Extras = {} =>
             \A n \in Names : live'[n] = IF n \in DOMAIN Env THEN Env[n] ELSE live[n]
<1>1. ASSUME AtomicInv, Restart PROVE Kept
  <2>1. /\ flagVal' = BootFlags(Sources)
        /\ live' = Overlay(BootFlags(Sources), BootPair(Sources))
        /\ thresholds' = BootPair(Sources)
        /\ loop' = (BootFlags(Sources)["batctl"] = 1)
    BY <1>1, BootPairValid DEF Restart, Boot
  <2>2. IsSettings(Sources)
    BY <1>1, SourcesTyped DEF AtomicInv
  <2>3. /\ flagVal' \in [Flags -> Int] /\ thresholds' \in [Extras -> Int]
        /\ \A f \in Flags : live'[f] = flagVal'[f]
        /\ \A n \in Extras : live'[n] = thresholds'[n]
    BY <2>1, <2>2, BootTyped
  <2>4. flagVal' = [f \in Flags |-> live'[f]]
    BY <2>3
  <2>5. thresholds' = [n \in Extras |-> live'[n]]
    BY <2>3
  <2>6. loop' = (live'["batctl"] = 1)
    BY <2>1, <2>3 DEF Flags
  <2> QED
    BY <1>1, <2>4, <2>5, <2>6, RestartBrings
<1>2. AtomicInv /\ [Next]_vars => [Restart => Kept]_vars
  BY <1>1
<1>3. [][Restart => Kept]_vars <=> RestartKeeps
  BY DEF RestartKeeps
<1> HIDE DEF Kept
<1> QED
  BY <1>2, <1>3, InitAtomic, AtomicSteps, PTL DEF Spec

-----------------------------------------------------------------------------
(* The charge control: its inductive invariant. A limit that has no excuse *)
(* is held by the first usable node while the loop is on and no hook has   *)
(* passed it; only a start file may outlive that, until the hook that is   *)
(* about to lift it has done so.                                           *)
Excused == gRaced \cup gFailed \cup gAside

HookPlaces == {"idle", "start", "release", "lift", "liftStart", "stop", "wait"}

HookShape ==
    /\ gPc \in [GHandlers -> HookPlaces]
    /\ gRel = [h \in GHandlers |-> gRel[h]]

NodeShape ==
    /\ 0 \notin gUsable /\ 0 \notin gEnd /\ 0 \notin gStart
    /\ gLoop = "limitStart" => GMode(gCtl) = "threshold"
    /\ \A n \in gStart : GMode(n) = "threshold"

Reachable(n) == gLoop # "none" /\ n = Probe({}) /\ ~Passed(n)

Lifting(n) == \E h \in GHandlers : gPc[h] = "liftStart" /\ gRel[h] = n

Ends == \A n \in gEnd : n \in Excused \/ Reachable(n)
Starts == \A n \in gStart : n \in Excused \/ Reachable(n) \/ Lifting(n)

CInv == HookShape /\ NodeShape /\ Ends /\ Starts

-----------------------------------------------------------------------------
(* The invariant implies the property. *)
LEMMA LiftedFromInv == CInv => LiftedWhenOff
BY DEF CInv, Ends, Starts, Reachable, Lifting, Excused, LiftedWhenOff

(* The invariant holds when the process starts. *)
LEMMA ChargeStarts == ChargeInit => CInv
<1> SUFFICES ASSUME ChargeInit PROVE CInv
  OBVIOUS
<1>1. HookShape
  BY DEF ChargeInit, HookShape, HookPlaces
<1>2. 0 \notin gUsable
  BY DEF ChargeInit, GNodes
<1> QED
  BY <1>1, <1>2 DEF ChargeInit, CInv, NodeShape, Ends, Starts

(* Nothing but a node that comes or goes changes what Release looks at. *)
LEMMA ProbeFrame == ASSUME gUsable' = gUsable PROVE Probe({})' = Probe({})
BY DEF Probe

-----------------------------------------------------------------------------
(* The loop.  It leaves the hooks alone, so it passes none of them. *)

(* A step that moves no hook changes neither what was passed nor what is   *)
(* about to be lifted.                                                     *)
LEMMA PassedFrame ==
    ASSUME UNCHANGED gHook
    PROVE  \A n : (Passed(n)' <=> Passed(n)) /\ (Lifting(n)' <=> Lifting(n))
BY DEF Passed, Lifting, gHook

(* A step of the loop that limits no node keeps the invariant. *)
LEMMA QuietLoopStep ==
    ASSUME CInv, UNCHANGED <<gPlan, gUsable, gHook>>,
           gEnd' \subseteq gEnd, gStart' = gStart, Excused \subseteq Excused',
           gLoop # "none" => gLoop' # "none",
           gLoop' = "limitStart" => gLoop = "limitStart" /\ gCtl' = gCtl
    PROVE  CInv'
<1>1. \A n : (Passed(n)' <=> Passed(n)) /\ (Lifting(n)' <=> Lifting(n))
  BY PassedFrame
<1>2. Probe({})' = Probe({})
  BY ProbeFrame
<1>3. \A n : Reachable(n) => Reachable(n)'
  BY <1>1, <1>2 DEF Reachable
<1>4. HookShape'
  BY DEF CInv, HookShape, gHook
<1>5. NodeShape'
  BY DEF CInv, NodeShape, GMode
<1>6. Ends' /\ Starts'
  BY <1>1, <1>3 DEF CInv, Ends, Starts
<1> QED
  BY <1>4, <1>5, <1>6 DEF CInv

(* A node that is limited can be lifted by every hook to come, or has an   *)
(* excuse.                                                                 *)
LEMMA LimitsExcuse ==
    ASSUME Limits, gLoop' # "none", UNCHANGED <<gUsable, gHook>>, gCtl' = gCtl
    PROVE  /\ Excused \subseteq Excused'
           /\ gCtl \in Excused' \/ Reachable(gCtl)'
<1>1. Passed(gCtl)' <=> Passed(gCtl)
  BY DEF Passed, gHook
<1>2. Probe({})' = Probe({})
  BY ProbeFrame
<1>3. Excused \subseteq Excused'
  BY DEF Limits, Excused
<1>4. Passed(gCtl) \/ Probe({}) # gCtl => gCtl \in Excused'
  BY DEF Limits, Excused
<1> QED
  BY <1>1, <1>2, <1>3, <1>4 DEF Reachable

(* The loop limits a node by its limit file, or by its start file. *)
LEMMA LimitStep == CInv /\ LoopLimits => CInv'
<1> SUFFICES ASSUME CInv, LoopLimits PROVE CInv'
  OBVIOUS
<1>1. /\ gCtl \in gUsable /\ gEnd' = gEnd \cup {gCtl} /\ Limits
      /\ gLoop = "limit" /\ gLoop' \in {"limitStart", "tick"}
      /\ gLoop' = "limitStart" => GMode(gCtl) = "threshold"
      /\ gPlan' = gPlan /\ gUsable' = gUsable /\ UNCHANGED gHook /\ gStart' = gStart
      /\ gCtl' = gCtl
  BY DEF LoopLimits, LoopGoto
<1>2. \A n : (Passed(n)' <=> Passed(n)) /\ (Lifting(n)' <=> Lifting(n))
  BY <1>1, PassedFrame
<1>3. Probe({})' = Probe({})
  BY <1>1, ProbeFrame
<1>4. \A n : Reachable(n) => Reachable(n)'
  BY <1>1, <1>2, <1>3 DEF Reachable
<1>5. /\ Excused \subseteq Excused'
      /\ gCtl \in Excused' \/ Reachable(gCtl)'
  BY <1>1, LimitsExcuse
<1>6. HookShape'
  BY <1>1 DEF CInv, HookShape, gHook
<1>7. NodeShape'
  BY <1>1 DEF CInv, NodeShape, GMode
<1>8. Ends'
  BY <1>1, <1>4, <1>5 DEF CInv, Ends
<1>9. Starts'
  BY <1>1, <1>2, <1>4, <1>5 DEF CInv, Starts
<1> QED
  BY <1>6, <1>7, <1>8, <1>9 DEF CInv

(* So does a start file that is written, or that fails. *)
LEMMA LimitStartStep == CInv /\ LoopLimitsStart => CInv'
<1> SUFFICES ASSUME CInv, LoopLimitsStart PROVE CInv'
  OBVIOUS
<1>1. /\ gLoop = "limitStart" /\ gLoop' = "tick"
      /\ gPlan' = gPlan /\ gUsable' = gUsable /\ UNCHANGED gHook /\ gEnd' = gEnd
      /\ gCtl' = gCtl
  BY DEF LoopLimitsStart, LoopGoto
<1>2. CASE gStart' = gStart /\ UNCHANGED gHistory
  <2>1. Excused \subseteq Excused'
    BY <1>2 DEF Excused, gHistory
  <2> QED
    BY <1>1, <1>2, <2>1, QuietLoopStep
<1>3. CASE gCtl \in gUsable /\ gStart' = gStart \cup {gCtl} /\ Limits
  <2>1. \A n : (Passed(n)' <=> Passed(n)) /\ (Lifting(n)' <=> Lifting(n))
    BY <1>1, PassedFrame
  <2>2. Probe({})' = Probe({})
    BY <1>1, ProbeFrame
  <2>3. \A n : Reachable(n) => Reachable(n)'
    BY <1>1, <2>1, <2>2 DEF Reachable
  <2>4. /\ Excused \subseteq Excused'
        /\ gCtl \in Excused' \/ Reachable(gCtl)'
    BY <1>1, <1>3, LimitsExcuse
  <2>5. HookShape'
    BY <1>1 DEF CInv, HookShape, gHook
  <2>6. NodeShape'
    BY <1>1, <1>3 DEF CInv, NodeShape, GMode
  <2>7. Ends'
    BY <1>1, <2>3, <2>4 DEF CInv, Ends
  <2>8. Starts'
    BY <1>1, <1>3, <2>1, <2>3, <2>4 DEF CInv, Starts
  <2> QED
    BY <2>5, <2>6, <2>7, <2>8 DEF CInv
<1> QED
  BY <1>2, <1>3 DEF LoopLimitsStart

(* Every step of the loop keeps the invariant. *)
LEMMA ChargeLoopStep == CInv /\ ChargeLoop => CInv'
<1> SUFFICES ASSUME CInv, ChargeLoop PROVE CInv'
  OBVIOUS
<1>1. CASE \/ LoopBegins \/ LoopEnds \/ LoopTicks \/ CheckLeaves \/ LoopAllows \/ LoopWriteFails
           \/ \E r \in Readings : CheckDecides(r)
  <2>1. /\ UNCHANGED <<gPlan, gUsable, gHook>> /\ UNCHANGED gHistory
        /\ gEnd' \subseteq gEnd /\ gStart' = gStart
    BY <1>1 DEF LoopBegins, LoopEnds, LoopTicks, CheckLeaves, LoopAllows, LoopWriteFails,
                CheckDecides, LoopGoto
  <2>2. gLoop' \notin {"none", "limitStart"}
    BY <1>1 DEF LoopBegins, LoopEnds, LoopTicks, CheckLeaves, LoopAllows, LoopWriteFails,
                CheckDecides, LoopGoto
  <2>3. Excused \subseteq Excused'
    BY <2>1 DEF Excused, gHistory
  <2> QED
    BY <2>1, <2>2, <2>3, QuietLoopStep
<1> QED
  BY <1>1, LimitStep, LimitStartStep DEF ChargeLoop

-----------------------------------------------------------------------------
(* The hooks.  One that comes to a place where it has passed nodes is past *)
(* those only that it did not lift.                                        *)

(* A hook that moves, with what it keeps of the other hooks.               *)
LEMMA HookMoves ==
    ASSUME CInv, NEW h \in GHandlers, NEW from, NEW to,
           HookGoto(h, from, to),
           to \in HookPlaces
    PROVE  /\ gPc' \in [GHandlers -> HookPlaces]
           /\ gPc[h] = from /\ gPc'[h] = to
           /\ \A k \in GHandlers : k # h => gPc'[k] = gPc[k]
           /\ gPlan' = gPlan /\ gUsable' = gUsable
           /\ Probe({})' = Probe({})
BY ProbeFrame DEF CInv, HookShape, HookGoto

(* A hook that moves between places where it has passed the same nodes.    *)
LEMMA QuietHookStep ==
    ASSUME CInv, NEW h \in GHandlers, NEW from, NEW to,
           HookGoto(h, from, to),
           \/ from \in {"idle", "start"} /\ to \in {"idle", "start", "release"}
           \/ from \in {"stop", "wait"} /\ to \in {"idle", "wait"},
           UNCHANGED <<gRel, gEnd, gStart, gHistory, gCtl>>,
           \/ gLoop' # "none" /\ (gLoop' = gLoop \/ gLoop' = "begin")
           \/ from \in {"stop", "wait"} /\ gLoop' = "none"
           \/ gLoop = "none" /\ gLoop' = "none"
    PROVE  CInv'
<1>1. to \in HookPlaces
  BY DEF HookPlaces
<1>2. /\ gPc' \in [GHandlers -> HookPlaces]
      /\ gPc[h] = from /\ gPc'[h] = to
      /\ \A k \in GHandlers : k # h => gPc'[k] = gPc[k]
      /\ gPlan' = gPlan /\ gUsable' = gUsable
      /\ Probe({})' = Probe({})
  BY <1>1, HookMoves
<1>3. Excused' = Excused
  BY DEF Excused, gHistory
<1>4. \A n : Passed(n)' => Passed(n)
  BY <1>2 DEF Passed
<1>5. \A n : Lifting(n) => Lifting(n)'
  BY <1>2 DEF Lifting
<1>6. \A n : from \in {"stop", "wait"} => Passed(n)
  BY <1>2 DEF Passed
<1>7. \A n : Reachable(n) => Reachable(n)'
  BY <1>2, <1>4, <1>6 DEF Reachable
<1>8. HookShape'
  BY <1>2 DEF CInv, HookShape
<1>9. NodeShape'
  BY <1>2 DEF CInv, NodeShape, GMode
<1>10. Ends' /\ Starts'
  BY <1>3, <1>5, <1>7 DEF CInv, Ends, Starts
<1> QED
  BY <1>8, <1>9, <1>10 DEF CInv

(* Release looks at the node that still can be lifted, if there is one. *)
LEMMA ProbesStep == ASSUME CInv, NEW h \in GHandlers, ReleaseProbes(h) PROVE CInv'
<1> DEFINE to == IF Probe({}) = 0 THEN "stop" ELSE "lift"
<1>1. /\ HookGoto(h, "release", to)
      /\ gRel' = [gRel EXCEPT ![h] = Probe({})]
      /\ gEnd' = gEnd /\ gStart' = gStart /\ gLoop' = gLoop /\ gCtl' = gCtl
      /\ gRaced' = gRaced /\ gFailed' = gFailed /\ gAside' = gAside
  BY DEF ReleaseProbes, gLoopState, gHistory
<1>2. to \in {"lift", "stop"} /\ (to = "stop" <=> Probe({}) = 0)
  OBVIOUS
<1> HIDE DEF to
<1>3. to \in HookPlaces
  BY <1>2 DEF HookPlaces
<1>4. /\ gPc' \in [GHandlers -> HookPlaces]
      /\ gPc[h] = "release" /\ gPc'[h] = to
      /\ \A k \in GHandlers : k # h => gPc'[k] = gPc[k]
      /\ gPlan' = gPlan /\ gUsable' = gUsable
      /\ Probe({})' = Probe({})
  BY <1>1, <1>3, HookMoves
<1>5. gRel = [k \in GHandlers |-> gRel[k]]
  BY DEF CInv, HookShape
<1>6. gRel'[h] = Probe({}) /\ \A k \in GHandlers : k # h => gRel'[k] = gRel[k]
  BY <1>1, <1>5
<1>7. gRel' = [k \in GHandlers |-> gRel'[k]]
  BY <1>1, <1>5
<1>8. HookShape'
  BY <1>4, <1>7 DEF HookShape
<1>9. NodeShape'
  BY <1>1, <1>4 DEF CInv, NodeShape, GMode
<1>10. \A n : Lifting(n) => Lifting(n)'
  BY <1>4, <1>6 DEF Lifting
<1>11. \A n : n # 0 /\ Reachable(n) => Reachable(n)'
  BY <1>1, <1>2, <1>4, <1>6 DEF Reachable, Passed
<1>12. Ends' /\ Starts'
  BY <1>1, <1>10, <1>11 DEF CInv, NodeShape, Ends, Starts, Excused
<1> QED
  BY <1>8, <1>9, <1>12 DEF CInv

(* The limit is lifted; its start file is next. *)
LEMMA LiftsStep == ASSUME CInv, NEW h \in GHandlers, ReleaseLifts(h) PROVE CInv'
<1> DEFINE to == IF GMode(gRel[h]) = "threshold" THEN "liftStart" ELSE "stop"
<1>1. /\ HookGoto(h, "lift", to)
      /\ gEnd' = gEnd \ {gRel[h]}
      /\ gRaced' = gRaced \ {gRel[h]} /\ gFailed' = gFailed \ {gRel[h]}
      /\ gAside' = gAside \ {gRel[h]}
      /\ gStart' = gStart /\ gRel' = gRel /\ gLoop' = gLoop /\ gCtl' = gCtl
  BY DEF ReleaseLifts, gLoopState
<1>2. to \in {"liftStart", "stop"} /\ (GMode(gRel[h]) = "threshold" => to = "liftStart")
  OBVIOUS
<1> HIDE DEF to
<1>3. to \in HookPlaces
  BY <1>2 DEF HookPlaces
<1>4. /\ gPc' \in [GHandlers -> HookPlaces]
      /\ gPc[h] = "lift" /\ gPc'[h] = to
      /\ \A k \in GHandlers : k # h => gPc'[k] = gPc[k]
      /\ gPlan' = gPlan /\ gUsable' = gUsable
      /\ Probe({})' = Probe({})
  BY <1>1, <1>3, HookMoves
<1>5. HookShape'
  BY <1>1, <1>4 DEF CInv, HookShape
<1>6. NodeShape'
  BY <1>1, <1>4 DEF CInv, NodeShape, GMode
<1>7. \A n : Lifting(n) => Lifting(n)'
  BY <1>1, <1>4 DEF Lifting
<1>8. \A n \in Excused : n # gRel[h] => n \in Excused'
  BY <1>1 DEF Excused
<1>9. ASSUME NEW n, n # gRel[h], Reachable(n)
      PROVE  FALSE
  BY <1>4, <1>9 DEF Reachable, Passed
<1>10. Ends'
  BY <1>1, <1>8, <1>9 DEF CInv, Ends
<1>11. Starts'
  <2>1. ASSUME NEW n \in gStart, n = gRel[h]
        PROVE  Lifting(n)'
    <3>1. GMode(n) = "threshold"
      BY DEF CInv, NodeShape
    <3>2. gPc'[h] = "liftStart" /\ gRel'[h] = n
      BY <1>1, <1>2, <1>4, <2>1, <3>1
    <3> QED
      BY <3>2 DEF Lifting
  <2>2. ASSUME NEW n \in gStart, n # gRel[h]
        PROVE  n \in Excused' \/ Lifting(n)'
    BY <1>7, <1>8, <1>9, <2>2 DEF CInv, Starts
  <2> QED
    BY <1>1, <2>1, <2>2 DEF Starts
<1> QED
  BY <1>5, <1>6, <1>10, <1>11 DEF CInv

(* The start file is lifted, or a write has failed. *)
LEMMA LiftEndsStep ==
    ASSUME CInv, NEW h \in GHandlers, ReleaseLiftsStart(h) \/ ReleaseFails(h)
    PROVE  CInv'
<1>1. /\ HookGoto(h, "lift", "stop") \/ HookGoto(h, "liftStart", "stop")
      /\ gEnd' = gEnd /\ gRel' = gRel /\ gLoop' = gLoop /\ gCtl' = gCtl
      /\ gStart' \subseteq gStart
      /\ \/ gRel[h] \notin gStart' /\ HookGoto(h, "liftStart", "stop")
         \/ gRel[h] \in gFailed'
      /\ gRaced' = gRaced /\ gFailed \subseteq gFailed' /\ gAside' = gAside
  BY DEF ReleaseLiftsStart, ReleaseFails, gLoopState, gHistory
<1>2. PICK from \in {"lift", "liftStart"} : HookGoto(h, from, "stop")
  BY <1>1
<1>3. /\ gPc' \in [GHandlers -> HookPlaces]
      /\ gPc[h] = from /\ gPc'[h] = "stop"
      /\ \A k \in GHandlers : k # h => gPc'[k] = gPc[k]
      /\ gPlan' = gPlan /\ gUsable' = gUsable
      /\ Probe({})' = Probe({})
  BY <1>2, HookMoves DEF HookPlaces
<1>4. HookShape'
  BY <1>1, <1>3 DEF CInv, HookShape
<1>5. NodeShape'
  BY <1>1, <1>3 DEF CInv, NodeShape, GMode
<1>6. \A n : Lifting(n) /\ n # gRel[h] => Lifting(n)'
  BY <1>1, <1>3 DEF Lifting
<1>7. Excused \subseteq Excused'
  BY <1>1 DEF Excused
<1>8. \A n : Reachable(n) => n = gRel[h] /\ from = "lift"
  BY <1>2, <1>3 DEF Reachable, Passed
<1>9. gRel[h] \in Excused' \/ (gRel[h] \notin gStart' /\ gPc[h] = "liftStart")
  BY <1>1 DEF Excused, HookGoto
<1>10. Ends'
  BY <1>1, <1>3, <1>7, <1>8, <1>9 DEF CInv, Ends
<1>11. Starts'
  BY <1>1, <1>3, <1>6, <1>7, <1>8, <1>9 DEF CInv, Starts
<1> QED
  BY <1>4, <1>5, <1>10, <1>11 DEF CInv

(* Every step of a hook keeps the invariant. *)
LEMMA ChargeHookStep ==
    ASSUME CInv, NEW h \in GHandlers, ChargeHook(h)
    PROVE  CInv'
<1>1. ASSUME NEW on \in BOOLEAN, ApplyBatctl(h, on)
      PROVE  CInv'
  <2>1. /\ HookGoto(h, "idle", IF on THEN "start" ELSE "release")
        /\ UNCHANGED <<gRel, gEnd, gStart, gHistory, gCtl>> /\ gLoop' = gLoop
    BY <1>1 DEF ApplyBatctl, gLoopState
  <2>2. PICK to \in {"start", "release"} : HookGoto(h, "idle", to)
    BY <2>1
  <2> QED
    BY <2>1, <2>2, QuietHookStep
<1>2. CASE StartLoop(h)
  <2>1. /\ HookGoto(h, "start", "idle")
        /\ UNCHANGED <<gRel, gEnd, gStart, gHistory, gCtl>>
        /\ gLoop' # "none" /\ (gLoop' = gLoop \/ gLoop' = "begin")
    BY <1>2 DEF StartLoop, gLoopState
  <2> QED
    BY <2>1, QuietHookStep
<1>3. CASE StopLoop(h)
  <2>1. /\ HookGoto(h, "stop", IF gLoop = "none" THEN "idle" ELSE "wait")
        /\ UNCHANGED <<gRel, gEnd, gStart, gHistory, gCtl>> /\ gLoop' = gLoop
    BY <1>3 DEF StopLoop, gLoopState
  <2>2. PICK to \in {"idle", "wait"} : HookGoto(h, "stop", to)
    BY <2>1
  <2> QED
    BY <2>1, <2>2, QuietHookStep
<1>4. CASE StopReturns(h)
  <2>1. /\ HookGoto(h, "wait", "idle")
        /\ UNCHANGED <<gRel, gEnd, gStart, gHistory, gCtl>> /\ gLoop' = "none"
    BY <1>4 DEF StopReturns, gLoopState
  <2> QED
    BY <2>1, QuietHookStep
<1> QED
  BY <1>1, <1>2, <1>3, <1>4, ProbesStep, LiftsStep, LiftEndsStep DEF ChargeHook

-----------------------------------------------------------------------------
(* A node that comes or goes, and a restart, excuse what they put aside. *)

(* A node that comes or goes excuses all that is limited. *)
LEMMA ShiftStep == ASSUME CInv, NEW n \in GNodes, Shift(n) PROVE CInv'
<1>1. /\ gUsable' \subseteq gUsable \cup {n}
      /\ gAside' = gAside \cup gEnd \cup gStart
      /\ gPlan' = gPlan /\ gEnd' = gEnd /\ gStart' = gStart /\ gPc' = gPc /\ gRel' = gRel
      /\ gLoop' = gLoop /\ gCtl' = gCtl
  BY DEF Shift, gHook, gLoopState
<1>2. n # 0
  BY DEF GNodes
<1>3. HookShape'
  BY <1>1 DEF CInv, HookShape
<1>4. NodeShape'
  BY <1>1, <1>2 DEF CInv, NodeShape, GMode
<1>5. Ends' /\ Starts'
  BY <1>1 DEF Ends, Starts, Excused
<1> QED
  BY <1>3, <1>4, <1>5 DEF CInv

(* A restart excuses what its loop and its next Release will not look at. *)
LEMMA ChargeCrashStep == ASSUME CInv, NEW on \in BOOLEAN, ChargeCrash(on) PROVE CInv'
<1>1. /\ gPc' = [h \in GHandlers |-> "idle"] /\ gRel' = [h \in GHandlers |-> 0]
      /\ gLoop' = (IF on THEN "begin" ELSE "none")
      /\ gAside' = gAside \cup {n \in gEnd \cup gStart : on => n # Probe({})}
      /\ gPlan' = gPlan /\ gUsable' = gUsable /\ gEnd' = gEnd /\ gStart' = gStart
      /\ gRaced' = gRaced /\ gFailed' = gFailed
  BY DEF ChargeCrash, gHardware
<1>2. Probe({})' = Probe({})
  BY <1>1, ProbeFrame
<1>3. HookShape'
  BY <1>1 DEF HookShape, HookPlaces
<1>4. NodeShape'
  BY <1>1 DEF CInv, NodeShape, GMode
<1>5. \A n : ~ Passed(n)'
  BY <1>1 DEF Passed
<1>6. ASSUME NEW n \in gEnd \cup gStart
      PROVE  n \in Excused' \/ Reachable(n)'
  <2>1. CASE on /\ n = Probe({})
    BY <1>1, <1>2, <1>5, <2>1 DEF Reachable
  <2>2. CASE ~ (on /\ n = Probe({}))
    BY <1>1, <2>2 DEF Excused
  <2> QED
    BY <2>1, <2>2
<1>7. Ends' /\ Starts'
  BY <1>1, <1>6 DEF Ends, Starts
<1> QED
  BY <1>3, <1>4, <1>7 DEF CInv

(* Doing nothing keeps the invariant. *)
LEMMA ChargeIdle == CInv /\ UNCHANGED gVars => CInv'
<1> SUFFICES ASSUME CInv, UNCHANGED gVars PROVE CInv'
  OBVIOUS
<1>1. /\ UNCHANGED <<gPlan, gUsable, gHook>> /\ gEnd' = gEnd /\ gStart' = gStart
      /\ gLoop' = gLoop /\ gCtl' = gCtl /\ UNCHANGED gHistory
  BY DEF gVars, gHardware, gLoopState
<1>2. Excused \subseteq Excused'
  BY <1>1 DEF Excused, gHistory
<1> QED
  BY <1>1, <1>2, QuietLoopStep

-----------------------------------------------------------------------------
(* Once batctl is off and no hook is at work, a node is still limited only *)
(* for a reason that LiftedWhenOff names, for any nodes, failed writes,    *)
(* hooks and restarts (Release, Stop and applyBatctl).                     *)
THEOREM ChargeTheorem == ChargeSpec => []LiftedWhenOff
<1>1. ASSUME CInv, [ChargeNext]_gVars
      PROVE  CInv'
  <2>1. ASSUME NEW h \in GHandlers, ChargeHook(h)
        PROVE  CInv'
    BY <1>1, <2>1, ChargeHookStep
  <2>2. ASSUME NEW n \in GNodes, Shift(n)
        PROVE  CInv'
    BY <1>1, <2>2, ShiftStep
  <2>3. ASSUME NEW on \in BOOLEAN, ChargeCrash(on)
        PROVE  CInv'
    BY <1>1, <2>3, ChargeCrashStep
  <2> QED
    BY <1>1, <2>1, <2>2, <2>3, ChargeLoopStep, ChargeIdle DEF ChargeNext
<1> QED
  BY <1>1, ChargeStarts, LiftedFromInv, PTL DEF ChargeSpec

-----------------------------------------------------------------------------
(* The charge control of a Mac: its inductive invariant.  A limit that has *)
(* no excuse is one that every Release under way still comes to, while the *)
(* loop is on.                                                             *)
MacPcs ==
    {"none", "begin", "check", "tick", "done", "idle", "start", "release", "write", "stop", "wait"}

StepsOf(n) == Steps[DMode(n)]

(* A write is at one of the steps of its backend. *)
MacWriting ==
    \A a \in DActors :
        dAct[a].pc = "write" =>
            /\ dAct[a].node \in DNodes
            /\ dAct[a].step \in 1..Len(StepsOf(dAct[a].node))
            /\ a \in DHandlers => dAct[a].node \in dAct[a].list

(* The loop has a backend when it checks. *)
MacLooping ==
    /\ dAct[DLoop].pc = "check" => dAct[DLoop].node \in DNodes
    /\ dAct[DLoop].pc = "tick" => dAct[DLoop].node \in DNodes \cup {0}
    /\ \A h \in DHandlers : dAct[h].pc \in {"idle", "start", "release", "write", "stop", "wait"}

(* A key that holds a limit is one of its backend's. *)
MacKeys ==
    \A k \in dLow :
        /\ k \in DKeys
        /\ \E i \in 1..Len(StepsOf(k[1])) : StepsOf(k[1])[i] = k[2]

MacShape ==
    /\ dPlan \in DPlans /\ dPresent \subseteq DNodes
    /\ dAct \in [DActors -> [pc: MacPcs, node: Nat, list: SUBSET DNodes, step: Nat]]
    /\ MacWriting /\ MacLooping /\ MacKeys

MacExcused == dRaced \cup dFailed \cup dMissed
MacOpen(k) == dAct[DLoop].pc # "none" /\ \A h \in DHandlers : ~MacPassed(h, k)
MacHeld == \A k \in dLow : k \in MacExcused \/ MacOpen(k)

MacInv == MacShape /\ MacHeld

(* The invariant implies the property. *)
LEMMA MacLiftedFromInv == MacInv => MacLiftedWhenOff
BY DEF MacInv, MacHeld, MacOpen, MacExcused, MacLiftedWhenOff

-----------------------------------------------------------------------------
(* A nonempty set of naturals has a least element. *)
LEMMA MinOf ==
    ASSUME NEW s \in SUBSET Nat, s # {}
    PROVE  Min(s) \in s /\ \A y \in s : Min(s) <= y
<1>1. PICK x \in s : \A y \in s : ~ (<<y, x>> \in OpToRel(<, Nat))
  BY NatLessThanWellFounded, WFMin
<1>2. \A y \in s : ~ (y < x)
  BY <1>1 DEF OpToRel
<1>3. \A y \in s : x <= y
  BY <1>2
<1> QED
  BY <1>3 DEF Min

(* Every kind of backend has between one and four steps. *)
KnownSteps(mode, s) ==
    /\ Len(s) \in 1..4
    /\ \A i \in 1..Len(s) :
          /\ s[i] \in {"look", "down", "main", "up", "second", "read"}
          /\ s[i] \in {"look", "down"} => i < Len(s)
          /\ s[i] = "look" => mode = "firmware"
    /\ mode = "firmware" => \A i \in 1..Len(s) : s[i] # "second"

(* The steps of each kind are known ones. *)
LEMMA StepsKnown ==
    ASSUME NEW mode \in DOMAIN Steps
    PROVE  KnownSteps(mode, Steps[mode])
<1>1. KnownSteps("firmware", <<"look", "down", "main", "up">>)
  BY DEF KnownSteps
<1>2. KnownSteps("pair", <<"second", "main", "read">>)
  BY DEF KnownSteps
<1>3. KnownSteps("level", <<"main", "read">>)
  BY DEF KnownSteps
<1>4. KnownSteps("switch", <<"main", "read">>)
  BY DEF KnownSteps
<1>5. KnownSteps("adapter", <<"main", "read">>)
  BY DEF KnownSteps
<1>6. KnownSteps("bclm", <<"main">>)
  BY DEF KnownSteps
<1>7. KnownSteps("smc", <<"second", "main">>)
  BY DEF KnownSteps
<1>8. mode \in {"firmware", "pair", "level", "switch", "adapter", "bclm", "smc"}
  BY DEF Steps
<1> QED
  BY <1>1, <1>2, <1>3, <1>4, <1>5, <1>6, <1>7, <1>8 DEF Steps

(* Each backend is of one of these kinds. *)
LEMMA ModeKnown ==
    ASSUME dPlan \in DPlans, NEW n \in DNodes
    PROVE  DMode(n) \in DOMAIN Steps
BY MacAssumption DEF DNodes, DMode

-----------------------------------------------------------------------------
(* The shape is kept. *)
MacActs ==
    /\ dAct \in [DActors -> [pc: MacPcs, node: Nat, list: SUBSET DNodes, step: Nat]]
    /\ MacWriting /\ MacLooping

(* An actor that is put where it fits leaves the others alone. *)
LEMMA ActPut ==
    ASSUME MacActs, dPlan' = dPlan, NEW a \in DActors,
           NEW to \in MacPcs, NEW n \in Nat, NEW list \in SUBSET DNodes, NEW step \in Nat,
           dAct' = [dAct EXCEPT ![a] = Act(to, n, list, step)],
           to = "write" => n \in DNodes /\ step \in 1..Len(StepsOf(n)) /\ (a \in DHandlers => n \in list),
           a = DLoop /\ to = "check" => n \in DNodes,
           a = DLoop /\ to = "tick" => n \in DNodes \cup {0},
           a \in DHandlers => to \in {"idle", "start", "release", "write", "stop", "wait"}
    PROVE  MacActs'
<1>1. DNodes' = DNodes /\ \A m : StepsOf(m)' = StepsOf(m)
  BY DEF DNodes, StepsOf, DMode
<1>2. \A b \in DActors : dAct'[b] = IF b = a THEN Act(to, n, list, step) ELSE dAct[b]
  BY DEF MacActs
<1>3. dAct' \in [DActors -> [pc: MacPcs, node: Nat, list: SUBSET DNodes, step: Nat]]
  BY DEF MacActs, Act
<1>4. MacWriting'
  BY <1>1, <1>2 DEF MacActs, MacWriting, Act
<1>5. MacLooping'
  BY <1>1, <1>2, MacAssumption DEF MacActs, MacLooping, Act, DActors
<1> QED
  BY <1>1, <1>3, <1>4, <1>5 DEF MacActs

(* What is known of an actor in a write. *)
LEMMA InWrite ==
    ASSUME MacShape, NEW a \in DActors, dAct[a].pc = "write"
    PROVE  /\ MacActs
           /\ dAct[a].node \in DNodes /\ dAct[a].list \in SUBSET DNodes
           /\ DMode(dAct[a].node) \in DOMAIN Steps
           /\ KnownSteps(DMode(dAct[a].node), StepsOf(dAct[a].node))
           /\ dAct[a].step \in 1..Len(StepsOf(dAct[a].node))
           /\ a \in DHandlers => dAct[a].node \in dAct[a].list
           /\ DNodes \subseteq Nat
<1>1. MacActs
  BY DEF MacShape, MacActs
<1>2. /\ dAct[a].node \in DNodes /\ dAct[a].list \in SUBSET DNodes
      /\ dAct[a].step \in 1..Len(StepsOf(dAct[a].node))
      /\ a \in DHandlers => dAct[a].node \in dAct[a].list
  BY DEF MacShape, MacWriting
<1>3. DMode(dAct[a].node) \in DOMAIN Steps
  BY <1>2, ModeKnown DEF MacShape
<1>4. KnownSteps(DMode(dAct[a].node), StepsOf(dAct[a].node))
  BY <1>3, StepsKnown DEF StepsOf
<1> QED
  BY <1>1, <1>2, <1>3, <1>4 DEF DNodes

(* A write that goes on, or ends, keeps the actors' shape. *)
LEMMA EndsKeeps ==
    ASSUME MacShape, NEW a \in DActors, dAct[a].pc = "write", dPlan' = dPlan, WriteEnds(a)
    PROVE  MacActs'
<1> USE InWrite
<1>1. CASE a = DLoop
  <2>1. dAct' = [dAct EXCEPT ![a] = Act("tick", dAct[a].node, dAct[a].list, 0)]
    BY <1>1 DEF WriteEnds, MacActs
  <2>2. a \notin DHandlers
    BY <1>1, MacAssumption
  <2> QED
    BY <1>1, <2>1, <2>2, ActPut DEF MacPcs
<1>2. CASE a # DLoop
  <2>1. dAct' = [dAct EXCEPT ![a] = Act("stop", 0, {}, 0)]
    BY <1>2 DEF WriteEnds, Resting
  <2> QED
    BY <1>2, <2>1, ActPut DEF MacPcs
<1> QED
  BY <1>1, <1>2

(* A write that goes on keeps the actors' shape. *)
LEMMA GoesKeeps ==
    ASSUME MacShape, NEW a \in DActors, dAct[a].pc = "write", WriteGoes(a)
    PROVE  MacActs'
<1>1. CASE LastStep(a)
  BY <1>1, EndsKeeps DEF WriteGoes
<1>2. CASE ~LastStep(a)
  <2> DEFINE n == dAct[a].node
             list == dAct[a].list
             step == dAct[a].step + 1
  <2>0. /\ MacActs /\ n \in DNodes /\ list \in SUBSET DNodes /\ DNodes \subseteq Nat
        /\ dAct[a].step \in 1..Len(StepsOf(n)) /\ (a \in DHandlers => n \in list)
        /\ Len(StepsOf(n)) \in 1..4
    BY InWrite DEF KnownSteps
  <2>1. dAct' = [dAct EXCEPT ![a] = Act("write", n, list, step)]
    BY <1>2 DEF WriteGoes
  <2>2. step \in 1..Len(StepsOf(n)) /\ step \in Nat
    BY <1>2, <2>0 DEF LastStep, StepsOf
  <2>3. "write" \in MacPcs /\ n \in Nat /\ dPlan' = dPlan
    BY <2>0 DEF MacPcs, WriteGoes
  <2> HIDE DEF n, list, step
  <2> QED
    BY <2>0, <2>1, <2>2, <2>3, ActPut
<1> QED
  BY <1>1, <1>2

(* Every write has a first step. *)
LEMMA FirstStep ==
    ASSUME MacShape, NEW n \in DNodes
    PROVE  1 \in 1..Len(StepsOf(n))
<1>1. DMode(n) \in DOMAIN Steps
  BY ModeKnown DEF MacShape
<1>2. KnownSteps(DMode(n), StepsOf(n))
  BY <1>1, StepsKnown DEF StepsOf
<1> QED
  BY <1>2 DEF KnownSteps

(* A backend later in the list. *)
LEMMA LaterNode ==
    ASSUME MacShape, NEW a \in DActors, dAct[a].list \subseteq DNodes, Later(a) # {}
    PROVE  /\ Min(Later(a)) \in DNodes /\ Min(Later(a)) \in dAct[a].list
           /\ \A m \in Later(a) : Min(Later(a)) <= m
           /\ Len(StepsOf(Min(Later(a)))) \in 1..4
<1>1. Later(a) \in SUBSET Nat
  BY DEF Later, DNodes
<1>2. Min(Later(a)) \in Later(a) /\ \A m \in Later(a) : Min(Later(a)) <= m
  BY <1>1, MinOf
<1>3. Min(Later(a)) \in DNodes /\ Min(Later(a)) \in dAct[a].list
  BY <1>2 DEF Later
<1>4. DMode(Min(Later(a))) \in DOMAIN Steps
  BY <1>3, ModeKnown DEF MacShape
<1> QED
  BY <1>2, <1>3, <1>4, StepsKnown DEF KnownSteps, StepsOf

(* So does a write that fails. *)
LEMMA ErrsKeeps ==
    ASSUME MacShape, NEW a \in DActors, dAct[a].pc = "write", WriteErrs(a)
    PROVE  MacActs'
<1>0. /\ MacActs /\ dAct[a].node \in DNodes /\ dAct[a].list \in SUBSET DNodes
      /\ DNodes \subseteq Nat /\ dPlan' = dPlan
  BY InWrite DEF WriteErrs
<1>1. CASE a = DLoop
  <2>1. dAct' = [dAct EXCEPT ![a] = Act("tick", dAct[a].node, dAct[a].list, 0)]
    BY <1>1 DEF WriteErrs
  <2>2. a \notin DHandlers
    BY <1>1, MacAssumption
  <2> QED
    BY <1>0, <1>1, <2>1, <2>2, ActPut DEF MacPcs
<1>2. CASE a # DLoop /\ Later(a) = {}
  <2>1. dAct' = [dAct EXCEPT ![a] = Act("stop", 0, {}, 0)]
    BY <1>2 DEF WriteErrs, Resting
  <2> QED
    BY <1>0, <1>2, <2>1, ActPut DEF MacPcs
<1>3. CASE a # DLoop /\ Later(a) # {}
  <2>1. dAct' = [dAct EXCEPT ![a] = Act("write", Min(Later(a)), dAct[a].list, 1)]
    BY <1>3 DEF WriteErrs
  <2>2. /\ Min(Later(a)) \in DNodes /\ Min(Later(a)) \in dAct[a].list
        /\ 1 \in 1..Len(StepsOf(Min(Later(a))))
    BY <1>0, <1>3, LaterNode
  <2>3. "write" \in MacPcs /\ Min(Later(a)) \in Nat
    BY <1>0, <2>2 DEF MacPcs
  <2> QED
    BY <1>0, <1>3, <2>1, <2>2, <2>3, ActPut
<1> QED
  BY <1>1, <1>2, <1>3

(* Keys that are lifted leave the others. *)
LEMMA KeysKeep ==
    ASSUME MacKeys, dPlan' = dPlan, dLow' \subseteq dLow
    PROVE  MacKeys'
BY DEF MacKeys, DKeys, DNodes, StepsOf, DMode

(* A key the loop limits is one of its backend's. *)
LEMMA KeyKnown ==
    ASSUME MacShape, NEW a \in DActors, NEW key \in {"main", "second"}, WriteKey(a, key)
    PROVE  MacKeys'
<1>1. /\ dAct[a].node \in DNodes
      /\ \E i \in 1..Len(StepsOf(dAct[a].node)) : StepsOf(dAct[a].node)[i] = key
  BY InWrite DEF WriteKey, StepIs, StepsOf
<1>2. dLow' \subseteq dLow \cup {<<dAct[a].node, key>>} /\ dPlan' = dPlan
  BY DEF WriteKey, Key, WriteGoes
<1>3. <<dAct[a].node, key>> \in DKeys
  BY <1>1 DEF DKeys
<1>4. DKeys' = DKeys /\ \A n : StepsOf(n)' = StepsOf(n)
  BY <1>2 DEF DKeys, DNodes, StepsOf, DMode
<1>5. ASSUME NEW k \in dLow'
      PROVE  k \in DKeys /\ \E i \in 1..Len(StepsOf(k[1])) : StepsOf(k[1])[i] = k[2]
  <2>1. CASE k \in dLow
    BY <2>1 DEF MacShape, MacKeys
  <2>2. CASE k = <<dAct[a].node, key>>
    BY <1>1, <1>3, <2>2
  <2> QED
    BY <1>2, <1>5, <2>1, <2>2
<1> QED
  BY <1>4, <1>5 DEF MacKeys

(* Each step of a write keeps the shape. *)
LEMMA WriteShape ==
    ASSUME MacShape, NEW a \in DActors, MacWrite(a)
    PROVE  MacShape'
<1>1. dAct[a].pc = "write"
  BY DEF MacWrite, LookFinds, LookDiffers, WindowOff, WindowOn, WriteKey, WriteDropped,
         ReadBack, WriteFailed, StepIs
<1>2. (WriteEnds(a) /\ LookFinds(a)) \/ WriteGoes(a) \/ WriteErrs(a)
  BY DEF MacWrite, LookFinds, LookDiffers, WindowOff, WindowOn, WriteKey, WriteDropped,
         ReadBack, WriteFailed
<1>3. dPlan' = dPlan /\ dPresent' = dPresent
  BY <1>2 DEF LookFinds, WriteGoes, WriteErrs
<1>4. MacActs'
  BY <1>1, <1>2, <1>3, EndsKeeps, GoesKeeps, ErrsKeeps
<1>5. MacKeys'
  <2>1. CASE \E key \in {"main", "second"} : WriteKey(a, key)
    BY <2>1, KeyKnown
  <2>2. CASE ~ \E key \in {"main", "second"} : WriteKey(a, key)
    <3>1. dLow' = dLow
      BY <2>2 DEF MacWrite, LookFinds, LookDiffers, WindowOff, WindowOn, WriteDropped,
                  ReadBack, WriteFailed, WriteErrs, dHardware
    <3> QED
      BY <1>3, <3>1, KeysKeep DEF MacShape
  <2> QED
    BY <2>1, <2>2
<1>6. DNodes' = DNodes
  BY <1>3 DEF DNodes
<1> QED
  BY <1>3, <1>4, <1>5, <1>6 DEF MacShape, MacActs

-----------------------------------------------------------------------------
(* Limits stay held. *)

(* A hook that does not move passes no more keys. *)
LEMMA MacPassedFrame ==
    ASSUME dPlan' = dPlan, NEW h \in DHandlers, dAct'[h] = dAct[h]
    PROVE  \A k : MacPassed(h, k)' <=> MacPassed(h, k)
BY DEF MacPassed, StepsPassed, DMode

(* The loop moves and limits nothing. *)
LEMMA LoopHolds ==
    ASSUME MacInv, dPlan' = dPlan, dLow' \subseteq dLow, MacExcused \cap dLow' \subseteq MacExcused',
           \A h \in DHandlers : dAct'[h] = dAct[h], dAct'[DLoop].pc # "none"
    PROVE  MacHeld'
BY MacPassedFrame DEF MacInv, MacHeld, MacOpen

(* A hook moves and a key stays open when the hook has not passed it. *)
LEMMA HookOpens ==
    ASSUME MacInv, dPlan' = dPlan, NEW h \in DHandlers, NEW x, dAct' = [dAct EXCEPT ![h] = x],
           NEW k, MacOpen(k), ~ MacPassed(h, k)'
    PROVE  MacOpen(k)'
<1>1. \A g \in DHandlers : g # h => dAct'[g] = dAct[g]
  BY DEF MacInv, MacShape, DActors
<1>2. dAct'[DLoop] = dAct[DLoop]
  BY MacAssumption DEF MacInv, MacShape, DActors
<1>3. \A g \in DHandlers : g # h => ~ MacPassed(g, k)'
  BY <1>1, MacPassedFrame DEF MacOpen
<1> QED
  BY <1>2, <1>3 DEF MacOpen

(* Where a Release is when it has not passed a key. *)
LEMMA NotPassed ==
    ASSUME MacShape, NEW h \in DHandlers, dAct[h].pc = "write", NEW k \in dLow, ~ MacPassed(h, k)
    PROVE  /\ k[1] \in dAct[h].list /\ k[1] \in Nat /\ dAct[h].node \in Nat
           /\ k[1] = dAct[h].node \/ k[1] > dAct[h].node
           /\ k[2] \in {"main", "second"} /\ k = <<k[1], k[2]>>
           /\ k[1] = dAct[h].node =>
                 \E i \in dAct[h].step..Len(StepsOf(k[1])) : StepsOf(k[1])[i] = k[2]
<1>1. h \in DActors
  BY DEF DActors
<1>2. /\ dAct[h].node \in DNodes /\ DNodes \subseteq Nat
      /\ dAct[h].step \in 1..Len(StepsOf(dAct[h].node))
      /\ Len(StepsOf(dAct[h].node)) \in 1..4
  BY <1>1, InWrite DEF KnownSteps
<1>3. /\ k[1] \in dAct[h].list /\ ~ (k[1] < dAct[h].node)
      /\ k[1] = dAct[h].node => k[2] \notin StepsPassed(k[1], dAct[h].step)
  BY DEF MacPassed
<1>4. k \in DKeys /\ \E i \in 1..Len(StepsOf(k[1])) : StepsOf(k[1])[i] = k[2]
  BY DEF MacShape, MacKeys
<1>5. k[1] \in DNodes /\ k[2] \in {"main", "second"} /\ k = <<k[1], k[2]>>
  BY <1>4 DEF DKeys
<1>6. k[1] = dAct[h].node => \E i \in dAct[h].step..Len(StepsOf(k[1])) : StepsOf(k[1])[i] = k[2]
  <2> SUFFICES ASSUME k[1] = dAct[h].node
               PROVE  \E i \in dAct[h].step..Len(StepsOf(k[1])) : StepsOf(k[1])[i] = k[2]
    OBVIOUS
  <2>1. PICK i \in 1..Len(StepsOf(k[1])) : StepsOf(k[1])[i] = k[2]
    BY <1>4
  <2>2. ~ (i \in 1..(dAct[h].step - 1))
    BY <1>3, <2>1 DEF StepsPassed, StepsOf
  <2>3. i \in dAct[h].step..Len(StepsOf(k[1]))
    BY <1>2, <2>2
  <2> QED
    BY <2>1, <2>3
<1> QED
  BY <1>2, <1>3, <1>5, <1>6

(* A Release that goes on passes the key it was at, and when it ends those *)
(* of later backends.                                                      *)
LEMMA HookGoes ==
    ASSUME MacInv, NEW h \in DHandlers, dAct[h].pc = "write", WriteGoes(h),
           NEW k \in dLow, MacOpen(k),
           k # <<dAct[h].node, StepsOf(dAct[h].node)[dAct[h].step]>>
    PROVE  MacOpen(k)' \/ (LastStep(h) /\ k[1] > dAct[h].node)
<1> DEFINE n == dAct[h].node
           step == dAct[h].step
<1>1. MacShape /\ h \in DActors /\ h # DLoop /\ dPlan' = dPlan /\ ~ MacPassed(h, k)
  BY MacAssumption DEF MacInv, DActors, WriteGoes, MacOpen
<1>2. /\ k[1] \in dAct[h].list /\ k[1] \in Nat /\ n \in Nat
      /\ k[1] = n \/ k[1] > n
      /\ k[2] \in {"main", "second"} /\ k = <<k[1], k[2]>>
      /\ k[1] = n => \E i \in step..Len(StepsOf(k[1])) : StepsOf(k[1])[i] = k[2]
  BY <1>1, NotPassed
<1>3. step \in 1..Len(StepsOf(n)) /\ Len(StepsOf(n)) \in 1..4
  BY <1>1, InWrite DEF KnownSteps
<1>4. CASE LastStep(h)
  <2>1. step = Len(StepsOf(n))
    BY <1>4 DEF LastStep, StepsOf
  <2>2. k[1] # n
    BY <1>2, <1>3, <2>1
  <2> QED
    BY <1>2, <1>4, <2>2
<1>5. CASE ~LastStep(h)
  <2>1. dAct' = [dAct EXCEPT ![h] = Act("write", n, dAct[h].list, step + 1)]
    BY <1>5 DEF WriteGoes
  <2>2. dAct'[h] = Act("write", n, dAct[h].list, step + 1)
    BY <1>1, <2>1 DEF MacShape
  <2>3. ~ (k[1] = n /\ k[2] \in StepsPassed(k[1], step + 1))
    <3> SUFFICES ASSUME k[1] = n, k[2] \in StepsPassed(k[1], step + 1)
                 PROVE  FALSE
      OBVIOUS
    <3>1. PICK i \in 1..step : StepsOf(n)[i] = k[2]
      BY <1>3 DEF StepsPassed, StepsOf
    <3>2. i # step
      BY <1>2, <3>1
    <3>3. i \in 1..(step - 1)
      BY <1>3, <3>2
    <3>4. k[2] \in StepsPassed(k[1], step)
      BY <3>1, <3>3 DEF StepsPassed, StepsOf
    <3> QED
      BY <1>1, <3>4 DEF MacPassed
  <2>4. ~ MacPassed(h, k)'
    BY <1>1, <1>2, <2>2, <2>3 DEF MacPassed, Act, StepsPassed, DMode
  <2> QED
    BY <1>1, <2>1, <2>4, HookOpens
<1> QED
  BY <1>4, <1>5

(* A Release whose write failed has the other keys still before it. *)
LEMMA HookErrs ==
    ASSUME MacInv, NEW h \in DHandlers, dAct[h].pc = "write", WriteErrs(h),
           NEW k \in dLow, MacOpen(k)
    PROVE  MacOpen(k)' \/ k \in dFailed'
<1> DEFINE n == dAct[h].node
           list == dAct[h].list
           next == Min(Later(h))
<1>1. MacShape /\ h \in DActors /\ h # DLoop /\ dPlan' = dPlan /\ ~ MacPassed(h, k)
  BY MacAssumption DEF MacInv, DActors, WriteErrs, MacOpen
<1>2. /\ k[1] \in list /\ k[1] \in Nat /\ n \in Nat
      /\ k[1] = n \/ k[1] > n
      /\ k[2] \in {"main", "second"} /\ k = <<k[1], k[2]>>
  BY <1>1, NotPassed
<1>3. CASE k[1] = n
  <2>1. dFailed' = dFailed \cup ({n} \X {"main", "second"})
    BY <1>1 DEF WriteErrs
  <2>2. k \in {n} \X {"main", "second"}
    BY <1>2, <1>3
  <2> QED
    BY <2>1, <2>2
<1>4. CASE k[1] > n
  <2>1. k[1] \in Later(h)
    BY <1>2, <1>4 DEF Later
  <2>2. list \subseteq DNodes
    BY <1>1, InWrite
  <2>3. next \in DNodes /\ next <= k[1]
    BY <1>1, <2>1, <2>2, LaterNode
  <2>4. dAct' = [dAct EXCEPT ![h] = Act("write", next, list, 1)]
    BY <1>1, <2>1 DEF WriteErrs
  <2> HIDE DEF next, list
  <2>5. dAct'[h] = Act("write", next, list, 1)
    BY <1>1, <2>4 DEF MacShape
  <2>6. next \in Nat
    BY <2>3 DEF DNodes
  <2>7. ~ MacPassed(h, k)'
    BY <1>2, <2>3, <2>5, <2>6 DEF MacPassed, Act, StepsPassed
  <2> QED
    BY <1>1, <2>4, <2>7, HookOpens
<1> QED
  BY <1>2, <1>3, <1>4

(* A hook moves: what it leaves needs a Release to come, or an excuse. *)
LEMMA HookHolds ==
    ASSUME MacInv, dLow' \subseteq dLow, MacExcused \cap dLow' \subseteq MacExcused',
           \A k \in dLow' : MacOpen(k) => MacOpen(k)' \/ k \in MacExcused'
    PROVE  MacHeld'
BY DEF MacInv, MacHeld

(* A Release that goes on, whatever else the step does to the key it is at.*)
LEMMA HookGoesHolds ==
    ASSUME MacInv, NEW h \in DHandlers, dAct[h].pc = "write", WriteGoes(h),
           dLow' \subseteq dLow, MacExcused \cap dLow' \subseteq MacExcused',
           LastStep(h) => {k \in dLow : k[1] > dAct[h].node} \subseteq dMissed',
           \A k \in dLow' : k = <<dAct[h].node, StepsOf(dAct[h].node)[dAct[h].step]>> => k \in dFailed'
    PROVE  MacHeld'
<1> SUFFICES ASSUME NEW k \in dLow', MacOpen(k), k \notin MacExcused'
             PROVE  MacOpen(k)'
  BY HookHolds
<1>1. k # <<dAct[h].node, StepsOf(dAct[h].node)[dAct[h].step]>> /\ k \in dLow
  BY DEF MacExcused
<1>2. MacOpen(k)' \/ (LastStep(h) /\ k[1] > dAct[h].node)
  BY <1>1, HookGoes
<1> QED
  BY <1>1, <1>2 DEF MacExcused

(* A Release that goes on with the next backend notes what it failed at. *)
LEMMA HookErrsHolds ==
    ASSUME MacInv, NEW h \in DHandlers, dAct[h].pc = "write", WriteErrs(h)
    PROVE  MacHeld'
<1>1. h # DLoop
  BY MacAssumption
<1>2. dLow' = dLow /\ dRaced' = dRaced /\ dMissed' = dMissed /\ dFailed \subseteq dFailed'
  BY <1>1 DEF WriteErrs, dHardware
<1>3. \A k \in dLow : MacOpen(k) => MacOpen(k)' \/ k \in dFailed'
  BY HookErrs
<1> QED
  BY <1>2, <1>3, HookHolds DEF MacExcused

(* Each step of a write of Release keeps the limits held. *)
LEMMA HookWrites ==
    ASSUME MacInv, NEW h \in DHandlers, MacWrite(h)
    PROVE  MacHeld'
<1> DEFINE n == dAct[h].node
           at == StepsOf(n)[dAct[h].step]
<1>0. /\ h # DLoop /\ h \in DActors /\ MacShape /\ ~ Limiting(h)
      /\ dAct[h].pc = "write" /\ \A step : StepIs(h, step) => at = step
  BY MacAssumption DEF MacInv, DActors, Limiting, StepIs, StepsOf, MacWrite, LookFinds,
     LookDiffers, WindowOff, WindowOn, WriteKey, WriteDropped, ReadBack, WriteFailed
<1>1. KnownSteps(DMode(n), StepsOf(n)) /\ dAct[h].step \in 1..Len(StepsOf(n))
  BY <1>0, InWrite
<1>2. \A k \in dLow : k[2] \in {"main", "second"}
  BY DEF MacInv, MacShape, MacKeys, DKeys
<1>3. CASE LookFinds(h)
  <2>1. /\ dLow' = dLow /\ dRaced' = dRaced /\ dFailed' = dFailed /\ dPlan' = dPlan
        /\ dMissed' = dMissed \cup {k \in dLow : k[1] > n}
        /\ at = "look" /\ <<n, "main">> \notin dLow
    BY <1>0, <1>3 DEF LookFinds, Misses, dHardware, Key
  <2>2. \A i \in 1..Len(StepsOf(n)) : StepsOf(n)[i] # "second"
    BY <1>1, <2>1 DEF KnownSteps
  <2>3. ASSUME NEW k \in dLow, MacOpen(k)
        PROVE  k \in dMissed'
    <3>1. ~ MacPassed(h, k)
      BY <2>3 DEF MacOpen
    <3>2. /\ k[1] = n \/ k[1] > n
          /\ k[2] \in {"main", "second"} /\ k = <<k[1], k[2]>>
          /\ k[1] = n => \E i \in dAct[h].step..Len(StepsOf(k[1])) : StepsOf(k[1])[i] = k[2]
      BY <1>0, <3>1, NotPassed
    <3>3. k[1] # n
      BY <1>1, <2>1, <2>2, <3>2
    <3> QED
      BY <2>1, <3>2, <3>3
  <2> QED
    BY <2>1, <2>3, HookHolds DEF MacExcused
<1>4. CASE LookDiffers(h) \/ WindowOff(h)
  <2>1. WriteGoes(h) /\ at \in {"look", "down"} /\ dLow' = dLow /\ UNCHANGED dHistory
    BY <1>0, <1>4 DEF LookDiffers, WindowOff, dHardware
  <2>2. ~ LastStep(h)
    BY <1>1, <2>1 DEF LastStep, KnownSteps, StepsOf
  <2>3. \A k \in dLow' : k # <<n, at>>
    BY <1>2, <2>1
  <2> QED
    BY <1>0, <2>1, <2>2, <2>3, HookGoesHolds DEF MacExcused, dHistory
<1>5. CASE WindowOn(h)
  <2>1. /\ WriteGoes(h) /\ at = "up" /\ dLow' = dLow /\ dRaced' = dRaced /\ dFailed' = dFailed
        /\ dMissed' = dMissed \cup {k \in dLow : k[1] > n}
    BY <1>0, <1>5 DEF WindowOn, Misses
  <2>2. \A k \in dLow' : k # <<n, at>>
    BY <1>2, <2>1
  <2> QED
    BY <1>0, <2>1, <2>2, HookGoesHolds DEF MacExcused
<1>6. ASSUME NEW key \in {"main", "second"}, WriteKey(h, key)
      PROVE  MacHeld'
  <2>1. /\ WriteGoes(h) /\ at = key /\ dLow' = dLow \ {<<n, key>>}
        /\ dRaced' = dRaced \ {<<n, key>>} /\ dFailed' = dFailed \ {<<n, key>>}
        /\ dMissed' = IF LastStep(h) THEN dMissed \cup {k \in dLow : k[1] > n} ELSE dMissed
    BY <1>0, <1>6 DEF WriteKey, Misses, Key
  <2> QED
    BY <1>0, <2>1, HookGoesHolds DEF MacExcused
<1>7. ASSUME NEW key \in {"main", "second"}, WriteDropped(h, key)
      PROVE  MacHeld'
  <2>1. /\ WriteGoes(h) /\ at = key /\ dLow' = dLow
        /\ dRaced' = dRaced /\ dFailed' = dFailed \cup {<<n, key>>}
        /\ dMissed' = IF LastStep(h) THEN dMissed \cup {k \in dLow : k[1] > n} ELSE dMissed
    BY <1>0, <1>7 DEF WriteDropped, Misses, Key, dHardware
  <2> QED
    BY <1>0, <2>1, HookGoesHolds DEF MacExcused
<1>8. CASE ReadBack(h)
  <2>1. CASE WriteErrs(h)
    BY <1>0, <2>1, HookErrsHolds
  <2>2. CASE ~ WriteErrs(h)
    <3>1. /\ WriteGoes(h) /\ at = "read" /\ dLow' = dLow /\ dRaced' = dRaced /\ dFailed' = dFailed
          /\ dMissed' = dMissed \cup {k \in dLow : k[1] > n}
      BY <1>0, <1>8, <2>2 DEF ReadBack, Misses, dHardware
    <3>2. \A k \in dLow' : k # <<n, at>>
      BY <1>2, <3>1
    <3> QED
      BY <1>0, <3>1, <3>2, HookGoesHolds DEF MacExcused
  <2> QED
    BY <2>1, <2>2
<1>9. CASE WriteFailed(h)
  BY <1>0, <1>9, HookErrsHolds DEF WriteFailed
<1> QED
  BY <1>3, <1>4, <1>5, <1>6, <1>7, <1>8, <1>9 DEF MacWrite

(* Each step of a write of the loop does. *)
LEMMA LoopWrites ==
    ASSUME MacInv, MacWrite(DLoop)
    PROVE  MacHeld'
<1>0. /\ DLoop \in DActors /\ dAct[DLoop].pc = "write"
      /\ dAct \in [DActors -> [pc: MacPcs, node: Nat, list: SUBSET DNodes, step: Nat]]
      /\ \A h \in DHandlers : h \in DActors /\ h # DLoop
  BY MacAssumption DEF MacInv, MacShape, DActors, StepIs, MacWrite, LookFinds,
     LookDiffers, WindowOff, WindowOn, WriteKey, WriteDropped, ReadBack, WriteFailed
<1>1. /\ \A h \in DHandlers : dAct'[h] = dAct[h]
      /\ dAct'[DLoop].pc # "none" /\ dPlan' = dPlan
  <2>1. (WriteEnds(DLoop) /\ dPlan' = dPlan) \/ WriteGoes(DLoop) \/ WriteErrs(DLoop)
    BY DEF MacWrite, LookFinds, LookDiffers, WindowOff, WindowOn, WriteKey, WriteDropped,
           ReadBack, WriteFailed
  <2>2. dPlan' = dPlan
    BY <2>1 DEF WriteGoes, WriteErrs
  <2> DEFINE n == dAct[DLoop].node
             list == dAct[DLoop].list
  <2>3. \/ dAct' = [dAct EXCEPT ![DLoop] = Act("tick", n, list, 0)]
        \/ dAct' = [dAct EXCEPT ![DLoop] = Act("write", n, list, dAct[DLoop].step + 1)]
    BY <2>1 DEF WriteGoes, WriteErrs, WriteEnds
  <2>4. \A h \in DHandlers : dAct'[h] = dAct[h]
    BY <1>0, <2>3
  <2>5. dAct'[DLoop].pc \in {"tick", "write"}
    BY <1>0, <2>3 DEF Act
  <2> QED
    BY <2>2, <2>4, <2>5
<1>2. CASE \E key \in {"main", "second"} : WriteKey(DLoop, key)
  <2>1. PICK key \in {"main", "second"} : WriteKey(DLoop, key)
    BY <1>2
  <2> PICK k0 : k0 = Key(DLoop, key)
    OBVIOUS
  <2>2. CASE ~ dLimit
    <3>1. /\ dLow' = dLow \ {k0} /\ dRaced' = dRaced \ {k0}
          /\ dFailed' = dFailed \ {k0} /\ dMissed' = dMissed
      BY <2>1, <2>2 DEF WriteKey, Limiting, Misses
    <3> QED
      BY <1>1, <3>1, LoopHolds DEF MacExcused
  <2>3. CASE dLimit
    <3>1. /\ dLow' = dLow \cup {k0} /\ dFailed' = dFailed \ {k0} /\ dMissed' = dMissed \ {k0}
          /\ dRaced' = IF \E h \in DHandlers : MacPassed(h, k0)
                       THEN dRaced \cup {k0} ELSE dRaced \ {k0}
      BY <2>1, <2>3 DEF WriteKey, Limiting
    <3>2. \A h \in DHandlers : \A k : MacPassed(h, k)' <=> MacPassed(h, k)
      BY <1>1, MacPassedFrame
    <3>3. \A k : (\A h \in DHandlers : ~ MacPassed(h, k)) => MacOpen(k)'
      BY <1>1, <3>2 DEF MacOpen
    <3>4. k0 \in MacExcused' \/ MacOpen(k0)'
      BY <3>1, <3>3 DEF MacExcused
    <3>5. ASSUME NEW k \in dLow, k # k0
          PROVE  k \in MacExcused' \/ MacOpen(k)'
      <4>1. k \in MacExcused \/ MacOpen(k)
        BY DEF MacInv, MacHeld
      <4>2. MacOpen(k) => MacOpen(k)'
        BY <3>3 DEF MacOpen
      <4>3. k \in MacExcused => k \in MacExcused'
        BY <3>1, <3>5 DEF MacExcused
      <4> QED
        BY <4>1, <4>2, <4>3
    <3> QED
      BY <3>1, <3>4, <3>5 DEF MacHeld
  <2> QED
    BY <2>2, <2>3
<1>3. CASE ~ \E key \in {"main", "second"} : WriteKey(DLoop, key)
  <2>1. dLow' = dLow /\ UNCHANGED dHistory
    BY <1>3 DEF MacWrite, LookFinds, LookDiffers, WindowOff, WindowOn, WriteDropped, ReadBack,
                WriteFailed, WriteErrs, Misses, dHistory, dHardware
  <2> QED
    BY <1>1, <2>1, LoopHolds DEF MacExcused, dHistory
<1> QED
  BY <1>2, <1>3

-----------------------------------------------------------------------------
(* The other steps of the loop. *)

(* An actor that moves and writes nothing keeps the shape. *)
LEMMA MovesKeep ==
    ASSUME MacShape, MacActs', dPlan' = dPlan, dPresent' \subseteq DNodes, dLow' = dLow
    PROVE  MacShape'
<1>1. DNodes' = DNodes
  BY DEF DNodes
<1>2. MacKeys'
  BY KeysKeep DEF MacShape
<1> QED
  BY <1>1, <1>2 DEF MacShape, MacActs

(* The first backend of a set, if there is one. *)
LEMMA FirstOf ==
    ASSUME NEW s \in SUBSET DNodes
    PROVE  DFirst(s) = 0 \/ DFirst(s) \in s
<1>1. s \in SUBSET Nat
  BY DEF DNodes
<1> QED
  BY <1>1, MinOf DEF DFirst

(* The loop that takes up a backend. *)
LEMMA UsingKeeps ==
    ASSUME MacInv, NEW list \in SUBSET DNodes, NEW n \in DNodes \cup {0}, Using(list, n),
           UNCHANGED <<dPlan, dPresent, dHardware, dHistory>>
    PROVE  MacInv'
<1> DEFINE to == IF n = 0 THEN "tick" ELSE "check"
<1>1. dAct' = [dAct EXCEPT ![DLoop] = Act(to, n, list, 0)]
  BY DEF Using
<1>2. /\ DLoop \in DActors /\ DLoop \notin DHandlers /\ n \in Nat
      /\ MacActs /\ MacShape
  BY MacAssumption DEF DActors, MacInv, MacShape, MacActs, DNodes
<1>3. to \in {"tick", "check"} /\ (to = "check" => n \in DNodes)
  OBVIOUS
<1> HIDE DEF to
<1>4. {} \in SUBSET DNodes /\ 0 \in Nat /\ to \in MacPcs
  BY <1>3 DEF MacPcs
<1>5. MacActs'
  BY <1>1, <1>2, <1>3, <1>4, ActPut
<1>6. MacShape'
  BY <1>2, <1>5, MovesKeep DEF MacShape, dHardware
<1>7. /\ \A h \in DHandlers : dAct'[h] = dAct[h]
      /\ dAct'[DLoop].pc # "none"
  BY <1>1, <1>2, <1>3 DEF MacActs, Act, DActors
<1>8. MacHeld'
  BY <1>7, LoopHolds DEF MacExcused, dHardware, dHistory
<1> QED
  BY <1>6, <1>8 DEF MacInv

(* The loop that goes on with what it has, or ends. *)
LEMMA LoopMoves ==
    ASSUME MacInv, NEW to \in MacPcs \ {"none", "check"}, NEW n \in Nat,
           NEW list \in SUBSET DNodes, NEW step \in Nat,
           dAct' = [dAct EXCEPT ![DLoop] = Act(to, n, list, step)],
           to = "write" => n \in DNodes /\ step \in 1..Len(StepsOf(n)),
           to = "tick" => n \in DNodes \cup {0},
           UNCHANGED <<dPlan, dPresent, dHardware, dHistory>>
    PROVE  MacInv'
<1>1. /\ DLoop \in DActors /\ DLoop \notin DHandlers /\ to \in MacPcs
      /\ MacActs /\ MacShape
  BY MacAssumption DEF DActors, MacInv, MacShape, MacActs
<1>2. MacActs'
  BY <1>1, ActPut
<1>3. MacShape'
  BY <1>1, <1>2, MovesKeep DEF MacShape, dHardware
<1>4. /\ \A h \in DHandlers : dAct'[h] = dAct[h]
      /\ dAct'[DLoop].pc # "none"
  BY <1>1 DEF MacActs, Act, DActors
<1>5. MacHeld'
  BY <1>4, LoopHolds DEF MacExcused, dHardware, dHistory
<1> QED
  BY <1>3, <1>5 DEF MacInv

(* Every action of the loop keeps the invariant. *)
LEMMA LoopSteps ==
    ASSUME MacInv, MacLoop
    PROVE  MacInv'
<1>0. /\ DLoop \in DActors /\ MacShape /\ dPresent \subseteq DNodes /\ DNodes \subseteq Nat
      /\ dAct[DLoop].list \in SUBSET DNodes
      /\ dAct[DLoop].pc = "check" => dAct[DLoop].node \in DNodes
      /\ dAct[DLoop].pc = "tick" => dAct[DLoop].node \in DNodes \cup {0}
      /\ \A to : MacLoopAt(to) => UNCHANGED <<dPlan, dPresent, dHardware, dHistory>>
  BY DEF DActors, MacInv, MacShape, MacLooping, DNodes, MacLoopAt
<1>1. CASE MacLoopBegins
  BY <1>0, <1>1, FirstOf, UsingKeeps DEF MacLoopBegins
<1>2. CASE MacLoopEnds
  <2>1. dAct' = [dAct EXCEPT ![DLoop] = Act("done", 0, {}, 0)]
    BY <1>2 DEF MacLoopEnds, Resting
  <2> QED
    BY <1>0, <1>2, <2>1, LoopMoves DEF MacLoopEnds, MacPcs
<1>3. CASE MacLoopTicks
  <2>1. CASE dAct[DLoop].node = 0
    BY <1>0, <1>3, <2>1, FirstOf, UsingKeeps DEF MacLoopTicks
  <2>2. CASE dAct[DLoop].node # 0
    <3> PICK n : n = IF (dFails >= DReprobe \/ dIneff >= DStrikes) /\ Later(DLoop) # {}
                     THEN Min(Later(DLoop)) ELSE dAct[DLoop].node
      OBVIOUS
    <3> PICK list : list = dAct[DLoop].list
      OBVIOUS
    <3>1. Using(list, n)
      BY <1>3, <2>2 DEF MacLoopTicks
    <3>2. n \in DNodes
      BY <1>0, <1>3, <2>2, LaterNode DEF MacLoopTicks, MacLoopAt
    <3> QED
      BY <1>0, <1>3, <3>1, <3>2, UsingKeeps DEF MacLoopTicks
  <2> QED
    BY <2>1, <2>2
<1>4. CASE MacCheckLeaves \/ MacCheckIdles
  <2> PICK n : n = dAct[DLoop].node
    OBVIOUS
  <2> PICK list : list = dAct[DLoop].list
    OBVIOUS
  <2>1. dAct' = [dAct EXCEPT ![DLoop] = Act("tick", n, list, 0)] /\ MacLoopAt("check")
    BY <1>4 DEF MacCheckLeaves, MacCheckIdles
  <2>2. n \in DNodes /\ n \in Nat
    BY <1>0, <2>1 DEF MacLoopAt
  <2> QED
    BY <1>0, <2>1, <2>2, LoopMoves DEF MacPcs
<1>5. ASSUME NEW r \in MacReadings, MacCheckDecides(r)
      PROVE  MacInv'
  <2> PICK n : n = dAct[DLoop].node
    OBVIOUS
  <2> PICK list : list = dAct[DLoop].list
    OBVIOUS
  <2>1. dAct' = [dAct EXCEPT ![DLoop] = Act("write", n, list, 1)] /\ MacLoopAt("check")
    BY <1>5 DEF MacCheckDecides
  <2>2. n \in DNodes /\ n \in Nat
    BY <1>0, <2>1 DEF MacLoopAt
  <2>3. 1 \in 1..Len(StepsOf(n))
    BY <1>0, <2>2, FirstStep
  <2> QED
    BY <1>0, <2>1, <2>2, <2>3, LoopMoves DEF MacPcs
<1>6. CASE MacWrite(DLoop)
  BY <1>0, <1>6, WriteShape, LoopWrites DEF MacInv
<1> QED
  BY <1>1, <1>2, <1>3, <1>4, <1>5, <1>6 DEF MacLoop

-----------------------------------------------------------------------------
(* The hook. *)

(* A hook that rests, or waits, writes nothing. *)
LEMMA HookRests ==
    ASSUME MacInv, NEW h \in DHandlers,
           NEW to \in {"idle", "start", "release", "stop", "wait"},
           dAct' = [dAct EXCEPT ![h] = Resting(to)],
           UNCHANGED <<dPlan, dPresent, dHardware, dRaced, dFailed>>, dMissed \subseteq dMissed',
           \A k \in dLow : MacOpen(k) /\ to \in {"stop", "wait"} => k \in dMissed'
    PROVE  MacInv'
<1>1. /\ h \in DActors /\ h # DLoop /\ to \in MacPcs /\ {} \in SUBSET DNodes
      /\ MacActs /\ MacShape /\ dPresent \subseteq DNodes
  BY MacAssumption DEF DActors, MacPcs, MacInv, MacShape, MacActs
<1>2. MacActs'
  BY <1>1, ActPut DEF Resting
<1>3. MacShape'
  BY <1>1, <1>2, MovesKeep DEF dHardware
<1>4. ASSUME NEW k \in dLow, MacOpen(k)
      PROVE  MacOpen(k)' \/ k \in dMissed'
  <2>1. CASE to \in {"stop", "wait"}
    BY <1>4, <2>1
  <2>2. CASE to \notin {"stop", "wait"}
    <3>1. dAct'[h].pc \notin {"stop", "wait", "write"}
      BY <1>1, <2>2 DEF MacActs, Resting, Act
    <3>2. ~ MacPassed(h, k)'
      BY <3>1 DEF MacPassed
    <3> QED
      BY <1>4, <3>2, HookOpens
  <2> QED
    BY <2>1, <2>2
<1>5. MacHeld'
  BY <1>4, HookHolds DEF MacExcused, dHardware
<1> QED
  BY <1>3, <1>5 DEF MacInv

(* A hook that starts or ends the loop moves it as well. *)
LEMMA TwoMove ==
    ASSUME MacInv, NEW h \in DHandlers, NEW to \in {"none", "begin"},
           dAct' = [dAct EXCEPT ![h] = Resting("idle"), ![DLoop] = Resting(to)],
           UNCHANGED <<dPlan, dPresent, dHardware, dRaced, dFailed, dMissed>>,
           \A k \in dLow : ~ MacOpen(k)
    PROVE  MacInv'
<1>1. /\ h \in DActors /\ DLoop \in DActors /\ h # DLoop /\ {} \in SUBSET DNodes
      /\ MacActs /\ MacShape /\ dPresent \subseteq DNodes
  BY MacAssumption DEF DActors, MacInv, MacShape, MacActs
<1>2. /\ Resting("idle") \in [pc: MacPcs, node: Nat, list: SUBSET DNodes, step: Nat]
      /\ Resting(to) \in [pc: MacPcs, node: Nat, list: SUBSET DNodes, step: Nat]
  BY <1>1 DEF Resting, Act, MacPcs
<1>3. \A a \in DActors : dAct'[a] = IF a = DLoop THEN Resting(to)
                                   ELSE IF a = h THEN Resting("idle") ELSE dAct[a]
  BY <1>1 DEF MacActs
<1>4. DNodes' = DNodes /\ \A m : StepsOf(m)' = StepsOf(m)
  BY DEF DNodes, StepsOf, DMode
<1>5. dAct' \in [DActors -> [pc: MacPcs, node: Nat, list: SUBSET DNodes, step: Nat]]
  BY <1>1, <1>2 DEF MacActs
<1>6. MacWriting'
  BY <1>1, <1>3, <1>4 DEF MacActs, MacWriting, Resting, Act
<1>7. MacLooping'
  BY <1>1, <1>3, <1>4, MacAssumption DEF MacActs, MacLooping, Resting, Act, DActors
<1>8. MacActs'
  BY <1>4, <1>5, <1>6, <1>7 DEF MacActs
<1>9. MacShape'
  BY <1>1, <1>8, MovesKeep DEF dHardware
<1>10. MacHeld'
  BY DEF MacInv, MacHeld, MacExcused, dHardware
<1> QED
  BY <1>9, <1>10 DEF MacInv

(* Release begins with the first of the backends that are there. *)
LEMMA ReleaseBegins ==
    ASSUME MacInv, NEW h \in DHandlers, MacReleases(h)
    PROVE  MacInv'
<1>1. /\ h \in DActors /\ h # DLoop /\ MacActs /\ MacShape /\ dPresent \in SUBSET DNodes
      /\ DNodes \subseteq Nat
  BY MacAssumption DEF DActors, MacInv, MacShape, MacActs, DNodes
<1>2. /\ UNCHANGED <<dPlan, dPresent, dHardware, dRaced, dFailed>>
      /\ dMissed' = dMissed \cup {k \in dLow : k[1] \notin dPresent}
  BY DEF MacReleases, MacHookAt
<1>3. CASE dPresent = {}
  <2>1. dAct' = [dAct EXCEPT ![h] = Resting("stop")]
    BY <1>3 DEF MacReleases
  <2> QED
    BY <1>2, <1>3, <2>1, HookRests
<1>4. CASE dPresent # {}
  <2> PICK n : n = Min(dPresent)
    OBVIOUS
  <2> PICK list : list = dPresent
    OBVIOUS
  <2>1. n \in list /\ list \in SUBSET DNodes /\ n \in Nat /\ \A m \in list : n <= m
    BY <1>1, <1>4, MinOf
  <2>2. dAct' = [dAct EXCEPT ![h] = Act("write", n, list, 1)]
    BY <1>4 DEF MacReleases
  <2>3. 1 \in 1..Len(StepsOf(n)) /\ n \in DNodes
    BY <1>1, <2>1, FirstStep
  <2>4. "write" \in MacPcs
    BY DEF MacPcs
  <2>5. MacActs'
    BY <1>1, <1>2, <2>1, <2>2, <2>3, <2>4, ActPut
  <2>6. MacShape'
    BY <1>1, <1>2, <2>5, MovesKeep DEF dHardware
  <2>7. dAct'[h] = Act("write", n, list, 1)
    BY <1>1, <2>2 DEF MacActs
  <2>8. ASSUME NEW k \in dLow, MacOpen(k), k[1] \in dPresent
        PROVE  MacOpen(k)'
    <3>1. n <= k[1] /\ k[1] \in Nat
      BY <1>1, <2>1, <2>8
    <3>2. ~ MacPassed(h, k)'
      BY <2>1, <2>7, <2>8, <3>1 DEF MacPassed, Act, StepsPassed
    <3> QED
      BY <1>2, <2>2, <2>8, <3>2, HookOpens
  <2>9. MacHeld'
    BY <1>2, <2>8, HookHolds DEF MacExcused, dHardware
  <2> QED
    BY <2>6, <2>9 DEF MacInv
<1> QED
  BY <1>3, <1>4

(* Every action of the hook keeps the invariant. *)
LEMMA HookSteps ==
    ASSUME MacInv, NEW h \in DHandlers, MacHook(h)
    PROVE  MacInv'
<1>0. /\ MacShape /\ h \in DActors /\ h # DLoop
      /\ \A to : MacHookAt(h, to) =>
            dAct[h].pc = to /\ UNCHANGED <<dPlan, dPresent, dHardware, dRaced, dFailed>>
  BY MacAssumption DEF MacInv, DActors, MacHookAt
<1>1. ASSUME NEW on \in BOOLEAN, MacApplyBatctl(h, on)
      PROVE  MacInv'
  <2> PICK to \in {"start", "release"} : dAct' = [dAct EXCEPT ![h] = Resting(to)]
    BY <1>1 DEF MacApplyBatctl
  <2> QED
    BY <1>0, <1>1, HookRests DEF MacApplyBatctl
<1>2. CASE MacStart(h)
  <2>1. CASE dAct[DLoop].pc = "none"
    <3>1. dAct' = [dAct EXCEPT ![h] = Resting("idle"), ![DLoop] = Resting("begin")]
      BY <1>0, <1>2, <2>1 DEF MacStart, MacShape, MacInv, DActors
    <3> QED
      BY <1>0, <1>2, <2>1, <3>1, TwoMove DEF MacStart, MacOpen
  <2>2. CASE dAct[DLoop].pc # "none"
    <3>1. dAct \in [DActors -> [pc: MacPcs, node: Nat, list: SUBSET DNodes, step: Nat]]
      BY <1>0 DEF MacShape
    <3>2. dAct' = [dAct EXCEPT ![h] = Resting("idle"), ![DLoop] = dAct[DLoop]]
      BY <1>0, <1>2, <2>2 DEF MacStart
    <3>3. dAct' = [dAct EXCEPT ![h] = Resting("idle")]
      BY <1>0, <3>1, <3>2
    <3> QED
      BY <1>0, <1>2, <3>3, HookRests DEF MacStart
  <2> QED
    BY <2>1, <2>2
<1>3. CASE MacReleases(h)
  BY <1>3, ReleaseBegins
<1>4. CASE MacWrite(h)
  BY <1>0, <1>4, WriteShape, HookWrites DEF MacInv
<1>5. CASE MacStopLoop(h)
  <2> PICK to \in {"idle", "wait"} : dAct' = [dAct EXCEPT ![h] = Resting(to)]
    BY <1>5 DEF MacStopLoop
  <2>1. \A k : ~ MacOpen(k)
    BY <1>0, <1>5 DEF MacStopLoop, MacOpen, MacPassed
  <2> QED
    BY <1>0, <1>5, <2>1, HookRests DEF MacStopLoop
<1>6. CASE MacStopReturns(h)
  <2>1. \A k : ~ MacOpen(k)
    BY <1>0, <1>6 DEF MacStopReturns, MacOpen, MacPassed
  <2>2. dAct' = [dAct EXCEPT ![h] = Resting("idle"), ![DLoop] = Resting("none")]
    BY <1>6 DEF MacStopReturns
  <2> QED
    BY <1>0, <1>6, <2>1, <2>2, TwoMove DEF MacStopReturns
<1> QED
  BY <1>1, <1>2, <1>3, <1>4, <1>5, <1>6 DEF MacHook

-----------------------------------------------------------------------------
(* A backend comes or goes. *)
LEMMA ShiftSteps ==
    ASSUME MacInv, NEW n \in DNodes, MacShift(n)
    PROVE  MacInv'
<1>1. UNCHANGED <<dPlan, dHardware, dAct, dHistory>> /\ dPresent' \subseteq DNodes
  BY DEF MacShift, MacInv, MacShape
<1>2. MacActs' /\ MacShape
  BY <1>1 DEF MacInv, MacShape, MacActs, MacWriting, MacLooping, StepsOf, DMode, DNodes
<1>3. MacShape'
  BY <1>1, <1>2, MovesKeep DEF dHardware
<1>4. \A k : MacOpen(k) => MacOpen(k)'
  BY <1>1, MacPassedFrame DEF MacOpen
<1>5. MacHeld'
  BY <1>1, <1>4 DEF MacInv, MacHeld, MacExcused, dHardware, dHistory
<1> QED
  BY <1>3, <1>5 DEF MacInv

(* All actors rest. *)
LEMMA AllRest ==
    ASSUME NEW to \in {"none", "begin"},
           dAct = [a \in DActors |-> Resting(IF a = DLoop THEN to ELSE "idle")]
    PROVE  MacActs
<1>1. DLoop \in DActors /\ \A h \in DHandlers : h \in DActors /\ h # DLoop
  BY MacAssumption DEF DActors
<1>2. \A a \in DActors : Resting(IF a = DLoop THEN to ELSE "idle")
                          \in [pc: MacPcs, node: Nat, list: SUBSET DNodes, step: Nat]
  BY DEF Resting, Act, MacPcs
<1>3. \A a \in DActors : dAct[a].pc = IF a = DLoop THEN to ELSE "idle"
  BY DEF Resting, Act
<1>4. MacWriting /\ MacLooping
  BY <1>1, <1>3 DEF MacWriting, MacLooping
<1> QED
  BY <1>2, <1>4 DEF MacActs

(* A process that starts has every Release before it, or with batctl off   *)
(* none that lifts what is there.                                          *)
LEMMA CrashSteps ==
    ASSUME MacInv, NEW on \in BOOLEAN, MacCrash(on)
    PROVE  MacInv'
<1>1. /\ UNCHANGED <<dPlan, dPresent, dHardware, dRaced, dFailed>>
      /\ dMissed' = IF on THEN dMissed ELSE dMissed \cup dLow
  BY DEF MacCrash
<1> PICK to : to = IF on THEN "begin" ELSE "none"
  OBVIOUS
<1>2. dAct' = [a \in DActors |-> Resting(IF a = DLoop THEN to ELSE "idle")]
  BY DEF MacCrash
<1>3. to \in {"none", "begin"}
  OBVIOUS
<1>4. MacActs'
  <2>1. DLoop \in DActors /\ \A h \in DHandlers : h \in DActors /\ h # DLoop
    BY MacAssumption DEF DActors
  <2>2. DNodes' = DNodes
    BY <1>1 DEF DNodes
  <2>3. \A a \in DActors : Resting(IF a = DLoop THEN to ELSE "idle")
                            \in [pc: MacPcs, node: Nat, list: SUBSET DNodes, step: Nat]
    BY <1>3 DEF Resting, Act, MacPcs
  <2>4. \A a \in DActors : dAct'[a].pc = IF a = DLoop THEN to ELSE "idle"
    BY <1>2 DEF Resting, Act
  <2>5. MacWriting' /\ MacLooping'
    BY <1>3, <2>1, <2>4 DEF MacWriting, MacLooping
  <2> QED
    BY <1>2, <2>2, <2>3, <2>5 DEF MacActs
<1>5. MacShape'
  BY <1>1, <1>4, MovesKeep DEF MacInv, MacShape, dHardware
<1>6. CASE on
  <2>1. /\ dAct'[DLoop].pc = "begin"
        /\ \A h \in DHandlers : dAct'[h].pc = "idle"
    BY <1>2, <1>6, MacAssumption DEF DActors, Resting, Act
  <2>2. \A k : MacOpen(k)'
    BY <2>1 DEF MacOpen, MacPassed
  <2> QED
    BY <1>5, <2>2 DEF MacInv, MacHeld
<1>7. CASE ~ on
  <2>1. MacHeld'
    BY <1>1, <1>7 DEF MacHeld, MacExcused, dHardware
  <2> QED
    BY <1>5, <2>1 DEF MacInv
<1> QED
  BY <1>6, <1>7

(* The invariant holds in every state. *)
LEMMA MacInvAlways == MacSpec => []MacInv
<1>1. MacInit => MacInv
  <2> SUFFICES ASSUME MacInit
               PROVE  MacInv
    OBVIOUS
  <2>1. PICK to \in {"none", "begin"} :
          dAct = [a \in DActors |-> Resting(IF a = DLoop THEN to ELSE "idle")]
    BY DEF MacInit
  <2>2. MacActs
    BY <2>1, AllRest
  <2>3. dLow = {} /\ dPlan \in DPlans /\ dPresent \subseteq DNodes
    BY DEF MacInit
  <2> QED
    BY <2>2, <2>3 DEF MacInv, MacShape, MacActs, MacKeys, MacHeld
<1>2. MacInv /\ [MacNext]_dVars => MacInv'
  <2> SUFFICES ASSUME MacInv, [MacNext]_dVars
               PROVE  MacInv'
    OBVIOUS
  <2>1. CASE MacNext
    BY <2>1, LoopSteps, HookSteps, ShiftSteps, CrashSteps DEF MacNext
  <2>2. CASE UNCHANGED dVars
    BY <2>2 DEF dVars, dHardware, dHistory, MacInv, MacShape, MacWriting, MacLooping, MacKeys,
       MacHeld, MacExcused, MacOpen, MacPassed, StepsPassed, StepsOf, DMode, DNodes, DKeys
  <2> QED
    BY <2>1, <2>2
<1> QED
  BY <1>1, <1>2, PTL DEF MacSpec

(* MacLiftedWhenOff, for any backends, hooks, failures and restarts. *)
THEOREM MacTheorem == MacSpec => []MacLiftedWhenOff
BY MacInvAlways, MacLiftedFromInv, PTL

-----------------------------------------------------------------------------
(* The values of the variables of the charge control, in parts.  A node    *)
(* the loop writes to is in use, and has not failed or been without effect *)
(* too often; a node a Release writes to is one it found.                  *)
GCounted ==
    /\ gPlan \in GPlans
    /\ gCounts \in [faults: 0..gPlan.faults, toggles: 0..gPlan.toggles,
                    shifts: 0..gPlan.shifts, crashes: 0..gPlan.crashes]
GKnown ==
    /\ gUsable \subseteq GNodes /\ gEnd \subseteq GNodes /\ gStart \subseteq GNodes
    /\ gBad \subseteq GNodes
    /\ gRaced \subseteq GNodes /\ gFailed \subseteq GNodes /\ gAside \subseteq GNodes
GHooked ==
    /\ gPc \in [GHandlers -> HookPlaces] /\ gRel \in [GHandlers -> 0..Len(gPlan.modes)]
    /\ gLock \in GHandlers \cup {GFree}
    /\ \A h \in GHandlers : gPc[h] \in {"lift", "liftStart"} => gRel[h] # 0
GFlagged == gStop \in BOOLEAN /\ gDegraded \in BOOLEAN /\ gHot \in BOOLEAN
GLooping ==
    /\ gLoop \in {"none", "begin", "check", "limit", "allow", "limitStart", "tick", "done"}
    /\ gCtl \in 0..Len(gPlan.modes) /\ gFails \in 0..GReprobe /\ gIneff \in 0..GStrikes
    /\ gLoop \in {"check", "limit", "allow", "limitStart"} =>
          gCtl # 0 /\ gFails < GReprobe /\ gIneff < GStrikes
    /\ gLoop = "tick" /\ gCtl = 0 => gFails = 0 /\ gIneff = 0

GTyped == GCounted /\ GKnown /\ GHooked /\ GFlagged /\ GLooping

(* The bounds are numbers, and so are the nodes. *)
LEMMA GBounds ==
    ASSUME GCounted
    PROVE  /\ gPlan.faults \in Nat /\ gPlan.toggles \in Nat /\ gPlan.shifts \in Nat /\ gPlan.crashes \in Nat
           /\ Len(gPlan.modes) \in Nat /\ GNodes \subseteq Nat \ {0}
<1>1. gPlan \in GPlans
  BY DEF GCounted
<1>2. /\ gPlan.faults \in Nat /\ gPlan.toggles \in Nat /\ gPlan.shifts \in Nat /\ gPlan.crashes \in Nat
      /\ gPlan.modes \in Seq({"threshold", "level", "switch"})
  BY <1>1, ChargeAssumption
<1>3. Len(gPlan.modes) \in Nat
  BY <1>2
<1> QED
  BY <1>2, <1>3 DEF GNodes

(* A node that is looked for is usable, or there is none. *)
LEMMA ProbeOf ==
    ASSUME GCounted, GKnown, NEW skip
    PROVE  Probe(skip) \in 0..Len(gPlan.modes) /\ (Probe(skip) # 0 => Probe(skip) \in gUsable)
<1>1. gUsable \ skip \in SUBSET Nat /\ gUsable \subseteq 1..Len(gPlan.modes) /\ Len(gPlan.modes) \in Nat
  BY GBounds DEF GKnown, GNodes
<1>2. CASE gUsable \subseteq skip
  BY <1>1, <1>2 DEF Probe
<1>3. CASE ~(gUsable \subseteq skip)
  <2>1. Min(gUsable \ skip) \in gUsable \ skip
    BY <1>1, <1>3, MinOf
  <2> QED
    BY <1>1, <1>3, <2>1 DEF Probe
<1> QED
  BY <1>2, <1>3

(* What is counted stays within its bounds. *)
LEMMA CountOf ==
    ASSUME GCounted, gPlan' = gPlan,
           \/ Count("faults") \/ Count("toggles") \/ Count("shifts") \/ Count("crashes")
           \/ UNCHANGED gCounts
    PROVE  GCounted'
<1>1. /\ gPlan.faults \in Nat /\ gPlan.toggles \in Nat /\ gPlan.shifts \in Nat /\ gPlan.crashes \in Nat
  BY GBounds
<1>2. /\ gCounts.faults \in 0..gPlan.faults /\ gCounts.toggles \in 0..gPlan.toggles
      /\ gCounts.shifts \in 0..gPlan.shifts /\ gCounts.crashes \in 0..gPlan.crashes
  BY DEF GCounted
<1>3. CASE Count("faults")
  BY <1>1, <1>2, <1>3 DEF GCounted, Count
<1>4. CASE Count("toggles")
  BY <1>1, <1>2, <1>4 DEF GCounted, Count
<1>5. CASE Count("shifts")
  BY <1>1, <1>2, <1>5 DEF GCounted, Count
<1>6. CASE Count("crashes")
  BY <1>1, <1>2, <1>6 DEF GCounted, Count
<1>7. CASE UNCHANGED gCounts
  BY <1>7 DEF GCounted
<1> QED
  BY <1>3, <1>4, <1>5, <1>6, <1>7

(* Every action counts within the bounds of the behaviour. *)
LEMMA GCountedStep == GTyped /\ [ChargeNext]_gVars => GCounted'
<1> SUFFICES ASSUME GTyped, [ChargeNext]_gVars PROVE GCounted'
  OBVIOUS
<1> USE DEF GTyped
<1>1. CASE LoopBegins
  BY <1>1, CountOf DEF LoopBegins, LoopGoto, WriteFails
<1>2. CASE LoopEnds
  BY <1>2, CountOf DEF LoopEnds, LoopGoto, WriteFails
<1>3. CASE LoopTicks
  BY <1>3, CountOf DEF LoopTicks, LoopGoto, WriteFails
<1>4. CASE CheckLeaves
  BY <1>4, CountOf DEF CheckLeaves, LoopGoto, WriteFails
<1>5. ASSUME NEW r \in Readings, CheckDecides(r)
      PROVE  GCounted'
  BY <1>5, CountOf DEF CheckDecides, LoopGoto, WriteFails
<1>6. CASE LoopLimits
  BY <1>6, CountOf DEF LoopLimits, LoopGoto, WriteFails
<1>7. CASE LoopLimitsStart
  BY <1>7, CountOf DEF LoopLimitsStart, LoopGoto, WriteFails
<1>8. CASE LoopAllows
  BY <1>8, CountOf DEF LoopAllows, LoopGoto, WriteFails
<1>9. CASE LoopWriteFails
  BY <1>9, CountOf DEF LoopWriteFails, LoopGoto, WriteFails
<1>10. ASSUME NEW h \in GHandlers, NEW on \in BOOLEAN, ApplyBatctl(h, on)
      PROVE  GCounted'
  BY <1>10, CountOf DEF ApplyBatctl, HookGoto, WriteFails
<1>11. ASSUME NEW h \in GHandlers, StartLoop(h)
      PROVE  GCounted'
  BY <1>11, CountOf DEF StartLoop, HookGoto, WriteFails
<1>12. ASSUME NEW h \in GHandlers, ReleaseProbes(h)
      PROVE  GCounted'
  BY <1>12, CountOf DEF ReleaseProbes, HookGoto, WriteFails
<1>13. ASSUME NEW h \in GHandlers, ReleaseLifts(h)
      PROVE  GCounted'
  BY <1>13, CountOf DEF ReleaseLifts, HookGoto, WriteFails
<1>14. ASSUME NEW h \in GHandlers, ReleaseLiftsStart(h)
      PROVE  GCounted'
  BY <1>14, CountOf DEF ReleaseLiftsStart, HookGoto, WriteFails
<1>15. ASSUME NEW h \in GHandlers, ReleaseFails(h)
      PROVE  GCounted'
  BY <1>15, CountOf DEF ReleaseFails, HookGoto, WriteFails
<1>16. ASSUME NEW h \in GHandlers, StopLoop(h)
      PROVE  GCounted'
  BY <1>16, CountOf DEF StopLoop, HookGoto, WriteFails
<1>17. ASSUME NEW h \in GHandlers, StopReturns(h)
      PROVE  GCounted'
  BY <1>17, CountOf DEF StopReturns, HookGoto, WriteFails
<1>18. ASSUME NEW n \in GNodes, Shift(n)
      PROVE  GCounted'
  BY <1>18, CountOf DEF Shift
<1>19. ASSUME NEW on \in BOOLEAN, ChargeCrash(on)
      PROVE  GCounted'
  BY <1>19, CountOf DEF ChargeCrash
<1>20. CASE UNCHANGED gVars
  BY <1>20, CountOf DEF gVars
<1> QED
  BY <1>1, <1>2, <1>3, <1>4, <1>5, <1>6, <1>7, <1>8, <1>9, <1>10, <1>11, <1>12, <1>13, <1>14,
     <1>15, <1>16, <1>17, <1>18, <1>19, <1>20
     DEF ChargeNext, ChargeLoop, ChargeHook

(* And deals with the nodes there are only. *)
LEMMA GKnownStep == GTyped /\ [ChargeNext]_gVars => GKnown'
<1> SUFFICES ASSUME GTyped, [ChargeNext]_gVars PROVE GKnown'
  OBVIOUS
<1> USE DEF GTyped, GKnown
<1>1. CASE LoopBegins
  BY <1>1 DEF GNodes, gHardware, gLoopState, gHistory, LoopBegins, LoopGoto
<1>2. CASE LoopEnds
  BY <1>2 DEF GNodes, gHardware, gLoopState, gHistory, LoopEnds, LoopGoto
<1>3. CASE LoopTicks
  <2>1. gBad' \subseteq gBad \cup {gCtl} /\ (gCtl = 0 => gBad' = gBad)
    BY <1>3 DEF LoopTicks
  <2>2. gBad' \subseteq GNodes
    BY <2>1, GBounds DEF GLooping, GNodes
  <2> QED
    BY <1>3, <2>2 DEF LoopTicks, LoopGoto, gHistory, gHook, gHandles, GNodes
<1>4. CASE CheckLeaves
  BY <1>4 DEF GNodes, gHardware, gLoopState, gHistory, CheckLeaves, LoopGoto
<1>5. ASSUME NEW r \in Readings, CheckDecides(r)
      PROVE  GKnown'
  BY <1>5 DEF GNodes, gHardware, gLoopState, gHistory, CheckDecides, LoopGoto
<1>6. CASE LoopLimits
  <2>1. gCtl \in GNodes
    BY <1>6 DEF LoopLimits
  <2> QED
    BY <1>6, <2>1 DEF LoopLimits, LoopGoto, Limits, GNodes
<1>7. CASE LoopLimitsStart
  <2>1. gCtl \in GNodes
    BY <1>7, GBounds DEF LoopLimitsStart, LoopGoto, GLooping, GNodes
  <2> QED
    BY <1>7, <2>1 DEF LoopLimitsStart, LoopGoto, Limits, GNodes, gHistory
<1>8. CASE LoopAllows
  BY <1>8 DEF GNodes, gHardware, gLoopState, gHistory, LoopAllows, LoopGoto
<1>9. CASE LoopWriteFails
  BY <1>9 DEF GNodes, gHardware, gLoopState, gHistory, LoopWriteFails, LoopGoto
<1>10. ASSUME NEW h \in GHandlers, NEW on \in BOOLEAN, ApplyBatctl(h, on)
      PROVE  GKnown'
  BY <1>10 DEF GNodes, gHardware, gLoopState, gHistory, ApplyBatctl, HookGoto
<1>11. ASSUME NEW h \in GHandlers, StartLoop(h)
      PROVE  GKnown'
  BY <1>11 DEF GNodes, gHardware, gLoopState, gHistory, StartLoop, HookGoto
<1>12. ASSUME NEW h \in GHandlers, ReleaseProbes(h)
      PROVE  GKnown'
  BY <1>12 DEF GNodes, gHardware, gLoopState, gHistory, ReleaseProbes, HookGoto
<1>13. ASSUME NEW h \in GHandlers, ReleaseLifts(h)
      PROVE  GKnown'
  BY <1>13 DEF GNodes, gHardware, gLoopState, gHistory, ReleaseLifts, HookGoto
<1>14. ASSUME NEW h \in GHandlers, ReleaseLiftsStart(h)
      PROVE  GKnown'
  BY <1>14 DEF GNodes, gHardware, gLoopState, gHistory, ReleaseLiftsStart, HookGoto
<1>15. ASSUME NEW h \in GHandlers, ReleaseFails(h)
      PROVE  GKnown'
  <2>1. gRel[h] \in GNodes
    BY <1>15, GBounds DEF ReleaseFails, HookGoto, GHooked, GNodes
  <2> QED
    BY <1>15, <2>1 DEF ReleaseFails, HookGoto, gLoopState, GNodes
<1>16. ASSUME NEW h \in GHandlers, StopLoop(h)
      PROVE  GKnown'
  BY <1>16 DEF GNodes, gHardware, gLoopState, gHistory, StopLoop, HookGoto
<1>17. ASSUME NEW h \in GHandlers, StopReturns(h)
      PROVE  GKnown'
  BY <1>17 DEF GNodes, gHardware, gLoopState, gHistory, StopReturns, HookGoto
<1>18. ASSUME NEW n \in GNodes, Shift(n)
      PROVE  GKnown'
  BY <1>18 DEF GNodes, gHardware, gLoopState, gHistory, Shift
<1>19. ASSUME NEW on \in BOOLEAN, ChargeCrash(on)
      PROVE  GKnown'
  BY <1>19 DEF GNodes, gHardware, gLoopState, gHistory, ChargeCrash
<1>20. CASE UNCHANGED gVars
  BY <1>20 DEF GNodes, gHardware, gLoopState, gHistory, gVars
<1> QED
  BY <1>1, <1>2, <1>3, <1>4, <1>5, <1>6, <1>7, <1>8, <1>9, <1>10, <1>11, <1>12, <1>13, <1>14,
     <1>15, <1>16, <1>17, <1>18, <1>19, <1>20
     DEF ChargeNext, ChargeLoop, ChargeHook

(* A hook goes where the hook goes. *)
LEMMA GHookedStep == GTyped /\ [ChargeNext]_gVars => GHooked'
<1> SUFFICES ASSUME GTyped, [ChargeNext]_gVars PROVE GHooked'
  OBVIOUS
<1> USE DEF GTyped, GHooked
<1>1. CASE LoopBegins
  BY <1>1 DEF HookPlaces, gHook, gHandles, LoopBegins, LoopGoto
<1>2. CASE LoopEnds
  BY <1>2 DEF HookPlaces, gHook, gHandles, LoopEnds, LoopGoto
<1>3. CASE LoopTicks
  BY <1>3 DEF HookPlaces, gHook, gHandles, LoopTicks, LoopGoto
<1>4. CASE CheckLeaves
  BY <1>4 DEF HookPlaces, gHook, gHandles, CheckLeaves, LoopGoto
<1>5. ASSUME NEW r \in Readings, CheckDecides(r)
      PROVE  GHooked'
  BY <1>5 DEF HookPlaces, gHook, gHandles, CheckDecides, LoopGoto
<1>6. CASE LoopLimits
  BY <1>6 DEF HookPlaces, gHook, gHandles, LoopLimits, LoopGoto
<1>7. CASE LoopLimitsStart
  BY <1>7 DEF HookPlaces, gHook, gHandles, LoopLimitsStart, LoopGoto
<1>8. CASE LoopAllows
  BY <1>8 DEF HookPlaces, gHook, gHandles, LoopAllows, LoopGoto
<1>9. CASE LoopWriteFails
  BY <1>9 DEF HookPlaces, gHook, gHandles, LoopWriteFails, LoopGoto
<1>10. ASSUME NEW h \in GHandlers, NEW on \in BOOLEAN, ApplyBatctl(h, on)
      PROVE  GHooked'
  BY <1>10 DEF HookPlaces, gHook, gHandles, ApplyBatctl, HookGoto
<1>11. ASSUME NEW h \in GHandlers, StartLoop(h)
      PROVE  GHooked'
  BY <1>11 DEF HookPlaces, gHook, gHandles, StartLoop, HookGoto
<1>12. ASSUME NEW h \in GHandlers, ReleaseProbes(h)
      PROVE  GHooked'
  <2>1. Probe({}) \in 0..Len(gPlan.modes)
    BY ProbeOf
  <2> QED
    BY <1>12, <2>1 DEF ReleaseProbes, HookGoto, HookPlaces, gHandles
<1>13. ASSUME NEW h \in GHandlers, ReleaseLifts(h)
      PROVE  GHooked'
  BY <1>13 DEF HookPlaces, gHook, gHandles, ReleaseLifts, HookGoto
<1>14. ASSUME NEW h \in GHandlers, ReleaseLiftsStart(h)
      PROVE  GHooked'
  BY <1>14 DEF HookPlaces, gHook, gHandles, ReleaseLiftsStart, HookGoto
<1>15. ASSUME NEW h \in GHandlers, ReleaseFails(h)
      PROVE  GHooked'
  BY <1>15 DEF HookPlaces, gHook, gHandles, ReleaseFails, HookGoto
<1>16. ASSUME NEW h \in GHandlers, StopLoop(h)
      PROVE  GHooked'
  BY <1>16 DEF HookPlaces, gHook, gHandles, StopLoop, HookGoto
<1>17. ASSUME NEW h \in GHandlers, StopReturns(h)
      PROVE  GHooked'
  BY <1>17 DEF HookPlaces, gHook, gHandles, StopReturns, HookGoto
<1>18. ASSUME NEW n \in GNodes, Shift(n)
      PROVE  GHooked'
  BY <1>18 DEF HookPlaces, gHook, gHandles, Shift
<1>19. ASSUME NEW on \in BOOLEAN, ChargeCrash(on)
      PROVE  GHooked'
  BY <1>19, GBounds DEF ChargeCrash, HookPlaces
<1>20. CASE UNCHANGED gVars
  BY <1>20 DEF HookPlaces, gHook, gHandles, gVars
<1> QED
  BY <1>1, <1>2, <1>3, <1>4, <1>5, <1>6, <1>7, <1>8, <1>9, <1>10, <1>11, <1>12, <1>13, <1>14,
     <1>15, <1>16, <1>17, <1>18, <1>19, <1>20
     DEF ChargeNext, ChargeLoop, ChargeHook

(* The flags stay flags. *)
LEMMA GFlaggedStep == GTyped /\ [ChargeNext]_gVars => GFlagged'
<1> SUFFICES ASSUME GTyped, [ChargeNext]_gVars PROVE GFlagged'
  OBVIOUS
<1> USE DEF GTyped, GFlagged
<1>1. CASE LoopBegins
  <2>1. gStop' \in BOOLEAN
    BY <1>1 DEF LoopBegins, LoopGoto, HookGoto, gHandles
  <2>2. gDegraded' \in BOOLEAN
    BY <1>1 DEF LoopBegins, LoopGoto, HookGoto, gLoopState
  <2>3. gHot' \in BOOLEAN
    BY <1>1 DEF LoopBegins, LoopGoto, HookGoto, gLoopState
  <2> QED
    BY <2>1, <2>2, <2>3
<1>2. CASE LoopEnds
  BY <1>2 DEF gHandles, gLoopState, LoopEnds, LoopGoto
<1>3. CASE LoopTicks
  <2>1. gStop' \in BOOLEAN
    BY <1>3 DEF LoopTicks, LoopGoto, HookGoto, gHandles
  <2>2. gDegraded' \in BOOLEAN
    BY <1>3 DEF LoopTicks, LoopGoto, HookGoto, gLoopState
  <2>3. gHot' \in BOOLEAN
    BY <1>3 DEF LoopTicks, LoopGoto, HookGoto, gLoopState
  <2> QED
    BY <2>1, <2>2, <2>3
<1>4. CASE CheckLeaves
  BY <1>4 DEF gHandles, gLoopState, CheckLeaves, LoopGoto
<1>5. ASSUME NEW r \in Readings, CheckDecides(r)
      PROVE  GFlagged'
  <2>1. gStop' \in BOOLEAN
    BY <1>5 DEF CheckDecides, LoopGoto, HookGoto, gHandles
  <2>2. gDegraded' \in BOOLEAN
    BY <1>5 DEF CheckDecides, LoopGoto, HookGoto, gLoopState
  <2>3. gHot' \in BOOLEAN
    BY <1>5 DEF CheckDecides, LoopGoto, HookGoto, gLoopState, Readings
  <2> QED
    BY <2>1, <2>2, <2>3
<1>6. CASE LoopLimits
  BY <1>6 DEF gHandles, gLoopState, LoopLimits, LoopGoto
<1>7. CASE LoopLimitsStart
  BY <1>7 DEF gHandles, gLoopState, LoopLimitsStart, LoopGoto
<1>8. CASE LoopAllows
  BY <1>8 DEF gHandles, gLoopState, LoopAllows, LoopGoto
<1>9. CASE LoopWriteFails
  BY <1>9 DEF gHandles, gLoopState, LoopWriteFails, LoopGoto
<1>10. ASSUME NEW h \in GHandlers, NEW on \in BOOLEAN, ApplyBatctl(h, on)
      PROVE  GFlagged'
  BY <1>10 DEF gHandles, gLoopState, ApplyBatctl, HookGoto
<1>11. ASSUME NEW h \in GHandlers, StartLoop(h)
      PROVE  GFlagged'
  BY <1>11 DEF gHandles, gLoopState, StartLoop, HookGoto
<1>12. ASSUME NEW h \in GHandlers, ReleaseProbes(h)
      PROVE  GFlagged'
  BY <1>12 DEF gHandles, gLoopState, ReleaseProbes, HookGoto
<1>13. ASSUME NEW h \in GHandlers, ReleaseLifts(h)
      PROVE  GFlagged'
  BY <1>13 DEF gHandles, gLoopState, ReleaseLifts, HookGoto
<1>14. ASSUME NEW h \in GHandlers, ReleaseLiftsStart(h)
      PROVE  GFlagged'
  BY <1>14 DEF gHandles, gLoopState, ReleaseLiftsStart, HookGoto
<1>15. ASSUME NEW h \in GHandlers, ReleaseFails(h)
      PROVE  GFlagged'
  BY <1>15 DEF gHandles, gLoopState, ReleaseFails, HookGoto
<1>16. ASSUME NEW h \in GHandlers, StopLoop(h)
      PROVE  GFlagged'
  <2>1. gStop' \in BOOLEAN
    BY <1>16 DEF StopLoop, LoopGoto, HookGoto, gHandles
  <2>2. gDegraded' \in BOOLEAN
    BY <1>16 DEF StopLoop, LoopGoto, HookGoto, gLoopState
  <2>3. gHot' \in BOOLEAN
    BY <1>16 DEF StopLoop, LoopGoto, HookGoto, gLoopState
  <2> QED
    BY <2>1, <2>2, <2>3
<1>17. ASSUME NEW h \in GHandlers, StopReturns(h)
      PROVE  GFlagged'
  BY <1>17 DEF gHandles, gLoopState, StopReturns, HookGoto
<1>18. ASSUME NEW n \in GNodes, Shift(n)
      PROVE  GFlagged'
  BY <1>18 DEF gHandles, gLoopState, Shift
<1>19. ASSUME NEW on \in BOOLEAN, ChargeCrash(on)
      PROVE  GFlagged'
  BY <1>19 DEF gHandles, gLoopState, ChargeCrash
<1>20. CASE UNCHANGED gVars
  BY <1>20 DEF gHandles, gLoopState, gVars
<1> QED
  BY <1>1, <1>2, <1>3, <1>4, <1>5, <1>6, <1>7, <1>8, <1>9, <1>10, <1>11, <1>12, <1>13, <1>14,
     <1>15, <1>16, <1>17, <1>18, <1>19, <1>20
     DEF ChargeNext, ChargeLoop, ChargeHook

(* The loop counts failures until it gives the node up. *)
LEMMA GLoopingStep == GTyped /\ [ChargeNext]_gVars => GLooping'
<1> SUFFICES ASSUME GTyped, [ChargeNext]_gVars PROVE GLooping'
  OBVIOUS
<1> USE DEF GTyped, GLooping
<1>1. CASE LoopBegins
  BY <1>1, ProbeOf, GBounds, ChargeAssumption DEF LoopBegins, LoopGoto
<1>2. CASE LoopEnds
  BY <1>2 DEF gLoopState, LoopEnds, LoopGoto
<1>3. CASE LoopTicks
  <2>1. PICK other \in 0..Len(gPlan.modes) : other = Probe(gBad')
    BY ProbeOf
  <2>2. gPlan' = gPlan /\ gLoop = "tick"
    BY <1>3 DEF LoopTicks, LoopGoto
  <2>3. CASE gCtl # 0 /\ (gFails >= GReprobe \/ gIneff >= GStrikes)
    <3>1. gFails' = 0 /\ gIneff' = 0 /\ gCtl' = (IF other # 0 THEN other ELSE gCtl) /\ gLoop' = "check"
      BY <1>3, <2>1, <2>3 DEF LoopTicks, LoopGoto
    <3> QED
      BY <2>1, <2>2, <2>3, <3>1, ChargeAssumption
  <2>4. CASE ~(gCtl # 0 /\ (gFails >= GReprobe \/ gIneff >= GStrikes))
    <3>1. /\ gFails' = gFails /\ gIneff' = gIneff /\ gCtl' \in {other, gCtl} /\ (gCtl # 0 => gCtl' = gCtl)
          /\ gLoop' = IF gCtl' = 0 THEN "tick" ELSE "check"
      BY <1>3, <2>1, <2>4 DEF LoopTicks, LoopGoto
    <3> QED
      BY <2>1, <2>2, <2>4, <3>1, ChargeAssumption
  <2> QED
    BY <2>3, <2>4
<1>4. CASE CheckLeaves
  BY <1>4 DEF gLoopState, CheckLeaves, LoopGoto
<1>5. ASSUME NEW r \in Readings, CheckDecides(r)
      PROVE  GLooping'
  BY <1>5 DEF gLoopState, CheckDecides, LoopGoto
<1>6. CASE LoopLimits
  <2>1. /\ gPlan' = gPlan /\ gCtl' = gCtl /\ gCtl # 0 /\ gFails < GReprobe /\ gIneff < GStrikes
        /\ gLoop' \in {"tick", "limitStart"}
    BY <1>6 DEF LoopLimits, LoopGoto
  <2>2. gFails' \in {0, gFails, gFails + 1} /\ gIneff' \in {0, gIneff, gIneff + 1}
        /\ (gLoop' = "limitStart" => gFails' = gFails /\ gIneff' = gIneff)
    BY <1>6 DEF LoopLimits, LoopGoto, CheckEffective
  <2> QED
    BY <2>1, <2>2, ChargeAssumption
<1>7. CASE LoopLimitsStart
  <2>1. /\ gPlan' = gPlan /\ gCtl' = gCtl /\ gCtl # 0 /\ gFails < GReprobe /\ gIneff < GStrikes
        /\ gLoop' \in {"tick", "limitStart"}
    BY <1>7 DEF LoopLimitsStart, LoopGoto
  <2>2. gFails' \in {0, gFails, gFails + 1} /\ gIneff' \in {0, gIneff, gIneff + 1}
        /\ (gLoop' = "limitStart" => gFails' = gFails /\ gIneff' = gIneff)
    BY <1>7 DEF LoopLimitsStart, LoopGoto, CheckEffective
  <2> QED
    BY <2>1, <2>2, ChargeAssumption
<1>8. CASE LoopAllows
  <2>1. /\ gPlan' = gPlan /\ gCtl' = gCtl /\ gCtl # 0 /\ gFails < GReprobe /\ gIneff < GStrikes
        /\ gLoop' \in {"tick", "limitStart"}
    BY <1>8 DEF LoopAllows, LoopGoto
  <2>2. gFails' \in {0, gFails, gFails + 1} /\ gIneff' \in {0, gIneff, gIneff + 1}
        /\ (gLoop' = "limitStart" => gFails' = gFails /\ gIneff' = gIneff)
    BY <1>8 DEF LoopAllows, LoopGoto, CheckEffective
  <2> QED
    BY <2>1, <2>2, ChargeAssumption
<1>9. CASE LoopWriteFails
  <2>1. /\ gPlan' = gPlan /\ gCtl' = gCtl /\ gCtl # 0 /\ gFails < GReprobe /\ gIneff < GStrikes
        /\ gLoop' \in {"tick", "limitStart"}
    BY <1>9 DEF LoopWriteFails, LoopGoto
  <2>2. gFails' \in {0, gFails, gFails + 1} /\ gIneff' \in {0, gIneff, gIneff + 1}
        /\ (gLoop' = "limitStart" => gFails' = gFails /\ gIneff' = gIneff)
    BY <1>9 DEF LoopWriteFails, LoopGoto, CheckEffective
  <2> QED
    BY <2>1, <2>2, ChargeAssumption
<1>10. ASSUME NEW h \in GHandlers, NEW on \in BOOLEAN, ApplyBatctl(h, on)
      PROVE  GLooping'
  BY <1>10 DEF gLoopState, ApplyBatctl, HookGoto
<1>11. ASSUME NEW h \in GHandlers, StartLoop(h)
      PROVE  GLooping'
  BY <1>11 DEF gLoopState, StartLoop, HookGoto
<1>12. ASSUME NEW h \in GHandlers, ReleaseProbes(h)
      PROVE  GLooping'
  BY <1>12 DEF gLoopState, ReleaseProbes, HookGoto
<1>13. ASSUME NEW h \in GHandlers, ReleaseLifts(h)
      PROVE  GLooping'
  BY <1>13 DEF gLoopState, ReleaseLifts, HookGoto
<1>14. ASSUME NEW h \in GHandlers, ReleaseLiftsStart(h)
      PROVE  GLooping'
  BY <1>14 DEF gLoopState, ReleaseLiftsStart, HookGoto
<1>15. ASSUME NEW h \in GHandlers, ReleaseFails(h)
      PROVE  GLooping'
  BY <1>15 DEF gLoopState, ReleaseFails, HookGoto
<1>16. ASSUME NEW h \in GHandlers, StopLoop(h)
      PROVE  GLooping'
  BY <1>16 DEF gLoopState, StopLoop, HookGoto
<1>17. ASSUME NEW h \in GHandlers, StopReturns(h)
      PROVE  GLooping'
  BY <1>17 DEF gLoopState, StopReturns, HookGoto
<1>18. ASSUME NEW n \in GNodes, Shift(n)
      PROVE  GLooping'
  BY <1>18 DEF gLoopState, Shift
<1>19. ASSUME NEW on \in BOOLEAN, ChargeCrash(on)
      PROVE  GLooping'
  BY <1>19 DEF gLoopState, ChargeCrash
<1>20. CASE UNCHANGED gVars
  BY <1>20 DEF gLoopState, gVars
<1> QED
  BY <1>1, <1>2, <1>3, <1>4, <1>5, <1>6, <1>7, <1>8, <1>9, <1>10, <1>11, <1>12, <1>13, <1>14,
     <1>15, <1>16, <1>17, <1>18, <1>19, <1>20
     DEF ChargeNext, ChargeLoop, ChargeHook

(* The variables of the charge control keep to their values. *)
LEMMA ChargeTypes == ChargeSpec => []ChargeTypeOK
<1>1. ChargeInit => GTyped
  <2> SUFFICES ASSUME ChargeInit PROVE GTyped
    OBVIOUS
  <2>1. GCounted
    <3>1. /\ gPlan \in GPlans /\ gPlan.faults \in Nat /\ gPlan.toggles \in Nat
          /\ gPlan.shifts \in Nat /\ gPlan.crashes \in Nat
      BY ChargeAssumption DEF ChargeInit
    <3> QED
      BY <3>1 DEF ChargeInit, GCounted
  <2>2. Len(gPlan.modes) \in Nat
    BY <2>1, GBounds
  <2>3. GKnown
    BY DEF ChargeInit, GKnown
  <2>4. GHooked
    BY <2>2 DEF ChargeInit, GHooked, HookPlaces
  <2>5. GFlagged
    BY DEF ChargeInit, GFlagged
  <2>6. GLooping
    BY <2>2, ChargeAssumption DEF ChargeInit, GLooping
  <2> QED
    BY <2>1, <2>3, <2>4, <2>5, <2>6 DEF GTyped
<1>2. GTyped /\ [ChargeNext]_gVars => GTyped'
  BY GCountedStep, GKnownStep, GHookedStep, GFlaggedStep, GLoopingStep DEF GTyped
<1>3. GTyped => ChargeTypeOK
  BY DEF GTyped, GCounted, GKnown, GHooked, GFlagged, GLooping, ChargeTypeOK, HookPlaces
<1> QED
  BY <1>1, <1>2, <1>3, PTL DEF ChargeSpec

-----------------------------------------------------------------------------
(* The values of the variables of the charge control of a Mac, in parts.   *)
(* One that writes nothing has no step and, but for the loop that checks or*)
(* waits for its ticker, no backend; the loop that checks or writes has    *)
(* not seen its backend fail, or do nothing, too often.                    *)
MacPlaced ==
    \A a \in DActors :
        dAct[a].pc # "write" =>
            /\ dAct[a].step = 0
            /\ dAct[a].pc \notin {"check", "tick"} => dAct[a].node = 0
MacJudged ==
    /\ dFails \in 0..DReprobe /\ dIneff \in 0..DStrikes
    /\ dAct[DLoop].pc \in {"check", "write"} => dFails < DReprobe /\ dIneff < DStrikes
    /\ dAct[DLoop].pc = "tick" /\ dAct[DLoop].node = 0 => dFails = 0 /\ dIneff = 0
MacFlagged ==
    /\ dLock \in DHandlers \cup {DFree}
    /\ dStop \in BOOLEAN /\ dLimit \in BOOLEAN /\ dHot \in BOOLEAN
MacNoted ==
    /\ dDown \subseteq DNodes
    /\ dRaced \subseteq DKeys /\ dFailed \subseteq DKeys /\ dMissed \subseteq DKeys
MacCounted ==
    dCounts \in [faults: 0..dPlan.faults, toggles: 0..dPlan.toggles,
                 shifts: 0..dPlan.shifts, crashes: 0..dPlan.crashes]

MacTyped == MacInv /\ MacPlaced /\ MacJudged /\ MacFlagged /\ MacNoted /\ MacCounted

(* The bounds of a behaviour are numbers. *)
LEMMA MacBounds ==
    ASSUME MacInv
    PROVE  /\ dPlan.faults \in Nat /\ dPlan.toggles \in Nat /\ dPlan.shifts \in Nat /\ dPlan.crashes \in Nat
           /\ Len(dPlan.modes) \in Nat /\ DNodes \subseteq Nat \ {0}
<1>1. dPlan \in DPlans
  BY DEF MacInv, MacShape
<1>2. /\ dPlan.faults \in Nat /\ dPlan.toggles \in Nat /\ dPlan.shifts \in Nat /\ dPlan.crashes \in Nat
      /\ dPlan.modes \in Seq(DOMAIN Steps)
  BY <1>1, MacAssumption
<1>3. Len(dPlan.modes) \in Nat
  BY <1>2
<1> QED
  BY <1>2, <1>3 DEF DNodes

(* What is counted stays within its bounds. *)
LEMMA DCountOf ==
    ASSUME MacInv, MacCounted, dPlan' = dPlan,
           \/ DCount("faults") \/ DCount("toggles") \/ DCount("shifts") \/ DCount("crashes")
           \/ UNCHANGED dCounts
    PROVE  MacCounted'
<1>1. /\ dPlan.faults \in Nat /\ dPlan.toggles \in Nat /\ dPlan.shifts \in Nat /\ dPlan.crashes \in Nat
  BY MacBounds
<1>2. /\ dCounts.faults \in 0..dPlan.faults /\ dCounts.toggles \in 0..dPlan.toggles
      /\ dCounts.shifts \in 0..dPlan.shifts /\ dCounts.crashes \in 0..dPlan.crashes
  BY DEF MacCounted
<1>3. CASE DCount("faults")
  BY <1>1, <1>2, <1>3 DEF MacCounted, DCount
<1>4. CASE DCount("toggles")
  BY <1>1, <1>2, <1>4 DEF MacCounted, DCount
<1>5. CASE DCount("shifts")
  BY <1>1, <1>2, <1>5 DEF MacCounted, DCount
<1>6. CASE DCount("crashes")
  BY <1>1, <1>2, <1>6 DEF MacCounted, DCount
<1>7. CASE UNCHANGED dCounts
  BY <1>7 DEF MacCounted
<1> QED
  BY <1>3, <1>4, <1>5, <1>6, <1>7

(* What a step of a write does to the one that writes. *)
MacWent(a, to, n, list, step) ==
    /\ dAct' = [dAct EXCEPT ![a] = Act(to, n, list, step)]
    /\ to # "write" => step = 0
    /\ to = "stop" => n = 0
    /\ a = DLoop => to # "stop" /\ n = dAct[a].node
    /\ a = DLoop /\ to = "write" => UNCHANGED <<dFails, dIneff>>
    /\ dFails' \in {0, dFails, dFails + 1} /\ dIneff' \in {0, dIneff, dIneff + 1}
    /\ a # DLoop => UNCHANGED <<dFails, dIneff>>

(* After a step of a write the actor goes on, ends, or errs. *)
LEMMA WriteOutcome ==
    ASSUME NEW a \in DActors, MacWrite(a)
    PROVE  /\ dAct[a].pc = "write"
           /\ UNCHANGED <<dPlan, dPresent, dHandles, dLimit, dHot>>
           /\ \E to \in {"tick", "stop", "write"} : \E n, list, step : MacWent(a, to, n, list, step)
<1>1. /\ dAct[a].pc = "write" /\ UNCHANGED <<dPlan, dPresent, dHandles, dLimit, dHot>>
      /\ WriteEnds(a) \/ WriteGoes(a) \/ WriteErrs(a)
  BY DEF MacWrite, LookFinds, LookDiffers, WindowOff, WindowOn, WriteKey, WriteDropped,
         ReadBack, WriteFailed, StepIs, WriteGoes, WriteErrs
<1>2. ASSUME WriteEnds(a)
      PROVE  \E to \in {"tick", "stop", "write"} : \E n, list, step : MacWent(a, to, n, list, step)
  <2>1. CASE a = DLoop
    BY <1>2, <2>1 DEF WriteEnds, MacWent
  <2>2. CASE a # DLoop
    BY <1>2, <2>2 DEF WriteEnds, MacWent, Resting
  <2> QED
    BY <2>1, <2>2
<1>3. ASSUME WriteErrs(a)
      PROVE  \E to \in {"tick", "stop", "write"} : \E n, list, step : MacWent(a, to, n, list, step)
  <2>1. CASE a = DLoop
    <3>1. MacWent(a, "tick", dAct[a].node, dAct[a].list, 0)
      BY <1>3, <2>1 DEF WriteErrs, MacWent
    <3> QED
      BY <3>1
  <2>2. CASE a # DLoop /\ Later(a) = {}
    <3>1. MacWent(a, "stop", 0, {}, 0)
      BY <1>3, <2>2 DEF WriteErrs, MacWent, Resting
    <3> QED
      BY <3>1
  <2>3. CASE a # DLoop /\ Later(a) # {}
    <3>1. MacWent(a, "write", Min(Later(a)), dAct[a].list, 1)
      BY <1>3, <2>3 DEF WriteErrs, MacWent
    <3> QED
      BY <3>1
  <2> QED
    BY <2>1, <2>2, <2>3
<1>4. ASSUME WriteGoes(a)
      PROVE  \E to \in {"tick", "stop", "write"} : \E n, list, step : MacWent(a, to, n, list, step)
  <2>1. CASE LastStep(a)
    BY <1>2, <1>4, <2>1 DEF WriteGoes
  <2>2. CASE ~ LastStep(a)
    <3>1. MacWent(a, "write", dAct[a].node, dAct[a].list, dAct[a].step + 1)
      BY <1>4, <2>2 DEF WriteGoes, MacWent
    <3> QED
      BY <3>1
  <2> QED
    BY <2>1, <2>2
<1> QED
  BY <1>1, <1>2, <1>3, <1>4

(* What a step of a write notes is of the backend it writes to. *)
LEMMA WriteNotes ==
    ASSUME NEW a \in DActors, MacWrite(a)
    PROVE  /\ dDown' \subseteq dDown \cup {dAct[a].node}
           /\ dRaced' \subseteq dRaced \cup ({dAct[a].node} \X {"main", "second"})
           /\ dFailed' \subseteq dFailed \cup ({dAct[a].node} \X {"main", "second"})
           /\ dMissed' \subseteq dMissed \cup dLow
<1> USE DEF dHardware, dHistory
<1>1. ASSUME NEW ends, Misses(a, ends)
      PROVE  dMissed' \subseteq dMissed \cup dLow
  BY <1>1 DEF Misses
<1>2. CASE LookFinds(a)
  BY <1>1, <1>2 DEF LookFinds
<1>3. CASE LookDiffers(a)
  BY <1>3 DEF LookDiffers
<1>4. CASE WindowOff(a)
  BY <1>4 DEF WindowOff
<1>5. CASE WindowOn(a)
  BY <1>1, <1>5 DEF WindowOn
<1>6. ASSUME NEW key \in {"main", "second"}, WriteKey(a, key)
      PROVE  /\ dDown' \subseteq dDown \cup {dAct[a].node}
             /\ dRaced' \subseteq dRaced \cup ({dAct[a].node} \X {"main", "second"})
             /\ dFailed' \subseteq dFailed \cup ({dAct[a].node} \X {"main", "second"})
             /\ dMissed' \subseteq dMissed \cup dLow
  <2>1. dMissed' \subseteq dMissed \cup dLow
    BY <1>1, <1>6 DEF WriteKey
  <2>2. Key(a, key) \in {dAct[a].node} \X {"main", "second"}
    BY DEF Key
  <2>3. dRaced' \subseteq dRaced \cup {Key(a, key)} /\ dFailed' \subseteq dFailed /\ dDown' = dDown
    BY <1>6 DEF WriteKey
  <2> QED
    BY <2>1, <2>2, <2>3
<1>7. ASSUME NEW key \in {"main", "second"}, WriteDropped(a, key)
      PROVE  /\ dDown' \subseteq dDown \cup {dAct[a].node}
             /\ dRaced' \subseteq dRaced \cup ({dAct[a].node} \X {"main", "second"})
             /\ dFailed' \subseteq dFailed \cup ({dAct[a].node} \X {"main", "second"})
             /\ dMissed' \subseteq dMissed \cup dLow
  <2>1. dMissed' \subseteq dMissed \cup dLow
    BY <1>1, <1>7 DEF WriteDropped
  <2>2. Key(a, key) \in {dAct[a].node} \X {"main", "second"}
    BY DEF Key
  <2>3. dRaced' = dRaced /\ dFailed' \subseteq dFailed \cup {Key(a, key)} /\ dDown' = dDown
    BY <1>7 DEF WriteDropped
  <2> QED
    BY <2>1, <2>2, <2>3
<1>8. ASSUME WriteErrs(a)
      PROVE  /\ dDown' = dDown /\ dRaced' = dRaced /\ dMissed' = dMissed
             /\ dFailed' \subseteq dFailed \cup ({dAct[a].node} \X {"main", "second"})
  BY <1>8 DEF WriteErrs
<1>9. CASE ReadBack(a)
  BY <1>1, <1>8, <1>9 DEF ReadBack
<1>10. CASE WriteFailed(a)
  BY <1>8, <1>10 DEF WriteFailed
<1> QED
  BY <1>2, <1>3, <1>4, <1>5, <1>6, <1>7, <1>9, <1>10 DEF MacWrite

(* An actor that is put where it fits leaves the others alone. *)
LEMMA PutPlaced ==
    ASSUME MacInv, MacPlaced, NEW a \in DActors, NEW to, NEW n, NEW list, NEW step,
           dAct' = [dAct EXCEPT ![a] = Act(to, n, list, step)],
           to # "write" => step = 0 /\ (to \notin {"check", "tick"} => n = 0)
    PROVE  MacPlaced'
<1>1. \A b \in DActors : dAct'[b] = IF b = a THEN Act(to, n, list, step) ELSE dAct[b]
  BY DEF MacInv, MacShape
<1> QED
  BY <1>1 DEF MacPlaced, Act

(* Every action puts the one that moves where it fits. *)
LEMMA MacPlacedStep == MacTyped /\ [MacNext]_dVars => MacPlaced'
<1> SUFFICES ASSUME MacTyped, [MacNext]_dVars PROVE MacPlaced'
  OBVIOUS
<1> USE DEF MacTyped
<1>1. CASE MacLoopBegins
  <2>1. DLoop \in DActors
    BY DEF DActors
  <2>2. PICK n, list : Using(list, n)
    BY <1>1 DEF MacLoopBegins
  <2>3. PICK to \in {"tick", "check"} : dAct' = [dAct EXCEPT ![DLoop] = Act(to, n, list, 0)]
    BY <2>2 DEF Using
  <2> QED
    BY <2>1, <2>3, PutPlaced
<1>2. CASE MacLoopEnds
  <2>1. DLoop \in DActors
    BY DEF DActors
  <2>2. dAct' = [dAct EXCEPT ![DLoop] = Act("done", 0, {}, 0)]
    BY <1>2 DEF MacLoopEnds, Resting
  <2> QED
    BY <2>1, <2>2, PutPlaced
<1>3. CASE MacLoopTicks
  <2>1. DLoop \in DActors
    BY DEF DActors
  <2>2. PICK n, list : Using(list, n)
    BY <1>3 DEF MacLoopTicks
  <2>3. PICK to \in {"tick", "check"} : dAct' = [dAct EXCEPT ![DLoop] = Act(to, n, list, 0)]
    BY <2>2 DEF Using
  <2> QED
    BY <2>1, <2>3, PutPlaced
<1>4. CASE MacCheckLeaves
  <2>1. DLoop \in DActors
    BY DEF DActors
  <2>2. dAct' = [dAct EXCEPT ![DLoop] = Act("tick", dAct[DLoop].node, dAct[DLoop].list, 0)]
    BY <1>4 DEF MacCheckLeaves
  <2> QED
    BY <2>1, <2>2, PutPlaced
<1>5. CASE MacCheckIdles
  <2>1. DLoop \in DActors
    BY DEF DActors
  <2>2. dAct' = [dAct EXCEPT ![DLoop] = Act("tick", dAct[DLoop].node, dAct[DLoop].list, 0)]
    BY <1>5 DEF MacCheckIdles
  <2> QED
    BY <2>1, <2>2, PutPlaced
<1>6. ASSUME NEW r \in MacReadings, MacCheckDecides(r)
      PROVE  MacPlaced'
  <2>1. DLoop \in DActors
    BY DEF DActors
  <2>2. dAct' = [dAct EXCEPT ![DLoop] = Act("write", dAct[DLoop].node, dAct[DLoop].list, 1)]
    BY <1>6 DEF MacCheckDecides
  <2> QED
    BY <2>1, <2>2, PutPlaced
<1>7. ASSUME NEW a \in DActors, MacWrite(a)
      PROVE  MacPlaced'
  <2>1. PICK to \in {"tick", "stop", "write"} : \E n, list, step : MacWent(a, to, n, list, step)
    BY <1>7, WriteOutcome
  <2>2. PICK n, list, step : MacWent(a, to, n, list, step)
    BY <2>1
  <2> QED
    BY <2>2, PutPlaced DEF MacWent
<1>8. ASSUME NEW h \in DHandlers, NEW on \in BOOLEAN, MacApplyBatctl(h, on)
      PROVE  MacPlaced'
  <2>1. h \in DActors
    BY DEF DActors
  <2>2. PICK to \in {"start", "release"} : dAct' = [dAct EXCEPT ![h] = Resting(to)]
    BY <1>8 DEF MacApplyBatctl
  <2>3. dAct' = [dAct EXCEPT ![h] = Act(to, 0, {}, 0)]
    BY <2>2 DEF Resting
  <2> QED
    BY <2>1, <2>3, PutPlaced
<1>9. ASSUME NEW h \in DHandlers, MacStart(h)
      PROVE  MacPlaced'
  <2>1. \A b \in DActors : dAct'[b] = dAct[b] \/ dAct'[b] = Resting("idle") \/ dAct'[b] = Resting("begin")
    BY <1>9 DEF MacStart, MacInv, MacShape
  <2> QED
    BY <2>1 DEF MacPlaced, Resting, Act
<1>10. ASSUME NEW h \in DHandlers, MacReleases(h)
      PROVE  MacPlaced'
  <2>1. h \in DActors
    BY DEF DActors
  <2>2. CASE dPresent = {}
    <3>1. dAct' = [dAct EXCEPT ![h] = Act("stop", 0, {}, 0)]
      BY <1>10, <2>2 DEF MacReleases, Resting
    <3> QED
      BY <2>1, <3>1, PutPlaced
  <2>3. CASE dPresent # {}
    <3>1. dAct' = [dAct EXCEPT ![h] = Act("write", Min(dPresent), dPresent, 1)]
      BY <1>10, <2>3 DEF MacReleases
    <3> QED
      BY <2>1, <3>1, PutPlaced
  <2> QED
    BY <2>2, <2>3
<1>11. ASSUME NEW h \in DHandlers, MacStopLoop(h)
      PROVE  MacPlaced'
  <2>1. h \in DActors
    BY DEF DActors
  <2>2. PICK to \in {"idle", "wait"} : dAct' = [dAct EXCEPT ![h] = Resting(to)]
    BY <1>11 DEF MacStopLoop
  <2>3. dAct' = [dAct EXCEPT ![h] = Act(to, 0, {}, 0)]
    BY <2>2 DEF Resting
  <2> QED
    BY <2>1, <2>3, PutPlaced
<1>12. ASSUME NEW h \in DHandlers, MacStopReturns(h)
      PROVE  MacPlaced'
  <2>1. \A b \in DActors : dAct'[b] = dAct[b] \/ dAct'[b] = Resting("idle") \/ dAct'[b] = Resting("none")
    BY <1>12 DEF MacStopReturns, MacInv, MacShape
  <2> QED
    BY <2>1 DEF MacPlaced, Resting, Act
<1>13. ASSUME NEW n \in DNodes, MacShift(n)
      PROVE  MacPlaced'
  BY <1>13 DEF MacShift, MacPlaced
<1>14. ASSUME NEW on \in BOOLEAN, MacCrash(on)
      PROVE  MacPlaced'
  <2>1. \A b \in DActors : \E to \in {"idle", "begin", "none"} : dAct'[b] = Resting(to)
    BY <1>14 DEF MacCrash
  <2> QED
    BY <2>1 DEF MacPlaced, Resting, Act
<1>15. CASE UNCHANGED dVars
  BY <1>15 DEF dVars, MacPlaced
<1> QED
  BY <1>1, <1>2, <1>3, <1>4, <1>5, <1>6, <1>7, <1>8, <1>9, <1>10, <1>11, <1>12, <1>13, <1>14,
     <1>15
     DEF MacNext, MacLoop, MacHook, DActors

(* The loop counts failures until it takes the next backend. *)
LEMMA MacJudgedStep == MacTyped /\ [MacNext]_dVars => MacJudged'
<1> SUFFICES ASSUME MacTyped, [MacNext]_dVars PROVE MacJudged'
  OBVIOUS
<1> USE DEF MacTyped
<1>1. CASE MacLoopBegins
  <2>1. /\ DLoop \in DActors /\ MacLooping /\ DNodes \subseteq Nat \ {0}
        /\ dAct \in [DActors -> [pc: MacPcs, node: Nat, list: SUBSET DNodes, step: Nat]]
    BY MacBounds DEF DActors, MacInv, MacShape
  <2>2. dAct'[DLoop] = Act(IF DFirst(dPresent) = 0 THEN "tick" ELSE "check", DFirst(dPresent), dPresent, 0)
    BY <1>1, <2>1 DEF MacLoopBegins, Using
  <2>3. /\ dFails \in 0..DReprobe /\ dIneff \in 0..DStrikes /\ DReprobe \in Nat \ {0} /\ DStrikes \in Nat \ {0}
    BY MacAssumption DEF MacJudged
  <2> QED
    BY <1>1, <2>1, <2>2, <2>3
       DEF MacLoopBegins, MacLoopAt, MacJudged, MacLooping, dLoopState, Act, Resting
<1>2. CASE MacLoopEnds
  <2>1. /\ DLoop \in DActors /\ MacLooping /\ DNodes \subseteq Nat \ {0}
        /\ dAct \in [DActors -> [pc: MacPcs, node: Nat, list: SUBSET DNodes, step: Nat]]
    BY MacBounds DEF DActors, MacInv, MacShape
  <2>2. dAct'[DLoop] = Resting("done")
    BY <1>2, <2>1 DEF MacLoopEnds
  <2>3. /\ dFails \in 0..DReprobe /\ dIneff \in 0..DStrikes /\ DReprobe \in Nat \ {0} /\ DStrikes \in Nat \ {0}
    BY MacAssumption DEF MacJudged
  <2> QED
    BY <1>2, <2>1, <2>2, <2>3
       DEF MacLoopEnds, MacLoopAt, MacJudged, MacLooping, dLoopState, Act, Resting
<1>3. CASE MacLoopTicks
  <2>1. /\ DLoop \in DActors /\ MacLooping /\ DNodes \subseteq Nat \ {0}
        /\ dAct \in [DActors -> [pc: MacPcs, node: Nat, list: SUBSET DNodes, step: Nat]]
    BY MacBounds DEF DActors, MacInv, MacShape
  <2>2. /\ dFails \in 0..DReprobe /\ dIneff \in 0..DStrikes /\ DReprobe \in Nat \ {0} /\ DStrikes \in Nat \ {0}
        /\ dAct[DLoop].pc = "tick" /\ (dAct[DLoop].node = 0 => dFails = 0 /\ dIneff = 0)
    BY <1>3, MacAssumption DEF MacJudged, MacLoopTicks, MacLoopAt
  <2>3. CASE dAct[DLoop].node = 0
    <3>1. Using(dPresent, DFirst(dPresent)) /\ dFails' = 0 /\ dIneff' = 0
      BY <1>3, <2>2, <2>3 DEF MacLoopTicks
    <3>2. dAct'[DLoop] = Act(IF DFirst(dPresent) = 0 THEN "tick" ELSE "check", DFirst(dPresent), dPresent, 0)
      BY <2>1, <3>1 DEF Using
    <3> QED
      BY <2>2, <3>1, <3>2 DEF MacJudged, Act
  <2>4. CASE dAct[DLoop].node # 0
    <3>1. PICK n, list : /\ Using(list, n)
                         /\ n = dAct[DLoop].node \/ (Later(DLoop) # {} /\ n = Min(Later(DLoop)))
      BY <1>3, <2>4 DEF MacLoopTicks
    <3>2. n # 0
      <4>1. Later(DLoop) \subseteq DNodes
        BY <2>1 DEF Later
      <4>2. CASE n = dAct[DLoop].node
        BY <2>4, <4>2
      <4>3. CASE Later(DLoop) # {} /\ n = Min(Later(DLoop))
        BY <2>1, <4>1, <4>3, MinOf
      <4> QED
        BY <3>1, <4>2, <4>3
    <3>3. dAct'[DLoop] = Act("check", n, list, 0)
      BY <2>1, <3>1, <3>2 DEF Using
    <3>4. dFails' < DReprobe /\ dIneff' < DStrikes /\ dFails' \in Nat /\ dIneff' \in Nat
      <4>1. CASE dFails >= DReprobe \/ dIneff >= DStrikes
        <5>1. dFails' = 0 /\ dIneff' = 0
          BY <1>3, <2>4, <4>1 DEF MacLoopTicks
        <5> QED
          BY <2>2, <5>1
      <4>2. CASE ~ (dFails >= DReprobe \/ dIneff >= DStrikes)
        <5>1. dFails' = dFails /\ dIneff' = dIneff
          BY <1>3, <2>4, <4>2 DEF MacLoopTicks
        <5> QED
          BY <2>2, <4>2, <5>1
      <4> QED
        BY <4>1, <4>2
    <3> QED
      BY <2>2, <3>3, <3>4 DEF MacJudged, Act
  <2> QED
    BY <2>3, <2>4
<1>4. CASE MacCheckLeaves
  <2>1. /\ DLoop \in DActors /\ MacLooping /\ DNodes \subseteq Nat \ {0}
        /\ dAct \in [DActors -> [pc: MacPcs, node: Nat, list: SUBSET DNodes, step: Nat]]
    BY MacBounds DEF DActors, MacInv, MacShape
  <2>2. dAct'[DLoop] = Act("tick", dAct[DLoop].node, dAct[DLoop].list, 0)
    BY <1>4, <2>1 DEF MacCheckLeaves
  <2>3. /\ dFails \in 0..DReprobe /\ dIneff \in 0..DStrikes /\ DReprobe \in Nat \ {0} /\ DStrikes \in Nat \ {0}
    BY MacAssumption DEF MacJudged
  <2> QED
    BY <1>4, <2>1, <2>2, <2>3
       DEF MacCheckLeaves, MacLoopAt, MacJudged, MacLooping, dLoopState, Act, Resting
<1>5. CASE MacCheckIdles
  <2>1. /\ DLoop \in DActors /\ MacLooping /\ DNodes \subseteq Nat \ {0}
        /\ dAct \in [DActors -> [pc: MacPcs, node: Nat, list: SUBSET DNodes, step: Nat]]
    BY MacBounds DEF DActors, MacInv, MacShape
  <2>2. dAct'[DLoop] = Act("tick", dAct[DLoop].node, dAct[DLoop].list, 0)
    BY <1>5, <2>1 DEF MacCheckIdles
  <2>3. /\ dFails \in 0..DReprobe /\ dIneff \in 0..DStrikes /\ DReprobe \in Nat \ {0} /\ DStrikes \in Nat \ {0}
    BY MacAssumption DEF MacJudged
  <2> QED
    BY <1>5, <2>1, <2>2, <2>3
       DEF MacCheckIdles, MacLoopAt, MacJudged, MacLooping, dLoopState, Act, Resting
<1>6. ASSUME NEW r \in MacReadings, MacCheckDecides(r)
      PROVE  MacJudged'
  <2>1. /\ DLoop \in DActors /\ MacLooping /\ DNodes \subseteq Nat \ {0}
        /\ dAct \in [DActors -> [pc: MacPcs, node: Nat, list: SUBSET DNodes, step: Nat]]
    BY MacBounds DEF DActors, MacInv, MacShape
  <2>2. dAct'[DLoop] = Act("write", dAct[DLoop].node, dAct[DLoop].list, 1)
    BY <1>6, <2>1 DEF MacCheckDecides
  <2>3. /\ dFails \in 0..DReprobe /\ dIneff \in 0..DStrikes /\ DReprobe \in Nat \ {0} /\ DStrikes \in Nat \ {0}
    BY MacAssumption DEF MacJudged
  <2> QED
    BY <1>6, <2>1, <2>2, <2>3
       DEF MacCheckDecides, MacLoopAt, MacJudged, MacLooping, dLoopState, Act, Resting
<1>7. ASSUME NEW a \in DActors, MacWrite(a)
      PROVE  MacJudged'
  <2>1. /\ DLoop \in DActors /\ MacLooping /\ DNodes \subseteq Nat \ {0}
        /\ dAct \in [DActors -> [pc: MacPcs, node: Nat, list: SUBSET DNodes, step: Nat]]
    BY MacBounds DEF DActors, MacInv, MacShape
  <2>0. PICK to \in {"tick", "stop", "write"} : \E n, list, step : MacWent(a, to, n, list, step)
    BY <1>7, WriteOutcome
  <2>2. PICK n, list, step : MacWent(a, to, n, list, step)
    BY <2>0
  <2>3. dAct[a].pc = "write"
    BY <1>7, WriteOutcome
  <2>4. CASE a = DLoop
    <3>1. dAct'[DLoop] = Act(to, n, list, step) /\ n = dAct[DLoop].node /\ n \in DNodes /\ to # "stop"
      BY <2>1, <2>2, <2>3, <2>4 DEF MacWent, MacInv, MacShape, MacWriting
    <3>2. /\ dFails \in 0..DReprobe /\ dIneff \in 0..DStrikes /\ DReprobe \in Nat \ {0} /\ DStrikes \in Nat \ {0}
          /\ dFails < DReprobe /\ dIneff < DStrikes
      BY <2>3, <2>4, MacAssumption DEF MacJudged
    <3>3. dFails' \in {0, dFails, dFails + 1} /\ dIneff' \in {0, dIneff, dIneff + 1}
      BY <2>2 DEF MacWent
    <3>4. to = "write" => dFails' = dFails /\ dIneff' = dIneff
      BY <2>2, <2>4 DEF MacWent
    <3> QED
      BY <2>1, <3>1, <3>2, <3>3, <3>4 DEF MacJudged, Act
  <2>5. CASE a # DLoop
    <3>1. dAct'[DLoop] = dAct[DLoop] /\ dFails' = dFails /\ dIneff' = dIneff
      BY <2>1, <2>2, <2>5 DEF MacWent
    <3> QED
      BY <3>1 DEF MacJudged
  <2> QED
    BY <2>4, <2>5
<1>8. ASSUME NEW h \in DHandlers, NEW on \in BOOLEAN, MacApplyBatctl(h, on)
      PROVE  MacJudged'
  <2>1. /\ DLoop \in DActors /\ MacLooping /\ DNodes \subseteq Nat \ {0}
        /\ dAct \in [DActors -> [pc: MacPcs, node: Nat, list: SUBSET DNodes, step: Nat]]
    BY MacBounds DEF DActors, MacInv, MacShape
  <2>2. h # DLoop
    BY MacAssumption
  <2>3. dAct'[DLoop] = dAct[DLoop] /\ dFails' = dFails /\ dIneff' = dIneff
    BY <1>8, <2>1, <2>2 DEF MacApplyBatctl, MacHookAt, dLoopState
  <2> QED
    BY <2>3 DEF MacJudged
<1>9. ASSUME NEW h \in DHandlers, MacStart(h)
      PROVE  MacJudged'
  <2>1. /\ DLoop \in DActors /\ MacLooping /\ DNodes \subseteq Nat \ {0}
        /\ dAct \in [DActors -> [pc: MacPcs, node: Nat, list: SUBSET DNodes, step: Nat]]
    BY MacBounds DEF DActors, MacInv, MacShape
  <2>2. dAct'[DLoop] = dAct[DLoop] \/ dAct'[DLoop] = Resting("begin")
    BY <1>9, <2>1, MacAssumption DEF MacStart
  <2>3. dFails' = dFails /\ dIneff' = dIneff
    BY <1>9 DEF MacStart, MacHookAt, dLoopState
  <2> QED
    BY <2>2, <2>3 DEF MacJudged, Resting, Act
<1>10. ASSUME NEW h \in DHandlers, MacReleases(h)
      PROVE  MacJudged'
  <2>1. /\ DLoop \in DActors /\ MacLooping /\ DNodes \subseteq Nat \ {0}
        /\ dAct \in [DActors -> [pc: MacPcs, node: Nat, list: SUBSET DNodes, step: Nat]]
    BY MacBounds DEF DActors, MacInv, MacShape
  <2>2. h # DLoop
    BY MacAssumption
  <2>3. dAct'[DLoop] = dAct[DLoop] /\ dFails' = dFails /\ dIneff' = dIneff
    BY <1>10, <2>1, <2>2 DEF MacReleases, MacHookAt, dLoopState
  <2> QED
    BY <2>3 DEF MacJudged
<1>11. ASSUME NEW h \in DHandlers, MacStopLoop(h)
      PROVE  MacJudged'
  <2>1. /\ DLoop \in DActors /\ MacLooping /\ DNodes \subseteq Nat \ {0}
        /\ dAct \in [DActors -> [pc: MacPcs, node: Nat, list: SUBSET DNodes, step: Nat]]
    BY MacBounds DEF DActors, MacInv, MacShape
  <2>2. h # DLoop
    BY MacAssumption
  <2>3. dAct'[DLoop] = dAct[DLoop] /\ dFails' = dFails /\ dIneff' = dIneff
    BY <1>11, <2>1, <2>2 DEF MacStopLoop, MacHookAt, dLoopState
  <2> QED
    BY <2>3 DEF MacJudged
<1>12. ASSUME NEW h \in DHandlers, MacStopReturns(h)
      PROVE  MacJudged'
  <2>1. /\ DLoop \in DActors /\ MacLooping /\ DNodes \subseteq Nat \ {0}
        /\ dAct \in [DActors -> [pc: MacPcs, node: Nat, list: SUBSET DNodes, step: Nat]]
    BY MacBounds DEF DActors, MacInv, MacShape
  <2>2. dAct'[DLoop] = dAct[DLoop] \/ dAct'[DLoop] = Resting("none")
    BY <1>12, <2>1, MacAssumption DEF MacStopReturns
  <2>3. dFails' = dFails /\ dIneff' = dIneff
    BY <1>12 DEF MacStopReturns, MacHookAt, dLoopState
  <2> QED
    BY <2>2, <2>3 DEF MacJudged, Resting, Act
<1>13. ASSUME NEW n \in DNodes, MacShift(n)
      PROVE  MacJudged'
  BY <1>13 DEF MacShift, MacJudged, dLoopState
<1>14. ASSUME NEW on \in BOOLEAN, MacCrash(on)
      PROVE  MacJudged'
  <2>1. dAct'[DLoop] = Resting("begin") \/ dAct'[DLoop] = Resting("none")
    BY <1>14 DEF MacCrash, DActors
  <2> QED
    BY <1>14, <2>1 DEF MacCrash, MacJudged, Resting, Act, dLoopState
<1>15. CASE UNCHANGED dVars
  BY <1>15 DEF dVars, dLoopState, MacJudged
<1> QED
  BY <1>1, <1>2, <1>3, <1>4, <1>5, <1>6, <1>7, <1>8, <1>9, <1>10, <1>11, <1>12, <1>13, <1>14,
     <1>15
     DEF MacNext, MacLoop, MacHook, DActors

(* The flags stay flags. *)
LEMMA MacFlaggedStep == MacTyped /\ [MacNext]_dVars => MacFlagged'
<1> SUFFICES ASSUME MacTyped, [MacNext]_dVars PROVE MacFlagged'
  OBVIOUS
<1> USE DEF MacTyped
<1>1. CASE MacLoopBegins
  BY <1>1 DEF MacLoopBegins, MacLoopAt, dHandles, dLoopState, MacFlagged
<1>2. CASE MacLoopEnds
  BY <1>2 DEF MacLoopEnds, MacLoopAt, dHandles, dLoopState, MacFlagged
<1>3. CASE MacLoopTicks
  BY <1>3 DEF MacLoopTicks, MacLoopAt, dHandles, dLoopState, MacFlagged
<1>4. CASE MacCheckLeaves
  BY <1>4 DEF MacCheckLeaves, MacLoopAt, dHandles, dLoopState, MacFlagged
<1>5. CASE MacCheckIdles
  BY <1>5 DEF MacCheckIdles, MacLoopAt, dHandles, dLoopState, MacFlagged
<1>6. ASSUME NEW r \in MacReadings, MacCheckDecides(r)
      PROVE  MacFlagged'
  <2>1. dLimit' \in BOOLEAN
    BY <1>6 DEF MacCheckDecides
  <2>2. dHot' \in BOOLEAN
    BY <1>6 DEF MacCheckDecides, MacReadings
  <2> QED
    BY <1>6, <2>1, <2>2 DEF MacCheckDecides, MacLoopAt, dHandles, MacFlagged
<1>7. ASSUME NEW a \in DActors, MacWrite(a)
      PROVE  MacFlagged'
  BY <1>7, WriteOutcome DEF dHandles, MacFlagged
<1>8. ASSUME NEW h \in DHandlers, NEW on \in BOOLEAN, MacApplyBatctl(h, on)
      PROVE  MacFlagged'
  BY <1>8 DEF MacApplyBatctl, MacHookAt, dHandles, dLoopState, MacFlagged
<1>9. ASSUME NEW h \in DHandlers, MacStart(h)
      PROVE  MacFlagged'
  BY <1>9 DEF MacStart, MacHookAt, dHandles, dLoopState, MacFlagged
<1>10. ASSUME NEW h \in DHandlers, MacReleases(h)
      PROVE  MacFlagged'
  BY <1>10 DEF MacReleases, MacHookAt, dHandles, dLoopState, MacFlagged
<1>11. ASSUME NEW h \in DHandlers, MacStopLoop(h)
      PROVE  MacFlagged'
  <2>1. dStop' \in BOOLEAN
    BY <1>11 DEF MacStopLoop
  <2>2. dLock' \in DHandlers \cup {DFree}
    BY <1>11 DEF MacStopLoop
  <2> QED
    BY <1>11, <2>1, <2>2 DEF MacStopLoop, MacHookAt, dLoopState, MacFlagged
<1>12. ASSUME NEW h \in DHandlers, MacStopReturns(h)
      PROVE  MacFlagged'
  BY <1>12 DEF MacStopReturns, MacHookAt, dHandles, dLoopState, MacFlagged
<1>13. ASSUME NEW n \in DNodes, MacShift(n)
      PROVE  MacFlagged'
  BY <1>13 DEF MacShift, dHandles, dLoopState, MacFlagged
<1>14. ASSUME NEW on \in BOOLEAN, MacCrash(on)
      PROVE  MacFlagged'
  BY <1>14 DEF MacCrash, dHandles, dLoopState, MacFlagged
<1>15. CASE UNCHANGED dVars
  BY <1>15 DEF dVars, dHandles, dLoopState, MacFlagged
<1> QED
  BY <1>1, <1>2, <1>3, <1>4, <1>5, <1>6, <1>7, <1>8, <1>9, <1>10, <1>11, <1>12, <1>13, <1>14,
     <1>15
     DEF MacNext, MacLoop, MacHook, DActors

(* What is noted is noted of the keys of a backend. *)
LEMMA MacNotedStep == MacTyped /\ [MacNext]_dVars => MacNoted'
<1> SUFFICES ASSUME MacTyped, [MacNext]_dVars PROVE MacNoted'
  OBVIOUS
<1> USE DEF MacTyped
<1>1. CASE MacLoopBegins
  <2>1. dPlan' = dPlan /\ dLow \subseteq DKeys
    BY <1>1 DEF MacLoopBegins, MacLoopAt, MacInv, MacShape, MacKeys
  <2>2. dMissed' \subseteq dMissed \cup dLow /\ UNCHANGED <<dDown, dRaced, dFailed>>
    BY <1>1 DEF MacLoopBegins, MacLoopAt, dHardware, dHistory
  <2> QED
    BY <2>1, <2>2 DEF MacNoted, DKeys, DNodes
<1>2. CASE MacLoopEnds
  <2>1. dPlan' = dPlan /\ dLow \subseteq DKeys
    BY <1>2 DEF MacLoopEnds, MacLoopAt, MacInv, MacShape, MacKeys
  <2>2. dMissed' \subseteq dMissed \cup dLow /\ UNCHANGED <<dDown, dRaced, dFailed>>
    BY <1>2 DEF MacLoopEnds, MacLoopAt, dHardware, dHistory
  <2> QED
    BY <2>1, <2>2 DEF MacNoted, DKeys, DNodes
<1>3. CASE MacLoopTicks
  <2>1. dPlan' = dPlan /\ dLow \subseteq DKeys
    BY <1>3 DEF MacLoopTicks, MacLoopAt, MacInv, MacShape, MacKeys
  <2>2. dMissed' \subseteq dMissed \cup dLow /\ UNCHANGED <<dDown, dRaced, dFailed>>
    BY <1>3 DEF MacLoopTicks, MacLoopAt, dHardware, dHistory
  <2> QED
    BY <2>1, <2>2 DEF MacNoted, DKeys, DNodes
<1>4. CASE MacCheckLeaves
  <2>1. dPlan' = dPlan /\ dLow \subseteq DKeys
    BY <1>4 DEF MacCheckLeaves, MacLoopAt, MacInv, MacShape, MacKeys
  <2>2. dMissed' \subseteq dMissed \cup dLow /\ UNCHANGED <<dDown, dRaced, dFailed>>
    BY <1>4 DEF MacCheckLeaves, MacLoopAt, dHardware, dHistory
  <2> QED
    BY <2>1, <2>2 DEF MacNoted, DKeys, DNodes
<1>5. CASE MacCheckIdles
  <2>1. dPlan' = dPlan /\ dLow \subseteq DKeys
    BY <1>5 DEF MacCheckIdles, MacLoopAt, MacInv, MacShape, MacKeys
  <2>2. dMissed' \subseteq dMissed \cup dLow /\ UNCHANGED <<dDown, dRaced, dFailed>>
    BY <1>5 DEF MacCheckIdles, MacLoopAt, dHardware, dHistory
  <2> QED
    BY <2>1, <2>2 DEF MacNoted, DKeys, DNodes
<1>6. ASSUME NEW r \in MacReadings, MacCheckDecides(r)
      PROVE  MacNoted'
  <2>1. dPlan' = dPlan /\ dLow \subseteq DKeys
    BY <1>6 DEF MacCheckDecides, MacLoopAt, MacInv, MacShape, MacKeys
  <2>2. dMissed' \subseteq dMissed \cup dLow /\ UNCHANGED <<dDown, dRaced, dFailed>>
    BY <1>6 DEF MacCheckDecides, MacLoopAt, dHardware, dHistory
  <2> QED
    BY <2>1, <2>2 DEF MacNoted, DKeys, DNodes
<1>7. ASSUME NEW a \in DActors, MacWrite(a)
      PROVE  MacNoted'
  <2>1. dPlan' = dPlan /\ dLow \subseteq DKeys /\ dAct[a].node \in DNodes
    BY <1>7, WriteOutcome DEF MacInv, MacShape, MacKeys, MacWriting
  <2>2. {dAct[a].node} \X {"main", "second"} \subseteq DKeys
    BY <2>1 DEF DKeys
  <2>3. DNodes' = DNodes /\ DKeys' = DKeys
    BY <2>1 DEF DKeys, DNodes
  <2> QED
    BY <1>7, <2>1, <2>2, <2>3, WriteNotes DEF MacNoted
<1>8. ASSUME NEW h \in DHandlers, NEW on \in BOOLEAN, MacApplyBatctl(h, on)
      PROVE  MacNoted'
  <2>1. dPlan' = dPlan /\ dLow \subseteq DKeys
    BY <1>8 DEF MacApplyBatctl, MacHookAt, MacInv, MacShape, MacKeys
  <2>2. dMissed' \subseteq dMissed \cup dLow /\ UNCHANGED <<dDown, dRaced, dFailed>>
    BY <1>8 DEF MacApplyBatctl, MacHookAt, dHardware, dHistory
  <2> QED
    BY <2>1, <2>2 DEF MacNoted, DKeys, DNodes
<1>9. ASSUME NEW h \in DHandlers, MacStart(h)
      PROVE  MacNoted'
  <2>1. dPlan' = dPlan /\ dLow \subseteq DKeys
    BY <1>9 DEF MacStart, MacHookAt, MacInv, MacShape, MacKeys
  <2>2. dMissed' \subseteq dMissed \cup dLow /\ UNCHANGED <<dDown, dRaced, dFailed>>
    BY <1>9 DEF MacStart, MacHookAt, dHardware, dHistory
  <2> QED
    BY <2>1, <2>2 DEF MacNoted, DKeys, DNodes
<1>10. ASSUME NEW h \in DHandlers, MacReleases(h)
      PROVE  MacNoted'
  <2>1. dPlan' = dPlan /\ dLow \subseteq DKeys
    BY <1>10 DEF MacReleases, MacHookAt, MacInv, MacShape, MacKeys
  <2>2. dMissed' \subseteq dMissed \cup dLow /\ UNCHANGED <<dDown, dRaced, dFailed>>
    BY <1>10 DEF MacReleases, MacHookAt, dHardware, dHistory
  <2> QED
    BY <2>1, <2>2 DEF MacNoted, DKeys, DNodes
<1>11. ASSUME NEW h \in DHandlers, MacStopLoop(h)
      PROVE  MacNoted'
  <2>1. dPlan' = dPlan /\ dLow \subseteq DKeys
    BY <1>11 DEF MacStopLoop, MacHookAt, MacInv, MacShape, MacKeys
  <2>2. dMissed' \subseteq dMissed \cup dLow /\ UNCHANGED <<dDown, dRaced, dFailed>>
    BY <1>11 DEF MacStopLoop, MacHookAt, dHardware, dHistory
  <2> QED
    BY <2>1, <2>2 DEF MacNoted, DKeys, DNodes
<1>12. ASSUME NEW h \in DHandlers, MacStopReturns(h)
      PROVE  MacNoted'
  <2>1. dPlan' = dPlan /\ dLow \subseteq DKeys
    BY <1>12 DEF MacStopReturns, MacHookAt, MacInv, MacShape, MacKeys
  <2>2. dMissed' \subseteq dMissed \cup dLow /\ UNCHANGED <<dDown, dRaced, dFailed>>
    BY <1>12 DEF MacStopReturns, MacHookAt, dHardware, dHistory
  <2> QED
    BY <2>1, <2>2 DEF MacNoted, DKeys, DNodes
<1>13. ASSUME NEW n \in DNodes, MacShift(n)
      PROVE  MacNoted'
  <2>1. dPlan' = dPlan /\ dLow \subseteq DKeys
    BY <1>13 DEF MacShift, MacInv, MacShape, MacKeys
  <2>2. dMissed' \subseteq dMissed \cup dLow /\ UNCHANGED <<dDown, dRaced, dFailed>>
    BY <1>13 DEF MacShift, dHardware, dHistory
  <2> QED
    BY <2>1, <2>2 DEF MacNoted, DKeys, DNodes
<1>14. ASSUME NEW on \in BOOLEAN, MacCrash(on)
      PROVE  MacNoted'
  <2>1. dPlan' = dPlan /\ dLow \subseteq DKeys
    BY <1>14 DEF MacCrash, MacInv, MacShape, MacKeys
  <2>2. dMissed' \subseteq dMissed \cup dLow /\ UNCHANGED <<dDown, dRaced, dFailed>>
    BY <1>14 DEF MacCrash, dHardware, dHistory
  <2> QED
    BY <2>1, <2>2 DEF MacNoted, DKeys, DNodes
<1>15. CASE UNCHANGED dVars
  <2>1. dPlan' = dPlan /\ dLow \subseteq DKeys
    BY <1>15 DEF dVars, MacInv, MacShape, MacKeys
  <2>2. dMissed' \subseteq dMissed \cup dLow /\ UNCHANGED <<dDown, dRaced, dFailed>>
    BY <1>15 DEF dVars, dHardware, dHistory
  <2> QED
    BY <2>1, <2>2 DEF MacNoted, DKeys, DNodes
<1> QED
  BY <1>1, <1>2, <1>3, <1>4, <1>5, <1>6, <1>7, <1>8, <1>9, <1>10, <1>11, <1>12, <1>13, <1>14,
     <1>15
     DEF MacNext, MacLoop, MacHook, DActors

(* Every action counts within the bounds of the behaviour. *)
LEMMA MacCountedStep == MacTyped /\ [MacNext]_dVars => MacCounted'
<1> SUFFICES ASSUME MacTyped, [MacNext]_dVars PROVE MacCounted'
  OBVIOUS
<1> USE DEF MacTyped
<1>1. CASE MacLoopBegins
  BY <1>1, DCountOf DEF MacLoopBegins, MacLoopAt
<1>2. CASE MacLoopEnds
  BY <1>2, DCountOf DEF MacLoopEnds, MacLoopAt
<1>3. CASE MacLoopTicks
  BY <1>3, DCountOf DEF MacLoopTicks, MacLoopAt
<1>4. CASE MacCheckLeaves
  BY <1>4, DCountOf DEF MacCheckLeaves, MacLoopAt
<1>5. CASE MacCheckIdles
  BY <1>5, DCountOf DEF MacCheckIdles, MacLoopAt
<1>6. ASSUME NEW r \in MacReadings, MacCheckDecides(r)
      PROVE  MacCounted'
  BY <1>6, DCountOf DEF MacCheckDecides, MacLoopAt
<1>7. ASSUME NEW a \in DActors, MacWrite(a)
      PROVE  MacCounted'
  <2>1. DCount("faults") \/ UNCHANGED dCounts
    BY <1>7 DEF MacWrite, LookFinds, LookDiffers, WindowOff, WindowOn, WriteKey, WriteDropped,
       ReadBack, WriteFailed
  <2> QED
    BY <1>7, <2>1, WriteOutcome, DCountOf
<1>8. ASSUME NEW h \in DHandlers, NEW on \in BOOLEAN, MacApplyBatctl(h, on)
      PROVE  MacCounted'
  BY <1>8, DCountOf DEF MacApplyBatctl, MacHookAt
<1>9. ASSUME NEW h \in DHandlers, MacStart(h)
      PROVE  MacCounted'
  BY <1>9, DCountOf DEF MacStart, MacHookAt
<1>10. ASSUME NEW h \in DHandlers, MacReleases(h)
      PROVE  MacCounted'
  BY <1>10, DCountOf DEF MacReleases, MacHookAt
<1>11. ASSUME NEW h \in DHandlers, MacStopLoop(h)
      PROVE  MacCounted'
  BY <1>11, DCountOf DEF MacStopLoop, MacHookAt
<1>12. ASSUME NEW h \in DHandlers, MacStopReturns(h)
      PROVE  MacCounted'
  BY <1>12, DCountOf DEF MacStopReturns, MacHookAt
<1>13. ASSUME NEW n \in DNodes, MacShift(n)
      PROVE  MacCounted'
  BY <1>13, DCountOf DEF MacShift
<1>14. ASSUME NEW on \in BOOLEAN, MacCrash(on)
      PROVE  MacCounted'
  BY <1>14, DCountOf DEF MacCrash
<1>15. CASE UNCHANGED dVars
  BY <1>15, DCountOf DEF dVars
<1> QED
  BY <1>1, <1>2, <1>3, <1>4, <1>5, <1>6, <1>7, <1>8, <1>9, <1>10, <1>11, <1>12, <1>13, <1>14,
     <1>15
     DEF MacNext, MacLoop, MacHook, DActors

(* The variables of the charge control of a Mac keep to their values. *)
LEMMA MacTypedAlways == MacSpec => []MacTyped
<1>1. MacInit => MacPlaced /\ MacJudged /\ MacFlagged /\ MacNoted /\ MacCounted
  <2> SUFFICES ASSUME MacInit PROVE MacPlaced /\ MacJudged /\ MacFlagged /\ MacNoted /\ MacCounted
    OBVIOUS
  <2>1. \A a \in DActors : \E to \in {"none", "begin", "idle"} : dAct[a] = Resting(to)
    BY DEF MacInit
  <2>2. dAct[DLoop] = Resting("none") \/ dAct[DLoop] = Resting("begin")
    BY DEF MacInit, DActors
  <2>3. MacPlaced
    BY <2>1 DEF MacPlaced, Resting, Act
  <2>4. MacJudged
    BY <2>2, MacAssumption DEF MacInit, MacJudged, Resting, Act
  <2>5. MacFlagged /\ MacNoted
    BY DEF MacInit, MacFlagged, MacNoted
  <2>6. /\ dPlan.faults \in Nat /\ dPlan.toggles \in Nat /\ dPlan.shifts \in Nat /\ dPlan.crashes \in Nat
    BY MacAssumption DEF MacInit
  <2>7. MacCounted
    BY <2>6 DEF MacInit, MacCounted
  <2> QED
    BY <2>3, <2>4, <2>5, <2>7
<1>2. MacTyped /\ MacInv' /\ [MacNext]_dVars => MacTyped'
  BY MacPlacedStep, MacJudgedStep, MacFlaggedStep, MacNotedStep, MacCountedStep DEF MacTyped
<1> QED
  BY <1>1, <1>2, MacInvAlways, PTL DEF MacSpec, MacTyped

(* The parts together are the types. *)
LEMMA MacTypeFromTyped == MacTyped => MacTypeOK
<1> SUFFICES ASSUME MacTyped PROVE MacTypeOK
  OBVIOUS
<1>1. MacInv /\ MacShape /\ MacPlaced /\ MacLooping /\ MacWriting /\ Len(dPlan.modes) \in Nat
  BY MacBounds DEF MacTyped, MacInv, MacShape
<1>2. ASSUME NEW a \in DActors
      PROVE  dAct[a].node \in 0..Len(dPlan.modes) /\ dAct[a].step \in 0..4
  <2>1. CASE dAct[a].pc = "write"
    <3>1. dAct[a].node \in DNodes /\ dAct[a].step \in 1..4
      BY <1>1, <2>1, InWrite DEF KnownSteps
    <3> QED
      BY <1>1, <3>1 DEF DNodes
  <2>2. CASE dAct[a].pc \in {"check", "tick"}
    <3>1. a = DLoop
      BY <1>1, <2>2 DEF DActors, MacLooping
    <3>2. dAct[a].node \in DNodes \cup {0} /\ dAct[a].step = 0
      BY <1>1, <2>2, <3>1 DEF MacLooping, MacPlaced
    <3> QED
      BY <1>1, <3>2 DEF DNodes
  <2>3. CASE dAct[a].pc \notin {"write", "check", "tick"}
    BY <1>1, <2>3 DEF MacPlaced
  <2> QED
    BY <2>1, <2>2, <2>3
<1>3. dAct \in [DActors -> [pc: MacPcs, node: 0..Len(dPlan.modes), list: SUBSET DNodes, step: 0..4]]
  BY <1>1, <1>2 DEF MacShape
<1>4. dPlan \in DPlans /\ dPresent \subseteq DNodes /\ dLow \subseteq DKeys
  BY <1>1 DEF MacShape, MacKeys
<1> QED
  BY <1>3, <1>4 DEF MacTyped, MacTypeOK, MacPcs, MacJudged, MacFlagged, MacNoted, MacCounted


-----------------------------------------------------------------------------
(* A behaviour of the settings and the charge control together is one of   *)
(* each of them.                                                           *)
LEMMA LiveParts == LiveSpec => Spec /\ ChargeSpec /\ MacSpec
<1>1. LiveInit => Init /\ ChargeInit /\ MacInit
  BY DEF LiveInit
<1>2. [LiveNext]_liveVars => [Next]_vars /\ [ChargeNext]_gVars /\ [MacNext]_dVars
  <2> SUFFICES ASSUME [LiveNext]_liveVars
               PROVE  [Next]_vars /\ [ChargeNext]_gVars /\ [MacNext]_dVars
    OBVIOUS
  <2>1. CASE Next /\ UNCHANGED <<part, gVars, dVars>>
    BY <2>1
  <2>2. CASE ChargeNext /\ UNCHANGED <<part, vars, dVars>>
    BY <2>2
  <2>3. CASE MacNext /\ UNCHANGED <<part, vars, gVars>>
    BY <2>3
  <2>4. CASE UNCHANGED liveVars
    BY <2>4 DEF liveVars
  <2> QED
    BY <2>1, <2>2, <2>3, <2>4 DEF LiveNext
<1> QED
  BY <1>1, <1>2, PTL DEF LiveSpec, Spec, ChargeSpec, MacSpec

(* The variables of the settings and of both charge controls keep to their *)
(* values, whichever moves.                                                *)
THEOREM LiveTypeTheorem == LiveSpec => []LiveTypeOK
BY LiveParts, SettingsTypeTheorem, ChargeTypes, MacTypedAlways, MacTypeFromTyped, PTL
   DEF LiveTypeOK
=============================================================================
