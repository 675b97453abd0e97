----------------------------- MODULE LiveConfig -----------------------------
(***************************************************************************)
(* The settings of the bridge: flags, the live snapshot the backends read, *)
(* the file config.json, PATCH /api/config and the start of the process    *)
(* (fedbridge/multi_source_config.go, multi_source_config_http.go,         *)
(* mscfg_extra.go, chargectl.go and fbprotocols/chargectl).                *)
(*                                                                         *)
(* Two flags stand for all: "batctl", whose hook starts and stops the      *)
(* charge control, and "interval", read at use time.  The two settings     *)
(* without a flag are the pair "pause" and "resume", verified together.    *)
(* Nothing serialises the handlers of concurrent PATCHes.  Values are      *)
(* integers; a flag's value outside Parsable[f] does not parse.            *)
(***************************************************************************)
EXTENDS Integers, FiniteSets

CONSTANTS
    Handlers,       \* goroutines that handle a PATCH
    Patches,        \* the bodies clients send: functions from names to values
    Parsable,       \* Parsable[f]: the values flag f accepts
    Default,        \* Default[n]: the built-in value of n
    Env,            \* settings given on the command line or as FEDLET_*
    MaxPatches,     \* bounds of the model: PATCHes received,
    MaxRestarts     \* and restarts

Flags == {"batctl", "interval"}
Extras == {"pause", "resume"}
Names == Flags \cup Extras

(* The partial assignments of values to names. *)
IsSettings(f) == DOMAIN f \subseteq Names /\ f \in [DOMAIN f -> Int]
None == [n \in {} |-> 0]

(* f overlaid with g. *)
Overlay(f, g) ==
    [n \in DOMAIN f \cup DOMAIN g |-> IF n \in DOMAIN g THEN g[n] ELSE f[n]]

(* ValidateWindow. *)
ValidWindow(w) ==
    /\ w["pause"] \in 1..100
    /\ w["resume"] \in 0..100
    /\ w["resume"] < w["pause"]

ASSUME ParsableAssumption ==
    Parsable \in [Flags -> SUBSET Int] /\ Parsable["batctl"] = {0, 1}
ASSUME DefaultAssumption ==
    /\ Default \in [Names -> Int]
    /\ \A f \in Flags : Default[f] \in Parsable[f]
    /\ ValidWindow(Default)
ASSUME PatchesAssumption == \A p \in Patches : IsSettings(p) /\ p # None
ASSUME EnvAssumption ==
    IsSettings(Env) /\ \A f \in Flags \cap DOMAIN Env : Env[f] \in Parsable[f]
ASSUME BoundsAssumption == MaxPatches \in Nat /\ MaxRestarts \in Nat

VARIABLES
    flagVal,        \* flag.CommandLine: what GET /api/config shows for flags
    live,           \* liveCfg
    thresholds,     \* the window of the charge control
    loop,           \* is the charge control running?
    file,           \* config.json
    torn,           \* config.json is not valid JSON
    pc,             \* where each handler is
    body,           \* the PATCH it handles
    todo,           \* the flags its loop still visits
    trial,          \* the flag it tries a value on
    old,            \* the value that flag had
    invalid,        \* it met a value that does not parse
    copy,           \* its copy of the settings, or of the file
    patches,        \* number of PATCHes received
    restarts,       \* number of restarts
    alone,          \* history: no other PATCH ran at the same time
    before,         \* history: the settings when the PATCH came
    agreed,         \* history: values that passed the checks of a PATCH
    clean           \* history: PATCHes ran one at a time and none failed to persist

conf == <<flagVal, live, thresholds, loop>>
stored == <<file, torn>>
local == <<body, todo, trial, old, invalid, copy>>
counts == <<patches, restarts>>
history == <<alone, before, agreed, clean>>
vars == <<flagVal, live, thresholds, loop, file, torn, pc, body, todo, trial, old,
          invalid, copy, patches, restarts, alone, before, agreed, clean>>

PCs == {"idle", "validate", "set", "restore", "flags", "store", "hooks",
        "snapshot", "apply", "read", "truncate", "fill", "ok", "rejected", "failed"}
Answers == {"ok", "rejected", "failed"}

TypeOK ==
    /\ flagVal \in [Flags -> Int]
    /\ live \in [Names -> Int]
    /\ thresholds \in [Extras -> Int]
    /\ loop \in BOOLEAN
    /\ IsSettings(file)
    /\ \A f \in Flags \cap DOMAIN file : file[f] \in Parsable[f]
    /\ torn \in BOOLEAN
    /\ pc \in [Handlers -> PCs]
    /\ body \in [Handlers -> Patches \cup {None}]
    /\ todo \in [Handlers -> SUBSET Flags]
    /\ trial \in [Handlers -> Flags]
    /\ old \in [Handlers -> Int]
    /\ invalid \in [Handlers -> BOOLEAN]
    /\ DOMAIN copy = Handlers /\ \A h \in Handlers : IsSettings(copy[h])
    /\ patches \in 0..MaxPatches
    /\ restarts \in 0..MaxRestarts
    /\ alone \in [Handlers -> BOOLEAN]
    /\ \A a \in agreed : a \in Names \X Int
    /\ clean \in BOOLEAN

-----------------------------------------------------------------------------
(* The start of the process. *)

(* The sources of settings: Env wins over the file, broken files are empty. *)
Sources == Overlay(IF torn THEN None ELSE file, Env)

(* Mutant: the pair read at the start is not verified. *)
Mut_BootPair(s) == Overlay([n \in Extras |-> Default[n]], [n \in DOMAIN s \cap Extras |-> s[n]])

(* Both settings of the pair are ignored when they do not fit together. *)
BootPair(s) ==
    LET dft == [n \in Extras |-> Default[n]]
        pair == Overlay(dft, [n \in DOMAIN s \cap Extras |-> s[n]])
    IN  IF ValidWindow(pair) THEN pair ELSE dft

BootFlags(s) == [f \in Flags |-> IF f \in DOMAIN s THEN s[f] ELSE Default[f]]

(* loadMultiSourceConfig, seedFromFlags, StartFn of the charge control. *)
Boot(s) ==
    /\ flagVal' = BootFlags(s)
    /\ live' = Overlay(BootFlags(s), BootPair(s))
    /\ thresholds' = IF ValidWindow(BootPair(s)) THEN BootPair(s)
                     ELSE [n \in Extras |-> Default[n]]
    /\ loop' = (BootFlags(s)["batctl"] = 1)

(* The first start, before there is a config.json. *)
Init ==
    /\ file = None /\ torn = FALSE
    /\ flagVal = BootFlags(Env)
    /\ live = Overlay(BootFlags(Env), BootPair(Env))
    /\ thresholds = BootPair(Env)
    /\ loop = (BootFlags(Env)["batctl"] = 1)
    /\ pc = [h \in Handlers |-> "idle"]
    /\ body = [h \in Handlers |-> None]
    /\ todo = [h \in Handlers |-> {}]
    /\ trial = [h \in Handlers |-> "batctl"]
    /\ old = [h \in Handlers |-> 0]
    /\ invalid = [h \in Handlers |-> FALSE]
    /\ copy = [h \in Handlers |-> None]
    /\ alone = [h \in Handlers |-> FALSE]
    /\ before = [h \in Handlers |-> live]
    /\ patches = 0 /\ restarts = 0
    /\ agreed = {}
    /\ clean = TRUE

(* The process ends at any moment and starts again. *)
Restart ==
    /\ restarts < MaxRestarts
    /\ restarts' = restarts + 1
    /\ Boot(Sources)
    /\ pc' = [h \in Handlers |-> "idle"]
    /\ body' = [h \in Handlers |-> None]
    /\ todo' = [h \in Handlers |-> {}]
    /\ trial' = [h \in Handlers |-> "batctl"]
    /\ old' = [h \in Handlers |-> 0]
    /\ invalid' = [h \in Handlers |-> FALSE]
    /\ copy' = [h \in Handlers |-> None]
    /\ alone' = [h \in Handlers |-> FALSE]
    /\ before' = [h \in Handlers |-> live']
    /\ UNCHANGED <<stored, patches, agreed>>
    /\ clean' = (clean /\ \A h \in Handlers : pc[h] \in Answers \cup {"idle"})

-----------------------------------------------------------------------------
Goto(h, from, to) == pc[h] = from /\ pc' = [pc EXCEPT ![h] = to]

Busy(h) == pc[h] \notin Answers \cup {"idle"}

(* A PATCH arrives; its flags are tried one after the other. *)
Receive(h, p) ==
    /\ patches < MaxPatches
    /\ patches' = patches + 1
    /\ pc[h] \in Answers \cup {"idle"}
    /\ pc' = [pc EXCEPT ![h] = "validate"]
    /\ body' = [body EXCEPT ![h] = p]
    /\ todo' = [todo EXCEPT ![h] = Flags \cap DOMAIN p]
    /\ invalid' = [invalid EXCEPT ![h] = FALSE]
    /\ alone' = [i \in Handlers |-> i = h /\ \A j \in Handlers \ {h} : ~Busy(j)]
    /\ before' = [before EXCEPT ![h] = live]
    /\ clean' = (clean /\ \A j \in Handlers \ {h} : ~Busy(j))
    /\ UNCHANGED <<conf, stored, trial, old, copy, restarts, agreed>>

(* mscfgValidateValue: remember the flag's value, *)
TryRead(h, f) ==
    /\ Goto(h, "validate", "set")
    /\ f \in todo[h]
    /\ todo' = [todo EXCEPT ![h] = @ \ {f}]
    /\ trial' = [trial EXCEPT ![h] = f]
    /\ old' = [old EXCEPT ![h] = flagVal[f]]
    /\ UNCHANGED <<conf, stored, body, invalid, copy, counts, history>>

(* set the new one (the flag package assigns the zero value when the text  *)
(* does not parse, and returns the error), *)
TrySet(h) ==
    LET f == trial[h]
        v == body[h][f]
    IN  /\ pc[h] = "set"
        /\ IF v \in Parsable[f]
           THEN /\ flagVal' = [flagVal EXCEPT ![f] = v]
                /\ Goto(h, "set", "restore")
                /\ UNCHANGED invalid
           ELSE /\ flagVal' = [flagVal EXCEPT ![f] = 0]
                /\ Goto(h, "set", "validate")
                /\ invalid' = [invalid EXCEPT ![h] = TRUE]
        /\ UNCHANGED <<live, thresholds, loop, stored, body, todo, trial, old, copy,
                       counts, history>>

(* and put the old one back. *)
TryRestore(h) ==
    /\ Goto(h, "restore", "validate")
    /\ flagVal' = [flagVal EXCEPT ![trial[h]] = old[h]]
    /\ UNCHANGED <<live, thresholds, loop, stored, local, counts, history>>

(* The extra settings of a PATCH fit the live ones; no extras always fit. *)
ExtrasFit(h) ==
    DOMAIN body[h] \cap Extras = {} \/ ValidWindow(Overlay(live, body[h]))

(* One value that does not parse, or a pair that does not fit: 400. *)
Reject(h) ==
    /\ todo[h] = {}
    /\ invalid[h] \/ ~ExtrasFit(h)
    /\ Goto(h, "validate", "rejected")
    /\ UNCHANGED <<conf, stored, local, counts, history>>

(* Mutant: only a pair that does not fit rejects the PATCH. *)
Mut_Accept(h) ==
    /\ todo[h] = {}
    /\ ExtrasFit(h)
    /\ Goto(h, "validate", "flags")
    /\ todo' = [todo EXCEPT ![h] = Flags \cap DOMAIN body[h]]
    /\ agreed' = IF invalid[h] THEN agreed
                 ELSE agreed \cup {<<n, body[h][n]>> : n \in DOMAIN body[h]}
    /\ UNCHANGED <<conf, stored, body, trial, old, invalid, copy, counts, alone, before, clean>>

Accept(h) ==
    /\ todo[h] = {}
    /\ ~invalid[h] /\ ExtrasFit(h)
    /\ Goto(h, "validate", "flags")
    /\ todo' = [todo EXCEPT ![h] = Flags \cap DOMAIN body[h]]
    /\ agreed' = agreed \cup {<<n, body[h][n]>> : n \in DOMAIN body[h]}
    /\ UNCHANGED <<conf, stored, body, trial, old, invalid, copy, counts, alone, before, clean>>

-----------------------------------------------------------------------------
(* applyLive. *)

SetFlag(h, f) ==
    /\ pc[h] = "flags" /\ f \in todo[h]
    /\ todo' = [todo EXCEPT ![h] = @ \ {f}]
    /\ flagVal' = [flagVal EXCEPT ![f] = IF body[h][f] \in Parsable[f] THEN body[h][f] ELSE 0]
    /\ UNCHANGED <<live, thresholds, loop, stored, pc, body, trial, old, invalid, copy,
                   counts, history>>

LoadLive(h) ==
    /\ todo[h] = {}
    /\ Goto(h, "flags", "store")
    /\ copy' = [copy EXCEPT ![h] = live]
    /\ UNCHANGED <<conf, stored, body, todo, trial, old, invalid, counts, history>>

(* Mutant: the snapshot is replaced, not extended, by the changes. *)
Mut_StoreLive(h) ==
    /\ Goto(h, "store", "hooks")
    /\ live' = Overlay(Default, body[h])
    /\ copy' = [copy EXCEPT ![h] = live']
    /\ UNCHANGED <<flagVal, thresholds, loop, stored, body, todo, trial, old, invalid,
                   counts, history>>

StoreLive(h) ==
    /\ Goto(h, "store", "hooks")
    /\ live' = Overlay(copy[h], body[h])
    /\ copy' = [copy EXCEPT ![h] = live']
    /\ UNCHANGED <<flagVal, thresholds, loop, stored, body, todo, trial, old, invalid,
                   counts, history>>

(* applyBatctl, with the values this handler stored. *)
RunHooks(h) ==
    /\ Goto(h, "hooks", "snapshot")
    /\ loop' = IF "batctl" \in DOMAIN body[h] THEN copy[h]["batctl"] = 1 ELSE loop
    /\ UNCHANGED <<flagVal, live, thresholds, stored, local, counts, history>>

-----------------------------------------------------------------------------
(* mscfgExtraSnapshot, mscfgExtraApply: SetThresholds refuses a bad pair. *)

TakeSnapshot(h) ==
    /\ Goto(h, "snapshot", "apply")
    /\ copy' = [copy EXCEPT ![h] = Overlay(live, body[h])]
    /\ UNCHANGED <<conf, stored, body, todo, trial, old, invalid, counts, history>>

(* Mutant: the pair was verified before and is not verified again. *)
Mut_ApplyExtras(h) ==
    /\ Goto(h, "apply", "read")
    /\ thresholds' = [n \in Extras |-> copy[h][n]]
    /\ UNCHANGED <<flagVal, live, loop, stored, local, counts, history>>

ApplyExtras(h) ==
    /\ Goto(h, "apply", "read")
    /\ thresholds' = IF ValidWindow(copy[h]) THEN [n \in Extras |-> copy[h][n]]
                     ELSE thresholds
    /\ UNCHANGED <<flagVal, live, loop, stored, local, counts, history>>

-----------------------------------------------------------------------------
(* persistMultiSourceConfig: read, merge, write; the write truncates first. *)

ReadFile(h) ==
    /\ Goto(h, "read", "truncate")
    /\ copy' = [copy EXCEPT ![h] = IF torn THEN None ELSE file]
    /\ UNCHANGED <<conf, stored, body, todo, trial, old, invalid, counts, history>>

(* The directory, the file or its text cannot be written: 500. *)
PersistFails(h) ==
    /\ Goto(h, "truncate", "failed") \/ Goto(h, "fill", "failed")
    /\ clean' = FALSE
    /\ UNCHANGED <<conf, stored, local, counts, alone, before, agreed>>

Truncate(h) ==
    /\ Goto(h, "truncate", "fill")
    /\ file' = None /\ torn' = TRUE
    /\ UNCHANGED <<conf, local, counts, history>>

(* Over the text of another writer the result may be a mix of both. *)
Fill(h) ==
    /\ Goto(h, "fill", "ok")
    /\ \/ file' = Overlay(copy[h], body[h]) /\ torn' = FALSE
       \/ ~torn /\ file' = None /\ torn' = TRUE
    /\ UNCHANGED <<conf, local, counts, history>>

-----------------------------------------------------------------------------
Try(h) == \E f \in Flags : TryRead(h, f)
Set(h) == \E f \in Flags : SetFlag(h, f)

Handle(h) ==
    \/ Try(h) \/ TrySet(h) \/ TryRestore(h) \/ Reject(h) \/ Accept(h)
    \/ Set(h) \/ LoadLive(h) \/ StoreLive(h) \/ RunHooks(h)
    \/ TakeSnapshot(h) \/ ApplyExtras(h)
    \/ ReadFile(h) \/ PersistFails(h) \/ Truncate(h) \/ Fill(h)

Next ==
    \/ Restart
    \/ \E h \in Handlers : Handle(h) \/ \E p \in Patches : Receive(h, p)

Spec == Init /\ [][Next]_vars

-----------------------------------------------------------------------------
(***************************************************************************)
(* The charge control never runs with a window without hysteresis, whatever*)
(* pair two concurrent PATCHes, each verified on its own, leave behind in  *)
(* the live settings.                                                      *)
(***************************************************************************)
WindowValid == ValidWindow(thresholds)

(***************************************************************************)
(* No getter and no restart ever sees a value of a rejected PATCH: what is *)
(* live or stored is a default, comes from Env, or passed the checks of    *)
(* some PATCH, although a rejected PATCH tries its values on the flags.    *)
(***************************************************************************)
FromSomewhere(n, v) ==
    v = Default[n] \/ (n \in DOMAIN Env /\ v = Env[n]) \/ <<n, v>> \in agreed

RejectedNotApplied ==
    /\ \A n \in Names : FromSomewhere(n, live[n])
    /\ \A n \in DOMAIN file : FromSomewhere(n, file[n])

(***************************************************************************)
(* A PATCH that meets no other takes effect as a whole or not at all: after*)
(* a 200 its values are live, shown and stored, its hook has run with them,*)
(* and nothing else changed; after a 400 nothing is live or stored.        *)
(***************************************************************************)
AloneIsAtomic ==
    \A h \in Handlers : alone[h] =>
        /\ pc[h] = "ok" =>
             /\ live = Overlay(before[h], body[h])
             /\ ~torn /\ \A n \in DOMAIN body[h] : n \in DOMAIN file /\ file[n] = body[h][n]
             /\ \A f \in Flags \cap DOMAIN body[h] : flagVal[f] = live[f]
             /\ "batctl" \in DOMAIN body[h] => loop = (live["batctl"] = 1)
             /\ DOMAIN body[h] \cap Extras # {} =>
                    thresholds = [n \in Extras |-> live[n]]
        /\ pc[h] = "rejected" => live = before[h]

(***************************************************************************)
(* A restart starts from settings that agree with each other; and when     *)
(* PATCHes came one at a time and all were stored, it brings back exactly  *)
(* the settings that were live, but for those Env fixes (the pair falls    *)
(* back to its default when Env fixes a half the stored one does not fit). *)
(***************************************************************************)
RestartKeeps ==
    [][Restart =>
        /\ flagVal' = [f \in Flags |-> live'[f]]
        /\ thresholds' = [n \in Extras |-> live'[n]]
        /\ loop' = (live'["batctl"] = 1)
        /\ clean' /\ DOMAIN Env \cap Extras = {} =>
             \A n \in Names : live'[n] = IF n \in DOMAIN Env THEN Env[n] ELSE live[n]]_vars

(***************************************************************************)
(* When no PATCH is being handled, GET /api/config shows for every flag the*)
(* value the getters read ("flag.Set keeps the display consistent").       *)
(***************************************************************************)
GetShowsLive ==
    (\A h \in Handlers : ~Busy(h)) => \A f \in Flags : flagVal[f] = live[f]
=============================================================================
