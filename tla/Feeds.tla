------------------------------- MODULE Feeds -------------------------------
(***************************************************************************)
(* The polling backends that publish what is new on a page (weibo,         *)
(* toutiao, coolapk, hongguo, xhs, zhihu, bilibili in fbprotocols): every  *)
(* round fetches a channel, publishes the entries without a mark, marks    *)
(* them, drops the marks older than 72 hours and saves the rest to a file  *)
(* that is read when the process starts.                                   *)
(*                                                                         *)
(* A mark is modelled by its age, in units of which Window make the 72     *)
(* hours; Window + 1 stands for every older age.  Rounds are short against *)
(* this unit: time passes between rounds.                                  *)
(***************************************************************************)
EXTENDS Integers

CONSTANTS
    Channels,       \* the channels of a backend that the model follows
    Items,          \* names of the entries of a channel
    Entries,        \* <<c, i>>: entry i can be on channel c
    Window,         \* dedupeExpiry
    Backends,       \* the backends, described by the operators below
    MaxCrashes      \* bound of the model: restarts of the process

ASSUME EntriesAssumption == Entries \subseteq Channels \X Items
ASSUME WindowAssumption == Window \in Nat
ASSUME MaxCrashesAssumption == MaxCrashes \in Nat

-----------------------------------------------------------------------------
(***************************************************************************)
(* What distinguishes the channels: whether the first sync is only marked, *)
(* not published; whether an entry needs a second request before it is     *)
(* published; whether a fetch may return only some of its pages; and the    *)
(* goroutine that polls it.                                                *)
(***************************************************************************)
Kind(seeds, detail, partial, loop) ==
    [seeds |-> seeds, detail |-> detail, partial |-> partial, loop |-> loop]

WeiboHot == Kind(FALSE, FALSE, FALSE, "main")
ToutiaoHot == Kind(FALSE, FALSE, FALSE, "main")
CoolapkHot == Kind(FALSE, FALSE, FALSE, "main")
CoolapkNews == Kind(FALSE, FALSE, FALSE, "main")
HongguoHot == Kind(FALSE, FALSE, FALSE, "main")
XhsHot == Kind(FALSE, FALSE, FALSE, "main")
XhsNotify == Kind(FALSE, FALSE, FALSE, "main")
XhsCollect == Kind(TRUE, FALSE, FALSE, "main")
ZhihuHot == Kind(FALSE, FALSE, FALSE, "main")
ZhihuNotify == Kind(TRUE, FALSE, FALSE, "main")
ZhihuDaily == Kind(TRUE, TRUE, FALSE, "main")
ZhihuCollection == Kind(TRUE, FALSE, FALSE, "main")
ZhihuHistory == Kind(TRUE, FALSE, FALSE, "main")
BiliHot == Kind(FALSE, FALSE, FALSE, "hotnotify")
BiliNotify == Kind(TRUE, FALSE, TRUE, "hotnotify")
BiliFeed == Kind(TRUE, FALSE, FALSE, "feed")
BiliFav == Kind(TRUE, FALSE, FALSE, "favhistory")
BiliHistory == Kind(TRUE, FALSE, FALSE, "favhistory")

(***************************************************************************)
(* A backend, of which the model follows some channels; Start runs all its *)
(* goroutines, whatever is followed.  Old marks are dropped on every tick   *)
(* of the loop, which saves as well; only when a round ends and saves; or  *)
(* just before an entry is looked up.                                      *)
(***************************************************************************)
Backend(kinds, prunes, loops) ==
    UNION {{[kind |-> k, prunes |-> prunes, loops |-> loops] : k \in [followed -> kinds]}
              : followed \in (SUBSET Channels) \ {{}}}

Weibo == Backend({WeiboHot}, "tick", {"main"})
Toutiao == Backend({ToutiaoHot}, "tick", {"main"})
Coolapk == Backend({CoolapkHot, CoolapkNews}, "tick", {"main"})
Hongguo == Backend({HongguoHot}, "lookup", {"main"})
Xhs == Backend({XhsHot, XhsNotify, XhsCollect}, "tick", {"main"})
Zhihu == Backend({ZhihuHot, ZhihuNotify, ZhihuDaily, ZhihuCollection, ZhihuHistory},
                 "tick", {"main"})
Bilibili == Backend({BiliHot, BiliNotify, BiliFeed, BiliFav, BiliHistory},
                    "round", {"hotnotify", "feed", "favhistory"})

Loops == {"main", "hotnotify", "feed", "favhistory"}

ASSUME BackendsAssumption ==
    \A b \in Backends :
        /\ DOMAIN b.kind \in (SUBSET Channels) \ {{}}
        /\ b.loops \subseteq Loops
        /\ \A c \in DOMAIN b.kind : b.kind[c].loop \in b.loops

-----------------------------------------------------------------------------
VARIABLES
    backend,        \* the backend that runs
    listed,         \* listed[c]: what a fetch of channel c returns
    memory,         \* memory[l]: the marks of goroutine l
    file,           \* the marks in the state file
    torn,           \* the state file is not valid JSON
    pc,             \* where each goroutine is
    channel,        \* the channel of its round
    todo,           \* the fetched entries it has not looked at
    crashes,        \* number of restarts
    handled,        \* history: time since an entry was published or seeded
    unsaved,        \* history: entries handled after the last save of their loop
    lost,           \* history: entries handled, but not saved, when a crash came
    old             \* history: entries seeded that have been there ever since

source == <<backend, listed>>
stored == <<file, torn>>
history == <<handled, unsaved, lost, old>>
vars == <<backend, listed, memory, file, torn, pc, channel, todo, crashes,
          handled, unsaved, lost, old>>

NoMark == -1
Ages == 0..(Window + 1)
Marks == Ages \cup {NoMark}
Unmarked == [c \in Channels |-> [i \in Items |-> NoMark]]

PCs == {"idle", "entries", "save", "fill"}

TypeOK ==
    /\ backend \in Backends
    /\ listed \in [Channels -> SUBSET Items]
    /\ memory \in [Loops -> [Channels -> [Items -> Marks]]]
    /\ file \in [Channels -> [Items -> Marks]]
    /\ torn \in BOOLEAN
    /\ pc \in [Loops -> PCs]
    /\ channel \in [Loops -> Channels]
    /\ todo \in [Loops -> SUBSET Items]
    /\ crashes \in 0..MaxCrashes
    /\ handled \in [Channels -> [Items -> Marks]]
    /\ unsaved \subseteq Entries
    /\ lost \subseteq Entries
    /\ old \subseteq Entries

On == DOMAIN backend.kind
LoopOf(c) == backend.kind[c].loop
Running == backend.loops
NoChannel == CHOOSE c \in Channels : TRUE

(* There is no state file before the first start. *)
Init ==
    /\ backend \in Backends
    /\ listed = [c \in Channels |-> {}]
    /\ memory = [l \in Loops |-> Unmarked]
    /\ file = Unmarked /\ torn = FALSE
    /\ pc = [l \in Loops |-> "idle"]
    /\ channel = [l \in Loops |-> NoChannel]
    /\ todo = [l \in Loops |-> {}]
    /\ crashes = 0
    /\ handled = Unmarked
    /\ unsaved = {}
    /\ lost = {}
    /\ old = {}

Goto(l, from, to) == pc[l] = from /\ pc' = [pc EXCEPT ![l] = to]

(* Mutant: the cutoff is not strict. *)
Mut_Expired(age) == age >= Window

Expired(age) == age > Window

(* pruneState. *)
Prune(marks) ==
    [c \in Channels |-> [i \in Items |-> IF Expired(marks[c][i]) THEN NoMark ELSE marks[c][i]]]

-----------------------------------------------------------------------------
(* The site: entries come and go. *)

Appear(c, i) ==
    /\ c \in On
    /\ i \notin listed[c]
    /\ listed' = [listed EXCEPT ![c] = @ \cup {i}]
    /\ UNCHANGED <<backend, memory, stored, pc, channel, todo, crashes, history>>

Vanish(c, i) ==
    /\ i \in listed[c]
    /\ listed' = [listed EXCEPT ![c] = @ \ {i}]
    /\ old' = old \ {<<c, i>>}
    /\ UNCHANGED <<backend, memory, stored, pc, channel, todo, crashes, handled, unsaved, lost>>

-----------------------------------------------------------------------------
(* A round. *)

(* A tick may hold the rounds of several channels before it saves. *)
Start(l, to) ==
    \/ Goto(l, "idle", to)
    \/ backend.prunes = "tick" /\ Goto(l, "save", to)

(* The fetch fails; only hongguo does not save then. *)
FetchFails(l, c) ==
    /\ LoopOf(c) = l
    /\ Start(l, IF backend.prunes = "lookup" THEN "idle" ELSE "save")
    /\ UNCHANGED <<source, memory, stored, channel, todo, crashes, history>>

(* What a fetch returns that does not fail. *)
Pages(c) == IF backend.kind[c].partial THEN SUBSET listed[c] ELSE {listed[c]}

FirstSync(l, c) ==
    backend.kind[c].seeds /\ \A i \in Items : memory[l][c][i] = NoMark

(* hongguo drops the old marks before every lookup. *)
Lookup(l) == IF backend.prunes = "lookup" THEN Prune(memory[l]) ELSE memory[l]
Known(l, i) == Lookup(l)[channel[l]][i] # NoMark

(* The entries of set s of channel c take their mark. *)
Marked(l, c, s) ==
    /\ memory' = [memory EXCEPT ![l] =
           [Lookup(l) EXCEPT ![c] = [i \in Items |-> IF i \in s THEN 0 ELSE @[i]]]]
    /\ handled' = [handled EXCEPT ![c] = [i \in Items |-> IF i \in s THEN 0 ELSE @[i]]]
    /\ unsaved' = unsaved \cup ({c} \X s)
    /\ lost' = lost \ ({c} \X s)

(* Mutant: the first sync returns without marking what is there. *)
Mut_Seed(l, c, s) ==
    /\ LoopOf(c) = l
    /\ FirstSync(l, c)
    /\ Start(l, "save")
    /\ UNCHANGED <<source, memory, stored, channel, todo, crashes, history>>

(* The first sync: what is there is marked and not published. *)
Seed(l, c, s) ==
    /\ LoopOf(c) = l
    /\ FirstSync(l, c)
    /\ Start(l, "save")
    /\ Marked(l, c, s)
    /\ old' = old \cup ({c} \X s)
    /\ UNCHANGED <<source, stored, channel, todo, crashes>>

Begin(l, c, s) ==
    /\ LoopOf(c) = l
    /\ ~FirstSync(l, c)
    /\ Start(l, "entries")
    /\ channel' = [channel EXCEPT ![l] = c]
    /\ todo' = [todo EXCEPT ![l] = s]
    /\ UNCHANGED <<source, memory, stored, crashes, history>>

(* The loop over the fetched entries comes to entry i. *)
Visit(l, i) ==
    /\ pc[l] = "entries"
    /\ i \in todo[l]
    /\ todo' = [todo EXCEPT ![l] = @ \ {i}]

Skip(l, i) ==
    /\ Visit(l, i)
    /\ Known(l, i)
    /\ memory' = [memory EXCEPT ![l] = Lookup(l)]
    /\ UNCHANGED <<source, stored, pc, channel, crashes, history>>

(* The entry is marked and published; an error of publish is only logged. *)
Publish(l, i) ==
    /\ Visit(l, i)
    /\ ~Known(l, i)
    /\ Marked(l, channel[l], {i})
    /\ UNCHANGED <<source, stored, pc, channel, crashes, old>>

(* Mutant: the entry is marked before the second request. *)
Mut_DetailFails(l, i) ==
    /\ Visit(l, i)
    /\ ~Known(l, i)
    /\ backend.kind[channel[l]].detail
    /\ memory' = [memory EXCEPT ![l][channel[l]][i] = 0]
    /\ UNCHANGED <<source, stored, pc, channel, crashes, history>>

(* The second request fails: the entry is left for the next round. *)
DetailFails(l, i) ==
    /\ Visit(l, i)
    /\ ~Known(l, i)
    /\ backend.kind[channel[l]].detail
    /\ UNCHANGED <<source, memory, stored, pc, channel, crashes, history>>

EndRound(l) ==
    /\ todo[l] = {}
    /\ Goto(l, "entries", "save")
    /\ channel' = [channel EXCEPT ![l] = NoChannel]
    /\ UNCHANGED <<source, memory, stored, todo, crashes, history>>

(* A tick without a round, or a round of a channel that is not followed. *)
IdleTick(l) ==
    /\ backend.prunes # "lookup"
    /\ l \in Running
    /\ Goto(l, "idle", "save")
    /\ UNCHANGED <<source, memory, stored, channel, todo, crashes, history>>

-----------------------------------------------------------------------------
(* pruneState and saveState. *)

PruneMemory(l) ==
    memory' = [memory EXCEPT ![l] = IF backend.prunes = "lookup" THEN @ ELSE Prune(@)]

Truncate(l) ==
    /\ Goto(l, "save", "fill")
    /\ PruneMemory(l)
    /\ file' = Unmarked /\ torn' = TRUE
    /\ UNCHANGED <<source, channel, todo, crashes, history>>

(* Over the text of another goroutine the result may be a mix of both. *)
Fill(l) ==
    /\ Goto(l, "fill", "idle")
    /\ \/ /\ file' = memory[l] /\ torn' = FALSE
          /\ unsaved' = {e \in unsaved : LoopOf(e[1]) # l}
       \/ ~torn /\ file' = Unmarked /\ torn' = TRUE /\ UNCHANGED unsaved
    /\ UNCHANGED <<source, memory, channel, todo, crashes, handled, lost, old>>

(* The directory or the file cannot be written; this is only logged. *)
SaveFails(l) ==
    /\ \/ Goto(l, "save", "idle") /\ PruneMemory(l) /\ UNCHANGED unsaved
       \/ /\ Goto(l, "fill", "idle") /\ UNCHANGED memory
          /\ unsaved' = unsaved \cup {e \in Entries : handled[e[1]][e[2]] # NoMark}
    /\ UNCHANGED <<source, stored, channel, todo, crashes, handled, lost, old>>

-----------------------------------------------------------------------------
(* Mutant: a broken file leaves the maps nil. *)
Mut_Loaded == IF torn THEN [c \in {} |-> 0] ELSE file

(* loadState: hongguo leaves out the old marks, a broken file is empty. *)
Loaded == IF torn THEN Unmarked ELSE IF backend.prunes = "lookup" THEN Prune(file) ELSE file

(* The process ends at any moment and starts again. *)
Crash ==
    /\ crashes < MaxCrashes
    /\ crashes' = crashes + 1
    /\ memory' = [l \in Loops |-> IF l \in Running THEN Loaded ELSE Unmarked]
    /\ pc' = [l \in Loops |-> "idle"]
    /\ channel' = [l \in Loops |-> NoChannel]
    /\ todo' = [l \in Loops |-> {}]
    /\ lost' = lost \cup unsaved \cup
               (IF torn THEN {e \in Entries : handled[e[1]][e[2]] # NoMark} ELSE {})
    /\ old' = old \ lost'
    /\ unsaved' = {}
    /\ UNCHANGED <<source, stored, handled>>

(* Time passes. *)
Older(marks) ==
    [c \in Channels |-> [i \in Items |->
        IF marks[c][i] \in 0..Window THEN marks[c][i] + 1 ELSE marks[c][i]]]

Tick ==
    /\ \A l \in Loops : pc[l] = "idle"
    /\ memory' = [l \in Loops |-> Older(memory[l])]
    /\ file' = Older(file)
    /\ handled' = Older(handled)
    /\ UNCHANGED <<source, torn, pc, channel, todo, crashes, unsaved, lost, old>>

-----------------------------------------------------------------------------
Entry(l) == \E i \in Items : Skip(l, i) \/ Publish(l, i) \/ DetailFails(l, i)
Sync(l, c, s) == Seed(l, c, s) \/ Begin(l, c, s)
Round(l) == \E c \in On : FetchFails(l, c) \/ \E s \in Pages(c) : Sync(l, c, s)
Save(l) == Truncate(l) \/ Fill(l) \/ SaveFails(l)
Work(l) == Entry(l) \/ EndRound(l) \/ Save(l)

Next ==
    \/ \E e \in Entries : Appear(e[1], e[2]) \/ Vanish(e[1], e[2])
    \/ \E l \in Loops : Round(l) \/ IdleTick(l) \/ Work(l)
    \/ Crash
    \/ Tick

(***************************************************************************)
(* A goroutine does not stop in the middle of a round, its timers fire     *)
(* again and again, and requests do not fail for ever.                     *)
(***************************************************************************)
Fairness ==
    /\ \A c \in Channels :
          /\ WF_vars(c \in On /\ Work(LoopOf(c)))
          /\ SF_vars(c \in On /\ Sync(LoopOf(c), c, listed[c]))
    /\ \A e \in Entries :
          SF_vars(e[1] \in On /\ channel[LoopOf(e[1])] = e[1] /\ Publish(LoopOf(e[1]), e[2]))

Spec == Init /\ [][Next]_vars /\ Fairness

-----------------------------------------------------------------------------
(***************************************************************************)
(* Within 72 hours an entry is published once, and not at all when it was  *)
(* only marked by the first sync: whatever fails, and whenever the process *)
(* ends.  The exception is an entry whose mark was not saved yet, or whose *)
(* file was being written, when the process ended; and, when goroutines    *)
(* with marks of their own share the file, any entry after a restart.      *)
(***************************************************************************)
Recent(e) == handled[e[1]][e[2]] \in 0..Window

PublishedOnce ==
    [][\A l \in Loops, i \in Items :
          Publish(l, i) /\ Recent(<<channel[l], i>>) =>
              <<channel[l], i>> \in lost \/ (Running # {l} /\ crashes > 0)]_vars

(***************************************************************************)
(* A mark is never a lie: an entry that carries one, in memory or in the   *)
(* file, was published or seeded, and not before the mark says.  So no     *)
(* entry is skipped for ever because a step after its mark failed.         *)
(***************************************************************************)
MarksAreHandled ==
    \A c \in Channels, i \in Items :
        LET Honest(age) == age # NoMark => handled[c][i] \in 0..age
        IN  Honest(file[c][i]) /\ \A l \in Loops : Honest(memory[l][c][i])

(***************************************************************************)
(* Every entry on a page was published or seeded.  It happens again and    *)
(* again, through failed fetches, failed writes and restarts.              *)
(***************************************************************************)
EntriesHandled ==
    \A c \in Channels, i \in Items : i \in listed[c] => handled[c][i] # NoMark

(***************************************************************************)
(* "The disk state survives restarts": an entry whose mark was saved, and  *)
(* is not 72 hours old, is not published again after a restart.            *)
(***************************************************************************)
SavedIsNotRepublished ==
    [][\A l \in Loops, i \in Items :
          Publish(l, i) /\ Recent(<<channel[l], i>>) => <<channel[l], i>> \in lost]_vars

(***************************************************************************)
(* "On first sync the existing favourites are seeded silently": what was   *)
(* there at the first sync, and never left, is not published as new.       *)
(***************************************************************************)
SeededStaysSilent ==
    [][\A l \in Loops, i \in Items : Publish(l, i) => <<channel[l], i>> \notin old]_vars
=============================================================================
