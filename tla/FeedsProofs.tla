---------------------------- MODULE FeedsProofs ----------------------------
(***************************************************************************)
(* Proofs about Feeds: for any channels, entries, window and backends, a   *)
(* mark tells the truth, and within the window an entry is published once, *)
(* with the two exceptions that PublishedOnce names.                       *)
(***************************************************************************)
EXTENDS Feeds, TLAPS

MarkMaps == [Channels -> [Items -> Marks]]

(* What a round works on is in reach of its goroutine. *)
Shape ==
    /\ \A c \in Channels : \A i \in listed[c] : <<c, i>> \in Entries
    /\ \A l \in Loops : \A i \in todo[l] :
          /\ <<channel[l], i>> \in Entries
          /\ channel[l] \in On
          /\ LoopOf(channel[l]) = l
    /\ \A c \in Channels, i \in Items : handled[c][i] # NoMark => <<c, i>> \in Entries

(* Only goroutines that poll a channel ever do anything. *)
Awake == \A l \in Loops : pc[l] # "idle" => l \in Running

(* An entry handled within the window has its mark in the memory of the    *)
(* goroutine that polls it, unless a crash came before the mark was saved. *)
Remembers ==
    \A c \in On, i \in Items :
        /\ Running = {LoopOf(c)} \/ crashes = 0
        /\ <<c, i>> \notin lost
        /\ handled[c][i] \in 0..Window
        => memory[LoopOf(c)][c][i] = handled[c][i]

(* And when one goroutine owns the file, the file has the mark too, from   *)
(* the save after it on.                                                   *)
Saved ==
    \A c \in On, i \in Items :
        /\ Running = {LoopOf(c)}
        /\ <<c, i>> \notin lost \cup unsaved
        /\ ~torn
        /\ handled[c][i] \in 0..Window
        => file[c][i] = handled[c][i]

IInv == TypeOK /\ Shape /\ Awake /\ MarksAreHandled /\ Remembers /\ Saved

-----------------------------------------------------------------------------
(* Marks weaker than others: some old ones are missing. *)
Weaker(new, marks) ==
    \A c \in Channels, i \in Items :
        /\ new[c][i] \in {NoMark, marks[c][i]}
        /\ marks[c][i] \in 0..Window => new[c][i] = marks[c][i]

(* Pruning keeps a map of marks one, and only removes marks. *)
LEMMA PruneWeaker ==
    ASSUME NEW marks \in MarkMaps
    PROVE  Prune(marks) \in MarkMaps /\ Weaker(Prune(marks), marks)
BY WindowAssumption DEF Prune, MarkMaps, Marks, Ages, NoMark, Weaker, Expired

(* A map of marks has no mark more than itself. *)
LEMMA SameWeaker ==
    ASSUME NEW marks \in MarkMaps
    PROVE  Weaker(marks, marks)
BY DEF Weaker

(* The map without marks is one, and marks nothing. *)
LEMMA UnmarkedType == Unmarked \in MarkMaps /\ \A c \in Channels, i \in Items : Unmarked[c][i] = NoMark
BY DEF Unmarked, MarkMaps, Marks

(* What a lookup sees is the memory without some old marks. *)
LEMMA LookupWeaker ==
    ASSUME TypeOK, NEW l \in Loops
    PROVE  Lookup(l) \in MarkMaps /\ Weaker(Lookup(l), memory[l])
<1>1. memory[l] \in MarkMaps
  BY DEF TypeOK, MarkMaps
<1> QED
  BY <1>1, PruneWeaker, SameWeaker DEF Lookup

(* What is loaded is the file without some old marks, unless it is broken. *)
LEMMA LoadedWeaker ==
    ASSUME TypeOK
    PROVE  /\ Loaded \in MarkMaps
           /\ ~torn => Weaker(Loaded, file)
           /\ torn => Loaded = Unmarked
<1>1. file \in MarkMaps
  BY DEF TypeOK, MarkMaps
<1> QED
  BY <1>1, PruneWeaker, SameWeaker, UnmarkedType DEF Loaded

(* Time adds one to each age that is within the window. *)
LEMMA OlderMarks ==
    ASSUME NEW marks \in MarkMaps
    PROVE  /\ Older(marks) \in MarkMaps
           /\ \A c \in Channels, i \in Items :
                 Older(marks)[c][i] =
                    IF marks[c][i] \in 0..Window THEN marks[c][i] + 1 ELSE marks[c][i]
<1>1. \A a \in Marks : a \in 0..Window => a + 1 \in Marks
  BY WindowAssumption DEF Marks, Ages
<1> QED
  BY <1>1 DEF Older, MarkMaps

(* The channels of the chosen backend are channels, and each belongs to one of its goroutines. *)
LEMMA OnChannels ==
    ASSUME TypeOK
    PROVE  /\ On \subseteq Channels
           /\ NoChannel \in Channels
           /\ \A c \in On : LoopOf(c) \in Running
           /\ Running \subseteq Loops
           /\ \A c \in On : LoopOf(c) \in Loops
<1>1. /\ DOMAIN backend.kind \in (SUBSET Channels) \ {{}}
      /\ backend.loops \subseteq Loops
      /\ \A c \in DOMAIN backend.kind : backend.kind[c].loop \in backend.loops
  BY BackendsAssumption DEF TypeOK
<1>2. Channels # {}
  BY <1>1
<1>3. NoChannel \in Channels
  BY <1>2 DEF NoChannel
<1> QED
  BY <1>1, <1>3 DEF On, LoopOf, Running

(* A page shows entries the site lists. *)
LEMMA PagesListed ==
    ASSUME NEW c \in On, NEW s \in Pages(c)
    PROVE  s \subseteq listed[c]
BY DEF Pages

(* The entries that take their mark, and the others. *)
LEMMA MarkedMemory ==
    ASSUME TypeOK, NEW l \in Loops, NEW c \in Channels, NEW s \in SUBSET Items,
           \A i \in s : <<c, i>> \in Entries,
           Marked(l, c, s)
    PROVE  /\ memory' \in [Loops -> MarkMaps]
           /\ handled' \in MarkMaps
           /\ unsaved' \subseteq Entries
           /\ lost' \subseteq Entries
           /\ \A k \in Loops \ {l} : memory'[k] = memory[k]
           /\ \A d \in Channels, i \in Items :
                 IF d = c /\ i \in s
                 THEN memory'[l][d][i] = 0 /\ handled'[d][i] = 0
                 ELSE memory'[l][d][i] = Lookup(l)[d][i] /\ handled'[d][i] = handled[d][i]
<1>1. Lookup(l) \in MarkMaps /\ handled \in MarkMaps
  BY LookupWeaker DEF TypeOK, MarkMaps
<1>2. 0 \in Marks
  BY WindowAssumption DEF Marks, Ages
<1> DEFINE marked(marks) == [marks EXCEPT ![c] = [i \in Items |-> IF i \in s THEN 0 ELSE @[i]]]
<1>3. ASSUME NEW marks \in MarkMaps
      PROVE  /\ marked(marks) \in MarkMaps
             /\ \A d \in Channels, i \in Items :
                   marked(marks)[d][i] = IF d = c /\ i \in s THEN 0 ELSE marks[d][i]
  BY <1>2, <1>3 DEF MarkMaps
<1>4. /\ memory' = [memory EXCEPT ![l] = marked(Lookup(l))]
      /\ handled' = marked(handled)
      /\ unsaved' = unsaved \cup ({c} \X s)
      /\ lost' = lost \ ({c} \X s)
  BY DEF Marked
<1> HIDE DEF marked
<1>5. memory \in [Loops -> MarkMaps] /\ unsaved \subseteq Entries /\ lost \subseteq Entries
  BY DEF TypeOK, MarkMaps
<1>6. /\ memory'[l] = marked(Lookup(l))
      /\ \A k \in Loops \ {l} : memory'[k] = memory[k]
      /\ memory' \in [Loops -> MarkMaps]
  BY <1>1, <1>3, <1>4, <1>5
<1> QED
  BY <1>1, <1>3, <1>4, <1>5, <1>6

-----------------------------------------------------------------------------
(* The initial values have their types. *)
LEMMA TypeInit == Init => TypeOK
<1> SUFFICES ASSUME Init PROVE TypeOK
  OBVIOUS
<1>1. NoChannel \in Channels
  BY BackendsAssumption DEF Init, NoChannel
<1>2. Unmarked \in [Channels -> [Items -> Marks]]
  BY UnmarkedType DEF MarkMaps
<1>3. /\ memory \in [Loops -> [Channels -> [Items -> Marks]]]
      /\ file \in [Channels -> [Items -> Marks]]
      /\ handled \in [Channels -> [Items -> Marks]]
  BY <1>2 DEF Init
<1>4. crashes \in 0..MaxCrashes
  BY MaxCrashesAssumption DEF Init
<1>5. /\ pc \in [Loops -> PCs] /\ channel \in [Loops -> Channels]
      /\ todo \in [Loops -> SUBSET Items] /\ listed \in [Channels -> SUBSET Items]
  BY <1>1 DEF Init, PCs
<1>6. torn \in BOOLEAN
  BY Zenon DEF Init
<1>7. /\ backend \in Backends /\ unsaved \subseteq Entries
      /\ lost \subseteq Entries /\ old \subseteq Entries
  BY DEF Init
<1> QED
  BY <1>3, <1>4, <1>5, <1>6, <1>7 DEF TypeOK

(* Each step keeps the types. *)
LEMMA TypeStep == TypeOK /\ Shape /\ [Next]_vars => TypeOK'
<1> SUFFICES ASSUME TypeOK, Shape, [Next]_vars PROVE TypeOK'
  OBVIOUS
<1> USE OnChannels
<1>1. CASE UNCHANGED vars
  BY <1>1 DEF vars, TypeOK
<1>2. ASSUME NEW e \in Entries, Appear(e[1], e[2]) \/ Vanish(e[1], e[2]) PROVE TypeOK'
  <2>1. e[1] \in Channels /\ e[2] \in Items
    BY EntriesAssumption
  <2>2. listed' \in [Channels -> SUBSET Items]
    <3>1. listed \in [Channels -> SUBSET Items]
      BY DEF TypeOK
    <3>2. CASE Appear(e[1], e[2])
      BY <2>1, <3>1, <3>2 DEF Appear
    <3>3. CASE Vanish(e[1], e[2])
      BY <2>1, <3>1, <3>3 DEF Vanish
    <3> QED
      BY <1>2, <3>2, <3>3
  <2>3. old' \subseteq Entries
    BY <1>2 DEF Appear, Vanish, TypeOK, history
  <2>4. UNCHANGED <<backend, memory, file, torn, pc, channel, todo, crashes, handled, unsaved, lost>>
    BY <1>2 DEF Appear, Vanish, stored, history
  <2>5. torn' = torn
    BY <2>4
  <2>6. torn' \in BOOLEAN
    BY <2>5, Zenon DEF TypeOK
  <2> QED
    BY <2>2, <2>3, <2>4, <2>6 DEF TypeOK
<1>3. ASSUME NEW l \in Loops, NEW c \in On, FetchFails(l, c) PROVE TypeOK'
  BY <1>3 DEF FetchFails, Start, Goto, TypeOK, PCs, source, stored, history
<1>4. ASSUME NEW l \in Loops, NEW c \in On, NEW s \in Pages(c), Seed(l, c, s) PROVE TypeOK'
  <2>1. s \subseteq listed[c] /\ s \in SUBSET Items /\ \A i \in s : <<c, i>> \in Entries
    BY PagesListed DEF TypeOK, Shape
  <2>2. Marked(l, c, s)
    BY <1>4 DEF Seed
  <2>3. /\ memory' \in [Loops -> MarkMaps] /\ handled' \in MarkMaps
        /\ unsaved' \subseteq Entries /\ lost' \subseteq Entries
    BY <2>1, <2>2, MarkedMemory
  <2>4. old' \subseteq Entries
    BY <1>4, <2>1 DEF Seed, TypeOK
  <2> QED
    BY <1>4, <2>3, <2>4 DEF Seed, Start, Goto, TypeOK, PCs, source, stored, MarkMaps
<1>5. ASSUME NEW l \in Loops, NEW c \in On, NEW s \in Pages(c), Begin(l, c, s) PROVE TypeOK'
  <2>1. s \in SUBSET Items
    BY PagesListed DEF TypeOK
  <2> QED
    BY <1>5, <2>1 DEF Begin, Start, Goto, TypeOK, PCs, source, stored, history
<1>6. ASSUME NEW l \in Loops, NEW i \in Items, Skip(l, i) PROVE TypeOK'
  <2>1. memory' \in [Loops -> MarkMaps]
    BY <1>6, LookupWeaker DEF Skip, TypeOK, MarkMaps
  <2> QED
    BY <1>6, <2>1 DEF Skip, Visit, TypeOK, source, stored, history, MarkMaps
<1>7. ASSUME NEW l \in Loops, NEW i \in Items, Publish(l, i) PROVE TypeOK'
  <2>1. i \in todo[l] /\ <<channel[l], i>> \in Entries /\ channel[l] \in Channels
    BY <1>7 DEF Publish, Visit, Shape, TypeOK
  <2>2. Marked(l, channel[l], {i})
    BY <1>7 DEF Publish
  <2>3. /\ memory' \in [Loops -> MarkMaps] /\ handled' \in MarkMaps
        /\ unsaved' \subseteq Entries /\ lost' \subseteq Entries
    BY <2>1, <2>2, MarkedMemory
  <2> QED
    BY <1>7, <2>3 DEF Publish, Visit, TypeOK, source, stored, MarkMaps
<1>8. ASSUME NEW l \in Loops, NEW i \in Items, DetailFails(l, i) PROVE TypeOK'
  BY <1>8 DEF DetailFails, Visit, TypeOK, source, stored, history
<1>9. ASSUME NEW l \in Loops, EndRound(l) \/ IdleTick(l) PROVE TypeOK'
  BY <1>9 DEF EndRound, IdleTick, Goto, TypeOK, PCs, source, stored, history
<1>10. ASSUME NEW l \in Loops, PruneMemory(l) PROVE memory' \in [Loops -> MarkMaps]
  BY <1>10, PruneWeaker DEF PruneMemory, TypeOK, MarkMaps
<1>11. ASSUME NEW l \in Loops, Truncate(l) PROVE TypeOK'
  <2>1. memory' \in [Loops -> MarkMaps] /\ file' \in MarkMaps
    BY <1>10, <1>11, UnmarkedType DEF Truncate
  <2> QED
    BY <1>11, <2>1 DEF Truncate, Goto, TypeOK, PCs, source, history, MarkMaps
<1>12. ASSUME NEW l \in Loops, Fill(l) PROVE TypeOK'
  <2>1. file' \in MarkMaps /\ unsaved' \subseteq Entries
    BY <1>12, UnmarkedType DEF Fill, TypeOK, MarkMaps
  <2>4. torn' \in BOOLEAN
    BY <1>12, Zenon DEF Fill
  <2>2. pc' \in [Loops -> PCs]
    BY <1>12 DEF Fill, Goto, TypeOK, PCs
  <2>3. UNCHANGED <<backend, listed, memory, channel, todo, crashes, handled, lost, old>>
    BY <1>12 DEF Fill, source
  <2> QED
    BY <2>1, <2>2, <2>3, <2>4 DEF TypeOK, MarkMaps
<1>13. ASSUME NEW l \in Loops, SaveFails(l) PROVE TypeOK'
  <2>1. memory' \in [Loops -> MarkMaps] /\ unsaved' \subseteq Entries
    BY <1>10, <1>13 DEF SaveFails, TypeOK, MarkMaps
  <2>2. pc' \in [Loops -> PCs]
    BY <1>13 DEF SaveFails, Goto, TypeOK, PCs
  <2> QED
    BY <1>13, <2>1, <2>2 DEF SaveFails, TypeOK, source, stored, MarkMaps
<1>14. CASE Crash
  <2>1. memory' \in [Loops -> MarkMaps]
    BY <1>14, LoadedWeaker, UnmarkedType DEF Crash
  <2>2. lost' \subseteq Entries
    BY <1>14 DEF Crash, TypeOK
  <2>3. old' \subseteq Entries /\ unsaved' \subseteq Entries
    BY <1>14 DEF Crash, TypeOK
  <2>4. crashes' \in 0..MaxCrashes
    BY <1>14, MaxCrashesAssumption DEF Crash, TypeOK
  <2>5. /\ pc' \in [Loops -> PCs] /\ channel' \in [Loops -> Channels]
        /\ todo' \in [Loops -> SUBSET Items]
    BY <1>14 DEF Crash, PCs
  <2> QED
    BY <1>14, <2>1, <2>2, <2>3, <2>4, <2>5 DEF Crash, TypeOK, source, stored, MarkMaps
<1>15. CASE Tick
  <2>1. file' \in MarkMaps /\ handled' \in MarkMaps /\ memory' \in [Loops -> MarkMaps]
    BY <1>15, OlderMarks DEF Tick, TypeOK, MarkMaps
  <2> QED
    BY <1>15, <2>1 DEF Tick, TypeOK, source, MarkMaps
<1> QED
  BY <1>1, <1>2, <1>3, <1>4, <1>5, <1>6, <1>7, <1>8, <1>9, <1>11, <1>12, <1>13, <1>14, <1>15
  DEF Next, Round, Sync, Entry, Save, Work

-----------------------------------------------------------------------------
(* Each step keeps the shape of a round. *)
LEMMA ShapeStep == TypeOK /\ Shape /\ [Next]_vars => Shape'
<1> SUFFICES ASSUME TypeOK, Shape, [Next]_vars PROVE Shape'
  OBVIOUS
<1> USE OnChannels DEF On, LoopOf
<1>1. CASE UNCHANGED vars
  BY <1>1 DEF vars, Shape
<1>2. ASSUME NEW e \in Entries, Appear(e[1], e[2]) \/ Vanish(e[1], e[2]) PROVE Shape'
  <2>1. e = <<e[1], e[2]>>
    BY EntriesAssumption
  <2>2. \A c \in Channels : \A i \in listed'[c] : <<c, i>> \in Entries
    <3>1. listed \in [Channels -> SUBSET Items]
      BY DEF TypeOK
    <3>2. CASE Appear(e[1], e[2])
      BY <2>1, <3>1, <3>2 DEF Appear, Shape
    <3>3. CASE Vanish(e[1], e[2])
      BY <2>1, <3>1, <3>3 DEF Vanish, Shape
    <3> QED
      BY <1>2, <3>2, <3>3
  <2>3. UNCHANGED <<backend, todo, channel, handled>>
    BY <1>2 DEF Appear, Vanish, history
  <2> QED
    BY <2>2, <2>3 DEF Shape
<1>3. ASSUME NEW l \in Loops, NEW c \in On,
             FetchFails(l, c) \/ IdleTick(l) \/ Truncate(l) \/ Fill(l) \/ SaveFails(l)
      PROVE  Shape'
  <2>1. UNCHANGED <<backend, listed, todo, channel, handled>>
    BY <1>3 DEF FetchFails, IdleTick, Truncate, Fill, SaveFails, source, history
  <2> QED
    BY <2>1 DEF Shape
<1>4. ASSUME NEW l \in Loops, NEW c \in On, NEW s \in SUBSET Items,
             \A i \in s : <<c, i>> \in Entries, Marked(l, c, s)
      PROVE  \A d \in Channels, i \in Items : handled'[d][i] # NoMark => <<d, i>> \in Entries
  BY <1>4, MarkedMemory DEF Shape
<1>5. ASSUME NEW l \in Loops, NEW c \in On, NEW s \in Pages(c), Seed(l, c, s) PROVE Shape'
  <2>1. s \in SUBSET Items /\ \A i \in s : <<c, i>> \in Entries
    BY PagesListed DEF TypeOK, Shape
  <2>2. \A d \in Channels, i \in Items : handled'[d][i] # NoMark => <<d, i>> \in Entries
    BY <1>4, <1>5, <2>1 DEF Seed
  <2>3. UNCHANGED <<backend, listed, todo, channel>>
    BY <1>5 DEF Seed, source
  <2> QED
    BY <2>2, <2>3 DEF Shape
<1>6. ASSUME NEW l \in Loops, NEW c \in On, NEW s \in Pages(c), Begin(l, c, s) PROVE Shape'
  <2>1. \A i \in s : <<c, i>> \in Entries
    BY PagesListed DEF Shape
  <2>2. \A k \in Loops : IF k = l THEN channel'[k] = c /\ todo'[k] = s
                                  ELSE channel'[k] = channel[k] /\ todo'[k] = todo[k]
    BY <1>6 DEF Begin, TypeOK
  <2>3. UNCHANGED <<backend, listed, handled>> /\ LoopOf(c) = l
    BY <1>6 DEF Begin, source, history
  <2> QED
    BY <2>1, <2>2, <2>3 DEF Shape
<1>7. ASSUME NEW l \in Loops, NEW i \in Items,
             Skip(l, i) \/ Publish(l, i) \/ DetailFails(l, i)
      PROVE  Shape'
  <2>1. /\ UNCHANGED <<backend, listed, channel>>
        /\ i \in todo[l]
        /\ \A k \in Loops : todo'[k] \subseteq todo[k]
    BY <1>7 DEF Skip, Publish, DetailFails, Visit, source, TypeOK
  <2>2. \A d \in Channels, j \in Items : handled'[d][j] # NoMark => <<d, j>> \in Entries
    <3>1. CASE Publish(l, i)
      <4>1. /\ channel[l] \in On /\ {i} \in SUBSET Items
            /\ \A j \in {i} : <<channel[l], j>> \in Entries
        BY <2>1 DEF Shape
      <4>2. Marked(l, channel[l], {i})
        BY <3>1 DEF Publish
      <4> QED
        BY <1>4, <4>1, <4>2
    <3>2. CASE Skip(l, i) \/ DetailFails(l, i)
      BY <3>2 DEF Skip, DetailFails, history, Shape
    <3> QED
      BY <1>7, <3>1, <3>2
  <2> QED
    BY <2>1, <2>2 DEF Shape
<1>8. ASSUME NEW l \in Loops, EndRound(l) PROVE Shape'
  <2>1. /\ UNCHANGED <<backend, listed, todo, handled>>
        /\ todo[l] = {}
        /\ \A k \in Loops \ {l} : channel'[k] = channel[k]
    BY <1>8 DEF EndRound, source, history, TypeOK
  <2> QED
    BY <2>1 DEF Shape
<1>9. CASE Crash
  <2>1. UNCHANGED <<backend, listed, handled>> /\ \A k \in Loops : todo'[k] = {}
    BY <1>9 DEF Crash, source
  <2> QED
    BY <2>1 DEF Shape
<1>10. CASE Tick
  <2>1. UNCHANGED <<backend, listed, channel, todo>> /\ handled' = Older(handled)
    BY <1>10 DEF Tick, source
  <2>2. \A c \in Channels, i \in Items : handled[c][i] = NoMark => handled'[c][i] = NoMark
    <3>1. handled \in MarkMaps
      BY DEF TypeOK, MarkMaps
    <3>2. NoMark \notin 0..Window
      BY WindowAssumption DEF NoMark
    <3> QED
      BY <2>1, <3>1, <3>2, OlderMarks
  <2>3. \A c \in Channels, i \in Items : handled'[c][i] # NoMark => handled[c][i] # NoMark
    BY <2>2
  <2> QED
    BY <2>1, <2>3 DEF Shape
<1>11. On # {}
  BY BackendsAssumption DEF TypeOK
<1> QED
  BY <1>1, <1>2, <1>3, <1>5, <1>6, <1>7, <1>8, <1>9, <1>10, <1>11
  DEF Next, Round, Sync, Entry, Save, Work

(* Each step keeps Awake: what a goroutine that sleeps has saved. *)
LEMMA AwakeStep == TypeOK /\ Awake /\ [Next]_vars => Awake'
<1> SUFFICES ASSUME TypeOK, Awake, [Next]_vars PROVE Awake'
  OBVIOUS
<1> USE OnChannels
<1>1. ASSUME NEW l \in Loops, NEW from, NEW to, Goto(l, from, to), backend' = backend,
             from # "idle" \/ l \in Running
      PROVE  Awake'
  <2>1. l \in Running
    BY <1>1 DEF Goto, Awake
  <2>2. \A k \in Loops \ {l} : pc'[k] = pc[k]
    BY <1>1 DEF Goto, TypeOK
  <2> QED
    BY <1>1, <2>1, <2>2 DEF Awake, Running
<1>2. ASSUME UNCHANGED <<backend, pc>> PROVE Awake'
  BY <1>2 DEF Awake, Running
<1>3. CASE UNCHANGED vars
  BY <1>2, <1>3 DEF vars
<1>4. ASSUME NEW e \in Entries, Appear(e[1], e[2]) \/ Vanish(e[1], e[2]) PROVE Awake'
  BY <1>2, <1>4 DEF Appear, Vanish
<1>5. ASSUME NEW l \in Loops, NEW c \in On, FetchFails(l, c) PROVE Awake'
  <2>1. l \in Running /\ backend' = backend
    BY <1>5 DEF FetchFails, source
  <2>2. \E from \in PCs, to \in PCs : Goto(l, from, to)
    BY <1>5 DEF FetchFails, Start, PCs
  <2> QED
    BY <1>1, <2>1, <2>2
<1>6. ASSUME NEW l \in Loops, NEW c \in On, NEW s \in Pages(c), Sync(l, c, s) PROVE Awake'
  <2>1. l \in Running /\ backend' = backend
    BY <1>6 DEF Sync, Seed, Begin, source
  <2>2. \E from \in PCs, to \in PCs : Goto(l, from, to)
    BY <1>6 DEF Sync, Seed, Begin, Start, PCs
  <2> QED
    BY <1>1, <2>1, <2>2
<1>7. ASSUME NEW l \in Loops, NEW i \in Items, Skip(l, i) \/ Publish(l, i) \/ DetailFails(l, i)
      PROVE  Awake'
  BY <1>2, <1>7 DEF Skip, Publish, DetailFails, source
<1>8. ASSUME NEW l \in Loops, EndRound(l) \/ Truncate(l) \/ Fill(l) \/ SaveFails(l)
      PROVE  Awake'
  <2>1. \E from \in PCs \ {"idle"}, to \in PCs : Goto(l, from, to)
    BY <1>8 DEF EndRound, Truncate, Fill, SaveFails, PCs
  <2>2. backend' = backend
    BY <1>8 DEF EndRound, Truncate, Fill, SaveFails, source
  <2> QED
    BY <1>1, <2>1, <2>2
<1>9. ASSUME NEW l \in Loops, IdleTick(l) PROVE Awake'
  BY <1>1, <1>9 DEF IdleTick, source
<1>10. CASE Crash
  BY <1>10 DEF Crash, Awake
<1>11. CASE Tick
  BY <1>2, <1>11 DEF Tick, source
<1> QED
  BY <1>3, <1>4, <1>5, <1>6, <1>7, <1>8, <1>9, <1>10, <1>11
  DEF Next, Round, Entry, Save, Work

-----------------------------------------------------------------------------
(* Steps that at most forget old marks in memory, or mark entries unsaved. *)
Quiet ==
    /\ memory' \in [Loops -> MarkMaps]
    /\ \A l \in Loops : Weaker(memory'[l], memory[l])
    /\ UNCHANGED <<backend, file, torn, crashes, handled, lost>>
    /\ unsaved \subseteq unsaved'

(* Steps in which entries of one channel are published or seeded. *)
Marking(l, c, s) ==
    /\ LoopOf(c) = l
    /\ \A i \in s : <<c, i>> \in Entries
    /\ Marked(l, c, s)
    /\ UNCHANGED <<backend, file, torn, crashes>>

(* A step marks entries, writes the file, crashes, lets time pass, or leaves the marks alone. *)
LEMMA StepCases ==
    ASSUME TypeOK, Shape, [Next]_vars
    PROVE  \/ Quiet
           \/ \E l \in Loops, c \in On, s \in SUBSET Items : Marking(l, c, s)
           \/ \E l \in Loops : Truncate(l) \/ Fill(l)
           \/ Crash
           \/ Tick
<1> USE OnChannels
<1>1. /\ memory \in [Loops -> MarkMaps]
      /\ \A l \in Loops : memory[l] \in MarkMaps /\ Weaker(memory[l], memory[l])
  BY SameWeaker DEF TypeOK, MarkMaps
<1>2. ASSUME UNCHANGED <<backend, memory, file, torn, crashes, handled, lost>>,
             unsaved \subseteq unsaved'
      PROVE  Quiet
  BY <1>1, <1>2 DEF Quiet
<1>3. CASE UNCHANGED vars
  BY <1>2, <1>3 DEF vars
<1>4. ASSUME NEW e \in Entries, Appear(e[1], e[2]) \/ Vanish(e[1], e[2]) PROVE Quiet
  BY <1>2, <1>4 DEF Appear, Vanish, stored, history
<1>5. ASSUME NEW l \in Loops, NEW c \in On,
             FetchFails(l, c) \/ \E s \in Pages(c) : Begin(l, c, s)
      PROVE  Quiet
  BY <1>2, <1>5 DEF FetchFails, Begin, source, stored, history
<1>6. ASSUME NEW l \in Loops, EndRound(l) \/ IdleTick(l) PROVE Quiet
  BY <1>2, <1>6 DEF EndRound, IdleTick, source, stored, history
<1>7. ASSUME NEW l \in Loops, NEW i \in Items, DetailFails(l, i) PROVE Quiet
  BY <1>2, <1>7 DEF DetailFails, source, stored, history
<1>8. ASSUME NEW l \in Loops, NEW new \in MarkMaps, memory' = [memory EXCEPT ![l] = new],
             Weaker(new, memory[l]),
             UNCHANGED <<backend, file, torn, crashes, handled, lost>>,
             unsaved \subseteq unsaved'
      PROVE  Quiet
  <2>1. memory' \in [Loops -> MarkMaps]
    BY <1>1, <1>8
  <2>2. \A k \in Loops : Weaker(memory'[k], memory[k])
    BY <1>1, <1>8
  <2> QED
    BY <1>8, <2>1, <2>2 DEF Quiet
<1>9. ASSUME NEW l \in Loops, NEW i \in Items, Skip(l, i) PROVE Quiet
  BY <1>8, <1>9, LookupWeaker DEF Skip, source, stored, history
<1>10. ASSUME NEW l \in Loops, SaveFails(l) PROVE Quiet
  <2>1. UNCHANGED <<backend, file, torn, crashes, handled, lost>> /\ unsaved \subseteq unsaved'
    BY <1>10 DEF SaveFails, source, stored
  <2>2. CASE UNCHANGED memory
    BY <1>2, <2>1, <2>2
  <2>3. CASE memory' = [memory EXCEPT ![l] = Prune(memory[l])]
    BY <1>1, <1>8, <2>1, <2>3, PruneWeaker
  <2>4. UNCHANGED memory \/ memory' = [memory EXCEPT ![l] = Prune(memory[l])]
    <3>1. [memory EXCEPT ![l] = memory[l]] = memory
      BY <1>1
    <3>2. UNCHANGED memory \/ PruneMemory(l)
      BY <1>10 DEF SaveFails
    <3> QED
      BY <3>1, <3>2 DEF PruneMemory
  <2> QED
    BY <2>2, <2>3, <2>4
<1>11. ASSUME NEW l \in Loops, NEW c \in On, NEW s \in Pages(c), Seed(l, c, s)
       PROVE  \E t \in SUBSET Items : Marking(l, c, t)
  <2>1. s \in SUBSET Items /\ \A i \in s : <<c, i>> \in Entries
    BY PagesListed DEF TypeOK, Shape
  <2>2. Marking(l, c, s)
    BY <1>11, <2>1 DEF Seed, Marking, source, stored
  <2> QED
    BY <2>1, <2>2
<1>12. ASSUME NEW l \in Loops, NEW i \in Items, Publish(l, i)
       PROVE  \E c \in On : Marking(l, c, {i})
  <2>1. /\ <<channel[l], i>> \in Entries /\ channel[l] \in On /\ LoopOf(channel[l]) = l
    BY <1>12 DEF Publish, Visit, Shape
  <2>2. Marking(l, channel[l], {i})
    BY <1>12, <2>1 DEF Publish, Marking, source, stored
  <2> QED
    BY <2>1, <2>2
<1>13. \A i \in Items : {i} \in SUBSET Items
  OBVIOUS
<1> QED
  BY <1>3, <1>4, <1>5, <1>6, <1>7, <1>9, <1>10, <1>11, <1>12, <1>13
  DEF Next, Round, Sync, Entry, Save, Work

-----------------------------------------------------------------------------
(* Nothing is marked at the start. *)
LEMMA MarksInit == Init => MarksAreHandled
<1> SUFFICES ASSUME Init, NEW c \in Channels, NEW i \in Items
    PROVE  file[c][i] = NoMark /\ \A l \in Loops : memory[l][c][i] = NoMark
  BY DEF MarksAreHandled
<1> QED
  BY UnmarkedType DEF Init

(* Each step keeps every mark that of a publication or of a seeding. *)
LEMMA MarksStep == TypeOK /\ Shape /\ MarksAreHandled /\ [Next]_vars => MarksAreHandled'
<1> SUFFICES ASSUME TypeOK, Shape, MarksAreHandled, [Next]_vars PROVE MarksAreHandled'
  OBVIOUS
<1> DEFINE Honest(marks, h) ==
             \A c \in Channels, i \in Items : marks[c][i] # NoMark => h[c][i] \in 0..marks[c][i]
<1>1. Honest(file, handled) /\ \A l \in Loops : Honest(memory[l], handled)
  BY DEF MarksAreHandled
<1>2. SUFFICES Honest(file', handled') /\ \A l \in Loops : Honest(memory'[l], handled')
  BY DEF MarksAreHandled
<1>3. ASSUME NEW marks, NEW new, NEW h, Honest(marks, h), Weaker(new, marks)
      PROVE  Honest(new, h)
  BY <1>3 DEF Weaker
<1>4. Honest(Unmarked, handled)
  BY UnmarkedType
<1> USE OnChannels
<1>5. CASE Quiet
  BY <1>1, <1>3, <1>5 DEF Quiet
<1>6. ASSUME NEW l \in Loops, NEW c \in On, NEW s \in SUBSET Items, Marking(l, c, s)
      PROVE  Honest(file', handled') /\ \A k \in Loops : Honest(memory'[k], handled')
  <2>1. Honest(Lookup(l), handled)
    BY <1>1, <1>3, LookupWeaker
  <2>2. /\ \A k \in Loops \ {l} : memory'[k] = memory[k]
        /\ \A d \in Channels, i \in Items :
              IF d = c /\ i \in s
              THEN memory'[l][d][i] = 0 /\ handled'[d][i] = 0
              ELSE memory'[l][d][i] = Lookup(l)[d][i] /\ handled'[d][i] = handled[d][i]
    BY <1>6, MarkedMemory DEF Marking
  <2>3. Honest(memory'[l], handled')
    BY <2>1, <2>2
  <2>4. ASSUME NEW marks \in MarkMaps, Honest(marks, handled) PROVE Honest(marks, handled')
    <3>1. \A d \in Channels, i \in Items : handled'[d][i] \in {0, handled[d][i]}
      BY <2>2
    <3>2. \A d \in Channels, i \in Items : marks[d][i] # NoMark => 0 \in 0..marks[d][i]
      BY WindowAssumption DEF MarkMaps, Marks, Ages
    <3> QED
      BY <2>4, <3>1, <3>2
  <2>5. file' = file /\ file \in MarkMaps /\ \A k \in Loops : memory[k] \in MarkMaps
    BY <1>6 DEF Marking, TypeOK, MarkMaps
  <2> QED
    BY <1>1, <2>2, <2>3, <2>4, <2>5
<1>7. ASSUME NEW l \in Loops, PruneMemory(l)
      PROVE  \A k \in Loops : Honest(memory'[k], handled)
  <2>1. memory[l] \in MarkMaps /\ memory \in [Loops -> MarkMaps]
    BY DEF TypeOK, MarkMaps
  <2>2. Honest(Prune(memory[l]), handled)
    BY <1>1, <1>3, <2>1, PruneWeaker
  <2>3. /\ \A k \in Loops \ {l} : memory'[k] = memory[k]
        /\ memory'[l] \in {memory[l], Prune(memory[l])}
    BY <1>7, <2>1 DEF PruneMemory
  <2>4. Honest(memory'[l], handled)
    BY <1>1, <2>2, <2>3
  <2> QED
    BY <1>1, <2>3, <2>4
<1>8. ASSUME NEW l \in Loops, Truncate(l)
      PROVE  Honest(file', handled') /\ \A k \in Loops : Honest(memory'[k], handled')
  <2>1. file' = Unmarked /\ handled' = handled /\ PruneMemory(l)
    BY <1>8 DEF Truncate, history
  <2> QED
    BY <1>4, <1>7, <2>1
<1>9. ASSUME NEW l \in Loops, Fill(l)
      PROVE  Honest(file', handled') /\ \A k \in Loops : Honest(memory'[k], handled')
  <2>1. file' \in {Unmarked, memory[l]} /\ handled' = handled /\ memory' = memory
    BY <1>9 DEF Fill
  <2> QED
    BY <1>1, <1>4, <2>1
<1>10. CASE Crash
  <2>1. handled' = handled /\ file' = file /\ \A k \in Loops : memory'[k] \in {Loaded, Unmarked}
    BY <1>10 DEF Crash, stored
  <2>2. Honest(Loaded, handled)
    <3>1. CASE torn
      BY <1>4, <3>1, LoadedWeaker
    <3>2. CASE ~torn
      BY <1>1, <1>3, <3>2, LoadedWeaker
    <3> QED
      BY <3>1, <3>2
  <2> QED
    BY <1>1, <1>4, <2>1, <2>2
<1>11. CASE Tick
  <2>1. ASSUME NEW marks \in MarkMaps, Honest(marks, handled)
        PROVE  Honest(Older(marks), Older(handled))
    <3> SUFFICES ASSUME NEW c \in Channels, NEW i \in Items, Older(marks)[c][i] # NoMark
        PROVE  Older(handled)[c][i] \in 0..Older(marks)[c][i]
      OBVIOUS
    <3>1. handled \in MarkMaps
      BY DEF TypeOK, MarkMaps
    <3>2. marks[c][i] \in Marks /\ handled[c][i] \in Marks
      BY <3>1 DEF MarkMaps
    <3>3. /\ Older(marks)[c][i] =
                IF marks[c][i] \in 0..Window THEN marks[c][i] + 1 ELSE marks[c][i]
          /\ Older(handled)[c][i] =
                IF handled[c][i] \in 0..Window THEN handled[c][i] + 1 ELSE handled[c][i]
      BY <3>1, OlderMarks
    <3>4. marks[c][i] # NoMark /\ handled[c][i] \in 0..marks[c][i]
      BY <2>1, <3>3, WindowAssumption DEF NoMark
    <3> QED
      BY <3>2, <3>3, <3>4, WindowAssumption DEF Marks, Ages, NoMark
  <2>2. file \in MarkMaps /\ \A l \in Loops : memory[l] \in MarkMaps
    BY DEF TypeOK, MarkMaps
  <2>3. /\ handled' = Older(handled) /\ file' = Older(file)
        /\ \A l \in Loops : memory'[l] = Older(memory[l])
    BY <1>11 DEF Tick
  <2> QED
    BY <1>1, <2>1, <2>2, <2>3
<1> QED
  BY <1>5, <1>6, <1>8, <1>9, <1>10, <1>11, StepCases

-----------------------------------------------------------------------------
(* There is nothing to remember, or to save, at the start. *)
LEMMA RemembersInit == Init => Remembers /\ Saved
<1>1. NoMark \notin 0..Window
  BY WindowAssumption DEF NoMark
<1>2. ASSUME Init PROVE \A c \in On, i \in Items : handled[c][i] = NoMark
  BY <1>2, UnmarkedType, TypeInit, OnChannels DEF Init
<1> QED
  BY <1>1, <1>2 DEF Remembers, Saved

(* Each step keeps what was handled recently in its goroutine's memory. *)
LEMMA RemembersStep ==
    TypeOK /\ Shape /\ Remembers /\ Saved /\ [Next]_vars => Remembers'
<1> SUFFICES ASSUME TypeOK, Shape, Remembers, Saved, [Next]_vars,
                    NEW c \in On', NEW i \in Items,
                    (Running = {LoopOf(c)})' \/ crashes' = 0,
                    <<c, i>> \notin lost',
                    handled'[c][i] \in 0..Window
    PROVE  memory'[LoopOf(c)'][c][i] = handled'[c][i]
  BY DEF Remembers
<1>1. backend' = backend
  BY DEF Next, vars, Round, Sync, Entry, Save, Work, Appear, Vanish, FetchFails, Seed, Begin, Skip,
      Publish, DetailFails, EndRound, IdleTick, Truncate, Fill, SaveFails, Crash, Tick, source
<1>2. /\ c \in On /\ c \in Channels /\ LoopOf(c)' = LoopOf(c) /\ LoopOf(c) \in Loops
      /\ Running' = Running
  BY <1>1, OnChannels DEF On, LoopOf, Running
<1> DEFINE l == LoopOf(c)
<1> HIDE DEF l
<1>3. l \in Loops /\ (Running = {l} \/ crashes' = 0)
  BY <1>2 DEF l
<1>4. crashes \in Nat /\ memory[l] \in MarkMaps /\ handled \in MarkMaps /\ file \in MarkMaps
  BY <1>3 DEF TypeOK, MarkMaps
<1>5. ASSUME Running = {l} \/ crashes = 0, <<c, i>> \notin lost, handled[c][i] \in 0..Window
      PROVE  memory[l][c][i] = handled[c][i]
  BY <1>2, <1>5 DEF Remembers, l
<1>6. SUFFICES memory'[l][c][i] = handled'[c][i]
  BY <1>2 DEF l
<1> USE OnChannels
<1>7. CASE Quiet
  BY <1>2, <1>3, <1>5, <1>7 DEF Quiet, Weaker
<1>8. ASSUME NEW k \in Loops, NEW d \in On, NEW s \in SUBSET Items, Marking(k, d, s)
      PROVE  memory'[l][c][i] = handled'[c][i]
  <2>1. /\ \A j \in Loops \ {k} : memory'[j] = memory[j]
        /\ \A b \in Channels, j \in Items :
              IF b = d /\ j \in s
              THEN memory'[k][b][j] = 0 /\ handled'[b][j] = 0
              ELSE memory'[k][b][j] = Lookup(k)[b][j] /\ handled'[b][j] = handled[b][j]
    BY <1>8, MarkedMemory DEF Marking
  <2>2. LoopOf(d) = k /\ crashes' = crashes /\ lost' = lost \ ({d} \X s)
    BY <1>8 DEF Marking, Marked
  <2>3. CASE c = d /\ i \in s
    BY <1>2, <2>1, <2>2, <2>3 DEF l
  <2>4. CASE ~(c = d /\ i \in s)
    <3>1. <<c, i>> \notin lost /\ handled'[c][i] = handled[c][i]
      BY <1>2, <2>1, <2>2, <2>4
    <3>2. memory[l][c][i] = handled[c][i]
      BY <1>3, <1>5, <2>2, <3>1
    <3>3. l = k => memory'[l][c][i] = memory[l][c][i]
      BY <1>2, <2>1, <2>4, <3>1, <3>2, LookupWeaker DEF Weaker
    <3> QED
      BY <1>3, <2>1, <3>1, <3>2, <3>3
  <2> QED
    BY <2>3, <2>4
<1>9. ASSUME NEW k \in Loops, Truncate(k) \/ Fill(k)
      PROVE  memory'[l][c][i] = handled'[c][i]
  <2>1. UNCHANGED <<crashes, lost, handled>> /\ (UNCHANGED memory \/ PruneMemory(k))
    BY <1>9 DEF Truncate, Fill, history
  <2>2. memory[l][c][i] = handled[c][i]
    BY <1>3, <1>5, <2>1
  <2>3. memory'[l] \in {memory[l], Prune(memory[l])}
    BY <1>3, <2>1 DEF PruneMemory, TypeOK
  <2> QED
    BY <1>2, <1>4, <2>1, <2>2, <2>3, PruneWeaker DEF Weaker
<1>10. CASE Crash
  <2>1. crashes' # 0 /\ Running = {l}
    BY <1>3, <1>4, <1>10 DEF Crash
  <2>2. memory'[l] = Loaded /\ handled' = handled
    BY <1>3, <1>10, <2>1 DEF Crash
  <2>3. <<c, i>> \in Entries /\ handled[c][i] # NoMark
    BY <1>2, <2>2, WindowAssumption DEF Shape, NoMark
  <2>4. <<c, i>> \notin lost /\ <<c, i>> \notin unsaved /\ ~torn
    BY <1>10, <2>3 DEF Crash
  <2>5. file[c][i] = handled[c][i]
    BY <1>2, <2>1, <2>2, <2>4 DEF Saved, l
  <2> QED
    BY <1>2, <2>2, <2>4, <2>5, LoadedWeaker DEF Weaker
<1>11. CASE Tick
  <2>1. /\ crashes' = crashes /\ lost' = lost /\ handled' = Older(handled)
        /\ memory'[l] = Older(memory[l])
    BY <1>3, <1>11 DEF Tick
  <2>2. handled[c][i] \in Marks
    BY <1>2, <1>4 DEF MarkMaps
  <2>3. handled[c][i] \in 0..Window
    BY <1>2, <1>4, <2>1, <2>2, OlderMarks, WindowAssumption DEF Marks, Ages, NoMark
  <2>4. memory[l][c][i] = handled[c][i]
    BY <1>3, <1>5, <2>1, <2>3
  <2> QED
    BY <1>2, <1>4, <2>1, <2>4, OlderMarks
<1> QED
  BY <1>7, <1>8, <1>9, <1>10, <1>11, StepCases

(* Each step keeps what is not unsaved in the file. *)
LEMMA SavedStep ==
    TypeOK /\ Shape /\ Awake /\ Remembers /\ Saved /\ [Next]_vars => Saved'
<1> SUFFICES ASSUME TypeOK, Shape, Awake, Remembers, Saved, [Next]_vars,
                    NEW c \in On', NEW i \in Items,
                    (Running = {LoopOf(c)})',
                    <<c, i>> \notin lost', <<c, i>> \notin unsaved', ~torn',
                    handled'[c][i] \in 0..Window
    PROVE  file'[c][i] = handled'[c][i]
  BY DEF Saved
<1>1. backend' = backend
  BY DEF Next, vars, Round, Sync, Entry, Save, Work, Appear, Vanish, FetchFails, Seed, Begin, Skip,
      Publish, DetailFails, EndRound, IdleTick, Truncate, Fill, SaveFails, Crash, Tick, source
<1>2. /\ c \in On /\ c \in Channels /\ LoopOf(c) \in Loops
      /\ Running = {LoopOf(c)}
  BY <1>1, OnChannels DEF On, LoopOf, Running
<1>3. handled \in MarkMaps /\ file \in MarkMaps
  BY DEF TypeOK, MarkMaps
<1>4. ASSUME <<c, i>> \notin lost, <<c, i>> \notin unsaved, ~torn, handled[c][i] \in 0..Window
      PROVE  file[c][i] = handled[c][i]
  BY <1>2, <1>4 DEF Saved
<1> USE OnChannels
<1>5. CASE Quiet
  BY <1>4, <1>5 DEF Quiet
<1>6. ASSUME NEW l \in Loops, NEW d \in On, NEW s \in SUBSET Items, Marking(l, d, s)
      PROVE  file'[c][i] = handled'[c][i]
  <2>1. ~(c = d /\ i \in s) /\ <<c, i>> \notin unsaved /\ <<c, i>> \notin lost
    BY <1>6 DEF Marking, Marked
  <2>2. handled'[c][i] = handled[c][i]
    BY <1>2, <1>6, <2>1, MarkedMemory DEF Marking
  <2> QED
    BY <1>4, <1>6, <2>1, <2>2 DEF Marking
<1>7. ASSUME NEW l \in Loops, Truncate(l) PROVE FALSE
  BY <1>7 DEF Truncate
<1>8. ASSUME NEW l \in Loops, Fill(l) PROVE file'[c][i] = handled'[c][i]
  <2>1. file' = memory[l] /\ handled' = handled /\ lost' = lost
    BY <1>8 DEF Fill
  <2>2. LoopOf(c) = l => memory[l][c][i] = handled[c][i]
    BY <1>2, <2>1 DEF Remembers
  <2>3. CASE LoopOf(c) = l
    BY <2>1, <2>2, <2>3
  <2>4. CASE LoopOf(c) # l
    <3>1. pc[l] = "fill"
      BY <1>8 DEF Fill, Goto
    <3> QED
      BY <1>2, <2>4, <3>1 DEF Awake
  <2> QED
    BY <2>3, <2>4
<1>9. CASE Crash
  <2>1. UNCHANGED <<file, torn, handled>> /\ unsaved \subseteq lost' /\ lost \subseteq lost'
    BY <1>9 DEF Crash, stored
  <2> QED
    BY <1>4, <2>1
<1>10. CASE Tick
  <2>1. UNCHANGED <<torn, lost, unsaved>> /\ handled' = Older(handled) /\ file' = Older(file)
    BY <1>10 DEF Tick
  <2>2. handled[c][i] \in Marks
    BY <1>2, <1>3 DEF MarkMaps
  <2>3. handled[c][i] \in 0..Window
    BY <1>2, <1>3, <2>1, <2>2, OlderMarks, WindowAssumption DEF Marks, Ages, NoMark
  <2> QED
    BY <1>2, <1>3, <1>4, <2>1, <2>3, OlderMarks
<1> QED
  BY <1>5, <1>6, <1>7, <1>8, <1>9, <1>10, StepCases

-----------------------------------------------------------------------------
(* The inductive invariant holds at first, and every step keeps it. *)
LEMMA Starts == Init => IInv
<1>1. Init => Shape
  BY UnmarkedType DEF Init, Shape
<1>2. Init => Awake
  BY DEF Init, Awake
<1> QED
  BY <1>1, <1>2, TypeInit, MarksInit, RemembersInit DEF IInv

(* Every step keeps the inductive invariant. *)
LEMMA Steps == IInv /\ [Next]_vars => IInv'
BY TypeStep, ShapeStep, AwakeStep, MarksStep, RemembersStep, SavedStep DEF IInv

(* The inductive invariant holds in every reachable state. *)
THEOREM Invariance == Spec => []IInv
BY Starts, Steps, PTL DEF Spec

(***************************************************************************)
(* A mark, in memory or in the file, is never younger than the last time   *)
(* its entry was published or seeded, and never stands for nothing.        *)
(***************************************************************************)
THEOREM MarksTheorem == Spec => []MarksAreHandled
<1>1. IInv => MarksAreHandled
  BY DEF IInv
<1> QED
  BY <1>1, Invariance, PTL

(***************************************************************************)
(* Within the window an entry is published once, unless its mark was lost  *)
(* in a crash or overwritten by another goroutine before one.              *)
(***************************************************************************)
THEOREM OnceTheorem == Spec => PublishedOnce
<1>1. ASSUME IInv, NEW l \in Loops, NEW i \in Items, Publish(l, i),
             Recent(<<channel[l], i>>), <<channel[l], i>> \notin lost,
             Running = {l} \/ ~(crashes > 0)
      PROVE  FALSE
  <2>1. channel[l] \in On /\ LoopOf(channel[l]) = l
    BY <1>1 DEF Publish, Visit, IInv, Shape
  <2>2. crashes > 0 \/ crashes = 0
    BY <1>1 DEF IInv, TypeOK
  <2>3. memory[l][channel[l]][i] = handled[channel[l]][i] /\ handled[channel[l]][i] \in 0..Window
    BY <1>1, <2>1, <2>2 DEF IInv, Remembers, Recent
  <2>4. Lookup(l)[channel[l]][i] # NoMark
    BY <1>1, <2>1, <2>3, LookupWeaker, OnChannels, WindowAssumption DEF IInv, Weaker, NoMark
  <2> QED
    BY <1>1, <2>4 DEF Publish, Known
<1>2. IInv /\ [Next]_vars =>
        [\A l \in Loops, i \in Items :
            Publish(l, i) /\ Recent(<<channel[l], i>>) =>
                <<channel[l], i>> \in lost \/ (Running # {l} /\ crashes > 0)]_vars
  BY <1>1
<1> QED
  BY <1>2, Invariance, PTL DEF Spec, PublishedOnce
=============================================================================
