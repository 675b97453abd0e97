---------------------------- MODULE PollsProofs ----------------------------
(***************************************************************************)
(* Proofs about three kinds of backends that follow what comes after a     *)
(* position: about IrcFeed, that for any number of messages, pages, kept   *)
(* ids, lost connections and restarts the stream is honest; about          *)
(* CursorFeed, that a position never passes a message over nor repeats     *)
(* one, but for the reasons named; and about MatrixLite, that no message is*)
(* passed over, that one is published once unless the position is taken    *)
(* back, and that a lookup asked for is not forgotten.                     *)
(***************************************************************************)
EXTENDS MCPolls, FeedsProofs, FiniteSetTheorems, WellFoundedInduction, TLAPS

-----------------------------------------------------------------------------
(* The first and the newest messages of a set. *)

(* A nonempty set of naturals has a least element. *)
LEMMA LeastExists ==
    ASSUME NEW s \in SUBSET Nat, s # {}
    PROVE  \E x \in s : \A y \in s : x <= y
<1>1. PICK x \in s : \A y \in s : ~ (<<y, x>> \in OpToRel(<, Nat))
  BY NatLessThanWellFounded, WFMin
<1>2. \A y \in s : ~ (y < x)
  BY <1>1 DEF OpToRel
<1> QED
  BY <1>2

(* A nonempty set of naturals up to n has a greatest element. *)
LEMMA GreatestExists ==
    ASSUME NEW n \in Nat, NEW s \in SUBSET (1..n), s # {}
    PROVE  \E x \in s : \A y \in s : y <= x
<1> DEFINE t == {n - x : x \in s}
<1>1. t \in SUBSET Nat /\ t # {}
  <2>1. \A x \in s : n - x \in Nat
    OBVIOUS
  <2>2. PICK x \in s : TRUE
    OBVIOUS
  <2>3. n - x \in t
    BY <2>2
  <2> QED
    BY <2>1, <2>3
<1>2. PICK z \in t : \A y \in t : z <= y
  <2> HIDE DEF t
  <2> QED
    BY <1>1, LeastExists
<1>3. PICK x \in s : z = n - x
  BY <1>2
<1>4. \A y \in s : n - x <= n - y
  BY <1>2, <1>3
<1> QED
  BY <1>4

(* IFirst is the least element of a nonempty set. *)
LEMMA FirstOf ==
    ASSUME NEW s \in SUBSET Nat, s # {}
    PROVE  IFirst(s) \in s /\ \A f \in s : IFirst(s) <= f
BY LeastExists DEF IFirst

(* The newest of a set come after all the others, and there is one unless  *)
(* the set is empty.                                                       *)
LEMMA NewestOf ==
    ASSUME NEW n \in Nat, NEW s \in SUBSET (1..n)
    PROVE  /\ INewest(s) \subseteq s
           /\ \A e \in s \ INewest(s), g \in INewest(s) : e < g
           /\ s # {} => INewest(s) # {}
<1>1. IsFiniteSet(s)
  <2>1. IsFiniteSet(1..n)
    BY FS_Interval
  <2> QED
    BY <2>1, FS_Subset
<1>4. \A x \in s : x \in Nat
  OBVIOUS
<1>2. ASSUME NEW e \in s \ INewest(s), NEW g \in INewest(s)
      PROVE  e < g
  <2> DEFINE above(x) == {f \in s : f >= x}
  <2>1. IsFiniteSet(above(e)) /\ Cardinality(above(e)) \in Nat
    BY <1>1, FS_Subset, FS_CardinalityType
  <2>2. IsFiniteSet(above(g)) /\ Cardinality(above(g)) \in Nat
    BY <1>1, FS_Subset, FS_CardinalityType
  <2>3. Cardinality(above(g)) <= IPage /\ ~ (Cardinality(above(e)) <= IPage)
    BY DEF INewest
  <2>4. CASE g <= e
    <3>1. above(e) \subseteq above(g)
      <4>1. e \in s /\ g \in s
        BY DEF INewest
      <4>2. \A f \in s : f >= e => f >= g
        BY <4>1, <1>4, <2>4
      <4> QED
        BY <4>2
    <3>2. Cardinality(above(e)) <= Cardinality(above(g))
      BY <3>1, <2>2, FS_Subset
    <3> QED
      BY <3>2, <2>1, <2>2, <2>3, IrcAssumption
  <2>5. e \in s /\ g \in s
    BY DEF INewest
  <2> QED
    BY <2>4, <2>5, <1>4
<1>3. ASSUME s # {}
      PROVE  INewest(s) # {}
  <2>1. PICK x \in s : \A y \in s : y <= x
    BY <1>3, GreatestExists
  <2>2. {f \in s : f >= x} = {x}
    <3>1. \A f \in s : f >= x <=> f = x
      BY <2>1, <1>4
    <3> QED
      BY <3>1
  <2>3. Cardinality({x}) = 1
    BY FS_Singleton
  <2>4. Cardinality({f \in s : f >= x}) <= IPage
    BY <2>2, <2>3, IrcAssumption
  <2> QED
    BY <2>4 DEF INewest
<1> QED
  BY <1>2, <1>3 DEF INewest

-----------------------------------------------------------------------------
(* The inductive invariant.  Messages that came are numbered up to iTop;   *)
(* those before the position and those that came are covered; what was     *)
(* seen was published, and what was published is remembered.               *)
IShape ==
    /\ iFeed \in IFeeds
    /\ iPosted \in Nat /\ iPosted <= iFeed.events
    /\ iPos \in Nat /\ iPos <= iPosted
    /\ iTop \in Nat /\ iTop <= iPosted
    /\ iFrom \in Nat /\ iFrom <= iTop
    /\ iBatch \in SUBSET Nat /\ \A e \in iBatch : 1 <= e /\ e <= iTop
    /\ iDone \in [1..iFeed.events -> 0..2]
    /\ iPc = "closed" => iBatch = {} /\ iFrom = 0 /\ iTop = 0

Covered(e) ==
    \/ iDone[e] > 0 \/ e \in iBatch \/ e \in iLeft
    \/ iFeed.name = "irccloud" /\ ~iStream
    \/ iFeed.name = "irclounge" /\ e < iFrom

Coverage == \A e \in Nat \ {0} : e <= iPos \/ e <= iTop => Covered(e)

Below(e) == iFeed.name = "irclounge" /\ e < iPos - IKeep

Memory ==
    /\ \A e \in iSeen : e \in Nat \ {0} /\ e <= iPosted /\ iDone[e] > 0
    /\ iPos > 0 => iDone[iPos] > 0
    /\ \A e \in Nat \ {0} :
          e <= iFeed.events /\ iDone[e] > 0 =>
              e <= iPosted /\ (e \in iSeen \cup iRepeat \/ Below(e))
    /\ \A e \in Nat \ {0} : e <= iFeed.events /\ iDone[e] = 2 => e \in iRepeat \/ Below(e)

IrcInv == IShape /\ Coverage /\ Memory

(* What StreamHonest speaks of. *)
core == <<iFeed, iPosted, iPc, iPos, iStream, iSeen, iBatch, iTop, iFrom, iDone, iLeft, iRepeat>>

(* A step that leaves these variables alone keeps the invariant. *)
LEMMA CoreFrame == IrcInv /\ UNCHANGED core => IrcInv'
BY DEF IrcInv, IShape, Coverage, Covered, Memory, Below, core

(* The bounds a behaviour has are those the assumption names. *)
LEMMA Names ==
    ASSUME IShape
    PROVE  /\ iFeed.name \in {"irccloud", "irclounge"}
           /\ iFeed.events \in Nat \ {0}
BY IrcAssumption DEF IShape

(* The invariant implies the property. *)
LEMMA Honest == IrcInv => StreamHonest
<1> SUFFICES ASSUME IrcInv PROVE StreamHonest
  OBVIOUS
<1>1. ASSUME NEW e \in 1..iPos
      PROVE  \/ iDone[e] > 0 \/ e \in iBatch \cup iLeft
             \/ IF iFeed.name = "irccloud" THEN ~iStream ELSE e < iFrom
  <2>1. e \in Nat \ {0} /\ e <= iPos
    BY DEF IrcInv, IShape
  <2> QED
    BY <2>1 DEF IrcInv, Coverage, Covered
<1>2. ASSUME NEW e \in 1..iPosted, iDone[e] = 2
      PROVE  e \in iRepeat \/ (iFeed.name = "irclounge" /\ e < iPos - IKeep)
  <2>1. e \in Nat \ {0} /\ e <= iFeed.events
    BY Names DEF IrcInv, IShape
  <2> QED
    BY <1>2, <2>1 DEF IrcInv, Memory, Below
<1> QED
  BY <1>1, <1>2 DEF StreamHonest

(* The invariant holds when the process starts. *)
LEMMA StartsWell == IrcInit => IrcInv
<1> SUFFICES ASSUME IrcInit PROVE IrcInv
  OBVIOUS
<1>1. iFeed \in IFeeds /\ iFeed.events \in Nat \ {0}
  BY IrcAssumption DEF IrcInit
<1>2. iPosted \in Nat /\ iPosted <= iFeed.events
  BY <1>1 DEF IrcInit
<1>3. IShape
  BY <1>1, <1>2 DEF IrcInit, IShape
<1>4. Coverage
  BY DEF IrcInit, Coverage, Covered
<1>5. Memory
  <2>1. \A e \in 1..iFeed.events : iDone[e] = 0
    BY DEF IrcInit
  <2>2. \A e \in Nat \ {0} : e <= iFeed.events => e \in 1..iFeed.events
    BY <1>1
  <2>3. \A e \in Nat \ {0} : e <= iFeed.events => iDone[e] = 0
    BY <2>1, <2>2
  <2>4. iSeen = {} /\ iPos = 0
    BY DEF IrcInit
  <2> QED
    BY <2>3, <2>4 DEF Memory
<1> QED
  BY <1>3, <1>4, <1>5 DEF IrcInv

-----------------------------------------------------------------------------
(* Messages are posted and come. *)

(* Posting a message keeps the invariant. *)
LEMMA PostStep == IrcInv /\ IPost => IrcInv'
<1> SUFFICES ASSUME IrcInv, IPost PROVE IrcInv'
  OBVIOUS
<1> USE DEF IPost, iBounds, iConn, iMemory, iHistory
<1>1. IShape'
  BY Names DEF IrcInv, IShape
<1>2. Coverage'
  BY DEF IrcInv, Coverage, Covered
<1>3. Memory'
  BY DEF IrcInv, Memory, Below, IShape
<1> QED
  BY <1>1, <1>2, <1>3 DEF IrcInv

(* A message that the connection brings is covered by the batch. *)
LEMMA LiveStep == IrcInv /\ IrcLive => IrcInv'
<1> SUFFICES ASSUME IrcInv, IrcLive PROVE IrcInv'
  OBVIOUS
<1> USE DEF IrcLive, iBounds, iMemory, iHistory
<1>1. IShape'
  BY DEF IrcInv, IShape
<1>2. Coverage'
  BY DEF IrcInv, Coverage, Covered, IShape
<1>3. Memory'
  BY DEF IrcInv, Memory, Below
<1> QED
  BY <1>1, <1>2, <1>3 DEF IrcInv

-----------------------------------------------------------------------------
(* irccloud begins a stream, or resumes it. *)

(* A resumed stream brings all that is newer than the position. *)
LEMMA ResumeStep == IrcInv /\ Resumed => IrcInv'
<1> SUFFICES ASSUME IrcInv, Resumed PROVE IrcInv'
  OBVIOUS
<1> USE DEF Resumed, IOn, iBounds, iMemory, iHistory
<1>1. \A e \in Nat \ {0} : e <= iPosted => e \in Newer \/ e <= iPos
  BY DEF IrcInv, IShape, Newer
<1>2. \A e \in Newer : e \in Nat \ {0} /\ e <= iPosted
  BY DEF IrcInv, IShape, Newer
<1>3. IShape'
  <2>1. iBatch' \in SUBSET Nat /\ \A e \in iBatch' : 1 <= e /\ e <= iTop'
    BY <1>2
  <2> QED
    BY <2>1 DEF IrcInv, IShape
<1>4. Coverage'
  BY <1>1 DEF IrcInv, Coverage, Covered, IShape
<1>5. Memory'
  BY DEF IrcInv, Memory, Below
<1> QED
  BY <1>3, <1>4, <1>5 DEF IrcInv

(* A new stream covers what is old by its backlog, or counts it as left. *)
LEMMA BeginStep == IrcInv /\ StreamBegins => IrcInv'
<1> SUFFICES ASSUME IrcInv, StreamBegins PROVE IrcInv'
  OBVIOUS
<1>1. /\ iFeed.name = "irccloud"
      /\ iPc' = "open" /\ iTop' = iPosted
      /\ iFeed' = iFeed /\ iPosted' = iPosted /\ iFrom' = iFrom
      /\ iSeen' = iSeen /\ iDone' = iDone /\ iRepeat' = iRepeat
  BY DEF StreamBegins, IOn
<1>2. \/ OobFails
      \/ \E got \in SUBSET INewest(1..iPosted) :
            /\ iStream' = TRUE /\ iPos' = iPos /\ iBatch' = got
            /\ iLeft' = iLeft \cup Unpublished((1..iPosted) \ got)
  BY DEF StreamBegins
<1>3. CASE OobFails
  <2>1. iStream' = FALSE /\ iPos' = 0 /\ iBatch' = {}
    BY <1>3 DEF OobFails
  <2>2. IShape'
    BY <1>1, <2>1 DEF IrcInv, IShape
  <2>3. Coverage'
    BY <1>1, <2>1 DEF Coverage, Covered
  <2>4. Memory'
    BY <1>1, <2>1 DEF IrcInv, Memory, Below
  <2> QED
    BY <2>2, <2>3, <2>4 DEF IrcInv
<1>4. ASSUME NEW got \in SUBSET INewest(1..iPosted),
             iStream' = TRUE, iPos' = iPos, iBatch' = got,
             iLeft' = iLeft \cup Unpublished((1..iPosted) \ got)
      PROVE  IrcInv'
  <2>1. iPosted \in Nat /\ iPos \in Nat /\ iPos <= iPosted
    BY DEF IrcInv, IShape
  <2>2. got \in SUBSET (1..iPosted)
    BY <2>1, NewestOf
  <2>3. \A e \in got : e \in Nat \ {0} /\ e <= iPosted
    BY <2>1, <2>2
  <2>4. IShape'
    <3>1. iBatch' \in SUBSET Nat /\ \A e \in iBatch' : 1 <= e /\ e <= iTop'
      BY <1>1, <1>4, <2>3
    <3> QED
      BY <1>1, <1>4, <3>1 DEF IrcInv, IShape
  <2>5. Coverage'
    <3>1. \A e \in Nat \ {0} : e <= iPosted => iDone[e] \in 0..2
      BY Names DEF IrcInv, IShape
    <3>2. ASSUME NEW e \in Nat \ {0}, e <= iPosted, ~ (iDone[e] > 0), e \notin got
          PROVE  e \in iLeft'
      <4>1. iDone[e] = 0
        BY <3>1, <3>2
      <4>2. e \in Unpublished((1..iPosted) \ got)
        BY <2>1, <3>2, <4>1 DEF Unpublished
      <4> QED
        BY <1>4, <4>2
    <3>3. \A e \in Nat \ {0} : e <= iPos' \/ e <= iTop' => e <= iPosted
      BY <1>1, <1>4, <2>1
    <3> QED
      BY <1>1, <1>4, <3>2, <3>3 DEF Coverage, Covered
  <2>6. Memory'
    BY <1>1, <1>4 DEF IrcInv, Memory, Below
  <2> QED
    BY <2>4, <2>5, <2>6 DEF IrcInv
<1> QED
  BY <1>2, <1>3, <1>4

-----------------------------------------------------------------------------
(* A message is published, and remembered. *)

(* Publishing counts one message and no other. *)
LEMMA CountOnce ==
    ASSUME IrcInv, NEW e \in iBatch, Count(e), iFeed' = iFeed
    PROVE  /\ e \in Nat \ {0} /\ e <= iPosted /\ e <= iFeed.events
           /\ iDone' \in [1..iFeed.events -> 0..2]
           /\ iDone'[e] > 0
           /\ iDone'[e] = 2 => iDone[e] > 0
           /\ \A f \in Nat \ {0} : f <= iFeed.events /\ f # e => iDone'[f] = iDone[f]
<1>1. e \in Nat \ {0} /\ e <= iPosted /\ e <= iFeed.events /\ iFeed.events \in Nat
  BY Names DEF IrcInv, IShape
<1>2. e \in 1..iFeed.events
  BY <1>1
<1>3. iDone \in [1..iFeed.events -> 0..2] /\ iDone[e] \in 0..2
  BY <1>2 DEF IrcInv, IShape
<1>4. (IF iDone[e] = 2 THEN 2 ELSE iDone[e] + 1) \in 1..2
  BY <1>3
<1>5. iDone'[e] = IF iDone[e] = 2 THEN 2 ELSE iDone[e] + 1
  BY <1>2, <1>3 DEF Count
<1>6. \A f \in 1..iFeed.events : f # e => iDone'[f] = iDone[f]
  BY <1>3 DEF Count
<1>7. iDone' \in [1..iFeed.events -> 0..2]
  BY <1>2, <1>3, <1>4 DEF Count
<1>8. \A f \in Nat \ {0} : f <= iFeed.events => f \in 1..iFeed.events
  BY <1>1
<1> QED
  BY <1>1, <1>3, <1>4, <1>5, <1>6, <1>7, <1>8

(* What leaves the batch of irccloud was published, now or before. *)
LEMMA ProcessStep == IrcInv /\ ProcessMessage => IrcInv'
<1> SUFFICES ASSUME IrcInv, ProcessMessage PROVE IrcInv'
  OBVIOUS
<1>1. PICK e \in iBatch : e = IFirst(iBatch) /\ \A f \in iBatch : e <= f
  BY FirstOf DEF ProcessMessage, IrcInv, IShape
<1>2. /\ iFeed.name = "irccloud" /\ iPc = "open"
      /\ iBatch' = iBatch \ {e}
      /\ iPos' = (IF e > iPos THEN e ELSE iPos)
      /\ iSeen' = iSeen \cup {e}
      /\ IF e \in iSeen THEN iDone' = iDone ELSE Count(e)
      /\ iFeed' = iFeed /\ iPosted' = iPosted /\ iPc' = iPc /\ iTop' = iTop /\ iFrom' = iFrom
      /\ iStream' = iStream /\ iLeft' = iLeft /\ iRepeat' = iRepeat
  BY <1>1 DEF ProcessMessage, IOn, iBounds, iConn
<1>3. e \in Nat \ {0} /\ e <= iTop /\ e <= iPosted /\ e <= iFeed.events
  BY Names DEF IrcInv, IShape
<1>4. /\ iDone' \in [1..iFeed.events -> 0..2]
      /\ iDone'[e] > 0
      /\ iDone'[e] = 2 => e \in iRepeat
      /\ \A f \in Nat \ {0} : f <= iFeed.events /\ f # e => iDone'[f] = iDone[f]
  <2>1. CASE e \in iSeen
    BY <1>2, <1>3, <2>1 DEF IrcInv, IShape, Memory, Below
  <2>2. CASE e \notin iSeen
    <3>1. Count(e)
      BY <1>2, <2>2
    <3>2. iDone[e] > 0 => e \in iRepeat
      BY <1>2, <1>3, <2>2 DEF IrcInv, Memory, Below
    <3> QED
      BY <1>2, <3>1, <3>2, CountOnce
  <2> QED
    BY <2>1, <2>2
<1>5. iPos' \in Nat /\ (iPos' = e \/ iPos' = iPos) /\ iPos' <= iPosted
  BY <1>2, <1>3 DEF IrcInv, IShape
<1>6. IShape'
  BY <1>2, <1>4, <1>5 DEF IrcInv, IShape
<1>7. Coverage'
  <2>1. ASSUME NEW f \in Nat \ {0}, f <= iPos' \/ f <= iTop
        PROVE  Covered(f)'
    <3>1. f <= iPos \/ f <= iTop
      BY <1>3, <1>5, <2>1 DEF IrcInv, IShape
    <3>2. Covered(f) /\ f <= iFeed.events
      BY <3>1, Names DEF IrcInv, Coverage, IShape
    <3> QED
      BY <1>2, <1>4, <3>2 DEF Covered
  <2> QED
    BY <1>2, <2>1 DEF Coverage
<1>8. Memory'
  <2>1. \A f \in iSeen' : f \in Nat \ {0} /\ f <= iPosted /\ iDone'[f] > 0
    BY <1>2, <1>3, <1>4, Names DEF IrcInv, Memory, IShape
  <2>2. iPos' > 0 => iDone'[iPos'] > 0
    BY <1>3, <1>4, <1>5, Names DEF IrcInv, Memory, IShape
  <2>3. \A f \in Nat \ {0} :
            f <= iFeed.events /\ iDone'[f] > 0 => f <= iPosted /\ f \in iSeen' \cup iRepeat
    BY <1>2, <1>3, <1>4 DEF IrcInv, Memory, Below
  <2>4. \A f \in Nat \ {0} : f <= iFeed.events /\ iDone'[f] = 2 => f \in iRepeat
    BY <1>2, <1>3, <1>4 DEF IrcInv, Memory, Below
  <2> QED
    BY <1>2, <2>1, <2>2, <2>3, <2>4 DEF Memory
<1> QED
  BY <1>6, <1>7, <1>8 DEF IrcInv

-----------------------------------------------------------------------------
(* irclounge. *)

(* The init event covers what is newer than the position: by its page, or  *)
(* by the older page it asks for.                                          *)
LEMMA InitStep == IrcInv /\ LoungeInit => IrcInv'
<1> SUFFICES ASSUME IrcInv, LoungeInit PROVE IrcInv'
  OBVIOUS
<1> DEFINE got == INewest(Newer)
<1>1. /\ iFeed.name = "irclounge" /\ iPc = "closed"
      /\ iPc' = "open" /\ iTop' = iPosted
      /\ iBatch' = got
      /\ iFrom' = (IF got # {} /\ IOlder(IFirst(got)) # {} THEN IFirst(got) ELSE 0)
      /\ iFeed' = iFeed /\ iPosted' = iPosted /\ iPos' = iPos /\ iStream' = iStream
      /\ iSeen' = iSeen /\ iDone' = iDone /\ iLeft' = iLeft /\ iRepeat' = iRepeat
  BY DEF LoungeInit, IOn, iMemory, iHistory
<1>2. iPosted \in Nat /\ iPos \in Nat /\ iPos <= iPosted /\ iBatch = {} /\ iFrom = 0
  BY <1>1 DEF IrcInv, IShape
<1>3. Newer \in SUBSET (1..iPosted)
  BY DEF Newer
<1>4. /\ got \subseteq Newer
      /\ \A e \in Newer \ got, g \in got : e < g
      /\ Newer # {} => got # {}
  BY <1>2, <1>3, NewestOf
<1>5. \A e \in got : e \in Nat \ {0} /\ e <= iPosted
  <2>1. \A e \in Newer : e \in Nat \ {0} /\ e <= iPosted
    BY <1>2 DEF Newer
  <2> HIDE DEF got
  <2> QED
    BY <2>1, <1>4
<1>6. got # {} => IFirst(got) \in got
  <2>1. got \in SUBSET Nat
    BY <1>5
  <2> HIDE DEF got
  <2> QED
    BY <2>1, FirstOf
<1> HIDE DEF got
<1>7. iFrom' \in Nat /\ iFrom' <= iPosted
  BY <1>1, <1>2, <1>5, <1>6
<1>8. IShape'
  <2>1. iBatch' \in SUBSET Nat /\ \A e \in iBatch' : 1 <= e /\ e <= iTop'
    BY <1>1, <1>5
  <2> QED
    BY <1>1, <1>7, <2>1 DEF IrcInv, IShape
<1>9. Coverage'
  <2>1. ASSUME NEW e \in Nat \ {0}, e <= iPos
        PROVE  iDone[e] > 0 \/ e \in iLeft
    BY <1>1, <1>2, <2>1 DEF IrcInv, Coverage, Covered
  <2>2. ASSUME NEW e \in Nat \ {0}, e <= iPosted, ~ (e <= iPos), e \notin got
        PROVE  e < iFrom'
    <3>1. e \in Newer
      BY <1>2, <2>2 DEF Newer
    <3>2. got # {} /\ e < IFirst(got)
      BY <1>4, <1>6, <2>2, <3>1
    <3>3. e \in IOlder(IFirst(got))
      BY <1>5, <1>6, <3>2 DEF IOlder
    <3> QED
      BY <1>1, <3>2, <3>3
  <2>3. \A e \in Nat \ {0} : e <= iPos \/ e <= iPosted => e <= iPosted
    BY <1>2
  <2> QED
    BY <1>1, <2>1, <2>2, <2>3 DEF Coverage, Covered
<1>10. Memory'
  BY <1>1 DEF IrcInv, Memory, Below
<1> QED
  BY <1>8, <1>9, <1>10 DEF IrcInv


(* An older page covers its messages, and what is older still is asked for *)
(* or left.                                                                *)
LEMMA MoreStep == IrcInv /\ LoungeMore => IrcInv'
<1> SUFFICES ASSUME IrcInv, LoungeMore PROVE IrcInv'
  OBVIOUS
<1> DEFINE got == INewest(IOlder(iFrom))
<1>1. /\ iFeed.name = "irclounge" /\ iPc = "open" /\ iBatch = {} /\ iFrom # 0
      /\ iFeed' = iFeed /\ iPosted' = iPosted /\ iPc' = iPc /\ iTop' = iTop
      /\ iPos' = iPos /\ iStream' = iStream /\ iSeen' = iSeen
      /\ iDone' = iDone /\ iRepeat' = iRepeat
  BY DEF LoungeMore, IOn, iMemory
<1>2. \/ /\ iBatch' = got /\ iFrom' = 0
         /\ iLeft' = iLeft \cup Unpublished(IOlder(iFrom) \ got)
      \/ /\ iBatch' = got /\ iFrom' = IFirst(got)
         /\ iLeft' = iLeft /\ Cardinality(got) = IPage
      \/ /\ iBatch' = {} /\ iFrom' = 0
         /\ iLeft' = iLeft \cup Unpublished(IOlder(iFrom))
  BY <1>1 DEF LoungeMore
<1>3. /\ iFrom \in Nat \ {0} /\ iFrom <= iTop /\ iTop <= iPosted /\ iTop \in Nat
      /\ iPosted \in Nat /\ iPos \in Nat /\ iPos <= iPosted
  BY <1>1 DEF IrcInv, IShape
<1>4. /\ IOlder(iFrom) \in SUBSET (1..iFrom)
      /\ \A e \in IOlder(iFrom) : e \in Nat \ {0} /\ e < iFrom
      /\ \A e \in Nat \ {0} : e < iFrom => e \in IOlder(iFrom)
  BY <1>3 DEF IOlder
<1>5. /\ got \subseteq IOlder(iFrom)
      /\ \A e \in IOlder(iFrom) \ got, g \in got : e < g
  BY <1>3, <1>4, NewestOf
<1>6. Cardinality(got) = IPage => got # {}
  BY FS_EmptySet, IrcAssumption
<1> HIDE DEF got
<1>7. \A e \in got : e \in Nat \ {0} /\ e < iFrom
  BY <1>4, <1>5
<1>8. Cardinality(got) = IPage => IFirst(got) \in got
  <2>1. got \in SUBSET Nat
    BY <1>7
  <2> QED
    BY <2>1, <1>6, FirstOf
<1>9. IShape'
  <2>1. iBatch' \in SUBSET Nat /\ \A e \in iBatch' : 1 <= e /\ e <= iTop'
    BY <1>1, <1>2, <1>3, <1>7
  <2>2. iFrom' \in Nat /\ iFrom' <= iTop'
    BY <1>1, <1>2, <1>3, <1>7, <1>8
  <2> QED
    BY <1>1, <2>1, <2>2 DEF IrcInv, IShape
<1>10. Coverage'
  <2>1. ASSUME NEW e \in Nat \ {0}, e <= iPosted, ~ (iDone[e] > 0), e < iFrom
        PROVE  e \in iBatch' \cup iLeft' \/ e < iFrom'
    <3>1. iDone[e] = 0
      <4>1. e \in 1..iFeed.events
        BY <2>1, Names DEF IrcInv, IShape
      <4> QED
        BY <4>1, <2>1 DEF IrcInv, IShape
    <3>2. e \in IOlder(iFrom)
      BY <1>4, <2>1
    <3>3. /\ e \in Unpublished(IOlder(iFrom))
          /\ e \notin got => e \in Unpublished(IOlder(iFrom) \ got)
      BY <3>1, <3>2 DEF Unpublished
    <3>4. Cardinality(got) = IPage /\ e \notin got => e < IFirst(got)
      BY <1>5, <1>8, <3>2
    <3> QED
      BY <1>2, <3>3, <3>4
  <2>2. ASSUME NEW e \in Nat \ {0}, e <= iPos' \/ e <= iTop'
        PROVE  Covered(e)'
    <3>1. e <= iPosted /\ (e <= iPos \/ e <= iTop)
      BY <1>1, <1>3, <2>2
    <3>2. iDone[e] > 0 \/ e \in iLeft \/ e < iFrom
      BY <1>1, <3>1 DEF IrcInv, Coverage, Covered
    <3>3. iLeft \subseteq iLeft'
      BY <1>2
    <3> QED
      BY <1>1, <2>1, <3>1, <3>2, <3>3 DEF Covered
  <2> QED
    BY <2>2 DEF Coverage
<1>11. Memory'
  BY <1>1 DEF IrcInv, Memory, Below
<1> QED
  BY <1>9, <1>10, <1>11 DEF IrcInv

(* What leaves the batch of irclounge was published, now or before, and is *)
(* remembered unless it is below the window.                               *)
LEMMA EmitStep == IrcInv /\ EmitLoungeMessage => IrcInv'
<1> SUFFICES ASSUME IrcInv, EmitLoungeMessage PROVE IrcInv'
  OBVIOUS
<1>1. PICK e \in iBatch : e = IFirst(iBatch) /\ \A f \in iBatch : e <= f
  BY FirstOf DEF EmitLoungeMessage, IrcInv, IShape
<1>2. /\ iFeed.name = "irclounge" /\ iPc = "open"
      /\ iBatch' = iBatch \ {e}
      /\ iFeed' = iFeed /\ iPosted' = iPosted /\ iPc' = iPc /\ iTop' = iTop /\ iFrom' = iFrom
      /\ iStream' = iStream /\ iLeft' = iLeft /\ iRepeat' = iRepeat
  BY <1>1 DEF EmitLoungeMessage, IOn, iBounds, iConn
<1>3. e \in Nat \ {0} /\ e <= iTop /\ e <= iPosted /\ e <= iFeed.events
  BY Names DEF IrcInv, IShape
<1>4. CASE e \in iSeen
  <2>1. iPos' = iPos /\ iSeen' = iSeen /\ iDone' = iDone
    BY <1>1, <1>4 DEF EmitLoungeMessage
  <2>2. iDone[e] > 0
    BY <1>4 DEF IrcInv, Memory
  <2>3. IShape'
    BY <1>2, <2>1 DEF IrcInv, IShape
  <2>4. Coverage'
    BY <1>2, <2>1, <2>2 DEF IrcInv, Coverage, Covered
  <2>5. Memory'
    BY <1>2, <2>1 DEF IrcInv, Memory, Below
  <2> QED
    BY <2>3, <2>4, <2>5 DEF IrcInv
<1>5. CASE e \notin iSeen
  <2>1. /\ iPos' = (IF e > iPos THEN e ELSE iPos)
        /\ iSeen' = Kept(iSeen \cup {e}, iPos')
        /\ Count(e)
    BY <1>1, <1>5 DEF EmitLoungeMessage
  <2>2. /\ iDone' \in [1..iFeed.events -> 0..2]
        /\ iDone'[e] > 0
        /\ iDone'[e] = 2 => iDone[e] > 0
        /\ \A f \in Nat \ {0} : f <= iFeed.events /\ f # e => iDone'[f] = iDone[f]
    BY <1>2, <2>1, CountOnce
  <2>3. /\ iPos \in Nat /\ iPos <= iPosted
        /\ iPos' \in Nat /\ iPos' >= iPos /\ (iPos' = e \/ iPos' = iPos) /\ iPos' <= iPosted
    BY <1>3, <2>1 DEF IrcInv, IShape
  <2>4. /\ iSeen' \subseteq iSeen \cup {e}
        /\ \A f \in iSeen \cup {e} : f \notin iSeen' => ~ (f >= iPos' - IKeep)
    BY <2>1 DEF Kept
  <2>5. IShape'
    BY <1>2, <2>2, <2>3 DEF IrcInv, IShape
  <2>6. Coverage'
    <3>1. ASSUME NEW f \in Nat \ {0}, f <= iPos' \/ f <= iTop'
          PROVE  Covered(f)'
      <4>1. f <= iPos \/ f <= iTop
        BY <1>2, <1>3, <2>3, <3>1 DEF IrcInv, IShape
      <4>2. Covered(f) /\ f <= iFeed.events
        BY <4>1, Names DEF IrcInv, Coverage, IShape
      <4> QED
        BY <1>2, <2>2, <4>2 DEF Covered
    <3> QED
      BY <3>1 DEF Coverage
  <2>7. Memory'
    <3>1. \A f \in iSeen' : f \in Nat \ {0} /\ f <= iPosted' /\ iDone'[f] > 0
      <4>1. \A f \in iSeen : f \in Nat \ {0} /\ f <= iPosted /\ f <= iFeed.events /\ iDone[f] > 0
        BY Names DEF IrcInv, Memory, IShape
      <4> QED
        BY <1>2, <1>3, <2>2, <2>4, <4>1
    <3>2. iPos' > 0 => iDone'[iPos'] > 0
      BY <1>3, <2>2, <2>3, Names DEF IrcInv, Memory, IShape
    <3>3. /\ IKeep \in Nat
          /\ iPos \in Nat /\ iPos' \in Nat /\ iPos' >= iPos
      <4>1. IKeep \in Nat
        BY IrcAssumption
      <4>2. iPosted \in Nat
        BY DEF IrcInv, IShape
      <4> QED
        BY <4>1, <4>2, <2>3
    <3>4. PICK p \in Nat, q \in Nat, k \in Nat : p = iPos /\ q = iPos' /\ k = IKeep
      BY <3>3
    <3>5. p <= q
      BY <3>3, <3>4
    <3>6. \A f \in Nat : (Below(f) <=> f < p - k) /\ (Below(f)' <=> f < q - k)
      BY <1>2, <3>4 DEF Below
    <3>7. ASSUME NEW f \in Nat \ {0}, Below(f)
          PROVE  Below(f)'
      <4>1. f < p - k
        BY <3>7, <3>6
      <4>2. f < q - k
        BY <4>1, <3>5
      <4> QED
        BY <4>2, <3>6
    <3>8. ASSUME NEW f \in Nat \ {0}, ~ (f >= iPos' - IKeep)
          PROVE  Below(f)'
      <4>1. ~ (f >= q - k)
        BY <3>8, <3>4
      <4>2. f < q - k
        BY <4>1
      <4> QED
        BY <4>2, <3>6
    <3>9. ASSUME NEW f \in Nat \ {0}, f <= iFeed.events, iDone'[f] > 0
          PROVE  f <= iPosted /\ (f \in iSeen' \cup iRepeat \/ Below(f)')
      <4>1. f <= iPosted /\ (f \in iSeen \cup {e} \/ f \in iRepeat \/ Below(f))
        <5>1. CASE f = e
          BY <5>1, <1>3
        <5>2. CASE f # e
          BY <5>2, <2>2, <3>9 DEF IrcInv, Memory
        <5> QED
          BY <5>1, <5>2
      <4>2. CASE f \in iSeen \cup {e} /\ f \notin iSeen'
        BY <4>1, <4>2, <2>4, <3>8
      <4> QED
        BY <4>1, <4>2, <3>7
    <3>10. ASSUME NEW f \in Nat \ {0}, f <= iFeed.events, iDone'[f] = 2
          PROVE  f \in iRepeat \/ Below(f)'
      <4>1. CASE f = e
        <5>1. iDone[e] > 0
          BY <2>2, <3>10, <4>1
        <5>2. e \in iRepeat \/ Below(e)
          BY <1>3, <1>5, <5>1 DEF IrcInv, Memory
        <5> QED
          BY <4>1, <5>2, <3>7
      <4>2. CASE f # e
        <5>1. f \in iRepeat \/ Below(f)
          BY <2>2, <3>10, <4>2 DEF IrcInv, Memory
        <5> QED
          BY <5>1, <3>7
      <4> QED
        BY <4>1, <4>2
    <3> QED
      BY <1>2, <3>1, <3>2, <3>9, <3>10 DEF Memory
  <2> QED
    BY <2>5, <2>6, <2>7 DEF IrcInv
<1> QED
  BY <1>4, <1>5

-----------------------------------------------------------------------------
(* The connection closes; the process ends and starts again. *)

(* What was asked for and is below the position is left when the           *)
(* connection ends.                                                        *)
LEMMA CloseStep == IrcInv /\ IrcCloses => IrcInv'
<1> SUFFICES ASSUME IrcInv, IrcCloses PROVE IrcInv'
  OBVIOUS
<1>1. /\ iPc' = "closed" /\ iTop' = 0 /\ iBatch' = {} /\ iFrom' = 0
      /\ iLeft' = iLeft \cup Unpublished(IOlder(iPos) \cap (iBatch \cup IOlder(iFrom)))
      /\ iFeed' = iFeed /\ iPosted' = iPosted /\ iPos' = iPos /\ iStream' = iStream
      /\ iSeen' = iSeen /\ iDone' = iDone /\ iRepeat' = iRepeat
  BY DEF IrcCloses, iMemory
<1>2. IShape'
  BY <1>1 DEF IrcInv, IShape
<1>3. Coverage'
  <2>1. iPos \in Nat /\ iPos <= iFeed.events /\ iFeed.events \in Nat /\ iFrom \in Nat
    BY Names DEF IrcInv, IShape
  <2>2. ASSUME NEW e \in Nat \ {0}, e <= iPos', ~ (iDone[e] > 0), e \notin iLeft,
               ~ (iFeed.name = "irccloud" /\ ~iStream)
        PROVE  e \in iLeft'
    <3>1. e <= iPos /\ (e \in iBatch \/ e < iFrom)
      BY <1>1, <2>2 DEF IrcInv, Coverage, Covered
    <3>2. iDone[e] = 0
      <4>1. e \in 1..iFeed.events
        BY <2>1, <3>1
      <4> QED
        BY <4>1, <2>2 DEF IrcInv, IShape
    <3>3. e # iPos
      BY <2>1, <2>2 DEF IrcInv, Memory
    <3>4. e \in IOlder(iPos)
      BY <2>1, <3>1, <3>3 DEF IOlder
    <3>5. e \in iBatch \cup IOlder(iFrom)
      BY <2>1, <3>1 DEF IOlder
    <3> QED
      BY <1>1, <3>2, <3>4, <3>5 DEF Unpublished
  <2>3. \A e \in Nat \ {0} : e <= iPos' \/ e <= iTop' => e <= iPos'
    BY <1>1, <2>1
  <2> QED
    BY <1>1, <2>2, <2>3 DEF Coverage, Covered
<1>4. Memory'
  BY <1>1 DEF IrcInv, Memory, Below
<1> QED
  BY <1>2, <1>3, <1>4 DEF IrcInv

(* A restart forgets the position, and with it what was to be covered. *)
LEMMA CrashStep == IrcInv /\ ICrash => IrcInv'
<1> SUFFICES ASSUME IrcInv, ICrash PROVE IrcInv'
  OBVIOUS
<1>1. /\ iPc' = "closed" /\ iTop' = 0 /\ iBatch' = {} /\ iFrom' = 0
      /\ iPos' = 0 /\ iSeen' = {}
      /\ iRepeat' = {e \in 1..iPosted : iDone[e] > 0}
      /\ iFeed' = iFeed /\ iPosted' = iPosted
      /\ iDone' = iDone /\ iLeft' = iLeft
  BY DEF ICrash
<1>2. IShape'
  BY <1>1 DEF IrcInv, IShape
<1>3. Coverage'
  BY <1>1 DEF Coverage
<1>4. Memory'
  <2>1. \A e \in Nat \ {0} : e <= iFeed.events /\ iDone[e] > 0 => e <= iPosted /\ e \in 1..iPosted
    BY DEF IrcInv, Memory, IShape
  <2>2. \A e \in Nat \ {0} : e <= iFeed.events /\ iDone[e] > 0 => e <= iPosted /\ e \in iRepeat'
    BY <1>1, <2>1
  <2>3. \A e \in Nat \ {0} : e <= iFeed.events /\ iDone[e] = 2 => e \in iRepeat'
    BY <2>2
  <2> QED
    BY <1>1, <2>2, <2>3 DEF Memory
<1> QED
  BY <1>2, <1>3, <1>4 DEF IrcInv

(* Joining channels and servers changes nothing the invariant speaks of. *)
LEMMA JoinsStep ==
    ASSUME \/ MakeServer \/ BacklogComplete \/ StatusChanged
           \/ NetworkStatus \/ NetworkLost \/ UNCHANGED iVars
    PROVE  UNCHANGED core
<1>1. CASE MakeServer
  BY <1>1 DEF MakeServer, iConn, iMemory, iHistory, core
<1>2. CASE BacklogComplete
  BY <1>2 DEF BacklogComplete, iConn, iMemory, iHistory, core
<1>3. CASE StatusChanged
  BY <1>3 DEF StatusChanged, iConn, iMemory, iHistory, core
<1>4. CASE NetworkStatus
  BY <1>4 DEF NetworkStatus, iConn, iMemory, iHistory, core
<1>5. CASE NetworkLost
  BY <1>5 DEF NetworkLost, iConn, iMemory, iHistory, core
<1>6. CASE UNCHANGED iVars
  BY <1>6 DEF iVars, iBounds, iConn, iMemory, iHistory, core
<1> QED
  BY <1>1, <1>2, <1>3, <1>4, <1>5, <1>6

-----------------------------------------------------------------------------
(* The invariant holds in every state. *)
LEMMA IrcInvAlways == IrcSpec => []IrcInv
<1>1. ASSUME IrcInv, [IrcNext]_iVars
      PROVE  IrcInv'
  <2>1. CASE IPost
    BY <1>1, <2>1, PostStep
  <2>2. CASE IrcLive
    BY <1>1, <2>2, LiveStep
  <2>3. CASE Resumed
    BY <1>1, <2>3, ResumeStep
  <2>4. CASE StreamBegins
    BY <1>1, <2>4, BeginStep
  <2>5. CASE ProcessMessage
    BY <1>1, <2>5, ProcessStep
  <2>6. CASE LoungeInit
    BY <1>1, <2>6, InitStep
  <2>7. CASE LoungeMore
    BY <1>1, <2>7, MoreStep
  <2>8. CASE EmitLoungeMessage
    BY <1>1, <2>8, EmitStep
  <2>9. CASE IrcCloses
    BY <1>1, <2>9, CloseStep
  <2>10. CASE ICrash
    BY <1>1, <2>10, CrashStep
  <2>11. CASE \/ MakeServer \/ BacklogComplete \/ StatusChanged
              \/ NetworkStatus \/ NetworkLost \/ UNCHANGED iVars
    BY <1>1, <2>11, JoinsStep, CoreFrame
  <2> QED
    BY <1>1, <2>1, <2>2, <2>3, <2>4, <2>5, <2>6, <2>7, <2>8, <2>9, <2>10, <2>11
       DEF IrcNext, IrcLoop
<1> QED
  BY <1>1, StartsWell, PTL DEF IrcSpec

(* Whatever breaks or restarts, what is older than the newest message seen *)
(* of a stream was published, or is about to be, or an answer or page that *)
(* still brings it was asked for, with the exceptions StreamHonest names;  *)
(* and nothing comes twice but after a restart or from below the window of *)
(* remembered ids.                                                         *)
THEOREM StreamTheorem == IrcSpec => []StreamHonest
BY IrcInvAlways, Honest, PTL

-----------------------------------------------------------------------------
(* The values of the other variables of an IRC backend: where it is with   *)
(* joining, its counters, and what it saw, passed over and repeats.        *)
IJoining ==
    /\ iJoin \in [joined: BOOLEAN, pending: BOOLEAN, net: BOOLEAN]
    /\ iServer \in IServer
    /\ iMember \in BOOLEAN /\ iDropped \in BOOLEAN
ICounting ==
    /\ iPc \in {"closed", "open"} /\ iStream \in BOOLEAN
    /\ iPages \in 0..IMorePages
    /\ iBreaks \in 0..iFeed.breaks /\ iCrashes \in 0..iFeed.crashes
IKnowing == iSeen \subseteq 1..iPosted /\ iLeft \subseteq 1..iPosted /\ iRepeat \subseteq 1..iPosted

(* The bounds of a behaviour are numbers, and one failure more keeps them. *)
LEMMA IrcBounds ==
    ASSUME IShape, ICounting
    PROVE  /\ iFeed.breaks \in Nat /\ iFeed.crashes \in Nat /\ iBreaks \in Nat /\ iCrashes \in Nat
           /\ Breaks \/ Fine => iBreaks' \in 0..iFeed.breaks
<1>1. iFeed.breaks \in Nat /\ iFeed.crashes \in Nat
  BY IrcAssumption DEF IShape
<1>2. iBreaks \in Nat /\ iCrashes \in Nat
  BY <1>1 DEF ICounting
<1>3. Breaks \/ Fine => iBreaks' \in 0..iFeed.breaks
  BY <1>1, <1>2 DEF ICounting, Breaks, Fine
<1> QED
  BY <1>1, <1>2, <1>3

(* What is joined, or queued to be joined, stays of its kind. *)
LEMMA FlushOf ==
    ASSUME NEW join \in [joined: BOOLEAN, pending: BOOLEAN, net: BOOLEAN], Flush(join), IJoining
    PROVE  /\ iJoin' \in [joined: BOOLEAN, pending: BOOLEAN, net: BOOLEAN]
           /\ iMember' \in BOOLEAN /\ iDropped' \in BOOLEAN
           /\ Breaks \/ Fine
<1>1. [join EXCEPT !.pending = FALSE] \in [joined: BOOLEAN, pending: BOOLEAN, net: BOOLEAN]
  OBVIOUS
<1>2. CASE join.net /\ join.pending
  BY <1>1, <1>2 DEF Flush, IJoining
<1>3. CASE ~(join.net /\ join.pending)
  <2>1. iJoin' = join /\ iDropped' = (iDropped /\ ~join.pending) /\ iMember' = iMember /\ Fine
    BY <1>3 DEF Flush
  <2> QED
    BY <2>1 DEF IJoining
<1> QED
  BY <1>2, <1>3

(* So does the server, which is counted to two. *)
LEMMA CheckServersOf ==
    ASSUME NEW srv \in IServer, NEW net \in BOOLEAN, CheckServers(srv, net), IJoining
    PROVE  IJoining' /\ (Breaks \/ Fine)
<1> DEFINE J == [joined: BOOLEAN, pending: BOOLEAN, net: BOOLEAN]
<1>1. CASE AddServer(srv)
  <2>1. CASE /\ Fine
             /\ iServer' = [srv EXCEPT !.have = IF @ = 2 THEN 2 ELSE @ + 1, !.known = TRUE, !.told = FALSE]
             /\ iJoin' = [joined |-> TRUE, pending |-> TRUE, net |-> FALSE]
             /\ iDropped' = FALSE
             /\ UNCHANGED iMember
    <3>1. PICK k \in 0..2 : k = IF srv.have = 2 THEN 2 ELSE srv.have + 1
      BY DEF IServer
    <3>2. iServer' = [[[srv EXCEPT !.have = k] EXCEPT !.known = TRUE] EXCEPT !.told = FALSE]
      BY <2>1, <3>1 DEF IServer
    <3>3. iServer' \in IServer
      BY <3>2 DEF IServer
    <3> QED
      BY <2>1, <3>3 DEF IJoining
  <2>2. CASE Breaks /\ iServer' = srv /\ iJoin' = [iJoin EXCEPT !.joined = TRUE]
             /\ iDropped' = TRUE /\ UNCHANGED iMember
    BY <2>2 DEF IJoining
  <2> QED
    BY <1>1, <2>1, <2>2 DEF AddServer
<1>2. CASE ~AddServer(srv)
  <2>1. PICK join \in J : join = [joined |-> TRUE, pending |-> iJoin.pending \/ ~iJoin.joined, net |-> net]
    BY DEF IJoining
  <2>2. iServer' = srv /\ Flush(join)
    BY <1>2, <2>1 DEF CheckServers
  <2>3. iJoin' \in J /\ iMember' \in BOOLEAN /\ iDropped' \in BOOLEAN /\ (Breaks \/ Fine)
    BY <2>2, FlushOf
  <2> QED
    BY <2>2, <2>3 DEF IJoining
<1> QED
  BY <1>1, <1>2

(* Every action keeps the state of joining well-formed. *)
LEMMA IJoiningStep == IJoining /\ [IrcNext]_iVars => IJoining'
<1> SUFFICES ASSUME IJoining, [IrcNext]_iVars PROVE IJoining'
  OBVIOUS
<1> USE DEF iBounds, iConn, iMemory, iJoins, iHistory
<1>1. CASE IPost
  BY <1>1 DEF IJoining, IPost
<1>2. CASE IrcLive
  BY <1>2 DEF IJoining, IrcLive
<1>3. CASE Resumed
  <2>1. iJoin' = [[iJoin EXCEPT !.joined = FALSE] EXCEPT !.net = FALSE] /\ UNCHANGED <<iMember, iDropped>>
    BY <1>3 DEF Resumed, JoinsBegin, IJoining
  <2>2. iServer' \in IServer
    BY <1>3 DEF Resumed, IJoining, IServer
  <2> QED
    BY <2>1, <2>2 DEF IJoining
<1>4. CASE StreamBegins
  <2>1. iJoin' = [[iJoin EXCEPT !.joined = FALSE] EXCEPT !.net = FALSE] /\ UNCHANGED <<iMember, iDropped>>
    BY <1>4 DEF StreamBegins, JoinsBegin, IJoining
  <2>2. PICK o \in BOOLEAN : iServer' = [[iServer EXCEPT !.told = FALSE] EXCEPT !.oob = o]
    BY <1>4 DEF StreamBegins, OobFails, IJoining, IServer
  <2>3. iServer' \in IServer
    BY <2>2 DEF IJoining, IServer
  <2> QED
    BY <2>1, <2>3 DEF IJoining
<1>5. CASE ProcessMessage
  BY <1>5 DEF IJoining, ProcessMessage
<1>6. CASE MakeServer
  <2>1. PICK net \in BOOLEAN, srv \in IServer : CheckServers(srv, net)
    <3>1. [[iServer EXCEPT !.known = TRUE] EXCEPT !.told = TRUE] \in IServer
      BY DEF IJoining, IServer
    <3>2. [[iServer EXCEPT !.known = TRUE] EXCEPT !.told = TRUE] = [iServer EXCEPT !.known = TRUE, !.told = TRUE]
      BY DEF IJoining, IServer
    <3> QED
      BY <1>6, <3>1, <3>2 DEF MakeServer
  <2> QED
    BY <2>1, CheckServersOf
<1>7. CASE BacklogComplete
  <2>1. iServer \in IServer /\ CheckServers(iServer, FALSE)
    BY <1>7 DEF IJoining, BacklogComplete
  <2> QED
    BY <2>1, CheckServersOf
<1>8. CASE StatusChanged
  <2>1. iServer \in IServer /\ CheckServers(iServer, TRUE)
    BY <1>8 DEF IJoining, StatusChanged
  <2> QED
    BY <2>1, CheckServersOf
<1>9. CASE LoungeInit
  <2>1. PICK join \in [joined: BOOLEAN, pending: BOOLEAN, net: BOOLEAN] : Flush(join)
    BY <1>9 DEF LoungeInit, IJoining
  <2>2. iServer' = iServer
    BY <1>9 DEF LoungeInit
  <2> QED
    BY <2>1, <2>2, FlushOf DEF IJoining
<1>10. CASE LoungeMore
  BY <1>10 DEF IJoining, LoungeMore
<1>11. CASE EmitLoungeMessage
  BY <1>11 DEF IJoining, EmitLoungeMessage
<1>12. CASE NetworkStatus
  <2>1. PICK join \in [joined: BOOLEAN, pending: BOOLEAN, net: BOOLEAN] : Flush(join)
    BY <1>12 DEF NetworkStatus, IJoining
  <2>2. iServer' = iServer
    BY <1>12 DEF NetworkStatus
  <2> QED
    BY <2>1, <2>2, FlushOf DEF IJoining
<1>13. CASE NetworkLost
  BY <1>13 DEF IJoining, NetworkLost
<1>14. CASE IrcCloses
  <2>1. iServer' = iServer /\ iMember' = iMember
    BY <1>14 DEF IrcCloses
  <2>2. CASE iFeed.name = "irccloud"
    BY <1>14, <2>1, <2>2 DEF IrcCloses, IJoining
  <2>3. CASE iFeed.name # "irccloud"
    <3>1. /\ iJoin' = [[iJoin EXCEPT !.pending = FALSE] EXCEPT !.net = FALSE]
          /\ iDropped' = (iDropped \/ iJoin.pending)
      BY <1>14, <2>3 DEF IrcCloses, IJoining
    <3> QED
      BY <2>1, <3>1 DEF IJoining
  <2> QED
    BY <2>2, <2>3
<1>15. CASE ICrash
  BY <1>15 DEF IJoining, ICrash, NoJoin, Unknown, IServer
<1>16. CASE UNCHANGED iVars
  BY <1>16 DEF IJoining, iVars
<1> QED
  BY <1>1, <1>2, <1>3, <1>4, <1>5, <1>6, <1>7, <1>8, <1>9, <1>10, <1>11, <1>12, <1>13, <1>14, <1>15, <1>16 DEF IrcNext, IrcLoop

(* Every action keeps the counters within their bounds. *)
LEMMA ICountingStep == IShape /\ ICounting /\ [IrcNext]_iVars => ICounting'
<1> SUFFICES ASSUME IShape /\ ICounting, [IrcNext]_iVars PROVE ICounting'
  OBVIOUS
<1> USE DEF iBounds, iConn, iMemory, iJoins, iHistory
<1>1. CASE IPost
  BY <1>1 DEF ICounting, IPost
<1>2. CASE IrcLive
  BY <1>2 DEF ICounting, IrcLive
<1>3. CASE Resumed
  BY <1>3 DEF ICounting, Resumed
<1>4. CASE StreamBegins
  <2>1. Breaks \/ Fine
    BY <1>4 DEF StreamBegins, OobFails
  <2>2. iBreaks' \in 0..iFeed.breaks
    BY <2>1, IrcBounds
  <2> QED
    BY <1>4, <2>2, IrcAssumption DEF StreamBegins, ICounting, OobFails
<1>5. CASE ProcessMessage
  BY <1>5 DEF ICounting, ProcessMessage
<1>6. CASE MakeServer
  <2>1. Breaks \/ Fine
    BY <1>6 DEF MakeServer, CheckServers, AddServer, Flush
  <2>2. iBreaks' \in 0..iFeed.breaks
    BY <2>1, IrcBounds
  <2> QED
    BY <1>6, <2>2 DEF MakeServer, ICounting
<1>7. CASE BacklogComplete
  <2>1. Breaks \/ Fine
    BY <1>7 DEF BacklogComplete, CheckServers, AddServer, Flush
  <2>2. iBreaks' \in 0..iFeed.breaks
    BY <2>1, IrcBounds
  <2> QED
    BY <1>7, <2>2 DEF BacklogComplete, ICounting
<1>8. CASE StatusChanged
  <2>1. Breaks \/ Fine
    BY <1>8 DEF StatusChanged, CheckServers, AddServer, Flush
  <2>2. iBreaks' \in 0..iFeed.breaks
    BY <2>1, IrcBounds
  <2> QED
    BY <1>8, <2>2 DEF StatusChanged, ICounting
<1>9. CASE LoungeInit
  <2>1. Breaks \/ Fine
    BY <1>9 DEF LoungeInit, Flush
  <2>2. iBreaks' \in 0..iFeed.breaks
    BY <2>1, IrcBounds
  <2> QED
    BY <1>9, <2>2, IrcAssumption DEF LoungeInit, ICounting
<1>10. CASE LoungeMore
  <2>1. Breaks \/ Fine
    BY <1>10 DEF LoungeMore
  <2>2. iBreaks' \in 0..iFeed.breaks
    BY <2>1, IrcBounds
  <2> QED
    BY <1>10, <2>2, IrcAssumption DEF LoungeMore, ICounting
<1>11. CASE EmitLoungeMessage
  BY <1>11 DEF ICounting, EmitLoungeMessage
<1>12. CASE NetworkStatus
  <2>1. Breaks \/ Fine
    BY <1>12 DEF NetworkStatus, Flush
  <2>2. iBreaks' \in 0..iFeed.breaks
    BY <2>1, IrcBounds
  <2> QED
    BY <1>12, <2>2, IrcAssumption DEF NetworkStatus, ICounting
<1>13. CASE NetworkLost
  <2>1. Breaks \/ Fine
    BY <1>13 DEF NetworkLost
  <2>2. iBreaks' \in 0..iFeed.breaks
    BY <2>1, IrcBounds
  <2> QED
    BY <1>13, <2>2, IrcAssumption DEF NetworkLost, ICounting
<1>14. CASE IrcCloses
  <2>1. Breaks \/ Fine
    BY <1>14 DEF IrcCloses
  <2>2. iBreaks' \in 0..iFeed.breaks
    BY <2>1, IrcBounds
  <2> QED
    BY <1>14, <2>2, IrcAssumption DEF IrcCloses, ICounting
<1>15. CASE ICrash
  <2>1. iFeed.crashes \in Nat /\ IMorePages \in Nat
    BY IrcBounds, IrcAssumption
  <2>2. iCrashes' \in 0..iFeed.crashes
    BY <1>15, <2>1 DEF ICounting, ICrash
  <2>3. iPages' \in 0..IMorePages
    BY <1>15, <2>1 DEF ICrash
  <2> QED
    BY <1>15, <2>2, <2>3 DEF ICounting, ICrash
<1>16. CASE UNCHANGED iVars
  BY <1>16 DEF ICounting, iVars
<1> QED
  BY <1>1, <1>2, <1>3, <1>4, <1>5, <1>6, <1>7, <1>8, <1>9, <1>10, <1>11, <1>12, <1>13, <1>14, <1>15, <1>16 DEF IrcNext, IrcLoop

(* Every action keeps what is known within what was posted. *)
LEMMA IKnowingStep == IShape /\ IKnowing /\ [IrcNext]_iVars => IKnowing'
<1> SUFFICES ASSUME IShape /\ IKnowing, [IrcNext]_iVars PROVE IKnowing'
  OBVIOUS
<1> USE DEF iBounds, iConn, iMemory, iJoins, iHistory
<1>1. CASE IPost
  BY <1>1 DEF IKnowing, IPost, IShape
<1>2. CASE IrcLive
  BY <1>2 DEF IKnowing, IrcLive
<1>3. CASE Resumed
  BY <1>3 DEF IKnowing, Resumed
<1>4. CASE StreamBegins
  BY <1>4 DEF IKnowing, StreamBegins, OobFails, Unpublished
<1>5. CASE ProcessMessage
  <2>1. IFirst(iBatch) \in 1..iPosted
    <3>1. iBatch \in SUBSET Nat /\ iBatch # {}
      BY <1>5 DEF ProcessMessage, IShape
    <3>2. IFirst(iBatch) \in iBatch
      BY <3>1, FirstOf
    <3>3. iTop \in Nat /\ iPosted \in Nat /\ iTop <= iPosted
      BY DEF IShape
    <3>4. IFirst(iBatch) \in Nat /\ 1 <= IFirst(iBatch) /\ IFirst(iBatch) <= iTop
      BY <3>1, <3>2 DEF IShape
    <3> QED
      BY <3>3, <3>4
  <2>2. iSeen' \subseteq iSeen \cup {IFirst(iBatch)}
    BY <1>5 DEF ProcessMessage
  <2> QED
    BY <1>5, <2>1, <2>2 DEF ProcessMessage, IKnowing
<1>6. CASE MakeServer
  BY <1>6 DEF IKnowing, MakeServer
<1>7. CASE BacklogComplete
  BY <1>7 DEF IKnowing, BacklogComplete
<1>8. CASE StatusChanged
  BY <1>8 DEF IKnowing, StatusChanged
<1>9. CASE LoungeInit
  BY <1>9 DEF IKnowing, LoungeInit
<1>10. CASE LoungeMore
  <2>1. iLeft' \subseteq iLeft \cup IOlder(iFrom)
    BY <1>10 DEF LoungeMore, Unpublished
  <2>2. IOlder(iFrom) \subseteq 1..iPosted
    BY DEF IOlder, IShape
  <2> QED
    BY <1>10, <2>1, <2>2 DEF LoungeMore, IKnowing
<1>11. CASE EmitLoungeMessage
  <2>1. IFirst(iBatch) \in 1..iPosted
    <3>1. iBatch \in SUBSET Nat /\ iBatch # {}
      BY <1>11 DEF EmitLoungeMessage, IShape
    <3>2. IFirst(iBatch) \in iBatch
      BY <3>1, FirstOf
    <3>3. iTop \in Nat /\ iPosted \in Nat /\ iTop <= iPosted
      BY DEF IShape
    <3>4. IFirst(iBatch) \in Nat /\ 1 <= IFirst(iBatch) /\ IFirst(iBatch) <= iTop
      BY <3>1, <3>2 DEF IShape
    <3> QED
      BY <3>3, <3>4
  <2>2. iSeen' \subseteq iSeen \cup {IFirst(iBatch)}
    BY <1>11 DEF EmitLoungeMessage, Kept
  <2> QED
    BY <1>11, <2>1, <2>2 DEF EmitLoungeMessage, IKnowing
<1>12. CASE NetworkStatus
  BY <1>12 DEF IKnowing, NetworkStatus
<1>13. CASE NetworkLost
  BY <1>13 DEF IKnowing, NetworkLost
<1>14. CASE IrcCloses
  <2>1. iLeft' \subseteq iLeft \cup IOlder(iPos)
    BY <1>14 DEF IrcCloses, Unpublished
  <2>2. IOlder(iPos) \subseteq 1..iPosted
    BY DEF IOlder, IShape
  <2> QED
    BY <1>14, <2>1, <2>2 DEF IrcCloses, IKnowing
<1>15. CASE ICrash
  BY <1>15 DEF IKnowing, ICrash
<1>16. CASE UNCHANGED iVars
  BY <1>16 DEF IKnowing, iVars
<1> QED
  BY <1>1, <1>2, <1>3, <1>4, <1>5, <1>6, <1>7, <1>8, <1>9, <1>10, <1>11, <1>12, <1>13, <1>14, <1>15, <1>16 DEF IrcNext, IrcLoop


(* The variables of an IRC backend keep to their values. *)
THEOREM IrcTypeTheorem == IrcSpec => []ITypeOK
<1> DEFINE Rest == IJoining /\ ICounting /\ IKnowing
<1>1. IrcInit => Rest
  <2> SUFFICES ASSUME IrcInit PROVE Rest
    OBVIOUS
  <2>1. iFeed \in IFeeds /\ iFeed.breaks \in Nat /\ iFeed.crashes \in Nat /\ IMorePages \in Nat
    BY IrcAssumption DEF IrcInit
  <2>2. IJoining
    <3>1. \A n \in {0, 1} : Unknown(n) \in IServer
      BY DEF Unknown, IServer
    <3>2. iServer \in IServer
      BY <3>1 DEF IrcInit
    <3>3. iJoin \in [joined: BOOLEAN, pending: BOOLEAN, net: BOOLEAN]
      BY DEF IrcInit, NoJoin
    <3> QED
      BY <3>2, <3>3 DEF IrcInit, IJoining
  <2>3. ICounting
    <3>1. 0 \in 0..iFeed.breaks /\ 0 \in 0..iFeed.crashes /\ 0 \in 0..IMorePages
      BY <2>1
    <3> QED
      BY <3>1 DEF IrcInit, ICounting
  <2> QED
    BY <2>2, <2>3 DEF IrcInit, IKnowing
<1>2. IrcInv /\ Rest /\ [IrcNext]_iVars => Rest'
  BY IJoiningStep, ICountingStep, IKnowingStep DEF IrcInv
<1>3. IrcInv /\ Rest => ITypeOK
  <2> SUFFICES ASSUME IrcInv, Rest PROVE ITypeOK
    OBVIOUS
  <2>1. IShape /\ iFeed.name \in {"irccloud", "irclounge"} /\ iFeed.events \in Nat
    BY Names DEF IrcInv
  <2>2. iFrom \in 0..iPosted /\ iBatch \subseteq 1..iPosted
    BY <2>1 DEF IShape
  <2> QED
    BY <2>1, <2>2 DEF IShape, IJoining, ICounting, IKnowing, ITypeOK
<1> QED
  BY <1>1, <1>2, <1>3, IrcInvAlways, PTL DEF IrcSpec

-----------------------------------------------------------------------------
(* The backends that ask for what is newer than a position.               *)

(* Published, about to be, or one of the exceptions. *)
CHandled(e) == cDone[e] > 0 \/ e \in cBatch \cup cLeft \/ Shadowed(e)

(* A position has no more in front of it than was held before.             *)
CReached(pos) == pos <= Latest \/ pos <= cShadow
CHonest(pos) == \A e \in 1..cPosted : e > cBase /\ Number(e) <= pos => CHandled(e)

CWithin ==
    /\ cFile.pos \in 0..cPosted /\ cFile.count \in 0..cPosted /\ cFile.marks \subseteq 1..cPosted
    /\ \A e \in 1..cFeed.events : cDone[e] > 0 => e <= cPosted
CPositions == CReached(cPos) /\ CReached(cTop) /\ CReached(cFile.pos)
CMarksOK == \A e \in cMarks \cup cFile.marks : cDone[e] > 0 \/ e \in cBatch \cup cLeft
CAdvanced ==
    /\ cPc \notin {"start", "off"} => cFile.pos <= cPos \/ cFile.pos <= cShadow
    /\ cPc = "publish" => cFile.pos <= cTop \/ cFile.pos <= cShadow
CHeld(pos, marks) ==
    \A e \in 1..cPosted :
        cDone[e] > 0 => e \in cRepeat \cup marks \/ e <= cBase \/ Number(e) <= pos
CKnown ==
    /\ cPc = "start" /\ cFeed.name # "tox" => CHeld(cFile.pos, cFile.marks)
    /\ cPc = "publish" => CHeld(cTop, cMarks)
    /\ cPc \in {"first", "round"} \/ At("tox", "start") => CHeld(cPos, cMarks)
CFetched ==
    /\ cBatch # {} => cPc = "publish"
    /\ \A e \in cBatch :
          /\ cDone[e] > 0 => e \in cRepeat
          /\ e > cBase => Number(e) > cFile.pos \/ Shadowed(e)
          /\ e \in cRepeat \cup cMarks \/ e <= cBase \/ Number(e) <= cTop
CBackend ==
    /\ cFeed.name \notin {"toutiao", "tieba"} => cMarks = {} /\ cFile.marks = {}
    /\ cFeed.name \in {"outlook", "tox"} => cFile.pos = 0
    /\ cFeed.name = "tox" => cPc \in {"start", "publish"}
    /\ cFeed.name = "outlook" => cPc # "first"
    /\ cFeed.name \in {"imap", "toutiao", "tieba"} => cPc # "first"
    /\ cFeed.name = "toutiao" => cBase = 0
    /\ cPc = "first" => cFile.pos = 0
    /\ cFeed.name \in {"tieba", "outlook", "tox"} /\ cPc = "publish" => cTop = cPos
COnce == \A e \in 1..cPosted : cDone[e] = 2 => e \in cRepeat

CHonestly == CHonest(cPos) /\ CHonest(cTop) /\ CHonest(cFile.pos)

CInv ==
    /\ CTypeOK /\ CWithin /\ CPositions /\ CHonestly /\ CMarksOK /\ CAdvanced /\ CKnown
    /\ CFetched /\ CBackend /\ COnce


(* The numbers of the model are naturals. *)
CNumbers ==
    /\ cPosted \in Nat /\ cBase \in Nat /\ cShadow \in Nat /\ cPos \in Nat /\ cTop \in Nat
    /\ cFile.pos \in Nat /\ cFile.count \in Nat /\ cCount \in Nat
    /\ cFeed.events \in Nat /\ cFeed.faults \in Nat /\ cFeed.crashes \in Nat
    /\ cBase <= cPosted /\ Latest \in 0..cPosted /\ Latest = cPosted - cBase

(* They are, whenever the types are kept. *)
LEMMA CNumbersOf == ASSUME CTypeOK, CWithin PROVE CNumbers
<1>1. cFeed.events \in Nat /\ cFeed.faults \in Nat /\ cFeed.crashes \in Nat
  BY CFeedsAssumption DEF CTypeOK
<1> QED
  BY <1>1 DEF CTypeOK, CWithin, CNumbers, CSaved, Latest

(* The newest of a set are among it. *)
LEMMA NewestAmong ==
    ASSUME NEW s, NEW n
    PROVE  Newest(s, n) \subseteq s
BY DEF Newest

(* What is newer than a position is posted. *)
LEMMA NewerOf ==
    ASSUME NEW pos
    PROVE  /\ NewerThan(pos) \subseteq 1..cPosted
           /\ \A e \in NewerThan(pos) : e > cBase /\ Number(e) > pos
           /\ \A e \in 1..cPosted : e > cBase /\ e \notin NewerThan(pos) => ~ (Number(e) > pos)
BY DEF NewerThan

(* The fields of the file. *)
LEMMA FileFields ==
    ASSUME CTypeOK, NEW p, NEW c, NEW m
    PROVE  /\ cFile = [pos |-> cFile.pos, count |-> cFile.count, marks |-> cFile.marks]
           /\ [cFile EXCEPT !.pos = p] = [pos |-> p, count |-> cFile.count, marks |-> cFile.marks]
           /\ [cFile EXCEPT !.marks = m] = [pos |-> cFile.pos, count |-> cFile.count, marks |-> m]
           /\ [cFile EXCEPT !.pos = p, !.marks = m] = [pos |-> p, count |-> cFile.count,
                  marks |-> m]
           /\ [cFile EXCEPT !.pos = p, !.count = c] = [pos |-> p, count |-> c,
                  marks |-> cFile.marks]
<1>1. cFile \in CSaved
  BY DEF CTypeOK
<1>2. cFile = [pos |-> cFile.pos, count |-> cFile.count, marks |-> cFile.marks]
  BY <1>1 DEF CSaved
<1>3. [cFile EXCEPT !.pos = p] = [pos |-> p, count |-> cFile.count, marks |-> cFile.marks]
  BY <1>1 DEF CSaved
<1>4. [cFile EXCEPT !.marks = m] = [pos |-> cFile.pos, count |-> cFile.count, marks |-> m]
  BY <1>1 DEF CSaved
<1>5. [cFile EXCEPT !.pos = p, !.marks = m] = [pos |-> p, count |-> cFile.count, marks |-> m]
  <2>1. [cFile EXCEPT !.pos = p, !.marks = m] = [[cFile EXCEPT !.pos = p] EXCEPT !.marks = m]
    OBVIOUS
  <2>2. [[pos |-> p, count |-> cFile.count,
            marks |-> cFile.marks] EXCEPT !.marks = m] = [pos |-> p, count |-> cFile.count,
                marks |-> m]
    OBVIOUS
  <2> QED
    BY <1>3, <2>1, <2>2
<1>6. [cFile EXCEPT !.pos = p, !.count = c] = [pos |-> p, count |-> c, marks |-> cFile.marks]
  <2>1. [cFile EXCEPT !.pos = p, !.count = c] = [[cFile EXCEPT !.pos = p] EXCEPT !.count = c]
    OBVIOUS
  <2>2. [[pos |-> p, count |-> cFile.count,
            marks |-> cFile.marks] EXCEPT !.count = c] = [pos |-> p, count |-> c,
                marks |-> cFile.marks]
    OBVIOUS
  <2> QED
    BY <1>3, <2>1, <2>2
<1> QED
  BY <1>2, <1>3, <1>4, <1>5, <1>6

(* A write stores the file, or fails. *)
LEMMA StoredOf ==
    ASSUME CTypeOK, CWithin, NEW p \in 0..cPosted, NEW c \in 0..cPosted,
        NEW m \in SUBSET (1..cPosted),
           Stored([pos |-> p, count |-> c, marks |-> m])
    PROVE  /\ cFile' \in CSaved
           /\ cFile' \in {cFile, [pos |-> p, count |-> c, marks |-> m]}
           /\ cFile'.pos \in {cFile.pos, p} /\ cFile'.count \in {cFile.count, c}
           /\ cFile'.marks \in {cFile.marks, m}
           /\ cFaults' \in 0..cFeed.faults
<1>1. CNumbers
  BY CNumbersOf
<1>2. [pos |-> p, count |-> c, marks |-> m] \in CSaved
  BY <1>1 DEF CSaved, CNumbers
<1>3. cFaults' \in 0..cFeed.faults
  BY <1>1 DEF Stored, Fails, CTypeOK, CNumbers
<1> QED
  BY <1>2, <1>3 DEF Stored, CTypeOK

(* A request that returns messages got, and passes over left, keeps the    *)
(* invariant if everything up to the new position is accounted for and     *)
(* what it returns was not published, or may be published again.           *)
LEMMA ReceiveKeeps ==
    ASSUME CInv, cPc # "publish",
           NEW got \in SUBSET (1..cPosted), NEW left \in SUBSET (1..cPosted),
               NEW top \in 0..cPosted,
           Receive(got, left, top),
           cPos' \in {cPos, cFile.pos, top}, cCount' \in 0..cPosted,
           cMarks' \in SUBSET (1..cPosted), cFaults' \in 0..cFeed.faults,
           cFile' \in {cFile, [cFile EXCEPT !.marks = cMarks']},
           CReached(top),
           \A e \in 1..cPosted :
               e > cBase /\ Number(e) <= top => CHandled(e) \/ e \in got \cup left,
           CHeld(top, cMarks'),
           \A e \in got : /\ cDone[e] > 0 => e \in cRepeat
                          /\ e > cBase => Number(e) > cFile.pos \/ Shadowed(e)
                          /\ e \in cMarks' \/ Number(e) <= top,
           cMarks' \subseteq cMarks \cup cFile.marks \cup got,
           cFile.pos <= top \/ cFile.pos <= cShadow,
           cFile.pos <= cPos' \/ cFile.pos <= cShadow,
           cFeed.name \notin {"toutiao", "tieba"} => cMarks' = {},
           cFeed.name \in {"tieba", "outlook", "tox"} => cPos' = top
    PROVE  CInv'
<1>1. CNumbers
  BY CNumbersOf DEF CInv
<1>2. cBatch = {}
  BY DEF CInv, CFetched
<1>3. /\ cPc' = "publish" /\ cBatch' = got /\ cTop' = top /\ cLeft' = cLeft \cup left
      /\ UNCHANGED <<cFeed, cPosted, cBase, cShadow, cCrashes, cDone, cRepeat>>
  BY DEF Receive, cServer
<1>4. /\ cFile'.pos = cFile.pos /\ cFile'.count = cFile.count
      /\ cFile'.marks \in {cFile.marks, cMarks'}
      /\ cFile' = [pos |-> cFile.pos, count |-> cFile.count, marks |-> cFile'.marks]
      /\ cFile' = cFile \/ cFile'.marks = cMarks'
  BY FileFields DEF CInv
<1>5. cFile'.marks \subseteq cMarks \cup cFile.marks \cup got /\ cFile'.marks \subseteq 1..cPosted
  BY <1>4 DEF CInv, CWithin
<1>6. CTypeOK'
  <2>1. /\ cFeed' \in CFeeds /\ cFeed'.name \in CNames /\ cPosted' \in 0..cFeed'.events
        /\ cBase' \in 0..cPosted' /\ cShadow' \in 0..cPosted'
    BY <1>3 DEF CInv, CTypeOK
  <2>2. cPos' \in 0..cPosted' /\ cCount' \in 0..cPosted' /\ cMarks' \subseteq 1..cPosted'
    BY <1>1, <1>3 DEF CInv, CTypeOK, CWithin, CNumbers
  <2>3. cFile' \in CSaved
    <3>1. cFile'.marks \in SUBSET Nat
      BY <1>1, <1>5 DEF CNumbers
    <3> QED
      BY <1>1, <1>4, <3>1 DEF CNumbers, CSaved
  <2>4. /\ cPc' \in CPCs /\ cBatch' \subseteq 1..cPosted' /\ cTop' \in 0..cPosted'
        /\ cLeft' \subseteq 1..cPosted' /\ cRepeat' \subseteq 1..cPosted'
    BY <1>3 DEF CInv, CTypeOK, CPCs
  <2>5. /\ cFaults' \in 0..cFeed'.faults /\ cCrashes' \in 0..cFeed'.crashes
        /\ cDone' \in [1..cFeed'.events -> 0..2]
    BY <1>3 DEF CInv, CTypeOK
  <2> QED
    BY <2>1, <2>2, <2>3, <2>4, <2>5 DEF CTypeOK
<1>7. CWithin'
  BY <1>1, <1>3, <1>4, <1>5 DEF CInv, CTypeOK, CNumbers, CWithin
<1>8. CPositions'
  BY <1>1, <1>3, <1>4 DEF CInv, CNumbers, CPositions, CReached, Latest
<1>9. CHonestly'
  BY <1>1, <1>2, <1>3, <1>4 DEF CInv, CNumbers, CHonestly, CHonest, CHandled, Number, Shadowed
<1>10. CMarksOK'
  BY <1>2, <1>3, <1>4, <1>5 DEF CInv, CMarksOK
<1>11. CAdvanced'
  BY <1>1, <1>3, <1>4 DEF CInv, CAdvanced
<1>12. CKnown'
  BY <1>1, <1>3, <1>4 DEF CInv, CKnown, CHeld, Number, At
<1>13. CFetched'
  BY <1>1, <1>3, <1>4 DEF CInv, CFetched, Number, Shadowed
<1>14. CBackend'
  BY <1>1, <1>3, <1>4 DEF CInv, CBackend
<1>15. COnce'
  BY <1>1, <1>3 DEF CInv, COnce
<1> QED
  BY <1>6, <1>7, <1>8, <1>9, <1>10, <1>11, <1>12, <1>13, <1>14, <1>15 DEF CInv

(* A round in which the position is that of memory, everything newer is    *)
(* returned or passed over, and there are no marks.                        *)
LEMMA RoundKeeps ==
    ASSUME CInv, cFeed.name \in {"misskey", "imap", "outlook", "tox"},
           cPc = "round" \/ At("tox", "start"),
           NEW got \in SUBSET NewerThan(cPos), NEW left \in SUBSET NewerThan(cPos),
           NewerThan(cPos) \subseteq got \cup left,
           Receive(got, left, Latest),
           cPos' \in {cPos, Latest}, cFeed.name \in {"outlook", "tox"} => cPos' = Latest,
           UNCHANGED <<cCount, cMarks, cFile>>, cFaults' \in 0..cFeed.faults
    PROVE  CInv'
<1>1. CNumbers
  BY CNumbersOf DEF CInv
<1>2. got \in SUBSET (1..cPosted) /\ left \in SUBSET (1..cPosted)
  BY NewerOf
<1>3. \A e \in got : e > cBase /\ Number(e) > cPos /\ Number(e) <= Latest /\ e \in 1..cPosted
  BY <1>1, <1>2, NewerOf DEF CNumbers, Number
<1>4. \A e \in 1..cPosted : e > cBase /\ Number(e) <= Latest => CHandled(e) \/ e \in got \cup left
  BY <1>1, NewerOf DEF CInv, CHonestly, CHonest, CNumbers, Number
<1>5. CHeld(Latest, cMarks')
  BY <1>1 DEF CHeld, CNumbers, Number
<1>6. Latest \in 0..cPosted /\ CReached(Latest) /\ cPc # "publish"
  BY <1>1 DEF CNumbers, CReached, At
<1>7. cFile.pos <= Latest \/ cFile.pos <= cShadow
  BY <1>1 DEF CInv, CPositions, CReached, CNumbers
<1>8. cFile.pos <= cPos \/ cFile.pos <= cShadow
  BY <1>1 DEF CInv, CAdvanced, CBackend, CNumbers, At
<1>9. cMarks = {} /\ cFile.marks = {}
  BY DEF CInv, CBackend
<1>10. \A e \in got : /\ cDone[e] > 0 => e \in cRepeat
                      /\ e > cBase => Number(e) > cFile.pos \/ Shadowed(e)
  BY <1>1, <1>3, <1>8, <1>9 DEF CInv, CKnown, CHeld, CNumbers, Number, Shadowed, At
<1>11. cCount' \in 0..cPosted /\ cMarks' \in SUBSET (1..cPosted) /\ cMarks' = {}
  BY <1>9 DEF CInv, CTypeOK
<1>12. cFile.pos <= cPos' \/ cFile.pos <= cShadow
  BY <1>7, <1>8
<1>13. cFeed.name \in {"tieba", "outlook", "tox"} => cPos' = Latest
  OBVIOUS
<1> QED
  BY <1>2, <1>3, <1>4, <1>5, <1>6, <1>7, <1>10, <1>11, <1>12, <1>13, ReceiveKeeps


(* The message posted lies before no position, except in the shadow. *)
LEMMA CPostKeeps ==
    ASSUME CInv, CPost
    PROVE  CInv'
<1>1. CNumbers
  BY CNumbersOf DEF CInv
<1>2. /\ cPosted' = cPosted + 1 /\ cPosted < cFeed.events
      /\ UNCHANGED <<cFeed, cBase, cShadow, cPc, cPos, cCount, cMarks, cFile, cBatch, cTop, cFaults,
                     cCrashes, cDone, cLeft, cRepeat>>
  BY FileFields DEF CInv, CPost, cServer, cStore, cFlight, cHistory
<1>3. CTypeOK'
  BY <1>1, <1>2 DEF CInv, CNumbers, CTypeOK, CWithin, CSaved, CPCs, CNames
<1>4. CWithin'
  BY <1>1, <1>2 DEF CInv, CNumbers, CWithin, CTypeOK, CSaved
<1>5. CPositions'
  BY <1>1, <1>2 DEF CInv, CNumbers, CPositions, CReached, Latest
<1>6. CHonestly'
  BY <1>1, <1>2
     DEF CInv, CNumbers, CHonestly, CPositions, CReached, Latest, CHonest, CHandled,
         Shadowed, Number, CMarksOK, CFetched, CBackend, CTypeOK
<1>7. CMarksOK'
  BY <1>1, <1>2 DEF CInv, CNumbers, CMarksOK, CFetched
<1>8. CAdvanced'
  BY <1>1, <1>2 DEF CInv, CNumbers, CAdvanced, CBackend, CPositions, CReached, Latest
<1>9. CKnown'
  BY <1>1, <1>2 DEF CInv, CNumbers, CKnown, CHeld, Number, At, CWithin, CTypeOK, CBackend, CFetched
<1>10. CFetched'
  BY <1>1, <1>2 DEF CInv, CNumbers, CFetched, Number, Shadowed, CBackend
<1>11. CBackend'
  BY <1>1, <1>2 DEF CInv, CNumbers, CBackend
<1>12. COnce'
  BY <1>1, <1>2 DEF CInv, CNumbers, COnce, CTypeOK, CWithin, CFetched
<1> QED
  BY <1>3, <1>4, <1>5, <1>6, <1>7, <1>8, <1>9, <1>10, <1>11, <1>12 DEF CInv

(* The positions held are in the shadow, and all messages before the base. *)
LEMMA RenumberKeeps ==
    ASSUME CInv, Renumber
    PROVE  CInv'
<1>1. CNumbers
  BY CNumbersOf DEF CInv
<1>2. /\ cBase = 0 /\ cPosted > 0 /\ cBase' = cPosted /\ cFeed.renumbers > 0
      /\ cShadow' \in {cPos, cTop, cFile.pos}
      /\ cPos <= cShadow' /\ cTop <= cShadow' /\ cFile.pos <= cShadow'
      /\ UNCHANGED <<cFeed, cPosted, cPc, cPos, cCount, cMarks, cFile, cBatch, cTop, cFaults,
                     cCrashes, cDone, cLeft, cRepeat>>
  <2> DEFINE held == {cPos, cTop, cFile.pos}
  <2>1. \E p \in held : \A q \in held : q <= p
    BY <1>1 DEF CNumbers
  <2>2. cShadow' \in held /\ \A q \in held : q <= cShadow'
    BY <2>1 DEF Renumber
  <2> QED
    BY <2>2 DEF Renumber, cStore, cFlight, cHistory
<1>3. CTypeOK'
  BY <1>1, <1>2 DEF CInv, CNumbers, CTypeOK, CWithin, CSaved, CPCs, CNames
<1>4. CWithin'
  BY <1>1, <1>2 DEF CInv, CNumbers, CWithin, CTypeOK, CSaved
<1>5. CPositions'
  BY <1>1, <1>2 DEF CInv, CNumbers, CPositions, CReached, Latest
<1>6. CHonestly'
  BY <1>1, <1>2
     DEF CInv, CNumbers, CHonestly, CPositions, CReached, Latest, CHonest, CHandled,
         Shadowed, Number, CMarksOK, CFetched, CBackend, CTypeOK
<1>7. CMarksOK'
  BY <1>1, <1>2 DEF CInv, CNumbers, CMarksOK, CFetched
<1>8. CAdvanced'
  BY <1>1, <1>2 DEF CInv, CNumbers, CAdvanced, CBackend, CPositions, CReached, Latest
<1>9. CKnown'
  BY <1>1, <1>2 DEF CInv, CNumbers, CKnown, CHeld, Number, At, CWithin, CTypeOK, CBackend, CFetched
<1>10. CFetched'
  BY <1>1, <1>2 DEF CInv, CNumbers, CTypeOK, CFetched
<1>11. CBackend'
  BY <1>1, <1>2, CFeedsAssumption DEF CInv, CNumbers, CBackend, CTypeOK
<1>12. COnce'
  BY <1>1, <1>2 DEF CInv, CNumbers, COnce, CTypeOK, CWithin, CFetched
<1> QED
  BY <1>3, <1>4, <1>5, <1>6, <1>7, <1>8, <1>9, <1>10, <1>11, <1>12 DEF CInv

(* The message published was not published before, or may be again. *)
LEMMA CPublishKeeps ==
    ASSUME CInv, CPublish
    PROVE  CInv'
<1>1. CNumbers
  BY CNumbersOf DEF CInv
<1>2. PICK e \in cBatch :
          /\ cPc = "publish" /\ cBatch' = cBatch \ {e}
          /\ cDone' = [cDone EXCEPT ![e] = IF @ = 2 THEN 2 ELSE @ + 1]
          /\ UNCHANGED <<cFeed, cPosted, cBase, cShadow, cPc, cPos, cCount, cMarks, cFile, cTop,
                         cFaults, cCrashes, cLeft, cRepeat>>
  BY FileFields DEF CInv, CPublish, cServer, cStore, cFlight, cHistory
<1>3. CTypeOK'
  BY <1>1, <1>2 DEF CInv, CNumbers, CTypeOK, CWithin, CSaved, CPCs, CNames
<1>4. CWithin'
  BY <1>1, <1>2 DEF CInv, CNumbers, CWithin, CTypeOK, CSaved
<1>5. CPositions'
  BY <1>1, <1>2 DEF CInv, CNumbers, CPositions, CReached, Latest
<1>6. CHonestly'
  <2>1. cDone'[e] > 0 /\ \A f \in 1..cFeed.events : f # e => cDone'[f] = cDone[f]
    BY <1>1, <1>2 DEF CInv, CNumbers, CTypeOK
  <2>2. 1..cPosted \subseteq 1..cFeed.events
    BY <1>1 DEF CInv, CNumbers, CTypeOK
  <2> QED
    BY <1>1, <1>2, <2>1, <2>2
       DEF CInv, CNumbers, CHonestly, CHonest, CHandled, Number, Shadowed
<1>7. CMarksOK'
  <2>1. cDone'[e] > 0 /\ \A f \in 1..cFeed.events : f # e => cDone'[f] = cDone[f]
    BY <1>1, <1>2 DEF CInv, CNumbers, CTypeOK
  <2>2. 1..cPosted \subseteq 1..cFeed.events
    BY <1>1 DEF CInv, CNumbers, CTypeOK
  <2> QED
    BY <1>2, <2>1, <2>2 DEF CInv, CMarksOK, CTypeOK, CWithin
<1>8. CAdvanced'
  BY <1>1, <1>2 DEF CInv, CNumbers, CAdvanced, CBackend, CPositions, CReached, Latest
<1>9. CKnown'
  BY <1>1, <1>2 DEF CInv, CNumbers, CKnown, CHeld, Number, At, CWithin, CTypeOK, CBackend, CFetched
<1>10. CFetched'
  BY <1>1, <1>2 DEF CInv, CNumbers, CFetched, Number, Shadowed, CBackend
<1>11. CBackend'
  BY <1>1, <1>2 DEF CInv, CNumbers, CBackend
<1>12. COnce'
  BY <1>1, <1>2 DEF CInv, CNumbers, COnce, CTypeOK, CWithin, CFetched
<1> QED
  BY <1>3, <1>4, <1>5, <1>6, <1>7, <1>8, <1>9, <1>10, <1>11, <1>12 DEF CInv

(* Nothing moves. *)
LEMMA StartFailsKeeps ==
    ASSUME CInv, StartFails
    PROVE  CInv'
<1>1. CNumbers
  BY CNumbersOf DEF CInv
<1>2. /\ cPc = "start" /\ cPc' = "off" /\ cFaults' \in 0..cFeed.faults /\ cFeed.name # "tox"
      /\ UNCHANGED <<cFeed, cPosted, cBase, cShadow, cPos, cCount, cMarks, cFile, cBatch, cTop,
                     cCrashes, cDone, cLeft, cRepeat>>
  BY <1>1 DEF CInv, CTypeOK, CNumbers, StartFails, Fails, cServer, cStore, cFlight, cHistory
<1>3. CTypeOK'
  BY <1>1, <1>2 DEF CInv, CNumbers, CTypeOK, CWithin, CSaved, CPCs, CNames
<1>4. CWithin'
  BY <1>1, <1>2 DEF CInv, CNumbers, CWithin, CTypeOK, CSaved
<1>5. CPositions'
  BY <1>1, <1>2 DEF CInv, CNumbers, CPositions, CReached, Latest
<1>6. CHonestly'
  BY <1>1, <1>2
     DEF CInv, CNumbers, CHonestly, CPositions, CReached, Latest, CHonest, CHandled,
         Shadowed, Number, CMarksOK, CFetched, CBackend, CTypeOK
<1>7. CMarksOK'
  BY <1>1, <1>2 DEF CInv, CNumbers, CMarksOK, CFetched
<1>8. CAdvanced'
  BY <1>1, <1>2 DEF CInv, CNumbers, CAdvanced, CBackend, CPositions, CReached, Latest
<1>9. CKnown'
  BY <1>1, <1>2 DEF CInv, CNumbers, CKnown, CHeld, Number, At, CWithin, CTypeOK, CBackend, CFetched
<1>10. CFetched'
  BY <1>1, <1>2 DEF CInv, CNumbers, CFetched, Number, Shadowed, CBackend
<1>11. CBackend'
  BY <1>1, <1>2 DEF CInv, CNumbers, CBackend
<1>12. COnce'
  BY <1>1, <1>2 DEF CInv, CNumbers, COnce, CTypeOK, CWithin, CFetched
<1> QED
  BY <1>3, <1>4, <1>5, <1>6, <1>7, <1>8, <1>9, <1>10, <1>11, <1>12 DEF CInv

(* The position is that of the file. *)
LEMMA MisskeyStartKeeps ==
    ASSUME CInv, MisskeyStart
    PROVE  CInv'
<1>1. CNumbers
  BY CNumbersOf DEF CInv
<1>2. /\ cFeed.name = "misskey" /\ cPc = "start" /\ cPos' = cFile.pos
      /\ cPc' \in {"first", "round"} /\ (cPc' = "first" => cFile.pos = 0)
      /\ UNCHANGED <<cFeed, cPosted, cBase, cShadow, cCount, cMarks, cFile, cBatch, cTop,
                     cFaults, cCrashes, cDone, cLeft, cRepeat>>
  BY FileFields DEF CInv, MisskeyStart, cServer, cStore, cFlight, cHistory, At
<1>3. CTypeOK'
  BY <1>1, <1>2 DEF CInv, CNumbers, CTypeOK, CWithin, CSaved, CPCs, CNames
<1>4. CWithin'
  BY <1>1, <1>2 DEF CInv, CNumbers, CWithin, CTypeOK, CSaved
<1>5. CPositions'
  BY <1>1, <1>2 DEF CInv, CNumbers, CPositions, CReached, Latest
<1>6. CHonestly'
  BY <1>1, <1>2
     DEF CInv, CNumbers, CHonestly, CPositions, CReached, Latest, CHonest, CHandled,
         Shadowed, Number, CMarksOK, CFetched, CBackend, CTypeOK
<1>7. CMarksOK'
  BY <1>1, <1>2 DEF CInv, CNumbers, CMarksOK, CFetched
<1>8. CAdvanced'
  BY <1>1, <1>2 DEF CInv, CNumbers, CAdvanced, CBackend, CPositions, CReached, Latest
<1>9. CKnown'
  BY <1>1, <1>2 DEF CInv, CNumbers, CKnown, CHeld, Number, At, CWithin, CTypeOK, CBackend, CFetched
<1>10. CFetched'
  BY <1>1, <1>2 DEF CInv, CNumbers, CFetched, Number, Shadowed, CBackend
<1>11. CBackend'
  BY <1>1, <1>2 DEF CInv, CNumbers, CBackend
<1>12. COnce'
  BY <1>1, <1>2 DEF CInv, CNumbers, COnce, CTypeOK, CWithin, CFetched
<1> QED
  BY <1>3, <1>4, <1>5, <1>6, <1>7, <1>8, <1>9, <1>10, <1>11, <1>12 DEF CInv

(* All notes are passed over. *)
LEMMA MisskeyFirstKeeps ==
    ASSUME CInv, MisskeyFirst
    PROVE  CInv'
<1>1. CNumbers
  BY CNumbersOf DEF CInv
<1>2. /\ cFeed.name = "misskey" /\ cPc = "first" /\ cPos' = Latest /\ cPc' = "round"
      /\ cFaults' \in 0..cFeed.faults
      /\ cFile' \in CSaved /\ cFile'.pos \in {cFile.pos, Latest}
      /\ cFile'.count \in {cFile.count, cFile.count} /\ cFile'.marks \in {cFile.marks, cFile.marks}
      /\ cLeft' = cLeft \cup NewerThan(0)
      /\ UNCHANGED <<cFeed, cPosted, cBase, cShadow, cCount, cMarks, cBatch, cTop,
                     cCrashes, cDone, cRepeat>>
  <2>1. Stored([pos |-> Latest, count |-> cFile.count, marks |-> cFile.marks])
            \/ UNCHANGED <<cFile, cFaults>>
    BY FileFields DEF CInv, MisskeyFirst, At, cServer, cFlight
  <2>2. cFile' \in CSaved /\ cFile'.pos \in {cFile.pos, Latest}
            /\ cFile'.count \in {cFile.count, cFile.count}
        /\ cFile'.marks \in {cFile.marks, cFile.marks} /\ cFaults' \in 0..cFeed.faults
    BY <1>1, <2>1, StoredOf DEF CInv, CTypeOK, CWithin, CNumbers
  <2> QED
    BY <2>2 DEF MisskeyFirst, At, cServer, cFlight
<1>3. CTypeOK'
  <2>1. NewerThan(0) \subseteq 1..cPosted
    BY NewerOf
  <2> QED
    BY <1>1, <1>2, <2>1 DEF CInv, CNumbers, CTypeOK, CWithin, CPCs, CNames
<1>4. CWithin'
  BY <1>1, <1>2 DEF CInv, CNumbers, CWithin, CTypeOK, CSaved
<1>5. CPositions'
  BY <1>1, <1>2 DEF CInv, CNumbers, CPositions, CReached, Latest
<1>6. CHonestly'
  <2>1. \A e \in 1..cPosted : e > cBase => e \in NewerThan(0)
    BY <1>1, NewerOf DEF CNumbers, Number
  <2> QED
    BY <1>1, <1>2, <2>1 DEF CInv, CNumbers, CHonestly, CHonest, CHandled, Number, Shadowed, CTypeOK
<1>7. CMarksOK'
  BY <1>1, <1>2 DEF CInv, CNumbers, CMarksOK, CFetched
<1>8. CAdvanced'
  BY <1>1, <1>2 DEF CInv, CNumbers, CAdvanced, CBackend, CPositions, CReached, Latest
<1>9. CKnown'
  BY <1>1, <1>2 DEF CInv, CNumbers, CKnown, CHeld, Number, At, CWithin, CTypeOK, CBackend, CFetched
<1>10. CFetched'
  BY <1>1, <1>2 DEF CInv, CNumbers, CFetched, Number, Shadowed, CBackend
<1>11. CBackend'
  BY <1>1, <1>2 DEF CInv, CNumbers, CBackend
<1>12. COnce'
  BY <1>1, <1>2 DEF CInv, CNumbers, COnce, CTypeOK, CWithin, CFetched
<1> QED
  BY <1>3, <1>4, <1>5, <1>6, <1>7, <1>8, <1>9, <1>10, <1>11, <1>12 DEF CInv

(* The batch was published. *)
LEMMA PositionMovesKeeps ==
    ASSUME CInv, PositionMoves
    PROVE  CInv'
<1>1. CNumbers
  BY CNumbersOf DEF CInv
<1>2. /\ cFeed.name \in {"misskey", "imap", "toutiao"} /\ cPc = "publish" /\ cBatch = {}
      /\ cPos' = cTop /\ cPc' = "round"
      /\ cFaults' \in 0..cFeed.faults
      /\ cFile' \in CSaved /\ cFile'.pos \in {cFile.pos, cTop}
      /\ cFile'.count \in {cFile.count, cFile.count} /\ cFile'.marks \in {cFile.marks, cMarks}
      /\ UNCHANGED <<cFeed, cPosted, cBase, cShadow, cCount, cMarks, cBatch, cTop,
                     cCrashes, cDone, cLeft, cRepeat>>
  <2>1. Stored([pos |-> cTop, count |-> cFile.count, marks |-> cMarks])
    BY FileFields DEF CInv, PositionMoves, cServer, cFlight, cHistory
  <2>2. cFile' \in CSaved /\ cFile'.pos \in {cFile.pos, cTop}
            /\ cFile'.count \in {cFile.count, cFile.count}
        /\ cFile'.marks \in {cFile.marks, cMarks} /\ cFaults' \in 0..cFeed.faults
    BY <1>1, <2>1, StoredOf DEF CInv, CTypeOK, CWithin, CNumbers
  <2> QED
    BY <2>2 DEF PositionMoves, cServer, cFlight, cHistory
<1>3. CTypeOK'
  BY <1>1, <1>2 DEF CInv, CNumbers, CTypeOK, CWithin, CSaved, CPCs, CNames
<1>4. CWithin'
  BY <1>1, <1>2 DEF CInv, CNumbers, CWithin, CTypeOK, CSaved
<1>5. CPositions'
  BY <1>1, <1>2 DEF CInv, CNumbers, CPositions, CReached, Latest
<1>6. CHonestly'
  BY <1>1, <1>2
     DEF CInv, CNumbers, CHonestly, CPositions, CReached, Latest, CHonest, CHandled,
         Shadowed, Number, CMarksOK, CFetched, CBackend, CTypeOK
<1>7. CMarksOK'
  BY <1>1, <1>2 DEF CInv, CNumbers, CMarksOK, CFetched
<1>8. CAdvanced'
  BY <1>1, <1>2 DEF CInv, CNumbers, CAdvanced, CBackend, CPositions, CReached, Latest
<1>9. CKnown'
  BY <1>1, <1>2 DEF CInv, CNumbers, CKnown, CHeld, Number, At, CWithin, CTypeOK, CBackend, CFetched
<1>10. CFetched'
  BY <1>1, <1>2 DEF CInv, CNumbers, CFetched, Number, Shadowed, CBackend
<1>11. CBackend'
  BY <1>1, <1>2 DEF CInv, CNumbers, CBackend
<1>12. COnce'
  BY <1>1, <1>2 DEF CInv, CNumbers, COnce, CTypeOK, CWithin, CFetched
<1> QED
  BY <1>3, <1>4, <1>5, <1>6, <1>7, <1>8, <1>9, <1>10, <1>11, <1>12 DEF CInv

(* All messages are passed over, or the folder is. *)
LEMMA OutlookStartKeeps ==
    ASSUME CInv, OutlookStart
    PROVE  CInv'
<1>1. CNumbers
  BY CNumbersOf DEF CInv
<1>2. /\ cFeed.name = "outlook" /\ cPc = "start" /\ cFaults' \in 0..cFeed.faults
      /\ \/ cPc' = "round" /\ cPos' = Latest /\ cLeft' = cLeft \cup NewerThan(0)
         \/ cPc' = "skipped" /\ cPos' = cPos /\ cLeft' = cLeft
      /\ UNCHANGED <<cFeed, cPosted, cBase, cShadow, cCount, cMarks, cFile, cBatch, cTop,
                     cCrashes, cDone, cRepeat>>
  BY <1>1 DEF CInv, CTypeOK, CNumbers, OutlookStart, InitDeltaSync, At, Fails, cServer, cFlight
<1>3. CTypeOK'
  <2>1. NewerThan(0) \subseteq 1..cPosted
    BY NewerOf
  <2> QED
    BY <1>1, <1>2, <2>1 DEF CInv, CNumbers, CTypeOK, CWithin, CPCs, CNames
<1>4. CWithin'
  BY <1>1, <1>2 DEF CInv, CNumbers, CWithin, CTypeOK, CSaved
<1>5. CPositions'
  BY <1>1, <1>2 DEF CInv, CNumbers, CPositions, CReached, Latest
<1>6. CHonestly'
  <2>1. \A e \in 1..cPosted : e > cBase => e \in NewerThan(0)
    BY <1>1, NewerOf DEF CNumbers, Number
  <2> QED
    BY <1>1, <1>2, <2>1 DEF CInv, CNumbers, CHonestly, CHonest, CHandled, Number, Shadowed, CTypeOK
<1>7. CMarksOK'
  BY <1>1, <1>2 DEF CInv, CNumbers, CMarksOK, CFetched
<1>8. CAdvanced'
  BY <1>1, <1>2 DEF CInv, CNumbers, CAdvanced, CBackend, CPositions, CReached, Latest
<1>9. CKnown'
  BY <1>1, <1>2 DEF CInv, CNumbers, CKnown, CHeld, Number, At, CWithin, CTypeOK, CBackend, CFetched
<1>10. CFetched'
  BY <1>1, <1>2 DEF CInv, CNumbers, CFetched, Number, Shadowed, CBackend
<1>11. CBackend'
  BY <1>1, <1>2 DEF CInv, CNumbers, CBackend
<1>12. COnce'
  BY <1>1, <1>2 DEF CInv, CNumbers, COnce, CTypeOK, CWithin, CFetched
<1> QED
  BY <1>3, <1>4, <1>5, <1>6, <1>7, <1>8, <1>9, <1>10, <1>11, <1>12 DEF CInv

(* The position is that of the batch already. *)
LEMMA BatchEndsKeeps ==
    ASSUME CInv, BatchEnds
    PROVE  CInv'
<1>1. CNumbers
  BY CNumbersOf DEF CInv
<1>2. /\ cFeed.name \in {"outlook", "tox"} /\ cPc = "publish" /\ cBatch = {}
      /\ cPc' = IF cFeed.name = "tox" THEN "start" ELSE "round"
      /\ UNCHANGED <<cFeed, cPosted, cBase, cShadow, cPos, cCount, cMarks, cFile, cBatch, cTop,
                     cFaults, cCrashes, cDone, cLeft, cRepeat>>
  BY FileFields DEF CInv, BatchEnds, cServer, cStore, cFlight, cHistory
<1>3. CTypeOK'
  BY <1>1, <1>2 DEF CInv, CNumbers, CTypeOK, CWithin, CSaved, CPCs, CNames
<1>4. CWithin'
  BY <1>1, <1>2 DEF CInv, CNumbers, CWithin, CTypeOK, CSaved
<1>5. CPositions'
  BY <1>1, <1>2 DEF CInv, CNumbers, CPositions, CReached, Latest
<1>6. CHonestly'
  BY <1>1, <1>2
     DEF CInv, CNumbers, CHonestly, CPositions, CReached, Latest, CHonest, CHandled,
         Shadowed, Number, CMarksOK, CFetched, CBackend, CTypeOK
<1>7. CMarksOK'
  BY <1>1, <1>2 DEF CInv, CNumbers, CMarksOK, CFetched
<1>8. CAdvanced'
  BY <1>1, <1>2 DEF CInv, CNumbers, CAdvanced, CBackend, CPositions, CReached, Latest
<1>9. CKnown'
  BY <1>1, <1>2 DEF CInv, CNumbers, CKnown, CHeld, Number, At, CWithin, CTypeOK, CBackend, CFetched
<1>10. CFetched'
  BY <1>1, <1>2 DEF CInv, CNumbers, CFetched, Number, Shadowed, CBackend
<1>11. CBackend'
  BY <1>1, <1>2 DEF CInv, CNumbers, CBackend
<1>12. COnce'
  BY <1>1, <1>2 DEF CInv, CNumbers, COnce, CTypeOK, CWithin, CFetched
<1> QED
  BY <1>3, <1>4, <1>5, <1>6, <1>7, <1>8, <1>9, <1>10, <1>11, <1>12 DEF CInv

(* The position and the marks are those of the file. *)
LEMMA ToutiaoStartKeeps ==
    ASSUME CInv, ToutiaoStart
    PROVE  CInv'
<1>1. CNumbers
  BY CNumbersOf DEF CInv
<1>2. /\ cFeed.name = "toutiao" /\ cPc = "start" /\ cPc' = "round"
      /\ cPos' = cFile.pos /\ cMarks' = cFile.marks
      /\ UNCHANGED <<cFeed, cPosted, cBase, cShadow, cCount, cFile, cBatch, cTop,
                     cFaults, cCrashes, cDone, cLeft, cRepeat>>
  BY FileFields DEF CInv, ToutiaoStart, cServer, cStore, cFlight, cHistory, At
<1>3. CTypeOK'
  BY <1>1, <1>2 DEF CInv, CNumbers, CTypeOK, CWithin, CSaved, CPCs, CNames
<1>4. CWithin'
  BY <1>1, <1>2 DEF CInv, CNumbers, CWithin, CTypeOK, CSaved
<1>5. CPositions'
  BY <1>1, <1>2 DEF CInv, CNumbers, CPositions, CReached, Latest
<1>6. CHonestly'
  BY <1>1, <1>2
     DEF CInv, CNumbers, CHonestly, CPositions, CReached, Latest, CHonest, CHandled,
         Shadowed, Number, CMarksOK, CFetched, CBackend, CTypeOK
<1>7. CMarksOK'
  BY <1>1, <1>2 DEF CInv, CNumbers, CMarksOK, CFetched
<1>8. CAdvanced'
  BY <1>1, <1>2 DEF CInv, CNumbers, CAdvanced, CBackend, CPositions, CReached, Latest
<1>9. CKnown'
  BY <1>1, <1>2 DEF CInv, CNumbers, CKnown, CHeld, Number, At, CWithin, CTypeOK, CBackend, CFetched
<1>10. CFetched'
  BY <1>1, <1>2 DEF CInv, CNumbers, CFetched, Number, Shadowed, CBackend
<1>11. CBackend'
  BY <1>1, <1>2 DEF CInv, CNumbers, CBackend
<1>12. COnce'
  BY <1>1, <1>2 DEF CInv, CNumbers, COnce, CTypeOK, CWithin, CFetched
<1> QED
  BY <1>3, <1>4, <1>5, <1>6, <1>7, <1>8, <1>9, <1>10, <1>11, <1>12 DEF CInv

(* The position, the count and the marks are those of the file. *)
LEMMA TiebaStartKeeps ==
    ASSUME CInv, TiebaStart
    PROVE  CInv'
<1>1. CNumbers
  BY CNumbersOf DEF CInv
<1>2. /\ cFeed.name = "tieba" /\ cPc = "start" /\ cPc' = "round"
      /\ cPos' = cFile.pos /\ cCount' = cFile.count /\ cMarks' = cFile.marks
      /\ UNCHANGED <<cFeed, cPosted, cBase, cShadow, cFile, cBatch, cTop,
                     cFaults, cCrashes, cDone, cLeft, cRepeat>>
  BY FileFields DEF CInv, TiebaStart, cServer, cStore, cFlight, cHistory, At
<1>3. CTypeOK'
  BY <1>1, <1>2 DEF CInv, CNumbers, CTypeOK, CWithin, CSaved, CPCs, CNames
<1>4. CWithin'
  BY <1>1, <1>2 DEF CInv, CNumbers, CWithin, CTypeOK, CSaved
<1>5. CPositions'
  BY <1>1, <1>2 DEF CInv, CNumbers, CPositions, CReached, Latest
<1>6. CHonestly'
  BY <1>1, <1>2
     DEF CInv, CNumbers, CHonestly, CPositions, CReached, Latest, CHonest, CHandled,
         Shadowed, Number, CMarksOK, CFetched, CBackend, CTypeOK
<1>7. CMarksOK'
  BY <1>1, <1>2 DEF CInv, CNumbers, CMarksOK, CFetched
<1>8. CAdvanced'
  BY <1>1, <1>2 DEF CInv, CNumbers, CAdvanced, CBackend, CPositions, CReached, Latest
<1>9. CKnown'
  BY <1>1, <1>2 DEF CInv, CNumbers, CKnown, CHeld, Number, At, CWithin, CTypeOK, CBackend, CFetched
<1>10. CFetched'
  BY <1>1, <1>2 DEF CInv, CNumbers, CFetched, Number, Shadowed, CBackend
<1>11. CBackend'
  BY <1>1, <1>2 DEF CInv, CNumbers, CBackend
<1>12. COnce'
  BY <1>1, <1>2 DEF CInv, CNumbers, COnce, CTypeOK, CWithin, CFetched
<1> QED
  BY <1>3, <1>4, <1>5, <1>6, <1>7, <1>8, <1>9, <1>10, <1>11, <1>12 DEF CInv

(* What loses its mark may be published again. *)
LEMMA PruneStateKeeps ==
    ASSUME CInv, PruneState
    PROVE  CInv'
<1>1. CNumbers
  BY CNumbersOf DEF CInv
<1>2. PICK kept \in SUBSET cMarks :
          /\ cFeed.name = "toutiao" /\ cPc = "round" /\ cMarks' = kept
          /\ cFaults' \in 0..cFeed.faults
          /\ cFile' \in CSaved /\ cFile'.pos \in {cFile.pos, cPos}
          /\ cFile'.count \in {cFile.count, cFile.count} /\ cFile'.marks \in {cFile.marks, kept}
          /\ cRepeat' = cRepeat \cup (cMarks \ kept)
          /\ UNCHANGED <<cFeed, cPosted, cBase, cShadow, cPc, cPos, cCount, cBatch, cTop,
                         cCrashes, cDone, cLeft>>
  <2>0. PICK kept \in SUBSET cMarks :
          /\ cMarks' = kept /\ Stored([cFile EXCEPT !.pos = cPos, !.marks = kept])
          /\ cRepeat' = cRepeat \cup (cMarks \ kept)
    BY DEF PruneState
  <2>3. kept \in SUBSET (1..cPosted)
    BY DEF CInv, CTypeOK
  <2>1. Stored([pos |-> cPos, count |-> cFile.count, marks |-> kept])
    BY <2>0, FileFields DEF CInv
  <2>2. cFile' \in CSaved /\ cFile'.pos \in {cFile.pos, cPos} /\ cFile'.count \in {cFile.count}
        /\ cFile'.marks \in {cFile.marks, kept} /\ cFaults' \in 0..cFeed.faults
    BY <1>1, <2>1, <2>3, StoredOf DEF CInv, CTypeOK, CWithin, CNumbers
  <2> QED
    BY <2>0, <2>2 DEF PruneState, At, cServer, cFlight
<1>3. CTypeOK'
  BY <1>1, <1>2 DEF CInv, CNumbers, CTypeOK, CWithin, CSaved, CPCs, CNames
<1>4. CWithin'
  BY <1>1, <1>2 DEF CInv, CNumbers, CWithin, CTypeOK, CSaved
<1>5. CPositions'
  BY <1>1, <1>2 DEF CInv, CNumbers, CPositions, CReached, Latest
<1>6. CHonestly'
  BY <1>1, <1>2
     DEF CInv, CNumbers, CHonestly, CPositions, CReached, Latest, CHonest, CHandled,
         Shadowed, Number, CMarksOK, CFetched, CBackend, CTypeOK
<1>7. CMarksOK'
  BY <1>1, <1>2 DEF CInv, CNumbers, CMarksOK, CFetched
<1>8. CAdvanced'
  BY <1>1, <1>2 DEF CInv, CNumbers, CAdvanced, CBackend, CPositions, CReached, Latest
<1>9. CKnown'
  BY <1>1, <1>2 DEF CInv, CNumbers, CKnown, CHeld, Number, At, CWithin, CTypeOK, CBackend, CFetched
<1>10. CFetched'
  BY <1>1, <1>2 DEF CInv, CNumbers, CFetched, Number, Shadowed, CBackend
<1>11. CBackend'
  BY <1>1, <1>2 DEF CInv, CNumbers, CBackend
<1>12. COnce'
  BY <1>1, <1>2 DEF CInv, CNumbers, COnce, CTypeOK, CWithin, CFetched
<1> QED
  BY <1>3, <1>4, <1>5, <1>6, <1>7, <1>8, <1>9, <1>10, <1>11, <1>12 DEF CInv

(* The position stored is that of the batch. *)
LEMMA TiebaStoredKeeps ==
    ASSUME CInv, TiebaStored
    PROVE  CInv'
<1>1. CNumbers
  BY CNumbersOf DEF CInv
<1>2. /\ cFeed.name = "tieba" /\ cPc = "publish" /\ cBatch = {} /\ cPc' = "round"
      /\ cFaults' \in 0..cFeed.faults
      /\ cFile' \in CSaved /\ cFile'.pos \in {cFile.pos, cTop}
      /\ cFile'.count \in {cFile.count, cCount} /\ cFile'.marks \in {cFile.marks, cFile.marks}
      /\ UNCHANGED <<cFeed, cPosted, cBase, cShadow, cPos, cCount, cMarks, cBatch, cTop,
                     cCrashes, cDone, cLeft, cRepeat>>
  <2>1. Stored([pos |-> cTop, count |-> cCount, marks |-> cFile.marks])
    BY FileFields DEF CInv, TiebaStored, At, cServer, cFlight, cHistory
  <2>2. cFile' \in CSaved /\ cFile'.pos \in {cFile.pos, cTop}
            /\ cFile'.count \in {cFile.count, cCount}
        /\ cFile'.marks \in {cFile.marks, cFile.marks} /\ cFaults' \in 0..cFeed.faults
    BY <1>1, <2>1, StoredOf DEF CInv, CTypeOK, CWithin, CNumbers
  <2> QED
    BY <2>2 DEF TiebaStored, At, cServer, cFlight, cHistory
<1>3. CTypeOK'
  BY <1>1, <1>2 DEF CInv, CNumbers, CTypeOK, CWithin, CSaved, CPCs, CNames
<1>4. CWithin'
  BY <1>1, <1>2 DEF CInv, CNumbers, CWithin, CTypeOK, CSaved
<1>5. CPositions'
  BY <1>1, <1>2 DEF CInv, CNumbers, CPositions, CReached, Latest
<1>6. CHonestly'
  BY <1>1, <1>2
     DEF CInv, CNumbers, CHonestly, CPositions, CReached, Latest, CHonest, CHandled,
         Shadowed, Number, CMarksOK, CFetched, CBackend, CTypeOK
<1>7. CMarksOK'
  BY <1>1, <1>2 DEF CInv, CNumbers, CMarksOK, CFetched
<1>8. CAdvanced'
  BY <1>1, <1>2 DEF CInv, CNumbers, CAdvanced, CBackend, CPositions, CReached, Latest
<1>9. CKnown'
  BY <1>1, <1>2 DEF CInv, CNumbers, CKnown, CHeld, Number, At, CWithin, CTypeOK, CBackend, CFetched
<1>10. CFetched'
  BY <1>1, <1>2 DEF CInv, CNumbers, CFetched, Number, Shadowed, CBackend
<1>11. CBackend'
  BY <1>1, <1>2 DEF CInv, CNumbers, CBackend
<1>12. COnce'
  BY <1>1, <1>2 DEF CInv, CNumbers, COnce, CTypeOK, CWithin, CFetched
<1> QED
  BY <1>3, <1>4, <1>5, <1>6, <1>7, <1>8, <1>9, <1>10, <1>11, <1>12 DEF CInv

(* What was published and is not stored may be published again. *)
LEMMA CCrashKeeps ==
    ASSUME CInv, CCrash
    PROVE  CInv'
<1>1. CNumbers
  BY CNumbersOf DEF CInv
<1>2. /\ cCrashes' \in 0..cFeed.crashes /\ cPc' = "start"
      /\ cPos' = 0 /\ cCount' = 0 /\ cMarks' = {} /\ cBatch' = {} /\ cTop' = 0
      /\ cLeft' = cLeft \cup (cBatch \cap cFile.marks)
      /\ cRepeat' = cRepeat \cup {e \in 1..cPosted : cDone[e] > 0 /\ e \notin cFile.marks
                                                     /\ (e <= cBase \/ Number(e) > cFile.pos)}
      /\ UNCHANGED <<cFeed, cPosted, cBase, cShadow, cFile, cFaults, cDone>>
  BY <1>1 DEF CInv, CTypeOK, CNumbers, CCrash, cServer
<1>3. CTypeOK'
  <2>1. cCrashes' \in 0..cFeed.crashes /\ cRepeat' \subseteq 1..cPosted
            /\ cLeft' \subseteq 1..cPosted
    BY <1>1, <1>2 DEF CInv, CTypeOK
  <2>2. /\ cPc' = "start"
        /\ cPos' = 0 /\ cCount' = 0 /\ cMarks' = {} /\ cBatch' = {} /\ cTop' = 0
        /\ UNCHANGED <<cFeed, cPosted, cBase, cShadow, cFile, cFaults, cDone>>
    BY <1>2
  <2> QED
    BY <1>1, <2>1, <2>2 DEF CInv, CNumbers, CTypeOK, CPCs
<1>4. CWithin'
  BY <1>1, <1>2 DEF CInv, CNumbers, CWithin, CTypeOK, CSaved
<1>5. CPositions'
  BY <1>1, <1>2 DEF CInv, CNumbers, CPositions, CReached, Latest
<1>6. CHonestly'
  BY <1>1, <1>2
     DEF CInv, CNumbers, CHonestly, CPositions, CReached, Latest, CHonest, CHandled,
         Shadowed, Number, CMarksOK, CFetched, CBackend, CTypeOK
<1>7. CMarksOK'
  BY <1>1, <1>2 DEF CInv, CNumbers, CMarksOK, CFetched
<1>8. CAdvanced'
  BY <1>1, <1>2 DEF CInv, CNumbers, CAdvanced, CBackend, CPositions, CReached, Latest
<1>9. CKnown'
  BY <1>1, <1>2 DEF CInv, CNumbers, CKnown, CHeld, Number, At, CWithin, CTypeOK, CBackend, CFetched
<1>10. CFetched'
  BY <1>1, <1>2 DEF CInv, CNumbers, CFetched, Number, Shadowed, CBackend
<1>11. CBackend'
  BY <1>1, <1>2 DEF CInv, CNumbers, CBackend
<1>12. COnce'
  BY <1>1, <1>2 DEF CInv, CNumbers, COnce, CTypeOK, CWithin, CFetched
<1> QED
  BY <1>3, <1>4, <1>5, <1>6, <1>7, <1>8, <1>9, <1>10, <1>11, <1>12 DEF CInv

(* What is newer than the position is returned, or passed over. *)
LEMMA MisskeyRoundKeeps ==
    ASSUME CInv, MisskeyRound
    PROVE  CInv'
<1>1. CNumbers
  BY CNumbersOf DEF CInv
<1> DEFINE got == Newest(NewerThan(cPos), CPage)
           left == NewerThan(cPos) \ got
<1>2. /\ cFeed.name = "misskey" /\ cPc = "round" /\ Receive(got, left, Latest)
      /\ UNCHANGED <<cPos, cCount, cMarks, cFile, cFaults>>
  BY DEF MisskeyRound, At, cStore
<1>3. got \subseteq NewerThan(cPos)
  BY NewestAmong
<1>4. left \subseteq NewerThan(cPos) /\ NewerThan(cPos) \subseteq got \cup left
  OBVIOUS
<1> HIDE DEF got, left
<1> QED
  BY <1>1, <1>2, <1>3, <1>4, RoundKeeps DEF CInv, CTypeOK, CNumbers

(* The first sync starts from the position of the file. *)
LEMMA ImapStartKeeps ==
    ASSUME CInv, ImapStart
    PROVE  CInv'
<1>1. CNumbers
  BY CNumbersOf DEF CInv
<1> DEFINE uids == IF cFile.pos = 0 THEN Newest(NewerThan(0), CPage) ELSE NewerThan(cFile.pos)
<1>2. /\ cFeed.name = "imap" /\ cPc = "start" /\ cPos' = cFile.pos
      /\ UNCHANGED <<cCount, cMarks, cFile>>
  BY DEF ImapStart, At
<1>3. uids \subseteq NewerThan(cFile.pos)
  BY NewestAmong
<1>4. CASE Fetched(uids, NewerThan(cFile.pos) \ uids)
  <2>1. PICK got \in SUBSET uids :
            /\ Receive(got, (NewerThan(cFile.pos) \ uids) \cup (uids \ got), Latest)
            /\ IF got = uids THEN UNCHANGED cFaults ELSE Fails
    BY <1>4 DEF Fetched
  <2> DEFINE left == (NewerThan(cFile.pos) \ uids) \cup (uids \ got)
  <2>2. cFaults' \in 0..cFeed.faults
    BY <1>1, <2>1 DEF Fails, CInv, CTypeOK, CNumbers
  <2>3. got \subseteq NewerThan(cFile.pos) /\ left \subseteq NewerThan(cFile.pos)
        /\ NewerThan(cFile.pos) \subseteq got \cup left
    BY <1>3
  <2>4. Receive(got, left, Latest)
    BY <2>1
  <2> HIDE DEF left, uids
  <2>5. got \in SUBSET (1..cPosted) /\ left \in SUBSET (1..cPosted)
    BY <2>3, NewerOf
  <2>6. \A e \in got : e > cBase /\ Number(e) > cFile.pos /\ Number(e) <= Latest /\ e \in 1..cPosted
    BY <1>1, <2>3, <2>5, NewerOf DEF CNumbers, Number
  <2>7. \A e \in 1..cPosted : e > cBase /\ Number(e) <= Latest => CHandled(e) \/ e \in got \cup left
    BY <1>1, <2>3, NewerOf DEF CInv, CHonestly, CHonest, CNumbers, Number
  <2>8. CHeld(Latest, cMarks')
    BY <1>1, <2>6 DEF CHeld, CNumbers, Number
  <2>9. /\ Latest \in 0..cPosted /\ (cFile.pos <= Latest \/ cFile.pos <= cShadow)
        /\ CReached(Latest) /\ cFile.pos <= cFile.pos
    BY <1>1 DEF CNumbers, CReached, CInv, CPositions
  <2>10. cMarks = {} /\ cFile.marks = {}
    BY <1>2 DEF CInv, CBackend
  <2>11. \A e \in got : cDone[e] > 0 => e \in cRepeat
    BY <1>1, <1>2, <2>6, <2>10 DEF CInv, CKnown, CHeld, CNumbers, Number
  <2>12. cCount' \in 0..cPosted /\ cMarks' \in SUBSET (1..cPosted)
    BY <1>2 DEF CInv, CTypeOK
  <2> QED
    BY <1>2, <2>2, <2>4, <2>5, <2>6, <2>7, <2>8, <2>9, <2>10, <2>11, <2>12, ReceiveKeeps
<1>5. CASE ~ Fetched(uids, NewerThan(cFile.pos) \ uids)
  <2>1. /\ cPc' = "round" /\ cFaults' \in 0..cFeed.faults
        /\ UNCHANGED <<cFeed, cPosted, cBase, cShadow, cBatch, cTop, cCrashes, cDone, cLeft,
               cRepeat>>
    BY <1>1, <1>5 DEF ImapStart, Fails, CInv, CTypeOK, CNumbers, cServer, cFlight, cHistory
  <2>2. CTypeOK'
    BY <1>1, <1>2, <2>1 DEF CInv, CNumbers, CTypeOK, CWithin, CSaved, CPCs, CNames
  <2>3. CWithin'
    BY <1>1, <1>2, <2>1 DEF CInv, CNumbers, CWithin, CTypeOK, CSaved
  <2>4. CPositions'
    BY <1>1, <1>2, <2>1 DEF CInv, CNumbers, CPositions, CReached, Latest
  <2>5. CHonestly'
    BY <1>1, <1>2, <2>1
       DEF CInv, CNumbers, CHonestly, CPositions, CReached, Latest, CHonest, CHandled,
           Shadowed, Number, CMarksOK, CFetched, CBackend, CTypeOK
  <2>6. CMarksOK'
    BY <1>1, <1>2, <2>1 DEF CInv, CNumbers, CMarksOK, CFetched
  <2>7. CAdvanced'
    BY <1>1, <1>2, <2>1 DEF CInv, CNumbers, CAdvanced, CBackend, CPositions, CReached, Latest
  <2>8. CKnown'
    BY <1>1, <1>2, <2>1
       DEF CInv, CNumbers, CKnown, CHeld, Number, At, CWithin, CTypeOK, CBackend, CFetched
  <2>9. CFetched'
    BY <1>1, <1>2, <2>1 DEF CInv, CNumbers, CFetched, Number, Shadowed, CBackend
  <2>10. CBackend'
    BY <1>1, <1>2, <2>1 DEF CInv, CNumbers, CBackend
  <2>11. COnce'
    BY <1>1, <1>2, <2>1 DEF CInv, CNumbers, COnce, CTypeOK, CWithin, CFetched
  <2> QED
    BY <2>2, <2>3, <2>4, <2>5, <2>6, <2>7, <2>8, <2>9, <2>10, <2>11 DEF CInv
<1> QED
  BY <1>4, <1>5

(* As much for the rounds that follow. *)
LEMMA ImapRoundKeeps ==
    ASSUME CInv, ImapRound
    PROVE  CInv'
<1>1. CNumbers
  BY CNumbersOf DEF CInv
<1>2. /\ cFeed.name = "imap" /\ cPc = "round" /\ Fetched(NewerThan(cPos), {})
      /\ UNCHANGED <<cPos, cCount, cMarks, cFile>>
  BY DEF ImapRound, At, cStore
<1>3. PICK got \in SUBSET NewerThan(cPos) :
          /\ Receive(got, {} \cup (NewerThan(cPos) \ got), Latest)
          /\ IF got = NewerThan(cPos) THEN UNCHANGED cFaults ELSE Fails
  BY <1>2 DEF Fetched
<1> DEFINE left == NewerThan(cPos) \ got
<1>4. Receive(got, left, Latest)
  BY <1>3, {} \cup left = left
<1>5. cFaults' \in 0..cFeed.faults
  BY <1>1, <1>3 DEF Fails, CInv, CTypeOK, CNumbers
<1>6. left \subseteq NewerThan(cPos) /\ NewerThan(cPos) \subseteq got \cup left
  OBVIOUS
<1> HIDE DEF left
<1> QED
  BY <1>1, <1>2, <1>4, <1>5, <1>6, RoundKeeps DEF CInv, CTypeOK, CNumbers

(* The link moves before the batch is published. *)
LEMMA OutlookRoundKeeps ==
    ASSUME CInv, OutlookRound
    PROVE  CInv'
<1>1. CNumbers
  BY CNumbersOf DEF CInv
<1>2. /\ cFeed.name = "outlook" /\ cPc = "round" /\ cPos' = Latest
      /\ Receive(NewerThan(cPos), {}, Latest)
      /\ UNCHANGED <<cCount, cMarks, cFile, cFaults>>
  BY DEF OutlookRound, At
<1> QED
  BY <1>1, <1>2, RoundKeeps DEF CInv, CTypeOK, CNumbers

(* The header is the position already, or becomes it. *)
LEMMA ToxRoundKeeps ==
    ASSUME CInv, ToxRound
    PROVE  CInv'
<1>1. CNumbers
  BY CNumbersOf DEF CInv
<1>2. /\ cFeed.name = "tox" /\ cPc = "start"
      /\ UNCHANGED <<cCount, cMarks, cFile>>
  BY DEF ToxRound, At
<1>3. CASE cPos' = Latest /\ Receive(NewerThan(cPos), {}, Latest) /\ UNCHANGED cFaults
  <2>1. cFaults' \in 0..cFeed.faults
    BY <1>3 DEF CInv, CTypeOK
  <2> QED
    BY <1>2, <1>3, <2>1, RoundKeeps DEF At
<1>4. CASE ~ (cPos' = Latest /\ Receive(NewerThan(cPos), {}, Latest) /\ UNCHANGED cFaults)
  <2>1. /\ cPos' = Header /\ cFaults' \in 0..cFeed.faults
        /\ cLeft' = cLeft \cup (NewerThan(cPos) \ NewerThan(Header))
        /\ UNCHANGED <<cFeed, cPosted, cBase, cShadow, cPc, cBatch, cTop, cCrashes, cDone, cRepeat>>
    BY <1>1, <1>4 DEF ToxRound, Fails, CInv, CTypeOK, CNumbers, cServer, cFlight
  <2>2. CTypeOK'
    BY <1>1, <1>2, <2>1, NewerOf DEF CInv, CNumbers, CTypeOK, CWithin, CSaved, CPCs, CNames, Header
  <2>3. CWithin'
    BY <1>1, <1>2, <2>1, NewerOf DEF CInv, CNumbers, CWithin, CTypeOK, CSaved, Header
  <2>4. CPositions'
    BY <1>1, <1>2, <2>1, NewerOf DEF CInv, CNumbers, CPositions, CReached, Latest, Header
  <2>5. CHonestly'
    BY <1>1, <1>2, <2>1, NewerOf
       DEF CInv, CNumbers, CHonestly, CPositions, CReached, Latest, CHonest, CHandled,
           Shadowed, Number, CMarksOK, CFetched, CBackend, CTypeOK, Header
  <2>6. CMarksOK'
    BY <1>1, <1>2, <2>1, NewerOf DEF CInv, CNumbers, CMarksOK, CFetched, Header
  <2>7. CAdvanced'
    BY <1>1, <1>2, <2>1, NewerOf
       DEF CInv, CNumbers, CAdvanced, CBackend, CPositions, CReached, Latest, Header
  <2>8. CKnown'
    BY <1>1, <1>2, <2>1, NewerOf
       DEF CInv, CNumbers, CKnown, CHeld, Number, At, CWithin, CTypeOK, CBackend,
           CFetched, Header
  <2>9. CFetched'
    BY <1>1, <1>2, <2>1, NewerOf DEF CInv, CNumbers, CFetched, Number, Shadowed, CBackend, Header
  <2>10. CBackend'
    BY <1>1, <1>2, <2>1, NewerOf DEF CInv, CNumbers, CBackend, Header
  <2>11. COnce'
    BY <1>1, <1>2, <2>1, NewerOf DEF CInv, CNumbers, COnce, CTypeOK, CWithin, CFetched, Header
  <2> QED
    BY <2>2, <2>3, <2>4, <2>5, <2>6, <2>7, <2>8, <2>9, <2>10, <2>11 DEF CInv
<1> QED
  BY <1>3, <1>4

(* What a page shows and has no mark is marked and returned; what it does  *)
(* not show of what it passes is passed over.                              *)
LEMMA NewsRoundKeeps ==
    ASSUME CInv, NewsRound
    PROVE  CInv'
<1>1. CNumbers
  BY CNumbersOf DEF CInv
<1>2. cFeed.name = "toutiao" /\ cPc = "round" /\ UNCHANGED <<cPos, cCount, cFile, cFaults>>
  BY DEF NewsRound, At
<1>3. PICK page \in SUBSET (1..cPosted), first \in 1..cPosted :
          /\ first \in page /\ first > cPos
          /\ Receive((page \cap NewerThan(cPos)) \ cMarks,
                     (NewerThan(cPos) \ NewerThan(first)) \ (page \cup cMarks), first)
          /\ cMarks' = cMarks \cup ((page \cap NewerThan(cPos)) \ cMarks)
  BY DEF NewsRound
<1> DEFINE got == (page \cap NewerThan(cPos)) \ cMarks
           left == (NewerThan(cPos) \ NewerThan(first)) \ (page \cup cMarks)
<1>4. /\ first \in 0..cPosted /\ first \in Nat /\ cBase = 0 /\ cPos < first
      /\ \A e \in 1..cPosted : Number(e) = e /\ e > cBase
  BY <1>1, <1>2, <1>3 DEF CInv, CBackend, CNumbers, Number
<1>5. got \in SUBSET (1..cPosted) /\ left \in SUBSET (1..cPosted)
  BY NewerOf
<1>6. /\ Receive(got, left, first) /\ cMarks' = cMarks \cup got
      /\ cMarks' \in SUBSET (1..cPosted) /\ cCount' \in 0..cPosted /\ cFaults' \in 0..cFeed.faults
  BY <1>2, <1>3, <1>5 DEF CInv, CTypeOK
<1>7. \A e \in 1..cPosted :
          e > cBase /\ Number(e) <= first => CHandled(e) \/ e \in got \cup left
  <2> SUFFICES ASSUME NEW e \in 1..cPosted, e <= first
               PROVE  CHandled(e) \/ e \in got \cup left
    BY <1>4
  <2>1. CASE e <= cPos
    BY <1>4, <2>1 DEF CInv, CHonestly, CHonest
  <2>2. CASE e \in cMarks
    BY <2>2 DEF CInv, CMarksOK, CHandled
  <2>3. CASE e > cPos /\ e \notin cMarks
    <3>1. e \in NewerThan(cPos) /\ e \notin NewerThan(first)
      BY <1>1, <1>4, <2>3, NewerOf DEF CNumbers
    <3> QED
      BY <2>3, <3>1
  <2> QED
    BY <1>1, <2>1, <2>2, <2>3 DEF CNumbers
<1>8. \A e \in got : e \in cMarks' /\ e \notin cMarks /\ e > cPos /\ e \in 1..cPosted
  BY <1>3, <1>4, <1>5, NewerOf
<1> HIDE DEF got, left
<1>9. cFile.pos <= cPos \/ cFile.pos <= cShadow
  BY <1>2 DEF CInv, CAdvanced
<1>10. CHeld(first, cMarks')
  BY <1>1, <1>2, <1>4, <1>6 DEF CInv, CKnown, CHeld, CNumbers
<1>11. \A e \in got : /\ cDone[e] > 0 => e \in cRepeat
                      /\ e > cBase => Number(e) > cFile.pos \/ Shadowed(e)
  BY <1>1, <1>2, <1>4, <1>8, <1>9 DEF CInv, CKnown, CHeld, CNumbers, Shadowed
<1>13. cPc # "publish" /\ cPos' \in {cPos, cFile.pos, first}
           /\ cFile' \in {cFile, [cFile EXCEPT !.marks = cMarks']}
  BY <1>2
<1>14. cFile.pos <= first \/ cFile.pos <= cShadow
  BY <1>1, <1>4, <1>9 DEF CNumbers
<1>15. cFile.pos <= cPos' \/ cFile.pos <= cShadow
  BY <1>2, <1>9
<1>16. CReached(first)
  BY <1>1, <1>4 DEF CNumbers, CReached
<1> QED
  BY <1>2, <1>4, <1>5, <1>6, <1>7, <1>8, <1>10, <1>11, <1>13, <1>14, <1>15, <1>16, ReceiveKeeps

(* The replies that have no mark are marked and returned. *)
LEMMA TiebaRoundKeeps ==
    ASSUME CInv, TiebaRound
    PROVE  CInv'
<1>1. CNumbers
  BY CNumbersOf DEF CInv
<1>2. cFeed.name = "tieba" /\ cPc = "round" /\ cCount' = cPosted
  BY DEF TiebaRound, At
<1>3. CASE cPos' = Latest /\ ProcessLatestPosts(Newest(NewerThan(cPos), CPage))
  <2> DEFINE new == Newest(NewerThan(cPos), CPage)
             got == new \ cMarks
             left == NewerThan(cPos) \ new
  <2>1. /\ cMarks' = cMarks \cup new /\ Receive(got, left, Latest)
        /\ \/ UNCHANGED <<cFile, cFaults>>
           \/ Stored([cFile EXCEPT !.marks = cMarks'])
    BY <1>3 DEF ProcessLatestPosts
  <2>2. new \subseteq NewerThan(cPos)
    BY NewestAmong
  <2>3. got \in SUBSET (1..cPosted) /\ left \in SUBSET (1..cPosted) /\ new \subseteq 1..cPosted
    BY <2>2, NewerOf
  <2>4. cFile' \in {cFile, [cFile EXCEPT !.marks = cMarks']} /\ cFaults' \in 0..cFeed.faults
    BY <1>1, <2>1 DEF Stored, Fails, CInv, CTypeOK, CNumbers
  <2>5. cMarks' \in SUBSET (1..cPosted) /\ cMarks' \subseteq cMarks \cup got
    BY <2>1, <2>3 DEF CInv, CTypeOK
  <2>6. \A e \in got : e \in new /\ e \notin cMarks /\ e \in cMarks'
    BY <2>1
  <2>7. NewerThan(cPos) \subseteq got \cup left \cup cMarks
    OBVIOUS
  <2> HIDE DEF new, got, left
  <2>8. \A e \in got : e > cBase /\ Number(e) > cPos /\ e \in 1..cPosted
    BY <2>2, <2>3, <2>6, NewerOf
  <2>9. \A e \in 1..cPosted : e > cBase /\ Number(e) <= Latest => CHandled(e) \/ e \in got \cup left
    <3> SUFFICES ASSUME NEW e \in 1..cPosted, e > cBase
                 PROVE  CHandled(e) \/ e \in got \cup left
      OBVIOUS
    <3>1. CASE e \in cMarks
      BY <3>1 DEF CInv, CMarksOK, CHandled
    <3>2. CASE e \in NewerThan(cPos) /\ e \notin cMarks
      BY <2>7, <3>2
    <3>3. CASE e \notin NewerThan(cPos)
      BY <1>1, <3>3, NewerOf DEF CInv, CHonestly, CHonest, CNumbers, Number
    <3> QED
      BY <3>1, <3>2, <3>3
  <2>10. CHeld(Latest, cMarks')
    BY <1>1 DEF CHeld, CNumbers, Number
  <2>11. cFile.pos <= cPos \/ cFile.pos <= cShadow
    BY <1>2 DEF CInv, CAdvanced
  <2>12. cFile.pos <= Latest \/ cFile.pos <= cShadow
    BY <1>1 DEF CInv, CPositions, CReached, CNumbers
  <2>13. \A e \in got : /\ cDone[e] > 0 => e \in cRepeat
                        /\ e > cBase => Number(e) > cFile.pos \/ Shadowed(e)
    BY <1>1, <1>2, <2>6, <2>8, <2>11 DEF CInv, CKnown, CHeld, CNumbers, Number, Shadowed
  <2>14. CReached(Latest) /\ Latest \in 0..cPosted
    BY <1>1 DEF CNumbers, CReached
  <2>15. cCount' \in 0..cPosted
    BY <1>1, <1>2 DEF CNumbers
  <2> QED
    BY <1>2, <1>3, <2>1, <2>3, <2>4, <2>5, <2>6, <2>9, <2>10, <2>12, <2>13, <2>14, <2>15,
       ReceiveKeeps
<1>4. CASE ~ (cPos' = Latest /\ ProcessLatestPosts(Newest(NewerThan(cPos), CPage)))
  <2>1. /\ cTop' = cPos /\ cPc' = "publish" /\ cFaults' \in 0..cFeed.faults
        /\ UNCHANGED <<cFeed, cPosted, cBase, cShadow, cPos, cMarks, cFile, cBatch, cCrashes, cDone,
                       cLeft, cRepeat>>
    BY <1>1, <1>4 DEF TiebaRound, Fails, CInv, CTypeOK, CNumbers, cServer, cHistory
  <2>2. CTypeOK'
    BY <1>1, <1>2, <2>1 DEF CInv, CNumbers, CTypeOK, CWithin, CSaved, CPCs, CNames
  <2>3. CWithin'
    BY <1>1, <1>2, <2>1 DEF CInv, CNumbers, CWithin, CTypeOK, CSaved
  <2>4. CPositions'
    BY <1>1, <1>2, <2>1 DEF CInv, CNumbers, CPositions, CReached, Latest
  <2>5. CHonestly'
    BY <1>1, <1>2, <2>1
       DEF CInv, CNumbers, CHonestly, CPositions, CReached, Latest, CHonest, CHandled,
           Shadowed, Number, CMarksOK, CFetched, CBackend, CTypeOK
  <2>6. CMarksOK'
    BY <1>1, <1>2, <2>1 DEF CInv, CNumbers, CMarksOK, CFetched
  <2>7. CAdvanced'
    BY <1>1, <1>2, <2>1 DEF CInv, CNumbers, CAdvanced, CBackend, CPositions, CReached, Latest
  <2>8. CKnown'
    BY <1>1, <1>2, <2>1
       DEF CInv, CNumbers, CKnown, CHeld, Number, At, CWithin, CTypeOK, CBackend, CFetched
  <2>9. CFetched'
    BY <1>1, <1>2, <2>1 DEF CInv, CNumbers, CFetched, Number, Shadowed, CBackend
  <2>10. CBackend'
    BY <1>1, <1>2, <2>1 DEF CInv, CNumbers, CBackend
  <2>11. COnce'
    BY <1>1, <1>2, <2>1 DEF CInv, CNumbers, COnce, CTypeOK, CWithin, CFetched
  <2> QED
    BY <2>2, <2>3, <2>4, <2>5, <2>6, <2>7, <2>8, <2>9, <2>10, <2>11 DEF CInv
<1> QED
  BY <1>3, <1>4

(* The invariant holds initially. *)
LEMMA CInvInit == CursorInit => CInv
<1> SUFFICES ASSUME CursorInit PROVE CInv
  OBVIOUS
<1> USE DEF CursorInit
<1>1. /\ cFeed.name \in CNames /\ cFeed.events \in Nat \ {0} /\ cFeed.faults \in Nat
      /\ cFeed.crashes \in Nat
  BY CFeedsAssumption
<1>2. CTypeOK
  BY <1>1 DEF CTypeOK, CSaved, CPCs
<1>3. CWithin /\ CPositions /\ CMarksOK /\ CAdvanced
  BY <1>1 DEF CWithin, CPositions, CReached, Latest, CMarksOK, CAdvanced
<1>4. CHonestly
  BY <1>1 DEF CHonestly, CHonest, Number
<1>5. CKnown /\ CFetched /\ CBackend /\ COnce
  BY <1>1 DEF CKnown, CHeld, CFetched, CBackend, COnce, At
<1> QED
  BY <1>2, <1>3, <1>4, <1>5 DEF CInv

(* Every step keeps it. *)
LEMMA CInvStep == CInv /\ [CursorNext]_cVars => CInv'
<1> SUFFICES ASSUME CInv, [CursorNext]_cVars PROVE CInv'
  OBVIOUS
<1>1. CASE UNCHANGED cVars
  <2> USE <1>1 DEF cVars, cServer, cStore, cFlight, cHistory, CInv
  <2>1. CTypeOK' /\ CWithin' /\ CPositions' /\ COnce'
    BY DEF CTypeOK, CWithin, CPositions, CReached, Latest, COnce
  <2>2. CHonestly'
    BY DEF CHonestly, CHonest, CHandled, Shadowed, Number
  <2>3. CMarksOK' /\ CAdvanced' /\ CBackend'
    BY DEF CMarksOK, CAdvanced, CBackend
  <2>4. CKnown'
    BY DEF CKnown, CHeld, At, Number
  <2>5. CFetched'
    BY DEF CFetched, Shadowed, Number
  <2> QED
    BY <2>1, <2>2, <2>3, <2>4, <2>5
<1>2. CASE CPost \/ Renumber \/ StartFails \/ CCrash
  BY <1>2, CPostKeeps, RenumberKeeps, StartFailsKeeps, CCrashKeeps
<1>3. CASE CursorLoop
  BY <1>3, CPublishKeeps, PositionMovesKeeps, BatchEndsKeeps, MisskeyStartKeeps, MisskeyFirstKeeps,
     MisskeyRoundKeeps, ImapStartKeeps, ImapRoundKeeps, OutlookStartKeeps, OutlookRoundKeeps,
     ToxRoundKeeps, ToutiaoStartKeeps, NewsRoundKeeps, PruneStateKeeps, TiebaStartKeeps,
     TiebaRoundKeeps, TiebaStoredKeeps
     DEF CursorLoop
<1> QED
  BY <1>1, <1>2, <1>3 DEF CursorNext

(* For any backends, pages, failures, restarts and renumberings: a position*)
(* is honest, and nothing is published twice, but for the exceptions.      *)
THEOREM PositionTheorem == CursorSpec => []PositionHonest
<1>1. CInv => PositionHonest
  <2> SUFFICES ASSUME CInv, NEW e \in 1..cPosted, Behind(e)
               PROVE  cDone[e] > 0 \/ e \in cBatch \cup cLeft \/ Shadowed(e)
    BY DEF CInv, COnce, PositionHonest
  <2> QED
    BY DEF CInv, CHonestly, CHonest, CHandled, Behind
<1> QED
  BY <1>1, CInvInit, CInvStep, PTL DEF CursorSpec

-----------------------------------------------------------------------------
(* The Matrix backend.                                                     *)

(* The variables have their types, and the client its shape. *)
MShape == mClient \in [sess: MSession, txn: -1..mPlan.sends]
MWorld ==
    /\ mPlan \in MPlans /\ mPosted \in 0..mPlan.events /\ mIssued \in 0..mPlan.tokens
    /\ mValid \in 0..mIssued /\ mCrashes \in 0..mPlan.crashes
    /\ mPc \in {"login", "save", "sync", "publish", "refresh", "reconnect", "off"}
MStored ==
    /\ mState.sess \in MSession /\ mState.known \subseteq MSubjects
    /\ mDisk.sess \in MSession /\ mDisk.known \subseteq MSubjects
MCounted ==
    /\ mUsed \subseteq 1..mPlan.sends /\ mBatch \subseteq 1..mPosted
    /\ mDone \in [1..mPlan.events -> 0..2] /\ mMissed \subseteq 1..mPosted
    /\ mResets \subseteq {"login", "fallback", "unsaved"}
    /\ mReused \in BOOLEAN /\ mSwallowed \in BOOLEAN
MWaiting ==
    /\ mKnown \subseteq MSubjects /\ mPending \subseteq MSubjects
    /\ mQueue \in Seq(MSubjects) /\ Len(mQueue) <= MQueueSize
    /\ mWorker \in MSubjects \cup {MIdle} /\ mCool \subseteq MSubjects
           /\ mLearned \subseteq MMembers
MTypes == MShape /\ MWorld /\ MStored /\ MCounted /\ MWaiting

(* A message is before a position of a session. *)
Before(e, sess) == e <= sess.pos \/ e <= sess.next

(* No position is ahead of the server, and nothing published is.           *)
MBounded ==
    /\ \A e \in 1..mPlan.events : mDone[e] > 0 => e <= mPosted
    /\ \A sess \in {mClient.sess, mState.sess, mDisk.sess} :
           sess.pos <= mPosted /\ sess.next <= mPosted

(* There is a batch only while it is published; as long as no position was *)
(* taken back, it holds nothing that was published.                        *)
MFresh ==
    /\ mBatch # {} => mPc = "publish"
    /\ mResets = {} => \A e \in mBatch : mDone[e] = 0 /\ Before(e, mClient.sess)

(* As long as no position was taken back, what was published is before the *)
(* position of the client, or of the state a session is restored from.     *)
MDoneBefore ==
    mResets = {} =>
        \A e \in 1..mPosted :
            mDone[e] > 0 =>
                \/ Before(e, mClient.sess)
                \/ mPc \in {"login", "off"} /\ Before(e, mState.sess)

(* A sender that waits and has a name got it while it waited. *)
MNamed == \A u \in mPending \cap mKnown \cap MMembers : u \in mLearned

(* A client that replaced none has numbered all the requests.              *)
MNumbered == ~mReused /\ mClient.txn # -1 => \A n \in mUsed : n <= mClient.txn

MInv ==
    /\ MTypes /\ MBounded /\ NotPassedOver /\ MFresh /\ MDoneBefore /\ OnceUnlessReset
    /\ PendingIsQueued /\ MNamed /\ MNumbered /\ SwallowedNeedsNewClient


(* The numbers of the model are naturals. *)
MNumbers ==
    /\ mPosted \in Nat /\ mIssued \in Nat /\ mValid \in Nat
    /\ mPlan.events \in Nat /\ mPlan.sends \in Nat /\ mPlan.crashes \in Nat /\ mPlan.tokens \in Nat
    /\ mPlan.sliding \in BOOLEAN /\ mPlan.refresh \in BOOLEAN /\ mPlan.unknown \subseteq MSubjects
    /\ mClient.txn \in Int
    /\ \A sess \in {mClient.sess, mState.sess, mDisk.sess} :
          sess.pos \in Nat /\ sess.next \in Nat /\ sess \in MSession

(* They are, whenever the types are kept. *)
LEMMA MNumbersOf == ASSUME MTypes PROVE MNumbers
<1>1. /\ mPlan.events \in Nat /\ mPlan.sends \in Nat /\ mPlan.crashes \in Nat
             /\ mPlan.tokens \in Nat
      /\ mPlan.sliding \in BOOLEAN /\ mPlan.refresh \in BOOLEAN /\ mPlan.unknown \subseteq MSubjects
  BY MPlansAssumption DEF MTypes, MWorld
<1>2. mClient.sess \in MSession /\ mClient.txn \in Int
  BY <1>1 DEF MTypes, MShape
<1>3. \A sess \in {mClient.sess, mState.sess, mDisk.sess} :
          sess.pos \in Nat /\ sess.next \in Nat /\ sess \in MSession
  BY <1>2 DEF MTypes, MStored, MSession
<1> QED
  BY <1>1, <1>2, <1>3 DEF MTypes, MWorld, MNumbers

(* A session with another token, refresh token or position. *)
LEMMA SessionWith ==
    ASSUME NEW s \in MSession, NEW t \in Nat
    PROVE  /\ [s EXCEPT !.token = t] \in MSession
           /\ [s EXCEPT !.token = t].pos = s.pos /\ [s EXCEPT !.token = t].next = s.next
           /\ [s EXCEPT !.pos = t] \in MSession
           /\ [s EXCEPT !.pos = t].pos = t /\ [s EXCEPT !.pos = t].next = s.next
           /\ [s EXCEPT !.next = t] \in MSession
           /\ [s EXCEPT !.next = t].pos = s.pos /\ [s EXCEPT !.next = t].next = t
           /\ [s EXCEPT !.token = NoToken, !.refresh = FALSE] \in MSession
           /\ [s EXCEPT !.token = NoToken, !.refresh = FALSE].pos = s.pos
           /\ [s EXCEPT !.token = NoToken, !.refresh = FALSE].next = s.next
<1>1. /\ [s EXCEPT !.token = t] \in MSession
      /\ [s EXCEPT !.token = t].pos = s.pos /\ [s EXCEPT !.token = t].next = s.next
  BY DEF MSession
<1>2. /\ [s EXCEPT !.pos = t] \in MSession
      /\ [s EXCEPT !.pos = t].pos = t /\ [s EXCEPT !.pos = t].next = s.next
  BY DEF MSession
<1>3. /\ [s EXCEPT !.next = t] \in MSession
      /\ [s EXCEPT !.next = t].pos = s.pos /\ [s EXCEPT !.next = t].next = t
  BY DEF MSession
<1>4. [s EXCEPT !.token = NoToken,
          !.refresh = FALSE] = [[s EXCEPT !.token = NoToken] EXCEPT !.refresh = FALSE]
  OBVIOUS
<1>5. DEFINE r == [s EXCEPT !.token = NoToken]
<1>6. r \in MSession /\ r.pos = s.pos /\ r.next = s.next
  BY DEF MSession, NoToken
<1> HIDE DEF r
<1>7. /\ [r EXCEPT !.refresh = FALSE] \in MSession
      /\ [r EXCEPT !.refresh = FALSE].pos = r.pos /\ [r EXCEPT !.refresh = FALSE].next = r.next
  BY <1>6 DEF MSession
<1> QED
  BY <1>1, <1>2, <1>3, <1>4, <1>6, <1>7 DEF r

(* What is stored has the positions of the session or of the state. *)
LEMMA SyncStateOf ==
    ASSUME NEW c \in MSession, NEW s \in MSession
    PROVE  /\ SaveSyncState(c, s) \in MSession
           /\ SaveSyncState(c, s).pos \in {c.pos, s.pos}
           /\ SaveSyncState(c, s).next \in {c.next, s.next}
<1> DEFINE p == IF c.sliding THEN c.pos ELSE s.pos
           n == IF c.sliding THEN s.next ELSE c.next
           r == [c EXCEPT !.pos = p]
<1>1. p \in Nat /\ n \in Nat /\ p \in {c.pos, s.pos} /\ n \in {c.next, s.next}
  BY DEF MSession
<1>2. SaveSyncState(c, s) = [r EXCEPT !.next = n]
  BY DEF SaveSyncState
<1> HIDE DEF p, n
<1>3. r \in MSession /\ r.pos = p
  BY <1>1, SessionWith
<1> HIDE DEF r
<1>4. /\ [r EXCEPT !.next = n] \in MSession /\ [r EXCEPT !.next = n].pos = r.pos
      /\ [r EXCEPT !.next = n].next = n
  BY <1>1, <1>3, SessionWith
<1> QED
  BY <1>1, <1>2, <1>3, <1>4

(* The client with another session. *)
LEMMA ClientWith ==
    ASSUME MTypes, NEW s \in MSession
    PROVE  /\ [mClient EXCEPT !.sess = s] = [sess |-> s, txn |-> mClient.txn]
           /\ [mClient EXCEPT !.sess = s] \in [sess: MSession, txn: -1..mPlan.sends]
BY DEF MTypes, MShape

(* The state is the session, and the file the state or what it was. *)
LEMMA SaveOf ==
    ASSUME MTypes, NEW s \in MSession, MSave(s)
    PROVE  /\ mState'.sess = s /\ mState'.known = mKnown
           /\ mDisk'.sess \in {mDisk.sess, s} /\ mDisk'.known \in {mDisk.known, mKnown}
           /\ MStored'
BY DEF MSave, MTypes, MStored, MWaiting

(* Without a reset, what was before a position is before this one. *)
LEMMA TakenBackOf ==
    ASSUME MTypes, NEW to \in MSession, NEW why \in {"login", "unsaved"}, TakenBack(to, why)
    PROVE  /\ mResets' \subseteq {"login", "fallback", "unsaved"}
           /\ mResets' = {} => /\ mResets = {}
                               /\ \A e \in Nat : Before(e, mClient.sess)
                                      \/ Before(e, mState.sess) =>
                                                     Before(e, to)
<1>1. MNumbers
  BY MNumbersOf
<1>2. to.pos \in Nat /\ to.next \in Nat
  BY DEF MSession
<1>3. mResets' \subseteq {"login", "fallback", "unsaved"}
  BY DEF TakenBack, MTypes, MCounted
<1>4. ASSUME mResets' = {}
      PROVE  /\ mResets = {}
             /\ \A from \in {mClient.sess, mState.sess} : ~(to.pos < from.pos
                    \/ to.next < from.next)
  BY <1>4 DEF TakenBack
<1>5. ASSUME mResets' = {}, NEW e \in Nat, Before(e, mClient.sess) \/ Before(e, mState.sess)
      PROVE  Before(e, to)
  BY <1>1, <1>2, <1>4, <1>5 DEF Before, MNumbers
<1> QED
  BY <1>3, <1>4, <1>5

(* No state and no client have no positions. *)
LEMMA NoStateOf ==
    /\ NoState \in MSession /\ NoState.pos = 0 /\ NoState.next = 0
    /\ NoClient.sess = NoState /\ NoClient.txn = -1 /\ NoClient = [sess |-> NoState, txn |-> -1]
BY DEF NoState, NoClient, MSession, NoToken

(* The session of a login has no position. *)
LEMMA LoginSession ==
    ASSUME NEW t \in Nat, NEW r \in BOOLEAN, NEW d \in BOOLEAN
    PROVE  LET s == [NoState EXCEPT !.token = t, !.refresh = r, !.sliding = d]
           IN  s \in MSession /\ s.pos = 0 /\ s.next = 0
<1> DEFINE a == [NoState EXCEPT !.token = t]
           b == [a EXCEPT !.refresh = r]
           c == [b EXCEPT !.sliding = d]
<1>1. a \in MSession /\ a.pos = 0 /\ a.next = 0
  BY DEF NoState, MSession, NoToken
<1>2. [NoState EXCEPT !.token = t, !.refresh = r, !.sliding = d] = c
  OBVIOUS
<1> HIDE DEF a
<1>3. b \in MSession /\ b.pos = a.pos /\ b.next = a.next
  BY <1>1 DEF MSession
<1> HIDE DEF b
<1>4. c \in MSession /\ c.pos = b.pos /\ c.next = b.next
  BY <1>3 DEF MSession
<1> QED
  BY <1>1, <1>2, <1>3, <1>4

(* What is learned of a sender that waits is noted. *)
LEMMA LearnOf ==
    ASSUME MInv, NEW subjects \in SUBSET MSubjects, MLearn(subjects), UNCHANGED <<mQueueVars,
        mWorker, mCool>>
    PROVE  MWaiting' /\ PendingIsQueued' /\ MNamed'
BY DEF MInv, MTypes, MWaiting, PendingIsQueued, MNamed, MLearn, mQueueVars

(* A task that is taken leaves the queue, and no other does. *)
LEMMA TakenOf ==
    ASSUME MTypes, MTaken
    PROVE  /\ mWorker = MIdle /\ mQueue' \in Seq(MSubjects) /\ Len(mQueue') <= MQueueSize
           /\ \A s \in ToSet(mQueue) : s = Head(mQueue) \/ s \in ToSet(mQueue')
<1>1. mQueue \in Seq(MSubjects) /\ mQueue # <<>> /\ mQueue' = Tail(mQueue)
          /\ Len(mQueue) <= MQueueSize
  BY DEF MTypes, MWaiting, MTaken
<1>2. /\ Len(mQueue) \in Nat /\ Len(mQueue) > 0 /\ Tail(mQueue) \in Seq(MSubjects)
      /\ Len(Tail(mQueue)) = Len(mQueue) - 1
      /\ \A i \in 1..(Len(mQueue) - 1) : Tail(mQueue)[i] = mQueue[i + 1]
      /\ Head(mQueue) = mQueue[1]
  BY <1>1
<1>3. ASSUME NEW s \in ToSet(mQueue), s # Head(mQueue)
      PROVE  s \in ToSet(mQueue')
  <2>1. PICK i \in 1..Len(mQueue) : s = mQueue[i]
    BY <1>2, <1>3 DEF ToSet
  <2>2. i # 1 /\ i - 1 \in 1..(Len(mQueue) - 1) /\ (i - 1) + 1 = i
    BY <1>2, <1>3, <2>1
  <2>3. Tail(mQueue)[i - 1] = s
    BY <1>2, <2>1, <2>2
  <2>4. i - 1 \in DOMAIN Tail(mQueue)
    BY <1>2, <2>2
  <2> QED
    BY <1>1, <2>3, <2>4 DEF ToSet
<1>4. Len(mQueue') <= MQueueSize
  BY <1>1, <1>2, MatrixAssumption
<1> QED
  BY <1>1, <1>2, <1>3, <1>4 DEF MTaken

(* A task that is queued is one of those waiting. *)
LEMMA EnqueueOf ==
    ASSUME MInv, NEW s \in MSubjects \ mKnown, Enqueue(s), UNCHANGED <<mKnown, mWorker, mCool,
        mLearned>>
    PROVE  MWaiting' /\ PendingIsQueued' /\ MNamed'
<1>1. /\ mQueue \in Seq(MSubjects) /\ Len(mQueue) < MQueueSize
      /\ mPending' = mPending \cup {s} /\ mQueue' = Append(mQueue, s)
  BY DEF MInv, MTypes, MWaiting, Enqueue
<1>2. /\ Append(mQueue, s) \in Seq(MSubjects) /\ Len(Append(mQueue, s)) = Len(mQueue) + 1
      /\ Len(mQueue) \in Nat
      /\ \A i \in 1..Len(mQueue) : Append(mQueue, s)[i] = mQueue[i]
      /\ Append(mQueue, s)[Len(mQueue) + 1] = s
  BY <1>1
<1>3. s \in ToSet(mQueue')
  <2>1. Len(mQueue) + 1 \in 1..Len(mQueue')
    BY <1>1, <1>2
  <2> QED
    BY <1>1, <1>2, <2>1 DEF ToSet
<1>4. ASSUME NEW t \in ToSet(mQueue) PROVE t \in ToSet(mQueue')
  <2>1. PICK i \in 1..Len(mQueue) : t = mQueue[i]
    BY <1>2, <1>4 DEF ToSet
  <2>2. i \in 1..Len(mQueue')
    BY <1>1, <1>2, <2>1
  <2> QED
    BY <1>1, <1>2, <2>1, <2>2 DEF ToSet
<1>5. MWaiting'
  BY <1>1, <1>2, MatrixAssumption DEF MInv, MTypes, MWaiting
<1>6. PendingIsQueued'
  BY <1>1, <1>3, <1>4 DEF MInv, PendingIsQueued
<1>7. MNamed'
  BY <1>1 DEF MInv, MNamed
<1> QED
  BY <1>5, <1>6, <1>7


(* The message is before no position. *)
LEMMA MPostKeeps ==
    ASSUME MInv, MPost
    PROVE  MInv'
<1>1. MNumbers /\ MTypes
  BY MNumbersOf DEF MInv
<1>2. /\ mPosted < mPlan.events /\ mPosted' = mPosted + 1
      /\ UNCHANGED <<mPlan, mIssued, mValid, mPc, mClient, mState, mDisk, mBatch, mCrashes,
                     mDone, mMissed, mResets, mUsed, mReused, mSwallowed, mKnown, mPending,
                     mQueue, mWorker, mCool, mLearned>>
  BY DEF MPost, mSyncVars, mHistory, mSendVars, mProfileVars, mQueueVars
<1>3. MShape'
  BY <1>1, <1>2 DEF MInv, MTypes, MNumbers, MShape
<1>4. MWorld'
  BY <1>1, <1>2 DEF MInv, MTypes, MNumbers, MWorld
<1>5. MStored'
  BY <1>1, <1>2 DEF MInv, MTypes, MNumbers, MStored
<1>6. MCounted'
  BY <1>1, <1>2 DEF MInv, MTypes, MNumbers, MCounted, MWorld
<1>7. MWaiting'
  BY <1>1, <1>2 DEF MInv, MTypes, MNumbers, MWaiting
<1>8. MBounded'
  <2>1. /\ \A e \in 1..mPlan.events : mDone[e] > 0 => e <= mPosted'
        /\ \A sess \in {mClient.sess, mState.sess, mDisk.sess} :
              sess.pos <= mPosted' /\ sess.next <= mPosted'
    <3>1. \A e \in 1..mPlan.events : e \in Int
      BY <1>1 DEF MNumbers
    <3> QED
      BY <1>1, <1>2, <3>1 DEF MInv, MBounded, MNumbers
  <2> QED
    BY <1>2, <2>1 DEF MBounded
<1>9. NotPassedOver'
  BY <1>1, <1>2 DEF MInv, MTypes, MNumbers, NotPassedOver, MBounded, MFresh, MCounted, MWorld
<1>10. MFresh'
  BY <1>1, <1>2 DEF MInv, MTypes, MNumbers, MFresh, MCounted, Before
<1>11. MDoneBefore'
  BY <1>1, <1>2 DEF MInv, MTypes, MNumbers, MDoneBefore, MBounded, MCounted, MFresh, MWorld, Before
<1>12. OnceUnlessReset'
  <2>1. mPosted + 1 \in 1..mPlan.events /\ mPosted + 1 \notin 1..mPosted
    BY <1>1, <1>2 DEF MNumbers
  <2>2. ~ (mDone[mPosted + 1] > 0)
    BY <1>1, <2>1 DEF MInv, MBounded, MNumbers
  <2>3. 1..mPosted' = 1..mPosted \cup {mPosted + 1}
    BY <1>1, <1>2 DEF MNumbers
  <2>4. mDone[mPosted + 1] \in 0..2
    BY <1>1, <2>1 DEF MTypes, MCounted
  <2> QED
    BY <1>2, <2>2, <2>3, <2>4 DEF MInv, OnceUnlessReset
<1>13. PendingIsQueued'
  BY <1>1, <1>2 DEF MInv, MTypes, MNumbers, PendingIsQueued
<1>14. MNamed'
  BY <1>1, <1>2 DEF MInv, MTypes, MNumbers, MNamed
<1>15. MNumbered'
  BY <1>1, <1>2 DEF MInv, MTypes, MNumbers, MNumbered
<1>16. SwallowedNeedsNewClient'
  BY <1>1, <1>2 DEF MInv, MTypes, MNumbers, SwallowedNeedsNewClient, MNumbered
<1> QED
  BY <1>3, <1>4, <1>5, <1>6, <1>7, <1>8, <1>9, <1>10, <1>11, <1>12, <1>13, <1>14, <1>15, <1>16
     DEF MInv, MTypes

(* The positions stay. *)
LEMMA MRevokeKeeps ==
    ASSUME MInv, MRevoke
    PROVE  MInv'
<1>1. MNumbers /\ MTypes
  BY MNumbersOf DEF MInv
<1>2. /\ mValid' = 0
      /\ UNCHANGED <<mPlan, mPosted, mIssued, mPc, mClient, mState, mDisk, mBatch, mCrashes,
                     mDone, mMissed, mResets, mUsed, mReused, mSwallowed, mKnown, mPending,
                     mQueue, mWorker, mCool, mLearned>>
  BY DEF MRevoke, mSyncVars, mHistory, mSendVars, mProfileVars, mQueueVars, NoToken
<1>3. MShape'
  BY <1>1, <1>2 DEF MInv, MTypes, MNumbers, MShape
<1>4. MWorld'
  BY <1>1, <1>2 DEF MInv, MTypes, MNumbers, MWorld
<1>5. MStored'
  BY <1>1, <1>2 DEF MInv, MTypes, MNumbers, MStored
<1>6. MCounted'
  BY <1>1, <1>2 DEF MInv, MTypes, MNumbers, MCounted, MWorld
<1>7. MWaiting'
  BY <1>1, <1>2 DEF MInv, MTypes, MNumbers, MWaiting
<1>8. MBounded'
  BY <1>1, <1>2 DEF MInv, MTypes, MNumbers, MBounded, MWorld, MCounted, MFresh
<1>9. NotPassedOver'
  BY <1>1, <1>2 DEF MInv, MTypes, MNumbers, NotPassedOver, MBounded, MFresh, MCounted, MWorld
<1>10. MFresh'
  BY <1>1, <1>2 DEF MInv, MTypes, MNumbers, MFresh, MCounted, Before
<1>11. MDoneBefore'
  BY <1>1, <1>2 DEF MInv, MTypes, MNumbers, MDoneBefore, MBounded, MCounted, MFresh, MWorld, Before
<1>12. OnceUnlessReset'
  BY <1>1, <1>2 DEF MInv, MTypes, MNumbers, OnceUnlessReset, MBounded, MFresh, MCounted, MWorld
<1>13. PendingIsQueued'
  BY <1>1, <1>2 DEF MInv, MTypes, MNumbers, PendingIsQueued
<1>14. MNamed'
  BY <1>1, <1>2 DEF MInv, MTypes, MNumbers, MNamed
<1>15. MNumbered'
  BY <1>1, <1>2 DEF MInv, MTypes, MNumbers, MNumbered
<1>16. SwallowedNeedsNewClient'
  BY <1>1, <1>2 DEF MInv, MTypes, MNumbers, SwallowedNeedsNewClient, MNumbered
<1> QED
  BY <1>3, <1>4, <1>5, <1>6, <1>7, <1>8, <1>9, <1>10, <1>11, <1>12, <1>13, <1>14, <1>15, <1>16
     DEF MInv, MTypes

(* The positions of the client are those of the state. *)
LEMMA RestoredKeeps ==
    ASSUME MInv, Restored
    PROVE  MInv'
<1>1. MNumbers /\ MTypes
  BY MNumbersOf DEF MInv
<1>2. /\ mPc = "login" /\ mPc' = "save"
      /\ mClient' = [sess |-> mState.sess, txn |-> 0]
      /\ mReused' = (mReused \/ mUsed # {})
      /\ TakenBack(mState.sess, "unsaved") /\ MLearn(mState.known)
      /\ UNCHANGED <<mPlan, mPosted, mIssued, mValid, mState, mDisk, mBatch, mCrashes,
                     mDone, mMissed, mUsed, mSwallowed, mPending, mQueue, mWorker, mCool>>
  BY DEF Restored, mSyncVars, mHistory, mSendVars, mProfileVars, mQueueVars, CurClient
<1>3. MShape'
  BY <1>1, <1>2 DEF MInv, MTypes, MNumbers, MShape
<1>4. MWorld'
  BY <1>1, <1>2 DEF MInv, MTypes, MNumbers, MWorld
<1>5. MStored'
  BY <1>1, <1>2 DEF MInv, MTypes, MNumbers, MStored
<1>6. MCounted'
  <2>1. /\ mResets' \subseteq {"login", "fallback", "unsaved"}
        /\ mResets' = {} => /\ mResets = {}
                            /\ \A e \in Nat : Before(e, mClient.sess) \/ Before(e, mState.sess) =>
                                                  Before(e, mState.sess)
    BY <1>1, <1>2, TakenBackOf DEF MNumbers
  <2> QED
    BY <1>1, <1>2, <2>1 DEF MTypes, MNumbers, MCounted, MWorld
<1>7. MWaiting'
  <2>1. mState.known \in SUBSET MSubjects
    BY <1>1 DEF MTypes, MStored
  <2> QED
    BY <1>2, <2>1, LearnOf DEF mQueueVars
<1>8. MBounded'
  BY <1>1, <1>2 DEF MInv, MTypes, MNumbers, MBounded, MWorld, MCounted, MFresh
<1>9. NotPassedOver'
  BY <1>1, <1>2 DEF MInv, MTypes, MNumbers, NotPassedOver, MBounded, MFresh, MCounted, MWorld
<1>10. MFresh'
  <2>1. /\ mResets' \subseteq {"login", "fallback", "unsaved"}
        /\ mResets' = {} => /\ mResets = {}
                            /\ \A e \in Nat : Before(e, mClient.sess) \/ Before(e, mState.sess) =>
                                                  Before(e, mState.sess)
    BY <1>1, <1>2, TakenBackOf DEF MNumbers
  <2> QED
    BY <1>1, <1>2, <2>1 DEF MInv, MFresh
<1>11. MDoneBefore'
  <2>1. /\ mResets' \subseteq {"login", "fallback", "unsaved"}
        /\ mResets' = {} => /\ mResets = {}
                            /\ \A e \in Nat : Before(e, mClient.sess) \/ Before(e, mState.sess) =>
                                                  Before(e, mState.sess)
    BY <1>1, <1>2, TakenBackOf DEF MNumbers
  <2>2. ASSUME mResets' = {}, NEW e \in 1..mPosted, mDone[e] > 0
        PROVE  Before(e, mState.sess)
    BY <1>1, <2>1, <2>2 DEF MInv, MDoneBefore, MNumbers
  <2> QED
    BY <1>1, <1>2, <2>2 DEF MDoneBefore, MNumbers, Before
<1>12. OnceUnlessReset'
  <2>1. /\ mResets' \subseteq {"login", "fallback", "unsaved"}
        /\ mResets' = {} => /\ mResets = {}
                            /\ \A e \in Nat : Before(e, mClient.sess) \/ Before(e, mState.sess) =>
                                                  Before(e, mState.sess)
    BY <1>1, <1>2, TakenBackOf DEF MNumbers
  <2> QED
    BY <1>2, <2>1 DEF MInv, OnceUnlessReset
<1>13. PendingIsQueued'
  <2>1. mState.known \in SUBSET MSubjects
    BY <1>1 DEF MTypes, MStored
  <2> QED
    BY <1>2, <2>1, LearnOf DEF mQueueVars
<1>14. MNamed'
  <2>1. mState.known \in SUBSET MSubjects
    BY <1>1 DEF MTypes, MStored
  <2> QED
    BY <1>2, <2>1, LearnOf DEF mQueueVars
<1>15. MNumbered'
  BY <1>1, <1>2 DEF MInv, MTypes, MNumbers, MNumbered
<1>16. SwallowedNeedsNewClient'
  BY <1>1, <1>2 DEF MInv, MTypes, MNumbers, SwallowedNeedsNewClient, MNumbered
<1> QED
  BY <1>3, <1>4, <1>5, <1>6, <1>7, <1>8, <1>9, <1>10, <1>11, <1>12, <1>13, <1>14, <1>15, <1>16
     DEF MInv, MTypes

(* The positions of the client are those of the state, or stay. *)
LEMMA RestoredByRefreshKeeps ==
    ASSUME MInv, RestoredByRefresh
    PROVE  MInv'
<1>1. MNumbers /\ MTypes
  BY MNumbersOf DEF MInv
<1>2. /\ mPc = "login" /\ mIssued < mPlan.tokens /\ mIssued' = mIssued + 1 /\ mValid' = mIssued'
      /\ mState'.sess \in MSession
      /\ mState'.sess.pos = mState.sess.pos /\ mState'.sess.next = mState.sess.next
      /\ mDisk'.sess \in {mDisk.sess, mState'.sess}
      /\ MStored' /\ MLearn(mState.known)
      /\ \/ /\ mClient' = [sess |-> mState'.sess, txn |-> 0]
            /\ mReused' = (mReused \/ mUsed # {})
            /\ TakenBack(mState'.sess, "unsaved")
            /\ mPc' = "save"
         \/ UNCHANGED <<mPc, mClient, mReused, mResets>>
      /\ UNCHANGED <<mPlan, mPosted, mBatch, mCrashes, mDone, mMissed, mUsed, mSwallowed,
                     mPending, mQueue, mWorker, mCool>>
  <2> DEFINE fresh == [mState.sess EXCEPT !.token = mIssued']
             none == [mState.sess EXCEPT !.token = NoToken, !.refresh = FALSE]
  <2>1. mIssued' \in Nat /\ mState.sess \in MSession
    BY <1>1 DEF RestoredByRefresh, MNumbers
  <2>2. fresh \in MSession /\ fresh.pos = mState.sess.pos /\ fresh.next = mState.sess.next
    BY <2>1, SessionWith
  <2>3. none \in MSession /\ none.pos = mState.sess.pos /\ none.next = mState.sess.next
    BY <2>1, SessionWith
  <2>4. /\ mPc = "login" /\ mIssued < mPlan.tokens /\ mIssued' = mIssued + 1 /\ mValid' = mIssued'
        /\ MLearn(mState.known)
        /\ \/ CurClient(fresh) /\ MSave(fresh) /\ TakenBack(fresh, "unsaved") /\ mPc' = "save"
           \/ MSave(none) /\ UNCHANGED <<mPc, mClient, mReused, mResets>>
        /\ UNCHANGED <<mPlan, mPosted, mBatch, mCrashes, mDone, mMissed, mUsed, mSwallowed,
                       mPending, mQueue, mWorker, mCool>>
    BY DEF RestoredByRefresh, mQueueVars
  <2> HIDE DEF fresh, none
  <2>5. CASE CurClient(fresh) /\ MSave(fresh) /\ TakenBack(fresh, "unsaved") /\ mPc' = "save"
    <3>1. mState'.sess = fresh /\ mDisk'.sess \in {mDisk.sess, fresh} /\ MStored'
      BY <1>1, <2>2, <2>5, SaveOf
    <3> QED
      BY <2>2, <2>4, <2>5, <3>1 DEF CurClient
  <2>6. CASE MSave(none) /\ UNCHANGED <<mPc, mClient, mReused, mResets>>
    <3>1. mState'.sess = none /\ mDisk'.sess \in {mDisk.sess, none} /\ MStored'
      BY <1>1, <2>3, <2>6, SaveOf
    <3> QED
      BY <2>3, <2>4, <2>6, <3>1
  <2> QED
    BY <2>4, <2>5, <2>6
<1>3. MShape'
  BY <1>1, <1>2 DEF MInv, MTypes, MNumbers, MShape
<1>4. MWorld'
  BY <1>1, <1>2 DEF MInv, MTypes, MNumbers, MWorld
<1>5. MStored'
  BY <1>1, <1>2 DEF MInv, MTypes, MNumbers, MStored
<1>6. MCounted'
  <2>1. CASE TakenBack(mState'.sess, "unsaved") /\ mPc' = "save"
             /\ mClient' = [sess |-> mState'.sess, txn |-> 0]
    <3>1. /\ mResets' \subseteq {"login", "fallback", "unsaved"}
          /\ mResets' = {} => /\ mResets = {}
                              /\ \A e \in Nat : Before(e, mClient.sess) \/ Before(e, mState.sess) =>
                                                    Before(e, mState'.sess)
      BY <1>1, <1>2, <2>1, TakenBackOf
    <3> QED
      BY <1>1, <1>2, <2>1, <3>1 DEF MTypes, MNumbers, MCounted, MWorld
  <2>2. CASE UNCHANGED <<mPc, mClient, mReused, mResets>>
    BY <1>1, <1>2, <2>2 DEF MTypes, MNumbers, MCounted, MWorld
  <2> QED
    BY <1>2, <2>1, <2>2
<1>7. MWaiting'
  <2>1. mState.known \in SUBSET MSubjects
    BY <1>1 DEF MTypes, MStored
  <2> QED
    BY <1>2, <2>1, LearnOf DEF mQueueVars
<1>8. MBounded'
  <2>1. UNCHANGED <<mPlan, mPosted, mDone>> /\ mDisk'.sess \in {mDisk.sess, mState'.sess}
        /\ mClient'.sess \in {mClient.sess, mState'.sess}
        /\ mState'.sess.pos = mState.sess.pos /\ mState'.sess.next = mState.sess.next
    BY <1>2
  <2> QED
    BY <1>1, <2>1 DEF MInv, MBounded
<1>9. NotPassedOver'
  BY <1>1, <1>2 DEF MInv, MTypes, MNumbers, NotPassedOver, MBounded, MFresh, MCounted, MWorld
<1>10. MFresh'
  <2>1. CASE TakenBack(mState'.sess, "unsaved") /\ mPc' = "save"
             /\ mClient' = [sess |-> mState'.sess, txn |-> 0]
    <3>1. /\ mResets' \subseteq {"login", "fallback", "unsaved"}
          /\ mResets' = {} => /\ mResets = {}
                              /\ \A e \in Nat : Before(e, mClient.sess) \/ Before(e, mState.sess) =>
                                                    Before(e, mState'.sess)
      BY <1>1, <1>2, <2>1, TakenBackOf
    <3> QED
      BY <1>1, <1>2, <2>1, <3>1 DEF MInv, MFresh
  <2>2. CASE UNCHANGED <<mPc, mClient, mReused, mResets>>
    BY <1>1, <1>2, <2>2 DEF MInv, MFresh
  <2> QED
    BY <1>2, <2>1, <2>2
<1>11. MDoneBefore'
  <2>1. CASE TakenBack(mState'.sess, "unsaved") /\ mPc' = "save"
             /\ mClient' = [sess |-> mState'.sess, txn |-> 0]
    <3>1. /\ mResets' \subseteq {"login", "fallback", "unsaved"}
          /\ mResets' = {} => /\ mResets = {}
                              /\ \A e \in Nat : Before(e, mClient.sess) \/ Before(e, mState.sess) =>
                                                    Before(e, mState'.sess)
      BY <1>1, <1>2, <2>1, TakenBackOf
    <3>2. ASSUME mResets' = {}, NEW e \in 1..mPosted, mDone[e] > 0
          PROVE  Before(e, mState'.sess)
      BY <1>1, <3>1, <3>2 DEF MInv, MDoneBefore, MNumbers
    <3> QED
      BY <1>1, <1>2, <2>1, <3>2 DEF MDoneBefore, MNumbers
  <2>2. CASE UNCHANGED <<mPc, mClient, mReused, mResets>>
    BY <1>1, <1>2, <2>2 DEF MInv, MDoneBefore, Before
  <2> QED
    BY <1>2, <2>1, <2>2
<1>12. OnceUnlessReset'
  <2>1. CASE TakenBack(mState'.sess, "unsaved") /\ mPc' = "save"
             /\ mClient' = [sess |-> mState'.sess, txn |-> 0]
    <3>1. /\ mResets' \subseteq {"login", "fallback", "unsaved"}
          /\ mResets' = {} => /\ mResets = {}
                              /\ \A e \in Nat : Before(e, mClient.sess) \/ Before(e, mState.sess) =>
                                                    Before(e, mState'.sess)
      BY <1>1, <1>2, <2>1, TakenBackOf
    <3> QED
      BY <1>2, <3>1 DEF MInv, OnceUnlessReset
  <2>2. CASE UNCHANGED <<mPc, mClient, mReused, mResets>>
    BY <1>2, <2>2 DEF MInv, OnceUnlessReset
  <2> QED
    BY <1>2, <2>1, <2>2
<1>13. PendingIsQueued'
  <2>1. mState.known \in SUBSET MSubjects
    BY <1>1 DEF MTypes, MStored
  <2> QED
    BY <1>2, <2>1, LearnOf DEF mQueueVars
<1>14. MNamed'
  <2>1. mState.known \in SUBSET MSubjects
    BY <1>1 DEF MTypes, MStored
  <2> QED
    BY <1>2, <2>1, LearnOf DEF mQueueVars
<1>15. MNumbered'
  <2>1. CASE mClient' = [sess |-> mState'.sess, txn |-> 0] /\ mReused' = (mReused \/ mUsed # {})
    <3>1. mClient'.txn = 0 /\ mUsed' = mUsed /\ (mUsed # {} => mReused')
      BY <1>2, <2>1
    <3> QED
      BY <3>1 DEF MNumbered
  <2>2. CASE UNCHANGED <<mPc, mClient, mReused, mResets>>
    BY <1>2, <2>2 DEF MInv, MNumbered
  <2> QED
    BY <1>2, <2>1, <2>2
<1>16. SwallowedNeedsNewClient'
  <2>1. mReused => mReused'
    BY <1>2
  <2> QED
    BY <1>2, <2>1 DEF MInv, SwallowedNeedsNewClient
<1> QED
  BY <1>3, <1>4, <1>5, <1>6, <1>7, <1>8, <1>9, <1>10, <1>11, <1>12, <1>13, <1>14, <1>15, <1>16
     DEF MInv, MTypes

(* The positions stay. *)
LEMMA RestoreRefusedKeeps ==
    ASSUME MInv, RestoreRefused
    PROVE  MInv'
<1>1. MNumbers /\ MTypes
  BY MNumbersOf DEF MInv
<1>2. /\ mPc = "login" /\ mState'.sess \in MSession
      /\ mState'.sess.pos = mState.sess.pos /\ mState'.sess.next = mState.sess.next
      /\ mDisk'.sess \in {mDisk.sess, mState'.sess}
      /\ MStored' /\ MLearn(mState.known)
      /\ UNCHANGED <<mPlan, mPosted, mIssued, mValid, mPc, mClient, mBatch, mCrashes, mDone,
                     mMissed, mResets, mUsed, mReused, mSwallowed, mPending, mQueue,
                     mWorker, mCool>>
  <2> DEFINE none == [mState.sess EXCEPT !.token = NoToken, !.refresh = FALSE]
  <2>1. none \in MSession /\ none.pos = mState.sess.pos /\ none.next = mState.sess.next
    BY <1>1, SessionWith DEF MNumbers
  <2>2. MSave(none)
    BY DEF RestoreRefused
  <2> HIDE DEF none
  <2>3. mState'.sess = none /\ mDisk'.sess \in {mDisk.sess, none} /\ MStored'
    BY <1>1, <2>1, <2>2, SaveOf
  <2> QED
    BY <2>1, <2>3 DEF RestoreRefused, mHistory, mSendVars, mQueueVars
<1>3. MShape'
  BY <1>1, <1>2 DEF MInv, MTypes, MNumbers, MShape
<1>4. MWorld'
  BY <1>1, <1>2 DEF MInv, MTypes, MNumbers, MWorld
<1>5. MStored'
  BY <1>1, <1>2 DEF MInv, MTypes, MNumbers, MStored
<1>6. MCounted'
  BY <1>1, <1>2 DEF MInv, MTypes, MNumbers, MCounted, MWorld
<1>7. MWaiting'
  <2>1. mState.known \in SUBSET MSubjects
    BY <1>1 DEF MTypes, MStored
  <2> QED
    BY <1>2, <2>1, LearnOf DEF mQueueVars
<1>8. MBounded'
  BY <1>1, <1>2 DEF MInv, MTypes, MNumbers, MBounded, MWorld, MCounted, MFresh
<1>9. NotPassedOver'
  BY <1>1, <1>2 DEF MInv, MTypes, MNumbers, NotPassedOver, MBounded, MFresh, MCounted, MWorld
<1>10. MFresh'
  BY <1>1, <1>2 DEF MInv, MTypes, MNumbers, MFresh, MCounted, Before
<1>11. MDoneBefore'
  BY <1>1, <1>2 DEF MInv, MTypes, MNumbers, MDoneBefore, MBounded, MCounted, MFresh, MWorld, Before
<1>12. OnceUnlessReset'
  BY <1>1, <1>2 DEF MInv, MTypes, MNumbers, OnceUnlessReset, MBounded, MFresh, MCounted, MWorld
<1>13. PendingIsQueued'
  <2>1. mState.known \in SUBSET MSubjects
    BY <1>1 DEF MTypes, MStored
  <2> QED
    BY <1>2, <2>1, LearnOf DEF mQueueVars
<1>14. MNamed'
  <2>1. mState.known \in SUBSET MSubjects
    BY <1>1 DEF MTypes, MStored
  <2> QED
    BY <1>2, <2>1, LearnOf DEF mQueueVars
<1>15. MNumbered'
  BY <1>1, <1>2 DEF MInv, MTypes, MNumbers, MNumbered
<1>16. SwallowedNeedsNewClient'
  BY <1>1, <1>2 DEF MInv, MTypes, MNumbers, SwallowedNeedsNewClient, MNumbered
<1> QED
  BY <1>3, <1>4, <1>5, <1>6, <1>7, <1>8, <1>9, <1>10, <1>11, <1>12, <1>13, <1>14, <1>15, <1>16
     DEF MInv, MTypes

(* The positions begin at none, which takes them back if there were any. *)
LEMMA MLoginKeeps ==
    ASSUME MInv, MLogin
    PROVE  MInv'
<1>1. MNumbers /\ MTypes
  BY MNumbersOf DEF MInv
<1>2. /\ mPc = "login" /\ mIssued < mPlan.tokens /\ mIssued' = mIssued + 1 /\ mValid' = mIssued'
      /\ mClient' = [sess |-> mClient'.sess, txn |-> 0]
      /\ mClient'.sess \in MSession /\ mClient'.sess.pos = 0 /\ mClient'.sess.next = 0
      /\ mReused' = (mReused \/ mUsed # {})
      /\ TakenBack(NoState, "login") /\ mPc' = "save"
      /\ UNCHANGED <<mPlan, mPosted, mState, mDisk, mBatch, mCrashes, mDone, mMissed, mUsed,
                     mSwallowed, mKnown, mPending, mQueue, mWorker, mCool, mLearned>>
  <2>1. PICK detected \in {FALSE, mPlan.sliding} :
            CurClient([NoState EXCEPT !.token = mIssued', !.refresh = mPlan.refresh,
                !.sliding = detected])
    BY DEF MLogin
  <2> DEFINE s == [NoState EXCEPT !.token = mIssued', !.refresh = mPlan.refresh,
          !.sliding = detected]
  <2>2. detected \in BOOLEAN /\ mPlan.refresh \in BOOLEAN
    BY <1>1 DEF MNumbers
  <2>3. mIssued' \in Nat
    <3>1. mIssued' = mIssued + 1
      BY DEF MLogin
    <3> QED
      BY <1>1, <3>1 DEF MNumbers
  <2>4. s \in MSession /\ s.pos = 0 /\ s.next = 0
    BY <2>2, <2>3, LoginSession
  <2>5. CurClient(s)
    BY <2>1
  <2> HIDE DEF s
  <2>6. mClient' = [sess |-> s, txn |-> 0] /\ mReused' = (mReused \/ mUsed # {})
    BY <2>5 DEF CurClient
  <2> QED
    BY <2>4, <2>6 DEF MLogin, mProfileVars, mQueueVars
<1>3. MShape'
  BY <1>1, <1>2 DEF MInv, MTypes, MNumbers, MShape
<1>4. MWorld'
  BY <1>1, <1>2 DEF MInv, MTypes, MNumbers, MWorld
<1>5. MStored'
  BY <1>1, <1>2 DEF MInv, MTypes, MNumbers, MStored
<1>6. MCounted'
  <2>1. /\ mResets' \subseteq {"login", "fallback", "unsaved"}
        /\ mResets' = {} => /\ mResets = {}
                            /\ \A e \in Nat : Before(e, mClient.sess) \/ Before(e, mState.sess) =>
                                                  Before(e, NoState)
    BY <1>1, <1>2, NoStateOf, TakenBackOf
  <2> QED
    BY <1>1, <1>2, <2>1 DEF MTypes, MNumbers, MCounted, MWorld
<1>7. MWaiting'
  BY <1>1, <1>2 DEF MInv, MTypes, MNumbers, MWaiting
<1>8. MBounded'
  BY <1>1, <1>2 DEF MInv, MTypes, MNumbers, MBounded, MWorld, MCounted, MFresh
<1>9. NotPassedOver'
  BY <1>1, <1>2 DEF MInv, MTypes, MNumbers, NotPassedOver, MBounded, MFresh, MCounted, MWorld
<1>10. MFresh'
  <2>1. /\ mResets' \subseteq {"login", "fallback", "unsaved"}
        /\ mResets' = {} => /\ mResets = {}
                            /\ \A e \in Nat : Before(e, mClient.sess) \/ Before(e, mState.sess) =>
                                                  Before(e, NoState)
    BY <1>1, <1>2, NoStateOf, TakenBackOf
  <2> QED
    BY <1>1, <1>2, <2>1 DEF MInv, MFresh
<1>11. MDoneBefore'
  <2>1. /\ mResets' \subseteq {"login", "fallback", "unsaved"}
        /\ mResets' = {} => /\ mResets = {}
                            /\ \A e \in Nat : Before(e, mClient.sess) \/ Before(e, mState.sess) =>
                                                  Before(e, NoState)
    BY <1>1, <1>2, NoStateOf, TakenBackOf
  <2>2. ASSUME mResets' = {}, NEW e \in 1..mPosted, mDone[e] > 0
        PROVE  Before(e, NoState)
    BY <1>1, <2>1, <2>2 DEF MInv, MDoneBefore, MNumbers
  <2> QED
    BY <1>1, <1>2, <2>2, NoStateOf DEF MDoneBefore, MNumbers, Before
<1>12. OnceUnlessReset'
  <2>1. /\ mResets' \subseteq {"login", "fallback", "unsaved"}
        /\ mResets' = {} => /\ mResets = {}
                            /\ \A e \in Nat : Before(e, mClient.sess) \/ Before(e, mState.sess) =>
                                                  Before(e, NoState)
    BY <1>1, <1>2, NoStateOf, TakenBackOf
  <2> QED
    BY <1>2, <2>1 DEF MInv, OnceUnlessReset
<1>13. PendingIsQueued'
  BY <1>1, <1>2 DEF MInv, MTypes, MNumbers, PendingIsQueued
<1>14. MNamed'
  BY <1>1, <1>2 DEF MInv, MTypes, MNumbers, MNamed
<1>15. MNumbered'
  BY <1>1, <1>2 DEF MInv, MTypes, MNumbers, MNumbered
<1>16. SwallowedNeedsNewClient'
  BY <1>1, <1>2 DEF MInv, MTypes, MNumbers, SwallowedNeedsNewClient, MNumbered
<1> QED
  BY <1>3, <1>4, <1>5, <1>6, <1>7, <1>8, <1>9, <1>10, <1>11, <1>12, <1>13, <1>14, <1>15, <1>16
     DEF MInv, MTypes

(* Nothing moves. *)
LEMMA DeactivatedKeeps ==
    ASSUME MInv, Deactivated
    PROVE  MInv'
<1>1. MNumbers /\ MTypes
  BY MNumbersOf DEF MInv
<1>2. /\ mPc' = "off" /\ mPc \in {"login", "sync", "refresh"}
      /\ UNCHANGED <<mPlan, mPosted, mIssued, mValid, mClient, mState, mDisk, mBatch,
                     mCrashes, mDone, mMissed, mResets, mUsed, mReused, mSwallowed, mKnown,
                     mPending, mQueue, mWorker, mCool, mLearned>>
  BY DEF Deactivated, mSyncVars, mHistory, mSendVars, mProfileVars, mQueueVars
<1>3. MShape'
  BY <1>1, <1>2 DEF MInv, MTypes, MNumbers, MShape
<1>4. MWorld'
  BY <1>1, <1>2 DEF MInv, MTypes, MNumbers, MWorld
<1>5. MStored'
  BY <1>1, <1>2 DEF MInv, MTypes, MNumbers, MStored
<1>6. MCounted'
  BY <1>1, <1>2 DEF MInv, MTypes, MNumbers, MCounted, MWorld
<1>7. MWaiting'
  BY <1>1, <1>2 DEF MInv, MTypes, MNumbers, MWaiting
<1>8. MBounded'
  BY <1>1, <1>2 DEF MInv, MTypes, MNumbers, MBounded, MWorld, MCounted, MFresh
<1>9. NotPassedOver'
  BY <1>1, <1>2 DEF MInv, MTypes, MNumbers, NotPassedOver, MBounded, MFresh, MCounted, MWorld
<1>10. MFresh'
  BY <1>1, <1>2 DEF MInv, MTypes, MNumbers, MFresh, MCounted, Before
<1>11. MDoneBefore'
  BY <1>1, <1>2 DEF MInv, MTypes, MNumbers, MDoneBefore, MBounded, MCounted, MFresh, MWorld, Before
<1>12. OnceUnlessReset'
  BY <1>1, <1>2 DEF MInv, MTypes, MNumbers, OnceUnlessReset, MBounded, MFresh, MCounted, MWorld
<1>13. PendingIsQueued'
  BY <1>1, <1>2 DEF MInv, MTypes, MNumbers, PendingIsQueued
<1>14. MNamed'
  BY <1>1, <1>2 DEF MInv, MTypes, MNumbers, MNamed
<1>15. MNumbered'
  BY <1>1, <1>2 DEF MInv, MTypes, MNumbers, MNumbered
<1>16. SwallowedNeedsNewClient'
  BY <1>1, <1>2 DEF MInv, MTypes, MNumbers, SwallowedNeedsNewClient, MNumbered
<1> QED
  BY <1>3, <1>4, <1>5, <1>6, <1>7, <1>8, <1>9, <1>10, <1>11, <1>12, <1>13, <1>14, <1>15, <1>16
     DEF MInv, MTypes

(* The state takes a position of the client. *)
LEMMA SaveSessionKeeps ==
    ASSUME MInv, SaveSession
    PROVE  MInv'
<1>1. MNumbers /\ MTypes
  BY MNumbersOf DEF MInv
<1>2. /\ mPc = "save" /\ mPc' = "sync" /\ mState'.sess \in MSession
      /\ mState'.sess.pos \in {mClient.sess.pos, mState.sess.pos}
      /\ mState'.sess.next \in {mClient.sess.next, mState.sess.next}
      /\ mDisk'.sess \in {mDisk.sess, mState'.sess} /\ MStored'
      /\ UNCHANGED <<mPlan, mPosted, mIssued, mValid, mClient, mBatch, mCrashes, mDone,
                     mMissed, mResets, mUsed, mReused, mSwallowed, mKnown, mPending, mQueue,
                     mWorker, mCool, mLearned>>
  <2> DEFINE s == SaveSyncState(mClient.sess, mState.sess)
  <2>1. s \in MSession /\ s.pos \in {mClient.sess.pos, mState.sess.pos}
        /\ s.next \in {mClient.sess.next, mState.sess.next}
    BY <1>1, SyncStateOf DEF MNumbers
  <2>2. MSave(s)
    BY DEF SaveSession
  <2> HIDE DEF s
  <2>3. mState'.sess = s /\ mDisk'.sess \in {mDisk.sess, s} /\ MStored'
    BY <1>1, <2>1, <2>2, SaveOf
  <2> QED
    BY <2>1, <2>3 DEF SaveSession, mHistory, mSendVars, mProfileVars, mQueueVars
<1>3. MShape'
  BY <1>1, <1>2 DEF MInv, MTypes, MNumbers, MShape
<1>4. MWorld'
  BY <1>1, <1>2 DEF MInv, MTypes, MNumbers, MWorld
<1>5. MStored'
  BY <1>1, <1>2 DEF MInv, MTypes, MNumbers, MStored
<1>6. MCounted'
  BY <1>1, <1>2 DEF MInv, MTypes, MNumbers, MCounted, MWorld
<1>7. MWaiting'
  BY <1>1, <1>2 DEF MInv, MTypes, MNumbers, MWaiting
<1>8. MBounded'
  BY <1>1, <1>2 DEF MInv, MTypes, MNumbers, MBounded, MWorld, MCounted, MFresh
<1>9. NotPassedOver'
  BY <1>1, <1>2 DEF MInv, MTypes, MNumbers, NotPassedOver, MBounded, MFresh, MCounted, MWorld
<1>10. MFresh'
  BY <1>1, <1>2 DEF MInv, MTypes, MNumbers, MFresh, MCounted, Before
<1>11. MDoneBefore'
  BY <1>1, <1>2 DEF MInv, MTypes, MNumbers, MDoneBefore, MBounded, MCounted, MFresh, MWorld, Before
<1>12. OnceUnlessReset'
  BY <1>1, <1>2 DEF MInv, MTypes, MNumbers, OnceUnlessReset, MBounded, MFresh, MCounted, MWorld
<1>13. PendingIsQueued'
  BY <1>1, <1>2 DEF MInv, MTypes, MNumbers, PendingIsQueued
<1>14. MNamed'
  BY <1>1, <1>2 DEF MInv, MTypes, MNumbers, MNamed
<1>15. MNumbered'
  BY <1>1, <1>2 DEF MInv, MTypes, MNumbers, MNumbered
<1>16. SwallowedNeedsNewClient'
  BY <1>1, <1>2 DEF MInv, MTypes, MNumbers, SwallowedNeedsNewClient, MNumbered
<1> QED
  BY <1>3, <1>4, <1>5, <1>6, <1>7, <1>8, <1>9, <1>10, <1>11, <1>12, <1>13, <1>14, <1>15, <1>16
     DEF MInv, MTypes

(* What is before the position was before it, or is returned or missed. *)
LEMMA SlidingSyncKeeps ==
    ASSUME MInv, SlidingSync
    PROVE  MInv'
<1>1. MNumbers /\ MTypes
  BY MNumbersOf DEF MInv
<1>2. /\ mPc = "sync" /\ mPc' = "publish"
      /\ mClient' = [sess |-> mClient'.sess, txn |-> mClient.txn] /\ mClient'.sess \in MSession
      /\ mClient'.sess.pos = mPosted /\ mClient'.sess.next = mClient.sess.next
      /\ mState'.sess \in MSession
      /\ mState'.sess.pos \in {mClient'.sess.pos, mState.sess.pos}
      /\ mState'.sess.next \in {mClient'.sess.next, mState.sess.next}
      /\ mDisk'.sess \in {mDisk.sess, mState'.sess} /\ MStored'
      /\ mBatch' = MReturned(mClient.sess.pos)
      /\ mMissed' = mMissed \cup (MAfter(mClient.sess.pos) \ MReturned(mClient.sess.pos))
      /\ mResets' = IF mClient.sess.next > mClient.sess.pos THEN mResets \cup {"fallback"} ELSE mResets
      /\ UNCHANGED <<mPlan, mPosted, mIssued, mValid, mCrashes, mDone, mUsed, mReused,
                     mSwallowed, mKnown, mPending, mQueue, mWorker, mCool, mLearned>>
  <2> DEFINE new == [mClient.sess EXCEPT !.pos = mPosted]
             s == SaveSyncState(new, mState.sess)
  <2>1. new \in MSession /\ new.pos = mPosted /\ new.next = mClient.sess.next
    BY <1>1, SessionWith DEF MNumbers
  <2>2. /\ mClient' = [mClient EXCEPT !.sess = new] /\ MSave(s)
        /\ mBatch' = MReturned(mClient.sess.pos)
        /\ mMissed' = mMissed \cup (MAfter(mClient.sess.pos) \ MReturned(mClient.sess.pos))
        /\ mPc' = "publish"
    BY DEF SlidingSync, SyncReturns
  <2> HIDE DEF new
  <2>3. s \in MSession /\ s.pos \in {new.pos, mState.sess.pos}
            /\ s.next \in {new.next, mState.sess.next}
    BY <1>1, <2>1, SyncStateOf DEF MNumbers
  <2> HIDE DEF s
  <2>4. mClient' = [sess |-> new, txn |-> mClient.txn]
    BY <1>1, <2>1, <2>2, ClientWith
  <2>5. mState'.sess = s /\ mDisk'.sess \in {mDisk.sess, s} /\ MStored'
    BY <1>1, <2>2, <2>3, SaveOf
  <2> QED
    BY <2>1, <2>2, <2>3, <2>4, <2>5 DEF SlidingSync, mSendVars, mProfileVars, mQueueVars
<1>3. MShape'
  BY <1>1, <1>2 DEF MInv, MTypes, MNumbers, MShape
<1>4. MWorld'
  BY <1>1, <1>2 DEF MInv, MTypes, MNumbers, MWorld
<1>5. MStored'
  BY <1>1, <1>2 DEF MInv, MTypes, MNumbers, MStored
<1>6. MCounted'
  <2>1. mBatch' \subseteq 1..mPosted /\ mMissed' \subseteq 1..mPosted
    BY <1>1, <1>2 DEF MTypes, MCounted, MReturned, MAfter
  <2> QED
    BY <1>1, <1>2, <2>1 DEF MTypes, MCounted
<1>7. MWaiting'
  BY <1>1, <1>2 DEF MInv, MTypes, MNumbers, MWaiting
<1>8. MBounded'
  <2>1. /\ mClient'.sess.pos \in {mClient.sess.pos, mPosted}
        /\ mClient'.sess.next \in {mClient.sess.next, mPosted}
        /\ mState'.sess.pos \in {mClient'.sess.pos, mState.sess.pos}
        /\ mState'.sess.next \in {mClient'.sess.next, mState.sess.next}
        /\ mDisk'.sess \in {mDisk.sess, mState'.sess}
        /\ UNCHANGED <<mPlan, mPosted, mDone>>
    BY <1>2
  <2>2. \A n \in {mClient'.sess.pos, mClient'.sess.next, mState'.sess.pos, mState'.sess.next} :
            n <= mPosted
    BY <1>1, <2>1 DEF MInv, MBounded, MNumbers
  <2> QED
    BY <2>1, <2>2 DEF MInv, MBounded
<1>9. NotPassedOver'
  <2>1. \A e \in 1..mPosted : e > mClient.sess.pos => e \in mBatch' \cup mMissed'
    BY <1>2 DEF MReturned, MAfter
  <2>2. mBatch = {} /\ mMissed \subseteq mMissed'
    BY <1>2 DEF MInv, MFresh
  <2>3. \A e \in 1..mPosted : e <= mClient.sess.pos => mDone[e] > 0 \/ e \in mMissed
    BY <2>2 DEF MInv, NotPassedOver
  <2>4. \A e \in 1..mPosted : mDone[e] > 0 \/ e \in mBatch' \cup mMissed'
    BY <1>1, <2>1, <2>2, <2>3 DEF MNumbers
  <2> QED
    BY <1>2, <2>4 DEF NotPassedOver
<1>10. MFresh'
  <2>1. ASSUME mResets' = {}, NEW e \in mBatch'
        PROVE  mDone[e] = 0 /\ Before(e, mClient'.sess)
    <3>1. e \in 1..mPosted /\ e > mClient.sess.pos /\ e <= mPosted
      BY <1>1, <1>2, <2>1 DEF MReturned, MAfter, MNumbers
    <3>2. mResets = {} /\ ~ (mClient.sess.next > mClient.sess.pos)
      BY <1>2, <2>1
    <3>3. ~ Before(e, mClient.sess)
      BY <1>1, <3>1, <3>2 DEF MNumbers, Before
    <3>4. ~ (mDone[e] > 0)
      BY <1>2, <3>1, <3>2, <3>3 DEF MInv, MDoneBefore
    <3>5. mDone[e] = 0
      <4>1. e \in 1..mPlan.events
        BY <1>1, <3>1 DEF MTypes, MWorld, MNumbers
      <4>2. mDone[e] \in 0..2
        BY <1>1, <4>1 DEF MTypes, MCounted
      <4> QED
        BY <3>4, <4>2
    <3> QED
      BY <1>2, <3>1, <3>5 DEF Before
  <2> QED
    BY <1>2, <2>1 DEF MFresh
<1>11. MDoneBefore'
  BY <1>1, <1>2 DEF MInv, MTypes, MNumbers, MDoneBefore, MBounded, MCounted, MFresh, MWorld, Before
<1>12. OnceUnlessReset'
  BY <1>1, <1>2 DEF MInv, MTypes, MNumbers, OnceUnlessReset, MBounded, MFresh, MCounted, MWorld
<1>13. PendingIsQueued'
  BY <1>1, <1>2 DEF MInv, MTypes, MNumbers, PendingIsQueued
<1>14. MNamed'
  BY <1>1, <1>2 DEF MInv, MTypes, MNumbers, MNamed
<1>15. MNumbered'
  BY <1>1, <1>2 DEF MInv, MTypes, MNumbers, MNumbered
<1>16. SwallowedNeedsNewClient'
  BY <1>1, <1>2 DEF MInv, MTypes, MNumbers, SwallowedNeedsNewClient, MNumbered
<1> QED
  BY <1>3, <1>4, <1>5, <1>6, <1>7, <1>8, <1>9, <1>10, <1>11, <1>12, <1>13, <1>14, <1>15, <1>16
     DEF MInv, MTypes

(* As much for the other way to sync. *)
LEMMA NormalSyncKeeps ==
    ASSUME MInv, NormalSync
    PROVE  MInv'
<1>1. MNumbers /\ MTypes
  BY MNumbersOf DEF MInv
<1>2. /\ mPc = "sync" /\ mPc' = "publish"
      /\ mClient' = [sess |-> mClient'.sess, txn |-> mClient.txn] /\ mClient'.sess \in MSession
      /\ mClient'.sess.next = mPosted /\ mClient'.sess.pos = mClient.sess.pos
      /\ mState'.sess \in MSession
      /\ mState'.sess.pos \in {mClient'.sess.pos, mState.sess.pos}
      /\ mState'.sess.next \in {mClient'.sess.next, mState.sess.next}
      /\ mDisk'.sess \in {mDisk.sess, mState'.sess} /\ MStored'
      /\ mBatch' = MReturned(mClient.sess.next)
      /\ mMissed' = mMissed \cup (MAfter(mClient.sess.next) \ MReturned(mClient.sess.next))
      /\ mResets' = IF mClient.sess.pos > mClient.sess.next THEN mResets \cup {"fallback"} ELSE mResets
      /\ UNCHANGED <<mPlan, mPosted, mIssued, mValid, mCrashes, mDone, mUsed, mReused,
                     mSwallowed, mKnown, mPending, mQueue, mWorker, mCool, mLearned>>
  <2> DEFINE new == [mClient.sess EXCEPT !.next = mPosted]
             s == SaveSyncState(new, mState.sess)
  <2>1. new \in MSession /\ new.next = mPosted /\ new.pos = mClient.sess.pos
    BY <1>1, SessionWith DEF MNumbers
  <2>2. /\ mClient' = [mClient EXCEPT !.sess = new] /\ MSave(s)
        /\ mBatch' = MReturned(mClient.sess.next)
        /\ mMissed' = mMissed \cup (MAfter(mClient.sess.next) \ MReturned(mClient.sess.next))
        /\ mPc' = "publish"
    BY DEF NormalSync, SyncReturns
  <2> HIDE DEF new
  <2>3. s \in MSession /\ s.pos \in {new.pos, mState.sess.pos}
            /\ s.next \in {new.next, mState.sess.next}
    BY <1>1, <2>1, SyncStateOf DEF MNumbers
  <2> HIDE DEF s
  <2>4. mClient' = [sess |-> new, txn |-> mClient.txn]
    BY <1>1, <2>1, <2>2, ClientWith
  <2>5. mState'.sess = s /\ mDisk'.sess \in {mDisk.sess, s} /\ MStored'
    BY <1>1, <2>2, <2>3, SaveOf
  <2> QED
    BY <2>1, <2>2, <2>3, <2>4, <2>5 DEF NormalSync, mSendVars, mProfileVars, mQueueVars
<1>3. MShape'
  BY <1>1, <1>2 DEF MInv, MTypes, MNumbers, MShape
<1>4. MWorld'
  BY <1>1, <1>2 DEF MInv, MTypes, MNumbers, MWorld
<1>5. MStored'
  BY <1>1, <1>2 DEF MInv, MTypes, MNumbers, MStored
<1>6. MCounted'
  <2>1. mBatch' \subseteq 1..mPosted /\ mMissed' \subseteq 1..mPosted
    BY <1>1, <1>2 DEF MTypes, MCounted, MReturned, MAfter
  <2> QED
    BY <1>1, <1>2, <2>1 DEF MTypes, MCounted
<1>7. MWaiting'
  BY <1>1, <1>2 DEF MInv, MTypes, MNumbers, MWaiting
<1>8. MBounded'
  <2>1. /\ mClient'.sess.pos \in {mClient.sess.pos, mPosted}
        /\ mClient'.sess.next \in {mClient.sess.next, mPosted}
        /\ mState'.sess.pos \in {mClient'.sess.pos, mState.sess.pos}
        /\ mState'.sess.next \in {mClient'.sess.next, mState.sess.next}
        /\ mDisk'.sess \in {mDisk.sess, mState'.sess}
        /\ UNCHANGED <<mPlan, mPosted, mDone>>
    BY <1>2
  <2>2. \A n \in {mClient'.sess.pos, mClient'.sess.next, mState'.sess.pos, mState'.sess.next} :
            n <= mPosted
    BY <1>1, <2>1 DEF MInv, MBounded, MNumbers
  <2> QED
    BY <2>1, <2>2 DEF MInv, MBounded
<1>9. NotPassedOver'
  <2>1. \A e \in 1..mPosted : e > mClient.sess.next => e \in mBatch' \cup mMissed'
    BY <1>2 DEF MReturned, MAfter
  <2>2. mBatch = {} /\ mMissed \subseteq mMissed'
    BY <1>2 DEF MInv, MFresh
  <2>3. \A e \in 1..mPosted : e <= mClient.sess.next => mDone[e] > 0 \/ e \in mMissed
    BY <2>2 DEF MInv, NotPassedOver
  <2>4. \A e \in 1..mPosted : mDone[e] > 0 \/ e \in mBatch' \cup mMissed'
    BY <1>1, <2>1, <2>2, <2>3 DEF MNumbers
  <2> QED
    BY <1>2, <2>4 DEF NotPassedOver
<1>10. MFresh'
  <2>1. ASSUME mResets' = {}, NEW e \in mBatch'
        PROVE  mDone[e] = 0 /\ Before(e, mClient'.sess)
    <3>1. e \in 1..mPosted /\ e > mClient.sess.next /\ e <= mPosted
      BY <1>1, <1>2, <2>1 DEF MReturned, MAfter, MNumbers
    <3>2. mResets = {} /\ ~ (mClient.sess.pos > mClient.sess.next)
      BY <1>2, <2>1
    <3>3. ~ Before(e, mClient.sess)
      BY <1>1, <3>1, <3>2 DEF MNumbers, Before
    <3>4. ~ (mDone[e] > 0)
      BY <1>2, <3>1, <3>2, <3>3 DEF MInv, MDoneBefore
    <3>5. mDone[e] = 0
      <4>1. e \in 1..mPlan.events
        BY <1>1, <3>1 DEF MTypes, MWorld, MNumbers
      <4>2. mDone[e] \in 0..2
        BY <1>1, <4>1 DEF MTypes, MCounted
      <4> QED
        BY <3>4, <4>2
    <3> QED
      BY <1>2, <3>1, <3>5 DEF Before
  <2> QED
    BY <1>2, <2>1 DEF MFresh
<1>11. MDoneBefore'
  BY <1>1, <1>2 DEF MInv, MTypes, MNumbers, MDoneBefore, MBounded, MCounted, MFresh, MWorld, Before
<1>12. OnceUnlessReset'
  BY <1>1, <1>2 DEF MInv, MTypes, MNumbers, OnceUnlessReset, MBounded, MFresh, MCounted, MWorld
<1>13. PendingIsQueued'
  BY <1>1, <1>2 DEF MInv, MTypes, MNumbers, PendingIsQueued
<1>14. MNamed'
  BY <1>1, <1>2 DEF MInv, MTypes, MNumbers, MNamed
<1>15. MNumbered'
  BY <1>1, <1>2 DEF MInv, MTypes, MNumbers, MNumbered
<1>16. SwallowedNeedsNewClient'
  BY <1>1, <1>2 DEF MInv, MTypes, MNumbers, SwallowedNeedsNewClient, MNumbered
<1> QED
  BY <1>3, <1>4, <1>5, <1>6, <1>7, <1>8, <1>9, <1>10, <1>11, <1>12, <1>13, <1>14, <1>15, <1>16
     DEF MInv, MTypes

(* Nothing moves. *)
LEMMA SyncRefusedKeeps ==
    ASSUME MInv, SyncRefused
    PROVE  MInv'
<1>1. MNumbers /\ MTypes
  BY MNumbersOf DEF MInv
<1>2. /\ mPc = "sync" /\ mPc' \in {"refresh", "reconnect"}
      /\ UNCHANGED <<mPlan, mPosted, mIssued, mValid, mClient, mState, mDisk, mBatch,
                     mCrashes, mDone, mMissed, mResets, mUsed, mReused, mSwallowed, mKnown,
                     mPending, mQueue, mWorker, mCool, mLearned>>
  BY DEF SyncRefused, mSyncVars, mHistory, mSendVars, mProfileVars, mQueueVars
<1>3. MShape'
  BY <1>1, <1>2 DEF MInv, MTypes, MNumbers, MShape
<1>4. MWorld'
  BY <1>1, <1>2 DEF MInv, MTypes, MNumbers, MWorld
<1>5. MStored'
  BY <1>1, <1>2 DEF MInv, MTypes, MNumbers, MStored
<1>6. MCounted'
  BY <1>1, <1>2 DEF MInv, MTypes, MNumbers, MCounted, MWorld
<1>7. MWaiting'
  BY <1>1, <1>2 DEF MInv, MTypes, MNumbers, MWaiting
<1>8. MBounded'
  BY <1>1, <1>2 DEF MInv, MTypes, MNumbers, MBounded, MWorld, MCounted, MFresh
<1>9. NotPassedOver'
  BY <1>1, <1>2 DEF MInv, MTypes, MNumbers, NotPassedOver, MBounded, MFresh, MCounted, MWorld
<1>10. MFresh'
  BY <1>1, <1>2 DEF MInv, MTypes, MNumbers, MFresh, MCounted, Before
<1>11. MDoneBefore'
  BY <1>1, <1>2 DEF MInv, MTypes, MNumbers, MDoneBefore, MBounded, MCounted, MFresh, MWorld, Before
<1>12. OnceUnlessReset'
  BY <1>1, <1>2 DEF MInv, MTypes, MNumbers, OnceUnlessReset, MBounded, MFresh, MCounted, MWorld
<1>13. PendingIsQueued'
  BY <1>1, <1>2 DEF MInv, MTypes, MNumbers, PendingIsQueued
<1>14. MNamed'
  BY <1>1, <1>2 DEF MInv, MTypes, MNumbers, MNamed
<1>15. MNumbered'
  BY <1>1, <1>2 DEF MInv, MTypes, MNumbers, MNumbered
<1>16. SwallowedNeedsNewClient'
  BY <1>1, <1>2 DEF MInv, MTypes, MNumbers, SwallowedNeedsNewClient, MNumbered
<1> QED
  BY <1>3, <1>4, <1>5, <1>6, <1>7, <1>8, <1>9, <1>10, <1>11, <1>12, <1>13, <1>14, <1>15, <1>16
     DEF MInv, MTypes

(* The positions stay. *)
LEMMA TokenRefreshKeeps ==
    ASSUME MInv, TokenRefresh
    PROVE  MInv'
<1>1. MNumbers /\ MTypes
  BY MNumbersOf DEF MInv
<1>2. /\ mPc = "refresh" /\ mPc' = "save"
      /\ mIssued < mPlan.tokens /\ mIssued' = mIssued + 1 /\ mValid' = mIssued'
      /\ mClient' = [sess |-> mClient'.sess, txn |-> mClient.txn] /\ mClient'.sess \in MSession
      /\ mClient'.sess.pos = mClient.sess.pos /\ mClient'.sess.next = mClient.sess.next
      /\ UNCHANGED <<mPlan, mPosted, mState, mDisk, mBatch, mCrashes, mDone, mMissed,
                     mResets, mUsed, mReused, mSwallowed, mKnown, mPending, mQueue, mWorker,
                     mCool, mLearned>>
  <2> DEFINE new == [mClient.sess EXCEPT !.token = mIssued']
  <2>1. mIssued' \in Nat
    BY <1>1 DEF TokenRefresh, MNumbers
  <2>2. new \in MSession /\ new.pos = mClient.sess.pos /\ new.next = mClient.sess.next
    BY <1>1, <2>1, SessionWith DEF MNumbers
  <2>3. mClient' = [mClient EXCEPT !.sess = new]
    BY <1>1 DEF TokenRefresh, MTypes, MShape
  <2> HIDE DEF new
  <2>4. mClient' = [sess |-> new, txn |-> mClient.txn]
    BY <1>1, <2>2, <2>3, ClientWith
  <2>5. mClient'.sess \in MSession /\ mClient'.sess.pos = mClient.sess.pos
        /\ mClient'.sess.next = mClient.sess.next
               /\ mClient' = [sess |-> mClient'.sess, txn |-> mClient.txn]
    BY <2>2, <2>4
  <2> QED
    BY <2>5 DEF TokenRefresh, mHistory, mSendVars, mProfileVars, mQueueVars
<1>3. MShape'
  BY <1>1, <1>2 DEF MInv, MTypes, MNumbers, MShape
<1>4. MWorld'
  BY <1>1, <1>2 DEF MInv, MTypes, MNumbers, MWorld
<1>5. MStored'
  BY <1>1, <1>2 DEF MInv, MTypes, MNumbers, MStored
<1>6. MCounted'
  BY <1>1, <1>2 DEF MInv, MTypes, MNumbers, MCounted, MWorld
<1>7. MWaiting'
  BY <1>1, <1>2 DEF MInv, MTypes, MNumbers, MWaiting
<1>8. MBounded'
  BY <1>1, <1>2 DEF MInv, MTypes, MNumbers, MBounded, MWorld, MCounted, MFresh
<1>9. NotPassedOver'
  BY <1>1, <1>2 DEF MInv, MTypes, MNumbers, NotPassedOver, MBounded, MFresh, MCounted, MWorld
<1>10. MFresh'
  BY <1>1, <1>2 DEF MInv, MTypes, MNumbers, MFresh, MCounted, Before
<1>11. MDoneBefore'
  BY <1>1, <1>2 DEF MInv, MTypes, MNumbers, MDoneBefore, MBounded, MCounted, MFresh, MWorld, Before
<1>12. OnceUnlessReset'
  BY <1>1, <1>2 DEF MInv, MTypes, MNumbers, OnceUnlessReset, MBounded, MFresh, MCounted, MWorld
<1>13. PendingIsQueued'
  BY <1>1, <1>2 DEF MInv, MTypes, MNumbers, PendingIsQueued
<1>14. MNamed'
  BY <1>1, <1>2 DEF MInv, MTypes, MNumbers, MNamed
<1>15. MNumbered'
  BY <1>1, <1>2 DEF MInv, MTypes, MNumbers, MNumbered
<1>16. SwallowedNeedsNewClient'
  BY <1>1, <1>2 DEF MInv, MTypes, MNumbers, SwallowedNeedsNewClient, MNumbered
<1> QED
  BY <1>3, <1>4, <1>5, <1>6, <1>7, <1>8, <1>9, <1>10, <1>11, <1>12, <1>13, <1>14, <1>15, <1>16
     DEF MInv, MTypes

(* The positions stay. *)
LEMMA RefreshFailsKeeps ==
    ASSUME MInv, RefreshFails
    PROVE  MInv'
<1>1. MNumbers /\ MTypes
  BY MNumbersOf DEF MInv
<1>2. /\ mPc = "refresh" /\ mPc' \in {"sync", "reconnect"}
      /\ mClient' = [sess |-> mClient'.sess, txn |-> mClient.txn] /\ mClient'.sess \in MSession
      /\ mClient'.sess.pos = mClient.sess.pos /\ mClient'.sess.next = mClient.sess.next
      /\ UNCHANGED <<mPlan, mPosted, mIssued, mValid, mState, mDisk, mBatch, mCrashes,
                     mDone, mMissed, mResets, mUsed, mReused, mSwallowed, mKnown, mPending,
                     mQueue, mWorker, mCool, mLearned>>
  <2> DEFINE new == [mClient.sess EXCEPT !.token = NoToken]
  <2>1. mClient = [sess |-> mClient.sess, txn |-> mClient.txn] /\ mClient.sess \in MSession
    BY <1>1 DEF MTypes, MShape
  <2>2. new \in MSession /\ new.pos = mClient.sess.pos /\ new.next = mClient.sess.next
    BY <2>1, SessionWith DEF NoToken
  <2>3. mClient' = mClient \/ mClient' = [mClient EXCEPT !.sess = new]
    BY <1>1 DEF RefreshFails, MTypes, MShape
  <2> HIDE DEF new
  <2>4. mClient' = mClient \/ mClient' = [sess |-> new, txn |-> mClient.txn]
    BY <1>1, <2>2, <2>3, ClientWith
  <2> QED
    BY <2>1, <2>2, <2>4 DEF RefreshFails, mHistory, mSendVars, mProfileVars, mQueueVars
<1>3. MShape'
  BY <1>1, <1>2 DEF MInv, MTypes, MNumbers, MShape
<1>4. MWorld'
  BY <1>1, <1>2 DEF MInv, MTypes, MNumbers, MWorld
<1>5. MStored'
  BY <1>1, <1>2 DEF MInv, MTypes, MNumbers, MStored
<1>6. MCounted'
  BY <1>1, <1>2 DEF MInv, MTypes, MNumbers, MCounted, MWorld
<1>7. MWaiting'
  BY <1>1, <1>2 DEF MInv, MTypes, MNumbers, MWaiting
<1>8. MBounded'
  BY <1>1, <1>2 DEF MInv, MTypes, MNumbers, MBounded, MWorld, MCounted, MFresh
<1>9. NotPassedOver'
  BY <1>1, <1>2 DEF MInv, MTypes, MNumbers, NotPassedOver, MBounded, MFresh, MCounted, MWorld
<1>10. MFresh'
  BY <1>1, <1>2 DEF MInv, MTypes, MNumbers, MFresh, MCounted, Before
<1>11. MDoneBefore'
  BY <1>1, <1>2 DEF MInv, MTypes, MNumbers, MDoneBefore, MBounded, MCounted, MFresh, MWorld, Before
<1>12. OnceUnlessReset'
  BY <1>1, <1>2 DEF MInv, MTypes, MNumbers, OnceUnlessReset, MBounded, MFresh, MCounted, MWorld
<1>13. PendingIsQueued'
  BY <1>1, <1>2 DEF MInv, MTypes, MNumbers, PendingIsQueued
<1>14. MNamed'
  BY <1>1, <1>2 DEF MInv, MTypes, MNumbers, MNamed
<1>15. MNumbered'
  BY <1>1, <1>2 DEF MInv, MTypes, MNumbers, MNumbered
<1>16. SwallowedNeedsNewClient'
  BY <1>1, <1>2 DEF MInv, MTypes, MNumbers, SwallowedNeedsNewClient, MNumbered
<1> QED
  BY <1>3, <1>4, <1>5, <1>6, <1>7, <1>8, <1>9, <1>10, <1>11, <1>12, <1>13, <1>14, <1>15, <1>16
     DEF MInv, MTypes

(* Nothing moves. *)
LEMMA ReconnectKeeps ==
    ASSUME MInv, Reconnect
    PROVE  MInv'
<1>1. MNumbers /\ MTypes
  BY MNumbersOf DEF MInv
<1>2. /\ mPc = "reconnect" /\ mPc' = "login"
      /\ UNCHANGED <<mPlan, mPosted, mIssued, mValid, mClient, mState, mDisk, mBatch,
                     mCrashes, mDone, mMissed, mResets, mUsed, mReused, mSwallowed, mKnown,
                     mPending, mQueue, mWorker, mCool, mLearned>>
  BY DEF Reconnect, mSyncVars, mHistory, mSendVars, mProfileVars, mQueueVars
<1>3. MShape'
  BY <1>1, <1>2 DEF MInv, MTypes, MNumbers, MShape
<1>4. MWorld'
  BY <1>1, <1>2 DEF MInv, MTypes, MNumbers, MWorld
<1>5. MStored'
  BY <1>1, <1>2 DEF MInv, MTypes, MNumbers, MStored
<1>6. MCounted'
  BY <1>1, <1>2 DEF MInv, MTypes, MNumbers, MCounted, MWorld
<1>7. MWaiting'
  BY <1>1, <1>2 DEF MInv, MTypes, MNumbers, MWaiting
<1>8. MBounded'
  BY <1>1, <1>2 DEF MInv, MTypes, MNumbers, MBounded, MWorld, MCounted, MFresh
<1>9. NotPassedOver'
  BY <1>1, <1>2 DEF MInv, MTypes, MNumbers, NotPassedOver, MBounded, MFresh, MCounted, MWorld
<1>10. MFresh'
  BY <1>1, <1>2 DEF MInv, MTypes, MNumbers, MFresh, MCounted, Before
<1>11. MDoneBefore'
  BY <1>1, <1>2 DEF MInv, MTypes, MNumbers, MDoneBefore, MBounded, MCounted, MFresh, MWorld, Before
<1>12. OnceUnlessReset'
  BY <1>1, <1>2 DEF MInv, MTypes, MNumbers, OnceUnlessReset, MBounded, MFresh, MCounted, MWorld
<1>13. PendingIsQueued'
  BY <1>1, <1>2 DEF MInv, MTypes, MNumbers, PendingIsQueued
<1>14. MNamed'
  BY <1>1, <1>2 DEF MInv, MTypes, MNumbers, MNamed
<1>15. MNumbered'
  BY <1>1, <1>2 DEF MInv, MTypes, MNumbers, MNumbered
<1>16. SwallowedNeedsNewClient'
  BY <1>1, <1>2 DEF MInv, MTypes, MNumbers, SwallowedNeedsNewClient, MNumbered
<1> QED
  BY <1>3, <1>4, <1>5, <1>6, <1>7, <1>8, <1>9, <1>10, <1>11, <1>12, <1>13, <1>14, <1>15, <1>16
     DEF MInv, MTypes

(* What is published was not published before, unless a position was taken back. *)
LEMMA PublishEventKeeps ==
    ASSUME MInv, NEW s \in MSubjects, PublishEvent(s)
    PROVE  MInv'
<1>1. MNumbers /\ MTypes
  BY MNumbersOf DEF MInv
<1>2. PICK e \in mBatch :
      /\ mPc = "publish" /\ mBatch' = mBatch \ {e}
      /\ mDone' = [mDone EXCEPT ![e] = IF @ = 2 THEN 2 ELSE @ + 1]
      /\ EnqueueIf(s)
      /\ UNCHANGED <<mPlan, mPosted, mIssued, mValid, mPc, mClient, mState, mDisk, mCrashes,
                     mMissed, mResets, mUsed, mReused, mSwallowed, mKnown, mWorker, mCool,
                     mLearned>>
  BY DEF PublishEvent, mSyncVars, mHistory, mSendVars, mProfileVars, mQueueVars
<1>3. MShape'
  BY <1>1, <1>2 DEF MInv, MTypes, MNumbers, MShape
<1>4. MWorld'
  BY <1>1, <1>2 DEF MInv, MTypes, MNumbers, MWorld
<1>5. MStored'
  BY <1>1, <1>2 DEF MInv, MTypes, MNumbers, MStored
<1>6. MCounted'
  <2>0. 1..mPosted \subseteq 1..mPlan.events /\ e \in 1..mPosted /\ e \in 1..mPlan.events
    BY <1>1, <1>2 DEF MTypes, MNumbers, MWorld, MCounted
  <2>4. mDone \in [1..mPlan.events -> 0..2] /\ mDone[e] \in 0..2
    BY <1>1, <2>0 DEF MTypes, MCounted
  <2>5. (IF mDone[e] = 2 THEN 2 ELSE mDone[e] + 1) \in 1..2
    BY <2>4
  <2>6. mDone' = [mDone EXCEPT ![e] = IF mDone[e] = 2 THEN 2 ELSE mDone[e] + 1]
    BY <1>2
  <2>1. /\ 1..mPosted \subseteq 1..mPlan.events /\ e \in 1..mPosted
        /\ mDone'[e] > 0 /\ mDone'[e] \in 0..2 /\ (mDone[e] = 0 => mDone'[e] = 1)
        /\ \A f \in 1..mPlan.events : f # e => mDone'[f] = mDone[f]
        /\ mDone' \in [1..mPlan.events -> 0..2]
    BY <2>0, <2>4, <2>5, <2>6
  <2>2. UNCHANGED <<mPlan, mPosted, mClient, mState, mDisk, mMissed, mResets, mUsed, mReused,
            mSwallowed>>
    BY <1>2
  <2>3. mBatch' = mBatch \ {e} /\ mPc = "publish"
    BY <1>2
  <2> QED
    BY <1>1, <2>1, <2>2, <2>3 DEF MInv, MTypes, MCounted
<1>7. MWaiting'
  <2>1. CASE s \in mPending \cup mKnown \/ Len(mQueue) = MQueueSize
    BY <1>1, <1>2, <2>1 DEF EnqueueIf, mQueueVars, MInv, MTypes, MWaiting
  <2>2. CASE ~ (s \in mPending \cup mKnown \/ Len(mQueue) = MQueueSize)
    <3>1. Enqueue(s) /\ s \in MSubjects \ mKnown
      BY <1>2, <2>2 DEF EnqueueIf
    <3> QED
      BY <1>2, <3>1, EnqueueOf
  <2> QED
    BY <2>1, <2>2
<1>8. MBounded'
  BY <1>1, <1>2 DEF MInv, MTypes, MNumbers, MBounded, MWorld, MCounted, MFresh
<1>9. NotPassedOver'
  <2>0. 1..mPosted \subseteq 1..mPlan.events /\ e \in 1..mPosted /\ e \in 1..mPlan.events
    BY <1>1, <1>2 DEF MTypes, MNumbers, MWorld, MCounted
  <2>4. mDone \in [1..mPlan.events -> 0..2] /\ mDone[e] \in 0..2
    BY <1>1, <2>0 DEF MTypes, MCounted
  <2>5. (IF mDone[e] = 2 THEN 2 ELSE mDone[e] + 1) \in 1..2
    BY <2>4
  <2>6. mDone' = [mDone EXCEPT ![e] = IF mDone[e] = 2 THEN 2 ELSE mDone[e] + 1]
    BY <1>2
  <2>1. /\ 1..mPosted \subseteq 1..mPlan.events /\ e \in 1..mPosted
        /\ mDone'[e] > 0 /\ mDone'[e] \in 0..2 /\ (mDone[e] = 0 => mDone'[e] = 1)
        /\ \A f \in 1..mPlan.events : f # e => mDone'[f] = mDone[f]
        /\ mDone' \in [1..mPlan.events -> 0..2]
    BY <2>0, <2>4, <2>5, <2>6
  <2>2. UNCHANGED <<mPlan, mPosted, mClient, mState, mDisk, mMissed, mResets, mUsed, mReused,
            mSwallowed>>
    BY <1>2
  <2>3. mBatch' = mBatch \ {e} /\ mPc = "publish"
    BY <1>2
  <2> QED
    BY <1>1, <2>1, <2>2, <2>3 DEF MInv, NotPassedOver
<1>10. MFresh'
  BY <1>1, <1>2 DEF MInv, MTypes, MNumbers, MFresh, MCounted, Before
<1>11. MDoneBefore'
  BY <1>1, <1>2 DEF MInv, MTypes, MNumbers, MDoneBefore, MBounded, MCounted, MFresh, MWorld, Before
<1>12. OnceUnlessReset'
  BY <1>1, <1>2 DEF MInv, MTypes, MNumbers, OnceUnlessReset, MBounded, MFresh, MCounted, MWorld
<1>13. PendingIsQueued'
  <2>1. CASE s \in mPending \cup mKnown \/ Len(mQueue) = MQueueSize
    BY <1>1, <1>2, <2>1 DEF EnqueueIf, mQueueVars, MInv, MTypes, PendingIsQueued
  <2>2. CASE ~ (s \in mPending \cup mKnown \/ Len(mQueue) = MQueueSize)
    <3>1. Enqueue(s) /\ s \in MSubjects \ mKnown
      BY <1>2, <2>2 DEF EnqueueIf
    <3> QED
      BY <1>2, <3>1, EnqueueOf
  <2> QED
    BY <2>1, <2>2
<1>14. MNamed'
  <2>1. CASE s \in mPending \cup mKnown \/ Len(mQueue) = MQueueSize
    BY <1>1, <1>2, <2>1 DEF EnqueueIf, mQueueVars, MInv, MTypes, MNamed
  <2>2. CASE ~ (s \in mPending \cup mKnown \/ Len(mQueue) = MQueueSize)
    <3>1. Enqueue(s) /\ s \in MSubjects \ mKnown
      BY <1>2, <2>2 DEF EnqueueIf
    <3> QED
      BY <1>2, <3>1, EnqueueOf
  <2> QED
    BY <2>1, <2>2
<1>15. MNumbered'
  BY <1>1, <1>2 DEF MInv, MTypes, MNumbers, MNumbered
<1>16. SwallowedNeedsNewClient'
  BY <1>1, <1>2 DEF MInv, MTypes, MNumbers, SwallowedNeedsNewClient, MNumbered
<1> QED
  BY <1>3, <1>4, <1>5, <1>6, <1>7, <1>8, <1>9, <1>10, <1>11, <1>12, <1>13, <1>14, <1>15, <1>16
     DEF MInv, MTypes

(* Nothing moves. *)
LEMMA BatchDoneKeeps ==
    ASSUME MInv, BatchDone
    PROVE  MInv'
<1>1. MNumbers /\ MTypes
  BY MNumbersOf DEF MInv
<1>2. /\ mPc = "publish" /\ mBatch = {} /\ mPc' = "sync"
      /\ UNCHANGED <<mPlan, mPosted, mIssued, mValid, mClient, mState, mDisk, mBatch,
                     mCrashes, mDone, mMissed, mResets, mUsed, mReused, mSwallowed, mKnown,
                     mPending, mQueue, mWorker, mCool, mLearned>>
  BY DEF BatchDone, mSyncVars, mHistory, mSendVars, mProfileVars, mQueueVars
<1>3. MShape'
  BY <1>1, <1>2 DEF MInv, MTypes, MNumbers, MShape
<1>4. MWorld'
  BY <1>1, <1>2 DEF MInv, MTypes, MNumbers, MWorld
<1>5. MStored'
  BY <1>1, <1>2 DEF MInv, MTypes, MNumbers, MStored
<1>6. MCounted'
  BY <1>1, <1>2 DEF MInv, MTypes, MNumbers, MCounted, MWorld
<1>7. MWaiting'
  BY <1>1, <1>2 DEF MInv, MTypes, MNumbers, MWaiting
<1>8. MBounded'
  BY <1>1, <1>2 DEF MInv, MTypes, MNumbers, MBounded, MWorld, MCounted, MFresh
<1>9. NotPassedOver'
  BY <1>1, <1>2 DEF MInv, MTypes, MNumbers, NotPassedOver, MBounded, MFresh, MCounted, MWorld
<1>10. MFresh'
  BY <1>1, <1>2 DEF MInv, MTypes, MNumbers, MFresh, MCounted, Before
<1>11. MDoneBefore'
  BY <1>1, <1>2 DEF MInv, MTypes, MNumbers, MDoneBefore, MBounded, MCounted, MFresh, MWorld, Before
<1>12. OnceUnlessReset'
  BY <1>1, <1>2 DEF MInv, MTypes, MNumbers, OnceUnlessReset, MBounded, MFresh, MCounted, MWorld
<1>13. PendingIsQueued'
  BY <1>1, <1>2 DEF MInv, MTypes, MNumbers, PendingIsQueued
<1>14. MNamed'
  BY <1>1, <1>2 DEF MInv, MTypes, MNumbers, MNamed
<1>15. MNumbered'
  BY <1>1, <1>2 DEF MInv, MTypes, MNumbers, MNumbered
<1>16. SwallowedNeedsNewClient'
  BY <1>1, <1>2 DEF MInv, MTypes, MNumbers, SwallowedNeedsNewClient, MNumbered
<1> QED
  BY <1>3, <1>4, <1>5, <1>6, <1>7, <1>8, <1>9, <1>10, <1>11, <1>12, <1>13, <1>14, <1>15, <1>16
     DEF MInv, MTypes

(* The room waits in the queue. *)
LEMMA SweepJoinedRoomsKeeps ==
    ASSUME MInv, NEW r \in MRooms, SweepJoinedRooms(r)
    PROVE  MInv'
<1>1. MNumbers /\ MTypes
  BY MNumbersOf DEF MInv
<1>2. /\ r \in MSubjects \ mKnown /\ Enqueue(r)
      /\ UNCHANGED <<mPlan, mPosted, mIssued, mValid, mPc, mClient, mState, mDisk, mBatch,
                     mCrashes, mDone, mMissed, mResets, mUsed, mReused, mSwallowed, mKnown,
                     mWorker, mCool, mLearned>>
  BY DEF SweepJoinedRooms, mSyncVars, mHistory, mSendVars, mProfileVars, mQueueVars, MSubjects
<1>3. MShape'
  BY <1>1, <1>2 DEF MInv, MTypes, MNumbers, MShape
<1>4. MWorld'
  BY <1>1, <1>2 DEF MInv, MTypes, MNumbers, MWorld
<1>5. MStored'
  BY <1>1, <1>2 DEF MInv, MTypes, MNumbers, MStored
<1>6. MCounted'
  BY <1>1, <1>2 DEF MInv, MTypes, MNumbers, MCounted, MWorld
<1>7. MWaiting'
  BY <1>2, EnqueueOf
<1>8. MBounded'
  BY <1>1, <1>2 DEF MInv, MTypes, MNumbers, MBounded, MWorld, MCounted, MFresh
<1>9. NotPassedOver'
  BY <1>1, <1>2 DEF MInv, MTypes, MNumbers, NotPassedOver, MBounded, MFresh, MCounted, MWorld
<1>10. MFresh'
  BY <1>1, <1>2 DEF MInv, MTypes, MNumbers, MFresh, MCounted, Before
<1>11. MDoneBefore'
  BY <1>1, <1>2 DEF MInv, MTypes, MNumbers, MDoneBefore, MBounded, MCounted, MFresh, MWorld, Before
<1>12. OnceUnlessReset'
  BY <1>1, <1>2 DEF MInv, MTypes, MNumbers, OnceUnlessReset, MBounded, MFresh, MCounted, MWorld
<1>13. PendingIsQueued'
  BY <1>2, EnqueueOf
<1>14. MNamed'
  BY <1>2, EnqueueOf
<1>15. MNumbered'
  BY <1>1, <1>2 DEF MInv, MTypes, MNumbers, MNumbered
<1>16. SwallowedNeedsNewClient'
  BY <1>1, <1>2 DEF MInv, MTypes, MNumbers, SwallowedNeedsNewClient, MNumbered
<1> QED
  BY <1>3, <1>4, <1>5, <1>6, <1>7, <1>8, <1>9, <1>10, <1>11, <1>12, <1>13, <1>14, <1>15, <1>16
     DEF MInv, MTypes

(* A sender that waits is noted. *)
LEMMA HarvestKeeps ==
    ASSUME MInv, NEW s \in MSubjects, Harvest(s)
    PROVE  MInv'
<1>1. MNumbers /\ MTypes
  BY MNumbersOf DEF MInv
<1>2. /\ MLearn({s})
      /\ UNCHANGED <<mPlan, mPosted, mIssued, mValid, mPc, mClient, mState, mDisk, mBatch,
                     mCrashes, mDone, mMissed, mResets, mUsed, mReused, mSwallowed,
                     mPending, mQueue, mWorker, mCool>>
  BY DEF Harvest, mSyncVars, mHistory, mSendVars, mProfileVars, mQueueVars
<1>3. MShape'
  BY <1>1, <1>2 DEF MInv, MTypes, MNumbers, MShape
<1>4. MWorld'
  BY <1>1, <1>2 DEF MInv, MTypes, MNumbers, MWorld
<1>5. MStored'
  BY <1>1, <1>2 DEF MInv, MTypes, MNumbers, MStored
<1>6. MCounted'
  BY <1>1, <1>2 DEF MInv, MTypes, MNumbers, MCounted, MWorld
<1>7. MWaiting'
  <2>1. {s} \in SUBSET MSubjects
    BY <1>1 DEF MTypes, MStored
  <2> QED
    BY <1>2, <2>1, LearnOf DEF mQueueVars
<1>8. MBounded'
  BY <1>1, <1>2 DEF MInv, MTypes, MNumbers, MBounded, MWorld, MCounted, MFresh
<1>9. NotPassedOver'
  BY <1>1, <1>2 DEF MInv, MTypes, MNumbers, NotPassedOver, MBounded, MFresh, MCounted, MWorld
<1>10. MFresh'
  BY <1>1, <1>2 DEF MInv, MTypes, MNumbers, MFresh, MCounted, Before
<1>11. MDoneBefore'
  BY <1>1, <1>2 DEF MInv, MTypes, MNumbers, MDoneBefore, MBounded, MCounted, MFresh, MWorld, Before
<1>12. OnceUnlessReset'
  BY <1>1, <1>2 DEF MInv, MTypes, MNumbers, OnceUnlessReset, MBounded, MFresh, MCounted, MWorld
<1>13. PendingIsQueued'
  <2>1. {s} \in SUBSET MSubjects
    BY <1>1 DEF MTypes, MStored
  <2> QED
    BY <1>2, <2>1, LearnOf DEF mQueueVars
<1>14. MNamed'
  <2>1. {s} \in SUBSET MSubjects
    BY <1>1 DEF MTypes, MStored
  <2> QED
    BY <1>2, <2>1, LearnOf DEF mQueueVars
<1>15. MNumbered'
  BY <1>1, <1>2 DEF MInv, MTypes, MNumbers, MNumbered
<1>16. SwallowedNeedsNewClient'
  BY <1>1, <1>2 DEF MInv, MTypes, MNumbers, SwallowedNeedsNewClient, MNumbered
<1> QED
  BY <1>3, <1>4, <1>5, <1>6, <1>7, <1>8, <1>9, <1>10, <1>11, <1>12, <1>13, <1>14, <1>15, <1>16
     DEF MInv, MTypes

(* Less is known. *)
LEMMA MPruneKeeps ==
    ASSUME MInv, NEW s \in MSubjects, MPrune(s)
    PROVE  MInv'
<1>1. MNumbers /\ MTypes
  BY MNumbersOf DEF MInv
<1>2. /\ mKnown' = mKnown \ {s}
      /\ UNCHANGED <<mPlan, mPosted, mIssued, mValid, mPc, mClient, mState, mDisk, mBatch,
                     mCrashes, mDone, mMissed, mResets, mUsed, mReused, mSwallowed,
                     mPending, mQueue, mWorker, mCool, mLearned>>
  BY DEF MPrune, mSyncVars, mHistory, mSendVars, mProfileVars, mQueueVars
<1>3. MShape'
  BY <1>1, <1>2 DEF MInv, MTypes, MNumbers, MShape
<1>4. MWorld'
  BY <1>1, <1>2 DEF MInv, MTypes, MNumbers, MWorld
<1>5. MStored'
  BY <1>1, <1>2 DEF MInv, MTypes, MNumbers, MStored
<1>6. MCounted'
  BY <1>1, <1>2 DEF MInv, MTypes, MNumbers, MCounted, MWorld
<1>7. MWaiting'
  BY <1>1, <1>2 DEF MInv, MTypes, MNumbers, MWaiting
<1>8. MBounded'
  BY <1>1, <1>2 DEF MInv, MTypes, MNumbers, MBounded, MWorld, MCounted, MFresh
<1>9. NotPassedOver'
  BY <1>1, <1>2 DEF MInv, MTypes, MNumbers, NotPassedOver, MBounded, MFresh, MCounted, MWorld
<1>10. MFresh'
  BY <1>1, <1>2 DEF MInv, MTypes, MNumbers, MFresh, MCounted, Before
<1>11. MDoneBefore'
  BY <1>1, <1>2 DEF MInv, MTypes, MNumbers, MDoneBefore, MBounded, MCounted, MFresh, MWorld, Before
<1>12. OnceUnlessReset'
  BY <1>1, <1>2 DEF MInv, MTypes, MNumbers, OnceUnlessReset, MBounded, MFresh, MCounted, MWorld
<1>13. PendingIsQueued'
  BY <1>1, <1>2 DEF MInv, MTypes, MNumbers, PendingIsQueued
<1>14. MNamed'
  BY <1>1, <1>2 DEF MInv, MTypes, MNumbers, MNamed
<1>15. MNumbered'
  BY <1>1, <1>2 DEF MInv, MTypes, MNumbers, MNumbered
<1>16. SwallowedNeedsNewClient'
  BY <1>1, <1>2 DEF MInv, MTypes, MNumbers, SwallowedNeedsNewClient, MNumbered
<1> QED
  BY <1>3, <1>4, <1>5, <1>6, <1>7, <1>8, <1>9, <1>10, <1>11, <1>12, <1>13, <1>14, <1>15, <1>16
     DEF MInv, MTypes

(* Nothing else moves. *)
LEMMA CooldownLapsesKeeps ==
    ASSUME MInv, NEW s \in MSubjects, CooldownLapses(s)
    PROVE  MInv'
<1>1. MNumbers /\ MTypes
  BY MNumbersOf DEF MInv
<1>2. /\ mCool' = mCool \ {s}
      /\ UNCHANGED <<mPlan, mPosted, mIssued, mValid, mPc, mClient, mState, mDisk, mBatch,
                     mCrashes, mDone, mMissed, mResets, mUsed, mReused, mSwallowed, mKnown,
                     mPending, mQueue, mWorker, mLearned>>
  BY DEF CooldownLapses, mSyncVars, mHistory, mSendVars, mProfileVars, mQueueVars
<1>3. MShape'
  BY <1>1, <1>2 DEF MInv, MTypes, MNumbers, MShape
<1>4. MWorld'
  BY <1>1, <1>2 DEF MInv, MTypes, MNumbers, MWorld
<1>5. MStored'
  BY <1>1, <1>2 DEF MInv, MTypes, MNumbers, MStored
<1>6. MCounted'
  BY <1>1, <1>2 DEF MInv, MTypes, MNumbers, MCounted, MWorld
<1>7. MWaiting'
  BY <1>1, <1>2 DEF MInv, MTypes, MNumbers, MWaiting
<1>8. MBounded'
  BY <1>1, <1>2 DEF MInv, MTypes, MNumbers, MBounded, MWorld, MCounted, MFresh
<1>9. NotPassedOver'
  BY <1>1, <1>2 DEF MInv, MTypes, MNumbers, NotPassedOver, MBounded, MFresh, MCounted, MWorld
<1>10. MFresh'
  BY <1>1, <1>2 DEF MInv, MTypes, MNumbers, MFresh, MCounted, Before
<1>11. MDoneBefore'
  BY <1>1, <1>2 DEF MInv, MTypes, MNumbers, MDoneBefore, MBounded, MCounted, MFresh, MWorld, Before
<1>12. OnceUnlessReset'
  BY <1>1, <1>2 DEF MInv, MTypes, MNumbers, OnceUnlessReset, MBounded, MFresh, MCounted, MWorld
<1>13. PendingIsQueued'
  BY <1>1, <1>2 DEF MInv, MTypes, MNumbers, PendingIsQueued
<1>14. MNamed'
  BY <1>1, <1>2 DEF MInv, MTypes, MNumbers, MNamed
<1>15. MNumbered'
  BY <1>1, <1>2 DEF MInv, MTypes, MNumbers, MNumbered
<1>16. SwallowedNeedsNewClient'
  BY <1>1, <1>2 DEF MInv, MTypes, MNumbers, SwallowedNeedsNewClient, MNumbered
<1> QED
  BY <1>3, <1>4, <1>5, <1>6, <1>7, <1>8, <1>9, <1>10, <1>11, <1>12, <1>13, <1>14, <1>15, <1>16
     DEF MInv, MTypes

(* The room goes to the worker, or its flag goes. *)
LEMMA BackfillOneKeeps ==
    ASSUME MInv, NEW r \in MRooms, BackfillOne(r)
    PROVE  MInv'
<1>1. MNumbers /\ MTypes
  BY MNumbersOf DEF MInv
<1>2. /\ MTaken /\ Head(mQueue) = r /\ r \in MSubjects
      /\ \/ mPending' = mPending \ {r} /\ mWorker' = mWorker
         \/ mPending' = mPending /\ mWorker' = r
      /\ UNCHANGED <<mPlan, mPosted, mIssued, mValid, mPc, mClient, mState, mDisk, mBatch,
                     mCrashes, mDone, mMissed, mResets, mUsed, mReused, mSwallowed, mKnown,
                     mCool, mLearned>>
  BY DEF BackfillOne, mSyncVars, mHistory, mSendVars, mProfileVars, mQueueVars, MSubjects
<1>3. MShape'
  BY <1>1, <1>2 DEF MInv, MTypes, MNumbers, MShape
<1>4. MWorld'
  BY <1>1, <1>2 DEF MInv, MTypes, MNumbers, MWorld
<1>5. MStored'
  BY <1>1, <1>2 DEF MInv, MTypes, MNumbers, MStored
<1>6. MCounted'
  BY <1>1, <1>2 DEF MInv, MTypes, MNumbers, MCounted, MWorld
<1>7. MWaiting'
  <2>1. mQueue' \in Seq(MSubjects) /\ Len(mQueue') <= MQueueSize
    BY <1>1, <1>2, TakenOf
  <2>2. UNCHANGED mKnown
    BY <1>2
  <2> QED
    BY <1>1, <1>2, <2>1, <2>2 DEF MTypes, MWaiting
<1>8. MBounded'
  BY <1>1, <1>2 DEF MInv, MTypes, MNumbers, MBounded, MWorld, MCounted, MFresh
<1>9. NotPassedOver'
  BY <1>1, <1>2 DEF MInv, MTypes, MNumbers, NotPassedOver, MBounded, MFresh, MCounted, MWorld
<1>10. MFresh'
  BY <1>1, <1>2 DEF MInv, MTypes, MNumbers, MFresh, MCounted, Before
<1>11. MDoneBefore'
  BY <1>1, <1>2 DEF MInv, MTypes, MNumbers, MDoneBefore, MBounded, MCounted, MFresh, MWorld, Before
<1>12. OnceUnlessReset'
  BY <1>1, <1>2 DEF MInv, MTypes, MNumbers, OnceUnlessReset, MBounded, MFresh, MCounted, MWorld
<1>13. PendingIsQueued'
  <2>1. mWorker = MIdle /\ \A t \in ToSet(mQueue) : t = r \/ t \in ToSet(mQueue')
    BY <1>1, <1>2, TakenOf
  <2>2. \A t \in MSubjects : t # MIdle
    BY MSubjectsAssumption
  <2>3. mPending \subseteq MSubjects /\ mPending' \subseteq mPending
    BY <1>1, <1>2 DEF MTypes, MWaiting
  <2> QED
    BY <1>2, <2>1, <2>2, <2>3 DEF MInv, PendingIsQueued, MNamed
<1>14. MNamed'
  BY <1>1, <1>2 DEF MInv, MTypes, MNumbers, MNamed
<1>15. MNumbered'
  BY <1>1, <1>2 DEF MInv, MTypes, MNumbers, MNumbered
<1>16. SwallowedNeedsNewClient'
  BY <1>1, <1>2 DEF MInv, MTypes, MNumbers, SwallowedNeedsNewClient, MNumbered
<1> QED
  BY <1>3, <1>4, <1>5, <1>6, <1>7, <1>8, <1>9, <1>10, <1>11, <1>12, <1>13, <1>14, <1>15, <1>16
     DEF MInv, MTypes

(* The worker is idle, and the flag of its task is gone. *)
LEMMA RoomFetchedKeeps ==
    ASSUME MInv, NEW r \in MRooms, RoomFetched(r)
    PROVE  MInv'
<1>1. MNumbers /\ MTypes
  BY MNumbersOf DEF MInv
<1>2. /\ mWorker = r /\ mWorker' = MIdle /\ mPending' = mPending \ {r} /\ r \in MSubjects
             /\ r \notin MMembers
      /\ mKnown' \in {mKnown, mKnown \cup {r}} /\ mCool' \in {mCool, mCool \cup {r}}
      /\ UNCHANGED <<mPlan, mPosted, mIssued, mValid, mPc, mClient, mState, mDisk, mBatch,
                     mCrashes, mDone, mMissed, mResets, mUsed, mReused, mSwallowed, mQueue,
                     mLearned>>
  BY MatrixAssumption
     DEF RoomFetched, MSubjects, mSyncVars, mHistory, mSendVars, mProfileVars, mQueueVars
<1>3. MShape'
  BY <1>1, <1>2 DEF MInv, MTypes, MNumbers, MShape
<1>4. MWorld'
  BY <1>1, <1>2 DEF MInv, MTypes, MNumbers, MWorld
<1>5. MStored'
  BY <1>1, <1>2 DEF MInv, MTypes, MNumbers, MStored
<1>6. MCounted'
  BY <1>1, <1>2 DEF MInv, MTypes, MNumbers, MCounted, MWorld
<1>7. MWaiting'
  BY <1>1, <1>2 DEF MInv, MTypes, MNumbers, MWaiting
<1>8. MBounded'
  BY <1>1, <1>2 DEF MInv, MTypes, MNumbers, MBounded, MWorld, MCounted, MFresh
<1>9. NotPassedOver'
  BY <1>1, <1>2 DEF MInv, MTypes, MNumbers, NotPassedOver, MBounded, MFresh, MCounted, MWorld
<1>10. MFresh'
  BY <1>1, <1>2 DEF MInv, MTypes, MNumbers, MFresh, MCounted, Before
<1>11. MDoneBefore'
  BY <1>1, <1>2 DEF MInv, MTypes, MNumbers, MDoneBefore, MBounded, MCounted, MFresh, MWorld, Before
<1>12. OnceUnlessReset'
  BY <1>1, <1>2 DEF MInv, MTypes, MNumbers, OnceUnlessReset, MBounded, MFresh, MCounted, MWorld
<1>13. PendingIsQueued'
  BY <1>1, <1>2 DEF MInv, MTypes, MNumbers, PendingIsQueued
<1>14. MNamed'
  BY <1>1, <1>2 DEF MInv, MTypes, MNumbers, MNamed
<1>15. MNumbered'
  BY <1>1, <1>2 DEF MInv, MTypes, MNumbers, MNumbered
<1>16. SwallowedNeedsNewClient'
  BY <1>1, <1>2 DEF MInv, MTypes, MNumbers, SwallowedNeedsNewClient, MNumbered
<1> QED
  BY <1>3, <1>4, <1>5, <1>6, <1>7, <1>8, <1>9, <1>10, <1>11, <1>12, <1>13, <1>14, <1>15, <1>16
     DEF MInv, MTypes

(* A sender that has a name got it while it waited. *)
LEMMA ResolveMemberKeeps ==
    ASSUME MInv, NEW u \in MMembers, ResolveMember(u)
    PROVE  MInv'
<1>1. MNumbers /\ MTypes
  BY MNumbersOf DEF MInv
<1>2. /\ MTaken /\ Head(mQueue) = u /\ u \in MSubjects /\ u \in MMembers
      /\ mCool' \in {mCool, mCool \cup {u}}
      /\ \/ mPending' = mPending /\ mWorker' = mWorker /\ u \in mKnown
         \/ mPending' = mPending \ {u} /\ mWorker' = mWorker
         \/ mPending' = mPending /\ mWorker' = u
      /\ mLearned' = mLearned \cap mPending'
      /\ UNCHANGED <<mPlan, mPosted, mIssued, mValid, mPc, mClient, mState, mDisk, mBatch,
                     mCrashes, mDone, mMissed, mResets, mUsed, mReused, mSwallowed, mKnown>>
  BY DEF ResolveMember, mSyncVars, mHistory, mSendVars, mProfileVars, mQueueVars, MSubjects
<1>3. MShape'
  BY <1>1, <1>2 DEF MInv, MTypes, MNumbers, MShape
<1>4. MWorld'
  BY <1>1, <1>2 DEF MInv, MTypes, MNumbers, MWorld
<1>5. MStored'
  BY <1>1, <1>2 DEF MInv, MTypes, MNumbers, MStored
<1>6. MCounted'
  BY <1>1, <1>2 DEF MInv, MTypes, MNumbers, MCounted, MWorld
<1>7. MWaiting'
  <2>1. mQueue' \in Seq(MSubjects) /\ Len(mQueue') <= MQueueSize
    BY <1>1, <1>2, TakenOf
  <2>2. UNCHANGED mKnown
    BY <1>2
  <2> QED
    BY <1>1, <1>2, <2>1, <2>2 DEF MTypes, MWaiting
<1>8. MBounded'
  BY <1>1, <1>2 DEF MInv, MTypes, MNumbers, MBounded, MWorld, MCounted, MFresh
<1>9. NotPassedOver'
  BY <1>1, <1>2 DEF MInv, MTypes, MNumbers, NotPassedOver, MBounded, MFresh, MCounted, MWorld
<1>10. MFresh'
  BY <1>1, <1>2 DEF MInv, MTypes, MNumbers, MFresh, MCounted, Before
<1>11. MDoneBefore'
  BY <1>1, <1>2 DEF MInv, MTypes, MNumbers, MDoneBefore, MBounded, MCounted, MFresh, MWorld, Before
<1>12. OnceUnlessReset'
  BY <1>1, <1>2 DEF MInv, MTypes, MNumbers, OnceUnlessReset, MBounded, MFresh, MCounted, MWorld
<1>13. PendingIsQueued'
  <2>1. mWorker = MIdle /\ \A t \in ToSet(mQueue) : t = u \/ t \in ToSet(mQueue')
    BY <1>1, <1>2, TakenOf
  <2>2. \A t \in MSubjects : t # MIdle
    BY MSubjectsAssumption
  <2>3. mPending \subseteq MSubjects /\ mPending' \subseteq mPending
    BY <1>1, <1>2 DEF MTypes, MWaiting
  <2> QED
    BY <1>2, <2>1, <2>2, <2>3 DEF MInv, PendingIsQueued, MNamed
<1>14. MNamed'
  BY <1>1, <1>2 DEF MInv, MTypes, MNumbers, MNamed
<1>15. MNumbered'
  BY <1>1, <1>2 DEF MInv, MTypes, MNumbers, MNumbered
<1>16. SwallowedNeedsNewClient'
  BY <1>1, <1>2 DEF MInv, MTypes, MNumbers, SwallowedNeedsNewClient, MNumbered
<1> QED
  BY <1>3, <1>4, <1>5, <1>6, <1>7, <1>8, <1>9, <1>10, <1>11, <1>12, <1>13, <1>14, <1>15, <1>16
     DEF MInv, MTypes

(* A sender that waits and is among the names is noted. *)
LEMMA MemberFetchedKeeps ==
    ASSUME MInv, NEW u \in MMembers, MemberFetched(u)
    PROVE  MInv'
<1>1. MNumbers /\ MTypes
  BY MNumbersOf DEF MInv
<1>2. PICK names \in SUBSET MMembers :
      /\ mWorker = u /\ mWorker' = MIdle /\ mPending' = mPending \ {u} /\ names \subseteq MSubjects
      /\ mKnown' = mKnown \cup names /\ mLearned' = (mLearned \cup names) \cap mPending'
      /\ UNCHANGED <<mPlan, mPosted, mIssued, mValid, mPc, mClient, mState, mDisk, mBatch,
                     mCrashes, mDone, mMissed, mResets, mUsed, mReused, mSwallowed, mQueue,
                     mCool>>
  BY DEF MemberFetched, mSyncVars, mHistory, mSendVars, mProfileVars, mQueueVars, MSubjects
<1>3. MShape'
  BY <1>1, <1>2 DEF MInv, MTypes, MNumbers, MShape
<1>4. MWorld'
  BY <1>1, <1>2 DEF MInv, MTypes, MNumbers, MWorld
<1>5. MStored'
  BY <1>1, <1>2 DEF MInv, MTypes, MNumbers, MStored
<1>6. MCounted'
  BY <1>1, <1>2 DEF MInv, MTypes, MNumbers, MCounted, MWorld
<1>7. MWaiting'
  BY <1>1, <1>2 DEF MInv, MTypes, MNumbers, MWaiting
<1>8. MBounded'
  BY <1>1, <1>2 DEF MInv, MTypes, MNumbers, MBounded, MWorld, MCounted, MFresh
<1>9. NotPassedOver'
  BY <1>1, <1>2 DEF MInv, MTypes, MNumbers, NotPassedOver, MBounded, MFresh, MCounted, MWorld
<1>10. MFresh'
  BY <1>1, <1>2 DEF MInv, MTypes, MNumbers, MFresh, MCounted, Before
<1>11. MDoneBefore'
  BY <1>1, <1>2 DEF MInv, MTypes, MNumbers, MDoneBefore, MBounded, MCounted, MFresh, MWorld, Before
<1>12. OnceUnlessReset'
  BY <1>1, <1>2 DEF MInv, MTypes, MNumbers, OnceUnlessReset, MBounded, MFresh, MCounted, MWorld
<1>13. PendingIsQueued'
  BY <1>1, <1>2 DEF MInv, MTypes, MNumbers, PendingIsQueued
<1>14. MNamed'
  BY <1>1, <1>2 DEF MInv, MTypes, MNumbers, MNamed
<1>15. MNumbered'
  BY <1>1, <1>2 DEF MInv, MTypes, MNumbers, MNumbered
<1>16. SwallowedNeedsNewClient'
  BY <1>1, <1>2 DEF MInv, MTypes, MNumbers, SwallowedNeedsNewClient, MNumbered
<1> QED
  BY <1>3, <1>4, <1>5, <1>6, <1>7, <1>8, <1>9, <1>10, <1>11, <1>12, <1>13, <1>14, <1>15, <1>16
     DEF MInv, MTypes

(* A client that replaced none has not used the number. *)
LEMMA MSendKeeps ==
    ASSUME MInv, MSend
    PROVE  MInv'
<1>1. MNumbers /\ MTypes
  BY MNumbersOf DEF MInv
<1>2. /\ mClient.txn # -1 /\ mClient.txn < mPlan.sends
      /\ mClient' = [sess |-> mClient.sess, txn |-> mClient.txn + 1]
      /\ mUsed' = mUsed \cup {mClient.txn + 1}
      /\ mSwallowed' = (mSwallowed \/ mClient.txn + 1 \in mUsed)
      /\ UNCHANGED <<mPlan, mPosted, mIssued, mValid, mPc, mState, mDisk, mBatch, mCrashes,
                     mDone, mMissed, mResets, mReused, mKnown, mPending, mQueue, mWorker,
                     mCool, mLearned>>
  BY <1>1
     DEF MSend, NextTxn, MTypes, MShape, mSyncVars, mHistory, mSendVars, mProfileVars,
         mQueueVars
<1>3. MShape'
  BY <1>1, <1>2 DEF MInv, MTypes, MNumbers, MShape
<1>4. MWorld'
  BY <1>1, <1>2 DEF MInv, MTypes, MNumbers, MWorld
<1>5. MStored'
  BY <1>1, <1>2 DEF MInv, MTypes, MNumbers, MStored
<1>6. MCounted'
  <2>1. mClient.txn + 1 \in 1..mPlan.sends
    BY <1>1, <1>2 DEF MTypes, MShape, MNumbers
  <2>2. mSwallowed' \in BOOLEAN
    BY <1>2
  <2>3. UNCHANGED <<mPlan, mPosted, mBatch, mDone, mMissed, mResets, mReused>>
            /\ mUsed' = mUsed \cup {mClient.txn + 1}
    BY <1>2
  <2> QED
    BY <1>1, <2>1, <2>2, <2>3 DEF MTypes, MCounted
<1>7. MWaiting'
  BY <1>1, <1>2 DEF MInv, MTypes, MNumbers, MWaiting
<1>8. MBounded'
  BY <1>1, <1>2 DEF MInv, MTypes, MNumbers, MBounded, MWorld, MCounted, MFresh
<1>9. NotPassedOver'
  BY <1>1, <1>2 DEF MInv, MTypes, MNumbers, NotPassedOver, MBounded, MFresh, MCounted, MWorld
<1>10. MFresh'
  BY <1>1, <1>2 DEF MInv, MTypes, MNumbers, MFresh, MCounted, Before
<1>11. MDoneBefore'
  BY <1>1, <1>2 DEF MInv, MTypes, MNumbers, MDoneBefore, MBounded, MCounted, MFresh, MWorld, Before
<1>12. OnceUnlessReset'
  BY <1>1, <1>2 DEF MInv, MTypes, MNumbers, OnceUnlessReset, MBounded, MFresh, MCounted, MWorld
<1>13. PendingIsQueued'
  BY <1>1, <1>2 DEF MInv, MTypes, MNumbers, PendingIsQueued
<1>14. MNamed'
  BY <1>1, <1>2 DEF MInv, MTypes, MNumbers, MNamed
<1>15. MNumbered'
  <2>1. \A n \in mUsed : n \in Int
    BY <1>1 DEF MTypes, MCounted, MNumbers
  <2>2. /\ mClient.txn # -1 /\ mClient'.txn = mClient.txn + 1
               /\ mUsed' = mUsed \cup {mClient.txn + 1}
        /\ mReused' = mReused
    BY <1>2
  <2> QED
    BY <1>1, <2>1, <2>2 DEF MInv, MNumbered, MNumbers
<1>16. SwallowedNeedsNewClient'
  <2>1. \A n \in mUsed : n \in Int
    BY <1>1 DEF MTypes, MCounted, MNumbers
  <2>2. mSwallowed' => mSwallowed \/ mClient.txn + 1 \in mUsed
    BY <1>2
  <2>3. mClient.txn + 1 \in mUsed => mReused
    BY <1>1, <1>2, <2>1 DEF MInv, MNumbered, MNumbers
  <2> QED
    BY <1>2, <2>2, <2>3 DEF MInv, SwallowedNeedsNewClient
<1> QED
  BY <1>3, <1>4, <1>5, <1>6, <1>7, <1>8, <1>9, <1>10, <1>11, <1>12, <1>13, <1>14, <1>15, <1>16
     DEF MInv, MTypes

(* The state is that of the file, and the batch is missed. *)
LEMMA MCrashKeeps ==
    ASSUME MInv, MCrash
    PROVE  MInv'
<1>1. MNumbers /\ MTypes
  BY MNumbersOf DEF MInv
<1>2. /\ mCrashes < mPlan.crashes /\ mCrashes' = mCrashes + 1 /\ mPc' = "login"
      /\ mClient' = NoClient /\ mState' = mDisk /\ mBatch' = {} /\ mMissed' = mMissed \cup mBatch
      /\ TakenBack(mDisk.sess, "unsaved")
      /\ mKnown' = (MSubjects \ mPlan.unknown) \cup mDisk.known
      /\ mPending' = {} /\ mQueue' = <<>> /\ mWorker' = MIdle /\ mCool' = {} /\ mLearned' = {}
      /\ UNCHANGED <<mPlan, mPosted, mIssued, mValid, mDisk, mDone, mUsed, mReused,
                     mSwallowed>>
  BY DEF MCrash, mSyncVars, mHistory, mSendVars, mProfileVars, mQueueVars
<1>3. MShape'
  BY <1>1, <1>2, NoStateOf DEF MNumbers, MShape
<1>4. MWorld'
  BY <1>1, <1>2 DEF MInv, MTypes, MNumbers, MWorld
<1>5. MStored'
  BY <1>1, <1>2 DEF MInv, MTypes, MNumbers, MStored
<1>6. MCounted'
  <2>1. /\ mResets' \subseteq {"login", "fallback", "unsaved"}
        /\ mResets' = {} => /\ mResets = {}
                            /\ \A e \in Nat : Before(e, mClient.sess) \/ Before(e, mState.sess) =>
                                                  Before(e, mDisk.sess)
    BY <1>1, <1>2, TakenBackOf DEF MNumbers
  <2> QED
    BY <1>1, <1>2, <2>1 DEF MTypes, MNumbers, MCounted, MWorld
<1>7. MWaiting'
  <2>1. mKnown' \subseteq MSubjects
    BY <1>1, <1>2 DEF MTypes, MStored
  <2>2. mQueue' \in Seq(MSubjects) /\ Len(mQueue') <= MQueueSize
    BY <1>2, MatrixAssumption
  <2>3. mPending' = {} /\ mWorker' = MIdle /\ mCool' = {} /\ mLearned' = {}
    BY <1>2
  <2> QED
    BY <2>1, <2>2, <2>3 DEF MWaiting
<1>8. MBounded'
  <2>1. mPosted' = mPosted /\ mPosted \in Nat /\ mPlan' = mPlan /\ mDone' = mDone
    BY <1>1, <1>2 DEF MNumbers
  <2>2. mClient'.sess.pos = 0 /\ mClient'.sess.next = 0 /\ mState' = mDisk /\ mDisk' = mDisk
    BY <1>2, NoStateOf
  <2> QED
    BY <2>1, <2>2 DEF MInv, MBounded
<1>9. NotPassedOver'
  <2>1. mClient'.sess.pos = 0 /\ mClient'.sess.next = 0 /\ mState' = mDisk
            /\ UNCHANGED <<mDisk, mDone, mPosted>>
        /\ mMissed' = mMissed \cup mBatch
    BY <1>2, NoStateOf
  <2> QED
    BY <1>1, <2>1 DEF MInv, NotPassedOver, MNumbers
<1>10. MFresh'
  <2>1. /\ mResets' \subseteq {"login", "fallback", "unsaved"}
        /\ mResets' = {} => /\ mResets = {}
                            /\ \A e \in Nat : Before(e, mClient.sess) \/ Before(e, mState.sess) =>
                                                  Before(e, mDisk.sess)
    BY <1>1, <1>2, TakenBackOf DEF MNumbers
  <2> QED
    BY <1>1, <1>2, <2>1 DEF MInv, MFresh
<1>11. MDoneBefore'
  <2>1. /\ mResets' \subseteq {"login", "fallback", "unsaved"}
        /\ mResets' = {} => /\ mResets = {}
                            /\ \A e \in Nat : Before(e, mClient.sess) \/ Before(e, mState.sess) =>
                                                  Before(e, mDisk.sess)
    BY <1>1, <1>2, TakenBackOf DEF MNumbers
  <2>2. ASSUME mResets' = {}, NEW e \in 1..mPosted, mDone[e] > 0
        PROVE  Before(e, mDisk.sess)
    BY <1>1, <2>1, <2>2 DEF MInv, MDoneBefore, MNumbers
  <2> QED
    BY <1>1, <1>2, <2>2, NoStateOf DEF MDoneBefore, MNumbers, Before
<1>12. OnceUnlessReset'
  <2>1. /\ mResets' \subseteq {"login", "fallback", "unsaved"}
        /\ mResets' = {} => /\ mResets = {}
                            /\ \A e \in Nat : Before(e, mClient.sess) \/ Before(e, mState.sess) =>
                                                  Before(e, mDisk.sess)
    BY <1>1, <1>2, TakenBackOf DEF MNumbers
  <2> QED
    BY <1>2, <2>1 DEF MInv, OnceUnlessReset
<1>13. PendingIsQueued'
  BY <1>1, <1>2 DEF MInv, MTypes, MNumbers, PendingIsQueued
<1>14. MNamed'
  BY <1>1, <1>2 DEF MInv, MTypes, MNumbers, MNamed
<1>15. MNumbered'
  BY <1>2 DEF NoClient, MNumbered
<1>16. SwallowedNeedsNewClient'
  BY <1>1, <1>2 DEF MInv, MTypes, MNumbers, SwallowedNeedsNewClient, MNumbered
<1> QED
  BY <1>3, <1>4, <1>5, <1>6, <1>7, <1>8, <1>9, <1>10, <1>11, <1>12, <1>13, <1>14, <1>15, <1>16
     DEF MInv, MTypes

(* The invariant holds initially. *)
LEMMA MInvInit == MatrixInit => MInv
<1> SUFFICES ASSUME MatrixInit PROVE MInv
  OBVIOUS
<1> USE DEF MatrixInit
<1>1. /\ mPlan.events \in Nat /\ mPlan.sends \in Nat /\ mPlan.crashes \in Nat
             /\ mPlan.tokens \in Nat
      /\ mPlan \in MPlans
  BY MPlansAssumption
<1>2. /\ mClient = [sess |-> NoState, txn |-> -1] /\ mState.sess = NoState /\ mDisk.sess = NoState
      /\ mState.known = {} /\ mDisk.known = {}
      /\ NoState \in MSession /\ NoState.pos = 0 /\ NoState.next = 0
  BY NoStateOf
<1>3. MShape
  BY <1>1, <1>2 DEF MShape
<1>4. MWorld
  BY <1>1 DEF MWorld, NoToken
<1>5. MStored
  BY <1>2 DEF MStored
<1>6. MCounted
  <2>1. mDone \in [1..mPlan.events -> 0..2]
    BY <1>1
  <2>2. mReused \in BOOLEAN /\ mSwallowed \in BOOLEAN
    OBVIOUS
  <2>3. mUsed = {} /\ mBatch = {} /\ mMissed = {} /\ mResets = {}
    OBVIOUS
  <2> QED
    BY <2>1, <2>2, <2>3 DEF MCounted
<1>7. MWaiting
  <2>1. mQueue \in Seq(MSubjects) /\ Len(mQueue) <= MQueueSize
    BY MatrixAssumption
  <2> QED
    BY <2>1 DEF MWaiting
<1>8. MBounded
  BY <1>1, <1>2 DEF MBounded
<1>9. NotPassedOver /\ MFresh /\ MDoneBefore /\ OnceUnlessReset
  BY <1>1 DEF NotPassedOver, MFresh, MDoneBefore, OnceUnlessReset
<1>10. PendingIsQueued /\ MNamed /\ MNumbered /\ SwallowedNeedsNewClient
  BY DEF PendingIsQueued, MNamed, MNumbered, SwallowedNeedsNewClient
<1> QED
  BY <1>3, <1>4, <1>5, <1>6, <1>7, <1>8, <1>9, <1>10 DEF MInv, MTypes

(* Every step keeps it. *)
LEMMA MInvStep == MInv /\ [MatrixNext]_mVars => MInv'
<1> SUFFICES ASSUME MInv, [MatrixNext]_mVars PROVE MInv'
  OBVIOUS
<1>1. CASE UNCHANGED mVars
  <2> USE <1>1 DEF mVars, mSyncVars, mHistory, mSendVars, mProfileVars, mQueueVars, MInv, MTypes
  <2>1. MShape' /\ MWorld' /\ MStored' /\ MCounted' /\ MWaiting'
    BY DEF MShape, MWorld, MStored, MCounted, MWaiting
  <2>2. MBounded' /\ NotPassedOver' /\ MFresh' /\ MDoneBefore' /\ OnceUnlessReset'
    BY DEF MBounded, NotPassedOver, MFresh, MDoneBefore, OnceUnlessReset, Before
  <2>3. PendingIsQueued' /\ MNamed' /\ MNumbered' /\ SwallowedNeedsNewClient'
    BY DEF PendingIsQueued, MNamed, MNumbered, SwallowedNeedsNewClient
  <2> QED
    BY <2>1, <2>2, <2>3
<1>2. CASE MPost \/ MRevoke \/ MSend \/ MCrash
  BY <1>2, MPostKeeps, MRevokeKeeps, MSendKeeps, MCrashKeeps
<1>3. CASE MatrixLoop
  BY <1>3, RestoredKeeps, RestoredByRefreshKeeps, RestoreRefusedKeeps, MLoginKeeps,
     DeactivatedKeeps,
     SaveSessionKeeps, SlidingSyncKeeps, NormalSyncKeeps, SyncRefusedKeeps, TokenRefreshKeeps,
     RefreshFailsKeeps, ReconnectKeeps, BatchDoneKeeps, PublishEventKeeps
     DEF MatrixLoop
<1>4. CASE MatrixWorker
  BY <1>4, BackfillOneKeeps, RoomFetchedKeeps, ResolveMemberKeeps, MemberFetchedKeeps
     DEF MatrixWorker
<1>5. CASE \E r \in MRooms : SweepJoinedRooms(r)
  BY <1>5, SweepJoinedRoomsKeeps
<1>6. CASE \E s \in MSubjects : Harvest(s) \/ MPrune(s) \/ CooldownLapses(s)
  BY <1>6, HarvestKeeps, MPruneKeeps, CooldownLapsesKeeps
<1> QED
  BY <1>1, <1>2, <1>3, <1>4, <1>5, <1>6 DEF MatrixNext

(* The invariant of the matrix backend holds in every state. *)
LEMMA MInvAlways == MatrixSpec => []MInv
BY MInvInit, MInvStep, PTL DEF MatrixSpec

(* The variables of the Matrix backend have their types. *)
THEOREM MatrixTypeTheorem == MatrixSpec => []MTypeOK
<1>1. MInv => MTypeOK
  <2> SUFFICES ASSUME MInv PROVE MTypeOK
    OBVIOUS
  <2>1. mClient.sess \in MSession /\ mClient.txn \in -1..mPlan.sends
    BY DEF MInv, MTypes, MShape
  <2> QED
    BY <2>1 DEF MInv, MTypes, MWorld, MStored, MCounted, MWaiting, MTypeOK
<1> QED
  BY <1>1, MInvAlways, PTL

(* No message is passed over, whatever is refreshed, restored or crashes.  *)
THEOREM NotPassedOverTheorem == MatrixSpec => []NotPassedOver
BY MInvAlways, PTL DEF MInv

(* A message is published once, unless something takes the position back.  *)
THEOREM MatrixOnceTheorem == MatrixSpec => []OnceUnlessReset
BY MInvAlways, PTL DEF MInv

(* What is marked as queued is in the queue or at the worker.              *)
THEOREM PendingTheorem == MatrixSpec => []PendingIsQueued
BY MInvAlways, PTL DEF MInv

(* A message is taken for a repetition only after a client was replaced.   *)
THEOREM SwallowedTheorem == MatrixSpec => []SwallowedNeedsNewClient
BY MInvAlways, PTL DEF MInv

-----------------------------------------------------------------------------
(* A behaviour of the backends together is one of each of them.            *)
LEMMA PartsOf == PollsSpec => Init /\ [][Next]_vars /\ MatrixSpec /\ CursorSpec /\ IrcSpec
<1>1. PollsInit => Init /\ MatrixInit /\ CursorInit /\ IrcInit
  BY DEF PollsInit
<1>2. [PollsNext]_pollsVars =>
          [Next]_vars /\ [MatrixNext]_mVars /\ [CursorNext]_cVars /\ [IrcNext]_iVars
  <2> SUFFICES ASSUME [PollsNext]_pollsVars
               PROVE  [Next]_vars /\ [MatrixNext]_mVars /\ [CursorNext]_cVars /\ [IrcNext]_iVars
    OBVIOUS
  <2>1. CASE FeedsPart(Next)
    BY <2>1 DEF FeedsPart
  <2>2. CASE MatrixPart(MatrixNext)
    BY <2>2 DEF MatrixPart
  <2>3. CASE CursorPart(CursorNext)
    BY <2>3 DEF CursorPart
  <2>4. CASE IrcPart(IrcNext)
    BY <2>4 DEF IrcPart
  <2>5. CASE UNCHANGED pollsVars
    BY <2>5 DEF pollsVars
  <2> QED
    BY <2>1, <2>2, <2>3, <2>4, <2>5 DEF PollsNext
<1> QED
  BY <1>1, <1>2, PTL DEF PollsSpec, MatrixSpec, CursorSpec, IrcSpec

(* The variables of the four keep to their values, whichever moves.        *)
THEOREM PollsTypeTheorem == PollsSpec => []PollsTypeOK
<1>1. IInv => TypeOK
  BY DEF IInv
<1>2. CInv => CTypeOK
  BY DEF CInv
<1>3. CursorSpec => []CInv
  BY CInvInit, CInvStep, PTL DEF CursorSpec
<1>4. Init /\ [][Next]_vars => []IInv
  BY Starts, Steps, PTL
<1> QED
  BY <1>1, <1>2, <1>3, <1>4, PartsOf, MatrixTypeTheorem, IrcTypeTheorem, PTL DEF PollsTypeOK
=============================================================================
