----------------------------- MODULE CursorFeed -----------------------------
(***************************************************************************)
(* The backends that ask for what is newer than a position: misskey, imap  *)
(* (one folder), outlook (one folder), tox over http, the news of toutiao, *)
(* and the replies of one thread of bdtieba. The server numbers its        *)
(* messages from one. What a request returns is a batch, published one by  *)
(* one; where the position moves and where it is stored, before or after   *)
(* that, is what differs.                                                  *)
(***************************************************************************)
EXTENDS Integers, FiniteSets

CONSTANTS
    CPage,          \* Limit of misskey, the 10 of imap, newPostReplies, a page of news
    CFeeds          \* bounds of the model, see CFeed

ASSUME CursorAssumption == CPage \in Nat \ {0}

(* The backend; how many messages are posted, requests or writes fail,     *)
(* restarts of the process, and restarts of the server's numbers.          *)
CFeed(name, e, f, c, n) ==
    [name |-> name, events |-> e, faults |-> f, crashes |-> c, renumbers |-> n]

VARIABLES
    cFeed,          \* the backend of this behaviour, with its bounds
    cPosted,        \* messages posted so far
    cBase,          \* those posted before the server's numbers began again
    cShadow,        \* history: the position held when they did
    cPc,            \* where the loop is
    cPos,           \* the position in memory, 0 for none
    cCount,         \* bdtieba: ReplyNum
    cMarks,         \* bdtieba: pstate; toutiao: News
    cFile,          \* what the state files hold of these
    cBatch,         \* fetched and not yet published
    cTop,           \* the position to take when the batch is published
    cFaults,        \* requests and writes that failed
    cCrashes,       \* number of restarts
    cDone,          \* history: how often a message was published, 2 for more
    cLeft,          \* history: messages passed over for one of the reasons below
    cRepeat         \* history: published, and not stored when a crash came, or forgotten

cServer == <<cFeed, cPosted, cBase, cShadow>>
cStore == <<cPos, cCount, cMarks, cFile>>
cFlight == <<cBatch, cTop>>
cHistory == <<cDone, cLeft, cRepeat>>
cVars == <<cServer, cPc, cStore, cFlight, cFaults, cCrashes, cHistory>>

CNames == {"misskey", "imap", "outlook", "tox", "toutiao", "tieba"}

(* The times of articles do not begin again. *)
ASSUME CFeedsAssumption ==
    \A f \in CFeeds :
        /\ f.name \in CNames
        /\ f.events \in Nat \ {0}
        /\ f.faults \in Nat /\ f.crashes \in Nat /\ f.renumbers \in Nat
        /\ f.name = "toutiao" => f.renumbers = 0

CPCs == {"start", "first", "round", "publish", "skipped", "off"}
CSaved == [pos: Nat, count: Nat, marks: SUBSET Nat]

CTypeOK ==
    /\ cFeed \in CFeeds /\ cFeed.name \in CNames
    /\ cPosted \in 0..cFeed.events
    /\ cBase \in 0..cPosted
    /\ cShadow \in 0..cPosted
    /\ cPc \in CPCs
    /\ cPos \in 0..cPosted /\ cCount \in 0..cPosted /\ cMarks \subseteq 1..cPosted
    /\ cFile \in CSaved
    /\ cBatch \subseteq 1..cPosted
    /\ cTop \in 0..cPosted
    /\ cFaults \in 0..cFeed.faults
    /\ cCrashes \in 0..cFeed.crashes
    /\ cDone \in [1..cFeed.events -> 0..2]
    /\ cLeft \subseteq 1..cPosted /\ cRepeat \subseteq 1..cPosted

CursorInit ==
    /\ cFeed \in CFeeds
    /\ cPosted \in {0, cFeed.events - 1}
    /\ cBase = 0 /\ cShadow = 0
    /\ cPc = "start"
    /\ cPos = 0 /\ cCount = 0 /\ cMarks = {}
    /\ cFile = [pos |-> 0, count |-> 0, marks |-> {}]
    /\ cBatch = {} /\ cTop = 0
    /\ cFaults = 0 /\ cCrashes = 0
    /\ cDone = [e \in 1..cFeed.events |-> 0]
    /\ cLeft = {} /\ cRepeat = {}

Fails == cFaults < cFeed.faults /\ cFaults' = cFaults + 1
At(name, from) == cFeed.name = name /\ cPc = from

-----------------------------------------------------------------------------
(* The server. *)

Number(e) == e - cBase
Latest == cPosted - cBase
NewerThan(pos) == {e \in 1..cPosted : Number(e) > pos /\ e > cBase}
Newest(s, n) == {e \in s : Cardinality({f \in s : f >= e}) <= n}

CPost ==
    /\ cPosted < cFeed.events
    /\ cPosted' = cPosted + 1
    /\ UNCHANGED <<cFeed, cBase, cShadow, cPc, cStore, cFlight, cFaults, cCrashes, cHistory>>

(* A new UIDVALIDITY, or a server of tox that was restarted. *)
Renumber ==
    /\ cFeed.renumbers > 0 /\ cBase = 0 /\ cPosted > 0
    /\ cBase' = cPosted
    /\ cShadow' = CHOOSE p \in {cPos, cTop, cFile.pos} : \A q \in {cPos, cTop, cFile.pos} : q <= p
    /\ UNCHANGED <<cFeed, cPosted, cPc, cStore, cFlight, cFaults, cCrashes, cHistory>>

-----------------------------------------------------------------------------
(* A request returns messages got, and passes over left. *)
Receive(got, left, top) ==
    /\ cPc' = "publish"
    /\ cBatch' = got
    /\ cTop' = top
    /\ cLeft' = cLeft \cup left
    /\ UNCHANGED <<cServer, cCrashes, cDone, cRepeat>>

(* A write that fails is only logged. *)
Stored(file) ==
    \/ cFile' = file /\ UNCHANGED cFaults
    \/ Fails /\ UNCHANGED cFile

(* Errors of publish are only logged. *)
CPublish ==
    /\ cPc = "publish"
    /\ \E e \in cBatch :
          /\ \A f \in cBatch : e <= f
          /\ cBatch' = cBatch \ {e}
          /\ cDone' = [cDone EXCEPT ![e] = IF @ = 2 THEN 2 ELSE @ + 1]
    /\ UNCHANGED <<cServer, cPc, cStore, cTop, cFaults, cCrashes, cLeft, cRepeat>>

(* Start gives up: a token, a connection or a login that fails. *)
StartFails ==
    /\ cPc = "start" /\ cFeed.name \in {"misskey", "imap", "outlook"}
    /\ Fails
    /\ cPc' = "off"
    /\ UNCHANGED <<cServer, cStore, cFlight, cCrashes, cHistory>>

-----------------------------------------------------------------------------
(* misskey: the first page of all is only looked at. *)

MisskeyStart ==
    /\ At("misskey", "start")
    /\ cPos' = cFile.pos
    /\ cPc' = IF cFile.pos = 0 THEN "first" ELSE "round"
    /\ UNCHANGED <<cServer, cCount, cMarks, cFile, cFlight, cFaults, cCrashes, cHistory>>

MisskeyFirst ==
    /\ At("misskey", "first")
    /\ cPos' = Latest
    /\ IF Latest = 0 THEN UNCHANGED <<cFile, cFaults>> ELSE Stored([cFile EXCEPT !.pos = Latest])
    /\ cLeft' = cLeft \cup NewerThan(0)
    /\ cPc' = "round"
    /\ UNCHANGED <<cServer, cCount, cMarks, cFlight, cCrashes, cDone, cRepeat>>

(* The page holds the newest notes, as the code takes it: its first one    *)
(* becomes the position.                                                   *)
MisskeyRound ==
    /\ At("misskey", "round")
    /\ NewerThan(cPos) # {}
    /\ LET got == Newest(NewerThan(cPos), CPage)
       IN  Receive(got, NewerThan(cPos) \ got, Latest)
    /\ UNCHANGED <<cStore, cFaults>>

(* misskey, imap, toutiao: the position follows the batch, and is stored. *)
PositionMoves ==
    /\ cFeed.name \in {"misskey", "imap", "toutiao"} /\ cPc = "publish" /\ cBatch = {}
    /\ cPos' = cTop
    /\ Stored([cFile EXCEPT !.pos = cTop, !.marks = cMarks])
    /\ cPc' = "round"
    /\ UNCHANGED <<cServer, cCount, cMarks, cFlight, cCrashes, cHistory>>

-----------------------------------------------------------------------------
(* imap: what a broken fetch did not return is passed over as well. *)
Fetched(uids, left) ==
    \E got \in SUBSET uids :
        /\ Receive(got, left \cup (uids \ got), Latest)
        /\ IF got = uids THEN UNCHANGED cFaults ELSE Fails

(* The first sync takes the last mails of the folder, if it can be selected*)
(* and searched.                                                           *)
ImapStart ==
    /\ At("imap", "start")
    /\ cPos' = cFile.pos
    /\ LET uids == IF cFile.pos = 0 THEN Newest(NewerThan(0), CPage) ELSE NewerThan(cFile.pos)
       IN  \/ uids # {} /\ Fetched(uids, NewerThan(cFile.pos) \ uids)
           \/ /\ \/ uids = {} /\ UNCHANGED cFaults
                 \/ Fails
              /\ cPc' = "round"
              /\ UNCHANGED <<cServer, cFlight, cCrashes, cHistory>>
    /\ UNCHANGED <<cCount, cMarks, cFile>>

(* A folder without a position is left out, for ever. *)
ImapRound ==
    /\ At("imap", "round")
    /\ cPos # 0 /\ NewerThan(cPos) # {}
    /\ Fetched(NewerThan(cPos), {})
    /\ UNCHANGED cStore

-----------------------------------------------------------------------------
(* outlook: the link is kept in memory, and moves before the batch. *)

(* All pages up to the link; a page that fails leaves the folder without. *)
InitDeltaSync ==
    \/ cPc' = "round" /\ cPos' = Latest /\ cLeft' = cLeft \cup NewerThan(0) /\ UNCHANGED cFaults
    \/ cPc' = "skipped" /\ Fails /\ UNCHANGED <<cPos, cLeft>>

OutlookStart ==
    /\ At("outlook", "start")
    /\ InitDeltaSync
    /\ UNCHANGED <<cServer, cCount, cMarks, cFile, cFlight, cCrashes, cDone, cRepeat>>

OutlookRound ==
    /\ At("outlook", "round")
    /\ NewerThan(cPos) # {}
    /\ cPos' = Latest
    /\ Receive(NewerThan(cPos), {}, Latest)
    /\ UNCHANGED <<cCount, cMarks, cFile, cFaults>>

-----------------------------------------------------------------------------
(* tox: the header tells the newest number; it is taken before the body is *)
(* read, on the first answer and when the server's numbers began again.    *)
Header == IF cPos = 0 \/ cPos > Latest THEN Latest ELSE cPos

ToxRound ==
    /\ At("tox", "start")
    /\ \/ /\ Header # cPos \/ NewerThan(cPos) # {}
          /\ cPos' = Latest
          /\ Receive(NewerThan(cPos), {}, Latest)
          /\ UNCHANGED cFaults
       \/ /\ Fails
          /\ cPos' = Header
          /\ cLeft' = cLeft \cup (NewerThan(cPos) \ NewerThan(Header))
          /\ UNCHANGED <<cServer, cPc, cFlight, cCrashes, cDone, cRepeat>>
    /\ UNCHANGED <<cCount, cMarks, cFile>>

(* outlook, tox: nothing is stored after the batch. *)
BatchEnds ==
    /\ cFeed.name \in {"outlook", "tox"} /\ cPc = "publish" /\ cBatch = {}
    /\ cPc' = IF cFeed.name = "tox" THEN "start" ELSE "round"
    /\ UNCHANGED <<cServer, cStore, cFlight, cFaults, cCrashes, cHistory>>

-----------------------------------------------------------------------------
(* toutiao: the position is the time of the first article of a page.  The  *)
(* site chooses the articles of a page, and what comes first.              *)

ToutiaoStart ==
    /\ At("toutiao", "start")
    /\ cPos' = cFile.pos /\ cMarks' = cFile.marks
    /\ cPc' = "round"
    /\ UNCHANGED <<cServer, cCount, cFile, cFlight, cFaults, cCrashes, cHistory>>

(* An article that comes late, with a time before the position, is passed  *)
(* over; one after it is marked, should another page show it again.        *)
NewsRound ==
    /\ At("toutiao", "round")
    /\ \E page \in SUBSET (1..cPosted) : \E first \in page :
          /\ Cardinality(page) <= CPage
          /\ first > cPos
          /\ LET got == (page \cap NewerThan(cPos)) \ cMarks
             IN  /\ Receive(got, (NewerThan(cPos) \ NewerThan(first)) \ (page \cup cMarks), first)
                 /\ cMarks' = cMarks \cup got
    /\ UNCHANGED <<cPos, cCount, cFile, cFaults>>

(* Between rounds marks older than dedupeExpiry are forgotten, and all is  *)
(* stored again.                                                           *)
PruneState ==
    /\ At("toutiao", "round")
    /\ \E kept \in SUBSET cMarks :
          /\ cMarks' = kept
          /\ Stored([cFile EXCEPT !.pos = cPos, !.marks = kept])
          /\ cRepeat' = cRepeat \cup (cMarks \ kept)
    /\ UNCHANGED <<cServer, cPc, cPos, cCount, cFlight, cCrashes, cDone, cLeft>>

-----------------------------------------------------------------------------
(* bdtieba: a thread is asked for when it has more replies than before.    *)

TiebaStart ==
    /\ At("tieba", "start")
    /\ cPos' = cFile.pos /\ cCount' = cFile.count /\ cMarks' = cFile.marks
    /\ cPc' = "round"
    /\ UNCHANGED <<cServer, cFile, cFlight, cFaults, cCrashes, cHistory>>

(* Mutant: the marks are not looked at. *)
Mut_ProcessLatestPosts(new) ==
    /\ cMarks' = cMarks \cup new
    /\ Stored([cFile EXCEPT !.marks = cMarks'])
    /\ Receive(new, NewerThan(cPos) \ new, Latest)

(* The newest replies without a mark are marked, stored, and returned.     *)
ProcessLatestPosts(new) ==
    /\ cMarks' = cMarks \cup new
    /\ IF new \subseteq cMarks THEN UNCHANGED <<cFile, cFaults>>
       ELSE Stored([cFile EXCEPT !.marks = cMarks'])
    /\ Receive(new \ cMarks, NewerThan(cPos) \ new, Latest)

(* When the replies cannot be fetched the count moves all the same. *)
TiebaRound ==
    /\ At("tieba", "round")
    /\ cPosted > cCount
    /\ cCount' = cPosted
    /\ \/ /\ cPos' = Latest
          /\ ProcessLatestPosts(Newest(NewerThan(cPos), CPage))
       \/ /\ Fails
          /\ cTop' = cPos /\ cPc' = "publish"
          /\ UNCHANGED <<cServer, cPos, cMarks, cFile, cBatch, cCrashes, cHistory>>

(* saveState, at the end of the round. *)
TiebaStored ==
    /\ At("tieba", "publish") /\ cBatch = {}
    /\ Stored([cFile EXCEPT !.pos = cTop, !.count = cCount])
    /\ cPc' = "round"
    /\ UNCHANGED <<cServer, cPos, cCount, cMarks, cFlight, cCrashes, cHistory>>

-----------------------------------------------------------------------------
(* The process ends at any moment and starts again. *)
CCrash ==
    /\ cCrashes < cFeed.crashes
    /\ cCrashes' = cCrashes + 1
    /\ cPc' = "start"
    /\ cPos' = 0 /\ cCount' = 0 /\ cMarks' = {}
    /\ cBatch' = {} /\ cTop' = 0
    /\ cLeft' = cLeft \cup (cBatch \cap cFile.marks)
    /\ cRepeat' = cRepeat \cup {e \in 1..cPosted : cDone[e] > 0 /\ e \notin cFile.marks
                                                   /\ (e <= cBase \/ Number(e) > cFile.pos)}
    /\ UNCHANGED <<cServer, cFile, cFaults, cDone>>

CursorLoop ==
    \/ CPublish \/ PositionMoves \/ BatchEnds
    \/ MisskeyStart \/ MisskeyFirst \/ MisskeyRound
    \/ ImapStart \/ ImapRound
    \/ OutlookStart \/ OutlookRound
    \/ ToxRound
    \/ ToutiaoStart \/ NewsRound \/ PruneState
    \/ TiebaStart \/ TiebaRound \/ TiebaStored

CursorNext == CPost \/ Renumber \/ StartFails \/ CursorLoop \/ CCrash

CursorSpec == CursorInit /\ [][CursorNext]_cVars

-----------------------------------------------------------------------------
(* A message whose number is below a position held before a renumbering.   *)
Shadowed(e) == e > cBase /\ Number(e) <= cShadow

(* Before the numbers began again, or at or before the position in memory  *)
(* or in the file.                                                         *)
Behind(e) == e > cBase /\ (Number(e) <= cPos \/ Number(e) <= cFile.pos)

(***************************************************************************)
(* A position is honest: what it has passed was published or is about to   *)
(* be, except the notes of the first page and beyond a page (misskey), the *)
(* mails before the last ten and those a broken fetch left out (imap), what*)
(* came before the start (outlook), the events of an unreadable first      *)
(* answer (tox), the articles older than the first of a page that does not *)
(* show them (toutiao), the replies beyond five and those marked, but not  *)
(* published, when the process ended (bdtieba); and what came after the    *)
(* server's numbers began again below the old position.  And nothing is    *)
(* published twice, unless a restart came before its position was stored,  *)
(* or the mark of an article above the position expired (toutiao).         *)
(***************************************************************************)
PositionHonest ==
    /\ \A e \in 1..cPosted : Behind(e) => cDone[e] > 0 \/ e \in cBatch \cup cLeft \/ Shadowed(e)
    /\ \A e \in 1..cPosted : cDone[e] = 2 => e \in cRepeat

(***************************************************************************)
(* Every message is published in the end, with the same exceptions.  The   *)
(* loop may be stuck, though: after a start that failed; with a folder that*)
(* was empty, or could not be read, when the process started (imap,        *)
(* outlook); or until another reply comes, when one could not be fetched.  *)
(***************************************************************************)
Stuck ==
    \/ cPc \in {"off", "skipped"}
    \/ cFeed.name = "imap" /\ cPos = 0
    \/ cFeed.name = "tieba" /\ cCount = cPosted /\ cPos < Latest

CursorCaughtUp ==
    Stuck \/ \A e \in 1..cPosted : e <= cBase \/ cDone[e] > 0 \/ e \in cLeft \/ Shadowed(e)
=============================================================================
