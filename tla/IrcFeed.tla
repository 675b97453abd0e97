------------------------------ MODULE IrcFeed ------------------------------
(***************************************************************************)
(* The two backends that follow a stream of IRC messages: irccloud, which  *)
(* resumes a stream by its id and the newest message it saw, or takes a    *)
(* backlog, and adds the server it is to join; and irclounge, which names  *)
(* the newest message to the server, takes a page of what is newer, asks   *)
(* for older pages, and joins the channel the user wants.  Both drop what  *)
(* they have seen before, and keep all of this in memory only.             *)
(***************************************************************************)
EXTENDS Integers, FiniteSets

CONSTANTS
    IPage,          \* messages in a page, or in a backlog
    IMorePages,     \* maxMoreBatchesPerChan
    IKeep,          \* seenKeepWindow
    IFeeds          \* bounds of the model, see IFeed

ASSUME IrcAssumption ==
    /\ IPage \in Nat \ {0} /\ IMorePages \in Nat /\ IKeep \in Nat
    /\ \A f \in IFeeds : /\ f.events \in Nat \ {0} /\ f.breaks \in Nat /\ f.crashes \in Nat
                         /\ f.name \in {"irccloud", "irclounge"}

(* The backend; messages, requests or connections that break, restarts; and*)
(* what irccloud is to join: a server with a channel, a channel, or "none".*)
IFeed(name, e, b, c, j) ==
    [name |-> name, events |-> e, breaks |-> b, crashes |-> c, join |-> j]

VARIABLES
    iFeed,          \* the backend of this behaviour, with its bounds
    iPosted,        \* messages posted so far
    iPc,            \* closed or open
    iPos,           \* lastEID, maxSeenID
    iStream,        \* irccloud: there is a streamID
    iSeen,          \* seenEIDs, seenIDs
    iBatch,         \* received and not yet looked at
    iTop,           \* what the connection has brought so far
    iFrom,          \* irclounge: an older page than this is asked for, or 0
    iPages,         \* irclounge: morePages
    iJoin,          \* joinedSet or serversChecked, pendingJoins, netConnected or cidMap
    iServer,        \* irccloud: the server of the channel, see IServer
    iMember,        \* the server has joined the channel
    iBreaks,        \* requests and connections that broke
    iCrashes,       \* number of restarts
    iDone,          \* history: how often a message was published, 2 for more
    iLeft,          \* history: messages passed over for one of the reasons below
    iRepeat,        \* history: published when a crash came
    iDropped        \* history: the join was given up

iBounds == <<iFeed, iBreaks, iCrashes>>
iConn == <<iPc, iTop, iFrom, iPages>>
iMemory == <<iPos, iStream, iSeen>>
iJoins == <<iJoin, iServer, iMember, iDropped>>
iHistory == <<iDone, iLeft, iRepeat>>
iVars == <<iBounds, iPosted, iConn, iMemory, iBatch, iJoins, iHistory>>

(* How often the account has it (2 for more); serverMap knows it; the      *)
(* stream has told of it; and the backlog of the stream was whole.         *)
IServer == [have: 0..2, known: BOOLEAN, told: BOOLEAN, oob: BOOLEAN]
Unknown(n) == [have |-> n, known |-> FALSE, told |-> FALSE, oob |-> FALSE]

ITypeOK ==
    /\ iFeed \in IFeeds /\ iFeed.name \in {"irccloud", "irclounge"}
    /\ iPosted \in 0..iFeed.events
    /\ iPc \in {"closed", "open"}
    /\ iPos \in 0..iPosted
    /\ iStream \in BOOLEAN
    /\ iSeen \subseteq 1..iPosted /\ iBatch \subseteq 1..iPosted
    /\ iTop \in 0..iPosted /\ iFrom \in 0..iPosted
    /\ iPages \in 0..IMorePages
    /\ iJoin \in [joined: BOOLEAN, pending: BOOLEAN, net: BOOLEAN]
    /\ iServer \in IServer
    /\ iMember \in BOOLEAN /\ iDropped \in BOOLEAN
    /\ iBreaks \in 0..iFeed.breaks /\ iCrashes \in 0..iFeed.crashes
    /\ iDone \in [1..iFeed.events -> 0..2]
    /\ iLeft \subseteq 1..iPosted /\ iRepeat \subseteq 1..iPosted

NoJoin == [joined |-> FALSE, pending |-> FALSE, net |-> FALSE]

IrcInit ==
    /\ iFeed \in IFeeds
    /\ iPosted \in {0, iFeed.events - 1}
    /\ iPc = "closed"
    /\ iPos = 0 /\ iStream = FALSE /\ iSeen = {}
    /\ iBatch = {} /\ iTop = 0 /\ iFrom = 0 /\ iPages = 0
    /\ iJoin = NoJoin
    /\ iServer \in {Unknown(n) : n \in IF iFeed.join = "none" THEN {0} ELSE {0, 1}}
    /\ iMember = FALSE /\ iDropped = FALSE
    /\ iBreaks = 0 /\ iCrashes = 0
    /\ iDone = [e \in 1..iFeed.events |-> 0]
    /\ iLeft = {} /\ iRepeat = {}

Breaks == iBreaks < iFeed.breaks /\ iBreaks' = iBreaks + 1
Fine == UNCHANGED iBreaks
IOn(name, pc) == iFeed.name = name /\ iPc = pc

-----------------------------------------------------------------------------
INewest(s) == {e \in s : Cardinality({f \in s : f >= e}) <= IPage}
IFirst(s) == CHOOSE e \in s : \A f \in s : e <= f
Newer == {e \in 1..iPosted : e > iPos}
IOlder(e) == 1..(e - 1)
Unpublished(s) == {e \in s : iDone[e] = 0}

IPost ==
    /\ iPosted < iFeed.events
    /\ iPosted' = iPosted + 1
    /\ UNCHANGED <<iBounds, iConn, iMemory, iBatch, iJoins, iHistory>>

(* The connection brings a message when the ones before are done with. *)
IrcLive ==
    /\ iPc = "open" /\ iBatch = {} /\ iTop < iPosted
    /\ iTop' = iTop + 1
    /\ iBatch' = {iTop'}
    /\ UNCHANGED <<iBounds, iPosted, iPc, iFrom, iPages, iMemory, iJoins, iHistory>>

Count(e) == iDone' = [iDone EXCEPT ![e] = IF @ = 2 THEN 2 ELSE @ + 1]

-----------------------------------------------------------------------------
(* Joining. *)

(* What is queued is joined as soon as the network is connected. *)
Flush(join) ==
    IF join.net /\ join.pending
    THEN /\ iJoin' = [join EXCEPT !.pending = FALSE]
         /\ \/ Fine /\ iMember' = TRUE /\ iDropped' = FALSE
            \/ Breaks /\ iDropped' = TRUE /\ UNCHANGED iMember
    ELSE /\ Fine
         /\ iJoin' = join
         /\ iDropped' = (iDropped /\ ~join.pending)
         /\ UNCHANGED iMember

(* Once in a stream the server is looked for, or added; a channel without a*)
(* server is never looked for: cidMap is still empty when this runs.       *)
AddServer(srv) ==
    \/ /\ Fine
       /\ iServer' = [srv EXCEPT !.have = IF @ = 2 THEN 2 ELSE @ + 1, !.known = TRUE, !.told = FALSE]
       /\ iJoin' = [joined |-> TRUE, pending |-> TRUE, net |-> FALSE]
       /\ iDropped' = FALSE
       /\ UNCHANGED iMember
    \/ /\ Breaks
       /\ iServer' = srv
       /\ iJoin' = [iJoin EXCEPT !.joined = TRUE]
       /\ iDropped' = TRUE
       /\ UNCHANGED iMember

CheckServers(srv, net) ==
    IF ~iJoin.joined /\ (iFeed.join = "channel" \/ ~srv.known)
    THEN AddServer(srv)
    ELSE /\ iServer' = srv
         /\ Flush([joined |-> TRUE, pending |-> iJoin.pending \/ ~iJoin.joined, net |-> net])

(* A new stream starts over, but for what is queued. *)
JoinsBegin == iJoin' = [iJoin EXCEPT !.joined = FALSE, !.net = FALSE] /\ UNCHANGED <<iMember, iDropped>>

(* makeserver: the stream tells of the server, connected or not. *)
MakeServer ==
    /\ IOn("irccloud", "open")
    /\ iServer.have > 0 /\ ~iServer.told /\ iServer.oob
    /\ \E net \in BOOLEAN : CheckServers([iServer EXCEPT !.known = TRUE, !.told = TRUE], net)
    /\ UNCHANGED <<iFeed, iCrashes, iPosted, iConn, iMemory, iBatch, iHistory>>

BacklogComplete ==
    /\ IOn("irccloud", "open")
    /\ iFeed.join # "none" /\ iServer.oob /\ ~iJoin.joined
    /\ iServer.have = 0
    /\ CheckServers(iServer, FALSE)
    /\ UNCHANGED <<iFeed, iCrashes, iPosted, iConn, iMemory, iBatch, iHistory>>

StatusChanged ==
    /\ IOn("irccloud", "open")
    /\ iServer.told /\ ~iJoin.net
    /\ CheckServers(iServer, TRUE)
    /\ UNCHANGED <<iFeed, iCrashes, iPosted, iConn, iMemory, iBatch, iHistory>>

-----------------------------------------------------------------------------
(* irccloud. *)

Resumed ==
    /\ IOn("irccloud", "closed")
    /\ iStream /\ iPos > 0
    /\ iPc' = "open"
    /\ iBatch' = Newer /\ iTop' = iPosted
    /\ JoinsBegin
    /\ UNCHANGED <<iBounds, iPosted, iFrom, iPages, iMemory, iServer, iHistory>>

(* Mutant: a backlog that cannot be fetched leaves the stream to resume. *)
Mut_OobFails ==
    /\ Breaks
    /\ iStream' = TRUE
    /\ iBatch' = {}
    /\ iServer' = [iServer EXCEPT !.told = FALSE, !.oob = FALSE]
    /\ UNCHANGED <<iPos, iLeft>>

(* The backlog cannot be fetched: another connection will ask for it. *)
OobFails ==
    /\ Breaks
    /\ iStream' = FALSE /\ iPos' = 0
    /\ iBatch' = {}
    /\ iServer' = [iServer EXCEPT !.told = FALSE, !.oob = FALSE]
    /\ UNCHANGED iLeft

(* A new stream begins with a backlog, which may be cut short unnoticed. *)
StreamBegins ==
    /\ IOn("irccloud", "closed")
    /\ ~(iStream /\ iPos > 0)
    /\ iPc' = "open" /\ iTop' = iPosted
    /\ \/ OobFails
       \/ /\ iStream' = TRUE
          /\ \E got \in SUBSET INewest(1..iPosted), oob \in BOOLEAN :
                /\ IF got = INewest(1..iPosted) /\ oob THEN Fine ELSE Breaks
                /\ iServer' = [iServer EXCEPT !.told = FALSE, !.oob = oob]
                /\ iBatch' = got
                /\ iLeft' = iLeft \cup Unpublished((1..iPosted) \ got)
          /\ UNCHANGED iPos
    /\ JoinsBegin
    /\ UNCHANGED <<iFeed, iCrashes, iPosted, iFrom, iPages, iSeen, iDone, iRepeat>>

(* The position moves and the message is seen before it is published. *)
ProcessMessage ==
    /\ IOn("irccloud", "open") /\ iBatch # {}
    /\ LET e == IFirst(iBatch)
       IN  /\ iBatch' = iBatch \ {e}
           /\ iPos' = IF e > iPos THEN e ELSE iPos
           /\ iSeen' = iSeen \cup {e}
           /\ IF e \in iSeen THEN UNCHANGED iDone ELSE Count(e)
    /\ UNCHANGED <<iBounds, iPosted, iConn, iStream, iJoins, iLeft, iRepeat>>

-----------------------------------------------------------------------------
(* irclounge. *)

(* The init event, with a network: the newest page, a request for the page *)
(* before it, and the channel, unless it was named before.                 *)
LoungeInit ==
    /\ IOn("irclounge", "closed")
    /\ iPc' = "open" /\ iTop' = iPosted
    /\ LET got == INewest(Newer)
       IN  /\ iBatch' = got
           /\ iFrom' = IF got # {} /\ IOlder(IFirst(got)) # {} THEN IFirst(got) ELSE 0
    /\ iPages' = 0
    /\ \E net \in BOOLEAN :
          Flush([joined |-> TRUE, pending |-> ~iMember /\ ~iJoin.joined, net |-> net])
    /\ UNCHANGED <<iFeed, iCrashes, iPosted, iMemory, iServer, iHistory>>

NetworkStatus ==
    /\ IOn("irclounge", "open")
    /\ ~iJoin.net
    /\ Flush([iJoin EXCEPT !.net = TRUE])
    /\ UNCHANGED <<iFeed, iCrashes, iPosted, iConn, iMemory, iBatch, iServer, iHistory>>

NetworkLost ==
    /\ iPc = "open"
    /\ iJoin.net
    /\ Breaks
    /\ iJoin' = [iJoin EXCEPT !.net = FALSE]
    /\ UNCHANGED <<iFeed, iCrashes, iPosted, iConn, iMemory, iBatch, iServer, iMember, iDropped, iHistory>>

(* A full page asks for the next, so many times. *)
LoungeMore ==
    /\ IOn("irclounge", "open") /\ iBatch = {} /\ iFrom # 0
    /\ LET got == INewest(IOlder(iFrom))
           next == IF Cardinality(got) = IPage /\ iPages < IMorePages THEN IFirst(got) ELSE 0
       IN  \/ /\ Fine
              /\ iBatch' = got
              /\ iFrom' = next
              /\ iPages' = IF next = 0 THEN iPages ELSE iPages + 1
              /\ iLeft' = iLeft \cup (IF next = 0 THEN Unpublished(IOlder(iFrom) \ got) ELSE {})
           \/ /\ Breaks
              /\ iFrom' = 0
              /\ iLeft' = iLeft \cup Unpublished(IOlder(iFrom))
              /\ UNCHANGED <<iBatch, iPages>>
    /\ UNCHANGED <<iFeed, iCrashes, iPosted, iPc, iTop, iMemory, iJoins, iDone, iRepeat>>

(* A set that grows beyond the window loses the ids below it. *)
Kept(seen, max) == IF Cardinality(seen) > IKeep THEN {e \in seen : e >= max - IKeep} ELSE seen

EmitLoungeMessage ==
    /\ IOn("irclounge", "open") /\ iBatch # {}
    /\ LET e == IFirst(iBatch)
       IN  /\ iBatch' = iBatch \ {e}
           /\ IF e \in iSeen
              THEN UNCHANGED <<iPos, iSeen, iDone>>
              ELSE /\ iPos' = IF e > iPos THEN e ELSE iPos
                   /\ iSeen' = Kept(iSeen \cup {e}, iPos')
                   /\ Count(e)
    /\ UNCHANGED <<iBounds, iPosted, iConn, iStream, iJoins, iLeft, iRepeat>>

-----------------------------------------------------------------------------
(* The connection ends, and with it what was asked for or queued. *)
IrcCloses ==
    /\ iPc = "open"
    /\ Breaks
    /\ iPc' = "closed" /\ iTop' = 0
    /\ iBatch' = {} /\ iFrom' = 0 /\ iPages' = 0
    /\ iLeft' = iLeft \cup Unpublished(IOlder(iPos) \cap (iBatch \cup IOlder(iFrom)))
    /\ IF iFeed.name = "irccloud" THEN UNCHANGED <<iJoin, iDropped>>
       ELSE /\ iJoin' = [iJoin EXCEPT !.pending = FALSE, !.net = FALSE]
            /\ iDropped' = (iDropped \/ iJoin.pending)
    /\ UNCHANGED <<iFeed, iCrashes, iPosted, iMemory, iServer, iMember, iDone, iRepeat>>

(* The process ends at any moment and starts again. *)
ICrash ==
    /\ iCrashes < iFeed.crashes
    /\ iCrashes' = iCrashes + 1
    /\ iPc' = "closed" /\ iTop' = 0
    /\ iPos' = 0 /\ iStream' = FALSE /\ iSeen' = {}
    /\ iBatch' = {} /\ iFrom' = 0 /\ iPages' = 0
    /\ iJoin' = NoJoin
    /\ iServer' = Unknown(iServer.have)
    /\ iRepeat' = {e \in 1..iPosted : iDone[e] > 0}
    /\ UNCHANGED <<iFeed, iBreaks, iPosted, iMember, iDropped, iDone, iLeft>>

IrcLoop ==
    \/ Resumed \/ StreamBegins \/ ProcessMessage
    \/ MakeServer \/ BacklogComplete \/ StatusChanged
    \/ LoungeInit \/ LoungeMore \/ EmitLoungeMessage
    \/ IrcLive \/ NetworkStatus

IrcNext == IPost \/ IrcLoop \/ NetworkLost \/ IrcCloses \/ ICrash

IrcSpec == IrcInit /\ [][IrcNext]_iVars

-----------------------------------------------------------------------------
(***************************************************************************)
(* What is older than the newest message seen was published or is about to *)
(* be, or a page still to come was asked for, or the next connection takes *)
(* a backlog.  The exceptions are what is beyond the pages and the backlog,*)
(* and what was asked for when an answer or the connection broke.  And     *)
(* nothing is published twice, except after a restart, or by a page that   *)
(* reaches back below the window of ids that are kept.                     *)
(***************************************************************************)
StreamHonest ==
    /\ \A e \in 1..iPos :
          \/ iDone[e] > 0 \/ e \in iBatch \cup iLeft
          \/ IF iFeed.name = "irccloud" THEN ~iStream ELSE e < iFrom
    /\ \A e \in 1..iPosted :
          iDone[e] = 2 => e \in iRepeat \/ (iFeed.name = "irclounge" /\ e < iPos - IKeep)

(***************************************************************************)
(* Every message is published in the end, with the same exceptions and as  *)
(* long as an irccloud stream without an id does not stay open; and the    *)
(* channel is joined in the end.  It is not when joining it, or adding its *)
(* server, failed once in this stream, or the stream did not tell of the   *)
(* servers (irccloud); or when the connection ended before the network was *)
(* connected: the channel counts as joined from then on (irclounge).       *)
(***************************************************************************)
IrcCaughtUp ==
    IF iFeed.name = "irccloud"
    THEN \/ ~iStream
         \/ /\ \A e \in 1..iPosted : iDone[e] > 0 \/ e \in iLeft
            /\ iFeed.join = "none" \/ ~iServer.oob \/ iMember \/ iDropped
    ELSE (iMember \/ iDropped) /\ \A e \in 1..iPosted : iDone[e] > 0 \/ e \in iLeft
=============================================================================
