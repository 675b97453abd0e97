------------------------------ MODULE MCPolls ------------------------------
(***************************************************************************)
(* The backends that poll, for TLC: pages (Feeds), Matrix, positions and   *)
(* IRC streams.  They share no variable, so a behaviour lets one of them   *)
(* move (part); the others stay in an initial state in which they promise  *)
(* nothing.                                                                *)
(***************************************************************************)
EXTENDS MCFeeds, MatrixLite, CursorFeed, IrcFeed

CONSTANTS ra, rb, ua

VARIABLE part

pollsVars == <<part, vars, mVars, cVars, iVars>>

(* Messages and a restart; refused tokens; a refresh and both ways to sync;*)
(* sends over a restart; lookups over a restart; a full queue.             *)
MCMPlans ==
    { MPlan(3, 0, 1, 4, FALSE, TRUE, {}), MPlan(2, 0, 1, 3, TRUE, FALSE, {}),
      MPlan(2, 0, 0, 4, TRUE, TRUE, {}), MPlan(0, 2, 1, 4, FALSE, TRUE, {}),
      MPlan(1, 0, 1, 2, FALSE, FALSE, {ra, ua}), MPlan(0, 0, 0, 1, FALSE, FALSE, {ra, rb, ua}) }

(* A message that names an unknown room, with a sender; tokens that lapse. *)
LiveMPlans ==
    { MPlan(0, 0, 0, 1, FALSE, FALSE, {}), MPlan(1, 0, 0, 2, FALSE, FALSE, {ra, ua}),
      MPlan(0, 0, 1, 4, FALSE, TRUE, {ra}) }

(* One of the goroutines of bilibili stands for all. *)
LiveBackends == Followed \cup {b \in Bilibili : b.kind = ("two" :> BiliNotify)}

(* More messages than a page, with failures and a restart; and a server    *)
(* whose numbers begin again.  Nothing makes the site of toutiao show an   *)
(* article in the end.                                                     *)
MCCFeeds ==
    {CFeed(n, 4, 2, 1, 0) : n \in CNames \ {"toutiao"}}
        \cup {CFeed("toutiao", 3, 1, 1, 0)}
        \cup {CFeed(n, 3, 1, 1, 1) : n \in {"imap", "tox"}}
LiveCFeeds == {CFeed(n, 3, 1, 1, 1) : n \in CNames \ {"toutiao"}}

(* More messages than the pages and the window, breaks and a restart; and  *)
(* a server or a channel to join.                                          *)
MCIFeeds ==
    {IFeed("irccloud", 4, 3, 1, "none"), IFeed("irclounge", 6, 2, 1, "none")}
        \cup {IFeed("irccloud", 1, 3, 1, j) : j \in {"server", "channel"}}
LiveIFeeds ==
    {IFeed("irccloud", 3, 2, 1, "none"), IFeed("irclounge", 4, 2, 1, "none")}
        \cup {IFeed("irccloud", 1, 2, 1, j) : j \in {"server", "channel"}}

PollsInit ==
    /\ part \in {"feeds", "matrix", "cursor", "irc"}
    /\ Init /\ MatrixInit /\ CursorInit /\ IrcInit
    /\ part # "feeds" => backend = CHOOSE b \in Backends : TRUE
    /\ part # "matrix" => mPlan = CHOOSE p \in MPlans : p.unknown = {}
    /\ part # "cursor" => cFeed = (CHOOSE f \in CFeeds : f.name = "tox") /\ cPosted = 0
    /\ part # "irc" => iFeed = (CHOOSE f \in IFeeds : f.name = "irccloud" /\ f.join = "none") /\ iPosted = 0

(* A step A of one part. *)
FeedsPart(A) == part = "feeds" /\ A /\ UNCHANGED <<part, mVars, cVars, iVars>>
MatrixPart(A) == part = "matrix" /\ A /\ UNCHANGED <<part, vars, cVars, iVars>>
CursorPart(A) == part = "cursor" /\ A /\ UNCHANGED <<part, vars, mVars, iVars>>
IrcPart(A) == part = "irc" /\ A /\ UNCHANGED <<part, vars, mVars, cVars>>

PollsNext == FeedsPart(Next) \/ MatrixPart(MatrixNext) \/ CursorPart(CursorNext) \/ IrcPart(IrcNext)

(* The fairness of Feeds; goroutines go on, what is asked for again and    *)
(* again is answered in the end, tickers fire and cooldowns lapse.  As only*)
(* one part moves, one clause may serve them all.                          *)
PollsFairness ==
    /\ \A c \in Channels :
          /\ WF_pollsVars(\/ FeedsPart(c \in On /\ Work(LoopOf(c)))
                         \/ MatrixPart(MatrixLoop) \/ CursorPart(CursorLoop) \/ IrcPart(IrcLoop))
          /\ SF_pollsVars(FeedsPart(c \in On /\ Sync(LoopOf(c), c, listed[c])))
    /\ \A e \in Entries :
          SF_pollsVars(FeedsPart(/\ e[1] \in On /\ channel[LoopOf(e[1])] = e[1]
                                 /\ Publish(LoopOf(e[1]), e[2])))
    /\ WF_pollsVars(MatrixPart(MatrixWorker))
    /\ SF_pollsVars(MatrixPart(TokenRefresh))
    /\ \A r \in MRooms :
          /\ SF_pollsVars(MatrixPart(SweepJoinedRooms(r)))
          /\ SF_pollsVars(MatrixPart(RoomFetched(r) /\ r \in mKnown'))
          /\ WF_pollsVars(MatrixPart(CooldownLapses(r)))

PollsSpec == PollsInit /\ [][PollsNext]_pollsVars
FairPollsSpec == PollsSpec /\ PollsFairness

-----------------------------------------------------------------------------
(* The values of all variables. *)
PollsTypeOK == TypeOK /\ MTypeOK /\ CTypeOK /\ ITypeOK

(***************************************************************************)
(* Whatever fails on the way: an entry that stays on a page is published   *)
(* or seeded in the end; a Matrix room nothing is known of is looked up    *)
(* with success; a message after a position, or on a stream, is published, *)
(* and the IRC channel joined, with the exceptions the parts name.         *)
(***************************************************************************)
PollsCatchUp ==
    []<>(EntriesHandled /\ RoomsProfiled /\ CursorCaughtUp /\ IrcCaughtUp)
=============================================================================
