----------------------------- MODULE MatrixLite -----------------------------
(***************************************************************************)
(* The Matrix backend (fbprotocols/matrixlite): a loop that logs in or     *)
(* restores a session, syncs from a position it stores, and publishes what *)
(* a sync returns; the sends, which number their requests; and one worker  *)
(* that looks up the rooms and the senders nothing is known of, through a  *)
(* queue that several goroutines fill.                                     *)
(*                                                                         *)
(* The messages are those of one room, numbered by the server.  A token is *)
(* a number: the server takes the last one it gave out, unless it revoked  *)
(* that too; the refresh token goes with it.                               *)
(***************************************************************************)
EXTENDS Integers, Sequences, SequencesExt

CONSTANTS
    MRooms,         \* the rooms the account is in
    MMembers,       \* the senders
    MQueueSize,     \* backfillQueueSize
    MTimeline,      \* the timeline limit of a sync
    MPlans          \* bounds of the model, see MPlan

ASSUME MatrixAssumption ==
    /\ MRooms \cap MMembers = {}
    /\ MQueueSize \in Nat \ {0}
    /\ MTimeline \in Nat \ {0}

(***************************************************************************)
(* How many messages are posted, messages sent, crashes, and tokens given  *)
(* out; whether the server syncs the sliding way, and gives refresh tokens;*)
(* and which rooms and senders have to be looked up.                       *)
(***************************************************************************)
MPlan(e, s, c, t, sl, rf, u) ==
    [events |-> e, sends |-> s, crashes |-> c, tokens |-> t, sliding |-> sl,
     refresh |-> rf, unknown |-> u]

VARIABLES
    mPlan,          \* the bounds of this behaviour
    mPosted,        \* the messages posted so far
    mIssued,        \* the tokens given out so far
    mValid,         \* the token the server takes, or 0
    mUsed,          \* transaction numbers the server has seen of the device
    mPc,            \* where the loop is
    mClient,        \* the client of the loop, which sends use as well
    mState,         \* state
    mDisk,          \* matrixlite-state.json
    mBatch,         \* messages of the last sync that are not published yet
    mCrashes,       \* number of restarts
    mDone,          \* history: how often a message was published, 2 for more
    mMissed,        \* history: messages a limit or a crash took
    mResets,        \* history: what took the position back
    mReused,        \* history: a client replaced another of the same device
    mSwallowed,     \* history: a send was taken for a repetition
    mKnown,         \* rooms and senders with data to publish
    mPending,       \* pendingRooms, pendingMembers
    mQueue,         \* backfillCh
    mWorker,        \* the task the worker fetches, or MIdle
    mCool,          \* roomAttempts, memberAttempts within the cooldown
    mLearned        \* history: senders that a sync named while they waited

mSyncVars == <<mPosted, mIssued, mValid, mPc, mClient, mState, mDisk, mBatch, mCrashes>>
mHistory == <<mDone, mMissed, mResets>>
mSendVars == <<mUsed, mReused, mSwallowed>>
mQueueVars == <<mPending, mQueue>>
mProfileVars == <<mKnown, mPending, mQueue, mWorker, mCool, mLearned>>
mVars == <<mPlan, mSyncVars, mHistory, mSendVars, mProfileVars>>

MSubjects == MRooms \cup MMembers
MIdle == "idle"
NoToken == 0

ASSUME MSubjectsAssumption == MIdle \notin MSubjects

ASSUME MPlansAssumption ==
    \A p \in MPlans :
        /\ p.events \in Nat /\ p.sends \in Nat /\ p.crashes \in Nat /\ p.tokens \in Nat
        /\ p.sliding \in BOOLEAN /\ p.refresh \in BOOLEAN
        /\ p.unknown \subseteq MSubjects

(* Client and State hold the same, but for the counter of the client. *)
MSession == [token: Nat, refresh: BOOLEAN, sliding: BOOLEAN, pos: Nat, next: Nat]
NoState == [token |-> NoToken, refresh |-> FALSE, sliding |-> FALSE, pos |-> 0, next |-> 0]
NoClient == [sess |-> NoState, txn |-> -1]

MTypeOK ==
    /\ mPlan \in MPlans
    /\ mPosted \in 0..mPlan.events
    /\ mIssued \in 0..mPlan.tokens
    /\ mValid \in 0..mIssued
    /\ mUsed \subseteq 1..mPlan.sends
    /\ mPc \in {"login", "save", "sync", "publish", "refresh", "reconnect", "off"}
    /\ mClient.sess \in MSession /\ mClient.txn \in -1..mPlan.sends
    /\ mState.sess \in MSession /\ mState.known \subseteq MSubjects
    /\ mDisk.sess \in MSession /\ mDisk.known \subseteq MSubjects
    /\ mBatch \subseteq 1..mPosted
    /\ mCrashes \in 0..mPlan.crashes
    /\ mDone \in [1..mPlan.events -> 0..2]
    /\ mMissed \subseteq 1..mPosted
    /\ mResets \subseteq {"login", "fallback", "unsaved"}
    /\ mReused \in BOOLEAN /\ mSwallowed \in BOOLEAN
    /\ mKnown \subseteq MSubjects /\ mPending \subseteq MSubjects
    /\ mQueue \in Seq(MSubjects) /\ Len(mQueue) <= MQueueSize
    /\ mWorker \in MSubjects \cup {MIdle}
    /\ mCool \subseteq MSubjects
    /\ mLearned \subseteq MMembers

MatrixInit ==
    /\ mPlan \in MPlans
    /\ mPosted = 0 /\ mIssued = 0 /\ mValid = NoToken /\ mUsed = {}
    /\ mPc = "login"
    /\ mClient = NoClient
    /\ mState = [sess |-> NoState, known |-> {}]
    /\ mDisk = mState
    /\ mBatch = {}
    /\ mCrashes = 0
    /\ mDone = [e \in 1..mPlan.events |-> 0]
    /\ mMissed = {}
    /\ mResets = {}
    /\ mReused = FALSE /\ mSwallowed = FALSE
    /\ mKnown = MSubjects \ mPlan.unknown
    /\ mPending = {} /\ mQueue = <<>>
    /\ mWorker = MIdle
    /\ mCool = {}
    /\ mLearned = {}

-----------------------------------------------------------------------------
(* The server. *)

MPost ==
    /\ mPosted < mPlan.events
    /\ mPosted' = mPosted + 1
    /\ UNCHANGED <<mPlan, mIssued, mValid, mPc, mClient, mState, mDisk, mBatch, mCrashes,
                   mHistory, mSendVars, mProfileVars>>

(* The token expires or is invalidated. *)
MRevoke ==
    /\ mValid # NoToken /\ mIssued + 1 < mPlan.tokens
    /\ mValid' = NoToken
    /\ UNCHANGED <<mPlan, mPosted, mIssued, mPc, mClient, mState, mDisk, mBatch, mCrashes,
                   mHistory, mSendVars, mProfileVars>>

-----------------------------------------------------------------------------
(* The session. *)

Refused(token) == token = NoToken \/ token # mValid

(* Only the position of the way in use is stored. *)
SaveSyncState(c, s) ==
    [c EXCEPT !.pos = IF c.sliding THEN c.pos ELSE s.pos,
              !.next = IF c.sliding THEN s.next ELSE c.next]

(* An error of Save is ignored. *)
MSave(sess) ==
    /\ mState' = [sess |-> sess, known |-> mKnown]
    /\ mDisk' \in {mDisk, mState'}

(* The file and the syncs bring data of rooms and senders. *)
MLearn(subjects) ==
    /\ mKnown' = mKnown \cup subjects
    /\ mLearned' = mLearned \cup ((subjects \ mKnown) \cap mPending \cap MMembers)

(* What is before a position would be returned again. *)
TakenBack(to, why) ==
    mResets' = IF \E from \in {mClient.sess, mState.sess} : to.pos < from.pos \/ to.next < from.next
               THEN mResets \cup {why} ELSE mResets

(* The client of the loop is the one sends use; its numbers start at one.  *)
CurClient(sess) ==
    /\ mClient' = [sess |-> sess, txn |-> 0]
    /\ mReused' = (mReused \/ mUsed # {})

Restored ==
    /\ mPc = "login"
    /\ ~Refused(mState.sess.token)
    /\ CurClient(mState.sess)
    /\ TakenBack(mState.sess, "unsaved")
    /\ MLearn(mState.known)
    /\ mPc' = "save"
    /\ UNCHANGED <<mPlan, mPosted, mIssued, mValid, mState, mDisk, mBatch, mCrashes, mDone,
                   mMissed, mUsed, mSwallowed, mQueueVars, mWorker, mCool>>

(* The refreshed session is given up, too, when it cannot be verified. *)
RestoredByRefresh ==
    /\ mPc = "login"
    /\ mState.sess.token # NoToken /\ Refused(mState.sess.token)
    /\ mState.sess.refresh /\ mState.sess.token = mIssued /\ mIssued < mPlan.tokens
    /\ mIssued' = mIssued + 1 /\ mValid' = mIssued'
    /\ \/ LET sess == [mState.sess EXCEPT !.token = mIssued']
          IN  /\ CurClient(sess) /\ MSave(sess)
              /\ TakenBack(sess, "unsaved")
              /\ mPc' = "save"
       \/ /\ MSave([mState.sess EXCEPT !.token = NoToken, !.refresh = FALSE])
          /\ UNCHANGED <<mPc, mClient, mReused, mResets>>
    /\ MLearn(mState.known)
    /\ UNCHANGED <<mPlan, mPosted, mBatch, mCrashes, mDone, mMissed, mUsed, mSwallowed,
                   mQueueVars, mWorker, mCool>>

RestoreRefused ==
    /\ mPc = "login"
    /\ mState.sess.token # NoToken /\ Refused(mState.sess.token)
    /\ MSave([mState.sess EXCEPT !.token = NoToken, !.refresh = FALSE])
    /\ MLearn(mState.known)
    /\ UNCHANGED <<mPlan, mPosted, mIssued, mValid, mPc, mClient, mBatch, mCrashes, mHistory,
                   mSendVars, mQueueVars, mWorker, mCool>>

(* With the device of the state, and from no position. *)
MLogin ==
    /\ mPc = "login"
    /\ mState.sess.token = NoToken
    /\ mIssued < mPlan.tokens
    /\ mIssued' = mIssued + 1 /\ mValid' = mIssued'
    /\ \E detected \in {FALSE, mPlan.sliding} :
          CurClient([NoState EXCEPT !.token = mIssued', !.refresh = mPlan.refresh,
                                    !.sliding = detected])
    /\ TakenBack(NoState, "login")
    /\ mPc' = "save"
    /\ UNCHANGED <<mPlan, mPosted, mState, mDisk, mBatch, mCrashes, mDone, mMissed, mUsed,
                   mSwallowed, mProfileVars>>

(* The user is deactivated: the loop ends. *)
Deactivated ==
    /\ \/ mPc = "login" /\ Refused(mState.sess.token)
       \/ mPc \in {"sync", "refresh"} /\ Refused(mClient.sess.token)
    /\ mPc' = "off"
    /\ UNCHANGED <<mPlan, mPosted, mIssued, mValid, mClient, mState, mDisk, mBatch, mCrashes,
                   mHistory, mSendVars, mProfileVars>>

(* After a login, and after a refresh. *)
SaveSession ==
    /\ mPc = "save"
    /\ MSave(SaveSyncState(mClient.sess, mState.sess))
    /\ mPc' = "sync"
    /\ UNCHANGED <<mPlan, mPosted, mIssued, mValid, mClient, mBatch, mCrashes, mHistory,
                   mSendVars, mProfileVars>>

-----------------------------------------------------------------------------
(* A sync. *)

(* What a sync from a position returns, and what its limit leaves out. *)
MAfter(from) == {e \in 1..mPosted : e > from}
MReturned(from) == {e \in MAfter(from) : e > mPosted - MTimeline}

(* The position is stored before anything is published. *)
SyncReturns(from, sess) ==
    /\ mClient' = [mClient EXCEPT !.sess = sess]
    /\ MSave(SaveSyncState(sess, mState.sess))
    /\ mBatch' = MReturned(from)
    /\ mMissed' = mMissed \cup (MAfter(from) \ MReturned(from))
    /\ mPc' = "publish"

SlidingSync ==
    /\ mPc = "sync"
    /\ ~Refused(mClient.sess.token)
    /\ mClient.sess.sliding
    /\ SyncReturns(mClient.sess.pos, [mClient.sess EXCEPT !.pos = mPosted])
    /\ mResets' = IF mClient.sess.next > mClient.sess.pos THEN mResets \cup {"fallback"} ELSE mResets
    /\ UNCHANGED <<mPlan, mPosted, mIssued, mValid, mCrashes, mDone, mSendVars, mProfileVars>>

(* Whenever a sliding sync fails, too. *)
NormalSync ==
    /\ mPc = "sync"
    /\ ~Refused(mClient.sess.token)
    /\ SyncReturns(mClient.sess.next, [mClient.sess EXCEPT !.next = mPosted])
    /\ mResets' = IF mClient.sess.pos > mClient.sess.next THEN mResets \cup {"fallback"} ELSE mResets
    /\ UNCHANGED <<mPlan, mPosted, mIssued, mValid, mCrashes, mDone, mSendVars, mProfileVars>>

(* Other errors than these are waited for, and the sync is tried again. *)
SyncRefused ==
    /\ mPc = "sync"
    /\ Refused(mClient.sess.token)
    /\ mPc' = IF mClient.sess.refresh THEN "refresh" ELSE "reconnect"
    /\ UNCHANGED <<mPlan, mPosted, mIssued, mValid, mClient, mState, mDisk, mBatch, mCrashes,
                   mHistory, mSendVars, mProfileVars>>

(* Mutant: a refresh starts from no position. *)
Mut_TokenRefresh ==
    /\ mPc = "refresh"
    /\ mClient.sess.token = mIssued /\ mIssued < mPlan.tokens
    /\ mIssued' = mIssued + 1 /\ mValid' = mIssued'
    /\ mClient' = [mClient EXCEPT !.sess.token = mIssued', !.sess.next = 0, !.sess.pos = 0]
    /\ mPc' = "save"
    /\ UNCHANGED <<mPlan, mPosted, mState, mDisk, mBatch, mCrashes, mHistory, mSendVars,
                   mProfileVars>>

TokenRefresh ==
    /\ mPc = "refresh"
    /\ mClient.sess.token = mIssued /\ mIssued < mPlan.tokens
    /\ mIssued' = mIssued + 1 /\ mValid' = mIssued'
    /\ mClient' = [mClient EXCEPT !.sess.token = mIssued']
    /\ mPc' = "save"
    /\ UNCHANGED <<mPlan, mPosted, mState, mDisk, mBatch, mCrashes, mHistory, mSendVars,
                   mProfileVars>>

(* A refusal takes the access token from the client; any other error is    *)
(* followed by another sync.                                               *)
RefreshFails ==
    /\ mPc = "refresh"
    /\ \/ mPc' = "sync" /\ UNCHANGED mClient
       \/ mPc' = "reconnect" /\ mClient' = [mClient EXCEPT !.sess.token = NoToken]
    /\ UNCHANGED <<mPlan, mPosted, mIssued, mValid, mState, mDisk, mBatch, mCrashes, mHistory,
                   mSendVars, mProfileVars>>

Reconnect ==
    /\ mPc = "reconnect"
    /\ mPc' = "login"
    /\ UNCHANGED <<mPlan, mPosted, mIssued, mValid, mClient, mState, mDisk, mBatch, mCrashes,
                   mHistory, mSendVars, mProfileVars>>

-----------------------------------------------------------------------------
(* Lookups. *)

(* A full queue drops the task, and the flag. *)
Enqueue(s) ==
    /\ s \notin mPending
    /\ Len(mQueue) < MQueueSize
    /\ mPending' = mPending \cup {s}
    /\ mQueue' = Append(mQueue, s)

EnqueueIf(s) == IF s \in mPending \cup mKnown \/ Len(mQueue) = MQueueSize
                THEN UNCHANGED mQueueVars ELSE Enqueue(s)

(* Mutant: the first error of publish ends the batch. *)
Mut_PublishEvent(s) ==
    /\ mPc = "publish"
    /\ \E e \in mBatch :
          /\ \A f \in mBatch : e <= f
          /\ mDone' = [mDone EXCEPT ![e] = IF @ = 2 THEN 2 ELSE @ + 1]
          /\ mBatch' \in {mBatch \ {e}, {}}
    /\ EnqueueIf(s)
    /\ UNCHANGED <<mPlan, mPosted, mIssued, mValid, mPc, mClient, mState, mDisk, mCrashes,
                   mMissed, mResets, mSendVars, mKnown, mWorker, mCool, mLearned>>

(* A message asks for a lookup of its room or its sender, s, when there is *)
(* nothing to publish of it; an error of publish is only logged.           *)
PublishEvent(s) ==
    /\ mPc = "publish"
    /\ \E e \in mBatch :
          /\ \A f \in mBatch : e <= f
          /\ mDone' = [mDone EXCEPT ![e] = IF @ = 2 THEN 2 ELSE @ + 1]
          /\ mBatch' = mBatch \ {e}
    /\ EnqueueIf(s)
    /\ UNCHANGED <<mPlan, mPosted, mIssued, mValid, mPc, mClient, mState, mDisk, mCrashes,
                   mMissed, mResets, mSendVars, mKnown, mWorker, mCool, mLearned>>

BatchDone ==
    /\ mPc = "publish" /\ mBatch = {}
    /\ mPc' = "sync"
    /\ UNCHANGED <<mPlan, mPosted, mIssued, mValid, mClient, mState, mDisk, mBatch, mCrashes,
                   mHistory, mSendVars, mProfileVars>>

(* Once per connection, and from a ticker. *)
SweepJoinedRooms(r) ==
    /\ mClient.txn # -1
    /\ r \notin mKnown
    /\ Enqueue(r)
    /\ UNCHANGED <<mPlan, mSyncVars, mHistory, mSendVars, mKnown, mWorker, mCool, mLearned>>

(* What a sync carries names a room or a sender. *)
Harvest(s) ==
    /\ s \notin mKnown
    /\ MLearn({s})
    /\ UNCHANGED <<mPlan, mSyncVars, mHistory, mSendVars, mQueueVars, mWorker, mCool>>

(* It was not seen for a week. *)
MPrune(s) ==
    /\ s \in mKnown \cap mPlan.unknown
    /\ mKnown' = mKnown \ {s}
    /\ UNCHANGED <<mPlan, mSyncVars, mHistory, mSendVars, mQueueVars, mWorker, mCool, mLearned>>

CooldownLapses(s) ==
    /\ s \in mCool
    /\ mCool' = mCool \ {s}
    /\ UNCHANGED <<mPlan, mSyncVars, mHistory, mSendVars, mKnown, mQueueVars, mWorker, mLearned>>

(* The worker takes a task; what it has to fetch leaves it busy. *)
MTaken == mWorker = MIdle /\ mQueue # <<>> /\ mQueue' = Tail(mQueue)

Mut_BackfillOne(r) ==
    /\ MTaken /\ Head(mQueue) = r
    /\ IF r \in mCool \cup mKnown \/ mClient.txn = -1
       THEN UNCHANGED <<mPending, mWorker>>
       ELSE mWorker' = r /\ UNCHANGED mPending
    /\ UNCHANGED <<mPlan, mSyncVars, mHistory, mSendVars, mKnown, mCool, mLearned>>

BackfillOne(r) ==
    /\ MTaken /\ Head(mQueue) = r
    /\ IF r \in mCool \cup mKnown \/ mClient.txn = -1
       THEN mPending' = mPending \ {r} /\ UNCHANGED mWorker
       ELSE mWorker' = r /\ UNCHANGED mPending
    /\ UNCHANGED <<mPlan, mSyncVars, mHistory, mSendVars, mKnown, mCool, mLearned>>

(* An error, or an answer with nothing to publish, is kept for a cooldown. *)
RoomFetched(r) ==
    /\ mWorker = r
    /\ mWorker' = MIdle
    /\ mPending' = mPending \ {r}
    /\ \/ ~Refused(mClient.sess.token) /\ mKnown' = mKnown \cup {r} /\ UNCHANGED mCool
       \/ mCool' = mCool \cup {r} /\ UNCHANGED mKnown
    /\ UNCHANGED <<mPlan, mSyncVars, mHistory, mSendVars, mQueue, mLearned>>

(* A sender that has a name by now leaves its flag set; an attempt counts  *)
(* before it is made.                                                      *)
ResolveMember(u) ==
    /\ MTaken /\ Head(mQueue) = u
    /\ \/ u \in mKnown /\ UNCHANGED <<mPending, mWorker, mCool>>
       \/ /\ u \notin mKnown
          /\ mCool' = mCool \cup {u}
          /\ IF u \in mCool \/ mClient.txn = -1
             THEN mPending' = mPending \ {u} /\ UNCHANGED mWorker
             ELSE mWorker' = u /\ UNCHANGED mPending
    /\ mLearned' = mLearned \cap mPending'
    /\ UNCHANGED <<mPlan, mSyncVars, mHistory, mSendVars, mKnown>>

(* The members of its room, or its profile alone, or none of it. *)
MemberFetched(u) ==
    /\ mWorker = u
    /\ mWorker' = MIdle
    /\ mPending' = mPending \ {u}
    /\ \E names \in SUBSET MMembers :
          /\ names # {} => ~Refused(mClient.sess.token)
          /\ mKnown' = mKnown \cup names
          /\ mLearned' = (mLearned \cup names) \cap mPending'
    /\ UNCHANGED <<mPlan, mSyncVars, mHistory, mSendVars, mQueue, mCool>>

-----------------------------------------------------------------------------
(* Mutant: the numbers of a client are not counted. *)
Mut_NextTxn == 1

NextTxn == mClient.txn + 1

(* Send and Redact: the server answers a number it has seen with the event *)
(* of that request, and does nothing.                                      *)
MSend ==
    /\ mClient.txn # -1 /\ ~Refused(mClient.sess.token)
    /\ mClient.txn < mPlan.sends
    /\ mClient' = [mClient EXCEPT !.txn = @ + 1]
    /\ mUsed' = mUsed \cup {NextTxn}
    /\ mSwallowed' = (mSwallowed \/ NextTxn \in mUsed)
    /\ UNCHANGED <<mPlan, mPosted, mIssued, mValid, mPc, mState, mDisk, mBatch, mCrashes,
                   mHistory, mReused, mProfileVars>>

(* The process ends at any moment; Load reads the file. *)
MCrash ==
    /\ mCrashes < mPlan.crashes
    /\ mCrashes' = mCrashes + 1
    /\ mPc' = "login"
    /\ mClient' = NoClient
    /\ mState' = mDisk
    /\ mBatch' = {}
    /\ mMissed' = mMissed \cup mBatch
    /\ TakenBack(mDisk.sess, "unsaved")
    /\ mKnown' = (MSubjects \ mPlan.unknown) \cup mDisk.known
    /\ mPending' = {} /\ mQueue' = <<>> /\ mWorker' = MIdle /\ mCool' = {} /\ mLearned' = {}
    /\ UNCHANGED <<mPlan, mPosted, mIssued, mValid, mDisk, mDone, mSendVars>>

MatrixLoop ==
    \/ Restored \/ RestoredByRefresh \/ RestoreRefused \/ MLogin \/ Deactivated \/ SaveSession
    \/ SlidingSync \/ NormalSync \/ SyncRefused \/ TokenRefresh \/ RefreshFails \/ Reconnect
    \/ BatchDone \/ \E s \in MSubjects : PublishEvent(s)

MatrixWorker ==
    \/ \E r \in MRooms : BackfillOne(r) \/ RoomFetched(r)
    \/ \E u \in MMembers : ResolveMember(u) \/ MemberFetched(u)

MatrixNext ==
    \/ MPost \/ MRevoke
    \/ MatrixLoop
    \/ MatrixWorker
    \/ \E r \in MRooms : SweepJoinedRooms(r)
    \/ \E s \in MSubjects : Harvest(s) \/ MPrune(s) \/ CooldownLapses(s)
    \/ MSend
    \/ MCrash

MatrixSpec == MatrixInit /\ [][MatrixNext]_mVars

-----------------------------------------------------------------------------
(***************************************************************************)
(* No message is passed over: what lies before a position of the client was*)
(* published, or is about to be, whatever token is refreshed, session      *)
(* restored or way to sync taken in between.  The exceptions are the       *)
(* messages beyond the limit of a sync, and those of a batch that the end  *)
(* of the process cut short.                                               *)
(***************************************************************************)
NotPassedOver ==
    \A e \in 1..mPosted :
        (\E sess \in {mClient.sess, mState.sess, mDisk.sess} : e <= sess.pos \/ e <= sess.next) =>
            mDone[e] > 0 \/ e \in mBatch \cup mMissed

(***************************************************************************)
(* A message is published once, as long as nothing takes the position      *)
(* back: not a refresh, nor a reconnect or a restart from the position of  *)
(* the last sync, but a new login, a sync of the other way, or a position  *)
(* that was not stored, as that of a normal sync in place of a sliding one.*)
(***************************************************************************)
OnceUnlessReset == mResets = {} => \A e \in 1..mPosted : mDone[e] < 2

(***************************************************************************)
(* A room or a sender that is marked as queued is in the queue or at the   *)
(* worker, so it can be queued again after it was looked up.  The exception*)
(* is a sender that was named while it waited.                             *)
(***************************************************************************)
PendingIsQueued ==
    \A s \in mPending : s \in ToSet(mQueue) \/ s = mWorker \/ s \in mLearned

(* The server takes a message for a repetition of another only if a client *)
(* that starts its numbers again replaced the one that sent the other.     *)
SwallowedNeedsNewClient == mSwallowed => mReused

(***************************************************************************)
(* A room nothing is known of is looked up with success in the end, though *)
(* its task may be dropped, its lookup fail, and the process restart.      *)
(***************************************************************************)
RoomsProfiled == MRooms \subseteq mKnown \/ mPc = "off"
=============================================================================
