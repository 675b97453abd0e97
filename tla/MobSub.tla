------------------------------- MODULE MobSub -------------------------------
(***************************************************************************)
(* Mobile subscriptions (fedbridge/mobsub_command.go, mobsub_registry.go,  *)
(* webpush.go).  A node listens on the topic of its uaid, by a connection  *)
(* to ntfy and one to the push service of Mozilla, and takes what arrives  *)
(* for a message to send or to publish.  It also keeps the subscriptions   *)
(* that phones announce to it, and pushes what it publishes to each.       *)
(*                                                                         *)
(* The push service stores a notification until it is acknowledged and     *)
(* delivers what it stores on every hello; ntfy keeps nothing.             *)
(***************************************************************************)
EXTENDS Integers, Sequences

CONSTANTS
    WAuths,         \* the subscriptions, by their auth secret
    WTtl,           \* mobsubRegistryTTL
    WMinBackoff,    \* mobsubMinBackoff
    WMaxBackoff,    \* mobsubMaxBackoff
    WPlans          \* bounds of the model, see WPlan

ASSUME MobSubAssumption ==
    /\ WTtl \in Nat
    /\ WMinBackoff \in Nat \ {0} /\ WMaxBackoff \in Nat /\ WMinBackoff <= WMaxBackoff

(* Kind and way of the messages that come in; connections that break,      *)
(* restarts, units of time, announcements and pushes.                      *)
WPlan(k, b, c, t, a, p) ==
    [notes |-> k, breaks |-> b, crashes |-> c, ticks |-> t, announces |-> a, pushes |-> p]

(* send: a message for DispatchSend, badfile: one whose file cannot be     *)
(* decoded, plain: anything else, sealed: encrypted for another key.       *)
Kinds == {"send", "badfile", "plain", "sealed"}
(* moz: by the push service, self: by it, from this node; ntfy: the topic. *)
Ways == {"moz", "self", "ntfy"}

ASSUME MobSubPlans ==
    \A p \in WPlans : /\ p.notes \in Seq(Kinds \X Ways)
                      /\ p.breaks \in Nat /\ p.crashes \in Nat /\ p.ticks \in Nat
                      /\ p.announces \in Nat /\ p.pushes \in Nat

VARIABLES
    wPlan,          \* the messages and bounds of this behaviour
    wCounts,        \* what happened of the bounded so far
    wPosted,        \* messages given to the push service or to ntfy
    wServer,        \* those the push service stores
    wPc,            \* where the loop of the push service is
    wInbox,         \* delivered on this connection and not yet read
    wNote,          \* the notification the loop is at
    wBackoff,       \* backoff
    wTopic,         \* the topic is followed
    wSending,       \* number of goroutines in DispatchSend
    wTimes,         \* history: how often it was handed over, 2 for more
    wDone,          \* history: dispatched, or published
    wUnfit,         \* history: not decrypted, decoded, or published
    wLost,          \* history: expired, heard by nobody, or in a goroutine at a crash
    wRetried,       \* history: handled, but its ack did not arrive
    wSubs,          \* mobsubSubs: the endpoint announced last, 0 for none
    wAge,           \* time since it was announced
    wSince,         \* history: time since anybody announced
    wPush           \* goroutines that push: what each has still to send

wMozilla == <<wServer, wPc, wInbox, wNote, wBackoff>>
wOutcome == <<wSending, wTimes, wDone, wUnfit>>
wExcuses == <<wLost, wRetried>>
wRegistry == <<wSubs, wAge, wSince>>
wVars == <<wPlan, wCounts, wPosted, wMozilla, wTopic, wOutcome, wExcuses, wRegistry, wPush>>

Notes == 1..Len(wPlan.notes)
Kind(n) == wPlan.notes[n][1]
Way(n) == wPlan.notes[n][2]

MobSubTypeOK ==
    /\ wPlan \in WPlans
    /\ \A n \in Notes : Kind(n) \in Kinds /\ Way(n) \in Ways
    /\ wCounts \in [breaks: 0..wPlan.breaks, crashes: 0..wPlan.crashes,
                    ticks: 0..wPlan.ticks, announces: 0..wPlan.announces]
    /\ wPosted \subseteq Notes /\ wServer \subseteq wPosted /\ wInbox \subseteq wPosted
    /\ wPc \in {"dial", "hello", "read", "handle", "ack", "wait"}
    /\ wNote \in Notes \cup {0}
    /\ wBackoff \in WMinBackoff..(2 * WMaxBackoff)
    /\ wTopic \in BOOLEAN
    /\ wTimes \in [Notes -> 0..2]
    /\ wSending \in [Notes -> 0..(wPlan.breaks + wPlan.crashes + 1)]
    /\ wDone \subseteq Notes
    /\ wUnfit \subseteq Notes /\ wLost \subseteq Notes /\ wRetried \subseteq Notes
    /\ wSubs \in [WAuths -> 0..wPlan.announces]
    /\ wAge \in [WAuths -> 0..wPlan.ticks] /\ wSince \in 0..wPlan.ticks
    /\ wPush \in [1..wPlan.pushes -> SUBSET (WAuths \X Nat)]

(* startMobSub: both connections are opened by goroutines of their own. *)
MobSubInit ==
    /\ wPlan \in WPlans
    /\ wCounts = [breaks |-> 0, crashes |-> 0, ticks |-> 0, announces |-> 0]
    /\ wPosted = {} /\ wServer = {} /\ wInbox = {}
    /\ wPc = "dial" /\ wNote = 0 /\ wBackoff = WMinBackoff
    /\ wTopic = FALSE
    /\ wTimes = [n \in Notes |-> 0]
    /\ wSending = [n \in Notes |-> 0]
    /\ wDone = {} /\ wUnfit = {} /\ wLost = {} /\ wRetried = {}
    /\ wSubs = [a \in WAuths |-> 0] /\ wAge = [a \in WAuths |-> 0] /\ wSince = 0
    /\ wPush = [k \in 1..wPlan.pushes |-> {}]

WCount(what) ==
    /\ wCounts[what] < wPlan[what]
    /\ wCounts' = [wCounts EXCEPT ![what] = @ + 1]

-----------------------------------------------------------------------------
(* What arrives, by both ways. *)

(* handleMobSubMsg of message n: a message to send gets a goroutine, unless*)
(* its file is broken; anything else is published on the channel.          *)
HandleMobSubMsg(n) ==
    /\ wTimes' = [wTimes EXCEPT ![n] = IF @ < 2 THEN @ + 1 ELSE @]
    /\ \/ Kind(n) = "send"
          /\ wSending' = [wSending EXCEPT ![n] = @ + 1] /\ UNCHANGED <<wDone, wUnfit>>
       \/ Kind(n) \in {"badfile", "plain"}
          /\ wUnfit' = wUnfit \cup {n} /\ UNCHANGED <<wSending, wDone>>
       \/ Kind(n) = "plain"
          /\ wDone' = wDone \cup {n} /\ UNCHANGED <<wSending, wUnfit>>

(* DispatchSend returns; an error is logged. *)
Dispatched(n) ==
    /\ wSending[n] > 0
    /\ wSending' = [wSending EXCEPT ![n] = @ - 1]
    /\ wDone' = wDone \cup {n}
    /\ UNCHANGED <<wPlan, wCounts, wPosted, wMozilla, wTopic, wTimes, wUnfit, wExcuses,
                   wRegistry, wPush>>

(* The push service stores n and delivers it when the node is connected. *)
Store(n) ==
    /\ n \notin wPosted
    /\ wPosted' = wPosted \cup {n}
    /\ wServer' = wServer \cup {n}
    /\ wInbox' = IF wPc \in {"read", "handle", "ack"} THEN wInbox \cup {n} ELSE wInbox
    /\ UNCHANGED <<wPlan, wCounts, wPc, wNote, wBackoff, wTopic, wOutcome, wExcuses,
                   wRegistry, wPush>>

WPost(n) == Way(n) = "moz" /\ Store(n)

(* sendMobSubSelf: the node is one of its own senders. *)
SelfSend(n) == Way(n) = "self" /\ Store(n)

(* The lifetime the sender gave the notification ends. *)
WExpire(n) ==
    /\ n \in wServer /\ n \notin wInbox /\ wNote # n
    /\ WCount("breaks")
    /\ wServer' = wServer \ {n}
    /\ wLost' = wLost \cup {n}
    /\ UNCHANGED <<wPlan, wPosted, wPc, wInbox, wNote, wBackoff, wTopic, wOutcome,
                   wRetried, wRegistry, wPush>>

(* A message on the topic is read at once, or by nobody. *)
NtfyMessage(n) ==
    /\ Way(n) = "ntfy" /\ n \notin wPosted
    /\ wPosted' = wPosted \cup {n}
    /\ IF wTopic THEN HandleMobSubMsg(n) /\ UNCHANGED wLost
       ELSE wLost' = wLost \cup {n} /\ UNCHANGED wOutcome
    /\ UNCHANGED <<wPlan, wCounts, wMozilla, wTopic, wRetried, wRegistry, wPush>>

(* runMobSubNtfy subscribes, and again 10 s after the end of a connection. *)
NtfySubscribe ==
    /\ ~wTopic /\ wTopic' = TRUE
    /\ UNCHANGED <<wPlan, wCounts, wPosted, wMozilla, wOutcome, wExcuses, wRegistry, wPush>>

NtfyEnds ==
    /\ wTopic /\ wTopic' = FALSE
    /\ WCount("breaks")
    /\ UNCHANGED <<wPlan, wPosted, wMozilla, wOutcome, wExcuses, wRegistry, wPush>>

-----------------------------------------------------------------------------
(* mobsubMozillaOnce. *)

MozGoto(from, to) ==
    /\ wPc = from /\ wPc' = to
    /\ UNCHANGED <<wPlan, wPosted, wTopic, wRegistry, wPush>>

MozDial ==
    /\ MozGoto("dial", "hello")
    /\ UNCHANGED <<wCounts, wServer, wInbox, wNote, wBackoff, wOutcome, wExcuses>>

(* After the answer to the hello everything stored is delivered. *)
MozHello ==
    /\ MozGoto("hello", "read")
    /\ wInbox' = wServer
    /\ UNCHANGED <<wCounts, wServer, wNote, wBackoff, wOutcome, wExcuses>>

(* Mutant: the notification is acknowledged when it is read. *)
Mut_MozNotification(n) ==
    /\ n \in wInbox
    /\ MozGoto("read", IF Kind(n) = "sealed" THEN "ack" ELSE "handle")
    /\ wInbox' = wInbox \ {n}
    /\ wNote' = n
    /\ wServer' = wServer \ {n}
    /\ wUnfit' = IF Kind(n) = "sealed" THEN wUnfit \cup {n} ELSE wUnfit
    /\ UNCHANGED <<wCounts, wBackoff, wSending, wTimes, wDone, wExcuses>>

(* What cannot be decrypted is acknowledged all the same. *)
MozNotification(n) ==
    /\ n \in wInbox
    /\ MozGoto("read", IF Kind(n) = "sealed" THEN "ack" ELSE "handle")
    /\ wInbox' = wInbox \ {n}
    /\ wNote' = n
    /\ wUnfit' = IF Kind(n) = "sealed" THEN wUnfit \cup {n} ELSE wUnfit
    /\ UNCHANGED <<wCounts, wServer, wBackoff, wSending, wTimes, wDone, wExcuses>>

MozHandle ==
    /\ MozGoto("handle", "ack")
    /\ HandleMobSubMsg(wNote)
    /\ UNCHANGED <<wCounts, wMozilla, wExcuses>>

(* The notification the loop is at will be delivered again. *)
Unacked == wRetried' = IF wPc = "ack" THEN wRetried \cup {wNote} ELSE wRetried

(* The ack may get lost after it was written. *)
MozAck ==
    /\ MozGoto("ack", "read")
    /\ wNote' = 0
    /\ \/ wServer' = wServer \ {wNote} /\ UNCHANGED <<wCounts, wExcuses>>
       \/ WCount("breaks") /\ Unacked /\ UNCHANGED <<wServer, wLost>>
    /\ UNCHANGED <<wInbox, wBackoff, wOutcome>>

(* Dialling, the hello, reading or writing the ack fails.  A connection    *)
(* that lasted resets the wait.                                            *)
MozFails(stable) ==
    /\ stable => wPc \notin {"dial", "hello"}
    /\ \E from \in {"dial", "hello", "read", "ack"} : MozGoto(from, "wait")
    /\ WCount("breaks")
    /\ wInbox' = {} /\ wNote' = 0
    /\ wBackoff' = IF stable THEN WMinBackoff ELSE wBackoff
    /\ Unacked
    /\ UNCHANGED <<wServer, wOutcome, wLost>>

(* The wait grows until it has passed the maximum. *)
MozWaited ==
    /\ MozGoto("wait", "dial")
    /\ wBackoff' = IF wBackoff < WMaxBackoff THEN 2 * wBackoff ELSE wBackoff
    /\ UNCHANGED <<wCounts, wServer, wInbox, wNote, wOutcome, wExcuses>>

-----------------------------------------------------------------------------
(* The registry and the push. *)

Known == {a \in WAuths : wSubs[a] # 0}
Expired == {a \in Known : wAge[a] > WTtl}

(* Mutant: only a new subscription makes the registry look for old ones. *)
Mut_OnP2PTopicEvent(a) ==
    /\ WCount("announces")
    /\ LET kept == IF a \in Known THEN Known ELSE Known \ Expired
       IN  wSubs' = [b \in WAuths |-> IF b = a THEN wCounts'.announces
                                      ELSE IF b \in kept THEN wSubs[b] ELSE 0]
    /\ wAge' = [b \in WAuths |-> IF wSubs'[b] = 0 \/ b = a THEN 0 ELSE wAge[b]]
    /\ wSince' = 0
    /\ UNCHANGED <<wPlan, wPosted, wMozilla, wTopic, wOutcome, wExcuses, wPush>>

(* An announcement, with the endpoint of its number, drops what expired and*)
(* enters or refreshes its own.                                            *)
OnP2PTopicEvent(a) ==
    /\ WCount("announces")
    /\ wSubs' = [b \in WAuths |-> IF b = a THEN wCounts'.announces
                                  ELSE IF b \in Expired THEN 0 ELSE wSubs[b]]
    /\ wAge' = [b \in WAuths |-> IF wSubs'[b] = 0 \/ b = a THEN 0 ELSE wAge[b]]
    /\ wSince' = 0
    /\ UNCHANGED <<wPlan, wPosted, wMozilla, wTopic, wOutcome, wExcuses, wPush>>

WTick ==
    /\ WCount("ticks")
    /\ wAge' = [a \in WAuths |-> IF wSubs[a] = 0 THEN 0 ELSE wAge[a] + 1]
    /\ wSince' = wSince + 1
    /\ UNCHANGED <<wPlan, wPosted, wMozilla, wTopic, wOutcome, wExcuses, wSubs, wPush>>

(* A message is published: one goroutine takes a copy of the registry, *)
PublishMozPush(k) ==
    /\ wPush[k] = {} /\ Known # {}
    /\ wPush' = [wPush EXCEPT ![k] = {<<a, wSubs[a]>> : a \in Known}]
    /\ UNCHANGED <<wPlan, wCounts, wPosted, wMozilla, wTopic, wOutcome, wExcuses, wRegistry>>

(* and sends to one after the other, whether or not a send fails. *)
SendMozPushSunup(k, s) ==
    /\ s \in wPush[k]
    /\ wPush' = [wPush EXCEPT ![k] = @ \ {s}]
    /\ UNCHANGED <<wPlan, wCounts, wPosted, wMozilla, wTopic, wOutcome, wExcuses, wRegistry>>

-----------------------------------------------------------------------------
(* The process starts again: the keys follow from the uaid, the registry   *)
(* and the goroutines are gone.                                            *)
MobSubCrash ==
    /\ WCount("crashes")
    /\ wPc' = "dial" /\ wInbox' = {} /\ wNote' = 0 /\ wBackoff' = WMinBackoff
    /\ wTopic' = FALSE
    /\ wLost' = wLost \cup {n \in Notes : wSending[n] > 0}
    /\ Unacked
    /\ wSending' = [n \in Notes |-> 0]
    /\ wSubs' = [a \in WAuths |-> 0] /\ wAge' = [a \in WAuths |-> 0] /\ wSince' = 0
    /\ wPush' = [k \in DOMAIN wPush |-> {}]
    /\ UNCHANGED <<wPlan, wPosted, wServer, wTimes, wDone, wUnfit>>

MobSubNext ==
    \/ \E n \in Notes :
          WPost(n) \/ SelfSend(n) \/ WExpire(n) \/ NtfyMessage(n)
          \/ MozNotification(n) \/ Dispatched(n)
    \/ NtfySubscribe \/ NtfyEnds
    \/ MozDial \/ MozHello \/ MozHandle \/ MozAck \/ MozWaited
    \/ \E stable \in BOOLEAN : MozFails(stable)
    \/ \E a \in WAuths : OnP2PTopicEvent(a)
    \/ WTick
    \/ \E k \in 1..wPlan.pushes :
          PublishMozPush(k) \/ \E s \in wPush[k] : SendMozPushSunup(k, s)
    \/ MobSubCrash

MobSubSpec == MobSubInit /\ [][MobSubNext]_wVars

-----------------------------------------------------------------------------
(* What is stored nowhere any more. *)
Forgotten == wPosted \ wServer

(* A message that is forgotten was dispatched or published, or is being so,*)
(* or could not be: it was not decrypted, its file not decoded, the channel*)
(* refused it, it expired, the topic was not followed, or the process ended*)
(* with its goroutine.  One handed over twice had its ack lost.            *)
ReceivedHonest ==
    /\ \A n \in Forgotten : wSending[n] > 0 \/ n \in wDone \cup wUnfit \cup wLost
    /\ {n \in Notes : wTimes[n] = 2} \subseteq wRetried

(* A subscription that was not announced for longer than its lifetime is   *)
(* still known only when nobody has announced any since it ended.          *)
RegistryFresh == \A a \in Known : wAge[a] <= WTtl + wSince

(***************************************************************************)
(* The mobile side keeps its promises: a notification is acknowledged only *)
(* after it was handled, and lost or repeated only as ReceivedHonest says; *)
(* and the lazy clean-up of the registry leaves no phone that went silent  *)
(* behind an announcement.                                                 *)
(***************************************************************************)
MobSubHonest == ReceivedHonest /\ RegistryFresh
=============================================================================
