------------------------------ MODULE MCFeeds ------------------------------
(* Instances of Feeds for TLC. *)
EXTENDS Feeds, TLC

OneLoop == Weibo \cup Toutiao \cup Coolapk \cup Hongguo \cup Xhs \cup Zhihu

(* Every kind of channel alone: with two entries, or with one in bilibili, *)
(* whose goroutines run beside each other.                                 *)
Singles == {b \in OneLoop : DOMAIN b.kind = {"one"}} \cup {b \in Bilibili : DOMAIN b.kind = {"two"}}
MCEntries == {<<"one", 1>>, <<"one", 2>>, <<"two", 1>>}

(* Two channels whose rounds share a tick. *)
Twins == {b \in Zhihu : b.kind = ("one" :> ZhihuCollection @@ "two" :> ZhihuDaily)}
MCBackends == Singles \cup Twins

(* For the runs that show a disagreement. *)
Followed == {b \in Singles : DOMAIN b.kind = {"one"}}
OneOfTwo == {"one", "two"} \X {1}
TwoOfOne == {"one"} \X {1, 2}
=============================================================================
