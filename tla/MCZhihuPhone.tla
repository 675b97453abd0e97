---------------------------- MODULE MCZhihuPhone ----------------------------
(* An instance of ZhihuSession for TLC: two requests of a page on which a  *)
(* user logs in by phone.                                                  *)
EXTENDS ZhihuSession

CONSTANTS r1, r2, old, new

MCLimits == {[pages |-> 1, faults |-> 0, reqs |-> 2, rounds |-> 0, ways |-> {"phone"}]}
=============================================================================
