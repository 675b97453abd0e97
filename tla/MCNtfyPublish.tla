--------------------------- MODULE MCNtfyPublish ---------------------------
(* An instance of NtfyPublish for TLC. *)
EXTENDS NtfyPublish, TLC

CONSTANTS p1, p2, p3

(* No header, one shorter than the clamp, one longer. *)
MCRetryAfters == {0, 3, 8}
=============================================================================
