--------------------------- MODULE MCTokenManager ---------------------------
(* Instances of TokenManager for TLC. *)
EXTENDS TokenManager

CONSTANTS c1, c2, t1, t2

\* A bare Get, and Manager.Connect with its three attempts.
MCLimits == {0, 3}
=============================================================================
