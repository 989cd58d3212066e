----------------------------- MODULE MCSshServer -----------------------------
(* Instances of SshServer for TLC. *)
EXTENDS SshServer

CONSTANTS k1, k2, k3
=============================================================================
