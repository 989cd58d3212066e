---------------------------- MODULE MCSshSession ----------------------------
(* Instances of SshSession for TLC. *)
EXTENDS SshSession

CONSTANTS z1, z2
=============================================================================
