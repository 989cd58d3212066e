---------------------------- MODULE MCSftpUpload ----------------------------
(* Instances of SftpUpload for TLC. *)
EXTENDS SftpUpload, TLC

CONSTANTS s1, s2, h1, h2

MCSymmetry == Permutations(Sessions) \cup Permutations(Handles)
=============================================================================
