----------------------------- MODULE MCUpdater -----------------------------
(* An instance of Updater for TLC. *)
EXTENDS Updater

MCCurrent == <<1, 10, 0>>
MCVersions == {<<1, 9, 9>>, MCCurrent, <<1, 10, 1>>, <<2, 0, 0>>}

\* The cases of update_test.go, and a number to compare with.
Rank(v) == (v[1] * 100 + v[2]) * 100 + v[3]
ASSUME CompareVersionsTest ==
  /\ Precedes(<<1, 0, 0>>, <<1, 0, 1>>) /\ Precedes(<<1, 1, 9>>, <<1, 2, 0>>)
  /\ ~Precedes(<<2, 0, 0>>, <<2, 0, 0>>) /\ Precedes(<<1, 9, 99>>, <<1, 10, 0>>)
  /\ \A a, b \in (0 .. 3) \X (0 .. 3) \X (0 .. 3) : Precedes(a, b) <=> Rank(a) < Rank(b)
=============================================================================
