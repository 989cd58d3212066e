---------------------------- MODULE MCExecBridge ----------------------------
(* Instances of ExecBridge for TLC. *)
EXTENDS ExecBridge

Strings(S, n) == UNION {[1 .. k -> S] : k \in 0 .. n}

MCSymbols == {"R", "U", "b", "d", ":", "x", "0", "2", "5", "6", "a", "l2", "l3", "c"}
MCBegin == <<"R", "b", "U">>
MCEnd == <<"R", "d", ":">>
\* No marker but the one that follows.
MCBefore == {b \in Strings({"R", "b"}, 2) : Places(MCBegin, b \o MCBegin) = {Len(b)}}
MCOutputs == {o \in Strings({"x", "R", "d"}, 3) : Places(MCEnd, o \o MCEnd) = {Len(o)}}
MCStatuses == {<<"0">>, <<"2", "5", "5">>, <<"2", "5", "6">>, <<"x", "0", "0", "0", "0">>}
MCInputs == Strings({"a", "l2", "l3", "c"}, 4)
=============================================================================
