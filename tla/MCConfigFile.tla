---------------------------- MODULE MCConfigFile ----------------------------
(* Small instances for TLC: days of four minutes.                          *)
EXTENDS ConfigFile

CONSTANTS p1, p2

One == {[weekdays |-> {1, 6}, windows |-> {<<1, 3>>}]}
EnvRules == {[weekdays |-> {2}, windows |-> {<<0, 1>>}]}

MCStarts == {{}, One \cup {[weekdays |-> {}, windows |-> {<<0, 2>>}]}}
MCEnvStarts == EnvRules
MCEnvLegacy == [windows |-> {<<1, 2>>}, weekdays |-> {1, 7}]

\* One or two stop windows of a day, within it and across midnight, on
\* Sundays or on two days, or on every day.
MCLegacy ==
    {[windows |-> {v, w}, weekdays |-> days] :
        v \in {<<1, 3>>, <<3, 1>>}, w \in StopWindow, days \in {{7}, {1, 3}}}
    \cup {[windows |-> ws, weekdays |-> 1..7] : ws \in {{}, {<<0, 2>>, <<2, 0>>}, {<<3, 2>>}, {<<0, 3>>, <<1, 2>>}}}

MCFew == {[windows |-> {}, weekdays |-> 1..7], [windows |-> {<<1, 3>>}, weekdays |-> {1}]}

MCEnvironments == {{}, {"keys", "mode"}, {"starts"}, {"stops"}, {"weekdays"}}

ProcSymmetry == Permutations(Proc)
=============================================================================
