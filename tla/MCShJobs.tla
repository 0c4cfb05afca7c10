------------------------------ MODULE MCShJobs ------------------------------
(* Instances of ShJobs: scripts, one with pipefail, one with "set -T", and *)
(* interactive shells, each with the bounds under which its cases happen.  *)
EXTENDS ShJobs

Script == [i |-> FALSE, T |-> FALSE, pipefail |-> FALSE, forks |-> 3, signals |-> 0, stops |-> 0]
Async == [Script EXCEPT !.T = TRUE, !.forks = 2, !.signals = 1]
Interactive == [Script EXCEPT !.i = TRUE, !.forks = 2, !.stops = 1]

MC_Modes == {Script,
             [Script EXCEPT !.forks = 2, !.signals = 1],
             [Script EXCEPT !.forks = 1, !.signals = 2],
             [Script EXCEPT !.forks = 2, !.pipefail = TRUE],
             Async,
             Interactive,
             [Interactive EXCEPT !.forks = 1, !.signals = 1]}

AsyncModes == {Async}
InteractiveModes == {Interactive}

(* Larger ones, for the invariants alone.                                  *)
LargeModes == {[Script EXCEPT !.signals = 1],
               [Script EXCEPT !.forks = 2, !.signals = 2],
               [Script EXCEPT !.pipefail = TRUE],
               [Async EXCEPT !.forks = 3],
               [Interactive EXCEPT !.stops = 2]}
=============================================================================
