------------------------------ MODULE MCPoller ------------------------------
(***************************************************************************)
(* Poller with three channels, the last of which reuses the descriptor of  *)
(* the first, and an event list that starts with room for one event.       *)
(***************************************************************************)
EXTENDS Poller, TLC

CONSTANTS c1, c2, c3

MCChannels == {c1, c2, c3}
MCFd == [c \in MCChannels |-> IF c = c2 THEN 1 ELSE 0]

(* The two channels on descriptor 0 are interchangeable.                   *)
Symmetry == Permutations({c1, c3})
=============================================================================
