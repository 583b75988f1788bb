------------------------------- MODULE MCTui --------------------------------
(* Instance of TuiSession for TLC. *)
EXTENDS TuiSession, TLC

MCProfileBackend == [n \in Profiles |-> "tmux"]
MCSources == <<"none", "bad">>
MCSectionRequests == {<<>>, <<"1", "deps">>, <<"relay", "all">>, <<"ci", "smoke", "ci">>, <<"oops", "all">>}
Symmetry == Permutations(Clients)
=============================================================================
