--------------------------- MODULE MCBridgeEngine ---------------------------
(* Small instances of BridgeEngine for TLC. *)
EXTENDS BridgeEngine, TLC

CONSTANTS a, b

\* Contents that extend each other (delta) and that do not (snapshot).
MCTextSmall == {<< >>, <<a>>, <<b>>}

\* MCTextSmall does not change when its lines are exchanged.
Symmetry == Permutations(Client) \union Permutations(Line)
SymmetryPanes == Permutations(Pane) \union Permutations(Line)
=============================================================================
