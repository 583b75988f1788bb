--------------------------- MODULE MCBridgeServer ---------------------------
(* Small instances of BridgeServer for TLC. *)
EXTENDS BridgeServer, TLC

Symmetry == Permutations(Client) \union Permutations(Pane)
=============================================================================
