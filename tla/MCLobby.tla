------------------------------- MODULE MCLobby -------------------------------
(* Instances of Lobby and StockView for TLC.                                *)
EXTENDS StockView, TLC

\* Members are interchangeable.
Symmetry == Permutations(Ids)
=============================================================================
