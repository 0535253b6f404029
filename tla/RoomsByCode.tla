----------------------------- MODULE RoomsByCode -----------------------------
(***************************************************************************)
(* Two things players meet in by a code: a session of the relay, as the     *)
(* server sees it, and a game room, as the page of one player sees it.      *)
(*                                                                          *)
(* The two do not interact; a behaviour is one of one of them, which `part` *)
(* names.                                                                   *)
(***************************************************************************)
EXTENDS Relay, GamePage, TLC

VARIABLE part

\* Sockets of the relay differ in nothing but their names.
Symmetry == Permutations(Sockets)

\* Of a part that does not run one initial state will do.
CodeInit ==
    /\ part \in {"relay", "page"} /\ RelayInit /\ GamesInit
    /\ part = "relay" => client.mode = "hosted"

RelayStep == part = "relay" /\ RelayNext /\ UNCHANGED <<part, gamesVars>>
PageStep == part = "page" /\ GamesNext /\ UNCHANGED <<part, vars>>

CodeNext == RelayStep \/ PageStep

CodeSpec == CodeInit /\ [][CodeNext]_<<part, vars, gamesVars>>
=============================================================================
