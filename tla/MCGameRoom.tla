---------------------------- MODULE MCGameRoom ----------------------------
(* Instances of GameRoom for TLC; the constants are in the .cfg files.      *)
EXTENDS GameRoom

\* Members differ in nothing but their names.
Symmetry == Permutations(Ids)

\* The match of a full house has just been started: everyone joined, attached
\* and connected a toy, one after the other, and the first one is the owner.
Seated == CHOOSE s \in [1..Cardinality(Ids) -> Ids] : ToSet(s) = Ids
Seat(i) == CHOOSE n \in DOMAIN Seated : Seated[n] = i
InMatch ==
    room = [mode |-> "hosted", members |-> Seated, owner |-> Seated[1],
            m |-> [i \in Ids |->
                      [Absent EXCEPT
                          !.ws = Seat(i), !.plug = Seat(i), !.ready = TRUE,
                          !.lobbyCount = Cardinality(Ids),
                          !.net = [NoNet EXCEPT !.plug = Seat(i), !.ws = Seat(i), !.ready = TRUE,
                                       !.told = Cardinality(Ids), !.played = TRUE]]],
            match |-> [phase |-> "preparing", connected |-> Ids, unsent |-> {}, roster |-> Ids,
                       session |-> [i \in Ids |-> Seat(i)]],
            open |-> 1..Cardinality(Ids), closing |-> {},
            sockets |-> Cardinality(Ids), plugs |-> Cardinality(Ids)]
=============================================================================
