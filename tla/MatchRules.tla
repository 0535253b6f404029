----------------------------- MODULE MatchRules -----------------------------
(***************************************************************************)
(* What a hosted match promises its players, without queues, messages or    *)
(* clocks: rounds, survivors, wins and a winner.  HostedMatch implements it. *)
(*                                                                          *)
(* Seats can be lost at any time, several in one step: telling the players  *)
(* about one loss may cost the next seat its place.                         *)
(***************************************************************************)
EXTENDS Integers

CONSTANTS
    Players,   \* the seats of a match
    Tied,      \* the winner when nobody is left
    None       \* undefined

AtMostOne(S) == \A a, b \in S : a = b

ASSUME RulesAssumption ==
    /\ Players \subseteq Nat /\ ~AtMostOne(Players)
    /\ Tied \notin Players /\ None \notin Players /\ None # Tied

VARIABLES phase, round, connected, alive, wins, winner, finish

vars == <<phase, round, connected, alive, wins, winner, finish>>

Phases == {"lobby", "preparing", "countdown", "playing",
           "round-result", "results", "aborted"}

Init ==
    /\ phase = "lobby" /\ round = 0
    /\ connected = Players /\ alive = {}
    /\ wins = [s \in Players |-> 0] /\ winner = None /\ finish = FALSE

\* A round begins with everyone still connected.
Begin ==
    /\ phase = "lobby" \/ (phase = "round-result" /\ ~finish)
    /\ phase' = "preparing" /\ round' = round + 1
    /\ alive' = connected /\ winner' = None
    /\ UNCHANGED <<connected, wins, finish>>

Countdown ==
    /\ phase = "preparing" /\ phase' = "countdown"
    /\ UNCHANGED <<round, connected, alive, wins, winner, finish>>

Play ==
    /\ phase = "countdown" /\ phase' = "playing"
    /\ UNCHANGED <<round, connected, alive, wins, winner, finish>>

\* A seat lost before play, or time run out, ends the match without a winner.
GiveUp ==
    /\ phase \in {"preparing", "countdown", "round-result"}
    /\ phase' = "aborted" /\ connected' \in SUBSET connected
    /\ UNCHANGED <<round, alive, wins, winner, finish>>

\* With at most one seat left the match is over; the seat that is left wins.
\* If the last ones went in a single step, one of them or nobody does.
Forfeit ==
    /\ AtMostOne(connected') /\ phase' = "results"
    /\ winner' \in IF connected' = {} THEN connected \cup {Tied} ELSE connected'

\* Faulty variant: a seat that is lost goes on living.
LossesStillAlive ==
    /\ phase = "playing" /\ connected' \in SUBSET connected /\ alive' \in SUBSET alive
    /\ IF connected' # connected /\ AtMostOne(connected') THEN Forfeit
       ELSE UNCHANGED <<phase, winner>>
    /\ UNCHANGED <<round, wins, finish>>

\* Players top out or seats are lost while a round is played.  Only the winner
\* by forfeit, if lost while being told so, is still counted among the living.
Losses ==
    /\ phase = "playing" /\ connected' \in SUBSET connected /\ alive' \in SUBSET alive
    /\ IF connected' # connected /\ AtMostOne(connected')
       THEN Forfeit /\ alive' \subseteq {winner'}
       ELSE alive' \cap (connected \ connected') = {} /\ UNCHANGED <<phase, winner>>
    /\ UNCHANGED <<round, wins, finish>>

\* The round is decided: at most one seat lives.  A draw gives nobody a win.
Finish ==
    /\ phase = "playing" /\ AtMostOne(alive)
    /\ \E s \in alive \cup {Tied} :
          /\ s = Tied <=> alive = {}
          /\ wins' = [t \in Players |-> IF t = s THEN wins[t] + 1 ELSE wins[t]]
          /\ finish' = (s # Tied /\ wins'[s] >= 2)
          /\ connected' \in SUBSET connected
          /\ IF connected' # connected /\ AtMostOne(connected') THEN Forfeit
             ELSE phase' = "round-result" /\ winner' = s
    /\ UNCHANGED <<round, alive>>

\* Seats lost while the round's result is shown.
LossesAfter ==
    /\ phase = "round-result"
    /\ connected' \in (SUBSET connected) \ {connected}
    /\ IF AtMostOne(connected') THEN Forfeit ELSE UNCHANGED <<phase, winner>>
    /\ UNCHANGED <<round, alive, wins, finish>>

Close ==
    /\ phase = "round-result" /\ finish /\ phase' = "results"
    /\ UNCHANGED <<round, connected, alive, wins, winner, finish>>

\* Seats that go after the end change nothing else.
GoneAfter ==
    /\ phase \in {"results", "aborted"} /\ connected' \in SUBSET connected
    /\ UNCHANGED <<phase, round, alive, wins, winner, finish>>

Next ==
    \/ Begin \/ Countdown \/ Play \/ GiveUp
    \/ Losses \/ Finish \/ LossesAfter \/ Close \/ GoneAfter

Spec == Init /\ [][Next]_vars

-----------------------------------------------------------------------------
(* Properties                                                               *)

\* Every variable keeps its shape.
TypeOK ==
    /\ phase \in Phases /\ round \in Nat
    /\ connected \in SUBSET Players /\ alive \in SUBSET Players
    /\ wins \in [Players -> Nat]
    /\ winner \in Players \cup {Tied, None} /\ finish \in BOOLEAN

\* Nobody plays alone, and no seat that left is counted among the living
\* (the disconnect handler both eliminates the seat and ends the match).
PlayersAreThere ==
    phase = "playing" => ~AtMostOne(connected) /\ alive \subseteq connected

\* The match does not go on after two round wins, and only one seat gets there.
NoOvertime ==
    /\ \A s \in Players : wins[s] <= 2
    /\ \A s, t \in Players : wins[s] = 2 /\ wins[t] = 2 => s = t
    /\ phase \in {"lobby", "preparing", "countdown", "playing"} =>
          \A s \in Players : wins[s] < 2

\* The match is played by those who are there, and is over at two wins.
RulesKept == PlayersAreThere /\ NoOvertime

=============================================================================
