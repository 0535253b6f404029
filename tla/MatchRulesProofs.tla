-------------------------- MODULE MatchRulesProofs --------------------------
(***************************************************************************)
(* The rules of a match, proved for every set of seats.                     *)
(***************************************************************************)
EXTENDS MatchRules, TLAPS

\* The shape of the state is kept by every step.
THEOREM TypeCorrect == Spec => []TypeOK
<1>1. Init => TypeOK
  <2> SUFFICES ASSUME Init PROVE TypeOK
    OBVIOUS
  <2>1. wins \in [Players -> Nat]
    BY DEF Init
  <2> QED
    BY <2>1 DEF Init, TypeOK, Phases
<1>2. TypeOK /\ [Next]_vars => TypeOK'
  <2> SUFFICES ASSUME TypeOK, [Next]_vars PROVE TypeOK'
    OBVIOUS
  <2> USE DEF TypeOK, Phases
  <2>1. CASE Begin
    BY <2>1 DEF Begin
  <2>2. CASE Countdown
    BY <2>2 DEF Countdown
  <2>3. CASE Play
    BY <2>3 DEF Play
  <2>4. CASE GiveUp
    BY <2>4 DEF GiveUp
  <2>5. CASE Losses
    BY <2>5 DEF Losses, Forfeit
  <2>6. CASE Finish
    <3> PICK s \in alive \cup {Tied} :
            /\ wins' = [t \in Players |-> IF t = s THEN wins[t] + 1 ELSE wins[t]]
            /\ finish' = (s # Tied /\ wins'[s] >= 2)
            /\ connected' \in SUBSET connected
            /\ IF connected' # connected /\ AtMostOne(connected') THEN Forfeit
               ELSE phase' = "round-result" /\ winner' = s
      BY <2>6 DEF Finish
    <3>1. wins' \in [Players -> Nat] /\ finish' \in BOOLEAN
      OBVIOUS
    <3>2. phase' \in Phases /\ winner' \in Players \cup {Tied, None}
      BY DEF Forfeit
    <3> QED
      BY <2>6, <3>1, <3>2 DEF Finish
  <2>7. CASE LossesAfter
    BY <2>7 DEF LossesAfter, Forfeit
  <2>8. CASE Close
    BY <2>8 DEF Close
  <2>9. CASE GoneAfter
    BY <2>9 DEF GoneAfter
  <2>10. CASE UNCHANGED vars
    BY <2>10 DEF vars
  <2> QED
    BY <2>1, <2>2, <2>3, <2>4, <2>5, <2>6, <2>7, <2>8, <2>9, <2>10 DEF Next
<1> QED
  BY <1>1, <1>2, PTL DEF Spec

-----------------------------------------------------------------------------
Undecided == {"lobby", "preparing", "countdown", "playing", "round-result"}

\* Who is there.  Until the match ends two seats are connected, and those a
\* round was prepared for are exactly those connected.
Presence ==
    /\ phase \in Undecided => ~AtMostOne(connected)
    /\ phase \in {"preparing", "countdown"} => alive = connected
    /\ phase = "playing" => alive \subseteq connected

\* Who has won.  Only a round that has just been closed, or the end, can show
\* two wins, and finish tells the two cases of a closed round apart.
Score ==
    /\ \A s \in Players : wins[s] <= 2
    /\ \A s, t \in Players : wins[s] = 2 /\ wins[t] = 2 => s = t
    /\ phase \in {"lobby", "preparing", "countdown", "playing"} =>
          \A s \in Players : wins[s] < 2
    /\ phase = "round-result" /\ ~finish => \A s \in Players : wins[s] < 2

\* A closed round leaves at most one seat with two wins: its winner, who alone
\* can have gained one.
LEMMA OneWinAtATime ==
    ASSUME TypeOK, \A t \in Players : wins[t] < 2, NEW s \in alive \cup {Tied},
           wins' = [t \in Players |-> IF t = s THEN wins[t] + 1 ELSE wins[t]]
    PROVE  /\ \A t \in Players : wins'[t] <= 2
           /\ \A t \in Players : wins'[t] = 2 => t = s
  BY DEF TypeOK

\* Until the match has ended somebody is there to play against, and nobody who
\* left is counted among the living.
THEOREM PlayersThere == Spec => []PlayersAreThere
<1>1. Init => Presence
  BY RulesAssumption DEF Init, Presence, Undecided
<1>2. TypeOK /\ Presence /\ [Next]_vars => Presence'
  <2> SUFFICES ASSUME TypeOK, Presence, [Next]_vars PROVE Presence'
    OBVIOUS
  <2> USE DEF Presence, Undecided
  <2>1. CASE Begin
    BY <2>1 DEF Begin
  <2>2. CASE Countdown
    BY <2>2 DEF Countdown
  <2>3. CASE Play
    BY <2>3 DEF Play
  <2>4. CASE GiveUp
    BY <2>4 DEF GiveUp
  <2>5. CASE Losses
    <3>1. CASE connected' # connected /\ AtMostOne(connected')
      BY <3>1, <2>5 DEF Losses, Forfeit
    <3>2. CASE connected' = connected \/ ~AtMostOne(connected')
      BY <3>2, <2>5 DEF Losses
    <3> QED
      BY <3>1, <3>2
  <2>6. CASE Finish
    <3>1. CASE phase' = "results"
      BY <3>1
    <3>2. CASE phase' = "round-result" /\ (connected' = connected \/ ~AtMostOne(connected'))
      BY <3>2, <2>6 DEF Finish
    <3> QED
      BY <2>6, <3>1, <3>2 DEF Finish, Forfeit
  <2>7. CASE LossesAfter
    BY <2>7 DEF LossesAfter, Forfeit
  <2>8. CASE Close
    BY <2>8 DEF Close
  <2>9. CASE GoneAfter
    BY <2>9 DEF GoneAfter
  <2>10. CASE UNCHANGED vars
    BY <2>10 DEF vars
  <2> QED
    BY <2>1, <2>2, <2>3, <2>4, <2>5, <2>6, <2>7, <2>8, <2>9, <2>10 DEF Next
<1>3. Presence => PlayersAreThere
  BY DEF Presence, Undecided, PlayersAreThere
<1> QED
  BY <1>1, <1>2, <1>3, TypeCorrect, PTL DEF Spec

\* At most one seat ever has two wins, and from then on no round is played.
THEOREM MatchEndsAtTwoWins == Spec => []NoOvertime
<1>1. Init => Score
  BY DEF Init, Score
<1>2. TypeOK /\ Score /\ [Next]_vars => Score'
  <2> SUFFICES ASSUME TypeOK, Score, [Next]_vars PROVE Score'
    OBVIOUS
  <2>1. CASE Begin
    BY <2>1 DEF Begin, Score
  <2>2. CASE Countdown
    BY <2>2 DEF Countdown, Score
  <2>3. CASE Play
    BY <2>3 DEF Play, Score
  <2>4. CASE GiveUp
    BY <2>4 DEF GiveUp, Score
  <2>5. CASE Losses
    <3>1. phase' \in {"playing", "results"} /\ wins' = wins /\ phase = "playing"
      BY <2>5 DEF Losses, Forfeit
    <3> QED
      BY <3>1 DEF Score
  <2>6. CASE Finish
    <3> PICK s \in alive \cup {Tied} :
            /\ wins' = [t \in Players |-> IF t = s THEN wins[t] + 1 ELSE wins[t]]
            /\ finish' = (s # Tied /\ wins'[s] >= 2)
      BY <2>6 DEF Finish
    <3>1. \A t \in Players : wins[t] < 2
      BY <2>6 DEF Finish, Score
    <3>2. /\ \A t \in Players : wins'[t] <= 2
          /\ \A t \in Players : wins'[t] = 2 => t = s
      BY <3>1, OneWinAtATime
    <3>3. wins' \in [Players -> Nat]
      BY DEF TypeOK
    <3>4. ASSUME ~finish', NEW t \in Players PROVE wins'[t] < 2
      <4>1. CASE t = s
        <5>1. s # Tied
          BY <4>1, RulesAssumption
        <5>2. ~(wins'[s] >= 2)
          BY <5>1, <3>4
        <5> QED
          BY <5>2, <4>1, <3>3
      <4>2. CASE t # s
        BY <4>2, <3>2, <3>3
      <4> QED
        BY <4>1, <4>2
    <3>5. phase' \in {"round-result", "results"}
      BY <2>6 DEF Finish, Forfeit
    <3> QED
      BY <3>2, <3>4, <3>5 DEF Score
  <2>7. CASE LossesAfter
    <3>1. /\ phase' \in {"round-result", "results"} /\ phase = "round-result"
          /\ wins' = wins /\ finish' = finish
      BY <2>7 DEF LossesAfter, Forfeit
    <3> QED
      BY <3>1 DEF Score
  <2>8. CASE Close
    BY <2>8 DEF Close, Score
  <2>9. CASE GoneAfter
    BY <2>9 DEF GoneAfter, Score
  <2>10. CASE UNCHANGED vars
    BY <2>10 DEF vars, Score
  <2> QED
    BY <2>1, <2>2, <2>3, <2>4, <2>5, <2>6, <2>7, <2>8, <2>9, <2>10 DEF Next
<1>3. Score => NoOvertime
  BY DEF Score, NoOvertime
<1> QED
  BY <1>1, <1>2, <1>3, TypeCorrect, PTL DEF Spec

\* The two together, the property the runs check of hosted-match.ts.
THEOREM RulesAreKept == Spec => []RulesKept
BY PlayersThere, MatchEndsAtTwoWins, PTL DEF RulesKept

=============================================================================
