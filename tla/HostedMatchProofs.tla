-------------------------- MODULE HostedMatchProofs --------------------------
(***************************************************************************)
(* For any number of seats and rounds, whatever runs full and however the   *)
(* calls of a match nest: a round begins for all or for none and is decided *)
(* in time (RoundsHold), no attack is lost on its way (AttacksArrive), the  *)
(* winner is the one the toys name (WinnerIsNamed), and the match keeps to  *)
(* the rules it promises (MatchKeepsRules).                                 *)
(***************************************************************************)
EXTENDS HostedMatch, FiniteSetTheorems, WellFoundedInduction, TLAPS

Few(S) == \A a, b \in S : a = b

\* The phases in which the loss of any seat ends the match.
Before == {"lobby", "preparing", "countdown"}

-----------------------------------------------------------------------------
(* What calls that nest do to a match                                       *)

SameRound(h, g) ==
    /\ g.round = h.round /\ g.seed = h.seed /\ g.wins = h.wins
    /\ g.deadline = h.deadline /\ g.finish = h.finish /\ g.prepared = h.prepared
    /\ g.target = h.target /\ g.garbageId = h.garbageId

\* The phase stays, or the match ends as it has to.
PhaseMoves(h, g) ==
    \/ /\ g.phase = h.phase /\ g.winner = h.winner
       /\ h.phase \in Before => g.connected = h.connected /\ g.settle = h.settle
    \/ h.phase \in Before /\ g.phase = "aborted" /\ g.winner = h.winner
    \/ /\ h.phase \in {"playing", "round-result"} /\ g.phase = "results"
       /\ Few(Connected(g))
       /\ g.winner \in IF Connected(g) = {} THEN Connected(h) \cup {TIE} ELSE Connected(g)

\* The settlement window is not open too early (Loose), and open in time (Armed).
Loose(h) == h.settle # Unset => Few(h.alive)
Armed(h) == h.settle # Unset <=> Few(h.alive)

\* Seats are lost, and those lost while a round is played are counted out.
Counted(h, g) ==
    /\ Connected(g) \subseteq Connected(h) /\ g.alive \subseteq h.alive
    /\ h.phase # "playing" => g.alive = h.alive
    /\ h.phase = "playing" /\ h.alive \subseteq Connected(h) =>
          IF g.phase = "playing" THEN g.alive \subseteq Connected(g)
          ELSE g.alive \subseteq {g.winner}
    /\ g.settle \in {h.settle, SETTLE_MS}
    /\ Loose(h) => Loose(g)

\* Messages a nested call may send of its own: never START, GO or GARBAGE.
News(g) ==
    {m \in Messages :
        /\ m.round = g.round
        /\ \/ m.type \in {"ALIVE", "ABORT"}
           \/ m.type = "FINAL" /\ g.phase = "results" /\ m.winner = g.winner}

SameAlive(m, n) == m.type = "ALIVE" /\ n.type = "ALIVE" /\ m.round = n.round

\* A queue that has grown by messages of T, and of which an ALIVE may have
\* been replaced by another.
Grown(o, p, T) ==
    /\ Len(o) <= Len(p)
    /\ \A k \in 1..Len(o) : p[k] = o[k] \/ SameAlive(o[k], p[k])
    /\ \A k \in Len(o) + 1..Len(p) : p[k] \in T

Fed(h, g, X) == \A s \in Connected(g) : Grown(h.outbox[s], g.outbox[s], X \cup News(g))

Short(h, g) ==
    \A s \in Seats : \/ Len(g.outbox[s]) <= OUTBOX_LIMIT
                     \/ Len(g.outbox[s]) <= Len(h.outbox[s])

Moved(h, g, X) ==
    /\ g \in Matches /\ SameRound(h, g) /\ PhaseMoves(h, g) /\ Counted(h, g)
    /\ Fed(h, g, X) /\ Short(h, g)

\* A seat that has been sent a message since.
Sent(h, g, s, m) == \E k \in Len(h.outbox[s]) + 1..Len(g.outbox[s]) : g.outbox[s][k] = m

\* Everyone who is still there is told of the forfeit.
Heralded(h, g) ==
    h.phase # "results" /\ g.phase = "results" =>
        \A s \in Connected(g) : Sent(h, g, s, FINAL(g))

\* The match is played by two at least.
Two(h) == h.phase \in {"playing", "round-result"} => ~Few(Connected(h))

\* What every call that may nest promises its caller.
Onward(h, g, X) ==
    /\ Moved(h, g, X) /\ Heralded(h, g)
    /\ Two(h) => Two(g)
    /\ Armed(h) => Armed(g)

Breadth(h) == Cardinality(Connected(h))

\* drop, d levels deep, is such a call where no more than d seats are connected,
\* and it disconnects the seat.
Droppable(D, d) ==
    \A h \in Matches, i \in Seats : Breadth(h) <= d =>
        Onward(h, D[<<h, i>>], {}) /\ i \notin Connected(D[<<h, i>>])

-----------------------------------------------------------------------------
(* Numbers, and steps one after the other                                   *)

\* The least of some numbers.
LEMMA Least ==
    ASSUME NEW T \in SUBSET Nat, T # {}
    PROVE  \E n \in T : \A k \in T : n <= k
<1> DEFINE R == OpToRel(<, Nat)
<1>1. IsWellFoundedOn(R, Nat)
  BY NatLessThanWellFounded
<1>2. PICK n \in T : \A k \in T : ~ <<k, n>> \in R
  <2> HIDE DEF R
  <2> QED
    BY <1>1, WFMin
<1>3. \A k \in T : ~ k < n
  BY <1>2 DEF OpToRel
<1> QED
  BY <1>3

\* Step by step from 0 to n.
LEMMA Climb ==
    ASSUME NEW n \in Nat, NEW T, 0 \in T, \A k \in 1..n : k - 1 \in T => k \in T
    PROVE  n \in T
<1> DEFINE Bad == {k \in 0..n : k \notin T}
<1>1. SUFFICES ASSUME Bad # {} PROVE FALSE
  OBVIOUS
<1>2. PICK m \in Bad : \A k \in Bad : m <= k
  <2>1. Bad \in SUBSET Nat
    OBVIOUS
  <2> HIDE DEF Bad
  <2> QED
    BY <1>1, <2>1, Least
<1>3. m \in 1..n /\ m - 1 \in 0..n /\ m - 1 \notin Bad
  BY <1>2
<1> QED
  BY <1>2, <1>3

\* n steps within U, and h lists what they make of the first.
Steps(n, U, first, step) == n \in Nat /\ first \in U /\ step \in [1..n -> [U -> U]]
Lists(h, n, U, first, step) ==
    h \in [0..n -> U] /\ h[0] = first /\ \A k \in 1..n : h[k] = step[k][h[k - 1]]

\* Applying step after step is a function of their number.
LEMMA Iterated ==
    ASSUME NEW n, NEW U, NEW first, NEW step, Steps(n, U, first, step)
    PROVE  \E h : Lists(h, n, U, first, step)
<1>0. n \in Nat /\ first \in U /\ step \in [1..n -> [U -> U]]
  BY DEF Steps
<1> DEFINE Up(k, h) == h \in [0..k -> U] /\ h[0] = first /\ \A j \in 1..k : h[j] = step[j][h[j - 1]]
           T == {k \in 0..n : \E h : Up(k, h)}
<1>1. 0 \in T
  <2> DEFINE h == [k \in 0..0 |-> first]
  <2>1. Up(0, h)
    BY <1>0
  <2> HIDE DEF Up, h
  <2> QED
    BY <1>0, <2>1
<1>2. ASSUME NEW m \in 1..n, m - 1 \in T PROVE m \in T
  <2>1. m - 1 \in 0..n /\ m \in 0..n
    BY <1>0
  <2>2. PICK g : Up(m - 1, g)
    BY <1>2
  <2> DEFINE h == [k \in 0..m |-> IF k = m THEN step[m][g[m - 1]] ELSE g[k]]
  <2>3. step[m][g[m - 1]] \in U
    BY <1>0, <2>1, <2>2
  <2>4. h \in [0..m -> U]
    BY <1>0, <2>1, <2>2, <2>3
  <2>5. h[0] = first
    BY <1>0, <2>1, <2>2
  <2>6. \A j \in 1..m : h[j] = step[j][h[j - 1]]
    BY <1>0, <2>1, <2>2
  <2>7. Up(m, h)
    BY <2>4, <2>5, <2>6
  <2> QED
    BY <2>1, <2>7
<1>3. n \in T
  <2> HIDE DEF T
  <2> QED
    BY <1>0, <1>1, <1>2, Climb
<1> QED
  BY <1>3 DEF Lists

\* At most one, counted.
LEMMA FewCounted ==
    ASSUME NEW S \in SUBSET Seats
    PROVE  Cardinality(S) <= 1 <=> Few(S)
<1>1. N \in Nat
  BY MatchAssumption
<1>2. IsFiniteSet(Seats)
  BY <1>1, FS_Interval DEF Seats
<1>3. IsFiniteSet(S) /\ Cardinality(S) \in Nat
  BY <1>2, FS_Subset, FS_CardinalityType
<1>4. Few(S) <=> S = {} \/ \E x : S = {x}
  BY DEF Few
<1>5. Cardinality(S) <= 1 <=> Cardinality(S) = 0 \/ Cardinality(S) = 1
  BY <1>3
<1>6. Cardinality(S) = 0 <=> S = {}
  BY <1>3, FS_EmptySet
<1>7. Cardinality(S) = 1 <=> \E x : S = {x}
  BY <1>3, FS_Singleton
<1> QED
  BY <1>4, <1>5, <1>6, <1>7

\* What the constants are.
LEMMA Numbers ==
    /\ N \in Nat /\ N >= 2 /\ N <= 16 /\ OUTBOX_LIMIT \in Nat /\ OUTBOX_LIMIT >= 2
    /\ SETTLE_MS \in Nat /\ SETTLE_MS # Unset /\ SETTLE_MS > 0
    /\ Seats \subseteq Nat /\ 0 \in Seats /\ 1 \in Seats
    /\ TIE \notin Seats /\ Unset \notin Seats /\ Unset # TIE
  BY MatchAssumption DEF Seats, Unset, TIE

\* The seats can be counted.
LEMMA SeatsFinite == IsFiniteSet(Seats) /\ Cardinality(Seats) = N
<1>1. N \in Nat
  BY Numbers
<1> QED
  BY <1>1, FS_Interval DEF Seats

-----------------------------------------------------------------------------
(* The relations compose                                                    *)

\* A queue that grows twice.
LEMMA GrownTwice ==
    ASSUME NEW o \in Seq(Messages), NEW p \in Seq(Messages), NEW q \in Seq(Messages),
           NEW T, NEW U, T \subseteq U, Grown(o, p, T), Grown(p, q, U),
           \A m \in T, n \in Messages : SameAlive(m, n) => n \in U
    PROVE  Grown(o, q, U)
<1>1. Len(o) \in Nat /\ Len(p) \in Nat /\ Len(q) \in Nat
  OBVIOUS
<1>2. Len(o) <= Len(p) /\ Len(p) <= Len(q)
  BY DEF Grown
<1>3. ASSUME NEW k \in 1..Len(o) PROVE q[k] = o[k] \/ SameAlive(o[k], q[k])
  <2>1. k \in 1..Len(p)
    BY <1>1, <1>2
  <2>2. p[k] = o[k] \/ SameAlive(o[k], p[k])
    BY DEF Grown
  <2>3. q[k] = p[k] \/ SameAlive(p[k], q[k])
    BY <2>1 DEF Grown
  <2> QED
    BY <2>2, <2>3 DEF SameAlive
<1>4. ASSUME NEW k \in Len(o) + 1..Len(q) PROVE q[k] \in U
  <2>1. CASE k \in Len(p) + 1..Len(q)
    BY <2>1 DEF Grown
  <2>2. CASE k \in Len(o) + 1..Len(p)
    <3>1. k \in 1..Len(p) /\ k \in 1..Len(q)
      BY <1>1, <1>2, <2>2
    <3>2. p[k] \in T
      BY <2>2 DEF Grown
    <3>3. q[k] = p[k] \/ SameAlive(p[k], q[k])
      BY <3>1 DEF Grown
    <3>4. q[k] \in Messages
      BY <3>1
    <3> QED
      BY <3>2, <3>3, <3>4
  <2> QED
    BY <1>1, <1>2, <2>1, <2>2
<1> QED
  BY <1>1, <1>2, <1>3, <1>4 DEF Grown

\* A queue grows by more than it grows by.
LEMMA GrownMore ==
    ASSUME NEW o, NEW p, NEW T, NEW U, T \subseteq U, Grown(o, p, T)
    PROVE  Grown(o, p, U)
  BY DEF Grown

\* What a call may send stays what it may send.
LEMMA NewsLast ==
    ASSUME NEW g \in Matches, NEW k \in Matches, SameRound(g, k), PhaseMoves(g, k)
    PROVE  /\ News(g) \subseteq News(k)
           /\ \A m \in News(g), n \in Messages : SameAlive(m, n) => n \in News(k)
<1>1. k.round = g.round
  BY DEF SameRound
<1>2. g.phase = "results" => k.phase = "results" /\ k.winner = g.winner
  BY DEF PhaseMoves, Before
<1> QED
  BY <1>1, <1>2 DEF News, SameAlive

\* A seat's queue in a match.
LEMMA Queued ==
    ASSUME NEW h \in Matches, NEW s \in Seats
    PROVE  h.outbox[s] \in Seq(Messages) /\ Len(h.outbox[s]) \in Nat
<1>1. h.outbox[s] \in Seq(Messages)
  BY DEF Matches
<1> QED
  BY <1>1

\* One after the other, calls move the match on.
LEMMA MovedTwice ==
    ASSUME NEW h \in Matches, NEW g, NEW k, NEW X, NEW Y, X \subseteq Y,
           Moved(h, g, X), Moved(g, k, Y), \A m \in X : m.round = h.round
    PROVE  Moved(h, k, Y)
<1>1. g \in Matches /\ k \in Matches
  BY DEF Moved
<1>2. SameRound(h, k)
  BY DEF Moved, SameRound
<1>3. Connected(k) \subseteq Connected(g) /\ Connected(g) \subseteq Connected(h)
  BY DEF Moved, Counted
<1>4. PhaseMoves(h, g) /\ PhaseMoves(g, k)
  BY DEF Moved
<1>5. PhaseMoves(h, k)
  <2>1. CASE g.phase = h.phase
    <3>1. g.winner = h.winner /\ (h.phase \in Before => g.connected = h.connected /\ g.settle = h.settle)
      BY <1>4, <2>1 DEF PhaseMoves, Before
    <3> QED
      BY <1>3, <1>4, <2>1, <3>1 DEF PhaseMoves, Before
  <2>2. CASE h.phase \in Before /\ g.phase = "aborted" /\ g.winner = h.winner
    BY <1>4, <2>2 DEF PhaseMoves, Before
  <2>3. CASE h.phase \in {"playing", "round-result"} /\ g.phase = "results"
    <3>1. k.phase = "results" /\ k.winner = g.winner
      BY <1>4, <2>3 DEF PhaseMoves, Before
    <3>2. /\ Few(Connected(g))
          /\ g.winner \in IF Connected(g) = {} THEN Connected(h) \cup {TIE} ELSE Connected(g)
      BY <1>4, <2>3 DEF PhaseMoves, Before
    <3>3. Few(Connected(k))
      BY <1>3, <3>2 DEF Few
    <3>4. k.winner \in IF Connected(k) = {} THEN Connected(h) \cup {TIE} ELSE Connected(k)
      <4>1. CASE Connected(g) = {}
        BY <1>3, <3>1, <3>2, <4>1
      <4>2. CASE Connected(g) # {}
        <5>1. g.winner \in Connected(g)
          BY <3>2, <4>2
        <5>2. Connected(k) # {} => g.winner \in Connected(k)
          BY <1>3, <3>2, <5>1 DEF Few
        <5> QED
          BY <1>3, <3>1, <5>1, <5>2
      <4> QED
        BY <4>1, <4>2
    <3> QED
      BY <2>3, <3>1, <3>3, <3>4 DEF PhaseMoves
  <2> QED
    BY <1>4, <2>1, <2>2, <2>3 DEF PhaseMoves
<1>6. Counted(h, k)
  <2>1. Counted(h, g) /\ Counted(g, k)
    BY DEF Moved
  <2>2. h.phase # "playing" => g.phase # "playing"
    BY <1>4 DEF PhaseMoves, Before
  <2>3. /\ k.alive \subseteq h.alive /\ (h.phase # "playing" => k.alive = h.alive)
        /\ k.settle \in {h.settle, SETTLE_MS} /\ (Loose(h) => Loose(k))
    BY <2>1, <2>2 DEF Counted
  <2>4. ASSUME h.phase = "playing", h.alive \subseteq Connected(h)
        PROVE  IF k.phase = "playing" THEN k.alive \subseteq Connected(k)
               ELSE k.alive \subseteq {k.winner}
    <3>1. CASE g.phase = "playing"
      BY <2>1, <2>4, <3>1 DEF Counted
    <3>2. CASE g.phase # "playing"
      <4>1. g.phase = "results"
        BY <1>4, <2>4, <3>2 DEF PhaseMoves, Before
      <4>2. k.phase = "results" /\ k.winner = g.winner
        BY <1>4, <4>1 DEF PhaseMoves, Before
      <4> QED
        BY <2>1, <2>4, <3>2, <4>2 DEF Counted
    <3> QED
      BY <3>1, <3>2
  <2> QED
    BY <1>3, <2>3, <2>4 DEF Counted
<1>7. Fed(h, k, Y)
  <2> SUFFICES ASSUME NEW s \in Connected(k)
               PROVE  Grown(h.outbox[s], k.outbox[s], Y \cup News(k))
    BY DEF Fed
  <2>1. s \in Connected(g) /\ s \in Seats
    BY <1>3 DEF Connected
  <2>2. Grown(h.outbox[s], g.outbox[s], X \cup News(g)) /\ Grown(g.outbox[s], k.outbox[s], Y \cup News(k))
    BY <2>1 DEF Moved, Fed
  <2>3. SameRound(g, k) /\ SameRound(h, g)
    BY DEF Moved
  <2>4. /\ News(g) \subseteq News(k)
        /\ \A m \in News(g), n \in Messages : SameAlive(m, n) => n \in News(k)
    BY <1>1, <1>4, <2>3, NewsLast
  <2>5. \A m \in X, n \in Messages : SameAlive(m, n) => n \in News(k)
    BY <2>3 DEF SameRound, SameAlive, News
  <2>6. /\ X \cup News(g) \subseteq Y \cup News(k)
        /\ \A m \in X \cup News(g), n \in Messages : SameAlive(m, n) => n \in Y \cup News(k)
    BY <2>4, <2>5
  <2>7. h.outbox[s] \in Seq(Messages) /\ g.outbox[s] \in Seq(Messages) /\ k.outbox[s] \in Seq(Messages)
    BY <1>1, <2>1, Queued
  <2> QED
    BY <2>2, <2>6, <2>7, GrownTwice
<1>8. Short(h, k)
  <2> SUFFICES ASSUME NEW s \in Seats
               PROVE  Len(k.outbox[s]) <= OUTBOX_LIMIT \/ Len(k.outbox[s]) <= Len(h.outbox[s])
    BY DEF Short
  <2>1. Len(h.outbox[s]) \in Nat /\ Len(g.outbox[s]) \in Nat /\ Len(k.outbox[s]) \in Nat
    BY <1>1, Queued
  <2>2. /\ Len(k.outbox[s]) <= OUTBOX_LIMIT \/ Len(k.outbox[s]) <= Len(g.outbox[s])
        /\ Len(g.outbox[s]) <= OUTBOX_LIMIT \/ Len(g.outbox[s]) <= Len(h.outbox[s])
    BY DEF Moved, Short
  <2>3. OUTBOX_LIMIT \in Nat
    BY Numbers
  <2>4. \A a, b, c, m \in Nat : (c <= m \/ c <= b) /\ (b <= m \/ b <= a) => c <= m \/ c <= a
    OBVIOUS
  <2> QED
    BY <2>1, <2>2, <2>3, <2>4
<1> QED
  BY <1>1, <1>2, <1>5, <1>6, <1>7, <1>8 DEF Moved

\* What has been sent stays sent, unless it is an ALIVE.
LEMMA SentLasts ==
    ASSUME NEW h \in Matches, NEW g \in Matches, NEW k \in Matches, NEW s \in Connected(k),
           NEW X, NEW T, Grown(h.outbox[s], g.outbox[s], T), Fed(g, k, X),
           NEW m, m.type # "ALIVE"
    PROVE  Sent(h, g, s, m) \/ Sent(g, k, s, m) => Sent(h, k, s, m)
<1>1. s \in Seats
  BY DEF Connected
<1>2. Len(h.outbox[s]) \in Nat /\ Len(g.outbox[s]) \in Nat /\ Len(k.outbox[s]) \in Nat
  BY <1>1, Queued
<1>3. Len(h.outbox[s]) <= Len(g.outbox[s]) /\ Len(g.outbox[s]) <= Len(k.outbox[s])
  BY DEF Fed, Grown
<1>4. ASSUME NEW j \in Len(h.outbox[s]) + 1..Len(g.outbox[s]), g.outbox[s][j] = m
      PROVE  Sent(h, k, s, m)
  <2>1. j \in 1..Len(g.outbox[s]) /\ j \in Len(h.outbox[s]) + 1..Len(k.outbox[s])
    BY <1>2, <1>3
  <2>2. k.outbox[s][j] = g.outbox[s][j] \/ SameAlive(g.outbox[s][j], k.outbox[s][j])
    BY <2>1 DEF Fed, Grown
  <2>3. k.outbox[s][j] = m
    BY <1>4, <2>2 DEF SameAlive
  <2> QED
    BY <2>1, <2>3 DEF Sent
<1>5. ASSUME NEW j \in Len(g.outbox[s]) + 1..Len(k.outbox[s]), k.outbox[s][j] = m
      PROVE  Sent(h, k, s, m)
  <2>1. j \in Len(h.outbox[s]) + 1..Len(k.outbox[s])
    BY <1>2, <1>3
  <2> QED
    BY <1>5, <2>1 DEF Sent
<1> QED
  BY <1>4, <1>5 DEF Sent

\* And so does the news of a forfeit.
LEMMA HeraldedTwice ==
    ASSUME NEW h \in Matches, NEW g, NEW k, NEW X, NEW Y,
           Moved(h, g, X), Moved(g, k, Y), Heralded(h, g), Heralded(g, k)
    PROVE  Heralded(h, k)
<1> SUFFICES ASSUME h.phase # "results", k.phase = "results", NEW s \in Connected(k)
             PROVE  Sent(h, k, s, FINAL(k))
  BY DEF Heralded
<1>1. g \in Matches /\ k \in Matches
  BY DEF Moved
<1>2. s \in Connected(g)
  BY DEF Moved, Counted
<1>3. Grown(h.outbox[s], g.outbox[s], X \cup News(g)) /\ Fed(g, k, Y)
  BY <1>2 DEF Moved, Fed
<1>4. FINAL(k).type # "ALIVE"
  BY DEF FINAL
<1>5. CASE g.phase = "results"
  <2>1. k.round = g.round /\ k.winner = g.winner
    BY <1>5 DEF Moved, SameRound, PhaseMoves, Before
  <2>2. FINAL(k) = FINAL(g)
    BY <2>1 DEF FINAL
  <2>3. Sent(h, g, s, FINAL(k))
    BY <1>2, <1>5, <2>2 DEF Heralded
  <2> QED
    BY <1>1, <1>3, <1>4, <2>3, SentLasts
<1>6. CASE g.phase # "results"
  <2>1. Sent(g, k, s, FINAL(k))
    BY <1>6 DEF Heralded
  <2> QED
    BY <1>1, <1>3, <1>4, <2>1, SentLasts
<1> QED
  BY <1>5, <1>6

\* Calls compose.
LEMMA OnwardTwice ==
    ASSUME NEW h \in Matches, NEW g, NEW k, NEW X, NEW Y, X \subseteq Y,
           Onward(h, g, X), Onward(g, k, Y), \A m \in X : m.round = h.round
    PROVE  Onward(h, k, Y)
<1>1. Moved(h, g, X) /\ Moved(g, k, Y) /\ Heralded(h, g) /\ Heralded(g, k)
  BY DEF Onward
<1>2. Moved(h, k, Y)
  BY <1>1, MovedTwice
<1>3. Heralded(h, k)
  BY <1>1, HeraldedTwice
<1> QED
  BY <1>2, <1>3 DEF Onward

\* A call may do nothing.
LEMMA OnwardStays ==
    ASSUME NEW h \in Matches, NEW X
    PROVE  Onward(h, h, X)
<1>1. SameRound(h, h) /\ PhaseMoves(h, h) /\ Heralded(h, h)
  BY DEF SameRound, PhaseMoves, Heralded
<1>2. Counted(h, h)
  <2>1. h.phase = "playing" \/ h.phase # "playing"
    OBVIOUS
  <2> QED
    BY <2>1 DEF Counted
<1>3. Fed(h, h, X)
  <2> SUFFICES ASSUME NEW s \in Connected(h) PROVE Grown(h.outbox[s], h.outbox[s], X \cup News(h))
    BY DEF Fed
  <2>1. Len(h.outbox[s]) \in Nat
    BY Queued DEF Connected
  <2> QED
    BY <2>1 DEF Grown
<1>4. Short(h, h)
  <2> SUFFICES ASSUME NEW s \in Seats PROVE Len(h.outbox[s]) <= Len(h.outbox[s])
    BY DEF Short
  <2> QED
    BY Queued
<1> QED
  BY <1>1, <1>2, <1>3, <1>4 DEF Onward, Moved

\* A call may send more than it does.
LEMMA OnwardMore ==
    ASSUME NEW h, NEW g, NEW X, NEW Y, X \subseteq Y, Onward(h, g, X)
    PROVE  Onward(h, g, Y)
<1>1. Fed(h, g, Y)
  <2>1. X \cup News(g) \subseteq Y \cup News(g)
    OBVIOUS
  <2> QED
    BY <2>1, GrownMore DEF Onward, Moved, Fed
<1> QED
  BY <1>1 DEF Onward, Moved

-----------------------------------------------------------------------------
(* The calls one by one                                                     *)

\* The least of some positions is one of them.
LEMMA MinIsOne ==
    ASSUME NEW S \in SUBSET Nat, S # {}
    PROVE  Min(S) \in S /\ \A k \in S : Min(S) <= k
<1>1. \E n \in S : \A k \in S : n <= k
  BY Least
<1> QED
  BY <1>1 DEF Min

\* The messages of a match can be sent.
LEMMA Sendable ==
    ASSUME NEW h \in Matches
    PROVE  /\ START(h) \in Messages /\ GO(h) \in Messages /\ ALIVE(h) \in Messages
           /\ RESULT(h) \in Messages /\ FINAL(h) \in Messages /\ ABORT(h) \in Messages
           /\ \A id \in Nat : GARBAGE(h, id) \in Messages
<1>1. h.round \in Nat /\ h.seed \in Nat /\ h.alive \in SUBSET Seats /\ h.winner \in Winners
  BY DEF Matches
<1>2. START(h) \in Messages
  BY <1>1 DEF START, Messages
<1>3. GO(h) \in Messages /\ ABORT(h) \in Messages
  BY <1>1 DEF GO, ABORT, Messages
<1>4. ALIVE(h) \in Messages
  BY <1>1 DEF ALIVE, Messages
<1>5. RESULT(h) \in Messages /\ FINAL(h) \in Messages
  BY <1>1 DEF RESULT, FINAL, Messages
<1>6. \A id \in Nat : GARBAGE(h, id) \in Messages
  BY <1>1 DEF GARBAGE, Messages
<1> QED
  BY <1>2, <1>3, <1>4, <1>5, <1>6

\* Another queue for a seat changes nothing else.
LEMMA HoldingIs ==
    ASSUME NEW h \in Matches, NEW i \in Seats, NEW seq \in Seq(Messages)
    PROVE  /\ Holding(h, i, seq) \in Matches
           /\ SameRound(h, Holding(h, i, seq))
           /\ Holding(h, i, seq).phase = h.phase /\ Holding(h, i, seq).winner = h.winner
           /\ Holding(h, i, seq).alive = h.alive /\ Holding(h, i, seq).settle = h.settle
           /\ Holding(h, i, seq).connected = h.connected
           /\ Holding(h, i, seq).outbox[i] = seq
           /\ \A s \in Seats : s # i => Holding(h, i, seq).outbox[s] = h.outbox[s]
           /\ Connected(Holding(h, i, seq)) = Connected(h)
<1> DEFINE g == [h EXCEPT !.outbox = [h.outbox EXCEPT ![i] = seq]]
<1>1. Holding(h, i, seq) = g
  BY DEF Holding
<1>2. h.outbox \in [Seats -> Seq(Messages)]
  BY DEF Matches
<1>3. [h.outbox EXCEPT ![i] = seq] \in [Seats -> Seq(Messages)]
  BY <1>2
<1>4. g \in Matches
  BY <1>3 DEF Matches
<1>5. /\ g.phase = h.phase /\ g.winner = h.winner /\ g.alive = h.alive /\ g.settle = h.settle
      /\ g.connected = h.connected /\ g.outbox = [h.outbox EXCEPT ![i] = seq]
      /\ SameRound(h, g)
  BY DEF Matches, SameRound
<1>6. g.outbox[i] = seq /\ \A s \in Seats : s # i => g.outbox[s] = h.outbox[s]
  BY <1>2, <1>5
<1>7. Connected(g) = Connected(h)
  BY <1>5 DEF Connected
<1> HIDE DEF g
<1> QED
  BY <1>1, <1>4, <1>5, <1>6, <1>7

\* A longer queue for a seat is a step of a call.
LEMMA HoldingOnward ==
    ASSUME NEW h \in Matches, NEW i \in Seats, NEW seq \in Seq(Messages), NEW X,
           Grown(h.outbox[i], seq, X),
           Len(seq) <= OUTBOX_LIMIT \/ Len(seq) <= Len(h.outbox[i])
    PROVE  Onward(h, Holding(h, i, seq), X)
<1> DEFINE g == Holding(h, i, seq)
<1>1. /\ g \in Matches /\ SameRound(h, g) /\ g.phase = h.phase /\ g.winner = h.winner
      /\ g.alive = h.alive /\ g.settle = h.settle /\ g.connected = h.connected
      /\ g.outbox[i] = seq /\ \A s \in Seats : s # i => g.outbox[s] = h.outbox[s]
      /\ Connected(g) = Connected(h)
  BY HoldingIs
<1> HIDE DEF g
<1>2. Onward(h, h, X)
  BY OnwardStays
<1>3. PhaseMoves(h, g) /\ Heralded(h, g)
  BY <1>1 DEF PhaseMoves, Heralded
<1>4. Counted(h, g)
  BY <1>1 DEF Counted, Loose
<1>5. Fed(h, g, X)
  <2> SUFFICES ASSUME NEW s \in Connected(h) PROVE Grown(h.outbox[s], g.outbox[s], X \cup News(g))
    BY <1>1 DEF Fed
  <2>1. CASE s = i
    <3>1. X \subseteq X \cup News(g)
      OBVIOUS
    <3> QED
      BY <1>1, <2>1, <3>1, GrownMore
  <2>2. CASE s # i
    <3>1. s \in Seats
      BY DEF Connected
    <3>2. g.outbox[s] = h.outbox[s] /\ Len(h.outbox[s]) \in Nat
      BY <1>1, <2>2, <3>1, Queued
    <3> QED
      BY <3>2 DEF Grown
  <2> QED
    BY <2>1, <2>2
<1>6. Short(h, g)
  <2> SUFFICES ASSUME NEW s \in Seats
               PROVE  Len(g.outbox[s]) <= OUTBOX_LIMIT \/ Len(g.outbox[s]) <= Len(h.outbox[s])
    BY DEF Short
  <2>1. s # i => g.outbox[s] = h.outbox[s] /\ Len(h.outbox[s]) \in Nat
    BY <1>1, Queued
  <2> QED
    BY <1>1, <2>1
<1>7. (Two(h) => Two(g)) /\ (Armed(h) => Armed(g))
  BY <1>1 DEF Two, Armed
<1> QED
  BY <1>1, <1>3, <1>4, <1>5, <1>6, <1>7 DEF Onward, Moved, g

\* A message for one seat.
LEMMA QueueOnward ==
    ASSUME NEW D, NEW d \in Nat, Droppable(D, d), NEW h \in Matches, Breadth(h) <= d, NEW i \in Seats,
           NEW msg \in Messages, msg.round = h.round,
           NEW g, g = Queue(D, h, i, msg)
    PROVE  /\ Onward(h, g, {msg})
           /\ msg.type # "ALIVE" /\ i \in Connected(g) => Sent(h, g, i, msg)
<1> DEFINE held == h.outbox[i]
           old == Replaced(held, msg)
<1>1. held \in Seq(Messages) /\ Len(held) \in Nat /\ DOMAIN held = 1..Len(held)
  BY Queued
<1>2. CASE ~h.connected[i]
  <2>1. g = h
    BY <1>2 DEF Queue
  <2>2. i \notin Connected(g)
    BY <1>2, <2>1 DEF Connected
  <2> QED
    BY <2>1, <2>2, OnwardStays
<1>3. CASE h.connected[i] /\ old # {}
  <2> DEFINE k == Min(old)
             seq == [held EXCEPT ![k] = msg]
  <2>1. g = Holding(h, i, seq)
    BY <1>3 DEF Queue
  <2>2. old \in SUBSET Nat /\ old \subseteq DOMAIN held
    BY <1>1 DEF Replaced
  <2>3. k \in old
    <3> HIDE DEF old
    <3> QED
      BY <1>3, <2>2, MinIsOne
  <2>4. k \in 1..Len(held) /\ msg.type = "ALIVE" /\ held[k].type = "ALIVE" /\ held[k].round = msg.round
    BY <1>1, <2>3 DEF Replaced
  <2> HIDE DEF k
  <2>5. seq \in Seq(Messages) /\ Len(seq) = Len(held) /\ seq[k] = msg /\ \A j \in 1..Len(held) : j # k => seq[j] = held[j]
    BY <1>1, <2>4
  <2> HIDE DEF seq
  <2>6. Grown(held, seq, {msg})
    <3>1. ASSUME NEW j \in 1..Len(held) PROVE seq[j] = held[j] \/ SameAlive(held[j], seq[j])
      <4>1. CASE j = k
        BY <2>4, <2>5, <4>1 DEF SameAlive
      <4>2. CASE j # k
        BY <2>5, <4>2
      <4> QED
        BY <4>1, <4>2
    <3>2. Len(held) <= Len(seq) /\ \A j \in Len(held) + 1..Len(seq) : seq[j] \in {msg}
      BY <1>1, <2>5
    <3> QED
      BY <3>1, <3>2 DEF Grown
  <2>7. Len(seq) <= Len(held)
    BY <1>1, <2>5
  <2> HIDE DEF held
  <2>8. Onward(h, g, {msg})
    BY <2>1, <2>5, <2>6, <2>7, HoldingOnward DEF held
  <2> QED
    BY <2>4, <2>8
<1>4. CASE h.connected[i] /\ old = {} /\ Len(held) >= OUTBOX_LIMIT
  <2>1. g = D[<<h, i>>]
    BY <1>4 DEF Queue
  <2>2. Onward(h, g, {})
    BY <2>1 DEF Droppable
  <2>3. Onward(h, g, {msg})
    BY <2>2, OnwardMore
  <2>4. i \notin Connected(g)
    BY <2>1 DEF Droppable
  <2> QED
    BY <2>3, <2>4
<1>5. CASE h.connected[i] /\ old = {} /\ ~(Len(held) >= OUTBOX_LIMIT)
  <2> DEFINE seq == Append(held, msg)
  <2>1. g = Holding(h, i, seq)
    BY <1>5 DEF Queue
  <2>2. /\ seq \in Seq(Messages) /\ Len(seq) = Len(held) + 1 /\ seq[Len(held) + 1] = msg
        /\ \A j \in 1..Len(held) : seq[j] = held[j]
    BY <1>1
  <2> HIDE DEF seq
  <2>3. Grown(held, seq, {msg})
    <3>1. \A j \in Len(held) + 1..Len(seq) : seq[j] \in {msg}
      BY <1>1, <2>2
    <3>2. Len(held) <= Len(seq)
      BY <1>1, <2>2
    <3> QED
      BY <2>2, <3>1, <3>2 DEF Grown
  <2>4. Len(seq) <= OUTBOX_LIMIT
    BY <1>1, <1>5, <2>2, Numbers
  <2> HIDE DEF held
  <2>5. Onward(h, g, {msg})
    BY <2>1, <2>2, <2>3, <2>4, HoldingOnward DEF held
  <2>6. Sent(h, g, i, msg)
    <3>1. g.outbox[i] = seq
      BY <2>1, <2>2, HoldingIs
    <3>2. Len(held) + 1 \in Len(held) + 1..Len(seq)
      BY <1>1, <2>2
    <3> QED
      BY <2>2, <3>1, <3>2 DEF Sent, held
  <2> QED
    BY <2>5, <2>6
<1>6. \/ ~h.connected[i] \/ (h.connected[i] /\ old # {})
      \/ (h.connected[i] /\ old = {} /\ Len(held) >= OUTBOX_LIMIT)
      \/ (h.connected[i] /\ old = {} /\ ~(Len(held) >= OUTBOX_LIMIT))
  OBVIOUS
<1> HIDE DEF old, held
<1> QED
  BY <1>2, <1>3, <1>4, <1>5, <1>6


\* No call connects anybody.
LEMMA Narrower ==
    ASSUME NEW h \in Matches, NEW g, NEW X, Moved(h, g, X)
    PROVE  Breadth(h) \in 0..N /\ Breadth(g) \in Nat /\ Breadth(g) <= Breadth(h)
<1>1. Connected(g) \subseteq Connected(h) /\ Connected(h) \subseteq Seats
  BY DEF Moved, Counted, Connected
<1>2. N \in Nat
  BY Numbers
<1>3. IsFiniteSet(Seats) /\ Cardinality(Seats) = N
  BY <1>2, FS_Interval DEF Seats
<1>4. /\ IsFiniteSet(Connected(h)) /\ Cardinality(Connected(h)) <= N
      /\ Cardinality(Connected(h)) \in Nat
  BY <1>1, <1>3, FS_Subset, FS_CardinalityType
<1>5. Cardinality(Connected(g)) \in Nat /\ Cardinality(Connected(g)) <= Cardinality(Connected(h))
  BY <1>1, <1>4, FS_Subset, FS_CardinalityType
<1> QED
  BY <1>2, <1>4, <1>5 DEF Breadth

\* What Broadcast's loop does from one seat to the next.
LEMMA BroadcastLoop ==
    ASSUME NEW D, NEW d \in Nat, Droppable(D, d), NEW h \in Matches, Breadth(h) <= d, NEW msg \in Messages, msg.round = h.round
    PROVE  \E told : /\ told[0] = h
                     /\ \A k \in 0..N : told[k] \in Matches /\ told[k].round = h.round
                                         /\ Breadth(told[k]) <= d
                     /\ \A k \in 1..N : told[k] = Queue(D, told[k - 1], k - 1, msg)
                     /\ Broadcast(D, h, msg) = told[N]
<1> DEFINE U == {g \in Matches : g.round = h.round /\ Breadth(g) <= d}
           step == [k \in 1..N |-> [g \in U |-> Queue(D, g, k - 1, msg)]]
<1>1. N \in Nat
  BY Numbers
<1>2. ASSUME NEW k \in 1..N, NEW g \in U PROVE Queue(D, g, k - 1, msg) \in U
  <2>1. k - 1 \in Seats
    BY <1>1 DEF Seats
  <2> DEFINE q == Queue(D, g, k - 1, msg)
  <2>2. Onward(g, q, {msg})
    <3>1. msg.round = g.round
      OBVIOUS
    <3> QED
      BY <2>1, <3>1, QueueOnward
  <2> HIDE DEF q
  <2>3. q \in Matches /\ q.round = g.round
    BY <2>2 DEF Onward, Moved, SameRound
  <2>4. Breadth(g) \in Nat /\ Breadth(q) \in Nat /\ Breadth(q) <= Breadth(g) /\ Breadth(g) <= d
    BY <1>1, <2>2, Narrower DEF Onward
  <2>5. Breadth(q) <= d
    BY <2>4
  <2> QED
    BY <2>3, <2>5 DEF q
<1>3. step \in [1..N -> [U -> U]]
  <2> HIDE DEF U
  <2> QED
    BY <1>2
<1>4. h \in U
  OBVIOUS
<1>5. Steps(N, U, h, step)
  <2> HIDE DEF U, step
  <2> QED
    BY <1>1, <1>3, <1>4 DEF Steps
<1>6. PICK told : Lists(told, N, U, h, step)
  <2> HIDE DEF U, step
  <2> QED
    BY <1>5, Iterated
<1>7. /\ told \in [0..N -> U] /\ told[0] = h
      /\ \A k \in 1..N : told[k] = Queue(D, told[k - 1], k - 1, msg)
  <2>1. told \in [0..N -> U] /\ told[0] = h /\ \A k \in 1..N : told[k] = step[k][told[k - 1]]
    BY <1>6 DEF Lists
  <2>2. ASSUME NEW k \in 1..N PROVE told[k] = Queue(D, told[k - 1], k - 1, msg)
    <3>1. k - 1 \in 0..N
      BY <1>1
    <3>2. told[k - 1] \in U
      BY <2>1, <3>1
    <3> HIDE DEF U
    <3> QED
      BY <2>1, <3>2
  <2> QED
    BY <2>1, <2>2
<1> DEFINE Body(f) == [k \in 0..N |-> IF k = 0 THEN h ELSE Queue(D, f[k - 1], k - 1, msg)]
<1>8. told = Body(told)
  <2>1. \A k \in 0..N : k = 0 \/ k \in 1..N
    BY <1>1
  <2> HIDE DEF U
  <2> QED
    BY <1>7, <2>1
<1>9. \A f : f = Body(f) => f[N] = told[N]
  <2> SUFFICES ASSUME NEW f, f = Body(f) PROVE f[N] = told[N]
    OBVIOUS
  <2> DEFINE T == {k \in 0..N : f[k] = told[k]}
  <2>1. 0 \in T
    <3>1. 0 \in 0..N
      BY <1>1
    <3>2. f[0] = Body(f)[0]
      OBVIOUS
    <3> QED
      BY <1>7, <3>1, <3>2
  <2>2. ASSUME NEW k \in 1..N, k - 1 \in T PROVE k \in T
    <3>1. k \in 0..N /\ k # 0
      BY <1>1
    <3>2. f[k] = Body(f)[k]
      OBVIOUS
    <3>3. f[k] = Queue(D, f[k - 1], k - 1, msg)
      BY <3>1, <3>2
    <3> QED
      BY <1>7, <2>2, <3>1, <3>3
  <2>3. N \in T
    <3> HIDE DEF T
    <3> QED
      BY <1>1, <2>1, <2>2, Climb
  <2> QED
    BY <2>3
<1>10. Broadcast(D, h, msg) = (CHOOSE f : f = Body(f))[N]
  BY DEF Broadcast
<1>11. Broadcast(D, h, msg) = told[N]
  <2> HIDE DEF Body
  <2> QED
    BY <1>8, <1>9, <1>10
<1>12. \A k \in 0..N : told[k] \in Matches /\ told[k].round = h.round /\ Breadth(told[k]) <= d
  <2>1. \A k \in 0..N : told[k] \in U
    BY <1>7
  <2> QED
    BY <2>1
<1> QED
  BY <1>7, <1>11, <1>12

\* A message for everybody.
LEMMA BroadcastOnward ==
    ASSUME NEW D, NEW d \in Nat, Droppable(D, d), NEW h \in Matches, Breadth(h) <= d,
           NEW msg \in Messages, msg.round = h.round,
           NEW g, g = Broadcast(D, h, msg)
    PROVE  /\ Onward(h, g, {msg})
           /\ msg.type # "ALIVE" => \A s \in Connected(g) : Sent(h, g, s, msg)
<1>1. N \in Nat
  BY Numbers
<1>2. PICK told : /\ told[0] = h
                  /\ \A k \in 0..N : told[k] \in Matches /\ told[k].round = h.round
                                      /\ Breadth(told[k]) <= d
                  /\ \A k \in 1..N : told[k] = Queue(D, told[k - 1], k - 1, msg)
                  /\ Broadcast(D, h, msg) = told[N]
  BY BroadcastLoop
<1> DEFINE Far(k) == /\ Onward(h, told[k], {msg})
                     /\ msg.type # "ALIVE" =>
                           \A s \in Connected(told[k]) : s < k => Sent(h, told[k], s, msg)
           T == {k \in 0..N : Far(k)}
<1>3. 0 \in T
  <2>1. Onward(h, told[0], {msg})
    BY <1>2, OnwardStays
  <2>2. \A s \in Connected(told[0]) : ~ s < 0
    <3>1. \A s \in Nat : ~ s < 0
      OBVIOUS
    <3>2. Connected(told[0]) \subseteq Nat
      BY Numbers DEF Connected
    <3> QED
      BY <3>1, <3>2
  <2> QED
    BY <1>1, <2>1, <2>2
<1>4. ASSUME NEW k \in 1..N, k - 1 \in T PROVE k \in T
  <2> DEFINE p == told[k - 1]
             q == told[k]
  <2>1. k - 1 \in 0..N /\ k \in 0..N /\ k - 1 \in Seats
    BY <1>1 DEF Seats
  <2>2. p \in Matches /\ q \in Matches /\ msg.round = p.round /\ Breadth(p) <= d
    BY <1>2, <2>1
  <2>3. q = Queue(D, p, k - 1, msg)
    BY <1>2
  <2>4. Far(k - 1)
    BY <1>4
  <2> HIDE DEF p, q
  <2>5. Onward(p, q, {msg}) /\ (msg.type # "ALIVE" /\ k - 1 \in Connected(q) => Sent(p, q, k - 1, msg))
    BY <2>1, <2>2, <2>3, QueueOnward
  <2>6. Onward(h, p, {msg})
    BY <2>4 DEF p
  <2>7. Onward(h, q, {msg})
    BY <2>5, <2>6, OnwardTwice
  <2>8. ASSUME msg.type # "ALIVE", NEW s \in Connected(q), s < k PROVE Sent(h, q, s, msg)
    <3>1. s \in Connected(p) /\ s \in Seats /\ s \in Nat
      BY <2>5, Numbers DEF Onward, Moved, Counted, Connected
    <3>2. Grown(h.outbox[s], p.outbox[s], {msg} \cup News(p)) /\ Fed(p, q, {msg})
      BY <2>5, <2>6, <3>1 DEF Onward, Moved, Fed
    <3>3. Sent(h, p, s, msg) \/ Sent(p, q, s, msg)
      <4>1. CASE s < k - 1
        BY <2>4, <2>8, <3>1, <4>1 DEF p
      <4>2. CASE s = k - 1
        BY <2>5, <2>8, <4>2
      <4> QED
        BY <2>8, <3>1, <4>1, <4>2
    <3> QED
      BY <2>2, <2>8, <3>2, <3>3, SentLasts
  <2>9. Far(k)
    BY <2>7, <2>8 DEF q
  <2> QED
    BY <2>1, <2>9
<1>5. N \in T
  <2> HIDE DEF T
  <2> QED
    BY <1>1, <1>3, <1>4, Climb
<1>6. Far(N) /\ g = told[N]
  BY <1>2, <1>5
<1>7. \A s \in Connected(g) : s < N
  BY <1>1 DEF Connected, Seats
<1> QED
  BY <1>6, <1>7

\* The match is given up.
LEMMA AbortMoves ==
    ASSUME NEW D, NEW d \in Nat, Droppable(D, d), NEW h \in Matches, Breadth(h) <= d,
           h.phase \in Before \cup {"round-result"}, NEW g, g = Abort(D, h)
    PROVE  /\ g \in Matches /\ SameRound(h, g) /\ Fed(h, g, {}) /\ Short(h, g)
           /\ g.phase = "aborted" /\ g.winner = h.winner /\ g.alive = h.alive
           /\ g.settle \in {h.settle, SETTLE_MS} /\ (Loose(h) => Loose(g))
           /\ (Armed(h) => Armed(g)) /\ Connected(g) \subseteq Connected(h)
<1> DEFINE m == [h EXCEPT !.phase = "aborted"]
<1>1. m \in Matches
  BY DEF Matches, Phases
<1>2. /\ SameRound(h, m) /\ m.phase = "aborted" /\ m.winner = h.winner /\ m.alive = h.alive
      /\ m.settle = h.settle /\ m.connected = h.connected /\ m.outbox = h.outbox
  BY DEF Matches, SameRound
<1>3. g = Broadcast(D, m, ABORT(m))
  BY DEF Abort, Before
<1> HIDE DEF m
<1>4. ABORT(m) \in Messages /\ ABORT(m).round = m.round /\ ABORT(m).type = "ABORT"
  BY <1>1, Sendable DEF ABORT
<1>5. Connected(m) = Connected(h) /\ Breadth(m) <= d
  BY <1>2 DEF Connected, Breadth
<1>6. Onward(m, g, {ABORT(m)})
  <2> DEFINE msg == ABORT(m)
  <2> HIDE DEF msg
  <2>1. msg \in Messages /\ msg.round = m.round /\ g = Broadcast(D, m, msg)
    BY <1>3, <1>4 DEF msg
  <2>2. Onward(m, g, {msg})
    BY <1>1, <1>5, <2>1, BroadcastOnward
  <2> QED
    BY <2>2 DEF msg
<1>7. g \in Matches /\ SameRound(m, g) /\ PhaseMoves(m, g) /\ Counted(m, g) /\ Short(m, g)
  BY <1>6 DEF Onward, Moved
<1>8. g.phase = "aborted" /\ g.winner = m.winner
  BY <1>2, <1>7 DEF PhaseMoves, Before
<1>9. SameRound(h, g)
  BY <1>2, <1>7 DEF SameRound
<1>10. Fed(h, g, {})
  <2> SUFFICES ASSUME NEW s \in Connected(g) PROVE Grown(h.outbox[s], g.outbox[s], {} \cup News(g))
    BY DEF Fed
  <2>1. ABORT(m) \in News(g)
    BY <1>4, <1>7 DEF News, SameRound
  <2>2. {ABORT(m)} \cup News(g) \subseteq {} \cup News(g)
    BY <2>1
  <2>3. Grown(h.outbox[s], g.outbox[s], {ABORT(m)} \cup News(g))
    BY <1>2, <1>6 DEF Onward, Moved, Fed
  <2> QED
    BY <2>2, <2>3, GrownMore
<1>11. Short(h, g)
  BY <1>2, <1>7 DEF Short
<1>12. Armed(h) => Armed(g)
  BY <1>2, <1>6 DEF Onward, Armed
<1>13. /\ g.alive = h.alive /\ g.settle \in {h.settle, SETTLE_MS} /\ (Loose(h) => Loose(g))
       /\ Connected(g) \subseteq Connected(h)
  <2>1. Loose(h) => Loose(m)
    BY <1>2 DEF Loose
  <2> QED
    BY <1>2, <1>5, <1>7, <2>1 DEF Counted
<1> QED
  BY <1>2, <1>7, <1>8, <1>9, <1>10, <1>11, <1>12, <1>13

\* A living seat is counted out.
LEMMA EliminateMoves ==
    ASSUME NEW D, NEW d \in Nat, Droppable(D, d), NEW h \in Matches, Breadth(h) <= d,
           NEW i \in h.alive, h.phase = "playing",
           NEW g, g = Eliminate(D, h, i)
    PROVE  /\ g \in Matches /\ SameRound(h, g) /\ Fed(h, g, {}) /\ Short(h, g) /\ Heralded(h, g)
           /\ PhaseMoves(h, g) /\ Connected(g) \subseteq Connected(h)
           /\ g.alive \subseteq h.alive \ {i} /\ g.settle \in {h.settle, SETTLE_MS}
           /\ h.alive \ {i} \subseteq Connected(h) =>
                 IF g.phase = "playing" THEN g.alive \subseteq Connected(g)
                 ELSE g.alive \subseteq {g.winner}
           /\ (Loose(h) => Armed(g)) /\ (Two(h) => Two(g))
<1> DEFINE dead == [h EXCEPT !.alive = h.alive \ {i}]
           b == Broadcast(D, dead, ALIVE(dead))
<1>1. dead \in Matches
  BY DEF Matches
<1>2. /\ SameRound(h, dead) /\ dead.phase = "playing" /\ dead.winner = h.winner
      /\ dead.alive = h.alive \ {i} /\ dead.settle = h.settle /\ dead.connected = h.connected
      /\ dead.outbox = h.outbox
  BY DEF Matches, SameRound
<1>3. g = IF Cardinality(b.alive) <= 1 /\ b.settle = Unset THEN [b EXCEPT !.settle = SETTLE_MS] ELSE b
  BY DEF Eliminate
<1> HIDE DEF dead
<1>4. ALIVE(dead) \in Messages /\ ALIVE(dead).round = dead.round /\ ALIVE(dead).type = "ALIVE"
  BY <1>1, Sendable DEF ALIVE
<1>5. Connected(dead) = Connected(h) /\ Breadth(dead) <= d
  BY <1>2 DEF Connected, Breadth
<1>6. Onward(dead, b, {ALIVE(dead)})
  <2> DEFINE msg == ALIVE(dead)
  <2> HIDE DEF msg, b
  <2>1. msg \in Messages /\ msg.round = dead.round /\ b = Broadcast(D, dead, msg)
    BY <1>4 DEF msg, b
  <2>2. Onward(dead, b, {msg})
    BY <1>1, <1>5, <2>1, BroadcastOnward
  <2> QED
    BY <2>2 DEF msg
<1> HIDE DEF b
<1>7. /\ b \in Matches /\ SameRound(dead, b) /\ PhaseMoves(dead, b) /\ Counted(dead, b)
      /\ Short(dead, b) /\ Heralded(dead, b) /\ (Two(dead) => Two(b))
  BY <1>6 DEF Onward, Moved
<1>8. /\ g \in Matches /\ SameRound(b, g) /\ g.phase = b.phase /\ g.winner = b.winner
      /\ g.alive = b.alive /\ g.connected = b.connected /\ g.outbox = b.outbox
      /\ g.settle = IF Cardinality(b.alive) <= 1 /\ b.settle = Unset THEN SETTLE_MS ELSE b.settle
  <2>1. CASE Cardinality(b.alive) <= 1 /\ b.settle = Unset
    <3>1. g = [b EXCEPT !.settle = SETTLE_MS]
      BY <1>3, <2>1
    <3>2. SETTLE_MS \in Int
      BY Numbers
    <3>3. g \in Matches
      BY <1>7, <3>1, <3>2 DEF Matches
    <3> QED
      BY <1>7, <2>1, <3>1, <3>3 DEF Matches, SameRound
  <2>2. CASE ~(Cardinality(b.alive) <= 1 /\ b.settle = Unset)
    <3>1. g = b
      BY <1>3, <2>2
    <3> QED
      BY <1>7, <2>2, <3>1 DEF SameRound
  <2> QED
    BY <2>1, <2>2
<1>9. Connected(g) = Connected(b) /\ FINAL(g) = FINAL(b) /\ News(g) = News(b)
  BY <1>8 DEF Connected, FINAL, News, SameRound
<1>10. SameRound(h, g)
  BY <1>2, <1>7, <1>8 DEF SameRound
<1>11. Fed(h, g, {})
  <2> SUFFICES ASSUME NEW s \in Connected(b) PROVE Grown(h.outbox[s], b.outbox[s], {} \cup News(b))
    BY <1>8, <1>9 DEF Fed
  <2>1. ALIVE(dead) \in News(b)
    BY <1>4, <1>7 DEF News, SameRound
  <2>2. {ALIVE(dead)} \cup News(b) \subseteq {} \cup News(b)
    BY <2>1
  <2>3. Grown(h.outbox[s], b.outbox[s], {ALIVE(dead)} \cup News(b))
    BY <1>2, <1>6 DEF Onward, Moved, Fed
  <2> QED
    BY <2>2, <2>3, GrownMore
<1>12. Short(h, g)
  BY <1>2, <1>7, <1>8 DEF Short
<1>13. Heralded(h, g)
  BY <1>2, <1>7, <1>8, <1>9 DEF Heralded, Sent
<1>14. PhaseMoves(h, g)
  BY <1>2, <1>5, <1>7, <1>8, <1>9 DEF PhaseMoves, Before
<1>15. /\ Connected(g) \subseteq Connected(h) /\ g.alive \subseteq h.alive \ {i}
       /\ g.settle \in {h.settle, SETTLE_MS}
  BY <1>2, <1>5, <1>7, <1>8, <1>9 DEF Counted
<1>16. ASSUME h.alive \ {i} \subseteq Connected(h)
       PROVE  IF g.phase = "playing" THEN g.alive \subseteq Connected(g) ELSE g.alive \subseteq {g.winner}
  <2>1. dead.alive \subseteq Connected(dead)
    BY <1>2, <1>5, <1>16
  <2>2. IF b.phase = "playing" THEN b.alive \subseteq Connected(b) ELSE b.alive \subseteq {b.winner}
    BY <1>2, <1>7, <2>1 DEF Counted
  <2> QED
    BY <1>8, <1>9, <2>2
<1>17. ASSUME Loose(h) PROVE Armed(g)
  <2>1. Loose(dead)
    BY <1>2, <1>17 DEF Loose, Few
  <2>2. Loose(b)
    BY <1>7, <2>1 DEF Counted
  <2>3. b.alive \in SUBSET Seats
    BY <1>7 DEF Matches
  <2>4. Cardinality(b.alive) <= 1 <=> Few(b.alive)
    BY <2>3, FewCounted
  <2> QED
    BY <1>8, <2>2, <2>4, Numbers DEF Loose, Armed
<1>18. Two(h) => Two(g)
  <2>1. Two(h) => Two(dead)
    BY <1>2, <1>5 DEF Two
  <2>2. Two(b) => Two(g)
    BY <1>8, <1>9 DEF Two
  <2> QED
    BY <1>7, <2>1, <2>2
<1> QED
  BY <1>8, <1>10, <1>11, <1>12, <1>13, <1>14, <1>15, <1>16, <1>17, <1>18

\* The forfeit, if it comes to that.
LEMMA ForfeitMoves ==
    ASSUME NEW D, NEW d \in Nat, Droppable(D, d), NEW h \in Matches, Breadth(h) <= d,
           h.phase \notin Before, NEW g, g = ForfeitCheck(D, h)
    PROVE  Onward(h, g, {}) /\ Two(g)
<1>1. Connected(h) \in SUBSET Seats
  BY DEF Connected
<1>2. Cardinality(Connected(h)) <= 1 <=> Few(Connected(h))
  BY <1>1, FewCounted
<1>3. CASE ~(h.phase \in {"playing", "round-result"} /\ Few(Connected(h)))
  <2>1. g = h
    BY <1>2, <1>3 DEF ForfeitCheck
  <2>2. Two(g)
    BY <1>3, <2>1 DEF Two
  <2> QED
    BY <2>1, <2>2, OnwardStays
<1>4. CASE h.phase \in {"playing", "round-result"} /\ Few(Connected(h))
  <2> DEFINE w == OnlyConnected(h)
             f == [h EXCEPT !.phase = "results", !.winner = w]
  <2>1. w \in IF Connected(h) = {} THEN {TIE} ELSE Connected(h)
    BY DEF OnlyConnected
  <2>2. w \in Winners
    BY <1>1, <2>1 DEF Winners
  <2> HIDE DEF w
  <2>3. f \in Matches
    BY <2>2 DEF Matches, Phases
  <2>4. /\ SameRound(h, f) /\ f.phase = "results" /\ f.winner = w /\ f.alive = h.alive
        /\ f.settle = h.settle /\ f.connected = h.connected /\ f.outbox = h.outbox
    BY DEF Matches, SameRound
  <2>5. g = Broadcast(D, f, FINAL(f))
    BY <1>2, <1>4 DEF ForfeitCheck, w
  <2> HIDE DEF f
  <2>6. /\ FINAL(f) \in Messages /\ FINAL(f).round = f.round /\ FINAL(f).type = "FINAL"
        /\ FINAL(f).winner = f.winner
    BY <2>3, Sendable DEF FINAL
  <2>7. Connected(f) = Connected(h) /\ Breadth(f) <= d
    BY <2>4 DEF Connected, Breadth
  <2>8. Onward(f, g, {FINAL(f)}) /\ \A s \in Connected(g) : Sent(f, g, s, FINAL(f))
    <3> DEFINE msg == FINAL(f)
    <3> HIDE DEF msg
    <3>1. msg \in Messages /\ msg.round = f.round /\ msg.type # "ALIVE" /\ g = Broadcast(D, f, msg)
      BY <2>5, <2>6 DEF msg
    <3>2. Onward(f, g, {msg}) /\ \A s \in Connected(g) : Sent(f, g, s, msg)
      BY <2>3, <2>7, <3>1, BroadcastOnward
    <3> QED
      BY <3>2 DEF msg
  <2>9. g \in Matches /\ SameRound(f, g) /\ PhaseMoves(f, g) /\ Counted(f, g) /\ Short(f, g)
    BY <2>8 DEF Onward, Moved
  <2>10. g.phase = "results" /\ g.winner = w
    BY <2>4, <2>9 DEF PhaseMoves, Before
  <2>11. Connected(g) \subseteq Connected(h) /\ g.alive = h.alive /\ g.settle \in {h.settle, SETTLE_MS}
    BY <2>4, <2>7, <2>9 DEF Counted
  <2>12. SameRound(h, g)
    BY <2>4, <2>9 DEF SameRound
  <2>13. PhaseMoves(h, g)
    <3>1. Few(Connected(g))
      BY <1>4, <2>11 DEF Few
    <3>2. g.winner \in IF Connected(g) = {} THEN Connected(h) \cup {TIE} ELSE Connected(g)
      <4>1. CASE Connected(h) = {}
        BY <2>1, <2>10, <2>11, <4>1
      <4>2. CASE Connected(h) # {}
        <5>1. w \in Connected(h)
          BY <2>1, <4>2
        <5>2. Connected(g) # {} => w \in Connected(g)
          BY <1>4, <2>11, <5>1 DEF Few
        <5> QED
          BY <2>10, <5>1, <5>2
      <4> QED
        BY <4>1, <4>2
    <3> QED
      BY <1>4, <2>10, <3>1, <3>2 DEF PhaseMoves
  <2>14. Counted(h, g)
    <3>1. h.alive \subseteq Connected(h) => g.alive \subseteq {g.winner}
      BY <1>4, <2>1, <2>10, <2>11 DEF Few
    <3>2. Loose(h) => Loose(g)
      <4>1. Loose(h) => Loose(f)
        BY <2>4 DEF Loose
      <4> QED
        BY <2>9, <4>1 DEF Counted
    <3> QED
      BY <2>10, <2>11, <3>1, <3>2 DEF Counted
  <2>15. Fed(h, g, {})
    <3> SUFFICES ASSUME NEW s \in Connected(g) PROVE Grown(h.outbox[s], g.outbox[s], {} \cup News(g))
      BY DEF Fed
    <3>1. FINAL(f) \in News(g)
      BY <2>4, <2>6, <2>9, <2>10 DEF News, SameRound
    <3>2. {FINAL(f)} \cup News(g) \subseteq {} \cup News(g)
      BY <3>1
    <3>3. Grown(h.outbox[s], g.outbox[s], {FINAL(f)} \cup News(g))
      BY <2>4, <2>8 DEF Onward, Moved, Fed
    <3> QED
      BY <3>2, <3>3, GrownMore
  <2>16. Short(h, g)
    BY <2>4, <2>9 DEF Short
  <2>17. Heralded(h, g)
    <3>1. FINAL(g) = FINAL(f)
      BY <2>4, <2>9, <2>10 DEF FINAL, SameRound
    <3> QED
      BY <2>4, <2>8, <3>1 DEF Heralded, Sent
  <2>18. Armed(h) => Armed(g)
    <3>1. Armed(h) => Armed(f)
      BY <2>4 DEF Armed
    <3> QED
      BY <2>8, <3>1 DEF Onward
  <2>19. Two(g)
    BY <2>10 DEF Two
  <2> QED
    BY <2>9, <2>12, <2>13, <2>14, <2>15, <2>16, <2>17, <2>18, <2>19 DEF Onward, Moved
<1> QED
  BY <1>3, <1>4

\* A seat is struck from the match, before anybody is told.
LEMMA Struck ==
    ASSUME NEW h \in Matches, NEW i \in Seats, h.connected[i],
           NEW g, g = Unseated(h, i)
    PROVE  /\ g \in Matches /\ SameRound(h, g)
           /\ g.phase = h.phase /\ g.winner = h.winner /\ g.alive = h.alive /\ g.settle = h.settle
           /\ Connected(g) = Connected(h) \ {i} /\ g.outbox[i] = <<>>
           /\ \A s \in Seats : s # i => g.outbox[s] = h.outbox[s]
           /\ Breadth(g) \in Nat /\ Breadth(h) = Breadth(g) + 1
<1> DEFINE c == [h.connected EXCEPT ![i] = FALSE]
           o == [h.outbox EXCEPT ![i] = <<>>]
<1>1. g = [[h EXCEPT !.connected = c] EXCEPT !.outbox = o]
  BY DEF Unseated
<1>2. h.connected \in [Seats -> BOOLEAN] /\ h.outbox \in [Seats -> Seq(Messages)]
  BY DEF Matches
<1>3. c \in [Seats -> BOOLEAN] /\ c[i] = FALSE /\ \A s \in Seats : s # i => c[s] = h.connected[s]
  BY <1>2
<1>4. o \in [Seats -> Seq(Messages)] /\ o[i] = <<>> /\ \A s \in Seats : s # i => o[s] = h.outbox[s]
  <2>1. <<>> \in Seq(Messages)
    OBVIOUS
  <2> QED
    BY <1>2, <2>1
<1> HIDE DEF c, o
<1>5. [h EXCEPT !.connected = c] \in Matches
  BY <1>3 DEF Matches
<1>6. g \in Matches
  <2> DEFINE m == [h EXCEPT !.connected = c]
  <2>1. g = [m EXCEPT !.outbox = o] /\ m \in Matches
    BY <1>1, <1>5
  <2> HIDE DEF m
  <2> QED
    BY <1>4, <2>1 DEF Matches
<1>7. /\ SameRound(h, g) /\ g.phase = h.phase /\ g.winner = h.winner /\ g.alive = h.alive
      /\ g.settle = h.settle /\ g.connected = c /\ g.outbox = o
  BY <1>1 DEF Matches, SameRound
<1>8. Connected(g) = Connected(h) \ {i} /\ i \in Connected(h)
  BY <1>3, <1>7 DEF Connected
<1>9. Breadth(g) \in Nat /\ Breadth(h) = Breadth(g) + 1
  <2>1. Connected(h) \in SUBSET Seats
    BY DEF Connected
  <2>2. IsFiniteSet(Seats)
    BY SeatsFinite
  <2>3. IsFiniteSet(Connected(h))
    BY <2>1, <2>2, FS_Subset
  <2>4. IsFiniteSet(Connected(h) \ {i}) /\ Cardinality(Connected(h) \ {i}) = Cardinality(Connected(h)) - 1
    BY <1>8, <2>3, FS_RemoveElement
  <2>5. Cardinality(Connected(h) \ {i}) \in Nat /\ Cardinality(Connected(h)) \in Nat
    BY <2>3, <2>4, FS_CardinalityType
  <2> QED
    BY <1>8, <2>4, <2>5 DEF Breadth
<1> QED
  BY <1>4, <1>6, <1>7, <1>8, <1>9

\* What happens to a match that has lost a seat happened to the one it had.
LEMMA SinceStruck ==
    ASSUME NEW h \in Matches, NEW i \in Seats, h.connected[i],
           NEW m, m = Unseated(h, i),
           NEW g \in Matches, SameRound(m, g), Fed(m, g, {}), Short(m, g),
           Connected(g) \subseteq Connected(m)
    PROVE  /\ SameRound(h, g) /\ Fed(h, g, {}) /\ Short(h, g)
           /\ Connected(g) \subseteq Connected(h) /\ i \notin Connected(g)
           /\ Heralded(m, g) => Heralded(h, g)
<1>1. /\ m \in Matches /\ SameRound(h, m) /\ m.phase = h.phase
      /\ Connected(m) = Connected(h) \ {i} /\ m.outbox[i] = <<>>
      /\ \A s \in Seats : s # i => m.outbox[s] = h.outbox[s]
  BY Struck
<1>2. Connected(g) \subseteq Connected(h) /\ i \notin Connected(g)
  BY <1>1
<1>3. \A s \in Connected(g) : m.outbox[s] = h.outbox[s]
  BY <1>1, <1>2 DEF Connected
<1>4. SameRound(h, g)
  BY <1>1 DEF SameRound
<1>5. Fed(h, g, {})
  BY <1>3 DEF Fed
<1>6. Short(h, g)
  <2> SUFFICES ASSUME NEW s \in Seats
               PROVE  Len(g.outbox[s]) <= OUTBOX_LIMIT \/ Len(g.outbox[s]) <= Len(h.outbox[s])
    BY DEF Short
  <2>1. Len(g.outbox[s]) <= OUTBOX_LIMIT \/ Len(g.outbox[s]) <= Len(m.outbox[s])
    BY DEF Short
  <2>2. CASE s # i
    BY <1>1, <2>1, <2>2
  <2>3. CASE s = i
    <3>1. Len(m.outbox[i]) = 0
      BY <1>1
    <3>2. Len(g.outbox[i]) \in Nat /\ OUTBOX_LIMIT \in Nat
      BY Queued, Numbers
    <3>3. Len(g.outbox[i]) <= OUTBOX_LIMIT
      BY <2>1, <2>3, <3>1, <3>2
    <3> QED
      BY <2>3, <3>3
  <2> QED
    BY <2>2, <2>3
<1>7. Heralded(m, g) => Heralded(h, g)
  BY <1>1, <1>3 DEF Heralded, Sent
<1> QED
  BY <1>2, <1>4, <1>5, <1>6, <1>7

\* disconnect, when the calls it makes nest well.
LEMMA GoneOnward ==
    ASSUME NEW D, NEW d \in Nat, Droppable(D, d), NEW h \in Matches, Breadth(h) <= d + 1,
           NEW i \in Seats, NEW g, g = Gone(D, h, i)
    PROVE  Onward(h, g, {}) /\ i \notin Connected(g)
<1> DEFINE m == Unseated(h, i)
<1>1. CASE ~h.connected[i]
  <2>1. g = h
    BY <1>1 DEF Gone
  <2> QED
    BY <1>1, <2>1, OnwardStays DEF Connected
<1>2. ASSUME h.connected[i]
      PROVE  /\ m \in Matches /\ SameRound(h, m)
             /\ m.phase = h.phase /\ m.winner = h.winner /\ m.alive = h.alive /\ m.settle = h.settle
             /\ Connected(m) = Connected(h) \ {i} /\ m.outbox[i] = <<>>
             /\ \A s \in Seats : s # i => m.outbox[s] = h.outbox[s]
             /\ Breadth(m) <= d /\ Breadth(m) \in Nat
  <2>1. /\ m \in Matches /\ SameRound(h, m)
        /\ m.phase = h.phase /\ m.winner = h.winner /\ m.alive = h.alive /\ m.settle = h.settle
        /\ Connected(m) = Connected(h) \ {i} /\ m.outbox[i] = <<>>
        /\ \A s \in Seats : s # i => m.outbox[s] = h.outbox[s]
        /\ Breadth(m) \in Nat /\ Breadth(h) = Breadth(m) + 1
    BY <1>2, Struck
  <2>2. Breadth(m) <= d
    BY <2>1
  <2> QED
    BY <2>1, <2>2
<1>3. CASE h.connected[i] /\ h.phase \in Before
  <2>1. g = Abort(D, m)
    BY <1>3 DEF Gone, Before
  <2>2. /\ g \in Matches /\ SameRound(m, g) /\ Fed(m, g, {}) /\ Short(m, g)
        /\ g.phase = "aborted" /\ g.winner = m.winner /\ g.alive = m.alive
        /\ g.settle \in {m.settle, SETTLE_MS} /\ (Loose(m) => Loose(g))
        /\ (Armed(m) => Armed(g)) /\ Connected(g) \subseteq Connected(m)
    <3> HIDE DEF m
    <3> QED
      BY <1>2, <1>3, <2>1, AbortMoves
  <2>3. /\ SameRound(h, g) /\ Fed(h, g, {}) /\ Short(h, g)
        /\ Connected(g) \subseteq Connected(h) /\ i \notin Connected(g)
    BY <1>3, <2>2, SinceStruck
  <2>4. PhaseMoves(h, g) /\ Heralded(h, g) /\ Two(g)
    BY <1>2, <1>3, <2>2 DEF PhaseMoves, Heralded, Two
  <2>5. (Loose(h) => Loose(g)) /\ (Armed(h) => Armed(g))
    BY <1>2, <1>3, <2>2 DEF Loose, Armed
  <2>6. Counted(h, g)
    BY <1>2, <1>3, <2>2, <2>3, <2>5 DEF Counted, Before
  <2> QED
    BY <2>2, <2>3, <2>4, <2>5, <2>6 DEF Onward, Moved
<1>4. CASE h.connected[i] /\ h.phase = "playing"
  <2> DEFINE e == Eliminate(D, m, i)
  <2>1. g = ForfeitCheck(D, e)
    BY <1>4 DEF Gone
  <2>2. CASE i \in h.alive
    <3>1. /\ e \in Matches /\ SameRound(m, e) /\ Fed(m, e, {}) /\ Short(m, e) /\ Heralded(m, e)
          /\ PhaseMoves(m, e) /\ Connected(e) \subseteq Connected(m)
          /\ e.alive \subseteq m.alive \ {i} /\ e.settle \in {m.settle, SETTLE_MS}
          /\ m.alive \ {i} \subseteq Connected(m) =>
                IF e.phase = "playing" THEN e.alive \subseteq Connected(e)
                ELSE e.alive \subseteq {e.winner}
          /\ (Loose(m) => Armed(e))
      <4> HIDE DEF m
      <4> QED
        BY <1>2, <1>4, <2>2, EliminateMoves
    <3> HIDE DEF e
    <3>2. /\ SameRound(h, e) /\ Fed(h, e, {}) /\ Short(h, e) /\ Heralded(h, e)
          /\ Connected(e) \subseteq Connected(h) /\ i \notin Connected(e)
      BY <1>4, <3>1, SinceStruck
    <3> HIDE DEF m
    <3>3. PhaseMoves(h, e)
      BY <1>2, <1>4, <3>1 DEF PhaseMoves, Before
    <3>4. Loose(h) => Armed(e)
      BY <1>2, <1>4, <3>1 DEF Loose
    <3>5. Counted(h, e)
      <4>1. h.alive \subseteq Connected(h) =>
               IF e.phase = "playing" THEN e.alive \subseteq Connected(e)
               ELSE e.alive \subseteq {e.winner}
        BY <1>2, <1>4, <3>1
      <4>2. Loose(h) => Loose(e)
        BY <3>4 DEF Loose, Armed
      <4>3. e.alive \subseteq h.alive /\ e.settle \in {h.settle, SETTLE_MS}
        BY <1>2, <1>4, <3>1
      <4> QED
        BY <1>4, <3>2, <4>1, <4>2, <4>3 DEF Counted
    <3>6. Moved(h, e, {}) /\ e.phase \notin Before
      <4>1. e.phase \notin Before
        BY <1>4, <3>3 DEF PhaseMoves, Before
      <4> QED
        BY <3>1, <3>2, <3>3, <3>5, <4>1 DEF Moved
    <3>7. Breadth(e) <= d
      <4>1. Moved(m, m, {})
        BY <1>2, <1>4, OnwardStays DEF Onward
      <4>2. Breadth(e) \in Nat /\ Breadth(e) <= Breadth(m)
        <5>1. Connected(m) \subseteq Seats
          BY DEF Connected
        <5>2. IsFiniteSet(Seats)
          BY SeatsFinite
        <5>3. IsFiniteSet(Connected(m))
          BY <5>1, <5>2, FS_Subset
        <5> QED
          BY <3>1, <5>3, FS_Subset, FS_CardinalityType DEF Breadth
      <4> QED
        BY <1>2, <1>4, <4>2
    <3>8. Onward(e, g, {}) /\ Two(g)
      BY <2>1, <3>1, <3>6, <3>7, ForfeitMoves DEF e
    <3>9. Moved(h, g, {}) /\ Heralded(h, g)
      BY <3>2, <3>6, <3>8, MovedTwice, HeraldedTwice DEF Onward
    <3>10. Armed(h) => Armed(g)
      <4>1. Armed(h) => Loose(h)
        BY DEF Armed, Loose
      <4> QED
        BY <3>4, <3>8, <4>1 DEF Onward
    <3>11. i \notin Connected(g)
      BY <3>2, <3>8 DEF Onward, Moved, Counted
    <3> QED
      BY <3>8, <3>9, <3>10, <3>11 DEF Onward
  <2>3. CASE i \notin h.alive
    <3>1. e = m
      BY <1>2, <1>4, <2>3 DEF Eliminate
    <3>2. Fed(m, m, {}) /\ Short(m, m) /\ SameRound(m, m) /\ Heralded(m, m) /\ m.phase \notin Before
      <4> HIDE DEF m
      <4> QED
        BY <1>2, <1>4, OnwardStays DEF Onward, Moved, Before
    <3>3. /\ SameRound(h, m) /\ Fed(h, m, {}) /\ Short(h, m) /\ Heralded(h, m)
          /\ Connected(m) \subseteq Connected(h) /\ i \notin Connected(m)
      <4>1. m \in Matches
        BY <1>2, <1>4
      <4> QED
        BY <1>4, <3>2, <4>1, SinceStruck
    <3> HIDE DEF m
    <3>4. PhaseMoves(h, m) /\ (Armed(h) => Armed(m))
      BY <1>2, <1>4 DEF PhaseMoves, Before, Armed
    <3>5. Counted(h, m)
      BY <1>2, <1>4, <2>3, <3>3 DEF Counted, Loose
    <3>6. Moved(h, m, {})
      BY <1>2, <1>4, <3>3, <3>4, <3>5 DEF Moved
    <3>7. Onward(m, g, {}) /\ Two(g)
      BY <1>2, <1>4, <2>1, <3>1, <3>2, ForfeitMoves
    <3>8. Moved(h, g, {}) /\ Heralded(h, g)
      BY <3>3, <3>6, <3>7, MovedTwice, HeraldedTwice DEF Onward
    <3>9. i \notin Connected(g)
      BY <3>3, <3>7 DEF Onward, Moved, Counted
    <3> QED
      BY <3>4, <3>7, <3>8, <3>9 DEF Onward
  <2> QED
    BY <2>2, <2>3
<1>5. CASE h.connected[i] /\ h.phase \notin Before /\ h.phase # "playing"
  <2>1. g = ForfeitCheck(D, m)
    BY <1>5 DEF Gone, Before
  <2>2. Fed(m, m, {}) /\ Short(m, m) /\ SameRound(m, m) /\ Heralded(m, m)
    <3> HIDE DEF m
    <3> QED
      BY <1>2, <1>5, OnwardStays DEF Onward, Moved
  <2>3. /\ SameRound(h, m) /\ Fed(h, m, {}) /\ Short(h, m) /\ Heralded(h, m)
        /\ Connected(m) \subseteq Connected(h) /\ i \notin Connected(m)
    <3>1. m \in Matches
      BY <1>2, <1>5
    <3> QED
      BY <1>5, <2>2, <3>1, SinceStruck
  <2> HIDE DEF m
  <2>4. PhaseMoves(h, m) /\ (Armed(h) => Armed(m)) /\ Counted(h, m)
    BY <1>2, <1>5, <2>3 DEF PhaseMoves, Armed, Counted, Loose
  <2>5. Moved(h, m, {})
    BY <1>2, <1>5, <2>3, <2>4 DEF Moved
  <2>6. Onward(m, g, {}) /\ Two(g)
    BY <1>2, <1>5, <2>1, ForfeitMoves
  <2>7. Moved(h, g, {}) /\ Heralded(h, g)
    BY <2>3, <2>5, <2>6, MovedTwice, HeraldedTwice DEF Onward
  <2>8. i \notin Connected(g)
    BY <2>3, <2>6 DEF Onward, Moved, Counted
  <2> QED
    BY <2>4, <2>6, <2>7, <2>8 DEF Onward
<1> QED
  BY <1>1, <1>3, <1>4, <1>5

\* Level d of Drops, made of the level below it.
Layer(D, d) == [c \in Matches \X Seats |-> IF d = 0 THEN c[1] ELSE Gone(D, c[1], c[2])]

\* Drops is the function its definition describes.
LEMMA DropsLevels ==
    /\ Drops[0] = [c \in Matches \X Seats |-> c[1]]
    /\ \A d \in 1..N : Drops[d] = [c \in Matches \X Seats |-> Gone(Drops[d - 1], c[1], c[2])]
<1> DEFINE All(f, k) == f = [d \in 0..k |-> Layer(f[d - 1], d)]
           T == {k \in 0..N : \E f : All(f, k)}
<1>1. N \in Nat
  BY Numbers
<1>2. \A D, E : Layer(D, 0) = Layer(E, 0)
  BY DEF Layer
<1>3. 0 \in T
  <2> DEFINE f == [d \in 0..0 |-> Layer(Matches, 0)]
  <2>1. f = [d \in 0..0 |-> Layer(f[d - 1], d)]
    <3>1. \A d \in 0..0 : Layer(Matches, 0) = Layer(f[d - 1], d)
      BY <1>2
    <3> QED
      BY <3>1
  <2>2. All(f, 0)
    BY <2>1
  <2> HIDE DEF f, All
  <2> QED
    BY <1>1, <2>2
<1>4. ASSUME NEW k \in 1..N, k - 1 \in T PROVE k \in T
  <2>1. k - 1 \in 0..N /\ k \in 0..N /\ k \in Nat
    BY <1>1
  <2>2. PICK f : All(f, k - 1)
    BY <1>4
  <2> DEFINE g == [d \in 0..k |-> IF d = k THEN Layer(f[k - 1], k) ELSE f[d]]
  <2>3. ASSUME NEW d \in 0..k PROVE g[d] = Layer(g[d - 1], d)
    <3>1. CASE d = k
      <4>1. g[d] = Layer(f[k - 1], k)
        BY <3>1
      <4>2. g[k - 1] = f[k - 1]
        BY <2>1
      <4> QED
        BY <3>1, <4>1, <4>2
    <3>2. CASE d # k
      <4>1. d \in 0..k - 1
        BY <2>1, <3>2
      <4>2. g[d] = f[d] /\ f[d] = Layer(f[d - 1], d)
        BY <2>2, <3>2, <4>1
      <4>3. CASE d = 0
        BY <1>2, <4>2, <4>3
      <4>4. CASE d # 0
        <5>1. d - 1 \in 0..k /\ d - 1 # k
          BY <2>1, <4>1, <4>4
        <5>2. g[d - 1] = f[d - 1]
          BY <5>1
        <5> QED
          BY <4>2, <5>2
      <4> QED
        BY <4>3, <4>4
    <3> QED
      BY <3>1, <3>2
  <2>4. g = [d \in 0..k |-> g[d]]
    OBVIOUS
  <2> HIDE DEF g
  <2>5. All(g, k)
    BY <2>3, <2>4
  <2> HIDE DEF All
  <2> QED
    BY <2>1, <2>5
<1>5. N \in T
  <2> HIDE DEF T
  <2> QED
    BY <1>1, <1>3, <1>4, Climb
<1>6. \E f : All(f, N)
  BY <1>5
<1>7. All(Drops, N)
  BY <1>6 DEF Drops, Layer
<1>8. Drops[0] = Layer(Drops[0 - 1], 0)
  <2>1. 0 \in 0..N
    BY <1>1
  <2> QED
    BY <1>7, <2>1
<1>9. \A d \in 1..N : Drops[d] = Layer(Drops[d - 1], d)
  <2>1. \A d \in 1..N : d \in 0..N
    BY <1>1
  <2> QED
    BY <1>7, <2>1
<1>10. \A d \in 1..N : d # 0
  BY <1>1
<1> HIDE DEF All
<1> QED
  BY <1>8, <1>9, <1>10 DEF Layer

\* Calls may nest as deep as there are seats connected.
LEMMA DropsDroppable == \A d \in 0..N : Droppable(Drops[d], d)
<1> DEFINE T == {d \in 0..N : \A k \in 0..N : k <= d => Droppable(Drops[k], k)}
<1>1. N \in Nat
  BY Numbers
<1>2. 0 \in T
  <2>1. Droppable(Drops[0], 0)
    <3> SUFFICES ASSUME NEW h \in Matches, NEW i \in Seats, Breadth(h) <= 0
                 PROVE  Onward(h, Drops[0][<<h, i>>], {}) /\ i \notin Connected(Drops[0][<<h, i>>])
      BY DEF Droppable
    <3>1. Drops[0][<<h, i>>] = h
      BY DropsLevels
    <3>2. Connected(h) = {}
      <4>1. Connected(h) \in SUBSET Seats
        BY DEF Connected
      <4>2. IsFiniteSet(Connected(h)) /\ Cardinality(Connected(h)) \in Nat
        BY <4>1, SeatsFinite, FS_Subset, FS_CardinalityType
      <4>3. Cardinality(Connected(h)) = 0
        BY <4>2 DEF Breadth
      <4> QED
        BY <4>2, <4>3, FS_EmptySet
    <3> QED
      BY <3>1, <3>2, OnwardStays
  <2>2. \A k \in 0..N : k <= 0 => k = 0
    BY <1>1
  <2> QED
    BY <1>1, <2>1, <2>2
<1>3. ASSUME NEW d \in 1..N, d - 1 \in T PROVE d \in T
  <2>1. d - 1 \in 0..N /\ d - 1 \in Nat /\ d \in 0..N
    BY <1>1
  <2>2. Droppable(Drops[d - 1], d - 1)
    BY <1>3, <2>1
  <2>3. Droppable(Drops[d], d)
    <3> SUFFICES ASSUME NEW h \in Matches, NEW i \in Seats, Breadth(h) <= d
                 PROVE  Onward(h, Drops[d][<<h, i>>], {}) /\ i \notin Connected(Drops[d][<<h, i>>])
      BY DEF Droppable
    <3> DEFINE D == Drops[d - 1]
               e == d - 1
    <3>1. Drops[d][<<h, i>>] = Gone(D, h, i)
      <4>1. Drops[d] = [c \in Matches \X Seats |-> Gone(D, c[1], c[2])]
        BY DropsLevels
      <4> HIDE DEF D
      <4>2. <<h, i>> \in Matches \X Seats
        OBVIOUS
      <4> DEFINE F == [c \in Matches \X Seats |-> Gone(D, c[1], c[2])]
      <4>3. F[<<h, i>>] = Gone(D, <<h, i>>[1], <<h, i>>[2])
        BY <4>2
      <4> HIDE DEF F
      <4> QED
        BY <4>1, <4>3 DEF F
    <3>2. Breadth(h) <= e + 1 /\ e \in Nat /\ Droppable(D, e)
      BY <2>1, <2>2
    <3> HIDE DEF D, e
    <3> QED
      BY <3>1, <3>2, GoneOnward
  <2>4. \A k \in 0..N : k <= d => k = d \/ k <= d - 1
    BY <2>1
  <2> QED
    BY <1>3, <2>1, <2>3, <2>4
<1>4. N \in T
  <2> HIDE DEF T
  <2> QED
    BY <1>1, <1>2, <1>3, Climb
<1> QED
  BY <1>1, <1>4

\* Whatever match is asked, disconnect is such a call, and so is what is sent.
LEMMA DropIs == Droppable(Drop, N) /\ N \in Nat /\ \A h \in Matches : Breadth(h) <= N
<1>1. N \in Nat /\ N \in 0..N
  BY Numbers
<1>2. \A h \in Matches : Breadth(h) <= N
  <2> SUFFICES ASSUME NEW h \in Matches PROVE Breadth(h) <= N
    OBVIOUS
  <2>1. Connected(h) \in SUBSET Seats
    BY DEF Connected
  <2> QED
    BY <2>1, SeatsFinite, FS_Subset DEF Breadth
<1> QED
  BY <1>1, <1>2, DropsDroppable DEF Drop

-----------------------------------------------------------------------------
(* The invariant                                                            *)

Endpoints == [error : BOOLEAN, queue : Seq(Messages)]
Toys == [round : Nat, seed : Nat, playing : BOOLEAN,
         mask : SUBSET Seats, garbage : Nat, final : Winners]

\* A match, endpoints and toys of the right shape, and within their bounds.
Shaped(h, e, t) ==
    /\ h \in Matches /\ e \in [Seats -> Endpoints] /\ t \in [Seats -> Toys]
    /\ h.round <= MaxRounds /\ h.seed \in SEEDS \cup {0}
    /\ h.settle \in {Unset} \cup 0..SETTLE_MS
    /\ \A s \in Seats : /\ h.garbageId[s] <= GARBAGE_LIMIT
                        /\ Len(h.outbox[s]) <= OUTBOX_LIMIT
                        /\ Len(e[s].queue) <= HEADROOM
    /\ \A s \in Connected(h) : ~e[s].error

\* What the phase says of a match.
Phased(h) ==
    /\ h.phase = "lobby" => /\ h.round = 0 /\ Connected(h) = Seats
                            /\ ~h.finish
    /\ h.phase \in Before \cup {"playing", "round-result"} => ~Few(Connected(h))
    /\ h.phase \in {"preparing", "countdown"} => h.alive = Connected(h) /\ h.settle = Unset
    /\ h.phase = "playing" => h.alive \subseteq Connected(h) /\ Armed(h)
    /\ h.phase = "round-result" /\ h.finish => h.winner \in Seats /\ Champion(h, h.winner)
    /\ h.phase = "results" => h.winner # Unset

\* Who may be named the winner of a match.
Named(h, w) ==
    \/ h.phase = "results" /\ w = h.winner
    \/ w \in Seats /\ Champion(h, w)

\* The messages on their way to a toy are the match's, of its round.
Honest(h, way) ==
    \A k \in DOMAIN way :
        /\ way[k].type # "BEAT" => way[k].round = h.round
        /\ way[k].type = "FINAL" => Named(h, way[k].winner)

\* Before a round is played the toy knows of it, or is being told.
Fresh(h, i, way, t) ==
    /\ \A k \in DOMAIN way : /\ way[k].type \notin {"GO", "GARBAGE"}
                             /\ way[k].type = "START" => way[k].seed = h.seed
    /\ \/ t.round = h.round /\ t.seed = h.seed
       \/ \E k \in DOMAIN way : way[k].type = "START"
    /\ t.round = h.round => ~t.playing /\ t.garbage = 0
    /\ h.garbageId[i] = 0

\* The attacks on their way to a toy.
Attacks(way) == {k \in DOMAIN way : way[k].type = "GARBAGE"}
InOrder(way, from, last) ==
    /\ from <= last
    /\ {way[k].id : k \in Attacks(way)} = from + 1 .. last
    /\ \A j, k \in Attacks(way) : j < k => way[j].id < way[k].id

\* From then on it knows of it, has confirmed it and loses no attack.
Ready(h, i, way, t) ==
    /\ t.round = h.round /\ t.seed = h.seed /\ h.prepared[i]
    /\ \A k \in DOMAIN way : way[k].type # "START"
    /\ InOrder(way, t.garbage, h.garbageId[i])

Way(h, e, i) == e[i].queue \o h.outbox[i]

\* What the toys of S have been told, and are being told.
Lines(h, e, t, S) ==
    /\ \A i \in S : /\ Honest(h, Way(h, e, i))
                    /\ t[i].final = Unset \/ Named(h, t[i].final)
    /\ \/ h.phase \in {"lobby", "preparing", "aborted"}
          /\ \A i \in S : Fresh(h, i, Way(h, e, i), t[i])
       \/ h.phase \notin {"lobby", "preparing"}
          /\ \A i \in S : Ready(h, i, Way(h, e, i), t[i])

\* Once a match is decided its winner is named to every toy.
Closed(h) == h.phase = "results" \/ (h.phase = "round-result" /\ h.finish)
Hears(h, e, t, i) ==
    \/ t[i].final # Unset
    \/ \E k \in DOMAIN Way(h, e, i) : Way(h, e, i)[k].type = "FINAL"
Naming(h, e, t) == Closed(h) => \A i \in Connected(h) : Hears(h, e, t, i)

\* Nothing has been said in the lobby but heartbeats.
Quiet(h, e, t) ==
    h.phase = "lobby" =>
        \A i \in Seats : /\ h.outbox[i] = <<>> /\ t[i].round = 0
                         /\ \A k \in DOMAIN e[i].queue : e[i].queue[k].type = "BEAT"

Good(h, e, t) ==
    /\ Shaped(h, e, t) /\ Phased(h) /\ Quiet(h, e, t)
    /\ Lines(h, e, t, Connected(h)) /\ Naming(h, e, t)

IInv == Good(match, endpoint, toy)

-----------------------------------------------------------------------------
(* What the toys are being told, when more is sent                          *)

\* Two queues, one behind the other.
LEMMA Joined ==
    ASSUME NEW a \in Seq(Messages), NEW b \in Seq(Messages)
    PROVE  /\ a \o b \in Seq(Messages) /\ Len(a \o b) = Len(a) + Len(b)
           /\ DOMAIN (a \o b) = 1..Len(a) + Len(b)
           /\ \A j \in 1..Len(a) + Len(b) :
                 (a \o b)[j] = IF j <= Len(a) THEN a[j] ELSE b[j - Len(a)]
<1>1. a \o b \in Seq(Messages) /\ Len(a \o b) = Len(a) + Len(b)
  OBVIOUS
<1>2. \A j \in 1..Len(a) + Len(b) :
          (a \o b)[j] = IF j <= Len(a) THEN a[j] ELSE b[j - Len(a)]
  OBVIOUS
<1>3. DOMAIN (a \o b) = 1..Len(a) + Len(b)
  BY <1>1
<1> QED
  BY <1>1, <1>2, <1>3

\* The front of a queue moves behind another, and the rest follows.
LEMMA CutAndJoined ==
    ASSUME NEW q \in Seq(Messages), NEW v \in Seq(Messages), NEW k \in 0..Len(v)
    PROVE  /\ q \o SubSeq(v, 1, k) \in Seq(Messages) /\ Len(q \o SubSeq(v, 1, k)) = Len(q) + k
           /\ (q \o SubSeq(v, 1, k)) \o SubSeq(v, k + 1, Len(v)) = q \o v
<1> DEFINE front == SubSeq(v, 1, k)
           rest == SubSeq(v, k + 1, Len(v))
           more == q \o front
<1>1. Len(q) \in Nat /\ Len(v) \in Nat /\ k \in Nat /\ k <= Len(v)
  OBVIOUS
<1>2. front \in Seq(Messages) /\ Len(front) = k /\ \A j \in 1..k : front[j] = v[j]
  BY <1>1
<1>3. /\ rest \in Seq(Messages) /\ Len(rest) = Len(v) - k
      /\ \A j \in 1..Len(v) - k : rest[j] = v[k + j]
  BY <1>1
<1> HIDE DEF front, rest
<1>4. /\ more \in Seq(Messages) /\ Len(more) = Len(q) + k
      /\ \A j \in 1..Len(q) + k : more[j] = IF j <= Len(q) THEN q[j] ELSE front[j - Len(q)]
  BY <1>2, Joined
<1> HIDE DEF more
<1> DEFINE a == more \o rest
           b == q \o v
<1>5. /\ a \in Seq(Messages) /\ Len(a) = Len(more) + Len(rest)
      /\ \A j \in 1..Len(more) + Len(rest) :
            a[j] = IF j <= Len(more) THEN more[j] ELSE rest[j - Len(more)]
  BY <1>3, <1>4, Joined
<1>6. /\ b \in Seq(Messages) /\ Len(b) = Len(q) + Len(v)
      /\ \A j \in 1..Len(q) + Len(v) : b[j] = IF j <= Len(q) THEN q[j] ELSE v[j - Len(q)]
  BY Joined
<1>7. Len(more) + Len(rest) = Len(q) + Len(v)
  BY <1>1, <1>3, <1>4
<1> HIDE DEF a, b
<1>8. ASSUME NEW j \in 1..Len(q) + Len(v) PROVE a[j] = b[j]
  <2>1. CASE j <= Len(q)
    <3>1. j \in 1..Len(q) + k /\ j <= Len(more)
      BY <1>1, <1>4, <2>1
    <3> QED
      BY <1>4, <1>5, <1>6, <1>7, <2>1, <3>1
  <2>2. CASE ~(j <= Len(q)) /\ j <= Len(q) + k
    <3>1. j - Len(q) \in 1..k /\ j \in 1..Len(q) + k /\ j <= Len(more)
      BY <1>1, <1>4, <2>2
    <3>2. a[j] = front[j - Len(q)]
      BY <1>4, <1>5, <1>7, <2>2, <3>1
    <3>3. b[j] = v[j - Len(q)]
      BY <1>6, <2>2
    <3> QED
      BY <1>2, <3>1, <3>2, <3>3
  <2>3. CASE ~(j <= Len(q) + k)
    <3>1. /\ j - Len(more) \in 1..Len(v) - k /\ k + (j - Len(more)) = j - Len(q)
          /\ ~(j <= Len(more)) /\ ~(j <= Len(q))
      BY <1>1, <1>4, <2>3
    <3>2. a[j] = rest[j - Len(more)]
      BY <1>5, <1>7, <3>1
    <3>3. b[j] = v[j - Len(q)]
      BY <1>6, <3>1
    <3> QED
      BY <1>3, <3>1, <3>2, <3>3
  <2> QED
    BY <2>1, <2>2, <2>3
<1>9. a = b
  BY <1>5, <1>6, <1>7, <1>8
<1> QED
  BY <1>4, <1>9 DEF a, b, more, front, rest

\* A queue grows behind what comes before it.
LEMMA GrownBehind ==
    ASSUME NEW q \in Seq(Messages), NEW o \in Seq(Messages), NEW p \in Seq(Messages), NEW T,
           Grown(o, p, T)
    PROVE  Grown(q \o o, q \o p, T)
<1>1. Len(q) \in Nat /\ Len(o) \in Nat /\ Len(p) \in Nat
  OBVIOUS
<1>2. Len(q \o o) = Len(q) + Len(o) /\ Len(q \o p) = Len(q) + Len(p)
  OBVIOUS
<1>3. \A k \in 1..Len(q) + Len(o) : (q \o o)[k] = IF k <= Len(q) THEN q[k] ELSE o[k - Len(q)]
  OBVIOUS
<1>4. \A k \in 1..Len(q) + Len(p) : (q \o p)[k] = IF k <= Len(q) THEN q[k] ELSE p[k - Len(q)]
  OBVIOUS
<1>5. Len(o) <= Len(p)
  BY DEF Grown
<1>6. ASSUME NEW k \in 1..Len(q \o o)
      PROVE  (q \o p)[k] = (q \o o)[k] \/ SameAlive((q \o o)[k], (q \o p)[k])
  <2>0. k \in 1..Len(q) + Len(o) /\ k \in 1..Len(q) + Len(p)
    BY <1>1, <1>2, <1>5
  <2>1. CASE k <= Len(q)
    BY <1>3, <1>4, <2>0, <2>1
  <2>2. CASE ~(k <= Len(q))
    <3>1. k - Len(q) \in 1..Len(o)
      BY <1>1, <2>0, <2>2
    <3>2. (q \o o)[k] = o[k - Len(q)] /\ (q \o p)[k] = p[k - Len(q)]
      BY <1>3, <1>4, <2>0, <2>2
    <3>3. p[k - Len(q)] = o[k - Len(q)] \/ SameAlive(o[k - Len(q)], p[k - Len(q)])
      BY <3>1 DEF Grown
    <3> QED
      BY <3>2, <3>3
  <2> QED
    BY <2>1, <2>2
<1>7. ASSUME NEW k \in Len(q \o o) + 1..Len(q \o p) PROVE (q \o p)[k] \in T
  <2>1. k \in 1..Len(q) + Len(p) /\ ~(k <= Len(q)) /\ k - Len(q) \in Len(o) + 1..Len(p)
    BY <1>1, <1>2
  <2>2. (q \o p)[k] = p[k - Len(q)]
    BY <1>4, <2>1
  <2>3. p[k - Len(q)] \in T
    BY <2>1 DEF Grown
  <2> QED
    BY <2>2, <2>3
<1>8. Len(q \o o) <= Len(q \o p)
  BY <1>1, <1>2, <1>5
<1> QED
  BY <1>6, <1>7, <1>8 DEF Grown

\* Where the messages of a grown queue come from.
LEMMA Kept ==
    ASSUME NEW v \in Seq(Messages), NEW w \in Seq(Messages), NEW T, Grown(v, w, T)
    PROVE  /\ \A k \in DOMAIN v : k \in DOMAIN w /\ (v[k].type # "ALIVE" => w[k] = v[k])
           /\ \A k \in DOMAIN w : \/ k \in DOMAIN v /\ w[k] = v[k]
                                  \/ k \in DOMAIN v /\ SameAlive(v[k], w[k])
                                  \/ w[k] \in T
<1>1. Len(v) \in Nat /\ Len(w) \in Nat /\ DOMAIN v = 1..Len(v) /\ DOMAIN w = 1..Len(w)
  OBVIOUS
<1>2. Len(v) <= Len(w)
  BY DEF Grown
<1>3. \A k \in 1..Len(v) : k \in 1..Len(w) /\ (w[k] = v[k] \/ SameAlive(v[k], w[k]))
  BY <1>1, <1>2 DEF Grown
<1>4. \A k \in 1..Len(w) : k \in 1..Len(v) \/ k \in Len(v) + 1..Len(w)
  BY <1>1
<1>5. \A k \in Len(v) + 1..Len(w) : w[k] \in T
  BY DEF Grown
<1>6. \A k \in 1..Len(v) : v[k].type # "ALIVE" => w[k] = v[k]
  BY <1>3 DEF SameAlive
<1> QED
  BY <1>1, <1>3, <1>4, <1>5, <1>6

\* Messages that neither begin a round nor play it.
LEMMA FreshGrown ==
    ASSUME NEW h, NEW g, SameRound(h, g), NEW i, NEW x, NEW T,
           NEW v \in Seq(Messages), NEW w \in Seq(Messages), Grown(v, w, T), Fresh(h, i, v, x),
           \A m \in T : m.type \notin {"START", "GO", "GARBAGE"}
    PROVE  Fresh(g, i, w, x)
<1>1. g.round = h.round /\ g.seed = h.seed /\ g.garbageId = h.garbageId
  BY DEF SameRound
<1>2. \A k \in DOMAIN w : /\ w[k].type \notin {"GO", "GARBAGE"}
                          /\ w[k].type = "START" => w[k].seed = h.seed
  BY Kept DEF Fresh, SameAlive
<1>3. (\E k \in DOMAIN v : v[k].type = "START") => \E k \in DOMAIN w : w[k].type = "START"
  BY Kept
<1> QED
  BY <1>1, <1>2, <1>3 DEF Fresh

\* Messages that do not begin a round, and no attacks.
LEMMA ReadyGrown ==
    ASSUME NEW h, NEW g, SameRound(h, g), NEW i, NEW x, NEW T,
           NEW v \in Seq(Messages), NEW w \in Seq(Messages), Grown(v, w, T), Ready(h, i, v, x),
           \A m \in T : m.type \notin {"START", "GARBAGE"}
    PROVE  Ready(g, i, w, x)
<1>1. g.round = h.round /\ g.seed = h.seed /\ g.garbageId = h.garbageId /\ g.prepared = h.prepared
  BY DEF SameRound
<1>2. \A k \in DOMAIN w : w[k].type # "START"
  BY Kept DEF Ready, SameAlive
<1>3. Attacks(w) = Attacks(v) /\ \A k \in Attacks(v) : w[k] = v[k]
  <2>1. \A k \in Attacks(v) : k \in DOMAIN w /\ w[k] = v[k]
    BY Kept DEF Attacks
  <2>2. \A k \in Attacks(w) : k \in Attacks(v)
    BY Kept DEF Attacks, SameAlive
  <2>3. \A k \in Attacks(v) : k \in Attacks(w)
    BY <2>1 DEF Attacks
  <2> QED
    BY <2>1, <2>2, <2>3
<1>4. InOrder(w, x.garbage, h.garbageId[i])
  <2>1. {w[k].id : k \in Attacks(w)} = {v[k].id : k \in Attacks(v)}
    BY <1>3
  <2>2. \A j, k \in Attacks(w) : j < k => w[j].id < w[k].id
    BY <1>3 DEF Ready, InOrder
  <2>3. {v[k].id : k \in Attacks(v)} = x.garbage + 1 .. h.garbageId[i]
    BY DEF Ready, InOrder
  <2>4. x.garbage <= h.garbageId[i]
    BY DEF Ready, InOrder
  <2> QED
    BY <2>1, <2>2, <2>3, <2>4 DEF InOrder
<1> QED
  BY <1>1, <1>2, <1>4 DEF Ready

\* Who may be named may be named later.
LEMMA NamedStays ==
    ASSUME NEW h, NEW g, g.wins = h.wins,
           h.phase = "results" => g.phase = "results" /\ g.winner = h.winner,
           NEW w, Named(h, w)
    PROVE  Named(g, w)
  BY DEF Named, Champion

\* Messages of the match, in its round.
LEMMA HonestGrown ==
    ASSUME NEW h, NEW g, g.round = h.round, \A w : Named(h, w) => Named(g, w), NEW T,
           NEW v \in Seq(Messages), NEW w \in Seq(Messages), Grown(v, w, T), Honest(h, v),
           \A m \in T : m.round = h.round /\ (m.type = "FINAL" => Named(g, m.winner))
    PROVE  Honest(g, w)
<1> SUFFICES ASSUME NEW k \in DOMAIN w
             PROVE  /\ w[k].type # "BEAT" => w[k].round = g.round
                    /\ w[k].type = "FINAL" => Named(g, w[k].winner)
  BY DEF Honest
<1>1. \/ k \in DOMAIN v /\ w[k] = v[k]
      \/ k \in DOMAIN v /\ SameAlive(v[k], w[k])
      \/ w[k] \in T
  BY Kept
<1>2. k \in DOMAIN v => /\ v[k].type # "BEAT" => v[k].round = h.round
                        /\ v[k].type = "FINAL" => Named(h, v[k].winner)
  BY DEF Honest
<1> QED
  BY <1>1, <1>2 DEF SameAlive

\* The way to a seat is made of messages.
LEMMA WayTyped ==
    ASSUME NEW h \in Matches, NEW e \in [Seats -> Endpoints], NEW i \in Seats
    PROVE  /\ Way(h, e, i) \in Seq(Messages) /\ e[i].queue \in Seq(Messages)
           /\ h.outbox[i] \in Seq(Messages)
<1>1. e[i].queue \in Seq(Messages)
  BY DEF Endpoints
<1>2. h.outbox[i] \in Seq(Messages)
  BY Queued
<1> QED
  BY <1>1, <1>2 DEF Way

\* What nested calls leave of the phase.
Follows(h, g) ==
    \/ g.phase = h.phase /\ g.winner = h.winner
    \/ h.phase \notin {"playing", "results"} /\ g.phase = "aborted"
    \/ h.phase \in {"playing", "round-result"} /\ g.phase = "results"

\* As a call goes on, what the toys of S are told stays right.
LEMMA LinesFed ==
    ASSUME NEW h \in Matches, NEW g \in Matches, SameRound(h, g), Follows(h, g),
           NEW e \in [Seats -> Endpoints], NEW t,
           NEW S, S \subseteq Connected(g), NEW X, Fed(h, g, X), Lines(h, e, t, S),
           \A m \in X : /\ m.round = h.round /\ m.type \notin {"START", "GO", "GARBAGE"}
                        /\ m.type = "FINAL" => Named(g, m.winner)
    PROVE  Lines(g, e, t, S)
<1>1. \A w : Named(h, w) => Named(g, w)
  <2>1. g.wins = h.wins /\ (h.phase = "results" => g.phase = "results" /\ g.winner = h.winner)
    BY DEF SameRound, Follows
  <2> QED
    BY <2>1, NamedStays
<1>2. \A m \in X \cup News(g) : /\ m.round = h.round /\ m.type \notin {"START", "GO", "GARBAGE"}
                                /\ m.type = "FINAL" => Named(g, m.winner)
  BY DEF News, SameRound, Named
<1>3. ASSUME NEW i \in S
      PROVE  /\ i \in Seats /\ Way(h, e, i) \in Seq(Messages) /\ Way(g, e, i) \in Seq(Messages)
             /\ Grown(Way(h, e, i), Way(g, e, i), X \cup News(g))
  <2>1. i \in Connected(g) /\ i \in Seats
    BY DEF Connected
  <2>2. Grown(h.outbox[i], g.outbox[i], X \cup News(g))
    BY <2>1 DEF Fed
  <2>3. /\ e[i].queue \in Seq(Messages) /\ h.outbox[i] \in Seq(Messages)
        /\ g.outbox[i] \in Seq(Messages)
        /\ Way(h, e, i) \in Seq(Messages) /\ Way(g, e, i) \in Seq(Messages)
    BY <2>1, WayTyped
  <2> QED
    BY <2>1, <2>2, <2>3, GrownBehind DEF Way
<1>4. ASSUME NEW i \in S
      PROVE  Honest(g, Way(g, e, i)) /\ (t[i].final = Unset \/ Named(g, t[i].final))
  <2>1. Honest(h, Way(h, e, i)) /\ (t[i].final = Unset \/ Named(h, t[i].final))
    BY DEF Lines
  <2>2. g.round = h.round
    BY DEF SameRound
  <2>3. Honest(g, Way(g, e, i))
    BY <1>1, <1>2, <1>3, <2>1, <2>2, HonestGrown
  <2> QED
    BY <1>1, <2>1, <2>3
<1>5. ASSUME \A i \in S : Fresh(h, i, Way(h, e, i), t[i])
      PROVE  \A i \in S : Fresh(g, i, Way(g, e, i), t[i])
  BY <1>2, <1>3, <1>5, FreshGrown
<1>6. ASSUME \A i \in S : Ready(h, i, Way(h, e, i), t[i])
      PROVE  \A i \in S : Ready(g, i, Way(g, e, i), t[i])
  BY <1>2, <1>3, <1>6, ReadyGrown
<1>7. \/ h.phase \in {"lobby", "preparing", "aborted"} /\ \A i \in S : Fresh(h, i, Way(h, e, i), t[i])
      \/ h.phase \notin {"lobby", "preparing"} /\ \A i \in S : Ready(h, i, Way(h, e, i), t[i])
  BY DEF Lines
<1>8. /\ h.phase \in {"lobby", "preparing", "aborted"} => g.phase \in {"lobby", "preparing", "aborted"}
      /\ h.phase \notin {"lobby", "preparing"} => g.phase \notin {"lobby", "preparing"}
  BY DEF Follows
<1> QED
  BY <1>4, <1>5, <1>6, <1>7, <1>8 DEF Lines

\* A seat that was told the winner, or is being told, goes on being told.
LEMMA HearsOn ==
    ASSUME NEW h \in Matches, NEW g \in Matches, NEW e \in [Seats -> Endpoints], NEW t,
           NEW i \in Seats, NEW T, Grown(h.outbox[i], g.outbox[i], T),
           Hears(h, e, t, i) \/ (\E m \in Messages : m.type = "FINAL" /\ Sent(h, g, i, m))
    PROVE  Hears(g, e, t, i)
<1>1. /\ e[i].queue \in Seq(Messages) /\ h.outbox[i] \in Seq(Messages)
      /\ g.outbox[i] \in Seq(Messages)
      /\ Way(h, e, i) \in Seq(Messages) /\ Way(g, e, i) \in Seq(Messages)
  BY WayTyped
<1>2. CASE Hears(h, e, t, i)
  <2>1. Grown(Way(h, e, i), Way(g, e, i), T)
    BY <1>1, GrownBehind DEF Way
  <2>2. \A k \in DOMAIN Way(h, e, i) :
            k \in DOMAIN Way(g, e, i)
              /\ (Way(h, e, i)[k].type # "ALIVE" => Way(g, e, i)[k] = Way(h, e, i)[k])
    BY <1>1, <2>1, Kept
  <2> QED
    BY <1>2, <2>2 DEF Hears
<1>3. CASE \E m \in Messages : m.type = "FINAL" /\ Sent(h, g, i, m)
  <2>1. PICK m \in Messages : m.type = "FINAL" /\ Sent(h, g, i, m)
    BY <1>3
  <2>2. PICK k \in Len(h.outbox[i]) + 1..Len(g.outbox[i]) : g.outbox[i][k] = m
    BY <2>1 DEF Sent
  <2> DEFINE q == e[i].queue
             o == g.outbox[i]
  <2>3. Len(h.outbox[i]) \in Nat /\ Len(q) \in Nat /\ Len(o) \in Nat
    BY <1>1
  <2>4. k \in 1..Len(o)
    BY <2>3
  <2>5. Len(q) + k \in DOMAIN (q \o o) /\ (q \o o)[Len(q) + k] = o[k]
    <3>1. q \in Seq(Messages) /\ o \in Seq(Messages)
      BY <1>1
    <3> HIDE DEF q, o
    <3>2. \A j \in 1..Len(q) + Len(o) : (q \o o)[j] = IF j <= Len(q) THEN q[j] ELSE o[j - Len(q)]
      BY <3>1
    <3>3. DOMAIN (q \o o) = 1..Len(q) + Len(o)
      BY <3>1
    <3>4. Len(q) + k \in 1..Len(q) + Len(o) /\ ~(Len(q) + k <= Len(q)) /\ Len(q) + k - Len(q) = k
      BY <2>3, <2>4
    <3> QED
      BY <3>2, <3>3, <3>4
  <2> QED
    BY <2>1, <2>2, <2>5 DEF Hears, Way
<1> QED
  BY <1>2, <1>3

-----------------------------------------------------------------------------
(* The invariant, as a call goes on                                         *)

\* The shape and the bounds.
LEMMA ShapedOnward ==
    ASSUME NEW h, NEW e, NEW t, Shaped(h, e, t), NEW g \in Matches, SameRound(h, g), Short(h, g),
           Connected(g) \subseteq Connected(h), g.settle \in {h.settle, SETTLE_MS}
    PROVE  Shaped(g, e, t)
<1>1. h \in Matches /\ g.round = h.round /\ g.seed = h.seed /\ g.garbageId = h.garbageId
  BY DEF SameRound, Shaped
<1>2. g.settle \in {Unset} \cup 0..SETTLE_MS
  <2>1. SETTLE_MS \in 0..SETTLE_MS
    BY Numbers
  <2> QED
    BY <2>1 DEF Shaped
<1>3. \A s \in Seats : Len(g.outbox[s]) <= OUTBOX_LIMIT
  <2> SUFFICES ASSUME NEW s \in Seats PROVE Len(g.outbox[s]) <= OUTBOX_LIMIT
    OBVIOUS
  <2>1. Len(g.outbox[s]) <= OUTBOX_LIMIT \/ Len(g.outbox[s]) <= Len(h.outbox[s])
    BY DEF Short
  <2>2. Len(h.outbox[s]) <= OUTBOX_LIMIT
    BY DEF Shaped
  <2>3. Len(g.outbox[s]) \in Nat /\ Len(h.outbox[s]) \in Nat
    BY <1>1, Queued
  <2>4. OUTBOX_LIMIT \in Nat
    BY Numbers
  <2> QED
    BY <2>1, <2>2, <2>3, <2>4
<1> QED
  BY <1>1, <1>2, <1>3 DEF Shaped

\* What the phase says.
LEMMA PhasedOnward ==
    ASSUME NEW h \in Matches, NEW g, NEW X, Phased(h), h.phase # "lobby", Onward(h, g, X)
    PROVE  Phased(g)
<1>1. /\ g \in Matches /\ SameRound(h, g) /\ PhaseMoves(h, g) /\ Counted(h, g)
      /\ (Two(h) => Two(g)) /\ (Armed(h) => Armed(g))
  BY DEF Onward, Moved
<1>2. g.finish = h.finish /\ g.wins = h.wins
  BY <1>1 DEF SameRound
<1>3. CASE g.phase = h.phase /\ h.phase \in {"preparing", "countdown"}
  <2>1. g.connected = h.connected /\ g.settle = h.settle
    BY <1>1, <1>3 DEF PhaseMoves, Before
  <2>2. Connected(g) = Connected(h)
    BY <2>1 DEF Connected
  <2>3. g.alive = h.alive
    BY <1>1, <1>3 DEF Counted
  <2> QED
    BY <1>3, <2>1, <2>2, <2>3 DEF Phased, Before
<1>4. CASE g.phase = h.phase /\ h.phase = "playing"
  <2>1. ~Few(Connected(h)) /\ h.alive \subseteq Connected(h) /\ Armed(h)
    BY <1>4 DEF Phased
  <2>2. Two(h)
    BY <2>1 DEF Two
  <2>3. ~Few(Connected(g)) /\ Armed(g)
    BY <1>1, <1>4, <2>1, <2>2 DEF Two
  <2>4. g.alive \subseteq Connected(g)
    BY <1>1, <1>4, <2>1 DEF Counted
  <2> QED
    BY <1>4, <2>3, <2>4 DEF Phased, Before
<1>5. CASE g.phase = h.phase /\ h.phase = "round-result"
  <2>1. ~Few(Connected(g))
    <3>1. Two(h)
      BY <1>5 DEF Phased, Two
    <3> QED
      BY <1>1, <1>5, <3>1 DEF Two
  <2>2. g.winner = h.winner
    BY <1>1, <1>5 DEF PhaseMoves, Before
  <2>3. g.finish => g.winner \in Seats /\ Champion(g, g.winner)
    BY <1>2, <1>5, <2>2 DEF Phased, Champion
  <2> QED
    BY <1>5, <2>1, <2>3 DEF Phased, Before
<1>6. CASE g.phase = "results"
  <2>1. g.winner # Unset
    <3>1. CASE h.phase = "results"
      BY <1>1, <1>6, <3>1 DEF PhaseMoves, Before, Phased
    <3>2. CASE h.phase # "results"
      <4>1. g.winner \in Connected(g) \cup Connected(h) \cup {TIE}
        BY <1>1, <1>6, <3>2 DEF PhaseMoves, Before
      <4>2. Connected(g) \subseteq Seats /\ Connected(h) \subseteq Seats
        BY DEF Connected
      <4>3. Unset \notin Seats /\ Unset # TIE
        BY Numbers
      <4> QED
        BY <4>1, <4>2, <4>3
    <3> QED
      BY <3>1, <3>2
  <2> QED
    BY <1>6, <2>1 DEF Phased, Before
<1>7. CASE g.phase = "aborted"
  BY <1>7 DEF Phased, Before
<1>8. \/ g.phase = h.phase /\ h.phase \in {"preparing", "countdown", "playing", "round-result"}
      \/ g.phase \in {"results", "aborted"}
  <2>1. h.phase \in Phases
    BY DEF Matches
  <2> QED
    BY <1>1, <2>1 DEF PhaseMoves, Phases
<1> QED
  BY <1>3, <1>4, <1>5, <1>6, <1>7, <1>8

\* And the winner goes on being named to everybody.
LEMMA NamingOnward ==
    ASSUME NEW h \in Matches, NEW e \in [Seats -> Endpoints], NEW t, NEW g, NEW X,
           Naming(h, e, t), Onward(h, g, X)
    PROVE  Naming(g, e, t)
<1>1. /\ g \in Matches /\ SameRound(h, g) /\ PhaseMoves(h, g) /\ Counted(h, g)
      /\ Fed(h, g, X) /\ Heralded(h, g)
  BY DEF Onward, Moved
<1> SUFFICES ASSUME Closed(g), NEW i \in Connected(g) PROVE Hears(g, e, t, i)
  BY DEF Naming
<1>2. i \in Connected(h) /\ i \in Seats
  BY <1>1 DEF Counted, Connected
<1>3. Grown(h.outbox[i], g.outbox[i], X \cup News(g))
  BY <1>1 DEF Fed
<1>4. CASE Closed(h)
  <2>1. Hears(h, e, t, i)
    BY <1>2, <1>4 DEF Naming
  <2> QED
    BY <1>1, <1>2, <1>3, <2>1, HearsOn
<1>5. CASE ~Closed(h)
  <2>1. h.phase # "results" /\ g.phase = "results"
    BY <1>1, <1>5 DEF Closed, PhaseMoves, Before, SameRound
  <2>2. Sent(h, g, i, FINAL(g))
    BY <1>1, <2>1 DEF Heralded
  <2>3. FINAL(g) \in Messages
    BY <1>1, Sendable
  <2>4. FINAL(g).type = "FINAL"
    BY DEF FINAL
  <2> QED
    BY <1>1, <1>2, <1>3, <2>2, <2>3, <2>4, HearsOn
<1> QED
  BY <1>4, <1>5

\* A call keeps what the winner's being named is not part of.  Where it loses a
\* seat, what that one was being told need not have been right.
LEMMA SoundOnward ==
    ASSUME NEW h, NEW e, NEW t, NEW S, Shaped(h, e, t), Phased(h), h.phase # "lobby",
           Lines(h, e, t, S), NEW g, NEW X, Onward(h, g, X), Connected(g) \subseteq S,
           \A m \in X : /\ m.round = h.round /\ m.type \notin {"START", "GO", "GARBAGE"}
                        /\ m.type = "FINAL" => Named(g, m.winner)
    PROVE  /\ Shaped(g, e, t) /\ Phased(g) /\ g.phase # "lobby"
           /\ Lines(g, e, t, Connected(g))
<1>1. h \in Matches /\ e \in [Seats -> Endpoints]
  BY DEF Shaped
<1>2. /\ g \in Matches /\ SameRound(h, g) /\ PhaseMoves(h, g) /\ Counted(h, g)
      /\ Fed(h, g, X) /\ Short(h, g)
  BY DEF Onward, Moved
<1>3. Shaped(g, e, t)
  BY <1>2, ShapedOnward DEF Counted
<1>4. Phased(g)
  BY <1>1, PhasedOnward
<1>5. Follows(h, g) /\ g.phase # "lobby"
  BY <1>2 DEF Follows, PhaseMoves, Before
<1>6. Lines(g, e, t, Connected(g))
  <2>1. Lines(h, e, t, Connected(g))
    BY DEF Lines
  <2> QED
    BY <1>1, <1>2, <1>5, <2>1, LinesFed
<1> QED
  BY <1>3, <1>4, <1>5, <1>6

\* A call keeps the invariant.
LEMMA GoodOnward ==
    ASSUME NEW h, NEW e, NEW t, NEW S, Shaped(h, e, t), Phased(h), h.phase # "lobby",
           Lines(h, e, t, S), Naming(h, e, t),
           NEW g, NEW X, Onward(h, g, X), Connected(g) \subseteq S,
           \A m \in X : /\ m.round = h.round /\ m.type \notin {"START", "GO", "GARBAGE"}
                        /\ m.type = "FINAL" => Named(g, m.winner)
    PROVE  Good(g, e, t)
<1>1. /\ Shaped(g, e, t) /\ Phased(g) /\ g.phase # "lobby"
      /\ Lines(g, e, t, Connected(g))
  BY SoundOnward
<1>2. Naming(g, e, t)
  <2>1. h \in Matches /\ e \in [Seats -> Endpoints]
    BY DEF Shaped
  <2> QED
    BY <2>1, NamingOnward
<1> QED
  BY <1>1, <1>2 DEF Good, Quiet

\* A seat is disconnected.
LEMMA DisconnectGood ==
    ASSUME NEW h, NEW e, NEW t, NEW i \in Seats, Shaped(h, e, t), Phased(h), h.phase # "lobby",
           Lines(h, e, t, Connected(h) \ {i}), Naming(h, e, t),
           NEW g, g = Disconnect(h, i)
    PROVE  Good(g, e, t) /\ Onward(h, g, {}) /\ i \notin Connected(g)
<1>1. h \in Matches
  BY DEF Shaped
<1>2. Onward(h, g, {}) /\ i \notin Connected(g)
  BY <1>1, DropIs DEF Disconnect, Droppable
<1>3. Connected(g) \subseteq Connected(h) \ {i}
  BY <1>2 DEF Onward, Moved, Counted
<1>4. Good(g, e, t)
  BY <1>2, <1>3, GoodOnward
<1> QED
  BY <1>2, <1>4

\* The match is given up.
LEMMA AbortGood ==
    ASSUME NEW h, NEW e, NEW t, Good(h, e, t),
           h.phase \in {"preparing", "countdown", "round-result"},
           NEW g, g = Abort(Drop, h)
    PROVE  /\ Good(g, e, t) /\ SameRound(h, g) /\ g.phase = "aborted" /\ g.winner = h.winner
           /\ g.alive = h.alive /\ Connected(g) \subseteq Connected(h)
<1>1. h \in Matches /\ e \in [Seats -> Endpoints]
  BY DEF Good, Shaped
<1>2. /\ g \in Matches /\ SameRound(h, g) /\ Fed(h, g, {}) /\ Short(h, g)
      /\ g.phase = "aborted" /\ g.winner = h.winner /\ g.alive = h.alive
      /\ g.settle \in {h.settle, SETTLE_MS} /\ Connected(g) \subseteq Connected(h)
  BY <1>1, DropIs, AbortMoves DEF Before
<1>3. Shaped(g, e, t)
  BY <1>2, ShapedOnward DEF Good
<1>4. Lines(g, e, t, Connected(g))
  <2>1. Lines(h, e, t, Connected(g))
    BY <1>2 DEF Good, Lines
  <2>2. Follows(h, g)
    BY <1>2 DEF Follows
  <2> QED
    BY <1>1, <1>2, <2>1, <2>2, LinesFed
<1>5. Phased(g) /\ Naming(g, e, t) /\ Quiet(g, e, t)
  BY <1>2 DEF Phased, Before, Naming, Closed, Quiet
<1> QED
  BY <1>2, <1>3, <1>4, <1>5 DEF Good

\* A living player tops out.
LEMMA EliminateGood ==
    ASSUME NEW h, NEW e, NEW t, Good(h, e, t), h.phase = "playing", NEW i \in h.alive,
           NEW g, g = Eliminate(Drop, h, i)
    PROVE  Good(g, e, t) /\ Onward(h, g, {})
<1>1. h \in Matches
  BY DEF Good, Shaped
<1>2. /\ g \in Matches /\ SameRound(h, g) /\ Fed(h, g, {}) /\ Short(h, g) /\ Heralded(h, g)
      /\ PhaseMoves(h, g) /\ Connected(g) \subseteq Connected(h)
      /\ g.alive \subseteq h.alive \ {i} /\ g.settle \in {h.settle, SETTLE_MS}
      /\ h.alive \ {i} \subseteq Connected(h) =>
            IF g.phase = "playing" THEN g.alive \subseteq Connected(g)
            ELSE g.alive \subseteq {g.winner}
      /\ (Loose(h) => Armed(g)) /\ (Two(h) => Two(g))
  BY <1>1, DropIs, EliminateMoves
<1>3. Counted(h, g) /\ (Armed(h) => Armed(g))
  BY <1>2 DEF Counted, Armed, Loose
<1>4. Onward(h, g, {})
  BY <1>2, <1>3 DEF Onward, Moved
<1>5. Connected(g) \subseteq Connected(h)
  BY <1>2
<1> QED
  BY <1>4, <1>5, GoodOnward DEF Good

-----------------------------------------------------------------------------
(* A message for which everybody has room, and the endpoints                *)

\* Nothing changes but what is on its way.
OnlyQueues(h, g) ==
    /\ SameRound(h, g) /\ g.phase = h.phase /\ g.winner = h.winner /\ g.alive = h.alive
    /\ g.settle = h.settle /\ g.connected = h.connected

\* Nobody who is told a message is lost where it fits.
LEMMA BroadcastFits ==
    ASSUME NEW h \in Matches, NEW msg \in Messages, msg.round = h.round,
           \A s \in Connected(h) : Len(h.outbox[s]) < OUTBOX_LIMIT /\ Replaced(h.outbox[s], msg) = {},
           NEW g, g = Broadcast(Drop, h, msg)
    PROVE  /\ g \in Matches /\ OnlyQueues(h, g)
           /\ \A s \in Connected(h) : g.outbox[s] = Append(h.outbox[s], msg)
<1>1. N \in Nat
  BY Numbers
<1>2. PICK told : /\ told[0] = h
                  /\ \A k \in 0..N : told[k] \in Matches
                  /\ \A k \in 1..N : told[k] = Queue(Drop, told[k - 1], k - 1, msg)
                  /\ Broadcast(Drop, h, msg) = told[N]
  BY DropIs, BroadcastLoop
<1> DEFINE Far(k) == /\ OnlyQueues(h, told[k])
                     /\ \A s \in Connected(h) :
                           told[k].outbox[s] = IF s < k THEN Append(h.outbox[s], msg) ELSE h.outbox[s]
           T == {k \in 0..N : Far(k)}
<1>3. 0 \in T
  <2>1. \A s \in Connected(h) : ~ s < 0
    <3>1. \A s \in Nat : ~ s < 0
      OBVIOUS
    <3>2. Connected(h) \subseteq Nat
      BY Numbers DEF Connected
    <3> QED
      BY <3>1, <3>2
  <2>2. OnlyQueues(h, h)
    BY DEF OnlyQueues, SameRound
  <2> QED
    BY <1>1, <1>2, <2>1, <2>2
<1>4. ASSUME NEW k \in 1..N, k - 1 \in T PROVE k \in T
  <2> DEFINE p == told[k - 1]
             q == told[k]
             i == k - 1
             held == p.outbox[i]
  <2>1. i \in 0..N /\ k \in 0..N /\ i \in Seats
    BY <1>1 DEF Seats
  <2>2. p \in Matches /\ q = Queue(Drop, p, i, msg)
    BY <1>2, <2>1
  <2>3. /\ OnlyQueues(h, p)
        /\ \A s \in Connected(h) :
              p.outbox[s] = IF s < i THEN Append(h.outbox[s], msg) ELSE h.outbox[s]
    BY <1>4
  <2>4. p.connected[i] <=> i \in Connected(h)
    BY <2>1, <2>3 DEF OnlyQueues, Connected
  <2>5. \A s \in Connected(h) : s \in Seats /\ s \in Nat /\ i \in Nat /\ k = i + 1
    BY <2>1, Numbers DEF Connected
  <2> HIDE DEF p, q, i
  <2>6. CASE ~p.connected[i]
    <3>1. q = p
      BY <2>2, <2>6 DEF Queue
    <3>2. \A s \in Connected(h) : s # i
      BY <2>4, <2>6
    <3>3. \A s \in Connected(h) : s < k <=> s < i
      BY <2>5, <3>2
    <3>4. Far(k)
      BY <2>3, <3>1, <3>3 DEF q
    <3> QED
      BY <2>1, <3>4
  <2>7. CASE p.connected[i]
    <3>1. i \in Connected(h) /\ held = h.outbox[i]
      <4>1. ~ i < i
        BY <2>1
      <4> QED
        BY <2>3, <2>4, <2>7, <4>1
    <3>2. Replaced(held, msg) = {} /\ Len(held) < OUTBOX_LIMIT
      BY <3>1
    <3>3. Len(held) \in Nat /\ OUTBOX_LIMIT \in Nat /\ held \in Seq(Messages)
      BY <2>1, <2>2, Queued, Numbers
    <3>4. ~(Len(held) >= OUTBOX_LIMIT)
      BY <3>2, <3>3
    <3> DEFINE seq == Append(held, msg)
    <3>5. q = Holding(p, i, seq)
      BY <2>2, <2>7, <3>2, <3>4 DEF Queue
    <3>6. seq \in Seq(Messages)
      BY <3>3
    <3> HIDE DEF seq
    <3>7. /\ q \in Matches /\ OnlyQueues(p, q) /\ q.outbox[i] = seq
          /\ \A s \in Seats : s # i => q.outbox[s] = p.outbox[s]
      BY <2>1, <2>2, <3>5, <3>6, HoldingIs DEF OnlyQueues
    <3>8. OnlyQueues(h, q)
      BY <2>3, <3>7 DEF OnlyQueues, SameRound
    <3>9. ASSUME NEW s \in Connected(h)
          PROVE  q.outbox[s] = IF s < k THEN Append(h.outbox[s], msg) ELSE h.outbox[s]
      <4>1. CASE s = i
        <5>1. s < k
          BY <2>5, <4>1
        <5> QED
          BY <3>1, <3>7, <4>1, <5>1 DEF seq
      <4>2. CASE s # i
        <5>1. s < k <=> s < i
          BY <2>5, <4>2
        <5> QED
          BY <2>3, <2>5, <3>7, <4>2, <5>1
      <4> QED
        BY <4>1, <4>2
    <3>10. Far(k)
      BY <3>8, <3>9 DEF q
    <3> QED
      BY <2>1, <3>10
  <2> QED
    BY <2>6, <2>7
<1>5. N \in T
  <2> HIDE DEF T
  <2> QED
    BY <1>1, <1>3, <1>4, Climb
<1>6. Far(N) /\ g = told[N] /\ told[N] \in Matches
  <2>1. N \in 0..N
    BY <1>1
  <2> QED
    BY <1>2, <1>5, <2>1
<1>7. \A s \in Connected(h) : s < N
  BY <1>1 DEF Connected, Seats
<1> QED
  BY <1>6, <1>7

\* A match and its endpoints, none of which has failed unnoticed.
Served(s) ==
    /\ s = [h |-> s.h, e |-> s.e] /\ s.h \in Matches /\ s.e \in [Seats -> Endpoints]
    /\ \A i \in Connected(s.h) : ~s.e[i].error

\* Messages have been handed over to endpoints, and nothing else has happened.
Handed(s, r) ==
    /\ Served(r) /\ OnlyQueues(s.h, r.h)
    /\ \A i \in Seats :
          /\ Way(r.h, r.e, i) = Way(s.h, s.e, i) /\ r.e[i].error = s.e[i].error
          /\ Len(r.h.outbox[i]) <= Len(s.h.outbox[i])
          /\ Len(r.e[i].queue) <= HEADROOM \/ Len(r.e[i].queue) <= Len(s.e[i].queue)

\* One seat's messages.
LEMMA FlushSeatHands ==
    ASSUME NEW s, Served(s), NEW i \in Seats
    PROVE  Handed(s, FlushSeat(s, i))
<1> DEFINE room == HEADROOM - Pending(s.e, i)
           held == s.h.outbox[i]
           k == Min({Len(held), room})
           r == FlushSeat(s, i)
           queue == s.e[i].queue
<1>0. s.h \in Matches /\ s.e \in [Seats -> Endpoints] /\ HEADROOM \in Nat
  BY MatchAssumption DEF Served
<1>1. held \in Seq(Messages) /\ Len(held) \in Nat /\ queue \in Seq(Messages) /\ Len(queue) \in Nat
  <2>1. queue \in Seq(Messages)
    BY <1>0 DEF Endpoints
  <2> QED
    BY <1>0, <2>1, Queued
<1>2. CASE r = s
  <2>1. \A j \in Seats : Len(s.h.outbox[j]) \in Nat /\ Len(s.e[j].queue) \in Nat
    BY <1>0, Queued, WayTyped
  <2>2. OnlyQueues(s.h, s.h)
    BY DEF OnlyQueues, SameRound
  <2>3. Handed(s, s)
    BY <2>1, <2>2 DEF Handed
  <2> QED
    BY <1>2, <2>3
<1>k. k \in Int /\ k <= Len(held) /\ k <= room
  <2> DEFINE a == Len(held)
  <2>1. a \in Int /\ room \in Int
    BY <1>0, <1>1 DEF Pending
  <2> HIDE DEF a, room, held
  <2>2. Min({a, room}) = IF a <= room THEN a ELSE room
    BY <2>1 DEF Min
  <2>3. k = IF a <= room THEN a ELSE room
    BY <2>2 DEF a
  <2> HIDE DEF k
  <2>4. k \in Int /\ k <= a /\ k <= room
    BY <2>1, <2>3
  <2> QED
    BY <2>4 DEF a
<1>3. CASE s.h.connected[i] /\ k > 0
  <2>1. ~s.e[i].error
    BY <1>3 DEF Served, Connected
  <2> DEFINE front == SubSeq(held, 1, k)
             rest == SubSeq(held, k + 1, Len(held))
             more == queue \o front
  <2>2. r = [h |-> Holding(s.h, i, rest), e |-> [s.e EXCEPT ![i].queue = queue \o front]]
    <3>1. ~(~s.h.connected[i] \/ k <= 0)
      <4> HIDE DEF k, room, held
      <4> QED
        BY <1>3, <1>k
    <3> QED
      BY <1>3, <2>1, <3>1 DEF FlushSeat
  <2>3. k \in Nat /\ k <= Len(held) /\ k <= room
    <3> HIDE DEF k, room, held
    <3> QED
      BY <1>3, <1>k
  <2> HIDE DEF k
  <2>4. /\ front \in Seq(Messages) /\ rest \in Seq(Messages)
        /\ Len(front) = k /\ Len(rest) = Len(held) - k
        /\ \A j \in 1..k : front[j] = held[j]
        /\ \A j \in 1..Len(held) - k : rest[j] = held[k + j]
    <3> HIDE DEF held
    <3> QED
      BY <1>1, <2>3
  <2> HIDE DEF front, rest
  <2>5. more \in Seq(Messages) /\ Len(more) = Len(queue) + k /\ more \o rest = queue \o held
    <3>1. k \in 0..Len(held)
      BY <1>1, <2>3
    <3> HIDE DEF queue, held
    <3> QED
      BY <1>1, <3>1, CutAndJoined DEF front, rest
  <2> DEFINE h == Holding(s.h, i, rest)
             e == [s.e EXCEPT ![i].queue = more]
  <2>7. /\ h \in Matches /\ OnlyQueues(s.h, h) /\ h.outbox[i] = rest
        /\ \A j \in Seats : j # i => h.outbox[j] = s.h.outbox[j]
        /\ Connected(h) = Connected(s.h)
    BY <1>0, <2>4, HoldingIs DEF OnlyQueues
  <2>8. /\ e \in [Seats -> Endpoints] /\ e[i].queue = more /\ e[i].error = s.e[i].error
        /\ \A j \in Seats : j # i => e[j] = s.e[j]
    <3> HIDE DEF more
    <3>1. s.e[i] \in Endpoints
      BY <1>0
    <3>2. [s.e[i] EXCEPT !.queue = more] \in Endpoints
      BY <2>5, <3>1 DEF Endpoints
    <3>3. [s.e[i] EXCEPT !.queue = more].queue = more /\ [s.e[i] EXCEPT !.queue = more].error = s.e[i].error
      BY <3>1 DEF Endpoints
    <3>4. e = [s.e EXCEPT ![i] = [s.e[i] EXCEPT !.queue = more]]
      OBVIOUS
    <3> QED
      BY <1>0, <3>2, <3>3, <3>4
  <2>9. r = [h |-> h, e |-> e]
    BY <2>2
  <2> HIDE DEF h, e, r
  <2>10. r.h = h /\ r.e = e /\ r = [h |-> r.h, e |-> r.e]
    BY <2>9
  <2>11. Served(r)
    <3>1. \A j \in Seats : e[j].error = s.e[j].error
      BY <2>8
    <3>2. \A j \in Connected(h) : ~e[j].error
      BY <2>7, <3>1 DEF Served, Connected
    <3> QED
      BY <2>7, <2>8, <2>10, <3>2 DEF Served
  <2>12. ASSUME NEW j \in Seats
         PROVE  /\ Way(h, e, j) = Way(s.h, s.e, j) /\ e[j].error = s.e[j].error
                /\ Len(h.outbox[j]) <= Len(s.h.outbox[j])
                /\ Len(e[j].queue) <= HEADROOM \/ Len(e[j].queue) <= Len(s.e[j].queue)
    <3>1. CASE j = i
      <4>1. Way(h, e, j) = Way(s.h, s.e, j)
        <5>1. e[j].queue = more /\ h.outbox[j] = rest
          BY <2>7, <2>8, <3>1
        <5> HIDE DEF more
        <5>2. Way(h, e, j) = more \o rest
          BY <5>1 DEF Way
        <5>3. Way(s.h, s.e, j) = queue \o held
          BY <3>1 DEF Way
        <5> QED
          BY <2>5, <5>2, <5>3
      <4>2. Len(h.outbox[j]) <= Len(s.h.outbox[j])
        <5>1. Len(held) - k <= Len(held)
          BY <1>1, <2>3
        <5> QED
          BY <2>4, <2>7, <3>1, <5>1
      <4>3. Len(e[j].queue) <= HEADROOM
        <5>1. k <= HEADROOM - Len(queue)
          BY <2>3 DEF Pending
        <5>2. Len(queue) + k <= HEADROOM
          BY <1>0, <1>1, <2>3, <5>1
        <5> QED
          BY <2>5, <2>8, <3>1, <5>2
      <4>4. e[j].error = s.e[j].error
        BY <2>8, <3>1
      <4> QED
        BY <4>1, <4>2, <4>3, <4>4
    <3>2. CASE j # i
      <4>1. h.outbox[j] = s.h.outbox[j] /\ e[j] = s.e[j]
        BY <2>7, <2>8, <3>2
      <4>2. Len(s.h.outbox[j]) \in Nat /\ Len(s.e[j].queue) \in Nat
        BY <1>0, Queued, WayTyped
      <4> QED
        BY <4>1, <4>2 DEF Way
    <3> QED
      BY <3>1, <3>2
  <2>13. Handed(s, r)
    BY <2>7, <2>10, <2>11, <2>12 DEF Handed
  <2> QED
    BY <2>13 DEF r
<1>4. CASE ~(s.h.connected[i] /\ k > 0)
  <2>1. ~s.h.connected[i] \/ k <= 0
    <3> HIDE DEF k, room, held
    <3> QED
      BY <1>4, <1>k
  <2>2. ~s.h.connected[i] \/ (k <= 0 /\ ~(k > 0))
    <3> HIDE DEF k, room, held
    <3> QED
      BY <1>k, <2>1
  <2>3. r = s
    BY <2>2 DEF FlushSeat
  <2> QED
    BY <1>2, <2>3
<1> QED
  BY <1>3, <1>4

\* Handing over goes on.
LEMMA HandedTwice ==
    ASSUME NEW s, NEW r, NEW q, Served(s), Handed(s, r), Handed(r, q)
    PROVE  Handed(s, q)
<1>1. OnlyQueues(s.h, q.h) /\ Served(q) /\ Served(r)
  BY DEF Handed, OnlyQueues, SameRound
<1>2. ASSUME NEW i \in Seats
      PROVE  /\ Len(q.h.outbox[i]) <= Len(s.h.outbox[i])
             /\ Len(q.e[i].queue) <= HEADROOM \/ Len(q.e[i].queue) <= Len(s.e[i].queue)
  <2>1. /\ Len(s.h.outbox[i]) \in Nat /\ Len(r.h.outbox[i]) \in Nat /\ Len(q.h.outbox[i]) \in Nat
        /\ Len(s.e[i].queue) \in Nat /\ Len(r.e[i].queue) \in Nat /\ Len(q.e[i].queue) \in Nat
    BY <1>1, Queued, WayTyped DEF Served
  <2>2. HEADROOM \in Nat
    BY MatchAssumption
  <2> DEFINE a == Len(q.e[i].queue)
             b == Len(r.e[i].queue)
             c == Len(s.e[i].queue)
             x == Len(q.h.outbox[i])
             y == Len(r.h.outbox[i])
             z == Len(s.h.outbox[i])
  <2>3. /\ x <= y /\ y <= z
        /\ a <= HEADROOM \/ a <= b
        /\ b <= HEADROOM \/ b <= c
    BY DEF Handed
  <2>4. {a, b, c, x, y, z} \subseteq Nat
    BY <2>1
  <2> HIDE DEF a, b, c, x, y, z
  <2>5. x <= z
    BY <2>3, <2>4
  <2>6. a <= HEADROOM \/ a <= c
    BY <2>2, <2>3, <2>4
  <2>7. Len(q.h.outbox[i]) <= Len(s.h.outbox[i])
    BY <2>5 DEF x, z
  <2>8. Len(q.e[i].queue) <= HEADROOM \/ Len(q.e[i].queue) <= Len(s.e[i].queue)
    BY <2>6 DEF a, c
  <2> QED
    BY <2>7, <2>8
<1>3. \A i \in Seats : Way(q.h, q.e, i) = Way(s.h, s.e, i) /\ q.e[i].error = s.e[i].error
  BY DEF Handed
<1> QED
  BY <1>1, <1>2, <1>3 DEF Handed

\* All seats' messages.
LEMMA FlushHands ==
    ASSUME NEW s, Served(s)
    PROVE  Handed(s, Flush(s))
<1>1. N \in Nat
  BY Numbers
<1> DEFINE U == {r \in [h : Matches, e : [Seats -> Endpoints]] : Handed(s, r)}
           step == [k \in 1..N |-> [r \in U |-> FlushSeat(r, k - 1)]]
<1>2. ASSUME NEW r, Handed(s, r) PROVE r \in U
  <2>1. r = [h |-> r.h, e |-> r.e] /\ r.h \in Matches /\ r.e \in [Seats -> Endpoints]
    BY <1>2 DEF Handed, Served
  <2> DEFINE a == r.h
             b == r.e
  <2> HIDE DEF a, b
  <2>2. r = [h |-> a, e |-> b] /\ a \in Matches /\ b \in [Seats -> Endpoints]
    BY <2>1 DEF a, b
  <2>3. r \in [h : Matches, e : [Seats -> Endpoints]]
    BY <2>2
  <2> QED
    BY <1>2, <2>3
<1>3. s \in U
  <2>1. \A j \in Seats : Len(s.h.outbox[j]) \in Nat /\ Len(s.e[j].queue) \in Nat
    BY Queued, WayTyped DEF Served
  <2>2. OnlyQueues(s.h, s.h)
    BY DEF OnlyQueues, SameRound
  <2>3. Handed(s, s)
    BY <2>1, <2>2 DEF Handed
  <2> QED
    BY <1>2, <2>3
<1>4. ASSUME NEW k \in 1..N, NEW r \in U PROVE FlushSeat(r, k - 1) \in U
  <2>1. k - 1 \in Seats
    BY <1>1 DEF Seats
  <2>2. Handed(s, r) /\ Served(r)
    BY DEF Handed
  <2>3. Handed(r, FlushSeat(r, k - 1))
    BY <2>1, <2>2, FlushSeatHands
  <2>4. Handed(s, FlushSeat(r, k - 1))
    BY <2>2, <2>3, HandedTwice
  <2> HIDE DEF U
  <2> QED
    BY <1>2, <2>4
<1>5. step \in [1..N -> [U -> U]]
  <2> HIDE DEF U
  <2> QED
    BY <1>4
<1>6. Steps(N, U, s, step)
  <2> HIDE DEF U, step
  <2> QED
    BY <1>1, <1>3, <1>5 DEF Steps
<1>7. PICK fed : Lists(fed, N, U, s, step)
  <2> HIDE DEF U, step
  <2> QED
    BY <1>6, Iterated
<1>8. /\ fed \in [0..N -> U] /\ fed[0] = s
      /\ \A k \in 1..N : fed[k] = FlushSeat(fed[k - 1], k - 1)
  <2>1. fed \in [0..N -> U] /\ fed[0] = s /\ \A k \in 1..N : fed[k] = step[k][fed[k - 1]]
    BY <1>7 DEF Lists
  <2>2. ASSUME NEW k \in 1..N PROVE fed[k] = FlushSeat(fed[k - 1], k - 1)
    <3>1. k - 1 \in 0..N
      BY <1>1
    <3>2. fed[k - 1] \in U
      BY <2>1, <3>1
    <3> HIDE DEF U
    <3> QED
      BY <2>1, <3>2
  <2> QED
    BY <2>1, <2>2
<1> DEFINE Body(f) == [k \in 0..N |-> IF k = 0 THEN s ELSE FlushSeat(f[k - 1], k - 1)]
<1>9. fed = Body(fed)
  <2>1. \A k \in 0..N : k = 0 \/ k \in 1..N
    BY <1>1
  <2> HIDE DEF U
  <2> QED
    BY <1>8, <2>1
<1>10. \A f : f = Body(f) => f[N] = fed[N]
  <2> SUFFICES ASSUME NEW f, f = Body(f) PROVE f[N] = fed[N]
    OBVIOUS
  <2> DEFINE T == {k \in 0..N : f[k] = fed[k]}
  <2>1. 0 \in T
    <3>1. 0 \in 0..N
      BY <1>1
    <3>2. f[0] = Body(f)[0]
      OBVIOUS
    <3> QED
      BY <1>8, <3>1, <3>2
  <2>2. ASSUME NEW k \in 1..N, k - 1 \in T PROVE k \in T
    <3>1. k \in 0..N /\ k # 0
      BY <1>1
    <3>2. f[k] = Body(f)[k]
      OBVIOUS
    <3>3. f[k] = FlushSeat(f[k - 1], k - 1)
      BY <3>1, <3>2
    <3> QED
      BY <1>8, <2>2, <3>1, <3>3
  <2>3. N \in T
    <3> HIDE DEF T
    <3> QED
      BY <1>1, <2>1, <2>2, Climb
  <2> QED
    BY <2>3
<1>11. Flush(s) = (CHOOSE f : f = Body(f))[N]
  BY DEF Flush
<1>12. Flush(s) = fed[N]
  <2> HIDE DEF Body
  <2> QED
    BY <1>9, <1>10, <1>11
<1>13. fed[N] \in U
  <2>1. N \in 0..N
    BY <1>1
  <2> QED
    BY <1>8, <2>1
<1> QED
  BY <1>12, <1>13

\* No seat is lost to the scan: what fails is lost in the call that fails it.
LEMMA NothingScanned ==
    ASSUME NEW s, Served(s)
    PROVE  Scanned(s) = s
<1>1. N \in Nat
  BY Numbers
<1>2. ASSUME NEW k \in 1..N PROVE ScanSeat(s, k - 1) = s
  <2>1. k - 1 \in Seats
    BY <1>1 DEF Seats
  <2>2. ~(s.h.connected[k - 1] /\ s.e[k - 1].error)
    BY <2>1 DEF Served, Connected
  <2> QED
    BY <2>2 DEF ScanSeat
<1> DEFINE Body(f) == [k \in 0..N |-> IF k = 0 THEN s ELSE ScanSeat(f[k - 1], k - 1)]
           seen == [k \in 0..N |-> s]
<1>3. seen = Body(seen)
  <2>1. ASSUME NEW k \in 0..N PROVE seen[k] = IF k = 0 THEN s ELSE ScanSeat(seen[k - 1], k - 1)
    <3>1. CASE k = 0
      BY <3>1
    <3>2. CASE k # 0
      <4>1. k \in 1..N /\ k - 1 \in 0..N
        BY <1>1, <3>2
      <4>2. seen[k - 1] = s /\ seen[k] = s
        BY <4>1
      <4> HIDE DEF seen
      <4> QED
        BY <1>2, <3>2, <4>1, <4>2
    <3> QED
      BY <3>1, <3>2
  <2>2. seen = [k \in 0..N |-> seen[k]]
    OBVIOUS
  <2> HIDE DEF seen
  <2> QED
    BY <2>1, <2>2
<1>4. \A f : f = Body(f) => f[N] = s
  <2> SUFFICES ASSUME NEW f, f = Body(f) PROVE f[N] = s
    OBVIOUS
  <2> DEFINE T == {k \in 0..N : f[k] = s}
  <2>1. 0 \in T
    <3>1. 0 \in 0..N
      BY <1>1
    <3>2. f[0] = Body(f)[0]
      OBVIOUS
    <3> QED
      BY <3>1, <3>2
  <2>2. ASSUME NEW k \in 1..N, k - 1 \in T PROVE k \in T
    <3>1. k \in 0..N /\ k # 0
      BY <1>1
    <3>2. f[k] = Body(f)[k]
      OBVIOUS
    <3>3. f[k] = ScanSeat(f[k - 1], k - 1)
      BY <3>1, <3>2
    <3> QED
      BY <1>2, <2>2, <3>1, <3>3
  <2>3. N \in T
    <3> HIDE DEF T
    <3> QED
      BY <1>1, <2>1, <2>2, Climb
  <2> QED
    BY <2>3
<1>5. Scanned(s) = (CHOOSE f : f = Body(f))[N]
  BY DEF Scanned
<1> HIDE DEF Body, seen
<1> QED
  BY <1>3, <1>4, <1>5

\* The invariant is kept where messages are handed over.
LEMMA HandedGood ==
    ASSUME NEW s, NEW r, NEW t, Served(s), Good(s.h, s.e, t), Handed(s, r)
    PROVE  Good(r.h, r.e, t)
<1>1. /\ OnlyQueues(s.h, r.h) /\ SameRound(s.h, r.h) /\ Connected(r.h) = Connected(s.h)
      /\ r.h.round = s.h.round /\ r.h.seed = s.h.seed /\ r.h.wins = s.h.wins
      /\ r.h.finish = s.h.finish /\ r.h.prepared = s.h.prepared
      /\ r.h.garbageId = s.h.garbageId /\ r.h.phase = s.h.phase /\ r.h.winner = s.h.winner
      /\ r.h.alive = s.h.alive /\ r.h.settle = s.h.settle
  BY DEF Handed, OnlyQueues, SameRound, Connected
<1>2. /\ r.h \in Matches /\ r.e \in [Seats -> Endpoints] /\ \A j \in Connected(r.h) : ~r.e[j].error
      /\ s.h \in Matches /\ s.e \in [Seats -> Endpoints]
  BY DEF Handed, Served
<1>3. \A i \in Seats : Way(r.h, r.e, i) = Way(s.h, s.e, i)
  BY DEF Handed
<1>4. Shaped(r.h, r.e, t)
  <2>1. ASSUME NEW i \in Seats
        PROVE  Len(r.h.outbox[i]) <= OUTBOX_LIMIT /\ Len(r.e[i].queue) <= HEADROOM
    <3>1. /\ Len(s.h.outbox[i]) \in Nat /\ Len(r.h.outbox[i]) \in Nat
          /\ Len(s.e[i].queue) \in Nat /\ Len(r.e[i].queue) \in Nat
      BY <1>2, Queued, WayTyped
    <3>2. HEADROOM \in Nat /\ OUTBOX_LIMIT \in Nat
      BY MatchAssumption, Numbers
    <3>3. /\ Len(r.h.outbox[i]) <= Len(s.h.outbox[i]) /\ Len(s.h.outbox[i]) <= OUTBOX_LIMIT
          /\ Len(r.e[i].queue) <= HEADROOM \/ Len(r.e[i].queue) <= Len(s.e[i].queue)
          /\ Len(s.e[i].queue) <= HEADROOM
      BY DEF Handed, Good, Shaped
    <3> DEFINE a == Len(s.h.outbox[i])
               b == Len(r.h.outbox[i])
               c == Len(s.e[i].queue)
               d == Len(r.e[i].queue)
    <3> HIDE DEF a, b, c, d
    <3>4. /\ a \in Nat /\ b \in Nat /\ c \in Nat /\ d \in Nat
          /\ b <= a /\ a <= OUTBOX_LIMIT /\ (d <= HEADROOM \/ d <= c) /\ c <= HEADROOM
      BY <3>1, <3>3 DEF a, b, c, d
    <3>5. b <= OUTBOX_LIMIT /\ d <= HEADROOM
      BY <3>2, <3>4
    <3> QED
      BY <3>5 DEF b, d
  <2> QED
    BY <1>1, <1>2, <2>1 DEF Good, Shaped
<1>5. Phased(r.h)
  BY <1>1 DEF Good, Phased, Champion, Armed
<1>6. ASSUME NEW w PROVE Named(s.h, w) <=> Named(r.h, w)
  BY <1>1 DEF Named, Champion
<1>7. Lines(r.h, r.e, t, Connected(r.h))
  <2>1. \A i \in Connected(r.h) : i \in Seats
    BY DEF Connected
  <2>2. ASSUME NEW i \in Connected(r.h)
        PROVE  /\ Honest(r.h, Way(r.h, r.e, i)) /\ (t[i].final = Unset \/ Named(r.h, t[i].final))
    <3>1. Honest(s.h, Way(s.h, s.e, i)) /\ (t[i].final = Unset \/ Named(s.h, t[i].final))
      BY <1>1 DEF Good, Lines
    <3> QED
      BY <1>1, <1>3, <1>6, <2>1, <3>1 DEF Honest
  <2>3. ASSUME NEW i \in Connected(r.h)
        PROVE  /\ Fresh(s.h, i, Way(s.h, s.e, i), t[i]) => Fresh(r.h, i, Way(r.h, r.e, i), t[i])
               /\ Ready(s.h, i, Way(s.h, s.e, i), t[i]) => Ready(r.h, i, Way(r.h, r.e, i), t[i])
    BY <1>1, <1>3, <2>1 DEF Fresh, Ready
  <2> QED
    BY <1>1, <2>2, <2>3 DEF Good, Lines
<1>8. Naming(r.h, r.e, t)
  <2>1. \A i \in Connected(r.h) : i \in Seats
    BY DEF Connected
  <2>2. \A i \in Connected(r.h) : Hears(s.h, s.e, t, i) => Hears(r.h, r.e, t, i)
    BY <1>3, <2>1 DEF Hears
  <2> QED
    BY <1>1, <2>2 DEF Good, Naming, Closed
<1>9. Quiet(r.h, r.e, t)
  <2> SUFFICES ASSUME r.h.phase = "lobby", NEW i \in Seats
               PROVE  /\ r.h.outbox[i] = <<>> /\ t[i].round = 0
                      /\ \A k \in DOMAIN r.e[i].queue : r.e[i].queue[k].type = "BEAT"
    BY DEF Quiet
  <2>1. /\ s.h.outbox[i] = <<>> /\ t[i].round = 0
        /\ \A k \in DOMAIN s.e[i].queue : s.e[i].queue[k].type = "BEAT"
    BY <1>1 DEF Good, Quiet
  <2> DEFINE o == r.h.outbox[i]
             q == r.e[i].queue
             v == s.e[i].queue
  <2>2. o \in Seq(Messages) /\ q \in Seq(Messages) /\ v \in Seq(Messages)
    BY <1>2, WayTyped
  <2>3. Len(o) <= 0
    <3>1. Len(o) <= Len(s.h.outbox[i])
      BY DEF Handed
    <3> QED
      BY <2>1, <3>1
  <2>4. q \o o = v \o <<>>
    BY <1>3, <2>1 DEF Way
  <2> HIDE DEF o, q, v
  <2>5. o = <<>>
    BY <2>2, <2>3
  <2>6. q = v
    BY <2>2, <2>4, <2>5
  <2> QED
    BY <2>1, <2>5, <2>6 DEF o, q, v
<1> QED
  BY <1>4, <1>5, <1>7, <1>8, <1>9 DEF Good

-----------------------------------------------------------------------------
(* What a tick does to the phase                                            *)

\* The toys are told what they were told before.
LEMMA LinesStay ==
    ASSUME NEW h, NEW g, NEW e, NEW t, NEW S, S \subseteq Seats, Lines(h, e, t, S),
           g.round = h.round, g.seed = h.seed, g.garbageId = h.garbageId, g.outbox = h.outbox,
           \A i \in S : h.prepared[i] => g.prepared[i],
           \A w : Named(h, w) => Named(g, w),
           h.phase \in {"lobby", "preparing"} => g.phase \in {"lobby", "preparing"},
           h.phase \notin {"lobby", "preparing", "aborted"} =>
               g.phase \notin {"lobby", "preparing", "aborted"},
           h.phase = "aborted" => g.phase = "aborted"
    PROVE  Lines(g, e, t, S)
<1>1. \A i \in S : Way(g, e, i) = Way(h, e, i)
  BY DEF Way
<1>2. \A i \in S : Honest(g, Way(g, e, i)) /\ (t[i].final = Unset \/ Named(g, t[i].final))
  BY <1>1 DEF Lines, Honest
<1>3. \A i \in S : Fresh(h, i, Way(h, e, i), t[i]) => Fresh(g, i, Way(g, e, i), t[i])
  BY <1>1 DEF Fresh
<1>4. \A i \in S : Ready(h, i, Way(h, e, i), t[i]) => Ready(g, i, Way(g, e, i), t[i])
  BY <1>1 DEF Ready
<1> QED
  BY <1>2, <1>3, <1>4 DEF Lines

\* With everything acknowledged nothing is on its way.
LEMMA DrainedWays ==
    ASSUME NEW h \in Matches, NEW e \in [Seats -> Endpoints], Drained(h, e)
    PROVE  \A i \in Connected(h) : /\ h.outbox[i] = <<>> /\ e[i].queue = <<>>
                                   /\ Way(h, e, i) = <<>>
<1> SUFFICES ASSUME NEW i \in Connected(h)
             PROVE  h.outbox[i] = <<>> /\ e[i].queue = <<>> /\ Way(h, e, i) = <<>>
  OBVIOUS
<1>1. h.outbox[i] = <<>> /\ Len(e[i].queue) = 0
  BY DEF Drained, Pending
<1>2. e[i].queue \in Seq(Messages)
  BY WayTyped DEF Connected
<1>3. e[i].queue = <<>>
  BY <1>1, <1>2
<1> QED
  BY <1>1, <1>3 DEF Way

\* preparing -> countdown
LEMMA CountdownGood ==
    ASSUME NEW h, NEW e, NEW t, Good(h, e, t), h.phase = "preparing",
           AllPrepared(h), Drained(h, e),
           NEW g, g = [h EXCEPT !.phase = "countdown", !.deadline = COUNTDOWN_MS]
    PROVE  /\ Good(g, e, t) /\ g.phase = "countdown" /\ g.round = h.round
           /\ Connected(g) = Connected(h) /\ g.alive = h.alive /\ g.wins = h.wins
           /\ g.winner = h.winner /\ g.finish = h.finish
<1>1. h \in Matches /\ e \in [Seats -> Endpoints]
  BY DEF Good, Shaped
<1>2. COUNTDOWN_MS \in Int
  BY MatchAssumption
<1>3. g \in Matches
  BY <1>1, <1>2 DEF Matches, Phases
<1>4. /\ g.phase = "countdown" /\ g.round = h.round /\ g.connected = h.connected
      /\ g.alive = h.alive /\ g.wins = h.wins /\ g.winner = h.winner /\ g.finish = h.finish
      /\ g.seed = h.seed /\ g.settle = h.settle /\ g.garbageId = h.garbageId
      /\ g.outbox = h.outbox /\ g.prepared = h.prepared
  BY <1>1 DEF Matches
<1>5. Connected(g) = Connected(h)
  BY <1>4 DEF Connected
<1>6. Shaped(g, e, t)
  BY <1>3, <1>4, <1>5 DEF Good, Shaped
<1>7. Phased(g)
  BY <1>4, <1>5 DEF Good, Phased, Before
<1>8. Lines(g, e, t, Connected(g))
  <2> SUFFICES ASSUME NEW i \in Connected(h)
               PROVE  /\ Honest(g, Way(g, e, i)) /\ (t[i].final = Unset \/ Named(g, t[i].final))
                      /\ Ready(g, i, Way(g, e, i), t[i])
    BY <1>4, <1>5 DEF Lines
  <2>1. Way(g, e, i) = <<>> /\ Way(h, e, i) = <<>>
    BY <1>1, <1>4, DrainedWays DEF Way
  <2>2. Fresh(h, i, Way(h, e, i), t[i]) /\ (t[i].final = Unset \/ Named(h, t[i].final))
    BY DEF Good, Lines
  <2>3. Honest(g, Way(g, e, i))
    BY <2>1 DEF Honest
  <2>4. t[i].final = Unset \/ Named(g, t[i].final)
    BY <1>4, <2>2 DEF Named, Champion
  <2>5. t[i].round = h.round /\ t[i].seed = h.seed /\ t[i].garbage = 0 /\ h.garbageId[i] = 0
    BY <2>1, <2>2 DEF Fresh
  <2>6. Attacks(<<>>) = {}
    BY DEF Attacks
  <2>7. 0 + 1 .. 0 = {}
    OBVIOUS
  <2>8. InOrder(<<>>, 0, 0)
    BY <2>6, <2>7 DEF InOrder
  <2>9. g.prepared[i]
    BY <1>4 DEF AllPrepared
  <2>10. Ready(g, i, <<>>, t[i])
    BY <1>4, <2>5, <2>8, <2>9 DEF Ready
  <2> QED
    BY <2>1, <2>3, <2>4, <2>10
<1>9. Naming(g, e, t) /\ Quiet(g, e, t)
  BY <1>4 DEF Naming, Closed, Quiet
<1> QED
  BY <1>4, <1>5, <1>6, <1>7, <1>8, <1>9 DEF Good

\* round-result -> results, when two wins have decided the match
LEMMA CloseGood ==
    ASSUME NEW h, NEW e, NEW t, Good(h, e, t), h.phase = "round-result", h.finish,
           NEW g, g = [h EXCEPT !.phase = "results"]
    PROVE  /\ Good(g, e, t) /\ g.phase = "results" /\ g.round = h.round
           /\ Connected(g) = Connected(h) /\ g.alive = h.alive /\ g.wins = h.wins
           /\ g.winner = h.winner /\ g.finish = h.finish
<1>1. h \in Matches /\ e \in [Seats -> Endpoints]
  BY DEF Good, Shaped
<1>3. g \in Matches
  BY <1>1 DEF Matches, Phases
<1>4. /\ g.phase = "results" /\ g.round = h.round /\ g.connected = h.connected
      /\ g.alive = h.alive /\ g.wins = h.wins /\ g.winner = h.winner /\ g.finish = h.finish
      /\ g.seed = h.seed /\ g.settle = h.settle /\ g.garbageId = h.garbageId
      /\ g.outbox = h.outbox /\ g.prepared = h.prepared
  BY <1>1 DEF Matches
<1>5. Connected(g) = Connected(h)
  BY <1>4 DEF Connected
<1>6. Shaped(g, e, t)
  BY <1>3, <1>4, <1>5 DEF Good, Shaped
<1>7. Phased(g)
  <2>1. h.winner \in Seats
    BY DEF Good, Phased
  <2>2. h.winner # Unset
    BY <2>1, Numbers
  <2> QED
    BY <1>4, <2>2 DEF Phased, Before
<1>8. Lines(g, e, t, Connected(g))
  <2>1. \A w : Named(h, w) => Named(g, w)
    BY <1>4 DEF Named, Champion
  <2>2. Connected(g) \subseteq Seats /\ Lines(h, e, t, Connected(g))
    BY <1>5 DEF Good, Connected
  <2> QED
    BY <1>4, <2>1, <2>2, LinesStay
<1>9. Naming(g, e, t) /\ Quiet(g, e, t)
  <2>1. \A i \in Connected(h) : Hears(h, e, t, i)
    BY DEF Good, Naming, Closed
  <2>2. \A i \in Connected(h) : Hears(g, e, t, i)
    BY <1>4, <2>1 DEF Hears, Way
  <2> QED
    BY <1>4, <1>5, <2>2 DEF Naming, Quiet
<1> QED
  BY <1>4, <1>5, <1>6, <1>7, <1>8, <1>9 DEF Good

\* What closing a round says: s has won it, or nobody.
RoundClosed(h, g, s) ==
    /\ s \in h.alive \cup {TIE} /\ (s = TIE <=> h.alive = {})
    /\ g.wins = [p \in Seats |-> IF p = s THEN h.wins[p] + 1 ELSE h.wins[p]]
    /\ g.finish = (s # TIE /\ g.wins[s] >= 2)
    /\ g.round = h.round /\ g.alive = h.alive

\* The seats that are left are too few to go on.
Forfeited(h, g) ==
    /\ Few(Connected(g)) /\ g.phase = "results"
    /\ g.winner \in IF Connected(g) = {} THEN Connected(h) \cup {TIE} ELSE Connected(g)

\* The round is decided, before anybody is told.
LEMMA RoundDecided ==
    ASSUME NEW h, NEW e, NEW t, Good(h, e, t), h.phase = "playing", h.settle = 0,
           NEW won, won = RoundWinner(h), NEW f, f = Decided(h)
    PROVE  /\ Shaped(f, e, t) /\ Phased(f) /\ f.phase = "round-result" /\ f.winner = won
           /\ Lines(f, e, t, Connected(f)) /\ Connected(f) = Connected(h)
           /\ RoundClosed(h, f, won)
<1>1. h \in Matches /\ e \in [Seats -> Endpoints]
  BY DEF Good, Shaped
<1>2. h.alive \in SUBSET Seats /\ h.wins \in [Seats -> Nat]
  BY <1>1 DEF Matches
<1> DEFINE k == [h EXCEPT !.winner = won, !.wins = Scored(h, won),
                         !.phase = "round-result", !.deadline = RESULT_MS]
<1>f. f = [k EXCEPT !.finish = Champion(k, won)]
  BY DEF Decided
<1> HIDE DEF k
<1>3. won \in h.alive \cup {TIE} /\ (won = TIE <=> h.alive = {})
  <2>1. Few(h.alive)
    <3>1. Armed(h)
      BY DEF Good, Phased
    <3>2. 0 # Unset
      BY DEF Unset
    <3> QED
      BY <3>1, <3>2 DEF Armed
  <2>2. CASE h.alive = {}
    BY <2>2 DEF RoundWinner
  <2>3. CASE h.alive # {}
    <3>1. PICK a \in h.alive : h.alive = {a}
      BY <2>1, <2>3 DEF Few
    <3>2. a \in Nat
      BY <1>2, Numbers
    <3>3. Max({a}) = a
      <4>1. \A y \in {a} : a >= y
        BY <3>2
      <4> QED
        BY <4>1 DEF Max
    <3>4. TIE \notin h.alive
      BY <1>2, Numbers
    <3> QED
      BY <2>3, <3>1, <3>3, <3>4 DEF RoundWinner
  <2> QED
    BY <2>2, <2>3
<1> DEFINE wins == Scored(h, won)
<1>4. /\ wins \in [Seats -> Nat]
      /\ wins = [p \in Seats |-> IF p = won THEN h.wins[p] + 1 ELSE h.wins[p]]
      /\ \A p \in Seats : wins[p] >= h.wins[p]
  <2>1. CASE won = TIE
    <3>1. \A p \in Seats : p # won
      BY <2>1, Numbers
    <3>2. \A p \in Seats : h.wins[p] \in Nat
      BY <1>2
    <3>3. \A n \in Nat : n >= n
      OBVIOUS
    <3> QED
      BY <1>2, <2>1, <3>1, <3>2, <3>3 DEF Scored
  <2>2. CASE won # TIE
    <3>1. won \in Seats
      BY <1>2, <1>3, <2>2
    <3>2. \A p \in Seats : h.wins[p] \in Nat
      BY <1>2
    <3> QED
      BY <1>2, <2>2, <3>1, <3>2 DEF Scored
  <2> QED
    BY <2>1, <2>2
<1> HIDE DEF wins
<1>5. k = [[[[h EXCEPT !.winner = won] EXCEPT !.wins = wins] EXCEPT !.phase = "round-result"]
              EXCEPT !.deadline = RESULT_MS]
  BY DEF wins, k
<1>6. won \in Winners /\ RESULT_MS \in Int
  BY <1>2, <1>3, MatchAssumption DEF Winners
<1>7. k \in Matches
  <2> DEFINE a == [h EXCEPT !.winner = won]
             b == [a EXCEPT !.wins = wins]
             c == [b EXCEPT !.phase = "round-result"]
  <2>1. a \in Matches
    BY <1>1, <1>6 DEF Matches
  <2> HIDE DEF a
  <2>2. b \in Matches
    BY <1>4, <2>1 DEF Matches
  <2> HIDE DEF b
  <2>3. c \in Matches
    BY <2>2 DEF Matches, Phases
  <2> HIDE DEF c
  <2>4. [c EXCEPT !.deadline = RESULT_MS] \in Matches
    BY <1>6, <2>3 DEF Matches
  <2> QED
    BY <1>5, <2>4 DEF a, b, c
<1>8. /\ k.winner = won /\ k.wins = wins /\ k.phase = "round-result" /\ k.round = h.round
      /\ k.seed = h.seed /\ k.alive = h.alive /\ k.settle = h.settle /\ k.connected = h.connected
      /\ k.prepared = h.prepared /\ k.garbageId = h.garbageId /\ k.outbox = h.outbox
  BY <1>1, <1>5 DEF Matches
<1>9. Champion(k, won) \in BOOLEAN /\ (Champion(k, won) <=> won # TIE /\ wins[won] >= 2)
  BY <1>8 DEF Champion
<1>10. f \in Matches
  <2> DEFINE c == Champion(k, won)
  <2>1. c \in BOOLEAN /\ f = [k EXCEPT !.finish = c]
    BY <1>9, <1>f
  <2> HIDE DEF c
  <2> QED
    BY <1>7, <2>1 DEF Matches
<1>11. /\ f.winner = won /\ f.wins = wins /\ f.phase = "round-result" /\ f.round = h.round
       /\ f.seed = h.seed /\ f.alive = h.alive /\ f.settle = h.settle /\ f.connected = h.connected
       /\ f.prepared = h.prepared /\ f.garbageId = h.garbageId /\ f.outbox = h.outbox
       /\ f.finish = Champion(k, won)
  <2> DEFINE c == Champion(k, won)
  <2>1. f = [k EXCEPT !.finish = c]
    BY <1>f
  <2> HIDE DEF c
  <2>2. /\ f.winner = k.winner /\ f.wins = k.wins /\ f.phase = k.phase /\ f.round = k.round
        /\ f.seed = k.seed /\ f.alive = k.alive /\ f.settle = k.settle /\ f.connected = k.connected
        /\ f.prepared = k.prepared /\ f.garbageId = k.garbageId /\ f.outbox = k.outbox
        /\ f.finish = c
    BY <1>7, <2>1 DEF Matches
  <2> QED
    BY <1>8, <2>2 DEF c
<1>12. Connected(f) = Connected(h)
  BY <1>11 DEF Connected
<1>13. Shaped(f, e, t)
  BY <1>10, <1>11, <1>12 DEF Good, Shaped
<1>14. Phased(f)
  <2>1. ~Few(Connected(h))
    BY DEF Good, Phased
  <2>2. f.finish => f.winner \in Seats /\ Champion(f, f.winner)
    <3> SUFFICES ASSUME f.finish PROVE f.winner \in Seats /\ Champion(f, f.winner)
      OBVIOUS
    <3>1. won # TIE /\ wins[won] >= 2
      BY <1>9, <1>11
    <3>2. won \in Seats
      BY <1>2, <1>3, <3>1
    <3> QED
      BY <1>11, <3>1, <3>2 DEF Champion
  <2> QED
    BY <1>11, <1>12, <2>1, <2>2 DEF Phased, Before
<1>15. Lines(f, e, t, Connected(f))
  <2>1. ASSUME NEW w, Named(h, w) PROVE Named(f, w)
    <3>1. w \in Seats /\ w # TIE /\ h.wins[w] >= 2
      BY <2>1 DEF Named, Champion
    <3>2. wins[w] >= 2
      <4>1. wins[w] \in Nat /\ h.wins[w] \in Nat /\ wins[w] >= h.wins[w]
        BY <1>2, <1>4, <3>1
      <4> QED
        BY <3>1, <4>1
    <3> QED
      BY <1>11, <3>1, <3>2 DEF Named, Champion
  <2>2. Connected(f) \subseteq Seats /\ Lines(h, e, t, Connected(f))
    BY <1>12 DEF Good, Connected
  <2> QED
    BY <1>11, <2>1, <2>2, LinesStay
<1>16. RoundClosed(h, f, won)
  BY <1>3, <1>4, <1>9, <1>11 DEF RoundClosed
<1> QED
  BY <1>11, <1>12, <1>13, <1>14, <1>15, <1>16

\* playing -> round-result
LEMMA FinishRoundGood ==
    ASSUME NEW h, NEW e, NEW t, Good(h, e, t), h.phase = "playing", h.settle = 0,
           NEW g, g = FinishRound(h)
    PROVE  /\ Good(g, e, t) /\ Connected(g) \subseteq Connected(h) /\ Few(h.alive)
           /\ \E s : /\ RoundClosed(h, g, s)
                     /\ \/ ~Few(Connected(g)) /\ g.phase = "round-result" /\ g.winner = s
                        \/ Forfeited(h, g)
<1> DEFINE won == RoundWinner(h)
           f == Decided(h)
           told == Broadcast(Drop, f, RESULT(f))
<1>1. /\ Shaped(f, e, t) /\ Phased(f) /\ f.phase = "round-result" /\ f.winner = won
      /\ Lines(f, e, t, Connected(f)) /\ Connected(f) = Connected(h)
      /\ RoundClosed(h, f, won)
  BY RoundDecided
<1>2. g = IF told.finish THEN Broadcast(Drop, told, FINAL(told)) ELSE told
  BY DEF FinishRound
<1> HIDE DEF won, f
<1>3. f \in Matches /\ e \in [Seats -> Endpoints] /\ N \in Nat /\ Breadth(f) <= N
  BY <1>1, DropIs DEF Shaped
<1>4. Onward(f, told, {RESULT(f)}) /\ RESULT(f).round = f.round /\ RESULT(f).type = "RESULT"
  <2> DEFINE msg == RESULT(f)
  <2>1. msg \in Messages /\ msg.round = f.round /\ msg.type = "RESULT"
    BY <1>3, Sendable DEF RESULT
  <2> HIDE DEF msg, told
  <2>2. told = Broadcast(Drop, f, msg)
    BY DEF told, msg
  <2>3. Onward(f, told, {msg})
    BY <1>3, <2>1, <2>2, DropIs, BroadcastOnward
  <2> QED
    BY <2>1, <2>3 DEF msg
<1> HIDE DEF told
<1>5. /\ told \in Matches /\ SameRound(f, told) /\ PhaseMoves(f, told) /\ Counted(f, told)
      /\ Connected(told) \subseteq Connected(f)
  BY <1>4 DEF Onward, Moved, Counted
<1>6. /\ Shaped(told, e, t) /\ Phased(told) /\ told.phase # "lobby"
      /\ Lines(told, e, t, Connected(told))
  BY <1>1, <1>4, <1>5, SoundOnward
<1>7. /\ Good(g, e, t) /\ \E Y : Onward(f, g, Y)
  <2>1. CASE ~told.finish
    <3>1. g = told
      BY <1>2, <2>1
    <3>2. Naming(f, e, t)
      <4>1. ~Closed(f)
        BY <1>1, <1>5, <2>1 DEF Closed, SameRound
      <4> QED
        BY <4>1 DEF Naming
    <3>3. Naming(told, e, t)
      BY <1>3, <1>4, <3>2, NamingOnward
    <3>4. Good(told, e, t)
      BY <1>6, <3>3 DEF Good, Quiet
    <3> QED
      BY <1>4, <3>1, <3>4
  <2>2. CASE told.finish
    <3> DEFINE msg == FINAL(told)
    <3>1. msg \in Messages /\ msg.round = told.round /\ msg.type = "FINAL" /\ msg.winner = told.winner
      BY <1>5, Sendable DEF FINAL
    <3>2. g = Broadcast(Drop, told, msg)
      BY <1>2, <2>2
    <3> HIDE DEF msg
    <3>3. Breadth(told) <= N
      BY <1>5, DropIs
    <3>4. /\ Onward(told, g, {msg})
          /\ \A s \in Connected(g) : Sent(told, g, s, msg)
      BY <1>3, <1>5, <3>1, <3>2, <3>3, DropIs, BroadcastOnward
    <3>5. g \in Matches /\ SameRound(told, g) /\ PhaseMoves(told, g) /\ Connected(g) \subseteq Connected(told)
          /\ Fed(told, g, {msg})
      BY <3>4 DEF Onward, Moved, Counted
    <3>6. Named(told, told.winner)
      <4>1. told.phase \in {"round-result", "results"}
        BY <1>1, <1>5 DEF PhaseMoves, Before
      <4>2. told.phase = "round-result" => told.winner \in Seats /\ Champion(told, told.winner)
        BY <1>6, <2>2 DEF Phased
      <4> QED
        BY <4>1, <4>2 DEF Named
    <3>7. Named(g, told.winner)
      <4>1. /\ g.wins = told.wins
            /\ told.phase = "results" => g.phase = "results" /\ g.winner = told.winner
        BY <3>5 DEF SameRound, PhaseMoves, Before
      <4> QED
        BY <3>6, <4>1, NamedStays
    <3>8. /\ Shaped(g, e, t) /\ Phased(g) /\ g.phase # "lobby"
          /\ Lines(g, e, t, Connected(g))
      BY <1>6, <3>1, <3>4, <3>5, <3>7, SoundOnward
    <3>9. Naming(g, e, t)
      <4> SUFFICES ASSUME NEW i \in Connected(g) PROVE Hears(g, e, t, i)
        BY DEF Naming
      <4>1. i \in Seats
        BY DEF Connected
      <4>2. Grown(told.outbox[i], g.outbox[i], {msg} \cup News(g))
        BY <3>5 DEF Fed
      <4> QED
        BY <1>3, <1>5, <3>1, <3>4, <3>5, <4>1, <4>2, HearsOn
    <3>10. Onward(f, g, {RESULT(f), msg})
      <4>1. Onward(told, g, {RESULT(f), msg})
        BY <3>4, OnwardMore
      <4> QED
        BY <1>3, <1>4, <4>1, OnwardTwice
    <3> QED
      BY <3>8, <3>9, <3>10 DEF Good, Quiet
  <2> QED
    BY <2>1, <2>2
<1>8. PICK Y : Onward(f, g, Y)
  BY <1>7
<1>9. SameRound(f, g) /\ PhaseMoves(f, g) /\ Counted(f, g) /\ (Two(f) => Two(g))
  BY <1>8 DEF Onward, Moved
<1>10. RoundClosed(h, g, won)
  BY <1>1, <1>9 DEF RoundClosed, SameRound, Counted
<1>11. Connected(g) \subseteq Connected(h)
  BY <1>1, <1>9 DEF Counted
<1>12. \/ ~Few(Connected(g)) /\ g.phase = "round-result" /\ g.winner = won
       \/ Forfeited(h, g)
  <2>1. Two(f)
    BY <1>1 DEF Phased, Two
  <2>2. Two(g)
    BY <1>9, <2>1
  <2> QED
    BY <1>1, <1>9, <2>2 DEF PhaseMoves, Before, Two, Forfeited
<1>13. Few(h.alive)
  <2>1. 0 # Unset /\ Armed(h)
    BY DEF Unset, Good, Phased
  <2> QED
    BY <2>1 DEF Armed
<1> QED
  BY <1>7, <1>10, <1>11, <1>12, <1>13

\* countdown -> playing: with nothing on its way everybody has room for GO and
\* for the survivors, so nobody is lost.
LEMMA StartPlayingGood ==
    ASSUME NEW h, NEW e, NEW t, Good(h, e, t), h.phase = "countdown", Drained(h, e),
           NEW g, g = StartPlaying(h)
    PROVE  /\ Good(g, e, t) /\ g.phase = "playing" /\ g.round = h.round
           /\ Connected(g) = Connected(h) /\ g.alive = h.alive /\ g.wins = h.wins
           /\ g.winner = h.winner /\ g.finish = h.finish
<1> DEFINE m == [h EXCEPT !.phase = "playing"]
           go == GO(h)
           k == Broadcast(Drop, m, go)
<1>1. h \in Matches /\ e \in [Seats -> Endpoints] /\ Shaped(h, e, t)
  BY DEF Good, Shaped
<1>2. m \in Matches
  BY <1>1 DEF Matches, Phases
<1>3. /\ SameRound(h, m) /\ m.phase = "playing" /\ m.winner = h.winner /\ m.alive = h.alive
      /\ m.settle = h.settle /\ m.connected = h.connected /\ m.outbox = h.outbox
  BY <1>1 DEF Matches, SameRound
<1>4. g = IF Connected(k) = Seats THEN k ELSE Broadcast(Drop, k, ALIVE(k))
  BY DEF StartPlaying
<1>5. go \in Messages /\ go.type = "GO" /\ go.round = h.round
  BY <1>1, Sendable DEF GO
<1> HIDE DEF m, go, k
<1>6. Connected(m) = Connected(h) /\ go.round = m.round
  BY <1>3, <1>5 DEF Connected, SameRound
<1>7. \A s \in Connected(h) : h.outbox[s] = <<>> /\ e[s].queue = <<>> /\ Way(h, e, s) = <<>>
  BY <1>1, DrainedWays
<1>8. /\ k \in Matches /\ OnlyQueues(m, k)
      /\ \A s \in Connected(m) : k.outbox[s] = Append(m.outbox[s], go)
  <2>1. \A s \in Connected(m) : Len(m.outbox[s]) < OUTBOX_LIMIT /\ Replaced(m.outbox[s], go) = {}
    <3> SUFFICES ASSUME NEW s \in Connected(m)
                 PROVE  Len(m.outbox[s]) < OUTBOX_LIMIT /\ Replaced(m.outbox[s], go) = {}
      OBVIOUS
    <3>1. m.outbox[s] = <<>>
      BY <1>3, <1>6, <1>7
    <3>2. Len(m.outbox[s]) = 0 /\ DOMAIN m.outbox[s] = {}
      BY <3>1
    <3> QED
      BY <3>2, Numbers DEF Replaced
  <2> QED
    BY <1>2, <1>5, <1>6, <2>1, BroadcastFits DEF k
<1>9. /\ SameRound(h, k) /\ k.phase = "playing" /\ k.winner = h.winner /\ k.alive = h.alive
      /\ k.settle = h.settle /\ Connected(k) = Connected(h)
      /\ \A s \in Connected(h) : k.outbox[s] = <<go>>
  <2>1. \A s \in Connected(h) : k.outbox[s] = <<go>>
    <3> SUFFICES ASSUME NEW s \in Connected(h) PROVE k.outbox[s] = <<go>>
      OBVIOUS
    <3>1. k.outbox[s] = Append(<<>>, go)
      BY <1>3, <1>6, <1>7, <1>8
    <3> QED
      BY <3>1
  <2> QED
    BY <1>3, <1>8, <2>1 DEF OnlyQueues, SameRound, Connected
<1>10. Onward(m, k, {go})
  <2>1. N \in Nat /\ Breadth(m) <= N
    BY <1>2, DropIs
  <2> QED
    BY <1>2, <1>5, <1>6, <2>1, DropIs, BroadcastOnward DEF k
<1>11. Good(k, e, t)
  <2>1. Shaped(k, e, t)
    <3>1. Shaped(m, e, t)
      BY <1>1, <1>2, <1>3, <1>6 DEF Shaped, SameRound
    <3>2. Short(m, k) /\ SameRound(m, k) /\ k.settle \in {m.settle, SETTLE_MS}
      BY <1>10 DEF Onward, Moved, Counted
    <3> QED
      BY <1>6, <1>8, <1>9, <3>1, <3>2, ShapedOnward
  <2>2. Phased(k)
    <3>1. ~Few(Connected(h)) /\ h.alive = Connected(h) /\ h.settle = Unset
      BY DEF Good, Phased, Before
    <3>2. Armed(k)
      BY <1>9, <3>1 DEF Armed
    <3> QED
      BY <1>9, <3>1, <3>2 DEF Phased, Before
  <2>3. Lines(k, e, t, Connected(k))
    <3> SUFFICES ASSUME NEW i \in Connected(h)
                 PROVE  /\ Honest(k, Way(k, e, i)) /\ (t[i].final = Unset \/ Named(k, t[i].final))
                        /\ Ready(k, i, Way(k, e, i), t[i])
      BY <1>9 DEF Lines
    <3>1. i \in Seats
      BY DEF Connected
    <3>2. Way(h, e, i) = <<>> /\ Way(k, e, i) = <<go>>
      <4>1. e[i].queue = <<>> /\ k.outbox[i] = <<go>> /\ Way(h, e, i) = <<>>
        BY <1>7, <1>9
      <4>2. Way(k, e, i) = <<>> \o <<go>>
        BY <4>1 DEF Way
      <4>3. <<go>> \in Seq(Messages)
        BY <1>5
      <4>4. <<>> \o <<go>> = <<go>>
        BY <4>3
      <4> QED
        BY <4>1, <4>2, <4>4
    <3>3. Ready(h, i, Way(h, e, i), t[i]) /\ (t[i].final = Unset \/ Named(h, t[i].final))
      BY DEF Good, Lines
    <3> DEFINE v == <<>>
               w == <<go>>
    <3>4. /\ v \in Seq(Messages) /\ w \in Seq(Messages) /\ Len(v) = 0 /\ Len(w) = 1 /\ w[1] = go
          /\ DOMAIN w = {1}
      BY <1>5
    <3> HIDE DEF v, w
    <3>5. Grown(v, w, {go})
      <4>1. 1..Len(v) = {} /\ Len(v) + 1..Len(w) = {1} /\ Len(v) <= Len(w)
        BY <3>4
      <4> QED
        BY <3>4, <4>1 DEF Grown
    <3>6. Ready(k, i, w, t[i])
      <4> DEFINE x == t[i]
                 T == {go}
      <4>1. Ready(h, i, v, x)
        BY <3>2, <3>3 DEF v
      <4>2. \A n \in T : n.type \notin {"START", "GARBAGE"}
        BY <1>5
      <4>3. Grown(v, w, T)
        BY <3>5
      <4> HIDE DEF x, T
      <4>4. Ready(k, i, w, x)
        BY <1>9, <3>4, <4>1, <4>2, <4>3, ReadyGrown
      <4> QED
        BY <4>4 DEF x
    <3>7. Honest(k, w)
      BY <1>5, <1>9, <3>4 DEF Honest, SameRound
    <3>8. t[i].final = Unset \/ Named(k, t[i].final)
      BY <1>9, <3>3 DEF Named, Champion, SameRound
    <3> QED
      BY <3>2, <3>6, <3>7, <3>8 DEF w
  <2>4. Naming(k, e, t) /\ Quiet(k, e, t)
    BY <1>9 DEF Naming, Closed, Quiet
  <2> QED
    BY <2>1, <2>2, <2>3, <2>4 DEF Good
<1>12. CASE Connected(k) = Seats
  BY <1>4, <1>9, <1>11, <1>12 DEF SameRound
<1>13. CASE Connected(k) # Seats
  <2> DEFINE msg == ALIVE(k)
  <2>1. msg \in Messages /\ msg.type = "ALIVE" /\ msg.round = k.round
    BY <1>8, Sendable DEF ALIVE
  <2>2. g = Broadcast(Drop, k, msg)
    BY <1>4, <1>13
  <2> HIDE DEF msg
  <2>3. Onward(k, g, {msg})
    <3>1. N \in Nat /\ Breadth(k) <= N
      BY <1>8, DropIs
    <3> QED
      BY <1>8, <2>1, <2>2, <3>1, DropIs, BroadcastOnward
  <2>4. Good(g, e, t)
    <3>1. Connected(g) \subseteq Connected(k)
      BY <2>3 DEF Onward, Moved, Counted
    <3> QED
      BY <1>9, <1>11, <2>1, <2>3, <3>1, GoodOnward DEF Good
  <2>5. OnlyQueues(k, g)
    <3>1. \A s \in Connected(k) : Len(k.outbox[s]) < OUTBOX_LIMIT /\ Replaced(k.outbox[s], msg) = {}
      <4> SUFFICES ASSUME NEW s \in Connected(k)
                   PROVE  Len(k.outbox[s]) < OUTBOX_LIMIT /\ Replaced(k.outbox[s], msg) = {}
        OBVIOUS
      <4>1. k.outbox[s] = <<go>>
        BY <1>9
      <4>2. Len(k.outbox[s]) = 1 /\ DOMAIN k.outbox[s] = {1} /\ k.outbox[s][1].type = "GO"
        BY <1>5, <4>1
      <4>3. Replaced(k.outbox[s], msg) = {}
        BY <4>2 DEF Replaced
      <4> QED
        BY <4>2, <4>3, Numbers
    <3> QED
      BY <1>8, <2>1, <2>2, <3>1, BroadcastFits
  <2> QED
    BY <1>9, <2>4, <2>5 DEF OnlyQueues, SameRound, Connected
<1> QED
  BY <1>12, <1>13

\* The aim and the seeds of a round.
LEMMA RoundTyped ==
    ASSUME NEW h \in Matches, NEW seed \in SEEDS, NEW g, g = NextRound(h, seed)
    PROVE  /\ g \in Matches /\ g.round = h.round + 1 /\ g.seed = seed /\ g.phase = "preparing"
           /\ g.settle = Unset /\ g.winner = Unset /\ g.alive = Connected(h)
           /\ g.garbageId = [s \in Seats |-> 0] /\ g.wins = h.wins /\ g.finish = h.finish
           /\ g.connected = h.connected /\ g.outbox = h.outbox
<1> DEFINE aim == [s \in Seats |-> (s + 1 + (seed % (N - 1))) % N]
           round == h.round + 1
           none == [s \in Seats |-> FALSE]
           zero == [s \in Seats |-> 0]
           there == Connected(h)
<1>1. N \in Nat /\ N >= 2 /\ seed \in Nat
  BY MatchAssumption
<1>2. aim \in [Seats -> Seats]
  <2> SUFFICES ASSUME NEW s \in Seats PROVE (s + 1 + (seed % (N - 1))) % N \in Seats
    OBVIOUS
  <2>1. s \in Nat
    BY Numbers
  <2>2. seed % (N - 1) \in Nat
    BY <1>1
  <2> DEFINE a == s + 1 + (seed % (N - 1))
  <2>3. a \in Nat
    BY <2>1, <2>2
  <2> HIDE DEF a
  <2>4. a % N \in 0..N - 1
    BY <1>1, <2>3
  <2> QED
    BY <2>4 DEF a, Seats
<1>3. /\ round \in Nat /\ none \in [Seats -> BOOLEAN] /\ zero \in [Seats -> Nat]
      /\ there \in SUBSET Seats /\ PREPARE_MS \in Int /\ Unset \in Int /\ Unset \in Winners
  <2>1. h.round \in Nat
    BY DEF Matches
  <2>2. round \in Nat
    BY <2>1
  <2>3. PREPARE_MS \in Int /\ Unset \in Int
    BY MatchAssumption DEF Unset
  <2> QED
    BY <2>2, <2>3 DEF Connected, Winners
<1> HIDE DEF aim, round, none, zero, there
<1> DEFINE a == [h EXCEPT !.round = round]
           b == [a EXCEPT !.seed = seed]
           c == [b EXCEPT !.phase = "preparing"]
           d == [c EXCEPT !.deadline = PREPARE_MS]
           i == [d EXCEPT !.settle = Unset]
           j == [i EXCEPT !.winner = Unset]
           k == [j EXCEPT !.alive = there]
           l == [k EXCEPT !.prepared = none]
           m == [l EXCEPT !.garbageId = zero]
           n == [m EXCEPT !.target = aim]
<1>4. g = n
  BY DEF NextRound, aim, round, none, zero, there
<1>5. d \in Matches /\ d.round = round /\ d.seed = seed /\ d.phase = "preparing"
      /\ d.wins = h.wins /\ d.finish = h.finish /\ d.connected = h.connected /\ d.outbox = h.outbox
  <2>1. a \in Matches /\ a.round = round
        /\ a.wins = h.wins /\ a.finish = h.finish /\ a.connected = h.connected /\ a.outbox = h.outbox
    BY <1>3 DEF Matches
  <2> HIDE DEF a
  <2>2. b \in Matches /\ b.round = round /\ b.seed = seed
        /\ b.wins = h.wins /\ b.finish = h.finish /\ b.connected = h.connected /\ b.outbox = h.outbox
    BY <1>1, <2>1 DEF Matches
  <2> HIDE DEF b
  <2>3. c \in Matches /\ c.round = round /\ c.seed = seed /\ c.phase = "preparing"
        /\ c.wins = h.wins /\ c.finish = h.finish /\ c.connected = h.connected /\ c.outbox = h.outbox
    BY <2>2 DEF Matches, Phases
  <2> HIDE DEF c
  <2> QED
    BY <1>3, <2>3 DEF Matches
<1> HIDE DEF d
<1>6. k \in Matches /\ k.round = round /\ k.seed = seed /\ k.phase = "preparing"
      /\ k.settle = Unset /\ k.winner = Unset /\ k.alive = there
      /\ k.wins = h.wins /\ k.finish = h.finish /\ k.connected = h.connected /\ k.outbox = h.outbox
  <2>1. i \in Matches /\ i.round = round /\ i.seed = seed /\ i.phase = "preparing" /\ i.settle = Unset
        /\ i.wins = h.wins /\ i.finish = h.finish /\ i.connected = h.connected /\ i.outbox = h.outbox
    BY <1>3, <1>5 DEF Matches
  <2> HIDE DEF i
  <2>2. j \in Matches /\ j.round = round /\ j.seed = seed /\ j.phase = "preparing"
        /\ j.settle = Unset /\ j.winner = Unset
        /\ j.wins = h.wins /\ j.finish = h.finish /\ j.connected = h.connected /\ j.outbox = h.outbox
    BY <1>3, <2>1 DEF Matches
  <2> HIDE DEF j
  <2> QED
    BY <1>3, <2>2 DEF Matches
<1> HIDE DEF k
<1>7. n \in Matches /\ n.round = round /\ n.seed = seed /\ n.phase = "preparing"
      /\ n.settle = Unset /\ n.winner = Unset /\ n.alive = there /\ n.garbageId = zero
      /\ n.wins = h.wins /\ n.finish = h.finish /\ n.connected = h.connected /\ n.outbox = h.outbox
  <2>1. l \in Matches /\ l.round = round /\ l.seed = seed /\ l.phase = "preparing"
        /\ l.settle = Unset /\ l.winner = Unset /\ l.alive = there
        /\ l.wins = h.wins /\ l.finish = h.finish /\ l.connected = h.connected /\ l.outbox = h.outbox
    BY <1>3, <1>6 DEF Matches
  <2> HIDE DEF l
  <2>2. m \in Matches /\ m.round = round /\ m.seed = seed /\ m.phase = "preparing"
        /\ m.settle = Unset /\ m.winner = Unset /\ m.alive = there /\ m.garbageId = zero
        /\ m.wins = h.wins /\ m.finish = h.finish /\ m.connected = h.connected /\ m.outbox = h.outbox
    BY <1>3, <2>1 DEF Matches
  <2> HIDE DEF m
  <2> QED
    BY <1>2, <2>2 DEF Matches
<1> HIDE DEF n
<1> QED
  BY <1>4, <1>7 DEF round, zero, there

\* A round begins with everyone connected, who all have room for its START.
LEMMA BeginRoundGood ==
    ASSUME NEW h, NEW e, NEW t, Good(h, e, t), NEW seed \in SEEDS, h.round < MaxRounds,
           h.phase = "lobby" \/ (h.phase = "round-result" /\ ~h.finish),
           \A s \in Connected(h) :
               /\ h.outbox[s] = <<>> /\ t[s].round = h.round
               /\ \A k \in DOMAIN e[s].queue : e[s].queue[k].type = "BEAT",
           NEW g, g = BeginRound(h, seed)
    PROVE  /\ Good(g, e, t) /\ g.phase = "preparing" /\ g.round = h.round + 1
           /\ Connected(g) = Connected(h) /\ g.alive = Connected(h) /\ g.wins = h.wins
           /\ g.winner = Unset /\ g.finish = h.finish
<1> DEFINE m == NextRound(h, seed)
           start == START(m)
<1>1. h \in Matches /\ e \in [Seats -> Endpoints] /\ Shaped(h, e, t) /\ t \in [Seats -> Toys]
  BY DEF Good, Shaped
<1>2. /\ m \in Matches /\ m.round = h.round + 1 /\ m.seed = seed /\ m.phase = "preparing"
      /\ m.settle = Unset /\ m.winner = Unset /\ m.alive = Connected(h)
      /\ m.garbageId = [s \in Seats |-> 0] /\ m.wins = h.wins /\ m.finish = h.finish
      /\ m.connected = h.connected /\ m.outbox = h.outbox
  BY <1>1, RoundTyped
<1>3. g = Broadcast(Drop, m, start)
  BY DEF BeginRound
<1> HIDE DEF m
<1>4. start \in Messages /\ start.type = "START" /\ start.round = m.round /\ start.seed = m.seed
  BY <1>2, Sendable DEF START
<1> HIDE DEF start
<1>5. Connected(m) = Connected(h)
  BY <1>2 DEF Connected
<1>6. /\ g \in Matches /\ OnlyQueues(m, g)
      /\ \A s \in Connected(m) : g.outbox[s] = Append(m.outbox[s], start)
  <2>1. \A s \in Connected(m) : Len(m.outbox[s]) < OUTBOX_LIMIT /\ Replaced(m.outbox[s], start) = {}
    <3> SUFFICES ASSUME NEW s \in Connected(m)
                 PROVE  Len(m.outbox[s]) < OUTBOX_LIMIT /\ Replaced(m.outbox[s], start) = {}
      OBVIOUS
    <3>1. m.outbox[s] = <<>>
      BY <1>2, <1>5
    <3>2. Len(m.outbox[s]) = 0 /\ DOMAIN m.outbox[s] = {}
      BY <3>1
    <3> QED
      BY <3>2, Numbers DEF Replaced
  <2> QED
    BY <1>2, <1>3, <1>4, <2>1, BroadcastFits
<1>7. Onward(m, g, {start})
  <2>1. N \in Nat /\ Breadth(m) <= N
    BY <1>2, DropIs
  <2> QED
    BY <1>2, <1>3, <1>4, <2>1, DropIs, BroadcastOnward
<1>8. /\ g.round = h.round + 1 /\ g.seed = seed /\ g.phase = "preparing" /\ g.settle = Unset
      /\ g.winner = Unset /\ g.alive = Connected(h) /\ Connected(g) = Connected(h)
      /\ g.garbageId = [s \in Seats |-> 0] /\ g.wins = h.wins /\ g.finish = h.finish
      /\ \A s \in Connected(h) : g.outbox[s] = <<start>>
  <2>1. \A s \in Connected(h) : g.outbox[s] = <<start>>
    <3> SUFFICES ASSUME NEW s \in Connected(h) PROVE g.outbox[s] = <<start>>
      OBVIOUS
    <3>1. g.outbox[s] = Append(<<>>, start)
      BY <1>2, <1>5, <1>6
    <3> QED
      BY <3>1
  <2> QED
    BY <1>2, <1>6, <2>1 DEF OnlyQueues, SameRound, Connected
<1>9. Shaped(g, e, t)
  <2>1. m.round <= MaxRounds
    <3>1. h.round \in Nat /\ MaxRounds \in Nat
      BY <1>1, MatchAssumption DEF Matches
    <3> QED
      BY <1>2, <3>1
  <2>2. \A s \in Seats : m.garbageId[s] <= GARBAGE_LIMIT
    <3>1. GARBAGE_LIMIT \in Nat
      BY MatchAssumption
    <3> QED
      BY <1>2, <3>1
  <2>3. Shaped(m, e, t)
    BY <1>1, <1>2, <1>5, <2>1, <2>2 DEF Shaped
  <2>4. Short(m, g) /\ SameRound(m, g) /\ g.settle \in {m.settle, SETTLE_MS}
    BY <1>7 DEF Onward, Moved, Counted
  <2> QED
    BY <1>5, <1>6, <1>8, <2>3, <2>4, ShapedOnward
<1>10. Phased(g)
  <2>1. ~Few(Connected(h))
    BY DEF Good, Phased, Before
  <2> QED
    BY <1>8, <2>1 DEF Phased, Before
<1>11. Lines(g, e, t, Connected(g))
  <2> SUFFICES ASSUME NEW i \in Connected(h)
               PROVE  /\ Honest(g, Way(g, e, i)) /\ (t[i].final = Unset \/ Named(g, t[i].final))
                      /\ Fresh(g, i, Way(g, e, i), t[i])
    BY <1>8 DEF Lines
  <2>1. i \in Seats /\ t[i] \in Toys /\ h.round \in Nat
    BY <1>1 DEF Connected, Matches
  <2> DEFINE q == e[i].queue
             o == <<start>>
             w == q \o o
  <2>2. q \in Seq(Messages) /\ o \in Seq(Messages) /\ Way(g, e, i) = w
    <3>1. q \in Seq(Messages)
      BY <1>1, <2>1, WayTyped
    <3>2. o \in Seq(Messages)
      BY <1>4
    <3>3. g.outbox[i] = <<start>>
      BY <1>8
    <3>4. Way(g, e, i) = q \o <<start>>
      BY <3>3 DEF Way
    <3> QED
      BY <3>1, <3>2, <3>4
  <2>3. Len(o) = 1 /\ o[1] = start /\ Len(q) \in Nat /\ DOMAIN q = 1..Len(q)
    BY <2>2
  <2>4. \A k \in DOMAIN q : q[k].type = "BEAT"
    OBVIOUS
  <2> HIDE DEF q, o
  <2>5. DOMAIN w = 1..Len(q) + 1 /\ \A k \in DOMAIN w : w[k] = IF k <= Len(q) THEN q[k] ELSE o[k - Len(q)]
    BY <2>2, <2>3, Joined
  <2> HIDE DEF w
  <2>6. ASSUME NEW k \in DOMAIN w PROVE w[k].type = "BEAT" \/ w[k] = start
    <3>1. CASE k <= Len(q)
      <4>1. k \in DOMAIN q
        BY <2>3, <2>5, <3>1
      <4> QED
        BY <2>4, <2>5, <3>1, <4>1
    <3>2. CASE ~(k <= Len(q))
      <4>1. k - Len(q) = 1
        BY <2>3, <2>5, <3>2
      <4> QED
        BY <2>3, <2>5, <3>2, <4>1
    <3> QED
      BY <3>1, <3>2
  <2>7. Len(q) + 1 \in DOMAIN w /\ w[Len(q) + 1] = start
    <3>1. Len(q) + 1 \in 1..Len(q) + 1 /\ ~(Len(q) + 1 <= Len(q)) /\ Len(q) + 1 - Len(q) = 1
      BY <2>3
    <3> QED
      BY <2>3, <2>5, <3>1
  <2>8. Honest(g, w)
    BY <1>2, <1>4, <1>8, <2>6 DEF Honest
  <2>9. t[i].final = Unset \/ Named(g, t[i].final)
    <3>1. t[i].final = Unset \/ Named(h, t[i].final)
      BY DEF Good, Lines
    <3> QED
      BY <1>8, <3>1 DEF Named, Champion
  <2>10. t[i].round # g.round
    <3>1. t[i].round = h.round
      OBVIOUS
    <3> QED
      BY <1>8, <2>1, <3>1
  <2>11. Fresh(g, i, w, t[i])
    <3>1. g.garbageId[i] = 0
      BY <1>8, <2>1
    <3>2. \A k \in DOMAIN w : /\ w[k].type \notin {"GO", "GARBAGE"}
                              /\ w[k].type = "START" => w[k].seed = g.seed
      BY <1>2, <1>4, <1>8, <2>6
    <3>3. \E k \in DOMAIN w : w[k].type = "START"
      BY <1>4, <2>7
    <3> QED
      BY <2>10, <3>1, <3>2, <3>3 DEF Fresh
  <2> QED
    BY <2>2, <2>8, <2>9, <2>11
<1>12. Naming(g, e, t) /\ Quiet(g, e, t)
  BY <1>8 DEF Naming, Closed, Quiet
<1> QED
  BY <1>8, <1>9, <1>10, <1>11, <1>12 DEF Good

-----------------------------------------------------------------------------
(* What each call means to the rules of a match                             *)

\* The steps of MatchRules, from match h to match g.
Stands(h, g) == /\ g.round = h.round /\ g.wins = h.wins /\ g.finish = h.finish
Rests(h, g) == /\ Stands(h, g) /\ Connected(g) = Connected(h) /\ g.alive = h.alive
               /\ g.winner = h.winner
Advances == {<<"preparing", "countdown">>, <<"countdown", "playing">>}

ByRules(h, g) ==
    \/ Rests(h, g) /\ g.phase = h.phase
    \/ Rests(h, g) /\ <<h.phase, g.phase>> \in Advances
    \/ Rests(h, g) /\ h.phase = "round-result" /\ h.finish /\ g.phase = "results"
    \/ /\ h.phase = "lobby" \/ (h.phase = "round-result" /\ ~h.finish)
       /\ g.phase = "preparing" /\ g.round = h.round + 1 /\ g.alive = Connected(h)
       /\ g.winner = Unset /\ Connected(g) = Connected(h) /\ g.wins = h.wins
       /\ g.finish = h.finish
    \/ /\ h.phase \in {"preparing", "countdown", "round-result"} /\ g.phase = "aborted"
       /\ Connected(g) \subseteq Connected(h) /\ Stands(h, g) /\ g.alive = h.alive
       /\ g.winner = h.winner
    \/ /\ h.phase = "playing" /\ Stands(h, g)
       /\ Connected(g) \subseteq Connected(h) /\ g.alive \subseteq h.alive
       /\ \/ ~Few(Connected(g)) /\ g.alive \subseteq Connected(g)
             /\ g.phase = h.phase /\ g.winner = h.winner
          \/ Forfeited(h, g) /\ ~Few(Connected(h)) /\ g.alive \subseteq {g.winner}
    \/ /\ h.phase = "playing" /\ Few(h.alive) /\ ~Few(Connected(h))
       /\ Connected(g) \subseteq Connected(h)
       /\ \E s : /\ RoundClosed(h, g, s)
                 /\ \/ ~Few(Connected(g)) /\ g.phase = "round-result" /\ g.winner = s
                    \/ Forfeited(h, g)
    \/ /\ h.phase = "round-result" /\ Stands(h, g) /\ g.alive = h.alive
       /\ Connected(g) \subseteq Connected(h) /\ Connected(g) # Connected(h)
       /\ \/ ~Few(Connected(g)) /\ g.phase = h.phase /\ g.winner = h.winner
          \/ Forfeited(h, g)
    \/ /\ h.phase \in {"results", "aborted"} /\ g.phase = h.phase /\ Stands(h, g)
       /\ g.alive = h.alive /\ Connected(g) \subseteq Connected(h) /\ g.winner = h.winner

\* Whatever a call that may nest does is by the rules.
LEMMA OnwardRules ==
    ASSUME NEW h \in Matches, NEW g, NEW X, Phased(h), h.phase # "lobby", Onward(h, g, X)
    PROVE  ByRules(h, g)
<1>1. /\ SameRound(h, g) /\ PhaseMoves(h, g) /\ Counted(h, g) /\ (Two(h) => Two(g))
  BY DEF Onward, Moved
<1>2. Stands(h, g) /\ Connected(g) \subseteq Connected(h) /\ g.alive \subseteq h.alive
  BY <1>1 DEF SameRound, Counted, Stands
<1>3. h.phase \in Phases
  BY DEF Matches
<1>4. CASE h.phase \in {"preparing", "countdown"}
  <2>1. g.alive = h.alive
    BY <1>1, <1>4 DEF Counted
  <2>2. CASE g.phase = h.phase
    <3>1. g.winner = h.winner /\ g.connected = h.connected
      BY <1>1, <1>4, <2>2 DEF PhaseMoves, Before
    <3> QED
      BY <1>2, <2>1, <2>2, <3>1 DEF ByRules, Rests, Connected
  <2>3. CASE g.phase = "aborted"
    <3>1. g.winner = h.winner
      BY <1>1, <1>4, <2>3 DEF PhaseMoves
    <3> QED
      BY <1>2, <1>4, <2>1, <2>3, <3>1 DEF ByRules
  <2> QED
    BY <1>1, <1>4, <2>2, <2>3 DEF PhaseMoves
<1>5. CASE h.phase \in {"results", "aborted"}
  <2>1. g.phase = h.phase /\ g.winner = h.winner /\ g.alive = h.alive
    BY <1>1, <1>5 DEF PhaseMoves, Counted, Before
  <2> QED
    BY <1>2, <1>5, <2>1 DEF ByRules
<1>6. CASE h.phase = "playing"
  <2>1. ~Few(Connected(h)) /\ h.alive \subseteq Connected(h)
    BY <1>6 DEF Phased
  <2>2. Two(g)
    BY <1>1, <2>1 DEF Two
  <2>3. CASE g.phase = "playing"
    <3>1. g.winner = h.winner /\ g.alive \subseteq Connected(g) /\ ~Few(Connected(g))
      BY <1>1, <1>6, <2>1, <2>2, <2>3 DEF PhaseMoves, Counted, Two, Before
    <3> QED
      BY <1>2, <1>6, <2>3, <3>1 DEF ByRules
  <2>4. CASE g.phase # "playing"
    <3>1. Forfeited(h, g)
      BY <1>1, <1>6, <2>4 DEF PhaseMoves, Before, Forfeited
    <3>2. g.alive \subseteq {g.winner}
      BY <1>1, <1>6, <2>1, <2>4 DEF Counted
    <3> QED
      BY <1>2, <1>6, <2>1, <3>1, <3>2 DEF ByRules
  <2> QED
    BY <2>3, <2>4
<1>7. CASE h.phase = "round-result"
  <2>1. ~Few(Connected(h)) /\ g.alive = h.alive
    BY <1>1, <1>7 DEF Phased, Counted
  <2>2. Two(g)
    BY <1>1, <2>1 DEF Two
  <2>3. CASE g.phase = "round-result"
    <3>1. g.winner = h.winner /\ ~Few(Connected(g))
      BY <1>1, <1>7, <2>2, <2>3 DEF PhaseMoves, Two, Before
    <3>2. CASE Connected(g) = Connected(h)
      BY <1>2, <1>7, <2>1, <2>3, <3>1, <3>2 DEF ByRules, Rests
    <3>3. CASE Connected(g) # Connected(h)
      BY <1>2, <1>7, <2>1, <2>3, <3>1, <3>3 DEF ByRules
    <3> QED
      BY <3>2, <3>3
  <2>4. CASE g.phase # "round-result"
    <3>1. Forfeited(h, g)
      BY <1>1, <1>7, <2>4 DEF PhaseMoves, Before, Forfeited
    <3>2. Connected(g) # Connected(h)
      BY <2>1, <3>1 DEF Forfeited
    <3> QED
      BY <1>2, <1>7, <2>1, <3>1, <3>2 DEF ByRules
  <2> QED
    BY <2>3, <2>4
<1> QED
  BY <1>3, <1>4, <1>5, <1>6, <1>7 DEF Phases

\* A match that stands as it stood, as far as the rules can tell.
Still(h, g) == Rests(h, g) /\ g.phase = h.phase

\* Handing messages over is nothing to the rules.
LEMMA QueuesStill ==
    ASSUME NEW h, NEW g, OnlyQueues(h, g)
    PROVE  Still(h, g)
BY DEF OnlyQueues, SameRound, Connected, Still, Rests, Stands

\* What is nothing to the rules can come before and after a step.
LEMMA RulesThrough ==
    ASSUME NEW h, NEW k, NEW l, NEW g, Still(h, k), ByRules(k, l), Still(l, g)
    PROVE  ByRules(h, g)
<1>1. /\ k.phase = h.phase /\ k.round = h.round /\ k.wins = h.wins /\ k.finish = h.finish
      /\ Connected(k) = Connected(h) /\ k.alive = h.alive /\ k.winner = h.winner
  BY DEF Still, Rests, Stands
<1>2. /\ l.phase = g.phase /\ l.round = g.round /\ l.wins = g.wins /\ l.finish = g.finish
      /\ Connected(l) = Connected(g) /\ l.alive = g.alive /\ l.winner = g.winner
  BY DEF Still, Rests, Stands
<1>3. Stands(k, l) = Stands(h, g) /\ Rests(k, l) = Rests(h, g) /\ Forfeited(k, l) = Forfeited(h, g)
  BY <1>1, <1>2 DEF Stands, Rests, Forfeited
<1>4. \A s : RoundClosed(k, l, s) = RoundClosed(h, g, s)
  BY <1>1, <1>2 DEF RoundClosed
<1> QED
  BY <1>1, <1>2, <1>3, <1>4 DEF ByRules

-----------------------------------------------------------------------------
(* The clock's step of the phase                                            *)

\* The cases of a tick.
PhaseMade(h, e, seed, g) ==
    \/ /\ h.phase = "preparing" /\ AllPrepared(h) /\ Drained(h, e)
       /\ g = [h EXCEPT !.phase = "countdown", !.deadline = COUNTDOWN_MS]
    \/ h.phase \in {"preparing", "countdown", "round-result"} /\ g = Abort(Drop, h)
    \/ h.phase = "countdown" /\ Drained(h, e) /\ g = StartPlaying(h)
    \/ h.phase = "playing" /\ h.settle = 0 /\ g = FinishRound(h)
    \/ h.phase = "round-result" /\ h.finish /\ g = [h EXCEPT !.phase = "results"]
    \/ NewRoundDue(h, e) /\ g = BeginRound(h, seed)
    \/ g = h

\* There are no others.
LEMMA PhaseCases ==
    ASSUME NEW h \in Matches, NEW e, NEW seed, NEW g, g = PhaseStep(h, e, seed)
    PROVE  PhaseMade(h, e, seed, g)
<1> USE DEF PhaseMade
<1> DEFINE late == h.deadline <= -PREPARE_MS
           due == h.deadline \in -PREPARE_MS + 1 .. 0
           next == NewRoundDue(h, e)
           a == h.phase = "preparing" /\ AllPrepared(h) /\ Drained(h, e)
           b == h.phase = "preparing" /\ ~(AllPrepared(h) /\ Drained(h, e)) /\ h.deadline <= 0
           c == h.phase \in {"countdown", "round-result"} /\ late
           d == h.phase = "countdown" /\ due /\ Drained(h, e)
           p == h.phase = "playing" /\ h.settle = 0
           q == h.phase = "round-result" /\ due /\ Drained(h, e) /\ h.finish
           A == [h EXCEPT !.phase = "countdown", !.deadline = COUNTDOWN_MS]
           B == Abort(Drop, h)
           D == StartPlaying(h)
           P == FinishRound(h)
           Q == [h EXCEPT !.phase = "results"]
           R == BeginRound(h, seed)
<1>1. g = CASE a -> A [] b -> B [] c -> B [] d -> D [] p -> P [] q -> Q [] next -> R [] OTHER -> h
  BY DEF PhaseStep
<1>2. ~(late /\ due) /\ ~(late /\ next)
  <2>1. h.deadline \in Int /\ PREPARE_MS \in Int
    BY MatchAssumption DEF Matches
  <2> QED
    BY <2>1 DEF NewRoundDue
<1>3. next => h.phase = "round-result" /\ ~h.finish
  BY DEF NewRoundDue
<1>4. /\ a => h.phase = "preparing" /\ AllPrepared(h) /\ Drained(h, e)
      /\ b => h.phase = "preparing" /\ ~(AllPrepared(h) /\ Drained(h, e))
      /\ c => h.phase \in {"countdown", "round-result"} /\ late
      /\ d => h.phase = "countdown" /\ due /\ Drained(h, e)
      /\ p => h.phase = "playing" /\ h.settle = 0
      /\ q => h.phase = "round-result" /\ due /\ h.finish
  OBVIOUS
<1> HIDE DEF late, due, next, a, b, c, d, p, q, A, B, D, P, Q, R
<1>5. CASE a
  <2>1. ~b /\ ~c /\ ~d /\ ~p /\ ~q /\ ~next
    BY <1>3, <1>4, <1>5
  <2>2. g = A
    BY <1>1, <1>5, <2>1
  <2> QED
    BY <1>4, <1>5, <2>2 DEF A
<1>6. CASE b
  <2>1. ~a /\ ~c /\ ~d /\ ~p /\ ~q /\ ~next
    BY <1>3, <1>4, <1>6
  <2>2. g = B
    BY <1>1, <1>6, <2>1
  <2> QED
    BY <1>4, <1>6, <2>2 DEF B
<1>7. CASE c
  <2>1. ~a /\ ~b /\ ~d /\ ~p /\ ~q /\ ~next
    BY <1>2, <1>3, <1>4, <1>7
  <2>2. g = B
    BY <1>1, <1>7, <2>1
  <2> QED
    BY <1>4, <1>7, <2>2 DEF B
<1>8. CASE d
  <2>1. ~a /\ ~b /\ ~c /\ ~p /\ ~q /\ ~next
    BY <1>2, <1>3, <1>4, <1>8
  <2>2. g = D
    BY <1>1, <1>8, <2>1
  <2> QED
    BY <1>4, <1>8, <2>2 DEF D
<1>9. CASE p
  <2>1. ~a /\ ~b /\ ~c /\ ~d /\ ~q /\ ~next
    BY <1>3, <1>4, <1>9
  <2>2. g = P
    BY <1>1, <1>9, <2>1
  <2> QED
    BY <1>4, <1>9, <2>2 DEF P
<1>10. CASE q
  <2>1. ~a /\ ~b /\ ~c /\ ~d /\ ~p /\ ~next
    BY <1>2, <1>3, <1>4, <1>10
  <2>2. g = Q
    BY <1>1, <1>10, <2>1
  <2> QED
    BY <1>4, <1>10, <2>2 DEF Q
<1>11. CASE next
  <2>1. ~a /\ ~b /\ ~c /\ ~d /\ ~p /\ ~q
    BY <1>2, <1>3, <1>4, <1>11
  <2>2. g = R
    BY <1>1, <1>11, <2>1
  <2> QED
    BY <1>11, <2>2 DEF R, next
<1>12. CASE ~a /\ ~b /\ ~c /\ ~d /\ ~p /\ ~q /\ ~next
  <2>1. g = h
    BY <1>1, <1>12
  <2> QED
    BY <2>1
<1> QED
  BY <1>5, <1>6, <1>7, <1>8, <1>9, <1>10, <1>11, <1>12

\* What a tick makes of the phase is good, and by the rules.
LEMMA PhaseStepGood ==
    ASSUME NEW h, NEW e, NEW t, Good(h, e, t), NEW seed \in SEEDS,
           NewRoundDue(h, e) => h.round < MaxRounds,
           NEW g, g = PhaseStep(h, e, seed)
    PROVE  Good(g, e, t) /\ ByRules(h, g)
<1>1. h \in Matches /\ e \in [Seats -> Endpoints]
  BY DEF Good, Shaped
<1>2. CASE /\ h.phase = "preparing" /\ AllPrepared(h) /\ Drained(h, e)
           /\ g = [h EXCEPT !.phase = "countdown", !.deadline = COUNTDOWN_MS]
  <2>1. /\ Good(g, e, t) /\ g.phase = "countdown" /\ g.round = h.round
        /\ Connected(g) = Connected(h) /\ g.alive = h.alive /\ g.wins = h.wins
        /\ g.winner = h.winner /\ g.finish = h.finish
    BY <1>2, CountdownGood
  <2> QED
    BY <1>2, <2>1 DEF ByRules, Rests, Stands, Advances
<1>3. CASE h.phase \in {"preparing", "countdown", "round-result"} /\ g = Abort(Drop, h)
  <2>1. /\ Good(g, e, t) /\ SameRound(h, g) /\ g.phase = "aborted" /\ g.winner = h.winner
        /\ g.alive = h.alive /\ Connected(g) \subseteq Connected(h)
    BY <1>3, AbortGood
  <2> QED
    BY <1>3, <2>1 DEF ByRules, Stands, SameRound
<1>4. CASE h.phase = "countdown" /\ Drained(h, e) /\ g = StartPlaying(h)
  <2>1. /\ Good(g, e, t) /\ g.phase = "playing" /\ g.round = h.round
        /\ Connected(g) = Connected(h) /\ g.alive = h.alive /\ g.wins = h.wins
        /\ g.winner = h.winner /\ g.finish = h.finish
    BY <1>4, StartPlayingGood
  <2> QED
    BY <1>4, <2>1 DEF ByRules, Rests, Stands, Advances
<1>5. CASE h.phase = "playing" /\ h.settle = 0 /\ g = FinishRound(h)
  <2>1. /\ Good(g, e, t) /\ Connected(g) \subseteq Connected(h) /\ Few(h.alive)
        /\ \E s : /\ RoundClosed(h, g, s)
                  /\ \/ ~Few(Connected(g)) /\ g.phase = "round-result" /\ g.winner = s
                     \/ Forfeited(h, g)
    BY <1>5, FinishRoundGood
  <2>2. ~Few(Connected(h))
    BY <1>5 DEF Good, Phased
  <2> QED
    BY <1>5, <2>1, <2>2 DEF ByRules
<1>6. CASE h.phase = "round-result" /\ h.finish /\ g = [h EXCEPT !.phase = "results"]
  <2>1. /\ Good(g, e, t) /\ g.phase = "results" /\ g.round = h.round
        /\ Connected(g) = Connected(h) /\ g.alive = h.alive /\ g.wins = h.wins
        /\ g.winner = h.winner /\ g.finish = h.finish
    BY <1>6, CloseGood
  <2> QED
    BY <1>6, <2>1 DEF ByRules, Rests, Stands
<1>7. CASE NewRoundDue(h, e) /\ g = BeginRound(h, seed)
  <2>1. h.phase = "round-result" /\ ~h.finish /\ Drained(h, e) /\ h.round < MaxRounds
    BY <1>7 DEF NewRoundDue
  <2>2. \A s \in Connected(h) :
            /\ h.outbox[s] = <<>> /\ t[s].round = h.round
            /\ \A k \in DOMAIN e[s].queue : e[s].queue[k].type = "BEAT"
    <3> SUFFICES ASSUME NEW s \in Connected(h)
                 PROVE  /\ h.outbox[s] = <<>> /\ t[s].round = h.round
                        /\ \A k \in DOMAIN e[s].queue : e[s].queue[k].type = "BEAT"
      OBVIOUS
    <3>1. h.outbox[s] = <<>> /\ e[s].queue = <<>>
      BY <1>1, <2>1, DrainedWays
    <3>2. Ready(h, s, Way(h, e, s), t[s])
      BY <2>1 DEF Good, Lines
    <3>3. DOMAIN e[s].queue = {}
      BY <3>1
    <3> QED
      BY <3>1, <3>2, <3>3 DEF Ready
  <2>3. /\ Good(g, e, t) /\ g.phase = "preparing" /\ g.round = h.round + 1
        /\ Connected(g) = Connected(h) /\ g.alive = Connected(h) /\ g.wins = h.wins
        /\ g.winner = Unset /\ g.finish = h.finish
    BY <1>7, <2>1, <2>2, BeginRoundGood
  <2> QED
    BY <2>1, <2>3 DEF ByRules
<1>8. CASE g = h
  BY <1>8 DEF ByRules, Rests, Stands
<1>9. PhaseMade(h, e, seed, g)
  BY <1>1, PhaseCases
<1> QED
  BY <1>2, <1>3, <1>4, <1>5, <1>6, <1>7, <1>8, <1>9 DEF PhaseMade

-----------------------------------------------------------------------------
(* The calls of the hub and of the toys                                     *)

\* Only the endpoints and the toys of connected seats matter.
LEMMA GoodElsewhere ==
    ASSUME NEW h, NEW e, NEW t, Good(h, e, t),
           NEW d \in [Seats -> Endpoints], NEW u \in [Seats -> Toys],
           \A s \in Seats : Len(d[s].queue) <= HEADROOM,
           \A s \in Connected(h) : d[s] = e[s] /\ u[s] = t[s]
    PROVE  Good(h, d, u)
<1>1. \A s \in Connected(h) : s \in Seats /\ Way(h, d, s) = Way(h, e, s)
  BY DEF Connected, Way
<1>2. Shaped(h, d, u)
  BY DEF Good, Shaped
<1>3. Quiet(h, d, u)
  <2> SUFFICES ASSUME h.phase = "lobby", NEW i \in Seats
               PROVE  /\ h.outbox[i] = <<>> /\ u[i].round = 0
                      /\ \A k \in DOMAIN d[i].queue : d[i].queue[k].type = "BEAT"
    BY DEF Quiet
  <2>1. i \in Connected(h)
    BY DEF Good, Phased
  <2>2. d[i] = e[i] /\ u[i] = t[i]
    BY <2>1
  <2>3. /\ h.outbox[i] = <<>> /\ t[i].round = 0
        /\ \A k \in DOMAIN e[i].queue : e[i].queue[k].type = "BEAT"
    BY DEF Good, Quiet
  <2> QED
    BY <2>2, <2>3
<1>4. Lines(h, d, u, Connected(h))
  <2>1. Lines(h, e, t, Connected(h))
    BY DEF Good
  <2>2. \A s \in Connected(h) : /\ Honest(h, Way(h, d, s))
                                /\ u[s].final = Unset \/ Named(h, u[s].final)
    BY <1>1, <2>1 DEF Lines
  <2>3. CASE /\ h.phase \in {"lobby", "preparing", "aborted"}
             /\ \A i \in Connected(h) : Fresh(h, i, Way(h, e, i), t[i])
    <3>1. \A i \in Connected(h) : Fresh(h, i, Way(h, d, i), u[i])
      BY <1>1, <2>3
    <3> QED
      BY <2>2, <2>3, <3>1 DEF Lines
  <2>4. CASE /\ h.phase \notin {"lobby", "preparing"}
             /\ \A i \in Connected(h) : Ready(h, i, Way(h, e, i), t[i])
    <3>1. \A i \in Connected(h) : Ready(h, i, Way(h, d, i), u[i])
      BY <1>1, <2>4
    <3> QED
      BY <2>2, <2>4, <3>1 DEF Lines
  <2> QED
    BY <2>1, <2>3, <2>4 DEF Lines
<1>5. Naming(h, d, u)
  <2> SUFFICES ASSUME Closed(h), NEW i \in Connected(h) PROVE Hears(h, d, u, i)
    BY DEF Naming
  <2>1. Hears(h, e, t, i)
    BY DEF Good, Naming
  <2> QED
    BY <1>1, <2>1 DEF Hears
<1> QED
  BY <1>2, <1>3, <1>4, <1>5 DEF Good, Phased

\* What stands for an endpoint or a toy the match has given up.
LEMMA NothingHeld ==
    /\ Stopped \in Endpoints /\ Untold \in Toys
    /\ Len(Stopped.queue) = 0 /\ HEADROOM \in Nat \ {0}
<1>1. <<>> \in Seq(Messages) /\ Len(<<>>) = 0
  OBVIOUS
<1>2. Stopped \in Endpoints /\ Stopped.queue = <<>>
  BY <1>1 DEF Stopped, Endpoints
<1>3. Untold \in Toys
  BY DEF Untold, Toys, Winners
<1> QED
  BY <1>1, <1>2, <1>3, MatchAssumption

\* The match between two flushes of a tick.
LEMMA TickedGood ==
    ASSUME IInv, NEW seed \in SEEDS, NextRoundDue => match.round < MaxRounds,
           NEW done, done = Ticked(seed)
    PROVE  /\ Good(done.h, done.e, toy) /\ ByRules(match, done.h)
           /\ done.h \in Matches /\ done.e \in [Seats -> Endpoints]
<1> DEFINE s == [h |-> match, e |-> endpoint]
           f == Flush(s)
           g == PhaseStep(f.h, f.e, seed)
           r == [f EXCEPT !.h = g]
<1>1. Served(s) /\ s.h = match /\ s.e = endpoint
  BY DEF IInv, Good, Shaped, Served
<1>2. Scanned(s) = s
  BY <1>1, NothingScanned
<1>3. NextRoundDue = NewRoundDue(f.h, f.e) /\ done = Flush(r)
  BY <1>2 DEF Ticked, NextRoundDue
<1> HIDE DEF s
<1>4. Handed(s, f)
  BY <1>1, FlushHands
<1> HIDE DEF f
<1>5. Served(f) /\ OnlyQueues(s.h, f.h) /\ Good(f.h, f.e, toy)
  <2>1. Good(s.h, s.e, toy)
    BY <1>1 DEF IInv
  <2>2. Good(f.h, f.e, toy)
    BY <1>1, <1>4, <2>1, HandedGood
  <2> QED
    BY <1>4, <2>2 DEF Handed
<1>6. NewRoundDue(f.h, f.e) => f.h.round < MaxRounds
  BY <1>1, <1>3, <1>5 DEF OnlyQueues, SameRound
<1>7. Good(g, f.e, toy) /\ ByRules(f.h, g)
  BY <1>5, <1>6, PhaseStepGood
<1> HIDE DEF g
<1>8. Served(r) /\ r.h = g /\ r.e = f.e
  <2>1. f = [h |-> f.h, e |-> f.e]
    BY <1>5 DEF Served
  <2>2. r = [h |-> g, e |-> f.e]
    BY <2>1
  <2> QED
    BY <1>7, <2>2 DEF Good, Shaped, Served
<1> HIDE DEF r
<1>9. Handed(r, done)
  BY <1>3, <1>8, FlushHands
<1>10. Good(done.h, done.e, toy)
  <2>1. Good(r.h, r.e, toy)
    BY <1>7, <1>8
  <2> QED
    BY <1>8, <1>9, <2>1, HandedGood
<1>11. ByRules(match, done.h)
  <2>1. Still(match, f.h) /\ Still(g, done.h)
    <3>1. OnlyQueues(match, f.h) /\ OnlyQueues(g, done.h)
      BY <1>1, <1>5, <1>8, <1>9 DEF Handed
    <3> QED
      BY <3>1, QueuesStill
  <2> QED
    BY <1>7, <2>1, RulesThrough
<1> QED
  BY <1>10, <1>11 DEF Good, Shaped

\* The hub's tick.
LEMMA TickSound ==
    ASSUME IInv, Tick
    PROVE  IInv' /\ ByRules(match, match')
<1>1. PICK seed \in SEEDS :
        /\ NextRoundDue => match.round < MaxRounds
        /\ match' = Ticked(seed).h
        /\ endpoint' = [s \in Seats |-> IF Ticked(seed).h.connected[s]
                                        THEN Ticked(seed).e[s] ELSE Stopped]
        /\ toy' = [s \in Seats |-> IF Ticked(seed).h.connected[s] THEN toy[s] ELSE Untold]
  BY DEF Tick
<1> DEFINE done == Ticked(seed)
           d == [s \in Seats |-> IF done.h.connected[s] THEN done.e[s] ELSE Stopped]
           u == [s \in Seats |-> IF done.h.connected[s] THEN toy[s] ELSE Untold]
<1>2. match' = done.h /\ endpoint' = d /\ toy' = u
  BY <1>1
<1> HIDE DEF done
<1>3. /\ Good(done.h, done.e, toy) /\ ByRules(match, done.h)
      /\ done.h \in Matches /\ done.e \in [Seats -> Endpoints]
  BY <1>1, TickedGood DEF done
<1>4. toy \in [Seats -> Toys]
  BY DEF IInv, Good, Shaped
<1>5. d \in [Seats -> Endpoints] /\ u \in [Seats -> Toys]
  BY <1>3, <1>4, NothingHeld
<1>6. \A s \in Seats : Len(d[s].queue) <= HEADROOM
  <2> SUFFICES ASSUME NEW s \in Seats PROVE Len(d[s].queue) <= HEADROOM
    OBVIOUS
  <2>1. Len(done.e[s].queue) <= HEADROOM
    BY <1>3 DEF Good, Shaped
  <2>2. Len(Stopped.queue) <= HEADROOM
    BY NothingHeld
  <2>3. d[s] = done.e[s] \/ d[s] = Stopped
    OBVIOUS
  <2> QED
    BY <2>1, <2>2, <2>3
<1>7. \A s \in Connected(done.h) : d[s] = done.e[s] /\ u[s] = toy[s]
  BY DEF Connected
<1> HIDE DEF d, u
<1>8. Good(done.h, d, u)
  BY <1>3, <1>5, <1>6, <1>7, GoodElsewhere
<1> QED
  BY <1>2, <1>3, <1>8 DEF IInv

\* The owner's start.
LEMMA StartSound ==
    ASSUME IInv, Start
    PROVE  IInv' /\ ByRules(match, match')
<1>1. PICK seed \in SEEDS : match' = BeginRound(match, seed)
  BY DEF Start
<1>2. match.phase = "lobby" /\ endpoint' = endpoint /\ toy' = toy
  BY DEF Start
<1>3. match.round < MaxRounds
  <2>1. match.round = 0
    BY <1>2 DEF IInv, Good, Phased
  <2> QED
    BY <2>1, MatchAssumption
<1>4. \A s \in Connected(match) :
         /\ match.outbox[s] = <<>> /\ toy[s].round = match.round
         /\ \A k \in DOMAIN endpoint[s].queue : endpoint[s].queue[k].type = "BEAT"
  BY <1>2 DEF IInv, Good, Quiet, Phased
<1>5. Good(match, endpoint, toy)
  BY DEF IInv
<1>6. /\ Good(match', endpoint, toy) /\ match'.phase = "preparing"
      /\ match'.round = match.round + 1
      /\ Connected(match') = Connected(match) /\ match'.alive = Connected(match)
      /\ match'.wins = match.wins /\ match'.winner = Unset /\ match'.finish = match.finish
  BY <1>1, <1>2, <1>3, <1>4, <1>5, BeginRoundGood
<1> QED
  BY <1>2, <1>6 DEF IInv, ByRules

\* A seat is lost in one way or another.
LEMMA LossSound ==
    ASSUME IInv, match.phase # "lobby", NEW i \in Seats,
           NEW g, g = Disconnect(match, i)
    PROVE  Good(g, endpoint, toy) /\ i \notin Connected(g) /\ ByRules(match, g)
<1>1. /\ match \in Matches /\ Shaped(match, endpoint, toy) /\ Phased(match)
      /\ Naming(match, endpoint, toy)
  BY DEF IInv, Good, Shaped
<1>2. Lines(match, endpoint, toy, Connected(match) \ {i})
  BY DEF IInv, Good, Lines
<1>3. Good(g, endpoint, toy) /\ Onward(match, g, {}) /\ i \notin Connected(g)
  BY <1>1, <1>2, DisconnectGood
<1> QED
  BY <1>1, <1>3, OnwardRules

\* The endpoint of a seat is lost.
LEMMA DetachSound ==
    ASSUME IInv, NEW i \in Seats, Detach(i)
    PROVE  IInv' /\ ByRules(match, match')
<1> DEFINE d == [endpoint EXCEPT ![i] = Stopped]
           u == [toy EXCEPT ![i] = Untold]
<1>1. match.phase # "lobby" /\ match' = Disconnect(match, i) /\ endpoint' = d /\ toy' = u
  BY DEF Detach
<1>2. Good(match', endpoint, toy) /\ i \notin Connected(match') /\ ByRules(match, match')
  BY <1>1, LossSound
<1>3. /\ endpoint \in [Seats -> Endpoints] /\ toy \in [Seats -> Toys]
      /\ \A s \in Seats : Len(endpoint[s].queue) <= HEADROOM
  BY DEF IInv, Good, Shaped
<1>4. d \in [Seats -> Endpoints] /\ u \in [Seats -> Toys]
  BY <1>3, NothingHeld
<1>5. \A s \in Seats : Len(d[s].queue) <= HEADROOM
  <2> SUFFICES ASSUME NEW s \in Seats PROVE Len(d[s].queue) <= HEADROOM
    OBVIOUS
  <2>1. d[s] = IF s = i THEN Stopped ELSE endpoint[s]
    BY <1>3
  <2> QED
    BY <1>3, <2>1, NothingHeld
<1>6. \A s \in Connected(match') : d[s] = endpoint[s] /\ u[s] = toy[s]
  BY <1>2, <1>3 DEF Connected
<1> HIDE DEF d, u
<1>7. Good(match', d, u)
  BY <1>2, <1>4, <1>5, <1>6, GoodElsewhere
<1> QED
  BY <1>1, <1>2, <1>7 DEF IInv

\* A toy leaves.
LEMMA LeaveSound ==
    ASSUME IInv, NEW i \in Seats, ReceiveLeave(i)
    PROVE  IInv' /\ ByRules(match, match')
<1>1. match.phase # "lobby" /\ match' = Disconnect(match, i) /\ endpoint' = endpoint /\ toy' = toy
  BY DEF ReceiveLeave, Heard
<1> QED
  BY <1>1, LossSound DEF IInv

\* A player tops out.
LEMMA TopOutSound ==
    ASSUME IInv, NEW i \in Seats, ReceiveTopOut(i)
    PROVE  IInv' /\ ByRules(match, match')
<1>1. /\ match.phase = "playing" /\ i \in match.alive
      /\ match' = Eliminate(Drop, match, i) /\ endpoint' = endpoint /\ toy' = toy
  BY DEF ReceiveTopOut, InPlay
<1>2. Good(match, endpoint, toy) /\ match \in Matches /\ Phased(match)
  BY DEF IInv, Good, Shaped
<1>3. Good(match', endpoint, toy) /\ Onward(match, match', {})
  BY <1>1, <1>2, EliminateGood
<1> QED
  BY <1>1, <1>2, <1>3, OnwardRules DEF IInv

\* A match in which none of what the invariant speaks of has changed.
Alike(h, g) ==
    /\ g \in Matches /\ g.phase = h.phase /\ g.round = h.round /\ g.seed = h.seed
    /\ g.wins = h.wins /\ g.winner = h.winner /\ g.finish = h.finish /\ g.alive = h.alive
    /\ g.connected = h.connected /\ g.garbageId = h.garbageId /\ g.outbox = h.outbox
    /\ \A s \in Seats : h.prepared[s] => g.prepared[s]
    /\ g.settle \in {Unset} \cup 0..SETTLE_MS /\ (g.settle = Unset <=> h.settle = Unset)

\* It is as good as it was.
LEMMA GoodAlike ==
    ASSUME NEW h, NEW e, NEW t, Good(h, e, t), NEW g, Alike(h, g)
    PROVE  Good(g, e, t) /\ Still(h, g) /\ ByRules(h, g)
<1>1. /\ g \in Matches /\ g.phase = h.phase /\ g.round = h.round /\ g.seed = h.seed
      /\ g.wins = h.wins /\ g.winner = h.winner /\ g.finish = h.finish /\ g.alive = h.alive
      /\ g.connected = h.connected /\ g.garbageId = h.garbageId /\ g.outbox = h.outbox
      /\ \A s \in Seats : h.prepared[s] => g.prepared[s]
      /\ g.settle \in {Unset} \cup 0..SETTLE_MS /\ (g.settle = Unset <=> h.settle = Unset)
  BY DEF Alike
<1>2. Connected(g) = Connected(h) /\ h \in Matches
  BY <1>1 DEF Connected, Good, Shaped
<1>3. Shaped(g, e, t)
  BY <1>1, <1>2 DEF Good, Shaped
<1>4. Phased(g)
  BY <1>1, <1>2 DEF Good, Phased, Armed, Champion, Before
<1>5. Quiet(g, e, t)
  BY <1>1 DEF Good, Quiet
<1>6. Lines(g, e, t, Connected(g))
  <2>1. \A w : Named(h, w) => Named(g, w)
    BY <1>1 DEF Named, Champion
  <2>2. Lines(h, e, t, Connected(g)) /\ Connected(g) \subseteq Seats
    BY <1>2 DEF Good, Connected
  <2>3. \A s \in Connected(g) : h.prepared[s] => g.prepared[s]
    BY <1>1, <2>2
  <2> QED
    BY <1>1, <2>1, <2>2, <2>3, LinesStay
<1>7. Naming(g, e, t)
  <2>1. \A i : Way(g, e, i) = Way(h, e, i)
    BY <1>1 DEF Way
  <2>2. Closed(g) = Closed(h)
    BY <1>1 DEF Closed
  <2> QED
    BY <1>2, <2>1, <2>2 DEF Good, Naming, Hears
<1>8. Still(h, g)
  BY <1>1, <1>2 DEF Still, Rests, Stands
<1> QED
  BY <1>3, <1>4, <1>5, <1>6, <1>7, <1>8 DEF Good, Still, ByRules

\* Time passes.
LEMMA ClockSound ==
    ASSUME IInv, Clock
    PROVE  IInv' /\ ByRules(match, match')
<1>1. /\ match \in Matches /\ match.settle \in {Unset} \cup 0..SETTLE_MS
      /\ Good(match, endpoint, toy) /\ endpoint' = endpoint /\ toy' = toy
  BY DEF IInv, Good, Shaped, Clock
<1>2. Alike(match, match')
  <2>1. CASE match' = [match EXCEPT !.deadline = @ - 1]
    <3> DEFINE left == match.deadline - 1
               g == [match EXCEPT !.deadline = left]
    <3>1. left \in Int
      BY <1>1 DEF Matches
    <3>2. match' = g
      BY <2>1
    <3> HIDE DEF left
    <3>3. Alike(match, g)
      BY <1>1, <3>1 DEF Matches, Alike
    <3> QED
      BY <3>2, <3>3
  <2>2. CASE match.settle > 0 /\ match' = [match EXCEPT !.settle = @ - 1]
    <3> DEFINE left == match.settle - 1
               g == [match EXCEPT !.settle = left]
    <3>1. left \in 0..SETTLE_MS /\ left # Unset /\ match.settle # Unset /\ left \in Int
      <4>1. match.settle > 0 /\ SETTLE_MS \in Nat
        BY <2>2, MatchAssumption
      <4> QED
        BY <1>1, <4>1 DEF Unset
    <3>2. match' = g
      BY <2>2
    <3> HIDE DEF left
    <3>3. Alike(match, g)
      BY <1>1, <3>1 DEF Matches, Alike
    <3> QED
      BY <3>2, <3>3
  <2> QED
    BY <2>1, <2>2 DEF Clock
<1> QED
  BY <1>1, <1>2, GoodAlike DEF IInv

\* A toy confirms the round it is to play.
LEMMA ReadySound ==
    ASSUME IInv, NEW i \in Seats, ReceiveReady(i)
    PROVE  IInv' /\ ByRules(match, match')
<1> DEFINE held == [match.prepared EXCEPT ![i] = TRUE]
           g == [match EXCEPT !.prepared = held]
<1>1. /\ match \in Matches /\ match.settle \in {Unset} \cup 0..SETTLE_MS
      /\ Good(match, endpoint, toy)
      /\ endpoint' = endpoint /\ toy' = toy /\ match' = g
  BY DEF IInv, Good, Shaped, ReceiveReady
<1>2. held \in [Seats -> BOOLEAN] /\ \A s \in Seats : match.prepared[s] => held[s]
  BY <1>1 DEF Matches
<1> HIDE DEF held
<1>3. Alike(match, g)
  BY <1>1, <1>2 DEF Matches, Alike
<1> QED
  BY <1>1, <1>3, GoodAlike DEF IInv

-----------------------------------------------------------------------------
(* Attacks                                                                  *)

\* An attack is aimed at somebody who lives.
LEMMA TargetLives ==
    ASSUME NEW h \in Matches, NEW i \in Seats, NextTarget(h, i) # Unset
    PROVE  NextTarget(h, i) \in h.alive
<1> DEFINE C == Candidates(h, i)
<1>1. C # {} /\ NextTarget(h, i) = (h.target[i] + Min(C)) % N
  BY DEF NextTarget
<1>2. C \in SUBSET Nat
  <2>1. 0..(N - 1) \subseteq Nat
    BY Numbers
  <2> QED
    BY <2>1 DEF Candidates
<1>3. Min(C) \in C
  <2> HIDE DEF C
  <2>1. \E n \in C : \A k \in C : n <= k
    BY <1>1, <1>2, Least
  <2> QED
    BY <2>1 DEF Min
<1> QED
  BY <1>1, <1>3 DEF Candidates

\* The aim moves past the one it hit.
LEMMA AimMoves ==
    ASSUME NEW h \in Matches, NEW i \in Seats, NEW t \in Seats,
           h.settle \in {Unset} \cup 0..SETTLE_MS,
           NEW g, g = Aimed(h, i, t)
    PROVE  Alike(h, g)
<1> DEFINE past == (t + 1) % N
           aims == [h.target EXCEPT ![i] = past]
<1>1. g = [h EXCEPT !.target = aims]
  BY DEF Aimed
<1>2. past \in Seats
  <2> DEFINE n == t + 1
  <2>1. n \in Nat /\ N \in Nat /\ N > 0
    BY Numbers
  <2> HIDE DEF n
  <2>2. n % N \in 0..N - 1
    BY <2>1
  <2> QED
    BY <2>2 DEF n, Seats
<1> HIDE DEF past
<1>3. aims \in [Seats -> Seats]
  BY <1>2 DEF Matches
<1> HIDE DEF aims
<1> QED
  BY <1>1, <1>3 DEF Alike, Matches

\* One more attack is on its way.
LEMMA OneMore ==
    ASSUME NEW v \in Seq(Messages), NEW w \in Seq(Messages), NEW m,
           Len(w) = Len(v) + 1, \A k \in 1..Len(v) : w[k] = v[k], w[Len(v) + 1] = m,
           NEW from \in Nat, NEW last \in Nat, InOrder(v, from, last),
           m.type = "GARBAGE", m.id = last + 1
    PROVE  InOrder(w, from, last + 1)
<1> DEFINE n == Len(v) + 1
<1>1. n \in Nat /\ Len(v) \in Nat /\ DOMAIN v = 1..Len(v) /\ DOMAIN w = 1..n /\ n \notin DOMAIN v
  OBVIOUS
<1>2. \A k \in 1..n : k \in DOMAIN v \/ k = n
  BY <1>1
<1>3. Attacks(w) = Attacks(v) \cup {n}
  BY <1>1, <1>2 DEF Attacks
<1>4. /\ from <= last /\ {v[k].id : k \in Attacks(v)} = from + 1 .. last
      /\ \A j, k \in Attacks(v) : j < k => v[j].id < v[k].id
  BY DEF InOrder
<1>5. \A k \in Attacks(v) : w[k] = v[k] /\ k \in 1..Len(v)
  BY <1>1 DEF Attacks
<1>6. w[n].id = last + 1 /\ \A k \in Attacks(v) : w[k].id = v[k].id
  BY <1>5
<1>7. {w[k].id : k \in Attacks(w)} = from + 1 .. last + 1
  <2>1. from + 1 .. last + 1 = (from + 1 .. last) \cup {last + 1}
    BY <1>4
  <2>2. {w[k].id : k \in Attacks(w)} = {v[k].id : k \in Attacks(v)} \cup {last + 1}
    <3> HIDE DEF n
    <3> QED
      BY <1>3, <1>6
  <2> QED
    BY <1>4, <2>1, <2>2
<1>8. ASSUME NEW j \in Attacks(w), NEW k \in Attacks(w), j < k PROVE w[j].id < w[k].id
  <2>1. j # n /\ j \in Attacks(v)
    <3>1. j \in 1..n /\ k \in 1..n
      BY <1>1 DEF Attacks
    <3> QED
      BY <1>1, <1>3, <1>8, <3>1
  <2>2. CASE k = n
    <3>1. v[j].id \in from + 1 .. last
      BY <1>4, <2>1
    <3>2. v[j].id < last + 1
      BY <3>1
    <3> QED
      BY <1>6, <2>1, <2>2, <3>2
  <2>3. CASE k # n
    <3>1. k \in Attacks(v)
      BY <1>3, <2>3
    <3> QED
      BY <1>4, <1>6, <1>8, <2>1, <3>1
  <2> QED
    BY <2>2, <2>3
<1>9. from <= last + 1
  BY <1>4
<1> QED
  BY <1>7, <1>8, <1>9 DEF InOrder

\* A message at the end of a queue is at the end of the way.
LEMMA WayLonger ==
    ASSUME NEW q \in Seq(Messages), NEW o \in Seq(Messages), NEW m \in Messages,
           NEW v, v = q \o o, NEW w, w = q \o Append(o, m)
    PROVE  /\ v \in Seq(Messages) /\ w \in Seq(Messages) /\ Len(w) = Len(v) + 1
           /\ \A k \in 1..Len(v) : w[k] = v[k]
           /\ w[Len(v) + 1] = m
<1> DEFINE p == Append(o, m)
<1>1. /\ p \in Seq(Messages) /\ Len(p) = Len(o) + 1 /\ p[Len(o) + 1] = m
      /\ \A k \in 1..Len(o) : p[k] = o[k]
  OBVIOUS
<1>2. Len(o) \in Nat /\ Len(q) \in Nat
  OBVIOUS
<1> HIDE DEF p
<1>3. /\ v \in Seq(Messages) /\ Len(v) = Len(q) + Len(o)
      /\ \A j \in 1..Len(q) + Len(o) : v[j] = IF j <= Len(q) THEN q[j] ELSE o[j - Len(q)]
  BY Joined
<1>4. /\ q \o p \in Seq(Messages) /\ Len(q \o p) = Len(q) + Len(p)
      /\ \A j \in 1..Len(q) + Len(p) : (q \o p)[j] = IF j <= Len(q) THEN q[j] ELSE p[j - Len(q)]
  BY <1>1, Joined
<1>5. w = q \o p
  BY DEF p
<1>6. Len(w) = Len(v) + 1
  BY <1>1, <1>2, <1>3, <1>4, <1>5
<1>7. ASSUME NEW k \in 1..Len(v) PROVE w[k] = v[k]
  <2>1. k \in 1..Len(q) + Len(p) /\ k \in 1..Len(q) + Len(o)
    BY <1>1, <1>2, <1>3
  <2>2. CASE k <= Len(q)
    BY <1>3, <1>4, <1>5, <2>1, <2>2
  <2>3. CASE ~(k <= Len(q))
    <3>1. k - Len(q) \in 1..Len(o)
      BY <1>2, <2>1, <2>3
    <3> QED
      BY <1>1, <1>3, <1>4, <1>5, <2>1, <2>3, <3>1
  <2> QED
    BY <2>2, <2>3
<1>8. w[Len(v) + 1] = m
  <2> DEFINE n == Len(q) + Len(o) + 1
  <2>1. n \in 1..Len(q) + Len(p) /\ ~(n <= Len(q)) /\ n - Len(q) = Len(o) + 1
    BY <1>1, <1>2
  <2> QED
    BY <1>1, <1>3, <1>4, <1>5, <2>1
<1> QED
  BY <1>3, <1>4, <1>5, <1>6, <1>7, <1>8

\* An attack allotted to a seat: everyone else hears what they heard.
Allotted(h, e, t, i, g) ==
    /\ Shaped(g, e, t) /\ Phased(g) /\ g.phase = "playing" /\ Naming(g, e, t)
    /\ Still(h, g) /\ Lines(g, e, t, Connected(g) \ {i})
    /\ g.outbox = h.outbox /\ g.garbageId[i] = h.garbageId[i] + 1
    /\ g.seed = h.seed /\ g.prepared = h.prepared /\ i \in Connected(g)

\* That is what it takes to allot it.
LEMMA HitIs ==
    ASSUME NEW h, NEW e, NEW t, Good(h, e, t), h.phase = "playing", NEW i \in Connected(h),
           h.garbageId[i] # GARBAGE_LIMIT,
           NEW g, g = Hit(h, i)
    PROVE  Allotted(h, e, t, i, g)
<1>1. h \in Matches /\ e \in [Seats -> Endpoints] /\ i \in Seats
  BY DEF Good, Shaped, Connected
<1> DEFINE more == h.garbageId[i] + 1
           ids == [h.garbageId EXCEPT ![i] = more]
<1>2. g = [h EXCEPT !.garbageId = ids]
  BY DEF Hit
<1>3. more \in Nat /\ more <= GARBAGE_LIMIT /\ h.garbageId \in [Seats -> Nat]
  <2>1. h.garbageId[i] \in Nat /\ h.garbageId[i] <= GARBAGE_LIMIT /\ GARBAGE_LIMIT \in Nat
    BY <1>1, MatchAssumption DEF Good, Shaped, Matches
  <2> QED
    BY <1>1, <2>1 DEF Matches
<1> HIDE DEF more
<1>4. /\ ids \in [Seats -> Nat] /\ ids[i] = more
      /\ \A s \in Seats : s # i => ids[s] = h.garbageId[s]
  BY <1>1, <1>3
<1> HIDE DEF ids
<1>5. /\ g \in Matches /\ g.phase = h.phase /\ g.round = h.round /\ g.seed = h.seed
      /\ g.wins = h.wins /\ g.winner = h.winner /\ g.finish = h.finish /\ g.alive = h.alive
      /\ g.connected = h.connected /\ g.prepared = h.prepared /\ g.garbageId = ids
      /\ g.outbox = h.outbox /\ g.settle = h.settle
  BY <1>1, <1>2, <1>4 DEF Matches
<1>6. Connected(g) = Connected(h)
  BY <1>5 DEF Connected
<1>7. Shaped(g, e, t)
  <2>1. \A s \in Seats : g.garbageId[s] <= GARBAGE_LIMIT
    BY <1>3, <1>4, <1>5 DEF Good, Shaped
  <2> QED
    BY <1>5, <1>6, <2>1 DEF Good, Shaped
<1>8. Phased(g)
  BY <1>5, <1>6 DEF Good, Phased, Armed, Before
<1>9. Still(h, g)
  BY <1>5, <1>6 DEF Still, Rests, Stands
<1>10. Naming(g, e, t)
  BY <1>5 DEF Naming, Closed
<1>11. Lines(g, e, t, Connected(g) \ {i})
  <2> SUFFICES ASSUME NEW s \in Connected(h) \ {i}
               PROVE  /\ Honest(g, Way(g, e, s)) /\ (t[s].final = Unset \/ Named(g, t[s].final))
                      /\ Ready(g, s, Way(g, e, s), t[s])
    BY <1>5, <1>6 DEF Lines
  <2>1. /\ Honest(h, Way(h, e, s)) /\ (t[s].final = Unset \/ Named(h, t[s].final))
        /\ Ready(h, s, Way(h, e, s), t[s])
    BY DEF Good, Lines
  <2>2. Way(g, e, s) = Way(h, e, s) /\ s \in Seats
    BY <1>5 DEF Way, Connected
  <2>3. \A w : Named(h, w) => Named(g, w)
    BY <1>5 DEF Named, Champion
  <2>4. Honest(g, Way(g, e, s)) /\ (t[s].final = Unset \/ Named(g, t[s].final))
    BY <1>5, <2>1, <2>2, <2>3 DEF Honest
  <2>5. Ready(g, s, Way(g, e, s), t[s])
    <3>1. g.garbageId[s] = h.garbageId[s]
      BY <1>4, <1>5, <2>2
    <3> QED
      BY <1>5, <2>1, <2>2, <3>1 DEF Ready
  <2> QED
    BY <2>4, <2>5
<1> QED
  BY <1>4, <1>5, <1>6, <1>7, <1>8, <1>9, <1>10, <1>11 DEF more, Allotted

\* It takes its place behind what the toy is still to hear.
LEMMA HitHeld ==
    ASSUME NEW h, NEW e, NEW t, Good(h, e, t), h.phase = "playing", NEW i \in Connected(h),
           h.garbageId[i] # GARBAGE_LIMIT, Len(h.outbox[i]) < OUTBOX_LIMIT,
           NEW k, k = Hit(h, i),
           NEW m, m = GARBAGE(k, k.garbageId[i]),
           NEW g, g = Holding(k, i, Append(k.outbox[i], m))
    PROVE  Good(g, e, t) /\ Still(h, g)
<1>1. /\ h \in Matches /\ e \in [Seats -> Endpoints] /\ i \in Seats
      /\ h.garbageId[i] \in Nat /\ t[i] \in Toys
  BY DEF Good, Shaped, Connected, Matches
<1>2. /\ Shaped(k, e, t) /\ Phased(k) /\ k.phase = "playing" /\ Naming(k, e, t)
      /\ Still(h, k) /\ Lines(k, e, t, Connected(k) \ {i})
      /\ k.outbox = h.outbox /\ k.garbageId[i] = h.garbageId[i] + 1
      /\ k.seed = h.seed /\ k.prepared = h.prepared /\ i \in Connected(k)
  <2>1. Allotted(h, e, t, i, k)
    BY HitIs
  <2> QED
    BY <2>1 DEF Allotted
<1>3. k \in Matches /\ k.garbageId[i] \in Nat
  BY <1>1, <1>2 DEF Shaped
<1>4. m \in Messages /\ m.type = "GARBAGE" /\ m.round = k.round /\ m.id = h.garbageId[i] + 1
  BY <1>2, <1>3, Sendable DEF GARBAGE
<1> DEFINE o == k.outbox[i]
           p == Append(o, m)
           q == e[i].queue
<1>5. o \in Seq(Messages) /\ q \in Seq(Messages) /\ Len(o) \in Nat
  BY <1>1, <1>3, WayTyped, Queued
<1>6. Len(p) = Len(o) + 1 /\ p \in Seq(Messages) /\ Len(o) < OUTBOX_LIMIT
  BY <1>2, <1>4, <1>5
<1>7. Grown(o, p, {m})
  BY <1>4, <1>5 DEF Grown
<1>8. Len(p) <= OUTBOX_LIMIT
  BY <1>5, <1>6, Numbers
<1> HIDE DEF p, q, o
<1>9. Onward(k, g, {m})
  <2>1. Grown(k.outbox[i], p, {m}) /\ g = Holding(k, i, p)
    BY <1>7 DEF o, p
  <2> QED
    BY <1>1, <1>3, <1>6, <1>8, <2>1, HoldingOnward
<1>10. /\ g \in Matches /\ SameRound(k, g) /\ g.phase = k.phase /\ g.winner = k.winner
       /\ g.alive = k.alive /\ g.settle = k.settle /\ g.connected = k.connected
       /\ g.outbox[i] = p /\ \A s \in Seats : s # i => g.outbox[s] = k.outbox[s]
  <2>1. g = Holding(k, i, p)
    BY DEF o, p
  <2> QED
    BY <1>1, <1>3, <1>6, <2>1, HoldingIs
<1>11. Connected(g) = Connected(k)
  BY <1>10 DEF Connected
<1>12. Shaped(g, e, t)
  <2>1. Short(k, g)
    BY <1>9 DEF Onward, Moved
  <2>2. k.settle = g.settle
    BY <1>10
  <2> QED
    BY <1>2, <1>10, <1>11, <2>1, <2>2, ShapedOnward
<1>13. Phased(g) /\ Naming(g, e, t)
  BY <1>1, <1>2, <1>3, <1>9, PhasedOnward, NamingOnward
<1>14. Still(h, g)
  <2>1. Still(k, g)
    BY <1>10, <1>11 DEF Still, Rests, Stands, SameRound
  <2> QED
    BY <1>2, <2>1 DEF Still, Rests, Stands
<1>15. Lines(g, e, t, Connected(g))
  <2> SUFFICES ASSUME NEW s \in Connected(k)
               PROVE  /\ Honest(g, Way(g, e, s)) /\ (t[s].final = Unset \/ Named(g, t[s].final))
                      /\ Ready(g, s, Way(g, e, s), t[s])
    BY <1>2, <1>10, <1>11 DEF Lines
  <2>1. \A w : Named(k, w) => Named(g, w)
    BY <1>10 DEF Named, Champion, SameRound
  <2>2. CASE s # i
    <3>1. /\ Honest(k, Way(k, e, s)) /\ (t[s].final = Unset \/ Named(k, t[s].final))
          /\ Ready(k, s, Way(k, e, s), t[s])
      BY <1>2, <2>2 DEF Lines
    <3>2. Way(g, e, s) = Way(k, e, s)
      BY <1>10, <2>2 DEF Way, Connected
    <3> QED
      BY <1>10, <2>1, <3>1, <3>2 DEF Honest, Ready, SameRound
  <2>3. CASE s = i
    <3> DEFINE v == Way(h, e, i)
               w == Way(g, e, i)
               x == t[i]
    <3>1. /\ Honest(h, v) /\ (x.final = Unset \/ Named(h, x.final)) /\ Ready(h, i, v, x)
      <4>1. i \in Connected(h)
        OBVIOUS
      <4> QED
        BY <4>1 DEF Good, Lines
    <3>2. v = q \o o /\ w = q \o Append(o, m)
      BY <1>2, <1>10 DEF Way, o, q, p
    <3> HIDE DEF v, w
    <3>3. /\ v \in Seq(Messages) /\ w \in Seq(Messages) /\ Len(w) = Len(v) + 1
          /\ \A j \in 1..Len(v) : w[j] = v[j]
          /\ w[Len(v) + 1] = m
      BY <1>4, <1>5, <3>2, WayLonger
    <3>4. \A w2 : Named(h, w2) => Named(g, w2)
      BY <1>2, <1>14 DEF Named, Champion, Still, Rests, Stands
    <3>5. g.round = h.round /\ g.seed = h.seed /\ g.prepared = h.prepared
          /\ g.garbageId[i] = h.garbageId[i] + 1
      BY <1>2, <1>10 DEF Still, Rests, Stands, SameRound
    <3>6. \A j \in DOMAIN w : (j \in DOMAIN v /\ w[j] = v[j]) \/ w[j] = m
      <4>1. DOMAIN w = 1..Len(v) + 1 /\ DOMAIN v = 1..Len(v) /\ Len(v) \in Nat
        BY <3>3
      <4>2. \A j \in 1..Len(v) + 1 : j \in 1..Len(v) \/ j = Len(v) + 1
        BY <4>1
      <4> QED
        BY <3>3, <4>1, <4>2
    <3>7. Honest(g, w)
      BY <1>4, <3>1, <3>4, <3>5, <3>6, <1>10 DEF Honest, SameRound
    <3>8. InOrder(w, x.garbage, g.garbageId[i])
      <4>1. InOrder(v, x.garbage, h.garbageId[i]) /\ x.garbage \in Nat
        BY <1>1, <3>1 DEF Ready, Toys
      <4> HIDE DEF x
      <4> QED
        BY <1>1, <1>4, <3>3, <3>5, <4>1, OneMore
    <3>9. Ready(g, i, w, x)
      BY <1>4, <3>1, <3>5, <3>6, <3>8 DEF Ready
    <3> QED
      BY <2>3, <3>1, <3>4, <3>7, <3>9 DEF w
  <2> QED
    BY <2>2, <2>3
<1> QED
  BY <1>2, <1>10, <1>12, <1>13, <1>14, <1>15 DEF Good, Quiet

\* A match that loses a seat, from a match that stands as it stood.
LEMMA CostsSeat ==
    ASSUME NEW h, NEW k, Still(h, k), NEW e, NEW t, NEW i \in Seats,
           Shaped(k, e, t), Phased(k), k.phase # "lobby",
           Lines(k, e, t, Connected(k) \ {i}), Naming(k, e, t),
           NEW g, g = Disconnect(k, i)
    PROVE  Good(g, e, t) /\ ByRules(h, g)
<1>1. Good(g, e, t) /\ Onward(k, g, {})
  BY DisconnectGood
<1>2. ByRules(k, g)
  BY <1>1, OnwardRules DEF Shaped
<1>3. Still(g, g)
  BY DEF Still, Rests, Stands
<1> QED
  BY <1>1, <1>2, <1>3, RulesThrough

\* An attack is queued, or costs the one it is aimed at its seat.
LEMMA AttackSound ==
    ASSUME IInv, NEW i \in Seats, ReceiveAttack(i)
    PROVE  IInv' /\ ByRules(match, match')
<1> DEFINE s == NextTarget(match, i)
           a == Aimed(match, i, s)
           k == Hit(a, s)
           m == GARBAGE(k, k.garbageId[s])
<1>1. /\ s # Unset /\ match.phase = "playing" /\ endpoint' = endpoint /\ toy' = toy
      /\ match' = IF match.garbageId[s] = GARBAGE_LIMIT THEN Disconnect(a, s)
                  ELSE Queue(Drop, k, s, m)
  BY DEF ReceiveAttack, InPlay
<1>2. match \in Matches /\ Good(match, endpoint, toy) /\ match.settle \in {Unset} \cup 0..SETTLE_MS
  BY DEF IInv, Good, Shaped
<1>3. s \in match.alive /\ s \in Connected(match) /\ s \in Seats
  <2>1. s \in match.alive
    BY <1>1, <1>2, TargetLives
  <2> HIDE DEF s
  <2>2. match.alive \subseteq Connected(match)
    BY <1>1, <1>2 DEF Good, Phased
  <2> QED
    BY <2>1, <2>2 DEF Connected
<1> HIDE DEF s
<1>4. Alike(match, a)
  BY <1>2, <1>3, AimMoves
<1>5. Good(a, endpoint, toy) /\ Still(match, a)
  BY <1>2, <1>4, GoodAlike
<1>6. /\ a \in Matches /\ a.phase = "playing" /\ s \in Connected(a)
      /\ a.garbageId = match.garbageId /\ a.outbox = match.outbox
  BY <1>1, <1>3, <1>4 DEF Alike, Connected
<1> HIDE DEF a
<1>7. CASE match.garbageId[s] = GARBAGE_LIMIT
  <2>1. match' = Disconnect(a, s)
    BY <1>1, <1>7
  <2>2. /\ Shaped(a, endpoint, toy) /\ Phased(a) /\ Naming(a, endpoint, toy)
        /\ Lines(a, endpoint, toy, Connected(a) \ {s})
    BY <1>5 DEF Good, Lines
  <2>3. Good(match', endpoint, toy) /\ ByRules(match, match')
    BY <1>3, <1>5, <1>6, <2>1, <2>2, CostsSeat
  <2> QED
    BY <1>1, <2>3 DEF IInv
<1>8. CASE match.garbageId[s] # GARBAGE_LIMIT
  <2>1. match' = Queue(Drop, k, s, m)
    BY <1>1, <1>8
  <2>2. a.garbageId[s] # GARBAGE_LIMIT
    BY <1>6, <1>8
  <2>3. /\ Shaped(k, endpoint, toy) /\ Phased(k) /\ k.phase = "playing" /\ Naming(k, endpoint, toy)
        /\ Still(a, k) /\ Lines(k, endpoint, toy, Connected(k) \ {s})
        /\ k.outbox = a.outbox /\ s \in Connected(k)
    <3>1. Allotted(a, endpoint, toy, s, k)
      BY <1>5, <1>6, <2>2, HitIs
    <3> QED
      BY <3>1 DEF Allotted
  <2> HIDE DEF k
  <2>4. m.type = "GARBAGE" /\ k \in Matches
    BY <2>3 DEF GARBAGE, Shaped
  <2>5. Replaced(k.outbox[s], m) = {}
    BY <2>4 DEF Replaced
  <2> HIDE DEF m
  <2>6. Len(k.outbox[s]) \in Nat /\ OUTBOX_LIMIT \in Nat /\ k.connected[s]
    BY <1>3, <2>3, <2>4, Queued, Numbers DEF Connected
  <2>7. CASE Len(k.outbox[s]) >= OUTBOX_LIMIT
    <3>1. match' = Disconnect(k, s)
      BY <2>1, <2>5, <2>6, <2>7 DEF Queue, Disconnect
    <3>2. Still(match, k)
      BY <1>5, <2>3 DEF Still, Rests, Stands
    <3>3. Good(match', endpoint, toy) /\ ByRules(match, match')
      BY <1>3, <2>3, <3>1, <3>2, CostsSeat
    <3> QED
      BY <1>1, <3>3 DEF IInv
  <2>8. CASE ~(Len(k.outbox[s]) >= OUTBOX_LIMIT)
    <3>1. match' = Holding(k, s, Append(k.outbox[s], m))
      BY <2>1, <2>5, <2>6, <2>8 DEF Queue
    <3>2. Len(a.outbox[s]) < OUTBOX_LIMIT
      BY <2>3, <2>6, <2>8
    <3>3. Good(match', endpoint, toy) /\ Still(a, match')
      BY <1>5, <1>6, <2>2, <3>1, <3>2, HitHeld DEF k, m
    <3>4. ByRules(match, match')
      BY <1>5, <3>3 DEF Still, ByRules, Rests, Stands
    <3> QED
      BY <1>1, <3>3, <3>4 DEF IInv
  <2> QED
    BY <2>7, <2>8
<1> QED
  BY <1>7, <1>8

-----------------------------------------------------------------------------
(* What a toy hears                                                         *)

\* A way that m leads, and v is what follows.
Led(m, v, w) ==
    /\ v \in Seq(Messages) /\ w \in Seq(Messages) /\ m \in Messages
    /\ Len(w) = Len(v) + 1 /\ w[1] = m
    /\ \A k \in 1..Len(v) : w[k + 1] = v[k]

\* Its places are the first, and those that follow.
LEMMA LedPlaces ==
    ASSUME NEW m, NEW v, NEW w, Led(m, v, w)
    PROVE  /\ 1 \in DOMAIN w /\ w[1] = m /\ DOMAIN v \subseteq Nat /\ 1 \notin {k + 1 : k \in DOMAIN v}
           /\ \A k \in DOMAIN v : k + 1 \in DOMAIN w /\ w[k + 1] = v[k] /\ 1 < k + 1
           /\ \A k \in DOMAIN w : k = 1 \/ \E j \in DOMAIN v : k = j + 1
<1>1. /\ DOMAIN v = 1..Len(v) /\ DOMAIN w = 1..Len(v) + 1 /\ Len(v) \in Nat
      /\ \A k \in 1..Len(v) : w[k + 1] = v[k]
      /\ w[1] = m
  BY DEF Led
<1>2. ASSUME NEW k \in DOMAIN w, k # 1 PROVE \E j \in DOMAIN v : k = j + 1
  <2>1. k - 1 \in 1..Len(v) /\ k = (k - 1) + 1
    BY <1>1, <1>2
  <2> QED
    BY <1>1, <2>1
<1>3. 1 \in DOMAIN w /\ DOMAIN v \subseteq Nat /\ 1 \notin {k + 1 : k \in DOMAIN v}
  BY <1>1
<1>4. \A k \in DOMAIN v : k + 1 \in DOMAIN w /\ w[k + 1] = v[k] /\ 1 < k + 1
  BY <1>1
<1> QED
  BY <1>1, <1>2, <1>3, <1>4

\* What a queue's head leads.
LEMMA HeadLeads ==
    ASSUME NEW q \in Seq(Messages), q # <<>>, NEW o \in Seq(Messages)
    PROVE  /\ Led(Head(q), Tail(q) \o o, q \o o) /\ Led(Head(q), Tail(q), q)
           /\ Len(Tail(q)) <= Len(q)
<1> DEFINE m == Head(q)
           r == Tail(q)
<1>1. /\ m \in Messages /\ r \in Seq(Messages) /\ Len(q) = Len(r) + 1 /\ q[1] = m
      /\ \A k \in 1..Len(r) : q[k + 1] = r[k]
  OBVIOUS
<1>2. Len(r) \in Nat /\ Len(o) \in Nat
  BY <1>1
<1> HIDE DEF m, r
<1> DEFINE v == r \o o
           w == q \o o
<1>3. /\ v \in Seq(Messages) /\ Len(v) = Len(r) + Len(o)
      /\ \A j \in 1..Len(r) + Len(o) : v[j] = IF j <= Len(r) THEN r[j] ELSE o[j - Len(r)]
  BY <1>1, Joined
<1>4. /\ w \in Seq(Messages) /\ Len(w) = Len(q) + Len(o)
      /\ \A j \in 1..Len(q) + Len(o) : w[j] = IF j <= Len(q) THEN q[j] ELSE o[j - Len(q)]
  BY Joined
<1> HIDE DEF v, w
<1>5. w[1] = m /\ Len(w) = Len(v) + 1
  <2>1. 1 \in 1..Len(q) + Len(o) /\ 1 <= Len(q)
    BY <1>1, <1>2
  <2> QED
    BY <1>1, <1>2, <1>3, <1>4, <2>1
<1>6. ASSUME NEW k \in 1..Len(v) PROVE w[k + 1] = v[k]
  <2>1. k + 1 \in 1..Len(q) + Len(o) /\ k \in 1..Len(r) + Len(o)
    BY <1>1, <1>2, <1>3
  <2>2. CASE k <= Len(r)
    <3>1. k + 1 <= Len(q) /\ k \in 1..Len(r)
      BY <1>1, <1>2, <2>1, <2>2
    <3> QED
      BY <1>1, <1>3, <1>4, <2>1, <2>2, <3>1
  <2>3. CASE ~(k <= Len(r))
    <3>1. ~(k + 1 <= Len(q)) /\ k + 1 - Len(q) = k - Len(r)
      BY <1>1, <1>2, <2>1, <2>3
    <3>2. w[k + 1] = o[k + 1 - Len(q)]
      BY <1>4, <2>1, <3>1
    <3>3. v[k] = o[k - Len(r)]
      BY <1>3, <2>1, <2>3
    <3> QED
      BY <3>1, <3>2, <3>3
  <2> QED
    BY <2>2, <2>3
<1>7. Led(m, v, w)
  BY <1>1, <1>3, <1>4, <1>5, <1>6 DEF Led
<1>8. Led(m, r, q)
  BY <1>1 DEF Led
<1>9. Len(r) <= Len(q)
  BY <1>1, <1>2
<1> QED
  BY <1>7, <1>8, <1>9 DEF m, r, v, w

\* What a toy makes of a message.
LEMMA ToldIs ==
    ASSUME NEW x \in Toys, NEW m \in Messages, NEW y, y = Told(x, m)
    PROVE  /\ y \in Toys
           /\ m.type = "START" => /\ y.round = m.round /\ y.seed = m.seed /\ ~y.playing
                                  /\ y.garbage = 0
           /\ m.type # "START" => y.round = x.round /\ y.seed = x.seed
           /\ m.type \notin {"START", "GO"} => (y.playing => x.playing)
           /\ m.type = "GARBAGE" => y.garbage = m.id
           /\ m.type \notin {"START", "GARBAGE"} => y.garbage = x.garbage
           /\ m.type = "FINAL" => y.final = m.winner
           /\ m.type # "FINAL" => y.final = x.final
           /\ m.type = "BEAT" => y = x
<1> USE DEF Toys
<1>1. CASE m.type = "START"
  <2>1. m.round \in Nat /\ m.seed \in Nat
    BY <1>1 DEF Messages
  <2>2. y = [x EXCEPT !.round = m.round, !.seed = m.seed,
                      !.playing = FALSE, !.mask = Seats, !.garbage = 0]
    BY <1>1 DEF Told
  <2> DEFINE r == m.round
             n == m.seed
             a == [x EXCEPT !.round = r]
             b == [a EXCEPT !.seed = n]
             c == [b EXCEPT !.playing = FALSE]
             d == [c EXCEPT !.mask = Seats]
  <2>3. y = [d EXCEPT !.garbage = 0]
    BY <2>2
  <2>4. r \in Nat /\ n \in Nat
    BY <2>1
  <2> HIDE DEF r, n
  <2>5. b \in Toys /\ b.round = r /\ b.seed = n /\ b.final = x.final
    BY <2>4
  <2> HIDE DEF b
  <2>6. d \in Toys /\ d.round = r /\ d.seed = n /\ d.final = x.final /\ d.playing = FALSE
    BY <2>5
  <2> HIDE DEF d
  <2>7. /\ y \in Toys /\ y.round = r /\ y.seed = n /\ y.final = x.final /\ y.playing = FALSE
        /\ y.garbage = 0
    BY <2>3, <2>6
  <2> QED
    BY <1>1, <2>7 DEF r, n
<1>2. CASE m.type = "GO"
  <2>1. y = [x EXCEPT !.playing = TRUE]
    BY <1>2 DEF Told
  <2> QED
    BY <1>2, <2>1
<1>3. CASE m.type = "ALIVE"
  <2>1. m.mask \in SUBSET Seats
    BY <1>3 DEF Messages
  <2>2. y = [x EXCEPT !.mask = m.mask]
    BY <1>3 DEF Told
  <2> QED
    BY <1>3, <2>1, <2>2
<1>4. CASE m.type = "GARBAGE"
  <2>1. m.id \in Nat
    BY <1>4 DEF Messages
  <2>2. y = [x EXCEPT !.garbage = m.id]
    BY <1>4 DEF Told
  <2> QED
    BY <1>4, <2>1, <2>2
<1>5. CASE m.type \in {"RESULT", "ABORT"}
  <2>1. y = [x EXCEPT !.playing = FALSE]
    BY <1>5 DEF Told
  <2> QED
    BY <1>5, <2>1
<1>6. CASE m.type = "FINAL"
  <2>1. m.winner \in Winners
    BY <1>6 DEF Messages
  <2>2. y = [x EXCEPT !.playing = FALSE, !.final = m.winner]
    BY <1>6 DEF Told
  <2> QED
    BY <1>6, <2>1, <2>2
<1>7. CASE m.type = "BEAT"
  <2>1. y = x
    BY <1>7 DEF Told
  <2> QED
    BY <1>7, <2>1
<1>8. m.type \in {"START", "GO", "ABORT", "BEAT", "GARBAGE", "ALIVE", "RESULT", "FINAL"}
  BY DEF Messages
<1> QED
  BY <1>1, <1>2, <1>3, <1>4, <1>5, <1>6, <1>7, <1>8

\* A toy that is told of a round, or of anything before it is played.
LEMMA FreshTold ==
    ASSUME NEW h, NEW i, NEW m, NEW v, NEW w, Led(m, v, w), NEW x \in Toys,
           Honest(h, w), Fresh(h, i, w, x), NEW y, y = Told(x, m)
    PROVE  Fresh(h, i, v, y)
<1>1. m \in Messages /\ 1 \in DOMAIN w /\ w[1] = m
  BY LedPlaces DEF Led
<1>2. \A k \in DOMAIN v : k + 1 \in DOMAIN w /\ w[k + 1] = v[k]
  BY LedPlaces
<1>3. /\ m.type \notin {"GO", "GARBAGE"}
      /\ m.type = "START" => m.seed = h.seed /\ m.round = h.round
  BY <1>1 DEF Fresh, Honest
<1>4. \A k \in DOMAIN v : /\ v[k].type \notin {"GO", "GARBAGE"}
                          /\ v[k].type = "START" => v[k].seed = h.seed
  BY <1>2 DEF Fresh
<1>5. CASE m.type = "START"
  <2>1. y.round = h.round /\ y.seed = h.seed /\ ~y.playing /\ y.garbage = 0
    BY <1>1, <1>3, <1>5, ToldIs
  <2> QED
    BY <1>4, <2>1 DEF Fresh
<1>6. CASE m.type # "START"
  <2>1. /\ y.round = x.round /\ y.seed = x.seed /\ (y.playing => x.playing)
        /\ y.garbage = x.garbage
    BY <1>1, <1>3, <1>6, ToldIs
  <2>2. ASSUME NEW k \in DOMAIN w, w[k].type = "START" PROVE \E j \in DOMAIN v : v[j].type = "START"
    <3>1. k # 1
      BY <1>1, <1>6, <2>2
    <3>2. PICK j \in DOMAIN v : k = j + 1
      BY <3>1, LedPlaces
    <3> QED
      BY <1>2, <2>2, <3>2
  <2>3. \/ y.round = h.round /\ y.seed = h.seed
        \/ \E j \in DOMAIN v : v[j].type = "START"
    BY <2>1, <2>2 DEF Fresh
  <2>4. (y.round = h.round => ~y.playing /\ y.garbage = 0) /\ h.garbageId[i] = 0
    BY <2>1 DEF Fresh
  <2> QED
    BY <1>4, <2>3, <2>4 DEF Fresh
<1> QED
  BY <1>5, <1>6

\* The attacks behind a message.
LEMMA AttacksBehind ==
    ASSUME NEW m, NEW v, NEW w, Led(m, v, w)
    PROVE  Attacks(w) = {k + 1 : k \in Attacks(v)} \cup (IF m.type = "GARBAGE" THEN {1} ELSE {})
<1>1. 1 \in DOMAIN w /\ w[1] = m
  BY LedPlaces
<1>2. \A k \in DOMAIN v : k + 1 \in DOMAIN w /\ w[k + 1] = v[k]
  BY LedPlaces
<1>3. \A k \in DOMAIN w : k = 1 \/ \E j \in DOMAIN v : k = j + 1
  BY LedPlaces
<1>4. \A k \in DOMAIN v : k + 1 # 1
  BY LedPlaces
<1>5. ASSUME NEW k \in Attacks(w)
      PROVE  k \in {j + 1 : j \in Attacks(v)} \cup (IF m.type = "GARBAGE" THEN {1} ELSE {})
  <2>1. CASE k = 1
    BY <1>1, <1>5, <2>1 DEF Attacks
  <2>2. CASE k # 1
    <3>1. PICK j \in DOMAIN v : k = j + 1
      BY <1>3, <1>5, <2>2 DEF Attacks
    <3>2. j \in Attacks(v)
      BY <1>2, <1>5, <3>1 DEF Attacks
    <3> QED
      BY <3>1, <3>2
  <2> QED
    BY <2>1, <2>2
<1>6. \A j \in Attacks(v) : j + 1 \in Attacks(w)
  BY <1>2 DEF Attacks
<1>7. m.type = "GARBAGE" => 1 \in Attacks(w)
  BY <1>1 DEF Attacks
<1> QED
  BY <1>5, <1>6, <1>7

\* A toy that hears of an attack, or of anything else while a round is played.
LEMMA ReadyTold ==
    ASSUME NEW h, NEW i, NEW m, NEW v, NEW w, Led(m, v, w), NEW x \in Toys,
           h.garbageId[i] \in Nat, Ready(h, i, w, x), NEW y, y = Told(x, m)
    PROVE  Ready(h, i, v, y)
<1>1. m \in Messages /\ 1 \in DOMAIN w /\ w[1] = m
  BY LedPlaces DEF Led
<1>2. \A k \in DOMAIN v : k + 1 \in DOMAIN w /\ w[k + 1] = v[k]
  BY LedPlaces
<1>3. m.type # "START" /\ \A k \in DOMAIN v : v[k].type # "START"
  BY <1>1, <1>2 DEF Ready
<1>4. y \in Toys /\ y.round = h.round /\ y.seed = h.seed /\ h.prepared[i]
  BY <1>1, <1>3, ToldIs DEF Ready
<1> DEFINE from == x.garbage
           last == h.garbageId[i]
<1>5. /\ from \in Nat /\ last \in Nat /\ from <= last
      /\ {w[k].id : k \in Attacks(w)} = from + 1 .. last
      /\ \A j, k \in Attacks(w) : j < k => w[j].id < w[k].id
  BY DEF Ready, InOrder, Toys
<1>6. \A k \in Attacks(v) : k \in DOMAIN v /\ w[k + 1] = v[k] /\ k \in Nat
  BY <1>2, LedPlaces DEF Attacks
<1> HIDE DEF from, last
<1>7. InOrder(v, y.garbage, last)
  <2>1. \A j, k \in Attacks(v) : j < k => v[j].id < v[k].id
    <3> SUFFICES ASSUME NEW j \in Attacks(v), NEW k \in Attacks(v), j < k PROVE v[j].id < v[k].id
      OBVIOUS
    <3>1. j + 1 \in Attacks(w) /\ k + 1 \in Attacks(w) /\ j + 1 < k + 1
      BY <1>6, AttacksBehind
    <3> QED
      BY <1>5, <1>6, <3>1
  <2>2. CASE m.type # "GARBAGE"
    <3>1. Attacks(w) = {k + 1 : k \in Attacks(v)}
      BY <2>2, AttacksBehind
    <3>2. {w[k].id : k \in Attacks(w)} = {v[k].id : k \in Attacks(v)}
      <4>1. \A k \in Attacks(v) : w[k + 1].id = v[k].id /\ k + 1 \in Attacks(w)
        BY <1>6, <3>1
      <4>2. \A k \in Attacks(w) : \E j \in Attacks(v) : k = j + 1
        BY <3>1
      <4> QED
        BY <4>1, <4>2
    <3>3. y.garbage = from
      BY <1>1, <1>3, <2>2, ToldIs DEF from
    <3> QED
      BY <1>5, <2>1, <3>2, <3>3 DEF InOrder
  <2>3. CASE m.type = "GARBAGE"
    <3>1. Attacks(w) = {k + 1 : k \in Attacks(v)} \cup {1}
      BY <2>3, AttacksBehind
    <3>2. y.garbage = m.id
      BY <1>1, <2>3, ToldIs
    <3>3. m.id \in from + 1 .. last
      BY <1>1, <1>5, <3>1
    <3>4. \A k \in Attacks(v) : v[k].id \in from + 1 .. last /\ m.id < v[k].id
      <4> SUFFICES ASSUME NEW k \in Attacks(v)
                   PROVE  v[k].id \in from + 1 .. last /\ m.id < v[k].id
        OBVIOUS
      <4>1. k + 1 \in Attacks(w) /\ 1 \in Attacks(w) /\ 1 < k + 1 /\ w[k + 1].id = v[k].id
        BY <1>6, <3>1, LedPlaces
      <4> QED
        BY <1>1, <1>5, <4>1
    <3>5. \A n \in from + 1 .. last : n = m.id \/ \E k \in Attacks(v) : v[k].id = n
      <4> SUFFICES ASSUME NEW n \in from + 1 .. last
                   PROVE  n = m.id \/ \E k \in Attacks(v) : v[k].id = n
        OBVIOUS
      <4>1. PICK k \in Attacks(w) : w[k].id = n
        BY <1>5
      <4>2. k = 1 \/ \E j \in Attacks(v) : k = j + 1
        BY <3>1
      <4> QED
        BY <1>1, <1>6, <4>1, <4>2
    <3>6. m.id = from + 1
      <4>1. from + 1 \in from + 1 .. last
        BY <1>5, <3>3
      <4>2. CASE \E k \in Attacks(v) : v[k].id = from + 1
        BY <1>5, <3>3, <3>4, <4>2
      <4> QED
        BY <3>5, <4>1, <4>2
    <3>7. {v[k].id : k \in Attacks(v)} = m.id + 1 .. last
      <4>1. \A k \in Attacks(v) : v[k].id \in m.id + 1 .. last
        BY <1>5, <3>3, <3>4
      <4>2. \A n \in m.id + 1 .. last : n \in from + 1 .. last /\ n # m.id
        BY <1>5, <3>3
      <4>3. \A n \in m.id + 1 .. last : \E k \in Attacks(v) : v[k].id = n
        BY <3>5, <4>2
      <4> QED
        BY <4>1, <4>3
    <3>8. m.id <= last
      BY <1>5, <3>3
    <3> QED
      BY <2>1, <3>2, <3>7, <3>8 DEF InOrder
  <2> QED
    BY <2>2, <2>3
<1> QED
  BY <1>3, <1>4, <1>7 DEF Ready, last

\* A heartbeat at the head of a way changes nothing of it.
LEMMA BeatLeads ==
    ASSUME NEW h, NEW i, NEW v, NEW w, NEW m, Led(m, v, w), m.type = "BEAT", NEW x
    PROVE  /\ Honest(h, v) => Honest(h, w)
           /\ Fresh(h, i, v, x) => Fresh(h, i, w, x)
           /\ Ready(h, i, v, x) => Ready(h, i, w, x)
<1>1. 1 \in DOMAIN w /\ w[1] = m
  BY LedPlaces
<1>2. \A k \in DOMAIN v : k + 1 \in DOMAIN w /\ w[k + 1] = v[k] /\ k \in Nat
  BY LedPlaces
<1>3. \A k \in DOMAIN w : k = 1 \/ \E j \in DOMAIN v : k = j + 1
  BY LedPlaces
<1>4. \A k \in DOMAIN w : w[k] = m \/ \E j \in DOMAIN v : w[k] = v[j]
  BY <1>1, <1>2, <1>3
<1>5. Honest(h, v) => Honest(h, w)
  BY <1>4 DEF Honest
<1>6. Fresh(h, i, v, x) => Fresh(h, i, w, x)
  <2> SUFFICES ASSUME Fresh(h, i, v, x) PROVE Fresh(h, i, w, x)
    OBVIOUS
  <2>1. \A k \in DOMAIN w : /\ w[k].type \notin {"GO", "GARBAGE"}
                            /\ w[k].type = "START" => w[k].seed = h.seed
    BY <1>4 DEF Fresh
  <2>2. (\E k \in DOMAIN v : v[k].type = "START") => \E k \in DOMAIN w : w[k].type = "START"
    BY <1>2
  <2> QED
    BY <2>1, <2>2 DEF Fresh
<1>7. Ready(h, i, v, x) => Ready(h, i, w, x)
  <2> SUFFICES ASSUME Ready(h, i, v, x) PROVE Ready(h, i, w, x)
    OBVIOUS
  <2>1. \A k \in DOMAIN w : w[k].type # "START"
    BY <1>4 DEF Ready
  <2>2. Attacks(w) = {k + 1 : k \in Attacks(v)}
    BY AttacksBehind
  <2>3. \A k \in Attacks(v) : w[k + 1] = v[k] /\ k \in Nat
    BY <1>2 DEF Attacks
  <2>4. {w[k].id : k \in Attacks(w)} = {v[k].id : k \in Attacks(v)}
    <3>1. \A k \in Attacks(v) : w[k + 1].id = v[k].id /\ k + 1 \in Attacks(w)
      BY <2>2, <2>3
    <3>2. \A k \in Attacks(w) : \E j \in Attacks(v) : k = j + 1
      BY <2>2
    <3> QED
      BY <3>1, <3>2
  <2>5. ASSUME NEW j \in Attacks(w), NEW k \in Attacks(w), j < k PROVE w[j].id < w[k].id
    <3>1. PICK a \in Attacks(v), b \in Attacks(v) : j = a + 1 /\ k = b + 1
      BY <2>2
    <3>2. a < b
      BY <2>3, <2>5, <3>1
    <3>3. v[a].id < v[b].id
      BY <3>2 DEF Ready, InOrder
    <3> QED
      BY <2>3, <3>1, <3>3
  <2> QED
    BY <2>1, <2>4, <2>5 DEF Ready, InOrder
<1> QED
  BY <1>5, <1>6, <1>7

\* The toy of a connected seat takes what its queue holds first.
LEMMA LinesTaken ==
    ASSUME NEW h, NEW e, NEW t, Good(h, e, t), h.phase # "aborted", NEW i \in Connected(h),
           e[i].queue # <<>>, NEW d, d = [e EXCEPT ![i].queue = Tail(@)],
           NEW u, u = [t EXCEPT ![i] = Told(@, Head(e[i].queue))]
    PROVE  /\ Lines(h, d, u, Connected(h)) /\ Naming(h, d, u) /\ Quiet(h, d, u)
<1> DEFINE q == e[i].queue
           o == h.outbox[i]
           m == Head(q)
           w == Way(h, e, i)
           v == Way(h, d, i)
           x == t[i]
           y == Told(x, m)
<1>1. /\ h \in Matches /\ e \in [Seats -> Endpoints] /\ t \in [Seats -> Toys] /\ i \in Seats
      /\ x \in Toys /\ h.garbageId[i] \in Nat
  BY DEF Good, Shaped, Connected, Matches
<1>2. q \in Seq(Messages) /\ o \in Seq(Messages) /\ e[i] \in Endpoints
  BY <1>1, WayTyped
<1>3. /\ d[i].queue = Tail(q) /\ u[i] = y
      /\ \A s \in Seats : s # i => d[s] = e[s] /\ u[s] = t[s]
  BY <1>1, <1>2 DEF Endpoints
<1>4. Led(m, v, w) /\ Led(m, Tail(q), q)
  <2>1. v = Tail(q) \o o /\ w = q \o o
    BY <1>3 DEF Way
  <2> HIDE DEF q, o, v, w
  <2>2. Led(Head(q), Tail(q) \o o, q \o o) /\ Led(Head(q), Tail(q), q)
    BY <1>2, HeadLeads DEF q
  <2> QED
    BY <2>1, <2>2
<1>5. /\ Lines(h, e, t, Connected(h)) /\ Naming(h, e, t) /\ Quiet(h, e, t) /\ Phased(h)
      /\ i \in Connected(h)
  BY DEF Good
<1>6. /\ Honest(h, w) /\ (x.final = Unset \/ Named(h, x.final))
      /\ \/ h.phase \in {"lobby", "preparing"} /\ Fresh(h, i, w, x)
         \/ h.phase \notin {"lobby", "preparing"} /\ Ready(h, i, w, x)
  BY <1>5 DEF Lines
<1> HIDE DEF q, o, m, w, v, x, y
<1>7. m \in Messages /\ 1 \in DOMAIN w /\ w[1] = m
  BY <1>4, LedPlaces DEF Led
<1>8. \A k \in DOMAIN v : k + 1 \in DOMAIN w /\ w[k + 1] = v[k]
  BY <1>4, LedPlaces
<1>9. Honest(h, v)
  BY <1>6, <1>8 DEF Honest
<1>10. m.type = "FINAL" => Named(h, m.winner) /\ m.winner # Unset
  <2> SUFFICES ASSUME m.type = "FINAL" PROVE Named(h, m.winner) /\ m.winner # Unset
    OBVIOUS
  <2>1. Named(h, m.winner)
    BY <1>6, <1>7 DEF Honest
  <2>2. m.winner # Unset
    <3>1. Unset \notin Seats
      BY Numbers
    <3> QED
      BY <1>5, <2>1, <3>1 DEF Named, Phased
  <2> QED
    BY <2>1, <2>2
<1>11. y.final = x.final \/ (m.type = "FINAL" /\ y.final = m.winner)
  BY <1>1, <1>7, ToldIs DEF y
<1>12. y.final = Unset \/ Named(h, y.final)
  BY <1>6, <1>10, <1>11
<1>13. Fresh(h, i, w, x) => Fresh(h, i, v, y)
  BY <1>1, <1>4, <1>6, FreshTold DEF y
<1>14. Ready(h, i, w, x) => Ready(h, i, v, y)
  BY <1>1, <1>4, ReadyTold DEF y
<1>15. ASSUME NEW s \in Connected(h), s # i
       PROVE  Way(h, d, s) = Way(h, e, s) /\ u[s] = t[s]
  BY <1>3, <1>15 DEF Way, Connected
<1>16. Way(h, d, i) = v /\ u[i] = y
  BY <1>3 DEF v
<1>17. Lines(h, d, u, Connected(h))
  <2>1. \A s \in Connected(h) : /\ Honest(h, Way(h, d, s))
                                /\ u[s].final = Unset \/ Named(h, u[s].final)
    <3> SUFFICES ASSUME NEW s \in Connected(h)
                 PROVE  Honest(h, Way(h, d, s)) /\ (u[s].final = Unset \/ Named(h, u[s].final))
      OBVIOUS
    <3>1. CASE s = i
      BY <1>9, <1>12, <1>16, <3>1
    <3>2. CASE s # i
      BY <1>5, <1>15, <3>2 DEF Lines
    <3> QED
      BY <3>1, <3>2
  <2>2. CASE h.phase \in {"lobby", "preparing"}
    <3>1. \A s \in Connected(h) : Fresh(h, s, Way(h, e, s), t[s])
      BY <1>5, <2>2 DEF Lines
    <3>2. Fresh(h, i, v, y)
      BY <1>6, <1>13, <2>2
    <3>3. \A s \in Connected(h) : Fresh(h, s, Way(h, d, s), u[s])
      BY <1>15, <1>16, <3>1, <3>2
    <3> QED
      BY <2>1, <2>2, <3>3 DEF Lines
  <2>3. CASE h.phase \notin {"lobby", "preparing"}
    <3>1. \A s \in Connected(h) : Ready(h, s, Way(h, e, s), t[s])
      BY <1>5, <2>3 DEF Lines
    <3>2. Ready(h, i, v, y)
      BY <1>6, <1>14, <2>3
    <3>3. \A s \in Connected(h) : Ready(h, s, Way(h, d, s), u[s])
      BY <1>15, <1>16, <3>1, <3>2
    <3> QED
      BY <2>1, <2>3, <3>3 DEF Lines
  <2> QED
    BY <2>2, <2>3
<1>18. Naming(h, d, u)
  <2> SUFFICES ASSUME Closed(h), NEW s \in Connected(h) PROVE Hears(h, d, u, s)
    BY DEF Naming
  <2>1. Hears(h, e, t, s)
    BY <1>5 DEF Naming
  <2>2. CASE s # i
    BY <1>15, <2>1, <2>2 DEF Hears
  <2>3. CASE s = i
    <3>1. CASE m.type = "FINAL"
      <4>1. y.final # Unset
        BY <1>1, <1>7, <1>10, <3>1, ToldIs DEF y
      <4> QED
        BY <1>16, <2>3, <4>1 DEF Hears
    <3>2. CASE m.type # "FINAL"
      <4>1. y.final = x.final
        BY <1>11, <3>2
      <4>2. CASE x.final # Unset
        BY <1>16, <2>3, <4>1, <4>2 DEF Hears
      <4>3. CASE \E k \in DOMAIN w : w[k].type = "FINAL"
        <5>1. PICK k \in DOMAIN w : w[k].type = "FINAL"
          BY <4>3
        <5>2. k # 1
          BY <1>7, <3>2, <5>1
        <5>3. PICK j \in DOMAIN v : k = j + 1
          BY <1>4, <5>2, LedPlaces
        <5>4. v[j].type = "FINAL"
          BY <1>8, <5>1, <5>3
        <5> QED
          BY <1>16, <2>3, <5>4 DEF Hears
      <4> QED
        BY <2>1, <2>3, <4>2, <4>3 DEF Hears, w, x
    <3> QED
      BY <3>1, <3>2
  <2> QED
    BY <2>2, <2>3
<1>19. Quiet(h, d, u)
  <2> SUFFICES ASSUME h.phase = "lobby", NEW s \in Seats
               PROVE  /\ h.outbox[s] = <<>> /\ u[s].round = 0
                      /\ \A k \in DOMAIN d[s].queue : d[s].queue[k].type = "BEAT"
    BY DEF Quiet
  <2>1. /\ h.outbox[s] = <<>> /\ t[s].round = 0
        /\ \A k \in DOMAIN e[s].queue : e[s].queue[k].type = "BEAT"
    BY <1>5 DEF Quiet
  <2>2. CASE s # i
    BY <1>3, <2>1, <2>2
  <2>3. CASE s = i
    <3> DEFINE r == Tail(q)
    <3>1. Led(m, r, q)
      BY <1>4
    <3> HIDE DEF r
    <3>2. /\ 1 \in DOMAIN q /\ q[1] = m
          /\ \A k \in DOMAIN r : k + 1 \in DOMAIN q /\ q[k + 1] = r[k]
      BY <3>1, LedPlaces
    <3>3. m.type = "BEAT"
      BY <2>1, <2>3, <3>2 DEF q
    <3>4. y = x
      BY <1>1, <1>7, <3>3, ToldIs DEF y
    <3>5. \A k \in DOMAIN r : r[k].type = "BEAT"
      BY <2>1, <2>3, <3>2 DEF q
    <3>6. d[s].queue = r /\ u[s] = x
      BY <1>3, <2>3, <3>4 DEF r
    <3> QED
      BY <2>1, <2>3, <3>5, <3>6 DEF x
  <2> QED
    BY <2>2, <2>3
<1> QED
  BY <1>17, <1>18, <1>19

\* A toy acknowledges.
LEMMA AckedSound ==
    ASSUME IInv, NEW i \in Seats, Acked(i)
    PROVE  IInv' /\ ByRules(match, match')
<1> DEFINE m == Head(endpoint[i].queue)
           d == [endpoint EXCEPT ![i].queue = Tail(@)]
           u == [toy EXCEPT ![i] = Told(@, m)]
<1>1. /\ endpoint[i].queue # <<>> /\ match.phase # "aborted"
      /\ match' = match /\ endpoint' = d /\ toy' = u
  BY DEF Acked
<1>2. /\ match \in Matches /\ endpoint \in [Seats -> Endpoints] /\ toy \in [Seats -> Toys]
      /\ endpoint[i] \in Endpoints /\ toy[i] \in Toys
      /\ Good(match, endpoint, toy) /\ Shaped(match, endpoint, toy)
  BY DEF IInv, Good, Shaped
<1>3. endpoint[i].queue \in Seq(Messages) /\ <<>> \in Seq(Messages) /\ HEADROOM \in Nat
  BY <1>2, WayTyped, MatchAssumption
<1>4. /\ m \in Messages /\ Tail(endpoint[i].queue) \in Seq(Messages)
      /\ Len(Tail(endpoint[i].queue)) <= Len(endpoint[i].queue)
  BY <1>1, <1>3, HeadLeads DEF Led
<1>5. Told(toy[i], m) \in Toys
  BY <1>2, <1>4, ToldIs
<1>6. /\ d \in [Seats -> Endpoints] /\ u \in [Seats -> Toys]
      /\ d[i].queue = Tail(endpoint[i].queue) /\ d[i].error = endpoint[i].error
      /\ \A s \in Seats : s # i => d[s] = endpoint[s] /\ u[s] = toy[s]
  <2> DEFINE r == Tail(endpoint[i].queue)
             n == [endpoint[i] EXCEPT !.queue = r]
  <2>1. n \in Endpoints /\ n.queue = r /\ n.error = endpoint[i].error
    BY <1>2, <1>4 DEF Endpoints
  <2>2. d = [endpoint EXCEPT ![i] = n]
    BY <1>2
  <2> HIDE DEF n, m
  <2> QED
    BY <1>2, <1>5, <2>1, <2>2
<1>7. \A s \in Seats : Len(d[s].queue) <= HEADROOM
  <2> SUFFICES ASSUME NEW s \in Seats PROVE Len(d[s].queue) <= HEADROOM
    OBVIOUS
  <2>1. Len(endpoint[s].queue) <= HEADROOM
    BY <1>2 DEF Shaped
  <2>2. Len(Tail(endpoint[i].queue)) \in Nat /\ Len(endpoint[i].queue) \in Nat
    BY <1>3, <1>4
  <2> QED
    BY <1>3, <1>4, <1>6, <2>1, <2>2
<1>8. CASE i \in Connected(match)
  <2>1. /\ Lines(match, d, u, Connected(match)) /\ Naming(match, d, u) /\ Quiet(match, d, u)
    BY <1>1, <1>2, <1>8, LinesTaken
  <2> HIDE DEF d, u
  <2>2. Shaped(match, d, u)
    <3>1. \A s \in Connected(match) : ~d[s].error
      BY <1>2, <1>6 DEF Shaped, Connected
    <3> QED
      BY <1>2, <1>6, <1>7, <3>1 DEF Shaped
  <2>3. Good(match, d, u)
    BY <1>2, <2>1, <2>2 DEF Good
  <2> QED
    BY <1>1, <2>3 DEF IInv, ByRules, Rests, Stands
<1>9. CASE i \notin Connected(match)
  <2>1. \A s \in Connected(match) : d[s] = endpoint[s] /\ u[s] = toy[s]
    BY <1>6, <1>9 DEF Connected
  <2> HIDE DEF d, u
  <2>2. Good(match, d, u)
    BY <1>2, <1>6, <1>7, <2>1, GoodElsewhere
  <2> QED
    BY <1>1, <2>2 DEF IInv, ByRules, Rests, Stands
<1> QED
  BY <1>8, <1>9

\* An endpoint sends a heartbeat.
LEMMA HeartbeatSound ==
    ASSUME IInv, NEW i \in Seats, Heartbeat(i)
    PROVE  IInv' /\ ByRules(match, match')
<1> DEFINE d == [endpoint EXCEPT ![i].queue = <<BEAT>>]
           r == <<BEAT>>
<1>1. /\ endpoint[i].queue = <<>> /\ ~endpoint[i].error
      /\ match' = match /\ endpoint' = d /\ toy' = toy
  BY DEF Heartbeat
<1>2. /\ match \in Matches /\ endpoint \in [Seats -> Endpoints] /\ toy \in [Seats -> Toys]
      /\ endpoint[i] \in Endpoints
      /\ Good(match, endpoint, toy) /\ Shaped(match, endpoint, toy)
  BY DEF IInv, Good, Shaped
<1>3. BEAT \in Messages /\ BEAT.type = "BEAT"
  BY DEF BEAT, Messages
<1>4. r \in Seq(Messages) /\ Len(r) = 1 /\ r[1] = BEAT /\ DOMAIN r = {1} /\ r = <<BEAT>>
  BY <1>3
<1> HIDE DEF r
<1>5. /\ d \in [Seats -> Endpoints] /\ d[i].queue = r /\ ~d[i].error
      /\ \A s \in Seats : s # i => d[s] = endpoint[s]
  <2> DEFINE n == [endpoint[i] EXCEPT !.queue = r]
  <2>1. n \in Endpoints /\ n.queue = r /\ n.error = endpoint[i].error
    BY <1>2, <1>4 DEF Endpoints
  <2>2. d = [endpoint EXCEPT ![i] = n]
    BY <1>2, <1>4
  <2> HIDE DEF n
  <2> QED
    BY <1>1, <1>2, <2>1, <2>2
<1> HIDE DEF d
<1>6. \A s \in Seats : Len(d[s].queue) <= HEADROOM
  <2> SUFFICES ASSUME NEW s \in Seats PROVE Len(d[s].queue) <= HEADROOM
    OBVIOUS
  <2>1. Len(endpoint[s].queue) <= HEADROOM /\ HEADROOM \in Nat \ {0}
    BY <1>2, MatchAssumption DEF Shaped
  <2>2. 1 <= HEADROOM
    BY <2>1
  <2> QED
    BY <1>4, <1>5, <2>1, <2>2
<1>7. \A s \in Seats : s # i => Way(match, d, s) = Way(match, endpoint, s)
  BY <1>5 DEF Way
<1> DEFINE v == Way(match, endpoint, i)
           w == Way(match, d, i)
<1>8. Led(BEAT, v, w)
  <2> DEFINE o == match.outbox[i]
             b == BEAT
  <2>1. o \in Seq(Messages)
    BY <1>2, Queued
  <2>2. v = <<>> \o o /\ w = r \o o
    BY <1>1, <1>5 DEF Way
  <2> HIDE DEF o, v, w, b
  <2>3. v = o
    BY <2>1, <2>2
  <2>4. r # <<>> /\ Head(r) = b /\ Tail(r) = <<>>
    BY <1>3, <1>4 DEF b
  <2>5. Led(Head(r), Tail(r) \o o, r \o o)
    BY <1>4, <2>1, <2>4, HeadLeads
  <2> QED
    BY <2>2, <2>4, <2>5 DEF b
<1> HIDE DEF v, w
<1>9. Shaped(match, d, toy)
  <2>1. \A s \in Connected(match) : ~d[s].error
    BY <1>2, <1>5 DEF Shaped, Connected
  <2> QED
    BY <1>2, <1>5, <1>6, <2>1 DEF Shaped
<1>10. Lines(match, d, toy, Connected(match))
  <2>1. Lines(match, endpoint, toy, Connected(match))
    BY <1>2 DEF Good
  <2>2. \A s \in Connected(match) : s \in Seats
    BY DEF Connected
  <2>3. \A x : /\ Honest(match, v) => Honest(match, w)
               /\ Fresh(match, i, v, x) => Fresh(match, i, w, x)
               /\ Ready(match, i, v, x) => Ready(match, i, w, x)
    BY <1>3, <1>8, BeatLeads
  <2>4. \A s \in Connected(match) :
            /\ Honest(match, Way(match, endpoint, s)) => Honest(match, Way(match, d, s))
            /\ Fresh(match, s, Way(match, endpoint, s), toy[s]) => Fresh(match, s, Way(match, d, s), toy[s])
            /\ Ready(match, s, Way(match, endpoint, s), toy[s]) => Ready(match, s, Way(match, d, s), toy[s])
    BY <1>7, <2>2, <2>3 DEF v, w
  <2> QED
    BY <2>1, <2>4 DEF Lines
<1>11. Naming(match, d, toy)
  <2> SUFFICES ASSUME Closed(match), NEW s \in Connected(match) PROVE Hears(match, d, toy, s)
    BY DEF Naming
  <2>1. Hears(match, endpoint, toy, s) /\ s \in Seats
    BY <1>2 DEF Good, Naming, Connected
  <2>2. CASE s # i
    BY <1>7, <2>1, <2>2 DEF Hears
  <2>3. CASE s = i
    <3>1. (\E k \in DOMAIN v : v[k].type = "FINAL") => \E k \in DOMAIN w : w[k].type = "FINAL"
      BY <1>8, LedPlaces
    <3> QED
      BY <2>1, <2>3, <3>1 DEF Hears, v, w
  <2> QED
    BY <2>2, <2>3
<1>12. Quiet(match, d, toy)
  <2> SUFFICES ASSUME match.phase = "lobby", NEW s \in Seats
               PROVE  /\ match.outbox[s] = <<>> /\ toy[s].round = 0
                      /\ \A k \in DOMAIN d[s].queue : d[s].queue[k].type = "BEAT"
    BY DEF Quiet
  <2>1. /\ match.outbox[s] = <<>> /\ toy[s].round = 0
        /\ \A k \in DOMAIN endpoint[s].queue : endpoint[s].queue[k].type = "BEAT"
    BY <1>2 DEF Good, Quiet
  <2>2. \A k \in DOMAIN r : r[k].type = "BEAT"
    BY <1>3, <1>4
  <2> QED
    BY <1>5, <2>1, <2>2
<1>13. Good(match, d, toy)
  BY <1>2, <1>9, <1>10, <1>11, <1>12 DEF Good
<1> QED
  BY <1>1, <1>13 DEF IInv, ByRules, Rests, Stands

-----------------------------------------------------------------------------
(* Every step                                                               *)

\* The match as it is made.
LEMMA InitSound ==
    ASSUME Init
    PROVE  IInv
<1> DEFINE h == match
           e == endpoint
           t == toy
           beat == BEAT
           one == <<BEAT>>
<1>1. BEAT \in Messages /\ BEAT.type = "BEAT"
  BY DEF BEAT, Messages
<1>2. /\ one \in Seq(Messages) /\ Len(one) = 1 /\ \A k \in DOMAIN one : one[k].type = "BEAT"
      /\ <<>> \in Seq(Messages) /\ Len(<<>>) = 0 /\ DOMAIN <<>> = {}
  BY <1>1
<1> HIDE DEF one, beat
<1>3. /\ h.phase = "lobby" /\ h.round = 0 /\ h.seed = 0 /\ h.winner = Unset /\ ~h.finish
      /\ h.settle = Unset
      /\ \A s \in Seats : h.outbox[s] = <<>> /\ h.garbageId[s] = 0 /\ h.connected[s]
  BY DEF Init, EmptySeats
<1>4. h \in Matches
  <2>1. /\ EmptySeats(0) \in [Seats -> Nat] /\ EmptySeats(0) \in [Seats -> Seats]
        /\ EmptySeats(TRUE) \in [Seats -> BOOLEAN] /\ EmptySeats(FALSE) \in [Seats -> BOOLEAN]
    BY Numbers DEF EmptySeats
  <2>2. EmptySeats(<<>>) \in [Seats -> Seq(Messages)]
    BY <1>2 DEF EmptySeats
  <2>3. Unset \in Int /\ Unset \in Winners /\ 0 \in Nat /\ 0 \in Int
    BY DEF Unset, Winners
  <2> DEFINE a == EmptySeats(0)
             b == EmptySeats(TRUE)
             c == EmptySeats(FALSE)
             d == EmptySeats(<<>>)
  <2>4. h = [phase |-> "lobby", round |-> 0, seed |-> 0, wins |-> a, alive |-> {}, winner |-> Unset,
             deadline |-> 0, settle |-> Unset, finish |-> FALSE, connected |-> b, prepared |-> c,
             target |-> a, garbageId |-> a, outbox |-> d]
    BY DEF Init
  <2> HIDE DEF a, b, c, d
  <2>5. /\ a \in [Seats -> Nat] /\ a \in [Seats -> Seats] /\ b \in [Seats -> BOOLEAN]
        /\ c \in [Seats -> BOOLEAN] /\ d \in [Seats -> Seq(Messages)]
    BY <2>1, <2>2 DEF a, b, c, d
  <2> QED
    BY <2>3, <2>4, <2>5 DEF Matches, Phases
<1>5. /\ e \in [Seats -> Endpoints]
      /\ \A s \in Seats : ~e[s].error /\ (e[s].queue = one \/ e[s].queue = <<>>)
  <2>1. e = [s \in Seats |-> [error |-> FALSE, queue |-> IF s \in Chatty THEN one ELSE <<>>]]
    BY DEF Init, one
  <2>2. \A s \in Seats : e[s].error = FALSE /\ (e[s].queue = one \/ e[s].queue = <<>>)
    BY <2>1
  <2>3. \A s \in Seats : [error |-> FALSE, queue |-> IF s \in Chatty THEN one ELSE <<>>] \in Endpoints
    BY <1>2 DEF Endpoints
  <2> QED
    BY <2>1, <2>2, <2>3
<1>6. t \in [Seats -> Toys] /\ \A s \in Seats : t[s] = Untold
  BY NothingHeld DEF Init, EmptySeats
<1>7. Connected(h) = Seats
  BY <1>3 DEF Connected
<1> HIDE DEF h, e, t
<1>8. Shaped(h, e, t)
  <2>1. /\ MaxRounds \in Nat /\ GARBAGE_LIMIT \in Nat /\ OUTBOX_LIMIT \in Nat
        /\ HEADROOM \in Nat \ {0}
    BY MatchAssumption
  <2>2. \A s \in Seats : Len(e[s].queue) = 0 \/ Len(e[s].queue) = 1
    BY <1>2, <1>5
  <2>3. \A s \in Seats : /\ h.garbageId[s] <= GARBAGE_LIMIT /\ Len(h.outbox[s]) <= OUTBOX_LIMIT
                         /\ Len(e[s].queue) <= HEADROOM
    <3> SUFFICES ASSUME NEW s \in Seats
                 PROVE  /\ h.garbageId[s] <= GARBAGE_LIMIT /\ Len(h.outbox[s]) <= OUTBOX_LIMIT
                        /\ Len(e[s].queue) <= HEADROOM
      OBVIOUS
    <3>1. h.garbageId[s] = 0 /\ Len(h.outbox[s]) = 0
      BY <1>2, <1>3
    <3>2. Len(e[s].queue) = 0 \/ Len(e[s].queue) = 1
      BY <2>2
    <3>3. \A n \in Nat : 0 <= n
      OBVIOUS
    <3>4. 0 <= HEADROOM /\ 1 <= HEADROOM
      BY <2>1
    <3>5. Len(e[s].queue) <= HEADROOM
      BY <3>2, <3>4
    <3> QED
      BY <2>1, <3>1, <3>3, <3>5
  <2>4. h.round <= MaxRounds
    BY <1>3, <2>1
  <2> QED
    BY <1>3, <1>4, <1>5, <1>6, <1>7, <2>3, <2>4 DEF Shaped
<1>9. Phased(h)
  <2>1. ~Few(Seats)
    <3>1. 0 \in Seats /\ 1 \in Seats /\ 0 # 1
      BY Numbers
    <3> QED
      BY <3>1 DEF Few
  <2> QED
    BY <1>3, <1>7, <2>1 DEF Phased
<1>10. \A s \in Seats : \A k \in DOMAIN e[s].queue : e[s].queue[k].type = "BEAT"
  BY <1>2, <1>5
<1>11. Quiet(h, e, t)
  BY <1>3, <1>6, <1>10 DEF Quiet, Untold
<1>12. Lines(h, e, t, Connected(h))
  <2> SUFFICES ASSUME NEW s \in Seats
               PROVE  /\ Honest(h, Way(h, e, s)) /\ t[s].final = Unset
                      /\ Fresh(h, s, Way(h, e, s), t[s])
    BY <1>3, <1>7 DEF Lines
  <2>1. Way(h, e, s) = e[s].queue
    <3>1. Way(h, e, s) = e[s].queue \o <<>>
      BY <1>3 DEF Way
    <3>2. e[s].queue \in Seq(Messages)
      BY <1>2, <1>5
    <3> DEFINE q == e[s].queue
    <3> HIDE DEF q
    <3>3. q \in Seq(Messages) => q \o <<>> = q
      OBVIOUS
    <3> QED
      BY <3>1, <3>2, <3>3 DEF q
  <2>2. t[s].final = Unset /\ t[s].round = 0 /\ t[s].seed = 0 /\ t[s].garbage = 0 /\ ~t[s].playing
    BY <1>6 DEF Untold
  <2> QED
    BY <1>3, <1>10, <2>1, <2>2 DEF Honest, Fresh
<1>13. Naming(h, e, t)
  BY <1>3 DEF Naming, Closed
<1> QED
  BY <1>8, <1>9, <1>11, <1>12, <1>13 DEF IInv, Good, h, e, t

\* Every step keeps the invariant, and to the rules.
LEMMA NextSound ==
    ASSUME IInv, [Next]_vars
    PROVE  IInv' /\ ByRules(match, match')
<1>1. CASE Start
  BY <1>1, StartSound
<1>2. CASE Tick
  BY <1>2, TickSound
<1>3. CASE Clock
  BY <1>3, ClockSound
<1>4. ASSUME NEW i \in Seats, Detach(i) PROVE IInv' /\ ByRules(match, match')
  BY <1>4, DetachSound
<1>5. ASSUME NEW i \in Seats, ReceiveLeave(i) PROVE IInv' /\ ByRules(match, match')
  BY <1>5, LeaveSound
<1>6. ASSUME NEW i \in Seats, ReceiveReady(i) PROVE IInv' /\ ByRules(match, match')
  BY <1>6, ReadySound
<1>7. ASSUME NEW i \in Seats, ReceiveTopOut(i) PROVE IInv' /\ ByRules(match, match')
  BY <1>7, TopOutSound
<1>8. ASSUME NEW i \in Seats, ReceiveAttack(i) PROVE IInv' /\ ByRules(match, match')
  BY <1>8, AttackSound
<1>9. ASSUME NEW i \in Seats, Acked(i) PROVE IInv' /\ ByRules(match, match')
  BY <1>9, AckedSound
<1>10. ASSUME NEW i \in Seats, Heartbeat(i) PROVE IInv' /\ ByRules(match, match')
  BY <1>10, HeartbeatSound
<1>11. CASE UNCHANGED vars
  <2>1. match' = match /\ endpoint' = endpoint /\ toy' = toy
    BY <1>11 DEF vars
  <2> QED
    BY <2>1 DEF IInv, ByRules, Rests, Stands
<1> QED
  BY <1>1, <1>2, <1>3, <1>4, <1>5, <1>6, <1>7, <1>8, <1>9, <1>10, <1>11 DEF Next

-----------------------------------------------------------------------------
(* What the invariant says                                                  *)

\* It bounds every variable.
LEMMA Bounded == IInv => TypeOK
<1> SUFFICES ASSUME IInv PROVE TypeOK
  OBVIOUS
<1>1. /\ match \in Matches /\ match.round <= MaxRounds /\ match.seed \in SEEDS \cup {0}
      /\ match.settle \in {Unset} \cup 0..SETTLE_MS
      /\ endpoint \in [Seats -> Endpoints]
      /\ \A s \in Seats : /\ match.garbageId[s] <= GARBAGE_LIMIT
                          /\ Len(match.outbox[s]) <= OUTBOX_LIMIT
                          /\ Len(endpoint[s].queue) <= HEADROOM
  BY DEF IInv, Good, Shaped
<1>2. /\ match.phase \in Phases /\ match.round \in Nat /\ match.wins \in [Seats -> Nat]
      /\ match.alive \subseteq Seats /\ match.winner \in Winners
      /\ match.connected \in [Seats -> BOOLEAN] /\ match.prepared \in [Seats -> BOOLEAN]
      /\ match.target \in [Seats -> Seats] /\ match.garbageId \in [Seats -> Nat]
  BY <1>1 DEF Matches
<1>3. match.round \in 0..MaxRounds
  BY <1>1, <1>2, MatchAssumption
<1>4. match.garbageId \in [Seats -> 0..GARBAGE_LIMIT]
  <2>1. \A s \in Seats : match.garbageId[s] \in 0..GARBAGE_LIMIT
    <3>1. GARBAGE_LIMIT \in Nat
      BY MatchAssumption
    <3> QED
      BY <1>1, <1>2, <3>1
  <2> QED
    BY <1>2, <2>1
<1>5. \A s \in Seats : Pending(endpoint, s) <= HEADROOM + 1
  <2> SUFFICES ASSUME NEW s \in Seats PROVE Pending(endpoint, s) <= HEADROOM + 1
    OBVIOUS
  <2>1. endpoint[s].queue \in Seq(Messages)
    BY <1>1 DEF Endpoints
  <2>2. Len(endpoint[s].queue) \in Nat /\ HEADROOM \in Nat
    BY <2>1, MatchAssumption
  <2>3. Len(endpoint[s].queue) <= HEADROOM
    BY <1>1
  <2> QED
    BY <2>2, <2>3 DEF Pending
<1> QED
  BY <1>1, <1>2, <1>3, <1>4, <1>5 DEF TypeOK, Winners

\* No toy plays before every toy knows of the round and has confirmed it.
LEMMA BarrierHolds == IInv => StartBarrier
<1> SUFFICES ASSUME IInv, NEW i \in Connected(match), NEW x \in Knows(i), x.playing,
                    x.round = match.round, NEW j \in Connected(match)
             PROVE  /\ toy[j].round = match.round /\ toy[j].seed = match.seed
                    /\ match.prepared[j]
  BY DEF StartBarrier
<1>1. Lines(match, endpoint, toy, Connected(match))
  BY DEF IInv, Good
<1>2. CASE \A s \in Connected(match) : Ready(match, s, Way(match, endpoint, s), toy[s])
  BY <1>2 DEF Ready
<1>3. CASE \A s \in Connected(match) : Fresh(match, s, Way(match, endpoint, s), toy[s])
  <2> DEFINE q == endpoint[i].queue
             o == match.outbox[i]
             y == toy[i]
  <2>1. /\ q \in Seq(Messages) /\ o \in Seq(Messages) /\ y \in Toys
    <3>1. i \in Seats /\ match \in Matches /\ endpoint \in [Seats -> Endpoints] /\ toy \in [Seats -> Toys]
      BY DEF IInv, Good, Shaped, Connected
    <3> QED
      BY <3>1, WayTyped
  <2>2. Fresh(match, i, q \o o, y)
    BY <1>3 DEF Way
  <2>3. x = y \/ (1 \in DOMAIN q /\ x = Told(y, q[1]))
    BY DEF Knows
  <2> HIDE DEF q, o, y
  <2>4. ~(x = y)
    BY <2>2 DEF Fresh
  <2>5. q # <<>> /\ 1 \in DOMAIN q /\ x = Told(y, Head(q)) /\ Head(q) = q[1]
    <3>1. 1 \in DOMAIN q
      BY <2>3, <2>4
    <3>2. q # <<>>
      BY <3>1
    <3>3. Head(q) = q[1]
      BY <2>1, <3>2
    <3> QED
      BY <2>3, <2>4, <3>1, <3>2, <3>3
  <2> DEFINE m == Head(q)
             v == Tail(q) \o o
             w == q \o o
  <2>6. Led(m, v, w)
    BY <2>1, <2>5, HeadLeads
  <2> HIDE DEF m, v, w
  <2>7. m \in Messages /\ m.type # "GO"
    <3>1. 1 \in DOMAIN w /\ w[1] = m
      BY <2>6, LedPlaces
    <3>2. Fresh(match, i, w, y)
      BY <2>2 DEF w
    <3> QED
      BY <2>6, <3>1, <3>2 DEF Fresh, Led
  <2>8. x = Told(y, m)
    BY <2>5 DEF m
  <2>9. CASE m.type = "START"
    <3>1. ~x.playing
      BY <2>1, <2>7, <2>8, <2>9, ToldIs
    <3> QED
      BY <3>1
  <2>10. CASE m.type # "START"
    <3>1. x.round = y.round /\ (x.playing => y.playing)
      BY <2>1, <2>7, <2>8, <2>10, ToldIs
    <3>2. FALSE
      BY <2>2, <3>1 DEF Fresh
    <3> QED
      BY <3>2
  <2> QED
    BY <2>9, <2>10
<1> QED
  BY <1>1, <1>2, <1>3 DEF Lines

\* The settlement window is open exactly when it has to be.
LEMMA WindowHolds == IInv => SettlementArmed
<1> SUFFICES ASSUME IInv, match.phase = "playing"
             PROVE  match.settle # Unset <=> Cardinality(match.alive) <= 1
  BY DEF SettlementArmed
<1>1. Armed(match)
  BY DEF IInv, Good, Phased
<1>2. match.alive \in SUBSET Seats
  BY DEF IInv, Good, Shaped, Matches
<1>3. Cardinality(match.alive) <= 1 <=> Few(match.alive)
  BY <1>2, FewCounted
<1> QED
  BY <1>1, <1>3 DEF Armed

\* No attack is lost.
LEMMA AttacksHold == IInv => GarbageAccounted
<1> SUFFICES ASSUME IInv, NEW i \in Connected(match), toy[i].round = match.round,
                    NEW way, way = Underway(i),
                    NEW at, at = {k \in DOMAIN way : way[k].type = "GARBAGE" /\ way[k].round = match.round}
             PROVE  /\ {way[k].id : k \in at} = toy[i].garbage + 1 .. match.garbageId[i]
                    /\ \A j, k \in at : j < k => way[j].id < way[k].id
  BY DEF GarbageAccounted
<1>1. way = Way(match, endpoint, i)
  BY DEF Underway, Way
<1>2. Lines(match, endpoint, toy, Connected(match))
  BY DEF IInv, Good
<1>3. Honest(match, way)
  BY <1>1, <1>2 DEF Lines
<1>4. at = Attacks(way)
  BY <1>3 DEF Attacks, Honest
<1>5. CASE Ready(match, i, way, toy[i])
  BY <1>4, <1>5 DEF Ready, InOrder
<1>6. CASE Fresh(match, i, way, toy[i])
  <2>1. Attacks(way) = {}
    BY <1>6 DEF Fresh, Attacks
  <2>2. toy[i].garbage = 0 /\ match.garbageId[i] = 0
    BY <1>6 DEF Fresh
  <2>3. toy[i].garbage + 1 .. match.garbageId[i] = {}
    BY <2>2
  <2> QED
    BY <1>4, <2>1, <2>3
<1> QED
  BY <1>1, <1>2, <1>5, <1>6 DEF Lines

\* The toys name the winner, or the champion.
LEMMA NamesHold == IInv => FinalAgreement
<1> SUFFICES ASSUME IInv, match.phase = "results", Drained(match, endpoint),
                    NEW i \in Connected(match)
             PROVE  \/ toy[i].final = match.winner
                    \/ toy[i].final \in Seats /\ Champion(match, toy[i].final)
  BY DEF FinalAgreement
<1>1. match \in Matches /\ endpoint \in [Seats -> Endpoints]
  BY DEF IInv, Good, Shaped
<1>2. Hears(match, endpoint, toy, i)
  BY DEF IInv, Good, Naming, Closed
<1>3. Way(match, endpoint, i) = <<>>
  BY <1>1, DrainedWays
<1>4. toy[i].final # Unset
  BY <1>2, <1>3 DEF Hears
<1>5. toy[i].final = Unset \/ Named(match, toy[i].final)
  BY DEF IInv, Good, Lines
<1> QED
  BY <1>4, <1>5 DEF Named

-----------------------------------------------------------------------------
\* IInv holds in every state of every behaviour.
LEMMA AlwaysGood == Spec => []IInv
<1>1. IInv /\ [Next]_vars => IInv'
  BY NextSound
<1> QED
  BY <1>1, InitSound, PTL DEF Spec

\* A round begins for all or for none, and its settlement window opens in time
\* and never before: however many seats are lost, or topped out, within a call.
THEOREM RoundsHold == Spec => []RoundHolds
<1>1. IInv => RoundHolds
  BY Bounded, BarrierHolds, WindowHolds DEF RoundHolds
<1> QED
  BY <1>1, AlwaysGood, PTL

\* What an attack costs reaches its toy once, and in order, for any number of
\* attacks and however full the queues on its way are.
THEOREM AttacksArrive == Spec => []GarbageAccounted
BY AttacksHold, AlwaysGood, PTL

\* After the match nobody is named the winner but the winner, or the champion
\* two wins had made.
THEOREM WinnerIsNamed == Spec => []FinalAgreement
BY NamesHold, AlwaysGood, PTL

\* A step by the rules is a step of MatchRules.
LEMMA ByRulesImplements ==
    ASSUME match \in Matches, ByRules(match, match')
    PROVE  [Rules!Next]_(Rules!vars)
<1> DEFINE h == match
           g == match'
<1>1. \A S : Rules!AtMostOne(S) <=> Few(S)
  BY DEF Rules!AtMostOne, Few
<1>2. Connected(match)' = Connected(match')
  BY DEF Connected
<1>3. CASE Rests(h, g) /\ g.phase = h.phase
  BY <1>2, <1>3 DEF Rules!vars, Rests, Stands
<1>4. CASE Rests(h, g) /\ <<h.phase, g.phase>> \in Advances
  <2>1. Rules!Countdown \/ Rules!Play
    BY <1>2, <1>4 DEF Rules!Countdown, Rules!Play, Rests, Stands, Advances
  <2> QED
    BY <2>1 DEF Rules!Next
<1>5. CASE Rests(h, g) /\ h.phase = "round-result" /\ h.finish /\ g.phase = "results"
  <2>1. Rules!Close
    BY <1>2, <1>5 DEF Rules!Close, Rests, Stands
  <2> QED
    BY <2>1 DEF Rules!Next
<1>6. CASE /\ h.phase = "lobby" \/ (h.phase = "round-result" /\ ~h.finish)
           /\ g.phase = "preparing" /\ g.round = h.round + 1 /\ g.alive = Connected(h)
           /\ g.winner = Unset /\ Connected(g) = Connected(h) /\ g.wins = h.wins
           /\ g.finish = h.finish
  <2>1. Rules!Begin
    BY <1>2, <1>6 DEF Rules!Begin
  <2> QED
    BY <2>1 DEF Rules!Next
<1>7. CASE /\ h.phase \in {"preparing", "countdown", "round-result"} /\ g.phase = "aborted"
           /\ Connected(g) \subseteq Connected(h) /\ Stands(h, g) /\ g.alive = h.alive
           /\ g.winner = h.winner
  <2>1. Rules!GiveUp
    BY <1>2, <1>7 DEF Rules!GiveUp, Stands
  <2> QED
    BY <2>1 DEF Rules!Next
<1>8. ASSUME Forfeited(h, g) PROVE Rules!Forfeit
  BY <1>1, <1>2, <1>8 DEF Rules!Forfeit, Forfeited
<1>9. CASE /\ h.phase = "playing" /\ Stands(h, g)
           /\ Connected(g) \subseteq Connected(h) /\ g.alive \subseteq h.alive
           /\ \/ ~Few(Connected(g)) /\ g.alive \subseteq Connected(g)
                 /\ g.phase = h.phase /\ g.winner = h.winner
              \/ Forfeited(h, g) /\ ~Few(Connected(h)) /\ g.alive \subseteq {g.winner}
  <2>1. CASE /\ ~Few(Connected(g)) /\ g.alive \subseteq Connected(g)
             /\ g.phase = h.phase /\ g.winner = h.winner
    <3>1. Rules!Losses
      BY <1>1, <1>2, <1>9, <2>1 DEF Rules!Losses, Stands
    <3> QED
      BY <3>1 DEF Rules!Next
  <2>2. CASE Forfeited(h, g) /\ ~Few(Connected(h)) /\ g.alive \subseteq {g.winner}
    <3>1. Few(Connected(g)) /\ Connected(g) # Connected(h)
      BY <2>2 DEF Forfeited
    <3>2. Rules!Losses
      BY <1>1, <1>2, <1>8, <1>9, <2>2, <3>1 DEF Rules!Losses, Stands
    <3> QED
      BY <3>2 DEF Rules!Next
  <2> QED
    BY <1>9, <2>1, <2>2
<1>10. CASE /\ h.phase = "playing" /\ Few(h.alive) /\ ~Few(Connected(h))
            /\ Connected(g) \subseteq Connected(h)
            /\ \E s : /\ RoundClosed(h, g, s)
                      /\ \/ ~Few(Connected(g)) /\ g.phase = "round-result" /\ g.winner = s
                         \/ Forfeited(h, g)
  <2>1. PICK s : /\ RoundClosed(h, g, s)
                 /\ \/ ~Few(Connected(g)) /\ g.phase = "round-result" /\ g.winner = s
                    \/ Forfeited(h, g)
    BY <1>10
  <2>2. /\ s \in h.alive \cup {TIE} /\ (s = TIE <=> h.alive = {})
        /\ g.wins = [p \in Seats |-> IF p = s THEN h.wins[p] + 1 ELSE h.wins[p]]
        /\ g.finish = (s # TIE /\ g.wins[s] >= 2)
        /\ g.round = h.round /\ g.alive = h.alive
    BY <2>1 DEF RoundClosed
  <2>3. IF Connected(g) # Connected(h) /\ Rules!AtMostOne(Connected(g)) THEN Rules!Forfeit
        ELSE g.phase = "round-result" /\ g.winner = s
    <3>1. CASE Few(Connected(g))
      <4>1. Connected(g) # Connected(h) /\ Forfeited(h, g)
        BY <1>10, <2>1, <3>1
      <4> QED
        BY <1>1, <1>8, <3>1, <4>1
    <3>2. CASE ~Few(Connected(g))
      <4>1. ~Forfeited(h, g)
        BY <3>2 DEF Forfeited
      <4> QED
        BY <1>1, <2>1, <3>2, <4>1
    <3> QED
      BY <3>1, <3>2
  <2>4. Rules!Finish
    BY <1>1, <1>2, <1>10, <2>2, <2>3 DEF Rules!Finish
  <2> QED
    BY <2>4 DEF Rules!Next
<1>11. CASE /\ h.phase = "round-result" /\ Stands(h, g) /\ g.alive = h.alive
            /\ Connected(g) \subseteq Connected(h) /\ Connected(g) # Connected(h)
            /\ \/ ~Few(Connected(g)) /\ g.phase = h.phase /\ g.winner = h.winner
               \/ Forfeited(h, g)
  <2>1. IF Rules!AtMostOne(Connected(g)) THEN Rules!Forfeit
        ELSE g.phase = h.phase /\ g.winner = h.winner
    BY <1>1, <1>8, <1>11 DEF Forfeited
  <2> DEFINE S == Connected(h)
             T == Connected(g)
  <2>0. T \in (SUBSET S) \ {S} /\ Connected(match)' = T
    BY <1>2, <1>11
  <2>2. Rules!LossesAfter
    <3>1. /\ match.phase = "round-result"
          /\ match'.round = match.round /\ match'.alive = match.alive
          /\ match'.wins = match.wins /\ match'.finish = match.finish
      BY <1>11 DEF Stands
    <3>2. IF Rules!AtMostOne(T) THEN Rules!Forfeit
          ELSE match'.phase = match.phase /\ match'.winner = match.winner
      BY <2>1
    <3>3. Connected(match)' \in (SUBSET Connected(match)) \ {Connected(match)}
      BY <2>0
    <3>4. Connected(match)' = T
      BY <2>0
    <3> HIDE DEF S, T
    <3> QED
      BY <3>1, <3>2, <3>3, <3>4 DEF Rules!LossesAfter
  <2> QED
    BY <2>2 DEF Rules!Next
<1>12. CASE /\ h.phase \in {"results", "aborted"} /\ g.phase = h.phase /\ Stands(h, g)
            /\ g.alive = h.alive /\ Connected(g) \subseteq Connected(h) /\ g.winner = h.winner
  <2>1. Rules!GoneAfter
    BY <1>2, <1>12 DEF Rules!GoneAfter, Stands
  <2> QED
    BY <2>1 DEF Rules!Next
<1> QED
  BY <1>3, <1>4, <1>5, <1>6, <1>7, <1>9, <1>10, <1>11, <1>12 DEF ByRules

\* The match, with its queues, its clocks and its nested calls, implements the
\* rules it promises: what MatchRulesProofs proves of them holds of it.
THEOREM MatchKeepsRules == Spec => ImplementsRules
<1>1. Init => Rules!Init
  <2> SUFFICES ASSUME Init PROVE Rules!Init
    OBVIOUS
  <2>1. /\ match.phase = "lobby" /\ match.round = 0 /\ match.alive = {} /\ match.winner = Unset
        /\ match.finish = FALSE /\ match.wins = [s \in Seats |-> 0]
        /\ match.connected = [s \in Seats |-> TRUE]
    BY DEF Init, EmptySeats
  <2>2. Connected(match) = Seats
    BY <2>1 DEF Connected
  <2> QED
    BY <2>1, <2>2 DEF Rules!Init
<1>2. IInv /\ [Next]_vars => [Rules!Next]_(Rules!vars)
  <2>1. IInv => match \in Matches
    BY DEF IInv, Good, Shaped
  <2> QED
    BY <2>1, NextSound, ByRulesImplements
<1> QED
  BY <1>1, <1>2, AlwaysGood, PTL DEF Spec, ImplementsRules, Rules!Spec

=============================================================================
