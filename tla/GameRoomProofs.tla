--------------------------- MODULE GameRoomProofs ---------------------------
(***************************************************************************)
(* For any number of members, sockets and toys: whatever a room and its     *)
(* match believe of a toy, they believe of the one that is there (ToysHold),*)
(* and no session is used for a second match (SessionPlaysOnce).            *)
(***************************************************************************)
EXTENDS GameRoom, FiniteSetTheorems, WellFoundedInduction, TLAPS

NetType ==
    [plug : Nat, ws : Nat, ready : BOOLEAN, error : BOOLEAN, pending : BOOLEAN,
     told : Nat, played : BOOLEAN]
MemberType ==
    [ws : Nat, plug : Nat, ready : BOOLEAN, net : NetType, lobbyCount : Nat,
     expires : 0..RESERVE_MS, talk : SUBSET Nat]
MatchType ==
    [phase : Phases \cup {"none"}, connected : SUBSET Ids, unsent : SUBSET Ids,
     roster : SUBSET Ids, session : [Ids -> Nat]]
Rooms ==
    [mode : {"hosted", "direct"}, members : Seq(Ids), owner : Ids \cup {None},
     m : [Ids -> MemberType], match : MatchType, open : SUBSET Nat, closing : SUBSET Nat,
     sockets : Nat, plugs : Nat]

\* Nobody is listed twice, and no room is fuller than it may be.
Listed(r) ==
    /\ \A a, b \in 1..Len(r.members) : r.members[a] = r.members[b] => a = b
    /\ Len(r.members) <= Capacity(r)

SocketsFit(r) ==
    r.open \cup r.closing \subseteq 1..r.sockets /\ r.open \cap r.closing = {}

MatchFits(r) ==
    /\ r.match.unsent \subseteq r.match.connected /\ r.match.connected \subseteq r.match.roster
    /\ r.mode = "direct" => r.match = NoMatch

\* What holds of a member at any point of a handler.
MemberFits(r, i) ==
    /\ r.m[i].ws <= r.sockets /\ r.m[i].plug <= r.plugs
    /\ i \notin Members(r) => r.m[i] = Absent
    /\ r.mode = "direct" => r.m[i].net = NoNet
    /\ r.mode = "hosted" => r.m[i].talk = {}
    /\ 0 \notin r.m[i].talk
    /\ r.m[i].talk \subseteq {r.m[j].plug : j \in Members(r) \ {i}}

\* What is known of the toy of a member that no handler is busy with.
ToyFits(r, i) ==
    LET a == r.m[i]
    IN  /\ i \in r.match.connected =>
              /\ Alive(a.net) /\ a.net.plug = r.match.session[i]
              /\ a.net.ws = a.ws /\ a.ws # 0
        /\ a.ready => a.ws # 0 /\ a.net.ready /\ Alive(a.net)
        /\ a.net.plug # 0 =>
              a.net.plug = a.plug /\ a.net.ws = a.ws /\ a.lobbyCount = a.net.told
        /\ a.net.played => i \in r.match.roster /\ r.match.session[i] = a.net.plug

\* A room in the middle of a handler that is busy with the toys of X.
Sound(r, X) ==
    /\ r \in Rooms /\ Listed(r) /\ SocketsFit(r) /\ MatchFits(r)
    /\ \A i \in Ids : MemberFits(r, i)
    /\ \A i \in Ids \ X : ToyFits(r, i)

Owned(r) == r.owner = None <=> r.members = <<>>

\* A room between two handlers.
Fine(r) == Sound(r, {}) /\ Owned(r)

RoomInv == Fine(room)

-----------------------------------------------------------------------------
(* Sequences and steps                                                      *)

\* The least of some numbers.
LEMMA Least ==
    ASSUME NEW T \in SUBSET Nat, T # {}
    PROVE  \E n \in T : \A k \in T : n <= k
<1> DEFINE R == OpToRel(<, Nat)
<1>1. IsWellFoundedOn(R, Nat)
  BY NatLessThanWellFounded
<1>2. PICK n \in T : \A k \in T : ~ <<k, n>> \in R
  <2> HIDE DEF R
  <2> QED
    BY <1>1, WFMin
<1>3. \A k \in T : ~ k < n
  BY <1>2 DEF OpToRel
<1> QED
  BY <1>3

\* Step by step from 0 to n.
LEMMA Climb ==
    ASSUME NEW n \in Nat, NEW T, 0 \in T, \A k \in 1..n : k - 1 \in T => k \in T
    PROVE  n \in T
<1> DEFINE Bad == {k \in 0..n : k \notin T}
<1>1. SUFFICES ASSUME Bad # {} PROVE FALSE
  OBVIOUS
<1>2. PICK m \in Bad : \A k \in Bad : m <= k
  <2>1. Bad \in SUBSET Nat
    OBVIOUS
  <2> HIDE DEF Bad
  <2> QED
    BY <1>1, <2>1, Least
<1>3. m \in 1..n /\ m - 1 \in 0..n /\ m - 1 \notin Bad
  BY <1>2
<1> QED
  BY <1>2, <1>3

\* n steps within U, and h lists what they make of the first.
Steps(n, U, first, step) == n \in Nat /\ first \in U /\ step \in [1..n -> [U -> U]]
Lists(h, n, U, first, step) ==
    h \in [0..n -> U] /\ h[0] = first /\ \A k \in 1..n : h[k] = step[k][h[k - 1]]

\* Applying step after step is a function of their number.
LEMMA Iterated ==
    ASSUME NEW n, NEW U, NEW first, NEW step, Steps(n, U, first, step)
    PROVE  \E h : Lists(h, n, U, first, step)
<1>0. n \in Nat /\ first \in U /\ step \in [1..n -> [U -> U]]
  BY DEF Steps
<1> DEFINE Up(k, h) == h \in [0..k -> U] /\ h[0] = first /\ \A j \in 1..k : h[j] = step[j][h[j - 1]]
           T == {k \in 0..n : \E h : Up(k, h)}
<1>1. 0 \in T
  <2> DEFINE h == [k \in 0..0 |-> first]
  <2>1. Up(0, h)
    BY <1>0
  <2> HIDE DEF Up, h
  <2> QED
    BY <1>0, <2>1
<1>2. ASSUME NEW m \in 1..n, m - 1 \in T PROVE m \in T
  <2>1. m - 1 \in 0..n /\ m \in 0..n
    BY <1>0
  <2>2. PICK g : Up(m - 1, g)
    BY <1>2
  <2> DEFINE h == [k \in 0..m |-> IF k = m THEN step[m][g[m - 1]] ELSE g[k]]
  <2>3. step[m][g[m - 1]] \in U
    BY <1>0, <2>1, <2>2
  <2>4. h \in [0..m -> U]
    BY <1>0, <2>1, <2>2, <2>3
  <2>5. h[0] = first
    BY <1>0, <2>1, <2>2
  <2>6. \A j \in 1..m : h[j] = step[j][h[j - 1]]
    BY <1>0, <2>1, <2>2
  <2>7. Up(m, h)
    BY <2>4, <2>5, <2>6
  <2> QED
    BY <2>1, <2>7
<1>3. n \in T
  <2> HIDE DEF T
  <2> QED
    BY <1>0, <1>1, <1>2, Climb
<1> QED
  BY <1>3 DEF Lists

\* Who is listed once is counted once.
LEMMA ListedOnce ==
    ASSUME NEW seq \in Seq(Ids), \A a, b \in 1..Len(seq) : seq[a] = seq[b] => a = b
    PROVE  Cardinality(ToSet(seq)) = Len(seq)
<1> DEFINE n == Len(seq)
           D == 1..n
           S == ToSet(seq)
<1>1. n \in Nat /\ IsFiniteSet(D) /\ Cardinality(D) = n
  BY FS_Interval
<1>2. seq \in Bijection(D, S)
  BY DEF ToSet, Bijection, Injection, Surjection, IsInjective
<1>3. ExistsBijection(D, S)
  BY <1>2 DEF ExistsBijection
<1> QED
  BY <1>1, <1>3, FS_Bijection

\* RemoveFirst takes the name off a list of different names, and nothing else.
LEMMA Removed ==
    ASSUME NEW seq \in Seq(Ids), \A a, b \in 1..Len(seq) : seq[a] = seq[b] => a = b,
           NEW i, NEW new, new = RemoveFirst(seq, i)
    PROVE  /\ new \in Seq(Ids) /\ Len(new) <= Len(seq)
           /\ ToSet(new) = ToSet(seq) \ {i}
           /\ \A a, b \in 1..Len(new) : new[a] = new[b] => a = b
<1>1. CASE ~ \E k \in 1..Len(seq) : seq[k] = i
  <2>1. new = seq
    BY <1>1 DEF RemoveFirst
  <2> QED
    BY <1>1, <2>1 DEF ToSet
<1>2. CASE \E k \in 1..Len(seq) : seq[k] = i
  <2> DEFINE at == SelectInSeq(seq, LAMBDA v : v = i)
             I == {k \in 1..Len(seq) : seq[k] = i}
             n == Len(seq)
  <2>1. at = Min(I)
    BY <1>2 DEF SelectInSeq
  <2>2. PICK k \in 1..n : I = {k} /\ seq[k] = i
    BY <1>2
  <2>3. Min(I) = k
    BY <2>2 DEF Min
  <2>4. new = SubSeq(seq, 1, k - 1) \o SubSeq(seq, k + 1, n)
    BY <1>2, <2>1, <2>3 DEF RemoveFirst, RemoveAt
  <2>5. /\ new \in Seq(Ids) /\ Len(new) = n - 1
        /\ \A j \in 1..n - 1 : new[j] = IF j < k THEN seq[j] ELSE seq[j + 1]
    <3> DEFINE p == SubSeq(seq, 1, k - 1)
               q == SubSeq(seq, k + 1, n)
    <3>1. p \in Seq(Ids) /\ Len(p) = k - 1 /\ \A j \in 1..k - 1 : p[j] = seq[j]
      BY <2>2
    <3>2. q \in Seq(Ids) /\ Len(q) = n - k /\ \A j \in 1..n - k : q[j] = seq[k + j]
      BY <2>2
    <3>3. new = p \o q
      BY <2>4
    <3> HIDE DEF p, q
    <3>4. new \in Seq(Ids) /\ Len(new) = n - 1
      <4>1. p \in Seq(Ids) /\ q \in Seq(Ids)
        BY <3>1, <3>2
      <4>2. p \o q \in Seq(Ids)
        BY <4>1
      <4>3. Len(p \o q) = Len(p) + Len(q)
        BY <4>1
      <4> QED
        BY <2>2, <3>1, <3>2, <3>3, <4>2, <4>3
    <3>5. ASSUME NEW j \in 1..n - 1, j < k PROVE new[j] = seq[j]
      BY <2>2, <3>1, <3>2, <3>3, <3>5
    <3>6. ASSUME NEW j \in 1..n - 1, ~ j < k PROVE new[j] = seq[j + 1]
      <4>1. new[j] = q[j - (k - 1)]
        BY <2>2, <3>1, <3>2, <3>3, <3>6
      <4>2. j - (k - 1) \in 1..n - k /\ k + (j - (k - 1)) = j + 1
        BY <2>2, <3>6
      <4> QED
        BY <3>2, <4>1, <4>2
    <3> QED
      BY <3>4, <3>5, <3>6
  <2>6. \A a, b \in 1..Len(new) : new[a] = new[b] => a = b
    BY <2>5
  <2>7. ToSet(new) \subseteq ToSet(seq) \ {i}
    BY <2>2, <2>5 DEF ToSet
  <2>8. ASSUME NEW j \in 1..n, j # k PROVE seq[j] \in ToSet(new)
    <3>1. j < k => j \in 1..n - 1 /\ new[j] = seq[j]
      BY <2>5, <2>8
    <3>2. j > k => j - 1 \in 1..n - 1 /\ new[j - 1] = seq[j]
      BY <2>5, <2>8
    <3> QED
      BY <2>5, <2>8, <3>1, <3>2 DEF ToSet
  <2>9. ToSet(seq) \ {i} \subseteq ToSet(new)
    BY <2>2, <2>8 DEF ToSet
  <2> QED
    BY <2>5, <2>6, <2>7, <2>9
<1> QED
  BY <1>1, <1>2

-----------------------------------------------------------------------------
(* What the match does to the room                                          *)

\* The list, the mode and the counters, and that there is no match.
SameRoom(r, s) ==
    /\ s.members = r.members /\ s.mode = r.mode /\ s.owner = r.owner
    /\ s.sockets = r.sockets /\ s.plugs = r.plugs
    /\ r.match = NoMatch => s.match = NoMatch

\* A room is made into another with the same list and the same toys.
LEMMA Remade ==
    ASSUME NEW r, NEW Y, Sound(r, Y), NEW X, NEW s \in Rooms,
           s.members = r.members /\ s.mode = r.mode /\ s.plugs = r.plugs,
           \A j \in Ids : s.m[j].plug = r.m[j].plug /\ s.m[j].talk = r.m[j].talk,
           \A j \in Ids : s.m[j].ws <= s.sockets,
           \A j \in Ids \ Members(r) : s.m[j] = Absent,
           s.mode = "direct" => \A j \in Ids : s.m[j].net = NoNet,
           SocketsFit(s), MatchFits(s), \A j \in Ids \ X : ToyFits(s, j)
    PROVE  Sound(s, X)
<1>1. Members(s) = Members(r) /\ Capacity(s) = Capacity(r)
  BY DEF Members, Capacity
<1>2. Members(r) \subseteq Ids
  BY DEF Sound, Rooms, Members, ToSet
<1>3. Listed(s)
  BY <1>1 DEF Sound, Listed
<1>4. ASSUME NEW j \in Ids PROVE MemberFits(s, j)
  <2>1. MemberFits(r, j)
    BY DEF Sound
  <2>2. {s.m[k].plug : k \in Members(s) \ {j}} = {r.m[k].plug : k \in Members(r) \ {j}}
    BY <1>1, <1>2
  <2> QED
    BY <1>1, <2>1, <2>2 DEF MemberFits
<1> QED
  BY <1>3, <1>4 DEF Sound

\* The match mt may follow upon the match old without a word to the room: it
\* has lost seats at most.
Loses(old, mt) ==
    /\ mt \in MatchType /\ mt.connected \subseteq old.connected
    /\ mt.unsent \subseteq mt.connected
    /\ mt.roster = old.roster /\ mt.session = old.session

\* After only takes seats away.
LEMMA AfterLoses ==
    ASSUME NEW old \in MatchType, NEW p \in Phases, NEW C \in SUBSET old.connected
    PROVE  Loses(old, After(old, p, C)) /\ After(old, p, C).connected = C
<1> DEFINE w == IF p \in Ended THEN C ELSE {}
           mt == [old EXCEPT !.phase = p, !.connected = C, !.unsent = w]
<1>1. After(old, p, C) = mt
  BY DEF After
<1>2. w \in SUBSET C /\ C \in SUBSET Ids
  BY DEF MatchType
<1> HIDE DEF w
<1>3. /\ mt \in MatchType /\ mt.connected = C /\ mt.unsent = w
      /\ mt.roster = old.roster /\ mt.session = old.session
  BY <1>2 DEF MatchType
<1> QED
  BY <1>1, <1>2, <1>3 DEF Loses

\* So does Played.
LEMMA PlayedLoses ==
    ASSUME NEW old \in MatchType, NEW C \in SUBSET old.connected
    PROVE  Loses(old, Played(old, C)) /\ Played(old, C).connected = C
<1>1. "results" \in Phases /\ "playing" \in Phases
  BY DEF Phases
<1> QED
  BY <1>1, AfterLoses DEF Played

\* And LoseSeat takes away the seat in question.
LEMMA SeatLoses ==
    ASSUME NEW old \in MatchType, old.unsent \subseteq old.connected, NEW i,
           NEW mt \in LoseSeat(old, i)
    PROVE  Loses(old, mt) /\ i \notin mt.connected
<1> DEFINE left == {C \in SUBSET old.connected : i \notin C}
<1>1. CASE old.phase = "preparing"
  <2>1. PICK C \in left : mt = After(old, "aborted", C)
    BY <1>1 DEF LoseSeat
  <2>2. "aborted" \in Phases
    BY DEF Phases
  <2> QED
    BY <2>1, <2>2, AfterLoses
<1>2. CASE old.phase = "playing"
  <2>1. PICK C \in left : mt = Played(old, C)
    BY <1>2 DEF LoseSeat
  <2> QED
    BY <2>1, PlayedLoses
<1>3. CASE old.phase # "preparing" /\ old.phase # "playing"
  <2>1. mt = [old EXCEPT !.connected = @ \ {i}, !.unsent = @ \ {i}]
    BY <1>3 DEF LoseSeat
  <2>2. /\ mt \in MatchType /\ mt.connected = old.connected \ {i}
        /\ mt.unsent = old.unsent \ {i}
        /\ mt.roster = old.roster /\ mt.session = old.session
    BY <2>1 DEF MatchType
  <2> QED
    BY <2>2 DEF Loses
<1> QED
  BY <1>1, <1>2, <1>3

\* A room stays sound while its match loses seats.
LEMMA MatchKept ==
    ASSUME NEW r, NEW X, Sound(r, X), r.mode # "direct", NEW mt, Loses(r.match, mt),
           NEW s, s = [r EXCEPT !.match = mt]
    PROVE  Sound(s, X)
<1>1. /\ s \in Rooms /\ s.match = mt /\ s.m = r.m /\ s.members = r.members
      /\ s.mode = r.mode /\ s.sockets = r.sockets /\ s.plugs = r.plugs
      /\ s.open = r.open /\ s.closing = r.closing
  BY DEF Sound, Rooms, Loses
<1>2. SocketsFit(s) /\ MatchFits(s)
  BY <1>1 DEF Sound, SocketsFit, MatchFits, Loses
<1>3. /\ \A j \in Ids : s.m[j].ws <= s.sockets
      /\ \A j \in Ids \ Members(r) : s.m[j] = Absent
      /\ s.mode = "direct" => \A j \in Ids : s.m[j].net = NoNet
  BY <1>1 DEF Sound, MemberFits
<1>4. \A j \in Ids \ X : ToyFits(s, j)
  BY <1>1 DEF Sound, ToyFits, Loses
<1> QED
  BY <1>1, <1>2, <1>3, <1>4, Remade

\* Nobody is seated in a direct room.
LEMMA DirectIsEmpty ==
    ASSUME NEW r, NEW X, Sound(r, X), r.mode = "direct"
    PROVE  r.match = NoMatch /\ r.match.connected = {} /\ r.match.roster = {}
  BY DEF Sound, MatchFits, NoMatch

\* HostedMatch.disconnect: the seat is lost, and the toys are as they were.
LEMMA LoseKept ==
    ASSUME NEW r, NEW X, Sound(r, X), NEW i, NEW s \in Lose(r, i)
    PROVE  /\ Sound(s, X) /\ SameRoom(r, s) /\ s.m = r.m
           /\ i \notin s.match.connected /\ s.match.connected \subseteq r.match.connected
           /\ s.match.roster = r.match.roster /\ s.match.session = r.match.session
           /\ s.open = r.open /\ s.closing = r.closing
<1>1. CASE i \notin r.match.connected
  BY <1>1 DEF Lose, SameRoom
<1>2. CASE i \in r.match.connected
  <2>1. PICK mt \in LoseSeat(r.match, i) : s = [r EXCEPT !.match = mt]
    BY <1>2 DEF Lose
  <2>2. r.match \in MatchType /\ r.match.unsent \subseteq r.match.connected
    BY DEF Sound, Rooms, MatchFits
  <2>3. Loses(r.match, mt) /\ i \notin mt.connected
    BY <2>2, SeatLoses
  <2>4. r.mode # "direct" /\ r.match # NoMatch
    BY <1>2, DirectIsEmpty DEF NoMatch
  <2>5. Sound(s, X)
    BY <2>1, <2>3, <2>4, MatchKept
  <2>6. /\ s.match = mt /\ s.m = r.m /\ s.members = r.members /\ s.owner = r.owner
        /\ s.mode = r.mode /\ s.sockets = r.sockets /\ s.plugs = r.plugs
        /\ s.open = r.open /\ s.closing = r.closing
    BY <2>1 DEF Sound, Rooms
  <2> QED
    BY <2>3, <2>4, <2>5, <2>6 DEF SameRoom, Loses
<1> QED
  BY <1>1, <1>2

-----------------------------------------------------------------------------
(* What the handlers share                                                  *)

\* Closing sockets leaves everything but the two sets of sockets alone.
LEMMA ShutKept ==
    ASSUME NEW r, NEW X, Sound(r, X), NEW W, NEW s, s = Shut(r, W)
    PROVE  Sound(s, X) /\ SameRoom(r, s) /\ s.m = r.m /\ s.match = r.match
<1>1. s = [r EXCEPT !.open = r.open \ W, !.closing = r.closing \cup (r.open \cap W)]
  BY DEF Shut
<1>2. /\ s \in Rooms /\ s.match = r.match /\ s.m = r.m /\ s.members = r.members
      /\ s.mode = r.mode /\ s.owner = r.owner /\ s.sockets = r.sockets /\ s.plugs = r.plugs
      /\ s.open = r.open \ W /\ s.closing = r.closing \cup (r.open \cap W)
  BY <1>1 DEF Sound, Rooms
<1>3. SocketsFit(s) /\ MatchFits(s)
  BY <1>2 DEF Sound, SocketsFit, MatchFits
<1>4. \A j \in Ids : MemberFits(r, j)
  BY DEF Sound
<1>5. \A j \in Ids \ X : ToyFits(s, j)
  BY <1>2 DEF Sound, ToyFits
<1>6. Sound(s, X)
  BY <1>2, <1>3, <1>4, <1>5, Remade DEF MemberFits
<1> QED
  BY <1>2, <1>6 DEF SameRoom

\* A broadcast closes sockets at most.
LEMMA BroadcastKept ==
    ASSUME NEW r, NEW X, Sound(r, X), NEW s \in Broadcast(r)
    PROVE  Sound(s, X) /\ SameRoom(r, s) /\ s.m = r.m /\ s.match = r.match
<1>1. PICK late : s = Shut(r, {r.m[i].ws : i \in late})
  BY DEF Broadcast
<1> DEFINE W == {r.m[i].ws : i \in late}
<1>2. s = Shut(r, W)
  BY <1>1
<1> HIDE DEF W
<1> QED
  BY <1>2, ShutKept

\* A handler that broadcasts at its end leaves the room fine if it was before.
LEMMA BroadcastFine ==
    ASSUME NEW r, Fine(r), NEW s \in Broadcast(r)
    PROVE  Fine(s)
<1>1. Sound(r, {}) /\ Owned(r)
  BY DEF Fine
<1>2. Sound(s, {}) /\ SameRoom(r, s)
  BY <1>1, BroadcastKept
<1> QED
  BY <1>1, <1>2 DEF Fine, Owned, SameRoom

\* Member i's record is a.
Put(r, i, a) == [r EXCEPT !.m[i] = a]

\* One member's record is replaced by one with the same toy.
LEMMA MemberKept ==
    ASSUME NEW r, NEW X, NEW i \in Members(r), Sound(r, X \cup {i}), NEW a \in MemberType,
           a.ws <= r.sockets, a.plug = r.m[i].plug, a.talk = r.m[i].talk,
           r.mode = "direct" => a.net = NoNet,
           NEW s, s = Put(r, i, a), i \notin X => ToyFits(s, i)
    PROVE  /\ Sound(s, X) /\ SameRoom(r, s) /\ s.m[i] = a /\ s.match = r.match
           /\ \A j \in Ids \ {i} : s.m[j] = r.m[j]
           /\ s.open = r.open /\ s.closing = r.closing
<1>1. i \in Ids
  BY DEF Sound, Rooms, Members, ToSet
<1> DEFINE m == [r.m EXCEPT ![i] = a]
<1>2. m \in [Ids -> MemberType] /\ m[i] = a /\ \A j \in Ids \ {i} : m[j] = r.m[j]
  BY <1>1 DEF Sound, Rooms
<1>3. s = [r EXCEPT !.m = m]
  BY DEF Put
<1> HIDE DEF m
<1>4. /\ s \in Rooms /\ s.match = r.match /\ s.m = m /\ s.members = r.members
      /\ s.mode = r.mode /\ s.owner = r.owner /\ s.sockets = r.sockets /\ s.plugs = r.plugs
      /\ s.open = r.open /\ s.closing = r.closing
  BY <1>2, <1>3 DEF Sound, Rooms
<1>5. SocketsFit(s) /\ MatchFits(s)
  BY <1>4 DEF Sound, SocketsFit, MatchFits
<1>6. \A j \in Ids : MemberFits(r, j)
  BY DEF Sound
<1>7. /\ \A j \in Ids : s.m[j].plug = r.m[j].plug /\ s.m[j].talk = r.m[j].talk
      /\ \A j \in Ids : s.m[j].ws <= s.sockets
      /\ \A j \in Ids \ Members(r) : s.m[j] = Absent
      /\ s.mode = "direct" => \A j \in Ids : s.m[j].net = NoNet
  BY <1>2, <1>4, <1>6 DEF MemberFits
<1>8. \A j \in Ids \ X : ToyFits(s, j)
  BY <1>2, <1>4 DEF Sound, ToyFits
<1>9. Sound(s, X)
  BY <1>4, <1>5, <1>7, <1>8, Remade
<1> QED
  BY <1>2, <1>4, <1>9 DEF SameRoom

\* A member without a toy.
Bare(a) == a.plug = 0 /\ ~a.ready /\ a.net = NoNet /\ a.talk = {}

\* A member without a toy and without a seat fits.
LEMMA BareFits ==
    ASSUME NEW r, NEW i, Bare(r.m[i]), i \notin r.match.connected
    PROVE  ToyFits(r, i)
  BY DEF Bare, ToyFits, NoNet, Alive

\* Detach lets go of the toy, in a direct room of both toys: nothing is left of
\* it, and the match has heard of it.
LEMMA DetachKept ==
    ASSUME NEW r, NEW X, NEW i \in Ids, Sound(r, X \cup {i}), NEW s \in Detach(r, i)
    PROVE  /\ Sound(s, X) /\ SameRoom(r, s)
           /\ s.open = r.open /\ s.closing = r.closing
           /\ i \notin s.match.connected /\ Bare(s.m[i])
           /\ \A j \in Ids : s.m[j].ws = r.m[j].ws
           /\ \A j \in Ids : Bare(r.m[j]) => Bare(s.m[j])
           /\ r.mode = "hosted" => \A j \in Ids \ {i} : s.m[j] = r.m[j]
<1> DEFINE gone == {i} \cup IF r.mode = "direct" /\ r.m[i].plug # 0 THEN Members(r) ELSE {}
           off(a) == [a EXCEPT !.plug = 0, !.ready = FALSE, !.net = NoNet, !.talk = {}]
           m == [j \in Ids |-> IF j \in gone THEN off(r.m[j]) ELSE r.m[j]]
           q == [r EXCEPT !.m = m]
<1>1. s \in Lose(q, i)
  <2>1. m = [j \in Ids |-> IF j \in gone THEN off(r.m[j]) ELSE r.m[j]]
    OBVIOUS
  <2> QED
    BY DEF Detach
<1>2. /\ i \in gone /\ (r.mode = "hosted" => gone = {i})
      /\ r.mode = "direct" /\ r.m[i].plug # 0 => Members(r) \subseteq gone
  OBVIOUS
<1>3. NoNet \in NetType
  BY DEF NoNet, NetType
<1>4. ASSUME NEW j \in Ids
      PROVE  /\ off(r.m[j]) \in MemberType /\ Bare(off(r.m[j]))
             /\ off(r.m[j]).ws = r.m[j].ws
             /\ r.m[j] = Absent => off(r.m[j]) = Absent
  <2>1. r.m[j] \in MemberType
    BY DEF Sound, Rooms
  <2>2. off(r.m[j]) \in MemberType /\ Bare(off(r.m[j])) /\ off(r.m[j]).ws = r.m[j].ws
    BY <1>3, <2>1 DEF MemberType, Bare
  <2>3. off(Absent) = Absent
    <3>1. Absent \in MemberType
      BY <1>3, RoomAssumption DEF Absent, MemberType
    <3>2. off(Absent) \in MemberType
      BY <1>3, <3>1 DEF MemberType
    <3>3. /\ off(Absent).ws = Absent.ws /\ off(Absent).plug = Absent.plug
          /\ off(Absent).ready = Absent.ready /\ off(Absent).net = Absent.net
          /\ off(Absent).lobbyCount = Absent.lobbyCount
          /\ off(Absent).expires = Absent.expires /\ off(Absent).talk = Absent.talk
      BY <3>1 DEF Absent
    <3> HIDE DEF off
    <3> QED
      BY <3>1, <3>2, <3>3 DEF MemberType
  <2> QED
    BY <2>2, <2>3
<1>5. /\ m \in [Ids -> MemberType]
      /\ \A j \in Ids : m[j].ws = r.m[j].ws /\ (r.m[j] = Absent => m[j] = Absent)
      /\ \A j \in gone \cap Ids : Bare(m[j])
      /\ \A j \in Ids \ gone : m[j] = r.m[j]
  <2>1. \A j \in Ids : r.m[j] \in MemberType
    BY DEF Sound, Rooms
  <2> HIDE DEF off, gone
  <2> QED
    BY <1>4, <2>1
<1> HIDE DEF m, gone, off
<1>6. /\ q \in Rooms /\ q.match = r.match /\ q.m = m /\ q.members = r.members
      /\ q.mode = r.mode /\ q.owner = r.owner /\ q.sockets = r.sockets /\ q.plugs = r.plugs
      /\ q.open = r.open /\ q.closing = r.closing
  BY <1>5 DEF Sound, Rooms
<1>7. Members(q) = Members(r) /\ Capacity(q) = Capacity(r) /\ Members(r) \subseteq Ids
  BY <1>6 DEF Members, Capacity, Sound, Rooms, ToSet
<1> HIDE DEF q
<1>8. Listed(q) /\ SocketsFit(q) /\ MatchFits(q)
  BY <1>6, <1>7 DEF Sound, Listed, SocketsFit, MatchFits
<1>9. \A j \in Ids : m[j].plug \in {0, r.m[j].plug} /\ m[j].talk \in {{}, r.m[j].talk}
  BY <1>5 DEF Bare
<1>10. ASSUME NEW j \in Ids PROVE MemberFits(q, j)
  <2>1. MemberFits(r, j) /\ r.plugs \in Nat
    BY DEF Sound, Rooms
  <2>2. /\ q.m[j].ws <= q.sockets /\ q.m[j].plug <= q.plugs
        /\ j \notin Members(q) => q.m[j] = Absent
    BY <1>5, <1>6, <1>7, <1>9, <2>1 DEF MemberFits
  <2>3. /\ q.mode = "direct" => q.m[j].net = NoNet
        /\ q.mode = "hosted" => q.m[j].talk = {}
        /\ 0 \notin q.m[j].talk
    BY <1>5, <1>6, <1>9, <2>1 DEF MemberFits, Bare
  <2>4. q.m[j].talk \subseteq {q.m[k].plug : k \in Members(q) \ {j}}
    <3>1. SUFFICES ASSUME NEW t \in m[j].talk
                   PROVE  \E k \in Members(r) \ {j} : t = m[k].plug
      BY <1>6, <1>7
    <3>2. t \in r.m[j].talk /\ t # 0 /\ j \notin gone /\ r.mode # "hosted"
      BY <1>5, <1>9, <2>1 DEF MemberFits, Bare
    <3>3. PICK k \in Members(r) \ {j} : t = r.m[k].plug
      BY <2>1, <3>2 DEF MemberFits
    <3>4. k \notin gone
      <4>1. j \in Members(r)
        BY <2>1, <3>2 DEF MemberFits, Absent
      <4>2. r.mode = "direct"
        BY <3>2 DEF Sound, Rooms
      <4>3. r.m[i].plug = 0
        BY <1>2, <3>2, <4>1, <4>2
      <4>4. gone = {i}
        BY <4>3 DEF gone
      <4> QED
        BY <3>2, <3>3, <4>3, <4>4
    <3> QED
      BY <1>5, <1>7, <3>3, <3>4
  <2> QED
    BY <2>2, <2>3, <2>4 DEF MemberFits
<1>11. ASSUME NEW j \in Ids \ (X \cup {i}) PROVE ToyFits(q, j)
  <2>1. CASE j \in gone
    <3>1. r.mode # "hosted"
      BY <1>2, <2>1
    <3>2. r.mode = "direct"
      BY <3>1 DEF Sound, Rooms
    <3>3. r.match.connected = {}
      BY <3>2, DirectIsEmpty
    <3> QED
      BY <1>5, <1>6, <2>1, <3>3, BareFits
  <2>2. CASE j \notin gone
    <3>1. ToyFits(r, j)
      BY DEF Sound
    <3> QED
      BY <1>5, <1>6, <2>2, <3>1 DEF ToyFits
  <2> QED
    BY <2>1, <2>2
<1>12. Sound(q, X \cup {i})
  BY <1>6, <1>8, <1>10, <1>11 DEF Sound
<1>13. /\ Sound(s, X \cup {i}) /\ SameRoom(q, s) /\ s.m = q.m /\ i \notin s.match.connected
       /\ s.open = q.open /\ s.closing = q.closing
  BY <1>1, <1>12, LoseKept
<1>14. Bare(s.m[i])
  BY <1>2, <1>5, <1>6, <1>13
<1>15. Sound(s, X)
  BY <1>13, <1>14, BareFits DEF Sound
<1>16. \A j \in Ids : Bare(r.m[j]) => Bare(s.m[j])
  BY <1>5, <1>6, <1>13
<1>17. r.mode = "hosted" => \A j \in Ids \ {i} : s.m[j] = r.m[j]
  BY <1>2, <1>5, <1>6, <1>13
<1> QED
  BY <1>5, <1>6, <1>13, <1>14, <1>15, <1>16, <1>17 DEF SameRoom

\* A room that gets another owner, or is closed, is sound.
LEMMA OwnerFine ==
    ASSUME NEW r, Sound(r, {})
    PROVE  Fine(Owner(r)) /\ Owner(r).members = r.members
<1> DEFINE s == Owner(r)
<1>1. /\ r \in Rooms /\ r.members \in Seq(Ids) /\ r.owner \in Ids \cup {None}
      /\ Members(r) \subseteq Ids
  BY DEF Sound, Rooms, Members, ToSet
<1>2. CASE r.members = <<>>
  <2>1. s = [r EXCEPT !.owner = None, !.match = NoMatch]
    BY <1>2 DEF Owner
  <2>2. NoMatch \in MatchType
    BY DEF NoMatch, MatchType
  <2>3. /\ s \in Rooms /\ s.match = NoMatch /\ s.m = r.m /\ s.members = r.members
        /\ s.mode = r.mode /\ s.owner = None /\ s.sockets = r.sockets /\ s.plugs = r.plugs
        /\ s.open = r.open /\ s.closing = r.closing
    BY <1>1, <2>1, <2>2 DEF Rooms
  <2>4. SocketsFit(s) /\ MatchFits(s)
    BY <2>3 DEF Sound, SocketsFit, MatchFits, NoMatch
  <2>5. \A i \in Ids : MemberFits(r, i)
    BY DEF Sound
  <2>6. Members(r) = {}
    BY <1>2 DEF Members, ToSet
  <2>7. ASSUME NEW i \in Ids PROVE ToyFits(s, i)
    <3>2. r.m[i] = Absent
      BY <2>5, <2>6 DEF MemberFits
    <3>3. Bare(s.m[i]) /\ s.match.connected = {}
      BY <2>3, <3>2 DEF Absent, Bare, NoMatch
    <3> QED
      BY <3>3, BareFits
  <2>8. Sound(s, {})
    <3> HIDE DEF s
    <3> QED
      BY <2>3, <2>4, <2>5, <2>7, Remade DEF MemberFits
  <2> QED
    BY <1>2, <2>3, <2>8 DEF Fine, Owned
<1>3. CASE r.members # <<>>
  <2>1. PICK o \in Ids : s.owner = o /\ s = [r EXCEPT !.owner = o]
    <3>1. CASE r.owner \in Members(r) /\ r.m[r.owner].ws # 0
      <4>1. s = r
        BY <1>3, <3>1 DEF Owner
      <4>2. r = [r EXCEPT !.owner = r.owner]
        BY <1>1 DEF Rooms
      <4> QED
        BY <1>1, <3>1, <4>1, <4>2
    <3>2. CASE ~(r.owner \in Members(r) /\ r.m[r.owner].ws # 0)
      <4> DEFINE first == SelectInSeq(r.members, LAMBDA i : r.m[i].ws # 0)
                 I == {k \in 1..Len(r.members) : r.m[r.members[k]].ws # 0}
                 o == r.members[IF first = 0 THEN 1 ELSE first]
      <4>1. s = [r EXCEPT !.owner = o]
        BY <1>3, <3>2 DEF Owner
      <4>2. first = IF I # {} THEN Min(I) ELSE 0
        BY DEF SelectInSeq
      <4>3. I # {} => Min(I) \in I
        <5>1. SUFFICES ASSUME I # {} PROVE Min(I) \in I
          OBVIOUS
        <5>2. I \in SUBSET Nat
          BY <1>1
        <5> HIDE DEF I
        <5>3. \E n \in I : \A k \in I : n <= k
          BY <5>1, <5>2, Least
        <5> QED
          BY <5>3 DEF Min
      <4>4. first = 0 \/ first \in 1..Len(r.members)
        BY <4>2, <4>3
      <4> HIDE DEF first
      <4>5. o \in Ids
        BY <1>1, <1>3, <4>4
      <4> HIDE DEF o
      <4>6. s.owner = o
        BY <1>1, <4>1 DEF Rooms
      <4> QED
        BY <4>1, <4>5, <4>6
    <3> QED
      BY <3>1, <3>2
  <2> HIDE DEF s
  <2>3. /\ s \in Rooms /\ s.match = r.match /\ s.m = r.m /\ s.members = r.members
        /\ s.mode = r.mode /\ s.sockets = r.sockets /\ s.plugs = r.plugs
        /\ s.open = r.open /\ s.closing = r.closing
    BY <1>1, <2>1 DEF Rooms
  <2>4. SocketsFit(s) /\ MatchFits(s)
    BY <2>3 DEF Sound, SocketsFit, MatchFits
  <2>5. \A i \in Ids : MemberFits(r, i)
    BY DEF Sound
  <2>6. \A i \in Ids : ToyFits(s, i)
    BY <2>3 DEF Sound, ToyFits
  <2>7. Sound(s, {})
    BY <2>3, <2>4, <2>5, <2>6, Remade DEF MemberFits
  <2>8. s.owner # None
    BY <2>1, RoomAssumption
  <2>9. Fine(s) /\ s.members = r.members
    BY <1>3, <2>3, <2>7, <2>8 DEF Fine, Owned
  <2> QED
    BY <2>9 DEF s
<1> QED
  BY <1>2, <1>3

\* A member without a toy and without a seat can be taken off the list.
LEMMA WithoutKept ==
    ASSUME NEW r, Sound(r, {}), NEW i \in Ids, Bare(r.m[i]), i \notin r.match.connected
    PROVE  Sound(Without(r, i), {}) /\ Members(Without(r, i)) \subseteq Members(r)
<1> DEFINE new == RemoveFirst(r.members, i)
           m == [r.m EXCEPT ![i] = Absent]
           q == [r EXCEPT !.members = new, !.m = m]
<1>1. Without(r, i) = Shut(q, {r.m[i].ws})
  BY DEF Without
<1>2. Absent \in MemberType
  BY RoomAssumption DEF Absent, MemberType, NoNet, NetType
<1>3. m \in [Ids -> MemberType] /\ m[i] = Absent /\ \A j \in Ids \ {i} : m[j] = r.m[j]
  BY <1>2 DEF Sound, Rooms
<1>4. /\ r.members \in Seq(Ids)
      /\ \A a, b \in 1..Len(r.members) : r.members[a] = r.members[b] => a = b
  BY DEF Sound, Rooms, Listed
<1>5. /\ new \in Seq(Ids) /\ Len(new) <= Len(r.members)
      /\ ToSet(new) = ToSet(r.members) \ {i}
      /\ \A a, b \in 1..Len(new) : new[a] = new[b] => a = b
  BY <1>4, Removed, SMTT(30)
<1> HIDE DEF m, new
<1>6. /\ q \in Rooms /\ q.match = r.match /\ q.m = m /\ q.members = new
      /\ q.mode = r.mode /\ q.sockets = r.sockets /\ q.plugs = r.plugs
      /\ q.open = r.open /\ q.closing = r.closing
  BY <1>3, <1>5 DEF Sound, Rooms
<1> HIDE DEF q
<1>7. Members(q) = Members(r) \ {i} /\ Capacity(q) = Capacity(r) /\ Members(r) \subseteq Ids
  <2>1. Members(q) = Members(r) \ {i} /\ Capacity(q) = Capacity(r)
    BY <1>5, <1>6 DEF Members, Capacity
  <2>2. Members(r) \subseteq Ids
    BY <1>4 DEF Members, ToSet
  <2> QED
    BY <2>1, <2>2
<1>8. Listed(q)
  <2>1. Len(r.members) \in Nat /\ Len(new) \in Nat /\ Capacity(r) \in Nat
    BY <1>4, <1>5 DEF Capacity
  <2> QED
    BY <1>5, <1>6, <1>7, <2>1 DEF Sound, Listed
<1>9. SocketsFit(q) /\ MatchFits(q)
  BY <1>6 DEF Sound, SocketsFit, MatchFits
<1>10. ASSUME NEW j \in Ids PROVE MemberFits(q, j)
  <2>1. CASE j = i
    BY <1>3, <1>6, <1>7, <2>1 DEF Sound, Rooms, MemberFits, Absent
  <2>2. CASE j # i
    <3>1. MemberFits(r, j)
      BY DEF Sound
    <3>2. q.m[j].talk \subseteq {q.m[k].plug : k \in Members(q) \ {j}}
      <4>1. SUFFICES ASSUME NEW t \in r.m[j].talk
                     PROVE  \E k \in Members(r) \ {i, j} : t = m[k].plug
        BY <1>3, <1>6, <1>7, <2>2
      <4>2. PICK k \in Members(r) \ {j} : t = r.m[k].plug
        BY <3>1 DEF MemberFits
      <4>3. k # i
        BY <3>1, <4>2 DEF MemberFits, Bare
      <4> QED
        BY <1>3, <1>7, <4>2, <4>3
    <3> QED
      BY <1>3, <1>6, <1>7, <2>2, <3>1, <3>2 DEF MemberFits
  <2> QED
    BY <2>1, <2>2
<1>11. ASSUME NEW j \in Ids PROVE ToyFits(q, j)
  <2>1. CASE j = i
    BY <1>3, <1>6, <2>1, BareFits DEF Bare, Absent
  <2>2. CASE j # i
    BY <1>3, <1>6, <2>2 DEF Sound, ToyFits
  <2> QED
    BY <2>1, <2>2
<1>12. Sound(q, {})
  BY <1>6, <1>8, <1>9, <1>10, <1>11 DEF Sound
<1> DEFINE W == {r.m[i].ws}
<1>13. Without(r, i) = Shut(q, W)
  BY <1>1
<1> HIDE DEF W
<1>14. Sound(Without(r, i), {}) /\ SameRoom(q, Without(r, i))
  BY <1>12, <1>13, ShutKept
<1> QED
  BY <1>7, <1>14 DEF SameRoom, Members

\* Leaving leaves a fine room behind.
LEMMA LeaveFine ==
    ASSUME NEW r, Fine(r), NEW i \in Ids, NEW s \in LeaveRoom(r, i)
    PROVE  Fine(s) /\ Members(s) \subseteq Members(r)
<1>1. PICK d \in Detach(r, i) : s \in Broadcast(Owner(Without(d, i)))
  BY DEF LeaveRoom, Each
<1>2. Sound(r, {} \cup {i})
  BY DEF Fine, Sound
<1>3. /\ Sound(d, {}) /\ SameRoom(r, d) /\ i \notin d.match.connected
      /\ Bare(d.m[i])
  BY <1>1, <1>2, DetachKept
<1> DEFINE w == Without(d, i)
           o == Owner(w)
<1>4. Sound(w, {}) /\ Members(w) \subseteq Members(d)
  BY <1>3, WithoutKept
<1>5. Fine(o) /\ o.members = w.members
  BY <1>4, OwnerFine
<1>6. s \in Broadcast(o)
  BY <1>1
<1> HIDE DEF o, w
<1>7. SameRoom(o, s)
  BY <1>5, <1>6, BroadcastKept DEF Fine
<1> QED
  BY <1>3, <1>4, <1>5, <1>6, <1>7, BroadcastFine DEF SameRoom, Members

\* Those whose reservation ran out leave one after the other.
LEMMA SweepFine ==
    ASSUME NEW r, Fine(r), NEW s \in Sweep(r)
    PROVE  Fine(s) /\ Members(s) \subseteq Members(r)
<1> DEFINE seq == r.members
           n == Len(seq)
           Step(t, i) == IF t.m[i].ws = 0 /\ t.m[i].expires = 0 THEN LeaveRoom(t, i) ELSE {t}
           Go(k, S) == Each(S, LAMBDA t : Step(t, seq[k]))
           Ev(a) == [k \in 0..n |-> IF k = 0 THEN {r} ELSE Go(k, a[k - 1])]
           after == CHOOSE a : a = Ev(a)
           U == SUBSET {t \in Rooms : Fine(t) /\ Members(t) \subseteq Members(r)}
           first == {r}
           step == [k \in 1..n |-> [S \in U |-> Go(k, S)]]
<1>1. n \in Nat /\ \A k \in 1..n : seq[k] \in Ids
  BY DEF Fine, Sound, Rooms
<1>2. Sweep(r) = after[n]
  BY DEF Sweep, InTurn
<1>3. ASSUME NEW k \in 1..n, NEW S \in U PROVE Go(k, S) \in U
  <2> SUFFICES ASSUME NEW t \in Go(k, S) PROVE t \in Rooms /\ Fine(t) /\ Members(t) \subseteq Members(r)
    OBVIOUS
  <2>1. PICK u \in S : t \in Step(u, seq[k])
    BY DEF Each
  <2>2. Fine(u) /\ u \in Rooms /\ seq[k] \in Ids /\ Members(u) \subseteq Members(r)
    BY <1>1
  <2>3. Fine(t) /\ Members(t) \subseteq Members(u)
    BY <2>1, <2>2, LeaveFine
  <2> QED
    BY <2>2, <2>3 DEF Fine, Sound
<1> HIDE DEF Step, Go, after
<1>4. first \in U
  BY DEF Fine, Sound
<1>5. step \in [1..n -> [U -> U]]
  BY <1>3
<1> HIDE DEF U, first, step
<1>6. PICK h : Lists(h, n, U, first, step)
  <2>1. Steps(n, U, first, step)
    BY <1>1, <1>4, <1>5 DEF Steps
  <2> QED
    BY <2>1, Iterated
<1>7. h = Ev(h)
  <2>1. ASSUME NEW k \in 1..n PROVE h[k] = Go(k, h[k - 1])
    <3>1. k - 1 \in 0..n
      BY <1>1
    <3>2. h[k - 1] \in U /\ h[k] = step[k][h[k - 1]]
      BY <1>6, <3>1 DEF Lists
    <3> QED
      BY <3>2 DEF step
  <2> QED
    BY <1>1, <1>6, <2>1 DEF first, Lists
<1>8. after = Ev(after)
  BY <1>7 DEF after
<1> DEFINE F == {k \in 0..n : after[k] \in U}
<1>9. 0 \in F
  BY <1>1, <1>4, <1>8 DEF first
<1>10. ASSUME NEW k \in 1..n, k - 1 \in F PROVE k \in F
  <2>1. k \in 0..n /\ k # 0
    BY <1>1
  <2>2. after[k] = Go(k, after[k - 1])
    BY <1>8, <2>1
  <2> QED
    BY <1>3, <1>10, <2>1, <2>2
<1>11. n \in F
  <2> HIDE DEF F
  <2> QED
    BY <1>1, <1>9, <1>10, Climb
<1> QED
  BY <1>2, <1>11 DEF U

-----------------------------------------------------------------------------
(* The timer                                                                *)

\* Who is connected is a member and has a toy; so has who is ready.
LEMMA AliveIsMember ==
    ASSUME NEW r, NEW X, Sound(r, X), NEW i \in Ids, Alive(r.m[i].net) \/ r.m[i].ws # 0
    PROVE  /\ i \in Members(r) /\ r.m[i] \in MemberType /\ r.m[i].net \in NetType
           /\ MemberFits(r, i)
<1>1. MemberFits(r, i) /\ r.m[i] \in MemberType
  BY DEF Sound, Rooms
<1>2. i \in Members(r)
  BY <1>1 DEF MemberFits, Absent, NoNet, Alive
<1> QED
  BY <1>1, <1>2 DEF MemberType

\* The record with another session state, readiness and count.
Netted(a, net, ready, count) ==
    [a EXCEPT !.net = net, !.ready = ready, !.lobbyCount = count]

\* Member i of the room r has its live session replaced by net, in a handler
\* that is busy with the toys of X.
Resessioned(r, X, i, net, ready, count, a, s) ==
    /\ i \in Ids /\ Sound(r, X \cup {i}) /\ Alive(r.m[i].net)
    /\ net \in NetType /\ ready \in BOOLEAN /\ count \in Nat
    /\ a = Netted(r.m[i], net, ready, count) /\ s = Put(r, i, a)
    /\ i \notin X => ToyFits(s, i)

\* The room is sound if the new session and the member's other fields agree.
LEMMA NetKept ==
    ASSUME NEW r, NEW X, NEW i, NEW net, NEW ready, NEW count, NEW a, NEW s,
           Resessioned(r, X, i, net, ready, count, a, s)
    PROVE  Sound(s, X) /\ SameRoom(r, s) /\ s.m[i] = a /\ s.match = r.match
<1>0. /\ i \in Ids /\ Sound(r, X \cup {i}) /\ Alive(r.m[i].net)
      /\ net \in NetType /\ ready \in BOOLEAN /\ count \in Nat
      /\ a = Netted(r.m[i], net, ready, count) /\ s = Put(r, i, a)
      /\ i \notin X => ToyFits(s, i)
  BY DEF Resessioned
<1>1. /\ i \in Members(r) /\ r.m[i] \in MemberType /\ r.m[i].net \in NetType
      /\ MemberFits(r, i)
  BY <1>0, AliveIsMember
<1>2. a \in MemberType /\ a.ws = r.m[i].ws /\ a.plug = r.m[i].plug /\ a.talk = r.m[i].talk
  BY <1>0, <1>1 DEF MemberType, Netted
<1>3. a.ws <= r.sockets /\ r.mode # "direct"
  BY <1>0, <1>1, <1>2 DEF MemberFits, Alive, NoNet
<1> QED
  BY <1>0, <1>1, <1>2, <1>3, MemberKept

\* Tet3Session.stop: the match hears of it.
LEMMA StopNetKept ==
    ASSUME NEW r, Sound(r, {}), NEW i \in Ids, NEW s \in StopNet(r, i)
    PROVE  Sound(s, {}) /\ SameRoom(r, s)
<1>1. CASE ~Alive(r.m[i].net)
  BY <1>1 DEF StopNet, SameRoom
<1>2. CASE Alive(r.m[i].net)
  <2> DEFINE net == [r.m[i].net EXCEPT !.error = TRUE, !.pending = FALSE]
             a == Netted(r.m[i], net, FALSE, r.m[i].lobbyCount)
             q == Put(r, i, a)
  <2>1. r.m[i] \in MemberType /\ r.m[i].net \in NetType
    BY <1>2, AliveIsMember
  <2>2. /\ net \in NetType /\ net.plug = r.m[i].net.plug /\ net.ws = r.m[i].net.ws
        /\ net.told = r.m[i].net.told /\ net.played = r.m[i].net.played
    BY <2>1 DEF NetType
  <2>3. s \in Lose(q, i)
    <3>1. q = [r EXCEPT !.m[i].net.error = TRUE, !.m[i].net.pending = FALSE, !.m[i].ready = FALSE]
      BY <2>1, ZenonT(40) DEF Sound, Rooms, MemberType, Put, Netted
    <3> QED
      BY <1>2, <3>1 DEF StopNet
  <2>4. Sound(r, {i} \cup {i}) /\ FALSE \in BOOLEAN /\ r.m[i].lobbyCount \in Nat
    BY <2>1 DEF Sound, MemberType
  <2>5. /\ a.net = net /\ ~a.ready /\ a.ws = r.m[i].ws /\ a.lobbyCount = r.m[i].lobbyCount
        /\ a.plug = r.m[i].plug
    BY <2>1 DEF MemberType, Netted
  <2> HIDE DEF net
  <2>6. Sound(q, {i}) /\ SameRoom(r, q) /\ q.m[i] = a /\ q.match = r.match
    <3> DEFINE X == {i}
               ready == FALSE
               count == r.m[i].lobbyCount
    <3>1. a = Netted(r.m[i], net, ready, count) /\ q = Put(r, i, a)
      OBVIOUS
    <3>2. Sound(r, X \cup {i}) /\ ready \in BOOLEAN /\ count \in Nat /\ i \in X
      BY <2>4
    <3> HIDE DEF a, q, X, ready, count
    <3>3. Resessioned(r, X, i, net, ready, count, a, q)
      BY <1>2, <2>2, <3>1, <3>2 DEF Resessioned
    <3>4. Sound(q, X) /\ SameRoom(r, q) /\ q.m[i] = a /\ q.match = r.match
      BY <3>3, NetKept
    <3> QED
      BY <3>4 DEF X
  <2> HIDE DEF a, q
  <2>7. /\ Sound(s, {i}) /\ SameRoom(q, s) /\ s.m = q.m /\ i \notin s.match.connected
        /\ s.match.roster = q.match.roster /\ s.match.session = q.match.session
    BY <2>3, <2>6, LoseKept
  <2>8. ToyFits(r, i)
    BY DEF Sound
  <2>9. ToyFits(s, i)
    BY <2>2, <2>5, <2>6, <2>7, <2>8 DEF ToyFits
  <2> QED
    BY <2>6, <2>7, <2>9 DEF Sound, SameRoom
<1> QED
  BY <1>1, <1>2

\* A session that goes on as it was, but for the messages sent.
GoesOn(a, net, count) ==
    /\ net.plug = a.net.plug /\ net.ws = a.net.ws /\ ~net.error
    /\ net.played = a.net.played /\ (a.ready => net.ready)
    /\ \/ count = net.told
       \/ count = a.lobbyCount /\ net.told = a.net.told

\* A message is put into a session that stays what it was, or is taken out.
LEMMA SessionKept ==
    ASSUME NEW r, Sound(r, {}), NEW i \in Ids, Alive(r.m[i].net), NEW net \in NetType,
           NEW count \in Nat, GoesOn(r.m[i], net, count), NEW ready, ready = r.m[i].ready,
           NEW a, a = Netted(r.m[i], net, ready, count), NEW s, s = Put(r, i, a)
    PROVE  Sound(s, {}) /\ SameRoom(r, s) /\ s.match = r.match
<1> DEFINE X == {}
<1>1. r.m[i] \in MemberType
  BY AliveIsMember
<1>2. /\ a.net = net /\ a.ready = ready /\ a.ws = r.m[i].ws /\ a.lobbyCount = count
      /\ a.plug = r.m[i].plug
  BY <1>1 DEF MemberType, Netted
<1>3. s.m[i] = a /\ s.match = r.match
  BY DEF Put, Sound, Rooms
<1>4. Sound(r, X \cup {i}) /\ ToyFits(r, i) /\ ready \in BOOLEAN
  BY <1>1 DEF Sound, MemberType
<1>5. ToyFits(s, i)
  <2>1. /\ s.m[i].net = net /\ s.m[i].ready = r.m[i].ready /\ s.m[i].ws = r.m[i].ws
        /\ s.m[i].lobbyCount = count /\ s.m[i].plug = r.m[i].plug
    BY <1>2, <1>3
  <2>2. Alive(net) /\ net.plug = r.m[i].net.plug /\ net.ws = r.m[i].net.ws
    BY DEF Alive, GoesOn
  <2>3. net.played = r.m[i].net.played /\ (r.m[i].ready => net.ready)
        /\ (r.m[i].lobbyCount = r.m[i].net.told => count = net.told)
    BY DEF GoesOn
  <2> QED
    BY <1>3, <1>4, <2>1, <2>2, <2>3 DEF ToyFits
<1> HIDE DEF X
<1>6. Resessioned(r, X, i, net, ready, count, a, s)
  BY <1>4, <1>5 DEF Resessioned
<1>7. Sound(s, X) /\ SameRoom(r, s)
  BY <1>6, NetKept
<1> QED
  BY <1>3, <1>7 DEF X

\* A message is waiting in the session, or no longer.
LEMMA PendingKept ==
    ASSUME NEW r, Sound(r, {}), NEW i \in Ids, Alive(r.m[i].net), NEW on \in BOOLEAN,
           NEW s, s = [r EXCEPT !.m[i].net.pending = on]
    PROVE  Sound(s, {}) /\ SameRoom(r, s) /\ s.match = r.match
<1> DEFINE net == [r.m[i].net EXCEPT !.pending = on]
           count == r.m[i].lobbyCount
           a == Netted(r.m[i], net, r.m[i].ready, count)
<1>1. r.m[i] \in MemberType /\ r.m[i].net \in NetType
  BY AliveIsMember
<1>2. /\ net \in NetType /\ net.plug = r.m[i].net.plug /\ net.ws = r.m[i].net.ws
      /\ net.told = r.m[i].net.told /\ net.played = r.m[i].net.played
      /\ net.ready = r.m[i].net.ready /\ net.error = r.m[i].net.error
      /\ count \in Nat /\ count = r.m[i].lobbyCount
  BY <1>1 DEF NetType, MemberType
<1>3. s = Put(r, i, a)
  BY <1>1 DEF Sound, Rooms, MemberType, Put, Netted
<1>4. a = Netted(r.m[i], net, r.m[i].ready, count)
  OBVIOUS
<1>5. GoesOn(r.m[i], net, count)
  <2> HIDE DEF net
  <2> QED
    BY <1>2 DEF Sound, ToyFits, Alive, GoesOn
<1> HIDE DEF net, count, a
<1> QED
  BY <1>2, <1>3, <1>4, <1>5, SessionKept

\* The toy is sent the number of members.
LEMMA CountKept ==
    ASSUME NEW r, Sound(r, {}), NEW i \in Ids, Alive(r.m[i].net), NEW n \in Nat,
           NEW s, s = [r EXCEPT !.m[i] = [@ EXCEPT !.net.pending = TRUE, !.net.told = n,
                                                   !.lobbyCount = n]]
    PROVE  /\ Sound(s, {}) /\ SameRoom(r, s) /\ s.match = r.match
           /\ Alive(s.m[i].net)
<1> DEFINE net == [r.m[i].net EXCEPT !.pending = TRUE, !.told = n]
           a == Netted(r.m[i], net, r.m[i].ready, n)
<1>1. r.m[i] \in MemberType /\ r.m[i].net \in NetType
  BY AliveIsMember
<1>2. /\ net \in NetType /\ net.plug = r.m[i].net.plug /\ net.ws = r.m[i].net.ws
      /\ net.told = n /\ net.played = r.m[i].net.played
      /\ net.ready = r.m[i].net.ready /\ net.error = r.m[i].net.error
  BY <1>1 DEF NetType, MemberType
<1>3. s = Put(r, i, a)
  <2>1. [r.m[i] EXCEPT !.net.pending = TRUE, !.net.told = n, !.lobbyCount = n] = a
    BY <1>1 DEF MemberType, Netted
  <2> QED
    BY <2>1 DEF Put
<1>4. a = Netted(r.m[i], net, r.m[i].ready, n) /\ a.net = net
  BY <1>1 DEF Netted, MemberType
<1>5. GoesOn(r.m[i], net, n)
  <2> HIDE DEF net
  <2> QED
    BY <1>2 DEF Sound, ToyFits, Alive, GoesOn
<1> HIDE DEF net, a
<1>6. Sound(s, {}) /\ SameRoom(r, s) /\ s.match = r.match
  BY <1>2, <1>3, <1>4, <1>5, SessionKept
<1>7. s.m[i].net = net
  BY <1>3, <1>4 DEF Put, Sound, Rooms
<1> QED
  BY <1>2, <1>5, <1>6, <1>7 DEF Alive, GoesOn

\* The look at one member's session.
LEMMA PollKept ==
    ASSUME NEW r, Sound(r, {}), NEW i \in Ids, NEW s \in Poll(r, i)
    PROVE  Sound(s, {}) /\ SameRoom(r, s)
<1> DEFINE net == r.m[i].net
           n == Len(r.members)
           news == r.match = NoMatch /\ Alive(net) /\ net.ready /\ r.m[i].lobbyCount # n
           told == [r EXCEPT !.m[i] = [@ EXCEPT !.net.pending = TRUE, !.net.told = n,
                                                !.lobbyCount = n]]
           counted == (IF news THEN {told} ELSE {r}) \cup (IF news /\ net.pending THEN {r} ELSE {})
           busy == {[t EXCEPT !.m[i].net.pending = TRUE] : t \in {t \in counted : net.ready /\ Alive(net)}}
<1>1. s \in counted \cup busy \cup (IF i \in Slow THEN Each(counted, LAMBDA t : StopNet(t, i)) ELSE {})
  BY DEF Poll
<1>2. n \in Nat
  BY DEF Sound, Rooms
<1>3. ASSUME NEW t \in counted
      PROVE  Sound(t, {}) /\ SameRoom(r, t) /\ (Alive(net) => Alive(t.m[i].net))
  <2>1. CASE t = r
    BY <2>1 DEF SameRoom
  <2>2. CASE news /\ t = told
    BY <1>2, <2>2, CountKept
  <2> QED
    BY <2>1, <2>2
<1>4. CASE s \in counted
  BY <1>3, <1>4
<1>5. CASE s \in busy
  <2>1. PICK t \in counted : Alive(net) /\ s = [t EXCEPT !.m[i].net.pending = TRUE]
    BY <1>5
  <2>2. Sound(t, {}) /\ SameRoom(r, t) /\ Alive(t.m[i].net) /\ TRUE \in BOOLEAN
    BY <1>3, <2>1
  <2>3. Sound(s, {}) /\ SameRoom(t, s)
    BY <2>1, <2>2, PendingKept
  <2> QED
    BY <2>2, <2>3 DEF SameRoom
<1>6. CASE s \in Each(counted, LAMBDA t : StopNet(t, i))
  <2>1. PICK t \in counted : s \in StopNet(t, i)
    BY <1>6 DEF Each
  <2>2. Sound(t, {}) /\ SameRoom(r, t)
    BY <1>3
  <2>3. Sound(s, {}) /\ SameRoom(t, s)
    BY <2>1, <2>2, StopNetKept
  <2> QED
    BY <2>2, <2>3 DEF SameRoom
<1> QED
  BY <1>1, <1>4, <1>5, <1>6

\* The timer's look at one member.
LEMMA VisitKept ==
    ASSUME NEW r, Sound(r, {}), NEW i \in Ids, NEW s \in Visit(r, i)
    PROVE  Sound(s, {}) /\ SameRoom(r, s)
<1>1. PICK t \in StopLost(r, i) :
        s \in Poll(t, i) \/ s \in {Shut(u, {u.m[i].ws}) : u \in {t}}
  BY DEF Visit, Each
<1>2. Sound(t, {}) /\ SameRoom(r, t)
  BY <1>1, StopNetKept DEF StopLost, SameRoom
<1>3. Sound(s, {}) /\ SameRoom(t, s)
  <2>1. CASE s \in Poll(t, i)
    BY <1>2, <2>1, PollKept
  <2>2. CASE s = Shut(t, {t.m[i].ws})
    <3> DEFINE W == {t.m[i].ws}
    <3>1. s = Shut(t, W)
      BY <2>2
    <3> HIDE DEF W
    <3> QED
      BY <1>2, <3>1, ShutKept
  <2> QED
    BY <1>1, <2>1, <2>2
<1> QED
  BY <1>2, <1>3 DEF SameRoom

\* The timer looks at one member after the other.
LEMMA VisitsFine ==
    ASSUME NEW r, Fine(r), NEW s \in InTurn(r, r.members, Visit)
    PROVE  Fine(s)
<1> DEFINE seq == r.members
           n == Len(seq)
           Go(k, S) == Each(S, LAMBDA t : Visit(t, seq[k]))
           Ev(a) == [k \in 0..n |-> IF k = 0 THEN {r} ELSE Go(k, a[k - 1])]
           after == CHOOSE a : a = Ev(a)
           U == SUBSET {t \in Rooms : Fine(t)}
           first == {r}
           step == [k \in 1..n |-> [S \in U |-> Go(k, S)]]
<1>1. n \in Nat /\ \A k \in 1..n : seq[k] \in Ids
  BY DEF Fine, Sound, Rooms
<1>2. InTurn(r, r.members, Visit) = after[n]
  BY DEF InTurn
<1>3. ASSUME NEW k \in 1..n, NEW S \in U PROVE Go(k, S) \in U
  <2> SUFFICES ASSUME NEW t \in Go(k, S) PROVE t \in Rooms /\ Fine(t)
    OBVIOUS
  <2>1. PICK u \in S : t \in Visit(u, seq[k])
    BY DEF Each
  <2>2. Sound(u, {}) /\ Owned(u) /\ seq[k] \in Ids
    BY <1>1 DEF Fine
  <2>3. Sound(t, {}) /\ SameRoom(u, t)
    BY <2>1, <2>2, VisitKept
  <2> QED
    BY <2>2, <2>3 DEF Fine, Sound, Owned, SameRoom
<1> HIDE DEF Go, after
<1>4. first \in U
  BY DEF Fine, Sound
<1>5. step \in [1..n -> [U -> U]]
  BY <1>3
<1> HIDE DEF U, first, step
<1>6. PICK h : Lists(h, n, U, first, step)
  <2>1. Steps(n, U, first, step)
    BY <1>1, <1>4, <1>5 DEF Steps
  <2> QED
    BY <2>1, Iterated
<1>7. h = Ev(h)
  <2>1. ASSUME NEW k \in 1..n PROVE h[k] = Go(k, h[k - 1])
    <3>1. k - 1 \in 0..n
      BY <1>1
    <3>2. h[k - 1] \in U /\ h[k] = step[k][h[k - 1]]
      BY <1>6, <3>1 DEF Lists
    <3> QED
      BY <3>2 DEF step
  <2> QED
    BY <1>1, <1>6, <2>1 DEF first, Lists
<1>8. after = Ev(after)
  BY <1>7 DEF after
<1> DEFINE F == {k \in 0..n : after[k] \in U}
<1>9. 0 \in F
  BY <1>1, <1>4, <1>8 DEF first
<1>10. ASSUME NEW k \in 1..n, k - 1 \in F PROVE k \in F
  <2>1. k \in 0..n /\ k # 0
    BY <1>1
  <2>2. after[k] = Go(k, after[k - 1])
    BY <1>8, <2>1
  <2> QED
    BY <1>3, <1>10, <2>1, <2>2
<1>11. n \in F
  <2> HIDE DEF F
  <2> QED
    BY <1>1, <1>9, <1>10, Climb
<1> QED
  BY <1>2, <1>11 DEF U

\* HostedMatch.tick loses seats at most.
LEMMA MatchTickedFine ==
    ASSUME NEW r, Fine(r), r.match # NoMatch, NEW s \in MatchTicked(r)
    PROVE  Fine(s)
<1> DEFINE mt == r.match
<1>1. mt \in MatchType /\ mt.unsent \subseteq mt.connected /\ r.mode # "direct" /\ Sound(r, {})
  BY DEF Fine, Sound, Rooms, MatchFits
<1>2. PICK n : s = [r EXCEPT !.match = n] /\
                \/ n = mt
                \/ \E C \in SUBSET mt.connected : n = Played(mt, C)
                \/ n = After(mt, "preparing", mt.connected)
                \/ n = [mt EXCEPT !.phase = "results"]
                \/ \E C \in SUBSET mt.connected : n = After(mt, "aborted", C)
  BY DEF MatchTicked
<1>3. "preparing" \in Phases /\ "aborted" \in Phases /\ "results" \in Phases
  BY DEF Phases
<1>4. Loses(mt, n)
  <2>1. CASE n = mt
    BY <1>1, <2>1 DEF Loses
  <2>2. CASE \E C \in SUBSET mt.connected : n = Played(mt, C)
    BY <1>1, <2>2, PlayedLoses
  <2>3. CASE n = After(mt, "preparing", mt.connected)
    BY <1>1, <1>3, <2>3, AfterLoses
  <2>4. CASE n = [mt EXCEPT !.phase = "results"]
    BY <1>1, <1>3, <2>4 DEF Loses, MatchType
  <2>5. CASE \E C \in SUBSET mt.connected : n = After(mt, "aborted", C)
    BY <1>1, <1>3, <2>5, AfterLoses
  <2> QED
    BY <1>2, <2>1, <2>2, <2>3, <2>4, <2>5
<1>5. Sound(s, {})
  BY <1>1, <1>2, <1>4, MatchKept
<1>6. s.owner = r.owner /\ s.members = r.members
  BY <1>1, <1>2 DEF Sound, Rooms
<1> QED
  BY <1>5, <1>6 DEF Fine, Owned

\* HostedMatch.flush puts messages into the sessions of seats that are there.
LEMMA FlushedFine ==
    ASSUME NEW r, Fine(r), NEW s \in Flushed(r)
    PROVE  Fine(s)
<1>1. PICK F \in SUBSET r.match.unsent :
        s = [r EXCEPT !.match.unsent = @ \ F,
                      !.m = [i \in Ids |-> IF i \in F THEN [@[i] EXCEPT !.net.pending = TRUE]
                                           ELSE @[i]]]
  BY DEF Flushed
<1>2. /\ r \in Rooms /\ r.match \in MatchType /\ r.m \in [Ids -> MemberType]
      /\ r.match.unsent \subseteq r.match.connected
      /\ \A i \in Ids : MemberFits(r, i) /\ ToyFits(r, i)
  BY DEF Fine, Sound, Rooms, MatchFits
<1> DEFINE up(a) == [a EXCEPT !.net.pending = TRUE]
           m == [i \in Ids |-> IF i \in F THEN up(r.m[i]) ELSE r.m[i]]
           mt == [r.match EXCEPT !.unsent = r.match.unsent \ F]
<1>3. ASSUME NEW a \in MemberType
      PROVE  /\ up(a) \in MemberType /\ up(a).ws = a.ws /\ up(a).plug = a.plug
             /\ up(a).talk = a.talk /\ up(a).ready = a.ready /\ up(a).lobbyCount = a.lobbyCount
             /\ up(a).net.plug = a.net.plug /\ up(a).net.ws = a.net.ws
             /\ up(a).net.ready = a.net.ready /\ up(a).net.error = a.net.error
             /\ up(a).net.told = a.net.told /\ up(a).net.played = a.net.played
  <2>1. a.net \in NetType
    BY DEF MemberType
  <2> QED
    BY <2>1 DEF MemberType, NetType
<1>4. /\ mt \in MatchType /\ mt.connected = r.match.connected /\ mt.roster = r.match.roster
      /\ mt.session = r.match.session /\ mt.unsent = r.match.unsent \ F
  BY <1>2 DEF MatchType
<1>5. s = [r EXCEPT !.match = mt, !.m = m]
  BY <1>1, <1>2 DEF Rooms
<1> HIDE DEF up, mt
<1>6. /\ m \in [Ids -> MemberType]
      /\ \A i \in Ids : m[i].ws = r.m[i].ws /\ m[i].plug = r.m[i].plug /\ m[i].talk = r.m[i].talk
      /\ \A i \in Ids \ F : m[i] = r.m[i]
      /\ \A i \in F : i \in Ids /\ m[i] = up(r.m[i])
  <2>1. F \subseteq Ids
    BY <1>2 DEF MatchType
  <2>2. \A i \in Ids : r.m[i] \in MemberType
    BY <1>2
  <2> QED
    BY <1>3, <2>1, <2>2
<1> HIDE DEF m
<1>7. /\ s \in Rooms /\ s.match = mt /\ s.m = m /\ s.members = r.members
      /\ s.mode = r.mode /\ s.owner = r.owner /\ s.sockets = r.sockets /\ s.plugs = r.plugs
      /\ s.open = r.open /\ s.closing = r.closing
  BY <1>2, <1>4, <1>5, <1>6 DEF Rooms
<1>8. \A i \in F : Alive(r.m[i].net) /\ i \in Members(r) /\ r.mode # "direct"
  BY <1>2, <1>6 DEF ToyFits, MemberFits, Absent, NoNet, Alive
<1>9. SocketsFit(s)
  BY <1>7 DEF Fine, Sound, SocketsFit
<1>10. MatchFits(s)
  <2>1. r.mode # "direct" => MatchFits(s)
    BY <1>4, <1>7 DEF Fine, Sound, MatchFits
  <2>2. CASE r.mode = "direct"
    <3>1. r.match = NoMatch
      BY <2>2 DEF Fine, Sound, MatchFits
    <3>2. mt = NoMatch
      BY <3>1 DEF mt, NoMatch
    <3> QED
      BY <1>7, <3>2 DEF MatchFits, NoMatch
  <2> QED
    BY <2>1, <2>2
<1>11. ASSUME NEW i \in Ids PROVE ToyFits(s, i)
  <2>1. r.m[i] \in MemberType /\ ToyFits(r, i)
    BY <1>2
  <2>2. CASE i \in F
    BY <1>3, <1>4, <1>6, <1>7, <2>1, <2>2 DEF ToyFits, Alive
  <2>3. CASE i \notin F
    BY <1>4, <1>6, <1>7, <2>1, <2>3 DEF ToyFits
  <2> QED
    BY <2>2, <2>3
<1>12. /\ \A i \in Ids : s.m[i].plug = r.m[i].plug /\ s.m[i].talk = r.m[i].talk
       /\ \A i \in Ids : s.m[i].ws <= s.sockets
       /\ \A i \in Ids \ Members(r) : s.m[i] = Absent
       /\ s.mode = "direct" => \A i \in Ids : s.m[i].net = NoNet
  BY <1>2, <1>6, <1>7, <1>8 DEF MemberFits
<1>13. Sound(r, {})
  BY DEF Fine
<1>14. Sound(s, {})
  BY <1>7, <1>9, <1>10, <1>11, <1>12, <1>13, Remade
<1> QED
  BY <1>7, <1>14 DEF Fine, Owned

\* The timer leaves a fine room.
LEMMA TickFine ==
    ASSUME RoomInv, Tick
    PROVE  RoomInv'
<1>1. PICK r \in Sweep(room) :
        \E s \in IF r.match = NoMatch THEN {r} ELSE Each(MatchTicked(r), Flushed) :
        \E t \in InTurn(s, s.members, Visit) : room' \in Broadcast(t)
  BY DEF Tick
<1>2. Fine(r)
  BY <1>1, SweepFine DEF RoomInv
<1>3. PICK s \in IF r.match = NoMatch THEN {r} ELSE Each(MatchTicked(r), Flushed) :
        \E t \in InTurn(s, s.members, Visit) : room' \in Broadcast(t)
  BY <1>1
<1>4. Fine(s)
  <2>1. CASE r.match = NoMatch
    BY <1>2, <1>3, <2>1
  <2>2. CASE r.match # NoMatch
    <3>1. PICK u \in MatchTicked(r) : s \in Flushed(u)
      BY <1>3, <2>2 DEF Each
    <3> QED
      BY <1>2, <2>2, <3>1, MatchTickedFine, FlushedFine
  <2> QED
    BY <2>1, <2>2
<1>5. PICK t \in InTurn(s, s.members, Visit) : room' \in Broadcast(t)
  BY <1>3
<1>6. Fine(t)
  BY <1>4, <1>5, VisitsFine
<1>7. Fine(room')
  BY <1>5, <1>6, BroadcastFine
<1> QED
  BY <1>7 DEF RoomInv

-----------------------------------------------------------------------------
(* The requests                                                             *)

\* A new member has no socket, no toy and no seat.
LEMMA AddFine ==
    ASSUME NEW r, Fine(r), NEW i \in Ids \ Members(r), Len(r.members) < Capacity(r),
           NEW s \in Add(r, i)
    PROVE  Fine(s)
<1> DEFINE a == [Absent EXCEPT !.expires = RESERVE_MS]
           o == IF r.owner = None THEN i ELSE r.owner
           list == Append(r.members, i)
           m == [r.m EXCEPT ![i] = a]
           q == [r EXCEPT !.members = list, !.m = m, !.owner = o]
<1>1. s \in Broadcast(q)
  BY DEF Add
<1>2. /\ r \in Rooms /\ r.members \in Seq(Ids) /\ Members(r) \subseteq Ids
      /\ \A j \in Ids : MemberFits(r, j) /\ ToyFits(r, j)
  BY DEF Fine, Sound, Rooms, Members, ToSet
<1>3. a \in MemberType /\ a.ws = 0 /\ a.plug = 0 /\ Bare(a)
  <2>1. Absent \in MemberType
    BY RoomAssumption DEF Absent, MemberType, NoNet, NetType
  <2>2. /\ Absent.ws = 0 /\ Absent.plug = 0 /\ ~Absent.ready /\ Absent.net = NoNet
        /\ Absent.talk = {}
    BY DEF Absent
  <2>3. /\ a \in MemberType /\ a.ws = Absent.ws /\ a.plug = Absent.plug
        /\ a.ready = Absent.ready /\ a.net = Absent.net /\ a.talk = Absent.talk
    BY <2>1, RoomAssumption DEF MemberType
  <2> QED
    BY <2>2, <2>3 DEF Bare
<1>4. o \in Ids /\ o # None
  BY <1>2, RoomAssumption DEF Rooms
<1>5. m \in [Ids -> MemberType] /\ m[i] = a /\ \A j \in Ids \ {i} : m[j] = r.m[j]
  BY <1>2, <1>3 DEF Rooms
<1>6. /\ list \in Seq(Ids) /\ Len(list) = Len(r.members) + 1 /\ list[Len(list)] = i
      /\ \A k \in 1..Len(r.members) : list[k] = r.members[k]
  BY <1>2
<1> HIDE DEF a, o, list, m
<1>7. /\ q \in Rooms /\ q.match = r.match /\ q.m = m /\ q.members = list
      /\ q.mode = r.mode /\ q.owner = o /\ q.sockets = r.sockets /\ q.plugs = r.plugs
      /\ q.open = r.open /\ q.closing = r.closing
  BY <1>2, <1>4, <1>5, <1>6 DEF Rooms
<1> HIDE DEF q
<1>8. Members(q) = Members(r) \cup {i} /\ Capacity(q) = Capacity(r)
  <2>1. 1..Len(list) = 1..Len(r.members) \cup {Len(list)}
    BY <1>2, <1>6
  <2>2. {list[k] : k \in 1..Len(list)} = {r.members[k] : k \in 1..Len(r.members)} \cup {i}
    BY <1>6, <2>1
  <2>3. Members(q) = {list[k] : k \in 1..Len(list)}
    BY <1>7 DEF Members, ToSet
  <2>4. Members(r) = {r.members[k] : k \in 1..Len(r.members)}
    BY DEF Members, ToSet
  <2>5. Capacity(q) = Capacity(r)
    BY <1>7 DEF Capacity
  <2> QED
    BY <2>2, <2>3, <2>4, <2>5
<1>9. Listed(q)
  <2>1. \A k \in 1..Len(r.members) : r.members[k] # i
    BY <1>2 DEF Members, ToSet
  <2>2. \A b, c \in 1..Len(r.members) : r.members[b] = r.members[c] => b = c
    BY DEF Fine, Sound, Listed
  <2>3. Len(r.members) \in Nat
    BY <1>2
  <2>4. ASSUME NEW b \in 1..Len(list), NEW c \in 1..Len(list), list[b] = list[c]
        PROVE  b = c
    <3>1. b \in 1..Len(r.members) \/ b = Len(list)
      BY <1>6, <2>3
    <3>2. c \in 1..Len(r.members) \/ c = Len(list)
      BY <1>6, <2>3
    <3> QED
      BY <1>6, <2>1, <2>2, <2>4, <3>1, <3>2
  <2>5. Len(list) <= Capacity(q)
    BY <1>6, <1>8, <2>3 DEF Capacity
  <2> QED
    BY <1>7, <2>4, <2>5 DEF Listed
<1>10. SocketsFit(q) /\ MatchFits(q)
  BY <1>7 DEF Fine, Sound, SocketsFit, MatchFits
<1>11. ASSUME NEW j \in Ids PROVE MemberFits(q, j)
  <2>1. CASE j = i
    BY <1>3, <1>5, <1>7, <1>8, <2>1 DEF MemberFits, Bare, Rooms
  <2>2. CASE j # i
    <3>1. MemberFits(r, j)
      BY <1>2
    <3>2. \A k \in Members(r) : m[k] = r.m[k]
      BY <1>2, <1>5
    <3>3. q.m[j].talk \subseteq {q.m[k].plug : k \in Members(q) \ {j}}
      BY <1>5, <1>7, <1>8, <2>2, <3>1, <3>2 DEF MemberFits
    <3> QED
      BY <1>5, <1>7, <1>8, <2>2, <3>1, <3>3 DEF MemberFits
  <2> QED
    BY <2>1, <2>2
<1>12. ASSUME NEW j \in Ids PROVE ToyFits(q, j)
  <2>1. CASE j = i
    <3>1. i \notin r.match.connected
      BY <1>2 DEF ToyFits, MemberFits, Absent, NoNet, Alive
    <3> QED
      BY <1>3, <1>5, <1>7, <2>1, <3>1, BareFits
  <2>2. CASE j # i
    BY <1>2, <1>5, <1>7, <2>2 DEF ToyFits
  <2> QED
    BY <2>1, <2>2
<1>13. Owned(q)
  BY <1>4, <1>6, <1>2, <1>7 DEF Owned
<1>14. Fine(q)
  BY <1>7, <1>9, <1>10, <1>11, <1>12, <1>13 DEF Fine, Sound
<1> QED
  BY <1>1, <1>14, BroadcastFine

\* A member gets another socket: what is left of the socket before is dropped.
LEMMA AttachedFine ==
    ASSUME NEW r, Fine(r), NEW i \in Members(r), NEW s \in Attached(r, i)
    PROVE  Fine(s)
<1> DEFINE k == r.sockets + 1
           W == {r.m[i].ws}
<1>1. PICK d \in IF r.m[i].ws # 0 \/ r.m[i].net # NoNet THEN Detach(r, i) ELSE {r} :
        s \in Broadcast(Shut([d EXCEPT !.m[i].ws = k, !.m[i].expires = 0,
                                       !.sockets = k, !.open = @ \cup {k}], W))
  BY DEF Attached, Each
<1>2. Sound(r, {}) /\ Sound(r, {} \cup {i}) /\ Owned(r) /\ i \in Ids
  BY DEF Fine, Sound, Rooms, Members, ToSet
<1>3. /\ Sound(d, {}) /\ SameRoom(r, d) /\ i \notin d.match.connected
      /\ ~d.m[i].ready /\ d.m[i].net = NoNet
  <2>1. CASE r.m[i].ws # 0 \/ r.m[i].net # NoNet
    <3> DEFINE X == {}
    <3>1. d \in Detach(r, i) /\ Sound(r, X \cup {i})
      BY <1>1, <1>2, <2>1
    <3> HIDE DEF X
    <3>2. Sound(d, X) /\ SameRoom(r, d) /\ i \notin d.match.connected /\ Bare(d.m[i])
      BY <1>2, <3>1, DetachKept
    <3> QED
      BY <3>2 DEF X, Bare
  <2>2. CASE ~(r.m[i].ws # 0 \/ r.m[i].net # NoNet)
    <3>1. ToyFits(r, i)
      BY <1>2 DEF Sound
    <3> QED
      BY <1>1, <1>2, <2>2, <3>1 DEF ToyFits, Alive, NoNet, SameRoom
  <2> QED
    BY <2>1, <2>2
<1>4. /\ d \in Rooms /\ d.m[i] \in MemberType /\ d.members = r.members /\ d.owner = r.owner
      /\ d.sockets + 1 = k /\ k \in Nat
      /\ \A j \in Ids : MemberFits(d, j) /\ ToyFits(d, j)
  BY <1>2, <1>3 DEF Sound, Rooms, SameRoom
<1> DEFINE a == [d.m[i] EXCEPT !.ws = k, !.expires = 0]
           m == [d.m EXCEPT ![i] = a]
           q == [d EXCEPT !.m = m, !.sockets = k, !.open = @ \cup {k}]
<1>5. /\ a \in MemberType /\ a.ws = k /\ a.plug = d.m[i].plug /\ a.talk = d.m[i].talk
      /\ a.net = d.m[i].net /\ a.ready = d.m[i].ready
  <2> HIDE DEF k
  <2>1. 0 \in 0..RESERVE_MS
    BY RoomAssumption
  <2> QED
    BY <1>4, <2>1 DEF MemberType
<1>6. s \in Broadcast(Shut(q, W))
  <2>1. q = [d EXCEPT !.m[i].ws = k, !.m[i].expires = 0, !.sockets = k, !.open = @ \cup {k}]
    BY <1>2, <1>4 DEF Rooms
  <2> HIDE DEF q, k, W
  <2> QED
    BY <1>1, <2>1 DEF W, k
<1> HIDE DEF a
<1>7. m \in [Ids -> MemberType] /\ m[i] = a /\ \A j \in Ids \ {i} : m[j] = d.m[j]
  BY <1>2, <1>4, <1>5 DEF Rooms
<1> HIDE DEF m, k, W
<1>8. /\ q \in Rooms /\ q.match = d.match /\ q.m = m /\ q.members = d.members
      /\ q.mode = d.mode /\ q.owner = d.owner /\ q.sockets = k /\ q.plugs = d.plugs
      /\ q.open = d.open \cup {k} /\ q.closing = d.closing
  BY <1>4, <1>7 DEF Rooms
<1> HIDE DEF q
<1>9. SocketsFit(q)
  <2>1. /\ d.open \cup d.closing \subseteq 1..d.sockets /\ d.open \cap d.closing = {}
        /\ d.sockets \in Nat
    BY <1>3 DEF Sound, SocketsFit, Rooms
  <2>2. k \notin d.closing /\ k \in 1..k /\ 1..d.sockets \subseteq 1..k
    BY <1>4, <2>1
  <2> QED
    BY <1>8, <2>1, <2>2 DEF SocketsFit
<1>10. MatchFits(q)
  BY <1>3, <1>8 DEF Sound, MatchFits
<1>11. /\ \A j \in Ids : q.m[j].plug = d.m[j].plug /\ q.m[j].talk = d.m[j].talk
       /\ \A j \in Ids \ Members(d) : q.m[j] = Absent
       /\ q.mode = "direct" => \A j \in Ids : q.m[j].net = NoNet
  <2>1. i \in Members(d)
    BY <1>4 DEF Members
  <2> QED
    BY <1>2, <1>4, <1>5, <1>7, <1>8, <2>1 DEF MemberFits
<1>12. \A j \in Ids : q.m[j].ws <= q.sockets
  <2>1. ASSUME NEW j \in Ids PROVE d.m[j].ws <= k
    <3>1. d.m[j].ws \in Nat /\ d.sockets \in Nat /\ d.m[j].ws <= d.sockets
      BY <1>4 DEF MemberFits, Rooms, MemberType
    <3> QED
      BY <1>4, <3>1
  <2> QED
    BY <1>2, <1>4, <1>5, <1>7, <1>8, <2>1
<1>13. ASSUME NEW j \in Ids PROVE ToyFits(q, j)
  <2>1. CASE j = i
    BY <1>3, <1>5, <1>7, <1>8, <2>1 DEF ToyFits, NoNet, Alive
  <2>2. CASE j # i
    BY <1>4, <1>7, <1>8, <2>2 DEF ToyFits
  <2> QED
    BY <2>1, <2>2
<1>14. Sound(q, {})
  BY <1>3, <1>8, <1>9, <1>10, <1>11, <1>12, <1>13, Remade
<1>15. Owned(q)
  BY <1>2, <1>4, <1>8 DEF Owned
<1>16. Fine(Shut(q, W))
  BY <1>14, <1>15, ShutKept DEF Fine, Owned, SameRoom
<1> QED
  BY <1>6, <1>16, BroadcastFine

\* Create, Join, Leave, Attach.
LEMMA RequestsFine ==
    ASSUME RoomInv, NEW i \in Ids, Create(i) \/ Join(i) \/ Leave(i) \/ Attach(i)
    PROVE  RoomInv'
<1>1. Fine(room)
  BY DEF RoomInv
<1>2. CASE Create(i)
  <2>1. i \notin Members(room) /\ Len(room.members) < Capacity(room)
    BY <1>2 DEF Create, Members, ToSet, Capacity
  <2> QED
    BY <1>1, <1>2, <2>1, AddFine DEF Create, RoomInv
<1>3. CASE Join(i)
  <2>1. PICK r \in Sweep(room) :
          room' \in IF r.match # NoMatch \/ Len(r.members) >= Capacity(r) THEN {r} ELSE Add(r, i)
    BY <1>3 DEF Join
  <2>2. Fine(r) /\ Members(r) \subseteq Members(room)
    BY <1>1, <2>1, SweepFine
  <2>3. CASE room' = r
    BY <2>2, <2>3 DEF RoomInv
  <2>4. CASE ~ Len(r.members) >= Capacity(r) /\ room' \in Add(r, i)
    <3>1. Len(r.members) < Capacity(r)
      BY <2>2, <2>4 DEF Fine, Sound, Rooms, Capacity
    <3>2. i \notin Members(r)
      BY <1>3, <2>2 DEF Join
    <3> QED
      BY <2>2, <2>4, <3>1, <3>2, AddFine DEF RoomInv
  <2> QED
    BY <2>1, <2>3, <2>4
<1>4. CASE Leave(i)
  BY <1>1, <1>4, LeaveFine DEF Leave, RoomInv
<1>5. CASE Attach(i)
  <2>1. PICK r \in Sweep(room) : room' \in IF i \in Members(r) THEN Attached(r, i) ELSE {r}
    BY <1>5 DEF Attach
  <2>2. Fine(r)
    BY <1>1, <2>1, SweepFine
  <2> QED
    BY <2>1, <2>2, AttachedFine DEF RoomInv
<1> QED
  BY <1>2, <1>3, <1>4, <1>5

-----------------------------------------------------------------------------
(* Messages and toys                                                        *)

\* Who may speak is a member.
LEMMA LiveIsMember ==
    ASSUME RoomInv, NEW i \in Ids, Live(i)
    PROVE  /\ Fine(room) /\ Sound(room, {}) /\ Owned(room) /\ room \in Rooms
           /\ i \in Members(room) /\ room.m[i] \in MemberType /\ room.m[i].net \in NetType
           /\ MemberFits(room, i) /\ ToyFits(room, i)
<1>1. Fine(room) /\ Sound(room, {}) /\ Owned(room) /\ room \in Rooms
  BY DEF RoomInv, Fine, Sound
<1>2. MemberFits(room, i) /\ ToyFits(room, i) /\ room.m[i] \in MemberType
  BY <1>1 DEF Sound, Rooms
<1> QED
  BY <1>1, <1>2 DEF Live, MemberType

\* A room that is sound and keeps its list stays fine.
LEMMA StaysFine ==
    ASSUME NEW r, Fine(r), NEW s, Sound(s, {}), SameRoom(r, s)
    PROVE  Fine(s)
  BY DEF Fine, Owned, SameRoom

\* Closing a socket, letting go of a toy.
LEMMA RefuseFine ==
    ASSUME RoomInv, NEW i \in Ids, Refuse(i)
    PROVE  RoomInv'
<1> DEFINE W == {room.m[i].ws}
<1>1. Live(i) /\ room' = Shut(room, W)
  BY DEF Refuse
<1>2. Fine(room) /\ Sound(room, {})
  BY <1>1, LiveIsMember
<1> HIDE DEF W
<1>3. Sound(room', {}) /\ SameRoom(room, room')
  BY <1>1, <1>2, ShutKept
<1> QED
  BY <1>2, <1>3, StaysFine DEF RoomInv

\* "adapter disconnected".
LEMMA AdapterOffFine ==
    ASSUME RoomInv, NEW i \in Ids, AdapterOff(i)
    PROVE  RoomInv'
<1>1. Fine(room) /\ Sound(room, {} \cup {i})
  BY LiveIsMember DEF AdapterOff, Sound
<1>2. PICK r \in Detach(room, i) : room' \in Broadcast(r)
  BY DEF AdapterOff
<1>3. Sound(r, {}) /\ SameRoom(room, r)
  BY <1>1, <1>2, DetachKept
<1> QED
  BY <1>1, <1>2, <1>3, StaysFine, BroadcastFine DEF RoomInv

\* Bytes pass between the two toys that are there.
LEMMA ForwardFine ==
    ASSUME RoomInv, NEW i \in Ids, Forward(i)
    PROVE  RoomInv'
<1>1. /\ Fine(room) /\ Sound(room, {}) /\ Owned(room) /\ room \in Rooms /\ i \in Members(room)
      /\ room.m[i] \in MemberType
  BY LiveIsMember DEF Forward
<1>2. PICK j \in Members(room) \ {i} :
        /\ room.mode = "direct" /\ room.m[i].plug # 0 /\ room.m[j].plug # 0
        /\ \/ room' = [room EXCEPT !.m[j].talk = @ \cup {room.m[i].plug}]
           \/ room' = Shut(room, {room.m[j].ws})
  BY DEF Forward
<1>3. CASE room' = Shut(room, {room.m[j].ws})
  <2> DEFINE W == {room.m[j].ws}
  <2>1. room' = Shut(room, W)
    BY <1>3
  <2> HIDE DEF W
  <2> QED
    BY <1>1, <2>1, ShutKept, StaysFine DEF RoomInv
<1>4. CASE room' = [room EXCEPT !.m[j].talk = @ \cup {room.m[i].plug}]
  <2> DEFINE r == room
             a == [r.m[j] EXCEPT !.talk = @ \cup {r.m[i].plug}]
             m == [r.m EXCEPT ![j] = a]
             s == [r EXCEPT !.m = m]
  <2>1. /\ j \in Ids /\ r.m[j] \in MemberType /\ r.m[i].plug \in Nat
        /\ \A k \in Ids : MemberFits(r, k) /\ ToyFits(r, k)
    <3>1. j \in Ids /\ i \in Ids
      BY <1>1 DEF Rooms, Members, ToSet
    <3>2. \A k \in Ids : r.m[k] \in MemberType
      BY <1>1 DEF Rooms
    <3>3. r.m[i].plug \in Nat
      BY <3>1, <3>2 DEF MemberType
    <3> QED
      BY <1>1, <3>1, <3>2, <3>3 DEF Sound
  <2>2. /\ a \in MemberType /\ a.talk = r.m[j].talk \cup {r.m[i].plug}
        /\ a.plug = r.m[j].plug /\ a.ws = r.m[j].ws /\ a.net = r.m[j].net
        /\ a.ready = r.m[j].ready /\ a.lobbyCount = r.m[j].lobbyCount
    BY <2>1 DEF MemberType
  <2>3. room' = s
    BY <1>1, <1>4, <2>1 DEF Rooms
  <2> HIDE DEF a
  <2>4. m \in [Ids -> MemberType] /\ m[j] = a /\ \A k \in Ids \ {j} : m[k] = r.m[k]
    BY <1>1, <2>1, <2>2 DEF Rooms
  <2> HIDE DEF m
  <2>5. /\ s \in Rooms /\ s.match = r.match /\ s.m = m /\ s.members = r.members
        /\ s.mode = r.mode /\ s.owner = r.owner /\ s.sockets = r.sockets /\ s.plugs = r.plugs
        /\ s.open = r.open /\ s.closing = r.closing
    BY <1>1, <2>4 DEF Rooms
  <2> HIDE DEF s
  <2>6. Members(s) = Members(r) /\ Capacity(s) = Capacity(r) /\ Members(r) \subseteq Ids
    BY <1>1, <2>5 DEF Members, Capacity, Rooms, ToSet
  <2>7. Listed(s) /\ SocketsFit(s) /\ MatchFits(s)
    BY <1>1, <2>5, <2>6 DEF Sound, Listed, SocketsFit, MatchFits
  <2>8. ASSUME NEW k \in Ids PROVE MemberFits(s, k)
    <3>1. {s.m[l].plug : l \in Members(s) \ {k}} = {r.m[l].plug : l \in Members(r) \ {k}}
      BY <2>2, <2>4, <2>5, <2>6
    <3>2. CASE k = j
      BY <1>2, <2>1, <2>2, <2>4, <2>5, <2>6, <3>1, <3>2, <1>1 DEF MemberFits
    <3>3. CASE k # j
      BY <2>1, <2>4, <2>5, <2>6, <3>1, <3>3 DEF MemberFits
    <3> QED
      BY <3>2, <3>3
  <2>9. ASSUME NEW k \in Ids PROVE ToyFits(s, k)
    BY <2>1, <2>2, <2>4, <2>5 DEF ToyFits
  <2>10. Fine(s)
    BY <1>1, <2>5, <2>7, <2>8, <2>9 DEF Fine, Sound, Owned
  <2> QED
    BY <2>3, <2>10 DEF RoomInv
<1> QED
  BY <1>2, <1>3, <1>4

\* "adapter connected": the toy is new, and so is its session.
LEMMA AdapterOnFine ==
    ASSUME RoomInv, NEW i \in Ids, AdapterOn(i)
    PROVE  RoomInv'
<1> DEFINE r == room
           p == r.plugs + 1
           net == IF r.mode = "direct" THEN NoNet ELSE [NoNet EXCEPT !.plug = p, !.ws = r.m[i].ws]
           a == [r.m[i] EXCEPT !.plug = p, !.lobbyCount = 0, !.net = net]
           m == [r.m EXCEPT ![i] = a]
           s == [r EXCEPT !.plugs = p, !.m = m]
<1>1. /\ Fine(r) /\ Sound(r, {}) /\ Owned(r) /\ r \in Rooms /\ i \in Members(r)
      /\ r.m[i] \in MemberType /\ MemberFits(r, i) /\ ToyFits(r, i)
  BY LiveIsMember DEF AdapterOn
<1>2. r.m[i].plug = 0 /\ r.match = NoMatch /\ r.m[i].ws # 0 /\ room' \in Broadcast(Plugged(r, i))
  BY DEF AdapterOn, Live
<1>3. p \in Nat /\ p # 0 /\ r.m[i].ws \in Nat /\ \A k \in Ids : r.m[k].plug <= p
  <2>1. \A k \in Ids : r.m[k].plug \in Nat /\ r.m[k].plug <= r.plugs
    BY <1>1 DEF Sound, Rooms, MemberFits, MemberType
  <2> QED
    BY <1>1, <2>1 DEF Rooms, MemberType
<1>4. s = Plugged(r, i)
  BY <1>1, ZenonT(40) DEF Plugged, Rooms, MemberType
<1> HIDE DEF p
<1>5. /\ net \in NetType /\ ~net.played /\ (r.mode = "direct" => net = NoNet)
      /\ net.plug # 0 => net.plug = p /\ net.ws = r.m[i].ws /\ net.told = 0
  <2>1. CASE r.mode = "direct"
    BY <2>1 DEF NoNet, NetType
  <2>2. CASE r.mode # "direct"
    BY <1>3, <2>2 DEF NoNet, NetType
  <2> QED
    BY <2>1, <2>2
<1>6. ~r.m[i].ready
  BY <1>1, <1>2 DEF ToyFits, Alive
<1> HIDE DEF net
<1>7. /\ a \in MemberType /\ a.plug = p /\ a.ws = r.m[i].ws /\ a.net = net /\ ~a.ready
      /\ a.lobbyCount = 0 /\ a.talk = r.m[i].talk
  BY <1>1, <1>3, <1>5, <1>6 DEF MemberType
<1> HIDE DEF a
<1>8. m \in [Ids -> MemberType] /\ m[i] = a /\ \A k \in Ids \ {i} : m[k] = r.m[k]
  BY <1>1, <1>7 DEF Rooms
<1> HIDE DEF m
<1>9. /\ s \in Rooms /\ s.match = NoMatch /\ s.m = m /\ s.members = r.members
      /\ s.mode = r.mode /\ s.owner = r.owner /\ s.sockets = r.sockets /\ s.plugs = p
      /\ s.open = r.open /\ s.closing = r.closing
  BY <1>1, <1>2, <1>3, <1>8 DEF Rooms
<1> HIDE DEF s
<1>10. Members(s) = Members(r) /\ Capacity(s) = Capacity(r) /\ Members(r) \subseteq Ids
  BY <1>1, <1>9 DEF Members, Capacity, Rooms, ToSet
<1>11. Listed(s) /\ SocketsFit(s) /\ MatchFits(s)
  BY <1>1, <1>2, <1>9, <1>10 DEF Sound, Listed, SocketsFit, MatchFits
<1>12. ASSUME NEW k \in Ids PROVE MemberFits(s, k)
  <2>1. MemberFits(r, k)
    BY <1>1 DEF Sound
  <2>2. s.m[k].talk \subseteq {s.m[l].plug : l \in Members(s) \ {k}}
    <3>1. SUFFICES ASSUME NEW t \in r.m[k].talk
                   PROVE  \E l \in Members(r) \ {k} : t = m[l].plug
      BY <1>7, <1>8, <1>9, <1>10
    <3>2. PICK l \in Members(r) \ {k} : t = r.m[l].plug
      BY <2>1 DEF MemberFits
    <3>3. l # i
      BY <1>2, <2>1, <3>2 DEF MemberFits
    <3> QED
      BY <1>8, <1>10, <3>2, <3>3
  <2>3. CASE k = i
    BY <1>1, <1>3, <1>5, <1>7, <1>8, <1>9, <1>10, <2>1, <2>2, <2>3 DEF MemberFits, Rooms
  <2>4. CASE k # i
    BY <1>3, <1>8, <1>9, <1>10, <2>1, <2>2, <2>4 DEF MemberFits
  <2> QED
    BY <2>3, <2>4
<1>13. ASSUME NEW k \in Ids PROVE ToyFits(s, k)
  <2>1. CASE k = i
    BY <1>5, <1>7, <1>8, <1>9, <2>1 DEF ToyFits, NoMatch
  <2>2. CASE k # i
    BY <1>1, <1>2, <1>8, <1>9, <2>2 DEF Sound, ToyFits
  <2> QED
    BY <2>1, <2>2
<1>14. Fine(s)
  BY <1>1, <1>9, <1>11, <1>12, <1>13 DEF Fine, Sound, Owned
<1> QED
  BY <1>2, <1>4, <1>14, BroadcastFine DEF RoomInv

\* "ready" is said of a toy that is there and ready.
LEMMA SetReadyFine ==
    ASSUME RoomInv, NEW i \in Ids, NEW on \in BOOLEAN, SetReady(i, on)
    PROVE  RoomInv'
<1> DEFINE r == room
           a == [r.m[i] EXCEPT !.ready = on]
           s == Put(r, i, a)
           X == {}
<1>1. /\ Fine(r) /\ Sound(r, X \cup {i}) /\ r \in Rooms /\ i \in Members(r)
      /\ r.m[i] \in MemberType /\ MemberFits(r, i) /\ ToyFits(r, i)
  BY LiveIsMember DEF SetReady, Sound
<1>2. /\ r.m[i].ws # 0 /\ r.mode = "hosted" /\ (on => Alive(r.m[i].net) /\ r.m[i].net.ready)
      /\ room' \in Broadcast([r EXCEPT !.m[i].ready = on])
  BY DEF SetReady, Live
<1>3. s = [r EXCEPT !.m[i].ready = on]
  BY <1>1 DEF Rooms, Put
<1>4. /\ a \in MemberType /\ a.ws = r.m[i].ws /\ a.plug = r.m[i].plug /\ a.net = r.m[i].net
      /\ a.ready = on /\ a.lobbyCount = r.m[i].lobbyCount /\ a.talk = r.m[i].talk
  BY <1>1 DEF MemberType
<1> HIDE DEF a
<1>5. s.m[i] = a /\ s.match = r.match
  BY <1>1 DEF Rooms, Put
<1>6. a.ws <= r.sockets /\ (r.mode = "direct" => a.net = NoNet)
  BY <1>1, <1>4 DEF MemberFits
<1> HIDE DEF s, X
<1>7. ToyFits(s, i)
  BY <1>1, <1>2, <1>4, <1>5 DEF ToyFits
<1>8. s = Put(r, i, a)
  BY DEF s
<1>9. Sound(s, X) /\ SameRoom(r, s)
  BY <1>1, <1>4, <1>6, <1>7, <1>8, MemberKept
<1>10. Fine(s)
  BY <1>1, <1>9, StaysFine DEF X
<1> QED
  BY <1>2, <1>3, <1>10, BroadcastFine DEF RoomInv

\* A match starts with the sessions that are there, none of which has played.
LEMMA StartFine ==
    ASSUME RoomInv, NEW i \in Ids, Start(i)
    PROVE  RoomInv'
<1> DEFINE r == room
           all == Members(r)
           mt == [phase |-> "preparing", connected |-> all, unsent |-> {}, roster |-> all,
                  session |-> [j \in Ids |-> r.m[j].net.plug]]
           up(a) == [a EXCEPT !.net.played = TRUE]
           m == [j \in Ids |-> IF j \in all THEN up(r.m[j]) ELSE r.m[j]]
           s == [r EXCEPT !.match = mt, !.m = m]
<1>1. /\ Fine(r) /\ Sound(r, {}) /\ Owned(r) /\ r \in Rooms /\ i \in Members(r)
  BY LiveIsMember DEF Start
<1>2. /\ r.mode = "hosted" /\ r.match = NoMatch /\ room' \in Broadcast(s)
      /\ \A j \in all : /\ Hears(r, j) /\ r.m[j].ready
                        /\ r.m[j].net.ready /\ Alive(r.m[j].net)
  BY DEF Start, CanStart
<1>3. /\ all \subseteq Ids /\ \A j \in Ids : r.m[j] \in MemberType /\ r.m[j].net \in NetType
      /\ \A j \in Ids : MemberFits(r, j) /\ ToyFits(r, j)
  <2>1. all \subseteq Ids /\ \A j \in Ids : r.m[j] \in MemberType
    BY <1>1 DEF Rooms, Members, ToSet
  <2>2. \A j \in Ids : r.m[j].net \in NetType
    BY <2>1 DEF MemberType
  <2> QED
    BY <1>1, <2>1, <2>2 DEF Sound
<1>4. ASSUME NEW a \in MemberType
      PROVE  /\ up(a) \in MemberType /\ up(a).ws = a.ws /\ up(a).plug = a.plug
             /\ up(a).talk = a.talk /\ up(a).ready = a.ready /\ up(a).lobbyCount = a.lobbyCount
             /\ up(a).net.plug = a.net.plug /\ up(a).net.ws = a.net.ws
             /\ up(a).net.ready = a.net.ready /\ up(a).net.error = a.net.error
             /\ up(a).net.told = a.net.told
  <2>1. a.net \in NetType
    BY DEF MemberType
  <2> QED
    BY <2>1 DEF MemberType, NetType
<1>5. /\ mt \in MatchType /\ mt.connected = all /\ mt.roster = all /\ mt.unsent = {}
      /\ \A j \in Ids : mt.session[j] = r.m[j].net.plug
  <2>1. \A j \in Ids : r.m[j].net.plug \in Nat
    BY <1>3 DEF NetType
  <2> QED
    BY <1>3, <2>1 DEF MatchType, Phases
<1> HIDE DEF up, mt, all
<1>6. /\ m \in [Ids -> MemberType]
      /\ \A j \in Ids : m[j].ws = r.m[j].ws /\ m[j].plug = r.m[j].plug /\ m[j].talk = r.m[j].talk
      /\ \A j \in Ids \ all : m[j] = r.m[j]
      /\ \A j \in all : m[j] = up(r.m[j])
  BY <1>3, <1>4
<1> HIDE DEF m
<1>7. /\ s \in Rooms /\ s.match = mt /\ s.m = m /\ s.members = r.members
      /\ s.mode = r.mode /\ s.owner = r.owner /\ s.sockets = r.sockets /\ s.plugs = r.plugs
      /\ s.open = r.open /\ s.closing = r.closing
  BY <1>1, <1>5, <1>6 DEF Rooms
<1> HIDE DEF s
<1>8. SocketsFit(s)
  BY <1>1, <1>7 DEF Sound, SocketsFit
<1>9. MatchFits(s)
  BY <1>2, <1>5, <1>7 DEF MatchFits
<1>10. ASSUME NEW j \in Ids PROVE ToyFits(s, j)
  <2>1. CASE j \in all
    <3>1. r.m[j].ws # 0
      <4>1. 0 \notin r.open
        BY <1>1 DEF Sound, SocketsFit
      <4> QED
        BY <1>2, <2>1, <4>1 DEF Hears
    <3>2. r.m[j] \in MemberType /\ ToyFits(r, j) /\ m[j] = up(r.m[j])
      BY <1>3, <1>6, <2>1
    <3>3. r.m[j].net.ready /\ Alive(r.m[j].net)
      BY <1>2, <2>1
    <3> QED
      BY <1>4, <1>5, <1>7, <2>1, <3>1, <3>2, <3>3 DEF ToyFits, Alive
  <2>2. CASE j \notin all
    <3>1. s.m[j] = Absent
      BY <1>3, <1>6, <1>7, <2>2 DEF MemberFits, all
    <3> QED
      BY <1>5, <1>7, <2>2, <3>1, BareFits DEF Bare, Absent
  <2> QED
    BY <2>1, <2>2
<1>11. /\ \A j \in Ids : s.m[j].plug = r.m[j].plug /\ s.m[j].talk = r.m[j].talk
       /\ \A j \in Ids : s.m[j].ws <= s.sockets
       /\ \A j \in Ids \ Members(r) : s.m[j] = Absent
       /\ s.mode # "direct"
  BY <1>2, <1>3, <1>6, <1>7 DEF MemberFits, all
<1>12. Sound(s, {})
  BY <1>1, <1>7, <1>8, <1>9, <1>10, <1>11, Remade
<1>13. Fine(s)
  BY <1>1, <1>7, <1>12 DEF Fine, Owned
<1> QED
  BY <1>2, <1>13, BroadcastFine DEF RoomInv

\* The toys of all members are let go of, one after the other.
LEMMA DetachesFine ==
    ASSUME NEW r, NEW X, X = Members(r), Sound(r, X), NEW s \in InTurn(r, r.members, Detach)
    PROVE  Sound(s, {}) /\ SameRoom(r, s)
<1> DEFINE seq == r.members
           n == Len(seq)
           Go(k, S) == Each(S, LAMBDA t : Detach(t, seq[k]))
           Ev(a) == [k \in 0..n |-> IF k = 0 THEN {r} ELSE Go(k, a[k - 1])]
           after == CHOOSE a : a = Ev(a)
           U == SUBSET {t \in Rooms : Sound(t, Ids) /\ SameRoom(r, t)}
           first == {r}
           step == [k \in 1..n |-> [S \in U |-> Go(k, S)]]
           Rest(k) == {seq[j] : j \in k + 1..n}
<1>1. n \in Nat /\ (\A k \in 1..n : seq[k] \in Ids) /\ r \in Rooms
  BY DEF Sound, Rooms
<1>2. InTurn(r, r.members, Detach) = after[n]
  BY DEF InTurn
<1>3. ASSUME NEW k \in 1..n, NEW S \in U PROVE Go(k, S) \in U
  <2> SUFFICES ASSUME NEW t \in Go(k, S) PROVE t \in Rooms /\ Sound(t, Ids) /\ SameRoom(r, t)
    OBVIOUS
  <2>1. PICK u \in S : t \in Detach(u, seq[k])
    BY DEF Each
  <2>2. Sound(u, Ids) /\ SameRoom(r, u) /\ seq[k] \in Ids
    BY <1>1
  <2> DEFINE Y == Ids
             i == seq[k]
  <2>3. Sound(u, Y \cup {i}) /\ i \in Ids /\ t \in Detach(u, i)
    BY <2>1, <2>2 DEF Sound
  <2> HIDE DEF Y, i
  <2>4. Sound(t, Y) /\ SameRoom(u, t)
    BY <2>3, DetachKept
  <2> QED
    BY <2>2, <2>4 DEF Sound, SameRoom, Y
<1> HIDE DEF Go, after
<1>4. first \in U
  BY <1>1 DEF Sound, SameRoom
<1>5. step \in [1..n -> [U -> U]]
  BY <1>3
<1> HIDE DEF U, first, step
<1>6. PICK h : Lists(h, n, U, first, step)
  <2>1. Steps(n, U, first, step)
    BY <1>1, <1>4, <1>5 DEF Steps
  <2> QED
    BY <2>1, Iterated
<1>7. h = Ev(h)
  <2>1. ASSUME NEW k \in 1..n PROVE h[k] = Go(k, h[k - 1])
    <3>1. k - 1 \in 0..n
      BY <1>1
    <3>2. h[k - 1] \in U /\ h[k] = step[k][h[k - 1]]
      BY <1>6, <3>1 DEF Lists
    <3> QED
      BY <3>2 DEF step
  <2> QED
    BY <1>1, <1>6, <2>1 DEF first, Lists
<1>8. after = Ev(after)
  BY <1>7 DEF after
<1> HIDE DEF Rest
<1>9. /\ Rest(0) = Members(r) /\ Rest(n) = {}
      /\ \A k \in 1..n : Rest(k - 1) = Rest(k) \cup {seq[k]}
  <2>1. Rest(0) = Members(r) /\ Rest(n) = {}
    BY <1>1 DEF Rest, Members, ToSet
  <2>2. ASSUME NEW k \in 1..n PROVE Rest(k - 1) = Rest(k) \cup {seq[k]}
    <3>1. (k - 1) + 1..n = (k + 1..n) \cup {k}
      BY <1>1
    <3> QED
      BY <3>1 DEF Rest
  <2> QED
    BY <2>1, <2>2
<1> DEFINE Good(k) == \A t \in after[k] : Sound(t, Rest(k)) /\ SameRoom(r, t)
           F == {k \in 0..n : Good(k)}
<1>10. 0 \in F
  <2>1. after[0] = {r}
    BY <1>1, <1>8
  <2> QED
    BY <1>1, <1>9, <2>1 DEF SameRoom
<1>11. ASSUME NEW k \in 1..n, k - 1 \in F PROVE k \in F
  <2>1. k \in 0..n /\ k # 0
    BY <1>1
  <2>2. after[k] = Go(k, after[k - 1])
    BY <1>8, <2>1
  <2>3. ASSUME NEW t \in after[k] PROVE Sound(t, Rest(k)) /\ SameRoom(r, t)
    <3>1. PICK u \in after[k - 1] : t \in Detach(u, seq[k])
      BY <2>2, <2>3 DEF Go, Each
    <3>2. Sound(u, Rest(k) \cup {seq[k]}) /\ SameRoom(r, u) /\ seq[k] \in Ids
      BY <1>1, <1>9, <1>11
    <3> DEFINE Y == Rest(k)
               i == seq[k]
    <3>3. Sound(u, Y \cup {i}) /\ i \in Ids /\ t \in Detach(u, i)
      BY <3>1, <3>2
    <3> HIDE DEF Y, i
    <3>4. Sound(t, Y) /\ SameRoom(u, t)
      BY <3>3, DetachKept
    <3> QED
      BY <3>2, <3>4 DEF SameRoom, Y
  <2> QED
    BY <2>1, <2>3
<1>12. n \in F
  <2> HIDE DEF F
  <2> QED
    BY <1>1, <1>10, <1>11, Climb
<1> QED
  BY <1>2, <1>9, <1>12

\* After a match no toy is left that has played.
LEMMA ResetFine ==
    ASSUME RoomInv, NEW i \in Ids, Reset(i)
    PROVE  RoomInv'
<1> DEFINE q == [room EXCEPT !.match = NoMatch]
           X == Members(room)
<1>1. /\ Fine(room) /\ Sound(room, {}) /\ Owned(room) /\ room \in Rooms
  BY LiveIsMember DEF Reset
<1>2. PICK s \in InTurn(q, room.members, Detach) : room' \in Broadcast(s)
  BY DEF Reset
<1>3. NoMatch \in MatchType
  BY DEF NoMatch, MatchType
<1>4. /\ q \in Rooms /\ q.match = NoMatch /\ q.m = room.m /\ q.members = room.members
      /\ q.mode = room.mode /\ q.owner = room.owner /\ q.sockets = room.sockets
      /\ q.plugs = room.plugs /\ q.open = room.open /\ q.closing = room.closing
  BY <1>1, <1>3 DEF Rooms
<1> HIDE DEF q, X
<1>5. SocketsFit(q) /\ MatchFits(q)
  BY <1>1, <1>4 DEF Sound, SocketsFit, MatchFits, NoMatch
<1>6. \A j \in Ids : MemberFits(room, j)
  BY <1>1 DEF Sound
<1>7. ASSUME NEW j \in Ids \ X PROVE ToyFits(q, j)
  <2>1. q.m[j] = Absent
    BY <1>4, <1>6 DEF X, MemberFits
  <2> QED
    BY <1>4, <2>1, BareFits DEF Bare, Absent, NoMatch
<1>8. Sound(q, X)
  BY <1>1, <1>4, <1>5, <1>6, <1>7, Remade DEF MemberFits
<1>9. X = Members(q) /\ s \in InTurn(q, q.members, Detach)
  BY <1>2, <1>4 DEF X, Members
<1>10. Sound(s, {}) /\ SameRoom(q, s)
  BY <1>8, <1>9, DetachesFine
<1>11. Fine(s)
  BY <1>1, <1>4, <1>10 DEF Fine, Owned, SameRoom
<1> QED
  BY <1>2, <1>11, BroadcastFine DEF RoomInv

\* What the toy says is news of its own session.
LEMMA ToySpeaksFine ==
    ASSUME RoomInv, NEW i \in Ids, ToyHello(i) \/ ToyAck(i)
    PROVE  RoomInv'
<1>1. Live(i) /\ Alive(room.m[i].net)
  BY DEF ToyHello, ToyAck, Toy
<1>2. Fine(room) /\ Sound(room, {})
  BY <1>1, LiveIsMember
<1>3. PICK on \in BOOLEAN : room' = [room EXCEPT !.m[i].net.pending = on]
  BY DEF ToyHello, ToyAck
<1>4. Sound(room', {}) /\ SameRoom(room, room')
  BY <1>1, <1>2, <1>3, PendingKept
<1> QED
  BY <1>2, <1>4, StaysFine DEF RoomInv

\* The handshake of a session.
LEMMA ToyReadyFine ==
    ASSUME RoomInv, NEW i \in Ids, ToyReady(i)
    PROVE  RoomInv'
<1> DEFINE r == room
           net == [r.m[i].net EXCEPT !.ready = TRUE]
           count == r.m[i].lobbyCount
           a == Netted(r.m[i], net, r.m[i].ready, count)
           s == Put(r, i, a)
<1>1. Live(i) /\ Alive(r.m[i].net) /\ room' = [r EXCEPT !.m[i].net.ready = TRUE]
  BY DEF ToyReady, Toy
<1>2. /\ Fine(r) /\ Sound(r, {}) /\ r \in Rooms /\ r.m[i] \in MemberType
      /\ r.m[i].net \in NetType /\ ToyFits(r, i)
  BY <1>1, LiveIsMember
<1>3. room' = s
  BY <1>1, <1>2 DEF Rooms, MemberType, Put, Netted
<1>4. /\ net \in NetType /\ net.plug = r.m[i].net.plug /\ net.ws = r.m[i].net.ws
      /\ net.told = r.m[i].net.told /\ net.played = r.m[i].net.played
      /\ net.ready /\ net.error = r.m[i].net.error /\ count \in Nat
  BY <1>2 DEF NetType, MemberType
<1>5. a = Netted(r.m[i], net, r.m[i].ready, count) /\ s = Put(r, i, a)
  OBVIOUS
<1> HIDE DEF net, a, s
<1>6. GoesOn(r.m[i], net, count)
  BY <1>1, <1>4 DEF Alive, GoesOn
<1> HIDE DEF count
<1>7. Sound(s, {}) /\ SameRoom(r, s)
  BY <1>1, <1>2, <1>4, <1>5, <1>6, SessionKept
<1> QED
  BY <1>2, <1>3, <1>7, StaysFine DEF RoomInv

\* A session that breaks, a toy that leaves the game.
LEMMA ToyGoesFine ==
    ASSUME RoomInv, NEW i \in Ids, ToyBreaks(i) \/ ToyLeaves(i)
    PROVE  RoomInv'
<1>1. Fine(room) /\ Sound(room, {})
  BY LiveIsMember DEF ToyBreaks, ToyLeaves, Toy
<1>2. room' \in StopNet(room, i) \/ room' \in Lose(room, i)
  BY DEF ToyBreaks, ToyLeaves
<1>3. Sound(room', {}) /\ SameRoom(room, room')
  BY <1>1, <1>2, StopNetKept, LoseKept
<1> QED
  BY <1>1, <1>3, StaysFine DEF RoomInv

\* What is played may cost seats.
LEMMA ToyPlaysFine ==
    ASSUME RoomInv, NEW i \in Ids, ToyPlays(i)
    PROVE  RoomInv'
<1>1. Fine(room) /\ Sound(room, {}) /\ room \in Rooms
  BY LiveIsMember DEF ToyPlays, Toy
<1>2. PICK C \in SUBSET room.match.connected :
        room' = [room EXCEPT !.match = Played(room.match, C)]
  BY DEF ToyPlays
<1>3. room.match \in MatchType /\ room.mode # "direct"
  BY <1>1, DirectIsEmpty DEF ToyPlays, Rooms
<1> DEFINE mt == Played(room.match, C)
<1>4. Loses(room.match, mt) /\ room' = [room EXCEPT !.match = mt]
  BY <1>2, <1>3, PlayedLoses
<1> HIDE DEF mt
<1>5. Sound(room', {})
  BY <1>1, <1>3, <1>4, MatchKept
<1>6. room'.owner = room.owner /\ room'.members = room.members
  BY <1>1, <1>4 DEF Rooms
<1> QED
  BY <1>1, <1>5, <1>6 DEF RoomInv, Fine, Owned

-----------------------------------------------------------------------------
(* The events                                                               *)

\* The present socket of a member is gone, and its toy is given up.
LEMMA DroppedFine ==
    ASSUME NEW r, Fine(r), NEW i \in Members(r), NEW s \in Dropped(r, i)
    PROVE  Fine(s)
<1> DEFINE a == [r.m[i] EXCEPT !.ws = 0, !.expires = RESERVE_MS]
           q == Put(r, i, a)
           X == {i}
<1>1. Sound(r, X \cup {i}) /\ r \in Rooms /\ r.m[i] \in MemberType /\ i \in Ids
  <2>1. r \in Rooms /\ i \in Ids
    BY DEF Fine, Sound, Rooms, Members, ToSet
  <2> QED
    BY <2>1 DEF Fine, Sound, Rooms
<1>2. MemberFits(r, i)
  BY <1>1 DEF Fine, Sound
<1>3. PICK d \in Detach(q, i) : s \in Broadcast(Owner(d))
  <2>1. q = [r EXCEPT !.m[i].ws = 0, !.m[i].expires = RESERVE_MS]
    BY <1>1 DEF Rooms, Put
  <2> QED
    BY <2>1 DEF Dropped, Each
<1>4. /\ a \in MemberType /\ a.ws = 0 /\ a.plug = r.m[i].plug /\ a.talk = r.m[i].talk
      /\ a.net = r.m[i].net
  <2>1. RESERVE_MS \in 0..RESERVE_MS
    BY RoomAssumption
  <2> QED
    BY <1>1, <2>1 DEF MemberType
<1>5. a.ws <= r.sockets /\ (r.mode = "direct" => a.net = NoNet)
  BY <1>1, <1>2, <1>4 DEF MemberFits, Rooms
<1>6. q = Put(r, i, a) /\ i \in X
  OBVIOUS
<1> HIDE DEF a, q, X
<1>7. Sound(q, X)
  BY <1>1, <1>4, <1>5, <1>6, MemberKept
<1>8. Sound(q, {} \cup {i})
  BY <1>7 DEF X
<1>9. Sound(d, {})
  BY <1>1, <1>3, <1>8, DetachKept
<1>10. Fine(Owner(d))
  BY <1>9, OwnerFine
<1> QED
  BY <1>3, <1>10, BroadcastFine

\* A socket is gone.
LEMMA ClosedFine ==
    ASSUME RoomInv, NEW k \in 1..MaxSockets, Closed(k)
    PROVE  RoomInv'
<1> DEFINE r == [room EXCEPT !.open = @ \ {k}, !.closing = @ \ {k}]
           whose == {i \in Members(room) : room.m[i].ws = k}
<1>1. room' = r \/ \E i \in whose : room' \in Dropped(r, i)
  BY DEF Closed
<1>2. Fine(room) /\ Sound(room, {}) /\ room \in Rooms
  BY DEF RoomInv, Fine, Sound
<1>3. /\ r \in Rooms /\ r.match = room.match /\ r.m = room.m /\ r.members = room.members
      /\ r.mode = room.mode /\ r.owner = room.owner /\ r.sockets = room.sockets
      /\ r.plugs = room.plugs /\ r.open = room.open \ {k} /\ r.closing = room.closing \ {k}
  BY <1>2 DEF Rooms
<1> HIDE DEF r
<1>4. SocketsFit(r) /\ MatchFits(r) /\ \A j \in Ids : ToyFits(r, j)
  BY <1>2, <1>3 DEF Sound, SocketsFit, MatchFits, ToyFits
<1>5. \A j \in Ids : MemberFits(room, j)
  BY <1>2 DEF Sound
<1>6. Sound(r, {})
  BY <1>2, <1>3, <1>4, <1>5, Remade DEF MemberFits
<1>7. Fine(r) /\ Members(r) = Members(room)
  BY <1>2, <1>3, <1>6 DEF Fine, Owned, Members
<1> QED
  BY <1>1, <1>7, DroppedFine DEF RoomInv

\* Time passes.
LEMMA ClockFine ==
    ASSUME RoomInv, Clock
    PROVE  RoomInv'
<1> DEFINE r == room
           less(a) == IF a.ws = 0 /\ a.expires > 0 THEN [a EXCEPT !.expires = a.expires - 1] ELSE a
           m == [i \in Ids |-> less(r.m[i])]
           s == [r EXCEPT !.m = m]
<1>1. room' = s
  BY DEF Clock
<1>2. Fine(r) /\ Sound(r, {}) /\ r \in Rooms
  BY DEF RoomInv, Fine, Sound
<1>3. ASSUME NEW a \in MemberType
      PROVE  /\ less(a) \in MemberType /\ less(a).ws = a.ws /\ less(a).plug = a.plug
             /\ less(a).net = a.net /\ less(a).ready = a.ready /\ less(a).talk = a.talk
             /\ less(a).lobbyCount = a.lobbyCount
  <2>1. a.expires > 0 => a.expires - 1 \in 0..RESERVE_MS
    BY RoomAssumption DEF MemberType
  <2> QED
    BY <2>1 DEF MemberType
<1>4. less(Absent) = Absent
  BY DEF Absent
<1> HIDE DEF less
<1>5. /\ m \in [Ids -> MemberType]
      /\ \A i \in Ids : m[i].ws = r.m[i].ws /\ m[i].plug = r.m[i].plug
                        /\ m[i].net = r.m[i].net /\ m[i].ready = r.m[i].ready
                        /\ m[i].talk = r.m[i].talk /\ m[i].lobbyCount = r.m[i].lobbyCount
                        /\ (r.m[i] = Absent => m[i] = Absent)
  <2>1. \A i \in Ids : r.m[i] \in MemberType
    BY <1>2 DEF Rooms
  <2> QED
    BY <1>3, <1>4, <2>1
<1> HIDE DEF m
<1>6. /\ s \in Rooms /\ s.match = r.match /\ s.m = m /\ s.members = r.members
      /\ s.mode = r.mode /\ s.owner = r.owner /\ s.sockets = r.sockets /\ s.plugs = r.plugs
      /\ s.open = r.open /\ s.closing = r.closing
  BY <1>2, <1>5 DEF Rooms
<1> HIDE DEF s
<1>7. SocketsFit(s) /\ MatchFits(s)
  BY <1>2, <1>6 DEF Sound, SocketsFit, MatchFits
<1>8. \A j \in Ids : ToyFits(s, j)
  BY <1>2, <1>5, <1>6 DEF Sound, ToyFits
<1>9. \A j \in Ids : MemberFits(r, j)
  BY <1>2 DEF Sound
<1>10. Sound(s, {})
  BY <1>2, <1>5, <1>6, <1>7, <1>8, <1>9, Remade DEF MemberFits
<1> QED
  BY <1>1, <1>2, <1>6, <1>10 DEF RoomInv, Fine, Owned

\* A room with nobody in it.
EmptyRoom(r) ==
    /\ r.members = <<>> /\ r.owner = None /\ r.match = NoMatch
    /\ r.open = {} /\ r.closing = {} /\ \A i \in Ids : r.m[i] = Absent

\* It is fine.
LEMMA EmptyFine ==
    ASSUME NEW r \in Rooms, EmptyRoom(r)
    PROVE  Fine(r)
<1>1. Members(r) = {} /\ Len(r.members) = 0
  BY DEF EmptyRoom, Members, ToSet
<1>2. Listed(r)
  BY <1>1 DEF Listed, Capacity
<1>3. SocketsFit(r) /\ MatchFits(r) /\ Owned(r)
  BY DEF EmptyRoom, SocketsFit, MatchFits, NoMatch, Owned
<1>4. ASSUME NEW i \in Ids PROVE MemberFits(r, i)
  <2>1. r.m[i] = Absent /\ r.sockets \in Nat /\ r.plugs \in Nat
    BY DEF EmptyRoom, Rooms
  <2>2. Absent.ws = 0 /\ Absent.plug = 0 /\ Absent.net = NoNet /\ Absent.talk = {}
    BY DEF Absent
  <2> QED
    BY <2>1, <2>2 DEF MemberFits
<1>5. ASSUME NEW i \in Ids PROVE ToyFits(r, i)
  <2>1. Bare(r.m[i]) /\ i \notin r.match.connected
    BY DEF EmptyRoom, Bare, Absent, NoMatch
  <2> QED
    BY <2>1, BareFits
<1> QED
  BY <1>2, <1>3, <1>4, <1>5 DEF Fine, Sound

\* The room is closed.
LEMMA RoomExpiredFine ==
    ASSUME RoomInv, RoomExpired
    PROVE  RoomInv'
<1> DEFINE r == room
           m == [i \in Ids |-> Absent]
           empty == <<>>
           mt == NoMatch
           s == [r EXCEPT !.members = empty, !.owner = None, !.match = mt, !.m = m,
                          !.open = {}, !.closing = {}]
<1>1. room' = s
  BY DEF RoomExpired
<1>2. r \in Rooms
  BY DEF RoomInv, Fine, Sound
<1>3. Absent \in MemberType /\ NoMatch \in MatchType
  BY RoomAssumption DEF Absent, MemberType, NoNet, NetType, NoMatch, MatchType
<1>4. m \in [Ids -> MemberType] /\ \A i \in Ids : m[i] = Absent
  BY <1>3
<1>5. empty \in Seq(Ids) /\ None \in Ids \cup {None} /\ mt \in MatchType
  BY <1>3
<1> HIDE DEF m, empty, mt
<1>6. /\ s \in Rooms /\ s.match = mt /\ s.m = m /\ s.members = empty /\ s.owner = None
      /\ s.mode = r.mode /\ s.sockets = r.sockets /\ s.plugs = r.plugs
      /\ s.open = {} /\ s.closing = {}
  BY <1>2, <1>4, <1>5 DEF Rooms
<1> HIDE DEF s
<1>7. EmptyRoom(s)
  BY <1>4, <1>6 DEF EmptyRoom, empty, mt
<1> QED
  BY <1>1, <1>6, <1>7, EmptyFine DEF RoomInv

-----------------------------------------------------------------------------
(* The room                                                                 *)

\* RoomInv holds at the start.
LEMMA RoomInit == Init => RoomInv
<1> SUFFICES ASSUME Init PROVE RoomInv
  OBVIOUS
<1>1. PICK mode \in Modes :
        room = [mode |-> mode, members |-> <<>>, owner |-> None, m |-> [i \in Ids |-> Absent],
                match |-> NoMatch, open |-> {}, closing |-> {}, sockets |-> 0, plugs |-> 0]
  BY DEF Init
<1>2. Absent \in MemberType /\ NoMatch \in MatchType
  BY RoomAssumption DEF Absent, MemberType, NoNet, NetType, NoMatch, MatchType
<1>3. room \in Rooms
  BY <1>1, <1>2, RoomAssumption DEF Rooms
<1>4. EmptyRoom(room)
  BY <1>1 DEF EmptyRoom
<1> QED
  BY <1>3, <1>4, EmptyFine DEF RoomInv

\* Every step preserves RoomInv.
LEMMA RoomNext == RoomInv /\ [Next]_vars => RoomInv'
<1> SUFFICES ASSUME RoomInv, [Next]_vars PROVE RoomInv'
  OBVIOUS
<1>1. CASE Tick
  BY <1>1, TickFine
<1>2. CASE Clock
  BY <1>2, ClockFine
<1>3. CASE RoomExpired
  BY <1>3, RoomExpiredFine
<1>4. CASE \E k \in 1..MaxSockets : Closed(k)
  BY <1>4, ClosedFine
<1>5. ASSUME NEW i \in Ids, Create(i) \/ Join(i) \/ Leave(i) \/ Attach(i) PROVE RoomInv'
  BY <1>5, RequestsFine
<1>6. ASSUME NEW i \in Ids, Refuse(i) \/ Forward(i) \/ AdapterOff(i) \/ AdapterOn(i)
      PROVE  RoomInv'
  BY <1>6, RefuseFine, ForwardFine, AdapterOffFine, AdapterOnFine
<1>7. ASSUME NEW i \in Ids, Start(i) \/ Reset(i) \/ \E on \in BOOLEAN : SetReady(i, on)
      PROVE  RoomInv'
  BY <1>7, StartFine, ResetFine, SetReadyFine
<1>8. ASSUME NEW i \in Ids,
             ToyHello(i) \/ ToyReady(i) \/ ToyAck(i) \/ ToyBreaks(i) \/ ToyLeaves(i) \/ ToyPlays(i)
      PROVE  RoomInv'
  BY <1>8, ToySpeaksFine, ToyReadyFine, ToyGoesFine, ToyPlaysFine
<1>9. CASE UNCHANGED vars
  BY <1>9 DEF vars, RoomInv
<1> QED
  BY <1>1, <1>2, <1>3, <1>4, <1>5, <1>6, <1>7, <1>8, <1>9 DEF Next

\* The invariant says all of ToysHold.
LEMMA FineHolds == RoomInv => ToysHold
<1> SUFFICES ASSUME RoomInv PROVE ToysHold
  OBVIOUS
<1>1. /\ room \in Rooms /\ Listed(room) /\ SocketsFit(room) /\ MatchFits(room) /\ Owned(room)
      /\ \A i \in Ids : MemberFits(room, i) /\ ToyFits(room, i)
  BY DEF RoomInv, Fine, Sound
<1>2. /\ room.members \in Seq(Ids) /\ room.match \in MatchType
      /\ \A i \in Ids : room.m[i] \in MemberType
  BY <1>1 DEF Rooms
<1>3. Members(room) \subseteq Ids /\ room.match.connected \subseteq Ids
  BY <1>2 DEF Members, ToSet, MatchType
<1>4. TypeOK
  <2>1. Cardinality(Members(room)) = Len(room.members) /\ Len(room.members) <= Capacity(room)
    BY <1>1, <1>2, ListedOnce DEF Members, Listed
  <2>2. room.owner \in Ids \cup {None} /\ (room.owner = None <=> room.members = <<>>)
    BY <1>1 DEF Rooms, Owned
  <2>3. /\ room.match.phase \in Phases \cup {"none"}
        /\ room.match.unsent \subseteq room.match.connected
        /\ room.match.connected \subseteq room.match.roster /\ room.match.roster \subseteq Ids
    BY <1>1, <1>2 DEF MatchFits, MatchType
  <2>4. /\ room.open \cup room.closing \subseteq 1..room.sockets
        /\ room.open \cap room.closing = {}
    BY <1>1 DEF SocketsFit
  <2>5. ASSUME NEW i \in Ids
        PROVE  /\ room.m[i].ws \in 0..room.sockets /\ room.m[i].plug \in 0..room.plugs
               /\ room.m[i].expires \in 0..RESERVE_MS /\ room.m[i].ready \in BOOLEAN
               /\ i \notin Members(room) => room.m[i] = Absent
    BY <1>1, <1>2 DEF MemberFits, MemberType, Rooms
  <2> QED
    BY <1>2, <2>1, <2>2, <2>3, <2>4, <2>5 DEF TypeOK
<1>5. SeatIsItsToy
  BY <1>1, <1>3 DEF SeatIsItsToy, ToyFits
<1>6. BeliefsOfThisToy
  BY <1>1, <1>3 DEF BeliefsOfThisToy, ToyFits
<1>7. NoPeerInherited
  BY <1>1, <1>3 DEF NoPeerInherited, MemberFits
<1> QED
  BY <1>4, <1>5, <1>6, <1>7 DEF ToysHold

\* Whatever the room and the match believe of a toy, they believe of the one
\* that is there, whoever joins, drops out, unplugs, is slow or falls silent, for
\* any number of members, sockets and toys (server.ts, game-rooms.ts).
THEOREM ToysAreHeld == Spec => []ToysHold
<1>1. RoomInv /\ [Next]_vars => RoomInv'
  BY RoomNext
<1> QED
  BY <1>1, RoomInit, FineHolds, PTL DEF Spec

\* No session of a toy is used for a second match: a reset lets go of all of
\* them, and who plugs in again gets a new one.
THEOREM SessionsPlayOnce == Spec => []SessionPlaysOnce
<1>1. RoomInv /\ [Next]_vars => RoomInv'
  BY RoomNext
<1>2. RoomInv => SessionPlaysOnce
  <2> SUFFICES ASSUME RoomInv PROVE SessionPlaysOnce
    OBVIOUS
  <2>1. (\A i \in Ids : ToyFits(room, i)) /\ Members(room) \subseteq Ids
    BY DEF RoomInv, Fine, Sound, Rooms, Members, ToSet
  <2> QED
    BY <2>1 DEF SessionPlaysOnce, ToyFits
<1> QED
  BY <1>1, <1>2, RoomInit, PTL DEF Spec

=============================================================================
