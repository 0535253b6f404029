----------------------------- MODULE LobbyProofs -----------------------------
(***************************************************************************)
(* The stock room and the pages of its players, proved for any ids and any  *)
(* number of connections, for every length of the countdown and of the      *)
(* reservation.  The handlers are built from operators that take and return *)
(* a room, so the invariant is stated of a room r: what a room must be for  *)
(* Broadcast to make it right (Prepared), and what it is then (Right).      *)
(* Then the observer the room starts for an exchange, for a queue of any    *)
(* size and an exchange of any length.                                      *)
(***************************************************************************)
EXTENDS StockView, Outcome, FiniteSetTheorems, TLAPS

MemberType == [slot : {0, 1}, legacy : BOOLEAN, connected : BOOLEAN,
               adapter : {"yes", "no", "unknown"}, starterChoice : BOOLEAN,
               connection : 0..MaxConnections, ws : 0..MaxConnections,
               expires : 0..RESERVE_MS]

\* A record with the room's fields; what members were told and shown is kept
\* per id.
IsRoom(r) ==
    /\ DOMAIN r = {"members", "m", "starterId", "startPrompt", "outcome", "readyTimer",
                   "observation", "running", "open", "closing", "told", "seen"}
    /\ DOMAIN r.told = Ids /\ DOMAIN r.seen = Ids

Shape(r) ==
    /\ IsRoom(r)
    /\ r.members \subseteq Ids /\ r.m \in [Ids -> MemberType]
    /\ r.starterId \in Ids \cup {None} /\ r.startPrompt \in Prompts
    /\ r.outcome \in Outcomes /\ r.readyTimer \in -1..READY_MS
    /\ r.observation \in Attempts \cup {0} /\ r.running \subseteq Attempts
    /\ r.open \subseteq Ids \X (1..MaxConnections)
    /\ r.closing \subseteq Ids \X (1..MaxConnections)

\* Two members have two seats, an old client the guest's; of a new client's
\* adapter the server knows.
Distinct(r) ==
    /\ \A i, j \in r.members : i # j => r.m[i].slot # r.m[j].slot
    /\ \A i \in r.members : r.m[i].legacy => r.m[i].slot = 1
    /\ \A i \in r.members : ~r.m[i].legacy => r.m[i].adapter # "unknown"

Sockets(r) == r.open \cup r.closing

\* A connected member's socket is the one it attached last and not known to be
\* gone; a member that is away has none, and no socket is later than its last.
Connections(r) ==
    \A i \in r.members :
        /\ r.m[i].connected => r.m[i].ws = r.m[i].connection
                               /\ <<i, r.m[i].connection>> \in Sockets(r)
        /\ ~r.m[i].connected => r.m[i].ws = 0 /\ <<i, r.m[i].connection>> \notin Sockets(r)
        /\ \A k \in 1..MaxConnections : <<i, k>> \in Sockets(r) => k <= r.m[i].connection

\* What an old client shows is what it was told.
ToldShown(r) ==
    \A i \in Reached(r) : r.m[i].legacy => r.seen[i] = <<r.told[i] # <<>> >>

Seated(r) == Shape(r) /\ Distinct(r) /\ Connections(r) /\ ToldShown(r)

\* PromptHolds of any room, and an observer runs only while its attempt is up.
Backed(r) ==
    r.startPrompt # "none" =>
        CanChooseStarter(r) /\ \A i \in r.members : r.m[i].adapter = "yes"
Followed(r) ==
    /\ r.startPrompt = "ready" <=> r.readyTimer # -1
    /\ r.startPrompt \in {"ready", "started"} =>
          r.observation # 0 /\ r.outcome \in {"exchanging", "progress"}
    /\ r.outcome = "interrupted" => r.startPrompt = "prepare"
    /\ r.running \subseteq {r.observation}
    /\ r.running # {} => r.startPrompt \in {"ready", "started"}

Prepared(r) == Seated(r) /\ Backed(r) /\ Followed(r)

\* What Broadcast adds: a starter of the pair, and everybody shown the room.
Two(r) == \E i, j \in r.members : i # j
Led(r) ==
    Two(r) => /\ r.starterId \in r.members
              /\ (\E i \in r.members : r.m[i].legacy) => r.m[r.starterId].slot = 1
Shown(r) ==
    \A i \in Reached(r) :
        IF r.m[i].legacy THEN r.told[i] = Signature(r, i) ELSE r.seen[i] = Snapshot(r)

Right(r) == Prepared(r) /\ Led(r) /\ Shown(r)

\* The invariant of the room.
IInv == Right(room)

-----------------------------------------------------------------------------
(* Entries of members                                                       *)

\* An entry one field of which is set anew is still an entry.
LEMMA EntryWith ==
    ASSUME NEW e \in MemberType
    PROVE  /\ \A b \in BOOLEAN : /\ [e EXCEPT !.legacy = b] \in MemberType
                                 /\ [e EXCEPT !.connected = b] \in MemberType
                                 /\ [e EXCEPT !.starterChoice = b] \in MemberType
           /\ \A k \in 0..MaxConnections : /\ [e EXCEPT !.ws = k] \in MemberType
                                           /\ [e EXCEPT !.connection = k] \in MemberType
           /\ \A z \in {0, 1} : [e EXCEPT !.slot = z] \in MemberType
           /\ \A a \in {"yes", "no", "unknown"} : [e EXCEPT !.adapter = a] \in MemberType
           /\ \A n \in 0..RESERVE_MS : [e EXCEPT !.expires = n] \in MemberType
  BY DEF MemberType

\* The entry of a member who is attached, or whose socket is gone.
LEMMA EntryOf ==
    ASSUME NEW e \in MemberType, NEW k \in 0..MaxConnections, NEW c \in BOOLEAN,
           NEW a \in {"yes", "no", "unknown"}, NEW n \in 0..RESERVE_MS
    PROVE  /\ [e EXCEPT !.ws = k, !.connection = k, !.connected = c, !.adapter = a,
                        !.starterChoice = FALSE, !.expires = n] \in MemberType
           /\ [e EXCEPT !.ws = k, !.connected = c, !.adapter = a,
                        !.starterChoice = FALSE, !.expires = n] \in MemberType
<1> DEFINE w == [e EXCEPT !.ws = k]
           later(d) == [[[[d EXCEPT !.connected = c] EXCEPT !.adapter = a]
                           EXCEPT !.starterChoice = FALSE] EXCEPT !.expires = n]
<1>1. w \in MemberType
  BY EntryWith
<1>2. [w EXCEPT !.connection = k] \in MemberType
  <2> HIDE DEF w
  <2> QED
    BY <1>1, EntryWith
<1>3. ASSUME NEW d \in MemberType PROVE later(d) \in MemberType
  <2> DEFINE d1 == [d EXCEPT !.connected = c]
             d2 == [d1 EXCEPT !.adapter = a]
             d3 == [d2 EXCEPT !.starterChoice = FALSE]
  <2>1. d1 \in MemberType
    BY EntryWith
  <2> HIDE DEF d1
  <2>2. d2 \in MemberType
    BY <2>1, EntryWith
  <2> HIDE DEF d2
  <2>3. d3 \in MemberType
    BY <2>2, EntryWith
  <2> HIDE DEF d3
  <2>4. [d3 EXCEPT !.expires = n] \in MemberType
    BY <2>3, EntryWith
  <2> QED
    BY <2>4, Zenon DEF d1, d2, d3
<1>4. later(w) \in MemberType /\ later([w EXCEPT !.connection = k]) \in MemberType
  <2> HIDE DEF w, later
  <2> QED
    BY <1>1, <1>2, <1>3
<1> QED
  BY <1>4, Zenon

\* The entry of a member who is new.
LEMMA EntryAdded ==
    ASSUME NEW z \in {0, 1}, NEW old \in BOOLEAN
    PROVE  [Absent EXCEPT !.slot = z, !.legacy = old,
                          !.adapter = IF old THEN "unknown" ELSE "no",
                          !.expires = RESERVE_MS] \in MemberType
<1> DEFINE e1 == [Absent EXCEPT !.slot = z]
           e2 == [e1 EXCEPT !.legacy = old]
           e3 == [e2 EXCEPT !.adapter = IF old THEN "unknown" ELSE "no"]
<1>0. Absent \in MemberType /\ RESERVE_MS \in 0..RESERVE_MS
  BY LobbyAssumption DEF Absent, MemberType
<1>1. e1 \in MemberType
  BY <1>0, EntryWith
<1> HIDE DEF e1
<1>2. e2 \in MemberType
  BY <1>1, EntryWith
<1> HIDE DEF e2
<1>3. e3 \in MemberType
  BY <1>2, EntryWith
<1> HIDE DEF e3
<1>4. [e3 EXCEPT !.expires = RESERVE_MS] \in MemberType
  BY <1>0, <1>3, EntryWith
<1> QED
  BY <1>4, Zenon DEF e1, e2, e3

-----------------------------------------------------------------------------
(* The operators the handlers share                                         *)

\* Two seats make two members a pair, and the second seat its guest.
LEMMA PairMeans ==
    ASSUME NEW r, Shape(r), Distinct(r)
    PROVE  /\ Pair(r) <=> Two(r)
           /\ Two(r) => Guest(r) \in r.members /\ r.m[Guest(r)].slot = 1
           /\ Guest(r) \in Ids \cup {None}
<1>1. ASSUME Two(r) PROVE Pair(r)
  <2> PICK i \in r.members, j \in r.members : i # j
    BY <1>1 DEF Two
  <2>1. r.members = {i} \cup {j}
    BY DEF Distinct, Shape, MemberType
  <2>2. IsFiniteSet({i}) /\ Cardinality({i}) = 1
    BY FS_Singleton
  <2>3. Cardinality({i} \cup {j}) = Cardinality({i}) + 1
    BY <2>2, FS_AddElement
  <2> QED
    BY <2>1, <2>2, <2>3 DEF Pair
<1>2. ASSUME ~Two(r) PROVE ~Pair(r)
  <2>1. r.members = {} \/ \E i : r.members = {i}
    BY <1>2 DEF Two
  <2> QED
    BY <2>1, FS_EmptySet, FS_Singleton DEF Pair
<1>3. ASSUME Two(r) PROVE \E i \in r.members : r.m[i].slot = 1
  BY <1>3 DEF Two, Distinct, Shape, MemberType
<1>4. (\E i \in r.members : r.m[i].slot = 1) => Guest(r) \in r.members /\ r.m[Guest(r)].slot = 1
  BY DEF Guest
<1>5. Guest(r) \in Ids \cup {None}
  BY <1>4 DEF Guest, Shape
<1> QED
  BY <1>1, <1>2, <1>3, <1>4, <1>5

\* What resetting the start leaves alone, and what it sets.
LEMMA ResetIs ==
    ASSUME NEW r, IsRoom(r)
    PROVE  LET s == ResetStart(r)
           IN  /\ IsRoom(s)
               /\ s.members = r.members /\ s.m = r.m /\ s.starterId = r.starterId
               /\ s.open = r.open /\ s.closing = r.closing
               /\ s.told = r.told /\ s.seen = r.seen
               /\ s.startPrompt = "none" /\ s.outcome = "none" /\ s.readyTimer = -1
               /\ s.observation = 0 /\ s.running = r.running \ {r.observation}
  BY DEF ResetStart, IsRoom

\* What taking members away changes.
LEMMA WithoutIs ==
    ASSUME NEW r, IsRoom(r), NEW gone
    PROVE  LET s == Without(r, gone)
           IN  /\ IsRoom(s)
               /\ s.members = r.members \ gone
               /\ s.m = [i \in Ids |-> IF i \in gone THEN Absent ELSE r.m[i]]
               /\ s.starterId = r.starterId /\ s.startPrompt = r.startPrompt
               /\ s.outcome = r.outcome /\ s.readyTimer = r.readyTimer
               /\ s.observation = r.observation /\ s.running = r.running
               /\ s.open = r.open /\ s.closing = r.closing
               /\ s.told = [i \in Ids |-> IF i \in gone THEN <<>> ELSE r.told[i]]
               /\ s.seen = [i \in Ids |-> IF i \in gone THEN <<>> ELSE r.seen[i]]
  BY DEF Without, IsRoom

\* What closing sockets changes.
LEMMA CloseIs ==
    ASSUME NEW r, IsRoom(r), NEW ws
    PROVE  LET s == Close(r, ws)
               left(i) == <<i, r.m[i].ws>> \in ws
           IN  /\ IsRoom(s)
               /\ s.members = r.members /\ s.m = r.m /\ s.starterId = r.starterId
               /\ s.startPrompt = r.startPrompt
               /\ s.outcome = r.outcome /\ s.readyTimer = r.readyTimer
               /\ s.observation = r.observation /\ s.running = r.running
               /\ s.open = r.open \ ws /\ s.closing = r.closing \cup (r.open \cap ws)
               /\ s.told = [i \in Ids |-> IF left(i) THEN <<>> ELSE r.told[i]]
               /\ s.seen = [i \in Ids |-> IF left(i) THEN <<>> ELSE r.seen[i]]
  BY DEF Close, IsRoom

\* What a broadcast changes; t is the room it speaks of.
LEMMA BroadcastIs ==
    ASSUME NEW r, IsRoom(r)
    PROVE  LET s == Broadcast(r)
               t == [r EXCEPT !.starterId = Starter(r)]
           IN  /\ IsRoom(s) /\ IsRoom(t)
               /\ s.members = r.members /\ s.m = r.m /\ s.starterId = Starter(r)
               /\ s.startPrompt = r.startPrompt
               /\ s.outcome = r.outcome /\ s.readyTimer = r.readyTimer
               /\ s.observation = r.observation /\ s.running = r.running
               /\ s.open = r.open /\ s.closing = r.closing
               /\ t.members = r.members /\ t.m = r.m /\ t.starterId = Starter(r)
               /\ t.startPrompt = r.startPrompt /\ t.outcome = r.outcome
               /\ t.open = r.open /\ t.told = r.told /\ t.seen = r.seen
               /\ s.seen = [i \in Ids |->
                     IF i \notin Reached(t) THEN <<>>
                     ELSE IF ~r.m[i].legacy THEN Snapshot(t)
                     ELSE IF Signature(t, i) # r.told[i] THEN <<Signature(t, i) # <<>> >>
                     ELSE r.seen[i]]
               /\ s.told = [i \in Ids |->
                     IF i \in Reached(t) /\ r.m[i].legacy THEN Signature(t, i) ELSE <<>>]
  BY DEF Broadcast, IsRoom

-----------------------------------------------------------------------------
(* What the operators keep                                                  *)

\* Rooms whose members are alike look alike.
LEMMA SameView ==
    ASSUME NEW r, NEW s, s.members = r.members,
           \A i \in r.members :
              /\ s.m[i].slot = r.m[i].slot /\ s.m[i].legacy = r.m[i].legacy
              /\ s.m[i].connected = r.m[i].connected /\ s.m[i].adapter = r.m[i].adapter
              /\ s.m[i].starterChoice = r.m[i].starterChoice
              /\ s.m[i].connection = r.m[i].connection
    PROVE  /\ CanChooseStarter(s) = CanChooseStarter(r)
           /\ \A i : Signature(s, i) = Signature(r, i)
           /\ s.starterId = r.starterId /\ s.startPrompt = r.startPrompt /\ s.outcome = r.outcome
              => Snapshot(s) = Snapshot(r)
<1>1. CanChooseStarter(s) = CanChooseStarter(r)
  BY DEF CanChooseStarter, Pair
<1>2. ASSUME NEW i PROVE Signature(s, i) = Signature(r, i)
  <2> DEFINE peers(q) == {j \in q.members \ {i} : q.m[j].connected}
             told(q) == CHOOSE j \in peers(q) : TRUE
  <2>1. peers(s) = peers(r)
    OBVIOUS
  <2>2. peers(r) # {} => told(r) \in r.members
    OBVIOUS
  <2>3. told(s) = told(r)
    BY <2>1
  <2> QED
    BY <2>1, <2>2, <2>3 DEF Signature
<1>3. {<<i, s.m[i].slot, s.m[i].connected, s.m[i].adapter, s.m[i].connection>> : i \in s.members}
      = {<<i, r.m[i].slot, r.m[i].connected, r.m[i].adapter, r.m[i].connection>> : i \in r.members}
  OBVIOUS
<1> QED
  BY <1>1, <1>2, <1>3 DEF Snapshot

\* A signature tells whether a peer is connected.
LEMMA SignatureMeans ==
    ASSUME NEW r, NEW i
    PROVE  Signature(r, i) # <<>> <=> \E j \in r.members \ {i} : r.m[j].connected
<1> DEFINE peers == {j \in r.members \ {i} : r.m[j].connected}
           j == CHOOSE j \in peers : TRUE
<1>1. <<j, r.m[j].connection>> # <<>>
  OBVIOUS
<1> QED
  BY <1>1 DEF Signature

\* The start of any seated room can be reset, which leaves no prompt and no
\* observer.
LEMMA ResetKeeps ==
    ASSUME NEW r, Seated(r), r.running \subseteq {r.observation}
    PROVE  Prepared(ResetStart(r))
<1> DEFINE s == ResetStart(r)
<1>1. IsRoom(r)
  BY DEF Seated, Shape
<1> HIDE DEF s
<1>2. /\ IsRoom(s)
      /\ s.members = r.members /\ s.m = r.m /\ s.starterId = r.starterId
      /\ s.open = r.open /\ s.closing = r.closing
      /\ s.told = r.told /\ s.seen = r.seen
      /\ s.startPrompt = "none" /\ s.outcome = "none" /\ s.readyTimer = -1
      /\ s.observation = 0 /\ s.running = {}
  BY <1>1, ResetIs DEF s
<1>3. Shape(s)
  BY <1>2, LobbyAssumption DEF Seated, Shape, Prompts, Outcomes
<1>4. Distinct(s) /\ Connections(s) /\ ToldShown(s)
  BY <1>2 DEF Seated, Distinct, Connections, ToldShown, Sockets, Reached
<1>5. Backed(s) /\ Followed(s)
  BY <1>2 DEF Backed, Followed
<1> QED
  BY <1>3, <1>4, <1>5 DEF s, Prepared, Seated

\* Members can be taken away.
LEMMA WithoutKeeps ==
    ASSUME NEW r, NEW gone, Seated(r)
    PROVE  Seated(Without(r, gone))
<1> DEFINE s == Without(r, gone)
<1>0. IsRoom(r)
  BY DEF Seated, Shape
<1> HIDE DEF s
<1>1. /\ IsRoom(s)
      /\ s.members = r.members \ gone
      /\ s.m = [i \in Ids |-> IF i \in gone THEN Absent ELSE r.m[i]]
      /\ s.starterId = r.starterId /\ s.startPrompt = r.startPrompt
      /\ s.outcome = r.outcome /\ s.readyTimer = r.readyTimer
      /\ s.observation = r.observation /\ s.running = r.running
      /\ s.open = r.open /\ s.closing = r.closing
      /\ s.told = [i \in Ids |-> IF i \in gone THEN <<>> ELSE r.told[i]]
      /\ s.seen = [i \in Ids |-> IF i \in gone THEN <<>> ELSE r.seen[i]]
  BY <1>0, WithoutIs DEF s
<1>2. \A i \in s.members : i \in r.members /\ i \in Ids /\ s.m[i] = r.m[i]
                           /\ s.told[i] = r.told[i] /\ s.seen[i] = r.seen[i]
  BY <1>1 DEF Seated, Shape
<1>3. Absent \in MemberType
  BY LobbyAssumption DEF Absent, MemberType
<1>4. Shape(s)
  BY <1>1, <1>3 DEF Seated, Shape
<1>5. Distinct(s)
  BY <1>2 DEF Seated, Distinct
<1>6. Connections(s)
  <2>1. Sockets(s) = Sockets(r)
    BY <1>1 DEF Sockets
  <2>2. Connections(r)
    BY DEF Seated
  <2> QED
    BY <1>2, <2>1, <2>2 DEF Connections
<1>7. ToldShown(s)
  BY <1>1, <1>2 DEF Seated, ToldShown, Reached
<1> QED
  BY <1>4, <1>5, <1>6, <1>7 DEF Seated, s

\* A broadcast makes a prepared room right: its starter is one of the pair, and
\* everyone reachable has the room as it now is.
LEMMA BroadcastKeeps ==
    ASSUME NEW r, Prepared(r)
    PROVE  Right(Broadcast(r))
<1> DEFINE s == Broadcast(r)
           t == [r EXCEPT !.starterId = Starter(r)]
<1>0. IsRoom(r) /\ Shape(r) /\ Distinct(r)
  BY DEF Prepared, Seated, Shape
<1> HIDE DEF s, t
<1>1. /\ IsRoom(s)
      /\ s.members = r.members /\ s.m = r.m /\ s.starterId = Starter(r)
      /\ s.startPrompt = r.startPrompt
      /\ s.outcome = r.outcome /\ s.readyTimer = r.readyTimer
      /\ s.observation = r.observation /\ s.running = r.running
      /\ s.open = r.open /\ s.closing = r.closing
      /\ t.members = r.members /\ t.m = r.m /\ t.starterId = Starter(r)
      /\ t.startPrompt = r.startPrompt /\ t.outcome = r.outcome /\ t.open = r.open
      /\ s.seen = [i \in Ids |->
            IF i \notin Reached(t) THEN <<>>
            ELSE IF ~r.m[i].legacy THEN Snapshot(t)
            ELSE IF Signature(t, i) # r.told[i] THEN <<Signature(t, i) # <<>> >>
            ELSE r.seen[i]]
      /\ s.told = [i \in Ids |->
            IF i \in Reached(t) /\ r.m[i].legacy THEN Signature(t, i) ELSE <<>>]
  BY <1>0, BroadcastIs DEF s, t
<1>2. Pair(r) <=> Two(r)
  BY <1>0, PairMeans
<1>3. /\ Starter(r) \in Ids \cup {None}
      /\ Two(r) => /\ Starter(r) \in r.members
                   /\ (\E i \in r.members : r.m[i].legacy) => r.m[Starter(r)].slot = 1
  BY <1>0, <1>2, PairMeans DEF Starter, Shape
<1>4. Reached(s) = Reached(r) /\ Reached(t) = Reached(r) /\ Reached(r) \subseteq Ids
  BY <1>0, <1>1 DEF Reached, Shape
<1>5. Snapshot(s) = Snapshot(t) /\ \A i : Signature(s, i) = Signature(t, i)
  <2>1. s.members = t.members /\ s.m = t.m
    BY <1>1
  <2>2. s.starterId = t.starterId /\ s.startPrompt = t.startPrompt /\ s.outcome = t.outcome
    BY <1>1
  <2> QED
    BY <2>1, <2>2, SameView
<1>6. Shape(s)
  BY <1>0, <1>1, <1>3 DEF Shape
<1>7. Distinct(s) /\ Connections(s)
  BY <1>1 DEF Prepared, Seated, Distinct, Connections, Sockets
<1>8. ToldShown(s)
  BY <1>1, <1>4 DEF Prepared, Seated, ToldShown
<1>9. Backed(s) /\ Followed(s)
  BY <1>1, SameView DEF Prepared, Backed, Followed
<1>10. Led(s)
  BY <1>1, <1>3 DEF Led, Two
<1>11. Shown(s)
  BY <1>1, <1>4, <1>5 DEF Shown
<1> QED
  BY <1>6, <1>7, <1>8, <1>9, <1>10, <1>11 DEF Right, Prepared, Seated, s

\* Sockets can be closed in any room that is right, and in one that is
\* prepared: who is still reachable was not told anything else.
LEMMA CloseKeeps ==
    ASSUME NEW r, NEW ws, Seated(r)
    PROVE  /\ Seated(Close(r, ws))
           /\ Prepared(r) => Prepared(Close(r, ws))
           /\ Right(r) => Right(Close(r, ws))
<1> DEFINE s == Close(r, ws)
           left(i) == <<i, r.m[i].ws>> \in ws
<1>0. IsRoom(r) /\ Shape(r)
  BY DEF Seated, Shape
<1> HIDE DEF s
<1>1. /\ IsRoom(s)
      /\ s.members = r.members /\ s.m = r.m /\ s.starterId = r.starterId
      /\ s.startPrompt = r.startPrompt
      /\ s.outcome = r.outcome /\ s.readyTimer = r.readyTimer
      /\ s.observation = r.observation /\ s.running = r.running
      /\ s.open = r.open \ ws /\ s.closing = r.closing \cup (r.open \cap ws)
      /\ s.told = [i \in Ids |-> IF left(i) THEN <<>> ELSE r.told[i]]
      /\ s.seen = [i \in Ids |-> IF left(i) THEN <<>> ELSE r.seen[i]]
  BY <1>0, CloseIs DEF s
<1>2. Sockets(s) = Sockets(r)
  BY <1>1 DEF Sockets
<1>3. \A i \in Reached(s) : i \in Reached(r) /\ s.told[i] = r.told[i] /\ s.seen[i] = r.seen[i]
  BY <1>0, <1>1 DEF Reached, Shape
<1>4. Shape(s)
  BY <1>0, <1>1 DEF Shape
<1>5. Distinct(s) /\ Connections(s)
  BY <1>1, <1>2 DEF Seated, Distinct, Connections
<1>6. ASSUME NEW i \in Reached(s), s.m[i].legacy PROVE s.seen[i] = <<s.told[i] # <<>> >>
  <2>1. r.seen[i] = <<r.told[i] # <<>> >>
    BY <1>1, <1>3, <1>6 DEF Seated, ToldShown
  <2> QED
    BY <1>3, <2>1
<1>7. Prepared(r) => Backed(s) /\ Followed(s)
  BY <1>1, SameView DEF Prepared, Backed, Followed
<1>8. Right(r) => Led(s)
  BY <1>1 DEF Right, Led, Two
<1>9. (\A i : Signature(s, i) = Signature(r, i)) /\ Snapshot(s) = Snapshot(r)
  BY <1>1, SameView
<1>10. Right(r) => Shown(s)
  BY <1>1, <1>3, <1>9 DEF Right, Shown
<1>11. ToldShown(s)
  BY <1>6 DEF ToldShown
<1> QED
  BY <1>4, <1>5, <1>7, <1>8, <1>10, <1>11 DEF Right, Prepared, Seated, s

\* A sweep leaves a room right, and takes only seats whose reservation ended.
LEMMA SweepKeeps ==
    ASSUME NEW r, Right(r)
    PROVE  /\ Right(Sweep(r))
           /\ Sweep(r).members = r.members \ Expired(r)
           /\ Sweep(r).open = r.open /\ Sweep(r).closing = r.closing
           /\ \A i \in Sweep(r).members : Sweep(r).m[i] = r.m[i]
<1>1. CASE Expired(r) = {}
  BY <1>1 DEF Sweep
<1>2. CASE Expired(r) # {}
  <2> PICK gone : gone = Expired(r)
    OBVIOUS
  <2> DEFINE w == Without(r, gone)
             s == ResetStart(w)
  <2>0. Seated(r) /\ IsRoom(r) /\ r.running \subseteq {r.observation} /\ r.members \subseteq Ids
    BY DEF Right, Prepared, Seated, Shape, Followed
  <2> HIDE DEF w, s
  <2>1. Seated(w)
    BY <2>0, WithoutKeeps DEF w
  <2>2. /\ IsRoom(w)
        /\ w.members = r.members \ gone
        /\ w.m = [i \in Ids |-> IF i \in gone THEN Absent ELSE r.m[i]]
        /\ w.starterId = r.starterId /\ w.startPrompt = r.startPrompt
        /\ w.outcome = r.outcome /\ w.readyTimer = r.readyTimer
        /\ w.observation = r.observation /\ w.running = r.running
        /\ w.open = r.open /\ w.closing = r.closing
        /\ w.told = [i \in Ids |-> IF i \in gone THEN <<>> ELSE r.told[i]]
        /\ w.seen = [i \in Ids |-> IF i \in gone THEN <<>> ELSE r.seen[i]]
    <3>1. IsRoom(r)
      BY <2>0
    <3> QED
      BY <3>1, WithoutIs DEF w
  <2>3. Prepared(s)
    BY <2>0, <2>1, <2>2, ResetKeeps DEF s
  <2>4. /\ IsRoom(s) /\ s.members = w.members /\ s.m = w.m
        /\ s.open = w.open /\ s.closing = w.closing
    BY <2>2, ResetIs DEF s
  <2>5. /\ Broadcast(s).members = s.members /\ Broadcast(s).m = s.m
        /\ Broadcast(s).open = s.open /\ Broadcast(s).closing = s.closing
    BY <2>4, BroadcastIs
  <2>6. Sweep(r) = Broadcast(s)
    BY <1>2 DEF Sweep, s, w
  <2>7. Right(Broadcast(s))
    BY <2>3, BroadcastKeeps
  <2> QED
    BY <2>0, <2>2, <2>4, <2>5, <2>6, <2>7
<1> QED
  BY <1>1, <1>2

\* A seat that is free can be taken; there is no prompt before there are two.
LEMMA AddKeeps ==
    ASSUME NEW r, Right(r), NEW i \in Ids, i \notin r.members,
           \A ws \in r.open \cup r.closing : ws[1] # i,
           NEW old \in BOOLEAN, ~Two(r),
           old => \E j \in r.members : r.m[j].slot = 0
    PROVE  Right(Add(r, i, old))
<1> DEFINE z == IF \E j \in r.members : r.m[j].slot = 0 THEN 1 ELSE 0
           entry == [Absent EXCEPT !.slot = z, !.legacy = old,
                                   !.adapter = IF old THEN "unknown" ELSE "no",
                                   !.expires = RESERVE_MS]
           s == [r EXCEPT !.members = @ \cup {i}, !.m[i] = entry]
<1>0. IsRoom(r) /\ Shape(r) /\ Distinct(r) /\ Connections(r) /\ ToldShown(r)
  BY DEF Right, Prepared, Seated, Shape
<1>1. /\ entry \in MemberType /\ entry.legacy = old /\ ~entry.connected
      /\ entry.ws = 0 /\ entry.connection = 0
      /\ entry.slot = z /\ (~old => entry.adapter = "no")
  <2> HIDE DEF z
  <2>1. z \in {0, 1}
    BY DEF z
  <2>2. entry \in MemberType
    BY <2>1, EntryAdded
  <2> QED
    BY <2>2 DEF Absent
<1> HIDE DEF entry
<1>2. /\ IsRoom(s)
      /\ s.members = r.members \cup {i} /\ s.m = [r.m EXCEPT ![i] = entry]
      /\ s.starterId = r.starterId /\ s.startPrompt = r.startPrompt
      /\ s.outcome = r.outcome /\ s.readyTimer = r.readyTimer
      /\ s.observation = r.observation /\ s.running = r.running
      /\ s.open = r.open /\ s.closing = r.closing /\ s.told = r.told /\ s.seen = r.seen
  BY <1>0 DEF IsRoom
<1>3. Add(r, i, old) = Broadcast(s)
  BY DEF Add, entry
<1> HIDE DEF s
<1>4. s.m[i] = entry /\ \A j \in r.members : j # i /\ s.m[j] = r.m[j]
  BY <1>0, <1>2 DEF Shape
<1>5. Shape(s)
  BY <1>0, <1>1, <1>2 DEF Shape
<1>6. Distinct(s)
  <2>1. \A j \in r.members : r.m[j].slot # entry.slot
    BY <1>0, <1>1 DEF Two, Shape, MemberType
  <2>2. (entry.legacy => entry.slot = 1) /\ (~entry.legacy => entry.adapter # "unknown")
    BY <1>1
  <2> QED
    BY <1>0, <1>2, <1>4, <2>1, <2>2 DEF Distinct
<1>7. \A k : <<i, k>> \notin Sockets(s)
  BY <1>2 DEF Sockets
<1>8. Connections(s)
  <2>1. Sockets(s) = Sockets(r)
    BY <1>2 DEF Sockets
  <2> QED
    BY <1>0, <1>1, <1>2, <1>4, <1>7, <2>1 DEF Connections
<1>9. ToldShown(s)
  <2>1. Reached(s) = Reached(r)
    BY <1>2, <1>4, <1>7 DEF Reached, Sockets
  <2> QED
    BY <1>0, <1>2, <1>4, <2>1 DEF ToldShown, Reached
<1>10. Backed(s) /\ Followed(s)
  <2>1. r.startPrompt = "none"
    BY <1>0, PairMeans DEF Right, Prepared, Backed, CanChooseStarter
  <2> QED
    BY <1>2, <2>1 DEF Right, Prepared, Backed, Followed
<1> QED
  BY <1>3, <1>5, <1>6, <1>8, <1>9, <1>10, BroadcastKeeps DEF Prepared, Seated

\* A socket that is attached to a seat is its latest.
LEMMA AttachedKeeps ==
    ASSUME NEW r, Right(r), NEW i \in r.members, r.m[i].connection < MaxConnections
    PROVE  Right(Attached(r, i))
<1> DEFINE k == r.m[i].connection + 1
           s == ResetStart(r)
           entry == [s.m[i] EXCEPT !.ws = k, !.connection = k, !.connected = TRUE,
                                   !.adapter = IF r.m[i].legacy THEN "unknown" ELSE "no",
                                   !.starterChoice = FALSE, !.expires = 0]
           t == [s EXCEPT !.m[i] = entry, !.told[i] = <<>>,
                          !.seen[i] = IF r.m[i].legacy THEN <<FALSE>> ELSE <<>>,
                          !.open = @ \cup {<<i, k>>}]
           u == Close(t, {<<i, r.m[i].ws>>})
<1>0. IsRoom(r) /\ Shape(r) /\ Connections(r) /\ ToldShown(r) /\ i \in Ids /\ Seated(r)
      /\ r.running \subseteq {r.observation}
  BY DEF Right, Prepared, Seated, Shape, Followed
<1> HIDE DEF s
<1>1. Prepared(s)
  BY <1>0, ResetKeeps DEF s
<1>2. /\ IsRoom(s) /\ s.members = r.members /\ s.m = r.m
      /\ s.open = r.open /\ s.closing = r.closing /\ s.told = r.told /\ s.seen = r.seen
      /\ s.startPrompt = "none" /\ s.outcome = "none" /\ s.readyTimer = -1
      /\ s.observation = 0 /\ s.running = r.running \ {r.observation}
  BY <1>0, ResetIs DEF s
<1>3. k \in 1..MaxConnections /\ r.m[i] \in MemberType
  BY <1>0, LobbyAssumption DEF Shape, MemberType
<1>4. /\ entry \in MemberType /\ entry.connected /\ entry.ws = k /\ entry.connection = k
      /\ entry.slot = r.m[i].slot /\ entry.legacy = r.m[i].legacy
      /\ (~entry.legacy => entry.adapter = "no")
  <2>1. 0 \in 0..RESERVE_MS /\ k \in 0..MaxConnections /\ s.m[i] = r.m[i]
    BY <1>2, <1>3, LobbyAssumption
  <2> HIDE DEF k
  <2>2. entry \in MemberType
    <3> DEFINE a == IF r.m[i].legacy THEN "unknown" ELSE "no"
    <3>1. a \in {"yes", "no", "unknown"}
      OBVIOUS
    <3> HIDE DEF a
    <3>2. [s.m[i] EXCEPT !.ws = k, !.connection = k, !.connected = TRUE, !.adapter = a,
                         !.starterChoice = FALSE, !.expires = 0] \in MemberType
      BY <1>3, <2>1, <3>1, EntryOf
    <3> QED
      BY <3>2 DEF a
  <2> QED
    BY <1>3, <2>1, <2>2 DEF MemberType
<1> HIDE DEF entry
<1>5. /\ IsRoom(t) /\ t.members = r.members /\ t.m = [r.m EXCEPT ![i] = entry]
      /\ t.starterId = s.starterId /\ t.startPrompt = "none" /\ t.outcome = "none"
      /\ t.readyTimer = -1 /\ t.observation = 0 /\ t.running = s.running
      /\ t.open = r.open \cup {<<i, k>>} /\ t.closing = r.closing
      /\ t.told = [r.told EXCEPT ![i] = <<>>]
      /\ t.seen = [r.seen EXCEPT ![i] = IF r.m[i].legacy THEN <<FALSE>> ELSE <<>>]
  BY <1>2 DEF IsRoom
<1>6. Attached(r, i) = Broadcast(u)
  BY DEF Attached, s, entry
<1> HIDE DEF t, k
<1>7. t.m[i] = entry /\ \A j \in r.members : j # i => t.m[j] = r.m[j]
  BY <1>0, <1>5 DEF Shape
<1>8. Shape(t)
  BY <1>1, <1>2, <1>3, <1>4, <1>5 DEF Prepared, Seated, Shape
<1>9. Distinct(t)
  BY <1>1, <1>2, <1>4, <1>5, <1>7 DEF Prepared, Seated, Distinct
<1>10. Connections(t)
  <2>1. Sockets(t) = Sockets(r) \cup {<<i, k>>}
    BY <1>5 DEF Sockets
  <2>2. \A n \in 1..MaxConnections : <<i, n>> \in Sockets(t) => n <= k
    <3>1. \A n \in 1..MaxConnections : <<i, n>> \in Sockets(r) => n <= r.m[i].connection
      BY <1>0 DEF Connections
    <3> QED
      BY <1>3, <2>1, <3>1 DEF k, MemberType
  <2>3. \A j, n : j # i => (<<j, n>> \in Sockets(t) <=> <<j, n>> \in Sockets(r))
    BY <2>1
  <2> QED
    BY <1>0, <1>4, <1>5, <1>7, <2>1, <2>2, <2>3 DEF Connections
<1>11. ToldShown(t)
  <2>1. ASSUME t.m[i].legacy PROVE t.seen[i] = <<t.told[i] # <<>> >>
    <3>1. t.seen[i] = <<FALSE>> /\ t.told[i] = <<>>
      BY <1>0, <1>4, <1>5, <1>7, <2>1 DEF IsRoom
    <3> QED
      BY <3>1
  <2>2. ASSUME NEW j \in Reached(t), j # i, t.m[j].legacy PROVE t.seen[j] = <<t.told[j] # <<>> >>
    <3>1. j \in Reached(r) /\ r.m[j].legacy /\ j \in Ids
      BY <1>0, <1>5, <1>7, <2>2 DEF Reached, Shape
    <3>2. t.seen[j] = r.seen[j] /\ t.told[j] = r.told[j]
      BY <1>0, <1>5, <2>2, <3>1 DEF IsRoom
    <3> QED
      BY <1>0, <3>1, <3>2 DEF ToldShown
  <2> QED
    BY <2>1, <2>2 DEF ToldShown
<1>12. Backed(t) /\ Followed(t)
  BY <1>0, <1>2, <1>5 DEF Backed, Followed
<1>13. Prepared(u)
  BY <1>8, <1>9, <1>10, <1>11, <1>12, CloseKeeps DEF Prepared, Seated
<1> QED
  BY <1>6, <1>13, BroadcastKeeps

\* A room seats its members whatever becomes of its prompt and its starter, of
\* an adapter, a choice or the time a seat is kept.
LEMMA SeatsAlike ==
    ASSUME NEW r, NEW s, Seated(r), IsRoom(s),
           s.members = r.members, s.open = r.open, s.closing = r.closing,
           s.told = r.told, s.seen = r.seen,
           s.m \in [Ids -> MemberType],
           \A i \in r.members :
              /\ s.m[i].slot = r.m[i].slot /\ s.m[i].legacy = r.m[i].legacy
              /\ s.m[i].connected = r.m[i].connected
              /\ s.m[i].connection = r.m[i].connection /\ s.m[i].ws = r.m[i].ws
              /\ s.m[i].adapter # r.m[i].adapter => s.m[i].adapter # "unknown",
           s.starterId \in Ids \cup {None}, s.startPrompt \in Prompts, s.outcome \in Outcomes,
           s.readyTimer \in -1..READY_MS, s.observation \in Attempts \cup {0},
           s.running \subseteq Attempts
    PROVE  Seated(s)
<1>1. Shape(s)
  BY DEF Seated, Shape
<1>2. Distinct(s)
  BY DEF Seated, Distinct
<1>3. Connections(s)
  <2>1. Sockets(s) = Sockets(r)
    BY DEF Sockets
  <2> QED
    BY <2>1 DEF Seated, Connections
<1>4. ToldShown(s)
  <2>1. Reached(s) = Reached(r)
    BY DEF Reached
  <2> QED
    BY <2>1 DEF Seated, ToldShown, Reached
<1> QED
  BY <1>1, <1>2, <1>3, <1>4 DEF Seated

\* The same when the members' entries are left alone.
LEMMA SeatsStay ==
    ASSUME NEW r, NEW s, Seated(r), IsRoom(s),
           s.members = r.members, s.m = r.m, s.open = r.open, s.closing = r.closing,
           s.told = r.told, s.seen = r.seen,
           s.starterId \in Ids \cup {None}, s.startPrompt \in Prompts, s.outcome \in Outcomes,
           s.readyTimer \in -1..READY_MS, s.observation \in Attempts \cup {0},
           s.running \subseteq Attempts
    PROVE  Seated(s)
<1>1. s.m \in [Ids -> MemberType]
  BY DEF Seated, Shape
<1> QED
  BY <1>1, SeatsAlike

\* Whether a prompt is backed depends on its members and on the prompt alone.
LEMMA BackedStays ==
    ASSUME NEW r, NEW s, Backed(r), s.members = r.members, s.m = r.m,
           s.startPrompt # "none" => r.startPrompt # "none"
    PROVE  Backed(s)
  BY SameView DEF Backed

-----------------------------------------------------------------------------
(* The handlers                                                             *)

\* The empty room is right.
LEMMA InitRight == Init => IInv
<1> SUFFICES ASSUME Init PROVE IInv
  OBVIOUS
<1>1. Absent \in MemberType
  BY LobbyAssumption DEF Absent, MemberType
<1>2. IsRoom(room) /\ room.members = {} /\ room.open = {} /\ room.closing = {}
      /\ room.m = [i \in Ids |-> Absent] /\ room.starterId = None
      /\ room.startPrompt = "none" /\ room.outcome = "none" /\ room.readyTimer = -1
      /\ room.observation = 0 /\ room.running = {}
  BY DEF Init, IsRoom
<1>3. Shape(room)
  BY <1>1, <1>2, LobbyAssumption DEF Shape, Prompts, Outcomes
<1>4. Reached(room) = {}
  BY <1>2 DEF Reached
<1> QED
  BY <1>2, <1>3, <1>4 DEF IInv, Right, Prepared, Seated, Distinct, Connections, ToldShown,
                          Backed, Followed, Led, Two, Shown

\* What the invariant says of the room, for the steps below.
LEMMA RoomIs ==
    ASSUME IInv
    PROVE  /\ Seated(room) /\ Prepared(room) /\ IsRoom(room) /\ Shape(room) /\ Distinct(room)
           /\ Connections(room) /\ Backed(room) /\ Followed(room)
           /\ room.running \subseteq {room.observation} /\ room.members \subseteq Ids
           /\ \A i \in room.members : room.m[i] \in MemberType
  BY DEF IInv, Right, Prepared, Seated, Shape, Followed

\* The socket that is listened to is the member's latest.
LEMMA LiveMeans ==
    ASSUME IInv, NEW i, NEW k \in 1..MaxConnections, Live(i, k)
    PROVE  /\ i \in Ids /\ i \in room.members /\ room.m[i].connected
           /\ room.m[i].ws = k /\ room.m[i].connection = k
<1>1. i \in room.members /\ room.m[i].ws = k /\ k # 0
  BY DEF Live
<1>2. /\ room.m[i].connected => room.m[i].ws = room.m[i].connection
      /\ ~room.m[i].connected => room.m[i].ws = 0
  BY <1>1, RoomIs DEF Connections
<1>3. i \in Ids /\ room.m[i].connected \in BOOLEAN
  BY <1>1, RoomIs DEF MemberType
<1> QED
  BY <1>1, <1>2, <1>3

\* Requests: seats are given, attached and left; a leaver's peer is told.
LEMMA RequestsRight ==
    ASSUME IInv, NEW i \in Ids,
           Create(i) \/ Join(i) \/ JoinLegacy(i) \/ Leave(i) \/ Attach(i)
    PROVE  IInv'
<1>0. Right(room) /\ Right(Sweep(room)) /\ Sweep(room).members \subseteq room.members
      /\ Sweep(room).open = room.open /\ Sweep(room).closing = room.closing
      /\ Sweep(room).members \subseteq Ids
      /\ \A j \in Sweep(room).members : Sweep(room).m[j] = room.m[j]
  BY RoomIs, SweepKeeps DEF IInv
<1>1. ASSUME NEW r, Right(r) PROVE Shape(r) /\ Distinct(r)
  BY <1>1 DEF Right, Prepared, Seated
<1>2. CASE Create(i)
  <2>1. Right(Add(room, i, FALSE))
    BY <1>0, <1>2, AddKeeps DEF Create, Fresh, Two
  <2> QED
    BY <1>2, <2>1 DEF Create, IInv
<1> DEFINE r == Sweep(room)
<1>3. Join(i) \/ JoinLegacy(i) =>
         i \notin r.members /\ (\A ws \in r.open \cup r.closing : ws[1] # i)
  BY <1>0 DEF Join, JoinLegacy, Fresh
<1> HIDE DEF r
<1>4. Right(r)
  BY <1>0 DEF r
<1>5. CASE Join(i)
  <2>1. ~Pair(r) => Right(Add(r, i, FALSE))
    BY <1>1, <1>3, <1>4, <1>5, PairMeans, AddKeeps
  <2>2. room' = IF Pair(r) THEN r ELSE Add(r, i, FALSE)
    BY <1>5 DEF Join, r
  <2> QED
    BY <1>4, <2>1, <2>2 DEF IInv
<1>6. CASE JoinLegacy(i)
  <2>1. r.members # {} /\ room' = IF Guest(r) # None THEN r ELSE Add(r, i, TRUE)
    BY <1>6 DEF JoinLegacy, r
  <2>2. ASSUME Guest(r) = None PROVE Right(Add(r, i, TRUE))
    <3>1. \A j \in r.members : r.m[j].slot # 1
      <4> SUFFICES ASSUME NEW j \in r.members, r.m[j].slot = 1 PROVE FALSE
        OBVIOUS
      <4>1. Guest(r) \in r.members
        BY DEF Guest
      <4> QED
        BY <1>1, <1>4, <2>2, <4>1, LobbyAssumption DEF Shape
    <3>2. \A j \in r.members : r.m[j].slot = 0
      BY <1>1, <1>4, <3>1 DEF Shape, MemberType
    <3>3. ~Two(r)
      BY <1>1, <1>4, <3>2 DEF Two, Distinct
    <3> QED
      BY <1>3, <1>4, <1>6, <2>1, <3>2, <3>3, AddKeeps
  <2> QED
    BY <1>4, <2>1, <2>2 DEF IInv
<1>7. CASE Attach(i)
  <2>1. i \in r.members => Right(Attached(r, i))
    BY <1>0, <1>4, <1>7, AttachedKeeps DEF Attach, r
  <2> QED
    BY <1>4, <1>7, <2>1 DEF Attach, IInv, r
<1>8. CASE Leave(i)
  <2> DEFINE s == ResetStart(room)
             t == Without(s, {i})
             u == Close(t, {<<i, room.m[i].ws>>})
  <2>1. Prepared(s) /\ IsRoom(s) /\ s.startPrompt = "none" /\ s.outcome = "none"
        /\ s.readyTimer = -1 /\ s.observation = 0
    BY RoomIs, ResetKeeps, ResetIs
  <2> HIDE DEF s
  <2>2. Seated(t)
    BY <2>1, WithoutKeeps DEF Prepared
  <2>3. t.startPrompt = "none" /\ t.outcome = "none" /\ t.readyTimer = -1
        /\ t.observation = 0 /\ t.running = s.running
    <3>1. /\ t.startPrompt = s.startPrompt /\ t.outcome = s.outcome
          /\ t.readyTimer = s.readyTimer
          /\ t.observation = s.observation /\ t.running = s.running
      BY <2>1 DEF Without, IsRoom
    <3> QED
      BY <2>1, <3>1
  <2> HIDE DEF t
  <2>4. Prepared(t)
    BY <2>1, <2>2, <2>3 DEF Prepared, Backed, Followed
  <2>5. Prepared(u)
    BY <2>2, <2>4, CloseKeeps
  <2> HIDE DEF u
  <2>6. room' = IF u.members = {} THEN u ELSE Broadcast(u)
    BY <1>8 DEF Leave, s, t, u
  <2>7. u.members = {} => Right(u)
    BY <2>5 DEF Right, Led, Two, Shown, Reached
  <2> QED
    BY <2>5, <2>6, <2>7, BroadcastKeeps DEF IInv
<1> QED
  BY <1>2, <1>5, <1>6, <1>7, <1>8

\* Whoever presses a button is answered by a room whose start was reset, or
\* whose prompt is backed by the same members.
LEMMA MessagesRight ==
    ASSUME IInv, NEW i \in Ids, NEW k \in 1..MaxConnections,
           \/ Bytes(i, k) \/ Refuse(i, k) \/ Prepare(i, k) \/ Ready(i, k)
           \/ \E on, choice \in BOOLEAN : Adapter(i, k, on, choice)
           \/ \E j \in Ids : ChooseStarter(i, k, j)
    PROVE  IInv'
<1> DEFINE reset == ResetStart(room)
<1>0. Prepared(reset) /\ Seated(reset)
  BY RoomIs, ResetKeeps DEF Prepared
<1>1. /\ IsRoom(reset)
      /\ reset.members = room.members /\ reset.m = room.m
      /\ reset.starterId = room.starterId
      /\ reset.open = room.open /\ reset.closing = room.closing
      /\ reset.told = room.told /\ reset.seen = room.seen
      /\ reset.startPrompt = "none" /\ reset.outcome = "none" /\ reset.readyTimer = -1
      /\ reset.observation = 0 /\ reset.running = {}
  <2>1. reset.running = room.running \ {room.observation}
    BY RoomIs, ResetIs
  <2> QED
    BY <2>1, RoomIs, ResetIs
<1> HIDE DEF reset
<1>2. reset.starterId \in Ids \cup {None}
  BY <1>0 DEF Seated, Shape
<1>3. MayPrompt => CanChooseStarter(room) /\ \A j \in room.members : room.m[j].adapter = "yes"
  BY DEF MayPrompt
<1>4. CASE Bytes(i, k)
  <2> DEFINE s == [room EXCEPT !.readyTimer = -1, !.startPrompt = "started"]
  <2>1. ASSUME StartsBy(i) PROVE Right(Broadcast(s))
    <3>1. /\ IsRoom(s) /\ s.members = room.members /\ s.m = room.m
          /\ s.open = room.open /\ s.closing = room.closing
          /\ s.told = room.told /\ s.seen = room.seen
          /\ s.starterId = room.starterId /\ s.outcome = room.outcome
          /\ s.observation = room.observation /\ s.running = room.running
          /\ s.readyTimer = -1 /\ s.startPrompt = "started"
      BY RoomIs DEF IsRoom
    <3> HIDE DEF s
    <3>2. Seated(s)
      BY <3>1, RoomIs, SeatsStay, LobbyAssumption DEF Shape, Prompts
    <3>3. Backed(s)
      BY <2>1, <3>1, RoomIs, BackedStays DEF StartsBy
    <3>4. Followed(s)
      BY <2>1, <3>1, RoomIs DEF StartsBy, Followed
    <3> QED
      BY <3>2, <3>3, <3>4, BroadcastKeeps DEF Prepared
  <2>2. Right(Started(i))
    BY <2>1 DEF Started, IInv
  <2>3. PICK slow : room' = Close(Started(i), slow)
    BY <1>4 DEF Bytes
  <2> QED
    BY <2>2, <2>3, CloseKeeps DEF IInv, Right, Prepared
<1>5. CASE Refuse(i, k)
  <2>1. PICK ws : room' = Close(room, ws)
    BY <1>5 DEF Refuse
  <2> QED
    BY <2>1, RoomIs, CloseKeeps DEF IInv
<1>6. CASE Prepare(i, k)
  <2> DEFINE s == [reset EXCEPT !.startPrompt = "prepare"]
  <2>1. /\ IsRoom(s) /\ s.members = room.members /\ s.m = room.m
        /\ s.open = reset.open /\ s.closing = reset.closing
        /\ s.told = reset.told /\ s.seen = reset.seen
        /\ s.starterId = reset.starterId /\ s.outcome = "none"
        /\ s.observation = 0 /\ s.running = {}
        /\ s.readyTimer = -1 /\ s.startPrompt = "prepare"
    BY <1>1 DEF IsRoom
  <2>2. room' = Broadcast(s) /\ MayPrompt
    BY <1>6 DEF Prepare, reset
  <2> HIDE DEF s
  <2>3. Seated(s)
    BY <1>0, <1>1, <1>2, <2>1, SeatsStay, LobbyAssumption DEF Prompts, Outcomes
  <2>4. Backed(s)
    BY <1>3, <2>1, <2>2, SameView DEF Backed
  <2>5. Followed(s)
    BY <2>1 DEF Followed
  <2> QED
    BY <2>2, <2>3, <2>4, <2>5, BroadcastKeeps DEF Prepared, IInv
<1>7. CASE Ready(i, k)
  <2>1. PICK a \in Attempts : a \notin room.running \cup {room.observation}
    BY RoomIs, LobbyAssumption DEF Followed
  <2> DEFINE b == CHOOSE b \in Attempts : b \notin room.running \cup {room.observation}
             s == [room EXCEPT !.startPrompt = "ready", !.outcome = "exchanging",
                               !.readyTimer = READY_MS, !.observation = b,
                               !.running = (@ \ {room.observation}) \cup {b}]
  <2>2. b \in Attempts /\ b # 0
    BY <2>1, LobbyAssumption
  <2>3. room' = Broadcast(s) /\ MayPrompt
    BY <1>7 DEF Ready
  <2> HIDE DEF b
  <2>4. /\ IsRoom(s) /\ s.members = room.members /\ s.m = room.m
        /\ s.open = room.open /\ s.closing = room.closing
        /\ s.told = room.told /\ s.seen = room.seen
        /\ s.starterId = room.starterId /\ s.outcome = "exchanging"
        /\ s.observation = b /\ s.running = (room.running \ {room.observation}) \cup {b}
        /\ s.readyTimer = READY_MS /\ s.startPrompt = "ready"
    BY RoomIs DEF IsRoom
  <2> HIDE DEF s
  <2>5. s.running = {b}
    BY <2>4, RoomIs
  <2>6. Seated(s)
    BY <2>2, <2>4, <2>5, RoomIs, SeatsStay, LobbyAssumption DEF Prompts, Outcomes, Shape
  <2>7. Backed(s)
    BY <1>3, <2>3, <2>4, SameView DEF Backed
  <2>8. Followed(s)
    BY <2>2, <2>4, <2>5, LobbyAssumption DEF Followed
  <2> QED
    BY <2>3, <2>6, <2>7, <2>8, BroadcastKeeps DEF Prepared, IInv
<1>8. ASSUME NEW on \in BOOLEAN, NEW choice \in BOOLEAN, Adapter(i, k, on, choice) PROVE IInv'
  <2> DEFINE e == [room.m[i] EXCEPT !.adapter = IF on THEN "yes" ELSE "no",
                                    !.starterChoice = choice]
             r == [room EXCEPT !.m[i].adapter = IF on THEN "yes" ELSE "no",
                               !.m[i].starterChoice = choice]
             s == IF on /\ choice THEN r ELSE ResetStart(r)
             t == IF choice THEN s ELSE [s EXCEPT !.starterId = Guest(s)]
  <2>1. room.m[i] \in MemberType /\ room.m \in [Ids -> MemberType]
        /\ i \in room.members /\ ~room.m[i].legacy
    BY <1>8, RoomIs DEF Adapter, Live, Shape
  <2>2. /\ IsRoom(r) /\ r.members = room.members /\ r.open = room.open /\ r.closing = room.closing
        /\ r.told = room.told /\ r.seen = room.seen /\ r.starterId = room.starterId
        /\ r.startPrompt = room.startPrompt /\ r.outcome = room.outcome
        /\ r.observation = room.observation /\ r.running = room.running
        /\ r.readyTimer = room.readyTimer
    BY RoomIs DEF IsRoom
  <2>3. DOMAIN r.m = Ids /\ r.m[i] = e /\ \A j \in Ids : j # i => r.m[j] = room.m[j]
    BY <2>1, RoomIs DEF IsRoom
  <2>4. e \in MemberType /\ e.slot = room.m[i].slot /\ e.legacy = room.m[i].legacy
        /\ e.connected = room.m[i].connected /\ e.ws = room.m[i].ws
        /\ e.connection = room.m[i].connection /\ e.starterChoice = choice
        /\ e.adapter = IF on THEN "yes" ELSE "no"
    BY <2>1 DEF MemberType
  <2>5. r.m \in [Ids -> MemberType]
    <3>1. r.m = [room.m EXCEPT ![i] = r.m[i]]
      BY <2>1, RoomIs DEF IsRoom
    <3> QED
      BY <2>1, <2>3, <2>4, <3>1
  <2>6. room' = Broadcast(t)
    BY <1>8 DEF Adapter
  <2> HIDE DEF r, e
  <2>7. Seated(r)
    BY <2>2, <2>3, <2>4, <2>5, RoomIs, SeatsAlike DEF Shape
  <2>8. on /\ choice => Prepared(r)
    <3>1. ASSUME on, choice, r.startPrompt # "none"
          PROVE  CanChooseStarter(r) /\ \A j \in r.members : r.m[j].adapter = "yes"
      <4>1. CanChooseStarter(room) /\ \A j \in room.members : room.m[j].adapter = "yes"
        BY <2>2, <3>1, RoomIs DEF Backed
      <4>2. r.m[i].connected /\ ~r.m[i].legacy /\ r.m[i].starterChoice /\ r.m[i].adapter = "yes"
        BY <2>1, <2>3, <2>4, <3>1, <4>1 DEF CanChooseStarter
      <4>3. \A j \in room.members : j \in Ids
        BY RoomIs
      <4> QED
        BY <2>2, <2>3, <4>1, <4>2, <4>3 DEF CanChooseStarter, Pair
    <3>2. Followed(r)
      BY <2>2, RoomIs DEF Followed
    <3> QED
      BY <2>7, <3>1, <3>2 DEF Prepared, Backed
  <2>9. Prepared(s)
    BY <2>2, <2>7, <2>8, RoomIs, ResetKeeps
  <2> HIDE DEF s
  <2>10. Prepared([s EXCEPT !.starterId = Guest(s)])
    <3> DEFINE q == [s EXCEPT !.starterId = Guest(s)]
    <3>1. Shape(s) /\ Distinct(s) /\ IsRoom(s)
      BY <2>9 DEF Prepared, Seated, Shape
    <3>2. Guest(s) \in Ids \cup {None}
      BY <3>1, PairMeans
    <3>3. /\ IsRoom(q) /\ q.members = s.members /\ q.m = s.m
          /\ q.open = s.open /\ q.closing = s.closing /\ q.told = s.told /\ q.seen = s.seen
          /\ q.starterId = Guest(s) /\ q.startPrompt = s.startPrompt /\ q.outcome = s.outcome
          /\ q.observation = s.observation /\ q.running = s.running
          /\ q.readyTimer = s.readyTimer
      BY <3>1 DEF IsRoom
    <3> HIDE DEF q
    <3>4. Seated(q)
      BY <2>9, <3>1, <3>2, <3>3, SeatsStay DEF Prepared, Shape
    <3>5. Backed(q) /\ Followed(q)
      BY <2>9, <3>3, BackedStays DEF Prepared, Followed
    <3> QED
      BY <3>4, <3>5 DEF Prepared, q
  <2>11. Prepared(t)
    BY <2>9, <2>10
  <2> QED
    BY <2>6, <2>11, BroadcastKeeps DEF IInv
<1>9. ASSUME NEW j \in Ids, ChooseStarter(i, k, j) PROVE IInv'
  <2> DEFINE r == [room EXCEPT !.starterId = j]
             s == ResetStart(r)
  <2>1. /\ IsRoom(r) /\ r.members = room.members /\ r.m = room.m
        /\ r.open = room.open /\ r.closing = room.closing
        /\ r.told = room.told /\ r.seen = room.seen
        /\ r.starterId = j /\ r.startPrompt = room.startPrompt /\ r.outcome = room.outcome
        /\ r.observation = room.observation /\ r.running = room.running
        /\ r.readyTimer = room.readyTimer
    BY RoomIs DEF IsRoom
  <2>2. room' = Broadcast(s)
    BY <1>9 DEF ChooseStarter
  <2> HIDE DEF r
  <2>3. Seated(r)
    BY <2>1, RoomIs, SeatsStay DEF Shape
  <2>4. Prepared(s)
    BY <2>1, <2>3, RoomIs, ResetKeeps
  <2> QED
    BY <2>2, <2>4, BroadcastKeeps DEF IInv
<1> QED
  BY <1>4, <1>5, <1>6, <1>7, <1>8, <1>9

\* Events: an observer's report, its end, the end of the countdown, a socket
\* that is gone, and time.
LEMMA EventsRight ==
    ASSUME IInv,
           \/ SweepNow \/ Clock \/ ReadyTimeout
           \/ \E a \in Attempts : Unwatched(a) \/ \E o \in Outcomes : Observed(a, o)
           \/ \E i \in Ids, k \in 1..MaxConnections : Closed(i, k)
    PROVE  IInv'
<1>1. CASE SweepNow
  BY <1>1, SweepKeeps DEF SweepNow, IInv
<1>2. CASE Clock
  <2> DEFINE aged(i) == ~room.m[i].connected /\ room.m[i].expires > 0
             ms == [i \in Ids |-> IF aged(i) THEN [room.m[i] EXCEPT !.expires = @ - 1]
                                  ELSE room.m[i]]
             s == [room EXCEPT !.readyTimer = IF @ > 0 THEN @ - 1 ELSE @, !.m = ms]
  <2>1. room' = s
    BY <1>2 DEF Clock
  <2>2. \A i \in Ids : /\ ms[i] \in MemberType
                        /\ ms[i].slot = room.m[i].slot /\ ms[i].legacy = room.m[i].legacy
                        /\ ms[i].connected = room.m[i].connected
                        /\ ms[i].adapter = room.m[i].adapter
                        /\ ms[i].starterChoice = room.m[i].starterChoice
                        /\ ms[i].connection = room.m[i].connection /\ ms[i].ws = room.m[i].ws
    <3> SUFFICES ASSUME NEW i \in Ids
                 PROVE  /\ ms[i] \in MemberType
                        /\ ms[i].slot = room.m[i].slot /\ ms[i].legacy = room.m[i].legacy
                        /\ ms[i].connected = room.m[i].connected
                        /\ ms[i].adapter = room.m[i].adapter
                        /\ ms[i].starterChoice = room.m[i].starterChoice
                        /\ ms[i].connection = room.m[i].connection /\ ms[i].ws = room.m[i].ws
      OBVIOUS
    <3>1. room.m[i] \in MemberType
      BY RoomIs DEF Shape
    <3>2. aged(i) => room.m[i].expires - 1 \in 0..RESERVE_MS
      BY <3>1, LobbyAssumption DEF MemberType
    <3>3. aged(i) => [room.m[i] EXCEPT !.expires = room.m[i].expires - 1] \in MemberType
      BY <3>1, <3>2, EntryWith
    <3> QED
      BY <3>1, <3>3 DEF MemberType
  <2> HIDE DEF ms
  <2>3. /\ IsRoom(s) /\ s.members = room.members /\ s.m = ms
        /\ s.open = room.open /\ s.closing = room.closing
        /\ s.told = room.told /\ s.seen = room.seen
        /\ s.starterId = room.starterId /\ s.startPrompt = room.startPrompt
        /\ s.outcome = room.outcome
        /\ s.observation = room.observation /\ s.running = room.running
        /\ s.readyTimer = IF room.readyTimer > 0 THEN room.readyTimer - 1 ELSE room.readyTimer
    BY RoomIs DEF IsRoom
  <2>4. s.readyTimer \in -1..READY_MS /\ (s.readyTimer = -1 <=> room.readyTimer = -1)
    BY <2>3, RoomIs, LobbyAssumption DEF Shape
  <2>5. ms \in [Ids -> MemberType]
    BY <2>2 DEF ms
  <2> HIDE DEF s
  <2>6. Seated(s)
    <3>1. \A i \in room.members :
              /\ s.m[i].slot = room.m[i].slot /\ s.m[i].legacy = room.m[i].legacy
              /\ s.m[i].connected = room.m[i].connected
              /\ s.m[i].connection = room.m[i].connection /\ s.m[i].ws = room.m[i].ws
              /\ s.m[i].adapter # room.m[i].adapter => s.m[i].adapter # "unknown"
      BY <2>2, <2>3, RoomIs
    <3> QED
      BY <2>3, <2>4, <2>5, <3>1, RoomIs, SeatsAlike DEF Shape
  <2>7. /\ CanChooseStarter(s) = CanChooseStarter(room) /\ Snapshot(s) = Snapshot(room)
        /\ \A i : Signature(s, i) = Signature(room, i)
    BY <2>2, <2>3, RoomIs, SameView
  <2>8. Backed(s)
    BY <2>2, <2>3, <2>7, RoomIs DEF Backed
  <2>9. Followed(s)
    BY <2>3, <2>4, RoomIs DEF Followed
  <2>10. Led(s)
    BY <2>2, <2>3, RoomIs DEF IInv, Right, Led, Two
  <2>11. Shown(s)
    <3>1. Reached(s) = Reached(room)
      BY <2>2, <2>3, RoomIs DEF Reached
    <3>2. \A i \in Reached(room) : i \in Ids /\ s.m[i].legacy = room.m[i].legacy
      BY <2>2, <2>3, RoomIs DEF Reached
    <3> QED
      BY <2>3, <2>7, <3>1, <3>2 DEF IInv, Right, Shown
  <2> QED
    BY <2>1, <2>6, <2>8, <2>9, <2>10, <2>11 DEF IInv, Right, Prepared
<1>3. CASE ReadyTimeout
  <2> DEFINE r == ResetStart(room)
             s == [r EXCEPT !.startPrompt = "prepare"]
  <2>1. Prepared(r)
    BY RoomIs, ResetKeeps
  <2>2. /\ IsRoom(r) /\ r.members = room.members /\ r.m = room.m
        /\ r.outcome = "none" /\ r.readyTimer = -1 /\ r.observation = 0
        /\ r.running = room.running \ {room.observation}
    BY RoomIs, ResetIs
  <2>3. room' = Broadcast(s)
    BY <1>3 DEF ReadyTimeout
  <2> HIDE DEF r
  <2>4. /\ IsRoom(s) /\ s.members = r.members /\ s.m = r.m
        /\ s.open = r.open /\ s.closing = r.closing /\ s.told = r.told /\ s.seen = r.seen
        /\ s.starterId = r.starterId /\ s.startPrompt = "prepare" /\ s.outcome = r.outcome
        /\ s.observation = r.observation /\ s.running = r.running
        /\ s.readyTimer = r.readyTimer
    BY <2>2 DEF IsRoom
  <2> HIDE DEF s
  <2>5. Seated(s)
    BY <2>1, <2>4, SeatsStay DEF Prepared, Seated, Shape, Prompts
  <2>6. room.startPrompt = "ready"
    BY <1>3, RoomIs DEF ReadyTimeout, Followed
  <2>7. Backed(s)
    BY <2>2, <2>4, <2>6, RoomIs, BackedStays
  <2>8. Followed(s)
    BY <2>2, <2>4, RoomIs DEF Followed
  <2> QED
    BY <2>3, <2>5, <2>7, <2>8, BroadcastKeeps DEF Prepared, IInv
<1>4. ASSUME NEW a \in Attempts, Unwatched(a) PROVE IInv'
  <2>1. /\ IsRoom(room)' /\ room'.members = room.members /\ room'.m = room.m
        /\ room'.open = room.open /\ room'.closing = room.closing
        /\ room'.told = room.told /\ room'.seen = room.seen
        /\ room'.starterId = room.starterId /\ room'.startPrompt = room.startPrompt
        /\ room'.outcome = room.outcome
        /\ room'.observation = room.observation /\ room'.running = room.running \ {a}
        /\ room'.readyTimer = room.readyTimer
    BY <1>4, RoomIs DEF Unwatched, IsRoom
  <2>2. Seated(room)'
    BY <2>1, RoomIs, SeatsStay DEF Shape
  <2>3. Backed(room)' /\ Followed(room)'
    BY <2>1, RoomIs, BackedStays DEF Followed
  <2>4. Led(room)'
    BY <2>1 DEF IInv, Right, Led, Two
  <2>5. Shown(room)'
    <3>1. Reached(room') = Reached(room)
      BY <2>1 DEF Reached
    <3>2. Snapshot(room') = Snapshot(room) /\ \A i : Signature(room', i) = Signature(room, i)
      BY <2>1, SameView
    <3> QED
      BY <2>1, <3>1, <3>2 DEF IInv, Right, Shown
  <2> QED
    BY <2>2, <2>3, <2>4, <2>5 DEF IInv, Right, Prepared
<1>5. ASSUME NEW a \in Attempts, NEW o \in Outcomes, Observed(a, o) PROVE IInv'
  <2> DEFINE s == IF o = "progress" THEN [room EXCEPT !.outcome = o]
                  ELSE [room EXCEPT !.outcome = o, !.running = @ \ {a},
                                    !.readyTimer = -1, !.startPrompt = "prepare"]
  <2>1. a \in room.running /\ a = room.observation /\ o \in {"progress", "interrupted"}
        /\ room' = Broadcast(s)
    BY <1>5 DEF Observed
  <2>2. /\ IsRoom(s) /\ s.members = room.members /\ s.m = room.m
        /\ s.open = room.open /\ s.closing = room.closing
        /\ s.told = room.told /\ s.seen = room.seen
        /\ s.starterId = room.starterId /\ s.outcome = o
        /\ s.observation = room.observation
    BY RoomIs DEF IsRoom
  <2>3. IF o = "progress"
        THEN s.running = room.running /\ s.readyTimer = room.readyTimer
             /\ s.startPrompt = room.startPrompt
        ELSE s.running = room.running \ {a} /\ s.readyTimer = -1 /\ s.startPrompt = "prepare"
    BY RoomIs DEF IsRoom
  <2> HIDE DEF s
  <2>4. room.startPrompt \in {"ready", "started"}
    BY <2>1, RoomIs DEF Followed
  <2>5. Seated(s)
    <3>1. s.startPrompt \in Prompts /\ s.outcome \in Outcomes /\ s.running \subseteq Attempts
          /\ s.readyTimer \in -1..READY_MS
      BY <2>1, <2>2, <2>3, RoomIs, LobbyAssumption DEF Shape, Prompts, Outcomes
    <3> QED
      BY <2>2, <3>1, RoomIs, SeatsStay DEF Shape
  <2>6. Backed(s)
    BY <2>2, <2>4, RoomIs, BackedStays
  <2>7. Followed(s)
    BY <2>1, <2>2, <2>3, <2>4, RoomIs DEF Followed
  <2> QED
    BY <2>1, <2>5, <2>6, <2>7, BroadcastKeeps DEF Prepared, IInv
<1>6. ASSUME NEW i \in Ids, NEW k \in 1..MaxConnections, Closed(i, k) PROVE IInv'
  <2> DEFINE r == [room EXCEPT !.open = @ \ {<<i, k>>}, !.closing = @ \ {<<i, k>>}]
             q == ResetStart(r)
             e == [q.m[i] EXCEPT !.ws = 0, !.connected = FALSE, !.adapter = "no",
                                 !.starterChoice = FALSE, !.expires = RESERVE_MS]
             s == [q EXCEPT !.m[i] = e]
  <2>1. /\ IsRoom(r) /\ r.members = room.members /\ r.m = room.m
        /\ r.open = room.open \ {<<i, k>>} /\ r.closing = room.closing \ {<<i, k>>}
        /\ r.told = room.told /\ r.seen = room.seen
        /\ r.starterId = room.starterId /\ r.startPrompt = room.startPrompt
        /\ r.outcome = room.outcome
        /\ r.observation = room.observation /\ r.running = room.running
        /\ r.readyTimer = room.readyTimer
    BY RoomIs DEF IsRoom
  <2>2. room' = IF Live(i, k) THEN Broadcast(s) ELSE r
    BY <1>6 DEF Closed
  <2> HIDE DEF r
  <2>3. CASE ~Live(i, k)
    <3>1. <<i, k>> \in Sockets(room)
      BY <1>6 DEF Closed, Sockets
    <3>2. \A j \in room.members : <<j, room.m[j].ws>> # <<i, k>>
      BY <2>3, <3>1 DEF Live, Sockets
    <3>3. \A x : x # <<i, k>> => (x \in Sockets(r) <=> x \in Sockets(room))
                                /\ (x \in r.open <=> x \in room.open)
      BY <2>1 DEF Sockets
    <3>4. Sockets(r) \subseteq Sockets(room)
      BY <2>1 DEF Sockets
    <3>5. Connections(r)
      <4> SUFFICES ASSUME NEW j \in room.members
                   PROVE  /\ r.m[j].connected => r.m[j].ws = r.m[j].connection
                                                 /\ <<j, r.m[j].connection>> \in Sockets(r)
                          /\ ~r.m[j].connected => r.m[j].ws = 0
                                                  /\ <<j, r.m[j].connection>> \notin Sockets(r)
                          /\ \A n \in 1..MaxConnections :
                                <<j, n>> \in Sockets(r) => n <= r.m[j].connection
        BY <2>1 DEF Connections
      <4>1. /\ room.m[j].connected => room.m[j].ws = room.m[j].connection
                                     /\ <<j, room.m[j].connection>> \in Sockets(room)
            /\ ~room.m[j].connected => room.m[j].ws = 0
                                      /\ <<j, room.m[j].connection>> \notin Sockets(room)
            /\ \A n \in 1..MaxConnections :
                  <<j, n>> \in Sockets(room) => n <= room.m[j].connection
        BY RoomIs DEF Connections
      <4>2. room.m[j].connected => <<j, room.m[j].connection>> \in Sockets(r)
        BY <3>2, <3>3, <4>1
      <4> QED
        BY <2>1, <3>4, <4>1, <4>2
    <3>6. Reached(r) = Reached(room)
      BY <2>1, <3>2, <3>3 DEF Reached
    <3>7. Shape(r) /\ Distinct(r) /\ ToldShown(r)
      BY <2>1, <3>6, RoomIs DEF Shape, Distinct, Seated, ToldShown
    <3>8. Backed(r) /\ Followed(r)
      BY <2>1, RoomIs, BackedStays DEF Followed
    <3>9. Led(r)
      BY <2>1 DEF IInv, Right, Led, Two
    <3>10. Snapshot(r) = Snapshot(room) /\ \A j : Signature(r, j) = Signature(room, j)
      BY <2>1, SameView
    <3>11. Shown(r)
      BY <2>1, <3>6, <3>10 DEF IInv, Right, Shown
    <3> QED
      BY <2>2, <2>3, <3>5, <3>7, <3>8, <3>9, <3>11 DEF IInv, Right, Prepared, Seated
  <2>4. CASE Live(i, k)
    <3>1. i \in room.members /\ room.m[i].connected /\ room.m[i].connection = k
          /\ room.m[i] \in MemberType /\ room.m \in [Ids -> MemberType]
      BY <2>4, LiveMeans, RoomIs DEF Shape
    <3>2. /\ IsRoom(q) /\ q.members = room.members /\ q.m = room.m
          /\ q.starterId = room.starterId /\ q.open = r.open /\ q.closing = r.closing
          /\ q.told = room.told /\ q.seen = room.seen
          /\ q.startPrompt = "none" /\ q.outcome = "none" /\ q.readyTimer = -1
          /\ q.observation = 0 /\ q.running = r.running \ {r.observation}
      BY <2>1, ResetIs
    <3> HIDE DEF q
    <3>3. e \in MemberType /\ ~e.connected /\ e.ws = 0 /\ e.connection = k
          /\ e.slot = room.m[i].slot /\ e.legacy = room.m[i].legacy /\ e.adapter = "no"
      <4>1. 0 \in 0..MaxConnections /\ RESERVE_MS \in 0..RESERVE_MS
        BY LobbyAssumption
      <4>2. e \in MemberType
        <5>1. q.m[i] \in MemberType /\ FALSE \in BOOLEAN /\ "no" \in {"yes", "no", "unknown"}
          BY <3>1, <3>2
        <5>2. [q.m[i] EXCEPT !.ws = 0, !.connected = FALSE, !.adapter = "no",
                             !.starterChoice = FALSE, !.expires = RESERVE_MS] \in MemberType
          BY <4>1, <5>1, EntryOf
        <5> QED
          BY <5>2
      <4> QED
        BY <3>1, <3>2, <4>2 DEF MemberType
    <3> HIDE DEF e
    <3>4. /\ IsRoom(s) /\ s.members = room.members /\ s.m = [room.m EXCEPT ![i] = e]
          /\ s.starterId = room.starterId /\ s.open = r.open /\ s.closing = r.closing
          /\ s.told = room.told /\ s.seen = room.seen
          /\ s.startPrompt = "none" /\ s.outcome = "none" /\ s.readyTimer = -1
          /\ s.observation = 0 /\ s.running = q.running
      BY <3>2 DEF IsRoom
    <3> HIDE DEF s
    <3>5. s.m[i] = e /\ \A j \in room.members : j # i => s.m[j] = room.m[j]
      BY <3>1, <3>4, RoomIs
    <3>6. s.running = {}
      BY <2>1, <3>2, <3>4, RoomIs
    <3>7. Shape(s)
      BY <2>1, <3>1, <3>3, <3>4, <3>6, RoomIs, LobbyAssumption DEF Shape, Prompts, Outcomes
    <3>8. Distinct(s)
      BY <3>3, <3>4, <3>5, RoomIs DEF Distinct
    <3>9. \A x : x # <<i, k>> => (x \in Sockets(s) <=> x \in Sockets(room))
                                /\ (x \in s.open <=> x \in room.open)
      BY <2>1, <3>4 DEF Sockets
    <3>10. <<i, k>> \notin Sockets(s)
      BY <2>1, <3>4 DEF Sockets
    <3>11. Connections(s)
      <4>1. \A n \in 1..MaxConnections : <<i, n>> \in Sockets(room) => n <= k
        BY <3>1, RoomIs DEF Connections
      <4>2. \A n \in 1..MaxConnections : <<i, n>> \in Sockets(s) => n <= k
        BY <3>9, <3>10, <4>1
      <4>3. \A j, n : j # i => (<<j, n>> \in Sockets(s) <=> <<j, n>> \in Sockets(room))
        BY <3>9
      <4> QED
        BY <3>3, <3>4, <3>5, <3>10, <4>2, <4>3, RoomIs DEF Connections
    <3>12. ToldShown(s)
      <4>1. \A j \in Reached(s) : j # i /\ j \in Reached(room) /\ s.m[j] = room.m[j]
        <5> SUFFICES ASSUME NEW j \in Reached(s)
                     PROVE  j # i /\ j \in Reached(room) /\ s.m[j] = room.m[j]
          OBVIOUS
        <5>1. j \in room.members /\ <<j, s.m[j].ws>> \in s.open
          BY <3>4 DEF Reached
        <5>2. j # i
          BY <3>3, <3>5, <3>7, <5>1 DEF Shape
        <5> QED
          BY <3>5, <3>9, <5>1, <5>2 DEF Reached
      <4> QED
        BY <3>4, <4>1, RoomIs DEF Seated, ToldShown
    <3>13. Backed(s) /\ Followed(s)
      BY <3>4, <3>6 DEF Backed, Followed
    <3> QED
      BY <2>2, <2>4, <3>7, <3>8, <3>11, <3>12, <3>13, BroadcastKeeps DEF Prepared, Seated, IInv
  <2> QED
    BY <2>3, <2>4
<1> QED
  BY <1>1, <1>2, <1>3, <1>4, <1>5, <1>6

\* Every handler leaves the room right.
LEMMA NextRight == IInv /\ [Next]_vars => IInv'
<1>1. ASSUME IInv, UNCHANGED vars PROVE IInv'
  BY <1>1 DEF vars, IInv
<1> QED
  BY <1>1, RequestsRight, MessagesRight, EventsRight DEF Next

\* The room is right in every state.
LEMMA AlwaysRight == Spec => []IInv
  BY InitRight, NextRight, PTL DEF Spec

-----------------------------------------------------------------------------
(* What a reader of the lobby relies on                                     *)

\* At most two seats, an old client's always the guest's, a pair with a starter
\* in it, and nobody shown connected whose latest socket is gone: no order of
\* requests, late closes and sweeps breaks this, for any number of ids.
THEOREM RoomIsHeld == Spec => []RoomHolds
<1>1. ASSUME IInv PROVE TypeOK
  BY <1>1, RoomIs DEF TypeOK, Shape, MemberType
<1>2. ASSUME IInv PROVE SeatsHold
  <2>1. Pair(room) <=> Two(room)
    BY <1>2, RoomIs, PairMeans
  <2>2. Pair(room) => /\ room.starterId \in room.members
                      /\ (\E i \in room.members : room.m[i].legacy)
                         => room.m[room.starterId].slot = 1
    BY <1>2, <2>1 DEF IInv, Right, Led
  <2>3. \A i \in room.members :
           room.m[i].connected <=> <<i, room.m[i].connection>> \in room.open \cup room.closing
    BY <1>2, RoomIs DEF Connections, Sockets, MemberType
  <2> QED
    BY <1>2, <2>2, <2>3, RoomIs DEF SeatsHold, Distinct
<1> QED
  BY <1>1, <1>2, AlwaysRight, PTL DEF RoomHolds

\* A prompt stands on two members who are there with their adapters, and on
\* the attempt that is watched.
THEOREM PromptIsHeld == Spec => []PromptHolds
<1>1. ASSUME IInv PROVE PromptHolds
  BY <1>1, RoomIs DEF Backed, Followed, PromptHolds, PromptNeedsBoth, AttemptFollowed
<1> QED
  BY <1>1, AlwaysRight, PTL

\* Whoever can be reached is shown the room as it is, an old client the
\* presence of its peer.
THEOREM PictureIsHeld == Spec => []PictureHolds
<1>1. ASSUME IInv PROVE SnapshotsCurrent
  BY <1>1 DEF IInv, Right, Shown, SnapshotsCurrent
<1>2. ASSUME IInv PROVE LegacyPresence
  <2> SUFFICES ASSUME NEW i \in Reached(room), room.m[i].legacy
               PROVE  room.seen[i] = <<\E j \in room.members \ {i} : room.m[j].connected>>
    BY DEF LegacyPresence
  <2>1. room.seen[i] = <<Signature(room, i) # <<>> >>
    BY <1>2 DEF IInv, Right, Shown, Prepared, Seated, ToldShown
  <2>2. (Signature(room, i) # <<>>) = (\E j \in room.members \ {i} : room.m[j].connected)
    BY SignatureMeans
  <2> QED
    BY <2>1, <2>2
<1> QED
  BY <1>1, <1>2, AlwaysRight, PTL DEF PictureHolds

-----------------------------------------------------------------------------
(* The screens of the two players                                           *)

\* What a page can read out of its snapshot.
LEMMA PageReads ==
    ASSUME IInv, NEW i \in Pages
    PROVE  /\ i \in room.members /\ ~room.m[i].legacy
           /\ room.seen[i].starterId = room.starterId
           /\ room.seen[i].choose = CanChooseStarter(room)
           /\ room.seen[i].startPrompt = room.startPrompt /\ room.seen[i].outcome = room.outcome
           /\ room.seen[i].members =
                {<<j, room.m[j].slot, room.m[j].connected, room.m[j].adapter,
                   room.m[j].connection>> : j \in room.members}
<1>1. i \in Reached(room) /\ i \in room.members /\ ~room.m[i].legacy
  BY DEF Pages, Reached
<1>2. room.seen[i] = Snapshot(room)
  BY <1>1 DEF IInv, Right, Shown
<1> QED
  BY <1>1, <1>2 DEF Snapshot

\* What it makes of that: who it is, whether its peer is there, with what.
LEMMA PageMeans ==
    ASSUME IInv, NEW i \in Pages
    PROVE  /\ Member(i, i)
           /\ PeerConnected(i) <=> \E j \in room.members : j # i /\ room.m[j].connected
           /\ \A j \in room.members : j # i => PeerAdapter(i) = room.m[j].adapter
           /\ ~Two(room) => ~PeerConnected(i)
           /\ Two(room) => (IStart(i) <=> room.starterId = i)
<1> DEFINE of(j) == <<j, room.m[j].slot, room.m[j].connected, room.m[j].adapter,
                      room.m[j].connection>>
<1>1. i \in room.members /\ room.seen[i].members = {of(j) : j \in room.members}
      /\ room.seen[i].starterId = room.starterId
  BY PageReads
<1>2. \A j : of(j)[1] = j /\ of(j)[3] = room.m[j].connected /\ of(j)[4] = room.m[j].adapter
  OBVIOUS
<1> HIDE DEF of
<1>3. Member(i, i)
  BY <1>1, <1>2 DEF Member
<1>4. Peers(i) = {of(j) : j \in room.members \ {i}}
  BY <1>1, <1>2 DEF Peers
<1>5. PeerConnected(i) <=> \E j \in room.members : j # i /\ room.m[j].connected
  BY <1>2, <1>4 DEF PeerConnected
<1>6. ASSUME NEW j \in room.members, j # i PROVE PeerAdapter(i) = room.m[j].adapter
  <2>1. \A n \in room.members : n # i => n = j
    BY <1>1, <1>6, RoomIs DEF Distinct, MemberType
  <2>2. Peers(i) = {of(j)}
    BY <1>4, <1>6, <2>1
  <2> QED
    BY <1>2, <2>2 DEF PeerAdapter
<1>7. ~Two(room) => ~PeerConnected(i)
  BY <1>1, <1>5 DEF Two
<1>8. Two(room) => (IStart(i) <=> room.starterId = i)
  <2>1. Two(room) => room.starterId \in Ids
    BY RoomIs DEF IInv, Right, Led
  <2> QED
    BY <1>1, <2>1, LobbyAssumption DEF IStart
<1> QED
  BY <1>3, <1>5, <1>6, <1>7, <1>8

\* Two pages never name the same player, and a page says "now", or offers a
\* button, only for a room that is really so.
THEOREM ScreensDoAgree == Spec => []ScreensAgree
<1> SUFFICES ASSUME IInv, NEW i \in Pages
             PROVE
        /\ Member(i, i)
        /\ \A j \in Pages \ {i} : IStart(i) # IStart(j)
        /\ (\E j \in room.members : room.m[j].legacy) => ~IStart(i)
        /\ \A own \in BOOLEAN :
              Heading(i, own, TRUE) = "press B now" =>
                  /\ own /\ StartWindow(i, own, TRUE)
                  /\ room.startPrompt = "ready" /\ room.starterId = i /\ room.readyTimer >= 0
                  /\ \A j \in Pages \ {i} : Heading(j, TRUE, TRUE) = "wait now"
                  /\ \A j \in room.members : room.m[j].adapter = "yes"
        /\ LET button == Button(i, room.m[i].adapter = "yes", TRUE)
           IN  button # "none" => Accepted(i, button)
        /\ Choosable(i) # {} => CanChooseStarter(room) /\ Choosable(i) \subseteq room.members
  <2>1. IInv => ScreensAgree
    BY DEF ScreensAgree
  <2> QED
    BY <2>1, AlwaysRight, PTL
<1>1. i \in room.members /\ ~room.m[i].legacy /\ room.m[i] \in MemberType
  BY PageReads, RoomIs
<1>2. ASSUME NEW j \in room.members, j # i
      PROVE  /\ Two(room) /\ room.members = {i, j}
             /\ room.starterId \in {i, j}
             /\ room.m[j].legacy => room.starterId = j
  <2>1. Two(room)
    BY <1>1, <1>2 DEF Two
  <2>2. room.members = {i, j}
    BY <1>1, <1>2, RoomIs DEF Distinct, MemberType
  <2>3. room.starterId \in room.members
        /\ ((\E n \in room.members : room.m[n].legacy) => room.m[room.starterId].slot = 1)
    BY <2>1 DEF IInv, Right, Led
  <2>4. room.m[j].legacy => room.m[j].slot = 1 /\ room.m[i].slot # 1
    BY <1>1, <1>2, RoomIs DEF Distinct
  <2> QED
    BY <2>1, <2>2, <2>3, <2>4
<1>3. ASSUME NEW j \in Pages \ {i} PROVE IStart(i) # IStart(j)
  <2>1. j \in room.members /\ j # i
    BY <1>3, PageReads
  <2>2. (IStart(i) <=> room.starterId = i) /\ (IStart(j) <=> room.starterId = j)
    BY <1>2, <1>3, <2>1, PageMeans
  <2>3. IStart(i) \in BOOLEAN /\ IStart(j) \in BOOLEAN
    BY DEF IStart
  <2> QED
    BY <1>2, <2>1, <2>2, <2>3
<1>4. ASSUME NEW j \in room.members, room.m[j].legacy PROVE ~IStart(i)
  BY <1>1, <1>2, <1>4, PageMeans
<1>5. ASSUME NEW own \in BOOLEAN, Heading(i, own, TRUE) = "press B now"
      PROVE  /\ own /\ StartWindow(i, own, TRUE)
             /\ room.startPrompt = "ready" /\ room.starterId = i /\ room.readyTimer >= 0
             /\ \A j \in Pages \ {i} : Heading(j, TRUE, TRUE) = "wait now"
             /\ \A j \in room.members : room.m[j].adapter = "yes"
  <2>1. /\ own /\ PeerConnected(i) /\ CanChooseStarter(room) /\ room.startPrompt = "ready"
        /\ IStart(i) /\ room.outcome # "interrupted" /\ ShownReady(i, TRUE)
    BY <1>5, PageReads DEF Heading, ShownReady
  <2>2. Two(room) /\ room.starterId = i
    BY <2>1, PageMeans
  <2>3. room.readyTimer >= 0
    BY <2>1, RoomIs, LobbyAssumption DEF Followed, Shape
  <2>4. \A j \in room.members : room.m[j].adapter = "yes" /\ room.m[j].connected
    BY <2>1, RoomIs DEF Backed, CanChooseStarter
  <2>5. ASSUME NEW j \in Pages \ {i} PROVE Heading(j, TRUE, TRUE) = "wait now"
    <3>1. j \in room.members /\ j # i /\ ~IStart(j)
      BY <2>2, <2>5, PageReads, PageMeans
    <3>2. PeerConnected(j) /\ PeerAdapter(j) = "yes"
      BY <1>1, <2>4, <2>5, <3>1, PageMeans
    <3>3. ShownReady(j, TRUE)
      BY <2>1, <2>5, PageReads DEF ShownReady
    <3> QED
      BY <2>1, <2>5, <3>1, <3>2, <3>3, PageReads DEF Heading
  <2>6. StartWindow(i, own, TRUE)
    BY <1>5, <2>1 DEF StartWindow
  <2> QED
    BY <2>1, <2>2, <2>3, <2>4, <2>5, <2>6
<1>6. ASSUME NEW button, button = Button(i, room.m[i].adapter = "yes", TRUE), button # "none"
      PROVE  Accepted(i, button)
  <2>1. /\ PeerConnected(i) /\ room.m[i].adapter = "yes" /\ PeerAdapter(i) # "no"
        /\ CanChooseStarter(room) /\ room.startPrompt \notin {"started", "ready"}
    BY <1>6, PageReads DEF Button, ShownReady
  <2>2. Two(room) /\ (IStart(i) <=> room.starterId = i)
    BY <2>1, PageMeans
  <2>3. \A j \in room.members : room.m[j].adapter = "yes"
    BY <2>1, RoomIs, PageMeans DEF CanChooseStarter, Distinct, MemberType
  <2>4. MayPrompt
    BY <2>1, <2>3 DEF MayPrompt
  <2>5. \/ IStart(i) /\ button = "prepare"
        \/ ~IStart(i) /\ button = "ready" /\ room.startPrompt # "none"
    BY <1>6, PageReads DEF Button
  <2>6. room.startPrompt \in Prompts
    BY RoomIs DEF Shape
  <2> QED
    BY <2>1, <2>2, <2>4, <2>5, <2>6 DEF Accepted, Prompts
<1>7. Choosable(i) # {} => CanChooseStarter(room) /\ Choosable(i) \subseteq room.members
  <2>1. {m[1] : m \in room.seen[i].members} \subseteq room.members
    BY PageReads
  <2> QED
    BY <2>1, PageReads DEF Choosable
<1> QED
  BY <1>3, <1>4, <1>5, <1>6, <1>7, PageMeans

-----------------------------------------------------------------------------
(* Whose seat is taken                                                      *)

\* Broadcasts, resets and closing sockets take nobody's seat.
LEMMA MembersAfter ==
    ASSUME NEW r, IsRoom(r)
    PROVE  /\ Broadcast(r).members = r.members
           /\ ResetStart(r).members = r.members /\ IsRoom(ResetStart(r))
           /\ \A ws : Close(r, ws).members = r.members /\ IsRoom(Close(r, ws))
           /\ \A gone : Without(r, gone).members = r.members \ gone /\ IsRoom(Without(r, gone))
<1>1. Broadcast(r).members = r.members
  BY DEF Broadcast, IsRoom
<1>2. ResetStart(r).members = r.members /\ IsRoom(ResetStart(r))
  BY ResetIs
<1>3. \A ws : Close(r, ws).members = r.members /\ IsRoom(Close(r, ws))
  BY DEF Close, IsRoom
<1>4. \A gone : Without(r, gone).members = r.members \ gone /\ IsRoom(Without(r, gone))
  BY DEF Without, IsRoom
<1> QED
  BY <1>1, <1>2, <1>3, <1>4

\* Requests take seats that are free or whose reservation has ended.
LEMMA RequestsKeepSeats ==
    ASSUME IInv, NEW i \in Ids, Create(i) \/ Join(i) \/ JoinLegacy(i) \/ Attach(i)
    PROVE  room.members \ Expired(room) \subseteq room'.members
<1> DEFINE r == Sweep(room)
<1>1. IsRoom(room) /\ IsRoom(r) /\ r.members = room.members \ Expired(room)
  BY SweepKeeps DEF IInv, Right, Prepared, Seated, Shape
<1>2. ASSUME NEW q, IsRoom(q), NEW old PROVE q.members \subseteq Add(q, i, old).members
  <2> DEFINE entry == [Absent EXCEPT
                          !.slot = IF \E j \in q.members : q.m[j].slot = 0 THEN 1 ELSE 0,
                          !.legacy = old, !.adapter = IF old THEN "unknown" ELSE "no",
                          !.expires = RESERVE_MS]
             s == [q EXCEPT !.members = @ \cup {i}, !.m[i] = entry]
  <2>1. Add(q, i, old) = Broadcast(s)
    BY DEF Add
  <2> HIDE DEF entry
  <2>2. IsRoom(s) /\ s.members = q.members \cup {i}
    BY <1>2 DEF IsRoom
  <2> HIDE DEF s
  <2> QED
    BY <2>1, <2>2, MembersAfter
<1>3. ASSUME NEW q, IsRoom(q) PROVE Attached(q, i).members = q.members
  <2> DEFINE k == q.m[i].connection + 1
             s == ResetStart(q)
             entry == [s.m[i] EXCEPT !.ws = k, !.connection = k, !.connected = TRUE,
                                     !.adapter = IF q.m[i].legacy THEN "unknown" ELSE "no",
                                     !.starterChoice = FALSE, !.expires = 0]
             t == [s EXCEPT !.m[i] = entry, !.told[i] = <<>>,
                            !.seen[i] = IF q.m[i].legacy THEN <<FALSE>> ELSE <<>>,
                            !.open = @ \cup {<<i, k>>}]
             u == Close(t, {<<i, q.m[i].ws>>})
  <2>1. Attached(q, i) = Broadcast(u)
    BY DEF Attached
  <2>2. s.members = q.members /\ IsRoom(s)
    BY <1>3, MembersAfter
  <2> HIDE DEF s, entry, k
  <2>3. IsRoom(t) /\ t.members = s.members
    BY <2>2 DEF IsRoom
  <2> HIDE DEF t
  <2>4. IsRoom(u) /\ u.members = t.members
    BY <2>3, MembersAfter
  <2> HIDE DEF u
  <2> QED
    BY <2>1, <2>2, <2>3, <2>4, MembersAfter
<1> HIDE DEF r
<1>4. CASE Create(i)
  BY <1>4 DEF Create
<1>5. CASE Join(i)
  BY <1>1, <1>2, <1>5 DEF Join, r
<1>6. CASE JoinLegacy(i)
  BY <1>1, <1>2, <1>6 DEF JoinLegacy, r
<1>7. CASE Attach(i)
  BY <1>1, <1>3, <1>7 DEF Attach, r
<1> QED
  BY <1>4, <1>5, <1>6, <1>7

\* Nobody's seat is taken by a message or an event but a sweep.
LEMMA OthersKeepSeats ==
    ASSUME IInv,
           \/ SweepNow \/ Clock \/ ReadyTimeout
           \/ \E a \in Attempts : Unwatched(a) \/ \E o \in Outcomes : Observed(a, o)
           \/ \E i \in Ids, k \in 1..MaxConnections :
                 \/ Bytes(i, k) \/ Refuse(i, k) \/ Prepare(i, k) \/ Ready(i, k) \/ Closed(i, k)
                 \/ \E on, choice \in BOOLEAN : Adapter(i, k, on, choice)
                 \/ \E j \in Ids : ChooseStarter(i, k, j)
    PROVE  room.members \ Expired(room) \subseteq room'.members
<1>0. IsRoom(room) /\ Right(room) /\ IsRoom(ResetStart(room))
      /\ ResetStart(room).members = room.members
  BY RoomIs, MembersAfter DEF IInv
<1>1. ASSUME NEW s, IsRoom(s), s.members = room.members, room' = Broadcast(s)
      PROVE  room'.members = room.members
  BY <1>1, MembersAfter
<1>2. CASE SweepNow
  BY <1>0, <1>2, SweepKeeps DEF SweepNow
<1>3. CASE Clock
  BY <1>0, <1>3 DEF Clock, IsRoom
<1>4. CASE ReadyTimeout
  <2> DEFINE s == [ResetStart(room) EXCEPT !.startPrompt = "prepare"]
  <2>1. IsRoom(s) /\ s.members = room.members
    BY <1>0 DEF IsRoom
  <2> QED
    BY <1>1, <1>4, <2>1 DEF ReadyTimeout
<1>5. ASSUME NEW a \in Attempts, Unwatched(a) PROVE room'.members = room.members
  BY <1>0, <1>5 DEF Unwatched, IsRoom
<1>6. ASSUME NEW a \in Attempts, NEW o \in Outcomes, Observed(a, o)
      PROVE  room'.members = room.members
  <2> DEFINE s == IF o = "progress" THEN [room EXCEPT !.outcome = o]
                  ELSE [room EXCEPT !.outcome = o, !.running = @ \ {a},
                                    !.readyTimer = -1, !.startPrompt = "prepare"]
  <2>1. IsRoom(s) /\ s.members = room.members
    BY <1>0 DEF IsRoom
  <2>2. room' = Broadcast(s)
    BY <1>6 DEF Observed
  <2> HIDE DEF s
  <2> QED
    BY <1>1, <2>1, <2>2
<1>7. ASSUME NEW i \in Ids, NEW k \in 1..MaxConnections, Bytes(i, k) \/ Refuse(i, k)
      PROVE  room'.members = room.members
  <2> DEFINE s == [room EXCEPT !.readyTimer = -1, !.startPrompt = "started"]
  <2>1. IsRoom(s) /\ s.members = room.members
    BY <1>0 DEF IsRoom
  <2>2. IsRoom(Broadcast(s)) /\ Broadcast(s).members = room.members
    <3> HIDE DEF s
    <3> QED
      BY <2>1, MembersAfter, BroadcastIs
  <2>3. IsRoom(Started(i)) /\ Started(i).members = room.members
    BY <1>0, <2>2 DEF Started
  <2>4. \A ws : /\ Close(Started(i), ws).members = room.members
                /\ Close(room, ws).members = room.members
    BY <1>0, <2>3, MembersAfter
  <2> QED
    BY <1>7, <2>4 DEF Bytes, Refuse
<1>8. ASSUME NEW i \in Ids, NEW k \in 1..MaxConnections, Prepare(i, k) \/ Ready(i, k)
      PROVE  room'.members = room.members
  <2>1. CASE Prepare(i, k)
    <3> DEFINE s == [ResetStart(room) EXCEPT !.startPrompt = "prepare"]
    <3>1. IsRoom(s) /\ s.members = room.members
      BY <1>0 DEF IsRoom
    <3> QED
      BY <1>1, <2>1, <3>1 DEF Prepare
  <2>2. CASE Ready(i, k)
    <3> DEFINE a == CHOOSE a \in Attempts : a \notin room.running \cup {room.observation}
               s == [room EXCEPT !.startPrompt = "ready", !.outcome = "exchanging",
                                 !.readyTimer = READY_MS, !.observation = a,
                                 !.running = (@ \ {room.observation}) \cup {a}]
    <3>1. room' = Broadcast(s)
      BY <2>2 DEF Ready
    <3> HIDE DEF a
    <3>2. IsRoom(s) /\ s.members = room.members
      BY <1>0 DEF IsRoom
    <3> HIDE DEF s
    <3> QED
      BY <1>1, <3>1, <3>2
  <2> QED
    BY <1>8, <2>1, <2>2
<1>9. ASSUME NEW i \in Ids, NEW k \in 1..MaxConnections, Closed(i, k)
      PROVE  room'.members = room.members
  <2> DEFINE r == [room EXCEPT !.open = @ \ {<<i, k>>}, !.closing = @ \ {<<i, k>>}]
             q == ResetStart(r)
             e == [q.m[i] EXCEPT !.ws = 0, !.connected = FALSE, !.adapter = "no",
                                 !.starterChoice = FALSE, !.expires = RESERVE_MS]
             s == [q EXCEPT !.m[i] = e]
  <2>1. IsRoom(r) /\ r.members = room.members
    BY <1>0 DEF IsRoom
  <2>2. room' = IF Live(i, k) THEN Broadcast(s) ELSE r
    BY <1>9 DEF Closed
  <2> HIDE DEF r
  <2>3. IsRoom(q) /\ q.members = room.members
    BY <2>1, MembersAfter
  <2> HIDE DEF q, e
  <2>4. IsRoom(s) /\ s.members = room.members
    BY <2>3 DEF IsRoom
  <2> HIDE DEF s
  <2> QED
    BY <1>1, <2>1, <2>2, <2>4
<1>10. ASSUME NEW i \in Ids, NEW k \in 1..MaxConnections, NEW on \in BOOLEAN,
              NEW choice \in BOOLEAN, Adapter(i, k, on, choice)
       PROVE  room'.members = room.members
  <2> DEFINE r == [room EXCEPT !.m[i].adapter = IF on THEN "yes" ELSE "no",
                               !.m[i].starterChoice = choice]
             s == IF on /\ choice THEN r ELSE ResetStart(r)
             t == IF choice THEN s ELSE [s EXCEPT !.starterId = Guest(s)]
  <2>1. IsRoom(r) /\ r.members = room.members
    BY <1>0 DEF IsRoom
  <2>2. room' = Broadcast(t)
    BY <1>10 DEF Adapter
  <2> HIDE DEF r
  <2>3. IsRoom(s) /\ s.members = room.members
    BY <2>1, MembersAfter
  <2> HIDE DEF s
  <2>4. IsRoom(t) /\ t.members = room.members
    BY <2>3 DEF IsRoom
  <2> HIDE DEF t
  <2> QED
    BY <1>1, <2>2, <2>4
<1>11. ASSUME NEW i \in Ids, NEW k \in 1..MaxConnections, NEW j \in Ids, ChooseStarter(i, k, j)
       PROVE  room'.members = room.members
  <2> DEFINE r == [room EXCEPT !.starterId = j]
             s == ResetStart(r)
  <2>1. IsRoom(r) /\ r.members = room.members
    BY <1>0 DEF IsRoom
  <2>2. room' = Broadcast(s)
    BY <1>11 DEF ChooseStarter
  <2> HIDE DEF r
  <2>3. IsRoom(s) /\ s.members = room.members
    BY <2>1, MembersAfter
  <2> QED
    BY <1>1, <2>2, <2>3
<1> QED
  BY <1>2, <1>3, <1>4, <1>5, <1>6, <1>7, <1>8, <1>9, <1>10, <1>11

\* A member loses its seat only by leaving or by staying away too long.
THEOREM SeatIsKept == Spec => SeatKept
<1> DEFINE Kept == \A i \in room.members \ room'.members :
                      Leave(i) \/ (~room.m[i].connected /\ room.m[i].expires = 0)
<1>1. ASSUME IInv, Next PROVE Kept
  <2>1. ASSUME room.members \ Expired(room) \subseteq room'.members PROVE Kept
    BY <2>1 DEF Expired
  <2>2. ASSUME NEW i \in Ids, Leave(i) PROVE Kept
    <3> DEFINE s == ResetStart(room)
               t == Without(s, {i})
               u == Close(t, {<<i, room.m[i].ws>>})
    <3>1. IsRoom(s) /\ s.members = room.members
      BY <1>1, RoomIs, MembersAfter
    <3> HIDE DEF s
    <3>2. IsRoom(t) /\ t.members = s.members \ {i}
      BY <3>1, MembersAfter
    <3> HIDE DEF t
    <3>3. IsRoom(u) /\ u.members = t.members
      BY <3>2, MembersAfter
    <3> HIDE DEF u
    <3>4. room' = IF u.members = {} THEN u ELSE Broadcast(u)
      BY <2>2 DEF Leave, s, t, u
    <3>5. room'.members = room.members \ {i}
      BY <3>1, <3>2, <3>3, <3>4, MembersAfter
    <3> QED
      BY <2>2, <3>5
  <2> HIDE DEF Kept
  <2> QED
    BY <1>1, <2>1, <2>2, RequestsKeepSeats, OthersKeepSeats DEF Next
<1>2. IInv /\ [Next]_vars => [Kept]_vars
  BY <1>1
<1> QED
  BY <1>2, AlwaysRight, PTL DEF Spec, SeatKept

-----------------------------------------------------------------------------
(* The outcome of an exchange                                               *)

ObservedPhases == {"exchanging", "result-observed", "breeding", "settling", "interrupted"}
TcpType == [phase : {"idle", "request", "receiving", "lost"}, aligned : BOOLEAN]
PieceType == [side : Sides, what : Commands \cup {"packet", "none"}, payload : Payloads]
ExchangeType ==
    [activity : {"playdate", "gift"}, phase : ObservedPhases, pending : [Sides -> BOOLEAN],
     packetSeen : [Sides -> BOOLEAN], offered : BOOLEAN, accepted : BOOLEAN,
     sync2 : SUBSET Sides, stopped : BOOLEAN, decoding : PieceType, tcp : [Sides -> TcpType]]
\* What there is on the wire at some moment.
WireType ==
    [transfer : [Sides -> [at : {"none", "asked", "sending", "sent"}, packet : Payloads]],
     saw : [pieces : Int, cut : SUBSET Sides, unseen : BOOLEAN, offer : BOOLEAN, bred : BOOLEAN,
            after : SUBSET Sides, phase : ObservedPhases]]

At(x, s) == x.transfer[s].at
Result(x, s) == x.transfer[s].packet
Held(e, x, s) == At(x, s) = "sent" /\ e.packetSeen[s]

OneAtATime(x) == \A s \in Sides : At(x, s) = "none" \/ At(x, Peer(s)) = "none"
\* Where an observer that has decoded all up to x is in the packet of s.  One
\* that lost its place did so in a packet that was given up unseen.
InPlace(e, x, s) ==
    /\ e.tcp[s].phase = "receiving" => At(x, s) = "sending" /\ e.tcp[Peer(s)].aligned
    /\ ~e.tcp[s].aligned => e.pending[s] /\ ~e.packetSeen[s] /\ x.saw.unseen
    /\ e.tcp[s].phase = "lost" => ~e.tcp[s].aligned
    /\ At(x, s) \in {"asked", "sending"} => e.pending[s] /\ ~e.packetSeen[s]
    /\ At(x, s) = "sent" =>
          e.pending[s] /\ (e.packetSeen[s] => e.tcp[s].aligned /\ e.tcp[Peer(s)].aligned)
    /\ At(x, s) \in {"sending", "sent"} /\ e.tcp[s].phase = "request" => ~e.tcp[Peer(s)].aligned
Whole(e, x, s) ==
    /\ e.tcp[s].aligned
    /\ At(x, s) = "none" => e.tcp[s].phase = "idle" /\ ~e.pending[s]
    /\ At(x, s) = "asked" => e.tcp[s].phase = "request"
    /\ At(x, s) = "sending" => e.tcp[s].phase = "receiving"
    /\ At(x, s) = "sent" => e.packetSeen[s]
\* The observer believes a result when it has decrypted it, the toys when it
\* is acknowledged.
Offers(e, x) ==
    /\ e.activity = "gift" => ~e.offered
    /\ e.offered =>
          x.saw.offer \/ \E s \in Sides : Held(e, x, s) /\ Result(x, s).result = 0 /\ Result(x, s).offer
    /\ \A s \in Sides :
          e.offered /\ Held(e, x, s) /\ Result(x, s).result = 0 => Result(x, s).offer
Breeds(e, x) ==
    /\ e.accepted =>
          x.saw.bred \/ \E s \in Sides : Held(e, x, s) /\ Result(x, s).result = 4 /\ x.saw.offer
    /\ e.sync2 \subseteq x.saw.after
    /\ e.phase = "settling" => x.saw.after = Sides

Placed(e, x) ==
    /\ OneAtATime(x)
    /\ \A s \in Sides : InPlace(e, x, s)
    /\ x.saw.cut = {} => \A s \in Sides : Whole(e, x, s)
    /\ x.saw.cut # {} => x.saw.unseen
Believes(e, x) == Offers(e, x) /\ Breeds(e, x)
Lost(e) == \A s \in Sides : e.tcp[s].phase = "lost" => ~e.tcp[s].aligned
\* The observer e has decoded what led to x.
Follows(e, x) ==
    /\ Lost(e)
    /\ IF e.phase = "interrupted" THEN x.saw.cut # {} ELSE Placed(e, x) /\ Believes(e, x)

\* One piece on the wire, from x to y.
AllStill(x) == \A s \in Sides : At(x, s) = "none"
SawSame(x, y) == y.saw.cut = x.saw.cut /\ y.saw.unseen = x.saw.unseen
BelievedSame(x, y) == y.saw.offer = x.saw.offer /\ y.saw.bred = x.saw.bred /\ y.saw.after = x.saw.after
PktStep(x, s, y) ==
    /\ AllStill(x) /\ At(y, s) = "asked" /\ At(y, Peer(s)) = "none"
    /\ SawSame(x, y) /\ BelievedSame(x, y)
AckStep(x, s, y) ==
    /\ At(x, s) \in {"asked", "sent"}
    /\ At(y, s) = IF At(x, s) = "sent" THEN "none" ELSE "sending"
    /\ At(y, Peer(s)) = At(x, Peer(s))
    /\ SawSame(x, y) /\ y.saw.after = x.saw.after
    /\ y.saw.bred = (x.saw.bred \/ (At(x, s) = "sent" /\ Result(x, s).result = 4 /\ x.saw.offer))
    /\ y.saw.offer = IF At(x, s) = "sent" /\ Result(x, s).result = 0
                     THEN Result(x, s).offer \/ (x.saw.unseen /\ x.saw.offer) ELSE x.saw.offer
ChunkStep(x, s, y) ==
    /\ At(x, s) = "sending" /\ At(y, s) = "sent" /\ Result(y, s) = Result(x, s)
    /\ At(y, Peer(s)) = At(x, Peer(s))
    /\ SawSame(x, y) /\ BelievedSame(x, y)
CanStep(x, s, y) ==
    /\ AllStill(y) /\ BelievedSame(x, y)
    /\ y.saw.cut = IF AllStill(x) THEN x.saw.cut ELSE x.saw.cut \cup {s}
    /\ y.saw.unseen = (x.saw.unseen \/ At(x, s) = "sending")
SayStep(x, s, what, y) ==
    /\ AllStill(x) /\ AllStill(y) /\ SawSame(x, y)
    /\ y.saw.offer = x.saw.offer /\ y.saw.bred = x.saw.bred
    /\ y.saw.after = IF what = "SYNC 2" /\ x.saw.bred THEN x.saw.after \cup {s} ELSE x.saw.after
    /\ what \in {"BREED 0", "BREED 1"} => x.saw.offer
WireStep(x, piece, y) ==
    \/ piece.what = "PKT" /\ PktStep(x, piece.side, y)
    \/ piece.what = "ACK" /\ AckStep(x, Peer(piece.side), y)
    \/ piece.what = "CAN" /\ CanStep(x, piece.side, y)
    \/ piece.what \in {"BREED 0", "BREED 1", "SYNC 2"} /\ SayStep(x, piece.side, piece.what, y)
    \/ piece.what = "packet" /\ piece.payload = Result(x, piece.side) /\ ChunkStep(x, piece.side, y)

-----------------------------------------------------------------------------
(* What a line does to the observer, field by field                         *)

\* There are two sides.
LEMMA PeerOf ==
  ASSUME NEW s \in Sides
  PROVE  /\ Peer(s) \in Sides /\ Peer(s) # s /\ Peer(Peer(s)) = s
         /\ \A t \in Sides : t = s \/ t = Peer(s)
  BY DEF Sides, Peer

\* set() changes the phase at most.
LEMMA SetPhaseFields ==
  ASSUME NEW e \in ExchangeType, NEW phase \in ObservedPhases
  PROVE  /\ SetPhase(e, phase) \in ExchangeType
         /\ SetPhase(e, phase).pending = e.pending /\ SetPhase(e, phase).packetSeen = e.packetSeen
         /\ SetPhase(e, phase).offered = e.offered /\ SetPhase(e, phase).accepted = e.accepted
         /\ SetPhase(e, phase).sync2 = e.sync2 /\ SetPhase(e, phase).stopped = e.stopped
         /\ SetPhase(e, phase).decoding = e.decoding /\ SetPhase(e, phase).tcp = e.tcp
         /\ SetPhase(e, phase).activity = e.activity
         /\ SetPhase(e, phase).phase = IF e.stopped \/ e.phase = "interrupted" THEN e.phase ELSE phase
  <1>1. CASE e.stopped \/ e.phase = "interrupted"
    BY <1>1 DEF SetPhase
  <1>2. CASE ~(e.stopped \/ e.phase = "interrupted")
    <2>1. SetPhase(e, phase) = [e EXCEPT !.phase = phase]
      BY <1>2 DEF SetPhase
    <2>2. QED
      BY <1>2, <2>1 DEF ExchangeType
  <1>3. QED
    BY <1>1, <1>2

\* The line reaches command() with its decoder in the phase it leaves it in.
Reads(tcp, line) ==
    [tcp EXCEPT !.phase = CASE line = "PKT" -> "request" [] line = "CAN" -> "idle" [] OTHER -> tcp.phase]
Hears(tcp, line) ==
    IF line = "ACK" /\ tcp.phase = "request" THEN [tcp EXCEPT !.phase = "receiving"] ELSE tcp
Here(e, side, line) ==
    [e EXCEPT !.tcp = [s \in Sides |-> IF s = side THEN Reads(e.tcp[side], line)
                                       ELSE Hears(e.tcp[Peer(side)], line)]]

\* Line with its local definitions named.
LEMMA LineCases ==
  ASSUME NEW e \in ExchangeType, NEW s \in Sides, NEW line \in Commands
  PROVE  Line(e, s, line) =
           IF e.tcp[s].phase = "receiving" THEN [e EXCEPT !.tcp[s] = [phase |-> "lost", aligned |-> FALSE]]
           ELSE IF e.tcp[s].phase = "lost" THEN e
           ELSE IF ~e.tcp[s].aligned THEN [e EXCEPT !.tcp[s] = Reads(e.tcp[s], line)]
           ELSE Command(Here(e, s, line), s, line)
  BY DEF Line, Reads, Hears, Here

\* Before command() only the two decoders have changed.
LEMMA HereFields ==
  ASSUME NEW e \in ExchangeType, NEW s \in Sides, NEW line \in Commands
  PROVE  /\ Here(e, s, line) \in ExchangeType
         /\ Here(e, s, line).pending = e.pending /\ Here(e, s, line).packetSeen = e.packetSeen
         /\ Here(e, s, line).offered = e.offered /\ Here(e, s, line).accepted = e.accepted
         /\ Here(e, s, line).sync2 = e.sync2 /\ Here(e, s, line).stopped = e.stopped
         /\ Here(e, s, line).decoding = e.decoding /\ Here(e, s, line).phase = e.phase
         /\ Here(e, s, line).activity = e.activity
         /\ Here(e, s, line).tcp[s].aligned = e.tcp[s].aligned
         /\ Here(e, s, line).tcp[Peer(s)].aligned = e.tcp[Peer(s)].aligned
         /\ Here(e, s, line).tcp[s].phase =
              IF line = "PKT" THEN "request" ELSE IF line = "CAN" THEN "idle" ELSE e.tcp[s].phase
         /\ Here(e, s, line).tcp[Peer(s)].phase =
              IF line = "ACK" /\ e.tcp[Peer(s)].phase = "request" THEN "receiving" ELSE e.tcp[Peer(s)].phase
  <1> DEFINE own == Reads(e.tcp[s], line)
             its == Hears(e.tcp[Peer(s)], line)
             tcp == [t \in Sides |-> IF t = s THEN own ELSE its]
  <1>1. e.tcp[s] \in TcpType /\ e.tcp[Peer(s)] \in TcpType
    BY PeerOf DEF ExchangeType
  <1>2. /\ own \in TcpType /\ own.aligned = e.tcp[s].aligned
        /\ own.phase = IF line = "PKT" THEN "request" ELSE IF line = "CAN" THEN "idle" ELSE e.tcp[s].phase
    BY <1>1 DEF Reads, TcpType
  <1>3. /\ its \in TcpType /\ its.aligned = e.tcp[Peer(s)].aligned
        /\ its.phase = IF line = "ACK" /\ e.tcp[Peer(s)].phase = "request" THEN "receiving"
                       ELSE e.tcp[Peer(s)].phase
    BY <1>1 DEF Hears, TcpType
  <1> HIDE DEF own, its
  <1>4. tcp \in [Sides -> TcpType] /\ tcp[s] = own /\ tcp[Peer(s)] = its
    BY <1>2, <1>3, PeerOf
  <1>5. Here(e, s, line) = [e EXCEPT !.tcp = tcp]
    BY DEF Here, own, its
  <1> HIDE DEF tcp
  <1>6. QED
    BY <1>2, <1>3, <1>4, <1>5 DEF ExchangeType

\* What no line changes.
Keeps(e, g) ==
    /\ g \in ExchangeType /\ g.offered = e.offered /\ g.accepted = e.accepted
    /\ g.stopped = e.stopped /\ g.decoding = e.decoding /\ g.activity = e.activity
\* What command() does.
Commanded(e, s, line, g) ==
    /\ g.pending[s] = (line = "PKT" \/ e.pending[s])
    /\ g.pending[Peer(s)] = (e.pending[Peer(s)] /\ ~(line = "ACK" /\ e.packetSeen[Peer(s)]))
    /\ g.packetSeen[s] = (line # "PKT" /\ e.packetSeen[s])
    /\ g.packetSeen[Peer(s)] = e.packetSeen[Peer(s)]
    /\ g.sync2 = IF line = "SYNC 2" /\ e.accepted THEN e.sync2 \cup {s} ELSE e.sync2
    /\ e.phase = "interrupted" => g.phase = "interrupted"
    /\ line = "CAN" /\ (\E t \in Sides : e.pending[t]) => g.phase = "interrupted"
    /\ g.phase = "interrupted" =>
         e.phase = "interrupted" \/ (line = "CAN" /\ \E t \in Sides : e.pending[t])
    /\ g.phase = "settling" => e.phase = "settling" \/ g.sync2 = Sides

LEMMA CommandFields ==
  ASSUME NEW e \in ExchangeType, NEW s \in Sides, NEW line \in Commands, ~e.stopped
  PROVE  /\ Keeps(e, Command(e, s, line))
         /\ Command(e, s, line).tcp = e.tcp
         /\ Commanded(e, s, line, Command(e, s, line))
  <1> DEFINE pend == IF line = "PKT" THEN [e.pending EXCEPT ![s] = TRUE]
                     ELSE IF line = "ACK" /\ e.packetSeen[Peer(s)]
                          THEN [e.pending EXCEPT ![Peer(s)] = FALSE] ELSE e.pending
             seen == IF line = "PKT" THEN [e.packetSeen EXCEPT ![s] = FALSE] ELSE e.packetSeen
             sync == IF line = "SYNC 2" /\ e.accepted THEN e.sync2 \cup {s} ELSE e.sync2
             f == [e EXCEPT !.pending = pend, !.packetSeen = seen, !.sync2 = sync]
             g == Command(e, s, line)
  <1>0. /\ e.pending \in [Sides -> BOOLEAN] /\ e.packetSeen \in [Sides -> BOOLEAN]
        /\ e.pending[s] \in BOOLEAN /\ e.pending[Peer(s)] \in BOOLEAN
        /\ e.packetSeen[s] \in BOOLEAN /\ e.packetSeen[Peer(s)] \in BOOLEAN
    BY PeerOf DEF ExchangeType
  <1>1. /\ pend \in [Sides -> BOOLEAN]
        /\ pend[s] = (line = "PKT" \/ e.pending[s])
        /\ pend[Peer(s)] = (e.pending[Peer(s)] /\ ~(line = "ACK" /\ e.packetSeen[Peer(s)]))
    <2>1. CASE line = "PKT"
      <3>1. pend = [e.pending EXCEPT ![s] = TRUE]
        BY <2>1
      <3> HIDE DEF pend
      <3>2. QED
        BY <3>1, <2>1, <1>0, PeerOf
    <2>2. CASE line = "ACK" /\ e.packetSeen[Peer(s)]
      <3>1. pend = [e.pending EXCEPT ![Peer(s)] = FALSE]
        BY <2>2
      <3> HIDE DEF pend
      <3>2. QED
        BY <3>1, <2>2, <1>0, PeerOf
    <2>3. CASE line # "PKT" /\ ~(line = "ACK" /\ e.packetSeen[Peer(s)])
      <3>1. pend = e.pending
        BY <2>3
      <3> HIDE DEF pend
      <3>2. QED
        BY <3>1, <2>3, <1>0
    <2>4. QED
      BY <2>1, <2>2, <2>3
  <1>2. /\ seen \in [Sides -> BOOLEAN]
        /\ seen[s] = (line # "PKT" /\ e.packetSeen[s])
        /\ seen[Peer(s)] = e.packetSeen[Peer(s)]
    <2>1. CASE line = "PKT"
      <3>1. seen = [e.packetSeen EXCEPT ![s] = FALSE]
        BY <2>1
      <3> HIDE DEF seen
      <3>2. QED
        BY <3>1, <2>1, <1>0, PeerOf
    <2>2. CASE line # "PKT"
      <3>1. seen = e.packetSeen
        BY <2>2
      <3> HIDE DEF seen
      <3>2. QED
        BY <3>1, <2>2, <1>0
    <2>3. QED
      BY <2>1, <2>2
  <1>3. sync \in SUBSET Sides
    BY DEF ExchangeType
  <1>4. line = "CAN" => pend = e.pending
    OBVIOUS
  <1>5. g = CASE line = "CAN" /\ (\E t \in Sides : f.pending[t]) -> SetPhase(f, "interrupted")
              [] line = "BREED 1" /\ e.offered -> SetPhase(f, "breeding")
              [] line = "BREED 0" /\ e.offered -> SetPhase(f, "result-observed")
              [] line = "SYNC 2" /\ f.sync2 = Sides -> SetPhase(f, "settling")
              [] OTHER -> f
    BY DEF Command
  <1> HIDE DEF pend, seen, sync, g
  <1>6. /\ f \in ExchangeType /\ f.pending = pend /\ f.packetSeen = seen /\ f.sync2 = sync
        /\ f.offered = e.offered /\ f.accepted = e.accepted /\ f.phase = e.phase
        /\ f.stopped = e.stopped /\ f.decoding = e.decoding
        /\ f.activity = e.activity /\ f.tcp = e.tcp
    BY <1>1, <1>2, <1>3 DEF ExchangeType
  <1> HIDE DEF f
  <1> DEFINE Same(h) == /\ h \in ExchangeType /\ h.pending = pend /\ h.packetSeen = seen /\ h.sync2 = sync
                        /\ h.offered = e.offered /\ h.accepted = e.accepted
                        /\ h.stopped = e.stopped /\ h.decoding = e.decoding
                        /\ h.activity = e.activity /\ h.tcp = e.tcp
  <1>7. \A p \in ObservedPhases : /\ Same(SetPhase(f, p))
                             /\ SetPhase(f, p).phase = IF e.phase = "interrupted" THEN e.phase ELSE p
    BY <1>6, SetPhaseFields
  <1>8. Same(f)
    BY <1>6
  <1> DEFINE Reported(h) ==
               /\ e.phase = "interrupted" => h.phase = "interrupted"
               /\ line = "CAN" /\ (\E t \in Sides : e.pending[t]) => h.phase = "interrupted"
               /\ h.phase = "interrupted" =>
                    e.phase = "interrupted" \/ (line = "CAN" /\ \E t \in Sides : e.pending[t])
               /\ h.phase = "settling" => e.phase = "settling" \/ h.sync2 = Sides
  <1>9. Same(g) /\ Reported(g)
    <2> HIDE DEF Same
    <2>1. CASE line = "CAN" /\ (\E t \in Sides : f.pending[t])
      <3>1. g = SetPhase(f, "interrupted")
        BY <1>5, <2>1
      <3>2. Same(g) /\ g.phase = "interrupted"
        BY <3>1, <1>7, Zenon DEF ObservedPhases
      <3>3. \E t \in Sides : e.pending[t]
        BY <2>1, <1>4, <1>6
      <3>4. QED
        BY <3>2, <3>3, <2>1
    <2>2. CASE line = "BREED 1" /\ e.offered
      <3>1. g = SetPhase(f, "breeding")
        BY <1>5, <2>2
      <3>2. Same(g) /\ g.phase = IF e.phase = "interrupted" THEN e.phase ELSE "breeding"
        BY <3>1, <1>7, Zenon DEF ObservedPhases
      <3>3. QED
        BY <3>2, <2>2
    <2>3. CASE line = "BREED 0" /\ e.offered
      <3>1. g = SetPhase(f, "result-observed")
        BY <1>5, <2>3
      <3>2. Same(g) /\ g.phase = IF e.phase = "interrupted" THEN e.phase ELSE "result-observed"
        BY <3>1, <1>7, Zenon DEF ObservedPhases
      <3>3. QED
        BY <3>2, <2>3
    <2>4. CASE line = "SYNC 2" /\ f.sync2 = Sides
      <3>1. g = SetPhase(f, "settling")
        BY <1>5, <2>4
      <3>2. Same(g) /\ g.phase = IF e.phase = "interrupted" THEN e.phase ELSE "settling"
        BY <3>1, <1>7, Zenon DEF ObservedPhases
      <3>3. g.sync2 = Sides
        BY <3>2, <1>6, <2>4 DEF Same
      <3>4. QED
        BY <3>2, <3>3, <2>4
    <2>5. CASE /\ ~(line = "CAN" /\ (\E t \in Sides : f.pending[t]))
               /\ ~(line = "BREED 1" /\ e.offered) /\ ~(line = "BREED 0" /\ e.offered)
               /\ ~(line = "SYNC 2" /\ f.sync2 = Sides)
      <3>1. g = f
        BY <1>5, <2>5
      <3>2. QED
        BY <3>1, <1>4, <1>6, <1>8, <2>5
    <2>6. QED
      BY <2>1, <2>2, <2>3, <2>4, <2>5
  <1>10. QED
    BY <1>9, <1>1, <1>2 DEF g, sync, Keeps, Commanded

\* A decoder that takes the line for part of a packet, or has lost its place.
Skips(e, s, line, g) ==
    /\ g.pending = e.pending /\ g.packetSeen = e.packetSeen
    /\ g.sync2 = e.sync2 /\ g.phase = e.phase
    /\ g.tcp[Peer(s)].phase = e.tcp[Peer(s)].phase
    /\ g.tcp[Peer(s)].aligned = e.tcp[Peer(s)].aligned
    /\ ~g.tcp[s].aligned
    /\ g.tcp[s].phase = IF e.tcp[s].phase \in {"receiving", "lost"} THEN "lost"
                        ELSE IF line = "PKT" THEN "request" ELSE IF line = "CAN" THEN "idle"
                        ELSE e.tcp[s].phase
\* A decoder that is in its place.
ReadsLine(e, s, line, g) ==
    /\ Commanded(e, s, line, g)
    /\ g.tcp[s].aligned = e.tcp[s].aligned
    /\ g.tcp[Peer(s)].aligned = e.tcp[Peer(s)].aligned
    /\ g.tcp[s].phase =
         IF line = "PKT" THEN "request" ELSE IF line = "CAN" THEN "idle" ELSE e.tcp[s].phase
    /\ g.tcp[Peer(s)].phase =
         IF line = "ACK" /\ e.tcp[Peer(s)].phase = "request" THEN "receiving" ELSE e.tcp[Peer(s)].phase

OutOfPlace(e, s) == e.tcp[s].phase \in {"receiving", "lost"} \/ ~e.tcp[s].aligned

\* A line is skipped or read.  An observer that lost its place, whose phase is
\* "lost", is one whose decoder is not aligned.
LEMMA LineFields ==
  ASSUME NEW e \in ExchangeType, NEW s \in Sides, NEW line \in Commands, ~e.stopped,
         e.tcp[s].phase = "lost" => ~e.tcp[s].aligned
  PROVE  /\ Keeps(e, Line(e, s, line))
         /\ OutOfPlace(e, s) => Skips(e, s, line, Line(e, s, line))
         /\ ~OutOfPlace(e, s) => ReadsLine(e, s, line, Line(e, s, line))
  <1>0. /\ e.tcp[s] \in TcpType /\ e.tcp[Peer(s)] \in TcpType /\ e.tcp \in [Sides -> TcpType]
        /\ Peer(s) \in Sides /\ Peer(s) # s
    BY PeerOf DEF ExchangeType
  <1> DEFINE Changed(r) == [e EXCEPT !.tcp[s] = r]
  <1>1. ASSUME NEW r \in TcpType
        PROVE  /\ Keeps(e, Changed(r))
               /\ Changed(r).pending = e.pending /\ Changed(r).packetSeen = e.packetSeen
               /\ Changed(r).sync2 = e.sync2 /\ Changed(r).phase = e.phase
               /\ Changed(r).tcp[s] = r /\ Changed(r).tcp[Peer(s)] = e.tcp[Peer(s)]
    <2> DEFINE tcp == [e.tcp EXCEPT ![s] = r]
    <2>1. tcp \in [Sides -> TcpType] /\ tcp[s] = r /\ tcp[Peer(s)] = e.tcp[Peer(s)]
      BY <1>0, <1>1
    <2>2. Changed(r) = [e EXCEPT !.tcp = tcp]
      BY DEF ExchangeType
    <2> HIDE DEF tcp, Changed
    <2>3. QED
      BY <2>1, <2>2 DEF ExchangeType, Keeps
  <1>2. CASE e.tcp[s].phase = "receiving"
    <2> DEFINE r == [phase |-> "lost", aligned |-> FALSE]
    <2>1. Line(e, s, line) = Changed(r)
      BY <1>2, LineCases
    <2>2. r \in TcpType /\ r.phase = "lost" /\ r.aligned = FALSE
      BY DEF TcpType
    <2> HIDE DEF r, Changed
    <2>3. QED
      BY <1>1, <1>2, <2>1, <2>2 DEF Skips, OutOfPlace
  <1>3. CASE e.tcp[s].phase = "lost"
    <2>1. Line(e, s, line) = e
      BY <1>3, LineCases
    <2>2. QED
      BY <1>3, <2>1 DEF Skips, OutOfPlace, Keeps
  <1>4. CASE e.tcp[s].phase \notin {"receiving", "lost"} /\ ~e.tcp[s].aligned
    <2> DEFINE r == Reads(e.tcp[s], line)
    <2>1. Line(e, s, line) = Changed(r)
      BY <1>4, LineCases
    <2>2. /\ r \in TcpType /\ r.aligned = e.tcp[s].aligned
          /\ r.phase = IF line = "PKT" THEN "request" ELSE IF line = "CAN" THEN "idle"
                       ELSE e.tcp[s].phase
      BY <1>0 DEF TcpType, Reads
    <2> HIDE DEF r, Changed
    <2>3. QED
      BY <1>1, <1>4, <2>1, <2>2 DEF Skips, OutOfPlace
  <1>5. CASE ~OutOfPlace(e, s)
    <2> DEFINE h == Here(e, s, line)
    <2>1. Line(e, s, line) = Command(h, s, line)
      BY <1>5, LineCases DEF OutOfPlace
    <2>2. h \in ExchangeType /\ ~h.stopped
      BY HereFields
    <2> HIDE DEF h
    <2> DEFINE g == Command(h, s, line)
    <2>3. Keeps(h, g) /\ g.tcp = h.tcp /\ Commanded(h, s, line, g)
      BY <2>2, CommandFields
    <2>4. /\ h.pending = e.pending /\ h.packetSeen = e.packetSeen
          /\ h.offered = e.offered /\ h.accepted = e.accepted
          /\ h.sync2 = e.sync2 /\ h.stopped = e.stopped
          /\ h.decoding = e.decoding /\ h.phase = e.phase /\ h.activity = e.activity
      BY HereFields DEF h
    <2>5. /\ h.tcp[s].aligned = e.tcp[s].aligned
          /\ h.tcp[Peer(s)].aligned = e.tcp[Peer(s)].aligned
          /\ h.tcp[s].phase =
               IF line = "PKT" THEN "request" ELSE IF line = "CAN" THEN "idle" ELSE e.tcp[s].phase
          /\ h.tcp[Peer(s)].phase =
               IF line = "ACK" /\ e.tcp[Peer(s)].phase = "request" THEN "receiving"
               ELSE e.tcp[Peer(s)].phase
      BY HereFields DEF h
    <2> HIDE DEF g
    <2>6. Keeps(e, g)
      BY <2>3, <2>4 DEF Keeps
    <2>7. Commanded(e, s, line, g)
      BY <2>3, <2>4 DEF Commanded
    <2>8. ReadsLine(e, s, line, g)
      BY <2>3, <2>5, <2>7 DEF ReadsLine
    <2>9. QED
      BY <1>5, <2>1, <2>6, <2>8 DEF g
  <1>6. QED
    BY <1>2, <1>3, <1>4, <1>5 DEF OutOfPlace

-----------------------------------------------------------------------------
(* Each piece keeps the observer in its place                               *)

\* Types of the fields the steps below speak of.
LEMMA BooleanFields ==
  ASSUME NEW e \in ExchangeType, NEW x \in WireType, NEW s \in Sides
  PROVE  /\ e.pending[s] \in BOOLEAN /\ e.packetSeen[s] \in BOOLEAN /\ e.offered \in BOOLEAN
         /\ e.accepted \in BOOLEAN /\ e.tcp[s].aligned \in BOOLEAN
         /\ e.tcp[s].phase \in {"idle", "request", "receiving", "lost"}
         /\ x.saw.unseen \in BOOLEAN /\ x.saw.offer \in BOOLEAN /\ x.saw.bred \in BOOLEAN
         /\ At(x, s) \in {"none", "asked", "sending", "sent"} /\ Result(x, s) \in Payloads
         /\ Result(x, s).offer \in BOOLEAN
         /\ x.saw.cut \in SUBSET Sides /\ x.saw.after \in SUBSET Sides /\ e.sync2 \in SUBSET Sides
  <1>1. e.tcp[s] \in TcpType /\ e.pending[s] \in BOOLEAN /\ e.packetSeen[s] \in BOOLEAN
    BY DEF ExchangeType
  <1>2. At(x, s) \in {"none", "asked", "sending", "sent"} /\ Result(x, s) \in Payloads
    BY DEF WireType, At, Result
  <1>3. \A r \in Payloads : r.offer \in BOOLEAN
    <2>1. TAKE r \in Payloads
    <2>2. CASE r = [result |-> -1, offer |-> FALSE] \/ r = [result |-> 4, offer |-> FALSE]
      <3>1. r.offer = FALSE
        BY <2>2
      <3>2. QED
        BY <3>1
    <2>3. ASSUME NEW o \in BOOLEAN, r = [result |-> 0, offer |-> o]
          PROVE  r.offer \in BOOLEAN
      <3>1. r.offer = o
        BY <2>3
      <3>2. QED
        BY <3>1
    <2>4. QED
      BY <2>2, <2>3 DEF Payloads
  <1>4. QED
    BY <1>1, <1>2, <1>3 DEF ExchangeType, WireType, TcpType

\* What follows of a state in which both sides are as InPlace and Whole say.
LEMMA BySide ==
  ASSUME NEW e, NEW x, NEW s \in Sides
  PROVE  Placed(e, x) <=>
           /\ At(x, s) = "none" \/ At(x, Peer(s)) = "none"
           /\ InPlace(e, x, s) /\ InPlace(e, x, Peer(s))
           /\ x.saw.cut = {} => Whole(e, x, s) /\ Whole(e, x, Peer(s))
           /\ x.saw.cut # {} => x.saw.unseen
  BY PeerOf DEF Placed, OneAtATime

\* An announcement: the observer waits for the packet, in its place or not.
LEMMA PktPlaced ==
  ASSUME NEW e \in ExchangeType, NEW x \in WireType, NEW y \in WireType, NEW s \in Sides,
         ~e.stopped, Placed(e, x), PktStep(x, s, y)
  PROVE  Placed(Line(e, s, "PKT"), y)
  <1> DEFINE g == Line(e, s, "PKT")
             p == Peer(s)
  <1>0. p \in Sides /\ Peer(p) = s /\ "PKT" \in Commands
    BY PeerOf DEF Commands
  <1>1. InPlace(e, x, s) /\ InPlace(e, x, p)
        /\ (x.saw.cut = {} => Whole(e, x, s) /\ Whole(e, x, p)) /\ (x.saw.cut # {} => x.saw.unseen)
    BY BySide
  <1>2. /\ Keeps(e, g)
        /\ OutOfPlace(e, s) => Skips(e, s, "PKT", g)
        /\ ~OutOfPlace(e, s) => ReadsLine(e, s, "PKT", g)
    BY <1>0, <1>1, LineFields DEF InPlace
  <1>3. /\ At(x, s) = "none" /\ At(x, p) = "none" /\ At(y, s) = "asked" /\ At(y, p) = "none"
        /\ y.saw.cut = x.saw.cut /\ y.saw.unseen = x.saw.unseen
    BY <1>0 DEF PktStep, AllStill, SawSame
  <1> HIDE DEF g, p
  <1>4. InPlace(g, y, s) /\ InPlace(g, y, p)
    <2>1. CASE OutOfPlace(e, s)
      BY <2>1, <1>0, <1>1, <1>2, <1>3 DEF InPlace, Skips, OutOfPlace, p
    <2>2. CASE ~OutOfPlace(e, s)
      BY <2>2, <1>0, <1>1, <1>2, <1>3 DEF InPlace, ReadsLine, Commanded, OutOfPlace, p
    <2>3. QED
      BY <2>1, <2>2
  <1>5. y.saw.cut = {} => Whole(g, y, s) /\ Whole(g, y, p)
    <2>1. y.saw.cut = {} => ~OutOfPlace(e, s)
      BY <1>1, <1>3 DEF Whole, OutOfPlace
    <2>2. QED
      BY <2>1, <1>0, <1>1, <1>2, <1>3 DEF Whole, ReadsLine, Commanded, p
  <1>6. QED
    BY <1>1, <1>3, <1>4, <1>5, BySide DEF g, p

\* An acknowledgement: the decoder that waits for a packet is in it now, and a
\* packet that was decrypted pends no longer.
LEMMA AckPlaced ==
  ASSUME NEW e \in ExchangeType, NEW x \in WireType, NEW y \in WireType, NEW s \in Sides,
         ~e.stopped, Placed(e, x), AckStep(x, Peer(s), y)
  PROVE  Placed(Line(e, s, "ACK"), y)
  <1> DEFINE g == Line(e, s, "ACK")
             p == Peer(s)
  <1>0. p \in Sides /\ Peer(p) = s /\ "ACK" \in Commands
    BY PeerOf DEF Commands
  <1>1. InPlace(e, x, s) /\ InPlace(e, x, p)
        /\ (x.saw.cut = {} => Whole(e, x, s) /\ Whole(e, x, p)) /\ (x.saw.cut # {} => x.saw.unseen)
    BY BySide
  <1>2. /\ Keeps(e, g)
        /\ OutOfPlace(e, s) => Skips(e, s, "ACK", g)
        /\ ~OutOfPlace(e, s) => ReadsLine(e, s, "ACK", g)
    BY <1>0, <1>1, LineFields DEF InPlace
  <1>3. /\ At(x, p) \in {"asked", "sent"} /\ At(x, s) = "none" /\ At(y, s) = "none"
        /\ At(y, p) = IF At(x, p) = "sent" THEN "none" ELSE "sending"
        /\ y.saw.cut = x.saw.cut /\ y.saw.unseen = x.saw.unseen
    BY <1>0, BySide DEF AckStep, SawSame
  <1>b. /\ e.pending[s] \in BOOLEAN /\ e.packetSeen[s] \in BOOLEAN
        /\ e.pending[p] \in BOOLEAN /\ e.packetSeen[p] \in BOOLEAN
        /\ e.tcp[s].aligned \in BOOLEAN /\ e.tcp[p].aligned \in BOOLEAN
        /\ e.tcp[p].phase \in {"idle", "request", "receiving", "lost"}
    BY <1>0, BooleanFields
  <1> HIDE DEF g, p
  <1>4. InPlace(g, y, s)
    <2>1. CASE OutOfPlace(e, s)
      BY <2>1, <1>0, <1>1, <1>2, <1>3, <1>b DEF InPlace, Skips, OutOfPlace, p
    <2>2. CASE ~OutOfPlace(e, s)
      BY <2>2, <1>0, <1>1, <1>2, <1>3, <1>b DEF InPlace, ReadsLine, Commanded, OutOfPlace, p
    <2>3. QED
      BY <2>1, <2>2
  <1>5. InPlace(g, y, p)
    <2>1. CASE OutOfPlace(e, s)
      BY <2>1, <1>0, <1>1, <1>2, <1>3, <1>b DEF InPlace, Skips, OutOfPlace, p
    <2>2. CASE ~OutOfPlace(e, s)
      BY <2>2, <1>0, <1>1, <1>2, <1>3, <1>b DEF InPlace, ReadsLine, Commanded, OutOfPlace, p
    <2>3. QED
      BY <2>1, <2>2
  <1>6. y.saw.cut = {} => Whole(g, y, s) /\ Whole(g, y, p)
    <2>1. y.saw.cut = {} => ~OutOfPlace(e, s)
      BY <1>1, <1>3 DEF Whole, OutOfPlace
    <2>2. CASE At(x, p) = "asked"
      BY <2>1, <2>2, <1>0, <1>1, <1>2, <1>3, <1>b DEF Whole, ReadsLine, Commanded, p
    <2>3. CASE At(x, p) = "sent"
      <3>1. y.saw.cut = {} => e.tcp[p].phase = "idle" /\ e.packetSeen[p]
        BY <2>3, <1>0, <1>1, <1>3, <1>b DEF Whole, InPlace, p
      <3>2. QED
        BY <3>1, <2>1, <2>3, <1>0, <1>1, <1>2, <1>3, <1>b DEF Whole, ReadsLine, Commanded, p
    <2>4. QED
      BY <2>2, <2>3, <1>3
  <1>7. QED
    BY <1>1, <1>3, <1>4, <1>5, <1>6, BySide DEF g, p

\* A cancellation that does not interrupt: nothing was under way, or it was
\* taken for chunk bytes and the place is lost.
LEMMA CanPlaced ==
  ASSUME NEW e \in ExchangeType, NEW x \in WireType, NEW y \in WireType, NEW s \in Sides,
         e.phase # "interrupted",
         ~e.stopped, Placed(e, x), CanStep(x, s, y)
  PROVE  Line(e, s, "CAN").phase # "interrupted" => Placed(Line(e, s, "CAN"), y)
  <1> DEFINE g == Line(e, s, "CAN")
             p == Peer(s)
  <1>0. p \in Sides /\ Peer(p) = s /\ p # s /\ "CAN" \in Commands /\ Sides = {s, p}
    BY PeerOf DEF Commands
  <1>1. InPlace(e, x, s) /\ InPlace(e, x, p)
        /\ (x.saw.cut = {} => Whole(e, x, s) /\ Whole(e, x, p)) /\ (x.saw.cut # {} => x.saw.unseen)
    BY BySide
  <1>2. /\ Keeps(e, g)
        /\ OutOfPlace(e, s) => Skips(e, s, "CAN", g)
        /\ ~OutOfPlace(e, s) => ReadsLine(e, s, "CAN", g)
    BY <1>0, <1>1, LineFields DEF InPlace
  <1>3. /\ At(x, s) = "none" \/ At(x, p) = "none"
        /\ At(y, s) = "none" /\ At(y, p) = "none"
        /\ AllStill(x) <=> At(x, s) = "none" /\ At(x, p) = "none"
        /\ y.saw.cut = IF AllStill(x) THEN x.saw.cut ELSE x.saw.cut \cup {s}
        /\ y.saw.unseen = (x.saw.unseen \/ At(x, s) = "sending")
    BY <1>0, BySide DEF CanStep, AllStill
  <1>b. /\ e.pending[s] \in BOOLEAN /\ e.packetSeen[s] \in BOOLEAN
        /\ e.pending[p] \in BOOLEAN /\ e.packetSeen[p] \in BOOLEAN
        /\ e.tcp[s].aligned \in BOOLEAN /\ e.tcp[p].aligned \in BOOLEAN
        /\ e.tcp[p].phase \in {"idle", "request", "receiving", "lost"}
        /\ e.tcp[s].phase \in {"idle", "request", "receiving", "lost"}
        /\ At(x, s) \in {"none", "asked", "sending", "sent"}
        /\ At(x, p) \in {"none", "asked", "sending", "sent"}
        /\ x.saw.unseen \in BOOLEAN
    BY <1>0, BooleanFields
  <1>4. SUFFICES ASSUME g.phase # "interrupted" PROVE Placed(g, y)
    OBVIOUS
  <1>5. ~OutOfPlace(e, s) => ~e.pending[s] /\ ~e.pending[p]
    BY <1>0, <1>2, <1>4 DEF ReadsLine, Commanded
  <1> HIDE DEF g, p
  <1>6. ~OutOfPlace(e, s) => AllStill(x)
    BY <1>1, <1>3, <1>5, <1>b DEF InPlace
  <1>7. InPlace(g, y, s) /\ InPlace(g, y, p)
    <2>1. CASE OutOfPlace(e, s)
      BY <2>1, <1>0, <1>1, <1>2, <1>3, <1>b DEF InPlace, Skips, OutOfPlace, p
    <2>2. CASE ~OutOfPlace(e, s)
      BY <2>2, <1>0, <1>1, <1>2, <1>3, <1>5, <1>6, <1>b DEF InPlace, ReadsLine, Commanded, OutOfPlace, p
    <2>3. QED
      BY <2>1, <2>2
  <1>8. y.saw.cut = {} => Whole(g, y, s) /\ Whole(g, y, p)
    <2>1. y.saw.cut = {} => x.saw.cut = {} /\ AllStill(x)
      BY <1>3
    <2>2. y.saw.cut = {} => ~OutOfPlace(e, s)
      BY <2>1, <1>1, <1>3 DEF Whole, OutOfPlace
    <2>3. QED
      BY <2>1, <2>2, <1>0, <1>1, <1>2, <1>3, <1>5, <1>b DEF Whole, ReadsLine, Commanded, p
  <1>9. y.saw.cut # {} => y.saw.unseen
    <2>1. CASE AllStill(x)
      BY <2>1, <1>1, <1>3
    <2>2. CASE ~AllStill(x)
      BY <2>2, <1>1, <1>3, <1>6 DEF InPlace, OutOfPlace
    <2>3. QED
      BY <2>1, <2>2
  <1>10. QED
    BY <1>3, <1>7, <1>8, <1>9, BySide DEF g, p

\* What is said between packets moves no transfer.
LEMMA SayPlaced ==
  ASSUME NEW e \in ExchangeType, NEW x \in WireType, NEW y \in WireType, NEW s \in Sides,
         NEW what \in {"BREED 0", "BREED 1", "SYNC 2"},
         ~e.stopped, Placed(e, x), SayStep(x, s, what, y)
  PROVE  Placed(Line(e, s, what), y)
  <1> DEFINE g == Line(e, s, what)
             p == Peer(s)
  <1>0. p \in Sides /\ Peer(p) = s /\ what \in Commands /\ what \notin {"PKT", "ACK", "CAN"}
    BY PeerOf DEF Commands
  <1>1. InPlace(e, x, s) /\ InPlace(e, x, p)
        /\ (x.saw.cut = {} => Whole(e, x, s) /\ Whole(e, x, p)) /\ (x.saw.cut # {} => x.saw.unseen)
    BY BySide
  <1>2. /\ Keeps(e, g)
        /\ OutOfPlace(e, s) => Skips(e, s, what, g)
        /\ ~OutOfPlace(e, s) => ReadsLine(e, s, what, g)
    BY <1>0, <1>1, LineFields DEF InPlace
  <1>3. /\ At(x, s) = "none" /\ At(x, p) = "none" /\ At(y, s) = "none" /\ At(y, p) = "none"
        /\ y.saw.cut = x.saw.cut /\ y.saw.unseen = x.saw.unseen
    BY <1>0 DEF SayStep, AllStill, SawSame
  <1>b. /\ e.pending[s] \in BOOLEAN /\ e.packetSeen[s] \in BOOLEAN
        /\ e.pending[p] \in BOOLEAN /\ e.packetSeen[p] \in BOOLEAN
    BY <1>0, BooleanFields
  <1> HIDE DEF g, p
  <1>4. InPlace(g, y, s) /\ InPlace(g, y, p)
    <2>1. CASE OutOfPlace(e, s)
      BY <2>1, <1>0, <1>1, <1>2, <1>3 DEF InPlace, Skips, OutOfPlace, p
    <2>2. CASE ~OutOfPlace(e, s)
      BY <2>2, <1>0, <1>1, <1>2, <1>3, <1>b DEF InPlace, ReadsLine, Commanded, OutOfPlace, p
    <2>3. QED
      BY <2>1, <2>2
  <1>5. y.saw.cut = {} => Whole(g, y, s) /\ Whole(g, y, p)
    <2>1. y.saw.cut = {} => ~OutOfPlace(e, s)
      BY <1>1, <1>3 DEF Whole, OutOfPlace
    <2>2. QED
      BY <2>1, <1>0, <1>1, <1>2, <1>3, <1>b DEF Whole, ReadsLine, Commanded, p
  <1>6. QED
    BY <1>1, <1>3, <1>4, <1>5, BySide DEF g, p

\* packet() of a decoder that is in the packet; others drop the chunk.
Taken(e, s, payload) ==
    IF e.tcp[s].phase = "receiving"
    THEN Packet([e EXCEPT !.tcp[s] = [phase |-> "idle", aligned |-> TRUE]], s, payload) ELSE e

\* What packet() does.
Packeted(e, s, payload, g) ==
    /\ g.pending = e.pending /\ g.sync2 = e.sync2 /\ g.tcp = e.tcp
    /\ g.packetSeen[s] /\ g.packetSeen[Peer(s)] = e.packetSeen[Peer(s)]
    /\ g.offered = IF e.activity = "playdate" /\ payload.result = 0 THEN payload.offer ELSE e.offered
    /\ g.accepted = (e.accepted \/ (e.activity = "playdate" /\ payload.result = 4 /\ e.offered))
    /\ g.stopped = e.stopped /\ g.decoding = e.decoding /\ g.activity = e.activity
    /\ e.stopped \/ e.phase = "interrupted" => g.phase = e.phase
    /\ g.phase \in {"interrupted", "settling"} => g.phase = e.phase

LEMMA PacketFields ==
  ASSUME NEW e \in ExchangeType, NEW s \in Sides, NEW payload \in Payloads
  PROVE  Packet(e, s, payload) \in ExchangeType /\ Packeted(e, s, payload, Packet(e, s, payload))
  <1> DEFINE seen == [e.packetSeen EXCEPT ![s] = TRUE]
             f == [e EXCEPT !.packetSeen = seen]
             fa == [f EXCEPT !.accepted = TRUE]
             fo == [f EXCEPT !.offered = payload.offer]
             g == Packet(e, s, payload)
  <1>1. seen \in [Sides -> BOOLEAN] /\ seen[s] /\ seen[Peer(s)] = e.packetSeen[Peer(s)]
    BY PeerOf DEF ExchangeType
  <1>2. [e EXCEPT !.packetSeen[s] = TRUE] = f
    BY DEF ExchangeType
  <1>3. payload.result \in {-1, 0, 4} /\ payload.offer \in BOOLEAN
    <2>1. CASE payload = [result |-> -1, offer |-> FALSE] \/ payload = [result |-> 4, offer |-> FALSE]
      <3>1. payload.offer = FALSE /\ payload.result \in {-1, 0, 4}
        BY <2>1
      <3>2. QED
        BY <3>1
    <2>2. ASSUME NEW o \in BOOLEAN, payload = [result |-> 0, offer |-> o]
          PROVE  payload.result \in {-1, 0, 4} /\ payload.offer \in BOOLEAN
      <3>1. payload.offer = o /\ payload.result = 0
        BY <2>2
      <3>2. QED
        BY <3>1
    <2>3. QED
      BY <2>1, <2>2 DEF Payloads
  <1>4. g = IF e.activity # "playdate" \/ payload.result = -1 THEN f
            ELSE IF payload.result = 4
                 THEN IF e.offered THEN SetPhase(fa, "breeding") ELSE f
                 ELSE SetPhase(fo, "result-observed")
    BY <1>2 DEF Packet
  <1> HIDE DEF seen, g
  <1> DEFINE Same(h) == /\ h \in ExchangeType /\ h.pending = e.pending /\ h.packetSeen = seen
                        /\ h.sync2 = e.sync2 /\ h.tcp = e.tcp /\ h.stopped = e.stopped
                        /\ h.decoding = e.decoding /\ h.activity = e.activity
  <1>5. Same(f) /\ f.offered = e.offered /\ f.accepted = e.accepted /\ f.phase = e.phase
    BY <1>1 DEF ExchangeType
  <1> HIDE DEF f
  <1>6. Same(fa) /\ fa.offered = e.offered /\ fa.accepted = TRUE /\ fa.phase = e.phase
    BY <1>5 DEF ExchangeType
  <1>7. Same(fo) /\ fo.offered = payload.offer /\ fo.accepted = e.accepted /\ fo.phase = e.phase
    BY <1>3, <1>5 DEF ExchangeType
  <1> HIDE DEF fa, fo
  <1>b. /\ e.offered \in BOOLEAN /\ e.accepted \in BOOLEAN
        /\ e.activity \in {"playdate", "gift"}
    BY DEF ExchangeType
  <1>8. "breeding" \in ObservedPhases /\ "result-observed" \in ObservedPhases
    BY DEF ObservedPhases
  <1>9. g \in ExchangeType /\ Packeted(e, s, payload, g)
    <2>1. CASE e.activity # "playdate" \/ payload.result = -1
      <3>1. g = f
        BY <1>4, <2>1
      <3>2. QED
        BY <1>1, <1>3, <1>5, <2>1, <1>b, <3>1 DEF Packeted
    <2>2. CASE e.activity = "playdate" /\ payload.result = 4 /\ ~e.offered
      <3>1. g = f
        BY <1>4, <2>2
      <3>2. QED
        BY <1>1, <1>3, <1>5, <2>2, <1>b, <3>1 DEF Packeted
    <2>3. CASE e.activity = "playdate" /\ payload.result = 4 /\ e.offered
      <3>1. g = SetPhase(fa, "breeding")
        BY <1>4, <2>3
      <3>2. /\ Same(g) /\ g.offered = e.offered /\ g.accepted = TRUE
            /\ g.phase = IF e.stopped \/ e.phase = "interrupted" THEN e.phase ELSE "breeding"
        BY <3>1, <1>6, <1>8, SetPhaseFields
      <3>3. g.phase # "interrupted" \/ g.phase = e.phase
        BY <3>2
      <3>4. g.accepted = (e.accepted \/ (e.activity = "playdate" /\ payload.result = 4 /\ e.offered))
        BY <2>3, <3>2, <1>b
      <3>5. g.offered = IF e.activity = "playdate" /\ payload.result = 0 THEN payload.offer ELSE e.offered
        BY <2>3, <3>2
      <3>6. QED
        BY <1>1, <3>2, <3>4, <3>5 DEF Packeted
    <2>4. CASE e.activity = "playdate" /\ payload.result = 0
      <3>1. g = SetPhase(fo, "result-observed")
        BY <1>4, <2>4
      <3>2. /\ Same(g) /\ g.offered = payload.offer /\ g.accepted = e.accepted
            /\ g.phase = IF e.stopped \/ e.phase = "interrupted" THEN e.phase ELSE "result-observed"
        BY <3>1, <1>7, <1>8, SetPhaseFields
      <3>3. QED
        BY <1>1, <1>3, <2>4, <1>b, <3>2 DEF Packeted
    <2>5. QED
      BY <1>3, <1>b, <2>1, <2>2, <2>3, <2>4
  <1>10. QED
    BY <1>9 DEF g

\* The fields after the last chunk of a packet.
Arrived(e, s, payload, g) ==
    IF e.tcp[s].phase = "receiving"
    THEN /\ g.pending = e.pending /\ g.sync2 = e.sync2
         /\ g.tcp[s].phase = "idle" /\ g.tcp[s].aligned
         /\ g.tcp[Peer(s)] = e.tcp[Peer(s)]
         /\ g.packetSeen[s] /\ g.packetSeen[Peer(s)] = e.packetSeen[Peer(s)]
         /\ g.offered = IF e.activity = "playdate" /\ payload.result = 0 THEN payload.offer ELSE e.offered
         /\ g.accepted = (e.accepted \/ (e.activity = "playdate" /\ payload.result = 4 /\ e.offered))
         /\ g.activity = e.activity
         /\ g.phase \in {"interrupted", "settling"} => g.phase = e.phase
    ELSE g = e

LEMMA TakenFields ==
  ASSUME NEW e \in ExchangeType, NEW s \in Sides, NEW payload \in Payloads
  PROVE  /\ Taken(e, s, payload) \in ExchangeType
         /\ Taken(e, s, payload).stopped = e.stopped /\ Taken(e, s, payload).decoding = e.decoding
         /\ e.stopped \/ e.phase = "interrupted" => Taken(e, s, payload).phase = e.phase
         /\ Arrived(e, s, payload, Taken(e, s, payload))
  <1>1. CASE e.tcp[s].phase # "receiving"
    BY <1>1 DEF Taken, Arrived
  <1>2. CASE e.tcp[s].phase = "receiving"
    <2> DEFINE r == [phase |-> "idle", aligned |-> TRUE]
               tcp == [e.tcp EXCEPT ![s] = r]
               h == [e EXCEPT !.tcp = tcp]
    <2>1. r \in TcpType /\ r.phase = "idle" /\ r.aligned = TRUE
      BY DEF TcpType
    <2> HIDE DEF r
    <2>2. tcp \in [Sides -> TcpType] /\ tcp[s] = r /\ tcp[Peer(s)] = e.tcp[Peer(s)]
      BY <2>1, PeerOf DEF ExchangeType
    <2>3. Taken(e, s, payload) = Packet(h, s, payload)
      BY <1>2 DEF Taken, ExchangeType, r
    <2> HIDE DEF tcp
    <2>4. /\ h \in ExchangeType /\ h.tcp = tcp /\ h.pending = e.pending /\ h.sync2 = e.sync2
          /\ h.packetSeen = e.packetSeen /\ h.offered = e.offered /\ h.accepted = e.accepted
          /\ h.activity = e.activity /\ h.phase = e.phase /\ h.stopped = e.stopped
          /\ h.decoding = e.decoding
      BY <2>2 DEF ExchangeType
    <2> HIDE DEF h
    <2>5. Packet(h, s, payload) \in ExchangeType /\ Packeted(h, s, payload, Packet(h, s, payload))
      BY <2>4, PacketFields
    <2>6. QED
      BY <1>2, <2>1, <2>2, <2>3, <2>4, <2>5 DEF Packeted, Arrived
  <1>3. QED
    BY <1>1, <1>2

\* The last chunk, decrypted by a decoder that is in the packet, or dropped.
LEMMA ChunkPlaced ==
  ASSUME NEW e \in ExchangeType, NEW x \in WireType, NEW y \in WireType, NEW s \in Sides,
         Placed(e, x), ChunkStep(x, s, y)
  PROVE  Placed(Taken(e, s, Result(x, s)), y)
  <1> DEFINE g == Taken(e, s, Result(x, s))
             p == Peer(s)
  <1>0. p \in Sides /\ Peer(p) = s
    BY PeerOf
  <1>1. InPlace(e, x, s) /\ InPlace(e, x, p)
        /\ (x.saw.cut = {} => Whole(e, x, s) /\ Whole(e, x, p)) /\ (x.saw.cut # {} => x.saw.unseen)
    BY BySide
  <1>2. Arrived(e, s, Result(x, s), g)
    BY BooleanFields, TakenFields
  <1>3. /\ At(x, s) = "sending" /\ At(x, p) = "none" /\ At(y, s) = "sent" /\ At(y, p) = "none"
        /\ y.saw.cut = x.saw.cut /\ y.saw.unseen = x.saw.unseen
    BY <1>0, BySide DEF ChunkStep, SawSame
  <1> HIDE DEF g, p
  <1>4. InPlace(g, y, s) /\ InPlace(g, y, p)
    <2>1. CASE e.tcp[s].phase = "receiving"
      BY <2>1, <1>0, <1>1, <1>2, <1>3 DEF InPlace, Arrived, p
    <2>2. CASE e.tcp[s].phase # "receiving"
      BY <2>2, <1>0, <1>1, <1>2, <1>3 DEF InPlace, Arrived, p
    <2>3. QED
      BY <2>1, <2>2
  <1>5. y.saw.cut = {} => Whole(g, y, s) /\ Whole(g, y, p)
    BY <1>0, <1>1, <1>2, <1>3 DEF Whole, Arrived, p
  <1>6. QED
    BY <1>1, <1>3, <1>4, <1>5, BySide DEF g, p

-----------------------------------------------------------------------------
(* Each piece keeps what the observer believes true                         *)

NoneHeld(e, x) == \A s \in Sides : ~Held(e, x, s)

\* Between two packets the observer believes no more than the toys.
LEMMA Quiet ==
  ASSUME NEW e \in ExchangeType, NEW x \in WireType, NEW y \in WireType, NEW g \in ExchangeType,
         Believes(e, x), NoneHeld(e, x), NoneHeld(g, y), g.offered = e.offered,
         g.accepted = e.accepted, g.activity = e.activity, x.saw.offer => y.saw.offer,
         x.saw.bred => y.saw.bred, g.sync2 \subseteq y.saw.after, x.saw.after \subseteq y.saw.after,
         g.phase = "settling" => e.phase = "settling" \/ g.sync2 = Sides
  PROVE  Believes(g, y)
  <1>1. Offers(g, y)
    BY DEF Believes, Offers, NoneHeld
  <1>2. y.saw.after \subseteq Sides
    BY DEF WireType
  <1>3. Breeds(g, y)
    BY <1>2 DEF Believes, Breeds, NoneHeld
  <1>4. QED
    BY <1>1, <1>3 DEF Believes

\* How a line changes what the observer believes.
Counts(e, s, line, g) ==
    /\ g.sync2 = IF line = "SYNC 2" /\ e.accepted /\ ~OutOfPlace(e, s) THEN e.sync2 \cup {s} ELSE e.sync2
    /\ g.phase = "settling" => e.phase = "settling" \/ g.sync2 = Sides
    /\ g.phase = "interrupted" => e.phase = "interrupted" \/ line = "CAN"

LEMMA LineBelieves ==
  ASSUME NEW e \in ExchangeType, NEW s \in Sides, NEW line \in Commands, ~e.stopped,
         NEW x, Placed(e, x)
  PROVE  Keeps(e, Line(e, s, line)) /\ Counts(e, s, line, Line(e, s, line))
  <1> DEFINE g == Line(e, s, line)
  <1>1. e.tcp[s].phase = "lost" => ~e.tcp[s].aligned
    BY DEF Placed, InPlace
  <1>2. /\ Keeps(e, g)
        /\ OutOfPlace(e, s) => Skips(e, s, line, g)
        /\ ~OutOfPlace(e, s) => ReadsLine(e, s, line, g)
    BY <1>1, LineFields
  <1> HIDE DEF g
  <1>3. Counts(e, s, line, g)
    BY <1>2 DEF Skips, ReadsLine, Commanded, Counts
  <1>4. QED
    BY <1>2, <1>3 DEF g

\* An announcement adds nothing to what is believed.
LEMMA PktBelieves ==
  ASSUME NEW e \in ExchangeType, NEW x \in WireType, NEW y \in WireType, NEW s \in Sides,
         ~e.stopped, Placed(e, x), Believes(e, x), PktStep(x, s, y)
  PROVE  Believes(Line(e, s, "PKT"), y)
  <1> DEFINE g == Line(e, s, "PKT")
  <1>1. "PKT" \in Commands
    BY DEF Commands
  <1>2. NoneHeld(e, x) /\ NoneHeld(g, y)
    BY PeerOf DEF NoneHeld, Held, PktStep, AllStill
  <1>3. /\ g \in ExchangeType /\ g.offered = e.offered /\ g.accepted = e.accepted
        /\ g.activity = e.activity /\ g.sync2 = e.sync2
        /\ g.phase = "settling" => e.phase = "settling" \/ g.sync2 = Sides
    BY <1>1, LineBelieves DEF Keeps, Counts
  <1> HIDE DEF g
  <1>4. g.sync2 \subseteq y.saw.after
    BY <1>3 DEF Believes, Breeds, PktStep, BelievedSame
  <1>5. y.saw.offer = x.saw.offer /\ y.saw.bred = x.saw.bred /\ y.saw.after = x.saw.after
    BY DEF PktStep, BelievedSame
  <1>6. QED
    BY <1>2, <1>3, <1>4, <1>5, Quiet DEF g

\* A cancellation that does not interrupt leaves no packet decrypted and not
\* acknowledged behind.
LEMMA CanBelieves ==
  ASSUME NEW e \in ExchangeType, NEW x \in WireType, NEW y \in WireType, NEW s \in Sides,
         ~e.stopped, Placed(e, x), Believes(e, x), CanStep(x, s, y),
         Line(e, s, "CAN").phase # "interrupted"
  PROVE  Believes(Line(e, s, "CAN"), y)
  <1> DEFINE g == Line(e, s, "CAN")
             p == Peer(s)
  <1>1. "CAN" \in Commands /\ p \in Sides /\ Peer(p) = s /\ Sides = {s, p}
    BY PeerOf DEF Commands
  <1>2. InPlace(e, x, s) /\ InPlace(e, x, p) /\ (At(x, s) = "none" \/ At(x, p) = "none")
    BY BySide
  <1>3. ~OutOfPlace(e, s) => ~e.pending[s] /\ ~e.pending[p]
    <2>1. ~OutOfPlace(e, s) => ReadsLine(e, s, "CAN", Line(e, s, "CAN"))
      BY <1>1, <1>2, LineFields DEF InPlace
    <2>2. QED
      BY <2>1, <1>1 DEF ReadsLine, Commanded
  <1>4. /\ g \in ExchangeType /\ g.offered = e.offered /\ g.accepted = e.accepted
        /\ g.activity = e.activity /\ g.sync2 = e.sync2
        /\ g.phase = "settling" => e.phase = "settling" \/ g.sync2 = Sides
    BY <1>1, LineBelieves DEF Keeps, Counts
  <1> HIDE DEF g, p
  <1>5. ~Held(e, x, s)
    BY <1>1, <1>2, <1>3 DEF InPlace, Held, OutOfPlace
  <1>6. ~Held(e, x, p)
    BY <1>1, <1>2, <1>3 DEF InPlace, Held, OutOfPlace
  <1>7. NoneHeld(e, x) /\ NoneHeld(g, y)
    BY <1>1, <1>5, <1>6 DEF NoneHeld, Held, CanStep, AllStill
  <1>8. g.sync2 \subseteq y.saw.after
    BY <1>4 DEF Believes, Breeds, CanStep, BelievedSame
  <1>9. y.saw.offer = x.saw.offer /\ y.saw.bred = x.saw.bred /\ y.saw.after = x.saw.after
    BY DEF CanStep, BelievedSame
  <1>10. QED
    BY <1>4, <1>7, <1>8, <1>9, Quiet DEF g

\* Who synchronises after an acceptance does so after a breeding was agreed.
LEMMA SayBelieves ==
  ASSUME NEW e \in ExchangeType, NEW x \in WireType, NEW y \in WireType, NEW s \in Sides,
         NEW what \in {"BREED 0", "BREED 1", "SYNC 2"},
         ~e.stopped, Placed(e, x), Believes(e, x), SayStep(x, s, what, y)
  PROVE  Believes(Line(e, s, what), y)
  <1> DEFINE g == Line(e, s, what)
  <1>1. what \in Commands
    BY DEF Commands
  <1>2. NoneHeld(e, x) /\ NoneHeld(g, y)
    BY DEF NoneHeld, Held, SayStep, AllStill
  <1>3. /\ g \in ExchangeType /\ g.offered = e.offered /\ g.accepted = e.accepted
        /\ g.activity = e.activity
        /\ g.sync2 = e.sync2 \/ (what = "SYNC 2" /\ e.accepted /\ g.sync2 = e.sync2 \cup {s})
        /\ g.phase = "settling" => e.phase = "settling" \/ g.sync2 = Sides
    <2>1. Keeps(e, g) /\ Counts(e, s, what, g)
      BY <1>1, LineBelieves
    <2> HIDE DEF g
    <2>2. QED
      BY <2>1 DEF Keeps, Counts
  <1> HIDE DEF g
  <1>4. e.accepted => x.saw.bred
    BY <1>2 DEF Believes, Breeds, NoneHeld
  <1>5. /\ y.saw.offer = x.saw.offer /\ y.saw.bred = x.saw.bred
        /\ y.saw.after = IF what = "SYNC 2" /\ x.saw.bred THEN x.saw.after \cup {s} ELSE x.saw.after
    BY DEF SayStep
  <1>6. g.sync2 \subseteq y.saw.after /\ x.saw.after \subseteq y.saw.after
    BY <1>3, <1>4, <1>5 DEF Believes, Breeds
  <1>7. QED
    BY <1>2, <1>3, <1>5, <1>6, Quiet DEF g

\* The toys believe a result the observer has decrypted already.
LEMMA AckBelieves ==
  ASSUME NEW e \in ExchangeType, NEW x \in WireType, NEW y \in WireType, NEW s \in Sides,
         ~e.stopped, Placed(e, x), Believes(e, x), AckStep(x, Peer(s), y)
  PROVE  Believes(Line(e, s, "ACK"), y)
  <1> DEFINE g == Line(e, s, "ACK")
             p == Peer(s)
  <1>0. p \in Sides /\ Peer(p) = s /\ "ACK" \in Commands /\ Sides = {s, p}
    BY PeerOf DEF Commands
  <1>1. Keeps(e, g) /\ Counts(e, s, "ACK", g)
    BY <1>0, LineBelieves
  <1>2. /\ At(x, p) \in {"asked", "sent"} /\ At(x, s) = "none" /\ At(y, s) = "none"
        /\ At(y, p) = IF At(x, p) = "sent" THEN "none" ELSE "sending"
        /\ y.saw.after = x.saw.after
        /\ y.saw.bred = (x.saw.bred \/ (At(x, p) = "sent" /\ Result(x, p).result = 4 /\ x.saw.offer))
        /\ y.saw.offer = IF At(x, p) = "sent" /\ Result(x, p).result = 0
                         THEN Result(x, p).offer \/ (x.saw.unseen /\ x.saw.offer) ELSE x.saw.offer
    BY <1>0, BySide DEF AckStep
  <1>3. /\ InPlace(e, x, p) /\ (x.saw.cut = {} => Whole(e, x, p)) /\ (x.saw.cut # {} => x.saw.unseen)
    BY <1>0, BySide
  <1> HIDE DEF g
  <1>4. /\ g \in ExchangeType /\ g.offered = e.offered /\ g.accepted = e.accepted
        /\ g.activity = e.activity /\ g.sync2 = e.sync2
        /\ g.phase = "settling" => e.phase = "settling" \/ g.sync2 = Sides
    BY <1>1 DEF Keeps, Counts
  <1>5. g.sync2 \subseteq y.saw.after /\ x.saw.after \subseteq y.saw.after
    BY <1>2, <1>4 DEF Believes, Breeds
  <1>b. /\ e.packetSeen[p] \in BOOLEAN /\ x.saw.unseen \in BOOLEAN /\ x.saw.offer \in BOOLEAN
        /\ y.saw.offer \in BOOLEAN /\ y.saw.bred \in BOOLEAN /\ x.saw.bred \in BOOLEAN
        /\ Result(x, p).offer \in BOOLEAN
    BY <1>0, BooleanFields
  <1> HIDE DEF p
  <1>6. NoneHeld(g, y)
    BY <1>0, <1>2 DEF NoneHeld, Held
  <1>7. CASE ~Held(e, x, p)
    <2>1. NoneHeld(e, x)
      BY <1>0, <1>2, <1>7 DEF NoneHeld, Held
    <2>2. At(x, p) = "sent" => x.saw.unseen
      BY <1>3, <1>7 DEF Held, Whole
    <2>3. (x.saw.offer => y.saw.offer) /\ (x.saw.bred => y.saw.bred)
      BY <1>2, <2>2, <1>b
    <2>4. QED
      BY <1>4, <1>5, <1>6, <2>1, <2>3, Quiet DEF g
  <1>8. CASE Held(e, x, p)
    <2>1. At(x, p) = "sent" /\ ~Held(e, x, s)
      BY <1>2, <1>8 DEF Held
    <2>2. e.offered => y.saw.offer
      <3>1. CASE Result(x, p).result = 0
        <4>1. e.offered => Result(x, p).offer
          BY <1>0, <1>8, <3>1 DEF Believes, Offers
        <4>2. QED
          BY <4>1, <3>1, <2>1, <1>2, <1>b
      <3>2. CASE Result(x, p).result # 0
        <4>1. e.offered => x.saw.offer
          BY <1>0, <2>1, <3>2 DEF Believes, Offers
        <4>2. QED
          BY <4>1, <3>2, <1>2
      <3>3. QED
        BY <3>1, <3>2
    <2>3. e.accepted => y.saw.bred
      <3>1. e.accepted => x.saw.bred \/ (Result(x, p).result = 4 /\ x.saw.offer)
        BY <1>0, <2>1 DEF Believes, Breeds
      <3>2. QED
        BY <3>1, <2>1, <1>2, <1>b
    <2>4. Offers(g, y)
      BY <1>4, <1>6, <2>2 DEF Believes, Offers, NoneHeld
    <2>5. y.saw.after \subseteq Sides
      BY DEF WireType
    <2>6. Breeds(g, y)
      BY <1>4, <1>5, <2>3, <2>5 DEF Believes, Breeds
    <2>7. QED
      BY <2>4, <2>6 DEF Believes, g
  <1>9. QED
    BY <1>7, <1>8

\* The observer believes a result that the toys have yet to acknowledge.
LEMMA ChunkBelieves ==
  ASSUME NEW e \in ExchangeType, NEW x \in WireType, NEW y \in WireType, NEW s \in Sides,
         Placed(e, x), Believes(e, x), ChunkStep(x, s, y)
  PROVE  Believes(Taken(e, s, Result(x, s)), y)
  <1> DEFINE g == Taken(e, s, Result(x, s))
             p == Peer(s)
             r == Result(x, s)
  <1>0. p \in Sides /\ Peer(p) = s /\ Sides = {s, p}
    BY PeerOf
  <1>1. InPlace(e, x, s)
    BY BySide
  <1>2. Arrived(e, s, r, g) /\ g \in ExchangeType
    BY BooleanFields, TakenFields
  <1>3. /\ At(x, s) = "sending" /\ At(x, p) = "none" /\ At(y, s) = "sent" /\ At(y, p) = "none"
        /\ Result(y, s) = r
        /\ y.saw.offer = x.saw.offer /\ y.saw.bred = x.saw.bred /\ y.saw.after = x.saw.after
    BY <1>0, BySide DEF ChunkStep, BelievedSame
  <1>4. NoneHeld(e, x)
    BY <1>0, <1>3 DEF NoneHeld, Held
  <1>5. /\ e.offered => x.saw.offer
        /\ e.accepted => x.saw.bred
        /\ e.activity = "gift" => ~e.offered
        /\ e.sync2 \subseteq x.saw.after
        /\ e.phase = "settling" => x.saw.after = Sides
    BY <1>4 DEF Believes, Offers, Breeds, NoneHeld
  <1>b. /\ e.activity \in {"playdate", "gift"} /\ r.offer \in BOOLEAN /\ e.offered \in BOOLEAN
        /\ e.accepted \in BOOLEAN /\ x.saw.offer \in BOOLEAN
    BY BooleanFields DEF ExchangeType
  <1> HIDE DEF g, p, r
  <1>6. CASE e.tcp[s].phase # "receiving"
    <2>1. g = e
      BY <1>2, <1>6 DEF Arrived
    <2>2. NoneHeld(g, y)
      BY <2>1, <1>0, <1>1, <1>3 DEF NoneHeld, Held, InPlace
    <2>3. QED
      BY <2>1, <2>2, <1>3, <1>4, <1>5, Quiet DEF g
  <1>7. CASE e.tcp[s].phase = "receiving"
    <2>1. /\ Held(g, y, s) /\ ~Held(g, y, p)
          /\ g.offered = IF e.activity = "playdate" /\ r.result = 0 THEN r.offer ELSE e.offered
          /\ g.accepted = (e.accepted \/ (e.activity = "playdate" /\ r.result = 4 /\ e.offered))
          /\ g.activity = e.activity /\ g.sync2 = e.sync2
          /\ g.phase = "settling" => e.phase = "settling"
      BY <1>2, <1>3, <1>7 DEF Arrived, Held
    <2>2. Offers(g, y)
      <3>1. g.activity = "gift" => ~g.offered
        BY <2>1, <1>5, <1>b
      <3>2. g.offered => y.saw.offer \/ (r.result = 0 /\ r.offer)
        BY <2>1, <1>3, <1>5, <1>b
      <3>3. g.offered /\ r.result = 0 => r.offer
        BY <2>1, <1>5, <1>b
      <3>4. QED
        BY <3>1, <3>2, <3>3, <2>1, <1>0, <1>3 DEF Offers
    <2>3. Breeds(g, y)
      <3>1. g.accepted => y.saw.bred \/ (r.result = 4 /\ y.saw.offer)
        BY <2>1, <1>3, <1>5, <1>b
      <3>2. QED
        BY <3>1, <2>1, <1>0, <1>3, <1>5 DEF Breeds
    <2>4. QED
      BY <2>2, <2>3 DEF Believes, g
  <1>8. QED
    BY <1>6, <1>7

-----------------------------------------------------------------------------
(* One piece decoded                                                        *)

\* The observer after a piece.
After(e, piece) ==
    IF piece.what = "packet" THEN Taken(e, piece.side, piece.payload)
    ELSE Line(e, piece.side, piece.what)

\* The wire only adds to what it cut and to who synchronised.
LEMMA WireGrows ==
  ASSUME NEW x \in WireType, NEW y \in WireType, NEW piece \in PieceType, WireStep(x, piece, y)
  PROVE  x.saw.cut \subseteq y.saw.cut /\ x.saw.after \subseteq y.saw.after
  BY DEF WireStep, PktStep, AckStep, ChunkStep, CanStep, SayStep, SawSame, BelievedSame

\* An observer that has followed up to x has, with the next piece, followed
\* up to y.
LEMMA FollowsOn ==
  ASSUME NEW e \in ExchangeType, NEW x \in WireType, NEW y \in WireType, NEW piece \in PieceType,
         ~e.stopped, Follows(e, x), WireStep(x, piece, y)
  PROVE  /\ After(e, piece) \in ExchangeType /\ Follows(After(e, piece), y)
         /\ After(e, piece).stopped = e.stopped /\ After(e, piece).decoding = e.decoding
  <1> DEFINE g == After(e, piece)
             s == piece.side
             p == Peer(s)
  <1>0. s \in Sides /\ p \in Sides /\ Sides = {s, p} /\ piece.payload \in Payloads
    BY PeerOf DEF PieceType
  <1>1. e.tcp[s].phase = "lost" => ~e.tcp[s].aligned
    BY <1>0 DEF Follows, Lost
  <1>2. piece.what = "packet" => g = Taken(e, s, piece.payload)
    BY DEF After
  <1>3. piece.what # "packet" => piece.what \in Commands /\ g = Line(e, s, piece.what)
    BY DEF After, WireStep, Commands
  <1> HIDE DEF g, s, p
  <1>4. piece.what # "packet" =>
          /\ Keeps(e, g)
          /\ OutOfPlace(e, s) => Skips(e, s, piece.what, g)
          /\ ~OutOfPlace(e, s) => ReadsLine(e, s, piece.what, g)
    BY <1>0, <1>1, <1>3, LineFields
  <1>5. piece.what = "packet" =>
          /\ g \in ExchangeType /\ g.stopped = e.stopped /\ g.decoding = e.decoding
          /\ e.phase = "interrupted" => g.phase = e.phase
          /\ Arrived(e, s, piece.payload, g)
    BY <1>0, <1>2, TakenFields
  <1>6. g \in ExchangeType /\ g.stopped = e.stopped /\ g.decoding = e.decoding
    BY <1>4, <1>5 DEF Keeps
  <1>7. Lost(g)
    <2>1. e.tcp[p].phase = "lost" => ~e.tcp[p].aligned
      BY <1>0 DEF Follows, Lost
    <2>2. CASE piece.what = "packet"
      BY <2>1, <2>2, <1>0, <1>1, <1>5 DEF Lost, Arrived, p
    <2>3. CASE piece.what # "packet" /\ OutOfPlace(e, s)
      BY <2>1, <2>3, <1>0, <1>1, <1>4 DEF Lost, Skips, p
    <2>4. CASE piece.what # "packet" /\ ~OutOfPlace(e, s)
      BY <2>1, <2>4, <1>0, <1>1, <1>4 DEF Lost, ReadsLine, OutOfPlace, p
    <2>5. QED
      BY <2>2, <2>3, <2>4
  <1>8. CASE e.phase = "interrupted"
    <2>1. g.phase = "interrupted"
      BY <1>4, <1>5, <1>8 DEF Skips, ReadsLine, Commanded
    <2>2. y.saw.cut # {}
      BY <1>8, WireGrows DEF Follows
    <2>3. QED
      BY <1>6, <1>7, <2>1, <2>2 DEF Follows, g
  <1>9. CASE e.phase # "interrupted"
    <2>1. Placed(e, x) /\ Believes(e, x)
      BY <1>9 DEF Follows
    <2>2. CASE piece.what = "PKT" /\ PktStep(x, s, y)
      <3>1. Placed(g, y) /\ Believes(g, y)
        BY <2>1, <2>2, <1>0, <1>3, PktPlaced, PktBelieves
      <3>2. g.phase # "interrupted"
        BY <1>4, <1>9, <2>2 DEF Skips, ReadsLine, Commanded
      <3>3. QED
        BY <3>1, <3>2, <1>6, <1>7 DEF Follows, g
    <2>3. CASE piece.what = "ACK" /\ AckStep(x, Peer(s), y)
      <3>1. Placed(g, y) /\ Believes(g, y)
        BY <2>1, <2>3, <1>0, <1>3, AckPlaced, AckBelieves
      <3>2. g.phase # "interrupted"
        BY <1>4, <1>9, <2>3 DEF Skips, ReadsLine, Commanded
      <3>3. QED
        BY <3>1, <3>2, <1>6, <1>7 DEF Follows, g
    <2>4. CASE piece.what \in {"BREED 0", "BREED 1", "SYNC 2"} /\ SayStep(x, s, piece.what, y)
      <3>1. Placed(g, y) /\ Believes(g, y)
        BY <2>1, <2>4, <1>0, <1>3, SayPlaced, SayBelieves
      <3>2. g.phase # "interrupted"
        BY <1>4, <1>9, <2>4 DEF Skips, ReadsLine, Commanded
      <3>3. QED
        BY <3>1, <3>2, <1>6, <1>7 DEF Follows, g
    <2>5. CASE piece.what = "packet" /\ piece.payload = Result(x, s) /\ ChunkStep(x, s, y)
      <3>1. Placed(g, y) /\ Believes(g, y)
        BY <2>1, <2>5, <1>0, <1>2, ChunkPlaced, ChunkBelieves
      <3>2. g.phase # "interrupted"
        BY <1>5, <1>9, <2>5 DEF Arrived
      <3>3. QED
        BY <3>1, <3>2, <1>6, <1>7 DEF Follows, g
    <2>6. CASE piece.what = "CAN" /\ CanStep(x, s, y)
      <3>1. CASE g.phase # "interrupted"
        <4>1. Placed(g, y) /\ Believes(g, y)
          BY <2>1, <2>6, <3>1, <1>0, <1>3, <1>9, CanPlaced, CanBelieves
        <4>2. QED
          BY <4>1, <3>1, <1>6, <1>7 DEF Follows, g
      <3>2. CASE g.phase = "interrupted"
        <4>1. ~OutOfPlace(e, s) /\ (e.pending[s] \/ e.pending[p])
          BY <3>2, <2>6, <1>0, <1>4, <1>9 DEF Skips, ReadsLine, Commanded
        <4>2. ASSUME y.saw.cut = {} PROVE FALSE
          <5>1. x.saw.cut = {} /\ AllStill(x)
            BY <4>2, <2>6 DEF CanStep
          <5>2. QED
            BY <5>1, <4>1, <2>1, <1>0 DEF Placed, Whole, AllStill
        <4>3. QED
          BY <4>2, <3>2, <1>6, <1>7 DEF Follows, g
      <3>3. QED
        BY <3>1, <3>2
    <2>7. QED
      BY <2>2, <2>3, <2>4, <2>5, <2>6 DEF WireStep, s
  <1>10. QED
    BY <1>8, <1>9

-----------------------------------------------------------------------------
(* The invariant                                                            *)

\* The wire now, and the wire of each moment since the last piece decoded.
Wire == [transfer |-> transfer, saw |-> saw]
Path(f, e, q, w) ==
    /\ f \in [0..Len(q) -> WireType]
    /\ f[Len(q)] = w
    /\ \A k \in 1..Len(q) : WireStep(f[k - 1], q[k], f[k])
    /\ \A k \in 0..Len(q) : f[k].saw.cut \subseteq w.saw.cut /\ f[k].saw.after \subseteq w.saw.after
    /\ Follows(e, f[0])

ExchangeTypes ==
    exchange \in ExchangeType /\ queue \in Seq(PieceType) /\ Wire \in WireType
DecodesFirst ==
    exchange.decoding # NoPiece =>
        queue # <<>> /\ exchange.decoding = Head(queue) /\ exchange.decoding.what = "packet"
StoppedTrue(e, w) ==
    /\ e.phase = w.saw.phase
    /\ e.phase = "interrupted" => w.saw.cut # {}
    /\ e.phase = "settling" => w.saw.after = Sides
ExchangeInv ==
    /\ ExchangeTypes /\ DecodesFirst
    /\ exchange.stopped => StoppedTrue(exchange, Wire)
    /\ ~exchange.stopped => \E f : Path(f, exchange, queue, Wire)

\* Whether the observer follows depends on neither queue nor decryption.
LEMMA SameFollows ==
  ASSUME NEW e, NEW g, NEW x, Follows(e, x), g.phase = e.phase, g.tcp = e.tcp,
         g.pending = e.pending, g.packetSeen = e.packetSeen, g.offered = e.offered,
         g.accepted = e.accepted, g.sync2 = e.sync2, g.activity = e.activity
  PROVE  Follows(g, x)
  <1>1. Lost(g)
    BY DEF Follows, Lost
  <1>2. Placed(e, x) => Placed(g, x)
    BY DEF Placed, InPlace, Whole
  <1>3. Believes(e, x) => Believes(g, x)
    BY DEF Believes, Offers, Breeds, Held
  <1>4. QED
    BY <1>1, <1>2, <1>3 DEF Follows

\* A piece on the wire makes the path longer.
LEMMA PathAppends ==
  ASSUME NEW e, NEW q \in Seq(PieceType), NEW w \in WireType, NEW v \in WireType,
         NEW piece \in PieceType, NEW f, Path(f, e, q, w), WireStep(w, piece, v)
  PROVE  \E h : Path(h, e, Append(q, piece), v)
  <1> DEFINE n == Len(q)
             h == [k \in 0..n + 1 |-> IF k \in 0..n THEN f[k] ELSE v]
             r == Append(q, piece)
  <1>1. /\ n \in Nat /\ r \in Seq(PieceType) /\ Len(r) = n + 1 /\ r[n + 1] = piece
        /\ \A k \in 1..n : r[k] = q[k]
    OBVIOUS
  <1>2. /\ f \in [0..n -> WireType] /\ f[n] = w
        /\ \A k \in 1..n : WireStep(f[k - 1], q[k], f[k])
        /\ \A k \in 0..n : f[k].saw.cut \subseteq w.saw.cut /\ f[k].saw.after \subseteq w.saw.after
        /\ Follows(e, f[0])
    BY DEF Path
  <1> HIDE DEF n, r
  <1>3. h \in [0..n + 1 -> WireType] /\ h[n + 1] = v /\ \A k \in 0..n : h[k] = f[k]
    BY <1>1, <1>2
  <1> HIDE DEF h
  <1>4. \A k \in 1..n + 1 : WireStep(h[k - 1], r[k], h[k])
    <2>1. TAKE k \in 1..n + 1
    <2>2. CASE k \in 1..n
      <3>1. h[k - 1] = f[k - 1] /\ h[k] = f[k] /\ r[k] = q[k]
        BY <1>1, <1>3, <2>2
      <3>2. QED
        BY <1>2, <2>2, <3>1
    <2>3. CASE k = n + 1
      <3>1. h[k - 1] = w /\ h[k] = v /\ r[k] = piece
        BY <1>1, <1>2, <1>3, <2>3
      <3>2. QED
        BY <3>1
    <2>4. QED
      BY <1>1, <2>2, <2>3
  <1>5. \A k \in 0..n + 1 : h[k].saw.cut \subseteq v.saw.cut /\ h[k].saw.after \subseteq v.saw.after
    <2>1. w.saw.cut \subseteq v.saw.cut /\ w.saw.after \subseteq v.saw.after
      BY WireGrows
    <2>2. TAKE k \in 0..n + 1
    <2>3. CASE k \in 0..n
      <3>1. h[k] = f[k]
        BY <1>3, <2>3
      <3>2. QED
        BY <1>2, <2>1, <2>3, <3>1
    <2>4. CASE k = n + 1
      BY <1>3, <2>4
    <2>5. QED
      BY <1>1, <2>3, <2>4
  <1>6. Follows(e, h[0])
    BY <1>1, <1>2, <1>3
  <1>7. Path(h, e, r, v)
    BY <1>1, <1>3, <1>4, <1>5, <1>6 DEF Path
  <1>8. QED
    BY <1>7 DEF r

\* A piece decoded makes it shorter.
LEMMA PathAdvances ==
  ASSUME NEW e, NEW g, NEW q \in Seq(PieceType), NEW w, q # <<>>, NEW f, Path(f, e, q, w),
         Follows(g, f[1])
  PROVE  \E h : Path(h, g, Tail(q), w)
  <1> DEFINE n == Len(q) - 1
             h == [k \in 0..n |-> f[k + 1]]
             r == Tail(q)
  <1>1. /\ n \in Nat /\ r \in Seq(PieceType) /\ Len(r) = n /\ Len(q) = n + 1
        /\ \A k \in 1..n : r[k] = q[k + 1]
    OBVIOUS
  <1>2. /\ f \in [0..n + 1 -> WireType] /\ f[n + 1] = w
        /\ \A k \in 1..n + 1 : WireStep(f[k - 1], q[k], f[k])
        /\ \A k \in 0..n + 1 : f[k].saw.cut \subseteq w.saw.cut /\ f[k].saw.after \subseteq w.saw.after
    BY <1>1 DEF Path
  <1> HIDE DEF n, r
  <1>3. h \in [0..n -> WireType] /\ \A k \in 0..n : h[k] = f[k + 1]
    BY <1>1, <1>2
  <1> HIDE DEF h
  <1>4. h[n] = w /\ h[0] = f[1]
    BY <1>1, <1>2, <1>3
  <1>5. \A k \in 1..n : WireStep(h[k - 1], r[k], h[k])
    <2>1. TAKE k \in 1..n
    <2>2. h[k - 1] = f[k] /\ h[k] = f[k + 1] /\ r[k] = q[k + 1] /\ k + 1 \in 1..n + 1 /\ (k + 1) - 1 = k
      BY <1>1, <1>3
    <2>3. WireStep(f[(k + 1) - 1], q[k + 1], f[k + 1])
      BY <1>2, <2>2
    <2>4. QED
      BY <2>2, <2>3
  <1>6. \A k \in 0..n : h[k].saw.cut \subseteq w.saw.cut /\ h[k].saw.after \subseteq w.saw.after
    <2>1. TAKE k \in 0..n
    <2>2. h[k] = f[k + 1] /\ k + 1 \in 0..n + 1
      BY <1>1, <1>3
    <2>3. QED
      BY <1>2, <2>2
  <1>7. Path(h, g, r, w)
    BY <1>1, <1>3, <1>4, <1>5, <1>6 DEF Path
  <1>8. QED
    BY <1>7 DEF r

\* What is reported is true of the wire now, decoded or not.
LEMMA PathTrue ==
  ASSUME NEW e, NEW q \in Seq(PieceType), NEW w \in WireType, NEW f, Path(f, e, q, w)
  PROVE  /\ e.phase = "interrupted" => w.saw.cut # {}
         /\ e.phase = "settling" => w.saw.after = Sides
  <1>1. 0 \in 0..Len(q)
    OBVIOUS
  <1>2. /\ f[0].saw.cut \subseteq w.saw.cut /\ f[0].saw.after \subseteq w.saw.after
        /\ Follows(e, f[0])
    BY <1>1 DEF Path
  <1>3. w.saw.after \subseteq Sides
    BY DEF WireType
  <1>4. e.phase = "interrupted" => f[0].saw.cut # {}
    BY <1>2 DEF Follows
  <1>5. e.phase = "settling" => f[0].saw.after = Sides
    BY <1>2 DEF Follows, Believes, Breeds
  <1>6. QED
    BY <1>2, <1>3, <1>4, <1>5

\* A stop keeps what was true of the wire.
LEMMA StopKeeps ==
  ASSUME ExchangeInv, ~exchange.stopped, exchange' = [exchange EXCEPT !.stopped = TRUE],
         queue' = queue, Wire' \in WireType, saw'.phase = exchange.phase,
         saw.cut \subseteq saw'.cut, saw.after \subseteq saw'.after
  PROVE  ExchangeInv'
  <1>1. PICK f : Path(f, exchange, queue, Wire)
    BY DEF ExchangeInv
  <1>2. /\ exchange.phase = "interrupted" => saw.cut # {}
        /\ exchange.phase = "settling" => saw.after = Sides
    BY <1>1, PathTrue DEF ExchangeInv, ExchangeTypes, Wire
  <1>3. /\ exchange' \in ExchangeType /\ exchange'.phase = exchange.phase
        /\ exchange'.stopped = TRUE /\ exchange'.decoding = exchange.decoding
    BY DEF ExchangeInv, ExchangeTypes, ExchangeType
  <1>4. ExchangeTypes' /\ DecodesFirst'
    BY <1>3 DEF ExchangeInv, ExchangeTypes, DecodesFirst
  <1>5. saw'.after \subseteq Sides
    BY DEF Wire, WireType
  <1>6. StoppedTrue(exchange, Wire)'
    BY <1>2, <1>3, <1>5 DEF StoppedTrue, Wire
  <1>7. QED
    BY <1>3, <1>4, <1>6 DEF ExchangeInv

\* A piece is queued, or is too much and stops the observer.
LEMMA PieceKeeps ==
  ASSUME ExchangeInv, ~exchange.stopped, NEW piece \in PieceType, Wire' \in WireType,
         WireStep(Wire, piece, Wire'),
         \/ exchange' = [exchange EXCEPT !.stopped = TRUE] /\ queue' = queue
            /\ saw'.phase = exchange.phase
         \/ exchange' = exchange /\ queue' = Append(queue, piece)
  PROVE  ExchangeInv'
  <1>0. exchange \in ExchangeType /\ queue \in Seq(PieceType) /\ Wire \in WireType
    BY DEF ExchangeInv, ExchangeTypes
  <1>1. CASE exchange' = [exchange EXCEPT !.stopped = TRUE] /\ queue' = queue
             /\ saw'.phase = exchange.phase
    <2>1. Wire.saw.cut \subseteq (Wire').saw.cut /\ Wire.saw.after \subseteq (Wire').saw.after
      BY <1>0, WireGrows
    <2>2. QED
      BY <1>1, <2>1, StopKeeps DEF Wire
  <1>2. CASE exchange' = exchange /\ queue' = Append(queue, piece)
    <2>1. PICK f : Path(f, exchange, queue, Wire)
      BY DEF ExchangeInv
    <2>2. \E h : Path(h, exchange, Append(queue, piece), Wire')
      BY <1>0, <2>1, PathAppends
    <2>3. \E h : Path(h, exchange', queue', Wire')
      BY <2>2, <1>2
    <2>4. ExchangeTypes' /\ DecodesFirst'
      <3>1. Append(queue, piece) \in Seq(PieceType) /\ Append(queue, piece) # <<>>
            /\ (queue # <<>> => Head(Append(queue, piece)) = Head(queue))
        BY <1>0
      <3>2. QED
        BY <1>0, <1>2, <3>1 DEF ExchangeInv, ExchangeTypes, DecodesFirst
    <2>5. QED
      BY <2>3, <2>4, <1>2 DEF ExchangeInv
  <1>3. QED
    BY <1>1, <1>2

-----------------------------------------------------------------------------
(* Each step                                                                *)

\* A step says nothing of the counter of pieces and the phase kept.
LEMMA WireAgrees ==
  ASSUME NEW x, NEW piece, NEW v, NEW y, v.transfer = y.transfer, v.saw.cut = y.saw.cut,
         v.saw.unseen = y.saw.unseen, v.saw.offer = y.saw.offer, v.saw.bred = y.saw.bred,
         v.saw.after = y.saw.after, WireStep(x, piece, v)
  PROVE  WireStep(x, piece, y)
  <1>1. ASSUME NEW s, PktStep(x, s, v) PROVE PktStep(x, s, y)
    BY <1>1 DEF PktStep, SawSame, BelievedSame, At
  <1>2. ASSUME NEW s, AckStep(x, s, v) PROVE AckStep(x, s, y)
    BY <1>2 DEF AckStep, SawSame, At
  <1>3. ASSUME NEW s, CanStep(x, s, v) PROVE CanStep(x, s, y)
    BY <1>3 DEF CanStep, BelievedSame, AllStill, At
  <1>4. ASSUME NEW s, NEW what, SayStep(x, s, what, v) PROVE SayStep(x, s, what, y)
    BY <1>4 DEF SayStep, SawSame, AllStill, At
  <1>5. ASSUME NEW s, ChunkStep(x, s, v) PROVE ChunkStep(x, s, y)
    BY <1>5 DEF ChunkStep, SawSame, BelievedSame, At, Result
  <1>6. QED
    BY <1>1, <1>2, <1>3, <1>4, <1>5 DEF WireStep

\* A history with what a piece adds to it, and the piece given.
LEMMA PassesKeeps ==
  ASSUME ExchangeInv, NEW side \in Sides, NEW what \in Commands \cup {"packet"},
         NEW payload \in Payloads, NEW STATE now, Passes(side, what, payload, now),
         [transfer |-> transfer', saw |-> now] \in WireType,
         WireStep(Wire, [side |-> side, what |-> what, payload |-> payload],
                  [transfer |-> transfer', saw |-> now])
  PROVE  ExchangeInv'
  <1> DEFINE piece == [side |-> side, what |-> what, payload |-> payload]
             v == [transfer |-> transfer', saw |-> now]
  <1>1. piece \in PieceType /\ piece.what = what /\ piece.side = side /\ piece.payload = payload
    BY DEF PieceType
  <1>2. /\ saw' = [now EXCEPT !.pieces = @ + 1,
                              !.phase = IF Len(queue) >= MaxQueuedBytes THEN exchange.phase ELSE @]
        /\ ~exchange.stopped
    BY DEF Passes
  <1>3. \/ exchange' = [exchange EXCEPT !.stopped = TRUE] /\ queue' = queue
           /\ Len(queue) >= MaxQueuedBytes
        \/ exchange' = exchange /\ queue' = Append(queue, piece)
    BY DEF Passes, Given
  <1>4. exchange.phase \in ObservedPhases
    BY DEF ExchangeInv, ExchangeTypes, ExchangeType
  <1> DEFINE ph == IF Len(queue) >= MaxQueuedBytes THEN exchange.phase ELSE now.phase
  <1>5. /\ now.pieces \in Int /\ now.phase \in ObservedPhases
        /\ now \in [pieces : Int, cut : SUBSET Sides, unseen : BOOLEAN, offer : BOOLEAN,
                    bred : BOOLEAN, after : SUBSET Sides, phase : ObservedPhases]
        /\ transfer' \in [Sides -> [at : {"none", "asked", "sending", "sent"}, packet : Payloads]]
    BY DEF WireType
  <1>6. ph \in ObservedPhases /\ saw' = [now EXCEPT !.pieces = now.pieces + 1, !.phase = ph]
    BY <1>2, <1>4, <1>5
  <1>7. Len(queue) >= MaxQueuedBytes => ph = exchange.phase
    OBVIOUS
  <1> HIDE DEF ph
  <1>8. /\ saw' \in [pieces : Int, cut : SUBSET Sides, unseen : BOOLEAN, offer : BOOLEAN,
                     bred : BOOLEAN, after : SUBSET Sides, phase : ObservedPhases]
        /\ saw'.cut = now.cut /\ saw'.unseen = now.unseen /\ saw'.offer = now.offer
        /\ saw'.bred = now.bred /\ saw'.after = now.after /\ saw'.phase = ph
    <2> DEFINE i == now.pieces + 1
               counted == [now EXCEPT !.pieces = i]
    <2>0. i \in Int /\ saw' = [now EXCEPT !.pieces = i, !.phase = ph]
      BY <1>5, <1>6
    <2> HIDE DEF i
    <2>1. /\ counted \in [pieces : Int, cut : SUBSET Sides, unseen : BOOLEAN, offer : BOOLEAN,
                          bred : BOOLEAN, after : SUBSET Sides, phase : ObservedPhases]
          /\ counted.cut = now.cut /\ counted.unseen = now.unseen /\ counted.offer = now.offer
          /\ counted.bred = now.bred /\ counted.after = now.after
      BY <1>5, <2>0
    <2>2. saw' = [counted EXCEPT !.phase = ph]
      BY <1>5, <2>0
    <2> HIDE DEF counted
    <2>3. QED
      BY <1>6, <2>1, <2>2
  <1>9. Wire' \in WireType
    BY <1>5, <1>8 DEF Wire, WireType
  <1>10. /\ v.transfer = (Wire').transfer /\ v.saw.cut = (Wire').saw.cut
         /\ v.saw.unseen = (Wire').saw.unseen /\ v.saw.offer = (Wire').saw.offer
         /\ v.saw.bred = (Wire').saw.bred /\ v.saw.after = (Wire').saw.after
    BY <1>8 DEF Wire
  <1>11. WireStep(Wire, piece, v)
    OBVIOUS
  <1> HIDE DEF piece, v
  <1>12. WireStep(Wire, piece, Wire')
    BY <1>10, <1>11, WireAgrees
  <1>13. QED
    BY <1>1, <1>2, <1>3, <1>7, <1>8, <1>9, <1>12, PieceKeeps

\* The wire's fields, and what a changed transfer is.
TransferType == [at : {"none", "asked", "sending", "sent"}, packet : Payloads]

LEMMA WireNow ==
  ASSUME ExchangeTypes
  PROVE  /\ transfer \in [Sides -> TransferType] /\ Wire.saw = saw
         /\ \A s \in Sides : /\ At(Wire, s) = transfer[s].at /\ Result(Wire, s) = transfer[s].packet
                             /\ transfer[s].at \in {"none", "asked", "sending", "sent"}
                             /\ transfer[s].packet \in Payloads
         /\ saw \in [pieces : Int, cut : SUBSET Sides, unseen : BOOLEAN, offer : BOOLEAN,
                     bred : BOOLEAN, after : SUBSET Sides, phase : ObservedPhases]
         /\ NoPayload \in Payloads
  <1>1. transfer \in [Sides -> TransferType] /\ Wire.saw = saw
    BY DEF ExchangeTypes, Wire, WireType, TransferType
  <1>2. \A s \in Sides : transfer[s].at \in {"none", "asked", "sending", "sent"}
                         /\ transfer[s].packet \in Payloads
    BY <1>1 DEF TransferType
  <1>3. NoPayload \in Payloads
    BY DEF NoPayload, Payloads
  <1>4. QED
    BY <1>1, <1>2, <1>3 DEF ExchangeTypes, Wire, WireType, At, Result

\* The wire with other transfers or another history.
LEMMA WireOf ==
  ASSUME NEW t \in [Sides -> TransferType],
         NEW w \in [pieces : Int, cut : SUBSET Sides, unseen : BOOLEAN, offer : BOOLEAN,
                    bred : BOOLEAN, after : SUBSET Sides, phase : ObservedPhases]
  PROVE  /\ [transfer |-> t, saw |-> w] \in WireType /\ [transfer |-> t, saw |-> w].saw = w
         /\ \A s \in Sides : /\ At([transfer |-> t, saw |-> w], s) = t[s].at
                             /\ Result([transfer |-> t, saw |-> w], s) = t[s].packet
  BY DEF WireType, TransferType, At, Result

\* Of one transfer only where it is changes.
LEMMA AtOnly ==
  ASSUME NEW t \in [Sides -> TransferType], NEW s \in Sides,
         NEW at \in {"none", "asked", "sending", "sent"}
  PROVE  /\ [t EXCEPT ![s].at = at] \in [Sides -> TransferType]
         /\ [t EXCEPT ![s].at = at][s].at = at /\ [t EXCEPT ![s].at = at][s].packet = t[s].packet
         /\ [t EXCEPT ![s].at = at][Peer(s)] = t[Peer(s)]
  <1> DEFINE r == [t[s] EXCEPT !.at = at]
             v == [t EXCEPT ![s] = r]
  <1>1. r \in TransferType /\ r.at = at /\ r.packet = t[s].packet
    BY DEF TransferType
  <1>2. [t EXCEPT ![s].at = at] = v
    OBVIOUS
  <1> HIDE DEF r
  <1>3. v \in [Sides -> TransferType] /\ v[s] = r /\ v[Peer(s)] = t[Peer(s)]
    BY <1>1, PeerOf
  <1> HIDE DEF v
  <1>4. QED
    BY <1>1, <1>2, <1>3

\* The toys' steps.
LEMMA AnnounceKeeps ==
  ASSUME ExchangeInv, NEW side \in Sides, Announce(side)
  PROVE  ExchangeInv'
  <1>0. ExchangeTypes
    BY DEF ExchangeInv
  <1>1. PICK p \in Payloads : transfer' = [transfer EXCEPT ![side] = [at |-> "asked", packet |-> p]]
    BY DEF Announce
  <1> DEFINE r == [at |-> "asked", packet |-> p]
             v == [transfer |-> transfer', saw |-> saw]
             piece == [side |-> side, what |-> "PKT", payload |-> NoPayload]
  <1>2. r \in TransferType /\ r.at = "asked"
    BY DEF TransferType
  <1> HIDE DEF r
  <1>3. /\ transfer' \in [Sides -> TransferType] /\ transfer'[side] = r
        /\ transfer'[Peer(side)] = transfer[Peer(side)]
    BY <1>0, <1>1, <1>2, WireNow, PeerOf DEF r
  <1>4. v \in WireType /\ v.saw = saw /\ At(v, side) = "asked"
        /\ At(v, Peer(side)) = transfer[Peer(side)].at
    BY <1>0, <1>2, <1>3, WireNow, WireOf, PeerOf
  <1> HIDE DEF v
  <1>5. PktStep(Wire, side, v)
    BY <1>0, <1>4, WireNow, PeerOf DEF PktStep, AllStill, SawSame, BelievedSame, Announce
  <1>6. WireStep(Wire, piece, v)
    BY <1>5 DEF WireStep
  <1>7. Passes(side, "PKT", NoPayload, saw) /\ "PKT" \in Commands \cup {"packet"}
    BY DEF Announce, Commands
  <1>8. QED
    BY <1>0, <1>4, <1>6, <1>7, WireNow, PassesKeeps DEF v

LEMMA AcknowledgeKeeps ==
  ASSUME ExchangeInv, NEW side \in Sides, Acknowledge(side)
  PROVE  ExchangeInv'
  <1>0. ExchangeTypes
    BY DEF ExchangeInv
  <1> DEFINE at == IF transfer[side].at = "sent" THEN "none" ELSE "sending"
             packet == transfer[side].packet
             now == Received(side)
             v == [transfer |-> transfer', saw |-> now]
             piece == [side |-> Peer(side), what |-> "ACK", payload |-> NoPayload]
  <1>1. transfer' = [transfer EXCEPT ![side].at = at]
    BY <1>0, WireNow DEF Acknowledge
  <1>2. at \in {"none", "asked", "sending", "sent"}
    OBVIOUS
  <1> HIDE DEF at
  <1>3. /\ transfer' \in [Sides -> TransferType] /\ transfer'[side].at = at
        /\ transfer'[Peer(side)] = transfer[Peer(side)]
    <2>1. transfer \in [Sides -> TransferType]
      BY <1>0, WireNow
    <2>2. CASE at = "none"
      <3>1. transfer' = [transfer EXCEPT ![side].at = "none"]
        BY <1>1, <2>2
      <3>2. QED
        BY <2>1, <2>2, <3>1, AtOnly
    <2>3. CASE at = "sending"
      <3>1. transfer' = [transfer EXCEPT ![side].at = "sending"]
        BY <1>1, <2>3
      <3>2. QED
        BY <2>1, <2>3, <3>1, AtOnly
    <2>4. QED
      BY <2>2, <2>3 DEF at
  <1>4. packet \in Payloads /\ packet.offer \in BOOLEAN
    BY <1>0, WireNow, BooleanFields DEF ExchangeTypes
  <1>5. /\ now \in [pieces : Int, cut : SUBSET Sides, unseen : BOOLEAN, offer : BOOLEAN,
                    bred : BOOLEAN, after : SUBSET Sides, phase : ObservedPhases]
        /\ now.cut = saw.cut /\ now.unseen = saw.unseen /\ now.after = saw.after
        /\ now.bred = (saw.bred \/ (transfer[side].at = "sent" /\ packet.result = 4 /\ saw.offer))
        /\ now.offer = IF transfer[side].at = "sent" /\ packet.result = 0
                       THEN packet.offer \/ (saw.unseen /\ saw.offer) ELSE saw.offer
    <2>1. CASE transfer[side].at # "sent"
      <3>1. now = saw
        BY <2>1 DEF Received
      <3>2. QED
        BY <3>1, <2>1, <1>0, WireNow
    <2>2. CASE transfer[side].at = "sent"
      <3> DEFINE b == saw.bred \/ (packet.result = 4 /\ saw.offer)
                 o == IF packet.result = 0 THEN packet.offer \/ (saw.unseen /\ saw.offer) ELSE saw.offer
      <3>1. now = [saw EXCEPT !.bred = b, !.offer = o]
        BY <2>2 DEF Received
      <3>2. b \in BOOLEAN /\ o \in BOOLEAN
        BY <1>0, <1>4, WireNow
      <3> HIDE DEF now
      <3>3. /\ now \in [pieces : Int, cut : SUBSET Sides, unseen : BOOLEAN, offer : BOOLEAN,
                        bred : BOOLEAN, after : SUBSET Sides, phase : ObservedPhases]
            /\ now.cut = saw.cut /\ now.unseen = saw.unseen /\ now.after = saw.after
            /\ now.bred = b /\ now.offer = o
        <4> HIDE DEF b, o
        <4>1. QED
          BY <3>1, <3>2, <1>0, WireNow
      <3>4. QED
        BY <3>3, <2>2
    <2>3. QED
      BY <2>1, <2>2
  <1> HIDE DEF now
  <1>6. v \in WireType /\ v.saw = now /\ At(v, side) = at
        /\ At(v, Peer(side)) = transfer[Peer(side)].at
    BY <1>3, <1>5, WireOf, PeerOf
  <1> HIDE DEF v
  <1>7. AckStep(Wire, side, v)
    <2>1. transfer[side].at \in {"asked", "sent"}
      BY DEF Acknowledge
    <2>2. /\ At(Wire, side) = transfer[side].at /\ Result(Wire, side) = packet /\ Wire.saw = saw
          /\ At(Wire, Peer(side)) = transfer[Peer(side)].at
      BY <1>0, WireNow, PeerOf
    <2> HIDE DEF packet
    <2>3. QED
      BY <2>1, <2>2, <1>5, <1>6 DEF AckStep, SawSame, at
  <1>8. WireStep(Wire, piece, v)
    BY <1>7, PeerOf DEF WireStep
  <1>9. Passes(Peer(side), "ACK", NoPayload, now) /\ "ACK" \in Commands \cup {"packet"}
    BY DEF Acknowledge, Commands, now
  <1>10. Peer(side) \in Sides /\ NoPayload \in Payloads
    BY <1>0, PeerOf, WireNow
  <1> HIDE DEF at, packet
  <1>11. QED
    BY <1>6, <1>8, <1>9, <1>10, PassesKeeps DEF v

LEMMA LastChunkKeeps ==
  ASSUME ExchangeInv, NEW side \in Sides, LastChunk(side)
  PROVE  ExchangeInv'
  <1>0. ExchangeTypes
    BY DEF ExchangeInv
  <1> DEFINE packet == transfer[side].packet
             v == [transfer |-> transfer', saw |-> saw]
             piece == [side |-> side, what |-> "packet", payload |-> packet]
  <1>1. /\ transfer' \in [Sides -> TransferType] /\ transfer'[side].at = "sent"
        /\ transfer'[side].packet = packet /\ transfer'[Peer(side)] = transfer[Peer(side)]
    BY <1>0, WireNow, AtOnly DEF LastChunk
  <1>2. /\ v \in WireType /\ v.saw = saw /\ At(v, side) = "sent" /\ Result(v, side) = packet
        /\ At(v, Peer(side)) = transfer[Peer(side)].at
    BY <1>0, <1>1, WireNow, WireOf, PeerOf
  <1>3. packet \in Payloads /\ packet = Result(Wire, side)
    BY <1>0, WireNow
  <1> HIDE DEF v, packet
  <1>4. ChunkStep(Wire, side, v)
    BY <1>0, <1>2, <1>3, WireNow, PeerOf DEF ChunkStep, SawSame, BelievedSame, LastChunk
  <1>5. WireStep(Wire, piece, v)
    BY <1>3, <1>4 DEF WireStep
  <1>6. Passes(side, "packet", packet, saw)
    BY DEF LastChunk, packet
  <1>7. QED
    BY <1>2, <1>3, <1>5, <1>6, PassesKeeps DEF v

LEMMA CancelKeeps ==
  ASSUME ExchangeInv, NEW side \in Sides, Cancel(side)
  PROVE  ExchangeInv'
  <1>0. ExchangeTypes
    BY DEF ExchangeInv
  <1> DEFINE cut == IF \E s \in Sides : transfer[s].at # "none" THEN saw.cut \cup {side} ELSE saw.cut
             unseen == saw.unseen \/ transfer[side].at = "sending"
             now == [saw EXCEPT !.cut = cut, !.unseen = unseen]
             v == [transfer |-> transfer', saw |-> now]
             piece == [side |-> side, what |-> "CAN", payload |-> NoPayload]
  <1>1. Passes(side, "CAN", NoPayload, now) /\ "CAN" \in Commands \cup {"packet"}
    BY DEF Cancel, Commands
  <1>2. transfer' \in [Sides -> TransferType] /\ \A s \in Sides : transfer'[s].at = "none"
    <2>1. ASSUME NEW s \in Sides
          PROVE  [transfer[s] EXCEPT !.at = "none"] \in TransferType
                 /\ [transfer[s] EXCEPT !.at = "none"].at = "none"
      BY <1>0, WireNow DEF TransferType
    <2>2. transfer' = [s \in Sides |-> [transfer[s] EXCEPT !.at = "none"]]
      BY DEF Cancel
    <2>3. QED
      BY <2>1, <2>2
  <1>3. cut \in SUBSET Sides /\ unseen \in BOOLEAN
    BY <1>0, WireNow
  <1>4. /\ now \in [pieces : Int, cut : SUBSET Sides, unseen : BOOLEAN, offer : BOOLEAN,
                    bred : BOOLEAN, after : SUBSET Sides, phase : ObservedPhases]
        /\ now.cut = cut /\ now.unseen = unseen /\ now.offer = saw.offer /\ now.bred = saw.bred
        /\ now.after = saw.after
    <2> HIDE DEF cut, unseen
    <2>1. QED
      BY <1>0, <1>3, WireNow
  <1> HIDE DEF now
  <1>5. v \in WireType /\ v.saw = now /\ AllStill(v)
    BY <1>2, <1>4, WireOf DEF AllStill
  <1> HIDE DEF v
  <1>6. AllStill(Wire) <=> ~\E s \in Sides : transfer[s].at # "none"
    BY <1>0, WireNow DEF AllStill
  <1>7. CanStep(Wire, side, v)
    BY <1>0, <1>4, <1>5, <1>6, WireNow DEF CanStep, BelievedSame
  <1>8. WireStep(Wire, piece, v)
    BY <1>7 DEF WireStep
  <1>9. QED
    BY <1>0, <1>1, <1>5, <1>8, WireNow, PassesKeeps DEF v

LEMMA SaysKeeps ==
  ASSUME ExchangeInv, NEW side \in Sides, NEW what \in {"BREED 0", "BREED 1", "SYNC 2"},
         Says(side, what)
  PROVE  ExchangeInv'
  <1>0. ExchangeTypes
    BY DEF ExchangeInv
  <1> DEFINE after == IF what = "SYNC 2" /\ saw.bred THEN saw.after \cup {side} ELSE saw.after
             now == [saw EXCEPT !.after = after]
             v == [transfer |-> transfer', saw |-> now]
             piece == [side |-> side, what |-> what, payload |-> NoPayload]
  <1>1. Passes(side, what, NoPayload, now) /\ what \in Commands \cup {"packet"}
        /\ transfer' = transfer
    BY DEF Says, Commands
  <1>2. after \in SUBSET Sides
    BY <1>0, WireNow
  <1>3. /\ now \in [pieces : Int, cut : SUBSET Sides, unseen : BOOLEAN, offer : BOOLEAN,
                    bred : BOOLEAN, after : SUBSET Sides, phase : ObservedPhases]
        /\ now.cut = saw.cut /\ now.unseen = saw.unseen /\ now.offer = saw.offer
        /\ now.bred = saw.bred /\ now.after = after
    <2> HIDE DEF after
    <2>1. QED
      BY <1>0, <1>2, WireNow
  <1> HIDE DEF now
  <1>4. v \in WireType /\ v.saw = now /\ \A s \in Sides : At(v, s) = transfer[s].at
    <2>1. transfer' \in [Sides -> TransferType] /\ \A s \in Sides : transfer'[s].at = transfer[s].at
      BY <1>0, <1>1, WireNow
    <2>2. QED
      BY <2>1, <1>3, WireOf
  <1> HIDE DEF v
  <1>5. SayStep(Wire, side, what, v)
    <2>1. /\ \A s \in Sides : At(Wire, s) = "none" /\ At(v, s) = "none"
          /\ Wire.saw = saw /\ (what = "SYNC 2" \/ saw.offer)
      BY <1>0, <1>4, WireNow DEF Says
    <2>2. QED
      BY <2>1, <1>3, <1>4 DEF SayStep, SawSame, AllStill
  <1>6. WireStep(Wire, piece, v)
    BY <1>5 DEF WireStep
  <1>7. QED
    BY <1>0, <1>1, <1>4, <1>6, WireNow, PassesKeeps DEF v

\* The next piece and the moment after it, of an observer that goes on.
LEMMA NextPiece ==
  ASSUME ExchangeInv, ~exchange.stopped, queue # <<>>, NEW f, Path(f, exchange, queue, Wire)
  PROVE  /\ Head(queue) \in PieceType /\ f[0] \in WireType /\ f[1] \in WireType
         /\ WireStep(f[0], Head(queue), f[1]) /\ Follows(exchange, f[0])
  <1>1. queue \in Seq(PieceType) /\ Head(queue) = queue[1] /\ Len(queue) \in Nat /\ Len(queue) >= 1
        /\ queue[1] \in PieceType
    BY DEF ExchangeInv, ExchangeTypes
  <1>2. 0 \in 0..Len(queue) /\ 1 \in 0..Len(queue) /\ 1 \in 1..Len(queue) /\ 1 - 1 = 0
    BY <1>1
  <1>3. /\ f \in [0..Len(queue) -> WireType] /\ Follows(exchange, f[0])
        /\ WireStep(f[1 - 1], queue[1], f[1])
    BY <1>2 DEF Path
  <1>4. QED
    BY <1>1, <1>2, <1>3

\* A piece that is done with.
LEMMA DoneKeeps ==
  ASSUME ExchangeInv, ~exchange.stopped, queue # <<>>, NEW STATE g,
         exchange' = g, queue' = Tail(queue), UNCHANGED <<transfer, saw>>,
         g \in ExchangeType, g.stopped = FALSE, g.decoding = NoPiece,
         NEW f, Path(f, exchange, queue, Wire), Follows(g, f[1])
  PROVE  ExchangeInv'
  <1>1. queue \in Seq(PieceType) /\ Tail(queue) \in Seq(PieceType) /\ Wire' = Wire
        /\ Wire \in WireType
    BY DEF ExchangeInv, ExchangeTypes, Wire
  <1>2. \E h : Path(h, g, Tail(queue), Wire)
    BY <1>1, PathAdvances
  <1>3. \E h : Path(h, exchange', queue', Wire')
    BY <1>1, <1>2
  <1>4. QED
    BY <1>1, <1>3 DEF ExchangeInv, ExchangeTypes, DecodesFirst

\* A stopped observer reports nothing more.
LEMMA StoppedKeeps ==
  ASSUME ExchangeInv, exchange.stopped, exchange' \in ExchangeType,
         exchange'.stopped = TRUE, exchange'.phase = exchange.phase,
         queue' \in Seq(PieceType), DecodesFirst', UNCHANGED <<transfer, saw>>
  PROVE  ExchangeInv'
  <1>1. Wire' = Wire
    BY DEF Wire
  <1>2. QED
    BY <1>1 DEF ExchangeInv, ExchangeTypes, StoppedTrue

\* The observer's steps.
LEMMA DecodeKeeps ==
  ASSUME ExchangeInv, Decode
  PROVE  ExchangeInv'
  <1>0. /\ queue # <<>> /\ exchange.decoding = NoPiece /\ UNCHANGED <<transfer, saw>>
        /\ exchange \in ExchangeType /\ queue \in Seq(PieceType) /\ Tail(queue) \in Seq(PieceType)
    BY DEF Decode, ExchangeInv, ExchangeTypes
  <1>1. CASE exchange.stopped
    <2>1. exchange' = exchange /\ queue' = Tail(queue)
      BY <1>1 DEF Decode
    <2>2. DecodesFirst'
      BY <2>1, <1>0 DEF DecodesFirst
    <2>3. exchange.stopped = TRUE
      BY <1>0, <1>1 DEF ExchangeType
    <2>4. QED
      BY <1>0, <1>1, <2>1, <2>2, <2>3, StoppedKeeps
  <1>2. CASE ~exchange.stopped
    <2>1. PICK f : Path(f, exchange, queue, Wire)
      BY <1>2 DEF ExchangeInv
    <2> DEFINE piece == Head(queue)
    <2>2. /\ piece \in PieceType /\ f[0] \in WireType /\ f[1] \in WireType
          /\ WireStep(f[0], piece, f[1]) /\ Follows(exchange, f[0])
      BY <1>0, <1>2, <2>1, NextPiece
    <2>3. CASE piece.what \in Commands
      <3> DEFINE g == Line(exchange, piece.side, piece.what)
      <3>1. exchange' = g /\ queue' = Tail(queue)
        BY <1>2, <2>3 DEF Decode
      <3>2. piece.what # "packet"
        BY <2>3 DEF Commands
      <3> HIDE DEF piece
      <3>3. After(exchange, piece) = g
        BY <3>2 DEF After
      <3>4. g \in ExchangeType /\ Follows(g, f[1]) /\ g.stopped = exchange.stopped
            /\ g.decoding = exchange.decoding
        BY <1>0, <1>2, <2>2, <3>3, FollowsOn
      <3> HIDE DEF g
      <3>5. g.stopped = FALSE /\ g.decoding = NoPiece
        BY <1>0, <1>2, <3>4 DEF ExchangeType
      <3>6. QED
        BY <1>0, <1>2, <2>1, <3>1, <3>4, <3>5, DoneKeeps
    <2>4. CASE piece.what \notin Commands
      <3>1. exchange' = [exchange EXCEPT !.decoding = piece] /\ queue' = queue
        BY <1>2, <2>4 DEF Decode
      <3>2. piece.what = "packet"
        BY <2>2, <2>4 DEF WireStep, Commands
      <3>3. /\ exchange' \in ExchangeType /\ exchange'.phase = exchange.phase
            /\ exchange'.tcp = exchange.tcp /\ exchange'.pending = exchange.pending
            /\ exchange'.packetSeen = exchange.packetSeen /\ exchange'.offered = exchange.offered
            /\ exchange'.accepted = exchange.accepted /\ exchange'.sync2 = exchange.sync2
            /\ exchange'.activity = exchange.activity /\ exchange'.stopped = exchange.stopped
            /\ exchange'.decoding = piece
        <4> HIDE DEF piece
        <4>1. QED
          BY <1>0, <2>2, <3>1 DEF ExchangeType
      <3>4. Follows(exchange', f[0])
        BY <2>2, <3>3, SameFollows
      <3>5. Wire' = Wire
        BY <1>0 DEF Wire
      <3>6. Path(f, exchange, queue, Wire)'
        BY <2>1, <3>1, <3>4, <3>5 DEF Path
      <3>7. DecodesFirst'
        BY <1>0, <3>1, <3>2, <3>3 DEF DecodesFirst
      <3>8. QED
        BY <1>0, <1>2, <3>1, <3>3, <3>5, <3>6, <3>7 DEF ExchangeInv, ExchangeTypes
    <2>5. QED
      BY <2>3, <2>4
  <1>3. QED
    BY <1>1, <1>2

LEMMA DecryptedKeeps ==
  ASSUME ExchangeInv, Decrypted
  PROVE  ExchangeInv'
  <1> DEFINE piece == exchange.decoding
             done == [exchange EXCEPT !.decoding = NoPiece]
             g == Taken(done, piece.side, piece.payload)
  <1>0. /\ queue # <<>> /\ piece = Head(queue) /\ piece.what = "packet"
        /\ queue' = Tail(queue) /\ UNCHANGED <<transfer, saw>>
        /\ exchange \in ExchangeType /\ queue \in Seq(PieceType) /\ Tail(queue) \in Seq(PieceType)
    BY DEF Decrypted, DecodesFirst, ExchangeInv, ExchangeTypes
  <1>1. NoPiece \in PieceType
    <2>1. NoPayload \in Payloads
      BY DEF NoPayload, Payloads
    <2>2. QED
      BY <2>1 DEF NoPiece, PieceType, Sides
  <1>2. piece \in PieceType /\ piece.side \in Sides /\ piece.payload \in Payloads
    BY <1>0 DEF ExchangeType, PieceType
  <1>3. /\ done \in ExchangeType /\ done.phase = exchange.phase
        /\ done.tcp = exchange.tcp /\ done.pending = exchange.pending
        /\ done.packetSeen = exchange.packetSeen /\ done.offered = exchange.offered
        /\ done.accepted = exchange.accepted /\ done.sync2 = exchange.sync2
        /\ done.activity = exchange.activity /\ done.stopped = exchange.stopped
        /\ done.decoding = NoPiece
    BY <1>0, <1>1 DEF ExchangeType
  <1>4. exchange' = g
    BY <1>3 DEF Decrypted, Taken
  <1> HIDE DEF piece, done
  <1>5. /\ g \in ExchangeType /\ g.stopped = done.stopped /\ g.decoding = done.decoding
        /\ done.stopped => g.phase = done.phase
    BY <1>2, <1>3, TakenFields
  <1> HIDE DEF g
  <1>6. CASE exchange.stopped
    <2>1. DecodesFirst'
      BY <1>3, <1>4, <1>5 DEF DecodesFirst
    <2>2. exchange.stopped = TRUE
      BY <1>0, <1>6 DEF ExchangeType
    <2>3. QED
      BY <1>0, <1>3, <1>4, <1>5, <1>6, <2>1, <2>2, StoppedKeeps
  <1>7. CASE ~exchange.stopped
    <2>1. PICK f : Path(f, exchange, queue, Wire)
      BY <1>7 DEF ExchangeInv
    <2>2. /\ f[0] \in WireType /\ f[1] \in WireType
          /\ WireStep(f[0], piece, f[1]) /\ Follows(exchange, f[0])
      BY <1>0, <1>7, <2>1, NextPiece
    <2>3. Follows(done, f[0])
      BY <2>2, <1>3, SameFollows
    <2>4. After(done, piece) = g
      BY <1>0 DEF After, g
    <2>5. Follows(g, f[1])
      BY <1>2, <1>3, <1>7, <2>2, <2>3, <2>4, FollowsOn
    <2>6. g.stopped = FALSE /\ g.decoding = NoPiece
      BY <1>0, <1>3, <1>5, <1>7 DEF ExchangeType
    <2>7. QED
      BY <1>0, <1>4, <1>5, <1>7, <2>1, <2>5, <2>6, DoneKeeps
  <1>8. QED
    BY <1>6, <1>7

LEMMA FindsLineKeeps ==
  ASSUME ExchangeInv, NEW side \in Sides, FindsLine(side)
  PROVE  ExchangeInv'
  <1> DEFINE e == exchange
             r == [e.tcp[side] EXCEPT !.phase = "idle"]
             tcp == [e.tcp EXCEPT ![side] = r]
             g == [e EXCEPT !.tcp = tcp]
  <1>0. /\ e \in ExchangeType /\ queue \in Seq(PieceType) /\ e.tcp[side].phase = "lost"
        /\ e.tcp[side] \in TcpType /\ UNCHANGED <<queue, transfer, saw>> /\ Wire' = Wire
    BY DEF FindsLine, ExchangeInv, ExchangeTypes, ExchangeType, Wire
  <1>1. exchange' = g
    BY <1>0 DEF FindsLine, ExchangeType
  <1>2. r \in TcpType /\ r.phase = "idle" /\ r.aligned = e.tcp[side].aligned
    BY <1>0 DEF TcpType
  <1> HIDE DEF r
  <1>3. /\ tcp \in [Sides -> TcpType] /\ tcp[side] = r
        /\ \A s \in Sides : s # side => tcp[s] = e.tcp[s]
    BY <1>0, <1>2 DEF ExchangeType
  <1> HIDE DEF tcp
  <1>4. /\ g \in ExchangeType /\ g.tcp = tcp /\ g.phase = e.phase
        /\ g.pending = e.pending /\ g.packetSeen = e.packetSeen /\ g.offered = e.offered
        /\ g.accepted = e.accepted /\ g.sync2 = e.sync2 /\ g.activity = e.activity
        /\ g.stopped = e.stopped /\ g.decoding = e.decoding
    BY <1>0, <1>3 DEF ExchangeType
  <1> HIDE DEF g
  <1>5. DecodesFirst'
    BY <1>0, <1>1, <1>4 DEF DecodesFirst, ExchangeInv
  <1>6. CASE exchange.stopped
    <2>1. exchange.stopped = TRUE
      BY <1>0, <1>6 DEF ExchangeType
    <2>2. QED
      BY <1>0, <1>1, <1>4, <1>5, <1>6, <2>1, StoppedKeeps
  <1>7. CASE ~exchange.stopped
    <2>1. PICK f : Path(f, exchange, queue, Wire)
      BY <1>7 DEF ExchangeInv
    <2> DEFINE x == f[0]
    <2>2. Follows(e, x)
      BY <2>1 DEF Path
    <2> HIDE DEF x, e
    <2>3. \A s \in Sides : g.tcp[s].aligned = e.tcp[s].aligned
      BY <1>2, <1>3, <1>4
    <2>4. ~e.tcp[side].aligned /\ Lost(g)
      BY <1>0, <1>2, <1>3, <1>4, <2>2 DEF Follows, Lost
    <2>5. Placed(e, x) => Placed(g, x)
      <3>1. SUFFICES ASSUME Placed(e, x) PROVE Placed(g, x)
        OBVIOUS
      <3>2. ASSUME NEW s \in Sides PROVE InPlace(g, x, s)
        <4>1. CASE s = side
          BY <4>1, <3>1, <1>2, <1>3, <1>4, <2>3, <2>4, PeerOf DEF Placed, InPlace
        <4>2. CASE s # side
          BY <4>2, <3>1, <1>3, <1>4, <2>3, PeerOf DEF Placed, InPlace
        <4>3. QED
          BY <4>1, <4>2
      <3>3. x.saw.cut # {}
        BY <3>1, <2>4 DEF Placed, Whole
      <3>4. QED
        BY <3>1, <3>2, <3>3 DEF Placed
    <2>6. Believes(e, x) => Believes(g, x)
      BY <1>4 DEF Believes, Offers, Breeds, Held, e
    <2>7. Follows(g, x)
      BY <1>4, <2>2, <2>4, <2>5, <2>6 DEF Follows, e
    <2>8. Path(f, exchange, queue, Wire)'
      BY <1>0, <1>1, <2>1, <2>7 DEF Path, x
    <2>9. QED
      BY <1>0, <1>1, <1>4, <1>5, <1>7, <2>8 DEF ExchangeInv, ExchangeTypes, e
  <1>8. QED
    BY <1>6, <1>7

LEMMA StopStepKeeps ==
  ASSUME ExchangeInv, Stop
  PROVE  ExchangeInv'
  <1>0. ExchangeTypes
    BY DEF ExchangeInv
  <1>1. exchange.phase \in ObservedPhases /\ transfer' = transfer /\ transfer \in [Sides -> TransferType]
    BY <1>0, WireNow DEF Stop, ExchangeTypes, ExchangeType
  <1>2. /\ saw' \in [pieces : Int, cut : SUBSET Sides, unseen : BOOLEAN, offer : BOOLEAN,
                     bred : BOOLEAN, after : SUBSET Sides, phase : ObservedPhases]
        /\ saw'.phase = exchange.phase /\ saw'.cut = saw.cut /\ saw'.after = saw.after
    <2> DEFINE ph == exchange.phase
    <2>1. saw' = [saw EXCEPT !.phase = ph]
      BY DEF Stop
    <2>2. ph \in ObservedPhases
      BY <1>1
    <2> HIDE DEF ph
    <2>3. /\ saw' \in [pieces : Int, cut : SUBSET Sides, unseen : BOOLEAN, offer : BOOLEAN,
                       bred : BOOLEAN, after : SUBSET Sides, phase : ObservedPhases]
          /\ saw'.phase = ph /\ saw'.cut = saw.cut /\ saw'.after = saw.after
      BY <1>0, <2>1, <2>2, WireNow
    <2>4. QED
      BY <2>3 DEF ph
  <1>3. Wire' \in WireType
    BY <1>1, <1>2 DEF Wire, WireType, TransferType
  <1>4. QED
    BY <1>2, <1>3, StopKeeps DEF Stop

\* An attempt begins with nothing on the wire.
LEMMA InitFollows == ExchangeInit => ExchangeInv
  <1> SUFFICES ASSUME ExchangeInit PROVE ExchangeInv
    OBVIOUS
  <1>1. PICK a \in {"playdate", "gift"} :
           exchange = [activity |-> a, phase |-> "exchanging", pending |-> [s \in Sides |-> FALSE],
                       packetSeen |-> [s \in Sides |-> FALSE], offered |-> FALSE, accepted |-> FALSE,
                       sync2 |-> {}, stopped |-> FALSE, decoding |-> NoPiece,
                       tcp |-> [s \in Sides |-> [phase |-> "idle", aligned |-> TRUE]]]
    BY DEF ExchangeInit
  <1>2. NoPayload \in Payloads
    BY DEF NoPayload, Payloads
  <1>3. NoPiece \in PieceType
    BY <1>2 DEF NoPiece, PieceType, Sides
  <1>4. [s \in Sides |-> [phase |-> "idle", aligned |-> TRUE]] \in [Sides -> TcpType]
    BY DEF TcpType
  <1>5. exchange \in ExchangeType
    BY <1>1, <1>3, <1>4 DEF ExchangeType, ObservedPhases
  <1>6. Wire \in WireType
    <2>1. transfer \in [Sides -> [at : {"none", "asked", "sending", "sent"}, packet : Payloads]]
      BY <1>2 DEF ExchangeInit
    <2>2. saw \in [pieces : Int, cut : SUBSET Sides, unseen : BOOLEAN, offer : BOOLEAN, bred : BOOLEAN,
                   after : SUBSET Sides, phase : ObservedPhases]
      BY DEF ExchangeInit, ObservedPhases
    <2>3. QED
      BY <2>1, <2>2 DEF Wire, WireType
  <1>7. /\ \A s \in Sides : /\ At(Wire, s) = "none" /\ ~exchange.pending[s] /\ ~exchange.packetSeen[s]
                            /\ exchange.tcp[s].phase = "idle" /\ exchange.tcp[s].aligned
        /\ Wire.saw.cut = {} /\ ~exchange.offered /\ ~exchange.accepted /\ exchange.sync2 = {}
        /\ exchange.phase = "exchanging"
    BY <1>1 DEF ExchangeInit, Wire, At
  <1>8. Follows(exchange, Wire)
    BY <1>7, PeerOf DEF Follows, Lost, Placed, OneAtATime, InPlace, Whole, Believes, Offers, Breeds
  <1> DEFINE f == [k \in 0..0 |-> Wire]
  <1>9. queue = <<>> /\ queue \in Seq(PieceType) /\ Len(queue) = 0
    BY DEF ExchangeInit
  <1>10. f \in [0..0 -> WireType] /\ f[0] = Wire /\ 0..0 = {0}
    BY <1>6
  <1>11. Path(f, exchange, queue, Wire)
    <2> HIDE DEF f
    <2>1. QED
      BY <1>8, <1>9, <1>10 DEF Path
  <1>12. exchange.decoding = NoPiece /\ ~exchange.stopped
    BY <1>1
  <1>13. QED
    BY <1>5, <1>6, <1>9, <1>11, <1>12 DEF ExchangeInv, ExchangeTypes, DecodesFirst

\* The observer has followed the wire up to some earlier moment, from which the
\* pieces of its queue lead to now; once stopped, what it reported last was true.
THEOREM ExchangeHolds == ExchangeSpec => []ExchangeInv
  <1>1. ASSUME ExchangeInv, [ExchangeNext]_exchangeVars PROVE ExchangeInv'
    <2>1. CASE UNCHANGED exchangeVars
      <3>1. Wire' = Wire /\ exchange' = exchange /\ queue' = queue
        BY <2>1 DEF exchangeVars, Wire
      <3>2. QED
        BY <1>1, <3>1 DEF ExchangeInv, ExchangeTypes, DecodesFirst, StoppedTrue
    <2>2. CASE Decode
      BY <1>1, <2>2, DecodeKeeps
    <2>3. CASE Decrypted
      BY <1>1, <2>3, DecryptedKeeps
    <2>4. CASE Stop
      BY <1>1, <2>4, StopStepKeeps
    <2>5. ASSUME NEW side \in Sides, FindsLine(side) PROVE ExchangeInv'
      BY <1>1, <2>5, FindsLineKeeps
    <2>6. ASSUME NEW side \in Sides, Announce(side) PROVE ExchangeInv'
      BY <1>1, <2>6, AnnounceKeeps
    <2>7. ASSUME NEW side \in Sides, Acknowledge(side) PROVE ExchangeInv'
      BY <1>1, <2>7, AcknowledgeKeeps
    <2>8. ASSUME NEW side \in Sides, LastChunk(side) PROVE ExchangeInv'
      BY <1>1, <2>8, LastChunkKeeps
    <2>9. ASSUME NEW side \in Sides, Cancel(side) PROVE ExchangeInv'
      BY <1>1, <2>9, CancelKeeps
    <2>10. ASSUME NEW side \in Sides, NEW what \in {"BREED 0", "BREED 1", "SYNC 2"}, Says(side, what)
           PROVE  ExchangeInv'
      BY <1>1, <2>10, SaysKeeps
    <2>11. QED
      BY <1>1, <2>1, <2>2, <2>3, <2>4, <2>5, <2>6, <2>7, <2>8, <2>9, <2>10 DEF ExchangeNext
  <1>2. QED
    BY <1>1, InitFollows, PTL DEF ExchangeSpec

\* For a queue of any size and an exchange of any length: what is reported
\* happened on the wire, and a packet pends exactly while it is under way.
THEOREM OutcomeIsTrue == ExchangeSpec => []OutcomeTrue
  <1>1. ExchangeInv => OutcomeTrue
    <2> SUFFICES ASSUME ExchangeInv PROVE OutcomeTrue
      OBVIOUS
    <2>0. exchange \in ExchangeType /\ queue \in Seq(PieceType) /\ Wire \in WireType /\ ExchangeTypes
      BY DEF ExchangeInv, ExchangeTypes
    <2>1. CASE exchange.stopped
      BY <2>1 DEF ExchangeInv, StoppedTrue, OutcomeTrue, Wire
    <2>2. CASE ~exchange.stopped
      <3>1. PICK f : Path(f, exchange, queue, Wire)
        BY <2>2 DEF ExchangeInv
      <3>2. /\ exchange.phase = "interrupted" => saw.cut # {}
            /\ exchange.phase = "settling" => saw.after = Sides
        BY <2>0, <3>1, PathTrue DEF Wire
      <3>3. queue = <<>> => Follows(exchange, Wire)
        BY <3>1 DEF Path
      <3>4. queue = <<>> /\ saw.cut = {} => \A s \in Sides : exchange.pending[s] <=> transfer[s].at # "none"
        <4>1. SUFFICES ASSUME queue = <<>>, saw.cut = {}, NEW s \in Sides
                       PROVE  exchange.pending[s] <=> transfer[s].at # "none"
          OBVIOUS
        <4>2. InPlace(exchange, Wire, s) /\ Whole(exchange, Wire, s)
          BY <4>1, <3>2, <3>3 DEF Follows, Placed, Wire
        <4>3. At(Wire, s) = transfer[s].at /\ At(Wire, s) \in {"none", "asked", "sending", "sent"}
          BY <2>0, WireNow
        <4>4. QED
          BY <4>2, <4>3 DEF InPlace, Whole
      <3>5. queue = <<>> /\ saw.cut # {} /\ ~saw.unseen => exchange.phase = "interrupted"
        BY <3>3 DEF Follows, Placed, Wire
      <3>6. QED
        BY <2>2, <3>2, <3>4, <3>5 DEF OutcomeTrue
    <2>3. QED
      BY <2>1, <2>2
  <1>2. QED
    BY <1>1, ExchangeHolds, PTL
=============================================================================
