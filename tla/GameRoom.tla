------------------------------ MODULE GameRoom ------------------------------
(***************************************************************************)
(* One game room of the relay server (relay-server/src/game-rooms.ts):      *)
(* members with credentials and reservations, sockets that are replaced, an *)
(* owner, and the toys behind the sockets.  A hosted room ends one session  *)
(* per toy and runs a match over them; a direct room forwards bytes between *)
(* two toys.                                                                *)
(*                                                                          *)
(* The server runs one handler at a time, and a handler is one action.      *)
(* What the match and the sessions do inside of a handler is left open as   *)
(* far as MatchRules and Tet3Session leave it open, and any client may turn *)
(* out to be slow; so the functions of the code are operators that take a   *)
(* room to the set of rooms it may become.                                  *)
(*                                                                          *)
(* Rooms share only the limit on their number, which is left out.  An id    *)
(* stands for a member's random id and token.  Every "adapter connected"    *)
(* of a client stands for a newly connected toy, numbered by its plug.      *)
(***************************************************************************)
EXTENDS Integers, FiniteSets, SequencesExt

CONSTANTS
    Ids,         \* members there may be
    Modes,       \* the modes a room may have: "hosted", "direct"
    None,        \* undefined
    RESERVE_MS,  \* 60000
    Slow,        \* bound of the model: whose client or toy may be slow or silent
    MaxSockets,  \* bound of the model: sockets ever opened
    MaxPlugs     \* bound of the model: toys ever connected

ASSUME RoomAssumption ==
    /\ Modes \subseteq {"hosted", "direct"} /\ None \notin Ids /\ Slow \subseteq Ids
    /\ RESERVE_MS \in Nat /\ MaxSockets \in Nat /\ MaxPlugs \in Nat

VARIABLE room

vars == <<room>>

\* "preparing" includes the countdown, "playing" the result of a round.
Phases == {"preparing", "playing", "results", "aborted"}
Ended == {"results", "aborted"}

\* plug 0: the member has no session.  told and played are history: the last
\* member count sent to this toy, and whether it was in a match.
NoNet == [plug |-> 0, ws |-> 0, ready |-> FALSE, error |-> FALSE, pending |-> FALSE,
          told |-> 0, played |-> FALSE]
\* plug 0: no adapter.  talk is history: the toys this toy has had bytes from.
Absent == [ws |-> 0, plug |-> 0, ready |-> FALSE, net |-> NoNet, lobbyCount |-> 0,
           expires |-> 0, talk |-> {}]
NoMatch == [phase |-> "none", connected |-> {}, unsent |-> {}, roster |-> {},
            session |-> [i \in Ids |-> 0]]

Init ==
    \E mode \in Modes :
        room = [mode |-> mode, members |-> <<>>, owner |-> None, m |-> [i \in Ids |-> Absent],
                match |-> NoMatch, open |-> {}, closing |-> {}, sockets |-> 0, plugs |-> 0]

Members(r) == ToSet(r.members)
Hears(r, i) == r.m[i].ws \in r.open
Alive(net) == net.plug # 0 /\ ~net.error
Capacity(r) == IF r.mode = "direct" THEN 2 ELSE 16

\* What comes of f in any of the rooms.
Each(rooms, f(_)) == UNION {f(r) : r \in rooms}
\* What comes of f for one member after the other.
InTurn(r, seq, f(_, _)) ==
    LET after[k \in 0..Len(seq)] ==
            IF k = 0 THEN {r} ELSE Each(after[k - 1], LAMBDA s : f(s, seq[k]))
    IN  after[Len(seq)]

-----------------------------------------------------------------------------
(* The match, as the room sees it: its phase, the seats that are connected, *)
(* and after its end the seats whose last message still waits in its outbox. *)

After(mt, p, C) ==
    [mt EXCEPT !.phase = p, !.connected = C, !.unsent = IF p \in Ended THEN C ELSE {}]
\* A forfeit when at most one seat is left.
Played(mt, C) == After(mt, IF Cardinality(C) <= 1 THEN "results" ELSE "playing", C)

\* HostedMatch.disconnect.  Telling the others may cost more seats.
LoseSeat(mt, i) ==
    LET left == {C \in SUBSET mt.connected : i \notin C}
    IN  CASE mt.phase = "preparing" -> {After(mt, "aborted", C) : C \in left}
          [] mt.phase = "playing" -> {Played(mt, C) : C \in left}
          [] OTHER -> {[mt EXCEPT !.connected = @ \ {i}, !.unsent = @ \ {i}]}
Lose(r, i) ==
    IF i \notin r.match.connected THEN {r}
    ELSE {[r EXCEPT !.match = mt] : mt \in LoseSeat(r.match, i)}

\* HostedMatch.tick, before it hands messages on.  A match that ends as planned
\* has drained its outboxes and the sessions.
MatchTicked(r) ==
    LET mt == r.match
        idle == \A i \in mt.connected : ~r.m[i].net.pending
        some == SUBSET mt.connected
        next == CASE mt.phase = "preparing" -> {mt} \cup {Played(mt, C) : C \in some}
                  [] mt.phase = "playing" ->
                        {Played(mt, C) : C \in some}
                        \cup {n \in {After(mt, "preparing", mt.connected)} : idle}
                        \cup {n \in {[mt EXCEPT !.phase = "results"]} : idle}
                  [] OTHER -> {mt}
        dropped == IF mt.phase \in {"preparing", "playing"}
                   THEN {After(mt, "aborted", C) : C \in some} ELSE {}
    IN  {[r EXCEPT !.match = n] : n \in next \cup dropped}

\* HostedMatch.flush: an idle session takes the waiting message, one with a
\* queue may have room for it.
Flushed(r) ==
    {[r EXCEPT !.match.unsent = @ \ F,
               !.m = [i \in Ids |-> IF i \in F THEN [@[i] EXCEPT !.net.pending = TRUE] ELSE @[i]]] :
        F \in {F \in SUBSET r.match.unsent : \A i \in r.match.unsent \ F : r.m[i].net.pending}}

\* Faulty variant: a session that fails does not tell the match.
StopNetAlone(r, i) ==
    IF ~Alive(r.m[i].net) THEN {r}
    ELSE {[r EXCEPT !.m[i].net.error = TRUE, !.m[i].net.pending = FALSE, !.m[i].ready = FALSE]}
\* Tet3Session.stop and what the room does when told of it.
StopNet(r, i) ==
    IF ~Alive(r.m[i].net) THEN {r}
    ELSE Lose([r EXCEPT !.m[i].net.error = TRUE, !.m[i].net.pending = FALSE,
                        !.m[i].ready = FALSE], i)

-----------------------------------------------------------------------------
(* What the handlers share                                                  *)

\* The server closes sockets; their close events come later.
Shut(r, ws) == [r EXCEPT !.open = @ \ ws, !.closing = @ \cup (r.open \cap ws)]

\* Everyone gets the snapshot; clients that turn out to be slow are closed.
Broadcast(r) ==
    {Shut(r, {r.m[i].ws : i \in late}) : late \in SUBSET {i \in Slow \cap Members(r) : Hears(r, i)}}

\* A member's toy is gone, and in a direct room the other toy's session with it.
Detach(r, i) ==
    LET gone == {i} \cup IF r.mode = "direct" /\ r.m[i].plug # 0 THEN Members(r) ELSE {}
        off(a) == [a EXCEPT !.plug = 0, !.ready = FALSE, !.net = NoNet, !.talk = {}]
    IN  Lose([r EXCEPT !.m = [j \in Ids |-> IF j \in gone THEN off(@[j]) ELSE @[j]]], i)

\* The owner is somebody who is there, if anybody is.  An empty room is closed.
Owner(r) ==
    LET first == SelectInSeq(r.members, LAMBDA i : r.m[i].ws # 0)
    IN  IF r.members = <<>> THEN [r EXCEPT !.owner = None, !.match = NoMatch]
        ELSE IF r.owner \in Members(r) /\ r.m[r.owner].ws # 0 THEN r
        ELSE [r EXCEPT !.owner = r.members[IF first = 0 THEN 1 ELSE first]]

Without(r, i) ==
    Shut([r EXCEPT !.members = RemoveFirst(@, i), !.m[i] = Absent], {r.m[i].ws})
LeaveRoom(r, i) == Each(Detach(r, i), LAMBDA s : Broadcast(Owner(Without(s, i))))

\* Reservations that ran out.  (The room's own two hours are RoomExpired.)
Sweep(r) ==
    InTurn(r, r.members,
           LAMBDA s, i : IF s.m[i].ws = 0 /\ s.m[i].expires = 0 THEN LeaveRoom(s, i) ELSE {s})

Add(r, i) ==
    Broadcast([r EXCEPT !.members = Append(@, i),
                        !.m[i] = [Absent EXCEPT !.expires = RESERVE_MS],
                        !.owner = IF @ = None THEN i ELSE @])

-----------------------------------------------------------------------------
(* Requests                                                                 *)

Create(i) ==
    /\ room.members = <<>>
    /\ room' \in Add(room, i)

Join(i) ==
    /\ i \notin Members(room)
    /\ \E r \in Sweep(room) :
          /\ r.members # <<>>
          /\ room' \in IF r.match # NoMatch \/ Len(r.members) >= Capacity(r) THEN {r}
                       ELSE Add(r, i)

Leave(i) ==
    /\ i \in Members(room)
    /\ room' \in LeaveRoom(room, i)

\* A socket is attached; the one before it and its toy are given up.
\* (expires is not looked at while there is a socket.)
Attached(r, i) ==
    LET k == r.sockets + 1
    IN  Each(IF r.m[i].ws # 0 \/ r.m[i].net # NoNet THEN Detach(r, i) ELSE {r},
             LAMBDA s : Broadcast(Shut([s EXCEPT !.m[i].ws = k, !.m[i].expires = 0,
                                                 !.sockets = k, !.open = @ \cup {k}],
                                       {r.m[i].ws})))
Attach(i) ==
    /\ i \in Members(room) /\ room.sockets < MaxSockets
    /\ \E r \in Sweep(room) : room' \in IF i \in Members(r) THEN Attached(r, i) ELSE {r}

-----------------------------------------------------------------------------
(* Messages on a member's present socket, also while it is being closed.    *)

Live(i) ==
    /\ i \in Members(room) /\ room.m[i].ws # 0
    /\ room.m[i].ws \in room.open \cup room.closing

\* Too much traffic.
Refuse(i) ==
    /\ Live(i) /\ room' = Shut(room, {room.m[i].ws})

\* A direct room passes bytes on while both toys are connected.
Forward(i) ==
    /\ Live(i) /\ room.mode = "direct" /\ room.m[i].plug # 0
    /\ \E j \in Members(room) \ {i} :
          /\ room.m[j].plug # 0 /\ Hears(room, j)
          /\ \/ room' = [room EXCEPT !.m[j].talk = @ \cup {room.m[i].plug}]
             \/ j \in Slow /\ room' = Shut(room, {room.m[j].ws})

AdapterOff(i) ==
    /\ Live(i) /\ \E r \in Detach(room, i) : room' \in Broadcast(r)

\* A toy is connected; in a hosted room it gets a session, bound to the socket.
Plugged(r, i) ==
    LET p == r.plugs + 1
    IN  [r EXCEPT !.plugs = p, !.m[i].plug = p, !.m[i].lobbyCount = 0,
                  !.m[i].net = IF r.mode = "direct" THEN NoNet
                               ELSE [NoNet EXCEPT !.plug = p, !.ws = r.m[i].ws]]
AdapterOn(i) ==
    /\ Live(i) /\ room.m[i].plug = 0 /\ room.match = NoMatch /\ room.plugs < MaxPlugs
    /\ room' \in Broadcast(Plugged(room, i))

SetReady(i, on) ==
    /\ Live(i) /\ room.mode = "hosted" /\ room.match = NoMatch
    /\ on => Alive(room.m[i].net) /\ room.m[i].net.ready
    /\ room' \in Broadcast([room EXCEPT !.m[i].ready = on])

CanStart(r) ==
    /\ r.mode = "hosted" /\ r.match = NoMatch /\ Len(r.members) >= 2
    /\ \A i \in Members(r) : Hears(r, i) /\ r.m[i].ready /\ r.m[i].net.ready /\ Alive(r.m[i].net)

Start(i) ==
    /\ Live(i) /\ i = room.owner /\ CanStart(room)
    /\ LET all == Members(room)
       IN  room' \in Broadcast(
              [room EXCEPT
                  !.match = [phase |-> "preparing", connected |-> all, unsent |-> {}, roster |-> all,
                             session |-> [j \in Ids |-> room.m[j].net.plug]],
                  !.m = [j \in Ids |-> IF j \in all THEN [@[j] EXCEPT !.net.played = TRUE] ELSE @[j]]])

\* Faulty variant: the toys stay connected for the next match.
ResetOnlyMatch(i) ==
    /\ Live(i) /\ i = room.owner /\ room.match.phase \in Ended
    /\ room.match.phase = "aborted" \/ \A j \in Members(room) : ~room.m[j].net.pending
    /\ room' \in Broadcast([room EXCEPT !.match = NoMatch])
\* After a match all toys are let go of, once they acknowledged what was sent.
Reset(i) ==
    /\ Live(i) /\ i = room.owner /\ room.match.phase \in Ended
    /\ room.match.phase = "aborted"
          \/ \A j \in Members(room) : ~(Alive(room.m[j].net) /\ room.m[j].net.pending)
    /\ \E r \in InTurn([room EXCEPT !.match = NoMatch], room.members, Detach) : room' \in Broadcast(r)

-----------------------------------------------------------------------------
(* The toy (its session is module Tet3Session).                             *)

Toy(i) == Live(i) /\ Alive(room.m[i].net)

ToyHello(i) ==
    /\ Toy(i) /\ ~room.m[i].net.ready /\ ~room.m[i].net.pending
    /\ room' = [room EXCEPT !.m[i].net.pending = TRUE]

ToyReady(i) ==
    /\ Toy(i) /\ ~room.m[i].net.ready
    /\ room' = [room EXCEPT !.m[i].net.ready = TRUE]

ToyAck(i) ==
    /\ Toy(i) /\ room.m[i].net.pending
    /\ room' = [room EXCEPT !.m[i].net.pending = FALSE]

ToyBreaks(i) ==
    /\ Toy(i) /\ room' \in StopNet(room, i)

ToyLeaves(i) ==
    /\ Toy(i) /\ room.m[i].net.ready /\ room.match.phase \in {"preparing", "playing"}
    /\ room' \in Lose(room, i)

\* Top out and attack: seats may be lost to full outboxes.
ToyPlays(i) ==
    /\ Toy(i) /\ room.m[i].net.ready /\ i \in room.match.connected
    /\ room.match.phase = "playing"
    /\ \E C \in SUBSET room.match.connected :
          room' = [room EXCEPT !.match = Played(room.match, C)]

-----------------------------------------------------------------------------
(* Events                                                                   *)

Dropped(r, i) ==
    Each(Detach([r EXCEPT !.m[i].ws = 0, !.m[i].expires = RESERVE_MS], i),
         LAMBDA s : Broadcast(Owner(s)))

\* A socket is gone, which matters when it is a member's present one.
Closed(k) ==
    /\ k \in room.open \cup room.closing
    /\ LET r == [room EXCEPT !.open = @ \ {k}, !.closing = @ \ {k}]
           whose == {i \in Members(room) : room.m[i].ws = k}
       IN  room' \in IF whose = {} THEN {r} ELSE UNION {Dropped(r, i) : i \in whose}

\* Faulty variant: a toy whose seat is lost is left waiting.
StopLostNever(r, i) == {r}
\* The timer's look at one member: a session whose seat is lost is stopped; a
\* silent client is terminated, and is not looked at further.
StopLost(r, i) ==
    IF i \in r.match.roster \ r.match.connected THEN StopNet(r, i) ELSE {r}
Poll(r, i) ==
    LET net == r.m[i].net
        n == Len(r.members)
        news == r.match = NoMatch /\ Alive(net) /\ net.ready /\ r.m[i].lobbyCount # n
        told == [r EXCEPT !.m[i] = [@ EXCEPT !.net.pending = TRUE, !.net.told = n,
                                             !.lobbyCount = n]]
        counted == (IF news THEN {told} ELSE {r}) \cup (IF news /\ net.pending THEN {r} ELSE {})
        busy == {[s EXCEPT !.m[i].net.pending = TRUE] : s \in {s \in counted : net.ready /\ Alive(net)}}
    IN  counted \cup busy \cup (IF i \in Slow THEN Each(counted, LAMBDA s : StopNet(s, i)) ELSE {})
Visit(r, i) ==
    Each(StopLost(r, i),
         LAMBDA s : Poll(s, i) \cup {Shut(t, {t.m[i].ws}) : t \in {t \in {s} : i \in Slow /\ t.m[i].ws # 0}})

Tick ==
    /\ \E r \in Sweep(room) :
       \E s \in IF r.match = NoMatch THEN {r} ELSE Each(MatchTicked(r), Flushed) :
       \E t \in InTurn(s, s.members, Visit) :
          room' \in Broadcast(t)

\* Two hours are over.  What still happens in the room is seen by nobody.
RoomExpired ==
    /\ room.members # <<>>
    /\ room' = [room EXCEPT !.members = <<>>, !.owner = None, !.match = NoMatch,
                            !.m = [i \in Ids |-> Absent], !.open = {}, !.closing = {}]

\* Time passes for those who are away.
Clock ==
    /\ \E i \in Members(room) : room.m[i].ws = 0 /\ room.m[i].expires > 0
    /\ room' = [room EXCEPT
          !.m = [i \in Ids |-> IF @[i].ws = 0 /\ @[i].expires > 0
                               THEN [@[i] EXCEPT !.expires = room.m[i].expires - 1] ELSE @[i]]]

Next ==
    \/ Tick \/ Clock \/ RoomExpired
    \/ \E k \in 1..MaxSockets : Closed(k)
    \/ \E i \in Ids :
          \/ Create(i) \/ Join(i) \/ Leave(i) \/ Attach(i) \/ Refuse(i) \/ Forward(i)
          \/ AdapterOff(i) \/ AdapterOn(i) \/ Start(i) \/ Reset(i)
          \/ \E on \in BOOLEAN : SetReady(i, on)
          \/ ToyHello(i) \/ ToyReady(i) \/ ToyAck(i) \/ ToyBreaks(i) \/ ToyLeaves(i) \/ ToyPlays(i)

Spec == Init /\ [][Next]_vars

Waiting(i) == i \in room.match.roster \ room.match.connected /\ Alive(room.m[i].net)
Overdue(i) == i \in Members(room) /\ room.m[i].ws = 0 /\ room.m[i].expires = 0

\* The server's interval timer keeps firing and time passes.  (Fairness is only
\* asked of the ticks that have one of these to see to.)
Fairness == WF_vars((\E i \in Ids : Waiting(i) \/ Overdue(i)) /\ Tick) /\ WF_vars(Clock)

-----------------------------------------------------------------------------
(* Properties                                                               *)

\* Every field keeps its shape, and no room is fuller than it may be.
TypeOK ==
    /\ room.members \in Seq(Ids) /\ Len(room.members) <= Capacity(room)
    /\ Cardinality(Members(room)) = Len(room.members)
    /\ room.owner \in Ids \cup {None} /\ (room.owner = None <=> room.members = <<>>)
    /\ room.match.phase \in Phases \cup {"none"}
    /\ room.match.unsent \subseteq room.match.connected
    /\ room.match.connected \subseteq room.match.roster /\ room.match.roster \subseteq Ids
    /\ room.open \cup room.closing \subseteq 1..room.sockets /\ room.open \cap room.closing = {}
    /\ \A i \in Ids :
          /\ room.m[i].ws \in 0..room.sockets /\ room.m[i].plug \in 0..room.plugs
          /\ room.m[i].expires \in 0..RESERVE_MS /\ room.m[i].ready \in BOOLEAN
          /\ i \notin Members(room) => room.m[i] = Absent

\* A seat counts as connected only while the very toy that started the match
\* still answers on the socket it started on: whatever breaks or replaces
\* socket, adapter or session, the match hears of it in the same step.
SeatIsItsToy ==
    \A i \in room.match.connected :
        LET net == room.m[i].net
        IN  /\ Alive(net) /\ net.plug = room.match.session[i]
            /\ net.ws = room.m[i].ws /\ net.ws # 0

\* No session is used for a second match.
SessionPlaysOnce ==
    \A i \in Members(room) : room.m[i].net.played =>
        i \in room.match.roster /\ room.match.session[i] = room.m[i].net.plug

\* What the room believes of a member is true of the toy it has now: who counts
\* as ready has one that is, and the member count it is taken to show was sent
\* to it, not to the one connected before.
BeliefsOfThisToy ==
    \A i \in Members(room) :
        /\ room.m[i].ready => room.m[i].ws # 0 /\ room.m[i].net.ready /\ Alive(room.m[i].net)
        /\ room.m[i].net.plug # 0 => room.m[i].lobbyCount = room.m[i].net.told

\* In a direct room a toy that has had bytes of another goes on with that one
\* only: no replacement inherits its game.
NoPeerInherited ==
    \A i \in Members(room) :
        room.m[i].talk \subseteq {room.m[j].plug : j \in Members(room) \ {i}}

\* Whatever the room and the match believe of a toy, they believe of the one
\* that is there.
ToysHold == TypeOK /\ SeatIsItsToy /\ BeliefsOfThisToy /\ NoPeerInherited

\* A room in which anybody is there gets an owner who is there.
OwnerComes ==
    []<>(\/ room.owner # None /\ room.m[room.owner].ws # 0
         \/ \A i \in Members(room) : room.m[i].ws = 0)

\* A toy whose seat is lost is not left waiting: its session is ended.
LostSeatStops == \A i \in Ids : []<>~Waiting(i)

\* The next match is opened only after every toy still in the match was sent
\* the result: that is what "Waiting for the final toy acknowledgements" says.
ResultBeforeReset ==
    [][(room.match.phase = "results" /\ room'.match = NoMatch /\ room'.members # <<>>) =>
          room.match.unsent = {}]_vars

=============================================================================
