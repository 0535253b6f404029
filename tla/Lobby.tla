-------------------------------- MODULE Lobby --------------------------------
(***************************************************************************)
(* One stock room of the relay server's lobby                               *)
(* (relay-server/src/lobby.ts): two seats with credentials, reservations    *)
(* for those who drop out, sockets that are replaced, an old client that    *)
(* knows only presence texts, and the start prompt that walks both players  *)
(* from "prepare" over "ready" to "started".                                *)
(*                                                                          *)
(* The server runs one handler at a time, and a handler is one action.      *)
(* Most begin by sweeping expired reservations and end by broadcasting; the *)
(* operators Sweep, ResetStart and Broadcast take and return the room.      *)
(*                                                                          *)
(* Rooms share only the limit on their number, which is left out.  An id    *)
(* stands for a member's random id and token; one may come back once        *)
(* nothing refers to it.  What the observer reads out of the bytes is any   *)
(* of its outcomes.                                                         *)
(***************************************************************************)
EXTENDS Integers, FiniteSets

CONSTANTS
    Ids,            \* members there may be
    Attempts,       \* identities of observers, numbers from 1 on
    None,           \* undefined
    READY_MS,       \* 8000
    RESERVE_MS,     \* 60000
    MaxConnections  \* bound of the model: connections of a member

ASSUME LobbyAssumption ==
    /\ None \notin Ids
    /\ Attempts \subseteq Nat \ {0} /\ \E a, b \in Attempts : a # b
    /\ READY_MS \in Nat /\ RESERVE_MS \in Nat /\ MaxConnections \in Nat

VARIABLE room

vars == <<room>>

Prompts == {"none", "prepare", "ready", "started"}
\* "progress" stands for result-observed, breeding and settling.
Outcomes == {"none", "exchanging", "progress", "interrupted"}

\* Nothing an adapter, a socket or an observer does is kept for a member that
\* is not in the room.
Absent == [slot |-> 0, legacy |-> FALSE, connected |-> FALSE, adapter |-> "no",
           starterChoice |-> FALSE, connection |-> 0, ws |-> 0, expires |-> 0]

Init ==
    room = [members |-> {}, m |-> [i \in Ids |-> Absent],
            starterId |-> None, startPrompt |-> "none", outcome |-> "none",
            readyTimer |-> -1, observation |-> 0, running |-> {},
            open |-> {}, closing |-> {},
            told |-> [i \in Ids |-> <<>>], seen |-> [i \in Ids |-> <<>>]]

-----------------------------------------------------------------------------
(* What the handlers share                                                  *)

Pair(r) == Cardinality(r.members) = 2

CanChooseStarter(r) ==
    /\ Pair(r)
    /\ \A i \in r.members : r.m[i].connected /\ ~r.m[i].legacy /\ r.m[i].starterChoice

\* The seat an older client can only think of as the starter's.
Guest(r) == IF \E i \in r.members : r.m[i].slot = 1
            THEN CHOOSE i \in r.members : r.m[i].slot = 1 ELSE None

Starter(r) ==
    IF ~Pair(r) THEN None
    ELSE IF (\E i \in r.members : r.m[i].legacy) \/ r.starterId \notin r.members
         THEN Guest(r) ELSE r.starterId

Snapshot(r) ==
    [starterId |-> r.starterId, choose |-> CanChooseStarter(r),
     startPrompt |-> r.startPrompt, outcome |-> r.outcome,
     members |-> {<<i, r.m[i].slot, r.m[i].connected, r.m[i].adapter, r.m[i].connection>> :
                     i \in r.members}]

\* Which connection of the peer an old client was told of; <<>> for none.
Signature(r, i) ==
    LET peers == {j \in r.members \ {i} : r.m[j].connected}
    IN  IF peers = {} THEN <<>>
        ELSE LET j == CHOOSE j \in peers : TRUE IN <<j, r.m[j].connection>>

Reached(r) == {i \in r.members : <<i, r.m[i].ws>> \in r.open}

\* Everyone reachable gets the room's snapshot; an old client gets a text when
\* its peer's connection is not the one it was last told of.
Broadcast(r) ==
    LET s == [r EXCEPT !.starterId = Starter(r)]
        news(i) == Signature(s, i) # s.told[i]
    IN  [s EXCEPT
            !.seen = [i \in Ids |->
                IF i \notin Reached(s) THEN <<>>
                ELSE IF ~s.m[i].legacy THEN Snapshot(s)
                ELSE IF news(i) THEN <<Signature(s, i) # <<>> >> ELSE s.seen[i]],
            !.told = [i \in Ids |->
                IF i \in Reached(s) /\ s.m[i].legacy THEN Signature(s, i) ELSE <<>>]]

ResetStart(r) ==
    [r EXCEPT !.running = @ \ {r.observation}, !.observation = 0, !.outcome = "none",
              !.readyTimer = -1, !.startPrompt = "none"]

Without(r, gone) ==
    [r EXCEPT !.members = @ \ gone,
              !.m = [i \in Ids |-> IF i \in gone THEN Absent ELSE @[i]],
              !.told = [i \in Ids |-> IF i \in gone THEN <<>> ELSE @[i]],
              !.seen = [i \in Ids |-> IF i \in gone THEN <<>> ELSE @[i]]]

\* The server closes sockets; their close events come later.  (What a client
\* shows whose socket is not open is not followed.)
Close(r, ws) ==
    LET left(i) == <<i, r.m[i].ws>> \in ws
    IN  [r EXCEPT !.open = @ \ ws, !.closing = @ \cup (r.open \cap ws),
                  !.told = [i \in Ids |-> IF left(i) THEN <<>> ELSE @[i]],
                  !.seen = [i \in Ids |-> IF left(i) THEN <<>> ELSE @[i]]]

\* Faulty variant: the reservation is cut short.
ExpiredEarly(r) == {i \in r.members : ~r.m[i].connected /\ r.m[i].expires <= 1}
Expired(r) == {i \in r.members : ~r.m[i].connected /\ r.m[i].expires = 0}
Sweep(r) ==
    IF Expired(r) = {} THEN r ELSE Broadcast(ResetStart(Without(r, Expired(r))))

-----------------------------------------------------------------------------
(* Requests                                                                 *)

\* No member, socket or event is left that an id belongs to.
Fresh(i) == i \notin room.members /\ \A ws \in room.open \cup room.closing : ws[1] # i

\* Faulty variant: who comes second gets the second seat.
AddInOrder(r, i, old) ==
    Broadcast([r EXCEPT
        !.members = @ \cup {i},
        !.m[i] = [Absent EXCEPT
            !.slot = IF r.members # {} THEN 1 ELSE 0,
            !.legacy = old, !.adapter = IF old THEN "unknown" ELSE "no",
            !.expires = RESERVE_MS]])

Add(r, i, old) ==
    Broadcast([r EXCEPT
        !.members = @ \cup {i},
        !.m[i] = [Absent EXCEPT
            !.slot = IF \E j \in r.members : r.m[j].slot = 0 THEN 1 ELSE 0,
            !.legacy = old, !.adapter = IF old THEN "unknown" ELSE "no",
            !.expires = RESERVE_MS]])

Create(i) ==
    /\ room.members = {} /\ Fresh(i)
    /\ room' = Add(room, i, FALSE)

Join(i) ==
    /\ Fresh(i)
    /\ LET r == Sweep(room)
       IN  /\ r.members # {}
           /\ room' = IF Pair(r) THEN r ELSE Add(r, i, FALSE)

\* An old client gets the guest's seat, or its own again.
JoinLegacy(i) ==
    /\ Fresh(i)
    /\ LET r == Sweep(room)
       IN  /\ r.members # {}
           /\ room' = IF Guest(r) # None THEN r ELSE Add(r, i, TRUE)

Leave(i) ==
    /\ i \in room.members
    /\ LET r == Close(Without(ResetStart(room), {i}), {<<i, room.m[i].ws>>})
       IN  room' = IF r.members = {} THEN r ELSE Broadcast(r)

SweepNow == room' = Sweep(room)

\* A socket is attached to a seat; one already there is replaced.  (expires
\* is not looked at while the member is connected.)
Attached(r, i) ==
    LET k == r.m[i].connection + 1
        s == ResetStart(r)
        t == [s EXCEPT
                !.m[i] = [@ EXCEPT !.ws = k, !.connection = k, !.connected = TRUE,
                                   !.adapter = IF r.m[i].legacy THEN "unknown" ELSE "no",
                                   !.starterChoice = FALSE, !.expires = 0],
                !.told[i] = <<>>,
                !.seen[i] = IF r.m[i].legacy THEN <<FALSE>> ELSE <<>>,
                !.open = @ \cup {<<i, k>>}]
    IN  Broadcast(Close(t, {<<i, r.m[i].ws>>}))

Attach(i) ==
    /\ i \in room.members /\ room.m[i].connection < MaxConnections
    /\ LET r == Sweep(room)
       IN  room' = IF i \in r.members THEN Attached(r, i) ELSE r

-----------------------------------------------------------------------------
(* Messages on a socket.  Only the member's present socket is listened to,  *)
(* also while the server is closing it.                                     *)

Live(i, k) ==
    /\ <<i, k>> \in room.open \cup room.closing
    /\ i \in room.members /\ room.m[i].ws = k

\* Bytes of the exchange: the starter's first ones end the countdown, and a
\* peer that does not keep up is closed.
StartsBy(i) == room.startPrompt = "ready" /\ i = room.starterId
\* Faulty variant: nobody is told that it started.
StartedQuietly(i) ==
    IF StartsBy(i) THEN [room EXCEPT !.readyTimer = -1, !.startPrompt = "started"] ELSE room
Started(i) ==
    IF StartsBy(i)
    THEN Broadcast([room EXCEPT !.readyTimer = -1, !.startPrompt = "started"])
    ELSE room
Bytes(i, k) ==
    /\ Live(i, k)
    /\ \E slow \in SUBSET {<<j, room.m[j].ws>> : j \in room.members \ {i}} :
          room' = Close(Started(i), slow)

\* Too large a message, or too many.
Refuse(i, k) ==
    /\ Live(i, k) /\ room' = Close(room, {<<i, k>>})

Adapter(i, k, on, choice) ==
    /\ Live(i, k) /\ ~room.m[i].legacy
    /\ LET r == [room EXCEPT !.m[i].adapter = IF on THEN "yes" ELSE "no",
                             !.m[i].starterChoice = choice]
           s == IF on /\ choice THEN r ELSE ResetStart(r)
       IN  room' = Broadcast(IF choice THEN s ELSE [s EXCEPT !.starterId = Guest(s)])

ChooseStarter(i, k, j) ==
    /\ Live(i, k) /\ CanChooseStarter(room)
    /\ j \in room.members /\ room.starterId # j
    /\ room' = Broadcast(ResetStart([room EXCEPT !.starterId = j]))

MayPrompt == CanChooseStarter(room) /\ \A j \in room.members : room.m[j].adapter = "yes"

Prepare(i, k) ==
    /\ Live(i, k) /\ MayPrompt /\ i = room.starterId
    /\ room' = Broadcast([ResetStart(room) EXCEPT !.startPrompt = "prepare"])

\* Faulty variant: the countdown is shown but no timer runs.
ReadyUntimed(i, k) ==
    /\ Live(i, k) /\ MayPrompt /\ i # room.starterId /\ room.startPrompt = "prepare"
    /\ LET a == CHOOSE a \in Attempts : a \notin room.running \cup {room.observation}
       IN  room' = Broadcast([room EXCEPT !.startPrompt = "ready", !.outcome = "exchanging",
                                          !.observation = a,
                                          !.running = (@ \ {room.observation}) \cup {a}])
\* The other player is at the menu: a new attempt is watched for READY_MS.
Ready(i, k) ==
    /\ Live(i, k) /\ MayPrompt /\ i # room.starterId /\ room.startPrompt = "prepare"
    /\ LET a == CHOOSE a \in Attempts : a \notin room.running \cup {room.observation}
       IN  room' = Broadcast([room EXCEPT !.startPrompt = "ready", !.outcome = "exchanging",
                                          !.readyTimer = READY_MS, !.observation = a,
                                          !.running = (@ \ {room.observation}) \cup {a}])

-----------------------------------------------------------------------------
(* Events                                                                   *)

\* An observer that was not stopped reports, some time after the bytes came.
Observed(a, o) ==
    /\ a \in room.running /\ a = room.observation
    /\ o \in {"progress", "interrupted"}
    /\ room' = Broadcast(
          IF o = "progress" THEN [room EXCEPT !.outcome = o]
          ELSE [room EXCEPT !.outcome = o, !.running = @ \ {a},
                            !.readyTimer = -1, !.startPrompt = "prepare"])

\* An observer that falls behind, or meets what it cannot decode, stops itself
\* and tells nobody: observation may be dropped, forwarding never waits for it.
Unwatched(a) ==
    /\ a \in room.running
    /\ room' = [room EXCEPT !.running = @ \ {a}]

ReadyTimeout ==
    /\ room.readyTimer = 0
    /\ room' = Broadcast([ResetStart(room) EXCEPT !.startPrompt = "prepare"])

\* Faulty variant: the prompt stays up when a player drops out.
ClosedPrompt(i, k) ==
    /\ <<i, k>> \in room.open \cup room.closing
    /\ LET r == [room EXCEPT !.open = @ \ {<<i, k>>}, !.closing = @ \ {<<i, k>>}]
       IN  room' = IF ~Live(i, k) THEN r
                   ELSE Broadcast([r EXCEPT
                            !.m[i] = [@ EXCEPT !.ws = 0, !.connected = FALSE, !.adapter = "no",
                                               !.starterChoice = FALSE, !.expires = RESERVE_MS]])

\* A socket is gone.  It matters when it is the member's present one.  (The
\* choice is not looked at until attach resets it.)
Closed(i, k) ==
    /\ <<i, k>> \in room.open \cup room.closing
    /\ LET r == [room EXCEPT !.open = @ \ {<<i, k>>}, !.closing = @ \ {<<i, k>>}]
       IN  room' = IF ~Live(i, k) THEN r
                   ELSE Broadcast([ResetStart(r) EXCEPT
                            !.m[i] = [@ EXCEPT !.ws = 0, !.connected = FALSE, !.adapter = "no",
                                               !.starterChoice = FALSE, !.expires = RESERVE_MS]])

\* Time passes for the prompt's timer and for the seats of those who dropped out.
Clock ==
    /\ room.readyTimer > 0 \/ \E i \in room.members : ~room.m[i].connected /\ room.m[i].expires > 0
    /\ room' = [room EXCEPT
          !.readyTimer = IF @ > 0 THEN @ - 1 ELSE @,
          !.m = [i \in Ids |-> IF ~room.m[i].connected /\ room.m[i].expires > 0
                               THEN [room.m[i] EXCEPT !.expires = room.m[i].expires - 1] ELSE room.m[i]]]

Next ==
    \/ SweepNow \/ Clock \/ ReadyTimeout
    \/ \E a \in Attempts, o \in Outcomes : Observed(a, o)
    \/ \E a \in Attempts : Unwatched(a)
    \/ \E i \in Ids :
          \/ Create(i) \/ Join(i) \/ JoinLegacy(i) \/ Leave(i) \/ Attach(i)
          \/ \E k \in 1..MaxConnections :
                \/ Bytes(i, k) \/ Refuse(i, k) \/ Prepare(i, k) \/ Ready(i, k) \/ Closed(i, k)
                \/ \E on, choice \in BOOLEAN : Adapter(i, k, on, choice)
                \/ \E j \in Ids : ChooseStarter(i, k, j)

Spec == Init /\ [][Next]_vars

\* The server's own timers fire and time passes; players owe nothing.
FairSpec == Spec /\ WF_vars(SweepNow) /\ WF_vars(Clock) /\ WF_vars(ReadyTimeout)

-----------------------------------------------------------------------------
(* Properties                                                               *)

\* Every field keeps its shape.
TypeOK ==
    /\ room.members \subseteq Ids
    /\ room.m \in [Ids -> [slot : {0, 1}, legacy : BOOLEAN, connected : BOOLEAN,
                           adapter : {"yes", "no", "unknown"}, starterChoice : BOOLEAN,
                           connection : 0..MaxConnections, ws : 0..MaxConnections,
                           expires : 0..RESERVE_MS]]
    /\ room.starterId \in Ids \cup {None} /\ room.startPrompt \in Prompts
    /\ room.outcome \in Outcomes /\ room.readyTimer \in -1..READY_MS
    /\ room.observation \in Attempts \cup {0} /\ room.running \subseteq Attempts
    /\ room.open \cup room.closing \subseteq Ids \X (1..MaxConnections)

\* At most two seats, never the same one; an old client only ever has the
\* guest's seat; a pair has a starter, who for an old client is the guest.  A
\* member is shown connected exactly as long as the socket it attached last is
\* not known to be gone, however late the close of an earlier one comes.
SeatsHold ==
    /\ \A i, j \in room.members : i # j => room.m[i].slot # room.m[j].slot
    /\ \A i \in room.members : room.m[i].legacy => room.m[i].slot = 1
    /\ Pair(room) => room.starterId \in room.members
    /\ Pair(room) /\ (\E i \in room.members : room.m[i].legacy)
          => room.m[room.starterId].slot = 1
    /\ \A i \in room.members :
          room.m[i].connected <=>
              <<i, room.m[i].connection>> \in room.open \cup room.closing

\* A start prompt is up only while both players are there with an adapter and
\* a client that shows it: whatever takes one of these away withdraws it.
PromptNeedsBoth ==
    room.startPrompt # "none" =>
        /\ CanChooseStarter(room) /\ \A i \in room.members : room.m[i].adapter = "yes"

\* The countdown runs exactly while the prompt says ready, an attempt stands
\* behind ready and started, an interrupted one asks anew, and only the
\* observer of the present attempt can still report.
AttemptFollowed ==
    /\ room.startPrompt = "ready" <=> room.readyTimer # -1
    /\ room.startPrompt \in {"ready", "started"} =>
          room.observation # 0 /\ room.outcome \in {"exchanging", "progress"}
    /\ room.outcome = "interrupted" => room.startPrompt = "prepare"
    /\ room.running \subseteq {room.observation}

\* Whoever is reachable shows the room as it is: no handler changes the room
\* and forgets to say so, whichever sweep, reset or correction it ran into.
SnapshotsCurrent ==
    \A i \in Reached(room) : ~room.m[i].legacy => room.seen[i] = Snapshot(room)

\* An old client believes its friend present exactly when the friend is.
LegacyPresence ==
    \A i \in Reached(room) : room.m[i].legacy =>
        room.seen[i] = <<\E j \in room.members \ {i} : room.m[j].connected>>

\* The three of them: who sits where, what the prompt stands on, and what the
\* members are shown.
RoomHolds == TypeOK /\ SeatsHold
PromptHolds == PromptNeedsBoth /\ AttemptFollowed
PictureHolds == SnapshotsCurrent /\ LegacyPresence

\* A seat is taken from a member only when it leaves or has stayed away for
\* the whole reservation; a replaced socket's late close takes nothing.
SeatKept ==
    [][\A i \in room.members \ room'.members :
          Leave(i) \/ (~room.m[i].connected /\ room.m[i].expires = 0)]_vars

\* Ready does not stay up for ever: bytes flow, or it is asked anew.  The seat
\* of one who does not come back is freed.
NothingHangs ==
    /\ []<>(room.startPrompt # "ready")
    /\ \A i \in Ids : []<>(i \notin room.members \/ room.m[i].connected)

=============================================================================
