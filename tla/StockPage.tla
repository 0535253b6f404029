------------------------------ MODULE StockPage ------------------------------
(***************************************************************************)
(* The room client of the Playdate and Gift pages                           *)
(* (web-client/src/ui/stock-lobby.ts, lobby-client.ts), joined to the link  *)
(* of the same page: it creates, joins, leaves and reconnects to a room,    *)
(* hands the room's socket to SerialLink, and keeps the credential of its   *)
(* seat over losses of the connection and reloads of the page.              *)
(*                                                                          *)
(* An action is one task of the page, the calls of its hooks and of         *)
(* renderHud included.  A seat stands for a room, a member's id and its     *)
(* token; the server is what it does to seats and sockets.                  *)
(***************************************************************************)
EXTENDS SerialLink

CONSTANT Seats   \* credentials the server may give out

ASSUME SeatsAssumption == None \notin Seats

VARIABLES
    entry,       \* of the client: its credential
    stored,      \* the credential in the session storage
    current,     \* its socket
    opening,     \* sockets that are CONNECTING
    losing,      \* sockets whose close event is still to come
    roomOf,      \* of each socket: the seat it was opened with
    peer,        \* peerSignature, "" also before the first snapshot
    snapshot,    \* is there one?
    busy,        \* the action run() waits for
    awaits,      \* the socket connect() waits for
    deadline,    \* is its ten second timer armed?
    told,        \* of each socket: the adapter state sent on it last
    held         \* seats the server keeps that the page was given

pageVars == <<entry, stored, current, opening, losing, roomOf, peer, snapshot, busy,
              awaits, deadline, told, held>>
vars == <<linkVars, pageVars>>

Peers == {"", "p", "q"}
Now == IF serial = None THEN "no" ELSE "yes"

Init ==
    /\ LinkInit
    /\ entry = None /\ stored = None /\ current = None
    /\ opening = {} /\ losing = {} /\ roomOf = [w \in Sockets |-> None]
    /\ peer = "" /\ snapshot = FALSE /\ busy = "no" /\ awaits = None /\ deadline = FALSE
    /\ told = [w \in Sockets |-> "nothing"] /\ held = {}

Idle == busy = "no"
Online == current \in open /\ snapshot
Unheard(w) == w \notin open \cup opening \cup losing

-----------------------------------------------------------------------------
(* connect()                                                                *)

\* The old socket is dropped at once, its close event is ignored; the new one
\* has ten seconds to bring the first snapshot.  (Untouched: held.)
Connect(e) ==
    /\ current' \in {w \in Sockets : Unheard(w)}
    /\ SocketHook(None, open \ {current})
    /\ opening' = (opening \ {current}) \cup {current'}
    /\ losing' = losing \cup ({current} \cap (open \cup opening))
    /\ roomOf' = [roomOf EXCEPT ![current'] = e]
    /\ told' = [told EXCEPT ![current'] = "nothing"]
    /\ entry' = e /\ stored' = e /\ peer' = "" /\ snapshot' = FALSE
    /\ busy' = "connect" /\ awaits' = current' /\ deadline' = TRUE

\* The promise of connect() is settled, and run() ends.
Settled(w) ==
    /\ awaits' = IF awaits = w THEN None ELSE awaits
    /\ busy' = IF awaits = w THEN "no" ELSE busy

Reconnect == Idle /\ entry # None /\ ~Online /\ current \notin opening
             /\ Connect(entry) /\ UNCHANGED held

\* Faulty variant: the adapter is announced only when it changes.
OpensQuietly(w) ==
    /\ w \in opening /\ opening' = opening \ {w}
    /\ IF current = w THEN SocketHook(w, open \cup {w})
       ELSE open' = open \cup {w}
            /\ UNCHANGED <<serial, bridge, socket, pending, connecting, wires, batches, writes, shown>>
    /\ UNCHANGED <<entry, stored, current, losing, roomOf, peer, snapshot, busy, awaits,
                   deadline, told, held>>
\* The socket opens.  (For an old room's socket the client then makes up a
\* first snapshot itself, which may come as any other.)
Opens(w) ==
    /\ w \in opening /\ opening' = opening \ {w}
    /\ IF current = w
       THEN SocketHook(w, open \cup {w}) /\ told' = [told EXCEPT ![w] = Now]
       ELSE open' = open \cup {w} /\ told' = told
            /\ UNCHANGED <<serial, bridge, socket, pending, connecting, wires, batches, writes, shown>>
    /\ UNCHANGED <<entry, stored, current, losing, roomOf, peer, snapshot, busy, awaits,
                   deadline, held>>

\* A snapshot of this room: the preview starts anew when the peer is another.
Snapshot(w, p) ==
    /\ w \in open /\ current = w /\ roomOf[w] = entry
    /\ snapshot' = TRUE /\ peer' = p /\ Settled(w)
    /\ deadline' = (deadline /\ awaits # w)
    /\ shown' = IF p # peer THEN {} ELSE shown
    /\ UNCHANGED <<serial, bridge, socket, pending, connecting, wires, batches, writes, open,
                   entry, stored, current, opening, losing, roomOf, told, held>>

\* The page closes its socket: a room of the other activity, or no snapshot in time.
GiveUp(w) ==
    /\ open' = open \ {w} /\ opening' = opening \ {w} /\ losing' = losing \cup {w}
    /\ Settled(w)
    /\ UNCHANGED <<serial, bridge, socket, pending, connecting, wires, batches, writes, shown,
                   entry, stored, current, roomOf, peer, snapshot, told, held>>
WrongActivity(w) == w \in open /\ current = w /\ GiveUp(w) /\ UNCHANGED deadline
Timeout == deadline /\ deadline' = FALSE
           /\ IF awaits = None THEN UNCHANGED <<linkVars, entry, stored, current, opening, losing,
                                                roomOf, peer, snapshot, busy, awaits, told, held>>
              ELSE GiveUp(awaits)

\* The server or the network ends a connection; the event comes later.
Drops(w) ==
    /\ w \in open \cup opening
    /\ open' = open \ {w} /\ opening' = opening \ {w} /\ losing' = losing \cup {w}
    /\ UNCHANGED <<serial, bridge, socket, pending, connecting, wires, batches, writes, shown,
                   entry, stored, current, roomOf, peer, snapshot, busy, awaits, deadline, told,
                   held>>

\* clear(): the room is forgotten, its socket closed.
Forgotten ==
    /\ entry' = None /\ stored' = None /\ current' = None /\ snapshot' = FALSE /\ peer' = ""
    /\ SocketHook(None, open \ {current}) /\ opening' = opening \ {current}

\* Faulty variant: connect() is not told that its socket has closed.
CloseEventUnsaid(w, code) ==
    /\ w \in losing /\ losing' = losing \ {w}
    /\ deadline' = (deadline /\ awaits # w)
    /\ IF current # w
       THEN UNCHANGED <<linkVars, entry, stored, current, peer, snapshot, busy, awaits, opening>>
       ELSE /\ IF code = 4404 THEN Forgotten
               ELSE current' = None /\ SocketHook(None, open)
                    /\ UNCHANGED <<entry, stored, peer, snapshot, opening>>
            /\ UNCHANGED <<busy, awaits>>
    /\ UNCHANGED <<roomOf, told, held>>
\* The close event.  A socket that was replaced changes nothing any more; only
\* 4404, the room has gone, makes the page drop the credential.
CloseEvent(w, code) ==
    /\ w \in losing /\ losing' = losing \ {w}
    /\ deadline' = (deadline /\ awaits # w)
    /\ IF current # w
       THEN UNCHANGED <<linkVars, entry, stored, current, peer, snapshot, busy, awaits, opening>>
       ELSE /\ IF code = 4404 THEN Forgotten
               ELSE current' = None /\ SocketHook(None, open)
                    /\ UNCHANGED <<entry, stored, peer, snapshot, opening>>
            /\ Settled(w)
    /\ UNCHANGED <<roomOf, told, held>>

-----------------------------------------------------------------------------
(* Requests                                                                 *)

\* Create or join: the forms are there only outside of a room.
Ask ==
    /\ Idle /\ entry = None /\ busy' = "ask"
    /\ UNCHANGED <<linkVars, entry, stored, current, opening, losing, roomOf, peer, snapshot,
                   awaits, deadline, told, held>>

Granted(s) ==
    /\ busy = "ask" /\ s \notin held /\ \A w \in Sockets : roomOf[w] = s => Unheard(w)
    /\ held' = held \cup {s} /\ Connect(s)

Leave ==
    /\ Idle /\ entry # None /\ busy' = "leave"
    /\ UNCHANGED <<linkVars, entry, stored, current, opening, losing, roomOf, peer, snapshot,
                   awaits, deadline, told, held>>

Left ==
    /\ busy = "leave" /\ busy' = "no" /\ held' = held \ {entry} /\ Forgotten
    /\ losing' = losing \cup ({current} \cap (open \cup opening))
    /\ UNCHANGED <<roomOf, awaits, deadline, told>>

\* The invitation is copied; the buttons are locked until the browser has done it.
Copy ==
    /\ Idle /\ entry # None /\ busy' = "copy"
    /\ UNCHANGED <<linkVars, entry, stored, current, opening, losing, roomOf, peer, snapshot,
                   awaits, deadline, told, held>>
Copied ==
    /\ busy = "copy" /\ busy' = "no"
    /\ UNCHANGED <<linkVars, entry, stored, current, opening, losing, roomOf, peer, snapshot,
                   awaits, deadline, told, held>>

\* No answer within ten seconds, or a refusal.  What was asked may be done.
RequestFails ==
    /\ busy \in {"ask", "leave"} /\ busy' = "no"
    /\ held' \in {held, IF busy = "leave" THEN held \ {entry} ELSE held}
    /\ UNCHANGED <<linkVars, entry, stored, current, opening, losing, roomOf, peer, snapshot,
                   awaits, deadline, told>>

\* The server gives a seat up: its room has ended or its reservation is over.
SeatEnds(s) ==
    /\ s \in held /\ held' = held \ {s}
    /\ UNCHANGED <<linkVars, entry, stored, current, opening, losing, roomOf, peer, snapshot,
                   busy, awaits, deadline, told>>

\* The page is loaded anew and goes back to the room it has stored.
Reload ==
    /\ PageGone /\ losing' = {} /\ peer' = "" /\ snapshot' = FALSE
    /\ entry' = stored
    /\ IF stored = None
       THEN /\ current' = None /\ opening' = {} /\ busy' = "no" /\ awaits' = None
            /\ deadline' = FALSE /\ UNCHANGED <<roomOf, told>>
       ELSE /\ current' \in Sockets /\ opening' = {current'} /\ busy' = "connect"
            /\ awaits' = current' /\ deadline' = TRUE
            /\ roomOf' = [roomOf EXCEPT ![current'] = stored]
            /\ told' = [told EXCEPT ![current'] = "nothing"]
    /\ UNCHANGED <<stored, held>>

\* The link's own steps end in renderHud(), which announces the adapter.
LinkStep ==
    /\ LinkNext
    /\ told' = IF (serial' = None) # (serial = None) /\ current \in open
               THEN [told EXCEPT ![current] = IF serial' = None THEN "no" ELSE "yes"] ELSE told
    /\ UNCHANGED <<entry, stored, current, opening, losing, roomOf, peer, snapshot, busy, awaits,
                   deadline, held>>

Next ==
    \/ LinkStep \/ Reconnect \/ Timeout \/ Ask \/ Leave \/ Left \/ Copy \/ Copied \/ RequestFails \/ Reload
    \/ \E w \in Sockets :
          \/ Opens(w) \/ WrongActivity(w) \/ Drops(w) \/ CloseEvent(w, 1006)
          \/ roomOf[w] \notin held /\ CloseEvent(w, 4404)
          \/ \E p \in Peers : Snapshot(w, p)
    \/ \E s \in Seats : Granted(s) \/ SeatEnds(s)

\* The timers of the page run out: that of connect() and those of requests.
\* What the browser does with the clipboard comes to an end.
Spec == Init /\ [][Next]_vars
        /\ WF_vars(Timeout) /\ WF_vars(RequestFails) /\ WF_vars(Copied)

-----------------------------------------------------------------------------
(* Properties                                                               *)

\* The bridge's socket is the one the client now has in its room; the server
\* was told on it whether there is an adapter; and no other socket of the page
\* is open, so it never holds a seat twice.
SocketIsCurrent ==
    /\ socket # None => socket = current
    /\ open \subseteq {current}
    /\ current # None => roomOf[current] = entry
    /\ current \in open => socket = current /\ told[current] = Now

\* The credential of a seat the server still keeps is not forgotten, neither
\* by the page nor by what a reload goes back to.
SeatRemembered == held \subseteq {entry} /\ held \subseteq {stored}

\* The page speaks for the seat it was given.
SeatHolds == SocketIsCurrent /\ SeatRemembered

\* Every action of the room's buttons ends, and with it their lock.
BusyEnds == ~Idle ~> Idle
=============================================================================
