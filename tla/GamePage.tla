------------------------------ MODULE GamePage ------------------------------
(***************************************************************************)
(* The games page of one browser (web-client/src/games/game-room.ts and     *)
(* main.ts): a player connects an adapter, installs on the toy behind it,   *)
(* creates, joins and leaves rooms, and the page lends the adapter to the   *)
(* socket of the room it is in.                                             *)
(*                                                                          *)
(* A handler of the page is one action, and the methods it calls are        *)
(* operators from page to page.  The server is what it does to this page's  *)
(* seat: GameRoom has the whole of it.  Messages keep their order on a      *)
(* socket and may be under way for any time, but for less than a match.     *)
(*                                                                          *)
(* The listeners of a socket compare the generation they were made with;    *)
(* close() raises it and forgets the socket at once, so a socket is of this *)
(* generation as long as it is client.ws.                                   *)
(***************************************************************************)
EXTENDS Integers, Sequences

CONSTANTS
    Modes,        \* of rooms: "hosted", "direct"
    Undefined,    \* what JavaScript calls so
    MaxOpened,    \* bound of the model: sockets and adapters opened
    MaxBridges,   \* bound of the model: bridges made
    MaxDown       \* bound of the model: snapshots under way when the room says more

\* Why a seat has no toy, and what a page is told of its seat.
Reasons == {"replaced", "adapter", "peer", "session", "gone", "reset"}
Snapshots ==
    [adapter : BOOLEAN, reason : Reasons \cup {Undefined}, match : {"none", "on", "over"}]
Bridges == [id : Nat, ws : Nat, serial : Nat, live : BOOLEAN]

\* undefined is no number, no text and no object.
ASSUME UndefinedIsApart ==
    MaxOpened \in Nat /\ Undefined \notin Nat \cup Reasons \cup Snapshots \cup Bridges

VARIABLES
    client,   \* the page
    member    \* the server's seat for it

gamesVars == <<client, member>>

Line == [state |-> "new", up |-> <<>>, down |-> <<>>]
Fresh == [by |-> Undefined, late |-> FALSE]

\* sink: who reads from the adapter.  job and busy: what the run() of main.ts
\* and that of the room wait for.  calls: controls() that are still to come
\* from elsewhere.  writing: the bridge whose write of what the peer sent is under
\* way (bound of the model: one at a time).  score: what a direct room's page says
\* of a match; of that, by is the bridge the last packet came through, and late
\* says that one came through a bridge that had been stopped.
Page(mode, lines, used) ==
    [mode |-> mode, saved |-> FALSE, entry |-> FALSE, snapshot |-> Undefined, ws |-> Undefined,
     bridge |-> Undefined, connecting |-> FALSE, score |-> Fresh, busy |-> "init",
     serial |-> Undefined, sink |-> "none", job |-> "no", calls |-> 1,
     writing |-> Undefined, lines |-> lines, sockets |-> used.sockets, bridges |-> used.bridges,
     plugs |-> used.plugs]

\* last: what the page was last told of the seat.
Nobody == [there |-> FALSE, ws |-> Undefined, adapter |-> FALSE, reason |-> Undefined, match |-> "none",
           last |-> Undefined]

GamesInit ==
    \E mode \in Modes :
        /\ client = Page(mode, [w \in 1..MaxOpened |-> Line],
                         [sockets |-> 0, bridges |-> 0, plugs |-> 0])
        /\ member = Nobody

IsOpen(p) == p.ws # Undefined /\ p.lines[p.ws].state = "open"
Reason(p) == IF p.snapshot = Undefined THEN Undefined ELSE p.snapshot.reason
InMatch(p) == p.snapshot # Undefined /\ p.snapshot.match # "none"

-----------------------------------------------------------------------------
(* Methods of the page                                                      *)

Send(p, control) ==
    IF IsOpen(p) THEN [p EXCEPT !.lines[p.ws].up = Append(@, control)] ELSE p

\* bridge.stop() ends its own subscription, if it has one.
Stopped(p) ==
    [p EXCEPT !.bridge = Undefined,
              !.sink = IF p.bridge # Undefined /\ p.bridge.live THEN "none" ELSE @]

releaseAdapter(p) ==
    Send([Stopped(p) EXCEPT !.connecting = FALSE, !.score = Fresh], [connected |-> FALSE])

\* A started bridge, unless somebody else reads from the adapter: start()
\* throws, and what follows it is skipped.
Bridged(p) ==
    LET n == p.bridges + 1
        b == [id |-> n, ws |-> p.ws, serial |-> p.serial, live |-> p.sink = "none"]
        q == [p EXCEPT !.connecting = TRUE, !.score = Fresh, !.bridge = b, !.bridges = n]
    IN  IF b.live
        THEN Send([q EXCEPT !.sink = "bridge"], [connected |-> TRUE])
        ELSE q

syncAdapter(p, force) ==
    IF \/ p.serial = Undefined \/ ~IsOpen(p) \/ p.bridge # Undefined \/ p.connecting \/ InMatch(p)
       \/ Reason(p) # Undefined /\ ~force
    THEN p ELSE Bridged(p)

\* controls() ends in update().
controls(p) == syncAdapter(p, FALSE)

\* Faulty variant: the bridge of the socket that goes is kept.
closeKeeps(p) ==
    [p EXCEPT !.score = Fresh, !.ws = Undefined,
              !.lines = [w \in DOMAIN @ |->
                            IF w = p.ws THEN [@[w] EXCEPT !.state = "closed", !.down = <<>>] ELSE @[w]]]
close(p) ==
    [Stopped(p) EXCEPT
        !.score = Fresh, !.ws = Undefined,
        !.lines = [w \in DOMAIN @ |->
                      IF w = p.ws THEN [@[w] EXCEPT !.state = "closed", !.down = <<>>] ELSE @[w]]]

clear(p) == controls([close(p) EXCEPT !.entry = FALSE, !.saved = FALSE, !.snapshot = Undefined,
                                      !.connecting = FALSE])

enter(p) ==
    LET w == p.sockets + 1
        q == [close(p) EXCEPT !.entry = TRUE, !.saved = TRUE, !.snapshot = Undefined,
                              !.connecting = FALSE]
    IN  controls([q EXCEPT !.ws = w, !.sockets = w, !.lines[w].state = "connecting"])

\* disconnect() up to its await.
disconnect(p) == [releaseAdapter(p) EXCEPT !.serial = Undefined, !.sink = "none"]

-----------------------------------------------------------------------------
(* The player and the adapter                                               *)

MayOpen == client.sockets + client.plugs < MaxOpened
Does(p) == client' = p /\ p.bridges <= MaxBridges /\ UNCHANGED member

\* The button Connect: the chooser opens, or the adapter is given back.
Connect ==
    /\ client.job = "no"
    /\ LET p == controls(client)
       IN  IF p.serial = Undefined THEN MayOpen /\ Does([p EXCEPT !.job = "open"])
           ELSE Does([disconnect(p) EXCEPT !.job = "close"])

\* Chosen and opened: adapterConnected(), then the controls of run().
Opened ==
    /\ client.job = "open"
    /\ LET n == client.plugs + 1
           p == syncAdapter([client EXCEPT !.serial = n, !.plugs = n], TRUE)
       IN  Does(controls([p EXCEPT !.job = "no"]))

\* Send game and the music: not in a room, though one may be on its way.  The
\* files are loaded first.
Install ==
    /\ client.job = "no" /\ client.serial # Undefined /\ ~client.entry
    /\ Does([client EXCEPT !.job = "load"])

\* Then the installer reads from the adapter, unless a bridge does.  One that is
\* gone meanwhile fails at once.
Subscribes ==
    /\ client.job = "load"
    /\ IF client.serial = Undefined THEN Does([disconnect(client) EXCEPT !.job = "close"])
       ELSE client.sink = "none" /\ Does([client EXCEPT !.job = "install", !.sink = "install"])

\* Not chosen, not opened, closed, not loaded, the adapter in use, or an
\* installation that is over: run() ends.
JobEnds ==
    /\ client.job # "no"
    /\ Does(controls([client EXCEPT !.job = "no",
                                    !.sink = IF client.job = "install" THEN "none" ELSE @]))

\* An installation loses the adapter.
InstallLost == client.job = "install" /\ Does([disconnect(client) EXCEPT !.job = "close"])

\* A bridge loses the adapter: its error callback, then disconnect(), whose
\* controls() come when the port is closed.
AdapterLost ==
    /\ client.bridge # Undefined /\ client.bridge.live
    /\ Does([disconnect(releaseAdapter(client)) EXCEPT !.calls = @ + 1])

Controls ==
    /\ client.calls > 0
    /\ Does(controls([client EXCEPT !.calls = @ - 1]))

-----------------------------------------------------------------------------
(* The player and the room                                                  *)

\* Create, Join and Leave wait for the server.
Ask(what) ==
    /\ client.busy = "no" /\ client.job = "no"
    /\ what = IF client.entry THEN "leave" ELSE "enter"
    /\ Does([client EXCEPT !.busy = what])

\* The server gives out a seat, and the answer comes.
Seated ==
    /\ client.busy = "enter" /\ MayOpen
    /\ client' = controls([enter(client) EXCEPT !.busy = "no"])
    /\ client'.bridges <= MaxBridges
    /\ member' = [Nobody EXCEPT !.there = TRUE]

\* It refuses, or cannot be reached; or the list after leaving is there.
Answered ==
    /\ client.busy \in {"enter", "leave", "list"}
    /\ Does(controls([client EXCEPT !.busy = "no"]))

Left ==
    /\ client.busy = "leave" /\ ~member.there
    /\ Does([clear(client) EXCEPT !.busy = "list"])

\* initialize(): a saved seat is taken up again.
Initialized ==
    /\ client.busy = "init"
    /\ IF client.saved THEN MayOpen
                            /\ Does([enter(client) EXCEPT !.busy = "no"])
       ELSE Does([controls(client) EXCEPT !.busy = "no"])

\* The page is loaded anew; the seat is in the session storage.
Reload ==
    LET p == close(client)
    IN  Does([Page(p.mode, p.lines, p) EXCEPT !.saved = client.saved])

ReconnectRoom ==
    /\ client.entry /\ ~IsOpen(client) /\ MayOpen
    /\ Does(enter(client))

\* In a hosted room the button is this one outside of a match only.
ReconnectToy ==
    /\ client.entry /\ IsOpen(client) /\ Reason(client) # Undefined /\ client.serial # Undefined
    /\ client.mode = "hosted" => ~InMatch(client)
    /\ Does(syncAdapter(releaseAdapter(client), TRUE))

-----------------------------------------------------------------------------
(* The socket                                                               *)

Now(w, s) == [client.lines EXCEPT ![w].state = s]
Alive == {"connecting", "accepted", "open"}

Opens(w) ==
    /\ client.lines[w].state = "accepted"
    /\ Does([client EXCEPT !.lines = Now(w, "open")])

\* The connection goes.  The page's close event comes later.
Drops(w) ==
    /\ client.lines[w].state \in Alive
    /\ Does([client EXCEPT !.lines[w] = [Line EXCEPT !.state = "lost"]])

CloseEvent(w) ==
    /\ client.lines[w].state = "lost"
    /\ LET p == IF w = client.ws THEN [Stopped(client) EXCEPT !.connecting = FALSE] ELSE client
       IN  Does([p EXCEPT !.lines = Now(w, "closed")])

\* A direct bridge whose seat has lost its toy is stopped, if it was known.
TornDown(p, s) ==
    IF /\ p.mode = "direct" /\ p.bridge # Undefined /\ ~p.connecting
       /\ p.snapshot # Undefined /\ p.snapshot.adapter /\ s.reason # Undefined /\ ~s.adapter
    THEN Stopped(p) ELSE p

\* A snapshot.
Receive(w) ==
    /\ client.lines[w].state = "open" /\ client.lines[w].down # <<>> /\ w = client.ws
    /\ LET s == Head(client.lines[w].down)
           read == [client EXCEPT !.lines[w].down = Tail(@)]
           torn == [TornDown(read, s) EXCEPT !.snapshot = s]
           known == IF s.adapter THEN [torn EXCEPT !.connecting = FALSE] ELSE torn
           over == IF InMatch(client) /\ s.match = "none" THEN Stopped(known) ELSE known
       IN  Does(IF client.snapshot = Undefined THEN syncAdapter(over, FALSE) ELSE over)

\* The callback of bridge b, stopped or not: the page does not ask which it is.
\* A packet may change the score, or be of an earlier round and change nothing.
IsLive(p, b) == p.bridge # Undefined /\ p.bridge.live /\ p.bridge.id = b
Shown(p, b) == [p EXCEPT !.score = [by |-> b, late |-> @.late \/ ~IsLive(p, b)]]

\* A direct bridge sends on what the toy says, and shows it in the same step.
Carries == client.mode = "direct" /\ client.bridge # Undefined /\ client.bridge.live /\ IsOpen(client)
FromToy == Carries /\ Does(Shown(client, client.bridge.id))

\* What the peer sends is written to the adapter first.  When that is done it is
\* shown, whatever has become of the bridge; a write that fails says nothing
\* once its bridge is stopped, and is AdapterLost before.
FromPeer == Carries /\ client.writing = Undefined /\ Does([client EXCEPT !.writing = client.bridge.id])
WriteEnds ==
    /\ client.writing # Undefined
    /\ \E p \in {client, Shown(client, client.writing)} : Does([p EXCEPT !.writing = Undefined])

-----------------------------------------------------------------------------
(* The server (GameRoom has all of it)                                      *)

\* The room tells the page of its seat; the same text again it keeps to itself.
Text(m) == [adapter |-> m.adapter, reason |-> m.reason, match |-> m.match, connected |-> m.ws # Undefined]
Told(p, m, anew) ==
    IF m.ws # Undefined /\ p.lines[m.ws].state \in Alive /\ (anew \/ Text(m) # m.last)
    THEN [p EXCEPT !.lines[m.ws].down =
             Append(@, [adapter |-> m.adapter, reason |-> m.reason, match |-> m.match])]
    ELSE p
Becomes(p, m) == member' = [m EXCEPT !.last = Text(m)] /\ client' = Told(p, m, FALSE)

Detached(m, reason) == [m EXCEPT !.adapter = FALSE, !.reason = reason]

\* An unknown seat is turned away; a seat that has a socket gets this one.
SeatAttach(w) ==
    /\ client.lines[w].state = "connecting"
    /\ IF ~member.there THEN client' = [client EXCEPT !.lines = Now(w, "lost")] /\ UNCHANGED member
       ELSE LET old == member.ws
                m == IF old = Undefined THEN member ELSE Detached(member, "replaced")
                dropped == IF old # Undefined /\ client.lines[old].state \in Alive
                           THEN Now(old, "lost") ELSE client.lines
            IN  Becomes([client EXCEPT !.lines = [dropped EXCEPT ![w].state = "accepted"]],
                        [m EXCEPT !.ws = w])

\* A control of the page: an adapter is there, or is not any more.
Serve(w) ==
    /\ client.lines[w].up # <<>>
    /\ LET c == Head(client.lines[w].up)
           p == [client EXCEPT !.lines[w].up = Tail(@)]
       IN  IF member.ws # w THEN client' = p /\ UNCHANGED member
           ELSE IF ~c.connected THEN Becomes(p, Detached(member, "adapter"))
           ELSE IF member.adapter \/ member.match # "none" THEN client' = p /\ UNCHANGED member
           ELSE Becomes(p, [member EXCEPT !.adapter = TRUE, !.reason = Undefined])

\* The server finds the connection gone, and later the seat free.
SeatGone(w) ==
    /\ member.ws = w /\ client.lines[w].state \in {"lost", "closed"}
    /\ Becomes(client, [Detached(member, "gone") EXCEPT !.ws = Undefined])
Expires == member.there /\ member.ws = Undefined /\ member' = Nobody /\ UNCHANGED client

\* The request to leave.
Leaves ==
    /\ client.busy = "leave" /\ member.there /\ member' = Nobody
    /\ client' = IF member.ws # Undefined /\ client.lines[member.ws].state \in Alive
                 THEN [client EXCEPT !.lines = Now(member.ws, "lost")] ELSE client

\* What the others in the room and the toy do.
Quiet == member.ws # Undefined => client.lines[member.ws].up = <<>> /\ client.lines[member.ws].down = <<>>
Room == /\ member.there
        /\ member.ws # Undefined => Len(client.lines[member.ws].down) < MaxDown

OthersChange == Room /\ member.ws # Undefined /\ client' = Told(client, member, TRUE) /\ UNCHANGED member
PeerDetaches == /\ Room /\ client.mode = "direct" /\ member.adapter
                /\ Becomes(client, Detached(member, "peer"))
SessionFails == /\ Room /\ client.mode = "hosted" /\ member.adapter /\ member.reason = Undefined
                /\ Becomes(client, [member EXCEPT !.reason = "session"])
MatchStarts == /\ Room /\ client.mode = "hosted" /\ member.adapter /\ member.reason = Undefined
               /\ member.match = "none" /\ Becomes(client, [member EXCEPT !.match = "on"])
MatchEnds == Room /\ member.match = "on" /\ Becomes(client, [member EXCEPT !.match = "over"])
\* No message is under way as long as a match lasts.
NextOpened == /\ Room /\ member.match = "over" /\ Quiet
              /\ Becomes(client, [Detached(member, "reset") EXCEPT !.match = "none"])

-----------------------------------------------------------------------------
Player == \/ Connect \/ Opened \/ Install \/ Subscribes \/ JobEnds \/ InstallLost \/ AdapterLost \/ Controls
          \/ Ask("enter") \/ Ask("leave") \/ Seated \/ Answered \/ Left
          \/ Initialized \/ Reload \/ ReconnectRoom \/ ReconnectToy
Wire == \/ \E w \in 1..MaxOpened : Opens(w) \/ Drops(w) \/ CloseEvent(w) \/ Receive(w)
        \/ FromToy \/ FromPeer \/ WriteEnds
Server == \/ \E w \in 1..MaxOpened : SeatAttach(w) \/ Serve(w) \/ SeatGone(w)
          \/ Expires \/ Leaves \/ OthersChange \/ PeerDetaches \/ SessionFails
          \/ MatchStarts \/ MatchEnds \/ NextOpened
GamesNext == Player \/ Wire \/ Server

GamesSpec == GamesInit /\ [][GamesNext]_gamesVars

-----------------------------------------------------------------------------
(* Properties                                                               *)

\* A bridge joins the adapter and the socket the page has now.
BridgeCurrent == client.bridge # Undefined => /\ client.bridge.ws = client.ws
                                         /\ client.bridge.serial = client.serial

\* One reads from the adapter: the installation that runs, or the bridge.  A
\* bridge made meanwhile stays dumb, and nothing is left of one that ended.
OneReader ==
    /\ client.sink = "install" <=> client.job = "install"
    /\ client.sink = "bridge" <=> client.bridge # Undefined /\ client.bridge.live

\* What a direct room's page says of a match is of the bridge it has: nothing is
\* left of an earlier one, and only a write that outlived its bridge can still
\* bring something of it.
ScoreOfBridge ==
    client.bridge # Undefined /\ ~client.score.late =>
        client.score.by \in {Undefined, client.bridge.id}

\* Hosted, with nothing under way: a toy the server counts on has its bridge,
\* and is not one that is being installed on.
Settled == /\ client.mode = "hosted" /\ client.ws # Undefined /\ member.ws = client.ws
           /\ IsOpen(client) /\ Quiet
SeatServed == Settled /\ member.adapter => client.bridge # Undefined /\ client.bridge.live

\* A player with an adapter has a bridge for it, if perhaps a dumb one, or is
\* offered to reconnect it.
WayBack ==
    Settled /\ client.job = "no" /\ client.serial # Undefined
    /\ client.snapshot # Undefined /\ ~InMatch(client)
        => client.bridge # Undefined \/ Reason(client) # Undefined

\* The page, its adapter and its seat agree.
PageHolds == BridgeCurrent /\ OneReader /\ ScoreOfBridge /\ SeatServed /\ WayBack
=============================================================================
