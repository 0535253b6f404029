----------------------------- MODULE SerialLink -----------------------------
(***************************************************************************)
(* The exchange page's link between a toy's adapter and a room's socket     *)
(* (web-client/src/stock-link.ts) and what it is built of: SerialBridge,    *)
(* which carries bytes both ways until it is stopped, SerialBatcher, which  *)
(* joins the toy's short reads into frames, and the reader of the adapter   *)
(* (tama-protocol/src/serial-reader.ts), of which there is one per open     *)
(* transport and which outlives the bridges that subscribe to it.           *)
(*                                                                          *)
(* A task of the page is an action.  What it awaits - the browser's chooser *)
(* and open, a read, a write, the bytes of a Blob, a close - is in flight   *)
(* in a variable, and anything may happen before it comes back.  The rooms  *)
(* side, which replaces the socket, is an environment here; StockPage puts  *)
(* the page's room client in its place.                                     *)
(*                                                                          *)
(* An adapter stands for one WebSerialTransport, a bridge for one           *)
(* SerialBridge; both are used again when nothing refers to them any more.  *)
(***************************************************************************)
EXTENDS Integers, Sequences, FiniteSets

CONSTANTS
    Adapters,    \* transports there may be
    Sockets,     \* sockets of rooms
    Bridges,     \* bridges, the stopped ones whose writes are under way included
    None,        \* undefined
    MaxBatch,    \* maxBytes: 4096
    MaxFed       \* bound of the model: bytes a bridge takes from its toy

ASSUME LinkAssumption ==
    /\ None \notin Adapters \cup Sockets \cup Bridges
    /\ MaxBatch \in Nat \ {0} /\ MaxFed \in Nat

VARIABLES
    serial, bridge, socket,  \* of the page
    pending,                 \* serialOpenPending
    connecting,              \* is a connectDongle() under way?
    adapter,                 \* of each transport: "closed", "open" or "closing"
    sink, reading,           \* its reader: who gets the bytes, is a read under way?
    closed, on,              \* of each bridge: stopped? its adapter and socket
    batch, timer,            \* its batcher: bytes that wait, is the timer armed?
    fed, sent,               \* history: bytes it was given, bytes it has sent
    writes,                  \* <<bridge, stage>> of peers' messages under way
    open,                    \* the sockets whose open is OPEN
    shown                    \* bridges whose toy's bytes the preview has seen

wires == <<adapter, sink, reading, closed, on>>
batches == <<batch, timer, fed, sent>>
linkVars == <<serial, bridge, socket, pending, connecting, wires, batches,
              writes, open, shown>>

IsOpen(ws) == ws \in open
Stages == {"blob", "write"}

LinkInit ==
    /\ serial = None /\ bridge = None /\ socket = None
    /\ pending = FALSE /\ connecting = FALSE
    /\ adapter = [t \in Adapters |-> "closed"]
    /\ sink = [t \in Adapters |-> None] /\ reading = [t \in Adapters |-> FALSE]
    /\ closed = [b \in Bridges |-> TRUE] /\ on = [b \in Bridges |-> <<None, None>>]
    /\ batch = [b \in Bridges |-> <<>>] /\ timer = [b \in Bridges |-> FALSE]
    /\ fed = [b \in Bridges |-> 0] /\ sent = [b \in Bridges |-> <<>>]
    /\ writes = {} /\ open = {} /\ shown = {}

-----------------------------------------------------------------------------
(* The batcher                                                              *)

\* Faulty variant: what is too much for one frame is left behind.
PushOverflows(b, data, line) ==
    LET full == Len(batch[b]) + Len(data) > MaxBatch
        joined == IF full THEN data ELSE batch[b] \o data
        now == Len(joined) >= MaxBatch \/ line
        frames == IF now THEN joined ELSE <<>>
    IN  /\ sent' = [sent EXCEPT ![b] = @ \o (IF closed[b] THEN <<>> ELSE frames)]
        /\ batch' = [batch EXCEPT ![b] = IF now THEN <<>> ELSE joined]
        /\ timer' = [timer EXCEPT ![b] = ~now]
        /\ shown' = IF frames # <<>> /\ ~closed[b] THEN shown \cup {b} ELSE shown
\* More bytes of the toy: what would overflow a frame is sent first, and a
\* frame that is full or ends a command line does not wait.
Push(b, data, line) ==
    LET full == Len(batch[b]) + Len(data) > MaxBatch
        joined == IF full THEN data ELSE batch[b] \o data
        now == Len(joined) >= MaxBatch \/ line
        frames == (IF full THEN batch[b] ELSE <<>>) \o (IF now THEN joined ELSE <<>>)
    IN  /\ sent' = [sent EXCEPT ![b] = @ \o (IF closed[b] THEN <<>> ELSE frames)]
        /\ batch' = [batch EXCEPT ![b] = IF now THEN <<>> ELSE joined]
        /\ timer' = [timer EXCEPT ![b] = ~now]
        /\ shown' = IF frames # <<>> /\ ~closed[b] THEN shown \cup {b} ELSE shown

\* The timer of a batcher: a frame for a socket that is not open any more, or
\* of a bridge that was stopped, is dropped.
Flush(b) ==
    /\ timer[b]
    /\ LET goes == ~closed[b] /\ IsOpen(on[b][2]) /\ batch[b] # <<>>
       IN  /\ sent' = IF goes THEN [sent EXCEPT ![b] = @ \o batch[b]] ELSE sent
           /\ shown' = IF goes THEN shown \cup {b} ELSE shown
    /\ batch' = [batch EXCEPT ![b] = <<>>] /\ timer' = [timer EXCEPT ![b] = FALSE]
    /\ UNCHANGED <<serial, bridge, socket, pending, connecting, wires, fed, writes, open>>

-----------------------------------------------------------------------------
(* Stopping and starting a bridge                                           *)

\* The page's bridge, if it has one.
Mine == {bridge} \ {None}

\* Faulty variant: the subscription to the adapter's reader is kept.
SinkKept(bs) == sink
\* A bridge that stops ends its own subscription, nobody else's.
SinkWithout(bs) == [t \in Adapters |-> IF sink[t] \in bs THEN None ELSE sink[t]]

Discard(bs) ==
    /\ batch' = [b \in Bridges |-> IF b \in bs THEN <<>> ELSE batch[b]]
    /\ timer' = [b \in Bridges |-> timer[b] /\ b \notin bs]

\* stop() of some bridges.  (The history of those is forgotten.)
Stop(bs) ==
    /\ closed' = [b \in Bridges |-> closed[b] \/ b \in bs]
    /\ sink' = SinkWithout(bs) /\ Discard(bs)
    /\ on' = [b \in Bridges |-> IF b \in bs THEN <<None, None>> ELSE on[b]]
    /\ fed' = [b \in Bridges |-> IF b \in bs THEN 0 ELSE fed[b]]
    /\ sent' = [b \in Bridges |-> IF b \in bs THEN <<>> ELSE sent[b]]

\* No write of a bridge is under way and nothing calls it any more.
Unused(b) ==
    /\ closed[b] /\ b # bridge /\ ~timer[b]
    /\ \A s \in Stages : <<b, s>> \notin writes
    /\ \A t \in Adapters : sink[t] # b

\* A bridge of adapter t and socket ws, in the place of the one there was.  An
\* adapter whose reader still has another subscriber refuses it.
Started(b, t, ws) ==
    LET kept == SinkWithout(Mine)
    IN  /\ Unused(b) /\ bridge' = b
        /\ closed' = [x \in Bridges |-> (closed[x] \/ x \in Mine) /\ x # b]
        /\ sink' = IF kept[t] = None THEN [kept EXCEPT ![t] = b] ELSE kept
        /\ reading' = [reading EXCEPT ![t] = TRUE]
        /\ Discard(Mine \cup {b})
        /\ on' = [x \in Bridges |-> IF x = b THEN <<t, ws>>
                                    ELSE IF x \in Mine THEN <<None, None>> ELSE on[x]]
        /\ fed' = [x \in Bridges |-> IF x \in Mine \cup {b} THEN 0 ELSE fed[x]]
        /\ sent' = [x \in Bridges |-> IF x \in Mine \cup {b} THEN <<>> ELSE sent[x]]

-----------------------------------------------------------------------------
(* The page                                                                 *)

\* The rooms side hands over a socket that has just opened, or takes it away.
SocketHook(next, now) ==
    /\ open' = now /\ socket' = next /\ shown' = {}
    /\ IF serial # None /\ next # None
       THEN \E b \in Bridges : Started(b, serial, next)
       ELSE Stop(Mine) /\ bridge' = None /\ UNCHANGED reading
    /\ UNCHANGED <<serial, pending, connecting, adapter, writes>>

Click ==
    /\ ~pending /\ serial = None /\ pending' = TRUE /\ connecting' = TRUE
    /\ UNCHANGED <<serial, bridge, socket, wires, batches, writes, open, shown>>

\* The dongle is chosen and open; a room that waits for it gets a bridge.
Connected(t) ==
    /\ connecting /\ adapter[t] = "closed" /\ ~reading[t]
    /\ serial' = t /\ adapter' = [adapter EXCEPT ![t] = "open"]
    /\ pending' = FALSE /\ connecting' = FALSE
    /\ IF IsOpen(socket) /\ (bridge = None \/ closed[bridge])
       THEN shown' = {} /\ \E b \in Bridges : Started(b, t, socket)
       ELSE UNCHANGED <<bridge, sink, reading, closed, on, batches, shown>>
    /\ UNCHANGED <<socket, writes, open>>

\* Nothing was chosen, or the port could not be opened.
ConnectFails ==
    /\ connecting /\ connecting' = FALSE /\ pending' = FALSE
    /\ UNCHANGED <<serial, bridge, socket, wires, batches, writes, open, shown>>

\* releaseSerial(), called when the bridges bs have just stopped themselves;
\* the page that has no adapter has nothing to release.
ReleaseSerial(bs) ==
    LET has == serial # None
    IN  /\ Stop(bs \cup (IF has THEN Mine ELSE {}))
        /\ bridge' = IF has THEN None ELSE bridge
        /\ shown' = IF has THEN {} ELSE shown
        /\ adapter' = [t \in Adapters |-> IF t = serial THEN "closing" ELSE adapter[t]]
        /\ serial' = None /\ pending' = (pending \/ has)
        /\ UNCHANGED <<socket, connecting, open>>

\* The button again, or the plug is pulled.
Disconnect == serial # None /\ ~pending /\ ReleaseSerial({}) /\ UNCHANGED <<reading, writes>>
Unplugged == serial # None /\ ReleaseSerial({}) /\ UNCHANGED <<reading, writes>>

\* The port of a released adapter is closed at last.
CloseEnds(t) ==
    /\ adapter[t] = "closing" /\ adapter' = [adapter EXCEPT ![t] = "closed"]
    /\ pending' = FALSE
    /\ UNCHANGED <<serial, bridge, socket, connecting, sink, reading, closed, on, batches,
                   writes, open, shown>>

-----------------------------------------------------------------------------
(* The reader                                                               *)

\* Bytes of the toy go to whoever subscribes now, and to nobody if the room
\* has gone; the reader goes on as long as somebody does.
Read(t, n, line) ==
    LET b == sink[t]
    IN  /\ reading[t] /\ adapter[t] # "closed"
        /\ reading' = [reading EXCEPT ![t] = b # None]
        /\ IF b # None /\ IsOpen(on[b][2])
           THEN /\ fed[b] + n <= MaxFed
                /\ fed' = [fed EXCEPT ![b] = @ + n]
                /\ Push(b, [k \in 1..n |-> fed[b] + k], line)
           ELSE UNCHANGED <<batches, shown>>
        /\ UNCHANGED <<serial, bridge, socket, pending, connecting, adapter, sink, closed, on,
                       writes, open>>

\* The read ends: the device is gone, or the transport was closed under it.
\* Whoever subscribes is stopped and has the page release its adapter.
ReadFails(t) ==
    /\ reading[t] /\ reading' = [reading EXCEPT ![t] = FALSE]
    /\ IF sink[t] = None
       THEN UNCHANGED <<serial, bridge, socket, pending, connecting, adapter, sink, closed, on,
                        batches, open, shown>>
       ELSE ReleaseSerial({sink[t]})
    /\ UNCHANGED writes

-----------------------------------------------------------------------------
(* Messages of the peer                                                     *)

\* A message of the room for the bridge that listens: text is not for the toy,
\* a Blob has to be read first.  (Of each bridge one message at a time is followed.)
Message(b, stage) ==
    /\ ~closed[b] /\ IsOpen(on[b][2]) /\ \A s \in Stages : <<b, s>> \notin writes
    /\ writes' = writes \cup {<<b, stage>>}
    /\ UNCHANGED <<serial, bridge, socket, pending, connecting, wires, batches, open, shown>>

\* Faulty variant: whether the bridge was stopped meanwhile is not asked.
BlobReadBlind(b) ==
    /\ <<b, "blob">> \in writes
    /\ writes' = (writes \ {<<b, "blob">>}) \cup {<<b, "write">>}
    /\ UNCHANGED <<serial, bridge, socket, pending, connecting, wires, batches, open, shown>>
BlobRead(b) ==
    /\ <<b, "blob">> \in writes
    /\ writes' = (writes \ {<<b, "blob">>}) \cup (IF closed[b] THEN {} ELSE {<<b, "write">>})
    /\ UNCHANGED <<serial, bridge, socket, pending, connecting, wires, batches, open, shown>>

\* The adapter has taken the bytes (the preview is shown them, late or not).
Written(b) ==
    /\ <<b, "write">> \in writes /\ writes' = writes \ {<<b, "write">>}
    /\ UNCHANGED <<serial, bridge, socket, pending, connecting, wires, batches, open, shown>>

\* The bytes cannot be read or written: while the bridge lives, the page
\* releases its adapter.
WriteFails(b, s) ==
    /\ <<b, s>> \in writes /\ writes' = writes \ {<<b, s>>}
    /\ IF closed[b]
       THEN UNCHANGED <<serial, bridge, socket, pending, connecting, wires, batches, open, shown>>
       ELSE ReleaseSerial({}) /\ UNCHANGED reading

\* The page is left or loaded anew: the browser closes ports and sockets.
PageGone ==
    /\ serial' = None /\ bridge' = None /\ socket' = None
    /\ pending' = FALSE /\ connecting' = FALSE
    /\ adapter' = [t \in Adapters |-> "closed"]
    /\ sink' = [t \in Adapters |-> None] /\ reading' = [t \in Adapters |-> FALSE]
    /\ closed' = [b \in Bridges |-> TRUE] /\ on' = [b \in Bridges |-> <<None, None>>]
    /\ batch' = [b \in Bridges |-> <<>>] /\ timer' = [b \in Bridges |-> FALSE]
    /\ fed' = [b \in Bridges |-> 0] /\ sent' = [b \in Bridges |-> <<>>]
    /\ writes' = {} /\ open' = {} /\ shown' = {}

-----------------------------------------------------------------------------
\* What the page does whatever the rooms side does.
LinkNext ==
    \/ Click \/ ConnectFails \/ Disconnect \/ Unplugged
    \/ \E t \in Adapters :
          \/ Connected(t) \/ CloseEnds(t) \/ ReadFails(t)
          \/ Read(t, 1, FALSE) \/ Read(t, 2, FALSE) \/ Read(t, 2, TRUE)
    \/ \E b \in Bridges :
          \/ Flush(b) \/ BlobRead(b) \/ Written(b)
          \/ \E s \in Stages : Message(b, s) \/ WriteFails(b, s)

\* The rooms side: a socket opens, is replaced or taken away; one loses its
\* connection, or opens too late; and the peer changes.
Rooms ==
    \/ \E next \in Sockets \cup {None}, now \in SUBSET Sockets :
          (next # None => next \in now) /\ SocketHook(next, now)
    \/ /\ open' \in SUBSET Sockets /\ socket \notin open' \ open
       /\ shown' \in {{}, shown}
       /\ UNCHANGED <<serial, bridge, socket, pending, connecting, wires, batches, writes>>

LinkSpec == LinkInit /\ [][LinkNext \/ Rooms \/ PageGone]_linkVars

-----------------------------------------------------------------------------
(* Properties                                                               *)

\* A bridge that was not stopped is the page's, of its adapter and its socket,
\* and it alone subscribes to a reader: so no attempt to start one is refused,
\* and an error can only release the adapter it happened on.
OneBridge ==
    /\ \A b \in Bridges : ~closed[b] => b = bridge
    /\ \A t \in Adapters : sink[t] # None => t = serial /\ sink[t] = bridge
    /\ bridge # None => /\ serial # None /\ socket # None /\ sink[serial] = bridge
                        /\ on[bridge] = <<serial, socket>> /\ ~closed[bridge]

\* An open adapter and an open socket are joined, whichever came first and
\* whatever failed in between.
Joined == serial # None /\ IsOpen(socket) => bridge # None

\* The dongle is never opened while it is still open or closing: one adapter
\* at a time, and the button is locked exactly while one opens or closes.
OneAdapter ==
    /\ \A t \in Adapters : adapter[t] = "open" <=> t = serial
    /\ \A t, u \in Adapters : adapter[t] # "closed" /\ adapter[u] # "closed" => t = u
    /\ connecting => \A t \in Adapters : adapter[t] = "closed"
    /\ pending <=> connecting \/ \E t \in Adapters : adapter[t] = "closing"

LinkHolds == OneBridge /\ Joined /\ OneAdapter

\* The toy's bytes reach the room in order and none is left behind: what waits
\* has a timer, and nothing waits once the bridge was stopped.
FramesInOrder ==
    \A b \in Bridges :
        /\ timer[b] <=> batch[b] # <<>>
        /\ closed[b] => batch[b] = <<>>
        /\ ~closed[b] /\ IsOpen(on[b][2]) => sent[b] \o batch[b] = [k \in 1..fed[b] |-> k]

\* What the preview was shown of the toy since it was reset came over the
\* bridge there is now.
PreviewIsLive == shown \subseteq {bridge}

ToyBytes == FramesInOrder /\ PreviewIsLive

\* A write begins only while its bridge lives, also after waiting for bytes,
\* and one that fails when its bridge was stopped takes no adapter away: it
\* would be the one connected since.
WritesLive ==
    [][/\ \A b \in Bridges : <<b, "write">> \in writes' \ writes => ~closed'[b]
       /\ \A b \in Bridges, s \in Stages, t \in Adapters :
             <<b, s>> \in writes \ writes' /\ closed[b]
                => ~(adapter[t] = "open" /\ adapter'[t] = "closing")]_linkVars
=============================================================================
