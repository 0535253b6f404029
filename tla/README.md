# Paradise Link: specifications, model checks and proofs

This directory holds TLA+ specifications of the Paradise Link relay server, of
the browser pages and of the protocol library they share. Toys (Tamagotchi
Paradise) hang on serial adapters in people's browsers; a server pairs them, or
hosts a match of up to sixteen. What is specified is the code under `src/`; the
toys' firmware is not there, and is modelled only as far as the code can tell.

- [What the system consists of](#inventory)
- [Modules](#modules)
- [Runs](#runs), their bounds and the fairness they assume
- [Proofs](#proofs)
- [Where code and documents disagree](#findings)
- [Not modelled](#not-modelled), and the [plan](#plan)

## Inventory

```
 toy --serial-- browser page --WebSocket-- relay server --WebSocket-- browser page --serial-- toy
                StockLobby, SerialBridge   LobbyHub      (stock rooms, bytes forwarded)
                TcpObserver, scenes        RelayHub      (code-only rooms, bytes forwarded)
                UartChannel / installer    GameRoomHub   (hosted rooms: HostedMatch + one Tet3Session per toy)
                WebSerial / WebUSB
```

| component | state | operations | what makes it correct |
|---|---|---|---|
| hosted match, `tama-protocol/src/hosted-match.ts` | phase, round, seed, wins, alive, winner, deadlines; per seat: connected, prepared, target, garbage id, outbox | start, receive, disconnect, tick | every toy starts the same round with the same seed; nobody is lost uncounted; attacks arrive once and in order; the match ends, once, with the right winner |
| toy session, `tet3-session.ts` | session, ready, error, queue, sequence numbers, pending ACK, timers | enqueue, stop, receive, poll | a reliable channel each way over a lossy line; no message crosses sessions; a silent toy is given up |
| TET3 codec, `tet3.ts`, `crc.ts` | the frame being collected, whether it is discarded | encode, push | a whole frame is returned, whatever came before it |
| stock lobby, `relay-server/src/lobby.ts` | rooms of two seats: members, starter, start prompt, observer, timer, sockets | create, join, joinLegacy, leave, attach, messages, close, sweep | seats are kept through reconnects and freed when abandoned; everyone shows the same room; a start prompt is up only when both can follow it |
| exchange observer, `playdate-outcome.ts`, `tcp-observer.ts`, `framing.ts`, `tcp-crypto.ts` | decoder phase per direction, buffer, alignment, epoch; pending transfers, outcome | push, peer command, reset, stop | only what was on the wire, of the present attempt, is reported and changes the outcome |
| game rooms, `game-rooms.ts` | rooms, members, owner, roster, match, sessions | create, join, leave, attach, adapter, ready, start, reset, tick | the match sees exactly the sessions it began with; there is always an owner who can act |
| relay, `relay.ts`, `sessions.ts` | two role slots per code, byte counters, rows | attach, message, close, flush, touch, expire | the newest socket of a role holds it; bytes are counted once; a room in use does not expire |
| installation, `uart-channel.ts`, `download-sender.ts`, `media-sender.ts`, `game-install-service.ts` | receive buffer, the one reader, record index, retries | read with timeout, send a download, stream or remove music | done is reported only when the toy has everything; no reply is taken for another's |
| serial bridge, `serial-bridge.ts`, `serial-batcher.ts`, `serial-reader.ts`, `stock-link.ts` | page's adapter, bridge and socket; subscription of the reader; batch, timer | connect, release, start, stop, push, flush, write | one bridge of the adapter and the socket there are; bytes in order; nothing written for somebody else |
| room client, `ui/stock-lobby.ts`, `lobby-client.ts` | entry, stored seat, socket, snapshot, lock of the buttons | create, join, leave, reconnect, copy, socket events, render | an event of an old socket changes nothing; a seat the server keeps is not forgotten; both pages ask for what the other expects |
| games page, `games/game-room.ts`, `games/main.ts` | adapter, job, stored seat, socket and its generation, snapshot, bridge, score | connect, install, create, join, leave, reconnect room or toy, socket events, packets | one reads from the adapter; the bridge is of the present socket and adapter; a toy the server counts on is served |
| transports, `transport-webserial.ts`, `transport/*` | port, claimed interfaces, read queue, stream, writer, chip | open, read, write, close | every step that fails gives everything back; no byte is lost or repeated; the chip is set as asked |
| pages, `main.ts`, `gifts.ts`, `ui/scene.ts`, `gift/scene.ts` | what is known of both sides, what is shown | begin a session, handle a packet, show | nothing of an earlier exchange is shown; both pages foretell the same |
| codecs, `ghost*.ts`, `sprite-parser.ts`, `heatshrink-tile.ts`, `play-data.ts`, `gift.ts`, `paradise-chars.ts`, `play-prediction.ts` | none | pure functions | decode undoes encode; nothing is read or drawn outside its bounds |

The components meet in three ways. Inside the server everything is a synchronous
call on one thread: a timer tick of `GameRoomHub` calls the match's tick, which
puts messages into sessions, which the same tick polls; a session's callback
calls the match back; a lost session disconnects its seat in the match. Inside a
page tasks interleave at every await: the lobby hands its socket to the link by a
hook, the link tells the lobby whether there is an adapter, the reader of the
adapter feeds whoever subscribes. Between machines there are WebSockets, in order
and reliable until they close, and serial lines, which lose and damage bytes.

What is hard here: calls that nest into the object they came from (a full outbox
disconnects a seat in the middle of a broadcast); closes of replaced sockets
that arrive late; toys that restart in the middle of a session; timeouts racing
late answers; old clients that are told less than the others; awaits in the
browser across which the port, the room or the exchange changes hands; devices
that fail or go at any step. `PROJECT.json` lists these hazards with their lines
and the properties that cover them.

## Modules

| module | what it is |
|---|---|
| `HostedMatch` | the match of `hosted-match.ts`, one action per call |
| `MatchRules` | what a match promises its players; implemented by `HostedMatch` |
| `Tet3Session` | one session of `tet3-session.ts`, a line and a toy |
| `FifoChannel` | one direction of a reliable link; implemented twice by `Tet3Session` |
| `Tet3Wire` | the frames under the session: `tet3.ts`, byte by byte |
| `Lobby` | one stock room of `lobby.ts` |
| `StockView` | what the pages of the players in that room tell them to do; extends `Lobby` |
| `Observer` | the decoder of one toy's stream: `tcp-observer.ts`, `framing.ts` |
| `Outcome` | the observer of an exchange: `playdate-outcome.ts`, over two decoders |
| `GameRoom` | one hosted or direct room of `game-rooms.ts`, around an abstract match and abstract sessions |
| `Relay` | one code of the relay: `relay.ts`, `sessions.ts` and the routes of `server.ts` |
| `GamePage` | the games page of one browser, around an abstract seat of its room: `games/game-room.ts`, `games/main.ts` |
| `Install` | installations on a toy: `game-install-service.ts`, `serial-reader.ts`, `uart-channel.ts`, `download-sender.ts`, `media-sender.ts` |
| `SerialLink` | a page's adapter, bridge, batcher and reader, with any use of sockets: `stock-link.ts`, `serial-*.ts` |
| `StockPage` | the same with the page's room client: `ui/stock-lobby.ts`, `lobby-client.ts`; implements `SerialLink` |
| `UsbDrivers`, `UsbPort` | the WebUSB adapters: the five drivers, and the port between them, the device and the page |
| `Preview` | what the Playdate and Gift pages show of an exchange: `main.ts`, `gifts.ts`, the scenes, `play-prediction.ts` |
| `GhostCodec`, `SpriteCodec` | pure readers of ghosts, names, gifts, sprites and tiles |
| `HostedMatchProofs`, `MatchRulesProofs`, `Tet3SessionProofs`, `SerialLinkProofs`, `LobbyProofs`, `GameRoomProofs`, `InstallProofs`, `RelayAndPageProofs` | theorems; `LobbyProofs` also has those of `Outcome`, the last those of `Relay`, `GamePage` and `Preview` |
| `Ends`, `ClientParts`, `RoomsByCode` | several components side by side, for one run |
| `MC...` | instances for TLC |

`StockView` extends `Lobby` (a page is a function of what the lobby sent it),
`StockPage` extends `SerialLink` (one page, two halves), `UsbPort` extends
`UsbDrivers`. `GameRoom` abstracts what `HostedMatch` and `Tet3Session` describe,
`Tet3Session` what `Tet3Wire` describes, `Lobby` what `Outcome`, `Outcome` what
`Observer`, and `GamePage` what `GameRoom` and `Install` describe.

A definition whose comment begins with "Faulty variant" is a plausible mistake in
the definition it precedes. No specification uses it; replacing the definition
by it makes TLC report the property that guards against the mistake, so the
variants show that the properties can fail.

### HostedMatch

`match` holds the fields of the class and, per seat, those of `Seat`; `endpoint`
is what the match sees of the sessions (`pending`, `error`, and the messages
handed over); `toy` is what each toy has acknowledged being told.

One call is one action. The code's calls nest: `queue` on a full outbox calls
`disconnect`, which calls `eliminate`, which broadcasts to all seats, and only
then does the outer broadcast loop go on, with the message it had built before.
`Queue`, `Broadcast`, `Eliminate`, `Abort` and `Gone` are operators from a match to a
match, nested as the code is, so that these orders are in the model and not smoothed
over. Each takes as `drop` what `disconnect` does one level further down. A call that
does anything leaves one seat fewer connected, so calls nest at most `N` deep, and
`Drops` builds `disconnect` from the innermost level, which is not reached, outwards.
That it is not reached is proved (`DropsDroppable` asks for as many levels as seats
are connected, and there are `N`).

| action | code |
|---|---|
| `Start` | `start`, with `beginRound`; the roster has been frozen by the hub |
| `Tick` | `tick`: scan for errors, flush, one step of the phase, flush; then the hub's tick stops the sessions of seats that were given up |
| `Clock` | time; `deadline` and `settle` hold the time left |
| `Detach` | `GameRoomHub.detach`, or a session that fails: `disconnect`, and the session is stopped |
| `ReceiveLeave`, `ReceiveReady`, `ReceiveTopOut`, `ReceiveAttack` | the branches of `receive` that do something |
| `Acked`, `Heartbeat` | the session: an ACK takes the head off its queue; an idle session queues a heartbeat |

A toy answers what it knows, and it may know the head of its queue before the
ACK is back (`Knows`). A toy is taken to send READY for the round and seed it
was told, and attacks and top-outs only while it plays, as the SDK's client
does; a toy that sends other things is dropped by `receive`'s guards.

Data is reduced to what behaviour depends on: the loser index in ALIVE and the
garbage column are left out, the 32-bit seed is one of `SEEDS`, and wins are
counters: no seat wins a third round (`NoOvertime` in `MatchRules`, which the match
implements), so the two bits the code has for each are enough.

### MatchRules

Phases, survivors, wins and winner without queues or time. Any number of seats
may be lost in one step, because telling the players of one loss can cost the
next one its place. Its `Finish` may be followed by losses and a forfeit within
the same step for the same reason. `HostedMatch` implements it under the mapping
at the end of that module (`ImplementsRules`), step by step, nested calls included.

The one seat that may die of a nested loss and still be counted among the living is
the winner by forfeit: it is eliminated by the broadcast that tells it of its win, or is
not, and the match is over in either case. So `Losses` keeps the living among the connected
as long as the round goes on, and among the winner when it ends.

### Tet3Session and FifoChannel

The class's fields are variables of the same names. Timestamps become the time
since the event, counted up to where the code stops looking. `receive` is one
action per packet, split by kind; `poll` is one action for each frame it may
send, preceded by the heartbeat that joins an empty queue. A frame that the
parser rejects is a lost frame, so the loss actions stand for noise on the line
as well. The toy's end is the SDK's C code, modelled as the mirror image, free to
send and repeat whenever it likes, and able to restart under a fresh nonce at
any time. Session ids are nonces XORed with the host's; since the host's is fixed
for the life of the object, the model names a session by the toy's nonce.

`hostSent`, `hostGot`, `toySent`, `toyGot` and `acked` are history: they are never
read by the host's actions. With them each direction is shown to implement
`FifoChannel`, for every nonce: what comes out is what went in, once, in order.

`poll` gives a session up when nothing new came for a while, and a new message counts as
news (tet3-session.ts:74): a toy that goes on talking but never ACKs keeps its session,
and what is queued waits for ever. `WaitingEnds` says so: where messages wait for ever, an
ACK that counts or a new message comes again and again. The bound `ToyLimit` on what a toy
sends does no work in it, since a behaviour with news without end satisfies it anyway.

### Tet3Wire

`encodeTet3` and `Tet3Observer` on bytes: the stuffing that keeps 0 for the
delimiter, the limit of a frame, the discarding until the next delimiter. The
stream is cut into pieces anywhere, a frame may lose or change a byte, noise may
come between. Words are one byte instead of four, so a packet has fewer of them
and `FrameLimit` is scaled to it as 40 is to 36 in the code; the checksum is
perfect, that is, different for what the faults here make of a frame.

### Lobby

One room; handlers of the server run one at a time, so a handler is an action,
sweep and broadcast included. `Sweep`, `ResetStart` and `Broadcast` are operators
on the room as they are functions of the code. `open` and `closing` are the
sockets the server has open, and those it has closed and whose close event is
still to come; messages on a closing socket may still arrive. `seen` is what
each client shows, so that "everyone has been told" is a state property, and
`told` is the server's own memory of what an old client was last told
(`peerConnection`). An observer is an identity that is running or stopped;
its outcome arrives some time after the bytes, from whichever attempt it was.
It may also stop itself without a word (`Unwatched`): it drops out when it falls
too far behind, which the code prefers to holding up the exchange.

### StockView

`Role`, `Heading`, `Button` and `StartWindow` are `render` and `updateStartWindow` as
functions of `seen`, the snapshot a page got last. `ScreensAgree` relates two pages
that have the same room before them: one of them starts, never both, an old client
never waits for a press nobody will make, and whoever is told to press B now has
a peer that is told to wait.

### Observer

`obs` is the decoder: buffer, phase, alignment, epoch, and the chunk whose
decryption is awaited with the epoch and phase it was taken in. `Push`, `Reset` and
`PeerCommand` may come while it is awaited; `Decrypted` is what happens after the
await, and `Drain` runs until the next await as the code's loop does. A stream is
tokens: a line with its length, a CRLF, the units of a chunk, junk. A chunk whose
units are not complete and its own does not decrypt, which stands for a checksum
that does not fit. After such a chunk the decoder steps forward by one byte and
looks for a CRLF; what it drops when its buffer grows (4096 and 64 bytes in the
code) is `MaxLine` and `Kept`. The toy, the line, the damage and the history of what
was sent are external.

`clean` says that the decoder was there from a boundary on, at the beginning or
since a reset between packets, and that nothing was damaged or repeated.
Only then is completeness claimed. A repeated chunk of
another length than the one awaited is no harm to the toys but costs the decoder
its place, since it is cut off by the expected length: the comment "Retransmit of
previous chunk or out-of-order; ignore" (tcp-observer.ts:207) holds for chunks
of the same length.

### Outcome

Pieces of both directions are queued behind a promise and decoded one after the
other; `Stop` may come between. The decoder is as far abstracted as the outcome
needs it: idle, waiting for a peer's ACK, receiving, or lost. The toys take turns.
`saw` is history: which transfers were cut, what the toys hold of an offer and of a
breeding, who said SYNC 2 after one, whether a cut was taken for chunk bytes, and what
was reported when the observer stopped. Claimed is: an interruption was one, settling
means that both said so after a breeding was agreed, nothing is reported after a stop,
what is pending is under way, and an interruption that was seen is reported. A decoder
that lost its place may miss that an offer was withdrawn, and believe an acceptance the
toys did not exchange; history says so (`Received`), since the toys' own offer is not
what the observer can go by then. The run's bound of 10 pieces does not get that far (it
takes about 17); the proof did. After a chunk that was damaged `pending` may stay up although
the transfer is over, so a later idle CAN would be reported as an interruption; the
lobby asks for a new attempt then. `OutcomeTrue` speaks of undamaged streams.

### GameRoom

The hub and everything its handlers reach. The match is reduced to its phase, the
seats it counts as connected, and those whose last message has not left its
outbox; the session of a toy to ready, error, and whether messages are pending.
What they do inside of a handler is open as far as `MatchRules` and `Tet3Session`
leave it open: telling one loss may cost more seats (`LoseSeat`), a poll may find
the toy silent. So the code's functions are operators from a room to the set of
rooms it may become, nested as the calls are (`Each`, `InTurn`): `Broadcast` may
close the sockets of slow clients, `Detach` tells the match, `Tick` sweeps, ticks
the match, visits each member and broadcasts.

Hosted and direct rooms are told apart by the field `mode`, as in the code; a run
explores the modes its `Modes` names. A connected toy is numbered by its plug, and `session` remembers with which plugs
the match was started, so that "the same toy" can be said. `told`, `played` and
`talk` are history.

### Relay

One code. `row` and its counters are in the database and outlive `Crash`;
`slot`, `pending` and `lastTouchAt` are the pair in memory, and go with it. The
timer of a pair is `FlushCounters`; it is at most `INTERVAL_MS` late, which
stands for its period and the delay of the event loop. The lobby is there as
far as it competes for codes. A socket is `closing` from the time it is closed
by anybody until its close event, which is when the code hears of it.

### Install

One installation after the other, each loading its files, opening a channel on
the one reader of the port, sending a download and, for music, talking to the
helper it downloaded. `host` holds the local variables of the code's functions
while they are in scope; `pc` is the `await` at which the installation stands, and
an action is what the code does from one `await` to the next. `queue` is the
channel's receive buffer and `reading` says that the reader has a read pending,
which outlives the channel that asked for it.

| action | code |
|---|---|
| `Start`, `LoadFails` | `exclusive`, `load` |
| `Open` | the `UartChannel` constructor, `subscribeSerial`, `clear`, the first PKT |
| `Read` | `pump` and the sink of the channel, with the limit of its buffer |
| `TakeLine` | `lineReply` and `response`: a line, or what is none, during the download |
| `TakeFrame` | `readMediaResponse`, and what `streamMusic` and `removeMusicBank` do next |
| `Timeout` | `read` at its deadline, also with an answer in the buffer; `sendDownload` retries, the music tools give up |
| `Unplug` | a failed read or write; the installation ends in `finally` |
| `LoseToToy`, `LoseToHost` | the line: what was written is lost, or becomes noise |
| `Toy...` | the toy's Download screen and helpers, as far as the code relies on them |

Time is not modelled: any read may run into its deadline at any moment, and so
may one whose answer has come. Noise is a damaged line or frame. It may be
passed over alone or together with what follows, or end the dialogue, as its
bytes happen to be; it does not turn into another valid answer. Sectors and
records are numbers, checksums and encryption are left out. The toy may refuse,
ignore, ask for the record it needs as often as it likes, cancel, and be sent back
to its menu at any moment; it does not acknowledge a record it has not got.

`late` is history: since the line was last cut, the host has gone on, or broken off,
without the answer to what it wrote. From then on an answer may be under way that the
host will take for the answer to something else, since a line says neither which
record nor which installation it answers, and a frame not which installation. Some
properties are stated only while nothing is late, others only while no remover has run;
the comments at each say why.

### SerialLink and StockPage

The variables are those of the page (`serial`, `bridge`, `socket`,
`serialOpenPending`) and, per adapter and bridge, the fields of the objects. An
action is what the code does from one `await` to the next.

| action | code |
|---|---|
| `Click`, `Connected`, `ConnectFails` | the button's handler, before and after the chooser and `open` |
| `Disconnect`, `Unplugged`, `CloseEnds` | `releaseSerial`, up to and after `close` |
| `Started`, `Stop` | `attachBridge`, `SerialBridge.start` and `stop` |
| `Read`, `ReadFails` | `pump`: bytes for the subscriber of this moment |
| `Push`, `Flush`, `Discard` | `SerialBatcher` |
| `Message`, `BlobRead`, `Written`, `WriteFails` | `writePeerBytes`, before and after its two awaits |
| `SocketHook` | the lobby's `hooks.socket` |

In `SerialLink` the rooms side may do whatever the hook allows; `StockPage` puts the
stock lobby there: `Connect`, `Opens`, `Snapshot`, `CloseEvent` and the others are its
handlers and `run()` its lock of the buttons. Sockets open late, drop, and report
their close after their successor opened. `held` is what the server still keeps
for this browser; what may happen to it there is taken from `Lobby`. A reload
(`Reload`, `PageGone`) ends every await and keeps the session storage.

One check that one might expect is not in the code and not in the model: after
`await serial.write` (serial-bridge.ts:82) the bridge does not look again whether
it was closed. On this page it need not: what follows only counts the bytes and shows
them in the preview. On the games page it shows (see Observations).

### GamePage

`client` is the page: the fields of `GameRoom` (the class of the browser) and of
`main.ts`, with what waits on each socket it opened. `member` is the server's seat for
it, reduced to what the page hears of it.

| action | code |
|---|---|
| `Connect`, `Opened`, `JobEnds` | the button and `run()` of `main.ts`, before and after its awaits |
| `Install`, `Subscribes`, `InstallLost` | `install`: the files, the installer as the adapter's reader, its loss |
| `AdapterLost`, `Controls` | the bridge's error callback; `disconnect`, whose `controls()` come when the port is closed |
| `Ask`, `Seated`, `Answered`, `Left`, `Initialized` | `run()` of the room: create, join, leave; `initialize` |
| `ReconnectRoom`, `ReconnectToy`, `Reload` | the action button; `pagehide` and the page that follows |
| `Opens`, `Receive`, `CloseEvent` | the listeners of a socket |
| `FromToy`; `FromPeer`, `WriteEnds` | the bytes that pass a bridge: out in one step, in before and after `await serial.write` |
| `SeatAttach`, `Serve`, `SeatGone`, `Leaves`, ... | the server's side, one step for whatever the hub may do to this seat |

Methods are operators from page to page, because most handlers call several of them:
`controls()` calls `update()`, which calls `syncAdapter()`, which may make a bridge.
The code tells a stale event by a `generation` that `close()` raises; as `close()` also
forgets the socket, an event is of the present generation as long as its socket is
`client.ws`, and the model compares that. Snapshots and controls keep their order on a
socket and may be under way for any time, but for less than a match lasts:
`NextOpened` waits until nothing is under way. `start()` throws when the installer
reads from the adapter; the page then keeps a bridge that is not `live`.

Of the score of a direct room the model keeps which bridge the last packet came
through (`by`), and whether one came through a bridge that had been stopped by then
(`late`). `ScoreOfBridge` claims that the score is of the present bridge unless it is
`late`: making a bridge or giving one up forgets what the one before has shown, and a
write that outlived its bridge is the only way back.

### UsbDrivers and UsbPort

`UsbDrivers` holds what the five drivers do to a chip, request by request: a list
of steps each of which may fail, and the divisors and layouts they compute from
the device they find. `UsbPort` is the port: opening claims the interfaces one
after the other and runs the driver's steps; any step may fail and the plug may go
at any time; closing runs the driver's shutdown, releases and closes, whatever
fails. `queue` holds the transfers under way, `stream` and `wanted` the readable
stream as far as the code uses it: with `highWaterMark: 0` it calls `pull` once for
each read, and again only after an enqueue.

### Preview

`sides` is what is known of each side, `scene` and `lines` what is shown. Each value
carries the session of the preview it came from, which the code does not keep:
`ShownIsCurrent` says that everything shown is of the present one, though
decryption and images arrive when they like. `PagesAgree` compares what the two
pages compute of the same two ghosts (`predictPlayType`, `projectFriendship`) with
the sides exchanged. Items are pictures or unknown; the catalogue is a set. The
Playdate scene does not clear its status text when a session begins; texts are not
modelled.

### GhostCodec and SpriteCodec

Operators in the code's own terms, checked over boundaries: the fields of a ghost
lie apart and inside it, every word of a range is summed once, names end at their
terminator, layers lie on their canvas, run lengths and Heatshrink tiles give back
what an encoder of the same format meant and refuse what is truncated, too long or
padded wrongly, pixels and sheets are where the header puts them. `GhostFields` are
those of type 0, the type the pages draw. An SHS2 tile of a compressed
sprite is told by its first bytes as they lie in the package and never decrypted, even
in an encrypted sprite, and an encrypted run-length tile whose plain bytes begin like
the marker is still read as run lengths: `TilesTaken` builds packages with tiles of each
kind. What is damaged is refused, cut, or filled up. Three things are as the code has
them and easily mistaken: a truncated encrypted tile is padded before it is
decrypted, so its missing pixels come out as 0x53, which `TilesTaken` states; an invalid
entry of a compressed package is skipped and moves the ones after it up; and a 16-bit
sprite has an empty palette and is drawn in the magenta of unknown colours.

### Ends, ClientParts and RoomsByCode

A run costs one state space. Components that do not interact, and each of which
is small, are put side by side: `part` says which of them a behaviour is of, and the
others stay as they begin. `ClientParts` extends `Preview`, so that what the run checks of
the pages is what `PageProofs` proves; the other parts are instances. Nothing is claimed
of their interaction, and each property is of one part. Fairness is asked of the part that runs.

## Runs

Most properties are conjunctions of parts that are named and explained in their
modules; the table names the conjunction.

| run | instance | shows |
|---|---|---|
| `match_overflow` | 3 seats, 1 round, outbox of 2, two garbage ids; one attacker, one leaver, one toy that sends heartbeats | `LivingShown` (of players who are still there, toys show the right ones alive), `RoundHolds` (start barrier, settlement), `GarbageAccounted`, `FinalAgreement`, `ImplementsRules` with overflows nested in broadcasts |
| `match_stale_mask` | the same instance | `MaskAgreement`: violation, see Findings |
| `session` | 2 nonces, with fairness | both channels, `AckedMeansHeard` and `WaitingEnds` (messages wait for ever only at a session that keeps hearing news) on a lossy line and across restarts |
| `lobby_room` | 3 people, 2 observers, 3 connections each | `RoomHolds`, `SeatKept`, `PromptHolds`, `PictureHolds`: seats, prompt, observer, and what everybody shows; `ScreensAgree`: what their pages ask of them |
| `room` | 2 members, hosted or direct, with slow clients and silent toys | from an empty room through a match into the next: `ToysHold` (nobody is handed another toy's seat, session or peer), `SessionPlaysOnce` |
| `room_reset` | 2 members | violation, see Findings |
| `rooms_by_code` | the relay: 3 sockets for 2 roles, 6 units of time, crashes; the games page: 3 sockets and adapters, 2 bridges | `PairRight` (names, roles, notices), `RowRight` (byte counters, expiry); `PageHolds` (page, adapter and seat agree) |
| `install` | 2 installations of any kind, 2 records, 2 sectors, with fairness | `InstallHolds` (done is done, the header comes last, the download is not ahead of a toy that was waited for), `InstallEnds` |
| `ends` | the rules with 3 seats and 4 rounds; a match of 2 seats and 3 rounds; a lobby of 2; a game room of 2 in a match; each of the five adapters; with fairness | `RulesKept`, `PhasesEnd`; `NothingHangs`; `RoomGoesOn`; `UsbRight`, `QuietAfterClose`, `TasksEnd` |
| `stock_page` | 1 adapter, 2 sockets, 2 bridges, 1 seat, with fairness | `LinkHolds`, `ToyBytes`, `WritesLive`, `SeatHolds`, `BusyEnds` |
| `usb_status` | an FTDI adapter, with fairness | violation, see Findings |
| `client_parts` | a stream of 2 packets with 1 fault and 1 reset; an exchange of 10 pieces; 2 sessions of a page; 2 frames with noise; the codecs | `PacketsRight`; `OutcomeTrue`; `ShownIsCurrent`, `PagesAgree`; `WholeFramesArrive`; `CodecsRead` |

`match_overflow` and `match_stale_mask` are one instance: in the one where an older mask
overtakes a newer one, which is the finding (`MaskAgreement`), it is wrong only of
players who are gone. Of those who are still there every toy shows the right ones alive
(`LivingShown`), overflow or not. A property of a part of `ends`, `rooms_by_code` or `client_parts` is about
the state of that part.

Bounds. An outbox of 2 is the least that holds START as well as GO followed by
ALIVE, and small enough that it fills. The code's 32 lets more messages wait: more
masks and attacks of more rivals can be interleaved in it than in two places, and an
overflow takes a slower toy. What is proved of the match does not depend on it; for
`LivingShown`, which is only checked, the limit of two is a limit of what the run
shows. One round reaches a match's end by forfeit and by abort, not by two wins; `ends`
reaches two wins with two seats, and the theorems cover both. A session queue of 2 lets a message wait behind the one in
flight. A frame on a line, with what the two ends may send again, allows a
retransmission to overtake its ACK and frames of an old session to arrive in a
new one. Sequence and garbage limits of 1 to 3 make exhaustion reachable. All
timeouts are 1 or 2 units: the code compares each of them with its own start
only, and their order matters just in the lobby, where the prompt's 8 s are
shorter than the reservation's 60 s. Three people for two seats are enough for a
seat to be lost to a stranger; three connections of a member let a close come
two replacements late. Members are interchangeable, as the sockets of the relay
are; the runs that use that symmetry check no liveness.

In the rooms, `MaxSockets` and `MaxPlugs` leave one replacement beyond what a
match needs, which is what reaches the late close and the toy that was swapped;
`Slow` says whose client or toy may fail to keep up (a slow client is closed, a
silent toy stopped), to keep the number of outcomes of a broadcast small. In `ends`
the game room starts at a match, to look at what follows one; its first state is
one that `room` reaches. In the relay a time to live of 2 units against touches
every 2 and a timer that is at most 1 late is the tightest choice
`RelayAssumption` admits, 6 units see it expire and be renewed, and two bytes each
way tell a flush repeated from one lost. On the games page three sockets and adapters
together let either be replaced, two bridges let the second meet what is left of the
first, one snapshot may be under way when the room says more, and one
write of what the peer sent may be under way, which is enough to outlive its bridge. Of the installation, two attempts, three
transmissions and two records let a download be retried, led back by the toy and
run into either limit; two sectors are the least of which one is written before
the header; a second installation meets what the first left in the buffers, on
the line and on the toy.

On the page one adapter is enough because an adapter is used again once nothing
refers to it, and the theorems need no bound; two sockets and two bridges let
the old one's close, messages and writes come after the new one is there; a batch
of two and three bytes of the toy make a frame overflow. Two openings of a USB port
show what the first left behind, two transfers under way that one is replaced while
another waits, three bytes out that a transfer takes less than it was given. In
`Observer` a chunk of at most two units and packets of one and of five units give
packets of one chunk, of several, and a last chunk that is shorter. Two sessions of
a page and three packets let a packet of the first arrive in the second. Bursts of
noise of 1, 9 and 10 bytes end below, at and beyond the frame limit of `Tet3Wire`.
The codecs are evaluated in every state of the first step; their inputs are the
boundaries listed in the properties.

Fairness. `session` assumes that the hub polls its sessions and that time passes,
and nothing of the toy or the line. `install` assumes that loading ends, which the
timeout of the request sees to, and that deadlines come. In `ends` the match assumes
that the hub's interval timer keeps firing (written out as `TickDue`) and that time passes;
the lobby the sweep interval, the prompt's timer and time; the game room that
the hub's timer fires again while it has something to see to, and time; the USB port
that the browser answers each request to the device, by success or failure, and
runs what awaits the answer: WebUSB settles every promise, also when the device
goes. `stock_page` assumes the timers of the page (the ten seconds of `connect()`,
those of a request) and that the clipboard's promise settles: `BusyEnds` depends on
the latter, since the code has no timeout there. No run assumes anything of a player,
a toy, a socket or a line.

Deadlock is checked where the system never stops: in all others some step is
enabled in all reachable states (a tick, a sweep, a restart). It is switched off in
`install`, which stops after the last installation its bound allows, in `ends` and
`client_parts`, whose parts stop at the bounds of their rounds, packets and openings
(and the codecs at once), and in `usb_status`, after the last byte its bound allows.

## Proofs

TLAPS proves, for every value of the constants:

`MatchRulesProofs`. `TypeCorrect`; `OneWinAtATime`, that an undecided match has no
seat with two wins and a decided one exactly its winner; from it `MatchEndsAtTwoWins`;
`PlayersThere`; both together as `RulesAreKept`, which is what the runs check. These hold of `HostedMatch` too, which implements the rules
(`MatchKeepsRules`).

`HostedMatchProofs`. `RoundsHold`, `AttacksArrive`, `WinnerIsNamed` and `MatchKeepsRules`, for
2 to 16 seats, any limits that let START in, and any number of rounds. The proof has three layers.

- *Calls that nest.* `Onward(h, g, X)` says what a call that may nest promises its
  caller, whatever it meets on the way: rounds, wins, aims and garbage ids stay
  (`SameRound`); the phase stays or ends as it has to (`PhaseMoves`); seats are only
  lost, and those lost in play are counted out (`Counted`); queues grow by messages of `X` and by
  survivors, aborts and the one right FINAL, never by START, GO or an attack (`Fed`),
  and not beyond the limit (`Short`); who is still there is told of a forfeit
  (`Heralded`); a round that is played is played by two at least (`Two`); and an armed
  settlement stays so (`Armed`). It is transitive, and each function of the match
  keeps it if the level below does. `Drop` is such a call, by induction on the number of seats
  that are still connected (`DropsDroppable`). Loops over the seats are functions of the number of
  seats done, whose existence is proved once (`Iterated`).
- *The invariant.* `IInv == Good(match, endpoint, toy)`. The properties speak of what toys
  have heard; that the next message keeps them right depends on all that is on its way.
  `Way` is a toy's session queue followed by its outbox, and `Lines` says of it: before play a
  toy knows the round's seed or START is on its way, and nothing of play is (`Fresh`); from the countdown on
  it has confirmed the seed, no START follows, and the attacks under way are those it has not
  heard, in order (`Ready`); and a FINAL names the winner or a champion (`Honest`). `Naming`
  adds that to a decided match every toy has heard a FINAL or will. `Phased` is
  what the phase says of seats, living and settlement, `Quiet` that before the start there
  were only heartbeats, `Shaped` types and limits. `Good` is a predicate on a match, endpoints and
  toys so that it can be said between the scan, the two flushes and the phase's step of
  one tick.
- *The rules.* `ByRules(h, g)` is a step of `MatchRules` or a stutter, written with the
  fields of two matches; each action is shown to be one from the same lemmas, and `MatchKeepsRules`
  maps it to `Rules!Next`.

`IInv` was model-checked first on two instances. Two statements changed on the way. `FinalAgreement`
once asked that every toy names the host's winner: TLC and the proof agree that it may be the champion instead
(see Observations). `MatchRules!Losses` counted nobody among the living who was lost in
the step, which the winner by forfeit may be.

`Tet3SessionProofs`. `TypeCorrect`, `QueueCorrect`, `ToyInOrder`, `HostInOrder`,
`AckIsHeard`, and the two refinements `ToToyIsChannel` and `ToHostIsChannel`. The
invariants of the specification are not inductive: that the toy's next message is
the right one depends on the frames under way. The inductive invariant is
`IInv == TypeOK /\ HostInv /\ DeliveryInv`.

- `HostInv` is the host alone: before a session nothing was sent or heard
  (`Unopened`); the number in flight is one more than what was acknowledged, or
  equal to it (`Counting`); the queue is what is left (`QueueIsUnheard`).
- `ToToyOK` and `ToHostOK` say of each frame on a line, of this or an older
  session, that it carries the message its number stands for, and that an ACK
  acknowledges only what was got.
- `Heard` and `Delivered` relate the two ends: the toy has got everything the
  host counts as acknowledged and at most one message more; and the same the
  other way.

Each theorem on the invariant has the same shape: a lemma for each group of
actions that it keeps a part of the invariant, combined by cases over `Next`. The
refinements follow from the invariant step by step: a step that delivers a frame
appends exactly the next message. `IInv` was itself model-checked (on the instance
of `session`) before it was proved.

`SerialLinkProofs`. First the link, for any number of sockets, adapters and bridges
and whatever the rooms side does: `LinkIsJoined` and `WritesAreLive`. `LinkHolds`
together with the shape of the state (`LinkInv`) is inductive as it stands: that an
unplugged or failing adapter takes no bridge but its own with it needs that a
reader's subscriber is the page's bridge, and that needs that a bridge is started
only when nothing is subscribed. `BytesAreInOrder` adds the types of the batchers
(`BytesInv`) and needs the link: bytes and frames are always those of the one
bridge that lives, so an overflowing push, the timer and the stop of a bridge
cannot cross; and however a frame is cut, what was sent and what waits are
together what was read.

Then the page: `PageKeepsItsSeat`, from `PageInv`, which adds to `SeatHolds` that
only the current socket can still be opening, that a socket that is losing its
connection is not among the open ones, that the stored seat is the page's own, and
that the form for a new room is only there without one. Last, `PageUsesTheLink`:
every step of the page is a step of the link or leaves its variables alone, so the
page implements `SerialLink`, and `PageIsJoined`, `PageWritesAreLive` and
`PageBytesAreInOrder` follow from the theorems of the link. Here the refinement is
what makes the proof short: the lobby's handlers need not be looked at again.

`LobbyProofs`. `RoomIsHeld`, `PromptIsHeld`, `PictureIsHeld`, the three conjunctions the
run checks, then `ScreensDoAgree`, about what two pages ask of their players, and
`SeatIsKept`, that no step but the four in which a player's seat is given up takes it
away. `IInv == Right(room)`, and `Right` is a predicate on a room so that it can be said of
the rooms between the functions of one handler. Almost every handler ends in
`Broadcast`, which is what makes the clients show the room as it is; before it they do
not. So `Right` is `Prepared /\ Led /\ Shown`:

- `Prepared` is what holds in the middle of a handler too. Who sits where (`Seated`):
  the shape of a room, a seat's sockets being its own, connection numbers only
  growing, an old client having been told what it shows. What stands behind the prompt
  and the observer (`Backed`), and that the observer follows an attempt at most once
  (`Followed`).
- `Led` and `Shown` are what `Broadcast` restores: the starter of a pair is one of the two,
  the guest if a client is old, and what each connected client shows is the room.

There is one lemma for each function of the server (`Sweep`, `ResetStart`, `Broadcast`, the
attach and the close), from `Prepared` to `Prepared` or to `Right`, and the actions are
combinations of them.

Then the observer that a room starts with each attempt: `OutcomeIsTrue`, all of
`OutcomeTrue`, for a queue of any size and an exchange of any length. What the observer
holds is right for the moment up to which it has decoded, and the pieces in its queue lead
from there to now. So `ExchangeInv` says that there is a path (`Path`): a function from
the places in the queue to what the wire was at each, every two of them one piece apart
(`WireStep`), the last one the wire as it is, and the observer right for the first
(`Follows`). A piece on the wire makes the path longer at its end (`PathAppends`), a piece
decoded takes its first moment away (`PathAdvances`), and neither needs to look at the other. The
rest is about one piece and one moment (`FollowsOn`), in two parts:

- `Placed`: one transfer at a time; a decoder that is in a packet is in the one that is
  being sent; one that has lost its place did so in a transfer that was cut unseen, and
  its packet counts as pending and not as seen until it finds the place again; and while
  nothing was cut the decoder is exactly where the packet is.
- `Believes`: the observer believes an offer or an acceptance as soon as it has decrypted
  it, the toys when it is acknowledged, so what it believes is either agreed already
  or in the packet that waits for its ACK; and who it has heard synchronise did so after
  a breeding was agreed.

Once the observer has stopped nothing is claimed of its place, only that the last report
was true. The invariant was model-checked first with a queue of three and up to 40
pieces, and its part about one piece from all states that satisfy it (6 million).

`GameRoomProofs`. `ToysAreHeld` and `SessionsPlayOnce`, for hosted and direct rooms with any
number of members, sockets and toys. A handler of the hub is rarely one step: a tick sweeps
the room, steps the match, visits each member in turn and broadcasts, and at each of
these a slow client may be dropped, its toy detached, the match told, and another member
dropped for what the match then says. Between two handlers the room is `Fine`; within
one it is `Sound(r, X)`, where `X` are the members whose toys the handler is busy with.

- Of everybody, busy or not, `MemberFits`: no socket or plug is one that was never there,
  who is not a member holds nothing, a direct room has no sessions and a hosted one
  no talk of its peers, and a peer's toy is one that is there now.
- Of the others, `ToyFits`: a seat the match counts as connected has a live session with
  the toy the match was started with, on the socket the member has; who is ready is there with a
  live toy; a session is with the toy that is plugged in, and counts the lobby as that toy
  was told; a session that played is the one of the match.
- `MatchFits`, `SocketsFit`, `Listed` relate the parts: whom the match has still to tell
  something is connected to it, no socket is both open and closing, nobody is listed
  twice.

There is one lemma for each function of the hub, which says from which `X` to which it
leads: to close a socket adds its member to those who are busy, `Detach` takes it out
again, `Reset` is busy with all. What a loop over the members computes is a function of
how many it has done (`Iterated`), and what every pass keeps holds at its end (`Climb`).
`RoomInv` was model-checked first, on the instance of `room`, from which most of
`MemberFits` and the sockets in `ToyFits` came.

`InstallProofs`. `TypesHold`, and `InstallIsHeld`, all three parts of `InstallHolds`, for any
number of records, sectors, attempts and installations and lines of any length. They
are far from inductive: that the bank is whole when "done" is shown depends on each
frame under way, in the buffer, or still to be said by a helper, and on what every
earlier installation left behind. `IInv == Shape /\ Kept /\ InStep`.

- `Shape` is types, and that what is under way is something its sender says: a record
  number within the download, a sector within the bank, a frame of some helper.
- `Kept` does without order. As long as no remover ran, a sector that a frame confirms is
  in the bank, so is each below the one the host stands at, and the data of the header
  is under way only over a bank that has all the rest. This survives late answers, lost
  messages and broken installations, because nothing takes a sector away.
- `InStep` holds while nothing is late, removers or not: there is one question or one
  answer at a time between host and toy (`OneAtATime`), and what it may be follows from
  where the two stand (`Inviting`, `Sending` for the download, `Helped` and `InOrder` for
  the helper, who has got as far as the host or exactly one step further). Unplugging
  the adapter restores it, since it empties line and buffers.

`IInv` was model-checked first, on the instance of the run and from toys in any state
with two records and more room in lines and buffers (17 million states). The proof also
corrected the model: an earlier `AheadByLate` bounded the number of records the host was
ahead by a count of late answers, and that turned out to hold only because the buffers
of the run were small.

`RelayAndPageProofs`, the pages. `PageIsHeld`: all of `PageHolds`, for any number of sockets, adapters, bridges,
installations and messages under way. What the page and the server's seat hold of each
other meets only when nothing is under way, so the invariant follows both directions of
the socket. `GamesInv` is `Core`, `Offered` and `Chosen`.

- `Core` holds within a handler too, so that there is one lemma for each method of the page
  (`stop`, `Send`, `releaseAdapter`, `close`, `syncAdapter`, `enter`, `disconnect`) and one for
  each step of the server. The bridge is of the adapter and the socket, and the score of the
  bridge or late (`AdapterFits`); no
  other socket is in use and nothing is said before it is open (`LinesFit`); the last
  snapshot on its way is the seat as it is (`Known`); a page that is still in a match it will
  hear the end of has said nothing since but that it has no adapter (`OneMatch`); and
  without a live bridge the last that was said, or counted, is that there is none
  (`NoneCounted`), from which `SeatServed` follows.
- `Offered` holds between the handlers: an adapter without a bridge is about to be
  bridged by the first snapshot (`OfferedFirst`), or has a reason that stands in the page,
  in the seat and in all that is under way (`OfferedAgain`). It gives `WayBack`.

`ShownIsOfNow`, for any number of exchanges and packets, from `PreviewInv`: what is decoded or
loaded late may be of any exchange (`UnderWay`), what is kept is of the present one
(`Kept`), and a picture is of the offer it stands beside (`Paired`), an image that loads
late being drawn only for the offer it was asked for. `PagesDoAgree` is arithmetic and a case
analysis of `predictPlayType`.

`RelayAndPageProofs`, the relay. `TypeCorrect`, `NamesAreOne`, `CountersCorrect`, `RolesAreHeld`,
`NoticesAreTrue`, `UseKeepsTheRow`, from `IInv == TypeOK /\ NamesOne /\ Membership /\
BytesAccounted /\ TouchedInTime`. `Membership` joins roles and notices, since who must
be told what depends on who holds a role. That a row in use does not expire is not
inductive: `TouchedInTime` adds that the row's time is the pair's last touch, and
that the time since then is bounded by the touch interval and what the timer is
late; from `TOUCH_MS + INTERVAL_MS <= TTL + 1` it follows that the row is active.
The code's 60 s, 1 s and 10 min meet that with a wide margin.

`PairIsRight` and `RowIsRight` join them as the run checks them.

Assumptions are those named in the modules (`MatchAssumption`, `RulesAssumption`,
`SessionAssumption`, `RelayAssumption`, `LinkAssumption`, `SeatsAssumption`,
`LobbyAssumption`, `RoomAssumption`, `InstallAssumption`, `UndefinedIsApart`): limits are natural numbers, a match has 2 to 16 seats
and outboxes of two messages at least, READY and BEAT are no
application messages, the absent nonce is no nonce, nothing is None and undefined
is neither a number, a text nor an object, there are two
attempts to tell apart, a download has a record and a bank a sector, the touches fit
into the time to live.

Only model-checked: `LivingShown`; everything about
`Observer`, `Tet3Wire` and `UsbPort`; the codecs, whose recursion and bit operations
are out of the prover's reach; and all liveness (`NothingHangs` of the lobby and
`InstallEnds` among it), which is ENABLED and fairness.

## Findings

`match_stale_mask`. An elimination that meets a full outbox eliminates that seat
as well, from within the broadcast. The inner broadcast queues the newer mask
for every seat; the outer loop then replaces it, for the seats it has not
reached, by the older mask (hosted-match.ts:186). Once everything has been
acknowledged, a connected toy shows a player alive who is out. It takes an outbox
of 32 waiting messages, hence a toy that acknowledges slowly during heavy attacks.

`room_reset`. A match that ends by a forfeit puts FINAL into its outbox; the next
tick hands it to the session. In these up to 20 ms nothing is pending in any
session, and an owner's reset that arrives then is accepted: the match goes with
its outbox, and the toy that won never hears of it. The code says that a reset
waits "for the final toy acknowledgements" (game-rooms.ts:134).

`usb_status`. The port's stream is created with `highWaterMark: 0`, so it asks for
data once per read. An FTDI chip sends two status bytes with every packet, and a
packet with nothing else whenever its latency timer runs out (the driver sets it to
6 ms). `pull` strips the status bytes and, when nothing is left, enqueues nothing
(webusb-port.ts:129); the stream does not call it again for the same read. The read
stays pending, the transfers behind it fill with the toy's bytes, and whoever reads
from the adapter waits until it is closed. The other four drivers strip
nothing, but a packet of no bytes meets the same early exit (line 122), and in the
model any driver may see one; the run is of an FTDI chip because that one sends
empty packets as a matter of course.

Observations without a run.

- A seat that has just won its second round has won the match, and FINAL with its
  name is queued; if its toy or browser is lost during the three seconds in which the
  result is shown, `disconnect` treats that as a forfeit, and the other seat becomes the
  winner with a second FINAL. `MatchRules` allows it.
- The two FINALs may also come in the wrong order. `finishRound` broadcasts the
  champion's FINAL after RESULT (hosted-match.ts:168). If that FINAL meets full
  outboxes and costs all but one seat their places, the forfeit's FINAL is broadcast
  from within, and the outer loop then queues the champion's behind it for the seat that
  is left (lines 187 and 104): its toy ends by naming the champion although the host
  counts the seat itself as the winner. It takes outboxes of 31 waiting messages at the
  moment the last round is decided. `FinalAgreement` allows it, and nothing more.
- The answers of a download are not matched to what they answer. After a timeout the
  answer to the first transmission acknowledges the second, whose own answer then
  acknowledges the next record: the sender may be ahead of the toy, by one record for
  each answer that came late or was left over by an installation that broke off, until
  the toy asks for the record it needs. `AheadByLate` says that it is never ahead
  while every answer was waited for, across installations and unplugged adapters.
- Nor do the frames of the music tools say which installation they are of. When an
  installation broke off with answers outstanding, a later one may take the frames of the
  earlier helper for its own helper's, and the earlier helper may still carry out what
  it was told. Where a remover has run, "done" may then be reported for a bank that
  is not as it says; `ReportedDone` and `HeaderLast` state how far they hold.
- In a direct room a toy that is reconnected may lose its new bridge to the snapshot of
  the old one's disconnect, although docs/releases/2026-10-17-game-room-modes.md:14 says
  that "Pending disconnect snapshots cannot tear down that fresh bridge before its
  adapter acknowledgement." An adapter is unplugged before the server has answered
  for it, and connected again: disconnect and connect are sent after the first connect,
  a new bridge is made, and the answer to the first connect clears `connectingAdapter`
  (game-room.ts:154), whatever bridge it is of. The answer to the disconnect then stops
  the new bridge (lines 151 and 152), while the server goes on to take its connect and
  counts on an adapter that no bridge serves; the page then shows it as connected and
  offers no reconnection. TLC finds these steps in `GamePage` in a few seconds; of
  the parts of `PageHolds`, `SeatServed` and `WayBack` are stated of hosted rooms only
  because of this.
- A player who starts an installation while the answer to "Create" is on its way
  enters the room with the adapter in the installer's hands. `start()` throws, the page
  keeps a bridge that reads nothing (`live` is false) and `connectingAdapter`, and
  nothing makes another one when the installation is over: only leaving the room,
  reconnecting to it or connecting the adapter again does.
- A write of what the peer sent that is still under way when its bridge is stopped
  reports its bytes all the same (serial-bridge.ts:82 to 84), and the page's callback does not
  ask which bridge they came through (game-room.ts:178 to 196). If the player reconnects
  the toy in between, the score of the new bridge, which was just reset, is set by a
  packet of the old one: a raised round (line 188) then hides what is said of lower
  rounds (line 187). TLC finds it in `GamePage` as soon as `ScoreOfBridge` is stated
  without `late`.

## Not modelled

Of the pages of the games: the countdown, the texts, the choice of a game and the toy's
own mode (`toyMode`), and the game's Ready and Start buttons, which only send what
`GameRoom` takes from any client. `relay-client.ts`, the client of a code-only session.
The public list of rooms and its refreshing, and the countdown that is only drawn
(`readyUntil`) in `ui/stock-lobby.ts`. `transport-websocket.ts`, which nothing here uses.
Packages of several sprites (`parseSpritePackage`) and the texts of flows and
predictions. The rows of the item catalogue and the character tables, which are
data. Texts, nicknames, listings, rate limits, HTTP schemas, logging, drawing. The
limit on the number of rooms, since rooms share nothing else. The firmware.

## Plan

1. Proofs: `PacketsRight`, which needs the decoder of `Observer` without its
   recursion; `LivingShown` from the invariant of the match, and of `MaskAgreement`
   under what condition on the outboxes it holds.
2. `GamePage` joined to `GameRoom`'s room as `StockView` is to `Lobby`, in place of
   its abstract seat, and what its players are asked to do.
3. `UsbRight`: the invariant of a port that opens and closes, for any list of steps a
   driver may have.
