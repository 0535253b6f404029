------------------------------- MODULE Outcome -------------------------------
(***************************************************************************)
(* What the relay observes of one exchange (tama-protocol/src/              *)
(* playdate-outcome.ts): PlaydateOutcomeObserver is given the bytes of both *)
(* toys in the order they arrive, decodes them later, one piece after the   *)
(* other, and reports how far the toys have come.  It never writes.         *)
(*                                                                          *)
(* A piece stands for a command line or for the last chunk of a packet.     *)
(* Its two decoders (Observer.tla) are reduced to whether they are in a     *)
(* packet and whether they know where they are: a decoder that waits for    *)
(* the rest of a packet its sender gave up takes what comes for chunk bytes *)
(* and loses its place.                                                     *)
(*                                                                          *)
(* External: the toys.  They take turns, announce a packet, send it in      *)
(* chunks each of which is acknowledged, and may cancel at any time.        *)
(***************************************************************************)
EXTENDS Integers, Sequences

CONSTANTS
    MaxQueuedBytes,   \* 1 MiB; here, pieces
    MaxPieces         \* bound of the model

VARIABLES
    exchange,   \* the observer's fields, and its decoders
    queue,      \* the pieces it was given and has not decoded
    transfer,   \* per toy: where the packet it sends is
    saw         \* history of the wire: what really happened

exchangeVars == <<exchange, queue, transfer, saw>>

Sides == {0, 1}
Peer(side) == 1 - side
Commands == {"PKT", "ACK", "CAN", "BREED 0", "BREED 1", "SYNC 2"}
\* A packet's payload: not a result, or a result with its offer to breed.
Payloads == {[result |-> -1, offer |-> FALSE], [result |-> 4, offer |-> FALSE]}
            \cup {[result |-> 0, offer |-> o] : o \in BOOLEAN}

NoPayload == [result |-> -1, offer |-> FALSE]
NoPiece == [side |-> 0, what |-> "none", payload |-> NoPayload]

ExchangeInit ==
    /\ \E activity \in {"playdate", "gift"} :
       exchange = [activity |-> activity, phase |-> "exchanging", pending |-> [s \in Sides |-> FALSE],
                   packetSeen |-> [s \in Sides |-> FALSE], offered |-> FALSE, accepted |-> FALSE,
                   sync2 |-> {}, stopped |-> FALSE, decoding |-> NoPiece,
                   tcp |-> [s \in Sides |-> [phase |-> "idle", aligned |-> TRUE]]]
    /\ queue = <<>>
    /\ transfer = [s \in Sides |-> [at |-> "none", packet |-> NoPayload]]
    /\ saw = [pieces |-> 0, cut |-> {}, unseen |-> FALSE, offer |-> FALSE, bred |-> FALSE, after |-> {}, phase |-> "exchanging"]

-----------------------------------------------------------------------------
(* The observer                                                             *)

\* set(): an interruption is final, and nothing is reported after stop().
SetPhase(e, phase) ==
    IF e.stopped \/ e.phase = "interrupted" THEN e ELSE [e EXCEPT !.phase = phase]

\* Faulty variant: an ACK of the announcement ends the transfer.
CommandAckedEarly(e, side, line) ==
    LET f == [e EXCEPT
                !.pending = IF line = "PKT" THEN [@ EXCEPT ![side] = TRUE]
                            ELSE IF line = "ACK" THEN [@ EXCEPT ![Peer(side)] = FALSE] ELSE @,
                !.packetSeen = IF line = "PKT" THEN [@ EXCEPT ![side] = FALSE] ELSE @,
                !.sync2 = IF line = "SYNC 2" /\ e.accepted THEN @ \cup {side} ELSE @]
    IN  IF e.stopped THEN e
        ELSE CASE line = "CAN" /\ (\E s \in Sides : f.pending[s]) -> SetPhase(f, "interrupted")
               [] line = "BREED 1" /\ e.offered -> SetPhase(f, "breeding")
               [] line = "BREED 0" /\ e.offered -> SetPhase(f, "result-observed")
               [] line = "SYNC 2" /\ f.sync2 = Sides -> SetPhase(f, "settling")
               [] OTHER -> f
\* command(): a packet is pending from its announcement to the ACK of its last chunk.
Command(e, side, line) ==
    LET f == [e EXCEPT
                !.pending = IF line = "PKT" THEN [@ EXCEPT ![side] = TRUE]
                            ELSE IF line = "ACK" /\ e.packetSeen[Peer(side)]
                                 THEN [@ EXCEPT ![Peer(side)] = FALSE] ELSE @,
                !.packetSeen = IF line = "PKT" THEN [@ EXCEPT ![side] = FALSE] ELSE @,
                !.sync2 = IF line = "SYNC 2" /\ e.accepted THEN @ \cup {side} ELSE @]
    IN  IF e.stopped THEN e
        ELSE CASE line = "CAN" /\ (\E s \in Sides : f.pending[s]) -> SetPhase(f, "interrupted")
               [] line = "BREED 1" /\ e.offered -> SetPhase(f, "breeding")
               [] line = "BREED 0" /\ e.offered -> SetPhase(f, "result-observed")
               [] line = "SYNC 2" /\ f.sync2 = Sides -> SetPhase(f, "settling")
               [] OTHER -> f

\* packet(): only results of a playdate count.
Packet(e, side, payload) ==
    LET f == [e EXCEPT !.packetSeen[side] = TRUE]
    IN  IF e.activity # "playdate" \/ payload.result = -1 THEN f
        ELSE IF payload.result = 4
             THEN IF e.offered THEN SetPhase([f EXCEPT !.accepted = TRUE], "breeding") ELSE f
             ELSE SetPhase([f EXCEPT !.offered = payload.offer], "result-observed")

\* A line, in the decoder of its side.  The peer's decoder hears of an ACK.
Line(e, side, line) ==
    LET tcp == e.tcp[side]
        peer == e.tcp[Peer(side)]
        read == [tcp EXCEPT !.phase = CASE line = "PKT" -> "request" [] line = "CAN" -> "idle"
                                        [] OTHER -> @]
        heard == IF line = "ACK" /\ peer.phase = "request"
                 THEN [peer EXCEPT !.phase = "receiving"] ELSE peer
    IN  IF tcp.phase = "receiving" THEN [e EXCEPT !.tcp[side] = [phase |-> "lost", aligned |-> FALSE]]
        ELSE IF tcp.phase = "lost" THEN e
        ELSE IF ~tcp.aligned THEN [e EXCEPT !.tcp[side] = read]
        ELSE Command([e EXCEPT !.tcp = [s \in Sides |-> IF s = side THEN read ELSE heard]], side, line)

\* push(): a piece that would be too much stops the observer, and once stopped
\* it takes none.
Given(side, what, payload) ==
    IF Len(queue) >= MaxQueuedBytes
         THEN exchange' = [exchange EXCEPT !.stopped = TRUE] /\ UNCHANGED queue
         ELSE /\ queue' = Append(queue, [side |-> side, what |-> what, payload |-> payload])
              /\ UNCHANGED exchange

\* The next piece of the queue.  A line is done with at once, the last chunk
\* of a packet is decrypted first.
Decode ==
    /\ queue # <<>> /\ exchange.decoding = NoPiece
    /\ LET piece == Head(queue) IN
          IF exchange.stopped THEN queue' = Tail(queue) /\ UNCHANGED exchange
          ELSE IF piece.what \in Commands
          THEN queue' = Tail(queue) /\ exchange' = Line(exchange, piece.side, piece.what)
          ELSE exchange' = [exchange EXCEPT !.decoding = piece] /\ UNCHANGED queue
    /\ UNCHANGED <<transfer, saw>>
Decrypted ==
    /\ exchange.decoding # NoPiece /\ queue' = Tail(queue)
    /\ LET piece == exchange.decoding
           done == [exchange EXCEPT !.decoding = NoPiece]
       IN  IF exchange.tcp[piece.side].phase = "receiving"
           THEN exchange' = Packet([done EXCEPT !.tcp[piece.side] = [phase |-> "idle", aligned |-> TRUE]],
                                   piece.side, piece.payload)
           ELSE exchange' = done
    /\ UNCHANGED <<transfer, saw>>

\* A decoder that lost its place finds an end of line again.
FindsLine(side) ==
    /\ exchange.tcp[side].phase = "lost"
    /\ exchange' = [exchange EXCEPT !.tcp[side].phase = "idle"]
    /\ UNCHANGED <<queue, transfer, saw>>

\* The lobby is done with this attempt.
Stop ==
    /\ ~exchange.stopped
    /\ exchange' = [exchange EXCEPT !.stopped = TRUE]
    /\ saw' = [saw EXCEPT !.phase = exchange.phase]
    /\ UNCHANGED <<queue, transfer>>

-----------------------------------------------------------------------------
(* The toys                                                                 *)

\* The lobby stops an observer that reports an interruption (lobby.ts:176).
\* `now` is the history with what the piece adds to it.
Passes(side, what, payload, now) ==
    /\ saw.pieces < MaxPieces /\ ~exchange.stopped /\ exchange.phase # "interrupted"
    /\ Given(side, what, payload)
    /\ saw' = [now EXCEPT !.pieces = @ + 1,
                          !.phase = IF Len(queue) >= MaxQueuedBytes THEN exchange.phase ELSE @]

\* The toys differ in nothing: the first to announce a packet is named 0.
Announce(side) ==
    /\ side = 0 \/ saw.pieces > 0
    /\ \A s \in Sides : transfer[s].at = "none"
    /\ \E p \in Payloads : transfer' = [transfer EXCEPT ![side] = [at |-> "asked", packet |-> p]]
    /\ Passes(side, "PKT", NoPayload, saw)

\* The peer acknowledges the announcement, and the last chunk.  An offer that
\* a result withdraws still stands if the observer may have lost its place.
Received(side) ==
    LET packet == transfer[side].packet
    IN  IF transfer[side].at # "sent" THEN saw
        ELSE [saw EXCEPT
                !.bred = @ \/ (packet.result = 4 /\ saw.offer),
                !.offer = IF packet.result = 0 THEN packet.offer \/ (saw.unseen /\ @) ELSE @]
Acknowledge(side) ==
    /\ transfer[side].at \in {"asked", "sent"}
    /\ transfer' = [transfer EXCEPT ![side].at = IF @ = "sent" THEN "none" ELSE "sending"]
    /\ Passes(Peer(side), "ACK", NoPayload, Received(side))

LastChunk(side) ==
    /\ transfer[side].at = "sending"
    /\ transfer' = [transfer EXCEPT ![side].at = "sent"]
    /\ Passes(side, "packet", transfer[side].packet, saw)

\* Either toy cancels, in a transfer or outside of one.
Cancel(side) ==
    /\ transfer' = [s \in Sides |-> [transfer[s] EXCEPT !.at = "none"]]
    /\ Passes(side, "CAN", NoPayload,
              [saw EXCEPT !.cut = IF \E s \in Sides : transfer[s].at # "none" THEN @ \cup {side} ELSE @,
                          !.unseen = @ \/ transfer[side].at = "sending"])

\* An offer is answered; toys synchronise at other times too.
Says(side, what) ==
    /\ what = "SYNC 2" \/ saw.offer
    /\ \A s \in Sides : transfer[s].at = "none"
    /\ Passes(side, what, NoPayload,
              [saw EXCEPT !.after = IF what = "SYNC 2" /\ saw.bred THEN @ \cup {side} ELSE @])
    /\ UNCHANGED transfer

ExchangeNext ==
    \/ Decode \/ Decrypted \/ Stop
    \/ \E side \in Sides :
          \/ FindsLine(side) \/ Announce(side) \/ Acknowledge(side) \/ LastChunk(side) \/ Cancel(side)
          \/ \E what \in {"BREED 0", "BREED 1", "SYNC 2"} : Says(side, what)

ExchangeSpec == ExchangeInit /\ [][ExchangeNext]_exchangeVars

-----------------------------------------------------------------------------
\* What is reported happened on the wire: an interruption only if a transfer
\* was cut, settling only if both toys synchronised after a breeding was
\* agreed, nothing after stop().  And while no transfer was cut, a packet counts
\* as pending exactly while it is under way, so that a CAN between two packets
\* is no interruption and one within a packet is seen, however late the
\* pieces are decoded.
OutcomeTrue ==
    /\ exchange.phase = "interrupted" => saw.cut # {}
    /\ exchange.phase = "settling" => saw.after = Sides
    /\ exchange.stopped => exchange.phase = saw.phase
    /\ ~exchange.stopped /\ queue = <<>> /\ saw.cut = {} =>
          \A s \in Sides : exchange.pending[s] <=> transfer[s].at # "none"
    /\ ~exchange.stopped /\ queue = <<>> /\ saw.cut # {} /\ ~saw.unseen =>
          exchange.phase = "interrupted"
=============================================================================
