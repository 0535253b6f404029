------------------------------ MODULE Observer ------------------------------
(***************************************************************************)
(* The passive observer of one direction of a toy's stream                  *)
(* (tama-protocol/src/tcp-observer.ts, framing.ts): it is given the bytes   *)
(* that pass, in pieces of any size, and makes command lines and packets    *)
(* of them again.  A chunk is decrypted asynchronously (tcp-crypto.ts);     *)
(* bytes, resets and the peer's commands come in meanwhile.                 *)
(*                                                                          *)
(* The pages watch both directions for their preview; the server's outcome  *)
(* observer also waits for the peer's first ACK before it expects chunks.   *)
(*                                                                          *)
(* A token stands for the bytes of a line, of a CRLF, of a chunk's nonce    *)
(* and header, or of a unit of its payload.  A chunk that is not whole, or  *)
(* was damaged, never passes its checks: the CRC is taken to be perfect.    *)
(*                                                                          *)
(* External: the toy that sends.  It announces a packet, sends its chunks,  *)
(* repeats one that was not acknowledged, and may give up.                  *)
(***************************************************************************)
EXTENDS Integers, Sequences, SequencesExt

CONSTANTS
    CHUNK_MAX_LENGTH,  \* 4096; here, in units of payload
    Lengths,           \* lengths of packets
    MaxLine, Kept,     \* 4096 and 64: what is kept of a buffer without an end of line
    MaxPackets, MaxFaults, MaxResets   \* bounds of the model

VARIABLES
    waitForInitialAck,
    toy,       \* the sender: what it does, its packet, and the next chunk
    wire,      \* tokens on their way
    obs,       \* the observer
    faults,    \* damaged, repeated and given up so far
    clean,     \* history: did the observer see the stream whole since its reset?
    due,       \* history: packets that went by since then
    told       \* history: commands that went by since then

vars == <<waitForInitialAck, toy, wire, obs, faults, clean, due, told>>

Idle == [kind |-> "idle"]
Line(cmd, n) == [t |-> "line", cmd |-> cmd, length |-> n]
Crlf == [t |-> "crlf"]
Junk == [t |-> "junk"]

\* splitPayload: all chunks but the last are full.
Chunks(length) == (length + CHUNK_MAX_LENGTH - 1) \div CHUNK_MAX_LENGTH
ChunkLength(length, k) ==
    IF k = Chunks(length) - 1 THEN length - k * CHUNK_MAX_LENGTH ELSE CHUNK_MAX_LENGTH
\* createChunk, encrypted: chunk k of packet p, its header first.
Chunk(p, length, k, ok) ==
    LET whole == 1 + ChunkLength(length, k)
    IN  [j \in 1..whole |->
            [t |-> "part", p |-> p, k |-> k, j |-> j, ok |-> ok, whole |-> whole,
             last |-> k = Chunks(length) - 1 /\ j = whole]]

NoChunk == [chunk |-> <<>>, epoch |-> 0, phase |-> Idle]
Fresh == [buffer |-> <<>>, phase |-> Idle, awaiting |-> NoChunk, draining |-> FALSE,
          aligned |-> TRUE, epoch |-> 0, resyncs |-> 0, packets |-> <<>>, commands |-> <<>>]

Init ==
    /\ waitForInitialAck \in BOOLEAN
    /\ toy = [does |-> "idle", p |-> 0, length |-> 1, k |-> 0] /\ wire = <<>>
    /\ obs = Fresh /\ faults = 0 /\ clean = TRUE /\ due = <<>> /\ told = <<>>

-----------------------------------------------------------------------------
(* The observer                                                             *)

StartPacket(length) ==
    [kind |-> "receiving", length |-> length, total |-> Chunks(length), next |-> 0, chunks |-> <<>>]

\* The first line of the buffer; a known command is reported as framed only
\* while the observer knows where it is in the stream.
ConsumeCommandLine(o) ==
    LET end == CHOOSE n \in 1..Len(o.buffer) :
                  o.buffer[n] = Crlf /\ \A m \in 1..(n - 1) : o.buffer[m] # Crlf
        raw == SubSeq(o.buffer, 1, end - 1)
        exact == Len(raw) = 1 /\ raw[1].t = "line"
        rest == [o EXCEPT !.buffer = SubSeq(@, end + 1, Len(@)), !.aligned = @ /\ (raw = <<>> \/ exact)]
        cmd == raw[1].cmd
    IN  IF ~exact THEN rest
        ELSE [rest EXCEPT
                !.commands = IF rest.aligned THEN Append(@, cmd) ELSE @,
                !.phase = CASE cmd = "CAN" -> Idle
                            [] cmd = "PKT" /\ waitForInitialAck ->
                                  [kind |-> "request", length |-> raw[1].length]
                            [] cmd = "PKT" /\ ~waitForInitialAck -> StartPacket(raw[1].length)
                            [] OTHER -> @]

\* A buffer that grows without an end of line is cut.
Trimmed(o) ==
    IF Len(o.buffer) <= MaxLine THEN o
    ELSE [o EXCEPT !.aligned = FALSE, !.buffer = SubSeq(@, Len(@) - Kept + 1, Len(@))]

WireLength(o) == 1 + ChunkLength(o.phase.length, o.phase.next)

\* drain(): until it needs more bytes, or awaits the decryption of a chunk.
RECURSIVE Drain(_)
Drain(o) ==
    IF o.phase.kind = "receiving"
    THEN IF Len(o.buffer) < WireLength(o) THEN [o EXCEPT !.draining = FALSE]
         ELSE [o EXCEPT !.draining = TRUE,
                        !.awaiting = [chunk |-> SubSeq(o.buffer, 1, WireLength(o)),
                                      epoch |-> o.epoch, phase |-> o.phase]]
    ELSE IF \E n \in 1..Len(o.buffer) : o.buffer[n] = Crlf
         THEN Drain(ConsumeCommandLine(o))
         ELSE [Trimmed(o) EXCEPT !.draining = FALSE]

\* parseChunk: magic, complement and CRC hold for exactly one undamaged chunk.
Parses(c) ==
    IF \E i \in 1..Len(c) : c[i].t # "part" THEN FALSE
    ELSE /\ c[1].whole = Len(c)
         /\ \A i \in 1..Len(c) : c[i].ok /\ c[i].j = i /\ c[i].p = c[1].p /\ c[i].k = c[1].k

\* Faulty variant: what was awaited is used whatever happened meanwhile.
DecryptedStale(o, parses) ==
    LET a == o.awaiting
        back == [o EXCEPT !.awaiting = NoChunk]
        got == [p |-> a.chunk[1].p, k |-> a.chunk[1].k, from |-> a.epoch]
        used == [back EXCEPT !.buffer = SubSeq(@, Len(a.chunk) + 1, Len(@))]
        whole == Append(a.phase.chunks, got)
    IN  IF ~parses
        THEN [back EXCEPT !.aligned = FALSE, !.resyncs = @ + 1, !.phase = Idle,
                          !.buffer = IF @ = <<>> THEN @ ELSE <<Junk>> \o Tail(@)]
        ELSE IF got.k # a.phase.next THEN used
        ELSE IF a.phase.next + 1 < a.phase.total
        THEN [used EXCEPT !.aligned = TRUE, !.phase = [a.phase EXCEPT !.chunks = whole, !.next = @ + 1]]
        ELSE [used EXCEPT !.aligned = TRUE, !.phase = Idle,
                          !.packets = Append(@, [chunks |-> whole, at |-> o.epoch])]
\* The rest of consumeChunk(), when the decryption is there.  After a reset, or
\* when another packet has begun, it is forgotten; what does not parse costs
\* one byte and the packet; a chunk out of its turn is passed over.
Decrypted(o, parses) ==
    LET a == o.awaiting
        back == [o EXCEPT !.awaiting = NoChunk]
        got == [p |-> a.chunk[1].p, k |-> a.chunk[1].k, from |-> a.epoch]
        used == [back EXCEPT !.buffer = SubSeq(@, Len(a.chunk) + 1, Len(@))]
        whole == Append(a.phase.chunks, got)
    IN  IF a.epoch # o.epoch \/ a.phase # o.phase THEN back
        ELSE IF ~parses
        THEN [back EXCEPT !.aligned = FALSE, !.resyncs = @ + 1, !.phase = Idle,
                          !.buffer = <<Junk>> \o Tail(@)]
        ELSE IF got.k # a.phase.next THEN used
        ELSE IF a.phase.next + 1 < a.phase.total
        THEN [used EXCEPT !.aligned = TRUE, !.phase = [@ EXCEPT !.chunks = whole, !.next = @ + 1]]
        ELSE [used EXCEPT !.aligned = TRUE, !.phase = Idle,
                          !.packets = Append(@, [chunks |-> whole, at |-> o.epoch])]

-----------------------------------------------------------------------------
(* Its handlers                                                             *)

\* The packets and commands that have gone by whole, a history.
Passed(tokens) ==
    LET ends == SelectSeq(tokens, LAMBDA x : IF x.t = "part" THEN x.last ELSE FALSE)
        lines == SelectSeq(tokens, LAMBDA x : x.t = "line")
    IN  /\ due' = due \o [i \in 1..Len(ends) |-> ends[i].p]
        /\ told' = told \o [i \in 1..Len(lines) |-> lines[i].cmd]

Push(n) ==
    /\ n <= Len(wire) /\ wire' = SubSeq(wire, n + 1, Len(wire))
    /\ LET o == [obs EXCEPT !.buffer = @ \o SubSeq(wire, 1, n)]
       IN  obs' = IF o.draining THEN o ELSE Drain(o)
    /\ Passed(SubSeq(wire, 1, n))
    /\ UNCHANGED <<waitForInitialAck, toy, faults, clean>>

Decrypt ==
    /\ obs.awaiting # NoChunk
    /\ obs' = Drain(Decrypted(obs, Parses(obs.awaiting.chunk)))
    /\ UNCHANGED <<waitForInitialAck, toy, wire, faults, clean, due, told>>

\* A new session: nothing that was seen counts.  (What was reported is cleared
\* with it, a history.)
Reset ==
    /\ obs.epoch < MaxResets
    /\ obs' = [obs EXCEPT !.epoch = @ + 1, !.aligned = TRUE, !.buffer = <<>>, !.phase = Idle,
                          !.packets = <<>>, !.commands = <<>>, !.resyncs = 0]
    /\ clean' = (toy.does = "idle" /\ wire = <<>>) /\ due' = <<>> /\ told' = <<>>
    /\ UNCHANGED <<waitForInitialAck, toy, wire, faults>>

\* The peer's ACK goes by in the other direction, after the bytes it answers.
PeerCommand(o) ==
    IF o.phase.kind = "request" THEN [o EXCEPT !.phase = StartPacket(o.phase.length)] ELSE o

-----------------------------------------------------------------------------
(* The toy                                                                  *)

Announce ==
    /\ toy.does = "idle" /\ toy.p < MaxPackets
    /\ \E n \in Lengths :
          /\ toy' = [does |-> "asking", p |-> toy.p + 1, length |-> n, k |-> 0]
          /\ wire' = wire \o <<Line("PKT", n), Crlf>>
    /\ UNCHANGED <<waitForInitialAck, obs, faults, clean, due, told>>

\* The peer has read the announcement, so the observer has been given it.
Acknowledged ==
    /\ toy.does = "asking" /\ wire = <<>> /\ ~obs.draining
    /\ toy' = [toy EXCEPT !.does = "sending"]
    /\ obs' = PeerCommand(obs)
    /\ UNCHANGED <<waitForInitialAck, wire, faults, clean, due, told>>

SendChunk(ok) ==
    /\ toy.does = "sending" /\ (ok \/ faults < MaxFaults)
    /\ wire' = wire \o Chunk(toy.p, toy.length, toy.k, ok)
    /\ toy' = IF toy.k + 1 = Chunks(toy.length) THEN [toy EXCEPT !.does = "idle"]
              ELSE [toy EXCEPT !.k = @ + 1]
    /\ faults' = IF ok THEN faults ELSE faults + 1
    /\ clean' = (clean /\ ok)
    /\ UNCHANGED <<waitForInitialAck, obs, due, told>>

\* A chunk whose acknowledgement was lost comes again.
Resend ==
    /\ toy.does = "sending" /\ toy.k > 0 /\ faults < MaxFaults
    /\ wire' = wire \o Chunk(toy.p, toy.length, toy.k - 1, TRUE)
    /\ faults' = faults + 1 /\ clean' = FALSE
    /\ UNCHANGED <<waitForInitialAck, toy, obs, due, told>>

\* It gives the packet up, and says so or not; or acknowledges a packet of its peer.
GiveUp(says) ==
    /\ toy.does # "idle" /\ faults < MaxFaults
    /\ toy' = [toy EXCEPT !.does = "idle"]
    /\ wire' = wire \o (IF says THEN <<Line("CAN", 0), Crlf>> ELSE <<>>)
    /\ faults' = faults + 1
    /\ clean' = (clean /\ says /\ toy.does = "asking" /\ waitForInitialAck)
    /\ UNCHANGED <<waitForInitialAck, obs, due, told>>
Ack ==
    /\ toy.does = "idle" /\ Len(wire) < 4 /\ Len(told) < 3
    /\ wire' = wire \o <<Line("ACK", 0), Crlf>>
    /\ UNCHANGED <<waitForInitialAck, toy, obs, faults, clean, due, told>>

Next ==
    \/ Decrypt \/ Reset \/ Announce \/ Acknowledged \/ Resend \/ Ack
    \/ \E n \in 1..Len(wire) : Push(n)
    \/ \E b \in BOOLEAN : SendChunk(b) \/ GiveUp(b)

Spec == Init /\ [][Next]_vars

-----------------------------------------------------------------------------
(* Properties                                                               *)

\* A packet that is reported is one the toy sent, with all its chunks in their
\* order and none of another packet, and every byte of it came since the last
\* reset: whatever was damaged, repeated, given up or reset on the way.
PacketsGenuine ==
    \A i \in 1..Len(obs.packets) :
        LET cs == obs.packets[i].chunks
        IN  /\ obs.packets[i].at = obs.epoch
            /\ \A k \in 1..Len(cs) : cs[k].k = k - 1 /\ cs[k].p = cs[1].p /\ cs[k].from = obs.epoch
            /\ \E j \in 1..Len(due) : due[j] = cs[1].p

\* A stream seen whole is decoded whole, however it was cut into pieces: the
\* packets and commands that went by are reported in their order, as soon as
\* nothing is awaited.
CleanIsComplete ==
    clean /\ ~obs.draining =>
        /\ [i \in 1..Len(obs.packets) |-> obs.packets[i].chunks[1].p] = due
        /\ obs.resyncs = 0 /\ obs.aligned
        /\ \/ obs.commands = told
           \/ obs.buffer # <<>> /\ obs.commands = Front(told)
=============================================================================
