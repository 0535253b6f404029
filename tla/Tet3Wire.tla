------------------------------ MODULE Tet3Wire ------------------------------
(***************************************************************************)
(* The TET3 frame on the serial line (tama-protocol/src/tet3.ts): a packet  *)
(* and its CRC, stuffed (COBS) so that no byte of it is 0, between two      *)
(* zeros; and the observer that takes frames out of a stream of bytes cut   *)
(* into pieces anywhere, with noise, truncated and overlong frames between. *)
(*                                                                          *)
(* The packet is shortened to two words of a byte each, its magic and its   *)
(* CRC to one byte; the CRC is taken to be perfect.  Tet3Session works with *)
(* what this module shows: a frame arrives as it was sent, or not at all.   *)
(***************************************************************************)
EXTENDS Integers, Sequences, SequencesExt

CONSTANTS
    Words,      \* values of a word, 0 among them
    Garbage, Bursts,   \* bytes of noise, and how many come at once
    MaxFrames, MaxFaults, MaxNoise   \* bounds of the model

VARIABLES
    wire,      \* bytes on their way
    encoded, discard,   \* the observer's fields
    got,       \* packets it returned
    carried,   \* history: undamaged frames, each with the bytes up to its end
    passed,    \* history: bytes it was given
    sent, faults, noise   \* counters of the bounds

wireVars == <<wire, encoded, discard, got, carried, passed, sent, faults, noise>>

MAGIC == 84
RawLength == 4         \* 36
FrameLimit == RawLength + 4   \* 40
crc32(words) == 100 + 10 * words[1] + words[2]

\* COBS: a group is a code, the distance to the next zero, and the bytes before it.
encodeTet3(words) ==
    LET raw == <<MAGIC>> \o words \o <<crc32(words)>>
        Stuff(f, byte) ==
            IF byte = 0
            THEN [out |-> [f.out EXCEPT ![f.codeAt] = f.code] \o <<0>>,
                  codeAt |-> Len(f.out) + 1, code |-> 1]
            ELSE [f EXCEPT !.out = Append(@, byte), !.code = @ + 1]
        end == FoldLeft(Stuff, [out |-> <<0, 0>>, codeAt |-> 2, code |-> 1], raw)
    IN  [end.out EXCEPT ![end.codeAt] = end.code] \o <<0>>

Undefined == <<>>
\* left: bytes still to come in the group; a group that is not the first stands after a zero.
decode(bytes) ==
    LET Unstuff(r, byte) ==
            IF r.left > 0 THEN [r EXCEPT !.raw = Append(@, byte), !.left = @ - 1]
            ELSE [raw |-> IF r.first THEN r.raw ELSE Append(r.raw, 0),
                  left |-> byte - 1, first |-> FALSE]
        r == FoldLeft(Unstuff, [raw |-> <<>>, left |-> 0, first |-> TRUE], bytes)
    IN  IF r.left # 0 \/ Len(r.raw) # RawLength THEN Undefined
        ELSE IF r.raw[1] = MAGIC /\ r.raw[4] = crc32(SubSeq(r.raw, 2, 3))
             THEN SubSeq(r.raw, 2, 3) ELSE Undefined

Init ==
    /\ wire = <<>> /\ encoded = <<>> /\ discard = FALSE /\ got = <<>>
    /\ carried = <<>> /\ passed = 0 /\ sent = 0 /\ faults = 0 /\ noise = 0

-----------------------------------------------------------------------------
Observer == [encoded |-> encoded, discard |-> discard, got |-> got]

\* Faulty variant: what follows an overlong frame is discarded with it.
TakeDiscards(o, byte) ==
    IF byte # 0
    THEN IF o.discard THEN o
         ELSE IF Len(o.encoded) = FrameLimit THEN [o EXCEPT !.discard = TRUE]
         ELSE [o EXCEPT !.encoded = Append(@, byte)]
    ELSE LET packet == IF o.discard THEN Undefined ELSE decode(o.encoded)
         IN  [o EXCEPT !.encoded = <<>>,
                       !.got = IF packet # Undefined THEN Append(@, packet) ELSE @]
\* push(), byte by byte.
Take(o, byte) ==
    IF byte # 0
    THEN IF o.discard THEN o
         ELSE IF Len(o.encoded) = FrameLimit THEN [o EXCEPT !.discard = TRUE]
         ELSE [o EXCEPT !.encoded = Append(@, byte)]
    ELSE LET packet == IF o.discard THEN Undefined ELSE decode(o.encoded)
         IN  [encoded |-> <<>>, discard |-> FALSE,
              got |-> IF packet # Undefined THEN Append(o.got, packet) ELSE o.got]

Push(n) ==
    /\ n <= Len(wire) /\ wire' = SubSeq(wire, n + 1, Len(wire))
    /\ LET o == FoldLeft(Take, Observer, SubSeq(wire, 1, n))
       IN  encoded' = o.encoded /\ discard' = o.discard /\ got' = o.got
    /\ passed' = passed + n
    /\ UNCHANGED <<carried, sent, faults, noise>>

\* What is on the wire is not seen before it is pushed: the next bytes are put
\* there when it is empty.
SendFrame(words) ==
    /\ wire = <<>> /\ sent < MaxFrames /\ sent' = sent + 1
    /\ wire' = encodeTet3(words)
    /\ carried' = Append(carried, [words |-> words, upTo |-> passed + Len(encodeTet3(words))])
    /\ UNCHANGED <<encoded, discard, got, passed, faults, noise>>

\* The line loses a byte of the frame, or breaks it off there.
SendDamaged(words, i, rest) ==
    /\ wire = <<>> /\ faults < MaxFaults /\ faults' = faults + 1
    /\ wire' = IF rest THEN RemoveAt(encodeTet3(words), i) ELSE SubSeq(encodeTet3(words), 1, i - 1)
    /\ UNCHANGED <<encoded, discard, got, carried, passed, sent, noise>>

Noise(byte, n) ==
    /\ wire = <<>> /\ noise < MaxNoise /\ noise' = noise + 1
    /\ wire' = [i \in 1..n |-> byte]
    /\ UNCHANGED <<encoded, discard, got, carried, passed, sent, faults>>

Next ==
    \/ \E n \in 1..Len(wire) : Push(n)
    \/ \E words \in [1..2 -> Words] :
          \/ SendFrame(words)
          \/ \E i \in 2..(RawLength + 2), rest \in BOOLEAN : SendDamaged(words, i, rest)
    \/ \E byte \in Garbage, n \in Bursts : Noise(byte, n)

Spec == Init /\ [][Next]_wireVars

-----------------------------------------------------------------------------
\* Exactly the undamaged frames come out, in their order and as soon as their
\* last byte is there, whatever the values of their bytes and whatever noise,
\* damaged and overlong frames go before them, and however the stream is cut.
WholeFramesArrive ==
    LET there == SelectSeq(carried, LAMBDA f : f.upTo <= passed)
    IN  got = [i \in 1..Len(there) |-> there[i].words]
=============================================================================
