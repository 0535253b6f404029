---------------------------- MODULE ClientParts ----------------------------
(***************************************************************************)
(* What the browser does with the bytes of a toy, part by part: the decoder *)
(* of a toy's stream, the frames of TET3, the outcome of an exchange (which  *)
(* the relay follows with the same code), what the Playdate and Gift pages  *)
(* show, and the pure decoders of ghosts and sprites.                       *)
(*                                                                          *)
(* The parts do not interact; a behaviour is one of one of them, which      *)
(* `part` names, and the others stay as they begin.  The pages (Preview)    *)
(* and the outcome of an exchange (Outcome) are extended by this module,    *)
(* the other parts are instances.                                           *)
(***************************************************************************)
EXTENDS Preview, Outcome

CONSTANTS
    CHUNK_MAX_LENGTH, Lengths, MaxLine, Kept, StreamPackets, StreamFaults, MaxResets,   \* of Observer
    Words, Garbage, Bursts, MaxFrames, FrameFaults, MaxNoise,                           \* of Tet3Wire
    MAX_DECOMPRESSED                                                                    \* of SpriteCodec

VARIABLES
    part,
    waitForInitialAck, toy, line, obs, damaged, clean, due, told,
    wire, encoded, discard, decoded, carried, passed, sent, faults, noise

T == INSTANCE Observer WITH
    wire <- line, faults <- damaged, MaxPackets <- StreamPackets, MaxFaults <- StreamFaults
W == INSTANCE Tet3Wire WITH got <- decoded, MaxFaults <- FrameFaults
Ghosts == INSTANCE GhostCodec
Sprites == INSTANCE SpriteCodec

streamVars == <<waitForInitialAck, toy, line, obs, damaged, clean, due, told>>
wireVars == <<wire, encoded, discard, decoded, carried, passed, sent, faults, noise>>
clientVars == <<part, streamVars, exchangeVars, previewVars, wireVars>>

\* Of a part that does not run one initial state will do.
ClientInit ==
    /\ part \in {"stream", "outcome", "page", "wire", "codec"}
    /\ T!Init /\ ExchangeInit /\ Init /\ W!Init
    /\ part # "stream" => waitForInitialAck
    /\ part # "outcome" => exchange.activity = "gift"
    /\ part # "page" => page = "gift"

StreamStep == part = "stream" /\ T!Next /\ UNCHANGED <<part, exchangeVars, previewVars, wireVars>>
OutcomeStep == part = "outcome" /\ ExchangeNext /\ UNCHANGED <<part, streamVars, previewVars, wireVars>>
PageStep == part = "page" /\ Next /\ UNCHANGED <<part, streamVars, exchangeVars, wireVars>>
WireStep == part = "wire" /\ W!Next /\ UNCHANGED <<part, streamVars, exchangeVars, previewVars>>

ClientNext == StreamStep \/ OutcomeStep \/ PageStep \/ WireStep

ClientSpec == ClientInit /\ [][ClientNext]_clientVars

-----------------------------------------------------------------------------
(* Properties                                                               *)

\* TcpObserver: a packet that is reported is the one that was sent, and of a
\* stream that was whole since the last reset every packet is.
PacketsRight == part = "stream" => T!PacketsGenuine /\ T!CleanIsComplete

\* Tet3Observer: a frame that arrives whole after a delimiter is returned.
WholeFramesArrive == part = "wire" => W!WholeFramesArrive

\* Ghosts, gifts and sprites are read as they were written.  Of what is damaged or
\* cut off the reader refuses the whole, or yields a beginning and fills the rest:
\* nothing is read from somewhere else.  An SHS2 tile is told by its bytes in the
\* package, so that the encryption of its sprite does not touch it.
CodecsRead == part = "codec" => Ghosts!GhostsRead /\ Sprites!SpritesRead
=============================================================================
