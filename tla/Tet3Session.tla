---------------------------- MODULE Tet3Session ----------------------------
(***************************************************************************)
(* The host's end of the serial link to one toy                             *)
(* (tama-protocol/src/tet3-session.ts): a stop-and-wait endpoint with a     *)
(* bounded queue, one pending acknowledgement, a handshake, heartbeats and  *)
(* timeouts.  It talks over a line that loses frames to a toy that may      *)
(* retransmit at any time and may restart under a new nonce.                *)
(*                                                                          *)
(* Framing (tet3.ts) is left out: a damaged frame is a lost one.  A session *)
(* is the toy's nonce XOR the host's own; for one host nonce that is a      *)
(* bijection, so a session is named by the toy's nonce.  Timers are time    *)
(* SINCE the event, counted up to where the code stops looking.             *)
(***************************************************************************)
EXTENDS Integers, Sequences

CONSTANTS
    Data,           \* application messages (types 4..10, 12..15)
    READY, BEAT,    \* type 3 with round 0; type 11
    Nonces,         \* nonces of the toy, one per start
    NoNonce,        \* 0: no session yet
    HostNonce,
    QUEUE_LIMIT,    \* 8
    SEQ_LIMIT,      \* 2^32 - 1
    HELLO_MS, RETRY_MS, BEAT_MS, SILENCE_MS,
    LineLimit,      \* bound of the model: frames a line holds
    ToyLimit        \* bound of the model: messages a toy sends

ASSUME SessionAssumption ==
    /\ READY \notin Data /\ BEAT \notin Data /\ READY # BEAT
    /\ NoNonce \notin Nonces
    /\ QUEUE_LIMIT \in Nat \ {0} /\ SEQ_LIMIT \in Nat
    /\ HELLO_MS \in Nat /\ RETRY_MS \in Nat /\ BEAT_MS \in Nat /\ SILENCE_MS \in Nat
    /\ LineLimit \in Nat /\ ToyLimit \in Nat

Message == Data \cup {READY, BEAT}

VARIABLES
    \* the fields of Tet3Session
    session, ready, error, queue, sequence, received, ack, inFlight,
    sinceRx, sinceHello, sinceTx, sinceBeat,
    \* the toy: its nonce, whether it has seen the host's, what it sent and
    \* got under each nonce, how much of it was acknowledged, its pending ACK
    nonce, linked, toySent, toyGot, toyAcked, toyAck,
    \* frames under way
    toToy, toHost,
    \* history of the host's end
    hostSent, hostGot, acked

timers == <<sinceRx, sinceHello, sinceTx, sinceBeat>>
hostVars == <<session, ready, error, queue, sequence, received, ack, inFlight>>
toyVars == <<nonce, linked, toySent, toyGot, toyAcked, toyAck>>
history == <<hostSent, hostGot, acked>>
vars == <<hostVars, timers, toyVars, toToy, toHost, history>>

Frame ==
    [kind : {"hello"}, nonce : Nonces \cup {HostNonce}]
      \cup [kind : {"ack"}, session : Nonces, seq : Nat]
      \cup [kind : {"msg"}, session : Nonces, seq : Nat, body : Message]

Hello(n) == [kind |-> "hello", nonce |-> n]
AckOf(s, k) == [kind |-> "ack", session |-> s, seq |-> k]
MsgOf(s, k, m) == [kind |-> "msg", session |-> s, seq |-> k, body |-> m]

Init ==
    /\ session = NoNonce /\ ready = FALSE /\ error = FALSE
    /\ queue = <<>> /\ sequence = 0 /\ received = 0 /\ ack = 0 /\ inFlight = FALSE
    /\ sinceRx = 0 /\ sinceHello = HELLO_MS /\ sinceTx = RETRY_MS /\ sinceBeat = BEAT_MS
    /\ nonce \in Nonces /\ linked = FALSE
    /\ toySent = [n \in Nonces |-> <<>>] /\ toyGot = [n \in Nonces |-> <<>>]
    /\ toyAcked = 0 /\ toyAck = 0
    /\ toToy = <<>> /\ toHost = <<>>
    /\ hostSent = <<>> /\ hostGot = <<>> /\ acked = 0

-----------------------------------------------------------------------------
(* Host: enqueue and stop                                                   *)

\* stop: the error is kept, the queue dropped.
Stop ==
    /\ error' = TRUE /\ queue' = <<>>
    /\ UNCHANGED <<session, ready, sequence, received, ack, inFlight>>

\* enqueue of an application message; the room does so once the toy is ready.
Enqueue(m) ==
    /\ ~error /\ ready
    /\ \/ /\ Len(queue) >= QUEUE_LIMIT
          /\ Stop /\ UNCHANGED hostSent
       \/ /\ Len(queue) < QUEUE_LIMIT
          /\ queue' = Append(queue, m) /\ hostSent' = Append(hostSent, m)
          /\ UNCHANGED <<session, ready, error, sequence, received, ack, inFlight>>
    /\ UNCHANGED <<timers, toyVars, toToy, toHost, hostGot, acked>>

\* The room detaches the toy.
Detach ==
    /\ ~error /\ Stop
    /\ UNCHANGED <<timers, toyVars, toToy, toHost, history>>

-----------------------------------------------------------------------------
(* Host: receive, one packet                                                *)

Incoming == Head(toHost)
Took(kind) == ~error /\ toHost # <<>> /\ Incoming.kind = kind /\ toHost' = Tail(toHost)
\* Faulty variant: frames of any session are the host's.
OursAny(f) == session # NoNonce
Ours(f) == session # NoNonce /\ f.session = session

\* HELLO opens the session once; a toy with the host's own nonce is refused.
RefuseOwnNonce ==
    /\ session = NoNonce /\ Incoming.nonce = HostNonce
    /\ Stop /\ UNCHANGED <<sinceRx, hostSent>>
OpenSession ==
    /\ session = NoNonce /\ Incoming.nonce # HostNonce
    /\ session' = Incoming.nonce /\ sinceRx' = 0
    /\ queue' = Append(queue, READY) /\ hostSent' = Append(hostSent, READY)
    /\ UNCHANGED <<ready, error, sequence, received, ack, inFlight>>
RepeatedHello ==
    /\ session # NoNonce
    /\ UNCHANGED <<hostVars, sinceRx, hostSent>>
ReceiveHello ==
    /\ Took("hello")
    /\ RefuseOwnNonce \/ OpenSession \/ RepeatedHello
    /\ UNCHANGED <<sinceHello, sinceTx, sinceBeat, toyVars, toToy, hostGot, acked>>

\* Only the ACK of the frame in flight counts.
\* Faulty variant: any ACK of the session counts while a frame is in flight.
InFlightAckedAny(f) == Ours(f) /\ inFlight
InFlightAcked(f) == Ours(f) /\ inFlight /\ f.seq = sequence
TakeAck ==
    /\ InFlightAcked(Incoming)
    /\ inFlight' = FALSE /\ queue' = Tail(queue) /\ sinceRx' = 0 /\ acked' = acked + 1
    /\ UNCHANGED <<session, ready, error, sequence, received, ack>>
ReceiveAck ==
    /\ Took("ack")
    /\ \/ TakeAck
       \/ ~InFlightAcked(Incoming) /\ UNCHANGED <<hostVars, sinceRx, acked>>
    /\ UNCHANGED <<sinceHello, sinceTx, sinceBeat, toyVars, toToy, hostSent, hostGot>>

DeliverMsg ==
    /\ Ours(Incoming) /\ Incoming.seq = received + 1
    /\ ready' = (ready \/ Incoming.body = READY)
    /\ received' = Incoming.seq /\ ack' = Incoming.seq /\ sinceRx' = 0
    /\ hostGot' = Append(hostGot, Incoming.body)
    /\ UNCHANGED <<session, error, queue, sequence, inFlight>>
\* Faulty variant: a message the toy repeats is taken for a sign of life.
AckOldMsgHeard ==
    /\ Ours(Incoming) /\ Incoming.seq <= received
    /\ ack' = Incoming.seq /\ sinceRx' = 0
    /\ UNCHANGED <<session, ready, error, queue, sequence, received, inFlight, hostGot>>
AckOldMsg ==
    /\ Ours(Incoming) /\ Incoming.seq <= received
    /\ ack' = Incoming.seq
    /\ UNCHANGED <<session, ready, error, queue, sequence, received, inFlight,
                   sinceRx, hostGot>>
IgnoreMsg ==
    /\ ~Ours(Incoming) \/ Incoming.seq > received + 1
    /\ UNCHANGED <<hostVars, sinceRx, hostGot>>
ReceiveMsg ==
    /\ Took("msg")
    /\ DeliverMsg \/ AckOldMsg \/ IgnoreMsg
    /\ UNCHANGED <<sinceHello, sinceTx, sinceBeat, toyVars, toToy, hostSent, acked>>

-----------------------------------------------------------------------------
(* Host: poll.  A heartbeat joins an empty queue first; then one frame goes *)
(* out: the ACK, else HELLO until ready, else the head of the queue.        *)

Silent == session # NoNonce /\ sinceRx > SILENCE_MS
Beats == ready /\ sinceBeat >= BEAT_MS /\ queue = <<>>
Polled == IF Beats THEN <<BEAT>> ELSE queue
Polling ==
    /\ ~error /\ ~Silent
    /\ hostSent' = IF Beats THEN Append(hostSent, BEAT) ELSE hostSent
    /\ sinceBeat' = IF Beats THEN 0 ELSE sinceBeat
    /\ UNCHANGED <<session, ready, received, sinceRx, toyVars, toHost, hostGot, acked>>
SendToToy(f) == Len(toToy) < LineLimit /\ toToy' = Append(toToy, f)
HelloDue == ~ready /\ sinceHello >= HELLO_MS
HeadDue == ack = 0 /\ ~HelloDue /\ session # NoNonce /\ Polled # <<>>

PollSilent ==
    /\ ~error /\ Silent /\ Stop
    /\ UNCHANGED <<timers, toyVars, toToy, toHost, history>>

PollAck ==
    /\ Polling /\ ack # 0
    /\ SendToToy(AckOf(session, ack)) /\ ack' = 0 /\ queue' = Polled
    /\ UNCHANGED <<error, sequence, inFlight, sinceHello, sinceTx>>

PollHello ==
    /\ Polling /\ ack = 0 /\ HelloDue
    /\ SendToToy(Hello(HostNonce)) /\ sinceHello' = 0 /\ queue' = Polled
    /\ UNCHANGED <<error, sequence, ack, inFlight, sinceTx>>

PollFirst ==
    /\ Polling /\ HeadDue /\ ~inFlight /\ sequence # SEQ_LIMIT
    /\ sequence' = sequence + 1 /\ inFlight' = TRUE /\ sinceTx' = 0 /\ queue' = Polled
    /\ SendToToy(MsgOf(session, sequence + 1, Head(Polled)))
    /\ UNCHANGED <<error, ack, sinceHello>>

\* Faulty variant: a retransmission is given a sequence number of its own.
PollAgainNumbered ==
    /\ Polling /\ HeadDue /\ inFlight /\ sinceTx >= RETRY_MS /\ sequence # SEQ_LIMIT
    /\ sequence' = sequence + 1 /\ sinceTx' = 0 /\ queue' = Polled
    /\ SendToToy(MsgOf(session, sequence + 1, Head(Polled)))
    /\ UNCHANGED <<error, ack, inFlight, sinceHello>>

PollAgain ==
    /\ Polling /\ HeadDue /\ inFlight /\ sinceTx >= RETRY_MS
    /\ sinceTx' = 0 /\ queue' = Polled
    /\ SendToToy(MsgOf(session, sequence, Head(Polled)))
    /\ UNCHANGED <<error, sequence, ack, inFlight, sinceHello>>

PollExhausted ==
    /\ Polling /\ HeadDue /\ ~inFlight /\ sequence = SEQ_LIMIT
    /\ error' = TRUE /\ queue' = <<>>
    /\ UNCHANGED <<sequence, ack, inFlight, sinceHello, sinceTx, toToy>>

Poll == PollSilent \/ PollAck \/ PollHello \/ PollFirst \/ PollAgain \/ PollExhausted

\* Time passes; a timer is not counted beyond where it is looked at.
UpTo(t, limit) == IF t < limit THEN t + 1 ELSE t
Clock ==
    /\ ~error
    /\ sinceRx' = UpTo(sinceRx, SILENCE_MS + 1) /\ sinceHello' = UpTo(sinceHello, HELLO_MS)
    /\ sinceTx' = UpTo(sinceTx, RETRY_MS) /\ sinceBeat' = UpTo(sinceBeat, BEAT_MS)
    /\ UNCHANGED <<hostVars, toyVars, toToy, toHost, history>>

-----------------------------------------------------------------------------
(* The toy (external): the mirror image, free to send when it likes.        *)

SendToHost(f) == Len(toHost) < LineLimit /\ toHost' = Append(toHost, f)

ToyHello ==
    /\ SendToHost(Hello(nonce))
    /\ UNCHANGED <<hostVars, timers, toyVars, toToy, history>>

ToyEnqueue(m) ==
    /\ linked /\ Len(toySent[nonce]) < ToyLimit
    /\ m = READY <=> toySent[nonce] = <<>>
    /\ toySent' = [toySent EXCEPT ![nonce] = Append(@, m)]
    /\ UNCHANGED <<hostVars, timers, nonce, linked, toyGot, toyAcked, toyAck,
                   toToy, toHost, history>>

ToySend ==
    /\ toyAcked < Len(toySent[nonce])
    /\ SendToHost(MsgOf(nonce, toyAcked + 1, toySent[nonce][toyAcked + 1]))
    /\ UNCHANGED <<hostVars, timers, toyVars, toToy, history>>

ToyAck ==
    /\ toyAck # 0 /\ toyAck' = 0 /\ SendToHost(AckOf(nonce, toyAck))
    /\ UNCHANGED <<hostVars, timers, nonce, linked, toySent, toyGot, toyAcked,
                   toToy, history>>

ToyIncoming == Head(toToy)
ToyTook(kind) == toToy # <<>> /\ ToyIncoming.kind = kind /\ toToy' = Tail(toToy)
ToyOurs(f) == linked /\ f.session = nonce

ToyReceiveHello ==
    /\ ToyTook("hello") /\ linked' = TRUE
    /\ UNCHANGED <<hostVars, timers, nonce, toySent, toyGot, toyAcked, toyAck, toHost, history>>

ToyReceiveAck ==
    /\ ToyTook("ack")
    /\ toyAcked' = IF ToyOurs(ToyIncoming) /\ ToyIncoming.seq = toyAcked + 1
                   THEN toyAcked + 1 ELSE toyAcked
    /\ UNCHANGED <<hostVars, timers, nonce, linked, toySent, toyGot, toyAck, toHost, history>>

ToyDeliver ==
    /\ ToyOurs(ToyIncoming) /\ ToyIncoming.seq = Len(toyGot[nonce]) + 1
    /\ toyAck' = ToyIncoming.seq
    /\ toyGot' = [toyGot EXCEPT ![nonce] = Append(@, ToyIncoming.body)]
ToyAckOld ==
    /\ ToyOurs(ToyIncoming) /\ ToyIncoming.seq <= Len(toyGot[nonce])
    /\ toyAck' = ToyIncoming.seq /\ UNCHANGED toyGot
ToyIgnore ==
    /\ ~ToyOurs(ToyIncoming) \/ ToyIncoming.seq > Len(toyGot[nonce]) + 1
    /\ UNCHANGED <<toyAck, toyGot>>
ToyReceiveMsg ==
    /\ ToyTook("msg")
    /\ ToyDeliver \/ ToyAckOld \/ ToyIgnore
    /\ UNCHANGED <<hostVars, timers, nonce, linked, toySent, toyAcked, toHost, history>>

\* The toy starts over with a fresh nonce: nothing was exchanged under it.
ToyRestart ==
    /\ \E n \in Nonces \ {nonce} :
          toySent[n] = <<>> /\ toyGot[n] = <<>> /\ session # n /\ nonce' = n
    /\ linked' = FALSE /\ toyAcked' = 0 /\ toyAck' = 0
    /\ UNCHANGED <<hostVars, timers, toySent, toyGot, toToy, toHost, history>>

-----------------------------------------------------------------------------
\* A frame is lost, or damaged and dropped by the parser.
LoseToToy ==
    /\ toToy # <<>> /\ toToy' = Tail(toToy)
    /\ UNCHANGED <<hostVars, timers, toyVars, toHost, history>>
LoseToHost ==
    /\ toHost # <<>> /\ toHost' = Tail(toHost)
    /\ UNCHANGED <<hostVars, timers, toyVars, toToy, history>>

Next ==
    \/ \E m \in Data : Enqueue(m)
    \/ Detach
    \/ ReceiveHello \/ ReceiveAck \/ ReceiveMsg
    \/ Poll \/ Clock
    \/ ToyHello \/ ToySend \/ ToyAck \/ ToyRestart
    \/ \E m \in Data \cup {READY} : ToyEnqueue(m)
    \/ ToyReceiveHello \/ ToyReceiveAck \/ ToyReceiveMsg
    \/ LoseToToy \/ LoseToHost

Spec == Init /\ [][Next]_vars

\* The hub polls every endpoint it holds, and time passes.
FairSpec == Spec /\ WF_vars(Poll) /\ WF_vars(Clock)

-----------------------------------------------------------------------------
(* Properties                                                               *)

\* Every variable keeps its shape.
TypeOK ==
    /\ session \in Nonces \cup {NoNonce} /\ ready \in BOOLEAN /\ error \in BOOLEAN
    /\ queue \in Seq(Message) /\ sequence \in Nat /\ received \in Nat
    /\ ack \in Nat /\ inFlight \in BOOLEAN
    /\ sinceRx \in Nat /\ sinceHello \in Nat /\ sinceTx \in Nat /\ sinceBeat \in Nat
    /\ nonce \in Nonces /\ linked \in BOOLEAN
    /\ toySent \in [Nonces -> Seq(Message)] /\ toyGot \in [Nonces -> Seq(Message)]
    /\ toyAcked \in Nat /\ toyAck \in Nat
    /\ toToy \in Seq(Frame) /\ toHost \in Seq(Frame)
    /\ hostSent \in Seq(Message) /\ hostGot \in Seq(Message) /\ acked \in Nat

IsPrefixOf(s, t) == Len(s) <= Len(t) /\ \A k \in 1..Len(s) : s[k] = t[k]

\* What the toy has taken is a beginning of what the host handed in: nothing
\* skipped, doubled or swapped by losses, retransmissions or a restart.
ToyHearsInOrder ==
    session # NoNonce => IsPrefixOf(toyGot[session], hostSent)

\* What the host has delivered is a beginning of what the toy of its session
\* sent; nothing another start of the toy sent is taken.
HostHearsInOrder ==
    /\ session = NoNonce => hostGot = <<>>
    /\ session # NoNonce => IsPrefixOf(hostGot, toySent[session])

\* A message leaves the queue only after the toy took it: an empty queue means
\* everything was heard.  The match's start barrier rests on this.
AckedMeansHeard ==
    session # NoNonce => acked <= Len(toyGot[session])

\* What is still queued is exactly what was handed in and not acknowledged.
QueueIsUnheard ==
    ~error => /\ Len(queue) = Len(hostSent) - acked
              /\ \A k \in 1..Len(queue) : queue[k] = hostSent[acked + k]

\* No session stays half dead with its queue standing: where messages wait for
\* ever, the toy gets something new across again and again, an ACK that counts
\* or a new message.  Hellos, repeated messages, old ACKs and the frames of
\* another start do not keep a session alive; a toy that goes on sending new
\* messages does, though it never ACKs one.
Waiting == ~error /\ queue # <<>>
NewsFromToy == acked' > acked \/ received' > received
WaitingEnds == <>[]Waiting => []<><<NewsFromToy>>_vars

-----------------------------------------------------------------------------
(* Each direction is a reliable channel, for every nonce the toy may use.   *)

ToToyChannel(n) == INSTANCE FifoChannel WITH
    sent <- IF session = n THEN hostSent ELSE <<>>, got <- toyGot[n]
ToHostChannel(n) == INSTANCE FifoChannel WITH
    sent <- toySent[n], got <- IF session = n THEN hostGot ELSE <<>>

\* \A n \in Nonces : ToToyChannel(n)!Spec, with the quantifier moved inside.
ToToyReliable ==
    (\A n \in Nonces : ToToyChannel(n)!Init) /\ [][\A n \in Nonces : ToToyChannel(n)!Step]_vars
\* The same for ToHostChannel.
ToHostReliable ==
    (\A n \in Nonces : ToHostChannel(n)!Init) /\ [][\A n \in Nonces : ToHostChannel(n)!Step]_vars

=============================================================================
