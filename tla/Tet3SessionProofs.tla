------------------------- MODULE Tet3SessionProofs -------------------------
(***************************************************************************)
(* The serial link, proved for every number of messages, frames, restarts   *)
(* and for every setting of the limits and timers.                          *)
(***************************************************************************)
EXTENDS Tet3Session, TLAPS

LEMMA HeadTail ==
    ASSUME NEW S, NEW q \in Seq(S), q # <<>>
    PROVE  /\ Head(q) \in S /\ Head(q) = q[1] /\ Tail(q) \in Seq(S)
           /\ Len(q) \in Nat \ {0} /\ Len(Tail(q)) = Len(q) - 1
           /\ \A k \in 1..Len(Tail(q)) : Tail(q)[k] = q[k + 1]
  OBVIOUS

LEMMA AppendFacts ==
    ASSUME NEW S, NEW q \in Seq(S), NEW e \in S
    PROVE  /\ Append(q, e) \in Seq(S) /\ Len(Append(q, e)) = Len(q) + 1
           /\ \A k \in 1..Len(q) : Append(q, e)[k] = q[k]
           /\ Append(q, e)[Len(q) + 1] = e
  OBVIOUS

LEMMA Messages == READY \in Message /\ BEAT \in Message /\ \A m \in Data : m \in Message
  BY DEF Message

\* A frame the host or the toy puts on a line is a frame.
LEMMA Frames ==
    /\ \A n \in Nonces \cup {HostNonce} : Hello(n) \in Frame
    /\ \A s \in Nonces, k \in Nat : AckOf(s, k) \in Frame
    /\ \A s \in Nonces, k \in Nat, m \in Message : MsgOf(s, k, m) \in Frame
  BY DEF Hello, AckOf, MsgOf, Frame

LEMMA FrameKinds ==
    ASSUME NEW f \in Frame
    PROVE  /\ f.kind \in {"hello", "ack", "msg"}
           /\ f.kind = "hello" => f.nonce \in Nonces \cup {HostNonce}
           /\ f.kind # "hello" => f.session \in Nonces /\ f.seq \in Nat
           /\ f.kind = "msg" => f.body \in Message
  BY DEF Frame

-----------------------------------------------------------------------------
(* The host's own bookkeeping: nothing happens before the session opens,    *)
(* sequence numbers count acknowledgements, the queue is what is handed in  *)
(* and not acknowledged, and received counts deliveries.                    *)

Unopened ==
    session = NoNonce =>
        /\ ~ready /\ ~inFlight /\ sequence = 0 /\ received = 0 /\ ack = 0 /\ acked = 0
        /\ queue = <<>> /\ hostSent = <<>> /\ hostGot = <<>>
Counting ==
    /\ sequence = acked + (IF inFlight THEN 1 ELSE 0)
    /\ sequence <= Len(hostSent)
    /\ received = Len(hostGot) /\ ack <= received
HostInv == Unopened /\ Counting /\ QueueIsUnheard

-----------------------------------------------------------------------------
(* Type correctness                                                         *)

LEMMA IncomingFrame ==
    ASSUME TypeOK, toHost # <<>>
    PROVE  /\ Incoming \in Frame /\ Incoming = toHost[1] /\ 1 \in 1..Len(toHost)
           /\ Incoming.kind \in {"hello", "ack", "msg"}
           /\ Incoming.kind = "hello" => Incoming.nonce \in Nonces \cup {HostNonce}
           /\ Incoming.kind # "hello" => Incoming.session \in Nonces /\ Incoming.seq \in Nat
           /\ Incoming.kind = "msg" => Incoming.body \in Message
           /\ Tail(toHost) \in Seq(Frame)
  BY HeadTail, FrameKinds DEF TypeOK, Incoming

LEMMA ToyIncomingFrame ==
    ASSUME TypeOK, toToy # <<>>
    PROVE  /\ ToyIncoming \in Frame /\ ToyIncoming = toToy[1] /\ 1 \in 1..Len(toToy)
           /\ ToyIncoming.kind # "hello" => ToyIncoming.session \in Nonces /\ ToyIncoming.seq \in Nat
           /\ ToyIncoming.kind = "msg" => ToyIncoming.body \in Message
           /\ Tail(toToy) \in Seq(Frame)
  BY HeadTail, FrameKinds DEF TypeOK, ToyIncoming

LEMMA QueueInFlight ==
    ASSUME TypeOK, HostInv, ~error, inFlight
    PROVE  /\ queue # <<>> /\ Len(queue) > 0 /\ Tail(queue) \in Seq(Message)
           /\ Len(Tail(queue)) = Len(queue) - 1
           /\ \A k \in 1..Len(Tail(queue)) : Tail(queue)[k] = queue[k + 1]
<1>1. Len(queue) > 0 /\ queue # <<>>
  BY DEF TypeOK, HostInv, Counting, QueueIsUnheard
<1> QED
  BY <1>1, HeadTail DEF TypeOK

LEMMA TypeStepHost ==
    ASSUME TypeOK, HostInv, \/ \E m \in Data : Enqueue(m)
                            \/ Detach \/ ReceiveHello \/ ReceiveAck \/ ReceiveMsg
    PROVE  TypeOK'
<1> USE SessionAssumption, Messages DEF TypeOK
<1>1. ASSUME NEW m \in Data, Enqueue(m) PROVE TypeOK'
  <2>1. Append(queue, m) \in Seq(Message) /\ Append(hostSent, m) \in Seq(Message)
    BY AppendFacts
  <2>2. queue' \in Seq(Message) /\ hostSent' \in Seq(Message) /\ error' \in BOOLEAN
    <3>1. CASE Stop /\ UNCHANGED hostSent
      BY <3>1 DEF Stop
    <3>2. CASE /\ queue' = Append(queue, m) /\ hostSent' = Append(hostSent, m)
               /\ UNCHANGED error
      BY <2>1, <3>2
    <3> QED
      BY <1>1, <3>1, <3>2 DEF Enqueue
  <2> QED
    BY <1>1, <2>2 DEF Enqueue, Stop, timers, toyVars
<1>2. CASE Detach
  BY <1>2 DEF Detach, Stop, timers, toyVars, history
<1>3. CASE ReceiveHello
  <2>1. /\ toHost' \in Seq(Frame) /\ Incoming.nonce \in Nonces \cup {HostNonce}
    BY <1>3, IncomingFrame DEF ReceiveHello, Took
  <2>2. CASE RefuseOwnNonce
    BY <1>3, <2>1, <2>2 DEF ReceiveHello, RefuseOwnNonce, Stop, toyVars
  <2>3. CASE OpenSession
    <3>1. Append(queue, READY) \in Seq(Message) /\ Append(hostSent, READY) \in Seq(Message)
      BY AppendFacts
    <3>2. queue' \in Seq(Message) /\ hostSent' \in Seq(Message) /\ session' \in Nonces
      BY <2>1, <2>3, <3>1 DEF OpenSession
    <3>3. /\ sinceRx' = 0
          /\ UNCHANGED <<ready, error, sequence, received, ack, inFlight, sinceHello, sinceTx,
                         sinceBeat, nonce, linked, toySent, toyGot, toyAcked, toyAck, toToy,
                         hostGot, acked>>
      BY <1>3, <2>3 DEF ReceiveHello, OpenSession, toyVars
    <3> QED
      BY <2>1, <3>2, <3>3
  <2>4. CASE RepeatedHello
    BY <1>3, <2>1, <2>4 DEF ReceiveHello, RepeatedHello, hostVars, toyVars
  <2> QED
    BY <1>3, <2>2, <2>3, <2>4 DEF ReceiveHello
<1>4. CASE ReceiveAck
  <2>1. toHost' \in Seq(Frame)
    BY <1>4, IncomingFrame DEF ReceiveAck, Took
  <2>2. CASE TakeAck
    <3>1. Tail(queue) \in Seq(Message)
      BY <1>4, <2>2, QueueInFlight DEF ReceiveAck, Took, TakeAck, InFlightAcked
    <3>2. /\ sinceRx' = 0 /\ acked' = acked + 1 /\ inFlight' = FALSE /\ queue' = Tail(queue)
          /\ UNCHANGED <<session, ready, error, sequence, received, ack, sinceHello, sinceTx,
                         sinceBeat, nonce, linked, toySent, toyGot, toyAcked, toyAck, toToy,
                         hostSent, hostGot>>
      BY <1>4, <2>2 DEF ReceiveAck, TakeAck, toyVars
    <3>3. queue' \in Seq(Message) /\ inFlight' \in BOOLEAN /\ sinceRx' \in Nat
      BY <3>1, <3>2
    <3>4. acked' \in Nat
      <4>1. acked \in Nat /\ acked' = acked + 1
        BY <3>2
      <4> HIDE DEF TypeOK
      <4> QED
        BY <4>1
    <3> QED
      BY <2>1, <3>2, <3>3, <3>4
  <2>3. CASE UNCHANGED <<hostVars, sinceRx, acked>>
    BY <1>4, <2>1, <2>3 DEF ReceiveAck, hostVars, toyVars
  <2> QED
    BY <1>4, <2>2, <2>3 DEF ReceiveAck
<1>5. CASE ReceiveMsg
  <2>1. /\ toHost' \in Seq(Frame) /\ Incoming.seq \in Nat /\ Incoming.body \in Message
    BY <1>5, IncomingFrame DEF ReceiveMsg, Took
  <2>2. CASE DeliverMsg
    <3>1. Append(hostGot, Incoming.body) \in Seq(Message)
      BY <2>1, AppendFacts
    <3> QED
      BY <1>5, <2>1, <2>2, <3>1 DEF ReceiveMsg, DeliverMsg, toyVars
  <2>3. CASE AckOldMsg
    BY <1>5, <2>1, <2>3 DEF ReceiveMsg, AckOldMsg, toyVars
  <2>4. CASE IgnoreMsg
    BY <1>5, <2>1, <2>4 DEF ReceiveMsg, IgnoreMsg, hostVars, toyVars
  <2> QED
    BY <1>5, <2>2, <2>3, <2>4 DEF ReceiveMsg
<1> QED
  BY <1>1, <1>2, <1>3, <1>4, <1>5

LEMMA TypeStepPoll == ASSUME TypeOK, HostInv, Poll \/ Clock PROVE TypeOK'
<1> USE SessionAssumption, Messages DEF TypeOK
<1>1. CASE PollSilent
  BY <1>1 DEF PollSilent, Stop, timers, toyVars, history
<1>2. ASSUME Polling PROVE
        /\ Polled \in Seq(Message) /\ hostSent' \in Seq(Message) /\ sinceBeat' \in Nat
        /\ Beats => Polled # <<>>
  <2>1. <<BEAT>> \in Seq(Message) /\ Append(hostSent, BEAT) \in Seq(Message)
    BY AppendFacts
  <2> QED
    BY <1>2, <2>1 DEF Polling, Polled, Beats
<1>3. CASE PollAck
  <2>1. session \in Nonces
    BY <1>3 DEF PollAck, HostInv, Unopened
  <2>2. toToy' \in Seq(Frame)
    BY <1>3, <2>1, Frames, AppendFacts DEF PollAck, SendToToy
  <2> QED
    BY <1>2, <1>3, <2>2 DEF PollAck, Polling, toyVars
<1>4. CASE PollHello
  <2>1. toToy' \in Seq(Frame)
    BY <1>4, Frames DEF PollHello, SendToToy
  <2> QED
    BY <1>2, <1>4, <2>1 DEF PollHello, Polling, toyVars
<1>5. CASE PollFirst
  <2>1. Polled \in Seq(Message) /\ Polled # <<>> /\ session \in Nonces
    BY <1>2, <1>5 DEF PollFirst, HeadDue
  <2>2. Head(Polled) \in Message
    BY <2>1, HeadTail
  <2>3. toToy' \in Seq(Frame)
    BY <1>5, <2>1, <2>2, Frames DEF PollFirst, SendToToy
  <2> QED
    BY <1>2, <1>5, <2>3 DEF PollFirst, Polling, toyVars
<1>6. CASE PollAgain
  <2>1. Polled \in Seq(Message) /\ Polled # <<>> /\ session \in Nonces
    BY <1>2, <1>6 DEF PollAgain, HeadDue
  <2>2. Head(Polled) \in Message
    BY <2>1, HeadTail
  <2>3. toToy' \in Seq(Frame)
    BY <1>6, <2>1, <2>2, Frames DEF PollAgain, SendToToy
  <2> QED
    BY <1>2, <1>6, <2>3 DEF PollAgain, Polling, toyVars
<1>7. CASE PollExhausted
  BY <1>2, <1>7 DEF PollExhausted, Polling, toyVars
<1>8. CASE Clock
  <2>1. sinceRx' \in Nat /\ sinceHello' \in Nat /\ sinceTx' \in Nat /\ sinceBeat' \in Nat
    BY <1>8 DEF Clock, UpTo
  <2> QED
    BY <1>8, <2>1 DEF Clock, hostVars, toyVars, history
<1> QED
  BY <1>1, <1>3, <1>4, <1>5, <1>6, <1>7, <1>8 DEF Poll

LEMMA TypeStepToy ==
    ASSUME TypeOK, HostInv,
           \/ ToyHello \/ ToySend \/ ToyAck \/ ToyRestart
           \/ \E m \in Data \cup {READY} : ToyEnqueue(m)
           \/ ToyReceiveHello \/ ToyReceiveAck \/ ToyReceiveMsg
           \/ LoseToToy \/ LoseToHost
    PROVE  TypeOK'
<1> USE SessionAssumption, Messages DEF TypeOK
<1>1. CASE ToyHello
  BY <1>1, Frames DEF ToyHello, SendToHost, hostVars, timers, toyVars, history
<1>2. CASE ToySend
  <2>1. toySent[nonce][toyAcked + 1] \in Message
    BY <1>2 DEF ToySend
  <2>2. toHost' \in Seq(Frame)
    BY <1>2, <2>1, Frames DEF ToySend, SendToHost
  <2> QED
    BY <1>2, <2>2 DEF ToySend, hostVars, timers, toyVars, history
<1>3. CASE ToyAck
  BY <1>3, Frames DEF ToyAck, SendToHost, hostVars, timers, history
<1>4. CASE ToyRestart
  BY <1>4 DEF ToyRestart, hostVars, timers, history
<1>5. ASSUME NEW m \in Data \cup {READY}, ToyEnqueue(m) PROVE TypeOK'
  <2>1. toySent' \in [Nonces -> Seq(Message)]
    BY <1>5 DEF ToyEnqueue
  <2> QED
    BY <1>5, <2>1 DEF ToyEnqueue, hostVars, timers, history
<1>6. CASE ToyReceiveHello
  BY <1>6, ToyIncomingFrame DEF ToyReceiveHello, ToyTook, hostVars, timers, history
<1>7. CASE ToyReceiveAck
  <2>1. toToy' \in Seq(Frame) /\ toyAcked' \in Nat
    BY <1>7, ToyIncomingFrame DEF ToyReceiveAck, ToyTook
  <2> QED
    BY <1>7, <2>1 DEF ToyReceiveAck, hostVars, timers, history
<1>8. CASE ToyReceiveMsg
  <2>1. toToy' \in Seq(Frame) /\ ToyIncoming.seq \in Nat /\ ToyIncoming.body \in Message
    BY <1>8, ToyIncomingFrame DEF ToyReceiveMsg, ToyTook
  <2>2. Append(toyGot[nonce], ToyIncoming.body) \in Seq(Message)
    BY <2>1, AppendFacts
  <2>3. toyGot' \in [Nonces -> Seq(Message)] /\ toyAck' \in Nat
    BY <1>8, <2>1, <2>2 DEF ToyReceiveMsg, ToyDeliver, ToyAckOld, ToyIgnore
  <2> QED
    BY <1>8, <2>1, <2>3 DEF ToyReceiveMsg, hostVars, timers, history
<1>9. CASE LoseToToy
  BY <1>9, HeadTail DEF LoseToToy, hostVars, timers, toyVars, history
<1>10. CASE LoseToHost
  BY <1>10, HeadTail DEF LoseToHost, hostVars, timers, toyVars, history
<1> QED
  BY <1>1, <1>2, <1>3, <1>4, <1>5, <1>6, <1>7, <1>8, <1>9, <1>10

-----------------------------------------------------------------------------
(* The host's bookkeeping is kept                                           *)

LEMMA HostStepHost ==
    ASSUME TypeOK, HostInv, \/ \E m \in Data : Enqueue(m)
                            \/ Detach \/ ReceiveHello \/ ReceiveAck \/ ReceiveMsg
    PROVE  HostInv'
<1> USE SessionAssumption, Messages DEF TypeOK, HostInv
<1>1. ASSUME NEW m \in Data, Enqueue(m) PROVE HostInv'
  <2>0. session # NoNonce
    BY <1>1 DEF Enqueue, Unopened
  <2>1. CASE Stop /\ UNCHANGED hostSent
    BY <1>1, <2>0, <2>1 DEF Enqueue, Stop, Unopened, Counting, QueueIsUnheard
  <2>2. CASE /\ queue' = Append(queue, m) /\ hostSent' = Append(hostSent, m)
             /\ UNCHANGED <<session, ready, error, sequence, received, ack, inFlight>>
    <3>1. UNCHANGED <<acked, hostGot>> /\ ~error
      BY <1>1 DEF Enqueue
    <3>2. /\ Len(queue') = Len(queue) + 1 /\ Len(hostSent') = Len(hostSent) + 1
          /\ \A k \in 1..Len(queue) : queue'[k] = queue[k]
          /\ \A k \in 1..Len(hostSent) : hostSent'[k] = hostSent[k]
          /\ queue'[Len(queue) + 1] = m /\ hostSent'[Len(hostSent) + 1] = m
      BY <2>2, AppendFacts
    <3>3. Unopened'
      BY <2>0, <2>2 DEF Unopened
    <3>4. Counting'
      BY <2>2, <3>1, <3>2 DEF Counting
    <3>5. QueueIsUnheard'
      <4>0. Len(queue) = Len(hostSent) - acked /\ Len(queue) \in Nat
            /\ Len(hostSent) \in Nat /\ acked \in Nat
        BY <3>1 DEF QueueIsUnheard
      <4>1. Len(queue) = Len(hostSent) - acked /\ Len(queue') = Len(hostSent') - acked'
        <5> HIDE DEF TypeOK, HostInv
        <5> QED
          BY <3>1, <3>2, <4>0
      <4>2. ASSUME NEW k \in 1..Len(queue') PROVE queue'[k] = hostSent'[acked' + k]
        <5>1. CASE k = Len(queue) + 1
          BY <3>1, <3>2, <4>1, <5>1
        <5>2. CASE k \in 1..Len(queue)
          <6>1. queue'[k] = hostSent[acked + k] /\ acked + k \in 1..Len(hostSent)
            BY <3>1, <3>2, <4>1, <5>2 DEF QueueIsUnheard
          <6>2. hostSent'[acked + k] = hostSent[acked + k]
            BY <3>2, <6>1
          <6>3. acked' + k = acked + k
            BY <3>1
          <6> HIDE DEF TypeOK, HostInv
          <6> QED
            BY <6>1, <6>2, <6>3
        <5>3. Len(queue) \in Nat /\ Len(queue') = Len(queue) + 1
          BY <3>2
        <5>4. k = Len(queue) + 1 \/ k \in 1..Len(queue)
          <6> HIDE DEF TypeOK, HostInv
          <6> QED
            BY <5>3
        <5> QED
          BY <5>1, <5>2, <5>4
      <4> QED
        BY <4>1, <4>2 DEF QueueIsUnheard
    <3> QED
      BY <3>3, <3>4, <3>5
  <2> QED
    BY <1>1, <2>1, <2>2 DEF Enqueue
<1>2. CASE Detach
  BY <1>2 DEF Detach, Stop, history, Unopened, Counting, QueueIsUnheard
<1>3. CASE ReceiveHello
  <2>1. CASE RefuseOwnNonce
    BY <1>3, <2>1 DEF ReceiveHello, RefuseOwnNonce, Stop, Unopened, Counting, QueueIsUnheard
  <2>2. CASE OpenSession
    <3>1. /\ session' # NoNonce /\ queue' = <<READY>> /\ hostSent' = <<READY>>
          /\ UNCHANGED <<ready, error, sequence, received, ack, inFlight, acked, hostGot>>
          /\ acked = 0 /\ sequence = 0 /\ ~inFlight /\ received = 0 /\ ack = 0 /\ hostGot = <<>>
      BY <1>3, <2>2, IncomingFrame DEF ReceiveHello, OpenSession, Unopened, Took
    <3> QED
      BY <3>1 DEF Unopened, Counting, QueueIsUnheard
  <2>3. CASE RepeatedHello
    BY <1>3, <2>3 DEF ReceiveHello, RepeatedHello, hostVars, Unopened, Counting, QueueIsUnheard
  <2> QED
    BY <1>3, <2>1, <2>2, <2>3 DEF ReceiveHello
<1>4. CASE ReceiveAck
  <2>1. CASE TakeAck
    <3>1. /\ ~error /\ inFlight /\ session # NoNonce
          /\ inFlight' = FALSE /\ queue' = Tail(queue) /\ acked' = acked + 1
          /\ UNCHANGED <<session, ready, error, sequence, received, ack, hostSent, hostGot>>
      BY <1>4, <2>1 DEF ReceiveAck, Took, TakeAck, InFlightAcked, Ours
    <3>2. /\ Len(queue') = Len(queue) - 1
          /\ \A k \in 1..Len(queue') : queue'[k] = queue[k + 1]
      BY <3>1, QueueInFlight
    <3>3. Unopened' /\ Counting'
      BY <3>1 DEF Unopened, Counting
    <3>4. QueueIsUnheard'
      <4>1. Len(queue) = Len(hostSent) - acked
        BY <3>1 DEF QueueIsUnheard
      <4>2. ASSUME NEW k \in 1..Len(queue') PROVE queue'[k] = hostSent'[acked' + k]
        <5>1. k + 1 \in 1..Len(queue) /\ acked + (k + 1) = acked' + k
          BY <3>1, <3>2
        <5> QED
          BY <3>1, <3>2, <5>1 DEF QueueIsUnheard
      <4>3. Len(hostSent) \in Nat /\ acked \in Nat
        OBVIOUS
      <4>4. Len(queue') = Len(hostSent') - acked'
        <5> HIDE DEF TypeOK, HostInv
        <5> QED
          BY <3>1, <3>2, <4>1, <4>3
      <4> HIDE DEF TypeOK, HostInv
      <4> QED
        BY <4>2, <4>4 DEF QueueIsUnheard
    <3> QED
      BY <3>3, <3>4
  <2>2. CASE UNCHANGED <<hostVars, sinceRx, acked>>
    BY <1>4, <2>2 DEF ReceiveAck, hostVars, Unopened, Counting, QueueIsUnheard
  <2> QED
    BY <1>4, <2>1, <2>2 DEF ReceiveAck
<1>5. CASE ReceiveMsg
  <2>1. /\ Incoming.seq \in Nat /\ Incoming.body \in Message /\ UNCHANGED <<hostSent, acked>>
    BY <1>5, IncomingFrame DEF ReceiveMsg, Took
  <2>2. CASE DeliverMsg
    <3>1. /\ session # NoNonce /\ received' = received + 1 /\ ack' = received + 1
          /\ hostGot' = Append(hostGot, Incoming.body)
          /\ UNCHANGED <<session, error, queue, sequence, inFlight>>
      BY <2>2 DEF DeliverMsg, Ours
    <3>2. Len(hostGot') = Len(hostGot) + 1
      BY <2>1, <3>1, AppendFacts
    <3> QED
      BY <2>1, <3>1, <3>2 DEF Unopened, Counting, QueueIsUnheard
  <2>3. CASE AckOldMsg
    BY <1>5, <2>1, <2>3 DEF AckOldMsg, Ours, Unopened, Counting, QueueIsUnheard
  <2>4. CASE IgnoreMsg
    BY <1>5, <2>1, <2>4 DEF IgnoreMsg, hostVars, Unopened, Counting, QueueIsUnheard
  <2> QED
    BY <1>5, <2>2, <2>3, <2>4 DEF ReceiveMsg
<1> QED
  BY <1>1, <1>2, <1>3, <1>4, <1>5

\* What a poll does before it chooses a frame: a heartbeat may join the queue.
LEMMA BeatKeepsQueue ==
    ASSUME TypeOK, HostInv, Polling
    PROVE  /\ Len(hostSent) <= Len(hostSent')
           /\ \A k \in 1..Len(hostSent) : hostSent'[k] = hostSent[k]
           /\ Len(Polled) = Len(hostSent') - acked
           /\ \A k \in 1..Len(Polled) : Polled[k] = hostSent'[acked + k]
           /\ session = NoNonce => Polled = <<>> /\ hostSent' = <<>>
           /\ Polled \in Seq(Message) /\ hostSent' \in Seq(Message)
           /\ UNCHANGED <<session, ready, received, hostGot, acked>> /\ ~error
<1> USE Messages DEF TypeOK, HostInv, Polling, QueueIsUnheard
<1>1. CASE Beats
  <2>1. /\ Polled = <<BEAT>> /\ hostSent' = Append(hostSent, BEAT) /\ Len(hostSent) = acked
        /\ session # NoNonce
    BY <1>1 DEF Polled, Beats, Unopened
  <2>2. /\ Len(hostSent') = Len(hostSent) + 1 /\ hostSent'[Len(hostSent) + 1] = BEAT
        /\ hostSent' \in Seq(Message) /\ \A k \in 1..Len(hostSent) : hostSent'[k] = hostSent[k]
    BY <2>1, AppendFacts
  <2>3. Polled \in Seq(Message) /\ Len(Polled) = 1 /\ Polled[1] = BEAT
    BY <2>1
  <2>4. \A k \in 1..Len(Polled) : Polled[k] = hostSent'[acked + k]
    BY <2>1, <2>2, <2>3
  <2>5. UNCHANGED <<session, ready, received, hostGot, acked>> /\ ~error
    OBVIOUS
  <2>6. Len(hostSent) \in Nat /\ Len(hostSent) <= Len(hostSent')
    BY <2>2
  <2>7. Len(Polled) = Len(hostSent') - acked
    BY <2>1, <2>2, <2>3
  <2> HIDE DEF TypeOK, HostInv, Polling, QueueIsUnheard
  <2> QED
    BY <2>1, <2>2, <2>3, <2>4, <2>5, <2>6, <2>7
<1>2. CASE ~Beats
  <2>1. Polled = queue /\ hostSent' = hostSent
    BY <1>2 DEF Polled
  <2>2. /\ Len(queue) = Len(hostSent) - acked
        /\ \A k \in 1..Len(queue) : queue[k] = hostSent[acked + k]
    OBVIOUS
  <2>3. session = NoNonce => queue = <<>> /\ hostSent = <<>>
    BY DEF Unopened
  <2>4. UNCHANGED <<session, ready, received, hostGot, acked>> /\ ~error
    OBVIOUS
  <2>5. queue \in Seq(Message) /\ hostSent \in Seq(Message) /\ Len(hostSent) \in Nat
    OBVIOUS
  <2> HIDE DEF TypeOK, HostInv, Polling, QueueIsUnheard
  <2> QED
    BY <2>1, <2>2, <2>3, <2>4, <2>5
<1> QED
  BY <1>1, <1>2

LEMMA KeptByPoll ==
    ASSUME TypeOK, HostInv, Polling,
           queue' = Polled \/ (error' = TRUE /\ queue' = <<>>),
           error' = error \/ error', ack' \in {0, ack}, UNCHANGED <<sequence, inFlight>>
    PROVE  HostInv'
<1> USE BeatKeepsQueue DEF TypeOK, HostInv
<1>1. Unopened'
  BY DEF Unopened
<1>2. Counting'
  <2>1. /\ sequence = acked + (IF inFlight THEN 1 ELSE 0) /\ sequence <= Len(hostSent)
        /\ received = Len(hostGot) /\ ack <= received
        /\ ack \in Nat /\ received \in Nat /\ sequence \in Nat
    BY DEF Counting
  <2>2. /\ Len(hostSent) <= Len(hostSent') /\ hostSent \in Seq(Message) /\ hostSent' \in Seq(Message)
        /\ UNCHANGED <<received, hostGot, acked>>
    OBVIOUS
  <2>3. Len(hostSent) \in Nat /\ Len(hostSent') \in Nat
    BY <2>2
  <2> HIDE BeatKeepsQueue DEF TypeOK, HostInv
  <2> QED
    BY <2>1, <2>2, <2>3 DEF Counting
<1>3. QueueIsUnheard'
  <2>1. CASE error'
    BY <2>1 DEF QueueIsUnheard
  <2>2. CASE ~error'
    <3>1. queue' = Polled
      BY <2>2
    <3> QED
      BY <2>2, <3>1, BeatKeepsQueue DEF QueueIsUnheard
  <2> QED
    BY <2>1, <2>2
<1> QED
  BY <1>1, <1>2, <1>3

LEMMA HostStepPoll == ASSUME TypeOK, HostInv, Poll \/ Clock PROVE HostInv'
<1> USE SessionAssumption DEF TypeOK, HostInv
<1>1. CASE PollSilent
  BY <1>1 DEF PollSilent, Stop, history, Silent, Unopened, Counting, QueueIsUnheard
<1>2. CASE PollAck
  <2>1. /\ session # NoNonce /\ queue' = Polled /\ ack' = 0
        /\ UNCHANGED <<error, sequence, inFlight>> /\ Polling
    BY <1>2 DEF PollAck, Unopened
  <2> QED
    BY <2>1, KeptByPoll
<1>3. CASE PollHello
  <2>1. queue' = Polled /\ UNCHANGED <<error, sequence, ack, inFlight>> /\ Polling
    BY <1>3 DEF PollHello
  <2> QED
    BY <2>1, KeptByPoll
<1>4. CASE PollFirst
  <2>1. /\ session # NoNonce /\ queue' = Polled /\ Polled # <<>> /\ Polling
        /\ ~inFlight /\ inFlight' = TRUE /\ sequence' = sequence + 1
        /\ UNCHANGED <<error, ack>>
    BY <1>4 DEF PollFirst, HeadDue
  <2>2. Len(Polled) > 0
    BY <2>1, BeatKeepsQueue, HeadTail
  <2> QED
    <3>1. Unopened' /\ QueueIsUnheard'
      BY <2>1, BeatKeepsQueue DEF Unopened, QueueIsUnheard
    <3>2. Counting'
      BY <2>1, <2>2, BeatKeepsQueue DEF Counting
    <3> QED
      BY <3>1, <3>2
<1>5. CASE PollAgain
  <2>1. /\ queue' = Polled /\ UNCHANGED <<error, sequence, ack, inFlight>> /\ Polling
    BY <1>5 DEF PollAgain
  <2> QED
    BY <2>1, KeptByPoll
<1>6. CASE PollExhausted
  <2>1. /\ error' = TRUE /\ queue' = <<>> /\ UNCHANGED <<sequence, ack, inFlight>> /\ Polling
    BY <1>6 DEF PollExhausted
  <2> QED
    BY <2>1, KeptByPoll
<1>7. CASE Clock
  BY <1>7 DEF Clock, hostVars, history, Unopened, Counting, QueueIsUnheard
<1> QED
  BY <1>1, <1>2, <1>3, <1>4, <1>5, <1>6, <1>7 DEF Poll

ToyMoves ==
    \/ ToyHello \/ ToySend \/ ToyAck \/ ToyRestart
    \/ \E m \in Data \cup {READY} : ToyEnqueue(m)
    \/ ToyReceiveHello \/ ToyReceiveAck \/ ToyReceiveMsg
    \/ LoseToToy \/ LoseToHost

LEMMA HostStepToy == ASSUME HostInv, ToyMoves PROVE HostInv'
<1>1. UNCHANGED <<hostVars, history>>
  BY DEF ToyMoves, ToyHello, ToySend, ToyAck, ToyRestart, ToyEnqueue, ToyReceiveHello,
         ToyReceiveAck, ToyReceiveMsg, LoseToToy, LoseToHost
<1> QED
  BY <1>1 DEF HostInv, Unopened, Counting, QueueIsUnheard, hostVars, history

LEMMA CoreInit == Init => TypeOK /\ HostInv
<1> SUFFICES ASSUME Init PROVE TypeOK /\ HostInv
  OBVIOUS
<1>1. TypeOK
  <2>1. <<>> \in Seq(Message) /\ <<>> \in Seq(Frame)
    OBVIOUS
  <2>2. toySent \in [Nonces -> Seq(Message)] /\ toyGot \in [Nonces -> Seq(Message)]
    BY <2>1 DEF Init
  <2>3. queue \in Seq(Message) /\ toToy \in Seq(Frame) /\ toHost \in Seq(Frame)
    BY <2>1 DEF Init
  <2>4. hostSent \in Seq(Message) /\ hostGot \in Seq(Message)
    BY <2>1 DEF Init
  <2>5. /\ sinceRx \in Nat /\ sinceHello \in Nat /\ sinceTx \in Nat /\ sinceBeat \in Nat
    BY SessionAssumption DEF Init
  <2> QED
    BY <2>2, <2>3, <2>4, <2>5 DEF Init, TypeOK
<1>2. HostInv
  BY DEF Init, HostInv, Unopened, Counting, QueueIsUnheard
<1> QED
  BY <1>1, <1>2

LEMMA CoreStep == TypeOK /\ HostInv /\ [Next]_vars => TypeOK' /\ HostInv'
<1> SUFFICES ASSUME TypeOK, HostInv, [Next]_vars PROVE TypeOK' /\ HostInv'
  OBVIOUS
<1>1. CASE \/ \E m \in Data : Enqueue(m)
           \/ Detach \/ ReceiveHello \/ ReceiveAck \/ ReceiveMsg
  BY <1>1, TypeStepHost, HostStepHost
<1>2. CASE Poll \/ Clock
  BY <1>2, TypeStepPoll, HostStepPoll
<1>3. CASE ToyMoves
  BY <1>3, TypeStepToy, HostStepToy DEF ToyMoves
<1>4. CASE UNCHANGED vars
  <2>1. /\ UNCHANGED <<hostVars, toyVars, timers, toToy, toHost, history>>
    BY <1>4 DEF vars
  <2>2. TypeOK'
    BY <2>1 DEF hostVars, timers, toyVars, history, TypeOK
  <2>3. HostInv'
    BY <2>1 DEF hostVars, history, HostInv, Unopened, Counting, QueueIsUnheard
  <2> QED
    BY <2>2, <2>3
<1> QED
  BY <1>1, <1>2, <1>3, <1>4 DEF Next, ToyMoves

\* In every run every variable of the link keeps its shape.
THEOREM TypeCorrect == Spec => []TypeOK
<1>1. Init => TypeOK /\ HostInv
  BY CoreInit
<1>2. TypeOK /\ HostInv /\ [Next]_vars => TypeOK' /\ HostInv'
  BY CoreStep
<1> QED
  BY <1>1, <1>2, PTL DEF Spec

\* In every run the host's queue holds exactly what was handed to enqueue and
\* not acknowledged, in order: shifting on an ACK never drops another message.
THEOREM QueueCorrect == Spec => []QueueIsUnheard
<1>1. Init => TypeOK /\ HostInv
  BY CoreInit
<1>2. TypeOK /\ HostInv /\ [Next]_vars => TypeOK' /\ HostInv'
  BY CoreStep
<1>3. HostInv => QueueIsUnheard
  BY DEF HostInv
<1> QED
  BY <1>1, <1>2, <1>3, PTL DEF Spec

-----------------------------------------------------------------------------
(* Delivery.  What a frame on a line may claim, and what both ends have     *)
(* taken; nothing here depends on how many frames the lines lose.           *)

\* A message under way to the toy is of the session and is what was handed in.
HostFrameOK(f) ==
    f.kind = "msg" =>
        /\ session # NoNonce /\ f.session = session
        /\ f.seq \in 1..sequence /\ f.body = hostSent[f.seq]
\* The toy acknowledges only what it took and sends only what it enqueued.
ToyFrameOK(f) ==
    /\ f.kind = "ack" => f.seq <= Len(toyGot[f.session])
    /\ f.kind = "msg" =>
          f.seq \in 1..Len(toySent[f.session]) /\ f.body = toySent[f.session][f.seq]
ToToyOK == \A i \in 1..Len(toToy) : HostFrameOK(toToy[i])
ToHostOK == \A i \in 1..Len(toHost) : ToyFrameOK(toHost[i])

Heard ==
    /\ \A n \in Nonces : n # session => toyGot[n] = <<>>
    /\ session # NoNonce =>
          /\ acked <= Len(toyGot[session]) /\ Len(toyGot[session]) <= sequence
          /\ \A k \in 1..Len(toyGot[session]) : toyGot[session][k] = hostSent[k]
    /\ toyAck <= Len(toyGot[nonce])
Delivered ==
    session # NoNonce =>
        /\ Len(hostGot) <= Len(toySent[session])
        /\ \A k \in 1..Len(hostGot) : hostGot[k] = toySent[session][k]
DeliveryInv == ToToyOK /\ ToHostOK /\ Heard /\ Delivered

\* Everything a frame refers to only grows.
Grows ==
    /\ session # NoNonce => session' = session
    /\ sequence <= sequence'
    /\ IsPrefixOf(hostSent, hostSent')
    /\ \A n \in Nonces : IsPrefixOf(toySent[n], toySent'[n])
    /\ \A n \in Nonces : Len(toyGot[n]) <= Len(toyGot'[n])

LEMMA PrefixFacts ==
    ASSUME NEW S, NEW q \in Seq(S), NEW e \in S
    PROVE  IsPrefixOf(q, q) /\ IsPrefixOf(q, Append(q, e))
  BY AppendFacts DEF IsPrefixOf

LEMMA Elements ==
    ASSUME NEW S, NEW q \in Seq(S)
    PROVE  Len(q) \in Nat /\ \A i \in 1..Len(q) : q[i] \in S
  OBVIOUS

\* A line whose frames are all good stays so when its head is taken or lost,
\* or a good frame joins it.
LEMMA ToToyKept ==
    ASSUME TypeOK, TypeOK', Counting, Grows, ToToyOK,
           \/ toToy' = toToy
           \/ toToy # <<>> /\ toToy' = Tail(toToy)
           \/ \E f \in Frame : toToy' = Append(toToy, f) /\ HostFrameOK(f)'
    PROVE  ToToyOK'
<1>0. /\ toToy \in Seq(Frame) /\ sequence \in Nat /\ sequence' \in Nat
      /\ hostSent \in Seq(Message)
  BY DEF TypeOK
<1>1. ASSUME NEW f \in Frame, HostFrameOK(f) PROVE HostFrameOK(f)'
  <2> SUFFICES ASSUME f.kind = "msg" PROVE HostFrameOK(f)'
    BY DEF HostFrameOK
  <2>1. /\ session # NoNonce /\ f.session = session
        /\ f.seq \in 1..sequence /\ f.body = hostSent[f.seq]
    BY <1>1 DEF HostFrameOK
  <2>2. session' = session /\ sequence <= sequence' /\ sequence <= Len(hostSent)
    BY <2>1 DEF Grows, Counting
  <2>3. f.seq \in 1..sequence' /\ f.seq \in 1..Len(hostSent)
    BY <1>0, <2>1, <2>2, Elements
  <2>4. hostSent'[f.seq] = hostSent[f.seq]
    BY <2>3 DEF Grows, IsPrefixOf
  <2> QED
    BY <2>1, <2>2, <2>3, <2>4 DEF HostFrameOK
<1>2. Len(toToy) \in Nat /\ \A i \in 1..Len(toToy) : toToy[i] \in Frame /\ HostFrameOK(toToy[i])
  BY <1>0, Elements DEF ToToyOK
<1> SUFFICES ASSUME NEW i \in 1..Len(toToy') PROVE HostFrameOK(toToy[i])'
  BY DEF ToToyOK
<1>3. ASSUME NEW f \in Frame, toToy'[i] = f, HostFrameOK(f)' PROVE HostFrameOK(toToy[i])'
  BY <1>3 DEF HostFrameOK
<1>4. CASE toToy' = toToy
  BY <1>1, <1>2, <1>3, <1>4
<1>5. CASE toToy # <<>> /\ toToy' = Tail(toToy)
  <2>1. i + 1 \in 1..Len(toToy) /\ toToy'[i] = toToy[i + 1]
    BY <1>0, <1>5, HeadTail
  <2> QED
    BY <1>1, <1>2, <1>3, <2>1
<1>6. CASE \E f \in Frame : toToy' = Append(toToy, f) /\ HostFrameOK(f)'
  <2>1. PICK f \in Frame : toToy' = Append(toToy, f) /\ HostFrameOK(f)'
    BY <1>6
  <2>2. /\ Len(toToy') = Len(toToy) + 1 /\ toToy'[Len(toToy) + 1] = f
        /\ \A k \in 1..Len(toToy) : toToy'[k] = toToy[k]
    BY <1>0, <2>1, AppendFacts
  <2>3. i = Len(toToy) + 1 \/ i \in 1..Len(toToy)
    BY <1>2, <2>2
  <2> QED
    BY <1>1, <1>2, <1>3, <2>1, <2>2, <2>3
<1> QED
  BY <1>4, <1>5, <1>6

LEMMA ToHostKept ==
    ASSUME TypeOK, TypeOK', Grows, ToHostOK,
           \/ toHost' = toHost
           \/ toHost # <<>> /\ toHost' = Tail(toHost)
           \/ \E f \in Frame : toHost' = Append(toHost, f) /\ ToyFrameOK(f)'
    PROVE  ToHostOK'
<1>0. /\ toHost \in Seq(Frame)
      /\ \A n \in Nonces : /\ toyGot[n] \in Seq(Message) /\ toyGot'[n] \in Seq(Message)
                           /\ toySent[n] \in Seq(Message) /\ toySent'[n] \in Seq(Message)
  BY DEF TypeOK
<1>1. ASSUME NEW f \in Frame, ToyFrameOK(f) PROVE ToyFrameOK(f)'
  <2>1. CASE f.kind = "ack"
    <3>1. f.session \in Nonces /\ f.seq \in Nat /\ f.seq <= Len(toyGot[f.session])
      BY <1>1, <2>1, FrameKinds DEF ToyFrameOK
    <3>2. Len(toyGot[f.session]) \in Nat /\ Len(toyGot'[f.session]) \in Nat
      BY <1>0, <3>1, Elements
    <3>3. Len(toyGot[f.session]) <= Len(toyGot'[f.session])
      BY <3>1 DEF Grows
    <3>4. f.seq <= Len(toyGot'[f.session])
      BY <3>1, <3>2, <3>3
    <3> QED
      BY <2>1, <3>4 DEF ToyFrameOK
  <2>2. CASE f.kind = "msg"
    <3>1. /\ f.session \in Nonces /\ f.seq \in 1..Len(toySent[f.session])
          /\ f.body = toySent[f.session][f.seq]
      BY <1>1, <2>2, FrameKinds DEF ToyFrameOK
    <3>2. Len(toySent[f.session]) \in Nat /\ Len(toySent'[f.session]) \in Nat
      BY <1>0, <3>1, Elements
    <3>3. /\ Len(toySent[f.session]) <= Len(toySent'[f.session])
          /\ toySent'[f.session][f.seq] = toySent[f.session][f.seq]
      BY <3>1 DEF Grows, IsPrefixOf
    <3>4. f.seq \in 1..Len(toySent'[f.session])
      BY <3>1, <3>2, <3>3
    <3> QED
      BY <2>2, <3>1, <3>3, <3>4 DEF ToyFrameOK
  <2>3. CASE f.kind = "hello"
    BY <2>3 DEF ToyFrameOK
  <2> QED
    BY <2>1, <2>2, <2>3, FrameKinds
<1>2. Len(toHost) \in Nat /\ \A i \in 1..Len(toHost) : toHost[i] \in Frame /\ ToyFrameOK(toHost[i])
  BY <1>0, Elements DEF ToHostOK
<1> SUFFICES ASSUME NEW i \in 1..Len(toHost') PROVE ToyFrameOK(toHost[i])'
  BY DEF ToHostOK
<1>3. ASSUME NEW f \in Frame, toHost'[i] = f, ToyFrameOK(f)' PROVE ToyFrameOK(toHost[i])'
  BY <1>3 DEF ToyFrameOK
<1>4. CASE toHost' = toHost
  BY <1>1, <1>2, <1>3, <1>4
<1>5. CASE toHost # <<>> /\ toHost' = Tail(toHost)
  <2>1. i + 1 \in 1..Len(toHost) /\ toHost'[i] = toHost[i + 1]
    BY <1>0, <1>5, HeadTail
  <2> QED
    BY <1>1, <1>2, <1>3, <2>1
<1>6. CASE \E f \in Frame : toHost' = Append(toHost, f) /\ ToyFrameOK(f)'
  <2>1. PICK f \in Frame : toHost' = Append(toHost, f) /\ ToyFrameOK(f)'
    BY <1>6
  <2>2. /\ Len(toHost') = Len(toHost) + 1 /\ toHost'[Len(toHost) + 1] = f
        /\ \A k \in 1..Len(toHost) : toHost'[k] = toHost[k]
    BY <1>0, <2>1, AppendFacts
  <2>3. i = Len(toHost) + 1 \/ i \in 1..Len(toHost)
    BY <1>2, <2>2
  <2> QED
    BY <1>1, <1>2, <1>3, <2>1, <2>2, <2>3
<1> QED
  BY <1>4, <1>5, <1>6

HostMoves ==
    \/ \E m \in Data : Enqueue(m)
    \/ Detach \/ ReceiveHello \/ ReceiveAck \/ ReceiveMsg \/ Poll \/ Clock

LEMMA GrowsHost ==
    ASSUME TypeOK, HostInv, HostMoves
    PROVE  Grows
<1>0. sequence \in Nat /\ hostSent \in Seq(Message)
  BY DEF TypeOK
<1>1. UNCHANGED toyVars
  BY DEF HostMoves, Enqueue, Detach, ReceiveHello, ReceiveAck, ReceiveMsg, Poll, Clock, PollSilent,
         PollAck, PollHello, PollFirst, PollAgain, PollExhausted, Polling
<1>2. /\ \A n \in Nonces : IsPrefixOf(toySent[n], toySent'[n])
      /\ \A n \in Nonces : Len(toyGot[n]) <= Len(toyGot'[n])
  <2>1. ASSUME NEW n \in Nonces
        PROVE  IsPrefixOf(toySent[n], toySent'[n]) /\ Len(toyGot[n]) <= Len(toyGot'[n])
    <3>1. toySent[n] \in Seq(Message) /\ toyGot[n] \in Seq(Message)
      BY DEF TypeOK
    <3>2. toySent'[n] = toySent[n] /\ toyGot'[n] = toyGot[n]
      BY <1>1 DEF toyVars
    <3> QED
      BY <3>1, <3>2, Elements DEF IsPrefixOf
  <2> QED
    BY <2>1
<1>3. session # NoNonce => session' = session
  BY DEF HostMoves, Enqueue, Detach, ReceiveHello, ReceiveAck, ReceiveMsg, Poll, Clock, PollSilent,
         PollAck, PollHello, PollFirst, PollAgain, PollExhausted, Polling, Stop, RefuseOwnNonce,
         OpenSession, RepeatedHello, TakeAck, DeliverMsg, AckOldMsg, IgnoreMsg, hostVars
<1>4. sequence' \in {sequence, sequence + 1}
  BY DEF HostMoves, Enqueue, Detach, ReceiveHello, ReceiveAck, ReceiveMsg, Poll, Clock, PollSilent,
         PollAck, PollHello, PollFirst, PollAgain, PollExhausted, Polling, Stop, RefuseOwnNonce,
         OpenSession, RepeatedHello, TakeAck, DeliverMsg, AckOldMsg, IgnoreMsg, hostVars
<1>5. hostSent' = hostSent \/ \E m \in Message : hostSent' = Append(hostSent, m)
  BY Messages DEF HostMoves, Enqueue, Detach, ReceiveHello, ReceiveAck, ReceiveMsg, Poll, Clock,
         PollSilent, PollAck, PollHello, PollFirst, PollAgain, PollExhausted, Polling, Stop,
         RefuseOwnNonce, OpenSession, RepeatedHello, TakeAck, history
<1>6. IsPrefixOf(hostSent, hostSent')
  BY <1>0, <1>5, PrefixFacts DEF IsPrefixOf
<1>7. sequence <= sequence'
  BY <1>0, <1>4
<1> QED
  BY <1>2, <1>3, <1>6, <1>7 DEF Grows

LEMMA GrowsToy ==
    ASSUME TypeOK, HostInv, ToyMoves
    PROVE  Grows
<1>0. sequence \in Nat /\ hostSent \in Seq(Message) /\ nonce \in Nonces
  BY DEF TypeOK
<1>1. UNCHANGED <<session, sequence, hostSent>>
  BY DEF ToyMoves, ToyHello, ToySend, ToyAck, ToyRestart, ToyEnqueue, ToyReceiveHello,
         ToyReceiveAck, ToyReceiveMsg, LoseToToy, LoseToHost, hostVars, history
<1>2. /\ session # NoNonce => session' = session
      /\ sequence <= sequence' /\ IsPrefixOf(hostSent, hostSent')
  BY <1>0, <1>1, Elements DEF IsPrefixOf
<1>3. \/ UNCHANGED toySent
      \/ \E m \in Message : toySent' = [toySent EXCEPT ![nonce] = Append(@, m)]
  BY Messages
     DEF ToyMoves, ToyHello, ToySend, ToyAck, ToyRestart, ToyEnqueue, ToyReceiveHello,
         ToyReceiveAck, ToyReceiveMsg, LoseToToy, LoseToHost, toyVars
<1>4. \/ UNCHANGED toyGot
      \/ \E m \in Message : toyGot' = [toyGot EXCEPT ![nonce] = Append(@, m)]
  <2>1. CASE ToyReceiveMsg
    <3>1. ToyIncoming.body \in Message
      BY <2>1, ToyIncomingFrame DEF ToyReceiveMsg, ToyTook
    <3>2. ToyDeliver \/ UNCHANGED toyGot
      BY <2>1 DEF ToyReceiveMsg, ToyAckOld, ToyIgnore
    <3> QED
      BY <3>1, <3>2 DEF ToyDeliver
  <2>2. CASE ~ToyReceiveMsg
    BY <2>2 DEF ToyMoves, ToyHello, ToySend, ToyAck, ToyRestart, ToyEnqueue, ToyReceiveHello,
                ToyReceiveAck, LoseToToy, LoseToHost, toyVars
  <2> QED
    BY <2>1, <2>2
<1>5. ASSUME NEW n \in Nonces
      PROVE  IsPrefixOf(toySent[n], toySent'[n]) /\ Len(toyGot[n]) <= Len(toyGot'[n])
  <2>1. /\ toySent[n] \in Seq(Message) /\ toyGot[n] \in Seq(Message)
        /\ toySent \in [Nonces -> Seq(Message)] /\ toyGot \in [Nonces -> Seq(Message)]
    BY DEF TypeOK
  <2>2. toySent'[n] = toySent[n] \/ \E m \in Message : toySent'[n] = Append(toySent[n], m)
    BY <1>3, <2>1
  <2>3. toyGot'[n] = toyGot[n] \/ \E m \in Message : toyGot'[n] = Append(toyGot[n], m)
    BY <1>4, <2>1
  <2>4. IsPrefixOf(toyGot[n], toyGot'[n])
    <3>1. CASE toyGot'[n] = toyGot[n]
      BY <2>1, <3>1, Elements DEF IsPrefixOf
    <3>2. CASE \E m \in Message : toyGot'[n] = Append(toyGot[n], m)
      BY <2>1, <3>2, PrefixFacts
    <3> QED
      BY <2>3, <3>1, <3>2
  <2> QED
    BY <2>1, <2>2, <2>4, PrefixFacts DEF IsPrefixOf
<1> QED
  BY <1>2, <1>5 DEF Grows

LEMMA ToToyStep ==
    ASSUME TypeOK, TypeOK', HostInv, Grows, ToToyOK, HostMoves \/ ToyMoves
    PROVE  ToToyOK'
<1> USE DEF HostInv
<1>0. /\ sequence \in Nat /\ acked \in Nat /\ ack \in Nat
      /\ session \in Nonces \cup {NoNonce} /\ toToy \in Seq(Frame)
  BY DEF TypeOK
<1>1. ASSUME NEW f \in Frame, SendToToy(f), f.kind # "msg" PROVE ToToyOK'
  <2>1. toToy' = Append(toToy, f) /\ HostFrameOK(f)'
    BY <1>1 DEF SendToToy, HostFrameOK
  <2> QED
    BY <2>1, ToToyKept
<1>2. ASSUME NEW k \in Nat, k = acked + 1, k = sequence', Polling, HeadDue,
             SendToToy(MsgOf(session, k, Head(Polled)))
      PROVE  ToToyOK'
  <2>1. /\ Polled # <<>> /\ session # NoNonce /\ session \in Nonces
        /\ Polled \in Seq(Message) /\ Len(Polled) = Len(hostSent') - acked
        /\ \A j \in 1..Len(Polled) : Polled[j] = hostSent'[acked + j]
        /\ session' = session
    BY <1>0, <1>2, BeatKeepsQueue DEF HeadDue
  <2>2. Head(Polled) \in Message /\ Head(Polled) = Polled[1] /\ 1 \in 1..Len(Polled)
    BY <2>1, HeadTail
  <2>3. Head(Polled) = hostSent'[k]
    BY <1>2, <2>1, <2>2
  <2>4. k \in 1..sequence'
    BY <1>0, <1>2
  <2>5. PICK g \in Frame : g = MsgOf(session, k, Head(Polled))
    BY <2>1, <2>2, Frames
  <2>6. HostFrameOK(g)'
    BY <2>1, <2>3, <2>4, <2>5 DEF HostFrameOK, MsgOf
  <2> QED
    BY <1>2, <2>5, <2>6, ToToyKept DEF SendToToy
<1>3. CASE PollAck
  <2>1. session \in Nonces /\ SendToToy(AckOf(session, ack))
    BY <1>0, <1>3 DEF PollAck, Unopened
  <2> QED
    BY <1>0, <1>1, <2>1, Frames DEF AckOf
<1>4. CASE PollHello
  <2>1. SendToToy(Hello(HostNonce))
    BY <1>4 DEF PollHello
  <2> QED
    BY <1>1, <2>1, Frames DEF Hello
<1>5. CASE PollFirst
  <2>1. sequence = acked /\ sequence' = sequence + 1 /\ Polling /\ HeadDue
    BY <1>0, <1>5 DEF PollFirst, Counting
  <2>2. SendToToy(MsgOf(session, sequence + 1, Head(Polled)))
    BY <1>5 DEF PollFirst
  <2> QED
    BY <1>0, <1>2, <2>1, <2>2
<1>6. CASE PollAgain
  <2>1. sequence = acked + 1 /\ sequence' = sequence /\ Polling /\ HeadDue
    BY <1>0, <1>6 DEF PollAgain, Counting
  <2>2. SendToToy(MsgOf(session, sequence, Head(Polled)))
    BY <1>6 DEF PollAgain
  <2> QED
    BY <1>0, <1>2, <2>1, <2>2
<1>7. CASE ~(PollAck \/ PollHello \/ PollFirst \/ PollAgain)
  <2>1. toToy' = toToy \/ (toToy # <<>> /\ toToy' = Tail(toToy))
    BY <1>7 DEF HostMoves, Enqueue, Detach, ReceiveHello, ReceiveAck, ReceiveMsg, Poll, Clock,
         PollSilent, PollExhausted, ToyMoves, ToyHello, ToySend, ToyAck, ToyRestart, ToyEnqueue,
         ToyReceiveHello, ToyReceiveAck, ToyReceiveMsg, ToyTook, LoseToToy, LoseToHost
  <2> QED
    BY <2>1, ToToyKept
<1> QED
  BY <1>3, <1>4, <1>5, <1>6, <1>7

LEMMA ToHostStep ==
    ASSUME TypeOK, TypeOK', Grows, Heard, ToHostOK, HostMoves \/ ToyMoves
    PROVE  ToHostOK'
<1>0. /\ nonce \in Nonces /\ toyAcked \in Nat /\ toyAck \in Nat
      /\ toySent[nonce] \in Seq(Message)
  BY DEF TypeOK
<1>1. ASSUME NEW f \in Frame, SendToHost(f), ToyFrameOK(f)' PROVE ToHostOK'
  BY <1>1, ToHostKept DEF SendToHost
<1>2. CASE ToyHello
  <2>1. PICK g \in Frame : g = Hello(nonce)
    BY <1>0, Frames
  <2>2. ToyFrameOK(g)' /\ SendToHost(g)
    BY <1>2, <2>1 DEF ToyHello, ToyFrameOK, Hello
  <2> QED
    BY <1>1, <2>2
<1>3. CASE ToySend
  <2> DEFINE f == MsgOf(nonce, toyAcked + 1, toySent[nonce][toyAcked + 1])
  <2>1. toyAcked + 1 \in 1..Len(toySent[nonce]) /\ SendToHost(f) /\ UNCHANGED <<nonce, toySent>>
    BY <1>0, <1>3 DEF ToySend, toyVars
  <2>2. PICK g \in Frame : g = f
    BY <1>0, <2>1, Frames, Elements
  <2>3. ToyFrameOK(g)'
    BY <2>1, <2>2 DEF ToyFrameOK, MsgOf
  <2> QED
    BY <1>1, <2>1, <2>2, <2>3
<1>4. CASE ToyAck
  <2>1. /\ SendToHost(AckOf(nonce, toyAck)) /\ UNCHANGED toyGot
        /\ toyAck <= Len(toyGot[nonce])
    BY <1>4 DEF ToyAck, Heard
  <2>2. PICK g \in Frame : g = AckOf(nonce, toyAck)
    BY <1>0, Frames
  <2>3. ToyFrameOK(g)'
    BY <2>1, <2>2 DEF ToyFrameOK, AckOf
  <2> QED
    BY <1>1, <2>1, <2>2, <2>3
<1>5. CASE ~(ToyHello \/ ToySend \/ ToyAck)
  <2>1. toHost' = toHost \/ (toHost # <<>> /\ toHost' = Tail(toHost))
    BY <1>5 DEF HostMoves, Enqueue, Detach, ReceiveHello, ReceiveAck, ReceiveMsg, Took, Poll, Clock,
         PollSilent, PollAck, PollHello, PollFirst, PollAgain, PollExhausted, Polling,
         ToyMoves, ToyRestart, ToyEnqueue, ToyReceiveHello, ToyReceiveAck, ToyReceiveMsg,
         LoseToToy, LoseToHost
  <2> QED
    BY <2>1, ToHostKept
<1> QED
  BY <1>2, <1>3, <1>4, <1>5

LEMMA HeardStep ==
    ASSUME TypeOK, TypeOK', HostInv, Grows, ToToyOK, ToHostOK, Heard, HostMoves \/ ToyMoves
    PROVE  Heard'
<1> USE DEF HostInv
<1>0. /\ sequence \in Nat /\ sequence' \in Nat /\ acked \in Nat /\ toyAck \in Nat
      /\ nonce \in Nonces /\ nonce' \in Nonces
      /\ session \in Nonces \cup {NoNonce} /\ session' \in Nonces \cup {NoNonce}
      /\ hostSent \in Seq(Message)
      /\ \A n \in Nonces : toyGot[n] \in Seq(Message) /\ Len(toyGot[n]) \in Nat
      /\ toyGot \in [Nonces -> Seq(Message)]
  <2>1. \A n \in Nonces : toyGot[n] \in Seq(Message)
    BY DEF TypeOK
  <2> QED
    BY <2>1, Elements DEF TypeOK
\* What the toy has taken stays a beginning of what was handed in.
<1>1. ASSUME session # NoNonce, UNCHANGED <<toyGot, nonce, toyAck>>, acked' <= Len(toyGot[session])
      PROVE  Heard'
  <2>1. session' = session /\ session \in Nonces /\ sequence <= sequence'
    BY <1>0, <1>1 DEF Grows
  <2>2. /\ \A n \in Nonces : n # session => toyGot[n] = <<>>
        /\ Len(toyGot[session]) <= sequence /\ toyAck <= Len(toyGot[nonce])
        /\ \A k \in 1..Len(toyGot[session]) : toyGot[session][k] = hostSent[k]
    BY <1>1 DEF Heard
  <2>3. \A k \in 1..Len(toyGot[session]) : hostSent'[k] = hostSent[k]
    <3>1. Len(toyGot[session]) <= Len(hostSent) /\ Len(hostSent) \in Nat
      BY <1>0, <2>1, <2>2, Elements DEF Counting
    <3>2. \A k \in 1..Len(hostSent) : hostSent'[k] = hostSent[k]
      BY DEF Grows, IsPrefixOf
    <3> QED
      BY <1>0, <2>1, <3>1, <3>2
  <2>4. Len(toyGot[session]) <= sequence'
    BY <1>0, <2>1, <2>2
  <2> QED
    BY <1>1, <2>1, <2>2, <2>3, <2>4 DEF Heard
<1>2. CASE HostMoves
  <2>0. UNCHANGED <<toyGot, nonce, toyAck>>
    BY <1>2 DEF HostMoves, Enqueue, Detach, ReceiveHello, ReceiveAck, ReceiveMsg, Poll, Clock,
         PollSilent, PollAck, PollHello, PollFirst, PollAgain, PollExhausted, Polling, toyVars
  <2>1. CASE ReceiveAck /\ TakeAck
    <3>1. /\ toHost # <<>> /\ Incoming.kind = "ack" /\ session # NoNonce
          /\ Incoming.session = session /\ Incoming.seq = sequence /\ inFlight
          /\ acked' = acked + 1
      BY <2>1 DEF ReceiveAck, Took, TakeAck, InFlightAcked, Ours
    <3>2. Incoming.seq <= Len(toyGot[Incoming.session])
      BY <3>1, IncomingFrame DEF ToHostOK, ToyFrameOK
    <3>3. acked' <= Len(toyGot[session])
      BY <1>0, <3>1, <3>2 DEF Counting
    <3> QED
      BY <1>1, <2>0, <3>1, <3>3
  <2>2. CASE ReceiveHello /\ OpenSession
    <3>1. session' \in Nonces /\ session = NoNonce /\ UNCHANGED acked
      BY <1>0, <2>2, SessionAssumption, IncomingFrame DEF ReceiveHello, Took, OpenSession
    <3>2. \A n \in Nonces : toyGot[n] = <<>>
      BY <3>1, SessionAssumption DEF Heard
    <3>3. acked = 0 /\ toyAck <= Len(toyGot[nonce])
      BY <3>1 DEF Unopened, Heard
    <3> QED
      BY <1>0, <2>0, <3>1, <3>2, <3>3 DEF Heard
  <2>3. CASE ~(ReceiveAck /\ TakeAck) /\ ~(ReceiveHello /\ OpenSession)
    <3>1. UNCHANGED <<acked, session>>
      BY <1>2, <2>3
         DEF HostMoves, Enqueue, Detach, ReceiveHello, ReceiveAck, ReceiveMsg, Poll, Clock,
         PollSilent, PollAck, PollHello, PollFirst, PollAgain, PollExhausted, Polling, Stop,
         RefuseOwnNonce, RepeatedHello, DeliverMsg, AckOldMsg, IgnoreMsg, hostVars, history
    <3>2. CASE session = NoNonce
      BY <2>0, <3>1, <3>2 DEF Heard
    <3>3. CASE session # NoNonce
      BY <1>1, <2>0, <3>1, <3>3 DEF Heard
    <3> QED
      BY <3>2, <3>3
  <2> QED
    BY <2>1, <2>2, <2>3
<1>3. CASE ToyMoves
  <2>0. UNCHANGED <<session, sequence, hostSent, acked>>
    BY <1>3 DEF ToyMoves, ToyHello, ToySend, ToyAck, ToyRestart, ToyEnqueue, ToyReceiveHello,
         ToyReceiveAck, ToyReceiveMsg, LoseToToy, LoseToHost, hostVars, history
  <2>1. CASE ToyReceiveMsg /\ ToyDeliver
    <3> DEFINE k == Len(toyGot[nonce]) + 1
    <3>1. /\ toToy # <<>> /\ ToyIncoming.kind = "msg" /\ ToyIncoming.session = nonce
          /\ ToyIncoming.seq = k /\ toyAck' = k /\ UNCHANGED nonce
          /\ toyGot' = [toyGot EXCEPT ![nonce] = Append(@, ToyIncoming.body)]
      BY <2>1 DEF ToyReceiveMsg, ToyTook, ToyDeliver, ToyOurs
    <3>2. /\ session # NoNonce /\ nonce = session /\ k \in 1..sequence
          /\ ToyIncoming.body = hostSent[k] /\ ToyIncoming.body \in Message
      BY <3>1, ToyIncomingFrame DEF ToToyOK, HostFrameOK
    <3>3. /\ toyGot'[session] = Append(toyGot[session], hostSent[k])
          /\ \A n \in Nonces : n # session => toyGot'[n] = toyGot[n]
      BY <1>0, <3>1, <3>2
    <3>4. /\ Len(toyGot'[session]) = k /\ toyGot'[session][k] = hostSent[k]
          /\ \A j \in 1..Len(toyGot[session]) : toyGot'[session][j] = toyGot[session][j]
      BY <1>0, <3>2, <3>3, AppendFacts
    <3>5. \A j \in 1..k : toyGot'[session][j] = hostSent[j]
      <4>1. \A j \in 1..Len(toyGot[session]) : toyGot[session][j] = hostSent[j]
        BY <3>2 DEF Heard
      <4>2. \A j \in 1..k : j = k \/ j \in 1..Len(toyGot[session])
        BY <1>0, <3>2
      <4> QED
        BY <3>4, <4>1, <4>2
    <3>6. acked <= k /\ k <= sequence
      BY <1>0, <3>2 DEF Heard
    <3>7. \A n \in Nonces : n # session => toyGot'[n] = <<>>
      BY <3>3 DEF Heard
    <3>8. toyAck' <= Len(toyGot'[nonce'])
      BY <1>0, <3>1, <3>2, <3>4
    <3> HIDE DEF k
    <3> QED
      BY <2>0, <3>4, <3>5, <3>6, <3>7, <3>8 DEF Heard
  <2>2. CASE ~(ToyReceiveMsg /\ ToyDeliver)
    <3>1. UNCHANGED toyGot
      BY <1>3, <2>2 DEF ToyMoves, ToyHello, ToySend, ToyAck, ToyRestart, ToyEnqueue,
         ToyReceiveHello, ToyReceiveAck, ToyReceiveMsg, ToyAckOld, ToyIgnore, LoseToToy,
         LoseToHost, toyVars
    <3>2. toyAck' = 0 \/ (UNCHANGED nonce /\ (toyAck' = toyAck \/ toyAck' <= Len(toyGot[nonce])))
      BY <1>3, <2>2 DEF ToyMoves, ToyHello, ToySend, ToyAck, ToyRestart, ToyEnqueue,
         ToyReceiveHello, ToyReceiveAck, ToyReceiveMsg, ToyAckOld, ToyIgnore, LoseToToy,
         LoseToHost, toyVars
    <3>3. toyAck' <= Len(toyGot'[nonce'])
      BY <1>0, <3>1, <3>2 DEF Heard
    <3> QED
      BY <2>0, <3>1, <3>3 DEF Heard
  <2> QED
    BY <2>1, <2>2
<1> QED
  BY <1>2, <1>3

LEMMA DeliveredStep ==
    ASSUME TypeOK, TypeOK', HostInv, Grows, ToHostOK, Delivered, HostMoves \/ ToyMoves
    PROVE  Delivered'
<1> USE DEF HostInv
<1>0. /\ hostGot \in Seq(Message) /\ Len(hostGot) \in Nat
      /\ session \in Nonces \cup {NoNonce} /\ session' \in Nonces \cup {NoNonce}
      /\ \A n \in Nonces : Len(toySent[n]) \in Nat /\ Len(toySent'[n]) \in Nat
  <2>1. \A n \in Nonces : toySent[n] \in Seq(Message) /\ toySent'[n] \in Seq(Message)
    BY DEF TypeOK
  <2> QED
    BY <2>1, Elements DEF TypeOK
<1>1. CASE session = NoNonce
  <2>1. UNCHANGED hostGot
    BY <1>1 DEF HostMoves, Enqueue, Detach, ReceiveHello, ReceiveAck, ReceiveMsg, Poll, Clock,
         PollSilent, PollAck, PollHello, PollFirst, PollAgain, PollExhausted, Polling,
         DeliverMsg, AckOldMsg, IgnoreMsg, Ours, history,
         ToyMoves, ToyHello, ToySend, ToyAck, ToyRestart, ToyEnqueue, ToyReceiveHello,
         ToyReceiveAck, ToyReceiveMsg, LoseToToy, LoseToHost
  <2>2. hostGot' = <<>>
    BY <1>1, <2>1 DEF Unopened
  <2>3. session' # NoNonce => Len(toySent'[session']) \in Nat
    BY <1>0
  <2> QED
    BY <2>2, <2>3 DEF Delivered
<1>2. CASE session # NoNonce
  <2>1. session' = session /\ session \in Nonces
    BY <1>0, <1>2 DEF Grows
  <2>2. /\ Len(hostGot) <= Len(toySent[session])
        /\ \A k \in 1..Len(hostGot) : hostGot[k] = toySent[session][k]
    BY <1>2 DEF Delivered
  <2>3. /\ Len(toySent[session]) <= Len(toySent'[session])
        /\ \A k \in 1..Len(toySent[session]) : toySent'[session][k] = toySent[session][k]
    BY <2>1 DEF Grows, IsPrefixOf
  <2>4. CASE UNCHANGED hostGot
    <3>1. Len(hostGot) <= Len(toySent'[session])
      BY <1>0, <2>1, <2>2, <2>3
    <3>2. ASSUME NEW k \in 1..Len(hostGot) PROVE hostGot[k] = toySent'[session][k]
      <4>1. k \in 1..Len(toySent[session])
        BY <1>0, <2>1, <2>2
      <4> QED
        BY <2>2, <2>3, <4>1
    <3> QED
      BY <1>2, <2>1, <2>4, <3>1, <3>2 DEF Delivered
  <2>5. CASE ReceiveMsg /\ DeliverMsg
    <3> DEFINE k == Len(hostGot) + 1
    <3>1. /\ toHost # <<>> /\ Incoming.kind = "msg" /\ Incoming.session = session
          /\ Incoming.seq = k /\ hostGot' = Append(hostGot, Incoming.body) /\ UNCHANGED toySent
      BY <2>5 DEF ReceiveMsg, Took, DeliverMsg, Ours, Counting, toyVars
    <3>2. /\ k \in 1..Len(toySent[session]) /\ Incoming.body = toySent[session][k]
          /\ Incoming.body \in Message
      BY <3>1, IncomingFrame DEF ToHostOK, ToyFrameOK
    <3>3. /\ Len(hostGot') = k /\ hostGot'[k] = toySent[session][k]
          /\ \A j \in 1..Len(hostGot) : hostGot'[j] = hostGot[j]
      BY <1>0, <3>1, <3>2, AppendFacts
    <3>4. \A j \in 1..k : j = k \/ j \in 1..Len(hostGot)
      BY <1>0
    <3>5. \A j \in 1..k : hostGot'[j] = toySent[session][j]
      BY <2>2, <3>3, <3>4
    <3>6. k <= Len(toySent[session])
      BY <1>0, <2>1, <3>2
    <3> HIDE DEF k
    <3> QED
      BY <2>1, <3>1, <3>3, <3>5, <3>6 DEF Delivered
  <2>6. UNCHANGED hostGot \/ (ReceiveMsg /\ DeliverMsg)
    BY DEF HostMoves, Enqueue, Detach, ReceiveHello, ReceiveAck, ReceiveMsg, Poll, Clock,
         PollSilent, PollAck, PollHello, PollFirst, PollAgain, PollExhausted, Polling,
         AckOldMsg, IgnoreMsg, history,
         ToyMoves, ToyHello, ToySend, ToyAck, ToyRestart, ToyEnqueue, ToyReceiveHello,
         ToyReceiveAck, ToyReceiveMsg, LoseToToy, LoseToHost
  <2> QED
    BY <2>4, <2>5, <2>6
<1> QED
  BY <1>1, <1>2

IInv == TypeOK /\ HostInv /\ DeliveryInv

LEMMA InvInit == Init => IInv
<1> SUFFICES ASSUME Init PROVE IInv
  OBVIOUS
<1>1. TypeOK /\ HostInv
  BY CoreInit
<1>2. ToToyOK /\ ToHostOK
  BY DEF Init, ToToyOK, ToHostOK
<1>3. Heard /\ Delivered
  BY DEF Init, Heard, Delivered
<1> QED
  BY <1>1, <1>2, <1>3 DEF IInv, DeliveryInv

LEMMA InvStep == IInv /\ [Next]_vars => IInv'
<1> SUFFICES ASSUME IInv, [Next]_vars PROVE IInv'
  OBVIOUS
<1> USE DEF IInv, DeliveryInv
<1>1. TypeOK' /\ HostInv'
  BY CoreStep
<1>2. CASE HostMoves \/ ToyMoves
  <2>1. Grows
    BY <1>2, GrowsHost, GrowsToy
  <2>2. ToToyOK' /\ ToHostOK'
    BY <1>1, <1>2, <2>1, ToToyStep, ToHostStep
  <2>3. Heard' /\ Delivered'
    BY <1>1, <1>2, <2>1, HeardStep, DeliveredStep
  <2> QED
    BY <1>1, <2>2, <2>3
<1>3. CASE UNCHANGED vars
  <2>1. UNCHANGED <<hostVars, toyVars, toToy, toHost, history>>
    BY <1>3 DEF vars
  <2>2. ToToyOK' /\ ToHostOK'
    BY <2>1 DEF hostVars, toyVars, history, ToToyOK, ToHostOK, HostFrameOK, ToyFrameOK
  <2>3. Heard' /\ Delivered'
    BY <2>1 DEF hostVars, toyVars, history, Heard, Delivered
  <2> QED
    BY <1>1, <2>2, <2>3
<1> QED
  BY <1>2, <1>3 DEF Next, HostMoves, ToyMoves

\* Whatever the line loses and however often either side retransmits, the toy
\* has taken a beginning of what the room handed to enqueue.
THEOREM ToyInOrder == Spec => []ToyHearsInOrder
<1>1. IInv => ToyHearsInOrder
  <2> SUFFICES ASSUME IInv, session # NoNonce PROVE IsPrefixOf(toyGot[session], hostSent)
    BY DEF ToyHearsInOrder
  <2>1. /\ sequence \in Nat /\ Len(hostSent) \in Nat /\ Len(toyGot[session]) \in Nat
    BY Elements DEF IInv, TypeOK
  <2>2. Len(toyGot[session]) <= Len(hostSent)
    BY <2>1 DEF IInv, DeliveryInv, Heard, HostInv, Counting
  <2> QED
    BY <2>2 DEF IInv, DeliveryInv, Heard, IsPrefixOf
<1> QED
  BY <1>1, InvInit, InvStep, PTL DEF Spec

\* What the host has delivered to the room is a beginning of what the toy of
\* this session sent; nothing from another start of the toy is among it.
THEOREM HostInOrder == Spec => []HostHearsInOrder
<1>1. IInv => HostHearsInOrder
  BY DEF IInv, HostInv, Unopened, DeliveryInv, Delivered, HostHearsInOrder, IsPrefixOf
<1> QED
  BY <1>1, InvInit, InvStep, PTL DEF Spec

\* An ACK the host counts is for a message the toy has taken: the room's start
\* barrier, which waits for empty queues, waits for the toys.
THEOREM AckIsHeard == Spec => []AckedMeansHeard
<1>1. IInv => AckedMeansHeard
  BY DEF IInv, DeliveryInv, Heard, AckedMeansHeard
<1> QED
  BY <1>1, InvInit, InvStep, PTL DEF Spec

-----------------------------------------------------------------------------
(* Each direction implements a reliable channel                             *)

\* A step of the host's end hands in one message or none; one that opens the
\* session hands in the first.
LEMMA HandedIn ==
    ASSUME IInv, Next
    PROVE  /\ session' = session \/ (session = NoNonce /\ hostSent = <<>> /\ hostGot = <<>>
                                      /\ hostGot' = <<>> /\ toyGot' = toyGot /\ toySent' = toySent)
           /\ hostSent' = hostSent \/ \E m \in Message : hostSent' = Append(hostSent, m)
  <1>0. TypeOK /\ HostInv
    BY DEF IInv
  <1>1. CASE HostMoves
    <2>1. UNCHANGED toyVars
      BY <1>1 DEF HostMoves, Enqueue, Detach, ReceiveHello, ReceiveAck, ReceiveMsg, Poll, Clock,
         PollSilent, PollAck, PollHello, PollFirst, PollAgain, PollExhausted, Polling
    <2>2. hostSent' = hostSent \/ \E m \in Message : hostSent' = Append(hostSent, m)
      BY <1>1, Messages DEF HostMoves, Enqueue, Detach, ReceiveHello, ReceiveAck, ReceiveMsg, Poll,
         Clock, PollSilent, PollAck, PollHello, PollFirst, PollAgain, PollExhausted, Polling, Stop,
         RefuseOwnNonce, OpenSession, RepeatedHello, TakeAck, history
    <2>3. session' = session \/ (session = NoNonce /\ UNCHANGED hostGot)
      BY <1>1 DEF HostMoves, Enqueue, Detach, ReceiveHello, ReceiveAck, ReceiveMsg, Poll, Clock,
         PollSilent, PollAck, PollHello, PollFirst, PollAgain, PollExhausted, Polling, Stop,
         RefuseOwnNonce, OpenSession, RepeatedHello, TakeAck, DeliverMsg, AckOldMsg, IgnoreMsg,
         hostVars, history
    <2> QED
      BY <1>0, <2>1, <2>2, <2>3 DEF HostInv, Unopened, toyVars
  <1>2. CASE ToyMoves
    <2>1. UNCHANGED <<hostVars, history>>
      BY <1>2 DEF ToyMoves, ToyHello, ToySend, ToyAck, ToyRestart, ToyEnqueue, ToyReceiveHello,
         ToyReceiveAck, ToyReceiveMsg, LoseToToy, LoseToHost
    <2> QED
      BY <2>1 DEF hostVars, history
  <1> QED
    BY <1>1, <1>2 DEF Next, HostMoves, ToyMoves

\* What the toy takes next is the next thing that was handed in.
LEMMA TakenByToy ==
    ASSUME IInv, Next, toyGot' # toyGot
    PROVE  /\ session # NoNonce /\ session' = session /\ hostSent' = hostSent
           /\ Len(toyGot[session]) < Len(hostSent)
           /\ toyGot' = [toyGot EXCEPT ![session] = Append(@, hostSent[Len(toyGot[session]) + 1])]
<1>1. ToyReceiveMsg /\ ToyDeliver
  BY DEF Next, Enqueue, Detach, ReceiveHello, ReceiveAck, ReceiveMsg, Poll, Clock, PollSilent,
         PollAck, PollHello, PollFirst, PollAgain, PollExhausted, Polling, ToyHello, ToySend, ToyAck,
         ToyRestart, ToyEnqueue, ToyReceiveHello, ToyReceiveAck, ToyReceiveMsg, ToyAckOld, ToyIgnore,
         LoseToToy, LoseToHost, toyVars
<1>2. /\ toToy # <<>> /\ ToyIncoming.kind = "msg" /\ ToyIncoming.session = nonce
      /\ ToyIncoming.seq = Len(toyGot[nonce]) + 1 /\ UNCHANGED <<hostVars, history>>
      /\ toyGot' = [toyGot EXCEPT ![nonce] = Append(@, ToyIncoming.body)]
  BY <1>1 DEF ToyReceiveMsg, ToyTook, ToyDeliver, ToyOurs
<1>3. /\ session # NoNonce /\ nonce = session /\ ToyIncoming.seq \in 1..sequence
      /\ ToyIncoming.body = hostSent[ToyIncoming.seq]
  BY <1>2, ToyIncomingFrame DEF IInv, DeliveryInv, ToToyOK, HostFrameOK
<1>4. /\ sequence \in Nat /\ sequence <= Len(hostSent) /\ Len(hostSent) \in Nat
      /\ Len(toyGot[session]) \in Nat
  BY <1>3, Elements DEF IInv, HostInv, Counting, TypeOK
<1>5. Len(toyGot[session]) < Len(hostSent)
  BY <1>2, <1>3, <1>4
<1> QED
  BY <1>2, <1>3, <1>5 DEF hostVars, history

\* Every nonce of the toy has a reliable channel from the host: what the host
\* handed in under that session comes out at the toy once and in order.
THEOREM ToToyIsChannel == Spec => ToToyReliable
<1>1. Init => \A n \in Nonces : ToToyChannel(n)!Init
  BY SessionAssumption DEF Init, ToToyChannel!Init
<1>2. IInv /\ [Next]_vars => [\A n \in Nonces : ToToyChannel(n)!Step]_vars
  <2> SUFFICES ASSUME IInv, Next, NEW n \in Nonces PROVE ToToyChannel(n)!Step
    OBVIOUS
  <2>0. toyGot \in [Nonces -> Seq(Message)] /\ hostSent \in Seq(Message) /\ n # NoNonce
    BY SessionAssumption DEF IInv, TypeOK
  <2>1. CASE toyGot' # toyGot
    BY <2>0, <2>1, TakenByToy
       DEF ToToyChannel!Step, ToToyChannel!Receive
  <2>2. CASE toyGot' = toyGot
    <3>1. session' = session \/ (session = NoNonce /\ hostSent = <<>>)
      BY HandedIn
    <3>2. hostSent' = hostSent \/ \E m \in Message : hostSent' = Append(hostSent, m)
      BY HandedIn
    <3> DEFINE in == IF session = n THEN hostSent ELSE <<>>
    <3>3. in' = in \/ \E m \in Message : in' = Append(in, m)
      <4>1. CASE session' = n
        <5>1. in = hostSent /\ in' = hostSent'
          BY <2>0, <3>1, <4>1
        <5> QED
          BY <3>2, <5>1
      <4>2. CASE session' # n
        BY <2>0, <3>1, <4>2
      <4> QED
        BY <4>1, <4>2
    <3> QED
      BY <2>2, <3>3 DEF ToToyChannel!Step, ToToyChannel!Send
  <2> QED
    BY <2>1, <2>2
<1> QED
  BY <1>1, <1>2, InvInit, InvStep, PTL DEF Spec, ToToyReliable

\* What a step delivers to the room is the next thing the toy enqueued.
LEMMA TakenByHost ==
    ASSUME IInv, Next, hostGot' # hostGot
    PROVE  /\ session # NoNonce /\ session' = session /\ toySent' = toySent
           /\ Len(hostGot) < Len(toySent[session])
           /\ hostGot' = Append(hostGot, toySent[session][Len(hostGot) + 1])
<1>1. ReceiveMsg /\ DeliverMsg
  BY DEF Next, Enqueue, Detach, ReceiveHello, ReceiveAck, ReceiveMsg, Poll, Clock, PollSilent,
         PollAck, PollHello, PollFirst, PollAgain, PollExhausted, Polling, ToyHello, ToySend, ToyAck,
         ToyRestart, ToyEnqueue, ToyReceiveHello, ToyReceiveAck, ToyReceiveMsg, AckOldMsg, IgnoreMsg,
         LoseToToy, LoseToHost, history
<1>2. /\ toHost # <<>> /\ Incoming.kind = "msg" /\ Incoming.session = session
      /\ session # NoNonce /\ Incoming.seq = Len(hostGot) + 1 /\ UNCHANGED <<session, toySent>>
      /\ hostGot' = Append(hostGot, Incoming.body)
  BY <1>1 DEF ReceiveMsg, Took, DeliverMsg, Ours, toyVars, IInv, HostInv, Counting
<1>3. /\ Incoming.seq \in 1..Len(toySent[session])
      /\ Incoming.body = toySent[session][Incoming.seq]
  BY <1>2, IncomingFrame DEF IInv, DeliveryInv, ToHostOK, ToyFrameOK
<1>4. Len(hostGot) \in Nat /\ Len(toySent[session]) \in Nat
  BY <1>2, Elements DEF IInv, TypeOK
<1>5. Len(hostGot) < Len(toySent[session])
  BY <1>2, <1>3, <1>4
<1> QED
  BY <1>2, <1>3, <1>5

\* Every nonce of the toy has a reliable channel to the host, empty for every
\* nonce but the session's.
THEOREM ToHostIsChannel == Spec => ToHostReliable
<1>1. Init => \A n \in Nonces : ToHostChannel(n)!Init
  BY SessionAssumption DEF Init, ToHostChannel!Init
<1>2. IInv /\ [Next]_vars => [\A n \in Nonces : ToHostChannel(n)!Step]_vars
  <2> SUFFICES ASSUME IInv, Next, NEW n \in Nonces PROVE ToHostChannel(n)!Step
    OBVIOUS
  <2>0. toySent \in [Nonces -> Seq(Message)] /\ n # NoNonce
    BY SessionAssumption DEF IInv, TypeOK
  <2> DEFINE out == IF session = n THEN hostGot ELSE <<>>
  <2>1. CASE hostGot' # hostGot
    <3>1. /\ session # NoNonce /\ session' = session /\ toySent' = toySent
          /\ Len(hostGot) < Len(toySent[session])
          /\ hostGot' = Append(hostGot, toySent[session][Len(hostGot) + 1])
      BY <2>1, TakenByHost
    <3> QED
      BY <2>0, <3>1 DEF ToHostChannel!Step, ToHostChannel!Receive
  <2>2. CASE hostGot' = hostGot
    <3>1. out' = out
      BY <2>0, <2>2, HandedIn
    <3>2. \/ UNCHANGED toySent
          \/ \E m \in Message : toySent' = [toySent EXCEPT ![nonce] = Append(@, m)]
      BY Messages DEF Next, Enqueue, Detach, ReceiveHello, ReceiveAck, ReceiveMsg, Poll, Clock,
         PollSilent, PollAck, PollHello, PollFirst, PollAgain, PollExhausted, Polling, ToyHello,
         ToySend, ToyAck, ToyRestart, ToyEnqueue, ToyReceiveHello, ToyReceiveAck, ToyReceiveMsg,
         LoseToToy, LoseToHost, toyVars
    <3>3. toySent'[n] = toySent[n] \/ \E m \in Message : toySent'[n] = Append(toySent[n], m)
      BY <2>0, <3>2
    <3> QED
      BY <3>1, <3>3 DEF ToHostChannel!Step, ToHostChannel!Send
  <2> QED
    BY <2>1, <2>2
<1> QED
  BY <1>1, <1>2, InvInit, InvStep, PTL DEF Spec, ToHostReliable

=============================================================================
