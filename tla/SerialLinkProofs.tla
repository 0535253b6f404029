-------------------------- MODULE SerialLinkProofs --------------------------
(***************************************************************************)
(* The link between adapter and room, proved for any number of adapters,    *)
(* sockets and bridges, whatever the rooms side does to the socket; and the *)
(* page's room client, proved to be such a rooms side.                      *)
(***************************************************************************)
EXTENDS StockPage, SequenceTheorems, TLAPS

(* The invariant needs the shape of the state and nothing else: what the    *)
(* link promises is inductive.                                              *)

LinkTypeOK ==
    /\ serial \in Adapters \cup {None} /\ bridge \in Bridges \cup {None}
    /\ socket \in Sockets \cup {None}
    /\ pending \in BOOLEAN /\ connecting \in BOOLEAN
    /\ adapter \in [Adapters -> {"closed", "open", "closing"}]
    /\ sink \in [Adapters -> Bridges \cup {None}] /\ reading \in [Adapters -> BOOLEAN]
    /\ closed \in [Bridges -> BOOLEAN]
    /\ on \in [Bridges -> (Adapters \cup {None}) \X (Sockets \cup {None})]
    /\ open \in SUBSET Sockets

LinkInv == LinkTypeOK /\ LinkHolds

\* A page begins, and is loaded anew, with nothing joined.
LEMMA LinkStarts == (LinkInit => LinkInv) /\ (PageGone => LinkInv')
<1>1. ASSUME LinkInit PROVE LinkInv
  BY <1>1, LinkAssumption
  DEF LinkInit, LinkInv, LinkTypeOK, LinkHolds, OneBridge, Joined, OneAdapter
<1>2. ASSUME PageGone PROVE LinkInv'
  BY <1>2, LinkAssumption
  DEF PageGone, LinkInv, LinkTypeOK, LinkHolds, OneBridge, Joined, OneAdapter, IsOpen
<1> QED
  BY <1>1, <1>2

\* What stopping the page's bridge leaves: none that lives, and no subscriber.
LEMMA StopLeaves ==
    ASSUME LinkInv, Stop(Mine)
    PROVE  /\ closed' \in [Bridges -> BOOLEAN] /\ \A b \in Bridges : closed'[b]
           /\ sink' = [t \in Adapters |-> None]
           /\ on' \in [Bridges -> (Adapters \cup {None}) \X (Sockets \cup {None})]
<1> USE DEF LinkInv, LinkTypeOK
<1>1. closed' = [b \in Bridges |-> closed[b] \/ b \in Mine]
  BY DEF Stop
<1>2. \A b \in Bridges : closed[b] \/ b \in Mine
  BY LinkAssumption DEF LinkHolds, OneBridge, Mine
<1>3. sink' = [t \in Adapters |-> None]
  <2>1. \A t \in Adapters : sink[t] \notin Mine => sink[t] = None
    BY LinkAssumption DEF LinkHolds, OneBridge, Mine
  <2> QED
    BY <2>1 DEF Stop, SinkWithout
<1>4. on' = [b \in Bridges |-> IF b \in Mine THEN <<None, None>> ELSE on[b]]
  BY DEF Stop
<1>5. on' \in [Bridges -> (Adapters \cup {None}) \X (Sockets \cup {None})]
  BY <1>4
<1> QED
  BY <1>1, <1>2, <1>3, <1>5

\* A bridge that is started is the only one, for the adapter and the socket it
\* was started for, and the adapter's reader takes it.
LEMMA StartedAlone ==
    ASSUME LinkInv, NEW b \in Bridges, NEW t \in Adapters, NEW w \in Sockets,
           Started(b, t, w)
    PROVE  /\ bridge' = b
           /\ closed' \in [Bridges -> BOOLEAN] /\ \A x \in Bridges : closed'[x] <=> x # b
           /\ sink' = [u \in Adapters |-> IF u = t THEN b ELSE None]
           /\ on' \in [Bridges -> (Adapters \cup {None}) \X (Sockets \cup {None})]
           /\ on'[b] = <<t, w>>
           /\ reading' \in [Adapters -> BOOLEAN]
<1> USE DEF LinkInv, LinkTypeOK
<1>1. \A x \in Bridges : x # bridge => closed[x]
  BY DEF LinkHolds, OneBridge
<1>2. SinkWithout(Mine) = [u \in Adapters |-> None]
  <2>1. \A u \in Adapters : sink[u] \notin Mine => sink[u] = None
    BY LinkAssumption DEF LinkHolds, OneBridge, Mine
  <2> QED
    BY <2>1 DEF SinkWithout
<1>3. sink' = [u \in Adapters |-> IF u = t THEN b ELSE None]
  BY <1>2 DEF Started
<1>4. closed' = [x \in Bridges |-> (closed[x] \/ x \in Mine) /\ x # b]
  BY DEF Started
<1>5. \A x \in Bridges : closed'[x] <=> x # b
  BY <1>1, <1>4, LinkAssumption DEF Mine
<1>6. on' = [x \in Bridges |-> IF x = b THEN <<t, w>>
                               ELSE IF x \in Mine THEN <<None, None>> ELSE on[x]]
  BY DEF Started
<1>7. on' \in [Bridges -> (Adapters \cup {None}) \X (Sockets \cup {None})]
  BY <1>6
<1>8. reading' = [reading EXCEPT ![t] = TRUE] /\ bridge' = b
  BY DEF Started
<1> QED
  BY <1>3, <1>4, <1>5, <1>6, <1>7, <1>8

-----------------------------------------------------------------------------
(* The steps                                                                *)

\* What the invariant is about, but for the sockets that are open.
joint == <<serial, bridge, socket, pending, connecting, adapter, sink, closed, on>>

\* Bytes, frames and messages do not touch it.
LEMMA JointKept ==
    ASSUME LinkInv, joint' = joint, reading' \in [Adapters -> BOOLEAN],
           open' \in SUBSET Sockets, socket \notin open' \ open
    PROVE  LinkInv'
  BY DEF LinkInv, LinkTypeOK, LinkHolds, OneBridge, Joined, OneAdapter, IsOpen, joint

\* Whoever releases the adapter, it is the page's, and its bridge stops.
LEMMA ReleaseStep ==
    ASSUME LinkInv, serial # None, Stop(Mine), bridge' = None, serial' = None, pending' = TRUE,
           adapter' = [t \in Adapters |-> IF t = serial THEN "closing" ELSE adapter[t]],
           reading' \in [Adapters -> BOOLEAN], UNCHANGED <<socket, connecting, open>>
    PROVE  LinkInv'
<1> USE DEF LinkInv, LinkTypeOK
<1>1. /\ closed' \in [Bridges -> BOOLEAN] /\ \A b \in Bridges : closed'[b]
      /\ sink' = [t \in Adapters |-> None]
      /\ on' \in [Bridges -> (Adapters \cup {None}) \X (Sockets \cup {None})]
  BY StopLeaves
<1>2. OneBridge' /\ Joined'
  BY <1>1 DEF OneBridge, Joined
<1>3. serial \in Adapters /\ adapter[serial] = "open"
  BY DEF LinkHolds, OneAdapter
<1>4. ~connecting /\ \A t \in Adapters : t # serial => adapter[t] = "closed"
  BY <1>3 DEF LinkHolds, OneAdapter
<1>5. OneAdapter'
  BY <1>3, <1>4, LinkAssumption DEF OneAdapter
<1>6. LinkTypeOK'
  BY <1>1
<1> QED
  BY <1>2, <1>5, <1>6 DEF LinkHolds

\* So does ReleaseSerial, called by any bridge that lives, or by the page.
LEMMA ReleaseSerialStep ==
    ASSUME LinkInv, NEW bs \in SUBSET Bridges, bs \subseteq {bridge}, serial # None,
           ReleaseSerial(bs), reading' \in [Adapters -> BOOLEAN]
    PROVE  LinkInv'
<1>1. bs \cup Mine = Mine
  BY LinkAssumption DEF Mine
<1>2. Stop(Mine)
  BY <1>1 DEF ReleaseSerial
<1> QED
  BY <1>2, ReleaseStep DEF ReleaseSerial, LinkInv, LinkTypeOK

\* The rooms side may hand over any socket that is open, or none.
LEMMA SocketStep ==
    ASSUME LinkInv, NEW next \in Sockets \cup {None}, NEW now \in SUBSET Sockets,
           next # None => next \in now, SocketHook(next, now)
    PROVE  LinkInv'
<1> USE DEF LinkInv, LinkTypeOK
<1>1. open' = now /\ socket' = next /\ UNCHANGED <<serial, pending, connecting, adapter>>
  BY DEF SocketHook
<1>2. OneAdapter'
  BY <1>1 DEF LinkHolds, OneAdapter
<1>3. CASE serial # None /\ next # None
  <2>1. PICK t \in Adapters, b \in Bridges : t = serial /\ Started(b, t, next)
    BY <1>3 DEF SocketHook
  <2>2. /\ bridge' = b
        /\ closed' \in [Bridges -> BOOLEAN] /\ \A x \in Bridges : closed'[x] <=> x # b
        /\ sink' = [u \in Adapters |-> IF u = t THEN b ELSE None]
        /\ on' \in [Bridges -> (Adapters \cup {None}) \X (Sockets \cup {None})]
        /\ on'[b] = <<t, next>> /\ reading' \in [Adapters -> BOOLEAN]
    BY <1>3, <2>1, StartedAlone
  <2>3. OneBridge' /\ Joined'
    BY <1>1, <1>3, <2>1, <2>2, LinkAssumption DEF OneBridge, Joined
  <2>4. LinkTypeOK'
    BY <1>1, <2>2
  <2> QED
    BY <1>2, <2>3, <2>4 DEF LinkHolds
<1>4. CASE ~(serial # None /\ next # None)
  <2>1. Stop(Mine) /\ bridge' = None /\ reading' = reading
    BY <1>4 DEF SocketHook
  <2>2. /\ closed' \in [Bridges -> BOOLEAN] /\ \A b \in Bridges : closed'[b]
        /\ sink' = [t \in Adapters |-> None]
        /\ on' \in [Bridges -> (Adapters \cup {None}) \X (Sockets \cup {None})]
    BY <2>1, StopLeaves
  <2>3. OneBridge' /\ Joined'
    BY <1>1, <1>4, <2>1, <2>2, LinkAssumption DEF OneBridge, Joined, IsOpen
  <2>4. LinkTypeOK'
    BY <1>1, <2>1, <2>2
  <2> QED
    BY <1>2, <2>3, <2>4 DEF LinkHolds
<1> QED
  BY <1>3, <1>4

\* The dongle that was chosen gets the bridge a room may be waiting for.
LEMMA ConnectedStep == ASSUME LinkInv, NEW t \in Adapters, Connected(t) PROVE LinkInv'
<1> USE DEF LinkInv, LinkTypeOK
<1>1. /\ connecting /\ serial' = t /\ adapter' = [adapter EXCEPT ![t] = "open"]
      /\ ~pending' /\ ~connecting' /\ UNCHANGED <<socket, open>>
      /\ pending' = FALSE /\ connecting' = FALSE
  BY DEF Connected
<1>2. serial = None /\ bridge = None /\ \A u \in Adapters : adapter[u] = "closed"
  BY <1>1, LinkAssumption DEF LinkHolds, OneAdapter, OneBridge
<1>3. OneAdapter'
  BY <1>1, <1>2 DEF OneAdapter
<1>4. \A b \in Bridges : closed[b]
  BY <1>2, LinkAssumption DEF LinkHolds, OneBridge
<1>5. \A u \in Adapters : sink[u] = None
  BY <1>2, LinkAssumption DEF LinkHolds, OneBridge
<1>6. CASE IsOpen(socket)
  <2>1. PICK w \in Sockets, b \in Bridges : w = socket /\ Started(b, t, w)
    BY <1>2, <1>6 DEF Connected, IsOpen
  <2>2. /\ bridge' = b
        /\ closed' \in [Bridges -> BOOLEAN] /\ \A x \in Bridges : closed'[x] <=> x # b
        /\ sink' = [u \in Adapters |-> IF u = t THEN b ELSE None]
        /\ on' \in [Bridges -> (Adapters \cup {None}) \X (Sockets \cup {None})]
        /\ on'[b] = <<t, w>> /\ reading' \in [Adapters -> BOOLEAN]
    BY <2>1, StartedAlone
  <2>3. OneBridge' /\ Joined'
    BY <1>1, <2>1, <2>2, LinkAssumption DEF OneBridge, Joined
  <2>4. LinkTypeOK'
    BY <1>1, <2>2
  <2> QED
    BY <1>3, <2>3, <2>4 DEF LinkHolds
<1>7. CASE ~IsOpen(socket)
  <2>1. UNCHANGED <<bridge, sink, reading, closed, on>>
    BY <1>7 DEF Connected
  <2>2. OneBridge' /\ Joined'
    BY <1>1, <1>2, <1>4, <1>5, <1>7, <2>1 DEF OneBridge, Joined, IsOpen
  <2>3. LinkTypeOK'
    BY <1>1, <2>1
  <2> QED
    BY <1>3, <2>2, <2>3 DEF LinkHolds
<1> QED
  BY <1>6, <1>7

\* What the page itself does keeps the link right.
LEMMA LinkNextStep == ASSUME LinkInv, LinkNext PROVE LinkInv'
<1> USE DEF LinkInv, LinkTypeOK
<1>1. CASE Click
  <2>1. serial = None /\ ~pending /\ pending' = TRUE /\ connecting' = TRUE
    BY <1>1 DEF Click
  <2>2. \A t \in Adapters : adapter[t] = "closed"
    BY <2>1, LinkAssumption DEF LinkHolds, OneAdapter
  <2>3. UNCHANGED <<serial, bridge, socket, adapter, sink, reading, closed, on, open>>
    BY <1>1 DEF Click, wires
  <2> QED
    BY <2>1, <2>2, <2>3 DEF LinkHolds, OneBridge, Joined, OneAdapter, IsOpen
<1>2. CASE ConnectFails
  BY <1>2 DEF ConnectFails, wires, LinkHolds, OneBridge, Joined, OneAdapter, IsOpen
<1>3. CASE Disconnect \/ Unplugged
  <2>1. serial # None /\ ReleaseSerial({}) /\ reading' = reading
    BY <1>3 DEF Disconnect, Unplugged
  <2> QED
    BY <2>1, ReleaseSerialStep
<1>4. ASSUME NEW t \in Adapters, Connected(t) PROVE LinkInv'
  BY <1>4, ConnectedStep
<1>5. ASSUME NEW t \in Adapters, CloseEnds(t) PROVE LinkInv'
  <2>1. /\ adapter[t] = "closing" /\ adapter' = [adapter EXCEPT ![t] = "closed"]
        /\ pending' = FALSE
        /\ UNCHANGED <<serial, bridge, socket, connecting, sink, reading, closed, on, open>>
    BY <1>5 DEF CloseEnds
  <2>2. ~connecting /\ \A u \in Adapters : u # t => adapter[u] = "closed"
    BY <2>1 DEF LinkHolds, OneAdapter
  <2>3. OneAdapter'
    BY <2>1, <2>2 DEF LinkHolds, OneAdapter
  <2> QED
    BY <2>1, <2>3 DEF LinkHolds, OneBridge, Joined, IsOpen
<1>6. ASSUME NEW t \in Adapters, ReadFails(t) PROVE LinkInv'
  <2>1. reading' \in [Adapters -> BOOLEAN]
    BY <1>6 DEF ReadFails
  <2>2. CASE sink[t] = None
    BY <1>6, <2>1, <2>2, JointKept DEF ReadFails, joint
  <2>3. CASE sink[t] # None
    <3>1. serial # None /\ sink[t] = bridge /\ {sink[t]} \in SUBSET Bridges
      BY <2>3, LinkAssumption DEF LinkHolds, OneBridge
    <3>2. ReleaseSerial({sink[t]})
      BY <1>6, <2>3 DEF ReadFails
    <3>3. PICK b \in Bridges : b = sink[t]
      BY <3>1
    <3>4. ReleaseSerial({b}) /\ {b} \subseteq {bridge}
      BY <3>1, <3>2, <3>3
    <3> QED
      BY <2>1, <3>1, <3>4, ReleaseSerialStep
  <2> QED
    BY <2>2, <2>3
<1>7. ASSUME NEW t \in Adapters, Read(t, 1, FALSE) \/ Read(t, 2, FALSE) \/ Read(t, 2, TRUE)
      PROVE  LinkInv'
  BY <1>7, JointKept DEF Read, joint
<1>8. ASSUME NEW b \in Bridges, NEW s \in Stages, WriteFails(b, s) PROVE LinkInv'
  <2>1. CASE closed[b]
    BY <1>8, <2>1, JointKept DEF WriteFails, wires, joint
  <2>2. CASE ~closed[b]
    <3>1. ReleaseSerial({}) /\ reading' = reading
      BY <1>8, <2>2 DEF WriteFails
    <3>2. serial # None
      BY <2>2, LinkAssumption DEF LinkHolds, OneBridge
    <3> QED
      BY <3>1, <3>2, ReleaseSerialStep
  <2> QED
    BY <2>1, <2>2
<1>9. ASSUME NEW b \in Bridges, NEW s \in Stages, Message(b, s) PROVE LinkInv'
  BY <1>9, JointKept DEF Message, wires, joint
<1>10. ASSUME NEW b \in Bridges, Flush(b) \/ BlobRead(b) \/ Written(b) PROVE LinkInv'
  BY <1>10, JointKept DEF Flush, BlobRead, Written, wires, joint
<1> QED
  BY <1>1, <1>2, <1>3, <1>4, <1>5, <1>6, <1>7, <1>8, <1>9, <1>10 DEF LinkNext

\* So does whatever the rooms side does, and a page that is loaded anew.
LEMMA LinkKept == LinkInv /\ [LinkNext \/ Rooms \/ PageGone]_linkVars => LinkInv'
<1> SUFFICES ASSUME LinkInv, [LinkNext \/ Rooms \/ PageGone]_linkVars PROVE LinkInv'
  OBVIOUS
<1>1. CASE LinkNext
  BY <1>1, LinkNextStep
<1>2. CASE Rooms
  <2>1. ASSUME NEW next \in Sockets \cup {None}, NEW now \in SUBSET Sockets,
               next # None => next \in now, SocketHook(next, now)
        PROVE  LinkInv'
    BY <2>1, SocketStep
  <2>2. CASE /\ open' \in SUBSET Sockets /\ socket \notin open' \ open
             /\ UNCHANGED <<serial, bridge, socket, pending, connecting, wires>>
    BY <2>2, JointKept DEF wires, joint, LinkInv, LinkTypeOK
  <2> QED
    BY <1>2, <2>1, <2>2 DEF Rooms
<1>3. CASE PageGone
  BY <1>3, LinkStarts
<1>4. CASE UNCHANGED linkVars
  BY <1>4, JointKept DEF linkVars, wires, joint, LinkInv, LinkTypeOK
<1> QED
  BY <1>1, <1>2, <1>3, <1>4

\* Whatever the browser, the toy and the rooms side do, there is one bridge at
\* most, it joins the open adapter to the open socket, and never are two ports
\* open or closing.
THEOREM LinkIsJoined == LinkSpec => []LinkHolds
<1>1. LinkInv => LinkHolds
  BY DEF LinkInv
<1> QED
  BY <1>1, LinkStarts, LinkKept, PTL DEF LinkSpec

\* A write begins only while its bridge lives, and a write of a stopped bridge
\* that fails takes nobody's adapter away.
THEOREM WritesAreLive == LinkSpec => WritesLive
<1> DEFINE Live == /\ \A b \in Bridges : <<b, "write">> \in writes' \ writes => ~closed'[b]
                   /\ \A b \in Bridges, s \in Stages, t \in Adapters :
                         <<b, s>> \in writes \ writes' /\ closed[b]
                            => ~(adapter[t] = "open" /\ adapter'[t] = "closing")
<1>1. [LinkNext \/ Rooms \/ PageGone]_linkVars => [Live]_linkVars
  <2> SUFFICES ASSUME LinkNext \/ Rooms \/ PageGone PROVE Live
    OBVIOUS
  <2>1. CASE UNCHANGED writes
    BY <2>1
  <2>2. ASSUME NEW x \in Bridges, BlobRead(x) PROVE Live
    BY <2>2 DEF BlobRead, wires
  <2>3. ASSUME NEW x \in Bridges, Written(x) PROVE Live
    BY <2>3 DEF Written, wires
  <2>4. ASSUME NEW x \in Bridges, NEW r \in Stages, Message(x, r) PROVE Live
    BY <2>4 DEF Message, wires
  <2>5. ASSUME NEW x \in Bridges, NEW r \in Stages, WriteFails(x, r) PROVE Live
    BY <2>5 DEF WriteFails, wires
  <2>6. CASE PageGone
    BY <2>6 DEF PageGone
  <2>7. CASE Rooms
    BY <2>1, <2>7 DEF Rooms, SocketHook
  <2>8. CASE Click \/ ConnectFails \/ Disconnect \/ Unplugged
    BY <2>1, <2>8 DEF Click, ConnectFails, Disconnect, Unplugged
  <2>9. ASSUME NEW t \in Adapters,
               Connected(t) \/ CloseEnds(t) \/ ReadFails(t)
                 \/ Read(t, 1, FALSE) \/ Read(t, 2, FALSE) \/ Read(t, 2, TRUE)
        PROVE  Live
    BY <2>1, <2>9 DEF Connected, CloseEnds, ReadFails, Read
  <2>10. ASSUME NEW b \in Bridges, Flush(b) PROVE Live
    BY <2>1, <2>10 DEF Flush
  <2> QED
    BY <2>2, <2>3, <2>4, <2>5, <2>6, <2>7, <2>8, <2>9, <2>10 DEF LinkNext
<1> QED
  BY <1>1, PTL DEF LinkSpec, WritesLive

-----------------------------------------------------------------------------
(* The toy's bytes                                                          *)

BytesTypeOK ==
    /\ batch \in [Bridges -> Seq(Nat)] /\ sent \in [Bridges -> Seq(Nat)]
    /\ fed \in [Bridges -> Nat] /\ timer \in [Bridges -> BOOLEAN]

\* What the batchers promise is inductive beside what the link promises.
BytesInv == LinkInv /\ BytesTypeOK /\ ToyBytes

\* A toy's first m bytes, and the n after those.
First(m) == [k \in 1..m |-> k]
More(m, n) == [k \in 1..n |-> m + k]

\* Together they are its first m + n.
LEMMA Consecutive ==
    ASSUME NEW m \in Nat, NEW n \in Nat
    PROVE  First(m) \o More(m, n) = First(m + n)
  BY DEF First, More

\* However a frame is cut, what is sent and what waits are together what there
\* was and the new bytes.
CutsRight(s, t, d) ==
    /\ d # <<>> /\ t \o d # <<>> /\ t \o d \in Seq(Nat) /\ <<>> \in Seq(Nat)
    /\ s \o (t \o d) \in Seq(Nat) /\ (s \o (t \o d)) \o <<>> = (s \o t) \o d
    /\ s \o (t \o <<>>) \in Seq(Nat) /\ (s \o (t \o <<>>)) \o d = (s \o t) \o d
    /\ s \o (<<>> \o (t \o d)) \in Seq(Nat) /\ (s \o (<<>> \o (t \o d))) \o <<>> = (s \o t) \o d
    /\ s \o (<<>> \o <<>>) \in Seq(Nat) /\ (s \o (<<>> \o <<>>)) \o (t \o d) = (s \o t) \o d
\* It is so for any frames.
LEMMA Cut ==
    ASSUME NEW s \in Seq(Nat), NEW t \in Seq(Nat), NEW d \in Seq(Nat), Len(d) # 0
    PROVE  CutsRight(s, t, d)
<1>1. s \o (t \o d) = (s \o t) \o d
  BY ConcatAssociative
<1>2. /\ t \o d \in Seq(Nat) /\ s \o t \in Seq(Nat) /\ <<>> \in Seq(Nat)
      /\ t \o d # <<>> /\ d # <<>>
  <2>1. Len(t \o d) # 0 /\ t \o d \in Seq(Nat) /\ s \o t \in Seq(Nat)
    BY ConcatProperties
  <2> QED
    BY <2>1
<1>3. s \o (t \o d) \in Seq(Nat)
  BY <1>2, ConcatProperties
<1>4. /\ <<>> \o <<>> = <<>> /\ t \o <<>> = t /\ s \o <<>> = s
      /\ <<>> \o (t \o d) = t \o d /\ (s \o (t \o d)) \o <<>> = s \o (t \o d)
  BY <1>2, <1>3, ConcatEmptySeq
<1> QED
  BY <1>1, <1>2, <1>3, <1>4, Zenon DEF CutsRight

\* The batcher of a bridge that lives, given more bytes.
LEMMA PushStep ==
    ASSUME BytesTypeOK, NEW b \in Bridges, ~closed[b], NEW data \in Seq(Nat), Len(data) # 0,
           NEW line \in BOOLEAN, Push(b, data, line)
    PROVE  /\ sent' \in [Bridges -> Seq(Nat)] /\ batch' \in [Bridges -> Seq(Nat)]
           /\ timer' \in [Bridges -> BOOLEAN]
           /\ \A x \in Bridges \ {b} :
                 sent'[x] = sent[x] /\ batch'[x] = batch[x] /\ timer'[x] = timer[x]
           /\ timer'[b] <=> batch'[b] # <<>>
           /\ sent'[b] \o batch'[b] = (sent[b] \o batch[b]) \o data
           /\ shown' \subseteq shown \cup {b}
<1> DEFINE full == Len(batch[b]) + Len(data) > MaxBatch
           joined == IF full THEN data ELSE batch[b] \o data
           now == Len(joined) >= MaxBatch \/ line
           frames == (IF full THEN batch[b] ELSE <<>>) \o (IF now THEN joined ELSE <<>>)
           rest == IF now THEN <<>> ELSE joined
<1>1. batch[b] \in Seq(Nat) /\ sent[b] \in Seq(Nat)
  BY DEF BytesTypeOK
<1>2. /\ sent' = [sent EXCEPT ![b] = @ \o frames]
      /\ batch' = [batch EXCEPT ![b] = rest]
      /\ timer' = [timer EXCEPT ![b] = ~now]
      /\ shown' \subseteq shown \cup {b}
  BY DEF Push
<1>3. full \in BOOLEAN /\ now \in BOOLEAN
  OBVIOUS
<1>4. /\ sent[b] \o frames \in Seq(Nat) /\ rest \in Seq(Nat)
      /\ (sent[b] \o frames) \o rest = (sent[b] \o batch[b]) \o data
      /\ rest # <<>> <=> ~now
  <2> HIDE DEF full, now
  <2>1. ASSUME NEW s \in Seq(Nat), NEW t \in Seq(Nat), s = sent[b], t = batch[b]
        PROVE  /\ s \o frames \in Seq(Nat) /\ rest \in Seq(Nat)
               /\ (s \o frames) \o rest = (s \o t) \o data
               /\ rest # <<>> <=> ~now
    <3>a. CutsRight(s, t, data)
      BY Cut
    <3>1. CASE full /\ now
      <4>1. frames = t \o data /\ rest = <<>>
        BY <2>1, <3>1, Zenon
      <4> HIDE DEF frames, rest
      <4> QED
        BY <3>1, <4>1, <3>a, Zenon DEF CutsRight
    <3>2. CASE full /\ ~now
      <4>1. frames = t \o <<>> /\ rest = data
        BY <2>1, <3>2, Zenon
      <4> HIDE DEF frames, rest
      <4> QED
        BY <3>2, <4>1, <3>a, Zenon DEF CutsRight
    <3>3. CASE ~full /\ now
      <4>1. frames = <<>> \o (t \o data) /\ rest = <<>>
        BY <2>1, <3>3, Zenon
      <4> HIDE DEF frames, rest
      <4> QED
        BY <3>3, <4>1, <3>a, Zenon DEF CutsRight
    <3>4. CASE ~full /\ ~now
      <4>1. frames = <<>> \o <<>> /\ rest = t \o data
        BY <2>1, <3>4, Zenon
      <4> HIDE DEF frames, rest
      <4> QED
        BY <3>4, <4>1, <3>a, Zenon DEF CutsRight
    <3> QED
      BY <3>1, <3>2, <3>3, <3>4, Zenon
  <2> QED
    BY <1>1, <2>1
<1> HIDE DEF frames, now, joined, rest
<1>5. sent'[b] = sent[b] \o frames /\ batch'[b] = rest /\ timer'[b] = ~now
  BY <1>2 DEF BytesTypeOK
<1> QED
  BY <1>2, <1>3, <1>4, <1>5 DEF BytesTypeOK

\* The toy's bytes and frames that are not touched stay in order, whichever
\* other sockets open.
LEMMA BytesKept ==
    ASSUME BytesInv, LinkInv', UNCHANGED <<batches, closed, on, socket>>,
           socket \notin open' \ open, shown' \subseteq {bridge'}
    PROVE  BytesInv'
<1>1. \A b \in Bridges : ~closed[b] => on[b][2] = socket /\ socket # None
  BY LinkAssumption DEF BytesInv, LinkInv, LinkHolds, OneBridge
<1>2. FramesInOrder'
  BY <1>1 DEF BytesInv, ToyBytes, FramesInOrder, IsOpen, batches
<1> QED
  BY <1>2 DEF BytesInv, BytesTypeOK, ToyBytes, PreviewIsLive, batches

\* When all bridges have stopped nothing waits.
LEMMA BytesStopped ==
    ASSUME BytesInv, LinkInv', NEW bs, Mine \subseteq bs, Stop(bs), shown' = {}
    PROVE  BytesInv'
<1>1. \A b \in Bridges : b \notin bs => closed[b] /\ batch[b] = <<>> /\ ~timer[b]
  <2>1. \A b \in Bridges : b \notin bs => closed[b]
    BY LinkAssumption DEF BytesInv, LinkInv, LinkTypeOK, LinkHolds, OneBridge, Mine
  <2> QED
    BY <2>1, Zenon DEF BytesInv, ToyBytes, FramesInOrder
<1>2. \A b \in Bridges : closed'[b] /\ batch'[b] = <<>> /\ timer'[b] = FALSE
  BY <1>1 DEF Stop, Discard, BytesInv, BytesTypeOK
<1>3. BytesTypeOK'
  BY DEF Stop, Discard, BytesInv, BytesTypeOK
<1>4. FramesInOrder'
  BY <1>2 DEF FramesInOrder
<1> QED
  BY <1>3, <1>4 DEF BytesInv, ToyBytes, PreviewIsLive

\* A bridge that has just started has got and sent nothing.
LEMMA BytesStarted ==
    ASSUME BytesInv, LinkInv', NEW b \in Bridges, NEW t \in Adapters, NEW w \in Sockets,
           Started(b, t, w), shown' = {}
    PROVE  BytesInv'
<1>1. \A x \in Bridges : x \notin Mine => closed[x] /\ batch[x] = <<>> /\ ~timer[x]
  BY LinkAssumption
  DEF BytesInv, LinkInv, LinkTypeOK, LinkHolds, OneBridge, Mine, ToyBytes, FramesInOrder
<1>2. \A x \in Bridges : batch'[x] = <<>> /\ timer'[x] = FALSE
  BY <1>1 DEF Started, Discard
<1>3. fed'[b] = 0 /\ sent'[b] = <<>> /\ \A x \in Bridges : closed'[x] <=> x # b
  <2>1. \A x \in Bridges : closed'[x] <=> x # b
    BY StartedAlone DEF BytesInv
  <2> QED
    BY <2>1 DEF Started
<1>4. BytesTypeOK'
  BY DEF Started, Discard, BytesInv, BytesTypeOK
<1>5. <<>> \o <<>> = [k \in 1..0 |-> k]
  OBVIOUS
<1>6. FramesInOrder'
  BY <1>2, <1>3, <1>5 DEF FramesInOrder
<1> QED
  BY <1>4, <1>6 DEF BytesInv, ToyBytes, PreviewIsLive

\* Bytes from the adapter go to the one bridge that lives.
LEMMA ReadStep ==
    ASSUME BytesInv, LinkInv', NEW t \in Adapters, NEW n \in Nat \ {0}, NEW line \in BOOLEAN,
           Read(t, n, line)
    PROVE  BytesInv'
<1> DEFINE b == sink[t]
<1>1. UNCHANGED <<closed, on, socket, open, bridge>>
  BY DEF Read
<1>2. CASE b # None /\ IsOpen(on[b][2])
  <2>1. b \in Bridges /\ b = bridge /\ ~closed[b]
    BY <1>2, LinkAssumption DEF BytesInv, LinkInv, LinkTypeOK, LinkHolds, OneBridge
  <2>2. fed' = [fed EXCEPT ![b] = @ + n] /\ Push(b, [k \in 1..n |-> fed[b] + k], line)
    BY <1>2 DEF Read
  <2> HIDE DEF b
  <2>3. PICK data : data = More(fed[b], n)
    OBVIOUS
  <2>4. Push(b, data, line)
    BY <2>2, <2>3, Zenon DEF More
  <2>5. /\ sent' \in [Bridges -> Seq(Nat)] /\ batch' \in [Bridges -> Seq(Nat)]
        /\ timer' \in [Bridges -> BOOLEAN]
        /\ \A x \in Bridges \ {b} :
              sent'[x] = sent[x] /\ batch'[x] = batch[x] /\ timer'[x] = timer[x]
        /\ timer'[b] <=> batch'[b] # <<>>
        /\ sent'[b] \o batch'[b] = (sent[b] \o batch[b]) \o data
        /\ shown' \subseteq shown \cup {b}
    <3>1. BytesTypeOK /\ ~closed[b] /\ b \in Bridges /\ fed[b] \in Nat
      BY <2>1 DEF BytesInv, BytesTypeOK
    <3>2. data \in Seq(Nat) /\ Len(data) = n
      BY <2>3, <3>1 DEF More
    <3> QED
      BY <2>4, <3>1, <3>2, PushStep
  <2>6. fed[b] \in Nat /\ fed'[b] = fed[b] + n /\ \A x \in Bridges \ {b} : fed'[x] = fed[x]
    BY <2>1, <2>2 DEF BytesInv, BytesTypeOK
  <2>7. fed' \in [Bridges -> Nat]
    BY <2>1, <2>2, <2>6 DEF BytesInv, BytesTypeOK
  <2>8. sent[b] \o batch[b] = First(fed[b])
    BY <1>2, <2>1, Zenon DEF b, BytesInv, ToyBytes, FramesInOrder, First
  <2>9. sent'[b] \o batch'[b] = First(fed'[b])
    BY <2>3, <2>5, <2>6, <2>8, Consecutive
  <2>10. FramesInOrder'
    <3>1. ASSUME NEW x \in Bridges
          PROVE  /\ timer'[x] <=> batch'[x] # <<>>
                 /\ closed'[x] => batch'[x] = <<>>
                 /\ ~closed'[x] /\ IsOpen(on[x][2])' => sent'[x] \o batch'[x] = First(fed'[x])
      <4>1. CASE x = b
        BY <1>1, <2>1, <2>5, <2>9, <4>1
      <4>2. CASE x # b
        BY <1>1, <2>5, <2>6, <4>2, Zenon
        DEF BytesInv, ToyBytes, FramesInOrder, IsOpen, First
      <4> QED
        BY <4>1, <4>2
    <3> QED
      BY <3>1, Zenon DEF FramesInOrder, IsOpen, First
  <2>11. PreviewIsLive'
    BY <1>1, <2>1, <2>5 DEF BytesInv, ToyBytes, PreviewIsLive
  <2> QED
    BY <2>5, <2>7, <2>10, <2>11 DEF BytesInv, BytesTypeOK, ToyBytes
<1>3. CASE ~(b # None /\ IsOpen(on[b][2]))
  <2>1. UNCHANGED <<batches, shown>>
    BY <1>3 DEF Read
  <2> QED
    BY <1>1, <2>1, BytesKept DEF BytesInv, ToyBytes, PreviewIsLive
<1> QED
  BY <1>2, <1>3

\* The timer sends what waits, or drops what nobody is there for.
LEMMA FlushStep == ASSUME BytesInv, LinkInv', NEW b \in Bridges, Flush(b) PROVE BytesInv'
<1> DEFINE goes == ~closed[b] /\ IsOpen(on[b][2]) /\ batch[b] # <<>>
<1>1. /\ UNCHANGED <<closed, on, socket, open, bridge, fed>>
      /\ batch' = [batch EXCEPT ![b] = <<>>] /\ timer' = [timer EXCEPT ![b] = FALSE]
      /\ sent' = IF goes THEN [sent EXCEPT ![b] = @ \o batch[b]] ELSE sent
      /\ shown' = IF goes THEN shown \cup {b} ELSE shown
      /\ timer[b]
  BY DEF Flush, wires
<1>2. batch[b] # <<>> /\ ~closed[b] /\ b = bridge
  BY <1>1 DEF BytesInv, LinkInv, LinkHolds, OneBridge, ToyBytes, FramesInOrder
<1>3. batch[b] \in Seq(Nat) /\ sent[b] \in Seq(Nat)
  BY DEF BytesInv, BytesTypeOK
<1>4. (sent[b] \o batch[b]) \o <<>> = sent[b] \o batch[b] /\ sent[b] \o batch[b] \in Seq(Nat)
  BY <1>3, ConcatEmptySeq
<1>5. BytesTypeOK'
  BY <1>1, <1>4 DEF BytesInv, BytesTypeOK
<1>6. FramesInOrder'
  BY <1>1, <1>2, <1>4 DEF BytesInv, BytesTypeOK, ToyBytes, FramesInOrder, IsOpen
<1> QED
  BY <1>1, <1>2, <1>5, <1>6 DEF BytesInv, ToyBytes, PreviewIsLive

\* What the page itself does keeps the bytes in order.
LEMMA BytesNextStep == ASSUME BytesInv, LinkInv', LinkNext PROVE BytesInv'
<1> USE DEF BytesInv, LinkInv, LinkTypeOK
<1>a. shown \subseteq {bridge}
  BY DEF ToyBytes, PreviewIsLive
<1>b. ASSUME serial # None, NEW bs, Mine \subseteq bs, ReleaseSerial(bs \ Mine) \/ ReleaseSerial(bs)
      PROVE  BytesInv'
  <2>1. Stop(bs) /\ shown' = {}
    <3>1. (bs \ Mine) \cup Mine = bs /\ bs \cup Mine = bs
      BY <1>b
    <3> QED
      BY <1>b, <3>1 DEF ReleaseSerial
  <2> QED
    BY <1>b, <2>1, BytesStopped
<1>c. ASSUME serial # None, ReleaseSerial({}) PROVE BytesInv'
  <2>1. Mine \ Mine = {}
    OBVIOUS
  <2> QED
    BY <1>b, <1>c, <2>1
<1>1. CASE Click \/ ConnectFails
  BY <1>1, <1>a, BytesKept DEF Click, ConnectFails, wires
<1>2. CASE Disconnect \/ Unplugged
  BY <1>2, <1>c DEF Disconnect, Unplugged
<1>3. ASSUME NEW t \in Adapters, Connected(t) PROVE BytesInv'
  <2>1. serial = None /\ bridge = None
    BY <1>3, LinkAssumption DEF Connected, LinkHolds, OneAdapter, OneBridge
  <2>2. CASE IsOpen(socket)
    <3>1. PICK w \in Sockets, b \in Bridges : w = socket /\ Started(b, t, w) /\ shown' = {}
      BY <1>3, <2>1, <2>2 DEF Connected, IsOpen
    <3> QED
      BY <3>1, BytesStarted
  <2>3. CASE ~IsOpen(socket)
    BY <1>3, <2>3, <1>a, BytesKept DEF Connected
  <2> QED
    BY <2>2, <2>3
<1>4. ASSUME NEW t \in Adapters, CloseEnds(t) PROVE BytesInv'
  BY <1>4, <1>a, BytesKept DEF CloseEnds
<1>5. ASSUME NEW t \in Adapters, ReadFails(t) PROVE BytesInv'
  <2>1. CASE sink[t] = None
    BY <1>5, <2>1, <1>a, BytesKept DEF ReadFails, batches
  <2>2. CASE sink[t] # None
    <3>1. serial # None /\ sink[t] = bridge /\ Mine = {sink[t]}
      BY <2>2, LinkAssumption DEF LinkHolds, OneBridge, Mine
    <3>2. ReleaseSerial(Mine)
      BY <1>5, <2>2, <3>1 DEF ReadFails
    <3> QED
      BY <3>1, <3>2, <1>b
  <2> QED
    BY <2>1, <2>2
<1>6. ASSUME NEW t \in Adapters, Read(t, 1, FALSE) \/ Read(t, 2, FALSE) \/ Read(t, 2, TRUE)
      PROVE  BytesInv'
  <2>1. ASSUME NEW n \in {1, 2}, NEW line \in BOOLEAN, Read(t, n, line) PROVE BytesInv'
    <3>1. n \in Nat \ {0}
      OBVIOUS
    <3> QED
      BY <2>1, <3>1, ReadStep
  <2>2. Read(t, 1, FALSE) => BytesInv'
    BY <2>1
  <2>3. Read(t, 2, FALSE) => BytesInv'
    BY <2>1
  <2>4. Read(t, 2, TRUE) => BytesInv'
    BY <2>1
  <2> QED
    BY <1>6, <2>2, <2>3, <2>4
<1>7. ASSUME NEW b \in Bridges, NEW s \in Stages, WriteFails(b, s) PROVE BytesInv'
  <2>1. CASE closed[b]
    BY <1>7, <2>1, <1>a, BytesKept DEF WriteFails, wires
  <2>2. CASE ~closed[b]
    BY <1>7, <2>2, <1>c, LinkAssumption DEF WriteFails, LinkHolds, OneBridge
  <2> QED
    BY <2>1, <2>2
<1>8. ASSUME NEW b \in Bridges, NEW s \in Stages, Message(b, s) PROVE BytesInv'
  BY <1>8, <1>a, BytesKept DEF Message, wires
<1>9. ASSUME NEW b \in Bridges, BlobRead(b) \/ Written(b) PROVE BytesInv'
  BY <1>9, <1>a, BytesKept DEF BlobRead, Written, wires
<1> QED
  BY <1>1, <1>2, <1>3, <1>4, <1>5, <1>6, <1>7, <1>8, <1>9, FlushStep DEF LinkNext

\* What the toy says reaches the room in order, with nothing left out and
\* nothing of another bridge, in whatever pieces it is read and sent; and the
\* preview shows nothing of a toy that is not there any more.
THEOREM BytesAreInOrder == LinkSpec => []ToyBytes
<1>1. LinkInit => BytesInv
  <2>1. <<>> \o <<>> = [k \in 1..0 |-> k]
    OBVIOUS
  <2> QED
    BY <2>1, LinkStarts
    DEF LinkInit, BytesInv, BytesTypeOK, ToyBytes, FramesInOrder, PreviewIsLive
<1>2. BytesInv /\ [LinkNext \/ Rooms \/ PageGone]_linkVars => BytesInv'
  <2> SUFFICES ASSUME BytesInv, [LinkNext \/ Rooms \/ PageGone]_linkVars PROVE BytesInv'
    OBVIOUS
  <2>a. LinkInv'
    BY LinkKept DEF BytesInv
  <2>b. shown \subseteq {bridge}
    BY DEF BytesInv, ToyBytes, PreviewIsLive
  <2>1. CASE LinkNext
    BY <2>1, <2>a, BytesNextStep
  <2>2. ASSUME NEW next \in Sockets \cup {None}, NEW now \in SUBSET Sockets, SocketHook(next, now)
        PROVE  BytesInv'
    <3>1. CASE serial # None /\ next # None
      <4>1. PICK t \in Adapters, b \in Bridges : t = serial /\ Started(b, t, next) /\ shown' = {}
        BY <2>2, <3>1 DEF SocketHook, BytesInv, LinkInv, LinkTypeOK
      <4> QED
        BY <2>a, <3>1, <4>1, BytesStarted
    <3>2. CASE ~(serial # None /\ next # None)
      BY <2>2, <2>a, <3>2, BytesStopped DEF SocketHook
    <3> QED
      BY <3>1, <3>2
  <2>3. CASE /\ open' \in SUBSET Sockets /\ socket \notin open' \ open /\ shown' \in {{}, shown}
             /\ UNCHANGED <<serial, bridge, socket, pending, connecting, wires, batches, writes>>
    BY <2>3, <2>a, <2>b, BytesKept DEF wires
  <2>4. CASE PageGone
    <3>1. BytesTypeOK' /\ ToyBytes'
      BY <2>4 DEF PageGone, BytesTypeOK, ToyBytes, FramesInOrder, PreviewIsLive
    <3> QED
      BY <2>a, <3>1 DEF BytesInv
  <2>5. CASE UNCHANGED linkVars
    BY <2>5, <2>a, <2>b, BytesKept DEF linkVars, wires
  <2> QED
    BY <2>1, <2>2, <2>3, <2>4, <2>5 DEF Rooms
<1>3. BytesInv => ToyBytes
  BY DEF BytesInv
<1> QED
  BY <1>1, <1>2, <1>3, PTL DEF LinkSpec

-----------------------------------------------------------------------------
(* The room client                                                          *)

PageTypeOK ==
    /\ open \in SUBSET Sockets /\ opening \in SUBSET Sockets
    /\ current \in Sockets \cup {None}
    /\ roomOf \in [Sockets -> Seats \cup {None}]
    /\ told \in [Sockets -> {"nothing", "no", "yes"}]
    /\ entry \in Seats \cup {None} /\ held \in SUBSET Seats

\* To the properties it adds that no socket but the current one is opening,
\* that one to be closed is closed, and that nobody asks for a room in a room.
PageInv ==
    /\ PageTypeOK /\ SeatHolds
    /\ opening \subseteq {current} /\ losing \cap (open \cup opening) = {}
    /\ stored = entry /\ (busy = "ask" => entry = None)

\* A page begins without a room.
LEMMA PageStarts == Init => PageInv
<1> SUFFICES ASSUME Init PROVE PageInv
  OBVIOUS
<1>1. /\ roomOf = [w \in Sockets |-> None] /\ told = [w \in Sockets |-> "nothing"]
      /\ open = {} /\ opening = {} /\ losing = {} /\ held = {} /\ socket = None
      /\ entry = None /\ stored = None /\ current = None /\ busy = "no"
  BY DEF Init, LinkInit
<1> QED
  BY <1>1, LinkAssumption DEF PageInv, PageTypeOK, SeatHolds, SocketIsCurrent, SeatRemembered

\* No step of the link touches the room or its sockets.
LEMMA LinkLeavesRooms == LinkNext => UNCHANGED <<socket, open>>
<1> USE DEF wires
<1>1. ASSUME Click \/ ConnectFails \/ Disconnect \/ Unplugged PROVE UNCHANGED <<socket, open>>
  BY <1>1 DEF Click, ConnectFails, Disconnect, Unplugged, ReleaseSerial
<1>2. ASSUME NEW t \in Adapters,
             Connected(t) \/ CloseEnds(t) \/ ReadFails(t)
               \/ Read(t, 1, FALSE) \/ Read(t, 2, FALSE) \/ Read(t, 2, TRUE)
      PROVE  UNCHANGED <<socket, open>>
  BY <1>2 DEF Connected, CloseEnds, ReadFails, Read, ReleaseSerial
<1>3. ASSUME NEW b \in Bridges, Flush(b) \/ BlobRead(b) \/ Written(b)
      PROVE  UNCHANGED <<socket, open>>
  BY <1>3 DEF Flush, BlobRead, Written
<1>4. ASSUME NEW b \in Bridges, NEW s \in Stages, Message(b, s) \/ WriteFails(b, s)
      PROVE  UNCHANGED <<socket, open>>
  BY <1>4 DEF Message, WriteFails, ReleaseSerial
<1> QED
  BY <1>1, <1>2, <1>3, <1>4 DEF LinkNext

\* The new socket of a room: none of it is open yet, and the old one is dropped.
LEMMA ConnectStep ==
    ASSUME PageInv, NEW e \in Seats, Connect(e), held' \in SUBSET Seats, held' \subseteq {e}
    PROVE  PageInv'
<1> USE DEF PageInv, PageTypeOK, SeatHolds
<1>1. PICK w \in Sockets : current' = w /\ Unheard(w)
  BY DEF Connect
<1>2. /\ open' = open \ {current} /\ socket' = None
      /\ opening' = (opening \ {current}) \cup {w}
      /\ losing' = losing \cup ({current} \cap (open \cup opening))
      /\ roomOf' = [roomOf EXCEPT ![w] = e] /\ told' = [told EXCEPT ![w] = "nothing"]
      /\ entry' = e /\ stored' = e /\ busy' = "connect"
  BY <1>1 DEF Connect, SocketHook
<1>3. open' = {} /\ opening' = {w}
  BY <1>2 DEF SocketIsCurrent
<1>4. losing' \cap (open' \cup opening') = {}
  BY <1>1, <1>2, <1>3 DEF Unheard
<1>5. SocketIsCurrent'
  BY <1>1, <1>2, <1>3 DEF SocketIsCurrent
<1>6. SeatRemembered'
  BY <1>2 DEF SeatRemembered
<1> QED
  BY <1>1, <1>2, <1>3, <1>4, <1>5, <1>6

\* A room is forgotten with its socket, once the server keeps no seat of it.
LEMMA ForgottenStep ==
    ASSUME PageInv, Forgotten, losing' \subseteq losing \cup {current}, held' = {}, busy' # "ask",
           UNCHANGED <<roomOf, told>>
    PROVE  PageInv'
<1> USE DEF PageInv, PageTypeOK, SeatHolds
<1>1. /\ open' = open \ {current} /\ opening' = opening \ {current} /\ socket' = None
      /\ entry' = None /\ stored' = None /\ current' = None
  BY DEF Forgotten, SocketHook
<1>2. open' = {} /\ opening' = {}
  BY <1>1 DEF SocketIsCurrent
<1> QED
  BY <1>1, <1>2, LinkAssumption DEF SocketIsCurrent, SeatRemembered

\* A socket opens.
LEMMA OpensStep == ASSUME PageInv, NEW w \in Sockets, Opens(w) PROVE PageInv'
<1> USE DEF PageInv, PageTypeOK, SeatHolds
<1>1. w = current /\ w \notin losing
  BY DEF Opens
<1>2. /\ opening' = opening \ {w} /\ open' = open \cup {w} /\ socket' = w /\ serial' = serial
      /\ told' = [told EXCEPT ![w] = Now]
      /\ UNCHANGED <<entry, stored, current, losing, roomOf, busy, held>>
  BY <1>1 DEF Opens, SocketHook
<1>3. Now \in {"no", "yes"} /\ Now' = Now
  BY <1>2 DEF Now
<1> QED
  BY <1>1, <1>2, <1>3 DEF SocketIsCurrent, SeatRemembered

\* The close event of a socket; the room is only forgotten when its seat has gone.
LEMMA CloseEventStep ==
    ASSUME PageInv, NEW w \in Sockets, NEW code, CloseEvent(w, code),
           code = 4404 => roomOf[w] \notin held
    PROVE  PageInv'
<1> USE DEF PageInv, PageTypeOK, SeatHolds
<1>1. w \in losing /\ losing' = losing \ {w} /\ UNCHANGED <<roomOf, told, held>>
  BY DEF CloseEvent
<1>2. busy' = busy \/ busy' = "no"
  BY DEF CloseEvent, Settled
<1>3. CASE current # w
  <2>1. UNCHANGED <<serial, socket, open, entry, stored, current, opening>>
    BY <1>3 DEF CloseEvent, linkVars
  <2> QED
    BY <1>1, <1>2, <2>1 DEF SocketIsCurrent, SeatRemembered, Now
<1>4. CASE current = w /\ code # 4404
  <2>1. /\ current' = None /\ open' = open /\ socket' = None
        /\ UNCHANGED <<entry, stored, opening>>
    BY <1>4 DEF CloseEvent, SocketHook
  <2>2. open = {} /\ opening = {}
    BY <1>1, <1>4 DEF SocketIsCurrent
  <2> QED
    BY <1>1, <1>2, <2>1, <2>2, LinkAssumption DEF SocketIsCurrent, SeatRemembered
<1>5. CASE current = w /\ code = 4404
  <2>1. Forgotten
    BY <1>5 DEF CloseEvent
  <2>2. held = {}
    BY <1>5, LinkAssumption DEF SocketIsCurrent, SeatRemembered
  <2>3. entry' = None /\ stored' = None /\ current' = None /\ socket' = None
        /\ open' = open \ {current} /\ opening' = opening \ {current}
    BY <2>1 DEF Forgotten, SocketHook
  <2> QED
    BY <1>1, <1>2, <2>2, <2>3, LinkAssumption DEF SocketIsCurrent, SeatRemembered
<1> QED
  BY <1>3, <1>4, <1>5

\* The page closes a socket: it is not open any more, and its event will come.
LEMMA GiveUpStep == ASSUME PageInv, NEW w, GiveUp(w) PROVE PageInv'
<1> USE DEF PageInv, PageTypeOK, SeatHolds
<1>1. /\ open' = open \ {w} /\ opening' = opening \ {w} /\ losing' = losing \cup {w}
      /\ UNCHANGED <<serial, socket, entry, stored, current, roomOf, told, held>>
  BY DEF GiveUp
<1>2. busy' = busy \/ busy' = "no"
  BY DEF GiveUp, Settled
<1> QED
  BY <1>1, <1>2 DEF SocketIsCurrent, SeatRemembered, Now

\* A page that is loaded anew goes back to what it has stored.
LEMMA ReloadStep == ASSUME PageInv, Reload PROVE PageInv'
<1> USE DEF PageInv, PageTypeOK, SeatHolds
<1>1. /\ open' = {} /\ socket' = None /\ losing' = {} /\ entry' = stored
      /\ UNCHANGED <<stored, held>>
  BY DEF Reload, PageGone
<1>2. CASE stored = None
  <2>1. current' = None /\ opening' = {} /\ busy' = "no" /\ UNCHANGED <<roomOf, told>>
    BY <1>2 DEF Reload
  <2> QED
    BY <1>1, <2>1, LinkAssumption DEF SocketIsCurrent, SeatRemembered
<1>3. CASE stored # None
  <2>1. PICK w \in Sockets : current' = w
    BY <1>3 DEF Reload
  <2>2. /\ opening' = {w} /\ busy' = "connect"
        /\ roomOf' = [roomOf EXCEPT ![w] = stored] /\ told' = [told EXCEPT ![w] = "nothing"]
    BY <1>3, <2>1 DEF Reload
  <2> QED
    BY <1>1, <2>1, <2>2 DEF SocketIsCurrent, SeatRemembered
<1> QED
  BY <1>2, <1>3

\* The link announces its adapter to the room in the step that changes it.
LEMMA LinkStepStep == ASSUME PageInv, LinkStep PROVE PageInv'
<1> USE DEF PageInv, PageTypeOK, SeatHolds
<1>1. UNCHANGED <<socket, open>>
  BY LinkLeavesRooms DEF LinkStep
<1>2. UNCHANGED <<entry, stored, current, opening, losing, roomOf, busy, held>>
  BY DEF LinkStep
<1>3. CASE (serial' = None) # (serial = None) /\ current \in open
  <2>1. told' = [told EXCEPT ![current] = Now']
    BY <1>3 DEF LinkStep, Now
  <2>2. Now' \in {"no", "yes"}
    BY DEF Now
  <2> QED
    BY <1>1, <1>2, <2>1, <2>2 DEF SocketIsCurrent, SeatRemembered
<1>4. CASE ~((serial' = None) # (serial = None) /\ current \in open)
  <2>1. told' = told
    BY <1>4 DEF LinkStep
  <2>2. current \in open => Now' = Now
    BY <1>4 DEF Now
  <2> QED
    BY <1>1, <1>2, <2>1, <2>2 DEF SocketIsCurrent, SeatRemembered
<1> QED
  BY <1>3, <1>4

LEMMA PageStep == PageInv /\ [Next]_vars => PageInv'
<1> SUFFICES ASSUME PageInv, [Next]_vars PROVE PageInv'
  OBVIOUS
<1>1. CASE LinkStep
  BY <1>1, LinkStepStep
<1>2. CASE Reconnect
  <2>1. entry \in Seats /\ Connect(entry) /\ held' = held
    BY <1>2 DEF Reconnect, PageInv, PageTypeOK
  <2>2. PICK e \in Seats : e = entry
    BY <2>1
  <2>3. Connect(e) /\ held' \in SUBSET Seats /\ held' \subseteq {e}
    BY <2>1, <2>2 DEF PageInv, PageTypeOK, SeatHolds, SeatRemembered
  <2> QED
    BY <2>3, ConnectStep
<1>3. CASE Timeout
  <2>1. CASE awaits = None
    BY <1>3, <2>1 DEF Timeout, linkVars, PageInv, PageTypeOK, SeatHolds, SocketIsCurrent,
                      SeatRemembered, Now
  <2>2. CASE awaits # None
    <3>1. PICK w : w = awaits
      OBVIOUS
    <3>2. GiveUp(w)
      BY <1>3, <2>2, <3>1 DEF Timeout
    <3> QED
      BY <3>2, GiveUpStep
  <2> QED
    BY <2>1, <2>2
<1>4. CASE Ask \/ Leave \/ Copy \/ Copied \/ RequestFails
  BY <1>4 DEF Ask, Leave, Copy, Copied, RequestFails, linkVars, PageInv, PageTypeOK, SeatHolds,
              SocketIsCurrent, SeatRemembered, Now
<1>5. CASE Left
  <2>1. held' = {}
    BY <1>5 DEF Left, PageInv, SeatHolds, SeatRemembered
  <2>2. losing' \subseteq losing \cup {current} /\ busy' # "ask" /\ Forgotten
        /\ UNCHANGED <<roomOf, told>>
    BY <1>5 DEF Left
  <2> QED
    BY <2>1, <2>2, ForgottenStep
<1>6. CASE Reload
  BY <1>6, ReloadStep
<1>7. ASSUME NEW w \in Sockets, Opens(w) PROVE PageInv'
  BY <1>7, OpensStep
<1>8. ASSUME NEW w \in Sockets, WrongActivity(w) PROVE PageInv'
  BY <1>8, GiveUpStep DEF WrongActivity
<1>9. ASSUME NEW w \in Sockets, Drops(w) PROVE PageInv'
  BY <1>9 DEF Drops, PageInv, PageTypeOK, SeatHolds, SocketIsCurrent, SeatRemembered, Now
<1>10. ASSUME NEW w \in Sockets, NEW code \in {1006, 4404}, CloseEvent(w, code),
              code = 4404 => roomOf[w] \notin held
       PROVE  PageInv'
  BY <1>10, CloseEventStep
<1>11. ASSUME NEW w \in Sockets, NEW p \in Peers, Snapshot(w, p) PROVE PageInv'
  BY <1>11 DEF Snapshot, Settled, PageInv, PageTypeOK, SeatHolds, SocketIsCurrent,
               SeatRemembered, Now
<1>12. ASSUME NEW s \in Seats, Granted(s) PROVE PageInv'
  <2>1. held = {}
    BY <1>12, SeatsAssumption DEF Granted, PageInv, PageTypeOK, SeatHolds, SeatRemembered
  <2>2. Connect(s) /\ held' = {s}
    BY <1>12, <2>1 DEF Granted
  <2> QED
    BY <2>2, ConnectStep
<1>13. ASSUME NEW s \in Seats, SeatEnds(s) PROVE PageInv'
  BY <1>13 DEF SeatEnds, linkVars, PageInv, PageTypeOK, SeatHolds, SocketIsCurrent,
               SeatRemembered, Now
<1>14. CASE UNCHANGED vars
  BY <1>14 DEF vars, pageVars, linkVars, PageInv, PageTypeOK, SeatHolds, SocketIsCurrent,
               SeatRemembered, Now
<1>15. ASSUME NEW w \in Sockets,
              \/ Opens(w) \/ WrongActivity(w) \/ Drops(w) \/ CloseEvent(w, 1006)
              \/ roomOf[w] \notin held /\ CloseEvent(w, 4404)
              \/ \E p \in Peers : Snapshot(w, p)
       PROVE  PageInv'
  <2>1. CASE Opens(w) \/ WrongActivity(w) \/ Drops(w)
    BY <1>7, <1>8, <1>9, <2>1
  <2>2. CASE CloseEvent(w, 1006)
    BY <1>10, <2>2
  <2>4. CASE roomOf[w] \notin held /\ CloseEvent(w, 4404)
    BY <1>10, <2>4
  <2>3. CASE \E p \in Peers : Snapshot(w, p)
    BY <1>11, <2>3
  <2> QED
    BY <1>15, <2>1, <2>2, <2>3, <2>4
<1>16. CASE Next
  <2>1. CASE \/ LinkStep \/ Reconnect \/ Timeout \/ Ask \/ Leave \/ Left \/ Copy \/ Copied
             \/ RequestFails \/ Reload
    BY <1>1, <1>2, <1>3, <1>4, <1>5, <1>6, <2>1
  <2>2. CASE \E s \in Seats : Granted(s) \/ SeatEnds(s)
    BY <1>12, <1>13, <2>2
  <2>3. CASE ~\E s \in Seats : Granted(s) \/ SeatEnds(s)
    <3>1. \/ \/ LinkStep \/ Reconnect \/ Timeout \/ Ask \/ Leave \/ Left \/ Copy \/ Copied
             \/ RequestFails \/ Reload
          \/ \E w \in Sockets :
                \/ Opens(w) \/ WrongActivity(w) \/ Drops(w) \/ CloseEvent(w, 1006)
                \/ roomOf[w] \notin held /\ CloseEvent(w, 4404)
                \/ \E p \in Peers : Snapshot(w, p)
      BY <1>16, <2>3 DEF Next
    <3> QED
      BY <1>15, <2>1, <3>1
  <2> QED
    BY <2>2, <2>3
<1> QED
  BY <1>14, <1>16

\* The page speaks for the seat it was given: its one open socket is the one
\* the bridge uses, the server knows its adapter, and neither losses of the
\* connection nor reloads make it forget a seat the server still keeps.
THEOREM PageKeepsItsSeat == Spec => []SeatHolds
<1>1. PageInv => SeatHolds
  BY DEF PageInv
<1> QED
  BY <1>1, PageStarts, PageStep, PTL DEF Spec

-----------------------------------------------------------------------------
(* The refinement                                                           *)

\* A step of the page is, for the link, one of its own or of its rooms side.
LEMMA PageStepIsLinks ==
    PageInv /\ [Next]_vars => [LinkNext \/ Rooms \/ PageGone]_linkVars
<1> SUFFICES ASSUME PageInv, [Next]_vars
             PROVE  LinkNext \/ Rooms \/ PageGone \/ UNCHANGED linkVars
  OBVIOUS
<1> DEFINE Elsewhere ==
      /\ open' \in SUBSET Sockets /\ socket \notin open' \ open /\ shown' \in {{}, shown}
      /\ UNCHANGED <<serial, bridge, socket, pending, connecting, wires, batches, writes>>
<1>a. Elsewhere => Rooms
  BY DEF Rooms
<1>b. ASSUME NEW next \in Sockets \cup {None}, NEW now \in SUBSET Sockets,
             next # None => next \in now, SocketHook(next, now)
      PROVE  Rooms
  BY <1>b DEF Rooms
<1>c. open \in SUBSET Sockets /\ opening \in SUBSET Sockets /\ opening \subseteq {current}
  BY DEF PageInv, PageTypeOK
<1> HIDE DEF Elsewhere
<1>1. CASE LinkStep \/ Reload \/ UNCHANGED vars
  BY <1>1 DEF LinkStep, Reload, vars
<1>2. CASE Reconnect \/ \E s \in Seats : Granted(s)
  <2>1. SocketHook(None, open \ {current})
    BY <1>2 DEF Reconnect, Granted, Connect
  <2>2. open \ {current} \in SUBSET Sockets
    BY <1>c
  <2> QED
    BY <1>b, <2>1, <2>2, LinkAssumption
<1>3. CASE Left
  <2>1. SocketHook(None, open \ {current})
    BY <1>3 DEF Left, Forgotten
  <2> QED
    BY <1>b, <1>c, <2>1, LinkAssumption
<1>4. ASSUME NEW w \in Sockets, Opens(w) PROVE Rooms
  <2>1. current = w /\ SocketHook(w, open \cup {w})
    BY <1>4, <1>c DEF Opens
  <2>2. w \in open \cup {w} /\ open \cup {w} \in SUBSET Sockets
    BY <1>c
  <2> QED
    BY <1>b, <2>1, <2>2
<1>5. ASSUME NEW w \in Sockets, NEW c, CloseEvent(w, c) PROVE Rooms \/ UNCHANGED linkVars
  <2>1. CASE current # w
    BY <1>5, <2>1 DEF CloseEvent
  <2>2. ASSUME NEW now \in {open, open \ {current}}, SocketHook(None, now) PROVE Rooms
    BY <1>b, <1>c, <2>2, LinkAssumption
  <2>3. SocketHook(None, open) => Rooms
    BY <2>2
  <2>4. SocketHook(None, open \ {current}) => Rooms
    BY <2>2
  <2>5. CASE current = w /\ c = 4404
    <3>1. Forgotten
      BY <1>5, <2>5 DEF CloseEvent
    <3> QED
      BY <2>4, <3>1 DEF Forgotten
  <2>6. CASE current = w /\ c # 4404
    BY <1>5, <2>3, <2>6 DEF CloseEvent
  <2> QED
    BY <2>1, <2>5, <2>6
<1>6. ASSUME NEW w, GiveUp(w) PROVE Elsewhere
  BY <1>c, <1>6 DEF GiveUp, Elsewhere
<1>7. CASE Timeout
  <2>1. CASE awaits = None
    BY <1>7, <2>1 DEF Timeout
  <2>2. CASE awaits # None
    <3>1. PICK w : w = awaits
      OBVIOUS
    <3>2. GiveUp(w)
      BY <1>7, <2>2, <3>1 DEF Timeout
    <3> QED
      BY <1>a, <1>6, <3>2
  <2> QED
    BY <2>1, <2>2
<1>8. ASSUME NEW w \in Sockets, Drops(w) PROVE Elsewhere
  BY <1>c, <1>8 DEF Drops, Elsewhere
<1>9. ASSUME NEW w \in Sockets, NEW p \in Peers, Snapshot(w, p) PROVE Elsewhere
  BY <1>c, <1>9 DEF Snapshot, Elsewhere
<1>10. CASE \/ Ask \/ Leave \/ Copy \/ Copied \/ RequestFails \/ \E s \in Seats : SeatEnds(s)
  BY <1>10 DEF Ask, Leave, Copy, Copied, RequestFails, SeatEnds
<1>11. ASSUME NEW w \in Sockets, WrongActivity(w) PROVE Elsewhere
  BY <1>6, <1>11 DEF WrongActivity
<1> QED
  BY <1>a, <1>1, <1>2, <1>3, <1>4, <1>5, <1>7, <1>8, <1>9, <1>10, <1>11 DEF Next

\* The page's rooms side is one the link allows, step by step: so what was
\* proved of the link holds on the page.
THEOREM PageUsesTheLink == Spec => LinkSpec
<1>1. Init => LinkInit
  BY DEF Init
<1> QED
  BY <1>1, PageStarts, PageStep, PageStepIsLinks, PTL DEF Spec, LinkSpec

\* On the page, too: one bridge, which joins the open adapter to the open socket.
THEOREM PageIsJoined == Spec => []LinkHolds
  BY PageUsesTheLink, LinkIsJoined

\* On the page, too: no write of a stopped bridge, and none of its errors.
THEOREM PageWritesAreLive == Spec => WritesLive
  BY PageUsesTheLink, WritesAreLive

\* On the page, too: the toy's bytes in order, and none left behind.
THEOREM PageBytesAreInOrder == Spec => []ToyBytes
  BY PageUsesTheLink, BytesAreInOrder
=============================================================================
