------------------------------- MODULE UsbPort -------------------------------
(***************************************************************************)
(* The transport of a wired adapter: WebSerialTransport                     *)
(* (tama-protocol/src/transport-webserial.ts) over the WebUSB port          *)
(* (tama-protocol/src/transport/webusb-port.ts), down to the device.        *)
(*                                                                          *)
(* Opening and closing are tasks of many requests to the device; each may   *)
(* fail, and the device may be pulled out at any time.  A read of the page  *)
(* is served from a queue of transfers that are always under way, a write   *)
(* is handed over in transfers that may take less than they were given.     *)
(*                                                                          *)
(* External: the device and the browser's streams, as far as the code uses  *)
(* them.  The stream holds no chunk in advance and calls pull once for each *)
(* read that waits; a pull that brings nothing is not repeated.             *)
(***************************************************************************)
EXTENDS UsbDrivers

CONSTANTS
    Models,        \* which drivers' devices are tried
    BaudRate,      \* 460800
    Depth,         \* readQueueDepth: 4, or 32
    MaxTransfer,   \* bytes of one output transfer: 4096
    MaxOpens, MaxIn, MaxOut   \* bounds of the model: ports opened, bytes each way

VARIABLES
    driver, type,      \* of the device; type is that of a PL2303
    gone, device,      \* is it pulled out? what the browser and the chip keep of it
    task, todo,        \* what is awaited of the device, and what then
    opens,
    claimed, opened, closing,      \* of the port
    isOpen,                        \* of the transport
    stream, wanted, pulling, queue,  \* readable; is a read, a pull under way? pendingReads
    writing, broken, asked, offset,  \* writable
    produced, got, wrote           \* history: bytes of the device, of the page, to the device

portVars == <<driver, type, opens, claimed, opened, closing, isOpen>>
reads == <<stream, wanted, pulling, queue, produced, got>>
writes == <<writing, broken, asked, offset, wrote>>
vars == <<gone, device, task, todo, portVars, reads, writes>>

Closed == [open |-> FALSE, configured |-> FALSE, claimed |-> {}, chip |-> Chip]
Waiting == <<"waiting">>
Failed == <<"failed">>

\* The interfaces a layout claims, each once.
Claims == IF driver = "CDC-ACM" THEN <<0, 1>> ELSE <<0>>

Init ==
    /\ driver \in Models
    /\ type \in IF driver = "PL2303" THEN {DetectType(a, b, c, d, e) : a, b, c, d, e \in BOOLEAN}
                ELSE {"HX"}
    /\ gone = FALSE /\ device = Closed /\ task = "rest" /\ todo = <<>> /\ opens = 0
    /\ claimed = <<>> /\ opened = FALSE /\ closing = FALSE /\ isOpen = FALSE
    /\ stream = "none" /\ wanted = FALSE /\ pulling = FALSE /\ queue = <<>>
    /\ writing = FALSE /\ broken = FALSE /\ asked = 0 /\ offset = 0
    /\ produced = 0 /\ got = <<>> /\ wrote = <<>>

\* The requests that claim and release interfaces.
Each(ids) == [k \in 1..Len(ids) |-> [interface |-> ids[k]]]

\* Transfers end when the device is closed or pulled out.
Aborted(q) == [k \in 1..Len(q) |-> IF q[k] = Waiting THEN Failed ELSE q[k]]

-----------------------------------------------------------------------------
(* Opening                                                                  *)

\* The page connects the device: a new port and a new transport of it.
Open ==
    /\ task = "rest" /\ ~isOpen /\ opens < MaxOpens
    /\ opens' = opens + 1 /\ task' = "open" /\ todo' = <<>>
    /\ claimed' = <<>> /\ opened' = FALSE /\ closing' = FALSE
    /\ stream' = "none" /\ wanted' = FALSE /\ pulling' = FALSE /\ queue' = <<>>
    /\ writing' = FALSE /\ broken' = FALSE /\ asked' = 0 /\ offset' = 0
    /\ produced' = 0 /\ got' = <<>> /\ wrote' = <<>>
    /\ UNCHANGED <<driver, type, gone, device, isOpen>>

DeviceOpens ==
    /\ task = "open" /\ ~gone
    /\ device' = [device EXCEPT !.open = TRUE]
    /\ IF device.configured THEN task' = "claim" /\ todo' = Each(Claims)
                            ELSE task' = "configure" /\ todo' = <<>>
    /\ UNCHANGED <<gone, portVars, reads, writes>>

Configures ==
    /\ task = "configure" /\ ~gone
    /\ device' = [device EXCEPT !.configured = TRUE] /\ task' = "claim" /\ todo' = Each(Claims)
    /\ UNCHANGED <<gone, portVars, reads, writes>>

\* The last interface is followed by alternates that are not the default, if any.
Claim ==
    /\ task = "claim" /\ ~gone
    /\ device' = [device EXCEPT !.claimed = @ \cup {Head(todo).interface}]
    /\ claimed' = Append(claimed, Head(todo).interface)
    /\ IF Tail(todo) # <<>> THEN task' = task /\ todo' = Tail(todo)
       ELSE \/ task' = "select" /\ todo' = <<>>
            \/ task' = "initialize" /\ todo' = Initialize(driver, type, BaudRate)
    /\ UNCHANGED <<gone, driver, type, opens, opened, closing, isOpen, reads, writes>>
SelectAlternate ==
    /\ task = "select" /\ ~gone
    /\ task' = "initialize" /\ todo' = Initialize(driver, type, BaudRate)
    /\ UNCHANGED <<gone, device, portVars, reads, writes>>

\* The driver's next request; after the last one the streams are there, and
\* Depth transfers are under way before the page reads.
InitializeNext ==
    /\ task = "initialize" /\ ~gone /\ todo' = Tail(todo)
    /\ device' = [device EXCEPT !.chip = Written(@, Head(todo))]
    /\ IF Len(todo) > 1 THEN UNCHANGED <<task, opened, isOpen, stream, queue>>
       ELSE /\ task' = "rest" /\ opened' = TRUE /\ isOpen' = TRUE
            /\ stream' = "readable" /\ queue' = [k \in 1..Depth |-> Waiting]
    /\ UNCHANGED <<gone, driver, type, opens, claimed, closing, wanted, pulling, produced, got,
                   writes>>

\* Faulty variant: what was claimed is not given back.
OpenFailsQuietly ==
    /\ task \in {"open", "configure", "claim", "select", "initialize"}
    /\ task' = "rest" /\ todo' = <<>>
    /\ UNCHANGED <<gone, device, portVars, reads, writes>>
\* Any of these requests fails, or the driver finds no layout: all that was
\* done is undone, without a shutdown of the chip.
OpenFails ==
    /\ task \in {"open", "configure", "claim", "select", "initialize"}
    /\ task' = IF claimed = <<>> THEN "close" ELSE "release"
    /\ todo' = Each(Reverse(claimed))
    /\ UNCHANGED <<gone, device, portVars, reads, writes>>

-----------------------------------------------------------------------------
(* Closing                                                                  *)

\* The transport's close: the reader is cancelled, which ends a read that
\* waits, and the port goes down.  A write under way is not awaited.
Close ==
    /\ task = "rest" /\ isOpen /\ isOpen' = FALSE /\ closing' = TRUE
    /\ stream' = IF stream = "readable" THEN "closed" ELSE stream
    /\ wanted' = FALSE
    /\ LET last == Shutdown(driver, type)
       IN  IF last = <<>> THEN task' = "release" /\ todo' = Each(Reverse(claimed))
                          ELSE task' = "shutdown" /\ todo' = last
    /\ UNCHANGED <<gone, device, driver, type, opens, claimed, opened, pulling, queue, produced,
                   got, writes>>

\* Faulty variant: a request that fails is tried again.
ShutdownRetried ==
    /\ task = "shutdown"
    /\ ~gone /\ device' = [device EXCEPT !.chip = Written(@, Head(todo))]
    /\ IF Len(todo) > 1 THEN todo' = Tail(todo) /\ task' = task
       ELSE task' = "release" /\ todo' = Each(Reverse(claimed))
    /\ UNCHANGED <<gone, portVars, reads, writes>>
\* The driver's shutdown; when a request fails the rest is left out.
ShutdownNext ==
    /\ task = "shutdown"
    /\ \/ /\ ~gone /\ device' = [device EXCEPT !.chip = Written(@, Head(todo))]
          /\ IF Len(todo) > 1 THEN todo' = Tail(todo) /\ task' = task
             ELSE task' = "release" /\ todo' = Each(Reverse(claimed))
       \/ device' = device /\ task' = "release" /\ todo' = Each(Reverse(claimed))
    /\ UNCHANGED <<gone, portVars, reads, writes>>

\* Interfaces are released in reverse; a failure is ignored.
Release ==
    /\ task = "release"
    /\ device' \in {device} \cup
          (IF gone THEN {} ELSE {[device EXCEPT !.claimed = @ \ {Head(todo).interface}]})
    /\ todo' = Tail(todo)
    /\ IF Len(todo) > 1 THEN UNCHANGED <<task, claimed, opened>>
       ELSE task' = "close" /\ claimed' = <<>> /\ opened' = FALSE
    /\ UNCHANGED <<gone, driver, type, opens, closing, isOpen, reads, writes>>

\* The device is closed; the browser then holds no interface of it.
DeviceCloses ==
    /\ task = "close" /\ task' = "rest" /\ todo' = <<>>
    /\ device' = [device EXCEPT !.open = FALSE, !.claimed = {}]
    /\ queue' = Aborted(queue)
    /\ opened' = FALSE
    /\ UNCHANGED <<gone, driver, type, opens, claimed, closing, isOpen, stream, wanted, pulling,
                   produced, got, writes>>

\* The plug is pulled, and put in again.
Unplug ==
    /\ ~gone /\ gone' = TRUE /\ device' = Closed /\ queue' = Aborted(queue)
    /\ UNCHANGED <<task, todo, portVars, stream, wanted, pulling, produced, got, writes>>
Plug == gone /\ task = "rest" /\ ~isOpen /\ gone' = FALSE
        /\ UNCHANGED <<device, task, todo, portVars, reads, writes>>

-----------------------------------------------------------------------------
(* Reading                                                                  *)

\* A transfer is filled: they are in order.  A packet may hold nothing, an FTDI's
\* nothing but its status bytes, which are stripped at once here.
Packet ==
    \E k \in 1..Len(queue), n \in 0..2 :
        /\ queue[k] = Waiting /\ \A j \in 1..(k - 1) : queue[j] # Waiting
        /\ ~gone /\ device.open
        /\ produced + n <= MaxIn
        /\ produced' = produced + n
        /\ queue' = [queue EXCEPT ![k] = <<"ok", [b \in 1..n |-> produced + b]>>]
        /\ UNCHANGED <<gone, device, task, todo, portVars, stream, wanted, pulling, got, writes>>
\* Or the transfer fails.
PacketFails ==
    \E k \in 1..Len(queue) :
        /\ queue[k] = Waiting /\ \A j \in 1..(k - 1) : queue[j] # Waiting
        /\ queue' = [queue EXCEPT ![k] = Failed]
        /\ UNCHANGED <<gone, device, task, todo, portVars, stream, wanted, pulling, produced, got,
                       writes>>

\* The page reads: the stream pulls, which takes the oldest transfer.
Read ==
    /\ isOpen /\ stream = "readable" /\ ~wanted /\ ~pulling
    /\ wanted' = TRUE /\ pulling' = TRUE
    /\ UNCHANGED <<gone, device, task, todo, portVars, stream, queue, produced, got, writes>>

\* A new transfer of a device that is not there fails at once.
NewTransfer == IF gone \/ ~device.open THEN Failed ELSE Waiting

\* Faulty variant: the next transfer is queued before closing is looked at.
PulledEager ==
    /\ pulling /\ queue[1] # Waiting /\ pulling' = FALSE
    /\ queue' = Append(Tail(queue), NewTransfer)
    /\ IF closing \/ queue[1] = Failed
       THEN /\ stream' = IF closing THEN stream ELSE "errored"
            /\ wanted' = FALSE /\ got' = got
       ELSE /\ got' = got \o queue[1][2] /\ wanted' = (wanted /\ queue[1][2] = <<>>)
            /\ stream' = stream
    /\ UNCHANGED <<gone, device, task, todo, portVars, produced, writes>>
\* The transfer a pull took has ended.  A port that closes takes no notice;
\* otherwise another transfer is put in its place.
Pulled ==
    /\ pulling /\ queue[1] # Waiting /\ pulling' = FALSE
    /\ IF closing \/ queue[1] = Failed
       THEN /\ queue' = Tail(queue)
            /\ stream' = IF closing THEN stream ELSE "errored"
            /\ wanted' = FALSE /\ got' = got
       ELSE /\ queue' = Append(Tail(queue), NewTransfer)
            /\ got' = got \o queue[1][2] /\ wanted' = (wanted /\ queue[1][2] = <<>>)
            /\ stream' = stream
    /\ UNCHANGED <<gone, device, task, todo, portVars, produced, writes>>

-----------------------------------------------------------------------------
(* Writing                                                                  *)

Write(n) ==
    /\ isOpen /\ ~writing /\ ~broken /\ asked + n <= MaxOut
    /\ asked' = asked + n /\ writing' = TRUE
    /\ UNCHANGED <<gone, device, task, todo, portVars, reads, broken, offset, wrote>>

Bytes(first, n) == [k \in 1..n |-> first + k]

\* An output transfer takes some of its bytes; the write goes on with the rest.
Transfer ==
    /\ writing /\ ~gone /\ device.open
    /\ LET payload == IF asked - offset < MaxTransfer THEN asked - offset ELSE MaxTransfer
       IN  \E n \in 1..payload :
              wrote' = wrote \o Bytes(offset, n) /\ offset' = offset + n
    /\ writing' = (offset' < asked)
    /\ UNCHANGED <<gone, device, task, todo, portVars, reads, broken, asked>>

\* It fails, or takes nothing: the stream is broken.
TransferFails ==
    /\ writing /\ writing' = FALSE /\ broken' = TRUE
    /\ UNCHANGED <<gone, device, task, todo, portVars, reads, asked, offset, wrote>>

-----------------------------------------------------------------------------
Next ==
    \/ Open \/ DeviceOpens \/ Configures \/ Claim \/ SelectAlternate \/ InitializeNext
    \/ OpenFails \/ Close \/ ShutdownNext \/ Release \/ DeviceCloses \/ Unplug \/ Plug
    \/ Packet \/ PacketFails \/ Read \/ Pulled \/ Transfer \/ TransferFails
    \/ \E n \in 1..MaxTransfer + 1 : Write(n)

Spec == Init /\ [][Next]_vars

\* The browser answers every request to the device, one way or the other, and
\* runs what awaits an answer.
Answers == DeviceOpens \/ Configures \/ Claim \/ SelectAlternate \/ InitializeNext \/ OpenFails
           \/ ShutdownNext \/ Release \/ DeviceCloses
FairSpec == Spec /\ WF_vars(Answers) /\ WF_vars(Pulled)

-----------------------------------------------------------------------------
(* Properties                                                               *)

\* What the drivers compute, whatever device they meet first: accurate
\* divisors, no byte lost to FTDI's status bytes, endpoints that can be reached.
DriversRight == opens = 0 => BaudRight /\ PayloadKept /\ LayoutReachable

\* Between two connections nothing is left of the first: whichever step failed
\* or was cut off, the device is closed, no interface is claimed, no transfer
\* is under way.  While the transport is open and the device there, it is this
\* port's, and the chip is a line of the rate and format asked for, with DTR
\* and RTS set.
PortHolds ==
    /\ task = "rest" /\ ~isOpen =>
          /\ ~device.open /\ device.claimed = {} /\ claimed = <<>> /\ ~opened
          /\ \A k \in 1..Len(queue) : queue[k] # Waiting
    /\ isOpen => task = "rest" /\ opened
    /\ isOpen /\ ~gone /\ device.open =>
          /\ device.claimed = {claimed[k] : k \in 1..Len(claimed)}
          /\ device.claimed = {Claims[k] : k \in 1..Len(Claims)}
          /\ device.chip.rate = BaudRate /\ device.chip.format = "8N1"
          /\ device.chip.dtr /\ device.chip.rts
          /\ driver = "CP210x" => device.chip.uart = "on"

Filled(q) == FlattenSeq([k \in 1..Len(q) |-> IF q[k][1] = "ok" THEN q[k][2] ELSE <<>>])
\* The page gets the device's bytes in order and none twice; while it reads,
\* what it has not got is in the queue, behind no failure that is passed over.
\* The device gets the page's bytes in order, all of those of a write that ended.
BytesInOrder ==
    /\ IsPrefix(got, Bytes(0, produced))
    /\ stream = "readable" => got \o Filled(queue) = Bytes(0, produced)
    /\ stream = "readable" => Len(queue) = Depth
    /\ wrote = Bytes(0, offset) /\ offset <= asked
    /\ ~writing /\ ~broken => offset = asked

\* The three, of a port and its device.
PortRight == DriversRight /\ PortHolds /\ BytesInOrder

\* Once the port closes nothing more reaches the page, and no transfer begins: the
\* one a pull waited for ends without a successor, the others stay the last.
QuietAfterClose ==
    [][closing /\ closing' =>
          /\ got' = got /\ stream' = stream
          /\ Len(queue') = Len(queue) - (IF pulling /\ ~pulling' THEN 1 ELSE 0)]_vars

\* Opening and closing end, whatever fails and whenever the plug is pulled.
TasksEnd == []<>(task = "rest")

\* Bytes that have arrived reach a page that waits for them.
ReadsGoOn == (wanted /\ Filled(queue) # <<>>) ~> ~wanted
=============================================================================
