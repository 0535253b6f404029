------------------------------ MODULE Install ------------------------------
(***************************************************************************)
(* Installing on a toy from the games page: sending a game, installing the  *)
(* music bank, removing it (web-client/src/game-install-service.ts).  An    *)
(* installation owns the one reader of the port (serial-reader.ts) through   *)
(* a channel with a receive queue and deadlines (uart-channel.ts); it sends  *)
(* a download record by record (download-sender.ts), and the music tools     *)
(* then talk to the helper that was downloaded (media-sender.ts).           *)
(*                                                                          *)
(* What goes over the line is a line of text or a frame.  The line loses and *)
(* damages; the toy may be slow beyond any deadline, refuse, ask again, and  *)
(* be sent back to its menu at any time.  A read that waits may run into its *)
(* deadline at any moment, so time itself is not there.                      *)
(***************************************************************************)
EXTENDS Integers, Sequences, FiniteSetsExt

CONSTANTS
    Operations,     \* some of "game", "music", "remove"
    RECORDS,        \* records of a download
    SECTORS,        \* sectors of the music bank
    ATTEMPTS,       \* 3
    TRANSMISSIONS,  \* 100
    QUEUE_LIMIT,    \* 131072 bytes, here in messages
    LineLimit,      \* bound of the model: messages on the line each way
    MaxRuns         \* bound of the model: installations

ASSUME InstallAssumption ==
    /\ Operations \subseteq {"game", "music", "remove"}
    /\ RECORDS \in Nat \ {0} /\ SECTORS \in Nat \ {0}
    /\ ATTEMPTS \in Nat \ {0} /\ TRANSMISSIONS \in Nat \ {0}
    /\ QUEUE_LIMIT \in Nat /\ LineLimit \in Nat /\ MaxRuns \in Nat

VARIABLES
    runs,     \* the installations so far, the last one perhaps under way
    host,     \* where that one stands
    queue,    \* UartChannel.queue
    reading,  \* a read of the port is pending
    toToy, toHost,
    toy,
    late      \* history: since the line was last cut the host has gone on without an answer

vars == <<runs, host, queue, reading, toToy, toHost, toy, late>>

\* Sequence numbers that are none: 0xfffffffc, 0xfffffffd, 0xfffffffe.
READY == -4
FINAL == -3
HEADER == -2
\* The details of a frame; FAILED stands for a status other than 0.
FAILED == -1

Message(type, n, detail) == [type |-> type, n |-> n, detail |-> detail]
Line(type) == Message(type, 0, 0)
Frame(n, detail) == Message("TPR1", n, detail)
Noise == Line("noise")
IsLine(m) == m.type \in {"ACK", "NAK", "ENQ", "CAN", "ECHO REQ"}

Idle == [pc |-> "idle", index |-> 0, attempts |-> 0, transmissions |-> 0, sequence |-> 0]
Ended == {"idle", "done", "failed"}
Operation == runs[Len(runs)]
\* The channel is open.
Owned == host.pc \notin Ended \cup {"load"}

\* bank: the sectors that hold their data, none before the first installation;
\* download: which one the toy last began.
Init ==
    /\ runs = <<>> /\ host = Idle /\ queue = <<>> /\ reading = FALSE
    /\ toToy = <<>> /\ toHost = <<>> /\ late = FALSE
    /\ toy = [at |-> "menu", step |-> "none", download |-> 0, need |-> 0, sequence |-> 0, bank |-> {}]

\* Faulty variant: the sectors are sent in the order of their addresses.
SectorInOrder(sequence) == sequence
\* The header of the bank, sector 0, is the last one sent.
Sector(sequence) == IF sequence = SECTORS - 1 THEN 0 ELSE sequence + 1

-----------------------------------------------------------------------------
(* The dialogue.  Each operator takes where the host stands to where it goes *)
(* on, and what it writes on the way.                                       *)

Goes(h, out) == [host |-> h, out |-> out]
Ends(h, how) == Goes([Idle EXCEPT !.pc = how, !.index = h.index], <<>>)
Fails == Goes([Idle EXCEPT !.pc = "failed"], <<>>)

\* The toy is asked to take a download.
Ask(h) ==
    IF h.attempts >= ATTEMPTS THEN Fails
    ELSE Goes([h EXCEPT !.pc = "pkt", !.attempts = @ + 1], <<Message("PKT", Len(runs), 0)>>)

\* A record is sent, for the time after the next time.
Transmit(h, i, times) ==
    IF h.transmissions >= TRANSMISSIONS \/ times >= ATTEMPTS THEN Fails
    ELSE Goes([h EXCEPT !.pc = "record", !.index = i, !.attempts = times + 1, !.transmissions = @ + 1],
              <<Message("record", i, 0)>>)

\* The last record is taken: that was it, or the helper starts.
Downloaded(h) ==
    Ends([h EXCEPT !.index = RECORDS], IF Operation = "game" THEN "done" ELSE "ready")

\* Faulty variant: a toy that asks for a record gets all its chances again.
EnquiredAfresh(h, n) ==
    IF n >= RECORDS THEN Fails ELSE Transmit([h EXCEPT !.transmissions = 0], n, 0)
\* The toy asks for record n.
Enquired(h, n) == IF n >= RECORDS THEN Fails ELSE Transmit(h, n, 0)

\* A line of the toy during the download.
OnLine(h, m) ==
    IF m.type = "ECHO REQ" THEN Goes(h, <<Line("ECHO REP")>>)
    ELSE IF m.type = "CAN" THEN Fails
    ELSE IF h.pc = "pkt" THEN IF m.type = "ACK" THEN Transmit(h, 0, 0) ELSE Ask(h)
    ELSE CASE m.type = "ACK" -> IF h.index + 1 = RECORDS THEN Downloaded(h) ELSE Transmit(h, h.index + 1, 0)
           [] m.type = "NAK" -> Transmit(h, h.index, h.attempts)
           [] m.type = "ENQ" -> Enquired(h, m.n)

Expected(h) ==
    CASE h.pc = "ready" -> READY
      [] h.pc \in {"header", "confirm"} -> HEADER
      [] h.pc = "final" -> FINAL
      [] OTHER -> h.sequence

Announce(h, sequence) ==
    Goes([h EXCEPT !.pc = "sector", !.sequence = sequence], <<Message("sector", sequence, 0)>>)
NextSector(h) ==
    IF h.sequence + 1 = SECTORS THEN Ends(h, "final") ELSE Announce(h, h.sequence + 1)
NextErased(h) ==
    IF h.sequence + 1 = SECTORS THEN Ends(h, "final") ELSE Goes([h EXCEPT !.sequence = @ + 1], <<>>)

\* A frame of the helper: it must be the one expected, and good.
OnFrame(h, m) ==
    IF m = Noise \/ m.n # Expected(h) \/ m.detail = FAILED THEN Fails
    ELSE
    CASE h.pc = "ready" /\ Operation = "music" -> Goes([h EXCEPT !.pc = "header"], <<Line("header")>>)
      [] h.pc = "ready" /\ Operation = "remove" /\ m.detail = 3 ->
            Goes([h EXCEPT !.pc = "confirm"], <<Line("clear")>>)
      [] h.pc = "header" -> Announce(h, 0)
      [] h.pc = "sector" /\ m.detail = 2 -> NextSector(h)
      [] h.pc = "sector" /\ m.detail = 0 ->
            Goes([h EXCEPT !.pc = "verify"], <<Message("data", h.sequence, 0)>>)
      [] h.pc = "verify" /\ m.detail = 1 -> NextSector(h)
      [] h.pc = "confirm" /\ m.detail = 3 -> Goes([h EXCEPT !.pc = "erase", !.sequence = 0], <<>>)
      [] h.pc = "erase" /\ m.detail \in {1, 2} -> NextErased(h)
      [] h.pc = "final" /\ (Operation = "music" \/ m.detail = 3) -> Ends(h, "done")
      [] OTHER -> Fails

\* A deadline has passed: the download tries again, the music tools do not.
TimedOut(h) ==
    CASE h.pc = "pkt" -> Ask(h)
      [] h.pc = "record" -> Transmit(h, h.index, h.attempts)
      [] OTHER -> Fails

-----------------------------------------------------------------------------
(* The page                                                                 *)

\* More than the line takes is lost on it.
Written(out) == IF Len(toToy) < LineLimit THEN toToy \o out ELSE toToy

\* Where the first line in the buffer is, and the first message that is none; or 0.
First(places) == IF places = {} THEN 0 ELSE Min(places)
FirstLine == First({i \in 1..Len(queue) : IsLine(queue[i])})
FirstFrame == First({i \in 1..Len(queue) : ~IsLine(queue[i])})

\* When an installation ends the channel goes, with what is in its queue.
GoesOn(to, rest) ==
    /\ host' = to.host /\ toToy' = Written(to.out)
    /\ queue' = IF to.host.pc \in Ended THEN <<>> ELSE rest
\* The host goes on, or breaks off, without the answer to what it wrote last.
Unanswered == late' = TRUE

\* One installation at a time.
Start(operation) ==
    /\ host.pc \in Ended /\ Len(runs) < MaxRuns
    /\ runs' = Append(runs, operation) /\ host' = [Idle EXCEPT !.pc = "load"]
    /\ UNCHANGED <<queue, reading, toToy, toHost, toy, late>>

\* The files could not be loaded, or are not what they should be.
LoadFails ==
    /\ host.pc = "load" /\ host' = Fails.host
    /\ UNCHANGED <<runs, queue, reading, toToy, toHost, toy, late>>

\* The channel is opened; the reader, if it rests, reads again.
Open ==
    /\ host.pc = "load" /\ GoesOn(Ask(host), <<>>) /\ reading' = TRUE
    /\ UNCHANGED <<runs, toHost, toy, late>>

\* A read ends.  What it brings is the present channel's, whoever asked for it;
\* without one it is dropped, and the reader rests.
Read ==
    /\ reading
    /\ \E k \in 1..Len(toHost) :
          /\ toHost' = SubSeq(toHost, k + 1, Len(toHost))
          /\ IF ~Owned THEN reading' = FALSE /\ UNCHANGED <<host, queue, toToy, late>>
             ELSE IF Len(queue) + k > QUEUE_LIMIT
             THEN GoesOn(Fails, <<>>) /\ Unanswered /\ UNCHANGED reading
             ELSE queue' = queue \o SubSeq(toHost, 1, k) /\ UNCHANGED <<host, reading, toToy, late>>
    /\ UNCHANGED <<runs, toy>>

\* A line is complete.  What is no line before it is passed over, with it or
\* alone, or is longer than the 256 bytes of a line.
TakeLine ==
    /\ host.pc \in {"pkt", "record"} /\ queue # <<>>
    /\ LET k == FirstLine
           rest == SubSeq(queue, k + 1, Len(queue))
       IN  \/ k = 1 /\ GoesOn(OnLine(host, queue[1]), rest)
           \/ k # 1 /\ GoesOn(Goes(host, <<>>), Tail(queue))
           \/ k > 1 /\ GoesOn(Goes(host, <<>>), rest)
           \/ k # 1 /\ GoesOn(Fails, rest)
    /\ IF host'.pc = "failed" THEN Unanswered ELSE UNCHANGED late
    /\ UNCHANGED <<runs, reading, toHost, toy>>

\* A frame is complete.  Lines before it are passed over, and what cannot be
\* recognised as a frame.
TakeFrame ==
    /\ Owned /\ host.pc \notin {"pkt", "record"}
    /\ LET k == FirstFrame
           rest == SubSeq(queue, k + 1, Len(queue))
       IN  /\ k # 0
           /\ \/ GoesOn(OnFrame(host, queue[k]), rest)
              \/ queue[k] = Noise /\ GoesOn(Goes(host, <<>>), rest)
    /\ UNCHANGED <<runs, reading, toHost, toy, late>>

\* Also when an answer has come, but too late to be looked at.
Timeout ==
    /\ Owned /\ GoesOn(TimedOut(host), queue) /\ Unanswered
    /\ UNCHANGED <<runs, reading, toHost, toy>>

\* The adapter is lost, and whatever is on the line with it.
Unplug ==
    /\ Owned /\ host' = Fails.host
    /\ queue' = <<>> /\ toToy' = <<>> /\ toHost' = <<>> /\ reading' = FALSE
    /\ late' = FALSE /\ UNCHANGED <<runs, toy>>

-----------------------------------------------------------------------------
(* The line                                                                 *)

LoseToToy ==
    /\ toToy # <<>> /\ toToy' = Tail(toToy)
    /\ UNCHANGED <<runs, host, queue, reading, toHost, toy, late>>
LoseToHost ==
    /\ toHost # <<>> /\ toHost' \in {Tail(toHost), <<Noise>> \o Tail(toHost)}
    /\ UNCHANGED <<runs, host, queue, reading, toToy, toy, late>>

-----------------------------------------------------------------------------
(* The toy: its Download screen, and the helpers that are downloaded to it.  *)

Kind == runs[toy.download]
Tells(t, answer) == toy' = t /\ toHost' = Append(toHost, answer)

TakesPkt(m) ==
    /\ m.type = "PKT" /\ toy.at \in {"menu", "receiving"}
    /\ Tells([toy EXCEPT !.at = "receiving", !.download = m.n, !.need = 0], Line("ACK"))

\* The last record starts what was downloaded.
TakesRecord(m) ==
    /\ m.type = "record" /\ toy.at = "receiving"
    /\ \/ /\ m.n = toy.need
          /\ Tells([toy EXCEPT !.need = @ + 1,
                               !.at = IF toy.need + 1 = RECORDS THEN Kind ELSE @,
                               !.step = IF toy.need + 1 = RECORDS THEN "start" ELSE @], Line("ACK"))
       \/ Tells(toy, Line("NAK"))
       \/ Tells(toy, Message("ENQ", toy.need, 0))
       \/ m.n < toy.need /\ Tells(toy, Line("ACK"))

TakesMusic(m) ==
    /\ toy.at = "music"
    /\ \/ m.type = "header" /\ toy.step = "header"
          /\ Tells([toy EXCEPT !.step = "sector"], Frame(HEADER, 0))
       \/ m.type = "sector" /\ toy.step = "sector"
          /\ IF Sector(m.n) \in toy.bank
             THEN Tells([toy EXCEPT !.step = IF m.n = SECTORS - 1 THEN "end" ELSE @], Frame(m.n, 2))
             ELSE Tells([toy EXCEPT !.step = "data"], Frame(m.n, 0))
       \/ m.type = "data" /\ toy.step = "data"
          /\ Tells([toy EXCEPT !.step = IF m.n = SECTORS - 1 THEN "end" ELSE "sector",
                               !.bank = @ \cup {Sector(m.n)}], Frame(m.n, 1))

TakesClear(m) ==
    /\ m.type = "clear" /\ toy.at = "remove" /\ toy.step = "header"
    /\ Tells([toy EXCEPT !.step = "erase", !.sequence = 0], Frame(HEADER, 3))

Takes(m) == TakesPkt(m) \/ TakesRecord(m) \/ TakesMusic(m) \/ TakesClear(m)

\* The toy may ignore anything, and a helper that is told something may give up.
Refuses ==
    IF toy.at \in {"music", "remove"} /\ toy.step # "start"
    THEN Tells([toy EXCEPT !.step = "over"], Frame(toy.sequence, FAILED))
    ELSE UNCHANGED <<toy, toHost>>

ToyTakes ==
    /\ toToy # <<>> /\ Len(toHost) < LineLimit
    /\ toToy' = Tail(toToy) /\ (Takes(Head(toToy)) \/ Refuses)
    /\ UNCHANGED <<runs, host, queue, reading, late>>

\* A helper says that it runs, erases sector after sector, says that it is done.
ToySpeaks ==
    /\ Len(toHost) < LineLimit /\ toy.at \in {"music", "remove"}
    /\ LET good == IF toy.at = "remove" THEN 3 ELSE 0
       IN  \/ toy.step = "start" /\ \/ Tells([toy EXCEPT !.step = "header"], Frame(READY, good))
                                    \/ Tells([toy EXCEPT !.step = "over"], Frame(READY, FAILED))
           \/ toy.step = "erase"
              /\ Tells([toy EXCEPT !.bank = @ \ {toy.sequence}, !.sequence = @ + 1,
                                   !.step = IF toy.sequence + 1 = SECTORS THEN "end" ELSE @],
                       Frame(toy.sequence, IF toy.sequence \in toy.bank THEN 1 ELSE 2))
           \/ toy.step = "end" /\ Tells([toy EXCEPT !.step = "over"], Frame(FINAL, good))
    /\ UNCHANGED <<runs, host, queue, reading, toToy, late>>

\* While it receives the toy may ask whether anybody is there, or cancel.
ToyAsks ==
    /\ toy.at = "receiving" /\ Len(toHost) < LineLimit
    /\ \/ Tells(toy, Line("ECHO REQ"))
       \/ Tells([toy EXCEPT !.at = "menu"], Line("CAN"))
    /\ UNCHANGED <<runs, host, queue, reading, toToy, late>>

ToyRestarts ==
    /\ toy.at # "menu" /\ toy' = [toy EXCEPT !.at = "menu", !.step = "none", !.sequence = 0]
    /\ UNCHANGED <<runs, host, queue, reading, toToy, toHost, late>>

Next ==
    \/ \E operation \in Operations : Start(operation)
    \/ LoadFails \/ Open \/ Read \/ TakeLine \/ TakeFrame \/ Timeout \/ Unplug
    \/ LoseToToy \/ LoseToHost \/ ToyTakes \/ ToySpeaks \/ ToyAsks \/ ToyRestarts

Spec == Init /\ [][Next]_vars

\* Loading ends, at the latest by its own timeout; a deadline that has been set
\* comes.  Nothing is assumed of the toy and the line.
FairSpec == Spec /\ WF_vars(LoadFails \/ Open) /\ WF_vars(Timeout)

-----------------------------------------------------------------------------
(* Properties                                                               *)

Bank == 0..SECTORS - 1
Removing == \E i \in 1..Len(runs) : runs[i] = "remove"

\* The page reports music installed or removed only when the whole bank is there
\* or gone, whatever the line loses and wherever the toy restarts.  A helper's
\* frames do not say which installation they answer: so that holds while the host
\* has waited for every answer since the line was last cut, and without that as long
\* as no remover ran, for an earlier one may have erased what it had confirmed.
ReportedDone ==
    host.pc = "done" /\ (~late \/ ~Removing) =>
        /\ Operation = "music" => toy.bank = Bank
        /\ Operation = "remove" => toy.bank = {}

\* An installation that breaks off anywhere leaves no bank that looks whole: its
\* header is written only over all the rest, with every installation before it
\* broken off, repeated or late.  Beside removers, as far as answers were waited for.
HeaderLast ==
    /\ 0 \in toy.bank /\ ~Removing => toy.bank = Bank
    /\ ~late => \A i \in 1..Len(toToy) :
          toToy[i] = Message("data", SECTORS - 1, 0) => 1..SECTORS - 1 \subseteq toy.bank

\* Answers to a download are not matched to what they answer.  Still, while each was
\* waited for, the download talks with what the toy began for it, and is never
\* ahead of the toy: not when an installation was lost with the adapter, nor when
\* what it left in the buffers and on the line is read by the next.
AheadByLate ==
    ~late /\ (host.pc \notin Ended \cup {"load", "pkt"} \/ host.pc = "done") =>
        toy.download = Len(runs) /\ host.index <= toy.need

\* Done is done, a header comes last, and no answer is taken for another's.
InstallHolds == ReportedDone /\ HeaderLast /\ AheadByLate

\* Every installation ends, whatever the toy answers or asks for.
InstallEnds == host.pc = "load" ~> host.pc \in Ended

=============================================================================
