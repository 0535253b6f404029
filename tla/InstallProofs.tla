--------------------------- MODULE InstallProofs ---------------------------
(***************************************************************************)
(* What installations promise, proved for any number of installations,      *)
(* records and sectors, and for buffers and lines of any length.            *)
(***************************************************************************)
EXTENDS Install, WellFoundedInduction, TLAPS

-----------------------------------------------------------------------------
(* The inductive invariant                                                  *)

Steps == {"none", "start", "header", "sector", "data", "erase", "end", "over"}
Music == {"header", "sector", "verify"}
Remove == {"confirm", "erase"}
\* The host talks with the helper it downloaded.
Helping == {"ready", "final"} \cup Music \cup Remove
Places == Ended \cup {"load", "pkt", "record"} \cup Helping

Asks == {"PKT", "record"}
Commands == {"header", "sector", "data", "clear"}
Answers == {"ACK", "NAK", "ENQ"}
Types == Asks \cup Commands \cup Answers \cup {"TPR1", "noise", "CAN", "ECHO REQ", "ECHO REP"}
Messages == [type : Types, n : Int, detail : Int]

\* What is on a line or in the buffer.
On(s) == {s[i] : i \in 1..Len(s)}
Incoming == On(queue) \cup On(toHost)
\* Some message is of one of these types, and one of the first is never before one of the second.
Some(s, types) == \E m \in On(s) : m.type \in types
Never(s, first, second) ==
    \A i, j \in 1..Len(s) : i < j /\ s[i].type \in first => s[j].type \notin second

\* What is on its way to the host, in its order.
NeverIn(first, second) ==
    /\ Never(queue, first, second) /\ Never(toHost, first, second)
    /\ Some(queue, first) => ~Some(toHost, second)
Answered == Some(queue, Answers) \/ Some(toHost, Answers)
Asked == Some(toToy, Asks)

Hosts == [pc : Places, index : Nat, attempts : Nat, transmissions : Nat, sequence : Nat]

Toys == [at : Operations \cup {"menu", "receiving"}, step : Steps, download : Nat,
         need : 0..RECORDS, sequence : Nat, bank : SUBSET Bank]

\* The types, and what goes with where the host and the toy stand.
TypeOK ==
    /\ runs \in Seq(Operations)
    /\ host \in Hosts
    /\ queue \in Seq(Messages) /\ toToy \in Seq(Messages) /\ toHost \in Seq(Messages)
    /\ toy \in Toys
    /\ reading \in BOOLEAN /\ late \in BOOLEAN
Placed(h) ==
    /\ h.pc = "record" => h.index < RECORDS
    /\ h.pc \in {"sector", "verify", "erase"} => h.sequence < SECTORS
    /\ h.pc \in Music => Operation = "music"
    /\ h.pc \in Remove => Operation = "remove"
    /\ h.pc \in Helping => Operation # "game"
HostPlaced ==
    /\ host.pc # "idle" => runs # <<>>
    /\ host.pc \in Ended \cup {"load"} => queue = <<>>
    /\ Placed(host)
ToyPlaced ==
    /\ toy.download <= Len(runs)
    /\ toy.at # "menu" => toy.download # 0
    /\ toy.at = "receiving" => toy.need < RECORDS
    /\ toy.at \in Operations => toy.at = Kind /\ toy.need = RECORDS
    /\ toy.step = "erase" => toy.at = "remove" /\ toy.sequence < SECTORS
Sendable(m) ==
    /\ m.type = "PKT" => m.n \in 1..Len(runs)
    /\ m.type = "record" => m.n \in 0..RECORDS - 1
    /\ m.type \in {"sector", "data"} => m.n \in 0..SECTORS - 1
Readable(m) ==
    /\ m.type \in Answers \cup {"TPR1", "noise", "CAN", "ECHO REQ"}
    /\ m.type = "ENQ" => m.n \in 0..RECORDS - 1
    /\ m.type = "noise" => m = Noise
    /\ m.type = "TPR1" /\ m.detail \in {1, 2} => m.n \in 0..SECTORS - 1
Sent ==
    /\ \A m \in On(toToy) : Sendable(m)
    /\ \A m \in Incoming : Readable(m)
Shape == TypeOK /\ HostPlaced /\ ToyPlaced /\ Sent

\* The sectors sent before sector n, in the order they are sent, are there.
Before(n) == \A j \in 0..n - 1 : Sector(j) \in toy.bank
\* As long as nothing removes, what was confirmed stays.
Kept ==
    ~Removing =>
        /\ 0 \in toy.bank => toy.bank = Bank
        /\ \A m \in On(toToy) : m.type = "data" => Before(m.n)
        /\ \A m \in Incoming : m.type = "TPR1" /\ m.detail \in {1, 2} => Sector(m.n) \in toy.bank
        /\ host.pc \in {"sector", "verify"} => Before(host.sequence)
        /\ host.pc \in {"final", "done"} /\ Operation = "music" => Before(SECTORS)

\* There is one question or one answer at a time, and the question is the last thing said.
OneAtATime ==
    /\ Never(toToy, Asks, Asks \cup Commands)
    /\ NeverIn(Answers, Answers)
    /\ Answered => ~Asked
    /\ host.pc \notin {"pkt", "record"} => ~Asked /\ ~Answered
\* Whoever takes the download has done with what was before.
Inviting ==
    host.pc = "pkt" =>
        /\ \A m \in On(toToy) : m.type \in Asks => m = Message("PKT", Len(runs), 0)
        /\ NeverIn(Answers, {"TPR1"})
        /\ Answered => /\ \A m \in Incoming : m.type \in Answers => m.type = "ACK"
                       /\ ~Some(toToy, Commands)
                       /\ toy.at \in {"receiving", "menu"}
                       /\ toy.download = Len(runs) /\ toy.need = 0
\* An answer to a record says what the toy has; a helper has not been told anything.
Sending ==
    host.pc = "record" =>
        /\ toy.download = Len(runs) /\ host.index <= toy.need
        /\ \A m \in On(toToy) : m.type \in Asks => m = Message("record", host.index, 0)
        /\ ~Some(toToy, Commands)
        /\ \A m \in Incoming : /\ m.type = "ACK" => host.index < toy.need
                               /\ m.type = "ENQ" => m.n <= toy.need
                               /\ m.type = "TPR1" => m.detail \notin {1, 2} /\ toy.need = RECORDS
        /\ toy.at \in {"music", "remove"} => toy.step \in {"start", "header", "over"}
\* The helper is the one of this installation, and all it says is of this bank.
Helped ==
    host.pc \in Helping \cup {"done"} =>
        /\ toy.download = Len(runs) /\ toy.need = RECORDS /\ host.index = RECORDS
        /\ \A m \in Incoming : m.type = "TPR1" /\ m.detail \in {1, 2} =>
              /\ Operation = "music" => Sector(m.n) \in toy.bank
              /\ Operation = "remove" => m.n \notin toy.bank
        /\ host.pc \in {"sector", "verify"} => Before(host.sequence)
        /\ host.pc = "erase" => \A j \in 0..host.sequence - 1 : j \notin toy.bank
        /\ host.pc \in {"final", "done"} =>
              /\ Operation = "music" => Before(SECTORS)
              /\ Operation = "remove" => toy.bank = {}
\* Data is on the line only for a toy that has what goes before it, and keeps it.
InOrder == \A m \in On(toToy) : m.type = "data" => toy.at # "remove" /\ Before(m.n)
\* As long as every answer is waited for, host and toy are in step.
Together == OneAtATime /\ Inviting /\ Sending /\ Helped /\ InOrder
InStep == ~late => Together

IInv == Shape /\ Kept /\ InStep

-----------------------------------------------------------------------------
(* Buffers and lines                                                        *)

\* What is left after the first k messages, and those first.
LEMMA Parted ==
    ASSUME NEW s \in Seq(Messages), NEW k \in 0..Len(s)
    PROVE  /\ SubSeq(s, k + 1, Len(s)) \in Seq(Messages) /\ SubSeq(s, 1, k) \in Seq(Messages)
           /\ Len(SubSeq(s, k + 1, Len(s))) = Len(s) - k /\ Len(SubSeq(s, 1, k)) = k
           /\ \A i \in 1..Len(s) - k : SubSeq(s, k + 1, Len(s))[i] = s[i + k]
           /\ \A i \in 1..k : SubSeq(s, 1, k)[i] = s[i]
PROOF OBVIOUS

\* What is on them was there before, in the same order.
LEMMA PartsInOrder ==
    ASSUME NEW s \in Seq(Messages), NEW k \in 0..Len(s), NEW first, NEW second
    PROVE  LET rest == SubSeq(s, k + 1, Len(s))
               start == SubSeq(s, 1, k)
           IN  /\ On(rest) \subseteq On(s) /\ On(start) \subseteq On(s)
               /\ Never(s, first, second) =>
                     /\ Never(rest, first, second) /\ Never(start, first, second)
                     /\ Some(start, first) => ~Some(rest, second)
<1> DEFINE rest == SubSeq(s, k + 1, Len(s))
           start == SubSeq(s, 1, k)
<1>1. /\ Len(rest) = Len(s) - k /\ Len(start) = k /\ Len(s) \in Nat
      /\ \A i \in 1..Len(s) - k : rest[i] = s[i + k]
      /\ \A i \in 1..k : start[i] = s[i]
  BY Parted
<1> HIDE DEF rest, start
<1>2. On(rest) \subseteq On(s) /\ On(start) \subseteq On(s)
  BY <1>1 DEF On
<1>3. ASSUME Never(s, first, second)
      PROVE  Never(rest, first, second) /\ Never(start, first, second)
  <2>1. \A i, j \in 1..Len(rest) : i < j => i + k < j + k /\ i + k \in 1..Len(s) /\ j + k \in 1..Len(s)
    BY <1>1
  <2>2. \A i, j \in 1..Len(start) : i \in 1..Len(s) /\ j \in 1..Len(s)
    BY <1>1
  <2> QED
    BY <1>1, <1>3, <2>1, <2>2 DEF Never
<1>4. ASSUME Never(s, first, second), Some(start, first), Some(rest, second)
      PROVE  FALSE
  <2>1. PICK i \in 1..Len(start) : start[i].type \in first
    BY <1>4 DEF Some, On
  <2>2. PICK j \in 1..Len(rest) : rest[j].type \in second
    BY <1>4 DEF Some, On
  <2>3. i \in 1..Len(s) /\ j + k \in 1..Len(s) /\ i < j + k
    BY <1>1
  <2> QED
    BY <1>1, <1>4, <2>1, <2>2, <2>3 DEF Never
<1> QED
  BY <1>2, <1>3, <1>4 DEF rest, start

\* Two after each other.
LEMMA Joined ==
    ASSUME NEW s \in Seq(Messages), NEW t \in Seq(Messages), NEW first, NEW second
    PROVE  /\ s \o t \in Seq(Messages) /\ On(s \o t) = On(s) \cup On(t)
           /\ Never(s, first, second) /\ Never(t, first, second) /\ (Some(s, first) => ~Some(t, second))
                 => Never(s \o t, first, second)
<1> DEFINE u == s \o t
<1>1. /\ u \in Seq(Messages) /\ Len(u) = Len(s) + Len(t) /\ Len(s) \in Nat /\ Len(t) \in Nat
      /\ \A i \in 1..Len(s) : u[i] = s[i]
      /\ \A i \in 1..Len(t) : u[i + Len(s)] = t[i]
  OBVIOUS
<1> HIDE DEF u
<1>2. \A i \in 1..Len(u) : i \in 1..Len(s) \/ (i - Len(s) \in 1..Len(t) /\ u[i] = t[i - Len(s)])
  <2> TAKE i \in 1..Len(u)
  <2> CASE i > Len(s)
    <3>1. i - Len(s) \in 1..Len(t) /\ i = (i - Len(s)) + Len(s)
      BY <1>1
    <3> QED
      BY <1>1, <3>1
  <2> QED
    BY <1>1
<1>3. On(u) = On(s) \cup On(t)
  <2>1. On(u) \subseteq On(s) \cup On(t)
    BY <1>1, <1>2 DEF On
  <2>2. On(s) \subseteq On(u)
    BY <1>1 DEF On
  <2>3. On(t) \subseteq On(u)
    <3>1. \A i \in 1..Len(t) : i + Len(s) \in 1..Len(u)
      BY <1>1
    <3> QED
      BY <1>1, <3>1 DEF On
  <2> QED
    BY <2>1, <2>2, <2>3
<1>4. ASSUME Never(s, first, second), Never(t, first, second), Some(s, first) => ~Some(t, second)
      PROVE  Never(u, first, second)
  <2> SUFFICES ASSUME NEW i \in 1..Len(u), NEW j \in 1..Len(u), i < j, u[i].type \in first, u[j].type \in second
               PROVE  FALSE
    BY DEF Never
  <2>1. CASE j \in 1..Len(s)
    <3>1. i \in 1..Len(s)
      BY <1>1, <2>1
    <3> QED
      BY <1>1, <1>4, <2>1, <3>1 DEF Never
  <2>2. CASE i \notin 1..Len(s)
    <3>1. j \notin 1..Len(s)
      BY <1>1, <2>2
    <3>2. i - Len(s) < j - Len(s)
      BY <1>1
    <3> QED
      BY <1>2, <1>4, <2>2, <3>1, <3>2 DEF Never
  <2>3. CASE i \in 1..Len(s) /\ j \notin 1..Len(s)
    <3>1. Some(s, first)
      BY <1>1, <2>3 DEF Some, On
    <3>2. Some(t, second)
      BY <1>2, <2>3 DEF Some, On
    <3> QED
      BY <1>4, <3>1, <3>2
  <2> QED
    BY <2>1, <2>2, <2>3
<1> QED
  BY <1>1, <1>3, <1>4 DEF u

\* One message.
LEMMA Alone ==
    ASSUME NEW m \in Messages, NEW first, NEW second
    PROVE  /\ <<m>> \in Seq(Messages) /\ On(<<m>>) = {m} /\ Never(<<m>>, first, second)
           /\ Some(<<m>>, first) <=> m.type \in first
<1>1. <<m>> \in Seq(Messages) /\ Len(<<m>>) = 1 /\ <<m>>[1] = m
  OBVIOUS
<1>2. On(<<m>>) = {m}
  BY <1>1 DEF On
<1>3. Never(<<m>>, first, second)
  <2>1. \A i, j \in 1..Len(<<m>>) : ~(i < j)
    BY <1>1
  <2> QED
    BY <2>1 DEF Never
<1> QED
  BY <1>1, <1>2, <1>3 DEF Some

\* Nothing.
LEMMA Nothing ==
    ASSUME NEW first, NEW second
    PROVE  /\ <<>> \in Seq(Messages) /\ On(<<>>) = {} /\ Never(<<>>, first, second)
           /\ ~Some(<<>>, first)
  BY DEF On, Never, Some

\* One more at the end.
LEMMA Added ==
    ASSUME NEW s \in Seq(Messages), NEW m \in Messages, NEW first, NEW second
    PROVE  /\ Append(s, m) \in Seq(Messages) /\ On(Append(s, m)) = On(s) \cup {m}
           /\ Never(s, first, second) /\ (m.type \in second => ~Some(s, first))
                 => Never(Append(s, m), first, second)
<1>1. Append(s, m) = s \o <<m>>
  OBVIOUS
<1>2. <<m>> \in Seq(Messages) /\ On(<<m>>) = {m} /\ Never(<<m>>, first, second) /\ (Some(<<m>>, second) => m.type \in second)
  BY Alone
<1> HIDE DEF Never, Some, On
<1> DEFINE t == <<m>>
<1>3. /\ s \o t \in Seq(Messages) /\ On(s \o t) = On(s) \cup On(t)
      /\ Never(s, first, second) /\ Never(t, first, second) /\ (Some(s, first) => ~Some(t, second))
            => Never(s \o t, first, second)
  <2> HIDE DEF t
  <2>1. t \in Seq(Messages)
    BY <1>2 DEF t
  <2> QED
    BY <2>1, Joined
<1> QED
  BY <1>1, <1>2, <1>3

\* The first one off.
LEMMA Taken ==
    ASSUME NEW s \in Seq(Messages), s # <<>>, NEW first, NEW second
    PROVE  /\ Head(s) \in Messages /\ Head(s) \in On(s)
           /\ Tail(s) \in Seq(Messages) /\ On(Tail(s)) \subseteq On(s)
           /\ Never(s, first, second) =>
                 Never(Tail(s), first, second) /\ (Head(s).type \in first => ~Some(Tail(s), second))
<1> DEFINE start == SubSeq(s, 1, 1)
           rest == SubSeq(s, 1 + 1, Len(s))
<1>1. 1 \in 0..Len(s) /\ 1 \in 1..Len(s) /\ Head(s) = s[1] /\ s[1] \in Messages
  OBVIOUS
<1>2. Tail(s) = rest
  OBVIOUS
<1>3. rest \in Seq(Messages) /\ Len(start) = 1 /\ start[1] = s[1]
  BY <1>1, Parted
<1>4. s[1] \in On(s)
  BY <1>1 DEF On
<1>5. On(rest) \subseteq On(s)
  BY <1>1, PartsInOrder
<1>6. Never(s, first, second) => Never(rest, first, second) /\ (Some(start, first) => ~Some(rest, second))
  BY <1>1, PartsInOrder
<1> HIDE DEF start, rest
<1>7. s[1].type \in first => Some(start, first)
  BY <1>3 DEF Some, On
<1> QED
  BY <1>1, <1>2, <1>3, <1>4, <1>5, <1>6, <1>7

-----------------------------------------------------------------------------
(* What the host does next                                                  *)

\* The fields of a message.
LEMMA MessageIs ==
    ASSUME NEW type \in Types, NEW n \in Int, NEW detail \in Int
    PROVE  /\ Message(type, n, detail) \in Messages /\ Message(type, n, detail).type = type
           /\ Message(type, n, detail).n = n /\ Message(type, n, detail).detail = detail
BY DEF Message, Messages

\* The types of what is said, one by one.
LEMMA TypesAre ==
    /\ "PKT" \in Types /\ "record" \in Types /\ "ECHO REP" \in Types
    /\ "header" \in Types /\ "sector" \in Types /\ "data" \in Types /\ "clear" \in Types
    /\ "ACK" \in Types /\ "NAK" \in Types /\ "ENQ" \in Types /\ "CAN" \in Types
    /\ "ECHO REQ" \in Types /\ "TPR1" \in Types /\ "noise" \in Types
BY DEF Types, Asks, Commands, Answers

\* A line without a number.
LEMMA LineIs ==
    ASSUME NEW type \in Types
    PROVE  Line(type) \in Messages /\ Line(type).type = type /\ Line(type).n = 0 /\ Line(type).detail = 0
<1>1. 0 \in Int
  OBVIOUS
<1> QED
  BY <1>1, MessageIs DEF Line

\* What the host asks and announces, and data.
LEMMA SaysIs ==
    ASSUME NEW n \in Int
    PROVE  /\ Message("PKT", n, 0) \in Messages /\ Message("PKT", n, 0).type = "PKT" /\ Message("PKT", n, 0).n = n
           /\ Message("record", n, 0) \in Messages /\ Message("record", n, 0).type = "record"
           /\ Message("record", n, 0).n = n
           /\ Message("sector", n, 0) \in Messages /\ Message("sector", n, 0).type = "sector"
           /\ Message("sector", n, 0).n = n
           /\ Message("data", n, 0) \in Messages /\ Message("data", n, 0).type = "data" /\ Message("data", n, 0).n = n
<1>1. 0 \in Int
  OBVIOUS
<1>2. \A type \in Types : /\ Message(type, n, 0) \in Messages /\ Message(type, n, 0).type = type
                          /\ Message(type, n, 0).n = n
  BY <1>1, MessageIs
<1> QED
  BY <1>2, TypesAre

\* The installation breaks off.
Broken(to) == to.host \in Hosts /\ to.host.pc = "failed" /\ to.out = <<>>
Inquiring(to) ==
    to.host \in Hosts /\ to.host.pc = "pkt" /\ to.out = <<Message("PKT", Len(runs), 0)>>
Transmitting(to, i) ==
    /\ to.host \in Hosts /\ to.host.pc = "record" /\ to.host.index = i
    /\ to.out = <<Message("record", i, 0)>>
Reaching(to, pc, out) ==
    to.host \in Hosts /\ to.host.pc = pc /\ to.host.index = host.index /\ to.out = out

\* It breaks off when there is nothing else to do.
LEMMA FailsIs == Broken(Fails)
BY DEF Broken, Fails, Goes, Idle, Hosts, Places, Ended

\* The toy is asked, unless that was the last attempt.
LEMMA AskIs ==
    ASSUME NEW h \in Hosts
    PROVE  Broken(Ask(h)) \/ Inquiring(Ask(h))
<1>1. CASE h.attempts >= ATTEMPTS
  BY <1>1, FailsIs DEF Ask
<1>2. CASE ~(h.attempts >= ATTEMPTS)
  <2> DEFINE g == [h EXCEPT !.pc = "pkt", !.attempts = @ + 1]
  <2>1. g \in Hosts /\ g.pc = "pkt"
    <3>1. h.attempts + 1 \in Nat /\ "pkt" \in Places
      BY DEF Hosts, Places
    <3> QED
      BY <3>1 DEF Hosts
  <2>2. Ask(h) = Goes(g, <<Message("PKT", Len(runs), 0)>>)
    BY <1>2 DEF Ask
  <2> HIDE DEF g
  <2> QED
    BY <2>1, <2>2 DEF Inquiring, Goes
<1> QED
  BY <1>1, <1>2

\* A record is sent, unless it was sent often enough.
LEMMA TransmitIs ==
    ASSUME NEW h \in Hosts, NEW i \in Nat, NEW times \in Nat
    PROVE  Broken(Transmit(h, i, times)) \/ Transmitting(Transmit(h, i, times), i)
<1>1. CASE h.transmissions >= TRANSMISSIONS \/ times >= ATTEMPTS
  BY <1>1, FailsIs DEF Transmit
<1>2. CASE ~(h.transmissions >= TRANSMISSIONS \/ times >= ATTEMPTS)
  <2> DEFINE g == [h EXCEPT !.pc = "record", !.index = i, !.attempts = times + 1, !.transmissions = @ + 1]
  <2>1. g \in Hosts /\ g.pc = "record" /\ g.index = i
    <3>1. h.transmissions + 1 \in Nat /\ times + 1 \in Nat /\ "record" \in Places
      BY DEF Hosts, Places
    <3> QED
      BY <3>1 DEF Hosts
  <2>2. Transmit(h, i, times) = Goes(g, <<Message("record", i, 0)>>)
    BY <1>2 DEF Transmit
  <2> HIDE DEF g
  <2> QED
    BY <2>1, <2>2 DEF Transmitting, Goes
<1> QED
  BY <1>1, <1>2

\* A line of the toy is answered by a question, by a record, by an echo, or by the end.
LEMMA OnLineIs ==
    ASSUME Shape, host.pc \in {"pkt", "record"}, NEW m \in Incoming, IsLine(m)
    PROVE  LET to == OnLine(host, m)
           IN  \/ m.type = "ECHO REQ" /\ to.host = host /\ to.out = <<Line("ECHO REP")>>
               \/ Broken(to)
               \/ host.pc = "pkt" /\ m.type \in {"NAK", "ENQ"} /\ Inquiring(to)
               \/ host.pc = "pkt" /\ m.type = "ACK" /\ Transmitting(to, 0)
               \/ /\ host.pc = "record" /\ m.type = "ACK" /\ host.index + 1 = RECORDS
                  /\ to.host \in Hosts /\ to.host.index = RECORDS /\ to.out = <<>>
                  /\ to.host.pc = IF Operation = "game" THEN "done" ELSE "ready"
               \/ /\ host.pc = "record" /\ m.type = "ACK" /\ host.index + 1 < RECORDS
                  /\ Transmitting(to, host.index + 1)
               \/ host.pc = "record" /\ m.type = "NAK" /\ Transmitting(to, host.index)
               \/ host.pc = "record" /\ m.type = "ENQ" /\ m.n < RECORDS /\ Transmitting(to, m.n)
<1>1. /\ host \in Hosts /\ host.index \in Nat /\ host.attempts \in Nat /\ RECORDS \in Nat \ {0}
      /\ host.pc = "record" => host.index < RECORDS
      /\ m.type = "ENQ" => m.n \in 0..RECORDS - 1
  BY InstallAssumption DEF Shape, TypeOK, Hosts, HostPlaced, Placed, Sent, Readable
<1>2. CASE m.type = "ECHO REQ"
  <2>1. OnLine(host, m) = Goes(host, <<Line("ECHO REP")>>)
    BY <1>2 DEF OnLine
  <2>2. Goes(host, <<Line("ECHO REP")>>).host = host /\ Goes(host, <<Line("ECHO REP")>>).out = <<Line("ECHO REP")>>
    BY DEF Goes
  <2> QED
    BY <1>2, <2>1, <2>2
<1>3. CASE m.type = "CAN"
  <2>1. OnLine(host, m) = Fails
    BY <1>3 DEF OnLine
  <2> QED
    BY <2>1, FailsIs
<1>4. CASE host.pc = "pkt" /\ m.type = "ACK"
  <2>1. OnLine(host, m) = Transmit(host, 0, 0)
    BY <1>4 DEF OnLine
  <2> QED
    BY <1>1, <1>4, <2>1, TransmitIs
<1>5. CASE host.pc = "pkt" /\ m.type \in {"NAK", "ENQ"}
  <2>1. OnLine(host, m) = Ask(host)
    BY <1>5 DEF OnLine
  <2> QED
    BY <1>1, <1>5, <2>1, AskIs
<1>6. CASE host.pc = "record" /\ m.type = "ACK"
  <2>1. CASE host.index + 1 = RECORDS
    <3>1. OnLine(host, m) = Downloaded(host)
      BY <1>6, <2>1 DEF OnLine
    <3>2. /\ Downloaded(host).out = <<>> /\ Downloaded(host).host.index = RECORDS
          /\ Downloaded(host).host.pc = IF Operation = "game" THEN "done" ELSE "ready"
          /\ Downloaded(host).host \in Hosts
      BY <1>1, <2>1 DEF Downloaded, Ends, Goes, Idle, Hosts, Places, Ended, Helping
    <3> QED
      BY <1>6, <2>1, <3>1, <3>2
  <2>2. CASE host.index + 1 # RECORDS
    <3>1. OnLine(host, m) = Transmit(host, host.index + 1, 0)
      BY <1>6, <2>2 DEF OnLine
    <3>2. host.index + 1 \in Nat /\ host.index + 1 < RECORDS
      BY <1>1, <1>6, <2>2
    <3> QED
      BY <1>1, <1>6, <3>1, <3>2, TransmitIs
  <2> QED
    BY <2>1, <2>2
<1>7. CASE host.pc = "record" /\ m.type = "NAK"
  <2>1. OnLine(host, m) = Transmit(host, host.index, host.attempts)
    BY <1>7 DEF OnLine
  <2> QED
    BY <1>1, <1>7, <2>1, TransmitIs
<1>8. CASE host.pc = "record" /\ m.type = "ENQ"
  <2>1. OnLine(host, m) = Transmit(host, m.n, 0)
    BY <1>1, <1>8 DEF OnLine, Enquired
  <2> QED
    BY <1>1, <1>8, <2>1, TransmitIs
<1> QED
  BY <1>2, <1>3, <1>4, <1>5, <1>6, <1>7, <1>8 DEF IsLine

\* The next sector is announced, or that was the last.
LEMMA NextSectorIs ==
    ASSUME NEW h \in Hosts, h.index = host.index
    PROVE  LET to == NextSector(h)
           IN  \/ h.sequence + 1 = SECTORS /\ Reaching(to, "final", <<>>)
               \/ /\ h.sequence + 1 # SECTORS /\ to.host.sequence = h.sequence + 1
                  /\ Reaching(to, "sector", <<Message("sector", h.sequence + 1, 0)>>)
<1>1. h.sequence + 1 \in Nat /\ h.index \in Nat /\ {"sector", "final"} \subseteq Places
  BY DEF Hosts, Places, Helping, Music
<1>2. CASE h.sequence + 1 = SECTORS
  <2> DEFINE g == [Idle EXCEPT !.pc = "final", !.index = h.index]
  <2>1. g \in Hosts /\ g.pc = "final" /\ g.index = h.index
    BY <1>1 DEF Hosts, Idle
  <2>2. NextSector(h) = Goes(g, <<>>)
    BY <1>2 DEF NextSector, Ends
  <2> HIDE DEF g
  <2> QED
    BY <1>2, <2>1, <2>2 DEF Reaching, Goes
<1>3. CASE h.sequence + 1 # SECTORS
  <2> DEFINE g == [h EXCEPT !.pc = "sector", !.sequence = h.sequence + 1]
  <2>1. g \in Hosts /\ g.pc = "sector" /\ g.index = h.index /\ g.sequence = h.sequence + 1
    BY <1>1 DEF Hosts
  <2>2. NextSector(h) = Goes(g, <<Message("sector", h.sequence + 1, 0)>>)
    BY <1>3 DEF NextSector, Announce
  <2> HIDE DEF g
  <2> QED
    BY <1>3, <2>1, <2>2 DEF Reaching, Goes
<1> QED
  BY <1>2, <1>3

\* The next sector is waited for, or that was the last.
LEMMA NextErasedIs ==
    ASSUME NEW h \in Hosts, h.index = host.index, h.pc = "erase"
    PROVE  LET to == NextErased(h)
           IN  \/ h.sequence + 1 = SECTORS /\ Reaching(to, "final", <<>>)
               \/ /\ h.sequence + 1 # SECTORS /\ to.host.sequence = h.sequence + 1
                  /\ Reaching(to, "erase", <<>>)
<1>1. h.sequence + 1 \in Nat /\ h.index \in Nat /\ {"erase", "final"} \subseteq Places
  BY DEF Hosts, Places, Helping, Remove
<1>2. CASE h.sequence + 1 = SECTORS
  <2> DEFINE g == [Idle EXCEPT !.pc = "final", !.index = h.index]
  <2>1. g \in Hosts /\ g.pc = "final" /\ g.index = h.index
    BY <1>1 DEF Hosts, Idle
  <2>2. NextErased(h) = Goes(g, <<>>)
    BY <1>2 DEF NextErased, Ends
  <2> HIDE DEF g
  <2> QED
    BY <1>2, <2>1, <2>2 DEF Reaching, Goes
<1>3. CASE h.sequence + 1 # SECTORS
  <2> DEFINE g == [h EXCEPT !.sequence = h.sequence + 1]
  <2>1. g \in Hosts /\ g.pc = "erase" /\ g.index = h.index /\ g.sequence = h.sequence + 1
    BY <1>1 DEF Hosts
  <2>2. NextErased(h) = Goes(g, <<>>)
    BY <1>3 DEF NextErased
  <2> HIDE DEF g
  <2> QED
    BY <1>3, <2>1, <2>2 DEF Reaching, Goes
<1> QED
  BY <1>2, <1>3

\* A step of the dialogue that changes the place.
LEMMA GoesIs ==
    ASSUME host \in Hosts, NEW pc \in Places, NEW out,
           NEW to, to = Goes([host EXCEPT !.pc = pc], out)
    PROVE  Reaching(to, pc, out) /\ to.host.sequence = host.sequence
<1> DEFINE g == [host EXCEPT !.pc = pc]
<1>1. g \in Hosts /\ g.pc = pc /\ g.index = host.index /\ g.sequence = host.sequence
  BY DEF Hosts
<1>2. to = Goes(g, out)
  OBVIOUS
<1> HIDE DEF g
<1> QED
  BY <1>1, <1>2 DEF Reaching, Goes

\* And one that begins to count.
LEMMA CountsIs ==
    ASSUME host \in Hosts, NEW pc \in Places, NEW out,
           NEW to, to = Goes([host EXCEPT !.pc = pc, !.sequence = 0], out)
    PROVE  Reaching(to, pc, out) /\ to.host.sequence = 0
<1> DEFINE g == [host EXCEPT !.pc = pc, !.sequence = 0]
<1>1. g \in Hosts /\ g.pc = pc /\ g.index = host.index /\ g.sequence = 0
  BY DEF Hosts
<1>2. to = Goes(g, out)
  OBVIOUS
<1> HIDE DEF g
<1>3. to.host = g /\ to.out = out
  BY <1>2 DEF Goes
<1> QED
  BY <1>1, <1>3 DEF Reaching

\* A good frame of the helper leads on, anything else is the end.
LEMMA OnFrameIs ==
    ASSUME Shape, host.pc \in Helping, NEW m \in Incoming, ~IsLine(m), NEW to, to = OnFrame(host, m)
    PROVE      \/ Broken(to)
               \/ /\ host.pc = "ready" /\ Operation = "music"
                  /\ Reaching(to, "header", <<Line("header")>>)
               \/ /\ host.pc = "ready" /\ Operation = "remove"
                  /\ Reaching(to, "confirm", <<Line("clear")>>)
               \/ /\ host.pc = "header" /\ to.host.sequence = 0
                  /\ Reaching(to, "sector", <<Message("sector", 0, 0)>>)
               \/ /\ host.pc = "sector" /\ to.host.sequence = host.sequence
                  /\ Reaching(to, "verify", <<Message("data", host.sequence, 0)>>)
               \/ /\ (host.pc = "sector" /\ m.detail = 2) \/ (host.pc = "verify" /\ m.detail = 1)
                  /\ m.n = host.sequence
                  /\ \/ host.sequence + 1 = SECTORS /\ Reaching(to, "final", <<>>)
                     \/ /\ host.sequence + 1 # SECTORS /\ to.host.sequence = host.sequence + 1
                        /\ Reaching(to, "sector", <<Message("sector", host.sequence + 1, 0)>>)
               \/ /\ host.pc = "confirm" /\ to.host.sequence = 0
                  /\ Reaching(to, "erase", <<>>)
               \/ /\ host.pc = "erase" /\ m.detail \in {1, 2} /\ m.n = host.sequence
                  /\ \/ host.sequence + 1 = SECTORS /\ Reaching(to, "final", <<>>)
                     \/ /\ host.sequence + 1 # SECTORS /\ to.host.sequence = host.sequence + 1
                        /\ Reaching(to, "erase", <<>>)
               \/ host.pc = "final" /\ Reaching(to, "done", <<>>)
<1>1. host \in Hosts /\ host.sequence \in Nat /\ 0 \in Nat /\ Helping \subseteq Places
  BY DEF Shape, TypeOK, Hosts, Places
<1>2. CASE m = Noise \/ m.n # Expected(host) \/ m.detail = FAILED
  <2>1. to = Fails
    BY <1>2 DEF OnFrame
  <2> QED
    BY <2>1, FailsIs
<1> DEFINE good == ~(m = Noise \/ m.n # Expected(host) \/ m.detail = FAILED)
<1>3. good /\ host.pc \in {"sector", "verify", "erase"} => m.n = host.sequence
  BY DEF Expected
<1>4. CASE good /\ host.pc = "ready" /\ Operation = "music"
  <2>1. to = Goes([host EXCEPT !.pc = "header"], <<Line("header")>>)
    BY <1>4 DEF OnFrame
  <2>2. "header" \in Places
    BY DEF Places, Helping, Music
  <2>3. Reaching(to, "header", <<Line("header")>>)
    BY <1>1, <2>1, <2>2, GoesIs
  <2> QED
    BY <1>4, <2>3
<1>5. CASE good /\ host.pc = "ready" /\ Operation = "remove" /\ m.detail = 3
  <2>1. to = Goes([host EXCEPT !.pc = "confirm"], <<Line("clear")>>)
    BY <1>5 DEF OnFrame
  <2>2. "confirm" \in Places
    BY DEF Places, Helping, Remove
  <2>3. Reaching(to, "confirm", <<Line("clear")>>)
    BY <1>1, <2>1, <2>2, GoesIs
  <2> QED
    BY <1>5, <2>3
<1>6. CASE good /\ host.pc = "header"
  <2>1. to = Goes([host EXCEPT !.pc = "sector", !.sequence = 0], <<Message("sector", 0, 0)>>)
    BY <1>6 DEF OnFrame, Announce
  <2>2. "sector" \in Places
    BY DEF Places, Helping, Music
  <2>3. Reaching(to, "sector", <<Message("sector", 0, 0)>>) /\ to.host.sequence = 0
    BY <1>1, <2>1, <2>2, CountsIs
  <2> QED
    BY <1>6, <2>3
<1>7. CASE good /\ host.pc = "sector" /\ m.detail = 0
  <2>1. to = Goes([host EXCEPT !.pc = "verify"], <<Message("data", host.sequence, 0)>>)
    BY <1>7 DEF OnFrame
  <2>2. "verify" \in Places
    BY DEF Places, Helping, Music
  <2>3. Reaching(to, "verify", <<Message("data", host.sequence, 0)>>) /\ to.host.sequence = host.sequence
    BY <1>1, <2>1, <2>2, GoesIs
  <2> QED
    BY <1>7, <2>3
<1>8. CASE good /\ ((host.pc = "sector" /\ m.detail = 2) \/ (host.pc = "verify" /\ m.detail = 1))
  <2>1. to = NextSector(host)
    BY <1>8 DEF OnFrame
  <2> QED
    BY <1>1, <1>3, <1>8, <2>1, NextSectorIs
<1>9. CASE good /\ host.pc = "confirm" /\ m.detail = 3
  <2>1. to = Goes([host EXCEPT !.pc = "erase", !.sequence = 0], <<>>)
    BY <1>9 DEF OnFrame
  <2>2. "erase" \in Places
    BY DEF Places, Helping, Remove
  <2>3. Reaching(to, "erase", <<>>) /\ to.host.sequence = 0
    BY <1>1, <2>1, <2>2, CountsIs
  <2> QED
    BY <1>9, <2>3
<1>10. CASE good /\ host.pc = "erase" /\ m.detail \in {1, 2}
  <2>1. to = NextErased(host)
    BY <1>10 DEF OnFrame
  <2> QED
    BY <1>1, <1>3, <1>10, <2>1, NextErasedIs
<1>11. CASE good /\ host.pc = "final" /\ (Operation = "music" \/ m.detail = 3)
  <2> DEFINE g == [Idle EXCEPT !.pc = "done", !.index = host.index]
  <2>1. g \in Hosts /\ g.pc = "done" /\ g.index = host.index
    BY <1>1 DEF Hosts, Idle, Places, Ended
  <2>2. to = Goes(g, <<>>)
    BY <1>11 DEF OnFrame, Ends
  <2> HIDE DEF g
  <2> QED
    BY <1>11, <2>1, <2>2 DEF Reaching, Goes
<1>12. CASE /\ good
            /\ ~(host.pc = "ready" /\ Operation = "music")
            /\ ~(host.pc = "ready" /\ Operation = "remove" /\ m.detail = 3)
            /\ host.pc # "header"
            /\ ~(host.pc = "sector" /\ m.detail \in {0, 2})
            /\ ~(host.pc = "verify" /\ m.detail = 1)
            /\ ~(host.pc = "confirm" /\ m.detail = 3)
            /\ ~(host.pc = "erase" /\ m.detail \in {1, 2})
            /\ ~(host.pc = "final" /\ (Operation = "music" \/ m.detail = 3))
  <2>1. to = Fails
    BY <1>12 DEF OnFrame
  <2> QED
    BY <2>1, FailsIs
<1> QED
  <2>1. ASSUME good
        PROVE  \/ host.pc = "ready" /\ Operation = "music"
               \/ host.pc = "ready" /\ Operation = "remove" /\ m.detail = 3
               \/ host.pc = "header"
               \/ host.pc = "sector" /\ m.detail = 0
               \/ (host.pc = "sector" /\ m.detail = 2) \/ (host.pc = "verify" /\ m.detail = 1)
               \/ host.pc = "confirm" /\ m.detail = 3
               \/ host.pc = "erase" /\ m.detail \in {1, 2}
               \/ host.pc = "final" /\ (Operation = "music" \/ m.detail = 3)
               \/ /\ ~(host.pc = "ready" /\ Operation = "music")
                  /\ ~(host.pc = "ready" /\ Operation = "remove" /\ m.detail = 3)
                  /\ host.pc # "header"
                  /\ ~(host.pc = "sector" /\ m.detail \in {0, 2})
                  /\ ~(host.pc = "verify" /\ m.detail = 1)
                  /\ ~(host.pc = "confirm" /\ m.detail = 3)
                  /\ ~(host.pc = "erase" /\ m.detail \in {1, 2})
                  /\ ~(host.pc = "final" /\ (Operation = "music" \/ m.detail = 3))
    OBVIOUS
  <2> QED
    BY <1>2, <1>4, <1>5, <1>6, <1>7, <1>8, <1>9, <1>10, <1>11, <1>12, <2>1

-----------------------------------------------------------------------------
(* What an action of the host does to buffer and line                       *)

\* A set of places that is not empty has a first one.
LEMMA FirstIs ==
    ASSUME NEW S \in SUBSET Nat, 0 \notin S
    PROVE  IF S = {} THEN First(S) = 0 ELSE First(S) \in S /\ \A n \in S : First(S) <= n
<1> DEFINE R == {p \in Nat \X Nat : p[1] < p[2]}
<1>1. OpToRel(<, Nat) = R
  BY DEF OpToRel
<1>2. IsWellFoundedOn(R, Nat)
  BY <1>1, NatLessThanWellFounded
<1> HIDE DEF R
<1>3. CASE S # {}
  <2>1. PICK x \in S : \A y \in S : ~(<<y, x>> \in R)
    BY <1>2, <1>3, WFMin
  <2>2. \A y \in S : ~(y < x)
    <3> TAKE y \in S
    <3>1. <<y, x>> \in Nat \X Nat /\ <<y, x>>[1] = y /\ <<y, x>>[2] = x
      OBVIOUS
    <3> QED
      BY <2>1, <3>1 DEF R
  <2>3. \A y \in S : x <= y
    BY <2>2
  <2>4. Min(S) \in S /\ \A n \in S : Min(S) <= n
    BY <2>3 DEF Min
  <2> QED
    BY <1>3, <2>4 DEF First
<1> QED
  BY <1>3 DEF First

\* The first line in the buffer, and the first that is none.
LEMMA FirstsAre ==
    ASSUME queue \in Seq(Messages)
    PROVE  /\ FirstLine \in 0..Len(queue) /\ FirstFrame \in 0..Len(queue)
           /\ FirstLine # 0 => IsLine(queue[FirstLine])
           /\ FirstFrame # 0 => ~IsLine(queue[FirstFrame])
           /\ \A i \in 1..Len(queue) : i < FirstLine \/ FirstLine = 0 => ~IsLine(queue[i])
<1> DEFINE L == {i \in 1..Len(queue) : IsLine(queue[i])}
           F == {i \in 1..Len(queue) : ~IsLine(queue[i])}
<1>1. L \in SUBSET Nat /\ 0 \notin L /\ F \in SUBSET Nat /\ 0 \notin F /\ Len(queue) \in Nat
  OBVIOUS
<1>2. FirstLine = First(L) /\ FirstFrame = First(F)
  BY DEF FirstLine, FirstFrame
<1>3. IF L = {} THEN FirstLine = 0 ELSE FirstLine \in L /\ \A n \in L : FirstLine <= n
  <2> HIDE DEF L
  <2> QED
    BY <1>1, <1>2, FirstIs
<1>4. IF F = {} THEN FirstFrame = 0 ELSE FirstFrame \in F
  <2> HIDE DEF F
  <2> QED
    BY <1>1, <1>2, FirstIs
<1>5. FirstLine \in 0..Len(queue) /\ (FirstLine # 0 => FirstLine \in L)
  BY <1>1, <1>3
<1>6. FirstFrame \in 0..Len(queue) /\ (FirstFrame # 0 => FirstFrame \in F)
  BY <1>1, <1>4
<1>7. \A i \in 1..Len(queue) : i < FirstLine \/ FirstLine = 0 => i \notin L
  BY <1>1, <1>3, <1>5
<1> QED
  BY <1>5, <1>6, <1>7

\* When nothing is written, the line to the toy is as before.
LEMMA GoesOnSilent ==
    ASSUME toToy \in Seq(Messages), NEW to, NEW rest, to.out = <<>>, GoesOn(to, rest)
    PROVE  host' = to.host /\ toToy' = toToy /\ queue' = IF to.host.pc \in Ended THEN <<>> ELSE rest
BY DEF GoesOn, Written

\* Otherwise the message is the last on it, if it got there.
LEMMA GoesOnSaying ==
    ASSUME toToy \in Seq(Messages), NEW to, NEW rest, NEW m \in Messages, to.out = <<m>>, GoesOn(to, rest)
    PROVE  /\ host' = to.host /\ queue' = IF to.host.pc \in Ended THEN <<>> ELSE rest
           /\ toToy' \in Seq(Messages) /\ On(toToy') \subseteq On(toToy) \cup {m}
           /\ \A first, second : Never(toToy, first, second) /\ (m.type \in second => ~Some(toToy, first))
                 => Never(toToy', first, second)
<1>1. toToy' = toToy \/ toToy' = Append(toToy, m)
  BY DEF GoesOn, Written
<1>2. Append(toToy, m) \in Seq(Messages) /\ On(Append(toToy, m)) = On(toToy) \cup {m}
  BY Added
<1>3. ASSUME NEW first, NEW second, Never(toToy, first, second), m.type \in second => ~Some(toToy, first)
      PROVE  Never(Append(toToy, m), first, second)
  BY <1>3, Added
<1> QED
  BY <1>1, <1>2, <1>3 DEF GoesOn

-----------------------------------------------------------------------------
(* The shape of the state                                                   *)

\* What a step of the dialogue may lead to, and write.
Saying(to) == to.out = <<>> \/ \E m \in Messages : to.out = <<m>> /\ Sendable(m)
Sane(to) == to.host \in Hosts /\ Placed(to.host) /\ to.host.pc \notin {"idle", "load"} /\ Saying(to)

\* The operation under way is one of those there are.
LEMMA OperationIs ==
    ASSUME Shape, runs # <<>>
    PROVE  Operation \in {"game", "music", "remove"} /\ Len(runs) \in Nat \ {0}
<1>1. runs \in Seq(Operations)
  BY DEF Shape, TypeOK
<1>2. Len(runs) \in Nat \ {0} /\ Len(runs) \in 1..Len(runs)
  BY <1>1
<1>3. Operation \in Operations
  BY <1>1, <1>2 DEF Operation
<1> QED
  BY <1>2, <1>3, InstallAssumption

\* Breaking off, asking and sending a record are sane.
LEMMA SaneOutcomes ==
    ASSUME Shape, runs # <<>>, NEW to
    PROVE  /\ Broken(to) => Sane(to)
           /\ Inquiring(to) => Sane(to)
           /\ \A i \in 0..RECORDS - 1 : Transmitting(to, i) => Sane(to)
<1> USE DEF Sane, Saying, Placed, Music, Remove, Helping
<1>1. Broken(to) => Sane(to)
  BY DEF Broken
<1>2. ASSUME Inquiring(to) PROVE Sane(to)
  <2> DEFINE m == Message("PKT", Len(runs), 0)
  <2>1. Len(runs) \in 1..Len(runs) /\ Len(runs) \in Int
    BY OperationIs
  <2>2. m \in Messages /\ m.type = "PKT" /\ m.n = Len(runs)
    <3>1. "PKT" \in Types
      BY TypesAre
    <3>2. 0 \in Int
      OBVIOUS
    <3> QED
      BY <2>1, <3>1, <3>2, MessageIs
  <2>3. Sendable(m)
    BY <2>1, <2>2 DEF Sendable
  <2> HIDE DEF m
  <2> QED
    BY <1>2, <2>2, <2>3 DEF Inquiring, m
<1>3. ASSUME NEW i \in 0..RECORDS - 1, Transmitting(to, i) PROVE Sane(to)
  <2> DEFINE m == Message("record", i, 0)
  <2>1. m \in Messages /\ m.type = "record" /\ m.n = i
    <3>1. "record" \in Types
      BY TypesAre
    <3>2. 0 \in Int /\ i \in Int
      OBVIOUS
    <3> QED
      BY <3>1, <3>2, MessageIs
  <2>2. Sendable(m)
    BY <2>1 DEF Sendable
  <2>3. i < RECORDS
    BY InstallAssumption
  <2> HIDE DEF m
  <2> QED
    BY <1>3, <2>1, <2>2, <2>3 DEF Transmitting, m
<1> QED
  BY <1>1, <1>2, <1>3

\* The answer to a line is sane.
LEMMA SaneOnLine ==
    ASSUME Shape, host.pc \in {"pkt", "record"}, NEW m \in Incoming, IsLine(m)
    PROVE  Sane(OnLine(host, m))
<1> DEFINE to == OnLine(host, m)
<1>1. /\ host \in Hosts /\ Placed(host) /\ runs # <<>> /\ RECORDS \in Nat \ {0} /\ host.index \in Nat
      /\ Readable(m) /\ (host.pc = "record" => host.index < RECORDS)
  BY InstallAssumption DEF Shape, TypeOK, HostPlaced, Placed, Sent, Hosts
<1>2. Operation \in {"game", "music", "remove"}
  BY <1>1, OperationIs
<1>3. \/ m.type = "ECHO REQ" /\ to.host = host /\ to.out = <<Line("ECHO REP")>>
      \/ Broken(to) \/ Inquiring(to)
      \/ \E i \in 0..RECORDS - 1 : Transmitting(to, i)
      \/ to.host \in Hosts /\ to.out = <<>> /\ to.host.pc = IF Operation = "game" THEN "done" ELSE "ready"
  <2>1. 0 \in 0..RECORDS - 1
    BY <1>1
  <2>2. host.pc = "record" => host.index \in 0..RECORDS - 1
    BY <1>1
  <2>3. host.index + 1 < RECORDS => host.index + 1 \in 0..RECORDS - 1
    BY <1>1
  <2>4. m.type = "ENQ" => m.n \in 0..RECORDS - 1
    BY <1>1 DEF Readable
  <2> HIDE DEF to
  <2> QED
    BY <2>1, <2>2, <2>3, <2>4, OnLineIs DEF to
<1> HIDE DEF to
<1>4. CASE to.host = host /\ to.out = <<Line("ECHO REP")>>
  <2>1. Line("ECHO REP") \in Messages /\ Line("ECHO REP").type = "ECHO REP"
    BY LineIs, TypesAre
  <2>2. Sendable(Line("ECHO REP"))
    BY <2>1 DEF Sendable
  <2> QED
    BY <1>1, <1>4, <2>1, <2>2 DEF Sane, Saying, to
<1>5. CASE to.host \in Hosts /\ to.out = <<>> /\ to.host.pc = IF Operation = "game" THEN "done" ELSE "ready"
  BY <1>2, <1>5 DEF Sane, Saying, Placed, Helping, Music, Remove, to
<1> QED
  BY <1>1, <1>3, <1>4, <1>5, SaneOutcomes DEF to

\* The answer to a frame is sane.
LEMMA SaneOnFrame ==
    ASSUME Shape, host.pc \in Helping, NEW m \in Incoming, ~IsLine(m)
    PROVE  Sane(OnFrame(host, m))
<1> DEFINE to == OnFrame(host, m)
<1>1. /\ host \in Hosts /\ Placed(host) /\ runs # <<>> /\ SECTORS \in Nat \ {0} /\ host.sequence \in Nat
      /\ host.pc \in {"sector", "verify", "erase"} => host.sequence < SECTORS
  BY InstallAssumption DEF Shape, TypeOK, HostPlaced, Placed, Hosts, Helping, Music, Remove
<1>2. Operation # "game"
  BY <1>1 DEF Placed
<1>3. 0 \in Int /\ host.sequence \in Int /\ host.sequence + 1 \in Int
  BY <1>1
<1>4. \A n \in 0..SECTORS - 1 : /\ Message("sector", n, 0) \in Messages /\ Sendable(Message("sector", n, 0))
                                /\ Message("data", n, 0) \in Messages /\ Sendable(Message("data", n, 0))
  <2> TAKE n \in 0..SECTORS - 1
  <2>1. "sector" \in Types /\ "data" \in Types
    BY TypesAre
  <2>2. n \in Int /\ 0 \in Int
    BY <1>1
  <2>3. /\ Message("sector", n, 0) \in Messages /\ Message("sector", n, 0).type = "sector" /\ Message("sector", n, 0).n = n
        /\ Message("data", n, 0) \in Messages /\ Message("data", n, 0).type = "data" /\ Message("data", n, 0).n = n
    BY <2>1, <2>2, MessageIs
  <2> QED
    BY <2>3 DEF Sendable
<1>5. \A type \in {"header", "clear"} : Line(type) \in Messages /\ Sendable(Line(type))
  <2> TAKE type \in {"header", "clear"}
  <2>1. type \in Types
    BY TypesAre
  <2>2. Line(type) \in Messages /\ Line(type).type = type
    BY <2>1, LineIs
  <2> QED
    BY <2>2 DEF Sendable
<1>6. 0 \in 0..SECTORS - 1 /\ (host.sequence < SECTORS => host.sequence \in 0..SECTORS - 1)
  BY <1>1
<1>7. host.sequence < SECTORS /\ host.sequence + 1 # SECTORS => host.sequence + 1 \in 0..SECTORS - 1
  BY <1>1
<1>8. \A n \in 0..SECTORS - 1 : n < SECTORS
  BY <1>1
<1> HIDE DEF to
<1>9. \/ Broken(to)
      \/ Operation = "music" /\ Reaching(to, "header", <<Line("header")>>)
      \/ Operation = "remove" /\ Reaching(to, "confirm", <<Line("clear")>>)
      \/ \E n \in 0..SECTORS - 1 : /\ Operation = "music" /\ to.host.sequence = n
                                   /\ Reaching(to, "sector", <<Message("sector", n, 0)>>)
      \/ \E n \in 0..SECTORS - 1 : /\ Operation = "music" /\ to.host.sequence = n
                                   /\ Reaching(to, "verify", <<Message("data", n, 0)>>)
      \/ Reaching(to, "final", <<>>)
      \/ \E n \in 0..SECTORS - 1 : /\ Operation = "remove" /\ to.host.sequence = n
                                   /\ Reaching(to, "erase", <<>>)
      \/ Reaching(to, "done", <<>>)
  <2>1. /\ host.pc \in {"header", "sector", "verify"} => Operation = "music"
        /\ host.pc \in {"confirm", "erase"} => Operation = "remove"
    BY <1>1 DEF Placed, Music, Remove
  <2> QED
    BY <1>1, <1>6, <1>7, <2>1, OnFrameIs DEF to
<1>10. CASE Broken(to)
  BY <1>1, <1>10, SaneOutcomes DEF to
<1>11. CASE \/ Operation = "music" /\ Reaching(to, "header", <<Line("header")>>)
            \/ Operation = "remove" /\ Reaching(to, "confirm", <<Line("clear")>>)
  BY <1>2, <1>5, <1>11 DEF Sane, Saying, Reaching, Placed, Helping, Music, Remove, to
<1>12. CASE \E n \in 0..SECTORS - 1 : /\ Operation = "music" /\ to.host.sequence = n
                                      /\ \/ Reaching(to, "sector", <<Message("sector", n, 0)>>)
                                         \/ Reaching(to, "verify", <<Message("data", n, 0)>>)
  BY <1>4, <1>8, <1>12 DEF Sane, Saying, Reaching, Placed, Helping, Music, Remove, to
<1>13. CASE \E n \in 0..SECTORS - 1 : /\ Operation = "remove" /\ to.host.sequence = n
                                      /\ Reaching(to, "erase", <<>>)
  BY <1>8, <1>13 DEF Sane, Saying, Reaching, Placed, Helping, Music, Remove, to
<1>14. CASE Reaching(to, "final", <<>>) \/ Reaching(to, "done", <<>>)
  BY <1>2, <1>14 DEF Sane, Saying, Reaching, Placed, Helping, Music, Remove, to
<1> QED
  BY <1>9, <1>10, <1>11, <1>12, <1>13, <1>14 DEF to

\* So is what follows a deadline: another attempt, or the end.
LEMMA TimedOutIs ==
    ASSUME Shape, Owned, NEW to, to = TimedOut(host)
    PROVE  /\ Sane(to)
           /\ \/ Broken(to)
              \/ host.pc = "pkt" /\ Inquiring(to)
              \/ host.pc = "record" /\ Transmitting(to, host.index)
<1>1. /\ host \in Hosts /\ Placed(host) /\ host.index \in Nat /\ host.attempts \in Nat /\ runs # <<>>
      /\ RECORDS \in Nat \ {0} /\ (host.pc = "record" => host.index < RECORDS)
  BY InstallAssumption DEF Shape, TypeOK, HostPlaced, Placed, Hosts, Owned, Ended
<1>2. CASE host.pc = "pkt"
  <2>1. to = Ask(host)
    BY <1>2 DEF TimedOut
  <2> QED
    BY <1>1, <1>2, <2>1, AskIs, SaneOutcomes
<1>3. CASE host.pc = "record"
  <2>1. to = Transmit(host, host.index, host.attempts)
    BY <1>3 DEF TimedOut
  <2>2. host.index \in 0..RECORDS - 1
    BY <1>1, <1>3
  <2> QED
    BY <1>1, <1>3, <2>1, <2>2, TransmitIs, SaneOutcomes
<1>4. CASE host.pc \notin {"pkt", "record"}
  <2>1. to = Fails
    BY <1>4 DEF TimedOut
  <2> QED
    BY <1>1, <2>1, FailsIs, SaneOutcomes
<1> QED
  BY <1>2, <1>3, <1>4

\* A sane step that reads from the buffer keeps the shape of the state.
LEMMA SaneStep ==
    ASSUME Shape, runs # <<>>, NEW to, Sane(to), NEW rest, rest \in Seq(Messages), On(rest) \subseteq On(queue),
           GoesOn(to, rest), UNCHANGED <<runs, toHost, toy>>, reading' \in BOOLEAN, late' \in BOOLEAN
    PROVE  Shape' /\ Incoming' \subseteq Incoming
<1>1. toToy \in Seq(Messages) /\ toHost \in Seq(Messages) /\ queue \in Seq(Messages)
  BY DEF Shape, TypeOK
<1>2. /\ host' = to.host /\ queue' = IF to.host.pc \in Ended THEN <<>> ELSE rest
      /\ toToy' \in Seq(Messages) /\ \A m \in On(toToy') : Sendable(m)
  <2>1. CASE to.out = <<>>
    BY <1>1, <2>1, GoesOnSilent DEF Shape, Sent
  <2>2. CASE to.out # <<>>
    <3>1. PICK m \in Messages : to.out = <<m>> /\ Sendable(m)
      BY <2>2 DEF Sane, Saying
    <3>2. /\ host' = to.host /\ queue' = IF to.host.pc \in Ended THEN <<>> ELSE rest
          /\ toToy' \in Seq(Messages) /\ On(toToy') \subseteq On(toToy) \cup {m}
      BY <1>1, <3>1, GoesOnSaying
    <3> QED
      BY <3>1, <3>2 DEF Shape, Sent
  <2> QED
    BY <2>1, <2>2
<1>3. queue' \in Seq(Messages) /\ On(queue') \subseteq On(queue) /\ (to.host.pc \in Ended => queue' = <<>>)
  BY <1>2, Nothing
<1>4. Incoming' \subseteq Incoming
  BY <1>3 DEF Incoming, On
<1>5. TypeOK'
  BY <1>1, <1>2, <1>3 DEF Shape, TypeOK, Sane
<1>6. Operation' = Operation /\ Kind' = Kind
  BY DEF Operation, Kind
<1>7. HostPlaced'
  BY <1>2, <1>3, <1>6 DEF Sane, HostPlaced, Placed
<1>8. ToyPlaced'
  BY <1>6 DEF Shape, ToyPlaced
<1>9. Sent'
  BY <1>2, <1>4 DEF Shape, Sent, Sendable, Readable
<1> QED
  BY <1>4, <1>5, <1>7, <1>8, <1>9 DEF Shape

\* Staying where one is, is sane.
LEMMA SaneStay ==
    ASSUME Shape, Owned
    PROVE  Sane(Goes(host, <<>>)) /\ Goes(host, <<>>).host = host /\ Goes(host, <<>>).out = <<>>
BY DEF Shape, TypeOK, HostPlaced, Sane, Saying, Goes, Owned, Ended

\* A line is answered, or the buffer gets shorter, or that was it.
LEMMA TakeLineIs ==
    ASSUME Shape, TakeLine
    PROVE  \E to, rest :
              /\ GoesOn(to, rest) /\ Sane(to) /\ runs # <<>>
              /\ \E k \in 1..Len(queue) : rest = SubSeq(queue, k + 1, Len(queue))
              /\ \/ /\ IsLine(Head(queue)) /\ Head(queue) \in Incoming
                    /\ to = OnLine(host, Head(queue)) /\ rest = Tail(queue)
                 \/ to.host = host /\ to.out = <<>>
                 \/ Broken(to)
              /\ Broken(to) => late'
<1> DEFINE k == FirstLine
           rest == SubSeq(queue, k + 1, Len(queue))
<1>1. /\ queue \in Seq(Messages) /\ Len(queue) \in Nat /\ queue # <<>> /\ host.pc \in {"pkt", "record"}
      /\ k \in 0..Len(queue) /\ (k # 0 => IsLine(queue[k])) /\ Head(queue) = queue[1]
      /\ Len(queue) # 0 /\ Tail(queue) = SubSeq(queue, 1 + 1, Len(queue))
  BY FirstsAre DEF TakeLine, Shape, TypeOK
<1>2. runs # <<>> /\ Owned
  BY <1>1 DEF Shape, HostPlaced, Owned, Ended
<1>3. 1 \in 1..Len(queue) /\ Head(queue) \in Incoming
  BY <1>1 DEF Incoming, On
<1>4. ASSUME NEW to, host' = to.host, Broken(to)
      PROVE  late'
  BY <1>4 DEF TakeLine, Broken, Unanswered
<1>5. CASE k = 1 /\ GoesOn(OnLine(host, queue[1]), rest)
  <2>1. rest = Tail(queue) /\ IsLine(Head(queue))
    BY <1>1, <1>5
  <2>2. Sane(OnLine(host, Head(queue))) /\ GoesOn(OnLine(host, Head(queue)), Tail(queue))
    BY <1>1, <1>3, <1>5, <2>1, SaneOnLine
  <2>3. host' = OnLine(host, Head(queue)).host
    BY <2>2 DEF GoesOn
  <2> HIDE DEF rest, k
  <2> QED
    BY <1>1, <1>2, <1>3, <1>4, <2>1, <2>2, <2>3
<1>6. CASE GoesOn(Goes(host, <<>>), Tail(queue))
  <2>1. host' = Goes(host, <<>>).host
    BY <1>6 DEF GoesOn
  <2> HIDE DEF rest, k
  <2> QED
    BY <1>1, <1>2, <1>3, <1>4, <1>6, <2>1, SaneStay
<1>7. CASE k > 1 /\ GoesOn(Goes(host, <<>>), rest)
  <2>1. host' = Goes(host, <<>>).host
    BY <1>7 DEF GoesOn
  <2>2. k \in 1..Len(queue)
    BY <1>1, <1>7
  <2> HIDE DEF k
  <2> QED
    BY <1>2, <1>4, <1>7, <2>1, <2>2, SaneStay
<1>8. CASE k # 1 /\ GoesOn(Fails, rest)
  <2>1. host' = Fails.host /\ Broken(Fails) /\ Sane(Fails)
    BY <1>2, <1>8, FailsIs, SaneOutcomes DEF GoesOn
  <2>2. queue' = <<>> /\ toToy' = Written(Fails.out)
    BY <1>8, <2>1 DEF GoesOn, Broken, Ended
  <2>3. GoesOn(Fails, Tail(queue))
    BY <2>1, <2>2 DEF GoesOn, Broken, Ended
  <2> HIDE DEF rest, k
  <2> QED
    BY <1>1, <1>2, <1>3, <1>4, <2>1, <2>3
<1> QED
  BY <1>5, <1>6, <1>7, <1>8 DEF TakeLine

\* A frame is answered, or what cannot be recognised as one is passed over.
LEMMA TakeFrameIs ==
    ASSUME Shape, TakeFrame
    PROVE  \E to, rest :
              /\ GoesOn(to, rest) /\ Sane(to) /\ runs # <<>> /\ host.pc \in Helping
              /\ \E k \in 1..Len(queue) : rest = SubSeq(queue, k + 1, Len(queue))
              /\ \/ \E m \in Incoming : ~IsLine(m) /\ to = OnFrame(host, m)
                 \/ to.host = host /\ to.out = <<>>
<1> DEFINE k == FirstFrame
           rest == SubSeq(queue, k + 1, Len(queue))
<1>1. queue \in Seq(Messages) /\ k \in 0..Len(queue) /\ (k # 0 => ~IsLine(queue[k]))
  BY FirstsAre DEF Shape, TypeOK
<1>2. Owned /\ host.pc \notin {"pkt", "record"} /\ k # 0
  BY DEF TakeFrame
<1>3. runs # <<>> /\ host.pc \in Helping
  BY <1>2 DEF Shape, TypeOK, Hosts, Places, HostPlaced, Owned, Ended
<1>4. k \in 1..Len(queue)
  BY <1>1, <1>2
<1>5. queue[k] \in Incoming
  BY <1>4 DEF Incoming, On
<1>6. CASE GoesOn(OnFrame(host, queue[k]), rest)
  <2>1. Sane(OnFrame(host, queue[k])) /\ ~IsLine(queue[k])
    BY <1>1, <1>2, <1>3, <1>5, SaneOnFrame
  <2> HIDE DEF k
  <2> QED
    BY <1>3, <1>4, <1>5, <1>6, <2>1
<1>7. CASE GoesOn(Goes(host, <<>>), rest)
  <2> HIDE DEF k
  <2> QED
    BY <1>2, <1>3, <1>4, <1>7, SaneStay
<1> QED
  BY <1>6, <1>7 DEF TakeFrame

\* The steps of the dialogue keep the shape of the state.
LEMMA DialogueShape ==
    ASSUME Shape, TakeLine \/ TakeFrame \/ Timeout
    PROVE  Shape' /\ Incoming' \subseteq Incoming
<1>1. queue \in Seq(Messages) /\ Len(queue) \in Nat /\ late \in BOOLEAN /\ reading \in BOOLEAN
  BY DEF Shape, TypeOK
<1>2. \A k \in 1..Len(queue) : /\ SubSeq(queue, k + 1, Len(queue)) \in Seq(Messages)
                               /\ On(SubSeq(queue, k + 1, Len(queue))) \subseteq On(queue)
  <2> TAKE k \in 1..Len(queue)
  <2>1. k \in 0..Len(queue)
    BY <1>1
  <2> QED
    BY <1>1, <2>1, Parted, PartsInOrder
<1>3. CASE TakeLine \/ TakeFrame
  <2>1. UNCHANGED <<runs, toHost, toy>> /\ reading' \in BOOLEAN /\ late' \in BOOLEAN
    BY <1>1, <1>3 DEF TakeLine, TakeFrame, Unanswered
  <2>2. PICK to, rest : /\ GoesOn(to, rest) /\ Sane(to) /\ runs # <<>>
                        /\ \E k \in 1..Len(queue) : rest = SubSeq(queue, k + 1, Len(queue))
    BY <1>3, TakeLineIs, TakeFrameIs
  <2>3. rest \in Seq(Messages) /\ On(rest) \subseteq On(queue)
    BY <1>2, <2>2
  <2> QED
    BY <2>1, <2>2, <2>3, SaneStep
<1>4. CASE Timeout
  <2>1. /\ Owned /\ GoesOn(TimedOut(host), queue) /\ Sane(TimedOut(host)) /\ runs # <<>>
        /\ UNCHANGED <<runs, toHost, toy>> /\ reading' \in BOOLEAN /\ late' \in BOOLEAN
    BY <1>1, <1>4, TimedOutIs DEF Timeout, Unanswered, Shape, HostPlaced, Owned, Ended
  <2> QED
    BY <1>1, <2>1, SaneStep
<1> QED
  BY <1>3, <1>4

\* The next installation: the one before it is history.
LEMMA StartIs ==
    ASSUME Shape, NEW operation \in Operations, Start(operation)
    PROVE  /\ runs' \in Seq(Operations) /\ Len(runs') = Len(runs) + 1 /\ Len(runs) \in Nat /\ runs' # <<>>
           /\ \A i \in 1..Len(runs) : runs'[i] = runs[i]
           /\ (toy.download # 0 => Kind' = Kind) /\ (Removing => Removing')
           /\ host' \in Hosts /\ host'.pc = "load"
<1>1. /\ runs \in Seq(Operations) /\ Len(runs) \in Nat /\ runs' = Append(runs, operation) /\ toy' = toy
      /\ toy.download \in Nat /\ toy.download <= Len(runs)
  BY DEF Start, Shape, TypeOK, Toys, ToyPlaced
<1>2. /\ runs' \in Seq(Operations) /\ Len(runs') = Len(runs) + 1
      /\ \A i \in 1..Len(runs) : runs'[i] = runs[i]
  BY <1>1
<1>3. toy.download # 0 => Kind' = Kind
  BY <1>1, <1>2 DEF Kind
<1>4. Removing => Removing'
  <2>1. \A i \in 1..Len(runs) : i \in 1..Len(runs')
    BY <1>1, <1>2
  <2> QED
    BY <1>2, <2>1 DEF Removing
<1>5. host' \in Hosts /\ host'.pc = "load"
  BY DEF Start, Idle, Hosts, Places
<1>6. runs' # <<>>
  BY <1>1, <1>2
<1> QED
  BY <1>1, <1>2, <1>3, <1>4, <1>5, <1>6

\* Starting keeps the shape.
LEMMA StartShape ==
    ASSUME Shape, NEW operation \in Operations, Start(operation)
    PROVE  Shape'
<1>1. UNCHANGED <<queue, reading, toToy, toHost, toy, late>> /\ host.pc \in Ended
  BY DEF Start
<1>2. TypeOK'
  BY <1>1, StartIs DEF Shape, TypeOK
<1>3. HostPlaced'
  BY <1>1, StartIs DEF Shape, HostPlaced, Placed, Ended, Music, Remove, Helping
<1>4. ToyPlaced'
  <2>1. /\ toy.download \in Nat /\ Len(runs') = Len(runs) + 1 /\ Len(runs) \in Nat
        /\ (toy.download # 0 => Kind' = Kind) /\ ToyPlaced /\ Operations \subseteq {"game", "music", "remove"}
    BY StartIs, InstallAssumption DEF Shape, TypeOK, Toys
  <2>2. toy.download <= Len(runs')
    BY <2>1 DEF ToyPlaced
  <2> QED
    BY <1>1, <2>1, <2>2 DEF ToyPlaced
<1>5. Sent'
  <2>1. Len(runs') = Len(runs) + 1 /\ Len(runs) \in Nat /\ Sent
    BY StartIs DEF Shape
  <2>2. 1..Len(runs) \subseteq 1..Len(runs')
    BY <2>1
  <2> QED
    BY <1>1, <2>1, <2>2 DEF Sent, Sendable, Readable, Incoming, On
<1> QED
  BY <1>2, <1>3, <1>4, <1>5 DEF Shape

\* So do loading, opening, and losing the adapter.
LEMMA OpenShape ==
    ASSUME Shape, LoadFails \/ Open \/ Unplug
    PROVE  Shape' /\ Incoming' \subseteq Incoming
<1>1. CASE LoadFails
  <2>1. Broken(Fails) /\ host' = Fails.host /\ host.pc = "load" /\ UNCHANGED <<runs, queue, reading, toToy, toHost, toy, late>>
    BY <1>1, FailsIs DEF LoadFails
  <2>2. Operation' = Operation /\ Kind' = Kind /\ Incoming' = Incoming /\ On(toToy)' = On(toToy)
    BY <2>1 DEF Operation, Kind, Incoming, On
  <2>3. TypeOK'
    BY <2>1 DEF Broken, Shape, TypeOK
  <2>4. HostPlaced'
    BY <2>1, <2>2 DEF Broken, Shape, HostPlaced, Placed, Ended, Music, Remove, Helping
  <2>5. ToyPlaced' /\ Sent'
    BY <2>1, <2>2 DEF Shape, ToyPlaced, Sent, Sendable, Readable
  <2> QED
    BY <2>2, <2>3, <2>4, <2>5 DEF Shape
<1>2. CASE Open
  <2>1. host \in Hosts /\ host.pc = "load" /\ GoesOn(Ask(host), <<>>) /\ UNCHANGED <<runs, toHost, toy, late>> /\ reading' = TRUE
    BY <1>2 DEF Open, Shape, TypeOK
  <2>2. Broken(Ask(host)) \/ Inquiring(Ask(host))
    BY <2>1, AskIs
  <2>3. runs # <<>> /\ late' \in BOOLEAN /\ reading' \in BOOLEAN
    BY <2>1 DEF Shape, HostPlaced, TypeOK
  <2>4. <<>> \in Seq(Messages) /\ On(<<>>) \subseteq On(queue)
    BY Nothing
  <2> QED
    BY <2>1, <2>2, <2>3, <2>4, SaneStep, SaneOutcomes
<1>3. CASE Unplug
  <2>1. /\ Broken(Fails) /\ host' = Fails.host /\ Owned /\ UNCHANGED <<runs, toy>>
        /\ queue' = <<>> /\ toToy' = <<>> /\ toHost' = <<>> /\ reading' = FALSE /\ late' = FALSE
    BY <1>3, FailsIs DEF Unplug
  <2>2. Operation' = Operation /\ Kind' = Kind /\ Incoming' = {} /\ On(toToy)' = {}
    BY <2>1 DEF Operation, Kind, Incoming, On
  <2>3. TypeOK'
    BY <2>1, Nothing DEF Broken, Shape, TypeOK
  <2>4. HostPlaced'
    BY <2>1, <2>2 DEF Broken, Shape, HostPlaced, Placed, Ended, Music, Remove, Helping, Owned
  <2>5. ToyPlaced' /\ Sent'
    BY <2>1, <2>2 DEF Shape, ToyPlaced, Sent
  <2> QED
    BY <2>2, <2>3, <2>4, <2>5 DEF Shape
<1> QED
  BY <1>1, <1>2, <1>3

\* What a read brings is the channel's, in its order; without one it is dropped.
LEMMA ReadIs ==
    ASSUME Shape, Read
    PROVE  /\ queue' \in Seq(Messages) /\ toHost' \in Seq(Messages) /\ Incoming' \subseteq Incoming
           /\ \A first, second : NeverIn(first, second) => NeverIn(first, second)'
           /\ host' \in Hosts /\ reading' \in BOOLEAN /\ late' \in BOOLEAN /\ UNCHANGED <<runs, toy>>
           /\ \/ host' = host /\ late' = late /\ toToy' = toToy
                 /\ (host.pc \in Ended \cup {"load"} => queue' = <<>>)
              \/ Owned /\ host'.pc = "failed" /\ late' /\ toToy' = toToy /\ queue' = <<>>
<1>1. /\ queue \in Seq(Messages) /\ toHost \in Seq(Messages) /\ toToy \in Seq(Messages) /\ host \in Hosts
      /\ late \in BOOLEAN /\ reading \in BOOLEAN /\ Len(toHost) \in Nat
      /\ (host.pc \in Ended \cup {"load"} => queue = <<>>)
  BY DEF Shape, TypeOK, HostPlaced
<1>2. PICK k \in 1..Len(toHost) :
          /\ toHost' = SubSeq(toHost, k + 1, Len(toHost))
          /\ IF ~Owned THEN reading' = FALSE /\ UNCHANGED <<host, queue, toToy, late>>
             ELSE IF Len(queue) + k > QUEUE_LIMIT
             THEN GoesOn(Fails, <<>>) /\ Unanswered /\ UNCHANGED reading
             ELSE queue' = queue \o SubSeq(toHost, 1, k) /\ UNCHANGED <<host, reading, toToy, late>>
  BY DEF Read
<1> DEFINE start == SubSeq(toHost, 1, k)
           rest == SubSeq(toHost, k + 1, Len(toHost))
<1>3. k \in 0..Len(toHost)
  BY <1>1
<1>4. start \in Seq(Messages) /\ rest \in Seq(Messages)
  BY <1>1, <1>3, Parted
<1>5. On(rest) \subseteq On(toHost) /\ On(start) \subseteq On(toHost)
  BY <1>1, <1>3, PartsInOrder
<1>6. \A first, second : Never(toHost, first, second) =>
          Never(rest, first, second) /\ Never(start, first, second) /\ (Some(start, first) => ~Some(rest, second))
  BY <1>1, <1>3, PartsInOrder
<1>7. UNCHANGED <<runs, toy>> /\ toHost' = rest
  BY <1>2 DEF Read
<1> HIDE DEF start, rest
<1>8. CASE ~Owned \/ (Owned /\ Len(queue) + k > QUEUE_LIMIT)
  <2>1. /\ queue' = IF Owned THEN <<>> ELSE queue
        /\ queue' \in Seq(Messages) /\ On(queue') \subseteq On(queue)
        /\ host' \in Hosts /\ reading' \in BOOLEAN /\ late' \in BOOLEAN
        /\ \/ host' = host /\ late' = late /\ toToy' = toToy /\ queue' = queue
           \/ Owned /\ host'.pc = "failed" /\ late' /\ toToy' = toToy /\ queue' = <<>>
    <3>1. CASE ~Owned
      BY <1>1, <1>2, <3>1
    <3>2. CASE Owned /\ Len(queue) + k > QUEUE_LIMIT
      <4>1. GoesOn(Fails, <<>>) /\ Unanswered /\ UNCHANGED reading
        BY <1>2, <3>2
      <4>2. host' = Fails.host /\ toToy' = toToy /\ queue' = <<>> /\ Broken(Fails)
        BY <1>1, <4>1, FailsIs, GoesOnSilent, Nothing DEF Broken, Ended
      <4> QED
        BY <1>1, <3>2, <4>1, <4>2, Nothing DEF Broken, Unanswered
    <3> QED
      BY <1>8, <3>1, <3>2
  <2>2. Incoming' \subseteq Incoming
    BY <1>5, <1>7, <2>1 DEF Incoming, On
  <2>3. ASSUME NEW first, NEW second, NeverIn(first, second)
        PROVE  NeverIn(first, second)'
    <3>1. Never(queue', first, second)
      BY <2>1, <2>3, Nothing DEF NeverIn
    <3>2. Never(rest, first, second) /\ (Some(rest, second) => Some(toHost, second))
      BY <1>5, <1>6, <2>3 DEF NeverIn, Some
    <3>3. Some(queue', first) => Some(queue, first)
      BY <2>1 DEF Some
    <3> QED
      BY <1>7, <2>3, <3>1, <3>2, <3>3 DEF NeverIn, Some, Never, On
  <2> QED
    BY <1>1, <1>4, <1>7, <2>1, <2>2, <2>3
<1>9. CASE Owned /\ ~(Len(queue) + k > QUEUE_LIMIT)
  <2>1. queue' = queue \o start /\ UNCHANGED <<host, reading, toToy, late>>
    BY <1>2, <1>9 DEF start
  <2>2. queue' \in Seq(Messages) /\ On(queue') = On(queue) \cup On(start)
    BY <1>1, <1>4, <2>1, Joined
  <2>3. Incoming' \subseteq Incoming
    BY <1>5, <1>7, <2>2 DEF Incoming, On
  <2>4. ASSUME NEW first, NEW second, NeverIn(first, second)
        PROVE  NeverIn(first, second)'
    <3>1. /\ Never(queue, first, second) /\ Never(start, first, second) /\ Never(rest, first, second)
          /\ (Some(queue, first) => ~Some(toHost, second)) /\ (Some(start, first) => ~Some(rest, second))
      BY <1>6, <2>4 DEF NeverIn
    <3>2. (Some(start, second) => Some(toHost, second)) /\ (Some(rest, second) => Some(toHost, second))
      BY <1>5 DEF Some
    <3>3. Never(queue \o start, first, second)
      BY <1>1, <1>4, <3>1, <3>2, Joined
    <3>4. Some(queue \o start, first) => Some(queue, first) \/ Some(start, first)
      BY <2>1, <2>2 DEF Some, On
    <3> QED
      BY <1>7, <2>1, <3>1, <3>2, <3>3, <3>4 DEF NeverIn, Some, Never, On
  <2>5. ~(host.pc \in Ended \cup {"load"})
    BY <1>9 DEF Owned
  <2> QED
    BY <1>1, <1>4, <1>7, <2>1, <2>2, <2>3, <2>4, <2>5
<1> QED
  BY <1>8, <1>9

\* Reading keeps the shape of the state.
LEMMA ReadShape ==
    ASSUME Shape, Read
    PROVE  Shape'
<1>1. UNCHANGED <<runs, toy>> /\ toToy' = toToy /\ Incoming' \subseteq Incoming
  BY ReadIs
<1>2. Operation' = Operation /\ Kind' = Kind /\ On(toToy)' = On(toToy)
  BY <1>1 DEF Operation, Kind, On
<1>3. TypeOK'
  BY <1>1, ReadIs DEF Shape, TypeOK
<1>4. HostPlaced'
  BY <1>1, <1>2, ReadIs DEF Shape, HostPlaced, Placed, Ended, Music, Remove, Helping, Owned
<1>5. ToyPlaced' /\ Sent'
  BY <1>1, <1>2 DEF Shape, ToyPlaced, Sent, Sendable, Readable
<1> QED
  BY <1>3, <1>4, <1>5 DEF Shape

-----------------------------------------------------------------------------
(* What the line and the toy do                                             *)

\* What is lost may come as noise.
LEMMA LoseToHostIs ==
    ASSUME Shape, LoseToHost
    PROVE  /\ toHost' \in Seq(Messages) /\ Incoming' \subseteq Incoming \cup {Noise} /\ Noise.type = "noise"
           /\ \A first, second : NeverIn(first, second) /\ "noise" \notin first \cup second => NeverIn(first, second)'
<1>1. /\ toHost \in Seq(Messages) /\ toHost # <<>> /\ queue' = queue
      /\ toHost' = Tail(toHost) \/ toHost' = <<Noise>> \o Tail(toHost)
  BY DEF LoseToHost, Shape, TypeOK
<1>2. Noise \in Messages /\ Noise.type = "noise"
  BY LineIs, TypesAre DEF Noise
<1>3. Tail(toHost) \in Seq(Messages) /\ On(Tail(toHost)) \subseteq On(toHost)
  BY <1>1, Taken
<1>4. <<Noise>> \in Seq(Messages) /\ On(<<Noise>>) = {Noise}
  BY <1>2, Alone
<1>5. <<Noise>> \o Tail(toHost) \in Seq(Messages) /\ On(<<Noise>> \o Tail(toHost)) = {Noise} \cup On(Tail(toHost))
  <2> DEFINE n == <<Noise>>
  <2> HIDE DEF n
  <2>1. n \in Seq(Messages) /\ On(n) = {Noise}
    BY <1>4 DEF n
  <2>2. n \o Tail(toHost) \in Seq(Messages) /\ On(n \o Tail(toHost)) = {Noise} \cup On(Tail(toHost))
    BY <1>3, <2>1, Joined
  <2> QED
    BY <2>2 DEF n
<1>6. toHost' \in Seq(Messages) /\ On(toHost') \subseteq On(toHost) \cup {Noise}
  BY <1>1, <1>3, <1>5
<1>7. Incoming' \subseteq Incoming \cup {Noise}
  BY <1>1, <1>6 DEF Incoming, On
<1>8. ASSUME NEW first, NEW second, NeverIn(first, second), "noise" \notin first \cup second
      PROVE  NeverIn(first, second)'
  <2>1. Never(Tail(toHost), first, second)
    BY <1>1, <1>8, Taken DEF NeverIn
  <2>2. Never(<<Noise>>, first, second) /\ ~Some(<<Noise>>, first)
    BY <1>2, <1>8, Alone
  <2>3. Never(<<Noise>> \o Tail(toHost), first, second)
    <3> DEFINE n == <<Noise>>
    <3> HIDE DEF n
    <3>1. n \in Seq(Messages) /\ Never(n, first, second) /\ ~Some(n, first)
      BY <1>4, <2>2 DEF n
    <3>2. Never(n \o Tail(toHost), first, second)
      BY <1>3, <2>1, <3>1, Joined
    <3> QED
      BY <3>2 DEF n
  <2>4. Never(toHost', first, second)
    BY <1>1, <2>1, <2>3
  <2>5. Some(toHost', second) => Some(toHost, second)
    BY <1>2, <1>6, <1>8 DEF Some
  <2> QED
    BY <1>1, <1>8, <2>4, <2>5 DEF NeverIn, Never, Some, On
<1> QED
  BY <1>2, <1>6, <1>7, <1>8

\* Losing keeps the shape.
LEMMA LoseShape ==
    ASSUME Shape, LoseToToy \/ LoseToHost
    PROVE  Shape'
<1>1. CASE LoseToToy
  <2>1. /\ toToy \in Seq(Messages) /\ toToy # <<>> /\ toToy' = Tail(toToy)
        /\ UNCHANGED <<runs, host, queue, reading, toHost, toy, late>>
    BY <1>1 DEF LoseToToy, Shape, TypeOK
  <2>2. toToy' \in Seq(Messages) /\ On(toToy') \subseteq On(toToy)
    BY <2>1, Taken
  <2>3. Operation' = Operation /\ Kind' = Kind /\ Incoming' = Incoming
    BY <2>1 DEF Operation, Kind, Incoming, On
  <2>4. TypeOK'
    BY <2>1, <2>2 DEF Shape, TypeOK
  <2>5. HostPlaced' /\ ToyPlaced'
    BY <2>1, <2>3 DEF Shape, HostPlaced, Placed, ToyPlaced
  <2>6. Sent'
    BY <2>1, <2>2, <2>3 DEF Shape, Sent, Sendable, Readable
  <2> QED
    BY <2>4, <2>5, <2>6 DEF Shape
<1>2. CASE LoseToHost
  <2>1. UNCHANGED <<runs, host, queue, reading, toToy, toy, late>>
    BY <1>2 DEF LoseToHost
  <2>2. Operation' = Operation /\ Kind' = Kind /\ On(toToy)' = On(toToy)
    BY <2>1 DEF Operation, Kind, On
  <2>3. toHost' \in Seq(Messages) /\ Incoming' \subseteq Incoming \cup {Noise} /\ Noise.type = "noise"
    BY <1>2, LoseToHostIs
  <2>4. Readable(Noise)
    BY <2>3 DEF Readable
  <2>5. Sent'
    BY <2>1, <2>2, <2>3, <2>4 DEF Shape, Sent, Sendable, Readable
  <2> QED
    BY <2>1, <2>2, <2>3, <2>5 DEF Shape, TypeOK, HostPlaced, Placed, ToyPlaced
<1> QED
  BY <1>1, <1>2

\* The toy says one thing more.
LEMMA ToldIs ==
    ASSUME Shape, NEW a \in Messages, toHost' = Append(toHost, a), queue' = queue
    PROVE  /\ toHost' \in Seq(Messages) /\ Incoming' = Incoming \cup {a}
           /\ \A first, second :
                 NeverIn(first, second) /\ (a.type \in second => ~Some(queue, first) /\ ~Some(toHost, first))
                    => NeverIn(first, second)'
<1>1. toHost \in Seq(Messages)
  BY DEF Shape, TypeOK
<1>2. toHost' \in Seq(Messages) /\ On(toHost') = On(toHost) \cup {a}
  BY <1>1, Added
<1>3. ASSUME NEW first, NEW second, NeverIn(first, second),
             a.type \in second => ~Some(queue, first) /\ ~Some(toHost, first)
      PROVE  NeverIn(first, second)'
  <2>1. Never(toHost', first, second)
    BY <1>1, <1>3, Added DEF NeverIn
  <2>2. Some(toHost', second) => Some(toHost, second) \/ a.type \in second
    BY <1>2 DEF Some
  <2> QED
    BY <1>3, <2>1, <2>2 DEF NeverIn, Never, Some, On
<1> QED
  BY <1>2, <1>3 DEF Incoming, On

\* The sectors of the bank, in the order they are sent: the header is the last.
LEMMA SectorsAre ==
    /\ \A n \in 0..SECTORS - 1 : Sector(n) \in Bank /\ (Sector(n) = 0 <=> n = SECTORS - 1)
    /\ \A b \in Bank : \E n \in 0..SECTORS - 1 : Sector(n) = b
    /\ \A b \in 1..SECTORS - 1 : \E n \in 0..SECTORS - 2 : Sector(n) = b
<1>1. SECTORS \in Nat \ {0}
  BY InstallAssumption
<1>2. \A n \in 0..SECTORS - 1 : Sector(n) \in Bank /\ (Sector(n) = 0 <=> n = SECTORS - 1)
  BY <1>1 DEF Sector, Bank
<1>3. \A b \in 1..SECTORS - 1 : b - 1 \in 0..SECTORS - 2 /\ b - 1 \in 0..SECTORS - 1 /\ Sector(b - 1) = b
  BY <1>1 DEF Sector
<1>4. SECTORS - 1 \in 0..SECTORS - 1 /\ Sector(SECTORS - 1) = 0
  BY <1>1 DEF Sector
<1>5. \A b \in Bank : b = 0 \/ b \in 1..SECTORS - 1
  BY <1>1 DEF Bank
<1> QED
  BY <1>2, <1>3, <1>4, <1>5

\* The fields of the toy after a step, and what it says.
Becomes(at, step, download, need, sequence, bank) ==
    /\ toy' \in Toys /\ toy'.at = at /\ toy'.step = step /\ toy'.download = download
    /\ toy'.need = need /\ toy'.sequence = sequence /\ toy'.bank = bank
Says(a) == a \in Messages /\ Readable(a) /\ toHost' = Append(toHost, a)
Stays == Becomes(toy.at, toy.step, toy.download, toy.need, toy.sequence, toy.bank)

\* A frame that confirms a sector confirms one there is.
LEMMA FrameIs ==
    ASSUME NEW n \in Int, NEW d \in Int, d \notin {1, 2} \/ n \in 0..SECTORS - 1, NEW a, a = Frame(n, d)
    PROVE  a \in Messages /\ Readable(a) /\ a.type = "TPR1" /\ a.n = n /\ a.detail = d
<1>1. "TPR1" \in Types
  BY TypesAre
<1>2. a \in Messages /\ a.type = "TPR1" /\ a.n = n /\ a.detail = d
  BY <1>1, MessageIs DEF Frame
<1> QED
  BY <1>2 DEF Readable, Answers

\* What it may say is as it should be.
LEMMA WordsAre ==
    /\ \A type \in {"ACK", "NAK", "CAN", "ECHO REQ"} : Line(type) \in Messages /\ Readable(Line(type)) /\ Line(type).type = type
    /\ \A n \in 0..RECORDS - 1 : LET m == Message("ENQ", n, 0) IN m \in Messages /\ Readable(m) /\ m.type = "ENQ" /\ m.n = n
<1>1. ASSUME NEW type \in {"ACK", "NAK", "CAN", "ECHO REQ"}
      PROVE  Line(type) \in Messages /\ Readable(Line(type)) /\ Line(type).type = type
  <2>1. type \in Types
    BY TypesAre
  <2>2. Line(type) \in Messages /\ Line(type).type = type
    BY <2>1, LineIs
  <2> QED
    BY <2>2 DEF Readable, Answers
<1>2. ASSUME NEW n \in 0..RECORDS - 1
      PROVE  LET m == Message("ENQ", n, 0) IN m \in Messages /\ Readable(m) /\ m.type = "ENQ" /\ m.n = n
  <2>1. "ENQ" \in Types
    BY TypesAre
  <2>2. n \in Int /\ 0 \in Int
    OBVIOUS
  <2>3. LET m == Message("ENQ", n, 0) IN m \in Messages /\ m.type = "ENQ" /\ m.n = n
    BY <2>1, <2>2, MessageIs
  <2> QED
    BY <2>3 DEF Readable, Answers
<1> QED
  BY <1>1, <1>2

\* What the toy does with a message.
Invited(m) ==
    /\ m.type = "PKT" /\ toy.at \in {"menu", "receiving"}
    /\ Becomes("receiving", toy.step, m.n, 0, toy.sequence, toy.bank) /\ Says(Line("ACK"))
TakesTheRecord(m) ==
    /\ m.type = "record" /\ toy.at = "receiving" /\ m.n = toy.need /\ Says(Line("ACK"))
    /\ \/ /\ toy.need + 1 = RECORDS
          /\ Becomes(Kind, "start", toy.download, toy.need + 1, toy.sequence, toy.bank)
       \/ /\ toy.need + 1 < RECORDS
          /\ Becomes(toy.at, toy.step, toy.download, toy.need + 1, toy.sequence, toy.bank)
AnswersTheRecord(m) ==
    /\ m.type = "record" /\ toy.at = "receiving" /\ Stays
    /\ \/ Says(Line("NAK"))
       \/ \E a \in Messages : a.type = "ENQ" /\ a.n = toy.need /\ Says(a)
       \/ m.n < toy.need /\ Says(Line("ACK"))
Writes(m) ==
    /\ toy.at = "music" /\ \E a \in Messages :
          /\ a.type = "TPR1" /\ Says(a)
          /\ \/ /\ m.type \in {"header", "sector"} /\ a.detail = 0
                /\ \E step \in Steps \ {"erase"} :
                      Becomes(toy.at, step, toy.download, toy.need, toy.sequence, toy.bank)
             \/ /\ m.type = "sector" /\ a.detail = 2 /\ a.n = m.n /\ Sector(m.n) \in toy.bank
                /\ \E step \in Steps \ {"erase"} :
                      Becomes(toy.at, step, toy.download, toy.need, toy.sequence, toy.bank)
             \/ /\ m.type = "data" /\ a.detail = 1 /\ a.n = m.n
                /\ \E step \in Steps \ {"erase"} :
                      Becomes(toy.at, step, toy.download, toy.need, toy.sequence, toy.bank \cup {Sector(m.n)})
Clears(m) ==
    /\ m.type = "clear" /\ toy.at = "remove"
    /\ Becomes(toy.at, "erase", toy.download, toy.need, 0, toy.bank)
    /\ \E a \in Messages : a.type = "TPR1" /\ a.detail = 3 /\ Says(a)
GivesUp ==
    /\ toy.at \in {"music", "remove"} /\ toy.step # "start"
    /\ Becomes(toy.at, "over", toy.download, toy.need, toy.sequence, toy.bank)
    /\ \E a \in Messages : a.type = "TPR1" /\ a.detail = FAILED /\ Says(a)

\* The fields of the toy, for the steps that follow.
LEMMA ToyIs ==
    ASSUME Shape
    PROVE  /\ toy \in Toys /\ toy.download \in Nat /\ toy.need \in 0..RECORDS /\ toy.sequence \in Nat /\ toy.bank \subseteq Bank
           /\ toy.step \in Steps /\ RECORDS \in Nat \ {0} /\ SECTORS \in Nat \ {0} /\ Len(runs) \in Nat
           /\ toy.at = "receiving" => toy.need \in 0..RECORDS - 1
           /\ toy.at # "menu" => runs # <<>> /\ toy.download \in 1..Len(runs) /\ Kind \in Operations
           /\ toy.at \in {"music", "remove"} => toy.at = Kind /\ toy.need = RECORDS /\ toy.at \in Operations
           /\ toy.step = "erase" => toy.at = "remove" /\ toy.sequence \in 0..SECTORS - 1
<1>1. /\ toy \in Toys /\ RECORDS \in Nat \ {0} /\ SECTORS \in Nat \ {0} /\ runs \in Seq(Operations) /\ Len(runs) \in Nat
      /\ ToyPlaced /\ Operations \subseteq {"game", "music", "remove"}
  BY InstallAssumption DEF Shape, TypeOK
<1>2. /\ toy.download \in Nat /\ toy.need \in 0..RECORDS /\ toy.sequence \in Nat /\ toy.bank \subseteq Bank /\ toy.step \in Steps
      /\ toy.at \in Operations \cup {"menu", "receiving"}
  BY <1>1 DEF Toys
<1>3. toy.at = "receiving" => toy.need \in 0..RECORDS - 1
  BY <1>1, <1>2 DEF ToyPlaced
<1>4. toy.at # "menu" => runs # <<>> /\ toy.download \in 1..Len(runs)
  BY <1>1, <1>2 DEF ToyPlaced
<1>5. toy.at # "menu" => Kind \in Operations
  BY <1>1, <1>4 DEF Kind
<1>6. toy.at \in {"music", "remove"} => toy.at = Kind /\ toy.need = RECORDS /\ toy.at \in Operations
  BY <1>1, <1>2 DEF ToyPlaced
<1>7. toy.step = "erase" => toy.at = "remove" /\ toy.sequence \in 0..SECTORS - 1
  BY <1>1, <1>2 DEF ToyPlaced
<1> QED
  BY <1>1, <1>2, <1>3, <1>4, <1>5, <1>6, <1>7

\* A message is taken in one of these ways, or ignored.
LEMMA ToyTakesIs ==
    ASSUME Shape, ToyTakes, NEW m, m = Head(toToy)
    PROVE  /\ m \in Messages /\ m \in On(toToy) /\ Sendable(m)
           /\ toToy # <<>> /\ toToy' = Tail(toToy) /\ UNCHANGED <<runs, host, queue, reading, late>>
           /\ \/ UNCHANGED <<toy, toHost>> \/ GivesUp
              \/ Invited(m) \/ TakesTheRecord(m) \/ AnswersTheRecord(m) \/ Writes(m) \/ Clears(m)
<1>1. /\ toToy \in Seq(Messages) /\ toToy # <<>> /\ toToy' = Tail(toToy)
      /\ UNCHANGED <<runs, host, queue, reading, late>> /\ (Takes(m) \/ Refuses)
  BY DEF ToyTakes, Shape, TypeOK
<1>2. m \in Messages /\ m \in On(toToy) /\ Sendable(m)
  BY <1>1, Taken DEF Shape, Sent
<1>3. /\ toy \in Toys /\ toy.download \in Nat /\ toy.need \in 0..RECORDS /\ toy.sequence \in Nat /\ toy.bank \subseteq Bank
      /\ toy.step \in Steps /\ RECORDS \in Nat \ {0}
      /\ toy.at = "receiving" => toy.need \in 0..RECORDS - 1
      /\ toy.at # "menu" => Kind \in Operations
  BY ToyIs
<1>4. Says(Line("ACK")) <=> toHost' = Append(toHost, Line("ACK"))
  BY WordsAre DEF Says
<1>5. Says(Line("NAK")) <=> toHost' = Append(toHost, Line("NAK"))
  BY WordsAre DEF Says
<1>6. CASE TakesPkt(m)
  <2>1. m.n \in Nat
    BY <1>2, <1>6 DEF TakesPkt, Sendable
  <2>2. toy' = [toy EXCEPT !.at = "receiving", !.download = m.n, !.need = 0] /\ toHost' = Append(toHost, Line("ACK"))
    BY <1>6 DEF TakesPkt, Tells
  <2>3. Becomes("receiving", toy.step, m.n, 0, toy.sequence, toy.bank)
    <3>1. 0 \in 0..RECORDS
      BY <1>3
    <3> QED
      BY <1>3, <2>1, <2>2, <3>1 DEF Becomes, Toys
  <2> QED
    BY <1>1, <1>2, <1>4, <1>6, <2>2, <2>3 DEF Invited, TakesPkt
<1>7. CASE TakesRecord(m)
  <2>1. m.type = "record" /\ toy.at = "receiving"
    BY <1>7 DEF TakesRecord
  <2>2. CASE /\ m.n = toy.need
             /\ Tells([toy EXCEPT !.need = @ + 1,
                                  !.at = IF toy.need + 1 = RECORDS THEN Kind ELSE @,
                                  !.step = IF toy.need + 1 = RECORDS THEN "start" ELSE @], Line("ACK"))
    <3>1. toHost' = Append(toHost, Line("ACK"))
      BY <2>2 DEF Tells
    <3>2. toy.need + 1 \in 0..RECORDS /\ "start" \in Steps
      BY <1>3, <2>1 DEF Steps
    <3>3. CASE toy.need + 1 = RECORDS
      <4>1. toy' = [toy EXCEPT !.need = @ + 1, !.at = Kind, !.step = "start"]
        BY <2>2, <3>3 DEF Tells
      <4>2. Becomes(Kind, "start", toy.download, toy.need + 1, toy.sequence, toy.bank)
        BY <1>3, <2>1, <3>2, <4>1 DEF Becomes, Toys
      <4> QED
        BY <1>1, <1>2, <1>4, <2>1, <2>2, <3>1, <3>3, <4>2 DEF TakesTheRecord
    <3>4. CASE toy.need + 1 # RECORDS
      <4>1. toy' = [toy EXCEPT !.need = @ + 1, !.at = toy.at, !.step = toy.step]
        BY <2>2, <3>4 DEF Tells
      <4>2. Becomes(toy.at, toy.step, toy.download, toy.need + 1, toy.sequence, toy.bank)
        BY <1>3, <2>1, <3>2, <4>1 DEF Becomes, Toys
      <4>3. toy.need + 1 < RECORDS
        BY <3>2, <3>4, <1>3
      <4> QED
        BY <1>1, <1>2, <1>4, <2>1, <2>2, <3>1, <4>2, <4>3 DEF TakesTheRecord
    <3> QED
      BY <3>3, <3>4
  <2>3. CASE \/ Tells(toy, Line("NAK"))
             \/ Tells(toy, Message("ENQ", toy.need, 0))
             \/ m.n < toy.need /\ Tells(toy, Line("ACK"))
    <3>1. Stays
      BY <1>3, <2>3 DEF Tells, Stays, Becomes
    <3>2. toHost' = Append(toHost, Message("ENQ", toy.need, 0)) =>
              \E a \in Messages : a.type = "ENQ" /\ a.n = toy.need /\ Says(a)
      <4>1. LET a == Message("ENQ", toy.need, 0) IN a \in Messages /\ Readable(a) /\ a.type = "ENQ" /\ a.n = toy.need
        BY <1>3, <2>1, WordsAre
      <4> QED
        BY <4>1 DEF Says
    <3>3. AnswersTheRecord(m)
      BY <1>4, <1>5, <2>1, <2>3, <3>1, <3>2 DEF AnswersTheRecord, Tells
    <3> QED
      BY <1>1, <1>2, <3>3
  <2> QED
    BY <1>7, <2>2, <2>3 DEF TakesRecord
<1>8. CASE TakesMusic(m)
  <2>1. HEADER \in Int /\ 0 \in Int /\ 0 \notin {1, 2} /\ 1 \in Int /\ 2 \in Int
    BY DEF HEADER
  <2>2. {"sector", "end", "data"} \subseteq Steps \ {"erase"}
    BY DEF Steps
  <2>3. CASE /\ m.type = "header" /\ toy.step = "header"
             /\ Tells([toy EXCEPT !.step = "sector"], Frame(HEADER, 0))
    <3>1. \E a \in Messages : a = Frame(HEADER, 0) /\ Readable(a) /\ a.type = "TPR1" /\ a.detail = 0
      BY <2>1, FrameIs
    <3>2. Becomes(toy.at, "sector", toy.download, toy.need, toy.sequence, toy.bank)
      BY <1>3, <2>2, <2>3 DEF Tells, Becomes, Toys
    <3>3. Writes(m)
      BY <1>8, <2>2, <2>3, <3>1, <3>2 DEF Writes, TakesMusic, Tells, Says
    <3> QED
      BY <1>1, <1>2, <3>3
  <2>4. CASE m.type = "sector" /\ toy.step = "sector" /\ Sector(m.n) \in toy.bank
             /\ Tells([toy EXCEPT !.step = IF m.n = SECTORS - 1 THEN "end" ELSE @], Frame(m.n, 2))
    <3>1. \E a \in Messages : a = Frame(m.n, 2) /\ Readable(a) /\ a.type = "TPR1" /\ a.detail = 2 /\ a.n = m.n
      <4>1. m.n \in 0..SECTORS - 1 /\ m.n \in Int
        BY <1>2, <2>4 DEF Sendable, Messages
      <4> QED
        BY <2>1, <4>1, FrameIs
    <3>2. \E step \in Steps \ {"erase"} : Becomes(toy.at, step, toy.download, toy.need, toy.sequence, toy.bank)
      <4>1. PICK step \in {"sector", "end"} : toy' = [toy EXCEPT !.step = step]
        BY <2>4 DEF Tells
      <4>2. Becomes(toy.at, step, toy.download, toy.need, toy.sequence, toy.bank)
        BY <1>3, <2>2, <4>1 DEF Becomes, Toys
      <4> QED
        BY <2>2, <4>2
    <3>3. Writes(m)
      BY <1>8, <2>4, <3>1, <3>2 DEF Writes, TakesMusic, Tells, Says
    <3> QED
      BY <1>1, <1>2, <3>3
  <2>5. CASE m.type = "sector" /\ toy.step = "sector" /\ Tells([toy EXCEPT !.step = "data"], Frame(m.n, 0))
    <3>1. \E a \in Messages : a = Frame(m.n, 0) /\ Readable(a) /\ a.type = "TPR1" /\ a.detail = 0
      <4>1. m.n \in Int
        BY <1>2 DEF Messages
      <4> QED
        BY <2>1, <4>1, FrameIs
    <3>2. Becomes(toy.at, "data", toy.download, toy.need, toy.sequence, toy.bank)
      BY <1>3, <2>2, <2>5 DEF Tells, Becomes, Toys
    <3>3. Writes(m)
      BY <1>8, <2>2, <2>5, <3>1, <3>2 DEF Writes, TakesMusic, Tells, Says
    <3> QED
      BY <1>1, <1>2, <3>3
  <2>6. CASE m.type = "data" /\ toy.step = "data"
             /\ Tells([toy EXCEPT !.step = IF m.n = SECTORS - 1 THEN "end" ELSE "sector",
                                  !.bank = @ \cup {Sector(m.n)}], Frame(m.n, 1))
    <3>1. m.n \in 0..SECTORS - 1 /\ m.n \in Int
      BY <1>2, <2>6 DEF Sendable, Messages
    <3>2. \E a \in Messages : a = Frame(m.n, 1) /\ Readable(a) /\ a.type = "TPR1" /\ a.detail = 1 /\ a.n = m.n
      BY <2>1, <3>1, FrameIs
    <3>3. \E step \in Steps \ {"erase"} :
             Becomes(toy.at, step, toy.download, toy.need, toy.sequence, toy.bank \cup {Sector(m.n)})
      <4>1. PICK step \in {"sector", "end"} : toy' = [toy EXCEPT !.step = step, !.bank = @ \cup {Sector(m.n)}]
        BY <2>6 DEF Tells
      <4>2. toy.bank \cup {Sector(m.n)} \in SUBSET Bank
        BY <1>3, <3>1, SectorsAre
      <4>3. Becomes(toy.at, step, toy.download, toy.need, toy.sequence, toy.bank \cup {Sector(m.n)})
        BY <1>3, <2>2, <4>1, <4>2 DEF Becomes, Toys
      <4> QED
        BY <2>2, <4>3
    <3>4. Writes(m)
      BY <1>8, <2>6, <3>2, <3>3 DEF Writes, TakesMusic, Tells, Says
    <3> QED
      BY <1>1, <1>2, <3>4
  <2> QED
    BY <1>8, <2>3, <2>4, <2>5, <2>6 DEF TakesMusic
<1>9. CASE TakesClear(m)
  <2>1. \E a \in Messages : a = Frame(HEADER, 3) /\ Readable(a) /\ a.type = "TPR1" /\ a.detail = 3
    <3>1. HEADER \in Int /\ 3 \in Int /\ 3 \notin {1, 2}
      BY DEF HEADER
    <3> QED
      BY <3>1, FrameIs
  <2>2. Becomes(toy.at, "erase", toy.download, toy.need, 0, toy.bank)
    <3>1. "erase" \in Steps
      BY DEF Steps
    <3> QED
      BY <1>3, <1>9, <3>1 DEF TakesClear, Tells, Becomes, Toys
  <2>3. Clears(m)
    BY <1>9, <2>1, <2>2 DEF Clears, TakesClear, Tells, Says
  <2> QED
    BY <1>1, <1>2, <2>3
<1>10. CASE Refuses /\ toy.at \in {"music", "remove"} /\ toy.step # "start"
  <2>1. Tells([toy EXCEPT !.step = "over"], Frame(toy.sequence, FAILED))
    BY <1>10 DEF Refuses
  <2>2. \E a \in Messages : a = Frame(toy.sequence, FAILED) /\ Readable(a) /\ a.type = "TPR1" /\ a.detail = FAILED
    <3>1. toy.sequence \in Int /\ FAILED \in Int /\ FAILED \notin {1, 2}
      BY <1>3 DEF FAILED
    <3> QED
      BY <3>1, FrameIs
  <2>3. Becomes(toy.at, "over", toy.download, toy.need, toy.sequence, toy.bank)
    <3>1. "over" \in Steps
      BY DEF Steps
    <3> QED
      BY <1>3, <2>1, <3>1 DEF Tells, Becomes, Toys
  <2>4. GivesUp
    BY <1>10, <2>1, <2>2, <2>3 DEF GivesUp, Tells, Says
  <2> QED
    BY <1>1, <1>2, <2>4
<1>11. CASE Refuses /\ ~(toy.at \in {"music", "remove"} /\ toy.step # "start")
  BY <1>1, <1>2, <1>11 DEF Refuses
<1> QED
  BY <1>1, <1>6, <1>7, <1>8, <1>9, <1>10, <1>11 DEF Takes

\* What a helper, or the Download screen, says by itself.
Starts ==
    /\ toy.at \in {"music", "remove"} /\ toy.step = "start"
    /\ \E step \in {"header", "over"} : Becomes(toy.at, step, toy.download, toy.need, toy.sequence, toy.bank)
    /\ \E a \in Messages : a.type = "TPR1" /\ a.detail \notin {1, 2} /\ Says(a)
Erases ==
    /\ toy.at = "remove" /\ toy.step = "erase"
    /\ \E step \in {"erase", "end"} :
          /\ Becomes(toy.at, step, toy.download, toy.need, toy.sequence + 1, toy.bank \ {toy.sequence})
          /\ step = "erase" => toy.sequence + 1 < SECTORS
    /\ \E a \in Messages : a.type = "TPR1" /\ a.n = toy.sequence /\ Says(a)
Finishes ==
    /\ toy.at \in {"music", "remove"} /\ toy.step = "end"
    /\ Becomes(toy.at, "over", toy.download, toy.need, toy.sequence, toy.bank)
    /\ \E a \in Messages : a.type = "TPR1" /\ a.detail \notin {1, 2} /\ Says(a)
AsksBack ==
    /\ toy.at = "receiving"
    /\ \/ Stays /\ Says(Line("ECHO REQ"))
       \/ Becomes("menu", toy.step, toy.download, toy.need, toy.sequence, toy.bank) /\ Says(Line("CAN"))
Restarts == Becomes("menu", "none", toy.download, toy.need, 0, toy.bank) /\ toHost' = toHost

\* A helper speaks in one of these ways.
LEMMA ToySpeaksIs ==
    ASSUME Shape, ToySpeaks
    PROVE  UNCHANGED <<runs, host, queue, reading, toToy, late>> /\ (Starts \/ Erases \/ Finishes)
<1>1. UNCHANGED <<runs, host, queue, reading, toToy, late>> /\ toy.at \in {"music", "remove"}
  BY DEF ToySpeaks
<1>2. /\ toy \in Toys /\ toy.sequence \in Nat /\ toy.bank \subseteq Bank /\ SECTORS \in Nat \ {0}
      /\ (toy.step = "erase" => toy.at = "remove" /\ toy.sequence \in 0..SECTORS - 1)
  BY ToyIs
<1> DEFINE good == IF toy.at = "remove" THEN 3 ELSE 0
<1>3. READY \in Int /\ FINAL \in Int /\ FAILED \in Int /\ good \in Int /\ good \notin {1, 2} /\ FAILED \notin {1, 2}
  BY DEF READY, FINAL, FAILED
<1>4. {"header", "over", "end", "erase"} \subseteq Steps
  BY DEF Steps
<1> DEFINE begins == \/ Tells([toy EXCEPT !.step = "header"], Frame(READY, good))
                     \/ Tells([toy EXCEPT !.step = "over"], Frame(READY, FAILED))
           wipes == Tells([toy EXCEPT !.bank = @ \ {toy.sequence}, !.sequence = @ + 1,
                                      !.step = IF toy.sequence + 1 = SECTORS THEN "end" ELSE @],
                          Frame(toy.sequence, IF toy.sequence \in toy.bank THEN 1 ELSE 2))
           closes == Tells([toy EXCEPT !.step = "over"], Frame(FINAL, good))
<1>9. \/ toy.step = "start" /\ begins
      \/ toy.step = "erase" /\ wipes
      \/ toy.step = "end" /\ closes
  BY DEF ToySpeaks
<1> HIDE DEF good, begins, wipes, closes
<1>5. ASSUME NEW step \in Steps
      PROVE  toy' = [toy EXCEPT !.step = step] =>
                Becomes(toy.at, step, toy.download, toy.need, toy.sequence, toy.bank)
  BY <1>2, <1>5 DEF Becomes, Toys
<1>6. CASE toy.step = "start" /\ begins
  <2>1. \E a \in Messages : a = Frame(READY, good) /\ Readable(a) /\ a.type = "TPR1" /\ a.detail \notin {1, 2}
    BY <1>3, FrameIs
  <2>2. \E a \in Messages : a = Frame(READY, FAILED) /\ Readable(a) /\ a.type = "TPR1" /\ a.detail \notin {1, 2}
    BY <1>3, FrameIs
  <2>3. \E step \in {"header", "over"} : Becomes(toy.at, step, toy.download, toy.need, toy.sequence, toy.bank)
    BY <1>4, <1>5, <1>6 DEF Tells, begins
  <2>4. \E a \in Messages : a.type = "TPR1" /\ a.detail \notin {1, 2} /\ Says(a)
    BY <1>6, <2>1, <2>2 DEF Tells, Says, begins
  <2> QED
    BY <1>1, <1>6, <2>3, <2>4 DEF Starts
<1>7. CASE toy.step = "end" /\ closes
  <2>1. \E a \in Messages : a = Frame(FINAL, good) /\ Readable(a) /\ a.type = "TPR1" /\ a.detail \notin {1, 2}
    BY <1>3, FrameIs
  <2>2. Becomes(toy.at, "over", toy.download, toy.need, toy.sequence, toy.bank)
    BY <1>4, <1>5, <1>7 DEF Tells, closes
  <2>3. \E a \in Messages : a.type = "TPR1" /\ a.detail \notin {1, 2} /\ Says(a)
    BY <1>7, <2>1 DEF Tells, Says, closes
  <2> QED
    BY <1>1, <1>7, <2>2, <2>3 DEF Finishes
<1>8. CASE toy.step = "erase" /\ wipes
  <2>1. PICK d \in {1, 2} : toHost' = Append(toHost, Frame(toy.sequence, d))
    BY <1>8 DEF Tells, wipes
  <2>2. toy.sequence \in Int /\ d \in Int /\ toy.sequence \in 0..SECTORS - 1 /\ toy.sequence + 1 \in Nat
    BY <1>2, <1>8
  <2>3. \E a \in Messages : a = Frame(toy.sequence, d) /\ Readable(a) /\ a.type = "TPR1" /\ a.n = toy.sequence
    BY <2>2, FrameIs
  <2>4. \E a \in Messages : a.type = "TPR1" /\ a.n = toy.sequence /\ Says(a)
    BY <2>1, <2>3 DEF Says
  <2>5. PICK step \in {"erase", "end"} :
            /\ toy' = [toy EXCEPT !.bank = @ \ {toy.sequence}, !.sequence = @ + 1, !.step = step]
            /\ step = "erase" => toy.sequence + 1 # SECTORS
    BY <1>8 DEF Tells, wipes
  <2>6. toy.bank \ {toy.sequence} \in SUBSET Bank
    BY <1>2
  <2>7. Becomes(toy.at, step, toy.download, toy.need, toy.sequence + 1, toy.bank \ {toy.sequence})
    BY <1>2, <1>4, <2>2, <2>5, <2>6 DEF Becomes, Toys
  <2>8. step = "erase" => toy.sequence + 1 < SECTORS
    BY <1>2, <2>2, <2>5
  <2> QED
    BY <1>1, <1>2, <1>8, <2>4, <2>7, <2>8 DEF Erases
<1> QED
  BY <1>1, <1>6, <1>7, <1>8, <1>9

\* The Download screen asks back, or cancels.
LEMMA ToyAsksIs ==
    ASSUME Shape, ToyAsks
    PROVE  UNCHANGED <<runs, host, queue, reading, toToy, late>> /\ AsksBack
<1>1. toy \in Toys /\ UNCHANGED <<runs, host, queue, reading, toToy, late>> /\ toy.at = "receiving"
      /\ (Tells(toy, Line("ECHO REQ")) \/ Tells([toy EXCEPT !.at = "menu"], Line("CAN")))
  BY DEF ToyAsks, Shape, TypeOK
<1>2. Tells(toy, Line("ECHO REQ")) => Stays /\ Says(Line("ECHO REQ"))
  BY <1>1, WordsAre DEF Tells, Stays, Becomes, Says
<1>3. Tells([toy EXCEPT !.at = "menu"], Line("CAN")) =>
          Becomes("menu", toy.step, toy.download, toy.need, toy.sequence, toy.bank) /\ Says(Line("CAN"))
  <2>1. toy' = [toy EXCEPT !.at = "menu"] => Becomes("menu", toy.step, toy.download, toy.need, toy.sequence, toy.bank)
    BY <1>1 DEF Becomes, Toys
  <2> QED
    BY <2>1, WordsAre DEF Tells, Says
<1> QED
  BY <1>1, <1>2, <1>3 DEF AsksBack

\* A restart leaves the bank and what was last begun.
LEMMA ToyRestartsIs ==
    ASSUME Shape, ToyRestarts
    PROVE  UNCHANGED <<runs, host, queue, reading, toToy, late>> /\ Restarts
<1>1. toy \in Toys /\ UNCHANGED <<runs, host, queue, reading, toToy, toHost, late>>
      /\ toy' = [toy EXCEPT !.at = "menu", !.step = "none", !.sequence = 0]
  BY DEF ToyRestarts, Shape, TypeOK
<1>2. "none" \in Steps /\ 0 \in Nat
  BY DEF Steps
<1>3. Becomes("menu", "none", toy.download, toy.need, 0, toy.bank)
  BY <1>1, <1>2 DEF Becomes, Toys
<1> QED
  BY <1>1, <1>3 DEF Restarts

\* A step of the toy keeps the shape, where it leads to and what it says being so.
LEMMA ToyGoesOn ==
    ASSUME Shape, UNCHANGED <<runs, host, queue, reading, late>>,
           toToy' \in Seq(Messages), On(toToy') \subseteq On(toToy),
           toHost' = toHost \/ \E a \in Messages : Says(a),
           NEW at, NEW step, NEW download, NEW need, NEW sequence, NEW bank,
           Becomes(at, step, download, need, sequence, bank),
           download <= Len(runs), at # "menu" => download # 0,
           at = "receiving" => need < RECORDS,
           at \in Operations => at = runs[download] /\ need = RECORDS,
           step = "erase" => at = "remove" /\ sequence < SECTORS
    PROVE  Shape'
<1>1. ToyPlaced'
  BY DEF ToyPlaced, Becomes, Kind
<1>2. toHost' \in Seq(Messages) /\ \A m \in Incoming' : Readable(m)
  <2>1. CASE toHost' = toHost
    BY <2>1 DEF Shape, TypeOK, Sent, Incoming
  <2>2. CASE \E a \in Messages : Says(a)
    <3>1. PICK a \in Messages : Says(a)
      BY <2>2
    <3>2. toHost' = Append(toHost, a) /\ Readable(a) /\ queue' = queue
      BY <3>1 DEF Says
    <3>3. toHost' \in Seq(Messages) /\ Incoming' = Incoming \cup {a}
      BY <3>2, ToldIs
    <3> QED
      BY <3>2, <3>3 DEF Shape, Sent
  <2> QED
    BY <2>1, <2>2
<1>3. TypeOK'
  BY <1>2 DEF Shape, TypeOK, Becomes
<1>4. HostPlaced'
  BY DEF Shape, HostPlaced, Placed, Operation
<1>5. Sent'
  <2>1. \A m : Readable(m)' = Readable(m)
    BY DEF Readable
  <2>2. \A m : Sendable(m)' = Sendable(m)
    BY DEF Sendable
  <2> QED
    BY <1>2, <2>1, <2>2 DEF Shape, Sent
<1> QED
  BY <1>1, <1>3, <1>4, <1>5 DEF Shape

\* Whatever the toy does, the shape stays.
LEMMA ToyShape ==
    ASSUME Shape, ToyTakes \/ ToySpeaks \/ ToyAsks \/ ToyRestarts
    PROVE  Shape'
<1>1. /\ toy.download \in Nat /\ toy.need \in 0..RECORDS /\ Len(runs) \in Nat /\ ToyPlaced
      /\ RECORDS \in Nat \ {0} /\ Operations \subseteq {"game", "music", "remove"}
      /\ toy.at = "receiving" => toy.download # 0
      /\ toy.at \in {"music", "remove"} => toy.at = Kind /\ toy.need = RECORDS /\ toy.at \in Operations
  BY ToyIs, InstallAssumption DEF Shape, ToyPlaced
<1>2. toToy \in Seq(Messages)
  BY DEF Shape, TypeOK
<1>3. ASSUME ToyTakes
      PROVE  Shape'
  <2>1. PICK m : m = Head(toToy)
    OBVIOUS
  <2>2. /\ m \in Messages /\ Sendable(m) /\ toToy # <<>> /\ toToy' = Tail(toToy)
        /\ UNCHANGED <<runs, host, queue, reading, late>>
        /\ \/ UNCHANGED <<toy, toHost>> \/ GivesUp
           \/ Invited(m) \/ TakesTheRecord(m) \/ AnswersTheRecord(m) \/ Writes(m) \/ Clears(m)
    BY <1>3, <2>1, ToyTakesIs
  <2>3. toToy' \in Seq(Messages) /\ On(toToy') \subseteq On(toToy)
    BY <1>2, <2>2, Taken
  <2>4. CASE UNCHANGED <<toy, toHost>>
    <3>1. Stays
      BY <2>4, ToyIs DEF Stays, Becomes
    <3> QED
      BY <1>1, <2>2, <2>3, <2>4, <3>1, ToyGoesOn DEF Stays, ToyPlaced, Kind
  <2>5. CASE GivesUp
    <3>1. Becomes(toy.at, "over", toy.download, toy.need, toy.sequence, toy.bank) /\ (\E a \in Messages : Says(a))
      BY <2>5 DEF GivesUp
    <3> QED
      BY <1>1, <2>2, <2>3, <3>1, ToyGoesOn DEF ToyPlaced, Kind
  <2>6. CASE Invited(m)
    <3>1. Becomes("receiving", toy.step, m.n, 0, toy.sequence, toy.bank) /\ (\E a \in Messages : Says(a)) /\ m.type = "PKT"
          /\ toy.at \in {"menu", "receiving"}
      BY <2>6 DEF Invited, Says
    <3>2. m.n <= Len(runs) /\ m.n # 0 /\ 0 < RECORDS
      BY <1>1, <2>2, <3>1 DEF Sendable
    <3>3. "receiving" \notin Operations /\ toy.step # "erase"
      BY <1>1, <3>1 DEF ToyPlaced
    <3> QED
      BY <2>2, <2>3, <3>1, <3>2, <3>3, ToyGoesOn
  <2>7. CASE TakesTheRecord(m)
    <3>1. toy.at = "receiving" /\ (\E a \in Messages : Says(a))
      BY <2>7 DEF TakesTheRecord, Says
    <3>2. "receiving" \notin Operations /\ toy.step # "erase" /\ Kind \in Operations
      BY <1>1, <3>1, ToyIs DEF ToyPlaced
    <3>3. CASE /\ toy.need + 1 = RECORDS
               /\ Becomes(Kind, "start", toy.download, toy.need + 1, toy.sequence, toy.bank)
      <4>1. Kind # "receiving" /\ Kind = runs[toy.download]
        BY <3>2 DEF Kind
      <4> QED
        BY <1>1, <2>2, <2>3, <3>1, <3>3, <4>1, ToyGoesOn DEF ToyPlaced
    <3>4. CASE /\ toy.need + 1 < RECORDS
               /\ Becomes(toy.at, toy.step, toy.download, toy.need + 1, toy.sequence, toy.bank)
      BY <1>1, <2>2, <2>3, <3>1, <3>2, <3>4, ToyGoesOn DEF ToyPlaced
    <3> QED
      BY <2>7, <3>3, <3>4 DEF TakesTheRecord
  <2>8. CASE AnswersTheRecord(m)
    <3>1. Stays /\ (\E a \in Messages : Says(a))
      BY <2>8 DEF AnswersTheRecord, Says
    <3> QED
      BY <1>1, <2>2, <2>3, <3>1, ToyGoesOn DEF Stays, ToyPlaced, Kind
  <2>9. CASE Writes(m)
    <3>1. toy.at = "music" /\ (\E a \in Messages : Says(a))
      BY <2>9 DEF Writes
    <3>2. PICK step, bank :
             /\ step \in Steps \ {"erase"}
             /\ Becomes(toy.at, step, toy.download, toy.need, toy.sequence, bank)
      BY <2>9 DEF Writes
    <3> QED
      BY <1>1, <2>2, <2>3, <3>1, <3>2, ToyGoesOn DEF ToyPlaced, Kind
  <2>10. CASE Clears(m)
    <3>1. toy.at = "remove" /\ (\E a \in Messages : Says(a)) /\ Becomes(toy.at, "erase", toy.download, toy.need, 0, toy.bank)
      BY <2>10 DEF Clears
    <3>2. 0 < SECTORS
      BY InstallAssumption
    <3> QED
      BY <1>1, <2>2, <2>3, <3>1, <3>2, ToyGoesOn DEF ToyPlaced, Kind
  <2> QED
    BY <2>2, <2>4, <2>5, <2>6, <2>7, <2>8, <2>9, <2>10
<1>4. ASSUME ToySpeaks
      PROVE  Shape'
  <2>1. UNCHANGED <<runs, host, queue, reading, toToy, late>> /\ (Starts \/ Erases \/ Finishes)
    BY <1>4, ToySpeaksIs
  <2>2. toToy' \in Seq(Messages) /\ On(toToy') \subseteq On(toToy)
    BY <1>2, <2>1
  <2>3. /\ toy.at \in {"music", "remove"} /\ (\E a \in Messages : Says(a))
    BY <2>1 DEF Starts, Erases, Finishes
  <2>4. CASE Starts \/ Finishes
    <3>1. PICK step \in {"header", "over"} : Becomes(toy.at, step, toy.download, toy.need, toy.sequence, toy.bank)
      BY <2>4 DEF Starts, Finishes
    <3> QED
      BY <1>1, <2>1, <2>2, <2>3, <3>1, ToyGoesOn DEF ToyPlaced, Kind
  <2>5. CASE Erases
    <3>1. PICK step \in {"erase", "end"} :
            /\ Becomes(toy.at, step, toy.download, toy.need, toy.sequence + 1, toy.bank \ {toy.sequence})
            /\ step = "erase" => toy.sequence + 1 < SECTORS
            /\ toy.at = "remove"
      BY <2>5 DEF Erases
    <3> QED
      BY <1>1, <2>1, <2>2, <2>3, <3>1, ToyGoesOn DEF ToyPlaced, Kind
  <2> QED
    BY <2>1, <2>4, <2>5
<1>5. ASSUME ToyAsks
      PROVE  Shape'
  <2>1. UNCHANGED <<runs, host, queue, reading, toToy, late>> /\ AsksBack
    BY <1>5, ToyAsksIs
  <2>2. toToy' \in Seq(Messages) /\ On(toToy') \subseteq On(toToy)
    BY <1>2, <2>1
  <2>3. \E a \in Messages : Says(a)
    BY <2>1 DEF AsksBack, Says
  <2>4. CASE Stays
    BY <1>1, <2>1, <2>2, <2>3, <2>4, ToyGoesOn DEF Stays, ToyPlaced, Kind
  <2>5. CASE Becomes("menu", toy.step, toy.download, toy.need, toy.sequence, toy.bank)
    <3>1. toy.at = "receiving"
      BY <2>1 DEF AsksBack
    <3>2. toy.step # "erase" /\ "menu" \notin Operations
      BY <1>1, <3>1 DEF ToyPlaced
    <3> QED
      BY <1>1, <2>1, <2>2, <2>3, <2>5, <3>2, ToyGoesOn DEF ToyPlaced
  <2> QED
    BY <2>1, <2>4, <2>5 DEF AsksBack
<1>6. ASSUME ToyRestarts
      PROVE  Shape'
  <2>1. UNCHANGED <<runs, host, queue, reading, toToy, late>> /\ Restarts
    BY <1>6, ToyRestartsIs
  <2>2. toToy' \in Seq(Messages) /\ On(toToy') \subseteq On(toToy)
    BY <1>2, <2>1
  <2>3. Becomes("menu", "none", toy.download, toy.need, 0, toy.bank) /\ toHost' = toHost /\ "menu" \notin Operations
    BY <1>1, <2>1 DEF Restarts
  <2> QED
    BY <1>1, <2>1, <2>2, <2>3, ToyGoesOn DEF ToyPlaced
<1> QED
  BY <1>3, <1>4, <1>5, <1>6

\* The shape of the state is kept.
LEMMA ShapeKept ==
    ASSUME Shape, [Next]_vars
    PROVE  Shape'
<1>1. ASSUME UNCHANGED vars
      PROVE  Shape'
  <2>1. UNCHANGED <<runs, host, queue, reading, toToy, toHost, toy, late>>
    BY <1>1 DEF vars
  <2>2. TypeOK' /\ HostPlaced' /\ ToyPlaced'
    BY <2>1 DEF Shape, TypeOK, HostPlaced, Placed, Operation, ToyPlaced, Kind
  <2>3. Sent'
    <3>1. \A m : Readable(m)' = Readable(m) /\ Sendable(m)' = Sendable(m)
      BY <2>1 DEF Readable, Sendable
    <3> QED
      BY <2>1, <3>1 DEF Shape, Sent, Incoming
  <2> QED
    BY <2>2, <2>3 DEF Shape
<1>2. ASSUME NEW operation \in Operations, Start(operation)
      PROVE  Shape'
  BY <1>2, StartShape
<1>3. ASSUME LoadFails \/ Open \/ Unplug
      PROVE  Shape'
  BY <1>3, OpenShape
<1>4. ASSUME Read
      PROVE  Shape'
  BY <1>4, ReadShape
<1>5. ASSUME TakeLine \/ TakeFrame \/ Timeout
      PROVE  Shape'
  BY <1>5, DialogueShape
<1>6. ASSUME LoseToToy \/ LoseToHost
      PROVE  Shape'
  BY <1>6, LoseShape
<1>7. ASSUME ToyTakes \/ ToySpeaks \/ ToyAsks \/ ToyRestarts
      PROVE  Shape'
  BY <1>7, ToyShape
<1> QED
  BY <1>1, <1>2, <1>3, <1>4, <1>5, <1>6, <1>7 DEF Next

-----------------------------------------------------------------------------
(* What was confirmed stays                                                 *)

\* Where nothing removes, no remover is under way and none runs.
LEMMA NoRemover ==
    ASSUME Shape, ~Removing
    PROVE  toy.at # "remove" /\ (runs # <<>> => Operation # "remove")
<1>1. runs \in Seq(Operations) /\ Len(runs) \in Nat /\ (runs # <<>> => Len(runs) \in 1..Len(runs))
  BY DEF Shape, TypeOK
<1>2. \A i \in 1..Len(runs) : runs[i] # "remove"
  BY DEF Removing
<1>3. toy.at = "remove" => toy.download \in 1..Len(runs) /\ toy.at = runs[toy.download]
  BY ToyIs DEF Kind
<1> QED
  BY <1>1, <1>2, <1>3 DEF Operation

\* The host keeps it, if it writes and believes what it should.
LEMMA HostKeeps ==
    ASSUME Kept, UNCHANGED <<runs, toy>>, Incoming' \subseteq Incoming,
           ~Removing =>
              /\ \A m \in On(toToy') : m.type = "data" => m \in On(toToy) \/ Before(m.n)
              /\ host'.pc \in {"sector", "verify"} => Before(host'.sequence)
              /\ host'.pc \in {"final", "done"} /\ Operation = "music" => Before(SECTORS)
    PROVE  Kept'
<1>1. Removing' = Removing /\ Operation' = Operation
  BY DEF Removing, Operation
<1>2. \A n : Before(n)' = Before(n)
  BY DEF Before
<1>3. CASE Removing
  BY <1>1, <1>3 DEF Kept
<1>4. CASE ~Removing
  <2>1. /\ 0 \in toy.bank => toy.bank = Bank
        /\ \A m \in On(toToy) : m.type = "data" => Before(m.n)
        /\ \A m \in Incoming : m.type = "TPR1" /\ m.detail \in {1, 2} => Sector(m.n) \in toy.bank
    BY <1>4 DEF Kept
  <2>2. 0 \in toy'.bank => toy'.bank = Bank
    BY <2>1
  <2>3. \A m \in On(toToy') : m.type = "data" => Before(m.n)'
    BY <1>2, <1>4, <2>1
  <2>4. \A m \in Incoming' : m.type = "TPR1" /\ m.detail \in {1, 2} => Sector(m.n) \in toy'.bank
    BY <2>1
  <2>5. host'.pc \in {"sector", "verify"} => Before(host.sequence)'
    BY <1>4 DEF Before
  <2>6. host'.pc \in {"final", "done"} /\ Operation' = "music" => Before(SECTORS)'
    BY <1>1, <1>2, <1>4
  <2> QED
    BY <2>2, <2>3, <2>4, <2>5, <2>6 DEF Kept
<1> QED
  BY <1>3, <1>4

\* The line and the toy keep it, if only sectors are added, the header as the last.
LEMMA ToyKeeps ==
    ASSUME Kept, UNCHANGED <<runs, host>>, On(toToy') \subseteq On(toToy),
           ~Removing =>
              /\ toy.bank \subseteq toy'.bank /\ (0 \in toy'.bank => toy'.bank = Bank)
              /\ \A m \in Incoming' : m.type = "TPR1" /\ m.detail \in {1, 2} =>
                    m \in Incoming \/ Sector(m.n) \in toy'.bank
    PROVE  Kept'
<1>1. Removing' = Removing /\ Operation' = Operation
  BY DEF Removing, Operation
<1>2. CASE Removing
  BY <1>1, <1>2 DEF Kept
<1>3. CASE ~Removing
  <2>1. \A n : Before(n) => Before(n)'
    BY <1>3 DEF Before
  <2>2. Before(host.sequence) => Before(host.sequence)'
    BY <1>3 DEF Before
  <2> QED
    BY <1>1, <1>3, <2>1, <2>2 DEF Kept
<1> QED
  BY <1>2, <1>3

\* Answering the toy, the host writes data and goes on to a sector only over what is there.
LEMMA AnswerKept ==
    ASSUME Shape, Kept, ~Removing, runs # <<>>, NEW to, NEW m \in Incoming,
           \/ host.pc \in {"pkt", "record"} /\ IsLine(m) /\ to = OnLine(host, m)
           \/ host.pc \in Helping /\ ~IsLine(m) /\ to = OnFrame(host, m)
    PROVE  /\ to.out = <<>> \/ \E a \in Messages : to.out = <<a>> /\ (a.type = "data" => Before(a.n))
           /\ to.host.pc \in {"sector", "verify"} => Before(to.host.sequence)
           /\ to.host.pc \in {"final", "done"} /\ Operation = "music" => Before(SECTORS)
<1>1. /\ Operation # "remove" /\ host \in Hosts /\ host.sequence \in Nat /\ host.index \in Nat
      /\ RECORDS \in Nat \ {0} /\ SECTORS \in Nat \ {0} /\ Len(runs) \in Nat
  BY NoRemover, ToyIs DEF Shape, TypeOK, Hosts
<1>2. Before(0)
  BY DEF Before
<1>3. ASSUME NEW type \in Types, type # "data", NEW n \in Int
      PROVE  Message(type, n, 0) \in Messages /\ Message(type, n, 0).type # "data"
  BY <1>3, MessageIs
<1>4. ASSUME NEW type \in {"PKT", "record", "sector"}, NEW n \in Int, to.out = <<Message(type, n, 0)>>
      PROVE  \E a \in Messages : to.out = <<a>> /\ (a.type = "data" => Before(a.n))
  BY <1>3, <1>4, TypesAre
<1>5. ASSUME NEW type \in {"ECHO REP", "header", "clear"}, to.out = <<Line(type)>>
      PROVE  \E a \in Messages : to.out = <<a>> /\ (a.type = "data" => Before(a.n))
  BY <1>5, LineIs, TypesAre
<1>6. CASE host.pc \in {"pkt", "record"} /\ IsLine(m) /\ to = OnLine(host, m)
  <2>1. \/ m.type = "ECHO REQ" /\ to.host = host /\ to.out = <<Line("ECHO REP")>>
        \/ Broken(to)
        \/ Inquiring(to)
        \/ \E i \in Int : Transmitting(to, i)
        \/ to.out = <<>> /\ to.host.pc = IF Operation = "game" THEN "done" ELSE "ready"
    <3>1. m.type = "ENQ" => m.n \in Int
      <4>1. Readable(m)
        BY DEF Shape, Sent
      <4> QED
        BY <1>1, <4>1 DEF Readable
    <3>2. host.index \in Int /\ host.index + 1 \in Int /\ 0 \in Int
      BY <1>1
    <3> DEFINE answer == OnLine(host, m)
    <3>3. \/ m.type = "ECHO REQ" /\ answer.host = host /\ answer.out = <<Line("ECHO REP")>>
          \/ Broken(answer)
          \/ Inquiring(answer)
          \/ Transmitting(answer, 0) \/ Transmitting(answer, host.index) \/ Transmitting(answer, host.index + 1)
          \/ m.type = "ENQ" /\ Transmitting(answer, m.n)
          \/ answer.out = <<>> /\ answer.host.pc = IF Operation = "game" THEN "done" ELSE "ready"
      BY <1>6, OnLineIs
    <3> HIDE DEF answer
    <3>4. to = answer
      BY <1>6 DEF answer
    <3> QED
      BY <3>1, <3>2, <3>3, <3>4
  <2>2. /\ to.out = <<>> \/ \E a \in Messages : to.out = <<a>> /\ (a.type = "data" => Before(a.n))
    <3>1. Len(runs) \in Int
      BY <1>1
    <3>2. Inquiring(to) => \E a \in Messages : to.out = <<a>> /\ (a.type = "data" => Before(a.n))
      BY <1>4, <3>1 DEF Inquiring
    <3>3. ASSUME NEW i \in Int, Transmitting(to, i)
          PROVE  \E a \in Messages : to.out = <<a>> /\ (a.type = "data" => Before(a.n))
      BY <1>4, <3>3 DEF Transmitting
    <3>4. to.out = <<Line("ECHO REP")>> => \E a \in Messages : to.out = <<a>> /\ (a.type = "data" => Before(a.n))
      BY <1>5
    <3>5. Broken(to) => to.out = <<>>
      BY DEF Broken
    <3> QED
      BY <2>1, <3>2, <3>3, <3>4, <3>5
  <2>3. to.host.pc \notin {"sector", "verify", "final"} /\ (to.host.pc = "done" => Operation = "game")
    BY <1>6, <2>1 DEF Broken, Inquiring, Transmitting
  <2> QED
    BY <2>2, <2>3
<1>7. CASE host.pc \in Helping /\ ~IsLine(m) /\ to = OnFrame(host, m)
  <2>1. \/ Broken(to)
        \/ Reaching(to, "header", <<Line("header")>>)
        \/ Reaching(to, "confirm", <<Line("clear")>>)
        \/ to.host.sequence = 0 /\ Reaching(to, "sector", <<Message("sector", 0, 0)>>)
        \/ /\ host.pc = "sector" /\ to.host.sequence = host.sequence
           /\ Reaching(to, "verify", <<Message("data", host.sequence, 0)>>)
        \/ /\ host.pc \in {"sector", "verify"} /\ m.detail \in {1, 2} /\ m.n = host.sequence
           /\ \/ host.sequence + 1 = SECTORS /\ Reaching(to, "final", <<>>)
              \/ /\ to.host.sequence = host.sequence + 1
                 /\ Reaching(to, "sector", <<Message("sector", host.sequence + 1, 0)>>)
        \/ host.pc = "confirm" \/ host.pc = "erase"
        \/ host.pc = "final" /\ Reaching(to, "done", <<>>)
    <3> HIDE DEF Before
    <3> QED
      BY <1>7, OnFrameIs
  <2>2. host.pc \in {"sector", "verify"} => Before(host.sequence)
    BY DEF Kept
  <2>3. CASE Broken(to)
    BY <2>3 DEF Broken
  <2>4. CASE Reaching(to, "header", <<Line("header")>>) \/ Reaching(to, "confirm", <<Line("clear")>>)
    BY <1>5, <2>4 DEF Reaching
  <2>5. CASE to.host.sequence = 0 /\ Reaching(to, "sector", <<Message("sector", 0, 0)>>)
    BY <1>2, <1>4, <2>5 DEF Reaching
  <2>6. CASE /\ host.pc = "sector" /\ to.host.sequence = host.sequence
             /\ Reaching(to, "verify", <<Message("data", host.sequence, 0)>>)
    <3>1. Message("data", host.sequence, 0) \in Messages /\ Message("data", host.sequence, 0).n = host.sequence
      <4>1. host.sequence \in Int
        BY <1>1
      <4> QED
        BY <4>1, SaysIs
    <3> QED
      BY <2>2, <2>6, <3>1 DEF Reaching
  <2>7. CASE /\ host.pc \in {"sector", "verify"} /\ m.detail \in {1, 2} /\ m.n = host.sequence
             /\ \/ host.sequence + 1 = SECTORS /\ Reaching(to, "final", <<>>)
                \/ /\ to.host.sequence = host.sequence + 1
                   /\ Reaching(to, "sector", <<Message("sector", host.sequence + 1, 0)>>)
    <3>1. m.type = "TPR1"
      <4>1. Readable(m)
        BY DEF Shape, Sent
      <4>2. m.type # "noise"
        <5>1. Noise.detail = 0
          BY DEF Noise, Line, Message
        <5>2. m.type = "noise" => m.detail = 0
          BY <4>1, <5>1 DEF Readable
        <5>3. m.detail # 0
          BY <2>7
        <5> QED
          BY <5>2, <5>3
      <4>3. m.type \in Answers \cup {"CAN", "ECHO REQ"} => IsLine(m)
        BY DEF IsLine, Answers
      <4> QED
        BY <1>7, <4>1, <4>2, <4>3 DEF Readable
    <3>2. Sector(host.sequence) \in toy.bank /\ Before(host.sequence)
      BY <2>2, <2>7, <3>1 DEF Kept
    <3>3. \A j \in 0..(host.sequence + 1) - 1 : j \in 0..host.sequence - 1 \/ j = host.sequence
      BY <1>1
    <3>4. Before(host.sequence + 1)
      BY <3>2, <3>3 DEF Before
    <3>5. host.sequence + 1 \in Int
      BY <1>1
    <3> QED
      BY <1>4, <2>7, <3>4, <3>5 DEF Reaching
  <2>8. CASE host.pc = "confirm" \/ host.pc = "erase"
    BY <1>1, <2>8 DEF Shape, HostPlaced, Placed, Remove
  <2>9. CASE host.pc = "final" /\ Reaching(to, "done", <<>>)
    BY <2>9 DEF Reaching, Kept
  <2> QED
    BY <2>1, <2>3, <2>4, <2>5, <2>6, <2>7, <2>8, <2>9
<1> QED
  BY <1>6, <1>7

\* The steps of the host keep what was confirmed.
LEMMA HostKept ==
    ASSUME Shape, Kept, TakeLine \/ TakeFrame \/ Timeout \/ Read \/ LoadFails \/ Open \/ Unplug
    PROVE  Kept'
<1>1. toToy \in Seq(Messages) /\ host \in Hosts
  BY DEF Shape, TypeOK
<1>2. ASSUME NEW to, NEW rest, GoesOn(to, rest), UNCHANGED <<runs, toy>>, Incoming' \subseteq Incoming,
             ~Removing =>
                /\ to.out = <<>> \/ \E a \in Messages : to.out = <<a>> /\ (a.type = "data" => Before(a.n))
                /\ to.host.pc \in {"sector", "verify"} => Before(to.host.sequence)
                /\ to.host.pc \in {"final", "done"} /\ Operation = "music" => Before(SECTORS)
      PROVE  Kept'
  <2>1. ASSUME ~Removing
        PROVE  \A m \in On(toToy') : m.type = "data" => m \in On(toToy) \/ Before(m.n)
    <3>1. CASE to.out = <<>>
      BY <1>1, <1>2, <3>1, GoesOnSilent
    <3>2. CASE \E a \in Messages : to.out = <<a>> /\ (a.type = "data" => Before(a.n))
      <4>1. PICK a \in Messages : to.out = <<a>> /\ (a.type = "data" => Before(a.n))
        BY <3>2
      <4>2. On(toToy') \subseteq On(toToy) \cup {a}
        BY <1>1, <1>2, <4>1, GoesOnSaying
      <4> QED
        BY <4>1, <4>2
    <3> QED
      BY <1>2, <2>1, <3>1, <3>2
  <2>2. host' = to.host
    BY <1>2 DEF GoesOn
  <2> QED
    BY <1>2, <2>1, <2>2, HostKeeps
<1>3. ASSUME NEW to, Broken(to) \/ Inquiring(to)
      PROVE  /\ to.out = <<>> \/ \E a \in Messages : to.out = <<a>> /\ (a.type = "data" => Before(a.n))
             /\ to.host.pc \notin {"sector", "verify", "final", "done"}
  <2>1. Message("PKT", Len(runs), 0) \in Messages /\ Message("PKT", Len(runs), 0).type # "data"
    <3>1. Len(runs) \in Int
      BY DEF Shape, TypeOK
    <3> QED
      BY <3>1, SaysIs
  <2> QED
    BY <1>3, <2>1 DEF Broken, Inquiring
<1>4. ASSUME ~Removing
      PROVE  /\ host.pc \in {"sector", "verify"} => Before(host.sequence)
             /\ host.pc \in {"final", "done"} /\ Operation = "music" => Before(SECTORS)
  BY <1>4 DEF Kept
<1>5. CASE TakeLine \/ TakeFrame
  <2>1. UNCHANGED <<runs, toy>> /\ Incoming' \subseteq Incoming
    BY <1>5, DialogueShape DEF TakeLine, TakeFrame
  <2>2. \E to, rest :
           /\ GoesOn(to, rest) /\ runs # <<>>
           /\ \/ \E m \in Incoming : \/ host.pc \in {"pkt", "record"} /\ IsLine(m) /\ to = OnLine(host, m)
                                     \/ host.pc \in Helping /\ ~IsLine(m) /\ to = OnFrame(host, m)
              \/ to.host = host /\ to.out = <<>>
              \/ Broken(to)
    <3>1. CASE TakeLine
      <4>1. host.pc \in {"pkt", "record"}
        BY <3>1 DEF TakeLine
      <4> QED
        BY <3>1, <4>1, TakeLineIs
    <3>2. CASE TakeFrame
      BY <3>2, TakeFrameIs
    <3> QED
      BY <1>5, <3>1, <3>2
  <2>3. PICK to, rest :
           /\ GoesOn(to, rest) /\ runs # <<>>
           /\ \/ \E m \in Incoming : \/ host.pc \in {"pkt", "record"} /\ IsLine(m) /\ to = OnLine(host, m)
                                     \/ host.pc \in Helping /\ ~IsLine(m) /\ to = OnFrame(host, m)
              \/ to.host = host /\ to.out = <<>>
              \/ Broken(to)
    BY <2>2
  <2>4. ASSUME ~Removing
        PROVE  /\ to.out = <<>> \/ \E a \in Messages : to.out = <<a>> /\ (a.type = "data" => Before(a.n))
               /\ to.host.pc \in {"sector", "verify"} => Before(to.host.sequence)
               /\ to.host.pc \in {"final", "done"} /\ Operation = "music" => Before(SECTORS)
    BY <1>3, <1>4, <2>3, <2>4, AnswerKept
  <2> QED
    BY <1>2, <2>1, <2>3, <2>4
<1>6. CASE Timeout
  <2>1. PICK to : to = TimedOut(host)
    OBVIOUS
  <2>2. GoesOn(to, queue) /\ Owned /\ UNCHANGED <<runs, toy>>
    BY <1>6, <2>1 DEF Timeout
  <2>3. Incoming' \subseteq Incoming
    BY <1>6, DialogueShape
  <2>4. Broken(to) \/ Inquiring(to) \/ (host.pc = "record" /\ Transmitting(to, host.index))
    BY <2>1, <2>2, TimedOutIs
  <2>5. CASE host.pc = "record" /\ Transmitting(to, host.index)
    <3>1. Message("record", host.index, 0) \in Messages /\ Message("record", host.index, 0).type # "data"
      <4>1. host.index \in Int
        BY <1>1 DEF Hosts
      <4> QED
        BY <4>1, SaysIs
    <3> QED
      BY <1>2, <2>2, <2>3, <2>5, <3>1 DEF Transmitting
  <2> QED
    BY <1>2, <1>3, <2>2, <2>3, <2>4, <2>5
<1>7. CASE Read
  <2>1. /\ Incoming' \subseteq Incoming /\ UNCHANGED <<runs, toy, toToy>> /\ (host' = host \/ host'.pc = "failed")
    BY <1>7, ReadIs
  <2> QED
    BY <1>4, <2>1, HostKeeps
<1>8. CASE Open
  <2>1. PICK to : to = Ask(host)
    OBVIOUS
  <2>2. GoesOn(to, <<>>) /\ UNCHANGED <<runs, toy>> /\ (Broken(to) \/ Inquiring(to))
    BY <1>1, <1>8, <2>1, AskIs DEF Open
  <2> QED
    BY <1>2, <1>3, <1>8, <2>2, OpenShape
<1>9. CASE LoadFails \/ Unplug
  <2>1. UNCHANGED <<runs, toy>> /\ host'.pc = "failed" /\ On(toToy') \subseteq On(toToy)
    <3>1. Fails.host.pc = "failed"
      BY FailsIs DEF Broken
    <3> QED
      BY <1>9, <3>1, Nothing DEF LoadFails, Unplug
  <2> QED
    BY <1>9, <2>1, HostKeeps, OpenShape
<1> QED
  BY <1>5, <1>6, <1>7, <1>8, <1>9

\* So do the steps of the line and of the toy.
LEMMA ToyKept ==
    ASSUME Shape, Kept, LoseToToy \/ LoseToHost \/ ToyTakes \/ ToySpeaks \/ ToyAsks \/ ToyRestarts
    PROVE  Kept'
<1>1. /\ toToy \in Seq(Messages) /\ toy.bank \subseteq Bank /\ (~Removing => toy.at # "remove")
      /\ (~Removing /\ 0 \in toy.bank => toy.bank = Bank)
  BY NoRemover, ToyIs DEF Shape, TypeOK, Kept
<1>2. ASSUME UNCHANGED <<runs, host, queue>>, On(toToy') \subseteq On(toToy), toy'.bank = toy.bank,
             \/ toHost' = toHost
             \/ \E a \in Messages : Says(a) /\ (a.type = "TPR1" => a.detail \notin {1, 2})
      PROVE  Kept'
  <2>1. \A m \in Incoming' : m.type = "TPR1" /\ m.detail \in {1, 2} => m \in Incoming
    <3>1. CASE toHost' = toHost
      BY <1>2, <3>1 DEF Incoming
    <3>2. CASE \E a \in Messages : Says(a) /\ (a.type = "TPR1" => a.detail \notin {1, 2})
      <4>1. PICK a \in Messages : Says(a) /\ (a.type = "TPR1" => a.detail \notin {1, 2})
        BY <3>2
      <4>2. Incoming' = Incoming \cup {a}
        BY <1>2, <4>1, ToldIs DEF Says
      <4> QED
        BY <4>1, <4>2
    <3> QED
      BY <1>2, <3>1, <3>2
  <2> QED
    BY <1>1, <1>2, <2>1, ToyKeeps
<1>3. CASE LoseToToy
  <2>1. UNCHANGED <<runs, host, queue, toHost, toy>> /\ toToy' = Tail(toToy) /\ toToy # <<>>
    BY <1>3 DEF LoseToToy
  <2> QED
    BY <1>1, <1>2, <2>1, Taken
<1>4. CASE LoseToHost
  <2>1. UNCHANGED <<runs, host, toToy, toy>> /\ Incoming' \subseteq Incoming \cup {Noise} /\ Noise.type = "noise"
    BY <1>4, LoseToHostIs DEF LoseToHost
  <2> QED
    BY <1>1, <2>1, ToyKeeps
<1>5. CASE ToyTakes
  <2>1. PICK m : m = Head(toToy)
    OBVIOUS
  <2>2. /\ m \in Messages /\ m \in On(toToy) /\ Sendable(m) /\ toToy # <<>> /\ toToy' = Tail(toToy)
        /\ UNCHANGED <<runs, host, queue, reading, late>>
        /\ \/ UNCHANGED <<toy, toHost>> \/ GivesUp
           \/ Invited(m) \/ TakesTheRecord(m) \/ AnswersTheRecord(m) \/ Writes(m) \/ Clears(m)
    BY <1>5, <2>1, ToyTakesIs
  <2>3. On(toToy') \subseteq On(toToy)
    BY <1>1, <2>2, Taken
  <2>4. Line("ACK") \in Messages /\ Line("NAK") \in Messages /\ Line("ACK").type = "ACK" /\ Line("NAK").type = "NAK"
    BY WordsAre
  <2>5. CASE UNCHANGED <<toy, toHost>>
    BY <1>2, <2>2, <2>3, <2>5
  <2>6. CASE GivesUp
    <3>1. FAILED \notin {1, 2}
      BY DEF FAILED
    <3> QED
      BY <1>2, <2>2, <2>3, <2>6, <3>1 DEF GivesUp, Becomes
  <2>7. CASE Invited(m)
    BY <1>2, <2>2, <2>3, <2>4, <2>7 DEF Invited, Becomes
  <2>8. CASE TakesTheRecord(m)
    BY <1>2, <2>2, <2>3, <2>4, <2>8 DEF TakesTheRecord, Becomes
  <2>9. CASE AnswersTheRecord(m)
    <3>1. \E a \in Messages : Says(a) /\ a.type # "TPR1"
      BY <2>4, <2>9 DEF AnswersTheRecord
    <3> QED
      BY <1>2, <2>2, <2>3, <2>9, <3>1 DEF AnswersTheRecord, Stays, Becomes
  <2>10. CASE Writes(m)
    <3>1. PICK a \in Messages :
            /\ a.type = "TPR1" /\ Says(a)
            /\ \/ /\ m.type \in {"header", "sector"} /\ a.detail = 0
                  /\ \E step \in Steps \ {"erase"} :
                        Becomes(toy.at, step, toy.download, toy.need, toy.sequence, toy.bank)
               \/ /\ m.type = "sector" /\ a.detail = 2 /\ a.n = m.n /\ Sector(m.n) \in toy.bank
                  /\ \E step \in Steps \ {"erase"} :
                        Becomes(toy.at, step, toy.download, toy.need, toy.sequence, toy.bank)
               \/ /\ m.type = "data" /\ a.detail = 1 /\ a.n = m.n
                  /\ \E step \in Steps \ {"erase"} :
                        Becomes(toy.at, step, toy.download, toy.need, toy.sequence, toy.bank \cup {Sector(m.n)})
      BY <2>10 DEF Writes
    <3>2. Incoming' = Incoming \cup {a}
      BY <2>2, <3>1, ToldIs DEF Says
    <3>3. CASE a.detail = 0 /\ toy'.bank = toy.bank
      <4>1. a.detail \notin {1, 2}
        BY <3>3
      <4> QED
        BY <1>2, <2>2, <2>3, <3>1, <3>3, <4>1
    <3>4. CASE a.n = m.n /\ Sector(m.n) \in toy.bank /\ toy'.bank = toy.bank
      BY <1>1, <2>2, <2>3, <3>2, <3>4, ToyKeeps
    <3>5. CASE m.type = "data" /\ a.n = m.n /\ toy'.bank = toy.bank \cup {Sector(m.n)}
      <4>1. m.n \in 0..SECTORS - 1
        BY <2>2, <3>5 DEF Sendable
      <4>2. toy'.bank \subseteq Bank
        BY <1>1, <3>5, <4>1, SectorsAre
      <4>3. ASSUME ~Removing, 0 \in toy'.bank
            PROVE  toy'.bank = Bank
        <5>1. CASE 0 \in toy.bank
          BY <1>1, <3>5, <4>2, <4>3, <5>1
        <5>2. CASE 0 \notin toy.bank
          <6>1. Sector(m.n) = 0 /\ m.n = SECTORS - 1
            BY <3>5, <4>1, <4>3, <5>2, SectorsAre
          <6>2. Before(m.n)
            BY <2>2, <3>5, <4>3 DEF Kept
          <6>3. \A j \in 0..SECTORS - 1 : j \in 0..m.n - 1 \/ j = m.n
            BY <6>1, InstallAssumption
          <6>4. \A j \in 0..SECTORS - 1 : Sector(j) \in toy'.bank
            BY <3>5, <6>2, <6>3 DEF Before
          <6> QED
            BY <4>2, <6>4, SectorsAre
        <5> QED
          BY <5>1, <5>2
      <4>4. toy.bank \subseteq toy'.bank /\ Sector(a.n) \in toy'.bank
        BY <3>5
      <4> QED
        BY <2>2, <2>3, <3>2, <4>3, <4>4, ToyKeeps
    <3> QED
      BY <3>1, <3>3, <3>4, <3>5 DEF Becomes
  <2>11. CASE Clears(m)
    <3>1. PICK a \in Messages : a.detail = 3 /\ Says(a)
      BY <2>11 DEF Clears
    <3>2. a.detail \notin {1, 2}
      BY <3>1
    <3> QED
      BY <1>2, <2>2, <2>3, <2>11, <3>1, <3>2 DEF Clears, Becomes
  <2> QED
    BY <2>2, <2>5, <2>6, <2>7, <2>8, <2>9, <2>10, <2>11
<1>6. CASE ToySpeaks
  <2>1. UNCHANGED <<runs, host, queue, reading, toToy, late>> /\ (Starts \/ Erases \/ Finishes)
    BY <1>6, ToySpeaksIs
  <2>2. CASE Starts \/ Finishes
    <3>1. toy'.bank = toy.bank /\ \E a \in Messages : a.detail \notin {1, 2} /\ Says(a)
      BY <2>2 DEF Starts, Finishes, Becomes
    <3> QED
      BY <1>2, <2>1, <3>1
  <2>3. CASE Erases
    <3>1. Removing
      BY <1>1, <2>3 DEF Erases
    <3> QED
      BY <2>1, <3>1, ToyKeeps
  <2> QED
    BY <2>1, <2>2, <2>3
<1>7. CASE ToyAsks
  <2>1. UNCHANGED <<runs, host, queue, reading, toToy, late>> /\ AsksBack
    BY <1>7, ToyAsksIs
  <2>2. toy'.bank = toy.bank
    BY <2>1 DEF AsksBack, Stays, Becomes
  <2>3. /\ Line("CAN") \in Messages /\ Line("CAN").type = "CAN"
        /\ Line("ECHO REQ") \in Messages /\ Line("ECHO REQ").type = "ECHO REQ"
    BY WordsAre
  <2>4. \E a \in Messages : Says(a) /\ a.type # "TPR1"
    BY <2>1, <2>3 DEF AsksBack
  <2> QED
    BY <1>2, <2>1, <2>2, <2>4
<1>8. CASE ToyRestarts
  <2>1. UNCHANGED <<runs, host, queue, reading, toToy, late>> /\ Restarts
    BY <1>8, ToyRestartsIs
  <2> QED
    BY <1>2, <2>1 DEF Restarts, Becomes
<1> QED
  BY <1>3, <1>4, <1>5, <1>6, <1>7, <1>8

\* What was confirmed stays.
LEMMA ConfirmedKept ==
    ASSUME Shape, Kept, [Next]_vars
    PROVE  Kept'
<1>1. ASSUME UNCHANGED vars
      PROVE  Kept'
  <2>1. UNCHANGED <<runs, toy, host, queue, toHost, toToy>>
    BY <1>1 DEF vars
  <2>2. Incoming' = Incoming /\ On(toToy') = On(toToy)
    BY <2>1 DEF Incoming
  <2>3. ~Removing => (0 \in toy.bank => toy.bank = Bank)
    BY DEF Kept
  <2> QED
    BY <2>1, <2>2, <2>3, ToyKeeps
<1>2. ASSUME NEW operation \in Operations, Start(operation)
      PROVE  Kept'
  <2>1. /\ UNCHANGED <<queue, toToy, toHost, toy>> /\ host'.pc = "load" /\ (Removing => Removing')
    BY <1>2, StartIs DEF Start
  <2>2. Incoming' = Incoming /\ On(toToy') = On(toToy)
    BY <2>1 DEF Incoming
  <2>3. \A n : Before(n) => Before(n)'
    BY <2>1 DEF Before
  <2> QED
    BY <2>1, <2>2, <2>3 DEF Kept
<1> QED
  BY <1>1, <1>2, HostKept, ToyKept DEF Next

-----------------------------------------------------------------------------
(* Host and toy stay in step                                                *)

\* An answer is somewhere, a question is on the line.
LEMMA AnsweredIs ==
    /\ Answered <=> \E m \in Incoming : m.type \in Answers
    /\ Answered' <=> \E m \in Incoming' : m.type \in Answers
    /\ Asked <=> \E m \in On(toToy) : m.type \in Asks
    /\ Asked' <=> \E m \in On(toToy') : m.type \in Asks
BY DEF Answered, Asked, Some, Incoming

\* Where none is of the first types, none is before one of the second.
LEMMA NoneBefore ==
    ASSUME NEW second
    PROVE  /\ ~Answered => NeverIn(Answers, second)
           /\ ~Answered' => NeverIn(Answers, second)'
           /\ ~Asked => Never(toToy, Asks, second)
           /\ ~Asked' => Never(toToy', Asks, second)
<1>1. ASSUME NEW s, NEW first, ~Some(s, first)
      PROVE  Never(s, first, second)
  BY <1>1 DEF Never, Some, On
<1> QED
  BY <1>1 DEF Answered, Asked, NeverIn

\* No type is of two kinds.
LEMMA KindsAre ==
    /\ Asks \cap Commands = {} /\ Asks \cap Answers = {} /\ "data" \in Commands /\ "data" \notin Asks
    /\ "TPR1" \notin Answers /\ "noise" \notin Answers \cup {"TPR1"} /\ "ECHO REP" \notin Asks \cup Commands
    /\ {"CAN", "ECHO REQ"} \cap (Answers \cup {"TPR1"}) = {}
    /\ {"pkt", "record"} \cap (Helping \cup Ended \cup {"load"}) = {} /\ Helping \cap (Ended \cup {"load"}) = {}
    /\ {"sector", "verify", "erase", "final"} \subseteq Helping
BY DEF Asks, Commands, Answers, Helping, Music, Remove, Ended

\* Less on the way, or what does not matter: nothing changes between the two.
LEMMA StaysInStep ==
    ASSUME Together, UNCHANGED <<runs, host>>,
           toy'.download = toy.download, toy'.need = toy.need, toy'.bank = toy.bank,
           toy'.at = "menu" \/ (toy'.at = toy.at /\ toy'.step = toy.step),
           \A m \in Incoming' : m \in Incoming \/ m.type \notin Answers \cup {"TPR1"},
           \A m \in On(toToy') : m \in On(toToy) \/ m.type \notin Asks \cup Commands,
           Never(toToy, Asks, Asks \cup Commands) => Never(toToy', Asks, Asks \cup Commands),
           NeverIn(Answers, Answers) => NeverIn(Answers, Answers)',
           NeverIn(Answers, {"TPR1"}) => NeverIn(Answers, {"TPR1"})'
    PROVE  Together'
<1>1. Operation' = Operation /\ Len(runs') = Len(runs) /\ (Answered' => Answered) /\ (Asked' => Asked)
  BY AnsweredIs DEF Operation
<1>2. \A n : Before(n)' <=> Before(n)
  BY DEF Before
<1>3. Before(host.sequence)' <=> Before(host.sequence)
  BY DEF Before
<1>4. Some(toToy', Commands) => Some(toToy, Commands)
  BY DEF Some
<1>5. OneAtATime'
  BY <1>1 DEF Together, OneAtATime
<1>6. Inviting'
  BY <1>1, <1>4 DEF Together, Inviting
<1>7. Sending'
  BY <1>4, KindsAre DEF Together, Sending, Answers
<1>8. Helped'
  BY <1>1, <1>2, <1>3 DEF Together, Helped
<1>9. InOrder'
  BY <1>2, KindsAre DEF Together, InOrder
<1> QED
  BY <1>5, <1>6, <1>7, <1>8, <1>9 DEF Together

\* A helper says something that confirms nothing.
LEMMA HelperInStep ==
    ASSUME Shape, Together, UNCHANGED <<runs, host, queue>>, toy.at \in {"music", "remove"},
           NEW step, Becomes(toy.at, step, toy.download, toy.need, toy'.sequence, toy.bank),
           host.pc = "record" => step \in {"start", "header", "over"},
           On(toToy') \subseteq On(toToy),
           Never(toToy, Asks, Asks \cup Commands) => Never(toToy', Asks, Asks \cup Commands),
           NEW a \in Messages, a.type = "TPR1", a.detail \notin {1, 2}, Says(a)
    PROVE  Together'
<1>1. /\ Incoming' = Incoming \cup {a} /\ a.type \notin Answers
      /\ \A first, second :
            NeverIn(first, second) /\ (a.type \in second => ~Some(queue, first) /\ ~Some(toHost, first))
               => NeverIn(first, second)'
  BY ToldIs, KindsAre DEF Says
<1>2. Operation' = Operation /\ Len(runs') = Len(runs) /\ (Answered' => Answered) /\ (Asked' => Asked)
  BY <1>1, AnsweredIs DEF Operation
<1>3. \A n : Before(n)' <=> Before(n)
  BY DEF Before, Becomes
<1>4. Before(host.sequence)' <=> Before(host.sequence)
  BY DEF Before, Becomes
<1>5. (Some(toToy', Commands) => Some(toToy, Commands)) /\ (host.pc = "pkt" => ~Answered)
  BY DEF Some, Together, Inviting
<1>6. toy.need = RECORDS
  BY ToyIs
<1>7. OneAtATime'
  BY <1>1, <1>2 DEF Together, OneAtATime
<1>8. Inviting'
  <2>1. host.pc = "pkt" => NeverIn(Answers, {"TPR1"})'
    BY <1>2, <1>5, NoneBefore
  <2> QED
    BY <1>1, <1>2, <1>5, <2>1 DEF Together, Inviting
<1>9. Sending'
  BY <1>1, <1>5, <1>6, KindsAre DEF Together, Sending, Becomes, Answers
<1>10. Helped'
  BY <1>1, <1>2, <1>3, <1>4 DEF Together, Helped, Becomes
<1>11. InOrder'
  BY <1>3 DEF Together, InOrder, Becomes
<1> QED
  BY <1>7, <1>8, <1>9, <1>10, <1>11 DEF Together

\* The host sends a record, all that was asked being answered and read.
LEMMA TransmitInStep ==
    ASSUME Shape, Together, UNCHANGED <<runs, toHost, toy>>, Answered, NEW i \in Nat, i <= toy.need,
           NEW to, Transmitting(to, i), NEW rest, GoesOn(to, rest), ~Answered', Incoming' \subseteq Incoming,
           toy.download = Len(runs), ~Some(toToy, Commands),
           \A m \in Incoming' : m.type = "TPR1" => m.detail \notin {1, 2} /\ toy.need = RECORDS,
           toy.at \in {"music", "remove"} => toy.step \in {"start", "header", "over"}
    PROVE  Together'
<1> DEFINE a == Message("record", i, 0)
<1>1. a \in Messages /\ a.type = "record" /\ to.out = <<a>>
  <2>1. i \in Int
    OBVIOUS
  <2> QED
    BY <2>1, SaysIs DEF Transmitting
<1> HIDE DEF a
<1>2. toToy \in Seq(Messages) /\ ~Asked
  BY DEF Shape, TypeOK, Together, OneAtATime
<1>3. /\ host' = to.host /\ On(toToy') \subseteq On(toToy) \cup {a}
      /\ \A first, second : Never(toToy, first, second) /\ (a.type \in second => ~Some(toToy, first))
            => Never(toToy', first, second)
  BY <1>1, <1>2, GoesOnSaying
<1>4. host'.pc = "record" /\ host'.index = i
  BY <1>3 DEF Transmitting
<1>5. Never(toToy', Asks, Asks \cup Commands)
  BY <1>2, <1>3 DEF Together, OneAtATime, Asked
<1>6. OneAtATime'
  BY <1>4, <1>5, NoneBefore DEF OneAtATime
<1>7. Inviting' /\ Helped'
  BY <1>4, KindsAre DEF Inviting, Helped, Ended
<1>8. Sending'
  <2>1. \A m \in On(toToy') : m.type \in Asks => m = a
    BY <1>2, <1>3, AnsweredIs
  <2>2. ~Some(toToy', Commands)
    BY <1>1, <1>3, KindsAre DEF Some, Asks
  <2>3. \A m \in Incoming' : m.type \notin {"ACK", "ENQ"}
    BY AnsweredIs DEF Answers
  <2> QED
    BY <1>4, <2>1, <2>2, <2>3 DEF Sending, a
<1>9. InOrder'
  <2>1. \A m \in On(toToy') : m.type # "data"
    BY <1>1, <1>3, KindsAre DEF Some
  <2> QED
    BY <2>1 DEF InOrder
<1> QED
  BY <1>6, <1>7, <1>8, <1>9 DEF Together

\* The host goes on with the helper, over what is there or gone.
LEMMA HelpInStep ==
    ASSUME Shape, Together, UNCHANGED <<runs, toHost, toy>>, host.pc \in Helping,
           NEW to, NEW rest, GoesOn(to, rest), Incoming' \subseteq Incoming,
           \/ to.out = <<>>
           \/ \E a \in Messages :
                 to.out = <<a>> /\ a.type \notin Asks /\ (a.type = "data" => toy.at # "remove" /\ Before(a.n)),
           \/ to.host.pc = "failed"
           \/ /\ to.host.pc \in Helping \cup {"done"} /\ to.host.index = host.index
              /\ to.host.pc \in {"sector", "verify"} => Before(to.host.sequence)
              /\ to.host.pc = "erase" => \A j \in 0..to.host.sequence - 1 : j \notin toy.bank
              /\ to.host.pc \in {"final", "done"} =>
                    /\ Operation = "music" => Before(SECTORS)
                    /\ Operation = "remove" => toy.bank = {}
    PROVE  Together'
<1>1. toToy \in Seq(Messages) /\ ~Asked /\ ~Answered
  BY KindsAre DEF Shape, TypeOK, Together, OneAtATime
<1>2. host' = to.host /\ ~Answered' /\ Operation' = Operation
  BY <1>1, AnsweredIs DEF GoesOn, Operation
<1>3. /\ \A m \in On(toToy') : /\ m.type \notin Asks
                               /\ m.type = "data" => toy.at # "remove" /\ Before(m.n)
  <2>1. \A m \in On(toToy) : m.type \notin Asks /\ (m.type = "data" => toy.at # "remove" /\ Before(m.n))
    BY <1>1, AnsweredIs DEF Together, InOrder
  <2>2. CASE to.out = <<>>
    BY <1>1, <2>1, <2>2, GoesOnSilent
  <2>3. CASE \E a \in Messages :
                to.out = <<a>> /\ a.type \notin Asks /\ (a.type = "data" => toy.at # "remove" /\ Before(a.n))
    <3>1. PICK a \in Messages :
             to.out = <<a>> /\ a.type \notin Asks /\ (a.type = "data" => toy.at # "remove" /\ Before(a.n))
      BY <2>3
    <3>2. On(toToy') \subseteq On(toToy) \cup {a}
      BY <1>1, <3>1, GoesOnSaying
    <3> QED
      BY <2>1, <3>1, <3>2
  <2> QED
    BY <2>2, <2>3
<1>4. ~Asked'
  BY <1>3, AnsweredIs
<1>5. \A n : Before(n)' <=> Before(n)
  BY DEF Before
<1>6. host'.pc \notin {"pkt", "record"}
  BY <1>2, KindsAre DEF Ended
<1>7. OneAtATime'
  BY <1>2, <1>4, <1>6, NoneBefore DEF OneAtATime
<1>8. Inviting' /\ Sending'
  BY <1>6 DEF Inviting, Sending
<1>9. InOrder'
  BY <1>3, <1>5 DEF InOrder
<1>10. Helped'
  <2>1. CASE to.host.pc = "failed"
    BY <1>2, <2>1, KindsAre DEF Helped, Ended
  <2>2. CASE /\ to.host.pc \in Helping \cup {"done"} /\ to.host.index = host.index
             /\ to.host.pc \in {"sector", "verify"} => Before(to.host.sequence)
             /\ to.host.pc = "erase" => \A j \in 0..to.host.sequence - 1 : j \notin toy.bank
             /\ to.host.pc \in {"final", "done"} =>
                   /\ Operation = "music" => Before(SECTORS)
                   /\ Operation = "remove" => toy.bank = {}
    <3>1. /\ toy.download = Len(runs) /\ toy.need = RECORDS /\ host.index = RECORDS
          /\ \A m \in Incoming : m.type = "TPR1" /\ m.detail \in {1, 2} =>
                /\ Operation = "music" => Sector(m.n) \in toy.bank
                /\ Operation = "remove" => m.n \notin toy.bank
      BY DEF Together, Helped
    <3>2. host'.pc \in {"sector", "verify"} => Before(host.sequence)'
      BY <1>2, <2>2 DEF Before
    <3> QED
      BY <1>2, <1>5, <2>2, <3>1, <3>2 DEF Helped
  <2> QED
    BY <2>1, <2>2
<1> QED
  BY <1>7, <1>8, <1>9, <1>10 DEF Together

\* What is left of the buffer is in the same order.
LEMMA RestInOrder ==
    ASSUME Shape, NEW k \in 1..Len(queue), queue' = SubSeq(queue, k + 1, Len(queue)), toHost' = toHost,
           NEW first, NEW second
    PROVE  NeverIn(first, second) => NeverIn(first, second)'
<1> DEFINE rest == SubSeq(queue, k + 1, Len(queue))
<1>1. queue \in Seq(Messages) /\ k \in 0..Len(queue)
  BY DEF Shape, TypeOK
<1>2. On(rest) \subseteq On(queue) /\ (Never(queue, first, second) => Never(rest, first, second))
  BY <1>1, PartsInOrder
<1> HIDE DEF rest
<1>3. queue' = rest
  BY DEF rest
<1> QED
  BY <1>2, <1>3 DEF NeverIn, Some

\* After the answer that is read there is no other, and after an invitation's no frame.
LEMMA AnswerIsRead ==
    ASSUME Shape, Together, queue # <<>>, Head(queue).type \in Answers, toHost' = toHost,
           queue' = <<>> \/ queue' = Tail(queue)
    PROVE  /\ Answered /\ ~Answered' /\ ~Asked /\ host.pc \in {"pkt", "record"}
           /\ host.pc = "pkt" => \A m \in Incoming' : m.type # "TPR1"
<1>1. queue \in Seq(Messages)
  BY DEF Shape, TypeOK
<1>2. /\ Head(queue) \in On(queue)
      /\ \A second : Never(queue, Answers, second) => ~Some(Tail(queue), second)
  BY <1>1, Taken
<1>3. \A second : NeverIn(Answers, second) => ~Some(queue', second) /\ ~Some(toHost', second)
  <2> TAKE second
  <2>1. Some(queue, Answers)
    BY <1>2 DEF Some
  <2>2. ~Some(<<>>, second)
    BY Nothing
  <2> QED
    BY <1>2, <2>1, <2>2 DEF NeverIn
<1>4. Answered
  BY <1>2 DEF Answered, Some
<1>5. ~Answered'
  BY <1>3 DEF Together, OneAtATime, Answered
<1>6. host.pc = "pkt" => \A m \in Incoming' : m.type # "TPR1"
  BY <1>3 DEF Together, Inviting, Incoming, Some
<1> QED
  BY <1>4, <1>5, <1>6 DEF Together, OneAtATime

\* Whoever reads a line stays in step.
LEMMA LineInStep ==
    ASSUME Shape, Together, TakeLine, ~late'
    PROVE  Together'
<1>1. /\ UNCHANGED <<runs, toHost, toy>> /\ host.pc \in {"pkt", "record"} /\ Incoming' \subseteq Incoming
      /\ toToy \in Seq(Messages) /\ queue \in Seq(Messages) /\ host \in Hosts /\ toy.need \in Nat /\ RECORDS \in Nat \ {0}
  BY DialogueShape, ToyIs DEF TakeLine, Shape, TypeOK
<1>2. PICK to, rest :
         /\ GoesOn(to, rest) /\ runs # <<>>
         /\ \E k \in 1..Len(queue) : rest = SubSeq(queue, k + 1, Len(queue))
         /\ \/ /\ IsLine(Head(queue)) /\ Head(queue) \in Incoming
               /\ to = OnLine(host, Head(queue)) /\ rest = Tail(queue)
            \/ to.host = host /\ to.out = <<>>
         /\ ~Broken(to)
  BY TakeLineIs
<1>3. host.pc \notin Ended /\ queue # <<>>
  BY <1>1, KindsAre DEF TakeLine
<1>4. ASSUME to.host = host
      PROVE  \A first, second : NeverIn(first, second) => NeverIn(first, second)'
  <2>1. PICK k \in 1..Len(queue) : rest = SubSeq(queue, k + 1, Len(queue))
    BY <1>2
  <2>2. queue' = SubSeq(queue, k + 1, Len(queue))
    BY <1>2, <1>3, <1>4, <2>1 DEF GoesOn
  <2> QED
    BY <1>1, <2>1, <2>2, RestInOrder
<1>5. CASE to.host = host /\ to.out = <<>>
  <2>1. host' = host /\ toToy' = toToy
    BY <1>1, <1>2, <1>5, GoesOnSilent
  <2> QED
    BY <1>1, <1>4, <1>5, <2>1, StaysInStep
<1>6. CASE IsLine(Head(queue)) /\ Head(queue) \in Incoming /\ to = OnLine(host, Head(queue)) /\ rest = Tail(queue)
  <2>1. PICK m : m = Head(queue)
    OBVIOUS
  <2>2. m \in Incoming /\ IsLine(m) /\ to = OnLine(host, m)
    BY <1>6, <2>1
  <2>3. \/ m.type = "ECHO REQ" /\ to.host = host /\ to.out = <<Line("ECHO REP")>>
        \/ host.pc = "pkt" /\ m.type \in {"NAK", "ENQ"}
        \/ host.pc = "pkt" /\ m.type = "ACK" /\ Transmitting(to, 0)
        \/ /\ host.pc = "record" /\ m.type = "ACK" /\ host.index + 1 = RECORDS
           /\ to.host \in Hosts /\ to.host.index = RECORDS /\ to.out = <<>>
           /\ to.host.pc = IF Operation = "game" THEN "done" ELSE "ready"
        \/ /\ host.pc = "record" /\ m.type = "ACK" /\ host.index + 1 < RECORDS
           /\ Transmitting(to, host.index + 1)
        \/ host.pc = "record" /\ m.type = "NAK" /\ Transmitting(to, host.index)
        \/ host.pc = "record" /\ m.type = "ENQ" /\ m.n < RECORDS /\ Transmitting(to, m.n)
    <3> DEFINE answer == OnLine(host, m)
    <3>1. \/ m.type = "ECHO REQ" /\ answer.host = host /\ answer.out = <<Line("ECHO REP")>>
          \/ Broken(answer)
          \/ host.pc = "pkt" /\ m.type \in {"NAK", "ENQ"} /\ Inquiring(answer)
          \/ host.pc = "pkt" /\ m.type = "ACK" /\ Transmitting(answer, 0)
          \/ /\ host.pc = "record" /\ m.type = "ACK" /\ host.index + 1 = RECORDS
             /\ answer.host \in Hosts /\ answer.host.index = RECORDS /\ answer.out = <<>>
             /\ answer.host.pc = IF Operation = "game" THEN "done" ELSE "ready"
          \/ /\ host.pc = "record" /\ m.type = "ACK" /\ host.index + 1 < RECORDS
             /\ Transmitting(answer, host.index + 1)
          \/ host.pc = "record" /\ m.type = "NAK" /\ Transmitting(answer, host.index)
          \/ host.pc = "record" /\ m.type = "ENQ" /\ m.n < RECORDS /\ Transmitting(answer, m.n)
      BY <1>1, <2>2, OnLineIs
    <3> HIDE DEF answer
    <3>2. to = answer
      BY <2>2 DEF answer
    <3> QED
      BY <1>2, <3>1, <3>2
  <2>4. CASE m.type = "ECHO REQ" /\ to.host = host /\ to.out = <<Line("ECHO REP")>>
    <3>1. PICK a \in Messages : a = Line("ECHO REP") /\ a.type = "ECHO REP"
      BY LineIs, TypesAre
    <3>2. /\ host' = to.host /\ On(toToy') \subseteq On(toToy) \cup {a} /\ a.type \notin Asks \cup Commands
          /\ \A first, second : Never(toToy, first, second) /\ (a.type \in second => ~Some(toToy, first))
                => Never(toToy', first, second)
      <4>1. to.out = <<a>>
        BY <2>4, <3>1
      <4> QED
        BY <1>1, <1>2, <3>1, <4>1, GoesOnSaying, KindsAre
    <3> QED
      BY <1>1, <1>4, <2>4, <3>2, StaysInStep
  <2>5. ASSUME m.type \in Answers
        PROVE  /\ Answered /\ ~Answered' /\ ~Asked
               /\ host.pc = "pkt" => \A x \in Incoming' : x.type # "TPR1"
    <3>1. queue' = <<>> \/ queue' = Tail(queue)
      BY <1>2, <1>6 DEF GoesOn
    <3> QED
      BY <1>1, <1>3, <2>1, <2>5, <3>1, AnswerIsRead
  <2>6. {"ACK", "NAK", "ENQ"} \subseteq Answers
    BY DEF Answers
  <2>7. CASE host.pc = "pkt" /\ m.type \in {"NAK", "ENQ"}
    BY <2>2, <2>5, <2>6, <2>7 DEF Together, Inviting
  <2>8. CASE host.pc = "pkt" /\ m.type = "ACK" /\ Transmitting(to, 0)
    <3>1. /\ toy.download = Len(runs) /\ 0 <= toy.need /\ ~Some(toToy, Commands) /\ toy.at \notin {"music", "remove"}
      BY <1>1, <2>5, <2>6, <2>8 DEF Together, Inviting
    <3> QED
      BY <1>1, <1>2, <2>5, <2>6, <2>8, <3>1, TransmitInStep
  <2>9. ASSUME host.pc = "record"
        PROVE  /\ toy.download = Len(runs) /\ host.index <= toy.need /\ ~Some(toToy, Commands)
               /\ \A x \in Incoming : /\ x.type = "ACK" => host.index < toy.need
                                      /\ x.type = "ENQ" => x.n <= toy.need
                                      /\ x.type = "TPR1" => x.detail \notin {1, 2} /\ toy.need = RECORDS
               /\ toy.at \in {"music", "remove"} => toy.step \in {"start", "header", "over"}
    BY <2>9 DEF Together, Sending
  <2>10. ASSUME host.pc = "record", m.type \in Answers, NEW i \in Nat, i <= toy.need, Transmitting(to, i)
         PROVE  Together'
    <3>1. \A x \in Incoming' : x.type = "TPR1" => x.detail \notin {1, 2} /\ toy.need = RECORDS
      BY <1>1, <2>9, <2>10
    <3> QED
      BY <1>1, <1>2, <2>5, <2>9, <2>10, <3>1, TransmitInStep
  <2>11. host.index \in Nat /\ (m.type = "ENQ" => m.n \in Nat)
    <3>1. m.type = "ENQ" => m.n \in 0..RECORDS - 1
      BY <2>2 DEF Shape, Sent, Readable
    <3>2. host.index \in Nat
      BY <1>1 DEF Hosts
    <3> QED
      BY <1>1, <3>1, <3>2
  <2>12. CASE host.pc = "record" /\ m.type = "ACK" /\ host.index + 1 < RECORDS /\ Transmitting(to, host.index + 1)
    <3>1. host.index + 1 \in Nat /\ host.index + 1 <= toy.need
      BY <1>1, <2>2, <2>9, <2>11, <2>12
    <3> QED
      BY <2>6, <2>10, <2>12, <3>1
  <2>13. CASE host.pc = "record" /\ m.type = "NAK" /\ Transmitting(to, host.index)
    BY <2>6, <2>9, <2>10, <2>11, <2>13
  <2>14. CASE host.pc = "record" /\ m.type = "ENQ" /\ m.n < RECORDS /\ Transmitting(to, m.n)
    BY <2>2, <2>6, <2>9, <2>10, <2>11, <2>14
  <2>15. CASE /\ host.pc = "record" /\ m.type = "ACK" /\ host.index + 1 = RECORDS
              /\ to.host \in Hosts /\ to.host.index = RECORDS /\ to.out = <<>>
              /\ to.host.pc = IF Operation = "game" THEN "done" ELSE "ready"
    <3>1. host' = to.host /\ toToy' = toToy /\ Operation' = Operation
      BY <1>1, <1>2, <2>15, GoesOnSilent DEF Operation
    <3>2. ~Answered' /\ ~Asked' /\ host'.pc \in {"done", "ready"}
      BY <2>5, <2>6, <2>15, <3>1 DEF Asked
    <3>3. toy.need = RECORDS
      <4>1. host.index < toy.need /\ toy.need \in 0..RECORDS
        BY <2>2, <2>9, <2>15, ToyIs
      <4> QED
        BY <1>1, <2>11, <2>15, <4>1
    <3>4. OneAtATime'
      BY <3>2, NoneBefore DEF OneAtATime
    <3>5. Inviting' /\ Sending'
      BY <3>2 DEF Inviting, Sending
    <3>6. Helped'
      <4>1. \A x \in Incoming' : x.type = "TPR1" => x.detail \notin {1, 2}
        BY <1>1, <2>9, <2>15
      <4>2. host'.pc = "done" => Operation' = "game"
        BY <2>15, <3>1
      <4>3. host'.pc \notin {"sector", "verify", "erase", "final"}
        BY <3>2
      <4> QED
        BY <1>1, <2>9, <2>15, <3>1, <3>3, <4>1, <4>2, <4>3 DEF Helped
    <3>7. InOrder'
      BY <1>1, <3>1 DEF Together, InOrder, Before
    <3> QED
      BY <3>4, <3>5, <3>6, <3>7 DEF Together
  <2> QED
    BY <2>3, <2>4, <2>7, <2>8, <2>12, <2>13, <2>14, <2>15
<1> QED
  BY <1>2, <1>5, <1>6

\* So does whoever reads a frame.
LEMMA FrameInStep ==
    ASSUME Shape, Together, TakeFrame, ~late'
    PROVE  Together'
<1>1. /\ UNCHANGED <<runs, toHost, toy>> /\ Incoming' \subseteq Incoming
      /\ host \in Hosts /\ host.sequence \in Nat /\ SECTORS \in Nat \ {0} /\ toy.bank \subseteq Bank
  BY DialogueShape, ToyIs DEF TakeFrame, Shape, TypeOK, Hosts
<1>2. PICK to, rest :
         /\ GoesOn(to, rest) /\ runs # <<>> /\ host.pc \in Helping
         /\ \/ \E m \in Incoming : ~IsLine(m) /\ to = OnFrame(host, m)
            \/ to.host = host /\ to.out = <<>>
  BY TakeFrameIs
<1>3. /\ toy.download = Len(runs)
      /\ \A m \in Incoming : m.type = "TPR1" /\ m.detail \in {1, 2} =>
            /\ Operation = "music" => Sector(m.n) \in toy.bank
            /\ Operation = "remove" => m.n \notin toy.bank
      /\ host.pc \in {"sector", "verify"} => Before(host.sequence)
      /\ host.pc = "erase" => \A j \in 0..host.sequence - 1 : j \notin toy.bank
      /\ host.pc = "final" =>
            /\ Operation = "music" => Before(SECTORS)
            /\ Operation = "remove" => toy.bank = {}
  BY <1>2 DEF Together, Helped
<1>4. /\ host.pc \in Music => Operation = "music"
      /\ host.pc \in Remove => Operation = "remove"
      /\ "music" # "remove" /\ {"sector", "verify"} \subseteq Music /\ "erase" \in Remove
  BY DEF Shape, HostPlaced, Placed, Music, Remove
<1>5. CASE to.host = host /\ to.out = <<>>
  <2>1. /\ host.pc \in Helping \cup {"done"} /\ (host.pc \in {"final", "done"} => host.pc = "final")
    BY <1>2, KindsAre DEF Ended
  <2> QED
    BY <1>1, <1>2, <1>3, <1>5, <2>1, HelpInStep
<1>6. CASE \E m \in Incoming : ~IsLine(m) /\ to = OnFrame(host, m)
  <2>1. PICK m \in Incoming : ~IsLine(m) /\ to = OnFrame(host, m)
    BY <1>6
  <2>2. \/ Broken(to)
        \/ Reaching(to, "header", <<Line("header")>>)
        \/ Reaching(to, "confirm", <<Line("clear")>>)
        \/ to.host.sequence = 0 /\ Reaching(to, "sector", <<Message("sector", 0, 0)>>)
        \/ /\ host.pc = "sector" /\ to.host.sequence = host.sequence
           /\ Reaching(to, "verify", <<Message("data", host.sequence, 0)>>)
        \/ /\ host.pc \in {"sector", "verify"} /\ m.detail \in {1, 2} /\ m.n = host.sequence
           /\ \/ host.sequence + 1 = SECTORS /\ Reaching(to, "final", <<>>)
              \/ /\ to.host.sequence = host.sequence + 1
                 /\ Reaching(to, "sector", <<Message("sector", host.sequence + 1, 0)>>)
        \/ to.host.sequence = 0 /\ Reaching(to, "erase", <<>>)
        \/ /\ host.pc = "erase" /\ m.detail \in {1, 2} /\ m.n = host.sequence
           /\ \/ host.sequence + 1 = SECTORS /\ Reaching(to, "final", <<>>)
              \/ /\ to.host.sequence = host.sequence + 1
                 /\ Reaching(to, "erase", <<>>)
        \/ host.pc = "final" /\ Reaching(to, "done", <<>>)
    BY <1>1, <1>2, <2>1, OnFrameIs
  <2>3. ASSUME NEW pc \in Helping \cup {"done"}, NEW out, Reaching(to, pc, out)
        PROVE  to.host.pc \in Helping \cup {"done"} /\ to.host.index = host.index /\ to.out = out /\ to.host.pc = pc
    BY <2>3 DEF Reaching
  <2>4. {"header", "sector", "verify", "confirm", "erase", "final"} \subseteq Helping
    BY DEF Helping, Music, Remove
  <2>5. ASSUME NEW type \in {"header", "clear"}, to.out = <<Line(type)>>
        PROVE  \E a \in Messages :
                  to.out = <<a>> /\ a.type \notin Asks /\ (a.type = "data" => toy.at # "remove" /\ Before(a.n))
    BY <2>5, LineIs, TypesAre DEF Asks
  <2>6. ASSUME NEW n \in Int, to.out = <<Message("sector", n, 0)>>
        PROVE  \E a \in Messages :
                  to.out = <<a>> /\ a.type \notin Asks /\ (a.type = "data" => toy.at # "remove" /\ Before(a.n))
    BY <2>6, SaysIs DEF Asks
  <2>7. ASSUME m.detail \in {1, 2}
        PROVE  m.type = "TPR1"
    <3>1. Readable(m)
      BY DEF Shape, Sent
    <3>2. Noise.detail = 0
      BY DEF Noise, Line, Message
    <3>3. m.type = "noise" => m.detail = 0
      BY <3>1, <3>2 DEF Readable
    <3>4. m.detail # 0
      BY <2>7
    <3>5. m.type \in Answers \cup {"CAN", "ECHO REQ"} => IsLine(m)
      BY DEF IsLine, Answers
    <3> QED
      BY <2>1, <3>1, <3>3, <3>4, <3>5 DEF Readable
  <2>8. CASE Broken(to)
    BY <1>1, <1>2, <2>8, HelpInStep DEF Broken
  <2>9. CASE Reaching(to, "header", <<Line("header")>>) \/ Reaching(to, "confirm", <<Line("clear")>>)
    <3>1. to.host.pc \in {"header", "confirm"} /\ to.host.index = host.index /\ to.host.pc \in Helping
      BY <2>4, <2>9 DEF Reaching
    <3>2. \E a \in Messages :
             to.out = <<a>> /\ a.type \notin Asks /\ (a.type = "data" => toy.at # "remove" /\ Before(a.n))
      BY <2>5, <2>9 DEF Reaching
    <3> QED
      BY <1>1, <1>2, <3>1, <3>2, HelpInStep
  <2>10. CASE to.host.sequence = 0 /\ Reaching(to, "sector", <<Message("sector", 0, 0)>>)
    <3>1. to.host.pc = "sector" /\ to.host.index = host.index /\ to.out = <<Message("sector", 0, 0)>>
      BY <2>10 DEF Reaching
    <3>2. Before(to.host.sequence)
      BY <2>10 DEF Before
    <3>3. \E a \in Messages :
             to.out = <<a>> /\ a.type \notin Asks /\ (a.type = "data" => toy.at # "remove" /\ Before(a.n))
      BY <2>6, <3>1
    <3> QED
      BY <1>1, <1>2, <2>4, <3>1, <3>2, <3>3, HelpInStep
  <2>11. CASE /\ host.pc = "sector" /\ to.host.sequence = host.sequence
              /\ Reaching(to, "verify", <<Message("data", host.sequence, 0)>>)
    <3>1. to.host.pc = "verify" /\ to.host.index = host.index /\ to.out = <<Message("data", host.sequence, 0)>>
      BY <2>11 DEF Reaching
    <3>2. toy.at # "remove"
      <4>1. Kind = "music"
        BY <1>3, <1>4, <2>11 DEF Kind, Operation
      <4> QED
        BY <1>4, <4>1, ToyIs
    <3>3. Before(host.sequence)
      BY <1>3, <2>11
    <3>4. host.sequence \in Int
      BY <1>1
    <3>5. \E a \in Messages :
             to.out = <<a>> /\ a.type \notin Asks /\ (a.type = "data" => toy.at # "remove" /\ Before(a.n))
      BY <3>1, <3>2, <3>3, <3>4, SaysIs DEF Asks
    <3> QED
      BY <1>1, <1>2, <2>4, <2>11, <3>1, <3>3, <3>5, HelpInStep
  <2>12. CASE /\ host.pc \in {"sector", "verify"} /\ m.detail \in {1, 2} /\ m.n = host.sequence
              /\ \/ host.sequence + 1 = SECTORS /\ Reaching(to, "final", <<>>)
                 \/ /\ to.host.sequence = host.sequence + 1
                    /\ Reaching(to, "sector", <<Message("sector", host.sequence + 1, 0)>>)
    <3>1. Sector(host.sequence) \in toy.bank /\ Before(host.sequence) /\ Operation = "music"
      BY <1>3, <1>4, <2>7, <2>12
    <3>2. \A j \in 0..(host.sequence + 1) - 1 : j \in 0..host.sequence - 1 \/ j = host.sequence
      BY <1>1
    <3>3. Before(host.sequence + 1)
      BY <3>1, <3>2 DEF Before
    <3>4. CASE host.sequence + 1 = SECTORS /\ Reaching(to, "final", <<>>)
      <4>1. to.host.pc = "final" /\ to.host.index = host.index /\ to.out = <<>> /\ Operation # "remove"
        BY <1>4, <3>1, <3>4 DEF Reaching
      <4> QED
        BY <1>1, <1>2, <2>4, <3>3, <3>4, <4>1, HelpInStep
    <3>5. CASE /\ to.host.sequence = host.sequence + 1
               /\ Reaching(to, "sector", <<Message("sector", host.sequence + 1, 0)>>)
      <4>1. to.host.pc = "sector" /\ to.host.index = host.index /\ to.out = <<Message("sector", host.sequence + 1, 0)>>
        BY <3>5 DEF Reaching
      <4>2. host.sequence + 1 \in Int
        BY <1>1
      <4>3. \E a \in Messages :
               to.out = <<a>> /\ a.type \notin Asks /\ (a.type = "data" => toy.at # "remove" /\ Before(a.n))
        BY <2>6, <4>1, <4>2
      <4> QED
        BY <1>1, <1>2, <2>4, <3>3, <3>5, <4>1, <4>3, HelpInStep
    <3> QED
      BY <2>12, <3>4, <3>5
  <2>13. CASE to.host.sequence = 0 /\ Reaching(to, "erase", <<>>)
    <3>1. to.host.pc = "erase" /\ to.host.index = host.index /\ to.out = <<>>
      BY <2>13 DEF Reaching
    <3>2. \A j \in 0..to.host.sequence - 1 : j \notin toy.bank
      BY <2>13
    <3> QED
      BY <1>1, <1>2, <2>4, <3>1, <3>2, HelpInStep
  <2>14. CASE /\ host.pc = "erase" /\ m.detail \in {1, 2} /\ m.n = host.sequence
              /\ \/ host.sequence + 1 = SECTORS /\ Reaching(to, "final", <<>>)
                 \/ to.host.sequence = host.sequence + 1 /\ Reaching(to, "erase", <<>>)
    <3>1. host.sequence \notin toy.bank /\ Operation = "remove" /\ \A j \in 0..host.sequence - 1 : j \notin toy.bank
      BY <1>3, <1>4, <2>7, <2>14
    <3>2. \A j \in 0..(host.sequence + 1) - 1 : j \in 0..host.sequence - 1 \/ j = host.sequence
      BY <1>1
    <3>3. \A j \in 0..(host.sequence + 1) - 1 : j \notin toy.bank
      BY <3>1, <3>2
    <3>4. CASE host.sequence + 1 = SECTORS /\ Reaching(to, "final", <<>>)
      <4>1. to.host.pc = "final" /\ to.host.index = host.index /\ to.out = <<>> /\ Operation # "music"
        BY <1>4, <3>1, <3>4 DEF Reaching
      <4>2. toy.bank = {}
        BY <1>1, <3>3, <3>4 DEF Bank
      <4> QED
        BY <1>1, <1>2, <2>4, <4>1, <4>2, HelpInStep
    <3>5. CASE to.host.sequence = host.sequence + 1 /\ Reaching(to, "erase", <<>>)
      <4>1. to.host.pc = "erase" /\ to.host.index = host.index /\ to.out = <<>>
        BY <3>5 DEF Reaching
      <4> QED
        BY <1>1, <1>2, <2>4, <3>3, <3>5, <4>1, HelpInStep
    <3> QED
      BY <2>14, <3>4, <3>5
  <2>15. CASE host.pc = "final" /\ Reaching(to, "done", <<>>)
    <3>1. to.host.pc = "done" /\ to.host.index = host.index /\ to.out = <<>>
      BY <2>15 DEF Reaching
    <3> QED
      BY <1>1, <1>2, <1>3, <2>15, <3>1, HelpInStep
  <2> QED
    BY <2>2, <2>8, <2>9, <2>10, <2>11, <2>12, <2>13, <2>14, <2>15
<1> QED
  BY <1>2, <1>5, <1>6

\* An invitation, or a record, is taken: it was the last thing asked, and nothing was answered.
LEMMA QuestionIs ==
    ASSUME Shape, Together, toToy # <<>>, toToy' = Tail(toToy), Head(toToy).type \in Asks, NEW m, m = Head(toToy)
    PROVE  /\ ~Answered /\ ~Asked' /\ ~Some(toToy', Commands) /\ host.pc \in {"pkt", "record"}
           /\ host.pc = "pkt" => m = Message("PKT", Len(runs), 0) /\ m.type = "PKT" /\ m.n = Len(runs)
           /\ host.pc = "record" => m = Message("record", host.index, 0) /\ m.type = "record" /\ m.n = host.index
<1>1. toToy \in Seq(Messages) /\ Len(runs) \in Int /\ host.index \in Int
  BY DEF Shape, TypeOK, Hosts
<1>2. /\ m \in On(toToy) /\ m.type \in Asks
      /\ Never(toToy, Asks, Asks \cup Commands) => ~Some(toToy', Asks \cup Commands)
  BY <1>1, Taken
<1>3. Asked
  BY <1>2, AnsweredIs
<1>4. ~Some(toToy', Asks) /\ ~Some(toToy', Commands)
  BY <1>2 DEF Together, OneAtATime, Some
<1>5. host.pc \in {"pkt", "record"} /\ ~Answered
  BY <1>3 DEF Together, OneAtATime
<1>6. /\ host.pc = "pkt" => m = Message("PKT", Len(runs), 0)
      /\ host.pc = "record" => m = Message("record", host.index, 0)
  BY <1>2 DEF Together, Inviting, Sending
<1>7. /\ Message("PKT", Len(runs), 0).type = "PKT" /\ Message("PKT", Len(runs), 0).n = Len(runs)
      /\ Message("record", host.index, 0).type = "record" /\ Message("record", host.index, 0).n = host.index
  BY <1>1, SaysIs
<1> QED
  BY <1>4, <1>5, <1>6, <1>7 DEF Asked

\* The one who was asked answers.
LEMMA AnswerInStep ==
    ASSUME Shape, Together, UNCHANGED <<runs, host, queue>>, ~Answered, ~Asked', ~Some(toToy', Commands),
           NEW a \in Messages, a.type \in Answers, Says(a),
           toy'.download = Len(runs), host.pc \in {"pkt", "record"},
           host.pc = "pkt" => a.type = "ACK" /\ toy'.at \in {"receiving", "menu"} /\ toy'.need = 0,
           host.pc = "record" =>
              /\ host.index <= toy'.need /\ (a.type = "ACK" => host.index < toy'.need)
              /\ (a.type = "ENQ" => a.n <= toy'.need) /\ (\A x \in Incoming : x.type # "TPR1")
              /\ toy'.at \in {"music", "remove"} => toy'.step \in {"start", "header", "over"}
    PROVE  Together'
<1>1. /\ Incoming' = Incoming \cup {a} /\ a.type # "TPR1" /\ a.type \notin {"TPR1"}
      /\ \A first, second :
            NeverIn(first, second) /\ (a.type \in second => ~Some(queue, first) /\ ~Some(toHost, first))
               => NeverIn(first, second)'
  BY ToldIs, KindsAre DEF Says
<1>2. \A x \in Incoming : x.type \notin Answers
  BY AnsweredIs
<1>3. NeverIn(Answers, Answers)' /\ NeverIn(Answers, {"TPR1"})'
  BY <1>1, NoneBefore DEF Answered
<1>4. OneAtATime'
  BY <1>3, NoneBefore DEF OneAtATime
<1>5. Inviting'
  BY <1>1, <1>2, <1>3, AnsweredIs DEF Inviting
<1>6. Sending'
  <2>1. {"ACK", "ENQ"} \subseteq Answers
    BY DEF Answers
  <2>2. \A x \in On(toToy') : x.type \notin Asks
    BY AnsweredIs
  <2> QED
    BY <1>1, <1>2, <2>1, <2>2 DEF Sending
<1>7. Helped'
  BY KindsAre DEF Helped, Ended
<1>8. InOrder'
  BY KindsAre DEF InOrder, Some
<1> QED
  BY <1>4, <1>5, <1>6, <1>7, <1>8 DEF Together

\* The music bank grows, or is found to be there.
LEMMA WritingInStep ==
    ASSUME Shape, Together, UNCHANGED <<runs, host, queue>>, toToy # <<>>, toToy' = Tail(toToy),
           NEW m, m = Head(toToy), Writes(m)
    PROVE  Together'
<1>1. /\ toToy \in Seq(Messages) /\ toy.at = "music" /\ toy.need = RECORDS /\ toy.at = Kind
  BY ToyIs DEF Writes, Shape, TypeOK
<1>2. PICK a \in Messages :
        /\ a.type = "TPR1" /\ Says(a)
        /\ \/ /\ m.type \in {"header", "sector"} /\ a.detail = 0
              /\ \E step \in Steps \ {"erase"} :
                    Becomes(toy.at, step, toy.download, toy.need, toy.sequence, toy.bank)
           \/ /\ m.type = "sector" /\ a.detail = 2 /\ a.n = m.n /\ Sector(m.n) \in toy.bank
              /\ \E step \in Steps \ {"erase"} :
                    Becomes(toy.at, step, toy.download, toy.need, toy.sequence, toy.bank)
           \/ /\ m.type = "data" /\ a.detail = 1 /\ a.n = m.n
              /\ \E step \in Steps \ {"erase"} :
                    Becomes(toy.at, step, toy.download, toy.need, toy.sequence, toy.bank \cup {Sector(m.n)})
  BY DEF Writes
<1>3. /\ toy'.at = "music" /\ toy'.download = toy.download /\ toy'.need = toy.need /\ toy.bank \subseteq toy'.bank
      /\ a.detail \in {1, 2} => Sector(a.n) \in toy'.bank
      /\ m.type \in Commands
  <2>1. {"header", "sector", "data"} \subseteq Commands
    BY DEF Commands
  <2>2. CASE /\ m.type \in {"header", "sector"} /\ a.detail = 0
             /\ \E step \in Steps \ {"erase"} :
                   Becomes(toy.at, step, toy.download, toy.need, toy.sequence, toy.bank)
    <3>1. a.detail \notin {1, 2}
      BY <2>2
    <3> QED
      BY <1>1, <2>1, <2>2, <3>1 DEF Becomes
  <2>3. CASE /\ m.type = "sector" /\ a.detail = 2 /\ a.n = m.n /\ Sector(m.n) \in toy.bank
             /\ \E step \in Steps \ {"erase"} :
                   Becomes(toy.at, step, toy.download, toy.need, toy.sequence, toy.bank)
    BY <1>1, <2>1, <2>3 DEF Becomes
  <2>4. CASE /\ m.type = "data" /\ a.detail = 1 /\ a.n = m.n
             /\ \E step \in Steps \ {"erase"} :
                   Becomes(toy.at, step, toy.download, toy.need, toy.sequence, toy.bank \cup {Sector(m.n)})
    BY <1>1, <2>1, <2>4 DEF Becomes
  <2> QED
    BY <1>2, <2>2, <2>3, <2>4
<1>4. /\ m \in On(toToy) /\ On(toToy') \subseteq On(toToy)
      /\ Never(toToy, Asks, Asks \cup Commands) => Never(toToy', Asks, Asks \cup Commands)
  BY <1>1, Taken
<1>5. /\ Incoming' = Incoming \cup {a} /\ a.type \notin Answers
      /\ \A first, second :
            NeverIn(first, second) /\ (a.type \in second => ~Some(queue, first) /\ ~Some(toHost, first))
               => NeverIn(first, second)'
  BY <1>2, ToldIs, KindsAre DEF Says
<1>6. /\ Operation' = Operation /\ Len(runs') = Len(runs) /\ (Answered' => Answered) /\ (Asked' => Asked)
      /\ Operation # "remove" \/ toy.download # Len(runs)
  BY <1>1, <1>4, <1>5, AnsweredIs DEF Operation, Kind
<1>7. \A n : Before(n) => Before(n)'
  BY <1>3 DEF Before
<1>8. host.pc = "pkt" => ~Answered
  BY <1>1 DEF Together, Inviting
<1>9. host.pc # "record"
  BY <1>3, <1>4 DEF Together, Sending, Some
<1>10. OneAtATime'
  BY <1>4, <1>5, <1>6 DEF Together, OneAtATime
<1>11. Inviting'
  <2>1. host.pc = "pkt" => NeverIn(Answers, {"TPR1"})'
    BY <1>6, <1>8, NoneBefore
  <2> QED
    BY <1>4, <1>6, <1>8, <2>1 DEF Together, Inviting
<1>12. Sending'
  BY <1>9 DEF Sending
<1>13. Helped'
  <2>1. SUFFICES ASSUME host.pc \in Helping \cup {"done"}
                 PROVE  Helped'
    BY DEF Helped
  <2>2. /\ toy.download = Len(runs) /\ toy.need = RECORDS /\ host.index = RECORDS
        /\ \A x \in Incoming : x.type = "TPR1" /\ x.detail \in {1, 2} /\ Operation = "music" => Sector(x.n) \in toy.bank
        /\ host.pc \in {"sector", "verify"} => Before(host.sequence)
        /\ host.pc \in {"final", "done"} /\ Operation = "music" => Before(SECTORS)
    BY <2>1 DEF Together, Helped
  <2>3. Operation = "music" /\ Operation # "remove" /\ host.pc # "erase"
    <3>1. host.pc = "erase" => Operation = "remove"
      BY DEF Shape, HostPlaced, Placed, Remove
    <3> QED
      BY <1>1, <1>6, <2>2, <3>1 DEF Operation, Kind
  <2>4. Before(host.sequence) => Before(host.sequence)'
    BY <1>3 DEF Before
  <2> QED
    BY <1>3, <1>5, <1>6, <1>7, <2>2, <2>3, <2>4 DEF Helped
<1>14. InOrder'
  BY <1>3, <1>4, <1>7 DEF Together, InOrder
<1> QED
  BY <1>10, <1>11, <1>12, <1>13, <1>14 DEF Together

\* A sector is gone.
LEMMA ErasingInStep ==
    ASSUME Shape, Together, UNCHANGED <<runs, host, queue, toToy>>, Erases
    PROVE  Together'
<1>1. /\ toy.at = "remove" /\ toy.need = RECORDS /\ toy.at = Kind /\ toy.step = "erase" /\ toy.at = "remove"
      /\ toy'.download = toy.download /\ toy'.need = toy.need /\ toy'.bank = toy.bank \ {toy.sequence}
  BY ToyIs DEF Erases, Becomes
<1>2. PICK a \in Messages : a.type = "TPR1" /\ a.n = toy.sequence /\ Says(a)
  BY DEF Erases
<1>3. /\ Incoming' = Incoming \cup {a} /\ a.type \notin Answers
      /\ \A first, second :
            NeverIn(first, second) /\ (a.type \in second => ~Some(queue, first) /\ ~Some(toHost, first))
               => NeverIn(first, second)'
  BY <1>2, ToldIs, KindsAre DEF Says
<1>4. Operation' = Operation /\ Len(runs') = Len(runs) /\ (Answered' => Answered) /\ (Asked' => Asked)
  BY <1>3, AnsweredIs DEF Operation
<1>5. host.pc = "pkt" => ~Answered
  BY <1>1 DEF Together, Inviting
<1>6. host.pc # "record"
  BY <1>1 DEF Together, Sending
<1>7. OneAtATime'
  BY <1>3, <1>4 DEF Together, OneAtATime
<1>8. Inviting'
  <2>1. host.pc = "pkt" => NeverIn(Answers, {"TPR1"})'
    BY <1>4, <1>5, NoneBefore
  <2> QED
    BY <1>4, <1>5, <2>1 DEF Together, Inviting
<1>9. Sending'
  BY <1>6 DEF Sending
<1>10. Helped'
  <2>1. SUFFICES ASSUME host.pc \in Helping \cup {"done"}
                 PROVE  Helped'
    BY DEF Helped
  <2>2. /\ toy.download = Len(runs) /\ toy.need = RECORDS /\ host.index = RECORDS
        /\ \A x \in Incoming : x.type = "TPR1" /\ x.detail \in {1, 2} /\ Operation = "remove" => x.n \notin toy.bank
        /\ host.pc = "erase" => \A j \in 0..host.sequence - 1 : j \notin toy.bank
        /\ host.pc \in {"final", "done"} /\ Operation = "remove" => toy.bank = {}
    BY <2>1 DEF Together, Helped
  <2>3. Operation = "remove" /\ Operation # "music" /\ host.pc \notin {"sector", "verify"}
    <3>1. host.pc \in {"sector", "verify"} => Operation = "music"
      BY DEF Shape, HostPlaced, Placed, Music
    <3> QED
      BY <1>1, <2>2, <3>1 DEF Operation, Kind
  <2> QED
    BY <1>1, <1>2, <1>3, <1>4, <2>2, <2>3 DEF Helped
<1>11. InOrder'
  BY <1>1 DEF Together, InOrder
<1> QED
  BY <1>7, <1>8, <1>9, <1>10, <1>11 DEF Together

\* Whatever the toy does with a message, they stay in step.
LEMMA TakingInStep ==
    ASSUME Shape, Together, ToyTakes
    PROVE  Together'
<1>1. PICK m : m = Head(toToy)
  OBVIOUS
<1>2. /\ m \in On(toToy) /\ toToy # <<>> /\ toToy' = Tail(toToy)
      /\ UNCHANGED <<runs, host, queue>> /\ toToy \in Seq(Messages)
      /\ \/ UNCHANGED <<toy, toHost>> \/ GivesUp
         \/ Invited(m) \/ TakesTheRecord(m) \/ AnswersTheRecord(m) \/ Writes(m) \/ Clears(m)
  BY <1>1, ToyTakesIs DEF Shape, TypeOK
<1>3. /\ On(toToy') \subseteq On(toToy)
      /\ Never(toToy, Asks, Asks \cup Commands) => Never(toToy', Asks, Asks \cup Commands)
  BY <1>2, Taken
<1>4. /\ toy.need \in Nat /\ RECORDS \in Nat \ {0} /\ (toy.at = "receiving" => toy.need < RECORDS)
      /\ toy.at \in {"music", "remove"} => toy.need = RECORDS /\ toy.step \in Steps
      /\ toy.at # "menu" => Kind \in Operations
      /\ host.index \in Nat /\ Operations \subseteq {"game", "music", "remove"}
  BY ToyIs, InstallAssumption DEF Shape, TypeOK, Hosts
<1>5. /\ Line("ACK") \in Messages /\ Line("NAK") \in Messages /\ Line("ACK").type = "ACK" /\ Line("NAK").type = "NAK"
      /\ {"ACK", "NAK", "ENQ"} \subseteq Answers
  BY WordsAre DEF Answers
<1>6. m.type \in Asks => /\ ~Answered /\ ~Asked' /\ ~Some(toToy', Commands) /\ host.pc \in {"pkt", "record"}
                         /\ host.pc = "pkt" => m.type = "PKT" /\ m.n = Len(runs)
                         /\ host.pc = "record" => m.type = "record" /\ m.n = host.index
  BY <1>1, <1>2, QuestionIs
<1>7. {"PKT", "record"} \subseteq Asks
  BY DEF Asks
<1>8. CASE UNCHANGED <<toy, toHost>>
  <2>1. Incoming' = Incoming
    BY <1>2, <1>8 DEF Incoming
  <2>2. \A first, second : NeverIn(first, second) => NeverIn(first, second)'
    BY <1>2, <1>8 DEF NeverIn
  <2> QED
    BY <1>2, <1>3, <1>8, <2>1, <2>2, StaysInStep
<1>9. CASE GivesUp
  <2>1. PICK a \in Messages : a.type = "TPR1" /\ a.detail = FAILED /\ Says(a)
    BY <1>9 DEF GivesUp
  <2>2. a.detail \notin {1, 2}
    BY <2>1 DEF FAILED
  <2>3. /\ toy.at \in {"music", "remove"}
        /\ Becomes(toy.at, "over", toy.download, toy.need, toy'.sequence, toy.bank)
    BY <1>9 DEF GivesUp, Becomes
  <2> QED
    BY <1>2, <1>3, <2>1, <2>2, <2>3, HelperInStep
<1>10. CASE Invited(m)
  <2>1. /\ m.type = "PKT" /\ Says(Line("ACK")) /\ toy'.at = "receiving" /\ toy'.download = m.n /\ toy'.need = 0
    BY <1>10 DEF Invited, Becomes
  <2>2. host.pc = "pkt" /\ m.n = Len(runs) /\ host.pc # "record"
    BY <1>6, <1>7, <2>1
  <2> QED
    BY <1>2, <1>5, <1>6, <1>7, <2>1, <2>2, AnswerInStep
<1>11. ASSUME m.type = "record", toy.at = "receiving"
       PROVE  /\ host.pc = "record" /\ m.n = host.index /\ host.index <= toy.need /\ toy.download = Len(runs)
              /\ \A x \in Incoming : x.type # "TPR1"
  <2>1. host.pc = "record" /\ m.n = host.index
    BY <1>6, <1>7, <1>11
  <2>2. toy.need # RECORDS
    BY <1>4, <1>11
  <2> QED
    BY <2>1, <2>2 DEF Together, Sending
<1>12. CASE TakesTheRecord(m)
  <2>1. m.type = "record" /\ toy.at = "receiving" /\ Says(Line("ACK")) /\ m.n = toy.need
    BY <1>12 DEF TakesTheRecord
  <2>2. /\ toy'.download = toy.download /\ toy'.need = toy.need + 1
        /\ (toy'.at = Kind /\ toy'.step = "start") \/ toy'.at = "receiving"
    BY <1>12 DEF TakesTheRecord, Becomes
  <2>3. host.index <= toy'.need /\ host.index < toy'.need
    BY <1>4, <1>11, <2>1, <2>2
  <2> QED
    BY <1>2, <1>5, <1>6, <1>7, <1>11, <2>1, <2>2, <2>3, AnswerInStep
<1>13. CASE AnswersTheRecord(m)
  <2>1. m.type = "record" /\ toy.at = "receiving" /\ toy'.download = toy.download /\ toy'.need = toy.need /\ toy'.at = "receiving"
    BY <1>13 DEF AnswersTheRecord, Stays, Becomes
  <2>2. PICK a \in Messages : /\ Says(a) /\ a.type \in Answers
                              /\ a.type = "ACK" => m.n < toy.need
                              /\ a.type = "ENQ" => a.n = toy.need
    BY <1>5, <1>13 DEF AnswersTheRecord
  <2>3. host.pc = "record" /\ host.index <= toy'.need /\ (a.type = "ENQ" => a.n <= toy'.need)
    BY <1>4, <1>11, <2>1, <2>2
  <2> QED
    BY <1>2, <1>6, <1>7, <1>11, <2>1, <2>2, <2>3, AnswerInStep
<1>14. CASE Writes(m)
  BY <1>1, <1>2, <1>14, WritingInStep
<1>15. CASE Clears(m)
  <2>1. PICK a \in Messages : a.type = "TPR1" /\ a.detail = 3 /\ Says(a)
    BY <1>15 DEF Clears
  <2>2. a.detail \notin {1, 2}
    BY <2>1
  <2>3. toy.at = "remove" /\ Becomes(toy.at, "erase", toy.download, toy.need, toy'.sequence, toy.bank)
    BY <1>15 DEF Clears, Becomes
  <2>4. host.pc # "record"
    BY <1>2, <1>15 DEF Together, Sending, Some, Clears, Commands
  <2> QED
    BY <1>2, <1>3, <2>1, <2>2, <2>3, <2>4, HelperInStep
<1> QED
  BY <1>2, <1>8, <1>9, <1>10, <1>12, <1>13, <1>14, <1>15

\* And whatever it does by itself.
LEMMA SpeakingInStep ==
    ASSUME Shape, Together, ToySpeaks \/ ToyAsks \/ ToyRestarts
    PROVE  Together'
<1>1. CASE ToySpeaks
  <2>1. UNCHANGED <<runs, host, queue, reading, toToy, late>> /\ (Starts \/ Erases \/ Finishes)
    BY <1>1, ToySpeaksIs
  <2>2. CASE Starts \/ Finishes
    <3>1. PICK step \in {"header", "over"} :
             Becomes(toy.at, step, toy.download, toy.need, toy'.sequence, toy.bank)
      BY <2>2 DEF Starts, Finishes, Becomes
    <3>2. PICK a \in Messages : a.type = "TPR1" /\ a.detail \notin {1, 2} /\ Says(a)
      BY <2>2 DEF Starts, Finishes
    <3>3. toy.at \in {"music", "remove"}
      BY <2>2 DEF Starts, Finishes
    <3> QED
      BY <2>1, <3>1, <3>2, <3>3, HelperInStep
  <2>3. CASE Erases
    BY <2>1, <2>3, ErasingInStep
  <2> QED
    BY <2>1, <2>2, <2>3
<1>2. CASE ToyAsks
  <2>1. UNCHANGED <<runs, host, queue, reading, toToy, late>> /\ AsksBack
    BY <1>2, ToyAsksIs
  <2>2. PICK a \in Messages : Says(a) /\ a.type \notin Answers \cup {"TPR1"}
    <3>1. /\ Line("CAN") \in Messages /\ Line("CAN").type = "CAN"
          /\ Line("ECHO REQ") \in Messages /\ Line("ECHO REQ").type = "ECHO REQ"
      BY WordsAre
    <3> QED
      BY <2>1, <3>1, KindsAre DEF AsksBack
  <2>3. /\ Incoming' = Incoming \cup {a}
        /\ \A first, second :
              NeverIn(first, second) /\ (a.type \in second => ~Some(queue, first) /\ ~Some(toHost, first))
                 => NeverIn(first, second)'
    BY <2>1, <2>2, ToldIs DEF Says
  <2>4. /\ toy'.download = toy.download /\ toy'.need = toy.need /\ toy'.bank = toy.bank
        /\ toy'.at = "menu" \/ (toy'.at = toy.at /\ toy'.step = toy.step)
    BY <2>1 DEF AsksBack, Stays, Becomes
  <2> QED
    BY <2>1, <2>2, <2>3, <2>4, StaysInStep
<1>3. CASE ToyRestarts
  <2>1. UNCHANGED <<runs, host, queue, reading, toToy, late>> /\ Restarts
    BY <1>3, ToyRestartsIs
  <2>2. /\ toy'.download = toy.download /\ toy'.need = toy.need /\ toy'.bank = toy.bank /\ toy'.at = "menu"
        /\ toHost' = toHost
    BY <2>1 DEF Restarts, Becomes
  <2>3. Incoming' = Incoming /\ \A first, second : NeverIn(first, second) => NeverIn(first, second)'
    BY <2>1, <2>2 DEF Incoming, NeverIn
  <2> QED
    BY <2>1, <2>2, <2>3, StaysInStep
<1> QED
  BY <1>1, <1>2, <1>3

\* What is lost does not put them out of step, nor does reading it.
LEMMA LineKeepsStep ==
    ASSUME Shape, Together, \/ LoseToToy \/ LoseToHost \/ UNCHANGED vars
                            \/ (Read /\ ~late')
    PROVE  Together'
<1>1. toToy \in Seq(Messages)
  BY DEF Shape, TypeOK
<1>2. CASE LoseToToy
  <2>1. UNCHANGED <<runs, host, queue, toHost, toy>> /\ toToy # <<>> /\ toToy' = Tail(toToy)
    BY <1>2 DEF LoseToToy
  <2>2. /\ On(toToy') \subseteq On(toToy)
        /\ Never(toToy, Asks, Asks \cup Commands) => Never(toToy', Asks, Asks \cup Commands)
    BY <1>1, <2>1, Taken
  <2>3. Incoming' = Incoming /\ \A first, second : NeverIn(first, second) => NeverIn(first, second)'
    BY <2>1 DEF Incoming, NeverIn
  <2> QED
    BY <2>1, <2>2, <2>3, StaysInStep
<1>3. CASE LoseToHost
  <2>1. UNCHANGED <<runs, host, toToy, toy>>
    BY <1>3 DEF LoseToHost
  <2>2. /\ Incoming' \subseteq Incoming \cup {Noise} /\ Noise.type \notin Answers \cup {"TPR1"}
        /\ \A first, second : NeverIn(first, second) /\ "noise" \notin first \cup second => NeverIn(first, second)'
    BY <1>3, LoseToHostIs, KindsAre
  <2>3. /\ NeverIn(Answers, Answers) => NeverIn(Answers, Answers)'
        /\ NeverIn(Answers, {"TPR1"}) => NeverIn(Answers, {"TPR1"})'
    BY <2>2, KindsAre
  <2> QED
    BY <2>1, <2>2, <2>3, StaysInStep
<1>4. CASE UNCHANGED vars
  <2>1. UNCHANGED <<runs, host, queue, toHost, toToy, toy>>
    BY <1>4 DEF vars
  <2>2. Incoming' = Incoming /\ \A first, second : NeverIn(first, second) => NeverIn(first, second)'
    BY <2>1 DEF Incoming, NeverIn
  <2> QED
    BY <2>1, <2>2, StaysInStep
<1>5. CASE Read /\ ~late'
  <2>1. /\ UNCHANGED <<runs, host, toToy, toy>> /\ Incoming' \subseteq Incoming
        /\ \A first, second : NeverIn(first, second) => NeverIn(first, second)'
    BY <1>5, ReadIs
  <2> QED
    BY <2>1, StaysInStep
<1> QED
  BY <1>2, <1>3, <1>4, <1>5

\* A new installation finds nothing asked and nothing answered.
LEMMA OpeningInStep ==
    ASSUME Shape, Together,
           \/ LoadFails \/ Open
           \/ \E operation \in Operations : Start(operation)
    PROVE  Together'
<1>1. /\ toToy \in Seq(Messages) /\ host \in Hosts /\ host.pc \in Ended \cup {"load"}
  BY DEF Shape, TypeOK, Start, LoadFails, Open
<1>2. ~Asked /\ ~Answered
  BY <1>1, KindsAre DEF Together, OneAtATime
<1>3. CASE LoadFails \/ \E operation \in Operations : Start(operation)
  <2>1. UNCHANGED <<queue, toToy, toHost, toy>> /\ host'.pc \in {"failed", "load"}
    <3>1. Fails.host.pc = "failed"
      BY FailsIs DEF Broken
    <3> QED
      BY <1>3, <3>1, StartIs DEF LoadFails, Start
  <2>2. ~Asked' /\ ~Answered'
    BY <1>2, <2>1 DEF Asked, Answered
  <2>3. host'.pc \notin {"pkt", "record"} \cup Helping \cup {"done"}
    BY <2>1, KindsAre DEF Ended
  <2>4. OneAtATime'
    BY <2>2, NoneBefore DEF OneAtATime
  <2>5. Inviting' /\ Sending' /\ Helped'
    BY <2>3 DEF Inviting, Sending, Helped
  <2>6. InOrder'
    BY <2>1 DEF Together, InOrder, Before
  <2> QED
    BY <2>4, <2>5, <2>6 DEF Together
<1>4. CASE Open
  <2>1. PICK to : to = Ask(host)
    OBVIOUS
  <2>2. /\ GoesOn(to, <<>>) /\ UNCHANGED <<runs, toHost, toy>> /\ (Broken(to) \/ Inquiring(to))
        /\ Len(runs) \in Int
    BY <1>1, <1>4, <2>1, AskIs DEF Open, Shape, TypeOK
  <2>3. Incoming' \subseteq Incoming
    BY <1>4, OpenShape
  <2>4. ~Answered'
    BY <1>2, <2>3, AnsweredIs
  <2>5. CASE Broken(to)
    <3>1. host' = to.host /\ toToy' = toToy /\ to.host.pc = "failed"
      BY <1>1, <2>2, <2>5, GoesOnSilent DEF Broken
    <3>2. host'.pc \notin {"pkt", "record"} \cup Helping \cup {"done"}
      BY <3>1, KindsAre DEF Ended
    <3>3. ~Asked'
      BY <1>2, <3>1 DEF Asked
    <3>4. OneAtATime'
      BY <2>4, <3>3, NoneBefore DEF OneAtATime
    <3>5. Inviting' /\ Sending' /\ Helped'
      BY <3>2 DEF Inviting, Sending, Helped
    <3>6. InOrder'
      BY <2>2, <3>1 DEF Together, InOrder, Before
    <3> QED
      BY <3>4, <3>5, <3>6 DEF Together
  <2>6. CASE Inquiring(to)
    <3> DEFINE a == Message("PKT", Len(runs), 0)
    <3>1. a \in Messages /\ a.type = "PKT" /\ to.out = <<a>> /\ to.host.pc = "pkt"
      BY <2>2, <2>6, SaysIs DEF Inquiring
    <3> HIDE DEF a
    <3>2. /\ host' = to.host /\ On(toToy') \subseteq On(toToy) \cup {a}
          /\ \A first, second : Never(toToy, first, second) /\ (a.type \in second => ~Some(toToy, first))
                => Never(toToy', first, second)
      BY <1>1, <2>2, <3>1, GoesOnSaying
    <3>3. Never(toToy', Asks, Asks \cup Commands)
      BY <1>2, <3>2 DEF Together, OneAtATime, Asked
    <3>4. OneAtATime'
      BY <2>4, <3>1, <3>2, <3>3, NoneBefore DEF OneAtATime
    <3>5. Inviting'
      <4>1. \A m \in On(toToy') : m.type \in Asks => m = a
        BY <1>2, <3>2, AnsweredIs
      <4>2. a = Message("PKT", Len(runs), 0)'
        BY <2>2 DEF a
      <4> QED
        BY <2>4, <4>1, <4>2, NoneBefore DEF Inviting
    <3>6. Sending' /\ Helped'
      BY <3>1, <3>2, KindsAre DEF Sending, Helped
    <3>7. InOrder'
      BY <2>2, <3>1, <3>2 DEF Together, InOrder, Before
    <3> QED
      BY <3>4, <3>5, <3>6, <3>7 DEF Together
  <2> QED
    BY <2>2, <2>5, <2>6
<1> QED
  BY <1>3, <1>4

\* When the adapter is lost there is nothing left to be out of step with.
LEMMA UnplugInStep ==
    ASSUME Unplug
    PROVE  Together'
<1>1. queue' = <<>> /\ toToy' = <<>> /\ toHost' = <<>> /\ host'.pc = "failed"
  BY FailsIs DEF Unplug, Broken
<1>2. Incoming' = {} /\ On(toToy') = {}
  BY <1>1, Nothing DEF Incoming
<1>3. ~Asked' /\ ~Answered'
  BY <1>2, AnsweredIs
<1>4. OneAtATime'
  BY <1>3, NoneBefore DEF OneAtATime
<1>5. host'.pc \notin {"pkt", "record"} \cup Helping \cup {"done"}
  BY <1>1, KindsAre DEF Ended
<1>6. Inviting' /\ Sending' /\ Helped'
  BY <1>5 DEF Inviting, Sending, Helped
<1>7. InOrder'
  BY <1>2 DEF InOrder
<1> QED
  BY <1>4, <1>6, <1>7 DEF Together

\* Host and toy stay in step until the host does not wait.
LEMMA StepKept ==
    ASSUME Shape, InStep, [Next]_vars
    PROVE  InStep'
<1>1. SUFFICES ASSUME ~late'
               PROVE  Together'
  BY DEF InStep
<1>2. CASE Unplug
  BY <1>2, UnplugInStep
<1>3. CASE Timeout
  BY <1>1, <1>3 DEF Timeout, Unanswered
<1>4. CASE /\ ~Unplug /\ ~Timeout
  <2>1. ~late
    <3>1. CASE UNCHANGED vars
      BY <1>1, <3>1 DEF vars
    <3>2. CASE Next
      <4>1. CASE Read
        BY <1>1, <4>1, ReadIs
      <4>2. CASE TakeLine
        BY <1>1, <4>2 DEF TakeLine, Unanswered
      <4>3. CASE TakeFrame \/ LoseToToy \/ LoseToHost \/ ToyTakes \/ ToySpeaks \/ ToyAsks \/ ToyRestarts
        BY <1>1, <4>3 DEF TakeFrame, LoseToToy, LoseToHost, ToyTakes, ToySpeaks, ToyAsks, ToyRestarts
      <4>4. CASE LoadFails \/ Open \/ \E operation \in Operations : Start(operation)
        BY <1>1, <4>4 DEF LoadFails, Open, Start
      <4> QED
        BY <1>4, <3>2, <4>1, <4>2, <4>3, <4>4 DEF Next
    <3> QED
      BY <3>1, <3>2
  <2>2. Together
    BY <2>1 DEF InStep
  <2>3. CASE LoseToToy \/ LoseToHost \/ UNCHANGED vars \/ Read
    BY <1>1, <2>2, <2>3, LineKeepsStep
  <2>4. CASE TakeLine
    BY <1>1, <2>2, <2>4, LineInStep
  <2>5. CASE TakeFrame
    BY <1>1, <2>2, <2>5, FrameInStep
  <2>6. CASE ToyTakes
    BY <2>2, <2>6, TakingInStep
  <2>7. CASE ToySpeaks \/ ToyAsks \/ ToyRestarts
    BY <2>2, <2>7, SpeakingInStep
  <2>8. CASE LoadFails \/ Open \/ \E operation \in Operations : Start(operation)
    BY <2>2, <2>8, OpeningInStep
  <2> QED
    BY <1>4, <2>3, <2>4, <2>5, <2>6, <2>7, <2>8 DEF Next
<1> QED
  BY <1>2, <1>3, <1>4

-----------------------------------------------------------------------------
(* What follows                                                             *)

\* It holds at the start, before any installation.
LEMMA InitIs == Init => IInv
<1> SUFFICES ASSUME Init
             PROVE  IInv
  OBVIOUS
<1>1. /\ runs = <<>> /\ host = Idle /\ queue = <<>> /\ reading = FALSE
      /\ toToy = <<>> /\ toHost = <<>> /\ late = FALSE
      /\ toy = [at |-> "menu", step |-> "none", download |-> 0, need |-> 0, sequence |-> 0, bank |-> {}]
  BY DEF Init
<1>2. Incoming = {} /\ On(toToy) = {}
  BY <1>1, Nothing DEF Incoming
<1>3. TypeOK
  <2>1. host \in Hosts
    BY <1>1 DEF Idle, Hosts, Places, Ended
  <2>2. toy \in Toys
    <3>1. 0 \in 0..RECORDS
      BY InstallAssumption
    <3> QED
      BY <1>1, <3>1 DEF Toys, Steps
  <2>3. <<>> \in Seq(Messages) /\ <<>> \in Seq(Operations)
    OBVIOUS
  <2> QED
    BY <1>1, <2>1, <2>2, <2>3 DEF TypeOK
<1>4. HostPlaced
  <2>1. host.pc = "idle"
    BY <1>1 DEF Idle
  <2> QED
    BY <1>1, <2>1, KindsAre DEF HostPlaced, Placed, Helping, Music, Remove
<1>5. ToyPlaced
  <2>1. Len(runs) = 0 /\ toy.download = 0
    BY <1>1
  <2>2. toy.at = "menu" /\ toy.step = "none"
    BY <1>1
  <2>3. "menu" \notin Operations
    BY InstallAssumption
  <2>4. toy.download <= Len(runs)
    BY <2>1
  <2> QED
    BY <2>2, <2>3, <2>4 DEF ToyPlaced
<1>6. Sent
  BY <1>2 DEF Sent
<1>7. Kept
  <2>1. toy.bank = {} /\ host.pc = "idle"
    BY <1>1 DEF Idle
  <2> QED
    BY <1>2, <2>1 DEF Kept
<1>8. Together
  <2>1. ~Asked /\ ~Answered
    BY <1>2, AnsweredIs
  <2>2. host.pc \notin {"pkt", "record"} \cup Helping \cup {"done"}
    BY <1>1, KindsAre DEF Idle, Ended
  <2>3. OneAtATime
    BY <2>1, NoneBefore DEF OneAtATime
  <2> QED
    BY <1>2, <2>2, <2>3 DEF Together, Inviting, Sending, Helped, InOrder
<1> QED
  BY <1>3, <1>4, <1>5, <1>6, <1>7, <1>8 DEF IInv, Shape, InStep

\* It holds always.
LEMMA Invariant == Spec => []IInv
<1>1. IInv /\ [Next]_vars => IInv'
  BY ShapeKept, ConfirmedKept, StepKept DEF IInv
<1> QED
  BY InitIs, <1>1, PTL DEF Spec

\* Every variable has its type: an installation is of one of the operations, a
\* message of the kinds there are, and the bank never holds more than its sectors.
THEOREM TypesHold == Spec => []TypeOK
<1>1. IInv => TypeOK
  BY DEF IInv, Shape
<1> QED
  BY Invariant, <1>1, PTL

\* A page that reports music installed or removed is right.
LEMMA DoneIsDone == IInv => ReportedDone
<1> SUFFICES ASSUME IInv, host.pc = "done", ~late \/ ~Removing
             PROVE  /\ Operation = "music" => toy.bank = Bank
                    /\ Operation = "remove" => toy.bank = {}
  BY DEF ReportedDone
<1>1. toy.bank \subseteq Bank /\ runs # <<>>
  BY ToyIs DEF IInv, Shape, HostPlaced
<1>2. Before(SECTORS) => toy.bank = Bank
  BY <1>1, SectorsAre DEF Before
<1>3. CASE ~late
  <2>1. Helped
    BY <1>3 DEF IInv, InStep, Together
  <2> QED
    BY <1>2, <2>1 DEF Helped
<1>4. CASE ~Removing
  <2>1. Operation # "remove"
    BY <1>1, <1>4, NoRemover DEF IInv
  <2>2. Operation = "music" => Before(SECTORS)
    BY <1>4 DEF IInv, Kept
  <2> QED
    BY <1>2, <2>1, <2>2
<1> QED
  BY <1>3, <1>4

\* The header of a bank is written over all the rest.
LEMMA HeaderIsLast == IInv => HeaderLast
<1> SUFFICES ASSUME IInv
             PROVE  HeaderLast
  OBVIOUS
<1>1. 0 \in toy.bank /\ ~Removing => toy.bank = Bank
  BY DEF IInv, Kept
<1>2. ASSUME ~late, NEW i \in 1..Len(toToy), toToy[i] = Message("data", SECTORS - 1, 0)
      PROVE  1..SECTORS - 1 \subseteq toy.bank
  <2>1. SECTORS - 1 \in Int /\ SECTORS \in Nat \ {0}
    BY InstallAssumption
  <2>2. toToy[i].type = "data" /\ toToy[i].n = SECTORS - 1
    BY <1>2, <2>1, SaysIs
  <2>3. toToy[i] \in On(toToy)
    BY DEF On
  <2>4. Before(SECTORS - 1)
    <3>1. Before(toToy[i].n)
      BY <1>2, <2>2, <2>3 DEF IInv, InStep, Together, InOrder
    <3> QED
      BY <2>2, <3>1
  <2>5. \A j \in 0..SECTORS - 2 : Sector(j) \in toy.bank
    <3>1. 0..SECTORS - 2 = 0..(SECTORS - 1) - 1
      BY <2>1
    <3> QED
      BY <2>4, <3>1 DEF Before
  <2> QED
    BY <2>5, SectorsAre
<1> QED
  BY <1>1, <1>2 DEF HeaderLast

\* The host is not ahead of a toy it waited for.
LEMMA NeverAhead == IInv => AheadByLate
<1> SUFFICES ASSUME IInv, ~late, host.pc \notin Ended \cup {"load", "pkt"} \/ host.pc = "done"
             PROVE  toy.download = Len(runs) /\ host.index <= toy.need
  BY DEF AheadByLate
<1>1. host.pc = "record" \/ host.pc \in Helping \cup {"done"}
  BY DEF IInv, Shape, TypeOK, Hosts, Places
<1>2. Sending /\ Helped
  BY DEF IInv, InStep, Together
<1>3. RECORDS <= RECORDS
  BY InstallAssumption
<1> QED
  BY <1>1, <1>2, <1>3 DEF Sending, Helped

\* Whatever the line loses, damages or delays, and wherever the toy refuses, asks
\* again or restarts: music is reported installed or removed only when it is, the
\* header of a bank is the last of its sectors to be written, and no answer to a
\* download is taken for another's that is not late.
THEOREM InstallIsHeld == Spec => []InstallHolds
<1>1. IInv => InstallHolds
  BY DoneIsDone, HeaderIsLast, NeverAhead DEF InstallHolds
<1> QED
  BY Invariant, <1>1, PTL

=============================================================================
