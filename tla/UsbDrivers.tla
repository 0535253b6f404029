------------------------------ MODULE UsbDrivers ------------------------------
(***************************************************************************)
(* The drivers of USB-serial adapters behind WebUSB                         *)
(* (tama-protocol/src/transport/drivers/*.ts, webusb-types.ts): which       *)
(* driver takes a device, which interfaces and endpoints it uses, what it   *)
(* writes to the chip to make a 460800 8N1 line of it, how it computes a    *)
(* divisor, and what FTDI's input is stripped of.                           *)
(*                                                                          *)
(* A chip is a record of what its control requests set.  Requests that only *)
(* read, purge or repeat a vendor's magic numbers are "ask" here: they may  *)
(* fail, and change nothing that is followed.                               *)
(***************************************************************************)
EXTENDS Integers, Sequences, SequencesExt, FiniteSets

Drivers == <<"CH34x", "CP210x", "FTDI", "PL2303", "CDC-ACM">>
ProlificTypes == {"01", "T", "HX", "HXN"}

Reset == [uart |-> "on", rate |-> 0, format |-> "", dtr |-> FALSE, rts |-> FALSE]
Chip == [Reset EXCEPT !.uart = "off"]

\* One control request, by what it sets.
Ask == [reg |-> "ask"]
Uart(on) == [reg |-> "uart", to |-> IF on THEN "on" ELSE "off"]
Clear == [reg |-> "reset"]
Rate(baud) == [reg |-> "rate", to |-> baud]
Format == [reg |-> "format"]
LineCoding(baud) == [reg |-> "coding", to |-> baud]
Lines(dtr, rts) == [reg |-> "lines", dtr |-> dtr, rts |-> rts]

Written(chip, request) ==
    CASE request.reg = "ask" -> chip
      [] request.reg = "reset" -> Reset
      [] request.reg = "uart" -> [chip EXCEPT !.uart = request.to]
      [] request.reg = "rate" -> [chip EXCEPT !.rate = request.to]
      [] request.reg = "format" -> [chip EXCEPT !.format = "8N1"]
      [] request.reg = "coding" -> [chip EXCEPT !.rate = request.to, !.format = "8N1"]
      [] request.reg = "lines" -> [chip EXCEPT !.dtr = request.dtr, !.rts = request.rts]

\* purge(): one request on a new PL2303, two on an older one.
Purge(type) == IF type = "HXN" THEN <<Ask>> ELSE <<Ask, Ask>>

\* Which of two generations a PL2303 is; "fails" says that the request that
\* tells the T from the HXN failed, which is no error.
DetectType(known2303, class2, usb2, version3or5, fails) ==
    IF ~known2303 THEN "HXN" ELSE IF class2 THEN "01"
    ELSE IF ~usb2 THEN "HX" ELSE IF version3or5 /\ ~fails THEN "T" ELSE "HXN"

\* initialize() of each driver: its requests in their order.
Ch34xInitialize(baud) ==
    <<Ask, Ask, Rate(9600), Rate(9600), Ask, Format, Ask, Ask,
      Rate(9600), Rate(9600), Ask, Ask, Rate(baud), Rate(baud), Format, Lines(TRUE, TRUE)>>
Cp210xInitialize(baud) ==
    <<Uart(TRUE), Lines(FALSE, FALSE), Ask, Rate(baud), Format, Lines(TRUE, FALSE), Lines(TRUE, TRUE)>>
FtdiInitialize(baud) ==
    <<Clear, Lines(FALSE, FALSE), Ask, Rate(baud), Format, Ask, Lines(TRUE, FALSE), Lines(TRUE, TRUE)>>
ProlificInitialize(type, baud) ==
    Purge(type) \o (IF type = "HXN" THEN <<>> ELSE [k \in 1..11 |-> Ask])
    \o <<Lines(FALSE, FALSE), Ask, LineCoding(baud)>> \o Purge(type) \o <<Lines(TRUE, TRUE)>>
CdcInitialize(baud) == <<LineCoding(baud), Lines(TRUE, TRUE)>>

Initialize(driver, type, baud) ==
    CASE driver = "CH34x" -> Ch34xInitialize(baud)
      [] driver = "CP210x" -> Cp210xInitialize(baud)
      [] driver = "FTDI" -> FtdiInitialize(baud)
      [] driver = "PL2303" -> ProlificInitialize(type, baud)
      [] driver = "CDC-ACM" -> CdcInitialize(baud)

\* shutdown(): a CH34x has none.
Shutdown(driver, type) ==
    CASE driver = "CH34x" -> <<>>
      [] driver = "CP210x" -> <<Ask, Uart(FALSE)>>
      [] driver = "FTDI" -> <<Ask, Ask>>
      [] driver = "PL2303" -> Purge(type)
      [] driver = "CDC-ACM" -> <<Lines(FALSE, FALSE)>>

-----------------------------------------------------------------------------
(* Divisors                                                                 *)

Refused == [value |-> -1]
Pow8 == <<1, 8, 64, 512>>

\* factor is shifted right by three bits until it fits, at most three times.
Ch34xBaud(baud) ==
    LET whole == 1532620800 \div baud
        k == CHOOSE k \in 1..4 : (k = 4 \/ whole \div Pow8[k] <= 65520)
                                 /\ \A j \in 1..(k - 1) : whole \div Pow8[j] > 65520
        left == 65536 - whole \div Pow8[k]
    IN  IF baud <= 0 \/ whole \div Pow8[k] > 65520 THEN Refused
        ELSE [value |-> (left \div 256) * 256 + 128 + (4 - k), divisor |-> left % 256]

\* The eighths of an FTDI divisor are coded in the two top bits of value and
\* in fractionalIndex.
SubCode == <<<<0, 0>>, <<3, 0>>, <<2, 0>>, <<0, 1>>, <<1, 0>>, <<1, 1>>, <<2, 1>>, <<3, 1>>>>
Absolute(n) == IF n < 0 THEN -n ELSE n
FtdiBaud(baud) ==
    LET encoded == (48000000 \div baud + 1) \div 2
        divisor == IF baud >= 2500000 THEN 0 ELSE IF baud >= 1750000 THEN 1 ELSE encoded \div 8
        sub == IF baud >= 1750000 THEN 0 ELSE encoded % 8
        effective == IF baud >= 2500000 THEN 3000000 ELSE IF baud >= 1750000 THEN 2000000
                     ELSE (48000000 \div (divisor * 8 + sub) + 1) \div 2
        code == SubCode[sub + 1]
    IN  IF baud <= 0 \/ baud > 3500000 \/ divisor > 16383
           \/ Absolute(baud - effective) * 1000 >= 31 * baud
        THEN Refused
        ELSE [value |-> divisor + 16384 * code[1], fractionalIndex |-> code[2]]

-----------------------------------------------------------------------------
(* Input and interfaces                                                     *)

\* stripFtdiStatusBytes: each packet starts with two of them.
Strip(data, packetSize) ==
    IF Len(data) < 2 THEN <<>>
    ELSE LET places == SelectSeq([k \in 1..Len(data) |-> k], LAMBDA k : ((k - 1) % packetSize) >= 2)
         IN  [k \in 1..Len(places) |-> data[places[k]]]

\* A configuration is a sequence of interfaces <<number, alternates>>, an
\* alternate <<setting, class, has a bulk input, has a bulk output>>.
Alternates(configuration) ==
    {<<n, k>> \in (1..3) \X (1..3) :
        n <= Len(configuration) /\ k <= Len(configuration[n][2])}
At(configuration, p) == configuration[p[1]][2][p[2]]
Before(p, q) == p[1] < q[1] \/ (p[1] = q[1] /\ p[2] < q[2])
FirstOf(places) == CHOOSE p \in places : \A q \in places \ {p} : Before(p, q)
AlternateWithClass(configuration, class) ==
    {p \in Alternates(configuration) : At(configuration, p)[2] = class}

NoLayout == [claims |-> <<>>]
FirstBulkLayout(configuration) ==
    LET bulk == {p \in Alternates(configuration) :
                    At(configuration, p)[3] /\ At(configuration, p)[4]}
        p == FirstOf(bulk)
        number == configuration[p[1]][1]
    IN  IF bulk = {} THEN NoLayout
        ELSE [claims |-> <<number>>, selects |-> <<<<number, At(configuration, p)[1]>>>>, data |-> p]

CdcLayout(configuration) ==
    LET control == FirstOf(AlternateWithClass(configuration, 2))
        data == FirstOf(AlternateWithClass(configuration, 10))
        number(p) == configuration[p[1]][1]
    IN  IF AlternateWithClass(configuration, 2) = {} \/ AlternateWithClass(configuration, 10) = {}
        THEN NoLayout
        ELSE IF ~At(configuration, data)[3] \/ ~At(configuration, data)[4] THEN NoLayout
        ELSE [claims |-> <<number(control), number(data)>>,
              selects |-> <<<<number(control), At(configuration, control)[1]>>,
                            <<number(data), At(configuration, data)[1]>>>>, data |-> data]

\* findWebUsbDriver: the vendors' chips first, then whatever says it is CDC.
Supports(vendor, configurations) ==
    IF vendor # "other" THEN vendor
    ELSE IF \E c \in configurations : AlternateWithClass(c, 2) # {} /\ AlternateWithClass(c, 10) # {}
    THEN "CDC-ACM" ELSE "none"

-----------------------------------------------------------------------------
(* Properties                                                               *)

\* Rates from 300 to 3500000: the round ones, and some around each limit.
Rates == {300, 1200, 9600, 19200, 38400, 57600, 115200, 230400, 460800, 500000, 921600,
          1000000, 1500000, 1749999, 1750000, 2000000, 2499999, 2500000, 3000000, 3500000}
         \cup {23390, 23391, 23392, 23393, 2923, 2924, 2925, 183, 184, 365, 366, 367}

\* What the registers of a CH34x say is within one count of what was asked.
Ch34xAccurate ==
    \A baud \in Rates : Ch34xBaud(baud) # Refused =>
        LET r == Ch34xBaud(baud)
            scale == Pow8[4 - (r.value % 4)]
            count == 65536 - ((r.value \div 256) * 256 + r.divisor)
        IN  /\ count \in 1..65520
            /\ 1532620800 \div baud - count * scale \in 0..(scale - 1)

\* What the registers of an FTDI say is within the 3.1 percent a UART bears,
\* read back as its data sheet has them: divisors 0 and 1 are 3 and 2 Mbaud.
FtdiAccurate ==
    \A baud \in Rates : FtdiBaud(baud) # Refused =>
        LET r == FtdiBaud(baud)
            sub == CHOOSE s \in 0..7 : SubCode[s + 1] = <<r.value \div 16384, r.fractionalIndex>>
            eighths == (r.value % 16384) * 8 + sub
            real == IF eighths = 0 THEN 3000000 ELSE IF eighths = 8 THEN 2000000
                    ELSE 24000000 \div eighths
        IN  Absolute(real - baud) * 1000 <= 32 * baud

\* The exchange's own rate is never refused.
BaudRight ==
    /\ Ch34xAccurate /\ FtdiAccurate
    /\ Ch34xBaud(460800) = [value |-> 62339, divisor |-> 2]
    /\ FtdiBaud(460800) = [value |-> 16390, fractionalIndex |-> 0]

\* Transfers of FTDI packets of four bytes: full ones, then one that may be short.
Payloads == {<<>>, <<7>>, <<7, 8>>}
OnWire(payload) == <<0, 0>> \o payload
\* Stripping gives back the payloads, however many packets a transfer holds.
PayloadKept ==
    \A n \in 0..3, last \in Payloads :
        LET full == [k \in 1..n |-> <<k, k + 3>>]
        IN  Strip(FlattenSeq([k \in 1..n |-> OnWire(full[k])]) \o OnWire(last), 4)
                = FlattenSeq(full) \o last

\* Devices of one or two interfaces; an interface's alternates are of one class.
SomeInterfaces(number) ==
    {<<number, [k \in 1..n |-> <<k - 1, class, f[k], f[k]>>]>> :
        n \in 1..2, class \in {2, 10, 255}, f \in [1..2 -> BOOLEAN]}
Configurations == {<<i>> : i \in SomeInterfaces(0)}
                  \cup {<<i, j>> : i \in SomeInterfaces(0), j \in SomeInterfaces(1)}

\* A layout's endpoints are those of an alternate it selects, of an interface
\* it claims; the CDC-ACM driver finds one only in what it supports.
LayoutReachable ==
    \A c \in Configurations :
      /\ CdcLayout(c) # NoLayout => Supports("other", {c}) = "CDC-ACM"
      /\ \A layout \in {FirstBulkLayout(c), CdcLayout(c)} \ {NoLayout} :
            LET number == c[layout.data[1]][1]
            IN  /\ number \in {layout.claims[k] : k \in 1..Len(layout.claims)}
                /\ Last(SelectSeq(layout.selects, LAMBDA s : s[1] = number))[2]
                      = At(c, layout.data)[1]
                /\ At(c, layout.data)[3] /\ At(c, layout.data)[4]
=============================================================================
