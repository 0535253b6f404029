-------------------------------- MODULE Ends --------------------------------
(***************************************************************************)
(* What must come to its end: a hosted match of several rounds, the seats   *)
(* of a stock lobby, those of a game room, opening and closing a USB port;  *)
(* and the rules of a match by themselves.                                  *)
(*                                                                          *)
(* The five do not interact; a behaviour is one of one of them, which       *)
(* `part` names, and the others stay as they begin.                         *)
(***************************************************************************)
EXTENDS MatchRules

CONSTANTS
    RuleRounds,                                                    \* bound of the rules' rounds
    N, SEEDS, OUTBOX_LIMIT, HEADROOM, GARBAGE_LIMIT, SETTLE_MS, PREPARE_MS, COUNTDOWN_MS,
    RESULT_MS, MaxRounds, Chatty, Attackers, Leavers,              \* of HostedMatch
    Ids, Attempts, READY_MS, LobbyReserve, MaxConnections,         \* of Lobby
    Modes, RoomReserve, Slow, MaxSockets, MaxPlugs,                \* of GameRoom
    Models, BaudRate, Depth, MaxTransfer, MaxOpens, MaxIn, MaxOut     \* of UsbPort

VARIABLES
    part, match, endpoint, toy, lobby, hosted,
    driver, type, gone, device, task, todo, opens, claimed, opened, closing, isOpen,
    stream, wanted, pulling, queue, writing, broken, asked, offset, produced, got, wrote

M == INSTANCE HostedMatch
L == INSTANCE Lobby WITH room <- lobby, RESERVE_MS <- LobbyReserve
G == INSTANCE MCGameRoom WITH room <- hosted, RESERVE_MS <- RoomReserve
U == INSTANCE UsbPort

matchVars == <<match, endpoint, toy>>
usbVars == <<driver, type, gone, device, task, todo, opens, claimed, opened, closing, isOpen,
             stream, wanted, pulling, queue, writing, broken, asked, offset, produced, got, wrote>>
endVars == <<part, vars, matchVars, lobby, hosted, usbVars>>

\* Of a part that does not run one initial state will do.
EndInit ==
    /\ part \in {"rules", "match", "lobby", "room", "usb"}
    /\ Init /\ M!Init /\ L!Init /\ U!Init
    /\ IF part = "room" THEN G!InMatch ELSE G!Init /\ hosted.mode = "hosted"
    /\ part # "usb" => driver = "CDC-ACM"

RulesStep == part = "rules" /\ Next /\ round' <= RuleRounds /\ UNCHANGED <<part, matchVars, lobby, hosted, usbVars>>
MatchStep == part = "match" /\ M!Next /\ UNCHANGED <<part, vars, lobby, hosted, usbVars>>
LobbyStep == part = "lobby" /\ L!Next /\ UNCHANGED <<part, vars, matchVars, hosted, usbVars>>
RoomStep == part = "room" /\ G!Next /\ UNCHANGED <<part, vars, matchVars, lobby, usbVars>>
UsbStep == part = "usb" /\ U!Next /\ UNCHANGED <<part, vars, matchVars, lobby, hosted>>

EndNext == RulesStep \/ MatchStep \/ LobbyStep \/ RoomStep \/ UsbStep

\* The fairness of each part, asked of the part that runs.
EndSpec ==
    /\ EndInit /\ [][EndNext]_endVars
    /\ []<>(part # "match" \/ ~M!TickDue) \/ []<><<part = "match" /\ M!Tick>>_matchVars
    /\ WF_matchVars(part = "match" /\ M!Clock)
    /\ WF_lobby(part = "lobby" /\ L!SweepNow)
    /\ WF_lobby(part = "lobby" /\ L!Clock)
    /\ WF_lobby(part = "lobby" /\ L!ReadyTimeout)
    /\ WF_hosted(part = "room" /\ (\E i \in Ids : G!Waiting(i) \/ G!Overdue(i)) /\ G!Tick)
    /\ WF_hosted(part = "room" /\ G!Clock)
    /\ WF_usbVars(part = "usb" /\ U!Answers)
    /\ WF_usbVars(part = "usb" /\ U!Pulled)

-----------------------------------------------------------------------------
(* Properties                                                               *)

\* HostedMatch: no toy can hold up the match, whatever it does or fails to do.
PhasesEnd == M!PhasesEnd

\* Lobby: Ready does not stay up for ever, and the seat of one who does not
\* come back is freed.
NothingHangs == L!NothingHangs

\* GameRoom: a toy whose seat is lost is not left waiting, and a room in which
\* anybody is there gets an owner who is.
RoomGoesOn == G!LostSeatStops /\ G!OwnerComes

\* UsbPort: the port and its device agree, bytes keep their order, and nothing
\* goes on after it closes; opening and closing end, whatever fails.
UsbRight == part = "usb" => U!PortRight
QuietAfterClose == U!QuietAfterClose
TasksEnd == U!TasksEnd
=============================================================================
