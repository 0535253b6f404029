------------------------------ MODULE StockView ------------------------------
(***************************************************************************)
(* What the Playdate and Gift pages tell their players to do                *)
(* (render and updateStartWindow of web-client/src/ui/stock-lobby.ts), as a *)
(* function of the snapshot a page was sent last: which of the two presses  *)
(* B, when, and which button the page offers.  The snapshots are those of   *)
(* Lobby; a page adds two things of its own, whether its adapter is         *)
(* connected and whether its clock still finds the ready window open.       *)
(***************************************************************************)
EXTENDS Lobby

\* The page of i is a new client's, and online: its socket is open and a
\* snapshot has come.
Pages == {i \in Reached(room) : ~room.m[i].legacy /\ room.seen[i] # <<>>}

Member(i, j) == \E m \in room.seen[i].members : m[1] = j
Peers(i) == {m \in room.seen[i].members : m[1] # i}
PeerConnected(i) == \E m \in Peers(i) : m[3]
PeerAdapter(i) == (CHOOSE m \in Peers(i) : TRUE)[4]

\* The second seat's player is the guest.
Role(i) == IF \E m \in room.seen[i].members : m[1] = i /\ m[2] = 0 THEN "host" ELSE "guest"

\* Faulty variant: the seat decides, whatever was chosen.
IStartBySeat(i) == Role(i) = "guest"
IStart(i) ==
    IF room.seen[i].starterId # None THEN room.seen[i].starterId = i ELSE Role(i) = "guest"

ShownReady(i, inWindow) == room.seen[i].startPrompt = "ready" /\ inWindow

\* The heading, by what it asks of the player.
Heading(i, adapter, inWindow) ==
    LET s == room.seen[i]
        either(mine, theirs) == IF IStart(i) THEN mine ELSE theirs
    IN  CASE ~PeerConnected(i) -> "waiting for a friend"
          [] PeerConnected(i) /\ (~adapter \/ PeerAdapter(i) = "no") -> "both here"
          [] OTHER ->
                CASE ~s.choose -> either("press B once", "open and wait")
                  [] s.choose /\ s.startPrompt = "started" -> "follow your toy"
                  [] s.choose /\ s.startPrompt # "started" ->
                        IF s.outcome = "interrupted" THEN "stopped"
                        ELSE IF ShownReady(i, inWindow) THEN either("press B now", "wait now")
                        ELSE IF s.startPrompt # "none" THEN either("wait for ready", "go and wait")
                        ELSE either("you will press", "you will wait")

\* The button below it, by the message it sends; the starter's is locked while
\* the friend is asked.
Button(i, adapter, inWindow) ==
    LET s == room.seen[i]
        there == PeerConnected(i) /\ adapter /\ PeerAdapter(i) # "no" /\ s.choose
        asked == s.startPrompt # "none"
    IN  IF ~there \/ s.startPrompt = "started" \/ ShownReady(i, inWindow) THEN "none"
        ELSE IF IStart(i) THEN IF s.startPrompt = "prepare" THEN "none" ELSE "prepare"
        ELSE IF asked THEN "ready" ELSE "none"

\* The bar that runs down beside "press B now".
StartWindow(i, adapter, inWindow) ==
    ShownReady(i, inWindow) /\ Heading(i, adapter, inWindow) = "press B now"

\* Whom the choice of a starter would name, from the buttons "me" and "friend".
Choosable(i) ==
    IF ~room.seen[i].choose THEN {}
    ELSE {m[1] : m \in room.seen[i].members} \ {room.seen[i].starterId}

-----------------------------------------------------------------------------
\* The server's reading of a button that was pressed: does it change the room?
Accepted(i, button) ==
    \/ button = "prepare" /\ MayPrompt /\ i = room.starterId
    \/ button = "ready" /\ MayPrompt /\ i # room.starterId /\ room.startPrompt = "prepare"

\* The two pages never send both players to press B, or neither; an old client
\* always sends its own.  A page says "now" only to the starter of a room that
\* is ready, with both adapters, and then it tells the other to wait.  A button
\* that is offered is one the server obeys.
ScreensAgree ==
    \A i \in Pages :
        /\ Member(i, i)
        /\ \A j \in Pages \ {i} : IStart(i) # IStart(j)
        /\ (\E j \in room.members : room.m[j].legacy) => ~IStart(i)
        /\ \A own \in BOOLEAN :
              Heading(i, own, TRUE) = "press B now" =>
                  /\ own /\ StartWindow(i, own, TRUE)
                  /\ room.startPrompt = "ready" /\ room.starterId = i /\ room.readyTimer >= 0
                  /\ \A j \in Pages \ {i} : Heading(j, TRUE, TRUE) = "wait now"
                  /\ \A j \in room.members : room.m[j].adapter = "yes"
        /\ LET button == Button(i, room.m[i].adapter = "yes", TRUE)
           IN  button # "none" => Accepted(i, button)
        /\ Choosable(i) # {} => CanChooseStarter(room) /\ Choosable(i) \subseteq room.members
=============================================================================
