------------------------------- MODULE Preview -------------------------------
(***************************************************************************)
(* What a page shows of an exchange: the Playdate page (web-client/src/     *)
(* main.ts, ui/scene.ts, ui/screen-exchange.ts) with ghosts, hearts and     *)
(* predictions, and the Gift page (gifts.ts, gift/scene.ts) with items.     *)
(*                                                                          *)
(* A session of the preview begins whenever the room's socket, the adapter  *)
(* or the peer changes (stock-link.ts).  Packets are decrypted and pictures *)
(* loaded asynchronously, so that what comes may be of a session that is    *)
(* over; every value carries the session whose bytes it came from, a        *)
(* history the code does not keep.  Colours, animations and wording are     *)
(* left out.                                                                *)
(***************************************************************************)
EXTENDS Integers, Sequences

CONSTANTS
    Items, Catalogue,         \* item ids, those the catalogue has
    MaxSessions, MaxPackets   \* bounds of the model

Sources == {"local", "peer"}
Other(src) == IF src = "local" THEN "peer" ELSE "local"
Absent == [of |-> 0]

-----------------------------------------------------------------------------
(* play-prediction.ts                                                       *)

Traits == [stage : {4, 5}, consumer : BOOLEAN, consumee : BOOLEAN, unbreedable : BOOLEAN,
           hunger : {2, 3, 6}, happiness : {5, 6}]

Only(t, this, other) == t[this] /\ ~t[other]
Bad(t) == t.hunger <= 2 \/ t.happiness <= 5
\* Faulty variant: who carries both attributes eats.
predictPlayTypeInclusive(local, peer, friendship) ==
    LET hungry == local.hunger < 6 \/ peer.hunger < 6
    IN  IF hungry /\ local.consumer /\ peer.consumee THEN [code |-> 2, breed |-> FALSE]
        ELSE IF hungry /\ peer.consumer /\ local.consumee THEN [code |-> 3, breed |-> FALSE]
        ELSE IF Bad(local) /\ Bad(peer) THEN [code |-> 1, breed |-> FALSE]
        ELSE [code |-> 0, breed |-> local.stage = 5 /\ peer.stage = 5 /\ friendship = 4
                                    /\ ~local.unbreedable /\ ~peer.unbreedable]
\* 0 played, 1 fought, 2 ate the peer, 3 eaten by it.
predictPlayType(local, peer, friendship) ==
    LET hungry == local.hunger < 6 \/ peer.hunger < 6
        eats(a, b) == Only(a, "consumer", "consumee") /\ Only(b, "consumee", "consumer")
    IN  IF hungry /\ eats(local, peer) THEN [code |-> 2, breed |-> FALSE]
        ELSE IF hungry /\ eats(peer, local) THEN [code |-> 3, breed |-> FALSE]
        ELSE IF Bad(local) /\ Bad(peer) THEN [code |-> 1, breed |-> FALSE]
        ELSE [code |-> 0, breed |-> local.stage = 5 /\ peer.stage = 5 /\ friendship = 4
                                    /\ ~local.unbreedable /\ ~peer.unbreedable]

Smaller(a, b) == IF a < b THEN a ELSE b
projectFriendship(friendship, code, localInLove, peerInLove) ==
    IF friendship <= 0 \/ code # 0 THEN friendship
    ELSE Smaller(4, friendship + 1 + (IF localInLove THEN 1 ELSE 0) + (IF peerInLove THEN 1 ELSE 0))

-----------------------------------------------------------------------------
VARIABLES
    page,       \* "playdate" or "gift"
    session,    \* sessions begun
    decoding,   \* per stream: packets whose chunks are being decrypted
    sides,      \* main.ts: what is known of the two toys
    friendship, \* main.ts: currentFriendship
    scene,      \* the two slots, and the hearts
    lines,      \* ExchangeScreen.ghostLines; on the Gift page the offers
    loading,    \* pictures of items that are being loaded
    packets     \* counter of the bound

previewVars == <<page, session, decoding, sides, friendship, scene, lines, loading, packets>>

Nothing == [src \in Sources |-> Absent]
Unknown == [ghost |-> Absent, playData |-> Absent]

Init ==
    /\ page \in {"playdate", "gift"} /\ session = 1 /\ packets = 0
    /\ decoding = [src \in Sources |-> <<>>] /\ loading = {}
    /\ sides = [src \in Sources |-> Unknown] /\ friendship = Absent
    /\ scene = [slot |-> Nothing, hearts |-> Absent] /\ lines = Nothing

\* beginSession(): everything kept of the exchange goes, and the observers start
\* afresh: what they are decrypting will not be reported.
BeginSession ==
    /\ session < MaxSessions /\ session' = session + 1
    /\ sides' = [src \in Sources |-> Unknown] /\ friendship' = Absent
    /\ lines' = Nothing /\ scene' = [slot |-> Nothing, hearts |-> Absent]
    /\ UNCHANGED <<page, decoding, loading, packets>>

\* The last bytes of a packet come in.  External: the toy that sends it.
Arrives(src, packet) ==
    /\ packets < MaxPackets /\ packets' = packets + 1
    /\ decoding' = [decoding EXCEPT ![src] = Append(@, packet)]
    /\ UNCHANGED <<page, session, sides, friendship, scene, lines, loading>>

Hearts(n, of) == [level |-> IF n < 0 THEN 0 ELSE Smaller(4, n), of |-> of]

\* Two bytes: the friendship before the playdate.
ShowFriendship(p) ==
    /\ friendship' = [level |-> p.level, of |-> p.of]
    /\ scene' = [scene EXCEPT !.hearts = Hearts(p.level, p.of)]
    /\ UNCHANGED <<sides, lines, loading>>

\* Four bytes: how it went.  The hearts follow what the toys are going to record.
ShowResult(p) ==
    /\ scene' = IF friendship = Absent THEN scene
                ELSE LET loves(src) == IF sides[src].playData = Absent THEN FALSE
                                       ELSE sides[src].playData.inLove
                         level == projectFriendship(friendship.level, p.result,
                                                    loves("local"), loves("peer"))
                     IN  [scene EXCEPT !.hearts = Hearts(level, friendship.of)]
    /\ UNCHANGED <<sides, friendship, lines, loading>>

\* A ghost.  One that does not parse is not shown; one that parses and does not
\* render has a line and no picture.
ShowGhost(src, p) ==
    IF ~p.parses THEN UNCHANGED <<sides, friendship, scene, lines, loading>>
    ELSE /\ sides' = [sides EXCEPT ![src] = [ghost |-> [of |-> p.of],
                                             playData |-> IF p.tail THEN [inLove |-> p.inLove, of |-> p.of]
                                                          ELSE @.playData]]
         /\ lines' = [lines EXCEPT ![src] = [of |-> p.of]]
         /\ scene' = IF p.renders THEN [scene EXCEPT !.slot[src] = [of |-> p.of]] ELSE scene
         /\ UNCHANGED <<friendship, loading>>

\* An item on offer.  One that is offered again is left as it is; a picture is
\* loaded for one the catalogue has, for the slot as it is now.
getItemCatalogEntry(id) == id \in Catalogue
ShowItem(src, p) ==
    /\ lines' = [lines EXCEPT ![src] = [item |-> p.item, of |-> p.of]]
    /\ LET old == scene.slot[src] IN
       IF old # Absent /\ (old # Absent => old.item = p.item) THEN UNCHANGED <<scene, loading>>
       ELSE LET state == [item |-> p.item, image |-> 0, of |-> p.of, at |-> packets + session] IN
            /\ scene' = [scene EXCEPT !.slot[src] = state]
            /\ loading' = IF getItemCatalogEntry(p.item) THEN loading \cup {[src |-> src, state |-> state]}
                          ELSE loading
    /\ UNCHANGED <<sides, friendship>>

Handle(src, p) ==
    CASE p.kind = "other" -> UNCHANGED <<sides, friendship, scene, lines, loading>>
      [] p.kind = "friendship" -> ShowFriendship(p)
      [] p.kind = "result" -> ShowResult(p)
      [] p.kind = "ghost" -> ShowGhost(src, p)
      [] p.kind = "item" -> ShowItem(src, p)

\* A packet has been decrypted.  The observer reports those of its session
\* (Observer.tla, PacketsGenuine).
Decoded(src) ==
    /\ decoding[src] # <<>>
    /\ decoding' = [decoding EXCEPT ![src] = Tail(@)]
    /\ LET p == Head(decoding[src]) IN
       IF p.of = session THEN Handle(src, p) ELSE UNCHANGED <<sides, friendship, scene, lines, loading>>
    /\ UNCHANGED <<page, session, packets>>

\* Faulty variant: the picture goes to the slot, whatever is there by now.
LoadedIntoSlot(load) ==
    /\ loading' = loading \ {load}
    /\ scene' = IF scene.slot[load.src] = Absent THEN scene
                ELSE [scene EXCEPT !.slot[load.src].image = load.state.item]
    /\ UNCHANGED <<page, session, decoding, sides, friendship, lines, packets>>
\* A picture is there: it belongs to the slot it was loaded for, and to no other.
Loaded(load) ==
    /\ loading' = loading \ {load}
    /\ scene' = IF scene.slot[load.src] = load.state
                THEN [scene EXCEPT !.slot[load.src].image = load.state.item] ELSE scene
    /\ UNCHANGED <<page, session, decoding, sides, friendship, lines, packets>>

\* What a toy may send in session n.
PlaydatePackets(n) ==
    [kind : {"other"}, of : {n}] \cup [kind : {"friendship"}, level : {0, 3, 5}, of : {n}]
    \cup [kind : {"result"}, result : {0, 1}, of : {n}]
    \cup {g \in [kind : {"ghost"}, parses : BOOLEAN, renders : BOOLEAN, tail : BOOLEAN,
                 inLove : BOOLEAN, of : {n}] :
             (g.renders \/ g.tail => g.parses) /\ (g.inLove => g.tail)}
GiftPackets(n) == [kind : {"other"}, of : {n}] \cup [kind : {"item"}, item : Items, of : {n}]
PacketsOf(n) == IF page = "playdate" THEN PlaydatePackets(n) ELSE GiftPackets(n)

Next ==
    \/ BeginSession
    \/ \E src \in Sources :
          \/ \E p \in PacketsOf(session) : Arrives(src, p)
          \/ Decoded(src)
    \/ \E load \in loading : Loaded(load)

Spec == Init /\ [][Next]_previewVars

-----------------------------------------------------------------------------
\* Nothing a page shows or reckons with is of a session that is over, and a
\* picture stands beside the item it shows, however late packets are decrypted
\* and pictures loaded; the hearts never show more than there are.
ShownIsCurrent ==
    LET current(x) == x.of \in {0, session} IN
    /\ \A src \in Sources :
          /\ current(sides[src].ghost) /\ current(sides[src].playData)
          /\ current(scene.slot[src]) /\ current(lines[src])
          /\ page = "gift" /\ scene.slot[src] # Absent =>
                /\ scene.slot[src].image \in {0, scene.slot[src].item}
                /\ lines[src].item = scene.slot[src].item
    /\ current(friendship) /\ current(scene.hearts)
    /\ scene.hearts # Absent => scene.hearts.level \in 0..4

\* The two players are told the same story: what one page predicts is the mirror
\* image of what the other does, and both project the same friendship, which
\* never falls and stays within the hearts there are.  Only the Playdate page
\* predicts, and what it does so from is all in the two arguments: a page that
\* has just begun will do.
PagesAgree ==
    page = "playdate" /\ session = 1 /\ packets = 0 =>
        /\ \A a, b \in Traits, f \in {3, 4} :
              LET mine == predictPlayType(a, b, f)
                  theirs == predictPlayType(b, a, f)
              IN  /\ theirs.code = IF mine.code = 2 THEN 3 ELSE IF mine.code = 3 THEN 2 ELSE mine.code
                  /\ theirs.breed = mine.breed /\ (mine.breed => mine.code = 0)
        /\ \A f \in 0..4, r \in 0..4, l, p \in BOOLEAN :
              /\ projectFriendship(f, r, l, p) = projectFriendship(f, r, p, l)
              /\ projectFriendship(f, r, l, p) \in f..4
=============================================================================
