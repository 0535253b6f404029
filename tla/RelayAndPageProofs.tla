-------------------------- MODULE RelayAndPageProofs ------------------------
(***************************************************************************)
(* The relay, and the browser's pages that meet on it, for any number of    *)
(* sockets, adapters, bridges, sessions and packets.                        *)
(*                                                                          *)
(* What a page shows of an exchange is of the exchange there is now         *)
(* (ShownIsCurrent), and the two players' pages foretell the same           *)
(* (PagesAgree).                                                            *)
(*                                                                          *)
(* The games page agrees with its adapter and its seat (PageHolds).  The    *)
(* invariant follows what was said and not yet heard, on both lines of the  *)
(* socket: Core holds within a handler too, so that there is one lemma for  *)
(* each method of the page, and Offered between the handlers.               *)
(***************************************************************************)
EXTENDS Preview, GamePage, Relay, TLAPS

Pages == {"playdate", "gift"}
Marked(n) == [of : {n}]
Offers(n) == [item : Items, image : Items \cup {0}, of : {n}, at : Int]
OfferedItem(n) == [item : Items, of : {n}]
PlayData(n) == [inLove : BOOLEAN, of : {n}]
Levels(n) == [level : Int, of : {n}]
Drawn(n) == [level : 0..4, of : {n}]

\* What a packet of the page's toys may be, of whatever session.
Sent == UNION {PacketsOf(n) : n \in Nat}
\* A picture is on its way for an offer of whatever session.
Loads == [src : Sources, state : UNION {Offers(n) : n \in Nat}]

\* All that is kept is empty, or of this session.
Kept ==
    /\ sides \in [Sources -> [ghost : {Absent} \cup Marked(session),
                              playData : {Absent} \cup PlayData(session)]]
    /\ friendship \in {Absent} \cup Levels(session)
    /\ scene \in [slot : [Sources -> {Absent} \cup (IF page = "gift" THEN Offers(session)
                                                    ELSE Marked(session))],
                  hearts : {Absent} \cup Drawn(session)]
    /\ lines \in [Sources -> {Absent} \cup (IF page = "gift" THEN OfferedItem(session)
                                            ELSE Marked(session))]

\* What is under way.
UnderWay ==
    /\ page \in Pages /\ session \in Nat \ {0} /\ packets \in Nat
    /\ decoding \in [Sources -> Seq(Sent)]
    /\ loading \in SUBSET Loads
    /\ page = "playdate" => loading = {}

\* An offer that is shown is the one its line names, with no picture but its own.
Paired ==
    page = "gift" =>
        \A src \in Sources : scene.slot[src] # Absent =>
            /\ scene.slot[src].image \in {0, scene.slot[src].item}
            /\ lines[src] # Absent /\ lines[src].item = scene.slot[src].item

PreviewInv == UnderWay /\ Kept /\ Paired

-----------------------------------------------------------------------------
\* What is kept fits what is shown.
LEMMA KeptIsCurrent == PreviewInv => ShownIsCurrent
<1> SUFFICES ASSUME PreviewInv PROVE ShownIsCurrent
  OBVIOUS
<1>1. session # 0
  BY DEF PreviewInv, UnderWay
<1>2. ASSUME NEW src \in Sources
      PROVE  /\ sides[src].ghost.of \in {0, session} /\ sides[src].playData.of \in {0, session}
             /\ scene.slot[src].of \in {0, session} /\ lines[src].of \in {0, session}
             /\ page = "gift" /\ scene.slot[src] # Absent =>
                   /\ scene.slot[src].image \in {0, scene.slot[src].item}
                   /\ lines[src].item = scene.slot[src].item
  <2>1. sides[src].ghost.of \in {0, session} /\ sides[src].playData.of \in {0, session}
    BY DEF PreviewInv, Kept, Absent, Marked, PlayData
  <2>2. scene.slot[src].of \in {0, session}
    <3>1. scene.slot[src] \in {Absent} \cup Offers(session) \cup Marked(session)
      BY DEF PreviewInv, Kept
    <3> QED
      BY <3>1 DEF Absent, Marked, Offers
  <2>3. lines[src].of \in {0, session}
    <3>1. lines[src] \in {Absent} \cup OfferedItem(session) \cup Marked(session)
      BY DEF PreviewInv, Kept
    <3> QED
      BY <3>1 DEF Absent, Marked, OfferedItem
  <2> QED
    BY <2>1, <2>2, <2>3 DEF PreviewInv, Paired
<1>3. friendship.of \in {0, session} /\ scene.hearts.of \in {0, session}
  BY DEF PreviewInv, Kept, Absent, Levels, Drawn
<1>4. scene.hearts # Absent => scene.hearts.level \in 0..4
  BY DEF PreviewInv, Kept, Drawn
<1> QED
  BY <1>2, <1>3, <1>4 DEF ShownIsCurrent

\* An empty page is as it should be.
LEMMA EmptyIsKept ==
    /\ Unknown \in [ghost : {Absent} \cup Marked(session), playData : {Absent} \cup PlayData(session)]
    /\ Nothing = [src \in Sources |-> Absent]
  BY DEF Unknown, Nothing

\* A page that has begun is as it should be.
LEMMA PreviewInit == Init => PreviewInv
<1> SUFFICES ASSUME Init PROVE PreviewInv
  OBVIOUS
<1>1. UnderWay
  BY DEF Init, UnderWay, Pages, Sources
<1>2. Kept
  BY EmptyIsKept DEF Init, Kept
<1>3. Paired
  BY DEF Init, Paired, Nothing
<1> QED
  BY <1>1, <1>2, <1>3 DEF PreviewInv

\* The hearts are never more than there are, whatever the level.
LEMMA HeartsFit == ASSUME NEW n \in Int, NEW of PROVE Hearts(n, of) \in Drawn(of)
  BY DEF Hearts, Drawn, Smaller

\* A level that is projected is a number.
LEMMA ProjectedFits ==
    ASSUME NEW n \in Int, NEW code, NEW a, NEW b
    PROVE  projectFriendship(n, code, a, b) \in Int
  BY DEF projectFriendship, Smaller

-----------------------------------------------------------------------------
\* A packet of this session changes what is kept, and keeps it of this session.
Stays == UNCHANGED <<page, session>>

\* What the friendship packet of a session shows is of that session.
LEMMA FriendshipKept ==
    ASSUME PreviewInv, Stays, NEW p, p.of = session, p.level \in Int, ShowFriendship(p)
    PROVE  Kept' /\ Paired' /\ loading' = loading
<1>1. friendship' \in Levels(session) /\ sides' = sides /\ lines' = lines /\ loading' = loading
  BY DEF ShowFriendship, Levels
<1>2. scene' = [scene EXCEPT !.hearts = Hearts(p.level, session)]
  BY DEF ShowFriendship
<1>3. scene'.slot = scene.slot /\ scene'.hearts \in Drawn(session)
      /\ scene' \in [slot : {scene.slot}, hearts : Drawn(session)]
  BY <1>2, HeartsFit DEF PreviewInv, Kept
<1> QED
  BY <1>1, <1>3 DEF PreviewInv, Kept, Paired, Stays

\* So is what its result packet shows, the level before it being of the session.
LEMMA ResultKept ==
    ASSUME PreviewInv, Stays, NEW p, p.of = session, ShowResult(p)
    PROVE  Kept' /\ Paired' /\ loading' = loading
<1>1. sides' = sides /\ friendship' = friendship /\ lines' = lines /\ loading' = loading
  BY DEF ShowResult
<1>2. CASE friendship = Absent
  <2>1. scene' = scene
    BY <1>2 DEF ShowResult
  <2> QED
    BY <1>1, <2>1 DEF PreviewInv, Kept, Paired, Stays
<1>3. CASE friendship # Absent
  <2>1. PICK n \in Int : scene' = [scene EXCEPT !.hearts = Hearts(n, session)]
    <3>1. friendship.level \in Int /\ friendship.of = session
      BY <1>3 DEF PreviewInv, Kept, Levels
    <3> QED
      BY <1>3, <3>1, ProjectedFits DEF ShowResult
  <2>2. scene'.slot = scene.slot /\ scene' \in [slot : {scene.slot}, hearts : Drawn(session)]
    BY <2>1, HeartsFit DEF PreviewInv, Kept
  <2> QED
    BY <1>1, <2>2 DEF PreviewInv, Kept, Paired, Stays
<1> QED
  BY <1>2, <1>3

\* So is what a side's ghost shows, the words of both sides with it.
LEMMA GhostKept ==
    ASSUME PreviewInv, Stays, page = "playdate", NEW src \in Sources, NEW p, p.of = session,
           p.inLove \in BOOLEAN, ShowGhost(src, p)
    PROVE  Kept' /\ Paired' /\ loading' = loading
<1>1. CASE ~p.parses
  BY <1>1 DEF ShowGhost, PreviewInv, Kept, Paired, Stays
<1>2. CASE p.parses
  <2>1. friendship' = friendship /\ loading' = loading
    BY <1>2 DEF ShowGhost
  <2>2. sides' \in [Sources -> [ghost : {Absent} \cup Marked(session),
                                playData : {Absent} \cup PlayData(session)]]
    <3>1. PICK d \in {Absent} \cup PlayData(session) :
              sides' = [sides EXCEPT ![src] = [ghost |-> [of |-> session], playData |-> d]]
      <4>1. sides[src].playData \in {Absent} \cup PlayData(session)
        BY DEF PreviewInv, Kept
      <4>2. [inLove |-> p.inLove, of |-> session] \in PlayData(session)
        BY DEF PlayData
      <4>3. sides' = [sides EXCEPT ![src] = [ghost |-> [of |-> session],
                         playData |-> IF p.tail THEN [inLove |-> p.inLove, of |-> session]
                                      ELSE sides[src].playData]]
        BY <1>2 DEF ShowGhost
      <4> QED
        BY <4>1, <4>2, <4>3
    <3>2. [of |-> session] \in Marked(session)
      BY DEF Marked
    <3> QED
      BY <3>1, <3>2 DEF PreviewInv, Kept
  <2>3. lines' \in [Sources -> {Absent} \cup Marked(session)]
    BY <1>2 DEF ShowGhost, PreviewInv, Kept, Marked
  <2>4. scene' \in [slot : [Sources -> {Absent} \cup Marked(session)],
                    hearts : {Absent} \cup Drawn(session)]
    <3>1. scene' = scene \/ scene' = [scene EXCEPT !.slot[src] = [of |-> session]]
      BY <1>2 DEF ShowGhost
    <3>2. scene \in [slot : [Sources -> {Absent} \cup Marked(session)],
                     hearts : {Absent} \cup Drawn(session)]
      BY DEF PreviewInv, Kept
    <3>3. [of |-> session] \in Marked(session)
      BY DEF Marked
    <3> QED
      BY <3>1, <3>2, <3>3
  <2> QED
    BY <2>1, <2>2, <2>3, <2>4 DEF PreviewInv, Kept, Paired, Stays
<1> QED
  BY <1>1, <1>2

\* An offer takes the slot without a picture, unless it is there already.
LEMMA ItemKept ==
    ASSUME PreviewInv, Stays, page = "gift", NEW src \in Sources, NEW p, p.of = session,
           p.item \in Items, ShowItem(src, p)
    PROVE  Kept' /\ Paired' /\ loading' \in SUBSET Loads
<1> DEFINE line == [item |-> p.item, of |-> session]
           new == [item |-> p.item, image |-> 0, of |-> session, at |-> packets + session]
           old == scene.slot[src]
<1>1. line \in OfferedItem(session) /\ line.item = p.item
  BY DEF OfferedItem
<1>2. new \in Offers(session) /\ new.item = p.item /\ new.image = 0
  BY DEF Offers, PreviewInv, UnderWay
<1>3. sides' = sides /\ friendship' = friendship /\ lines' = [lines EXCEPT ![src] = line]
  BY DEF ShowItem
<1>4. /\ scene.slot \in [Sources -> {Absent} \cup Offers(session)]
      /\ lines \in [Sources -> {Absent} \cup OfferedItem(session)]
      /\ scene \in [slot : {scene.slot}, hearts : {Absent} \cup Drawn(session)]
  BY DEF PreviewInv, Kept
<1>5. lines' \in [Sources -> {Absent} \cup OfferedItem(session)] /\ lines'[src] = line
      /\ \A s \in Sources \ {src} : lines'[s] = lines[s]
  BY <1>1, <1>3, <1>4
<1>6. line # Absent
  BY DEF Absent, PreviewInv, UnderWay
<1>7. CASE old # Absent /\ old.item = p.item
  <2>1. scene' = scene /\ loading' = loading
    BY <1>7 DEF ShowItem
  <2>2. Kept'
    BY <1>3, <1>5, <2>1 DEF PreviewInv, Kept, Stays
  <2>3. ASSUME NEW s \in Sources, scene.slot[s] # Absent
        PROVE  /\ scene.slot[s].image \in {0, scene.slot[s].item}
               /\ lines'[s] # Absent /\ lines'[s].item = scene.slot[s].item
    BY <1>1, <1>5, <1>6, <1>7, <2>3 DEF PreviewInv, Paired
  <2>4. Paired'
    BY <2>1, <2>3 DEF Paired
  <2> QED
    BY <2>1, <2>2, <2>4 DEF PreviewInv, UnderWay
<1>8. CASE ~(old # Absent /\ old.item = p.item)
  <2>1. scene' = [scene EXCEPT !.slot[src] = new]
    BY <1>8 DEF ShowItem
  <2>2. loading' = loading \/ loading' = loading \cup {[src |-> src, state |-> new]}
    BY <1>8 DEF ShowItem
  <2>3. [src |-> src, state |-> new] \in Loads
    <3>1. new \in UNION {Offers(n) : n \in Nat}
      BY <1>2 DEF PreviewInv, UnderWay
    <3> HIDE DEF new
    <3> QED
      BY <3>1 DEF Loads
  <2> HIDE DEF new, line
  <2>4. scene' \in [slot : [Sources -> {Absent} \cup Offers(session)], hearts : {Absent} \cup Drawn(session)]
        /\ scene'.slot[src] = new /\ \A s \in Sources \ {src} : scene'.slot[s] = scene.slot[s]
    BY <1>2, <1>4, <2>1
  <2>5. Kept'
    BY <1>3, <1>5, <2>4 DEF PreviewInv, Kept, Stays
  <2>6. ASSUME NEW s \in Sources, scene'.slot[s] # Absent
        PROVE  /\ scene'.slot[s].image \in {0, scene'.slot[s].item}
               /\ lines'[s] # Absent /\ lines'[s].item = scene'.slot[s].item
    BY <1>1, <1>2, <1>5, <1>6, <2>4, <2>6 DEF PreviewInv, Paired
  <2>7. Paired'
    BY <2>6 DEF Paired
  <2> QED
    BY <2>2, <2>3, <2>5, <2>7 DEF PreviewInv, UnderWay
<1> QED
  BY <1>7, <1>8

-----------------------------------------------------------------------------
\* What a packet may be.
LEMMA PacketsFit ==
    ASSUME page \in Pages, NEW p \in Sent
    PROVE  /\ p.kind \in {"other", "friendship", "result", "ghost", "item"}
           /\ p.kind = "friendship" => p.level \in Int
           /\ p.kind = "ghost" => page = "playdate" /\ p.inLove \in BOOLEAN
           /\ p.kind = "item" => page = "gift" /\ p.item \in Items
<1>1. PICK n \in Nat : p \in PacketsOf(n)
  BY DEF Sent
<1>2. CASE page = "playdate"
  <2>1. p \in PlaydatePackets(n)
    BY <1>1, <1>2 DEF PacketsOf
  <2> QED
    BY <1>2, <2>1 DEF PlaydatePackets
<1>3. CASE page = "gift"
  <2>1. p \in GiftPackets(n)
    BY <1>1, <1>3 DEF PacketsOf
  <2> QED
    BY <1>3, <2>1 DEF GiftPackets
<1> QED
  BY <1>2, <1>3 DEF Pages

\* A packet decoded is shown when it is of the session that is now, and only then.
LEMMA DecodedKept ==
    ASSUME PreviewInv, NEW src \in Sources, Decoded(src)
    PROVE  PreviewInv'
<1> DEFINE p == Head(decoding[src])
<1>1. /\ decoding[src] \in Seq(Sent) /\ decoding[src] # <<>>
      /\ decoding' = [decoding EXCEPT ![src] = Tail(decoding[src])]
      /\ page' = page /\ session' = session /\ packets' = packets
      /\ IF p.of = session THEN Handle(src, p) ELSE UNCHANGED <<sides, friendship, scene, lines, loading>>
  BY DEF Decoded, PreviewInv, UnderWay
<1>2. p \in Sent /\ decoding' \in [Sources -> Seq(Sent')]
  <2>1. Sent' = Sent
    BY <1>1 DEF Sent, PacketsOf, PlaydatePackets, GiftPackets
  <2> QED
    BY <1>1, <2>1 DEF PreviewInv, UnderWay
<1>3. Stays
  BY <1>1 DEF Stays
<1>4. page \in Pages
  BY DEF PreviewInv, UnderWay
<1>5. ASSUME UNCHANGED <<sides, friendship, scene, lines, loading>>
      PROVE  Kept' /\ Paired' /\ loading' = loading
  BY <1>1, <1>5 DEF PreviewInv, Kept, Paired
<1> HIDE DEF p
<1>6. /\ Kept' /\ Paired' /\ loading' \in SUBSET Loads
      /\ page = "playdate" => loading' = loading
  <2>0. loading \in SUBSET Loads
    BY DEF PreviewInv, UnderWay
  <2>1. CASE p.of # session
    BY <1>1, <1>5, <2>0, <2>1
  <2>2. CASE p.of = session
    <3>1. Handle(src, p)
      BY <1>1, <2>2
    <3>2. CASE p.kind = "other"
      <4>1. UNCHANGED <<sides, friendship, scene, lines, loading>>
        BY <3>1, <3>2 DEF Handle
      <4> QED
        BY <1>5, <2>0, <4>1
    <3>3. CASE p.kind = "friendship"
      <4>1. ShowFriendship(p) /\ p.level \in Int
        BY <1>2, <1>4, <3>1, <3>3, PacketsFit DEF Handle
      <4> QED
        BY <1>3, <2>0, <2>2, <4>1, FriendshipKept
    <3>4. CASE p.kind = "result"
      <4>1. ShowResult(p)
        BY <3>1, <3>4 DEF Handle
      <4> QED
        BY <1>3, <2>0, <2>2, <4>1, ResultKept
    <3>5. CASE p.kind = "ghost"
      <4>1. ShowGhost(src, p) /\ page = "playdate" /\ p.inLove \in BOOLEAN
        BY <1>2, <1>4, <3>1, <3>5, PacketsFit DEF Handle
      <4> QED
        BY <1>3, <2>0, <2>2, <4>1, GhostKept
    <3>6. CASE p.kind = "item"
      <4>1. ShowItem(src, p) /\ page = "gift" /\ p.item \in Items
        BY <1>2, <1>4, <3>1, <3>6, PacketsFit DEF Handle
      <4> QED
        BY <1>3, <2>2, <4>1, ItemKept
    <3> QED
      BY <1>2, <1>4, <3>2, <3>3, <3>4, <3>5, <3>6, PacketsFit
  <2> QED
    BY <2>1, <2>2
<1>7. UnderWay'
  BY <1>1, <1>2, <1>6 DEF PreviewInv, UnderWay, Loads, Offers
<1> QED
  BY <1>6, <1>7 DEF PreviewInv

\* A picture that has loaded is drawn for the session it was asked for, or for none.
LEMMA LoadedKept ==
    ASSUME PreviewInv, NEW load \in loading, Loaded(load)
    PROVE  PreviewInv'
<1>1. /\ loading' = loading \ {load} /\ UNCHANGED <<page, session, decoding, sides, friendship, lines, packets>>
      /\ page = "gift" /\ load \in Loads
  BY DEF Loaded, PreviewInv, UnderWay, Pages
<1>2. UnderWay'
  BY <1>1 DEF PreviewInv, UnderWay, Loads, Sent, PacketsOf, PlaydatePackets, GiftPackets, Offers
<1> DEFINE src == load.src
           item == load.state.item
<1>3. src \in Sources /\ item \in Items
  BY <1>1 DEF Loads, Offers
<1>4. CASE scene.slot[src] # load.state
  <2>1. scene' = scene
    BY <1>4 DEF Loaded
  <2> QED
    BY <1>1, <1>2, <2>1 DEF PreviewInv, Kept, Paired
<1>5. CASE scene.slot[src] = load.state
  <2> DEFINE new == [scene.slot[src] EXCEPT !.image = item]
  <2>1. scene' = [scene EXCEPT !.slot[src] = new]
    BY <1>3, <1>5 DEF Loaded, PreviewInv, Kept
  <2>2. scene.slot[src] \in Offers(session) /\ item = scene.slot[src].item
    <3>1. load.state \in UNION {Offers(n) : n \in Nat}
      BY <1>1 DEF Loads
    <3>2. scene.slot[src] # Absent
      BY <1>5, <3>1 DEF Offers, Absent
    <3> QED
      BY <1>1, <1>3, <1>5, <3>2 DEF PreviewInv, Kept
  <2>3. new \in Offers(session) /\ new.item = item /\ new.image = item
    BY <1>3, <2>2 DEF Offers
  <2> HIDE DEF new, item, src
  <2>4. /\ scene' \in [slot : [Sources -> {Absent} \cup Offers(session)], hearts : {Absent} \cup Drawn(session)]
        /\ scene'.slot[src] = new /\ \A s \in Sources \ {src} : scene'.slot[s] = scene.slot[s]
    BY <1>1, <1>3, <2>1, <2>3 DEF PreviewInv, Kept
  <2>5. Kept'
    BY <1>1, <2>4 DEF PreviewInv, Kept
  <2>6. scene.slot[src] # Absent
    BY <2>2 DEF Offers, Absent
  <2>7. ASSUME NEW s \in Sources, scene'.slot[s] # Absent
        PROVE  /\ scene'.slot[s].image \in {0, scene'.slot[s].item}
               /\ lines[s] # Absent /\ lines[s].item = scene'.slot[s].item
    BY <1>1, <2>2, <2>3, <2>4, <2>6, <2>7 DEF PreviewInv, Paired
  <2>8. Paired'
    BY <1>1, <2>7 DEF Paired
  <2> QED
    BY <1>2, <2>5, <2>8 DEF PreviewInv
<1> QED
  BY <1>4, <1>5

\* Every step of the page keeps the invariant.
LEMMA PreviewNext == PreviewInv /\ [Next]_previewVars => PreviewInv'
<1> SUFFICES ASSUME PreviewInv, [Next]_previewVars PROVE PreviewInv'
  OBVIOUS
<1>1. CASE BeginSession
  <2>1. UnderWay'
    BY <1>1 DEF BeginSession, PreviewInv, UnderWay, Sent, PacketsOf, PlaydatePackets, GiftPackets,
       Loads, Offers
  <2>2. Kept'
    BY <1>1 DEF BeginSession, Kept, Unknown, Nothing
  <2>3. Paired'
    BY <1>1 DEF BeginSession, Paired, Nothing
  <2> QED
    BY <2>1, <2>2, <2>3 DEF PreviewInv
<1>2. ASSUME NEW src \in Sources, NEW p \in PacketsOf(session), Arrives(src, p)
      PROVE  PreviewInv'
  <2>1. /\ decoding' = [decoding EXCEPT ![src] = Append(decoding[src], p)] /\ packets' = packets + 1
        /\ UNCHANGED <<page, session, sides, friendship, scene, lines, loading>>
    BY <1>2 DEF Arrives, PreviewInv, UnderWay
  <2>2. p \in Sent
    BY DEF Sent, PreviewInv, UnderWay
  <2>3. Sent' = Sent
    BY <2>1 DEF Sent, PacketsOf, PlaydatePackets, GiftPackets
  <2>4. decoding' \in [Sources -> Seq(Sent)]
    BY <2>1, <2>2 DEF PreviewInv, UnderWay
  <2>5. UnderWay'
    BY <2>1, <2>3, <2>4 DEF PreviewInv, UnderWay, Loads, Offers
  <2> QED
    BY <2>1, <2>5 DEF PreviewInv, Kept, Paired
<1>3. CASE UNCHANGED previewVars
  BY <1>3 DEF previewVars, PreviewInv, UnderWay, Kept, Paired, Sent, PacketsOf, PlaydatePackets,
     GiftPackets, Loads, Offers
<1> QED
  BY <1>1, <1>2, <1>3, DecodedKept, LoadedKept DEF Next, PacketsOf

\* Nothing a page shows or reckons with is of a session that is over, and a
\* picture stands beside the item it shows, however late packets are decrypted
\* and pictures loaded (main.ts, gifts.ts).
THEOREM ShownIsOfNow == Spec => []ShownIsCurrent
<1>1. PreviewInv /\ [Next]_previewVars => PreviewInv'
  BY PreviewNext
<1> QED
  BY <1>1, PreviewInit, KeptIsCurrent, PTL DEF Spec

-----------------------------------------------------------------------------
Animals == [stage : Int, consumer : BOOLEAN, consumee : BOOLEAN, unbreedable : BOOLEAN,
            hunger : Int, happiness : Int]

\* What one page predicts of any two animals is the mirror image of what the
\* other page does.
LEMMA PredictionsMirror ==
    ASSUME NEW a \in Animals, NEW b \in Animals, NEW f \in Int,
           NEW mine, mine = predictPlayType(a, b, f),
           NEW theirs, theirs = predictPlayType(b, a, f)
    PROVE  /\ theirs.code = IF mine.code = 2 THEN 3 ELSE IF mine.code = 3 THEN 2 ELSE mine.code
           /\ theirs.breed = mine.breed /\ (mine.breed => mine.code = 0)
<1> DEFINE hungry(x, y) == x.hunger < 6 \/ y.hunger < 6
           eats(x, y) == Only(x, "consumer", "consumee") /\ Only(y, "consumee", "consumer")
           grown(x, y) == x.stage = 5 /\ y.stage = 5 /\ f = 4 /\ ~x.unbreedable /\ ~y.unbreedable
           says(x, y) == IF hungry(x, y) /\ eats(x, y) THEN [code |-> 2, breed |-> FALSE]
                         ELSE IF hungry(x, y) /\ eats(y, x) THEN [code |-> 3, breed |-> FALSE]
                         ELSE IF Bad(x) /\ Bad(y) THEN [code |-> 1, breed |-> FALSE]
                         ELSE [code |-> 0, breed |-> grown(x, y)]
<1>1. mine = says(a, b) /\ theirs = says(b, a)
  BY DEF predictPlayType
<1>2. ~ (eats(a, b) /\ eats(b, a))
  BY DEF Only
<1>3. (hungry(a, b) <=> hungry(b, a)) /\ (grown(a, b) <=> grown(b, a))
  OBVIOUS
<1>4. grown(a, b) \in BOOLEAN /\ grown(b, a) \in BOOLEAN /\ grown(a, b) = grown(b, a)
  BY <1>3
<1> HIDE DEF hungry, eats, grown
<1>5. CASE hungry(a, b) /\ eats(a, b)
  BY <1>1, <1>2, <1>3, <1>5
<1>6. CASE hungry(a, b) /\ eats(b, a)
  BY <1>1, <1>2, <1>3, <1>6
<1>7. CASE ~ (hungry(a, b) /\ eats(a, b)) /\ ~ (hungry(a, b) /\ eats(b, a))
  <2>1. CASE Bad(a) /\ Bad(b)
    BY <1>1, <1>3, <1>7, <2>1
  <2>2. CASE ~ (Bad(a) /\ Bad(b))
    <3>1. mine = [code |-> 0, breed |-> grown(a, b)] /\ theirs = [code |-> 0, breed |-> grown(b, a)]
      BY <1>1, <1>3, <1>7, <2>2
    <3> QED
      BY <1>4, <3>1
  <2> QED
    BY <2>1, <2>2
<1> QED
  BY <1>5, <1>6, <1>7

\* Both pages project the same friendship, which does not fall.
LEMMA ProjectionsAgree ==
    ASSUME NEW f \in 0..4, NEW r \in Int, NEW l \in BOOLEAN, NEW p \in BOOLEAN
    PROVE  /\ projectFriendship(f, r, l, p) = projectFriendship(f, r, p, l)
           /\ projectFriendship(f, r, l, p) \in f..4
  BY DEF projectFriendship, Smaller

\* The two players are told the same story, whatever their animals are like
\* (play-prediction.ts).
THEOREM PagesDoAgree == Spec => []PagesAgree
<1>1. ASSUME NEW a \in Traits, NEW b \in Traits, NEW f \in {3, 4},
             NEW mine, mine = predictPlayType(a, b, f), NEW theirs, theirs = predictPlayType(b, a, f)
      PROVE  /\ theirs.code = IF mine.code = 2 THEN 3 ELSE IF mine.code = 3 THEN 2 ELSE mine.code
             /\ theirs.breed = mine.breed /\ (mine.breed => mine.code = 0)
  <2>1. a \in Animals /\ b \in Animals /\ f \in Int
    BY DEF Traits, Animals
  <2>2. /\ theirs.code = IF mine.code = 2 THEN 3 ELSE IF mine.code = 3 THEN 2 ELSE mine.code
        /\ theirs.breed = mine.breed /\ (mine.breed => mine.code = 0)
    BY <1>1, <2>1, PredictionsMirror
  <2> QED
    BY <2>2
<1>2. ASSUME NEW f \in 0..4, NEW r \in 0..4, NEW l \in BOOLEAN, NEW p \in BOOLEAN
      PROVE  /\ projectFriendship(f, r, l, p) = projectFriendship(f, r, p, l)
             /\ projectFriendship(f, r, l, p) \in f..4
  BY ProjectionsAgree
<1>3. PagesAgree
  BY <1>1, <1>2 DEF PagesAgree
<1> QED
  BY <1>3, PTL DEF Spec

-----------------------------------------------------------------------------
States == {"new", "connecting", "accepted", "open", "lost", "closed"}
SocketLines == [state : States, up : Seq([connected : BOOLEAN]), down : Seq(Snapshots)]
Scores == [by : Nat \cup {Undefined}, late : BOOLEAN]
Clients ==
    [mode : Modes, saved : BOOLEAN, entry : BOOLEAN, snapshot : Snapshots \cup {Undefined},
     ws : Nat \cup {Undefined}, bridge : Bridges \cup {Undefined}, connecting : BOOLEAN,
     score : Scores, busy : {"init", "no", "enter", "leave", "list"},
     serial : Nat \cup {Undefined}, sink : {"none", "bridge", "install"},
     job : {"no", "open", "close", "load", "install"}, calls : Int,
     writing : Nat \cup {Undefined},
     lines : [1..MaxOpened -> SocketLines], sockets : 0..MaxOpened, bridges : Nat, plugs : Nat]
Texts == [adapter : BOOLEAN, reason : Reasons \cup {Undefined}, match : {"none", "on", "over"},
          connected : BOOLEAN]
Seats ==
    [there : BOOLEAN, ws : Nat \cup {Undefined}, adapter : BOOLEAN,
     reason : Reasons \cup {Undefined}, match : {"none", "on", "over"},
     last : Texts \cup {Undefined}]

Bridge(p) == p.bridge # Undefined
LiveBridge(p) == p.bridge # Undefined /\ p.bridge.live
StateOf(p, x) == p.lines[x].state
Up(p) == p.lines[p.ws].up
Down(p) == p.lines[p.ws].down
View(m) == [adapter |-> m.adapter, reason |-> m.reason, match |-> m.match]

\* The bridge joins what the page has now, and one reads from the adapter.
AdapterFits(p) ==
    /\ Bridge(p) => /\ p.bridge.ws = p.ws /\ p.bridge.serial = p.serial
                    /\ p.serial # Undefined /\ p.ws # Undefined
                    /\ StateOf(p, p.ws) \notin {"connecting", "accepted"}
                    /\ p.score.late \/ p.score.by \in {Undefined, p.bridge.id}
    /\ p.serial = Undefined => ~p.connecting
    /\ p.connecting /\ ~Bridge(p) /\ p.mode = "hosted" => p.snapshot # Undefined
    /\ p.sink = "install" <=> p.job = "install"
    /\ p.sink = "bridge" <=> LiveBridge(p)

\* Only the page's own socket is in use; before it is open nothing was said.
LinesFit(p) ==
    /\ p.ws # Undefined => p.ws \in 1..p.sockets
    /\ \A x \in 1..MaxOpened :
          /\ x # p.ws => StateOf(p, x) \notin Alive
          /\ x > p.sockets => p.lines[x] = Line
          /\ StateOf(p, x) \in {"connecting", "accepted"} => p.lines[x].up = <<>>
          /\ StateOf(p, x) = "connecting" => p.lines[x].down = <<>>
    /\ p.ws # Undefined /\ StateOf(p, p.ws) \in {"connecting", "accepted"} => p.snapshot = Undefined

\* A seat without a toy, and without a reason to be without, has no match.
Coherent(v) == v.reason = Undefined /\ ~v.adapter => v.match = "none"

\* The seat in itself.
SeatFits(p, m) ==
    /\ m.ws # Undefined => m.ws \in 1..p.sockets /\ StateOf(p, m.ws) # "connecting"
    /\ m.ws # Undefined => m.last = Text(m) /\ m.there
    /\ m.ws = Undefined => ~m.adapter
    /\ ~m.there => m = Nobody
    /\ Coherent(m)

\* A hosted room's seat is the one of the page's socket, and that is in use.
Joined(p, m) ==
    /\ p.mode = "hosted" /\ p.ws # Undefined /\ m.ws = p.ws
    /\ StateOf(p, p.ws) \in {"accepted", "open"}

AllOff(p) == \A k \in 1..Len(Up(p)) : ~Up(p)[k].connected

\* The last snapshot under way is the seat as it is, or the one the page has.
Known(p, m) ==
    /\ Down(p) # <<>> => Down(p)[Len(Down(p))] = View(m)
    /\ Down(p) = <<>> => p.snapshot = Undefined \/ p.snapshot = View(m)
    /\ \A k \in 1..Len(Down(p)) : Coherent(Down(p)[k])

\* Matches end one at a time: a page that hears of the end of one has said
\* nothing since but that it has no adapter.
OneMatch(p, m) ==
    /\ \A j, k \in 1..Len(Down(p)) :
          j < k /\ Down(p)[j].match # "none" => Down(p)[k].match # "none"
    /\ InMatch(p) => \A k \in 1..Len(Down(p)) : Down(p)[k].match = "none" =>
          /\ Down(p)[k].reason # Undefined /\ ~Down(p)[k].adapter
          /\ ~m.adapter /\ m.match = "none" /\ m.reason # Undefined /\ AllOff(p)

\* Without a live bridge the last that was said, or heard, is that there is no toy.
NoneCounted(p, m) ==
    ~LiveBridge(p) => /\ Up(p) = <<>> => ~m.adapter
                      /\ Up(p) # <<>> => ~Up(p)[Len(Up(p))].connected

PipeFits(p, m) == Joined(p, m) => Known(p, m) /\ OneMatch(p, m) /\ NoneCounted(p, m)

\* What holds within a handler too.
Core(p, m) ==
    p \in Clients /\ m \in Seats /\ AdapterFits(p) /\ LinesFit(p) /\ SeatFits(p, m) /\ PipeFits(p, m)

\* An adapter without a bridge: the page heard no reason and will bridge it at
\* the first snapshot, or has one, or will have one when the match is over.
Idle(p) == p.serial # Undefined /\ ~Bridge(p)
OfferedFirst(p, m) ==
    p.snapshot = Undefined /\ (StateOf(p, p.ws) = "accepted" \/ Idle(p)) =>
        /\ Up(p) = <<>> /\ ~m.adapter
        /\ \A k \in 1..Len(Down(p)) :
              ~Down(p)[k].adapter /\ (Down(p)[k].reason = Undefined <=> m.reason = Undefined)
OfferedAgain(p, m) ==
    p.snapshot # Undefined /\ ~InMatch(p) /\ Idle(p) =>
        /\ p.snapshot.reason # Undefined /\ m.reason # Undefined /\ AllOff(p)
        /\ \A k \in 1..Len(Down(p)) : Down(p)[k].reason # Undefined
Offered(p, m) == Joined(p, m) => OfferedFirst(p, m) /\ OfferedAgain(p, m)

\* An adapter is chosen when there is none.
Chosen(p) == p.job = "open" => p.serial = Undefined

Holds(p, m) == Core(p, m) /\ Offered(p, m) /\ Chosen(p)
GamesInv == Holds(client, member)

-----------------------------------------------------------------------------
\* The invariant gives what the page shows.
LEMMA PageIsRight == GamesInv => PageHolds
<1> SUFFICES ASSUME GamesInv PROVE PageHolds
  OBVIOUS
<1>1. /\ client \in Clients /\ AdapterFits(client) /\ LinesFit(client)
      /\ PipeFits(client, member) /\ Offered(client, member)
  BY DEF GamesInv, Holds, Core
<1>2. BridgeCurrent /\ OneReader /\ ScoreOfBridge
  BY <1>1 DEF AdapterFits, Bridge, LiveBridge, BridgeCurrent, OneReader, ScoreOfBridge
<1>3. ASSUME Settled
      PROVE  Joined(client, member) /\ Up(client) = <<>> /\ Down(client) = <<>>
  BY <1>3 DEF Settled, Joined, Quiet, IsOpen, StateOf, Up, Down
<1>4. SeatServed
  BY <1>1, <1>3 DEF SeatServed, PipeFits, NoneCounted, LiveBridge
<1>5. WayBack
  BY <1>1, <1>3 DEF WayBack, Offered, OfferedAgain, Idle, Bridge, Reason, Settled
<1> QED
  BY <1>2, <1>4, <1>5 DEF PageHolds

-----------------------------------------------------------------------------
(* The methods of the page                                                  *)

\* What the room sees of a page stays.
SameRoomSide(p, q) ==
    /\ q.mode = p.mode /\ q.snapshot = p.snapshot /\ q.ws = p.ws /\ q.sockets = p.sockets
    /\ q.plugs = p.plugs

\* What stands on the lines and the snapshot only stays with them.
LEMMA RoomSideKept ==
    ASSUME NEW p, NEW q, NEW m, SameRoomSide(p, q), q.lines = p.lines
    PROVE  /\ LinesFit(p) => LinesFit(q)
           /\ SeatFits(p, m) => SeatFits(q, m)
           /\ Joined(q, m) = Joined(p, m) /\ InMatch(q) = InMatch(p) /\ IsOpen(q) = IsOpen(p)
           /\ Known(p, m) => Known(q, m)
           /\ OneMatch(p, m) => OneMatch(q, m)
           /\ Up(q) = Up(p) /\ Down(q) = Down(p)
<1> USE DEF SameRoomSide
<1>1. \A x : StateOf(q, x) = StateOf(p, x)
  BY DEF StateOf
<1>2. Up(q) = Up(p) /\ Down(q) = Down(p) /\ (AllOff(p) => AllOff(q))
  BY DEF Up, Down, AllOff
<1>3. Joined(q, m) = Joined(p, m) /\ InMatch(q) = InMatch(p) /\ IsOpen(q) = IsOpen(p)
  BY DEF Joined, InMatch, IsOpen, StateOf
<1>4. LinesFit(p) => LinesFit(q)
  BY <1>1 DEF LinesFit
<1>5. SeatFits(p, m) => SeatFits(q, m)
  BY <1>1 DEF SeatFits
<1>6. Known(p, m) => Known(q, m)
  BY <1>2 DEF Known
<1>7. OneMatch(p, m) => OneMatch(q, m)
  BY <1>2, <1>3 DEF OneMatch
<1> QED
  BY <1>2, <1>3, <1>4, <1>5, <1>6, <1>7

\* Send says something on an open socket, and does nothing otherwise.
LEMMA SendIs ==
    ASSUME NEW p \in Clients, LinesFit(p), NEW b \in BOOLEAN, NEW q, q = Send(p, [connected |-> b])
    PROVE  /\ q \in Clients /\ SameRoomSide(p, q)
           /\ q.bridge = p.bridge /\ q.connecting = p.connecting /\ q.score = p.score
           /\ q.serial = p.serial /\ q.sink = p.sink /\ q.job = p.job
           /\ ~IsOpen(p) => q = p
           /\ IsOpen(p) =>
                 /\ p.ws \in 1..MaxOpened /\ StateOf(p, p.ws) = "open"
                 /\ StateOf(q, p.ws) = "open" /\ Down(q) = Down(p)
                 /\ Up(q) = Append(Up(p), [connected |-> b])
           /\ \A x \in 1..MaxOpened : StateOf(q, x) = StateOf(p, x) /\ (x # p.ws => q.lines[x] = p.lines[x])
<1>1. CASE ~IsOpen(p)
  BY <1>1 DEF Send, SameRoomSide
<1>2. CASE IsOpen(p)
  <2> DEFINE c == [connected |-> b]
             w == p.ws
             line == [p.lines[w] EXCEPT !.up = Append(p.lines[w].up, c)]
             wires == [p.lines EXCEPT ![w] = line]
  <2>1. w \in 1..MaxOpened /\ p.lines \in [1..MaxOpened -> SocketLines] /\ p.lines[w] \in SocketLines
    BY <1>2, UndefinedIsApart DEF IsOpen, LinesFit, Clients
  <2>2. q = [p EXCEPT !.lines[w].up = Append(@, c)]
    BY <1>2 DEF Send
  <2>3. /\ line \in SocketLines /\ line.state = p.lines[w].state /\ line.down = p.lines[w].down
        /\ line.up = Append(p.lines[w].up, c)
    <3>1. c \in [connected : BOOLEAN]
      OBVIOUS
    <3>2. Append(p.lines[w].up, c) \in Seq([connected : BOOLEAN])
      BY <2>1, <3>1 DEF SocketLines
    <3> HIDE DEF c
    <3> QED
      BY <2>1, <3>2 DEF SocketLines
  <2>4. q = [p EXCEPT !.lines = wires]
    BY <2>1, <2>2 DEF Clients, SocketLines
  <2> HIDE DEF line
  <2>5. /\ wires \in [1..MaxOpened -> SocketLines] /\ wires[w] = line
        /\ \A x \in 1..MaxOpened : x # w => wires[x] = p.lines[x]
    BY <2>1, <2>3
  <2> HIDE DEF wires
  <2>6. /\ q \in Clients /\ SameRoomSide(p, q) /\ q.lines = wires
        /\ q.bridge = p.bridge /\ q.connecting = p.connecting /\ q.score = p.score
        /\ q.serial = p.serial /\ q.sink = p.sink /\ q.job = p.job
    BY <2>4, <2>5 DEF Clients, SameRoomSide
  <2>7. \A x \in 1..MaxOpened : StateOf(q, x) = StateOf(p, x)
    BY <2>3, <2>5, <2>6 DEF StateOf
  <2> QED
    BY <1>2, <2>1, <2>3, <2>5, <2>6, <2>7 DEF Up, Down, SameRoomSide, IsOpen, StateOf
<1> QED
  BY <1>1, <1>2

\* To say that there is no adapter is always right.  To say that there is one
\* is, unless the page is in a match.
LEMMA SendKept ==
    ASSUME NEW p \in Clients, NEW m, LinesFit(p), SeatFits(p, m), AdapterFits(p),
           Joined(p, m) => Known(p, m) /\ OneMatch(p, m),
           NEW b \in BOOLEAN, b /\ Joined(p, m) => ~InMatch(p), NEW q, q = Send(p, [connected |-> b])
    PROVE  /\ q \in Clients /\ LinesFit(q) /\ SeatFits(q, m) /\ AdapterFits(q)
           /\ Joined(q, m) = Joined(p, m)
           /\ Joined(q, m) => Known(q, m) /\ OneMatch(q, m)
           /\ IsOpen(p) => Up(q) # <<>> /\ Up(q)[Len(Up(q))].connected = b
<1>1. CASE ~IsOpen(p)
  <2>1. q = p
    BY <1>1, SendIs
  <2> QED
    BY <1>1, <2>1
<1>2. CASE IsOpen(p)
  <2> DEFINE c == [connected |-> b]
  <2>1. /\ q \in Clients /\ SameRoomSide(p, q)
        /\ q.bridge = p.bridge /\ q.connecting = p.connecting /\ q.score = p.score
        /\ q.serial = p.serial /\ q.sink = p.sink /\ q.job = p.job
        /\ p.ws \in 1..MaxOpened /\ StateOf(p, p.ws) = "open"
        /\ StateOf(q, p.ws) = "open" /\ Down(q) = Down(p)
        /\ Up(q) = Append(Up(p), c)
        /\ \A x \in 1..MaxOpened : StateOf(q, x) = StateOf(p, x) /\ (x # p.ws => q.lines[x] = p.lines[x])
    BY <1>2, SendIs
  <2>2. Up(p) \in Seq([connected : BOOLEAN])
    BY <2>1 DEF Up, Clients, SocketLines
  <2>3. /\ Len(Up(q)) = Len(Up(p)) + 1 /\ Up(q) # <<>> /\ Up(q)[Len(Up(q))] = c
        /\ \A k \in 1..Len(Up(p)) : Up(q)[k] = Up(p)[k]
    BY <2>1, <2>2
  <2>4. AllOff(p) /\ ~b => AllOff(q)
    <3> SUFFICES ASSUME AllOff(p), ~b, NEW k \in 1..Len(Up(q)) PROVE ~Up(q)[k].connected
      BY DEF AllOff
    <3>1. k \in 1..Len(Up(p)) \/ k = Len(Up(q))
      BY <2>2, <2>3
    <3> QED
      BY <2>3, <3>1 DEF AllOff
  <2>5. LinesFit(q)
    <3>0. p.ws <= p.sockets /\ q.ws = p.ws /\ q.sockets = p.sockets /\ q.snapshot = p.snapshot
      BY <2>1, UndefinedIsApart DEF LinesFit, SameRoomSide, Clients
    <3>1. ASSUME NEW x \in 1..MaxOpened
          PROVE  /\ x # q.ws => StateOf(q, x) \notin Alive
                 /\ x > q.sockets => q.lines[x] = Line
                 /\ StateOf(q, x) \in {"connecting", "accepted"} => q.lines[x].up = <<>>
                 /\ StateOf(q, x) = "connecting" => q.lines[x].down = <<>>
      <4>1. CASE x # p.ws
        BY <2>1, <3>0, <4>1 DEF LinesFit
      <4>2. CASE x = p.ws
        <5>1. ~ x > p.sockets
          BY <2>1, <3>0, <4>2 DEF Clients
        <5> QED
          BY <2>1, <3>0, <4>2, <5>1
      <4> QED
        BY <4>1, <4>2
    <3> QED
      BY <2>1, <3>0, <3>1 DEF LinesFit
  <2>6. SeatFits(q, m)
    <3>1. m.ws # Undefined => m.ws \in 1..MaxOpened
      BY UndefinedIsApart DEF SeatFits, Clients
    <3> QED
      BY <2>1, <3>1 DEF SeatFits, SameRoomSide
  <2>7. AdapterFits(q)
    BY <2>1 DEF AdapterFits, SameRoomSide, Bridge, LiveBridge
  <2>8. Joined(q, m) = Joined(p, m) /\ InMatch(q) = InMatch(p)
    BY <2>1 DEF Joined, SameRoomSide, InMatch
  <2>9. ASSUME Joined(p, m) PROVE Known(q, m) /\ OneMatch(q, m)
    <3>1. Known(q, m)
      BY <2>1, <2>9 DEF Known, SameRoomSide
    <3>2. OneMatch(q, m)
      BY <2>1, <2>4, <2>8, <2>9 DEF OneMatch
    <3> QED
      BY <3>1, <3>2
  <2> QED
    BY <2>1, <2>3, <2>5, <2>6, <2>7, <2>8, <2>9
<1> QED
  BY <1>1, <1>2

\* Fresh is a score, of no bridge.
LEMMA FreshScore == Fresh \in Scores /\ Fresh.by = Undefined
  BY DEF Fresh, Scores

\* Stopped takes the bridge off the adapter.
LEMMA StoppedIs ==
    ASSUME NEW p \in Clients, AdapterFits(p), NEW q, q = Stopped(p)
    PROVE  /\ q \in Clients /\ SameRoomSide(p, q) /\ q.lines = p.lines /\ ~Bridge(q)
           /\ q.connecting = p.connecting /\ q.score = p.score /\ q.serial = p.serial /\ q.job = p.job
           /\ q.sink = (IF p.sink = "bridge" THEN "none" ELSE p.sink)
           /\ q.calls = p.calls /\ q.bridges = p.bridges
<1>1. p.bridge # Undefined /\ p.bridge.live <=> p.sink = "bridge"
  BY DEF AdapterFits, LiveBridge
<1> DEFINE s == IF p.bridge # Undefined /\ p.bridge.live THEN "none" ELSE p.sink
<1>2. s = (IF p.sink = "bridge" THEN "none" ELSE p.sink)
  <2>1. CASE p.sink = "bridge"
    BY <1>1, <2>1
  <2>2. CASE p.sink # "bridge"
    BY <1>1, <2>2
  <2> QED
    BY <2>1, <2>2
<1>5. s \in {"none", "bridge", "install"}
  BY <1>2 DEF Clients
<1>3. q = [p EXCEPT !.bridge = Undefined, !.sink = s]
  BY DEF Stopped, Clients
<1> HIDE DEF s
<1>4. /\ q \in Clients /\ SameRoomSide(p, q) /\ q.lines = p.lines /\ q.bridge = Undefined
      /\ q.connecting = p.connecting /\ q.score = p.score /\ q.serial = p.serial /\ q.job = p.job
      /\ q.sink = s /\ q.calls = p.calls /\ q.bridges = p.bridges
  BY <1>5, <1>3 DEF Clients, SameRoomSide
<1> QED
  BY <1>2, <1>4 DEF Bridge

\* releaseAdapter says that there is no adapter, which is then so.
LEMMA ReleaseKept ==
    ASSUME NEW p, NEW m, Core(p, m), NEW q, q = releaseAdapter(p)
    PROVE  /\ Core(q, m) /\ ~Bridge(q) /\ ~q.connecting /\ SameRoomSide(p, q)
           /\ q.serial = p.serial /\ q.job = p.job
           /\ q.sink = (IF p.sink = "bridge" THEN "none" ELSE p.sink)
           /\ IsOpen(q) = IsOpen(p) /\ Joined(q, m) = Joined(p, m)
<1> DEFINE t == Stopped(p)
           r == [t EXCEPT !.connecting = FALSE, !.score = Fresh]
<1>1. /\ p \in Clients /\ m \in Seats /\ AdapterFits(p) /\ LinesFit(p) /\ SeatFits(p, m)
      /\ PipeFits(p, m)
  BY DEF Core
<1>2. /\ t \in Clients /\ SameRoomSide(p, t) /\ t.lines = p.lines /\ ~Bridge(t)
      /\ t.serial = p.serial /\ t.job = p.job
      /\ t.sink = (IF p.sink = "bridge" THEN "none" ELSE p.sink)
  BY <1>1, StoppedIs
<1>3. q = Send(r, [connected |-> FALSE])
  BY DEF releaseAdapter
<1> HIDE DEF t
<1>4. /\ r \in Clients /\ SameRoomSide(p, r) /\ r.lines = p.lines /\ ~Bridge(r)
      /\ r.serial = p.serial /\ r.job = p.job /\ ~r.connecting /\ r.score = Fresh
      /\ r.sink = (IF p.sink = "bridge" THEN "none" ELSE p.sink)
  <2>1. r \in Clients
    BY <1>2, FreshScore DEF Clients
  <2>2. /\ r.lines = p.lines /\ r.bridge = t.bridge /\ r.serial = p.serial /\ r.job = p.job
        /\ ~r.connecting /\ r.score = Fresh /\ r.sink = t.sink
    BY <1>2 DEF Clients
  <2>3. SameRoomSide(p, r)
    BY <1>2 DEF Clients, SameRoomSide
  <2> QED
    BY <1>2, <2>1, <2>2, <2>3 DEF Bridge
<1> HIDE DEF r
<1>5. AdapterFits(r)
  BY <1>1, <1>4 DEF AdapterFits, Bridge, LiveBridge
<1>6. /\ LinesFit(r) /\ SeatFits(r, m) /\ Joined(r, m) = Joined(p, m) /\ IsOpen(r) = IsOpen(p)
      /\ Joined(r, m) => Known(r, m) /\ OneMatch(r, m)
  <2>1. SameRoomSide(p, r) /\ r.lines = p.lines
    BY <1>4
  <2>2. /\ LinesFit(p) => LinesFit(r)
        /\ SeatFits(p, m) => SeatFits(r, m)
        /\ Joined(r, m) = Joined(p, m)
        /\ Known(p, m) => Known(r, m)
        /\ OneMatch(p, m) => OneMatch(r, m)
        /\ IsOpen(r) = IsOpen(p)
    BY <2>1, RoomSideKept
  <2>3. Joined(p, m) => Known(p, m) /\ OneMatch(p, m)
    BY <1>1 DEF PipeFits
  <2> QED
    BY <1>1, <2>2, <2>3
<1>7. /\ q \in Clients /\ LinesFit(q) /\ SeatFits(q, m) /\ AdapterFits(q)
      /\ Joined(q, m) = Joined(r, m)
      /\ Joined(q, m) => Known(q, m) /\ OneMatch(q, m)
      /\ IsOpen(r) => Up(q) # <<>> /\ Up(q)[Len(Up(q))].connected = FALSE
  BY <1>3, <1>4, <1>5, <1>6, SendKept
<1>8. /\ SameRoomSide(r, q) /\ q.bridge = r.bridge /\ q.connecting = r.connecting
      /\ q.serial = r.serial /\ q.sink = r.sink /\ q.job = r.job
      /\ ~IsOpen(r) => q = r
      /\ IsOpen(r) => StateOf(q, r.ws) = "open"
  BY <1>3, <1>4, <1>6, SendIs
<1>9. ASSUME Joined(q, m) PROVE NoneCounted(q, m)
  <2>1. CASE IsOpen(r)
    BY <1>7, <2>1 DEF NoneCounted
  <2>2. CASE ~IsOpen(r)
    <3>1. q = r /\ Joined(p, m) /\ StateOf(p, p.ws) = "accepted"
      BY <1>6, <1>7, <1>8, <1>9, <2>2 DEF Joined, IsOpen, StateOf
    <3>2. ~LiveBridge(p) /\ p.ws \in 1..MaxOpened
      BY <1>1, <3>1, UndefinedIsApart DEF AdapterFits, Bridge, LiveBridge, Joined, LinesFit, Clients
    <3>3. Up(p) = <<>> /\ ~m.adapter
      BY <1>1, <3>1, <3>2 DEF PipeFits, NoneCounted, LinesFit, Up
    <3>4. Up(q) = <<>>
      BY <1>4, <3>1, <3>3 DEF Up, SameRoomSide
    <3> QED
      BY <3>3, <3>4 DEF NoneCounted
  <2> QED
    BY <2>1, <2>2
<1>10. IsOpen(q) = IsOpen(p)
  BY <1>4, <1>6, <1>8 DEF IsOpen, SameRoomSide, StateOf
<1> QED
  BY <1>1, <1>4, <1>6, <1>7, <1>8, <1>9, <1>10 DEF Core, PipeFits, SameRoomSide, Bridge

\* A bridge is made for an open socket and an adapter that has none.
LEMMA BridgedKept ==
    ASSUME NEW p, NEW m, Core(p, m), p.serial # Undefined, IsOpen(p), ~Bridge(p), ~InMatch(p),
           NEW q, q = Bridged(p)
    PROVE  Core(q, m) /\ Bridge(q) /\ SameRoomSide(p, q) /\ q.serial = p.serial /\ q.job = p.job
<1> DEFINE n == p.bridges + 1
           b == [id |-> n, ws |-> p.ws, serial |-> p.serial, live |-> p.sink = "none"]
           t == [p EXCEPT !.connecting = TRUE, !.score = Fresh, !.bridge = b, !.bridges = n]
           r == [t EXCEPT !.sink = "bridge"]
<1>1. /\ p \in Clients /\ m \in Seats /\ AdapterFits(p) /\ LinesFit(p) /\ SeatFits(p, m)
      /\ PipeFits(p, m)
  BY DEF Core
<1>2. /\ p.ws \in Nat /\ p.serial \in Nat /\ n \in Nat /\ p.ws # Undefined
      /\ StateOf(p, p.ws) = "open"
  BY <1>1 DEF Clients, IsOpen, StateOf
<1>3. /\ b \in Bridges /\ b.id = n /\ b.ws = p.ws /\ b.serial = p.serial
      /\ b.live = (p.sink = "none")
  BY <1>2 DEF Bridges
<1>4. b # Undefined
  BY <1>3, UndefinedIsApart
<1>5. q = IF b.live THEN Send(r, [connected |-> TRUE]) ELSE t
  BY DEF Bridged
<1> HIDE DEF b, n
<1>6. /\ t \in Clients /\ SameRoomSide(p, t) /\ t.lines = p.lines /\ t.bridge = b
      /\ t.serial = p.serial /\ t.job = p.job /\ t.connecting /\ t.score = Fresh /\ t.sink = p.sink
  <2>1. t \in Clients
    BY <1>1, <1>2, <1>3, FreshScore DEF Clients
  <2>2. /\ t.lines = p.lines /\ t.bridge = b /\ t.serial = p.serial /\ t.job = p.job
        /\ t.connecting /\ t.score = Fresh /\ t.sink = p.sink
    BY <1>1 DEF Clients
  <2>3. SameRoomSide(p, t)
    BY <1>1 DEF Clients, SameRoomSide
  <2> QED
    BY <2>1, <2>2, <2>3
<1> HIDE DEF t
<1>7. /\ r \in Clients /\ SameRoomSide(p, r) /\ r.lines = p.lines /\ r.bridge = b
      /\ r.serial = p.serial /\ r.job = p.job /\ r.connecting /\ r.score = Fresh
      /\ r.sink = "bridge"
  BY <1>6 DEF Clients, SameRoomSide
<1> HIDE DEF r
<1>8. p.sink # "bridge"
  BY <1>1 DEF AdapterFits, LiveBridge, Bridge
<1>9. CASE ~b.live
  <2>1. q = t
    BY <1>5, <1>9
  <2>2. p.sink # "none"
    BY <1>3, <1>9
  <2>3. AdapterFits(t)
    <3>1. Bridge(t) /\ ~LiveBridge(t) /\ t.snapshot = p.snapshot
      BY <1>4, <1>6, <1>9 DEF Bridge, LiveBridge, SameRoomSide
    <3>2. StateOf(t, t.ws) = "open" /\ t.ws = p.ws
      BY <1>2, <1>6 DEF StateOf, SameRoomSide
    <3> QED
      BY <1>1, <1>2, <1>3, <1>6, <1>8, <3>1, <3>2, FreshScore DEF AdapterFits
  <2>4. /\ LinesFit(t) /\ SeatFits(t, m) /\ Joined(t, m) = Joined(p, m)
        /\ Joined(t, m) => Known(t, m) /\ OneMatch(t, m)
        /\ Up(t) = Up(p)
    BY <1>1, <1>6, RoomSideKept DEF PipeFits
  <2>5. ASSUME Joined(t, m) PROVE NoneCounted(t, m)
    <3>1. ~LiveBridge(p) /\ NoneCounted(p, m)
      BY <1>1, <2>4, <2>5 DEF PipeFits, LiveBridge, Bridge
    <3> QED
      BY <2>4, <3>1 DEF NoneCounted
  <2> QED
    BY <1>1, <1>4, <1>6, <2>1, <2>3, <2>4, <2>5 DEF Core, PipeFits, Bridge
<1>10. CASE b.live
  <2>1. q = Send(r, [connected |-> TRUE]) /\ p.sink = "none"
    BY <1>3, <1>5, <1>10
  <2>2. AdapterFits(r)
    <3>1. Bridge(r) /\ LiveBridge(r) /\ r.snapshot = p.snapshot
      BY <1>4, <1>7, <1>10 DEF Bridge, LiveBridge, SameRoomSide
    <3>2. StateOf(r, r.ws) = "open" /\ r.ws = p.ws
      BY <1>2, <1>7 DEF StateOf, SameRoomSide
    <3>3. p.job # "install"
      BY <1>1, <2>1 DEF AdapterFits
    <3> QED
      BY <1>1, <1>2, <1>3, <1>7, <3>1, <3>2, <3>3, FreshScore DEF AdapterFits
  <2>3. /\ LinesFit(r) /\ SeatFits(r, m) /\ Joined(r, m) = Joined(p, m)
        /\ Joined(r, m) => Known(r, m) /\ OneMatch(r, m)
        /\ InMatch(r) = InMatch(p)
    BY <1>1, <1>7, RoomSideKept DEF PipeFits
  <2>4. /\ q \in Clients /\ LinesFit(q) /\ SeatFits(q, m) /\ AdapterFits(q)
        /\ Joined(q, m) => Known(q, m) /\ OneMatch(q, m)
    BY <1>7, <2>1, <2>2, <2>3, SendKept
  <2>5. SameRoomSide(r, q) /\ q.bridge = r.bridge /\ q.serial = r.serial /\ q.job = r.job
    <3>1. TRUE \in BOOLEAN /\ r \in Clients /\ LinesFit(r) /\ q = Send(r, [connected |-> TRUE])
      BY <1>7, <2>1, <2>3
    <3> QED
      BY <3>1, SendIs
  <2>6. NoneCounted(q, m) /\ Bridge(q)
    BY <1>4, <1>7, <1>10, <2>5 DEF NoneCounted, LiveBridge, Bridge
  <2> QED
    BY <1>1, <1>7, <2>4, <2>5, <2>6 DEF Core, PipeFits, SameRoomSide
<1> QED
  BY <1>9, <1>10

\* When a page need not be given a bridge.
NoBridgeDue(p, force) ==
    \/ p.serial = Undefined \/ ~IsOpen(p) \/ p.bridge # Undefined \/ p.connecting \/ InMatch(p)
    \/ Reason(p) # Undefined /\ ~force

\* syncAdapter makes a bridge, or none is due.
LEMMA SyncKept ==
    ASSUME NEW p, NEW m, Core(p, m), NEW force, NEW q, q = syncAdapter(p, force)
    PROVE  /\ Core(q, m) /\ SameRoomSide(p, q) /\ q.serial = p.serial /\ q.job = p.job
           /\ Bridge(q) \/ (q = p /\ NoBridgeDue(p, force))
           /\ Offered(p, m) => Offered(q, m)
<1>1. CASE NoBridgeDue(p, force)
  <2>1. q = p
    BY <1>1 DEF NoBridgeDue, syncAdapter
  <2> QED
    BY <1>1, <2>1 DEF SameRoomSide
<1>2. CASE ~NoBridgeDue(p, force)
  <2>1. q = Bridged(p) /\ p.serial # Undefined /\ IsOpen(p) /\ ~Bridge(p) /\ ~InMatch(p)
    BY <1>2 DEF NoBridgeDue, syncAdapter, Bridge
  <2>3. Core(q, m) /\ Bridge(q) /\ SameRoomSide(p, q) /\ q.serial = p.serial /\ q.job = p.job
    BY <2>1, BridgedKept
  <2>4. Joined(q, m) => StateOf(q, q.ws) # "accepted"
    <3>1. q.ws = p.ws /\ AdapterFits(q)
      BY <2>3 DEF SameRoomSide, Core
    <3> QED
      BY <2>3, <3>1 DEF AdapterFits
  <2>5. Offered(q, m)
    BY <2>3, <2>4 DEF Offered, OfferedFirst, OfferedAgain, Idle
  <2> QED
    BY <2>3, <2>5
<1> QED
  BY <1>1, <1>2

\* controls keeps all of the invariant.
LEMMA ControlsKept ==
    ASSUME NEW p, NEW m, Core(p, m), Offered(p, m), NEW q, q = controls(p)
    PROVE  /\ Core(q, m) /\ Offered(q, m) /\ SameRoomSide(p, q)
           /\ q.serial = p.serial /\ q.job = p.job
  BY SyncKept DEF controls

\* A page that has closed its socket has no part in the seat.
LEMMA CloseIs ==
    ASSUME NEW p, NEW m, Core(p, m), NEW q, q = close(p)
    PROVE  /\ q \in Clients /\ LinesFit(q) /\ SeatFits(q, m) /\ ~Joined(q, m)
           /\ q.ws = Undefined /\ q.bridge = Undefined /\ q.mode = p.mode
           /\ q.serial = p.serial /\ q.job = p.job /\ q.sockets = p.sockets /\ q.plugs = p.plugs
           /\ q.sink = (IF p.sink = "bridge" THEN "none" ELSE p.sink)
           /\ q.sink = "install" <=> q.job = "install"
           /\ q.sink # "bridge"
<1> DEFINE t == Stopped(p)
           closed == [p.lines[p.ws] EXCEPT !.state = "closed", !.down = <<>>]
           wires == [w \in 1..MaxOpened |-> IF w = p.ws THEN closed ELSE p.lines[w]]
<1>1. /\ p \in Clients /\ m \in Seats /\ AdapterFits(p) /\ LinesFit(p) /\ SeatFits(p, m)
  BY DEF Core
<1>2. /\ t \in Clients /\ SameRoomSide(p, t) /\ t.lines = p.lines /\ ~Bridge(t)
      /\ t.serial = p.serial /\ t.job = p.job
      /\ t.sink = (IF p.sink = "bridge" THEN "none" ELSE p.sink)
  BY <1>1, StoppedIs
<1>3. q = [t EXCEPT !.score = Fresh, !.ws = Undefined, !.lines = wires]
  <2>1. DOMAIN t.lines = 1..MaxOpened /\ t.lines = p.lines
    BY <1>2 DEF Clients
  <2>2. [w \in DOMAIN t.lines |->
            IF w = p.ws THEN [t.lines[w] EXCEPT !.state = "closed", !.down = <<>>]
            ELSE t.lines[w]] = wires
    BY <2>1
  <2>3. q = [t EXCEPT !.score = Fresh, !.ws = Undefined,
               !.lines = [w \in DOMAIN t.lines |->
                      IF w = p.ws THEN [t.lines[w] EXCEPT !.state = "closed", !.down = <<>>]
                      ELSE t.lines[w]]]
    BY <1>2 DEF close, Clients
  <2> HIDE DEF t, wires
  <2> QED
    BY <2>2, <2>3
<1>4. ASSUME p.ws \in 1..MaxOpened
      PROVE  /\ closed \in SocketLines /\ closed.state = "closed" /\ closed.down = <<>>
  <2>1. p.lines[p.ws] \in SocketLines
    BY <1>1, <1>4 DEF Clients
  <2>2. <<>> \in Seq(Snapshots)
    OBVIOUS
  <2>3. "closed" \in States
    BY DEF States
  <2> QED
    BY <2>1, <2>2, <2>3 DEF SocketLines
<1> HIDE DEF t, closed
<1>5. /\ wires \in [1..MaxOpened -> SocketLines]
      /\ \A w \in 1..MaxOpened : w # p.ws => wires[w] = p.lines[w]
      /\ p.ws \in 1..MaxOpened => wires[p.ws] = closed
  BY <1>1, <1>4 DEF Clients
<1> HIDE DEF wires
<1>6. /\ q \in Clients /\ q.lines = wires /\ q.ws = Undefined /\ q.bridge = t.bridge
      /\ q.serial = t.serial /\ q.job = t.job /\ q.sink = t.sink
      /\ q.sockets = t.sockets /\ q.plugs = t.plugs /\ q.mode = t.mode
      /\ q.snapshot = t.snapshot
  <2> DEFINE u == [t EXCEPT !.score = Fresh, !.ws = Undefined]
  <2>1. /\ u \in Clients
        /\ q = [u EXCEPT !.lines = wires]
    <3>1. u \in Clients
      <4> DEFINE v == [t EXCEPT !.score = Fresh]
      <4>1. t \in Clients /\ Fresh \in Scores
        BY <1>2, FreshScore
      <4>2. v \in Clients
        BY <4>1 DEF Clients
      <4>3. u = [v EXCEPT !.ws = Undefined]
        BY <4>1 DEF Clients
      <4> HIDE DEF v, u
      <4> QED
        BY <4>2, <4>3 DEF Clients
    <3>2. q = [u EXCEPT !.lines = wires]
      BY <1>2, <1>3 DEF Clients
    <3> QED
      BY <3>1, <3>2
  <2> HIDE DEF u
  <2>2. q \in Clients
    BY <1>5, <2>1 DEF Clients
  <2>3. /\ q.lines = wires /\ q.ws = Undefined /\ q.bridge = t.bridge
        /\ q.serial = t.serial /\ q.job = t.job /\ q.sink = t.sink
        /\ q.sockets = t.sockets /\ q.plugs = t.plugs /\ q.mode = t.mode
        /\ q.snapshot = t.snapshot
    BY <1>2, <1>3 DEF Clients
  <2> QED
    BY <2>2, <2>3
<1>7. ASSUME NEW x \in 1..MaxOpened
      PROVE  /\ StateOf(q, x) \notin Alive
             /\ x > q.sockets => q.lines[x] = Line
             /\ x # p.ws => StateOf(q, x) = StateOf(p, x)
  <2>1. CASE x = p.ws
    <3>1. StateOf(q, x) = "closed"
      BY <1>4, <1>5, <1>6, <2>1 DEF StateOf
    <3>2. ~ x > q.sockets
      BY <1>1, <1>2, <1>6, <2>1, UndefinedIsApart DEF LinesFit, SameRoomSide, Clients
    <3> QED
      BY <2>1, <3>1, <3>2 DEF Alive
  <2>2. CASE x # p.ws
    <3>1. q.lines[x] = p.lines[x] /\ StateOf(q, x) = StateOf(p, x) /\ q.sockets = p.sockets
      BY <1>2, <1>5, <1>6, <2>2 DEF StateOf, SameRoomSide
    <3> QED
      BY <1>1, <2>2, <3>1 DEF LinesFit
  <2> QED
    BY <2>1, <2>2
<1>8. LinesFit(q)
  <2>1. \A x \in 1..MaxOpened : StateOf(q, x) \notin {"connecting", "accepted"}
    BY <1>7 DEF Alive
  <2> QED
    BY <1>6, <1>7, <2>1 DEF LinesFit
<1>9. SeatFits(q, m)
  <2>1. q.sockets = p.sockets
    BY <1>2, <1>6 DEF SameRoomSide
  <2>2. m.ws # Undefined => m.ws \in 1..MaxOpened
    BY <1>1, UndefinedIsApart DEF SeatFits, Clients
  <2>3. m.ws # Undefined => StateOf(q, m.ws) # "connecting"
    BY <1>7, <2>2 DEF Alive
  <2> QED
    BY <1>1, <2>1, <2>3 DEF SeatFits
<1>10. ~Joined(q, m)
  BY <1>6 DEF Joined
<1>11. /\ q.sink = "install" <=> q.job = "install"
       /\ q.sink # "bridge"
  BY <1>1, <1>2, <1>6 DEF AdapterFits
<1> QED
  BY <1>2, <1>6, <1>8, <1>9, <1>10, <1>11 DEF SameRoomSide, Bridge

\* clear(): a page without a room.
LEMMA ClearKept ==
    ASSUME NEW p, NEW m, Core(p, m), NEW q, q = clear(p)
    PROVE  Core(q, m) /\ Offered(q, m) /\ q.job = p.job /\ q.serial = p.serial
<1> DEFINE t == close(p)
           r == [t EXCEPT !.entry = FALSE, !.saved = FALSE, !.snapshot = Undefined,
                          !.connecting = FALSE]
<1>1. /\ t \in Clients /\ LinesFit(t) /\ SeatFits(t, m)
      /\ t.ws = Undefined /\ t.bridge = Undefined /\ t.job = p.job
      /\ t.sink = "install" <=> t.job = "install"
      /\ t.sink # "bridge" /\ t.serial = p.serial
  BY CloseIs
<1>2. q = controls(r)
  BY DEF clear
<1> HIDE DEF t
<1>3. /\ r \in Clients /\ r.lines = t.lines /\ r.ws = Undefined /\ r.bridge = Undefined
      /\ r.serial = t.serial /\ r.job = t.job /\ r.sink = t.sink /\ ~r.connecting
      /\ r.sockets = t.sockets /\ r.snapshot = Undefined
  BY <1>1 DEF Clients
<1> HIDE DEF r
<1>4. Core(r, m) /\ Offered(r, m)
  <2>1. AdapterFits(r)
    BY <1>1, <1>3 DEF AdapterFits, Bridge, LiveBridge
  <2>2. \A x : StateOf(r, x) = StateOf(t, x)
    BY <1>3 DEF StateOf
  <2>3. LinesFit(r)
    BY <1>1, <1>3, <2>2 DEF LinesFit
  <2>4. SeatFits(r, m)
    BY <1>1, <1>3, <2>2 DEF SeatFits
  <2>5. m \in Seats
    BY DEF Core
  <2> QED
    BY <1>3, <2>1, <2>3, <2>4, <2>5 DEF Core, PipeFits, Offered, Joined
<1> QED
  BY <1>1, <1>2, <1>3, <1>4, ControlsKept DEF SameRoomSide

\* enter(): a new socket, that is connecting.
LEMMA EnterKept ==
    ASSUME NEW p, NEW m, Core(p, m), p.sockets < MaxOpened, NEW q, q = enter(p)
    PROVE  Core(q, m) /\ Offered(q, m) /\ q.job = p.job /\ q.serial = p.serial
<1> DEFINE w == p.sockets + 1
           t == close(p)
           line == [t.lines[w] EXCEPT !.state = "connecting"]
           wires == [t.lines EXCEPT ![w] = line]
           s == [t EXCEPT !.entry = TRUE, !.saved = TRUE, !.snapshot = Undefined,
                          !.connecting = FALSE]
           r == [s EXCEPT !.ws = w, !.sockets = w, !.lines = wires]
<1>1. /\ t \in Clients /\ LinesFit(t) /\ SeatFits(t, m)
      /\ t.ws = Undefined /\ t.bridge = Undefined /\ t.job = p.job /\ t.sockets = p.sockets
      /\ t.sink = "install" <=> t.job = "install"
      /\ t.sink # "bridge" /\ t.serial = p.serial
  BY CloseIs
<1>2. p.sockets \in 0..MaxOpened /\ m \in Seats
  BY DEF Core, Clients
<1>3. /\ w \in 1..MaxOpened /\ w \in 0..MaxOpened /\ w \in Nat /\ w # Undefined /\ w = t.sockets + 1
      /\ w > t.sockets /\ w \in 1..w
  BY <1>1, <1>2, UndefinedIsApart
<1>4. q = controls([s EXCEPT !.ws = w, !.sockets = w, !.lines[w].state = "connecting"])
  BY DEF enter
<1> HIDE DEF t, w
<1>5. t.lines[w] = Line
  BY <1>1, <1>3 DEF LinesFit
<1>6. line \in SocketLines /\ line.state = "connecting" /\ line.up = <<>> /\ line.down = <<>>
  <2>1. "connecting" \in States
    BY DEF States
  <2>2. <<>> \in Seq([connected : BOOLEAN]) /\ <<>> \in Seq(Snapshots)
    OBVIOUS
  <2>3. line = [state |-> "connecting", up |-> <<>>, down |-> <<>>]
    BY <1>5 DEF Line
  <2> QED
    BY <2>1, <2>2, <2>3 DEF SocketLines
<1>7. s \in Clients /\ s.lines = t.lines
  BY <1>1 DEF Clients
<1>8. [s EXCEPT !.ws = w, !.sockets = w, !.lines[w].state = "connecting"] = r
  <2> HIDE DEF s
  <2> QED
    BY <1>3, <1>7 DEF Clients, SocketLines
<1> HIDE DEF line
<1>9. /\ wires \in [1..MaxOpened -> SocketLines] /\ wires[w] = line
      /\ \A x \in 1..MaxOpened : x # w => wires[x] = t.lines[x]
  BY <1>1, <1>3, <1>6 DEF Clients
<1> HIDE DEF wires
<1>10. /\ s.bridge = Undefined /\ s.serial = t.serial /\ s.job = t.job /\ s.sink = t.sink
       /\ ~s.connecting /\ s.snapshot = Undefined /\ s.mode = t.mode
  BY <1>1 DEF Clients
<1> HIDE DEF s
<1>11. /\ r \in Clients /\ r.lines = wires /\ r.ws = w /\ r.bridge = Undefined
       /\ r.serial = t.serial /\ r.job = t.job /\ r.sink = t.sink /\ ~r.connecting
       /\ r.sockets = w /\ r.snapshot = Undefined /\ r.mode = t.mode
  BY <1>3, <1>7, <1>9, <1>10 DEF Clients
<1> HIDE DEF r
<1>12. AdapterFits(r)
  BY <1>1, <1>11 DEF AdapterFits, Bridge, LiveBridge
<1>13. LinesFit(r)
  <2>1. ASSUME NEW x \in 1..MaxOpened
        PROVE  /\ x # r.ws => StateOf(r, x) \notin Alive
               /\ x > r.sockets => r.lines[x] = Line
               /\ StateOf(r, x) \in {"connecting", "accepted"} => r.lines[x].up = <<>>
               /\ StateOf(r, x) = "connecting" => r.lines[x].down = <<>>
    <3>1. CASE x = w
      BY <1>3, <1>6, <1>9, <1>11, <3>1
    <3>2. CASE x # w
      <4>1. r.lines[x] = t.lines[x] /\ StateOf(r, x) = StateOf(t, x) /\ x # t.ws
        BY <1>1, <1>9, <1>11, <3>2, UndefinedIsApart DEF StateOf
      <4>2. x > w => x > t.sockets
        BY <1>1, <1>2, <1>3
      <4> QED
        BY <1>1, <1>11, <4>1, <4>2 DEF LinesFit
    <3> QED
      BY <3>1, <3>2
  <2> QED
    BY <1>3, <1>11, <2>1 DEF LinesFit
<1>14. m.ws # Undefined => /\ m.ws \in 1..t.sockets /\ m.ws \in 1..w /\ m.ws # w
                           /\ m.ws \in 1..MaxOpened
  <2>1. m.ws # Undefined => m.ws \in 1..t.sockets
    BY <1>1 DEF SeatFits
  <2> QED
    BY <1>1, <1>2, <1>3, <2>1, UndefinedIsApart
<1>15. SeatFits(r, m)
  <2>1. m.ws # Undefined => StateOf(r, m.ws) = StateOf(t, m.ws)
    BY <1>9, <1>11, <1>14 DEF StateOf
  <2> QED
    BY <1>1, <1>11, <1>14, <2>1 DEF SeatFits
<1>16. ~Joined(r, m)
  BY <1>11, <1>14, <1>3 DEF Joined
<1>17. Core(r, m) /\ Offered(r, m)
  BY <1>2, <1>11, <1>12, <1>13, <1>15, <1>16 DEF Core, PipeFits, Offered
<1>18. q = controls(r)
  BY <1>4, <1>8
<1> QED
  BY <1>1, <1>11, <1>17, <1>18, ControlsKept

\* disconnect(): nobody reads from the adapter any more; what follows closes it,
\* or only counts the call.
LEMMA DisconnectKept ==
    ASSUME NEW p, NEW m, Core(p, m),
           Joined(p, m) /\ StateOf(p, p.ws) = "accepted" => OfferedFirst(p, m),
           NEW q,
           \/ q = [disconnect(p) EXCEPT !.job = "close"]
           \/ q = [disconnect(p) EXCEPT !.calls = @ + 1] /\ p.job # "install"
    PROVE  Core(q, m) /\ Offered(q, m) /\ Chosen(q)
<1> DEFINE t == releaseAdapter(p)
<1>1. /\ Core(t, m) /\ ~Bridge(t) /\ ~t.connecting /\ SameRoomSide(p, t)
      /\ IsOpen(t) = IsOpen(p) /\ t.job = p.job
  BY ReleaseKept
<1> DEFINE u == [t EXCEPT !.serial = Undefined, !.sink = "none"]
<1>2. \/ q = [u EXCEPT !.job = "close"]
      \/ q = [u EXCEPT !.calls = @ + 1] /\ p.job # "install"
  BY DEF disconnect
<1>3. /\ p \in Clients /\ LinesFit(p)
      /\ t \in Clients /\ m \in Seats /\ LinesFit(t) /\ SeatFits(t, m) /\ PipeFits(t, m)
  BY <1>1 DEF Core
<1>4. ~IsOpen(p) => t.lines = p.lines
  <2>1. Stopped(p).lines = p.lines /\ Stopped(p).ws = p.ws /\ Stopped(p) \in Clients
    BY StoppedIs DEF Core, SameRoomSide
  <2> DEFINE s == Stopped(p)
             r == [s EXCEPT !.connecting = FALSE, !.score = Fresh]
  <2>2. t = Send(r, [connected |-> FALSE])
    BY DEF releaseAdapter
  <2> HIDE DEF s, t
  <2>3. r.lines = p.lines /\ r.ws = p.ws
    BY <2>1 DEF Clients, s
  <2> HIDE DEF r
  <2> QED
    BY <2>2, <2>3 DEF Send, IsOpen
<1> HIDE DEF t
<1>5. /\ u \in Clients /\ SameRoomSide(t, u) /\ u.lines = t.lines /\ u.bridge = t.bridge
      /\ u.connecting = t.connecting /\ u.score = t.score /\ u.serial = Undefined
      /\ u.sink = "none" /\ u.job = p.job
  <2>1. u \in Clients
    BY <1>3 DEF Clients
  <2>2. /\ u.lines = t.lines /\ u.bridge = t.bridge /\ u.connecting = t.connecting
        /\ u.score = t.score /\ u.serial = Undefined /\ u.sink = "none" /\ u.job = t.job
    BY <1>3 DEF Clients
  <2>3. SameRoomSide(t, u)
    BY <1>3 DEF Clients, SameRoomSide
  <2> QED
    BY <1>1, <2>1, <2>2, <2>3
<1> HIDE DEF u
<1>6. /\ q \in Clients /\ SameRoomSide(t, q) /\ q.lines = t.lines /\ q.bridge = t.bridge
      /\ q.connecting = t.connecting /\ q.score = t.score /\ q.serial = Undefined
      /\ q.sink = "none" /\ q.job # "install"
  <2>1. CASE q = [u EXCEPT !.job = "close"]
    BY <1>5, <2>1 DEF Clients, SameRoomSide
  <2>2. CASE q = [u EXCEPT !.calls = @ + 1] /\ p.job # "install"
    BY <1>5, <2>2 DEF Clients, SameRoomSide
  <2> QED
    BY <1>2, <2>1, <2>2
<1>7. AdapterFits(q)
  BY <1>1, <1>6 DEF AdapterFits, Bridge, LiveBridge
<1>8. /\ LinesFit(q) /\ SeatFits(q, m) /\ Joined(q, m) = Joined(t, m)
      /\ Known(t, m) => Known(q, m)
      /\ OneMatch(t, m) => OneMatch(q, m)
      /\ Up(q) = Up(t) /\ Down(q) = Down(t)
  <2>1. SameRoomSide(t, q) /\ q.lines = t.lines
    BY <1>6
  <2>2. /\ LinesFit(t) => LinesFit(q)
        /\ SeatFits(t, m) => SeatFits(q, m)
        /\ Joined(q, m) = Joined(t, m)
        /\ Known(t, m) => Known(q, m)
        /\ OneMatch(t, m) => OneMatch(q, m)
        /\ Up(q) = Up(t) /\ Down(q) = Down(t)
    BY <2>1, RoomSideKept
  <2> QED
    BY <1>3, <2>2
<1>9. Joined(q, m) => Known(q, m) /\ OneMatch(q, m) /\ NoneCounted(q, m)
  BY <1>1, <1>3, <1>6, <1>8 DEF PipeFits, NoneCounted, LiveBridge, Bridge
<1>10. Core(q, m)
  BY <1>3, <1>6, <1>7, <1>8, <1>9 DEF Core, PipeFits
<1>11. ASSUME Joined(q, m) PROVE OfferedFirst(q, m) /\ OfferedAgain(q, m)
  <2>1. ~Idle(q)
    BY <1>6 DEF Idle
  <2>2. ASSUME StateOf(q, q.ws) = "accepted" PROVE OfferedFirst(q, m)
    <3>1. q.ws = p.ws /\ q.ws = t.ws /\ q.mode = p.mode /\ q.snapshot = p.snapshot
      BY <1>1, <1>6 DEF SameRoomSide
    <3>2. StateOf(t, t.ws) = "accepted"
      BY <1>6, <2>2, <3>1 DEF StateOf
    <3>3. ~IsOpen(p)
      BY <1>1, <3>2 DEF IsOpen, StateOf
    <3>4. q.lines = p.lines
      BY <1>4, <1>6, <3>3
    <3>5. StateOf(p, p.ws) = "accepted" /\ Joined(p, m) /\ Up(q) = Up(p) /\ Down(q) = Down(p)
      BY <1>11, <2>2, <3>1, <3>4 DEF Joined, StateOf, Up, Down
    <3>6. OfferedFirst(p, m)
      BY <3>5
    <3> QED
      BY <3>1, <3>5, <3>6 DEF OfferedFirst
  <2> QED
    BY <2>1, <2>2 DEF OfferedFirst, OfferedAgain
<1> QED
  BY <1>6, <1>10, <1>11 DEF Offered, Chosen

-----------------------------------------------------------------------------
(* What the player does                                                     *)

\* A change of the page alone, that its adapter fits.
LEMMA PageOnly ==
    ASSUME NEW p, NEW m, Core(p, m), Offered(p, m), NEW q \in Clients, SameRoomSide(p, q),
           q.lines = p.lines, q.bridge = p.bridge, q.serial = p.serial, AdapterFits(q)
    PROVE  Core(q, m) /\ Offered(q, m)
<1>1. /\ m \in Seats /\ LinesFit(p) /\ SeatFits(p, m) /\ PipeFits(p, m)
  BY DEF Core
<1>2. /\ LinesFit(p) => LinesFit(q)
      /\ SeatFits(p, m) => SeatFits(q, m)
      /\ Joined(q, m) = Joined(p, m) /\ InMatch(q) = InMatch(p)
      /\ Known(p, m) => Known(q, m)
      /\ OneMatch(p, m) => OneMatch(q, m)
      /\ Up(q) = Up(p) /\ Down(q) = Down(p)
  BY RoomSideKept
<1>3. NoneCounted(p, m) => NoneCounted(q, m)
  BY <1>2 DEF NoneCounted, LiveBridge
<1>4. Core(q, m)
  BY <1>1, <1>2, <1>3 DEF Core, PipeFits
<1>5. q.snapshot = p.snapshot /\ StateOf(q, q.ws) = StateOf(p, p.ws) /\ Idle(q) = Idle(p)
  BY DEF SameRoomSide, StateOf, Idle, Bridge
<1>6. OfferedFirst(p, m) => OfferedFirst(q, m)
  BY <1>2, <1>5 DEF OfferedFirst
<1>7. AllOff(p) => AllOff(q)
  BY <1>2 DEF AllOff
<1>8. OfferedAgain(p, m) => OfferedAgain(q, m)
  BY <1>2, <1>5, <1>7 DEF OfferedAgain
<1> QED
  BY <1>2, <1>4, <1>6, <1>8 DEF Offered

\* A bridge needs no offer, and neither has a page that is to hear of its match.
LEMMA NoOffer ==
    ASSUME NEW p, NEW m, Core(p, m),
           Bridge(p) \/ InMatch(p) \/ ~Joined(p, m)
    PROVE  Offered(p, m)
<1>1. CASE Bridge(p)
  <2>1. StateOf(p, p.ws) # "accepted" /\ ~Idle(p)
    BY <1>1 DEF Core, AdapterFits, Idle
  <2> QED
    BY <2>1 DEF Offered, OfferedFirst, OfferedAgain
<1>2. CASE InMatch(p)
  BY <1>2 DEF Offered, OfferedFirst, OfferedAgain, InMatch
<1>3. CASE ~Joined(p, m)
  BY <1>3 DEF Offered
<1> QED
  BY <1>1, <1>2, <1>3

\* Only the job changes, and what it leaves of the adapter.
WithJob(p, j, s) == [p EXCEPT !.job = j, !.sink = s]

\* The adapter fits the job.
LEMMA JobKept ==
    ASSUME NEW p, NEW m, Core(p, m), Offered(p, m),
           NEW j \in {"no", "open", "close", "load", "install"},
           NEW s \in {"none", "bridge", "install"},
           s = "install" <=> j = "install", s = "bridge" <=> p.sink = "bridge",
           NEW q, q = WithJob(p, j, s)
    PROVE  Core(q, m) /\ Offered(q, m) /\ q.serial = p.serial /\ q.job = j
<1>1. p \in Clients /\ AdapterFits(p)
  BY DEF Core
<1>2. /\ q \in Clients /\ SameRoomSide(p, q) /\ q.lines = p.lines /\ q.bridge = p.bridge
      /\ q.serial = p.serial /\ q.connecting = p.connecting /\ q.score = p.score
      /\ q.job = j /\ q.sink = s
  BY <1>1 DEF Clients, SameRoomSide, WithJob
<1>3. AdapterFits(q)
  <2>1. q.ws = p.ws /\ q.mode = p.mode /\ q.snapshot = p.snapshot /\ StateOf(q, q.ws) = StateOf(p, p.ws)
    BY <1>2 DEF SameRoomSide, StateOf
  <2>2. Bridge(q) = Bridge(p) /\ LiveBridge(q) = LiveBridge(p)
    BY <1>2 DEF Bridge, LiveBridge
  <2> QED
    BY <1>1, <1>2, <2>1, <2>2 DEF AdapterFits
<1> QED
  BY <1>2, <1>3, PageOnly

\* A job that reads from the adapter no more than the one before.
LEMMA SinkStays ==
    ASSUME NEW p \in Clients, NEW j
    PROVE  [p EXCEPT !.job = j] = WithJob(p, j, p.sink)
  BY DEF Clients, WithJob

\* Connect: an adapter is chosen, or given back.
LEMMA ConnectKept ==
    ASSUME GamesInv, Connect PROVE Holds(client', member')
<1> DEFINE p == controls(client)
<1>1. Core(client, member) /\ Offered(client, member) /\ client.job = "no"
  BY DEF GamesInv, Holds, Connect
<1>2. /\ Core(p, member) /\ Offered(p, member) /\ p.job = "no"
      /\ p \in Clients /\ AdapterFits(p)
  BY <1>1, ControlsKept DEF Core
<1>3. /\ member' = member
      /\ \/ p.serial = Undefined /\ client' = [p EXCEPT !.job = "open"]
         \/ p.serial # Undefined /\ client' = [disconnect(p) EXCEPT !.job = "close"]
  BY DEF Connect, Does
<1> HIDE DEF p
<1>4. CASE p.serial = Undefined /\ client' = [p EXCEPT !.job = "open"]
  <2>1. client' = WithJob(p, "open", p.sink)
    BY <1>2, <1>4, SinkStays
  <2>2. p.sink # "install" /\ p.sink \in {"none", "bridge", "install"}
    BY <1>2 DEF AdapterFits, Clients
  <2>4. "open" \in {"no", "open", "close", "load", "install"}
    OBVIOUS
  <2>5. p.sink = "install" <=> "open" = "install"
    BY <2>2
  <2>6. Core(client', member) /\ Offered(client', member) /\ client'.serial = p.serial
    BY <1>2, <2>1, <2>2, <2>4, <2>5, JobKept
  <2> QED
    BY <1>3, <1>4, <2>6 DEF Holds, Chosen
<1>5. CASE p.serial # Undefined /\ client' = [disconnect(p) EXCEPT !.job = "close"]
  <2>1. Joined(p, member) => OfferedFirst(p, member)
    BY <1>2 DEF Offered
  <2>2. Core(client', member) /\ Offered(client', member) /\ Chosen(client')
    BY <1>2, <1>5, <2>1, DisconnectKept
  <2> QED
    BY <1>3, <2>2 DEF Holds
<1> QED
  BY <1>3, <1>4, <1>5

\* The adapter is there: it is bridged at once, unless there is no socket to
\* bridge it to, or a match.
LEMMA OpenedKept ==
    ASSUME GamesInv, Opened PROVE Holds(client', member')
<1> DEFINE n == client.plugs + 1
           r == [client EXCEPT !.serial = n, !.plugs = n]
           p == syncAdapter(r, TRUE)
           t == [p EXCEPT !.job = "no"]
<1>1. /\ Core(client, member) /\ Offered(client, member) /\ client.job = "open"
      /\ client.serial = Undefined
      /\ client \in Clients /\ member \in Seats /\ AdapterFits(client) /\ LinesFit(client)
      /\ SeatFits(client, member) /\ PipeFits(client, member)
  BY DEF GamesInv, Holds, Opened, Core, Chosen
<1>2. client' = controls(t) /\ member' = member
  BY DEF Opened, Does
<1>3. n \in Nat /\ n # Undefined
  BY <1>1, UndefinedIsApart DEF Clients
<1> HIDE DEF n
<1>4. /\ r \in Clients /\ r.serial = n /\ r.lines = client.lines /\ r.bridge = client.bridge
      /\ r.connecting = client.connecting /\ r.sink = client.sink /\ r.job = "open"
      /\ r.ws = client.ws /\ r.mode = client.mode /\ r.snapshot = client.snapshot
      /\ r.sockets = client.sockets
  <2>1. r \in Clients
    <3>1. client \in Clients /\ client.plugs + 1 \in Nat
      BY <1>1 DEF Clients
    <3>2. n = client.plugs + 1
      BY DEF n
    <3>3. n \in Nat
      BY <3>1, <3>2
    <3> QED
      BY <3>1, <3>3 DEF Clients
  <2>2. /\ r.serial = n /\ r.lines = client.lines /\ r.bridge = client.bridge
        /\ r.connecting = client.connecting /\ r.sink = client.sink /\ r.job = client.job
        /\ r.ws = client.ws /\ r.mode = client.mode /\ r.snapshot = client.snapshot
        /\ r.sockets = client.sockets
    BY <1>1 DEF Clients
  <2> QED
    BY <1>1, <2>1, <2>2
<1> HIDE DEF r
<1>5. ~Bridge(client) /\ ~client.connecting
  BY <1>1 DEF AdapterFits
<1>6. AdapterFits(r)
  BY <1>1, <1>4, <1>5 DEF AdapterFits, Bridge, LiveBridge
<1>7. /\ LinesFit(r) /\ SeatFits(r, member) /\ Joined(r, member) = Joined(client, member)
      /\ InMatch(r) = InMatch(client) /\ IsOpen(r) = IsOpen(client)
      /\ Up(r) = Up(client) /\ Down(r) = Down(client)
  <2>1. /\ \A x : StateOf(r, x) = StateOf(client, x)
        /\ Up(r) = Up(client) /\ Down(r) = Down(client)
    BY <1>4 DEF StateOf, Up, Down
  <2>2. LinesFit(r)
    BY <1>1, <1>4, <2>1 DEF LinesFit
  <2>3. SeatFits(r, member)
    BY <1>1, <1>4, <2>1 DEF SeatFits
  <2> QED
    BY <1>4, <2>1, <2>2, <2>3 DEF Joined, InMatch, IsOpen, StateOf
<1>8. ASSUME Joined(r, member) PROVE Known(r, member) /\ OneMatch(r, member) /\ NoneCounted(r, member)
  <2>1. Known(client, member) /\ OneMatch(client, member) /\ NoneCounted(client, member)
    BY <1>1, <1>7, <1>8 DEF PipeFits
  <2>2. Known(r, member)
    BY <1>4, <1>7, <2>1 DEF Known
  <2>3. AllOff(r) = AllOff(client)
    BY <1>7 DEF AllOff
  <2>4. OneMatch(r, member)
    BY <1>7, <2>1, <2>3 DEF OneMatch
  <2>5. NoneCounted(r, member)
    BY <1>4, <1>7, <2>1 DEF NoneCounted, LiveBridge
  <2> QED
    BY <2>2, <2>4, <2>5
<1>9. Core(r, member)
  BY <1>1, <1>4, <1>6, <1>7, <1>8 DEF Core, PipeFits
<1>10. /\ Core(p, member) /\ SameRoomSide(r, p) /\ p.job = "open"
       /\ Bridge(p) \/ (p = r /\ NoBridgeDue(r, TRUE))
  <2>1. p = syncAdapter(r, TRUE)
    OBVIOUS
  <2> HIDE DEF p
  <2>2. /\ Core(p, member) /\ SameRoomSide(r, p) /\ p.job = r.job
        /\ Bridge(p) \/ (p = r /\ NoBridgeDue(r, TRUE))
    BY <1>9, <2>1, SyncKept
  <2> QED
    BY <1>4, <2>2
<1> HIDE DEF p
<1>11. /\ p \in Clients /\ AdapterFits(p) /\ LinesFit(p) /\ SeatFits(p, member)
       /\ PipeFits(p, member)
  BY <1>10 DEF Core
<1>12. /\ t \in Clients /\ SameRoomSide(p, t) /\ t.lines = p.lines /\ t.bridge = p.bridge
       /\ t.serial = p.serial /\ t.connecting = p.connecting /\ t.score = p.score
       /\ t.job = "no" /\ t.sink = p.sink
  BY <1>11 DEF Clients, SameRoomSide
<1> HIDE DEF t
<1>13. /\ LinesFit(t) /\ SeatFits(t, member) /\ Joined(t, member) = Joined(p, member)
       /\ Joined(t, member) => Known(t, member) /\ OneMatch(t, member)
       /\ Up(t) = Up(p) /\ Down(t) = Down(p)
       /\ InMatch(t) = InMatch(p) /\ IsOpen(t) = IsOpen(p)
  BY <1>11, <1>12, RoomSideKept DEF PipeFits
<1>14. AdapterFits(t)
  BY <1>10, <1>11, <1>12 DEF AdapterFits, Bridge, LiveBridge, SameRoomSide, StateOf
<1>15. Joined(t, member) => NoneCounted(t, member)
  BY <1>11, <1>12, <1>13 DEF PipeFits, NoneCounted, LiveBridge
<1>16. Core(t, member)
  BY <1>1, <1>12, <1>13, <1>14, <1>15 DEF Core, PipeFits
<1>17. Offered(t, member)
  <2>1. CASE Bridge(p)
    <3>1. Bridge(t)
      BY <1>12, <2>1 DEF Bridge
    <3> QED
      BY <1>16, <3>1, NoOffer
  <2>2. CASE p = r /\ NoBridgeDue(r, TRUE)
    <3>1. ~IsOpen(r) \/ InMatch(r)
      BY <1>3, <1>4, <1>5, <2>2 DEF NoBridgeDue, Bridge
    <3>2. CASE InMatch(r)
      BY <1>13, <1>16, <2>2, <3>2, NoOffer
    <3>3. CASE ~IsOpen(r) /\ Joined(t, member)
      <4>1. StateOf(r, r.ws) = "accepted" /\ Joined(client, member)
        BY <1>7, <1>13, <2>2, <3>3 DEF Joined, IsOpen, StateOf
      <4>2. StateOf(client, client.ws) = "accepted" /\ client.snapshot = Undefined
        BY <1>1, <1>4, <4>1 DEF StateOf, LinesFit, Joined
      <4>3. OfferedFirst(client, member) /\ t.snapshot = Undefined
        BY <1>1, <1>4, <1>12, <2>2, <4>1, <4>2 DEF Offered, SameRoomSide
      <4>4. OfferedFirst(t, member)
        BY <1>7, <1>13, <2>2, <4>2, <4>3 DEF OfferedFirst
      <4> QED
        BY <4>3, <4>4 DEF Offered, OfferedAgain
    <3>4. CASE ~Joined(t, member)
      BY <1>16, <3>4, NoOffer
    <3> QED
      BY <3>1, <3>2, <3>3, <3>4
  <2> QED
    BY <1>10, <2>1, <2>2
<1>18. Core(client', member) /\ Offered(client', member) /\ client'.job = "no"
  BY <1>2, <1>12, <1>16, <1>17, ControlsKept
<1> QED
  BY <1>2, <1>18 DEF Holds, Chosen

\* Nothing of the adapter changes: only whom the player waits for, or what is
\* to come.
LEMMA AsideKept ==
    ASSUME NEW p, NEW m, Core(p, m), Offered(p, m), NEW q,
           \/ \E b \in {"init", "no", "enter", "leave", "list"} : q = [p EXCEPT !.busy = b]
           \/ \E n \in Int : q = [p EXCEPT !.calls = n]
    PROVE  Core(q, m) /\ Offered(q, m) /\ q.serial = p.serial /\ q.job = p.job
<1>1. p \in Clients /\ AdapterFits(p)
  BY DEF Core
<1>2. /\ q \in Clients /\ SameRoomSide(p, q) /\ q.lines = p.lines /\ q.bridge = p.bridge
      /\ q.serial = p.serial /\ q.connecting = p.connecting /\ q.score = p.score
      /\ q.job = p.job /\ q.sink = p.sink
  <2>1. CASE \E b \in {"init", "no", "enter", "leave", "list"} : q = [p EXCEPT !.busy = b]
    BY <1>1, <2>1 DEF Clients, SameRoomSide
  <2>2. CASE \E n \in Int : q = [p EXCEPT !.calls = n]
    BY <1>1, <2>2 DEF Clients, SameRoomSide
  <2> QED
    BY <2>1, <2>2
<1>3. AdapterFits(q)
  <2>1. q.ws = p.ws /\ q.mode = p.mode /\ q.snapshot = p.snapshot /\ StateOf(q, q.ws) = StateOf(p, p.ws)
    BY <1>2 DEF SameRoomSide, StateOf
  <2>2. Bridge(q) = Bridge(p) /\ LiveBridge(q) = LiveBridge(p)
    BY <1>2 DEF Bridge, LiveBridge
  <2> QED
    BY <1>1, <1>2, <2>1, <2>2 DEF AdapterFits
<1> QED
  BY <1>2, <1>3, PageOnly

\* The invariant stays when all that changes the page keeps it.
LEMMA DoesHold ==
    ASSUME NEW p, Does(p), Core(p, member), Offered(p, member), Chosen(p)
    PROVE  Holds(client', member')
  BY DEF Does, Holds

\* The files are loaded.
LEMMA InstallKept ==
    ASSUME GamesInv, Install PROVE Holds(client', member')
<1>1. /\ Core(client, member) /\ Offered(client, member) /\ client.job = "no"
      /\ client \in Clients /\ AdapterFits(client)
  BY DEF GamesInv, Holds, Install, Core
<1>2. client' = WithJob(client, "load", client.sink) /\ member' = member
  BY <1>1, SinkStays DEF Install, Does
<1>3. client.sink # "install" /\ client.sink \in {"none", "bridge", "install"}
  BY <1>1 DEF AdapterFits, Clients
<1>4. "load" \in {"no", "open", "close", "load", "install"}
  OBVIOUS
<1>5. Core(client', member) /\ Offered(client', member) /\ client'.job = "load"
  BY <1>1, <1>2, <1>3, <1>4, JobKept
<1> QED
  BY <1>2, <1>5 DEF Holds, Chosen

\* The installer reads from the adapter, or there is none any more.
LEMMA SubscribesKept ==
    ASSUME GamesInv, Subscribes PROVE Holds(client', member')
<1>1. /\ Core(client, member) /\ Offered(client, member) /\ client.job = "load"
      /\ client \in Clients /\ AdapterFits(client)
  BY DEF GamesInv, Holds, Subscribes, Core
<1>2. /\ member' = member
      /\ \/ client' = [disconnect(client) EXCEPT !.job = "close"]
         \/ client.sink = "none" /\ client' = [client EXCEPT !.job = "install", !.sink = "install"]
  BY DEF Subscribes, Does
<1>3. CASE client' = [disconnect(client) EXCEPT !.job = "close"]
  <2>1. Joined(client, member) => OfferedFirst(client, member)
    BY <1>1 DEF Offered
  <2>2. Core(client', member) /\ Offered(client', member) /\ Chosen(client')
    BY <1>1, <1>3, <2>1, DisconnectKept
  <2> QED
    BY <1>2, <2>2 DEF Holds
<1>4. CASE client.sink = "none" /\ client' = [client EXCEPT !.job = "install", !.sink = "install"]
  <2>1. client' = WithJob(client, "install", "install") /\ client.sink # "bridge"
    BY <1>4 DEF WithJob
  <2>2. "install" \in {"no", "open", "close", "load", "install"} /\ "install" \in {"none", "bridge", "install"}
    OBVIOUS
  <2>3. Core(client', member) /\ Offered(client', member) /\ client'.job = "install"
    BY <1>1, <2>1, <2>2, JobKept
  <2> QED
    BY <1>2, <2>3 DEF Holds, Chosen
<1> QED
  BY <1>2, <1>3, <1>4

\* A job that is over leaves the adapter to the bridge.
LEMMA JobEndsKept ==
    ASSUME GamesInv, JobEnds PROVE Holds(client', member')
<1> DEFINE s == IF client.job = "install" THEN "none" ELSE client.sink
           p == WithJob(client, "no", s)
<1>1. /\ Core(client, member) /\ Offered(client, member)
      /\ client \in Clients /\ AdapterFits(client)
  BY DEF GamesInv, Holds, Core
<1>2. client' = controls(p) /\ member' = member
  <2>1. p = [client EXCEPT !.job = "no",
                          !.sink = IF client.job = "install" THEN "none" ELSE @]
    BY <1>1 DEF WithJob, Clients
  <2> QED
    BY <2>1 DEF JobEnds, Does
<1>3. /\ s \in {"none", "bridge", "install"}
      /\ s = "install" <=> "no" = "install"
      /\ s = "bridge" <=> client.sink = "bridge"
  BY <1>1 DEF AdapterFits, Clients
<1>4. "no" \in {"no", "open", "close", "load", "install"}
  OBVIOUS
<1> HIDE DEF s
<1>5. Core(p, member) /\ Offered(p, member) /\ p.job = "no"
  BY <1>1, <1>3, <1>4, JobKept
<1> HIDE DEF p
<1>6. Core(client', member) /\ Offered(client', member) /\ client'.job = "no"
  BY <1>2, <1>5, ControlsKept
<1> QED
  BY <1>2, <1>6 DEF Holds, Chosen

\* The adapter goes while it is installed through.
LEMMA InstallLostKept ==
    ASSUME GamesInv, InstallLost PROVE Holds(client', member')
<1>1. Core(client, member) /\ Offered(client, member)
  BY DEF GamesInv, Holds
<1>2. client' = [disconnect(client) EXCEPT !.job = "close"] /\ member' = member
  BY DEF InstallLost, Does
<1>3. Joined(client, member) => OfferedFirst(client, member)
  BY <1>1 DEF Offered
<1>4. Core(client', member) /\ Offered(client', member) /\ Chosen(client')
  BY <1>1, <1>2, <1>3, DisconnectKept
<1> QED
  BY <1>2, <1>4 DEF Holds

\* The adapter goes while it is bridged.
LEMMA AdapterLostKept ==
    ASSUME GamesInv, AdapterLost PROVE Holds(client', member')
<1> DEFINE t == releaseAdapter(client)
<1>1. /\ Core(client, member) /\ Offered(client, member) /\ LiveBridge(client)
      /\ AdapterFits(client) /\ client \in Clients
  BY DEF GamesInv, Holds, AdapterLost, LiveBridge, Core
<1>2. client' = [disconnect(t) EXCEPT !.calls = @ + 1] /\ member' = member
  BY DEF AdapterLost, Does
<1>3. /\ Core(t, member) /\ SameRoomSide(client, t) /\ t.job = client.job
      /\ IsOpen(t) = IsOpen(client) /\ Joined(t, member) = Joined(client, member)
  BY <1>1, ReleaseKept
<1> HIDE DEF t
<1>4. t.job # "install"
  BY <1>1, <1>3 DEF AdapterFits
<1>5. Joined(t, member) => StateOf(t, t.ws) # "accepted"
  <2>1. SUFFICES ASSUME Joined(t, member), StateOf(t, t.ws) = "accepted" PROVE FALSE
    OBVIOUS
  <2>2. ~IsOpen(client)
    BY <1>3, <2>1 DEF IsOpen, StateOf
  <2>4. Joined(client, member) = Joined(t, member)
    BY <1>3
  <2> QED
    BY <1>1, <2>1, <2>2, <2>4 DEF AdapterFits, LiveBridge, Bridge, Joined, IsOpen, StateOf
<1>6. Core(client', member) /\ Offered(client', member) /\ Chosen(client')
  BY <1>2, <1>3, <1>4, <1>5, DisconnectKept
<1> QED
  BY <1>2, <1>6 DEF Holds

\* Controls that were to come.
LEMMA LaterControlsKept ==
    ASSUME GamesInv, Controls PROVE Holds(client', member')
<1> DEFINE n == client.calls - 1
           p == [client EXCEPT !.calls = n]
<1>1. /\ Core(client, member) /\ Offered(client, member) /\ Chosen(client)
      /\ client \in Clients
  BY DEF GamesInv, Holds, Core
<1>2. client' = controls(p) /\ member' = member
  BY <1>1 DEF Controls, Does, Clients
<1>3. n \in Int
  BY <1>1 DEF Clients
<1> HIDE DEF n
<1>4. Core(p, member) /\ Offered(p, member) /\ p.serial = client.serial /\ p.job = client.job
  BY <1>1, <1>3, AsideKept
<1> HIDE DEF p
<1>5. /\ Core(client', member) /\ Offered(client', member)
      /\ client'.serial = client.serial /\ client'.job = client.job
  BY <1>2, <1>4, ControlsKept
<1> QED
  BY <1>1, <1>2, <1>5 DEF Holds, Chosen

\* What is done while the player waits for the server, or when he does not any
\* more.
LEMMA AskKept ==
    ASSUME GamesInv, NEW what \in {"enter", "leave"}, Ask(what) PROVE Holds(client', member')
<1>1. Core(client, member) /\ Offered(client, member) /\ Chosen(client)
  BY DEF GamesInv, Holds
<1>2. client' = [client EXCEPT !.busy = what] /\ member' = member
  BY DEF Ask, Does
<1>3. /\ Core(client', member) /\ Offered(client', member)
      /\ client'.serial = client.serial /\ client'.job = client.job
  BY <1>1, <1>2, AsideKept
<1> QED
  BY <1>1, <1>2, <1>3 DEF Holds, Chosen

\* The server refused, or the list is there.
LEMMA AnsweredKept ==
    ASSUME GamesInv, Answered PROVE Holds(client', member')
<1> DEFINE p == [client EXCEPT !.busy = "no"]
<1>1. Core(client, member) /\ Offered(client, member) /\ Chosen(client)
  BY DEF GamesInv, Holds
<1>2. client' = controls(p) /\ member' = member
  BY DEF Answered, Does
<1>3. /\ Core(p, member) /\ Offered(p, member)
      /\ p.serial = client.serial /\ p.job = client.job
  BY <1>1, AsideKept
<1> HIDE DEF p
<1>4. /\ Core(client', member) /\ Offered(client', member)
      /\ client'.serial = client.serial /\ client'.job = client.job
  BY <1>2, <1>3, ControlsKept
<1> QED
  BY <1>1, <1>2, <1>4 DEF Holds, Chosen

\* A seat that has no socket.
Unjoined(m) == m \in Seats /\ m.ws = Undefined /\ ~m.adapter /\ Coherent(m) /\ (~m.there => m = Nobody)

\* A seat without a socket asks nothing of the page.
LEMMA SeatlessKept ==
    ASSUME NEW p, NEW m, Core(p, m), NEW n, Unjoined(n)
    PROVE  Core(p, n) /\ Offered(p, n)
<1>1. ~Joined(p, n)
  BY DEF Unjoined, Joined
<1>2. SeatFits(p, n)
  BY DEF Unjoined, SeatFits
<1> QED
  BY <1>1, <1>2 DEF Unjoined, Core, PipeFits, Offered

\* Nobody's seat is one.
LEMMA NobodyIs ==
    /\ Unjoined(Nobody)
    /\ Unjoined([Nobody EXCEPT !.there = TRUE])
<1>1. Nobody \in Seats
  BY DEF Nobody, Seats
<1> DEFINE n == [Nobody EXCEPT !.there = TRUE]
<1>2. n \in Seats
  BY <1>1 DEF Seats
<1>3. Nobody.ws = Undefined /\ ~Nobody.adapter /\ Nobody.match = "none"
  BY DEF Nobody
<1>4. n.ws = Undefined /\ ~n.adapter /\ n.match = "none" /\ n.there
  BY DEF Nobody
<1> HIDE DEF n
<1>5. Unjoined(n)
  BY <1>2, <1>4 DEF Unjoined, Coherent
<1>6. Unjoined(Nobody)
  BY <1>1, <1>3 DEF Unjoined, Coherent
<1> QED
  BY <1>5, <1>6 DEF n

\* There is a number left for a socket.
LEMMA SocketLeft ==
    ASSUME client \in Clients, MayOpen PROVE client.sockets < MaxOpened
<1>1. client.sockets \in 0..MaxOpened /\ client.plugs \in Nat
  BY DEF Clients
<1> QED
  BY <1>1, UndefinedIsApart DEF MayOpen

\* The page takes its new seat.
LEMMA SeatedKept ==
    ASSUME GamesInv, Seated PROVE Holds(client', member')
<1> DEFINE e == enter(client)
           p == [e EXCEPT !.busy = "no"]
           n == [Nobody EXCEPT !.there = TRUE]
<1>1. Core(client, member) /\ Chosen(client) /\ client.sockets < MaxOpened
  BY SocketLeft DEF GamesInv, Holds, Core, Seated
<1>2. client' = controls(p) /\ member' = n
  BY DEF Seated
<1>3. Unjoined(n)
  BY NobodyIs
<1> HIDE DEF n
<1>4. Core(client, n)
  BY <1>1, <1>3, SeatlessKept
<1>5. Core(e, n) /\ Offered(e, n) /\ e.job = client.job /\ e.serial = client.serial
  BY <1>1, <1>4, EnterKept
<1> HIDE DEF e
<1>6. Core(p, n) /\ Offered(p, n) /\ p.serial = e.serial /\ p.job = e.job
  BY <1>5, AsideKept
<1> HIDE DEF p
<1>7. /\ Core(client', n) /\ Offered(client', n)
      /\ client'.serial = p.serial /\ client'.job = p.job
  BY <1>2, <1>6, ControlsKept
<1> QED
  BY <1>1, <1>2, <1>5, <1>6, <1>7 DEF Holds, Chosen

\* The room is left.
LEMMA LeftKept ==
    ASSUME GamesInv, Left PROVE Holds(client', member')
<1> DEFINE c == clear(client)
<1>1. Core(client, member) /\ Chosen(client)
  BY DEF GamesInv, Holds
<1>2. client' = [c EXCEPT !.busy = "list"] /\ member' = member
  BY DEF Left, Does
<1>3. Core(c, member) /\ Offered(c, member) /\ c.job = client.job /\ c.serial = client.serial
  BY <1>1, ClearKept
<1> HIDE DEF c
<1>4. /\ Core(client', member) /\ Offered(client', member)
      /\ client'.serial = c.serial /\ client'.job = c.job
  BY <1>2, <1>3, AsideKept
<1> QED
  BY <1>1, <1>2, <1>3, <1>4 DEF Holds, Chosen

\* A saved seat is taken up again.
LEMMA InitializedKept ==
    ASSUME GamesInv, Initialized PROVE Holds(client', member')
<1>1. Core(client, member) /\ Offered(client, member) /\ Chosen(client) /\ client \in Clients
  BY DEF GamesInv, Holds, Core
<1> DEFINE e == enter(client)
           c == controls(client)
<1>2. /\ member' = member
      /\ \/ MayOpen /\ client' = [e EXCEPT !.busy = "no"]
         \/ client' = [c EXCEPT !.busy = "no"]
  BY DEF Initialized, Does
<1>3. CASE MayOpen /\ client' = [e EXCEPT !.busy = "no"]
  <2>1. Core(e, member) /\ Offered(e, member) /\ e.job = client.job /\ e.serial = client.serial
    BY <1>1, <1>3, EnterKept, SocketLeft
  <2> HIDE DEF e
  <2>2. /\ Core(client', member) /\ Offered(client', member)
        /\ client'.serial = e.serial /\ client'.job = e.job
    BY <1>3, <2>1, AsideKept
  <2> QED
    BY <1>1, <1>2, <2>1, <2>2 DEF Holds, Chosen
<1>4. CASE client' = [c EXCEPT !.busy = "no"]
  <2>1. Core(c, member) /\ Offered(c, member) /\ c.job = client.job /\ c.serial = client.serial
    BY <1>1, ControlsKept
  <2> HIDE DEF c
  <2>2. /\ Core(client', member) /\ Offered(client', member)
        /\ client'.serial = c.serial /\ client'.job = c.job
    BY <1>4, <2>1, AsideKept
  <2> QED
    BY <1>1, <1>2, <2>1, <2>2 DEF Holds, Chosen
<1> QED
  BY <1>2, <1>3, <1>4

\* A page that is loaded has no socket, no adapter and no snapshot.
LEMMA PageIs ==
    ASSUME NEW mode \in Modes, NEW wires \in [1..MaxOpened -> SocketLines], NEW used,
           used.sockets \in 0..MaxOpened, used.bridges \in Nat, used.plugs \in Nat,
           NEW q, q = Page(mode, wires, used)
    PROVE  /\ q \in Clients /\ q.lines = wires /\ q.ws = Undefined /\ q.sockets = used.sockets
           /\ AdapterFits(q) /\ q.job = "no" /\ q.snapshot = Undefined
<1>1. Fresh \in Scores /\ 1 \in Int
  BY FreshScore
<1>2. q \in Clients
  BY <1>1 DEF Page, Clients
<1>3. /\ q.lines = wires /\ q.ws = Undefined /\ q.sockets = used.sockets /\ q.job = "no"
      /\ q.bridge = Undefined /\ ~q.connecting /\ q.sink = "none" /\ q.snapshot = Undefined
  BY DEF Page
<1>4. AdapterFits(q)
  BY <1>3 DEF AdapterFits, Bridge, LiveBridge
<1> QED
  BY <1>2, <1>3, <1>4

\* The page is loaded anew.
LEMMA ReloadKept ==
    ASSUME GamesInv, Reload PROVE Holds(client', member')
<1> DEFINE c == close(client)
           q == Page(c.mode, c.lines, c)
<1>1. Core(client, member) /\ client \in Clients /\ member \in Seats
  BY DEF GamesInv, Holds, Core
<1>2. c \in Clients /\ LinesFit(c) /\ SeatFits(c, member) /\ c.ws = Undefined
  BY <1>1, CloseIs
<1>3. client' = [q EXCEPT !.saved = client.saved] /\ member' = member
  BY DEF Reload, Does
<1> HIDE DEF c
<1>4. /\ q \in Clients /\ q.lines = c.lines /\ q.ws = Undefined /\ q.sockets = c.sockets
      /\ AdapterFits(q) /\ q.job = "no" /\ q.snapshot = Undefined
  <2>1. /\ c.mode \in Modes /\ c.lines \in [1..MaxOpened -> SocketLines]
        /\ c.sockets \in 0..MaxOpened /\ c.bridges \in Nat /\ c.plugs \in Nat
    BY <1>2 DEF Clients
  <2> QED
    BY <2>1, PageIs
<1> HIDE DEF q
<1>5. LinesFit(q) /\ SeatFits(q, member) /\ ~Joined(q, member)
  <2>1. \A x : StateOf(q, x) = StateOf(c, x)
    BY <1>4 DEF StateOf
  <2>2. LinesFit(q)
    BY <1>2, <1>4, <2>1 DEF LinesFit
  <2>3. SeatFits(q, member)
    BY <1>2, <1>4, <2>1 DEF SeatFits
  <2> QED
    BY <1>4, <2>2, <2>3 DEF Joined
<1>6. Core(q, member) /\ Offered(q, member)
  BY <1>1, <1>4, <1>5 DEF Core, PipeFits, Offered
<1>7. client.saved \in BOOLEAN
  BY <1>1 DEF Clients
<1>8. /\ client' \in Clients /\ SameRoomSide(q, client') /\ client'.lines = q.lines
      /\ client'.bridge = q.bridge /\ client'.serial = q.serial /\ client'.job = q.job
      /\ client'.connecting = q.connecting /\ client'.score = q.score /\ client'.sink = q.sink
  BY <1>3, <1>4, <1>7 DEF Clients, SameRoomSide
<1>9. AdapterFits(client')
  <2>1. /\ client'.ws = q.ws /\ client'.mode = q.mode /\ client'.snapshot = q.snapshot
        /\ StateOf(client', client'.ws) = StateOf(q, q.ws)
    BY <1>8 DEF SameRoomSide, StateOf
  <2>2. Bridge(client') = Bridge(q) /\ LiveBridge(client') = LiveBridge(q)
    BY <1>8 DEF Bridge, LiveBridge
  <2> QED
    BY <1>4, <1>8, <2>1, <2>2 DEF AdapterFits
<1>10. Core(client', member) /\ Offered(client', member)
  BY <1>6, <1>8, <1>9, PageOnly
<1> QED
  BY <1>3, <1>4, <1>8, <1>10 DEF Holds, Chosen

\* Another socket for the seat.
LEMMA ReconnectRoomKept ==
    ASSUME GamesInv, ReconnectRoom PROVE Holds(client', member')
<1>1. Core(client, member) /\ Chosen(client) /\ client.sockets < MaxOpened
  BY SocketLeft DEF GamesInv, Holds, Core, ReconnectRoom
<1>2. client' = enter(client) /\ member' = member
  BY DEF ReconnectRoom, Does
<1>3. /\ Core(client', member) /\ Offered(client', member)
      /\ client'.job = client.job /\ client'.serial = client.serial
  BY <1>1, <1>2, EnterKept
<1> QED
  BY <1>1, <1>2, <1>3 DEF Holds, Chosen

\* A bridge is made anew: there is an adapter and an open socket, so that it is
\* made unless there is a match.
LEMMA ReconnectToyKept ==
    ASSUME GamesInv, ReconnectToy PROVE Holds(client', member')
<1> DEFINE t == releaseAdapter(client)
<1>1. /\ Core(client, member) /\ Chosen(client)
      /\ IsOpen(client) /\ client.serial # Undefined
  BY DEF GamesInv, Holds, ReconnectToy
<1>2. client' = syncAdapter(t, TRUE) /\ member' = member
  BY DEF ReconnectToy, Does
<1>3. /\ Core(t, member) /\ ~Bridge(t) /\ ~t.connecting
      /\ t.serial = client.serial /\ t.job = client.job /\ IsOpen(t) = IsOpen(client)
  BY <1>1, ReleaseKept
<1> HIDE DEF t
<1>4. /\ Core(client', member) /\ client'.serial = t.serial /\ client'.job = t.job
      /\ Bridge(client') \/ (client' = t /\ NoBridgeDue(t, TRUE))
  BY <1>2, <1>3, SyncKept
<1>5. Offered(client', member)
  <2>1. CASE Bridge(client')
    BY <1>4, <2>1, NoOffer
  <2>2. CASE client' = t /\ NoBridgeDue(t, TRUE)
    <3>1. InMatch(t)
      BY <1>1, <1>3, <2>2 DEF NoBridgeDue, Bridge
    <3> QED
      BY <1>3, <2>2, <3>1, NoOffer
  <2> QED
    BY <1>4, <2>1, <2>2
<1> QED
  BY <1>1, <1>2, <1>3, <1>4, <1>5 DEF Holds, Chosen

\* A step of the player keeps the invariant.
LEMMA PlayerKept ==
    ASSUME GamesInv, Player PROVE Holds(client', member')
  BY ConnectKept, OpenedKept, InstallKept, SubscribesKept, JobEndsKept, InstallLostKept,
     AdapterLostKept, LaterControlsKept, AskKept, SeatedKept, AnsweredKept, LeftKept,
     InitializedKept, ReloadKept, ReconnectRoomKept, ReconnectToyKept DEF Player

-----------------------------------------------------------------------------
(* What happens to the socket                                               *)

\* One line changes.
WithLine(p, w, line) == [p EXCEPT !.lines = [p.lines EXCEPT ![w] = line]]

\* What changing a line leaves alone.
LEMMA WithLineIs ==
    ASSUME NEW p \in Clients, NEW w \in 1..MaxOpened, NEW line \in SocketLines,
           NEW q, q = WithLine(p, w, line)
    PROVE  /\ q \in Clients /\ SameRoomSide(p, q) /\ q.bridge = p.bridge
           /\ q.serial = p.serial /\ q.connecting = p.connecting /\ q.score = p.score
           /\ q.job = p.job /\ q.sink = p.sink
           /\ q.lines[w] = line /\ StateOf(q, w) = line.state
           /\ \A x \in 1..MaxOpened : x # w => q.lines[x] = p.lines[x] /\ StateOf(q, x) = StateOf(p, x)
<1> DEFINE wires == [p.lines EXCEPT ![w] = line]
<1>1. /\ wires \in [1..MaxOpened -> SocketLines] /\ wires[w] = line
      /\ \A x \in 1..MaxOpened : x # w => wires[x] = p.lines[x]
  BY DEF Clients
<1>2. q = [p EXCEPT !.lines = wires]
  BY DEF WithLine
<1> HIDE DEF wires
<1>3. /\ q \in Clients /\ SameRoomSide(p, q) /\ q.bridge = p.bridge
      /\ q.serial = p.serial /\ q.connecting = p.connecting /\ q.score = p.score
      /\ q.job = p.job /\ q.sink = p.sink /\ q.lines = wires
  BY <1>1, <1>2 DEF Clients, SameRoomSide
<1> QED
  BY <1>1, <1>3 DEF StateOf

\* What a line that the page has had may become.
LEMMA WithLineFits ==
    ASSUME NEW p \in Clients, NEW m, AdapterFits(p), LinesFit(p), SeatFits(p, m),
           NEW w \in 1..MaxOpened, w <= p.sockets, NEW line \in SocketLines,
           line.state \in {"new", "accepted", "open", "lost", "closed"},
           line.state \in Alive => w = p.ws,
           line.state = "accepted" => line.up = <<>> /\ p.snapshot = Undefined /\ ~Bridge(p),
           NEW q, q = WithLine(p, w, line)
    PROVE  LinesFit(q) /\ SeatFits(q, m) /\ AdapterFits(q)
<1>1. /\ q \in Clients /\ SameRoomSide(p, q) /\ q.bridge = p.bridge
      /\ q.serial = p.serial /\ q.connecting = p.connecting /\ q.score = p.score
      /\ q.job = p.job /\ q.sink = p.sink
      /\ q.lines[w] = line /\ StateOf(q, w) = line.state
      /\ \A x \in 1..MaxOpened : x # w => q.lines[x] = p.lines[x] /\ StateOf(q, x) = StateOf(p, x)
  BY WithLineIs
<1>2. /\ q.ws = p.ws /\ q.sockets = p.sockets /\ q.mode = p.mode /\ q.snapshot = p.snapshot
      /\ p.sockets \in 0..MaxOpened
  BY <1>1 DEF SameRoomSide, Clients
<1>3. ASSUME NEW x \in 1..MaxOpened
      PROVE  /\ x # q.ws => StateOf(q, x) \notin Alive
             /\ x > q.sockets => q.lines[x] = Line
             /\ StateOf(q, x) \in {"connecting", "accepted"} => q.lines[x].up = <<>>
             /\ StateOf(q, x) = "connecting" => q.lines[x].down = <<>>
  <2>1. CASE x = w
    <3>1. ~ x > q.sockets
      BY <1>2, <2>1
    <3> QED
      BY <1>1, <1>2, <2>1, <3>1
  <2>2. CASE x # w
    <3>1. q.lines[x] = p.lines[x] /\ StateOf(q, x) = StateOf(p, x)
      BY <1>1, <2>2
    <3> QED
      BY <1>2, <3>1 DEF LinesFit
  <2> QED
    BY <2>1, <2>2
<1>4. p.ws # Undefined => p.ws \in 1..p.sockets /\ p.ws \in 1..MaxOpened
  BY <1>2, UndefinedIsApart DEF LinesFit
<1>5. /\ p.ws # Undefined /\ p.ws # w => StateOf(q, p.ws) = StateOf(p, p.ws)
      /\ p.ws = w => StateOf(q, p.ws) = line.state
  BY <1>1, <1>4
<1>6. q.ws # Undefined /\ StateOf(q, q.ws) \in {"connecting", "accepted"} => q.snapshot = Undefined
  <2>1. CASE p.ws = w
    BY <1>2, <1>5, <2>1
  <2>2. CASE p.ws # w
    BY <1>2, <1>5, <2>2 DEF LinesFit
  <2> QED
    BY <2>1, <2>2
<1>7. LinesFit(q)
  BY <1>2, <1>3, <1>4, <1>6 DEF LinesFit
<1>8. SeatFits(q, m)
  <2>1. m.ws # Undefined => m.ws \in 1..p.sockets /\ m.ws \in 1..MaxOpened
    BY <1>2, UndefinedIsApart DEF SeatFits
  <2>2. m.ws # Undefined => StateOf(q, m.ws) # "connecting"
    <3>1. CASE m.ws = w
      BY <1>1, <3>1
    <3>2. CASE m.ws # w
      BY <1>1, <2>1, <3>2 DEF SeatFits
    <3> QED
      BY <3>1, <3>2
  <2> QED
    BY <1>2, <2>1, <2>2 DEF SeatFits
<1>9. Bridge(p) => StateOf(q, p.ws) \notin {"connecting", "accepted"}
  <2>1. CASE p.ws = w
    BY <1>5, <2>1
  <2>2. CASE p.ws # w
    BY <1>5, <2>2 DEF AdapterFits
  <2> QED
    BY <2>1, <2>2
<1>10. AdapterFits(q)
  BY <1>1, <1>2, <1>9 DEF AdapterFits, Bridge, LiveBridge
<1> QED
  BY <1>7, <1>8, <1>10

\* A page that looks the same to its seat.
LEMMA PipeKept ==
    ASSUME NEW p, NEW m, NEW q, Up(q) = Up(p), Down(q) = Down(p), SameRoomSide(p, q),
           StateOf(q, q.ws) = StateOf(p, p.ws), q.bridge = p.bridge, q.serial = p.serial
    PROVE  /\ Joined(q, m) = Joined(p, m)
           /\ PipeFits(p, m) => PipeFits(q, m)
           /\ Offered(p, m) => Offered(q, m)
<1>1. /\ q.ws = p.ws /\ q.mode = p.mode /\ q.snapshot = p.snapshot
      /\ AllOff(q) = AllOff(p) /\ InMatch(q) = InMatch(p)
      /\ LiveBridge(q) = LiveBridge(p) /\ Idle(q) = Idle(p)
  BY DEF SameRoomSide, AllOff, InMatch, LiveBridge, Idle, Bridge
<1>2. Joined(q, m) = Joined(p, m)
  BY <1>1 DEF Joined
<1>3. Known(p, m) => Known(q, m)
  BY <1>1 DEF Known
<1>4. OneMatch(p, m) => OneMatch(q, m)
  BY <1>1 DEF OneMatch
<1>5. NoneCounted(p, m) => NoneCounted(q, m)
  BY <1>1 DEF NoneCounted
<1>6. OfferedFirst(p, m) => OfferedFirst(q, m)
  BY <1>1 DEF OfferedFirst
<1>7. OfferedAgain(p, m) => OfferedAgain(q, m)
  BY <1>1 DEF OfferedAgain
<1> QED
  BY <1>2, <1>3, <1>4, <1>5, <1>6, <1>7 DEF PipeFits, Offered

\* A line that goes, or one that is not the page's.
LEMMA LineGoes ==
    ASSUME NEW p, NEW m, Core(p, m), Offered(p, m), NEW w \in 1..MaxOpened, w <= p.sockets,
           NEW line \in SocketLines, line.state \in {"lost", "closed"},
           NEW q, q = WithLine(p, w, line)
    PROVE  Core(q, m) /\ Offered(q, m) /\ q.serial = p.serial /\ q.job = p.job
<1>1. /\ p \in Clients /\ m \in Seats /\ AdapterFits(p) /\ LinesFit(p) /\ SeatFits(p, m)
      /\ PipeFits(p, m)
  BY DEF Core
<1>2. LinesFit(q) /\ SeatFits(q, m) /\ AdapterFits(q)
  BY <1>1, WithLineFits DEF Alive
<1>3. /\ q \in Clients /\ SameRoomSide(p, q) /\ q.bridge = p.bridge
      /\ q.serial = p.serial /\ q.job = p.job
      /\ q.lines[w] = line /\ StateOf(q, w) = line.state
      /\ \A x \in 1..MaxOpened : x # w => q.lines[x] = p.lines[x] /\ StateOf(q, x) = StateOf(p, x)
  BY <1>1, WithLineIs
<1>4. PipeFits(q, m) /\ Offered(q, m)
  <2>1. CASE ~Joined(q, m)
    BY <2>1 DEF PipeFits, Offered
  <2>2. CASE Joined(q, m)
    <3>1. q.ws = p.ws /\ q.ws # w /\ q.ws # Undefined
      BY <1>3, <2>2 DEF Joined, SameRoomSide
    <3>2. p.ws \in 1..MaxOpened
      BY <1>1, <3>1, UndefinedIsApart DEF LinesFit, Clients
    <3>3. q.lines[p.ws] = p.lines[p.ws]
      BY <1>3, <3>1, <3>2
    <3>4. Up(q) = Up(p) /\ Down(q) = Down(p) /\ StateOf(q, q.ws) = StateOf(p, p.ws)
      BY <3>1, <3>3 DEF Up, Down, StateOf
    <3> QED
      BY <1>1, <1>3, <3>4, PipeKept
  <2> QED
    BY <2>1, <2>2
<1> QED
  BY <1>1, <1>2, <1>3, <1>4 DEF Core

\* A line that has been used is one that was opened.
LEMMA UsedLine ==
    ASSUME NEW p \in Clients, LinesFit(p), NEW w \in 1..MaxOpened, p.lines[w] # Line
    PROVE  w <= p.sockets
  BY DEF LinesFit, Clients

\* The socket opens.
LEMMA OpensKept ==
    ASSUME GamesInv, NEW w \in 1..MaxOpened, Opens(w) PROVE Holds(client', member')
<1> DEFINE line == [client.lines[w] EXCEPT !.state = "open"]
<1>1. /\ Core(client, member) /\ Offered(client, member) /\ Chosen(client)
      /\ client \in Clients /\ member \in Seats /\ AdapterFits(client) /\ LinesFit(client)
      /\ SeatFits(client, member) /\ PipeFits(client, member)
  BY DEF GamesInv, Holds, Core
<1>2. client.lines[w].state = "accepted" /\ StateOf(client, w) = "accepted" /\ member' = member
  BY DEF Opens, Does, StateOf
<1>3. client.lines[w] \in SocketLines
  BY <1>1 DEF Clients
<1>4. /\ line \in SocketLines /\ line.state = "open" /\ line.up = client.lines[w].up
      /\ line.down = client.lines[w].down
  BY <1>3 DEF SocketLines, States
<1>5. client' = WithLine(client, w, line)
  BY <1>1, <1>3 DEF Opens, Does, Now, WithLine, Clients, SocketLines
<1> HIDE DEF line
<1>6. w = client.ws /\ w <= client.sockets /\ client.snapshot = Undefined
  <2>1. w = client.ws
    BY <1>1, <1>2 DEF LinesFit, Alive
  <2>2. client.lines[w] # Line
    BY <1>2 DEF Line
  <2>3. w <= client.sockets
    BY <1>1, <2>2, UsedLine
  <2>4. client.ws # Undefined
    BY <2>1, UndefinedIsApart
  <2> QED
    BY <1>1, <1>2, <2>1, <2>3, <2>4 DEF LinesFit
<1>7. LinesFit(client') /\ SeatFits(client', member) /\ AdapterFits(client')
  <2>1. line.state \in {"accepted", "open", "lost", "closed"} /\ line.state # "accepted"
    BY <1>4
  <2> QED
    BY <1>1, <1>4, <1>5, <1>6, <2>1, WithLineFits
<1>8. /\ client' \in Clients /\ SameRoomSide(client, client') /\ client'.bridge = client.bridge
      /\ client'.serial = client.serial /\ client'.job = client.job
      /\ client'.lines[w] = line /\ StateOf(client', w) = "open"
  BY <1>1, <1>4, <1>5, WithLineIs
<1>9. Up(client') = Up(client) /\ Down(client') = Down(client) /\ client'.ws = w
  BY <1>4, <1>6, <1>8 DEF Up, Down, SameRoomSide
<1>10. Joined(client', member) = Joined(client, member)
  BY <1>2, <1>6, <1>8, <1>9 DEF Joined, SameRoomSide
<1>11. ASSUME Joined(client', member)
       PROVE  /\ Known(client', member) /\ OneMatch(client', member)
              /\ NoneCounted(client', member)
              /\ OfferedFirst(client', member) /\ OfferedAgain(client', member)
  <2>1. /\ Known(client, member) /\ OneMatch(client, member) /\ NoneCounted(client, member)
        /\ OfferedFirst(client, member)
    BY <1>1, <1>10, <1>11 DEF PipeFits, Offered
  <2>2. client'.snapshot = Undefined
    BY <1>6, <1>8 DEF SameRoomSide
  <2>3. ~InMatch(client')
    BY <2>2 DEF InMatch
  <2>4. Known(client', member)
    BY <1>6, <1>9, <2>1, <2>2 DEF Known
  <2>5. OneMatch(client', member)
    BY <1>9, <2>1, <2>3 DEF OneMatch
  <2>6. NoneCounted(client', member)
    BY <1>8, <1>9, <2>1 DEF NoneCounted, LiveBridge
  <2>7. OfferedFirst(client', member)
    BY <1>2, <1>6, <1>9, <2>1 DEF OfferedFirst
  <2>8. OfferedAgain(client', member)
    BY <2>2 DEF OfferedAgain
  <2> QED
    BY <2>4, <2>5, <2>6, <2>7, <2>8
<1> QED
  BY <1>1, <1>2, <1>7, <1>8, <1>11 DEF Holds, Core, PipeFits, Offered, Chosen

\* The connection goes.
LEMMA DropsKept ==
    ASSUME GamesInv, NEW w \in 1..MaxOpened, Drops(w) PROVE Holds(client', member')
<1> DEFINE line == [Line EXCEPT !.state = "lost"]
<1>1. /\ Core(client, member) /\ Offered(client, member) /\ Chosen(client)
      /\ client \in Clients /\ LinesFit(client)
  BY DEF GamesInv, Holds, Core
<1>2. client.lines[w] # Line
  BY DEF Drops, Line, Alive
<1>3. line \in SocketLines /\ line.state = "lost"
  <2>1. <<>> \in Seq([connected : BOOLEAN]) /\ <<>> \in Seq(Snapshots) /\ "lost" \in States
    BY DEF States
  <2>2. line = [state |-> "lost", up |-> <<>>, down |-> <<>>]
    BY DEF Line
  <2> QED
    BY <2>1, <2>2 DEF SocketLines
<1>4. client' = WithLine(client, w, line) /\ member' = member
  BY <1>1 DEF Drops, Does, WithLine, Clients
<1> HIDE DEF line
<1>5. /\ Core(client', member) /\ Offered(client', member)
      /\ client'.serial = client.serial /\ client'.job = client.job
  <2>1. w <= client.sockets
    BY <1>1, <1>2, UsedLine
  <2> QED
    BY <1>1, <1>3, <1>4, <2>1, LineGoes
<1> QED
  BY <1>1, <1>4, <1>5 DEF Holds, Chosen

\* The page hears of it, and stops its bridge.
LEMMA CloseEventKept ==
    ASSUME GamesInv, NEW w \in 1..MaxOpened, CloseEvent(w) PROVE Holds(client', member')
<1> DEFINE line == [client.lines[w] EXCEPT !.state = "closed"]
           s == Stopped(client)
           r == [s EXCEPT !.connecting = FALSE]
           p == IF w = client.ws THEN r ELSE client
<1>1. /\ Core(client, member) /\ Offered(client, member) /\ Chosen(client)
      /\ client \in Clients /\ LinesFit(client) /\ AdapterFits(client) /\ member \in Seats
      /\ SeatFits(client, member)
  BY DEF GamesInv, Holds, Core
<1>2. client.lines[w].state = "lost" /\ client.lines[w] # Line /\ client.lines[w] \in SocketLines
  <2>1. client.lines[w].state = "lost" /\ Line.state = "new"
    BY DEF CloseEvent, Line
  <2>2. client.lines[w] \in SocketLines
    BY <1>1 DEF Clients
  <2> QED
    BY <2>1, <2>2
<1>3. line \in SocketLines /\ line.state = "closed"
  BY <1>2 DEF SocketLines, States
<1>4. /\ s \in Clients /\ SameRoomSide(client, s) /\ s.lines = client.lines /\ s.bridge = Undefined
      /\ s.score = client.score /\ s.serial = client.serial /\ s.job = client.job
      /\ s.sink = (IF client.sink = "bridge" THEN "none" ELSE client.sink)
  BY <1>1, StoppedIs DEF Bridge
<1>5. client' = [p EXCEPT !.lines = Now(w, "closed")] /\ member' = member
  BY DEF CloseEvent, Does
<1> HIDE DEF s
<1>6. /\ r \in Clients /\ SameRoomSide(client, r) /\ r.lines = client.lines
      /\ r.bridge = Undefined /\ ~r.connecting
      /\ r.score = client.score /\ r.serial = client.serial /\ r.job = client.job
      /\ r.sink = (IF client.sink = "bridge" THEN "none" ELSE client.sink)
  BY <1>4 DEF Clients, SameRoomSide
<1> HIDE DEF r
<1>7. CASE w # client.ws
  <2>1. client' = WithLine(client, w, line)
    BY <1>1, <1>2, <1>5, <1>7 DEF Now, WithLine, Clients, SocketLines
  <2> HIDE DEF line
  <2>2. w <= client.sockets
    BY <1>1, <1>2, UsedLine
  <2>3. /\ Core(client', member) /\ Offered(client', member)
        /\ client'.serial = client.serial /\ client'.job = client.job
    BY <1>1, <1>3, <2>1, <2>2, LineGoes
  <2> QED
    BY <1>1, <1>5, <2>3 DEF Holds, Chosen
<1>8. CASE w = client.ws
  <2>1. client' = WithLine(r, w, line)
    BY <1>1, <1>2, <1>5, <1>6, <1>8 DEF Now, WithLine, Clients, SocketLines
  <2> HIDE DEF line
  <2>2. AdapterFits(r)
    BY <1>1, <1>6 DEF AdapterFits, Bridge, LiveBridge
  <2>3. LinesFit(r) /\ SeatFits(r, member) /\ Joined(r, member) = Joined(client, member)
    BY <1>1, <1>6, RoomSideKept
  <2>4. StateOf(r, r.ws) = "lost"
    BY <1>2, <1>6, <1>8 DEF StateOf, SameRoomSide
  <2>5. ~Joined(r, member)
    BY <2>4 DEF Joined
  <2>6. Core(r, member) /\ Offered(r, member)
    BY <1>1, <1>6, <2>2, <2>3, <2>5 DEF Core, PipeFits, Offered
  <2>7. w <= r.sockets
    BY <1>2, <1>6, <2>3, UsedLine
  <2>8. /\ Core(client', member) /\ Offered(client', member)
        /\ client'.serial = r.serial /\ client'.job = r.job
    BY <1>3, <2>1, <2>6, <2>7, LineGoes
  <2> QED
    BY <1>1, <1>5, <1>6, <2>8 DEF Holds, Chosen
<1> QED
  BY <1>7, <1>8

\* A snapshot comes off the line of the page.
ReadOff(p) == [p EXCEPT !.lines[p.ws].down = Tail(@)]

\* The rest of the line stays.
LEMMA ReadIs ==
    ASSUME NEW p, NEW m, p \in Clients, AdapterFits(p), LinesFit(p), SeatFits(p, m),
           p.ws \in 1..MaxOpened, StateOf(p, p.ws) = "open", Down(p) # <<>>,
           NEW q, q = ReadOff(p)
    PROVE  /\ q \in Clients /\ SameRoomSide(p, q) /\ q.bridge = p.bridge
           /\ q.serial = p.serial /\ q.connecting = p.connecting /\ q.score = p.score
           /\ q.job = p.job /\ q.sink = p.sink
           /\ AdapterFits(q) /\ LinesFit(q) /\ SeatFits(q, m)
           /\ StateOf(q, q.ws) = "open" /\ Up(q) = Up(p)
           /\ Down(p) \in Seq(Snapshots) /\ Down(q) = Tail(Down(p))
           /\ Head(Down(p)) \in Snapshots
           /\ Joined(q, m) = Joined(p, m)
<1> DEFINE w == p.ws
           down == Tail(p.lines[w].down)
           line == [p.lines[w] EXCEPT !.down = down]
<1>1. p.lines[w] \in SocketLines /\ p.lines[w].down \in Seq(Snapshots) /\ p.lines[w].down # <<>>
  BY DEF Clients, SocketLines, Down
<1>2. down \in Seq(Snapshots) /\ Head(p.lines[w].down) \in Snapshots
  BY <1>1
<1>3. q = WithLine(p, w, line)
  BY <1>1 DEF ReadOff, WithLine, Clients, SocketLines
<1> HIDE DEF down
<1>4. line \in SocketLines /\ line.state = "open" /\ line.up = p.lines[w].up /\ line.down = down
  BY <1>1, <1>2 DEF SocketLines, StateOf
<1> HIDE DEF line, w
<1>5. w <= p.sockets /\ w \in 1..MaxOpened /\ w = p.ws
  BY UndefinedIsApart DEF LinesFit, Clients, w
<1>6. w \in 1..MaxOpened /\ line \in SocketLines /\ line.state = "open"
  BY <1>4, <1>5
<1>7. /\ q \in Clients /\ SameRoomSide(p, q) /\ q.bridge = p.bridge
      /\ q.serial = p.serial /\ q.connecting = p.connecting /\ q.score = p.score
      /\ q.job = p.job /\ q.sink = p.sink
      /\ q.lines[w] = line /\ StateOf(q, w) = "open"
  BY <1>3, <1>6, WithLineIs
<1>8. LinesFit(q) /\ SeatFits(q, m) /\ AdapterFits(q)
  <2>1. line.state \in {"accepted", "open", "lost", "closed"} /\ line.state # "accepted"
    BY <1>4
  <2> QED
    BY <1>3, <1>4, <1>5, <2>1, WithLineFits
<1>9. q.ws = w /\ q.mode = p.mode /\ Up(q) = Up(p) /\ Down(q) = Tail(Down(p))
  BY <1>4, <1>5, <1>7 DEF SameRoomSide, Up, Down, down
<1> QED
  BY <1>1, <1>2, <1>5, <1>7, <1>8, <1>9 DEF Down, Joined

\* A page reads a snapshot: whoever was in a match, and is not any more, has no
\* bridge then.
LEMMA ReceiveKept ==
    ASSUME GamesInv, NEW w \in 1..MaxOpened, Receive(w) PROVE Holds(client', member')
<1> DEFINE s == Head(client.lines[w].down)
           read == [client EXCEPT !.lines[w].down = Tail(@)]
           left == TornDown(read, s)
           torn == [left EXCEPT !.snapshot = s]
           known == IF s.adapter THEN [torn EXCEPT !.connecting = FALSE] ELSE torn
           over == IF InMatch(client) /\ s.match = "none" THEN Stopped(known) ELSE known
<1>1. /\ Core(client, member) /\ Offered(client, member) /\ Chosen(client)
      /\ client \in Clients /\ LinesFit(client) /\ AdapterFits(client) /\ member \in Seats
      /\ SeatFits(client, member) /\ PipeFits(client, member)
  BY DEF GamesInv, Holds, Core
<1>2. /\ w = client.ws /\ StateOf(client, client.ws) = "open" /\ Down(client) # <<>>
      /\ s = Head(Down(client)) /\ member' = member
      /\ client' = (IF client.snapshot = Undefined THEN syncAdapter(over, FALSE) ELSE over)
  BY DEF Receive, Does, StateOf, Down
<1>3. /\ read \in Clients /\ SameRoomSide(client, read) /\ read.bridge = client.bridge
      /\ read.serial = client.serial /\ read.connecting = client.connecting
      /\ read.score = client.score
      /\ read.job = client.job /\ read.sink = client.sink
      /\ AdapterFits(read) /\ LinesFit(read) /\ SeatFits(read, member)
      /\ StateOf(read, read.ws) = "open" /\ Up(read) = Up(client)
      /\ Down(client) \in Seq(Snapshots) /\ Down(read) = Tail(Down(client))
      /\ s \in Snapshots
      /\ Joined(read, member) = Joined(client, member)
  <2>1. client.ws \in 1..MaxOpened /\ read = ReadOff(client)
    BY <1>2 DEF ReadOff
  <2> HIDE DEF s, read
  <2> QED
    BY <1>1, <1>2, <2>1, ReadIs
<1> HIDE DEF s, read
<1>4. s # Undefined /\ s.adapter \in BOOLEAN /\ s.match \in {"none", "on", "over"}
  BY <1>3, UndefinedIsApart DEF Snapshots
\* Only a direct room tears a bridge down here.
<1>5. /\ left \in Clients /\ SameRoomSide(read, left) /\ left.lines = read.lines
      /\ left.connecting = read.connecting /\ left.serial = read.serial /\ left.job = read.job
      /\ AdapterFits(left)
      /\ read.mode = "hosted" => left.bridge = read.bridge
  <2> DEFINE u == Stopped(read)
  <2>1. left = read \/ (left = u /\ read.mode = "direct")
    BY DEF TornDown
  <2>2. CASE left = read
    BY <1>3, <2>2 DEF SameRoomSide
  <2>3. CASE left = u /\ read.mode = "direct"
    <3>1. /\ u \in Clients /\ SameRoomSide(read, u) /\ u.lines = read.lines /\ ~Bridge(u)
          /\ u.connecting = read.connecting /\ u.score = read.score /\ u.serial = read.serial
          /\ u.job = read.job
          /\ u.sink = (IF read.sink = "bridge" THEN "none" ELSE read.sink)
      BY <1>3, StoppedIs
    <3> HIDE DEF u
    <3>2. AdapterFits(u)
      <4>1. u.mode = "direct"
        BY <2>3, <3>1 DEF SameRoomSide
      <4> QED
        BY <1>3, <3>1, <4>1 DEF AdapterFits, Bridge, LiveBridge
    <3> QED
      BY <2>3, <3>1, <3>2
  <2> QED
    BY <2>1, <2>2, <2>3
<1> HIDE DEF left
<1>6. /\ torn \in Clients /\ torn.snapshot = s /\ torn.lines = read.lines
      /\ torn.ws = client.ws /\ torn.mode = client.mode /\ torn.sockets = client.sockets
      /\ torn.connecting = read.connecting /\ torn.serial = read.serial /\ torn.job = read.job
      /\ torn.bridge = left.bridge /\ torn.score = left.score /\ torn.sink = left.sink
  BY <1>3, <1>5 DEF Clients, SameRoomSide
<1> HIDE DEF torn
<1>7. /\ known \in Clients /\ known.snapshot = s /\ known.lines = read.lines
      /\ known.ws = client.ws /\ known.mode = client.mode /\ known.sockets = client.sockets
      /\ known.serial = read.serial /\ known.job = read.job
      /\ known.bridge = left.bridge /\ known.score = left.score /\ known.sink = left.sink
      /\ known.connecting => client.connecting
  <2>1. read.connecting = client.connecting
    BY <1>3
  <2>2. CASE s.adapter
    <3>1. known = [torn EXCEPT !.connecting = FALSE]
      BY <2>2
    <3> HIDE DEF known
    <3> QED
      BY <1>6, <3>1 DEF Clients
  <2>3. CASE ~s.adapter
    BY <1>6, <2>1, <2>3
  <2> QED
    BY <2>2, <2>3
<1> HIDE DEF known
<1>8. AdapterFits(known)
  <2>1. StateOf(known, known.ws) = "open" /\ left.ws = client.ws
    BY <1>3, <1>5, <1>7 DEF StateOf, SameRoomSide
  <2> QED
    BY <1>3, <1>4, <1>5, <1>7, <2>1 DEF AdapterFits, Bridge, LiveBridge
<1>9. /\ over \in Clients /\ over.snapshot = s /\ over.lines = read.lines
      /\ over.ws = client.ws /\ over.mode = client.mode /\ over.sockets = client.sockets
      /\ over.serial = read.serial /\ over.job = read.job
      /\ over.connecting => client.connecting
      /\ AdapterFits(over)
      /\ IF InMatch(client) /\ s.match = "none" THEN ~Bridge(over) ELSE over.bridge = left.bridge
  <2>1. CASE InMatch(client) /\ s.match = "none"
    <3>1. /\ over \in Clients /\ SameRoomSide(known, over) /\ over.lines = known.lines
          /\ ~Bridge(over) /\ over.connecting = known.connecting
          /\ over.serial = known.serial /\ over.job = known.job
          /\ over.sink = (IF known.sink = "bridge" THEN "none" ELSE known.sink)
      BY <1>7, <1>8, <2>1, StoppedIs
    <3> HIDE DEF over
    <3>2. AdapterFits(over)
      <4>1. over.snapshot # Undefined
        BY <1>4, <1>7, <3>1 DEF SameRoomSide
      <4> QED
        BY <1>8, <3>1, <4>1 DEF AdapterFits, Bridge, LiveBridge
    <3> QED
      BY <1>7, <2>1, <3>1, <3>2 DEF SameRoomSide
  <2>2. CASE ~(InMatch(client) /\ s.match = "none")
    BY <1>7, <1>8, <2>2
  <2> QED
    BY <2>1, <2>2
<1> HIDE DEF over
<1>10. /\ StateOf(over, over.ws) = "open" /\ Up(over) = Up(client) /\ Down(over) = Tail(Down(client))
       /\ Joined(over, member) = Joined(client, member) /\ IsOpen(over)
  <2>1. read.ws = client.ws /\ client.ws # Undefined
    BY <1>2, <1>3, UndefinedIsApart DEF SameRoomSide
  <2> QED
    BY <1>2, <1>3, <1>9, <2>1 DEF StateOf, Up, Down, Joined, IsOpen
<1>11. LinesFit(over) /\ SeatFits(over, member)
  <2>1. \A x : StateOf(over, x) = StateOf(read, x)
    BY <1>9 DEF StateOf
  <2>2. read.ws = client.ws /\ read.sockets = client.sockets
    BY <1>3 DEF SameRoomSide
  <2>3. LinesFit(over)
    BY <1>3, <1>9, <1>10, <2>1, <2>2 DEF LinesFit
  <2>4. SeatFits(over, member)
    BY <1>3, <1>9, <2>1, <2>2 DEF SeatFits
  <2> QED
    BY <2>3, <2>4
\* Of the line, what is left of it.
<1>12. /\ Len(Down(client)) \in Nat /\ Len(Down(client)) >= 1 /\ s = Down(client)[1]
       /\ Len(Down(over)) = Len(Down(client)) - 1
       /\ \A k \in 1..Len(Down(over)) : k + 1 \in 1..Len(Down(client)) /\ Down(over)[k] = Down(client)[k + 1]
  BY <1>2, <1>3, <1>10
<1>13. ASSUME Joined(over, member)
       PROVE  /\ Known(client, member) /\ OneMatch(client, member) /\ NoneCounted(client, member)
              /\ OfferedFirst(client, member) /\ OfferedAgain(client, member)
              /\ client.mode = "hosted" /\ left.bridge = client.bridge
  BY <1>1, <1>3, <1>5, <1>10, <1>13 DEF PipeFits, Offered, Joined, SameRoomSide
<1>14. ASSUME Joined(over, member) PROVE Known(over, member)
  <2>1. ASSUME Down(over) # <<>> PROVE Down(over)[Len(Down(over))] = View(member)
    <3>1. Down(over) \in Seq(Snapshots)
      BY <1>2, <1>3, <1>10
    <3>2. Len(Down(over)) \in 1..Len(Down(over))
      BY <1>12, <2>1, <3>1
    <3>3. Down(over)[Len(Down(over))] = Down(client)[Len(Down(client))]
      BY <1>12, <3>2
    <3> QED
      BY <1>2, <1>13, <1>14, <3>3 DEF Known
  <2>2. ASSUME Down(over) = <<>> PROVE over.snapshot = View(member)
    <3>1. Len(Down(client)) = 1
      BY <1>12, <2>2
    <3> QED
      BY <1>2, <1>9, <1>12, <1>13, <1>14, <3>1 DEF Known
  <2>3. \A k \in 1..Len(Down(over)) : Coherent(Down(over)[k])
    BY <1>12, <1>13, <1>14 DEF Known
  <2> QED
    BY <2>1, <2>2, <2>3 DEF Known
<1>15. ASSUME Joined(over, member) PROVE OneMatch(over, member)
  <2>1. ASSUME NEW j \in 1..Len(Down(over)), NEW k \in 1..Len(Down(over)), j < k,
               Down(over)[j].match # "none"
        PROVE  Down(over)[k].match # "none"
    <3>1. j + 1 \in 1..Len(Down(client)) /\ k + 1 \in 1..Len(Down(client)) /\ j + 1 < k + 1
      BY <1>12, <2>1
    <3>2. Down(over)[j] = Down(client)[j + 1] /\ Down(over)[k] = Down(client)[k + 1]
      BY <1>12
    <3> QED
      BY <1>13, <1>15, <2>1, <3>1, <3>2 DEF OneMatch
  <2>2. ASSUME InMatch(over), NEW k \in 1..Len(Down(over))
        PROVE  Down(over)[k].match # "none"
    <3>1. s.match # "none"
      BY <1>9, <2>2 DEF InMatch
    <3>2. /\ 1 \in 1..Len(Down(client)) /\ k + 1 \in 1..Len(Down(client)) /\ 1 < k + 1
          /\ Down(over)[k] = Down(client)[k + 1]
      BY <1>12
    <3> QED
      BY <1>12, <1>13, <1>15, <3>1, <3>2 DEF OneMatch
  <2> QED
    BY <2>1, <2>2 DEF OneMatch
\* The end of a match, when the page hears of it.
<1>16. ASSUME Joined(over, member), InMatch(client), s.match = "none"
       PROVE  /\ s.reason # Undefined /\ ~member.adapter /\ member.match = "none"
              /\ member.reason # Undefined /\ AllOff(client)
              /\ \A k \in 1..Len(Down(over)) : Down(over)[k].reason # Undefined
  <2>1. 1 \in 1..Len(Down(client)) /\ Down(client)[1].match = "none"
    BY <1>12, <1>16
  <2>2. /\ s.reason # Undefined /\ ~member.adapter /\ member.match = "none"
        /\ member.reason # Undefined /\ AllOff(client)
    BY <1>12, <1>13, <1>16, <2>1 DEF OneMatch
  <2>3. ASSUME NEW k \in 1..Len(Down(over)) PROVE Down(over)[k].reason # Undefined
    <3>1. k + 1 \in 1..Len(Down(client)) /\ Down(over)[k] = Down(client)[k + 1]
      BY <1>12
    <3>2. /\ Len(Down(client)) \in 1..Len(Down(client))
          /\ Down(client)[Len(Down(client))].match = "none"
      <4>1. Down(client)[Len(Down(client))] = View(member)
        BY <1>2, <1>13, <1>16 DEF Known
      <4> QED
        BY <1>12, <2>2, <4>1 DEF View
    <3>3. Down(client)[k + 1].match = "none"
      <4>1. CASE k + 1 = Len(Down(client))
        BY <3>2, <4>1
      <4>2. CASE k + 1 # Len(Down(client))
        <5>1. k + 1 < Len(Down(client))
          BY <1>12, <3>1, <4>2
        <5> QED
          BY <1>13, <1>16, <3>1, <3>2, <5>1 DEF OneMatch
      <4> QED
        BY <4>1, <4>2
    <3> QED
      BY <1>13, <1>16, <3>1, <3>3 DEF OneMatch
  <2> QED
    BY <2>2, <2>3
<1>17. ASSUME Joined(over, member) PROVE NoneCounted(over, member)
  <2>1. CASE ~LiveBridge(client)
    BY <1>10, <1>13, <1>17, <2>1 DEF NoneCounted
  <2>2. CASE InMatch(client) /\ s.match = "none"
    <3>1. ~member.adapter /\ AllOff(client)
      BY <1>16, <1>17, <2>2
    <3>2. Up(client) \in Seq([connected : BOOLEAN])
      BY <1>1, <1>2 DEF Clients, SocketLines, Up
    <3>3. Up(client) # <<>> => Len(Up(client)) \in 1..Len(Up(client))
      BY <3>2
    <3> QED
      BY <1>10, <3>1, <3>3 DEF NoneCounted, AllOff
  <2>3. CASE LiveBridge(client) /\ ~(InMatch(client) /\ s.match = "none")
    <3>1. LiveBridge(over)
      BY <1>9, <1>13, <1>17, <2>3 DEF LiveBridge
    <3> QED
      BY <3>1 DEF NoneCounted
  <2> QED
    BY <2>1, <2>2, <2>3
<1>18. Core(over, member)
  BY <1>1, <1>9, <1>11, <1>14, <1>15, <1>17 DEF Core, PipeFits
\* The page that heard of the seat before is offered to reconnect, as it was.
<1>19. ASSUME client.snapshot # Undefined PROVE Offered(over, member)
  <2>1. OfferedFirst(over, member)
    BY <1>4, <1>9 DEF OfferedFirst
  <2>2. ASSUME Joined(over, member), ~InMatch(over), Idle(over)
        PROVE  /\ s.reason # Undefined /\ member.reason # Undefined /\ AllOff(over)
               /\ \A k \in 1..Len(Down(over)) : Down(over)[k].reason # Undefined
    <3>0. s.match = "none" /\ AllOff(over) = AllOff(client)
      BY <1>4, <1>9, <1>10, <2>2 DEF InMatch, AllOff
    <3>1. CASE InMatch(client)
      BY <1>16, <2>2, <3>0, <3>1
    <3>2. CASE ~InMatch(client)
      <4>1. Idle(client)
        BY <1>3, <1>9, <1>13, <2>2, <3>2 DEF Idle, Bridge
      <4>2. /\ member.reason # Undefined /\ AllOff(client)
            /\ \A k \in 1..Len(Down(client)) : Down(client)[k].reason # Undefined
        BY <1>13, <1>19, <2>2, <3>2, <4>1 DEF OfferedAgain
      <4> QED
        BY <1>12, <3>0, <4>2
    <3> QED
      BY <3>1, <3>2
  <2> QED
    BY <1>9, <2>1, <2>2 DEF Offered, OfferedAgain
\* The first snapshot: either there is a bridge now, or a reason to have none.
<1>20. ASSUME client.snapshot = Undefined, NoBridgeDue(over, FALSE) PROVE Offered(over, member)
  <2>1. OfferedFirst(over, member)
    BY <1>4, <1>9 DEF OfferedFirst
  <2>2. ASSUME Joined(over, member), ~InMatch(over), Idle(over)
        PROVE  /\ s.reason # Undefined /\ member.reason # Undefined /\ AllOff(over)
               /\ \A k \in 1..Len(Down(over)) : Down(over)[k].reason # Undefined
    <3>1. Idle(client) /\ ~InMatch(client)
      BY <1>3, <1>9, <1>13, <1>20, <2>2 DEF Idle, Bridge, InMatch
    <3>2. ~over.connecting
      BY <1>1, <1>9, <1>13, <1>20, <2>2, <3>1 DEF AdapterFits, Idle
    <3>3. s.reason # Undefined
      BY <1>4, <1>9, <1>10, <1>20, <2>2, <3>2 DEF NoBridgeDue, Idle, Bridge, Reason
    <3>4. /\ Up(client) = <<>>
          /\ \A k \in 1..Len(Down(client)) :
                Down(client)[k].reason = Undefined <=> member.reason = Undefined
      BY <1>13, <1>20, <2>2, <3>1 DEF OfferedFirst
    <3>5. member.reason # Undefined
      BY <1>12, <3>3, <3>4
    <3>6. AllOff(over)
      BY <1>10, <3>4 DEF AllOff
    <3> QED
      BY <1>12, <3>3, <3>4, <3>5, <3>6
  <2> QED
    BY <1>9, <2>1, <2>2 DEF Offered, OfferedAgain
<1>21. CASE client.snapshot # Undefined
  BY <1>1, <1>2, <1>3, <1>9, <1>18, <1>19, <1>21 DEF Holds, Chosen
<1>22. CASE client.snapshot = Undefined
  <2>1. client' = syncAdapter(over, FALSE)
    BY <1>2, <1>22
  <2>2. /\ Core(client', member) /\ client'.serial = over.serial /\ client'.job = over.job
        /\ Bridge(client') \/ (client' = over /\ NoBridgeDue(over, FALSE))
    BY <1>18, <2>1, SyncKept
  <2>3. Offered(client', member)
    BY <1>20, <1>22, <2>2, NoOffer
  <2> QED
    BY <1>1, <1>2, <1>3, <1>9, <2>2, <2>3 DEF Holds, Chosen
<1> QED
  BY <1>21, <1>22

\* A packet and a write touch the score and the write under way only; the score is
\* then of the bridge the page has, or of a write that outlived its own.
LEMMA ShownIs ==
    ASSUME GamesInv, NEW b \in Nat, NEW w \in Nat \cup {Undefined},
           NEW p \in {client, Shown(client, b)},
           client' = [p EXCEPT !.writing = w], member' = member
    PROVE  Holds(client', member')
<1>1. /\ Core(client, member) /\ Offered(client, member) /\ Chosen(client)
      /\ client \in Clients /\ AdapterFits(client)
  BY DEF GamesInv, Holds, Core
<1> DEFINE c == [by |-> b, late |-> client.score.late \/ ~IsLive(client, b)]
<1>2. client.score \in Scores /\ c \in Scores
  BY <1>1 DEF Clients, Scores
<1>3. PICK t \in {client.score, c} : client' = [client EXCEPT !.score = t, !.writing = w]
  <2>1. CASE p = client
    BY <1>1, <2>1 DEF Clients
  <2>2. CASE p = Shown(client, b)
    BY <1>1, <2>2 DEF Clients, Shown
  <2> QED
    BY <2>1, <2>2
<1>4. Bridge(client) => client.score.late \/ client.score.by \in {Undefined, client.bridge.id}
  BY <1>1 DEF AdapterFits
<1>5. Bridge(client) => t.late \/ t.by \in {Undefined, client.bridge.id}
  <2>1. CASE t = client.score
    BY <1>4, <2>1
  <2>2. CASE t = c
    <3>1. IsLive(client, b) => client.bridge.id = b
      BY DEF IsLive
    <3>2. t.late = (client.score.late \/ ~IsLive(client, b)) /\ t.by = b
      BY <2>2
    <3> QED
      BY <3>1, <3>2
  <2> QED
    BY <1>3, <2>1, <2>2
<1> HIDE DEF c
<1>6. /\ client' \in Clients /\ SameRoomSide(client, client') /\ client'.lines = client.lines
      /\ client'.bridge = client.bridge /\ client'.serial = client.serial
      /\ client'.connecting = client.connecting /\ client'.score = t
      /\ client'.job = client.job /\ client'.sink = client.sink
  <2>1. client \in Clients /\ t \in Scores /\ w \in Nat \cup {Undefined}
        /\ client' = [client EXCEPT !.score = t, !.writing = w]
    BY <1>1, <1>2, <1>3
  <2>2. client' \in Clients
    BY <2>1 DEF Clients
  <2>3. /\ client'.lines = client.lines
        /\ client'.bridge = client.bridge /\ client'.serial = client.serial
        /\ client'.connecting = client.connecting /\ client'.score = t
        /\ client'.job = client.job /\ client'.sink = client.sink
    BY <2>1 DEF Clients
  <2>4. SameRoomSide(client, client')
    BY <2>1 DEF Clients, SameRoomSide
  <2> QED
    BY <2>2, <2>3, <2>4
<1>7. AdapterFits(client')
  <2>1. /\ client'.ws = client.ws /\ client'.mode = client.mode
        /\ client'.snapshot = client.snapshot
        /\ StateOf(client', client'.ws) = StateOf(client, client.ws)
    BY <1>6 DEF SameRoomSide, StateOf
  <2>2. Bridge(client') = Bridge(client) /\ LiveBridge(client') = LiveBridge(client)
    BY <1>6 DEF Bridge, LiveBridge
  <2> QED
    BY <1>1, <1>5, <1>6, <2>1, <2>2 DEF AdapterFits
<1>8. Core(client', member) /\ Offered(client', member)
  BY <1>1, <1>6, <1>7, PageOnly
<1> QED
  BY <1>1, <1>6, <1>8 DEF Holds, Chosen

\* What the toy says, what the peer sends, and the end of the write of that.
LEMMA PacketsKept ==
    ASSUME GamesInv, FromToy \/ FromPeer \/ WriteEnds
    PROVE  Holds(client', member')
<1>1. client \in Clients
  BY DEF GamesInv, Holds, Core
<1>2. client.writing \in Nat \cup {Undefined}
  BY <1>1 DEF Clients
<1>3. Carries => client.bridge.id \in Nat
  BY <1>1 DEF Carries, Clients, Bridges
<1>4. CASE FromToy
  <2>1. client' = Shown(client, client.bridge.id) /\ member' = member /\ Carries
    BY <1>4 DEF FromToy, Does
  <2>2. Shown(client, client.bridge.id)
            = [Shown(client, client.bridge.id) EXCEPT !.writing = client.writing]
    BY <1>1 DEF Shown, Clients
  <2> QED
    BY <1>2, <1>3, <2>1, <2>2, ShownIs
<1>5. CASE FromPeer
  <2>1. client' = [client EXCEPT !.writing = client.bridge.id] /\ member' = member /\ Carries
    BY <1>5 DEF FromPeer, Does
  <2> QED
    BY <1>3, <2>1, ShownIs
<1>6. CASE WriteEnds
  <2>1. PICK p \in {client, Shown(client, client.writing)} :
            client' = [p EXCEPT !.writing = Undefined] /\ member' = member
    BY <1>6 DEF WriteEnds, Does
  <2>2. client.writing \in Nat
    BY <1>2, <1>6 DEF WriteEnds
  <2> QED
    BY <2>1, <2>2, ShownIs
<1> QED
  BY <1>4, <1>5, <1>6

\* What happens to the socket keeps the invariant.
LEMMA WireKept ==
    ASSUME GamesInv, Wire PROVE Holds(client', member')
  BY OpensKept, DropsKept, CloseEventKept, ReceiveKept, PacketsKept DEF Wire

-----------------------------------------------------------------------------
(* What the server does                                                     *)

\* The seat in itself, but for what was last said of it.
SeatStands(p, m) ==
    /\ m.there
    /\ m.ws # Undefined => m.ws \in 1..p.sockets /\ StateOf(p, m.ws) # "connecting"
    /\ m.ws = Undefined => ~m.adapter
    /\ Coherent(m)

\* What may be said next: no match after its end but a new one.
NextFits(p, m) ==
    /\ \A j \in 1..Len(Down(p)) : Down(p)[j].match # "none" => m.match # "none"
    /\ InMatch(p) /\ m.match = "none" => m.reason # Undefined /\ ~m.adapter /\ AllOff(p)

\* What a seat is to be for the page before it is told.
ToTell(p, m) ==
    Joined(p, m) =>
        /\ \A k \in 1..Len(Down(p)) : Coherent(Down(p)[k])
        /\ OneMatch(p, m) /\ NoneCounted(p, m) /\ NextFits(p, m)
        /\ Text(m) = m.last => Known(p, m)

\* A line that ends in what the seat is.
LEMMA NextIs ==
    ASSUME NEW p, NEW m, p \in Clients, p.ws \in 1..MaxOpened, Known(p, m), OneMatch(p, m)
    PROVE  NextFits(p, m)
<1>1. Down(p) \in Seq(Snapshots)
  BY DEF Clients, SocketLines, Down
<1>2. CASE Down(p) = <<>>
  <2>1. Len(Down(p)) = 0 /\ (InMatch(p) => m.match # "none")
    BY <1>2 DEF Known, InMatch, View
  <2> QED
    BY <2>1 DEF NextFits
<1>3. CASE Down(p) # <<>>
  <2> DEFINE n == Len(Down(p))
  <2>1. n \in Nat /\ n \in 1..n /\ Down(p)[n] = View(m)
    BY <1>1, <1>3 DEF Known
  <2>2. View(m).match = m.match
    BY DEF View
  <2> HIDE DEF n
  <2>3. ASSUME NEW j \in 1..n, Down(p)[j].match # "none" PROVE m.match # "none"
    <3>1. CASE j = n
      BY <2>1, <2>2, <2>3, <3>1
    <3>2. CASE j # n
      <4>1. j < n
        BY <2>1, <3>2
      <4> QED
        BY <2>1, <2>2, <2>3, <4>1 DEF OneMatch, n
    <3> QED
      BY <3>1, <3>2
  <2>4. InMatch(p) /\ m.match = "none" => m.reason # Undefined /\ ~m.adapter /\ AllOff(p)
    BY <2>1, <2>2 DEF OneMatch, n
  <2> QED
    BY <2>3, <2>4 DEF NextFits, n
<1> QED
  BY <1>2, <1>3

\* The page is told, or the room has said so already.
LEMMA ToldKept ==
    ASSUME NEW p, NEW m, p \in Clients, m \in Seats, AdapterFits(p), LinesFit(p),
           SeatStands(p, m), ToTell(p, m), Offered(p, m), NEW anew \in BOOLEAN,
           NEW q, q = Told(p, m, anew), NEW n, n = [m EXCEPT !.last = Text(m)]
    PROVE  Core(q, n) /\ Offered(q, n) /\ q.serial = p.serial /\ q.job = p.job
<1>1. Text(m) \in Texts
  BY DEF Text, Texts, Seats
<1>2. /\ n \in Seats /\ n.ws = m.ws /\ n.adapter = m.adapter /\ n.reason = m.reason
      /\ n.match = m.match /\ n.there = m.there /\ n.last = Text(m)
  BY <1>1 DEF Seats
<1>3. Text(n) = Text(m) /\ View(n) = View(m)
  BY <1>2 DEF Text, View
<1> DEFINE w == m.ws
           speaks == w # Undefined /\ p.lines[w].state \in Alive /\ (anew \/ Text(m) # m.last)
<1>4. ASSUME NEW r, r.sockets = p.sockets, w # Undefined => StateOf(r, w) # "connecting"
      PROVE  SeatFits(r, n)
  BY <1>2, <1>3, <1>4 DEF SeatStands, SeatFits, Coherent
\* Of the fields alone.
<1>5. ASSUME NEW r
      PROVE  /\ Joined(r, n) = Joined(r, m)
             /\ Known(r, m) => Known(r, n)
             /\ OneMatch(r, m) => OneMatch(r, n)
             /\ NoneCounted(r, m) => NoneCounted(r, n)
             /\ OfferedFirst(r, m) => OfferedFirst(r, n)
             /\ OfferedAgain(r, m) => OfferedAgain(r, n)
  <2>1. Joined(r, n) = Joined(r, m)
    BY <1>2 DEF Joined
  <2>2. Known(r, m) => Known(r, n)
    BY <1>3 DEF Known
  <2>3. OneMatch(r, m) => OneMatch(r, n)
    BY <1>2 DEF OneMatch
  <2>4. NoneCounted(r, m) => NoneCounted(r, n)
    BY <1>2 DEF NoneCounted
  <2>5. OfferedFirst(r, m) => OfferedFirst(r, n)
    BY <1>2 DEF OfferedFirst
  <2>6. OfferedAgain(r, m) => OfferedAgain(r, n)
    BY <1>2 DEF OfferedAgain
  <2> QED
    BY <2>1, <2>2, <2>3, <2>4, <2>5, <2>6
<1>6. CASE ~speaks
  <2>1. q = p
    BY <1>6 DEF Told
  <2>2. SeatFits(p, n)
    BY <1>4 DEF SeatStands
  <2>3. ASSUME Joined(p, n) PROVE Known(p, n) /\ OneMatch(p, n) /\ NoneCounted(p, n)
    <3>1. Joined(p, m) /\ Text(m) = m.last
      BY <1>5, <1>6, <2>3 DEF Joined, Alive, StateOf
    <3> QED
      BY <1>5, <3>1 DEF ToTell
  <2>4. Offered(p, n)
    BY <1>5 DEF Offered
  <2> QED
    BY <1>2, <2>1, <2>2, <2>3, <2>4 DEF Core, PipeFits
<1>7. CASE speaks
  <2> DEFINE v == View(m)
             down == Append(p.lines[w].down, v)
             line == [p.lines[w] EXCEPT !.down = down]
  <2>1. w = p.ws /\ w \in 1..MaxOpened /\ w <= p.sockets
    <3>1. w \in 1..p.sockets /\ p.sockets \in 0..MaxOpened
      BY <1>7 DEF SeatStands, Clients
    <3>2. w \in 1..MaxOpened /\ w <= p.sockets
      BY <3>1, UndefinedIsApart
    <3> QED
      BY <1>7, <3>2 DEF LinesFit, StateOf
  <2>2. p.lines[w] \in SocketLines /\ p.lines[w].down \in Seq(Snapshots) /\ v \in Snapshots
    BY <2>1 DEF Clients, SocketLines, Seats, View, Snapshots
  <2>3. q = [p EXCEPT !.lines[w].down = Append(@, v)]
    BY <1>7 DEF Told, View
  <2> HIDE DEF v
  <2>4. q = WithLine(p, w, line)
    BY <2>1, <2>2, <2>3 DEF WithLine, Clients, SocketLines
  <2>5. down \in Seq(Snapshots)
    BY <2>2
  <2> HIDE DEF down
  <2>6. line \in SocketLines /\ line.state = p.lines[w].state /\ line.up = p.lines[w].up /\ line.down = down
    BY <2>2, <2>5 DEF SocketLines
  <2> HIDE DEF line
  <2>7. /\ line.state \in {"accepted", "open", "lost", "closed"}
        /\ line.state = "accepted" => line.up = <<>> /\ p.snapshot = Undefined /\ ~Bridge(p)
        /\ line.state \in {"accepted", "open"}
    <3>1. line.state = StateOf(p, w) /\ line.up = p.lines[w].up
      BY <2>6 DEF StateOf
    <3>2. line.state \in {"accepted", "open"}
      BY <1>7, <2>6, <3>1 DEF SeatStands, Alive, StateOf
    <3> QED
      BY <1>7, <2>1, <3>1, <3>2 DEF LinesFit, AdapterFits
  <2>8. /\ LinesFit(q) /\ AdapterFits(q)
        /\ q \in Clients /\ SameRoomSide(p, q) /\ q.bridge = p.bridge
        /\ q.serial = p.serial /\ q.job = p.job
        /\ q.lines[w] = line /\ StateOf(q, w) = line.state
    <3>1. line \in SocketLines /\ w \in 1..MaxOpened
      BY <2>1, <2>6
    <3>2. /\ q \in Clients /\ SameRoomSide(p, q) /\ q.bridge = p.bridge
          /\ q.serial = p.serial /\ q.job = p.job
          /\ q.lines[w] = line /\ StateOf(q, w) = line.state
      BY <2>4, <3>1, WithLineIs
    <3>3. LinesFit(q) /\ AdapterFits(q)
      <4>1. SeatFits(p, n)
        BY <1>4 DEF SeatStands
      <4> HIDE DEF w
      <4> QED
        BY <2>1, <2>4, <2>7, <3>1, <4>1, WithLineFits
    <3> QED
      BY <3>2, <3>3
  <2>9. SeatFits(q, n)
    <3>1. q.sockets = p.sockets /\ StateOf(q, w) # "connecting"
      BY <2>7, <2>8 DEF SameRoomSide
    <3> QED
      BY <1>4, <3>1
  <2>10. /\ q.ws = w /\ q.mode = p.mode /\ q.snapshot = p.snapshot /\ Up(q) = Up(p)
         /\ Down(q) = Append(Down(p), v) /\ Down(p) \in Seq(Snapshots)
         /\ StateOf(q, q.ws) = StateOf(p, p.ws)
    BY <2>1, <2>2, <2>6, <2>8 DEF SameRoomSide, Up, Down, StateOf, down
  <2>11. /\ AllOff(q) = AllOff(p) /\ InMatch(q) = InMatch(p)
         /\ LiveBridge(q) = LiveBridge(p) /\ Idle(q) = Idle(p)
         /\ Joined(q, m) = Joined(p, m)
    BY <2>1, <2>8, <2>10 DEF AllOff, InMatch, LiveBridge, Idle, Bridge, Joined
  <2>12. /\ Len(Down(p)) \in Nat /\ Len(Down(q)) = Len(Down(p)) + 1 /\ Down(q) # <<>>
         /\ Down(q)[Len(Down(q))] = v
         /\ \A k \in 1..Len(Down(p)) : Down(q)[k] = Down(p)[k]
         /\ \A k \in 1..Len(Down(q)) : k \in 1..Len(Down(p)) \/ k = Len(Down(q))
    BY <2>2, <2>10
  <2>13. /\ v.adapter = m.adapter /\ v.reason = m.reason /\ v.match = m.match
         /\ Coherent(v)
    BY DEF v, View, SeatStands, Coherent
  <2>14. ASSUME Joined(q, m)
         PROVE  /\ \A k \in 1..Len(Down(p)) : Coherent(Down(p)[k])
                /\ OneMatch(p, m) /\ NoneCounted(p, m) /\ NextFits(p, m)
                /\ OfferedFirst(p, m) /\ OfferedAgain(p, m)
    BY <2>11, <2>14 DEF ToTell, Offered
  <2>15. ASSUME Joined(q, m) PROVE Known(q, m)
    <3>1. \A k \in 1..Len(Down(q)) : Coherent(Down(q)[k])
      BY <2>12, <2>13, <2>14, <2>15
    <3> QED
      BY <2>12, <3>1 DEF Known, v
  <2>16. ASSUME Joined(q, m) PROVE OneMatch(q, m)
    <3>1. ASSUME NEW j \in 1..Len(Down(q)), NEW k \in 1..Len(Down(q)), j < k,
                 Down(q)[j].match # "none"
          PROVE  Down(q)[k].match # "none"
      <4>1. j \in 1..Len(Down(p)) /\ Down(q)[j] = Down(p)[j]
        BY <2>12, <3>1
      <4>2. CASE k \in 1..Len(Down(p))
        BY <2>12, <2>14, <2>16, <3>1, <4>1, <4>2 DEF OneMatch
      <4>3. CASE k = Len(Down(q))
        BY <2>12, <2>13, <2>14, <2>16, <3>1, <4>1, <4>3 DEF NextFits
      <4> QED
        BY <2>12, <4>2, <4>3
    <3>2. ASSUME InMatch(q), NEW k \in 1..Len(Down(q)), Down(q)[k].match = "none"
          PROVE  /\ Down(q)[k].reason # Undefined /\ ~Down(q)[k].adapter
                 /\ ~m.adapter /\ m.match = "none" /\ m.reason # Undefined /\ AllOff(q)
      <4>1. CASE k \in 1..Len(Down(p))
        BY <2>11, <2>12, <2>14, <2>16, <3>2, <4>1 DEF OneMatch
      <4>2. CASE k = Len(Down(q))
        BY <2>11, <2>12, <2>13, <2>14, <2>16, <3>2, <4>2 DEF NextFits
      <4> QED
        BY <2>12, <4>1, <4>2
    <3> QED
      BY <3>1, <3>2 DEF OneMatch
  <2>17. ASSUME Joined(q, m) PROVE NoneCounted(q, m)
    BY <2>10, <2>11, <2>14, <2>17 DEF NoneCounted
  <2>18. ASSUME Joined(q, m) PROVE OfferedFirst(q, m)
    BY <2>10, <2>11, <2>12, <2>13, <2>14, <2>18 DEF OfferedFirst
  <2>19. ASSUME Joined(q, m) PROVE OfferedAgain(q, m)
    BY <2>10, <2>11, <2>12, <2>13, <2>14, <2>19 DEF OfferedAgain
  <2>20. PipeFits(q, n) /\ Offered(q, n)
    BY <1>5, <2>15, <2>16, <2>17, <2>18, <2>19 DEF PipeFits, Offered
  <2> QED
    BY <1>2, <2>8, <2>9, <2>20 DEF Core
<1> QED
  BY <1>6, <1>7

\* A change of the page, and of the seat that it is told.
LEMMA BecomesKept ==
    ASSUME GamesInv, NEW p, NEW m, p \in Clients, m \in Seats, AdapterFits(p), LinesFit(p),
           SeatStands(p, m), ToTell(p, m), Offered(p, m),
           p.serial = client.serial, p.job = client.job, Becomes(p, m)
    PROVE  Holds(client', member')
<1>1. client' = Told(p, m, FALSE) /\ member' = [m EXCEPT !.last = Text(m)] /\ FALSE \in BOOLEAN
  BY DEF Becomes
<1>2. /\ Core(client', member') /\ Offered(client', member')
      /\ client'.serial = p.serial /\ client'.job = p.job
  BY <1>1, ToldKept
<1>3. Chosen(client)
  BY DEF GamesInv, Holds
<1> QED
  BY <1>2, <1>3 DEF Holds, Chosen

\* A seat loses its toy.
LEMMA DetachedIs ==
    ASSUME NEW m \in Seats, NEW reason \in Reasons, NEW n, n = Detached(m, reason)
    PROVE  /\ n \in Seats /\ n.there = m.there /\ n.ws = m.ws /\ ~n.adapter /\ n.reason = reason
           /\ n.match = m.match /\ n.last = m.last /\ n.reason # Undefined /\ Coherent(n)
<1>1. /\ n \in Seats /\ n.there = m.there /\ n.ws = m.ws /\ ~n.adapter /\ n.reason = reason
      /\ n.match = m.match /\ n.last = m.last
  BY DEF Detached, Seats
<1>2. n.reason # Undefined
  BY <1>1, UndefinedIsApart
<1> QED
  BY <1>1, <1>2 DEF Coherent

\* The seat of the page's socket, as the invariant has it.
LEMMA JoinedIs ==
    ASSUME GamesInv, Joined(client, member)
    PROVE  /\ client.ws \in 1..MaxOpened /\ client.ws # Undefined
           /\ Up(client) \in Seq([connected : BOOLEAN]) /\ Down(client) \in Seq(Snapshots)
           /\ Known(client, member) /\ OneMatch(client, member) /\ NoneCounted(client, member)
           /\ NextFits(client, member)
           /\ OfferedFirst(client, member) /\ OfferedAgain(client, member)
<1>1. /\ client \in Clients /\ LinesFit(client) /\ PipeFits(client, member) /\ Offered(client, member)
  BY DEF GamesInv, Holds, Core
<1>2. client.ws \in 1..MaxOpened /\ client.ws # Undefined
  BY <1>1, UndefinedIsApart DEF Joined, LinesFit, Clients
<1>3. Up(client) \in Seq([connected : BOOLEAN]) /\ Down(client) \in Seq(Snapshots)
  BY <1>1, <1>2 DEF Clients, SocketLines, Up, Down
<1>4. /\ Known(client, member) /\ OneMatch(client, member) /\ NoneCounted(client, member)
      /\ OfferedFirst(client, member) /\ OfferedAgain(client, member)
  BY <1>1 DEF PipeFits, Offered
<1> QED
  BY <1>1, <1>2, <1>3, <1>4, NextIs

\* The seat of a page that stays.
LEMMA SeatChanges ==
    ASSUME GamesInv, NEW m, m \in Seats, SeatStands(client, m), m.ws = member.ws,
           m.last = member.last,
           Joined(client, member) =>
               /\ OneMatch(client, m) /\ NoneCounted(client, m) /\ NextFits(client, m)
               /\ OfferedFirst(client, m) /\ OfferedAgain(client, m),
           Becomes(client, m)
    PROVE  Holds(client', member')
<1>1. /\ client \in Clients /\ member \in Seats /\ AdapterFits(client) /\ LinesFit(client)
      /\ SeatFits(client, member)
  BY DEF GamesInv, Holds, Core
<1>2. Joined(client, m) = Joined(client, member)
  BY DEF Joined
<1>3. Offered(client, m)
  BY <1>2 DEF Offered
<1>4. ASSUME Joined(client, m)
      PROVE  /\ \A k \in 1..Len(Down(client)) : Coherent(Down(client)[k])
             /\ Text(m) = m.last => Known(client, m)
  <2>1. Known(client, member) /\ member.ws # Undefined
    BY <1>2, <1>4, JoinedIs DEF Joined
  <2>2. member.last = Text(member)
    BY <1>1, <2>1 DEF SeatFits
  <2>3. Text(m) = m.last => View(m) = View(member)
    BY <2>2 DEF Text, View
  <2>4. View(m) = View(member) => Known(client, m)
    BY <2>1 DEF Known
  <2> QED
    BY <2>1, <2>3, <2>4 DEF Known
<1>5. ToTell(client, m)
  BY <1>2, <1>4 DEF ToTell
<1> QED
  BY <1>1, <1>3, <1>5, BecomesKept

\* The server takes the socket, or turns it away; the seat has no toy then.
LEMMA SeatAttachKept ==
    ASSUME GamesInv, NEW w \in 1..MaxOpened, SeatAttach(w) PROVE Holds(client', member')
<1>1. /\ Core(client, member) /\ Offered(client, member) /\ Chosen(client)
      /\ client \in Clients /\ member \in Seats /\ AdapterFits(client) /\ LinesFit(client)
      /\ SeatFits(client, member)
  BY DEF GamesInv, Holds, Core
<1>2. /\ client.lines[w] \in SocketLines /\ client.lines[w].state = "connecting"
      /\ StateOf(client, w) = "connecting" /\ client.lines[w] # Line
  <2>1. client.lines[w].state = "connecting" /\ Line.state = "new"
    BY DEF SeatAttach, Line
  <2> QED
    BY <1>1, <2>1 DEF StateOf, Clients
<1>3. w <= client.sockets
  BY <1>1, <1>2, UsedLine
<1>4. w = client.ws /\ client.ws # Undefined
  BY <1>1, <1>2, UndefinedIsApart DEF LinesFit, Alive
<1>5. /\ client.snapshot = Undefined /\ Up(client) = <<>> /\ Down(client) = <<>> /\ ~Bridge(client)
  BY <1>1, <1>2, <1>4 DEF LinesFit, Up, Down, AdapterFits
<1>6. CASE ~member.there
  <2> DEFINE line == [client.lines[w] EXCEPT !.state = "lost"]
  <2>1. line \in SocketLines /\ line.state = "lost"
    BY <1>2 DEF SocketLines, States
  <2>2. client' = [client EXCEPT !.lines = Now(w, "lost")] /\ member' = member
    BY <1>6 DEF SeatAttach
  <2>3. client' = WithLine(client, w, line)
    BY <1>1, <1>2, <2>2 DEF Now, WithLine, Clients, SocketLines
  <2> HIDE DEF line
  <2>4. /\ Core(client', member) /\ Offered(client', member)
        /\ client'.serial = client.serial /\ client'.job = client.job
    BY <1>1, <1>3, <2>1, <2>3, LineGoes
  <2> QED
    BY <1>1, <2>2, <2>4 DEF Holds, Chosen
<1>7. CASE member.there
  <2> DEFINE old == member.ws
             b == IF old = Undefined THEN member ELSE Detached(member, "replaced")
             m == [b EXCEPT !.ws = w]
             line == [client.lines[w] EXCEPT !.state = "accepted"]
             p == WithLine(client, w, line)
  <2>1. ~(old # Undefined /\ client.lines[old].state \in Alive)
    <3>1. old # Undefined => /\ old \in 1..client.sockets /\ StateOf(client, old) # "connecting"
                             /\ old \in 1..MaxOpened
      BY <1>1, UndefinedIsApart DEF SeatFits, Clients
    <3>2. old # Undefined => old # w
      BY <1>2, <3>1
    <3> QED
      BY <1>1, <1>4, <3>1, <3>2 DEF LinesFit, StateOf
  <2>2. [client EXCEPT !.lines = [client.lines EXCEPT ![w].state = "accepted"]] = p
    BY <1>1, <1>2 DEF WithLine, Clients, SocketLines
  <2>3. Becomes(p, m)
    BY <1>7, <2>1, <2>2 DEF SeatAttach, Now
  <2>4. line \in SocketLines /\ line.state = "accepted" /\ line.up = client.lines[w].up
        /\ line.down = client.lines[w].down
    BY <1>2 DEF SocketLines, States
  <2> HIDE DEF line
  <2>5. /\ p \in Clients /\ SameRoomSide(client, p) /\ p.bridge = client.bridge
        /\ p.serial = client.serial /\ p.job = client.job
        /\ p.lines[w] = line /\ StateOf(p, w) = "accepted"
    BY <1>1, <2>4, WithLineIs
  <2>6. LinesFit(p) /\ AdapterFits(p)
    <3>1. line.state \in {"accepted", "open", "lost", "closed"} /\ line.up = <<>>
      BY <1>4, <1>5, <2>4 DEF Up
    <3> QED
      BY <1>1, <1>3, <1>4, <1>5, <2>4, <3>1, WithLineFits
  <2> HIDE DEF p
  <2>7. /\ b \in Seats /\ b.there /\ ~b.adapter /\ Coherent(b) /\ b.ws = member.ws
    <3>1. CASE old = Undefined
      BY <1>1, <1>7, <3>1 DEF SeatFits
    <3>2. CASE old # Undefined
      <4>1. "replaced" \in Reasons
        BY DEF Reasons
      <4> QED
        BY <1>1, <1>7, <3>2, <4>1, DetachedIs
    <3> QED
      BY <3>1, <3>2
  <2> HIDE DEF b
  <2>8. /\ m \in Seats /\ m.there /\ ~m.adapter /\ Coherent(m) /\ m.ws = w
    <3>1. w \in Nat
      OBVIOUS
    <3> QED
      BY <2>7, <3>1 DEF Seats, Coherent
  <2> HIDE DEF m
  <2>9. /\ p.ws = w /\ p.snapshot = Undefined /\ p.sockets = client.sockets
        /\ Up(p) = <<>> /\ Down(p) = <<>> /\ ~InMatch(p) /\ ~LiveBridge(p)
    BY <1>4, <1>5, <2>4, <2>5 DEF SameRoomSide, Up, Down, InMatch, Bridge, LiveBridge
  <2>10. SeatStands(p, m)
    <3>1. w \in 1..client.sockets
      BY <1>1, <1>3 DEF Clients
    <3> QED
      BY <1>4, <2>5, <2>8, <2>9, <3>1 DEF SeatStands
  <2>11. Len(Down(p)) = 0 /\ Len(Up(p)) = 0
    BY <2>9
  <2>12. OneMatch(p, m) /\ NoneCounted(p, m) /\ NextFits(p, m) /\ Known(p, m)
    BY <2>8, <2>9, <2>11 DEF OneMatch, NoneCounted, NextFits, Known
  <2>13. ToTell(p, m)
    BY <2>11, <2>12 DEF ToTell
  <2>14. Offered(p, m)
    BY <2>8, <2>9, <2>11 DEF Offered, OfferedFirst, OfferedAgain
  <2> QED
    BY <2>3, <2>5, <2>6, <2>8, <2>10, <2>13, <2>14, BecomesKept
<1> QED
  BY <1>6, <1>7

\* Tells of the seat of GamesInv, for the actions that leave the page as it is.
LEMMA SeatIs ==
    ASSUME GamesInv, member.there
    PROVE  /\ member \in Seats /\ SeatStands(client, member) /\ client \in Clients
           /\ client.mode \in Modes
  BY DEF GamesInv, Holds, Core, SeatFits, SeatStands, Clients

\* The server finds the connection gone.
LEMMA SeatGoneKept ==
    ASSUME GamesInv, NEW w \in 1..MaxOpened, SeatGone(w) PROVE Holds(client', member')
<1> DEFINE d == Detached(member, "gone")
           m == [d EXCEPT !.ws = Undefined]
<1>1. /\ client \in Clients /\ member \in Seats /\ AdapterFits(client) /\ LinesFit(client)
      /\ SeatFits(client, member)
  BY DEF GamesInv, Holds, Core
<1>2. Becomes(client, m) /\ member.ws = w /\ "gone" \in Reasons
  BY DEF SeatGone, Reasons
<1>3. member.ws # Undefined /\ member.there
  BY <1>1, <1>2, UndefinedIsApart DEF SeatFits
<1>4. d \in Seats /\ d.there /\ ~d.adapter /\ Coherent(d)
  BY <1>1, <1>2, <1>3, DetachedIs
<1> HIDE DEF d
<1>5. m \in Seats /\ m.there /\ ~m.adapter /\ Coherent(m) /\ m.ws = Undefined
  BY <1>4 DEF Seats, Coherent
<1> HIDE DEF m
<1>6. SeatStands(client, m) /\ ~Joined(client, m)
  BY <1>5 DEF SeatStands, Joined
<1>7. ToTell(client, m) /\ Offered(client, m)
  BY <1>6 DEF ToTell, Offered
<1> QED
  BY <1>1, <1>2, <1>5, <1>6, <1>7, BecomesKept

\* The seat is free again.
LEMMA ExpiresKept ==
    ASSUME GamesInv, Expires PROVE Holds(client', member')
<1>1. Core(client, member) /\ Chosen(client)
  BY DEF GamesInv, Holds
<1>2. member' = Nobody /\ client' = client
  BY DEF Expires
<1>3. Core(client, Nobody) /\ Offered(client, Nobody)
  BY <1>1, NobodyIs, SeatlessKept
<1> QED
  BY <1>1, <1>2, <1>3 DEF Holds

\* The seat is left, and its socket with it.
LEMMA LeavesKept ==
    ASSUME GamesInv, Leaves PROVE Holds(client', member')
<1> DEFINE w == member.ws
           line == [client.lines[w] EXCEPT !.state = "lost"]
<1>1. /\ Core(client, member) /\ Offered(client, member) /\ Chosen(client) /\ client \in Clients
      /\ LinesFit(client) /\ SeatFits(client, member)
  BY DEF GamesInv, Holds, Core
<1>2. member' = Nobody
  BY DEF Leaves
<1>3. Core(client, Nobody) /\ Offered(client, Nobody)
  BY <1>1, NobodyIs, SeatlessKept
<1>4. CASE w # Undefined /\ client.lines[w].state \in Alive
  <2>1. client' = [client EXCEPT !.lines = Now(w, "lost")]
    BY <1>4 DEF Leaves
  <2>2. w \in 1..MaxOpened /\ w <= client.sockets
    BY <1>1, <1>4, UndefinedIsApart DEF SeatFits, Clients
  <2>3. client.lines[w] \in SocketLines
    BY <1>1, <2>2 DEF Clients
  <2>4. line \in SocketLines /\ line.state = "lost"
    BY <2>3 DEF SocketLines, States
  <2>5. client' = WithLine(client, w, line)
    BY <1>1, <2>1, <2>2, <2>3 DEF Now, WithLine, Clients, SocketLines
  <2> HIDE DEF line, w
  <2>6. /\ Core(client', Nobody) /\ Offered(client', Nobody)
        /\ client'.serial = client.serial /\ client'.job = client.job
    BY <1>3, <2>2, <2>4, <2>5, LineGoes
  <2> QED
    BY <1>1, <1>2, <2>6 DEF Holds, Chosen
<1>5. CASE ~(w # Undefined /\ client.lines[w].state \in Alive)
  <2>1. client' = client
    BY <1>5 DEF Leaves
  <2> QED
    BY <1>1, <1>2, <1>3, <2>1 DEF Holds
<1> QED
  BY <1>4, <1>5

\* The others in the room change: the page is told of its own seat again.
LEMMA OthersChangeKept ==
    ASSUME GamesInv, OthersChange PROVE Holds(client', member')
<1> DEFINE n == [member EXCEPT !.last = Text(member)]
<1>1. /\ client \in Clients /\ member \in Seats /\ AdapterFits(client) /\ LinesFit(client)
      /\ SeatFits(client, member) /\ Offered(client, member) /\ Chosen(client)
  BY DEF GamesInv, Holds, Core
<1>2. /\ client' = Told(client, member, TRUE) /\ member' = member /\ TRUE \in BOOLEAN
      /\ member.ws # Undefined /\ member.there
  BY DEF OthersChange, Room
<1>3. n = member
  <2>1. member.last = Text(member)
    BY <1>1, <1>2 DEF SeatFits
  <2> QED
    BY <1>1, <2>1 DEF Seats
<1>4. ToTell(client, member)
  BY JoinedIs DEF ToTell, Known
<1>5. SeatStands(client, member)
  BY <1>2, SeatIs
<1> HIDE DEF n
<1>6. /\ Core(client', n) /\ Offered(client', n)
      /\ client'.serial = client.serial /\ client'.job = client.job
  <2>1. n = [member EXCEPT !.last = Text(member)]
    BY DEF n
  <2>2. client' = Told(client, member, TRUE)
    BY <1>2
  <2> HIDE DEF n
  <2>3. ASSUME NEW q, q = Told(client, member, TRUE),
               NEW m, m = [member EXCEPT !.last = Text(member)]
        PROVE  Core(q, m) /\ Offered(q, m) /\ q.serial = client.serial /\ q.job = client.job
    <3>1. TRUE \in BOOLEAN
      OBVIOUS
    <3> QED
      BY <1>1, <1>4, <1>5, <2>3, <3>1, ToldKept
  <2> QED
    BY <2>1, <2>2, <2>3
<1> QED
  BY <1>1, <1>2, <1>3, <1>6 DEF Holds, Chosen

\* The other toy of a direct room goes, and this one with it.
LEMMA PeerDetachesKept ==
    ASSUME GamesInv, PeerDetaches PROVE Holds(client', member')
<1> DEFINE m == Detached(member, "peer")
<1>1. member.there /\ client.mode = "direct" /\ Becomes(client, m) /\ "peer" \in Reasons
  BY DEF PeerDetaches, Room, Reasons
<1>2. member \in Seats /\ SeatStands(client, member)
  BY <1>1, SeatIs
<1>3. /\ m \in Seats /\ m.there = member.there /\ m.ws = member.ws /\ ~m.adapter
      /\ m.last = member.last /\ Coherent(m)
  <2>1. m = Detached(member, "peer") /\ "peer" \in Reasons
    BY <1>1
  <2> HIDE DEF m
  <2> QED
    BY <1>2, <2>1, DetachedIs
<1> HIDE DEF m
<1>4. SeatStands(client, m) /\ ~Joined(client, member)
  BY <1>1, <1>2, <1>3 DEF SeatStands, Joined
<1> QED
  BY <1>1, <1>3, <1>4, SeatChanges

\* A page that has no toy counted is not told that its match is over.
LEMMA CountedIs ==
    ASSUME GamesInv, Joined(client, member), member.adapter
    PROVE  /\ InMatch(client) =>
                 /\ member.match # "none"
                 /\ \A k \in 1..Len(Down(client)) : Down(client)[k].match # "none"
           /\ ~(client.snapshot = Undefined /\ (StateOf(client, client.ws) = "accepted" \/ Idle(client)))
  BY JoinedIs DEF NextFits, OneMatch, OfferedFirst

\* A session fails: the toy is counted still.
LEMMA SessionFailsKept ==
    ASSUME GamesInv, SessionFails PROVE Holds(client', member')
<1> DEFINE m == [member EXCEPT !.reason = "session"]
<1>1. /\ member.there /\ member.adapter /\ member.reason = Undefined /\ Becomes(client, m)
  BY DEF SessionFails, Room
<1>2. member \in Seats /\ SeatStands(client, member)
  BY <1>1, SeatIs
<1>3. /\ m \in Seats /\ m.there = member.there /\ m.ws = member.ws /\ m.adapter
      /\ m.match = member.match /\ m.last = member.last
  BY <1>1, <1>2 DEF Seats, Reasons
<1> HIDE DEF m
<1>4. SeatStands(client, m)
  BY <1>1, <1>2, <1>3 DEF SeatStands, Coherent
<1>5. ASSUME Joined(client, member)
      PROVE  /\ OneMatch(client, m) /\ NoneCounted(client, m) /\ NextFits(client, m)
             /\ OfferedFirst(client, m) /\ OfferedAgain(client, m)
  <2>1. /\ OneMatch(client, member) /\ NoneCounted(client, member) /\ NextFits(client, member)
        /\ OfferedAgain(client, member)
    BY <1>5, JoinedIs
  <2>2. /\ InMatch(client) =>
              /\ member.match # "none"
              /\ \A k \in 1..Len(Down(client)) : Down(client)[k].match # "none"
        /\ ~(client.snapshot = Undefined /\ (StateOf(client, client.ws) = "accepted" \/ Idle(client)))
    BY <1>1, <1>5, CountedIs
  <2>3. OneMatch(client, m)
    BY <2>1, <2>2 DEF OneMatch
  <2>4. NoneCounted(client, m)
    BY <1>1, <1>3, <2>1 DEF NoneCounted
  <2>5. NextFits(client, m)
    BY <1>3, <2>1, <2>2 DEF NextFits
  <2>6. OfferedFirst(client, m)
    BY <2>2 DEF OfferedFirst
  <2>7. OfferedAgain(client, m)
    BY <1>1, <2>1 DEF OfferedAgain
  <2> QED
    BY <2>3, <2>4, <2>5, <2>6, <2>7
<1> QED
  BY <1>1, <1>3, <1>4, <1>5, SeatChanges

\* A match starts with toys that are counted.
LEMMA MatchStartsKept ==
    ASSUME GamesInv, MatchStarts PROVE Holds(client', member')
<1> DEFINE m == [member EXCEPT !.match = "on"]
<1>1. /\ member.there /\ member.adapter /\ member.reason = Undefined /\ Becomes(client, m)
  BY DEF MatchStarts, Room
<1>2. member \in Seats /\ SeatStands(client, member)
  BY <1>1, SeatIs
<1>3. /\ m \in Seats /\ m.there = member.there /\ m.ws = member.ws /\ m.adapter
      /\ m.reason = member.reason /\ m.match = "on" /\ m.last = member.last
  BY <1>1, <1>2 DEF Seats
<1> HIDE DEF m
<1>4. SeatStands(client, m)
  BY <1>1, <1>2, <1>3 DEF SeatStands, Coherent
<1>5. ASSUME Joined(client, member)
      PROVE  /\ OneMatch(client, m) /\ NoneCounted(client, m) /\ NextFits(client, m)
             /\ OfferedFirst(client, m) /\ OfferedAgain(client, m)
  <2>1. /\ OneMatch(client, member) /\ NoneCounted(client, member)
        /\ OfferedAgain(client, member)
    BY <1>5, JoinedIs
  <2>2. /\ InMatch(client) => \A k \in 1..Len(Down(client)) : Down(client)[k].match # "none"
        /\ ~(client.snapshot = Undefined /\ (StateOf(client, client.ws) = "accepted" \/ Idle(client)))
    BY <1>1, <1>5, CountedIs
  <2>3. OneMatch(client, m)
    BY <2>1, <2>2 DEF OneMatch
  <2>4. NoneCounted(client, m)
    BY <1>1, <1>3, <2>1 DEF NoneCounted
  <2>5. NextFits(client, m)
    BY <1>3 DEF NextFits
  <2>6. OfferedFirst(client, m)
    BY <2>2 DEF OfferedFirst
  <2>7. OfferedAgain(client, m)
    BY <1>1, <2>1 DEF OfferedAgain
  <2> QED
    BY <2>3, <2>4, <2>5, <2>6, <2>7
<1> QED
  BY <1>1, <1>3, <1>4, <1>5, SeatChanges

\* It ends: the room is shown as it was until the next one is open.
LEMMA MatchEndsKept ==
    ASSUME GamesInv, MatchEnds PROVE Holds(client', member')
<1> DEFINE m == [member EXCEPT !.match = "over"]
<1>1. member.there /\ member.match = "on" /\ Becomes(client, m)
  BY DEF MatchEnds, Room
<1>2. member \in Seats /\ SeatStands(client, member)
  BY <1>1, SeatIs
<1>3. /\ m \in Seats /\ m.there = member.there /\ m.ws = member.ws /\ m.adapter = member.adapter
      /\ m.reason = member.reason /\ m.match = "over" /\ m.last = member.last
  BY <1>1, <1>2 DEF Seats
<1> HIDE DEF m
<1>4. SeatStands(client, m)
  BY <1>1, <1>2, <1>3 DEF SeatStands, Coherent
<1>5. ASSUME Joined(client, member)
      PROVE  /\ OneMatch(client, m) /\ NoneCounted(client, m) /\ NextFits(client, m)
             /\ OfferedFirst(client, m) /\ OfferedAgain(client, m)
  <2>1. /\ OneMatch(client, member) /\ NoneCounted(client, member)
        /\ OfferedFirst(client, member) /\ OfferedAgain(client, member)
    BY <1>5, JoinedIs
  <2>2. OneMatch(client, m)
    BY <1>1, <2>1 DEF OneMatch
  <2>3. NoneCounted(client, m)
    BY <1>3, <2>1 DEF NoneCounted
  <2>4. NextFits(client, m)
    BY <1>3 DEF NextFits
  <2>5. OfferedFirst(client, m)
    BY <1>3, <2>1 DEF OfferedFirst
  <2>6. OfferedAgain(client, m)
    BY <1>3, <2>1 DEF OfferedAgain
  <2> QED
    BY <2>2, <2>3, <2>4, <2>5, <2>6
<1> QED
  BY <1>1, <1>3, <1>4, <1>5, SeatChanges

\* The next room is open, and the toys are to be connected again.
LEMMA NextOpenedKept ==
    ASSUME GamesInv, NextOpened PROVE Holds(client', member')
<1> DEFINE d == Detached(member, "reset")
           m == [d EXCEPT !.match = "none"]
<1>1. /\ member.there /\ member.match = "over" /\ Quiet /\ Becomes(client, m)
      /\ "reset" \in Reasons
  BY DEF NextOpened, Room, Reasons
<1>2. member \in Seats /\ SeatStands(client, member)
  BY <1>1, SeatIs
<1>3. /\ d \in Seats /\ d.there = member.there /\ d.ws = member.ws /\ ~d.adapter
      /\ d.reason # Undefined /\ d.last = member.last
  <2>1. d = Detached(member, "reset") /\ "reset" \in Reasons
    BY <1>1
  <2> HIDE DEF d
  <2> QED
    BY <1>2, <2>1, DetachedIs
<1> HIDE DEF d
<1>4. /\ m \in Seats /\ m.there = member.there /\ m.ws = member.ws /\ ~m.adapter
      /\ m.reason # Undefined /\ m.match = "none" /\ m.last = member.last
  BY <1>3 DEF Seats
<1> HIDE DEF m
<1>5. SeatStands(client, m)
  BY <1>1, <1>2, <1>4 DEF SeatStands, Coherent
<1>6. ASSUME Joined(client, member)
      PROVE  /\ OneMatch(client, m) /\ NoneCounted(client, m) /\ NextFits(client, m)
             /\ OfferedFirst(client, m) /\ OfferedAgain(client, m)
  <2>1. Known(client, member) /\ member.ws = client.ws /\ client.ws # Undefined
    BY <1>6, JoinedIs DEF Joined
  <2>2. Up(client) = <<>> /\ Down(client) = <<>>
    BY <1>1, <2>1 DEF Quiet, Up, Down
  <2>3. Len(Up(client)) = 0 /\ Len(Down(client)) = 0
    BY <2>2
  <2>4. client.snapshot = Undefined \/ InMatch(client)
    BY <1>1, <2>1, <2>2 DEF Known, View, InMatch
  <2>5. AllOff(client)
    BY <2>3 DEF AllOff
  <2>6. OneMatch(client, m) /\ NoneCounted(client, m) /\ NextFits(client, m)
    BY <1>4, <2>2, <2>3, <2>5 DEF OneMatch, NoneCounted, NextFits
  <2>7. OfferedFirst(client, m) /\ OfferedAgain(client, m)
    BY <1>4, <2>2, <2>3, <2>4 DEF OfferedFirst, OfferedAgain
  <2> QED
    BY <2>6, <2>7
<1> QED
  BY <1>1, <1>4, <1>5, <1>6, SeatChanges

\* A control of the page is served: the first on its line goes.
ServedOff(p, w) == [p EXCEPT !.lines[w].up = Tail(@)]

\* The rest of the line stays.
LEMMA ServedIs ==
    ASSUME GamesInv, NEW w \in 1..MaxOpened, client.lines[w].up # <<>>,
           NEW p, p = ServedOff(client, w)
    PROVE  /\ p \in Clients /\ SameRoomSide(client, p) /\ p.bridge = client.bridge
           /\ p.serial = client.serial /\ p.job = client.job
           /\ AdapterFits(p) /\ LinesFit(p) /\ SeatFits(p, member)
           /\ StateOf(client, w) \notin {"connecting", "accepted"}
           /\ \A x \in 1..MaxOpened : StateOf(p, x) = StateOf(client, x)
           /\ client.lines[w].up \in Seq([connected : BOOLEAN])
           /\ p.lines[w].up = Tail(client.lines[w].up) /\ p.lines[w].down = client.lines[w].down
           /\ \A x \in 1..MaxOpened : x # w => p.lines[x] = client.lines[x]
<1> DEFINE up == Tail(client.lines[w].up)
           line == [client.lines[w] EXCEPT !.up = up]
<1>1. /\ client \in Clients /\ AdapterFits(client) /\ LinesFit(client)
      /\ SeatFits(client, member)
  BY DEF GamesInv, Holds, Core
<1>2. client.lines[w] \in SocketLines /\ client.lines[w].up \in Seq([connected : BOOLEAN])
  BY <1>1 DEF Clients, SocketLines
<1>3. up \in Seq([connected : BOOLEAN])
  BY <1>2
<1>4. p = WithLine(client, w, line)
  BY <1>1, <1>2 DEF ServedOff, WithLine, Clients, SocketLines
<1> HIDE DEF up
<1>5. /\ line \in SocketLines /\ line.state = StateOf(client, w) /\ line.up = up
      /\ line.down = client.lines[w].down
  BY <1>2, <1>3 DEF SocketLines, StateOf
<1> HIDE DEF line
<1>6. w <= client.sockets
  <2>1. Line.up = <<>>
    BY DEF Line
  <2> QED
    BY <1>1, <2>1, UsedLine
<1>7. StateOf(client, w) \notin {"connecting", "accepted"}
  BY <1>1 DEF LinesFit
<1>8. /\ p \in Clients /\ SameRoomSide(client, p) /\ p.bridge = client.bridge
      /\ p.serial = client.serial /\ p.job = client.job
      /\ p.connecting = client.connecting /\ p.score = client.score /\ p.sink = client.sink
      /\ p.lines[w] = line /\ StateOf(p, w) = line.state
      /\ \A x \in 1..MaxOpened : x # w => p.lines[x] = client.lines[x] /\ StateOf(p, x) = StateOf(client, x)
  BY <1>1, <1>4, <1>5, WithLineIs
<1>9. LinesFit(p) /\ SeatFits(p, member) /\ AdapterFits(p)
  <2>1. line.state \in {"new", "accepted", "open", "lost", "closed"} /\ line.state # "accepted"
    BY <1>5, <1>7 DEF SocketLines, States
  <2>2. line.state \in Alive => w = client.ws
    BY <1>1, <1>5 DEF LinesFit
  <2> QED
    BY <1>1, <1>4, <1>5, <1>6, <2>1, <2>2, WithLineFits
<1>10. \A x \in 1..MaxOpened : StateOf(p, x) = StateOf(client, x)
  BY <1>5, <1>8
<1> QED
  BY <1>2, <1>5, <1>7, <1>8, <1>9, <1>10 DEF up

\* What the room is told by a page that is in it.
LEMMA ServeKept ==
    ASSUME GamesInv, NEW w \in 1..MaxOpened, Serve(w) PROVE Holds(client', member')
<1> DEFINE c == Head(client.lines[w].up)
           p == ServedOff(client, w)
           d == Detached(member, "adapter")
           a == [member EXCEPT !.adapter = TRUE, !.reason = Undefined]
<1>1. /\ client \in Clients /\ member \in Seats /\ AdapterFits(client) /\ LinesFit(client)
      /\ SeatFits(client, member) /\ Offered(client, member) /\ Chosen(client)
      /\ PipeFits(client, member)
  BY DEF GamesInv, Holds, Core
<1>2. /\ client.lines[w].up # <<>>
      /\ \/ member.ws # w /\ client' = p /\ member' = member
         \/ member.ws = w /\ ~c.connected /\ Becomes(p, d)
         \/ /\ member.ws = w /\ c.connected /\ (member.adapter \/ member.match # "none")
            /\ client' = p /\ member' = member
         \/ /\ member.ws = w /\ c.connected /\ ~member.adapter /\ member.match = "none"
            /\ Becomes(p, a)
  BY DEF Serve, ServedOff
<1>3. /\ p \in Clients /\ SameRoomSide(client, p) /\ p.bridge = client.bridge
      /\ p.serial = client.serial /\ p.job = client.job
      /\ AdapterFits(p) /\ LinesFit(p) /\ SeatFits(p, member)
      /\ StateOf(client, w) \notin {"connecting", "accepted"}
      /\ \A x \in 1..MaxOpened : StateOf(p, x) = StateOf(client, x)
      /\ client.lines[w].up \in Seq([connected : BOOLEAN])
      /\ p.lines[w].up = Tail(client.lines[w].up) /\ p.lines[w].down = client.lines[w].down
      /\ \A x \in 1..MaxOpened : x # w => p.lines[x] = client.lines[x]
  BY <1>2, ServedIs
<1> HIDE DEF p, c
\* Another line than that of the seat.
<1>4. CASE member.ws # w /\ client' = p /\ member' = member
  <2>1. Joined(p, member) => client.ws \in 1..MaxOpened /\ client.ws # w /\ p.ws = client.ws
    BY <1>1, <1>3, <1>4, UndefinedIsApart DEF Joined, SameRoomSide, LinesFit, Clients
  <2>2. ASSUME Joined(p, member) PROVE PipeFits(p, member) /\ Offered(p, member)
    <3>1. /\ Up(p) = Up(client) /\ Down(p) = Down(client)
          /\ StateOf(p, p.ws) = StateOf(client, client.ws)
      BY <1>3, <2>1, <2>2 DEF Up, Down, StateOf
    <3> QED
      BY <1>1, <1>3, <3>1, PipeKept
  <2>3. PipeFits(p, member) /\ Offered(p, member)
    BY <2>2 DEF PipeFits, Offered
  <2> QED
    BY <1>1, <1>3, <1>4, <2>3 DEF Holds, Core, Chosen
\* The line of the seat, and so the page's if it is in use.
<1>5. ASSUME member.ws = w
      PROVE  /\ Joined(p, member) = Joined(client, member)
             /\ Joined(p, member) =>
                   /\ client.ws = w /\ p.ws = w /\ p.snapshot = client.snapshot
                   /\ Down(p) = Down(client) /\ Up(p) = Tail(Up(client))
                   /\ c = Head(Up(client)) /\ Up(client) # <<>>
                   /\ Up(client) \in Seq([connected : BOOLEAN])
                   /\ StateOf(p, p.ws) = StateOf(client, client.ws)
                   /\ StateOf(client, client.ws) = "open"
  <2>1. p.ws = client.ws /\ p.mode = client.mode /\ p.snapshot = client.snapshot
    BY <1>3 DEF SameRoomSide
  <2>2. client.ws = w => StateOf(p, p.ws) = StateOf(client, client.ws)
    BY <1>3, <2>1
  <2>3. Joined(p, member) = Joined(client, member)
    BY <1>5, <2>1, <2>2 DEF Joined
  <2>4. Joined(p, member) => client.ws = w /\ StateOf(client, client.ws) = "open"
    BY <1>3, <1>5, <2>1, <2>3 DEF Joined
  <2> QED
    BY <1>2, <1>3, <2>1, <2>2, <2>3, <2>4 DEF Up, Down, c
<1>6. ASSUME member.ws = w, Joined(p, member)
      PROVE  /\ Known(client, member) /\ OneMatch(client, member) /\ NoneCounted(client, member)
             /\ NextFits(client, member) /\ OfferedAgain(client, member)
             /\ ~(client.snapshot = Undefined /\ Idle(client))
             /\ InMatch(p) = InMatch(client) /\ LiveBridge(p) = LiveBridge(client)
             /\ Idle(p) = Idle(client)
             /\ AllOff(client) => AllOff(p) /\ ~c.connected
             /\ ~LiveBridge(p) =>
                   /\ c.connected => Up(p) # <<>>
                   /\ Up(p) # <<>> => ~Up(p)[Len(Up(p))].connected
  <2>1. Joined(client, member) /\ Up(client) # <<>>
    BY <1>5, <1>6
  <2>2. /\ Known(client, member) /\ OneMatch(client, member) /\ NoneCounted(client, member)
        /\ NextFits(client, member) /\ OfferedAgain(client, member)
        /\ ~(client.snapshot = Undefined /\ Idle(client))
    BY <2>1, JoinedIs DEF OfferedFirst
  <2>3. /\ InMatch(p) = InMatch(client) /\ LiveBridge(p) = LiveBridge(client)
        /\ Idle(p) = Idle(client)
    BY <1>3, <1>5, <1>6 DEF InMatch, LiveBridge, Idle, Bridge
  <2>4. /\ Up(client) \in Seq([connected : BOOLEAN]) /\ Up(p) = Tail(Up(client))
        /\ c = Head(Up(client))
    BY <1>5, <1>6
  <2>5. /\ Len(Up(client)) \in Nat /\ Len(Up(client)) >= 1 /\ c = Up(client)[1]
        /\ Len(Up(p)) = Len(Up(client)) - 1 /\ Up(p) \in Seq([connected : BOOLEAN])
        /\ \A k \in 1..Len(Up(p)) : k + 1 \in 1..Len(Up(client)) /\ Up(p)[k] = Up(client)[k + 1]
    BY <2>1, <2>4
  <2>6. AllOff(client) => AllOff(p) /\ ~c.connected
    BY <2>5 DEF AllOff
  <2>7. Up(p) # <<>> => Len(Up(p)) \in 1..Len(Up(p)) /\ Up(p)[Len(Up(p))] = Up(client)[Len(Up(client))]
    BY <2>5
  <2>8. Up(p) = <<>> => c = Up(client)[Len(Up(client))]
    <3>1. Up(p) = <<>> => Len(Up(p)) = 0
      OBVIOUS
    <3>2. Len(Up(p)) = 0 => Len(Up(client)) = 1
      BY <2>5
    <3> QED
      BY <2>5, <3>1, <3>2
  <2>9. ~LiveBridge(p) => ~Up(client)[Len(Up(client))].connected
    BY <2>1, <2>2, <2>3 DEF NoneCounted
  <2> QED
    BY <2>2, <2>3, <2>6, <2>7, <2>8, <2>9
<1>7. p.sockets = client.sockets /\ (member.ws = w => member.there /\ SeatStands(p, member))
  BY <1>3, UndefinedIsApart DEF SameRoomSide, SeatFits, SeatStands
\* The toy is not there any more.
<1>8. CASE member.ws = w /\ ~c.connected /\ Becomes(p, d)
  <2>1. /\ d \in Seats /\ d.there = member.there /\ d.ws = member.ws /\ ~d.adapter
        /\ d.reason # Undefined /\ d.match = member.match /\ d.last = member.last /\ Coherent(d)
    <3>1. d = Detached(member, "adapter") /\ "adapter" \in Reasons
      BY DEF Reasons
    <3> HIDE DEF d
    <3> QED
      BY <1>1, <3>1, DetachedIs
  <2> HIDE DEF d
  <2>2. SeatStands(p, d) /\ Joined(p, d) = Joined(p, member)
    BY <1>7, <1>8, <2>1 DEF SeatStands, Joined
  <2>3. ASSUME Joined(p, d)
        PROVE  /\ \A k \in 1..Len(Down(p)) : Coherent(Down(p)[k])
               /\ OneMatch(p, d) /\ NoneCounted(p, d) /\ NextFits(p, d)
               /\ OfferedFirst(p, d) /\ OfferedAgain(p, d)
               /\ Text(d) = d.last => Known(p, d)
    <3>1. Joined(p, member) /\ Down(p) = Down(client) /\ p.snapshot = client.snapshot
          /\ StateOf(p, p.ws) = "open"
      BY <1>5, <1>8, <2>2, <2>3
    <3>2. /\ Known(client, member) /\ OneMatch(client, member)
          /\ NextFits(client, member) /\ OfferedAgain(client, member)
          /\ ~(client.snapshot = Undefined /\ Idle(client))
          /\ InMatch(p) = InMatch(client) /\ LiveBridge(p) = LiveBridge(client)
          /\ Idle(p) = Idle(client)
          /\ AllOff(client) => AllOff(p)
          /\ ~LiveBridge(p) /\ Up(p) # <<>> => ~Up(p)[Len(Up(p))].connected
      BY <1>6, <1>8, <3>1
    <3>3. OneMatch(p, d)
      BY <2>1, <3>1, <3>2 DEF OneMatch
    <3>4. NoneCounted(p, d)
      BY <2>1, <3>2 DEF NoneCounted
    <3>5. NextFits(p, d)
      BY <2>1, <3>1, <3>2 DEF NextFits
    <3>6. OfferedFirst(p, d)
      BY <3>1, <3>2 DEF OfferedFirst
    <3>7. OfferedAgain(p, d)
      BY <2>1, <3>1, <3>2 DEF OfferedAgain
    <3>8. Text(d) = d.last => Known(p, d)
      <4>1. member.last = Text(member)
        BY <1>1, <1>8, UndefinedIsApart DEF SeatFits
      <4>2. Text(d) = d.last => View(d) = View(member)
        BY <2>1, <4>1 DEF Text, View
      <4> QED
        BY <3>1, <3>2, <4>2 DEF Known
    <3>9. \A k \in 1..Len(Down(p)) : Coherent(Down(p)[k])
      BY <3>1, <3>2 DEF Known
    <3> QED
      BY <3>3, <3>4, <3>5, <3>6, <3>7, <3>8, <3>9
  <2>4. ToTell(p, d) /\ Offered(p, d)
    BY <2>3 DEF ToTell, Offered
  <2> QED
    BY <1>3, <1>8, <2>1, <2>2, <2>4, BecomesKept
\* It was there already, or comes too late for the match.
<1>9. CASE /\ member.ws = w /\ c.connected /\ client' = p /\ member' = member
  <2>1. ASSUME Joined(p, member)
        PROVE  /\ Known(p, member) /\ OneMatch(p, member) /\ NoneCounted(p, member)
               /\ OfferedFirst(p, member) /\ OfferedAgain(p, member)
    <3>1. Down(p) = Down(client) /\ p.snapshot = client.snapshot /\ StateOf(p, p.ws) = "open"
      BY <1>5, <1>9, <2>1
    <3>2. /\ Known(client, member) /\ OneMatch(client, member) /\ OfferedAgain(client, member)
          /\ ~(client.snapshot = Undefined /\ Idle(client))
          /\ InMatch(p) = InMatch(client) /\ Idle(p) = Idle(client)
          /\ ~AllOff(client)
          /\ ~LiveBridge(p) =>
                /\ Up(p) # <<>>
                /\ Up(p) # <<>> => ~Up(p)[Len(Up(p))].connected
      BY <1>6, <1>9, <2>1
    <3>3. Known(p, member)
      BY <3>1, <3>2 DEF Known
    <3>4. OneMatch(p, member)
      BY <3>1, <3>2 DEF OneMatch
    <3>5. NoneCounted(p, member)
      BY <3>2 DEF NoneCounted
    <3>6. OfferedFirst(p, member)
      BY <3>1, <3>2 DEF OfferedFirst
    <3>7. OfferedAgain(p, member)
      BY <3>1, <3>2 DEF OfferedAgain
    <3> QED
      BY <3>3, <3>4, <3>5, <3>6, <3>7
  <2>2. PipeFits(p, member) /\ Offered(p, member)
    BY <2>1 DEF PipeFits, Offered
  <2> QED
    BY <1>1, <1>3, <1>9, <2>2 DEF Holds, Core, Chosen
\* The toy is there: the page has not heard of the end of a match, as it spoke.
<1>10. CASE /\ member.ws = w /\ c.connected /\ ~member.adapter /\ member.match = "none"
            /\ Becomes(p, a)
  <2>1. /\ a \in Seats /\ a.there = member.there /\ a.ws = member.ws /\ a.adapter
        /\ a.reason = Undefined /\ a.match = member.match /\ a.last = member.last /\ Coherent(a)
    BY <1>1 DEF Seats, Coherent
  <2> HIDE DEF a
  <2>2. SeatStands(p, a) /\ Joined(p, a) = Joined(p, member)
    BY <1>7, <1>10, <2>1, UndefinedIsApart DEF SeatStands, Joined
  <2>3. ASSUME Joined(p, a)
        PROVE  /\ \A k \in 1..Len(Down(p)) : Coherent(Down(p)[k])
               /\ OneMatch(p, a) /\ NoneCounted(p, a) /\ NextFits(p, a)
               /\ OfferedFirst(p, a) /\ OfferedAgain(p, a)
               /\ Text(a) = a.last => Known(p, a)
    <3>1. Joined(p, member) /\ Down(p) = Down(client) /\ p.snapshot = client.snapshot
          /\ StateOf(p, p.ws) = "open"
      BY <1>5, <1>10, <2>2, <2>3
    <3>2. /\ Known(client, member) /\ OneMatch(client, member)
          /\ NextFits(client, member) /\ OfferedAgain(client, member)
          /\ ~(client.snapshot = Undefined /\ Idle(client))
          /\ InMatch(p) = InMatch(client) /\ Idle(p) = Idle(client)
          /\ ~AllOff(client)
          /\ ~LiveBridge(p) =>
                /\ Up(p) # <<>>
                /\ Up(p) # <<>> => ~Up(p)[Len(Up(p))].connected
      BY <1>6, <1>10, <3>1
    <3>3. OneMatch(p, a)
      BY <3>1, <3>2 DEF OneMatch
    <3>4. NoneCounted(p, a)
      BY <3>2 DEF NoneCounted
    <3>5. NextFits(p, a)
      BY <1>10, <2>1, <3>1, <3>2 DEF NextFits
    <3>6. OfferedFirst(p, a)
      BY <3>1, <3>2 DEF OfferedFirst
    <3>7. OfferedAgain(p, a)
      BY <3>1, <3>2 DEF OfferedAgain
    <3>8. Text(a) = a.last => Known(p, a)
      <4>1. member.last = Text(member)
        BY <1>1, <1>10, UndefinedIsApart DEF SeatFits
      <4>2. Text(a).adapter = a.adapter /\ Text(member).adapter = member.adapter
        BY DEF Text
      <4>3. Text(a) # Text(member)
        BY <1>10, <2>1, <4>2
      <4> QED
        BY <2>1, <4>1, <4>3
    <3>9. \A k \in 1..Len(Down(p)) : Coherent(Down(p)[k])
      BY <3>1, <3>2 DEF Known
    <3> QED
      BY <3>3, <3>4, <3>5, <3>6, <3>7, <3>8, <3>9
  <2>4. ToTell(p, a) /\ Offered(p, a)
    BY <2>3 DEF ToTell, Offered
  <2> QED
    BY <1>3, <1>10, <2>1, <2>2, <2>4, BecomesKept
<1> QED
  BY <1>2, <1>4, <1>8, <1>9, <1>10

\* What the server does keeps the invariant.
LEMMA ServerKept ==
    ASSUME GamesInv, Server PROVE Holds(client', member')
  BY SeatAttachKept, ServeKept, SeatGoneKept, ExpiresKept, LeavesKept, OthersChangeKept,
     PeerDetachesKept, SessionFailsKept, MatchStartsKept, MatchEndsKept, NextOpenedKept DEF Server

-----------------------------------------------------------------------------
\* A page that nothing was done with.
LEMMA GamesStart == GamesInit => GamesInv
<1> SUFFICES ASSUME GamesInit PROVE GamesInv
  OBVIOUS
<1> DEFINE wires == [w \in 1..MaxOpened |-> Line]
           used == [sockets |-> 0, bridges |-> 0, plugs |-> 0]
<1>1. PICK mode \in Modes : client = Page(mode, wires, used) /\ member = Nobody
  BY DEF GamesInit
<1>2. Line \in SocketLines /\ Line.state = "new" /\ Line.up = <<>> /\ Line.down = <<>>
  <2>1. <<>> \in Seq([connected : BOOLEAN]) /\ <<>> \in Seq(Snapshots) /\ "new" \in States
    BY DEF States
  <2> QED
    BY <2>1 DEF Line, SocketLines
<1>3. wires \in [1..MaxOpened -> SocketLines] /\ \A x \in 1..MaxOpened : wires[x] = Line
  BY <1>2
<1>4. used.sockets \in 0..MaxOpened /\ used.bridges \in Nat /\ used.plugs \in Nat /\ used.sockets = 0
  BY UndefinedIsApart
<1> HIDE DEF wires, used
<1>5. /\ client \in Clients /\ client.lines = wires /\ client.ws = Undefined /\ client.sockets = 0
      /\ AdapterFits(client) /\ client.job = "no" /\ client.snapshot = Undefined
  BY <1>1, <1>3, <1>4, PageIs
<1>6. LinesFit(client)
  BY <1>2, <1>3, <1>5 DEF LinesFit, StateOf, Alive
<1>7. Unjoined(member)
  BY <1>1, NobodyIs
<1>8. SeatFits(client, member) /\ ~Joined(client, member)
  BY <1>7 DEF Unjoined, SeatFits, Joined
<1> QED
  BY <1>5, <1>6, <1>7, <1>8 DEF GamesInv, Holds, Core, PipeFits, Offered, Chosen, Unjoined

\* The page, its adapter and its seat agree, however many sockets, bridges and
\* adapters there are.
THEOREM PageIsHeld == GamesSpec => []PageHolds
<1>1. GamesInv /\ [GamesNext]_gamesVars => GamesInv'
  <2> SUFFICES ASSUME GamesInv, [GamesNext]_gamesVars PROVE GamesInv'
    OBVIOUS
  <2>1. CASE GamesNext
    <3>1. Holds(client', member')
      BY <2>1, PlayerKept, WireKept, ServerKept DEF GamesNext
    <3> QED
      BY <3>1 DEF GamesInv, Holds, Core, Clients, Seats
  <2>2. CASE UNCHANGED gamesVars
    BY <2>2 DEF gamesVars, GamesInv
  <2> QED
    BY <2>1, <2>2
<1> QED
  BY <1>1, GamesStart, PageIsRight, PTL DEF GamesSpec

-----------------------------------------------------------------------------
(***************************************************************************)
(* The relay of one code, for any number of connections, any time to live   *)
(* that is long enough for its timer, and any traffic.                      *)
(***************************************************************************)


\* The server starts with variables of the right shape.
LEMMA TypeInit == RelayInit => TypeOK
<1> SUFFICES ASSUME RelayInit PROVE TypeOK
  OBVIOUS
<1>1. Zero \in [Roles -> Nat]
  BY DEF Zero
<1>2. slot \in [Roles -> Sockets \cup {None}]
  BY DEF RelayInit
<1>3. state \in [Sockets -> {"new", "open", "closing", "closed"}]
      /\ notice \in [Sockets -> {"none", "connected", "disconnected"}]
  BY DEF RelayInit
<1> QED
  BY <1>1, <1>2, <1>3 DEF RelayInit, TypeOK

\* The shape of the state is kept by every step.
LEMMA TypeStep == TypeOK /\ [RelayNext]_vars => TypeOK'
<1> SUFFICES ASSUME TypeOK, [RelayNext]_vars PROVE TypeOK'
  OBVIOUS
<1> USE DEF TypeOK, ledger
<1>0. Plus(bytes, pending) \in [Roles -> Nat] /\ Plus(lost, pending) \in [Roles -> Nat]
      /\ Zero \in [Roles -> Nat]
  BY DEF Plus, Zero
<1>1. CASE Create
  BY <1>1 DEF Create
<1>2. CASE Expire
  BY <1>2 DEF Expire
<1>3. CASE LobbyCreate
  BY <1>3 DEF LobbyCreate
<1>4. CASE LobbyClosed
  BY <1>4 DEF LobbyClosed
<1>5. CASE FlushCounters
  BY <1>0, <1>5 DEF FlushCounters, Touched
<1>6. CASE Clock
  BY <1>6 DEF Clock
<1>7. CASE Crash
  BY <1>0, <1>7 DEF Crash
<1>8. ASSUME NEW r \in Roles, Message(r) PROVE TypeOK'
  BY <1>8 DEF Message
<1>9. ASSUME NEW w \in Sockets, Refuse(w) PROVE TypeOK'
  BY <1>9 DEF Refuse
<1>10. ASSUME NEW w \in Sockets, ClientCloses(w) PROVE TypeOK'
  BY <1>10 DEF ClientCloses
<1>11. ASSUME NEW w \in Sockets, Closed(w) PROVE TypeOK'
  <2>1. CASE NotPresent(w)
    BY <1>11, <2>1 DEF Closed, NotPresent
  <2>2. CASE \E r \in Roles : Gone(r, w)
    <3> PICK r \in Roles : Gone(r, w)
      BY <2>2
    <3>1. slot' \in [Roles -> Sockets \cup {None}]
      BY DEF Gone
    <3>2. notice' \in [Sockets -> {"none", "connected", "disconnected"}]
      BY DEF Gone
    <3>3. last' \in Nat /\ lastTouchAt' \in Nat
      BY DEF Gone, Touched
    <3>4. bytes' \in [Roles -> Nat] /\ pending' \in [Roles -> Nat]
      BY <1>0 DEF Gone
    <3> QED
      BY <1>11, <3>1, <3>2, <3>3, <3>4 DEF Closed
  <2> QED
    BY <1>11, <2>1, <2>2 DEF Closed
<1>12. ASSUME NEW w \in Sockets, NEW r \in Roles, Attach(r, w) PROVE TypeOK'
  BY <1>12 DEF Attach
<1>13. CASE UNCHANGED vars
  BY <1>13 DEF vars
<1> QED
  BY <1>1, <1>2, <1>3, <1>4, <1>5, <1>6, <1>7, <1>8, <1>9, <1>10, <1>11, <1>12, <1>13 DEF RelayNext

\* The store, the pair and the counters always have their shape.
THEOREM TypeCorrect == RelaySpec => []TypeOK
  BY TypeInit, TypeStep, PTL DEF RelaySpec

-----------------------------------------------------------------------------
(* The invariant.  To the properties it adds what they lean on: a socket    *)
(* that was never attached knows nothing, and a pair in use was touched no  *)
(* longer ago than its timer can have waited.                               *)

NewKnowNothing == \A w \in Sockets : state[w] = "new" => notice[w] = "none"

TouchedInTime ==
    Pair => /\ row = "active" /\ last = lastTouchAt /\ lastTouchAt <= now
            /\ now - lastTouchAt < TOUCH_MS + sinceFlush
            /\ sinceFlush <= INTERVAL_MS

Membership == RolesHold /\ NewKnowNothing /\ NoticeTrue
IInv == TypeOK /\ NamesOne /\ Membership /\ BytesAccounted /\ TouchedInTime

\* Why a pair in use has an active row: the time to live is longer than what
\* the touches of its timer leave.
LEMMA UseIsActive == ASSUME TypeOK, TouchedInTime PROVE InUseNotExpired
  BY RelayAssumption DEF TypeOK, TouchedInTime, InUseNotExpired, IsActive

\* Adding what waits to what is down takes nothing away, and Zero adds nothing.
LEMMA PlusSums ==
    ASSUME NEW f \in [Roles -> Nat], NEW g \in [Roles -> Nat], NEW r \in Roles
    PROVE  Plus(f, g)[r] = f[r] + g[r] /\ Zero[r] = 0
  BY DEF Plus, Zero

\* The two places do not draw the same code.
LEMMA NamesStep == ASSUME TypeOK, NamesOne, [RelayNext]_vars PROVE NamesOne'
<1> USE DEF NamesOne
<1>1. ASSUME NEW w \in Sockets, Refuse(w) PROVE NamesOne'
  BY <1>1 DEF Refuse
<1>2. ASSUME NEW w \in Sockets, NEW r \in Roles, Attach(r, w) PROVE NamesOne'
  BY <1>2 DEF Attach
<1>3. ASSUME NEW w \in Sockets, ClientCloses(w) \/ Closed(w) PROVE NamesOne'
  BY <1>3 DEF ClientCloses, Closed
<1>4. ASSUME NEW r \in Roles, Message(r) PROVE NamesOne'
  BY <1>4 DEF Message
<1>5. CASE Create \/ Expire \/ LobbyCreate \/ LobbyClosed
  BY <1>5 DEF Create, Expire, LobbyCreate, LobbyClosed, Overdue
<1>6. CASE FlushCounters \/ Clock \/ Crash \/ UNCHANGED vars
  BY <1>6 DEF FlushCounters, Clock, Crash, vars
<1> QED
  BY <1>1, <1>2, <1>3, <1>4, <1>5, <1>6 DEF RelayNext

\* Every step moves counts from one place to another, and leaves none behind
\* when the last socket goes.
LEMMA CountersStep == ASSUME IInv, [RelayNext]_vars PROVE BytesAccounted'
<1> USE DEF IInv, BytesAccounted, TypeOK, ledger
<1>1. ASSUME UNCHANGED ledger, Pair' \/ ~Pair PROVE BytesAccounted'
  BY <1>1 DEF Zero
<1>2. CASE FlushCounters
  <2>1. Pair'
    BY <1>2 DEF FlushCounters, Pair
  <2>2. bytes' = Plus(bytes, pending) /\ pending' = Zero /\ UNCHANGED <<carried, lost>>
    BY <1>2 DEF FlushCounters
  <2> QED
    BY <2>1, <2>2, PlusSums
<1>3. CASE Crash
  <2>1. lost' = Plus(lost, pending) /\ pending' = Zero /\ UNCHANGED <<carried, bytes>>
    BY <1>3 DEF Crash
  <2> QED
    BY <2>1, PlusSums
<1>4. ASSUME NEW r \in Roles, Message(r) PROVE BytesAccounted'
  BY <1>4 DEF Message, Pair
<1>5. ASSUME NEW w \in Sockets, Closed(w) PROVE BytesAccounted'
  <2>1. UNCHANGED <<carried, lost>>
    BY <1>5 DEF Closed
  <2>2. CASE NotPresent(w)
    BY <2>1, <2>2, <1>1 DEF NotPresent, Pair
  <2>3. ASSUME NEW r \in Roles, Gone(r, w) PROVE BytesAccounted'
    <3>1. CASE slot[OtherRole(r)] = None
      <4>1. bytes' = Plus(bytes, pending) /\ pending' = Zero
        BY <2>3, <3>1 DEF Gone
      <4> QED
        BY <2>1, <4>1, PlusSums
    <3>2. CASE slot[OtherRole(r)] # None
      <4>1. slot'[OtherRole(r)] = slot[OtherRole(r)] /\ OtherRole(r) \in Roles
        BY <2>3 DEF Gone, OtherRole, Roles
      <4> QED
        BY <2>1, <2>3, <3>2, <4>1, <1>1 DEF Gone, Pair
    <3> QED
      BY <3>1, <3>2
  <2> QED
    BY <1>5, <2>2, <2>3 DEF Closed
<1>6. ASSUME NEW w \in Sockets, NEW r \in Roles, Attach(r, w) PROVE BytesAccounted'
  <2>1. slot'[r] # None
    BY <1>6, RelayAssumption DEF Attach
  <2> QED
    BY <1>6, <2>1, <1>1 DEF Attach, Pair
<1>7. ASSUME NEW w \in Sockets, Refuse(w) \/ ClientCloses(w) PROVE BytesAccounted'
  BY <1>7, <1>1 DEF Refuse, ClientCloses, Pair
<1>8. CASE Create \/ Expire \/ LobbyCreate \/ LobbyClosed \/ Clock \/ UNCHANGED vars
  BY <1>8, <1>1 DEF Create, Expire, LobbyCreate, LobbyClosed, Clock, vars, Pair
<1> QED
  BY <1>2, <1>3, <1>4, <1>5, <1>6, <1>7, <1>8 DEF RelayNext

\* A pair is touched when it is made, whenever somebody comes or goes, and by
\* its timer; an expiry, which is for rows that were not, passes it over.
LEMMA TouchStep == ASSUME IInv, [RelayNext]_vars PROVE TouchedInTime'
<1> USE RelayAssumption DEF IInv, TouchedInTime, TypeOK
<1>0. InUseNotExpired
  BY UseIsActive
<1>1. CASE FlushCounters
  <2>1. Pair' <=> Pair
    BY <1>1 DEF FlushCounters, Pair
  <2> QED
    BY <1>1, <2>1 DEF FlushCounters, Touched
<1>2. CASE Clock
  BY <1>2 DEF Clock, Pair
<1>3. CASE Crash
  BY <1>3 DEF Crash, Pair
<1>4. ASSUME NEW r \in Roles, Message(r) PROVE TouchedInTime'
  BY <1>4 DEF Message, Pair
<1>5. ASSUME NEW w \in Sockets, Closed(w) PROVE TouchedInTime'
  <2>1. CASE NotPresent(w)
    BY <1>5, <2>1 DEF Closed, NotPresent, Pair
  <2>2. ASSUME NEW r \in Roles, Gone(r, w) PROVE TouchedInTime'
    <3>1. Pair
      BY <2>2 DEF Gone, Pair
    <3>2. last' = now /\ lastTouchAt' = now /\ UNCHANGED <<row, now, sinceFlush>>
      BY <1>5, <2>2, <3>1 DEF Closed, Gone, Touched
    <3> QED
      BY <3>1, <3>2
  <2> QED
    BY <1>5, <2>1, <2>2 DEF Closed
<1>6. ASSUME NEW w \in Sockets, NEW r \in Roles, Attach(r, w) PROVE TouchedInTime'
  BY <1>6 DEF Attach, IsActive
<1>7. ASSUME NEW w \in Sockets, Refuse(w) \/ ClientCloses(w) PROVE TouchedInTime'
  BY <1>0, <1>7 DEF Refuse, ClientCloses, Pair, InUseNotExpired
<1>8. CASE Create \/ LobbyCreate \/ LobbyClosed \/ UNCHANGED vars
  BY <1>8 DEF Create, LobbyCreate, LobbyClosed, vars, Pair
<1>9. CASE Expire
  BY <1>0, <1>9 DEF Expire, Overdue, IsActive, InUseNotExpired, Pair
<1> QED
  BY <1>1, <1>2, <1>3, <1>4, <1>5, <1>6, <1>7, <1>8, <1>9 DEF RelayNext

\* Roles and what clients believe of each other.  Only three kinds of step
\* touch them: somebody attaches, a socket goes, the server dies.
LEMMA MembershipStep == ASSUME IInv, [RelayNext]_vars PROVE Membership'
<1> USE RelayAssumption
    DEF IInv, Membership, RolesHold, NewKnowNothing, NoticeTrue, TypeOK, Open
<1>0. ASSUME NEW r \in Roles PROVE OtherRole(r) \in Roles /\ OtherRole(r) # r /\ OtherRole(OtherRole(r)) = r
                                   /\ Roles = {r, OtherRole(r)}
  BY DEF Roles, OtherRole
<1>1. ASSUME NEW w \in Sockets, NEW r \in Roles, Attach(r, w) PROVE Membership'
  <2> USE <1>1 DEF Attach
  <2>1. slot'[r] = w /\ slot'[OtherRole(r)] = slot[OtherRole(r)] /\ state'[w] = "open"
    BY <1>0
  <2>2. \A q \in Roles : slot[q] # w
    BY DEF Roles
  <2>3. slot[OtherRole(r)] # None => slot[OtherRole(r)] # slot[r]
    BY DEF Roles, OtherRole
  <2>4. slot[OtherRole(r)] # None => state'[slot[OtherRole(r)]] = state[slot[OtherRole(r)]]
    BY <1>0, <2>2, <2>3
  <2>5. RolesHold'
    <3>1. \A q \in Roles : slot'[q] # None => state'[slot'[q]] \in {"open", "closing"}
      BY <1>0, <2>1, <2>4
    <3>2. ASSUME NEW x \in Sockets, state'[x] = "open" PROVE \E q \in Roles : slot'[q] = x
      BY <1>0, <2>1, <3>2
    <3>3. slot'["a"] # None => slot'["a"] # slot'["b"]
      BY <1>0, <2>1, <2>2 DEF Roles
    <3> QED
      BY <3>1, <3>2, <3>3
  <2>6. NewKnowNothing'
    BY <1>0
  <2>7. NoticeTrue'
    <3>1. Open(OtherRole(r)) => notice'[slot'[r]] = "connected" /\ notice'[slot'[OtherRole(r)]] = "connected"
      BY <1>0, <2>1
    <3>2. ~Open(OtherRole(r)) => notice'[w] = "none"
      OBVIOUS
    <3> QED
      BY <1>0, <2>1, <2>4, <3>1, <3>2
  <2> QED
    BY <2>5, <2>6, <2>7
<1>2. ASSUME NEW w \in Sockets, Closed(w) PROVE Membership'
  <2>1. \A x \in Sockets : x # w => state'[x] = state[x]
    BY <1>2 DEF Closed
  <2>2. state[w] = "closing" /\ state'[w] \in {"closing", "closed"}
    BY <1>2 DEF Closed
  <2>3. CASE NotPresent(w)
    BY <2>1, <2>2, <2>3, <1>0 DEF NotPresent, Roles
  <2>4. ASSUME NEW r \in Roles, Gone(r, w) PROVE Membership'
    <3>1. slot'[r] = None /\ slot'[OtherRole(r)] = slot[OtherRole(r)] /\ slot[r] = w
      BY <1>0, <2>4 DEF Gone
    <3>2. slot[OtherRole(r)] # w
      BY <3>1 DEF Roles, OtherRole
    <3>3. RolesHold'
      BY <1>0, <2>1, <2>2, <3>1, <3>2 DEF Roles
    <3>4. \A x \in Sockets : notice'[x] = IF Open(OtherRole(r)) /\ x = slot[OtherRole(r)]
                                          THEN "disconnected" ELSE notice[x]
      BY <2>4 DEF Gone
    <3>5. NewKnowNothing'
      BY <2>1, <2>2, <3>4
    <3>6. NoticeTrue'
      BY <1>0, <2>1, <3>1, <3>2, <3>4
    <3> QED
      BY <3>3, <3>5, <3>6
  <2> QED
    BY <1>2, <2>3, <2>4 DEF Closed
<1>3. CASE Crash
  <2>1. \A r \in Roles : slot'[r] = None
    BY <1>3 DEF Crash
  <2>2. \A w \in Sockets : state'[w] # "open" /\ (state'[w] = "new" => state[w] = "new")
    BY <1>3 DEF Crash
  <2>3. notice' = notice
    BY <1>3 DEF Crash
  <2> QED
    BY <2>1, <2>2, <2>3 DEF Roles
<1>4. ASSUME NEW w \in Sockets, ClientCloses(w) PROVE Membership'
  BY <1>0, <1>4 DEF ClientCloses, Roles
<1>5. ASSUME NEW w \in Sockets, Refuse(w) PROVE Membership'
  BY <1>0, <1>5 DEF Refuse, Roles
<1>6. ASSUME UNCHANGED <<slot, state, notice>> PROVE Membership'
  BY <1>6
<1>7. ASSUME NEW r \in Roles, Message(r) PROVE Membership'
  BY <1>6, <1>7 DEF Message
<1>8. CASE Create \/ Expire \/ LobbyCreate \/ LobbyClosed \/ Clock \/ FlushCounters \/ UNCHANGED vars
  BY <1>6, <1>8 DEF Create, Expire, LobbyCreate, LobbyClosed, Clock, FlushCounters, vars
<1> QED
  BY <1>1, <1>2, <1>3, <1>4, <1>5, <1>7, <1>8 DEF RelayNext

\* The invariant holds in every state of the relay.
LEMMA Sound == RelaySpec => []IInv
<1>1. RelayInit => IInv
  <2> SUFFICES ASSUME RelayInit PROVE IInv
    OBVIOUS
  <2>1. TypeOK
    BY TypeInit
  <2>2. ~Pair /\ \A r \in Roles : slot[r] = None /\ ~Open(r)
    BY DEF RelayInit, Pair, Open
  <2>3. Membership
    BY <2>2 DEF Membership, RolesHold, NewKnowNothing, NoticeTrue, RelayInit, Roles
  <2>4. BytesAccounted
    BY DEF BytesAccounted, RelayInit, Zero
  <2> QED
    BY <2>1, <2>2, <2>3, <2>4 DEF IInv, NamesOne, TouchedInTime, RelayInit
<1>2. IInv /\ [RelayNext]_vars => IInv'
  <2> SUFFICES ASSUME IInv, [RelayNext]_vars PROVE IInv'
    OBVIOUS
  <2> QED
    BY TypeStep, NamesStep, CountersStep, TouchStep, MembershipStep DEF IInv
<1> QED
  BY <1>1, <1>2, PTL DEF RelaySpec

\* The lobby and the session store never give out the same code.
THEOREM NamesAreOne == RelaySpec => []NamesOne
<1>1. IInv => NamesOne
  BY DEF IInv
<1> QED
  BY <1>1, Sound, PTL

\* Across every interleaving of traffic, timer, replacement and crash each byte
\* passed on is accounted for exactly once, and nothing is left behind.
THEOREM CountersCorrect == RelaySpec => []BytesAccounted
<1>1. IInv => BytesAccounted
  BY DEF IInv
<1> QED
  BY <1>1, Sound, PTL

\* A replaced socket takes nothing from its replacement.
THEOREM RolesAreHeld == RelaySpec => []RolesHold
<1>1. IInv => RolesHold
  BY DEF IInv, Membership
<1> QED
  BY <1>1, Sound, PTL

\* What clients believe of their peers is so, as far as the server can know.
THEOREM NoticesAreTrue == RelaySpec => []NoticeTrue
<1>1. IInv => NoticeTrue
  BY DEF IInv, Membership
<1> QED
  BY <1>1, Sound, PTL

\* Nobody's session expires under him, for every time to live that is longer
\* than a touch interval and the delay of the timer.
THEOREM UseKeepsTheRow == RelaySpec => []InUseNotExpired
<1>1. IInv => InUseNotExpired
  BY UseIsActive DEF IInv
<1> QED
  BY <1>1, Sound, PTL

\* A code means one pair, whose roles and notices are those of its sockets.
THEOREM PairIsRight == RelaySpec => []PairRight
BY NamesAreOne, RolesAreHeld, NoticesAreTrue, PTL DEF PairRight

\* The row of a session counts what it carried and stays while it is used.
THEOREM RowIsRight == RelaySpec => []RowRight
BY CountersCorrect, UseKeepsTheRow, PTL DEF RowRight

=============================================================================
