---------------------------- MODULE HostedMatch ----------------------------
(***************************************************************************)
(* The match policy the relay server runs for a room of 2..16 toys         *)
(* (tama-protocol/src/hosted-match.ts), together with what it talks to: the *)
(* send queue of each toy's endpoint and, as far as the host can tell, the  *)
(* toy behind it.                                                           *)
(*                                                                          *)
(* One call of the class is one action.  A call is not small: a broadcast   *)
(* that meets a full outbox disconnects that seat, which eliminates it,     *)
(* which broadcasts again, all before the outer loop goes on.  The calls    *)
(* Queue .. Gone keep that nesting: drop is what disconnect does one level  *)
(* down, and Drops builds it from the innermost level outwards.             *)
(*                                                                          *)
(* Time is relative: deadline and settle hold the time LEFT, in units that  *)
(* keep the order of the code's constants, and Clock lets a unit pass.      *)
(***************************************************************************)
EXTENDS Integers, FiniteSets, Sequences, FiniteSetsExt

CONSTANTS
    N,              \* seats of the match, frozen when it starts
    SEEDS,          \* values the 32-bit random source can return
    OUTBOX_LIMIT,   \* messages a seat may hold back
    HEADROOM,       \* an endpoint is fed while fewer than this are pending
    GARBAGE_LIMIT,  \* last garbage id of a round (2^32 - 1 in the code)
    SETTLE_MS, PREPARE_MS, COUNTDOWN_MS, RESULT_MS,
    MaxRounds,      \* bound of the model: no further round begins
    Chatty,         \* bound of the model: seats whose endpoint sends heartbeats
    Attackers,      \* bound of the model: seats whose toy sends attacks
    Leavers         \* bound of the model: seats that may go of their own accord

ASSUME MatchAssumption ==
    /\ N \in 2..16
    /\ SEEDS # {} /\ SEEDS \subseteq Nat \ {0}
    /\ {HEADROOM, GARBAGE_LIMIT, MaxRounds} \subseteq Nat \ {0}
    /\ {SETTLE_MS, PREPARE_MS, COUNTDOWN_MS, RESULT_MS} \subseteq Nat \ {0}
    /\ Chatty \cup Attackers \cup Leavers \subseteq 0..(N - 1)
    /\ OUTBOX_LIMIT \in Nat \ {0, 1}   \* START fits, and so do GO and ALIVE

Seats == 0..(N - 1)
TIE == 255
Unset == -1                             \* undefined

Phases == {"lobby", "preparing", "countdown", "playing",
           "round-result", "results", "aborted"}

VARIABLES
    match,      \* the fields of HostedMatch and, per seat, those of Seat
    endpoint,   \* per seat: stopped with an error?, and its queue
    toy         \* per seat: what the toy has acknowledged being told

vars == <<match, endpoint, toy>>

-----------------------------------------------------------------------------
(* Messages to a toy, named for their wire types.  The loser index of ALIVE *)
(* and the garbage column are left out: no behaviour depends on them.       *)

START(h)         == [type |-> "START", round |-> h.round, seed |-> h.seed]      \* 4
GO(h)            == [type |-> "GO", round |-> h.round]                          \* 5
\* Faulty variant: the id before the increment (garbageId++ for ++garbageId).
GARBAGEBefore(h, id) == [type |-> "GARBAGE", round |-> h.round, id |-> id - 1]
GARBAGE(h, id)   == [type |-> "GARBAGE", round |-> h.round, id |-> id]          \* 7
ALIVE(h)         == [type |-> "ALIVE", round |-> h.round, mask |-> h.alive]     \* 8
RESULT(h)        == [type |-> "RESULT", round |-> h.round, winner |-> h.winner] \* 9
FINAL(h)         == [type |-> "FINAL", round |-> h.round, winner |-> h.winner]  \* 10
ABORT(h)         == [type |-> "ABORT", round |-> h.round]                       \* 12
BEAT             == [type |-> "BEAT", round |-> 0]       \* 11 or 13, not of the match

Winners == Seats \cup {TIE, Unset}
Messages ==
    [type : {"START"}, round : Nat, seed : Nat]
    \cup [type : {"GO", "ABORT", "BEAT"}, round : Nat]
    \cup [type : {"GARBAGE"}, round : Nat, id : Nat]
    \cup [type : {"ALIVE"}, round : Nat, mask : SUBSET Seats]
    \cup [type : {"RESULT", "FINAL"}, round : Nat, winner : Winners]

\* The fields of HostedMatch, and of each Seat.
Matches ==
    [phase : Phases, round : Nat, seed : Nat, wins : [Seats -> Nat],
     alive : SUBSET Seats, winner : Winners, deadline : Int, settle : Int,
     finish : BOOLEAN, connected : [Seats -> BOOLEAN], prepared : [Seats -> BOOLEAN],
     target : [Seats -> Seats], garbageId : [Seats -> Nat],
     outbox : [Seats -> Seq(Messages)]]

-----------------------------------------------------------------------------
(* Calls that nest.  Each takes and returns the whole match.                *)

Connected(h) == {s \in Seats : h.connected[s]}

\* The match with seq as what seat i is still to be sent.
Holding(h, i, seq) == [h EXCEPT !.outbox[i] = seq]

\* Only an unsent ALIVE of the same round is replaced; a full outbox costs
\* the seat its place in the match.
Replaced(held, msg) ==
    {k \in DOMAIN held : msg.type = "ALIVE" /\ held[k].type = "ALIVE" /\ held[k].round = msg.round}
Queue(drop, h, i, msg) ==
    LET held == h.outbox[i]
        old == Replaced(held, msg)
    IN  CASE ~h.connected[i] -> h
          [] h.connected[i] /\ old # {} -> Holding(h, i, [held EXCEPT ![Min(old)] = msg])
          [] h.connected[i] /\ old = {} /\ Len(held) >= OUTBOX_LIMIT -> drop[<<h, i>>]
          [] OTHER -> Holding(h, i, Append(held, msg))

\* The loop over the seats.  msg was built before it: what nested calls
\* change on the way is not in it.
Broadcast(drop, h, msg) ==
    LET told[k \in 0..N] == IF k = 0 THEN h ELSE Queue(drop, told[k - 1], k - 1, msg)
    IN  told[N]

Abort(drop, h) ==
    IF h.phase = "aborted" THEN h
    ELSE LET g == [h EXCEPT !.phase = "aborted"] IN Broadcast(drop, g, ABORT(g))

\* Faulty variant: the settlement looks at the survivors before this loss.
EliminateLate(drop, h, i) ==
    IF i \notin h.alive THEN h
    ELSE LET dead == [h EXCEPT !.alive = @ \ {i}]
             g == Broadcast(drop, dead, ALIVE(dead))
         IN  IF Cardinality(h.alive) <= 1 /\ g.settle = Unset
             THEN [g EXCEPT !.settle = SETTLE_MS] ELSE g

\* Faulty variant: the others are told of the survivors before this loss.
EliminateToldBefore(drop, h, i) ==
    IF i \notin h.alive THEN h
    ELSE LET g == [Broadcast(drop, h, ALIVE(h)) EXCEPT !.alive = @ \ {i}]
         IN  IF Cardinality(g.alive) <= 1 /\ g.settle = Unset
             THEN [g EXCEPT !.settle = SETTLE_MS] ELSE g

Eliminate(drop, h, i) ==
    IF i \notin h.alive THEN h
    ELSE LET dead == [h EXCEPT !.alive = @ \ {i}]
             g == Broadcast(drop, dead, ALIVE(dead))
         IN  IF Cardinality(g.alive) <= 1 /\ g.settle = Unset
             THEN [g EXCEPT !.settle = SETTLE_MS] ELSE g

OnlyConnected(h) == IF Connected(h) = {} THEN TIE ELSE CHOOSE s \in Connected(h) : TRUE

\* Faulty variant: a match that is over can still be forfeited.
ForfeitAfterEnd(drop, h) ==
    IF Cardinality(Connected(h)) <= 1
    THEN LET g == [h EXCEPT !.phase = "results", !.winner = OnlyConnected(h)]
         IN  Broadcast(drop, g, FINAL(g))
    ELSE h

\* Faulty variant: FINAL is built before the winner is known.
ForfeitUnnamed(drop, h) ==
    IF h.phase \in {"playing", "round-result"} /\ Cardinality(Connected(h)) <= 1
    THEN Broadcast(drop, [h EXCEPT !.phase = "results", !.winner = OnlyConnected(h)], FINAL(h))
    ELSE h

\* The last connected seat wins the match by forfeit.
ForfeitCheck(drop, h) ==
    IF h.phase \in {"playing", "round-result"} /\ Cardinality(Connected(h)) <= 1
    THEN LET g == [h EXCEPT !.phase = "results", !.winner = OnlyConnected(h)]
         IN  Broadcast(drop, g, FINAL(g))
    ELSE h

Unseated(h, i) == [h EXCEPT !.connected[i] = FALSE, !.outbox[i] = <<>>]
Gone(drop, h, i) ==
    LET g == Unseated(h, i)
    IN  CASE ~h.connected[i] -> h
          [] h.connected[i] /\ h.phase \in {"preparing", "countdown", "lobby"} -> Abort(drop, g)
          [] h.connected[i] /\ h.phase = "playing" -> ForfeitCheck(drop, Eliminate(drop, g, i))
          [] OTHER -> ForfeitCheck(drop, g)

\* Every call that does anything leaves one seat fewer connected, so calls
\* never nest more than N deep: the level below is not reached.
Drops[d \in 0..N] ==
    [c \in Matches \X Seats |-> IF d = 0 THEN c[1] ELSE Gone(Drops[d - 1], c[1], c[2])]
Drop == Drops[N]
Disconnect(h, i) == Drop[<<h, i>>]

-----------------------------------------------------------------------------
\* A match whose next round is about to be announced.
NextRound(h, seed) ==
    LET first(i) == (i + 1 + (seed % (N - 1))) % N
    IN  [h EXCEPT !.round = h.round + 1, !.seed = seed, !.phase = "preparing",
                  !.deadline = PREPARE_MS, !.settle = Unset, !.winner = Unset,
                  !.alive = Connected(h),
                  !.prepared = [s \in Seats |-> FALSE],
                  !.garbageId = [s \in Seats |-> 0],
                  !.target = [s \in Seats |-> first(s)]]
BeginRound(h, seed) ==
    LET g == NextRound(h, seed) IN Broadcast(Drop, g, START(g))

\* The first living seat, other than the attacker, from where it aims.
Candidates(h, i) ==
    {o \in 0..(N - 1) : LET c == (h.target[i] + o) % N IN c # i /\ c \in h.alive}
NextTarget(h, i) ==
    IF i \notin h.alive \/ Candidates(h, i) = {} THEN Unset
    ELSE (h.target[i] + Min(Candidates(h, i))) % N

Champion(h, i) == i # TIE /\ h.wins[i] >= 2

RoundWinner(h) == IF h.alive = {} THEN TIE ELSE Max(h.alive)
Scored(h, won) == IF won = TIE THEN h.wins ELSE [h.wins EXCEPT ![won] = h.wins[won] + 1]

\* A match whose round is decided, before anybody is told.
Decided(h) ==
    LET won == RoundWinner(h)
        g == [h EXCEPT !.winner = won, !.wins = Scored(h, won),
                       !.phase = "round-result", !.deadline = RESULT_MS]
    IN  [g EXCEPT !.finish = Champion(g, won)]
FinishRound(h) ==
    LET told == Broadcast(Drop, Decided(h), RESULT(Decided(h)))
    IN  IF told.finish THEN Broadcast(Drop, told, FINAL(told)) ELSE told

-----------------------------------------------------------------------------
(* The endpoints.  One that stopped has an error and an empty queue; its    *)
(* head stays in the queue until the toy's ACK comes back.                  *)

Pending(e, i) == Len(e[i].queue)
Stopped == [error |-> TRUE, queue |-> <<>>]

Drained(h, e) == \A s \in Connected(h) : h.outbox[s] = <<>> /\ Pending(e, s) = 0

\* Hands a seat's messages over, in order, while its endpoint has headroom.
FlushSeat(s, i) ==
    LET room == HEADROOM - Pending(s.e, i)
        held == s.h.outbox[i]
        k == Min({Len(held), room})
    IN  CASE ~s.h.connected[i] \/ k <= 0 -> s
          [] s.h.connected[i] /\ k > 0 /\ s.e[i].error ->
                [s EXCEPT !.h = Disconnect(s.h, i)]
          [] OTHER ->
                [h |-> Holding(s.h, i, SubSeq(held, k + 1, Len(held))),
                 e |-> [s.e EXCEPT ![i].queue = @ \o SubSeq(held, 1, k)]]
Flush(s) ==
    LET fed[k \in 0..N] == IF k = 0 THEN s ELSE FlushSeat(fed[k - 1], k - 1)
    IN  fed[N]

AllPrepared(h) == \A s \in Connected(h) : h.prepared[s]

StartPlaying(h) ==
    LET g == Broadcast(Drop, [h EXCEPT !.phase = "playing"], GO(h))
    IN  IF Connected(g) = Seats THEN g ELSE Broadcast(Drop, g, ALIVE(g))

NewRoundDue(h, e) ==
    /\ h.phase = "round-result" /\ ~h.finish /\ h.deadline <= 0
    /\ h.deadline > -PREPARE_MS /\ Drained(h, e)

\* Faulty variant: only play ends by the clock, the other phases wait for ACKs.
PhaseStepWaits(h, e, seed) ==
    CASE h.phase = "preparing" /\ AllPrepared(h) /\ Drained(h, e) ->
            [h EXCEPT !.phase = "countdown", !.deadline = COUNTDOWN_MS]
      [] h.phase = "countdown" /\ h.deadline <= 0 /\ Drained(h, e) -> StartPlaying(h)
      [] h.phase = "playing" /\ h.settle = 0 -> FinishRound(h)
      [] h.phase = "round-result" /\ h.deadline <= 0 /\ Drained(h, e) /\ h.finish ->
            [h EXCEPT !.phase = "results"]
      [] NewRoundDue(h, e) -> BeginRound(h, seed)
      [] OTHER -> h

\* What a tick does to the phase between its two flushes.
PhaseStep(h, e, seed) ==
    CASE h.phase = "preparing" /\ AllPrepared(h) /\ Drained(h, e) ->
            [h EXCEPT !.phase = "countdown", !.deadline = COUNTDOWN_MS]
      [] h.phase = "preparing" /\ ~(AllPrepared(h) /\ Drained(h, e)) /\ h.deadline <= 0 ->
            Abort(Drop, h)
      [] h.phase \in {"countdown", "round-result"} /\ h.deadline <= -PREPARE_MS ->
            Abort(Drop, h)
      [] h.phase = "countdown" /\ h.deadline \in -PREPARE_MS + 1 .. 0 /\ Drained(h, e) ->
            StartPlaying(h)
      [] h.phase = "playing" /\ h.settle = 0 -> FinishRound(h)
      [] h.phase = "round-result" /\ h.deadline \in -PREPARE_MS + 1 .. 0
            /\ Drained(h, e) /\ h.finish -> [h EXCEPT !.phase = "results"]
      [] NewRoundDue(h, e) -> BeginRound(h, seed)
      [] OTHER -> h

\* The scan for endpoints that report an error comes before the first flush.
ScanSeat(s, i) ==
    IF s.h.connected[i] /\ s.e[i].error THEN [s EXCEPT !.h = Disconnect(s.h, i)] ELSE s
Scanned(s) ==
    LET seen[k \in 0..N] == IF k = 0 THEN s ELSE ScanSeat(seen[k - 1], k - 1)
    IN  seen[N]

-----------------------------------------------------------------------------
EmptySeats(v) == [s \in Seats |-> v]

\* A toy that was told nothing, or one the match has given up.
Untold == [round |-> 0, seed |-> 0, playing |-> FALSE,
           mask |-> {}, garbage |-> 0, final |-> Unset]

Init ==
    /\ match = [phase |-> "lobby", round |-> 0, seed |-> 0,
                wins |-> EmptySeats(0), alive |-> {}, winner |-> Unset,
                deadline |-> 0, settle |-> Unset, finish |-> FALSE,
                connected |-> EmptySeats(TRUE), prepared |-> EmptySeats(FALSE),
                target |-> EmptySeats(0), garbageId |-> EmptySeats(0),
                outbox |-> EmptySeats(<<>>)]
    \* Lobby traffic may still await its ACK when the owner starts.
    /\ endpoint = [s \in Seats |-> [error |-> FALSE, queue |-> IF s \in Chatty THEN <<BEAT>> ELSE <<>>]]
    /\ toy = EmptySeats(Untold)

Start ==
    /\ match.phase = "lobby"
    /\ \A s \in Seats : match.connected[s] /\ ~endpoint[s].error
    /\ \E seed \in SEEDS : match' = BeginRound(match, seed)
    /\ UNCHANGED <<endpoint, toy>>

\* One timer tick of the hub for this room: the match's tick, then the hub
\* stops the endpoint of every seat the match has given up.
Ticked(seed) ==
    LET flushed == Flush(Scanned([h |-> match, e |-> endpoint]))
    IN  Flush([flushed EXCEPT !.h = PhaseStep(flushed.h, flushed.e, seed)])

NextRoundDue == LET s == Flush(Scanned([h |-> match, e |-> endpoint])) IN NewRoundDue(s.h, s.e)

Tick ==
    /\ NextRoundDue => match.round < MaxRounds
    /\ \E done \in {Ticked(seed) : seed \in SEEDS} :
          /\ match' = done.h
          /\ endpoint' = [s \in Seats |-> IF done.h.connected[s] THEN done.e[s] ELSE Stopped]
          /\ toy' = [s \in Seats |-> IF done.h.connected[s] THEN toy[s] ELSE Untold]

\* Whether a tick has anything to do.
TickDue ==
    /\ NextRoundDue => match.round < MaxRounds
    /\ \E seed \in SEEDS :
          LET done == Ticked(seed)
          IN  \/ done.h # match
              \/ \E s \in Seats : IF done.h.connected[s] THEN done.e[s] # endpoint[s]
                                 ELSE endpoint[s] # Stopped \/ toy[s] # Untold

\* A unit of time passes, as far as the phase can tell: a deadline is not read
\* while playing, and preparing does not look past it.
Clock ==
    \/ /\ match.phase \in {"preparing", "countdown", "round-result"}
       /\ match.deadline > (IF match.phase = "preparing" THEN 0 ELSE -PREPARE_MS)
       /\ match' = [match EXCEPT !.deadline = @ - 1]
       /\ UNCHANGED <<endpoint, toy>>
    \/ /\ match.phase = "playing" /\ match.settle > 0
       /\ match' = [match EXCEPT !.settle = @ - 1]
       /\ UNCHANGED <<endpoint, toy>>

\* The browser, the adapter or the endpoint of a seat is lost: the endpoint
\* stops and the match hears of it in the same call.
Detach(i) ==
    /\ i \in Leavers /\ match.phase # "lobby" /\ match.connected[i]
    /\ match' = Disconnect(match, i)
    /\ endpoint' = [endpoint EXCEPT ![i] = Stopped]
    /\ toy' = [toy EXCEPT ![i] = Untold]

-----------------------------------------------------------------------------
(* The toy behind an endpoint (external), and its messages as the match     *)
(* receives them.                                                           *)

Told(t, m) ==
    CASE m.type = "START" -> [t EXCEPT !.round = m.round, !.seed = m.seed,
                                       !.playing = FALSE, !.mask = Seats, !.garbage = 0]
      [] m.type = "GO" -> [t EXCEPT !.playing = TRUE]
      [] m.type = "ALIVE" -> [t EXCEPT !.mask = m.mask]
      [] m.type = "GARBAGE" -> [t EXCEPT !.garbage = m.id]
      [] m.type = "RESULT" -> [t EXCEPT !.playing = FALSE]
      [] m.type = "FINAL" -> [t EXCEPT !.playing = FALSE, !.final = m.winner]
      [] m.type = "ABORT" -> [t EXCEPT !.playing = FALSE]
      [] OTHER -> t

\* What a toy may know when it speaks: it may have taken the head of its
\* queue while the ACK is still on its way.
Knows(i) ==
    {toy[i]} \cup {Told(toy[i], endpoint[i].queue[k]) : k \in {1} \cap DOMAIN endpoint[i].queue}

Heard(i) == match.connected[i] /\ match.phase \notin {"lobby", "aborted", "results"}
InPlay(i) ==
    /\ Heard(i) /\ match.phase = "playing" /\ i \in match.alive
    /\ \E t \in Knows(i) : t.round = match.round /\ t.playing

\* LEAVE or RETURN: the match gives the seat up, the hub's next tick its endpoint.
ReceiveLeave(i) ==
    /\ i \in Leavers /\ Heard(i)
    /\ match' = Disconnect(match, i)
    /\ UNCHANGED <<endpoint, toy>>

ReceiveReady(i) ==
    /\ Heard(i) /\ match.phase = "preparing"
    /\ \E t \in Knows(i) : t.round = match.round /\ t.seed = match.seed
    /\ match' = [match EXCEPT !.prepared[i] = TRUE]
    /\ UNCHANGED <<endpoint, toy>>

ReceiveTopOut(i) ==
    /\ InPlay(i)
    /\ match' = Eliminate(Drop, match, i)
    /\ UNCHANGED <<endpoint, toy>>

\* One recipient per attack, and the attacker's aim moves past it.
Aimed(h, i, t) == [h EXCEPT !.target[i] = (t + 1) % N]
Hit(h, t) == [h EXCEPT !.garbageId[t] = @ + 1]
ReceiveAttack(i) ==
    /\ i \in Attackers /\ InPlay(i)
    /\ LET t == NextTarget(match, i)
           aimed == Aimed(match, i, t)
           hit == Hit(aimed, t)
       IN  /\ t # Unset
           /\ match' = IF match.garbageId[t] = GARBAGE_LIMIT THEN Disconnect(aimed, t)
                       ELSE Queue(Drop, hit, t, GARBAGE(hit, hit.garbageId[t]))
    /\ UNCHANGED <<endpoint, toy>>

-----------------------------------------------------------------------------
(* The endpoint (external to this module).                                  *)

\* The toy acknowledges the head of the queue, which makes room for the next.
\* (What it hears of an aborted match is left out.)
Acked(i) ==
    /\ endpoint[i].queue # <<>> /\ match.phase # "aborted"
    /\ toy' = [toy EXCEPT ![i] = Told(@, Head(endpoint[i].queue))]
    /\ endpoint' = [endpoint EXCEPT ![i].queue = Tail(@)]
    /\ UNCHANGED match

\* An idle endpoint sends a heartbeat through the same queue.
Heartbeat(i) ==
    /\ i \in Chatty /\ ~endpoint[i].error /\ endpoint[i].queue = <<>>
    /\ endpoint' = [endpoint EXCEPT ![i].queue = <<BEAT>>]
    /\ UNCHANGED <<match, toy>>

Next ==
    \/ Start \/ Tick \/ Clock
    \/ \E i \in Seats :
          \/ Detach(i) \/ ReceiveLeave(i) \/ ReceiveReady(i)
          \/ ReceiveTopOut(i) \/ ReceiveAttack(i)
          \/ Acked(i) \/ Heartbeat(i)

Spec == Init /\ [][Next]_vars

\* The hub's interval timer keeps firing and time passes; toys owe nothing.
\* The first conjunct is WF_vars(Tick) with ENABLED written out as TickDue.
FairSpec ==
    /\ Spec
    /\ []<>~TickDue \/ []<><<Tick>>_vars
    /\ WF_vars(Clock)

-----------------------------------------------------------------------------
(* Properties                                                               *)

\* Every variable keeps its shape.
TypeOK ==
    /\ match.phase \in Phases /\ match.round \in 0..MaxRounds
    /\ match.seed \in SEEDS \cup {0}
    /\ match.wins \in [Seats -> Nat] /\ match.alive \subseteq Seats
    /\ match.winner \in Seats \cup {TIE, Unset}
    /\ match.settle \in {Unset} \cup 0..SETTLE_MS
    /\ match.connected \in [Seats -> BOOLEAN] /\ match.prepared \in [Seats -> BOOLEAN]
    /\ match.target \in [Seats -> Seats] /\ match.garbageId \in [Seats -> 0..GARBAGE_LIMIT]
    /\ \A s \in Seats : /\ Len(match.outbox[s]) <= OUTBOX_LIMIT
                        /\ Pending(endpoint, s) <= HEADROOM + 1

\* The settlement window is open exactly when at most one seat lives.  Open
\* too early, a round ends with two players alive; never opened, it never ends.
SettlementArmed ==
    match.phase = "playing" =>
        (match.settle # Unset <=> Cardinality(match.alive) <= 1)

\* The start barrier: as soon as one toy plays a round, every connected toy
\* holds that round's START with the same seed and has confirmed it.
StartBarrier ==
    \A i \in Connected(match) :
        (\E t \in Knows(i) : t.playing /\ t.round = match.round) =>
            \A j \in Connected(match) :
                /\ toy[j].round = match.round /\ toy[j].seed = match.seed
                /\ match.prepared[j]

\* A round begins for all or for none, and is decided when it should be.
RoundHolds == TypeOK /\ StartBarrier /\ SettlementArmed

\* What is on its way to a toy, in the order it will hear of it.
Underway(i) == endpoint[i].queue \o match.outbox[i]

\* No attack is lost, doubled or reordered on its way to a connected seat: the
\* ids a toy has still to hear of follow the last one it heard of, one by one,
\* up to the last one allotted.
GarbageAccounted ==
    \A i \in Connected(match) : toy[i].round = match.round =>
        LET way == Underway(i)
            at == {k \in DOMAIN way : way[k].type = "GARBAGE" /\ way[k].round = match.round}
        IN  /\ {way[k].id : k \in at} = toy[i].garbage + 1 .. match.garbageId[i]
            /\ \A j, k \in at : j < k => way[j].id < way[k].id

\* Once everything sent has been acknowledged, every connected toy shows the
\* survivors the host counts (coalescing ALIVE loses nothing).
MaskAgreement ==
    match.phase = "playing" /\ Drained(match, endpoint) =>
        \A i \in Connected(match) : toy[i].mask = match.alive

\* Whatever a mask that was overtaken leaves behind, it is right of everybody who
\* is still there: once everything sent has been acknowledged, no connected
\* player who is out is shown as living and nobody who lives as out.
LivingShown ==
    match.phase = "playing" /\ Drained(match, endpoint) =>
        \A i \in Connected(match) : toy[i].mask \cap Connected(match) = match.alive

\* After the match every connected toy names the host's winner.  Where two wins
\* had decided it already it may still name the champion: the FINAL that says so
\* can be overtaken by the one of a forfeit it caused.
FinalAgreement ==
    match.phase = "results" /\ Drained(match, endpoint) =>
        \A i \in Connected(match) :
            \/ toy[i].final = match.winner
            \/ toy[i].final \in Seats /\ Champion(match, toy[i].final)

\* No toy can hold up the match: preparation and countdown end, by going on or
\* by giving up, a decided round is closed, and its result is not shown for
\* ever, whatever the toys do or fail to do.
PhasesEnd ==
    /\ []<>(match.phase \notin {"preparing", "countdown"})
    /\ []<>~(match.phase = "playing" /\ Cardinality(match.alive) <= 1)
    /\ []<>~(match.phase = "round-result" /\ match.round < MaxRounds)

-----------------------------------------------------------------------------
\* The match implements the rules it promises, however its calls nest.
Rules == INSTANCE MatchRules WITH
    Players <- Seats, Tied <- TIE, None <- Unset,
    phase <- match.phase, round <- match.round, connected <- Connected(match),
    alive <- match.alive, wins <- match.wins, winner <- match.winner,
    finish <- match.finish
ImplementsRules == Rules!Spec

=============================================================================
