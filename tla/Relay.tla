------------------------------- MODULE Relay -------------------------------
(***************************************************************************)
(* One code of the code-only relay: the row that stands for it in the       *)
(* session store (relay-server/src/sessions.ts), the pair of sockets between *)
(* which bytes pass (relay.ts), and the routes that choose between this     *)
(* store and the lobby's rooms (server.ts).                                 *)
(*                                                                          *)
(* The row outlives a crash of the server, everything else is memory.       *)
(* Handlers run one at a time.  Bytes are counted, not followed, and a      *)
(* socket that was replaced or lost may still deliver its close.            *)
(***************************************************************************)
EXTENDS Integers

CONSTANTS
    Sockets,      \* connections there may be, one after the other
    None,         \* undefined
    TTL,          \* ttlMs: 600000
    TOUCH_MS,     \* 60000
    INTERVAL_MS,  \* counterFlushMs: 1000, and by how much its timer may be late
    MaxNow,       \* bound of the model: how long it is looked at
    MaxBytes      \* bound of the model: bytes in one direction

\* A room in use is touched before its time is up.
ASSUME RelayAssumption ==
    /\ None \notin Sockets
    /\ TTL \in Nat /\ TOUCH_MS \in Nat \ {0} /\ INTERVAL_MS \in Nat
    /\ MaxNow \in Nat /\ MaxBytes \in Nat
    /\ TOUCH_MS + INTERVAL_MS <= TTL + 1

VARIABLES
    lobbyRoom,    \* is the code a room of the lobby?
    row,          \* the session: "none", "active" or "ended"
    last,         \* its last_active_at
    bytes,        \* its bytes_ab and bytes_ba, by sender
    slot,         \* the pair: who has role a, who has role b
    state,        \* of each socket
    notice,       \* what it was last told of its peer
    pending,      \* bytes counted, not yet in the row
    lastTouchAt,
    sinceFlush,   \* since the interval timer of the pair last fired
    now,
    carried, lost \* history: bytes passed on; counts that went in a crash

vars == <<lobbyRoom, row, last, bytes, slot, state, notice, pending, lastTouchAt,
          sinceFlush, now, carried, lost>>
ledger == <<bytes, pending, carried, lost>>

Roles == {"a", "b"}
OtherRole(r) == IF r = "a" THEN "b" ELSE "a"
Zero == [r \in Roles |-> 0]
Plus(f, g) == [r \in Roles |-> f[r] + g[r]]

Pair == \E r \in Roles : slot[r] # None
Open(r) == slot[r] # None /\ state[slot[r]] = "open"

RelayInit ==
    /\ lobbyRoom = FALSE /\ row = "none" /\ last = 0 /\ bytes = Zero
    /\ slot = [r \in Roles |-> None]
    /\ state = [w \in Sockets |-> "new"] /\ notice = [w \in Sockets |-> "none"]
    /\ pending = Zero /\ lastTouchAt = 0 /\ sinceFlush = 0 /\ now = 0
    /\ carried = Zero /\ lost = Zero

-----------------------------------------------------------------------------
(* The store                                                                *)

Touched == last' = IF row = "active" THEN now ELSE last

Overdue == row = "active" /\ last < now - TTL
IsActive == row = "active" /\ last >= now - TTL

\* Codes are not used again: rows stay, and a code of the lobby is passed over.
Create ==
    /\ row = "none" /\ ~lobbyRoom
    /\ row' = "active" /\ last' = now
    /\ UNCHANGED <<lobbyRoom, ledger, slot, state, notice, lastTouchAt, sinceFlush, now>>

\* Any request, for whatever code, expires all rows that are overdue.
Expire ==
    /\ Overdue /\ row' = "ended"
    /\ UNCHANGED <<lobbyRoom, last, ledger, slot, state, notice, lastTouchAt, sinceFlush, now>>

\* Faulty variant: the lobby draws a code without asking the store.
LobbyCreateBlind ==
    /\ ~lobbyRoom /\ lobbyRoom' = TRUE
    /\ UNCHANGED <<row, last, ledger, slot, state, notice, lastTouchAt, sinceFlush, now>>
\* The lobby draws a code that is in neither place.
LobbyCreate ==
    /\ ~lobbyRoom /\ row = "none" /\ lobbyRoom' = TRUE
    /\ UNCHANGED <<row, last, ledger, slot, state, notice, lastTouchAt, sinceFlush, now>>
LobbyClosed ==
    /\ lobbyRoom /\ lobbyRoom' = FALSE
    /\ UNCHANGED <<row, last, ledger, slot, state, notice, lastTouchAt, sinceFlush, now>>

-----------------------------------------------------------------------------
(* Sockets                                                                  *)

\* The route turns a socket away: the code names no active session.
Refuse(w) ==
    /\ state[w] = "new" /\ ~lobbyRoom /\ ~IsActive
    /\ row' = IF Overdue THEN "ended" ELSE row
    /\ state' = [state EXCEPT ![w] = "closed"]
    /\ UNCHANGED <<lobbyRoom, last, ledger, slot, notice, lastTouchAt, sinceFlush, now>>

\* The newcomer has the role from now on; who had it is closed, and its close
\* event is still to come.
Attach(r, w) ==
    /\ state[w] = "new" /\ ~lobbyRoom /\ IsActive
    /\ slot' = [slot EXCEPT ![r] = w]
    /\ state' = [x \in Sockets |-> IF x = w THEN "open"
                                   ELSE IF x = slot[r] THEN "closing" ELSE state[x]]
    /\ notice' = [x \in Sockets |-> IF Open(OtherRole(r)) /\ x \in {w, slot[OtherRole(r)]} THEN "connected"
                                    ELSE notice[x]]
    /\ last' = now /\ lastTouchAt' = now /\ sinceFlush' = IF Pair THEN sinceFlush ELSE 0
    /\ UNCHANGED <<lobbyRoom, row, ledger, now>>

\* Bytes count when they are passed on, from the role's present socket only.
Message(r) ==
    /\ slot[r] # None /\ Open(OtherRole(r)) /\ carried[r] < MaxBytes
    /\ pending' = [pending EXCEPT ![r] = @ + 1]
    /\ carried' = [carried EXCEPT ![r] = @ + 1]
    /\ UNCHANGED <<lobbyRoom, row, last, bytes, lost, slot, state, notice, lastTouchAt, sinceFlush, now>>

\* A client closes its socket, or its line breaks.
ClientCloses(w) ==
    /\ state[w] = "open" /\ state' = [state EXCEPT ![w] = "closing"]
    /\ UNCHANGED <<lobbyRoom, row, last, ledger, slot, notice, lastTouchAt, sinceFlush, now>>

\* Faulty variant: the pair is let go of with what it counted.
GoneUncounted(r, w) ==
    /\ slot[r] = w /\ slot' = [slot EXCEPT ![r] = None]
    /\ notice' = [x \in Sockets |-> IF Open(OtherRole(r)) /\ x = slot[OtherRole(r)] THEN "disconnected"
                                    ELSE notice[x]]
    /\ Touched /\ lastTouchAt' = now
    /\ UNCHANGED <<bytes, pending>>
\* The role's present socket is gone; with the last one the pair goes, and
\* what it counted is put down.
Gone(r, w) ==
    /\ slot[r] = w /\ slot' = [slot EXCEPT ![r] = None]
    /\ notice' = [x \in Sockets |-> IF Open(OtherRole(r)) /\ x = slot[OtherRole(r)] THEN "disconnected"
                                    ELSE notice[x]]
    /\ Touched /\ lastTouchAt' = now
    /\ IF slot[OtherRole(r)] = None
       THEN bytes' = Plus(bytes, pending) /\ pending' = Zero
       ELSE UNCHANGED <<bytes, pending>>
NotPresent(w) ==
    /\ \A r \in Roles : slot[r] # w
    /\ UNCHANGED <<last, bytes, pending, slot, notice, lastTouchAt>>
\* A socket has its close event, or an error before it, which is treated alike.
Closed(w) ==
    /\ state[w] = "closing"
    /\ \E s \in {"closing", "closed"} : state' = [state EXCEPT ![w] = s]
    /\ NotPresent(w) \/ \E r \in Roles : Gone(r, w)
    /\ UNCHANGED <<lobbyRoom, row, carried, lost, sinceFlush, now>>

-----------------------------------------------------------------------------
(* Timers and crashes                                                       *)

FlushCounters ==
    /\ Pair
    /\ IF now - lastTouchAt >= TOUCH_MS THEN Touched /\ lastTouchAt' = now
       ELSE UNCHANGED <<last, lastTouchAt>>
    /\ bytes' = Plus(bytes, pending) /\ pending' = Zero /\ sinceFlush' = 0
    /\ UNCHANGED <<lobbyRoom, row, carried, lost, slot, state, notice, now>>

\* Time passes; the timer of a pair is never later than INTERVAL_MS.
Clock ==
    /\ now < MaxNow /\ (Pair => sinceFlush < INTERVAL_MS)
    /\ now' = now + 1 /\ sinceFlush' = IF Pair THEN sinceFlush + 1 ELSE sinceFlush
    /\ UNCHANGED <<lobbyRoom, row, last, ledger, slot, state, notice, lastTouchAt>>

\* The process dies and is started again.
Crash ==
    /\ lobbyRoom' = FALSE /\ slot' = [r \in Roles |-> None]
    /\ state' = [w \in Sockets |-> IF state[w] = "new" THEN "new" ELSE "closed"]
    /\ pending' = Zero /\ lost' = Plus(lost, pending)
    /\ UNCHANGED <<row, last, bytes, carried, notice, lastTouchAt, sinceFlush, now>>

RelayNext ==
    \/ Create \/ Expire \/ LobbyCreate \/ LobbyClosed \/ FlushCounters \/ Clock \/ Crash
    \/ \E r \in Roles : Message(r)
    \/ \E w \in Sockets : \/ Refuse(w) \/ ClientCloses(w) \/ Closed(w)
                          \/ \E r \in Roles : Attach(r, w)

RelaySpec == RelayInit /\ [][RelayNext]_vars

-----------------------------------------------------------------------------
(* Properties                                                               *)

\* Every variable keeps its shape.
TypeOK ==
    /\ lobbyRoom \in BOOLEAN /\ row \in {"none", "active", "ended"}
    /\ last \in Nat /\ lastTouchAt \in Nat /\ now \in Nat /\ sinceFlush \in Nat
    /\ bytes \in [Roles -> Nat] /\ pending \in [Roles -> Nat]
    /\ carried \in [Roles -> Nat] /\ lost \in [Roles -> Nat]
    /\ slot \in [Roles -> Sockets \cup {None}]
    /\ state \in [Sockets -> {"new", "open", "closing", "closed"}]
    /\ notice \in [Sockets -> {"none", "connected", "disconnected"}]

\* A code names a room of the lobby or a session, never both, although each
\* place draws its codes alone and only one of them survives a crash.
NamesOne == lobbyRoom => row = "none"

\* Each byte passed on is in the row, waits to be, or was lost in a crash, once;
\* and nothing waits without a pair whose timer would put it down.
BytesAccounted ==
    /\ \A r \in Roles : bytes[r] + pending[r] + lost[r] = carried[r]
    /\ Pair \/ pending = Zero

\* A role belongs to a socket that is not known to be gone; and one that is
\* open has its role unless it was replaced: a late close takes nobody else's.
RolesHold ==
    /\ \A r \in Roles : slot[r] # None => state[slot[r]] \in {"open", "closing"}
    /\ \A w \in Sockets : state[w] = "open" => \E r \in Roles : slot[r] = w
    /\ slot["a"] # None => slot["a"] # slot["b"]

\* A client that is there believes its peer there if it is, and if it believes
\* so then the peer's place is at least not known to be empty.
NoticeTrue ==
    \A r \in Roles : Open(r) =>
        /\ Open(OtherRole(r)) => notice[slot[r]] = "connected"
        /\ notice[slot[r]] = "connected" => slot[OtherRole(r)] # None

\* A session somebody uses does not expire under him.
InUseNotExpired == Pair => IsActive

\* A code means one pair, whose roles and notices are those of its sockets.
PairRight == NamesOne /\ RolesHold /\ NoticeTrue

\* The row of a session counts what it carried and stays while it is used.
RowRight == BytesAccounted /\ InUseNotExpired

=============================================================================
