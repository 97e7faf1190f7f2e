------------------------------ MODULE Presence ------------------------------
(***************************************************************************)
(* Who is shown online.  The gateway's map of sockets and its connect and  *)
(* disconnect handlers (websocket.gateway.ts), the HTTP heartbeat          *)
(* (presence.controller.ts), the two Redis keys of a user with their       *)
(* expiry, the debounced users.last_seen_at and the sweep of every minute  *)
(* (presence.service.ts, presence.sweeper.ts), and what a dashboard that   *)
(* subscribed to a user was last told.                                     *)
(*                                                                         *)
(* The handlers are asynchronous: each await is a step boundary.  Time is  *)
(* counted in ticks; timers are what is left of them.  A handler is over   *)
(* before the second tick after its start.                                 *)
(***************************************************************************)
EXTENDS Naturals, FiniteSets

CONSTANTS
  User, Socket,
  Slot,           \* bound: handlers of one user at the same time
  Ttl,            \* PRESENCE_TTL_SECONDS
  Debounce,       \* DB_DEBOUNCE_SECONDS
  Fallback,       \* FALLBACK_ONLINE_WINDOW_MS
  SweepPeriod,    \* CronExpression.EVERY_MINUTE
  Window,         \* how far back the sweep looks: two minutes
  MaxTroubles     \* bound: crashes, outages of Redis and failed updates

ASSUME PresenceAssumption ==
  /\ {Ttl, Debounce, SweepPeriod, Window} \subseteq Nat \ {0}
  /\ {Fallback, MaxTroubles} \subseteq Nat

VARIABLES
  sockets,   \* connectedClients: the open sockets of each user
  key,       \* Redis: ticks left of presence:user:<id>:source:<source>
  gate,      \* Redis: ticks left of presence:lastwrite:user:<id>
  memory,    \* ticks left of the entry in inMemoryLastWrite
  healthy,   \* PresenceRedis.isHealthy
  age,       \* ticks since users.last_seen_at; Window + 1 is older, or null
  call,      \* the calls of markOnline and markOffline in progress
  shown,     \* what the subscribed dashboard was told last
  next,      \* ticks to the next sweep
  sweeping,  \* users the running sweep has still to look at
  troubles,
  lost,      \* users with an update of last_seen_at that never happened
  calm       \* users whose last event came from a call nothing interfered with

redis == <<key, gate, healthy>>
vars == <<sockets, redis, memory, age, call, shown, next, sweeping, troubles, lost, calm>>

Source == {"ws", "http"}

Call == [pc : {"idle", "probe", "set", "write", "online", "del", "check", "offline"},
         source : Source, was : BOOLEAN, late : BOOLEAN, alone : BOOLEAN]
Idle == [pc |-> "idle", source |-> "ws", was |-> FALSE, late |-> FALSE, alone |-> FALSE]

Init ==
  /\ sockets = [u \in User |-> {}]
  /\ key = [u \in User |-> [s \in Source |-> 0]]
  /\ gate = [u \in User |-> 0]
  /\ memory = [u \in User |-> 0]
  /\ healthy = TRUE
  /\ age = [u \in User |-> Window + 1]
  /\ call = [u \in User |-> [c \in Slot |-> Idle]]
  /\ shown = [u \in User |-> FALSE]
  /\ next = SweepPeriod
  /\ sweeping = {}
  /\ troubles = 0
  /\ lost = {}
  /\ calm = User

-----------------------------------------------------------------------------
Live(u) == \E s \in Source : key[u][s] > 0

(* hasAnySource: FALSE when Redis cannot be asked. *)
HasAnySource(u) == healthy /\ Live(u)

Busy(u) == \E c \in Slot : call[u][c].pc # "idle"

Tell(u, online) == shown' = [shown EXCEPT ![u] = online]

(* A call of u that starts beside another one disturbs both; without Redis a *)
(* call cannot tell.                                                          *)
Start(u, pc, source) ==
  \E c \in Slot :
    /\ call[u][c].pc = "idle"
    /\ call' = [call EXCEPT ![u] = [x \in Slot |->
         IF x = c THEN [Idle EXCEPT !.pc = pc, !.source = source,
                             !.alone = healthy /\ ~Busy(u)]
         ELSE [call[u][x] EXCEPT !.alone = FALSE]]]
    /\ calm' = IF Busy(u) THEN calm \ {u} ELSE calm

At(u, c, pc) == call[u][c].pc = pc
Put(u, c, x) == call' = [call EXCEPT ![u] = [call[u] EXCEPT ![c] = x]]
Goto(u, c, pc) == Put(u, c, [call[u][c] EXCEPT !.pc = pc])
End(u, c) == Put(u, c, Idle)

-----------------------------------------------------------------------------
(* Entry points.                                                            *)
Connect(u, s) ==
  /\ s \notin sockets[u]
  /\ sockets' = [sockets EXCEPT ![u] = @ \cup {s}]
  /\ Start(u, "probe", "ws")
  /\ UNCHANGED <<redis, memory, age, shown, next, sweeping, troubles, lost>>

(* Presence is cleared only when the user has no other socket here. *)
Disconnect(u, s) ==
  /\ s \in sockets[u]
  /\ sockets' = [sockets EXCEPT ![u] = @ \ {s}]
  /\ IF sockets[u] = {s} THEN Start(u, "del", "ws") ELSE UNCHANGED <<call, calm>>
  /\ UNCHANGED <<redis, memory, age, shown, next, sweeping, troubles, lost>>

(* POST heartbeat and GET me. *)
Heartbeat(u) ==
  /\ Start(u, "probe", "http")
  /\ UNCHANGED <<sockets, redis, memory, age, shown, next, sweeping, troubles, lost>>

-----------------------------------------------------------------------------
(* markOnline: probe, set, write, and online on a transition.               *)

\* Mutant: the key is set before the transition is looked for.
ProbeAfterSet(u, c) ==
  /\ At(u, c, "probe")
  /\ Put(u, c, [call[u][c] EXCEPT !.was = healthy, !.pc = "set"])
  /\ UNCHANGED <<sockets, redis, memory, age, shown, next, sweeping, troubles, lost, calm>>

Probe(u, c) ==
  /\ At(u, c, "probe")
  /\ Put(u, c, [call[u][c] EXCEPT !.was = HasAnySource(u), !.pc = "set"])
  /\ UNCHANGED <<sockets, redis, memory, age, shown, next, sweeping, troubles, lost, calm>>

Keyed(u, s, ticks) == [key EXCEPT ![u] = [key[u] EXCEPT ![s] = ticks]]

SetKey(u, c) ==
  /\ At(u, c, "set")
  /\ key' = IF healthy THEN Keyed(u, call[u][c].source, Ttl) ELSE key
  /\ Goto(u, c, "write")
  /\ UNCHANGED <<sockets, gate, healthy, memory, age, shown, next, sweeping, troubles, lost, calm>>

(* The debounce gate: in Redis, or in memory when Redis is down. *)
Allowed(u) == IF healthy THEN gate[u] = 0 ELSE memory[u] = 0

\* Mutant: the marker lives as long as a presence key.
CloseGateForTtl(u) == gate' = [gate EXCEPT ![u] = Ttl] /\ UNCHANGED memory

CloseGate(u) ==
  IF healthy
  THEN gate' = [gate EXCEPT ![u] = Debounce] /\ UNCHANGED memory
  ELSE memory' = [memory EXCEPT ![u] = Debounce] /\ UNCHANGED gate

(* The gate stays closed when the update fails. *)
WriteLastSeen(u, c) ==
  /\ At(u, c, "write")
  /\ IF call[u][c].was THEN End(u, c) ELSE Goto(u, c, "online")
  /\ \/ ~Allowed(u) /\ UNCHANGED <<gate, memory, age, troubles, lost>>
     \/ /\ Allowed(u) /\ CloseGate(u)
        /\ age' = [age EXCEPT ![u] = 0]
        /\ lost' = lost \ {u}
        /\ UNCHANGED troubles
     \/ /\ Allowed(u) /\ CloseGate(u)
        /\ troubles < MaxTroubles /\ troubles' = troubles + 1
        /\ lost' = lost \cup {u}
        /\ UNCHANGED age
  /\ UNCHANGED <<sockets, key, healthy, shown, next, sweeping, calm>>

(* An event of a call that ran alone settles what is shown. *)
Emit(u, c, pc, online) ==
  /\ At(u, c, pc)
  /\ Tell(u, online)
  /\ End(u, c)
  /\ calm' = IF call[u][c].alone THEN calm \cup {u} ELSE calm
  /\ UNCHANGED <<sockets, redis, memory, age, next, sweeping, troubles, lost>>

EmitOnline(u, c) == Emit(u, c, "online", TRUE)

(* markOffline: del, check, and offline when no source is left. *)
DelKey(u, c) ==
  /\ At(u, c, "del")
  /\ key' = IF healthy THEN Keyed(u, call[u][c].source, 0) ELSE key
  /\ Goto(u, c, "check")
  /\ UNCHANGED <<sockets, gate, healthy, memory, age, shown, next, sweeping, troubles, lost, calm>>

CheckSources(u, c) ==
  /\ At(u, c, "check")
  /\ IF HasAnySource(u) THEN End(u, c) ELSE Goto(u, c, "offline")
  /\ UNCHANGED <<sockets, redis, memory, age, shown, next, sweeping, troubles, lost, calm>>

EmitOffline(u, c) == Emit(u, c, "offline", FALSE)

(* getPresenceBulk for a dashboard that is opened: the keys, or last_seen_at *)
(* when Redis is down.                                                        *)
Look(u) ==
  /\ Tell(u, IF healthy THEN Live(u) ELSE age[u] <= Fallback)
  /\ UNCHANGED <<sockets, redis, memory, age, call, next, sweeping, troubles, lost, calm>>

-----------------------------------------------------------------------------
(* The sweep.                                                               *)
BeginSweep ==
  /\ next = 0
  /\ next' = SweepPeriod
  /\ sweeping' = IF healthy THEN {u \in User : age[u] <= Window} ELSE {}
  /\ UNCHANGED <<sockets, redis, memory, age, call, shown, troubles, lost, calm>>

(* A user without keys is told to be offline; a failing EXISTS skips him. *)
SweepUser(u) ==
  /\ u \in sweeping
  /\ sweeping' = sweeping \ {u}
  /\ IF healthy /\ ~Live(u) THEN Tell(u, FALSE) ELSE UNCHANGED shown
  /\ UNCHANGED <<sockets, redis, memory, age, call, next, troubles, lost, calm>>

-----------------------------------------------------------------------------
(* Time and trouble.                                                        *)
Less(n) == IF n = 0 THEN 0 ELSE n - 1
Older(n) == IF n > Window THEN n ELSE n + 1

(* A key that lapses under a call disturbs it. *)
Lapses(u) == Live(u) /\ \A s \in Source : key[u][s] <= 1

\* Mutant: the marker of the last write is set without an expiry.
MarkerWithoutExpiry ==
  [u \in User |-> gate[u]]

GateAfterTick == [u \in User |-> Less(gate[u])]

Tick ==
  /\ next > 0 /\ sweeping = {}
  /\ \A u \in User, c \in Slot : ~call[u][c].late
  /\ next' = next - 1
  /\ key' = [u \in User |-> [s \in Source |-> Less(key[u][s])]]
  /\ gate' = GateAfterTick
  /\ memory' = [u \in User |-> Less(memory[u])]
  /\ age' = [u \in User |-> Older(age[u])]
  /\ call' = [u \in User |-> [c \in Slot |->
       IF call[u][c].pc = "idle" THEN call[u][c]
       ELSE [call[u][c] EXCEPT !.late = TRUE, !.alone = @ /\ ~Lapses(u)]]]
  /\ calm' = {u \in calm : ~(Busy(u) /\ Lapses(u))}
  /\ UNCHANGED <<sockets, healthy, shown, sweeping, troubles, lost>>

Trouble == troubles < MaxTroubles /\ troubles' = troubles + 1

DisturbAll ==
  /\ call' = [u \in User |-> [c \in Slot |-> [call[u][c] EXCEPT !.alone = FALSE]]]
  /\ calm' = {}

(* Redis goes away, with or without its data, or comes back. *)
RedisEnds ==
  /\ healthy /\ healthy' = FALSE
  /\ Trouble /\ DisturbAll
  /\ \/ UNCHANGED <<key, gate>>
     \/ /\ key' = [u \in User |-> [s \in Source |-> 0]]
        /\ gate' = [u \in User |-> 0]
  /\ UNCHANGED <<sockets, memory, age, shown, next, sweeping, lost>>

RedisConnects ==
  /\ ~healthy /\ healthy' = TRUE
  /\ DisturbAll
  /\ UNCHANGED <<sockets, key, gate, memory, age, shown, next, sweeping, troubles, lost>>

(* The process dies: sockets, calls, the memory gate and the sweep with it. *)
Crash ==
  /\ Trouble
  /\ sockets' = [u \in User |-> {}]
  /\ memory' = [u \in User |-> 0]
  /\ call' = [u \in User |-> [c \in Slot |-> Idle]]
  /\ sweeping' = {}
  /\ calm' = {u \in calm : ~Busy(u)}
  /\ lost' = lost \cup {u \in User : \E c \in Slot : At(u, c, "write")}
  /\ UNCHANGED <<redis, age, shown, next>>

-----------------------------------------------------------------------------
CallStep(u, c) ==
  \/ Probe(u, c) \/ SetKey(u, c) \/ WriteLastSeen(u, c) \/ EmitOnline(u, c)
  \/ DelKey(u, c) \/ CheckSources(u, c) \/ EmitOffline(u, c)

ClientStep(u) ==
  \/ Heartbeat(u) \/ Look(u)
  \/ \E s \in Socket : Connect(u, s) \/ Disconnect(u, s)

Next ==
  \/ \E u \in User : ClientStep(u) \/ SweepUser(u) \/ \E c \in Slot : CallStep(u, c)
  \/ BeginSweep \/ Tick \/ RedisEnds \/ RedisConnects \/ Crash

Spec == Init /\ [][Next]_vars

-----------------------------------------------------------------------------
(* Timers, sets and calls are of their types. *)
TypeOK ==
  /\ sockets \in [User -> SUBSET Socket]
  /\ key \in [User -> [Source -> 0..Ttl]]
  /\ gate \in [User -> 0..Debounce] /\ memory \in [User -> 0..Debounce]
  /\ healthy \in BOOLEAN
  /\ age \in [User -> 0..(Window + 1)]
  /\ call \in [User -> [Slot -> Call]]
  /\ shown \in [User -> BOOLEAN]
  /\ next \in 0..SweepPeriod
  /\ sweeping \in SUBSET User /\ lost \in SUBSET User /\ calm \in SUBSET User
  /\ troubles \in 0..MaxTroubles

(* A user with a live key whose calls have ended is shown online, if the     *)
(* last call that told so was not disturbed by another one, by a key that    *)
(* lapsed under it or by Redis: no online event is forgotten because a       *)
(* transition was overlooked.                                                *)
CalmUsersShown == \A u \in calm : ~Busy(u) /\ Live(u) => shown[u]

(* users.last_seen_at, on which the sweep and the fallback rely, is at most  *)
(* one debounce older than the mark that set a live key, whichever of the    *)
(* two gates was asked, unless an update was lost.                           *)
LastSeenCoversKeys ==
  \A u \in User \ lost, s \in Source :
    key[u][s] > 0 /\ ~(\E c \in Slot : At(u, c, "write"))
    => age[u] + key[u][s] <= Ttl + Debounce

(* What makes it inductive: a closed gate witnesses a recent update. *)
GatesWitness ==
  \A u \in User \ lost :
    /\ gate[u] > 0 => age[u] + gate[u] <= Debounce
    /\ memory[u] > 0 => age[u] + memory[u] <= Debounce

PresenceInvariant == TypeOK /\ LastSeenCoversKeys /\ GatesWitness

=============================================================================
