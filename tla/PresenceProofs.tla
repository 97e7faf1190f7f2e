---------------------------- MODULE PresenceProofs ----------------------------
(* The theorems of Presence, for any number of users, sockets and handlers   *)
(* and any lengths of the timers.                                            *)
EXTENDS Presence, TLAPS

\* Steps that touch none of the timers keep the invariant, unless a call that
\* had still to write is forgotten.
LEMMA QuietPresence ==
    ASSUME PresenceInvariant, UNCHANGED <<key, gate, memory, age, lost>>, TypeOK',
           \A u \in User, c \in Slot : call[u][c].pc = "write" => call'[u][c].pc = "write"
    PROVE  PresenceInvariant'
  BY DEF PresenceInvariant, LastSeenCoversKeys, GatesWitness, At

\* The state that one call is put into.
LEMMA PutTyped ==
    ASSUME TypeOK, NEW u \in User, NEW c \in Slot, NEW x \in Call, Put(u, c, x)
    PROVE  /\ call' \in [User -> [Slot -> Call]]
           /\ call'[u][c] = x
           /\ \A v \in User, d \in Slot : v # u \/ d # c => call'[v][d] = call[v][d]
  BY DEF TypeOK, Put

LEMMA GotoTyped ==
    ASSUME TypeOK, NEW u \in User, NEW c \in Slot,
           NEW pc \in {"write", "online", "check", "offline"}, Goto(u, c, pc)
    PROVE  /\ call' \in [User -> [Slot -> Call]]
           /\ call'[u][c].pc = pc
           /\ \A v \in User, d \in Slot : v # u \/ d # c => call'[v][d] = call[v][d]
  <1>1. call[u][c] \in Call
    BY DEF TypeOK
  <1> DEFINE x == [call[u][c] EXCEPT !.pc = pc]
  <1>2. x \in Call /\ x.pc = pc
    BY <1>1 DEF Call
  <1>3. Put(u, c, x)
    BY DEF Goto
  <1> HIDE DEF x
  <1> QED
    BY <1>2, <1>3, PutTyped

LEMMA IdleTyped == Idle \in Call /\ Idle.pc = "idle"
  BY DEF Idle, Call, Source

LEMMA EndTyped ==
    ASSUME TypeOK, NEW u \in User, NEW c \in Slot, End(u, c)
    PROVE  /\ call' \in [User -> [Slot -> Call]]
           /\ call'[u][c].pc = "idle"
           /\ \A v \in User, d \in Slot : v # u \/ d # c => call'[v][d] = call[v][d]
  BY IdleTyped, PutTyped DEF End

\* A call that starts takes an idle slot and moves no other.
LEMMA StartTyped ==
    ASSUME TypeOK, NEW u \in User, NEW pc \in {"probe", "del"}, NEW s \in Source,
           Start(u, pc, s)
    PROVE  /\ call' \in [User -> [Slot -> Call]] /\ calm' \in SUBSET User
           /\ \A v \in User, d \in Slot : call[v][d].pc = "write" => call'[v][d].pc = "write"
  <1>1. PICK c \in Slot :
          /\ call[u][c].pc = "idle"
          /\ call' = [call EXCEPT ![u] = [x \in Slot |->
               IF x = c THEN [Idle EXCEPT !.pc = pc, !.source = s, !.alone = healthy /\ ~Busy(u)]
               ELSE [call[u][x] EXCEPT !.alone = FALSE]]]
          /\ calm' = IF Busy(u) THEN calm \ {u} ELSE calm
    BY DEF Start
  <1>2. [Idle EXCEPT !.pc = pc, !.source = s, !.alone = healthy /\ ~Busy(u)] \in Call
    BY DEF Idle, Call, Source, TypeOK
  <1>3. \A x \in Slot : /\ [call[u][x] EXCEPT !.alone = FALSE] \in Call
                        /\ [call[u][x] EXCEPT !.alone = FALSE].pc = call[u][x].pc
    <2>1. \A x \in Slot : call[u][x] \in Call
      BY DEF TypeOK
    <2> QED
      BY <2>1 DEF Call
  <1>4. call' \in [User -> [Slot -> Call]]
    BY <1>1, <1>2, <1>3 DEF TypeOK
  <1>5. ASSUME NEW v \in User, NEW d \in Slot, call[v][d].pc = "write"
        PROVE  call'[v][d].pc = "write"
    BY <1>1, <1>3, <1>5 DEF TypeOK
  <1> QED
    BY <1>1, <1>4, <1>5 DEF TypeOK

\* Connecting, disconnecting, heartbeats and opening a dashboard.
LEMMA ClientSteps ==
    ASSUME PresenceInvariant, NEW u \in User, ClientStep(u)
    PROVE  PresenceInvariant'
  <1>0. TypeOK
    BY DEF PresenceInvariant
  <1>1. CASE Heartbeat(u)
    <2>1. Start(u, "probe", "http") /\ "http" \in Source
      BY <1>1 DEF Heartbeat, Source
    <2>2. TypeOK'
      BY <1>0, <1>1, <2>1, StartTyped DEF Heartbeat, TypeOK, redis
    <2> QED
      BY <1>0, <1>1, <2>1, <2>2, StartTyped, QuietPresence DEF Heartbeat, redis
  <1>2. CASE Look(u)
    <2>1. shown' \in [User -> BOOLEAN]
      <3>1. PICK b \in BOOLEAN : shown' = [shown EXCEPT ![u] = b]
        <4>1. Live(u) \in BOOLEAN /\ (age[u] <= Fallback) \in BOOLEAN
          BY DEF Live
        <4> QED
          BY <1>2, <4>1 DEF Look, Tell
      <3> QED
        BY <1>0, <3>1 DEF TypeOK
    <2>2. TypeOK'
      BY <1>0, <1>2, <2>1 DEF Look, TypeOK, redis
    <2> QED
      BY <1>2, <2>2, QuietPresence DEF Look, redis
  <1>3. CASE \E s \in Socket : Connect(u, s)
    <2>1. Start(u, "probe", "ws") /\ "ws" \in Source
      BY <1>3 DEF Connect, Source
    <2>2. sockets' \in [User -> SUBSET Socket]
      BY <1>0, <1>3 DEF Connect, TypeOK
    <2>3. TypeOK'
      BY <1>0, <1>3, <2>1, <2>2, StartTyped DEF Connect, TypeOK, redis
    <2> QED
      BY <1>0, <1>3, <2>1, <2>3, StartTyped, QuietPresence DEF Connect, redis
  <1>4. CASE \E s \in Socket : Disconnect(u, s)
    <2>1. sockets' \in [User -> SUBSET Socket]
      BY <1>0, <1>4 DEF Disconnect, TypeOK
    <2>2. CASE Start(u, "del", "ws")
      <3>1. "ws" \in Source
        BY DEF Source
      <3>2. TypeOK'
        BY <1>0, <1>4, <2>1, <2>2, <3>1, StartTyped DEF Disconnect, TypeOK, redis
      <3> QED
        BY <1>0, <1>4, <2>2, <3>1, <3>2, StartTyped, QuietPresence DEF Disconnect, redis
    <2>3. CASE UNCHANGED <<call, calm>>
      <3>1. TypeOK'
        BY <1>0, <1>4, <2>1, <2>3 DEF Disconnect, TypeOK, redis
      <3> QED
        BY <1>4, <2>3, <3>1, QuietPresence DEF Disconnect, redis
    <2> QED
      BY <1>4, <2>2, <2>3 DEF Disconnect
  <1> QED
    BY <1>1, <1>2, <1>3, <1>4 DEF ClientStep

\* What is said to a dashboard.
LEMMA TellTyped ==
    ASSUME TypeOK, NEW u \in User, NEW b \in BOOLEAN, Tell(u, b)
    PROVE  shown' \in [User -> BOOLEAN]
  BY DEF TypeOK, Tell

\* The steps of a call that touch no timer: the probe, the check and the events.
LEMMA QuietCallSteps ==
    ASSUME PresenceInvariant, NEW u \in User, NEW c \in Slot,
           Probe(u, c) \/ CheckSources(u, c) \/ EmitOnline(u, c) \/ EmitOffline(u, c)
    PROVE  PresenceInvariant'
  <1>0. TypeOK /\ call[u][c] \in Call
    BY DEF PresenceInvariant, TypeOK
  <1>1. CASE Probe(u, c)
    <2> DEFINE x == [call[u][c] EXCEPT !.was = HasAnySource(u), !.pc = "set"]
    <2>1. HasAnySource(u) \in BOOLEAN
      BY DEF HasAnySource
    <2>2. x \in Call /\ x.pc = "set"
      BY <1>0, <2>1 DEF Call
    <2>3. Put(u, c, x) /\ call[u][c].pc = "probe"
      BY <1>1 DEF Probe, At
    <2> HIDE DEF x
    <2>4. /\ call' \in [User -> [Slot -> Call]]
          /\ \A v \in User, d \in Slot : call[v][d].pc = "write" => call'[v][d].pc = "write"
      BY <1>0, <2>2, <2>3, PutTyped
    <2>5. TypeOK'
      BY <1>0, <1>1, <2>4 DEF Probe, TypeOK, redis
    <2> QED
      BY <1>1, <2>4, <2>5, QuietPresence DEF Probe, redis
  <1>2. CASE CheckSources(u, c)
    <2>1. call[u][c].pc = "check" /\ (End(u, c) \/ Goto(u, c, "offline"))
      BY <1>2 DEF CheckSources, At
    <2>2. /\ call' \in [User -> [Slot -> Call]]
          /\ \A v \in User, d \in Slot : call[v][d].pc = "write" => call'[v][d].pc = "write"
      BY <1>0, <2>1, EndTyped, GotoTyped
    <2>3. TypeOK'
      BY <1>0, <1>2, <2>2 DEF CheckSources, TypeOK, redis
    <2> QED
      BY <1>2, <2>2, <2>3, QuietPresence DEF CheckSources, redis
  <1>3. ASSUME NEW pc \in {"online", "offline"}, NEW b \in BOOLEAN, Emit(u, c, pc, b)
        PROVE  PresenceInvariant'
    <2>1. call[u][c].pc = pc /\ End(u, c) /\ Tell(u, b)
      BY <1>3 DEF Emit, At
    <2>2. /\ call' \in [User -> [Slot -> Call]]
          /\ \A v \in User, d \in Slot : call[v][d].pc = "write" => call'[v][d].pc = "write"
      BY <1>0, <2>1, EndTyped
    <2>3. calm' \in SUBSET User
      BY <1>0, <1>3 DEF Emit, TypeOK
    <2>4. TypeOK'
      BY <1>0, <1>3, <2>1, <2>2, <2>3, TellTyped DEF Emit, TypeOK, redis
    <2> QED
      BY <1>3, <2>2, <2>4, QuietPresence DEF Emit, redis
  <1> QED
    BY <1>1, <1>2, <1>3 DEF EmitOnline, EmitOffline

\* The keys change: a key that is set has its call about to write.
LEMMA KeySteps ==
    ASSUME PresenceInvariant, NEW u \in User, NEW c \in Slot, SetKey(u, c) \/ DelKey(u, c)
    PROVE  PresenceInvariant'
  <1>0. /\ TypeOK /\ call[u][c] \in Call /\ call[u][c].source \in Source
        /\ key[u] \in [Source -> 0..Ttl] /\ Ttl \in Nat
    BY PresenceAssumption DEF PresenceInvariant, TypeOK, Call
  <1>1. PICK pc \in {"write", "check"}, ticks \in {0, Ttl} :
          /\ Goto(u, c, pc) /\ call[u][c].pc # "write"
          /\ key' = IF healthy THEN Keyed(u, call[u][c].source, ticks) ELSE key
          /\ ticks # 0 => pc = "write"
          /\ UNCHANGED <<sockets, gate, healthy, memory, age, shown, next, sweeping, troubles, lost, calm>>
    BY DEF SetKey, DelKey, At
  <1>2. /\ call' \in [User -> [Slot -> Call]] /\ call'[u][c].pc = pc
        /\ \A v \in User, d \in Slot : call[v][d].pc = "write" => call'[v][d].pc = "write"
    BY <1>0, <1>1, GotoTyped
  <1>3. /\ key' \in [User -> [Source -> 0..Ttl]]
        /\ \A v \in User, s \in Source : key'[v][s] = key[v][s] \/ (v = u /\ key'[v][s] = ticks)
    <2>1. CASE healthy
      <3>1. key' = Keyed(u, call[u][c].source, ticks)
        BY <1>1, <2>1
      <3>2. ticks \in 0..Ttl
        BY <1>0
      <3> QED
        BY <1>0, <3>1, <3>2 DEF Keyed, TypeOK
    <2>2. CASE ~healthy
      BY <1>0, <1>1, <2>2 DEF TypeOK
    <2> QED
      BY <2>1, <2>2
  <1>4. TypeOK'
    BY <1>0, <1>1, <1>2, <1>3 DEF TypeOK
  <1>5. GatesWitness'
    BY <1>1 DEF PresenceInvariant, GatesWitness
  <1>6. LastSeenCoversKeys'
    <2> SUFFICES ASSUME NEW v \in User, v \notin lost', NEW s \in Source, key'[v][s] > 0,
                        ~(\E d \in Slot : call'[v][d].pc = "write")
                 PROVE  age'[v] + key'[v][s] <= Ttl + Debounce
      BY DEF LastSeenCoversKeys, At
    <2>1. ~(\E d \in Slot : call[v][d].pc = "write")
      BY <1>2
    <2>2. key'[v][s] = key[v][s]
      BY <1>0, <1>1, <1>2, <1>3
    <2> QED
      BY <1>1, <2>1, <2>2 DEF PresenceInvariant, LastSeenCoversKeys, At
  <1> QED
    BY <1>4, <1>5, <1>6 DEF PresenceInvariant

\* The debounced write: a closed gate says that the row is recent, an open one
\* lets the row be written or the user be counted as lost.
LEMMA WriteSteps ==
    ASSUME PresenceInvariant, NEW u \in User, NEW c \in Slot, WriteLastSeen(u, c)
    PROVE  PresenceInvariant'
  <1>0. /\ TypeOK /\ call[u][c] \in Call
        /\ Ttl \in Nat /\ Debounce \in Nat /\ Window \in Nat /\ MaxTroubles \in Nat
        /\ gate \in [User -> 0..Debounce] /\ memory \in [User -> 0..Debounce]
        /\ age \in [User -> 0..(Window + 1)] /\ key \in [User -> [Source -> 0..Ttl]]
    BY PresenceAssumption DEF PresenceInvariant, TypeOK
  <1>1. /\ call' \in [User -> [Slot -> Call]]
        /\ \A v \in User, d \in Slot : v # u \/ d # c => call'[v][d] = call[v][d]
    BY <1>0, EndTyped, GotoTyped DEF WriteLastSeen
  <1>2. UNCHANGED <<sockets, key, healthy, shown, next, sweeping, calm>>
    BY DEF WriteLastSeen
  <1>3. ASSUME NEW v \in User, v # u, ~(\E d \in Slot : call'[v][d].pc = "write")
        PROVE  ~(\E d \in Slot : call[v][d].pc = "write")
    BY <1>1, <1>3
  <1>4. CASE ~Allowed(u) /\ UNCHANGED <<gate, memory, age, troubles, lost>>
    <2>1. TypeOK' /\ GatesWitness'
      BY <1>0, <1>1, <1>2, <1>4 DEF PresenceInvariant, TypeOK, GatesWitness
    <2>2. u \notin lost => age[u] < Debounce
      BY <1>0, <1>4 DEF Allowed, PresenceInvariant, GatesWitness
    <2>3. LastSeenCoversKeys'
      <3> SUFFICES ASSUME NEW v \in User, v \notin lost, NEW s \in Source, key[v][s] > 0,
                          ~(\E d \in Slot : call'[v][d].pc = "write")
                   PROVE  age[v] + key[v][s] <= Ttl + Debounce
        BY <1>2, <1>4 DEF LastSeenCoversKeys, At
      <3>1. CASE v = u
        BY <1>0, <2>2, <3>1
      <3>2. CASE v # u
        BY <1>3, <3>2 DEF PresenceInvariant, LastSeenCoversKeys, At
      <3> QED
        BY <3>1, <3>2
    <2> QED
      BY <2>1, <2>3 DEF PresenceInvariant
  <1>5. ASSUME CloseGate(u)
        PROVE  /\ gate' \in [User -> 0..Debounce] /\ memory' \in [User -> 0..Debounce]
               /\ \A v \in User : v # u => gate'[v] = gate[v] /\ memory'[v] = memory[v]
    <2>1. Debounce \in 0..Debounce
      BY <1>0
    <2> QED
      BY <1>0, <1>5, <2>1 DEF CloseGate
  <1>6. ASSUME CloseGate(u), lost' \in SUBSET User, troubles' \in 0..MaxTroubles,
               age' \in [User -> 0..(Window + 1)],
               u \in lost' \/ age'[u] = 0,
               \A v \in User : v # u => age'[v] = age[v] /\ (v \in lost' <=> v \in lost)
        PROVE  PresenceInvariant'
    <2>1. TypeOK'
      BY <1>0, <1>1, <1>2, <1>5, <1>6 DEF TypeOK
    <2>2. GatesWitness'
      <3> SUFFICES ASSUME NEW v \in User, v \notin lost'
                   PROVE  /\ gate'[v] > 0 => age'[v] + gate'[v] <= Debounce
                          /\ memory'[v] > 0 => age'[v] + memory'[v] <= Debounce
        BY DEF GatesWitness
      <3>1. CASE v = u
        BY <1>0, <1>5, <1>6, <3>1
      <3>2. CASE v # u
        BY <1>5, <1>6, <3>2 DEF PresenceInvariant, GatesWitness
      <3> QED
        BY <3>1, <3>2
    <2>3. LastSeenCoversKeys'
      <3> SUFFICES ASSUME NEW v \in User, v \notin lost', NEW s \in Source, key[v][s] > 0,
                          ~(\E d \in Slot : call'[v][d].pc = "write")
                   PROVE  age'[v] + key[v][s] <= Ttl + Debounce
        BY <1>2 DEF LastSeenCoversKeys, At
      <3>1. CASE v = u
        BY <1>0, <1>6, <3>1
      <3>2. CASE v # u
        BY <1>3, <1>6, <3>2 DEF PresenceInvariant, LastSeenCoversKeys, At
      <3> QED
        BY <3>1, <3>2
    <2> QED
      BY <2>1, <2>2, <2>3 DEF PresenceInvariant
  <1>7. CASE Allowed(u) /\ CloseGate(u) /\ age' = [age EXCEPT ![u] = 0] /\ lost' = lost \ {u}
             /\ UNCHANGED troubles
    BY <1>0, <1>6, <1>7 DEF TypeOK
  <1>8. CASE /\ Allowed(u) /\ CloseGate(u) /\ troubles < MaxTroubles /\ troubles' = troubles + 1
             /\ lost' = lost \cup {u} /\ UNCHANGED age
    BY <1>0, <1>6, <1>8 DEF TypeOK
  <1> QED
    BY <1>4, <1>7, <1>8 DEF WriteLastSeen

\* The sweep only tells.
LEMMA SweepSteps ==
    ASSUME PresenceInvariant, BeginSweep \/ \E u \in User : SweepUser(u)
    PROVE  PresenceInvariant'
  <1>0. TypeOK
    BY DEF PresenceInvariant
  <1>1. CASE BeginSweep
    <2>1. SweepPeriod \in 0..SweepPeriod
      BY PresenceAssumption
    <2>2. sweeping' \in SUBSET User
      BY <1>1 DEF BeginSweep
    <2>3. TypeOK'
      BY <1>0, <1>1, <2>1, <2>2 DEF BeginSweep, TypeOK, redis
    <2> QED
      BY <1>1, <2>3, QuietPresence DEF BeginSweep, redis
  <1>2. ASSUME NEW u \in User, SweepUser(u)
        PROVE  PresenceInvariant'
    <2>1. shown' \in [User -> BOOLEAN]
      BY <1>0, <1>2, TellTyped DEF SweepUser, TypeOK
    <2>2. sweeping' \in SUBSET User
      BY <1>0, <1>2 DEF SweepUser, TypeOK
    <2>3. TypeOK'
      BY <1>0, <1>2, <2>1, <2>2 DEF SweepUser, TypeOK, redis
    <2> QED
      BY <1>2, <2>3, QuietPresence DEF SweepUser, redis
  <1> QED
    BY <1>1, <1>2

\* A tick takes as much from each timer as it adds to the age.
LEMMA TickStep ==
    ASSUME PresenceInvariant, Tick
    PROVE  PresenceInvariant'
  <1>0. /\ TypeOK
        /\ Ttl \in Nat /\ Debounce \in Nat /\ Window \in Nat
        /\ gate \in [User -> 0..Debounce] /\ memory \in [User -> 0..Debounce]
        /\ age \in [User -> 0..(Window + 1)] /\ key \in [User -> [Source -> 0..Ttl]]
        /\ call \in [User -> [Slot -> Call]] /\ next \in 0..SweepPeriod /\ SweepPeriod \in Nat
    BY PresenceAssumption DEF PresenceInvariant, TypeOK
  <1>1. /\ \A n \in Nat : Less(n) \in Nat /\ Less(n) <= n /\ (Less(n) > 0 => n > 0 /\ Less(n) + 1 = n)
        /\ \A n \in 0..(Window + 1) : Older(n) \in 0..(Window + 1) /\ Older(n) <= n + 1
    BY <1>0 DEF Less, Older
  <1>2. /\ \A u \in User, s \in Source : key'[u][s] = Less(key[u][s])
        /\ \A u \in User : /\ gate'[u] = Less(gate[u]) /\ memory'[u] = Less(memory[u])
                           /\ age'[u] = Older(age[u])
        /\ lost' = lost
    BY DEF Tick, GateAfterTick
  <1>3. /\ key' \in [User -> [Source -> 0..Ttl]]
        /\ gate' \in [User -> 0..Debounce] /\ memory' \in [User -> 0..Debounce]
        /\ age' \in [User -> 0..(Window + 1)]
    <2>1. \A n \in 0..Ttl : Less(n) \in 0..Ttl
      BY <1>0 DEF Less
    <2>2. \A n \in 0..Debounce : Less(n) \in 0..Debounce
      BY <1>0 DEF Less
    <2>3. key' \in [User -> [Source -> 0..Ttl]]
      BY <1>0, <2>1 DEF Tick
    <2>4. gate' \in [User -> 0..Debounce] /\ memory' \in [User -> 0..Debounce]
      BY <1>0, <2>2 DEF Tick, GateAfterTick
    <2>5. age' \in [User -> 0..(Window + 1)]
      BY <1>0, <1>1 DEF Tick
    <2> QED
      BY <2>3, <2>4, <2>5
  <1>4. /\ call' \in [User -> [Slot -> Call]]
        /\ \A u \in User, c \in Slot : call'[u][c].pc = call[u][c].pc
    <2> DEFINE x(u, c) == IF call[u][c].pc = "idle" THEN call[u][c]
                          ELSE [call[u][c] EXCEPT !.late = TRUE, !.alone = @ /\ ~Lapses(u)]
    <2>1. ASSUME NEW u \in User, NEW c \in Slot
          PROVE  x(u, c) \in Call /\ x(u, c).pc = call[u][c].pc
      <3>1. call[u][c] \in Call
        BY <1>0
      <3> QED
        BY <3>1 DEF Call
    <2>2. call' = [u \in User |-> [c \in Slot |-> x(u, c)]]
      BY DEF Tick
    <2> HIDE DEF x
    <2> QED
      BY <2>1, <2>2
  <1>5. calm' \in SUBSET User /\ next' \in 0..SweepPeriod
    <2>1. calm' \in SUBSET User
      <3>1. calm' = {u \in calm : ~(Busy(u) /\ Lapses(u))} /\ calm \in SUBSET User
        BY <1>0 DEF Tick, TypeOK
      <3> QED
        BY <3>1
    <2>2. next' \in 0..SweepPeriod
      <3>1. next > 0 /\ next' = next - 1
        BY DEF Tick
      <3> QED
        BY <1>0, <3>1
    <2> QED
      BY <2>1, <2>2
  <1>6. TypeOK'
    BY <1>0, <1>3, <1>4, <1>5 DEF Tick, TypeOK
  <1>7. GatesWitness'
    <2> SUFFICES ASSUME NEW u \in User, u \notin lost
                 PROVE  /\ gate'[u] > 0 => age'[u] + gate'[u] <= Debounce
                        /\ memory'[u] > 0 => age'[u] + memory'[u] <= Debounce
      BY <1>2 DEF GatesWitness
    <2>1. /\ gate[u] > 0 => age[u] + gate[u] <= Debounce
          /\ memory[u] > 0 => age[u] + memory[u] <= Debounce
      BY DEF PresenceInvariant, GatesWitness
    <2> QED
      BY <1>0, <1>1, <1>2, <2>1
  <1>8. LastSeenCoversKeys'
    <2> SUFFICES ASSUME NEW u \in User, u \notin lost, NEW s \in Source, key'[u][s] > 0,
                        ~(\E c \in Slot : call'[u][c].pc = "write")
                 PROVE  age'[u] + key'[u][s] <= Ttl + Debounce
      BY <1>2 DEF LastSeenCoversKeys, At
    <2>1. key[u][s] > 0 => age[u] + key[u][s] <= Ttl + Debounce
      BY <1>4 DEF PresenceInvariant, LastSeenCoversKeys, At
    <2>2. key[u][s] \in Nat /\ age[u] \in 0..(Window + 1)
      BY <1>0
    <2> QED
      BY <1>0, <1>1, <1>2, <2>1, <2>2
  <1> QED
    BY <1>6, <1>7, <1>8 DEF PresenceInvariant

\* Outages of Redis, and a crash, which counts users with an outstanding write as lost.
LEMMA TroubleSteps ==
    ASSUME PresenceInvariant, RedisEnds \/ RedisConnects \/ Crash
    PROVE  PresenceInvariant'
  <1>0. /\ TypeOK /\ Debounce \in Nat /\ Ttl \in Nat /\ MaxTroubles \in Nat
        /\ gate \in [User -> 0..Debounce] /\ memory \in [User -> 0..Debounce]
        /\ key \in [User -> [Source -> 0..Ttl]] /\ troubles \in 0..MaxTroubles
        /\ \A u \in User, c \in Slot : call[u][c] \in Call
    BY PresenceAssumption DEF PresenceInvariant, TypeOK
  <1>1. ASSUME DisturbAll
        PROVE  /\ call' \in [User -> [Slot -> Call]] /\ calm' \in SUBSET User
               /\ \A u \in User, c \in Slot : call'[u][c].pc = call[u][c].pc
    <2> DEFINE x(u, c) == [call[u][c] EXCEPT !.alone = FALSE]
    <2>1. ASSUME NEW u \in User, NEW c \in Slot
          PROVE  x(u, c) \in Call /\ x(u, c).pc = call[u][c].pc
      <3>1. call[u][c] \in Call
        BY <1>0
      <3> QED
        BY <3>1 DEF Call
    <2>2. call' = [u \in User |-> [c \in Slot |-> x(u, c)]] /\ calm' = {}
      BY <1>1 DEF DisturbAll
    <2> HIDE DEF x
    <2> QED
      BY <2>1, <2>2
  <1>2. CASE RedisEnds
    <2>1. /\ DisturbAll /\ troubles' \in 0..MaxTroubles /\ healthy' = FALSE
          /\ UNCHANGED <<sockets, memory, age, shown, next, sweeping, lost>>
      BY <1>0, <1>2 DEF RedisEnds, Trouble
    <2>2. /\ key' \in [User -> [Source -> 0..Ttl]] /\ gate' \in [User -> 0..Debounce]
          /\ \A u \in User : gate'[u] = gate[u] \/ gate'[u] = 0
          /\ \A u \in User, s \in Source : key'[u][s] = key[u][s] \/ key'[u][s] = 0
      BY <1>0, <1>2 DEF RedisEnds
    <2>3. TypeOK'
      BY <1>0, <1>1, <2>1, <2>2 DEF TypeOK
    <2>4. GatesWitness'
      BY <2>1, <2>2 DEF PresenceInvariant, GatesWitness
    <2>5. LastSeenCoversKeys'
      <3> SUFFICES ASSUME NEW u \in User, u \notin lost', NEW s \in Source, key'[u][s] > 0,
                          ~(\E c \in Slot : call'[u][c].pc = "write")
                   PROVE  age'[u] + key'[u][s] <= Ttl + Debounce
        BY DEF LastSeenCoversKeys, At
      <3>1. key'[u][s] = key[u][s]
        BY <2>2
      <3>2. u \notin lost /\ age'[u] = age[u] /\ ~(\E c \in Slot : call[u][c].pc = "write")
        BY <1>1, <2>1
      <3> QED
        BY <3>1, <3>2 DEF PresenceInvariant, LastSeenCoversKeys, At
    <2> QED
      BY <2>3, <2>4, <2>5 DEF PresenceInvariant
  <1>3. CASE RedisConnects
    <2>1. TypeOK'
      BY <1>0, <1>1, <1>3 DEF RedisConnects, TypeOK
    <2> QED
      BY <1>1, <1>3, <2>1, QuietPresence DEF RedisConnects
  <1>4. CASE Crash
    <2>1. /\ call' = [u \in User |-> [c \in Slot |-> Idle]]
          /\ memory' = [u \in User |-> 0] /\ sockets' = [u \in User |-> {}]
          /\ lost' = lost \cup {u \in User : \E c \in Slot : call[u][c].pc = "write"}
          /\ sweeping' = {} /\ calm' \in SUBSET User /\ troubles' \in 0..MaxTroubles
          /\ UNCHANGED <<key, gate, healthy, age, shown, next>>
      BY <1>0, <1>4 DEF Crash, Trouble, At, redis, TypeOK
    <2>2. TypeOK'
      BY <1>0, <2>1, IdleTyped DEF TypeOK
    <2>3. GatesWitness'
      BY <2>1 DEF PresenceInvariant, GatesWitness
    <2>4. LastSeenCoversKeys'
      <3> SUFFICES ASSUME NEW u \in User, u \notin lost', NEW s \in Source, key'[u][s] > 0
                   PROVE  age'[u] + key'[u][s] <= Ttl + Debounce
        BY DEF LastSeenCoversKeys
      <3>1. /\ u \notin lost /\ ~(\E c \in Slot : call[u][c].pc = "write")
            /\ age' = age /\ key' = key
        BY <2>1
      <3> QED
        BY <3>1 DEF PresenceInvariant, LastSeenCoversKeys, At
    <2> QED
      BY <2>2, <2>3, <2>4 DEF PresenceInvariant
  <1> QED
    BY <1>2, <1>3, <1>4

(*****************************************************************************)
(* What is shown.  A call that runs alone knows what the keys are, and a     *)
(* user whose last event came from such a call is shown as the keys say, but *)
(* between setting the key and the event.                                    *)
(*****************************************************************************)
AloneIsAlone(u) ==
  \A c \in Slot : call[u][c].alone =>
    /\ healthy
    /\ call[u][c].pc # "idle"
    /\ \A x \in Slot \ {c} : call[u][x].pc = "idle"
    /\ call[u][c].pc = "offline" => ~Live(u)

CalmIsQuiet(u) ==
  u \in calm =>
    /\ healthy
    /\ \A c \in Slot :
         /\ call[u][c].pc # "idle" => call[u][c].alone
         /\ call[u][c].pc \in {"set", "write"} /\ call[u][c].was => Live(u) /\ shown[u]
    /\ (\A c \in Slot : call[u][c].pc \in {"idle", "probe", "del", "check"}) =>
         (Live(u) => shown[u])

Ordered(u) == AloneIsAlone(u) /\ CalmIsQuiet(u)

ShownInvariant == PresenceInvariant /\ \A u \in User : Ordered(u)

\* A step that does not concern the user; leaving the calm ones is always safe.
LEMMA OthersOrdered ==
    ASSUME NEW u \in User, Ordered(u), healthy' = healthy, u \in calm' => u \in calm,
           call'[u] = call[u], shown'[u] = shown[u], key'[u] = key[u]
    PROVE  Ordered(u)'
  BY DEF Ordered, AloneIsAlone, CalmIsQuiet, Live

\* A step of one call.
LEMMA PutOrdered ==
    ASSUME TypeOK, NEW u \in User, NEW c \in Slot, NEW y \in Call, Ordered(u), Put(u, c, y),
           call[u][c].pc # "idle", healthy' = healthy,
           y.alone => /\ call[u][c].alone /\ y.pc # "idle"
                      /\ y.pc = "offline" => ~Live(u)',
           u \in calm' =>
             /\ call[u][c].alone
             /\ y.pc # "idle" => y.alone
             /\ y.pc \in {"set", "write"} /\ y.was => Live(u)' /\ shown'[u]
             /\ y.pc \in {"idle", "probe", "del", "check"} => (Live(u)' => shown'[u])
    PROVE  Ordered(u)'
  <1>1. /\ call'[u][c] = y
        /\ \A d \in Slot \ {c} : call'[u][d] = call[u][d]
    BY PutTyped
  <1>2. \A d \in Slot \ {c} : ~call[u][d].alone
    BY DEF Ordered, AloneIsAlone
  <1>3. call[u][c].alone => healthy /\ \A d \in Slot \ {c} : call[u][d].pc = "idle"
    BY DEF Ordered, AloneIsAlone
  <1>4. AloneIsAlone(u)'
    <2> SUFFICES ASSUME NEW d \in Slot, call'[u][d].alone
                 PROVE  /\ healthy' /\ call'[u][d].pc # "idle"
                        /\ \A x \in Slot \ {d} : call'[u][x].pc = "idle"
                        /\ call'[u][d].pc = "offline" => ~Live(u)'
      BY DEF AloneIsAlone
    <2>1. d = c
      BY <1>1, <1>2
    <2> QED
      BY <1>1, <1>3, <2>1
  <1>5. CalmIsQuiet(u)'
    <2> SUFFICES ASSUME u \in calm'
                 PROVE  /\ healthy'
                        /\ \A d \in Slot :
                             /\ call'[u][d].pc # "idle" => call'[u][d].alone
                             /\ call'[u][d].pc \in {"set", "write"} /\ call'[u][d].was =>
                                  Live(u)' /\ shown'[u]
                        /\ (\A d \in Slot : call'[u][d].pc \in {"idle", "probe", "del", "check"})
                             => (Live(u)' => shown'[u])
      BY DEF CalmIsQuiet
    <2> QED
      BY <1>1, <1>3
  <1> QED
    BY <1>4, <1>5 DEF Ordered

\* Another call begins: it disturbs the others, and the user if there were any.
LEMMA StartOrdered ==
    ASSUME TypeOK, NEW u \in User, NEW pc \in {"probe", "del"}, NEW s \in Source,
           Start(u, pc, s), Ordered(u), healthy' = healthy, key'[u] = key[u], shown'[u] = shown[u]
    PROVE  Ordered(u)' /\ \A v \in User \ {u} : call'[v] = call[v] /\ (v \in calm' => v \in calm)
  <1>1. PICK c \in Slot :
          /\ call[u][c].pc = "idle"
          /\ call' = [call EXCEPT ![u] = [x \in Slot |->
               IF x = c THEN [Idle EXCEPT !.pc = pc, !.source = s, !.alone = healthy /\ ~Busy(u)]
               ELSE [call[u][x] EXCEPT !.alone = FALSE]]]
          /\ calm' = IF Busy(u) THEN calm \ {u} ELSE calm
    BY DEF Start
  <1> DEFINE y == [Idle EXCEPT !.pc = pc, !.source = s, !.alone = healthy /\ ~Busy(u)]
  <1>2. y.pc = pc /\ (y.alone <=> healthy /\ ~Busy(u))
    BY DEF Idle
  <1>3. \A x \in Slot : /\ [call[u][x] EXCEPT !.alone = FALSE].pc = call[u][x].pc
                        /\ ~[call[u][x] EXCEPT !.alone = FALSE].alone
    <2>1. \A x \in Slot : call[u][x] \in Call
      BY DEF TypeOK
    <2> QED
      BY <2>1 DEF Call
  <1>4. /\ call'[u][c] = y
        /\ \A x \in Slot \ {c} : call'[u][x].pc = call[u][x].pc /\ ~call'[u][x].alone
    BY <1>1, <1>3 DEF TypeOK
  <1> HIDE DEF y
  <1>5. Live(u)' <=> Live(u)
    BY DEF Live
  <1>6. ~Busy(u) => \A x \in Slot : call[u][x].pc = "idle"
    BY DEF Busy
  <1>7. AloneIsAlone(u)'
    <2> SUFFICES ASSUME NEW d \in Slot, call'[u][d].alone
                 PROVE  /\ healthy' /\ call'[u][d].pc # "idle"
                        /\ \A x \in Slot \ {d} : call'[u][x].pc = "idle"
                        /\ call'[u][d].pc = "offline" => ~Live(u)'
      BY DEF AloneIsAlone
    <2>1. d = c /\ healthy /\ ~Busy(u)
      BY <1>2, <1>4
    <2> QED
      BY <1>2, <1>4, <1>6, <2>1
  <1>8. CalmIsQuiet(u)'
    <2> SUFFICES ASSUME u \in calm'
                 PROVE  /\ healthy'
                        /\ \A d \in Slot :
                             /\ call'[u][d].pc # "idle" => call'[u][d].alone
                             /\ call'[u][d].pc \in {"set", "write"} /\ call'[u][d].was =>
                                  Live(u)' /\ shown'[u]
                        /\ (\A d \in Slot : call'[u][d].pc \in {"idle", "probe", "del", "check"})
                             => (Live(u)' => shown'[u])
      BY DEF CalmIsQuiet
    <2>1. ~Busy(u) /\ u \in calm
      BY <1>1
    <2>2. healthy /\ (Live(u) => shown[u])
      BY <1>6, <2>1 DEF Ordered, CalmIsQuiet
    <2> QED
      BY <1>2, <1>4, <1>5, <1>6, <2>1, <2>2
  <1>9. \A v \in User \ {u} : call'[v] = call[v] /\ (v \in calm' => v \in calm)
    BY <1>1 DEF TypeOK
  <1> QED
    BY <1>7, <1>8, <1>9 DEF Ordered

\* What a dashboard is told agrees with the keys while Redis answers.
LEMMA ToldOrdered ==
    ASSUME TypeOK, NEW u \in User, Ordered(u), UNCHANGED <<call, calm, healthy, key>>,
           shown'[u] = shown[u] \/ (healthy => (shown'[u] <=> Live(u)))
    PROVE  Ordered(u)'
  <1>1. Live(u)' <=> Live(u)
    BY DEF Live
  <1>2. AloneIsAlone(u)'
    BY <1>1 DEF Ordered, AloneIsAlone
  <1>3. CASE u \notin calm
    BY <1>2, <1>3 DEF Ordered, CalmIsQuiet
  <1>4. CASE u \in calm
    <2>1. healthy
      BY <1>4 DEF Ordered, CalmIsQuiet
    <2>2. (Live(u) => shown[u]) => (Live(u) => shown'[u])
      BY <2>1
    <2>3. (Live(u) /\ shown[u]) => shown'[u]
      BY <2>2
    <2> QED
      BY <1>1, <1>2, <1>4, <2>2, <2>3 DEF Ordered, CalmIsQuiet
  <1> QED
    BY <1>3, <1>4

LEMMA ClientOrdered ==
    ASSUME ShownInvariant, NEW u \in User, ClientStep(u), NEW v \in User
    PROVE  Ordered(v)'
  <1>1. TypeOK /\ Ordered(u) /\ Ordered(v)
    BY DEF ShownInvariant, PresenceInvariant
  <1>2. UNCHANGED <<redis, memory, age>>
    BY DEF ClientStep, Heartbeat, Look, Connect, Disconnect
  <1>3. ASSUME NEW pc \in {"probe", "del"}, NEW s \in Source, Start(u, pc, s), shown' = shown
        PROVE  Ordered(v)'
    <2>1. healthy' = healthy /\ key' = key
      BY <1>2 DEF redis
    <2> QED
      BY <1>1, <1>3, <2>1, StartOrdered, OthersOrdered
  <1>4. CASE Heartbeat(u) \/ \E s \in Socket : Connect(u, s)
    BY <1>3, <1>4 DEF Heartbeat, Connect, Source
  <1>5. CASE \E s \in Socket : Disconnect(u, s)
    <2>1. CASE Start(u, "del", "ws")
      BY <1>3, <1>5, <2>1 DEF Disconnect, Source
    <2>2. CASE UNCHANGED <<call, calm>>
      BY <1>1, <1>5, <2>2, OthersOrdered DEF Disconnect, redis
    <2> QED
      BY <1>5, <2>1, <2>2 DEF Disconnect
  <1>6. CASE Look(u)
    <2>1. UNCHANGED <<call, calm, healthy, key>>
      BY <1>6 DEF Look, redis
    <2>2. shown'[v] = shown[v] \/ (healthy => (shown'[v] <=> Live(v)))
      BY <1>1, <1>6 DEF Look, Tell, TypeOK
    <2> QED
      BY <1>1, <2>1, <2>2, ToldOrdered
  <1> QED
    BY <1>4, <1>5, <1>6 DEF ClientStep

LEMMA SweepOrdered ==
    ASSUME ShownInvariant, BeginSweep \/ \E u \in User : SweepUser(u), NEW v \in User
    PROVE  Ordered(v)'
  <1>1. TypeOK /\ Ordered(v)
    BY DEF ShownInvariant, PresenceInvariant
  <1>2. UNCHANGED <<call, calm, healthy, key>>
    BY DEF BeginSweep, SweepUser, redis
  <1>3. shown'[v] = shown[v] \/ (healthy => (shown'[v] <=> Live(v)))
    <2>1. CASE BeginSweep
      BY <2>1 DEF BeginSweep
    <2>2. ASSUME NEW u \in User, SweepUser(u) PROVE shown'[v] = shown[v] \/ (healthy => (shown'[v] <=> Live(v)))
      BY <1>1, <2>2 DEF SweepUser, Tell, TypeOK
    <2> QED
      BY <2>1, <2>2
  <1> QED
    BY <1>1, <1>2, <1>3, ToldOrdered

\* The steps of a call, for its user.
LEMMA CallOrdered ==
    ASSUME ShownInvariant, NEW u \in User, NEW c \in Slot, CallStep(u, c)
    PROVE  Ordered(u)'
  <1> DEFINE x == call[u][c]
  <1>1. TypeOK /\ Ordered(u) /\ x \in Call /\ Idle \in Call /\ Idle.pc = "idle" /\ ~Idle.alone
    BY IdleTyped DEF ShownInvariant, PresenceInvariant, TypeOK, Idle
  <1>2. /\ x.alone =>
             /\ healthy
             /\ x.pc = "offline" => ~Live(u)
        /\ u \in calm /\ x.pc # "idle" =>
             /\ x.alone /\ healthy
             /\ \A d \in Slot \ {c} : call[u][d].pc = "idle"
             /\ x.pc \in {"set", "write"} /\ x.was => Live(u) /\ shown[u]
             /\ x.pc \in {"probe", "del", "check"} => (Live(u) => shown[u])
    <2>1. AloneIsAlone(u) /\ CalmIsQuiet(u)
      BY <1>1 DEF Ordered
    <2>2. u \in calm /\ x.pc # "idle" => x.alone /\ \A d \in Slot \ {c} : call[u][d].pc = "idle"
      BY <2>1 DEF AloneIsAlone, CalmIsQuiet
    <2>3. u \in calm /\ x.pc \in {"probe", "del", "check"} =>
            \A d \in Slot : call[u][d].pc \in {"idle", "probe", "del", "check"}
      BY <2>2
    <2> QED
      BY <2>1, <2>2, <2>3 DEF AloneIsAlone, CalmIsQuiet
  <1>3. CASE Probe(u, c)
    <2> DEFINE y == [x EXCEPT !.was = HasAnySource(u), !.pc = "set"]
    <2>1. HasAnySource(u) \in BOOLEAN
      BY DEF HasAnySource
    <2>2. y \in Call /\ y.pc = "set" /\ y.alone = x.alone /\ (y.was <=> HasAnySource(u))
      BY <1>1, <2>1 DEF Call
    <2>3. Put(u, c, y) /\ x.pc = "probe" /\ UNCHANGED <<redis, shown, calm>>
      BY <1>3 DEF Probe, At
    <2>4. healthy' = healthy /\ (Live(u)' <=> Live(u)) /\ shown' = shown /\ calm' = calm
      BY <2>3 DEF redis, Live
    <2> HIDE DEF y
    <2>5. /\ y.alone => x.alone /\ y.pc # "idle" /\ (y.pc = "offline" => ~Live(u)')
          /\ u \in calm' =>
               /\ x.alone
               /\ y.pc # "idle" => y.alone
               /\ y.pc \in {"set", "write"} /\ y.was => Live(u)' /\ shown'[u]
               /\ y.pc \in {"idle", "probe", "del", "check"} => (Live(u)' => shown'[u])
      BY <1>2, <2>2, <2>3, <2>4 DEF HasAnySource
    <2> QED
      BY <1>1, <2>2, <2>3, <2>4, <2>5, PutOrdered
  <1>4. CASE SetKey(u, c)
    <2> DEFINE y == [x EXCEPT !.pc = "write"]
    <2>1. y \in Call /\ y.pc = "write" /\ y.alone = x.alone /\ y.was = x.was
      BY <1>1 DEF Call
    <2>2. /\ Put(u, c, y) /\ x.pc = "set" /\ UNCHANGED <<healthy, shown, calm>>
          /\ key' = IF healthy THEN Keyed(u, x.source, Ttl) ELSE key
      BY <1>4 DEF SetKey, At, Goto
    <2>3. healthy => Live(u)'
      <3>1. x.source \in Source /\ key \in [User -> [Source -> 0..Ttl]] /\ Ttl > 0
        BY <1>1, PresenceAssumption DEF TypeOK, Call
      <3>2. healthy => key'[u][x.source] = Ttl
        BY <2>2, <3>1 DEF Keyed
      <3> QED
        BY <3>1, <3>2 DEF Live
    <2> HIDE DEF y
    <2>4. /\ y.alone => x.alone /\ y.pc # "idle" /\ (y.pc = "offline" => ~Live(u)')
          /\ u \in calm' =>
               /\ x.alone
               /\ y.pc # "idle" => y.alone
               /\ y.pc \in {"set", "write"} /\ y.was => Live(u)' /\ shown'[u]
               /\ y.pc \in {"idle", "probe", "del", "check"} => (Live(u)' => shown'[u])
      BY <1>2, <2>1, <2>2, <2>3
    <2> QED
      BY <1>1, <2>1, <2>2, <2>4, PutOrdered
  <1>5. CASE WriteLastSeen(u, c)
    <2> DEFINE y == IF x.was THEN Idle ELSE [x EXCEPT !.pc = "online"]
    <2>1. /\ y \in Call
          /\ x.was => y = Idle
          /\ ~x.was => y.pc = "online" /\ y.alone = x.alone
      BY <1>1 DEF Call
    <2>2. Put(u, c, y) /\ x.pc = "write" /\ UNCHANGED <<healthy, key, shown, calm>>
      BY <1>5 DEF WriteLastSeen, At, Goto, End
    <2>3. Live(u)' <=> Live(u)
      BY <2>2 DEF Live
    <2> HIDE DEF y
    <2>4. /\ y.alone => x.alone /\ y.pc # "idle" /\ (y.pc = "offline" => ~Live(u)')
          /\ u \in calm' =>
               /\ x.alone
               /\ y.pc # "idle" => y.alone
               /\ y.pc \in {"set", "write"} /\ y.was => Live(u)' /\ shown'[u]
               /\ y.pc \in {"idle", "probe", "del", "check"} => (Live(u)' => shown'[u])
      BY <1>1, <1>2, <2>1, <2>2, <2>3
    <2> QED
      BY <1>1, <2>1, <2>2, <2>4, PutOrdered
  <1>6. ASSUME NEW pc \in {"online", "offline"}, Emit(u, c, pc, pc = "online")
        PROVE  Ordered(u)'
    <2>1. /\ Put(u, c, Idle) /\ x.pc = pc /\ healthy' = healthy /\ key' = key
          /\ shown'[u] = (pc = "online")
          /\ u \in calm' => x.alone
      BY <1>1, <1>2, <1>6 DEF Emit, At, End, Tell, TypeOK, redis
    <2>2. Live(u)' <=> Live(u)
      BY <2>1 DEF Live
    <2>3. u \in calm' => x.alone /\ (Live(u)' => shown'[u])
      BY <1>2, <1>6, <2>1, <2>2
    <2> QED
      BY <1>1, <2>1, <2>3, PutOrdered
  <1>7. CASE DelKey(u, c)
    <2> DEFINE y == [x EXCEPT !.pc = "check"]
    <2>1. y \in Call /\ y.pc = "check" /\ y.alone = x.alone
      BY <1>1 DEF Call
    <2>2. /\ Put(u, c, y) /\ x.pc = "del" /\ UNCHANGED <<healthy, shown, calm>>
          /\ key' = IF healthy THEN Keyed(u, x.source, 0) ELSE key
      BY <1>7 DEF DelKey, At, Goto
    <2>3. Live(u)' => Live(u)
      <3>1. key \in [User -> [Source -> 0..Ttl]]
        BY <1>1 DEF TypeOK
      <3>2. \A s \in Source : key'[u][s] = key[u][s] \/ key'[u][s] = 0
        BY <2>2, <3>1 DEF Keyed
      <3> QED
        BY <3>2 DEF Live
    <2> HIDE DEF y
    <2>4. /\ y.alone => x.alone /\ y.pc # "idle" /\ (y.pc = "offline" => ~Live(u)')
          /\ u \in calm' =>
               /\ x.alone
               /\ y.pc # "idle" => y.alone
               /\ y.pc \in {"set", "write"} /\ y.was => Live(u)' /\ shown'[u]
               /\ y.pc \in {"idle", "probe", "del", "check"} => (Live(u)' => shown'[u])
      BY <1>2, <2>1, <2>2, <2>3
    <2> QED
      BY <1>1, <2>1, <2>2, <2>4, PutOrdered
  <1>8. CASE CheckSources(u, c)
    <2> DEFINE y == IF HasAnySource(u) THEN Idle ELSE [x EXCEPT !.pc = "offline"]
    <2>1. /\ y \in Call
          /\ HasAnySource(u) => y = Idle
          /\ ~HasAnySource(u) => y.pc = "offline" /\ y.alone = x.alone
      BY <1>1 DEF Call
    <2>2. Put(u, c, y) /\ x.pc = "check" /\ UNCHANGED <<redis, shown, calm>>
      BY <1>8 DEF CheckSources, At, Goto, End
    <2>3. healthy' = healthy /\ (Live(u)' <=> Live(u))
      BY <2>2 DEF redis, Live
    <2> HIDE DEF y
    <2>4. /\ y.alone => x.alone /\ y.pc # "idle" /\ (y.pc = "offline" => ~Live(u)')
          /\ u \in calm' =>
               /\ x.alone
               /\ y.pc # "idle" => y.alone
               /\ y.pc \in {"set", "write"} /\ y.was => Live(u)' /\ shown'[u]
               /\ y.pc \in {"idle", "probe", "del", "check"} => (Live(u)' => shown'[u])
      BY <1>1, <1>2, <2>1, <2>2, <2>3 DEF HasAnySource
    <2> QED
      BY <1>1, <2>1, <2>2, <2>3, <2>4, PutOrdered
  <1> QED
    BY <1>3, <1>4, <1>5, <1>6, <1>7, <1>8 DEF CallStep, EmitOnline, EmitOffline

\* They do not concern other users.
LEMMA CallSparesOthers ==
    ASSUME ShownInvariant, NEW u \in User, NEW c \in Slot, CallStep(u, c), NEW v \in User \ {u}
    PROVE  Ordered(v)'
  <1>1. TypeOK /\ Ordered(v)
    BY DEF ShownInvariant, PresenceInvariant
  <1>2. healthy' = healthy /\ shown'[v] = shown[v] /\ (v \in calm' => v \in calm)
    BY <1>1 DEF CallStep, Probe, SetKey, WriteLastSeen, EmitOnline, EmitOffline, Emit, DelKey,
       CheckSources, Tell, TypeOK, redis
  <1>3. key'[v] = key[v]
    BY <1>1 DEF CallStep, Probe, SetKey, WriteLastSeen, EmitOnline, EmitOffline, Emit, DelKey,
       CheckSources, Keyed, TypeOK, redis
  <1>4. \E y : Put(u, c, y)
    BY DEF CallStep, Probe, SetKey, WriteLastSeen, EmitOnline, EmitOffline, Emit, DelKey,
       CheckSources, Goto, End
  <1>5. call'[v] = call[v]
    BY <1>1, <1>4 DEF Put, TypeOK
  <1> QED
    BY <1>1, <1>2, <1>3, <1>5, OthersOrdered

\* Keys that lapse disturb the calls that run and leave the others right.
LEMMA TickOrdered ==
    ASSUME ShownInvariant, Tick, NEW u \in User
    PROVE  Ordered(u)'
  <1>1. /\ TypeOK /\ AloneIsAlone(u) /\ CalmIsQuiet(u)
        /\ key \in [User -> [Source -> 0..Ttl]] /\ Ttl \in Nat
    BY PresenceAssumption DEF ShownInvariant, PresenceInvariant, Ordered, TypeOK
  <1>2. \A s \in Source : /\ key'[u][s] = Less(key[u][s]) /\ key[u][s] \in Nat
                          /\ (key'[u][s] > 0 <=> key[u][s] > 1)
    <2> SUFFICES ASSUME NEW s \in Source
                 PROVE  /\ key'[u][s] = Less(key[u][s]) /\ key[u][s] \in Nat
                        /\ (key'[u][s] > 0 <=> key[u][s] > 1)
      OBVIOUS
    <2>1. key[u][s] \in Nat
      BY <1>1
    <2>2. key'[u][s] = Less(key[u][s])
      BY DEF Tick
    <2> QED
      BY <2>1, <2>2 DEF Less
  <1>3. (Live(u)' => Live(u)) /\ (Live(u) /\ ~Lapses(u) => Live(u)')
    BY <1>2 DEF Live, Lapses
  <1>4. \A c \in Slot :
          /\ call'[u][c].pc = call[u][c].pc /\ call'[u][c].was = call[u][c].was
          /\ call[u][c].pc = "idle" => call'[u][c].alone = call[u][c].alone
          /\ call[u][c].pc # "idle" => (call'[u][c].alone <=> call[u][c].alone /\ ~Lapses(u))
    <2> SUFFICES ASSUME NEW c \in Slot
                 PROVE  /\ call'[u][c].pc = call[u][c].pc /\ call'[u][c].was = call[u][c].was
                        /\ call[u][c].pc = "idle" => call'[u][c].alone = call[u][c].alone
                        /\ call[u][c].pc # "idle" =>
                             (call'[u][c].alone <=> call[u][c].alone /\ ~Lapses(u))
      OBVIOUS
    <2>1. call[u][c] \in Call
      BY <1>1 DEF TypeOK
    <2>2. call'[u][c] = IF call[u][c].pc = "idle" THEN call[u][c]
                        ELSE [call[u][c] EXCEPT !.late = TRUE, !.alone = @ /\ ~Lapses(u)]
      BY DEF Tick
    <2> QED
      BY <2>1, <2>2 DEF Call
  <1>5. healthy' = healthy /\ shown' = shown /\ calm' = {v \in calm : ~(Busy(v) /\ Lapses(v))}
    BY DEF Tick
  <1>6. AloneIsAlone(u)'
    BY <1>1, <1>3, <1>4, <1>5 DEF AloneIsAlone
  <1>7. CalmIsQuiet(u)'
    <2> SUFFICES ASSUME u \in calm, ~(Busy(u) /\ Lapses(u))
                 PROVE  /\ healthy'
                        /\ \A c \in Slot :
                             /\ call'[u][c].pc # "idle" => call'[u][c].alone
                             /\ call'[u][c].pc \in {"set", "write"} /\ call'[u][c].was =>
                                  Live(u)' /\ shown'[u]
                        /\ (\A c \in Slot : call'[u][c].pc \in {"idle", "probe", "del", "check"})
                             => (Live(u)' => shown'[u])
      BY <1>5 DEF CalmIsQuiet
    <2>1. \A c \in Slot : call[u][c].pc # "idle" => ~Lapses(u)
      BY DEF Busy
    <2> QED
      BY <1>1, <1>3, <1>4, <1>5, <2>1 DEF CalmIsQuiet
  <1> QED
    BY <1>6, <1>7 DEF Ordered

LEMMA TroubleOrdered ==
    ASSUME ShownInvariant, RedisEnds \/ RedisConnects \/ Crash, NEW u \in User
    PROVE  Ordered(u)'
  <1>1. TypeOK /\ AloneIsAlone(u) /\ CalmIsQuiet(u)
    BY DEF ShownInvariant, PresenceInvariant, Ordered
  <1>2. CASE DisturbAll
    <2>1. \A c \in Slot : ~call'[u][c].alone
      <3>1. \A c \in Slot : call[u][c] \in Call
        BY <1>1 DEF TypeOK
      <3> QED
        BY <1>2, <3>1 DEF DisturbAll, Call
    <2>2. calm' = {}
      BY <1>2 DEF DisturbAll
    <2> QED
      BY <2>1, <2>2 DEF Ordered, AloneIsAlone, CalmIsQuiet
  <1>3. CASE Crash
    <2>1. /\ \A c \in Slot : call'[u][c] = Idle
          /\ healthy' = healthy /\ shown' = shown /\ key' = key
          /\ u \in calm' => u \in calm /\ ~Busy(u)
      BY <1>3 DEF Crash, redis
    <2>2. ~Idle.alone /\ Idle.pc = "idle"
      BY DEF Idle
    <2>3. Live(u)' <=> Live(u)
      BY <2>1 DEF Live
    <2>4. u \in calm' => healthy /\ (Live(u) => shown[u])
      BY <1>1, <2>1 DEF CalmIsQuiet, Busy
    <2> QED
      BY <2>1, <2>2, <2>3, <2>4 DEF Ordered, AloneIsAlone, CalmIsQuiet
  <1> QED
    BY <1>2, <1>3 DEF RedisEnds, RedisConnects

(*****************************************************************************)
(* The theorems.                                                             *)
(*****************************************************************************)

\* With no user seen yet the invariant holds.
LEMMA PresenceInit == Init => PresenceInvariant
  <1> SUFFICES ASSUME Init PROVE PresenceInvariant
    OBVIOUS
  <1>1. /\ Ttl \in Nat /\ Debounce \in Nat /\ Window \in Nat /\ MaxTroubles \in Nat
        /\ SweepPeriod \in Nat
    BY PresenceAssumption
  <1>2. TypeOK
    BY <1>1, IdleTyped DEF Init, TypeOK
  <1>3. GatesWitness /\ LastSeenCoversKeys
    BY DEF Init, GatesWitness, LastSeenCoversKeys
  <1> QED
    BY <1>2, <1>3 DEF PresenceInvariant

\* No step leaves it.
LEMMA PresenceStep == PresenceInvariant /\ [Next]_vars => PresenceInvariant'
  <1> SUFFICES ASSUME PresenceInvariant, [Next]_vars PROVE PresenceInvariant'
    OBVIOUS
  <1>1. CASE \E u \in User : ClientStep(u)
    BY <1>1, ClientSteps
  <1>2. CASE \E u \in User, c \in Slot : CallStep(u, c)
    BY <1>2, QuietCallSteps, KeySteps, WriteSteps DEF CallStep
  <1>3. CASE BeginSweep \/ \E u \in User : SweepUser(u)
    BY <1>3, SweepSteps
  <1>4. CASE Tick
    BY <1>4, TickStep
  <1>5. CASE RedisEnds \/ RedisConnects \/ Crash
    BY <1>5, TroubleSteps
  <1>6. CASE UNCHANGED vars
    <2>1. TypeOK'
      BY <1>6 DEF vars, redis, PresenceInvariant, TypeOK
    <2> QED
      BY <1>6, <2>1, QuietPresence DEF vars, redis
  <1> QED
    BY <1>1, <1>2, <1>3, <1>4, <1>5, <1>6 DEF Next

\* THE INVARIANT: types, the gates, and the bound on last_seen_at.
THEOREM PresenceAlwaysInOrder == Spec => []PresenceInvariant
  BY PresenceInit, PresenceStep, PTL DEF Spec

\* Timers never exceed the times they are set to, whatever the interleaving.
THEOREM PresenceTypeCorrect == Spec => []TypeOK
  <1>1. PresenceInvariant => TypeOK
    BY DEF PresenceInvariant
  <1> QED
    BY <1>1, PresenceAlwaysInOrder, PTL

\* users.last_seen_at is never more than a debounce older than the mark of a live key,
\* through outages of Redis with and without its data, although there are two gates.
THEOREM LastSeenIsRecent == Spec => []LastSeenCoversKeys
  <1>1. PresenceInvariant => LastSeenCoversKeys
    BY DEF PresenceInvariant
  <1> QED
    BY <1>1, PresenceAlwaysInOrder, PTL

LEMMA ShownInit == Init => ShownInvariant
  <1> SUFFICES ASSUME Init PROVE ShownInvariant
    OBVIOUS
  <1>1. PresenceInvariant
    BY PresenceInit
  <1>2. ASSUME NEW u \in User
        PROVE  Ordered(u)
    <2>1. /\ \A c \in Slot : call[u][c] = Idle
          /\ healthy /\ \A s \in Source : key[u][s] = 0
      BY DEF Init
    <2>2. ~Idle.alone /\ Idle.pc = "idle" /\ ~Live(u)
      BY <2>1 DEF Idle, Live
    <2> QED
      BY <2>1, <2>2 DEF Ordered, AloneIsAlone, CalmIsQuiet
  <1> QED
    BY <1>1, <1>2 DEF ShownInvariant

LEMMA ShownStep == ShownInvariant /\ [Next]_vars => ShownInvariant'
  <1> SUFFICES ASSUME ShownInvariant, [Next]_vars PROVE ShownInvariant'
    OBVIOUS
  <1>1. PresenceInvariant'
    BY PresenceStep DEF ShownInvariant
  <1>2. ASSUME NEW v \in User
        PROVE  Ordered(v)'
    <2>1. CASE \E u \in User : ClientStep(u)
      BY <2>1, ClientOrdered
    <2>2. CASE \E u \in User, c \in Slot : CallStep(u, c)
      BY <2>2, CallOrdered, CallSparesOthers
    <2>3. CASE BeginSweep \/ \E u \in User : SweepUser(u)
      BY <2>3, SweepOrdered
    <2>4. CASE Tick
      BY <2>4, TickOrdered
    <2>5. CASE RedisEnds \/ RedisConnects \/ Crash
      BY <2>5, TroubleOrdered
    <2>6. CASE UNCHANGED vars
      BY <2>6, OthersOrdered DEF ShownInvariant, vars, redis
    <2> QED
      BY <2>1, <2>2, <2>3, <2>4, <2>5, <2>6 DEF Next
  <1> QED
    BY <1>1, <1>2 DEF ShownInvariant

\* Whatever heartbeats, sockets, sweeps, lapses, outages and crashes overlap, a user
\* with a live key is shown online, as long as no other call, lapse or outage fell
\* into the call that spoke for him last.
THEOREM CalmUsersAreShown == Spec => []CalmUsersShown
  <1>1. ShownInvariant => CalmUsersShown
    <2> SUFFICES ASSUME ShownInvariant, NEW u \in calm, ~Busy(u), Live(u)
                 PROVE  shown[u]
      BY DEF CalmUsersShown
    <2>1. u \in User /\ \A c \in Slot : call[u][c].pc = "idle"
      BY DEF ShownInvariant, PresenceInvariant, TypeOK, Busy
    <2> QED
      BY <2>1 DEF ShownInvariant, Ordered, CalmIsQuiet
  <1> QED
    BY <1>1, ShownInit, ShownStep, PTL DEF Spec
===============================================================================
