---------------------- MODULE NotificationDeliveryProofs ----------------------
(* Consent is honoured and copies are accounted for, for any number of       *)
(* messages, recipients, accounts, attempts, runs and faults.                *)
EXTENDS NotificationDelivery, FiniteSetTheorems, TLAPS

(* Bull has given up on a run whose job is not active, and follows one run   *)
(* at a time; a job that it may still start has attempts left.               *)
JobSound(d) ==
  /\ job[d].state \in {"none", "waiting", "active"} =>
       job[d].stalls <= MaxStalls /\ job[d].tries < MaxTries
  /\ \A r \in Runs : run[d][r].current => job[d].state = "active"
  /\ \A r, s \in Runs : run[d][r].current /\ run[d][s].current => r = s
  /\ job[d].state = "none" =>
       job[d] = NoJob /\ (\A r \in Runs : run[d][r] = NoRun)

(* The fan-out has not come to the delivery yet. *)
Ahead(d) ==
  LET f == fanout[d[1]] IN
  \/ f.pc = "unsent"
  \/ /\ f.pc \in {"ask", "fill", "open"}
     /\ \/ Medium(d) = f.channel /\ (f.pc = "open" => Recipient(d) \in f.left)
        \/ Medium(d) = "line" /\ f.channel = "email"

QueuedOnce == \A d \in Delivery : Ahead(d) => job[d].state = "none"

(* Runs that Bull has given up on and that may post again. *)
Loose(d) == {r \in Runs : ~run[d][r].current /\ run[d][r].pc \in {"post", "error"}}

(* The job may bring about one more copy without a fault. *)
Open(d) ==
  \/ job[d].state \in {"none", "waiting"}
  \/ /\ job[d].state = "active"
     /\ \A r \in Runs : run[d][r].current => run[d][r].pc \in {"post", "error", "odd", "retry"}

(* What went wrong pays for the copies made and for those to come. *)
Paid(d) ==
  copies[d] + Cardinality(Loose(d)) + (IF Open(d) THEN 1 ELSE 0) <= 1 + faults[d]

(* A run that may still post does so to an address that its recipient, when  *)
(* it started, allowed and owned.                                            *)
Consented ==
  \A d \in Delivery, r \in Runs :
    run[d][r].pc \in {"post", "error"} /\ ~run[d][r].overtaken =>
      job[d].to \in Addresses(Recipient(d), Medium(d))

DeliveryInvariant ==
  /\ TypeOK /\ QueuedOnce /\ Consented
  /\ \A d \in Delivery : JobSound(d) /\ Paid(d)

-----------------------------------------------------------------------------
(* Types.                                                                    *)
LEMMA Constants ==
  /\ MaxTries \in Nat \ {0} /\ MaxPosts \in Nat \ {0} /\ MaxRuns \in Nat \ {0}
  /\ MaxStalls \in Nat /\ MaxCrashes \in Nat /\ MaxFaults \in Nat /\ MaxChanges \in Nat
BY DeliveryAssumption

LEMMA RowsTyped ==
  /\ NoJob \in JobRow /\ NoJob.state = "none" /\ NoJob.tries = 0 /\ NoJob.stalls = 0
  /\ NoRun \in RunRow /\ NoRun.pc = "idle" /\ ~NoRun.current
  /\ Silent \in FanOutRow /\ Silent.pc = "unsent"
BY Constants DEF NoJob, NoRun, Silent, JobRow, RunRow, FanOutRow, Channel

LEMMA AuditTyped ==
  ASSUME TypeOK, NEW ds, NEW row \in Row, Audit(ds, row)
  PROVE  log' \in [Delivery -> SUBSET Row]
BY DEF TypeOK, Audit

LEMMA MediumTyped ==
  ASSUME NEW d \in Delivery
  PROVE  d[1] \in Message /\ Recipient(d) \in Person /\ Medium(d) \in Channel
BY DEF Delivery, Recipient, Medium

(* What may become of a job.                                                 *)
LEMMA AgainTyped ==
  ASSUME NEW j \in JobRow, j.tries < MaxTries
  PROVE  /\ Again(j) \in JobRow /\ Again(j).state \in {"waiting", "failed"}
         /\ Again(j).to = j.to /\ Again(j).stalls = j.stalls
         /\ Again(j).state = "waiting" => Again(j).tries < MaxTries
<1>1. j.tries + 1 \in 0..MaxTries
  BY Constants DEF JobRow
<1>2. /\ Again(j).tries = j.tries + 1 /\ Again(j).to = j.to /\ Again(j).stalls = j.stalls
      /\ Again(j).state = IF j.tries + 1 < MaxTries THEN "waiting" ELSE "failed"
  BY DEF Again, JobRow
<1>3. Again(j) \in JobRow
  BY <1>1 DEF Again, JobRow
<1>. QED BY <1>2, <1>3

(* The fan-out.                                                              *)
LEMMA NextChannelTyped ==
  ASSUME NEW f \in FanOutRow
  PROVE  /\ NextChannel(f) \in FanOutRow /\ NextChannel(f).pc \in {"ask", "told"}
         /\ NextChannel(f).pc = "ask" =>
              f.channel = "email" /\ NextChannel(f).channel = "line"
BY DEF NextChannel, FanOutRow, Channel

LEMMA DecideTyped ==
  ASSUME TypeOK, NEW m \in Message, NEW value, Decide(m, value)
  PROVE  /\ fanout' \in [Message -> FanOutRow] /\ log' \in [Delivery -> SUBSET Row]
         /\ fanout' = [fanout EXCEPT ![m] = fanout'[m]]
         /\ \/ fanout'[m] = [fanout[m] EXCEPT !.pc = "open"]
            \/ fanout'[m] = NextChannel(fanout[m])
<1>1. fanout[m] \in FanOutRow
  BY DEF TypeOK
<1>2. CASE value = "on"
  <2>1. fanout' = [fanout EXCEPT ![m] = [fanout[m] EXCEPT !.pc = "open"]] /\ log' = log
    BY <1>2 DEF Decide, TypeOK
  <2>2. [fanout[m] EXCEPT !.pc = "open"] \in FanOutRow
    BY <1>1 DEF FanOutRow
  <2>. QED BY <2>1, <2>2 DEF TypeOK
<1>3. CASE value # "on"
  <2>1. fanout' = [fanout EXCEPT ![m] = NextChannel(fanout[m])]
    BY <1>3 DEF Decide
  <2>2. log' \in [Delivery -> SUBSET Row]
    BY <1>3, AuditTyped DEF Decide, Row
  <2>. QED BY <1>1, <2>1, <2>2, NextChannelTyped DEF TypeOK
<1>. QED BY <1>2, <1>3

(* The fan-out of a message only moves on.                                   *)
LEMMA NothingNewAhead ==
  ASSUME TypeOK, NEW m \in Message,
         fanout' = [fanout EXCEPT ![m] = fanout'[m]],
         \/ fanout[m].pc \in {"ask", "fill"}
            /\ fanout'[m].channel = fanout[m].channel
            /\ fanout'[m].pc \in {"fill", "open"}
         \/ fanout[m].pc = "open"
            /\ fanout'[m].channel = fanout[m].channel
            /\ fanout'[m].pc = "open"
            /\ fanout'[m].left \subseteq fanout[m].left
         \/ fanout[m].pc \in {"ask", "fill", "open"}
            /\ fanout[m].channel = "email" /\ fanout'[m].channel = "line"
            /\ fanout'[m].pc = "ask"
         \/ fanout[m].pc = "unsent"
         \/ fanout'[m].pc = "told",
         NEW d \in Delivery, Ahead(d)'
  PROVE  Ahead(d) /\ (d[1] = m /\ fanout'[m].pc = "open" /\ Medium(d) = fanout'[m].channel
                        => Recipient(d) \in fanout'[m].left)
<1>1. CASE d[1] # m
  <2>1. fanout'[d[1]] = fanout[d[1]]
    BY <1>1, MediumTyped DEF TypeOK
  <2>. QED BY <1>1, <2>1 DEF Ahead, Medium, Recipient
<1>2. CASE d[1] = m
  <2>1. m \in DOMAIN fanout
    BY DEF TypeOK
  <2>. QED BY <1>2, <2>1 DEF Ahead, Medium, Recipient
<1>. QED BY <1>1, <1>2

LEMMA SilentStep ==
  ASSUME TypeOK, QueuedOnce, UNCHANGED job, NEW m \in Message,
         Emit(m) \/ AskSwitch(m) \/ FillCache(m) \/ GatesUnread(m)
  PROVE  TypeOK' /\ QueuedOnce'
<1> DEFINE f == fanout[m]
<1>1. f \in FanOutRow
  BY DEF TypeOK
<1>2. CASE Emit(m)
  <2>1. PICK rs \in SUBSET Person \ {{}}, allowed \in BOOLEAN :
          fanout' = [fanout EXCEPT ![m] =
            [@ EXCEPT !.pc = "ask", !.to = rs, !.left = rs, !.eligible = allowed]]
    BY <1>2 DEF Emit
  <2>2. fanout' \in [Message -> FanOutRow]
    BY <1>1, <2>1 DEF TypeOK, FanOutRow
  <2>3. fanout' = [fanout EXCEPT ![m] = fanout'[m]] /\ f.pc = "unsent"
    BY <1>2, <2>1, RowsTyped DEF TypeOK, Emit
  <2>4. TypeOK'
    BY <1>2, <2>2 DEF Emit, TypeOK, settings, people, deliveries
  <2>. QED BY <2>3, <2>4, NothingNewAhead DEF QueuedOnce
<1>3. ASSUME NEW value, Decide(m, value), f.pc \in {"ask", "fill"}
      PROVE  fanout' \in [Message -> FanOutRow] /\ log' \in [Delivery -> SUBSET Row] /\ QueuedOnce'
  <2>1. /\ fanout' = [fanout EXCEPT ![m] = fanout'[m]]
        /\ \/ fanout'[m] = [f EXCEPT !.pc = "open"]
           \/ fanout'[m] = NextChannel(f)
    BY <1>3, DecideTyped
  <2>2. CASE fanout'[m] = [f EXCEPT !.pc = "open"]
    <3>1. fanout'[m].pc = "open" /\ fanout'[m].channel = f.channel
      BY <1>1, <2>2 DEF FanOutRow
    <3>. QED BY <1>3, <2>1, <3>1, DecideTyped, NothingNewAhead DEF QueuedOnce
  <2>3. CASE fanout'[m] = NextChannel(f)
    BY <1>1, <1>3, <2>1, <2>3, DecideTyped, NextChannelTyped, NothingNewAhead DEF QueuedOnce
  <2>. QED BY <2>1, <2>2, <2>3, <1>3, DecideTyped
<1>4. CASE AskSwitch(m)
  <2>1. f.pc = "ask" /\ UNCHANGED <<settings, people, deliveries, crashes, changes>>
    BY <1>4 DEF AskSwitch
  <2>2. CASE \E value : Decide(m, value)
    BY <1>3, <2>1, <2>2 DEF TypeOK, settings, people, deliveries
  <2>3. CASE ~ \E value : Decide(m, value)
    <3>1. /\ fanout' = [fanout EXCEPT ![m].pc = "fill", ![m].seen = switch[f.channel]]
          /\ UNCHANGED log
      BY <1>4, <2>3 DEF AskSwitch
    <3>2. switch[f.channel] \in {"on", "off"}
      BY <1>1 DEF TypeOK, FanOutRow
    <3>3. /\ fanout' \in [Message -> FanOutRow]
          /\ fanout'[m].pc = "fill" /\ fanout'[m].channel = f.channel
          /\ fanout' = [fanout EXCEPT ![m] = fanout'[m]]
      BY <1>1, <3>1, <3>2 DEF TypeOK, FanOutRow
    <3>4. TypeOK'
      BY <2>1, <3>1, <3>3 DEF TypeOK, settings, people, deliveries
    <3>. QED BY <2>1, <3>3, <3>4, NothingNewAhead DEF QueuedOnce
  <2>. QED BY <2>2, <2>3
<1>5. CASE FillCache(m)
  <2>1. f.pc = "fill" /\ Decide(m, f.seen)
    BY <1>5 DEF FillCache
  <2>2. cached' \in [Channel -> {"on", "off", "none"}]
    BY <1>1, <1>5 DEF FillCache, TypeOK, FanOutRow
  <2>. QED BY <1>3, <1>5, <2>1, <2>2 DEF FillCache, TypeOK, people, deliveries
<1>6. CASE GatesUnread(m)
  <2>1. f.pc = "open" /\ fanout' = [fanout EXCEPT ![m] = NextChannel(f)]
    BY <1>6 DEF GatesUnread
  <2>2. fanout'[m] = NextChannel(f) /\ fanout' = [fanout EXCEPT ![m] = fanout'[m]]
    BY <2>1 DEF TypeOK
  <2>3. fanout' \in [Message -> FanOutRow]
    BY <1>1, <2>1, NextChannelTyped DEF TypeOK
  <2>4. TypeOK'
    BY <1>6, <2>3 DEF GatesUnread, TypeOK, settings, people, deliveries
  <2>. QED BY <1>1, <2>1, <2>2, <2>4, NextChannelTyped, NothingNewAhead DEF QueuedOnce
<1>. QED BY <1>2, <1>4, <1>5, <1>6

(* queue.add turns a delivery that was ahead into a waiting job.             *)
LEMMA AddressesTyped ==
  ASSUME TypeOK, NEW u \in Person, NEW c \in Channel
  PROVE  Addresses(u, c) \subseteq Account \cup {Mailbox}
BY DEF Addresses, AccountsOf

LEMMA QueueStep ==
  ASSUME TypeOK, QueuedOnce, NEW m \in Message, NEW u \in Person, QueueOne(m, u)
  PROVE  LET d == <<m, u, fanout[m].channel>> IN
         /\ TypeOK' /\ QueuedOnce'
         /\ d \in Delivery /\ job[d].state = "none"
         /\ UNCHANGED <<people, run, copies, faults>>
         /\ \/ job' = job
            \/ \E a : job' = [job EXCEPT ![d] = [@ EXCEPT !.state = "waiting", !.to = a]]
<1> DEFINE f == fanout[m]
           d == <<m, u, f.channel>>
           rest == [f EXCEPT !.left = @ \ {u}]
<1>1. f \in FanOutRow /\ f.pc = "open" /\ u \in f.left
  BY DEF TypeOK, QueueOne
<1>2. d \in Delivery /\ d[1] = m /\ Recipient(d) = u /\ Medium(d) = f.channel
  BY <1>1 DEF Delivery, Recipient, Medium, FanOutRow
<1>3. job[d].state = "none"
  BY <1>1, <1>2 DEF QueuedOnce, Ahead
<1>4. rest \in FanOutRow /\ rest.pc = "open" /\ rest.channel = f.channel
        /\ rest.left = f.left \ {u}
  BY <1>1 DEF FanOutRow
<1>5. fanout' = [fanout EXCEPT ![m] = IF rest.left = {} THEN NextChannel(rest) ELSE rest]
  BY DEF QueueOne
<1>6. UNCHANGED <<settings, people, run, copies, faults, crashes, changes>>
  BY DEF QueueOne
<1> HIDE DEF rest
<1>7. fanout' \in [Message -> FanOutRow] /\ fanout' = [fanout EXCEPT ![m] = fanout'[m]]
  BY <1>4, <1>5, NextChannelTyped DEF TypeOK
<1>8. ASSUME NEW e \in Delivery, Ahead(e)' PROVE Ahead(e) /\ e # d
  <2>1. fanout'[m] = IF rest.left = {} THEN NextChannel(rest) ELSE rest
    BY <1>5 DEF TypeOK
  <2>2. CASE rest.left = {}
    <3>1. fanout'[m].pc \in {"ask", "told"}
            /\ (fanout'[m].pc = "ask" => f.channel = "email" /\ fanout'[m].channel = "line")
      BY <1>4, <2>1, <2>2, NextChannelTyped
    <3>2. Ahead(e)
      BY <1>1, <1>7, <1>8, <3>1, NothingNewAhead
    <3>3. e # d
      BY <1>2, <1>8, <3>1 DEF Ahead
    <3>. QED BY <3>2, <3>3
  <2>3. CASE rest.left # {}
    <3>1. fanout'[m] = rest
      BY <2>1, <2>3
    <3>2. /\ Ahead(e)
          /\ e[1] = m /\ Medium(e) = f.channel => Recipient(e) \in f.left \ {u}
      BY <1>1, <1>4, <1>7, <1>8, <3>1, NothingNewAhead
    <3>. QED BY <1>2, <3>2
  <2>. QED BY <2>2, <2>3
<1>9. /\ job' \in [Delivery -> JobRow] /\ log' \in [Delivery -> SUBSET Row]
      /\ \/ job' = job
         \/ \E a : job' = [job EXCEPT ![d] = [@ EXCEPT !.state = "waiting", !.to = a]]
  <2>1. CASE job' = job
    <3>1. \E row \in Row : Audit({d}, row)
      BY DEF QueueOne, Row
    <3>. QED BY <2>1, <3>1, AuditTyped DEF TypeOK
  <2>2. CASE job' # job
    <3>1. PICK a \in Addresses(u, f.channel) :
            /\ job' = [job EXCEPT ![d] = [@ EXCEPT !.state = "waiting", !.to = a]]
            /\ Audit({d}, "queued")
      BY <2>2 DEF QueueOne
    <3>2. a \in Account \cup {Mailbox}
      <4>1. f.channel \in Channel
        BY <1>1 DEF FanOutRow
      <4>. QED BY <4>1, AddressesTyped
    <3>3. log' \in [Delivery -> SUBSET Row]
      BY <3>1, AuditTyped DEF Row
    <3>4. [job[d] EXCEPT !.state = "waiting", !.to = a] \in JobRow
      <4>1. job[d] \in JobRow
        <5> HIDE DEF d
        <5>. QED BY <1>2 DEF TypeOK
      <4>. QED BY <3>2, <4>1 DEF JobRow
    <3>5. job' = [job EXCEPT ![d] = [job[d] EXCEPT !.state = "waiting", !.to = a]]
      BY <3>1
    <3>6. job' \in [Delivery -> JobRow]
      <4> HIDE DEF d
      <4>. QED BY <1>2, <3>4, <3>5 DEF TypeOK
    <3>. QED BY <3>1, <3>3, <3>6
  <2>. QED BY <2>1, <2>2
<1>10. TypeOK'
  BY <1>6, <1>7, <1>9 DEF TypeOK, settings, people
<1>11. QueuedOnce'
  <2>1. \A e \in Delivery : e # d => job'[e] = job[e]
    BY <1>9
  <2>. QED BY <1>8, <2>1 DEF QueuedOnce
<1>. QED BY <1>2, <1>3, <1>6, <1>9, <1>10, <1>11 DEF d

-----------------------------------------------------------------------------
(* The other state of a delivery, step by step.  Deliveries that a step does *)
(* not touch stay sound and paid.                                            *)
Untouched(d) ==
  job'[d] = job[d] /\ run'[d] = run[d] /\ copies'[d] = copies[d] /\ faults'[d] = faults[d]

LEMMA UntouchedKept ==
  ASSUME NEW d \in Delivery, Untouched(d)
  PROVE  (JobSound(d) => JobSound(d)') /\ (Paid(d) => Paid(d)')
<1>1. JobSound(d) => JobSound(d)'
  BY DEF Untouched, JobSound
<1>2. Loose(d)' = Loose(d) /\ (Open(d)' <=> Open(d))
  BY DEF Untouched, Loose, Open
<1>. QED BY <1>1, <1>2 DEF Untouched, Paid

(* Settings.                                                                 *)
LEMMA SettingsTyped ==
  ASSUME TypeOK, SettingsStep
  PROVE  TypeOK' /\ UNCHANGED <<people, fanout, deliveries>>
<1>1. CASE UpdateSettings
  <2>1. switch' \in [Channel -> {"on", "off"}] /\ changes' \in 0..MaxChanges
    BY <1>1, Constants DEF UpdateSettings, Change, TypeOK
  <2>2. update' \in [Channel -> {"on", "off", "none"}]
    BY <1>1, <2>1 DEF UpdateSettings
  <2>. QED BY <1>1, <2>1, <2>2 DEF UpdateSettings, TypeOK, people, deliveries
<1>2. CASE WriteThrough
  BY <1>2 DEF WriteThrough, TypeOK, people, deliveries
<1>3. ASSUME NEW c \in Channel, CacheExpires(c)
      PROVE  TypeOK' /\ UNCHANGED <<people, fanout, deliveries>>
  BY <1>3 DEF CacheExpires, TypeOK, people, deliveries
<1>. QED BY <1>1, <1>2, <1>3 DEF SettingsStep

(* Changes of a user mark the runs of this user's deliveries, nothing else.  *)
LEMMA Overtaken ==
  ASSUME TypeOK, NEW u \in Person, Overtake(u)
  PROVE  /\ run' \in [Delivery -> [Runs -> RunRow]]
         /\ \A d \in Delivery, r \in Runs :
              /\ run'[d][r].pc = run[d][r].pc /\ run'[d][r].current = run[d][r].current
              /\ run'[d][r].posts = run[d][r].posts
              /\ run[d][r] = NoRun => run'[d][r] = NoRun
              /\ Recipient(d) # u => run'[d][r] = run[d][r]
              /\ Recipient(d) = u => run'[d][r] = NoRun \/ run'[d][r].overtaken
<1>1. ASSUME NEW d \in Delivery, NEW r \in Runs
      PROVE  /\ run'[d][r] \in RunRow
             /\ run'[d][r].pc = run[d][r].pc /\ run'[d][r].current = run[d][r].current
             /\ run'[d][r].posts = run[d][r].posts
             /\ run[d][r] = NoRun => run'[d][r] = NoRun
             /\ Recipient(d) # u => run'[d][r] = run[d][r]
             /\ Recipient(d) = u => run'[d][r] = NoRun \/ run'[d][r].overtaken
  <2>1. run[d][r] \in RunRow
    BY DEF TypeOK
  <2>2. run'[d][r] = IF Recipient(d) = u /\ run[d][r] # NoRun
                     THEN [run[d][r] EXCEPT !.overtaken = TRUE] ELSE run[d][r]
    BY DEF Overtake
  <2>3. LET x == [run[d][r] EXCEPT !.overtaken = TRUE]
        IN /\ x \in RunRow /\ x.pc = run[d][r].pc /\ x.posts = run[d][r].posts
           /\ x.current = run[d][r].current /\ x.overtaken
    BY <2>1 DEF RunRow
  <2>. QED BY <2>1, <2>2, <2>3
<1>2. run' = [d \in Delivery |-> [r \in Runs |-> run'[d][r]]]
  BY DEF Overtake
<1>. QED BY <1>1, <1>2

LEMMA PersonKeeps ==
  ASSUME TypeOK, NEW u \in Person,
         UpdateUser(u) \/ UnlinkAccount(u) \/ \E a \in Account : LinkAccount(u, a)
  PROVE  /\ TypeOK' /\ Overtake(u) /\ UNCHANGED <<fanout, job, copies, faults>>
         /\ \A v \in Person \ {u}, c \in Channel : Addresses(v, c)' = Addresses(v, c)
<1>1. /\ Overtake(u) /\ changes' \in 0..MaxChanges
      /\ UNCHANGED <<settings, fanout, job, log, copies, faults, crashes>>
  BY Constants DEF UpdateUser, UnlinkAccount, LinkAccount, Change, TypeOK
<1>2. run' \in [Delivery -> [Runs -> RunRow]]
  BY <1>1, Overtaken
<1>3. CASE UpdateUser(u)
  <2>1. prefs' \in [Person -> [email : BOOLEAN, line : BOOLEAN, verified : BOOLEAN]]
    <3>1. prefs[u] \in [email : BOOLEAN, line : BOOLEAN, verified : BOOLEAN]
      BY DEF TypeOK
    <3>2. \A x \in BOOLEAN : (~x) \in BOOLEAN
      BY Zenon
    <3>3. CASE prefs' = [prefs EXCEPT ![u].verified = ~@]
      BY <3>1, <3>2, <3>3 DEF TypeOK
    <3>4. CASE prefs' = [prefs EXCEPT ![u]["email"] = ~@]
      BY <3>1, <3>2, <3>4 DEF TypeOK
    <3>5. CASE prefs' = [prefs EXCEPT ![u]["line"] = ~@]
      BY <3>1, <3>2, <3>5 DEF TypeOK
    <3>. QED BY <1>3, <3>3, <3>4, <3>5 DEF UpdateUser, Channel
  <2>2. bound' = bound /\ \A v \in Person \ {u} : prefs'[v] = prefs[v]
    BY <1>3 DEF UpdateUser, TypeOK
  <2>3. \A v \in Person \ {u}, c \in Channel : Addresses(v, c)' = Addresses(v, c)
    BY <2>2 DEF Addresses, AccountsOf
  <2>. QED BY <1>1, <1>2, <2>1, <2>2, <2>3 DEF TypeOK, settings
<1>4. CASE UnlinkAccount(u)
  <2>1. /\ prefs' = prefs
        /\ bound' = [a \in Account |-> IF bound[a] = u THEN Nobody ELSE bound[a]]
    BY <1>4 DEF UnlinkAccount
  <2>2. bound' \in [Account -> Person \cup {Nobody}]
    BY <2>1 DEF TypeOK
  <2>3. \A v \in Person \ {u} : AccountsOf(v)' = AccountsOf(v)
    BY <2>1, DeliveryAssumption DEF AccountsOf
  <2>4. \A v \in Person \ {u}, c \in Channel : Addresses(v, c)' = Addresses(v, c)
    BY <2>1, <2>3 DEF Addresses
  <2>. QED BY <1>1, <1>2, <2>1, <2>2, <2>4 DEF TypeOK, settings
<1>5. ASSUME NEW a \in Account, LinkAccount(u, a)
      PROVE  /\ TypeOK'
             /\ \A v \in Person \ {u}, c \in Channel : Addresses(v, c)' = Addresses(v, c)
  <2>1. /\ prefs' = prefs /\ bound[a] \in {Nobody, u}
        /\ bound' = [b \in Account |-> IF b = a THEN u
                                      ELSE IF bound[b] = u THEN Nobody ELSE bound[b]]
    BY <1>5 DEF LinkAccount
  <2>2. bound' \in [Account -> Person \cup {Nobody}]
    BY <2>1 DEF TypeOK
  <2>3. \A v \in Person \ {u} : AccountsOf(v)' = AccountsOf(v)
    BY <2>1, DeliveryAssumption DEF AccountsOf
  <2>4. \A v \in Person \ {u}, c \in Channel : Addresses(v, c)' = Addresses(v, c)
    BY <2>1, <2>3 DEF Addresses
  <2>. QED BY <1>1, <1>2, <2>1, <2>2, <2>4 DEF TypeOK, settings
<1>. QED BY <1>1, <1>3, <1>4, <1>5

LEMMA PersonStepKeeps ==
  ASSUME DeliveryInvariant, PersonStep
  PROVE  DeliveryInvariant'
<1> USE DEF DeliveryInvariant
<1>1. PICK u \in Person :
        UpdateUser(u) \/ UnlinkAccount(u) \/ \E a \in Account : LinkAccount(u, a)
  BY DEF PersonStep
<1>2. /\ TypeOK' /\ Overtake(u) /\ UNCHANGED <<fanout, job, copies, faults>>
      /\ \A v \in Person \ {u}, c \in Channel : Addresses(v, c)' = Addresses(v, c)
  BY <1>1, PersonKeeps
<1>3. \A d \in Delivery, r \in Runs :
        /\ run'[d][r].pc = run[d][r].pc /\ run'[d][r].current = run[d][r].current
        /\ run[d][r] = NoRun => run'[d][r] = NoRun
        /\ Recipient(d) # u => run'[d][r] = run[d][r]
        /\ Recipient(d) = u => run'[d][r] = NoRun \/ run'[d][r].overtaken
  BY <1>2, Overtaken
<1>4. QueuedOnce'
  BY <1>2 DEF QueuedOnce, Ahead, Medium, Recipient
<1>5. ASSUME NEW d \in Delivery PROVE JobSound(d)' /\ Paid(d)'
  <2>1. JobSound(d)'
    BY <1>2, <1>3 DEF JobSound
  <2>2. Loose(d)' = Loose(d) /\ (Open(d)' <=> Open(d))
    BY <1>2, <1>3 DEF Loose, Open
  <2>. QED BY <1>2, <2>1, <2>2 DEF Paid
<1>6. Consented'
  <2>1. ASSUME NEW d \in Delivery, NEW r \in Runs, run'[d][r].pc \in {"post", "error"},
               ~run'[d][r].overtaken
        PROVE  job'[d].to \in Addresses(Recipient(d), Medium(d))'
    <3>1. Recipient(d) # u /\ run'[d][r] = run[d][r]
      BY <1>3, <2>1, RowsTyped
    <3>2. job[d].to \in Addresses(Recipient(d), Medium(d))
      BY <2>1, <3>1 DEF Consented
    <3>3. Recipient(d) \in Person \ {u} /\ Medium(d) \in Channel
      BY <3>1, MediumTyped
    <3>4. Addresses(Recipient(d), Medium(d))' = Addresses(Recipient(d), Medium(d))
      BY <1>2, <3>3 DEF Recipient, Medium
    <3>. QED BY <1>2, <3>2, <3>4
  <2>. QED BY <2>1 DEF Consented
<1>. QED BY <1>2, <1>4, <1>5, <1>6

-----------------------------------------------------------------------------
(* Steps of a job.  One run changes: what that does to the count of the      *)
(* loose ones.                                                               *)
IsLoose(x) == ~x.current /\ x.pc \in {"post", "error"}

LEMMA LooseFinite ==
  ASSUME NEW d
  PROVE  IsFiniteSet(Loose(d)) /\ Cardinality(Loose(d)) \in Nat
<1>1. IsFiniteSet(Runs)
  BY Constants, FS_Interval DEF Runs
<1>2. Loose(d) \subseteq Runs
  BY DEF Loose
<1>. QED BY <1>1, <1>2, FS_Subset, FS_CardinalityType

LEMMA LooseChange ==
  ASSUME TypeOK, NEW d \in Delivery, NEW r \in Runs, NEW x \in RunRow,
         run' = [run EXCEPT ![d][r] = x]
  PROVE  /\ Cardinality(Loose(d)') \in Nat /\ Cardinality(Loose(d)) \in Nat
         /\ Cardinality(Loose(d)') + (IF IsLoose(run[d][r]) THEN 1 ELSE 0)
              = Cardinality(Loose(d)) + (IF IsLoose(x) THEN 1 ELSE 0)
<1> DEFINE S == Loose(d) \ {r}
<1>1. IsFiniteSet(S) /\ r \notin S
  BY LooseFinite, FS_Subset
<1>2. /\ Cardinality(S) \in Nat
      /\ Cardinality(S \cup {r}) = Cardinality(S) + 1
  BY <1>1, FS_CardinalityType, FS_AddElement
<1>3. Loose(d) = IF IsLoose(run[d][r]) THEN S \cup {r} ELSE S
  BY DEF Loose, IsLoose
<1>4. run'[d][r] = x /\ \A s \in Runs \ {r} : run'[d][s] = run[d][s]
  BY DEF TypeOK
<1>5. Loose(d)' = IF IsLoose(x) THEN S \cup {r} ELSE S
  BY <1>4 DEF Loose, IsLoose
<1> HIDE DEF S
<1>. QED BY <1>2, <1>3, <1>5

(* What a step of one job has to show.                                       *)
LEMMA JobStepKeeps ==
  ASSUME DeliveryInvariant, NEW d \in Delivery, NEW r \in Runs,
         NEW j \in JobRow, NEW x \in RunRow, NEW n \in Nat, NEW k \in Nat,
         job[d].state # "none",
         job' = [job EXCEPT ![d] = j], run' = [run EXCEPT ![d][r] = x],
         copies' = [copies EXCEPT ![d] = n], faults' = [faults EXCEPT ![d] = k],
         log' \in [Delivery -> SUBSET Row],
         UNCHANGED <<settings, people, fanout, crashes, changes>>,
         j.state # "none", j.to = job[d].to,
         j.state \in {"waiting", "active"} => j.stalls <= MaxStalls /\ j.tries < MaxTries,
         \A s \in Runs \ {r} : run[d][s].current => j.state = "active" /\ ~x.current,
         x.current => j.state = "active",
         x.pc \in {"post", "error"} /\ ~x.overtaken =>
           j.to \in Addresses(Recipient(d), Medium(d)),
         Paid(d)'
  PROVE  DeliveryInvariant'
<1> USE DEF DeliveryInvariant
<1>1. /\ job'[d] = j /\ run'[d][r] = x
      /\ \A s \in Runs \ {r} : run'[d][s] = run[d][s]
      /\ \A e \in Delivery \ {d} : Untouched(e)
  BY DEF TypeOK, Untouched
<1>2. TypeOK'
  <2>1. /\ job' \in [Delivery -> JobRow] /\ run' \in [Delivery -> [Runs -> RunRow]]
        /\ copies' \in [Delivery -> Nat] /\ faults' \in [Delivery -> Nat]
    BY DEF TypeOK
  <2>. QED BY <2>1 DEF TypeOK, settings, people
<1>3. JobSound(d)'
  BY <1>1 DEF JobSound
<1>4. \A e \in Delivery : JobSound(e)' /\ Paid(e)'
  BY <1>1, <1>3, UntouchedKept
<1>5. QueuedOnce'
  <2>1. \A e \in Delivery : Ahead(e)' <=> Ahead(e)
    BY DEF Ahead, Medium, Recipient
  <2>2. ~Ahead(d)
    BY DEF QueuedOnce
  <2>. QED BY <1>1, <2>1, <2>2 DEF QueuedOnce, Untouched
<1>6. Consented'
  <2>1. \A e \in Delivery : Addresses(Recipient(e), Medium(e))' = Addresses(Recipient(e), Medium(e))
    BY DEF Addresses, AccountsOf, Recipient, Medium, people
  <2>2. ASSUME NEW e \in Delivery, NEW s \in Runs,
               run'[e][s].pc \in {"post", "error"}, ~run'[e][s].overtaken
        PROVE  job'[e].to \in Addresses(Recipient(e), Medium(e))
    <3>1. CASE e # d
      BY <1>1, <2>2, <3>1 DEF Untouched, Consented
    <3>2. CASE e = d /\ s # r
      BY <1>1, <2>2, <3>2 DEF Consented
    <3>3. CASE e = d /\ s = r
      BY <1>1, <2>2, <3>3
    <3>. QED BY <3>1, <3>2, <3>3
  <2>. QED BY <2>1, <2>2 DEF Consented
<1>. QED BY <1>2, <1>4, <1>5, <1>6

LEMMA DeliveryRows ==
  ASSUME TypeOK, NEW d \in Delivery, NEW r \in Runs
  PROVE  /\ job[d] \in JobRow /\ run[d][r] \in RunRow
         /\ copies[d] \in Nat /\ faults[d] \in Nat
         /\ job = [job EXCEPT ![d] = job[d]] /\ run = [run EXCEPT ![d][r] = run[d][r]]
         /\ copies = [copies EXCEPT ![d] = copies[d]]
         /\ faults = [faults EXCEPT ![d] = faults[d]]
BY DEF TypeOK

(* A run starts: what it begins with, and what is reported of it.            *)
LEMMA StartedTyped ==
  ASSUME NEW pc \in {"post", "done", "retry"}
  PROVE  LET x == [NoRun EXCEPT !.pc = pc, !.current = TRUE]
         IN  /\ x \in RunRow /\ x.pc = pc /\ x.current /\ x.posts = 0 /\ ~x.overtaken
<1>1. NoRun.posts = 0 /\ 0 \in 0..(MaxPosts - 1) /\ NoRun.overtaken = FALSE
  BY Constants DEF NoRun
<1>. QED BY <1>1, RowsTyped DEF RunRow

LEMMA AuditGrows ==
  ASSUME TypeOK, NEW d \in Delivery, NEW row, Audit({d}, row)
  PROVE  row \in log'[d] /\ \A e \in Delivery : log[e] \subseteq log'[e]
BY DEF TypeOK, Audit

LEMMA PickupStep ==
  ASSUME TypeOK, NEW d \in Delivery, NEW r \in Runs, Pickup(d, r)
  PROVE  \E pc \in {"post", "done", "retry"}, k \in Nat :
           /\ Starts(d, r, pc)
           /\ faults' = [faults EXCEPT ![d] = k]
           /\ k = IF pc = "retry" THEN faults[d] + 1 ELSE faults[d]
           /\ log' \in [Delivery -> SUBSET Row]
           /\ \A e \in Delivery : log[e] \subseteq log'[e]
           /\ pc = "post" => Reachable(d)
           /\ pc = "done" /\ Medium(d) = "line" => log'[d] \cap {"skipped", "refused"} # {}
<1>1. faults[d] \in Nat /\ faults = [faults EXCEPT ![d] = faults[d]] /\ faults[d] + 1 \in Nat
  BY DEF TypeOK
<1>2. ASSUME UNCHANGED log
      PROVE  log' \in [Delivery -> SUBSET Row] /\ \A e \in Delivery : log[e] \subseteq log'[e]
  BY <1>2 DEF TypeOK
<1>3. CASE Reachable(d) /\ Starts(d, r, "post") /\ UNCHANGED <<log, faults>>
  BY <1>1, <1>2, <1>3
<1>4. CASE Starts(d, r, "done") /\ Audit({d}, "skipped") /\ UNCHANGED faults
  BY <1>1, <1>4, AuditTyped, AuditGrows DEF Row
<1>5. CASE Starts(d, r, "done") /\ Audit({d}, "refused") /\ UNCHANGED faults
  BY <1>1, <1>5, AuditTyped, AuditGrows DEF Row
<1>6. CASE Starts(d, r, "done") /\ Medium(d) = "email" /\ UNCHANGED <<log, faults>>
  BY <1>1, <1>2, <1>6
<1>7. CASE /\ Starts(d, r, "retry") /\ faults' = [faults EXCEPT ![d] = @ + 1]
           /\ UNCHANGED log
  BY <1>1, <1>2, <1>7
<1>. QED BY <1>3, <1>4, <1>5, <1>6, <1>7 DEF Pickup

LEMMA PickupKeeps ==
  ASSUME DeliveryInvariant, NEW d \in Delivery, NEW r \in Runs, Pickup(d, r)
  PROVE  DeliveryInvariant'
<1> DEFINE j == [job[d] EXCEPT !.state = "active"]
<1>1. /\ job[d].state = "waiting" /\ run[d][r] = NoRun /\ job' = [job EXCEPT ![d] = j]
      /\ UNCHANGED <<settings, people, fanout, copies, crashes, changes>>
  BY DEF Pickup, DeliveryInvariant, TypeOK
<1>2. TypeOK /\ JobSound(d) /\ Paid(d)
  BY DEF DeliveryInvariant
<1>3. PICK pc \in {"post", "done", "retry"}, k \in Nat :
        /\ Starts(d, r, pc)
        /\ faults' = [faults EXCEPT ![d] = k]
        /\ k = IF pc = "retry" THEN faults[d] + 1 ELSE faults[d]
        /\ log' \in [Delivery -> SUBSET Row]
        /\ pc = "post" => Reachable(d)
  BY <1>2, PickupStep
<1> DEFINE x == [NoRun EXCEPT !.pc = pc, !.current = TRUE]
<1>4. \A s \in Runs : ~run[d][s].current
  BY <1>1, <1>2 DEF JobSound
<1>5. /\ j \in JobRow /\ j.to = job[d].to /\ j.stalls = job[d].stalls
      /\ j.tries = job[d].tries /\ j.state = "active"
  BY <1>2, DeliveryRows DEF JobRow
<1>6. x \in RunRow /\ x.pc = pc /\ x.current
  BY StartedTyped
<1>7. run' = [run EXCEPT ![d][r] = x]
  BY <1>3 DEF Starts
<1>8. /\ copies' = [copies EXCEPT ![d] = copies[d]]
      /\ copies[d] \in Nat /\ faults[d] \in Nat /\ faults'[d] = k /\ faults[d] <= k
      /\ copies'[d] = copies[d]
  BY <1>1, <1>2, <1>3, DeliveryRows DEF TypeOK
<1> HIDE DEF j, x
<1>9. Paid(d)'
  <2>1. Open(d)
    BY <1>1 DEF Open
  <2>2. ~IsLoose(x) /\ ~IsLoose(run[d][r])
    BY <1>1, <1>6, RowsTyped DEF IsLoose
  <2>3. Cardinality(Loose(d)') = Cardinality(Loose(d)) /\ Cardinality(Loose(d)) \in Nat
    <3>1. /\ Cardinality(Loose(d)') \in Nat /\ Cardinality(Loose(d)) \in Nat
          /\ Cardinality(Loose(d)') + (IF IsLoose(run[d][r]) THEN 1 ELSE 0)
                = Cardinality(Loose(d)) + (IF IsLoose(x) THEN 1 ELSE 0)
      BY <1>2, <1>6, <1>7, LooseChange
    <3>. QED BY <2>2, <3>1
  <2>. QED BY <1>2, <1>8, <2>1, <2>3 DEF Paid
<1>10. x.pc \in {"post", "error"} /\ ~x.overtaken =>
         j.to \in Addresses(Recipient(d), Medium(d))
  BY <1>3, <1>5, <1>6 DEF Reachable
<1>11. job[d].stalls <= MaxStalls /\ job[d].tries < MaxTries
  BY <1>1, <1>2 DEF JobSound
<1>12. UNCHANGED <<settings, people, fanout, crashes, changes>>
  BY <1>1
<1>13. /\ job[d].state # "none" /\ j.state # "none"
       /\ j.state \in {"waiting", "active"} => j.stalls <= MaxStalls /\ j.tries < MaxTries
       /\ x.current => j.state = "active"
       /\ \A s \in Runs \ {r} : run[d][s].current => j.state = "active" /\ ~x.current
  BY <1>1, <1>4, <1>5, <1>11
<1>. QED BY <1>1, <1>3, <1>5, <1>6, <1>7, <1>8, <1>9, <1>10, <1>12, <1>13, JobStepKeeps

LEMMA PostKeeps ==
  ASSUME DeliveryInvariant, NEW d \in Delivery, NEW r \in Runs, Post(d, r)
  PROVE  DeliveryInvariant'
<1>1. PICK answer \in {"accepted", "error", "refused", "odd"}, taken \in BOOLEAN :
        /\ answer = "accepted" => taken
        /\ answer \in {"refused", "odd"} => ~taken
        /\ run' = [run EXCEPT ![d][r].pc = answer]
        /\ copies' = [copies EXCEPT ![d] = IF taken THEN @ + 1 ELSE @]
        /\ faults' = [faults EXCEPT ![d] = IF answer \in {"error", "odd"} THEN @ + 1 ELSE @]
  BY DEF Post
<1>2. TypeOK /\ JobSound(d) /\ Paid(d) /\ run[d][r].pc = "post"
        /\ UNCHANGED <<settings, people, fanout, job, log, crashes, changes>>
  BY DEF DeliveryInvariant, Post
<1> DEFINE x == [run[d][r] EXCEPT !.pc = answer]
           n == IF taken THEN copies[d] + 1 ELSE copies[d]
           k == IF answer \in {"error", "odd"} THEN faults[d] + 1 ELSE faults[d]
<1>3. /\ job[d] \in JobRow /\ run[d][r] \in RunRow /\ job' = [job EXCEPT ![d] = job[d]]
      /\ copies[d] \in Nat /\ faults[d] \in Nat
  BY <1>2, DeliveryRows
<1>4. /\ x \in RunRow /\ x.pc = answer /\ x.current = run[d][r].current
      /\ x.overtaken = run[d][r].overtaken
  BY <1>3 DEF RunRow
<1>5. /\ run' = [run EXCEPT ![d][r] = x]
      /\ copies' = [copies EXCEPT ![d] = n] /\ faults' = [faults EXCEPT ![d] = k]
      /\ n \in Nat /\ k \in Nat
  BY <1>1, <1>2, <1>3 DEF TypeOK
<1>6. run[d][r] # NoRun /\ job[d].state # "none"
  BY <1>2, RowsTyped DEF JobSound
<1>7. ~run[d][r].overtaken => job[d].to \in Addresses(Recipient(d), Medium(d))
  BY <1>2 DEF DeliveryInvariant, Consented
<1>8. /\ job[d].state \in {"waiting", "active"} =>
           job[d].stalls <= MaxStalls /\ job[d].tries < MaxTries
      /\ \A s \in Runs \ {r} : run[d][s].current =>
           job[d].state = "active" /\ ~run[d][r].current
      /\ run[d][r].current => job[d].state = "active"
  BY <1>2 DEF JobSound
<1> HIDE DEF x, n, k
<1>9. Paid(d)'
  <2>1. /\ Cardinality(Loose(d)') \in Nat /\ Cardinality(Loose(d)) \in Nat
        /\ Cardinality(Loose(d)') + (IF IsLoose(run[d][r]) THEN 1 ELSE 0)
              = Cardinality(Loose(d)) + (IF IsLoose(x) THEN 1 ELSE 0)
    BY <1>2, <1>4, <1>5, LooseChange
  <2>2. copies'[d] = n /\ faults'[d] = k
    BY <1>2, <1>5 DEF TypeOK
  <2>3. /\ IsLoose(run[d][r]) <=> ~run[d][r].current
        /\ IsLoose(x) <=> ~run[d][r].current /\ answer = "error"
    BY <1>1, <1>2, <1>4 DEF IsLoose
  <2>4. run'[d][r] = x /\ \A s \in Runs \ {r} : run'[d][s] = run[d][s]
    BY <1>2, <1>5 DEF TypeOK
  <2>5. CASE run[d][r].current
    <3>1. Open(d)
      BY <1>2, <1>8, <2>5 DEF Open
    <3>2. Open(d)' => answer \in {"error", "odd"}
      BY <1>1, <1>2, <1>4, <1>8, <2>4, <2>5 DEF Open
    <3>3. n <= copies[d] + 1 /\ (answer \in {"refused", "odd"} => n = copies[d])
      BY <1>1, <1>3 DEF n
    <3>4. k = IF answer \in {"error", "odd"} THEN faults[d] + 1 ELSE faults[d]
      BY DEF k
    <3>. QED BY <1>2, <1>3, <1>5, <2>1, <2>2, <2>3, <2>5, <3>1, <3>2, <3>3, <3>4 DEF Paid
  <2>6. CASE ~run[d][r].current
    <3>1. Open(d)' <=> Open(d)
      BY <1>2, <1>4, <2>4, <2>6 DEF Open
    <3>2. n <= copies[d] + 1 /\ (answer \in {"refused", "odd"} => n = copies[d])
      BY <1>1, <1>3 DEF n
    <3>3. k = IF answer \in {"error", "odd"} THEN faults[d] + 1 ELSE faults[d]
      BY DEF k
    <3>. QED BY <1>2, <1>3, <1>5, <2>1, <2>2, <2>3, <2>6, <3>1, <3>2, <3>3 DEF Paid
  <2>. QED BY <2>5, <2>6
<1>10. log' \in [Delivery -> SUBSET Row] /\ UNCHANGED <<settings, people, fanout, crashes, changes>>
  BY <1>2 DEF TypeOK
<1>11. /\ \A s \in Runs \ {r} : run[d][s].current => job[d].state = "active" /\ ~x.current
       /\ x.current => job[d].state = "active"
       /\ x.pc \in {"post", "error"} /\ ~x.overtaken =>
            job[d].to \in Addresses(Recipient(d), Medium(d))
  BY <1>4, <1>6, <1>7, <1>8
<1>. QED BY <1>3, <1>4, <1>5, <1>6, <1>8, <1>9, <1>10, <1>11, JobStepKeeps

(* A run that returns: to another post, or to its end.                       *)
LEMMA ReturnKeeps ==
  ASSUME DeliveryInvariant, NEW d \in Delivery, NEW r \in Runs, Return(d, r)
  PROVE  DeliveryInvariant'
<1> DEFINE old == run[d][r]
<1>1. TypeOK /\ JobSound(d) /\ Paid(d)
        /\ UNCHANGED <<settings, people, fanout, job, copies, faults, crashes, changes>>
  BY DEF DeliveryInvariant, Return
<1>2. /\ job[d] \in JobRow /\ old \in RunRow /\ job = [job EXCEPT ![d] = job[d]]
      /\ copies[d] \in Nat /\ faults[d] \in Nat
      /\ copies' = [copies EXCEPT ![d] = copies[d]] /\ faults' = [faults EXCEPT ![d] = faults[d]]
  BY <1>1, DeliveryRows
<1>3. old # NoRun /\ job[d].state # "none"
        /\ old.pc \in {"accepted", "refused", "error", "odd"}
  <2>1. old.pc \in {"accepted", "refused", "error", "odd"}
    BY DEF Return
  <2>2. old # NoRun
    BY <2>1, RowsTyped
  <2>. QED BY <1>1, <2>1, <2>2 DEF JobSound
<1>4. old.pc = "error" /\ ~old.overtaken => job[d].to \in Addresses(Recipient(d), Medium(d))
  BY DEF DeliveryInvariant, Consented
<1>5. /\ job[d].state \in {"waiting", "active"} =>
           job[d].stalls <= MaxStalls /\ job[d].tries < MaxTries
      /\ \A s \in Runs \ {r} : run[d][s].current => job[d].state = "active" /\ ~old.current
      /\ old.current => job[d].state = "active"
      /\ old.current => \A s \in Runs \ {r} : ~run[d][s].current
  BY <1>1 DEF JobSound
<1>6. CASE /\ old.pc = "error" /\ PostAgain(old.posts)
           /\ run' = [run EXCEPT ![d][r] = [old EXCEPT !.pc = "post", !.posts = @ + 1]]
           /\ UNCHANGED log
  <2> DEFINE x == [old EXCEPT !.pc = "post", !.posts = @ + 1]
  <2>1. /\ x \in RunRow /\ x.current = old.current /\ x.overtaken = old.overtaken
        /\ x.pc = "post"
    <3>1. old.posts + 1 \in 0..(MaxPosts - 1)
      BY <1>2, <1>6, Constants DEF PostAgain, RunRow
    <3>. QED BY <1>2, <3>1 DEF RunRow
  <2>2. run' = [run EXCEPT ![d][r] = x] /\ job' = [job EXCEPT ![d] = job[d]]
          /\ log' \in [Delivery -> SUBSET Row]
    <3>1. run' = [run EXCEPT ![d][r] = x]
      BY <1>6
    <3>2. job' = [job EXCEPT ![d] = job[d]]
      BY <1>1, <1>2, Zenon
    <3>3. log' \in [Delivery -> SUBSET Row]
      BY <1>1, <1>6 DEF TypeOK
    <3>. QED BY <3>1, <3>2, <3>3
  <2> HIDE DEF x
  <2>3. Paid(d)'
    <3>1. /\ Cardinality(Loose(d)') \in Nat /\ Cardinality(Loose(d)) \in Nat
          /\ Cardinality(Loose(d)') + (IF IsLoose(old) THEN 1 ELSE 0)
                = Cardinality(Loose(d)) + (IF IsLoose(x) THEN 1 ELSE 0)
      BY <1>1, <2>1, <2>2, LooseChange
    <3>2. IsLoose(x) <=> IsLoose(old)
      BY <1>6, <2>1 DEF IsLoose
    <3>3. run'[d][r] = x /\ (\A s \in Runs \ {r} : run'[d][s] = run[d][s]) /\ job'[d] = job[d]
      BY <1>1, <2>2 DEF TypeOK
    <3>4. Open(d)' <=> Open(d)
      BY <1>6, <2>1, <3>3 DEF Open
    <3>. QED BY <1>1, <3>1, <3>2, <3>4 DEF Paid
  <2>4. x.pc \in {"post", "error"} /\ ~x.overtaken =>
          job[d].to \in Addresses(Recipient(d), Medium(d))
    BY <1>4, <1>6, <2>1
  <2>5. /\ \A s \in Runs \ {r} : run[d][s].current => job[d].state = "active" /\ ~x.current
        /\ x.current => job[d].state = "active"
        /\ UNCHANGED <<settings, people, fanout, crashes, changes>>
    BY <1>1, <1>5, <2>1
  <2>. QED BY <1>2, <1>3, <1>5, <2>1, <2>2, <2>3, <2>4, <2>5, JobStepKeeps
<1>7. ASSUME NEW row \in Row, NEW end \in {"done", "retry"}, EndRun(d, r, row, end),
             end = "done" \/ old.pc \in {"error", "odd"}
      PROVE  DeliveryInvariant'
  <2> DEFINE x == [old EXCEPT !.pc = end]
  <2>1. /\ x \in RunRow /\ x.current = old.current /\ x.pc = end /\ ~IsLoose(x)
    BY <1>2 DEF RunRow, IsLoose
  <2>2. /\ run' = [run EXCEPT ![d][r] = x] /\ job' = [job EXCEPT ![d] = job[d]]
        /\ log' \in [Delivery -> SUBSET Row]
    <3>1. run' = [run EXCEPT ![d][r] = x]
      BY <1>1, <1>7 DEF EndRun, TypeOK
    <3>2. job' = [job EXCEPT ![d] = job[d]]
      BY <1>1, <1>2, Zenon
    <3>3. log' \in [Delivery -> SUBSET Row]
      BY <1>1, <1>7, AuditTyped DEF EndRun
    <3>. QED BY <3>1, <3>2, <3>3
  <2> HIDE DEF x
  <2>3. Paid(d)'
    <3>1. /\ Cardinality(Loose(d)') \in Nat /\ Cardinality(Loose(d)) \in Nat
          /\ Cardinality(Loose(d)') + (IF IsLoose(old) THEN 1 ELSE 0)
                = Cardinality(Loose(d)) + (IF IsLoose(x) THEN 1 ELSE 0)
      BY <1>1, <2>1, <2>2, LooseChange
    <3>2. run'[d][r] = x /\ (\A s \in Runs \ {r} : run'[d][s] = run[d][s]) /\ job'[d] = job[d]
      BY <1>1, <2>2 DEF TypeOK
    <3>3. Open(d)' => Open(d)
      BY <1>7, <2>1, <3>2 DEF Open
    <3>4. Cardinality(Loose(d)') <= Cardinality(Loose(d))
      BY <2>1, <3>1
    <3>. QED BY <1>1, <1>2, <3>1, <3>3, <3>4 DEF Paid
  <2>4. /\ \A s \in Runs \ {r} : run[d][s].current => job[d].state = "active" /\ ~x.current
        /\ x.current => job[d].state = "active"
        /\ UNCHANGED <<settings, people, fanout, crashes, changes>>
        /\ ~(x.pc \in {"post", "error"})
    BY <1>1, <1>5, <2>1
  <2>. QED BY <1>2, <1>3, <1>5, <2>1, <2>2, <2>3, <2>4, JobStepKeeps
<1>. QED BY <1>6, <1>7 DEF Return, Row

(* Bull records how the run it follows has ended.                            *)
LEMMA FinishKeeps ==
  ASSUME DeliveryInvariant, NEW d \in Delivery, NEW r \in Runs, Finish(d, r)
  PROVE  DeliveryInvariant'
<1> DEFINE old == run[d][r]
           j == IF old.current THEN Concluded(d, old.pc) ELSE job[d]
<1>1. /\ TypeOK /\ JobSound(d) /\ Paid(d) /\ old.pc \in {"done", "retry"}
      /\ UNCHANGED <<settings, people, fanout, copies, faults, log, crashes, changes>>
  BY DEF DeliveryInvariant, Finish
<1>2. /\ job[d] \in JobRow /\ old \in RunRow /\ job = [job EXCEPT ![d] = job[d]]
      /\ copies[d] \in Nat /\ faults[d] \in Nat
      /\ copies' = [copies EXCEPT ![d] = copies[d]] /\ faults' = [faults EXCEPT ![d] = faults[d]]
  BY <1>1, DeliveryRows
<1>3. job[d].state # "none"
  BY <1>1, RowsTyped DEF JobSound
<1>4. /\ job[d].state \in {"waiting", "active"} =>
           job[d].stalls <= MaxStalls /\ job[d].tries < MaxTries
      /\ \A s \in Runs \ {r} : run[d][s].current => job[d].state = "active" /\ ~old.current
      /\ old.current => job[d].state = "active"
      /\ old.current => \A s \in Runs \ {r} : ~run[d][s].current
  BY <1>1 DEF JobSound
<1>5. old.current =>
        /\ Again(job[d]) \in JobRow /\ Again(job[d]).state \in {"waiting", "failed"}
        /\ Again(job[d]).to = job[d].to /\ Again(job[d]).stalls = job[d].stalls
        /\ Again(job[d]).state = "waiting" => Again(job[d]).tries < MaxTries
  BY <1>2, <1>4, AgainTyped
<1>6. /\ [job[d] EXCEPT !.state = "completed"] \in JobRow
      /\ [job[d] EXCEPT !.state = "completed"].state = "completed"
      /\ [job[d] EXCEPT !.state = "completed"].to = job[d].to
  BY <1>2 DEF JobRow
<1>7. /\ j \in JobRow /\ j.state # "none" /\ j.to = job[d].to
      /\ j.state \in {"waiting", "active"} => j.stalls <= MaxStalls /\ j.tries < MaxTries
      /\ ~old.current => j = job[d]
      /\ old.current => \/ j.state = "completed"
                        \/ old.pc = "retry" /\ j.state \in {"waiting", "failed"}
  BY <1>1, <1>2, <1>3, <1>4, <1>5, <1>6 DEF Concluded
<1>8. /\ job' = [job EXCEPT ![d] = j] /\ run' = [run EXCEPT ![d][r] = NoRun]
      /\ log' \in [Delivery -> SUBSET Row]
  BY <1>1, <1>2 DEF Finish, TypeOK
<1> HIDE DEF j
<1>9. Paid(d)'
  <2>1. /\ Cardinality(Loose(d)') \in Nat /\ Cardinality(Loose(d)) \in Nat
        /\ Cardinality(Loose(d)') + (IF IsLoose(old) THEN 1 ELSE 0)
              = Cardinality(Loose(d)) + (IF IsLoose(NoRun) THEN 1 ELSE 0)
    BY <1>1, <1>8, RowsTyped, LooseChange
  <2>2. ~IsLoose(NoRun) /\ ~IsLoose(old)
    BY <1>1, RowsTyped DEF IsLoose
  <2>3. run'[d][r] = NoRun /\ (\A s \in Runs \ {r} : run'[d][s] = run[d][s]) /\ job'[d] = j
    BY <1>1, <1>8 DEF TypeOK
  <2>4. Open(d)' => Open(d)
    <3>1. CASE old.current
      BY <1>4, <1>7, <2>3, <3>1 DEF Open
    <3>2. CASE ~old.current
      BY <1>7, <2>3, <3>2 DEF Open
    <3>. QED BY <3>1, <3>2
  <2>. QED BY <1>1, <1>2, <2>1, <2>2, <2>4 DEF Paid
<1>10. /\ \A s \in Runs \ {r} : run[d][s].current => j.state = "active" /\ ~NoRun.current
       /\ NoRun.current => j.state = "active"
       /\ UNCHANGED <<settings, people, fanout, crashes, changes>>
       /\ ~(NoRun.pc \in {"post", "error"})
  BY <1>1, <1>4, <1>7, RowsTyped
<1>. QED BY <1>2, <1>3, <1>7, <1>8, <1>9, <1>10, RowsTyped, JobStepKeeps

(* Bull gives up on a run that goes on.                                      *)
LEMMA TimeoutKeeps ==
  ASSUME DeliveryInvariant, NEW d \in Delivery, NEW r \in Runs, Timeout(d, r)
  PROVE  DeliveryInvariant'
<1> DEFINE old == run[d][r]
           x == [old EXCEPT !.current = FALSE]
           j == Again(job[d])
           k == faults[d] + 1
<1>1. /\ TypeOK /\ JobSound(d) /\ Paid(d) /\ old.current
      /\ UNCHANGED <<settings, people, fanout, log, copies, crashes, changes>>
  BY DEF DeliveryInvariant, Timeout
<1>2. /\ job[d] \in JobRow /\ old \in RunRow /\ copies[d] \in Nat /\ faults[d] \in Nat
      /\ copies' = [copies EXCEPT ![d] = copies[d]]
  BY <1>1, DeliveryRows
<1>3. /\ job[d].state = "active" /\ job[d].stalls <= MaxStalls /\ job[d].tries < MaxTries
      /\ \A s \in Runs \ {r} : ~run[d][s].current
      /\ old # NoRun
  BY <1>1, RowsTyped DEF JobSound
<1>4. /\ j \in JobRow /\ j.state \in {"waiting", "failed"}
      /\ j.to = job[d].to /\ j.stalls = job[d].stalls
      /\ j.state = "waiting" => j.tries < MaxTries
  BY <1>2, <1>3, AgainTyped
<1>5. /\ x \in RunRow /\ ~x.current /\ x.pc = old.pc /\ x.overtaken = old.overtaken
  BY <1>2 DEF RunRow
<1>6. /\ run' = [run EXCEPT ![d][r] = x] /\ job' = [job EXCEPT ![d] = j]
      /\ faults' = [faults EXCEPT ![d] = k] /\ k \in Nat
      /\ log' \in [Delivery -> SUBSET Row]
  BY <1>1, <1>2 DEF Timeout, TypeOK
<1>7. old.pc \in {"post", "error"} /\ ~old.overtaken =>
        job[d].to \in Addresses(Recipient(d), Medium(d))
  BY DEF DeliveryInvariant, Consented
<1>8. Paid(d)'
  <2>1. /\ Cardinality(Loose(d)') \in Nat /\ Cardinality(Loose(d)) \in Nat
        /\ Cardinality(Loose(d)') + (IF IsLoose(old) THEN 1 ELSE 0)
              = Cardinality(Loose(d)) + (IF IsLoose(x) THEN 1 ELSE 0)
    BY <1>1, <1>5, <1>6, LooseChange
  <2>2. ~IsLoose(old)
    BY <1>1 DEF IsLoose
  <2>3. IsLoose(x) => Open(d)
    BY <1>3, <1>5 DEF IsLoose, Open
  <2>4. faults'[d] = faults[d] + 1 /\ copies'[d] = copies[d]
    BY <1>1, <1>6 DEF TypeOK
  <2> HIDE DEF x
  <2>. QED BY <1>1, <1>2, <2>1, <2>2, <2>3, <2>4 DEF Paid
<1> HIDE DEF x, j, k
<1>9. /\ job[d].state # "none" /\ j.state # "none"
      /\ j.state \in {"waiting", "active"} => j.stalls <= MaxStalls /\ j.tries < MaxTries
      /\ \A s \in Runs \ {r} : run[d][s].current => j.state = "active" /\ ~x.current
      /\ x.current => j.state = "active"
      /\ x.pc \in {"post", "error"} /\ ~x.overtaken =>
           j.to \in Addresses(Recipient(d), Medium(d))
  BY <1>3, <1>4, <1>5, <1>7
<1>10. UNCHANGED <<settings, people, fanout, crashes, changes>>
  BY <1>1
<1>. QED BY <1>2, <1>4, <1>5, <1>6, <1>8, <1>9, <1>10, JobStepKeeps

(* A job that nobody works on is handed out again, or fails.                 *)
LEMMA StalledKeeps ==
  ASSUME DeliveryInvariant, NEW d \in Delivery, Stalled(d)
  PROVE  DeliveryInvariant'
<1> DEFINE j == [job[d] EXCEPT
                   !.stalls = @ + 1,
                   !.state = IF job[d].stalls < MaxStalls THEN "waiting" ELSE "failed"]
           x == run[d][1]
<1>1. /\ TypeOK /\ JobSound(d) /\ Paid(d)
      /\ job[d].state = "active" /\ (\A r \in Runs : ~run[d][r].current)
      /\ UNCHANGED <<settings, people, fanout, run, log, copies, faults, crashes, changes>>
  BY DEF DeliveryInvariant, Stalled
<1>2. 1 \in Runs
  BY Constants DEF Runs
<1>3. /\ job[d] \in JobRow /\ x \in RunRow /\ copies[d] \in Nat /\ faults[d] \in Nat
      /\ run = [run EXCEPT ![d][1] = x]
      /\ copies = [copies EXCEPT ![d] = copies[d]] /\ faults = [faults EXCEPT ![d] = faults[d]]
  BY <1>1, <1>2, DeliveryRows
<1>4. job[d].stalls <= MaxStalls /\ job[d].tries < MaxTries
  BY <1>1 DEF JobSound
<1>5. /\ j \in JobRow /\ j.to = job[d].to /\ j.tries = job[d].tries
      /\ j.state \in {"waiting", "failed"}
      /\ j.state = "waiting" => j.stalls <= MaxStalls
  <2>1. job[d].stalls + 1 \in 0..(MaxStalls + 1)
    BY <1>3, <1>4, Constants DEF JobRow
  <2>2. /\ j.stalls = job[d].stalls + 1 /\ j.to = job[d].to /\ j.tries = job[d].tries
        /\ j.state = IF job[d].stalls < MaxStalls THEN "waiting" ELSE "failed"
    BY <1>3 DEF JobRow
  <2>3. j \in JobRow
    BY <1>3, <2>1 DEF JobRow
  <2>. QED BY <1>3, <2>2, <2>3, Constants DEF JobRow
<1>6. job' = [job EXCEPT ![d] = j]
  BY DEF Stalled
<1>7. /\ run' = [run EXCEPT ![d][1] = x]
      /\ copies' = [copies EXCEPT ![d] = copies[d]]
      /\ faults' = [faults EXCEPT ![d] = faults[d]]
  BY <1>1, <1>3
<1>8. Paid(d)'
  <2>1. Loose(d)' = Loose(d) /\ Open(d)
    BY <1>1 DEF Loose, Open
  <2>2. Cardinality(Loose(d)) \in Nat
    BY LooseFinite
  <2>. QED BY <1>1, <1>3, <2>1, <2>2 DEF Paid
<1>9. x.pc \in {"post", "error"} /\ ~x.overtaken =>
        j.to \in Addresses(Recipient(d), Medium(d))
  BY <1>2, <1>5 DEF DeliveryInvariant, Consented
<1> HIDE DEF j, x
<1>10. log' \in [Delivery -> SUBSET Row] /\ UNCHANGED <<settings, people, fanout, crashes, changes>>
  BY <1>1 DEF TypeOK
<1>11. /\ job[d].state # "none" /\ j.state # "none"
       /\ j.state \in {"waiting", "active"} => j.stalls <= MaxStalls /\ j.tries < MaxTries
       /\ \A s \in Runs \ {1} : run[d][s].current => j.state = "active" /\ ~x.current
       /\ x.current => j.state = "active"
  BY <1>1, <1>2, <1>4, <1>5 DEF x
<1>. QED BY <1>2, <1>3, <1>5, <1>6, <1>7, <1>8, <1>9, <1>10, <1>11, JobStepKeeps

(* A crash takes all runs; each delivery that had one counts a fault.        *)
LEMMA CrashKeeps ==
  ASSUME DeliveryInvariant, Crash
  PROVE  DeliveryInvariant'
<1> USE DEF DeliveryInvariant
<1>1. /\ run' = [d \in Delivery |-> [r \in Runs |-> NoRun]]
      /\ fanout' = [m \in Message |->
           IF fanout[m].pc = "unsent" THEN fanout[m]
           ELSE [fanout[m] EXCEPT !.pc = "told", !.left = {}]]
      /\ faults' = [d \in Delivery |-> IF Running(d) = {} THEN faults[d] ELSE faults[d] + 1]
      /\ UNCHANGED <<switch, people, job, log, copies, changes>>
  BY DEF Crash
<1>2. TypeOK'
  <2>1. crashes' \in 0..MaxCrashes
    <3>1. crashes \in 0..MaxCrashes /\ crashes < MaxCrashes /\ crashes' = crashes + 1
      BY DEF Crash, TypeOK
    <3>. QED BY <3>1, Constants
  <2>2. /\ cached' \in [Channel -> {"on", "off", "none"}]
        /\ update' \in [Channel -> {"on", "off", "none"}]
    BY DEF Crash
  <2>3. fanout' \in [Message -> FanOutRow]
    <3>1. \A f \in FanOutRow : [f EXCEPT !.pc = "told", !.left = {}] \in FanOutRow
      BY DEF FanOutRow
    <3>. QED BY <1>1, <3>1 DEF TypeOK
  <2>4. run' \in [Delivery -> [Runs -> RunRow]]
    BY <1>1, RowsTyped
  <2>5. faults' \in [Delivery -> Nat]
    <3>1. \A d \in Delivery : faults[d] \in Nat
      BY DEF TypeOK
    <3>2. faults' = [d \in Delivery |-> IF Running(d) = {} THEN faults[d] ELSE faults[d] + 1]
      BY <1>1
    <3>. QED BY <3>1, <3>2
  <2>. QED BY <1>1, <2>1, <2>2, <2>3, <2>4, <2>5 DEF TypeOK, people
<1>3. QueuedOnce'
  <2>1. ASSUME NEW d \in Delivery, Ahead(d)' PROVE Ahead(d)
    <3>1. fanout[d[1]] \in FanOutRow /\ d[1] \in Message
      BY MediumTyped DEF TypeOK
    <3>2. fanout'[d[1]] = IF fanout[d[1]].pc = "unsent" THEN fanout[d[1]]
                          ELSE [fanout[d[1]] EXCEPT !.pc = "told", !.left = {}]
      BY <1>1, <3>1
    <3>3. CASE fanout[d[1]].pc = "unsent"
      BY <3>3 DEF Ahead
    <3>4. CASE fanout[d[1]].pc # "unsent"
      <4>1. fanout'[d[1]].pc = "told"
        BY <3>1, <3>2, <3>4 DEF FanOutRow
      <4>. QED BY <2>1, <4>1 DEF Ahead
    <3>. QED BY <3>3, <3>4
  <2>. QED BY <1>1, <2>1 DEF QueuedOnce
<1>4. \A d \in Delivery, r \in Runs : run'[d][r] = NoRun
  BY <1>1
<1>5. Consented'
  BY <1>4, RowsTyped DEF Consented
<1>6. ASSUME NEW d \in Delivery PROVE JobSound(d)' /\ Paid(d)'
  <2>1. JobSound(d)'
    BY <1>1, <1>4, RowsTyped DEF JobSound
  <2>2. Loose(d)' = {} /\ Cardinality({}) = 0
    BY <1>4, RowsTyped, FS_EmptySet DEF Loose
  <2>3. copies[d] \in Nat /\ faults[d] \in Nat /\ Cardinality(Loose(d)) \in Nat
    BY LooseFinite DEF TypeOK
  <2>4. copies'[d] = copies[d] /\ faults'[d] = IF Running(d) = {} THEN faults[d] ELSE faults[d] + 1
    BY <1>1
  <2>5. CASE Running(d) = {}
    <3>1. \A r \in Runs : run[d][r] = NoRun
      BY <2>5 DEF Running
    <3>2. Open(d)' => Open(d)
      BY <1>1, <1>4, <3>1, RowsTyped DEF Open
    <3>. QED BY <2>1, <2>2, <2>3, <2>4, <2>5, <3>2 DEF Paid
  <2>6. CASE Running(d) # {}
    BY <2>1, <2>2, <2>3, <2>4, <2>6 DEF Paid
  <2>. QED BY <2>5, <2>6
<1>. QED BY <1>2, <1>3, <1>5, <1>6

(* The fan-out and the settings.                                             *)
LEMMA OthersKeep ==
  ASSUME DeliveryInvariant, TypeOK', QueuedOnce', UNCHANGED <<people, deliveries>>
  PROVE  DeliveryInvariant'
<1>1. \A d \in Delivery : Untouched(d)
  BY DEF Untouched, deliveries
<1>2. \A d \in Delivery : JobSound(d)' /\ Paid(d)'
  BY <1>1, UntouchedKept DEF DeliveryInvariant
<1>3. Consented'
  BY DEF DeliveryInvariant, Consented, Addresses, AccountsOf, Recipient, Medium,
         people, deliveries
<1>. QED BY <1>2, <1>3 DEF DeliveryInvariant

LEMMA QueueKeeps ==
  ASSUME DeliveryInvariant, NEW m \in Message, NEW u \in Person, QueueOne(m, u)
  PROVE  DeliveryInvariant'
<1>1. TypeOK /\ QueuedOnce
  BY DEF DeliveryInvariant
<1>2. PICK d \in Delivery :
      /\ TypeOK' /\ QueuedOnce' /\ job[d].state = "none"
      /\ UNCHANGED <<people, run, copies, faults>>
      /\ \/ job' = job
         \/ \E a : job' = [job EXCEPT ![d] = [@ EXCEPT !.state = "waiting", !.to = a]]
  BY <1>1, QueueStep
<1>3. CASE job' = job
  BY <1>2, <1>3, OthersKeep DEF deliveries
<1>4. CASE job' # job
  <2>1. PICK a : job' = [job EXCEPT ![d] = [@ EXCEPT !.state = "waiting", !.to = a]]
    BY <1>2, <1>4
  <2>2. job[d] = NoJob /\ (\A r \in Runs : run[d][r] = NoRun) /\ job \in [Delivery -> JobRow]
    BY <1>1, <1>2 DEF DeliveryInvariant, JobSound, TypeOK
  <2>3. job'[d] = [NoJob EXCEPT !.state = "waiting", !.to = a]
    BY <1>2, <2>1, <2>2
  <2>4. job'[d].state = "waiting" /\ job'[d].tries = 0 /\ job'[d].stalls = 0
    BY <2>3 DEF NoJob
  <2>5. \A e \in Delivery \ {d} : Untouched(e)
    BY <1>2, <2>1, <2>2 DEF Untouched
  <2>6. JobSound(d)'
    <3>1. \A r \in Runs : ~run'[d][r].current
      BY <1>2, <2>2, RowsTyped
    <3>2. 0 <= MaxStalls /\ 0 < MaxTries
      BY Constants
    <3>. QED BY <2>4, <3>1, <3>2 DEF JobSound
  <2>7. Paid(d)'
    <3>1. Loose(d)' = Loose(d) /\ Open(d) /\ Open(d)'
      BY <1>2, <2>4 DEF Loose, Open
    <3>. QED BY <1>2, <3>1 DEF Paid, DeliveryInvariant
  <2>8. \A e \in Delivery : JobSound(e)' /\ Paid(e)'
    BY <2>5, <2>6, <2>7, UntouchedKept DEF DeliveryInvariant
  <2>9. Consented'
    <3>1. \A e \in Delivery : Addresses(Recipient(e), Medium(e))' = Addresses(Recipient(e), Medium(e))
      BY <1>2 DEF Addresses, AccountsOf, Recipient, Medium, people
    <3>2. ASSUME NEW e \in Delivery, NEW s \in Runs,
                 run'[e][s].pc \in {"post", "error"}, ~run'[e][s].overtaken
          PROVE  job'[e].to \in Addresses(Recipient(e), Medium(e))
      <4>1. e # d /\ run[e][s].pc \in {"post", "error"} /\ ~run[e][s].overtaken
        BY <1>2, <2>2, <3>2, RowsTyped
      <4>. QED BY <2>5, <4>1 DEF Untouched, DeliveryInvariant, Consented
    <3>. QED BY <3>1, <3>2 DEF Consented
  <2>. QED BY <1>2, <2>8, <2>9 DEF DeliveryInvariant
<1>. QED BY <1>3, <1>4

-----------------------------------------------------------------------------
(* The specification.                                                        *)
LEMMA DeliveryInit == Init => DeliveryInvariant
<1> SUFFICES ASSUME Init PROVE DeliveryInvariant
  OBVIOUS
<1>1. TypeOK
  <2>1. crashes \in 0..MaxCrashes /\ changes \in 0..MaxChanges
    BY Constants DEF Init
  <2>2. /\ switch \in [Channel -> {"on", "off"}]
        /\ cached \in [Channel -> {"on", "off", "none"}]
        /\ update \in [Channel -> {"on", "off", "none"}]
        /\ prefs \in [Person -> [email : BOOLEAN, line : BOOLEAN, verified : BOOLEAN]]
        /\ bound \in [Account -> Person \cup {Nobody}]
    BY DEF Init
  <2>3. /\ fanout \in [Message -> FanOutRow] /\ job \in [Delivery -> JobRow]
        /\ run \in [Delivery -> [Runs -> RunRow]] /\ log \in [Delivery -> SUBSET Row]
        /\ copies \in [Delivery -> Nat] /\ faults \in [Delivery -> Nat]
    BY RowsTyped DEF Init
  <2>. QED BY <2>1, <2>2, <2>3 DEF TypeOK
<1>2. \A d \in Delivery : job[d] = NoJob /\ (\A r \in Runs : run[d][r] = NoRun)
  BY DEF Init
<1>3. QueuedOnce /\ Consented
  BY <1>2, RowsTyped DEF QueuedOnce, Consented
<1>4. ASSUME NEW d \in Delivery PROVE JobSound(d) /\ Paid(d)
  <2>1. JobSound(d)
    BY <1>2, RowsTyped, Constants DEF JobSound
  <2>2. Loose(d) = {} /\ Cardinality({}) = 0
    BY <1>2, RowsTyped, FS_EmptySet DEF Loose
  <2>3. copies[d] = 0 /\ faults[d] = 0
    BY DEF Init
  <2>. QED BY <2>1, <2>2, <2>3 DEF Paid
<1>. QED BY <1>1, <1>3, <1>4 DEF DeliveryInvariant

LEMMA DeliveryNext == DeliveryInvariant /\ [Next]_vars => DeliveryInvariant'
<1> SUFFICES ASSUME DeliveryInvariant, [Next]_vars PROVE DeliveryInvariant'
  OBVIOUS
<1>1. TypeOK /\ QueuedOnce
  BY DEF DeliveryInvariant
<1>2. ASSUME NEW m \in Message, Emit(m) \/ AskSwitch(m) \/ FillCache(m) \/ GatesUnread(m)
      PROVE  DeliveryInvariant'
  <2>1. UNCHANGED <<people, deliveries>>
    BY <1>2 DEF Emit, AskSwitch, FillCache, GatesUnread
  <2>2. UNCHANGED job
    BY <2>1 DEF deliveries
  <2>3. TypeOK' /\ QueuedOnce'
    BY <1>1, <1>2, <2>2, SilentStep
  <2>. QED BY <2>1, <2>3, OthersKeep
<1>3. CASE FanOutStep
  BY <1>2, <1>3, QueueKeeps DEF FanOutStep
<1>4. CASE JobStep
  BY <1>4, PickupKeeps, PostKeeps, ReturnKeeps, FinishKeeps, TimeoutKeeps, StalledKeeps
     DEF JobStep
<1>5. CASE SettingsStep
  <2>1. TypeOK' /\ UNCHANGED <<people, fanout, deliveries>>
    BY <1>1, <1>5, SettingsTyped
  <2>2. QueuedOnce'
    BY <1>1, <2>1 DEF QueuedOnce, Ahead, Medium, Recipient, deliveries
  <2>. QED BY <2>1, <2>2, OthersKeep
<1>6. CASE PersonStep
  BY <1>6, PersonStepKeeps
<1>7. CASE Crash
  BY <1>7, CrashKeeps
<1>8. CASE UNCHANGED vars
  <2>1. UNCHANGED <<settings, people, fanout, deliveries, log, crashes, changes>>
    BY <1>8 DEF vars
  <2>2. TypeOK' /\ QueuedOnce'
    BY <1>1, <2>1 DEF TypeOK, QueuedOnce, Ahead, Medium, Recipient, settings, people, deliveries
  <2>. QED BY <2>1, <2>2, OthersKeep
<1>. QED BY <1>3, <1>4, <1>5, <1>6, <1>7, <1>8 DEF Next

-----------------------------------------------------------------------------
(* Attempts, stalls and the audit.  An attempt that is used up was paid for  *)
(* by a fault, a stall by a crash; a run that will complete a LINE job has   *)
(* reported what became of it.                                               *)
Failing(x) == IF x.pc \in {"error", "odd", "retry"} THEN 1 ELSE 0

Budgeted(d) ==
  /\ job[d].tries <= faults[d]
  /\ job[d].stalls <= crashes
  /\ job[d].state = "active" /\ (\A r \in Runs : ~run[d][r].current) =>
       job[d].stalls < crashes
  /\ job[d].state = "failed" => job[d].tries >= MaxTries \/ job[d].stalls > MaxStalls
  /\ \A r \in Runs :
       /\ run[d][r].current =>
            job[d].tries + run[d][r].posts + Failing(run[d][r]) <= faults[d]
       /\ run[d][r].pc = "accepted" => copies[d] > 0

Reported(d) ==
  /\ copies[d] > 0 \/ log[d] \cap {"skipped", "refused"} # {}
  /\ log[d] \cap {"sent", "skipped", "refused"} # {}

Recorded(d) ==
  Medium(d) = "line" /\ (job[d].state = "completed" \/ \E r \in Runs : run[d][r].pc = "done")
  => Reported(d)

Accounted(d) == Budgeted(d) /\ Recorded(d)

OutcomeInvariant == DeliveryInvariant /\ \A d \in Delivery : Accounted(d)

(* A step that leaves a delivery's job and runs where they are.              *)
LEMMA AccountedKept ==
  ASSUME TypeOK, NEW d \in Delivery, Accounted(d),
         job'[d] = job[d], crashes' = crashes, log[d] \subseteq log'[d],
         copies'[d] = copies[d], faults'[d] = faults[d],
         \A r \in Runs :
           /\ run'[d][r].pc = run[d][r].pc
           /\ run'[d][r].posts = run[d][r].posts
           /\ run'[d][r].current = run[d][r].current
  PROVE  Accounted(d)'
<1>1. \A r \in Runs : Failing(run'[d][r]) = Failing(run[d][r])
  BY DEF Failing
<1>2. Budgeted(d)'
  BY <1>1 DEF Accounted, Budgeted, Failing
<1>3. Recorded(d)'
  BY DEF Accounted, Recorded, Reported, Medium
<1>. QED BY <1>2, <1>3 DEF Accounted

(* A step of one run of one job.                                             *)
LEMMA OneRunStep ==
  ASSUME OutcomeInvariant, NEW d \in Delivery, NEW r \in Runs,
         NEW j, NEW x, NEW n, NEW k,
         job' = [job EXCEPT ![d] = j], run' = [run EXCEPT ![d][r] = x],
         copies' = [copies EXCEPT ![d] = n], faults' = [faults EXCEPT ![d] = k],
         \A e \in Delivery : log[e] \subseteq log'[e], crashes' = crashes
  PROVE  /\ job'[d] = j /\ run'[d][r] = x /\ copies'[d] = n /\ faults'[d] = k
         /\ \A s \in Runs \ {r} : run'[d][s] = run[d][s]
         /\ \A e \in Delivery \ {d} : Accounted(e)'
<1>1. TypeOK /\ \A e \in Delivery : Accounted(e)
  BY DEF OutcomeInvariant, DeliveryInvariant
<1>2. /\ job'[d] = j /\ run'[d][r] = x /\ copies'[d] = n /\ faults'[d] = k
      /\ \A s \in Runs \ {r} : run'[d][s] = run[d][s]
  BY <1>1 DEF TypeOK
<1>3. ASSUME NEW e \in Delivery \ {d} PROVE Accounted(e)'
  <2>1. /\ job'[e] = job[e] /\ run'[e] = run[e] /\ copies'[e] = copies[e]
        /\ faults'[e] = faults[e]
    BY <1>1 DEF TypeOK
  <2>. QED BY <1>1, <2>1, AccountedKept
<1>. QED BY <1>2, <1>3

LEMMA PickupAccounted ==
  ASSUME OutcomeInvariant, NEW d \in Delivery, NEW r \in Runs, Pickup(d, r)
  PROVE  \A e \in Delivery : Accounted(e)'
<1> DEFINE j == [job[d] EXCEPT !.state = "active"]
<1>1. /\ TypeOK /\ JobSound(d) /\ Accounted(d)
      /\ job[d].state = "waiting" /\ run[d][r] = NoRun /\ job' = [job EXCEPT ![d] = j]
      /\ UNCHANGED <<settings, people, fanout, copies, crashes, changes>>
  BY DEF Pickup, OutcomeInvariant, DeliveryInvariant, TypeOK
<1>2. PICK pc \in {"post", "done", "retry"}, k \in Nat :
        /\ Starts(d, r, pc)
        /\ faults' = [faults EXCEPT ![d] = k]
        /\ k = IF pc = "retry" THEN faults[d] + 1 ELSE faults[d]
        /\ \A e \in Delivery : log[e] \subseteq log'[e]
        /\ pc = "done" /\ Medium(d) = "line" => log'[d] \cap {"skipped", "refused"} # {}
  BY <1>1, PickupStep
<1> DEFINE x == [NoRun EXCEPT !.pc = pc, !.current = TRUE]
<1>3. /\ job[d] \in JobRow /\ faults[d] \in Nat
      /\ copies' = [copies EXCEPT ![d] = copies[d]]
  BY <1>1, DeliveryRows
<1>4. /\ j.tries = job[d].tries /\ j.stalls = job[d].stalls /\ j.state = "active"
      /\ job[d].tries \in Nat
  BY <1>3, Constants DEF JobRow
<1>5. x.posts = 0 /\ x.current /\ x.pc = pc
  BY StartedTyped
<1>6. run' = [run EXCEPT ![d][r] = x]
  BY <1>2 DEF Starts
<1> HIDE DEF j, x
<1>7. /\ job'[d] = j /\ run'[d][r] = x /\ copies'[d] = copies[d] /\ faults'[d] = k
      /\ \A s \in Runs \ {r} : run'[d][s] = run[d][s]
      /\ \A e \in Delivery \ {d} : Accounted(e)'
  <2>1. /\ job' = [job EXCEPT ![d] = j] /\ run' = [run EXCEPT ![d][r] = x]
        /\ copies' = [copies EXCEPT ![d] = copies[d]] /\ faults' = [faults EXCEPT ![d] = k]
        /\ (\A e \in Delivery : log[e] \subseteq log'[e]) /\ crashes' = crashes
    BY <1>1, <1>2, <1>3, <1>6
  <2>. QED BY <2>1, OneRunStep
<1>8. \A s \in Runs : ~run[d][s].current
  BY <1>1 DEF JobSound
<1>9. Budgeted(d)'
  <2>1. job[d].tries <= faults[d] /\ job[d].stalls <= crashes
    BY <1>1 DEF Accounted, Budgeted
  <2>2. job[d].tries <= k /\ job[d].tries + x.posts + Failing(x) <= k
    BY <1>2, <1>3, <1>4, <1>5, <2>1 DEF Failing
  <2>3. \A s \in Runs : run'[d][s].current =>
          job'[d].tries + run'[d][s].posts + Failing(run'[d][s]) <= faults'[d]
    BY <1>4, <1>7, <1>8, <2>2
  <2>4. \A s \in Runs : run'[d][s].pc = "accepted" => copies'[d] > 0
    BY <1>1, <1>5, <1>7 DEF Accounted, Budgeted
  <2>5. run'[d][r].current
    BY <1>5, <1>7
  <2>. QED BY <1>1, <1>4, <1>7, <2>1, <2>2, <2>3, <2>4, <2>5 DEF Budgeted, Failing
<1>10. Recorded(d)'
  <2>1. CASE pc = "done" /\ Medium(d) = "line"
    BY <1>2, <2>1 DEF Recorded, Reported
  <2>2. CASE pc # "done" /\ Medium(d) = "line"
    <3>1. (\E s \in Runs : run'[d][s].pc = "done") => \E s \in Runs : run[d][s].pc = "done"
      BY <1>5, <1>7, <2>2
    <3>. QED BY <1>1, <1>2, <1>4, <1>7, <3>1 DEF Accounted, Recorded, Reported, Medium
  <2>3. CASE Medium(d) # "line"
    BY <2>3 DEF Recorded, Medium
  <2>. QED BY <2>1, <2>2, <2>3
<1>. QED BY <1>7, <1>9, <1>10 DEF Accounted

LEMMA PostAccounted ==
  ASSUME OutcomeInvariant, NEW d \in Delivery, NEW r \in Runs, Post(d, r)
  PROVE  \A e \in Delivery : Accounted(e)'
<1>1. PICK answer \in {"accepted", "error", "refused", "odd"}, taken \in BOOLEAN :
        /\ answer = "accepted" => taken
        /\ run' = [run EXCEPT ![d][r].pc = answer]
        /\ copies' = [copies EXCEPT ![d] = IF taken THEN @ + 1 ELSE @]
        /\ faults' = [faults EXCEPT ![d] = IF answer \in {"error", "odd"} THEN @ + 1 ELSE @]
  BY DEF Post
<1>2. /\ TypeOK /\ Accounted(d) /\ run[d][r].pc = "post"
      /\ UNCHANGED <<settings, people, fanout, job, log, crashes, changes>>
  BY DEF Post, OutcomeInvariant, DeliveryInvariant
<1> DEFINE x == [run[d][r] EXCEPT !.pc = answer]
           n == IF taken THEN copies[d] + 1 ELSE copies[d]
           k == IF answer \in {"error", "odd"} THEN faults[d] + 1 ELSE faults[d]
<1>3. /\ job[d] \in JobRow /\ run[d][r] \in RunRow /\ job' = [job EXCEPT ![d] = job[d]]
      /\ copies[d] \in Nat /\ faults[d] \in Nat
  BY <1>2, DeliveryRows
<1>4. /\ x.pc = answer /\ x.current = run[d][r].current /\ x.posts = run[d][r].posts
      /\ run[d][r].posts \in Nat /\ job[d].tries \in Nat
  BY <1>3, Constants DEF RunRow, JobRow
<1>5. /\ run' = [run EXCEPT ![d][r] = x]
      /\ copies' = [copies EXCEPT ![d] = n] /\ faults' = [faults EXCEPT ![d] = k]
      /\ \A e \in Delivery : log[e] \subseteq log'[e]
  BY <1>1, <1>2, <1>3 DEF TypeOK
<1>6. /\ k \in Nat /\ k >= faults[d] /\ (answer \in {"error", "odd"} => k = faults[d] + 1)
      /\ n \in Nat /\ n >= copies[d] /\ (answer = "accepted" => n > 0)
  BY <1>1, <1>3
<1> HIDE DEF x, n, k
<1>7. /\ job'[d] = job[d] /\ run'[d][r] = x /\ copies'[d] = n /\ faults'[d] = k
      /\ \A s \in Runs \ {r} : run'[d][s] = run[d][s]
      /\ \A e \in Delivery \ {d} : Accounted(e)'
  BY <1>2, <1>3, <1>5, OneRunStep
<1>8. Budgeted(d)'
  <2>1. job[d].tries <= k
    BY <1>2, <1>3, <1>4, <1>6 DEF Accounted, Budgeted
  <2>2. (\A s \in Runs : ~run'[d][s].current) => \A s \in Runs : ~run[d][s].current
    BY <1>4, <1>7
  <2>3. x.current => job[d].tries + x.posts + Failing(x) <= k
    <3>1. /\ Failing(run[d][r]) = 0
          /\ Failing(x) = IF answer \in {"error", "odd"} THEN 1 ELSE 0
      BY <1>2, <1>4 DEF Failing
    <3>2. x.current => job[d].tries + run[d][r].posts + Failing(run[d][r]) <= faults[d]
      BY <1>2, <1>4 DEF Accounted, Budgeted
    <3>3. x.current => job[d].tries + x.posts + Failing(x) <= k
      BY <1>3, <1>4, <1>6, <3>1, <3>2
    <3>. QED BY <1>1, <1>4, <3>3
  <2>4. ASSUME NEW s \in Runs \ {r}, run[d][s].current
        PROVE  job[d].tries + run[d][s].posts + Failing(run[d][s]) <= k
    <3>1. job[d].tries + run[d][s].posts + Failing(run[d][s]) <= faults[d]
      BY <1>2, <2>4 DEF Accounted, Budgeted
    <3>2. run[d][s].posts \in Nat /\ Failing(run[d][s]) \in Nat
      BY <1>2, Constants DEF TypeOK, RunRow, Failing
    <3>. QED BY <1>3, <1>4, <1>6, <3>1, <3>2
  <2>5. \A s \in Runs : run'[d][s].pc = "accepted" => n > 0
    BY <1>2, <1>3, <1>4, <1>6, <1>7 DEF Accounted, Budgeted
  <2>6. Failing(x)' = Failing(x)
    BY <1>7 DEF Failing, x
  <2>7. \A s \in Runs : run'[d][s].current =>
          job[d].tries + run'[d][s].posts + Failing(run'[d][s]) <= k
    BY <1>7, <2>3, <2>4
  <2>. QED BY <1>2, <1>7, <2>1, <2>2, <2>5, <2>7 DEF Accounted, Budgeted, Failing
<1>9. Recorded(d)'
  <2>1. (\E s \in Runs : run'[d][s].pc = "done") => \E s \in Runs : run[d][s].pc = "done"
    BY <1>4, <1>7
  <2>. QED BY <1>2, <1>3, <1>6, <1>7, <2>1 DEF Accounted, Recorded, Reported, Medium
<1>. QED BY <1>7, <1>8, <1>9 DEF Accounted

LEMMA ReturnAccounted ==
  ASSUME OutcomeInvariant, NEW d \in Delivery, NEW r \in Runs, Return(d, r)
  PROVE  \A e \in Delivery : Accounted(e)'
<1> DEFINE old == run[d][r]
<1>1. /\ TypeOK /\ JobSound(d) /\ Accounted(d)
      /\ UNCHANGED <<settings, people, fanout, job, copies, faults, crashes, changes>>
  BY DEF OutcomeInvariant, DeliveryInvariant, Return
<1>2. /\ job[d] \in JobRow /\ old \in RunRow /\ job = [job EXCEPT ![d] = job[d]]
      /\ copies[d] \in Nat /\ faults[d] \in Nat
      /\ copies' = [copies EXCEPT ![d] = copies[d]] /\ faults' = [faults EXCEPT ![d] = faults[d]]
      /\ job[d].tries \in Nat /\ old.posts \in Nat
  BY <1>1, DeliveryRows, Constants DEF RunRow, JobRow
<1>3. CASE /\ old.pc = "error"
           /\ run' = [run EXCEPT ![d][r] = [old EXCEPT !.pc = "post", !.posts = @ + 1]]
           /\ UNCHANGED log
  <2> DEFINE x == [old EXCEPT !.pc = "post", !.posts = @ + 1]
  <2>1. x.current = old.current /\ x.pc = "post" /\ x.posts = old.posts + 1
    BY <1>2 DEF RunRow
  <2>2. /\ run' = [run EXCEPT ![d][r] = x] /\ job' = [job EXCEPT ![d] = job[d]]
        /\ \A e \in Delivery : log[e] \subseteq log'[e]
    BY <1>1, <1>2, <1>3
  <2> HIDE DEF x
  <2>3. /\ job'[d] = job[d] /\ run'[d][r] = x /\ copies'[d] = copies[d] /\ faults'[d] = faults[d]
        /\ \A s \in Runs \ {r} : run'[d][s] = run[d][s]
        /\ \A e \in Delivery \ {d} : Accounted(e)'
    <3>1. /\ copies' = [copies EXCEPT ![d] = copies[d]] /\ faults' = [faults EXCEPT ![d] = faults[d]]
          /\ crashes' = crashes
      BY <1>1, <1>2
    <3>. QED BY <2>2, <3>1, OneRunStep
  <2>4. Budgeted(d)'
    <3>1. old.current => job[d].tries + x.posts + Failing(x) <= faults[d]
      BY <1>1, <1>2, <1>3, <2>1 DEF Accounted, Budgeted, Failing
    <3>2. \A s \in Runs : run'[d][s].current =>
            job[d].tries + run'[d][s].posts + Failing(run'[d][s]) <= faults[d]
      BY <1>1, <2>1, <2>3, <3>1 DEF Accounted, Budgeted
    <3>3. (\A s \in Runs : ~run'[d][s].current) => \A s \in Runs : ~run[d][s].current
      BY <2>1, <2>3
    <3>4. \A s \in Runs : run'[d][s].pc = "accepted" => copies[d] > 0
      BY <1>1, <2>1, <2>3 DEF Accounted, Budgeted
    <3>. QED BY <1>1, <2>3, <3>2, <3>3, <3>4 DEF Accounted, Budgeted, Failing
  <2>5. Recorded(d)'
    <3>1. (\E s \in Runs : run'[d][s].pc = "done") => \E s \in Runs : run[d][s].pc = "done"
      BY <2>1, <2>3
    <3>. QED BY <1>1, <1>3, <2>3, <3>1 DEF Accounted, Recorded, Reported, Medium
  <2>. QED BY <2>3, <2>4, <2>5 DEF Accounted
<1>4. ASSUME NEW row, NEW end \in {"done", "retry"}, EndRun(d, r, row, end),
             \/ end = "done" /\ row = "sent" /\ old.pc = "accepted"
             \/ end = "done" /\ row = "refused"
             \/ end = "retry" /\ old.pc \in {"error", "odd"}
      PROVE  \A e \in Delivery : Accounted(e)'
  <2> DEFINE x == [old EXCEPT !.pc = end]
  <2>1. x.pc = end /\ x.posts = old.posts /\ x.current = old.current
    BY <1>2 DEF RunRow
  <2>2. /\ run' = [run EXCEPT ![d][r] = x] /\ job' = [job EXCEPT ![d] = job[d]]
        /\ row \in log'[d] /\ \A e \in Delivery : log[e] \subseteq log'[e]
    BY <1>1, <1>2, <1>4, AuditGrows DEF EndRun, TypeOK
  <2> HIDE DEF x
  <2>3. /\ job'[d] = job[d] /\ run'[d][r] = x /\ copies'[d] = copies[d] /\ faults'[d] = faults[d]
        /\ \A s \in Runs \ {r} : run'[d][s] = run[d][s]
        /\ \A e \in Delivery \ {d} : Accounted(e)'
    <3>1. /\ copies' = [copies EXCEPT ![d] = copies[d]] /\ faults' = [faults EXCEPT ![d] = faults[d]]
          /\ crashes' = crashes
      BY <1>1, <1>2
    <3>. QED BY <2>2, <3>1, OneRunStep
  <2>4. Budgeted(d)'
    <3>1. old.current => job[d].tries + x.posts + Failing(x) <= faults[d]
      <4>1. old.current => job[d].tries + old.posts + Failing(old) <= faults[d]
        BY <1>1 DEF Accounted, Budgeted
      <4>2. Failing(x) \in {0, 1} /\ Failing(old) \in {0, 1}
              /\ (Failing(x) = 1 => Failing(old) = 1)
        BY <1>4, <2>1 DEF Failing
      <4>. QED BY <1>2, <2>1, <4>1, <4>2
    <3>2. \A s \in Runs : run'[d][s].current =>
            job[d].tries + run'[d][s].posts + Failing(run'[d][s]) <= faults[d]
      BY <1>1, <2>1, <2>3, <3>1 DEF Accounted, Budgeted
    <3>3. (\A s \in Runs : ~run'[d][s].current) => \A s \in Runs : ~run[d][s].current
      BY <2>1, <2>3
    <3>4. \A s \in Runs : run'[d][s].pc = "accepted" => copies[d] > 0
      BY <1>1, <1>4, <2>1, <2>3 DEF Accounted, Budgeted
    <3>. QED BY <1>1, <2>3, <3>2, <3>3, <3>4 DEF Accounted, Budgeted, Failing
  <2>5. Recorded(d)'
    <3>1. CASE end = "done"
      <4>1. old.pc = "accepted" => copies[d] > 0
        BY <1>1 DEF Accounted, Budgeted
      <4>. QED BY <1>4, <2>2, <2>3, <3>1, <4>1 DEF Recorded, Reported
    <3>2. CASE end = "retry"
      <4>1. (\E s \in Runs : run'[d][s].pc = "done") => \E s \in Runs : run[d][s].pc = "done"
        BY <2>1, <2>3, <3>2
      <4>. QED BY <1>1, <2>2, <2>3, <4>1 DEF Accounted, Recorded, Reported, Medium
    <3>. QED BY <1>4, <3>1, <3>2
  <2>. QED BY <2>3, <2>4, <2>5 DEF Accounted
<1>. QED BY <1>3, <1>4 DEF Return

LEMMA FinishAccounted ==
  ASSUME OutcomeInvariant, NEW d \in Delivery, NEW r \in Runs, Finish(d, r)
  PROVE  \A e \in Delivery : Accounted(e)'
<1> DEFINE old == run[d][r]
           j == IF old.current THEN Concluded(d, old.pc) ELSE job[d]
<1>1. /\ TypeOK /\ JobSound(d) /\ Accounted(d) /\ old.pc \in {"done", "retry"}
      /\ UNCHANGED <<settings, people, fanout, copies, faults, log, crashes, changes>>
  BY DEF OutcomeInvariant, DeliveryInvariant, Finish
<1>2. /\ job[d] \in JobRow /\ old \in RunRow /\ job = [job EXCEPT ![d] = job[d]]
      /\ copies[d] \in Nat /\ faults[d] \in Nat
      /\ copies' = [copies EXCEPT ![d] = copies[d]] /\ faults' = [faults EXCEPT ![d] = faults[d]]
      /\ job[d].tries \in Nat /\ old.posts \in Nat
  BY <1>1, DeliveryRows, Constants DEF RunRow, JobRow
<1>3. /\ job' = [job EXCEPT ![d] = j] /\ run' = [run EXCEPT ![d][r] = NoRun]
      /\ \A e \in Delivery : log[e] \subseteq log'[e]
  BY <1>1, <1>2 DEF Finish
<1>4. /\ job'[d] = j /\ run'[d][r] = NoRun /\ copies'[d] = copies[d] /\ faults'[d] = faults[d]
      /\ \A s \in Runs \ {r} : run'[d][s] = run[d][s]
      /\ \A e \in Delivery \ {d} : Accounted(e)'
  <2> HIDE DEF j
  <2>. QED BY <1>1, <1>2, <1>3, OneRunStep
<1>5. /\ j.stalls = job[d].stalls
      /\ ~old.current => j = job[d]
      /\ old.current /\ old.pc = "done" => j.state = "completed" /\ j.tries = job[d].tries
      /\ old.current /\ old.pc = "retry" =>
           /\ j.tries = job[d].tries + 1
           /\ j.state = IF job[d].tries + 1 < MaxTries THEN "waiting" ELSE "failed"
  BY <1>1, <1>2 DEF Concluded, Again, JobRow
<1> HIDE DEF j
<1>6. \A s \in Runs : run'[d][s].current => run[d][s].current /\ s # r /\ ~old.current
  BY <1>1, <1>4, RowsTyped DEF JobSound
<1>7. Budgeted(d)'
  <2>1. \A s \in Runs : run'[d][s].pc = "accepted" => copies[d] > 0
    BY <1>1, <1>4, RowsTyped DEF Accounted, Budgeted
  <2>2. CASE old.current
    <3>1. old.pc = "retry" => job[d].tries + 1 <= faults[d]
      BY <1>1, <1>2, <2>2 DEF Accounted, Budgeted, Failing
    <3>2. /\ j.state \in {"completed", "waiting", "failed"}
          /\ j.tries <= faults[d] /\ (j.state = "failed" => j.tries >= MaxTries)
      BY <1>1, <1>2, <1>5, <2>2, <3>1, Constants DEF Accounted, Budgeted
    <3>. QED BY <1>1, <1>4, <1>5, <1>6, <2>1, <2>2, <3>2 DEF Accounted, Budgeted
  <2>3. CASE ~old.current
    <3>1. (\A s \in Runs : ~run'[d][s].current) => \A s \in Runs : ~run[d][s].current
      BY <1>4, <2>3
    <3>2. \A s \in Runs : run'[d][s].current =>
            job[d].tries + run'[d][s].posts + Failing(run'[d][s]) <= faults[d]
      BY <1>1, <1>4, <1>6 DEF Accounted, Budgeted
    <3>. QED BY <1>1, <1>4, <1>5, <2>1, <2>3, <3>1, <3>2 DEF Accounted, Budgeted, Failing
  <2>. QED BY <2>2, <2>3
<1>8. Recorded(d)'
  <2>1. (\E s \in Runs : run'[d][s].pc = "done") => \E s \in Runs : run[d][s].pc = "done"
    BY <1>4, RowsTyped
  <2>2. j.state = "completed" => job[d].state = "completed" \/ \E s \in Runs : run[d][s].pc = "done"
    BY <1>1, <1>5
  <2>. QED BY <1>1, <1>4, <2>1, <2>2 DEF Accounted, Recorded, Reported, Medium
<1>. QED BY <1>4, <1>7, <1>8 DEF Accounted

LEMMA TimeoutAccounted ==
  ASSUME OutcomeInvariant, NEW d \in Delivery, NEW r \in Runs, Timeout(d, r)
  PROVE  \A e \in Delivery : Accounted(e)'
<1> DEFINE old == run[d][r]
           x == [old EXCEPT !.current = FALSE]
           j == Again(job[d])
           k == faults[d] + 1
<1>1. /\ TypeOK /\ JobSound(d) /\ Accounted(d) /\ old.current
      /\ UNCHANGED <<settings, people, fanout, log, copies, crashes, changes>>
  BY DEF OutcomeInvariant, DeliveryInvariant, Timeout
<1>2. /\ job[d] \in JobRow /\ old \in RunRow /\ copies[d] \in Nat /\ faults[d] \in Nat
      /\ copies' = [copies EXCEPT ![d] = copies[d]]
      /\ job[d].tries \in Nat /\ old.posts \in Nat
  BY <1>1, DeliveryRows, Constants DEF RunRow, JobRow
<1>3. /\ j.tries = job[d].tries + 1 /\ j.stalls = job[d].stalls
      /\ j.state = IF job[d].tries + 1 < MaxTries THEN "waiting" ELSE "failed"
  BY <1>2 DEF Again, JobRow
<1>4. ~x.current /\ x.pc = old.pc
  BY <1>2 DEF RunRow
<1>5. /\ run' = [run EXCEPT ![d][r] = x] /\ job' = [job EXCEPT ![d] = j]
      /\ faults' = [faults EXCEPT ![d] = k]
      /\ \A e \in Delivery : log[e] \subseteq log'[e]
  BY <1>1, <1>2 DEF Timeout, TypeOK
<1> HIDE DEF x, j, k
<1>6. /\ job'[d] = j /\ run'[d][r] = x /\ copies'[d] = copies[d] /\ faults'[d] = k
      /\ \A s \in Runs \ {r} : run'[d][s] = run[d][s]
      /\ \A e \in Delivery \ {d} : Accounted(e)'
  BY <1>1, <1>2, <1>5, OneRunStep
<1>7. \A s \in Runs : ~run'[d][s].current
  BY <1>1, <1>4, <1>6 DEF JobSound
<1>8. Budgeted(d)'
  <2>1. job[d].tries <= faults[d]
    BY <1>1 DEF Accounted, Budgeted
  <2>2. j.tries <= k /\ (j.state = "failed" => j.tries >= MaxTries)
    BY <1>2, <1>3, <2>1, Constants DEF k
  <2>3. \A s \in Runs : run'[d][s].pc = "accepted" => copies[d] > 0
    BY <1>1, <1>4, <1>6 DEF Accounted, Budgeted
  <2>. QED BY <1>1, <1>3, <1>6, <1>7, <2>2, <2>3 DEF Accounted, Budgeted
<1>9. Recorded(d)'
  <2>1. (\E s \in Runs : run'[d][s].pc = "done") => \E s \in Runs : run[d][s].pc = "done"
    BY <1>4, <1>6
  <2>2. job'[d].state # "completed"
    BY <1>3, <1>6
  <2>. QED BY <1>1, <1>6, <2>1, <2>2 DEF Accounted, Recorded, Reported, Medium
<1>. QED BY <1>6, <1>8, <1>9 DEF Accounted

LEMMA StalledAccounted ==
  ASSUME OutcomeInvariant, NEW d \in Delivery, Stalled(d)
  PROVE  \A e \in Delivery : Accounted(e)'
<1> DEFINE j == [job[d] EXCEPT
                   !.stalls = @ + 1,
                   !.state = IF job[d].stalls < MaxStalls THEN "waiting" ELSE "failed"]
           x == run[d][1]
<1>1. /\ TypeOK /\ Accounted(d)
      /\ job[d].state = "active" /\ (\A r \in Runs : ~run[d][r].current)
      /\ UNCHANGED <<settings, people, fanout, run, log, copies, faults, crashes, changes>>
      /\ job' = [job EXCEPT ![d] = j]
  BY DEF OutcomeInvariant, DeliveryInvariant, Stalled
<1>2. 1 \in Runs
  BY Constants DEF Runs
<1>3. /\ job[d] \in JobRow
      /\ run' = [run EXCEPT ![d][1] = x]
      /\ copies' = [copies EXCEPT ![d] = copies[d]] /\ faults' = [faults EXCEPT ![d] = faults[d]]
  BY <1>1, <1>2, DeliveryRows
<1>4. /\ j.stalls = job[d].stalls + 1 /\ j.tries = job[d].tries
      /\ j.state = IF job[d].stalls < MaxStalls THEN "waiting" ELSE "failed"
      /\ job[d].stalls \in Nat /\ crashes \in Nat
  BY <1>1, <1>3, Constants DEF JobRow, TypeOK
<1>5. job[d].stalls < crashes
  BY <1>1 DEF Accounted, Budgeted
<1> HIDE DEF j, x
<1>6. /\ job'[d] = j /\ \A e \in Delivery \ {d} : Accounted(e)'
  <2>1. /\ job' = [job EXCEPT ![d] = j] /\ crashes' = crashes
        /\ \A e \in Delivery : log[e] \subseteq log'[e]
    BY <1>1
  <2>2. job'[d] = j
    BY <1>1, <2>1 DEF TypeOK
  <2>3. \A e \in Delivery \ {d} : job'[e] = job[e] /\ Accounted(e)
    BY <1>1, <2>1 DEF TypeOK, OutcomeInvariant
  <2>4. UNCHANGED <<run, copies, faults, crashes>>
    BY <1>1
  <2>. QED BY <1>1, <2>1, <2>2, <2>3, <2>4, AccountedKept
<1>7. Budgeted(d)'
  <2>1. j.stalls <= crashes /\ (j.state = "failed" => j.stalls > MaxStalls)
    BY <1>4, <1>5, Constants
  <2>2. job[d].tries <= faults[d]
          /\ \A r \in Runs : run[d][r].pc = "accepted" => copies[d] > 0
    BY <1>1 DEF Accounted, Budgeted
  <2>. QED BY <1>1, <1>4, <1>6, <2>1, <2>2 DEF Budgeted
<1>8. Recorded(d)'
  <2>1. job'[d].state # "completed" /\ run' = run
    BY <1>1, <1>4, <1>6
  <2>. QED BY <1>1, <2>1 DEF Accounted, Recorded, Reported, Medium
<1>. QED BY <1>6, <1>7, <1>8 DEF Accounted

LEMMA CrashAccounted ==
  ASSUME OutcomeInvariant, NEW d \in Delivery, Crash
  PROVE  Accounted(d)'
<1>1. /\ TypeOK /\ JobSound(d) /\ Accounted(d)
      /\ crashes' = crashes + 1 /\ crashes \in Nat /\ faults[d] \in Nat /\ job[d] \in JobRow
      /\ \A r \in Runs : run'[d][r] = NoRun
      /\ faults'[d] \in {faults[d], faults[d] + 1}
      /\ UNCHANGED <<job, log, copies>>
  <2>1. TypeOK /\ JobSound(d) /\ Accounted(d)
    BY DEF OutcomeInvariant, DeliveryInvariant
  <2>2. /\ crashes \in Nat /\ faults[d] \in Nat /\ job[d] \in JobRow
    BY <2>1, Constants DEF TypeOK
  <2>3. /\ crashes' = crashes + 1
        /\ \A r \in Runs : run'[d][r] = NoRun
        /\ faults'[d] = IF Running(d) = {} THEN faults[d] ELSE faults[d] + 1
        /\ UNCHANGED <<job, log, copies>>
    BY DEF Crash
  <2>. QED BY <2>1, <2>2, <2>3
<1>2. job[d].stalls \in Nat /\ job[d].tries \in Nat
  BY <1>1, Constants DEF JobRow
<1>3. /\ job[d].tries <= faults'[d] /\ job[d].stalls < crashes'
  BY <1>1, <1>2 DEF Accounted, Budgeted
<1>4. Budgeted(d)'
  BY <1>1, <1>2, <1>3, RowsTyped DEF Accounted, Budgeted
<1>5. Recorded(d)'
  BY <1>1, RowsTyped DEF Accounted, Recorded, Reported, Medium
<1>. QED BY <1>4, <1>5 DEF Accounted

(* Users, settings and the fan-out.  A job that is queued starts afresh.     *)
LEMMA PersonAccounted ==
  ASSUME OutcomeInvariant, PersonStep, NEW d \in Delivery
  PROVE  Accounted(d)'
<1>1. TypeOK /\ Accounted(d)
  BY DEF OutcomeInvariant, DeliveryInvariant
<1>2. PICK u \in Person :
        UpdateUser(u) \/ UnlinkAccount(u) \/ \E a \in Account : LinkAccount(u, a)
  BY DEF PersonStep
<1>3. Overtake(u) /\ UNCHANGED <<job, log, copies, faults, crashes>>
  BY <1>2 DEF UpdateUser, UnlinkAccount, LinkAccount
<1>. QED BY <1>1, <1>3, Overtaken, AccountedKept

LEMMA LogGrows ==
  ASSUME TypeOK, NEW m \in Message, NEW value, Decide(m, value), NEW d \in Delivery
  PROVE  log[d] \subseteq log'[d]
BY DEF TypeOK, Decide, Audit

LEMMA SilentAccounted ==
  ASSUME OutcomeInvariant, NEW m \in Message,
         Emit(m) \/ AskSwitch(m) \/ FillCache(m) \/ GatesUnread(m),
         NEW d \in Delivery
  PROVE  Accounted(d)'
<1>1. TypeOK /\ Accounted(d)
  BY DEF OutcomeInvariant, DeliveryInvariant
<1>2. UNCHANGED <<job, run, copies, faults, crashes>>
  BY DEF Emit, AskSwitch, FillCache, GatesUnread, deliveries
<1>3. log' = log \/ \E value : Decide(m, value)
  BY DEF Emit, AskSwitch, FillCache, GatesUnread
<1>4. log[d] \subseteq log'[d]
  BY <1>1, <1>3, LogGrows
<1>. QED BY <1>1, <1>2, <1>4, AccountedKept

LEMMA QueueAccounted ==
  ASSUME OutcomeInvariant, NEW m \in Message, NEW u \in Person, QueueOne(m, u),
         NEW e \in Delivery
  PROVE  Accounted(e)'
<1> DEFINE d == <<m, u, fanout[m].channel>>
<1>1. TypeOK /\ QueuedOnce /\ Accounted(e) /\ JobSound(e)
  BY DEF OutcomeInvariant, DeliveryInvariant
<1>2. /\ d \in Delivery /\ job[d].state = "none"
      /\ UNCHANGED <<people, run, copies, faults>>
      /\ \/ job' = job
         \/ \E a : job' = [job EXCEPT ![d] = [@ EXCEPT !.state = "waiting", !.to = a]]
  BY <1>1, QueueStep
<1>3. crashes' = crashes /\ \E row : Audit({d}, row)
  BY DEF QueueOne
<1> HIDE DEF d
<1>4. log[e] \subseteq log'[e]
  BY <1>1, <1>2, <1>3, AuditGrows
<1>5. CASE job'[e] = job[e]
  BY <1>1, <1>2, <1>3, <1>4, <1>5, AccountedKept
<1>6. CASE job'[e] # job[e]
  <2>1. e = d
    BY <1>1, <1>2, <1>6 DEF TypeOK
  <2>2. job[e] = NoJob /\ (\A r \in Runs : run[e][r] = NoRun)
    BY <1>1, <1>2, <2>1 DEF JobSound
  <2>3. PICK a : job'[e] = [NoJob EXCEPT !.state = "waiting", !.to = a]
    <3>1. PICK a : job' = [job EXCEPT ![d] = [@ EXCEPT !.state = "waiting", !.to = a]]
      BY <1>2, <1>6
    <3>2. job'[e] = [job[e] EXCEPT !.state = "waiting", !.to = a]
      BY <1>1, <2>1, <3>1 DEF TypeOK
    <3>. QED BY <2>2, <3>2
  <2>4. job'[e].state = "waiting" /\ job'[e].tries = 0 /\ job'[e].stalls = 0
    BY <2>3 DEF NoJob
  <2>5. faults[e] \in Nat /\ crashes \in Nat
    BY <1>1 DEF TypeOK
  <2>6. \A r \in Runs : run'[e][r].pc = "idle" /\ ~run'[e][r].current
    BY <1>2, <2>2, RowsTyped
  <2>7. Budgeted(e)'
    <3>1. faults'[e] = faults[e] /\ crashes' = crashes
      BY <1>2, <1>3
    <3>2. job'[e].tries <= faults'[e] /\ job'[e].stalls <= crashes'
      BY <2>4, <2>5, <3>1
    <3>. QED BY <2>4, <2>6, <3>2 DEF Budgeted
  <2>8. Recorded(e)'
    BY <2>4, <2>6 DEF Recorded
  <2>. QED BY <2>7, <2>8 DEF Accounted
<1>. QED BY <1>5, <1>6

LEMMA OutcomeInit == Init => OutcomeInvariant
<1> SUFFICES ASSUME Init PROVE OutcomeInvariant
  OBVIOUS
<1>1. DeliveryInvariant
  BY DeliveryInit
<1>2. ASSUME NEW d \in Delivery PROVE Accounted(d)
  <2>1. /\ job[d] = NoJob /\ (\A r \in Runs : run[d][r] = NoRun)
        /\ faults[d] = 0 /\ crashes = 0
    BY DEF Init
  <2>2. Budgeted(d)
    BY <2>1, RowsTyped DEF Budgeted
  <2>3. Recorded(d)
    BY <2>1, RowsTyped DEF Recorded
  <2>. QED BY <2>2, <2>3 DEF Accounted
<1>. QED BY <1>1, <1>2 DEF OutcomeInvariant

LEMMA OutcomeNext == OutcomeInvariant /\ [Next]_vars => OutcomeInvariant'
<1> SUFFICES ASSUME OutcomeInvariant, [Next]_vars PROVE OutcomeInvariant'
  OBVIOUS
<1>1. TypeOK /\ DeliveryInvariant /\ (\A d \in Delivery : Accounted(d))
  BY DEF OutcomeInvariant, DeliveryInvariant
<1>2. DeliveryInvariant'
  BY <1>1, DeliveryNext
<1>3. CASE FanOutStep
  BY <1>2, <1>3, SilentAccounted, QueueAccounted DEF FanOutStep, OutcomeInvariant
<1>4. CASE JobStep
  BY <1>2, <1>4, PickupAccounted, PostAccounted, ReturnAccounted, FinishAccounted,
     TimeoutAccounted, StalledAccounted DEF JobStep, OutcomeInvariant
<1>5. CASE SettingsStep \/ UNCHANGED vars
  <2>1. UNCHANGED <<job, run, copies, faults, log, crashes>>
    BY <1>5 DEF SettingsStep, UpdateSettings, WriteThrough, CacheExpires, vars, deliveries
  <2>. QED BY <1>1, <1>2, <2>1, AccountedKept DEF OutcomeInvariant
<1>6. CASE PersonStep
  BY <1>2, <1>6, PersonAccounted DEF OutcomeInvariant
<1>7. CASE Crash
  BY <1>2, <1>7, CrashAccounted DEF OutcomeInvariant
<1>. QED BY <1>3, <1>4, <1>5, <1>6, <1>7 DEF Next

(* In every run of the delivery its rows, jobs and runs are of their types,  *)
(* and no job is tried or stalled more often than Bull allows.               *)
THEOREM DeliveryTypeCorrect == Spec => []TypeOK
<1>1. DeliveryInvariant => TypeOK
  BY DEF DeliveryInvariant
<1>. QED BY <1>1, DeliveryInit, DeliveryNext, PTL DEF Spec

(* postWithRetry inside the attempts of Bull inside its stall checks: a      *)
(* message reaches a recipient once, plus once for each post without an      *)
(* answer, timeout or crash, and never more often.                           *)
THEOREM CopiesArePaid == Spec => []ExtraCopyNeedsFault
<1>1. DeliveryInvariant => ExtraCopyNeedsFault
  <2> SUFFICES ASSUME DeliveryInvariant, NEW d \in Delivery
               PROVE  copies[d] <= 1 + faults[d]
    BY DEF ExtraCopyNeedsFault
  <2>1. copies[d] \in Nat /\ faults[d] \in Nat /\ Cardinality(Loose(d)) \in Nat
    BY LooseFinite DEF DeliveryInvariant, TypeOK
  <2>. QED BY <2>1 DEF DeliveryInvariant, Paid
<1>. QED BY <1>1, DeliveryInit, DeliveryNext, PTL DEF Spec

(* sendPreparedJob asks the preferences and the binding again before every   *)
(* attempt, so that a run works for an address that its recipient allowed    *)
(* and owned when it started, however long the job had waited.               *)
THEOREM ConsentHonoured == Spec => []ConsentAtDispatch
<1>1. DeliveryInvariant => ConsentAtDispatch
  BY DEF DeliveryInvariant, Consented, ConsentAtDispatch
<1>. QED BY <1>1, DeliveryInit, DeliveryNext, PTL DEF Spec

(* A job that met fewer faults than it has attempts, and no more crashes     *)
(* than Bull forgives, does not end in the failed set.                       *)
LEMMA FewFaultsComplete ==
  ASSUME OutcomeInvariant, NEW d \in Delivery, Medium(d) = "line", Settled(d),
         faults[d] < MaxTries, crashes <= MaxStalls
  PROVE  Reported(d)
<1>1. /\ Budgeted(d) /\ Recorded(d) /\ faults[d] \in Nat /\ crashes \in Nat
      /\ job[d] \in JobRow
  BY DEF OutcomeInvariant, DeliveryInvariant, Accounted, TypeOK
<1>2. job[d].tries \in Nat /\ job[d].stalls \in Nat
  BY <1>1, Constants DEF JobRow
<1>3. job[d].state # "failed"
  BY <1>1, <1>2, Constants DEF Budgeted
<1>. QED BY <1>1, <1>3 DEF Recorded, Settled

(* postWithRetry and the attempts and stall checks of Bull: a LINE message   *)
(* that met fewer faults than it has attempts, and no more crashes than Bull *)
(* forgives, is delivered unless a gate or LINE itself turned it down.       *)
THEOREM LineFaultsDoNotLose == Spec => []LineFaultsAbsorbed
<1>1. OutcomeInvariant => LineFaultsAbsorbed
  BY FewFaultsComplete DEF LineFaultsAbsorbed, Reported
<1>. QED BY <1>1, OutcomeInit, OutcomeNext, PTL DEF Spec

(* sendPreparedJob of the LINE channel calls writeAuditLog with the outcome  *)
(* before the run ends that completes the job, however reads that throw,     *)
(* posts, timeouts and runs that Bull has given up on interleave.            *)
THEOREM OutcomesAreReported == Spec => []OutcomeReported
<1>1. OutcomeInvariant => OutcomeReported
  BY FewFaultsComplete DEF OutcomeReported, Reported
<1>. QED BY <1>1, OutcomeInit, OutcomeNext, PTL DEF Spec
=============================================================================
