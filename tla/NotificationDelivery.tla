------------------------ MODULE NotificationDelivery ------------------------
(***************************************************************************)
(* The delivery of workflow notifications by email and by LINE: the two    *)
(* kill switches with their cache (notification-settings.service.ts), the  *)
(* fan-out that queues one job per recipient (queueEmail, queueLine), the  *)
(* Bull jobs with their attempts, timeout and stall check, the second      *)
(* gates and the transport (sendPreparedJob, the two processors, the       *)
(* providers and postWithRetry), and what recipients do meanwhile.         *)
(*                                                                         *)
(* A job is run at least once: Bull starts it again after a thrown error,  *)
(* after its timeout of 30 s although the first run goes on, and after a   *)
(* crash of the worker.  One process serves requests and jobs.             *)
(***************************************************************************)
EXTENDS Naturals, FiniteSets

CONSTANTS
  Person,      \* users who may be told
  Account,     \* LINE accounts
  Nobody,      \* the owner of an account without an active binding
  Message,     \* notifications handed to queueEmail and queueLine
  MaxTries,    \* JOB_OPTIONS.attempts
  MaxPosts,    \* 1 + RETRY_MAX_ATTEMPTS
  MaxStalls,   \* Bull's maxStalledCount
  MaxRuns,     \* bound: runs of one job alive at the same time
  MaxCrashes,  \* bound: crashes of the process
  MaxFaults,   \* bound: failed posts and timeouts of one delivery
  MaxChanges   \* bound: changes made by users and administrators

ASSUME DeliveryAssumption ==
  /\ Nobody \notin Person
  /\ {MaxTries, MaxPosts, MaxRuns} \subseteq Nat \ {0}
  /\ {MaxStalls, MaxCrashes, MaxFaults, MaxChanges} \subseteq Nat

VARIABLES
  switch,   \* notification_settings: emailEnabled and lineEnabled
  cached,   \* cache and lineCache of the settings service
  update,   \* an update of the settings whose cache write is outstanding
  prefs,    \* users: the two preferences and emailVerifiedAt
  bound,    \* line_user_bindings: the owner of each account's active row
  fanout,   \* where queueEmail and then queueLine are with a message
  job,      \* the Bull job of a delivery
  run,      \* the calls of the processor that are executing it
  log,      \* the kinds of audit rows it was reported with
  copies,   \* messages the provider has accepted for it
  faults,   \* what went wrong with it
  crashes, changes

settings == <<switch, cached, update>>
people == <<prefs, bound>>
deliveries == <<job, run, copies, faults>>
vars == <<settings, people, fanout, deliveries, log, crashes, changes>>

Channel == {"email", "line"}
Runs == 1..MaxRuns

Delivery == Message \X Person \X Channel
Recipient(d) == d[2]
Medium(d) == d[3]

(***************************************************************************)
(* Audit rows; "failed" is a failure that will be retried, "refused" one    *)
(* that will not (both are status 'failed' in the tables).  log holds the   *)
(* rows writeAuditLog was called with: it does not wait for the insert and  *)
(* swallows its errors, so the table may lack any of them.                  *)
(***************************************************************************)
Row == {"queued", "skipped", "sent", "failed", "refused"}

Mailbox == "mailbox"   \* destination of an email job

NoJob == [state |-> "none", tries |-> 0, stalls |-> 0, to |-> Nobody]
NoRun == [pc |-> "idle", posts |-> 0, current |-> FALSE, overtaken |-> FALSE]

Silent == [pc |-> "unsent", channel |-> "email", to |-> {}, left |-> {},
           seen |-> "none", eligible |-> FALSE]

Init ==
  /\ switch \in [Channel -> {"on", "off"}]
  /\ cached = [c \in Channel |-> "none"]
  /\ update = [c \in Channel |-> "none"]
  /\ prefs \in [Person -> [email : BOOLEAN, line : BOOLEAN, verified : BOOLEAN]]
  /\ bound \in [Account -> Person \cup {Nobody}]
  /\ \A a, b \in Account : bound[a] = bound[b] => a = b \/ bound[a] = Nobody
  /\ fanout = [m \in Message |-> Silent]
  /\ job = [d \in Delivery |-> NoJob]
  /\ run = [d \in Delivery |-> [r \in Runs |-> NoRun]]
  /\ log = [d \in Delivery |-> {}]
  /\ copies = [d \in Delivery |-> 0]
  /\ faults = [d \in Delivery |-> 0]
  /\ crashes = 0
  /\ changes = 0

Settled(d) == job[d].state \in {"completed", "failed"}
Running(d) == {r \in Runs : run[d][r] # NoRun}

-----------------------------------------------------------------------------
(* The gates: what must hold of a recipient for a channel to be used.       *)
AccountsOf(u) == {a \in Account : bound[a] = u}

Addresses(u, c) ==
  IF c = "email"
  THEN IF prefs[u].email /\ prefs[u].verified THEN {Mailbox} ELSE {}
  ELSE IF prefs[u].line THEN AccountsOf(u) ELSE {}

\* Mutant: the second gate looks at the preference only.
ReachableUnbound(d) ==
  IF Medium(d) = "email" THEN prefs[Recipient(d)].email
  ELSE prefs[Recipient(d)].line

Reachable(d) == job[d].to \in Addresses(Recipient(d), Medium(d))

-----------------------------------------------------------------------------
(* Fan-out.  The message is emitted after the commit of a workflow step;    *)
(* the email channel is served first, then LINE.  A message is eligible for *)
(* LINE when its event type is in LINE_EVENT_ALLOWLIST.                     *)
Emit(m) ==
  /\ fanout[m] = Silent
  /\ \E rs \in SUBSET Person \ {{}}, allowed \in BOOLEAN :
       fanout' = [fanout EXCEPT ![m] =
         [@ EXCEPT !.pc = "ask", !.to = rs, !.left = rs, !.eligible = allowed]]
  /\ UNCHANGED <<settings, people, deliveries, log, crashes, changes>>

NextChannel(f) ==
  IF f.channel = "email"
  THEN [f EXCEPT !.pc = "ask", !.channel = "line", !.left = f.to]
  ELSE [f EXCEPT !.pc = "told", !.left = {}]

\* Mutant: a recipient dropped by a gate leaves no row.
AuditOutcomesOnly(ds, row) ==
  log' = [d \in Delivery |->
           IF d \in ds /\ row # "skipped" THEN log[d] \cup {row} ELSE log[d]]

Audit(ds, row) == 
  log' = [d \in Delivery |-> IF d \in ds THEN log[d] \cup {row} ELSE log[d]]

(* What follows once the switch of the channel is known. *)
Decide(m, value) ==
  LET f == fanout[m] IN
  IF value = "on"
  THEN fanout' = [fanout EXCEPT ![m].pc = "open"] /\ UNCHANGED log
  ELSE /\ fanout' = [fanout EXCEPT ![m] = NextChannel(f)]
       /\ Audit({m} \X f.to \X {f.channel}, "skipped")

(* isEmailEnabled / isLineEnabled: a fresh cache entry answers; otherwise    *)
(* the row is read, and a failing read counts as off and is not cached.      *)
AskSwitch(m) ==
  LET f == fanout[m] IN
  /\ f.pc = "ask"
  /\ \/ /\ f.channel = "line" /\ ~f.eligible
        /\ Decide(m, "off")
     \/ /\ f.channel = "email" \/ f.eligible
        /\ IF cached[f.channel] # "none"
           THEN Decide(m, cached[f.channel])
           ELSE \/ /\ fanout' = [fanout EXCEPT ![m].pc = "fill",
                                               ![m].seen = switch[f.channel]]
                   /\ UNCHANGED log
                \/ Decide(m, "off")
  /\ UNCHANGED <<settings, people, deliveries, crashes, changes>>

FillCache(m) ==
  /\ fanout[m].pc = "fill"
  /\ cached' = [cached EXCEPT ![fanout[m].channel] = fanout[m].seen]
  /\ Decide(m, fanout[m].seen)
  /\ UNCHANGED <<switch, update, people, deliveries, crashes, changes>>

(* One recipient: the first gates, then queue.add, which fails when Redis   *)
(* cannot be reached.  The gates of LINE are read for all recipients before *)
(* the first is queued.  A read that throws ends the channel: whoever is    *)
(* left gets neither a job nor a row.                                       *)
QueueOne(m, u) ==
  LET f == fanout[m]
      d == <<m, u, f.channel>>
      rest == [f EXCEPT !.left = @ \ {u}] IN
  /\ f.pc = "open" /\ u \in f.left
  /\ fanout' = [fanout EXCEPT ![m] = IF rest.left = {} THEN NextChannel(rest) ELSE rest]
  /\ \/ /\ Addresses(u, f.channel) = {}
        /\ Audit({d}, "skipped")
        /\ UNCHANGED job
     \/ \E a \in Addresses(u, f.channel) :
          \/ /\ job' = [job EXCEPT ![d] = [@ EXCEPT !.state = "waiting", !.to = a]]
             /\ Audit({d}, "queued")
          \/ /\ Audit({d}, "refused")
             /\ UNCHANGED job
  /\ UNCHANGED <<settings, people, run, copies, faults, crashes, changes>>

GatesUnread(m) ==
  LET f == fanout[m] IN
  /\ f.pc = "open"
  /\ f.channel = "email" \/ f.left = f.to
  /\ fanout' = [fanout EXCEPT ![m] = NextChannel(f)]
  /\ UNCHANGED <<settings, people, deliveries, log, crashes, changes>>

-----------------------------------------------------------------------------
(* Jobs.                                                                    *)

\* Mutant: the attempt before the last is taken for the last.
GiveUpEarly(j) ==
  [j EXCEPT !.tries = @ + 1,
            !.state = IF j.tries + 2 < MaxTries THEN "waiting" ELSE "failed"]

(* Bull after a thrown error or a timeout: another attempt after a backoff, *)
(* or the failed set.                                                        *)
Again(j) ==
  [j EXCEPT !.tries = @ + 1,
            !.state = IF j.tries + 1 < MaxTries THEN "waiting" ELSE "failed"]

Starts(d, r, pc) ==
  run' = [run EXCEPT ![d][r] = [NoRun EXCEPT !.pc = pc, !.current = TRUE]]

(***************************************************************************)
(* A worker takes the job and sendPreparedJob asks the second gates.  Its   *)
(* reads may throw: nothing is reported and the attempt has failed.  A      *)
(* missing template, or an address that cannot be decrypted, is reported    *)
(* and final; a template of email that lacks a value is final and is not    *)
(* reported.                                                                *)
(***************************************************************************)
Pickup(d, r) ==
  /\ job[d].state = "waiting" /\ run[d][r] = NoRun
  /\ \A s \in 1..(r - 1) : run[d][s] # NoRun   \* places are interchangeable
  /\ job' = [job EXCEPT ![d].state = "active"]
  /\ \/ /\ Reachable(d)
        /\ Starts(d, r, "post")
        /\ UNCHANGED <<log, faults>>
     \/ /\ ~Reachable(d)
        /\ Starts(d, r, "done")
        /\ Audit({d}, "skipped")
        /\ UNCHANGED faults
     \/ /\ Reachable(d)
        /\ Starts(d, r, "done")
        /\ Audit({d}, "refused") \/ (Medium(d) = "email" /\ UNCHANGED log)
        /\ UNCHANGED faults
     \/ /\ faults[d] < MaxFaults
        /\ Starts(d, r, "retry")
        /\ faults' = [faults EXCEPT ![d] = @ + 1]
        /\ UNCHANGED log
  /\ UNCHANGED <<settings, people, fanout, copies, crashes, changes>>

(* One call of the provider.  It accepts the message and says so; it accepts *)
(* it and the answer is lost; it fails; or it refuses.  "odd" is a status of *)
(* LINE other than 2xx, 400, 401, 403, 404, 429 and 5xx.                     *)
Post(d, r) ==
  /\ run[d][r].pc = "post"
  /\ \E answer \in {"accepted", "error", "refused", "odd"}, taken \in BOOLEAN :
       /\ answer = "accepted" => taken
       /\ answer \in {"refused", "odd"} => ~taken
       /\ answer = "odd" => Medium(d) = "line"
       /\ answer \in {"error", "odd"} => faults[d] < MaxFaults
       /\ run' = [run EXCEPT ![d][r].pc = answer]
       /\ copies' = [copies EXCEPT ![d] = IF taken THEN @ + 1 ELSE @]
       /\ faults' = [faults EXCEPT ![d] = IF answer \in {"error", "odd"} THEN @ + 1 ELSE @]
  /\ UNCHANGED <<settings, people, fanout, job, log, crashes, changes>>

(* How a run ends: it reports, and returns or throws. *)
EndRun(d, r, row, end) ==
  /\ run' = [run EXCEPT ![d][r].pc = end]
  /\ Audit({d}, row)

\* Mutant: one post more than the budget.
PostOnceMore(posts) == posts < MaxPosts

(* postWithRetry: another post is left. *)
PostAgain(posts) == posts + 1 < MaxPosts

(* The email provider catches every error and answers success = false, which *)
(* the processor takes as final.  LINE posts again, then throws, so that the *)
(* job is tried again; an odd status is thrown at once and tried again too.  *)
Return(d, r) ==
  LET x == run[d][r] IN
  /\ \/ /\ x.pc = "accepted"
        /\ EndRun(d, r, "sent", "done")
     \/ /\ x.pc = "refused"
        /\ EndRun(d, r, "refused", "done")
     \/ /\ x.pc = "error" /\ Medium(d) = "email"
        /\ EndRun(d, r, "refused", "done")
     \/ /\ x.pc = "error" /\ Medium(d) = "line" /\ PostAgain(x.posts)
        /\ run' = [run EXCEPT ![d][r] = [x EXCEPT !.pc = "post", !.posts = @ + 1]]
        /\ UNCHANGED log
     \/ /\ x.pc = "error" /\ Medium(d) = "line" /\ ~PostAgain(x.posts)
        /\ EndRun(d, r, "failed", "retry")
     \/ /\ x.pc = "odd"
        /\ EndRun(d, r, "failed", "retry")
  /\ UNCHANGED <<settings, people, fanout, job, copies, faults, crashes, changes>>

\* Mutant: a job that was sent is tried again.
RetryAfterSent(d, pc) == Again(job[d])

Concluded(d, pc) ==
  IF pc = "done" THEN [job[d] EXCEPT !.state = "completed"] ELSE Again(job[d])

(* Bull records the end of the run, unless it has given up on it before.    *)
Finish(d, r) ==
  /\ run[d][r].pc \in {"done", "retry"}
  /\ run' = [run EXCEPT ![d][r] = NoRun]
  /\ job' = IF run[d][r].current
            THEN [job EXCEPT ![d] = Concluded(d, run[d][r].pc)] ELSE job
  /\ UNCHANGED <<settings, people, fanout, copies, faults, log, crashes, changes>>

(* The timeout of the job: Bull gives up on the run, which goes on. *)
Timeout(d, r) ==
  /\ run[d][r].current /\ run[d][r].pc \notin {"done", "retry"}
  /\ faults[d] < MaxFaults
  /\ run' = [run EXCEPT ![d][r].current = FALSE]
  /\ job' = [job EXCEPT ![d] = Again(@)]
  /\ faults' = [faults EXCEPT ![d] = @ + 1]
  /\ UNCHANGED <<settings, people, fanout, log, copies, crashes, changes>>

(* The process dies: runs, fan-outs and the cache are lost, jobs are not. *)
Crash ==
  /\ crashes < MaxCrashes
  /\ crashes' = crashes + 1
  /\ run' = [d \in Delivery |-> [r \in Runs |-> NoRun]]
  /\ fanout' = [m \in Message |->
       IF fanout[m].pc = "unsent" THEN fanout[m]
       ELSE [fanout[m] EXCEPT !.pc = "told", !.left = {}]]
  /\ cached' = [c \in Channel |-> "none"]
  /\ update' = [c \in Channel |-> "none"]
  /\ faults' = [d \in Delivery |-> IF Running(d) = {} THEN faults[d] ELSE faults[d] + 1]
  /\ UNCHANGED <<switch, people, job, log, copies, changes>>

\* Mutant: jobs of a dead worker are left to it.
StallIgnored(d) == FALSE /\ UNCHANGED vars

(* Bull's stall check: an active job that nobody works on. *)
Stalled(d) ==
  /\ job[d].state = "active"
  /\ \A r \in Runs : ~run[d][r].current
  /\ job' = [job EXCEPT ![d] = [job[d] EXCEPT
       !.stalls = @ + 1,
       !.state = IF job[d].stalls < MaxStalls THEN "waiting" ELSE "failed"]]
  /\ UNCHANGED <<settings, people, fanout, run, log, copies, faults, crashes, changes>>

-----------------------------------------------------------------------------
(* Administrators and users.                                                *)
Change == changes < MaxChanges /\ changes' = changes + 1

(* updateSettings: the transaction; the cache is written after it. *)
UpdateSettings ==
  /\ Change
  /\ \A c \in Channel : update[c] = "none"
  /\ switch' \in [Channel -> {"on", "off"}]
  /\ switch' # switch
  /\ update' = switch'
  /\ UNCHANGED <<cached, people, fanout, deliveries, log, crashes>>

WriteThrough ==
  /\ \A c \in Channel : update[c] # "none"
  /\ cached' = update
  /\ update' = [c \in Channel |-> "none"]
  /\ UNCHANGED <<switch, people, fanout, deliveries, log, crashes, changes>>

\* Mutant: an entry is fresh for ever.
NeverExpires(c) == FALSE /\ UNCHANGED vars

(* An entry of the cache grows older than CACHE_TTL_MS. *)
CacheExpires(c) ==
  /\ cached[c] # "none"
  /\ cached' = [cached EXCEPT ![c] = "none"]
  /\ UNCHANGED <<switch, update, people, fanout, deliveries, log, crashes, changes>>

(* Runs that passed the gates before this change cannot know of it. *)
Overtake(u) ==
  run' = [d \in Delivery |-> [r \in Runs |->
    IF Recipient(d) = u /\ run[d][r] # NoRun
    THEN [run[d][r] EXCEPT !.overtaken = TRUE] ELSE run[d][r]]]

UpdateUser(u) ==
  /\ Change
  /\ \/ \E c \in Channel : prefs' = [prefs EXCEPT ![u][c] = ~@]
     \/ prefs' = [prefs EXCEPT ![u].verified = ~@]
  /\ Overtake(u)
  /\ UNCHANGED <<settings, bound, fanout, job, log, copies, faults, crashes>>

(* upsertBinding: an account of somebody else is refused; the user's own     *)
(* binding is replaced.                                                      *)
LinkAccount(u, a) ==
  /\ Change
  /\ bound[a] \in {Nobody, u}
  /\ bound' = [b \in Account |-> IF b = a THEN u ELSE IF bound[b] = u THEN Nobody ELSE bound[b]]
  /\ bound' # bound
  /\ Overtake(u)
  /\ UNCHANGED <<settings, prefs, fanout, job, log, copies, faults, crashes>>

(* unlink, forceUnlinkByAdmin and the unfollow webhook. *)
UnlinkAccount(u) ==
  /\ Change
  /\ AccountsOf(u) # {}
  /\ bound' = [a \in Account |-> IF bound[a] = u THEN Nobody ELSE bound[a]]
  /\ Overtake(u)
  /\ UNCHANGED <<settings, prefs, fanout, job, log, copies, faults, crashes>>

-----------------------------------------------------------------------------
FanOutStep ==
  \E m \in Message :
    \/ Emit(m) \/ AskSwitch(m) \/ FillCache(m) \/ GatesUnread(m)
    \/ \E u \in Person : QueueOne(m, u)

JobStep ==
  \/ \E d \in Delivery : Stalled(d)
  \/ \E d \in Delivery, r \in Runs :
       Pickup(d, r) \/ Post(d, r) \/ Return(d, r) \/ Finish(d, r) \/ Timeout(d, r)

SettingsStep ==
  UpdateSettings \/ WriteThrough \/ \E c \in Channel : CacheExpires(c)

PersonStep ==
  \E u \in Person :
    UpdateUser(u) \/ UnlinkAccount(u) \/ \E a \in Account : LinkAccount(u, a)

Next == FanOutStep \/ JobStep \/ SettingsStep \/ PersonStep \/ Crash

(* The event loop runs what is ready, Bull hands out waiting jobs and checks *)
(* for stalled ones, and time passes for the cache.  Nothing is assumed of   *)
(* timeouts, crashes, users and administrators.                              *)
Fairness ==
  /\ \A m \in Message :
       WF_vars(AskSwitch(m) \/ FillCache(m) \/ GatesUnread(m)
                 \/ \E u \in Person : QueueOne(m, u))
  /\ \A d \in Delivery : WF_vars(Stalled(d))
  /\ \A d \in Delivery, r \in Runs :
       WF_vars(Pickup(d, r) \/ Post(d, r) \/ Return(d, r) \/ Finish(d, r))
  /\ WF_vars(WriteThrough)
  /\ \A c \in Channel : WF_vars(CacheExpires(c))

Spec == Init /\ [][Next]_vars /\ Fairness

-----------------------------------------------------------------------------
FanOutRow ==
  [pc : {"unsent", "ask", "fill", "open", "told"}, channel : Channel,
   to : SUBSET Person, left : SUBSET Person, seen : {"on", "off", "none"},
   eligible : BOOLEAN]

JobRow ==
  [state : {"none", "waiting", "active", "completed", "failed"}, tries : 0..MaxTries,
   stalls : 0..(MaxStalls + 1), to : Account \cup {Mailbox, Nobody}]

RunRow ==
  [pc : {"idle", "post", "accepted", "refused", "error", "odd", "done", "retry"},
   posts : 0..(MaxPosts - 1), current : BOOLEAN, overtaken : BOOLEAN]

(* Every row, job and run is of its type, and the budgets hold. *)
TypeOK ==
  /\ switch \in [Channel -> {"on", "off"}]
  /\ cached \in [Channel -> {"on", "off", "none"}]
  /\ update \in [Channel -> {"on", "off", "none"}]
  /\ prefs \in [Person -> [email : BOOLEAN, line : BOOLEAN, verified : BOOLEAN]]
  /\ bound \in [Account -> Person \cup {Nobody}]
  /\ fanout \in [Message -> FanOutRow]
  /\ job \in [Delivery -> JobRow]
  /\ run \in [Delivery -> [Runs -> RunRow]]
  /\ log \in [Delivery -> SUBSET Row]
  /\ copies \in [Delivery -> Nat] /\ faults \in [Delivery -> Nat]
  /\ crashes \in 0..MaxCrashes /\ changes \in 0..MaxChanges

(* A second copy of a message has a cause: a lost answer, a timeout or a     *)
(* crash, one for each extra copy.  Retries of Bull inside retries of LINE   *)
(* never multiply copies by themselves.                                      *)
ExtraCopyNeedsFault == \A d \in Delivery : copies[d] <= 1 + faults[d]

(* A run posts only to an address that its recipient, at the time the run    *)
(* started, allowed and owned: what changed while the job waited or between  *)
(* attempts is honoured.                                                     *)
ConsentAtDispatch ==
  \A d \in Delivery, r \in Runs :
    run[d][r].pc = "post" /\ ~run[d][r].overtaken =>
      job[d].to \in Addresses(Recipient(d), Medium(d))

(* LINE: fewer faults than attempts cannot lose a message.  A job that Bull  *)
(* has finished with, and no run of which is left, was delivered, skipped by *)
(* a gate or refused by LINE.                                                *)
LineFaultsAbsorbed ==
  \A d \in Delivery :
    /\ Medium(d) = "line" /\ Settled(d) /\ Running(d) = {}
    /\ faults[d] < MaxTries /\ crashes <= MaxStalls
    => copies[d] > 0 \/ log[d] \cap {"skipped", "refused"} # {}

(* LINE: fewer faults than attempts - failed reads, failed posts, timeouts - *)
(* and no more crashes than Bull forgives cannot end a job without a report: *)
(* writeAuditLog was told that it was sent, skipped or refused, however      *)
(* retries and runs that Bull has given up on interleave.  (An email job     *)
(* whose template lacks a value does end so.)                                *)
OutcomeReported ==
  \A d \in Delivery :
    Medium(d) = "line" /\ Settled(d) /\ faults[d] < MaxTries /\ crashes <= MaxStalls
    => log[d] \cap {"sent", "skipped", "refused"} # {}

(* Every emitted message is handed over for all its recipients on both       *)
(* channels, and each of their jobs comes to an end, whatever retries,       *)
(* timeouts and crashes.                                                     *)
EveryDeliveryEnds ==
  \A d \in Delivery :
    fanout[d[1]].pc = "ask" ~> fanout[d[1]].pc = "told" /\ (job[d] = NoJob \/ Settled(d))

(* A channel that is switched off for good is off for the senders after some *)
(* time: a cache filled from a row read before the switch does not stay.     *)
OffIsHeard ==
  \A c \in Channel : <>[](switch[c] = "off") => <>[](cached[c] # "on")
=============================================================================
