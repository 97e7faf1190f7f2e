------------------------------ MODULE AiQuota -------------------------------
(***************************************************************************)
(* The AI quota of one user: the guard before an AI call and between the   *)
(* hops of an executive chat turn (ai-quota.guard.ts), the organisation's  *)
(* monthly cap with its cache (quota-org-cap.service.ts), the deduction    *)
(* and the lazy renewal after the call, the other writers of the row       *)
(* (ai-usage-quotas.service.ts), and the usage log (ai-usage-logs).        *)
(*                                                                         *)
(* Every writer reads the row and saves it later.  TypeORM's save compares *)
(* the object with the stored row and then writes the columns that differ, *)
(* also those that differ because somebody else has changed them; what     *)
(* changes between the two is not looked at.                               *)
(*                                                                         *)
(* The row is new, from createDefaultQuota or from create, which takes any *)
(* quotaLimit.  Amounts are whole multiples of the columns' scale and not  *)
(* negative: the rounding of the two columns, and an increment by a        *)
(* negative amount, which the controller lets through, are left out.       *)
(***************************************************************************)
EXTENDS Integers, FiniteSets, FiniteSetsExt

CONSTANTS
  Slot,       \* requests of the user at the same time
  Limit,      \* quotaLimit of the row
  Renewal,    \* what a renewal sets remainingQuota to, whatever the limit
  EstMin,     \* estMinThb of a single call
  HopMin,     \* the threshold between the hops of a chat turn
  MaxHops,    \* MAX_HOPS
  Cap,        \* AI_ORG_MONTHLY_CAP_THB
  Cost,       \* what one call of the model may cost
  MaxPeriod,  \* bound: periods
  MaxSpent    \* bound: money spent at the provider, and increments of a period

ASSUME QuotaAssumption ==
  /\ {Limit, Renewal, EstMin, HopMin, Cap, MaxPeriod, MaxSpent} \subseteq Nat
  /\ MaxHops \in Nat \ {0} /\ MaxPeriod > 0
  /\ Cost \subseteq Nat
  /\ IsFiniteSet(Slot)

VARIABLES
  row,      \* the user's ai_usage_quotas row; period is when it began
  now,      \* the current period: a row of an earlier one has lapsed
  turn,     \* the requests
  cached,   \* the cache of getOrgMonthlyConsumedThb
  logged,   \* the sum of ai_usage_logs.cost_bath in the month
  spent,    \* what the calls of everybody have cost at the provider
  charged,  \* what was deducted from the row, by period of the row
  mixed     \* a save has put amounts and a period together that nobody had

sums == <<logged, spent, charged>>
vars == <<row, now, turn, cached, sums, mixed>>

Period == 1..MaxPeriod
Column == {"used", "remaining", "period", "auto"}
Row == [used : Nat, remaining : Int, period : Period, auto : BOOLEAN]
NoValue == MaxSpent + 1

(* Kinds of request: single is one guarded call that logs for itself, chat a  *)
(* turn of several hops whose deduction logs, title the unguarded call that   *)
(* may follow a chat turn; toggle and increment write the row without a call.    *)
Kind == {"single", "chat", "title", "toggle", "increment"}
TurnRow == [pc : {"free", "guard", "cap", "classify", "call", "read", "renew",
                  "renewing", "check", "update", "log", "write"},
            kind : Kind, cost : Nat, hops : 0..MaxHops,
            differ : SUBSET Column, copy : Row]
NewRow == [used |-> 0, remaining |-> Limit, period |-> 1, auto |-> TRUE]
Turn(kind, pc, cost, copy, differ) ==
  [pc |-> pc, kind |-> kind, cost |-> cost, hops |-> 0, differ |-> differ, copy |-> copy]
Fresh(kind, pc, cost) == Turn(kind, pc, cost, NewRow, {})
Free == Fresh("single", "free", 0)

Init ==
  /\ row = NewRow
  /\ now = 1
  /\ turn = [r \in Slot |-> Free]
  /\ cached = NoValue
  /\ logged = 0 /\ spent = 0
  /\ charged = [p \in Period |-> 0]
  /\ mixed = FALSE

Lapsed(q) == q.period < now
At(r, pc) == turn[r].pc = pc
Goto(r, pc) == turn' = [turn EXCEPT ![r].pc = pc]
Finish(r) == turn' = [turn EXCEPT ![r] = Free]

(* The deduction is over, done or refused. *)
Close(r) ==
  \/ Finish(r)
  \/ /\ turn[r].kind = "chat"
     /\ turn' = [turn EXCEPT ![r] = Fresh("title", "call", 0)]

-----------------------------------------------------------------------------
(* Guards.                                                                  *)
Begin(r) ==
  /\ At(r, "free")
  /\ \E k \in Kind \ {"title"} :
       turn' = [turn EXCEPT ![r] =
         Fresh(k, IF k \in {"single", "chat"} THEN "guard" ELSE "read", 0)]
  /\ UNCHANGED <<row, now, cached, sums, mixed>>

EffectiveRemaining == IF Lapsed(row) /\ row.auto THEN Limit ELSE row.remaining

(* canActivate, or checkMidTurn before each hop. *)
Threshold(r) == IF turn[r].hops = 0 THEN EstMin ELSE HopMin

(* A snapshot that cannot be read counts as no quota.  A turn that is        *)
(* stopped between hops is not charged for the hops it made.                 *)
CheckUser(r) ==
  /\ At(r, "guard")
  /\ \/ EffectiveRemaining >= Threshold(r) /\ Goto(r, "cap")
     \/ Finish(r)
  /\ UNCHANGED <<row, now, cached, sums, mixed>>

(* checkOrgCap: a fresh cache entry, or the sum, or 0 when it cannot be read. *)
CheckCap(r) ==
  /\ At(r, "cap")
  /\ \E consumed \in (IF cached # NoValue THEN {cached} ELSE {logged, 0}) :
       /\ IF consumed >= Cap THEN Finish(r)
          ELSE Goto(r, IF turn[r].kind = "single" THEN "classify" ELSE "call")
       /\ cached' = IF cached = NoValue /\ consumed = logged THEN logged ELSE cached
  /\ UNCHANGED <<row, now, sums, mixed>>

CacheExpires ==
  /\ cached # NoValue
  /\ cached' = NoValue
  /\ UNCHANGED <<row, now, turn, sums, mixed>>

(* A single call may have the place of its project classified first, by a    *)
(* smaller model: the answer is cached, a failure ignored, and what it costs *)
(* is logged, unless the insert fails, and not deducted.                     *)
Classify(r) ==
  /\ At(r, "classify")
  /\ Goto(r, "call")
  /\ \/ UNCHANGED <<spent, logged>>
     \/ \E c \in Cost :
          /\ spent + c <= MaxSpent
          /\ spent' = spent + c
          /\ logged' \in {logged, logged + c}
  /\ UNCHANGED <<row, now, cached, charged, mixed>>

\* Mutant: a call counts for two hops.
CalledTwice(x, c, pc) == [x EXCEPT !.pc = pc, !.cost = x.cost + c, !.hops = x.hops + 2]

Called(x, c, pc) == [x EXCEPT !.pc = pc, !.cost = x.cost + c, !.hops = x.hops + 1]

(* The model is called.  When it fails, or its answer is of no use, the      *)
(* request ends without a deduction; a chat turn goes on to its next hop.    *)
CallModel(r) ==
  /\ At(r, "call")
  /\ \/ /\ Finish(r)
        /\ UNCHANGED spent
     \/ \E c \in Cost :
          /\ spent + c <= MaxSpent
          /\ spent' = spent + c
          /\ \/ Finish(r)
             \/ \E pc \in {"guard", "read"} :
                  /\ pc = "guard" => turn[r].kind = "chat" /\ turn[r].hops + 1 < MaxHops
                  /\ turn' = [turn EXCEPT ![r] = Called(turn[r], c, pc)]
  /\ UNCHANGED <<row, now, cached, logged, charged, mixed>>

-----------------------------------------------------------------------------
(* checkAndLogUsage.                                                        *)

\* Mutant: what was used in the old period is kept.
RenewedKeepingUse(q) == [q EXCEPT !.period = now]

Renewed(q) == [q EXCEPT !.used = 0, !.remaining = Renewal, !.period = now]

\* Mutant: the remainder is left as it was read.
DeductedFromRead(q, c) == [q EXCEPT !.used = @ + c, !.remaining = q.remaining]

Deducted(q, c) == [q EXCEPT !.used = @ + c, !.remaining = Limit - (q.used + c)]

IsCall(r) == turn[r].kind \in {"single", "chat", "title"}

Hold(r, pc, cost, q) == turn' = [turn EXCEPT ![r] = Turn(turn[r].kind, pc, cost, q, {})]

(* The row is read; a lapsed one is renewed, which is saved first. *)
ReadRow(r) ==
  /\ At(r, "read") /\ IsCall(r)
  /\ \/ /\ Lapsed(row) /\ ~row.auto
        /\ Close(r)
     \/ /\ Lapsed(row) /\ row.auto
        /\ Hold(r, "renew", turn[r].cost, Renewed(row))
     \/ /\ ~Lapsed(row)
        /\ Hold(r, "check", turn[r].cost, row)
  /\ UNCHANGED <<row, now, cached, sums, mixed>>

Enough(q, c) == q.remaining >= c

Differing(q) ==
  {c \in Column :
     \/ c = "used" /\ q.used # row.used
     \/ c = "remaining" /\ q.remaining # row.remaining
     \/ c = "period" /\ q.period # row.period
     \/ c = "auto" /\ q.auto # row.auto}

(* The first half of a save: the columns in which the object differs from    *)
(* the stored row.                                                            *)
Compared(r, q, pc) ==
  turn' = [turn EXCEPT ![r] = Turn(turn[r].kind, pc, turn[r].cost, q, Differing(q))]

(* The second half. *)
Written(r) ==
  LET Pick(c, new, old) == IF c \in turn[r].differ THEN new ELSE old
      q == turn[r].copy
  IN  [used |-> Pick("used", q.used, row.used),
       remaining |-> Pick("remaining", q.remaining, row.remaining),
       period |-> Pick("period", q.period, row.period),
       auto |-> Pick("auto", q.auto, row.auto)]

(* The amounts of one version with the period of the other. *)
Torn(r) ==
  LET Amounts(q) == <<q.used, q.remaining, q.period>> IN
  Amounts(Written(r)) \notin {Amounts(row), Amounts(turn[r].copy)}

Write(r) ==
  /\ row' = Written(r)
  /\ mixed' = (mixed \/ Torn(r))

CompareRenewal(r) ==
  /\ At(r, "renew")
  /\ Compared(r, turn[r].copy, "renewing")
  /\ UNCHANGED <<row, now, cached, sums, mixed>>

SaveRenewal(r) ==
  /\ At(r, "renewing")
  /\ Write(r)
  /\ Hold(r, "check", turn[r].cost, turn[r].copy)
  /\ UNCHANGED <<now, cached, sums>>

(* Too little is left: the call was made, nothing is deducted or logged. *)
CompareDeduction(r) ==
  /\ At(r, "check")
  /\ IF Enough(turn[r].copy, turn[r].cost)
     THEN Compared(r, Deducted(turn[r].copy, turn[r].cost), "update")
     ELSE Close(r)
  /\ UNCHANGED <<row, now, cached, sums, mixed>>

SaveDeduction(r) ==
  /\ At(r, "update") /\ IsCall(r)
  /\ Write(r)
  /\ charged' = [charged EXCEPT ![turn[r].copy.period] = @ + turn[r].cost]
  /\ turn' = [turn EXCEPT ![r] = Fresh(turn[r].kind, "log", turn[r].cost)]
  /\ UNCHANGED <<now, cached, logged, spent>>

\* Mutant: the deduction logs although the caller writes a row of its own.
LogBoth(r) == IF turn[r].kind = "single" THEN 2 * turn[r].cost ELSE turn[r].cost

RowsCost(r) == turn[r].cost

(* One row: written here for a chat turn and a title, by the caller of a     *)
(* single call, which leaves the metadata out for that reason.  The insert   *)
(* may fail: what was deducted then stays deducted.                          *)
WriteLog(r) ==
  /\ At(r, "log")
  /\ logged' \in {logged, logged + RowsCost(r)}
  /\ Close(r)
  /\ UNCHANGED <<row, now, cached, spent, charged, mixed>>

-----------------------------------------------------------------------------
(* Other writers of the row.                                                *)
Switched(q) ==
  IF ~q.auto /\ Lapsed(q) THEN [Renewed(q) EXCEPT !.auto = TRUE]
  ELSE [q EXCEPT !.auto = ~@]

(* toggleAutoRenew, and incrementUsage by an amount, read the row, if the *)
(* database answers ...                                                   *)
ReadToWrite(r) ==
  /\ At(r, "read") /\ ~IsCall(r)
  /\ \/ /\ turn[r].kind = "toggle"
        /\ Hold(r, "write", 0, Switched(row))
     \/ /\ turn[r].kind = "increment"
        /\ \E c \in Cost :
             /\ charged[row.period] + c <= MaxSpent
             /\ IF row.used + c <= Limit
                THEN Hold(r, "write", c, Deducted(row, c))
                ELSE Finish(r)
     \/ Finish(r)
  /\ UNCHANGED <<row, now, cached, sums, mixed>>

(* ... and save it. *)
CompareRow(r) ==
  /\ At(r, "write")
  /\ Compared(r, turn[r].copy, "update")
  /\ UNCHANGED <<row, now, cached, sums, mixed>>

WriteRow(r) ==
  /\ At(r, "update") /\ ~IsCall(r)
  /\ Write(r)
  /\ charged' = [charged EXCEPT ![turn[r].copy.period] = @ + turn[r].cost]
  /\ Finish(r)
  /\ UNCHANGED <<now, cached, logged, spent>>

(* Other users' calls, logged or not; a period ends. *)
OthersSpend ==
  /\ \E c \in Cost :
       /\ spent + c <= MaxSpent
       /\ spent' = spent + c
       /\ logged' \in {logged, logged + c}
  /\ UNCHANGED <<row, now, turn, cached, charged, mixed>>

PeriodEnds ==
  /\ now < MaxPeriod
  /\ now' = now + 1
  /\ UNCHANGED <<row, turn, cached, sums, mixed>>

-----------------------------------------------------------------------------
TurnStep(r) ==
  \/ Begin(r) \/ CheckUser(r) \/ CheckCap(r) \/ Classify(r) \/ CallModel(r)
  \/ ReadRow(r) \/ CompareRenewal(r) \/ SaveRenewal(r)
  \/ CompareDeduction(r) \/ SaveDeduction(r) \/ WriteLog(r)
  \/ ReadToWrite(r) \/ CompareRow(r) \/ WriteRow(r)

Next == CacheExpires \/ OthersSpend \/ PeriodEnds \/ \E r \in Slot : TurnStep(r)

Spec == Init /\ [][Next]_vars

-----------------------------------------------------------------------------
(* The row, the requests and the sums are of their types. *)
TypeOK ==
  /\ row \in Row
  /\ now \in Period
  /\ turn \in [Slot -> TurnRow]
  /\ cached \in Nat
  /\ logged \in Nat /\ spent \in Nat
  /\ charged \in [Period -> Nat]
  /\ mixed \in BOOLEAN

(* What is used and what remains make up the limit, or nothing is used since *)
(* the last renewal, and the larger of the two is never exceeded: in the row *)
(* and in every copy a request is about to save.  Saves of toggles, renewals *)
(* and deductions write the columns they found to differ in any order.  When *)
(* the limit is what a renewal gives, no mixture of two versions has the one *)
(* amount without the other; for other limits it holds until a save mixes    *)
(* two versions.                                                             *)
Balanced(q) ==
  /\ q.used + q.remaining = Limit \/ (q.used = 0 /\ q.remaining = Renewal)
  /\ q.used <= Limit \/ q.used <= Renewal

BalanceConsistent ==
  Limit = Renewal \/ ~mixed =>
    Balanced(row) /\ \A r \in Slot : Balanced(turn[r].copy)

(* A user is never charged for more than was deducted in the period of the   *)
(* row: a stale save or a second renewal can only forget deductions, and the *)
(* use of an earlier period is never carried over, unless a renewal falls    *)
(* between the two halves of a save.                                         *)
NeverOvercharged == ~mixed => row.used <= charged[row.period]

(* What makes the two inductive: when the limit is what a renewal gives, a    *)
(* save writes both amounts or none, and what a copy has used was deducted,   *)
(* but for the cost that it is about to deduct.                               *)
SavesBothAmounts ==
  Limit = Renewal =>
    \A r \in Slot : "used" \in turn[r].differ <=> "remaining" \in turn[r].differ

HopsLeft ==
  \A r \in Slot : turn[r].pc \in {"guard", "cap", "classify", "call"} => turn[r].hops < MaxHops

Pending(r) == IF turn[r].pc \in {"write", "update"} THEN turn[r].cost ELSE 0

CopiesCovered ==
  ~mixed => \A r \in Slot : turn[r].copy.used <= charged[turn[r].copy.period] + Pending(r)

QuotaInvariant ==
  /\ TypeOK /\ HopsLeft
  /\ BalanceConsistent /\ SavesBothAmounts
  /\ NeverOvercharged /\ CopiesCovered

(* The figure that is compared with the cap of the organisation, summed or   *)
(* cached, never counts a call twice or one that was not made: it lags behind *)
(* what the calls have cost by at least what requests have still to log, so  *)
(* that nobody is refused before the cap is spent.  (It may lag for good:    *)
(* rows that could not be inserted are missing.)                             *)
CapNeverPremature ==
  LET Unlogged(r) == IF IsCall(r) THEN turn[r].cost ELSE 0
  IN  /\ logged + MapThenSumSet(Unlogged, Slot) <= spent
      /\ cached # NoValue => cached <= logged
=============================================================================
