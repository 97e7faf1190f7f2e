---------------------------- MODULE AiQuotaProofs ----------------------------
(* The theorems of AiQuota, for any number of requests, periods and amounts. *)
EXTENDS AiQuota, TLAPS, FiniteSetTheorems, WellFoundedInduction

\* The part of the invariant that is about one request, of any value.
Due(q) == IF q.pc \in {"write", "update"} THEN q.cost ELSE 0

\* Amounts balance as long as no save has mixed two versions, or a renewal gives the limit.
InForce == Limit = Renewal \/ ~mixed
BothDiffer(d) == Limit = Renewal => ("used" \in d <=> "remaining" \in d)

GoodTurn(q) ==
  /\ q \in TurnRow
  /\ q.pc \in {"guard", "cap", "classify", "call"} => q.hops < MaxHops
  /\ InForce => Balanced(q.copy)
  /\ BothDiffer(q.differ)
  /\ ~mixed => q.copy.used <= charged[q.copy.period] + Due(q)

\* The invariant is a condition on the row and the same condition on each request.
LEMMA InvariantByTurn ==
    QuotaInvariant <=>
      /\ TypeOK /\ (InForce => Balanced(row)) /\ NeverOvercharged
      /\ \A r \in Slot : GoodTurn(turn[r])
  BY DEF QuotaInvariant, TypeOK, HopsLeft, BalanceConsistent, SavesBothAmounts, CopiesCovered,
     GoodTurn, Due, Pending, InForce, BothDiffer

\* A request that has just begun, ended or been deducted is in order.
LEMMA FreshIsGood ==
    ASSUME TypeOK, NEW k \in Kind, NEW pc \in {"free", "guard", "call", "read", "log"},
           NEW c \in Nat
    PROVE  /\ GoodTurn(Fresh(k, pc, c))
           /\ \A p \in Period : charged[p] \in Nat
  <1> DEFINE q == Fresh(k, pc, c)
  <1>1. NewRow \in Row /\ Balanced(NewRow) /\ NewRow.used = 0 /\ NewRow.period \in Period
    BY QuotaAssumption DEF NewRow, Row, Period, Balanced
  <1>2. /\ q \in TurnRow
        /\ q.copy = NewRow /\ q.differ = {} /\ q.hops = 0 /\ q.pc = pc
    BY <1>1, QuotaAssumption DEF Fresh, Turn, TurnRow
  <1>3. \A p \in Period : charged[p] \in Nat
    BY DEF TypeOK
  <1>4. Due(q) = 0
    BY <1>2 DEF Due
  <1> QED
    BY <1>1, <1>2, <1>3, <1>4, QuotaAssumption DEF GoodTurn, BothDiffer

\* The frame of every step of a request: it changes its own turn to a good one,
\* deductions only grow, and the row stays in order.
LEMMA StepOfTurn ==
    ASSUME QuotaInvariant, NEW r \in Slot,
           \A s \in Slot : s # r => turn'[s] = turn[s],
           TypeOK', (InForce => Balanced(row))', NeverOvercharged', GoodTurn(turn[r])',
           mixed => mixed',
           \A p \in Period : charged[p] <= charged'[p]
    PROVE  QuotaInvariant'
  <1>1. ASSUME NEW s \in Slot, s # r
        PROVE  GoodTurn(turn[s])'
    <2>1. turn'[s] = turn[s] /\ GoodTurn(turn[s])
      BY <1>1, InvariantByTurn
    <2>2. turn[s].copy.period \in Period /\ turn[s].copy.used \in Nat /\ Due(turn[s]) \in Nat
      BY <2>1, QuotaAssumption DEF GoodTurn, TurnRow, Row, Due
    <2>3. /\ charged[turn[s].copy.period] \in Nat /\ charged'[turn[s].copy.period] \in Nat
          /\ charged[turn[s].copy.period] <= charged'[turn[s].copy.period]
      BY <2>2 DEF QuotaInvariant, TypeOK
    <2> QED
      BY <2>1, <2>2, <2>3 DEF GoodTurn, Due, Balanced, InForce, BothDiffer
  <1>2. \A s \in Slot : GoodTurn(turn[s])'
    BY <1>1
  <1> QED
    BY <1>2 DEF QuotaInvariant, TypeOK, HopsLeft, BalanceConsistent, SavesBothAmounts,
       CopiesCovered, GoodTurn, Due, Pending, InForce, BothDiffer

\* What the invariant says of the request that takes a step.
LEMMA OneTurn ==
    ASSUME QuotaInvariant, NEW r \in Slot
    PROVE  /\ TypeOK /\ row \in Row /\ (InForce => Balanced(row)) /\ NeverOvercharged
           /\ turn[r] \in TurnRow /\ turn[r].copy \in Row /\ turn[r].cost \in Nat
           /\ GoodTurn(turn[r]) /\ (InForce => Balanced(turn[r].copy))
           /\ row.period \in Period /\ turn[r].copy.period \in Period
           /\ row.used \in Nat /\ turn[r].copy.used \in Nat
           /\ charged[row.period] \in Nat /\ charged[turn[r].copy.period] \in Nat
  BY InvariantByTurn, QuotaAssumption DEF TypeOK, GoodTurn, TurnRow, Row

(*****************************************************************************)
(* Steps that leave the row alone.                                           *)
(*****************************************************************************)

\* Such a step is in order when the request it leaves is.
LEMMA QuietStep ==
    ASSUME QuotaInvariant, NEW r \in Slot, \E e : turn' = [turn EXCEPT ![r] = e],
           UNCHANGED <<row, now, charged, mixed>>,
           {cached', logged', spent'} \subseteq Nat, GoodTurn(turn[r])'
    PROVE  QuotaInvariant'
  <1>1. TypeOK /\ (InForce => Balanced(row)) /\ NeverOvercharged
    BY InvariantByTurn
  <1>2. \A s \in Slot : s # r => turn'[s] = turn[s]
    BY <1>1 DEF TypeOK
  <1>3. turn' \in [Slot -> TurnRow]
    <2>1. turn'[r] \in TurnRow
      BY DEF GoodTurn
    <2> QED
      BY <1>1, <2>1 DEF TypeOK
  <1>4. TypeOK'
    BY <1>1, <1>3 DEF TypeOK
  <1>5. \A p \in Period : charged[p] <= charged'[p]
    BY <1>1 DEF TypeOK
  <1> QED
    BY <1>1, <1>2, <1>4, <1>5, StepOfTurn DEF Balanced, NeverOvercharged, InForce

\* A request that only goes to another place of its program.
LEMMA QuietGoto ==
    ASSUME QuotaInvariant, NEW r \in Slot, NEW pc \in {"cap", "classify", "call"}, Goto(r, pc),
           turn[r].pc \in {"guard", "cap", "classify"},
           UNCHANGED <<row, now, charged, mixed>>,
           {cached', logged', spent'} \subseteq Nat
    PROVE  QuotaInvariant'
  <1>1. turn'[r] = [turn[r] EXCEPT !.pc = pc]
    BY OneTurn DEF Goto, TypeOK
  <1>2. /\ turn'[r] \in TurnRow /\ turn'[r].pc = pc
        /\ turn'[r].copy = turn[r].copy /\ turn'[r].differ = turn[r].differ
        /\ turn'[r].hops = turn[r].hops /\ turn'[r].cost = turn[r].cost
    BY <1>1, OneTurn DEF TurnRow
  <1>3. GoodTurn(turn[r])'
    BY <1>2, OneTurn DEF GoodTurn, Due, Balanced, InForce, BothDiffer
  <1>4. \E e : turn' = [turn EXCEPT ![r] = e]
    BY DEF Goto
  <1> QED
    BY <1>3, <1>4, QuietStep

\* A request that has begun, or is over.
LEMMA QuietFresh ==
    ASSUME QuotaInvariant, NEW r \in Slot,
           NEW k \in Kind, NEW pc \in {"free", "guard", "call", "read"},
           turn' = [turn EXCEPT ![r] = Fresh(k, pc, 0)],
           UNCHANGED <<row, now, charged, mixed>>,
           {cached', logged', spent'} \subseteq Nat
    PROVE  QuotaInvariant'
  <1>1. GoodTurn(Fresh(k, pc, 0))
    BY OneTurn, FreshIsGood
  <1>2. turn'[r] = Fresh(k, pc, 0)
    BY OneTurn DEF TypeOK
  <1>3. GoodTurn(turn[r])'
    BY <1>1, <1>2 DEF GoodTurn, Balanced, InForce, BothDiffer
  <1>4. \E e : turn' = [turn EXCEPT ![r] = e]
    OBVIOUS
  <1> QED
    BY <1>3, <1>4, QuietStep

LEMMA QuietFinish ==
    ASSUME QuotaInvariant, NEW r \in Slot, Finish(r) \/ Close(r),
           UNCHANGED <<row, now, charged, mixed>>,
           {cached', logged', spent'} \subseteq Nat
    PROVE  QuotaInvariant'
  <1>1. \/ turn' = [turn EXCEPT ![r] = Fresh("single", "free", 0)]
        \/ turn' = [turn EXCEPT ![r] = Fresh("title", "call", 0)]
    BY DEF Finish, Close, Free
  <1> QED
    BY <1>1, QuietFresh DEF Kind

(*****************************************************************************)
(* What the writers of the row compute.                                      *)
(*****************************************************************************)

\* A renewal starts from nothing used, in the current period.
LEMMA RenewedRow ==
    ASSUME NEW q \in Row, now \in Period
    PROVE  Renewed(q) \in Row /\ Balanced(Renewed(q)) /\ Renewed(q).used = 0
  <1>1. Limit \in Nat /\ Renewal \in Nat /\ Renewal \in Int
    BY QuotaAssumption
  <1>2. Renewed(q) \in Row
    BY <1>1 DEF Renewed, Row
  <1>3. Renewed(q).used = 0 /\ Renewed(q).remaining = Renewal
    BY DEF Renewed, Row
  <1> QED
    BY <1>1, <1>2, <1>3 DEF Balanced

\* A deduction adds the cost and keeps the period; it is balanced when it stays within
\* the limit, or within what a renewal gives.
LEMMA DeductedRow ==
    ASSUME NEW q \in Row, NEW c \in Nat
    PROVE  /\ Deducted(q, c) \in Row
           /\ Deducted(q, c).used = q.used + c /\ Deducted(q, c).period = q.period
           /\ q.used + c <= Limit \/ q.used + c <= Renewal => Balanced(Deducted(q, c))
  <1>1. q.used \in Nat /\ q.used + c \in Nat /\ Limit - (q.used + c) \in Int
    BY QuotaAssumption DEF Row
  <1>2. /\ Deducted(q, c).used = q.used + c
        /\ Deducted(q, c).remaining = Limit - (q.used + c)
        /\ Deducted(q, c).period = q.period /\ Deducted(q, c).auto = q.auto
    BY DEF Deducted, Row
  <1>3. Deducted(q, c) \in Row
    BY <1>1 DEF Deducted, Row
  <1>4. Deducted(q, c).used + Deducted(q, c).remaining = Limit
    BY <1>1, <1>2, QuotaAssumption
  <1> QED
    BY <1>2, <1>3, <1>4 DEF Balanced

\* A switch keeps the amounts, or renews.
LEMMA SwitchedRow ==
    ASSUME NEW q \in Row, now \in Period
    PROVE  /\ Switched(q) \in Row /\ (Balanced(q) => Balanced(Switched(q)))
           /\ \/ Switched(q).used = 0
              \/ Switched(q).used = q.used /\ Switched(q).period = q.period
  <1>1. CASE ~q.auto /\ Lapsed(q)
    <2>1. Switched(q) = [Renewed(q) EXCEPT !.auto = TRUE]
      BY <1>1 DEF Switched
    <2>2. Renewed(q) \in Row /\ Balanced(Renewed(q)) /\ Renewed(q).used = 0
      BY RenewedRow
    <2>3. Switched(q) \in Row
      BY <2>1, <2>2 DEF Row
    <2>4. /\ Switched(q).used = Renewed(q).used
          /\ Switched(q).remaining = Renewed(q).remaining
      BY <2>1, <2>2 DEF Row
    <2> QED
      BY <2>2, <2>3, <2>4 DEF Balanced
  <1>2. CASE ~(~q.auto /\ Lapsed(q))
    <2>1. Switched(q) = [q EXCEPT !.auto = ~@]
      BY <1>2 DEF Switched
    <2> QED
      BY <2>1 DEF Row, Balanced
  <1> QED
    BY <1>1, <1>2

\* Of two balanced rows, both amounts differ or neither, when a renewal gives the limit.
LEMMA BothAmountsDiffer ==
    ASSUME NEW q \in Row, InForce => Balanced(q), row \in Row, InForce => Balanced(row)
    PROVE  Differing(q) \in SUBSET Column /\ BothDiffer(Differing(q))
  <1>1. /\ q.used \in Nat /\ q.remaining \in Int
        /\ row.used \in Nat /\ row.remaining \in Int
    BY DEF Row
  <1>2. ASSUME Limit = Renewal
        PROVE  q.used # row.used <=> q.remaining # row.remaining
    <2>1. q.used + q.remaining = Limit /\ row.used + row.remaining = Limit
      BY <1>1, <1>2, QuotaAssumption DEF Balanced, InForce
    <2> QED
      BY <1>1, <2>1, QuotaAssumption
  <1>3. /\ "used" \in Differing(q) <=> q.used # row.used
        /\ "remaining" \in Differing(q) <=> q.remaining # row.remaining
    BY DEF Differing, Column
  <1>4. Differing(q) \in SUBSET Column
    BY DEF Differing
  <1> QED
    BY <1>2, <1>3, <1>4 DEF BothDiffer

\* What a save leaves in the row is balanced if both amounts are written or none, and
\* unless it is torn its amounts and its period are those of the row or of the copy.
LEMMA WrittenRow ==
    ASSUME QuotaInvariant, NEW r \in Slot
    PROVE  /\ Written(r) \in Row
           /\ Limit = Renewal => Balanced(Written(r))
           /\ ~mixed /\ ~Torn(r) => Balanced(Written(r))
           /\ ~Torn(r) =>
                \/ Written(r).used = row.used /\ Written(r).period = row.period
                \/ /\ Written(r).used = turn[r].copy.used
                   /\ Written(r).period = turn[r].copy.period
  <1> DEFINE q == turn[r].copy
  <1> DEFINE d == turn[r].differ
  <1>1. q \in Row /\ row \in Row /\ (InForce => Balanced(q) /\ Balanced(row))
    BY OneTurn
  <1>2. BothDiffer(d)
    BY OneTurn DEF GoodTurn
  <1>3. /\ Written(r).used = IF "used" \in d THEN q.used ELSE row.used
        /\ Written(r).remaining = IF "remaining" \in d THEN q.remaining ELSE row.remaining
        /\ Written(r).period = IF "period" \in d THEN q.period ELSE row.period
    BY DEF Written
  <1>4. Written(r) \in Row
    BY <1>1 DEF Written, Row
  <1>5. ASSUME Limit = Renewal PROVE Balanced(Written(r))
    BY <1>1, <1>2, <1>3, <1>5 DEF Balanced, InForce, BothDiffer
  <1>6. ASSUME ~Torn(r)
        PROVE  \/ /\ Written(r).used = row.used /\ Written(r).period = row.period
                  /\ Written(r).remaining = row.remaining
               \/ /\ Written(r).used = q.used /\ Written(r).period = q.period
                  /\ Written(r).remaining = q.remaining
    BY <1>6 DEF Torn
  <1>7. ASSUME ~mixed, ~Torn(r) PROVE Balanced(Written(r))
    BY <1>1, <1>6, <1>7 DEF Balanced, InForce
  <1> QED
    BY <1>4, <1>5, <1>6, <1>7

(*****************************************************************************)
(* The steps of a request.                                                   *)
(*****************************************************************************)

\* The guards, and the call of the model.
LEMMA GuardSteps ==
    ASSUME QuotaInvariant, NEW r \in Slot,
           Begin(r) \/ CheckUser(r) \/ CheckCap(r) \/ Classify(r) \/ CallModel(r)
    PROVE  QuotaInvariant'
  <1>0. /\ TypeOK /\ {cached, logged, spent} \subseteq Nat
        /\ cached \in Nat /\ logged \in Nat /\ spent \in Nat /\ \A c \in Cost : c \in Nat
    BY OneTurn, QuotaAssumption DEF TypeOK
  <1>1. CASE Begin(r)
    <2>1. PICK k \in Kind, pc \in {"guard", "read"} : turn' = [turn EXCEPT ![r] = Fresh(k, pc, 0)]
      BY <1>1 DEF Begin
    <2> QED
      BY <1>0, <1>1, <2>1, QuietFresh DEF Begin, sums
  <1>2. CASE CheckUser(r)
    <2>1. turn[r].pc = "guard" /\ (Goto(r, "cap") \/ Finish(r))
      BY <1>2 DEF CheckUser, At
    <2> QED
      BY <1>0, <1>2, <2>1, QuietGoto, QuietFinish DEF CheckUser, sums
  <1>3. CASE CheckCap(r)
    <2>1. /\ turn[r].pc = "cap" /\ cached' \in Nat
          /\ Goto(r, "classify") \/ Goto(r, "call") \/ Finish(r)
      BY <1>0, <1>3 DEF CheckCap, At
    <2> QED
      BY <1>0, <1>3, <2>1, QuietGoto, QuietFinish DEF CheckCap, sums
  <1>5. CASE Classify(r)
    <2>1. /\ UNCHANGED <<row, now, charged, mixed, cached>>
          /\ turn[r].pc = "classify" /\ Goto(r, "call") /\ {spent', logged'} \subseteq Nat
      <3>1. \A c \in Cost : spent + c \in Nat /\ logged + c \in Nat
        BY <1>0
      <3> QED
        BY <1>0, <1>5, <3>1 DEF Classify, At
    <2> QED
      BY <1>0, <2>1, QuietGoto
  <1>4. CASE CallModel(r)
    <2>1. /\ UNCHANGED <<row, now, charged, mixed, cached, logged>>
          /\ turn[r].pc = "call" /\ spent' \in Nat
      <3>1. \A c \in Cost : spent + c \in Nat
        BY <1>0
      <3> QED
        BY <1>0, <1>4, <3>1 DEF CallModel, At
    <2>2. CASE Finish(r)
      BY <1>0, <2>1, <2>2, QuietFinish
    <2>3. CASE \E c \in Cost, pc \in {"guard", "read"} :
                 /\ pc = "guard" => turn[r].hops + 1 < MaxHops
                 /\ turn' = [turn EXCEPT ![r] = Called(turn[r], c, pc)]
      <3>1. PICK c \in Cost, pc \in {"guard", "read"} :
                 /\ pc = "guard" => turn[r].hops + 1 < MaxHops
                 /\ turn' = [turn EXCEPT ![r] = Called(turn[r], c, pc)]
        BY <2>3
      <3>2. turn'[r] = Called(turn[r], c, pc)
        BY <1>0, <3>1 DEF TypeOK
      <3>3. /\ turn[r].hops \in 0..MaxHops /\ turn[r].hops < MaxHops
            /\ turn[r].hops + 1 \in 0..MaxHops /\ turn[r].cost + c \in Nat
        BY <1>0, <2>1, OneTurn, QuotaAssumption DEF GoodTurn, TurnRow
      <3>4. /\ turn'[r].pc = pc /\ turn'[r].copy = turn[r].copy
            /\ turn'[r].differ = turn[r].differ /\ turn'[r].hops = turn[r].hops + 1
        BY <3>2, OneTurn DEF TurnRow, Called
      <3>5. turn'[r] \in TurnRow
        BY <3>2, <3>3, OneTurn DEF TurnRow, Called
      <3>6. Due(turn[r])' = 0 /\ Due(turn[r]) = 0
        BY <2>1, <3>4 DEF Due
      <3>7. GoodTurn(turn[r])'
        BY <2>1, <3>1, <3>4, <3>5, <3>6, OneTurn DEF GoodTurn, Balanced, InForce, BothDiffer
      <3>8. \E e : turn' = [turn EXCEPT ![r] = e]
        BY <3>1
      <3> QED
        BY <1>0, <2>1, <3>7, <3>8, QuietStep
    <2> QED
      BY <1>4, <2>2, <2>3 DEF CallModel
  <1> QED
    BY <1>1, <1>2, <1>3, <1>4, <1>5

\* A request that takes a balanced copy whose amount is covered is in order.
LEMMA CopyTaken ==
    ASSUME QuotaInvariant, NEW r \in Slot,
           NEW pc \in {"renew", "renewing", "check", "update", "write"},
           NEW c \in Nat, NEW q \in Row, NEW d \in SUBSET Column, InForce => Balanced(q),
           turn' = [turn EXCEPT ![r] = Turn(turn[r].kind, pc, c, q, d)],
           BothDiffer(d),
           ~mixed => q.used <= charged[q.period] + (IF pc \in {"write", "update"} THEN c ELSE 0),
           UNCHANGED <<row, now, cached, sums, mixed>>
    PROVE  QuotaInvariant'
  <1>1. TypeOK /\ {cached', logged', spent'} \subseteq Nat
    BY OneTurn DEF TypeOK, sums
  <1> DEFINE t == Turn(turn[r].kind, pc, c, q, d)
  <1>2. turn'[r] = t
    BY <1>1 DEF TypeOK
  <1>3. /\ t.pc = pc /\ t.cost = c /\ t.copy = q /\ t.differ = d /\ t \in TurnRow
    BY OneTurn, QuotaAssumption DEF Turn, TurnRow
  <1>4. GoodTurn(turn[r])'
    BY <1>2, <1>3 DEF GoodTurn, Balanced, Due, sums, InForce, BothDiffer
  <1>5. \E e : turn' = [turn EXCEPT ![r] = e]
    OBVIOUS
  <1> QED
    BY <1>1, <1>4, <1>5, QuietStep DEF sums

\* The row is read.
LEMMA ReadSteps ==
    ASSUME QuotaInvariant, NEW r \in Slot, ReadRow(r) \/ ReadToWrite(r)
    PROVE  QuotaInvariant'
  <1>0. /\ TypeOK /\ row \in Row /\ (InForce => Balanced(row)) /\ now \in Period /\ Cost \subseteq Nat
        /\ turn[r].cost \in Nat /\ (~mixed => row.used <= charged[row.period])
        /\ row.used \in Nat /\ row.period \in Period /\ \A p \in Period : charged[p] \in Nat
    BY OneTurn, QuotaAssumption DEF TypeOK, NeverOvercharged
  <1>1. UNCHANGED <<row, now, cached, sums, mixed>> /\ {cached', logged', spent'} \subseteq Nat
    BY <1>0 DEF ReadRow, ReadToWrite, TypeOK, sums
  <1>2. ASSUME Finish(r) \/ Close(r)
        PROVE  QuotaInvariant'
    BY <1>1, <1>2, QuietFinish DEF sums
  <1>3. ASSUME NEW pc \in {"renew", "check", "write"}, NEW c \in Nat, NEW q \in Row,
               Hold(r, pc, c, q), InForce => Balanced(q),
               ~mixed => q.used <= charged[q.period] + (IF pc = "write" THEN c ELSE 0)
        PROVE  QuotaInvariant'
    <2>1. {} \in SUBSET Column /\ BothDiffer({})
      BY DEF BothDiffer
    <2> QED
      BY <1>1, <1>3, <2>1, CopyTaken DEF Hold
  <1>4. ASSUME Hold(r, "renew", turn[r].cost, Renewed(row))
        PROVE  QuotaInvariant'
    <2>1. Renewed(row) \in Row /\ Balanced(Renewed(row)) /\ Renewed(row).used = 0
      BY <1>0, RenewedRow
    <2>2. charged[Renewed(row).period] \in Nat
      BY <1>0, <2>1 DEF Row
    <2> QED
      BY <1>0, <1>3, <1>4, <2>1, <2>2
  <1>5. ASSUME Hold(r, "check", turn[r].cost, row)
        PROVE  QuotaInvariant'
    BY <1>0, <1>3, <1>5
  <1>6. ASSUME Hold(r, "write", 0, Switched(row))
        PROVE  QuotaInvariant'
    <2>1. /\ Switched(row) \in Row /\ (InForce => Balanced(Switched(row)))
          /\ \/ Switched(row).used = 0
             \/ Switched(row).used = row.used /\ Switched(row).period = row.period
      BY <1>0, SwitchedRow
    <2>2. charged[Switched(row).period] \in Nat
      BY <1>0, <2>1 DEF Row
    <2> QED
      BY <1>0, <1>3, <1>6, <2>1, <2>2
  <1>7. ASSUME NEW c \in Cost, row.used + c <= Limit, Hold(r, "write", c, Deducted(row, c))
        PROVE  QuotaInvariant'
    <2>1. /\ Deducted(row, c) \in Row /\ Balanced(Deducted(row, c)) /\ c \in Nat
          /\ Deducted(row, c).used = row.used + c /\ Deducted(row, c).period = row.period
      BY <1>0, <1>7, DeductedRow
    <2> QED
      BY <1>0, <1>3, <1>7, <2>1
  <1>8. CASE ReadRow(r)
    BY <1>2, <1>4, <1>5, <1>8 DEF ReadRow
  <1>9. CASE ReadToWrite(r)
    BY <1>2, <1>6, <1>7, <1>9 DEF ReadToWrite
  <1> QED
    BY <1>8, <1>9

\* An object is compared with the stored row.
LEMMA CompareSteps ==
    ASSUME QuotaInvariant, NEW r \in Slot,
           CompareRenewal(r) \/ CompareDeduction(r) \/ CompareRow(r)
    PROVE  QuotaInvariant'
  <1>0. /\ TypeOK /\ row \in Row /\ (InForce => Balanced(row))
        /\ turn[r].cost \in Nat /\ turn[r].copy \in Row
        /\ (InForce => Balanced(turn[r].copy))
        /\ turn[r].copy.used \in Nat /\ turn[r].copy.remaining \in Int
        /\ ~mixed => turn[r].copy.used <= charged[turn[r].copy.period] + Due(turn[r])
        /\ charged[turn[r].copy.period] \in Nat
    BY OneTurn, QuotaAssumption DEF GoodTurn, Row
  <1>1. UNCHANGED <<row, now, cached, sums, mixed>> /\ {cached', logged', spent'} \subseteq Nat
    BY <1>0 DEF CompareRenewal, CompareDeduction, CompareRow, TypeOK, sums
  <1>2. ASSUME NEW q \in Row, NEW pc \in {"renewing", "update"}, Compared(r, q, pc),
               InForce => Balanced(q),
               ~mixed => q.used <= charged[q.period] + (IF pc = "update" THEN turn[r].cost ELSE 0)
        PROVE  QuotaInvariant'
    <2>1. Differing(q) \in SUBSET Column /\ BothDiffer(Differing(q))
      BY <1>0, <1>2, BothAmountsDiffer
    <2> QED
      BY <1>0, <1>1, <1>2, <2>1, CopyTaken DEF Compared
  <1>3. CASE CompareRenewal(r)
    <2>1. Due(turn[r]) = 0
      BY <1>3 DEF CompareRenewal, At, Due
    <2> QED
      BY <1>0, <1>2, <1>3, <2>1 DEF CompareRenewal
  <1>4. CASE CompareDeduction(r)
    <2>1. Due(turn[r]) = 0
      BY <1>4 DEF CompareDeduction, At, Due
    <2>2. CASE Enough(turn[r].copy, turn[r].cost)
      <3> DEFINE q == Deducted(turn[r].copy, turn[r].cost)
      <3>1. InForce => \/ turn[r].copy.used + turn[r].cost <= Limit
                       \/ turn[r].copy.used + turn[r].cost <= Renewal
        BY <1>0, <2>2, QuotaAssumption DEF Enough, Balanced
      <3>2. /\ q \in Row /\ (InForce => Balanced(q)) /\ q.used = turn[r].copy.used + turn[r].cost
            /\ q.period = turn[r].copy.period
        BY <1>0, <3>1, DeductedRow
      <3>3. Compared(r, q, "update")
        BY <1>4, <2>2 DEF CompareDeduction
      <3> QED
        BY <1>0, <1>2, <2>1, <3>2, <3>3
    <2>3. CASE ~Enough(turn[r].copy, turn[r].cost)
      BY <1>1, <1>4, <2>3, QuietFinish DEF CompareDeduction, sums
    <2> QED
      BY <2>2, <2>3
  <1>5. CASE CompareRow(r)
    <2>1. Due(turn[r]) = turn[r].cost
      BY <1>5 DEF CompareRow, At, Due
    <2> QED
      BY <1>0, <1>2, <1>5, <2>1 DEF CompareRow
  <1> QED
    BY <1>3, <1>4, <1>5

(*****************************************************************************)
(* The steps that write.                                                     *)
(*****************************************************************************)

\* The second half of a save keeps the row in order when the cost it deducts is
\* booked to the period of its copy.
LEMMA WriteStep ==
    ASSUME QuotaInvariant, NEW r \in Slot, Write(r), now' = now,
           {cached', logged', spent'} \subseteq Nat, charged' \in [Period -> Nat],
           \A p \in Period : charged[p] <= charged'[p],
           charged[turn[r].copy.period] + Due(turn[r]) <= charged'[turn[r].copy.period],
           \E e : turn' = [turn EXCEPT ![r] = e], GoodTurn(turn[r])'
    PROVE  QuotaInvariant'
  <1>1. /\ TypeOK /\ mixed \in BOOLEAN /\ row.used \in Nat /\ turn[r].copy.used \in Nat
        /\ row.period \in Period /\ turn[r].copy.period \in Period
        /\ Due(turn[r]) \in Nat /\ \A p \in Period : charged[p] \in Nat /\ charged'[p] \in Nat
    BY OneTurn, QuotaAssumption DEF TypeOK, Due
  <1>2. row' = Written(r) /\ mixed' = (mixed \/ Torn(r))
    BY DEF Write
  <1>4. mixed' \in BOOLEAN /\ (mixed => mixed')
    BY <1>1, <1>2 DEF Torn
  <1>3. row' \in Row /\ (InForce => Balanced(row))'
    <2>1. InForce' => Limit = Renewal \/ (~mixed /\ ~Torn(r))
      BY <1>1, <1>2 DEF InForce
    <2> QED
      BY <1>2, <2>1, WrittenRow DEF Balanced
  <1>5. turn' \in [Slot -> TurnRow] /\ \A s \in Slot : s # r => turn'[s] = turn[s]
    <2>1. turn'[r] \in TurnRow
      BY DEF GoodTurn
    <2> QED
      BY <1>1, <2>1 DEF TypeOK
  <1>6. TypeOK'
    BY <1>1, <1>3, <1>4, <1>5 DEF TypeOK
  <1>7. NeverOvercharged'
    <2> SUFFICES ASSUME ~mixed' PROVE row'.used <= charged'[row'.period]
      BY DEF NeverOvercharged
    <2>1. ~mixed /\ ~Torn(r)
      BY <1>1, <1>2
    <2>2. row.used <= charged[row.period]
      BY <2>1, OneTurn DEF NeverOvercharged
    <2>3. turn[r].copy.used <= charged[turn[r].copy.period] + Due(turn[r])
      BY <2>1, OneTurn DEF GoodTurn
    <2>4. row.used <= charged'[row.period]
      BY <1>1, <2>2
    <2>5. turn[r].copy.used <= charged'[turn[r].copy.period]
      BY <1>1, <2>3
    <2> QED
      BY <1>2, <2>1, <2>4, <2>5, WrittenRow
  <1> QED
    BY <1>3, <1>4, <1>5, <1>6, <1>7, StepOfTurn

\* The saves of a renewal, of a deduction, and of a toggle or an increment.
LEMMA SaveSteps ==
    ASSUME QuotaInvariant, NEW r \in Slot, SaveRenewal(r) \/ SaveDeduction(r) \/ WriteRow(r)
    PROVE  QuotaInvariant'
  <1>0. /\ TypeOK /\ turn[r] \in TurnRow /\ turn[r].cost \in Nat /\ turn[r].copy \in Row
        /\ turn[r].copy.period \in Period /\ (InForce => Balanced(turn[r].copy)) /\ turn[r].kind \in Kind
        /\ {cached, logged, spent} \subseteq Nat
        /\ charged \in [Period -> Nat] /\ \A p \in Period : charged[p] \in Nat
        /\ turn[r].copy.used \in Nat
    BY OneTurn, QuotaAssumption DEF TypeOK, TurnRow
  <1>1. CASE SaveRenewal(r)
    <2> DEFINE t == Turn(turn[r].kind, "check", turn[r].cost, turn[r].copy, {})
    <2>1. Due(turn[r]) = 0 /\ UNCHANGED <<now, cached, sums>> /\ Write(r)
      BY <1>1 DEF SaveRenewal, At, Due
    <2>2. turn'[r] = t /\ \E e : turn' = [turn EXCEPT ![r] = e]
      BY <1>0, <1>1 DEF SaveRenewal, Hold, TypeOK
    <2>3. /\ t \in TurnRow /\ t.pc = "check" /\ t.copy = turn[r].copy /\ t.differ = {}
      BY <1>0, QuotaAssumption DEF Turn, TurnRow
    <2>4. mixed => mixed'
      BY <1>0, <2>1 DEF Write, TypeOK
    <2>5. ~mixed => turn[r].copy.used <= charged[turn[r].copy.period]
      BY <1>0, <2>1, OneTurn DEF GoodTurn
    <2>6. Due(t) = 0
      BY <2>3 DEF Due
    <2>7. GoodTurn(turn[r])'
      BY <1>0, <2>1, <2>2, <2>3, <2>4, <2>5, <2>6
         DEF GoodTurn, Balanced, Due, sums, InForce, BothDiffer
    <2>8. /\ {cached', logged', spent'} \subseteq Nat /\ charged' = charged
      BY <1>0, <2>1 DEF sums
    <2>9. /\ \A p \in Period : charged[p] <= charged'[p]
          /\ charged[turn[r].copy.period] + Due(turn[r]) <= charged'[turn[r].copy.period]
      BY <1>0, <2>1, <2>8
    <2> QED
      BY <1>0, <2>1, <2>2, <2>7, <2>8, <2>9, WriteStep
  <1>2. ASSUME NEW k \in Kind, NEW pc \in {"free", "log"}, NEW c \in Nat,
               turn' = [turn EXCEPT ![r] = Fresh(k, pc, c)],
               turn[r].pc = "update", Write(r), now' = now,
               {cached', logged', spent'} \subseteq Nat,
               charged' = [charged EXCEPT ![turn[r].copy.period] = @ + turn[r].cost]
        PROVE  QuotaInvariant'
    <2>1. /\ charged' \in [Period -> Nat]
          /\ \A p \in Period : charged[p] <= charged'[p]
          /\ charged'[turn[r].copy.period] = charged[turn[r].copy.period] + turn[r].cost
      BY <1>0, <1>2
    <2>2. Due(turn[r]) = turn[r].cost
      BY <1>2 DEF Due
    <2>3. turn'[r] = Fresh(k, pc, c) /\ \E e : turn' = [turn EXCEPT ![r] = e]
      BY <1>0, <1>2 DEF TypeOK
    <2>4. /\ Fresh(k, pc, c) \in TurnRow /\ Fresh(k, pc, c).pc = pc
          /\ Fresh(k, pc, c).copy = NewRow /\ Fresh(k, pc, c).differ = {}
      BY <1>0, FreshIsGood DEF GoodTurn, Fresh, Turn
    <2>5. NewRow.used = 0 /\ NewRow.period \in Period /\ Balanced(NewRow)
      BY QuotaAssumption DEF NewRow, Period, Balanced
    <2>6. GoodTurn(turn[r])'
      BY <2>1, <2>3, <2>4, <2>5, QuotaAssumption DEF GoodTurn, Due, Balanced, BothDiffer
    <2>7. charged[turn[r].copy.period] + Due(turn[r]) <= charged'[turn[r].copy.period]
      BY <1>0, <2>1, <2>2
    <2> QED
      BY <1>2, <2>1, <2>3, <2>6, <2>7, WriteStep
  <1>3. CASE SaveDeduction(r)
    BY <1>0, <1>2, <1>3 DEF SaveDeduction, At
  <1>4. CASE WriteRow(r)
    BY <1>0, <1>2, <1>4 DEF WriteRow, At, Finish, Free, Kind
  <1> QED
    BY <1>1, <1>3, <1>4

\* The log row.
LEMMA LogStep ==
    ASSUME QuotaInvariant, NEW r \in Slot, WriteLog(r)
    PROVE  QuotaInvariant'
  <1>1. /\ {cached', logged', spent'} \subseteq Nat /\ Close(r)
        /\ UNCHANGED <<row, now, charged, mixed>>
    <2>1. logged + turn[r].cost \in Nat
      BY OneTurn DEF TypeOK
    <2> QED
      BY <2>1, OneTurn DEF WriteLog, RowsCost, TypeOK
  <1> QED
    BY <1>1, QuietFinish

(*****************************************************************************)
(* The theorems.                                                             *)
(*****************************************************************************)

\* A new row satisfies the invariant.
LEMMA QuotaInit == Init => QuotaInvariant
  <1> SUFFICES ASSUME Init PROVE QuotaInvariant
    OBVIOUS
  <1>1. /\ row = NewRow /\ now = 1 /\ mixed = FALSE /\ logged = 0 /\ spent = 0
        /\ charged = [p \in Period |-> 0] /\ cached = MaxSpent + 1
        /\ turn = [r \in Slot |-> Fresh("single", "free", 0)]
    BY DEF Init, Free, NoValue
  <1>2. NewRow \in Row /\ Balanced(NewRow) /\ NewRow.used = 0 /\ NewRow.period \in Period
    BY QuotaAssumption DEF NewRow, Row, Period, Balanced
  <1>3. Fresh("single", "free", 0) \in TurnRow
    BY <1>2, QuotaAssumption DEF Fresh, Turn, TurnRow, Kind
  <1>4. TypeOK
    <2>1. MaxSpent + 1 \in Nat /\ 0 \in Nat /\ 1 \in Period
      BY QuotaAssumption DEF Period
    <2> QED
      BY <1>1, <1>2, <1>3, <2>1 DEF TypeOK
  <1>5. \A r \in Slot : GoodTurn(turn[r])
    BY <1>1, <1>4, FreshIsGood DEF Kind
  <1>6. NeverOvercharged
    BY <1>1, <1>2 DEF NeverOvercharged
  <1> QED
    BY <1>1, <1>2, <1>4, <1>5, <1>6, InvariantByTurn

\* No step leaves the invariant.
LEMMA QuotaStep == QuotaInvariant /\ [Next]_vars => QuotaInvariant'
  <1> SUFFICES ASSUME QuotaInvariant, [Next]_vars PROVE QuotaInvariant'
    OBVIOUS
  <1>0. TypeOK
    BY DEF QuotaInvariant
  <1>1. ASSUME NEW r \in Slot, TurnStep(r)
        PROVE  QuotaInvariant'
    BY <1>1, GuardSteps, ReadSteps, CompareSteps, SaveSteps, LogStep DEF TurnStep
  <1>2. ASSUME UNCHANGED <<row, turn, charged, mixed>>, now' \in Period,
               {cached', logged', spent'} \subseteq Nat
        PROVE  QuotaInvariant'
    <2>1. TypeOK'
      BY <1>0, <1>2 DEF TypeOK
    <2> QED
      BY <1>2, <2>1 DEF QuotaInvariant, HopsLeft, BalanceConsistent, Balanced, SavesBothAmounts,
         NeverOvercharged, CopiesCovered, Pending
  <1>3. CASE CacheExpires
    BY <1>0, <1>2, <1>3, QuotaAssumption DEF CacheExpires, TypeOK, sums, NoValue
  <1>4. CASE OthersSpend
    BY <1>0, <1>2, <1>4, QuotaAssumption DEF OthersSpend, TypeOK
  <1>5. CASE PeriodEnds
    BY <1>0, <1>2, <1>5, QuotaAssumption DEF PeriodEnds, TypeOK, sums, Period
  <1>6. CASE UNCHANGED vars
    BY <1>0, <1>2, <1>6 DEF vars, sums, TypeOK
  <1> QED
    BY <1>1, <1>3, <1>4, <1>5, <1>6 DEF Next

\* THE INVARIANT, and its parts that the runs check.
THEOREM QuotaAlwaysInOrder == Spec => []QuotaInvariant
  BY QuotaInit, QuotaStep, PTL DEF Spec

\* Every column of the row, every request and every sum keeps its type, whatever the
\* interleaving.
THEOREM QuotaTypeCorrect == Spec => []TypeOK
  <1>1. QuotaInvariant => TypeOK
    BY DEF QuotaInvariant
  <1> QED
    BY <1>1, QuotaAlwaysInOrder, PTL

\* What is used and what remains make up the limit, or nothing is used since a renewal,
\* and no more is used than the limit or the renewal allows: after any mixture of saves when
\* the limit is what a renewal gives, and for other limits until a save mixes two versions.
THEOREM QuotaBalanced == Spec => []BalanceConsistent
  <1>1. QuotaInvariant => BalanceConsistent
    BY DEF QuotaInvariant
  <1> QED
    BY <1>1, QuotaAlwaysInOrder, PTL

\* A user is never charged more than what was deducted in the period.
THEOREM QuotaNeverOvercharged == Spec => []NeverOvercharged
  <1>1. QuotaInvariant => NeverOvercharged
    BY DEF QuotaInvariant
  <1> QED
    BY <1>1, QuotaAlwaysInOrder, PTL

(*****************************************************************************)
(* The sum over the requests.  Folds' definition is a recursive function on   *)
(* the subsets; what is needed of it is that it exists, and that one term     *)
(* that changes changes the sum by as much.                                   *)
(*****************************************************************************)
First(s) == CHOOSE x \in s : TRUE
Add(w, g, s) == IF s = {} THEN 0 ELSE w[First(s)] + g[s \ {First(s)}]
IsSum(w, g, S) == g = [s \in SUBSET S |-> Add(w, g, s)]

\* A property that some subset of a finite set lacks is lacked by a minimal one.
LEMMA SmallestSubset ==
    ASSUME NEW S, IsFiniteSet(S), NEW T \in SUBSET (SUBSET S), T # {}
    PROVE  \E s \in T : \A t \in T : ~ (t \subseteq s /\ t # s)
  <1>1. T \subseteq FiniteSubsetsOf(S)
    BY FS_FiniteSubsetsOfFinite
  <1>2. PICK s \in T : \A t \in T : ~ (<<t, s>> \in StrictSubsetOrdering(S))
    BY <1>1, WFMin, FS_StrictSubsetOrderingWellFounded
  <1> QED
    BY <1>2 DEF StrictSubsetOrdering

\* The element taken first is one of the set.
LEMMA FirstIn == ASSUME NEW s, s # {} PROVE First(s) \in s
  BY DEF First

\* What the recursion says of a subset.
LEMMA SumUnfolds ==
    ASSUME NEW S, NEW w, NEW g, IsSum(w, g, S), NEW s \in SUBSET S
    PROVE  /\ s = {} => g[s] = 0
           /\ s # {} => /\ First(s) \in s
                        /\ g[s] = w[First(s)] + g[s \ {First(s)}]
  <1>1. g[s] = Add(w, g, s)
    BY DEF IsSum
  <1> QED
    BY <1>1, FirstIn DEF Add

\* The sum of natural numbers is one.
LEMMA SumIsNatural ==
    ASSUME NEW S, IsFiniteSet(S), NEW w \in [S -> Nat], NEW g, IsSum(w, g, S)
    PROVE  \A s \in SUBSET S : g[s] \in Nat
  <1> DEFINE Bad == {s \in SUBSET S : g[s] \notin Nat}
  <1> SUFFICES ASSUME Bad # {} PROVE FALSE
    OBVIOUS
  <1>1. PICK s \in Bad : \A t \in Bad : ~ (t \subseteq s /\ t # s)
    <2>1. Bad \in SUBSET (SUBSET S)
      OBVIOUS
    <2> HIDE DEF Bad
    <2> QED
      BY <2>1, SmallestSubset
  <1> DEFINE x == First(s)
  <1>2. s # {} /\ x \in s /\ g[s] = w[x] + g[s \ {x}]
    BY SumUnfolds
  <1>3. s \ {x} \in SUBSET S /\ s \ {x} \subseteq s /\ s \ {x} # s
    BY <1>2
  <1>4. g[s \ {x}] \in Nat
    BY <1>1, <1>3
  <1> QED
    BY <1>2, <1>4

\* Any element may be the one that is taken first.
LEMMA SumTakesAny ==
    ASSUME NEW S, IsFiniteSet(S), NEW w \in [S -> Nat], NEW g, IsSum(w, g, S), NEW r \in S
    PROVE  g[S] = w[r] + g[S \ {r}]
  <1> DEFINE Bad == {s \in SUBSET S : \E q \in s : g[s] # w[q] + g[s \ {q}]}
  <1>1. ASSUME Bad # {} PROVE FALSE
    <2>1. PICK s \in Bad : \A t \in Bad : ~ (t \subseteq s /\ t # s)
      <3>1. Bad \in SUBSET (SUBSET S)
        OBVIOUS
      <3> HIDE DEF Bad
      <3> QED
        BY <1>1, <3>1, SmallestSubset
    <2>2. PICK q \in s : g[s] # w[q] + g[s \ {q}]
      BY <2>1
    <2> DEFINE x == First(s)
    <2>3. x \in s /\ g[s] = w[x] + g[s \ {x}]
      BY <2>2, SumUnfolds
    <2>4. x # q
      BY <2>2, <2>3
    <2>5. /\ s \ {x} \in SUBSET S /\ s \ {x} \subseteq s /\ s \ {x} # s /\ q \in s \ {x}
          /\ s \ {q} \in SUBSET S /\ s \ {q} \subseteq s /\ s \ {q} # s /\ x \in s \ {q}
          /\ (s \ {x}) \ {q} = (s \ {q}) \ {x}
          /\ (s \ {x}) \ {q} \in SUBSET S
      BY <2>3, <2>4
    <2>6. g[s \ {x}] = w[q] + g[(s \ {x}) \ {q}]
      BY <2>1, <2>5
    <2>7. g[s \ {q}] = w[x] + g[(s \ {q}) \ {x}]
      BY <2>1, <2>5
    <2>8. g[(s \ {x}) \ {q}] \in Nat /\ w[x] \in Nat /\ w[q] \in Nat
      BY <2>3, <2>5, SumIsNatural
    <2>9. g[s] = w[x] + (w[q] + g[(s \ {x}) \ {q}])
      BY <2>3, <2>6
    <2>10. g[s \ {q}] = w[x] + g[(s \ {x}) \ {q}]
      BY <2>5, <2>7
    <2> HIDE DEF x
    <2> QED
      BY <2>2, <2>8, <2>9, <2>10
  <1>2. S \in SUBSET S /\ S \notin Bad
    BY <1>1
  <1> QED
    BY <1>2

\* Two sums of the same terms are the same.
LEMMA SumOfSame ==
    ASSUME NEW S, IsFiniteSet(S), NEW R \in SUBSET S,
           NEW w \in [S -> Nat], NEW g, IsSum(w, g, S),
           NEW v \in [S -> Nat], NEW h, IsSum(v, h, S), \A r \in R : w[r] = v[r]
    PROVE  g[R] = h[R]
  <1> DEFINE Bad == {s \in SUBSET R : g[s] # h[s]}
  <1> SUFFICES ASSUME Bad # {} PROVE FALSE
    OBVIOUS
  <1>0. Bad \in SUBSET (SUBSET S)
    OBVIOUS
  <1>1. PICK s \in Bad : \A t \in Bad : ~ (t \subseteq s /\ t # s)
    <2> HIDE DEF Bad
    <2> QED
      BY <1>0, SmallestSubset
  <1> DEFINE x == First(s)
  <1>2. s \in SUBSET S
    OBVIOUS
  <1>3. s # {} /\ x \in s /\ g[s] = w[x] + g[s \ {x}] /\ h[s] = v[x] + h[s \ {x}]
    <2>1. /\ s = {} => g[s] = 0 /\ h[s] = 0
          /\ s # {} => x \in s /\ g[s] = w[x] + g[s \ {x}] /\ h[s] = v[x] + h[s \ {x}]
      BY <1>2, SumUnfolds
    <2> QED
      BY <2>1
  <1>4. s \ {x} \in SUBSET R /\ s \ {x} \subseteq s /\ s \ {x} # s
    BY <1>3
  <1>5. g[s \ {x}] = h[s \ {x}]
    BY <1>1, <1>4
  <1> QED
    BY <1>3, <1>5

\* One term that changes changes the sum by as much.
LEMMA SumChanges ==
    ASSUME NEW S, IsFiniteSet(S), NEW r \in S,
           NEW w \in [S -> Nat], NEW g, IsSum(w, g, S),
           NEW v \in [S -> Nat], NEW h, IsSum(v, h, S),
           \A x \in S : x # r => v[x] = w[x]
    PROVE  g[S] \in Nat /\ h[S] \in Nat /\ h[S] + w[r] = g[S] + v[r]
  <1>1. g[S] = w[r] + g[S \ {r}]
    BY SumTakesAny
  <1>4. h[S] = v[r] + h[S \ {r}]
    BY SumTakesAny
  <1>2. g[S \ {r}] = h[S \ {r}]
    BY SumOfSame
  <1>3. g[S \ {r}] \in Nat /\ w[r] \in Nat /\ v[r] \in Nat
    BY SumIsNatural
  <1> QED
    BY <1>1, <1>2, <1>3, <1>4

\* The sum of nothing but zeros.
LEMMA SumOfZeros ==
    ASSUME NEW S, IsFiniteSet(S), NEW w \in [S -> Nat], NEW g, IsSum(w, g, S),
           \A x \in S : w[x] = 0
    PROVE  g[S] = 0
  <1> DEFINE Bad == {s \in SUBSET S : g[s] # 0}
  <1> SUFFICES ASSUME Bad # {} PROVE FALSE
    OBVIOUS
  <1>1. PICK s \in Bad : \A t \in Bad : ~ (t \subseteq s /\ t # s)
    <2>1. Bad \in SUBSET (SUBSET S)
      OBVIOUS
    <2> HIDE DEF Bad
    <2> QED
      BY <2>1, SmallestSubset
  <1> DEFINE x == First(s)
  <1>2. s # {} /\ x \in s /\ g[s] = w[x] + g[s \ {x}]
    <2>1. /\ s = {} => g[s] = 0
          /\ s # {} => x \in s /\ g[s] = w[x] + g[s \ {x}]
      BY SumUnfolds
    <2> QED
      BY <2>1
  <1>3. s \ {x} \in SUBSET S /\ s \ {x} \subseteq s /\ s \ {x} # s
    BY <1>2
  <1>4. g[s \ {x}] = 0
    BY <1>1, <1>3
  <1> QED
    BY <1>2, <1>4

\* The recursion has a solution on the subsets of up to n elements, for any n ...
UpTo(S, n) == {s \in SUBSET S : Cardinality(s) <= n}
SumUpTo(w, g, S, n) == g = [s \in UpTo(S, n) |-> Add(w, g, s)]

LEMMA SmallestNumber ==
    ASSUME NEW T \in SUBSET Nat, T # {}
    PROVE  \E n \in T : \A m \in T : ~ (m < n)
  <1>1. PICK n \in T : \A m \in T : ~ (<<m, n>> \in OpToRel(<, Nat))
    BY WFMin, NatLessThanWellFounded
  <1> QED
    BY <1>1 DEF OpToRel

LEMMA SumExistsUpTo ==
    ASSUME NEW S, IsFiniteSet(S), NEW w
    PROVE  \A n \in Nat : \E g : SumUpTo(w, g, S, n)
  <1> DEFINE Bad == {n \in Nat : ~ \E g : SumUpTo(w, g, S, n)}
  <1> SUFFICES ASSUME Bad # {} PROVE FALSE
    OBVIOUS
  <1>1. PICK n \in Bad : \A m \in Bad : ~ (m < n)
    BY SmallestNumber
  <1>2. CASE n = 0
    <2> DEFINE g == [s \in UpTo(S, 0) |-> 0]
    <2>1. ASSUME NEW s \in UpTo(S, 0) PROVE s = {}
      BY FS_Subset, FS_CardinalityType, FS_EmptySet DEF UpTo
    <2>2. g = [s \in UpTo(S, 0) |-> Add(w, g, s)]
      BY <2>1 DEF Add
    <2> QED
      BY <1>1, <1>2, <2>2 DEF SumUpTo
  <1>3. CASE n # 0
    <2>1. n - 1 \in Nat /\ n - 1 < n
      BY <1>3
    <2>2. PICK g : SumUpTo(w, g, S, n - 1)
      BY <1>1, <2>1
    <2> DEFINE h == [s \in UpTo(S, n) |-> Add(w, g, s)]
    <2>3. ASSUME NEW s \in UpTo(S, n), s # {}
          PROVE  s \ {First(s)} \in UpTo(S, n - 1) /\ s \ {First(s)} \in UpTo(S, n)
      <3>1. First(s) \in s /\ s \in SUBSET S /\ IsFiniteSet(s) /\ Cardinality(s) \in Nat
        BY <2>3, FirstIn, FS_Subset, FS_CardinalityType DEF UpTo
      <3>2. Cardinality(s \ {First(s)}) = Cardinality(s) - 1
        BY <3>1, FS_RemoveElement
      <3> QED
        BY <2>1, <2>3, <3>1, <3>2 DEF UpTo
    <2>4. ASSUME NEW s \in UpTo(S, n - 1), s \in UpTo(S, n)
          PROVE  h[s] = g[s]
      <3>1. g[s] = Add(w, g, s)
        BY <2>2 DEF SumUpTo
      <3> QED
        BY <2>4, <3>1
    <2>5. ASSUME NEW s \in UpTo(S, n)
          PROVE  Add(w, g, s) = Add(w, h, s)
      <3> HIDE DEF h
      <3> QED
        BY <2>3, <2>4 DEF Add
    <2>6. h = [s \in UpTo(S, n) |-> Add(w, h, s)]
      <3>1. h = [s \in UpTo(S, n) |-> Add(w, g, s)]
        OBVIOUS
      <3> HIDE DEF h
      <3> QED
        BY <2>5, <3>1
    <2> QED
      BY <1>1, <2>6 DEF SumUpTo
  <1> QED
    BY <1>2, <1>3

\* ... and so on all of them.
LEMMA SumExists ==
    ASSUME NEW S, IsFiniteSet(S), NEW w
    PROVE  \E g : IsSum(w, g, S)
  <1>1. Cardinality(S) \in Nat /\ UpTo(S, Cardinality(S)) = SUBSET S
    BY FS_CardinalityType, FS_Subset DEF UpTo
  <1>2. PICK g : SumUpTo(w, g, S, Cardinality(S))
    BY <1>1, SumExistsUpTo
  <1> QED
    BY <1>1, <1>2 DEF SumUpTo, IsSum

\* What the calls of the request q have cost and it has still to log, each request's, and
\* their sum.
Calls == {"single", "chat", "title"}
Owes(q) == IF q.kind \in Calls THEN q.cost ELSE 0
Owed(t) == [r \in Slot |-> Owes(t[r])]
Total(t) == MapThenSumSet(LAMBDA r : IF t[r].kind \in {"single", "chat", "title"}
                                     THEN t[r].cost ELSE 0, Slot)

\* The sum is one in the sense of the lemmas above.
LEMMA TotalIsSum ==
    ASSUME NEW t
    PROVE  \E g : IsSum(Owed(t), g, Slot) /\ Total(t) = g[Slot]
  <1> DEFINE Rec(g) == [s \in SUBSET Slot |->
                 IF s = {} THEN 0
                 ELSE (IF t[CHOOSE x \in s : TRUE].kind \in {"single", "chat", "title"}
                       THEN t[CHOOSE x \in s : TRUE].cost ELSE 0)
                      + g[s \ {CHOOSE x \in s : TRUE}]]
  <1>1. ASSUME NEW g PROVE IsSum(Owed(t), g, Slot) <=> g = Rec(g)
    <2>1. ASSUME NEW s \in SUBSET Slot, s # {}
          PROVE  Owed(t)[First(s)] =
                   IF t[First(s)].kind \in {"single", "chat", "title"}
                   THEN t[First(s)].cost ELSE 0
      BY <2>1, FirstIn DEF Owed, Owes, Calls
    <2>2. [s \in SUBSET Slot |-> Add(Owed(t), g, s)] = Rec(g)
      BY <2>1 DEF Add, First
    <2> QED
      BY <2>2 DEF IsSum
  <1>2. \E g : g = Rec(g)
    <2>1. PICK g : IsSum(Owed(t), g, Slot)
      BY QuotaAssumption, SumExists
    <2> HIDE DEF Rec
    <2> QED
      BY <1>1, <2>1
  <1>3. (CHOOSE g : g = Rec(g)) = Rec(CHOOSE g : g = Rec(g))
    <2> HIDE DEF Rec
    <2> QED
      BY <1>2
  <1>4. Total(t) = (CHOOSE g : g = Rec(g))[Slot]
    BY DEF Total, MapThenSumSet, MapThenFoldSet
  <1> HIDE DEF Rec
  <1> QED
    BY <1>1, <1>3, <1>4

(*****************************************************************************)
(* The log.                                                                  *)
(*****************************************************************************)
\* One request that changes changes what is still to be logged by as much.
LEMMA TotalChanges ==
    ASSUME NEW t \in [Slot -> TurnRow], NEW u \in [Slot -> TurnRow], NEW r \in Slot,
           \A s \in Slot : s # r => u[s] = t[s]
    PROVE  /\ Total(t) \in Nat /\ Total(u) \in Nat /\ Owes(t[r]) \in Nat /\ Owes(u[r]) \in Nat
           /\ Total(u) + Owes(t[r]) = Total(t) + Owes(u[r])
  <1>1. IsFiniteSet(Slot) /\ \A q \in TurnRow : q.cost \in Nat
    BY QuotaAssumption DEF TurnRow
  <1>2. Owed(t) \in [Slot -> Nat] /\ Owed(u) \in [Slot -> Nat]
    BY <1>1 DEF Owed, Owes
  <1>3. PICK g : IsSum(Owed(t), g, Slot) /\ Total(t) = g[Slot]
    BY TotalIsSum
  <1>4. PICK h : IsSum(Owed(u), h, Slot) /\ Total(u) = h[Slot]
    BY TotalIsSum
  <1>5. \A s \in Slot : s # r => Owed(u)[s] = Owed(t)[s]
    BY DEF Owed
  <1>6. g[Slot] \in Nat /\ h[Slot] \in Nat /\ h[Slot] + Owed(t)[r] = g[Slot] + Owed(u)[r]
    BY <1>1, <1>2, <1>3, <1>4, <1>5, SumChanges
  <1>7. Owed(t)[r] = Owes(t[r]) /\ Owed(u)[r] = Owes(u[r])
    BY DEF Owed
  <1> QED
    BY <1>2, <1>3, <1>4, <1>6, <1>7

\* Nothing is to be logged while no request has a cost.
LEMMA TotalOfNone ==
    ASSUME NEW t, \A r \in Slot : t[r].cost = 0
    PROVE  Total(t) = 0
  <1>1. PICK g : IsSum(Owed(t), g, Slot) /\ Total(t) = g[Slot]
    BY TotalIsSum
  <1>2. Owed(t) \in [Slot -> Nat] /\ \A r \in Slot : Owed(t)[r] = 0
    BY DEF Owed, Owes
  <1> QED
    BY <1>1, <1>2, QuotaAssumption, SumOfZeros

\* The invariant: only a call logs, and the figure of the cap never counts too much.
LogsAreOfCalls == \A r \in Slot : turn[r].pc = "log" => turn[r].kind \in Calls
LogInvariant == CapNeverPremature /\ LogsAreOfCalls

LEMMA CapMeaning ==
    CapNeverPremature <=> /\ logged + Total(turn) <= spent
                          /\ cached # NoValue => cached <= logged
  BY DEF CapNeverPremature, Total, IsCall

LEMMA CapMeaningNext ==
    CapNeverPremature' <=> /\ logged' + Total(turn') <= spent'
                           /\ cached' # NoValue => cached' <= logged'
  BY DEF CapNeverPremature, Total, IsCall, NoValue, MapThenSumSet, MapThenFoldSet

\* A step of a request that keeps the account: what it logs and owes more, it spends.
LEMMA AccountKept ==
    ASSUME TypeOK, TypeOK', LogInvariant, NEW r \in Slot, NEW e,
           turn' = [turn EXCEPT ![r] = e], e.pc = "log" => e.kind \in Calls,
           logged' + Owes(e) + spent <= logged + Owes(turn[r]) + spent',
           cached' # NoValue => cached' <= logged'
    PROVE  LogInvariant'
  <1>1. /\ turn \in [Slot -> TurnRow] /\ turn' \in [Slot -> TurnRow]
        /\ {logged, logged', spent, spent'} \subseteq Nat
    BY DEF TypeOK
  <1>2. turn'[r] = e /\ \A s \in Slot : s # r => turn'[s] = turn[s]
    BY <1>1
  <1>3. /\ Total(turn) \in Nat /\ Total(turn') \in Nat
        /\ Owes(turn[r]) \in Nat /\ Owes(turn'[r]) \in Nat
        /\ Total(turn') + Owes(turn[r]) = Total(turn) + Owes(turn'[r])
    BY <1>1, <1>2, TotalChanges
  <1>4. logged + Total(turn) <= spent
    BY CapMeaning DEF LogInvariant
  <1>5. logged' + Total(turn') <= spent'
    BY <1>1, <1>2, <1>3, <1>4
  <1>6. LogsAreOfCalls'
    BY <1>2 DEF LogInvariant, LogsAreOfCalls
  <1>7. CapNeverPremature'
    BY <1>5, CapMeaningNext
  <1> QED
    BY <1>6, <1>7 DEF LogInvariant

\* The steps of a request that neither call, nor log, nor look at the cap.
LEMMA AccountLeft ==
    ASSUME TypeOK, TypeOK', LogInvariant, NEW r \in Slot, NEW e,
           turn' = [turn EXCEPT ![r] = e], e.pc = "log" => e.kind \in Calls,
           Owes(e) \in Nat, Owes(e) <= Owes(turn[r]),
           logged' = logged, spent' = spent, cached' = cached
    PROVE  LogInvariant'
  <1>1. Owes(turn[r]) \in Nat
    BY DEF Owes, TypeOK, TurnRow
  <1>2. logged' + Owes(e) + spent <= logged + Owes(turn[r]) + spent'
    BY <1>1 DEF TypeOK
  <1>3. cached' # NoValue => cached' <= logged'
    BY CapMeaning DEF LogInvariant
  <1> QED
    BY <1>2, <1>3, AccountKept

\* A request that is over, or begins, has made no call.
LEMMA FreshOwesNothing ==
    ASSUME NEW k, NEW pc
    PROVE  /\ Fresh(k, pc, 0).pc = pc /\ Fresh(k, pc, 0).kind = k
           /\ Owes(Fresh(k, pc, 0)) = 0
  BY DEF Fresh, Turn, Owes

LEMMA AccountClosed ==
    ASSUME NEW r \in Slot, Finish(r) \/ Close(r)
    PROVE  \E e : turn' = [turn EXCEPT ![r] = e] /\ e.pc # "log" /\ Owes(e) = 0
  <1>1. \/ turn' = [turn EXCEPT ![r] = Fresh("single", "free", 0)]
        \/ turn' = [turn EXCEPT ![r] = Fresh("title", "call", 0)]
    BY DEF Finish, Close, Free
  <1> QED
    BY <1>1, FreshOwesNothing

\* Where a request goes without a call or a log row, and that it owes no more there.
LEMMA QuietPlaces ==
    ASSUME NEW r \in Slot, TypeOK, Cost \subseteq Nat,
           \/ Finish(r) \/ Close(r)
           \/ \E pc \in {"cap", "classify", "call"} : Goto(r, pc)
           \/ \E pc \in {"renew", "check"} : \E q \in Row : Hold(r, pc, turn[r].cost, q)
           \/ turn[r].kind \notin Calls /\ \E c, q : Hold(r, "write", c, q)
           \/ \E pc \in {"renewing", "update"} : \E q : Compared(r, q, pc)
           \/ \E k : \E pc \in {"guard", "read"} : turn' = [turn EXCEPT ![r] = Fresh(k, pc, 0)]
    PROVE  \E e : turn' = [turn EXCEPT ![r] = e] /\ e.pc # "log"
                  /\ Owes(e) \in Nat /\ Owes(e) <= Owes(turn[r])
  <1>0. Owes(turn[r]) \in Nat /\ turn[r] \in TurnRow
    BY DEF Owes, TypeOK, TurnRow
  <1>1. ASSUME NEW pc, NEW c, NEW q, NEW d
        PROVE  /\ Turn(turn[r].kind, pc, c, q, d).pc = pc
               /\ Owes(Turn(turn[r].kind, pc, c, q, d)) =
                    IF turn[r].kind \in Calls THEN c ELSE 0
    BY DEF Turn, Owes
  <1>2. Owes(turn[r]) = IF turn[r].kind \in Calls THEN turn[r].cost ELSE 0
    BY DEF Owes
  <1>3. CASE Finish(r) \/ Close(r)
    <2>1. PICK e : turn' = [turn EXCEPT ![r] = e] /\ e.pc # "log" /\ Owes(e) = 0
      BY <1>3, AccountClosed
    <2> WITNESS e
    <2> QED
      BY <1>0, <2>1
  <1>4. CASE \E pc \in {"cap", "classify", "call"} : Goto(r, pc)
    <2>1. PICK pc \in {"cap", "classify", "call"} : Goto(r, pc)
      BY <1>4
    <2> DEFINE e == [turn[r] EXCEPT !.pc = pc]
    <2>2. turn' = [turn EXCEPT ![r] = e]
      BY <2>1 DEF Goto
    <2>3. e.pc = pc /\ e.kind = turn[r].kind /\ e.cost = turn[r].cost
      BY <1>0 DEF TurnRow
    <2> HIDE DEF e
    <2>4. Owes(e) = Owes(turn[r]) /\ e.pc # "log"
      BY <2>3 DEF Owes
    <2> WITNESS e
    <2> QED
      BY <1>0, <2>2, <2>4
  <1>5. CASE \E pc \in {"renew", "check"} : \E q \in Row : Hold(r, pc, turn[r].cost, q)
    <2>1. PICK pc \in {"renew", "check"}, q \in Row : Hold(r, pc, turn[r].cost, q)
      BY <1>5
    <2> DEFINE e == Turn(turn[r].kind, pc, turn[r].cost, q, {})
    <2>2. turn' = [turn EXCEPT ![r] = e]
      BY <2>1 DEF Hold
    <2>3. e.pc = pc /\ Owes(e) = Owes(turn[r]) /\ pc # "log"
      BY <1>1, <1>2
    <2> HIDE DEF e
    <2> WITNESS e
    <2> QED
      BY <1>0, <2>2, <2>3
  <1>6. CASE turn[r].kind \notin Calls /\ \E c, q : Hold(r, "write", c, q)
    <2>1. PICK c, q : Hold(r, "write", c, q)
      BY <1>6
    <2> DEFINE e == Turn(turn[r].kind, "write", c, q, {})
    <2>2. turn' = [turn EXCEPT ![r] = e]
      BY <2>1 DEF Hold
    <2>3. e.pc = "write" /\ Owes(e) = 0 /\ "write" # "log"
      BY <1>1, <1>6
    <2> HIDE DEF e
    <2> WITNESS e
    <2> QED
      BY <1>0, <2>2, <2>3
  <1>7. CASE \E pc \in {"renewing", "update"} : \E q : Compared(r, q, pc)
    <2>1. PICK pc \in {"renewing", "update"} : \E q : Compared(r, q, pc)
      BY <1>7
    <2>2. PICK q : Compared(r, q, pc)
      BY <2>1
    <2> DEFINE e == Turn(turn[r].kind, pc, turn[r].cost, q, Differing(q))
    <2>3. turn' = [turn EXCEPT ![r] = e]
      BY <2>2 DEF Compared
    <2>4. e.pc = pc /\ Owes(e) = Owes(turn[r]) /\ pc # "log"
      BY <1>1, <1>2
    <2> HIDE DEF e
    <2> WITNESS e
    <2> QED
      BY <1>0, <2>3, <2>4
  <1>8. CASE \E k : \E pc \in {"guard", "read"} : turn' = [turn EXCEPT ![r] = Fresh(k, pc, 0)]
    <2>1. PICK k : \E pc \in {"guard", "read"} : turn' = [turn EXCEPT ![r] = Fresh(k, pc, 0)]
      BY <1>8
    <2>2. PICK pc \in {"guard", "read"} : turn' = [turn EXCEPT ![r] = Fresh(k, pc, 0)]
      BY <2>1
    <2>3. Fresh(k, pc, 0).pc = pc /\ Owes(Fresh(k, pc, 0)) = 0 /\ pc # "log"
      BY FreshOwesNothing
    <2> WITNESS Fresh(k, pc, 0)
    <2> QED
      BY <1>0, <2>2, <2>3
  <1> QED
    BY <1>3, <1>4, <1>5, <1>6, <1>7, <1>8

\* No step of a request breaks the account.
LEMMA LogTurnStep ==
    ASSUME TypeOK, TypeOK', LogInvariant, NEW r \in Slot, TurnStep(r)
    PROVE  LogInvariant'
  <1>0. /\ Cost \subseteq Nat /\ turn[r] \in TurnRow /\ row \in Row /\ now \in Period
        /\ {logged, spent, logged', spent'} \subseteq Nat
        /\ turn[r].cost \in Nat /\ turn[r].copy \in Row /\ Owes(turn[r]) \in Nat
        /\ cached # NoValue => cached <= logged
    BY QuotaAssumption, CapMeaning DEF TypeOK, TurnRow, LogInvariant, Owes
  <1>1. ASSUME UNCHANGED <<logged, spent, cached>>,
               \E e : turn' = [turn EXCEPT ![r] = e] /\ e.pc # "log"
                      /\ Owes(e) \in Nat /\ Owes(e) <= Owes(turn[r])
        PROVE  LogInvariant'
    BY <1>1, AccountLeft
  <1>2. CASE Begin(r)
    <2>1. /\ UNCHANGED <<logged, spent, cached>>
          /\ \E k : \E pc \in {"guard", "read"} : turn' = [turn EXCEPT ![r] = Fresh(k, pc, 0)]
      BY <1>2 DEF Begin, sums
    <2> QED
      BY <1>0, <1>1, <2>1, QuietPlaces
  <1>3. CASE CheckUser(r)
    <2>1. /\ UNCHANGED <<logged, spent, cached>>
          /\ Finish(r) \/ \E pc \in {"cap", "classify", "call"} : Goto(r, pc)
      BY <1>3 DEF CheckUser, sums
    <2> QED
      BY <1>0, <1>1, <2>1, QuietPlaces
  <1>4. CASE CheckCap(r)
    <2>1. /\ UNCHANGED <<logged, spent>> /\ (cached' = cached \/ cached' = logged)
          /\ Finish(r) \/ \E pc \in {"cap", "classify", "call"} : Goto(r, pc)
      BY <1>4 DEF CheckCap, sums
    <2>2. PICK e : /\ turn' = [turn EXCEPT ![r] = e] /\ e.pc # "log"
                   /\ Owes(e) \in Nat /\ Owes(e) <= Owes(turn[r])
      BY <1>0, <2>1, QuietPlaces
    <2>3. cached' # NoValue => cached' <= logged'
      BY <1>0, <2>1
    <2>4. logged' + Owes(e) + spent <= logged + Owes(turn[r]) + spent'
      BY <1>0, <2>1, <2>2
    <2> QED
      BY <2>2, <2>3, <2>4, AccountKept
  <1>5. CASE Classify(r)
    <2>1. /\ cached' = cached /\ Goto(r, "call")
          /\ \/ spent' = spent /\ logged' = logged
             \/ \E c \in Cost : spent' = spent + c /\ logged' \in {logged, logged + c}
      BY <1>5 DEF Classify
    <2>2. PICK e : /\ turn' = [turn EXCEPT ![r] = e] /\ e.pc # "log"
                   /\ Owes(e) \in Nat /\ Owes(e) <= Owes(turn[r])
      BY <1>0, <2>1, QuietPlaces
    <2>3. logged <= logged' /\ logged' + spent <= logged + spent'
      BY <1>0, <2>1
    <2>4. logged' + Owes(e) + spent <= logged + Owes(turn[r]) + spent'
      BY <1>0, <2>2, <2>3
    <2>5. cached' # NoValue => cached' <= logged'
      BY <1>0, <2>1, <2>3 DEF TypeOK
    <2> QED
      BY <2>2, <2>4, <2>5, AccountKept
  <1>6. CASE CallModel(r)
    <2>1. cached' = cached /\ logged' = logged
      BY <1>6 DEF CallModel
    <2>2. cached' # NoValue => cached' <= logged'
      BY <1>0, <2>1
    <2>3. CASE Finish(r)
      <3>1. spent <= spent'
        BY <1>0, <1>6 DEF CallModel
      <3>2. PICK e : turn' = [turn EXCEPT ![r] = e] /\ e.pc # "log" /\ Owes(e) = 0
        BY <2>3, AccountClosed
      <3>3. logged' + Owes(e) + spent <= logged + Owes(turn[r]) + spent'
        BY <1>0, <2>1, <3>1, <3>2
      <3> QED
        BY <2>2, <3>2, <3>3, AccountKept
    <2>4. CASE \E c \in Cost, pc \in {"guard", "read"} :
                 spent' = spent + c /\ turn' = [turn EXCEPT ![r] = Called(turn[r], c, pc)]
      <3>1. PICK c \in Cost, pc \in {"guard", "read"} :
                 spent' = spent + c /\ turn' = [turn EXCEPT ![r] = Called(turn[r], c, pc)]
        BY <2>4
      <3> DEFINE e == Called(turn[r], c, pc)
      <3>2. e.pc = pc /\ e.kind = turn[r].kind /\ e.cost = turn[r].cost + c
        BY <1>0 DEF TurnRow, Called
      <3> HIDE DEF e
      <3>3. Owes(e) \in Nat /\ Owes(e) <= Owes(turn[r]) + c /\ e.pc # "log" /\ c \in Nat
        BY <1>0, <3>2 DEF Owes
      <3>4. logged' + Owes(e) + spent <= logged + Owes(turn[r]) + spent'
        BY <1>0, <2>1, <3>1, <3>3
      <3>5. turn' = [turn EXCEPT ![r] = e]
        BY <3>1 DEF e
      <3> QED
        BY <2>2, <3>3, <3>4, <3>5, AccountKept
    <2> QED
      BY <1>6, <2>3, <2>4 DEF CallModel
  <1>7. CASE ReadRow(r) \/ SaveRenewal(r)
    <2>1. Renewed(row) \in Row
      BY <1>0, RenewedRow
    <2>2. /\ UNCHANGED <<logged, spent, cached>>
          /\ \/ Close(r)
             \/ \E pc \in {"renew", "check"} : \E q \in Row : Hold(r, pc, turn[r].cost, q)
      BY <1>0, <1>7, <2>1 DEF ReadRow, SaveRenewal, sums
    <2> QED
      BY <1>0, <1>1, <2>2, QuietPlaces
  <1>8. CASE ReadToWrite(r)
    <2>1. /\ UNCHANGED <<logged, spent, cached>>
          /\ \/ Finish(r)
             \/ turn[r].kind \notin Calls /\ \E c, q : Hold(r, "write", c, q)
      BY <1>8 DEF ReadToWrite, IsCall, Calls, sums
    <2> QED
      BY <1>0, <1>1, <2>1, QuietPlaces
  <1>9. CASE CompareRenewal(r) \/ CompareDeduction(r) \/ CompareRow(r)
    <2>1. /\ UNCHANGED <<logged, spent, cached>>
          /\ Close(r) \/ \E pc \in {"renewing", "update"} : \E q : Compared(r, q, pc)
      BY <1>9 DEF CompareRenewal, CompareDeduction, CompareRow, sums
    <2> QED
      BY <1>0, <1>1, <2>1, QuietPlaces
  <1>10. CASE SaveDeduction(r)
    <2> DEFINE e == Fresh(turn[r].kind, "log", turn[r].cost)
    <2>1. /\ logged' = logged /\ spent' = spent /\ cached' = cached
          /\ turn' = [turn EXCEPT ![r] = e] /\ turn[r].kind \in Calls
      BY <1>10 DEF SaveDeduction, IsCall, Calls
    <2>2. e.kind = turn[r].kind /\ Owes(e) = Owes(turn[r])
      BY DEF Fresh, Turn, Owes
    <2> HIDE DEF e
    <2>3. e.kind \in Calls /\ Owes(e) \in Nat /\ Owes(e) <= Owes(turn[r])
      BY <1>0, <2>1, <2>2
    <2> QED
      BY <2>1, <2>3, AccountLeft
  <1>11. CASE WriteLog(r)
    <2>1. /\ turn[r].pc = "log" /\ spent' = spent /\ cached' = cached /\ Close(r)
          /\ logged' \in {logged, logged + turn[r].cost}
      BY <1>11 DEF WriteLog, RowsCost, At
    <2>2. Owes(turn[r]) = turn[r].cost
      BY <2>1 DEF Owes, LogInvariant, LogsAreOfCalls
    <2>3. PICK e : turn' = [turn EXCEPT ![r] = e] /\ e.pc # "log" /\ Owes(e) = 0
      BY <2>1, AccountClosed
    <2>4. logged <= logged' /\ logged' <= logged + turn[r].cost
      BY <1>0, <2>1
    <2>5. logged' + Owes(e) + spent <= logged + Owes(turn[r]) + spent'
      BY <1>0, <2>1, <2>2, <2>3, <2>4
    <2>6. cached' # NoValue => cached' <= logged'
      BY <1>0, <2>1, <2>4 DEF TypeOK
    <2> QED
      BY <2>3, <2>5, <2>6, AccountKept
  <1>12. CASE WriteRow(r)
    <2>1. UNCHANGED <<logged, spent, cached>> /\ Finish(r)
      BY <1>12 DEF WriteRow
    <2> QED
      BY <1>0, <1>1, <2>1, QuietPlaces
  <1> QED
    BY <1>2, <1>3, <1>4, <1>5, <1>6, <1>7, <1>8, <1>9, <1>10, <1>11, <1>12 DEF TurnStep

\* The figure that is compared with the cap of the organisation never counts a call twice,
\* nor one that was not made, for any number of requests and whatever the order in which
\* they call, save and log: it lags behind what was spent by at least what is still to log.
THEOREM QuotaCapNeverPremature == Spec => []CapNeverPremature
  <1>1. Init => LogInvariant
    <2> SUFFICES ASSUME Init PROVE LogInvariant
      OBVIOUS
    <2>1. \A r \in Slot : turn[r].pc = "free" /\ turn[r].cost = 0
      BY DEF Init, Free, Fresh, Turn
    <2>2. spent = 0 /\ logged = 0 /\ cached = NoValue /\ Total(turn) = 0
      BY <2>1, TotalOfNone DEF Init
    <2> QED
      BY <2>1, <2>2, CapMeaning DEF LogInvariant, LogsAreOfCalls
  <1>2. TypeOK /\ TypeOK' /\ LogInvariant /\ [Next]_vars => LogInvariant'
    <2> SUFFICES ASSUME TypeOK, TypeOK', LogInvariant, [Next]_vars
                 PROVE  LogInvariant'
      OBVIOUS
    <2>0. /\ {logged, spent, logged', spent'} \subseteq Nat
          /\ logged + Total(turn) <= spent /\ LogsAreOfCalls
          /\ cached # NoValue => cached <= logged
      BY CapMeaning DEF TypeOK, LogInvariant
    <2>1. ASSUME UNCHANGED <<turn, logged, spent>>, cached' = cached \/ cached' = NoValue
          PROVE  LogInvariant'
      <3>1. LogsAreOfCalls'
        BY <2>0, <2>1 DEF LogsAreOfCalls
      <3>2. CapNeverPremature'
        BY <2>0, <2>1, CapMeaningNext
      <3> QED
        BY <3>1, <3>2 DEF LogInvariant
    <2>2. CASE OthersSpend
      <3>1. PICK c \in Cost : spent' = spent + c /\ logged' \in {logged, logged + c}
        BY <2>2 DEF OthersSpend
      <3>2. IF Slot = {} THEN Total(turn) = 0 ELSE Total(turn) \in Nat
        BY TotalOfNone, TotalChanges DEF TypeOK
      <3>3. turn' = turn /\ cached' = cached /\ Total(turn) \in Nat /\ c \in Nat
        BY <2>2, <3>2, QuotaAssumption DEF OthersSpend
      <3>4. logged' + Total(turn') <= spent' /\ logged <= logged'
        BY <2>0, <3>1, <3>3
      <3>5. CapNeverPremature'
        BY <2>0, <3>3, <3>4, CapMeaningNext DEF TypeOK
      <3>6. LogsAreOfCalls'
        BY <2>0, <3>3 DEF LogsAreOfCalls
      <3> QED
        BY <3>5, <3>6 DEF LogInvariant
    <2>3. CASE CacheExpires \/ PeriodEnds \/ UNCHANGED vars
      BY <2>1, <2>3 DEF CacheExpires, PeriodEnds, vars, sums
    <2>4. ASSUME NEW r \in Slot, TurnStep(r) PROVE LogInvariant'
      BY <2>4, LogTurnStep
    <2> QED
      BY <2>2, <2>3, <2>4 DEF Next
  <1>3. LogInvariant => CapNeverPremature
    BY DEF LogInvariant
  <1> QED
    BY <1>1, <1>2, <1>3, QuotaTypeCorrect, PTL DEF Spec
===============================================================================
