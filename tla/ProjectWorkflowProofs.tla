------------------------ MODULE ProjectWorkflowProofs ------------------------
(* What the approval workflow keeps for any number of projects, plans,       *)
(* requests in progress and rows.                                            *)
EXTENDS ProjectWorkflow, FiniteSetTheorems, SequenceTheorems, TLAPS

(* No request of this instance rolls a status back. *)
NothingRollsBack == \A t \in Request : request[t].kind # "rollback"

(* A project is inserted once: nobody else inserts it, and it has no plan    *)
(* until then.                                                               *)
AuthorsApart ==
  \A t \in Request : request[t].kind = "author" =>
    /\ ~Authored(request[t].project)
    /\ \A u \in Request \ {t} :
         request[u].kind = "author" => request[u].project # request[t].project

(* Status changes are asked for projects that exist. *)
MovesAuthored ==
  \A t \in Request : request[t].kind \in MoveKinds =>
    /\ \A i \in DOMAIN request[t].todo : Authored(request[t].todo[i])
    /\ \A i \in DOMAIN request[t].writes : Authored(request[t].writes[i].project)

(* What a request is about to write follows what it has read: a row of the   *)
(* history, which is still there, or an earlier write of its own.            *)
Follows(w, p, i) ==
  \/ \E r \in rows[p] : LegalMove(r.status, w[i].to)
  \/ \E j \in DOMAIN w : w[j].project = p /\ LegalMove(w[j].to, w[i].to)

WritesFollow ==
  \A t \in Request : request[t].kind \in MoveKinds =>
    \A i \in DOMAIN request[t].writes :
      Follows(request[t].writes, request[t].writes[i].project, i)

HistoryInvariant ==
  /\ TypeOK
  /\ NothingRollsBack /\ AuthorsApart /\ MovesAuthored /\ WritesFollow
  /\ NeverWithoutStatus /\ NoStageSkipped

-----------------------------------------------------------------------------
(* A bounded set of numbers has a greatest one: of the numbers that follow   *)
(* each of them, the smallest set follows the greatest.                      *)
LEMMA Greatest ==
  ASSUME NEW n \in Nat, NEW S, S \subseteq 0..n, S # {}
  PROVE  \E m \in S : \A s \in S : s <= m
<1> DEFINE Follow(s) == (s + 1)..n
           Tails == {Follow(s) : s \in S}
<1>1. Tails \subseteq FiniteSubsetsOf(Nat)
  <2>1. ASSUME NEW s \in S PROVE Follow(s) \in SUBSET Nat /\ IsFiniteSet(Follow(s))
    BY FS_Interval
  <2>. QED BY <2>1 DEF FiniteSubsetsOf
<1>2. PICK X \in Tails : \A Y \in Tails : ~ (<<Y, X>> \in StrictSubsetOrdering(Nat))
  <2>1. Tails # {}
    OBVIOUS
  <2> HIDE DEF Tails
  <2>. QED BY <1>1, <2>1, WFMin, FS_StrictSubsetOrderingWellFounded
<1>3. PICK m \in S : X = Follow(m)
  BY <1>2
<1>4. ASSUME NEW s \in S PROVE s <= m
  <2>1. Follow(s) \in SUBSET Nat /\ Follow(m) \in SUBSET Nat /\ Follow(s) \in Tails
    OBVIOUS
  <2>2. SUFFICES ASSUME ~ (s <= m) PROVE FALSE
    OBVIOUS
  <2>3. Follow(s) \subseteq Follow(m) /\ s \in Follow(m) /\ s \notin Follow(s)
    BY <2>2
  <2>. QED BY <1>2, <1>3, <2>1, <2>3 DEF StrictSubsetOrdering
<1>. QED BY <1>4

(* The time of a new transaction is later than that of every row.            *)
LEMMA NewStampTyped ==
  ASSUME TypeOK
  PROVE  NewStamp \in Nat \ {0}
<1> DEFINE S == {0} \cup Stamps
<1>1. \A p \in Project : \A row \in rows[p] : row.at \in 0..MaxStamp
  BY WorkflowAssumption DEF TypeOK, Row
<1>2. \A t \in Request : request[t] # Idle => request[t].at \in 0..MaxStamp
  BY WorkflowAssumption
     DEF TypeOK, RequestRow, AuthorRow, MoveRow, RollbackRow, BookRow, Stamp
<1>3. S \subseteq 0..MaxStamp
  BY <1>1, <1>2, WorkflowAssumption DEF Stamps
<1>4. \E m \in S : \A s \in S : s <= m
  <2> HIDE DEF S
  <2>1. S # {}
    BY DEF S
  <2>. QED BY <1>3, <2>1, Greatest, WorkflowAssumption
<1>5. NewStamp = 1 + CHOOSE m \in S : \A s \in Stamps : s <= m
  BY DEF NewStamp
<1>6. (CHOOSE m \in S : \A s \in Stamps : s <= m) \in S
  BY <1>4
<1>7. \E m \in S : NewStamp = 1 + m
  <2> HIDE DEF S
  <2>. QED BY <1>5, <1>6, Zenon
<1>. QED BY <1>3, <1>7, WorkflowAssumption

(* The fields of a request, by its kind.                                     *)
LEMMA RequestFields ==
  ASSUME NEW q \in RequestRow
  PROVE  /\ q.kind = "idle" <=> q = Idle
         /\ q.kind = "author" => q \in AuthorRow
         /\ q.kind \in MoveKinds => q \in MoveRow
         /\ q.kind = "rollback" => q \in RollbackRow
         /\ q.kind = "merge" => q.book \in Plan /\ q.list \subseteq Project
                               /\ q.at \in Stamp
         /\ q.kind = "out_authority" => q.book \in Plan /\ q.list \subseteq Project
         /\ q.kind = "cancel" => q.book \in Plan /\ q.read \in PlanRow
                                /\ q.at \in Stamp
BY DEF RequestRow, Idle, AuthorRow, MoveRow, RollbackRow, BookRow, MoveKinds

(* A request that is replaced by a well-formed one leaves the types alone.   *)
LEMMA RequestsTyped ==
  ASSUME TypeOK, NEW t \in Request, NEW q \in RequestRow,
         request' = [request EXCEPT ![t] = q],
         q.kind \in MoveKinds => (q.step = "flip" => q.todo # <<>> /\ q.writes # <<>>)
  PROVE  /\ request' \in [Request -> RequestRow]
         /\ \A u \in Request : InStep(u, "flip")' =>
              request'[u].todo # <<>> /\ request'[u].writes # <<>>
BY DEF TypeOK, InStep

LEMMA IdleTyped == Idle \in RequestRow /\ Idle.kind = "idle" /\ Idle.kind \notin MoveKinds
BY DEF RequestRow, Idle, MoveKinds

LEMMA OpenTyped ==
  ASSUME TypeOK, NEW t \in Request, NEW q \in RequestRow, Open(t, q),
         q.kind \in MoveKinds => q.step = "check"
  PROVE  TypeOK'
<1>1. request' = [request EXCEPT ![t] = q]
  BY DEF Open
<1>2. UNCHANGED <<plan, home, rows, isBooked, draft, printed>>
  BY DEF Open
<1>. QED BY <1>1, <1>2, RequestsTyped DEF TypeOK

LEMMA CloseTyped ==
  ASSUME TypeOK, NEW t \in Request, request' = [request EXCEPT ![t] = Idle]
  PROVE  /\ request' \in [Request -> RequestRow]
         /\ \A u \in Request : InStep(u, "flip")' =>
              request'[u].todo # <<>> /\ request'[u].writes # <<>>
BY RequestsTyped, IdleTyped

-----------------------------------------------------------------------------
(* The steps that start a request.                                           *)
LEMMA BeginTyped ==
  ASSUME TypeOK, NEW t \in Request,
         \/ BeginAuthor(t) \/ BeginMove(t) \/ BeginRollback(t)
         \/ BeginMerge(t) \/ BeginOutAuthority(t) \/ BeginCancel(t)
  PROVE  TypeOK'
<1>1. NewStamp \in Nat \ {0}
  BY NewStampTyped
<1>2. NewStamp <= MaxStamp => NewStamp \in Stamp
  BY <1>1, WorkflowAssumption DEF Stamp
<1> HIDE DEF NewStamp
<1>3. CASE BeginAuthor(t)
  <2>1. PICK p \in Project, b \in Plan :
          Open(t, [kind |-> "author", project |-> p, book |-> b, at |-> NewStamp])
    BY <1>3 DEF BeginAuthor
  <2> DEFINE q == [kind |-> "author", project |-> p, book |-> b, at |-> NewStamp]
  <2>2. q \in RequestRow /\ q.kind \notin MoveKinds
    BY <2>1, <1>2 DEF Open, RequestRow, AuthorRow, MoveKinds
  <2>. QED BY <2>1, <2>2, OpenTyped
<1>4. CASE BeginMove(t)
  <2>1. PICK kind \in MoveKinds : \E batch \in Lists(kind) :
          Open(t, [kind |-> kind, step |-> "check", todo |-> batch,
                   writes |-> <<>>, at |-> NewStamp])
    BY <1>4 DEF BeginMove
  <2>a. PICK batch \in Lists(kind) :
          Open(t, [kind |-> kind, step |-> "check", todo |-> batch,
                   writes |-> <<>>, at |-> NewStamp])
    BY <2>1
  <2> DEFINE q == [kind |-> kind, step |-> "check", todo |-> batch,
                   writes |-> <<>>, at |-> NewStamp]
  <2>2. batch \in Seq(Project)
    <3>1. \A p \in Project : <<p>> \in Seq(Project)
      OBVIOUS
    <3>2. Lists(kind) \subseteq Batches \cup {<<p>> : p \in Project}
      BY DEF Lists
    <3>. QED BY <2>a, <3>1, <3>2, WorkflowAssumption
  <2>3. q \in RequestRow
    BY <2>a, <2>2, <1>2 DEF Open, RequestRow, MoveRow
  <2>. QED BY <2>a, <2>3, OpenTyped
<1>5. CASE BeginRollback(t)
  <2>1. PICK p \in Project : \E cur \in LatestRows(p), prev \in Superseded(p) :
          Open(t, [kind |-> "rollback", project |-> p, cur |-> Id(cur),
                   prev |-> Id(prev),
                   at |-> IF cur.at > prev.at THEN cur.at ELSE prev.at])
    BY <1>5 DEF BeginRollback
  <2>a. PICK cur \in LatestRows(p), prev \in Superseded(p) :
          Open(t, [kind |-> "rollback", project |-> p, cur |-> Id(cur),
                   prev |-> Id(prev),
                   at |-> IF cur.at > prev.at THEN cur.at ELSE prev.at])
    BY <2>1
  <2> DEFINE q == [kind |-> "rollback", project |-> p, cur |-> Id(cur),
                   prev |-> Id(prev),
                   at |-> IF cur.at > prev.at THEN cur.at ELSE prev.at]
  <2>2. cur \in Row /\ prev \in Row
    BY DEF TypeOK, LatestRows, Superseded
  <2>3. q \in RequestRow /\ q.kind \notin MoveKinds
    BY <2>2 DEF RequestRow, RollbackRow, Row, Stamp, Ids, Id, MoveKinds
  <2>. QED BY <2>a, <2>3, OpenTyped
<1>6. CASE BeginMerge(t)
  <2>1. PICK b \in Plan : Open(t, [kind |-> "merge", book |-> b, list |-> draft[b],
                                   at |-> NewStamp])
    BY <1>6 DEF BeginMerge
  <2> DEFINE q == [kind |-> "merge", book |-> b, list |-> draft[b], at |-> NewStamp]
  <2>2. q \in RequestRow /\ q.kind \notin MoveKinds
    BY <2>1, <1>2 DEF Open, TypeOK, RequestRow, BookRow, MoveKinds
  <2>. QED BY <2>1, <2>2, OpenTyped
<1>7. CASE BeginOutAuthority(t)
  <2>1. PICK b \in Plan, list \in SUBSET Project :
          Open(t, [kind |-> "out_authority", book |-> b, list |-> list, at |-> 0])
    BY <1>7 DEF BeginOutAuthority, Members
  <2> DEFINE q == [kind |-> "out_authority", book |-> b, list |-> list, at |-> 0]
  <2>2. q \in RequestRow /\ q.kind \notin MoveKinds
    BY DEF RequestRow, BookRow, MoveKinds
  <2>. QED BY <2>1, <2>2, OpenTyped
<1>8. CASE BeginCancel(t)
  <2>1. PICK b \in Plan : Open(t, [kind |-> "cancel", book |-> b, read |-> plan[b],
                                   at |-> NewStamp])
    BY <1>8 DEF BeginCancel
  <2> DEFINE q == [kind |-> "cancel", book |-> b, read |-> plan[b], at |-> NewStamp]
  <2>2. q \in RequestRow /\ q.kind \notin MoveKinds
    BY <2>1, <1>2 DEF Open, TypeOK, RequestRow, BookRow, MoveKinds
  <2>. QED BY <2>1, <2>2, OpenTyped
<1>. QED BY <1>3, <1>4, <1>5, <1>6, <1>7, <1>8

-----------------------------------------------------------------------------
(* What a request may decide to write.                                       *)
LEMMA OutcomesTyped ==
  ASSUME TypeOK, NEW p \in Project, Authored(p), NEW kind \in MoveKinds, NEW seen,
         NEW o \in Outcomes(kind, p, seen)
  PROVE  o[1] \in Status /\ o[2] \in Plan
<1>1. home[p] \in Plan
  BY DEF TypeOK, Authored
<1>2. OwnerMoves(seen) \subseteq Status /\ StaffMoves(seen) \subseteq Status
  BY DEF OwnerMoves, StaffMoves, Status
<1>3. BulkMoves(seen) \subseteq Status
  BY <1>2 DEF BulkMoves
<1>4. "Pending_Approval" \in Status
  BY DEF Status
<1>. QED BY <1>1, <1>2, <1>3, <1>4 DEF Outcomes, MoveKinds

(* The steps of a status change before its commit.                           *)
LEMMA StepTyped ==
  ASSUME TypeOK, MovesAuthored, NEW t \in Request, Check(t) \/ Skip(t) \/ Flip(t)
  PROVE  TypeOK'
<1> DEFINE req == request[t]
           p == Head(req.todo)
<1>1. req \in MoveRow /\ UNCHANGED <<plan, home, rows, isBooked, draft, printed>>
  BY RequestFields DEF Check, Skip, Flip, InStep, TypeOK
<1>2. req.todo # <<>>
  BY DEF Check, Skip, Flip, TypeOK
<1>3. p \in Project /\ Tail(req.todo) \in Seq(Project)
  BY <1>1, <1>2, HeadTailProperties DEF MoveRow
<1>4. ASSUME NEW q \in MoveRow, request' = [request EXCEPT ![t] = q],
             q.step = "flip" => q.todo # <<>> /\ q.writes # <<>>
      PROVE  TypeOK'
  <2>1. q \in RequestRow
    BY <1>4 DEF RequestRow
  <2>. QED BY <1>1, <1>4, <2>1, RequestsTyped DEF TypeOK
<1>5. CASE Check(t)
  <2>1. PICK seen \in SeenStatus(t, p) : \E o \in Outcomes(req.kind, p, seen) :
          request' = [request EXCEPT
            ![t].step = "flip",
            ![t].writes = Append(@, [project |-> p, to |-> o[1], plan |-> o[2],
                                     flips |-> {}])]
    BY <1>5 DEF Check
  <2>2. PICK o \in Outcomes(req.kind, p, seen) :
          request' = [request EXCEPT
            ![t].step = "flip",
            ![t].writes = Append(@, [project |-> p, to |-> o[1], plan |-> o[2],
                                     flips |-> {}])]
    BY <2>1
  <2> DEFINE w == [project |-> p, to |-> o[1], plan |-> o[2], flips |-> {}]
             q == [req EXCEPT !.step = "flip", !.writes = Append(@, w)]
  <2>3. Authored(p) /\ req.kind \in MoveKinds
    <3>1. 1 \in DOMAIN req.todo /\ p = req.todo[1]
      BY <1>1, <1>2, HeadTailProperties, LenProperties, EmptySeq DEF MoveRow
    <3>. QED BY <1>1, <3>1 DEF MovesAuthored, MoveRow
  <2>4. w \in Write
    <3>1. o[1] \in Status /\ o[2] \in Plan
      BY <1>3, <2>3, OutcomesTyped
    <3>. QED BY <1>3, <3>1 DEF Write
  <2>5. Append(req.writes, w) \in Seq(Write) /\ Append(req.writes, w) # <<>>
    BY <1>1, <2>4, AppendProperties DEF MoveRow
  <2>6. q \in MoveRow /\ q.step = "flip" /\ q.todo = req.todo
          /\ q.writes = Append(req.writes, w)
    BY <1>1, <2>5 DEF MoveRow
  <2>7. request' = [request EXCEPT ![t] = q]
    BY <2>2, <1>1 DEF TypeOK
  <2>. QED BY <1>2, <1>4, <2>5, <2>6, <2>7
<1>6. CASE Skip(t)
  <2> DEFINE q == [req EXCEPT !.todo = Tail(@)]
  <2>1. q \in MoveRow /\ q.step = "check"
    BY <1>1, <1>3, <1>6 DEF MoveRow, Skip, InStep
  <2>2. request' = [request EXCEPT ![t] = q]
    BY <1>6 DEF Skip, TypeOK
  <2>. QED BY <1>4, <2>1, <2>2
<1>7. CASE Flip(t)
  <2> DEFINE n == Len(req.writes)
             seen == {Id(row) : row \in rows[p]}
             q == [req EXCEPT !.step = "check", !.todo = Tail(@),
                              !.writes = [req.writes EXCEPT ![n].flips = seen]]
  <2>1. seen \subseteq Ids
    BY <1>3 DEF TypeOK, Row, Id, Ids, Stamp
  <2>2. req.writes \in Seq(Write) /\ req.writes # <<>>
    BY <1>1, <1>7 DEF Flip, TypeOK, MoveRow
  <2>3. n \in 1..Len(req.writes) /\ req.writes[n] \in Write
    BY <2>2, LenProperties, EmptySeq, ElementOfSeq
  <2>4. [req.writes[n] EXCEPT !.flips = seen] \in Write
    BY <2>1, <2>3 DEF Write
  <2>5. [req.writes EXCEPT ![n].flips = seen] \in Seq(Write)
    <3>1. [req.writes EXCEPT ![n] = [req.writes[n] EXCEPT !.flips = seen]] \in Seq(Write)
      BY <2>2, <2>3, <2>4, ExceptSeq
    <3>. QED BY <2>2, <2>3, <3>1
  <2>6. q \in MoveRow /\ q.step = "check"
    BY <1>1, <1>3, <2>5 DEF MoveRow
  <2>7. request' = [request EXCEPT ![t] = q]
    BY <1>1, <1>7 DEF Flip, TypeOK, MoveRow
  <2>. QED BY <1>4, <2>6, <2>7
<1>. QED BY <1>5, <1>6, <1>7

-----------------------------------------------------------------------------
(* The rows a status change leaves.                                          *)
LEMMA AfterMoveTyped ==
  ASSUME TypeOK, NEW t \in Request, request[t] \in MoveRow, NEW p \in Project
  PROVE  AfterMove(t, p) \in SUBSET Row
<1> DEFINE w == request[t].writes
           own == OwnWrites(t, p)
           touched == UNION {w[i].flips : i \in own}
<1>1. w \in Seq(Write)
  BY DEF MoveRow
<1>2. own \subseteq DOMAIN w /\ own \subseteq Nat \ {0}
  BY <1>1, LenProperties DEF OwnWrites
<1>3. ASSUME NEW row \in rows[p]
      PROVE  [row EXCEPT !.latest = @ /\ Id(row) \notin touched] \in Row
  <2>1. row \in Row
    BY DEF TypeOK
  <2>2. (row.latest /\ Id(row) \notin touched) \in BOOLEAN
    BY Zenon
  <2>. QED BY <2>1, <2>2 DEF Row
<1>4. ASSUME NEW i \in own
      PROVE  [at |-> request[t].at, item |-> i, status |-> w[i].to,
              latest |-> \A j \in own : j <= i] \in Row
  <2>1. w[i].to \in Status
    <3>1. w[i] \in Write
      BY <1>1, <1>2, ElementOfSeq, LenProperties
    <3>. QED BY <3>1 DEF Write
  <2>2. (\A j \in own : j <= i) \in BOOLEAN
    BY Zenon
  <2>3. request[t].at \in 1..MaxStamp
    BY DEF MoveRow, Stamp
  <2>. QED BY <1>2, <2>1, <2>2, <2>3 DEF Row
<1>. QED BY <1>3, <1>4 DEF AfterMove

LEMMA CommitMoveTyped ==
  ASSUME TypeOK, NEW t \in Request, CommitMove(t)
  PROVE  /\ TypeOK'
         /\ \A p \in Project : home'[p] \in Plan \/ home'[p] = home[p]
<1>1. request[t] \in MoveRow
  BY RequestFields DEF CommitMove, InStep, TypeOK
<1>2. rows' \in [Project -> SUBSET Row]
  BY <1>1, AfterMoveTyped DEF CommitMove
<1>3. ASSUME NEW p \in Project PROVE home'[p] \in Plan \/ home'[p] = home[p]
  <2>1. CASE OwnWrites(t, p) = {}
    BY <2>1 DEF CommitMove
  <2>2. CASE OwnWrites(t, p) # {}
    <3> DEFINE i == CHOOSE j \in OwnWrites(t, p) : TRUE
    <3>1. i \in OwnWrites(t, p)
      BY <2>2
    <3>2. request[t].writes[i] \in Write
      BY <1>1, <3>1, ElementOfSeq, LenProperties DEF OwnWrites, MoveRow
    <3>3. home'[p] \in {request[t].writes[i].plan, home[p]}
      BY <2>2 DEF CommitMove
    <3>. QED BY <3>2, <3>3 DEF Write
  <2>. QED BY <2>1, <2>2
<1>4. home' \in [Project -> Plan \cup {NoPlan}]
  <2>1. home' = [p \in Project |-> home'[p]]
    BY DEF CommitMove
  <2>2. \A p \in Project : home'[p] \in Plan \cup {NoPlan}
    BY <1>3 DEF TypeOK
  <2>. QED BY <2>1, <2>2
<1>5. request' = [request EXCEPT ![t] = Idle] /\ UNCHANGED <<plan, isBooked, draft, printed>>
  BY DEF CommitMove
<1>. QED BY <1>2, <1>3, <1>4, <1>5, CloseTyped DEF TypeOK

(* The rows a cascade leaves: a project keeps its rows, or its latest one is *)
(* superseded by a Ready row.                                                *)
CascadeOf(p, at) ==
  rows'[p] = rows[p] \/ \E row \in LatestRows(p) : rows'[p] = Reset(p, row, at)

LEMMA CascadeRows ==
  ASSUME NEW b, NEW keep, NEW at, Cascade(b, keep, at)
  PROVE  /\ rows' = [p \in Project |-> rows'[p]]
         /\ \A p \in Project : CascadeOf(p, at)
<1> DEFINE hit == {p \in Members(b) : plan[b].live /\
                    \E row \in LatestRows(p) : row.status \notin keep}
<1>1. PICK pick \in [hit -> UNION {LatestRows(p) : p \in hit}] :
        /\ \A p \in hit : pick[p] \in LatestRows(p)
        /\ rows' = [p \in Project |->
                      IF p \in hit /\ pick[p].status \notin keep
                      THEN Reset(p, pick[p], at) ELSE rows[p]]
  BY DEF Cascade
<1> HIDE DEF hit
<1>2. ASSUME NEW p \in Project PROVE CascadeOf(p, at)
  <2>1. CASE p \in hit /\ pick[p].status \notin keep
    BY <1>1, <2>1 DEF CascadeOf
  <2>2. CASE ~ (p \in hit /\ pick[p].status \notin keep)
    BY <1>1, <2>2 DEF CascadeOf
  <2>. QED BY <2>1, <2>2
<1>3. rows' = [p \in Project |-> rows'[p]]
  BY <1>1
<1>. QED BY <1>2, <1>3

LEMMA CascadeTyped ==
  ASSUME TypeOK, NEW b, NEW keep, NEW at \in Stamp, Cascade(b, keep, at)
  PROVE  rows' \in [Project -> SUBSET Row]
<1>1. ASSUME NEW p \in Project PROVE rows'[p] \in SUBSET Row
  <2>1. ASSUME NEW row \in LatestRows(p), rows'[p] = Reset(p, row, at)
        PROVE  rows'[p] \in SUBSET Row
    <3>1. row \in Row /\ rows[p] \subseteq Row
      BY DEF LatestRows, TypeOK
    <3>2. [row EXCEPT !.latest = FALSE] \in Row
      BY <3>1 DEF Row
    <3>3. [at |-> at, item |-> 1, status |-> "Ready", latest |-> TRUE] \in Row
      BY DEF Row, Stamp, Status
    <3>. QED BY <2>1, <3>1, <3>2, <3>3 DEF Reset
  <2>. QED BY <2>1, CascadeRows DEF CascadeOf, TypeOK
<1>2. rows' = [p \in Project |-> rows'[p]]
  BY CascadeRows
<1>. QED BY <1>1, <1>2

(* The other commits.                                                        *)
LEMMA CommitTyped ==
  ASSUME TypeOK, NEW t \in Request,
         \/ CommitAuthor(t) \/ CommitRollback(t) \/ CommitMerge(t)
         \/ CommitOutAuthority(t) \/ CommitCancel(t) \/ Abort(t)
  PROVE  TypeOK' /\ (\A p \in Project : Authored(p) => Authored(p)')
<1> DEFINE req == request[t]
<1>1. /\ request' \in [Request -> RequestRow]
      /\ \A u \in Request : InStep(u, "flip")' =>
           request'[u].todo # <<>> /\ request'[u].writes # <<>>
  BY CloseTyped DEF CommitAuthor, CommitRollback, CommitMerge, CommitOutAuthority,
                    CommitCancel, Abort
<1>2. req \in RequestRow
  BY DEF TypeOK
<1>3. CASE CommitAuthor(t)
  <2>1. req \in AuthorRow
    BY <1>2, <1>3, RequestFields DEF CommitAuthor
  <2>2. {[at |-> req.at, item |-> 1, status |-> "Ready", latest |-> TRUE]} \in SUBSET Row
    BY <2>1 DEF AuthorRow, Stamp, Row, Status
  <2>3. rows' \in [Project -> SUBSET Row]
    BY <1>3, <2>1, <2>2 DEF CommitAuthor, TypeOK, AuthorRow
  <2>4. home' \in [Project -> Plan \cup {NoPlan}]
    BY <1>3, <2>1 DEF CommitAuthor, TypeOK, AuthorRow
  <2>5. \A p \in Project : Authored(p) => Authored(p)'
    BY <1>3, <2>1, WorkflowAssumption DEF CommitAuthor, TypeOK, AuthorRow, Authored
  <2>. QED BY <1>1, <1>3, <2>3, <2>4, <2>5 DEF CommitAuthor, TypeOK
<1>4. CASE CommitRollback(t)
  <2>1. req \in RollbackRow
    BY <1>2, <1>4, RequestFields DEF CommitRollback
  <2> DEFINE p == req.project
             left == {[row EXCEPT !.latest = @ \/ Id(row) = req.prev] :
                        row \in {r \in rows[p] : Id(r) # req.cur}}
  <2>2. ASSUME NEW row \in rows[p]
        PROVE  [row EXCEPT !.latest = @ \/ Id(row) = req.prev] \in Row
    <3>1. row \in Row
      BY <2>1 DEF TypeOK, RollbackRow
    <3>2. (row.latest \/ Id(row) = req.prev) \in BOOLEAN
      BY Zenon
    <3>. QED BY <3>1, <3>2 DEF Row
  <2>3. left \in SUBSET Row
    BY <2>2
  <2>4. rows' = [rows EXCEPT ![p] = left]
    BY <1>4 DEF CommitRollback
  <2>5. rows' \in [Project -> SUBSET Row]
    <3> HIDE DEF left
    <3>. QED BY <2>3, <2>4 DEF TypeOK
  <2>. QED BY <1>1, <1>4, <2>5 DEF CommitRollback, TypeOK, Authored
<1>5. CASE CommitMerge(t)
  <2>1. req.book \in Plan /\ req.list \subseteq Project /\ req.at \in Stamp
    BY <1>2, <1>5, RequestFields DEF CommitMerge
  <2>2. rows' \in [Project -> SUBSET Row]
    BY <1>5, <2>1, CascadeTyped DEF CommitMerge
  <2>3. isBooked' \in [Project -> BOOLEAN]
    <3>1. \A p \in Project : (isBooked[p] \/ p \in req.list) \in BOOLEAN
      BY Zenon
    <3>2. isBooked' = [p \in Project |-> isBooked[p] \/ p \in req.list]
      BY <1>5 DEF CommitMerge
    <3>. QED BY <3>1, <3>2
  <2>4. plan' \in [Plan -> PlanRow] /\ printed' \in [Plan -> SUBSET Project]
          /\ draft' \in [Plan -> SUBSET Project]
    BY <1>5, <2>1 DEF CommitMerge, TypeOK, PlanRow
  <2>5. home' = home
    BY <1>5 DEF CommitMerge
  <2>. QED BY <1>1, <2>2, <2>3, <2>4, <2>5 DEF TypeOK, Authored
<1>6. CASE CommitOutAuthority(t)
  <2>1. req.book \in Plan /\ req.list \subseteq Project
    BY <1>2, <1>6, RequestFields DEF CommitOutAuthority
  <2>2. NewStamp \in Stamp
    BY <1>6, NewStampTyped, WorkflowAssumption DEF CommitOutAuthority, Stamp
  <2>3. rows' \in [Project -> SUBSET Row]
    BY <1>6, <2>1, <2>2, CascadeTyped DEF CommitOutAuthority
  <2>4. isBooked' \in [Project -> BOOLEAN]
    <3>1. \A p \in Project : (isBooked[p] \/ p \in req.list) \in BOOLEAN
      BY Zenon
    <3>2. isBooked' = [p \in Project |-> isBooked[p] \/ p \in req.list]
      BY <1>6 DEF CommitOutAuthority
    <3>. QED BY <3>1, <3>2
  <2>. QED BY <1>1, <1>6, <2>3, <2>4 DEF CommitOutAuthority, TypeOK, Authored
<1>7. CASE CommitCancel(t)
  <2> DEFINE b == req.book
             others == {q \in Plan \ {b} : plan[q].live}
  <2>1. b \in Plan /\ req.read \in PlanRow /\ req.at \in Stamp
    BY <1>2, <1>7, RequestFields DEF CommitCancel
  <2>2. rows' \in [Project -> SUBSET Row]
    BY <1>7, <2>1, CascadeTyped DEF CommitCancel
  <2>3. PICK next : plan' = [q \in Plan |->
               CASE q = b -> [req.read EXCEPT !.live = FALSE, !.latest = FALSE,
                                          !.open = plan[b].open]
                 [] q = next /\ req.read.latest -> [plan[q] EXCEPT !.latest = TRUE]
                 [] OTHER -> plan[q]]
    BY <1>7 DEF CommitCancel
  <2>4. ASSUME NEW q \in Plan PROVE plan'[q] \in PlanRow
    <3>1. plan[q] \in PlanRow /\ plan[b] \in PlanRow
      BY <2>1 DEF TypeOK
    <3>2. CASE q = b
      BY <2>1, <2>3, <3>1, <3>2 DEF PlanRow
    <3>3. CASE q # b /\ q = next /\ req.read.latest
      BY <2>3, <3>1, <3>3 DEF PlanRow
    <3>4. CASE q # b /\ ~ (q = next /\ req.read.latest)
      BY <2>3, <3>1, <3>4
    <3>. QED BY <3>2, <3>3, <3>4
  <2>5. plan' \in [Plan -> PlanRow]
    BY <2>3, <2>4
  <2>. QED BY <1>1, <1>7, <2>2, <2>5 DEF CommitCancel, TypeOK, Authored
<1>8. CASE Abort(t)
  BY <1>1, <1>8 DEF Abort, TypeOK, Authored
<1>. QED BY <1>3, <1>4, <1>5, <1>6, <1>7, <1>8

(* The steps of the plan and its book.                                       *)
LEMMA PlanStepTyped ==
  ASSUME TypeOK, NEW b \in Plan,
         \/ GeneratePart3(b) \/ CorrectProjects(b)
         \/ SetPhase(b) \/ SetLatest(b) \/ CreatePlan(b) \/ RestorePlan(b)
  PROVE  TypeOK' /\ UNCHANGED <<home, rows, request>>
<1>1. UNCHANGED <<home, rows, request>>
  BY DEF GeneratePart3, CorrectProjects, SetPhase, SetLatest, CreatePlan, RestorePlan
<1>2. CASE GeneratePart3(b)
  BY <1>1, <1>2 DEF GeneratePart3, TypeOK, Printable, Members, InStep
<1>3. CASE CorrectProjects(b)
  <2>1. isBooked' = [p \in Project |-> isBooked[p] /\ p \notin printed[b]]
    BY <1>3 DEF CorrectProjects
  <2>2. \A p \in Project : (isBooked[p] /\ p \notin printed[b]) \in BOOLEAN
    BY Zenon
  <2>3. isBooked' \in [Project -> BOOLEAN]
    BY <2>1, <2>2
  <2>. QED BY <1>1, <1>3, <2>3 DEF CorrectProjects, TypeOK, PlanRow, InStep
<1>4. CASE SetPhase(b)
  <2>1. (~ plan[b].open) \in BOOLEAN
    BY Zenon
  <2>2. plan' \in [Plan -> PlanRow]
    BY <1>4, <2>1 DEF SetPhase, TypeOK, PlanRow
  <2>. QED BY <1>1, <1>4, <2>2 DEF SetPhase, TypeOK, InStep
<1>5. CASE SetLatest(b)
  <2>1. PICK latest \in BOOLEAN : plan' = [q \in Plan |->
                 [plan[q] EXCEPT !.latest = IF q = b THEN latest
                                            ELSE @ /\ ~latest]]
    BY <1>5 DEF SetLatest
  <2>2. ASSUME NEW q \in Plan PROVE plan'[q] \in PlanRow
    <3>1. plan[q] \in PlanRow
      BY DEF TypeOK
    <3>2. (IF q = b THEN latest ELSE plan[q].latest /\ ~latest) \in BOOLEAN
      BY Zenon
    <3>. QED BY <2>1, <3>1, <3>2 DEF PlanRow
  <2>3. plan' \in [Plan -> PlanRow]
    BY <2>1, <2>2
  <2>. QED BY <1>1, <1>5, <2>3 DEF SetLatest, TypeOK, InStep
<1>6. CASE CreatePlan(b)
  BY <1>1, <1>6 DEF CreatePlan, TypeOK, PlanRow, InStep
<1>7. CASE RestorePlan(b)
  BY <1>1, <1>7 DEF RestorePlan, TypeOK, PlanRow, InStep
<1>. QED BY <1>1, <1>2, <1>3, <1>4, <1>5, <1>6, <1>7

-----------------------------------------------------------------------------
(* What the steps of a status change do to the request.                      *)
LEMMA LegalOutcome ==
  ASSUME NEW p, NEW kind \in MoveKinds, NEW seen, NEW o \in Outcomes(kind, p, seen)
  PROVE  LegalMove(seen, o[1])
<1>1. BulkMoves(seen) \subseteq StaffMoves(seen)
  BY DEF BulkMoves
<1>2. "Pending_Approval" \in StaffMoves("Verified")
  BY DEF StaffMoves
<1>. QED BY <1>1, <1>2 DEF Outcomes, LegalMove, MoveKinds

LEMMA CheckWrites ==
  ASSUME TypeOK, MovesAuthored, NEW t \in Request, Check(t)
  PROVE  LET req == request[t]
             p == Head(req.todo)
         IN \E w \in [project : Project, to : Status, plan : Plan, flips : {{}}] :
              /\ w.project = p /\ Authored(p)
              /\ \E seen \in SeenStatus(t, p) : LegalMove(seen, w.to)
              /\ req \in MoveRow
              /\ request' = [request EXCEPT ![t] =
                   [req EXCEPT !.step = "flip", !.writes = Append(@, w)]]
<1> DEFINE req == request[t]
           p == Head(req.todo)
<1>1. req \in MoveRow /\ req.todo # <<>> /\ req.kind \in MoveKinds
  BY RequestFields DEF Check, InStep, TypeOK
<1>2. p \in Project /\ Authored(p)
  <2>1. 1 \in DOMAIN req.todo /\ p = req.todo[1]
    BY <1>1, HeadTailProperties, LenProperties, EmptySeq DEF MoveRow
  <2>2. p \in Project
    BY <1>1, HeadTailProperties DEF MoveRow
  <2>. QED BY <1>1, <2>1, <2>2 DEF MovesAuthored
<1>3. PICK seen \in SeenStatus(t, p) : \E o \in Outcomes(req.kind, p, seen) :
        request' = [request EXCEPT
          ![t].step = "flip",
          ![t].writes = Append(@, [project |-> p, to |-> o[1], plan |-> o[2],
                                   flips |-> {}])]
  BY DEF Check
<1>4. PICK o \in Outcomes(req.kind, p, seen) :
        request' = [request EXCEPT
          ![t].step = "flip",
          ![t].writes = Append(@, [project |-> p, to |-> o[1], plan |-> o[2],
                                   flips |-> {}])]
  BY <1>3
<1> DEFINE w == [project |-> p, to |-> o[1], plan |-> o[2], flips |-> {}]
<1>5. o[1] \in Status /\ o[2] \in Plan /\ LegalMove(seen, o[1])
  BY <1>1, <1>2, OutcomesTyped, LegalOutcome
<1>6. w \in [project : Project, to : Status, plan : Plan, flips : {{}}]
  BY <1>2, <1>5
<1>7. request' = [request EXCEPT ![t] =
        [req EXCEPT !.step = "flip", !.writes = Append(@, w)]]
  BY <1>4, <1>1 DEF TypeOK
<1>. QED BY <1>1, <1>2, <1>5, <1>6, <1>7

(* Skip and Flip shorten the list and write nothing new.                     *)
LEMMA OtherStepsWrite ==
  ASSUME TypeOK, NEW t \in Request, Skip(t) \/ Flip(t)
  PROVE  LET req == request[t] IN
         /\ req \in MoveRow /\ req.todo # <<>>
         /\ request' = [request EXCEPT ![t] = request'[t]]
         /\ request'[t].kind = req.kind
         /\ request'[t].todo = Tail(req.todo)
         /\ DOMAIN request'[t].writes = DOMAIN req.writes
         /\ \A i \in DOMAIN req.writes :
              /\ request'[t].writes[i].project = req.writes[i].project
              /\ request'[t].writes[i].to = req.writes[i].to
<1> DEFINE req == request[t]
<1>1. req \in MoveRow /\ req.todo # <<>>
  BY RequestFields DEF Skip, Flip, InStep, TypeOK
<1>2. CASE Skip(t)
  BY <1>1, <1>2 DEF Skip, TypeOK, MoveRow
<1>3. CASE Flip(t)
  <2> DEFINE n == Len(req.writes)
             seen == {Id(row) : row \in rows[Head(req.todo)]}
  <2>1. request' = [request EXCEPT ![t].step = "check", ![t].todo = Tail(@),
                                   ![t].writes[n].flips = seen]
    BY <1>3 DEF Flip
  <2> HIDE DEF seen
  <2>2. req.writes \in Seq(Write)
    BY <1>1 DEF MoveRow
  <2>3. /\ request'[t].writes = [req.writes EXCEPT ![n].flips = seen]
        /\ request'[t].kind = req.kind /\ request'[t].todo = Tail(req.todo)
    BY <1>1, <2>1 DEF TypeOK, MoveRow
  <2>4. \A i \in DOMAIN req.writes : req.writes[i] \in Write
    BY <2>2, ElementOfSeq, LenProperties
  <2>5. \A i \in DOMAIN req.writes :
          /\ request'[t].writes[i].project = req.writes[i].project
          /\ request'[t].writes[i].to = req.writes[i].to
    BY <2>3, <2>4 DEF Write
  <2>6. request' = [request EXCEPT ![t] = request'[t]]
    BY <2>1 DEF TypeOK
  <2>7. DOMAIN request'[t].writes = DOMAIN req.writes
    BY <2>3
  <2>. QED BY <1>1, <2>3, <2>5, <2>6, <2>7
<1>. QED BY <1>2, <1>3

(* Status changes go on being about projects that exist.                     *)
LEMMA MovesFrame ==
  ASSUME TypeOK, MovesAuthored, \A p \in Project : Authored(p) => Authored(p)',
         NEW t \in Request, NEW q, request' = [request EXCEPT ![t] = q],
         q.kind \in MoveKinds =>
           /\ \A i \in DOMAIN q.todo : q.todo[i] \in Project /\ Authored(q.todo[i])
           /\ \A i \in DOMAIN q.writes :
                q.writes[i].project \in Project /\ Authored(q.writes[i].project)
  PROVE  MovesAuthored'
<1>1. ASSUME NEW u \in Request, request'[u].kind \in MoveKinds
      PROVE  /\ \A i \in DOMAIN request'[u].todo : home'[request'[u].todo[i]] # NoPlan
             /\ \A i \in DOMAIN request'[u].writes :
                  home'[request'[u].writes[i].project] # NoPlan
  <2>1. CASE u = t
    <3>1. request'[u] = q
      BY <2>1 DEF TypeOK
    <3>. QED BY <1>1, <3>1 DEF Authored
  <2>2. CASE u # t
    <3>1. request'[u] = request[u]
      BY <2>2 DEF TypeOK
    <3>2. request[u] \in MoveRow
      BY <1>1, <3>1, RequestFields DEF TypeOK
    <3>3. \A i \in DOMAIN request[u].todo : request[u].todo[i] \in Project
      BY <3>2, ElementOfSeq, LenProperties DEF MoveRow
    <3>4. \A i \in DOMAIN request[u].writes : request[u].writes[i].project \in Project
      <4>1. \A i \in DOMAIN request[u].writes : request[u].writes[i] \in Write
        BY <3>2, ElementOfSeq, LenProperties DEF MoveRow
      <4>. QED BY <4>1 DEF Write
    <3>. QED BY <1>1, <3>1, <3>3, <3>4 DEF MovesAuthored, Authored
  <2>. QED BY <2>1, <2>2
<1>. QED BY <1>1 DEF MovesAuthored, Authored

LEMMA MovesAuthoredNext ==
  ASSUME TypeOK, MovesAuthored, Next
  PROVE  /\ TypeOK' /\ MovesAuthored'
         /\ \A p \in Project : Authored(p) => Authored(p)'
<1>1. CASE \E b \in Plan :
             \/ GeneratePart3(b) \/ CorrectProjects(b)
             \/ SetPhase(b) \/ SetLatest(b) \/ CreatePlan(b) \/ RestorePlan(b)
  <2>1. TypeOK' /\ UNCHANGED <<home, rows, request>>
    BY <1>1, PlanStepTyped
  <2>. QED BY <2>1 DEF MovesAuthored, Authored
<1>2. ASSUME NEW t \in Request,
             \/ BeginAuthor(t) \/ BeginMove(t) \/ BeginRollback(t)
             \/ BeginMerge(t) \/ BeginOutAuthority(t) \/ BeginCancel(t)
      PROVE  TypeOK' /\ MovesAuthored' /\ \A p \in Project : Authored(p) => Authored(p)'
  <2>1. TypeOK'
    BY <1>2, BeginTyped
  <2>2. home' = home
    BY <1>2 DEF BeginAuthor, BeginMove, BeginRollback, BeginMerge, BeginOutAuthority,
                BeginCancel, Open
  <2>3. \A p \in Project : Authored(p) => Authored(p)'
    BY <2>2 DEF Authored
  <2>4. CASE BeginMove(t)
    <3>1. PICK kind \in MoveKinds : \E batch \in Lists(kind) :
            /\ \A i \in DOMAIN batch : Authored(batch[i])
            /\ Open(t, [kind |-> kind, step |-> "check", todo |-> batch,
                        writes |-> <<>>, at |-> NewStamp])
      BY <2>4 DEF BeginMove
    <3>2. PICK batch \in Lists(kind) :
            /\ \A i \in DOMAIN batch : Authored(batch[i])
            /\ Open(t, [kind |-> kind, step |-> "check", todo |-> batch,
                        writes |-> <<>>, at |-> NewStamp])
      BY <3>1
    <3> DEFINE q == [kind |-> kind, step |-> "check", todo |-> batch,
                     writes |-> <<>>, at |-> NewStamp]
    <3> HIDE DEF NewStamp
    <3>3. request' = [request EXCEPT ![t] = q]
      BY <3>2 DEF Open
    <3>4. request'[t] = q /\ q \in MoveRow
      <4>1. request'[t] = q
        BY <3>3 DEF TypeOK
      <4>2. q.kind \in MoveKinds
        OBVIOUS
      <4>. QED BY <2>1, <4>1, <4>2, RequestFields DEF TypeOK
    <3>5. \A i \in DOMAIN batch : batch[i] \in Project
      <4>1. batch \in Seq(Project)
        BY <3>4 DEF MoveRow
      <4>. QED BY <4>1, ElementOfSeq, LenProperties
    <3>6. q.todo = batch /\ DOMAIN q.writes = {}
      OBVIOUS
    <3>7. q.kind \in MoveKinds =>
            /\ \A i \in DOMAIN q.todo : q.todo[i] \in Project /\ Authored(q.todo[i])
            /\ \A i \in DOMAIN q.writes :
                 q.writes[i].project \in Project /\ Authored(q.writes[i].project)
      BY <3>2, <3>5, <3>6
    <3> HIDE DEF q
    <3>. QED BY <2>1, <2>3, <3>3, <3>7, MovesFrame
  <2>5. CASE ~ BeginMove(t)
    <3>1. PICK q : q.kind \notin MoveKinds /\ Open(t, q)
      BY <1>2, <2>5 DEF BeginAuthor, BeginRollback, BeginMerge, BeginOutAuthority,
                        BeginCancel, MoveKinds
    <3>2. request' = [request EXCEPT ![t] = q]
      BY <3>1 DEF Open
    <3>. QED BY <2>1, <2>3, <3>1, <3>2, MovesFrame
  <2>. QED BY <2>4, <2>5
<1>3. ASSUME NEW t \in Request, Check(t) \/ Skip(t) \/ Flip(t)
      PROVE  TypeOK' /\ MovesAuthored' /\ \A p \in Project : Authored(p) => Authored(p)'
  <2> DEFINE req == request[t]
  <2>1. TypeOK' /\ home' = home
    BY <1>3, StepTyped DEF Check, Skip, Flip
  <2>2. \A p \in Project : Authored(p) => Authored(p)'
    BY <2>1 DEF Authored
  <2>3. req \in MoveRow /\ req.kind \in MoveKinds
    BY <1>3, RequestFields DEF Check, Skip, Flip, InStep, TypeOK
  <2>4. /\ \A i \in DOMAIN req.todo : req.todo[i] \in Project /\ Authored(req.todo[i])
        /\ \A i \in DOMAIN req.writes :
             req.writes[i].project \in Project /\ Authored(req.writes[i].project)
    <3>1. \A i \in DOMAIN req.todo : req.todo[i] \in Project
      BY <2>3, ElementOfSeq, LenProperties DEF MoveRow
    <3>2. \A i \in DOMAIN req.writes : req.writes[i] \in Write
      BY <2>3, ElementOfSeq, LenProperties DEF MoveRow
    <3>. QED BY <2>3, <3>1, <3>2 DEF MovesAuthored, Write
  <2>5. CASE Check(t)
    <3>1. PICK w \in [project : Project, to : Status, plan : Plan, flips : {{}}] :
            /\ w.project = Head(req.todo) /\ Authored(w.project)
            /\ request' = [request EXCEPT ![t] =
                 [req EXCEPT !.step = "flip", !.writes = Append(@, w)]]
      BY <2>5, CheckWrites
    <3> DEFINE q == [req EXCEPT !.step = "flip", !.writes = Append(@, w)]
    <3>2. q.todo = req.todo /\ q.writes = Append(req.writes, w)
      BY <2>3 DEF MoveRow
    <3>3. \A i \in DOMAIN q.writes : q.writes[i] = w \/
            (i \in DOMAIN req.writes /\ q.writes[i] = req.writes[i])
      BY <2>3, <3>2 DEF MoveRow
    <3>4. \A i \in DOMAIN q.writes :
            q.writes[i].project \in Project /\ Authored(q.writes[i].project)
      BY <2>4, <3>1, <3>3
    <3>. QED BY <2>1, <2>2, <2>4, <3>1, <3>2, <3>4, MovesFrame
  <2>6. CASE Skip(t) \/ Flip(t)
    <3>1. PICK q : q = request'[t]
      OBVIOUS
    <3>2. /\ req.todo # <<>>
          /\ request' = [request EXCEPT ![t] = q]
          /\ q.todo = Tail(req.todo)
          /\ DOMAIN q.writes = DOMAIN req.writes
          /\ \A i \in DOMAIN req.writes : q.writes[i].project = req.writes[i].project
      BY <2>6, <3>1, OtherStepsWrite
    <3>3. \A i \in DOMAIN q.todo : i + 1 \in DOMAIN req.todo /\ q.todo[i] = req.todo[i + 1]
      BY <2>3, <3>2 DEF MoveRow
    <3>. QED BY <2>1, <2>2, <2>4, <3>2, <3>3, MovesFrame
  <2>. QED BY <1>3, <2>5, <2>6
<1>4. ASSUME NEW t \in Request,
             \/ CommitMove(t) \/ CommitAuthor(t) \/ CommitRollback(t) \/ CommitMerge(t)
             \/ CommitOutAuthority(t) \/ CommitCancel(t) \/ Abort(t)
      PROVE  TypeOK' /\ MovesAuthored' /\ \A p \in Project : Authored(p) => Authored(p)'
  <2>1. TypeOK' /\ \A p \in Project : Authored(p) => Authored(p)'
    BY <1>4, CommitTyped, CommitMoveTyped, WorkflowAssumption DEF Authored
  <2>2. request' = [request EXCEPT ![t] = Idle]
    BY <1>4 DEF CommitMove, CommitAuthor, CommitRollback, CommitMerge,
                CommitOutAuthority, CommitCancel, Abort
  <2>. QED BY <2>1, <2>2, IdleTyped, MovesFrame
<1>. QED BY <1>1, <1>2, <1>3, <1>4 DEF Next

LEMMA TypeInit == Init => TypeOK /\ MovesAuthored
<1> SUFFICES ASSUME Init PROVE TypeOK /\ MovesAuthored
  OBVIOUS
<1>1. PICK b \in Plan :
        plan = [q \in Plan |-> [live |-> q = b, latest |-> q = b,
                                booked |-> FALSE, open |-> q = b]]
  BY DEF Init
<1>2. plan \in [Plan -> PlanRow]
  <2>1. \A q \in Plan : (q = b) \in BOOLEAN
    BY Zenon
  <2>2. \A q \in Plan : plan[q] \in PlanRow
    BY <1>1, <2>1 DEF PlanRow
  <2>. QED BY <1>1, <2>2
<1>3. \A t \in Request : request[t] = Idle
  BY DEF Init
<1>4. request \in [Request -> RequestRow]
  BY IdleTyped DEF Init
<1>. QED BY <1>2, <1>3, <1>4, IdleTyped DEF Init, TypeOK, MovesAuthored, InStep

(* The columns of plans, projects and audit rows keep their types, and a     *)
(* request always knows what it is about to write, for any number of         *)
(* projects, plans, requests and transactions.                               *)
THEOREM WorkflowTypeCorrect == Spec => []TypeOK
<1> DEFINE Typed == TypeOK /\ MovesAuthored
<1>1. Init => Typed
  BY TypeInit
<1>2. Typed /\ [Next]_vars => Typed'
  <2>1. CASE Next
    BY <2>1, MovesAuthoredNext
  <2>2. CASE UNCHANGED vars
    BY <2>2 DEF vars, TypeOK, MovesAuthored, InStep, Authored
  <2>. QED BY <2>1, <2>2
<1>3. Typed => TypeOK
  OBVIOUS
<1>. QED BY <1>1, <1>2, <1>3, PTL DEF Spec

-----------------------------------------------------------------------------
(* What a step that only adds rows, or clears isLatest, does to a project.   *)
StatusesKept(p) == \A r \in rows[p] : \E s \in rows'[p] : s.status = r.status

RowsFollow(p) ==
  \A s \in rows'[p] :
    \/ s.status = "Ready"
    \/ \E r \in rows[p] : r.status = s.status
    \/ \E r \in rows'[p] : LegalMove(r.status, s.status)

HistoryGrows ==
  \A p \in Project :
    /\ StatusesKept(p) /\ RowsFollow(p)
    /\ Authored(p)' => Authored(p)
    /\ LatestRows(p) # {} => LatestRows(p)' # {}

LEMMA MovesChange ==
  ASSUME NEW from, NEW to, LegalMove(from, to), to # "Ready"
  PROVE  from # to
<1>1. from \notin OwnerMoves(from)
  BY DEF OwnerMoves
<1>2. from \notin StaffMoves(from)
  BY DEF StaffMoves
<1>. QED BY <1>1, <1>2 DEF LegalMove

(* Such a step skips no stage and leaves every project a status.             *)
LEMMA HistoryKept ==
  ASSUME HistoryGrows, NoStageSkipped, NeverWithoutStatus
  PROVE  NoStageSkipped' /\ NeverWithoutStatus'
<1>1. ASSUME NEW p \in Project, NEW s \in rows'[p], s.status # "Ready"
      PROVE  \E r \in rows'[p] : r # s /\ LegalMove(r.status, s.status)
  <2>1. SUFFICES \E r \in rows'[p] : LegalMove(r.status, s.status)
    BY <1>1, MovesChange
  <2>2. ASSUME NEW old \in rows[p], old.status = s.status
        PROVE  \E r \in rows'[p] : LegalMove(r.status, s.status)
    <3>1. PICK r \in rows[p] : LegalMove(r.status, s.status)
      BY <1>1, <2>2 DEF NoStageSkipped
    <3>2. \E q \in rows'[p] : q.status = r.status
      BY DEF HistoryGrows, StatusesKept
    <3>. QED BY <3>1, <3>2
  <2>. QED BY <1>1, <2>2 DEF HistoryGrows, RowsFollow
<1>2. ASSUME NEW p \in Project, Authored(p)'
      PROVE  LatestRows(p)' # {} /\ \E row \in rows'[p] : row.status = "Ready"
  <2>1. Authored(p)
    BY <1>2 DEF HistoryGrows
  <2>2. LatestRows(p) # {} /\ \E row \in rows[p] : row.status = "Ready"
    BY <2>1 DEF NeverWithoutStatus
  <2>. QED BY <2>2 DEF HistoryGrows, StatusesKept
<1>. QED BY <1>1, <1>2 DEF NoStageSkipped, NeverWithoutStatus

(* Rows left alone.                                                          *)
LEMMA UnchangedGrows == UNCHANGED <<home, rows>> => HistoryGrows
BY DEF HistoryGrows, StatusesKept, RowsFollow, Authored, LatestRows

(* A cascade supersedes a row by a Ready row.                                *)
LEMMA CascadeGrows ==
  ASSUME TypeOK, NEW b, NEW keep, NEW at, Cascade(b, keep, at), UNCHANGED home
  PROVE  HistoryGrows
<1>1. ASSUME NEW p \in Project
      PROVE  StatusesKept(p) /\ RowsFollow(p) /\ (LatestRows(p) # {} => LatestRows(p)' # {})
  <2>1. CASE rows'[p] = rows[p]
    BY <2>1 DEF StatusesKept, RowsFollow, LatestRows
  <2>2. ASSUME NEW row \in LatestRows(p), rows'[p] = Reset(p, row, at)
        PROVE  StatusesKept(p) /\ RowsFollow(p) /\ LatestRows(p)' # {}
    <3> DEFINE old == [row EXCEPT !.latest = FALSE]
               new == [at |-> at, item |-> 1, status |-> "Ready", latest |-> TRUE]
    <3>1. row \in rows[p] /\ row \in Row
      BY DEF LatestRows, TypeOK
    <3>2. old.status = row.status /\ new.status = "Ready" /\ new.latest
      BY <3>1 DEF Row
    <3>3. rows'[p] = (rows[p] \ {row}) \cup {old, new}
      BY <2>2 DEF Reset
    <3> HIDE DEF old, new
    <3>. QED BY <3>1, <3>2, <3>3 DEF StatusesKept, RowsFollow, LatestRows
  <2>. QED BY <2>1, <2>2, CascadeRows DEF CascadeOf
<1>. QED BY <1>1 DEF HistoryGrows, Authored

(* A status change that commits.                                             *)
LEMMA MoveGrows ==
  ASSUME TypeOK, MovesAuthored, WritesFollow, NEW t \in Request, CommitMove(t)
  PROVE  HistoryGrows
<1> DEFINE req == request[t]
           w == req.writes
<1>1. req \in MoveRow /\ req.kind \in MoveKinds /\ w \in Seq(Write)
  BY RequestFields DEF CommitMove, InStep, TypeOK, MoveRow
<1>2. ASSUME NEW p \in Project
      PROVE  StatusesKept(p) /\ RowsFollow(p) /\ (LatestRows(p) # {} => LatestRows(p)' # {})
  <2> DEFINE own == OwnWrites(t, p)
             touched == UNION {w[i].flips : i \in own}
             Old(row) == [row EXCEPT !.latest = @ /\ Id(row) \notin touched]
             New(i) == [at |-> req.at, item |-> i, status |-> w[i].to,
                        latest |-> \A j \in own : j <= i]
  <2>1. own \subseteq 1..Len(w) /\ Len(w) \in Nat
    BY <1>1, LenProperties DEF OwnWrites
  <2>2. rows'[p] = {Old(row) : row \in rows[p]} \cup {New(i) : i \in own}
    BY DEF CommitMove, AfterMove
  <2>3. \A row \in rows[p] : Old(row).status = row.status
    BY DEF TypeOK, Row
  <2>4. \A i \in own : New(i).status = w[i].to
    OBVIOUS
  <2>5. ASSUME NEW i \in own
        PROVE  \E r \in rows'[p] : LegalMove(r.status, w[i].to)
    <3>1. i \in DOMAIN w /\ w[i].project = p
      BY DEF OwnWrites
    <3>2. Follows(w, p, i)
      BY <1>1, <3>1 DEF WritesFollow
    <3>3. CASE \E r \in rows[p] : LegalMove(r.status, w[i].to)
      <4> HIDE DEF Old, New
      <4>. QED BY <3>3, <2>2, <2>3
    <3>4. CASE \E j \in DOMAIN w : w[j].project = p /\ LegalMove(w[j].to, w[i].to)
      <4>1. PICK j \in own : LegalMove(w[j].to, w[i].to)
        BY <3>4 DEF OwnWrites
      <4> HIDE DEF Old, New
      <4>. QED BY <4>1, <2>2, <2>4
    <3>. QED BY <3>2, <3>3, <3>4 DEF Follows
  <2>6. StatusesKept(p) /\ RowsFollow(p)
    <3> HIDE DEF Old, New, own
    <3>. QED BY <2>2, <2>3, <2>4, <2>5 DEF StatusesKept, RowsFollow
  <2>7. ASSUME LatestRows(p) # {} PROVE LatestRows(p)' # {}
    <3>1. CASE own = {}
      <4>1. touched = {}
        BY <3>1
      <4>2. PICK row \in rows[p] : row.latest
        BY <2>7 DEF LatestRows
      <4>3. Old(row).latest
        <5>1. row \in Row
          BY DEF TypeOK
        <5>. QED BY <4>1, <4>2, <5>1 DEF Row
      <4>4. Old(row) \in rows'[p]
        BY <2>2
      <4>. QED BY <4>3, <4>4 DEF LatestRows
    <3>2. CASE own # {}
      <4>1. own \subseteq 0..Len(w)
        BY <2>1
      <4>2. PICK i \in own : \A j \in own : j <= i
        <5> HIDE DEF own
        <5>. QED BY <3>2, <4>1, <2>1, Greatest
      <4>3. New(i).latest
        BY <4>2
      <4>4. New(i) \in rows'[p]
        BY <2>2
      <4>. QED BY <4>3, <4>4 DEF LatestRows
    <3>. QED BY <3>1, <3>2
  <2>. QED BY <2>6, <2>7
<1>3. ASSUME NEW p \in Project, Authored(p)' PROVE Authored(p)
  <2>1. CASE OwnWrites(t, p) = {}
    BY <1>3, <2>1 DEF CommitMove, Authored
  <2>2. CASE OwnWrites(t, p) # {}
    BY <1>1, <2>2 DEF MovesAuthored, OwnWrites
  <2>. QED BY <2>1, <2>2
<1>. QED BY <1>2, <1>3 DEF HistoryGrows

(* A project that is inserted starts its history.                            *)
LEMMA AuthorStarts ==
  ASSUME TypeOK, NoStageSkipped, NeverWithoutStatus, NEW t \in Request, CommitAuthor(t)
  PROVE  /\ NoStageSkipped' /\ NeverWithoutStatus'
         /\ request[t].project \in Project
         /\ \A p \in Project \ {request[t].project} :
              rows'[p] = rows[p] /\ home'[p] = home[p]
<1> DEFINE mine == request[t].project
           new == [at |-> request[t].at, item |-> 1, status |-> "Ready", latest |-> TRUE]
<1>1. mine \in Project
  BY RequestFields DEF CommitAuthor, TypeOK, AuthorRow
<1>2. rows'[mine] = {new}
  BY <1>1 DEF CommitAuthor, TypeOK
<1>3. \A p \in Project \ {mine} : rows'[p] = rows[p] /\ home'[p] = home[p]
  BY <1>1 DEF CommitAuthor, TypeOK
<1>4. new.status = "Ready" /\ new.latest
  OBVIOUS
<1> HIDE DEF new, mine
<1>5. NoStageSkipped'
  BY <1>2, <1>3, <1>4 DEF NoStageSkipped
<1>6. NeverWithoutStatus'
  BY <1>2, <1>3, <1>4 DEF NeverWithoutStatus, LatestRows, Authored
<1>. QED BY <1>1, <1>3, <1>5, <1>6 DEF mine

(* What is about to be written follows what remains.                         *)
LEMMA FollowsKept ==
  ASSUME TypeOK, MovesAuthored, WritesFollow,
         \A p \in Project : Authored(p) => StatusesKept(p),
         NEW t \in Request, NEW q, request' = [request EXCEPT ![t] = q],
         q.kind \in MoveKinds => \A i \in DOMAIN q.writes :
           \/ \E r \in rows'[q.writes[i].project] : LegalMove(r.status, q.writes[i].to)
           \/ \E j \in DOMAIN q.writes :
                /\ q.writes[j].project = q.writes[i].project
                /\ LegalMove(q.writes[j].to, q.writes[i].to)
  PROVE  WritesFollow'
<1>1. ASSUME NEW u \in Request, request'[u].kind \in MoveKinds,
             NEW i \in DOMAIN request'[u].writes
      PROVE  \/ \E r \in rows'[request'[u].writes[i].project] :
                  LegalMove(r.status, request'[u].writes[i].to)
             \/ \E j \in DOMAIN request'[u].writes :
                  /\ request'[u].writes[j].project = request'[u].writes[i].project
                  /\ LegalMove(request'[u].writes[j].to, request'[u].writes[i].to)
  <2>1. CASE u = t
    <3>1. request'[u] = q
      BY <2>1 DEF TypeOK
    <3>. QED BY <1>1, <3>1
  <2>2. CASE u # t
    <3> DEFINE w == request[u].writes
               p == w[i].project
    <3>1. request'[u] = request[u]
      BY <2>2 DEF TypeOK
    <3>2. request[u] \in MoveRow
      BY <1>1, <3>1, RequestFields DEF TypeOK
    <3>3. p \in Project /\ Authored(p)
      <4>1. w[i] \in Write
        BY <1>1, <3>1, <3>2, ElementOfSeq, LenProperties DEF MoveRow
      <4>. QED BY <1>1, <3>1, <4>1 DEF MovesAuthored, Write
    <3>4. Follows(w, p, i)
      BY <1>1, <3>1 DEF WritesFollow
    <3>5. CASE \E r \in rows[p] : LegalMove(r.status, w[i].to)
      <4>1. \E r \in rows'[p] : LegalMove(r.status, w[i].to)
        BY <3>3, <3>5 DEF StatusesKept
      <4>. QED BY <3>1, <4>1
    <3>6. CASE \E j \in DOMAIN w : w[j].project = p /\ LegalMove(w[j].to, w[i].to)
      BY <3>1, <3>6
    <3>. QED BY <3>4, <3>5, <3>6 DEF Follows
  <2>. QED BY <2>1, <2>2
<1>. QED BY <1>1 DEF WritesFollow, Follows

LEMMA CheckFollows ==
  ASSUME TypeOK, MovesAuthored, WritesFollow, NEW t \in Request, Check(t)
  PROVE  WritesFollow'
<1> DEFINE req == request[t]
           old == req.writes
<1>1. PICK w \in [project : Project, to : Status, plan : Plan, flips : {{}}] :
        /\ w.project = Head(req.todo)
        /\ \E seen \in SeenStatus(t, Head(req.todo)) : LegalMove(seen, w.to)
        /\ req \in MoveRow
        /\ request' = [request EXCEPT ![t] =
             [req EXCEPT !.step = "flip", !.writes = Append(@, w)]]
  BY CheckWrites
<1> DEFINE q == [req EXCEPT !.step = "flip", !.writes = Append(@, w)]
           n == Len(old) + 1
<1>2. old \in Seq(Write) /\ req.kind \in MoveKinds
  BY <1>1 DEF MoveRow
<1>3. /\ q.writes = Append(old, w) /\ DOMAIN q.writes = 1..n /\ DOMAIN old = 1..Len(old)
      /\ q.writes[n] = w
      /\ \A i \in DOMAIN old : i \in DOMAIN q.writes /\ q.writes[i] = old[i]
      /\ n \in DOMAIN q.writes
  <2>1. q.writes = Append(old, w)
    BY <1>1 DEF MoveRow
  <2>. QED BY <1>2, <2>1
<1>4. rows' = rows
  BY DEF Check
<1> HIDE DEF q, n
<1>5. ASSUME NEW i \in DOMAIN q.writes
      PROVE  \/ \E r \in rows'[q.writes[i].project] : LegalMove(r.status, q.writes[i].to)
             \/ \E j \in DOMAIN q.writes :
                  /\ q.writes[j].project = q.writes[i].project
                  /\ LegalMove(q.writes[j].to, q.writes[i].to)
  <2>1. CASE i \in DOMAIN old
    <3>1. Follows(old, old[i].project, i)
      BY <1>2, <2>1 DEF WritesFollow
    <3>. QED BY <1>3, <1>4, <2>1, <3>1 DEF Follows
  <2>2. CASE i \notin DOMAIN old
    <3>1. i = n
      BY <1>2, <1>3, <2>2, LenProperties DEF n
    <3>2. PICK seen \in SeenStatus(t, w.project) : LegalMove(seen, w.to)
      BY <1>1
    <3>3. CASE OwnWrites(t, w.project) = {}
      <4>1. PICK r \in rows[w.project] : seen = r.status
        BY <3>2, <3>3 DEF SeenStatus, LatestRows
      <4>. QED BY <1>3, <1>4, <3>1, <3>2, <4>1
    <3>4. CASE OwnWrites(t, w.project) # {}
      <4>1. PICK j \in OwnWrites(t, w.project) : seen = old[j].to
        BY <3>2, <3>4 DEF SeenStatus
      <4>2. j \in DOMAIN old /\ old[j].project = w.project
        BY DEF OwnWrites
      <4>. QED BY <1>3, <3>1, <3>2, <4>1, <4>2
    <3>. QED BY <3>3, <3>4
  <2>. QED BY <2>1, <2>2
<1>6. \A p \in Project : Authored(p) => StatusesKept(p)
  BY <1>4 DEF StatusesKept
<1>7. request' = [request EXCEPT ![t] = q]
  BY <1>1 DEF q
<1>. QED BY <1>5, <1>6, <1>7, FollowsKept

(* Whose rows and plans a step leaves alone.                                 *)
LEMMA AuthorsFrame ==
  ASSUME TypeOK, AuthorsApart, NEW t \in Request, NEW q,
         request' = [request EXCEPT ![t] = q],
         q.kind = "author" =>
           /\ home'[q.project] = NoPlan
           /\ \A u \in Request \ {t} :
                request[u].kind = "author" => request[u].project # q.project,
         \A u \in Request \ {t} :
           request[u].kind = "author" => home'[request[u].project] = NoPlan
  PROVE  AuthorsApart'
<1>1. \A u \in Request \ {t} : request'[u] = request[u]
  BY DEF TypeOK
<1>2. request'[t] = q
  BY DEF TypeOK
<1>. QED BY <1>1, <1>2 DEF AuthorsApart, Authored

LEMMA AuthorsApartNext ==
  ASSUME TypeOK, MovesAuthored, AuthorsApart, Next
  PROVE  AuthorsApart'
<1>0. \A u \in Request : request[u].kind = "author" =>
        request[u].project \in Project /\ home[request[u].project] = NoPlan
  BY RequestFields DEF TypeOK, AuthorRow, AuthorsApart, Authored
<1>1. CASE \E b \in Plan :
             \/ GeneratePart3(b) \/ CorrectProjects(b)
             \/ SetPhase(b) \/ SetLatest(b) \/ CreatePlan(b) \/ RestorePlan(b)
  <2>1. UNCHANGED <<home, rows, request>>
    BY <1>1, PlanStepTyped
  <2>. QED BY <2>1 DEF AuthorsApart, Authored
<1>2. ASSUME NEW t \in Request, BeginAuthor(t) PROVE AuthorsApart'
  <2>1. PICK p \in Project, b \in Plan :
          /\ ~Authored(p)
          /\ \A u \in Request : request[u].kind = "author" => request[u].project # p
          /\ Open(t, [kind |-> "author", project |-> p, book |-> b, at |-> NewStamp])
    BY <1>2 DEF BeginAuthor
  <2> HIDE DEF NewStamp
  <2>2. /\ request' = [request EXCEPT ![t] =
             [kind |-> "author", project |-> p, book |-> b, at |-> NewStamp]]
        /\ home' = home
    BY <2>1 DEF Open
  <2>. QED BY <1>0, <2>1, <2>2, AuthorsFrame DEF Authored
<1>3. ASSUME NEW t \in Request,
             \/ BeginMove(t) \/ BeginRollback(t) \/ BeginMerge(t)
             \/ BeginOutAuthority(t) \/ BeginCancel(t)
      PROVE  AuthorsApart'
  <2>1. PICK q : q.kind # "author" /\ Open(t, q)
    BY <1>3 DEF BeginMove, BeginRollback, BeginMerge, BeginOutAuthority,
                BeginCancel, MoveKinds
  <2>2. request' = [request EXCEPT ![t] = q] /\ home' = home
    BY <2>1 DEF Open
  <2>. QED BY <1>0, <2>1, <2>2, AuthorsFrame
<1>4. ASSUME NEW t \in Request, Check(t) \/ Skip(t) \/ Flip(t) PROVE AuthorsApart'
  <2>1. request[t].kind \in MoveKinds /\ home' = home
    BY <1>4 DEF Check, Skip, Flip, InStep
  <2>2. PICK q : q.kind = request[t].kind /\ request' = [request EXCEPT ![t] = q]
    <3>1. CASE Check(t)
      <4>1. PICK w \in [project : Project, to : Status, plan : Plan, flips : {{}}] :
              /\ request[t] \in MoveRow
              /\ request' = [request EXCEPT ![t] =
                   [request[t] EXCEPT !.step = "flip", !.writes = Append(@, w)]]
        BY <3>1, CheckWrites
      <4>. QED BY <4>1 DEF MoveRow
    <3>2. CASE Skip(t) \/ Flip(t)
      BY <3>2, OtherStepsWrite
    <3>. QED BY <1>4, <3>1, <3>2
  <2>3. q.kind # "author"
    BY <2>1, <2>2 DEF MoveKinds
  <2>. QED BY <1>0, <2>1, <2>2, <2>3, AuthorsFrame
<1>5. ASSUME NEW t \in Request, CommitMove(t) PROVE AuthorsApart'
  <2>1. \A p \in Project : home[p] = NoPlan => home'[p] = NoPlan
    <3>1. ASSUME NEW p \in Project, home[p] = NoPlan PROVE OwnWrites(t, p) = {}
      BY <1>5, <3>1 DEF CommitMove, InStep, MovesAuthored, OwnWrites, Authored
    <3>. QED BY <1>5, <3>1 DEF CommitMove
  <2>2. request' = [request EXCEPT ![t] = Idle]
    BY <1>5 DEF CommitMove
  <2>. QED BY <1>0, <2>1, <2>2, IdleTyped, AuthorsFrame
<1>6. ASSUME NEW t \in Request, CommitAuthor(t) PROVE AuthorsApart'
  <2>1. request' = [request EXCEPT ![t] = Idle] /\ request[t].kind = "author"
          /\ home' = [home EXCEPT ![request[t].project] = request[t].book]
    BY <1>6 DEF CommitAuthor
  <2>2. \A u \in Request \ {t} :
          request[u].kind = "author" => home'[request[u].project] = NoPlan
    BY <1>0, <2>1 DEF AuthorsApart, TypeOK
  <2>. QED BY <2>1, <2>2, IdleTyped, AuthorsFrame
<1>7. ASSUME NEW t \in Request,
             \/ CommitRollback(t) \/ CommitMerge(t)
             \/ CommitOutAuthority(t) \/ CommitCancel(t) \/ Abort(t)
      PROVE  AuthorsApart'
  <2>1. request' = [request EXCEPT ![t] = Idle] /\ home' = home
    BY <1>7 DEF CommitRollback, CommitMerge, CommitOutAuthority, CommitCancel, Abort
  <2>. QED BY <1>0, <2>1, IdleTyped, AuthorsFrame
<1>. QED BY <1>1, <1>2, <1>3, <1>4, <1>5, <1>6, <1>7 DEF Next

(* Nothing that is rolled back is let in.                                    *)
LEMMA NothingRollsBackNext ==
  ASSUME TypeOK, MovesAuthored, NothingRollsBack, "rollback" \notin Kinds, Next
  PROVE  NothingRollsBack'
<1>0. ASSUME NEW t \in Request, NEW q, request' = [request EXCEPT ![t] = q],
             q.kind # "rollback"
      PROVE  NothingRollsBack'
  BY <1>0 DEF TypeOK, NothingRollsBack
<1>1. CASE \E b \in Plan :
             \/ GeneratePart3(b) \/ CorrectProjects(b)
             \/ SetPhase(b) \/ SetLatest(b) \/ CreatePlan(b) \/ RestorePlan(b)
  <2>1. UNCHANGED <<home, rows, request>>
    BY <1>1, PlanStepTyped
  <2>. QED BY <2>1 DEF NothingRollsBack
<1>2. ASSUME NEW t \in Request,
             \/ BeginAuthor(t) \/ BeginMove(t) \/ BeginRollback(t) \/ BeginMerge(t)
             \/ BeginOutAuthority(t) \/ BeginCancel(t)
      PROVE  NothingRollsBack'
  <2>1. PICK q : Open(t, q)
    BY <1>2 DEF BeginAuthor, BeginMove, BeginRollback, BeginMerge, BeginOutAuthority,
                BeginCancel
  <2>. QED BY <1>0, <2>1 DEF Open
<1>3. ASSUME NEW t \in Request, Check(t) \/ Skip(t) \/ Flip(t) PROVE NothingRollsBack'
  <2>1. request[t].kind # "rollback"
    BY DEF NothingRollsBack
  <2>2. CASE Check(t)
    <3>1. PICK w \in [project : Project, to : Status, plan : Plan, flips : {{}}] :
            /\ request[t] \in MoveRow
            /\ request' = [request EXCEPT ![t] =
                 [request[t] EXCEPT !.step = "flip", !.writes = Append(@, w)]]
      BY <2>2, CheckWrites
    <3> DEFINE q == [request[t] EXCEPT !.step = "flip", !.writes = Append(@, w)]
    <3>2. q.kind # "rollback"
      BY <2>1, <3>1 DEF MoveRow
    <3>. QED BY <1>0, <3>1, <3>2
  <2>3. CASE Skip(t) \/ Flip(t)
    <3>1. PICK q : q.kind = request[t].kind /\ request' = [request EXCEPT ![t] = q]
      BY <2>3, OtherStepsWrite
    <3>. QED BY <1>0, <2>1, <3>1
  <2>. QED BY <1>3, <2>2, <2>3
<1>4. ASSUME NEW t \in Request,
             \/ CommitMove(t) \/ CommitAuthor(t) \/ CommitRollback(t) \/ CommitMerge(t)
             \/ CommitOutAuthority(t) \/ CommitCancel(t) \/ Abort(t)
      PROVE  NothingRollsBack'
  <2>1. request' = [request EXCEPT ![t] = Idle]
    BY <1>4 DEF CommitMove, CommitAuthor, CommitRollback, CommitMerge,
                CommitOutAuthority, CommitCancel, Abort
  <2>. QED BY <1>0, <2>1, IdleTyped
<1>. QED BY <1>1, <1>2, <1>3, <1>4 DEF Next

-----------------------------------------------------------------------------
LEMMA HistoryNext ==
  ASSUME HistoryInvariant, "rollback" \notin Kinds, Next
  PROVE  HistoryInvariant'
<1> USE DEF HistoryInvariant
<1>1. TypeOK' /\ MovesAuthored' /\ AuthorsApart' /\ NothingRollsBack'
  BY MovesAuthoredNext, AuthorsApartNext, NothingRollsBackNext
<1>2. ASSUME HistoryGrows
      PROVE  /\ NoStageSkipped' /\ NeverWithoutStatus'
             /\ \A p \in Project : Authored(p) => StatusesKept(p)
  <2>1. NoStageSkipped' /\ NeverWithoutStatus'
    BY <1>2, HistoryKept
  <2>. QED BY <1>2, <2>1 DEF HistoryGrows
<1>3. CASE \E b \in Plan :
             \/ GeneratePart3(b) \/ CorrectProjects(b)
             \/ SetPhase(b) \/ SetLatest(b) \/ CreatePlan(b) \/ RestorePlan(b)
  <2>1. UNCHANGED <<home, rows, request>>
    BY <1>3, PlanStepTyped
  <2>2. WritesFollow'
    BY <2>1 DEF WritesFollow, Follows
  <2>. QED BY <1>1, <1>2, <2>1, <2>2, UnchangedGrows
<1>4. ASSUME NEW t \in Request,
             \/ BeginAuthor(t) \/ BeginMove(t) \/ BeginRollback(t) \/ BeginMerge(t)
             \/ BeginOutAuthority(t) \/ BeginCancel(t)
      PROVE  HistoryInvariant'
  <2>1. PICK q : /\ q.kind \in MoveKinds => DOMAIN q.writes = {}
                 /\ Open(t, q)
    <3>1. CASE BeginMove(t)
      <4> HIDE DEF NewStamp
      <4>1. PICK kind, batch : Open(t, [kind |-> kind, step |-> "check", todo |-> batch,
                                        writes |-> <<>>, at |-> NewStamp])
        BY <3>1 DEF BeginMove
      <4>. QED BY <4>1
    <3>2. CASE ~ BeginMove(t)
      BY <1>4, <3>2 DEF BeginAuthor, BeginRollback, BeginMerge, BeginOutAuthority,
                        BeginCancel, MoveKinds
    <3>. QED BY <3>1, <3>2
  <2>2. request' = [request EXCEPT ![t] = q] /\ UNCHANGED <<home, rows>>
    BY <2>1 DEF Open
  <2>3. HistoryGrows
    BY <2>2, UnchangedGrows
  <2>4. WritesFollow'
    BY <1>2, <2>1, <2>2, <2>3, FollowsKept
  <2>. QED BY <1>1, <1>2, <2>3, <2>4
<1>5. ASSUME NEW t \in Request, Check(t) \/ Skip(t) \/ Flip(t)
      PROVE  HistoryInvariant'
  <2>1. HistoryGrows
    BY <1>5, UnchangedGrows DEF Check, Skip, Flip
  <2>2. CASE Check(t)
    BY <1>1, <1>2, <2>1, <2>2, CheckFollows
  <2>3. CASE Skip(t) \/ Flip(t)
    <3> DEFINE old == request[t].writes
    <3>1. PICK q : q = request'[t]
      OBVIOUS
    <3>2. /\ request' = [request EXCEPT ![t] = q] /\ q.kind = request[t].kind
          /\ DOMAIN q.writes = DOMAIN old
          /\ \A i \in DOMAIN old : /\ q.writes[i].project = old[i].project
                                   /\ q.writes[i].to = old[i].to
      BY <2>3, <3>1, OtherStepsWrite
    <3>3. rows' = rows
      BY <2>3 DEF Skip, Flip
    <3>4. ASSUME q.kind \in MoveKinds, NEW i \in DOMAIN q.writes
          PROVE  \/ \E r \in rows'[q.writes[i].project] :
                      LegalMove(r.status, q.writes[i].to)
                 \/ \E j \in DOMAIN q.writes :
                      /\ q.writes[j].project = q.writes[i].project
                      /\ LegalMove(q.writes[j].to, q.writes[i].to)
      <4>1. Follows(old, old[i].project, i)
        BY <3>2, <3>4 DEF WritesFollow
      <4>. QED BY <3>2, <3>3, <3>4, <4>1 DEF Follows
    <3>5. WritesFollow'
      BY <1>2, <2>1, <3>2, <3>4, FollowsKept
    <3>. QED BY <1>1, <1>2, <2>1, <3>5
  <2>. QED BY <1>5, <2>2, <2>3
<1>6. ASSUME NEW t \in Request,
             \/ CommitMove(t) \/ CommitMerge(t) \/ CommitOutAuthority(t)
             \/ CommitCancel(t) \/ Abort(t)
      PROVE  HistoryInvariant'
  <2>1. HistoryGrows
    <3>1. CASE CommitMove(t)
      BY <3>1, MoveGrows
    <3>2. CASE CommitMerge(t)
      BY <3>2, CascadeGrows DEF CommitMerge
    <3>3. CASE CommitOutAuthority(t)
      <4>1. Cascade(request[t].book, Settled, NewStamp) /\ UNCHANGED home
        BY <3>3 DEF CommitOutAuthority
      <4>. QED BY <4>1, CascadeGrows
    <3>4. CASE CommitCancel(t)
      <4>1. Cascade(request[t].book, {}, request[t].at) /\ UNCHANGED home
        BY <3>4 DEF CommitCancel
      <4>. QED BY <4>1, CascadeGrows
    <3>5. CASE Abort(t)
      BY <3>5, UnchangedGrows DEF Abort
    <3>. QED BY <1>6, <3>1, <3>2, <3>3, <3>4, <3>5
  <2>2. request' = [request EXCEPT ![t] = Idle]
    BY <1>6 DEF CommitMove, CommitMerge, CommitOutAuthority, CommitCancel, Abort
  <2>3. WritesFollow'
    BY <1>2, <2>1, <2>2, IdleTyped, FollowsKept
  <2>. QED BY <1>1, <1>2, <2>1, <2>3
<1>7. ASSUME NEW t \in Request, CommitAuthor(t) PROVE HistoryInvariant'
  <2>1. /\ NoStageSkipped' /\ NeverWithoutStatus'
        /\ \A p \in Project \ {request[t].project} : rows'[p] = rows[p]
    BY <1>7, AuthorStarts
  <2>2. \A p \in Project : Authored(p) => StatusesKept(p)
    <3>1. ~ Authored(request[t].project)
      BY <1>7 DEF CommitAuthor, AuthorsApart
    <3>. QED BY <2>1, <3>1 DEF StatusesKept
  <2>3. request' = [request EXCEPT ![t] = Idle]
    BY <1>7 DEF CommitAuthor
  <2>4. WritesFollow'
    BY <2>2, <2>3, IdleTyped, FollowsKept
  <2>. QED BY <1>1, <2>1, <2>4
<1>8. ASSUME NEW t \in Request, CommitRollback(t) PROVE FALSE
  BY <1>8 DEF CommitRollback, NothingRollsBack
<1>. QED BY <1>3, <1>4, <1>5, <1>6, <1>7, <1>8 DEF Next

LEMMA HistoryInit == Init => HistoryInvariant
<1> SUFFICES ASSUME Init PROVE HistoryInvariant
  OBVIOUS
<1>1. \A t \in Request : request[t].kind = "idle"
  BY IdleTyped DEF Init
<1>2. \A p \in Project : rows[p] = {} /\ ~ Authored(p)
  BY DEF Init, Authored
<1>. QED BY <1>1, <1>2, TypeInit
         DEF HistoryInvariant, NothingRollsBack, AuthorsApart, MovesAuthored, MoveKinds,
             WritesFollow, NeverWithoutStatus, NoStageSkipped

LEMMA HistoryHolds ==
  ASSUME "rollback" \notin Kinds
  PROVE  Spec => []HistoryInvariant
<1>1. HistoryInvariant /\ [Next]_vars => HistoryInvariant'
  <2>1. ASSUME HistoryInvariant, UNCHANGED vars PROVE HistoryInvariant'
    BY <2>1 DEF vars, HistoryInvariant, NothingRollsBack, AuthorsApart, MovesAuthored,
                WritesFollow, Follows, NeverWithoutStatus, NoStageSkipped, LatestRows,
                TypeOK, InStep, Authored
  <2>. QED BY <2>1, HistoryNext
<1>. QED BY <1>1, HistoryInit, PTL DEF Spec

(* Where nothing is rolled back, no interleaving of status changes, bulk     *)
(* changes, promotions, merges, reports and cancels lets a project skip a    *)
(* stage of its review: every audit row has a row in the same history that   *)
(* it may follow.  What a request reads is never deleted, however old it is  *)
(* when the request writes.                                                  *)
THEOREM WorkflowSkipsNoStage ==
  ASSUME "rollback" \notin Kinds
  PROVE  Spec => []NoStageSkipped
BY HistoryHolds, PTL DEF HistoryInvariant

(* Nor does a project lose its last latest row or its first row: what an     *)
(* UPDATE clears, the insert of the same transaction replaces.               *)
THEOREM WorkflowNeverWithoutStatus ==
  ASSUME "rollback" \notin Kinds
  PROVE  Spec => []NeverWithoutStatus
BY HistoryHolds, PTL DEF HistoryInvariant
=============================================================================
