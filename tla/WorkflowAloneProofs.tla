------------------------- MODULE WorkflowAloneProofs -------------------------
(* What the approval workflow keeps where requests are served one after the  *)
(* other, for any number of projects, plans and transactions: the audit rows *)
(* of a project are one walk through the workflow, a closed book waits for   *)
(* nobody, and a booked project is not reverted.  Overlapping requests break *)
(* all three (the run workflow_two_latest shows the first of them).          *)
EXTENDS ProjectWorkflowProofs

OneAtATime == \A t, u \in Request : t = u

(* A bulk request names a project once.                                      *)
ListedOnce == \A batch \in Batches : \A i, j \in DOMAIN batch :
                batch[i] = batch[j] => i = j

-----------------------------------------------------------------------------
(* The audit rows of every project, between two requests and within one.     *)
NoRowsYet == \A p \in Project : ~Authored(p) => rows[p] = {}

Distinct(p) == \A r, s \in rows[p] : Id(r) = Id(s) => r = s

OneLatest(p) == \A r, s \in LatestRows(p) : r = s

(* The rows a request will write are later than every row.                   *)
Later(q) ==
  q.kind \in MoveKinds \cup {"author", "merge", "cancel"} =>
    \A p \in Project : \A row \in rows[p] : row.at < q.at

(* A change clears isLatest on every row of the projects it writes about;    *)
(* the UPDATE of its last write may not have started.                        *)
Clears(q) ==
  q.kind \in MoveKinds => \A i \in DOMAIN q.writes :
    IF q.step = "flip" /\ i = Len(q.writes)
    THEN q.writes[i].project = Head(q.todo)
    ELSE \A row \in rows[q.writes[i].project] : Id(row) \in q.writes[i].flips

(* A rollback deletes the latest row and revives the most recent other one.  *)
Reverts(q) ==
  q.kind = "rollback" =>
    \E cur \in LatestRows(q.project), prev \in Superseded(q.project) :
      /\ q.cur = Id(cur) /\ q.prev = Id(prev)
      /\ \A row \in Superseded(q.project) : row.at <= prev.at

AloneInvariant ==
  /\ TypeOK /\ MovesAuthored /\ AuthorsApart /\ NoRowsYet
  /\ \A p \in Project : Distinct(p) /\ OneLatest(p)
  /\ \A t \in Request :
       Later(request[t]) /\ Clears(request[t]) /\ Reverts(request[t])

-----------------------------------------------------------------------------
LEMMA AloneFrame ==
  ASSUME OneAtATime, TypeOK, NEW t \in Request, NEW q,
         request' = [request EXCEPT ![t] = q]
  PROVE  \A u \in Request : u = t /\ request'[u] = q
BY DEF OneAtATime, TypeOK

(* The time of a new transaction is later than that of every row.            *)
LEMMA NewStampLater ==
  ASSUME TypeOK, NEW p \in Project, NEW row \in rows[p]
  PROVE  row.at < NewStamp
<1> DEFINE S == {0} \cup Stamps
           m == CHOOSE x \in S : \A s \in Stamps : s <= x
<1>1. \A r \in Project : \A s \in rows[r] : s.at \in 0..MaxStamp
  BY WorkflowAssumption DEF TypeOK, Row
<1>2. \A t \in Request : request[t] # Idle => request[t].at \in 0..MaxStamp
  BY WorkflowAssumption
     DEF TypeOK, RequestRow, AuthorRow, MoveRow, RollbackRow, BookRow, Stamp
<1>3. S \subseteq 0..MaxStamp
  BY <1>1, <1>2, WorkflowAssumption DEF Stamps
<1>4. \E x \in S : \A s \in S : s <= x
  <2> HIDE DEF S
  <2>1. S # {}
    BY DEF S
  <2>. QED BY <1>3, <2>1, Greatest, WorkflowAssumption
<1>5. m \in S /\ \A s \in Stamps : s <= m
  BY <1>4
<1>6. NewStamp = 1 + m
  BY DEF NewStamp
<1>7. row.at \in Stamps
  BY DEF Stamps
<1> HIDE DEF m, S
<1>8. m \in 0..MaxStamp /\ row.at \in 0..MaxStamp /\ row.at <= m
  BY <1>1, <1>3, <1>5, <1>7
<1>. QED BY <1>6, <1>8, WorkflowAssumption

(* The steps that start a request.                                           *)
LEMMA BeginAlone ==
  ASSUME OneAtATime, AloneInvariant, NEW t \in Request,
         \/ BeginAuthor(t) \/ BeginMove(t) \/ BeginRollback(t) \/ BeginMerge(t)
         \/ BeginOutAuthority(t) \/ BeginCancel(t)
  PROVE  /\ UNCHANGED <<home, rows>>
         /\ \A u \in Request : Later(request'[u]) /\ Clears(request'[u]) /\ Reverts(request'[u])
<1> USE DEF AloneInvariant
<1>1. UNCHANGED <<home, rows>>
  BY DEF BeginAuthor, BeginMove, BeginRollback, BeginMerge, BeginOutAuthority,
         BeginCancel, Open
<1>2. \A p \in Project : \A row \in rows[p] : row.at < NewStamp
  BY NewStampLater
<1> HIDE DEF NewStamp
<1>3. PICK q : Open(t, q) /\ Later(q) /\ Clears(q) /\ Reverts(q)
  <2>1. CASE BeginMove(t)
    <3>1. PICK kind \in MoveKinds : \E batch \in Lists(kind) :
            Open(t, [kind |-> kind, step |-> "check", todo |-> batch,
                     writes |-> <<>>, at |-> NewStamp])
      BY <2>1 DEF BeginMove
    <3>0. PICK batch \in Lists(kind) :
            Open(t, [kind |-> kind, step |-> "check", todo |-> batch,
                     writes |-> <<>>, at |-> NewStamp])
      BY <3>1
    <3> DEFINE q == [kind |-> kind, step |-> "check", todo |-> batch,
                     writes |-> <<>>, at |-> NewStamp]
    <3>2. q.kind # "rollback" /\ q.at = NewStamp /\ q.writes = <<>>
      BY DEF MoveKinds
    <3>. QED BY <1>2, <3>0, <3>2 DEF Later, Clears, Reverts
  <2>2. CASE BeginRollback(t)
    <3>1. PICK p \in Project : \E cur \in LatestRows(p), prev \in Superseded(p) :
            /\ \A row \in Superseded(p) : row.at <= prev.at
            /\ Open(t, [kind |-> "rollback", project |-> p, cur |-> Id(cur),
                        prev |-> Id(prev),
                        at |-> IF cur.at > prev.at THEN cur.at ELSE prev.at])
      BY <2>2 DEF BeginRollback
    <3>2. PICK cur \in LatestRows(p), prev \in Superseded(p) :
            /\ \A row \in Superseded(p) : row.at <= prev.at
            /\ Open(t, [kind |-> "rollback", project |-> p, cur |-> Id(cur),
                        prev |-> Id(prev),
                        at |-> IF cur.at > prev.at THEN cur.at ELSE prev.at])
      BY <3>1
    <3>. QED BY <3>2 DEF Later, Clears, Reverts, MoveKinds
  <2>3. ASSUME NEW q, q.kind \in {"author", "merge", "cancel"}, q.at = NewStamp, Open(t, q)
        PROVE  \E r : Open(t, r) /\ Later(r) /\ Clears(r) /\ Reverts(r)
    BY <1>2, <2>3 DEF Later, Clears, Reverts, MoveKinds
  <2>5. CASE BeginAuthor(t)
    <3>1. PICK p \in Project, b \in Plan :
            Open(t, [kind |-> "author", project |-> p, book |-> b, at |-> NewStamp])
      BY <2>5 DEF BeginAuthor
    <3>. QED BY <2>3, <3>1
  <2>6. CASE BeginMerge(t)
    <3>1. PICK b \in Plan : Open(t, [kind |-> "merge", book |-> b, list |-> draft[b],
                                     at |-> NewStamp])
      BY <2>6 DEF BeginMerge
    <3>. QED BY <2>3, <3>1
  <2>7. CASE BeginCancel(t)
    <3>1. PICK b \in Plan : Open(t, [kind |-> "cancel", book |-> b, read |-> plan[b],
                                     at |-> NewStamp])
      BY <2>7 DEF BeginCancel
    <3>. QED BY <2>3, <3>1
  <2>4. CASE BeginOutAuthority(t)
    BY <2>4 DEF BeginOutAuthority, Later, Clears, Reverts, MoveKinds
  <2>. QED BY <2>1, <2>2, <2>4, <2>5, <2>6, <2>7
<1>4. request' = [request EXCEPT ![t] = q]
  BY <1>3 DEF Open
<1>. QED BY <1>1, <1>3, <1>4, AloneFrame

(* What a request may plan for p: an outcome of a status it may have read.   *)
Planned(t, p, w) ==
  \E seen \in SeenStatus(t, p) : \E o \in Outcomes(request[t].kind, p, seen) :
    w.to = o[1] /\ w.plan = o[2]

(* Check plans one more write.                                               *)
LEMMA CheckPlans ==
  ASSUME TypeOK, MovesAuthored, NEW t \in Request, Check(t)
  PROVE  LET req == request[t]
             p == Head(req.todo)
         IN \E w \in Write, q \in MoveRow :
              /\ req \in MoveRow /\ req.todo # <<>> /\ req.step = "check"
              /\ p = req.todo[1] /\ p \in Project /\ Authored(p)
              /\ w.project = p /\ Planned(t, p, w)
              /\ q.kind = req.kind /\ q.step = "flip" /\ q.todo = req.todo /\ q.at = req.at
              /\ q.writes = Append(req.writes, w)
              /\ request' = [request EXCEPT ![t] = q]
              /\ UNCHANGED <<plan, home, rows, isBooked, draft, printed>>
<1> DEFINE req == request[t]
           p == Head(req.todo)
<1>1. req \in MoveRow /\ req.todo # <<>> /\ req.kind \in MoveKinds /\ req.step = "check"
  BY RequestFields DEF Check, InStep, TypeOK
<1>2. p \in Project /\ Authored(p) /\ p = req.todo[1]
  <2>1. 1 \in DOMAIN req.todo /\ p = req.todo[1]
    BY <1>1, HeadTailProperties, LenProperties, EmptySeq DEF MoveRow
  <2>2. p \in Project
    BY <1>1, HeadTailProperties DEF MoveRow
  <2>. QED BY <1>1, <2>1, <2>2 DEF MovesAuthored
<1>3. PICK seen \in SeenStatus(t, p) : \E o \in Outcomes(req.kind, p, seen) :
        request' = [request EXCEPT
          ![t].step = "flip",
          ![t].writes = Append(@, [project |-> p, to |-> o[1], plan |-> o[2],
                                   flips |-> {}])]
  BY DEF Check
<1>4. PICK o \in Outcomes(req.kind, p, seen) :
        request' = [request EXCEPT
          ![t].step = "flip",
          ![t].writes = Append(@, [project |-> p, to |-> o[1], plan |-> o[2],
                                   flips |-> {}])]
  BY <1>3
<1> DEFINE w == [project |-> p, to |-> o[1], plan |-> o[2], flips |-> {}]
           q == [req EXCEPT !.step = "flip", !.writes = Append(@, w)]
<1>5. w \in Write
  <2>1. o[1] \in Status /\ o[2] \in Plan
    BY <1>1, <1>2, OutcomesTyped
  <2>. QED BY <1>2, <2>1 DEF Write
<1>6. Append(req.writes, w) \in Seq(Write)
  BY <1>1, <1>5, AppendProperties DEF MoveRow
<1>7. /\ q \in MoveRow /\ q.kind = req.kind /\ q.step = "flip" /\ q.todo = req.todo
      /\ q.at = req.at /\ q.writes = Append(req.writes, w)
  BY <1>1, <1>6 DEF MoveRow
<1>8. request' = [request EXCEPT ![t] = q]
  BY <1>1, <1>4 DEF TypeOK
<1>9. UNCHANGED <<plan, home, rows, isBooked, draft, printed>>
  BY DEF Check
<1>10. w.project = p /\ Planned(t, p, w)
  BY <1>3, <1>4 DEF Planned
<1> HIDE DEF w, q, p
<1>. QED BY <1>1, <1>2, <1>5, <1>7, <1>8, <1>9, <1>10 DEF p

(* Flip lets the last write clear the rows committed by now; Skip drops a    *)
(* project.                                                                  *)
LEMMA ListShrinks ==
  ASSUME TypeOK, NEW t \in Request, Skip(t) \/ Flip(t)
  PROVE  LET req == request[t]
             n == Len(req.writes)
         IN \E q \in MoveRow :
              /\ req \in MoveRow /\ req.todo # <<>> /\ q.step = "check"
              /\ q.kind = req.kind /\ q.todo = Tail(req.todo) /\ q.at = req.at
              /\ \/ req.step = "check" /\ q.writes = req.writes
                 \/ /\ req.step = "flip" /\ req.writes # <<>>
                    /\ q.writes = [req.writes EXCEPT ![n] =
                         [req.writes[n] EXCEPT !.flips =
                            {Id(row) : row \in rows[Head(req.todo)]}]]
              /\ request' = [request EXCEPT ![t] = q]
              /\ UNCHANGED <<plan, home, rows, isBooked, draft, printed>>
<1> DEFINE req == request[t]
           n == Len(req.writes)
           p == Head(req.todo)
<1>1. req \in MoveRow /\ req.todo # <<>>
  BY RequestFields DEF Skip, Flip, InStep, TypeOK
<1>2. p \in Project /\ Tail(req.todo) \in Seq(Project)
  BY <1>1, HeadTailProperties DEF MoveRow
<1>3. UNCHANGED <<plan, home, rows, isBooked, draft, printed>>
  BY DEF Skip, Flip
<1>4. CASE Skip(t)
  <2> DEFINE q == [req EXCEPT !.todo = Tail(@)]
  <2>1. /\ q \in MoveRow /\ q.step = "check" /\ req.step = "check" /\ q.kind = req.kind
        /\ q.todo = Tail(req.todo) /\ q.at = req.at /\ q.writes = req.writes
    BY <1>1, <1>2, <1>4 DEF MoveRow, Skip, InStep
  <2>2. request' = [request EXCEPT ![t] = q]
    BY <1>4 DEF Skip, TypeOK
  <2> HIDE DEF q
  <2>. QED BY <1>1, <1>3, <2>1, <2>2
<1>5. CASE Flip(t)
  <2> DEFINE seen == {Id(row) : row \in rows[p]}
             w == [req.writes EXCEPT ![n] = [req.writes[n] EXCEPT !.flips = seen]]
             q == [req EXCEPT !.step = "check", !.todo = Tail(@), !.writes = w]
  <2>1. seen \subseteq Ids
    BY <1>2 DEF TypeOK, Row, Id, Ids, Stamp
  <2>2. req.writes \in Seq(Write) /\ req.writes # <<>> /\ req.step = "flip"
    BY <1>1, <1>5 DEF Flip, TypeOK, MoveRow, InStep
  <2>3. n \in 1..Len(req.writes) /\ req.writes[n] \in Write
    BY <2>2, LenProperties, EmptySeq, ElementOfSeq
  <2>4. [req.writes[n] EXCEPT !.flips = seen] \in Write
    BY <2>1, <2>3 DEF Write
  <2>5. w \in Seq(Write)
    BY <2>2, <2>3, <2>4, ExceptSeq
  <2>6. request' = [request EXCEPT ![t] = q]
    <3>1. w = [req.writes EXCEPT ![n].flips = seen]
      BY <2>2, <2>3
    <3>. QED BY <1>1, <1>5, <3>1 DEF Flip, TypeOK, MoveRow
  <2> HIDE DEF w
  <2>7. /\ q \in MoveRow /\ q.step = "check" /\ q.kind = req.kind
        /\ q.todo = Tail(req.todo) /\ q.at = req.at /\ q.writes = w
    BY <1>1, <1>2, <2>5 DEF MoveRow
  <2> HIDE DEF q
  <2>. QED BY <1>1, <1>3, <2>2, <2>6, <2>7 DEF w
<1>. QED BY <1>4, <1>5

(* The steps of a status change before its commit.                           *)
LEMMA StepAlone ==
  ASSUME OneAtATime, AloneInvariant, NEW t \in Request, Check(t) \/ Skip(t) \/ Flip(t)
  PROVE  /\ UNCHANGED <<home, rows>>
         /\ \A u \in Request : Later(request'[u]) /\ Clears(request'[u]) /\ Reverts(request'[u])
<1> USE DEF AloneInvariant
<1> DEFINE req == request[t]
<1>1. UNCHANGED <<home, rows>>
  BY DEF Check, Skip, Flip
<1>2. req \in MoveRow /\ Later(req) /\ Clears(req) /\ req.kind \in MoveKinds
  BY RequestFields DEF Check, Skip, Flip, InStep, TypeOK
<1>3. req.writes \in Seq(Write)
  BY <1>2 DEF MoveRow
<1>4. ASSUME NEW q \in MoveRow, q.kind = req.kind, q.at = req.at,
             request' = [request EXCEPT ![t] = q], Clears(q)
      PROVE  \A u \in Request : Later(request'[u]) /\ Clears(request'[u]) /\ Reverts(request'[u])
  <2>1. Later(q)
    BY <1>2, <1>4 DEF Later
  <2>2. Reverts(q)
    BY <1>2, <1>4 DEF Reverts, MoveKinds
  <2>. QED BY <1>4, <2>1, <2>2, AloneFrame
<1>5. CASE Check(t)
  <2>1. PICK w \in Write, q \in MoveRow :
          /\ req.step = "check" /\ w.project = Head(req.todo)
          /\ q.kind = req.kind /\ q.step = "flip" /\ q.todo = req.todo /\ q.at = req.at
          /\ q.writes = Append(req.writes, w)
          /\ request' = [request EXCEPT ![t] = q]
    BY <1>5, CheckPlans
  <2>2. Clears(q)
    <3> SUFFICES ASSUME NEW i \in DOMAIN q.writes, i # Len(q.writes)
                 PROVE  \A row \in rows[q.writes[i].project] : Id(row) \in q.writes[i].flips
      <4>1. q.writes[Len(q.writes)] = w
        BY <1>3, <2>1
      <4>. QED BY <2>1, <4>1 DEF Clears
    <3>1. i \in DOMAIN req.writes /\ q.writes[i] = req.writes[i]
      BY <1>3, <2>1
    <3>. QED BY <1>2, <2>1, <3>1 DEF Clears
  <2>. QED BY <1>1, <1>4, <2>1, <2>2
<1>6. CASE Skip(t) \/ Flip(t)
  <2> DEFINE n == Len(req.writes)
             now == {Id(row) : row \in rows[Head(req.todo)]}
  <2>1. PICK q \in MoveRow :
          /\ q.step = "check" /\ q.kind = req.kind /\ q.at = req.at
          /\ \/ req.step = "check" /\ q.writes = req.writes
             \/ /\ req.step = "flip" /\ req.writes # <<>>
                /\ q.writes = [req.writes EXCEPT ![n] = [req.writes[n] EXCEPT !.flips = now]]
          /\ request' = [request EXCEPT ![t] = q]
    BY <1>6, ListShrinks
  <2>2. ASSUME NEW i \in DOMAIN q.writes
        PROVE  \A row \in rows[q.writes[i].project] : Id(row) \in q.writes[i].flips
    <3>1. CASE req.step = "check" /\ q.writes = req.writes
      BY <1>2, <2>1, <2>2, <3>1 DEF Clears
    <3>2. CASE /\ req.step = "flip"
               /\ q.writes = [req.writes EXCEPT ![n] = [req.writes[n] EXCEPT !.flips = now]]
      <4>1. i \in DOMAIN req.writes /\ req.writes[i] \in Write
        BY <1>3, <2>2, <3>2, ElementOfSeq, LenProperties
      <4>2. CASE i = n
        <5>1. req.writes[i].project = Head(req.todo)
          BY <1>2, <3>2, <4>1, <4>2 DEF Clears
        <5>2. q.writes[i] = [req.writes[i] EXCEPT !.flips = now]
          BY <3>2, <4>1, <4>2
        <5>3. q.writes[i].project = Head(req.todo) /\ q.writes[i].flips = now
          BY <4>1, <5>1, <5>2 DEF Write
        <5>. QED BY <5>3
      <4>3. CASE i # n
        BY <1>2, <3>2, <4>1, <4>3 DEF Clears
      <4>. QED BY <4>2, <4>3
    <3>. QED BY <2>1, <3>1, <3>2
  <2>3. Clears(q)
    BY <2>1, <2>2 DEF Clears
  <2>. QED BY <1>1, <1>4, <2>1, <2>3
<1>. QED BY <1>1, <1>5, <1>6

-----------------------------------------------------------------------------
(* How a commit changes the history of a project: nothing, or every old row  *)
(* stops being the latest one and later rows follow, or a rollback.          *)
Cleared(p) == {[row EXCEPT !.latest = FALSE] : row \in rows[p]}

Written(t, p, i) ==
  [at |-> request[t].at, item |-> i, status |-> request[t].writes[i].to,
   latest |-> \A j \in OwnWrites(t, p) : j <= i]

ReadyRow(at) == [at |-> at, item |-> 1, status |-> "Ready", latest |-> TRUE]

LEMMA MoveRows ==
  ASSUME AloneInvariant, NEW t \in Request, CommitMove(t), NEW p \in Project
  PROVE  /\ request[t] \in MoveRow
         /\ OwnWrites(t, p) \subseteq 1..Len(request[t].writes)
         /\ Len(request[t].writes) \in Nat
         /\ OwnWrites(t, p) = {} => rows'[p] = rows[p]
         /\ OwnWrites(t, p) # {} =>
              rows'[p] = Cleared(p) \cup {Written(t, p, i) : i \in OwnWrites(t, p)}
<1> USE DEF AloneInvariant
<1> DEFINE req == request[t]
           own == OwnWrites(t, p)
           touched == UNION {req.writes[i].flips : i \in own}
           Old(row) == [row EXCEPT !.latest = @ /\ Id(row) \notin touched]
<1>1. req \in MoveRow /\ req.kind \in MoveKinds /\ req.step = "check"
  BY RequestFields DEF CommitMove, InStep, TypeOK
<1>2. own \subseteq 1..Len(req.writes) /\ Len(req.writes) \in Nat
  BY <1>1, LenProperties DEF OwnWrites, MoveRow
<1>3. rows'[p] = {Old(row) : row \in rows[p]} \cup {Written(t, p, i) : i \in own}
  BY DEF CommitMove, AfterMove, Written
<1>4. CASE own = {}
  <2>1. \A row \in rows[p] : Old(row) = row
    <3>1. \A row \in rows[p] : row \in Row
      BY DEF TypeOK
    <3>2. touched = {}
      BY <1>4
    <3> HIDE DEF touched
    <3>. QED BY <3>1, <3>2 DEF Row
  <2>2. {Old(row) : row \in rows[p]} = rows[p]
    <3> HIDE DEF Old
    <3>. QED BY <2>1
  <2>. QED BY <1>1, <1>2, <1>3, <1>4, <2>2
<1>5. CASE own # {}
  <2>1. \A row \in rows[p] : Id(row) \in touched
    <3>1. PICK i \in own : TRUE
      BY <1>5
    <3>2. i \in DOMAIN req.writes /\ req.writes[i].project = p
      BY DEF OwnWrites
    <3>3. \A row \in rows[p] : Id(row) \in req.writes[i].flips
      BY <1>1, <3>2 DEF Clears
    <3>. QED BY <3>1, <3>3
  <2>2. \A row \in rows[p] : Old(row) = [row EXCEPT !.latest = FALSE]
    <3> HIDE DEF touched
    <3>. QED BY <2>1
  <2>3. {Old(row) : row \in rows[p]} = Cleared(p)
    <3> HIDE DEF Old
    <3>. QED BY <2>2 DEF Cleared
  <2>. QED BY <1>1, <1>2, <1>3, <1>5, <2>3
<1>. QED BY <1>4, <1>5

(* A cascade leaves alone the projects of other plans and those it keeps.    *)
LEMMA CascadeAlone ==
  ASSUME AloneInvariant, NEW b, NEW keep, NEW at, Cascade(b, keep, at), NEW p \in Project
  PROVE  \/ /\ rows'[p] = rows[p]
            /\ p \in Members(b) /\ plan[b].live =>
                 \A row \in LatestRows(p) : row.status \in keep
         \/ /\ rows'[p] = Cleared(p) \cup {ReadyRow(at)}
            /\ p \in Members(b)
            /\ \E row \in LatestRows(p) : row.status \notin keep
<1> USE DEF AloneInvariant
<1> DEFINE hit == {r \in Members(b) : plan[b].live /\
                    \E row \in LatestRows(r) : row.status \notin keep}
<1>1. PICK pick \in [hit -> UNION {LatestRows(r) : r \in hit}] :
        /\ \A r \in hit : pick[r] \in LatestRows(r)
        /\ rows' = [r \in Project |->
                      IF r \in hit /\ pick[r].status \notin keep
                      THEN Reset(r, pick[r], at) ELSE rows[r]]
  BY DEF Cascade
<1>2. CASE p \in hit
  <2>1. PICK row \in LatestRows(p) : row.status \notin keep
    BY <1>2
  <2>2. pick[p] = row
    BY <1>1, <1>2, <2>1 DEF OneLatest
  <2>3. rows'[p] = Reset(p, row, at)
    BY <1>1, <1>2, <2>1, <2>2
  <2>4. (rows[p] \ {row}) \cup {[row EXCEPT !.latest = FALSE]} = Cleared(p)
    <3>1. row \in rows[p]
      BY DEF LatestRows
    <3>2. \A r \in rows[p] \ {row} : [r EXCEPT !.latest = FALSE] = r
      <4>1. \A r \in rows[p] \ {row} : r \in Row /\ ~ r.latest
        BY <2>1 DEF LatestRows, OneLatest, TypeOK, Row
      <4>. QED BY <4>1 DEF Row
    <3>. QED BY <3>1, <3>2 DEF Cleared
  <2>5. Reset(p, row, at) = ((rows[p] \ {row}) \cup {[row EXCEPT !.latest = FALSE]})
                            \cup {ReadyRow(at)}
    BY DEF Reset, ReadyRow
  <2>6. rows'[p] = Cleared(p) \cup {ReadyRow(at)}
    BY <2>3, <2>4, <2>5
  <2>. QED BY <1>2, <2>1, <2>6
<1>3. CASE p \notin hit
  <2>1. rows'[p] = rows[p]
    BY <1>1, <1>3
  <2>. QED BY <1>3, <2>1
<1>. QED BY <1>2, <1>3

(* Later rows keep the rows apart and one of them the latest.                *)
LEMMA AppendAlone ==
  ASSUME NEW p \in Project, rows[p] \subseteq Row, Distinct(p), NEW new,
         rows'[p] = Cleared(p) \cup new, new \subseteq Row,
         \A r \in rows[p], n \in new : r.at < n.at,
         \A m, n \in new : Id(m) = Id(n) => m = n,
         \A m, n \in new : m.latest /\ n.latest => m = n
  PROVE  Distinct(p)' /\ OneLatest(p)'
<1>1. ASSUME NEW s \in Cleared(p)
      PROVE  /\ s.latest = FALSE
             /\ \E r \in rows[p] : s = [r EXCEPT !.latest = FALSE] /\ Id(s) = Id(r)
                                   /\ s.at = r.at
  <2>1. PICK r \in rows[p] : s = [r EXCEPT !.latest = FALSE]
    BY DEF Cleared
  <2>. QED BY <2>1 DEF Row, Id
<1>2. \A s \in Cleared(p), n \in new : Id(s) # Id(n)
  <2>1. \A s \in Cleared(p), n \in new : s.at < n.at /\ s.at \in Nat /\ n.at \in Nat
    <3> SUFFICES ASSUME NEW s \in Cleared(p), NEW n \in new
                 PROVE  s.at < n.at /\ s.at \in Nat /\ n.at \in Nat
      OBVIOUS
    <3>1. PICK r \in rows[p] : s.at = r.at
      BY <1>1
    <3>. QED BY <3>1, WorkflowAssumption DEF Row
  <2>. QED BY <2>1 DEF Id
<1>3. Distinct(p)'
  <2> SUFFICES ASSUME NEW m \in Cleared(p) \cup new, NEW s \in Cleared(p) \cup new,
                      Id(m) = Id(s)
               PROVE  m = s
    BY DEF Distinct
  <2>1. CASE m \in Cleared(p) /\ s \in Cleared(p)
    <3>1. PICK r \in rows[p] : m = [r EXCEPT !.latest = FALSE] /\ Id(m) = Id(r)
      BY <1>1, <2>1
    <3>2. PICK q \in rows[p] : s = [q EXCEPT !.latest = FALSE] /\ Id(s) = Id(q)
      BY <1>1, <2>1
    <3>. QED BY <3>1, <3>2 DEF Distinct
  <2>. QED BY <1>2, <2>1
<1>4. OneLatest(p)'
  BY <1>1 DEF OneLatest, LatestRows
<1>. QED BY <1>3, <1>4

(* A commit other than a rollback.                                           *)
LEMMA CascadeKeepsRows ==
  ASSUME AloneInvariant, NEW b, NEW keep, NEW at \in Stamp, Cascade(b, keep, at),
         \A p \in Project : \A row \in rows[p] : row.at < at, NEW p \in Project
  PROVE  /\ Distinct(p)' /\ OneLatest(p)'
         /\ rows[p] = {} => rows'[p] = {}
<1> USE DEF AloneInvariant
<1>1. CASE rows'[p] = rows[p]
  BY <1>1 DEF Distinct, OneLatest, LatestRows
<1>2. CASE /\ rows'[p] = Cleared(p) \cup {ReadyRow(at)}
           /\ \E row \in LatestRows(p) : TRUE
  <2>1. ReadyRow(at) \in Row /\ ReadyRow(at).at = at
    BY DEF ReadyRow, Row, Stamp, Status
  <2>2. rows[p] \subseteq Row
    BY DEF TypeOK
  <2>3. rows[p] # {}
    BY <1>2 DEF LatestRows
  <2> DEFINE new == {ReadyRow(at)}
  <2>4. /\ rows'[p] = Cleared(p) \cup new /\ new \subseteq Row
        /\ \A r \in rows[p], n \in new : r.at < n.at
        /\ \A m, n \in new : m = n
    BY <1>2, <2>1
  <2> HIDE DEF new
  <2>. QED BY <2>2, <2>3, <2>4, AppendAlone
<1>. QED BY <1>1, <1>2, CascadeAlone

LEMMA MoveKeepsRows ==
  ASSUME AloneInvariant, NEW t \in Request, CommitMove(t), NEW p \in Project
  PROVE  /\ Distinct(p)' /\ OneLatest(p)'
         /\ ~Authored(p) => rows'[p] = {}
<1> USE DEF AloneInvariant
<1> DEFINE own == OwnWrites(t, p)
<1>1. CASE own = {}
  <2>1. rows'[p] = rows[p]
    BY <1>1, MoveRows
  <2>. QED BY <2>1 DEF Distinct, OneLatest, LatestRows, NoRowsYet
<1>2. CASE own # {}
  <2> DEFINE new == {Written(t, p, i) : i \in own}
  <2>0. request[t] \in MoveRow /\ own \subseteq 1..Len(request[t].writes)
          /\ Len(request[t].writes) \in Nat /\ request[t].kind \in MoveKinds
    BY MoveRows DEF MoveRow
  <2>1. rows'[p] = Cleared(p) \cup new
    BY <1>2, MoveRows
  <2>2. new \subseteq Row
    <3>1. new \subseteq AfterMove(t, p)
      BY DEF AfterMove, Written
    <3>. QED BY <2>0, <3>1, AfterMoveTyped
  <2>3. \A r \in rows[p], n \in new : r.at < n.at
    BY <2>0 DEF Later, Written
  <2>4. \A m, n \in new : Id(m) = Id(n) => m = n
    <3>1. \A i \in own : Id(Written(t, p, i)) = <<request[t].at, i>>
      BY DEF Written, Id
    <3>. QED BY <3>1
  <2>5. \A m, n \in new : m.latest /\ n.latest => m = n
    <3> SUFFICES ASSUME NEW i \in own, NEW j \in own,
                        Written(t, p, i).latest, Written(t, p, j).latest
                 PROVE  i = j
      OBVIOUS
    <3>1. i <= j /\ j <= i
      BY DEF Written
    <3>. QED BY <2>0, <3>1
  <2>6. rows[p] \subseteq Row
    BY DEF TypeOK
  <2>7. Authored(p)
    BY <1>2, <2>0 DEF MovesAuthored, OwnWrites
  <2> HIDE DEF new, own
  <2>. QED BY <2>1, <2>2, <2>3, <2>4, <2>5, <2>6, <2>7, AppendAlone
<1>. QED BY <1>1, <1>2

(* A rollback: the latest row goes, the revived one is the only latest.      *)
LEMMA RollbackRows ==
  ASSUME AloneInvariant, NEW t \in Request, CommitRollback(t)
  PROVE  LET p == request[t].project IN
         /\ p \in Project
         /\ \A r \in Project \ {p} : rows'[r] = rows[r]
         /\ \E cur \in LatestRows(p), prev \in Superseded(p) :
              /\ \A row \in Superseded(p) : row.at <= prev.at
              /\ rows'[p] = (rows[p] \ {cur, prev}) \cup {[prev EXCEPT !.latest = TRUE]}
<1> USE DEF AloneInvariant
<1> DEFINE req == request[t]
           p == req.project
<1>1. req \in RollbackRow /\ p \in Project
  BY RequestFields DEF CommitRollback, TypeOK, RollbackRow
<1>2. PICK cur \in LatestRows(p), prev \in Superseded(p) :
        /\ req.cur = Id(cur) /\ req.prev = Id(prev)
        /\ \A row \in Superseded(p) : row.at <= prev.at
  BY <1>1 DEF Reverts, RollbackRow
<1> DEFINE Left(row) == [row EXCEPT !.latest = @ \/ Id(row) = Id(prev)]
<1>3. rows'[p] = {Left(row) : row \in {r \in rows[p] : Id(r) # Id(cur)}}
  BY <1>1, <1>2 DEF CommitRollback, TypeOK
<1>4. {r \in rows[p] : Id(r) # Id(cur)} = rows[p] \ {cur}
  BY <1>1 DEF Distinct, LatestRows
<1>5. \A r \in rows[p] \ {cur, prev} : Left(r) = r
  <2>1. \A r \in rows[p] \ {cur, prev} : r \in Row /\ Id(r) # Id(prev)
    BY <1>1 DEF Distinct, Superseded, TypeOK
  <2>. QED BY <2>1 DEF Row
<1>6. Left(prev) = [prev EXCEPT !.latest = TRUE]
  OBVIOUS
<1>7. prev \in rows[p] \ {cur}
  BY DEF LatestRows, Superseded
<1>8. rows'[p] = (rows[p] \ {cur, prev}) \cup {[prev EXCEPT !.latest = TRUE]}
  <2> HIDE DEF Left
  <2>1. rows'[p] = {Left(row) : row \in rows[p] \ {cur}}
    BY <1>3, <1>4
  <2>2. rows[p] \ {cur} = (rows[p] \ {cur, prev}) \cup {prev}
    BY <1>7
  <2>3. rows'[p] = {Left(row) : row \in rows[p] \ {cur, prev}} \cup {Left(prev)}
    BY <2>1, <2>2
  <2>4. {Left(row) : row \in rows[p] \ {cur, prev}} = rows[p] \ {cur, prev}
    BY <1>5
  <2>. QED BY <1>6, <2>3, <2>4
<1>9. \A r \in Project \ {p} : rows'[r] = rows[r]
  BY <1>1 DEF CommitRollback, TypeOK
<1>. QED BY <1>1, <1>2, <1>8, <1>9

LEMMA RollbackKeepsRows ==
  ASSUME AloneInvariant, NEW t \in Request, CommitRollback(t), NEW p \in Project
  PROVE  /\ Distinct(p)' /\ OneLatest(p)'
         /\ rows[p] = {} => rows'[p] = {}
<1> USE DEF AloneInvariant
<1>1. CASE p # request[t].project
  <2>1. rows'[p] = rows[p]
    BY <1>1, RollbackRows
  <2>. QED BY <2>1 DEF Distinct, OneLatest, LatestRows
<1>2. CASE p = request[t].project
  <2>1. PICK cur \in LatestRows(p), prev \in Superseded(p) :
          rows'[p] = (rows[p] \ {cur, prev}) \cup {[prev EXCEPT !.latest = TRUE]}
    BY <1>2, RollbackRows
  <2> DEFINE new == [prev EXCEPT !.latest = TRUE]
  <2>2. \A r \in rows[p] : r \in Row
    BY DEF TypeOK
  <2>3. prev \in rows[p] /\ cur \in rows[p]
    BY DEF Superseded, LatestRows
  <2>4. Id(new) = Id(prev) /\ new.latest
    BY <2>2, <2>3 DEF Row, Id
  <2>5. \A r \in rows[p] \ {cur, prev} : ~ r.latest
    BY DEF OneLatest, LatestRows
  <2> HIDE DEF new
  <2>6. Distinct(p)'
    <3>1. \A r \in rows[p] \ {cur, prev} : Id(r) # Id(new)
      BY <2>3, <2>4 DEF Distinct
    <3>2. \A r, s \in rows[p] \ {cur, prev} : Id(r) = Id(s) => r = s
      BY DEF Distinct
    <3>3. \A r, s \in rows'[p] : Id(r) = Id(s) => r = s
      BY <2>1, <3>1, <3>2 DEF new
    <3>. QED BY <3>3 DEF Distinct
  <2>7. OneLatest(p)'
    BY <2>1, <2>4, <2>5 DEF OneLatest, LatestRows
  <2>. QED BY <2>3, <2>6, <2>7
<1>. QED BY <1>1, <1>2

LEMMA IdleAlone == Later(Idle) /\ Clears(Idle) /\ Reverts(Idle)
BY DEF Later, Clears, Reverts, Idle, MoveKinds

LEMMA CommitAlone ==
  ASSUME OneAtATime, AloneInvariant, NEW t \in Request,
         \/ CommitMove(t) \/ CommitAuthor(t) \/ CommitRollback(t) \/ CommitMerge(t)
         \/ CommitOutAuthority(t) \/ CommitCancel(t) \/ Abort(t)
  PROVE  /\ request' = [request EXCEPT ![t] = Idle]
         /\ \A p \in Project : Distinct(p)' /\ OneLatest(p)'
         /\ \A p \in Project : ~Authored(p) => rows'[p] = {} \/ Authored(p)'
<1> USE DEF AloneInvariant
<1>1. request' = [request EXCEPT ![t] = Idle]
  BY DEF CommitMove, CommitAuthor, CommitRollback, CommitMerge, CommitOutAuthority,
         CommitCancel, Abort
<1> SUFFICES ASSUME NEW p \in Project
             PROVE  /\ Distinct(p)' /\ OneLatest(p)'
                    /\ ~Authored(p) => rows'[p] = {} \/ Authored(p)'
  BY <1>1
<1>2. CASE CommitMove(t)
  BY <1>2, MoveKeepsRows
<1>3. CASE CommitAuthor(t)
  <2>1. request[t] \in AuthorRow
    BY <1>3, RequestFields DEF CommitAuthor, TypeOK
  <2>2. CASE p = request[t].project
    <3>1. rows'[p] = {ReadyRow(request[t].at)}
      BY <1>3, <2>1, <2>2 DEF CommitAuthor, TypeOK, ReadyRow
    <3>2. home'[p] = request[t].book /\ request[t].book \in Plan
      BY <1>3, <2>1, <2>2 DEF CommitAuthor, TypeOK, AuthorRow
    <3>. QED BY <3>1, <3>2, WorkflowAssumption DEF Authored, Distinct, OneLatest, LatestRows
  <2>3. CASE p # request[t].project
    <3>1. rows'[p] = rows[p]
      BY <1>3, <2>1, <2>3 DEF CommitAuthor, TypeOK
    <3>. QED BY <3>1 DEF NoRowsYet, Distinct, OneLatest, LatestRows
  <2>. QED BY <2>2, <2>3
<1>4. CASE CommitRollback(t)
  BY <1>4, RollbackKeepsRows DEF NoRowsYet
<1>5. CASE CommitMerge(t) \/ CommitCancel(t)
  <2>1. request[t].kind \in {"merge", "cancel"}
    BY <1>5 DEF CommitMerge, CommitCancel
  <2>2. request[t].at \in Stamp
    BY <2>1, RequestFields DEF TypeOK
  <2>3. \A r \in Project : \A row \in rows[r] : row.at < request[t].at
    BY <2>1 DEF Later
  <2>4. \E b, keep : Cascade(b, keep, request[t].at)
    BY <1>5 DEF CommitMerge, CommitCancel
  <2>. QED BY <2>2, <2>3, <2>4, CascadeKeepsRows DEF NoRowsYet
<1>6. CASE CommitOutAuthority(t)
  <2>1. NewStamp \in Stamp
    BY <1>6, NewStampTyped, WorkflowAssumption DEF CommitOutAuthority, Stamp
  <2>2. \A r \in Project : \A row \in rows[r] : row.at < NewStamp
    BY NewStampLater
  <2>3. Cascade(request[t].book, Settled, NewStamp)
    BY <1>6 DEF CommitOutAuthority
  <2> HIDE DEF NewStamp
  <2>. QED BY <2>1, <2>2, <2>3, CascadeKeepsRows DEF NoRowsYet
<1>7. CASE Abort(t)
  BY <1>7 DEF Abort, NoRowsYet, Distinct, OneLatest, LatestRows
<1>. QED BY <1>2, <1>3, <1>4, <1>5, <1>6, <1>7

LEMMA AloneNext ==
  ASSUME OneAtATime, AloneInvariant, Next
  PROVE  AloneInvariant'
<1> USE DEF AloneInvariant
<1>1. TypeOK' /\ MovesAuthored' /\ AuthorsApart' /\ \A p \in Project : Authored(p) => Authored(p)'
  BY MovesAuthoredNext, AuthorsApartNext
<1>2. ASSUME UNCHANGED <<home, rows>>,
             \A u \in Request : Later(request'[u]) /\ Clears(request'[u]) /\ Reverts(request'[u])
      PROVE  AloneInvariant'
  <2>1. NoRowsYet' /\ \A p \in Project : Distinct(p)' /\ OneLatest(p)'
    BY <1>2 DEF NoRowsYet, Authored, Distinct, OneLatest, LatestRows
  <2>2. \A u \in Request :
          Later(request[u])' /\ Clears(request[u])' /\ Reverts(request[u])'
    BY <1>2 DEF Later, Clears, Reverts, LatestRows, Superseded
  <2>. QED BY <1>1, <2>1, <2>2
<1>3. CASE \E b \in Plan :
             \/ GeneratePart3(b) \/ CorrectProjects(b)
             \/ SetPhase(b) \/ SetLatest(b) \/ CreatePlan(b) \/ RestorePlan(b)
  <2>1. UNCHANGED <<home, rows, request>>
    BY <1>3, PlanStepTyped
  <2>. QED BY <1>2, <2>1
<1>4. ASSUME NEW t \in Request,
             \/ BeginAuthor(t) \/ BeginMove(t) \/ BeginRollback(t) \/ BeginMerge(t)
             \/ BeginOutAuthority(t) \/ BeginCancel(t)
      PROVE  AloneInvariant'
  BY <1>2, <1>4, BeginAlone
<1>5. ASSUME NEW t \in Request, Check(t) \/ Skip(t) \/ Flip(t)
      PROVE  AloneInvariant'
  BY <1>2, <1>5, StepAlone
<1>6. ASSUME NEW t \in Request,
             \/ CommitMove(t) \/ CommitAuthor(t) \/ CommitRollback(t) \/ CommitMerge(t)
             \/ CommitOutAuthority(t) \/ CommitCancel(t) \/ Abort(t)
      PROVE  AloneInvariant'
  <2>1. /\ request' = [request EXCEPT ![t] = Idle]
        /\ \A p \in Project : Distinct(p)' /\ OneLatest(p)'
        /\ \A p \in Project : ~Authored(p) => rows'[p] = {} \/ Authored(p)'
    BY <1>6, CommitAlone
  <2>2. NoRowsYet'
    BY <1>1, <2>1 DEF NoRowsYet
  <2>3. \A u \in Request : request'[u] = Idle
    BY <2>1, AloneFrame
  <2>4. \A u \in Request :
          Later(request[u])' /\ Clears(request[u])' /\ Reverts(request[u])'
    BY <2>3, IdleTyped DEF Later, Clears, Reverts, Idle, MoveKinds
  <2>. QED BY <1>1, <2>1, <2>2, <2>4
<1>. QED BY <1>3, <1>4, <1>5, <1>6 DEF Next

LEMMA AloneInit == Init => AloneInvariant
<1> SUFFICES ASSUME Init PROVE AloneInvariant
  OBVIOUS
<1>1. \A t \in Request : request[t] = Idle
  BY DEF Init
<1>2. \A p \in Project : rows[p] = {} /\ ~ Authored(p)
  BY DEF Init, Authored
<1>3. AuthorsApart
  BY <1>1, IdleTyped DEF AuthorsApart
<1>4. \A t \in Request : Later(request[t]) /\ Clears(request[t]) /\ Reverts(request[t])
  BY <1>1, IdleAlone
<1>. QED BY <1>2, <1>3, <1>4, TypeInit DEF AloneInvariant, NoRowsYet, Distinct, OneLatest, LatestRows

LEMMA AloneStutter ==
  ASSUME AloneInvariant, UNCHANGED vars
  PROVE  AloneInvariant'
BY DEF vars, AloneInvariant, AuthorsApart, MovesAuthored, NoRowsYet, Distinct, OneLatest,
       LatestRows, Superseded, Later, Clears, Reverts, TypeOK, InStep, Authored

LEMMA AloneHolds ==
  ASSUME OneAtATime
  PROVE  Spec => []AloneInvariant
<1>1. AloneInvariant /\ [Next]_vars => AloneInvariant'
  BY AloneNext, AloneStutter
<1>. QED BY <1>1, AloneInit, PTL DEF Spec

(* What two overlapping requests break holds where requests are served one   *)
(* after the other, rollbacks, cascades and bulk changes that name a project *)
(* more than once included: no project has two latest rows.                  *)
THEOREM WorkflowAloneSingleLatest ==
  ASSUME OneAtATime
  PROVE  Spec => []SingleLatest
<1>1. AloneInvariant => SingleLatest
  <2> SUFFICES ASSUME AloneInvariant, NEW p \in Project
               PROVE  Cardinality(LatestRows(p)) <= 1
    BY DEF SingleLatest
  <2>1. OneLatest(p)
    BY DEF AloneInvariant
  <2>2. LatestRows(p) = {} \/ \E r : LatestRows(p) = {r}
    BY <2>1 DEF OneLatest
  <2>. QED BY <2>2, FS_EmptySet, FS_Singleton
<1>. QED BY <1>1, AloneHolds, PTL

-----------------------------------------------------------------------------
(* The history of a project as a walk.  Where a batch names a project once,  *)
(* no two rows of a project carry the same time.                             *)
TimesApart(p) == \A r, s \in rows[p] : r.at = s.at => r = s

Walk(p) ==
  /\ rows[p] # {} => LatestRows(p) # {}
  /\ \A l \in LatestRows(p) : \A s \in rows[p] : s # l => s.at < l.at
  /\ \A s \in rows[p] : (\A r \in rows[p] : s.at <= r.at) => s.status = "Ready"
  /\ \A r, s \in rows[p] :
       r.at < s.at /\ (\A q \in rows[p] : q.at <= r.at \/ s.at <= q.at)
         => LegalMove(r.status, s.status)

(* A request writes about a project once, and not about one still to come.   *)
Once(q) ==
  q.kind \in MoveKinds =>
    /\ \A i, j \in DOMAIN q.todo : q.todo[i] = q.todo[j] => i = j
    /\ \A i, j \in DOMAIN q.writes : q.writes[i].project = q.writes[j].project => i = j
    /\ \A i \in DOMAIN q.writes, j \in DOMAIN q.todo :
         q.writes[i].project = q.todo[j] => q.step = "flip" /\ j = 1

(* What it writes may follow the latest row.                                 *)
Lawful(q) ==
  q.kind \in MoveKinds => \A i \in DOMAIN q.writes :
    \E row \in LatestRows(q.writes[i].project) : LegalMove(row.status, q.writes[i].to)

WalkInvariant ==
  /\ AloneInvariant
  /\ \A p \in Project : TimesApart(p) /\ Walk(p) /\ (Authored(p) => rows[p] # {})
  /\ \A t \in Request : Once(request[t]) /\ Lawful(request[t])

LEMMA WalkIsPath == WalkInvariant => HistoryIsPath
<1> SUFFICES ASSUME WalkInvariant, NEW p \in Project, Authored(p)
             PROVE  /\ Cardinality(LatestRows(p)) = 1
                    /\ LatestIsNewest
                    /\ \A s \in rows[p] :
                         LET earlier == {r \in rows[p] : Before(r, s)} IN
                         IF earlier = {} THEN s.status = "Ready"
                         ELSE \A r \in earlier : (\A q \in earlier : ~Before(r, q))
                                => LegalMove(r.status, s.status)
  BY DEF HistoryIsPath
<1> USE DEF WalkInvariant, AloneInvariant
<1>0. \A q \in Project : \A r \in rows[q] : r.at \in Nat /\ r.item \in Nat
  BY WorkflowAssumption DEF TypeOK, Row
<1>1. Cardinality(LatestRows(p)) = 1
  <2>1. rows[p] # {} /\ Walk(p) /\ OneLatest(p)
    OBVIOUS
  <2>2. PICK r \in LatestRows(p) : TRUE
    BY <2>1 DEF Walk
  <2>3. LatestRows(p) = {r}
    BY <2>1 DEF OneLatest
  <2>. QED BY <2>3, FS_Singleton
<1>2. LatestIsNewest
  <2> SUFFICES ASSUME NEW q \in Project, NEW l \in LatestRows(q), NEW s \in rows[q]
               PROVE  ~Before(l, s)
    BY DEF LatestIsNewest
  <2>1. l \in rows[q] /\ (s # l => s.at < l.at)
    BY DEF Walk, LatestRows
  <2>. QED BY <1>0, <2>1 DEF Before
<1>3. ASSUME NEW s \in rows[p]
      PROVE  LET earlier == {r \in rows[p] : Before(r, s)} IN
             IF earlier = {} THEN s.status = "Ready"
             ELSE \A r \in earlier : (\A q \in earlier : ~Before(r, q))
                    => LegalMove(r.status, s.status)
  <2> DEFINE earlier == {r \in rows[p] : Before(r, s)}
  <2>1. \A r, q \in rows[p] : Before(r, q) <=> r.at < q.at
    <3> SUFFICES ASSUME NEW r \in rows[p], NEW q \in rows[p]
                 PROVE  Before(r, q) <=> r.at < q.at
      OBVIOUS
    <3>1. r.at = q.at => r = q
      BY DEF TimesApart
    <3>. QED BY <1>0, <3>1 DEF Before
  <2>2. CASE earlier = {}
    <3>1. \A r \in rows[p] : s.at <= r.at
      BY <1>0, <2>1, <2>2
    <3>. QED BY <2>2, <3>1 DEF Walk
  <2>3. ASSUME NEW r \in earlier, \A q \in earlier : ~Before(r, q)
        PROVE  LegalMove(r.status, s.status)
    <3>1. r \in rows[p] /\ r.at < s.at
      BY <2>1
    <3>2. \A q \in rows[p] : q.at <= r.at \/ s.at <= q.at
      BY <1>0, <2>1, <2>3, <3>1
    <3>. QED BY <3>1, <3>2 DEF Walk
  <2>. QED BY <2>2, <2>3
<1>. QED BY <1>1, <1>2, <1>3

(* One later row, and only it the latest, takes the walk a step further.     *)
LEMMA AppendWalk ==
  ASSUME NEW p \in Project, rows[p] \subseteq Row, TimesApart(p), Walk(p),
         NEW new \in Row, rows'[p] = Cleared(p) \cup {new}, new.latest,
         \A r \in rows[p] : r.at < new.at,
         new.status = "Ready" \/ \E l \in LatestRows(p) : LegalMove(l.status, new.status),
         \A r, s \in LatestRows(p) : r = s
  PROVE  TimesApart(p)' /\ Walk(p)' /\ rows'[p] # {}
<1> DEFINE Old(r) == [r EXCEPT !.latest = FALSE]
<1>1. \A r \in rows[p] : Old(r) \in rows'[p] /\ Old(r).at = r.at /\ Old(r).status = r.status
  BY DEF Cleared, Row
<1>2. ASSUME NEW s \in rows'[p], s # new
      PROVE  s.latest = FALSE /\ \E r \in rows[p] : s = Old(r)
  <2>1. PICK r \in rows[p] : s = Old(r)
    BY <1>2 DEF Cleared
  <2>. QED BY <2>1 DEF Row
<1>3. /\ new \in rows'[p] /\ new.at \in Nat
      /\ \A r \in rows[p] : r.at \in Nat
  BY WorkflowAssumption DEF Row
<1> HIDE DEF Old
<1>8. \A s \in rows'[p] : s # new => s.at < new.at /\ s.at \in Nat
  <2> SUFFICES ASSUME NEW s \in rows'[p], s # new
               PROVE  s.at < new.at /\ s.at \in Nat
    OBVIOUS
  <2>1. PICK r \in rows[p] : s = Old(r)
    BY <1>2
  <2>2. s.at = r.at
    BY <1>1, <2>1
  <2>. QED BY <1>3, <2>2
<1>4. TimesApart(p)'
  <2> SUFFICES ASSUME NEW r \in rows'[p], NEW s \in rows'[p], r.at = s.at
               PROVE  r = s
    BY DEF TimesApart
  <2>1. CASE r # new /\ s # new
    <3>1. PICK a \in rows[p] : r = Old(a)
      BY <1>2, <2>1
    <3>2. PICK b \in rows[p] : s = Old(b)
      BY <1>2, <2>1
    <3>3. a.at = b.at
      BY <1>1, <3>1, <3>2
    <3>. QED BY <3>1, <3>2, <3>3 DEF TimesApart
  <2>2. CASE r = new \/ s = new
    BY <1>3, <1>8, <2>2
  <2>. QED BY <2>1, <2>2
<1>5. ASSUME NEW s \in rows'[p], \A r \in rows'[p] : s.at <= r.at
      PROVE  s.status = "Ready"
  <2>1. CASE s = new
    <3>1. rows[p] = {}
      BY <1>1, <1>3, <1>5, <2>1
    <3>. QED BY <2>1, <3>1 DEF LatestRows
  <2>2. CASE s # new
    <3>1. PICK r \in rows[p] : s = Old(r)
      BY <1>2, <2>2
    <3>2. \A q \in rows[p] : r.at <= q.at
      BY <1>1, <1>5, <3>1
    <3>. QED BY <1>1, <3>1, <3>2 DEF Walk
  <2>. QED BY <2>1, <2>2
<1>6. ASSUME NEW r \in rows'[p], NEW s \in rows'[p], r.at < s.at,
             \A q \in rows'[p] : q.at <= r.at \/ s.at <= q.at
      PROVE  LegalMove(r.status, s.status)
  <2>1. r # new
    BY <1>3, <1>6, <1>8
  <2>2. PICK a \in rows[p] : r = Old(a)
    BY <1>2, <2>1
  <2>3. CASE s = new
    <3>1. CASE new.status = "Ready"
      BY <2>3, <3>1 DEF LegalMove
    <3>2. ASSUME NEW l \in LatestRows(p), LegalMove(l.status, new.status)
          PROVE  LegalMove(r.status, s.status)
      <4>1. l \in rows[p]
        BY DEF LatestRows
      <4>2. a = l
        <5>1. SUFFICES ASSUME a # l PROVE FALSE
          OBVIOUS
        <5>2. a.at < l.at
          BY <5>1 DEF Walk
        <5>3. Old(l).at <= r.at \/ s.at <= Old(l).at
          BY <1>1, <1>6, <4>1
        <5>. QED BY <1>1, <1>3, <2>2, <2>3, <4>1, <5>2, <5>3
      <4>. QED BY <1>1, <2>2, <2>3, <3>2, <4>2
    <3>. QED BY <3>1, <3>2
  <2>4. CASE s # new
    <3>1. PICK b \in rows[p] : s = Old(b)
      BY <1>2, <2>4
    <3>2. a.at < b.at /\ \A q \in rows[p] : q.at <= a.at \/ b.at <= q.at
      BY <1>1, <1>6, <2>2, <3>1
    <3>. QED BY <1>1, <2>2, <3>1, <3>2 DEF Walk
  <2>. QED BY <2>3, <2>4
<1>7. \A l \in rows'[p] : l.latest => l = new
  BY <1>2
<1>9. Walk(p)'
  BY <1>3, <1>5, <1>6, <1>7, <1>8 DEF Walk, LatestRows
<1>. QED BY <1>3, <1>4, <1>9

(* A rollback takes it a step back.                                          *)
LEMMA RollbackWalk ==
  ASSUME NEW p \in Project, rows[p] \subseteq Row, TimesApart(p), Walk(p),
         \A r, s \in LatestRows(p) : r = s,
         NEW cur \in LatestRows(p), NEW prev \in Superseded(p),
         \A row \in Superseded(p) : row.at <= prev.at,
         rows'[p] = (rows[p] \ {cur, prev}) \cup {[prev EXCEPT !.latest = TRUE]}
  PROVE  TimesApart(p)' /\ Walk(p)' /\ rows'[p] # {}
<1> DEFINE new == [prev EXCEPT !.latest = TRUE]
<1>1. /\ cur \in rows[p] /\ prev \in rows[p] /\ cur # prev
      /\ \A r \in rows[p] : r.at \in Nat /\ r \in Row
  BY WorkflowAssumption DEF LatestRows, Superseded, Row
<1>2. new.at = prev.at /\ new.status = prev.status /\ new.latest
  BY <1>1 DEF Row
<1> HIDE DEF new
<1>3. \A r \in rows[p] \ {cur, prev} : ~r.latest /\ r.at < prev.at /\ r.at < cur.at
  <2> SUFFICES ASSUME NEW r \in rows[p] \ {cur, prev}
               PROVE  ~r.latest /\ r.at < prev.at /\ r.at < cur.at
    OBVIOUS
  <2>1. ~r.latest /\ r \in Superseded(p)
    BY DEF LatestRows, Superseded
  <2>2. r.at <= prev.at /\ r.at # prev.at
    BY <1>1, <2>1 DEF TimesApart
  <2>3. r.at < cur.at
    BY <1>1 DEF Walk
  <2>. QED BY <1>1, <2>1, <2>2, <2>3
<1>4. prev.at < cur.at
  BY <1>1 DEF Walk
<1>5. /\ rows'[p] = (rows[p] \ {cur, prev}) \cup {new}
      /\ new \in rows'[p]
  BY DEF new
<1>6. ASSUME NEW s \in rows'[p]
      PROVE  \E r \in rows[p] \ {cur} : /\ s.at = r.at /\ s.status = r.status
                                        /\ s = new <=> r = prev
                                        /\ s # new => s = r
  BY <1>1, <1>2, <1>3, <1>5
<1>7. \A r \in rows[p] \ {cur} : \E s \in rows'[p] : s.at = r.at
  BY <1>2, <1>5
<1>8. TimesApart(p)'
  BY <1>6 DEF TimesApart
<1>9. ASSUME NEW s \in rows'[p], \A r \in rows'[p] : s.at <= r.at
      PROVE  s.status = "Ready"
  <2>1. PICK a \in rows[p] \ {cur} : s.at = a.at /\ s.status = a.status
    BY <1>6
  <2>2. \A r \in rows[p] \ {cur} : a.at <= r.at
    BY <1>7, <1>9, <2>1
  <2>3. a.at <= cur.at
    BY <1>1, <1>3, <1>4, <2>1
  <2>. QED BY <2>1, <2>2, <2>3 DEF Walk
<1>10. ASSUME NEW r \in rows'[p], NEW s \in rows'[p], r.at < s.at,
              \A q \in rows'[p] : q.at <= r.at \/ s.at <= q.at
       PROVE  LegalMove(r.status, s.status)
  <2>1. PICK a \in rows[p] \ {cur} : r.at = a.at /\ r.status = a.status
    BY <1>6
  <2>2. PICK b \in rows[p] \ {cur} : s.at = b.at /\ s.status = b.status
    BY <1>6
  <2>3. \A q \in rows[p] \ {cur} : q.at <= a.at \/ b.at <= q.at
    BY <1>7, <1>10, <2>1, <2>2
  <2>4. b.at <= cur.at
    BY <1>1, <1>3, <1>4, <2>2
  <2>. QED BY <1>10, <2>1, <2>2, <2>3, <2>4 DEF Walk
<1>11. \A l \in rows'[p] : l.latest => l = new
  BY <1>3, <1>5
<1>12. \A s \in rows'[p] : s # new => s.at < new.at
  BY <1>2, <1>3, <1>5
<1>13. Walk(p)'
  BY <1>2, <1>5, <1>9, <1>10, <1>11, <1>12 DEF Walk, LatestRows
<1>. QED BY <1>5, <1>8, <1>13

-----------------------------------------------------------------------------
(* The request keeps to what may follow the latest rows.                     *)
LEMMA BeginLawful ==
  ASSUME OneAtATime, ListedOnce, TypeOK, NEW t \in Request,
         \/ BeginAuthor(t) \/ BeginMove(t) \/ BeginRollback(t) \/ BeginMerge(t)
         \/ BeginOutAuthority(t) \/ BeginCancel(t)
  PROVE  \A u \in Request : Once(request'[u]) /\ Lawful(request'[u])
<1>1. PICK q : Open(t, q) /\ Once(q) /\ Lawful(q)
  <2>1. CASE BeginMove(t)
    <3> HIDE DEF NewStamp
    <3>1. PICK kind \in MoveKinds : \E batch \in Lists(kind) :
            Open(t, [kind |-> kind, step |-> "check", todo |-> batch,
                     writes |-> <<>>, at |-> NewStamp])
      BY <2>1 DEF BeginMove
    <3>2. PICK batch \in Lists(kind) :
            Open(t, [kind |-> kind, step |-> "check", todo |-> batch,
                     writes |-> <<>>, at |-> NewStamp])
      BY <3>1
    <3>3. \A i, j \in DOMAIN batch : batch[i] = batch[j] => i = j
      <4>1. batch \in Batches \/ \E p \in Project : batch = <<p>>
        BY <3>2 DEF Lists
      <4>. QED BY <4>1 DEF ListedOnce
    <3> DEFINE q == [kind |-> kind, step |-> "check", todo |-> batch,
                     writes |-> <<>>, at |-> NewStamp]
    <3>4. q.todo = batch /\ q.writes = <<>>
      OBVIOUS
    <3> HIDE DEF q
    <3>5. Once(q) /\ Lawful(q)
      BY <3>3, <3>4 DEF Once, Lawful
    <3>. QED BY <3>2, <3>5 DEF q
  <2>2. CASE ~ BeginMove(t)
    <3>1. PICK q : q.kind \notin MoveKinds /\ Open(t, q)
      BY <2>2 DEF BeginAuthor, BeginRollback, BeginMerge, BeginOutAuthority, BeginCancel,
                  MoveKinds
    <3>. QED BY <3>1 DEF Once, Lawful
  <2>. QED BY <2>1, <2>2
<1>2. request' = [request EXCEPT ![t] = q]
  BY <1>1 DEF Open
<1>. QED BY <1>1, <1>2, AloneFrame

LEMMA CheckLawful ==
  ASSUME OneAtATime, TypeOK, MovesAuthored, NEW t \in Request, Check(t),
         Once(request[t]), Lawful(request[t])
  PROVE  \A u \in Request : Once(request'[u]) /\ Lawful(request'[u])
<1> DEFINE req == request[t]
           p == Head(req.todo)
<1>1. PICK w \in Write, q \in MoveRow :
        /\ req \in MoveRow /\ req.todo # <<>> /\ req.step = "check"
        /\ p = req.todo[1] /\ w.project = p /\ Planned(t, p, w)
        /\ q.kind = req.kind /\ q.step = "flip" /\ q.todo = req.todo
        /\ q.writes = Append(req.writes, w)
        /\ request' = [request EXCEPT ![t] = q]
  BY CheckPlans
<1>2. req.writes \in Seq(Write) /\ req.kind \in MoveKinds /\ 1 \in DOMAIN req.todo
  BY <1>1, LenProperties, EmptySeq DEF MoveRow
<1> DEFINE n == Len(req.writes) + 1
<1>3. /\ DOMAIN q.writes = 1..n /\ DOMAIN req.writes = 1..Len(req.writes) /\ n \in Nat
      /\ q.writes[n] = w
      /\ \A i \in DOMAIN req.writes : q.writes[i] = req.writes[i]
  BY <1>1, <1>2, LenProperties
<1>4. \A i \in DOMAIN q.writes : i = n \/ i \in DOMAIN req.writes
  BY <1>2, <1>3, LenProperties
<1>5. \A i \in DOMAIN req.writes : req.writes[i].project # p
  BY <1>1, <1>2 DEF Once
<1>6. Once(q)
  <2>1. \A i, j \in DOMAIN q.todo : q.todo[i] = q.todo[j] => i = j
    BY <1>1, <1>2 DEF Once
  <2>2. \A i, j \in DOMAIN q.writes : q.writes[i].project = q.writes[j].project => i = j
    <3> SUFFICES ASSUME NEW i \in DOMAIN q.writes, NEW j \in DOMAIN q.writes,
                        q.writes[i].project = q.writes[j].project
                 PROVE  i = j
      OBVIOUS
    <3>1. CASE i \in DOMAIN req.writes /\ j \in DOMAIN req.writes
      BY <1>2, <1>3, <3>1 DEF Once
    <3>2. CASE i = n \/ j = n
      BY <1>1, <1>3, <1>4, <1>5, <3>2
    <3>. QED BY <1>4, <3>1, <3>2
  <2>3. \A i \in DOMAIN q.writes, j \in DOMAIN q.todo :
          q.writes[i].project = q.todo[j] => q.step = "flip" /\ j = 1
    <3> SUFFICES ASSUME NEW i \in DOMAIN q.writes, NEW j \in DOMAIN q.todo,
                        q.writes[i].project = q.todo[j]
                 PROVE  j = 1
      BY <1>1
    <3>1. CASE i = n
      BY <1>1, <1>2, <1>3, <3>1 DEF Once
    <3>2. CASE i \in DOMAIN req.writes
      BY <1>1, <1>2, <1>3, <3>2 DEF Once
    <3>. QED BY <1>4, <3>1, <3>2
  <2>. QED BY <2>1, <2>2, <2>3 DEF Once
<1>7. \E row \in LatestRows(p) : LegalMove(row.status, w.to)
  <2>1. PICK seen \in SeenStatus(t, p) : \E o \in Outcomes(req.kind, p, seen) : w.to = o[1]
    BY <1>1 DEF Planned
  <2>2. LegalMove(seen, w.to)
    BY <1>2, <2>1, LegalOutcome
  <2>3. OwnWrites(t, p) = {}
    BY <1>5 DEF OwnWrites
  <2>4. \E row \in LatestRows(p) : row.status = seen
    BY <2>1, <2>3 DEF SeenStatus
  <2>. QED BY <2>2, <2>4
<1>8. Lawful(q)
  <2> SUFFICES ASSUME NEW i \in DOMAIN q.writes
               PROVE  \E row \in LatestRows(q.writes[i].project) :
                        LegalMove(row.status, q.writes[i].to)
    BY DEF Lawful
  <2>1. CASE i = n
    BY <1>1, <1>3, <1>7, <2>1
  <2>2. CASE i \in DOMAIN req.writes
    BY <1>2, <1>3, <2>2 DEF Lawful
  <2>. QED BY <1>4, <2>1, <2>2
<1>. QED BY <1>1, <1>6, <1>8, AloneFrame

LEMMA ShrinkLawful ==
  ASSUME OneAtATime, TypeOK, NEW t \in Request, Skip(t) \/ Flip(t),
         Once(request[t]), Lawful(request[t])
  PROVE  \A u \in Request : Once(request'[u]) /\ Lawful(request'[u])
<1> DEFINE req == request[t]
           m == Len(req.writes)
           now == {Id(row) : row \in rows[Head(req.todo)]}
<1>1. PICK q \in MoveRow :
        /\ req \in MoveRow /\ req.todo # <<>>
        /\ q.step = "check" /\ q.kind = req.kind /\ q.todo = Tail(req.todo)
        /\ \/ q.writes = req.writes
           \/ q.writes = [req.writes EXCEPT ![m] = [req.writes[m] EXCEPT !.flips = now]]
        /\ request' = [request EXCEPT ![t] = q]
  BY ListShrinks
<1>2. req.kind \in MoveKinds /\ \A i \in DOMAIN req.writes : req.writes[i] \in Write
  BY <1>1, ElementOfSeq, LenProperties DEF MoveRow
<1>3. /\ DOMAIN q.writes = DOMAIN req.writes
      /\ \A i \in DOMAIN req.writes : q.writes[i].project = req.writes[i].project
                                      /\ q.writes[i].to = req.writes[i].to
  BY <1>1, <1>2 DEF Write
<1>4. \A j \in DOMAIN q.todo : /\ j + 1 \in DOMAIN req.todo /\ q.todo[j] = req.todo[j + 1]
                               /\ j \in Nat \ {0}
  BY <1>1, HeadTailProperties, LenProperties DEF MoveRow
<1>5. Once(q)
  <2>1. \A i, j \in DOMAIN q.todo : q.todo[i] = q.todo[j] => i = j
    <3> SUFFICES ASSUME NEW i \in DOMAIN q.todo, NEW j \in DOMAIN q.todo,
                        q.todo[i] = q.todo[j]
                 PROVE  i = j
      OBVIOUS
    <3>1. i + 1 = j + 1
      BY <1>2, <1>4 DEF Once
    <3>. QED BY <1>4, <3>1
  <2>2. \A i, j \in DOMAIN q.writes : q.writes[i].project = q.writes[j].project => i = j
    BY <1>2, <1>3 DEF Once
  <2>3. \A i \in DOMAIN q.writes, j \in DOMAIN q.todo : q.writes[i].project # q.todo[j]
    <3> SUFFICES ASSUME NEW i \in DOMAIN q.writes, NEW j \in DOMAIN q.todo,
                        q.writes[i].project = q.todo[j]
                 PROVE  FALSE
      OBVIOUS
    <3>1. j + 1 = 1
      BY <1>2, <1>3, <1>4 DEF Once
    <3>. QED BY <1>4, <3>1
  <2>. QED BY <2>1, <2>2, <2>3 DEF Once
<1>6. Lawful(q)
  BY <1>1, <1>2, <1>3 DEF Lawful
<1>. QED BY <1>1, <1>5, <1>6, AloneFrame

-----------------------------------------------------------------------------
(* Each commit takes the walk of a project a step on or back, or leaves it.  *)
LEMMA MoveWalks ==
  ASSUME WalkInvariant, NEW t \in Request, CommitMove(t), NEW p \in Project
  PROVE  TimesApart(p)' /\ Walk(p)' /\ (rows[p] # {} => rows'[p] # {})
<1> USE DEF WalkInvariant, AloneInvariant
<1> DEFINE own == OwnWrites(t, p)
<1>1. CASE own = {}
  <2>1. rows'[p] = rows[p]
    BY <1>1, MoveRows
  <2>. QED BY <2>1 DEF TimesApart, Walk, LatestRows
<1>2. CASE own # {}
  <2>1. PICK i : i \in own
    BY <1>2
  <2>2. /\ request[t] \in MoveRow /\ request[t].kind \in MoveKinds
        /\ i \in Nat /\ i \in DOMAIN request[t].writes /\ request[t].writes[i].project = p
    BY <2>1, MoveRows DEF MoveRow, OwnWrites
  <2>3. own = {i}
    BY <2>1, <2>2 DEF Once, OwnWrites
  <2> DEFINE new == Written(t, p, i)
  <2>4. rows'[p] = Cleared(p) \cup {new}
    BY <1>2, <2>3, MoveRows
  <2>5. new \in Row
    <3>1. new \in AfterMove(t, p)
      BY <2>1 DEF AfterMove, Written
    <3>. QED BY <2>2, <3>1, AfterMoveTyped
  <2>6. new.latest
    BY <2>2, <2>3 DEF Written
  <2>7. \A r \in rows[p] : r.at < new.at
    BY <2>2 DEF Later, Written
  <2>8. \E l \in LatestRows(p) : LegalMove(l.status, new.status)
    BY <2>2 DEF Lawful, Written
  <2>9. rows[p] \subseteq Row /\ \A r, s \in LatestRows(p) : r = s
    BY DEF TypeOK, OneLatest
  <2> HIDE DEF new
  <2>. QED BY <2>4, <2>5, <2>6, <2>7, <2>8, <2>9, AppendWalk
<1>. QED BY <1>1, <1>2

LEMMA CascadeWalks ==
  ASSUME WalkInvariant, NEW b, NEW keep, NEW at \in Stamp, Cascade(b, keep, at),
         \A p \in Project : \A row \in rows[p] : row.at < at, NEW p \in Project
  PROVE  TimesApart(p)' /\ Walk(p)' /\ (rows[p] # {} => rows'[p] # {})
<1> USE DEF WalkInvariant, AloneInvariant
<1>1. CASE rows'[p] = rows[p]
  BY <1>1 DEF TimesApart, Walk, LatestRows
<1>2. CASE rows'[p] = Cleared(p) \cup {ReadyRow(at)}
  <2> DEFINE new == ReadyRow(at)
  <2>1. new \in Row /\ new.at = at /\ new.latest /\ new.status = "Ready"
    BY DEF ReadyRow, Row, Stamp, Status
  <2>2. rows[p] \subseteq Row /\ \A r, s \in LatestRows(p) : r = s
    BY DEF TypeOK, OneLatest
  <2>3. rows'[p] = Cleared(p) \cup {new}
    BY <1>2
  <2> HIDE DEF new
  <2>. QED BY <2>1, <2>2, <2>3, AppendWalk
<1>. QED BY <1>1, <1>2, CascadeAlone

LEMMA AuthorWalks ==
  ASSUME WalkInvariant, NEW t \in Request, CommitAuthor(t), NEW p \in Project
  PROVE  TimesApart(p)' /\ Walk(p)' /\ (Authored(p)' => rows'[p] # {})
<1> USE DEF WalkInvariant, AloneInvariant
<1>1. request[t] \in AuthorRow
  BY RequestFields DEF CommitAuthor, TypeOK
<1>2. CASE p = request[t].project
  <2> DEFINE new == ReadyRow(request[t].at)
  <2>1. rows'[p] = {new}
    BY <1>1, <1>2 DEF CommitAuthor, TypeOK, ReadyRow
  <2>2. rows[p] = {}
    BY <1>2 DEF CommitAuthor, AuthorsApart, NoRowsYet
  <2>3. new \in Row /\ new.latest /\ new.status = "Ready"
    BY <1>1 DEF AuthorRow, ReadyRow, Row, Stamp, Status
  <2>4. Cleared(p) = {}
    BY <2>2 DEF Cleared
  <2> HIDE DEF new
  <2>. QED BY <2>1, <2>2, <2>3, <2>4, AppendWalk DEF OneLatest
<1>3. CASE p # request[t].project
  <2>1. rows'[p] = rows[p] /\ home'[p] = home[p]
    BY <1>1, <1>3 DEF CommitAuthor, TypeOK
  <2>. QED BY <2>1 DEF TimesApart, Walk, LatestRows, Authored
<1>. QED BY <1>2, <1>3

LEMMA RollbackWalks ==
  ASSUME WalkInvariant, NEW t \in Request, CommitRollback(t), NEW p \in Project
  PROVE  TimesApart(p)' /\ Walk(p)' /\ (rows[p] # {} => rows'[p] # {})
<1> USE DEF WalkInvariant, AloneInvariant
<1>1. CASE p # request[t].project
  <2>1. rows'[p] = rows[p]
    BY <1>1, RollbackRows
  <2>. QED BY <2>1 DEF TimesApart, Walk, LatestRows
<1>2. CASE p = request[t].project
  <2>1. PICK cur \in LatestRows(p), prev \in Superseded(p) :
          /\ \A row \in Superseded(p) : row.at <= prev.at
          /\ rows'[p] = (rows[p] \ {cur, prev}) \cup {[prev EXCEPT !.latest = TRUE]}
    BY <1>2, RollbackRows
  <2>2. rows[p] \subseteq Row /\ \A r, s \in LatestRows(p) : r = s
    BY DEF TypeOK, OneLatest
  <2>. QED BY <2>1, <2>2, RollbackWalk
<1>. QED BY <1>1, <1>2

LEMMA MoveGrowsHome ==
  ASSUME MovesAuthored, NEW t \in Request, CommitMove(t), NEW p \in Project, Authored(p)'
  PROVE  Authored(p)
<1>1. CASE OwnWrites(t, p) = {}
  BY <1>1 DEF CommitMove, Authored
<1>2. CASE OwnWrites(t, p) # {}
  BY <1>2 DEF MovesAuthored, OwnWrites, CommitMove, InStep
<1>. QED BY <1>1, <1>2

LEMMA CommitWalks ==
  ASSUME WalkInvariant, NEW t \in Request, NEW p \in Project,
         \/ CommitMove(t) \/ CommitAuthor(t) \/ CommitRollback(t) \/ CommitMerge(t)
         \/ CommitOutAuthority(t) \/ CommitCancel(t) \/ Abort(t)
  PROVE  TimesApart(p)' /\ Walk(p)' /\ (Authored(p)' => rows'[p] # {})
<1> USE DEF WalkInvariant, AloneInvariant
<1>0. ASSUME TimesApart(p)' /\ Walk(p)' /\ (rows[p] # {} => rows'[p] # {}),
             Authored(p)' => Authored(p)
      PROVE  TimesApart(p)' /\ Walk(p)' /\ (Authored(p)' => rows'[p] # {})
  BY <1>0
<1>1. CASE CommitMove(t)
  <2>1. Authored(p)' => Authored(p)
    BY <1>1, MoveGrowsHome
  <2>. QED BY <1>0, <1>1, <2>1, MoveWalks
<1>2. CASE CommitAuthor(t)
  BY <1>2, AuthorWalks
<1>3. CASE CommitRollback(t)
  <2>1. home' = home
    BY <1>3 DEF CommitRollback
  <2>. QED BY <1>0, <1>3, <2>1, RollbackWalks DEF Authored
<1>4. CASE CommitMerge(t) \/ CommitCancel(t)
  <2>1. request[t].kind \in {"merge", "cancel"} /\ home' = home
    BY <1>4 DEF CommitMerge, CommitCancel
  <2>2. request[t].at \in Stamp
    BY <2>1, RequestFields DEF TypeOK
  <2>3. \A r \in Project : \A row \in rows[r] : row.at < request[t].at
    BY <2>1 DEF Later
  <2>4. PICK b, keep : Cascade(b, keep, request[t].at)
    BY <1>4 DEF CommitMerge, CommitCancel
  <2>5. TimesApart(p)' /\ Walk(p)' /\ (rows[p] # {} => rows'[p] # {})
    BY <2>2, <2>3, <2>4, CascadeWalks
  <2>. QED BY <1>0, <2>1, <2>5 DEF Authored
<1>5. CASE CommitOutAuthority(t)
  <2>1. NewStamp \in Stamp
    BY <1>5, NewStampTyped, WorkflowAssumption DEF CommitOutAuthority, Stamp
  <2>2. \A r \in Project : \A row \in rows[r] : row.at < NewStamp
    BY NewStampLater
  <2>3. Cascade(request[t].book, Settled, NewStamp) /\ home' = home
    BY <1>5 DEF CommitOutAuthority
  <2> HIDE DEF NewStamp
  <2>4. TimesApart(p)' /\ Walk(p)' /\ (rows[p] # {} => rows'[p] # {})
    BY <2>1, <2>2, <2>3, CascadeWalks
  <2>. QED BY <1>0, <2>3, <2>4 DEF Authored
<1>6. CASE Abort(t)
  BY <1>6 DEF Abort, TimesApart, Walk, LatestRows, Authored
<1>. QED BY <1>1, <1>2, <1>3, <1>4, <1>5, <1>6

LEMMA WalkNext ==
  ASSUME OneAtATime, ListedOnce, WalkInvariant, Next
  PROVE  WalkInvariant'
<1>0. AloneInvariant /\ TypeOK /\ MovesAuthored /\ AloneInvariant'
  BY AloneNext DEF WalkInvariant, AloneInvariant
<1>1. ASSUME UNCHANGED <<home, rows>>,
             \A u \in Request : Once(request'[u]) /\ Lawful(request'[u])
      PROVE  WalkInvariant'
  <2>1. \A p \in Project : TimesApart(p)' /\ Walk(p)' /\ (Authored(p)' => rows'[p] # {})
    BY <1>1 DEF WalkInvariant, TimesApart, Walk, LatestRows, Authored
  <2>2. \A u \in Request : Once(request[u])' /\ Lawful(request[u])'
    BY <1>1 DEF Once, Lawful, LatestRows
  <2>. QED BY <1>0, <2>1, <2>2 DEF WalkInvariant
<1>2. CASE \E b \in Plan :
             \/ GeneratePart3(b) \/ CorrectProjects(b)
             \/ SetPhase(b) \/ SetLatest(b) \/ CreatePlan(b) \/ RestorePlan(b)
  <2>1. UNCHANGED <<home, rows, request>>
    BY <1>0, <1>2, PlanStepTyped
  <2>. QED BY <1>1, <2>1 DEF WalkInvariant
<1>3. ASSUME NEW t \in Request,
             \/ BeginAuthor(t) \/ BeginMove(t) \/ BeginRollback(t) \/ BeginMerge(t)
             \/ BeginOutAuthority(t) \/ BeginCancel(t)
      PROVE  WalkInvariant'
  BY <1>0, <1>1, <1>3, BeginAlone, BeginLawful
<1>4. ASSUME NEW t \in Request, Check(t) \/ Skip(t) \/ Flip(t)
      PROVE  WalkInvariant'
  <2>1. UNCHANGED <<home, rows>>
    BY <1>4 DEF Check, Skip, Flip
  <2>2. Once(request[t]) /\ Lawful(request[t])
    BY DEF WalkInvariant
  <2>. QED BY <1>0, <1>1, <1>4, <2>1, <2>2, CheckLawful, ShrinkLawful
<1>5. ASSUME NEW t \in Request,
             \/ CommitMove(t) \/ CommitAuthor(t) \/ CommitRollback(t) \/ CommitMerge(t)
             \/ CommitOutAuthority(t) \/ CommitCancel(t) \/ Abort(t)
      PROVE  WalkInvariant'
  <2>1. \A p \in Project : TimesApart(p)' /\ Walk(p)' /\ (Authored(p)' => rows'[p] # {})
    BY <1>5, CommitWalks
  <2>2. \A u \in Request : request'[u] = Idle
    BY <1>0, <1>5, CommitAlone, AloneFrame
  <2>3. \A u \in Request : Once(request[u])' /\ Lawful(request[u])'
    BY <2>2, IdleTyped DEF Once, Lawful
  <2>. QED BY <1>0, <2>1, <2>3 DEF WalkInvariant
<1>. QED BY <1>2, <1>3, <1>4, <1>5 DEF Next

LEMMA WalkInit == Init => WalkInvariant
<1> SUFFICES ASSUME Init PROVE WalkInvariant
  OBVIOUS
<1>1. \A p \in Project : rows[p] = {} /\ ~ Authored(p)
  BY DEF Init, Authored
<1>2. \A t \in Request : request[t] = Idle
  BY DEF Init
<1>. QED BY <1>1, <1>2, AloneInit, IdleTyped
         DEF WalkInvariant, TimesApart, Walk, LatestRows, Once, Lawful

(* Served one after the other, and with batches that name a project once,    *)
(* the requests leave every project a history that reads as one walk through *)
(* the workflow: it starts at Ready, takes only moves the handlers allow or  *)
(* a reset to Ready, and ends in its one latest row.  A rollback takes back  *)
(* the last step of the walk, never another one.                             *)
THEOREM WorkflowHistoryIsPath ==
  ASSUME OneAtATime, ListedOnce
  PROVE  Spec => []HistoryIsPath
<1>1. WalkInvariant /\ [Next]_vars => WalkInvariant'
  <2>1. ASSUME WalkInvariant, UNCHANGED vars PROVE WalkInvariant'
    <3>1. AloneInvariant'
      BY <2>1, AloneStutter DEF WalkInvariant
    <3>. QED BY <2>1, <3>1 DEF WalkInvariant, vars, TimesApart, Walk, LatestRows, Authored,
                               Once, Lawful
  <2>. QED BY <2>1, WalkNext
<1>. QED BY <1>1, WalkInit, WalkIsPath, PTL DEF Spec

-----------------------------------------------------------------------------
(* A closed book.  The plan a request writes under was no book when it read  *)
(* the plan; only another request could have closed the book since.          *)
Unbooked(q) ==
  /\ q.kind \in MoveKinds => \A i \in DOMAIN q.writes :
       /\ ~plan[q.writes[i].plan].booked
       /\ q.kind # "owner" => q.writes[i].plan = home[q.writes[i].project]
  /\ q.kind = "rollback" => Authored(q.project) /\ ~plan[home[q.project]].booked
  /\ q.kind = "cancel" => plan[q.book].live

BookInvariant ==
  /\ AloneInvariant /\ BookedPlanSettled
  /\ \A t \in Request : Unbooked(request[t])

(* No step of the plan itself closes a book or removes the plan.             *)
LEMMA PlanStepUnbooks ==
  ASSUME TypeOK, NEW b \in Plan,
         \/ GeneratePart3(b) \/ CorrectProjects(b)
         \/ SetPhase(b) \/ SetLatest(b) \/ CreatePlan(b) \/ RestorePlan(b)
  PROVE  \A q \in Plan : /\ plan'[q].booked => plan[q].booked
                         /\ plan[q].live => plan'[q].live
<1>1. \A q \in Plan : plan[q] \in PlanRow
  BY DEF TypeOK
<1>2. CASE GeneratePart3(b)
  BY <1>2 DEF GeneratePart3
<1>3. CASE CorrectProjects(b)
  BY <1>1, <1>3 DEF CorrectProjects, TypeOK, PlanRow
<1>4. CASE SetPhase(b)
  BY <1>1, <1>4 DEF SetPhase, TypeOK, PlanRow
<1>5. CASE SetLatest(b)
  <2>1. PICK latest \in BOOLEAN : plan' = [q \in Plan |->
                 [plan[q] EXCEPT !.latest = IF q = b THEN latest
                                            ELSE @ /\ ~latest]]
    BY <1>5 DEF SetLatest
  <2> SUFFICES ASSUME NEW q \in Plan
               PROVE  plan'[q].booked = plan[q].booked /\ plan'[q].live = plan[q].live
    OBVIOUS
  <2>2. PICK x : plan'[q] = [plan[q] EXCEPT !.latest = x]
    BY <2>1
  <2>. QED BY <1>1, <2>2 DEF PlanRow
<1>6. CASE CreatePlan(b)
  BY <1>1, <1>6 DEF CreatePlan, PlanRow
<1>7. CASE RestorePlan(b)
  BY <1>1, <1>7 DEF RestorePlan, TypeOK, PlanRow
<1>. QED BY <1>2, <1>3, <1>4, <1>5, <1>6, <1>7

(* What a request writes about.                                              *)
LEMMA WritesTyped ==
  ASSUME TypeOK, MovesAuthored, NEW t \in Request, request[t].kind \in MoveKinds,
         NEW i \in DOMAIN request[t].writes
  PROVE  /\ request[t].writes[i] \in Write
         /\ request[t].writes[i].plan \in Plan
         /\ request[t].writes[i].project \in Project
         /\ Authored(request[t].writes[i].project)
         /\ home[request[t].writes[i].project] \in Plan
<1>1. request[t].writes[i] \in Write
  BY RequestFields, ElementOfSeq, LenProperties DEF TypeOK, MoveRow
<1>2. Authored(request[t].writes[i].project)
  BY DEF MovesAuthored
<1>. QED BY <1>1, <1>2 DEF Write, Authored, TypeOK

LEMMA BeginUnbooked ==
  ASSUME OneAtATime, TypeOK, NEW t \in Request,
         \/ BeginAuthor(t) \/ BeginMove(t) \/ BeginRollback(t) \/ BeginMerge(t)
         \/ BeginOutAuthority(t) \/ BeginCancel(t)
  PROVE  \A u \in Request : Unbooked(request'[u])
<1>1. PICK q : Open(t, q) /\ Unbooked(q)
  <2> HIDE DEF NewStamp
  <2>1. CASE BeginMove(t)
    <3>1. PICK kind \in MoveKinds : \E batch \in Lists(kind) :
            Open(t, [kind |-> kind, step |-> "check", todo |-> batch,
                     writes |-> <<>>, at |-> NewStamp])
      BY <2>1 DEF BeginMove
    <3>0. PICK batch \in Lists(kind) :
            Open(t, [kind |-> kind, step |-> "check", todo |-> batch,
                     writes |-> <<>>, at |-> NewStamp])
      BY <3>1
    <3> DEFINE q == [kind |-> kind, step |-> "check", todo |-> batch,
                     writes |-> <<>>, at |-> NewStamp]
    <3>2. q.kind # "rollback" /\ q.kind # "cancel" /\ q.writes = <<>>
      BY DEF MoveKinds
    <3> HIDE DEF q
    <3>3. Unbooked(q)
      BY <3>2 DEF Unbooked
    <3>. QED BY <3>0, <3>3 DEF q
  <2>2. CASE BeginRollback(t)
    <3>0. PICK p \in Project : \E cur \in LatestRows(p), prev \in Superseded(p) :
            /\ Working(home[p])
            /\ Open(t, [kind |-> "rollback", project |-> p, cur |-> Id(cur),
                        prev |-> Id(prev),
                        at |-> IF cur.at > prev.at THEN cur.at ELSE prev.at])
      BY <2>2 DEF BeginRollback
    <3>1. PICK q : Working(home[p]) /\ q.kind = "rollback" /\ q.project = p /\ Open(t, q)
      <4>1. PICK cur, prev :
              /\ Working(home[p])
              /\ Open(t, [kind |-> "rollback", project |-> p, cur |-> Id(cur),
                          prev |-> Id(prev),
                          at |-> IF cur.at > prev.at THEN cur.at ELSE prev.at])
        BY <3>0
      <4> DEFINE q == [kind |-> "rollback", project |-> p, cur |-> Id(cur),
                       prev |-> Id(prev),
                       at |-> IF cur.at > prev.at THEN cur.at ELSE prev.at]
      <4>2. q.kind = "rollback" /\ q.project = p /\ Open(t, q)
        BY <4>1
      <4> HIDE DEF q
      <4>. QED BY <4>1, <4>2
    <3>2. Authored(p) /\ ~plan[home[p]].booked
      BY <3>1, WorkflowAssumption DEF Working, Authored
    <3>. QED BY <3>1, <3>2 DEF Unbooked, MoveKinds
  <2>3. CASE BeginCancel(t)
    <3>1. PICK b \in Plan : \E q :
            plan[b].live /\ q.kind = "cancel" /\ q.book = b /\ Open(t, q)
      BY <2>3 DEF BeginCancel
    <3>2. PICK q : plan[b].live /\ q.kind = "cancel" /\ q.book = b /\ Open(t, q)
      BY <3>1
    <3>. QED BY <3>2 DEF Unbooked, MoveKinds
  <2>4. CASE BeginAuthor(t) \/ BeginMerge(t) \/ BeginOutAuthority(t)
    <3>1. PICK q : q.kind \in {"author", "merge", "out_authority"} /\ Open(t, q)
      <4>1. CASE BeginAuthor(t)
        BY <4>1 DEF BeginAuthor
      <4>2. CASE BeginMerge(t)
        BY <4>2 DEF BeginMerge
      <4>3. CASE BeginOutAuthority(t)
        BY <4>3 DEF BeginOutAuthority
      <4>. QED BY <2>4, <4>1, <4>2, <4>3
    <3>. QED BY <3>1 DEF Unbooked, MoveKinds
  <2>. QED BY <2>1, <2>2, <2>3, <2>4
<1>2. request' = [request EXCEPT ![t] = q]
  BY <1>1 DEF Open
<1>. QED BY <1>1, <1>2, AloneFrame

(* The plan of a planned write is no book: the handler checks it, or the     *)
(* project is still Verified, which no project of a closed book is.          *)
LEMMA PlannedUnbooked ==
  ASSUME BookInvariant, NEW t \in Request, request[t].kind \in MoveKinds,
         NEW p \in Project, Authored(p), NEW w, Planned(t, p, w)
  PROVE  ~plan[w.plan].booked /\ (request[t].kind # "owner" => w.plan = home[p])
<1> USE DEF BookInvariant, AloneInvariant
<1> DEFINE kind == request[t].kind
<1>1. PICK seen \in SeenStatus(t, p) : \E o \in Outcomes(kind, p, seen) :
        w.to = o[1] /\ w.plan = o[2]
  BY DEF Planned
<1>2. PICK o \in Outcomes(kind, p, seen) : w.to = o[1] /\ w.plan = o[2]
  BY <1>1
<1>3. CASE kind = "owner"
  BY <1>2, <1>3 DEF Outcomes, Accepting, Working
<1>4. CASE kind = "staff"
  BY <1>2, <1>4 DEF Outcomes, Working
<1>5. CASE kind = "bulk"
  BY <1>2, <1>5 DEF Outcomes, Working
<1>6. CASE kind = "promote"
  <2>1. o[2] = home[p] /\ seen = "Verified"
    BY <1>2, <1>6 DEF Outcomes
  <2>2. CASE OwnWrites(t, p) = {}
    <3>1. \E row \in LatestRows(p) : row.status = "Verified"
      BY <1>1, <2>1, <2>2 DEF SeenStatus
    <3>2. home[p] \in Plan /\ p \in Members(home[p])
      BY DEF TypeOK, Authored, Members
    <3>3. ~plan[home[p]].booked
      BY <3>1, <3>2 DEF BookedPlanSettled, Settled
    <3>. QED BY <1>2, <2>1, <3>3
  <2>3. CASE OwnWrites(t, p) # {}
    <3>1. PICK i \in DOMAIN request[t].writes : request[t].writes[i].project = p
      BY <2>3 DEF OwnWrites
    <3>2. ~plan[home[p]].booked
      BY <1>6, <3>1 DEF Unbooked
    <3>. QED BY <1>2, <2>1, <3>2
  <2>. QED BY <2>2, <2>3
<1>. QED BY <1>3, <1>4, <1>5, <1>6 DEF MoveKinds

LEMMA StepUnbooked ==
  ASSUME OneAtATime, BookInvariant, NEW t \in Request, Check(t) \/ Skip(t) \/ Flip(t)
  PROVE  \A u \in Request : Unbooked(request'[u])
<1> USE DEF BookInvariant, AloneInvariant
<1> DEFINE req == request[t]
<1>1. req \in MoveRow /\ req.kind \in MoveKinds /\ req.writes \in Seq(Write)
  BY RequestFields DEF Check, Skip, Flip, InStep, TypeOK, MoveRow
<1>2. ASSUME NEW q, q.kind = req.kind, request' = [request EXCEPT ![t] = q],
             \A i \in DOMAIN q.writes :
               /\ ~plan[q.writes[i].plan].booked
               /\ q.kind # "owner" => q.writes[i].plan = home[q.writes[i].project]
      PROVE  \A u \in Request : Unbooked(request'[u])
  <2>1. Unbooked(q)
    BY <1>1, <1>2 DEF Unbooked, MoveKinds
  <2>. QED BY <1>2, <2>1, AloneFrame
<1>3. CASE Check(t)
  <2>1. PICK w \in Write, q \in MoveRow :
          /\ w.project \in Project /\ Authored(w.project) /\ Planned(t, w.project, w)
          /\ q.kind = req.kind /\ q.writes = Append(req.writes, w)
          /\ request' = [request EXCEPT ![t] = q]
    BY <1>3, CheckPlans
  <2>2. ASSUME NEW i \in DOMAIN q.writes
        PROVE  /\ ~plan[q.writes[i].plan].booked
               /\ q.kind # "owner" => q.writes[i].plan = home[q.writes[i].project]
    <3>1. q.writes[i] = w \/ (i \in DOMAIN req.writes /\ q.writes[i] = req.writes[i])
      BY <1>1, <2>1
    <3>2. CASE q.writes[i] = w
      BY <1>1, <2>1, <3>2, PlannedUnbooked
    <3>3. CASE i \in DOMAIN req.writes /\ q.writes[i] = req.writes[i]
      BY <1>1, <2>1, <3>3 DEF Unbooked
    <3>. QED BY <3>1, <3>2, <3>3
  <2>. QED BY <1>2, <2>1, <2>2
<1>4. CASE Skip(t) \/ Flip(t)
  <2> DEFINE m == Len(req.writes)
             now == {Id(row) : row \in rows[Head(req.todo)]}
  <2>1. PICK q \in MoveRow :
          /\ q.kind = req.kind
          /\ \/ q.writes = req.writes
             \/ q.writes = [req.writes EXCEPT ![m] = [req.writes[m] EXCEPT !.flips = now]]
          /\ request' = [request EXCEPT ![t] = q]
    BY <1>4, ListShrinks
  <2>2. /\ DOMAIN q.writes = DOMAIN req.writes
        /\ \A i \in DOMAIN req.writes : /\ q.writes[i].project = req.writes[i].project
                                        /\ q.writes[i].plan = req.writes[i].plan
    <3>1. \A i \in DOMAIN req.writes : req.writes[i] \in Write
      BY <1>1, WritesTyped
    <3>. QED BY <2>1, <3>1 DEF Write
  <2>3. ASSUME NEW i \in DOMAIN q.writes
        PROVE  /\ ~plan[q.writes[i].plan].booked
               /\ q.kind # "owner" => q.writes[i].plan = home[q.writes[i].project]
    BY <1>1, <2>1, <2>2 DEF Unbooked
  <2>. QED BY <1>2, <2>1, <2>3
<1>. QED BY <1>3, <1>4

-----------------------------------------------------------------------------
(* The commits leave a closed book settled.                                  *)
LEMMA MoveSettled ==
  ASSUME BookInvariant, NEW t \in Request, CommitMove(t)
  PROVE  BookedPlanSettled'
<1> USE DEF BookInvariant, AloneInvariant
<1>1. plan' = plan /\ request[t].kind \in MoveKinds
  BY DEF CommitMove, InStep
<1> SUFFICES ASSUME NEW b \in Plan, plan[b].booked, NEW p \in Project, home'[p] = b,
                    NEW row \in LatestRows(p)'
             PROVE  row.status \in Settled
  BY <1>1 DEF BookedPlanSettled, Members
<1>2. OwnWrites(t, p) = {}
  <2> SUFFICES ASSUME OwnWrites(t, p) # {} PROVE FALSE
    OBVIOUS
  <2> DEFINE i == CHOOSE j \in OwnWrites(t, p) : TRUE
  <2>1. i \in DOMAIN request[t].writes /\ request[t].writes[i].project = p
    <3>1. i \in OwnWrites(t, p)
      OBVIOUS
    <3>. QED BY <3>1 DEF OwnWrites
  <2>2. home'[p] = IF request[t].kind = "owner" THEN request[t].writes[i].plan ELSE home[p]
    BY DEF CommitMove
  <2>3. /\ ~plan[request[t].writes[i].plan].booked
        /\ request[t].kind # "owner" => request[t].writes[i].plan = home[p]
    BY <1>1, <2>1 DEF Unbooked
  <2>. QED BY <2>2, <2>3
<1>3. home'[p] = home[p] /\ rows'[p] = rows[p]
  BY <1>2, MoveRows DEF CommitMove
<1>. QED BY <1>3 DEF BookedPlanSettled, Members, LatestRows

(* After a cascade the projects of the plan are Ready or kept.               *)
LEMMA CascadeSettles ==
  ASSUME AloneInvariant, NEW b, NEW keep, NEW at, Cascade(b, keep, at), NEW p \in Project
  PROVE  /\ p \in Members(b) /\ plan[b].live =>
              \A row \in LatestRows(p)' : row.status \in keep \cup {"Ready"}
         /\ \/ rows'[p] = rows[p]
            \/ \A row \in LatestRows(p)' : row.status = "Ready"
<1> USE DEF AloneInvariant
<1>1. ASSUME rows'[p] = Cleared(p) \cup {ReadyRow(at)}
      PROVE  \A row \in LatestRows(p)' : row.status = "Ready"
  <2>1. \A row \in Cleared(p) : ~row.latest
    <3>1. \A r \in rows[p] : r \in Row
      BY DEF TypeOK
    <3>. QED BY <3>1 DEF Cleared, Row
  <2>2. ReadyRow(at).status = "Ready"
    BY DEF ReadyRow
  <2>. QED BY <1>1, <2>1, <2>2 DEF LatestRows
<1>2. CASE /\ rows'[p] = rows[p]
           /\ p \in Members(b) /\ plan[b].live =>
                \A row \in LatestRows(p) : row.status \in keep
  BY <1>2 DEF LatestRows
<1>3. CASE rows'[p] = Cleared(p) \cup {ReadyRow(at)}
  BY <1>1, <1>3
<1>. QED BY <1>2, <1>3, CascadeAlone

LEMMA CommitSettled ==
  ASSUME BookInvariant, NEW t \in Request,
         \/ CommitMove(t) \/ CommitAuthor(t) \/ CommitRollback(t) \/ CommitMerge(t)
         \/ CommitOutAuthority(t) \/ CommitCancel(t) \/ Abort(t)
  PROVE  BookedPlanSettled'
<1> USE DEF BookInvariant, AloneInvariant
<1>0. ASSUME NEW p \in Project, home[p] \in Plan, plan[home[p]].booked,
             NEW row \in LatestRows(p)
      PROVE  row.status \in Settled
  BY <1>0 DEF BookedPlanSettled, Members
<1>1. CASE CommitMove(t)
  BY <1>1, MoveSettled
<1>2. CASE CommitAuthor(t)
  <2> SUFFICES ASSUME NEW b \in Plan, plan[b].booked, NEW p \in Project, home'[p] = b,
                      NEW row \in LatestRows(p)'
               PROVE  row.status \in Settled
    BY <1>2 DEF CommitAuthor, BookedPlanSettled, Members
  <2>1. CASE p = request[t].project
    <3>1. row.status = "Ready"
      BY <1>2, <2>1 DEF CommitAuthor, LatestRows, TypeOK
    <3>. QED BY <3>1 DEF Settled
  <2>2. CASE p # request[t].project
    <3>1. rows'[p] = rows[p] /\ home'[p] = home[p]
      BY <1>2, <2>2 DEF CommitAuthor, TypeOK
    <3>. QED BY <1>0, <3>1 DEF LatestRows
  <2>. QED BY <2>1, <2>2
<1>3. CASE CommitRollback(t)
  <2> SUFFICES ASSUME NEW p \in Project, home[p] \in Plan, plan[home[p]].booked,
                      NEW row \in LatestRows(p)'
               PROVE  row.status \in Settled
    BY <1>3 DEF CommitRollback, BookedPlanSettled, Members
  <2>1. p # request[t].project
    BY <1>3 DEF CommitRollback, Unbooked
  <2>2. rows'[p] = rows[p]
    BY <1>3, <2>1, RollbackRows
  <2>. QED BY <1>0, <2>2 DEF LatestRows
<1>4. CASE CommitMerge(t)
  <2> DEFINE b == request[t].book
  <2>1. /\ b \in Plan /\ plan[b].live /\ home' = home
        /\ Cascade(b, Settled, request[t].at)
        /\ plan' = [plan EXCEPT ![b].booked = TRUE]
    BY <1>4, RequestFields DEF CommitMerge, TypeOK
  <2> SUFFICES ASSUME NEW p \in Project, home[p] \in Plan, plan'[home[p]].booked,
                      NEW row \in LatestRows(p)'
               PROVE  row.status \in Settled
    BY <2>1 DEF BookedPlanSettled, Members
  <2>2. "Ready" \in Settled
    BY DEF Settled
  <2>3. CASE home[p] = b
    BY <2>1, <2>2, <2>3, CascadeSettles DEF Members
  <2>4. CASE home[p] # b
    <3>1. plan[home[p]].booked
      BY <2>1, <2>4 DEF TypeOK
    <3>. QED BY <1>0, <2>1, <2>2, <3>1, CascadeSettles DEF LatestRows
  <2>. QED BY <2>3, <2>4
<1>5. CASE CommitOutAuthority(t)
  <2>1. /\ plan' = plan /\ home' = home
        /\ Cascade(request[t].book, Settled, NewStamp)
    BY <1>5 DEF CommitOutAuthority
  <2> HIDE DEF NewStamp
  <2> SUFFICES ASSUME NEW p \in Project, home[p] \in Plan, plan[home[p]].booked,
                      NEW row \in LatestRows(p)'
               PROVE  row.status \in Settled
    BY <2>1 DEF BookedPlanSettled, Members
  <2>2. rows'[p] = rows[p] \/ row.status = "Ready"
    BY <2>1, CascadeSettles
  <2>. QED BY <1>0, <2>2 DEF LatestRows, Settled
<1>6. CASE CommitCancel(t)
  <2> DEFINE b == request[t].book
             read == request[t].read
  <2>1. /\ b \in Plan /\ home' = home /\ plan[b].live
        /\ Cascade(b, {}, request[t].at)
    BY <1>6, RequestFields DEF CommitCancel, TypeOK, Unbooked
  <2>2. PICK next : plan' = [q \in Plan |->
               CASE q = b -> [read EXCEPT !.live = FALSE, !.latest = FALSE,
                                          !.open = plan[b].open]
                 [] q = next /\ read.latest -> [plan[q] EXCEPT !.latest = TRUE]
                 [] OTHER -> plan[q]]
    BY <1>6 DEF CommitCancel
  <2>3. ASSUME NEW q \in Plan, q # b PROVE plan'[q].booked = plan[q].booked
    <3>1. plan[q] \in PlanRow
      BY DEF TypeOK
    <3>2. plan'[q] = [plan[q] EXCEPT !.latest = TRUE] \/ plan'[q] = plan[q]
      BY <2>2, <2>3
    <3>. QED BY <3>1, <3>2 DEF PlanRow
  <2> SUFFICES ASSUME NEW p \in Project, home[p] \in Plan, plan'[home[p]].booked,
                      NEW row \in LatestRows(p)'
               PROVE  row.status \in Settled
    BY <2>1 DEF BookedPlanSettled, Members
  <2>4. CASE home[p] = b
    BY <2>1, <2>4, CascadeSettles DEF Members, Settled
  <2>5. CASE home[p] # b
    <3>1. plan[home[p]].booked
      BY <2>3, <2>5
    <3>2. rows'[p] = rows[p] \/ row.status = "Ready"
      BY <2>1, CascadeSettles
    <3>. QED BY <1>0, <3>1, <3>2 DEF LatestRows, Settled
  <2>. QED BY <2>4, <2>5
<1>7. CASE Abort(t)
  BY <1>7 DEF Abort, BookedPlanSettled, Members, LatestRows
<1>. QED BY <1>1, <1>2, <1>3, <1>4, <1>5, <1>6, <1>7

LEMMA BookNext ==
  ASSUME OneAtATime, BookInvariant, Next
  PROVE  BookInvariant'
<1> USE DEF BookInvariant
<1>0. TypeOK /\ MovesAuthored /\ AloneInvariant'
  BY AloneNext DEF AloneInvariant
<1>1. ASSUME UNCHANGED <<home, rows>>,
             \A q \in Plan : /\ plan'[q].booked => plan[q].booked
                             /\ plan[q].live => plan'[q].live,
             \A u \in Request : Unbooked(request'[u])
      PROVE  BookInvariant'
  <2>1. BookedPlanSettled'
    BY <1>1 DEF BookedPlanSettled, Members, LatestRows
  <2>2. ASSUME NEW u \in Request PROVE Unbooked(request[u])'
    <3> DEFINE q == request'[u]
    <3>1. Unbooked(q) /\ q \in RequestRow
      BY <1>0, <1>1 DEF AloneInvariant, TypeOK
    <3>2. ASSUME q.kind \in MoveKinds, NEW i \in DOMAIN q.writes
          PROVE  q.writes[i].plan \in Plan
      <4>1. q.writes[i] \in Write
        BY <3>1, <3>2, RequestFields, ElementOfSeq, LenProperties DEF MoveRow
      <4>. QED BY <4>1 DEF Write
    <3>3. ASSUME q.kind = "rollback", Authored(q.project) PROVE home[q.project] \in Plan
      <4>1. q.project \in Project
        BY <3>1, <3>3, RequestFields DEF RollbackRow
      <4>. QED BY <1>0, <3>3, <4>1 DEF TypeOK, Authored
    <3>4. q.kind = "cancel" => q.book \in Plan
      BY <3>1, RequestFields
    <3> HIDE DEF q
    <3>. QED BY <1>1, <3>1, <3>2, <3>3, <3>4 DEF Unbooked, Authored, q
  <2>. QED BY <1>0, <2>1, <2>2
<1>2. CASE \E b \in Plan :
             \/ GeneratePart3(b) \/ CorrectProjects(b)
             \/ SetPhase(b) \/ SetLatest(b) \/ CreatePlan(b) \/ RestorePlan(b)
  <2>1. UNCHANGED <<home, rows, request>>
    BY <1>0, <1>2, PlanStepTyped
  <2>2. \A q \in Plan : /\ plan'[q].booked => plan[q].booked
                        /\ plan[q].live => plan'[q].live
    BY <1>0, <1>2, PlanStepUnbooks
  <2>. QED BY <1>1, <2>1, <2>2
<1>3. ASSUME NEW t \in Request,
             \/ BeginAuthor(t) \/ BeginMove(t) \/ BeginRollback(t) \/ BeginMerge(t)
             \/ BeginOutAuthority(t) \/ BeginCancel(t)
      PROVE  BookInvariant'
  <2>1. UNCHANGED <<plan, home, rows>>
    BY <1>3 DEF BeginAuthor, BeginMove, BeginRollback, BeginMerge, BeginOutAuthority,
                BeginCancel, Open
  <2>. QED BY <1>0, <1>1, <1>3, <2>1, BeginUnbooked
<1>4. ASSUME NEW t \in Request, Check(t) \/ Skip(t) \/ Flip(t)
      PROVE  BookInvariant'
  <2>1. UNCHANGED <<plan, home, rows>>
    BY <1>4 DEF Check, Skip, Flip
  <2>. QED BY <1>1, <1>4, <2>1, StepUnbooked
<1>5. ASSUME NEW t \in Request,
             \/ CommitMove(t) \/ CommitAuthor(t) \/ CommitRollback(t) \/ CommitMerge(t)
             \/ CommitOutAuthority(t) \/ CommitCancel(t) \/ Abort(t)
      PROVE  BookInvariant'
  <2>1. BookedPlanSettled'
    BY <1>5, CommitSettled
  <2>2. \A u \in Request : request'[u] = Idle
    BY <1>0, <1>5, CommitAlone, AloneFrame
  <2>3. \A u \in Request : Unbooked(request[u])'
    BY <2>2, IdleTyped DEF Unbooked
  <2>. QED BY <1>0, <2>1, <2>3
<1>. QED BY <1>2, <1>3, <1>4, <1>5 DEF Next

LEMMA BookInit == Init => BookInvariant
<1> SUFFICES ASSUME Init PROVE BookInvariant
  OBVIOUS
<1>1. \A p \in Project : rows[p] = {}
  BY DEF Init
<1>2. \A t \in Request : request[t] = Idle
  BY DEF Init
<1>. QED BY <1>1, <1>2, AloneInit, IdleTyped
         DEF BookInvariant, BookedPlanSettled, Members, LatestRows, Unbooked

LEMMA BookStutter ==
  ASSUME BookInvariant, UNCHANGED vars
  PROVE  BookInvariant'
<1>1. AloneInvariant'
  BY AloneStutter DEF BookInvariant
<1>. QED BY <1>1 DEF BookInvariant, vars, BookedPlanSettled, Members, LatestRows, Unbooked,
                     Authored

(* Served one after the other, no status change, rollback, report, merge or  *)
(* cancel leaves a project of a closed book in review.                       *)
THEOREM WorkflowBookIsSettled ==
  ASSUME OneAtATime
  PROVE  Spec => []BookedPlanSettled
<1>1. BookInvariant /\ [Next]_vars => BookInvariant'
  BY BookNext, BookStutter
<1>2. BookInvariant => BookedPlanSettled
  BY DEF BookInvariant
<1>. QED BY <1>1, <1>2, BookInit, PTL DEF Spec

-----------------------------------------------------------------------------
(* A booked project.  Without a cancel, a project is booked by the report,   *)
(* which lists it as Rejected, or by a merge, which renders it as Approved,  *)
(* and nothing moves it from there.                                          *)
Final(p) == \A row \in LatestRows(p) : row.status \in {"Approved", "Rejected"}

(* No request in progress is about to book a project of another status, or   *)
(* to move one that is booked.                                               *)
Careful(q) ==
  /\ q.kind # "cancel"
  /\ q.kind \in {"merge", "out_authority"} => \A p \in q.list : Authored(p) /\ Final(p)
  /\ q.kind = "rollback" => ~isBooked[q.project]
  /\ q.kind \in MoveKinds => \A i \in DOMAIN q.writes : ~Final(q.writes[i].project)

BoundInvariant ==
  /\ AloneInvariant
  /\ \A p \in Project : isBooked[p] => Authored(p) /\ Final(p)
  /\ \A t \in Request : Careful(request[t])

(* A cascade that keeps the settled projects keeps the final ones.           *)
LEMMA CascadeKeepsFinal ==
  ASSUME AloneInvariant, NEW b, NEW at, Cascade(b, Settled, at), NEW p \in Project, Final(p)
  PROVE  rows'[p] = rows[p]
<1>1. \A row \in LatestRows(p) : row.status \in Settled
  BY DEF Final, Settled
<1>. QED BY <1>1, CascadeAlone

(* A booked project keeps its rows.                                          *)
LEMMA BookedKeepsRows ==
  ASSUME BoundInvariant, Next, NEW p \in Project, isBooked[p]
  PROVE  rows'[p] = rows[p]
<1> USE DEF BoundInvariant, AloneInvariant
<1>1. Authored(p) /\ Final(p)
  OBVIOUS
<1>2. CASE \E b \in Plan :
             \/ GeneratePart3(b) \/ CorrectProjects(b)
             \/ SetPhase(b) \/ SetLatest(b) \/ CreatePlan(b) \/ RestorePlan(b)
  BY <1>2, PlanStepTyped
<1>3. ASSUME NEW t \in Request,
             \/ BeginAuthor(t) \/ BeginMove(t) \/ BeginRollback(t) \/ BeginMerge(t)
             \/ BeginOutAuthority(t) \/ BeginCancel(t)
             \/ Check(t) \/ Skip(t) \/ Flip(t) \/ Abort(t)
      PROVE  rows'[p] = rows[p]
  BY <1>3 DEF BeginAuthor, BeginMove, BeginRollback, BeginMerge, BeginOutAuthority,
              BeginCancel, Open, Check, Skip, Flip, Abort
<1>4. ASSUME NEW t \in Request, CommitAuthor(t) PROVE rows'[p] = rows[p]
  BY <1>1, <1>4 DEF CommitAuthor, AuthorsApart, TypeOK
<1>5. ASSUME NEW t \in Request, CommitMove(t) PROVE rows'[p] = rows[p]
  <2>1. OwnWrites(t, p) = {}
    BY <1>1, <1>5 DEF CommitMove, InStep, OwnWrites, Careful
  <2>. QED BY <1>5, <2>1, MoveRows
<1>6. ASSUME NEW t \in Request, CommitRollback(t) PROVE rows'[p] = rows[p]
  <2>1. p # request[t].project
    BY <1>6 DEF CommitRollback, Careful
  <2>. QED BY <1>6, <2>1, RollbackRows
<1>7. ASSUME NEW t \in Request, CommitMerge(t) \/ CommitOutAuthority(t)
      PROVE  rows'[p] = rows[p]
  <2> HIDE DEF NewStamp
  <2>1. \E b, at : Cascade(b, Settled, at)
    BY <1>7 DEF CommitMerge, CommitOutAuthority
  <2>. QED BY <1>1, <2>1, CascadeKeepsFinal
<1>8. ASSUME NEW t \in Request, CommitCancel(t) PROVE FALSE
  BY <1>8 DEF CommitCancel, Careful
<1>. QED BY <1>2, <1>3, <1>4, <1>5, <1>6, <1>7, <1>8 DEF Next

(* Requests are careful when they begin.                                     *)
LEMMA BeginCareful ==
  ASSUME OneAtATime, BoundInvariant, "cancel" \notin Kinds, NEW t \in Request,
         \/ BeginAuthor(t) \/ BeginMove(t) \/ BeginRollback(t) \/ BeginMerge(t)
         \/ BeginOutAuthority(t) \/ BeginCancel(t)
  PROVE  \A u \in Request : Careful(request'[u])
<1> USE DEF BoundInvariant, AloneInvariant
<1> HIDE DEF NewStamp
<1>1. PICK q : Open(t, q) /\ Careful(q)
  <2>1. CASE BeginMove(t)
    <3>1. PICK kind \in MoveKinds : \E batch \in Lists(kind) :
            Open(t, [kind |-> kind, step |-> "check", todo |-> batch,
                     writes |-> <<>>, at |-> NewStamp])
      BY <2>1 DEF BeginMove
    <3>0. PICK batch \in Lists(kind) :
            Open(t, [kind |-> kind, step |-> "check", todo |-> batch,
                     writes |-> <<>>, at |-> NewStamp])
      BY <3>1
    <3> DEFINE q == [kind |-> kind, step |-> "check", todo |-> batch,
                     writes |-> <<>>, at |-> NewStamp]
    <3>2. q.kind \in MoveKinds /\ q.writes = <<>>
      OBVIOUS
    <3> HIDE DEF q
    <3>3. Careful(q)
      BY <3>2 DEF Careful, MoveKinds
    <3>. QED BY <3>0, <3>3 DEF q
  <2>2. CASE BeginRollback(t)
    <3>1. PICK p \in Project : \E cur \in LatestRows(p), prev \in Superseded(p) :
            /\ ~isBooked[p]
            /\ Open(t, [kind |-> "rollback", project |-> p, cur |-> Id(cur),
                        prev |-> Id(prev),
                        at |-> IF cur.at > prev.at THEN cur.at ELSE prev.at])
      BY <2>2 DEF BeginRollback
    <3>2. PICK cur, prev :
            /\ ~isBooked[p]
            /\ Open(t, [kind |-> "rollback", project |-> p, cur |-> Id(cur),
                        prev |-> Id(prev),
                        at |-> IF cur.at > prev.at THEN cur.at ELSE prev.at])
      BY <3>1
    <3> DEFINE q == [kind |-> "rollback", project |-> p, cur |-> Id(cur),
                     prev |-> Id(prev),
                     at |-> IF cur.at > prev.at THEN cur.at ELSE prev.at]
    <3>3. q.kind = "rollback" /\ ~isBooked[q.project] /\ Open(t, q)
      BY <3>2
    <3> HIDE DEF q
    <3>. QED BY <3>3 DEF Careful, MoveKinds
  <2>3. CASE BeginMerge(t)
    <3>1. PICK b \in Plan :
            /\ draft[b] \subseteq Printable(b)
            /\ Open(t, [kind |-> "merge", book |-> b, list |-> draft[b],
                        at |-> NewStamp])
      BY <2>3 DEF BeginMerge
    <3> DEFINE q == [kind |-> "merge", book |-> b, list |-> draft[b], at |-> NewStamp]
    <3>2. \A p \in draft[b] : Authored(p) /\ Final(p)
      <4>1. \A p \in draft[b] : /\ p \in Project /\ home[p] = b
                                /\ \E row \in LatestRows(p) : row.status = "Approved"
        BY <3>1 DEF Printable, Members
      <4>. QED BY <4>1, WorkflowAssumption DEF Authored, Final, OneLatest
    <3>3. q.kind = "merge" /\ \A p \in q.list : Authored(p) /\ Final(p)
      BY <3>2
    <3> HIDE DEF q
    <3>4. Careful(q)
      BY <3>3 DEF Careful, MoveKinds
    <3>. QED BY <3>1, <3>4 DEF q
  <2>4. CASE BeginOutAuthority(t)
    <3>1. PICK b \in Plan : \E list \in SUBSET {p \in Members(b) : \E row \in LatestRows(p) :
                              row.status = "Rejected"} :
            Open(t, [kind |-> "out_authority", book |-> b, list |-> list, at |-> 0])
      BY <2>4 DEF BeginOutAuthority
    <3>2. PICK list \in SUBSET {p \in Members(b) : \E row \in LatestRows(p) :
                              row.status = "Rejected"} :
            Open(t, [kind |-> "out_authority", book |-> b, list |-> list, at |-> 0])
      BY <3>1
    <3> DEFINE q == [kind |-> "out_authority", book |-> b, list |-> list, at |-> 0]
    <3>3. \A p \in list : Authored(p) /\ Final(p)
      <4>1. \A p \in list : p \in Project /\ home[p] = b /\ \E row \in LatestRows(p) :
                              row.status = "Rejected"
        BY DEF Members
      <4>. QED BY <4>1, WorkflowAssumption DEF Authored, Final, OneLatest
    <3>4. q.kind = "out_authority" /\ \A p \in q.list : Authored(p) /\ Final(p)
      BY <3>3
    <3> HIDE DEF q
    <3>5. Careful(q)
      BY <3>4 DEF Careful, MoveKinds
    <3>. QED BY <3>2, <3>5 DEF q
  <2>5. CASE BeginAuthor(t)
    <3>1. PICK q : q.kind = "author" /\ Open(t, q)
      BY <2>5 DEF BeginAuthor
    <3>. QED BY <3>1 DEF Careful, MoveKinds
  <2>6. CASE BeginCancel(t)
    BY <2>6 DEF BeginCancel, Open
  <2>. QED BY <2>1, <2>2, <2>3, <2>4, <2>5, <2>6
<1>2. request' = [request EXCEPT ![t] = q]
  BY <1>1 DEF Open
<1>. QED BY <1>1, <1>2, AloneFrame

(* A project that is final takes no further move.                            *)
LEMMA PlannedOpen ==
  ASSUME BoundInvariant, NEW t \in Request, request[t].kind \in MoveKinds,
         NEW p \in Project, NEW w, Planned(t, p, w)
  PROVE  ~Final(p)
<1>1. PICK seen \in SeenStatus(t, p) : \E o \in Outcomes(request[t].kind, p, seen) : TRUE
  BY DEF Planned
<1>2. seen \notin {"Approved", "Rejected"}
  <2>1. \A status \in {"Approved", "Rejected"} :
          OwnerMoves(status) = {} /\ StaffMoves(status) = {} /\ BulkMoves(status) = {}
    BY DEF OwnerMoves, StaffMoves, BulkMoves
  <2>. QED BY <1>1, <2>1 DEF Outcomes, MoveKinds
<1>3. CASE OwnWrites(t, p) = {}
  BY <1>1, <1>2, <1>3 DEF SeenStatus, Final
<1>4. CASE OwnWrites(t, p) # {}
  BY <1>4 DEF OwnWrites, BoundInvariant, Careful
<1>. QED BY <1>3, <1>4

LEMMA StepCareful ==
  ASSUME OneAtATime, BoundInvariant, NEW t \in Request, Check(t) \/ Skip(t) \/ Flip(t)
  PROVE  \A u \in Request : Careful(request'[u])
<1> USE DEF BoundInvariant, AloneInvariant
<1> DEFINE req == request[t]
<1>1. req \in MoveRow /\ req.kind \in MoveKinds /\ req.writes \in Seq(Write)
  BY RequestFields DEF Check, Skip, Flip, InStep, TypeOK, MoveRow
<1>2. ASSUME NEW q, q.kind = req.kind, request' = [request EXCEPT ![t] = q],
             \A i \in DOMAIN q.writes : ~Final(q.writes[i].project)
      PROVE  \A u \in Request : Careful(request'[u])
  <2>1. Careful(q)
    BY <1>1, <1>2 DEF Careful, MoveKinds
  <2>. QED BY <1>2, <2>1, AloneFrame
<1>3. CASE Check(t)
  <2>1. PICK w \in Write, q \in MoveRow :
          /\ w.project \in Project /\ Planned(t, w.project, w)
          /\ q.kind = req.kind /\ q.writes = Append(req.writes, w)
          /\ request' = [request EXCEPT ![t] = q]
    BY <1>3, CheckPlans
  <2>2. ASSUME NEW i \in DOMAIN q.writes PROVE ~Final(q.writes[i].project)
    <3>1. q.writes[i] = w \/ (i \in DOMAIN req.writes /\ q.writes[i] = req.writes[i])
      BY <1>1, <2>1
    <3>2. CASE q.writes[i] = w
      BY <1>1, <2>1, <3>2, PlannedOpen
    <3>3. CASE i \in DOMAIN req.writes /\ q.writes[i] = req.writes[i]
      BY <1>1, <3>3 DEF Careful
    <3>. QED BY <3>1, <3>2, <3>3
  <2>. QED BY <1>2, <2>1, <2>2
<1>4. CASE Skip(t) \/ Flip(t)
  <2>1. PICK q : q = request'[t]
    OBVIOUS
  <2>2. /\ request' = [request EXCEPT ![t] = q] /\ q.kind = req.kind
        /\ DOMAIN q.writes = DOMAIN req.writes
        /\ \A i \in DOMAIN req.writes : q.writes[i].project = req.writes[i].project
    BY <1>4, <2>1, OtherStepsWrite
  <2>3. \A i \in DOMAIN q.writes : ~Final(q.writes[i].project)
    BY <1>1, <2>2 DEF Careful
  <2>. QED BY <1>2, <2>2, <2>3
<1>. QED BY <1>3, <1>4

(* The steps of the plan book nothing.                                       *)
LEMMA PlanStepBooks ==
  ASSUME TypeOK, NEW b \in Plan,
         \/ GeneratePart3(b) \/ CorrectProjects(b)
         \/ SetPhase(b) \/ SetLatest(b) \/ CreatePlan(b) \/ RestorePlan(b)
  PROVE  \A p \in Project : isBooked'[p] => isBooked[p]
BY DEF GeneratePart3, CorrectProjects, SetPhase, SetLatest, CreatePlan, RestorePlan

(* What the commits book is final.                                           *)
LEMMA CommitBound ==
  ASSUME BoundInvariant, Next, NEW t \in Request,
         \/ CommitMove(t) \/ CommitAuthor(t) \/ CommitRollback(t) \/ CommitMerge(t)
         \/ CommitOutAuthority(t) \/ CommitCancel(t) \/ Abort(t)
  PROVE  \A p \in Project : isBooked'[p] => (Authored(p) /\ Final(p))'
<1> USE DEF BoundInvariant, AloneInvariant
<1> SUFFICES ASSUME NEW p \in Project, isBooked'[p] PROVE (Authored(p) /\ Final(p))'
  OBVIOUS
<1>1. Authored(p) => Authored(p)'
  BY MovesAuthoredNext
<1>2. CASE isBooked[p]
  <2>1. rows'[p] = rows[p]
    BY <1>2, BookedKeepsRows
  <2>. QED BY <1>1, <1>2, <2>1 DEF Final, LatestRows
<1>3. CASE ~isBooked[p]
  <2> HIDE DEF NewStamp
  <2>1. /\ CommitMerge(t) \/ CommitOutAuthority(t)
        /\ p \in request[t].list
    BY <1>3 DEF CommitMove, CommitAuthor, CommitRollback, CommitMerge,
                CommitOutAuthority, CommitCancel, Abort
  <2>2. Authored(p) /\ Final(p)
    BY <2>1 DEF CommitMerge, CommitOutAuthority, Careful
  <2>3. \E b, at : Cascade(b, Settled, at)
    BY <2>1 DEF CommitMerge, CommitOutAuthority
  <2>4. rows'[p] = rows[p]
    BY <2>2, <2>3, CascadeKeepsFinal
  <2>. QED BY <1>1, <2>2, <2>4 DEF Final, LatestRows
<1>. QED BY <1>2, <1>3

LEMMA BoundNext ==
  ASSUME OneAtATime, "cancel" \notin Kinds, BoundInvariant, Next
  PROVE  BoundInvariant'
<1>0. AloneInvariant' /\ TypeOK
  BY AloneNext DEF BoundInvariant, AloneInvariant
<1>1. CASE \E b \in Plan :
             \/ GeneratePart3(b) \/ CorrectProjects(b)
             \/ SetPhase(b) \/ SetLatest(b) \/ CreatePlan(b) \/ RestorePlan(b)
  <2>1. UNCHANGED <<home, rows, request>> /\ \A p \in Project : isBooked'[p] => isBooked[p]
    BY <1>0, <1>1, PlanStepTyped, PlanStepBooks
  <2>2. \A p \in Project : isBooked'[p] => (Authored(p) /\ Final(p))'
    BY <2>1 DEF BoundInvariant, Authored, Final, LatestRows
  <2>3. ASSUME NEW u \in Request PROVE Careful(request[u])'
    <3>1. Careful(request[u])
      BY DEF BoundInvariant
    <3>2. request[u].kind = "rollback" => request[u].project \in Project
      BY <1>0, RequestFields DEF TypeOK, RollbackRow
    <3>. QED BY <2>1, <3>1, <3>2 DEF Careful, Final, LatestRows, Authored
  <2>. QED BY <1>0, <2>2, <2>3 DEF BoundInvariant
<1>2. ASSUME UNCHANGED <<home, rows, isBooked>>,
             \A u \in Request : Careful(request'[u])
      PROVE  BoundInvariant'
  <2>1. \A u \in Request : Careful(request[u])'
    BY <1>2 DEF Careful, Final, LatestRows, Authored
  <2>. QED BY <1>0, <1>2, <2>1 DEF BoundInvariant, Final, LatestRows, Authored
<1>3. ASSUME NEW t \in Request,
             \/ BeginAuthor(t) \/ BeginMove(t) \/ BeginRollback(t) \/ BeginMerge(t)
             \/ BeginOutAuthority(t) \/ BeginCancel(t)
      PROVE  BoundInvariant'
  <2>1. UNCHANGED <<home, rows, isBooked>>
    BY <1>3 DEF BeginAuthor, BeginMove, BeginRollback, BeginMerge, BeginOutAuthority,
                BeginCancel, Open
  <2>. QED BY <1>2, <1>3, <2>1, BeginCareful
<1>4. ASSUME NEW t \in Request, Check(t) \/ Skip(t) \/ Flip(t)
      PROVE  BoundInvariant'
  <2>1. UNCHANGED <<home, rows, isBooked>>
    BY <1>4 DEF Check, Skip, Flip
  <2>. QED BY <1>2, <1>4, <2>1, StepCareful
<1>5. ASSUME NEW t \in Request,
             \/ CommitMove(t) \/ CommitAuthor(t) \/ CommitRollback(t) \/ CommitMerge(t)
             \/ CommitOutAuthority(t) \/ CommitCancel(t) \/ Abort(t)
      PROVE  BoundInvariant'
  <2>1. \A p \in Project : isBooked'[p] => (Authored(p) /\ Final(p))'
    BY <1>5, CommitBound
  <2>2. \A u \in Request : request'[u] = Idle
    BY <1>0, <1>5, CommitAlone, AloneFrame DEF BoundInvariant
  <2>3. \A u \in Request : Careful(request[u])'
    BY <2>2, IdleTyped DEF Careful, Idle
  <2>. QED BY <1>0, <2>1, <2>3 DEF BoundInvariant
<1>. QED BY <1>1, <1>3, <1>4, <1>5 DEF Next

LEMMA BoundInit == Init => BoundInvariant
<1> SUFFICES ASSUME Init PROVE BoundInvariant
  OBVIOUS
<1>1. \A p \in Project : ~isBooked[p]
  BY DEF Init
<1>2. \A t \in Request : request[t] = Idle
  BY DEF Init
<1>. QED BY <1>1, <1>2, AloneInit, IdleTyped DEF BoundInvariant, Careful, Idle

LEMMA BoundStutter ==
  ASSUME BoundInvariant, UNCHANGED vars
  PROVE  BoundInvariant'
<1>1. AloneInvariant'
  BY AloneStutter DEF BoundInvariant
<1>. QED BY <1>1 DEF BoundInvariant, vars, Final, LatestRows, Authored, Careful

(* As long as no plan is cancelled, with requests served one after the       *)
(* other, a booked project is never reverted, nor moved: not by a rollback,  *)
(* a status change, a report, or the merge of a book, its own plan's or      *)
(* another's.                                                                *)
THEOREM WorkflowBookedStays ==
  ASSUME OneAtATime, "cancel" \notin Kinds
  PROVE  Spec => BookedNeverReverted
<1>1. BoundInvariant /\ [Next]_vars => BoundInvariant'
  BY BoundNext, BoundStutter
<1>2. ASSUME BoundInvariant, [Next]_vars
      PROVE  [\A p \in Project : isBooked[p] /\ isBooked'[p]
                => CurrentStatus(p)' = CurrentStatus(p)]_vars
  <2>1. CASE UNCHANGED vars
    BY <2>1
  <2>2. CASE Next
    <3>1. \A p \in Project : isBooked[p] => rows'[p] = rows[p]
      BY <1>2, <2>2, BookedKeepsRows
    <3>. QED BY <3>1 DEF CurrentStatus, LatestRows
  <2>. QED BY <1>2, <2>1, <2>2
<1>3. Init => BoundInvariant
  BY BoundInit
<1>. QED BY <1>1, <1>2, <1>3, PTL DEF Spec, BookedNeverReverted
=============================================================================
