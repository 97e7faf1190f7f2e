-------------------------- MODULE ProjectWorkflow --------------------------
(***************************************************************************)
(* The approval workflow of the projects of the main development plan: the *)
(* audit rows of tracking_status, the handlers that append to them or roll *)
(* them back (tracking-status.service.ts), and the steps of a plan's book  *)
(* that reset or book the projects (main-assembly, orphan-cleanup, pdf and *)
(* development-plan services).                                             *)
(*                                                                         *)
(* A project's status is not a column: it is the status of its tracking    *)
(* row with isLatest = true.  Every handler reads that row, decides, clears *)
(* isLatest on the rows it can see and inserts a new one, in a transaction *)
(* at READ COMMITTED that locks nothing before it writes.  A handler is    *)
(* therefore several actions here: it reads (Check), its UPDATE statement  *)
(* starts and fixes the rows it will touch (Flip), and it commits.         *)
(***************************************************************************)
EXTENDS Naturals, Sequences, FiniteSets

CONSTANTS
  Project,   \* main-plan project groups
  Plan,      \* development plans
  NoPlan,    \* developmentPlan of a project that has not been authored
  Request,   \* requests in progress at the same time
  Kinds,     \* the kinds of request this instance lets in
  Batches,   \* the project lists a bulk request may carry
  MaxStamp   \* bound: transactions whose rows a history may hold

ASSUME WorkflowAssumption ==
  /\ NoPlan \notin Plan
  /\ Batches \subseteq Seq(Project)
  /\ \A batch \in Batches : batch # <<>>
  /\ MaxStamp \in Nat

VARIABLES
  plan,      \* development_plan: its flags and the state of its phase
  home,      \* project_groups.developmentPlan
  rows,      \* tracking_status: the audit rows of every project
  isBooked,  \* project_groups.isBooked
  draft,     \* the READY main-book draft's part3ProjectSnapshot
  printed,   \* the COMPLETED main-book version's snapshot, {} without one
  request    \* what each request in progress has read and is about to write

vars == <<plan, home, rows, isBooked, draft, printed, request>>

Status == {"Ready", "Pending", "Verified", "Pending_Approval", "Approved",
           "Returned_For_Revision", "Pull_Back", "Rejected"}

(* staffAllowedTransitions of create(). *)
StaffMoves(status) ==
  CASE status = "Pending" -> {"Verified", "Returned_For_Revision", "Rejected"}
    [] status = "Verified" ->
         {"Pending_Approval", "Returned_For_Revision", "Rejected"}
    [] status = "Pending_Approval" -> {"Approved", "Rejected"}
    [] OTHER -> {}

\* Mutant: a bulk change may skip the verification.
BulkMovesSkipping(status) ==
  IF status = "Pending" THEN {"Verified", "Pending_Approval"}
  ELSE StaffMoves(status) \cap {"Verified", "Pending_Approval", "Approved"}

(* staffAllowedTransitions of createMany(): the forward moves only. *)
BulkMoves(status) ==
  StaffMoves(status) \cap {"Verified", "Pending_Approval", "Approved"}

(* The moves the owner may make. *)
OwnerMoves(status) ==
  CASE status \in {"Ready", "Pull_Back", "Returned_For_Revision"} -> {"Pending"}
    [] status \in {"Pending", "Verified"} -> {"Pull_Back"}
    [] OTHER -> {}

(* FINALIZE_NON_TARGET_STATUSES: closing a book leaves these projects alone. *)
Settled == {"Ready", "Approved", "Rejected"}

(* READINESS_EXCLUSION_STATUSES: a merge does not wait for these projects. *)
NotAwaited == {"Ready", "Pull_Back", "Rejected"}

(***************************************************************************)
(* A tracking row.  at is createAt: the column's default is                *)
(* CURRENT_TIMESTAMP, so every row of a transaction carries the time the   *)
(* transaction began; item tells the rows of one transaction apart (ids    *)
(* are UUIDs and carry no order).                                          *)
(***************************************************************************)
Row == [at : 1..MaxStamp, item : Nat \ {0}, status : Status, latest : BOOLEAN]

Id(row) == <<row.at, row.item>>

Idle == [kind |-> "idle"]

LatestRows(p) == {row \in rows[p] : row.latest}

Authored(p) == home[p] # NoPlan

Members(b) == {p \in Project : home[p] = b}

(* Times that rows, or requests in progress, still refer to. *)
Stamps ==
  {row.at : row \in UNION {rows[p] : p \in Project}}
  \cup {request[t].at : t \in {u \in Request : request[u] # Idle}}

NewStamp == 1 + CHOOSE m \in {0} \cup Stamps : \A s \in Stamps : s <= m

(* A plan requests may work under: alive, current and not yet a book. *)
Current(b) == plan[b].live /\ plan[b].latest
\* Mutant: a closed book still takes requests.
WorkingWhenBooked(b) == b \in Plan /\ Current(b)
Working(b) == b \in Plan /\ Current(b) /\ ~plan[b].booked
Accepting(b) == Working(b) /\ plan[b].open

Init ==
  /\ \E b \in Plan :
       plan = [q \in Plan |-> [live |-> q = b, latest |-> q = b,
                               booked |-> FALSE, open |-> q = b]]
  /\ home = [p \in Project |-> NoPlan]
  /\ rows = [p \in Project |-> {}]
  /\ isBooked = [p \in Project |-> FALSE]
  /\ draft = [b \in Plan |-> {}]
  /\ printed = [b \in Plan |-> {}]
  /\ request = [t \in Request |-> Idle]

-----------------------------------------------------------------------------
Open(t, req) ==
  /\ request[t] = Idle
  /\ req.kind \in Kinds
  /\ req.at <= MaxStamp
  /\ request' = [request EXCEPT ![t] = req]
  /\ UNCHANGED <<plan, home, rows, isBooked, draft, printed>>

(* Authoring: the plan is checked, then a project with one Ready row is     *)
(* inserted.                                                                *)
BeginAuthor(t) ==
  \E p \in Project, b \in Plan :
    /\ ~Authored(p)
    /\ \A u \in Request :
         request[u].kind = "author" => request[u].project # p
    /\ Accepting(b)
    /\ Open(t, [kind |-> "author", project |-> p, book |-> b, at |-> NewStamp])

CommitAuthor(t) ==
  /\ request[t].kind = "author"
  /\ LET req == request[t] IN
       /\ home' = [home EXCEPT ![req.project] = req.book]
       /\ rows' = [rows EXCEPT ![req.project] =
                    {[at |-> req.at, item |-> 1, status |-> "Ready",
                      latest |-> TRUE]}]
  /\ request' = [request EXCEPT ![t] = Idle]
  /\ UNCHANGED <<plan, isBooked, draft, printed>>

(***************************************************************************)
(* Status changes.  kind says who asks: the owner (create() as a user;     *)
(* bulkSubmit() is a series of such requests), a staff member (create() as  *)
(* staff), a bulk change (createMany()) or the promotion of every Verified *)
(* project of a plan.  todo is what is left of the list of projects; writes *)
(* what the transaction has written so far, invisible to the others.       *)
(***************************************************************************)
MoveKinds == {"owner", "staff", "bulk", "promote"}

VerifiedIn(b) ==
  {p \in Members(b) : \E row \in LatestRows(p) : row.status = "Verified"}

Lists(kind) ==
  IF kind = "promote"
  THEN {batch \in Batches : \E b \in Plan :
          /\ plan[b].live /\ ~plan[b].booked
          /\ {batch[i] : i \in DOMAIN batch} = VerifiedIn(b)
          /\ Len(batch) = Cardinality(VerifiedIn(b))}
  ELSE IF kind = "bulk" THEN Batches ELSE {<<p>> : p \in Project}

BeginMove(t) ==
  \E kind \in MoveKinds : \E batch \in Lists(kind) :
    /\ \A i \in DOMAIN batch : Authored(batch[i])
    /\ Open(t, [kind |-> kind, step |-> "check", todo |-> batch,
                writes |-> <<>>, at |-> NewStamp])

(* The rows of p that transaction t has written itself. *)
OwnWrites(t, p) ==
  {i \in DOMAIN request[t].writes : request[t].writes[i].project = p}

(* The statuses findOne({isLatest: true}) may return to t: any of them when *)
(* there are several.                                                       *)
SeenStatus(t, p) ==
  IF OwnWrites(t, p) = {}
  THEN {row.status : row \in LatestRows(p)}
  ELSE {request[t].writes[i].to : i \in
          {j \in OwnWrites(t, p) : \A k \in OwnWrites(t, p) : k <= j}}

(* The plan the project belongs to afterwards: a submission moves a project *)
(* left behind by its plan to a current plan that still accepts projects.  *)
Destination(p, to) ==
  IF Current(home[p]) THEN {home[p]}
  ELSE IF to = "Pending" THEN {b \in Plan : Working(b)}
  ELSE {}

(* The status and plan a request may give p, having read the status seen. *)
Outcomes(kind, p, seen) ==
  CASE kind = "owner" ->
         {o \in OwnerMoves(seen) \X Plan :
            o[2] \in Destination(p, o[1]) /\ Accepting(o[2])}
    [] kind = "staff" ->
         {o \in StaffMoves(seen) \X Plan : o[2] = home[p] /\ Working(o[2])}
    [] kind = "bulk" ->
         {o \in BulkMoves(seen) \X Plan : o[2] = home[p] /\ Working(o[2])}
    [] OTHER ->
         {o \in {"Pending_Approval"} \X {home[p]} : seen = "Verified"}

InStep(t, step) == request[t].kind \in MoveKinds /\ request[t].step = step

\* Mutant: the change is allowed but nothing is planned for it.
CheckWithoutWrite(t) ==
  /\ InStep(t, "check")
  /\ request[t].todo # <<>>
  /\ LET p == Head(request[t].todo) IN
     \E seen \in SeenStatus(t, p) : Outcomes(request[t].kind, p, seen) # {}
  /\ request' = [request EXCEPT ![t].step = "flip"]
  /\ UNCHANGED <<plan, home, rows, isBooked, draft, printed>>

Check(t) ==
  /\ InStep(t, "check")
  /\ request[t].todo # <<>>
  /\ LET p == Head(request[t].todo) IN
     \E seen \in SeenStatus(t, p) : \E o \in Outcomes(request[t].kind, p, seen) :
       request' = [request EXCEPT
         ![t].step = "flip",
         ![t].writes = Append(@, [project |-> p, to |-> o[1], plan |-> o[2],
                                  flips |-> {}])]
  /\ UNCHANGED <<plan, home, rows, isBooked, draft, printed>>

(* The promotion skips a project that has left Verified since it was listed. *)
Skip(t) ==
  /\ InStep(t, "check")
  /\ request[t].kind = "promote"
  /\ request[t].todo # <<>>
  /\ LET p == Head(request[t].todo) IN
       LatestRows(p) = {} \/ SeenStatus(t, p) \ {"Verified"} # {}
  /\ request' = [request EXCEPT ![t].todo = Tail(@)]
  /\ UNCHANGED <<plan, home, rows, isBooked, draft, printed>>

(* UPDATE tracking_status SET is_latest = false starts: it will touch the   *)
(* rows committed by now, waiting for their locks, and no later row.        *)
Flip(t) ==
  /\ InStep(t, "flip")
  /\ LET n == Len(request[t].writes)
         p == Head(request[t].todo)
     IN request' = [request EXCEPT
          ![t].step = "check",
          ![t].todo = Tail(@),
          ![t].writes[n].flips = {Id(row) : row \in rows[p]}]
  /\ UNCHANGED <<plan, home, rows, isBooked, draft, printed>>

\* Mutant: the new row is inserted before isLatest is cleared.
AfterMoveClearing(t, p) ==
  LET own == OwnWrites(t, p)
  IN {[row EXCEPT !.latest = @ /\ own = {}] : row \in rows[p]}
     \cup {[at |-> request[t].at, item |-> i, status |-> request[t].writes[i].to,
            latest |-> FALSE] : i \in own}

(* The rows of p once t commits: what its UPDATEs touched is no longer      *)
(* latest, and of the rows it inserted only the last one is.                *)
AfterMove(t, p) ==
  LET own == OwnWrites(t, p)
      touched == UNION {request[t].writes[i].flips : i \in own}
  IN {[row EXCEPT !.latest = @ /\ Id(row) \notin touched] : row \in rows[p]}
     \cup {[at |-> request[t].at, item |-> i, status |-> request[t].writes[i].to,
            latest |-> \A j \in own : j <= i] : i \in own}

CommitMove(t) ==
  /\ InStep(t, "check")
  /\ request[t].todo = <<>>
  /\ rows' = [p \in Project |-> AfterMove(t, p)]
  /\ home' = [p \in Project |->
               IF OwnWrites(t, p) = {} THEN home[p]
               ELSE LET i == CHOOSE j \in OwnWrites(t, p) : TRUE
                    IN IF request[t].kind = "owner"
                       THEN request[t].writes[i].plan ELSE home[p]]
  /\ request' = [request EXCEPT ![t] = Idle]
  /\ UNCHANGED <<plan, isBooked, draft, printed>>

(* Any refusal, error, deadlock or lost connection: the transaction leaves  *)
(* nothing behind.                                                          *)
Abort(t) ==
  /\ request[t] # Idle
  /\ request' = [request EXCEPT ![t] = Idle]
  /\ UNCHANGED <<plan, home, rows, isBooked, draft, printed>>

-----------------------------------------------------------------------------
(***************************************************************************)
(* Rollback: the latest row is deleted and the most recent other row takes *)
(* its place.                                                              *)
(***************************************************************************)
Superseded(p) == {row \in rows[p] : ~row.latest}

\* Mutants: the oldest row takes over, or the project may be booked.
RollbackToOldest(t) ==
  \E p \in Project : \E cur \in LatestRows(p) : \E prev \in Superseded(p) :
    /\ Working(home[p])
    /\ ~isBooked[p]
    /\ cur.status \notin {"Pull_Back", "Ready"}
    /\ \A row \in Superseded(p) : row.at >= prev.at
    /\ Open(t, [kind |-> "rollback", project |-> p, cur |-> Id(cur),
                prev |-> Id(prev), at |-> cur.at])
RollbackOfBooked(t) ==
  \E p \in Project : \E cur \in LatestRows(p) : \E prev \in Superseded(p) :
    /\ Working(home[p])
    /\ cur.status \notin {"Pull_Back", "Ready"}
    /\ \A row \in Superseded(p) : row.at <= prev.at
    /\ Open(t, [kind |-> "rollback", project |-> p, cur |-> Id(cur),
                prev |-> Id(prev), at |-> cur.at])

BeginRollback(t) ==
  \E p \in Project : \E cur \in LatestRows(p) : \E prev \in Superseded(p) :
    /\ Working(home[p])
    /\ ~isBooked[p]
    /\ cur.status \notin {"Pull_Back", "Ready"}
    /\ \A row \in Superseded(p) : row.at <= prev.at
    /\ Open(t, [kind |-> "rollback", project |-> p, cur |-> Id(cur),
                prev |-> Id(prev),
                at |-> IF cur.at > prev.at THEN cur.at ELSE prev.at])

CommitRollback(t) ==
  /\ request[t].kind = "rollback"
  /\ LET p == request[t].project
     IN rows' = [rows EXCEPT ![p] =
          {[row EXCEPT !.latest = @ \/ Id(row) = request[t].prev] :
             row \in {r \in rows[p] : Id(r) # request[t].cur}}]
  /\ request' = [request EXCEPT ![t] = Idle]
  /\ UNCHANGED <<plan, home, isBooked, draft, printed>>

-----------------------------------------------------------------------------
(***************************************************************************)
(* The plan's book.                                                        *)
(***************************************************************************)
(* assertBothSourcesContribute: the phase is closed and every project the  *)
(* book waits for is Approved, at least one of them.                       *)
ReadyToPrint(b) ==
  LET awaited == {p \in Members(b) :
                    \E row \in LatestRows(p) : row.status \notin NotAwaited}
      approved == {p \in Members(b) :
                    \E row \in LatestRows(p) : row.status = "Approved"}
  IN ~plan[b].open /\ awaited = approved /\ awaited # {}

(* The projects the body of the book prints. *)
Printable(b) ==
  {p \in Members(b) : /\ ~isBooked[p]
                      /\ \E row \in LatestRows(p) : row.status = "Approved"}

(* generatePart3: the list is fixed in the draft. *)
GeneratePart3(b) ==
  /\ plan[b].live
  /\ ReadyToPrint(b)
  /\ Printable(b) # {}
  /\ draft' = [draft EXCEPT ![b] = Printable(b)]
  /\ UNCHANGED <<plan, home, rows, isBooked, printed, request>>

(* merge() up to the cascade: the gate, then the body is rendered again.    *)
(* The list booked is still the draft's.  A project of it that is no longer *)
(* rendered has no page (0), which the CHECK of page_number refuses: the    *)
(* merge is rolled back.                                                    *)
BeginMerge(t) ==
  \E b \in Plan :
    /\ plan[b].live
    /\ ReadyToPrint(b)
    /\ draft[b] # {}
    /\ draft[b] \subseteq Printable(b)
    /\ Open(t, [kind |-> "merge", book |-> b, list |-> draft[b],
                at |-> NewStamp])

(* generateOutAuthorityFromStatus: the rejected projects are listed and     *)
(* printed; the transaction only begins once that is done (at = 0).         *)
BeginOutAuthority(t) ==
  \E b \in Plan :
    /\ plan[b].live /\ ~plan[b].booked
    /\ \E list \in SUBSET {p \in Members(b) : \E row \in LatestRows(p) :
                              row.status = "Rejected"} :
         /\ list # {}
         /\ Open(t, [kind |-> "out_authority", book |-> b, list |-> list,
                     at |-> 0])

(* softRemove of the plan, whose row it read before the transaction. *)
BeginCancel(t) ==
  \E b \in Plan :
    /\ plan[b].live
    /\ Open(t, [kind |-> "cancel", book |-> b, read |-> plan[b],
                at |-> NewStamp])

(* resetSingleProjectGroup, for every project of hit whose latest row       *)
(* pick[p] is not in keep: that one row is superseded by a Ready row.       *)
Reset(p, row, at) ==
  (rows[p] \ {row}) \cup
  {[row EXCEPT !.latest = FALSE],
   [at |-> at, item |-> 1, status |-> "Ready", latest |-> TRUE]}

Cascade(b, keep, at) ==
  LET hit == {p \in Members(b) : plan[b].live /\
                \E row \in LatestRows(p) : row.status \notin keep}
  IN \E pick \in [hit -> UNION {LatestRows(p) : p \in hit}] :
       /\ \A p \in hit : pick[p] \in LatestRows(p)
       /\ rows' = [p \in Project |->
                    IF p \in hit /\ pick[p].status \notin keep
                    THEN Reset(p, pick[p], at) ELSE rows[p]]

CommitMerge(t) ==
  /\ request[t].kind = "merge"
  /\ LET b == request[t].book IN
       /\ plan[b].live
       /\ printed[b] = {}
       /\ Cascade(b, Settled, request[t].at)
       /\ isBooked' = [p \in Project |-> isBooked[p] \/ p \in request[t].list]
       /\ plan' = [plan EXCEPT ![b].booked = TRUE]
       /\ printed' = [printed EXCEPT ![b] = request[t].list]
       /\ draft' = [draft EXCEPT ![b] = {}]
  /\ request' = [request EXCEPT ![t] = Idle]
  /\ UNCHANGED home

CommitOutAuthority(t) ==
  /\ request[t].kind = "out_authority"
  /\ NewStamp <= MaxStamp
  /\ Cascade(request[t].book, Settled, NewStamp)
  /\ isBooked' = [p \in Project |-> isBooked[p] \/ p \in request[t].list]
  /\ request' = [request EXCEPT ![t] = Idle]
  /\ UNCHANGED <<plan, home, draft, printed>>

(* Every project of the plan goes back to Ready; another plan becomes the  *)
(* latest one.  The save writes back the row that was read, isBooked       *)
(* included (the phase is a row of its own).                               *)
CommitCancel(t) ==
  /\ request[t].kind = "cancel"
  /\ LET b == request[t].book
         read == request[t].read
         others == {q \in Plan \ {b} : plan[q].live}
     IN /\ Cascade(b, {}, request[t].at)
        /\ \E next \in (IF others = {} THEN {b} ELSE others) :
             plan' = [q \in Plan |->
               CASE q = b -> [read EXCEPT !.live = FALSE, !.latest = FALSE,
                                          !.open = plan[b].open]
                 [] q = next /\ read.latest -> [plan[q] EXCEPT !.latest = TRUE]
                 [] OTHER -> plan[q]]
  /\ request' = [request EXCEPT ![t] = Idle]
  /\ UNCHANGED <<home, isBooked, draft, printed>>

(* correct(CORRECTION_PART3): the version is deprecated and un-booked. *)
CorrectProjects(b) ==
  /\ printed[b] # {}
  /\ draft[b] = {}
  /\ isBooked' = [p \in Project |-> isBooked[p] /\ p \notin printed[b]]
  /\ plan' = [plan EXCEPT ![b].booked = FALSE]
  /\ printed' = [printed EXCEPT ![b] = {}]
  /\ UNCHANGED <<home, rows, draft, request>>

-----------------------------------------------------------------------------
(* The plan row itself. *)
SetPhase(b) ==
  /\ plan[b].live
  /\ plan' = [plan EXCEPT ![b].open = ~@]
  /\ UNCHANGED <<home, rows, isBooked, draft, printed, request>>

(* updateLatestStatus: at most one plan is the latest. *)
SetLatest(b) ==
  /\ plan[b].live
  /\ \E latest \in BOOLEAN :
       plan' = [q \in Plan |->
                 [plan[q] EXCEPT !.latest = IF q = b THEN latest
                                            ELSE @ /\ ~latest]]
  /\ UNCHANGED <<home, rows, isBooked, draft, printed, request>>

(* A new plan replaces the latest one, which must be a closed book; its    *)
(* phase is created later (SetPhase). A plan without projects that is not  *)
(* alive stands for one that does not exist yet.                           *)
CreatePlan(b) ==
  /\ ~plan[b].live
  /\ Members(b) = {}
  /\ \A q \in Plan : Current(q) => plan[q].booked /\ ~plan[q].open
  /\ plan' = [q \in Plan |->
               IF q = b THEN [live |-> TRUE, latest |-> TRUE,
                              booked |-> FALSE, open |-> FALSE]
               ELSE [plan[q] EXCEPT !.latest = FALSE]]
  /\ draft' = [draft EXCEPT ![b] = {}]
  /\ printed' = [printed EXCEPT ![b] = {}]
  /\ UNCHANGED <<home, rows, isBooked, request>>

(* A removed plan comes back with its flags, not latest. *)
RestorePlan(b) ==
  /\ ~plan[b].live
  /\ Members(b) # {}
  /\ plan' = [plan EXCEPT ![b].live = TRUE]
  /\ UNCHANGED <<home, rows, isBooked, draft, printed, request>>

Next ==
  \/ \E t \in Request :
       \/ BeginAuthor(t) \/ CommitAuthor(t)
       \/ BeginMove(t) \/ Check(t) \/ Skip(t) \/ Flip(t) \/ CommitMove(t)
       \/ BeginRollback(t) \/ CommitRollback(t)
       \/ BeginMerge(t) \/ CommitMerge(t)
       \/ BeginOutAuthority(t) \/ CommitOutAuthority(t)
       \/ BeginCancel(t) \/ CommitCancel(t)
       \/ Abort(t)
  \/ \E b \in Plan :
       \/ GeneratePart3(b) \/ CorrectProjects(b)
       \/ SetPhase(b) \/ SetLatest(b) \/ CreatePlan(b) \/ RestorePlan(b)

Spec == Init /\ [][Next]_vars

-----------------------------------------------------------------------------
(* Type invariant. *)
Stamp == 1..MaxStamp

Ids == Stamp \X (Nat \ {0})

PlanRow == [live : BOOLEAN, latest : BOOLEAN, booked : BOOLEAN, open : BOOLEAN]

Write == [project : Project, to : Status, plan : Plan, flips : SUBSET Ids]

AuthorRow == [kind : {"author"}, project : Project, book : Plan, at : Stamp]

MoveRow == [kind : MoveKinds, step : {"check", "flip"}, todo : Seq(Project),
            writes : Seq(Write), at : Stamp]

RollbackRow ==
  [kind : {"rollback"}, project : Project, cur : Ids, prev : Ids, at : Stamp]

BookRow ==
  [kind : {"merge"}, book : Plan, list : SUBSET Project, at : Stamp]
  \cup [kind : {"out_authority"}, book : Plan, list : SUBSET Project, at : {0}]
  \cup [kind : {"cancel"}, book : Plan, read : PlanRow, at : Stamp]

RequestRow == {Idle} \cup AuthorRow \cup MoveRow \cup RollbackRow \cup BookRow

(* A request between its UPDATE and the next project has something to write. *)
TypeOK ==
  /\ plan \in [Plan -> PlanRow]
  /\ home \in [Project -> Plan \cup {NoPlan}]
  /\ rows \in [Project -> SUBSET Row]
  /\ isBooked \in [Project -> BOOLEAN]
  /\ draft \in [Plan -> SUBSET Project]
  /\ printed \in [Plan -> SUBSET Project]
  /\ request \in [Request -> RequestRow]
  /\ \A t \in Request :
       InStep(t, "flip") => request[t].todo # <<>> /\ request[t].writes # <<>>

-----------------------------------------------------------------------------
Before(r, s) == r.at < s.at \/ (r.at = s.at /\ r.item < s.item)

LegalMove(from, to) ==
  to \in OwnerMoves(from) \cup StaffMoves(from) \cup {"Ready"}

(***************************************************************************)
(* The latest row of a project is the last one written: no rollback, reset *)
(* or status change leaves an older row in charge.                         *)
(***************************************************************************)
LatestIsNewest ==
  \A p \in Project : \A r \in LatestRows(p) : \A s \in rows[p] : ~Before(r, s)

(***************************************************************************)
(* The audit rows of a project read, in the order they were written, as a  *)
(* walk through the workflow that starts at Ready, only takes moves the    *)
(* handlers allow or a reset to Ready, and ends in the one latest row.     *)
(***************************************************************************)
HistoryIsPath ==
  \A p \in Project : Authored(p) =>
    /\ Cardinality(LatestRows(p)) = 1
    /\ LatestIsNewest
    /\ \A s \in rows[p] :
         LET earlier == {r \in rows[p] : Before(r, s)} IN
         IF earlier = {} THEN s.status = "Ready"
         ELSE \A r \in earlier : (\A q \in earlier : ~Before(r, q))
                => LegalMove(r.status, s.status)

(***************************************************************************)
(* A closed book waits for nobody: once the plan is booked none of its     *)
(* projects is in review, and none enters review before the book is        *)
(* corrected.                                                              *)
(***************************************************************************)
BookedPlanSettled ==
  \A b \in Plan : plan[b].booked =>
    \A p \in Members(b) : \A row \in LatestRows(p) : row.status \in Settled

(***************************************************************************)
(* The comment on the book-lock guard of rollbackStatus: "A booked project *)
(* belongs to a finalized book and must never be reverted."                *)
(***************************************************************************)
CurrentStatus(p) == {row.status : row \in LatestRows(p)}

BookedNeverReverted ==
  [][\A p \in Project :
       isBooked[p] /\ isBooked'[p] => CurrentStatus(p)' = CurrentStatus(p)]_vars

(***************************************************************************)
(* Section 12 as the project enricher quotes it: "there should be at most  *)
(* ONE isLatest=true row per project".                                     *)
(***************************************************************************)
SingleLatest == \A p \in Project : Cardinality(LatestRows(p)) <= 1

(***************************************************************************)
(* Whatever status changes, merges and cancels overlap, an authored        *)
(* project never loses its last latest row (every list is an inner join on *)
(* it: the project would vanish) nor the Ready row its history starts with. *)
(* Two rollbacks that overlap a status change do lose it, so the run that  *)
(* checks this lets no rollback in.                                        *)
(***************************************************************************)
NeverWithoutStatus ==
  \A p \in Project : Authored(p) =>
    /\ LatestRows(p) # {}
    /\ \E row \in rows[p] : row.status = "Ready"

(***************************************************************************)
(* Without rollbacks, overlapping requests cannot skip a review stage:     *)
(* every audit row is preceded in the history by a row it may follow.      *)
(***************************************************************************)
NoStageSkipped ==
  \A p \in Project : \A s \in rows[p] :
    s.status # "Ready" =>
      \E r \in rows[p] : r # s /\ LegalMove(r.status, s.status)
=============================================================================
