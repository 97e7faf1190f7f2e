-------------------------- MODULE SupplementAssembly --------------------------
(***************************************************************************)
(* The book of one supplement round: SupplementAssemblyService.            *)
(*                                                                         *)
(* It publishes the same kind of book as EditAssemblyService, with other   *)
(* means. Every handler is one transaction at READ COMMITTED, but only     *)
(* merge locks the round row, cancel and correct lock the version row, and *)
(* no handler locks the draft row; a draft has no target version (uploads, *)
(* renders and merge each compute the next number for themselves); and     *)
(* merge answers at once, without a new version, when the round is booked. *)
(*                                                                         *)
(* A request that can overlap others is taken in steps: what the handler   *)
(* reads, and what it writes later with what it has read (request[r]).     *)
(***************************************************************************)
EXTENDS Integers

CONSTANTS Project,      \* the SupplementProjectGroup rows of the round
          Forkable,     \* the projects a later revision may fork
          DraftRow,     \* identities of draft rows
          Request,      \* slots for HTTP requests in flight
          FrontPart,    \* the parts uploaded by hand: {1, 2} in the code
          MaxVersion,   \* bound on version numbers
          NoRow         \* "no draft row"

ASSUME ConstantsAssumption ==
    /\ Forkable \subseteq Project
    /\ FrontPart \subseteq {1, 2}
    /\ MaxVersion \in Nat
    /\ NoRow \notin DraftRow

VARIABLES isBooked,     \* DevelopmentPlanSupplement.isBooked
          newerSibling, \* a sibling book was booked after this one
          project,      \* the project rows and their latest status
          version,      \* SupplementAssemblyVersion rows, by version number
          lineage,      \* SupplementProjectLineage rows, by project
          draft,        \* SupplementAssemblyDraft rows
          folder,       \* the part files in v<n>/parts on disk
          request,      \* requests between their read and their write
          undone        \* (history) an edit un-booked the round of an official version

roundVars == <<isBooked, newerSibling, undone>>
bookVars == <<version, lineage>>
vars == <<roundVars, bookVars, project, draft, folder, request>>

VersionNo == 1..MaxVersion
Part == FrontPart \cup {3}
ActiveStatus == {"preparing", "ready"}
\* A merged row is as good as gone: no handler reads it again.
DraftStatus == ActiveStatus \cup {"absent", "canceled"}

DraftRecord == [status : DraftStatus, supplied : SUBSET Part]
NoDraft == [status |-> "absent", supplied |-> {}]

CorrectKind == {"amend", "reset"}
RequestKind == CorrectKind \cup {"idle", "row", "part", "merge", "cascaded",
                                 "cancel", "remove", "round"}

\* version: the row cancel and correct hold FOR UPDATE. number: the one merge takes.
\* doomed: the projects whose descendants were looked for and that will be deleted.
\* late (history): the projects forked since the request looked for descendants.
RequestRecord == [kind : RequestKind, row : DraftRow \cup {NoRow}, new : DraftRecord,
                  part : Part, list : SUBSET Project, booked : BOOLEAN,
                  version : 0..MaxVersion, number : 0..MaxVersion,
                  doomed : SUBSET Project, late : SUBSET Project]
Idle == [kind |-> "idle", row |-> NoRow, new |-> NoDraft, part |-> 3,
         list |-> {}, booked |-> FALSE, version |-> 0, number |-> 0,
         doomed |-> {}, late |-> {}]

TypeOK ==
    /\ isBooked \in BOOLEAN /\ newerSibling \in BOOLEAN /\ undone \in BOOLEAN
    /\ project \in [Project -> [status : {"working", "approved"}, isBooked : BOOLEAN,
                                deleted : BOOLEAN, forked : BOOLEAN]]
    /\ version \in [VersionNo -> [status : {"none", "completed", "deprecated"},
                                  list : SUBSET Project]]
    /\ lineage \in [Project -> [leaf : 0..MaxVersion,
                                parent : [VersionNo -> 0..MaxVersion]]]
    /\ draft \in [DraftRow -> DraftRecord]
    /\ folder \in [VersionNo -> SUBSET Part]
    /\ request \in [Request -> RequestRecord]

Init ==
    /\ isBooked = FALSE /\ newerSibling = FALSE /\ undone = FALSE
    /\ project = [p \in Project |-> [status |-> "working", isBooked |-> FALSE,
                                     deleted |-> FALSE, forked |-> FALSE]]
    /\ version = [v \in VersionNo |-> [status |-> "none", list |-> {}]]
    /\ lineage = [p \in Project |-> [leaf |-> 0, parent |-> [v \in VersionNo |-> 0]]]
    /\ draft = [d \in DraftRow |-> NoDraft]
    /\ folder = [v \in VersionNo |-> {}]
    /\ request = [r \in Request |-> Idle]

-------------------------------------------------------------------------------
(* What the handlers read. *)

\* BookLockService: a booked round is frozen by a sibling booked after it.
Frozen == isBooked /\ newerSibling

Published == {v \in VersionNo : version[v].status # "none"}
Completed == {v \in VersionNo : version[v].status = "completed"}

MaxNumber == IF Published = {} THEN 0
             ELSE CHOOSE v \in Published : \A w \in Published : w <= v

\* computeNextVersion, asked again by every handler that touches a folder.
NextVersion == MaxNumber + 1

ActiveRows == {d \in DraftRow : draft[d].status \in ActiveStatus}
CanceledRows == {d \in DraftRow : draft[d].status = "canceled"}

\* A row identity nothing refers to any more can stand for a new uuid.
Unused(d) == /\ draft[d].status = "absent"
             /\ \A r \in Request : request[r].row # d

\* uniq_sad_active_draft: one row that is preparing or ready.
UniqueDraft(d, rec) ==
    rec.status \notin ActiveStatus \/ ActiveRows \subseteq {d}

\* listSupplementProjectsForPdf with approvedOnly: booked rows are not left out.
Approved == {p \in Project : project[p].status = "approved" /\ ~project[p].deleted}

\* The cascade of cascadeOnBookFinalize deletes what is not approved.
Orphans == {p \in Project : project[p].status = "working" /\ ~project[p].deleted}

ForkedAmong(S) == {p \in S : project[p].forked}

\* Mutant: nobody looks for descendants.
ForksIgnored(S) == S \subseteq Project

\* collectDownstreamForkIds and the guard of the cascade: plain reads.
Unforked(S) == ForkedAmong(S) = {}

\* Mutant: merge reads the round without FOR UPDATE.
RoundNeverLocked == FALSE

\* merge holds the row lock of the round from its first read to its commit.
RoundLocked == \E r \in Request : request[r].kind \in {"merge", "cascaded"}

\* The version row cancel and correct have loaded stays locked to their end.
Lockable(v) ==
    /\ v \in Completed
    /\ \A r \in Request : request[r].version # v

-------------------------------------------------------------------------------
(* What they compute. *)

\* Mutant: the status of the part is stored as the status of the draft.
WithPartStatus(supplied) ==
    [status |-> IF supplied = Part THEN "uploaded" ELSE "preparing", supplied |-> supplied]

\* computeDraftStatus: the parts alone decide.
WithStatus(supplied) ==
    [status |-> IF supplied = Part THEN "ready" ELSE "preparing", supplied |-> supplied]

PutPart(v, part) ==
    [w \in VersionNo |-> folder[w] \cup IF w = v THEN {part} ELSE {}]

\* Mutant: the new row is inserted as the parent of the old leaf.
LineageSwapped(S, v) ==
    [p \in Project |->
        IF p \notin S THEN lineage[p]
        ELSE [lineage[p] EXCEPT !.parent[v] = v]]

\* populateLineageForSupplementMerge: the version becomes the leaf of every
\* project it lists, the previous leaf its parent.
LineageAfterMerge(S, v) ==
    [p \in Project |->
        IF p \notin S THEN lineage[p]
        ELSE [leaf |-> v, parent |-> [lineage[p].parent EXCEPT ![v] = lineage[p].leaf]]]

\* restoreLineageAfterSupplementCancel: every project whose leaf is the version
\* goes back to the parent, official or not.
LineageAfterCancel(v) ==
    [p \in Project |->
        IF lineage[p].leaf # v THEN lineage[p]
        ELSE [lineage[p] EXCEPT !.leaf = lineage[p].parent[v]]]

-------------------------------------------------------------------------------
(* The handlers of the draft: a read, and a write of the row as it was read. *)

\* A request takes a free slot.
Free(r) == request[r] = Idle
Begin(r, q) == request' = [request EXCEPT ![r] = q]

BeginRow(r, d, rec) == Begin(r, [Idle EXCEPT !.kind = "row", !.row = d, !.new = rec])

BeginPart(r, d, part) ==
    /\ d \in ActiveRows
    /\ Begin(r, [Idle EXCEPT !.kind = "part", !.row = d, !.part = part,
                             !.new = WithStatus(draft[d].supplied \cup {part})])

\* createDraft: an official version or a cancelled draft is no obstacle.
BeginCreate(r, d) ==
    /\ Free(r)
    /\ ~Frozen
    /\ ActiveRows = {}
    /\ Unused(d)
    /\ BeginRow(r, d, WithStatus({}))
    /\ UNCHANGED <<roundVars, bookVars, project, draft, folder>>

\* uploadPart1, uploadPart2
BeginUpload(r, d, part) ==
    /\ Free(r)
    /\ ~Frozen
    /\ BeginPart(r, d, part)
    /\ UNCHANGED <<roundVars, bookVars, project, draft, folder>>

\* generatePart3: the list is read, then rendered, then the folder is chosen.
BeginGenerate(r, d) ==
    /\ Free(r)
    /\ ~Frozen
    /\ Approved # {}
    /\ BeginPart(r, d, 3)
    /\ UNCHANGED <<roundVars, bookVars, project, draft, folder>>

\* reusePart: a part file of any published version.
BeginReuse(r, d, part, from) ==
    /\ Free(r)
    /\ ~Frozen
    /\ from \in Published
    /\ part \in folder[from]
    /\ BeginPart(r, d, part)
    /\ UNCHANGED <<roundVars, bookVars, project, draft, folder>>

\* cancel (discardDraft)
BeginDiscard(r, d) ==
    /\ Free(r)
    /\ ~Frozen
    /\ d \in ActiveRows
    /\ BeginRow(r, d, [draft[d] EXCEPT !.status = "canceled"])
    /\ UNCHANGED <<roundVars, bookVars, project, draft, folder>>

\* restoreDraft: the cancelled row saved last, which can be any of them. A
\* version published in the meantime is not looked for.
BeginRestore(r, d) ==
    /\ Free(r)
    /\ ~Frozen
    /\ d \in CanceledRows
    /\ ActiveRows = {}
    /\ BeginRow(r, d, WithStatus(draft[d].supplied))
    /\ UNCHANGED <<roundVars, bookVars, project, draft, folder>>

\* The file is written into the folder of the number that is next by now, and
\* the row is saved with every column as it was read, unless the index objects.
Save(r) ==
    LET q == request[r] IN
    /\ q.kind \in {"row", "part"}
    /\ folder' = IF q.kind = "part" THEN PutPart(NextVersion, q.part) ELSE folder
    /\ draft' = IF UniqueDraft(q.row, q.new) THEN [draft EXCEPT ![q.row] = q.new]
                ELSE draft
    /\ request' = [request EXCEPT ![r] = Idle]
    /\ UNCHANGED <<roundVars, bookVars, project>>

\* purgeCanceledDraft removes the row; its files stay.
Purge(d) ==
    /\ d \in CanceledRows
    /\ draft' = [draft EXCEPT ![d] = NoDraft]
    /\ UNCHANGED <<roundVars, bookVars, project, folder, request>>

-------------------------------------------------------------------------------
(* merge *)

\* A booked round is answered with its latest version and nothing changes.
MergeAnswer == MaxNumber

\* Otherwise merge goes on with the row locked.
MergeProceeds == ~RoundLocked /\ ~isBooked

\* First part: lock, list of approved projects, number and files of the version.
BeginMerge(r, d) ==
    /\ Free(r)
    /\ MergeProceeds
    /\ ~Frozen
    /\ d \in ActiveRows
    /\ draft[d].supplied = Part
    /\ Approved # {}
    /\ NextVersion \in VersionNo
    /\ folder[NextVersion] = Part
    /\ Begin(r, [Idle EXCEPT !.kind = "merge", !.row = d, !.list = Approved,
                             !.number = NextVersion])
    /\ UNCHANGED <<roundVars, bookVars, project, draft, folder>>

\* Mutant: the list is filtered again just before the booking.
StampedStillApproved(list) == list \cap Approved

\* The projects whose rows are booked: those that were approved at the start.
Stamped(list) == list

\* cascadeOnBookFinalize looks for live descendants of the projects it is going
\* to delete; the renders before it and the writes after it are awaits apart.
Cascade(r) ==
    /\ request[r].kind = "merge"
    /\ Unforked(Orphans)
    /\ request' = [request EXCEPT ![r].kind = "cascaded", ![r].doomed = Orphans]
    /\ UNCHANGED <<roundVars, bookVars, project, draft, folder>>

\* Mutant: a database without the index on completed versions.
CanCommitTwice(q) == version[q.number].status = "none"

\* The version row meets two unique indexes: uniq_sav_supplement_version and
\* idx_single_completed_per_supplement.
CanCommit(q) == version[q.number].status = "none" /\ Completed = {}

\* Last part: deletions, version row, lineage, booking of the projects that were
\* approved, booking of the round, draft row.
CommitMerge(r) ==
    LET q == request[r]
        v == q.number
    IN
    /\ q.kind = "cascaded"
    /\ CanCommit(q)
    /\ project' = [p \in Project |->
                      [project[p] EXCEPT !.deleted = @ \/ p \in q.doomed,
                                         !.isBooked = @ \/ p \in Stamped(q.list)]]
    /\ version' = [version EXCEPT ![v] = [status |-> "completed", list |-> q.list]]
    /\ lineage' = LineageAfterMerge(q.list, v)
    /\ isBooked' = TRUE
    /\ newerSibling' = FALSE
    /\ undone' = FALSE
    /\ draft' = [draft EXCEPT ![q.row] = NoDraft]
    /\ request' = [request EXCEPT ![r] = Idle]
    /\ UNCHANGED folder

\* The cascade aborts on a live descendant of a project it would delete, the
\* commit on an index, and any other failure (a file, the renderer, the database,
\* a deadlock with a cancel) rolls merge back too.
AbortMerge(r) ==
    /\ request[r].kind \in {"merge", "cascaded"}
    /\ request' = [request EXCEPT ![r] = Idle]
    /\ UNCHANGED <<roundVars, bookVars, project, draft, folder>>

-------------------------------------------------------------------------------
(* cancelPublishedVersion and correct *)

\* Mutant: the version row is deleted.
DeleteVersion(v) == version' = [version EXCEPT ![v] = [status |-> "none", list |-> {}]]

Deprecate(v) == version' = [version EXCEPT ![v].status = "deprecated"]

\* Project and round reset, lineage back to the parents. The update of the round
\* row waits for a merge that holds it.
Unbook(v) ==
    /\ ~RoundLocked
    /\ project' = [p \in Project |->
                      [project[p] EXCEPT !.isBooked = @ /\ p \notin version[v].list]]
    /\ isBooked' = FALSE
    /\ newerSibling' = FALSE
    /\ lineage' = LineageAfterCancel(v)
    /\ undone' = FALSE

\* cancelPublishedVersion, up to its last guard.
BeginCancel(r, v) ==
    /\ Free(r)
    /\ ~Frozen
    /\ Lockable(v)
    /\ Unforked(version[v].list)
    /\ Begin(r, [Idle EXCEPT !.kind = "cancel", !.version = v])
    /\ UNCHANGED <<roundVars, bookVars, project, draft, folder>>

\* cancelPublishedVersion, the writes.
CommitCancel(r) ==
    /\ request[r].kind = "cancel"
    /\ Deprecate(request[r].version)
    /\ Unbook(request[r].version)
    /\ request' = [request EXCEPT ![r] = Idle]
    /\ UNCHANGED <<draft, folder>>

\* correct, up to its last guard: the new draft will reuse the other parts, and
\* one whose copy fails stays pending.
BeginCorrect(r, v, part, reused, d) ==
    /\ Free(r)
    /\ ~Frozen
    /\ Lockable(v)
    /\ ActiveRows = {} /\ CanceledRows = {}
    /\ part = 3 => Unforked(version[v].list)
    /\ Unused(d)
    /\ v < MaxVersion
    /\ reused \subseteq folder[v] \ {part}
    /\ Begin(r, [Idle EXCEPT !.kind = IF part = 3 THEN "reset" ELSE "amend",
                             !.version = v, !.row = d, !.new = WithStatus(reused)])
    /\ UNCHANGED <<roundVars, bookVars, project, draft, folder>>

\* The reused part files, copied into the folder of the next number.
Copied(q) == [folder EXCEPT ![q.version + 1] = @ \cup q.new.supplied]

\* correct, the writes: only Part 3 gives the booking up. The draft row comes last.
CommitCorrect(r) ==
    LET q == request[r] IN
    /\ q.kind \in CorrectKind
    /\ UniqueDraft(q.row, q.new)
    /\ Deprecate(q.version)
    /\ IF q.kind = "reset" THEN Unbook(q.version) ELSE UNCHANGED <<roundVars, lineage, project>>
    /\ folder' = Copied(q)
    /\ draft' = [draft EXCEPT ![q.row] = q.new]
    /\ request' = [request EXCEPT ![r] = Idle]

\* Either rolls back when another draft is active by now, or on any failure; the
\* copied files stay.
AbortCorrection(r) ==
    LET q == request[r] IN
    /\ q.kind \in CorrectKind \cup {"cancel"}
    /\ folder' = IF q.kind = "cancel" THEN folder ELSE Copied(q)
    /\ request' = [request EXCEPT ![r] = Idle]
    /\ UNCHANGED <<roundVars, bookVars, project, draft>>

-------------------------------------------------------------------------------
(* DevelopmentPlanSupplementService: update and updateOpenState save the    *)
(* whole row they have read, with the columns isBooked and bookedAt in it.  *)

BeginRound(r) ==
    /\ Free(r)
    /\ ~Frozen
    /\ Begin(r, [Idle EXCEPT !.kind = "round", !.booked = isBooked])
    /\ UNCHANGED <<roundVars, bookVars, project, draft, folder>>

\* The save waits for a merge that holds the row. With an old bookedAt in it
\* the row may be behind a sibling again.
SaveRound(r) ==
    LET q == request[r] IN
    /\ q.kind = "round"
    /\ ~RoundLocked
    /\ isBooked' = q.booked
    /\ newerSibling' \in {FALSE, q.booked}
    /\ undone' = (Completed # {} /\ ~q.booked)
    /\ request' = [request EXCEPT ![r] = Idle]
    /\ UNCHANGED <<bookVars, project, draft, folder>>

-------------------------------------------------------------------------------
(* The rest of the system, as far as this book can see it. *)

\* Staff approve a project, or roll one back, until the round is booked.
StatusChange(p) ==
    /\ ~isBooked
    /\ ~project[p].deleted
    /\ project[p].status = "approved" => ~project[p].isBooked /\ ~project[p].forked
    /\ project' = [project EXCEPT ![p].status =
                      IF @ = "working" THEN "approved" ELSE "working"]
    /\ UNCHANGED <<roundVars, bookVars, draft, folder, request>>

\* SupplementProjectGroupService.softRemove, in a status its owner may edit: the
\* lineage guard is read before the row is marked deleted.
BeginRemove(r, p) ==
    /\ Free(r)
    /\ ~Frozen
    /\ project[p].status = "working"
    /\ ~project[p].deleted /\ ~project[p].forked
    /\ Begin(r, [Idle EXCEPT !.kind = "remove", !.doomed = {p}])
    /\ UNCHANGED <<roundVars, bookVars, project, draft, folder>>

CommitRemove(r) ==
    /\ request[r].kind = "remove"
    /\ project' = [p \in Project |->
                      [project[p] EXCEPT !.deleted = @ \/ p \in request[r].doomed]]
    /\ request' = [request EXCEPT ![r] = Idle]
    /\ UNCHANGED <<roundVars, bookVars, draft, folder>>

\* The projects a request has found without descendants and is about to un-book
\* or delete.
Checked(q) ==
    q.doomed \cup IF q.kind \in {"cancel", "reset"} THEN version[q.version].list ELSE {}

\* A revision forks a project, or gives the fork up again. Nothing locks the
\* source, and a request past its guard does not see a new fork.
Fork(p) ==
    /\ project[p].forked \/ ~project[p].deleted
    /\ project' = [project EXCEPT ![p].forked = ~@]
    /\ request' = [r \in Request |->
                      [request[r] EXCEPT !.late = IF p \notin Checked(request[r]) THEN @
                                                  ELSE IF project[p].forked THEN @ \ {p}
                                                  ELSE @ \cup {p}]]
    /\ UNCHANGED <<roundVars, bookVars, draft, folder>>

\* A sibling book is finalized after this one, or cancelled again.
SiblingBook ==
    /\ isBooked
    /\ newerSibling' = ~newerSibling
    /\ UNCHANGED <<isBooked, undone, bookVars, project, draft, folder, request>>

-------------------------------------------------------------------------------

Handler(r) ==
    \/ \E d \in DraftRow :
          \/ BeginCreate(r, d)
          \/ \E part \in FrontPart : BeginUpload(r, d, part)
          \/ BeginGenerate(r, d)
          \/ \E part \in Part, from \in VersionNo : BeginReuse(r, d, part, from)
          \/ BeginDiscard(r, d)
          \/ BeginRestore(r, d)
          \/ BeginMerge(r, d)
          \/ \E v \in VersionNo, part \in Part, reused \in SUBSET Part :
                BeginCorrect(r, v, part, reused, d)
    \/ Save(r)
    \/ Cascade(r)
    \/ CommitMerge(r)
    \/ AbortMerge(r)
    \/ \E v \in VersionNo : BeginCancel(r, v)
    \/ CommitCancel(r)
    \/ CommitCorrect(r)
    \/ AbortCorrection(r)
    \/ BeginRound(r)
    \/ SaveRound(r)
    \/ \E p \in Project : BeginRemove(r, p)
    \/ CommitRemove(r)

Environment ==
    \/ \E p \in Project : StatusChange(p)
    \/ \E p \in Forkable : Fork(p)
    \/ SiblingBook

Next == (\E r \in Request : Handler(r)) \/ (\E d \in DraftRow : Purge(d)) \/ Environment

Spec == Init /\ [][Next]_vars

-------------------------------------------------------------------------------
(* Properties.                                                              *)

\* At most one official version, always the newest, and no gap in the numbers,
\* even when a stale edit of the round lets a second merge get past the early
\* answer for a booked round.
OfficialIsNewest ==
    /\ \A v \in Published : 1..v \subseteq Published
    /\ Completed \subseteq {MaxNumber}

\* While a version is official every project of its list is booked, whatever was
\* approved, rolled back or saved while merge was working; and so is the round,
\* unless an edit of it has written an old isBooked back since.
OfficialIsBooked ==
    \A v \in Completed :
        /\ ~undone => isBooked
        /\ \A p \in version[v].list : project[p].isBooked

\* The leaf of a project is a version that lists it, and the official version is
\* the leaf of all its projects, across merges, cancels and corrections.
LeafIsOfficial ==
    /\ \A p \in Project : lineage[p].leaf # 0 => /\ lineage[p].leaf \in Published
                                                 /\ p \in version[lineage[p].leaf].list
    /\ \A v \in Completed : \A p \in version[v].list : lineage[p].leaf = v

\* Lineage immutability, as far as the code keeps it: a project that a revision has
\* forked is neither deleted by a cascade or a removal nor un-booked by a cancel or
\* a correction, except by a request that had already looked for descendants when
\* the fork was made.
ForkedLate(p) == \E r \in Request : p \in request[r].late

ForkedSourceKept ==
    [][\A p \in Project : project[p].forked /\ ~ForkedLate(p) =>
          /\ project[p].isBooked => project'[p].isBooked
          /\ ~project[p].deleted => ~project'[p].deleted]_vars

\* The service implements the book it promises its readers: at most one official
\* version, the newest, and a published project list that never changes.
Official == IF Completed = {} THEN 0 ELSE MaxNumber
Book == INSTANCE PublishedBook WITH
            last <- MaxNumber, official <- Official,
            printed <- [v \in VersionNo |-> version[v].list]
IsPublishedBook == Book!BookSpec

-------------------------------------------------------------------------------
(* Why the above holds: the strengthening that every step preserves. *)

\* The published numbers are exactly 1..n.
NumbersDense == \E n \in 0..MaxVersion : Published = 1..n

\* The lock of the round: one merge at a time, in a round nobody books meanwhile,
\* and the number it is going to take stays the next one.
MergesAlone ==
    \A r \in Request : request[r].kind \in {"merge", "cascaded"} =>
        /\ ~isBooked
        /\ request[r].list # {}
        /\ request[r].row \in DraftRow
        /\ request[r].number = NextVersion
        /\ NextVersion \in VersionNo
        /\ \A s \in Request : request[s].kind \in {"merge", "cascaded"} => s = r

\* The lock of the version: what a cancel or a correction has loaded is still
\* official, and a correction leaves room for the next number.
LockedIsOfficial ==
    \A r \in Request :
        /\ request[r].kind \in CorrectKind \cup {"cancel"} => request[r].version # 0
        /\ request[r].kind \in CorrectKind => /\ request[r].version < MaxVersion
                                              /\ request[r].row \in DraftRow
        /\ request[r].version # 0 =>
              /\ request[r].version \in Completed
              /\ \A s \in Request \ {r} : request[s].version # request[r].version

\* A forked source about to be un-booked or deleted was forked too late.
ForksKnown ==
    \A r \in Request : ForkedAmong(Checked(request[r])) \subseteq request[r].late

\* The parent of a lineage row is a version that lists the project.
ParentsListed ==
    \A p \in Project : \A v \in VersionNo :
        LET w == lineage[p].parent[v] IN w # 0 => w \in Published /\ p \in version[w].list

\* The locks keep merges apart and what is cancelled or corrected official; the
\* inductive invariant adds that the official version is the last, booked and leaf.
LocksHold ==
    /\ NumbersDense
    /\ MergesAlone
    /\ LockedIsOfficial
    /\ ForksKnown
    /\ ParentsListed

Inductive ==
    /\ TypeOK
    /\ LocksHold
    /\ OfficialIsNewest
    /\ OfficialIsBooked
    /\ LeafIsOfficial

-------------------------------------------------------------------------------
(* What a comment of the code says and the code does not do.               *)

\* "`targetVersion` is the version this draft will become on merge": with no
\* official version left, a ready draft is merged when merge is called, and not
\* answered with a version that was deprecated before.
ReadyDraftMerges ==
    (\E d \in DraftRow : draft[d].status = "ready") /\ isBooked => MergeAnswer \in Completed

==============================================================================
