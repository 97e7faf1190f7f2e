--------------------------- MODULE RevisionAssembly ---------------------------
(***************************************************************************)
(* The book of one development plan revision: EditAssemblyService, and     *)
(* ChangeAssemblyService, which is the same code over other tables.        *)
(*                                                                         *)
(* An admin collects three parts in a draft row, merges them into a        *)
(* version row, and may later cancel or correct the official version.      *)
(* merge, cancelPublishedVersion and correct run in a transaction at READ   *)
(* COMMITTED; every other handler loads a row, works, and saves the whole  *)
(* row back. Either way a request in flight carries what it has read and   *)
(* will write (request[r]), and its guards are as old as that reading.     *)
(***************************************************************************)
EXTENDS Integers

CONSTANTS Project,      \* the RevisedProjectGroup rows of the revision
          Forkable,     \* the projects a later book may fork
          DraftRow,     \* identities of draft rows
          Request,      \* slots for HTTP requests in flight
          FrontPart,    \* the parts uploaded by hand: {1, 2} in the code
          MaxVersion,   \* bound on version numbers
          NoRow         \* "no draft row"

ASSUME ConstantsAssumption ==
    /\ Forkable \subseteq Project
    /\ FrontPart \subseteq {1, 2}
    /\ MaxVersion \in Nat
    /\ NoRow \notin DraftRow

VARIABLES revision,     \* the DevelopmentPlanRevision row
          newerSibling, \* a sibling book was booked after this one
          project,      \* the project rows and their latest status
          version,      \* EditAssemblyVersion rows, by version number
          lineage,      \* EditProjectLineage rows, by project
          draft,        \* EditAssemblyDraft rows
          part3File,    \* projects printed in v<n>/parts/part-3.pdf on disk
          mergedFile,   \* projects printed in v<n>/merged/official-book on disk
          request       \* requests between their read and their write

bookVars == <<revision, newerSibling, version, lineage>>
fileVars == <<part3File, mergedFile>>
vars == <<bookVars, project, draft, fileVars, request>>

VersionNo == 1..MaxVersion
Part == FrontPart \cup {3}
ActiveStatus == {"preparing", "ready"}
DraftStatus == ActiveStatus \cup {"absent", "canceled", "merged"}
ProjectStatus == {"working", "approved", "rejected"}
Part3Kind == {"rendered", "reusePart3"}
SavingKind == Part3Kind \cup {"create", "upload", "reuse", "discard", "restore"}
CorrectKind == {"amend", "reset"}
DraftKind == SavingKind \cup CorrectKind \cup {"generate", "merge", "cascaded"}
RequestKind == DraftKind \cup {"idle", "cancel", "remove", "round"}

\* unpaged: the projects of the list that part3PageMap gives no page.
DraftRecord == [status : DraftStatus, target : 0..MaxVersion, supplied : SUBSET Part,
                snapshot : SUBSET Project, unpaged : SUBSET Project]
NoDraft == [status |-> "absent", target |-> 0, supplied |-> {},
            snapshot |-> {}, unpaged |-> {}]

RoundRecord == [isBooked : BOOLEAN, isOpen : BOOLEAN]
OpenRound == [isBooked |-> FALSE, isOpen |-> TRUE]

\* version: the row cancel and correct hold FOR UPDATE. doomed: the projects whose
\* descendants were looked for and that will be deleted. late (history): the
\* projects forked since the request looked for descendants.
RequestRecord == [kind : RequestKind, row : DraftRow \cup {NoRow}, new : DraftRecord,
                  prints : SUBSET Project, round : RoundRecord,
                  version : 0..MaxVersion, doomed : SUBSET Project, late : SUBSET Project]
Idle == [kind |-> "idle", row |-> NoRow, new |-> NoDraft, prints |-> {},
         round |-> OpenRound, version |-> 0, doomed |-> {}, late |-> {}]

TypeOK ==
    /\ revision \in RoundRecord
    /\ newerSibling \in BOOLEAN
    /\ project \in [Project -> [status : ProjectStatus, isBooked : BOOLEAN,
                                deleted : BOOLEAN, forked : BOOLEAN]]
    /\ version \in [VersionNo -> [status : {"none", "completed", "deprecated"},
                                  snapshot : SUBSET Project]]
    /\ lineage \in [Project -> [rows : SUBSET VersionNo, leaf : SUBSET VersionNo,
                                parent : [VersionNo -> 0..MaxVersion]]]
    /\ draft \in [DraftRow -> DraftRecord]
    /\ part3File \in [VersionNo -> SUBSET Project]
    /\ mergedFile \in [VersionNo -> SUBSET Project]
    /\ request \in [Request -> RequestRecord]

Init ==
    /\ revision = OpenRound
    /\ newerSibling = FALSE
    /\ project = [p \in Project |-> [status |-> "working", isBooked |-> FALSE,
                                     deleted |-> FALSE, forked |-> FALSE]]
    /\ version = [v \in VersionNo |-> [status |-> "none", snapshot |-> {}]]
    /\ lineage = [p \in Project |-> [rows |-> {}, leaf |-> {},
                                     parent |-> [v \in VersionNo |-> 0]]]
    /\ draft = [d \in DraftRow |-> NoDraft]
    /\ part3File = [v \in VersionNo |-> {}]
    /\ mergedFile = [v \in VersionNo |-> {}]
    /\ request = [r \in Request |-> Idle]

-------------------------------------------------------------------------------
(* What the handlers read. *)

\* BookLockService: a booked revision is frozen by a sibling booked after it.
Frozen == revision.isBooked /\ newerSibling

Published == {v \in VersionNo : version[v].status # "none"}
Completed == {v \in VersionNo : version[v].status = "completed"}

\* SELECT MAX(version_number), 0 when the revision has no version yet.
MaxNumber == IF Published = {} THEN 0
             ELSE CHOOSE v \in Published : \A w \in Published : w <= v

ActiveRows == {d \in DraftRow : draft[d].status \in ActiveStatus}
CanceledRows == {d \in DraftRow : draft[d].status = "canceled"}

\* A row identity nothing refers to any more can stand for a new uuid.
Unused(d) == /\ draft[d].status \in {"absent", "merged"}
             /\ \A r \in Request : request[r].row # d

\* idx_edit_single_active_draft_per_revision: one row that is not merged.
UniqueDraft(d, rec) ==
    \/ rec.status = "merged"
    \/ \A e \in DraftRow \ {d} : draft[e].status \in {"absent", "merged"}

\* Two queries of generatePart3: the project list of the book, and, a moment
\* later in the PDF service, the projects actually printed.
Eligible == {p \in Project : /\ project[p].status = "approved"
                             /\ ~project[p].isBooked
                             /\ ~project[p].deleted}

Printable == {p \in Project : project[p].status = "approved" /\ ~project[p].deleted}

ForkedAmong(S) == {p \in S : project[p].forked}

-------------------------------------------------------------------------------
(* What they compute. *)

\* updateAssemblyStatus: ready with every part; a ready draft that lacks one
\* falls back to preparing.
WithStatus(rec) ==
    [rec EXCEPT !.status = IF rec.supplied = Part THEN "ready"
                           ELSE IF @ = "ready" THEN "preparing" ELSE @]

Supply(rec, part) == WithStatus([rec EXCEPT !.supplied = @ \cup {part}])

SupplyPart3(rec, list) ==
    Supply([rec EXCEPT !.snapshot = list, !.unpaged = {}], 3)

\* restoreDraft recomputes the status from the parts alone.
Restored(rec) ==
    [rec EXCEPT !.status = IF rec.supplied = Part THEN "ready" ELSE "preparing"]

UnbookProjects(S) ==
    [p \in Project |-> [project[p] EXCEPT !.isBooked = @ /\ p \notin S]]

\* Mutant: the previous leaf keeps its flag.
LineageKeepingOldLeaf(S, v) ==
    [p \in Project |-> IF p \notin S THEN lineage[p]
                       ELSE [lineage[p] EXCEPT !.rows = @ \cup {v}, !.leaf = @ \cup {v}]]

\* populateLineageForMerge: the version becomes the leaf of every project it
\* prints, the previous leaf its parent.
LineageAfterMerge(S, v) ==
    [p \in Project |->
        IF p \notin S THEN lineage[p]
        ELSE LET line == lineage[p]
                 old == IF line.leaf = {} THEN 0 ELSE CHOOSE w \in line.leaf : TRUE
             IN  [rows |-> line.rows \cup {v},
                  leaf |-> (line.leaf \ {old}) \cup {v},
                  parent |-> [line.parent EXCEPT ![v] = old]]]

\* Mutant: the parent is not looked up before it becomes leaf again.
LineageCancelUnguarded(S, v) ==
    [p \in Project |->
        IF p \notin S \/ v \notin lineage[p].rows THEN lineage[p]
        ELSE [lineage[p] EXCEPT !.leaf = (@ \ {v}) \cup {lineage[p].parent[v]}]]

\* restoreLineageAfterCancel: the parent of the cancelled row is leaf again.
LineageAfterCancel(S, v) ==
    [p \in Project |->
        IF p \notin S \/ v \notin lineage[p].rows THEN lineage[p]
        ELSE [lineage[p] EXCEPT
                 !.leaf = (@ \ {v}) \cup ({lineage[p].parent[v]} \cap lineage[p].rows)]]

-------------------------------------------------------------------------------
(* A handler outside a transaction: Begin reads the row, Save writes it.   *)

Begin(r, kind, d, rec, list) ==
    /\ request[r] = Idle
    /\ request' = [request EXCEPT ![r] =
                      [Idle EXCEPT !.kind = kind, !.row = d, !.new = rec,
                                   !.prints = list]]

\* createDraft: no active draft; a cancelled one is removed silently when an
\* official version exists and blocks the call otherwise.
BeginCreate(r, d) ==
    /\ ~Frozen
    /\ ActiveRows = {}
    /\ CanceledRows = {} \/ Completed # {}
    /\ Unused(d)
    /\ MaxNumber < MaxVersion
    /\ Begin(r, "create", d, [status |-> "preparing", target |-> MaxNumber + 1,
                              supplied |-> {}, snapshot |-> {}, unpaged |-> {}], {})
    /\ draft' = [e \in DraftRow |-> IF e \in CanceledRows THEN NoDraft ELSE draft[e]]
    /\ UNCHANGED <<bookVars, project, fileVars>>

\* uploadPart
BeginUpload(r, d, part) ==
    /\ ~Frozen
    /\ d \in ActiveRows
    /\ Begin(r, "upload", d, Supply(draft[d], part), {})
    /\ UNCHANGED <<bookVars, project, draft, fileVars>>

\* generatePart3: the project list is read first, and the row is saved last.
BeginGenerate(r, d) ==
    /\ ~Frozen
    /\ d \in ActiveRows
    /\ Eligible # {}
    /\ Begin(r, "generate", d, SupplyPart3(draft[d], Eligible), {})
    /\ UNCHANGED <<bookVars, project, draft, fileVars>>

\* The PDF service fails when it finds nothing to print, and gives a page to
\* what it prints: a listed project rolled back meanwhile gets none.
Render(r) ==
    /\ request[r].kind = "generate"
    /\ request' = [request EXCEPT ![r] =
                      IF Printable = {} THEN Idle
                      ELSE [@ EXCEPT !.kind = "rendered", !.prints = Printable,
                                     !.new.unpaged = request[r].new.snapshot \ Printable]]
    /\ UNCHANGED <<bookVars, project, draft, fileVars>>

\* reusePart: a part of any published version; not guarded by the freeze.
BeginReuse(r, d, part, from) ==
    /\ d \in ActiveRows
    /\ from \in Published
    /\ IF part = 3
       THEN Begin(r, "reusePart3", d, SupplyPart3(draft[d], version[from].snapshot),
                  part3File[from])
       ELSE Begin(r, "reuse", d, Supply(draft[d], part), {})
    /\ UNCHANGED <<bookVars, project, draft, fileVars>>

\* discardDraft
BeginDiscard(r, d) ==
    /\ d \in ActiveRows
    /\ Begin(r, "discard", d, [draft[d] EXCEPT !.status = "canceled"], {})
    /\ UNCHANGED <<bookVars, project, draft, fileVars>>

\* restoreDraft
BeginRestore(r, d) ==
    /\ d \in CanceledRows
    /\ ActiveRows = {}
    /\ Begin(r, "restore", d, Restored(draft[d]), {})
    /\ UNCHANGED <<bookVars, project, draft, fileVars>>

\* The part file reaches the disk before the row is saved. Saving writes every
\* column of the row as it was read, re-inserts a purged row, and fails on the
\* unique index.
Save(r) ==
    LET q == request[r] IN
    /\ q.kind \in SavingKind
    /\ request' = [request EXCEPT ![r] = Idle]
    /\ draft' = IF UniqueDraft(q.row, q.new) THEN [draft EXCEPT ![q.row] = q.new]
                ELSE draft
    /\ part3File' = IF q.kind \in Part3Kind
                    THEN [part3File EXCEPT ![q.new.target] = q.prints]
                    ELSE part3File
    /\ UNCHANGED <<bookVars, project, mergedFile>>

\* purgeCanceledDraft
Purge(d) ==
    /\ d \in CanceledRows
    /\ draft' = [draft EXCEPT ![d] = NoDraft]
    /\ UNCHANGED <<bookVars, project, fileVars, request>>

-------------------------------------------------------------------------------
(* The transactions. *)

\* merge, first half: the freeze guard and the ready draft are read, then the
\* PDF parts are concatenated into the official file of the target version,
\* which no rollback will undo.
BeginMerge(r, d) ==
    /\ ~Frozen
    /\ draft[d].status = "ready"
    /\ draft[d].snapshot # {}
    /\ Begin(r, "merge", d, [draft[d] EXCEPT !.status = "merged"], {})
    /\ mergedFile' = [mergedFile EXCEPT ![draft[d].target] = part3File[draft[d].target]]
    /\ UNCHANGED <<bookVars, project, draft, part3File>>

\* cascadeOnBookFinalize: what is neither approved nor rejected is deleted.
Orphans == {p \in Project : ~project[p].deleted /\ project[p].status = "working"}

\* Mutant: the cascade deletes without looking for descendants.
CascadeUnguarded(r) ==
    /\ request[r].kind = "merge"
    /\ request' = [request EXCEPT ![r].kind = "cascaded", ![r].doomed = Orphans]
    /\ UNCHANGED <<bookVars, project, draft, fileVars>>

\* The cascade's plain read of live descendants comes before the deletions, and both come
\* long before the commit.
Cascade(r) ==
    /\ request[r].kind = "merge"
    /\ ForkedAmong(Orphans) = {}
    /\ request' = [request EXCEPT ![r].kind = "cascaded", ![r].doomed = Orphans]
    /\ UNCHANGED <<bookVars, project, draft, fileVars>>

\* Mutants: a commit without the index on completed versions, or without the
\* one on version numbers.
CanCommitTwice(rec) == rec.unpaged = {} /\ version[rec.target].status = "none"
CanCommitAgain(rec) == rec.unpaged = {} /\ Completed = {}

\* The version row meets two unique indexes (number, and one completed version
\* per revision), its project rows CHECK (page_number >= 1): no page is page 0.
CanCommit(rec) ==
    /\ version[rec.target].status = "none"
    /\ Completed = {}
    /\ rec.unpaged = {}

\* merge, second half: cascade, booking, version row, draft row, lineage.
CommitMerge(r) ==
    LET q == request[r]
        v == q.new.target
        S == q.new.snapshot
    IN
    /\ q.kind = "cascaded"
    /\ CanCommit(q.new)
    /\ project' = [p \in Project |->
                      [project[p] EXCEPT !.deleted = @ \/ p \in q.doomed,
                                         !.isBooked = @ \/ p \in S]]
    /\ revision' = [isBooked |-> TRUE, isOpen |-> FALSE]
    /\ newerSibling' = FALSE
    /\ version' = [version EXCEPT ![v] = [status |-> "completed", snapshot |-> S]]
    /\ draft' = [draft EXCEPT ![q.row] = q.new]
    /\ lineage' = LineageAfterMerge(S, v)
    /\ request' = [request EXCEPT ![r] = Idle]
    /\ UNCHANGED fileVars

AbortMerge(r) ==
    /\ \/ request[r].kind = "merge" /\ ForkedAmong(Orphans) # {}
       \/ request[r].kind = "cascaded" /\ ~CanCommit(request[r].new)
    /\ request' = [request EXCEPT ![r] = Idle]
    /\ UNCHANGED <<bookVars, project, draft, fileVars>>

\* cancelPublishedVersion and correct load the official version FOR UPDATE and
\* hold it to their end; the guards they read next are not locked.
Lockable(v) ==
    /\ v \in Completed
    /\ \A r \in Request : request[r].version # v

HasLeafChild(v) ==
    \E p \in Project : \E w \in lineage[p].leaf : lineage[p].parent[w] = v

\* Mutant: any published version can be cancelled.
BeginCancelAny(r, v) ==
    /\ ~Frozen
    /\ v \in Published /\ \A s \in Request : request[s].version # v
    /\ ForkedAmong(version[v].snapshot) = {}
    /\ request[r] = Idle
    /\ request' = [request EXCEPT ![r] = [Idle EXCEPT !.kind = "cancel", !.version = v]]
    /\ UNCHANGED <<bookVars, project, draft, fileVars>>

\* cancelPublishedVersion, up to its last guard.
BeginCancel(r, v) ==
    /\ ~Frozen
    /\ Lockable(v)
    /\ ~HasLeafChild(v)
    /\ ForkedAmong(version[v].snapshot) = {}
    /\ request[r] = Idle
    /\ request' = [request EXCEPT ![r] = [Idle EXCEPT !.kind = "cancel", !.version = v]]
    /\ UNCHANGED <<bookVars, project, draft, fileVars>>

\* correct, up to its last guard: a draft of the next version will reuse the
\* other parts; a part whose file cannot be copied stays pending.
BeginCorrect(r, v, part, reused, d) ==
    /\ ~Frozen
    /\ Lockable(v)
    /\ ActiveRows = {} /\ CanceledRows = {}
    /\ part = 3 => ForkedAmong(version[v].snapshot) = {}
    /\ Unused(d)
    /\ v < MaxVersion
    /\ reused \subseteq Part \ {part}
    /\ request[r] = Idle
    /\ request' = [request EXCEPT ![r] =
                      [Idle EXCEPT !.kind = IF part = 3 THEN "reset" ELSE "amend",
                                   !.version = v, !.row = d,
                                   !.new = WithStatus(
                          [status |-> "preparing", target |-> v + 1, supplied |-> reused,
                           snapshot |-> IF 3 \in reused THEN version[v].snapshot ELSE {},
                           unpaged |-> {}])]]
    /\ UNCHANGED <<bookVars, project, draft, fileVars>>

\* What cancelPublishedVersion and correct(PART3) both write: the version's
\* projects, the revision and the lineage.
Unbook(v) ==
    /\ project' = UnbookProjects(version[v].snapshot)
    /\ revision' = OpenRound
    /\ newerSibling' = FALSE
    /\ lineage' = LineageAfterCancel(version[v].snapshot, v)

Deprecate(v) == version' = [version EXCEPT ![v].status = "deprecated"]

\* cancelPublishedVersion, the writes.
CommitCancel(r) ==
    /\ request[r].kind = "cancel"
    /\ Deprecate(request[r].version)
    /\ Unbook(request[r].version)
    /\ request' = [request EXCEPT ![r] = Idle]
    /\ UNCHANGED <<draft, fileVars>>

\* The part files are copied on disk whatever becomes of the transaction.
CopyPart3(q) ==
    part3File' = IF 3 \in q.new.supplied
                 THEN [part3File EXCEPT ![q.new.target] = part3File[q.version]]
                 ELSE part3File

\* correct, the writes: the draft row comes last and may meet the unique index.
CommitCorrect(r) ==
    LET q == request[r] IN
    /\ q.kind \in CorrectKind
    /\ UniqueDraft(q.row, q.new)
    /\ Deprecate(q.version)
    /\ IF q.kind = "reset" THEN Unbook(q.version)
       ELSE UNCHANGED <<revision, newerSibling, project, lineage>>
    /\ draft' = [draft EXCEPT ![q.row] = q.new]
    /\ CopyPart3(q)
    /\ request' = [request EXCEPT ![r] = Idle]
    /\ UNCHANGED mergedFile

AbortCorrect(r) ==
    LET q == request[r] IN
    /\ q.kind \in CorrectKind
    /\ ~UniqueDraft(q.row, q.new)
    /\ CopyPart3(q)
    /\ request' = [request EXCEPT ![r] = Idle]
    /\ UNCHANGED <<bookVars, project, draft, mergedFile>>

-------------------------------------------------------------------------------
(* DevelopmentPlanRevisionService.updateOpenState saves the whole revision *)
(* row it has read, with the columns isBooked and bookedAt in it.          *)

BeginRound(r, open) ==
    /\ ~Frozen
    /\ request[r] = Idle
    /\ request' = [request EXCEPT ![r] =
                      [Idle EXCEPT !.kind = "round", !.round = [revision EXCEPT !.isOpen = open]]]
    /\ UNCHANGED <<bookVars, project, draft, fileVars>>

\* With an old bookedAt in it the row may be behind a sibling again.
SaveRound(r) ==
    /\ request[r].kind = "round"
    /\ revision' = request[r].round
    /\ newerSibling' \in {FALSE, request[r].round.isBooked}
    /\ request' = [request EXCEPT ![r] = Idle]
    /\ UNCHANGED <<version, lineage, project, draft, fileVars>>

-------------------------------------------------------------------------------
(* The rest of the system, as far as this book can see it. *)

\* Staff move a project through the workflow until the revision is booked; a
\* rollback also needs the project to be in no book and unforked.
StatusChange(p, s) ==
    /\ ~revision.isBooked
    /\ ~project[p].deleted
    /\ \/ project[p].status = "working" /\ s \in {"approved", "rejected"}
       \/ /\ project[p].status \in {"approved", "rejected"} /\ s = "working"
          /\ ~project[p].isBooked /\ ~project[p].forked
    /\ project' = [project EXCEPT ![p].status = s]
    /\ UNCHANGED <<bookVars, draft, fileVars, request>>

\* RevisedProjectGroupService.softRemove: only the lineage guard, read before the
\* row is marked deleted.
BeginRemove(r, p) ==
    /\ ~project[p].deleted /\ ~project[p].forked
    /\ request[r] = Idle
    /\ request' = [request EXCEPT ![r] = [Idle EXCEPT !.kind = "remove", !.doomed = {p}]]
    /\ UNCHANGED <<bookVars, project, draft, fileVars>>

CommitRemove(r) ==
    /\ request[r].kind = "remove"
    /\ project' = [p \in Project |->
                      [project[p] EXCEPT !.deleted = @ \/ p \in request[r].doomed]]
    /\ request' = [request EXCEPT ![r] = Idle]
    /\ UNCHANGED <<bookVars, draft, fileVars>>

\* The projects a request has found without descendants and is about to un-book
\* or delete.
Checked(q) ==
    q.doomed \cup
    IF q.kind \in {"cancel", "reset"} THEN version[q.version].snapshot ELSE {}

\* A later revision forks the project, or gives the fork up again. Nothing locks
\* the source, and a request past its guard does not see a new fork.
Fork(p) ==
    /\ ~project[p].deleted
    /\ project' = [project EXCEPT ![p].forked = ~@]
    /\ request' = [r \in Request |->
                      [request[r] EXCEPT !.late = IF p \notin Checked(request[r]) THEN @
                                                  ELSE IF project[p].forked THEN @ \ {p}
                                                  ELSE @ \cup {p}]]
    /\ UNCHANGED <<bookVars, draft, fileVars>>

\* A sibling book is finalized after this one, or cancelled again.
SiblingBook ==
    /\ revision.isBooked
    /\ newerSibling' = ~newerSibling
    /\ UNCHANGED <<revision, version, lineage, project, draft, fileVars, request>>

-------------------------------------------------------------------------------

Handler(r) ==
    \/ \E d \in DraftRow :
          \/ BeginCreate(r, d)
          \/ \E part \in FrontPart : BeginUpload(r, d, part)
          \/ BeginGenerate(r, d)
          \/ \E part \in Part, from \in VersionNo : BeginReuse(r, d, part, from)
          \/ BeginDiscard(r, d)
          \/ BeginRestore(r, d)
          \/ BeginMerge(r, d)
          \/ \E v \in VersionNo, part \in Part, reused \in SUBSET Part :
                BeginCorrect(r, v, part, reused, d)
    \/ Render(r)
    \/ Save(r)
    \/ \E open \in BOOLEAN : BeginRound(r, open)
    \/ SaveRound(r)
    \/ Cascade(r)
    \/ CommitMerge(r)
    \/ AbortMerge(r)
    \/ \E v \in VersionNo : BeginCancel(r, v)
    \/ CommitCancel(r)
    \/ CommitCorrect(r)
    \/ AbortCorrect(r)
    \/ \E p \in Project : BeginRemove(r, p)
    \/ CommitRemove(r)

Environment ==
    \/ \E p \in Project, s \in ProjectStatus : StatusChange(p, s)
    \/ \E p \in Forkable : Fork(p)
    \/ SiblingBook

Next == (\E r \in Request : Handler(r)) \/ (\E d \in DraftRow : Purge(d)) \/ Environment

Spec == Init /\ [][Next]_vars

-------------------------------------------------------------------------------
(* Properties. *)

\* The official version is the newest one and numbers have no gap, although the
\* target of a draft is fixed long before its merge and may be stale by then.
OfficialIsNewest ==
    /\ \A v \in Published : \A w \in 1..v : w \in Published
    /\ Completed \subseteq {MaxNumber}

\* As long as a version is official every project of its snapshot carries the
\* booked mark: no cancel or correction of another version, whose snapshot may
\* share projects with this one, may un-book it.
OfficialSnapshotBooked ==
    \A v \in Completed : \A p \in version[v].snapshot : project[p].isBooked

\* Merges and roll-backs never leave two current leaves for one project, and the
\* leaf of a project of the official version is that version.
LeafIsOfficial ==
    /\ \A p \in Project : \A v, w \in lineage[p].leaf : v = w
    /\ \A v \in Completed : \A p \in version[v].snapshot : lineage[p].leaf = {v}

\* Lineage immutability, as far as the code keeps it: a source that a later book
\* has forked is neither deleted by a cascade or a removal nor un-booked by a
\* cancel or a correction, except by a request that had already looked for
\* descendants when the fork was made.
ForkedLate(p) == \E r \in Request : p \in request[r].late

ForkedSourceKept ==
    [][\A p \in Project : project[p].forked /\ ~ForkedLate(p) =>
          /\ project[p].isBooked => project'[p].isBooked
          /\ ~project[p].deleted => ~project'[p].deleted]_vars

\* What every book promises its readers, and this one keeps: at most one official
\* version, the newest, and a published project list that never changes.
Official == IF Completed = {} THEN 0 ELSE MaxNumber
Book == INSTANCE PublishedBook WITH
            last <- MaxNumber, official <- Official,
            printed <- [v \in VersionNo |-> version[v].snapshot]
IsPublishedBook == Book!BookSpec

-------------------------------------------------------------------------------
(* Why the above holds: the strengthening that every step preserves. *)

\* The published numbers are exactly 1..n.
NumbersDense == \E n \in 0..MaxVersion : Published = 1..n

\* A draft row aims at a published number or at the next one, never past it...
DraftsAimNext ==
    \A d \in DraftRow :
        /\ draft[d].target <= MaxNumber + 1
        /\ draft[d].status # "absent" => draft[d].target \in VersionNo

\* ...and so does the row a request is going to write, however old it is; a
\* merge under way has a project list.
RequestsAimNext ==
    \A r \in Request :
        /\ request[r].new.target <= MaxNumber + 1
        /\ request[r].kind \in DraftKind =>
              /\ request[r].new.target \in VersionNo
              /\ request[r].row \in DraftRow
        /\ request[r].kind \in {"merge", "cascaded"} => request[r].new.snapshot # {}

\* The row lock: what a cancel or a correction has loaded is still official.
LockedIsOfficial ==
    \A r \in Request :
        /\ request[r].kind \in CorrectKind \cup {"cancel"} => request[r].version # 0
        /\ request[r].version # 0 =>
              /\ request[r].version \in Completed
              /\ \A s \in Request \ {r} : request[s].version # request[r].version

\* A forked source about to be un-booked or deleted was forked too late.
ForksKnown ==
    \A r \in Request : ForkedAmong(Checked(request[r])) \subseteq request[r].late

\* The inductive invariant: numbers are dense, drafts never aim past the next
\* number, and the official version is the last one, booked and leaf.
Inductive ==
    /\ TypeOK
    /\ NumbersDense
    /\ DraftsAimNext
    /\ RequestsAimNext
    /\ LockedIsOfficial
    /\ ForksKnown
    /\ OfficialIsNewest
    /\ OfficialSnapshotBooked
    /\ LeafIsOfficial

==============================================================================
