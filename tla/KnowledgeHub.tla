---------------------------- MODULE KnowledgeHub ----------------------------
(***************************************************************************)
(* The knowledge base of the AI chat: curated entries with their immutable *)
(* revisions (ai-knowledge-hub.service.ts), the items that outside systems *)
(* submit into quarantine, their review and promotion to entries           *)
(* (knowledge-ingestion.service.ts), and the nightly purge of old items    *)
(* (knowledge-ingestion-retention.cron.ts).                                *)
(*                                                                         *)
(* A handler reads a row, checks it, and then writes in one transaction;   *)
(* only an edit looks again at what it has read.  The texts of an entry    *)
(* stand for all its columns that a caller can set.                        *)
(***************************************************************************)
EXTENDS Naturals

CONSTANTS
  Entry,        \* ai_knowledge_entries
  Submission,   \* pairs of a source and an idempotency key
  Text, NoText,
  NewText,      \* those an entry may begin with
  NoEntry,      \* promotedEntryId is null
  Curated,      \* the origin of an entry that no submission led to
  Slot,         \* requests in progress
  MaxVersion    \* bound: versions of an entry

ASSUME HubAssumption ==
  /\ NoText \notin Text /\ NoEntry \notin Entry /\ Curated \notin Submission
  /\ NewText \subseteq Text /\ Entry # {} /\ Submission # {}
  /\ MaxVersion \in Nat \ {0}

VARIABLES
  entry,     \* the rows; origin is the submission (the code keeps its source)
  history,   \* the revisions of each entry; over is what its editor had read
  staged,    \* ai_knowledge_ingestions
  refused,   \* submissions that were rejected on receipt
  request,   \* the handlers between their read and their write
  purge      \* the rows a running purge has collected

vars == <<entry, history, staged, refused, request, purge>>

Version == 1..MaxVersion

EntryRow ==
  [status : {"none", "draft", "published", "archived"}, deleted : BOOLEAN,
   version : 0..MaxVersion, text : Text \cup {NoText},
   origin : Submission \cup {Curated}]
NoRow == [status |-> "none", deleted |-> FALSE, version |-> 0,
          text |-> NoText, origin |-> Curated]

Revision == [text : Text \cup {NoText}, over : Text \cup {NoText}]
NoRevision == [text |-> NoText, over |-> NoText]

StagedRow ==
  [status : {"none", "quarantined", "rejected", "promoted", "purged"},
   entry : Entry \cup {NoEntry}]
NotReceived == [status |-> "none", entry |-> NoEntry]

(* Kinds of request and what they carry: the entry, for an edit its version  *)
(* and text as the editor has read them and the new text, or the submission. *)
StatusKind == {"publish", "archive", "delete"}
ReviewKind == {"promote", "reject"}
Idle == [kind |-> "idle"]
RequestRow ==
  {Idle}
  \cup [kind : {"edit"}, entry : Entry, from : Version,
        seen : Text \cup {NoText}, text : Text]
  \cup [kind : StatusKind, entry : Entry]
  \cup [kind : ReviewKind, item : Submission]
  \cup [kind : {"receive"}, item : Submission, valid : BOOLEAN]

Init ==
  /\ entry = [e \in Entry |-> NoRow]
  /\ history = [e \in Entry |-> [v \in Version |-> NoRevision]]
  /\ staged = [s \in Submission |-> NotReceived]
  /\ refused = {}
  /\ request = [r \in Slot |-> Idle]
  /\ purge = {}

Exists(e) == entry[e].status # "none"
Found(e) == Exists(e) /\ ~entry[e].deleted

Begin(r, q) ==
  /\ request[r] = Idle
  /\ request' = [request EXCEPT ![r] = q]
  /\ UNCHANGED <<entry, history, staged, refused, purge>>

Finish(r) == request' = [request EXCEPT ![r] = Idle]

-----------------------------------------------------------------------------
(* Entries.                                                                 *)

(* The next unused identity. *)
NewId == CHOOSE e \in Entry : ~Exists(e)

(* A new entry is a draft at version 1, with its first revision. *)
Insert(e, text, origin) ==
  /\ entry' = [entry EXCEPT ![e] =
       [status |-> "draft", deleted |-> FALSE, version |-> 1, text |-> text, origin |-> origin]]
  /\ history' = [history EXCEPT ![e] =
       [history[e] EXCEPT ![1] = [text |-> text, over |-> NoText]]]

CreateEntry(text) ==
  /\ \E e \in Entry : ~Exists(e)
  /\ Insert(NewId, text, Curated)
  /\ UNCHANGED <<staged, refused, request, purge>>

(* From the moment an administrator has read the entry; an edit that changes *)
(* nothing is answered at once.                                              *)
BeginEdit(r, e, text) ==
  /\ Found(e) /\ entry[e].version < MaxVersion
  /\ text # entry[e].text
  /\ Begin(r, [kind |-> "edit", entry |-> e, from |-> entry[e].version,
                seen |-> entry[e].text, text |-> text])

BeginTransition(r, e) ==
  /\ Found(e)
  /\ \E kind \in {"publish", "archive"} :
       /\ entry[e].status = (IF kind = "publish" THEN "draft" ELSE "published")
       /\ Begin(r, [kind |-> kind, entry |-> e])

BeginDelete(r, e) ==
  /\ Found(e)
  /\ Begin(r, [kind |-> "delete", entry |-> e])

\* Mutant: the version the editor sends is not compared with the row's.
Reread(q) == entry[q.entry].version

(* fromVersion: the row's, which must be the one the editor has read. *)
FromVersion(q) == q.from

(* The unique index on (entry, version) has no row yet and the conditional   *)
(* update finds the version; otherwise everything is rolled back.            *)
StillCurrent(q) ==
  /\ entry[q.entry].version = FromVersion(q)
  /\ history[q.entry][FromVersion(q) + 1] = NoRevision

\* Mutant: a revision is written for a published entry only.
RevisedIfPublished(q) ==
  IF entry[q.entry].status = "published"
  THEN [history[q.entry] EXCEPT ![q.from + 1] = [text |-> q.text, over |-> q.seen]]
  ELSE history[q.entry]

Revised(q) ==
  [history[q.entry] EXCEPT ![FromVersion(q) + 1] = [text |-> q.text, over |-> q.seen]]

(* The status stays what it has become since. *)
Edited(q) ==
  [status |-> entry[q.entry].status, deleted |-> entry[q.entry].deleted,
   version |-> FromVersion(q) + 1, text |-> q.text, origin |-> entry[q.entry].origin]

CommitEdit(r) ==
  LET q == request[r] IN
  /\ q.kind = "edit"
  /\ Finish(r)
  /\ IF StillCurrent(q)
     THEN /\ history' = [history EXCEPT ![q.entry] = Revised(q)]
          /\ entry' = [entry EXCEPT ![q.entry] = Edited(q)]
     ELSE UNCHANGED <<entry, history>>
  /\ UNCHANGED <<staged, refused, purge>>

(* The status and the tombstone are written whatever they are by now. *)
CommitTransition(r) ==
  LET q == request[r] IN
  /\ q.kind \in {"publish", "archive"}
  /\ Finish(r)
  /\ entry' = [entry EXCEPT ![q.entry] = [entry[q.entry] EXCEPT
       !.status = IF q.kind = "publish" THEN "published" ELSE "archived"]]
  /\ UNCHANGED <<history, staged, refused, purge>>

CommitDelete(r) ==
  LET q == request[r] IN
  /\ q.kind = "delete"
  /\ Finish(r)
  /\ entry' = [entry EXCEPT ![q.entry] = [entry[q.entry] EXCEPT !.deleted = TRUE]]
  /\ UNCHANGED <<history, staged, refused, purge>>

-----------------------------------------------------------------------------
(* Submissions.                                                             *)

(* ingest: a submission already there is answered with its row.  The result  *)
(* of the validation depends on the payload, which may differ between two    *)
(* submissions under one key.                                                *)
BeginReceive(r, s) ==
  /\ staged[s].status = "none"
  /\ \E valid \in BOOLEAN :
       Begin(r, [kind |-> "receive", item |-> s, valid |-> valid])

\* Mutant: the row carries a status of its own until it is validated.
Received(valid) == IF valid THEN "received" ELSE "rejected"

Verdict(valid) == IF valid THEN "quarantined" ELSE "rejected"

\* Mutant: the insert updates the row that is there already.
Upsert(q) == [status |-> Verdict(q.valid), entry |-> NoEntry]

(* The unique index: of two that found no row the second gets the first's. *)
RowFor(q) ==
  IF staged[q.item].status = "none"
  THEN [status |-> Verdict(q.valid), entry |-> NoEntry]
  ELSE staged[q.item]

CommitReceive(r) ==
  LET q == request[r] IN
  /\ q.kind = "receive"
  /\ Finish(r)
  /\ staged' = [staged EXCEPT ![q.item] = RowFor(q)]
  /\ refused' = IF staged[q.item].status = "none" /\ ~q.valid
                THEN refused \cup {q.item} ELSE refused
  /\ UNCHANGED <<entry, history, purge>>

BeginReview(r, s, kind) ==
  /\ staged[s].status = "quarantined"
  /\ Begin(r, [kind |-> kind, item |-> s])

(* promote: the draft and the verdict in one transaction, under whatever     *)
(* title and body the administrator gives it.                                *)
CommitPromote(r) ==
  LET q == request[r] IN
  /\ q.kind = "promote"
  /\ Finish(r)
  /\ \E e \in Entry : ~Exists(e)
  /\ \E text \in NewText : Insert(NewId, text, q.item)
  /\ staged' = [staged EXCEPT ![q.item] = [status |-> "promoted", entry |-> NewId]]
  /\ UNCHANGED <<refused, purge>>

\* Mutant: a rejection clears the link to the entry.
Unlinked(s, status) == [status |-> status, entry |-> NoEntry]

Marked(s, status) == [staged[s] EXCEPT !.status = status]

CommitReject(r) ==
  LET q == request[r] IN
  /\ q.kind = "reject"
  /\ Finish(r)
  /\ staged' = [staged EXCEPT ![q.item] = Marked(q.item, "rejected")]
  /\ UNCHANGED <<entry, history, refused, purge>>

(* Any transaction may fail and is rolled back. *)
Abort(r) ==
  /\ request[r] # Idle
  /\ Finish(r)
  /\ UNCHANGED <<entry, history, staged, refused, purge>>

-----------------------------------------------------------------------------
(* Retention.  Ages are left out: any item may be past the cutoff, and       *)
(* sooner or later each of them is.                                          *)

\* Mutant: what was never reviewed is not collected.
RejectedOnly == {s \in Submission : staged[s].status = "rejected"}

Purgeable == {s \in Submission : staged[s].status \in {"rejected", "quarantined"}}

(* The collection takes a bounded number of rows, here any part of them; the *)
(* update asks for nothing but their identity, so it also erases one that    *)
(* was promoted meanwhile.                                                   *)
CollectPurge ==
  /\ purge = {} /\ Purgeable # {}
  /\ purge' \in SUBSET Purgeable \ {{}}
  /\ UNCHANGED <<entry, history, staged, refused, request>>

CommitPurge ==
  /\ purge # {}
  /\ staged' = [s \in Submission |->
       IF s \in purge THEN Marked(s, "purged") ELSE staged[s]]
  /\ purge' = {}
  /\ UNCHANGED <<entry, history, refused, request>>

(* An error is swallowed; the next night tries again. *)
FailPurge ==
  /\ purge # {}
  /\ purge' = {}
  /\ UNCHANGED <<entry, history, staged, refused, request>>

-----------------------------------------------------------------------------
EntryStep(r) ==
  \/ \E e \in Entry :
       \/ BeginTransition(r, e) \/ BeginDelete(r, e)
       \/ \E text \in Text : BeginEdit(r, e, text)
  \/ CommitEdit(r) \/ CommitTransition(r) \/ CommitDelete(r)

SubmissionStep(r) ==
  \/ \E s \in Submission :
       BeginReceive(r, s) \/ \E kind \in ReviewKind : BeginReview(r, s, kind)
  \/ CommitReceive(r) \/ CommitPromote(r) \/ CommitReject(r)

Next ==
  \/ \E text \in NewText : CreateEntry(text)
  \/ \E r \in Slot : EntryStep(r) \/ SubmissionStep(r) \/ Abort(r)
  \/ CollectPurge \/ CommitPurge \/ FailPurge

(* The purge runs every night, and does not fail every night. *)
Fairness == WF_vars(CollectPurge) /\ SF_vars(CommitPurge)

Spec == Init /\ [][Next]_vars /\ Fairness

-----------------------------------------------------------------------------
(* Rows and requests are of their types. *)
TypeOK ==
  /\ entry \in [Entry -> EntryRow]
  /\ history \in [Entry -> [Version -> Revision]]
  /\ staged \in [Submission -> StagedRow]
  /\ refused \in SUBSET Submission
  /\ request \in [Slot -> RequestRow]
  /\ purge \in SUBSET Submission

(* The revisions of an entry are those of its versions 1 to the current one, *)
(* without a gap, and the newest is what the entry says, also while it is    *)
(* published, archived or deleted under an edit.                             *)
HistoryMatches ==
  \A e \in Entry :
    /\ \A v \in Version : history[e][v] # NoRevision <=> v <= entry[e].version
    /\ Exists(e) <=> entry[e].version > 0
    /\ Exists(e) => history[e][entry[e].version].text = entry[e].text

(* Two racing edits never both win: each revision was written by an editor   *)
(* who had the revision before it in front of him.                           *)
NoLostEdit ==
  \A e \in Entry, v, w \in Version :
    w = v + 1 /\ w <= entry[e].version => history[e][w].over = history[e][v].text

(* An entry that came from outside can be traced: its submission names an    *)
(* entry of that submission, whatever verdicts and purges overlapped.        *)
ProvenanceKept ==
  \A e \in Entry : Exists(e) /\ entry[e].origin # Curated =>
    LET link == staged[entry[e].origin].entry IN
    link # NoEntry /\ Exists(link) /\ entry[link].origin = entry[e].origin

(* What was rejected on receipt never becomes an entry, however often it is  *)
(* submitted again under its key.                                            *)
RefusedStaysOut == \A e \in Entry : Exists(e) => entry[e].origin \notin refused

(* The retention rule: an item that nobody promotes is purged, although  *)
(* a purge takes a part only, may fail, and runs beside reviews.             *)
StagingIsPurged ==
  \A s \in Submission :
    staged[s].status \in {"rejected", "quarantined"} ~>
      staged[s].status \in {"purged", "promoted"}

-----------------------------------------------------------------------------
(* What makes these inductive. *)

(* A request still makes sense: what it has read was there, an edit that is *)
(* still current has read the current text, and what is under review was    *)
(* not refused.                                                             *)
RequestSound(q) ==
  /\ q.kind \in StatusKind \cup {"edit"} => Exists(q.entry)
  /\ q.kind = "edit" =>
       /\ q.from < MaxVersion /\ q.from <= entry[q.entry].version
       /\ q.from = entry[q.entry].version => q.seen = entry[q.entry].text
  /\ q.kind \in ReviewKind =>
       q.item \notin refused /\ staged[q.item].status # "none"

RequestsSound == \A r \in Slot : RequestSound(request[r])

StagedSound ==
  /\ \A s \in refused : staged[s].status \in {"rejected", "purged"}
  /\ \A s \in Submission : staged[s].status = "none" => staged[s].entry = NoEntry
  /\ purge \subseteq {s \in Submission : staged[s].status # "none"}

HubInvariant ==
  /\ TypeOK /\ HistoryMatches /\ NoLostEdit /\ ProvenanceKept /\ RefusedStaysOut
  /\ RequestsSound /\ StagedSound
=============================================================================
