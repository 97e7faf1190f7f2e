------------------------ MODULE RevisionAssemblyProofs ------------------------
(* The theorems of RevisionAssembly, for any number of projects, draft rows  *)
(* and requests.                                                             *)
EXTENDS RevisionAssembly, TLAPS

\* The highest of the numbers 1..n is n: MaxNumber is what its comment says.
LEMMA MaxNumberIsLast ==
    ASSUME NEW n \in 0..MaxVersion, Published = 1..n
    PROVE  MaxNumber = n
  <1>1. CASE n = 0
    BY <1>1 DEF MaxNumber
  <1>2. CASE n # 0
    <2>1. n \in Published /\ (\A w \in Published : w <= n)
      BY <1>2, ConstantsAssumption
    <2>2. \A v \in Published : (\A w \in Published : w <= v) => v = n
      BY <2>1, ConstantsAssumption
    <2> QED
      BY <1>2, <2>1, <2>2 DEF MaxNumber
  <1> QED
    BY <1>1, <1>2

\* While the published numbers are dense, the highest one is also their count.
LEMMA MaxNumberTyped ==
    ASSUME NumbersDense
    PROVE  MaxNumber \in 0..MaxVersion /\ Published = 1..MaxNumber
  BY MaxNumberIsLast DEF NumbersDense

(*****************************************************************************)
(* The operators the handlers compute with.                                  *)
(*****************************************************************************)

\* The rows a table starts with and an empty request slot have their types.
LEMMA ConstantRecords ==
    /\ NoDraft \in DraftRecord
    /\ OpenRound \in RoundRecord
    /\ Idle \in RequestRecord
  <1>1. NoDraft \in DraftRecord
    BY ConstantsAssumption DEF NoDraft, DraftRecord, DraftStatus, ActiveStatus
  <1>2. OpenRound \in RoundRecord
    BY DEF OpenRound, RoundRecord
  <1> QED
    BY <1>1, <1>2, ConstantsAssumption DEF Idle, RequestRecord, RequestKind

\* A part supplied to a draft changes neither the version it aims at nor, but
\* for part 3, its project list.
LEMMA SupplyTyped ==
    ASSUME NEW rec \in DraftRecord, NEW part \in Part
    PROVE  /\ Supply(rec, part) \in DraftRecord
           /\ Supply(rec, part).target = rec.target
           /\ Supply(rec, part).snapshot = rec.snapshot
           /\ rec.status # "absent" => Supply(rec, part).status # "absent"
  BY DEF Supply, WithStatus, DraftRecord, DraftStatus, ActiveStatus

\* Part 3 also replaces the project list of the row, and nothing else of it.
LEMMA SupplyPart3Typed ==
    ASSUME NEW rec \in DraftRecord, NEW list \in SUBSET Project
    PROVE  /\ SupplyPart3(rec, list) \in DraftRecord
           /\ SupplyPart3(rec, list).target = rec.target
           /\ SupplyPart3(rec, list).snapshot = list
  <1> DEFINE listed == [rec EXCEPT !.snapshot = list, !.unpaged = {}]
  <1>1. listed \in DraftRecord /\ listed.target = rec.target /\ listed.snapshot = list
    BY DEF DraftRecord
  <1>2. 3 \in Part
    BY DEF Part
  <1> HIDE DEF listed
  <1>3. /\ Supply(listed, 3) \in DraftRecord
        /\ Supply(listed, 3).target = listed.target
        /\ Supply(listed, 3).snapshot = listed.snapshot
    BY <1>1, <1>2, SupplyTyped
  <1> QED
    BY <1>1, <1>3 DEF SupplyPart3, listed

\* A restored row aims at the version, and keeps the list, it was discarded with.
LEMMA RestoredTyped ==
    ASSUME NEW rec \in DraftRecord
    PROVE  /\ Restored(rec) \in DraftRecord
           /\ Restored(rec).target = rec.target
           /\ Restored(rec).snapshot = rec.snapshot
  BY DEF Restored, DraftRecord, DraftStatus, ActiveStatus

\* Recomputing the status of a row leaves its target alone.
LEMMA WithStatusTyped ==
    ASSUME NEW rec \in DraftRecord
    PROVE  /\ WithStatus(rec) \in DraftRecord
           /\ WithStatus(rec).target = rec.target
  BY DEF WithStatus, DraftRecord, DraftStatus, ActiveStatus

(*****************************************************************************)
(* Types.                                                                    *)
(*****************************************************************************)

\* A revision starts with rows of the right types.
LEMMA TypeInit == Init => TypeOK
  <1> SUFFICES ASSUME Init PROVE TypeOK
    OBVIOUS
  <1>1. revision \in RoundRecord /\ newerSibling \in BOOLEAN
    BY ConstantRecords DEF Init
  <1>2. project \in [Project -> [status : ProjectStatus, isBooked : BOOLEAN,
                                 deleted : BOOLEAN, forked : BOOLEAN]]
    BY DEF Init, ProjectStatus
  <1>3. version \in [VersionNo -> [status : {"none", "completed", "deprecated"},
                                   snapshot : SUBSET Project]]
    BY DEF Init
  <1>4. lineage \in [Project -> [rows : SUBSET VersionNo, leaf : SUBSET VersionNo,
                                 parent : [VersionNo -> 0..MaxVersion]]]
    BY ConstantsAssumption DEF Init
  <1>5. draft \in [DraftRow -> DraftRecord] /\ request \in [Request -> RequestRecord]
    BY ConstantRecords DEF Init
  <1>6. /\ part3File \in [VersionNo -> SUBSET Project]
        /\ mergedFile \in [VersionNo -> SUBSET Project]
    BY DEF Init
  <1> QED
    BY <1>1, <1>2, <1>3, <1>4, <1>5, <1>6 DEF TypeOK

\* What the strengthening says of the requests in flight.
RequestsInOrder ==
    /\ request \in [Request -> RequestRecord]
    /\ RequestsAimNext
    /\ LockedIsOfficial
    /\ ForksKnown

\* What a request looks for descendants of are projects.
LEMMA SlotTyped ==
    ASSUME TypeOK, NEW q \in RequestRecord,
           q.kind \in CorrectKind \cup {"cancel"} => q.version # 0,
           q.version # 0 => q.version \in Completed
    PROVE  Checked(q) \subseteq Project
  <1>1. ASSUME q.kind \in {"cancel", "reset"}
        PROVE  version[q.version].snapshot \subseteq Project
    <2>1. q.version \in VersionNo
      BY <1>1 DEF Completed, CorrectKind
    <2> QED
      BY <2>1 DEF TypeOK
  <1> QED
    BY <1>1 DEF Checked, RequestRecord

LEMMA CheckedTyped ==
    ASSUME TypeOK, RequestsInOrder, NEW r \in Request
    PROVE  Checked(request[r]) \subseteq Project
  <1>1. /\ request[r] \in RequestRecord
        /\ request[r].kind \in CorrectKind \cup {"cancel"} => request[r].version # 0
        /\ request[r].version # 0 => request[r].version \in Completed
    BY DEF TypeOK, RequestsInOrder, LockedIsOfficial
  <1> QED
    BY <1>1, SlotTyped

\* A slot filled with a request that aims no further than the next number, and
\* that has found no descendant of what it is about to un-book or delete.
LEMMA SlotKeepsRequests ==
    ASSUME TypeOK, RequestsInOrder, NumbersDense,
           NEW r \in Request, NEW q \in RequestRecord,
           request' = [request EXCEPT ![r] = q],
           version' = version, \A p \in Project : project'[p].forked = project[p].forked,
           q.new.target <= MaxNumber + 1,
           q.kind \in DraftKind => q.new.target \in VersionNo /\ q.row \in DraftRow,
           q.kind \in {"merge", "cascaded"} => q.new.snapshot # {},
           q.kind \in CorrectKind \cup {"cancel"} => q.version # 0,
           q.version # 0 => /\ q.version \in Completed
                            /\ \A s \in Request \ {r} : request[s].version # q.version,
           ForkedAmong(Checked(q)) \subseteq q.late
    PROVE  RequestsInOrder'
  <1>1. request' \in [Request -> RequestRecord]
    BY DEF TypeOK
  <1>2. MaxNumber' = MaxNumber /\ Completed' = Completed
    BY DEF MaxNumber, Published, Completed
  <1>3. \A s \in Request : request'[s] = IF s = r THEN q ELSE request[s]
    BY DEF TypeOK
  <1>4. RequestsAimNext'
    BY <1>2, <1>3 DEF RequestsAimNext, RequestsInOrder
  <1>5. LockedIsOfficial'
    BY <1>2, <1>3 DEF LockedIsOfficial, RequestsInOrder
  <1>6. Checked(q) \subseteq Project
    BY SlotTyped
  <1>7. ForksKnown'
    <2> SUFFICES ASSUME NEW s \in Request
                 PROVE  (ForkedAmong(Checked(request[s])))' \subseteq request'[s].late
      BY DEF ForksKnown
    <2>1. CASE s = r
      <3>1. request'[s] = q
        BY <1>3, <2>1
      <3>2. Checked(q) \subseteq Project /\ (Checked(request[s]))' = Checked(q)
        BY <1>6, <3>1 DEF Checked
      <3> QED
        BY <3>1, <3>2 DEF ForkedAmong
    <2>2. CASE s # r
      <3>1. request'[s] = request[s] /\ ForkedAmong(Checked(request[s])) \subseteq request[s].late
        BY <1>3, <2>2 DEF ForksKnown, RequestsInOrder
      <3>2. Checked(request[s]) \subseteq Project /\ (Checked(request[s]))' = Checked(request[s])
        BY <3>1, CheckedTyped DEF Checked
      <3> QED
        BY <3>1, <3>2 DEF ForkedAmong
    <2> QED
      BY <2>1, <2>2
  <1> QED
    BY <1>1, <1>4, <1>5, <1>7 DEF RequestsInOrder

\* A request on the draft that begins carries a row that aims no further than
\* its draft.
LEMMA BeginKeepsRequests ==
    ASSUME TypeOK, RequestsInOrder, NumbersDense,
           NEW r \in Request, NEW kind \in SavingKind \cup {"generate", "merge"},
           NEW d \in DraftRow, NEW rec \in DraftRecord, NEW list \in SUBSET Project,
           rec.target \in VersionNo, rec.target <= MaxNumber + 1,
           kind = "merge" => rec.snapshot # {},
           Begin(r, kind, d, rec, list),
           version' = version, project' = project
    PROVE  RequestsInOrder'
  <1> DEFINE q == [Idle EXCEPT !.kind = kind, !.row = d, !.new = rec, !.prints = list]
  <1>1. q \in RequestRecord
    BY ConstantRecords DEF RequestRecord, RequestKind, DraftKind
  <1>2. /\ q.kind = kind /\ q.row = d /\ q.new = rec
        /\ q.version = 0 /\ q.doomed = {}
    BY DEF Idle
  <1>3. request' = [request EXCEPT ![r] = q]
    BY DEF Begin
  <1>4. kind \notin CorrectKind \cup {"cancel", "cascaded"}
    BY DEF SavingKind, Part3Kind, CorrectKind
  <1> HIDE DEF q
  <1>5. ForkedAmong(Checked(q)) = {}
    BY <1>2, <1>4 DEF Checked, ForkedAmong, CorrectKind
  <1> QED
    BY <1>1, <1>2, <1>3, <1>4, <1>5, SlotKeepsRequests

\* A request that ends, in a step that gives no number away, leaves the others
\* as they are.
LEMMA EndKeepsRequests ==
    ASSUME TypeOK, RequestsInOrder, NumbersDense,
           NEW r \in Request, request' = [request EXCEPT ![r] = Idle],
           version' = version, \A p \in Project : project'[p].forked = project[p].forked
    PROVE  RequestsInOrder'
  <1>1. /\ Idle \in RequestRecord /\ Idle.kind = "idle" /\ Idle.new.target = 0
        /\ Idle.version = 0 /\ Idle.doomed = {}
    BY ConstantRecords DEF Idle, NoDraft
  <1>2. MaxNumber \in 0..MaxVersion
    BY MaxNumberTyped
  <1>3. Idle.kind \notin DraftKind \cup {"cancel"} /\ CorrectKind \subseteq DraftKind
    BY <1>1 DEF DraftKind, SavingKind, Part3Kind, CorrectKind
  <1>4. ForkedAmong(Checked(Idle)) = {}
    BY <1>1 DEF Checked, ForkedAmong
  <1>5. Idle.kind \notin {"merge", "cascaded"}
    BY <1>1
  <1>6. Idle.kind \notin CorrectKind \cup {"cancel"}
    BY <1>3
  <1>7. Idle.new.target <= MaxNumber + 1 /\ ForkedAmong(Checked(Idle)) \subseteq Idle.late
    BY <1>1, <1>2, <1>4, ConstantsAssumption
  <1> HIDE DEF Idle
  <1> QED
    BY <1>1, <1>3, <1>5, <1>6, <1>7, SlotKeepsRequests

\* A step that leaves version and draft alone keeps the draft rows in order.
LEMMA DraftsFrame ==
    ASSUME DraftsAimNext, draft' = draft, version' = version
    PROVE  DraftsAimNext'
  BY DEF DraftsAimNext, MaxNumber, Published

\* The rest of a state is typed when these variables are.
LEMMA TypeFrame ==
    ASSUME TypeOK, UNCHANGED <<revision, newerSibling, project, version, lineage>>,
           draft' \in [DraftRow -> DraftRecord],
           part3File' \in [VersionNo -> SUBSET Project],
           mergedFile' \in [VersionNo -> SUBSET Project],
           RequestsInOrder'
    PROVE  TypeOK'
  BY DEF TypeOK, RequestsInOrder

\* The handlers that only read the database and fill a request.
LEMMA BeginKeepsRows ==
    ASSUME Inductive, NEW r \in Request, NEW d \in DraftRow,
           \/ \E part \in FrontPart : BeginUpload(r, d, part)
           \/ BeginGenerate(r, d)
           \/ \E part \in Part, from \in VersionNo : BeginReuse(r, d, part, from)
           \/ BeginDiscard(r, d)
           \/ BeginRestore(r, d)
           \/ BeginMerge(r, d)
    PROVE  TypeOK' /\ DraftsAimNext' /\ RequestsInOrder'
  <1> DEFINE row == draft[d]
  <1>0. /\ TypeOK /\ RequestsInOrder /\ NumbersDense /\ DraftsAimNext
        /\ row \in DraftRecord
        /\ row.target <= MaxNumber + 1
        /\ row.status # "absent" => row.target \in VersionNo
    BY DEF Inductive, TypeOK, DraftsAimNext, RequestsInOrder
  <1>1. draft' = draft /\ version' = version /\ project' = project
    BY DEF BeginUpload, BeginGenerate, BeginReuse, BeginDiscard, BeginRestore, BeginMerge,
           bookVars, fileVars
  <1>2. DraftsAimNext'
    BY <1>0, <1>1, DraftsFrame
  <1>3. /\ UNCHANGED <<revision, newerSibling, project, version, lineage, draft, part3File>>
        /\ mergedFile' \in [VersionNo -> SUBSET Project]
    <2>1. CASE BeginMerge(r, d)
      BY <1>0, <2>1 DEF BeginMerge, bookVars, TypeOK
    <2>2. CASE ~BeginMerge(r, d)
      BY <1>0, <2>2 DEF BeginUpload, BeginGenerate, BeginReuse, BeginDiscard, BeginRestore,
             bookVars, fileVars, TypeOK
    <2> QED
      BY <2>1, <2>2
  <1>4. RequestsInOrder'
    <2>1. ASSUME NEW part \in FrontPart, BeginUpload(r, d, part)
          PROVE  RequestsInOrder'
      <3>1. part \in Part /\ row.status # "absent" /\ "upload" \in SavingKind \cup {"generate", "merge"}
        BY <2>1 DEF BeginUpload, ActiveRows, ActiveStatus, Part, SavingKind
      <3>2. Begin(r, "upload", d, Supply(row, part), {})
        BY <2>1 DEF BeginUpload
      <3>3. /\ Supply(row, part) \in DraftRecord
            /\ Supply(row, part).target = row.target
        BY <1>0, <3>1, SupplyTyped
      <3> QED
        BY <1>0, <1>1, <3>1, <3>2, <3>3, BeginKeepsRequests
    <2>2. CASE BeginGenerate(r, d)
      <3>1. row.status # "absent" /\ "generate" \in SavingKind \cup {"generate", "merge"}
        BY <2>2 DEF BeginGenerate, ActiveRows, ActiveStatus
      <3>2. Begin(r, "generate", d, SupplyPart3(row, Eligible), {}) /\ Eligible \in SUBSET Project
        BY <2>2 DEF BeginGenerate, Eligible
      <3>3. /\ SupplyPart3(row, Eligible) \in DraftRecord
            /\ SupplyPart3(row, Eligible).target = row.target
        BY <1>0, <3>2, SupplyPart3Typed
      <3> QED
        BY <1>0, <1>1, <3>1, <3>2, <3>3, BeginKeepsRequests
    <2>3. ASSUME NEW part \in Part, NEW from \in VersionNo, BeginReuse(r, d, part, from)
          PROVE  RequestsInOrder'
      <3>1. /\ row.status # "absent"
            /\ {"reuse", "reusePart3"} \subseteq SavingKind \cup {"generate", "merge"}
        BY <2>3 DEF BeginReuse, ActiveRows, ActiveStatus, SavingKind, Part3Kind
      <3>2. CASE part = 3
        <4>1. version[from].snapshot \in SUBSET Project /\ part3File[from] \in SUBSET Project
          BY <1>0 DEF TypeOK
        <4>2. /\ SupplyPart3(row, version[from].snapshot) \in DraftRecord
              /\ SupplyPart3(row, version[from].snapshot).target = row.target
          BY <1>0, <4>1, SupplyPart3Typed
        <4>3. Begin(r, "reusePart3", d, SupplyPart3(row, version[from].snapshot),
                    part3File[from])
          BY <2>3, <3>2 DEF BeginReuse
        <4> QED
          BY <1>0, <1>1, <3>1, <4>1, <4>2, <4>3, BeginKeepsRequests
      <3>3. CASE part # 3
        <4>1. /\ Supply(row, part) \in DraftRecord
              /\ Supply(row, part).target = row.target
          BY <1>0, SupplyTyped
        <4>2. Begin(r, "reuse", d, Supply(row, part), {})
          BY <2>3, <3>3 DEF BeginReuse
        <4> QED
          BY <1>0, <1>1, <3>1, <4>1, <4>2, BeginKeepsRequests
      <3> QED
        BY <3>2, <3>3
    <2>4. CASE BeginDiscard(r, d)
      <3> DEFINE dropped == [row EXCEPT !.status = "canceled"]
      <3>1. row.status # "absent" /\ "discard" \in SavingKind \cup {"generate", "merge"}
        BY <2>4 DEF BeginDiscard, ActiveRows, ActiveStatus, SavingKind
      <3>2. /\ dropped \in DraftRecord
            /\ dropped.target = row.target
        BY <1>0 DEF DraftRecord, DraftStatus
      <3>3. Begin(r, "discard", d, dropped, {})
        BY <2>4 DEF BeginDiscard
      <3> HIDE DEF dropped
      <3> QED
        BY <1>0, <1>1, <3>1, <3>2, <3>3, BeginKeepsRequests
    <2>5. CASE BeginRestore(r, d)
      <3>1. row.status # "absent" /\ "restore" \in SavingKind \cup {"generate", "merge"}
        BY <2>5 DEF BeginRestore, CanceledRows, SavingKind
      <3>2. Restored(row) \in DraftRecord /\ Restored(row).target = row.target
        BY <1>0, RestoredTyped
      <3>3. Begin(r, "restore", d, Restored(row), {})
        BY <2>5 DEF BeginRestore
      <3> QED
        BY <1>0, <1>1, <3>1, <3>2, <3>3, BeginKeepsRequests
    <2>6. CASE BeginMerge(r, d)
      <3> DEFINE closed == [row EXCEPT !.status = "merged"]
      <3>1. row.status # "absent" /\ "merge" \in SavingKind \cup {"generate", "merge"}
        BY <2>6 DEF BeginMerge
      <3>2. /\ closed \in DraftRecord
            /\ closed.target = row.target
            /\ closed.snapshot # {}
        BY <1>0, <2>6 DEF DraftRecord, DraftStatus, BeginMerge
      <3>3. Begin(r, "merge", d, closed, {})
        BY <2>6 DEF BeginMerge
      <3> HIDE DEF closed
      <3>4. closed.target \in VersionNo /\ closed.target <= MaxNumber + 1
        BY <1>0, <3>1, <3>2
      <3>5. closed \in DraftRecord /\ closed.snapshot # {} /\ {} \in SUBSET Project
        BY <3>2
      <3>6. TypeOK /\ RequestsInOrder /\ NumbersDense /\ version' = version /\ project' = project
        BY <1>0, <1>1
      <3>7. "merge" \in SavingKind \cup {"generate", "merge"}
        OBVIOUS
      <3> HIDE DEF row
      <3> QED
        BY <3>3, <3>4, <3>5, <3>6, <3>7, BeginKeepsRequests
    <2> QED
      BY <2>1, <2>2, <2>3, <2>4, <2>5, <2>6
  <1>5. TypeOK'
    BY <1>0, <1>3, <1>4, TypeFrame DEF TypeOK
  <1> QED
    BY <1>2, <1>4, <1>5

\* createDraft aims at the next number, and the rows it removes aim at nothing.
LEMMA CreateKeepsRows ==
    ASSUME Inductive, NEW r \in Request, NEW d \in DraftRow, BeginCreate(r, d)
    PROVE  TypeOK' /\ DraftsAimNext' /\ RequestsInOrder'
  <1> DEFINE fresh == [status |-> "preparing", target |-> MaxNumber + 1,
                       supplied |-> {}, snapshot |-> {}, unpaged |-> {}]
  <1>1. TypeOK /\ RequestsInOrder /\ NumbersDense /\ DraftsAimNext
    BY DEF Inductive, TypeOK, RequestsInOrder
  <1>2. MaxNumber \in 0..MaxVersion
    BY <1>1, MaxNumberTyped
  <1>3. UNCHANGED <<revision, newerSibling, project, version, lineage, part3File, mergedFile>>
    BY DEF BeginCreate, bookVars, fileVars
  <1>4. MaxNumber' = MaxNumber
    BY <1>3 DEF MaxNumber, Published
  <1>5. /\ fresh \in DraftRecord
        /\ fresh.target \in VersionNo /\ fresh.target <= MaxNumber + 1
    BY <1>2, ConstantsAssumption
    DEF BeginCreate, DraftRecord, DraftStatus, ActiveStatus, VersionNo
  <1>6. Begin(r, "create", d, fresh, {}) /\ "create" \in SavingKind \cup {"generate", "merge"}
    BY DEF BeginCreate, SavingKind
  <1> HIDE DEF fresh
  <1>7. RequestsInOrder'
    BY <1>1, <1>3, <1>5, <1>6, BeginKeepsRequests
  <1>8. \A e \in DraftRow : draft'[e] = NoDraft \/ draft'[e] = draft[e]
    BY DEF BeginCreate
  <1>9. draft' \in [DraftRow -> DraftRecord]
    BY <1>1, ConstantRecords DEF BeginCreate, TypeOK
  <1>10. NoDraft.target = 0 /\ NoDraft.status = "absent"
    BY DEF NoDraft
  <1>11. DraftsAimNext'
    BY <1>1, <1>2, <1>4, <1>8, <1>10, ConstantsAssumption DEF DraftsAimNext
  <1>12. TypeOK'
    BY <1>1, <1>3, <1>7, <1>9, TypeFrame DEF TypeOK
  <1> QED
    BY <1>7, <1>11, <1>12

\* A saved row, however stale, aims no further than the request said.
LEMMA SaveKeepsRows ==
    ASSUME Inductive, NEW r \in Request, Save(r)
    PROVE  TypeOK' /\ DraftsAimNext' /\ RequestsInOrder'
  <1> DEFINE q == request[r]
  <1>1. /\ TypeOK /\ RequestsInOrder /\ NumbersDense /\ DraftsAimNext
        /\ q \in RequestRecord
    BY DEF Inductive, TypeOK, RequestsInOrder
  <1>2. MaxNumber \in 0..MaxVersion
    BY <1>1, MaxNumberTyped
  <1>3. UNCHANGED <<revision, newerSibling, project, version, lineage, mergedFile>>
    BY DEF Save, bookVars
  <1>4. MaxNumber' = MaxNumber
    BY <1>3 DEF MaxNumber, Published
  <1>5. q.kind \in DraftKind
    BY DEF Save, DraftKind
  <1>6. /\ q.new.target \in VersionNo /\ q.new.target <= MaxNumber + 1
        /\ q.row \in DraftRow
    BY <1>1, <1>5 DEF RequestsAimNext, RequestsInOrder
  <1>7. q.new \in DraftRecord /\ q.prints \in SUBSET Project
    BY <1>1 DEF RequestRecord
  <1>8. request' = [request EXCEPT ![r] = Idle]
    BY DEF Save
  <1>9. RequestsInOrder'
    BY <1>1, <1>3, <1>8, EndKeepsRequests
  <1>10. draft' = draft \/ draft' = [draft EXCEPT ![q.row] = q.new]
    BY DEF Save
  <1>11. draft' \in [DraftRow -> DraftRecord] /\ DraftsAimNext'
    <2>1. CASE draft' = draft
      BY <1>1, <1>3, <2>1, DraftsFrame DEF TypeOK
    <2>2. CASE draft' = [draft EXCEPT ![q.row] = q.new]
      <3>1. draft' \in [DraftRow -> DraftRecord]
        BY <1>1, <1>6, <1>7, <2>2 DEF TypeOK
      <3>2. \A d \in DraftRow : draft'[d] = IF d = q.row THEN q.new ELSE draft[d]
        BY <1>1, <2>2 DEF TypeOK
      <3> QED
        BY <1>1, <1>4, <1>6, <3>1, <3>2 DEF DraftsAimNext
    <2> QED
      BY <1>10, <2>1, <2>2
  <1>12. part3File' \in [VersionNo -> SUBSET Project]
    BY <1>1, <1>6, <1>7 DEF Save, TypeOK
  <1>13. TypeOK'
    BY <1>1, <1>3, <1>9, <1>11, <1>12, TypeFrame DEF TypeOK
  <1> QED
    BY <1>9, <1>11, <1>13

\* A correction, even one that fails, copies the printed projects of a version
\* under a version number.
LEMMA CopyTyped ==
    ASSUME Inductive, NEW r \in Request, request[r].kind \in CorrectKind,
           CopyPart3(request[r])
    PROVE  part3File' \in [VersionNo -> SUBSET Project]
  <1>1. TypeOK /\ RequestsAimNext /\ LockedIsOfficial
    BY DEF Inductive
  <1>2. request[r].kind \in DraftKind
    BY DEF DraftKind
  <1>3. request[r].new.target \in VersionNo
    BY <1>1, <1>2 DEF RequestsAimNext
  <1>4. request[r].version \in VersionNo
    BY <1>1 DEF LockedIsOfficial, Completed
  <1> QED
    BY <1>1, <1>3, <1>4 DEF CopyPart3, TypeOK

\* The ends of requests that change no row of the book.
LEMMA EndsKeepRows ==
    ASSUME Inductive, NEW r \in Request,
           \/ Render(r) /\ Printable = {}
           \/ SaveRound(r)
           \/ AbortMerge(r)
           \/ AbortCorrect(r)
           \/ CommitRemove(r)
    PROVE  TypeOK' /\ DraftsAimNext' /\ RequestsInOrder'
  <1>1. TypeOK /\ RequestsInOrder /\ NumbersDense /\ DraftsAimNext
    BY DEF Inductive, TypeOK, RequestsInOrder
  <1>2. /\ UNCHANGED <<version, lineage, draft, mergedFile>>
        /\ request' = [request EXCEPT ![r] = Idle]
    BY DEF Render, SaveRound, AbortMerge, AbortCorrect, CommitRemove, bookVars, fileVars
  <1>3. DraftsAimNext'
    BY <1>1, <1>2, DraftsFrame
  <1> DEFINE Row == [status : ProjectStatus, isBooked : BOOLEAN,
                     deleted : BOOLEAN, forked : BOOLEAN]
  <1>4. /\ project' \in [Project -> Row]
        /\ \A p \in Project : project'[p].forked = project[p].forked
    <2>1. CASE project' = project
      BY <1>1, <2>1 DEF TypeOK
    <2>2. CASE CommitRemove(r)
      <3> DEFINE new(p) == [project[p] EXCEPT !.deleted = @ \/ p \in request[r].doomed]
      <3>1. project' = [p \in Project |-> new(p)]
        BY <2>2 DEF CommitRemove
      <3>2. ASSUME NEW p \in Project
            PROVE  new(p) \in Row /\ new(p).forked = project[p].forked
        <4>1. project[p] \in Row
          BY <1>1 DEF TypeOK
        <4>2. (project[p].deleted \/ p \in request[r].doomed) \in BOOLEAN
          OBVIOUS
        <4> QED
          BY <4>1, <4>2
      <3> HIDE DEF new, Row
      <3> QED
        BY <3>1, <3>2
    <2> QED
      BY <2>1, <2>2 DEF Render, SaveRound, AbortMerge, AbortCorrect
  <1> HIDE DEF Row
  <1>5. RequestsInOrder'
    BY <1>1, <1>2, <1>4, EndKeepsRequests
  <1>6. revision' \in RoundRecord /\ newerSibling' \in BOOLEAN
    <2>1. request[r].round \in RoundRecord
      BY <1>1 DEF TypeOK, RequestRecord
    <2>2. CASE SaveRound(r)
      BY <2>1, <2>2 DEF SaveRound, RoundRecord
    <2>3. CASE ~SaveRound(r)
      <3>1. UNCHANGED <<revision, newerSibling>>
        BY <2>3 DEF Render, AbortMerge, AbortCorrect, CommitRemove, bookVars
      <3> QED
        BY <1>1, <3>1 DEF TypeOK
    <2> QED
      BY <2>2, <2>3
  <1>7. part3File' \in [VersionNo -> SUBSET Project]
    <2>1. CASE AbortCorrect(r)
      BY <1>1, <2>1, CopyTyped DEF AbortCorrect
    <2>2. CASE ~AbortCorrect(r)
      <3>1. part3File' = part3File
        BY <2>2 DEF Render, SaveRound, AbortMerge, CommitRemove, fileVars
      <3> QED
        BY <1>1, <3>1 DEF TypeOK
    <2> QED
      BY <2>1, <2>2
  <1>8. TypeOK'
    BY <1>1, <1>2, <1>4, <1>5, <1>6, <1>7 DEF TypeOK, RequestsInOrder, Row
  <1> QED
    BY <1>3, <1>5, <1>8

\* The steps in which a request only reads: what it finds goes into its slot.
LEMMA ReadsKeepRows ==
    ASSUME Inductive, NEW r \in Request,
           UNCHANGED <<bookVars, project, draft, fileVars>>,
           NEW q \in RequestRecord, request' = [request EXCEPT ![r] = q],
           q.new.target <= MaxNumber + 1,
           q.kind \in DraftKind => q.new.target \in VersionNo /\ q.row \in DraftRow,
           q.kind \in {"merge", "cascaded"} => q.new.snapshot # {},
           q.kind \in CorrectKind \cup {"cancel"} => q.version # 0,
           q.version # 0 => /\ q.version \in Completed
                            /\ \A s \in Request \ {r} : request[s].version # q.version,
           ForkedAmong(Checked(q)) \subseteq q.late
    PROVE  TypeOK' /\ DraftsAimNext' /\ RequestsInOrder'
  <1>1. TypeOK /\ RequestsInOrder /\ NumbersDense /\ DraftsAimNext
    BY DEF Inductive, TypeOK, RequestsInOrder
  <1>2. UNCHANGED <<revision, newerSibling, version, lineage, project, draft, part3File, mergedFile>>
    BY DEF bookVars, fileVars
  <1>3. DraftsAimNext'
    BY <1>1, <1>2, DraftsFrame
  <1>4. RequestsInOrder'
    BY <1>1, <1>2, SlotKeepsRequests
  <1>5. TypeOK'
    BY <1>1, <1>2, <1>4, TypeFrame DEF TypeOK
  <1> QED
    BY <1>3, <1>4, <1>5

\* Rendering gives the request a list of printed projects.
LEMMA RenderKeepsRows ==
    ASSUME Inductive, NEW r \in Request, Render(r)
    PROVE  TypeOK' /\ DraftsAimNext' /\ RequestsInOrder'
  <1>1. CASE Printable = {}
    BY <1>1, EndsKeepRows
  <1>2. CASE Printable # {}
    <2> DEFINE old == request[r]
               rec == [old.new EXCEPT !.unpaged = old.new.snapshot \ Printable]
               q == [old EXCEPT !.kind = "rendered", !.prints = Printable, !.new = rec]
    <2>1. /\ TypeOK /\ RequestsAimNext /\ LockedIsOfficial /\ ForksKnown
          /\ old \in RequestRecord /\ old.kind = "generate"
      BY DEF Inductive, TypeOK, Render
    <2>2. old.new \in DraftRecord /\ Printable \in SUBSET Project
      BY <2>1 DEF RequestRecord, Printable
    <2>3. rec \in DraftRecord /\ rec.target = old.new.target
      BY <2>2 DEF DraftRecord
    <2>4. request' = [request EXCEPT ![r] = q] /\ UNCHANGED <<bookVars, project, draft, fileVars>>
      BY <1>2, <2>1, <2>2 DEF Render, RequestRecord, DraftRecord
    <2> HIDE DEF rec
    <2>5. /\ q \in RequestRecord /\ q.kind = "rendered" /\ q.new = rec /\ q.row = old.row
          /\ q.version = old.version /\ q.doomed = old.doomed /\ q.late = old.late
      BY <2>1, <2>2, <2>3 DEF RequestRecord, RequestKind, DraftKind, SavingKind, Part3Kind
    <2> HIDE DEF q
    <2>6. old.kind \in DraftKind /\ q.kind \notin CorrectKind \cup {"cancel", "merge", "cascaded"}
      BY <2>1, <2>5 DEF DraftKind, CorrectKind
    <2>7. /\ rec.target <= MaxNumber + 1
          /\ rec.target \in VersionNo /\ q.row \in DraftRow
      BY <2>1, <2>3, <2>5, <2>6 DEF RequestsAimNext
    <2>8. q.version # 0 => /\ q.version \in Completed
                           /\ \A s \in Request \ {r} : request[s].version # q.version
      BY <2>1, <2>5 DEF LockedIsOfficial
    <2>9. ForkedAmong(Checked(q)) \subseteq q.late
      BY <2>1, <2>5 DEF ForksKnown, Checked
    <2> QED
      BY <2>4, <2>5, <2>6, <2>7, <2>8, <2>9, ReadsKeepRows
  <1> QED
    BY <1>1, <1>2

\* The cascade looks for descendants of what it is going to delete.
LEMMA CascadeKeepsRows ==
    ASSUME Inductive, NEW r \in Request, Cascade(r)
    PROVE  TypeOK' /\ DraftsAimNext' /\ RequestsInOrder'
  <1> DEFINE old == request[r]
             q == [old EXCEPT !.kind = "cascaded", !.doomed = Orphans]
  <1>1. /\ TypeOK /\ RequestsAimNext /\ LockedIsOfficial
        /\ old \in RequestRecord /\ old.kind = "merge" /\ ForkedAmong(Orphans) = {}
    BY DEF Inductive, TypeOK, Cascade
  <1>2. Orphans \in SUBSET Project
    BY DEF Orphans
  <1>3. request' = [request EXCEPT ![r] = q] /\ UNCHANGED <<bookVars, project, draft, fileVars>>
    BY <1>1 DEF Cascade, RequestRecord, TypeOK
  <1>4. /\ q \in RequestRecord /\ q.kind = "cascaded" /\ q.new = old.new /\ q.row = old.row
        /\ q.version = old.version /\ q.doomed = Orphans
    BY <1>1, <1>2 DEF RequestRecord, RequestKind, DraftKind
  <1> HIDE DEF q
  <1>5. old.kind \in DraftKind /\ q.kind \notin CorrectKind \cup {"cancel"}
    BY <1>1, <1>4 DEF DraftKind, CorrectKind
  <1>6. /\ q.new.target <= MaxNumber + 1 /\ q.new.snapshot # {}
        /\ q.new.target \in VersionNo /\ q.row \in DraftRow
    BY <1>1, <1>4, <1>5 DEF RequestsAimNext
  <1>7. q.version # 0 => /\ q.version \in Completed
                         /\ \A s \in Request \ {r} : request[s].version # q.version
    BY <1>1, <1>4 DEF LockedIsOfficial
  <1>8. ForkedAmong(Checked(q)) = {}
    BY <1>1, <1>4 DEF Checked
  <1> QED
    BY <1>3, <1>4, <1>5, <1>6, <1>7, <1>8, ReadsKeepRows

\* An edit of the round, a removal or a cancel that begins has no draft row.
LEMMA BeginOthersKeepsRows ==
    ASSUME Inductive, NEW r \in Request,
           \/ \E open \in BOOLEAN : BeginRound(r, open)
           \/ \E p \in Project : BeginRemove(r, p)
           \/ \E v \in VersionNo : BeginCancel(r, v)
    PROVE  TypeOK' /\ DraftsAimNext' /\ RequestsInOrder'
  <1>1. TypeOK /\ NumbersDense /\ UNCHANGED <<bookVars, project, draft, fileVars>>
    BY DEF Inductive, BeginRound, BeginRemove, BeginCancel
  <1>2. MaxNumber \in 0..MaxVersion
    BY <1>1, MaxNumberTyped
  <1>3. /\ Idle \in RequestRecord /\ Idle.new.target = 0 /\ Idle.version = 0
        /\ Idle.doomed = {}
    BY ConstantRecords DEF Idle, NoDraft
  <1>4. /\ {"round", "remove", "cancel"} \cap DraftKind = {}
        /\ {"round", "remove"} \cap (CorrectKind \cup {"cancel", "reset"}) = {}
    BY DEF DraftKind, SavingKind, Part3Kind, CorrectKind
  <1>5. ASSUME NEW open \in BOOLEAN, BeginRound(r, open)
        PROVE  TypeOK' /\ DraftsAimNext' /\ RequestsInOrder'
    <2> DEFINE row == [revision EXCEPT !.isOpen = open]
               q == [Idle EXCEPT !.kind = "round", !.round = row]
    <2>1. row \in RoundRecord
      BY <1>1 DEF TypeOK, RoundRecord
    <2>2. request' = [request EXCEPT ![r] = q]
      BY <1>5 DEF BeginRound
    <2> HIDE DEF row
    <2>3. /\ q \in RequestRecord /\ q.kind = "round" /\ q.new = Idle.new
          /\ q.version = 0 /\ q.doomed = {}
      BY <1>3, <2>1 DEF RequestRecord, RequestKind
    <2> HIDE DEF q
    <2>4. ForkedAmong(Checked(q)) = {}
      BY <2>3 DEF Checked, ForkedAmong
    <2>5. /\ q.kind \notin DraftKind /\ q.kind \notin {"merge", "cascaded"}
          /\ q.kind \notin CorrectKind \cup {"cancel"}
      BY <1>4, <2>3
    <2>6. q.new.target <= MaxNumber + 1 /\ ForkedAmong(Checked(q)) \subseteq q.late
      BY <1>2, <1>3, <2>3, <2>4, ConstantsAssumption
    <2> QED
      BY <1>1, <2>2, <2>3, <2>5, <2>6, ReadsKeepRows
  <1>6. ASSUME NEW p \in Project, BeginRemove(r, p)
        PROVE  TypeOK' /\ DraftsAimNext' /\ RequestsInOrder'
    <2> DEFINE q == [Idle EXCEPT !.kind = "remove", !.doomed = {p}]
    <2>1. request' = [request EXCEPT ![r] = q] /\ ~project[p].forked
      BY <1>6 DEF BeginRemove
    <2>2. /\ q \in RequestRecord /\ q.kind = "remove" /\ q.new = Idle.new
          /\ q.version = 0 /\ q.doomed = {p}
      BY <1>3 DEF RequestRecord, RequestKind
    <2> HIDE DEF q
    <2>3. ForkedAmong(Checked(q)) = {}
      BY <2>1, <2>2 DEF Checked, ForkedAmong
    <2>4. /\ q.kind \notin DraftKind /\ q.kind \notin {"merge", "cascaded"}
          /\ q.kind \notin CorrectKind \cup {"cancel"}
      BY <1>4, <2>2
    <2>5. q.new.target <= MaxNumber + 1 /\ ForkedAmong(Checked(q)) \subseteq q.late
      BY <1>2, <1>3, <2>2, <2>3, ConstantsAssumption
    <2> QED
      BY <1>1, <2>1, <2>2, <2>4, <2>5, ReadsKeepRows
  <1>7. ASSUME NEW v \in VersionNo, BeginCancel(r, v)
        PROVE  TypeOK' /\ DraftsAimNext' /\ RequestsInOrder'
    <2> DEFINE q == [Idle EXCEPT !.kind = "cancel", !.version = v]
    <2>1. /\ request' = [request EXCEPT ![r] = q] /\ ForkedAmong(version[v].snapshot) = {}
          /\ v \in Completed /\ \A s \in Request : request[s].version # v
      BY <1>7 DEF BeginCancel, Lockable
    <2>2. v \in 0..MaxVersion /\ v # 0
      BY <1>7, ConstantsAssumption DEF VersionNo
    <2>3. /\ q \in RequestRecord /\ q.kind = "cancel" /\ q.new = Idle.new
          /\ q.version = v /\ q.doomed = {}
      BY <1>3, <2>2 DEF RequestRecord, RequestKind
    <2> HIDE DEF q
    <2>4. ForkedAmong(Checked(q)) = {}
      BY <2>1, <2>3 DEF Checked, ForkedAmong
    <2>5. q.kind \notin DraftKind /\ q.kind \notin {"merge", "cascaded"}
      BY <1>4, <2>3
    <2>6. q.new.target <= MaxNumber + 1 /\ ForkedAmong(Checked(q)) \subseteq q.late
      BY <1>2, <1>3, <2>3, <2>4, ConstantsAssumption
    <2>7. /\ q.version # 0 /\ q.version \in Completed
          /\ \A s \in Request \ {r} : request[s].version # q.version
      BY <2>1, <2>2, <2>3
    <2> QED
      BY <1>1, <2>1, <2>3, <2>5, <2>6, <2>7, ReadsKeepRows
  <1> QED
    BY <1>5, <1>6, <1>7

\* A correction that begins holds the last version and aims at the next one.
LEMMA BeginCorrectKeepsRows ==
    ASSUME Inductive, NEW r \in Request, NEW v \in VersionNo, NEW part \in Part,
           NEW reused \in SUBSET Part, NEW d \in DraftRow,
           BeginCorrect(r, v, part, reused, d)
    PROVE  TypeOK' /\ DraftsAimNext' /\ RequestsInOrder'
  <1> DEFINE list == IF 3 \in reused THEN version[v].snapshot ELSE {}
             started == [status |-> "preparing", target |-> v + 1, supplied |-> reused,
                         snapshot |-> list, unpaged |-> {}]
             row == WithStatus(started)
             kind == IF part = 3 THEN "reset" ELSE "amend"
             q == [Idle EXCEPT !.kind = kind, !.version = v, !.row = d, !.new = row]
  <1>1. /\ TypeOK /\ NumbersDense /\ OfficialIsNewest
        /\ UNCHANGED <<bookVars, project, draft, fileVars>>
        /\ request' = [request EXCEPT ![r] = q]
        /\ v \in Completed /\ v < MaxVersion /\ \A s \in Request : request[s].version # v
        /\ part = 3 => ForkedAmong(version[v].snapshot) = {}
    BY DEF Inductive, BeginCorrect, Lockable
  <1>2. v = MaxNumber /\ v \in 0..MaxVersion /\ v # 0 /\ v + 1 \in VersionNo /\ v + 1 \in 0..MaxVersion
    BY <1>1, ConstantsAssumption DEF OfficialIsNewest, VersionNo
  <1>3. started \in DraftRecord /\ started.target = v + 1
    <2>1. list \in SUBSET Project
      BY <1>1 DEF TypeOK
    <2> QED
      BY <1>2, <2>1 DEF DraftRecord, DraftStatus, ActiveStatus
  <1> HIDE DEF started
  <1>4. row \in DraftRecord /\ row.target = v + 1
    BY <1>3, WithStatusTyped
  <1> HIDE DEF row
  <1>5. kind \in CorrectKind /\ CorrectKind \subseteq RequestKind
    BY DEF CorrectKind, RequestKind, DraftKind
  <1>6. /\ q \in RequestRecord /\ q.kind = kind /\ q.new = row /\ q.row = d
        /\ q.version = v /\ q.doomed = {}
    BY <1>2, <1>4, <1>5, ConstantRecords DEF RequestRecord, Idle
  <1>7. kind = "reset" => part = 3
    OBVIOUS
  <1> HIDE DEF q, kind
  <1>8. ForkedAmong(Checked(q)) = {}
    <2>1. CASE kind = "reset"
      BY <1>1, <1>6, <1>7, <2>1 DEF Checked, ForkedAmong
    <2>2. CASE kind # "reset"
      <3>1. kind = "amend"
        BY <1>5, <2>2 DEF CorrectKind
      <3> QED
        BY <1>6, <3>1 DEF Checked, ForkedAmong
    <2> QED
      BY <2>1, <2>2
  <1>9. q.kind \notin {"merge", "cascaded"}
    BY <1>5, <1>6 DEF CorrectKind
  <1>10. v + 1 <= MaxNumber + 1
    BY <1>2, ConstantsAssumption
  <1> QED
    BY <1>1, <1>2, <1>4, <1>6, <1>8, <1>9, <1>10, ReadsKeepRows

\* What moves in the projects, beside the book. A new fork is late for the
\* requests that have looked already.
LEMMA EnvironmentKeepsRows ==
    ASSUME Inductive,
           \/ \E d \in DraftRow : Purge(d)
           \/ Environment
    PROVE  TypeOK' /\ DraftsAimNext' /\ RequestsInOrder'
  <1>1. TypeOK /\ RequestsInOrder /\ NumbersDense /\ DraftsAimNext
    BY DEF Inductive, TypeOK, RequestsInOrder
  <1>2. UNCHANGED <<version, lineage, revision, part3File, mergedFile>>
    BY DEF Purge, Environment, StatusChange, Fork, SiblingBook, bookVars, fileVars
  <1>3. MaxNumber' = MaxNumber /\ MaxNumber \in 0..MaxVersion
    BY <1>1, <1>2, MaxNumberTyped DEF MaxNumber, Published
  <1>4. draft' \in [DraftRow -> DraftRecord] /\ DraftsAimNext'
    <2>1. ASSUME NEW d \in DraftRow, Purge(d)
          PROVE  draft' \in [DraftRow -> DraftRecord] /\ DraftsAimNext'
      <3>1. draft' \in [DraftRow -> DraftRecord]
        BY <1>1, <2>1, ConstantRecords DEF Purge, TypeOK
      <3>2. \A e \in DraftRow : draft'[e] = IF e = d THEN NoDraft ELSE draft[e]
        BY <1>1, <2>1 DEF Purge, TypeOK
      <3>3. NoDraft.target = 0 /\ NoDraft.status = "absent"
        BY DEF NoDraft
      <3> QED
        BY <1>1, <1>3, <3>1, <3>2, <3>3, ConstantsAssumption DEF DraftsAimNext
    <2>2. CASE Environment
      <3>1. draft' = draft
        BY <2>2 DEF Environment, StatusChange, Fork, SiblingBook
      <3> QED
        BY <1>1, <1>2, <3>1, DraftsFrame DEF TypeOK
    <2> QED
      BY <2>1, <2>2
  <1> DEFINE Row == [status : ProjectStatus, isBooked : BOOLEAN,
                     deleted : BOOLEAN, forked : BOOLEAN]
             Kept == /\ project' \in [Project -> Row] /\ newerSibling' \in BOOLEAN
                     /\ RequestsInOrder'
  <1>5. project \in [Project -> Row] /\ newerSibling \in BOOLEAN
    BY <1>1 DEF TypeOK
  <1>6. ASSUME request' = request, \A p \in Project : project'[p].forked = project[p].forked
        PROVE  RequestsInOrder'
    <2>1. request' \in [Request -> RequestRecord] /\ RequestsAimNext'
      BY <1>1, <1>3, <1>6 DEF RequestsInOrder, RequestsAimNext
    <2>2. LockedIsOfficial'
      BY <1>1, <1>2, <1>6 DEF RequestsInOrder, LockedIsOfficial, Completed
    <2>3. ForksKnown'
      <3> SUFFICES ASSUME NEW r \in Request
                   PROVE  (ForkedAmong(Checked(request[r])))' \subseteq request[r].late
        BY <1>6 DEF ForksKnown
      <3>1. ForkedAmong(Checked(request[r])) \subseteq request[r].late
        BY <1>1 DEF RequestsInOrder, ForksKnown
      <3>2. Checked(request[r]) \subseteq Project /\ (Checked(request[r]))' = Checked(request[r])
        BY <1>1, <1>2, <1>6, CheckedTyped DEF Checked
      <3> QED
        BY <1>6, <3>1, <3>2 DEF ForkedAmong
    <2> QED
      BY <2>1, <2>2, <2>3 DEF RequestsInOrder
  <1>7. ASSUME NEW p \in Project, NEW st \in ProjectStatus, StatusChange(p, st)
        PROVE  Kept
    <2>1. [project[p] EXCEPT !.status = st] \in Row
      BY <1>5
    <2>2. project' = [project EXCEPT ![p] = [project[p] EXCEPT !.status = st]]
      BY <1>7 DEF StatusChange
    <2>3. \A x \in Project : project'[x].forked = project[x].forked
      BY <1>5, <2>2
    <2>4. request' = request /\ newerSibling' = newerSibling
      BY <1>7 DEF StatusChange, bookVars
    <2> HIDE DEF Row
    <2> QED
      BY <1>5, <1>6, <2>1, <2>2, <2>3, <2>4
  <1>8. ASSUME NEW p \in Forkable, Fork(p)
        PROVE  Kept
    <2> DEFINE flag == ~project[p].forked
    <2>1. p \in Project /\ newerSibling' = newerSibling
      BY <1>8, ConstantsAssumption DEF Fork, bookVars
    <2>2. [project[p] EXCEPT !.forked = flag] \in Row
      BY <1>5, <2>1
    <2>3. project' = [project EXCEPT ![p] = [project[p] EXCEPT !.forked = flag]]
      BY <1>8 DEF Fork
    <2>4. project' \in [Project -> Row]
      <3> HIDE DEF Row, flag
      <3> QED
        BY <1>5, <2>2, <2>3
    <2>5. \A x \in Project : project'[x].forked = IF x = p THEN ~project[p].forked ELSE project[x].forked
      BY <1>5, <2>3
    <2> DEFINE seen(r) == IF p \notin Checked(request[r]) THEN request[r].late
                          ELSE IF project[p].forked THEN request[r].late \ {p}
                          ELSE request[r].late \cup {p}
               new(r) == [request[r] EXCEPT !.late = seen(r)]
    <2>6. request' = [r \in Request |-> new(r)]
      BY <1>8 DEF Fork
    <2>7. ASSUME NEW r \in Request
          PROVE  /\ request'[r] \in RequestRecord
                 /\ request'[r].kind = request[r].kind /\ request'[r].row = request[r].row
                 /\ request'[r].new = request[r].new /\ request'[r].version = request[r].version
                 /\ request'[r].doomed = request[r].doomed /\ request'[r].late = seen(r)
      <3>1. request[r] \in RequestRecord
        BY <1>1 DEF TypeOK
      <3>2. seen(r) \in SUBSET Project
        BY <2>1, <3>1 DEF RequestRecord
      <3> HIDE DEF seen
      <3> QED
        BY <2>6, <3>1, <3>2 DEF RequestRecord
    <2>8. request' \in [Request -> RequestRecord] /\ RequestsAimNext'
      <3>1. request' \in [Request -> RequestRecord]
        BY <2>6, <2>7
      <3> HIDE DEF new, seen
      <3> QED
        BY <1>1, <1>3, <2>7, <3>1 DEF RequestsInOrder, RequestsAimNext
    <2>9. LockedIsOfficial'
      <3> HIDE DEF new, seen
      <3>1. Completed' = Completed
        BY <1>2 DEF Completed
      <3> QED
        BY <1>1, <2>7, <3>1 DEF RequestsInOrder, LockedIsOfficial
    <2>10. ForksKnown'
      <3> SUFFICES ASSUME NEW r \in Request
                   PROVE  (ForkedAmong(Checked(request[r])))' \subseteq seen(r)
        BY <2>7 DEF ForksKnown
      <3>1. ForkedAmong(Checked(request[r])) \subseteq request[r].late
        BY <1>1 DEF RequestsInOrder, ForksKnown
      <3>2. (Checked(request[r]))' = Checked(request[r]) /\ Checked(request[r]) \subseteq Project
        BY <1>1, <1>2, <2>7, CheckedTyped DEF Checked
      <3> SUFFICES ASSUME NEW x \in Checked(request[r]), project'[x].forked
                   PROVE  x \in seen(r)
        BY <3>2 DEF ForkedAmong
      <3>3. x \in Project
        BY <3>2
      <3>4. CASE x = p
        <4>1. ~project[p].forked
          BY <1>5, <2>1, <2>5, <3>4
        <4> QED
          BY <3>4, <4>1
      <3>5. CASE x # p
        <4>1. project[x].forked
          BY <2>5, <3>3, <3>5
        <4>2. x \in request[r].late
          BY <3>1, <3>3, <4>1 DEF ForkedAmong
        <4> QED
          BY <3>5, <4>2
      <3> QED
        BY <3>4, <3>5
    <2> QED
      BY <1>5, <2>1, <2>4, <2>8, <2>9, <2>10 DEF RequestsInOrder
  <1>9. ASSUME SiblingBook \/ \E d \in DraftRow : Purge(d)
        PROVE  Kept
    <2>1. project' = project /\ request' = request /\ newerSibling' \in BOOLEAN
      BY <1>5, <1>9 DEF SiblingBook, Purge, bookVars
    <2> QED
      BY <1>5, <1>6, <2>1
  <1>10. Kept
    BY <1>7, <1>8, <1>9 DEF Environment
  <1>11. TypeOK'
    BY <1>1, <1>2, <1>4, <1>10 DEF TypeOK, RequestsInOrder
  <1> QED
    BY <1>4, <1>10, <1>11

(*****************************************************************************)
(* The book.                                                                 *)
(*****************************************************************************)

\* A step that leaves the versions and the lineage alone and un-books no project
\* leaves the book as it was.
LEMMA BookFrame ==
    ASSUME Inductive, version' = version, lineage' = lineage,
           \A p \in Project : project[p].isBooked => project'[p].isBooked
    PROVE  NumbersDense' /\ OfficialIsNewest' /\ OfficialSnapshotBooked' /\ LeafIsOfficial'
  <1>1. /\ Published' = Published /\ Completed' = Completed /\ MaxNumber' = MaxNumber
        /\ TypeOK /\ NumbersDense /\ OfficialIsNewest /\ OfficialSnapshotBooked
        /\ LeafIsOfficial
    BY DEF Published, Completed, MaxNumber, Inductive
  <1>2. NumbersDense' /\ OfficialIsNewest'
    BY <1>1 DEF NumbersDense, OfficialIsNewest
  <1>3. \A v \in Completed : version[v].snapshot \subseteq Project
    BY <1>1 DEF TypeOK, Completed
  <1>4. OfficialSnapshotBooked'
    BY <1>1, <1>3 DEF OfficialSnapshotBooked
  <1>5. LeafIsOfficial'
    BY <1>1 DEF LeafIsOfficial
  <1> QED
    BY <1>2, <1>4, <1>5

\* The only version a merge can commit is the next one.
LEMMA MergeTargetIsNext ==
    ASSUME Inductive, NEW r \in Request, CommitMerge(r)
    PROVE  /\ request[r].new.target = MaxNumber + 1
           /\ request[r].new.target \in VersionNo
           /\ request[r].row \in DraftRow
           /\ request[r].new.snapshot # {}
           /\ request[r].new \in DraftRecord
  <1> DEFINE v == request[r].new.target
  <1>1. TypeOK /\ RequestsAimNext /\ NumbersDense
    BY DEF Inductive
  <1>2. /\ request[r].kind = "cascaded" /\ request[r].kind \in DraftKind
        /\ version[v].status = "none"
    BY DEF CommitMerge, CanCommit, DraftKind
  <1>3. /\ v \in VersionNo /\ v <= MaxNumber + 1 /\ request[r].row \in DraftRow
        /\ request[r].new.snapshot # {}
    BY <1>1, <1>2 DEF RequestsAimNext
  <1>4. v \notin Published
    BY <1>2 DEF Published
  <1>5. MaxNumber \in 0..MaxVersion /\ Published = 1..MaxNumber
    BY <1>1, MaxNumberTyped
  <1>6. v = MaxNumber + 1
    BY <1>3, <1>4, <1>5, ConstantsAssumption DEF VersionNo
  <1>7. request[r].new \in DraftRecord
    BY <1>1 DEF TypeOK, RequestRecord
  <1> QED
    BY <1>3, <1>6, <1>7

LineageRecord == [rows : SUBSET VersionNo, leaf : SUBSET VersionNo,
                  parent : [VersionNo -> 0..MaxVersion]]

\* A merge makes its version the only leaf of the projects it prints.
LEMMA MergeLineage ==
    ASSUME TypeOK, LeafIsOfficial, NEW v \in VersionNo, NEW S \in SUBSET Project
    PROVE  /\ LineageAfterMerge(S, v) \in [Project -> LineageRecord]
           /\ \A p \in Project : \A w, x \in LineageAfterMerge(S, v)[p].leaf : w = x
           /\ \A p \in S : LineageAfterMerge(S, v)[p].leaf = {v}
  <1> DEFINE old(p) == IF lineage[p].leaf = {} THEN 0 ELSE CHOOSE w \in lineage[p].leaf : TRUE
             new(p) == [rows |-> lineage[p].rows \cup {v},
                        leaf |-> (lineage[p].leaf \ {old(p)}) \cup {v},
                        parent |-> [lineage[p].parent EXCEPT ![v] = old(p)]]
  <1>1. \A p \in Project : /\ lineage[p] \in LineageRecord
                           /\ \A w, x \in lineage[p].leaf : w = x
    BY DEF TypeOK, LeafIsOfficial, LineageRecord
  <1>2. \A p \in Project : /\ old(p) \in 0..MaxVersion
                           /\ lineage[p].leaf \subseteq {old(p)}
    <2> SUFFICES ASSUME NEW p \in Project
                 PROVE  old(p) \in 0..MaxVersion /\ lineage[p].leaf \subseteq {old(p)}
      OBVIOUS
    <2>1. CASE lineage[p].leaf = {}
      BY <2>1, ConstantsAssumption
    <2>2. CASE lineage[p].leaf # {}
      <3>1. old(p) \in lineage[p].leaf
        BY <2>2
      <3>2. lineage[p].leaf \subseteq 0..MaxVersion
        BY <1>1, ConstantsAssumption DEF LineageRecord, VersionNo
      <3> QED
        BY <1>1, <3>1, <3>2
    <2> QED
      BY <2>1, <2>2
  <1> HIDE DEF old
  <1>3. \A p \in Project : new(p) \in LineageRecord /\ new(p).leaf = {v}
    <2> SUFFICES ASSUME NEW p \in Project
                 PROVE  new(p) \in LineageRecord /\ new(p).leaf = {v}
      OBVIOUS
    <2>1. [lineage[p].parent EXCEPT ![v] = old(p)] \in [VersionNo -> 0..MaxVersion]
      BY <1>1, <1>2 DEF LineageRecord
    <2>2. (lineage[p].leaf \ {old(p)}) \cup {v} = {v}
      BY <1>2
    <2>3. lineage[p].rows \cup {v} \subseteq VersionNo
      BY <1>1 DEF LineageRecord
    <2> QED
      BY <2>1, <2>2, <2>3 DEF LineageRecord
  <1>4. LineageAfterMerge(S, v) = [p \in Project |-> IF p \notin S THEN lineage[p] ELSE new(p)]
    BY DEF LineageAfterMerge, old
  <1> HIDE DEF new
  <1> DEFINE after == LineageAfterMerge(S, v)
  <1>5. \A p \in Project : after[p] = IF p \notin S THEN lineage[p] ELSE new(p)
    BY <1>4
  <1>6. after = [p \in Project |-> after[p]]
    BY <1>4
  <1> HIDE DEF after
  <1>7. \A p \in Project : after[p] \in LineageRecord
    BY <1>1, <1>3, <1>5
  <1>8. after \in [Project -> LineageRecord]
    BY <1>6, <1>7
  <1>9. ASSUME NEW p \in Project
        PROVE  /\ \A w, x \in after[p].leaf : w = x
               /\ p \in S => after[p].leaf = {v}
    <2>1. CASE p \in S
      <3>1. after[p].leaf = {v}
        BY <1>3, <1>5, <2>1
      <3> QED
        BY <3>1
    <2>2. CASE p \notin S
      BY <1>1, <1>5, <2>2
    <2> QED
      BY <2>1, <2>2
  <1> QED
    BY <1>8, <1>9 DEF after

\* A cancelled version leaves at most one leaf behind: its parent.
LEMMA CancelLineage ==
    ASSUME TypeOK, LeafIsOfficial, NEW v \in Completed
    PROVE  /\ LineageAfterCancel(version[v].snapshot, v) \in [Project -> LineageRecord]
           /\ \A p \in Project :
                 \A w, x \in LineageAfterCancel(version[v].snapshot, v)[p].leaf : w = x
  <1> DEFINE S == version[v].snapshot
             parent(p) == lineage[p].parent[v]
             kept(p) == (lineage[p].leaf \ {v}) \cup ({parent(p)} \cap lineage[p].rows)
             new(p) == [lineage[p] EXCEPT !.leaf = kept(p)]
  <1>1. \A p \in Project : /\ lineage[p] \in LineageRecord
                           /\ \A w, x \in lineage[p].leaf : w = x
    BY DEF TypeOK, LeafIsOfficial, LineageRecord
  <1>2. S \in SUBSET Project /\ \A p \in S : lineage[p].leaf = {v}
    BY DEF TypeOK, LeafIsOfficial, Completed
  <1>3. \A p \in S : kept(p) \subseteq {parent(p)} /\ kept(p) \in SUBSET VersionNo
    BY <1>1, <1>2 DEF LineageRecord
  <1>4. \A p \in S : new(p) \in LineageRecord /\ new(p).leaf = kept(p)
    <2> SUFFICES ASSUME NEW p \in S
                 PROVE  new(p) \in LineageRecord /\ new(p).leaf = kept(p)
      OBVIOUS
    <2>1. lineage[p] \in LineageRecord /\ kept(p) \in SUBSET VersionNo
      BY <1>1, <1>2, <1>3
    <2> HIDE DEF kept
    <2> QED
      BY <2>1 DEF LineageRecord
  <1>5. LineageAfterCancel(S, v) =
           [p \in Project |-> IF p \notin S \/ v \notin lineage[p].rows
                              THEN lineage[p] ELSE new(p)]
    BY DEF LineageAfterCancel
  <1> HIDE DEF new, kept, S, parent
  <1> DEFINE after == LineageAfterCancel(S, v)
  <1>6. \A p \in Project : after[p] = IF p \notin S \/ v \notin lineage[p].rows
                                    THEN lineage[p] ELSE new(p)
    BY <1>5
  <1>7. after = [p \in Project |-> after[p]]
    BY <1>5
  <1> HIDE DEF after
  <1>8. ASSUME NEW p \in Project
        PROVE  after[p] \in LineageRecord /\ \A w, x \in after[p].leaf : w = x
    <2>1. CASE after[p] = lineage[p]
      BY <1>1, <2>1
    <2>2. CASE p \in S /\ after[p] = new(p)
      <3>1. after[p].leaf \subseteq {parent(p)} /\ after[p] \in LineageRecord
        BY <1>3, <1>4, <2>2
      <3> QED
        BY <3>1
    <2> QED
      BY <1>6, <2>1, <2>2
  <1>9. after \in [Project -> LineageRecord]
    BY <1>7, <1>8
  <1> QED
    BY <1>8, <1>9 DEF after, S

\* A merge that commits publishes the next number as the only official version.
LEMMA CommitMergeKeepsInductive ==
    ASSUME Inductive, NEW r \in Request, CommitMerge(r)
    PROVE  Inductive'
  <1> DEFINE q == request[r]
             v == q.new.target
             S == q.new.snapshot
             n == MaxNumber
  <1>1. /\ TypeOK /\ RequestsAimNext /\ NumbersDense /\ DraftsAimNext
        /\ LockedIsOfficial /\ ForksKnown /\ LeafIsOfficial
    BY DEF Inductive
  <1>2. n \in 0..MaxVersion /\ Published = 1..n
    BY <1>1, MaxNumberTyped
  <1>3. /\ v = n + 1 /\ v \in VersionNo /\ q.row \in DraftRow /\ q.new \in DraftRecord
        /\ S \in SUBSET Project
    BY MergeTargetIsNext DEF DraftRecord
  <1>4. Completed = {}
    BY DEF CommitMerge, CanCommit
  <1>5. version' = [version EXCEPT ![v] = [status |-> "completed", snapshot |-> S]]
    BY DEF CommitMerge
  <1>6. \A w \in VersionNo :
           version'[w] = IF w = v THEN [status |-> "completed", snapshot |-> S]
                         ELSE version[w]
    BY <1>1, <1>5 DEF TypeOK
  <1>7. Published' = Published \cup {v} /\ Completed' = {v}
    BY <1>3, <1>4, <1>6 DEF Published, Completed
  <1>8. v \in 0..MaxVersion /\ Published' = 1..v
    BY <1>2, <1>3, <1>7, ConstantsAssumption DEF VersionNo
  <1>9. MaxNumber' = v
    <2>1. CASE v = 0
      BY <1>2, <1>3, <2>1
    <2>2. v \in Published' /\ (\A w \in Published' : w <= v)
      BY <1>3, <1>7, <1>8, ConstantsAssumption DEF VersionNo
    <2>3. \A w \in Published' : (\A x \in Published' : x <= w) => w = v
      BY <1>8, <2>2, ConstantsAssumption
    <2> QED
      BY <2>2, <2>3 DEF MaxNumber
  <1>10. NumbersDense' /\ OfficialIsNewest'
    BY <1>7, <1>8, <1>9, ConstantsAssumption DEF NumbersDense, OfficialIsNewest
  <1> DEFINE Row == [status : ProjectStatus, isBooked : BOOLEAN,
                     deleted : BOOLEAN, forked : BOOLEAN]
  <1>20. /\ project' \in [Project -> Row]
         /\ \A p \in S : project'[p].isBooked
         /\ \A p \in Project : project'[p].forked = project[p].forked
    <2> DEFINE new(p) == [project[p] EXCEPT !.deleted = @ \/ p \in q.doomed,
                                            !.isBooked = @ \/ p \in S]
    <2>1. project' = [p \in Project |-> new(p)]
      BY DEF CommitMerge
    <2>2. ASSUME NEW p \in Project
          PROVE  /\ new(p) \in Row
                 /\ p \in S => new(p).isBooked
                 /\ new(p).forked = project[p].forked
      <3>1. project[p] \in Row
        BY <1>1 DEF TypeOK
      <3>2. /\ (project[p].deleted \/ p \in q.doomed) \in BOOLEAN
            /\ (project[p].isBooked \/ p \in S) \in BOOLEAN
        OBVIOUS
      <3> QED
        BY <3>1, <3>2
    <2> HIDE DEF new
    <2> QED
      BY <1>3, <2>1, <2>2
  <1> HIDE DEF Row
  <1>11. RequestsInOrder'
    <2>1. request' = [request EXCEPT ![r] = Idle]
      BY DEF CommitMerge
    <2>2. \A s \in Request : request'[s] = IF s = r THEN Idle ELSE request[s]
      BY <1>1, <2>1 DEF TypeOK
    <2>3. /\ Idle \in RequestRecord /\ Idle.new.target = 0 /\ Idle.version = 0
          /\ Idle.doomed = {} /\ Idle.kind = "idle"
      BY ConstantRecords DEF Idle, NoDraft
    <2>4. "idle" \notin DraftKind \cup CorrectKind \cup {"cancel", "reset"}
      BY DEF DraftKind, SavingKind, Part3Kind, CorrectKind
    <2>5. request' \in [Request -> RequestRecord]
      BY <1>1, <2>1, <2>3 DEF TypeOK
    <2>6. \A s \in Request : request[s].new.target \in 0..MaxVersion
      BY <1>1 DEF TypeOK, RequestRecord, DraftRecord
    <2>7. RequestsAimNext'
      BY <1>1, <1>2, <1>3, <1>9, <2>2, <2>3, <2>4, <2>6, ConstantsAssumption DEF RequestsAimNext
    <2>8. \A s \in Request : /\ request[s].version = 0
                             /\ request[s].kind \notin CorrectKind \cup {"cancel"}
      BY <1>1, <1>4 DEF LockedIsOfficial
    <2>9. LockedIsOfficial'
      BY <2>2, <2>3, <2>4, <2>8 DEF LockedIsOfficial
    <2>10. ForksKnown'
      <3> SUFFICES ASSUME NEW s \in Request
                   PROVE  (ForkedAmong(Checked(request[s])))' \subseteq request'[s].late
        BY DEF ForksKnown
      <3>1. CASE s = r
        <4>1. (Checked(request[s]))' = {}
          BY <2>2, <2>3, <2>4, <3>1 DEF Checked
        <4> QED
          BY <4>1 DEF ForkedAmong
      <3>2. CASE s # r
        <4>1. request'[s] = request[s] /\ request[s].kind \notin {"cancel", "reset"}
          BY <2>2, <2>8, <3>2 DEF CorrectKind
        <4>2. (Checked(request[s]))' = Checked(request[s])
          BY <4>1 DEF Checked
        <4>3. Checked(request[s]) \subseteq Project
          BY <1>1, CheckedTyped DEF RequestsInOrder, TypeOK
        <4>4. ForkedAmong(Checked(request[s])) \subseteq request[s].late
          BY <1>1 DEF ForksKnown
        <4> QED
          BY <1>20, <4>1, <4>2, <4>3, <4>4 DEF ForkedAmong
      <3> QED
        BY <3>1, <3>2
    <2> QED
      BY <2>5, <2>7, <2>9, <2>10 DEF RequestsInOrder
  <1>12. draft' \in [DraftRow -> DraftRecord] /\ DraftsAimNext'
    <2>1. draft' = [draft EXCEPT ![q.row] = q.new]
      BY DEF CommitMerge
    <2>2. draft' \in [DraftRow -> DraftRecord]
      BY <1>1, <1>3, <2>1 DEF TypeOK
    <2>3. \A d \in DraftRow : draft'[d] = IF d = q.row THEN q.new ELSE draft[d]
      BY <1>1, <2>1 DEF TypeOK
    <2>4. \A d \in DraftRow : draft[d].target \in 0..MaxVersion
      BY <1>1 DEF TypeOK, DraftRecord
    <2> QED
      BY <1>1, <1>2, <1>3, <1>9, <2>2, <2>3, <2>4, ConstantsAssumption DEF DraftsAimNext
  <1>14. lineage' = LineageAfterMerge(S, v)
    BY DEF CommitMerge
  <1>15. /\ lineage' \in [Project -> LineageRecord]
         /\ \A p \in Project : \A w, x \in lineage'[p].leaf : w = x
         /\ \A p \in S : lineage'[p].leaf = {v}
    BY <1>1, <1>3, <1>14, MergeLineage
  <1>16. OfficialSnapshotBooked' /\ LeafIsOfficial'
    BY <1>3, <1>6, <1>7, <1>20, <1>15 DEF OfficialSnapshotBooked, LeafIsOfficial
  <1>17. version' \in [VersionNo -> [status : {"none", "completed", "deprecated"},
                                     snapshot : SUBSET Project]]
    BY <1>1, <1>3, <1>5 DEF TypeOK
  <1>18. /\ revision' \in RoundRecord /\ newerSibling' \in BOOLEAN
         /\ UNCHANGED <<part3File, mergedFile>>
    BY DEF CommitMerge, RoundRecord, fileVars
  <1>19. TypeOK'
    BY <1>1, <1>11, <1>12, <1>20, <1>15, <1>17, <1>18 DEF TypeOK, LineageRecord, RequestsInOrder, Row
  <1> QED
    BY <1>10, <1>11, <1>12, <1>16, <1>19 DEF Inductive, RequestsInOrder

\* Deprecating the official version keeps every number in use and leaves none
\* official.
LEMMA DeprecateEmptiesOfficial ==
    ASSUME Inductive, NEW v \in Completed, Deprecate(v)
    PROVE  /\ Published' = Published /\ Completed' = {} /\ MaxNumber' = MaxNumber
           /\ version' \in [VersionNo -> [status : {"none", "completed", "deprecated"},
                                          snapshot : SUBSET Project]]
           /\ \A w \in VersionNo : version'[w].snapshot = version[w].snapshot
           /\ v = MaxNumber
  <1>1. TypeOK /\ OfficialIsNewest /\ v \in VersionNo /\ version[v].status = "completed"
    BY DEF Inductive, Completed
  <1>2. Completed = {v} /\ v = MaxNumber
    BY <1>1 DEF OfficialIsNewest
  <1>3. version' = [version EXCEPT ![v] = [version[v] EXCEPT !.status = "deprecated"]]
    BY DEF Deprecate
  <1>4. \A w \in VersionNo : version[w] \in [status : {"none", "completed", "deprecated"},
                                             snapshot : SUBSET Project]
    BY <1>1 DEF TypeOK
  <1>5. \A w \in VersionNo :
           /\ version'[w].status = IF w = v THEN "deprecated" ELSE version[w].status
           /\ version'[w].snapshot = version[w].snapshot
    BY <1>1, <1>3, <1>4 DEF TypeOK
  <1>6. Published' = Published
    BY <1>1, <1>5 DEF Published
  <1>7. Completed' = {}
    BY <1>2, <1>5 DEF Completed
  <1>8. MaxNumber' = MaxNumber
    BY <1>6 DEF MaxNumber
  <1>9. [version[v] EXCEPT !.status = "deprecated"]
           \in [status : {"none", "completed", "deprecated"}, snapshot : SUBSET Project]
    BY <1>1, <1>4
  <1>10. version' \in [VersionNo -> [status : {"none", "completed", "deprecated"},
                                     snapshot : SUBSET Project]]
    BY <1>1, <1>3, <1>9 DEF TypeOK
  <1> QED
    BY <1>2, <1>5, <1>6, <1>7, <1>8, <1>10

\* Giving up the projects of the official version keeps the types and leaves one
\* leaf per project at most.
LEMMA UnbookTyped ==
    ASSUME Inductive, NEW v \in Completed, Unbook(v)
    PROVE  /\ project' \in [Project -> [status : ProjectStatus, isBooked : BOOLEAN,
                                        deleted : BOOLEAN, forked : BOOLEAN]]
           /\ \A p \in Project : project'[p].forked = project[p].forked
           /\ lineage' \in [Project -> LineageRecord]
           /\ \A p \in Project : \A w, x \in lineage'[p].leaf : w = x
           /\ revision' \in RoundRecord /\ newerSibling' \in BOOLEAN
  <1>1. TypeOK /\ LeafIsOfficial
    BY DEF Inductive
  <1>2. lineage' = LineageAfterCancel(version[v].snapshot, v)
    BY DEF Unbook
  <1>3. /\ lineage' \in [Project -> LineageRecord]
        /\ \A p \in Project : \A w, x \in lineage'[p].leaf : w = x
    BY <1>1, <1>2, CancelLineage
  <1>4. project' = [p \in Project |-> [project[p] EXCEPT
                                          !.isBooked = @ /\ p \notin version[v].snapshot]]
    BY DEF Unbook, UnbookProjects
  <1>5. ASSUME NEW p \in Project
        PROVE  /\ [project[p] EXCEPT !.isBooked = @ /\ p \notin version[v].snapshot]
                     \in [status : ProjectStatus, isBooked : BOOLEAN,
                          deleted : BOOLEAN, forked : BOOLEAN]
               /\ project'[p].forked = project[p].forked
    <2>1. project[p] \in [status : ProjectStatus, isBooked : BOOLEAN,
                          deleted : BOOLEAN, forked : BOOLEAN]
      BY <1>1 DEF TypeOK
    <2>2. (project[p].isBooked /\ p \notin version[v].snapshot) \in BOOLEAN
      OBVIOUS
    <2> QED
      BY <1>4, <2>1, <2>2
  <1>6. project' \in [Project -> [status : ProjectStatus, isBooked : BOOLEAN,
                                  deleted : BOOLEAN, forked : BOOLEAN]]
    BY <1>4, <1>5
  <1>7. revision' \in RoundRecord /\ newerSibling' \in BOOLEAN
    BY DEF Unbook, OpenRound, RoundRecord
  <1> QED
    BY <1>3, <1>5, <1>6, <1>7

\* When the request that holds the official version deprecates it, no other
\* request holds a version.
LEMMA RetireKeepsRequests ==
    ASSUME Inductive, NEW r \in Request, request[r].version # 0,
           Deprecate(request[r].version), request' = [request EXCEPT ![r] = Idle],
           \A p \in Project : project'[p].forked = project[p].forked
    PROVE  RequestsInOrder'
  <1> DEFINE v == request[r].version
  <1>1. /\ TypeOK /\ RequestsAimNext /\ NumbersDense /\ LockedIsOfficial /\ ForksKnown
        /\ OfficialIsNewest /\ v \in Completed
    BY DEF Inductive, LockedIsOfficial
  <1>2. /\ Completed' = {} /\ MaxNumber' = MaxNumber /\ Completed = {v}
        /\ \A w \in VersionNo : version'[w].snapshot = version[w].snapshot
    BY <1>1, DeprecateEmptiesOfficial DEF OfficialIsNewest
  <1>3. \A s \in Request : request'[s] = IF s = r THEN Idle ELSE request[s]
    BY <1>1 DEF TypeOK
  <1>4. /\ Idle \in RequestRecord /\ Idle.new.target = 0 /\ Idle.version = 0
        /\ Idle.doomed = {} /\ Idle.kind = "idle"
    BY ConstantRecords DEF Idle, NoDraft
  <1>5. "idle" \notin DraftKind \cup CorrectKind \cup {"cancel", "reset"}
    BY DEF DraftKind, SavingKind, Part3Kind, CorrectKind
  <1>6. request' \in [Request -> RequestRecord]
    BY <1>1, <1>4 DEF TypeOK
  <1>7. MaxNumber \in 0..MaxVersion
    BY <1>1, MaxNumberTyped
  <1>8. RequestsAimNext'
    BY <1>1, <1>2, <1>3, <1>4, <1>5, <1>7, ConstantsAssumption DEF RequestsAimNext
  <1>9. \A s \in Request \ {r} : /\ request[s].version = 0
                                 /\ request[s].kind \notin CorrectKind \cup {"cancel"}
    BY <1>1, <1>2 DEF LockedIsOfficial
  <1>10. LockedIsOfficial'
    BY <1>3, <1>4, <1>5, <1>9 DEF LockedIsOfficial
  <1>11. ForksKnown'
    <2> SUFFICES ASSUME NEW s \in Request
                 PROVE  (ForkedAmong(Checked(request[s])))' \subseteq request'[s].late
      BY DEF ForksKnown
    <2>1. CASE s = r
      <3>1. (Checked(request[s]))' = {}
        BY <1>3, <1>4, <1>5, <2>1 DEF Checked
      <3> QED
        BY <3>1 DEF ForkedAmong
    <2>2. CASE s # r
      <3>1. request'[s] = request[s] /\ request[s].kind \notin {"cancel", "reset"}
        BY <1>3, <1>9, <2>2 DEF CorrectKind
      <3>2. (Checked(request[s]))' = Checked(request[s])
        BY <3>1 DEF Checked
      <3>3. Checked(request[s]) \subseteq Project
        BY <1>1, CheckedTyped DEF RequestsInOrder, TypeOK
      <3>4. ForkedAmong(Checked(request[s])) \subseteq request[s].late
        BY <1>1 DEF ForksKnown
      <3> QED
        BY <3>1, <3>2, <3>3, <3>4 DEF ForkedAmong
    <2> QED
      BY <2>1, <2>2
  <1> QED
    BY <1>6, <1>8, <1>10, <1>11 DEF RequestsInOrder

\* cancelPublishedVersion retires the last version, which leaves none official.
LEMMA CancelKeepsInductive ==
    ASSUME Inductive, NEW r \in Request, CommitCancel(r)
    PROVE  Inductive'
  <1> DEFINE v == request[r].version
  <1>1. /\ TypeOK /\ NumbersDense /\ DraftsAimNext /\ OfficialIsNewest
        /\ v # 0 /\ v \in Completed
    BY DEF Inductive, CommitCancel, LockedIsOfficial
  <1>2. /\ Deprecate(v) /\ Unbook(v) /\ UNCHANGED <<draft, part3File, mergedFile>>
        /\ request' = [request EXCEPT ![r] = Idle]
    BY DEF CommitCancel, fileVars
  <1>3. /\ Published' = Published /\ Completed' = {} /\ MaxNumber' = MaxNumber
        /\ version' \in [VersionNo -> [status : {"none", "completed", "deprecated"},
                                       snapshot : SUBSET Project]]
    BY <1>1, <1>2, DeprecateEmptiesOfficial
  <1>4. RequestsInOrder'
    BY <1>1, <1>2, UnbookTyped, RetireKeepsRequests
  <1>5. TypeOK'
    BY <1>1, <1>2, <1>3, <1>4, UnbookTyped DEF TypeOK, LineageRecord, RequestsInOrder
  <1>6. DraftsAimNext'
    BY <1>1, <1>2, <1>3 DEF DraftsAimNext
  <1>7. NumbersDense' /\ OfficialIsNewest' /\ OfficialSnapshotBooked'
    BY <1>1, <1>3 DEF NumbersDense, OfficialIsNewest, OfficialSnapshotBooked
  <1>8. LeafIsOfficial'
    BY <1>1, <1>2, <1>3, UnbookTyped DEF LeafIsOfficial
  <1> QED
    BY <1>4, <1>5, <1>6, <1>7, <1>8 DEF Inductive, RequestsInOrder

\* correct retires the last version and opens a draft that aims no further than
\* the number after it.
LEMMA CorrectKeepsInductive ==
    ASSUME Inductive, NEW r \in Request, CommitCorrect(r)
    PROVE  Inductive'
  <1> DEFINE q == request[r]
             v == q.version
  <1>1. /\ TypeOK /\ RequestsAimNext /\ NumbersDense /\ DraftsAimNext /\ OfficialIsNewest
        /\ LeafIsOfficial /\ v # 0 /\ v \in Completed
        /\ q.kind \in DraftKind /\ q.kind \in CorrectKind
    BY DEF Inductive, CommitCorrect, LockedIsOfficial, DraftKind
  <1>2. /\ Deprecate(v) /\ mergedFile' = mergedFile
        /\ request' = [request EXCEPT ![r] = Idle]
        /\ draft' = [draft EXCEPT ![q.row] = q.new] /\ CopyPart3(q)
    BY DEF CommitCorrect
  <1>3. /\ Published' = Published /\ Completed' = {} /\ MaxNumber' = MaxNumber
        /\ version' \in [VersionNo -> [status : {"none", "completed", "deprecated"},
                                       snapshot : SUBSET Project]]
    BY <1>1, <1>2, DeprecateEmptiesOfficial
  <1>4. /\ project' \in [Project -> [status : ProjectStatus, isBooked : BOOLEAN,
                                     deleted : BOOLEAN, forked : BOOLEAN]]
        /\ \A p \in Project : project'[p].forked = project[p].forked
        /\ lineage' \in [Project -> LineageRecord]
        /\ \A p \in Project : \A w, x \in lineage'[p].leaf : w = x
        /\ revision' \in RoundRecord /\ newerSibling' \in BOOLEAN
    <2>1. CASE q.kind = "reset"
      <3>1. Unbook(v)
        BY <2>1 DEF CommitCorrect
      <3> QED
        BY <1>1, <3>1, UnbookTyped
    <2>2. CASE q.kind # "reset"
      <3>1. UNCHANGED <<revision, newerSibling, project, lineage>>
        BY <2>2 DEF CommitCorrect
      <3> QED
        BY <1>1, <3>1 DEF TypeOK, LineageRecord, LeafIsOfficial
    <2> QED
      BY <2>1, <2>2
  <1>5. RequestsInOrder'
    BY <1>1, <1>2, <1>4, RetireKeepsRequests
  <1>6. /\ q.new \in DraftRecord /\ q.row \in DraftRow
        /\ q.new.target \in VersionNo /\ q.new.target <= MaxNumber + 1
    BY <1>1 DEF TypeOK, RequestRecord, RequestsAimNext
  <1>7. draft' \in [DraftRow -> DraftRecord]
    BY <1>1, <1>2, <1>6 DEF TypeOK
  <1>8. \A d \in DraftRow : draft'[d] = IF d = q.row THEN q.new ELSE draft[d]
    BY <1>1, <1>2 DEF TypeOK
  <1>9. DraftsAimNext'
    BY <1>1, <1>3, <1>6, <1>8 DEF DraftsAimNext
  <1>10. part3File' \in [VersionNo -> SUBSET Project]
    BY <1>1, <1>2, CopyTyped
  <1>11. TypeOK'
    BY <1>1, <1>2, <1>3, <1>4, <1>5, <1>7, <1>10 DEF TypeOK, LineageRecord, RequestsInOrder
  <1>12. NumbersDense' /\ OfficialIsNewest' /\ OfficialSnapshotBooked'
    BY <1>1, <1>3 DEF NumbersDense, OfficialIsNewest, OfficialSnapshotBooked
  <1>13. LeafIsOfficial'
    BY <1>3, <1>4 DEF LeafIsOfficial
  <1> QED
    BY <1>5, <1>9, <1>11, <1>12, <1>13 DEF Inductive, RequestsInOrder

(*****************************************************************************)
(* The inductive invariant.                                                  *)
(*****************************************************************************)

\* The strengthened invariant holds of a revision without a book.
LEMMA InductiveInit == Init => Inductive
  <1> SUFFICES ASSUME Init PROVE Inductive
    OBVIOUS
  <1>1. TypeOK
    BY TypeInit
  <1>2. Published = {} /\ Completed = {}
    BY DEF Init, Published, Completed
  <1>3. Published = 1..0 /\ 0 \in 0..MaxVersion
    BY <1>2, ConstantsAssumption
  <1>4. NumbersDense /\ MaxNumber = 0
    BY <1>2, <1>3 DEF NumbersDense, MaxNumber
  <1>5. OfficialIsNewest /\ OfficialSnapshotBooked
    BY <1>2 DEF OfficialIsNewest, OfficialSnapshotBooked
  <1>6. LeafIsOfficial
    BY <1>2 DEF Init, LeafIsOfficial
  <1>7. DraftsAimNext
    BY <1>4 DEF Init, DraftsAimNext, NoDraft
  <1>8. RequestsAimNext
    BY <1>4 DEF Init, RequestsAimNext, Idle, NoDraft, DraftKind, SavingKind, Part3Kind,
       CorrectKind
  <1>9. LockedIsOfficial
    BY DEF Init, LockedIsOfficial, Idle, CorrectKind
  <1>10. ForksKnown
    BY DEF Init, ForksKnown, ForkedAmong, Checked, Idle
  <1> QED
    BY <1>1, <1>4, <1>5, <1>6, <1>7, <1>8, <1>9, <1>10 DEF Inductive

\* The steps in which the book does not move.
QuietStep ==
    /\ Next
    /\ \A r \in Request : ~CommitMerge(r) /\ ~CommitCancel(r) /\ ~CommitCorrect(r)

\* Every step but the commit of a merge, a cancel or a correction leaves the book
\* alone: no project loses its booked mark.
LEMMA OtherStepsKeepBook ==
    ASSUME Inductive, QuietStep
    PROVE  /\ version' = version /\ lineage' = lineage
           /\ \A p \in Project : project[p].isBooked => project'[p].isBooked
  <1>1. TypeOK
    BY DEF Inductive
  <1>2. ASSUME NEW r \in Request, Handler(r), ~CommitRemove(r), QuietStep
        PROVE  UNCHANGED <<version, lineage, project>>
    BY <1>2 DEF QuietStep, Handler, BeginCreate, BeginUpload, BeginGenerate, BeginReuse,
       BeginDiscard, BeginRestore, BeginMerge, BeginCancel, BeginCorrect, BeginRemove, Cascade,
       Render, Save, BeginRound, SaveRound, AbortMerge, AbortCorrect, bookVars
  <1>3. ASSUME NEW r \in Request, CommitRemove(r)
        PROVE  /\ version' = version /\ lineage' = lineage
               /\ \A p \in Project : project[p].isBooked => project'[p].isBooked
    <2>1. version' = version /\ lineage' = lineage
      BY <1>3 DEF CommitRemove, bookVars
    <2>2. ASSUME NEW p \in Project
          PROVE  project'[p].isBooked = project[p].isBooked
      <3>1. project[p] \in [status : ProjectStatus, isBooked : BOOLEAN,
                            deleted : BOOLEAN, forked : BOOLEAN]
        BY <1>1 DEF TypeOK
      <3>2. project'[p] = [project[p] EXCEPT !.deleted = @ \/ p \in request[r].doomed]
        BY <1>3 DEF CommitRemove
      <3> QED
        BY <3>1, <3>2
    <2> QED
      BY <2>1, <2>2
  <1>4. ASSUME NEW d \in DraftRow, Purge(d)
        PROVE  UNCHANGED <<version, lineage, project>>
    BY <1>4 DEF Purge, bookVars
  <1>5. CASE Environment
    <2>1. version' = version /\ lineage' = lineage
      BY <1>5 DEF Environment, StatusChange, Fork, SiblingBook, bookVars
    <2>2. ASSUME NEW x \in Project, project[x].isBooked
          PROVE  project'[x].isBooked
      <3>1. ASSUME NEW p \in Project, NEW st \in ProjectStatus, StatusChange(p, st)
            PROVE  project'[x].isBooked
        BY <1>1, <2>2, <3>1 DEF StatusChange, TypeOK
      <3>2. ASSUME NEW p \in Forkable, Fork(p)
            PROVE  project'[x].isBooked
        BY <1>1, <2>2, <3>2 DEF Fork, TypeOK
      <3>3. CASE SiblingBook
        BY <2>2, <3>3 DEF SiblingBook
      <3> QED
        BY <1>5, <3>1, <3>2, <3>3 DEF Environment
    <2> QED
      BY <2>1, <2>2
  <1> QED
    BY <1>2, <1>3, <1>4, <1>5 DEF QuietStep, Next

\* No such step makes a row aim too far or overlooks a fork that is not late.
LEMMA RowsNext ==
    ASSUME Inductive, QuietStep
    PROVE  TypeOK' /\ DraftsAimNext' /\ RequestsInOrder'
  <1>1. ASSUME NEW r \in Request, Handler(r)
        PROVE  TypeOK' /\ DraftsAimNext' /\ RequestsInOrder'
    <2>1. ASSUME NEW d \in DraftRow, BeginCreate(r, d)
          PROVE  TypeOK' /\ DraftsAimNext' /\ RequestsInOrder'
      BY <2>1, CreateKeepsRows
    <2>2. ASSUME NEW d \in DraftRow,
                 \/ \E part \in FrontPart : BeginUpload(r, d, part)
                 \/ BeginGenerate(r, d)
                 \/ \E part \in Part, from \in VersionNo : BeginReuse(r, d, part, from)
                 \/ BeginDiscard(r, d)
                 \/ BeginRestore(r, d)
                 \/ BeginMerge(r, d)
          PROVE  TypeOK' /\ DraftsAimNext' /\ RequestsInOrder'
      BY <2>2, BeginKeepsRows
    <2>3. ASSUME NEW d \in DraftRow, NEW v \in VersionNo, NEW part \in Part,
                 NEW reused \in SUBSET Part, BeginCorrect(r, v, part, reused, d)
          PROVE  TypeOK' /\ DraftsAimNext' /\ RequestsInOrder'
      BY <2>3, BeginCorrectKeepsRows
    <2>4. CASE Save(r)
      BY <2>4, SaveKeepsRows
    <2>5. CASE Render(r)
      BY <2>5, RenderKeepsRows
    <2>6. CASE Cascade(r)
      BY <2>6, CascadeKeepsRows
    <2>7. CASE SaveRound(r) \/ AbortMerge(r) \/ AbortCorrect(r) \/ CommitRemove(r)
      BY <2>7, EndsKeepRows
    <2>8. CASE \/ \E open \in BOOLEAN : BeginRound(r, open)
               \/ \E p \in Project : BeginRemove(r, p)
               \/ \E v \in VersionNo : BeginCancel(r, v)
      BY <2>8, BeginOthersKeepsRows
    <2> QED
      BY <1>1, <2>1, <2>2, <2>3, <2>4, <2>5, <2>6, <2>7, <2>8 DEF Handler, QuietStep
  <1>2. CASE (\E d \in DraftRow : Purge(d)) \/ Environment
    BY <1>2, EnvironmentKeepsRows
  <1> QED
    BY <1>1, <1>2 DEF Next, QuietStep

\* Every step preserves the strengthened invariant.
LEMMA InductiveNext == Inductive /\ [Next]_vars => Inductive'
  <1> SUFFICES ASSUME Inductive, [Next]_vars PROVE Inductive'
    OBVIOUS
  <1>1. CASE UNCHANGED vars
    <2>1. UNCHANGED <<revision, newerSibling, project, version, lineage, draft, part3File,
                      mergedFile, request>>
      BY <1>1 DEF vars, bookVars, fileVars
    <2>2. MaxNumber' = MaxNumber
      BY <2>1 DEF MaxNumber, Published
    <2>3. TypeOK'
      BY <2>1 DEF Inductive, TypeOK
    <2>4. DraftsAimNext' /\ RequestsAimNext'
      BY <2>1, <2>2 DEF Inductive, DraftsAimNext, RequestsAimNext
    <2>5. LockedIsOfficial' /\ ForksKnown'
      BY <2>1 DEF Inductive, LockedIsOfficial, Completed, ForksKnown, ForkedAmong, Checked
    <2>6. NumbersDense' /\ OfficialIsNewest' /\ OfficialSnapshotBooked' /\ LeafIsOfficial'
      BY <2>1, BookFrame
    <2> QED
      BY <2>3, <2>4, <2>5, <2>6 DEF Inductive
  <1>2. ASSUME NEW r \in Request, CommitMerge(r)
        PROVE  Inductive'
    BY <1>2, CommitMergeKeepsInductive
  <1>3. ASSUME NEW r \in Request, CommitCancel(r)
        PROVE  Inductive'
    BY <1>3, CancelKeepsInductive
  <1>4. ASSUME NEW r \in Request, CommitCorrect(r)
        PROVE  Inductive'
    BY <1>4, CorrectKeepsInductive
  <1>5. CASE QuietStep
    <2>1. TypeOK' /\ DraftsAimNext' /\ RequestsInOrder'
      BY <1>5, RowsNext
    <2>2. NumbersDense' /\ OfficialIsNewest' /\ OfficialSnapshotBooked' /\ LeafIsOfficial'
      BY <1>5, OtherStepsKeepBook, BookFrame
    <2> QED
      BY <2>1, <2>2 DEF Inductive, RequestsInOrder
  <1> QED
    BY <1>1, <1>2, <1>3, <1>4, <1>5 DEF QuietStep

\* Numbers are dense, rows aim at most one past them, and the official version
\* is the last one, booked and leaf: so after every sequence of requests, however
\* they overlap.
THEOREM InductiveInvariant == Spec => []Inductive
  <1> QED
    BY InductiveInit, InductiveNext, PTL DEF Spec

\* No value ever leaves its column: in particular the target of a draft never
\* passes the bound on version numbers.
THEOREM TypeCorrect == Spec => []TypeOK
  <1>1. Inductive => TypeOK
    BY DEF Inductive
  <1> QED
    BY <1>1, InductiveInvariant, PTL

\* However the requests interleave, the official version is the newest one and
\* the numbers have no gap.
THEOREM OfficialVersionIsNewest == Spec => []OfficialIsNewest
  <1>1. Inductive => OfficialIsNewest
    BY DEF Inductive
  <1> QED
    BY <1>1, InductiveInvariant, PTL

\* The projects of the official version stay booked, whatever is cancelled,
\* corrected or saved late.
THEOREM OfficialProjectsStayBooked == Spec => []OfficialSnapshotBooked
  <1>1. Inductive => OfficialSnapshotBooked
    BY DEF Inductive
  <1> QED
    BY <1>1, InductiveInvariant, PTL

\* A project never has two current leaves, and that of an officially printed
\* project is the official version.
THEOREM LeafIsTheOfficialVersion == Spec => []LeafIsOfficial
  <1>1. Inductive => LeafIsOfficial
    BY DEF Inductive
  <1> QED
    BY <1>1, InductiveInvariant, PTL

(*****************************************************************************)
(* The book as its readers see it.                                           *)
(*****************************************************************************)

\* A revision without versions is a book without versions.
LEMMA BookInitially == Init => Book!BookInit
  <1> SUFFICES ASSUME Init PROVE Book!BookInit
    OBVIOUS
  <1>1. Published = {} /\ Completed = {}
    BY DEF Init, Published, Completed
  <1>2. MaxNumber = 0 /\ Official = 0
    BY <1>1 DEF MaxNumber, Official
  <1>3. [v \in VersionNo |-> version[v].snapshot] = [v \in Book!Number |-> {}]
    BY DEF Init, VersionNo, Book!Number
  <1> QED
    BY <1>2, <1>3 DEF Book!BookInit

\* A committing merge publishes; a cancel or a correction retires the official
\* version; nothing else shows.
LEMMA BookStep ==
    ASSUME Inductive, [Next]_vars
    PROVE  [Book!BookNext]_(Book!bookVars)
  <1> DEFINE printed == [w \in VersionNo |-> version[w].snapshot]
  <1>0. /\ TypeOK /\ NumbersDense /\ OfficialIsNewest
        /\ MaxNumber \in 0..MaxVersion
    BY MaxNumberTyped DEF Inductive
  <1>1. ASSUME version' = version
        PROVE  UNCHANGED Book!bookVars
    BY <1>1 DEF Book!bookVars, MaxNumber, Official, Published, Completed
  <1>2. ASSUME NEW r \in Request, CommitMerge(r)
        PROVE  Book!Publish
    <2> DEFINE v == request[r].new.target
               S == request[r].new.snapshot
    <2>1. /\ v = MaxNumber + 1 /\ v \in VersionNo /\ S # {} /\ S \in SUBSET Project
      BY <1>2, MergeTargetIsNext DEF DraftRecord
    <2>2. Completed = {}
      BY <1>2 DEF CommitMerge, CanCommit
    <2>3. \A w \in VersionNo :
             version'[w] = IF w = v THEN [status |-> "completed", snapshot |-> S]
                           ELSE version[w]
      BY <1>0, <1>2 DEF CommitMerge, TypeOK
    <2>4. Completed' = {v}
      BY <2>1, <2>2, <2>3 DEF Completed
    <2>5. Inductive'
      BY <1>2, CommitMergeKeepsInductive
    <2>6. MaxNumber' = v
      BY <2>4, <2>5 DEF Inductive, OfficialIsNewest
    <2>7. Official = 0 /\ Official' = v
      BY <2>2, <2>4, <2>6 DEF Official
    <2>8. MaxNumber < MaxVersion
      BY <1>0, <2>1, ConstantsAssumption DEF VersionNo
    <2>9. printed' = [printed EXCEPT ![v] = S]
      <3>1. \A w \in VersionNo :
               version'[w].snapshot = IF w = v THEN S ELSE version[w].snapshot
        BY <2>3
      <3>2. [printed EXCEPT ![v] = S]
               = [w \in VersionNo |-> IF w = v THEN S ELSE version[w].snapshot]
        BY <2>1
      <3> QED
        BY <3>1, <3>2
    <2> QED
      BY <2>1, <2>6, <2>7, <2>8, <2>9 DEF Book!Publish
  <1>3. ASSUME NEW v \in Completed, Deprecate(v)
        PROVE  Book!Retire
    <2>1. /\ Completed' = {} /\ MaxNumber' = MaxNumber /\ v = MaxNumber
          /\ \A w \in VersionNo : version'[w].snapshot = version[w].snapshot
      BY <1>3, DeprecateEmptiesOfficial
    <2>2. v # 0 /\ Official = MaxNumber /\ Official' = 0
      BY <2>1, ConstantsAssumption DEF Official, Completed, VersionNo
    <2>3. printed' = printed
      BY <2>1
    <2> QED
      BY <2>1, <2>2, <2>3 DEF Book!Retire
  <1>4. ASSUME NEW r \in Request, CommitCancel(r) \/ CommitCorrect(r)
        PROVE  Book!Retire
    <2>1. request[r].kind \in CorrectKind \cup {"cancel"} /\ Deprecate(request[r].version)
      BY <1>4 DEF CommitCancel, CommitCorrect
    <2>2. request[r].version \in Completed
      BY <2>1 DEF Inductive, LockedIsOfficial
    <2> QED
      BY <1>3, <2>1, <2>2
  <1>5. CASE QuietStep
    BY <1>1, <1>5, OtherStepsKeepBook
  <1>6. CASE UNCHANGED vars
    BY <1>1, <1>6 DEF vars, bookVars
  <1> QED
    BY <1>2, <1>4, <1>5, <1>6 DEF Book!BookNext, QuietStep

\* Refinement: with all its requests, files and drafts the service is a published
\* book - one official version at most, always the newest, numbers without gaps
\* and project lists that never change.
THEOREM ServiceIsPublishedBook == Spec => IsPublishedBook
  <1>1. Init => Book!BookInit
    BY BookInitially
  <1>2. Inductive /\ [Next]_vars => [Book!BookNext]_(Book!bookVars)
    BY BookStep
  <1> QED
    BY <1>1, <1>2, InductiveInvariant, PTL DEF Spec, IsPublishedBook, Book!BookSpec

(*****************************************************************************)
(* Forked projects.                                                          *)
(*****************************************************************************)

\* An un-booking spares a project outside the version's list.
LEMMA UnbookSparesOthers ==
    ASSUME TypeOK, NEW v \in VersionNo, Unbook(v),
           NEW x \in Project, x \notin version[v].snapshot
    PROVE  project'[x].isBooked = project[x].isBooked /\ project'[x].deleted = project[x].deleted
  <1>1. project[x] \in [status : ProjectStatus, isBooked : BOOLEAN,
                        deleted : BOOLEAN, forked : BOOLEAN]
    BY DEF TypeOK
  <1>2. project'[x] = [project[x] EXCEPT !.isBooked = @ /\ x \notin version[v].snapshot]
    BY DEF Unbook, UnbookProjects
  <1>3. (project[x].isBooked /\ x \notin version[v].snapshot) = project[x].isBooked
    BY <1>1
  <1> QED
    BY <1>1, <1>2, <1>3

\* A request past its guard touches no forked project that it could have seen.
LEMMA CommitsSpareForked ==
    ASSUME Inductive, NEW r \in Request, NEW x \in Project,
           project[x].forked, x \notin request[r].late,
           CommitMerge(r) \/ CommitCancel(r) \/ CommitCorrect(r) \/ CommitRemove(r)
    PROVE  /\ project[x].isBooked => project'[x].isBooked
           /\ ~project[x].deleted => ~project'[x].deleted
  <1>1. TypeOK /\ ForkedAmong(Checked(request[r])) \subseteq request[r].late
    BY DEF Inductive, ForksKnown
  <1>2. x \notin Checked(request[r])
    BY <1>1 DEF ForkedAmong
  <1>3. project[x] \in [status : ProjectStatus, isBooked : BOOLEAN,
                        deleted : BOOLEAN, forked : BOOLEAN]
    BY <1>1 DEF TypeOK
  <1>4. CASE CommitMerge(r)
    <2> DEFINE S == request[r].new.snapshot
    <2>1. x \notin request[r].doomed
      BY <1>2 DEF Checked
    <2>2. project'[x] = [project[x] EXCEPT !.deleted = @ \/ x \in request[r].doomed,
                                           !.isBooked = @ \/ x \in S]
      BY <1>4 DEF CommitMerge
    <2>3. /\ project'[x].deleted = (project[x].deleted \/ x \in request[r].doomed)
          /\ project'[x].isBooked = (project[x].isBooked \/ x \in S)
      BY <1>3, <2>2
    <2> QED
      BY <2>1, <2>3
  <1>5. CASE CommitRemove(r)
    <2>1. x \notin request[r].doomed
      BY <1>2 DEF Checked
    <2>2. project'[x] = [project[x] EXCEPT !.deleted = @ \/ x \in request[r].doomed]
      BY <1>5 DEF CommitRemove
    <2>3. /\ project'[x].deleted = (project[x].deleted \/ x \in request[r].doomed)
          /\ project'[x].isBooked = project[x].isBooked
      BY <1>3, <2>2
    <2> QED
      BY <2>1, <2>3
  <1>6. ASSUME Unbook(request[r].version), request[r].kind \in {"cancel", "reset"}
        PROVE  project'[x].isBooked = project[x].isBooked /\ project'[x].deleted = project[x].deleted
    <2>1. x \notin version[request[r].version].snapshot
      BY <1>2, <1>6 DEF Checked
    <2>2. request[r].version \in VersionNo
      BY <1>6 DEF Inductive, LockedIsOfficial, Completed, CorrectKind
    <2> QED
      BY <1>1, <1>6, <2>1, <2>2, UnbookSparesOthers
  <1>7. CASE CommitCancel(r)
    BY <1>6, <1>7 DEF CommitCancel
  <1>8. CASE CommitCorrect(r)
    BY <1>6, <1>8 DEF CommitCorrect
  <1> QED
    BY <1>4, <1>5, <1>7, <1>8

\* Neither a cascade nor a removal, a cancel or a correction touches a project
\* that a later book had forked when the request looked for descendants.
THEOREM ForkedSourcesAreKept == Spec => ForkedSourceKept
  <1> DEFINE Kept == \A p \in Project : project[p].forked /\ ~ForkedLate(p) =>
                        /\ project[p].isBooked => project'[p].isBooked
                        /\ ~project[p].deleted => ~project'[p].deleted
  <1>1. Inductive /\ [Next]_vars => [Kept]_vars
    <2> SUFFICES ASSUME Inductive, Next, NEW x \in Project, project[x].forked, ~ForkedLate(x)
                 PROVE  /\ project[x].isBooked => project'[x].isBooked
                        /\ ~project[x].deleted => ~project'[x].deleted
      BY DEF vars
    <2> DEFINE Safe == /\ project[x].isBooked => project'[x].isBooked
                       /\ ~project[x].deleted => ~project'[x].deleted
    <2>0. TypeOK
      BY DEF Inductive
    <2>1. ASSUME project' = project
          PROVE  Safe
      BY <2>1
    <2>2. ASSUME NEW r \in Request,
                 CommitMerge(r) \/ CommitCancel(r) \/ CommitCorrect(r) \/ CommitRemove(r)
          PROVE  Safe
      <3>1. x \notin request[r].late
        BY DEF ForkedLate
      <3> QED
        BY <2>2, <3>1, CommitsSpareForked
    <2>3. ASSUME NEW p \in Project, NEW st \in ProjectStatus, StatusChange(p, st)
          PROVE  Safe
      BY <2>0, <2>3 DEF StatusChange, TypeOK
    <2>4. ASSUME NEW p \in Forkable, Fork(p)
          PROVE  Safe
      BY <2>0, <2>4 DEF Fork, TypeOK
    <2>5. ASSUME NEW r \in Request, Handler(r),
                 ~CommitMerge(r), ~CommitCancel(r), ~CommitCorrect(r), ~CommitRemove(r)
          PROVE  project' = project
      BY <2>5 DEF Handler, BeginCreate, BeginUpload, BeginGenerate, BeginReuse, BeginDiscard,
         BeginRestore, BeginMerge, BeginCancel, BeginCorrect, BeginRemove, Cascade, Render, Save,
         BeginRound, SaveRound, AbortMerge, AbortCorrect
    <2>6. ASSUME SiblingBook \/ \E d \in DraftRow : Purge(d)
          PROVE  project' = project
      BY <2>6 DEF SiblingBook, Purge
    <2> QED
      BY <2>1, <2>2, <2>3, <2>4, <2>5, <2>6 DEF Next, Environment
  <1> QED
    BY <1>1, InductiveInvariant, PTL DEF Spec, ForkedSourceKept
===============================================================================
