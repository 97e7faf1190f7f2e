----------------------- MODULE SupplementAssemblyProofs -----------------------
(* The theorems of SupplementAssembly, for any number of projects, draft     *)
(* rows, requests and versions.                                              *)
EXTENDS SupplementAssembly, TLAPS

ProjectRow == [status : {"working", "approved"}, isBooked : BOOLEAN,
               deleted : BOOLEAN, forked : BOOLEAN]
VersionRow == [status : {"none", "completed", "deprecated"}, list : SUBSET Project]
LineageRow == [leaf : 0..MaxVersion, parent : [VersionNo -> 0..MaxVersion]]

\* The highest of the numbers 1..n is n: MaxNumber is what its comment says.
LEMMA HighestIsLast ==
    ASSUME NEW n \in 0..MaxVersion, Published = 1..n
    PROVE  MaxNumber = n
  <1>1. CASE n = 0
    BY <1>1 DEF MaxNumber
  <1>2. CASE n # 0
    <2>1. n \in Published /\ (\A w \in Published : w <= n)
      BY <1>2, ConstantsAssumption
    <2>2. \A v \in Published : (\A w \in Published : w <= v) => v = n
      BY <2>1, ConstantsAssumption
    <2> QED
      BY <1>2, <2>1, <2>2 DEF MaxNumber
  <1> QED
    BY <1>1, <1>2

\* While the published numbers are dense, computeNextVersion is their count plus one.
LEMMA HighestTyped ==
    ASSUME NumbersDense
    PROVE  MaxNumber \in 0..MaxVersion /\ Published = 1..MaxNumber
  BY HighestIsLast DEF NumbersDense

\* The empty rows have their types, and a draft recomputed from its parts too.
LEMMA ConstantRows ==
    /\ NoDraft \in DraftRecord
    /\ Idle \in RequestRecord /\ Idle.kind = "idle" /\ Idle.version = 0
    /\ Idle.doomed = {} /\ Idle.late = {}
    /\ \A supplied \in SUBSET Part : WithStatus(supplied) \in DraftRecord
  <1>1. NoDraft \in DraftRecord
    BY DEF NoDraft, DraftRecord, DraftStatus, ActiveStatus
  <1>2. /\ Idle \in RequestRecord /\ Idle.kind = "idle" /\ Idle.version = 0
        /\ Idle.doomed = {} /\ Idle.late = {}
    BY <1>1, ConstantsAssumption DEF Idle, RequestRecord, RequestKind, Part
  <1>3. \A supplied \in SUBSET Part : WithStatus(supplied) \in DraftRecord
    BY DEF WithStatus, DraftRecord, DraftStatus, ActiveStatus
  <1> QED
    BY <1>1, <1>2, <1>3

(*****************************************************************************)
(* The initial state.                                                        *)
(*****************************************************************************)

\* A round without a book satisfies the invariant.
LEMMA SupplementInit == Init => Inductive
  <1> SUFFICES ASSUME Init PROVE Inductive
    OBVIOUS
  <1>1. /\ isBooked \in BOOLEAN /\ newerSibling \in BOOLEAN /\ undone \in BOOLEAN
        /\ project \in [Project -> ProjectRow]
        /\ version \in [VersionNo -> VersionRow]
        /\ folder \in [VersionNo -> SUBSET Part]
    BY DEF Init, ProjectRow, VersionRow
  <1>2. lineage \in [Project -> LineageRow]
    BY ConstantsAssumption DEF Init, LineageRow
  <1>3. draft \in [DraftRow -> DraftRecord] /\ request \in [Request -> RequestRecord]
    BY ConstantRows DEF Init
  <1>4. TypeOK
    BY <1>1, <1>2, <1>3 DEF TypeOK, ProjectRow, VersionRow, LineageRow
  <1>5. Published = {} /\ Completed = {}
    BY DEF Init, Published, Completed
  <1>6. NumbersDense
    BY <1>5, ConstantsAssumption DEF NumbersDense
  <1>7. \A r \in Request : request[r] = Idle
    BY DEF Init
  <1>8. MergesAlone
    BY <1>7, ConstantRows DEF MergesAlone
  <1>9. LockedIsOfficial
    BY <1>7, ConstantRows DEF LockedIsOfficial, CorrectKind
  <1>10. ForksKnown
    BY <1>7, ConstantRows DEF ForksKnown, ForkedAmong, Checked
  <1>11. ParentsListed /\ OfficialIsNewest /\ OfficialIsBooked /\ LeafIsOfficial
    BY <1>5 DEF Init, ParentsListed, OfficialIsNewest, OfficialIsBooked, LeafIsOfficial
  <1> QED
    BY <1>4, <1>6, <1>8, <1>9, <1>10, <1>11 DEF Inductive, LocksHold

(*****************************************************************************)
(* Requests that do not change the book.                                     *)
(*****************************************************************************)

\* What the strengthening says of the requests in flight.
RequestsInOrder ==
    /\ request \in [Request -> RequestRecord]
    /\ MergesAlone
    /\ LockedIsOfficial
    /\ ForksKnown

\* What a request looks for descendants of are projects.
LEMMA SlotTyped ==
    ASSUME TypeOK, NEW q \in RequestRecord,
           q.kind \in CorrectKind \cup {"cancel"} => q.version # 0,
           q.version # 0 => q.version \in Completed
    PROVE  Checked(q) \subseteq Project
  <1>1. ASSUME q.kind \in {"cancel", "reset"}
        PROVE  version[q.version].list \subseteq Project
    <2>1. q.version \in VersionNo
      BY <1>1 DEF Completed, CorrectKind
    <2> QED
      BY <2>1 DEF TypeOK
  <1> QED
    BY <1>1 DEF Checked, RequestRecord

LEMMA CheckedTyped ==
    ASSUME TypeOK, RequestsInOrder, NEW r \in Request
    PROVE  Checked(request[r]) \subseteq Project
  <1>1. /\ request[r] \in RequestRecord
        /\ request[r].kind \in CorrectKind \cup {"cancel"} => request[r].version # 0
        /\ request[r].version # 0 => request[r].version \in Completed
    BY DEF TypeOK, RequestsInOrder, LockedIsOfficial
  <1> QED
    BY <1>1, SlotTyped

\* A slot filled with a request that holds only locks nobody else holds, and that
\* has found no descendant of what it is about to un-book or delete.
LEMMA SlotKeepsRequests ==
    ASSUME TypeOK, RequestsInOrder,
           NEW r \in Request, NEW q \in RequestRecord,
           request' = [request EXCEPT ![r] = q],
           version' = version, \A p \in Project : project'[p].forked = project[p].forked,
           isBooked' = isBooked \/ ~RoundLocked,
           q.kind \in {"merge", "cascaded"} =>
              /\ ~isBooked' /\ q.list # {} /\ q.row \in DraftRow
              /\ q.number = NextVersion /\ NextVersion \in VersionNo
              /\ \A s \in Request \ {r} : request[s].kind \notin {"merge", "cascaded"},
           q.kind \in CorrectKind => q.version < MaxVersion /\ q.row \in DraftRow,
           q.kind \in CorrectKind \cup {"cancel"} => q.version # 0,
           q.version # 0 => /\ q.version \in Completed
                            /\ \A s \in Request \ {r} : request[s].version # q.version,
           ForkedAmong(Checked(q)) \subseteq q.late
    PROVE  RequestsInOrder'
  <1>1. request' \in [Request -> RequestRecord]
    BY DEF TypeOK
  <1>2. NextVersion' = NextVersion /\ Completed' = Completed
    BY DEF NextVersion, MaxNumber, Published, Completed
  <1>3. \A s \in Request : request'[s] = IF s = r THEN q ELSE request[s]
    BY DEF TypeOK
  <1>4. MergesAlone'
    BY <1>2, <1>3 DEF MergesAlone, RequestsInOrder, RoundLocked
  <1>5. LockedIsOfficial'
    BY <1>2, <1>3 DEF LockedIsOfficial, RequestsInOrder
  <1>6. Checked(q) \subseteq Project
    BY SlotTyped
  <1>7. ForksKnown'
    <2> SUFFICES ASSUME NEW s \in Request
                 PROVE  (ForkedAmong(Checked(request[s])))' \subseteq request'[s].late
      BY DEF ForksKnown
    <2>1. CASE s = r
      <3>1. request'[s] = q
        BY <1>3, <2>1
      <3>2. Checked(q) \subseteq Project /\ (Checked(request[s]))' = Checked(q)
        BY <1>6, <3>1 DEF Checked
      <3> QED
        BY <3>1, <3>2 DEF ForkedAmong
    <2>2. CASE s # r
      <3>1. request'[s] = request[s] /\ ForkedAmong(Checked(request[s])) \subseteq request[s].late
        BY <1>3, <2>2 DEF ForksKnown, RequestsInOrder
      <3>2. Checked(request[s]) \subseteq Project /\ (Checked(request[s]))' = Checked(request[s])
        BY <3>1, CheckedTyped DEF Checked
      <3> QED
        BY <3>1, <3>2 DEF ForkedAmong
    <2> QED
      BY <2>1, <2>2
  <1> QED
    BY <1>1, <1>4, <1>5, <1>7 DEF RequestsInOrder

\* A request that holds nothing and checks nothing is in nobody's way.
LEMMA PlainSlotKeepsRequests ==
    ASSUME TypeOK, RequestsInOrder,
           NEW r \in Request, NEW q \in RequestRecord,
           request' = [request EXCEPT ![r] = q],
           version' = version, \A p \in Project : project'[p].forked = project[p].forked,
           isBooked' = isBooked \/ ~RoundLocked,
           q.kind \in {"idle", "row", "part", "round"}, q.version = 0, q.doomed = {}
    PROVE  RequestsInOrder'
  <1>1. q.kind \notin {"merge", "cascaded"} /\ q.kind \notin {"cancel", "reset"}
    OBVIOUS
  <1>2. q.kind \notin CorrectKind /\ q.kind \notin CorrectKind \cup {"cancel"}
    BY DEF CorrectKind
  <1>3. ForkedAmong(Checked(q)) \subseteq q.late
    BY <1>1 DEF Checked, ForkedAmong
  <1> QED
    BY <1>1, <1>2, <1>3, SlotKeepsRequests

\* A request that ends leaves the others as they are.
LEMMA EndKeepsRequests ==
    ASSUME TypeOK, RequestsInOrder,
           NEW r \in Request, request' = [request EXCEPT ![r] = Idle],
           version' = version, \A p \in Project : project'[p].forked = project[p].forked,
           isBooked' = isBooked \/ ~RoundLocked
    PROVE  RequestsInOrder'
  <1>1. /\ Idle \in RequestRecord /\ Idle.kind \in {"idle", "row", "part", "round"}
        /\ Idle.version = 0 /\ Idle.doomed = {}
    BY ConstantRows
  <1> QED
    BY <1>1, PlainSlotKeepsRequests

\* A step that leaves the versions and the lineage alone, un-books no project and
\* owns up to un-booking the round, leaves the book as it was.
LEMMA SupplementFrame ==
    ASSUME Inductive, version' = version, lineage' = lineage,
           UNCHANGED <<isBooked, undone>> \/ (Completed # {} /\ ~undone' => isBooked'),
           \A p \in Project : project[p].isBooked => project'[p].isBooked
    PROVE  /\ NumbersDense' /\ ParentsListed'
           /\ OfficialIsNewest' /\ OfficialIsBooked' /\ LeafIsOfficial'
  <1>1. /\ Published' = Published /\ Completed' = Completed /\ MaxNumber' = MaxNumber
        /\ TypeOK /\ NumbersDense /\ ParentsListed
        /\ OfficialIsNewest /\ OfficialIsBooked /\ LeafIsOfficial
    BY DEF Published, Completed, MaxNumber, Inductive, LocksHold
  <1>2. NumbersDense' /\ OfficialIsNewest'
    BY <1>1 DEF NumbersDense, OfficialIsNewest
  <1>3. ParentsListed' /\ LeafIsOfficial'
    BY <1>1 DEF ParentsListed, LeafIsOfficial
  <1>4. \A v \in Completed : version[v].list \subseteq Project
    BY <1>1 DEF TypeOK, Completed
  <1>5. OfficialIsBooked'
    BY <1>1, <1>4 DEF OfficialIsBooked
  <1> QED
    BY <1>2, <1>3, <1>5

\* What such a step has to show for the rest of the invariant.
LEMMA QuietKeepsInductive ==
    ASSUME Inductive, version' = version, lineage' = lineage,
           UNCHANGED <<isBooked, undone>> \/ (Completed # {} /\ ~undone' => isBooked'),
           \A p \in Project : project[p].isBooked => project'[p].isBooked,
           isBooked' \in BOOLEAN, newerSibling' \in BOOLEAN, undone' \in BOOLEAN,
           project' \in [Project -> ProjectRow],
           draft' \in [DraftRow -> DraftRecord],
           folder' \in [VersionNo -> SUBSET Part],
           RequestsInOrder'
    PROVE  Inductive'
  <1>1. TypeOK
    BY DEF Inductive
  <1>2. TypeOK'
    BY <1>1 DEF TypeOK, RequestsInOrder, ProjectRow
  <1>3. /\ NumbersDense' /\ ParentsListed'
        /\ OfficialIsNewest' /\ OfficialIsBooked' /\ LeafIsOfficial'
    BY SupplementFrame
  <1> QED
    BY <1>2, <1>3 DEF Inductive, LocksHold, RequestsInOrder

\* The same for a step that moves nothing but the requests.
LEMMA ReadKeepsInductive ==
    ASSUME Inductive, UNCHANGED <<roundVars, bookVars, project, draft, folder>>,
           RequestsInOrder'
    PROVE  Inductive'
  <1>1. /\ UNCHANGED <<isBooked, newerSibling, undone, version, lineage>>
        /\ UNCHANGED <<project, draft, folder>> /\ TypeOK
    BY DEF roundVars, bookVars, Inductive
  <1>2. /\ isBooked' \in BOOLEAN /\ newerSibling' \in BOOLEAN /\ undone' \in BOOLEAN
        /\ project' \in [Project -> ProjectRow]
        /\ draft' \in [DraftRow -> DraftRecord]
        /\ folder' \in [VersionNo -> SUBSET Part]
    BY <1>1 DEF TypeOK, ProjectRow
  <1> QED
    BY <1>1, <1>2, QuietKeepsInductive

\* The parts of the invariant that most steps need.
LEMMA Parts ==
    ASSUME Inductive
    PROVE  TypeOK /\ RequestsInOrder /\ NumbersDense
  BY DEF Inductive, LocksHold, RequestsInOrder, TypeOK

\* The read half of every draft handler fills a slot with a typed request.
LEMMA DraftReadsKeepInductive ==
    ASSUME Inductive, NEW r \in Request, NEW d \in DraftRow,
           \/ BeginCreate(r, d)
           \/ \E part \in FrontPart : BeginUpload(r, d, part)
           \/ BeginGenerate(r, d)
           \/ \E part \in Part, from \in VersionNo : BeginReuse(r, d, part, from)
           \/ BeginDiscard(r, d)
           \/ BeginRestore(r, d)
    PROVE  Inductive'
  <1> DEFINE row == draft[d]
  <1>0. UNCHANGED <<roundVars, bookVars, project, draft, folder>>
    BY DEF BeginCreate, BeginUpload, BeginGenerate, BeginReuse, BeginDiscard, BeginRestore
  <1>1. row \in DraftRecord /\ TypeOK /\ RequestsInOrder
    BY Parts DEF TypeOK
  <1>2. ASSUME NEW q \in RequestRecord, request' = [request EXCEPT ![r] = q],
               q.kind \in {"row", "part"}, q.version = 0, q.doomed = {}
        PROVE  Inductive'
    <2>1. version' = version /\ isBooked' = isBooked /\ project' = project
      BY <1>0 DEF roundVars, bookVars
    <2>2. q.kind \in {"idle", "row", "part", "round"}
      BY <1>2
    <2>3. RequestsInOrder'
      BY <1>1, <1>2, <2>1, <2>2, PlainSlotKeepsRequests
    <2> QED
      BY <1>0, <2>3, ReadKeepsInductive
  <1>3. ASSUME NEW rec \in DraftRecord, BeginRow(r, d, rec)
        PROVE  Inductive'
    <2> DEFINE q == [Idle EXCEPT !.kind = "row", !.row = d, !.new = rec]
    <2>1. q \in RequestRecord /\ q.kind = "row" /\ q.version = 0 /\ q.doomed = {}
      BY ConstantRows DEF RequestRecord, RequestKind
    <2>2. request' = [request EXCEPT ![r] = q]
      BY <1>3 DEF BeginRow, Begin
    <2> HIDE DEF q
    <2> QED
      BY <1>2, <2>1, <2>2
  <1>4. ASSUME NEW part \in Part, BeginPart(r, d, part)
        PROVE  Inductive'
    <2> DEFINE rec == WithStatus(row.supplied \cup {part})
               q == [Idle EXCEPT !.kind = "part", !.row = d, !.part = part, !.new = rec]
    <2>1. rec \in DraftRecord
      BY <1>1, ConstantRows DEF DraftRecord
    <2>2. request' = [request EXCEPT ![r] = q]
      BY <1>4 DEF BeginPart, Begin
    <2> HIDE DEF rec
    <2>3. q \in RequestRecord /\ q.kind = "part" /\ q.version = 0 /\ q.doomed = {}
      BY <2>1, ConstantRows DEF RequestRecord, RequestKind
    <2> HIDE DEF q
    <2> QED
      BY <1>2, <2>2, <2>3
  <1>5. CASE BeginCreate(r, d)
    BY <1>3, <1>5, ConstantRows DEF BeginCreate
  <1>6. ASSUME NEW part \in FrontPart, BeginUpload(r, d, part)
        PROVE  Inductive'
    BY <1>4, <1>6 DEF BeginUpload, Part
  <1>7. CASE BeginGenerate(r, d)
    BY <1>4, <1>7 DEF BeginGenerate, Part
  <1>8. ASSUME NEW part \in Part, NEW from \in VersionNo, BeginReuse(r, d, part, from)
        PROVE  Inductive'
    BY <1>4, <1>8 DEF BeginReuse
  <1>9. CASE BeginDiscard(r, d)
    <2>1. [row EXCEPT !.status = "canceled"] \in DraftRecord
      BY <1>1 DEF DraftRecord, DraftStatus
    <2> QED
      BY <1>3, <1>9, <2>1 DEF BeginDiscard
  <1>10. CASE BeginRestore(r, d)
    <2>1. WithStatus(row.supplied) \in DraftRecord
      BY <1>1, ConstantRows DEF DraftRecord
    <2> QED
      BY <1>3, <1>10, <2>1 DEF BeginRestore
  <1> QED
    BY <1>5, <1>6, <1>7, <1>8, <1>9, <1>10

\* A request of the draft or of the round that ends, in whatever way.
LEMMA EndsKeepInductive ==
    ASSUME Inductive, NEW r \in Request,
           Save(r) \/ AbortMerge(r) \/ AbortCorrection(r) \/ SaveRound(r)
    PROVE  Inductive'
  <1>1. /\ TypeOK /\ RequestsInOrder /\ LockedIsOfficial
        /\ UNCHANGED <<version, lineage, project>>
        /\ request' = [request EXCEPT ![r] = Idle]
    BY Parts DEF RequestsInOrder, Save, AbortMerge, AbortCorrection, SaveRound, bookVars
  <1>2. /\ request[r].booked \in BOOLEAN /\ request[r].new \in DraftRecord
        /\ request[r].part \in Part
    BY <1>1 DEF TypeOK, RequestRecord
  <1>3. /\ isBooked' = isBooked \/ ~RoundLocked
        /\ UNCHANGED <<isBooked, undone>> \/ (Completed # {} /\ ~undone' => isBooked')
        /\ isBooked' \in BOOLEAN /\ newerSibling' \in BOOLEAN /\ undone' \in BOOLEAN
    BY <1>1, <1>2 DEF Save, AbortMerge, AbortCorrection, SaveRound, roundVars, TypeOK
  <1>4. draft' \in [DraftRow -> DraftRecord]
    BY <1>1, <1>2 DEF Save, AbortMerge, AbortCorrection, SaveRound, TypeOK
  <1>5. folder' \in [VersionNo -> SUBSET Part]
    <2>1. CASE Save(r)
      BY <1>1, <1>2, <2>1 DEF Save, PutPart, TypeOK
    <2>2. CASE AbortCorrection(r)
      <3> DEFINE v == request[r].version
      <3>1. request[r].new.supplied \in SUBSET Part
        BY <1>2 DEF DraftRecord
      <3>2. folder' = folder \/ folder' = [folder EXCEPT ![v + 1] = folder[v + 1] \cup request[r].new.supplied]
        BY <2>2 DEF AbortCorrection, Copied
      <3>3. folder \in [VersionNo -> SUBSET Part]
        BY <1>1 DEF TypeOK
      <3>4. CASE folder' = folder
        BY <3>3, <3>4
      <3>5. CASE folder' # folder
        <4>1. request[r].kind \in CorrectKind
          BY <2>2, <3>5 DEF AbortCorrection
        <4>2. v \in VersionNo /\ v < MaxVersion
          BY <1>1, <4>1 DEF LockedIsOfficial, Completed
        <4>3. v + 1 \in VersionNo
          BY <4>2, ConstantsAssumption DEF VersionNo
        <4>4. folder[v + 1] \in SUBSET Part
          BY <3>3, <4>3
        <4>5. folder[v + 1] \cup request[r].new.supplied \in SUBSET Part
          BY <3>1, <4>4
        <4> QED
          BY <3>2, <3>3, <3>5, <4>5
      <3> QED
        BY <3>4, <3>5
    <2>3. CASE AbortMerge(r) \/ SaveRound(r)
      BY <1>1, <2>3 DEF AbortMerge, SaveRound, TypeOK
    <2> QED
      BY <2>1, <2>2, <2>3
  <1>6. RequestsInOrder'
    BY <1>1, <1>3, EndKeepsRequests
  <1>7. project' \in [Project -> ProjectRow]
    BY <1>1 DEF TypeOK, ProjectRow
  <1> QED
    BY <1>1, <1>3, <1>4, <1>5, <1>6, <1>7, QuietKeepsInductive

\* merge starts with the row locked, in a round that is not booked.
LEMMA BeginMergeKeepsInductive ==
    ASSUME Inductive, NEW r \in Request, NEW d \in DraftRow, BeginMerge(r, d)
    PROVE  Inductive'
  <1> DEFINE q == [Idle EXCEPT !.kind = "merge", !.row = d, !.list = Approved,
                               !.number = NextVersion]
  <1>1. TypeOK /\ RequestsInOrder
    BY Parts
  <1>2. UNCHANGED <<roundVars, bookVars, project, draft, folder>>
    BY DEF BeginMerge
  <1>3. version' = version /\ project' = project /\ isBooked' = isBooked
    BY <1>2 DEF roundVars, bookVars
  <1>4. /\ Approved \in SUBSET Project /\ Approved # {} /\ NextVersion \in VersionNo
        /\ ~isBooked /\ \A s \in Request : request[s].kind \notin {"merge", "cascaded"}
    BY DEF Approved, BeginMerge, MergeProceeds, RoundLocked
  <1>5. NextVersion \in 0..MaxVersion
    BY <1>4, ConstantsAssumption DEF VersionNo
  <1>6. request' = [request EXCEPT ![r] = q]
    BY DEF BeginMerge, Begin
  <1>7. /\ q \in RequestRecord /\ q.kind = "merge" /\ q.list = Approved /\ q.row = d
        /\ q.number = NextVersion /\ q.version = 0 /\ q.doomed = {}
    BY <1>4, <1>5, ConstantRows DEF RequestRecord, RequestKind
  <1> HIDE DEF q
  <1>8. q.kind \notin CorrectKind /\ q.kind \notin CorrectKind \cup {"cancel"}
    BY <1>7 DEF CorrectKind
  <1>9. ForkedAmong(Checked(q)) \subseteq q.late
    BY <1>7 DEF Checked, ForkedAmong
  <1>10. RequestsInOrder'
    BY <1>1, <1>3, <1>4, <1>6, <1>7, <1>8, <1>9, SlotKeepsRequests
  <1> QED
    BY <1>2, <1>10, ReadKeepsInductive

\* The cascade looks for descendants of what it is going to delete.
LEMMA CascadeKeepsInductive ==
    ASSUME Inductive, NEW r \in Request, Cascade(r)
    PROVE  Inductive'
  <1> DEFINE old == request[r]
             q == [old EXCEPT !.kind = "cascaded", !.doomed = Orphans]
  <1>1. /\ TypeOK /\ RequestsInOrder /\ MergesAlone /\ LockedIsOfficial
        /\ old \in RequestRecord /\ old.kind = "merge" /\ ForkedAmong(Orphans) = {}
    BY Parts DEF RequestsInOrder, TypeOK, Cascade, Unforked
  <1>2. UNCHANGED <<roundVars, bookVars, project, draft, folder>>
    BY DEF Cascade
  <1>3. version' = version /\ project' = project /\ isBooked' = isBooked
    BY <1>2 DEF roundVars, bookVars
  <1>4. Orphans \in SUBSET Project
    BY DEF Orphans
  <1>5. request' = [request EXCEPT ![r] = q]
    BY <1>1 DEF Cascade, RequestRecord, TypeOK
  <1>6. /\ q \in RequestRecord /\ q.kind = "cascaded" /\ q.row = old.row /\ q.list = old.list
        /\ q.number = old.number /\ q.version = old.version /\ q.doomed = Orphans
    BY <1>1, <1>4 DEF RequestRecord, RequestKind
  <1> HIDE DEF q
  <1>7. q.kind \notin CorrectKind /\ q.kind \notin CorrectKind \cup {"cancel"}
    BY <1>6 DEF CorrectKind
  <1>8. /\ ~isBooked /\ q.list # {} /\ q.row \in DraftRow
        /\ q.number = NextVersion /\ NextVersion \in VersionNo
        /\ \A s \in Request \ {r} : request[s].kind \notin {"merge", "cascaded"}
    BY <1>1, <1>6 DEF MergesAlone
  <1>9. q.version # 0 => /\ q.version \in Completed
                         /\ \A s \in Request \ {r} : request[s].version # q.version
    BY <1>1, <1>6 DEF LockedIsOfficial
  <1>10. ForkedAmong(Checked(q)) \subseteq q.late
    BY <1>1, <1>6 DEF Checked
  <1>11. RequestsInOrder'
    BY <1>1, <1>3, <1>5, <1>6, <1>7, <1>8, <1>9, <1>10, SlotKeepsRequests
  <1> QED
    BY <1>2, <1>11, ReadKeepsInductive

\* An edit of the round, a removal or a cancel that begins.
LEMMA BeginOthersKeepsInductive ==
    ASSUME Inductive, NEW r \in Request,
           \/ BeginRound(r)
           \/ \E p \in Project : BeginRemove(r, p)
           \/ \E v \in VersionNo : BeginCancel(r, v)
    PROVE  Inductive'
  <1>1. /\ TypeOK /\ RequestsInOrder
        /\ UNCHANGED <<roundVars, bookVars, project, draft, folder>>
    BY Parts DEF BeginRound, BeginRemove, BeginCancel
  <1>2. version' = version /\ project' = project /\ isBooked' = isBooked
    BY <1>1 DEF roundVars, bookVars
  <1>3. CASE BeginRound(r)
    <2> DEFINE q == [Idle EXCEPT !.kind = "round", !.booked = isBooked]
    <2>1. /\ q \in RequestRecord /\ q.kind \in {"idle", "row", "part", "round"}
          /\ q.version = 0 /\ q.doomed = {}
      BY <1>1, ConstantRows DEF RequestRecord, RequestKind, TypeOK
    <2>2. request' = [request EXCEPT ![r] = q]
      BY <1>3 DEF BeginRound, Begin
    <2> HIDE DEF q
    <2>3. RequestsInOrder'
      BY <1>1, <1>2, <2>1, <2>2, PlainSlotKeepsRequests
    <2> QED
      BY <1>1, <2>3, ReadKeepsInductive
  <1>4. ASSUME NEW p \in Project, BeginRemove(r, p)
        PROVE  Inductive'
    <2> DEFINE q == [Idle EXCEPT !.kind = "remove", !.doomed = {p}]
    <2>1. /\ q \in RequestRecord /\ q.kind = "remove" /\ q.version = 0 /\ q.doomed = {p}
      BY ConstantRows DEF RequestRecord, RequestKind
    <2>2. request' = [request EXCEPT ![r] = q] /\ ~project[p].forked
      BY <1>4 DEF BeginRemove, Begin
    <2> HIDE DEF q
    <2>3. /\ q.kind \notin CorrectKind /\ q.kind \notin CorrectKind \cup {"cancel"}
          /\ q.kind \notin {"merge", "cascaded"}
      BY <2>1 DEF CorrectKind
    <2>4. ForkedAmong(Checked(q)) \subseteq q.late
      BY <2>1, <2>2 DEF Checked, ForkedAmong
    <2>5. RequestsInOrder'
      BY <1>1, <1>2, <2>1, <2>2, <2>3, <2>4, SlotKeepsRequests
    <2> QED
      BY <1>1, <2>5, ReadKeepsInductive
  <1>5. ASSUME NEW v \in VersionNo, BeginCancel(r, v)
        PROVE  Inductive'
    <2> DEFINE q == [Idle EXCEPT !.kind = "cancel", !.version = v]
    <2>1. v \in 0..MaxVersion /\ v # 0
      BY <1>5, ConstantsAssumption DEF VersionNo
    <2>2. /\ q \in RequestRecord /\ q.kind = "cancel" /\ q.version = v /\ q.doomed = {}
      BY <2>1, ConstantRows DEF RequestRecord, RequestKind
    <2>3. /\ request' = [request EXCEPT ![r] = q] /\ ForkedAmong(version[v].list) = {}
          /\ v \in Completed /\ \A s \in Request : request[s].version # v
      BY <1>5 DEF BeginCancel, Begin, Unforked, Lockable
    <2> HIDE DEF q
    <2>4. q.kind \notin CorrectKind /\ q.kind \notin {"merge", "cascaded"}
      BY <2>2 DEF CorrectKind
    <2>5. ForkedAmong(Checked(q)) \subseteq q.late
      BY <2>2, <2>3 DEF Checked, ForkedAmong
    <2>6. RequestsInOrder'
      BY <1>1, <1>2, <2>1, <2>2, <2>3, <2>4, <2>5, SlotKeepsRequests
    <2> QED
      BY <1>1, <2>6, ReadKeepsInductive
  <1> QED
    BY <1>3, <1>4, <1>5

\* A correction that begins holds the official version and leaves room for the next.
LEMMA BeginCorrectKeepsInductive ==
    ASSUME Inductive, NEW r \in Request, NEW v \in VersionNo, NEW part \in Part,
           NEW reused \in SUBSET Part, NEW d \in DraftRow,
           BeginCorrect(r, v, part, reused, d)
    PROVE  Inductive'
  <1> DEFINE row == WithStatus(reused)
             kind == IF part = 3 THEN "reset" ELSE "amend"
             q == [Idle EXCEPT !.kind = kind, !.version = v, !.row = d, !.new = row]
  <1>1. /\ TypeOK /\ RequestsInOrder
        /\ UNCHANGED <<roundVars, bookVars, project, draft, folder>>
        /\ request' = [request EXCEPT ![r] = q]
        /\ v \in Completed /\ v < MaxVersion /\ \A s \in Request : request[s].version # v
        /\ part = 3 => ForkedAmong(version[v].list) = {}
    BY Parts DEF BeginCorrect, Begin, Unforked, Lockable
  <1>2. version' = version /\ project' = project /\ isBooked' = isBooked
    BY <1>1 DEF roundVars, bookVars
  <1>3. v \in 0..MaxVersion /\ v # 0
    BY ConstantsAssumption DEF VersionNo
  <1>4. row \in DraftRecord
    BY ConstantRows
  <1> HIDE DEF row
  <1>5. kind \in CorrectKind /\ CorrectKind \subseteq RequestKind
    BY DEF CorrectKind, RequestKind
  <1>6. kind = "reset" => part = 3
    OBVIOUS
  <1> HIDE DEF kind
  <1>7. /\ q \in RequestRecord /\ q.kind = kind /\ q.row = d
        /\ q.version = v /\ q.doomed = {}
    BY <1>3, <1>4, <1>5, ConstantRows DEF RequestRecord, Idle
  <1> HIDE DEF q
  <1>8. ForkedAmong(Checked(q)) \subseteq q.late
    <2>1. CASE kind = "reset"
      BY <1>1, <1>6, <1>7, <2>1 DEF Checked, ForkedAmong
    <2>2. CASE kind # "reset"
      <3>1. kind = "amend"
        BY <1>5, <2>2 DEF CorrectKind
      <3> QED
        BY <1>7, <3>1 DEF Checked, ForkedAmong
    <2> QED
      BY <2>1, <2>2
  <1>9. q.kind \notin {"merge", "cascaded"}
    BY <1>5, <1>7 DEF CorrectKind
  <1>10. RequestsInOrder'
    BY <1>1, <1>2, <1>3, <1>7, <1>8, <1>9, SlotKeepsRequests
  <1> QED
    BY <1>1, <1>10, ReadKeepsInductive

\* What is deleted and what is booked by a step, seen from one project.
Marked(p, gone, booked) ==
    [project[p] EXCEPT !.deleted = @ \/ p \in gone, !.isBooked = @ \/ p \in booked]

LEMMA MarkedTyped ==
    ASSUME TypeOK, NEW p \in Project,
           NEW gone \in SUBSET Project, NEW booked \in SUBSET Project
    PROVE  /\ Marked(p, gone, booked) \in ProjectRow
           /\ Marked(p, gone, booked).isBooked = (project[p].isBooked \/ p \in booked)
           /\ Marked(p, gone, booked).deleted = (project[p].deleted \/ p \in gone)
           /\ Marked(p, gone, booked).forked = project[p].forked
  <1>1. project[p] \in ProjectRow
    BY DEF TypeOK, ProjectRow
  <1>2. /\ (project[p].deleted \/ p \in gone) \in BOOLEAN
        /\ (project[p].isBooked \/ p \in booked) \in BOOLEAN
    OBVIOUS
  <1> QED
    BY <1>1, <1>2 DEF Marked, ProjectRow

\* softRemove, the write.
LEMMA CommitRemoveKeepsInductive ==
    ASSUME Inductive, NEW r \in Request, CommitRemove(r)
    PROVE  Inductive'
  <1>1. /\ TypeOK /\ RequestsInOrder /\ UNCHANGED <<roundVars, bookVars, draft, folder>>
        /\ request' = [request EXCEPT ![r] = Idle]
    BY Parts DEF CommitRemove
  <1>2. UNCHANGED <<isBooked, newerSibling, undone, version, lineage, draft, folder>>
    BY <1>1 DEF roundVars, bookVars
  <1> DEFINE gone == request[r].doomed
             new(p) == [project[p] EXCEPT !.deleted = @ \/ p \in gone]
  <1>3. project' = [p \in Project |-> new(p)]
    BY DEF CommitRemove
  <1>4. ASSUME NEW p \in Project
        PROVE  /\ new(p) \in ProjectRow /\ new(p).forked = project[p].forked
               /\ new(p).isBooked = project[p].isBooked
    <2>1. project[p] \in ProjectRow /\ (project[p].deleted \/ p \in gone) \in BOOLEAN
      BY <1>1 DEF TypeOK, ProjectRow
    <2> QED
      BY <2>1 DEF ProjectRow
  <1> HIDE DEF new
  <1>5. /\ project' \in [Project -> ProjectRow]
        /\ \A p \in Project : /\ project'[p].forked = project[p].forked
                              /\ project'[p].isBooked = project[p].isBooked
    BY <1>3, <1>4
  <1>6. RequestsInOrder'
    BY <1>1, <1>2, <1>5, EndKeepsRequests
  <1>7. /\ isBooked' \in BOOLEAN /\ newerSibling' \in BOOLEAN /\ undone' \in BOOLEAN
        /\ draft' \in [DraftRow -> DraftRecord]
        /\ folder' \in [VersionNo -> SUBSET Part]
    BY <1>1, <1>2 DEF TypeOK
  <1> QED
    BY <1>2, <1>5, <1>6, <1>7, QuietKeepsInductive

\* A new fork is late for the requests that have looked already.
LEMMA ForkKeepsRequests ==
    ASSUME TypeOK, RequestsInOrder, NEW p \in Project, Fork(p)
    PROVE  RequestsInOrder'
  <1>1. version' = version /\ isBooked' = isBooked
    BY DEF Fork, roundVars, bookVars
  <1>2. \A x \in Project :
           project'[x].forked = IF x = p THEN ~project[p].forked ELSE project[x].forked
    BY DEF Fork, TypeOK
  <1> DEFINE seen(r) == IF p \notin Checked(request[r]) THEN request[r].late
                        ELSE IF project[p].forked THEN request[r].late \ {p}
                        ELSE request[r].late \cup {p}
             new(r) == [request[r] EXCEPT !.late = seen(r)]
  <1>3. request' = [r \in Request |-> new(r)]
    BY DEF Fork
  <1>4. ASSUME NEW r \in Request
        PROVE  /\ request'[r] \in RequestRecord
               /\ request'[r].kind = request[r].kind /\ request'[r].row = request[r].row
               /\ request'[r].list = request[r].list /\ request'[r].number = request[r].number
               /\ request'[r].version = request[r].version
               /\ request'[r].doomed = request[r].doomed /\ request'[r].late = seen(r)
    <2>1. request[r] \in RequestRecord
      BY DEF TypeOK
    <2>2. seen(r) \in SUBSET Project
      BY <2>1 DEF RequestRecord
    <2> HIDE DEF seen
    <2> QED
      BY <1>3, <2>1, <2>2 DEF RequestRecord
  <1>5. request' \in [Request -> RequestRecord]
    BY <1>3, <1>4
  <1>6. MergesAlone' /\ LockedIsOfficial'
    <2> HIDE DEF new, seen
    <2>1. NextVersion' = NextVersion /\ Completed' = Completed
      BY <1>1 DEF NextVersion, MaxNumber, Published, Completed
    <2>2. MergesAlone'
      BY <1>1, <1>4, <2>1 DEF RequestsInOrder, MergesAlone
    <2>3. LockedIsOfficial'
      BY <1>4, <2>1 DEF RequestsInOrder, LockedIsOfficial
    <2> QED
      BY <2>2, <2>3
  <1>7. ForksKnown'
    <2> SUFFICES ASSUME NEW r \in Request
                 PROVE  (ForkedAmong(Checked(request[r])))' \subseteq seen(r)
      BY <1>4 DEF ForksKnown
    <2>1. ForkedAmong(Checked(request[r])) \subseteq request[r].late
      BY DEF RequestsInOrder, ForksKnown
    <2>2. (Checked(request[r]))' = Checked(request[r]) /\ Checked(request[r]) \subseteq Project
      BY <1>1, <1>4, CheckedTyped DEF Checked
    <2> SUFFICES ASSUME NEW x \in Checked(request[r]), project'[x].forked
                 PROVE  x \in seen(r)
      BY <2>2 DEF ForkedAmong
    <2>3. x \in Project
      BY <2>2
    <2>4. CASE x = p
      <3>1. ~project[p].forked
        BY <1>2, <2>4
      <3> QED
        BY <2>4, <3>1
    <2>5. CASE x # p
      <3>1. project[x].forked
        BY <1>2, <2>3, <2>5
      <3>2. x \in request[r].late
        BY <2>1, <2>3, <3>1 DEF ForkedAmong
      <3> QED
        BY <2>5, <3>2
    <2> QED
      BY <2>4, <2>5
  <1> QED
    BY <1>5, <1>6, <1>7 DEF RequestsInOrder

\* A step that neither forks, nor touches a request or the round.
LEMMA OthersKeepRequests ==
    ASSUME TypeOK, RequestsInOrder, request' = request, version' = version,
           isBooked' = isBooked,
           \A p \in Project : project'[p].forked = project[p].forked
    PROVE  RequestsInOrder'
  <1>1. NextVersion' = NextVersion /\ Completed' = Completed
    BY DEF NextVersion, MaxNumber, Published, Completed
  <1>2. MergesAlone' /\ LockedIsOfficial'
    BY <1>1 DEF RequestsInOrder, MergesAlone, LockedIsOfficial
  <1>3. ForksKnown'
    <2> SUFFICES ASSUME NEW r \in Request
                 PROVE  (ForkedAmong(Checked(request[r])))' \subseteq request[r].late
      BY DEF ForksKnown
    <2>1. ForkedAmong(Checked(request[r])) \subseteq request[r].late
      BY DEF RequestsInOrder, ForksKnown
    <2>2. Checked(request[r]) \subseteq Project /\ (Checked(request[r]))' = Checked(request[r])
      BY CheckedTyped DEF Checked
    <2> QED
      BY <2>1, <2>2 DEF ForkedAmong
  <1> QED
    BY <1>2, <1>3 DEF RequestsInOrder

\* What moves beside the book: purged drafts, projects, a sibling book.
LEMMA BesidesKeepInductive ==
    ASSUME Inductive, Environment \/ \E d \in DraftRow : Purge(d)
    PROVE  Inductive'
  <1>1. TypeOK /\ RequestsInOrder
    BY Parts
  <1>2. UNCHANGED <<isBooked, undone, version, lineage, folder>>
    BY DEF Environment, StatusChange, Fork, SiblingBook, Purge, bookVars, roundVars
  <1>3. draft' \in [DraftRow -> DraftRecord]
    BY <1>1, ConstantRows DEF Environment, StatusChange, Fork, SiblingBook, Purge, TypeOK
  <1>4. project \in [Project -> ProjectRow] /\ newerSibling \in BOOLEAN
    BY <1>1 DEF TypeOK, ProjectRow
  <1> DEFINE Safe == /\ project' \in [Project -> ProjectRow] /\ newerSibling' \in BOOLEAN
                     /\ \A x \in Project : project[x].isBooked => project'[x].isBooked
                     /\ RequestsInOrder'
  <1>5. ASSUME NEW p \in Project, StatusChange(p)
        PROVE  Safe
    <2>1. PICK st \in {"working", "approved"} : project' = [project EXCEPT ![p].status = st]
      BY <1>5 DEF StatusChange
    <2> DEFINE row == [project[p] EXCEPT !.status = st]
    <2>2. /\ row \in ProjectRow /\ row.isBooked = project[p].isBooked
          /\ row.forked = project[p].forked
      BY <1>4 DEF ProjectRow
    <2>3. project' = [project EXCEPT ![p] = row]
      BY <2>1
    <2> HIDE DEF row
    <2>4. \A x \in Project : project'[x] = IF x = p THEN row ELSE project[x]
      BY <1>4, <2>3
    <2>5. /\ project' \in [Project -> ProjectRow]
          /\ \A x \in Project : /\ project'[x].isBooked = project[x].isBooked
                                /\ project'[x].forked = project[x].forked
      BY <1>4, <2>2, <2>3, <2>4
    <2>6. request' = request /\ newerSibling' = newerSibling
      BY <1>5 DEF StatusChange, roundVars
    <2>7. RequestsInOrder'
      BY <1>1, <1>2, <2>5, <2>6, OthersKeepRequests
    <2> QED
      BY <1>4, <2>5, <2>6, <2>7
  <1>6. ASSUME NEW p \in Forkable, Fork(p)
        PROVE  Safe
    <2> DEFINE flag == ~project[p].forked
               row == [project[p] EXCEPT !.forked = flag]
    <2>1. p \in Project /\ newerSibling' = newerSibling
      BY <1>6, ConstantsAssumption DEF Fork, roundVars
    <2>2. row \in ProjectRow /\ row.isBooked = project[p].isBooked
      BY <1>4, <2>1 DEF ProjectRow
    <2>3. project' = [project EXCEPT ![p] = row]
      BY <1>6 DEF Fork
    <2> HIDE DEF row
    <2>4. \A x \in Project : project'[x] = IF x = p THEN row ELSE project[x]
      BY <1>4, <2>3
    <2>5. RequestsInOrder'
      BY <1>1, <1>6, <2>1, ForkKeepsRequests
    <2> QED
      BY <1>4, <2>1, <2>2, <2>3, <2>4, <2>5
  <1>7. ASSUME SiblingBook \/ \E d \in DraftRow : Purge(d)
        PROVE  Safe
    <2>1. project' = project /\ request' = request /\ newerSibling' \in BOOLEAN
      BY <1>4, <1>7 DEF SiblingBook, Purge, roundVars
    <2>2. RequestsInOrder'
      BY <1>1, <1>2, <2>1, OthersKeepRequests
    <2> QED
      BY <1>4, <2>1, <2>2
  <1>8. Safe
    BY <1>5, <1>6, <1>7 DEF Environment
  <1>9. isBooked' \in BOOLEAN /\ undone' \in BOOLEAN /\ folder' \in [VersionNo -> SUBSET Part]
    BY <1>1, <1>2 DEF TypeOK
  <1> QED
    BY <1>2, <1>3, <1>8, <1>9, QuietKeepsInductive

(*****************************************************************************)
(* The steps that change the book.                                           *)
(*****************************************************************************)

\* The official version is the last one: when it is deprecated none is left, and
\* the numbers stay what they are.
LEMMA RetiredVersions ==
    ASSUME Inductive, NEW v \in Completed, Deprecate(v)
    PROVE  /\ v \in VersionNo /\ v = MaxNumber
           /\ version' \in [VersionNo -> VersionRow]
           /\ \A w \in VersionNo : version'[w].list = version[w].list
           /\ Published' = Published /\ MaxNumber' = MaxNumber
           /\ Completed = {v} /\ Completed' = {}
  <1>1. TypeOK /\ OfficialIsNewest
    BY DEF Inductive
  <1>2. v \in VersionNo /\ version[v].status = "completed"
    BY DEF Completed
  <1>3. version \in [VersionNo -> VersionRow]
    BY <1>1 DEF TypeOK, VersionRow
  <1> DEFINE gone == [version[v] EXCEPT !.status = "deprecated"]
  <1>4. gone \in VersionRow /\ gone.list = version[v].list /\ gone.status = "deprecated"
    BY <1>2, <1>3 DEF VersionRow
  <1>5. version' = [version EXCEPT ![v] = gone]
    BY DEF Deprecate
  <1> HIDE DEF gone
  <1>6. \A w \in VersionNo : version'[w] = IF w = v THEN gone ELSE version[w]
    BY <1>3, <1>5
  <1>7. version' \in [VersionNo -> VersionRow]
    BY <1>3, <1>4, <1>5
  <1>8. \A w \in VersionNo : version'[w].list = version[w].list
    BY <1>4, <1>6
  <1>9. Published' = Published
    BY <1>2, <1>4, <1>6 DEF Published
  <1>10. Completed' = Completed \ {v}
    BY <1>2, <1>4, <1>6 DEF Completed
  <1>11. MaxNumber' = MaxNumber
    BY <1>9 DEF MaxNumber
  <1>12. v = MaxNumber /\ Completed = {v} /\ Completed' = {}
    BY <1>1, <1>10 DEF OfficialIsNewest
  <1> QED
    BY <1>2, <1>7, <1>8, <1>9, <1>11, <1>12

\* Giving the booking up: the leaf of a project goes back to a version that lists it.
LEMMA UnbookedTyped ==
    ASSUME Inductive, NEW v \in Completed, Unbook(v)
    PROVE  /\ project' \in [Project -> ProjectRow]
           /\ \A p \in Project : project'[p].forked = project[p].forked
           /\ lineage' \in [Project -> LineageRow]
           /\ \A p \in Project : lineage'[p].parent = lineage[p].parent
           /\ \A p \in Project : lineage'[p].leaf # 0 =>
                  /\ lineage'[p].leaf \in Published
                  /\ p \in version[lineage'[p].leaf].list
           /\ isBooked' = FALSE /\ newerSibling' = FALSE /\ undone' = FALSE
           /\ ~RoundLocked
  <1>1. TypeOK /\ ParentsListed /\ LeafIsOfficial /\ v \in VersionNo
    BY DEF Inductive, LocksHold, Completed
  <1>2. isBooked' = FALSE /\ newerSibling' = FALSE /\ undone' = FALSE /\ ~RoundLocked
    BY DEF Unbook
  <1> DEFINE row(p) == [project[p] EXCEPT !.isBooked = @ /\ p \notin version[v].list]
  <1>3. project' = [p \in Project |-> row(p)]
    BY DEF Unbook
  <1>4. ASSUME NEW p \in Project
        PROVE  row(p) \in ProjectRow /\ row(p).forked = project[p].forked
    <2>1. /\ project[p] \in ProjectRow
          /\ (project[p].isBooked /\ p \notin version[v].list) \in BOOLEAN
      BY <1>1 DEF TypeOK, ProjectRow
    <2> QED
      BY <2>1 DEF ProjectRow
  <1> HIDE DEF row
  <1>5. /\ project' \in [Project -> ProjectRow]
        /\ \A p \in Project : project'[p].forked = project[p].forked
    BY <1>3, <1>4
  <1> DEFINE up(p) == [lineage[p] EXCEPT !.leaf = lineage[p].parent[v]]
  <1>6. \A p \in Project : lineage[p] \in LineageRow
    BY <1>1 DEF TypeOK, LineageRow
  <1>7. \A p \in Project : /\ up(p) \in LineageRow
                           /\ up(p).leaf = lineage[p].parent[v]
                           /\ up(p).parent = lineage[p].parent
    BY <1>1, <1>6 DEF LineageRow
  <1>8. lineage' = [p \in Project |-> IF lineage[p].leaf # v THEN lineage[p] ELSE up(p)]
    BY DEF Unbook, LineageAfterCancel
  <1> HIDE DEF up
  <1>9. \A p \in Project : lineage'[p] = IF lineage[p].leaf # v THEN lineage[p] ELSE up(p)
    BY <1>8
  <1>10. lineage' \in [Project -> LineageRow]
    BY <1>6, <1>7, <1>8
  <1>11. \A p \in Project : lineage'[p].parent = lineage[p].parent
    BY <1>7, <1>9
  <1>12. ASSUME NEW p \in Project, lineage'[p].leaf # 0
         PROVE  lineage'[p].leaf \in Published /\ p \in version[lineage'[p].leaf].list
    <2>1. CASE lineage[p].leaf # v
      BY <1>1, <1>9, <1>12, <2>1 DEF LeafIsOfficial
    <2>2. CASE lineage[p].leaf = v
      BY <1>1, <1>7, <1>9, <1>12, <2>2 DEF ParentsListed
    <2> QED
      BY <2>1, <2>2
  <1> QED
    BY <1>2, <1>5, <1>10, <1>11, <1>12

\* When the request that holds the official version deprecates it, no other
\* request holds a version, and no merge was held up.
LEMMA RetireKeepsRequests ==
    ASSUME Inductive, NEW r \in Request, request[r].version # 0,
           Deprecate(request[r].version), request' = [request EXCEPT ![r] = Idle],
           isBooked' = isBooked \/ ~RoundLocked,
           \A p \in Project : project'[p].forked = project[p].forked
    PROVE  RequestsInOrder'
  <1> DEFINE v == request[r].version
  <1>1. /\ TypeOK /\ RequestsInOrder /\ MergesAlone /\ LockedIsOfficial /\ ForksKnown
        /\ v \in Completed
    BY Parts DEF RequestsInOrder, LockedIsOfficial
  <1>2. /\ Completed' = {} /\ MaxNumber' = MaxNumber /\ Completed = {v}
        /\ \A w \in VersionNo : version'[w].list = version[w].list
    BY <1>1, RetiredVersions
  <1>3. \A s \in Request : request'[s] = IF s = r THEN Idle ELSE request[s]
    BY <1>1 DEF TypeOK
  <1>4. "idle" \notin CorrectKind \cup {"cancel", "reset", "merge", "cascaded"}
    BY DEF CorrectKind
  <1>5. request' \in [Request -> RequestRecord]
    BY <1>1, ConstantRows DEF TypeOK
  <1>6. MergesAlone'
    BY <1>1, <1>2, <1>3, <1>4, ConstantRows DEF MergesAlone, NextVersion, RoundLocked
  <1>7. \A s \in Request \ {r} : /\ request[s].version = 0
                                 /\ request[s].kind \notin CorrectKind \cup {"cancel"}
    BY <1>1, <1>2 DEF LockedIsOfficial
  <1>8. LockedIsOfficial'
    BY <1>3, <1>4, <1>7, ConstantRows DEF LockedIsOfficial
  <1>9. ForksKnown'
    <2> SUFFICES ASSUME NEW s \in Request
                 PROVE  (ForkedAmong(Checked(request[s])))' \subseteq request'[s].late
      BY DEF ForksKnown
    <2>1. CASE s = r
      <3>1. (Checked(request[s]))' = {}
        BY <1>3, <1>4, <2>1, ConstantRows DEF Checked
      <3> QED
        BY <3>1 DEF ForkedAmong
    <2>2. CASE s # r
      <3>1. request'[s] = request[s] /\ request[s].kind \notin {"cancel", "reset"}
        BY <1>3, <1>7, <2>2 DEF CorrectKind
      <3>2. (Checked(request[s]))' = Checked(request[s])
        BY <3>1 DEF Checked
      <3>3. Checked(request[s]) \subseteq Project
        BY <1>1, CheckedTyped
      <3>4. ForkedAmong(Checked(request[s])) \subseteq request[s].late
        BY <1>1 DEF ForksKnown
      <3> QED
        BY <3>1, <3>2, <3>3, <3>4 DEF ForkedAmong
    <2> QED
      BY <2>1, <2>2
  <1> QED
    BY <1>5, <1>6, <1>8, <1>9 DEF RequestsInOrder

\* cancelPublishedVersion and correct: what is left when the official version of
\* the request has been deprecated.
LEMMA RetireKeepsInductive ==
    ASSUME Inductive, NEW r \in Request, CommitCancel(r) \/ CommitCorrect(r)
    PROVE  Inductive'
  <1> DEFINE q == request[r]
             v == q.version
  <1>1. /\ TypeOK /\ NumbersDense /\ ParentsListed /\ OfficialIsNewest /\ LeafIsOfficial
        /\ v # 0 /\ v \in Completed
    BY DEF Inductive, LocksHold, CommitCancel, CommitCorrect, LockedIsOfficial
  <1>2. /\ Deprecate(v) /\ request' = [request EXCEPT ![r] = Idle]
        /\ Unbook(v) \/ UNCHANGED <<roundVars, lineage, project>>
    BY DEF CommitCancel, CommitCorrect
  <1>3. /\ version' \in [VersionNo -> VersionRow]
        /\ \A w \in VersionNo : version'[w].list = version[w].list
        /\ Published' = Published /\ MaxNumber' = MaxNumber /\ Completed' = {}
    BY <1>1, <1>2, RetiredVersions
  <1>4. /\ project' \in [Project -> ProjectRow]
        /\ \A p \in Project : project'[p].forked = project[p].forked
        /\ lineage' \in [Project -> LineageRow]
        /\ \A p \in Project : lineage'[p].parent = lineage[p].parent
        /\ \A p \in Project : lineage'[p].leaf # 0 =>
               /\ lineage'[p].leaf \in Published
               /\ p \in version[lineage'[p].leaf].list
        /\ isBooked' \in BOOLEAN /\ newerSibling' \in BOOLEAN /\ undone' \in BOOLEAN
        /\ isBooked' = isBooked \/ ~RoundLocked
    <2>1. CASE Unbook(v)
      BY <1>1, <2>1, UnbookedTyped
    <2>2. CASE UNCHANGED <<roundVars, lineage, project>>
      BY <1>1, <2>2 DEF roundVars, TypeOK, ProjectRow, LineageRow, LeafIsOfficial
    <2> QED
      BY <1>2, <2>1, <2>2
  <1>5. RequestsInOrder'
    BY <1>1, <1>2, <1>4, RetireKeepsRequests
  <1>6. q.new \in DraftRecord /\ q.new.supplied \in SUBSET Part
    BY <1>1 DEF TypeOK, RequestRecord, DraftRecord
  <1>7. draft' \in [DraftRow -> DraftRecord]
    BY <1>1, <1>6 DEF CommitCancel, CommitCorrect, TypeOK
  <1>8. folder' \in [VersionNo -> SUBSET Part]
    <2>1. CASE CommitCancel(r)
      BY <1>1, <2>1 DEF CommitCancel, TypeOK
    <2>2. CASE CommitCorrect(r)
      <3>1. folder' = [folder EXCEPT ![v + 1] = folder[v + 1] \cup q.new.supplied]
        BY <2>2 DEF CommitCorrect, Copied
      <3>2. v \in VersionNo /\ v < MaxVersion
        BY <1>1, <2>2 DEF CommitCorrect, Inductive, LocksHold, LockedIsOfficial, Completed
      <3>3. v + 1 \in VersionNo
        BY <3>2, ConstantsAssumption DEF VersionNo
      <3>4. folder \in [VersionNo -> SUBSET Part] /\ folder[v + 1] \in SUBSET Part
        BY <1>1, <3>3 DEF TypeOK
      <3>5. folder[v + 1] \cup q.new.supplied \in SUBSET Part
        BY <1>6, <3>4
      <3> QED
        BY <3>1, <3>4, <3>5
    <2> QED
      BY <2>1, <2>2
  <1>9. TypeOK'
    BY <1>3, <1>4, <1>5, <1>7, <1>8
    DEF TypeOK, RequestsInOrder, ProjectRow, VersionRow, LineageRow
  <1>10. NumbersDense' /\ OfficialIsNewest' /\ OfficialIsBooked'
    BY <1>1, <1>3 DEF NumbersDense, OfficialIsNewest, OfficialIsBooked
  <1>11. Published \subseteq VersionNo
    BY DEF Published
  <1>12. ParentsListed'
    BY <1>1, <1>3, <1>4, <1>11 DEF ParentsListed
  <1>13. LeafIsOfficial'
    BY <1>3, <1>4, <1>11 DEF LeafIsOfficial
  <1> QED
    BY <1>5, <1>9, <1>10, <1>12, <1>13 DEF Inductive, LocksHold, RequestsInOrder

\* A merge that commits publishes the number it took as the only official version.
LEMMA MergeCommitted ==
    ASSUME Inductive, NEW r \in Request, CommitMerge(r)
    PROVE  LET v == request[r].number
               S == request[r].list
           IN  /\ v = MaxNumber + 1 /\ v \in VersionNo /\ v \notin Published
               /\ S \in SUBSET Project /\ S # {}
               /\ version' \in [VersionNo -> VersionRow]
               /\ \A w \in VersionNo :
                     version'[w] = IF w = v THEN [status |-> "completed", list |-> S]
                                   ELSE version[w]
               /\ Published' = Published \cup {v} /\ MaxNumber' = v
               /\ Completed = {} /\ Completed' = {v}
               /\ NumbersDense'
  <1> DEFINE v == request[r].number
             S == request[r].list
             row == [status |-> "completed", list |-> S]
  <1>1. TypeOK /\ MergesAlone /\ NumbersDense
    BY DEF Inductive, LocksHold
  <1>2. request[r].kind = "cascaded" /\ Completed = {}
    BY DEF CommitMerge, CanCommit
  <1>3. v = MaxNumber + 1 /\ v \in VersionNo /\ S # {}
    BY <1>1, <1>2 DEF MergesAlone, NextVersion
  <1>4. S \in SUBSET Project
    BY <1>1 DEF TypeOK, RequestRecord
  <1>5. MaxNumber \in 0..MaxVersion /\ Published = 1..MaxNumber
    BY <1>1, HighestTyped
  <1>6. v \notin Published
    BY <1>3, <1>5, ConstantsAssumption
  <1>7. version \in [VersionNo -> VersionRow] /\ row \in VersionRow
    BY <1>1, <1>4 DEF TypeOK, VersionRow
  <1>8. version' = [version EXCEPT ![v] = row]
    BY DEF CommitMerge
  <1>9. row.status = "completed"
    OBVIOUS
  <1> HIDE DEF row
  <1>10. \A w \in VersionNo : version'[w] = IF w = v THEN row ELSE version[w]
    BY <1>7, <1>8
  <1>11. version' \in [VersionNo -> VersionRow]
    BY <1>7, <1>8
  <1> HIDE DEF v
  <1>12. Published' = Published \cup {v} /\ Completed' = {v}
    BY <1>2, <1>3, <1>9, <1>10 DEF Published, Completed
  <1>13. v \in 0..MaxVersion /\ Published' = 1..v
    BY <1>3, <1>5, <1>12, ConstantsAssumption DEF VersionNo
  <1>14. MaxNumber' = v
    <2>1. v \in Published' /\ (\A w \in Published' : w <= v)
      BY <1>3, <1>12, <1>13, ConstantsAssumption DEF VersionNo
    <2>2. \A w \in Published' : (\A x \in Published' : x <= w) => w = v
      BY <1>13, <2>1, ConstantsAssumption
    <2> QED
      BY <2>1, <2>2 DEF MaxNumber
  <1>15. NumbersDense'
    BY <1>13 DEF NumbersDense
  <1> QED
    BY <1>2, <1>3, <1>4, <1>6, <1>10, <1>11, <1>12, <1>14, <1>15 DEF v, row

\* The version is the leaf of its projects, their old leaf its parent.
LEMMA MergedLineage ==
    ASSUME TypeOK, NEW v \in VersionNo, NEW S \in SUBSET Project
    PROVE  /\ LineageAfterMerge(S, v) \in [Project -> LineageRow]
           /\ \A p \in Project :
                 /\ LineageAfterMerge(S, v)[p].leaf = IF p \in S THEN v ELSE lineage[p].leaf
                 /\ \A w \in VersionNo :
                       LineageAfterMerge(S, v)[p].parent[w] =
                           IF p \in S /\ w = v THEN lineage[p].leaf ELSE lineage[p].parent[w]
  <1> DEFINE chain(p) == [lineage[p].parent EXCEPT ![v] = lineage[p].leaf]
             new(p) == [leaf |-> v, parent |-> chain(p)]
  <1>1. \A p \in Project : /\ lineage[p].leaf \in 0..MaxVersion
                           /\ lineage[p].parent \in [VersionNo -> 0..MaxVersion]
                           /\ lineage[p] \in LineageRow
    BY DEF TypeOK, LineageRow
  <1>2. \A p \in Project :
           /\ chain(p) \in [VersionNo -> 0..MaxVersion]
           /\ \A w \in VersionNo :
                 chain(p)[w] = IF w = v THEN lineage[p].leaf ELSE lineage[p].parent[w]
    BY <1>1
  <1>3. v \in 0..MaxVersion
    BY ConstantsAssumption DEF VersionNo
  <1>4. LineageAfterMerge(S, v) = [p \in Project |-> IF p \notin S THEN lineage[p] ELSE new(p)]
    BY DEF LineageAfterMerge
  <1> HIDE DEF chain
  <1>5. \A p \in Project : new(p) \in LineageRow /\ new(p).leaf = v /\ new(p).parent = chain(p)
    BY <1>2, <1>3 DEF LineageRow
  <1> HIDE DEF new
  <1>6. LineageAfterMerge(S, v) \in [Project -> LineageRow]
    BY <1>1, <1>4, <1>5
  <1>7. ASSUME NEW p \in Project
        PROVE  /\ LineageAfterMerge(S, v)[p].leaf = IF p \in S THEN v ELSE lineage[p].leaf
               /\ \A w \in VersionNo :
                     LineageAfterMerge(S, v)[p].parent[w] =
                         IF p \in S /\ w = v THEN lineage[p].leaf ELSE lineage[p].parent[w]
    BY <1>2, <1>4, <1>5
  <1> QED
    BY <1>6, <1>7

\* After a merge no request holds a version, and no other merge is under way.
LEMMA CommitMergeKeepsRequests ==
    ASSUME Inductive, NEW r \in Request, CommitMerge(r),
           \A p \in Project : project'[p].forked = project[p].forked
    PROVE  RequestsInOrder'
  <1>1. /\ TypeOK /\ RequestsInOrder /\ MergesAlone /\ LockedIsOfficial /\ ForksKnown
        /\ request[r].kind = "cascaded" /\ Completed = {}
        /\ request' = [request EXCEPT ![r] = Idle]
    BY Parts DEF RequestsInOrder, CommitMerge, CanCommit
  <1>2. \A s \in Request : request'[s] = IF s = r THEN Idle ELSE request[s]
    BY <1>1 DEF TypeOK
  <1>3. "idle" \notin CorrectKind \cup {"cancel", "reset", "merge", "cascaded"}
    BY DEF CorrectKind
  <1>4. request' \in [Request -> RequestRecord]
    BY <1>1, ConstantRows DEF TypeOK
  <1>5. \A s \in Request \ {r} : request[s].kind \notin {"merge", "cascaded"}
    BY <1>1 DEF MergesAlone
  <1>6. MergesAlone'
    BY <1>2, <1>3, <1>5, ConstantRows DEF MergesAlone
  <1>7. \A s \in Request : /\ request[s].version = 0
                           /\ request[s].kind \notin CorrectKind \cup {"cancel"}
    BY <1>1 DEF LockedIsOfficial
  <1>8. LockedIsOfficial'
    BY <1>2, <1>3, <1>7, ConstantRows DEF LockedIsOfficial
  <1>9. ForksKnown'
    <2> SUFFICES ASSUME NEW s \in Request
                 PROVE  (ForkedAmong(Checked(request[s])))' \subseteq request'[s].late
      BY DEF ForksKnown
    <2>1. CASE s = r
      <3>1. (Checked(request[s]))' = {}
        BY <1>2, <1>3, <2>1, ConstantRows DEF Checked
      <3> QED
        BY <3>1 DEF ForkedAmong
    <2>2. CASE s # r
      <3>1. request'[s] = request[s] /\ request[s].kind \notin {"cancel", "reset"}
        BY <1>2, <1>7, <2>2 DEF CorrectKind
      <3>2. (Checked(request[s]))' = Checked(request[s])
        BY <3>1 DEF Checked
      <3>3. Checked(request[s]) \subseteq Project
        BY <1>1, CheckedTyped
      <3>4. ForkedAmong(Checked(request[s])) \subseteq request[s].late
        BY <1>1 DEF ForksKnown
      <3> QED
        BY <3>1, <3>2, <3>3, <3>4 DEF ForkedAmong
    <2> QED
      BY <2>1, <2>2
  <1> QED
    BY <1>4, <1>6, <1>8, <1>9 DEF RequestsInOrder

\* merge, last part.
LEMMA CommitMergeKeepsInductive ==
    ASSUME Inductive, NEW r \in Request, CommitMerge(r)
    PROVE  Inductive'
  <1> DEFINE q == request[r]
             v == q.number
             S == q.list
  <1>1. /\ TypeOK /\ ParentsListed /\ LeafIsOfficial
        /\ q \in RequestRecord /\ q.doomed \in SUBSET Project
    BY DEF Inductive, LocksHold, TypeOK, RequestRecord
  <1>2. /\ v \in VersionNo /\ v \notin Published
        /\ S \in SUBSET Project /\ S # {}
        /\ version' \in [VersionNo -> VersionRow]
        /\ \A w \in VersionNo :
              version'[w] = IF w = v THEN [status |-> "completed", list |-> S] ELSE version[w]
        /\ Published' = Published \cup {v} /\ MaxNumber' = v
        /\ Completed' = {v}
        /\ NumbersDense'
    BY MergeCommitted
  <1>3. /\ project' = [p \in Project |-> Marked(p, q.doomed, S)]
        /\ lineage' = LineageAfterMerge(S, v)
        /\ isBooked' = TRUE /\ newerSibling' = FALSE /\ undone' = FALSE /\ folder' = folder
        /\ draft' = [draft EXCEPT ![q.row] = NoDraft]
        /\ request' = [request EXCEPT ![r] = Idle]
    BY DEF CommitMerge, Stamped, Marked
  <1>4. /\ project' \in [Project -> ProjectRow]
        /\ \A p \in Project : project'[p].forked = project[p].forked
        /\ \A p \in S : project'[p].isBooked
    <2> DEFINE gone == q.doomed
               new(p) == Marked(p, gone, S)
    <2>1. ASSUME NEW p \in Project
          PROVE  /\ new(p) \in ProjectRow /\ new(p).forked = project[p].forked
                 /\ p \in S => new(p).isBooked
      <3>1. /\ new(p) \in ProjectRow /\ new(p).forked = project[p].forked
            /\ new(p).isBooked = (project[p].isBooked \/ p \in S)
        BY <1>1, <1>2, MarkedTyped
      <3> QED
        BY <3>1
    <2>2. project' = [p \in Project |-> new(p)]
      BY <1>3
    <2> HIDE DEF new, S
    <2>3. S \subseteq Project
      BY <1>2
    <2> QED
      BY <2>1, <2>2, <2>3
  <1>5. /\ lineage' \in [Project -> LineageRow]
        /\ \A p \in Project :
              /\ lineage'[p].leaf = IF p \in S THEN v ELSE lineage[p].leaf
              /\ \A w \in VersionNo :
                    lineage'[p].parent[w] =
                        IF p \in S /\ w = v THEN lineage[p].leaf ELSE lineage[p].parent[w]
    <2> HIDE DEF v
    <2>1. /\ LineageAfterMerge(S, v) \in [Project -> LineageRow]
          /\ \A p \in Project :
                /\ LineageAfterMerge(S, v)[p].leaf = IF p \in S THEN v ELSE lineage[p].leaf
                /\ \A w \in VersionNo :
                      LineageAfterMerge(S, v)[p].parent[w] =
                          IF p \in S /\ w = v THEN lineage[p].leaf ELSE lineage[p].parent[w]
      BY <1>1, <1>2, MergedLineage
    <2> QED
      BY <1>3, <2>1
  <1>6. draft' \in [DraftRow -> DraftRecord]
    BY <1>1, <1>3, ConstantRows DEF TypeOK
  <1>7. RequestsInOrder'
    BY <1>4, CommitMergeKeepsRequests
  <1>8. TypeOK'
    BY <1>1, <1>2, <1>3, <1>4, <1>5, <1>6, <1>7
    DEF TypeOK, RequestsInOrder, ProjectRow, VersionRow, LineageRow
  <1> HIDE DEF v
  <1>9. Published \subseteq VersionNo
    BY DEF Published
  <1>10. /\ version'[v].list = S
         /\ \A w \in Published : version'[w] = version[w]
    BY <1>2, <1>9
  <1>11. ParentsListed'
    BY <1>1, <1>2, <1>5, <1>10 DEF ParentsListed, LeafIsOfficial
  <1>12. OfficialIsNewest'
    <2>1. \A w \in Published' : 1..w \subseteq Published'
      <3>1. PICK n \in 0..MaxVersion : Published' = 1..n
        BY <1>2 DEF NumbersDense
      <3> QED
        BY <3>1, ConstantsAssumption
    <2> QED
      BY <1>2, <2>1 DEF OfficialIsNewest
  <1>13. OfficialIsBooked'
    BY <1>2, <1>3, <1>4, <1>10 DEF OfficialIsBooked
  <1>14. LeafIsOfficial'
    BY <1>1, <1>2, <1>5, <1>10 DEF LeafIsOfficial
  <1> QED
    BY <1>2, <1>7, <1>8, <1>11, <1>12, <1>13, <1>14 DEF Inductive, LocksHold, RequestsInOrder

(*****************************************************************************)
(* The invariants.                                                           *)
(*****************************************************************************)

\* Every step preserves the strengthened invariant.
LEMMA SupplementNext == Inductive /\ [Next]_vars => Inductive'
  <1> SUFFICES ASSUME Inductive, [Next]_vars PROVE Inductive'
    OBVIOUS
  <1>1. CASE UNCHANGED vars
    <2>1. /\ UNCHANGED <<roundVars, bookVars, project, draft, folder>>
          /\ request' = request /\ version' = version /\ isBooked' = isBooked
          /\ project' = project
      BY <1>1 DEF vars, bookVars, roundVars
    <2>2. RequestsInOrder'
      BY <2>1, Parts, OthersKeepRequests
    <2> QED
      BY <2>1, <2>2, ReadKeepsInductive
  <1>2. ASSUME NEW r \in Request, Handler(r)
        PROVE  Inductive'
    BY <1>2, DraftReadsKeepInductive, EndsKeepInductive, BeginMergeKeepsInductive,
       CascadeKeepsInductive, CommitMergeKeepsInductive, BeginOthersKeepsInductive,
       BeginCorrectKeepsInductive, RetireKeepsInductive, CommitRemoveKeepsInductive
    DEF Handler
  <1>3. CASE Environment \/ \E d \in DraftRow : Purge(d)
    BY <1>3, BesidesKeepInductive
  <1> QED
    BY <1>1, <1>2, <1>3 DEF Next

\* The strengthened invariant holds in every reachable state.
LEMMA SupplementInductive == Spec => []Inductive
  <1> QED
    BY SupplementInit, SupplementNext, PTL DEF Spec

\* The locks do what they are taken for: one merge at a time, in a round nobody
\* books meanwhile and with a number that stays free; a cancelled or corrected
\* version that stays official to the end; and no fork overlooked but a late one.
THEOREM SupplementInvariant == Spec => []LocksHold
  <1>1. Inductive => LocksHold
    BY DEF Inductive
  <1> QED
    BY <1>1, SupplementInductive, PTL

\* No value ever leaves its column.
THEOREM SupplementTypeCorrect == Spec => []TypeOK
  <1>1. Inductive => TypeOK
    BY DEF Inductive
  <1> QED
    BY <1>1, SupplementInductive, PTL

\* However the requests interleave, and whatever an edit of the round writes back,
\* at most one version is official, the newest.
THEOREM SupplementOfficialIsNewest == Spec => []OfficialIsNewest
  <1>1. Inductive => OfficialIsNewest
    BY DEF Inductive
  <1> QED
    BY <1>1, SupplementInductive, PTL

\* An official version means booked projects, and a booked round unless an edit
\* of the round has written an old mark back since.
THEOREM SupplementOfficialIsBooked == Spec => []OfficialIsBooked
  <1>1. Inductive => OfficialIsBooked
    BY DEF Inductive
  <1> QED
    BY <1>1, SupplementInductive, PTL

\* The lineage always points at a version that lists the project, and at the
\* official one when there is one.
THEOREM SupplementLeafIsOfficial == Spec => []LeafIsOfficial
  <1>1. Inductive => LeafIsOfficial
    BY DEF Inductive
  <1> QED
    BY <1>1, SupplementInductive, PTL

(*****************************************************************************)
(* The book as its readers see it.                                           *)
(*****************************************************************************)

\* The steps in which the book does not move.
QuietStep ==
    /\ Next
    /\ \A r \in Request : ~CommitMerge(r) /\ ~CommitCancel(r) /\ ~CommitCorrect(r)

\* No step but a committing merge, a cancel and a correction touches a version.
LEMMA OthersKeepVersions ==
    ASSUME QuietStep
    PROVE  version' = version
  <1>1. ASSUME NEW r \in Request, Handler(r), QuietStep
        PROVE  version' = version
    BY <1>1 DEF QuietStep, Handler, BeginCreate, BeginUpload, BeginGenerate, BeginReuse,
       BeginDiscard, BeginRestore, BeginMerge, BeginCancel, BeginCorrect, BeginRemove,
       CommitRemove, Cascade, Save, BeginRound, SaveRound, AbortMerge, AbortCorrection, bookVars
  <1>2. CASE Environment \/ \E d \in DraftRow : Purge(d)
    BY <1>2 DEF Environment, StatusChange, Fork, SiblingBook, Purge, bookVars
  <1> QED
    BY <1>1, <1>2 DEF QuietStep, Next

\* A round without versions is a book without versions.
LEMMA SupplementBookInit == Init => Book!BookInit
  <1> SUFFICES ASSUME Init PROVE Book!BookInit
    OBVIOUS
  <1>1. Published = {} /\ Completed = {}
    BY DEF Init, Published, Completed
  <1>2. MaxNumber = 0 /\ Official = 0
    BY <1>1 DEF MaxNumber, Official
  <1>3. [v \in VersionNo |-> version[v].list] = [v \in Book!Number |-> {}]
    BY DEF Init, VersionNo, Book!Number
  <1> QED
    BY <1>2, <1>3 DEF Book!BookInit

\* A committing merge publishes, a cancel or a correction retires, and nothing
\* else shows.
LEMMA SupplementBookStep ==
    ASSUME Inductive, [Next]_vars
    PROVE  [Book!BookNext]_(Book!bookVars)
  <1> DEFINE printed == [w \in VersionNo |-> version[w].list]
  <1>1. ASSUME version' = version
        PROVE  UNCHANGED Book!bookVars
    BY <1>1 DEF Book!bookVars, MaxNumber, Official, Published, Completed
  <1>2. ASSUME NEW r \in Request, CommitMerge(r)
        PROVE  Book!Publish
    <2> DEFINE v == request[r].number
               S == request[r].list
    <2>1. /\ v = MaxNumber + 1 /\ v \in VersionNo
          /\ S \in SUBSET Project /\ S # {}
          /\ \A w \in VersionNo :
                version'[w] = IF w = v THEN [status |-> "completed", list |-> S]
                              ELSE version[w]
          /\ MaxNumber' = v
          /\ Completed = {} /\ Completed' = {v}
      BY <1>2, MergeCommitted
    <2>2. Official = 0 /\ Official' = v
      BY <2>1 DEF Official
    <2>3. MaxNumber \in 0..MaxVersion
      BY Parts, HighestTyped
    <2>4. MaxNumber < MaxVersion
      BY <2>1, <2>3, ConstantsAssumption DEF VersionNo
    <2>5. printed' = [printed EXCEPT ![v] = S]
      <3> HIDE DEF v
      <3>1. \A w \in VersionNo : version'[w].list = IF w = v THEN S ELSE version[w].list
        BY <2>1
      <3>2. [printed EXCEPT ![v] = S]
               = [w \in VersionNo |-> IF w = v THEN S ELSE version[w].list]
        BY <2>1
      <3> QED
        BY <3>1, <3>2
    <2> QED
      BY <2>1, <2>2, <2>4, <2>5 DEF Book!Publish
  <1>3. ASSUME NEW r \in Request, CommitCancel(r) \/ CommitCorrect(r)
        PROVE  Book!Retire
    <2> DEFINE v == request[r].version
    <2>1. v \in Completed /\ Deprecate(v)
      BY <1>3 DEF Inductive, LocksHold, LockedIsOfficial, CommitCancel, CommitCorrect
    <2>2. /\ v \in VersionNo /\ v = MaxNumber
          /\ \A w \in VersionNo : version'[w].list = version[w].list
          /\ MaxNumber' = MaxNumber /\ Completed = {v} /\ Completed' = {}
      BY <2>1, RetiredVersions
    <2>3. v # 0 /\ Official = MaxNumber /\ Official' = 0
      BY <2>2, ConstantsAssumption DEF Official, VersionNo
    <2>4. printed' = printed
      BY <2>2
    <2> QED
      BY <2>2, <2>3, <2>4 DEF Book!Retire
  <1>4. CASE QuietStep
    BY <1>1, <1>4, OthersKeepVersions
  <1>5. CASE UNCHANGED vars
    BY <1>1, <1>5 DEF vars, bookVars
  <1> QED
    BY <1>2, <1>3, <1>4, <1>5 DEF Book!BookNext, QuietStep

\* Refinement: with its two locks and its two unique indexes the service is a
\* published book, like the one that revisions assemble by other means.
THEOREM SupplementIsPublishedBook == Spec => IsPublishedBook
  <1>1. Init => Book!BookInit
    BY SupplementBookInit
  <1>2. Inductive /\ [Next]_vars => [Book!BookNext]_(Book!bookVars)
    BY SupplementBookStep
  <1> QED
    BY <1>1, <1>2, SupplementInductive, PTL DEF Spec, IsPublishedBook, Book!BookSpec

(*****************************************************************************)
(* Forked projects.                                                          *)
(*****************************************************************************)

\* An un-booking spares a project outside the list of the version.
LEMMA UnbookSparesOthers ==
    ASSUME TypeOK, NEW v \in VersionNo, Unbook(v), NEW x \in Project, x \notin version[v].list
    PROVE  project'[x].isBooked = project[x].isBooked /\ project'[x].deleted = project[x].deleted
  <1>1. project[x] \in ProjectRow
    BY DEF TypeOK, ProjectRow
  <1>2. project'[x] = [project[x] EXCEPT !.isBooked = @ /\ x \notin version[v].list]
    BY DEF Unbook
  <1>3. (project[x].isBooked /\ x \notin version[v].list) = project[x].isBooked
    BY <1>1 DEF ProjectRow
  <1> QED
    BY <1>1, <1>2, <1>3 DEF ProjectRow

\* A request past its guard touches no forked project that it could have seen.
LEMMA CommitsSpareForked ==
    ASSUME Inductive, NEW r \in Request, NEW x \in Project,
           project[x].forked, x \notin request[r].late,
           CommitMerge(r) \/ CommitCancel(r) \/ CommitCorrect(r) \/ CommitRemove(r)
    PROVE  /\ project[x].isBooked => project'[x].isBooked
           /\ ~project[x].deleted => ~project'[x].deleted
  <1>1. TypeOK /\ ForkedAmong(Checked(request[r])) \subseteq request[r].late
    BY DEF Inductive, LocksHold, ForksKnown
  <1>2. x \notin Checked(request[r])
    BY <1>1 DEF ForkedAmong
  <1>3. x \notin request[r].doomed
    BY <1>2 DEF Checked
  <1>4. CASE CommitMerge(r)
    <2>1. project'[x] = Marked(x, request[r].doomed, request[r].list)
      BY <1>4 DEF CommitMerge, Stamped, Marked
    <2>2. request[r].doomed \in SUBSET Project /\ request[r].list \in SUBSET Project
      BY <1>1 DEF TypeOK, RequestRecord
    <2> DEFINE gone == request[r].doomed
               booked == request[r].list
    <2>3. /\ Marked(x, gone, booked).isBooked = (project[x].isBooked \/ x \in booked)
          /\ Marked(x, gone, booked).deleted = (project[x].deleted \/ x \in gone)
      BY <1>1, <2>2, MarkedTyped
    <2> QED
      BY <1>3, <2>1, <2>3
  <1>5. CASE CommitRemove(r)
    <2>1. project[x] \in ProjectRow
      BY <1>1 DEF TypeOK, ProjectRow
    <2>2. project'[x] = [project[x] EXCEPT !.deleted = @ \/ x \in request[r].doomed]
      BY <1>5 DEF CommitRemove
    <2>3. /\ project'[x].deleted = (project[x].deleted \/ x \in request[r].doomed)
          /\ project'[x].isBooked = project[x].isBooked
      BY <2>1, <2>2 DEF ProjectRow
    <2> QED
      BY <1>3, <2>3
  <1>6. ASSUME Unbook(request[r].version), request[r].kind \in {"cancel", "reset"}
        PROVE  project'[x].isBooked = project[x].isBooked /\ project'[x].deleted = project[x].deleted
    <2>1. x \notin version[request[r].version].list
      BY <1>2, <1>6 DEF Checked
    <2>2. request[r].version \in VersionNo
      BY <1>6 DEF Inductive, LocksHold, LockedIsOfficial, Completed, CorrectKind
    <2> QED
      BY <1>1, <1>6, <2>1, <2>2, UnbookSparesOthers
  <1>7. CASE CommitCancel(r)
    BY <1>6, <1>7 DEF CommitCancel
  <1>8. CASE CommitCorrect(r)
    BY <1>6, <1>8 DEF CommitCorrect
  <1> QED
    BY <1>4, <1>5, <1>7, <1>8

\* Neither a cascade nor a removal, a cancel or a correction touches a project
\* that a revision had forked when the request looked for descendants.
THEOREM SupplementForksAreKept == Spec => ForkedSourceKept
  <1> DEFINE Kept == \A p \in Project : project[p].forked /\ ~ForkedLate(p) =>
                        /\ project[p].isBooked => project'[p].isBooked
                        /\ ~project[p].deleted => ~project'[p].deleted
  <1>1. Inductive /\ [Next]_vars => [Kept]_vars
    <2> SUFFICES ASSUME Inductive, Next, NEW x \in Project, project[x].forked, ~ForkedLate(x)
                 PROVE  /\ project[x].isBooked => project'[x].isBooked
                        /\ ~project[x].deleted => ~project'[x].deleted
      BY DEF vars
    <2> DEFINE Safe == /\ project[x].isBooked => project'[x].isBooked
                       /\ ~project[x].deleted => ~project'[x].deleted
    <2>0. TypeOK
      BY DEF Inductive
    <2>1. ASSUME project' = project
          PROVE  Safe
      BY <2>1
    <2>2. ASSUME NEW r \in Request,
                 CommitMerge(r) \/ CommitCancel(r) \/ CommitCorrect(r) \/ CommitRemove(r)
          PROVE  Safe
      <3>1. x \notin request[r].late
        BY DEF ForkedLate
      <3> QED
        BY <2>2, <3>1, CommitsSpareForked
    <2>3. ASSUME NEW p \in Project, StatusChange(p)
          PROVE  Safe
      BY <2>0, <2>3 DEF StatusChange, TypeOK
    <2>4. ASSUME NEW p \in Forkable, Fork(p)
          PROVE  Safe
      BY <2>0, <2>4 DEF Fork, TypeOK
    <2>5. ASSUME NEW r \in Request, Handler(r),
                 ~CommitMerge(r), ~CommitCancel(r), ~CommitCorrect(r), ~CommitRemove(r)
          PROVE  project' = project
      BY <2>5 DEF Handler, BeginCreate, BeginUpload, BeginGenerate, BeginReuse, BeginDiscard,
         BeginRestore, BeginMerge, BeginCancel, BeginCorrect, BeginRemove, Cascade, Save,
         BeginRound, SaveRound, AbortMerge, AbortCorrection
    <2>6. ASSUME SiblingBook \/ \E d \in DraftRow : Purge(d)
          PROVE  project' = project
      BY <2>6 DEF SiblingBook, Purge
    <2> QED
      BY <2>1, <2>2, <2>3, <2>4, <2>5, <2>6 DEF Next, Environment
  <1> QED
    BY <1>1, SupplementInductive, PTL DEF Spec, ForkedSourceKept
===============================================================================
