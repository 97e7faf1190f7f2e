------------------------- MODULE KnowledgeHubProofs -------------------------
(* The knowledge base never loses an edit, keeps every revision and can     *)
(* trace what came from outside, for every number of entries, submissions,  *)
(* requests in progress and versions.                                       *)
EXTENDS KnowledgeHub, TLAPS

(* What the lemmas below conclude of a request that stays in progress while *)
(* another one writes.                                                      *)
EntriesGrow ==
  \A e \in Entry :
    Exists(e) =>
      /\ Exists(e)'
      /\ entry'[e].version >= entry[e].version
      /\ entry'[e].version = entry[e].version => entry'[e].text = entry[e].text

StagedGrow ==
  /\ \A s \in Submission : staged[s].status # "none" => staged'[s].status # "none"
  /\ \A s \in Submission : s \in refused' /\ s \notin refused => staged[s].status = "none"

(* The fields that a request of each kind has. *)
LEMMA RequestFields ==
  ASSUME NEW q \in RequestRow
  PROVE  /\ q.kind = "edit" => /\ q.entry \in Entry /\ q.from \in Version
                               /\ q.seen \in Text \cup {NoText} /\ q.text \in Text
         /\ q.kind \in StatusKind => q.entry \in Entry
         /\ q.kind \in ReviewKind => q.item \in Submission
         /\ q.kind = "receive" => q.item \in Submission /\ q.valid \in BOOLEAN
         /\ q.kind = "idle" => q = Idle
BY DEF RequestRow, Idle, StatusKind, ReviewKind

(* A request stays sound while entries grow and submissions are kept. *)
LEMMA StaysSound ==
  ASSUME NEW q \in RequestRow, RequestSound(q), TypeOK, TypeOK', EntriesGrow, StagedGrow
  PROVE  RequestSound(q)'
<1>1. ASSUME q.kind \in StatusKind \cup {"edit"} PROVE Exists(q.entry)'
  BY <1>1, RequestFields DEF RequestSound, EntriesGrow
<1>2. ASSUME q.kind = "edit"
      PROVE  /\ q.from < MaxVersion /\ q.from <= entry'[q.entry].version
             /\ q.from = entry'[q.entry].version => q.seen = entry'[q.entry].text
  <2>1. q.entry \in Entry /\ q.from \in Nat
    BY <1>2, RequestFields, HubAssumption DEF Version
  <2>2. entry[q.entry].version \in Nat /\ entry'[q.entry].version \in Nat
    BY <2>1, HubAssumption DEF TypeOK, EntryRow
  <2>3. /\ q.from < MaxVersion /\ q.from <= entry[q.entry].version
        /\ q.from = entry[q.entry].version => q.seen = entry[q.entry].text
        /\ Exists(q.entry)
    BY <1>2 DEF RequestSound
  <2>4. /\ entry'[q.entry].version >= entry[q.entry].version
        /\ entry'[q.entry].version = entry[q.entry].version
             => entry'[q.entry].text = entry[q.entry].text
    BY <2>1, <2>3 DEF EntriesGrow
  <2>. QED BY <2>1, <2>2, <2>3, <2>4
<1>3. ASSUME q.kind \in ReviewKind
      PROVE  q.item \notin refused' /\ staged'[q.item].status # "none"
  BY <1>3, RequestFields DEF RequestSound, StagedGrow
<1>. QED BY <1>1, <1>2, <1>3 DEF RequestSound, Exists

(* A new value of one request leaves the others alone. *)
LEMMA RequestsStaySound ==
  ASSUME HubInvariant, TypeOK', EntriesGrow, StagedGrow,
         \A t \in Slot : request'[t] \in {Idle, request[t]}
  PROVE  RequestsSound'
<1>1. \A q \in RequestRow : RequestSound(q) => RequestSound(q)'
  BY StaysSound DEF HubInvariant
<1>2. ASSUME NEW t \in Slot PROVE RequestSound(request[t])'
  <2>1. request[t] \in RequestRow /\ RequestSound(request[t])
    BY DEF HubInvariant, TypeOK, RequestsSound
  <2>2. CASE request'[t] = request[t]
    BY <1>1, <2>1, <2>2 DEF RequestSound, Exists
  <2>3. CASE request'[t] = Idle
    BY <2>3 DEF RequestSound, Idle, StatusKind, ReviewKind
  <2>. QED BY <2>2, <2>3
<1>. QED BY <1>2 DEF RequestsSound

-----------------------------------------------------------------------------
(* Writes to entries. *)

LEMMA NewIdIsUnused ==
  ASSUME \E e \in Entry : ~Exists(e)
  PROVE  NewId \in Entry /\ ~Exists(NewId)
BY DEF NewId

LEMMA RowFields ==
  ASSUME TypeOK, NEW e \in Entry
  PROVE  /\ entry[e] \in EntryRow /\ entry[e].version \in 0..MaxVersion
         /\ entry[e].text \in Text \cup {NoText}
         /\ entry[e].origin \in Submission \cup {Curated}
         /\ history[e] \in [Version -> Revision]
BY DEF TypeOK, EntryRow

LEMMA SameEntriesGrow ==
  ASSUME TypeOK, entry' = entry
  PROVE  EntriesGrow
<1>1. \A e \in Entry : entry[e].version \in 0..MaxVersion
  BY RowFields
<1>2. \A e \in Entry : entry[e].version >= entry[e].version
  BY <1>1, HubAssumption
<1>. QED BY <1>2 DEF EntriesGrow, Exists

(* An insertion starts a history and touches no other entry. *)
LEMMA InsertKeepsHistory ==
  ASSUME HubInvariant, NEW text \in Text, NEW origin \in Submission \cup {Curated},
         \E e \in Entry : ~Exists(e), Insert(NewId, text, origin)
  PROVE  /\ entry' \in [Entry -> EntryRow]
         /\ history' \in [Entry -> [Version -> Revision]]
         /\ EntriesGrow /\ HistoryMatches' /\ NoLostEdit'
<1>. DEFINE n == NewId
<1>. HIDE DEF n
<1>1. n \in Entry /\ ~Exists(n)
  BY NewIdIsUnused DEF n
<1>2. 1 \in Version /\ Version \subseteq Nat
  BY HubAssumption DEF Version
<1>3. /\ TypeOK /\ HistoryMatches /\ NoLostEdit
      /\ entry \in [Entry -> EntryRow] /\ history \in [Entry -> [Version -> Revision]]
  BY DEF HubInvariant, TypeOK
<1>4. /\ entry'[n] = [status |-> "draft", deleted |-> FALSE, version |-> 1,
                      text |-> text, origin |-> origin]
      /\ history'[n] = [history[n] EXCEPT ![1] = [text |-> text, over |-> NoText]]
      /\ entry' = [entry EXCEPT ![n] = entry'[n]]
      /\ history' = [history EXCEPT ![n] = history'[n]]
  BY <1>1, <1>3 DEF Insert, n
<1>5. entry'[n] \in EntryRow
  BY <1>4, HubAssumption DEF EntryRow
<1>6. history'[n] \in [Version -> Revision]
  <2>1. [text |-> text, over |-> NoText] \in Revision
    BY DEF Revision
  <2>. QED BY <1>1, <1>2, <1>3, <1>4, <2>1
<1>7. \A e \in Entry : e # n => entry'[e] = entry[e] /\ history'[e] = history[e]
  BY <1>1, <1>3, <1>4
<1>8. EntriesGrow
  <2>. SUFFICES ASSUME NEW e \in Entry, Exists(e)
                PROVE  entry'[e] = entry[e] /\ entry[e].version >= entry[e].version
    BY DEF EntriesGrow, Exists
  <2>. QED BY <1>1, <1>3, <1>7, RowFields
<1>9. \A v \in Version : history[n][v] = NoRevision
  <2>1. entry[n].version = 0
    BY <1>1, <1>3, RowFields DEF HistoryMatches
  <2>. QED BY <1>1, <1>2, <1>3, <2>1 DEF HistoryMatches, Version
<1>10. HistoryMatches'
  <2>1. /\ \A v \in Version : history'[n][v] # NoRevision <=> v <= 1
        /\ history'[n][1].text = text
    <3>1. [text |-> text, over |-> NoText] # NoRevision
      BY HubAssumption DEF NoRevision
    <3>2. history'[n][1] = [text |-> text, over |-> NoText]
      BY <1>1, <1>2, <1>3, <1>4
    <3>3. \A v \in Version : v # 1 => history'[n][v] = NoRevision
      BY <1>1, <1>2, <1>3, <1>4, <1>9
    <3>. QED BY <3>1, <3>2, <3>3 DEF Version
  <2>2. ASSUME NEW e \in Entry, e # n
        PROVE  /\ \A v \in Version : history'[e][v] # NoRevision <=> v <= entry'[e].version
               /\ entry'[e].status # "none" <=> entry'[e].version > 0
               /\ entry'[e].status # "none"
                    => history'[e][entry'[e].version].text = entry'[e].text
    BY <2>2, <1>3, <1>7 DEF HistoryMatches, Exists
  <2>3. /\ entry'[n].status # "none" /\ entry'[n].version = 1 /\ entry'[n].text = text
    BY <1>4
  <2>. QED BY <2>1, <2>2, <2>3 DEF HistoryMatches, Exists
<1>11. NoLostEdit'
  <2>. SUFFICES ASSUME NEW e \in Entry, NEW v \in Version, NEW w \in Version,
                       w = v + 1, w <= entry'[e].version
                PROVE  history'[e][w].over = history'[e][v].text
    BY DEF NoLostEdit
  <2>1. e # n
    BY <1>4, HubAssumption DEF Version
  <2>. QED BY <1>3, <1>7, <2>1 DEF NoLostEdit
<1>. QED BY <1>3, <1>4, <1>5, <1>6, <1>8, <1>10, <1>11

(* A write that leaves version, text and origin of an entry alone. *)
LEMMA OtherColumnsKeepHistory ==
  ASSUME HubInvariant, NEW x \in Entry, Exists(x), NEW row \in EntryRow,
         row.status # "none", row.version = entry[x].version, row.text = entry[x].text,
         row.origin = entry[x].origin,
         entry' = [entry EXCEPT ![x] = row], history' = history
  PROVE  /\ entry' \in [Entry -> EntryRow]
         /\ EntriesGrow /\ HistoryMatches' /\ NoLostEdit'
         /\ \A e \in Entry : Exists(e) <=> Exists(e)'
         /\ \A e \in Entry : entry'[e].origin = entry[e].origin
<1>1. /\ TypeOK /\ HistoryMatches /\ NoLostEdit
      /\ entry \in [Entry -> EntryRow] /\ history \in [Entry -> [Version -> Revision]]
  BY DEF HubInvariant, TypeOK
<1>2. entry' \in [Entry -> EntryRow]
  BY <1>1
<1>3. \A e \in Entry : /\ Exists(e) <=> Exists(e)'
                       /\ entry'[e].version = entry[e].version
                       /\ entry'[e].text = entry[e].text
                       /\ entry'[e].origin = entry[e].origin
  BY <1>1 DEF Exists
<1>4. EntriesGrow
  <2>. SUFFICES ASSUME NEW e \in Entry
                PROVE  entry[e].version >= entry[e].version
    BY <1>3 DEF EntriesGrow
  <2>. QED BY <1>1, RowFields
<1>5. HistoryMatches'
  BY <1>1, <1>3 DEF HistoryMatches, Exists
<1>6. NoLostEdit'
  BY <1>1, <1>3 DEF NoLostEdit
<1>. QED BY <1>2, <1>3, <1>4, <1>5, <1>6

(* An edit that is still current appends one revision, and its editor has   *)
(* read the one before it.                                                  *)
LEMMA EditKeepsHistory ==
  ASSUME HubInvariant, NEW q \in RequestRow, RequestSound(q), q.kind = "edit",
         StillCurrent(q),
         history' = [history EXCEPT ![q.entry] = Revised(q)],
         entry' = [entry EXCEPT ![q.entry] = Edited(q)]
  PROVE  /\ entry' \in [Entry -> EntryRow]
         /\ history' \in [Entry -> [Version -> Revision]]
         /\ EntriesGrow /\ HistoryMatches' /\ NoLostEdit'
         /\ \A e \in Entry : Exists(e) <=> Exists(e)'
         /\ \A e \in Entry : entry'[e].origin = entry[e].origin
<1>. DEFINE x == q.entry  n == q.from  new == [text |-> q.text, over |-> q.seen]
<1>1. /\ x \in Entry /\ n \in Version /\ q.seen \in Text \cup {NoText} /\ q.text \in Text
      /\ Exists(x) /\ n < MaxVersion /\ entry[x].version = n
      /\ q.seen = entry[x].text
  BY RequestFields DEF RequestSound, StillCurrent, FromVersion
<1>2. n \in Nat /\ n + 1 \in Version
  BY <1>1, HubAssumption DEF Version
<1>3. /\ TypeOK /\ HistoryMatches /\ NoLostEdit
      /\ entry \in [Entry -> EntryRow] /\ history \in [Entry -> [Version -> Revision]]
  BY DEF HubInvariant, TypeOK
<1>4. new \in Revision /\ new # NoRevision
  BY <1>1, HubAssumption DEF Revision, NoRevision
<1>. HIDE DEF x, n, new
<1>5. /\ history' = [history EXCEPT ![x] = [history[x] EXCEPT ![n + 1] = new]]
      /\ entry' = [entry EXCEPT ![x] =
           [status |-> entry[x].status, deleted |-> entry[x].deleted,
            version |-> n + 1, text |-> q.text, origin |-> entry[x].origin]]
  BY DEF Revised, Edited, FromVersion, x, n, new
<1>6. /\ entry' \in [Entry -> EntryRow] /\ history' \in [Entry -> [Version -> Revision]]
  <2>1. entry[x] \in EntryRow
    BY <1>1, <1>3
  <2>2. [status |-> entry[x].status, deleted |-> entry[x].deleted,
         version |-> n + 1, text |-> q.text, origin |-> entry[x].origin] \in EntryRow
    <3>1. n + 1 \in 0..MaxVersion
      BY <1>2 DEF Version
    <3>. QED BY <1>1, <2>1, <3>1 DEF EntryRow
  <2>3. entry' \in [Entry -> EntryRow]
    BY <1>1, <1>3, <1>5, <2>2
  <2>4. [history[x] EXCEPT ![n + 1] = new] \in [Version -> Revision]
    BY <1>1, <1>2, <1>3, <1>4
  <2>5. history' \in [Entry -> [Version -> Revision]]
    BY <1>1, <1>3, <1>5, <2>4
  <2>. QED BY <2>3, <2>5
<1>7. \A e \in Entry : e # x => entry'[e] = entry[e] /\ history'[e] = history[e]
  BY <1>1, <1>3, <1>5
<1>8. /\ entry'[x].version = n + 1 /\ entry'[x].text = q.text
      /\ entry'[x].status = entry[x].status /\ entry'[x].origin = entry[x].origin
  BY <1>1, <1>3, <1>5 DEF EntryRow
<1>9. /\ history'[x][n + 1] = new
      /\ \A v \in Version : v # n + 1 => history'[x][v] = history[x][v]
  BY <1>1, <1>2, <1>3, <1>5
<1>10. /\ \A e \in Entry : Exists(e) <=> Exists(e)'
       /\ \A e \in Entry : entry'[e].origin = entry[e].origin
  BY <1>7, <1>8 DEF Exists
<1>11. EntriesGrow
  <2>. SUFFICES ASSUME NEW e \in Entry
                PROVE  /\ entry'[e].version >= entry[e].version
                       /\ entry'[e].version = entry[e].version
                            => entry'[e].text = entry[e].text
    BY <1>10 DEF EntriesGrow
  <2>1. CASE e = x
    BY <1>1, <1>2, <1>8, <2>1
  <2>2. CASE e # x
    <3>1. entry[e].version \in Nat
      BY <1>3, HubAssumption, RowFields
    <3>. QED BY <1>7, <2>2, <3>1
  <2>. QED BY <2>1, <2>2
<1>12. HistoryMatches'
  <2>. SUFFICES ASSUME NEW e \in Entry
                PROVE  /\ \A v \in Version : history'[e][v] # NoRevision
                                             <=> v <= entry'[e].version
                       /\ Exists(e)' <=> entry'[e].version > 0
                       /\ Exists(e)' => history'[e][entry'[e].version].text = entry'[e].text
    BY DEF HistoryMatches
  <2>1. CASE e = x
    <3>1. \A v \in Version : history[x][v] # NoRevision <=> v <= n
      BY <1>1, <1>3 DEF HistoryMatches
    <3>2. \A v \in Version : history'[x][v] # NoRevision <=> v <= n + 1
      <4>. SUFFICES ASSUME NEW v \in Version
                    PROVE  history'[x][v] # NoRevision <=> v <= n + 1
        OBVIOUS
      <4>1. v \in Nat
        BY DEF Version
      <4>2. CASE v = n + 1
        BY <1>2, <1>4, <1>9, <4>2
      <4>3. CASE v # n + 1
        <5>1. v <= n <=> v <= n + 1
          BY <1>2, <4>1, <4>3
        <5>. QED BY <1>9, <3>1, <4>3, <5>1
      <4>. QED BY <4>2, <4>3
    <3>3. history'[x][n + 1].text = q.text
      BY <1>9 DEF new
    <3>. QED BY <1>1, <1>2, <1>8, <1>10, <2>1, <3>2, <3>3
  <2>2. CASE e # x
    BY <1>3, <1>7, <1>10, <2>2 DEF HistoryMatches
  <2>. QED BY <2>1, <2>2
<1>13. NoLostEdit'
  <2>. SUFFICES ASSUME NEW e \in Entry, NEW v \in Version, NEW w \in Version,
                       w = v + 1, w <= entry'[e].version
                PROVE  history'[e][w].over = history'[e][v].text
    BY DEF NoLostEdit
  <2>1. v \in Nat /\ w \in Nat
    BY DEF Version
  <2>2. CASE e # x
    BY <1>3, <1>7, <2>2 DEF NoLostEdit
  <2>3. CASE e = x /\ w = n + 1
    <3>1. v = n
      BY <1>2, <2>1, <2>3
    <3>2. history[x][n].text = entry[x].text
      BY <1>1, <1>3 DEF HistoryMatches
    <3>3. history'[x][w].over = q.seen /\ history'[x][v] = history[x][n]
      BY <1>2, <1>9, <2>1, <2>3, <3>1 DEF new
    <3>. QED BY <1>1, <2>3, <3>2, <3>3
  <2>4. CASE e = x /\ w # n + 1
    <3>1. w <= n /\ v # n + 1
      BY <1>2, <1>8, <2>1, <2>4
    <3>2. history[x][w].over = history[x][v].text
      BY <1>1, <1>3, <3>1 DEF NoLostEdit
    <3>. QED BY <1>9, <2>4, <3>1, <3>2
  <2>. QED BY <2>2, <2>3, <2>4
<1>. QED BY <1>6, <1>10, <1>11, <1>12, <1>13

-----------------------------------------------------------------------------
(* One step of each kind. *)

(* A step that writes to entries only. *)
LEMMA EntryWriteKeepsInvariant ==
  ASSUME HubInvariant,
         entry' \in [Entry -> EntryRow], history' \in [Entry -> [Version -> Revision]],
         EntriesGrow, HistoryMatches', NoLostEdit',
         \A e \in Entry : Exists(e)' =>
           \/ Exists(e) /\ entry'[e].origin = entry[e].origin
           \/ entry'[e].origin = Curated,
         \A e \in Entry : Exists(e) => entry'[e].origin = entry[e].origin,
         request' \in [Slot -> RequestRow],
         \A t \in Slot : request'[t] \in {Idle, request[t]},
         UNCHANGED <<staged, refused, purge>>
  PROVE  HubInvariant'
<1>1. TypeOK /\ TypeOK' /\ StagedSound
  BY DEF HubInvariant, TypeOK
<1>2. StagedGrow
  BY DEF StagedGrow
<1>3. RequestsSound'
  BY <1>1, <1>2, RequestsStaySound
<1>4. StagedSound'
  BY <1>1 DEF StagedSound
<1>5. ProvenanceKept'
  <2>. SUFFICES ASSUME NEW e \in Entry, Exists(e)', entry'[e].origin # Curated
                PROVE  LET l == staged[entry'[e].origin].entry IN
                       /\ l # NoEntry /\ entry'[l].status # "none"
                       /\ entry'[l].origin = entry'[e].origin
    BY DEF ProvenanceKept, Exists
  <2>1. Exists(e) /\ entry'[e].origin = entry[e].origin
    OBVIOUS
  <2>2. entry[e].origin \in Submission
    BY <1>1, <2>1, RowFields
  <2>. DEFINE l == staged[entry[e].origin].entry
  <2>3. l # NoEntry /\ Exists(l) /\ entry[l].origin = entry[e].origin
    BY <2>1 DEF HubInvariant, ProvenanceKept
  <2>4. l \in Entry
    BY <1>1, <2>2, <2>3 DEF TypeOK, StagedRow
  <2>5. entry'[l].status # "none" /\ entry'[l].origin = entry[l].origin
    BY <2>3, <2>4 DEF EntriesGrow, Exists
  <2>. QED BY <2>1, <2>3, <2>5
<1>6. RefusedStaysOut'
  <2>. SUFFICES ASSUME NEW e \in Entry, Exists(e)'
                PROVE  entry'[e].origin \notin refused
    BY DEF RefusedStaysOut, Exists
  <2>1. refused \subseteq Submission
    BY <1>1 DEF TypeOK
  <2>. QED BY <2>1, HubAssumption DEF HubInvariant, RefusedStaysOut
<1>. QED BY <1>1, <1>3, <1>4, <1>5, <1>6 DEF HubInvariant

LEMMA CreateEntryKeepsInvariant ==
  ASSUME HubInvariant, NEW text \in NewText, CreateEntry(text)
  PROVE  HubInvariant'
<1>1. /\ \E e \in Entry : ~Exists(e)
      /\ Insert(NewId, text, Curated)
      /\ UNCHANGED <<staged, refused, request, purge>>
      /\ text \in Text
  BY HubAssumption DEF CreateEntry
<1>2. /\ entry' \in [Entry -> EntryRow]
      /\ history' \in [Entry -> [Version -> Revision]]
      /\ EntriesGrow /\ HistoryMatches' /\ NoLostEdit'
  BY <1>1, InsertKeepsHistory
<1>3. NewId \in Entry /\ ~Exists(NewId)
  BY <1>1, NewIdIsUnused
<1>4. TypeOK /\ entry \in [Entry -> EntryRow] /\ request \in [Slot -> RequestRow]
  BY DEF HubInvariant, TypeOK
<1>5. /\ entry'[NewId].origin = Curated
      /\ \A e \in Entry : e # NewId => entry'[e] = entry[e]
  BY <1>1, <1>3, <1>4 DEF Insert
<1>6. /\ \A e \in Entry : Exists(e)' =>
           \/ Exists(e) /\ entry'[e].origin = entry[e].origin
           \/ entry'[e].origin = Curated
      /\ \A e \in Entry : Exists(e) => entry'[e].origin = entry[e].origin
  BY <1>3, <1>5 DEF Exists
<1>. QED BY <1>1, <1>2, <1>4, <1>6, EntryWriteKeepsInvariant

(* A commit leaves its slot idle and the other requests as they are. *)
LEMMA FinishLeavesOthers ==
  ASSUME HubInvariant, NEW r \in Slot, Finish(r)
  PROVE  /\ request' \in [Slot -> RequestRow]
         /\ \A t \in Slot : request'[t] \in {Idle, request[t]}
<1>1. request \in [Slot -> RequestRow] /\ Idle \in RequestRow
  BY DEF HubInvariant, TypeOK, RequestRow
<1>. QED BY <1>1 DEF Finish

LEMMA CommitEditKeepsInvariant ==
  ASSUME HubInvariant, NEW r \in Slot, CommitEdit(r)
  PROVE  HubInvariant'
<1>. DEFINE q == request[r]
<1>1. q \in RequestRow /\ RequestSound(q) /\ TypeOK
  BY DEF HubInvariant, TypeOK, RequestsSound
<1>2. q.kind = "edit" /\ Finish(r) /\ UNCHANGED <<staged, refused, purge>>
  BY DEF CommitEdit
<1>3. /\ request' \in [Slot -> RequestRow]
      /\ \A t \in Slot : request'[t] \in {Idle, request[t]}
  BY <1>2, FinishLeavesOthers
<1>4. /\ entry' \in [Entry -> EntryRow]
      /\ history' \in [Entry -> [Version -> Revision]]
      /\ EntriesGrow /\ HistoryMatches' /\ NoLostEdit'
      /\ \A e \in Entry : Exists(e) <=> Exists(e)'
      /\ \A e \in Entry : entry'[e].origin = entry[e].origin
  <2>1. CASE StillCurrent(q)
    <3>1. /\ history' = [history EXCEPT ![q.entry] = Revised(q)]
          /\ entry' = [entry EXCEPT ![q.entry] = Edited(q)]
      BY <2>1 DEF CommitEdit
    <3>. HIDE DEF q
    <3>. QED BY <1>1, <1>2, <2>1, <3>1, EditKeepsHistory
  <2>2. CASE ~StillCurrent(q)
    <3>1. UNCHANGED <<entry, history>>
      BY <2>2 DEF CommitEdit
    <3>. QED BY <3>1, SameEntriesGrow
           DEF HubInvariant, TypeOK, HistoryMatches, NoLostEdit, Exists
  <2>. QED BY <2>1, <2>2
<1>. QED BY <1>2, <1>3, <1>4, EntryWriteKeepsInvariant

LEMMA CommitTransitionKeepsInvariant ==
  ASSUME HubInvariant, NEW r \in Slot, CommitTransition(r)
  PROVE  HubInvariant'
<1>. DEFINE q == request[r]
            row == [entry[q.entry] EXCEPT
                      !.status = IF q.kind = "publish" THEN "published" ELSE "archived"]
<1>1. /\ q.kind \in {"publish", "archive"} /\ Finish(r)
      /\ entry' = [entry EXCEPT ![q.entry] = row]
      /\ UNCHANGED <<history, staged, refused, purge>>
  BY DEF CommitTransition
<1>2. q.entry \in Entry /\ Exists(q.entry) /\ TypeOK
  BY <1>1, RequestFields DEF HubInvariant, TypeOK, RequestsSound, RequestSound, StatusKind
<1>3. /\ row \in EntryRow /\ row.status # "none" /\ row.version = entry[q.entry].version
      /\ row.text = entry[q.entry].text /\ row.origin = entry[q.entry].origin
  BY <1>2, RowFields DEF EntryRow
<1>. HIDE DEF row
<1>4. /\ entry' \in [Entry -> EntryRow] /\ EntriesGrow /\ HistoryMatches' /\ NoLostEdit'
      /\ \A e \in Entry : Exists(e) <=> Exists(e)'
      /\ \A e \in Entry : entry'[e].origin = entry[e].origin
  BY <1>1, <1>2, <1>3, OtherColumnsKeepHistory
<1>5. history' \in [Entry -> [Version -> Revision]]
  BY <1>1, <1>2 DEF TypeOK
<1>. QED BY <1>1, <1>4, <1>5, FinishLeavesOthers, EntryWriteKeepsInvariant

LEMMA CommitDeleteKeepsInvariant ==
  ASSUME HubInvariant, NEW r \in Slot, CommitDelete(r)
  PROVE  HubInvariant'
<1>. DEFINE q == request[r]
            row == [entry[q.entry] EXCEPT !.deleted = TRUE]
<1>1. /\ q.kind = "delete" /\ Finish(r)
      /\ entry' = [entry EXCEPT ![q.entry] = row]
      /\ UNCHANGED <<history, staged, refused, purge>>
  BY DEF CommitDelete
<1>2. q.entry \in Entry /\ Exists(q.entry) /\ TypeOK
  BY <1>1, RequestFields DEF HubInvariant, TypeOK, RequestsSound, RequestSound, StatusKind
<1>3. /\ row \in EntryRow /\ row.status # "none" /\ row.version = entry[q.entry].version
      /\ row.text = entry[q.entry].text /\ row.origin = entry[q.entry].origin
  BY <1>2, RowFields DEF EntryRow, Exists
<1>. HIDE DEF row
<1>4. /\ entry' \in [Entry -> EntryRow] /\ EntriesGrow /\ HistoryMatches' /\ NoLostEdit'
      /\ \A e \in Entry : Exists(e) <=> Exists(e)'
      /\ \A e \in Entry : entry'[e].origin = entry[e].origin
  BY <1>1, <1>2, <1>3, OtherColumnsKeepHistory
<1>5. history' \in [Entry -> [Version -> Revision]]
  BY <1>1, <1>2 DEF TypeOK
<1>. QED BY <1>1, <1>4, <1>5, FinishLeavesOthers, EntryWriteKeepsInvariant

(* A step that writes to submissions only, and refuses only what is new. *)
LEMMA StagedWriteKeepsInvariant ==
  ASSUME HubInvariant, UNCHANGED <<entry, history>>,
         staged' \in [Submission -> StagedRow], refused' \in SUBSET Submission,
         purge' \in SUBSET Submission,
         request' \in [Slot -> RequestRow],
         \A t \in Slot : request'[t] \in {Idle, request[t]},
         StagedGrow, StagedSound',
         \A s \in Submission : staged'[s].entry = staged[s].entry
  PROVE  HubInvariant'
<1>1. TypeOK /\ TypeOK'
  BY DEF HubInvariant, TypeOK
<1>2. EntriesGrow
  BY <1>1, SameEntriesGrow
<1>3. RequestsSound'
  BY <1>1, <1>2, RequestsStaySound
<1>4. HistoryMatches' /\ NoLostEdit'
  BY DEF HubInvariant, HistoryMatches, NoLostEdit, Exists
<1>5. \A e \in Entry : Exists(e) /\ entry[e].origin # Curated =>
        /\ entry[e].origin \in Submission
        /\ staged[entry[e].origin].entry # NoEntry
  BY <1>1, RowFields DEF HubInvariant, ProvenanceKept
<1>6. ProvenanceKept'
  BY <1>5 DEF HubInvariant, ProvenanceKept, Exists
<1>7. RefusedStaysOut'
  <2>. SUFFICES ASSUME NEW e \in Entry, Exists(e), entry[e].origin \in refused'
                PROVE  FALSE
    BY DEF RefusedStaysOut, Exists
  <2>1. entry[e].origin \in Submission /\ entry[e].origin # Curated
    BY HubAssumption
  <2>2. staged[entry[e].origin].entry # NoEntry
    BY <1>5, <2>1
  <2>3. entry[e].origin \notin refused
    BY DEF HubInvariant, RefusedStaysOut
  <2>4. staged[entry[e].origin].status = "none"
    BY <2>1, <2>3 DEF StagedGrow
  <2>. QED BY <2>1, <2>2, <2>4 DEF HubInvariant, StagedSound
<1>. QED BY <1>1, <1>3, <1>4, <1>6, <1>7 DEF HubInvariant

LEMMA CommitReceiveKeepsInvariant ==
  ASSUME HubInvariant, NEW r \in Slot, CommitReceive(r)
  PROVE  HubInvariant'
<1>. DEFINE q == request[r]  s == q.item
<1>1. /\ q.kind = "receive" /\ Finish(r)
      /\ staged' = [staged EXCEPT ![s] = RowFor(q)]
      /\ refused' = IF staged[s].status = "none" /\ ~q.valid
                    THEN refused \cup {s} ELSE refused
      /\ UNCHANGED <<entry, history, purge>>
  BY DEF CommitReceive
<1>2. s \in Submission /\ q.valid \in BOOLEAN
  BY <1>1, RequestFields DEF HubInvariant, TypeOK
<1>3. TypeOK /\ StagedSound /\ staged \in [Submission -> StagedRow]
      /\ refused \subseteq Submission /\ purge \subseteq Submission
  BY DEF HubInvariant, TypeOK
<1>4. CASE staged[s].status # "none"
  <2>1. UNCHANGED <<staged, refused>>
    BY <1>1, <1>2, <1>3, <1>4 DEF RowFor
  <2>2. StagedGrow /\ StagedSound'
    BY <1>1, <1>3, <2>1 DEF StagedGrow, StagedSound
  <2>. QED BY <1>1, <1>3, <2>1, <2>2, FinishLeavesOthers, StagedWriteKeepsInvariant
<1>5. CASE staged[s].status = "none"
  <2>1. staged' = [staged EXCEPT ![s] = [status |-> Verdict(q.valid), entry |-> NoEntry]]
    BY <1>1, <1>5 DEF RowFor
  <2>2. Verdict(q.valid) \in {"quarantined", "rejected"}
        /\ (~q.valid => Verdict(q.valid) = "rejected")
    BY <1>2 DEF Verdict
  <2>3. [status |-> Verdict(q.valid), entry |-> NoEntry] \in StagedRow
    BY <2>2 DEF StagedRow
  <2>4. /\ staged' \in [Submission -> StagedRow]
        /\ staged'[s].status = Verdict(q.valid) /\ staged'[s].entry = NoEntry
        /\ \A t \in Submission : t # s => staged'[t] = staged[t]
    BY <1>2, <1>3, <2>1, <2>3
  <2>5. \A t \in Submission : staged'[t].entry = staged[t].entry
    BY <1>2, <1>3, <1>5, <2>4 DEF StagedSound
  <2>6. refused' \in SUBSET Submission /\ refused' \subseteq refused \cup {s}
        /\ (s \in refused' => ~q.valid)
    <3>1. s \notin refused
      BY <1>3, <1>5 DEF StagedSound
    <3>. QED BY <1>1, <1>2, <1>3, <1>5, <3>1
  <2>7. StagedGrow
    BY <1>5, <2>2, <2>4, <2>6 DEF StagedGrow
  <2>8. StagedSound'
    <3>1. \A t \in refused' : staged'[t].status \in {"rejected", "purged"}
      BY <1>2, <1>3, <2>2, <2>4, <2>6 DEF StagedSound
    <3>2. \A t \in Submission : staged'[t].status = "none" => staged'[t].entry = NoEntry
      BY <1>3, <2>4 DEF StagedSound
    <3>3. purge' \subseteq {t \in Submission : staged'[t].status # "none"}
      BY <1>1, <1>3, <2>2, <2>4 DEF StagedSound
    <3>. QED BY <3>1, <3>2, <3>3 DEF StagedSound
  <2>. QED BY <1>1, <1>3, <2>4, <2>5, <2>6, <2>7, <2>8, FinishLeavesOthers,
              StagedWriteKeepsInvariant
<1>. QED BY <1>4, <1>5

(* A verdict on items that have been received keeps their links. *)
LEMMA MarkingKeepsInvariant ==
  ASSUME HubInvariant, UNCHANGED <<entry, history, refused>>,
         NEW items \in SUBSET Submission, NEW status \in {"rejected", "purged"},
         \A s \in items : staged[s].status # "none",
         staged' = [s \in Submission |-> IF s \in items THEN Marked(s, status) ELSE staged[s]],
         purge' \in SUBSET purge,
         request' \in [Slot -> RequestRow],
         \A t \in Slot : request'[t] \in {Idle, request[t]}
  PROVE  HubInvariant'
<1>1. TypeOK /\ StagedSound /\ staged \in [Submission -> StagedRow]
      /\ refused \subseteq Submission /\ purge \subseteq Submission
  BY DEF HubInvariant, TypeOK
<1>2. \A s \in Submission : /\ Marked(s, status) \in StagedRow
                            /\ Marked(s, status).status = status
                            /\ Marked(s, status).entry = staged[s].entry
  BY <1>1 DEF Marked, StagedRow
<1>3. /\ staged' \in [Submission -> StagedRow]
      /\ \A s \in Submission : staged'[s].entry = staged[s].entry
      /\ \A s \in Submission :
           \/ staged'[s].status = staged[s].status
           \/ staged[s].status # "none" /\ staged'[s].status = status
  BY <1>1, <1>2
<1>4. StagedGrow
  BY <1>3 DEF StagedGrow
<1>5. StagedSound'
  BY <1>1, <1>3 DEF StagedSound
<1>. QED BY <1>1, <1>3, <1>4, <1>5, StagedWriteKeepsInvariant

LEMMA CommitRejectKeepsInvariant ==
  ASSUME HubInvariant, NEW r \in Slot, CommitReject(r)
  PROVE  HubInvariant'
<1>. DEFINE s == request[r].item
<1>1. /\ request[r].kind = "reject" /\ Finish(r)
      /\ staged' = [staged EXCEPT ![s] = Marked(s, "rejected")]
      /\ UNCHANGED <<entry, history, refused, purge>>
  BY DEF CommitReject
<1>2. s \in Submission /\ staged[s].status # "none"
  BY <1>1, RequestFields
     DEF HubInvariant, TypeOK, RequestsSound, RequestSound, ReviewKind
<1>3. staged' = [t \in Submission |-> IF t \in {s} THEN Marked(t, "rejected") ELSE staged[t]]
  BY <1>1, <1>2 DEF HubInvariant, TypeOK
<1>4. {s} \in SUBSET Submission /\ \A t \in {s} : staged[t].status # "none"
  BY <1>2
<1>5. UNCHANGED <<entry, history, refused>> /\ purge' \in SUBSET purge
  BY <1>1
<1>. HIDE DEF s
<1>. QED BY <1>1, <1>3, <1>4, <1>5, FinishLeavesOthers, MarkingKeepsInvariant

LEMMA CommitPurgeKeepsInvariant ==
  ASSUME HubInvariant, CommitPurge
  PROVE  HubInvariant'
<1>1. /\ staged' = [s \in Submission |->
           IF s \in purge THEN Marked(s, "purged") ELSE staged[s]]
      /\ purge' \in SUBSET purge
      /\ UNCHANGED <<entry, history, refused, request>>
  BY DEF CommitPurge
<1>2. /\ purge \in SUBSET Submission /\ \A s \in purge : staged[s].status # "none"
      /\ request \in [Slot -> RequestRow]
  BY DEF HubInvariant, TypeOK, StagedSound
<1>. QED BY <1>1, <1>2, MarkingKeepsInvariant

(* A promotion is an insertion and a verdict in one. *)
LEMMA CommitPromoteKeepsInvariant ==
  ASSUME HubInvariant, NEW r \in Slot, CommitPromote(r)
  PROVE  HubInvariant'
<1>. DEFINE s == request[r].item  n == NewId
<1>1. PICK text \in NewText :
        /\ request[r].kind = "promote" /\ Finish(r)
        /\ \E e \in Entry : ~Exists(e)
        /\ Insert(NewId, text, s)
        /\ staged' = [staged EXCEPT ![s] = [status |-> "promoted", entry |-> NewId]]
        /\ UNCHANGED <<refused, purge>>
  BY DEF CommitPromote
<1>2. s \in Submission /\ s \notin refused /\ staged[s].status # "none"
  BY <1>1, RequestFields
     DEF HubInvariant, TypeOK, RequestsSound, RequestSound, ReviewKind
<1>3. n \in Entry /\ ~Exists(n)
  BY <1>1, NewIdIsUnused
<1>4. TypeOK /\ StagedSound /\ ProvenanceKept /\ RefusedStaysOut
      /\ entry \in [Entry -> EntryRow] /\ staged \in [Submission -> StagedRow]
      /\ refused \subseteq Submission /\ purge \subseteq Submission
  BY DEF HubInvariant, TypeOK
<1>5. /\ entry' \in [Entry -> EntryRow]
      /\ history' \in [Entry -> [Version -> Revision]]
      /\ EntriesGrow /\ HistoryMatches' /\ NoLostEdit'
  <2>1. text \in Text /\ s \in Submission \cup {Curated}
    BY <1>2, HubAssumption
  <2>. HIDE DEF s
  <2>. QED BY <1>1, <2>1, InsertKeepsHistory
<1>6. /\ entry'[n].origin = s /\ entry'[n].status = "draft"
      /\ \A e \in Entry : e # n => entry'[e] = entry[e]
  BY <1>1, <1>3, <1>4 DEF Insert
<1>7. /\ staged' \in [Submission -> StagedRow]
      /\ staged'[s] = [status |-> "promoted", entry |-> n]
      /\ \A t \in Submission : t # s => staged'[t] = staged[t]
  <2>1. [status |-> "promoted", entry |-> n] \in StagedRow
    BY <1>3 DEF StagedRow
  <2>. QED BY <1>1, <1>2, <1>4, <2>1
<1>. HIDE DEF s, n
<1>8. StagedGrow
  BY <1>1, <1>2, <1>7 DEF StagedGrow
<1>9. StagedSound'
  BY <1>1, <1>2, <1>4, <1>7 DEF StagedSound
<1>10. TypeOK'
  BY <1>1, <1>4, <1>5, <1>7, FinishLeavesOthers DEF TypeOK
<1>11. RequestsSound'
  BY <1>1, <1>5, <1>8, <1>10, FinishLeavesOthers, RequestsStaySound
<1>12. ProvenanceKept'
  <2>. SUFFICES ASSUME NEW e \in Entry, Exists(e)', entry'[e].origin # Curated
                PROVE  LET l == staged'[entry'[e].origin].entry IN
                       /\ l # NoEntry /\ entry'[l].status # "none"
                       /\ entry'[l].origin = entry'[e].origin
    BY DEF ProvenanceKept, Exists
  <2>1. CASE entry'[e].origin = s
    <3>1. staged'[entry'[e].origin].entry = n
      BY <1>7, <2>1
    <3>. QED BY <1>3, <1>6, <2>1, <3>1, HubAssumption
  <2>2. CASE entry'[e].origin # s
    <3>1. e # n /\ Exists(e) /\ entry'[e].origin = entry[e].origin
      BY <1>6, <2>2 DEF Exists
    <3>2. entry[e].origin \in Submission
      BY <1>4, <3>1, RowFields
    <3>. DEFINE l == staged[entry[e].origin].entry
    <3>3. l # NoEntry /\ Exists(l) /\ entry[l].origin = entry[e].origin
      BY <1>4, <3>1 DEF ProvenanceKept
    <3>4. l \in Entry
      BY <1>4, <3>2, <3>3 DEF StagedRow
    <3>5. entry'[l] = entry[l]
      BY <1>3, <1>6, <3>3, <3>4
    <3>6. staged'[entry'[e].origin].entry = l
      BY <1>7, <2>2, <3>1, <3>2
    <3>. QED BY <3>1, <3>3, <3>5, <3>6 DEF Exists
  <2>. QED BY <2>1, <2>2
<1>13. RefusedStaysOut'
  <2>. SUFFICES ASSUME NEW e \in Entry, entry'[e].status # "none"
                PROVE  entry'[e].origin \notin refused
    BY <1>1 DEF RefusedStaysOut, Exists
  <2>1. CASE e = n
    BY <1>2, <1>6, <2>1
  <2>2. CASE e # n
    BY <1>4, <1>6, <2>2 DEF RefusedStaysOut, Exists
  <2>. QED BY <2>1, <2>2
<1>. QED BY <1>5, <1>9, <1>10, <1>11, <1>12, <1>13 DEF HubInvariant

(* A request that begins, or is given up, changes nothing else. *)
LEMMA RequestChangeKeepsInvariant ==
  ASSUME HubInvariant, NEW r \in Slot, NEW q \in RequestRow, RequestSound(q),
         request' = [request EXCEPT ![r] = q],
         UNCHANGED <<entry, history, staged, refused, purge>>
  PROVE  HubInvariant'
<1>1. TypeOK'
  BY DEF HubInvariant, TypeOK
<1>2. RequestsSound'
  <2>. SUFFICES ASSUME NEW t \in Slot PROVE RequestSound(request[t])'
    BY DEF RequestsSound
  <2>1. request'[t] = q \/ request'[t] = request[t]
    BY DEF HubInvariant, TypeOK
  <2>2. RequestSound(request[t])
    BY DEF HubInvariant, RequestsSound
  <2>. QED BY <2>1, <2>2 DEF RequestSound, Exists
<1>3. HistoryMatches' /\ NoLostEdit' /\ ProvenanceKept' /\ RefusedStaysOut' /\ StagedSound'
  BY DEF HubInvariant, HistoryMatches, NoLostEdit, ProvenanceKept, RefusedStaysOut,
         StagedSound, Exists
<1>. QED BY <1>1, <1>2, <1>3 DEF HubInvariant

LEMMA BeginsKeepInvariant ==
  ASSUME HubInvariant, NEW r \in Slot,
         \/ \E e \in Entry : \/ BeginTransition(r, e) \/ BeginDelete(r, e)
                            \/ \E text \in Text : BeginEdit(r, e, text)
         \/ \E s \in Submission :
              BeginReceive(r, s) \/ \E kind \in ReviewKind : BeginReview(r, s, kind)
         \/ Abort(r)
  PROVE  HubInvariant'
<1>1. TypeOK
  BY DEF HubInvariant
<1>2. ASSUME NEW e \in Entry, BeginTransition(r, e) PROVE HubInvariant'
  <2>1. PICK kind \in {"publish", "archive"} :
          /\ Exists(e) /\ Begin(r, [kind |-> kind, entry |-> e])
    BY <1>2 DEF BeginTransition, Found
  <2>2. [kind |-> kind, entry |-> e] \in RequestRow /\ RequestSound([kind |-> kind, entry |-> e])
    BY <2>1 DEF RequestRow, RequestSound, StatusKind, ReviewKind
  <2>. QED BY <2>1, <2>2, RequestChangeKeepsInvariant DEF Begin
<1>3. ASSUME NEW e \in Entry, BeginDelete(r, e) PROVE HubInvariant'
  <2>1. Exists(e) /\ Begin(r, [kind |-> "delete", entry |-> e])
    BY <1>3 DEF BeginDelete, Found
  <2>2. /\ [kind |-> "delete", entry |-> e] \in RequestRow
        /\ RequestSound([kind |-> "delete", entry |-> e])
    BY <2>1 DEF RequestRow, RequestSound, StatusKind, ReviewKind
  <2>. QED BY <2>1, <2>2, RequestChangeKeepsInvariant DEF Begin
<1>4. ASSUME NEW e \in Entry, NEW text \in Text, BeginEdit(r, e, text) PROVE HubInvariant'
  <2>. DEFINE q == [kind |-> "edit", entry |-> e, from |-> entry[e].version,
                    seen |-> entry[e].text, text |-> text]
  <2>1. Exists(e) /\ entry[e].version < MaxVersion /\ Begin(r, q)
    BY <1>4 DEF BeginEdit, Found
  <2>2. entry[e].version \in 0..MaxVersion /\ entry[e].text \in Text \cup {NoText}
    BY <1>1, RowFields
  <2>3. entry[e].version > 0
    BY <2>1 DEF HubInvariant, HistoryMatches
  <2>4. entry[e].version \in Version
    BY <2>2, <2>3, HubAssumption DEF Version
  <2>5. q \in RequestRow
    BY <2>2, <2>4 DEF RequestRow
  <2>6. entry[e].version <= entry[e].version
    BY <2>2, HubAssumption
  <2>7. RequestSound(q)
    BY <2>1, <2>6 DEF RequestSound, ReviewKind
  <2>. QED BY <2>1, <2>5, <2>7, RequestChangeKeepsInvariant DEF Begin
<1>5. ASSUME NEW s \in Submission, BeginReceive(r, s) PROVE HubInvariant'
  <2>1. PICK valid \in BOOLEAN : Begin(r, [kind |-> "receive", item |-> s, valid |-> valid])
    BY <1>5 DEF BeginReceive
  <2>2. /\ [kind |-> "receive", item |-> s, valid |-> valid] \in RequestRow
        /\ RequestSound([kind |-> "receive", item |-> s, valid |-> valid])
    BY DEF RequestRow, RequestSound, StatusKind, ReviewKind
  <2>. QED BY <2>1, <2>2, RequestChangeKeepsInvariant DEF Begin
<1>6. ASSUME NEW s \in Submission, NEW kind \in ReviewKind, BeginReview(r, s, kind)
      PROVE  HubInvariant'
  <2>1. staged[s].status = "quarantined" /\ Begin(r, [kind |-> kind, item |-> s])
    BY <1>6 DEF BeginReview
  <2>2. s \notin refused
    BY <2>1 DEF HubInvariant, StagedSound
  <2>3. [kind |-> kind, item |-> s] \in RequestRow /\ RequestSound([kind |-> kind, item |-> s])
    BY <2>1, <2>2 DEF RequestRow, RequestSound, StatusKind, ReviewKind
  <2>. QED BY <2>1, <2>3, RequestChangeKeepsInvariant DEF Begin
<1>7. ASSUME Abort(r) PROVE HubInvariant'
  <2>1. Idle \in RequestRow /\ RequestSound(Idle)
    BY DEF RequestRow, RequestSound, StatusKind, ReviewKind, Idle
  <2>. QED BY <1>7, <2>1, RequestChangeKeepsInvariant DEF Abort, Finish
<1>. QED BY <1>2, <1>3, <1>4, <1>5, <1>6, <1>7

LEMMA PurgeMarksKeepInvariant ==
  ASSUME HubInvariant, CollectPurge \/ FailPurge
  PROVE  HubInvariant'
<1>1. /\ UNCHANGED <<entry, history, staged, refused, request>>
      /\ purge' \in SUBSET Submission
      /\ purge' \subseteq {s \in Submission : staged[s].status # "none"}
  BY DEF CollectPurge, FailPurge, Purgeable
<1>2. TypeOK' /\ StagedSound'
  BY <1>1 DEF HubInvariant, TypeOK, StagedSound
<1>3. HistoryMatches' /\ NoLostEdit' /\ ProvenanceKept' /\ RefusedStaysOut' /\ RequestsSound'
  BY <1>1 DEF HubInvariant, HistoryMatches, NoLostEdit, ProvenanceKept, RefusedStaysOut,
         RequestsSound, RequestSound, Exists
<1>. QED BY <1>2, <1>3 DEF HubInvariant

-----------------------------------------------------------------------------
LEMMA InitEstablishesInvariant == Init => HubInvariant
<1>. SUFFICES ASSUME Init PROVE HubInvariant
  OBVIOUS
<1>1. TypeOK
  <2>1. NoRow \in EntryRow /\ NoRevision \in Revision /\ NotReceived \in StagedRow
        /\ Idle \in RequestRow
    BY HubAssumption DEF NoRow, EntryRow, NoRevision, Revision, NotReceived, StagedRow,
                         RequestRow
  <2>. QED BY <2>1 DEF Init, TypeOK
<1>2. HistoryMatches /\ NoLostEdit /\ ProvenanceKept /\ RefusedStaysOut
  BY HubAssumption DEF Init, HistoryMatches, NoLostEdit, ProvenanceKept, RefusedStaysOut,
                       NoRow, Exists, Version
<1>3. RequestsSound /\ StagedSound
  BY DEF Init, RequestsSound, RequestSound, StagedSound, Idle, NotReceived, StatusKind,
         ReviewKind
<1>. QED BY <1>1, <1>2, <1>3 DEF HubInvariant

LEMMA NextKeepsInvariant == HubInvariant /\ [Next]_vars => HubInvariant'
<1>. SUFFICES ASSUME HubInvariant, [Next]_vars PROVE HubInvariant'
  OBVIOUS
<1>1. ASSUME NEW text \in NewText, CreateEntry(text) PROVE HubInvariant'
  BY <1>1, CreateEntryKeepsInvariant
<1>2. ASSUME NEW r \in Slot, EntryStep(r) PROVE HubInvariant'
  BY <1>2, BeginsKeepInvariant, CommitEditKeepsInvariant, CommitTransitionKeepsInvariant,
     CommitDeleteKeepsInvariant DEF EntryStep
<1>3. ASSUME NEW r \in Slot, SubmissionStep(r) PROVE HubInvariant'
  BY <1>3, BeginsKeepInvariant, CommitReceiveKeepsInvariant, CommitPromoteKeepsInvariant,
     CommitRejectKeepsInvariant DEF SubmissionStep
<1>4. ASSUME NEW r \in Slot, Abort(r) PROVE HubInvariant'
  BY <1>4, BeginsKeepInvariant
<1>5. ASSUME CollectPurge \/ CommitPurge \/ FailPurge PROVE HubInvariant'
  BY <1>5, PurgeMarksKeepInvariant, CommitPurgeKeepsInvariant
<1>6. CASE UNCHANGED vars
  BY <1>6 DEF vars, HubInvariant, TypeOK, HistoryMatches, NoLostEdit, ProvenanceKept,
     RefusedStaysOut, RequestsSound, RequestSound, StagedSound, Exists
<1>. QED BY <1>1, <1>2, <1>3, <1>4, <1>5, <1>6 DEF Next

(* The conjunction of all of the above holds of every behaviour of the      *)
(* handlers and the nightly purge.                                          *)
THEOREM KnowledgeInvariant == Spec => []HubInvariant
BY InitEstablishesInvariant, NextKeepsInvariant, PTL DEF Spec

(* Rows and requests are always of their types. *)
THEOREM KnowledgeTypeCorrect == Spec => []TypeOK
<1>1. HubInvariant => TypeOK
  BY DEF HubInvariant
<1>. QED BY <1>1, KnowledgeInvariant, PTL

(* Each version of an entry has its revision and the newest is what the     *)
(* entry says, although updateEntry writes both without having locked it.   *)
THEOREM KnowledgeHistoryMatches == Spec => []HistoryMatches
<1>1. HubInvariant => HistoryMatches
  BY DEF HubInvariant
<1>. QED BY <1>1, KnowledgeInvariant, PTL

(* The optimistic check of updateEntry suffices: every revision was written *)
(* over the one its editor had read.                                        *)
THEOREM KnowledgeNoLostEdit == Spec => []NoLostEdit
<1>1. HubInvariant => NoLostEdit
  BY DEF HubInvariant
<1>. QED BY <1>1, KnowledgeInvariant, PTL

(* An entry that came from outside can be traced, whatever promotions,      *)
(* rejections and purges of its submission raced.                           *)
THEOREM KnowledgeProvenanceKept == Spec => []ProvenanceKept
<1>1. HubInvariant => ProvenanceKept
  BY DEF HubInvariant
<1>. QED BY <1>1, KnowledgeInvariant, PTL

(* What ingest has rejected never becomes an entry, by replay or by review. *)
THEOREM KnowledgeRefusedStaysOut == Spec => []RefusedStaysOut
<1>1. HubInvariant => RefusedStaysOut
  BY DEF HubInvariant
<1>. QED BY <1>1, KnowledgeInvariant, PTL
=============================================================================
