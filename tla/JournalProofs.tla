---------------------------- MODULE JournalProofs ----------------------------
(***************************************************************************)
(* The safety properties of Journal hold for every set of processes, keys, *)
(* devices and operations, any batch size and any retention, and the       *)
(* journal implements the ledger.                                          *)
(*                                                                         *)
(* The inductive invariant joins the tables (every row is linked to the    *)
(* record of its key and back), ties an outstanding COMMIT to the database *)
(* it was checked against (nothing moves while it holds the lock), ties a  *)
(* resolving call to the row it may find, and orders epochs.  First come   *)
(* the actions that update rows (Transition, SelectAlbum, Prune and        *)
(* recovery), then those of an admission (its COMMIT, heard of or lost,    *)
(* and the resolution of a lost one), then the theorems.  With that        *)
(* invariant each action of the journal is one action of the ledger, or    *)
(* leaves the ledger's state alone.                                        *)
(***************************************************************************)
EXTENDS JournalLedger, TLAPS

(* Leaves are left to Zenon; those that need arithmetic name SMT.          *)
USE ZenonT(40)

(* Rows and idempotency records refer to each other.                       *)
Linked ==
  /\ \A i \in OpIds : ops[i] # None
       => i \in issued /\ idem[ops[i].key] # None /\ idem[ops[i].key].op = i
  /\ \A k \in Keys : idem[k] # None
       => ops[idem[k].op] # None /\ ops[idem[k].op].key = k

(* finished_at is NULL exactly in the open states (the table's CHECK).     *)
Lifecycle ==
  \A i \in OpIds : ops[i] # None
    => (ops[i].finished = None <=> ops[i].state \in {"accepted", "running"})

(* What Admissible established still holds for an outstanding COMMIT.      *)
Outstanding ==
  tx # None =>
    /\ tx.id \in issued /\ ops[tx.id] = None /\ granted[tx.id] = 0
    /\ idem[tx.key] = None /\ control.ready /\ control.epoch = tx.epoch
    /\ initialized[tx.epoch]
    /\ Entitled(tx)
    /\ tx.id \in abandoned \/ \E c \in Calls : call[c] # None /\ call[c].id = tx.id

(* A resolving call is the only claimant of its id, and the row or the     *)
(* outstanding transaction of that id is the one it proposed.              *)
Claims ==
  \A c \in Calls : call[c] # None =>
    /\ call[c].id \in issued /\ granted[call[c].id] = 0
    /\ \A b \in Calls : call[b] # None /\ call[b].id = call[c].id => b = c
    /\ ops[call[c].id] # None =>
         /\ ops[call[c].id].key = call[c].key /\ ops[call[c].id].epoch = call[c].epoch
         /\ idem[call[c].key].hash = call[c].hash
    /\ tx # None /\ tx.id = call[c].id =>
         tx.key = call[c].key /\ tx.epoch = call[c].epoch /\ tx.hash = call[c].hash

Grants == \A i \in OpIds : granted[i] =< 1 /\ (i \notin issued => granted[i] = 0)

(* An epoch that ever held the journal took it from one that has lost it.  *)
EpochOrder ==
  /\ control.epoch \notin past
  /\ \A e \in Epochs : e \in past \cup {control.epoch} => previous[e] \in past

(* Only an initialized store admits.                                       *)
AdmittedAfterRecovery == \A i \in OpIds : ops[i] # None => initialized[ops[i].epoch]

IndInv ==
  /\ TypeOK /\ ReservationExact /\ Linked /\ Lifecycle /\ RetentionCovers
  /\ Outstanding /\ Claims /\ Grants /\ EpochOrder /\ AdmittedAfterRecovery
  /\ ReadyMeansRecovered /\ NoOrphanedAdmission
-----------------------------------------------------------------------------
(* The facts on the tables alone, and their types.                         *)
TypeTables ==
  /\ control \in [epoch : Epochs \cup {NoEpoch}, ready : BOOLEAN]
  /\ ops \in [OpIds -> Operation \cup {None}]
  /\ idem \in [Keys -> Record \cup {None}]
  /\ resv \in [Devices -> OpIds \cup {None}]

Tables ==
  /\ TypeTables /\ ReservationExact /\ Linked /\ Lifecycle /\ RetentionCovers
  /\ ReadyMeansRecovered /\ AdmittedAfterRecovery

(* A row is not NULL.                                                      *)
LEMMA Rows ==
  /\ \A o \in Operation : o # None
  /\ \A r \in Record : r # None
  /\ \A p \in Proposal : p # None
  /\ \A c \in Claim : c # None
BY RowAssumption

(* The fields of a row after each kind of update.                          *)
LEMMA UpdatedRow ==
  ASSUME NEW o \in Operation, NEW s \in States, NEW f \in Int \cup {None}, NEW r \in Nat,
         NEW a \in BOOLEAN, NEW h \in {"own", "child", "handed"}
  PROVE  /\ [o EXCEPT !.state = s, !.finished = f, !.revision = r, !.hold = h] \in Operation
         /\ [o EXCEPT !.state = s, !.finished = f, !.revision = r] \in Operation
         /\ [o EXCEPT !.album = a, !.revision = r] \in Operation
BY DEF Operation

(* What a transition does to a row.                                        *)
LEMMA MovedRow ==
  ASSUME NEW o \in Operation, NEW s \in States, NEW at \in Int
  PROVE  LET n == Moved(o, s, at) IN
         /\ n \in Operation
         /\ n.key = o.key /\ n.device = o.device /\ n.epoch = o.epoch /\ n.hold = o.hold
         /\ n.state = s /\ n.finished = IF s \in Terminal THEN at ELSE None
<1>1. o.revision + 1 \in Nat
  BY SMTT(30) DEF Operation
<1>2. (IF s \in Terminal THEN at ELSE None) \in Int \cup {None}
  OBVIOUS
<1>3. Moved(o, s, at) \in Operation
  BY <1>1, <1>2, UpdatedRow DEF Moved
<1> QED BY <1>3 DEF Moved, Operation

(* What a hand-over does to the row of the old owner.                      *)
LEMMA HandedRow ==
  ASSUME NEW o \in Operation, NEW p \in Proposal
  PROVE  LET n == HandedOff(o, p) IN
         /\ n \in Operation
         /\ n.key = o.key /\ n.device = o.device /\ n.epoch = o.epoch /\ n.hold = "handed"
         /\ n.state = IF p.kind = "cancel" THEN "running"
                      ELSE IF p.unsure THEN "uncertain" ELSE "released"
         /\ n.finished = IF p.kind = "cancel" THEN None ELSE p.at
<1>1. o.revision + 1 \in Nat
  BY SMTT(30) DEF Operation
<1>2. (IF p.kind = "cancel" THEN None ELSE p.at) \in Int \cup {None}
  BY DEF Proposal
<1>3. (IF p.kind = "cancel" THEN "running" ELSE IF p.unsure THEN "uncertain" ELSE "released") \in States
  BY DEF States, Terminal
<1>4. HandedOff(o, p) \in Operation
  BY <1>1, <1>2, <1>3, UpdatedRow DEF HandedOff
<1> QED BY <1>4 DEF HandedOff, Operation

(* The row that an admission inserts.                                      *)
LEMMA InsertedRow ==
  ASSUME NEW p \in Proposal
  PROVE  LET n == InsertOperation(p) IN
         /\ n \in Operation
         /\ n.key = p.key /\ n.device = Player[p.hash] /\ n.epoch = p.epoch
         /\ n.hold = IF p.owner = None THEN "own" ELSE "child"
         /\ n.state = "accepted" /\ n.finished = None
BY RequestAssumption DEF InsertOperation, Operation, Proposal, States

(* An extended retention never shortens a record.                          *)
LEMMA ExtendedRecord ==
  ASSUME NEW r \in Record \cup {None}, NEW ids, NEW at \in Int
  PROVE  LET n == ExtendRetention(r, ids, at) IN
         /\ n \in Record \cup {None}
         /\ n = None <=> r = None
         /\ r # None => /\ n.op = r.op /\ n.hash = r.hash /\ n.expires >= r.expires
                        /\ r.op \in ids => n.expires >= at + Retention
BY Rows, RetentionAssumption, SMTT(30) DEF ExtendRetention, Record

(* The rows an admission transaction writes have their declared shape.     *)
LEMMA InsertTypes ==
  ASSUME NEW p \in Proposal, TypeTables, Entitled(p), Insert(p)
  PROVE  TypeTables'
<1>1. InsertOperation(p) \in Operation
  BY InsertedRow
<1>2. ASSUME p.replace # None, p.owner = None PROVE HandedOff(ops[p.replace], p) \in Operation
  <2>1. p.replace \in OpIds /\ ops[p.replace] \in Operation
    BY <1>2 DEF Proposal, TypeTables, Entitled, ReplaceMatches, Unfinished
  <2> QED BY <2>1, HandedRow
<1>3. p.owner # None => p.replace = None
  BY DEF Entitled, OwnerMatches
<1>4. ops' \in [OpIds -> Operation \cup {None}]
  BY <1>1, <1>2, <1>3, NoneAssumption DEF Insert, TypeTables, Proposal
<1>5. idem' \in [Keys -> Record \cup {None}]
  <2>1. p.at \in Int /\ [hash |-> p.hash, op |-> p.id, expires |-> p.at + Retention] \in Record
    BY RetentionAssumption, SMTT(30) DEF Proposal, Record
  <2> QED BY <2>1, ExtendedRecord DEF Insert, TypeTables
<1>6. resv' \in [Devices -> OpIds \cup {None}]
  BY RequestAssumption DEF Insert, TypeTables, Proposal
<1> QED BY <1>4, <1>5, <1>6 DEF Insert, TypeTables

(* Every row after an admission: the new one, the one handed off, the rest. *)
LEMMA InsertRows ==
  ASSUME NEW p \in Proposal, TypeTables, ops[p.id] = None, Entitled(p), Insert(p)
  PROVE  /\ ops'[p.id] = InsertOperation(p)
         /\ p.owner # None => p.replace = None
         /\ p.replace # None => /\ p.replace \in OpIds /\ ops[p.replace] \in Operation
                                /\ p.replace # p.id /\ ops[p.replace].finished = None
                                /\ resv[Player[p.hash]] = p.replace
                                /\ ops'[p.replace] = HandedOff(ops[p.replace], p)
         /\ \A i \in OpIds : i # p.id /\ i # p.replace => ops'[i] = ops[i]
BY DEF Entitled, OwnerMatches, ReplaceMatches, Unfinished, Insert, TypeTables, Proposal

(* An admission keeps the tables consistent.                               *)
LEMMA InsertTables ==
  ASSUME NEW p \in Proposal, Tables, ops[p.id] = None, idem[p.key] = None,
         control.ready, control.epoch = p.epoch, initialized[p.epoch], Entitled(p),
         Insert(p), issued' = issued \cup {p.id}, UNCHANGED initialized
  PROVE  Tables'
<1> DEFINE d == Player[p.hash]
<1>1. TypeTables'
  BY InsertTypes DEF Tables
<1>2. /\ p.id \in OpIds /\ p.key \in Keys /\ p.at \in Int /\ d \in Devices
      /\ InsertOperation(p) \in Operation /\ InsertOperation(p) # None
  BY InsertedRow, Rows, RequestAssumption DEF Proposal
<1>3. p.replace # None => /\ HandedOff(ops[p.replace], p) \in Operation
                          /\ HandedOff(ops[p.replace], p) # None
                          /\ ops[p.replace] # None
  BY InsertRows, HandedRow, Rows DEF Tables
<1>10. ASSUME NEW i \in OpIds, i # p.id
       PROVE  /\ ops'[i] # None <=> ops[i] # None
              /\ ops[i] # None =>
                   /\ ops'[i].key = ops[i].key /\ ops'[i].epoch = ops[i].epoch
                   /\ ops'[i].finished = None => ops[i].finished = None
  <2>1. CASE i = p.replace
    BY <1>3, <1>10, <2>1, InsertRows, HandedRow, NoneAssumption, SMTT(30) DEF Tables
  <2>2. CASE i # p.replace
    BY <1>10, <2>2, InsertRows DEF Tables
  <2> QED BY <2>1, <2>2
<1>4. ReservationExact'
  <2> SUFFICES ASSUME NEW x \in Devices, NEW i \in OpIds
               PROVE  (resv[x] = i <=> Unfinished(i) /\ ops[i].device = x /\ ops[i].hold = "own")'
    BY DEF ReservationExact
  <2>1. resv'[x] = IF x = d /\ p.owner = None THEN p.id ELSE resv[x]
    BY <1>2 DEF Insert, Tables, TypeTables
  <2>2. resv[x] # p.id
    BY <1>2 DEF Tables, ReservationExact, Unfinished
  <2>3. CASE i = p.id
    BY <1>2, <2>1, <2>2, <2>3, InsertRows, InsertedRow, SMTT(30) DEF Unfinished, Tables
  <2>4. CASE i = p.replace /\ i # p.id
    <3>1. ops'[i].hold = "handed"
      BY <2>4, InsertRows, HandedRow, NoneAssumption, SMTT(30) DEF Tables
    <3>2. resv[d] = i /\ p.owner = None
      BY <2>4, InsertRows, NoneAssumption DEF Tables
    <3>3. resv[x] = i => x = d
      BY <3>2, <1>2, SMTT(30) DEF Tables, ReservationExact
    <3> QED BY <2>1, <2>4, <3>1, <3>2, <3>3
  <2>5. CASE i # p.replace /\ i # p.id
    <3>1. ops'[i] = ops[i]
      BY <2>5, InsertRows DEF Tables
    <3>2. x = d /\ p.owner = None => resv[x] # i
      BY <2>5, NoneAssumption DEF Entitled, ReplaceMatches
    <3> QED BY <2>1, <2>5, <3>1, <3>2, SMTT(30) DEF Tables, ReservationExact, Unfinished
  <2> QED BY <2>3, <2>4, <2>5
<1>5. /\ idem'[p.key] = [hash |-> p.hash, op |-> p.id, expires |-> p.at + Retention]
      /\ \A k \in Keys : k # p.key =>
           /\ idem'[k] = None <=> idem[k] = None
           /\ idem[k] # None => /\ idem'[k].op = idem[k].op
                                /\ idem'[k].expires >= idem[k].expires
                                /\ idem[k].op = p.replace => idem'[k].expires >= p.at + Retention
  BY <1>2, ExtendedRecord, SMTT(30) DEF Insert, Tables, TypeTables
<1>6. idem'[p.key] # None
  BY <1>1, <1>2, <1>5, Rows, RetentionAssumption, SMTT(30) DEF Record, Proposal
<1>7. Linked'
  <2>1. ASSUME NEW i \in OpIds, ops'[i] # None
        PROVE  i \in issued' /\ idem'[ops'[i].key] # None /\ idem'[ops'[i].key].op = i
    <3>1. CASE i = p.id
      BY <1>2, <1>5, <1>6, <3>1, InsertRows, InsertedRow, SMTT(30) DEF Tables
    <3>2. CASE i # p.id
      <4>1. ops[i] # None /\ ops'[i].key = ops[i].key
        BY <1>10, <2>1, <3>2
      <4>2. ops[i].key \in Keys
        BY <4>1 DEF Tables, TypeTables, Operation
      <4> QED BY <1>2, <1>5, <4>1, <4>2 DEF Tables, Linked
    <3> QED BY <3>1, <3>2
  <2>2. ASSUME NEW k \in Keys, idem'[k] # None
        PROVE  ops'[idem'[k].op] # None /\ ops'[idem'[k].op].key = k
    <3>1. CASE k = p.key
      BY <1>2, <1>5, <3>1, InsertRows, InsertedRow, SMTT(30) DEF Tables
    <3>2. CASE k # p.key
      <4>1. idem[k] # None /\ idem'[k].op = idem[k].op /\ idem[k].op \in OpIds
        BY <1>5, <2>2, <3>2 DEF Tables, TypeTables, Record
      <4>2. ops[idem[k].op] # None /\ ops[idem[k].op].key = k
        BY <4>1 DEF Tables, Linked
      <4> QED BY <1>10, <4>1, <4>2
    <3> QED BY <3>1, <3>2
  <2> QED BY <2>1, <2>2 DEF Linked
<1>8. Lifecycle'
  <2> SUFFICES ASSUME NEW i \in OpIds, ops'[i] # None
               PROVE  ops'[i].finished = None <=> ops'[i].state \in {"accepted", "running"}
    BY DEF Lifecycle
  <2>1. CASE i = p.id
    BY <2>1, InsertRows, InsertedRow DEF Tables
  <2>2. CASE i = p.replace /\ i # p.id
    <3>1. p.at # None
      BY <1>2, NoneAssumption
    <3> QED BY <2>2, <3>1, InsertRows, HandedRow, NoneAssumption, SMTT(30) DEF Tables
  <2>3. CASE i # p.replace /\ i # p.id
    BY <2>3, InsertRows DEF Tables, Lifecycle
  <2> QED BY <2>1, <2>2, <2>3
<1>9. RetentionCovers'
  <2> SUFFICES ASSUME NEW k \in Keys, idem'[k] # None, ops'[idem'[k].op].finished # None
               PROVE  idem'[k].expires >= ops'[idem'[k].op].finished + Retention
    BY DEF RetentionCovers
  <2>1. k # p.key
    BY <1>5, InsertRows, InsertedRow, SMTT(30) DEF Tables
  <2>2. idem[k] # None /\ idem'[k].op = idem[k].op /\ idem[k].op \in OpIds
    BY <1>5, <2>1 DEF Tables, TypeTables, Record
  <2>3. idem[k].op # p.id
    BY <2>2 DEF Tables, Linked
  <2>4. CASE idem[k].op = p.replace
    <3>1. ops'[idem'[k].op].finished = p.at
      BY <2>2, <2>4, InsertRows, HandedRow, NoneAssumption, SMTT(30) DEF Tables
    <3> QED BY <1>5, <2>1, <2>2, <2>4, <3>1
  <2>5. CASE idem[k].op # p.replace
    <3>1. ops'[idem[k].op] = ops[idem[k].op] /\ ops[idem[k].op] \in Operation
      BY <2>2, <2>3, <2>5, InsertRows DEF Tables, TypeTables, Linked
    <3>2. idem[k].expires >= ops[idem[k].op].finished + Retention
      BY <2>2, <3>1 DEF Tables, RetentionCovers
    <3>3. idem'[k].expires \in Int /\ idem[k].expires \in Int /\ ops[idem[k].op].finished \in Int
      BY <1>1, <2>2, <3>1 DEF Tables, TypeTables, Record, Operation
    <3> QED BY <1>5, <2>1, <2>2, <3>1, <3>2, <3>3, RetentionAssumption, SMTT(30)
  <2> QED BY <2>4, <2>5
<1>11. ReadyMeansRecovered'
  BY <1>10, InsertRows, InsertedRow, SMTT(30) DEF Insert, Tables, ReadyMeansRecovered, Unfinished
<1>12. AdmittedAfterRecovery'
  BY <1>10, InsertRows, InsertedRow, SMTT(30) DEF Tables, AdmittedAfterRecovery
<1> QED BY <1>1, <1>4, <1>7, <1>8, <1>9, <1>11, <1>12 DEF Tables
-----------------------------------------------------------------------------
(* finish(ids): reservations of ids are gone, their records last longer.   *)
LEMMA FinishRows ==
  ASSUME NEW ids \in SUBSET OpIds, NEW at \in Int, TypeTables, Finish(ids, at)
  PROVE  /\ resv' \in [Devices -> OpIds \cup {None}]
         /\ \A d \in Devices : resv'[d] = IF resv[d] \in ids THEN None ELSE resv[d]
         /\ idem' \in [Keys -> Record \cup {None}]
         /\ \A k \in Keys :
              /\ idem'[k] = None <=> idem[k] = None
              /\ idem[k] # None => /\ idem'[k].op = idem[k].op /\ idem'[k].hash = idem[k].hash
                                   /\ idem'[k].expires >= idem[k].expires
                                   /\ idem[k].op \in ids => idem'[k].expires >= at + Retention
BY ExtendedRecord, SMTT(30) DEF Finish, TypeTables

(* Ending the open operations ids, and moving those of moved without       *)
(* ending them, preserves the facts on the tables.                         *)
LEMMA FinishTables ==
  ASSUME NEW ids \in SUBSET OpIds, Tables, TypeTables', now \in Int, Finish(ids, now),
         \A i \in ids : Unfinished(i) /\ ops'[i] # None /\ ops'[i].finished = now
                          /\ ops'[i].state \notin {"accepted", "running"},
         \A i \in OpIds \ ids : ops[i] # None /\ ops[i] # ops'[i] =>
            ops[i].finished = None /\ ops'[i].finished = None /\ ops'[i].state \in {"accepted", "running"},
         \A i \in OpIds : /\ ops[i] = None <=> ops'[i] = None
                          /\ ops[i] # None => /\ ops'[i].key = ops[i].key /\ ops'[i].device = ops[i].device
                                              /\ ops'[i].epoch = ops[i].epoch /\ ops'[i].hold = ops[i].hold,
         UNCHANGED issued
  PROVE  ReservationExact' /\ Linked' /\ Lifecycle' /\ RetentionCovers'
<1>1. \A i \in OpIds : /\ ops[i] # None => ops[i] \in Operation
                       /\ ops'[i] # None => ops'[i] \in Operation
  BY DEF Tables, TypeTables
<1>2. \A k \in Keys : /\ idem[k] # None => idem[k] \in Record
                      /\ idem'[k] # None => idem'[k] \in Record
  BY DEF Tables, TypeTables
<1>7. TypeTables
  BY DEF Tables
<1>8. /\ \A d \in Devices : resv'[d] = IF resv[d] \in ids THEN None ELSE resv[d]
      /\ \A k \in Keys :
           /\ idem'[k] = None <=> idem[k] = None
           /\ idem[k] # None => /\ idem'[k].op = idem[k].op
                                /\ idem'[k].expires >= idem[k].expires
                                /\ idem[k].op \in ids => idem'[k].expires >= now + Retention
  BY <1>7, FinishRows
<1>3. ReservationExact'
  <2> SUFFICES ASSUME NEW x \in Devices, NEW i \in OpIds
               PROVE  (resv[x] = i <=> Unfinished(i) /\ ops[i].device = x /\ ops[i].hold = "own")'
    BY DEF ReservationExact
  <2>1. resv'[x] = i <=> resv[x] = i /\ i \notin ids
    BY <1>8, NoneAssumption, SMTT(30)
  <2>2. resv[x] = i <=> Unfinished(i) /\ ops[i].device = x /\ ops[i].hold = "own"
    BY DEF Tables, ReservationExact
  <2>3. CASE i \in ids
    BY <2>1, <2>3, NoneAssumption DEF Unfinished
  <2>4. CASE i \notin ids
    BY <2>1, <2>2, <2>4 DEF Unfinished
  <2> QED BY <2>3, <2>4
<1>4. Linked'
  <2>1. ASSUME NEW i \in OpIds, ops'[i] # None
        PROVE  i \in issued' /\ idem'[ops'[i].key] # None /\ idem'[ops'[i].key].op = i
    <3>1. ops[i] # None /\ ops'[i].key = ops[i].key /\ ops[i].key \in Keys
      BY <1>1, <2>1 DEF Operation
    <3>2. i \in issued /\ idem[ops[i].key] # None /\ idem[ops[i].key].op = i
      BY <3>1 DEF Tables, Linked
    <3> QED BY <1>8, <3>1, <3>2
  <2>2. ASSUME NEW k \in Keys, idem'[k] # None
        PROVE  ops'[idem'[k].op] # None /\ ops'[idem'[k].op].key = k
    <3>1. idem[k] # None /\ idem'[k].op = idem[k].op /\ idem[k].op \in OpIds
      BY <1>2, <1>8, <2>2 DEF Record
    <3> QED BY <3>1, SMTT(30) DEF Tables, Linked
  <2> QED BY <2>1, <2>2 DEF Linked
<1>5. Lifecycle'
  <2> SUFFICES ASSUME NEW i \in OpIds, ops'[i] # None
               PROVE  ops'[i].finished = None <=> ops'[i].state \in {"accepted", "running"}
    BY DEF Lifecycle
  <2>1. CASE i \in ids
    BY <2>1, NoneAssumption
  <2>2. CASE i \notin ids /\ ops[i] = ops'[i]
    <3>1. ops[i] # None => (ops[i].finished = None <=> ops[i].state \in {"accepted", "running"})
      BY DEF Tables, Lifecycle
    <3> QED BY <2>2, <3>1
  <2>3. CASE i \notin ids /\ ops[i] # ops'[i]
    BY <2>3
  <2> QED BY <2>1, <2>2, <2>3
<1>6. RetentionCovers'
  <2> SUFFICES ASSUME NEW k \in Keys, idem'[k] # None, ops'[idem'[k].op].finished # None
               PROVE  idem'[k].expires >= ops'[idem'[k].op].finished + Retention
    BY DEF RetentionCovers
  <2> DEFINE i == idem[k].op
  <2>1. /\ idem[k] # None /\ idem'[k].op = i /\ i \in OpIds /\ ops[i] # None /\ ops[i] \in Operation
        /\ idem[k].expires \in Int /\ idem'[k].expires \in Int
    BY <1>1, <1>2, <1>8 DEF Tables, Record, Linked
  <2>2. CASE i \in ids
    BY <1>8, <2>1, <2>2
  <2>3. CASE i \notin ids
    <3>1. ops'[i] = ops[i]
      <4>1. ops'[i].finished # None  BY <2>1
      <4> HIDE DEF i
      <4> QED BY <2>1, <2>3, <4>1
    <3>2. idem[k].expires >= ops[i].finished + Retention /\ ops[i].finished \in Int
      BY <2>1, <3>1 DEF Tables, RetentionCovers, Operation
    <3> QED BY <1>8, <2>1, <3>1, <3>2, RetentionAssumption, SMTT(30)
  <2> QED BY <2>2, <2>3
<1> QED BY <1>3, <1>4, <1>5, <1>6
-----------------------------------------------------------------------------
(* One lemma per action that writes the tables.                            *)

(* Rows keep their identity under every update but insertion and pruning.  *)
SameRows ==
  \A i \in OpIds : /\ ops[i] = None <=> ops'[i] = None
                   /\ ops[i] # None => /\ ops'[i].key = ops[i].key /\ ops'[i].device = ops[i].device
                                       /\ ops'[i].epoch = ops[i].epoch /\ ops'[i].hold = ops[i].hold

(* A step that keeps rows and hashes keeps what calls may still claim.     *)
LEMMA ClaimsKept ==
  ASSUME TypeOK, Claims, SameRows, tx' = None, UNCHANGED <<call, issued, granted>>,
         \A k \in Keys : idem[k] # None => idem'[k].hash = idem[k].hash,
         Linked
  PROVE  Claims'
<1> SUFFICES ASSUME NEW c \in Calls, call[c] # None
             PROVE  /\ call[c].id \in issued /\ granted[call[c].id] = 0
                    /\ \A b \in Calls : call[b] # None /\ call[b].id = call[c].id => b = c
                    /\ ops'[call[c].id] # None =>
                         /\ ops'[call[c].id].key = call[c].key /\ ops'[call[c].id].epoch = call[c].epoch
                         /\ idem'[call[c].key].hash = call[c].hash
  BY DEF Claims
<1>1. call[c].id \in OpIds /\ call[c].key \in Keys
  BY DEF TypeOK, Claim
<1>2. ops[call[c].id] # None => idem[call[c].key] # None
  BY <1>1 DEF Claims, Linked
<1> QED BY <1>1, <1>2 DEF Claims, SameRows

(* Transition keeps the invariant.                                         *)
LEMMA TransitionInv ==
  ASSUME IndInv, NEW e \in Epochs, NEW i \in OpIds, NEW s \in Updates, Transition(e, i, s)
  PROVE  IndInv'
<1> DEFINE ids == IF s \in Terminal THEN {i} ELSE {}
           n == Moved(ops[i], s, now)
<1>1. /\ TypeOK /\ Tables /\ Claims /\ Grants /\ EpochOrder /\ NoOrphanedAdmission
  BY DEF IndInv, Tables, TypeOK, TypeTables
<1>2. /\ ops[i] \in Operation /\ ops[i].finished = None /\ s \in States /\ s # "accepted"
      /\ now \in Int /\ ids \in SUBSET OpIds /\ tx = None
  BY <1>1, UpdateAssumption, BoundAssumption, SMTT(30)
     DEF Transition, Updatable, Unfinished, Active, TypeOK, Times
<1>3. /\ n \in Operation /\ n # None
      /\ n.key = ops[i].key /\ n.device = ops[i].device /\ n.epoch = ops[i].epoch
      /\ n.hold = ops[i].hold /\ n.state = s
      /\ n.finished = IF s \in Terminal THEN now ELSE None
  BY <1>2, MovedRow, Rows, SMTT(30)
<1>4. ops' = [ops EXCEPT ![i] = n] /\ Finish(ids, now)
  BY DEF Transition
<1>5. ops' \in [OpIds -> Operation \cup {None}]
  BY <1>1, <1>3, <1>4 DEF TypeOK
<1>6. SameRows
  BY <1>1, <1>2, <1>3, <1>4, Rows DEF SameRows, TypeOK
<1>7. TypeTables
  BY <1>1 DEF Tables
<1>8. /\ resv' \in [Devices -> OpIds \cup {None}] /\ idem' \in [Keys -> Record \cup {None}]
      /\ \A k \in Keys : idem[k] # None => idem'[k].hash = idem[k].hash
  BY <1>2, <1>4, <1>7, FinishRows
<1>9. TypeOK' /\ TypeTables'
  BY <1>1, <1>5, <1>8 DEF TypeOK, TypeTables, Transition, stores, history
<1>10. ReservationExact' /\ Linked' /\ Lifecycle' /\ RetentionCovers'
  <2>1. \A j \in ids : Unfinished(j) /\ ops'[j] # None /\ ops'[j].finished = now
                         /\ ops'[j].state \notin {"accepted", "running"}
    BY <1>1, <1>2, <1>3, <1>4, Rows DEF Unfinished, Terminal, TypeOK
  <2>2. \A j \in OpIds \ ids : ops[j] # None /\ ops[j] # ops'[j] =>
           ops[j].finished = None /\ ops'[j].finished = None /\ ops'[j].state \in {"accepted", "running"}
    BY <1>1, <1>2, <1>3, <1>4 DEF States, TypeOK
  <2>3. UNCHANGED issued
    BY DEF Transition, history
  <2> QED BY <1>1, <1>2, <1>4, <1>6, <1>9, <2>1, <2>2, <2>3, FinishTables DEF SameRows
<1>11. Outstanding'
  BY <1>2 DEF Outstanding, Transition
<1>12. Claims'
  BY <1>1, <1>2, <1>6, <1>8, ClaimsKept DEF Transition, history, Tables
<1>13. Grants' /\ EpochOrder'
  BY <1>1 DEF Grants, EpochOrder, Transition, history, stores
<1>14. AdmittedAfterRecovery' /\ ReadyMeansRecovered'
  <2>1. \A j \in OpIds : ops'[j] # None => ops[j] # None /\ ops'[j].epoch = ops[j].epoch
                            /\ (ops'[j].finished = None => ops[j].finished = None)
    BY <1>1, <1>2, <1>4, <1>6 DEF SameRows, TypeOK
  <2> QED BY <1>1, <2>1 DEF AdmittedAfterRecovery, ReadyMeansRecovered, Unfinished, Tables,
             Transition, stores
<1>15. NoOrphanedAdmission'
  <2>1. \A j \in OpIds : Unfinished(j)' /\ ops'[j].state = "accepted"
                          => Unfinished(j) /\ ops[j].state = "accepted"
    BY <1>1, <1>2, <1>3, <1>4 DEF TypeOK, Unfinished
  <2> QED BY <1>1, <2>1 DEF NoOrphanedAdmission, Transition, history
<1> QED BY <1>9, <1>10, <1>11, <1>12, <1>13, <1>14, <1>15 DEF IndInv

(* SelectAlbum keeps the invariant.                                        *)
LEMMA SelectAlbumInv ==
  ASSUME IndInv, NEW e \in Epochs, NEW i \in OpIds, SelectAlbum(e, i)
  PROVE  IndInv'
<1> DEFINE n == Chosen(ops[i])
<1>1. /\ TypeOK /\ Tables /\ Claims /\ Grants /\ EpochOrder /\ NoOrphanedAdmission
  BY DEF IndInv, Tables, TypeOK, TypeTables
<1>2. ops[i] \in Operation /\ tx = None
  BY <1>1 DEF SelectAlbum, Updatable, Unfinished, Active, TypeOK
<1>3. n \in Operation /\ n # None
  <2>1. ops[i].revision + 1 \in Nat
    BY <1>2, SMTT(30) DEF Operation
  <2> QED BY <1>2, <2>1, UpdatedRow, Rows DEF States, Chosen
<1>4. /\ n.key = ops[i].key /\ n.device = ops[i].device /\ n.epoch = ops[i].epoch
      /\ n.hold = ops[i].hold /\ n.state = ops[i].state /\ n.finished = ops[i].finished
  BY <1>2 DEF Operation, Chosen
<1>5. ops' = [ops EXCEPT ![i] = n]
  BY DEF SelectAlbum
<1> HIDE DEF n
<1>6. /\ SameRows
      /\ \A j \in OpIds : ops[j] # None => ops'[j].state = ops[j].state /\ ops'[j].finished = ops[j].finished
  BY <1>1, <1>2, <1>3, <1>4, <1>5, Rows DEF SameRows, TypeOK
<1>7. TypeOK' /\ TypeTables'
  BY <1>1, <1>3, <1>5 DEF TypeOK, TypeTables, SelectAlbum, stores, history
<1>8. ReservationExact' /\ Lifecycle' /\ NoOrphanedAdmission'
  BY <1>1, <1>6, SMTT(30) DEF Tables, ReservationExact, Lifecycle, NoOrphanedAdmission, Unfinished,
     SameRows, SelectAlbum, history
<1>9. Linked' /\ RetentionCovers'
  <2>1. \A k \in Keys : idem[k] # None => idem[k].op \in OpIds /\ ops[idem[k].op] # None
    <3>1. Linked /\ \A k \in Keys : idem[k] # None => idem[k] \in Record
      BY <1>1 DEF Tables, TypeTables
    <3> QED BY <3>1 DEF Linked, Record
  <2> QED BY <1>1, <1>6, <2>1, SMTT(30) DEF Tables, Linked, RetentionCovers, SameRows, SelectAlbum, history
<1>10. AdmittedAfterRecovery' /\ ReadyMeansRecovered'
  BY <1>1, <1>6 DEF Tables, AdmittedAfterRecovery, ReadyMeansRecovered, Unfinished, SameRows,
     SelectAlbum, stores
<1>11. Outstanding' /\ Grants' /\ EpochOrder'
  BY <1>1, <1>2 DEF Outstanding, Grants, EpochOrder, SelectAlbum, stores, history
<1>12. Claims'
  BY <1>1, <1>2, <1>6, ClaimsKept DEF SelectAlbum, history, Tables
<1> QED BY <1>7, <1>8, <1>9, <1>10, <1>11, <1>12 DEF IndInv

(* Prune keeps the invariant.                                              *)
LEMMA PruneInv ==
  ASSUME IndInv, NEW e \in Epochs, NEW limit, Prune(e, limit)
  PROVE  IndInv'
<1>1. /\ TypeOK /\ Tables /\ Claims /\ Grants /\ EpochOrder /\ NoOrphanedAdmission
  BY DEF IndInv, Tables, TypeOK, TypeTables
<1>2. PICK B \in SUBSET Prunable :
        /\ ops' = [i \in OpIds |-> IF i \in B THEN None ELSE ops[i]]
        /\ idem' = [k \in Keys |-> IF idem[k] # None /\ idem[k].op \in B THEN None ELSE idem[k]]
  BY DEF Prune
<1>3. tx = None /\ UNCHANGED <<control, resv, tx, stores, call, now, history>>
  BY DEF Prune, Active
<1>4. \A i \in OpIds : i \in B => ops[i].finished # None
  BY DEF Prunable
<1>5. \A i \in OpIds : ops'[i] # None => ops'[i] = ops[i] /\ i \notin B
  BY <1>2
<1>6. TypeOK' /\ TypeTables'
  BY <1>1, <1>2, <1>3 DEF TypeOK, TypeTables, stores, history
<1>7. \A i \in OpIds : Unfinished(i)' <=> Unfinished(i)
  BY <1>2, <1>4 DEF Unfinished
<1>8. ReservationExact' /\ Lifecycle' /\ NoOrphanedAdmission'
  BY <1>1, <1>3, <1>5, <1>7, SMTT(30) DEF Tables, ReservationExact, Lifecycle, NoOrphanedAdmission,
     Unfinished, history
<1>9. Linked'
  <2>1. ASSUME NEW i \in OpIds, ops'[i] # None
        PROVE  i \in issued' /\ idem'[ops'[i].key] # None /\ idem'[ops'[i].key].op = i
    <3>1. ops'[i] = ops[i] /\ i \notin B /\ ops[i].key \in Keys
      BY <1>1, <1>5, <2>1 DEF TypeOK, Operation
    <3> QED BY <1>1, <1>2, <1>3, <2>1, <3>1 DEF Tables, Linked, history
  <2>2. ASSUME NEW k \in Keys, idem'[k] # None
        PROVE  ops'[idem'[k].op] # None /\ ops'[idem'[k].op].key = k
    <3>1. idem'[k] = idem[k] /\ idem[k].op \in OpIds \ B
      BY <1>1, <1>2, <2>2 DEF TypeOK, Record
    <3> QED BY <1>1, <1>2, <2>2, <3>1 DEF Tables, Linked
  <2> QED BY <2>1, <2>2 DEF Linked
<1>10. RetentionCovers'
  <2> SUFFICES ASSUME NEW k \in Keys, idem'[k] # None, ops'[idem'[k].op].finished # None
               PROVE  idem'[k].expires >= ops'[idem'[k].op].finished + Retention
    BY DEF RetentionCovers
  <2>1. idem'[k] = idem[k] /\ idem[k].op \in OpIds \ B
    BY <1>1, <1>2 DEF TypeOK, Record
  <2> QED BY <1>1, <1>2, <2>1 DEF Tables, RetentionCovers
<1>11. AdmittedAfterRecovery' /\ ReadyMeansRecovered'
  BY <1>1, <1>3, <1>5, <1>7 DEF Tables, AdmittedAfterRecovery, ReadyMeansRecovered, Unfinished, stores
<1>12. Outstanding' /\ Grants' /\ EpochOrder'
  BY <1>1, <1>3 DEF Outstanding, Grants, EpochOrder, stores, history
<1>13. Claims'
  <2> SUFFICES ASSUME NEW c \in Calls, call[c] # None, ops'[call[c].id] # None
               PROVE  /\ ops'[call[c].id].key = call[c].key /\ ops'[call[c].id].epoch = call[c].epoch
                      /\ idem'[call[c].key].hash = call[c].hash
    BY <1>1, <1>3 DEF Claims, history
  <2>1. call[c].id \in OpIds \ B /\ call[c].key \in Keys /\ ops'[call[c].id] = ops[call[c].id]
    BY <1>1, <1>5 DEF TypeOK, Claim
  <2>2. idem[call[c].key].op = call[c].id
    BY <1>1, <2>1 DEF Claims, Tables, Linked
  <2>3. idem'[call[c].key] = idem[call[c].key]
    BY <1>2, <2>1, <2>2
  <2> QED BY <1>1, <2>1, <2>3 DEF Claims
<1> QED BY <1>6, <1>8, <1>9, <1>10, <1>11, <1>12, <1>13 DEF IndInv

(* RecoverBatch keeps the invariant.                                       *)
LEMMA RecoverBatchInv ==
  ASSUME IndInv, NEW e \in Epochs, NEW a \in BOOLEAN, RecoverBatch(e, a)
  PROVE  IndInv'
<1>1. /\ TypeOK /\ Tables /\ Claims /\ Grants /\ EpochOrder /\ NoOrphanedAdmission
  BY DEF IndInv, Tables, TypeOK, TypeTables
<1>2. PICK B \in SUBSET Interruptible(e) :
        /\ Limited(B, Interruptible(e), MaxBatch) /\ Interrupt(e, B)
        /\ initialized' = [initialized EXCEPT ![e] = a /\ Cardinality(B) < MaxBatch]
  BY DEF RecoverBatch
<1>3. /\ tx = None /\ ~initialized[e] /\ control.epoch \in {PreviousEpoch(e), e}
      /\ previous' = [previous EXCEPT ![e] = PreviousEpoch(e)]
      /\ UNCHANGED <<tx, proc, call, now, issued, granted, abandoned>>
  BY DEF RecoverBatch, MayRecover
<1>4. now \in Int /\ B \in SUBSET OpIds /\ Finish(B, now) /\ "uncertain" \in States \cap Terminal
  BY <1>1, <1>2, BoundAssumption, SMTT(30) DEF TypeOK, Times, Interruptible, Interrupt, States, Terminal
<1>5. \A i \in B : /\ ops[i] \in Operation /\ ops[i].finished = None
                   /\ ops'[i] = Moved(ops[i], "uncertain", now)
  BY <1>1, <1>2, <1>4 DEF TypeOK, Interruptible, Interrupt, Unfinished
<1>6. \A i \in B : /\ ops'[i] \in Operation /\ ops'[i] # None /\ ops'[i].finished = now
                   /\ ops'[i].state = "uncertain" /\ ops'[i].key = ops[i].key
                   /\ ops'[i].device = ops[i].device /\ ops'[i].epoch = ops[i].epoch
                   /\ ops'[i].hold = ops[i].hold
  <2> SUFFICES ASSUME NEW i \in B
               PROVE  LET n == Moved(ops[i], "uncertain", now) IN
                      /\ n \in Operation /\ n # None /\ n.finished = now
                      /\ n.state = "uncertain" /\ n.key = ops[i].key
                      /\ n.device = ops[i].device /\ n.epoch = ops[i].epoch /\ n.hold = ops[i].hold
    BY <1>5
  <2>1. ops[i] \in Operation /\ "uncertain" \in States /\ "uncertain" \in Terminal
    BY <1>4, <1>5
  <2>2. LET n == Moved(ops[i], "uncertain", now) IN
        /\ n \in Operation /\ n.state = "uncertain" /\ n.finished = now
        /\ n.key = ops[i].key /\ n.device = ops[i].device /\ n.epoch = ops[i].epoch /\ n.hold = ops[i].hold
    BY <1>4, <2>1, MovedRow
  <2> QED BY <2>2, Rows
<1>7. \A i \in OpIds : i \notin B => ops'[i] = ops[i]
  BY <1>2 DEF Interrupt
<1>8. SameRows
  BY <1>1, <1>4, <1>5, <1>6, <1>7, Rows DEF SameRows
<1>9. TypeTables
  BY <1>1 DEF Tables
<1>10. /\ resv' \in [Devices -> OpIds \cup {None}] /\ idem' \in [Keys -> Record \cup {None}]
       /\ \A k \in Keys : idem[k] # None => idem'[k].hash = idem[k].hash
  BY <1>4, <1>9, FinishRows
<1>11. ops' \in [OpIds -> Operation \cup {None}]
  BY <1>1, <1>2, <1>6, <1>7 DEF TypeOK, Interrupt
<1>12. control' = [epoch |-> e, ready |-> Cardinality(B) < MaxBatch]
       /\ past' = past \cup ({control.epoch} \ {e})
  BY <1>2 DEF Interrupt
<1>13. TypeOK' /\ TypeTables'
  BY <1>1, <1>2, <1>3, <1>10, <1>11, <1>12, SMTT(30) DEF TypeOK, TypeTables, PreviousEpoch
<1>14. ReservationExact' /\ Linked' /\ Lifecycle' /\ RetentionCovers'
  <2>1. \A i \in B : Unfinished(i) /\ ops'[i] # None /\ ops'[i].finished = now
                       /\ ops'[i].state \notin {"accepted", "running"}
    BY <1>5, <1>6, Rows DEF Unfinished
  <2> QED BY <1>1, <1>3, <1>4, <1>7, <1>8, <1>13, <2>1, FinishTables DEF SameRows
<1>15. Outstanding' /\ Grants'
  BY <1>1, <1>3 DEF Outstanding, Grants
<1>16. Claims'
  BY <1>1, <1>3, <1>8, <1>10, ClaimsKept DEF Tables
<1>17. EpochOrder'
  <2>1. e \notin past'
    <3>1. CASE control.epoch = e
      BY <1>1, <1>12, <3>1 DEF EpochOrder
    <3>2. CASE control.epoch # e
      <4>1. control.epoch = PreviousEpoch(e)
        BY <1>3, <3>2
      <4>2. e \notin past
        BY <1>1, <4>1, NoneAssumption DEF EpochOrder, PreviousEpoch, TypeOK
      <4> QED BY <1>12, <3>2, <4>2
    <3> QED BY <3>1, <3>2
  <2>2. ASSUME NEW f \in Epochs, f \in past' \cup {e} PROVE previous'[f] \in past'
    <3>1. CASE f = e
      <4>1. previous'[e] = PreviousEpoch(e)
        BY <1>1, <1>3 DEF TypeOK
      <4>2. CASE control.epoch = e
        BY <1>1, <1>12, <3>1, <4>1, <4>2, NoneAssumption DEF EpochOrder, PreviousEpoch, TypeOK
      <4>3. CASE control.epoch # e
        BY <1>3, <1>12, <3>1, <4>1, <4>3, SMTT(30)
      <4> QED BY <3>1, <4>2, <4>3
    <3>2. CASE f # e
      BY <1>1, <1>3, <1>12, <2>2, <3>2 DEF EpochOrder, TypeOK
    <3> QED BY <3>1, <3>2
  <2> QED BY <1>12, <2>1, <2>2 DEF EpochOrder
<1>18. \A i \in OpIds : ops[i] # None => ops[i].epoch # e
  BY <1>1, <1>3 DEF Tables, AdmittedAfterRecovery
<1>19. control'.ready => \A i \in OpIds : ~Unfinished(i)'
  <2> SUFFICES ASSUME control'.ready, NEW i \in OpIds, Unfinished(i)'
               PROVE  FALSE
    OBVIOUS
  <2>1. B = Interruptible(e)
    <3>1. Cardinality(B) < MaxBatch
      BY <1>12
    <3>2. Cardinality(B) # MaxBatch
      BY <3>1, BatchAssumption, SMTT(30)
    <3> QED BY <1>2, <3>2 DEF Limited
  <2>2. i \notin B
    BY <1>4, <1>6, NoneAssumption DEF Unfinished
  <2> QED BY <1>7, <1>18, <2>1, <2>2 DEF Interruptible, Unfinished
<1>20. ReadyMeansRecovered' /\ NoOrphanedAdmission'
  BY <1>19 DEF ReadyMeansRecovered, NoOrphanedAdmission
<1>21. AdmittedAfterRecovery'
  BY <1>1, <1>2, <1>8, <1>18, SMTT(30) DEF Tables, AdmittedAfterRecovery, SameRows, TypeOK, Operation
<1> QED BY <1>13, <1>14, <1>15, <1>16, <1>17, <1>20, <1>21 DEF IndInv
-----------------------------------------------------------------------------
(* The steps of an admission.                                              *)

(* What every proposal of an admission satisfies.                          *)
LEMMA ProposedShape ==
  ASSUME TypeOK, NEW e \in Epochs, NEW k \in Keys, NEW h \in Hashes, NEW p \in Propose(e, k, h)
  PROVE  /\ p \in Proposal /\ p.epoch = e /\ p.key = k /\ p.hash = h
         /\ p.id \in OpIds \ issued /\ Admissible(p)
<1>1. resv[Player[h]] \in OpIds \cup {None} /\ now \in Int
  BY RequestAssumption, BoundAssumption, SMTT(30) DEF TypeOK, Times
<1> QED BY <1>1 DEF Propose, Proposal

(* A row the admission did not insert or hand off is claimed as before.    *)
LEMMA InsertClaims ==
  ASSUME NEW p \in Proposal, Tables, TypeOK, Claims, ops[p.id] = None, idem[p.key] = None,
         Entitled(p), Insert(p), tx' = None, call' = call, issued \subseteq issued',
         \A i \in OpIds : i # p.id => granted'[i] = granted[i],
         \A c \in Calls : call[c] # None /\ call[c].id = p.id =>
            /\ granted'[p.id] = 0
            /\ p.key = call[c].key /\ p.epoch = call[c].epoch /\ p.hash = call[c].hash
  PROVE  Claims'
<1> SUFFICES ASSUME NEW c \in Calls, call[c] # None
             PROVE  /\ granted'[call[c].id] = 0
                    /\ ops'[call[c].id] # None =>
                         /\ ops'[call[c].id].key = call[c].key /\ ops'[call[c].id].epoch = call[c].epoch
                         /\ idem'[call[c].key].hash = call[c].hash
  BY DEF Claims
<1>1. call[c].id \in OpIds /\ call[c].key \in Keys /\ p.at \in Int
  BY DEF TypeOK, Claim, Proposal
<1>2. CASE call[c].id = p.id
  BY <1>1, <1>2, InsertRows, InsertedRow, SMTT(30) DEF Tables, Insert
<1>3. CASE call[c].id # p.id
  <2> SUFFICES ASSUME ops'[call[c].id] # None
               PROVE  /\ ops'[call[c].id].key = call[c].key /\ ops'[call[c].id].epoch = call[c].epoch
                      /\ idem'[call[c].key].hash = call[c].hash
    BY <1>1, <1>3 DEF Claims
  <2>1. /\ ops[call[c].id] # None /\ ops'[call[c].id].key = ops[call[c].id].key
        /\ ops'[call[c].id].epoch = ops[call[c].id].epoch
    <3>1. CASE call[c].id = p.replace
      BY <1>1, <1>3, <3>1, InsertRows, HandedRow, Rows, NoneAssumption, SMTT(30) DEF Tables
    <3>2. CASE call[c].id # p.replace
      BY <1>1, <1>3, <3>2, InsertRows DEF Tables
    <3> QED BY <3>1, <3>2
  <2>2. idem[call[c].key] # None
    BY <1>1, <2>1 DEF Claims, Tables, Linked
  <2>3. idem'[call[c].key].hash = idem[call[c].key].hash
    BY <1>1, <2>2, ExtendedRecord, SMTT(30) DEF Insert, TypeOK
  <2> QED BY <2>1, <2>3 DEF Claims
<1> QED BY <1>2, <1>3

(* Insertion leaves no other accepted row behind than the ones before it.  *)
LEMMA InsertAccepted ==
  ASSUME NEW p \in Proposal, Tables, ops[p.id] = None, Entitled(p), Insert(p),
         NEW i \in OpIds, i # p.id, Unfinished(i)', ops'[i].state = "accepted"
  PROVE  Unfinished(i) /\ ops[i].state = "accepted"
<1>1. CASE i = p.replace
  BY <1>1, InsertRows, HandedRow, NoneAssumption, SMTT(30) DEF Tables
<1>2. CASE i # p.replace
  BY <1>2, InsertRows DEF Tables, Unfinished
<1> QED BY <1>1, <1>2

(* Admit keeps the invariant.                                              *)
LEMMA AdmitInv ==
  ASSUME IndInv, NEW e \in Epochs, NEW k \in Keys, NEW h \in Hashes, Admit(e, k, h)
  PROVE  IndInv'
<1>1. /\ TypeOK /\ Tables /\ Claims /\ Grants /\ EpochOrder /\ NoOrphanedAdmission
  BY DEF IndInv, Tables, TypeOK, TypeTables
<1>2. PICK p \in Propose(e, k, h) :
        /\ Insert(p) /\ issued' = issued \cup {p.id}
        /\ granted' = [granted EXCEPT ![p.id] = @ + 1]
        /\ UNCHANGED <<tx, stores, call, now, abandoned, past>>
  BY DEF Admit
<1>3. p \in Proposal /\ p.id \in OpIds \ issued /\ Admissible(p)
  BY <1>1, ProposedShape
<1>4. /\ tx = None /\ idem[p.key] = None /\ control.ready /\ control.epoch = p.epoch
      /\ initialized[p.epoch] /\ Entitled(p) /\ ops[p.id] = None /\ granted[p.id] = 0
  BY <1>1, <1>3 DEF Admissible, Active, Tables, Linked, Grants
<1>5. Tables'
  BY <1>1, <1>2, <1>3, <1>4, InsertTables DEF stores
<1>6. granted' \in [OpIds -> Nat] /\ granted'[p.id] = 1
  BY <1>1, <1>2, <1>3, <1>4, SMTT(30) DEF TypeOK
<1>7. TypeOK'
  BY <1>1, <1>2, <1>3, <1>5, <1>6 DEF TypeOK, Tables, TypeTables, stores
<1>8. Outstanding' /\ EpochOrder'
  BY <1>1, <1>2, <1>4 DEF Outstanding, EpochOrder, stores, Insert
<1>9. Grants'
  BY <1>1, <1>2, <1>3, <1>6, SMTT(30) DEF Grants, TypeOK
<1>10. Claims'
  <2>1. \A c \in Calls : call[c] # None => call[c].id # p.id
    BY <1>1, <1>3 DEF Claims
  <2>2. \A i \in OpIds : i # p.id => granted'[i] = granted[i]
    BY <1>1, <1>2, <1>3 DEF TypeOK
  <2>3. tx' = None /\ call' = call /\ issued \subseteq issued'
    BY <1>2, <1>4
  <2> QED BY <1>1, <1>2, <1>3, <1>4, <2>1, <2>2, <2>3, InsertClaims
<1>11. NoOrphanedAdmission'
  <2> SUFFICES ASSUME NEW i \in OpIds, Unfinished(i)', ops'[i].state = "accepted", control'.ready, i # p.id
               PROVE  \/ granted'[i] = 1 \/ i \in abandoned'
                      \/ \E c \in Calls : call'[c] # None /\ call'[c].id = i
    BY <1>6 DEF NoOrphanedAdmission
  <2>1. Unfinished(i) /\ ops[i].state = "accepted"
    BY <1>1, <1>2, <1>3, <1>4, InsertAccepted
  <2>2. granted[i] = 1 \/ i \in abandoned \/ \E c \in Calls : call[c] # None /\ call[c].id = i
    BY <1>1, <1>4, <2>1 DEF NoOrphanedAdmission
  <2>3. granted'[i] = granted[i] /\ abandoned' = abandoned /\ call' = call
    BY <1>1, <1>2, <1>3 DEF TypeOK
  <2> QED BY <2>2, <2>3
<1> QED BY <1>5, <1>7, <1>8, <1>9, <1>10, <1>11 DEF IndInv, Tables

(* A commit whose answer was lost keeps the invariant when it happens.     *)
LEMMA ServerCommitsInv == ASSUME IndInv, ServerCommits PROVE IndInv'
<1>1. /\ TypeOK /\ Tables /\ Claims /\ Grants /\ EpochOrder /\ NoOrphanedAdmission /\ Outstanding
  BY DEF IndInv, Tables, TypeOK, TypeTables
<1>2. /\ tx # None /\ Insert(tx) /\ tx' = None
      /\ UNCHANGED <<proc, initialized, previous, call, now, issued, granted, abandoned, past>>
  BY DEF ServerCommits, stores, history
<1>3. tx \in Proposal /\ tx.id \in OpIds
  BY <1>1, <1>2 DEF TypeOK, Proposal
<1>4. /\ idem[tx.key] = None /\ control.ready /\ control.epoch = tx.epoch /\ initialized[tx.epoch]
      /\ Entitled(tx) /\ ops[tx.id] = None /\ tx.id \in issued /\ granted[tx.id] = 0
  BY <1>1, <1>2 DEF Outstanding
<1>5. Tables'
  <2>1. issued' = issued \cup {tx.id} /\ UNCHANGED initialized
    BY <1>2, <1>4
  <2> QED BY <1>1, <1>2, <1>3, <1>4, <2>1, InsertTables
<1>6. TypeOK'
  BY <1>1, <1>2, <1>5 DEF TypeOK, Tables, TypeTables
<1>7. Outstanding' /\ EpochOrder' /\ Grants'
  BY <1>1, <1>2 DEF Outstanding, EpochOrder, Grants, Insert
<1>8. Claims'
  <2>1. \A c \in Calls : call[c] # None /\ call[c].id = tx.id =>
           granted'[tx.id] = 0 /\ tx.key = call[c].key /\ tx.epoch = call[c].epoch /\ tx.hash = call[c].hash
    BY <1>1, <1>2, <1>4 DEF Claims
  <2>2. \A i \in OpIds : i # tx.id => granted'[i] = granted[i]
    BY <1>2
  <2>3. tx' = None /\ call' = call /\ issued \subseteq issued'
    BY <1>2
  <2> QED BY <1>1, <1>2, <1>3, <1>4, <2>1, <2>2, <2>3, InsertClaims
<1>9. NoOrphanedAdmission'
  <2> SUFFICES ASSUME NEW i \in OpIds, Unfinished(i)', ops'[i].state = "accepted", control'.ready
               PROVE  \/ granted[i] = 1 \/ i \in abandoned
                      \/ \E c \in Calls : call[c] # None /\ call[c].id = i
    BY <1>2 DEF NoOrphanedAdmission
  <2>1. CASE i = tx.id
    BY <1>1, <1>2, <2>1 DEF Outstanding
  <2>2. CASE i # tx.id
    <3>1. Unfinished(i) /\ ops[i].state = "accepted"
      BY <1>1, <1>2, <1>3, <1>4, <2>2, InsertAccepted
    <3> QED BY <1>1, <1>4, <3>1 DEF NoOrphanedAdmission
  <2> QED BY <2>1, <2>2
<1> QED BY <1>5, <1>6, <1>7, <1>8, <1>9 DEF IndInv, Tables

(* Steps that leave the tables and the initialized stores alone keep the   *)
(* facts on the tables.                                                    *)
LEMMA TablesKept ==
  ASSUME Tables, UNCHANGED <<control, ops, idem, resv, initialized>>, issued \subseteq issued'
  PROVE  Tables'
BY SMTT(30) DEF Tables, TypeTables, ReservationExact, Linked, Lifecycle, RetentionCovers,
   ReadyMeansRecovered, AdmittedAfterRecovery, Unfinished

(* Losing the answer of a commit keeps the invariant.                      *)
LEMMA AdmitCommitLostInv ==
  ASSUME IndInv, NEW c \in Calls, NEW e \in Epochs, NEW k \in Keys, NEW h \in Hashes,
         AdmitCommitLost(c, e, k, h)
  PROVE  IndInv'
<1>1. /\ TypeOK /\ Tables /\ Claims /\ Grants /\ EpochOrder /\ NoOrphanedAdmission
  BY DEF IndInv, Tables, TypeOK, TypeTables
<1>2. PICK p \in Propose(e, k, h) :
        /\ tx' = p /\ issued' = issued \cup {p.id}
        /\ call' = [call EXCEPT ![c] = [epoch |-> e, key |-> k, hash |-> h, id |-> p.id]]
  BY DEF AdmitCommitLost
<1>3. /\ call[c] = None
      /\ UNCHANGED <<control, ops, idem, resv, proc, initialized, previous, now, granted, abandoned, past>>
  BY DEF AdmitCommitLost, db, stores
<1>4. /\ p \in Proposal /\ p.epoch = e /\ p.key = k /\ p.hash = h
      /\ p.id \in OpIds \ issued /\ Admissible(p)
  BY <1>1, ProposedShape
<1>5. /\ tx = None /\ idem[p.key] = None /\ control.ready /\ control.epoch = p.epoch
      /\ initialized[p.epoch] /\ Entitled(p) /\ ops[p.id] = None /\ granted[p.id] = 0
  BY <1>1, <1>4 DEF Admissible, Active, Tables, Linked, Grants
<1>6. Tables'
  BY <1>1, <1>2, <1>3, TablesKept
<1>7. [epoch |-> e, key |-> k, hash |-> h, id |-> p.id] \in Claim
  BY <1>4 DEF Claim
<1>8. call'[c] # None /\ call'[c].id = p.id
  BY <1>1, <1>2, <1>7, Rows DEF TypeOK
<1>9. TypeOK'
  BY <1>1, <1>2, <1>3, <1>4, <1>7 DEF TypeOK
<1>10. Outstanding'
  <2>1. Entitled(p)'
    BY <1>3, <1>5 DEF Entitled, OwnerMatches, ReplaceMatches, Unfinished
  <2> QED BY <1>2, <1>3, <1>5, <1>8, <2>1 DEF Outstanding
<1>11. Claims'
  <2>1. \A b \in Calls : call[b] # None => call[b].id # p.id
    BY <1>1, <1>4 DEF Claims
  <2>2. \A b \in Calls : b # c => call'[b] = call[b]
    BY <1>1, <1>2 DEF TypeOK
  <2>3. call'[c] = [epoch |-> e, key |-> k, hash |-> h, id |-> p.id]
    BY <1>1, <1>2 DEF TypeOK
  <2> SUFFICES ASSUME NEW b \in Calls, call'[b] # None
               PROVE  /\ call'[b].id \in issued' /\ granted'[call'[b].id] = 0
                      /\ \A x \in Calls : call'[x] # None /\ call'[x].id = call'[b].id => x = b
                      /\ ops'[call'[b].id] # None =>
                           /\ ops'[call'[b].id].key = call'[b].key /\ ops'[call'[b].id].epoch = call'[b].epoch
                           /\ idem'[call'[b].key].hash = call'[b].hash
                      /\ tx' # None /\ tx'.id = call'[b].id =>
                           tx'.key = call'[b].key /\ tx'.epoch = call'[b].epoch /\ tx'.hash = call'[b].hash
    BY DEF Claims
  <2>4. CASE b = c
    <3> DEFINE n == [epoch |-> e, key |-> k, hash |-> h, id |-> p.id]
    <3>0. n.id = p.id /\ n.key = k /\ n.epoch = e /\ n.hash = h /\ call'[b] = n  BY <2>3, <2>4
    <3> HIDE DEF n
    <3>1. call'[b].id = p.id /\ call'[b].key = k /\ call'[b].epoch = e /\ call'[b].hash = h
      BY <3>0
    <3>2. \A x \in Calls : call'[x] # None /\ call'[x].id = p.id => x = b
      BY <2>1, <2>2, <2>4
    <3>3. p.id \in issued' /\ granted'[p.id] = 0 /\ ops'[p.id] = None
      BY <1>2, <1>3, <1>5
    <3>4. tx'.key = k /\ tx'.epoch = e /\ tx'.hash = h  BY <1>2, <1>4
    <3> QED BY <3>1, <3>2, <3>3, <3>4
  <2>5. CASE b # c
    BY <1>1, <1>2, <1>3, <2>1, <2>2, <2>3, <2>5, SMTT(30) DEF Claims
  <2> QED BY <2>4, <2>5
<1>12. Grants' /\ EpochOrder'
  BY <1>1, <1>2, <1>3 DEF Grants, EpochOrder
<1>13. NoOrphanedAdmission'
  <2>1. \A b \in Calls : call[b] # None => call'[b] = call[b]
    BY <1>1, <1>2, <1>3 DEF TypeOK
  <2>2. ASSUME NEW i \in OpIds, Unfinished(i)', ops'[i].state = "accepted", control'.ready
        PROVE  granted'[i] = 1 \/ i \in abandoned' \/ \E b \in Calls : call'[b] # None /\ call'[b].id = i
    <3>1. Unfinished(i) /\ ops[i].state = "accepted" /\ control.ready
      BY <1>3, <2>2 DEF Unfinished
    <3>2. granted[i] = 1 \/ i \in abandoned \/ \E b \in Calls : call[b] # None /\ call[b].id = i
      BY <1>1, <3>1 DEF NoOrphanedAdmission
    <3> QED BY <1>3, <2>1, <3>2
  <2> QED BY <2>2 DEF NoOrphanedAdmission
<1> QED BY <1>6, <1>9, <1>10, <1>11, <1>12, <1>13 DEF IndInv, Tables

(* Resolving a lost commit keeps the invariant.                            *)
LEMMA AdmitResolveInv == ASSUME IndInv, NEW c \in Calls, AdmitResolve(c) PROVE IndInv'
<1>1. /\ TypeOK /\ Tables /\ Claims /\ Grants /\ EpochOrder /\ NoOrphanedAdmission
  BY DEF IndInv, Tables, TypeOK, TypeTables
<1> DEFINE i == call[c].id
<1>2. /\ call[c] # None /\ tx = None /\ tx' = None
      /\ granted' = IF RecoveredCommit(c) THEN [granted EXCEPT ![i] = @ + 1] ELSE granted
      /\ call' = [call EXCEPT ![c] = None]
      /\ UNCHANGED <<control, ops, idem, resv, proc, initialized, previous, now, issued, abandoned, past>>
  BY DEF AdmitResolve, LookupCommitted, RecoveredCommit, db, stores
<1>3. i \in OpIds /\ i \in issued /\ granted[i] = 0
  BY <1>1, <1>2 DEF TypeOK, Claim, Claims
<1>4. Tables'
  BY <1>1, <1>2, TablesKept
<1>5. granted' \in [OpIds -> Nat] /\ granted'[i] \in {0, 1} /\ (RecoveredCommit(c) => granted'[i] = 1)
  BY <1>1, <1>2, <1>3, SMTT(30) DEF TypeOK
<1>6. TypeOK'
  BY <1>1, <1>2, <1>5 DEF TypeOK
<1>7. Outstanding' /\ EpochOrder'
  BY <1>1, <1>2 DEF Outstanding, EpochOrder
<1>8. \A j \in OpIds : j # i => granted'[j] = granted[j]
  BY <1>1, <1>2, <1>3 DEF TypeOK
<1>9. Grants'
  BY <1>1, <1>2, <1>3, <1>5, <1>8, SMTT(30) DEF Grants
<1>10. \A b \in Calls : /\ b # c => call'[b] = call[b]
                        /\ b = c => call'[b] = None
                        /\ call'[b] # None => call[b].id \in OpIds \ {i}
  BY <1>1, <1>2 DEF Claims, TypeOK, Claim
<1>11. Claims'
  BY <1>1, <1>2, <1>8, <1>10, SMTT(30) DEF Claims
<1>12. NoOrphanedAdmission'
  <2> SUFFICES ASSUME NEW j \in OpIds, Unfinished(j), ops[j].state = "accepted", control.ready
               PROVE  \/ granted'[j] = 1 \/ j \in abandoned
                      \/ \E b \in Calls : call'[b] # None /\ call'[b].id = j
    BY <1>2 DEF NoOrphanedAdmission, Unfinished
  <2>1. CASE j # i
    <3>1. \/ granted[j] = 1 \/ j \in abandoned
          \/ \E b \in Calls : call[b] # None /\ call[b].id = j
      BY <1>1 DEF NoOrphanedAdmission
    <3> QED BY <1>8, <1>10, <2>1, <3>1
  <2>2. CASE j = i
    <3>1. ops[i] # None /\ ops[i].key = call[c].key /\ ops[i].epoch = call[c].epoch
          /\ idem[call[c].key].hash = call[c].hash
      BY <1>1, <1>2, <2>2 DEF Claims, Unfinished
    <3>2. ops[i].epoch = control.epoch
      BY <1>1, <2>2 DEF Tables, ReadyMeansRecovered
    <3>3. idem[call[c].key] # None /\ idem[call[c].key].op = i
      BY <1>1, <1>3, <3>1 DEF Tables, Linked
    <3>4. RecoveredCommit(c)
      BY <2>2, <3>1, <3>2, <3>3 DEF RecoveredCommit
    <3> QED BY <1>5, <2>2, <3>4
  <2> QED BY <2>1, <2>2
<1> QED BY <1>4, <1>6, <1>7, <1>9, <1>11, <1>12 DEF IndInv, Tables
-----------------------------------------------------------------------------
(* Callers that leave, the remaining steps, and the theorems.              *)

(* A caller that gives up, or dies, leaves its ids in abandoned.           *)
LEMMA CallersLeave ==
  ASSUME IndInv, NEW lost \in SUBSET Calls, \A c \in lost : call[c] # None,
         call' = [c \in Calls |-> IF c \in lost THEN None ELSE call[c]],
         abandoned' = abandoned \cup {call[c].id : c \in lost}, TypeOK',
         UNCHANGED <<control, ops, idem, resv, tx, initialized, previous, issued, granted, past>>
  PROVE  IndInv'
<1>1. /\ Tables /\ Claims /\ Grants /\ EpochOrder /\ NoOrphanedAdmission /\ Outstanding
  BY DEF IndInv, Tables, TypeOK, TypeTables
<1>2. Tables'
  BY <1>1, TablesKept
<1>3. \A c \in Calls : call[c] # None => call'[c] = call[c] \/ call[c].id \in abandoned'
  OBVIOUS
<1>4. Outstanding'
  <2>1. tx # None => (Entitled(tx) <=> Entitled(tx)')
    BY DEF Entitled, OwnerMatches, ReplaceMatches, Unfinished
  <2> QED BY <1>1, <1>3, <2>1 DEF Outstanding
<1>5. Claims' /\ Grants' /\ EpochOrder'
  BY <1>1 DEF Claims, Grants, EpochOrder
<1>6. NoOrphanedAdmission'
  BY <1>1, <1>3 DEF NoOrphanedAdmission, Unfinished
<1> QED BY <1>2, <1>4, <1>5, <1>6 DEF IndInv, Tables

(* Giving up on a lost commit keeps the invariant.                         *)
LEMMA AdmitUnresolvedInv == ASSUME IndInv, NEW c \in Calls, AdmitUnresolved(c) PROVE IndInv'
<1>1. TypeOK'
  BY DEF IndInv, TypeOK, AdmitUnresolved, db, stores, Claim
<1>2. call' = [b \in Calls |-> IF b \in {c} THEN None ELSE call[b]]
  BY DEF IndInv, TypeOK, AdmitUnresolved
<1>3. /\ call[c] # None /\ abandoned' = abandoned \cup {call[b].id : b \in {c}}
      /\ UNCHANGED <<control, ops, idem, resv, tx, initialized, previous, issued, granted, past>>
  BY DEF AdmitUnresolved, db, stores
<1>4. {c} \in SUBSET Calls /\ \A b \in {c} : call[b] # None
  BY <1>3
<1> QED BY <1>1, <1>2, <1>3, <1>4, CallersLeave

(* A crash keeps the invariant.                                            *)
LEMMA CrashInv == ASSUME IndInv, NEW e \in Epochs, Crash(e) PROVE IndInv'
<1> DEFINE lost == {c \in Calls : call[c] # None /\ call[c].epoch = e}
<1>1. TypeOK'
  BY SMTT(30) DEF IndInv, TypeOK, Crash, db, Claim
<1>2. /\ call' = [c \in Calls |-> IF c \in lost THEN None ELSE call[c]]
      /\ abandoned' = abandoned \cup {call[c].id : c \in lost}
      /\ UNCHANGED <<control, ops, idem, resv, tx, initialized, previous, issued, granted, past>>
  BY DEF Crash, db
<1>3. lost \in SUBSET Calls /\ \A c \in lost : call[c] # None
  OBVIOUS
<1> QED BY <1>1, <1>2, <1>3, CallersLeave

(* Steps that touch neither tables nor claims.                             *)
LEMMA QuietInv ==
  ASSUME IndInv, TypeOK', tx' \in {tx, None}, EpochOrder',
         UNCHANGED <<control, ops, idem, resv, initialized, call, issued, granted, abandoned>>
  PROVE  IndInv'
<1>1. /\ Tables /\ Claims /\ Grants /\ NoOrphanedAdmission /\ Outstanding
  BY DEF IndInv, Tables, TypeOK, TypeTables
<1>2. Tables'
  BY <1>1, TablesKept
<1>3. Outstanding'
  <2>2. CASE tx' = tx
    BY <1>1, <2>2 DEF Outstanding, Entitled, OwnerMatches, ReplaceMatches, Unfinished
  <2>3. CASE tx' = None
    BY <2>3 DEF Outstanding
  <2> QED BY <2>2, <2>3
<1>4. Claims' /\ Grants' /\ NoOrphanedAdmission'
  BY <1>1 DEF Claims, Grants, NoOrphanedAdmission, Unfinished
<1> QED BY <1>2, <1>3, <1>4 DEF IndInv, Tables

(* The steps that change no table keep the invariant.                      *)
LEMMA QuietSteps ==
  ASSUME IndInv,
         ServerAborts \/ Tick \/ \E e \in Epochs : Open(e) \/ RecoverAborts(e)
  PROVE  IndInv'
<1>1. CASE ServerAborts
  BY <1>1, QuietInv DEF IndInv, TypeOK, EpochOrder, ServerAborts, db, stores, history
<1>2. CASE Tick
  BY <1>2, QuietInv DEF IndInv, TypeOK, EpochOrder, Tick, db, stores, history
<1>3. ASSUME NEW e \in Epochs, Open(e) PROVE IndInv'
  BY <1>3, QuietInv DEF IndInv, TypeOK, EpochOrder, Open, db, history
<1>4. ASSUME NEW e \in Epochs, RecoverAborts(e) PROVE IndInv'
  <2>1. TypeOK /\ EpochOrder
    BY DEF IndInv
  <2>2. /\ previous[e] = None /\ previous' = [previous EXCEPT ![e] = control.epoch]
        /\ UNCHANGED <<control, ops, idem, resv, tx, proc, initialized, call, now, issued, granted, abandoned, past>>
    BY <1>4 DEF RecoverAborts, PreviousEpoch, db, history
  <2>3. TypeOK'
    BY <2>1, <2>2 DEF TypeOK
  <2>4. e \notin past \cup {control.epoch}
    BY <2>1, <2>2, NoneAssumption DEF EpochOrder, TypeOK
  <2>5. EpochOrder'
    BY <2>1, <2>2, <2>4 DEF EpochOrder, TypeOK
  <2> QED BY <2>2, <2>3, <2>5, QuietInv
<1> QED BY <1>1, <1>2, <1>3, <1>4
-----------------------------------------------------------------------------
(* The invariant holds of the empty journal.                               *)
LEMMA InitInv == Init => IndInv
<1> SUFFICES ASSUME Init PROVE IndInv
  OBVIOUS
<1>1. TypeOK
  BY DEF Init, TypeOK
<1> QED BY <1>1, NoneAssumption, SMTT(30) DEF Init, IndInv, ReservationExact, Linked, Lifecycle,
      RetentionCovers, Outstanding, Claims, Grants, EpochOrder, AdmittedAfterRecovery,
      ReadyMeansRecovered, NoOrphanedAdmission, Unfinished

(* Every step keeps the invariant.                                         *)
LEMMA StepInv == IndInv /\ [Next]_vars => IndInv'
<1> SUFFICES ASSUME IndInv, [Next]_vars PROVE IndInv'
  OBVIOUS
<1>1. CASE UNCHANGED vars
  BY <1>1, QuietInv DEF vars, IndInv, TypeOK, EpochOrder
<1>2. CASE \E e \in Epochs : Open(e) \/ RecoverAborts(e)
  BY <1>2, QuietSteps
<1>3. CASE \E e \in Epochs : Crash(e)
  BY <1>3, CrashInv
<1>4. CASE \E e \in Epochs, a \in BOOLEAN : RecoverBatch(e, a)
  BY <1>4, RecoverBatchInv
<1>5. CASE \E e \in Epochs, limit \in 1 .. MaxBatch : Prune(e, limit)
  BY <1>5, PruneInv
<1>6. CASE \E e \in Epochs, i \in OpIds : SelectAlbum(e, i)
  BY <1>6, SelectAlbumInv
<1>7. CASE \E e \in Epochs, i \in OpIds, s \in Updates : Transition(e, i, s)
  BY <1>7, TransitionInv
<1>8. CASE \E e \in Epochs, k \in Keys, h \in Hashes : Admit(e, k, h)
  BY <1>8, AdmitInv
<1>9. CASE \E e \in Epochs, k \in Keys, h \in Hashes, c \in Calls : AdmitCommitLost(c, e, k, h)
  BY <1>9, AdmitCommitLostInv
<1>10. CASE ServerCommits
  BY <1>10, ServerCommitsInv
<1>11. CASE ServerAborts \/ Tick
  BY <1>11, QuietSteps
<1>12. CASE \E c \in Calls : AdmitResolve(c)
  BY <1>12, AdmitResolveInv
<1>13. CASE \E c \in Calls : AdmitUnresolved(c)
  BY <1>13, AdmitUnresolvedInv
<1> QED BY <1>1, <1>2, <1>3, <1>4, <1>5, <1>6, <1>7, <1>8, <1>9, <1>10, <1>11, <1>12, <1>13 DEF Next

(* The invariant holds always.                                             *)
LEMMA Inductive == Spec => []IndInv
BY InitInv, StepInv, PTL DEF Spec
-----------------------------------------------------------------------------
(* Every table keeps its declared shape.                                   *)
THEOREM TypeCorrect == Spec => []TypeOK
BY Inductive, PTL DEF IndInv

(* A device is reserved exactly by the open operation that took it: Admit, *)
(* handoff, finish and recovery move rows and reservations together.       *)
THEOREM ReservationsExact == Spec => []ReservationExact
BY Inductive, PTL DEF IndInv

(* No operation is handed to two workers, however COMMITs and retries go.  *)
THEOREM AtMostOnce == Spec => []DispatchedOnce
<1>1. IndInv => DispatchedOnce
  BY DEF IndInv, Grants, DispatchedOnce
<1> QED BY <1>1, Inductive, PTL

(* lookup finds every stored operation under the key that created it.      *)
THEOREM RetriesReplay == Spec => []Replayable
<1>1. IndInv => Replayable
  <2> SUFFICES ASSUME IndInv, NEW i \in OpIds, ops[i] # None, NEW k \in Keys
               PROVE  (idem[k] # None /\ idem[k].op = i) <=> k = ops[i].key
    BY DEF Replayable
  <2> QED BY DEF IndInv, Linked
<1> QED BY <1>1, Inductive, PTL

(* ExtendRetention covers a full retention after an operation finished.    *)
THEOREM RetentionKept == Spec => []RetentionCovers
BY Inductive, PTL DEF IndInv

(* recoverBatch sets ready only when no other epoch's work is left open.   *)
THEOREM RecoveredBeforeReady == Spec => []ReadyMeansRecovered
BY Inductive, PTL DEF IndInv

(* Admit never leaves an accepted operation that nobody knows of.          *)
THEOREM AdmissionsAccounted == Spec => []NoOrphanedAdmission
BY Inductive, PTL DEF IndInv

(* A superseded process cannot take the journal back by retrying Recover.  *)
THEOREM EpochsFenced == Spec => EpochNeverReturns
<1>1. IndInv /\ IndInv' /\ [Next]_vars => [control'.epoch \notin past]_vars
  <2> SUFFICES ASSUME IndInv, IndInv', Next PROVE control'.epoch \notin past
    BY DEF vars
  <2>1. past \subseteq past'
    BY DEF Next, Open, Crash, RecoverBatch, Interrupt, RecoverAborts, Prune, SelectAlbum,
       Transition, Admit, AdmitCommitLost, ServerCommits, ServerAborts, AdmitResolve,
       AdmitUnresolved, Tick, history
  <2> QED BY <2>1 DEF IndInv, EpochOrder
<1> QED BY <1>1, Inductive, PTL DEF Spec, EpochNeverReturns

(* No action rewrites a finished row: each UPDATE asks for finished_at     *)
(* IS NULL, and an insertion never meets a row of its id.                  *)
THEOREM TerminalStays == Spec => TerminalImmutable
<1> DEFINE Kept == \A i \in OpIds : ops[i] # None /\ ops[i].finished # None => ops'[i] \in {ops[i], None}
<1>1. IndInv /\ [Next]_vars => [Kept]_vars
  <2> SUFFICES ASSUME IndInv, Next, NEW i \in OpIds, ops[i] # None, ops[i].finished # None
               PROVE  ops'[i] \in {ops[i], None}
    BY DEF vars
  <2>1. TypeOK /\ Tables /\ Outstanding
    BY DEF IndInv, Tables, TypeOK, TypeTables
  <2>2. CASE UNCHANGED ops
    BY <2>2
  <2>3. ASSUME NEW p \in Proposal, ops[p.id] = None, Entitled(p), Insert(p)
        PROVE  ops'[i] = ops[i]
    <3>1. i # p.id /\ i # p.replace
      BY <2>1, <2>3, InsertRows, NoneAssumption DEF Tables
    <3> QED BY <2>1, <2>3, <3>1, InsertRows DEF Tables
  <2>4. ASSUME NEW e \in Epochs, NEW k \in Keys, NEW h \in Hashes, Admit(e, k, h)
        PROVE  ops'[i] = ops[i]
    <3>1. PICK p \in Propose(e, k, h) : Insert(p)
      BY <2>4 DEF Admit
    <3>2. p \in Proposal /\ p.id \in OpIds \ issued /\ Entitled(p)
      BY <2>1, ProposedShape DEF Admissible
    <3>3. ops[p.id] = None
      BY <2>1, <3>2 DEF Tables, Linked
    <3> QED BY <2>3, <3>1, <3>2, <3>3
  <2>5. CASE ServerCommits
    BY <2>1, <2>3, <2>5 DEF ServerCommits, Outstanding, TypeOK
  <2>6. ASSUME NEW e \in Epochs, NEW j \in OpIds, NEW s \in Updates, Transition(e, j, s)
        PROVE  ops'[i] = ops[i]
    BY <2>1, <2>6 DEF Transition, Updatable, Unfinished, TypeOK
  <2>7. ASSUME NEW e \in Epochs, NEW j \in OpIds, SelectAlbum(e, j)
        PROVE  ops'[i] = ops[i]
    BY <2>1, <2>7 DEF SelectAlbum, Updatable, Unfinished, TypeOK
  <2>8. ASSUME NEW e \in Epochs, NEW limit, Prune(e, limit)
        PROVE  ops'[i] \in {ops[i], None}
    BY <2>8 DEF Prune
  <2>9. ASSUME NEW e \in Epochs, NEW a \in BOOLEAN, RecoverBatch(e, a)
        PROVE  ops'[i] = ops[i]
    BY <2>9 DEF RecoverBatch, Interrupt, Interruptible, Unfinished
  <2>10. ASSUME NEW e \in Epochs, Open(e) \/ Crash(e) \/ RecoverAborts(e)
         PROVE  UNCHANGED ops
    BY <2>10 DEF Open, Crash, RecoverAborts, db
  <2>11. ASSUME ServerAborts \/ Tick \/ \E c \in Calls : \/ AdmitResolve(c) \/ AdmitUnresolved(c)
                  \/ \E e \in Epochs, k \in Keys, h \in Hashes : AdmitCommitLost(c, e, k, h)
         PROVE  UNCHANGED ops
    BY <2>11 DEF ServerAborts, Tick, AdmitResolve, AdmitUnresolved, AdmitCommitLost, db
  <2> QED BY <2>2, <2>4, <2>5, <2>6, <2>7, <2>8, <2>9, <2>10, <2>11 DEF Next
<1> QED BY <1>1, Inductive, PTL DEF Spec, TerminalImmutable

(* Created is returned only for an operation that is accepted under the    *)
(* ready epoch when Admit, or its resolution, answers.                     *)
THEOREM DispatchesCurrent == Spec => DispatchIsCurrent
<1> DEFINE Current == \A i \in OpIds : granted'[i] # granted[i]
              => /\ Unfinished(i)' /\ ops'[i].state = "accepted"
                 /\ ops'[i].epoch = control'.epoch /\ control'.ready
<1>1. IndInv /\ [Next]_vars => [Current]_vars
  <2> SUFFICES ASSUME IndInv, Next, NEW i \in OpIds, granted'[i] # granted[i]
               PROVE  /\ Unfinished(i)' /\ ops'[i].state = "accepted"
                      /\ ops'[i].epoch = control'.epoch /\ control'.ready
    BY DEF vars
  <2>1. TypeOK /\ Tables
    BY DEF IndInv, Tables, TypeOK, TypeTables
  <2>2. \/ \E e \in Epochs, k \in Keys, h \in Hashes : Admit(e, k, h)
        \/ \E c \in Calls : AdmitResolve(c)
    BY DEF Next, Open, Crash, RecoverBatch, RecoverAborts, Prune, SelectAlbum, Transition,
       AdmitCommitLost, ServerCommits, ServerAborts, AdmitUnresolved, Tick, history
  <2>3. ASSUME NEW e \in Epochs, NEW k \in Keys, NEW h \in Hashes, Admit(e, k, h)
        PROVE  /\ Unfinished(i)' /\ ops'[i].state = "accepted"
               /\ ops'[i].epoch = control'.epoch /\ control'.ready
    <3>1. PICK p \in Propose(e, k, h) : Insert(p) /\ granted' = [granted EXCEPT ![p.id] = @ + 1]
      BY <2>3 DEF Admit
    <3>2. /\ p \in Proposal /\ p.id \in OpIds \ issued /\ Entitled(p)
          /\ control.ready /\ control.epoch = p.epoch
      BY <2>1, ProposedShape DEF Admissible, Active
    <3>3. ops[p.id] = None /\ i = p.id
      BY <2>1, <3>1, <3>2 DEF Tables, Linked, TypeOK
    <3>4. ops'[i] = InsertOperation(p)
      BY <2>1, <3>1, <3>2, <3>3, InsertRows DEF Tables
    <3> QED BY <3>1, <3>2, <3>3, <3>4, InsertedRow, Rows DEF Unfinished, Insert
  <2>4. ASSUME NEW c \in Calls, AdmitResolve(c)
        PROVE  /\ Unfinished(i)' /\ ops'[i].state = "accepted"
               /\ ops'[i].epoch = control'.epoch /\ control'.ready
    <3>1. UNCHANGED <<control, ops>> /\ call[c] # None
      BY <2>4 DEF AdmitResolve, db
    <3>2. i = call[c].id /\ RecoveredCommit(c)
      <4> DEFINE o == idem[call[c].key].op
      <4>1. granted' = IF RecoveredCommit(c) THEN [granted EXCEPT ![o] = @ + 1] ELSE granted
        BY <2>4 DEF AdmitResolve
      <4>2. granted \in [OpIds -> Nat]
        BY <2>1 DEF TypeOK
      <4>3. RecoveredCommit(c)
        BY <4>1
      <4>4. o = call[c].id
        BY <4>3 DEF RecoveredCommit
      <4> HIDE DEF o
      <4>5. i = o
        BY <4>1, <4>2, <4>3
      <4> QED BY <4>3, <4>4, <4>5
    <3>3. call[c].key \in Keys
      BY <2>1, <3>1 DEF TypeOK, Claim
    <3>4. ops[i] # None /\ ops[i].state = "accepted" /\ ops[i].epoch = control.epoch /\ control.ready
      BY <2>1, <3>2, <3>3 DEF RecoveredCommit, Tables, Linked
    <3> QED BY <2>1, <3>1, <3>4 DEF Tables, Lifecycle, Unfinished
  <2> QED BY <2>2, <2>3, <2>4
<1> QED BY <1>1, Inductive, PTL DEF Spec, DispatchIsCurrent
-----------------------------------------------------------------------------
(* The refinement.                                                         *)

(* The abstract lives of the operations, before and after a step.          *)
LEMMA Lives ==
  /\ life = [i \in OpIds |-> Life(i)] /\ life' = [i \in OpIds |-> Life(i)']
  /\ \A i \in OpIds : life[i] = Life(i) /\ life'[i] = Life(i)'
BY DEF life

(* A step that leaves rows and reservations alone is invisible.            *)
LEMMA InvisibleStep == ASSUME UNCHANGED <<ops, resv, granted>> PROVE UNCHANGED L!vars
BY DEF L!vars, life, Life

(* An admission reserves, takes over or joins the device it addresses.     *)
LEMMA InsertOpens ==
  ASSUME NEW p \in Proposal, TypeTables, ops[p.id] = None, Entitled(p), Insert(p),
         L!MayStart(p.id)
  PROVE  L!Next
<1> DEFINE i == p.id
           d == Player[p.hash]
<1>1. i \in OpIds /\ d \in Devices
  BY RequestAssumption DEF Proposal
<1>2. /\ life[i] = "absent" /\ life'[i] = "open"
      /\ \A j \in OpIds : j # i /\ j # p.replace => life'[j] = life[j]
  BY <1>1, Lives, InsertRows, InsertedRow, Rows DEF Life
<1>3. CASE p.owner # None
  <2>1. p.replace = None /\ resv[d] # None
    BY <1>3, NoneAssumption DEF Entitled, OwnerMatches, Proposal
  <2>2. UNCHANGED resv
    BY <1>1, <1>3 DEF Insert, TypeTables
  <2>3. life' = [life EXCEPT ![i] = "open"]
    BY <1>1, <1>2, <2>1, Lives, NoneAssumption
  <2> QED BY <1>1, <1>2, <2>1, <2>2, <2>3 DEF L!Next, L!Join
<1>4. CASE p.owner = None /\ p.replace # None
  <2>1. p.replace \in OpIds \ {i} /\ resv[d] = p.replace
    BY <1>4, InsertRows
  <2>2. Life(p.replace)' \in {"open", "finished"}
    BY <1>4, InsertRows, HandedRow, Rows DEF Life
  <2>3. resv' = [resv EXCEPT ![d] = i]
    BY <1>4 DEF Insert
  <2>4. life' = [j \in OpIds |-> IF j = i THEN "open"
                                 ELSE IF j = resv[d] THEN Life(p.replace)' ELSE life[j]]
    BY <1>1, <1>2, <2>1, Lives
  <2>5. \E last \in {"open", "finished"} :
          life' = [j \in OpIds |-> IF j = i THEN "open"
                                   ELSE IF j = resv[d] THEN last ELSE life[j]]
    BY <2>2, <2>4
  <2> QED BY <1>1, <1>2, <1>4, <2>1, <2>3, <2>5 DEF L!Next, L!HandOver
<1>5. CASE p.owner = None /\ p.replace = None
  <2>1. resv[d] = None /\ resv' = [resv EXCEPT ![d] = i]
    BY <1>5 DEF Entitled, Insert
  <2>2. life' = [life EXCEPT ![i] = "open"]
    BY <1>1, <1>2, <1>5, Lives, NoneAssumption
  <2> QED BY <1>1, <1>2, <2>1, <2>2 DEF L!Next, L!Reserve
<1> QED BY <1>3, <1>4, <1>5

(* Finishing rows ends operations and frees what they hold.                *)
LEMMA FinishEnds ==
  ASSUME TypeTables, NEW S \in SUBSET OpIds, \A i \in S : Unfinished(i),
         \A i \in S : ops'[i] # None /\ ops'[i].finished # None,
         \A i \in OpIds \ S : Life(i)' = Life(i),
         resv' = [d \in Devices |-> IF resv[d] \in S THEN None ELSE resv[d]],
         UNCHANGED granted
  PROVE  L!Next
<1>1. \A i \in S : life[i] = "open" /\ life'[i] = "finished"
  BY Lives DEF Unfinished, Life
<1>2. life' = [i \in OpIds |-> IF i \in S THEN "finished" ELSE life[i]]
  BY <1>1, Lives
<1>3. L!End(S)
  BY <1>1, <1>2 DEF L!End
<1> QED BY <1>3 DEF L!Next
-----------------------------------------------------------------------------
(* Admit is a step of the ledger.                                          *)
LEMMA AdmitOpens ==
  ASSUME IndInv, NEW e \in Epochs, NEW k \in Keys, NEW h \in Hashes, Admit(e, k, h)
  PROVE  L!Next
<1>1. TypeOK /\ Tables /\ Grants
  BY DEF IndInv, Tables, TypeOK, TypeTables
<1>2. PICK p \in Propose(e, k, h) : Insert(p) /\ granted' = [granted EXCEPT ![p.id] = @ + 1]
  BY DEF Admit
<1>3. p \in Proposal /\ p.id \in OpIds \ issued /\ Admissible(p)
  BY <1>1, ProposedShape
<1>4. ops[p.id] = None /\ granted[p.id] = 0 /\ Entitled(p)
  BY <1>1, <1>3 DEF Tables, Linked, Grants, Admissible
<1>5. L!MayStart(p.id)
  BY <1>1, <1>2, <1>3, <1>4, SMTT(30) DEF L!MayStart, TypeOK
<1> QED BY <1>1, <1>2, <1>3, <1>4, <1>5, InsertOpens DEF Tables

(* A late commit is a step of the ledger.                                  *)
LEMMA ServerCommitsOpens == ASSUME IndInv, ServerCommits PROVE L!Next
<1>1. tx \in Proposal /\ ops[tx.id] = None /\ Entitled(tx) /\ Insert(tx) /\ TypeTables
  BY DEF IndInv, TypeOK, TypeTables, Outstanding, ServerCommits
<1>2. L!MayStart(tx.id)
  BY DEF L!MayStart, ServerCommits, history
<1> QED BY <1>1, <1>2, InsertOpens

(* A resolution that finds its own operation accepted starts it.           *)
LEMMA AdmitResolveStarts ==
  ASSUME IndInv, NEW c \in Calls, AdmitResolve(c)
  PROVE  L!Next \/ UNCHANGED L!vars
<1>1. TypeOK /\ Tables /\ Claims
  BY DEF IndInv, Tables, TypeOK, TypeTables
<1> DEFINE i == call[c].id
<1>2. /\ call[c] # None /\ UNCHANGED <<ops, resv>>
      /\ granted' = IF RecoveredCommit(c) THEN [granted EXCEPT ![i] = @ + 1] ELSE granted
  BY DEF AdmitResolve, RecoveredCommit, db
<1>3. i \in OpIds /\ call[c].key \in Keys /\ granted[i] = 0
  BY <1>1, <1>2 DEF TypeOK, Claim, Claims
<1>4. CASE ~RecoveredCommit(c)
  BY <1>2, <1>4, InvisibleStep
<1>5. CASE RecoveredCommit(c)
  <2>1. ops[i] # None /\ ops[i].state = "accepted"
    BY <1>1, <1>3, <1>5 DEF RecoveredCommit, Tables, Linked
  <2>2. life[i] = "open"
    BY <1>1, <1>3, <2>1, Lives DEF Life, Tables, Lifecycle
  <2>3. life' = life
    BY <1>2 DEF life, Life
  <2>4. granted' = [granted EXCEPT ![i] = 1]
    BY <1>1, <1>2, <1>3, <1>5, SMTT(30) DEF TypeOK
  <2> QED BY <1>2, <1>3, <2>2, <2>3, <2>4 DEF L!Next, L!Start
<1> QED BY <1>4, <1>5

(* A terminal update ends the operation; any other one is invisible.       *)
LEMMA TransitionEnds ==
  ASSUME IndInv, NEW e \in Epochs, NEW i \in OpIds, NEW s \in Updates, Transition(e, i, s)
  PROVE  L!Next \/ UNCHANGED L!vars
<1>1. TypeTables /\ ops \in [OpIds -> Operation \cup {None}] /\ now \in Int /\ s \in States
  BY BoundAssumption, UpdateAssumption, SMTT(30) DEF IndInv, TypeOK, TypeTables, Times
<1> DEFINE n == Moved(ops[i], s, now)
<1>2. /\ Unfinished(i) /\ ops' = [ops EXCEPT ![i] = n] /\ UNCHANGED granted
      /\ Finish(IF s \in Terminal THEN {i} ELSE {}, now)
  BY DEF Transition, Updatable, history
<1>3. /\ ops[i] \in Operation /\ n \in Operation /\ n # None
      /\ n.finished = IF s \in Terminal THEN now ELSE None
  BY <1>1, <1>2, MovedRow, Rows, SMTT(30) DEF Unfinished
<1>4. ops'[i] = n /\ \A j \in OpIds \ {i} : ops'[j] = ops[j]
  BY <1>1, <1>2
<1> HIDE DEF n
<1>5. CASE s \in Terminal
  <2>1. \A j \in {i} : Unfinished(j) /\ ops'[j] # None /\ ops'[j].finished # None
    BY <1>1, <1>2, <1>3, <1>4, <1>5, NoneAssumption
  <2>2. \A j \in OpIds \ {i} : Life(j)' = Life(j)
    BY <1>4 DEF Life
  <2>3. resv' = [d \in Devices |-> IF resv[d] \in {i} THEN None ELSE resv[d]]
    BY <1>2, <1>5 DEF Finish
  <2> QED BY <1>1, <1>2, <2>1, <2>2, <2>3, FinishEnds, SMTT(30)
<1>6. CASE s \notin Terminal
  <2>1. Life(i)' = Life(i)
    BY <1>2, <1>3, <1>4, <1>6 DEF Life, Unfinished
  <2>2. life' = life
    BY <1>4, <2>1, Lives DEF Life
  <2>3. resv' = resv
    BY <1>1, <1>2, <1>6 DEF Finish, TypeTables
  <2> QED BY <1>2, <2>2, <2>3 DEF L!vars
<1> QED BY <1>5, <1>6

(* SelectAlbum is invisible in the ledger.                                 *)
LEMMA SelectAlbumInvisible ==
  ASSUME IndInv, NEW e \in Epochs, NEW i \in OpIds, SelectAlbum(e, i)
  PROVE  UNCHANGED L!vars
<1>1. /\ ops \in [OpIds -> Operation \cup {None}] /\ Unfinished(i)
      /\ ops' = [ops EXCEPT ![i] = Chosen(ops[i])] /\ UNCHANGED <<resv, granted>>
  BY DEF IndInv, TypeOK, SelectAlbum, Updatable, history
<1>2. ops[i] \in Operation /\ ops[i].revision + 1 \in Nat
  BY <1>1, SMTT(30) DEF Unfinished, Operation
<1>3. Chosen(ops[i]) \in Operation /\ Chosen(ops[i]).finished = ops[i].finished
  <2>1. Chosen(ops[i]) \in Operation
    BY <1>2, UpdatedRow DEF States, Chosen
  <2> QED BY <1>2, <2>1 DEF Chosen, Operation
<1>4. \A j \in OpIds : Life(j)' = Life(j)
  BY <1>1, <1>2, <1>3, Rows DEF Life
<1>5. life' = life
  BY <1>4, Lives
<1> QED BY <1>1, <1>5 DEF L!vars

(* Pruning forgets operations that have ended.                             *)
LEMMA PruneForgets ==
  ASSUME IndInv, NEW e \in Epochs, NEW limit, Prune(e, limit)
  PROVE  L!Next
<1>1. PICK B \in SUBSET Prunable : ops' = [i \in OpIds |-> IF i \in B THEN None ELSE ops[i]]
  BY DEF Prune
<1>2. B \in SUBSET OpIds /\ \A i \in B : ops[i] # None /\ ops[i].finished # None
  BY DEF Prunable, Stored
<1>3. UNCHANGED <<resv, granted>>
  BY DEF Prune, history
<1>4. /\ \A i \in B : Life(i) = "finished" /\ Life(i)' = "absent"
      /\ \A i \in OpIds \ B : Life(i)' = Life(i)
  BY <1>1, <1>2 DEF Life
<1>5. life' = [i \in OpIds |-> IF i \in B THEN "absent" ELSE life[i]]
  BY <1>2, <1>4, Lives
<1>6. L!Forget(B)
  BY <1>2, <1>3, <1>4, <1>5, Lives DEF L!Forget
<1> QED BY <1>2, <1>6 DEF L!Next

(* A recovery batch ends the operations it interrupts.                     *)
LEMMA RecoverBatchEnds ==
  ASSUME IndInv, NEW e \in Epochs, NEW a \in BOOLEAN, RecoverBatch(e, a)
  PROVE  L!Next
<1>1. TypeTables /\ now \in Int
  BY BoundAssumption, SMTT(30) DEF IndInv, TypeOK, TypeTables, Times
<1>2. PICK B \in SUBSET Interruptible(e) : Interrupt(e, B)
  BY DEF RecoverBatch
<1>3. /\ B \in SUBSET OpIds /\ \A i \in B : Unfinished(i)
      /\ resv' = [d \in Devices |-> IF resv[d] \in B THEN None ELSE resv[d]]
      /\ UNCHANGED granted
  BY <1>2 DEF Interruptible, Interrupt, Finish, RecoverBatch
<1>4. ASSUME NEW i \in B PROVE ops'[i] # None /\ ops'[i].finished # None
  <2>1. ops[i] \in Operation /\ ops'[i] = Moved(ops[i], "uncertain", now)
    BY <1>1, <1>2, <1>3 DEF Interrupt, TypeTables, Unfinished
  <2>2. "uncertain" \in Terminal /\ "uncertain" \in States
    BY DEF Terminal, States
  <2> QED BY <1>1, <2>1, <2>2, MovedRow, Rows, NoneAssumption, SMTT(30)
<1>5. \A i \in OpIds \ B : Life(i)' = Life(i)
  BY <1>2 DEF Interrupt, Life
<1> QED BY <1>1, <1>3, <1>4, <1>5, FinishEnds
-----------------------------------------------------------------------------
(* Whatever admissions, lost acknowledgements, handoffs, crashes and       *)
(* recoveries do, the rest of the service sees a ledger: one open holder   *)
(* per device, one start per operation, and ends that are final.           *)
THEOREM JournalIsLedger == Spec => LedgerImplemented
<1>1. Init => L!Init
  BY DEF Init, L!Init, life, Life
<1>2. IndInv /\ [Next]_vars => [L!Next]_(L!vars)
  <2> SUFFICES ASSUME IndInv, [Next]_vars PROVE L!Next \/ UNCHANGED L!vars
    OBVIOUS
  <2>1. CASE UNCHANGED vars
    BY <2>1, InvisibleStep DEF vars
  <2>2. CASE \E e \in Epochs : Open(e) \/ Crash(e) \/ RecoverAborts(e)
    BY <2>2, InvisibleStep DEF Open, Crash, RecoverAborts, db, history
  <2>3. CASE ServerAborts \/ Tick \/ \E c \in Calls : AdmitUnresolved(c)
    BY <2>3, InvisibleStep DEF ServerAborts, Tick, AdmitUnresolved, db, history
  <2>4. CASE \E e \in Epochs, k \in Keys, h \in Hashes, c \in Calls : AdmitCommitLost(c, e, k, h)
    BY <2>4, InvisibleStep DEF AdmitCommitLost, db
  <2>5. CASE \E e \in Epochs, a \in BOOLEAN : RecoverBatch(e, a)
    BY <2>5, RecoverBatchEnds
  <2>6. CASE \E e \in Epochs, limit \in 1 .. MaxBatch : Prune(e, limit)
    BY <2>6, PruneForgets
  <2>7. CASE \E e \in Epochs, i \in OpIds : SelectAlbum(e, i)
    BY <2>7, SelectAlbumInvisible
  <2>8. CASE \E e \in Epochs, i \in OpIds, s \in Updates : Transition(e, i, s)
    BY <2>8, TransitionEnds
  <2>9. CASE \E e \in Epochs, k \in Keys, h \in Hashes : Admit(e, k, h)
    BY <2>9, AdmitOpens
  <2>10. CASE ServerCommits
    BY <2>10, ServerCommitsOpens
  <2>11. CASE \E c \in Calls : AdmitResolve(c)
    BY <2>11, AdmitResolveStarts
  <2> QED BY <2>1, <2>2, <2>3, <2>4, <2>5, <2>6, <2>7, <2>8, <2>9, <2>10, <2>11 DEF Next
<1> QED BY <1>1, <1>2, Inductive, PTL DEF Spec, LedgerImplemented, L!Spec
=============================================================================
