--------------------------- MODULE PublicationProofs ---------------------------
(***************************************************************************)
(* Theorems about Publication, for every number of processes, workers,     *)
(* rows, runs, faults and crashes.                                         *)
(***************************************************************************)
EXTENDS Publication, TLAPS

-----------------------------------------------------------------------------
(* Types.                                                                  *)

(* A publisher returns to its loop with fewer rows to publish.             *)
LEMMA ReturnTypes ==
  ASSUME TypeOK, NEW a \in Publishers, NEW r \in Rows, Published(a, r) \/ Raised(a, r)
  PROVE  /\ todo' \in [Publishers -> SUBSET Rows]
         /\ pc' \in [Publishers -> PublisherState]
         /\ failed' \in [Workers -> BOOLEAN]
<1>1. pc' \in [Publishers -> PublisherState]
  BY DEF TypeOK, Published, Raised, Goto, PublisherState
<1>2. todo' \in [Publishers -> SUBSET Rows]
  BY DEF TypeOK, Published, Raised
<1>3. failed' \in [Workers -> BOOLEAN]
  BY DEF TypeOK, Published, Raised
<1> QED
  BY <1>1, <1>2, <1>3

(* What a worker enqueues is well typed.                                   *)
LEMMA EnqueueTypes ==
  ASSUME TypeOK, NEW w \in Workers, NEW k \in Nat, NEW given,
         Enqueue(w, k, given), \A r \in NewRows(k) : given[r] \in Entry
  PROVE  /\ NewRows(k) \subseteq Rows
         /\ rows' \in 0..MaxRows
         /\ entry' \in [Rows -> Entry]
         /\ state' \in [Rows -> RowState]
         /\ todo' \in [Publishers -> SUBSET Rows]
<1>1. NewRows(k) \subseteq Rows
  BY BoundAssumption DEF TypeOK, Enqueue, NewRows, Rows
<1>2. rows' \in 0..MaxRows
  BY BoundAssumption DEF TypeOK, Enqueue
<1>3. entry' \in [Rows -> Entry]
  BY DEF TypeOK, Enqueue
<1>4. state' \in [Rows -> RowState]
  BY DEF TypeOK, Enqueue, RowState
<1>5. todo' \in [Publishers -> SUBSET Rows]
  BY <1>1 DEF TypeOK, Enqueue, Publishers
<1> QED
  BY <1>1, <1>2, <1>3, <1>4, <1>5

LEMMA TypeInit == Init => TypeOK
<1> SUFFICES ASSUME Init PROVE TypeOK
  OBVIOUS
<1>1. NoEntry \in Entry
  BY BoundAssumption DEF NoEntry, Entry
<1> QED
  BY <1>1, BoundAssumption DEF Init, TypeOK, RowState, PublisherState

LEMMA TypeStep == TypeOK /\ [Next]_vars => TypeOK'
<1> SUFFICES ASSUME TypeOK, [Next]_vars PROVE TypeOK'
  OBVIOUS
<1> USE DEF tableVars, fileVars, workerVars
<1>1. ASSUME NEW p \in Processes, Start(p) \/ ListFault(p) \/ Serve(p)
      PROVE  TypeOK'
  BY <1>1, BoundAssumption DEF TypeOK, Start, ListFault, Serve
<1>2. ASSUME NEW p \in Processes, ListPending(p) PROVE TypeOK'
  <2>1. Listed \subseteq Rows
    BY DEF Listed
  <2>2. todo' \in [Publishers -> SUBSET Rows]
    BY <1>2, <2>1 DEF TypeOK, ListPending, Publishers
  <2>3. mode' \in [Processes -> {"down", "starting", "repairing", "serving"}]
    BY <1>2 DEF TypeOK, ListPending
  <2> QED
    BY <1>2, <2>2, <2>3 DEF TypeOK, ListPending
<1>3. ASSUME NEW p \in Processes, Crash(p) PROVE TypeOK'
  <2>1. todo' \in [Publishers -> SUBSET Rows] /\ pc' \in [Publishers -> PublisherState]
    BY <1>3 DEF TypeOK, Crash, PublisherState
  <2>2. run' \in [Workers -> 0..MaxRuns]
    BY <1>3, BoundAssumption DEF TypeOK, Crash
  <2>3. failed' \in [Workers -> BOOLEAN]
    BY <1>3, Zenon DEF TypeOK, Crash
  <2>4. crashes' \in 0..MaxCrashes
        /\ mode' \in [Processes -> {"down", "starting", "repairing", "serving"}]
    BY <1>3, BoundAssumption DEF TypeOK, Crash
  <2> QED
    BY <1>3, <2>1, <2>2, <2>3, <2>4 DEF TypeOK, Crash
<1>4. ASSUME NEW w \in Workers, TakeRun(w) PROVE TypeOK'
  <2>1. runs' \in Runs
    BY <1>4, BoundAssumption DEF TypeOK, TakeRun, Runs
  <2>2. status' \in [Runs -> {"absent", "running", "succeeded", "failed"}]
    BY <1>4 DEF TypeOK, TakeRun
  <2>3. run' \in [Workers -> 0..MaxRuns] /\ runs' \in 0..MaxRuns
    BY <1>4, <2>1, BoundAssumption DEF TypeOK, TakeRun, Runs
  <2> QED
    BY <1>4, <2>2, <2>3 DEF TypeOK, TakeRun
<1>5. ASSUME NEW w \in Workers, PersistStep(w) PROVE TypeOK'
  <2>1. PICK k \in 1..MaxOutputs, oneDescriptor \in BOOLEAN :
          /\ Enqueue(w, k, [r \in NewRows(k) |->
                             [kind |-> "artifact", run |-> run[w],
                              source |-> IF oneDescriptor THEN rows + k ELSE r]])
          /\ staging' = staging \cup NewRows(k)
    BY <1>5 DEF PersistStep
  <2>2. rows + k \in 0..MaxRows /\ k \in Nat
    BY <2>1, BoundAssumption DEF Enqueue, TypeOK
  <2>3. ASSUME NEW r \in NewRows(k)
        PROVE  [kind |-> "artifact", run |-> run[w],
                source |-> IF oneDescriptor THEN rows + k ELSE r] \in Entry
    BY <2>2, BoundAssumption DEF Entry, TypeOK, NewRows
  <2>4. /\ NewRows(k) \subseteq Rows
        /\ rows' \in 0..MaxRows
        /\ entry' \in [Rows -> Entry]
        /\ state' \in [Rows -> RowState]
        /\ todo' \in [Publishers -> SUBSET Rows]
    BY <2>1, <2>2, <2>3, EnqueueTypes
  <2>5. staging' \subseteq Rows
    BY <2>1, <2>4 DEF TypeOK
  <2> QED
    BY <1>5, <2>4, <2>5 DEF TypeOK, PersistStep
<1>6. ASSUME NEW w \in Workers, EndRun(w) PROVE TypeOK'
  <2>1. Enqueue(w, 1, [r \in NewRows(1) |->
                        [kind |-> "manifest", run |-> run[w], source |-> 0]])
    BY <1>6 DEF EndRun
  <2>2. [kind |-> "manifest", run |-> run[w], source |-> 0] \in Entry
    BY BoundAssumption DEF Entry, TypeOK
  <2>3. /\ rows' \in 0..MaxRows
        /\ entry' \in [Rows -> Entry]
        /\ state' \in [Rows -> RowState]
        /\ todo' \in [Publishers -> SUBSET Rows]
    BY <2>1, <2>2, EnqueueTypes
  <2>4. status' \in [Runs -> {"absent", "running", "succeeded", "failed"}]
    BY <1>6 DEF TypeOK, EndRun
  <2> QED
    BY <1>6, <2>3, <2>4 DEF TypeOK, EndRun
<1>7. ASSUME NEW w \in Workers, LeaveRun(w) PROVE TypeOK'
  BY <1>7, BoundAssumption DEF TypeOK, LeaveRun
<1>8. ASSUME NEW a \in Publishers, NEW r \in Rows,
             LookForObject(a, r) \/ FileFault(a, r) \/ WriteManifest(a, r)
      PROVE  TypeOK'
  <2>1. pc' \in [Publishers -> PublisherState]
    BY <1>8 DEF TypeOK, LookForObject, OnDuplicate, FileFault, WriteManifest, Goto,
                PublisherState
  <2> QED
    BY <1>8, <2>1, BoundAssumption DEF TypeOK, LookForObject, FileFault, WriteManifest
<1>9. ASSUME NEW a \in Publishers, NEW r \in Rows, MoveFile(a, r) \/ DropFile(a, r)
      PROVE  TypeOK'
  <2>1. pc' \in [Publishers -> PublisherState]
    BY <1>9 DEF TypeOK, MoveFile, DropFile, Goto, PublisherState
  <2>2. staging' \subseteq Rows
    BY <1>9 DEF TypeOK, MoveFile, DropFile
  <2>3. objects' \subseteq Hashes
    <3>1. CASE objects' = objects
      BY <3>1 DEF TypeOK
    <3>2. CASE entry[r].source \in staging /\ objects' = objects \cup {content[entry[r].source]}
      BY <3>2 DEF TypeOK
    <3> QED
      BY <1>9, <3>1, <3>2 DEF MoveFile, DropFile
  <2> QED
    BY <1>9, <2>1, <2>2, <2>3 DEF TypeOK, MoveFile, DropFile
<1>10. ASSUME NEW a \in Publishers, NEW r \in Rows,
              MarkPublished(a, r) \/ MarkFailed(a, r) \/ MarkFault(a, r)
       PROVE  TypeOK'
  <2>1. /\ todo' \in [Publishers -> SUBSET Rows]
        /\ pc' \in [Publishers -> PublisherState]
        /\ failed' \in [Workers -> BOOLEAN]
    BY <1>10, ReturnTypes DEF MarkPublished, MarkFailed, MarkFault
  <2>2. state' \in [Rows -> RowState]
    BY <1>10 DEF TypeOK, RowState, MarkPublished, MarkFailed, MarkFault
  <2>3. faults' \in 0..MaxFaults
    BY <1>10, BoundAssumption DEF TypeOK, MarkPublished, MarkFailed, MarkFault
  <2> QED
    BY <1>10, <2>1, <2>2, <2>3 DEF TypeOK, MarkPublished, MarkFailed, MarkFault
<1>11. CASE UNCHANGED vars
  BY <1>11 DEF TypeOK, vars
<1> QED
  BY <1>1, <1>2, <1>3, <1>4, <1>5, <1>6, <1>7, <1>8, <1>9, <1>10, <1>11 DEF Next, Publish

(* Every variable keeps its type: rows and runs are numbered without gaps, *)
(* publishers work on rows that exist, and rows have the three states of   *)
(* publication_repo.                                                       *)
THEOREM TypeCorrect == Spec => []TypeOK
<1> QED
  BY TypeInit, TypeStep, PTL DEF Spec

-----------------------------------------------------------------------------
(* The table and the files only grow.                                      *)

(* The first rows rows of the table are in use, and name a file that was   *)
(* staged for a row in use; publishers work on rows in use.                *)
TableOK ==
  /\ \A r \in Rows : r <= rows <=> state[r] # "absent"
  /\ \A r \in 1..rows :
       /\ entry[r].kind \in {"artifact", "manifest"}
       /\ entry[r].run \in 1..runs
       /\ IsArtifact(r) => entry[r].source \in 1..rows
  /\ \A a \in Publishers : todo[a] \subseteq 1..rows
  /\ \A w \in Workers : run[w] <= runs

(* Rows and objects stay what they are.                                    *)
Grows ==
  /\ rows <= rows' /\ runs <= runs'
  /\ \A r \in 1..rows : entry'[r] = entry[r]
  /\ content' = content
  /\ objects \subseteq objects' /\ manifests \subseteq manifests'

(* What a worker enqueues is behind the rows that were there.              *)
LEMMA EnqueueGrows ==
  ASSUME TypeOK, NEW w \in Workers, NEW k \in Nat, NEW given, Enqueue(w, k, given)
  PROVE  /\ rows' = rows + k
         /\ \A r \in 1..rows : r \in Rows /\ r \notin NewRows(k) /\ entry'[r] = entry[r]
         /\ \A r \in NewRows(k) : r \in Rows /\ entry'[r] = given[r]
         /\ \A r \in Rows : state'[r] = IF r \in NewRows(k) THEN "pending" ELSE state[r]
         /\ \A a \in Publishers : todo'[a] = IF a = w THEN NewRows(k) ELSE todo[a]
         /\ 1..rows' = (1..rows) \cup NewRows(k)
<1>1. rows \in Nat /\ MaxRows \in Nat
  BY BoundAssumption DEF TypeOK
<1>2. \A r \in 1..rows : r \in Rows /\ r \notin NewRows(k) /\ entry'[r] = entry[r]
  BY <1>1 DEF Enqueue, NewRows, Rows
<1>3. \A r \in NewRows(k) : r \in Rows /\ entry'[r] = given[r]
  BY <1>1 DEF Enqueue, NewRows, Rows
<1>4. \A a \in Publishers : todo'[a] = IF a = w THEN NewRows(k) ELSE todo[a]
  BY DEF TypeOK, Enqueue
<1>5. 1..rows' = (1..rows) \cup NewRows(k)
  BY <1>1 DEF Enqueue, NewRows
<1> QED
  BY <1>2, <1>3, <1>4, <1>5 DEF Enqueue

LEMMA GrowsStep == TypeOK /\ [Next]_vars => Grows
<1> SUFFICES ASSUME TypeOK, [Next]_vars PROVE Grows
  OBVIOUS
<1>0. rows \in Nat /\ runs \in Nat
  BY BoundAssumption DEF TypeOK
<1> USE DEF tableVars, fileVars, workerVars
<1>1. ASSUME NEW w \in Workers, PersistStep(w) PROVE Grows
  <2>1. PICK k \in 1..MaxOutputs : \E given : Enqueue(w, k, given)
    BY <1>1 DEF PersistStep
  <2> QED
    BY <1>0, <1>1, <2>1, BoundAssumption, EnqueueGrows DEF PersistStep, Grows
<1>2. ASSUME NEW w \in Workers, EndRun(w) PROVE Grows
  <2>1. PICK given : Enqueue(w, 1, given)
    BY <1>2 DEF EndRun
  <2> QED
    BY <1>0, <1>2, <2>1, EnqueueGrows DEF EndRun, Grows
<1>3. ASSUME NEW w \in Workers, TakeRun(w) \/ LeaveRun(w) PROVE Grows
  BY <1>0, <1>3 DEF TakeRun, LeaveRun, Grows
<1>4. ASSUME NEW p \in Processes,
             \/ Start(p) \/ ListPending(p) \/ ListFault(p) \/ Serve(p) \/ Crash(p)
      PROVE  Grows
  BY <1>0, <1>4 DEF Start, ListPending, ListFault, Serve, Crash, Grows
<1>5. ASSUME NEW a \in Publishers, NEW r \in Rows,
             \/ LookForObject(a, r) \/ MoveFile(a, r) \/ DropFile(a, r)
             \/ WriteManifest(a, r) \/ FileFault(a, r)
      PROVE  Grows
  BY <1>0, <1>5 DEF LookForObject, MoveFile, DropFile, WriteManifest, FileFault, Grows
<1>6. ASSUME NEW a \in Publishers, NEW r \in Rows,
             MarkPublished(a, r) \/ MarkFailed(a, r) \/ MarkFault(a, r)
      PROVE  Grows
  BY <1>0, <1>6 DEF MarkPublished, MarkFailed, MarkFault, Grows
<1>7. CASE UNCHANGED vars
  BY <1>0, <1>7 DEF vars, Grows
<1> QED
  BY <1>1, <1>2, <1>3, <1>4, <1>5, <1>6, <1>7 DEF Next, Publish

(* Publishing moves no row but the one at hand, and keeps the others' list. *)
LEMMA PublishStep ==
  ASSUME TypeOK, NEW a \in Publishers, Publish(a)
  PROVE  /\ UNCHANGED <<rows, entry, runs, status, run>>
         /\ \A b \in Publishers : todo'[b] \subseteq todo[b]
         /\ \A b \in Publishers \ {a} : todo'[b] = todo[b] /\ pc'[b] = pc[b]
         /\ \A r \in Rows : state'[r] # state[r] =>
              /\ IsNext(a, r)
              /\ \/ state'[r] = "published" /\ pc[a] = "markPublished"
                 \/ state'[r] = "failed" /\ pc[a] = "markFailed"
<1> USE DEF tableVars, fileVars, workerVars, Goto
<1>1. PICK r \in Rows :
        \/ LookForObject(a, r) \/ MoveFile(a, r) \/ DropFile(a, r)
        \/ WriteManifest(a, r) \/ FileFault(a, r)
        \/ MarkPublished(a, r) \/ MarkFailed(a, r) \/ MarkFault(a, r)
  BY DEF Publish
<1>2. CASE \/ LookForObject(a, r) \/ MoveFile(a, r) \/ DropFile(a, r)
           \/ WriteManifest(a, r) \/ FileFault(a, r)
  BY <1>2 DEF TypeOK, LookForObject, MoveFile, DropFile, WriteManifest, FileFault
<1>3. CASE MarkPublished(a, r)
  BY <1>3 DEF TypeOK, MarkPublished, Published
<1>4. CASE MarkFailed(a, r)
  BY <1>4 DEF TypeOK, MarkFailed, Raised
<1>5. CASE MarkFault(a, r)
  BY <1>5 DEF TypeOK, MarkFault, Raised
<1> QED
  BY <1>1, <1>2, <1>3, <1>4, <1>5

LEMMA TableInit == Init => TableOK
BY BoundAssumption DEF Init, TableOK, Rows, Publishers

LEMMA TableStep == TypeOK /\ TypeOK' /\ TableOK /\ [Next]_vars => TableOK'
<1> SUFFICES ASSUME TypeOK, TypeOK', TableOK, [Next]_vars PROVE TableOK'
  OBVIOUS
<1>0. rows \in Nat /\ runs \in Nat
  BY BoundAssumption DEF TypeOK
<1> USE DEF tableVars, fileVars, workerVars
<1>1. ASSUME NEW w \in Workers, NEW k \in Nat, NEW given, Enqueue(w, k, given),
             \A r \in NewRows(k) :
               /\ given[r].kind \in {"artifact", "manifest"}
               /\ given[r].run \in 1..runs
               /\ given[r].kind = "artifact" => given[r].source \in 1..rows + k,
             UNCHANGED <<runs, run>>
      PROVE  TableOK'
  <2>1. /\ rows' = rows + k
        /\ \A r \in 1..rows : r \in Rows /\ r \notin NewRows(k) /\ entry'[r] = entry[r]
        /\ \A r \in NewRows(k) : r \in Rows /\ entry'[r] = given[r]
        /\ \A r \in Rows : state'[r] = IF r \in NewRows(k) THEN "pending" ELSE state[r]
        /\ \A a \in Publishers : todo'[a] = IF a = w THEN NewRows(k) ELSE todo[a]
        /\ 1..rows' = (1..rows) \cup NewRows(k)
    BY <1>1, EnqueueGrows
  <2>2. \A r \in Rows : r <= rows' <=> state'[r] # "absent"
    BY <1>0, <2>1, BoundAssumption DEF TableOK, Rows, NewRows
  <2>3. \A r \in 1..rows' :
          /\ entry'[r].kind \in {"artifact", "manifest"}
          /\ entry'[r].run \in 1..runs'
          /\ entry'[r].kind = "artifact" => entry'[r].source \in 1..rows'
    BY <1>0, <1>1, <2>1 DEF TableOK, IsArtifact
  <2>4. \A a \in Publishers : todo'[a] \subseteq 1..rows'
    BY <1>0, <2>1 DEF TableOK
  <2> QED
    BY <1>1, <2>2, <2>3, <2>4 DEF TableOK, IsArtifact
<1>2. ASSUME NEW w \in Workers, PersistStep(w) PROVE TableOK'
  <2>1. PICK k \in 1..MaxOutputs, oneDescriptor \in BOOLEAN :
          Enqueue(w, k, [r \in NewRows(k) |->
                          [kind |-> "artifact", run |-> run[w],
                           source |-> IF oneDescriptor THEN rows + k ELSE r]])
    BY <1>2 DEF PersistStep
  <2>2. k \in Nat /\ run[w] \in 1..runs
    BY <1>0, <1>2, BoundAssumption DEF PersistStep, TypeOK, TableOK
  <2>3. \A r \in NewRows(k) : (IF oneDescriptor THEN rows + k ELSE r) \in 1..rows + k
    BY <1>0, <2>2 DEF NewRows
  <2> QED
    BY <1>1, <1>2, <2>1, <2>2, <2>3 DEF PersistStep
<1>3. ASSUME NEW w \in Workers, EndRun(w) PROVE TableOK'
  <2>1. Enqueue(w, 1, [r \in NewRows(1) |->
                        [kind |-> "manifest", run |-> run[w], source |-> 0]])
    BY <1>3 DEF EndRun
  <2>2. run[w] \in 1..runs
    BY <1>0, <1>3, BoundAssumption DEF EndRun, TypeOK, TableOK
  <2> QED
    BY <1>1, <1>3, <2>1, <2>2 DEF EndRun
<1>4. ASSUME NEW w \in Workers, TakeRun(w) \/ LeaveRun(w) PROVE TableOK'
  BY <1>0, <1>4 DEF TakeRun, LeaveRun, TableOK, TypeOK, IsArtifact
<1>5. ASSUME NEW p \in Processes, Start(p) \/ ListFault(p) \/ Serve(p) PROVE TableOK'
  BY <1>5 DEF Start, ListFault, Serve, TableOK, IsArtifact
<1>6. ASSUME NEW p \in Processes, ListPending(p) PROVE TableOK'
  <2>1. Listed \subseteq 1..rows
    BY <1>0 DEF Listed, Unfinished, TableOK, Rows
  <2> QED
    BY <1>6, <2>1 DEF ListPending, TableOK, TypeOK, IsArtifact
<1>7. ASSUME NEW p \in Processes, Crash(p) PROVE TableOK'
  <2>1. \A a \in Publishers : todo'[a] \subseteq 1..rows
    BY <1>7 DEF Crash, TableOK
  <2>2. \A w \in Workers : run'[w] <= runs
    BY <1>0, <1>7 DEF Crash, TableOK
  <2> QED
    BY <1>7, <2>1, <2>2 DEF Crash, TableOK, IsArtifact
<1>8. ASSUME NEW a \in Publishers, Publish(a) PROVE TableOK'
  <2>1. \A r \in Rows : state'[r] = "absent" <=> state[r] = "absent"
    <3> SUFFICES ASSUME NEW r \in Rows, state'[r] # state[r]
                 PROVE  state'[r] # "absent" /\ state[r] # "absent"
      OBVIOUS
    <3>1. r \in todo[a] /\ state'[r] # "absent"
      BY <1>8, PublishStep DEF IsNext
    <3> QED
      BY <1>0, <3>1 DEF TableOK
  <2> QED
    BY <1>8, <2>1, PublishStep DEF TableOK, IsArtifact
<1>9. CASE UNCHANGED vars
  BY <1>9 DEF vars, TableOK, IsArtifact
<1> QED
  BY <1>2, <1>3, <1>4, <1>5, <1>6, <1>7, <1>8, <1>9 DEF Next

-----------------------------------------------------------------------------
(* Files.                                                                  *)

(* What a publisher knows of the row at hand from its last step.           *)
PlaceOK ==
  /\ \A p \in Processes : mode[p] \in {"down", "starting"} => Idle(p)
  /\ \A a \in Publishers, r \in Rows :
       IsNext(a, r) =>
         /\ pc[a] \in {"move", "drop"} => IsArtifact(r)
         /\ pc[a] = "drop" => ObjectExists(r)
         /\ pc[a] = "markPublished" => OnDisk(r)

FilesOK == NothingLost /\ PlaceOK /\ PublishedIsOnDisk

(* A file that is in place stays in place.                                 *)
LEMMA OnDiskStays ==
  ASSUME TypeOK, TableOK, Grows, NEW r \in 1..rows
  PROVE  /\ IsArtifact(r)' <=> IsArtifact(r)
         /\ ObjectExists(r) => ObjectExists(r)'
         /\ OnDisk(r) => OnDisk(r)'
BY DEF Grows, IsArtifact, ObjectExists, OnDisk

LEMMA FilesInit == Init => FilesOK
<1> SUFFICES ASSUME Init PROVE FilesOK
  OBVIOUS
<1>1. NothingLost
  BY DEF Init, NothingLost
<1>2. PlaceOK
  BY DEF Init, PlaceOK, IsNext, Publishers, Idle
<1>3. PublishedIsOnDisk
  BY DEF Init, PublishedIsOnDisk
<1> QED
  BY <1>1, <1>2, <1>3 DEF FilesOK

LEMMA NothingLostStep ==
  TypeOK /\ TableOK /\ FilesOK /\ [Next]_vars => NothingLost'
<1> SUFFICES ASSUME TypeOK, TableOK, FilesOK, [Next]_vars PROVE NothingLost'
  OBVIOUS
<1>0. rows \in Nat /\ Grows
  BY GrowsStep, BoundAssumption DEF TypeOK
<1> USE DEF tableVars, fileVars, workerVars
<1>1. CASE rows' = rows /\ staging' = staging
  BY <1>0, <1>1, OnDiskStays DEF FilesOK, NothingLost, Grows
<1>2. ASSUME NEW w \in Workers, PersistStep(w) PROVE NothingLost'
  <2>1. PICK k \in 1..MaxOutputs, oneDescriptor \in BOOLEAN :
          /\ Enqueue(w, k, [r \in NewRows(k) |->
                             [kind |-> "artifact", run |-> run[w],
                              source |-> IF oneDescriptor THEN rows + k ELSE r]])
          /\ staging' = staging \cup NewRows(k)
    BY <1>2 DEF PersistStep
  <2>2. k \in Nat \ {0}
    BY BoundAssumption
  <2>3. ASSUME NEW r \in NewRows(k) PROVE entry'[r].source \in staging'
    <3>1. entry'[r].source = IF oneDescriptor THEN rows + k ELSE r
      BY <2>1, <2>2, EnqueueGrows
    <3>2. rows + k \in NewRows(k)
      BY <1>0, <2>2 DEF NewRows
    <3> QED
      BY <2>1, <3>1, <3>2
  <2>4. ASSUME NEW r \in 1..rows, IsArtifact(r)'
        PROVE  ObjectExists(r)' \/ entry'[r].source \in staging'
    BY <1>0, <2>1, <2>4, OnDiskStays DEF FilesOK, NothingLost, Grows
  <2>5. 1..rows' = (1..rows) \cup NewRows(k)
    BY <2>1, <2>2, EnqueueGrows
  <2> QED
    BY <2>3, <2>4, <2>5 DEF NothingLost
<1>3. ASSUME NEW w \in Workers, EndRun(w) PROVE NothingLost'
  <2>1. Enqueue(w, 1, [r \in NewRows(1) |->
                        [kind |-> "manifest", run |-> run[w], source |-> 0]])
    BY <1>3 DEF EndRun
  <2>2. \A r \in NewRows(1) : ~IsArtifact(r)'
    BY <2>1, EnqueueGrows DEF IsArtifact
  <2>3. 1..rows' = (1..rows) \cup NewRows(1) /\ staging' = staging
    BY <1>3, <2>1, EnqueueGrows DEF EndRun
  <2> QED
    BY <1>0, <2>2, <2>3, OnDiskStays DEF FilesOK, NothingLost, Grows
<1>4. ASSUME NEW a \in Publishers, NEW r \in Rows, MoveFile(a, r) \/ DropFile(a, r)
      PROVE  NothingLost'
  <2>1. rows' = rows /\ entry' = entry /\ content' = content
    BY <1>4 DEF MoveFile, DropFile
  <2>2. staging' = staging \/ (staging' = staging \ {entry[r].source}
                                /\ content[entry[r].source] \in objects')
    BY <1>4 DEF MoveFile, DropFile, FilesOK, PlaceOK, ObjectExists
  <2> QED
    BY <1>0, <2>1, <2>2 DEF FilesOK, NothingLost, IsArtifact, ObjectExists, Grows
<1>5. ASSUME NEW w \in Workers, TakeRun(w) \/ LeaveRun(w) PROVE NothingLost'
  BY <1>1, <1>5 DEF TakeRun, LeaveRun
<1>6. ASSUME NEW p \in Processes,
             \/ Start(p) \/ ListPending(p) \/ ListFault(p) \/ Serve(p) \/ Crash(p)
      PROVE  NothingLost'
  BY <1>1, <1>6 DEF Start, ListPending, ListFault, Serve, Crash
<1>7. ASSUME NEW a \in Publishers, NEW r \in Rows,
             \/ LookForObject(a, r) \/ WriteManifest(a, r) \/ FileFault(a, r)
             \/ MarkPublished(a, r) \/ MarkFailed(a, r) \/ MarkFault(a, r)
      PROVE  NothingLost'
  BY <1>1, <1>7 DEF LookForObject, WriteManifest, FileFault, MarkPublished, MarkFailed, MarkFault
<1>8. CASE UNCHANGED vars
  BY <1>1, <1>8 DEF vars
<1> QED
  BY <1>2, <1>3, <1>4, <1>5, <1>6, <1>7, <1>8 DEF Next, Publish

LEMMA PublishedIsOnDiskStep ==
  TypeOK /\ TableOK /\ FilesOK /\ [Next]_vars => PublishedIsOnDisk'
<1> SUFFICES ASSUME TypeOK, TableOK, FilesOK, [Next]_vars,
                    NEW r \in Rows, state'[r] = "published"
             PROVE  OnDisk(r)'
  BY DEF PublishedIsOnDisk
<1>0. rows \in Nat /\ Grows
  BY GrowsStep, BoundAssumption DEF TypeOK
<1> USE DEF tableVars, fileVars, workerVars
<1>1. CASE state[r] = "published"
  <2>1. r \in 1..rows
    BY <1>0, <1>1 DEF TableOK, Rows
  <2> QED
    BY <1>0, <1>1, <2>1, OnDiskStays DEF FilesOK, PublishedIsOnDisk
<1>2. CASE state[r] # "published"
  <2>1. ASSUME NEW w \in Workers, PersistStep(w) \/ EndRun(w) PROVE FALSE
    BY <1>2, <2>1 DEF PersistStep, EndRun, Enqueue, TypeOK
  <2>2. ASSUME NEW w \in Workers, TakeRun(w) \/ LeaveRun(w) PROVE FALSE
    BY <1>2, <2>2 DEF TakeRun, LeaveRun
  <2>3. ASSUME NEW p \in Processes,
               \/ Start(p) \/ ListPending(p) \/ ListFault(p) \/ Serve(p) \/ Crash(p)
        PROVE  FALSE
    BY <1>2, <2>3 DEF Start, ListPending, ListFault, Serve, Crash
  <2>4. PICK a \in Publishers : Publish(a)
    BY <1>2, <2>1, <2>2, <2>3 DEF Next, vars
  <2>5. IsNext(a, r) /\ pc[a] = "markPublished"
    BY <1>2, <2>4, PublishStep
  <2>6. OnDisk(r) /\ r \in 1..rows
    BY <2>5 DEF FilesOK, PlaceOK, TableOK, IsNext
  <2> QED
    BY <1>0, <2>6, OnDiskStays
<1> QED
  BY <1>1, <1>2

(* A publisher that did not move, or is back in its loop, is in its place. *)
LEMMA PlaceKept ==
  ASSUME TypeOK, TableOK, PlaceOK, Grows, NEW a \in Publishers, NEW r \in Rows,
         IsNext(a, r)',
         pc'[a] = "next" \/ (pc'[a] = pc[a] /\ todo'[a] = todo[a])
  PROVE  /\ pc'[a] \in {"move", "drop"} => IsArtifact(r)'
         /\ pc'[a] = "drop" => ObjectExists(r)'
         /\ pc'[a] = "markPublished" => OnDisk(r)'
<1>1. CASE pc'[a] = pc[a] /\ todo'[a] = todo[a]
  <2>1. IsNext(a, r) /\ r \in 1..rows
    BY <1>1 DEF IsNext, TableOK
  <2> QED
    BY <1>1, <2>1, OnDiskStays DEF PlaceOK
<1> QED
  BY <1>1

LEMMA PlaceStep ==
  TypeOK /\ TableOK /\ FilesOK /\ [Next]_vars => PlaceOK'
<1> SUFFICES ASSUME TypeOK, TableOK, PlaceOK, [Next]_vars PROVE PlaceOK'
  BY DEF FilesOK
<1>0. rows \in Nat /\ Grows
  BY GrowsStep, BoundAssumption DEF TypeOK
<1> DEFINE Kept(a) == pc'[a] = "next" \/ (pc'[a] = pc[a] /\ todo'[a] = todo[a])
           Placed(a) == \A r \in Rows : IsNext(a, r)' =>
                          /\ pc'[a] \in {"move", "drop"} => IsArtifact(r)'
                          /\ pc'[a] = "drop" => ObjectExists(r)'
                          /\ pc'[a] = "markPublished" => OnDisk(r)'
           StartsIdle(p) == mode'[p] \in {"down", "starting"} => todo'[p] = {} /\ pc'[p] = "next"
<1> USE DEF tableVars, fileVars, workerVars
<1>1. \A a \in Publishers : Kept(a) => Placed(a)
  BY <1>0, PlaceKept
<1>2. SUFFICES /\ \A a \in Publishers : Placed(a)
               /\ \A p \in Processes : StartsIdle(p)
  BY DEF PlaceOK, Idle
<1> HIDE DEF Kept, Placed, StartsIdle
<1>3. ASSUME NEW w \in Workers, PersistStep(w) \/ EndRun(w)
      PROVE  (\A a \in Publishers : Placed(a)) /\ (\A p \in Processes : StartsIdle(p))
  <2>1. /\ UNCHANGED <<pc, mode>> /\ pc[w] = "next"
        /\ \A a \in Publishers \ {w} : todo'[a] = todo[a]
    BY <1>3 DEF PersistStep, EndRun, Enqueue, TypeOK, Idle
  <2>2. \A a \in Publishers : Kept(a)
    BY <2>1 DEF Kept
  <2>3. \A p \in Processes : StartsIdle(p)
    BY <2>1, PublisherAssumption DEF StartsIdle, PlaceOK, Idle, Publishers
  <2> QED
    BY <1>1, <2>2, <2>3
<1>4. ASSUME NEW w \in Workers, TakeRun(w) \/ LeaveRun(w)
      PROVE  (\A a \in Publishers : Placed(a)) /\ (\A p \in Processes : StartsIdle(p))
  BY <1>1, <1>4 DEF TakeRun, LeaveRun, Kept, StartsIdle, PlaceOK, Idle
<1>5. ASSUME NEW p \in Processes, Start(p) \/ ListPending(p) \/ ListFault(p) \/ Serve(p)
      PROVE  (\A a \in Publishers : Placed(a)) /\ (\A q \in Processes : StartsIdle(q))
  <2>1. \A a \in Publishers : Kept(a)
    BY <1>5 DEF Start, ListPending, ListFault, Serve, Kept, PlaceOK, Idle, TypeOK
  <2>2. \A q \in Processes : StartsIdle(q)
    BY <1>5 DEF Start, ListPending, ListFault, Serve, StartsIdle, PlaceOK, Idle, TypeOK, Publishers
  <2> QED
    BY <1>1, <2>1, <2>2
<1>6. ASSUME NEW p \in Processes, Crash(p)
      PROVE  (\A a \in Publishers : Placed(a)) /\ (\A q \in Processes : StartsIdle(q))
  <2>1. \A a \in Publishers :
          /\ RunsIn(a, p) => pc'[a] = "next" /\ todo'[a] = {}
          /\ ~RunsIn(a, p) => pc'[a] = pc[a] /\ todo'[a] = todo[a]
    BY <1>6 DEF Crash
  <2>2. \A a \in Publishers : Kept(a)
    BY <2>1 DEF Kept
  <2>3. \A q \in Processes : q \in Publishers /\ (q = p \/ mode'[q] = mode[q])
    BY <1>6 DEF Crash, TypeOK, Publishers
  <2>4. \A q \in Processes : StartsIdle(q)
    BY <2>1, <2>3 DEF StartsIdle, PlaceOK, Idle, RunsIn
  <2> QED
    BY <1>1, <2>2, <2>4
<1>7. ASSUME NEW a \in Publishers, Publish(a)
      PROVE  (\A b \in Publishers : Placed(b)) /\ (\A p \in Processes : StartsIdle(p))
  <2>1. PICK r \in Rows :
          \/ LookForObject(a, r) \/ MoveFile(a, r) \/ DropFile(a, r)
          \/ WriteManifest(a, r) \/ FileFault(a, r)
          \/ MarkPublished(a, r) \/ MarkFailed(a, r) \/ MarkFault(a, r)
    BY <1>7 DEF Publish
  <2>2. IsNext(a, r) /\ mode' = mode
    BY <2>1 DEF LookForObject, MoveFile, DropFile, WriteManifest, FileFault,
                MarkPublished, MarkFailed, MarkFault
  <2>3. \A p \in Processes : StartsIdle(p)
    <3>1. \A p \in Processes \ {a} : todo'[p] = todo[p] /\ pc'[p] = pc[p]
      BY <1>7, PublishStep DEF Publishers
    <3> QED
      BY <2>2, <3>1 DEF StartsIdle, PlaceOK, Idle, IsNext
  <2>4. \A b \in Publishers \ {a} : Placed(b)
    BY <1>1, <1>7, PublishStep DEF Kept
  <2>5. CASE MarkPublished(a, r) \/ MarkFailed(a, r) \/ MarkFault(a, r)
    <3>1. Kept(a)
      BY <2>5 DEF MarkPublished, MarkFailed, MarkFault, Published, Raised, Goto, Kept, TypeOK
    <3> QED
      BY <1>1, <2>3, <2>4, <3>1
  <2>6. CASE \/ LookForObject(a, r) \/ MoveFile(a, r) \/ DropFile(a, r)
             \/ WriteManifest(a, r) \/ FileFault(a, r)
    <3>1. todo' = todo /\ entry' = entry /\ content' = content
      BY <2>6 DEF LookForObject, MoveFile, DropFile, WriteManifest, FileFault
    <3>2. \A s \in Rows : IsNext(a, s)' => s = r
      BY <2>2, <3>1 DEF IsNext, Rows
    <3>3. /\ pc'[a] \in {"move", "drop"} => IsArtifact(r)'
          /\ pc'[a] = "drop" => ObjectExists(r)'
          /\ pc'[a] = "markPublished" => OnDisk(r)'
      <4>1. CASE LookForObject(a, r)
        BY <3>1, <4>1 DEF LookForObject, OnDuplicate, Goto, IsArtifact, ObjectExists, OnDisk, TypeOK
      <4>2. CASE MoveFile(a, r)
        BY <2>2, <3>1, <4>2 DEF MoveFile, Goto, PlaceOK, IsArtifact, ObjectExists, OnDisk, TypeOK
      <4>3. CASE DropFile(a, r)
        BY <2>2, <3>1, <4>3 DEF DropFile, Goto, PlaceOK, IsArtifact, ObjectExists, OnDisk, TypeOK
      <4>4. CASE WriteManifest(a, r)
        BY <3>1, <4>4 DEF WriteManifest, Goto, IsArtifact, ObjectExists, OnDisk, TypeOK
      <4>5. CASE FileFault(a, r)
        BY <4>5 DEF FileFault, Goto, TypeOK
      <4> QED
        BY <2>6, <4>1, <4>2, <4>3, <4>4, <4>5
    <3>4. Placed(a)
      BY <3>2, <3>3 DEF Placed
    <3> QED
      BY <2>3, <2>4, <3>4
  <2> QED
    BY <2>1, <2>5, <2>6
<1>8. CASE UNCHANGED vars
  BY <1>1, <1>8 DEF vars, Kept, StartsIdle, PlaceOK, Idle
<1> QED
  BY <1>3, <1>4, <1>5, <1>6, <1>7, <1>8 DEF Next

(* The inductive invariant of the files.                                   *)
LEMMA FilesStay == Spec => [](TypeOK /\ TableOK /\ FilesOK)
<1>1. Init => TypeOK /\ TableOK /\ FilesOK
  BY TypeInit, TableInit, FilesInit
<1>2. (TypeOK /\ TableOK /\ FilesOK) /\ [Next]_vars => (TypeOK /\ TableOK /\ FilesOK)'
  BY TypeStep, TableStep, NothingLostStep, PlaceStep, PublishedIsOnDiskStep DEF FilesOK
<1> QED
  BY <1>1, <1>2, PTL DEF Spec

(* Whatever crashes, races and fails, the bytes of a registered artifact   *)
(* are under its hash or where its outbox row says they are.               *)
THEOREM NothingGetsLost == Spec => []NothingLost
<1>1. FilesOK => NothingLost
  BY DEF FilesOK
<1> QED
  BY <1>1, FilesStay, PTL

(* A row that says published has its file.                                 *)
THEOREM PublishedStaysOnDisk == Spec => []PublishedIsOnDisk
<1>1. FilesOK => PublishedIsOnDisk
  BY DEF FilesOK
<1> QED
  BY <1>1, FilesStay, PTL

-----------------------------------------------------------------------------
(* Runs.                                                                   *)

(* A run has one worker, and while nothing failed, every output of it is   *)
(* in place or among the rows that worker still has to publish.            *)
OutputsInHand(w) ==
  (run[w] # 0 /\ status[run[w]] = "running" /\ ~failed[w]) =>
    \A r \in 1..rows :
      IsArtifact(r) /\ entry[r].run = run[w] => ObjectExists(r) \/ r \in todo[w]

RunsOK ==
  /\ \A v, w \in Workers : v # w /\ run[v] = run[w] => run[w] = 0
  /\ \A w \in Workers : OutputsInHand(w)
  /\ SuccessIsOnDisk

LEMMA RunsInit == Init => RunsOK
<1> SUFFICES ASSUME Init PROVE RunsOK
  OBVIOUS
<1>1. \A w \in Workers : run[w] = 0
  BY DEF Init
<1>2. SuccessIsOnDisk
  BY DEF Init, SuccessIsOnDisk
<1> QED
  BY <1>1, <1>2 DEF RunsOK, OutputsInHand

(* What a worker has in hand is not disturbed by the others.               *)
LEMMA InHandStays ==
  ASSUME TypeOK, TableOK, RunsOK, Grows, NEW w \in Workers, rows' = rows,
         run'[w] \in {0, run[w]},
         run'[w] # 0 => /\ status'[run[w]] = "running" => status[run[w]] = "running"
                        /\ failed[w] => failed'[w]
                        /\ failed'[w] \/ todo[w] \subseteq todo'[w]
  PROVE  OutputsInHand(w)'
<1> SUFFICES ASSUME run'[w] # 0, status'[run'[w]] = "running", ~failed'[w],
                    NEW r \in 1..rows, IsArtifact(r)', entry'[r].run = run'[w]
             PROVE  ObjectExists(r)' \/ r \in todo'[w]
  BY DEF OutputsInHand
<1>1. IsArtifact(r) /\ entry[r].run = run[w] /\ run[w] # 0
  BY OnDiskStays DEF Grows
<1>2. ObjectExists(r) \/ r \in todo[w]
  BY <1>1 DEF RunsOK, OutputsInHand
<1> QED
  BY <1>2, OnDiskStays

(* As long as no row is added and no run ends, success stays complete.     *)
LEMMA SuccessStays ==
  ASSUME TypeOK, TableOK, RunsOK, Grows, rows' = rows,
         \A r \in 1..rows : status'[entry[r].run] = "succeeded"
                              => status[entry[r].run] = "succeeded"
  PROVE  SuccessIsOnDisk'
BY OnDiskStays DEF RunsOK, SuccessIsOnDisk, Grows

LEMMA RunsStep == TypeOK /\ TableOK /\ FilesOK /\ RunsOK /\ [Next]_vars => RunsOK'
<1> SUFFICES ASSUME TypeOK, TableOK, PlaceOK, RunsOK, [Next]_vars PROVE RunsOK'
  BY DEF FilesOK
<1>0. rows \in Nat /\ runs \in Nat /\ Grows
  BY GrowsStep, BoundAssumption DEF TypeOK
<1> USE DEF tableVars, fileVars, workerVars
<1>1. ASSUME NEW w \in Workers, PersistStep(w) PROVE RunsOK'
  <2>1. PICK k \in 1..MaxOutputs, oneDescriptor \in BOOLEAN :
          Enqueue(w, k, [r \in NewRows(k) |->
                          [kind |-> "artifact", run |-> run[w],
                           source |-> IF oneDescriptor THEN rows + k ELSE r]])
    BY <1>1 DEF PersistStep
  <2>2. k \in Nat
    BY BoundAssumption
  <2>3. /\ \A r \in NewRows(k) : entry'[r].run = run[w]
        /\ \A a \in Publishers : todo'[a] = IF a = w THEN NewRows(k) ELSE todo[a]
        /\ 1..rows' = (1..rows) \cup NewRows(k)
    BY <2>1, <2>2, EnqueueGrows
  <2>4. /\ UNCHANGED <<status, run, failed>>
        /\ run[w] # 0 /\ status[run[w]] = "running" /\ ~failed[w] /\ todo[w] = {}
    BY <1>1 DEF PersistStep, Idle
  <2>5. ASSUME NEW v \in Workers PROVE OutputsInHand(v)'
    <3> SUFFICES ASSUME run[v] # 0, status[run[v]] = "running", ~failed[v],
                        NEW r \in 1..rows', IsArtifact(r)', entry'[r].run = run[v]
                 PROVE  ObjectExists(r)' \/ r \in todo'[v]
      BY <2>4 DEF OutputsInHand
    <3>1. CASE r \in NewRows(k)
      BY <2>3, <3>1 DEF RunsOK, Publishers
    <3>2. CASE r \in 1..rows
      <4>1. IsArtifact(r) /\ entry[r].run = run[v]
        BY <1>0, <3>2, OnDiskStays DEF Grows
      <4>2. ObjectExists(r) \/ r \in todo[v]
        BY <3>2, <4>1 DEF RunsOK, OutputsInHand
      <4>3. r \in todo[v] => r \in todo'[v]
        BY <2>3, <2>4 DEF Publishers
      <4> QED
        BY <1>0, <3>2, <4>2, <4>3, OnDiskStays
    <3> QED
      BY <2>3, <3>1, <3>2
  <2>6. SuccessIsOnDisk'
    <3> SUFFICES ASSUME NEW r \in 1..rows', IsArtifact(r)', status[entry'[r].run] = "succeeded"
                 PROVE  ObjectExists(r)'
      BY <2>4 DEF SuccessIsOnDisk
    <3>1. r \in 1..rows
      BY <2>3, <2>4
    <3> QED
      BY <1>0, <3>1, OnDiskStays DEF RunsOK, SuccessIsOnDisk, Grows
  <2> QED
    BY <2>4, <2>5, <2>6 DEF RunsOK
<1>2. ASSUME NEW w \in Workers, EndRun(w) PROVE RunsOK'
  <2>1. Enqueue(w, 1, [r \in NewRows(1) |->
                        [kind |-> "manifest", run |-> run[w], source |-> 0]])
    BY <1>2 DEF EndRun
  <2>2. /\ \A r \in NewRows(1) : ~IsArtifact(r)'
        /\ \A a \in Publishers \ {w} : todo'[a] = todo[a]
        /\ 1..rows' = (1..rows) \cup NewRows(1)
    BY <2>1, EnqueueGrows DEF IsArtifact
  <2>3. /\ UNCHANGED <<run, failed>> /\ run[w] # 0 /\ todo[w] = {}
        /\ status[run[w]] = "running" /\ run[w] \in Runs
        /\ status' = [status EXCEPT ![run[w]] = IF failed[w] THEN "failed" ELSE "succeeded"]
    BY <1>2, BoundAssumption DEF EndRun, Idle, TypeOK, Runs
  <2>4. ASSUME NEW v \in Workers PROVE OutputsInHand(v)'
    <3> SUFFICES ASSUME run[v] # 0, status'[run[v]] = "running", ~failed[v],
                        NEW r \in 1..rows', IsArtifact(r)', entry'[r].run = run[v]
                 PROVE  ObjectExists(r)' \/ r \in todo'[v]
      BY <2>3 DEF OutputsInHand
    <3>1. r \in 1..rows
      BY <2>2
    <3>2. run[v] # run[w] /\ v # w /\ status[run[v]] = "running"
      BY <2>3 DEF TypeOK
    <3>3. IsArtifact(r) /\ entry[r].run = run[v]
      BY <1>0, <3>1, OnDiskStays DEF Grows
    <3>4. ObjectExists(r) \/ r \in todo[v]
      BY <3>1, <3>2, <3>3 DEF RunsOK, OutputsInHand
    <3>5. todo'[v] = todo[v]
      BY <2>2, <3>2 DEF Publishers
    <3> QED
      BY <1>0, <3>1, <3>4, <3>5, OnDiskStays
  <2>5. SuccessIsOnDisk'
    <3> SUFFICES ASSUME NEW r \in 1..rows', IsArtifact(r)', status'[entry'[r].run] = "succeeded"
                 PROVE  ObjectExists(r)'
      BY DEF SuccessIsOnDisk
    <3>1. r \in 1..rows
      BY <2>2
    <3>2. IsArtifact(r) /\ entry'[r] = entry[r]
      BY <1>0, <3>1, OnDiskStays DEF Grows
    <3>3. CASE entry[r].run = run[w]
      <4>1. ~failed[w]
        BY <2>3, <3>2, <3>3 DEF TypeOK
      <4> QED
        BY <1>0, <2>3, <3>1, <3>2, <3>3, <4>1, OnDiskStays DEF RunsOK, OutputsInHand
    <3>4. CASE entry[r].run # run[w]
      <4>1. status[entry[r].run] = "succeeded"
        BY <1>0, <2>3, <3>1, <3>2, <3>4, BoundAssumption DEF TypeOK, TableOK, Runs
      <4> QED
        BY <1>0, <3>1, <3>2, <4>1, OnDiskStays DEF RunsOK, SuccessIsOnDisk
    <3> QED
      BY <3>3, <3>4
  <2> QED
    BY <2>3, <2>4, <2>5 DEF RunsOK
<1>3. ASSUME NEW w \in Workers, TakeRun(w) PROVE RunsOK'
  <2>1. /\ runs' = runs + 1 /\ rows' = rows /\ todo' = todo /\ failed' = failed
        /\ status' = [status EXCEPT ![runs + 1] = "running"]
        /\ run' = [run EXCEPT ![w] = runs + 1]
    BY <1>3 DEF TakeRun
  <2>2. \A r \in 1..rows : entry[r].run \in 1..runs /\ entry[r].run # runs + 1
    BY <1>0 DEF TableOK
  <2>3. \A v \in Workers : run[v] \in 0..MaxRuns /\ run[v] <= runs
    BY DEF TableOK, TypeOK
  <2>4. \A v \in Workers \ {w} : run'[v] = run[v] /\ run[v] # runs + 1
    BY <1>0, <2>1, <2>3, BoundAssumption DEF TypeOK
  <2>5. run'[w] = runs + 1
    BY <2>1 DEF TypeOK
  <2>6. ASSUME NEW v \in Workers \ {w} PROVE OutputsInHand(v)'
    BY <1>0, <2>1, <2>4, InHandStays DEF TypeOK
  <2>7. OutputsInHand(w)'
    BY <1>0, <2>1, <2>2, <2>5 DEF OutputsInHand, Grows
  <2>8. SuccessIsOnDisk'
    BY <1>0, <2>1, <2>2, SuccessStays DEF TypeOK
  <2>9. \A u, v \in Workers : u # v /\ run'[u] = run'[v] => run'[v] = 0
    BY <2>4, <2>5 DEF RunsOK
  <2> QED
    BY <2>6, <2>7, <2>8, <2>9 DEF RunsOK
<1>4. ASSUME NEW w \in Workers, LeaveRun(w) PROVE RunsOK'
  <2>1. /\ UNCHANGED <<rows, status, todo>>
        /\ \A v \in Workers : run'[v] = 0 \/ (run'[v] = run[v] /\ failed'[v] = failed[v])
    BY <1>4 DEF LeaveRun, TypeOK
  <2>2. \A v \in Workers : OutputsInHand(v)'
    BY <1>0, <2>1, InHandStays
  <2>3. SuccessIsOnDisk'
    BY <1>0, <2>1, SuccessStays
  <2> QED
    BY <2>1, <2>2, <2>3 DEF RunsOK
<1>5. ASSUME NEW p \in Processes, Start(p) \/ ListPending(p) \/ ListFault(p) \/ Serve(p)
      PROVE  RunsOK'
  <2>1. UNCHANGED <<rows, status, run, failed>> /\ \A v \in Workers : todo'[v] = todo[v]
    BY <1>5, PublisherAssumption DEF Start, ListPending, ListFault, Serve, TypeOK, Publishers
  <2>2. \A v \in Workers : OutputsInHand(v)'
    BY <1>0, <2>1, InHandStays
  <2>3. SuccessIsOnDisk'
    BY <1>0, <2>1, SuccessStays
  <2> QED
    BY <2>1, <2>2, <2>3 DEF RunsOK
<1>6. ASSUME NEW p \in Processes, Crash(p) PROVE RunsOK'
  <2>1. /\ UNCHANGED <<rows, status>>
        /\ \A v \in Workers : RunsIn(v, p) => run'[v] = 0
        /\ \A v \in Workers : ~RunsIn(v, p) => run'[v] = run[v] /\ todo'[v] = todo[v]
    BY <1>6 DEF Crash, Publishers
  <2>2. \A v \in Workers : ~RunsIn(v, p) => failed'[v] = failed[v]
    BY <1>6, Zenon DEF Crash, TypeOK
  <2>3. \A v \in Workers : OutputsInHand(v)'
    BY <1>0, <2>1, <2>2, InHandStays
  <2>4. SuccessIsOnDisk'
    BY <1>0, <2>1, SuccessStays
  <2> QED
    BY <2>1, <2>3, <2>4 DEF RunsOK
<1>7. ASSUME NEW a \in Publishers, Publish(a) PROVE RunsOK'
  <2>1. UNCHANGED <<rows, entry, status, run>>
    BY <1>7, PublishStep
  <2>2. SuccessIsOnDisk'
    BY <1>0, <2>1, SuccessStays
  <2>3. ASSUME NEW v \in Workers PROVE OutputsInHand(v)'
    <3>1. PICK r \in Rows :
            \/ LookForObject(a, r) \/ MoveFile(a, r) \/ DropFile(a, r)
            \/ WriteManifest(a, r) \/ FileFault(a, r)
            \/ MarkPublished(a, r) \/ MarkFailed(a, r) \/ MarkFault(a, r)
      BY <1>7 DEF Publish
    <3>2. CASE v # a
      <4>1. todo'[v] = todo[v]
        BY <1>7, <3>2, PublishStep DEF Publishers
      <4>2. failed'[v] = failed[v]
        BY <3>1, <3>2 DEF LookForObject, MoveFile, DropFile, WriteManifest, FileFault,
                          MarkPublished, MarkFailed, MarkFault, Published, Raised, TypeOK
      <4> QED
        BY <1>0, <2>1, <4>1, <4>2, InHandStays
    <3>3. CASE v = a /\ MarkPublished(a, r)
      <4>1. OnDisk(r) /\ failed'[v] = failed[v] /\ todo'[v] = todo[v] \ {r}
        BY <3>3 DEF MarkPublished, Published, PlaceOK, TypeOK
      <4>2. \A s \in 1..rows : IsArtifact(s)' = IsArtifact(s) /\ (ObjectExists(s) => ObjectExists(s)')
        BY <1>0, OnDiskStays DEF IsArtifact, Grows
      <4> QED
        BY <2>1, <4>1, <4>2 DEF RunsOK, OutputsInHand, OnDisk
    <3>4. CASE v = a /\ (MarkFailed(a, r) \/ MarkFault(a, r))
      <4>1. failed'[v]
        BY <3>4, PublisherAssumption DEF MarkFailed, MarkFault, Raised, TypeOK
      <4> QED
        BY <4>1 DEF OutputsInHand
    <3>5. CASE \/ LookForObject(a, r) \/ MoveFile(a, r) \/ DropFile(a, r)
               \/ WriteManifest(a, r) \/ FileFault(a, r)
      <4>1. failed' = failed /\ todo' = todo
        BY <3>5 DEF LookForObject, MoveFile, DropFile, WriteManifest, FileFault
      <4> QED
        BY <1>0, <2>1, <4>1, InHandStays
    <3> QED
      BY <3>1, <3>2, <3>3, <3>4, <3>5
  <2> QED
    BY <2>1, <2>2, <2>3 DEF RunsOK
<1>8. CASE UNCHANGED vars
  <2>1. UNCHANGED <<rows, status, run, failed, todo>>
    BY <1>8 DEF vars
  <2>2. \A v \in Workers : OutputsInHand(v)'
    BY <1>0, <2>1, InHandStays
  <2>3. SuccessIsOnDisk'
    BY <1>0, <2>1, SuccessStays
  <2> QED
    BY <2>1, <2>2, <2>3 DEF RunsOK
<1> QED
  BY <1>1, <1>2, <1>3, <1>4, <1>5, <1>6, <1>7, <1>8 DEF Next

(* All the outputs of a run that succeeded can be read.                    *)
THEOREM SuccessStaysOnDisk == Spec => []SuccessIsOnDisk
<1>1. Init => RunsOK
  BY RunsInit
<1>2. (TypeOK /\ TableOK /\ FilesOK) /\ RunsOK /\ [Next]_vars => RunsOK'
  BY RunsStep
<1>3. RunsOK => SuccessIsOnDisk
  BY DEF RunsOK
<1> QED
  BY <1>1, <1>2, <1>3, FilesStay, PTL DEF Spec

-----------------------------------------------------------------------------
(* One process.                                                            *)

(* No other process has the project open.                                  *)
SingleProcess == \A p, q \in Processes : p = q

(* A worker is at work only in a process that serves, and the main thread  *)
(* of a process publishes only while it repairs.                           *)
PhasesOK ==
  /\ \A w \in Workers : mode[HostOf[w]] # "serving" \/ run[w] = 0 => Idle(w)
  /\ \A w \in Workers : mode[HostOf[w]] # "serving" => run[w] = 0
  /\ \A p \in Processes : mode[p] # "repairing" => Idle(p)

(* No two publishers have the same row, or two rows that name the same     *)
(* staged file.                                                            *)
Apart(a, b) ==
  \A r \in todo[a], s \in todo[b] :
    r # s /\ (IsArtifact(r) /\ IsArtifact(s) => entry[r].source # entry[s].source)

(* What publishers hold is theirs, and is not published yet.               *)
HandsOK ==
  /\ \A a, b \in Publishers : a # b => Apart(a, b)
  /\ \A a \in Publishers : \A r \in todo[a] : Unfinished(r)

(* A publisher that is about to move or to discard a file will find it.    *)
FileAtHand(a) ==
  \A r \in Rows : IsNext(a, r) /\ pc[a] \in {"move", "drop"} => entry[r].source \in staging

(* As long as nothing has raised, no row is marked failed, or is about to. *)
NoFaultOK ==
  faults = 0 =>
    /\ \A r \in Rows : state[r] # "failed"
    /\ \A a \in Publishers : pc[a] # "markFailed" /\ FileAtHand(a)

LEMMA AloneInit == Init => PhasesOK /\ HandsOK /\ NoFaultOK
<1> SUFFICES ASSUME Init PROVE PhasesOK /\ HandsOK /\ NoFaultOK
  OBVIOUS
<1>1. PhasesOK
  BY DEF Init, PhasesOK, Idle, Publishers
<1>2. HandsOK
  BY DEF Init, HandsOK, Apart
<1>3. NoFaultOK
  BY DEF Init, NoFaultOK, FileAtHand, IsNext
<1> QED
  BY <1>1, <1>2, <1>3

LEMMA PhasesStep == TypeOK /\ PhasesOK /\ [Next]_vars => PhasesOK'
<1> SUFFICES ASSUME TypeOK, PhasesOK, [Next]_vars PROVE PhasesOK'
  OBVIOUS
<1> USE PublisherAssumption DEF tableVars, fileVars, workerVars, Publishers
<1>1. ASSUME NEW p \in Processes, Start(p) \/ ListPending(p) \/ ListFault(p) \/ Serve(p)
      PROVE  PhasesOK'
  <2>1. /\ UNCHANGED <<run, pc>>
        /\ \A a \in Publishers \ {p} : todo'[a] = todo[a]
        /\ \A q \in Processes \ {p} : mode'[q] = mode[q]
    BY <1>1 DEF Start, ListPending, ListFault, Serve, TypeOK
  <2>2. mode[p] # "serving"
    BY <1>1 DEF Start, ListPending, ListFault, Serve
  <2>3. mode'[p] # "repairing" => todo'[p] = {} /\ pc'[p] = "next"
    BY <1>1 DEF Start, ListPending, ListFault, Serve, PhasesOK, Idle, TypeOK
  <2> QED
    BY <2>1, <2>2, <2>3 DEF PhasesOK, Idle
<1>2. ASSUME NEW p \in Processes, Crash(p) PROVE PhasesOK'
  <2>1. \A a \in Publishers :
          /\ RunsIn(a, p) => pc'[a] = "next" /\ todo'[a] = {}
          /\ ~RunsIn(a, p) => pc'[a] = pc[a] /\ todo'[a] = todo[a]
    BY <1>2 DEF Crash
  <2>2. \A w \in Workers : run'[w] = IF RunsIn(w, p) THEN 0 ELSE run[w]
    BY <1>2 DEF Crash
  <2>3. \A q \in Processes : q = p \/ mode'[q] = mode[q]
    BY <1>2 DEF Crash, TypeOK
  <2>4. \A w \in Workers : ~RunsIn(w, p) => mode'[HostOf[w]] = mode[HostOf[w]]
    BY <2>3 DEF RunsIn
  <2>5. \A q \in Processes : RunsIn(q, p) <=> q = p
    BY DEF RunsIn
  <2> QED
    BY <1>2, <2>1, <2>2, <2>3, <2>4, <2>5 DEF PhasesOK, Idle, Crash, TypeOK
<1>3. ASSUME NEW w \in Workers, PersistStep(w) \/ EndRun(w) PROVE PhasesOK'
  <2>1. /\ UNCHANGED <<mode, pc, run>> /\ run[w] # 0
        /\ \A a \in Publishers \ {w} : todo'[a] = todo[a]
    BY <1>3 DEF PersistStep, EndRun, Enqueue, TypeOK
  <2> QED
    BY <2>1 DEF PhasesOK, Idle
<1>4. ASSUME NEW w \in Workers, TakeRun(w) \/ LeaveRun(w) PROVE PhasesOK'
  <2>1. /\ UNCHANGED <<mode, pc, todo>> /\ Idle(w)
        /\ \A v \in Workers \ {w} : run'[v] = run[v]
        /\ mode[HostOf[w]] # "serving" => run'[w] = 0
    BY <1>4 DEF TakeRun, LeaveRun, ServesRequests, PhasesOK, TypeOK
  <2> QED
    BY <2>1 DEF PhasesOK, Idle
<1>5. ASSUME NEW a \in Publishers, Publish(a) PROVE PhasesOK'
  <2>1. /\ UNCHANGED run /\ ~Idle(a)
        /\ \A b \in Publishers \ {a} : todo'[b] = todo[b] /\ pc'[b] = pc[b]
    BY <1>5, PublishStep DEF Publish, LookForObject, MoveFile, DropFile, WriteManifest,
         FileFault, MarkPublished, MarkFailed, MarkFault, IsNext, Idle
  <2>2. mode' = mode
    BY <1>5 DEF Publish, LookForObject, MoveFile, DropFile, WriteManifest, FileFault,
                MarkPublished, MarkFailed, MarkFault
  <2> QED
    BY <2>1, <2>2 DEF PhasesOK, Idle
<1>6. CASE UNCHANGED vars
  BY <1>6 DEF vars, PhasesOK, Idle
<1> QED
  BY <1>1, <1>2, <1>3, <1>4, <1>5, <1>6 DEF Next

(* While the only process starts, nobody publishes.                        *)
LEMMA StartsAlone ==
  ASSUME SingleProcess, PhasesOK, NEW p \in Processes, mode[p] = "starting"
  PROVE  \A a \in Publishers : Idle(a)
BY PublisherAssumption DEF SingleProcess, PhasesOK, Publishers

(* Publishers that keep or shorten their lists stay apart.                 *)
LEMMA ApartStays ==
  ASSUME TableOK, HandsOK, Grows,
         \A a \in Publishers : todo'[a] \subseteq todo[a],
         \A a \in Publishers : \A r \in todo'[a] : state'[r] = state[r]
  PROVE  HandsOK'
<1>1. \A a \in Publishers : \A r \in todo'[a] : r \in todo[a] /\ entry'[r] = entry[r]
  BY DEF TableOK, Grows
<1> QED
  BY <1>1 DEF HandsOK, Apart, IsArtifact, Unfinished

(* Rows just enqueued, which name files just staged, are their worker's.   *)
LEMMA ApartEnqueue ==
  ASSUME TypeOK, TableOK, HandsOK, NEW w \in Workers, NEW k \in Nat, NEW given,
         Enqueue(w, k, given),
         \A r \in NewRows(k) : given[r].kind = "artifact" => given[r].source \in NewRows(k)
  PROVE  HandsOK'
<1>0. rows \in Nat
  BY BoundAssumption DEF TypeOK
<1>1. /\ \A r \in 1..rows : r \in Rows /\ r \notin NewRows(k) /\ entry'[r] = entry[r]
      /\ \A r \in NewRows(k) : r \in Rows /\ entry'[r] = given[r]
      /\ \A r \in Rows : state'[r] = IF r \in NewRows(k) THEN "pending" ELSE state[r]
      /\ \A a \in Publishers : todo'[a] = IF a = w THEN NewRows(k) ELSE todo[a]
  BY EnqueueGrows
<1>2. \A a \in Publishers : \A r \in todo[a] :
        r \in 1..rows /\ (IsArtifact(r) => entry[r].source \in 1..rows)
  BY DEF TableOK
<1>3. ASSUME NEW a \in Publishers \ {w} PROVE Apart(a, w)' /\ Apart(w, a)'
  <2>1. w \in Publishers /\ todo'[a] = todo[a] /\ todo'[w] = NewRows(k)
    BY <1>1 DEF Publishers
  <2> SUFFICES ASSUME NEW r \in todo[a], NEW s \in NewRows(k)
               PROVE  /\ r # s
                      /\ IsArtifact(r)' /\ IsArtifact(s)' => entry'[r].source # entry'[s].source
    BY <2>1 DEF Apart
  <2>2. r \in 1..rows /\ entry'[r] = entry[r] /\ entry'[s] = given[s]
    BY <1>1, <1>2
  <2>3. IsArtifact(r)' => entry[r].source \in 1..rows
    BY <1>2, <2>2 DEF IsArtifact
  <2>4. IsArtifact(s)' => given[s].source \in NewRows(k)
    BY <2>2 DEF IsArtifact
  <2> QED
    BY <1>1, <2>2, <2>3, <2>4
<1>4. ASSUME NEW a \in Publishers \ {w}, NEW b \in Publishers \ {w}, a # b PROVE Apart(a, b)'
  <2>1. todo'[a] = todo[a] /\ todo'[b] = todo[b]
    BY <1>1
  <2>2. \A r \in todo[a] \cup todo[b] : entry'[r] = entry[r]
    BY <1>1, <1>2
  <2>3. Apart(a, b)
    BY <1>4 DEF HandsOK
  <2>4. ASSUME NEW r \in todo[a], NEW s \in todo[b]
        PROVE  /\ r # s
               /\ IsArtifact(r)' /\ IsArtifact(s)' => entry'[r].source # entry'[s].source
    BY <2>2, <2>3 DEF Apart, IsArtifact
  <2> QED
    BY <2>1, <2>4 DEF Apart
<1>5. ASSUME NEW a \in Publishers, NEW r \in todo'[a] PROVE Unfinished(r)'
  <2>1. CASE a = w
    BY <1>1, <2>1 DEF Unfinished
  <2>2. CASE a # w
    BY <1>1, <1>2, <2>2 DEF HandsOK, Unfinished
  <2> QED
    BY <2>1, <2>2
<1> QED
  BY <1>3, <1>4, <1>5 DEF HandsOK

LEMMA HandsStep ==
  SingleProcess /\ TypeOK /\ TableOK /\ PhasesOK /\ HandsOK /\ [Next]_vars => HandsOK'
<1> SUFFICES ASSUME SingleProcess, TypeOK, TableOK, PhasesOK, HandsOK, [Next]_vars
             PROVE  HandsOK'
  OBVIOUS
<1>0. rows \in Nat /\ Grows
  BY GrowsStep, BoundAssumption DEF TypeOK
<1> USE DEF tableVars, fileVars, workerVars
<1>1. ASSUME NEW w \in Workers, PersistStep(w) PROVE HandsOK'
  <2>1. PICK k \in 1..MaxOutputs, oneDescriptor \in BOOLEAN :
          Enqueue(w, k, [r \in NewRows(k) |->
                          [kind |-> "artifact", run |-> run[w],
                           source |-> IF oneDescriptor THEN rows + k ELSE r]])
    BY <1>1 DEF PersistStep
  <2>2. k \in Nat \ {0} /\ rows + k \in NewRows(k)
    BY <1>0, BoundAssumption DEF NewRows
  <2> QED
    BY <2>1, <2>2, ApartEnqueue
<1>2. ASSUME NEW w \in Workers, EndRun(w) PROVE HandsOK'
  <2>1. Enqueue(w, 1, [r \in NewRows(1) |->
                        [kind |-> "manifest", run |-> run[w], source |-> 0]])
    BY <1>2 DEF EndRun
  <2> QED
    BY <2>1, ApartEnqueue
<1>3. ASSUME NEW p \in Processes, ListPending(p) PROVE HandsOK'
  <2>1. /\ \A a \in Publishers \ {p} : todo'[a] = {}
        /\ UNCHANGED <<state, entry>> /\ todo'[p] = Listed
    BY <1>3, StartsAlone DEF ListPending, Idle, TypeOK, Publishers
  <2>2. \A r \in Listed : Unfinished(r)
    BY DEF Listed
  <2> QED
    BY <2>1, <2>2 DEF HandsOK, Apart, Unfinished
<1>4. ASSUME NEW p \in Processes, Start(p) \/ ListFault(p) \/ Serve(p) PROVE HandsOK'
  BY <1>0, <1>4, ApartStays DEF Start, ListFault, Serve
<1>5. ASSUME NEW p \in Processes, Crash(p) PROVE HandsOK'
  <2>1. state' = state /\ \A a \in Publishers : todo'[a] \subseteq todo[a]
    BY <1>5 DEF Crash
  <2> QED
    BY <1>0, <2>1, ApartStays
<1>6. ASSUME NEW w \in Workers, TakeRun(w) \/ LeaveRun(w) PROVE HandsOK'
  BY <1>0, <1>6, ApartStays DEF TakeRun, LeaveRun
<1>7. ASSUME NEW a \in Publishers, Publish(a) PROVE HandsOK'
  <2>1. \A b \in Publishers : todo'[b] \subseteq todo[b]
    BY <1>7, PublishStep
  <2>2. ASSUME NEW b \in Publishers, NEW s \in todo'[b], state'[s] # state[s] PROVE FALSE
    <3>1. s \in Rows /\ s \in todo[b]
      BY <2>1, <2>2 DEF TypeOK
    <3>2. IsNext(a, s)
      BY <1>7, <2>2, <3>1, PublishStep
    <3>3. b = a
      BY <3>1, <3>2 DEF HandsOK, Apart, IsNext
    <3>4. PICK r \in Rows : MarkPublished(a, r) \/ MarkFailed(a, r)
      BY <1>7, <2>2 DEF Publish, LookForObject, MoveFile, DropFile, WriteManifest, FileFault,
                        MarkFault
    <3>5. r = s
      BY <3>1, <3>2, <3>4 DEF MarkPublished, MarkFailed, IsNext, Rows
    <3> QED
      BY <2>2, <3>3, <3>4, <3>5 DEF MarkPublished, MarkFailed, Published, Raised, TypeOK
  <2> QED
    BY <1>0, <2>1, <2>2, ApartStays
<1>8. CASE UNCHANGED vars
  BY <1>0, <1>8, ApartStays DEF vars
<1> QED
  BY <1>1, <1>2, <1>3, <1>4, <1>5, <1>6, <1>7, <1>8 DEF Next

(* A publisher that did not move finds its file, if nobody took it.        *)
LEMMA FileStaysAtHand ==
  ASSUME TableOK, Grows, NEW a \in Publishers, FileAtHand(a),
         \/ pc'[a] = "next"
         \/ /\ pc'[a] = pc[a] /\ todo'[a] = todo[a]
            /\ \A r \in Rows : IsNext(a, r) /\ pc[a] \in {"move", "drop"} =>
                 (entry[r].source \in staging => entry[r].source \in staging')
  PROVE  FileAtHand(a)'
<1> SUFFICES ASSUME NEW r \in Rows, IsNext(a, r)', pc'[a] \in {"move", "drop"}
             PROVE  entry'[r].source \in staging'
  BY DEF FileAtHand
<1>1. IsNext(a, r) /\ r \in 1..rows /\ pc'[a] = pc[a]
  BY DEF IsNext, TableOK
<1> QED
  BY <1>1 DEF FileAtHand, Grows

LEMMA NoFaultStep ==
  TypeOK /\ TableOK /\ FilesOK /\ PhasesOK /\ HandsOK /\ NoFaultOK /\ [Next]_vars => NoFaultOK'
<1> SUFFICES ASSUME TypeOK, TableOK, NothingLost, PlaceOK, PhasesOK, HandsOK, NoFaultOK,
                    [Next]_vars, faults' = 0
             PROVE  /\ \A r \in Rows : state'[r] # "failed"
                    /\ \A a \in Publishers : pc'[a] # "markFailed" /\ FileAtHand(a)'
  BY DEF FilesOK, NoFaultOK
<1>0. rows \in Nat /\ Grows
  BY GrowsStep, BoundAssumption DEF TypeOK
<1> USE DEF tableVars, fileVars, workerVars
<1>1. ASSUME faults = 0, UNCHANGED <<state, pc, staging>>,
             \A a \in Publishers : pc[a] = "next" \/ todo'[a] = todo[a]
      PROVE  /\ \A r \in Rows : state'[r] # "failed"
             /\ \A a \in Publishers : pc'[a] # "markFailed" /\ FileAtHand(a)'
  BY <1>0, <1>1, FileStaysAtHand DEF NoFaultOK
<1>2. ASSUME NEW w \in Workers, PersistStep(w) \/ EndRun(w)
      PROVE  /\ \A r \in Rows : state'[r] # "failed"
             /\ \A a \in Publishers : pc'[a] # "markFailed" /\ FileAtHand(a)'
  <2>1. faults = 0 /\ pc' = pc /\ staging \subseteq staging' /\ pc[w] = "next"
    BY <1>2 DEF PersistStep, EndRun, Idle
  <2>2. /\ \A r \in Rows : state'[r] \in {"pending", state[r]}
        /\ \A a \in Publishers \ {w} : todo'[a] = todo[a]
    BY <1>2 DEF PersistStep, EndRun, Enqueue, TypeOK
  <2>3. ASSUME NEW a \in Publishers PROVE FileAtHand(a)'
    BY <1>0, <2>1, <2>2, FileStaysAtHand DEF NoFaultOK
  <2> QED
    BY <2>1, <2>2, <2>3 DEF NoFaultOK
<1>3. ASSUME NEW w \in Workers, TakeRun(w) \/ LeaveRun(w)
      PROVE  /\ \A r \in Rows : state'[r] # "failed"
             /\ \A a \in Publishers : pc'[a] # "markFailed" /\ FileAtHand(a)'
  BY <1>1, <1>3 DEF TakeRun, LeaveRun
<1>4. ASSUME NEW p \in Processes, Start(p) \/ ListPending(p) \/ ListFault(p) \/ Serve(p)
      PROVE  /\ \A r \in Rows : state'[r] # "failed"
             /\ \A a \in Publishers : pc'[a] # "markFailed" /\ FileAtHand(a)'
  <2>1. faults = 0 /\ UNCHANGED <<state, pc, staging>>
    BY <1>4, BoundAssumption DEF Start, ListPending, ListFault, Serve, TypeOK
  <2>2. \A a \in Publishers : pc[a] = "next" \/ todo'[a] = todo[a]
    BY <1>4 DEF Start, ListPending, ListFault, Serve, PhasesOK, Idle, TypeOK
  <2> QED
    BY <1>1, <2>1, <2>2
<1>5. ASSUME NEW p \in Processes, Crash(p)
      PROVE  /\ \A r \in Rows : state'[r] # "failed"
             /\ \A a \in Publishers : pc'[a] # "markFailed" /\ FileAtHand(a)'
  <2>1. /\ faults = 0 /\ UNCHANGED <<state, staging>>
        /\ \A a \in Publishers :
             pc'[a] = "next" \/ (pc'[a] = pc[a] /\ todo'[a] = todo[a])
    BY <1>5 DEF Crash
  <2> QED
    BY <1>0, <2>1, FileStaysAtHand DEF NoFaultOK
<1>6. ASSUME NEW a \in Publishers, NEW r \in Rows,
             \/ LookForObject(a, r) \/ MoveFile(a, r) \/ DropFile(a, r) \/ WriteManifest(a, r)
      PROVE  /\ \A s \in Rows : state'[s] # "failed"
             /\ \A b \in Publishers : pc'[b] # "markFailed" /\ FileAtHand(b)'
  <2> DEFINE f == entry[r].source
  <2>1. /\ faults = 0 /\ UNCHANGED <<state, todo, entry>> /\ IsNext(a, r)
        /\ \A b \in Publishers \ {a} : pc'[b] = pc[b]
    BY <1>6 DEF LookForObject, MoveFile, DropFile, WriteManifest, Goto, TypeOK
  <2>2. \A s \in Rows : IsNext(a, s)' => s = r
    BY <2>1 DEF IsNext, Rows
  <2>3. pc'[a] # "markFailed" /\ (pc'[a] \in {"move", "drop"} => f \in staging')
    <3>1. CASE LookForObject(a, r)
      <4>1. content[f] \in objects \/ f \in staging
        BY <2>1, <3>1 DEF LookForObject, NothingLost, TableOK, IsNext, IsArtifact, ObjectExists
      <4> QED
        BY <3>1, <4>1 DEF LookForObject, OnDuplicate, Goto, TypeOK
    <3>2. CASE MoveFile(a, r) \/ DropFile(a, r)
      <4>1. f \in staging
        BY <2>1, <3>2 DEF MoveFile, DropFile, NoFaultOK, FileAtHand
      <4> QED
        BY <3>2, <4>1 DEF MoveFile, DropFile, Goto, TypeOK
    <3>3. CASE WriteManifest(a, r)
      BY <3>3 DEF WriteManifest, Goto, TypeOK
    <3> QED
      BY <1>6, <3>1, <3>2, <3>3
  <2>4. FileAtHand(a)'
    BY <2>1, <2>2, <2>3 DEF FileAtHand
  <2>5. ASSUME NEW b \in Publishers \ {a} PROVE FileAtHand(b)'
    <3>1. ASSUME NEW s \in Rows, IsNext(b, s), pc[b] \in {"move", "drop"},
                 entry[s].source \in staging
          PROVE  entry[s].source \in staging'
      <4>1. CASE LookForObject(a, r) \/ WriteManifest(a, r)
        BY <3>1, <4>1 DEF LookForObject, WriteManifest
      <4>2. CASE MoveFile(a, r) \/ DropFile(a, r)
        <5>1. IsArtifact(r) /\ IsArtifact(s)
          BY <2>1, <3>1, <4>2 DEF MoveFile, DropFile, PlaceOK
        <5>2. Apart(a, b) /\ r \in todo[a] /\ s \in todo[b]
          BY <2>1, <3>1 DEF HandsOK, IsNext
        <5>3. entry[s].source # f
          BY <5>1, <5>2 DEF Apart
        <5> QED
          BY <3>1, <4>2, <5>3 DEF MoveFile, DropFile
      <4> QED
        BY <1>6, <4>1, <4>2
    <3> QED
      BY <1>0, <2>1, <3>1, FileStaysAtHand DEF NoFaultOK
  <2> QED
    BY <2>1, <2>3, <2>4, <2>5 DEF NoFaultOK
<1>7. ASSUME NEW a \in Publishers, NEW r \in Rows, MarkPublished(a, r) \/ MarkFailed(a, r)
      PROVE  /\ \A s \in Rows : state'[s] # "failed"
             /\ \A b \in Publishers : pc'[b] # "markFailed" /\ FileAtHand(b)'
  <2>1. faults = 0 /\ staging' = staging /\ MarkPublished(a, r)
    BY <1>7 DEF MarkPublished, MarkFailed, NoFaultOK
  <2>2. /\ \A s \in Rows : state'[s] \in {"published", state[s]}
        /\ \A b \in Publishers :
             pc'[b] = "next" \/ (pc'[b] = pc[b] /\ todo'[b] = todo[b])
    BY <2>1 DEF MarkPublished, Published, Goto, TypeOK
  <2> QED
    BY <1>0, <2>1, <2>2, FileStaysAtHand DEF NoFaultOK
<1>8. ASSUME NEW a \in Publishers, NEW r \in Rows, FileFault(a, r) \/ MarkFault(a, r)
      PROVE  FALSE
  BY <1>8, BoundAssumption DEF FileFault, MarkFault, TypeOK
<1>9. CASE UNCHANGED vars
  BY <1>1, <1>9 DEF vars
<1> QED
  BY <1>2, <1>3, <1>4, <1>5, <1>6, <1>7, <1>8, <1>9 DEF Next, Publish

(* What holds of a process that has the project to itself.                 *)
AloneOK == TypeOK /\ TableOK /\ FilesOK /\ PhasesOK /\ HandsOK /\ NoFaultOK

LEMMA AloneStays == SingleProcess => (Spec => []AloneOK)
<1> SUFFICES ASSUME SingleProcess PROVE Spec => []AloneOK
  OBVIOUS
<1>1. Init => AloneOK
  BY TypeInit, TableInit, FilesInit, AloneInit DEF AloneOK
<1>2. AloneOK /\ [Next]_vars => AloneOK'
  <2> SUFFICES ASSUME AloneOK, [Next]_vars PROVE AloneOK'
    OBVIOUS
  <2>1. TypeOK' /\ TableOK' /\ FilesOK'
    BY TypeStep, TableStep, NothingLostStep, PlaceStep, PublishedIsOnDiskStep DEF AloneOK, FilesOK
  <2>2. PhasesOK' /\ HandsOK' /\ NoFaultOK'
    BY PhasesStep, HandsStep, NoFaultStep DEF AloneOK
  <2> QED
    BY <2>1, <2>2 DEF AloneOK
<1> QED
  BY <1>1, <1>2, PTL DEF Spec

(* A process that has the project to itself marks a publication failed     *)
(* only after an operation of the file system or of the database raised:   *)
(* its workers, and reconciliation after any number of crashes, find every *)
(* file they are about to move or discard, duplicates and shared staged    *)
(* files included.                                                         *)
THEOREM FailuresHaveACause == SingleProcess => (Spec => []FailureNeedsAFault)
<1> SUFFICES ASSUME SingleProcess PROVE Spec => []FailureNeedsAFault
  OBVIOUS
<1>1. AloneOK => FailureNeedsAFault
  BY BoundAssumption DEF AloneOK, NoFaultOK, FailureNeedsAFault, TypeOK
<1> QED
  BY <1>1, AloneStays, PTL

(* ... and never takes the state of a published row back, whatever raises. *)
THEOREM PublicationIsFinal == SingleProcess => (Spec => PublishedStays)
<1> SUFFICES ASSUME SingleProcess PROVE Spec => PublishedStays
  OBVIOUS
<1>1. AloneOK /\ [Next]_vars =>
        [\A r \in Rows : state[r] = "published" => state'[r] = "published"]_vars
  <2> SUFFICES ASSUME AloneOK, Next, NEW r \in Rows, state[r] = "published",
                      state'[r] # "published"
               PROVE  FALSE
    OBVIOUS
  <2> USE DEF tableVars, fileVars, workerVars
  <2>0. TypeOK /\ r \in 1..rows /\ rows \in Nat
    BY BoundAssumption DEF AloneOK, TypeOK, TableOK, Rows
  <2>1. ASSUME NEW w \in Workers, NEW k \in Nat, NEW given, Enqueue(w, k, given) PROVE FALSE
    BY <2>0, <2>1, EnqueueGrows
  <2>2. ASSUME NEW w \in Workers, PersistStep(w) \/ EndRun(w) PROVE FALSE
    <3>1. CASE PersistStep(w)
      <4>1. PICK k \in 1..MaxOutputs : \E given : Enqueue(w, k, given)
        BY <3>1 DEF PersistStep
      <4> QED
        BY <2>1, <4>1, BoundAssumption
    <3>2. CASE EndRun(w)
      BY <2>1, <3>2 DEF EndRun
    <3> QED
      BY <2>2, <3>1, <3>2
  <2>3. PICK a \in Publishers : Publish(a)
    BY <2>2 DEF Next, TakeRun, LeaveRun, Start, ListPending, ListFault, Serve, Crash
  <2>4. r \in todo[a]
    BY <2>0, <2>3, PublishStep DEF IsNext
  <2> QED
    BY <2>4 DEF AloneOK, HandsOK, Unfinished
<1> QED
  BY <1>1, AloneStays, PTL DEF Spec, PublishedStays

=============================================================================
