------------------------------ MODULE Publication ------------------------------
(***************************************************************************)
(* How cardre's files follow its database: the publication outbox.         *)
(*                                                                         *)
(* A transaction that registers artifacts, or ends a run, enqueues a row   *)
(* for each file.  After the commit PublicationPublisher has the file put  *)
(* in place (FsArtifactStore moves it out of staging, FsManifestPublisher  *)
(* writes it) and then marks the row in a transaction of its own.  Rows a  *)
(* crash or an error left unfinished are tried again by                    *)
(* ReconcilePublications while the next process starts.                    *)
(*                                                                         *)
(* A step of a publisher is one transaction or one operation on the file   *)
(* system.  A publisher is a thread: that of a worker, which stops at the  *)
(* first publication that fails, or the main thread of a process that      *)
(* starts, which goes on to the next row.                                  *)
(***************************************************************************)
EXTENDS Integers, FiniteSets

CONSTANTS
  Processes,   (* Server processes that share a project, each with its main thread. *)
  Workers,     (* Threads that execute runs.                                *)
  HostOf,      (* The process of each worker.                               *)
  Hashes,      (* Physical hashes of the outputs.                           *)
  MaxOutputs,  (* Outputs of a step.                                        *)
  Limit,       (* The limit of list_pending.                                *)
  MaxRows,     (* Outbox rows.  Bounds the model.                           *)
  MaxRuns,     (* Runs.  Bounds the model.                                  *)
  MaxFaults,   (* File operations and transactions that raise.  Bounds the model. *)
  MaxCrashes   (* Exits of processes.  Bounds the model.                    *)

ASSUME PublisherAssumption ==
  /\ Processes \cap Workers = {}
  /\ HostOf \in [Workers -> Processes]

ASSUME BoundAssumption ==
  /\ MaxOutputs \in Nat
  /\ Limit \in Nat
  /\ MaxRows \in Nat
  /\ MaxRuns \in Nat
  /\ MaxFaults \in Nat
  /\ MaxCrashes \in Nat

VARIABLES
  (* The publication_outbox table, in the order of insertion. *)
  rows,       (* how many rows there are      *)
  entry,      (* what each row publishes      *)
  state,      (* its state column             *)
  (* The runs table. *)
  runs,       (* how many runs there are      *)
  status,
  (* The project directory. *)
  staging,    (* files in .staging            *)
  content,    (* the hash of a staged file    *)
  objects,    (* hashes under objects/        *)
  manifests,  (* rows whose manifest file is in manifests/runs/ *)
  (* Memory. *)
  mode,       (* each process                                       *)
  todo,       (* the rows each publisher has left in its loop       *)
  pc,         (* where each publisher stands with the oldest of them *)
  run,        (* the run each worker executes, 0 for none           *)
  failed,     (* did a publication of the worker's run fail?        *)
  (* The environment. *)
  faults, crashes

tableVars == <<rows, entry, state, runs, status>>
fileVars == <<staging, content, objects, manifests>>
workerVars == <<run, failed>>
vars == <<tableVars, fileVars, mode, todo, pc, workerVars, faults, crashes>>

Publishers == Processes \cup Workers
Rows == 1..MaxRows
Runs == 1..MaxRuns

Entry == [kind : {"none", "artifact", "manifest"}, run : 0..MaxRuns, source : 0..MaxRows]
NoEntry == [kind |-> "none", run |-> 0, source |-> 0]

RowState == {"absent", "pending", "published", "failed"}
PublisherState == {"next", "move", "drop", "markPublished", "markFailed"}

TypeOK ==
  /\ rows \in 0..MaxRows
  /\ entry \in [Rows -> Entry]
  /\ state \in [Rows -> RowState]
  /\ runs \in 0..MaxRuns
  /\ status \in [Runs -> {"absent", "running", "succeeded", "failed"}]
  /\ staging \subseteq Rows
  /\ content \in [Rows -> Hashes]
  /\ objects \subseteq Hashes
  /\ manifests \subseteq Rows
  /\ mode \in [Processes -> {"down", "starting", "repairing", "serving"}]
  /\ todo \in [Publishers -> SUBSET Rows]
  /\ pc \in [Publishers -> PublisherState]
  /\ run \in [Workers -> 0..MaxRuns]
  /\ failed \in [Workers -> BOOLEAN]
  /\ faults \in 0..MaxFaults
  /\ crashes \in 0..MaxCrashes

Init ==
  /\ rows = 0
  /\ entry = [r \in Rows |-> NoEntry]
  /\ state = [r \in Rows |-> "absent"]
  /\ runs = 0
  /\ status = [n \in Runs |-> "absent"]
  /\ staging = {}
  /\ content \in [Rows -> Hashes]
  /\ objects = {}
  /\ manifests = {}
  /\ mode = [p \in Processes |-> "down"]
  /\ todo = [a \in Publishers |-> {}]
  /\ pc = [a \in Publishers |-> "next"]
  /\ run = [w \in Workers |-> 0]
  /\ failed = [w \in Workers |-> FALSE]
  /\ faults = 0
  /\ crashes = 0

-----------------------------------------------------------------------------
(* Executing a run, as far as it publishes.                                *)

Idle(a) == todo[a] = {} /\ pc[a] = "next"

\* Variant: the server takes runs while it still reconciles.
ServesOnceUp(p) == mode[p] # "down"

(* Requests are served, and runs executed, once reconciliation is over.    *)
ServesRequests(p) == mode[p] = "serving"

TakeRun(w) ==
  /\ ServesRequests(HostOf[w])
  /\ run[w] = 0
  /\ runs < MaxRuns
  /\ runs' = runs + 1
  /\ status' = [status EXCEPT ![runs + 1] = "running"]
  /\ run' = [run EXCEPT ![w] = runs + 1]
  /\ UNCHANGED <<rows, entry, state, fileVars, mode, todo, pc, failed, faults, crashes>>

\* Variant: the batch begins with the last row of the one before.
NewRowsFromLast(k) == rows..(rows + k)

NewRows(k) == (rows + 1)..(rows + k)

(* k rows are enqueued for the worker, which publishes them once the       *)
(* transaction has committed.                                              *)
Enqueue(w, k, given) ==
  /\ rows + k <= MaxRows
  /\ rows' = rows + k
  /\ entry' = [r \in Rows |-> IF r \in NewRows(k) THEN given[r] ELSE entry[r]]
  /\ state' = [r \in Rows |-> IF r \in NewRows(k) THEN "pending" ELSE state[r]]
  /\ todo' = [todo EXCEPT ![w] = NewRows(k)]

(* A step stages one file per output, then one transaction registers the   *)
(* artifacts and their rows.  The file of row r has the number of the row. *)
(* Outputs of one descriptor, which have the same bytes, are one artifact: *)
(* staged_by_artifact keeps the file staged last for each of their rows.   *)
(* Files staged for a transaction that is refused are never read again and *)
(* are left out.                                                           *)
PersistStep(w) ==
  /\ Idle(w) /\ run[w] # 0 /\ ~failed[w]
  /\ status[run[w]] = "running"
  /\ \E k \in 1..MaxOutputs, oneDescriptor \in BOOLEAN :
       /\ Enqueue(w, k, [r \in NewRows(k) |->
                           [kind |-> "artifact", run |-> run[w],
                            source |-> IF oneDescriptor THEN rows + k ELSE r]])
       /\ oneDescriptor => \A r, s \in NewRows(k) : content[r] = content[s]
       /\ staging' = staging \cup NewRows(k)
  /\ UNCHANGED <<runs, status, content, objects, manifests, mode, pc, workerVars,
                 faults, crashes>>

(* FinalizeRun: the terminal status and the manifest row in a transaction. *)
EndRun(w) ==
  /\ Idle(w) /\ run[w] # 0
  /\ status[run[w]] = "running"
  /\ status' = [status EXCEPT ![run[w]] = IF failed[w] THEN "failed" ELSE "succeeded"]
  /\ Enqueue(w, 1, [r \in NewRows(1) |->
                      [kind |-> "manifest", run |-> run[w], source |-> 0]])
  /\ UNCHANGED <<runs, fileVars, mode, pc, workerVars, faults, crashes>>

(* The worker returns: the run has ended, or somebody else holds its lease. *)
LeaveRun(w) ==
  /\ Idle(w) /\ run[w] # 0
  /\ run' = [run EXCEPT ![w] = 0]
  /\ failed' = [failed EXCEPT ![w] = FALSE]
  /\ UNCHANGED <<tableVars, fileVars, mode, todo, pc, faults, crashes>>

-----------------------------------------------------------------------------
(* Publishing one row.                                                     *)

(* Rows are published in the order of their insertion.  (list_pending      *)
(* sorts by a time in seconds and leaves the order within one open; what   *)
(* publishing a row does to another is the same in either order.)          *)
IsNext(a, r) == r \in todo[a] /\ \A s \in todo[a] : r <= s

Goto(a, label) == pc' = [pc EXCEPT ![a] = label]

(* PublicationPublisher.publish returns to the loop of its caller.         *)
Published(a, r) ==
  /\ Goto(a, "next")
  /\ todo' = [todo EXCEPT ![a] = @ \ {r}]
  /\ UNCHANGED failed

\* Variant: the worker's loop catches the error as well.
RaisedAndCaught(a, r) ==
  /\ Goto(a, "next")
  /\ todo' = [todo EXCEPT ![a] = @ \ {r}]
  /\ UNCHANGED failed

(* It raises.  The loop of ReconcilePublications notes the error and goes  *)
(* on; a worker gives its other rows up and fails the run.                 *)
Raised(a, r) ==
  /\ Goto(a, "next")
  /\ \/ /\ a \in Processes
        /\ todo' = [todo EXCEPT ![a] = @ \ {r}]
        /\ UNCHANGED failed
     \/ /\ a \in Workers
        /\ todo' = [todo EXCEPT ![a] = {}]
        /\ failed' = [failed EXCEPT ![a] = TRUE]

\* Variant: the staged file is discarded without a look at whether it exists.
DropDuplicate(f) == "drop"

(* What is done with an object that exists already: a file that is still   *)
(* staged is discarded.                                                    *)
OnDuplicate(f) == IF f \in staging THEN "drop" ELSE "markPublished"

(* FsArtifactStore.finalize, called by a worker, and finalize_staged_file, *)
(* called by reconciliation, first look for the object; only the latter    *)
(* looks for the staged file before it moves it.                           *)
LookForObject(a, r) ==
  LET f == entry[r].source
  IN /\ pc[a] = "next" /\ IsNext(a, r)
     /\ entry[r].kind = "artifact"
     /\ \/ /\ content[f] \in objects
           /\ Goto(a, OnDuplicate(f))
        \/ /\ content[f] \notin objects
           /\ a \in Workers \/ f \in staging
           /\ Goto(a, "move")
        \/ /\ content[f] \notin objects
           /\ a \in Processes /\ f \notin staging
           /\ Goto(a, "markFailed")
     /\ UNCHANGED <<tableVars, fileVars, mode, todo, workerVars, faults, crashes>>

(* Path.replace raises when another publisher has moved the file.          *)
MoveFile(a, r) ==
  LET f == entry[r].source
  IN /\ pc[a] = "move" /\ IsNext(a, r)
     /\ \/ /\ f \in staging
           /\ staging' = staging \ {f}
           /\ objects' = objects \cup {content[f]}
           /\ Goto(a, "markPublished")
        \/ /\ f \notin staging
           /\ Goto(a, "markFailed")
           /\ UNCHANGED <<staging, objects>>
     /\ UNCHANGED <<tableVars, content, manifests, mode, todo, workerVars, faults, crashes>>

(* Path.unlink raises likewise.                                            *)
DropFile(a, r) ==
  LET f == entry[r].source
  IN /\ pc[a] = "drop" /\ IsNext(a, r)
     /\ staging' = staging \ {f}
     /\ Goto(a, IF f \in staging THEN "markPublished" ELSE "markFailed")
     /\ UNCHANGED <<tableVars, content, objects, manifests, mode, todo, workerVars,
                    faults, crashes>>

(* The manifest is written aside and moved over the file of its run, which *)
(* nothing can prevent but a fault.                                        *)
WriteManifest(a, r) ==
  /\ pc[a] = "next" /\ IsNext(a, r)
  /\ entry[r].kind = "manifest"
  /\ manifests' = manifests \cup {r}
  /\ Goto(a, "markPublished")
  /\ UNCHANGED <<tableVars, staging, content, objects, mode, todo, workerVars,
                 faults, crashes>>

\* Variant: the error of the file operation is swallowed.
FileFaultIgnored(a, r) ==
  /\ faults < MaxFaults
  /\ faults' = faults + 1
  /\ pc[a] \in {"next", "move", "drop"} /\ IsNext(a, r)
  /\ Goto(a, "markPublished")
  /\ UNCHANGED <<tableVars, fileVars, mode, todo, workerVars, crashes>>

(* The file operation raises for a reason of its own.                      *)
FileFault(a, r) ==
  /\ faults < MaxFaults
  /\ faults' = faults + 1
  /\ pc[a] \in {"next", "move", "drop"} /\ IsNext(a, r)
  /\ Goto(a, "markFailed")
  /\ UNCHANGED <<tableVars, fileVars, mode, todo, workerVars, crashes>>

MarkPublished(a, r) ==
  /\ pc[a] = "markPublished" /\ IsNext(a, r)
  /\ state' = [state EXCEPT ![r] = "published"]
  /\ Published(a, r)
  /\ UNCHANGED <<rows, entry, runs, status, fileVars, mode, run, faults, crashes>>

(* mark_failed does not look at the state it overwrites.                   *)
MarkFailed(a, r) ==
  /\ pc[a] = "markFailed" /\ IsNext(a, r)
  /\ state' = [state EXCEPT ![r] = "failed"]
  /\ Raised(a, r)
  /\ UNCHANGED <<rows, entry, runs, status, fileVars, mode, run, faults, crashes>>

(* The marking transaction raises: the row stays as it is.                 *)
MarkFault(a, r) ==
  /\ faults < MaxFaults
  /\ faults' = faults + 1
  /\ pc[a] \in {"markPublished", "markFailed"} /\ IsNext(a, r)
  /\ Raised(a, r)
  /\ UNCHANGED <<tableVars, fileVars, mode, run, crashes>>

Publish(a) ==
  \E r \in Rows :
    \/ LookForObject(a, r)
    \/ MoveFile(a, r)
    \/ DropFile(a, r)
    \/ WriteManifest(a, r)
    \/ FileFault(a, r)
    \/ MarkPublished(a, r)
    \/ MarkFailed(a, r)
    \/ MarkFault(a, r)

-----------------------------------------------------------------------------
(* Processes.                                                              *)

\* Variant: gc_staging is called when the project is opened.
StartClean(p) ==
  /\ mode[p] = "down"
  /\ mode' = [mode EXCEPT ![p] = "starting"]
  /\ staging' = {}
  /\ UNCHANGED <<tableVars, content, objects, manifests, todo, pc, workerVars,
                 faults, crashes>>

Start(p) ==
  /\ mode[p] = "down"
  /\ mode' = [mode EXCEPT ![p] = "starting"]
  /\ UNCHANGED <<tableVars, fileVars, todo, pc, workerVars, faults, crashes>>

Unfinished(r) == state[r] \in {"pending", "failed"}

\* Variant: rows whose publication was tried before are not listed.
ListedUntried ==
  LET untried == {r \in Rows : state[r] = "pending"}
  IN {r \in untried : Cardinality({s \in untried : s <= r}) <= Limit}

(* PublicationRepo.list_pending.                                           *)
Listed ==
  LET unfinished == {r \in Rows : Unfinished(r)}
  IN {r \in unfinished : Cardinality({s \in unfinished : s <= r}) <= Limit}

ListPending(p) ==
  /\ mode[p] = "starting"
  /\ mode' = [mode EXCEPT ![p] = "repairing"]
  /\ todo' = [todo EXCEPT ![p] = Listed]
  /\ UNCHANGED <<tableVars, fileVars, pc, workerVars, faults, crashes>>

(* A project whose rows cannot be read is skipped.                         *)
ListFault(p) ==
  /\ faults < MaxFaults
  /\ faults' = faults + 1
  /\ mode[p] = "starting"
  /\ mode' = [mode EXCEPT ![p] = "repairing"]
  /\ UNCHANGED <<tableVars, fileVars, todo, pc, workerVars, crashes>>

Serve(p) ==
  /\ mode[p] = "repairing" /\ Idle(p)
  /\ mode' = [mode EXCEPT ![p] = "serving"]
  /\ UNCHANGED <<tableVars, fileVars, todo, pc, workerVars, faults, crashes>>

(* The process is gone, with everything its threads had in memory.         *)
RunsIn(a, p) == a = p \/ (a \in Workers /\ HostOf[a] = p)

Crash(p) ==
  /\ mode[p] # "down"
  /\ crashes < MaxCrashes
  /\ crashes' = crashes + 1
  /\ mode' = [mode EXCEPT ![p] = "down"]
  /\ todo' = [a \in Publishers |-> IF RunsIn(a, p) THEN {} ELSE todo[a]]
  /\ pc' = [a \in Publishers |-> IF RunsIn(a, p) THEN "next" ELSE pc[a]]
  /\ run' = [w \in Workers |-> IF RunsIn(w, p) THEN 0 ELSE run[w]]
  /\ failed' = [w \in Workers |-> failed[w] /\ ~RunsIn(w, p)]
  /\ UNCHANGED <<tableVars, fileVars, faults>>

-----------------------------------------------------------------------------
(* The specification.                                                      *)

Next ==
  \/ \E p \in Processes : \/ Start(p) \/ ListPending(p) \/ ListFault(p)
                          \/ Serve(p) \/ Crash(p)
  \/ \E w \in Workers : TakeRun(w) \/ PersistStep(w) \/ EndRun(w) \/ LeaveRun(w)
  \/ \E a \in Publishers : Publish(a)

Spec == Init /\ [][Next]_vars

(* A process that is down is started again, and its threads run.           *)
Fairness ==
  /\ \A p \in Processes : WF_vars(Start(p) \/ ListPending(p) \/ Serve(p))
  /\ \A a \in Publishers : WF_vars(Publish(a))

FairSpec == Spec /\ Fairness

-----------------------------------------------------------------------------
(* Properties.                                                             *)

IsArtifact(r) == entry[r].kind = "artifact"
ObjectExists(r) == content[entry[r].source] \in objects
OnDisk(r) == IF IsArtifact(r) THEN ObjectExists(r) ELSE r \in manifests

(* The bytes of every registered artifact are somewhere, under its hash or *)
(* where its row says they were staged, whichever publisher crashed, raced *)
(* or discarded a duplicate: reconciliation always has something to use.   *)
NothingLost ==
  \A r \in 1..rows : IsArtifact(r) => ObjectExists(r) \/ entry[r].source \in staging

(* A row says published only of a file that is in place.                   *)
PublishedIsOnDisk ==
  \A r \in Rows : state[r] = "published" => OnDisk(r)

(* All outputs of a run that succeeded can be read, although its rows may   *)
(* have been retried, raced for and marked failed by another process.       *)
SuccessIsOnDisk ==
  \A r \in 1..rows :
    IsArtifact(r) /\ status[entry[r].run] = "succeeded" => ObjectExists(r)

(* Within one process publishers do not disturb each other, even where     *)
(* outputs share bytes or one staged file: a publication fails only because *)
(* an operation of the file system or the database did.                    *)
FailureNeedsAFault ==
  (\E r \in Rows : state[r] = "failed") => faults > 0

(* Publishing is idempotent: a row that is published stays published,      *)
(* whoever else tries to publish it.                                       *)
PublishedStays ==
  [][\A r \in Rows : state[r] = "published" => state'[r] = "published"]_vars

(* "a crash between a DB commit and its filesystem side effect is          *)
(* repaired": once faults have ceased, the next complete start publishes   *)
(* whatever crashes and errors have left, provided the list has room.      *)
EveryStartRepairs ==
  \A r \in Rows :
    (faults = MaxFaults /\ Unfinished(r) /\ \A p \in Processes : mode[p] = "down")
      ~> state[r] = "published"

=============================================================================
