--------------------------- MODULE ThreadDispatcher ---------------------------
(***************************************************************************)
(* ThreadRunDispatcher: a fixed pool of workers, an unbounded FIFO queue,  *)
(* and a lock around the bookkeeping.                                      *)
(*                                                                         *)
(* A step is what a thread does under the lock, or one operation on the    *)
(* queue, or one call out of the dispatcher.  dispatch puts its request on *)
(* the queue after it has released the lock, a worker takes the lock after *)
(* it has got a request, and shutdown holds the lock only at its ends.     *)
(***************************************************************************)
EXTENDS Integers, FiniteSets, SequencesExt

CONSTANTS
  Runs,            (* Run identifiers.                                      *)
  Workers,         (* The threads of the pool.                              *)
  MaxRemembered,   (* _MAX_REMEMBERED: capacity of each history.            *)
  MaxDispatches,   (* Requests admitted.  Bounds the model.                 *)
  Sentinel,        (* The None that ends a worker.                          *)
  Nothing          (* A worker that holds no request.                       *)

ASSUME DispatcherAssumption ==
  /\ IsFiniteSet(Workers) /\ Workers # {}
  /\ MaxRemembered \in Nat
  /\ MaxDispatches \in Nat
  /\ Sentinel \notin Runs
  /\ Nothing \notin Runs \cup {Sentinel}

VARIABLES
  admitting,       (* runs whose dispatch is between the lock and the queue *)
  queue,           (* _queue                                                *)
  active,          (* _active                                               *)
  queuedOrActive,  (* _queued_or_active                                     *)
  completed,       (* _completed, oldest first                              *)
  failed,          (* _failed, oldest first                                 *)
  worker,          (* where each worker is in _worker_loop                  *)
  holding,         (* its request                                           *)
  phase,           (* where shutdown is, "open" before its first call       *)
  toCancel,        (* the active runs shutdown has still to cancel          *)
  asked,           (* the runs it has asked to stop                         *)
  signals,         (* the sentinels it has put                              *)
  joined,          (* the workers whose join has returned                   *)
  drainFailed,     (* _drain_failed                                         *)
  dispatches       (* how many requests were admitted                       *)

bookVars == <<active, queuedOrActive, completed, failed>>
workerVars == <<worker, holding>>
shutdownVars == <<phase, toCancel, asked, signals, joined, drainFailed>>
vars == <<admitting, queue, bookVars, workerVars, shutdownVars, dispatches>>

WorkerState == {"waiting", "got", "executing", "succeeded", "raised", "noted", "exited"}
Phase == {"open", "cancelling", "signalling", "joining", "done"}

TypeOK ==
  /\ admitting \subseteq Runs
  /\ queue \in Seq(Runs \cup {Sentinel})
  /\ active \subseteq Runs
  /\ queuedOrActive \subseteq Runs
  /\ completed \in Seq(Runs) /\ Len(completed) <= MaxRemembered
  /\ failed \in Seq(Runs) /\ Len(failed) <= MaxRemembered
  /\ worker \in [Workers -> WorkerState]
  /\ holding \in [Workers -> Runs \cup {Nothing}]
  /\ phase \in Phase
  /\ toCancel \subseteq Runs
  /\ asked \subseteq Runs
  /\ signals \in 0..Cardinality(Workers)
  /\ joined \subseteq Workers
  /\ drainFailed \in BOOLEAN
  /\ dispatches \in 0..MaxDispatches

Init ==
  /\ admitting = {}
  /\ queue = <<>>
  /\ active = {}
  /\ queuedOrActive = {}
  /\ completed = <<>>
  /\ failed = <<>>
  /\ worker = [w \in Workers |-> "waiting"]
  /\ holding = [w \in Workers |-> Nothing]
  /\ phase = "open"
  /\ toCancel = {}
  /\ asked = {}
  /\ signals = 0
  /\ joined = {}
  /\ drainFailed = FALSE
  /\ dispatches = 0

(* _BoundedSet.discard: a history, oldest first, has no member twice.      *)
Without(history, r) ==
  IF Contains(history, r)
  THEN LET i == CHOOSE j \in 1..Len(history) : history[j] = r
       IN SubSeq(history, 1, i - 1) \o SubSeq(history, i + 1, Len(history))
  ELSE history

\* Variant: the history of the previous attempt is kept.
Unchanged(history, r) == history

(* What admission does to a history: the attempt before is forgotten.      *)
AtAdmission(history, r) == Without(history, r)

\* Variant: the oldest member is not evicted.
RememberAll(history, r) == Append(Without(history, r), r)

(* _BoundedSet.add: one member is added, so one at most is evicted.        *)
Remember(history, r) ==
  LET all == Append(Without(history, r), r)
  IN IF Len(all) > MaxRemembered THEN Tail(all) ELSE all

-----------------------------------------------------------------------------
(* dispatch.                                                               *)

\* Variant: a request that only waits is no duplicate.
MayAdmitQueued(r) == phase = "open" /\ r \notin active

MayAdmit(r) == phase = "open" /\ r \notin queuedOrActive

Admit(r) ==
  /\ dispatches < MaxDispatches
  /\ dispatches' = dispatches + 1
  /\ MayAdmit(r)
  /\ completed' = AtAdmission(completed, r)
  /\ failed' = AtAdmission(failed, r)
  /\ queuedOrActive' = queuedOrActive \cup {r}
  /\ admitting' = admitting \cup {r}
  /\ UNCHANGED <<queue, active, workerVars, shutdownVars>>

Put(r) ==
  /\ r \in admitting
  /\ admitting' = admitting \ {r}
  /\ queue' = Append(queue, r)
  /\ UNCHANGED <<bookVars, workerVars, shutdownVars, dispatches>>

-----------------------------------------------------------------------------
(* _worker_loop.                                                           *)

Step(w, from, to) ==
  /\ worker[w] = from
  /\ worker' = [worker EXCEPT ![w] = to]

Get(w) ==
  /\ queue # <<>>
  /\ queue' = Tail(queue)
  /\ \/ /\ Head(queue) = Sentinel
        /\ Step(w, "waiting", "exited")
        /\ UNCHANGED holding
     \/ /\ Head(queue) # Sentinel
        /\ Step(w, "waiting", "got")
        /\ holding' = [holding EXCEPT ![w] = Head(queue)]
  /\ UNCHANGED <<admitting, bookVars, shutdownVars, dispatches>>

\* Variant: a worker does not look at the flag again.
MayBeginAnyway == TRUE

MayBegin == phase = "open"

Begin(w) ==
  /\ MayBegin
  /\ Step(w, "got", "executing")
  /\ active' = active \cup {holding[w]}
  /\ UNCHANGED <<admitting, queue, queuedOrActive, completed, failed, holding,
                 shutdownVars, dispatches>>

(* Queued work is discarded at shutdown; the run waits in the database.    *)
Discard(w) ==
  /\ ~MayBegin
  /\ Step(w, "got", "waiting")
  /\ queuedOrActive' = queuedOrActive \ {holding[w]}
  /\ holding' = [holding EXCEPT ![w] = Nothing]
  /\ UNCHANGED <<admitting, queue, active, completed, failed, shutdownVars, dispatches>>

(* ExecuteRun returns or raises.                                           *)
Execute(w) ==
  /\ \/ Step(w, "executing", "succeeded")
     \/ Step(w, "executing", "raised")
  /\ UNCHANGED <<admitting, queue, bookVars, holding, shutdownVars, dispatches>>

Note(w) ==
  /\ \/ /\ Step(w, "succeeded", "noted")
        /\ completed' = Remember(completed, holding[w])
        /\ UNCHANGED failed
     \/ /\ Step(w, "raised", "noted")
        /\ failed' = Remember(failed, holding[w])
        /\ UNCHANGED completed
  /\ UNCHANGED <<admitting, queue, active, queuedOrActive, holding, shutdownVars, dispatches>>

\* Variant: the exception of a run ends its worker.
ReleaseOrDie(w) ==
  /\ \/ Step(w, "noted", "waiting") /\ ~Contains(failed, holding[w])
     \/ Step(w, "noted", "exited") /\ Contains(failed, holding[w])
  /\ active' = active \ {holding[w]}
  /\ queuedOrActive' = queuedOrActive \ {holding[w]}
  /\ holding' = [holding EXCEPT ![w] = Nothing]
  /\ UNCHANGED <<admitting, queue, completed, failed, shutdownVars, dispatches>>

Release(w) ==
  /\ Step(w, "noted", "waiting")
  /\ active' = active \ {holding[w]}
  /\ queuedOrActive' = queuedOrActive \ {holding[w]}
  /\ holding' = [holding EXCEPT ![w] = Nothing]
  /\ UNCHANGED <<admitting, queue, completed, failed, shutdownVars, dispatches>>

Work(w) ==
  Get(w) \/ Begin(w) \/ Discard(w) \/ Execute(w) \/ Note(w) \/ Release(w)

-----------------------------------------------------------------------------
(* shutdown.  A later call finds the flag set and returns.                 *)

Close ==
  /\ phase = "open"
  /\ phase' = "cancelling"
  /\ toCancel' = active
  /\ UNCHANGED <<admitting, queue, bookVars, workerVars, asked, signals, joined,
                 drainFailed, dispatches>>

(* An exception of cancel_run is suppressed.                               *)
AskToStop(r) ==
  /\ phase = "cancelling"
  /\ r \in toCancel
  /\ toCancel' = toCancel \ {r}
  /\ asked' = asked \cup {r}
  /\ UNCHANGED <<admitting, queue, bookVars, workerVars, phase, signals, joined,
                 drainFailed, dispatches>>

AllAsked ==
  /\ phase = "cancelling" /\ toCancel = {}
  /\ phase' = "signalling"
  /\ UNCHANGED <<admitting, queue, bookVars, workerVars, toCancel, asked, signals,
                 joined, drainFailed, dispatches>>

\* Variant: one sentinel for the whole pool.
OneSentinel == 1

SentinelsNeeded == Cardinality(Workers)

Signal ==
  /\ phase = "signalling"
  /\ signals < SentinelsNeeded
  /\ signals' = signals + 1
  /\ queue' = Append(queue, Sentinel)
  /\ UNCHANGED <<admitting, bookVars, workerVars, phase, toCancel, asked, joined,
                 drainFailed, dispatches>>

AllSignalled ==
  /\ phase = "signalling" /\ signals = SentinelsNeeded
  /\ phase' = "joining"
  /\ UNCHANGED <<admitting, queue, bookVars, workerVars, toCancel, asked, signals,
                 joined, drainFailed, dispatches>>

(* A join returns when its worker has exited, or when its time is over.     *)
(* The workers are joined one after the other; in which order does not      *)
(* matter.                                                                  *)
Join(w) ==
  /\ phase = "joining"
  /\ w \notin joined
  /\ joined' = joined \cup {w}
  /\ UNCHANGED <<admitting, queue, bookVars, workerVars, phase, toCancel, asked,
                 signals, drainFailed, dispatches>>

\* Variant: the runs that were active when the shutdown began are looked at.
StillToCancel == toCancel # {}

StillActive == active # {}

Report ==
  /\ phase = "joining" /\ joined = Workers
  /\ phase' = "done"
  /\ drainFailed' = StillActive
  /\ UNCHANGED <<admitting, queue, bookVars, workerVars, toCancel, asked, signals,
                 joined, dispatches>>

ShutDown ==
  \/ \E r \in Runs : AskToStop(r)
  \/ AllAsked \/ Signal \/ AllSignalled
  \/ \E w \in Workers : Join(w)
  \/ Report

-----------------------------------------------------------------------------
(* The specification.                                                      *)

Next ==
  \/ \E r \in Runs : Admit(r) \/ Put(r)
  \/ \E w \in Workers : Work(w)
  \/ Close \/ ShutDown

Spec == Init /\ [][Next]_vars

(* Threads run: a dispatch under way reaches the queue, a worker goes on   *)
(* (the run it executes ends), and so does a shutdown that has begun.      *)
Fairness ==
  /\ \A r \in Runs : WF_vars(Put(r))
  /\ \A w \in Workers : WF_vars(Work(w))
  /\ WF_vars(ShutDown)

FairSpec == Spec /\ Fairness

-----------------------------------------------------------------------------
(* Properties.                                                             *)

(* get_status.                                                             *)
Status(r) ==
  IF r \in active THEN "running"
  ELSE IF Contains(completed, r) THEN "completed"
  ELSE IF Contains(failed, r) THEN "failed"
  ELSE IF r \in queuedOrActive THEN "queued"
  ELSE "unknown"

Executes(w) == worker[w] \in {"executing", "succeeded", "raised", "noted"}

(* A run that is admitted is in one place, on its way to the queue, in it, *)
(* or in the hands of one worker, until it is released or discarded: it is *)
(* never lost inside the dispatcher and never executed by two workers.     *)
EachRunInOnePlace ==
  /\ \A r \in Runs :
       r \in queuedOrActive
         <=> r \in admitting \/ Contains(queue, r) \/ \E w \in Workers : holding[w] = r
  /\ \A r \in admitting : ~Contains(queue, r)
  /\ \A w \in Workers : holding[w] \in Runs =>
       holding[w] \notin admitting /\ ~Contains(queue, holding[w])
  /\ \A v, w \in Workers : v # w /\ holding[v] = holding[w] => holding[v] = Nothing
  /\ \A i, j \in 1..Len(queue) : i # j /\ queue[i] = queue[j] => queue[i] = Sentinel

(* Once shutdown has gone through the active runs, every run that still    *)
(* executes was asked to stop: none has slipped in behind the snapshot.    *)
RunningIsAsked ==
  phase \in {"signalling", "joining", "done"} =>
    \A w \in Workers : Executes(w) => holding[w] \in asked

(* A drain that is not reported as failed has left no run executing, now   *)
(* or later.                                                               *)
DrainIsReported ==
  phase = "done" /\ ~drainFailed => \A w \in Workers : ~Executes(w)

(* What get_status answers follows DispatcherContract, whatever histories  *)
(* overflow, callbacks raise and threads race for the lock.                *)
Contract == INSTANCE DispatcherContract WITH
  MaxWorkers <- Cardinality(Workers),
  status <- [r \in Runs |-> Status(r)],
  open <- phase = "open"

ImplementsContract == Contract!Spec

(* An admitted request is executed unless the dispatcher is shut down, in  *)
(* particular when the runs before it raise.                               *)
EveryRequestIsTaken ==
  \A r \in Runs : Status(r) = "queued" ~> (Status(r) # "queued" \/ phase # "open")

(* A shutdown ends every worker, although requests may reach the queue in  *)
(* front of, between and behind its sentinels.                             *)
WorkersExit ==
  (phase # "open") ~> (\A w \in Workers : worker[w] = "exited")

=============================================================================
