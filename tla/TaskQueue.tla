----------------------------- MODULE TaskQueue -----------------------------
(***************************************************************************)
(* The global task queue of the backend: GlobalTaskQueueManager            *)
(* (backend/task_queue_manager.py), _process_global_queued_tasks,          *)
(* BuildTaskManager and ExportTaskManager (backend/handlers.py), and the   *)
(* current_task_id binding of PipelineManager.                             *)
(*                                                                         *)
(* Every row of the tables Task and ExportTask is a member of Tasks.  The  *)
(* threads that make requests (Callers) are the event loop of the HTTP     *)
(* server, whose handlers call the managers synchronously and therefore    *)
(* one after another, the cron scheduler, and the hourly cleaners; the     *)
(* threads that execute a started row are the Workers.  All of them call   *)
(* the dispatcher: it reads the pending rows, then takes them in order of  *)
(* creation, and starts a row under the queue lock when the concurrency    *)
(* limit of its team and the one-at-a-time rule of its pipeline allow it.  *)
(*                                                                         *)
(* One step is one committed database transaction or one read on which a   *)
(* decision is taken; everything between a read and the write that uses it *)
(* can be interleaved with the other threads.                              *)
(***************************************************************************)
EXTENDS Naturals, FiniteSets

CONSTANTS
    Tasks,      \* identities of rows of Task and ExportTask
    Callers,    \* threads that make requests
    Workers,    \* threads that execute started rows; bounds the model
    Teams,      \* teams that own rows
    Pipelines,  \* pipelines
    None,       \* no team, no pipeline, no task, no thread
    Kind,       \* [Tasks -> Kinds]: task_type
    Team,       \* [Tasks -> Teams \cup {None}]: team_id
    Pipeline,   \* [Tasks -> Pipelines \cup {None}]: pipeline_id
    Limit,      \* [Teams \cup {None} -> 1..10]: get_max_concurrent(team)
    Duties      \* [Callers -> SUBSET Ops]: what each of them does

Kinds  == {"source", "upload", "deploy", "export"}
Builds == {"source", "upload"}
Ops    == {"create", "schedule", "stop", "retry", "delete", "expire"}
Threads == Callers \cup Workers
Scopes  == Teams \cup {None}

ASSUME ConstantsAssumption ==
    /\ IsFiniteSet(Tasks)
    /\ Callers \cap Workers = {}
    /\ None \notin Tasks \cup Threads \cup Teams \cup Pipelines
    /\ Kind \in [Tasks -> Kinds]
    /\ Team \in [Tasks -> Teams \cup {None}]
    /\ Pipeline \in [Tasks -> Pipelines \cup {None}]
    /\ Limit \in [Scopes -> 1..10]
    /\ Duties \in [Callers -> SUBSET Ops]
    /\ \A t \in Tasks : Kind[t] = "export" => Pipeline[t] = None

VARIABLES
    status,     \* the status column; "absent" when the row does not exist
    before,     \* <<u, t>>: row u was created before row t
    staged,     \* upload rows whose staging path is merged in task_config
    bound,      \* Pipeline.current_task_id
    lock,       \* holder of GlobalTaskQueueManager._lock
    revived,    \* history: rows set to running by a worker when they were not
    pc,         \* where each thread is
    job,        \* the row a thread works for
    cur,        \* the row handled by the function the thread is in
    cands,      \* candidates the dispatcher has read and not tried yet
    again       \* the outcome a deployment has still to write a second time

rows   == <<status, before, staged, bound, revived>>
locals == <<job, cur, cands, again>>
vars   == <<status, before, staged, bound, lock, revived, pc, job, cur, cands, again>>

Terminal == {"completed", "failed", "stopped"}
Statuses == {"absent", "pending", "running"} \cup Terminal
Places   == {"idle", "stage", "scan", "pick", "admitted", "bind", "remark",
             "spawn", "mark", "work", "again", "look", "unbind", "record",
             "stopPending", "stopRunning", "retry", "delete"}

TypeOK ==
    /\ status \in [Tasks -> Statuses]
    /\ before \subseteq Tasks \X Tasks
    /\ staged \subseteq Tasks
    /\ bound \in [Pipelines -> Tasks \cup {None}]
    /\ lock \in Threads \cup {None}
    /\ revived \subseteq Tasks
    /\ pc \in [Threads -> Places]
    /\ job \in [Threads -> Tasks \cup {None}]
    /\ cur \in [Threads -> Tasks \cup {None}]
    /\ cands \in [Threads -> SUBSET Tasks]
    /\ again \in [Threads -> {"completed", "failed"} \cup {None}]

Init ==
    /\ status = [t \in Tasks |-> "absent"]
    /\ before = {}
    /\ staged = {}
    /\ bound = [p \in Pipelines |-> None]
    /\ lock = None
    /\ revived = {}
    /\ pc = [th \in Threads |-> "idle"]
    /\ job = [th \in Threads |-> None]
    /\ cur = [th \in Threads |-> None]
    /\ cands = [th \in Threads |-> {}]
    /\ again = [th \in Threads |-> None]

----------------------------------------------------------------------------
(* What the dispatcher reads.                                              *)

Existing == {t \in Tasks : status[t] # "absent"}
Pending  == {t \in Tasks : status[t] = "pending"}
Running  == {t \in Tasks : status[t] = "running"}

\* get_running_count: without a team every running row counts.
Counted(s) == {t \in Tasks : s = None \/ Team[t] = s}

\* get_pipeline_running_count(pipeline) > 0
PipelineBusy(p) == p # None /\ \E u \in Running : Pipeline[u] = p

\* can_start with > for >=, and without the check of the pipeline.
CanStartOffByOne(t) ==
    /\ Cardinality(Running \cap Counted(Team[t])) <= Limit[Team[t]]
    /\ ~PipelineBusy(Pipeline[t])

CanStartAnyPipeline(t) ==
    Cardinality(Running \cap Counted(Team[t])) < Limit[Team[t]]

\* can_start
CanStart(t) ==
    /\ Cardinality(Running \cap Counted(Team[t])) < Limit[Team[t]]
    /\ ~PipelineBusy(Pipeline[t])

\* The pipeline of t names it as its current task.
Binding(t) == Pipeline[t] # None /\ bound[Pipeline[t]] = t

First(S, t) == t \in S /\ \A u \in S : <<u, t>> \notin before

----------------------------------------------------------------------------
(* Bounds of the model.  A worker thread must be free for every row that   *)
(* may still be started (WorkerRoom), and a row identity is used again     *)
(* only when nothing refers to it any more: the code draws a fresh uuid.   *)

Spawning == {"bind", "remark", "spawn"}

WorkerRoom ==
      Cardinality(Pending)
    + Cardinality({w \in Workers : pc[w] # "idle"})
    + Cardinality({th \in Threads : pc[th] \in Spawning \cup {"retry"}})
    < Cardinality(Workers)

Unreferenced(t) ==
    /\ \A th \in Threads : t \notin {job[th], cur[th]} \cup cands[th]
    /\ \A p \in Pipelines : bound[p] # t

----------------------------------------------------------------------------
(* Writes shared by the handlers.                                          *)

SetStatus(t, s) ==
    /\ status' = [status EXCEPT ![t] = s]
    /\ revived' = revived \ {t}

\* update_task_status(t, "running"): whatever the status was, unless the row
\* is gone.
MarkRunning(t) ==
    IF status[t] = "absent"
    THEN UNCHANGED <<status, revived>>
    ELSE /\ status' = [status EXCEPT ![t] = "running"]
         /\ revived' = IF status[t] = "running" THEN revived ELSE revived \cup {t}

GoTo(th, place) == pc' = [pc EXCEPT ![th] = place]

\* _process_global_queued_tasks is called.
Dispatch(th) == GoTo(th, "scan") /\ cur' = [cur EXCEPT ![th] = None]

Rest(th) ==
    /\ GoTo(th, "idle")
    /\ job' = [job EXCEPT ![th] = None]
    /\ cur' = [cur EXCEPT ![th] = None]
    /\ cands' = [cands EXCEPT ![th] = {}]
    /\ again' = [again EXCEPT ![th] = None]

\* A handler that forgets to pass the slot on.
ReleaseSilently(th, t, second) == Rest(th)

\* After the commit of a terminal status the slot is passed on; an export has
\* no pipeline to release first.
Release(th, t, second) ==
    /\ again' = [again EXCEPT ![th] = second]
    /\ job' = [job EXCEPT ![th] = IF second = None THEN None ELSE t]
    /\ \/ Kind[t] = "export" /\ Dispatch(th)
       \/ /\ Kind[t] # "export"
          /\ GoTo(th, "look")
          /\ cur' = [cur EXCEPT ![th] = t]
    /\ UNCHANGED cands

\* The dispatcher returns to the handler that called it: the request or the
\* worker ends, or the thread has more to do for its row.  A deployment writes
\* its outcome again, a trigger of a pipeline records the row it created.
Return(th) ==
    \/ /\ job[th] = None
       /\ Rest(th)
    \/ /\ job[th] # None
       /\ GoTo(th, IF again[th] # None THEN "again" ELSE "record")
       /\ cur' = [cur EXCEPT ![th] = None]
       /\ cands' = [cands EXCEPT ![th] = {}]
       /\ UNCHANGED <<job, again>>

\* The dispatcher was called from inside a starter: the starter returns True,
\* the lock is released and the outer dispatcher reads the queue again.
ReturnNested(th) ==
    /\ lock' = None
    /\ Dispatch(th)
    /\ cands' = [cands EXCEPT ![th] = {}]
    /\ UNCHANGED <<job, again>>

----------------------------------------------------------------------------
(* The dispatcher: _process_global_queued_tasks.                           *)

\* One pass over the tables: the candidates are the pending rows.
Scan(th) ==
    /\ pc[th] = "scan"
    /\ \/ /\ Pending # {}
          /\ cands' = [cands EXCEPT ![th] = Pending]
          /\ GoTo(th, "pick")
          /\ UNCHANGED <<lock, job, cur, again>>
       \/ /\ Pending = {}
          /\ lock # th
          /\ Return(th)
          /\ UNCHANGED lock
       \/ /\ Pending = {}
          /\ lock = th
          /\ ReturnNested(th)
    /\ UNCHANGED rows

\* The candidates that are left are tried next; after the last of them the
\* dispatcher returns.
NextCandidate(th, rest) ==
    \/ /\ rest # {}
       /\ cands' = [cands EXCEPT ![th] = rest]
       /\ cur' = [cur EXCEPT ![th] = None]
       /\ GoTo(th, "pick")
       /\ UNCHANGED <<job, again>>
    \/ /\ rest = {}
       /\ Return(th)

\* start_if_slot_available: with the lock held, can_start decides.  A thread
\* that already holds the lock waits here for itself.
Pick(th) ==
    /\ pc[th] = "pick"
    /\ lock = None
    /\ \E t \in cands[th] :
          /\ First(cands[th], t)
          /\ \/ /\ CanStart(t)
                /\ lock' = th
                /\ cur' = [cur EXCEPT ![th] = t]
                /\ cands' = [cands EXCEPT ![th] = @ \ {t}]
                /\ GoTo(th, "admitted")
                /\ UNCHANGED <<job, again>>
             \/ /\ ~CanStart(t)
                /\ NextCandidate(th, cands[th] \ {t})
                /\ UNCHANGED lock
    /\ UNCHANGED rows

\* A starter that does not look whether the row is still pending.
CommenceUnchecked(th) ==
    /\ pc[th] = "admitted"
    /\ status[cur[th]] # "absent"
    /\ SetStatus(cur[th], "running")
    /\ GoTo(th, IF Kind[cur[th]] # "source" THEN "spawn" ELSE "remark")
    /\ UNCHANGED <<lock, locals, before, staged, bound>>

\* A starter that marks the row and then answers False.
CommenceOnly(th) ==
    /\ pc[th] = "admitted"
    /\ status[cur[th]] = "pending"
    /\ SetStatus(cur[th], "running")
    /\ lock' = None
    /\ NextCandidate(th, cands[th])
    /\ UNCHANGED <<before, staged, bound>>

\* start_pending_task, up to its first commit: the row is still pending and
\* becomes running, or the starter answers False and the lock is released.
Commence(th) ==
    /\ pc[th] = "admitted"
    /\ \/ /\ status[cur[th]] = "pending"
          /\ SetStatus(cur[th], "running")
          /\ GoTo(th, IF Kind[cur[th]] # "source" THEN "spawn"
                      ELSE IF Pipeline[cur[th]] = None THEN "remark" ELSE "bind")
          /\ UNCHANGED <<lock, locals>>
       \/ /\ status[cur[th]] # "pending"
          /\ lock' = None
          /\ NextCandidate(th, cands[th])
          /\ UNCHANGED <<status, revived>>
    /\ UNCHANGED <<before, staged, bound>>

\* PipelineManager.record_trigger
Bind(th) ==
    /\ pc[th] = "bind"
    /\ bound' = [bound EXCEPT ![Pipeline[cur[th]]] = cur[th]]
    /\ GoTo(th, "remark")
    /\ UNCHANGED <<status, before, staged, revived, lock, locals>>

\* _start_build_from_source_thread writes running once more, under the lock.
Remark(th) ==
    /\ pc[th] = "remark"
    /\ MarkRunning(cur[th])
    /\ GoTo(th, "spawn")
    /\ UNCHANGED <<before, staged, bound, lock, locals>>

\* The worker thread starts; the starter answers True, the lock is released
\* and the dispatcher reads the queue again.
StartWorker(th, w) ==
    /\ pc[w] = "idle"
    /\ pc' = [pc EXCEPT ![th] = "scan",
                        ![w] = IF Kind[cur[th]] = "deploy" THEN "work" ELSE "mark"]
    /\ job' = [job EXCEPT ![w] = cur[th]]
    /\ cur' = [cur EXCEPT ![th] = None]
    /\ cands' = [cands EXCEPT ![th] = {}]
    /\ lock' = None
    /\ UNCHANGED again
    /\ UNCHANGED rows

\* _start_build_upload_thread looks at the row and at the staged file first.
Spawn(th) ==
    /\ pc[th] = "spawn"
    /\ \/ /\ Kind[cur[th]] = "upload" =>
                 status[cur[th]] # "absent" /\ cur[th] \in staged
          /\ \E w \in Workers : StartWorker(th, w)
       \/ /\ Kind[cur[th]] = "upload"
          /\ status[cur[th]] = "absent"
          /\ ReturnNested(th)
          /\ UNCHANGED rows
       \/ /\ Kind[cur[th]] = "upload"
          /\ status[cur[th]] # "absent"
          /\ cur[th] \notin staged
          /\ SetStatus(cur[th], "failed")      \* and the lock is still held
          /\ GoTo(th, "look")
          /\ UNCHANGED <<before, staged, bound, lock, locals>>

----------------------------------------------------------------------------
(* update_task_status after its commit, and stop_task of a running row:    *)
(* the pipeline is released, then the queue is dispatched.                 *)

Look(th) ==
    /\ pc[th] = "look"
    /\ \/ Binding(cur[th]) /\ GoTo(th, "unbind") /\ UNCHANGED cur
       \/ ~Binding(cur[th]) /\ Dispatch(th)
    /\ UNCHANGED <<rows, lock, job, cands, again>>

Unbind(th) ==
    /\ pc[th] = "unbind"
    /\ bound' = [bound EXCEPT ![Pipeline[cur[th]]] = None]
    /\ Dispatch(th)
    /\ UNCHANGED <<status, before, staged, revived, lock, job, cands, again>>

----------------------------------------------------------------------------
(* The worker of a started row.                                            *)

\* When its thread begins, a build marks its row running again, and an export
\* a row it finds pending; an export whose row is stopped or gone ends.
Mark(w) ==
    /\ pc[w] = "mark"
    /\ \/ /\ Kind[job[w]] = "export" => status[job[w]] \notin {"stopped", "absent"}
          /\ IF Kind[job[w]] \in Builds \/ status[job[w]] = "pending"
             THEN MarkRunning(job[w])
             ELSE UNCHANGED <<status, revived>>
          /\ GoTo(w, "work")
          /\ UNCHANGED locals
       \/ /\ Kind[job[w]] = "export"
          /\ status[job[w]] \in {"stopped", "absent"}
          /\ Rest(w)
          /\ UNCHANGED <<status, revived>>
    /\ UNCHANGED <<before, staged, bound, lock>>

\* A worker that ends without an outcome.  An export does so when it finds its
\* row stopped or gone.  An upload build does so when it finds its row stopped,
\* and also when its template is missing, the build fails, the registry
\* reports an error, or there is no Docker: _build_task just returns.
Quit(w) ==
    /\ pc[w] = "work"
    /\ \/ Kind[job[w]] = "upload"
       \/ Kind[job[w]] = "export" /\ status[job[w]] \in {"stopped", "absent"}
    /\ Rest(w)
    /\ UNCHANGED <<rows, lock>>

\* update_task_status(t, outcome), _update_task_status for an export: the
\* outcome is written over whatever is there, then the slot is passed on.
\* When the row is gone nothing is dispatched.
WriteOutcome(w, outcome, second) ==
    /\ \/ /\ status[job[w]] = "absent"
          /\ Rest(w)
          /\ UNCHANGED <<status, revived>>
       \/ /\ status[job[w]] # "absent"
          /\ SetStatus(job[w], outcome)
          /\ Release(w, job[w], second)
    /\ UNCHANGED <<before, staged, bound, lock>>

\* A second write that takes the status it finds for the outcome.
SecondWriteReread(t, outcome) == {status[t]}

\* A deployment writes its outcome in execute_task_with_manager and again in
\* _execute_deploy_task_async; when it raises, it writes failed once.
SecondWrite(t, outcome) ==
    IF Kind[t] # "deploy" THEN {None}
    ELSE {outcome} \cup (IF outcome = "failed" THEN {None} ELSE {})

Finish(w) ==
    /\ pc[w] = "work"
    /\ \E outcome \in {"completed", "failed"} :
          \E second \in SecondWrite(job[w], outcome) :
             WriteOutcome(w, outcome, second)

FinishAgain(w) ==
    /\ pc[w] = "again"
    /\ WriteOutcome(w, again[w], None)

----------------------------------------------------------------------------
(* Requests.  stop, retry and delete read the row, decide, and commit in a *)
(* later step.                                                             *)

\* The server creates rows of any kind, the scheduler builds of pipelines.
MayCreate(c, t) ==
    \/ "create" \in Duties[c]
    \/ "schedule" \in Duties[c] /\ Kind[t] = "source" /\ Pipeline[t] # None

\* create_task: the row is committed as pending and the queue dispatched.  An
\* upload build saves its file in between; a trigger of a pipeline keeps the
\* row in mind, to record it when the dispatcher is back.
Create(c, t) ==
    /\ pc[c] = "idle"
    /\ MayCreate(c, t)
    /\ status[t] = "absent"
    /\ Unreferenced(t)
    /\ WorkerRoom
    /\ SetStatus(t, "pending")
    /\ before' = before \cup (Existing \X {t})
    /\ staged' = staged \ {t}
    /\ \/ /\ Kind[t] = "upload"
          /\ job' = [job EXCEPT ![c] = t]
          /\ GoTo(c, "stage")
          /\ UNCHANGED cur
       \/ /\ Kind[t] # "upload"
          /\ Dispatch(c)
          /\ UNCHANGED job
       \/ /\ Kind[t] = "source" /\ Pipeline[t] # None
          /\ Dispatch(c)
          /\ job' = [job EXCEPT ![c] = t]
    /\ UNCHANGED <<bound, lock, cands, again>>

\* record_trigger, called by the webhook, the run of a pipeline and the
\* scheduler after the row was created and the queue dispatched.
Record(c) ==
    /\ pc[c] = "record"
    /\ bound' = [bound EXCEPT ![Pipeline[job[c]]] = job[c]]
    /\ Rest(c)
    /\ UNCHANGED <<status, before, staged, revived, lock>>

\* _save_upload_staging and _merge_task_config
Stage(c) ==
    /\ pc[c] = "stage"
    /\ staged' = staged \cup {job[c]}
    /\ job' = [job EXCEPT ![c] = None]
    /\ Dispatch(c)
    /\ UNCHANGED <<status, before, bound, revived, lock, cands, again>>

\* What retry_deploy_task and ExportTaskManager.retry_task accept.
Retryable(t) ==
    \/ Kind[t] = "deploy" /\ status[t] \in Terminal
    \/ Kind[t] = "export" /\ status[t] \in {"failed", "stopped"}

Begin(c, t, place) ==
    /\ pc[c] = "idle"
    /\ job' = [job EXCEPT ![c] = t]
    /\ GoTo(c, place)
    /\ UNCHANGED <<rows, lock, cur, cands, again>>

RequestStop(c, t) ==
    /\ "stop" \in Duties[c]
    /\ \/ status[t] = "pending" /\ Begin(c, t, "stopPending")
       \/ status[t] = "running" /\ Begin(c, t, "stopRunning")

RequestRetry(c, t) ==
    /\ "retry" \in Duties[c]
    /\ Retryable(t)
    /\ WorkerRoom
    /\ Begin(c, t, "retry")

RequestDelete(c, t) ==
    /\ "delete" \in Duties[c]
    /\ status[t] \in Terminal
    /\ Begin(c, t, "delete")

\* cleanup_expired_tasks: the age alone decides, for an export also that it is
\* over.  A row that is days old may still wait or run; no handler is in the
\* middle of it.
Expire(c, t) ==
    /\ "expire" \in Duties[c]
    /\ status[t] # "absent"
    /\ Kind[t] = "export" => status[t] \in Terminal
    /\ \A th \in Threads : cur[th] # t /\ (job[th] = t => pc[th] = "work")
    /\ Begin(c, t, "delete")

\* The row disappeared between the read and the commit: the handler raises.
Gone(c) == status[job[c]] = "absent" /\ Rest(c) /\ UNCHANGED <<status, revived>>

\* Only the stop of a row read as running passes its slot on.
CommitStop(c) ==
    /\ pc[c] \in {"stopPending", "stopRunning"}
    /\ \/ Gone(c)
       \/ /\ status[job[c]] # "absent"
          /\ SetStatus(job[c], "stopped")
          /\ \/ pc[c] = "stopPending" /\ Rest(c)
             \/ pc[c] = "stopRunning" /\ Release(c, job[c], None)
    /\ UNCHANGED <<before, staged, bound, lock>>

CommitRetry(c) ==
    /\ pc[c] = "retry"
    /\ \/ Gone(c)
       \/ /\ status[job[c]] # "absent"
          /\ SetStatus(job[c], "pending")
          /\ job' = [job EXCEPT ![c] = None]
          /\ Dispatch(c)
          /\ UNCHANGED <<cands, again>>
    /\ UNCHANGED <<before, staged, bound, lock>>

CommitDelete(c) ==
    /\ pc[c] = "delete"
    /\ SetStatus(job[c], "absent")
    /\ before' = {e \in before : job[c] \notin {e[1], e[2]}}
    /\ Rest(c)
    /\ UNCHANGED <<staged, bound, lock>>

----------------------------------------------------------------------------

Dispatcher(th) ==
    \/ Scan(th) \/ Pick(th) \/ Commence(th) \/ Bind(th) \/ Remark(th) \/ Spawn(th)
    \/ Look(th) \/ Unbind(th)

Worker(w) == Mark(w) \/ Quit(w) \/ Finish(w) \/ FinishAgain(w)

Request(c, t) ==
    \/ Create(c, t) \/ RequestStop(c, t) \/ RequestRetry(c, t)
    \/ RequestDelete(c, t) \/ Expire(c, t)

Handler(c) == Stage(c) \/ Record(c) \/ CommitStop(c) \/ CommitRetry(c) \/ CommitDelete(c)

Next ==
    \/ \E th \in Threads : Dispatcher(th)
    \/ \E w \in Workers : Worker(w)
    \/ \E c \in Callers : Handler(c)
    \/ \E c \in Callers, t \in Tasks : Request(c, t)

Spec == Init /\ [][Next]_vars

----------------------------------------------------------------------------
(* Safety.                                                                 *)

\* Rows that hold a slot they were given by the dispatcher.
Admitted == Running \ revived

\* The rows of a team (or without one) that hold a slot never exceed its limit:
\* can_start and the write of running are one critical section.  Rows that a
\* worker wrote back to running are not counted (see SlotLimit).
AdmissionLimit ==
    \A s \in Scopes :
        Cardinality({t \in Admitted : Team[t] = s}) <= Limit[s]

\* At most one row of a pipeline holds a slot.
AdmissionSerial ==
    \A t, u \in Admitted :
        Pipeline[t] # None /\ Pipeline[t] = Pipeline[u] => t = u

\* t is in the hands of a thread that will write its outcome: the starter that
\* has not spawned its worker yet, or the worker.
Attended(t) ==
    \/ \E th \in Threads : pc[th] \in Spawning /\ cur[th] = t
    \/ \E w \in Workers : pc[w] \in {"mark", "work"} /\ job[w] = t

\* Every running row but an upload build is attended to: no slot is lost
\* whatever is stopped, retried or deleted meanwhile.
SlotHasWorker == \A t \in Running : Kind[t] # "upload" => Attended(t)

\* The same for every row: a task that has ended or failed gives its slot back
\* (update_task_status).  Upload builds do not (see Quit).
NoSlotLost == \A t \in Running : Attended(t)

\* A row is executed by at most one worker at a time.
OneWorkerPerTask ==
    \A v, w \in Workers :
        /\ v # w
        /\ pc[v] \in {"mark", "work"}
        /\ pc[w] \in {"mark", "work"}
        => job[v] # job[w]

\* No lost wake-up: when no thread is in the dispatcher, or on its way there
\* from something it has committed, no pending row could be started.
Quiet ==
    \A th \in Threads :
        pc[th] \notin Spawning \cup {"stage", "scan", "pick", "admitted", "look", "unbind"}

QueueNotStranded == Quiet => \A t \in Pending : ~CanStart(t)

\* The queue implements the allocation of team slots of TeamSlots.
Slots == INSTANCE TeamSlots WITH waiting <- Pending, active <- Admitted

ImplementsTeamSlots == Slots!Spec

\* The limit as the settings page states it: running rows of a team never
\* exceed its maximum.
SlotLimit ==
    \A s \in Scopes : Cardinality({t \in Running : Team[t] = s}) <= Limit[s]

\* No thread waits for a lock it holds itself.
NoSelfDeadlock == \A th \in Threads : ~(lock = th /\ pc[th] = "pick")

\* A stopped row stays stopped until a user retries or deletes it.
StopIsFinal ==
    [][\A t \in Tasks :
          status[t] = "stopped" /\ status'[t] # "stopped" =>
              status'[t] \in {"pending", "absent"}]_status

\* get_pipeline_running_task names a row that waits or runs, whenever no thread
\* is between a change of a row and the binding that goes with it.
BindingIsLive ==
    (Quiet /\ \A th \in Threads : pc[th] # "record") =>
        \A p \in Pipelines :
            bound[p] # None => status[bound[p]] \in {"pending", "running"}

\* The binding that is cleared is the one of the finished row.
UnbindsOwnTask ==
    [][\A th \in Threads :
          pc[th] = "unbind" /\ pc'[th] = "scan" =>
              bound[Pipeline[cur[th]]] \in {cur[th], None}]_vars

----------------------------------------------------------------------------
(* Liveness.                                                               *)

Fairness ==
    /\ \A th \in Threads : WF_vars(Dispatcher(th))
    /\ \A w \in Workers : WF_vars(Worker(w))
    /\ \A c \in Callers : WF_vars(Handler(c))

FairSpec == Spec /\ Fairness

\* Every row that waits is started, stopped or deleted in the end.
PendingServed == \A t \in Tasks : status[t] = "pending" ~> status[t] # "pending"

============================================================================
