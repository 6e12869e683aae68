------------------------------ MODULE Migration ------------------------------
(***************************************************************************)
(* Image migrations and the team approvals that gate them:                 *)
(* MigrationTaskManager (backend/migration_manager.py), TeamApprovalManager *)
(* (backend/team_approval_manager.py) and their routes.                    *)
(*                                                                         *)
(* A migration writes an image to a registry.  When the registry has       *)
(* credentials and the creator of the migration is no administrator of the *)
(* team, a request must be approved first.  The routes run one after the   *)
(* other in the event loop (server); the cron scheduler, the workers and   *)
(* the dispatcher of the queue run beside it, and the process may crash    *)
(* between any two transactions.  The queue is used as TeamSlots promises: *)
(* one dispatcher at a time starts a pending row when a slot is free.  Its *)
(* lock does not keep the routes out, which may edit, stop, bind or delete *)
(* the row between its check, its commit and the worker's reading of it.   *)
(***************************************************************************)
EXTENDS Naturals, FiniteSets

CONSTANTS
    Tasks,      \* identities of rows of MigrationTask
    Requests,   \* identities of rows of TeamApprovalRequest
    Workers,    \* threads of _run_migration
    Users,      \* members of the team
    Admins,     \* its owner and administrators
    Limit,      \* concurrency limit of the team
    MaxCrashes, \* bound: crashes of the process
    None

ASSUME MigrationAssumption ==
    /\ IsFiniteSet(Tasks)
    /\ Admins \subseteq Users
    /\ Limit \in 1..10
    /\ MaxCrashes \in Nat
    /\ None \notin Tasks \cup Requests \cup Workers \cup Users

VARIABLES
    status,     \* MigrationTask.status; "absent" when there is no row
    last,       \* last_run_status
    sched,      \* schedule_enabled with a cron expression
    creator,    \* created_by
    guarded,    \* tasks whose target registry has credentials
    approval,   \* approval_request_id
    req,        \* TeamApprovalRequest.status
    by,         \* requested_by
    result,     \* result["migration_task_id"]
    granted,    \* history: requests whose approval by a reviewer stands
    presumed,   \* history: requests a read has set to running before any review
    cutoff,     \* history: approvals a crash interrupted
    orphans,    \* history: rows that were running when the process crashed
    verdict,    \* history: what the last check for a start found, or an edit after it
    server,     \* the event loop: [at, task, request]
    cron,       \* the scheduler thread: [at, task]
    starter,    \* the dispatcher in start_pending_task: [at, task]
    worker,     \* each _run_migration thread: [at, task, ok]
    crashes

tables  == <<status, last, sched, creator, guarded, approval>>
reviews == <<req, by, result, granted, presumed>>
beside  == <<cron, starter, worker>>
threads == <<server, beside>>
faults  == <<cutoff, orphans, verdict, crashes>>
vars    == <<tables, reviews, threads, faults>>

Statuses == {"absent", "idle", "pending", "running", "stopped", "failed"}
Terminal == {"completed", "failed", "rejected"}
Open     == {"pending", "approved", "running"}
Decided  == {"absent"} \cup Open \cup Terminal
Places   == {"idle", "bind", "refile", "rebind", "result", "read", "execute", "queue",
             "approve", "grant", "save", "stop", "delete", "edit"}

TypeOK ==
    /\ status \in [Tasks -> Statuses]
    /\ last \in [Tasks -> {"none", "completed", "failed"}]
    /\ sched \in [Tasks -> BOOLEAN]
    /\ creator \in [Tasks -> Users \cup {None}]
    /\ guarded \in SUBSET Tasks
    /\ approval \in [Tasks -> Requests \cup {None}]
    /\ req \in [Requests -> Decided]
    /\ by \in [Requests -> Users \cup {None}]
    /\ result \in [Requests -> Tasks \cup {None}]
    /\ granted \in SUBSET Requests
    /\ presumed \in SUBSET Requests
    /\ cutoff \in SUBSET Requests
    /\ orphans \in SUBSET Tasks
    /\ server \in [at : Places, task : Tasks \cup {None}, request : Requests \cup {None}]
    /\ verdict \in [Tasks -> {"free", "reviewed", "edited"}]
    /\ cron \in [at : {"idle", "queue"}, task : Tasks \cup {None}]
    /\ starter \in [at : {"idle", "start", "refuse"}, task : Tasks \cup {None}]
    /\ worker \in [Workers -> [at : {"idle", "start", "run", "finish"},
                               task : Tasks \cup {None}, ok : BOOLEAN]]
    /\ crashes \in 0..MaxCrashes

Resting   == [at |-> "idle", task |-> None, request |-> None]
Sleeping  == [at |-> "idle", task |-> None]
NoWork    == [at |-> "idle", task |-> None, ok |-> FALSE]

Init ==
    /\ status = [t \in Tasks |-> "absent"]
    /\ last = [t \in Tasks |-> "none"]
    /\ sched = [t \in Tasks |-> FALSE]
    /\ creator = [t \in Tasks |-> None]
    /\ guarded = {}
    /\ approval = [t \in Tasks |-> None]
    /\ req = [r \in Requests |-> "absent"]
    /\ by = [r \in Requests |-> None]
    /\ result = [r \in Requests |-> None]
    /\ granted = {} /\ presumed = {} /\ cutoff = {} /\ orphans = {}
    /\ verdict = [t \in Tasks |-> "free"]
    /\ server = Resting
    /\ cron = Sleeping /\ starter = Sleeping
    /\ worker = [w \in Workers |-> NoWork]
    /\ crashes = 0

----------------------------------------------------------------------------
(* What the code asks of the tables.                                       *)

\* registry_write_requires_approval, for the user u and the target of t
WriteNeedsApproval(u, t) == t \in guarded /\ u \notin Admins

\* migration_task_requires_approval: it is the creator who counts
NeedsApproval(t) == WriteNeedsApproval(creator[t], t)

\* A request that is not decided yet is taken for approved.
AllowedOpen(t) == approval[t] # None /\ req[approval[t]] \in Open

\* _approval_allows_execution
Allowed(t) == approval[t] # None /\ req[approval[t]] \in {"approved", "running"}

Running == {t \in Tasks : status[t] = "running"}

\* Identities stand for fresh uuids.
FreshTask(t) ==
    /\ status[t] = "absent"
    /\ \A w \in Workers : worker[w].task # t
    /\ \A r \in Requests : result[r] # t
    /\ cron.task # t /\ starter.task # t

\* What the last run and the status of its migration say of the request r.
ExecutionOf(r) ==
    LET t == result[r] IN
    CASE last[t] = "completed" -> "completed"
      [] last[t] # "completed" /\ "failed" \in {status[t], last[t]} -> "failed"
      [] OTHER -> IF status[t] \in {"pending", "running"} \/ req[r] = "approved"
                  THEN "running" ELSE req[r]

Synced(r) == result[r] # None /\ status[result[r]] # "absent"

\* The status of the migration is taken over as it is.
SyncedToStatus(r) == IF req[r] \in Open /\ Synced(r) THEN status[result[r]] ELSE req[r]

\* A read that does not spare the requests that are over.
SyncedToAny(r) == IF Synced(r) THEN ExecutionOf(r) ELSE req[r]

\* _sync_execution_status: what reading the request r makes of it
SyncedTo(r) == IF req[r] \in Open /\ Synced(r) THEN ExecutionOf(r) ELSE req[r]

\* The requests R are read, and what they became is committed.
ReadAll(R) ==
    /\ req' = [r \in Requests |-> IF r \in R THEN SyncedTo(r) ELSE req[r]]
    /\ presumed' = presumed \cup {r \in R : req[r] = "pending" /\ SyncedTo(r) = "running"}

At(place, t, r) == server' = [at |-> place, task |-> t, request |-> r]
Done == server' = Resting

----------------------------------------------------------------------------
(* Routes that create migrations and requests.                             *)

PutTask(t, u, r, scheduled) ==
    /\ status' = [status EXCEPT ![t] = "idle"]
    /\ last' = [last EXCEPT ![t] = "none"]
    /\ sched' = [sched EXCEPT ![t] = scheduled]
    /\ creator' = [creator EXCEPT ![t] = u]
    /\ approval' = [approval EXCEPT ![t] = r]

\* create_migration_task and create_team_approval_request without an approval:
\* the write is free for this user, or nothing is executed yet.
CreateTask(u, t) ==
    /\ server.at = "idle"
    /\ FreshTask(t)
    /\ \E secured, scheduled, now \in BOOLEAN :
          /\ guarded' = IF secured THEN guarded \cup {t} ELSE guarded \ {t}
          /\ scheduled => u \in Admins
          /\ secured /\ u \notin Admins => ~now /\ ~scheduled
          /\ PutTask(t, u, None, scheduled)
          /\ IF now THEN At("execute", t, None) ELSE Done
    /\ UNCHANGED <<reviews, beside, faults>>

\* A request is filed by u; its migration is created, or bound, afterwards.
FileRequest(u, r, t, place) ==
    /\ req[r] = "absent"
    /\ req' = [req EXCEPT ![r] = "pending"]
    /\ by' = [by EXCEPT ![r] = u]
    /\ result' = [result EXCEPT ![r] = None]
    /\ At(place, t, r)
    /\ UNCHANGED <<granted, presumed>>

\* create_request, of a migration that is still to be created
SubmitRequest(u, r, t) ==
    /\ server.at = "idle"
    /\ u \notin Admins
    /\ FreshTask(t)
    /\ FileRequest(u, r, t, "bind")
    /\ UNCHANGED <<tables, beside, faults>>

\* _bind_image_approval_task: create_task with the request, ...
BindNew ==
    /\ server.at = "bind"
    /\ PutTask(server.task, by[server.request], server.request, FALSE)
    /\ guarded' = guarded \cup {server.task}
    /\ At("result", server.task, server.request)
    /\ UNCHANGED <<reviews, beside, faults>>

\* ... or the old binding is left in place, ...
BindNothing ==
    /\ server.at = "rebind"
    /\ At("result", server.task, server.request)
    /\ UNCHANGED <<tables, reviews, beside, faults>>

\* ... or bind_approval_request of the migration that is to run again,
BindExisting ==
    /\ server.at = "rebind"
    /\ approval' = [approval EXCEPT ![server.task] = server.request]
    /\ At("result", server.task, server.request)
    /\ UNCHANGED <<status, last, sched, creator, guarded, reviews, beside, faults>>

\* ... and set_request_result.
SetResult ==
    /\ server.at = "result"
    /\ result' = [result EXCEPT ![server.request] = server.task]
    /\ At("read", None, server.request)
    /\ UNCHANGED <<tables, req, by, granted, presumed, beside, faults>>

\* get_request, at the end of a route that answers with the request
AnswerRequest ==
    /\ server.at = "read"
    /\ ReadAll({server.request})
    /\ Done
    /\ UNCHANGED <<tables, by, result, granted, beside, faults>>

\* list_requests and get_request, called by any view of the requests
ReadRequests(R) ==
    /\ server.at = "idle"
    /\ ReadAll(R)
    /\ UNCHANGED <<tables, by, result, granted, threads, faults>>

----------------------------------------------------------------------------
(* Execution: execute_task reads and decides, and commits in a later step. *)

\* execute_migration_task: when this user needs an approval, the open request
\* is answered, or a new one filed for the same migration.
ExecuteRoute(u, t) ==
    /\ server.at = "idle"
    /\ status[t] # "absent"
    /\ \/ /\ ~WriteNeedsApproval(u, t)
          /\ At("execute", t, None)
          /\ UNCHANGED reviews
       \/ /\ WriteNeedsApproval(u, t)
          /\ approval[t] # None /\ SyncedTo(approval[t]) \in Open
          /\ ReadAll({approval[t]})
          /\ UNCHANGED <<by, result, granted, server>>
       \/ /\ WriteNeedsApproval(u, t)
          /\ approval[t] # None /\ SyncedTo(approval[t]) \in Terminal
          /\ "absent" \in {req[r] : r \in Requests}
          /\ ReadAll({approval[t]})
          /\ At("refile", t, None)
          /\ UNCHANGED <<by, result, granted>>
       \/ /\ WriteNeedsApproval(u, t)
          /\ approval[t] = None
          /\ \E r \in Requests : FileRequest(u, r, t, "rebind")
    /\ UNCHANGED <<tables, beside, faults>>

\* The request of the last run is over: a new one is filed.
FileAgain(u, r) ==
    /\ server.at = "refile"
    /\ WriteNeedsApproval(u, server.task)
    /\ FileRequest(u, r, server.task, "rebind")
    /\ UNCHANGED <<tables, beside, faults>>

\* A migration that needs an approval and was never bound to a request fails.
Refuse(t) == status' = [status EXCEPT ![t] = "failed"]

\* The migration may be queued by execute_task.
Executable(t) ==
    /\ status[t] \in {"idle", "stopped", "failed"}
    /\ NeedsApproval(t) => Allowed(t)

Unrequested(t) ==
    status[t] \in {"idle", "stopped", "failed"} /\ NeedsApproval(t) /\ approval[t] = None

ServerExecute ==
    /\ server.at = "execute"
    /\ \/ /\ Executable(server.task)
          /\ At("queue", server.task, None)
          /\ UNCHANGED tables
       \/ /\ Unrequested(server.task)
          /\ Refuse(server.task)
          /\ Done
          /\ UNCHANGED <<last, sched, creator, guarded, approval>>
       \/ /\ ~Executable(server.task) /\ ~Unrequested(server.task)
          /\ Done
          /\ UNCHANGED tables
    /\ UNCHANGED <<reviews, beside, faults>>

\* The commit of pending; the approval goes on, the route is done.
ServerQueue ==
    /\ server.at = "queue"
    /\ status' = [status EXCEPT ![server.task] = "pending"]
    /\ IF server.request = None THEN Done ELSE At("save", server.task, server.request)
    /\ UNCHANGED <<last, sched, creator, guarded, approval, reviews, beside, faults>>

\* check_scheduled_migrations: when the time has come
CronExecute(t) ==
    /\ cron.at = "idle"
    /\ sched[t]
    /\ \/ /\ Executable(t)
          /\ cron' = [at |-> "queue", task |-> t]
          /\ UNCHANGED tables
       \/ /\ Unrequested(t)
          /\ Refuse(t)
          /\ UNCHANGED <<last, sched, creator, guarded, approval, cron>>
    /\ UNCHANGED <<reviews, server, starter, worker, faults>>

CronQueue ==
    /\ cron.at = "queue"
    /\ IF status[cron.task] = "absent" THEN UNCHANGED status
       ELSE status' = [status EXCEPT ![cron.task] = "pending"]
    /\ cron' = Sleeping
    /\ UNCHANGED <<last, sched, creator, guarded, approval, reviews, server, starter, worker, faults>>

\* start_pending_task reads a pending row when the team has a slot, and looks at
\* the approval again.  A row whose request is not approved stays pending.
StartRead(t) ==
    /\ starter.at = "idle"
    /\ status[t] = "pending"
    /\ Cardinality(Running) < Limit
    /\ \/ /\ NeedsApproval(t) => Allowed(t)
          /\ starter' = [at |-> "start", task |-> t]
          /\ verdict' = [verdict EXCEPT ![t] =
                            IF approval[t] \in granted \cup presumed THEN "reviewed" ELSE "free"]
       \/ /\ NeedsApproval(t) /\ approval[t] = None
          /\ starter' = [at |-> "refuse", task |-> t]
          /\ UNCHANGED verdict
    /\ UNCHANGED <<tables, reviews, server, cron, worker, cutoff, orphans, crashes>>

\* The commit of what it decided, whatever the status is by now; a row that was
\* deleted meanwhile is not written, and nothing starts.
StartCommit ==
    /\ starter.at \in {"start", "refuse"}
    /\ starter' = Sleeping
    /\ LET t == starter.task IN
       \/ /\ status[t] = "absent"
          /\ UNCHANGED <<status, worker, orphans>>
       \/ /\ status[t] # "absent" /\ starter.at = "refuse"
          /\ Refuse(t)
          /\ UNCHANGED <<worker, orphans>>
       \/ /\ status[t] # "absent" /\ starter.at = "start"
          /\ status' = [status EXCEPT ![t] = "running"]
          /\ orphans' = orphans \ {t}
          /\ \E w \in Workers :
                /\ worker[w].at = "idle"
                /\ worker' = [worker EXCEPT ![w] = [at |-> "start", task |-> t, ok |-> FALSE]]
    /\ UNCHANGED <<last, sched, creator, guarded, approval, reviews, server, cron,
                   cutoff, verdict, crashes>>

----------------------------------------------------------------------------
(* The worker: _run_migration and _finish_run.                             *)

\* The worker reads the row again: what it writes to is the target of this moment.
Load(w) ==
    /\ worker[w].at = "start"
    /\ status[worker[w].task] \notin {"stopped", "absent"}
    /\ worker' = [worker EXCEPT ![w].at = "run"]
    /\ UNCHANGED <<tables, reviews, server, cron, starter, faults>>

\* The stop is looked for between the steps of the migration and once more in
\* _finish_run; a worker that sees it just ends.
Quit(w) ==
    /\ worker[w].at \in {"start", "run"}
    /\ status[worker[w].task] \in {"stopped", "absent"}
    /\ worker' = [worker EXCEPT ![w] = NoWork]
    /\ UNCHANGED <<tables, reviews, server, cron, starter, faults>>

\* Without Docker it fails before the row is read.
Finish(w) ==
    /\ worker[w].at \in {"start", "run"}
    /\ status[worker[w].task] \notin {"stopped", "absent"}
    /\ \E ok \in BOOLEAN :
          /\ ok => worker[w].at = "run"
          /\ worker' = [worker EXCEPT ![w] = [@ EXCEPT !.at = "finish", !.ok = ok]]
    /\ UNCHANGED <<tables, reviews, server, cron, starter, faults>>

\* A worker that ends without a word.
FinishSilently(w) ==
    /\ worker[w].at = "finish"
    /\ worker' = [worker EXCEPT ![w] = NoWork]
    /\ UNCHANGED <<tables, reviews, server, cron, starter, faults>>

FinishCommit(w) ==
    /\ worker[w].at = "finish"
    /\ LET t == worker[w].task IN
       IF status[t] = "absent" THEN UNCHANGED <<status, last>>
       ELSE /\ status' = [status EXCEPT ![t] = IF worker[w].ok THEN "idle" ELSE "failed"]
            /\ last' = [last EXCEPT ![t] = IF worker[w].ok THEN "completed" ELSE "failed"]
    /\ worker' = [worker EXCEPT ![w] = NoWork]
    /\ UNCHANGED <<sched, creator, guarded, approval, reviews, server, cron, starter, faults>>

----------------------------------------------------------------------------
(* Reviews.                                                                *)

ApproveRequest(r) ==
    /\ server.at = "idle"
    /\ req[r] = "pending"
    /\ req' = [req EXCEPT ![r] = "approved"]
    /\ granted' = granted \cup {r}
    /\ At("approve", result[r], r)
    /\ UNCHANGED <<tables, by, result, presumed, beside, faults>>

\* An approval that is not taken back when its execution is refused.
ApproveExecuteKept ==
    /\ server.at = "approve"
    /\ \/ /\ server.task # None
          /\ Executable(server.task)
          /\ At("queue", server.task, server.request)
       \/ Done
    /\ UNCHANGED <<tables, reviews, beside, faults>>

\* _execute_image_write_request: the target may exist already, the write may
\* need no approval, the registry may be gone; then execute_task decides.
\* _reset_pending_after_approval_error and _mark_failed are what is left of
\* such an approval.
ApproveExecute ==
    /\ server.at = "approve"
    /\ \/ /\ server.task # None
          /\ Executable(server.task)
          /\ At("queue", server.task, server.request)
          /\ UNCHANGED <<req, granted>>
       \/ /\ server.task = None
          /\ \E t \in Tasks : FreshTask(t)
          /\ At("grant", None, server.request)
          /\ UNCHANGED <<req, granted>>
       \/ /\ \E refused \in {"pending", "failed"} :
                req' = [req EXCEPT ![server.request] = refused]
          /\ granted' = granted \ {server.request}
          /\ Done
    /\ UNCHANGED <<tables, by, result, presumed, beside, faults>>

\* A request that has no migration yet: create_task with execute_now.
ApproveCreate(t) ==
    /\ server.at = "grant"
    /\ FreshTask(t)
    /\ PutTask(t, by[server.request], server.request, FALSE)
    /\ guarded' = guarded \cup {t}
    /\ At("queue", t, server.request)
    /\ UNCHANGED <<reviews, beside, faults>>

\* The second commit of approve_request, whatever the status is by now.
SaveRunning ==
    /\ server.at = "save"
    /\ req' = [req EXCEPT ![server.request] = "running"]
    /\ result' = [result EXCEPT ![server.request] = server.task]
    /\ At("read", None, server.request)
    /\ UNCHANGED <<tables, by, granted, presumed, beside, faults>>

RejectRequest(r) ==
    /\ server.at = "idle"
    /\ req[r] = "pending"
    /\ req' = [req EXCEPT ![r] = "rejected"]
    /\ UNCHANGED <<tables, by, result, granted, presumed, threads, faults>>

----------------------------------------------------------------------------
(* stop_task, delete_task, update_task and toggle_schedule.                *)

RequestStop(t) ==
    /\ server.at = "idle"
    /\ status[t] \in {"running", "pending"}
    /\ At("stop", t, None)
    /\ UNCHANGED <<tables, reviews, beside, faults>>

CommitStop ==
    /\ server.at = "stop"
    /\ status' = [status EXCEPT ![server.task] = "stopped"]
    /\ Done
    /\ UNCHANGED <<last, sched, creator, guarded, approval, reviews, beside, faults>>

RequestDelete(t) ==
    /\ server.at = "idle"
    /\ status[t] \notin {"absent", "running"}
    /\ At("delete", t, None)
    /\ UNCHANGED <<tables, reviews, beside, faults>>

CommitDelete ==
    /\ server.at = "delete"
    /\ status' = [status EXCEPT ![server.task] = "absent"]
    /\ last' = [last EXCEPT ![server.task] = "none"]
    /\ sched' = [sched EXCEPT ![server.task] = FALSE]
    /\ approval' = [approval EXCEPT ![server.task] = None]
    /\ Done
    /\ UNCHANGED <<creator, guarded, reviews, beside, faults>>

\* update_task of a migration without request: the row is read ...
RequestEdit(u, t) ==
    /\ server.at = "idle"
    /\ status[t] \notin {"absent", "running"}
    /\ approval[t] = None
    /\ sched[t] => u \in Admins
    /\ At("edit", t, None)
    /\ UNCHANGED <<tables, reviews, beside, faults>>

\* The row t has been checked for a start, and its worker has not read it yet.
Starting(t) ==
    \/ starter.at = "start" /\ starter.task = t
    \/ \E w \in Workers : worker[w].at = "start" /\ worker[w].task = t

\* ... and the target registry changed, whether the row has been started since or not.
CommitEdit ==
    /\ server.at = "edit"
    /\ LET t == server.task IN
       /\ guarded' = IF t \in guarded THEN guarded \ {t} ELSE guarded \cup {t}
       /\ verdict' = IF Starting(t) THEN [verdict EXCEPT ![t] = "edited"] ELSE verdict
    /\ Done
    /\ UNCHANGED <<status, last, sched, creator, approval, reviews, beside,
                   cutoff, orphans, crashes>>

\* toggle_schedule, by an administrator
ToggleSchedule(t) ==
    /\ server.at = "idle"
    /\ status[t] # "absent"
    /\ sched' = [sched EXCEPT ![t] = ~sched[t]]
    /\ UNCHANGED <<status, last, creator, guarded, approval, reviews, threads, faults>>

\* The process dies and is started again; nothing looks after migrations.
Crash ==
    /\ crashes < MaxCrashes
    /\ crashes' = crashes + 1
    /\ orphans' = Running
    /\ cutoff' = cutoff \cup {r \in Requests : req[r] = "approved"}
    /\ server' = Resting
    /\ cron' = Sleeping /\ starter' = Sleeping
    /\ worker' = [w \in Workers |-> NoWork]
    /\ UNCHANGED <<tables, reviews, verdict>>

----------------------------------------------------------------------------

Route ==
    \/ \E u \in Users, t \in Tasks : CreateTask(u, t) \/ ExecuteRoute(u, t) \/ RequestEdit(u, t)
    \/ \E u \in Users, r \in Requests, t \in Tasks : SubmitRequest(u, r, t)
    \/ \E R \in SUBSET Requests : ReadRequests(R)
    \/ \E r \in Requests : ApproveRequest(r) \/ RejectRequest(r)
    \/ \E t \in Tasks : RequestStop(t) \/ RequestDelete(t) \/ ToggleSchedule(t)

Server ==
    \/ \E u \in Users, r \in Requests : FileAgain(u, r)
    \/ BindNew \/ BindExisting \/ SetResult \/ AnswerRequest
    \/ ServerExecute \/ ServerQueue
    \/ ApproveExecute \/ (\E t \in Tasks : ApproveCreate(t)) \/ SaveRunning
    \/ CommitStop \/ CommitDelete \/ CommitEdit

Next ==
    \/ Route
    \/ Server
    \/ CronQueue \/ StartCommit \/ Crash
    \/ \E t \in Tasks : CronExecute(t) \/ StartRead(t)
    \/ \E w \in Workers : Load(w) \/ Quit(w) \/ Finish(w) \/ FinishCommit(w)

Spec == Init /\ [][Next]_vars

----------------------------------------------------------------------------
(* Properties.                                                             *)

\* What a worker reads and writes to has been reviewed: when it reads a target with
\* credentials of a creator who is no administrator, the check before the start had
\* found an approval that stood, however the migration was created, bound, scheduled
\* or tried again before.  Exempt are targets edited between that check and this
\* read, which no lock prevents, and requests that a read took for reviewed
\* (ReviewDecides): no other way leads past the review.
ReviewedRuns ==
    [][\A w \in Workers :
          LET t == worker[w].task IN
          worker[w].at = "start" /\ worker'[w].at = "run" /\ NeedsApproval(t)
              => verdict[t] \in {"reviewed", "edited"}]_vars

\* A request that is completed, failed or rejected stays so, whoever reads it and
\* whatever its migration does later.
DecisionIsFinal ==
    [][\A r \in Requests : req[r] \in Terminal => req'[r] = req[r]]_vars

\* At most one open request names a migration, and the migration is bound to it:
\* the answer to a request never starts what another request is about.
OneOpenRequest ==
    \A r \in Requests :
        LET t == result[r] IN
        req[r] \in Open /\ t # None => status[t] = "absent" \/ approval[t] = r

\* No request is left approved without having been executed, save by a crash
\* between the two commits of the approval: execution that is refused takes the
\* approval back.
NothingLeftApproved ==
    \A r \in Requests \ cutoff : req[r] = "approved" => server.request = r

\* A running migration has a worker that will write its outcome, unless the
\* process crashed: nothing recovers such a row.
RunningHasWorker ==
    \A t \in Running \ orphans : \E w \in Workers : worker[w].at # "idle" /\ worker[w].task = t

\* A request is decided by its review: it leaves pending only when a reviewer
\* approves or rejects it.
ReviewDecides ==
    [][\A r \in Requests : req[r] = "pending" /\ req'[r] # "pending"
                              => req'[r] \in {"approved", "rejected"}]_vars
=============================================================================
