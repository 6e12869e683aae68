------------------------------ MODULE Deployments ------------------------------
(***************************************************************************)
(* The execution of deployment rows: the worker threads                    *)
(* (_execute_deploy_task_in_thread of backend/handlers.py and              *)
(* DeployTaskManager), the executors (backend/deploy_executors), the       *)
(* futures they wait for (ConnectionManager), the agent that answers       *)
(* (backend/agent/main.py), stopping, retrying, deleting, and the recovery *)
(* of running rows when the server is started again.                       *)
(*                                                                         *)
(* A future is kept under task_id:target_name, which a retry of the row    *)
(* uses again while the thread of the attempt before may still wait.  A    *)
(* step is one transaction, one operation on the table of futures, or a    *)
(* wait that ends.  The queue is used as TeamSlots promises it; AgentHosts *)
(* has the detail of the connection, here it delivers a message or not.    *)
(***************************************************************************)
EXTENDS Naturals, FiniteSets

CONSTANTS
    Tasks,       \* rows of Task with task_type deploy
    Targets,     \* targets of their configuration, by name
    Remote,      \* the targets on agent hosts; Portainer and SSH answer at once
    Workers,     \* threads
    Limit,       \* concurrency limit of the team
    MaxRetries,  \* bound of the model: retries
    MaxCrashes,  \* bound of the model: crashes of the server
    None

ASSUME DeploymentAssumption ==
    /\ IsFiniteSet(Tasks) /\ IsFiniteSet(Targets) /\ Targets # {}
    /\ Remote \subseteq Targets
    /\ Limit \in 1..10 /\ MaxRetries \in Nat /\ MaxCrashes \in Nat
    /\ None \notin Workers \cup Targets \cup Tasks

VARIABLES
    status,      \* Task.status
    worker,      \* each thread: [at, task, todo, failed, target, future]
    future,      \* deploy_result_futures: key -> the thread that waits for it
    inbox,       \* deploy messages on their way to the agent
    outbox,      \* results on their way to the server
    deployed,    \* history: keys the agent, or the host, has deployed
    server,      \* the row stop_task has stopped but not cancelled yet
    recovery,    \* recover_deploy_tasks_after_restart: [at, rows]
    interrupted, \* history: rows that were running when the server crashed
    guessed,     \* history: rows the recovery took for deployed
    retries,
    crashes

messages == <<inbox, outbox, deployed>>
restart  == <<recovery, interrupted, guessed, crashes>>
vars     == <<status, worker, future, messages, server, restart, retries>>

Keys     == Tasks \X Targets
Statuses == {"absent", "pending", "running", "stopped", "failed", "completed", "deleted"}
Final    == {"stopped", "failed", "completed"}
Idle     == [at |-> "idle", task |-> None, todo |-> {}, failed |-> FALSE,
             target |-> None, future |-> "none"]
NoRecovery == [at |-> "off", rows |-> {}]

TypeOK ==
    /\ status \in [Tasks -> Statuses]
    /\ worker \in [Workers -> [at : {"idle", "next", "wait", "final"}, task : Tasks \cup {None},
                               todo : SUBSET Targets, failed : BOOLEAN,
                               target : Targets \cup {None},
                               future : {"none", "open", "ok", "error", "cancelled"}]]
    /\ \A w \in Workers : worker[w].at = "wait" <=> worker[w].future # "none"
    /\ future \in [Keys -> Workers \cup {None}]
    /\ inbox \subseteq Keys
    /\ outbox \subseteq Keys \X BOOLEAN
    /\ deployed \subseteq Keys
    /\ server \in Tasks \cup {None}
    /\ recovery \in [at : {"off", "waiting", "judging"}, rows : SUBSET Tasks]
    /\ interrupted \cup guessed \subseteq Tasks
    /\ retries \in 0..MaxRetries /\ crashes \in 0..MaxCrashes

Init ==
    /\ status = [t \in Tasks |-> "absent"]
    /\ worker = [w \in Workers |-> Idle]
    /\ future = [k \in Keys |-> None]
    /\ inbox = {} /\ outbox = {} /\ deployed = {}
    /\ server = None
    /\ recovery = NoRecovery /\ interrupted = {} /\ guessed = {}
    /\ retries = 0 /\ crashes = 0

----------------------------------------------------------------------------
(* Rows.                                                                   *)

\* update_task_status: whatever the status is by now; a deleted row has none.
SetStatus(t, s) ==
    status' = IF status[t] = "deleted" THEN status ELSE [status EXCEPT ![t] = s]

Running == {t \in Tasks : status[t] = "running"}

\* create_deploy_task for an execution of a configuration
Create(t) ==
    /\ status[t] = "absent"
    /\ status' = [status EXCEPT ![t] = "pending"]
    /\ UNCHANGED <<worker, future, messages, server, restart, retries>>

\* The dispatcher starts a pending row, and with it a thread.
Start(t, w) ==
    /\ status[t] = "pending"
    /\ Cardinality(Running) < Limit
    /\ worker[w].at = "idle"
    /\ status' = [status EXCEPT ![t] = "running"]
    /\ worker' = [worker EXCEPT ![w] = [Idle EXCEPT !.at = "next", !.task = t, !.todo = Targets]]
    /\ UNCHANGED <<future, messages, server, restart, retries>>

\* retry_deploy_task, on the same row
Retry(t) ==
    /\ server = None
    /\ status[t] \in Final
    /\ retries < MaxRetries
    /\ retries' = retries + 1
    /\ status' = [status EXCEPT ![t] = "pending"]
    /\ UNCHANGED <<worker, future, messages, server, restart>>

Delete(t) ==
    /\ server = None
    /\ status[t] \in Final
    /\ status' = [status EXCEPT ![t] = "deleted"]
    /\ UNCHANGED <<worker, future, messages, server, restart, retries>>

----------------------------------------------------------------------------
(* The table of futures.                                                   *)

\* The futures of the keys K leave the table, and are cancelled unless they are done.
Cancelled(W, K) ==
    [w \in Workers |-> IF worker[w].future = "open" /\ \E k \in K : future[k] = w
                       THEN [W[w] EXCEPT !.future = "cancelled"] ELSE W[w]]

Without(K) == [k \in Keys |-> IF k \in K THEN None ELSE future[k]]

\* The thread w has the result of its target and goes on with the next one.
Took(w, ok) ==
    [worker EXCEPT ![w].at = "next", ![w].todo = @ \ {worker[w].target},
                   ![w].failed = @ \/ ~ok, ![w].target = None, ![w].future = "none"]

KeyOf(w) == <<worker[w].task, worker[w].target>>

----------------------------------------------------------------------------
(* execute_task_with_manager: one target after the other.                  *)

\* The host is unknown, offline or not connected within 15 seconds, or the message
\* cannot be sent: the future, if there is one, is cancelled again.
TargetFails(w, x) ==
    /\ worker[w].at = "next" /\ x \in worker[w].todo
    /\ worker' = [worker EXCEPT ![w].todo = @ \ {x}, ![w].failed = TRUE]
    /\ UNCHANGED <<status, future, messages, server, restart, retries>>

\* AgentExecutor.execute: the future is in the table before the message is sent.
SendTarget(w, x) ==
    /\ worker[w].at = "next" /\ x \in worker[w].todo \cap Remote
    /\ worker' = [worker EXCEPT ![w].at = "wait", ![w].target = x, ![w].future = "open"]
    /\ future' = [future EXCEPT ![<<worker[w].task, x>>] = w]
    /\ inbox' = inbox \cup {<<worker[w].task, x>>}
    /\ UNCHANGED <<status, outbox, deployed, server, restart, retries>>

\* PortainerExecutor and SSHExecutor answer when they are done.
DeployDirectly(w, x) ==
    /\ worker[w].at = "next" /\ x \in worker[w].todo \ Remote
    /\ worker' = [worker EXCEPT ![w].todo = @ \ {x}]
    /\ deployed' = deployed \cup {<<worker[w].task, x>>}
    /\ UNCHANGED <<status, future, inbox, outbox, server, restart, retries>>

Receive(w) ==
    /\ worker[w].future \in {"ok", "error"}
    /\ worker' = Took(w, worker[w].future = "ok")
    /\ UNCHANGED <<status, future, messages, server, restart, retries>>

\* check_task_status, once a second: the thread's own future is cancelled, and
\* stays in the table.
PollStopped(w) ==
    /\ worker[w].future = "open"
    /\ status[worker[w].task] = "stopped"
    /\ worker' = [worker EXCEPT ![w].future = "cancelled"]
    /\ UNCHANGED <<status, future, messages, server, restart, retries>>

\* A thread that leaves the table as it is.
GiveUpKeeping(w) ==
    /\ worker[w].future \in {"cancelled", "open"}
    /\ worker' = Took(w, FALSE)
    /\ UNCHANGED <<status, future, messages, server, restart, retries>>

\* A wait without a timeout.
GiveUpUntimed(w) ==
    /\ worker[w].future = "cancelled"
    /\ worker' = Cancelled(Took(w, FALSE), {KeyOf(w)} \ {k \in Keys : future[k] = w})
    /\ future' = Without({KeyOf(w)})
    /\ UNCHANGED <<status, messages, server, restart, retries>>

\* The future was cancelled, or 300 seconds are over: the key is cancelled, be it
\* that of this attempt or of a later one.
GiveUp(w) ==
    /\ worker[w].future \in {"cancelled", "open"}
    /\ worker' = Cancelled(Took(w, FALSE), {KeyOf(w)} \ {k \in Keys : future[k] = w})
    /\ future' = Without({KeyOf(w)})
    /\ UNCHANGED <<status, messages, server, restart, retries>>

\* A thread that takes no notice of failed targets.
OutcomeIgnored(w) == "completed"

Outcome(w) == IF worker[w].failed THEN "failed" ELSE "completed"

\* The status is written by execute_task_with_manager, ...
WriteOutcome(w) ==
    /\ worker[w].at = "next" /\ worker[w].todo = {}
    /\ SetStatus(worker[w].task, Outcome(w))
    /\ worker' = [worker EXCEPT ![w].at = "final"]
    /\ UNCHANGED <<future, messages, server, restart, retries>>

\* ... and once more by _execute_deploy_task_async.
WriteAgain(w) ==
    /\ worker[w].at = "final"
    /\ SetStatus(worker[w].task, Outcome(w))
    /\ worker' = [worker EXCEPT ![w] = Idle]
    /\ UNCHANGED <<future, messages, server, restart, retries>>

----------------------------------------------------------------------------
(* stop_task.                                                              *)

StopCommit(t) ==
    /\ server = None
    /\ status[t] \in {"pending", "running"}
    /\ status' = [status EXCEPT ![t] = "stopped"]
    /\ server' = t
    /\ UNCHANGED <<worker, future, messages, restart, retries>>

\* The futures of all targets are cancelled.
StopCancel ==
    /\ server # None
    /\ worker' = Cancelled(worker, {server} \X Targets)
    /\ future' = Without({server} \X Targets)
    /\ server' = None
    /\ UNCHANGED <<status, messages, restart, retries>>

----------------------------------------------------------------------------
(* The agent and the network.                                              *)

\* An answer that does not name its target.
AgentDeploysUnnamed(k) ==
    /\ k \in inbox
    /\ inbox' = inbox \ {k}
    /\ outbox' = outbox \cup {<<<<k[1], None>>, TRUE>>}
    /\ deployed' = deployed \cup {k}
    /\ UNCHANGED <<status, worker, future, server, restart, retries>>

\* handle_deploy_task, and up to three attempts to send the result
AgentDeploys(k) ==
    /\ k \in inbox
    /\ inbox' = inbox \ {k}
    /\ \E ok \in BOOLEAN :
          /\ deployed' = IF ok THEN deployed \cup {k} ELSE deployed
          /\ outbox' = outbox \cup {<<k, ok>>}
    /\ UNCHANGED <<status, worker, future, server, restart, retries>>

\* set_deploy_result: the result goes to whoever waits under its key.
Deliver(k, ok) ==
    /\ <<k, ok>> \in outbox
    /\ outbox' = outbox \ {<<k, ok>>}
    /\ worker' = [w \in Workers |-> IF future[k] = w /\ worker[w].future = "open"
                                    THEN [worker[w] EXCEPT !.future = IF ok THEN "ok" ELSE "error"]
                                    ELSE worker[w]]
    /\ future' = Without({k})
    /\ UNCHANGED <<status, inbox, deployed, server, restart, retries>>

\* A link breaks, or the handler of the agent is still that of a pending host.
Lose ==
    /\ inbox # {} \/ outbox # {}
    /\ \/ \E k \in inbox : inbox' = inbox \ {k} /\ UNCHANGED outbox
       \/ \E r \in outbox : outbox' = outbox \ {r} /\ UNCHANGED inbox
    /\ UNCHANGED <<status, worker, future, deployed, server, restart, retries>>

----------------------------------------------------------------------------
(* A crash, and what is done about it after the start.                     *)

Crash ==
    /\ crashes < MaxCrashes
    /\ crashes' = crashes + 1
    /\ interrupted' = Running
    /\ worker' = [w \in Workers |-> Idle]
    /\ future' = [k \in Keys |-> None]
    /\ server' = None
    /\ recovery' = [at |-> "waiting", rows |-> {}]
    /\ UNCHANGED <<status, messages, guessed, retries>>

\* _background_recover_deploy_tasks waits up to 30 seconds for an agent.  All the
\* rows that are running by then are judged, those of new threads among them.
RecoverSelect ==
    /\ recovery.at = "waiting"
    /\ recovery' = IF Running = {} THEN NoRecovery ELSE [at |-> "judging", rows |-> Running]
    /\ UNCHANGED <<status, worker, future, messages, server, interrupted, guessed,
                   retries, crashes>>

\* A verdict on what was asked in time, and none on the rest.
RecoverAnswered(t) ==
    /\ recovery.at = "judging" /\ t \in recovery.rows
    /\ \/ /\ SetStatus(t, "completed")
          /\ guessed' = guessed \cup {t}
       \/ UNCHANGED <<status, guessed>>
    /\ recovery' = IF recovery.rows = {t} THEN NoRecovery
                   ELSE [recovery EXCEPT !.rows = @ \ {t}]
    /\ UNCHANGED <<worker, future, messages, server, interrupted, retries, crashes>>

\* The hosts are asked whether the containers of the targets are there, with
\* retries; those of an earlier deployment are taken for them.
RecoverJudge(t) ==
    /\ recovery.at = "judging" /\ t \in recovery.rows
    /\ \/ /\ SetStatus(t, "completed")
          /\ guessed' = guessed \cup {t}
       \/ /\ SetStatus(t, "failed")
          /\ UNCHANGED guessed
    /\ recovery' = IF recovery.rows = {t} THEN NoRecovery
                   ELSE [recovery EXCEPT !.rows = @ \ {t}]
    /\ UNCHANGED <<worker, future, messages, server, interrupted, retries, crashes>>

----------------------------------------------------------------------------

Thread(w) ==
    \/ \E x \in Targets : TargetFails(w, x) \/ SendTarget(w, x) \/ DeployDirectly(w, x)
    \/ Receive(w) \/ PollStopped(w) \/ GiveUp(w) \/ WriteOutcome(w) \/ WriteAgain(w)

Recover == RecoverSelect \/ \E t \in Tasks : RecoverJudge(t)

Next ==
    \/ \E t \in Tasks : \/ Create(t) \/ Retry(t) \/ Delete(t) \/ StopCommit(t)
                        \/ \E w \in Workers : Start(t, w)
    \/ \E w \in Workers : Thread(w)
    \/ \E k \in Keys : AgentDeploys(k) \/ \E ok \in BOOLEAN : Deliver(k, ok)
    \/ StopCancel \/ Lose \/ Crash \/ Recover

Spec == Init /\ [][Next]_vars

\* Threads go on, as each of their waits has a timeout; so does the recovery.
FairSpec == Spec /\ (\A w \in Workers : WF_vars(Thread(w))) /\ WF_vars(Recover)

----------------------------------------------------------------------------
(* Properties.                                                             *)

\* A row is completed only when each of its targets was deployed for this row,
\* whichever attempt the result came from and however late; a row that the recovery
\* has judged is exempt, as it asks for containers and not for deployments.
CompletedIsDeployed ==
    \A t \in Tasks \ guessed : status[t] = "completed" => {t} \X Targets \subseteq deployed

\* Each entry of the table of futures is one an attempt still waits for, so that
\* results find their attempt and the table does not grow: stops, timeouts, lost
\* messages and the reuse of a key by a retry leave nothing behind.
EntryIsAwaited ==
    \A k \in Keys : future[k] # None => worker[future[k]].at = "wait" /\ KeyOf(future[k]) = k

\* A running row, which takes a slot of its team, is worked on by a thread, or is
\* one the recovery after a crash has still to judge.
RunningIsServed ==
    \A t \in Running :
        \/ \E w \in Workers : worker[w].task = t
        \/ recovery.at = "waiting" /\ t \in interrupted
        \/ t \in recovery.rows

\* A deployment comes to an end, even when the agent never answers or the server
\* crashes.
DeploymentEnds == \A t \in Tasks : status[t] = "running" ~> status[t] # "running"

\* A row that waits in the queue leaves it by being started, stopped or deleted.
QueuedIsStarted ==
    [][\A t \in Tasks : status[t] = "pending"
                            => status'[t] \in {"pending", "running", "stopped"}]_vars
=============================================================================
