-------------------------- MODULE PipelineTriggers --------------------------
(***************************************************************************)
(* What makes a pipeline build: the webhook route (webhook_trigger and the *)
(* WebhookDelivery rows of PipelineManager), the route that runs a         *)
(* pipeline by hand (run_pipeline) and the cron scheduler                  *)
(* (PipelineScheduler).                                                    *)
(*                                                                         *)
(* One pipeline is modelled: deliveries, debouncing and binding are kept   *)
(* per pipeline.  The routes run one after another on the event loop       *)
(* (server), the scheduler beside them (cron); a step is one transaction   *)
(* or one critical section of PipelineManager.lock.  A request that is     *)
(* refused before the reservation (disabled pipeline, wrong signature,     *)
(* event or branch that does not build) changes nothing and is no step.    *)
(* The queue is reduced to what the triggers see of it: TaskQueue has its  *)
(* detail.  Seconds and minutes pass in actions of their own.              *)
(***************************************************************************)
EXTENDS Naturals, FiniteSets

CONSTANTS
    Pushes,      \* commits that are pushed, each with its own dedupe key
    Tasks,       \* rows of Task; a deleted one may be used again
    None,        \* no ref, no push, no row
    Refs,        \* branches and Git tags
    TagRefs,     \* the Git tags among them
    Ref,         \* [Pushes -> Refs]: what a commit is pushed to
    Configured,  \* the branch of the pipeline
    Allowed,     \* the branches its rules match
    TagCount,    \* [Refs -> 1..n]: image tags a ref is mapped to
    Strategy,    \* webhook_branch_strategy
    Every,       \* the cron expression is due every so many minutes
    Stored,      \* next_run_time in the table, None unless it was imported
    MaxMinute,   \* bound of the model: the minutes that pass
    MaxFaults    \* bound of the model: transactions that fail

ASSUME ConstantsAssumption ==
    /\ None \notin Refs \cup Pushes \cup Tasks
    /\ TagRefs \subseteq Refs /\ Configured \in Refs \ TagRefs /\ Allowed \subseteq Refs
    /\ Ref \in [Pushes -> Refs]
    /\ Strategy \in {"select_branches", "select_configured", "use_configured",
                     "filter_match", "use_push"}
    /\ TagCount \in [Refs -> Nat \ {0}] /\ \A r \in TagRefs : TagCount[r] = 1
    /\ Every \in Nat \ {0} /\ MaxMinute \in Nat \ {0} /\ MaxFaults \in Nat
    /\ Stored \in Nat \cup {None}

VARIABLES
    status,     \* of a row; a running one is "cloned" once it has the sources
    target,     \* the ref a row builds
    bound,      \* Pipeline.current_task_id
    recent,     \* _last_trigger_configs, None after 3 seconds
    delivery,   \* rows of WebhookDelivery
    stale,      \* deliveries that are older than 300 seconds
    server,     \* the route that is running
    cron,       \* the scheduler thread
    now,        \* minute
    checks,     \* minutes in which the scheduler has looked for due times
    faults,     \* failed transactions so far
    pushed,     \* history: commits that were announced by a webhook
    built,      \* history: commits that a started row has cloned, or a user stopped
    excused,    \* history: commits whose delivery was debounced, or failed
    unkept,     \* history: commits that were accepted when the reservation failed
    made,       \* history: rows created for a commit since it was last accepted
    due,        \* history: the due time the scheduler is triggering for, 0 for none
    fired,      \* history: rows the scheduler created for a due time
    dropped     \* history: due times whose trigger was taken for a repeated one, or failed

queue  == <<status, target, bound, built>>
hooks  == <<delivery, stale, pushed, excused, unkept, made>>
clock  == <<now, checks, due, fired, dropped>>
vars   == <<queue, recent, hooks, server, cron, clock, faults>>

Idle == [kind |-> "none", at |-> "idle", push |-> None, ref |-> None, left |-> 0,
         first |-> None]

\* A webhook, a run by hand, one that is debounced, a due time of the scheduler,
\* and a due time that finds another row at work.
Kinds    == {"hook", "run", "quick", "cron", "behind"}
Statuses == {"absent", "pending", "running", "cloned"}
Places   == {"idle", "reserve", "check", "look", "unbind", "create",
             "remember", "complete", "record"}
Configs  == Refs \X Refs

DueTimes == {d \in 1..(MaxMinute + Every) : d % Every = 0}

Jobs == [kind : Kinds \cup {"none"}, at : Places, push : Pushes \cup {None},
         ref : Refs \cup {None}, left : Nat, first : Tasks \cup {None}]

TypeOK ==
    /\ status \in [Tasks -> Statuses]
    /\ target \in [Tasks -> Refs \cup {None}]
    /\ bound \in Tasks \cup {None}
    /\ recent \in Configs \cup {None}
    /\ delivery \in [Pushes -> {"absent", "reserved", "created"}]
    /\ stale \subseteq {p \in Pushes : delivery[p] # "absent"}
    /\ server \in Jobs /\ cron \in Jobs
    /\ now \in 1..MaxMinute /\ checks \subseteq 1..now
    /\ faults \in 0..MaxFaults
    /\ built \cup excused \cup unkept \subseteq pushed /\ pushed \subseteq Pushes
    /\ made \in [Pushes -> Nat]
    /\ due \in Nat /\ dropped \subseteq Nat /\ fired \in [DueTimes -> Nat]

Init ==
    /\ status = [t \in Tasks |-> "absent"]
    /\ target = [t \in Tasks |-> None]
    /\ bound = None
    /\ recent = None
    /\ delivery = [p \in Pushes |-> "absent"] /\ stale = {}
    /\ server = Idle /\ cron = Idle
    /\ now = 1 /\ checks = {} /\ due = 0 /\ dropped = {} /\ faults = 0
    /\ pushed = {} /\ built = {} /\ excused = {} /\ unkept = {}
    /\ made = [p \in Pushes |-> 0]
    /\ fired = [d \in DueTimes |-> 0]

----------------------------------------------------------------------------
(* Which ref a webhook builds: resolve_pipeline_webhook_branch.            *)

\* None: the webhook is ignored.
Resolve(r) ==
    CASE Strategy = "select_branches"   -> IF r \in Allowed THEN r ELSE None
      [] Strategy = "select_configured" -> IF r \in Allowed THEN Configured ELSE None
      [] Strategy \in {"use_configured", "filter_match"}
                                        -> IF r = Configured THEN r ELSE None
      [] Strategy = "use_push"          -> r

Target(p) == IF Ref[p] \in TagRefs THEN Ref[p] ELSE Resolve(Ref[p])

\* What _generate_config_hash compares of the first row of a trigger: the ref it
\* builds and the image tag, which comes from the ref that was pushed.
Config(p)  == <<Target(p), Ref[p]>>
CronConfig == <<Configured, Configured>>

----------------------------------------------------------------------------
(* The queue, as the triggers see it.                                      *)

Active == {t \in Tasks : status[t] \in {"running", "cloned"}}
Free   == {t \in Tasks : status[t] = "absent"} \ {bound}
Of(r)  == {p \in pushed : Target(p) = r}

\* The bound of the model: rows are left for what the triggers have begun.
Room(n) == server.left + cron.left + n <= Cardinality(Free)

\* The dispatcher starts a row of the pipeline when none is running, and binds it.
StartTask(t) ==
    /\ status[t] = "pending"
    /\ Active = {}
    /\ status' = [status EXCEPT ![t] = "running"]
    /\ bound' = t
    /\ UNCHANGED <<target, built, recent, hooks, server, cron, clock, faults>>

\* The worker clones the sources: all that is pushed by now is in them.
Clone(t) ==
    /\ status[t] = "running"
    /\ status' = [status EXCEPT ![t] = "cloned"]
    /\ built' = built \cup Of(target[t])
    /\ UNCHANGED <<target, bound, recent, hooks, server, cron, clock, faults>>

\* A row ends, is stopped by a user or deleted, and the pipeline is released.  The
\* triggers do not tell a row that is over from one that does not exist.
EndTask(t) ==
    /\ status[t] # "absent"
    /\ status' = [status EXCEPT ![t] = "absent"]
    /\ target' = [target EXCEPT ![t] = None]
    /\ built' = IF status[t] = "cloned" THEN built ELSE built \cup Of(target[t])
    /\ bound' = IF bound = t THEN None ELSE bound
    /\ UNCHANGED <<recent, hooks, server, cron, clock, faults>>

\* _trigger_task_from_config: a pending row, with an identity nothing names
PutTask(t, r) ==
    /\ status[t] = "absent"
    /\ t \notin {bound, server.first, cron.first}
    /\ status' = [status EXCEPT ![t] = "pending"]
    /\ target' = [target EXCEPT ![t] = r]

\* record_trigger
Record(t) == bound' = t

----------------------------------------------------------------------------
(* The webhook route.                                                      *)

Webhook(p) ==
    /\ server = Idle
    /\ Target(p) # None
    /\ Room(TagCount[Ref[p]])
    /\ pushed' = pushed \cup {p}
    /\ server' = [Idle EXCEPT !.kind = "hook", !.at = "reserve", !.push = p, !.ref = Target(p),
                              !.left = TagCount[Ref[p]]]
    /\ UNCHANGED <<queue, recent, delivery, stale, excused, unkept, made,
                   cron, clock, faults>>

\* A key that leaves out the commit: the ref alone is compared.
TakenByRef(p) == \E q \in Pushes : Ref[q] = Ref[p] /\ delivery[q] # "absent" /\ q \notin stale

\* The unique key is taken by a delivery that is not 300 seconds old.
Taken(p) == delivery[p] # "absent" /\ p \notin stale

\* reserve_webhook_delivery: a new row, a stale row taken over, a duplicate, or
\* a failed transaction after which the route goes on without a reservation.
Reserve ==
    /\ server.at = "reserve"
    /\ \/ /\ Taken(server.push)
          /\ server' = Idle
          /\ UNCHANGED <<delivery, stale, excused, unkept, made, faults>>
       \/ /\ ~Taken(server.push)
          /\ delivery' = [delivery EXCEPT ![server.push] = "reserved"]
          /\ stale' = stale \ {server.push}
          /\ made' = IF delivery[server.push] = "absent" THEN made
                     ELSE [made EXCEPT ![server.push] = 0]
          /\ excused' = excused \ {server.push}
          /\ server' = [server EXCEPT !.at = "check"]
          /\ UNCHANGED <<unkept, faults>>
       \/ /\ faults < MaxFaults
          /\ faults' = faults + 1
          /\ unkept' = unkept \cup {server.push}
          /\ server' = [server EXCEPT !.at = "check"]
          /\ UNCHANGED <<delivery, stale, excused, made>>
    /\ UNCHANGED <<queue, recent, pushed, cron, clock>>

\* check_duplicate_task: only the debouncing drops a webhook, and leaves its
\* reservation behind; a configuration that runs or waits is queued once more.
Check ==
    /\ server.at = "check"
    /\ \/ /\ recent = Config(server.push)
          /\ excused' = excused \cup {server.push}
          /\ server' = Idle
          /\ UNCHANGED recent
       \/ /\ recent # Config(server.push)
          /\ recent' = Config(server.push)
          /\ server' = [server EXCEPT !.at = "create"]
          /\ UNCHANGED excused
    /\ UNCHANGED <<queue, delivery, stale, pushed, unkept, made,
                   cron, clock, faults>>

\* A loop over the tags that runs once too often.
AfterCreateOffByOne(job, t) ==
    [job EXCEPT !.left  = @ - 1,
                !.first = IF @ = None THEN t ELSE @,
                !.at    = IF job.left >= 1 THEN "create" ELSE "record"]

\* The last row of a webhook is followed by complete_webhook_delivery, that of a
\* run by record_trigger, unless the run was debounced; before each row a run looks
\* at the binding.
AfterCreate(job, t) ==
    [job EXCEPT !.left  = @ - 1,
                !.first = IF @ = None THEN t ELSE @,
                !.at    = CASE job.left > 1 /\ job.kind = "run" -> "look"
                            [] job.left > 1 /\ job.kind # "run" -> "create"
                            [] job.left = 1 /\ job.kind = "hook" -> "complete"
                            [] job.left = 1 /\ job.kind \in {"cron", "behind"} -> "remember"
                            [] OTHER -> "record"]

\* One row for every image tag, each in a transaction of its own.
ServerCreate(t) ==
    /\ server.at = "create"
    /\ PutTask(t, server.ref)
    /\ server' = IF server.kind = "quick" /\ server.left = 1 THEN Idle
                 ELSE AfterCreate(server, t)
    /\ made' = IF server.push = None THEN made
               ELSE [made EXCEPT ![server.push] = @ + 1]
    /\ UNCHANGED <<bound, built, recent, delivery, stale, pushed, excused,
                   unkept, cron, clock, faults>>

\* An exception while the rows are created: the answer is an error, the rows
\* that exist stay, and nobody releases the reservation.
CreateFails ==
    /\ server.at = "create"
    /\ faults < MaxFaults
    /\ faults' = faults + 1
    /\ excused' = IF server.push = None THEN excused ELSE excused \cup {server.push}
    /\ server' = Idle
    /\ UNCHANGED <<queue, recent, delivery, stale, pushed, unkept, made,
                   cron, clock>>

\* A route that answers before it has filled in its delivery.
CompleteNothing ==
    /\ server.at = "complete"
    /\ server' = [server EXCEPT !.at = "record"]
    /\ delivery' = [delivery EXCEPT ![server.push] = "absent"]
    /\ stale' = stale \ {server.push}
    /\ UNCHANGED <<queue, recent, pushed, excused, unkept, made, cron, clock,
                   faults>>

\* complete_webhook_delivery: without a row, or when the transaction fails, the
\* route goes on.
Complete ==
    /\ server.at = "complete"
    /\ server' = [server EXCEPT !.at = "record"]
    /\ \/ /\ IF delivery[server.push] = "absent" THEN UNCHANGED <<delivery, stale>>
             ELSE /\ delivery' = [delivery EXCEPT ![server.push] = "created"]
                  /\ stale' = stale \ {server.push}
          /\ UNCHANGED faults
       \/ /\ faults < MaxFaults
          /\ faults' = faults + 1
          /\ UNCHANGED <<delivery, stale>>
    /\ UNCHANGED <<queue, recent, pushed, excused, unkept, made, cron, clock>>

\* record_trigger binds the first row, whatever has become of it.
ServerRecord ==
    /\ server.at = "record"
    /\ Record(server.first)
    /\ server' = Idle
    /\ UNCHANGED <<status, target, built, recent, hooks, cron, clock, faults>>

----------------------------------------------------------------------------
(* run_pipeline, and the look at the binding it shares with the scheduler. *)

\* Within 5 seconds of a trigger (check_debounce; either may be the case here) the
\* rows are created and nothing is recorded.
RunPipeline(r) ==
    /\ server = Idle
    /\ Room(TagCount[r])
    /\ \E debounced \in BOOLEAN :
          server' = [Idle EXCEPT !.kind = IF debounced THEN "quick" ELSE "run",
                                 !.at = IF debounced THEN "create" ELSE "look",
                                 !.ref = r, !.left = TagCount[r]]
    /\ UNCHANGED <<queue, recent, hooks, cron, clock, faults>>

\* get_pipeline_running_task, and the status of the row it names
LookAt(job) ==
    /\ job.at = "look"
    /\ \/ /\ bound = None
          /\ job' = [job EXCEPT !.at = "create"]
       \/ /\ bound # None /\ status[bound] # "absent"
          /\ job' = [job EXCEPT !.at = "create", !.kind = IF @ = "cron" THEN "behind" ELSE @]
       \/ /\ bound # None /\ status[bound] = "absent"
          /\ job' = [job EXCEPT !.at = "unbind"]

ServerLook ==
    /\ LookAt(server)
    /\ UNCHANGED <<queue, recent, hooks, cron, clock, faults>>

\* unbind_task, whatever is bound by now
ServerUnbind ==
    /\ server.at = "unbind"
    /\ bound' = None
    /\ server' = [server EXCEPT !.at = "create"]
    /\ UNCHANGED <<status, target, built, recent, hooks, cron, clock, faults>>

----------------------------------------------------------------------------
(* The scheduler: _check_pipelines and _trigger_pipeline.                  *)

\* croniter(cron_expr, now - 1 minute).get_next for a check within minute m
NextDue(m) == ((m + Every - 1) \div Every) * Every

\* A scheduler that does not look ahead.
DueLate(m) == IF Stored = None THEN NextDue(m) <= m ELSE m >= Stored

\* A check triggers: next_run_time is what was imported, or it is empty, whatever
\* was computed before, as _update_next_run_time raises in its last line.
Due(m) == IF Stored = None THEN NextDue(m) <= m + 1 ELSE m >= Stored

\* The due time a trigger in minute m answers for: the next one, and with an
\* imported next_run_time the last one
Answered(m) == IF Stored = None THEN NextDue(m) ELSE (m \div Every) * Every

\* _check_pipelines, once in a minute at most: it sleeps for 60 seconds afterwards.
CronCheck ==
    /\ cron = Idle
    /\ now \notin checks
    /\ checks' = checks \cup {now}
    /\ \/ /\ Due(now)
          /\ Room(1)
          /\ cron' = [Idle EXCEPT !.kind = "cron", !.at = "check", !.ref = Configured,
                                  !.left = 1]
          /\ due' = Answered(now)
       \/ /\ ~Due(now)
          /\ UNCHANGED <<cron, due>>
    /\ UNCHANGED <<queue, recent, hooks, server, now, fired, dropped, faults>>

\* The trigger of a due time is given up.
Drop ==
    /\ cron' = Idle
    /\ due' = 0
    /\ dropped' = dropped \cup {due}

\* check_same_trigger_info
CronMask ==
    /\ cron.at = "check"
    /\ \/ /\ recent = CronConfig
          /\ Drop
          /\ UNCHANGED recent
       \/ /\ recent # CronConfig
          /\ recent' = CronConfig
          /\ cron' = [cron EXCEPT !.at = "look"]
          /\ UNCHANGED <<due, dropped>>
    /\ UNCHANGED <<queue, hooks, server, now, checks, fired, faults>>

CronLook ==
    /\ LookAt(cron)
    /\ UNCHANGED <<queue, recent, hooks, server, clock, faults>>

CronUnbind ==
    /\ cron.at = "unbind"
    /\ bound' = None
    /\ cron' = [cron EXCEPT !.at = "create"]
    /\ UNCHANGED <<status, target, built, recent, hooks, server, clock, faults>>

CronCreate(t) ==
    /\ cron.at = "create"
    /\ PutTask(t, cron.ref)
    /\ cron' = AfterCreate(cron, t)
    /\ due' = 0
    /\ fired' = [d \in DueTimes |-> fired[d] + IF d = due THEN 1 ELSE 0]
    /\ UNCHANGED <<bound, built, recent, hooks, server, now, checks, dropped, faults>>

\* The exception is printed; the scheduler goes on with the next minute.
CronFails ==
    /\ cron.at = "create"
    /\ faults < MaxFaults
    /\ faults' = faults + 1
    /\ Drop
    /\ UNCHANGED <<queue, recent, hooks, server, now, checks, fired>>

\* update_last_trigger_config; a row behind another one is not recorded.
CronRemember ==
    /\ cron.at = "remember"
    /\ recent' = CronConfig
    /\ cron' = IF cron.kind = "behind" THEN Idle ELSE [cron EXCEPT !.at = "record"]
    /\ UNCHANGED <<queue, hooks, server, clock, faults>>

CronRecord ==
    /\ cron.at = "record"
    /\ Record(cron.first)
    /\ cron' = Idle
    /\ UNCHANGED <<status, target, built, recent, hooks, server, clock, faults>>

----------------------------------------------------------------------------
(* Time.                                                                   *)

\* Nothing bounds what the thread does between two checks: minutes pass during a
\* trigger, and while it probes hosts and cleans caches no check is made at all.
Minute ==
    /\ now < MaxMinute
    /\ now' = now + 1
    /\ UNCHANGED <<queue, recent, hooks, server, cron, checks, due, fired, dropped, faults>>

Seconds ==
    /\ recent # None
    /\ recent' = None
    /\ UNCHANGED <<queue, hooks, server, cron, clock, faults>>

FiveMinutes(p) ==
    /\ delivery[p] # "absent"
    /\ p \notin stale
    /\ server.push # p
    /\ stale' = stale \cup {p}
    /\ UNCHANGED <<queue, recent, delivery, pushed, excused, unkept, made,
                   server, cron, clock, faults>>

----------------------------------------------------------------------------

Next ==
    \/ \E t \in Tasks : \/ StartTask(t) \/ Clone(t) \/ EndTask(t)
                        \/ ServerCreate(t) \/ CronCreate(t)
    \/ \E p \in Pushes : Webhook(p) \/ FiveMinutes(p)
    \/ \E r \in Refs : RunPipeline(r)
    \/ Reserve \/ Check \/ CreateFails \/ Complete \/ ServerRecord
    \/ ServerLook \/ ServerUnbind
    \/ CronCheck \/ CronMask \/ CronLook \/ CronUnbind \/ CronFails
    \/ CronRemember \/ CronRecord
    \/ Minute \/ Seconds

Spec == Init /\ [][Next]_vars

----------------------------------------------------------------------------
(* Properties.                                                             *)

\* No push is forgotten: when its webhook has been answered, the commit is in the
\* sources of a build, or a row that builds its ref has still to clone them,
\* whatever else was triggered, deduplicated, queued or unbound meanwhile.  Exempt
\* are the webhooks that were debounced and those whose route failed, until they are
\* delivered again after the reservation is stale.
PushNotForgotten ==
    \A p \in pushed \ excused :
        \/ server.push = p
        \/ p \in built
        \/ \E t \in Tasks : status[t] \in {"pending", "running"} /\ target[t] = Target(p)

\* However often a commit is delivered, one set of rows is created for it, one for
\* each image tag; a delivery is accepted again only when its record is stale.  Exempt
\* are commits that were accepted while the reservation failed.
DeliveredOnce == \A p \in Pushes \ unkept : made[p] <= TagCount[Ref[p]]

\* The scheduler has looked for the due time d when it could see it: in its minute or
\* the one before, or, with an imported next_run_time, before the next due time.
Looked(d) ==
    IF Stored = None THEN {d - 1, d} \cap checks # {}
    ELSE Stored <= d /\ \E m \in checks : d <= m /\ m < d + Every

\* A due time is lost only to checks that were left out: when a single check was made
\* in time, a row of the configured branch is created for it, or is on its way,
\* whatever the routes, the queue and the binding do meanwhile.  Exempt are triggers
\* taken for a repeated one within 3 seconds, and those that failed.
DueTimeMet == \A d \in DueTimes \ dropped : Looked(d) => fired[d] > 0 \/ due = d

\* The scheduler triggers a pipeline once for each due time.
OncePerDueTime == \A d \in DueTimes : fired[d] <= 1
=============================================================================
