------------------------ MODULE PipelineTriggersProofs ------------------------
(***************************************************************************)
(* Theorems about PipelineTriggers, for any commits, refs, rows, strategy, *)
(* period and bounds.                                                      *)
(***************************************************************************)
EXTENDS PipelineTriggers, TLAPS

USE ConstantsAssumption

\* p is in the sources of a build, or a row will clone them.
Kept(p) ==
    \/ p \in built
    \/ \E t \in Tasks : status[t] \in {"pending", "running"} /\ target[t] = Target(p)

(***************************************************************************)
(* The inductive invariant.  What the route and the scheduler have is said *)
(* by where they are:                                                      *)
(***************************************************************************)
HookAt(job) ==
    /\ job.kind = "hook" /\ job.push \in pushed
    /\ job.ref = Target(job.push) /\ job.ref \in Refs
    /\ \/ job.at \in {"reserve", "check"} /\ job.left = TagCount[Ref[job.push]]
       \/ job.at = "create" /\ job.left \in 1..TagCount[Ref[job.push]]
       \/ job.at \in {"complete", "record"} /\ job.left = 0

RunAt(job) ==
    /\ job.kind \in {"run", "quick"} /\ job.push = None /\ job.ref \in Refs
    /\ \/ job.at \in {"look", "unbind", "create"} /\ job.left \in Nat \ {0}
       \/ job.at = "record" /\ job.left = 0

CronAt(job) ==
    /\ job.kind \in {"cron", "behind"} /\ job.push = None /\ job.ref = Configured
    /\ \/ job.at \in {"check", "look", "unbind", "create"} /\ job.left = 1
       \/ job.at \in {"remember", "record"} /\ job.left = 0

ServerInv == server = Idle \/ HookAt(server) \/ RunAt(server)
CronInv == cron = Idle \/ CronAt(cron)

\* A commit that was announced is kept, or its webhook has not created all its rows; a
\* delivery is only taken for a duplicate when its commit is kept.
PushInv ==
    /\ \A p \in Pushes : delivery[p] # "absent" => p \in pushed
    /\ \A p \in pushed \ excused :
         \/ Kept(p)
         \/ server.push = p /\ server.at \in {"check", "create"}
         \/ server.push = p /\ server.at = "reserve" /\ delivery[p] = "absent"

\* The rows that were created and those still to create are as many as there are tags.
DeliveryInv ==
    \A p \in Pushes \ unkept :
        /\ made[p] <= TagCount[Ref[p]]
        /\ delivery[p] = "absent" => made[p] = 0
        /\ server.push = p /\ server.at # "reserve" =>
             delivery[p] # "absent" /\ made[p] + server.left <= TagCount[Ref[p]]

IInv ==
    /\ TypeOK /\ ServerInv /\ CronInv
    /\ PushInv /\ DeliveryInv

-----------------------------------------------------------------------------
(* Lemmas about the operators. *)

LEMMA ResolveType == \A r \in Refs : Resolve(r) \in Refs \cup {None}
  BY DEF Resolve

LEMMA TargetType == \A p \in Pushes : Ref[p] \in Refs /\ Target(p) \in Refs \cup {None}
  BY ResolveType DEF Target

LEMMA IdleType == Idle \in Jobs
  BY DEF Idle, Jobs, Kinds, Places

\* The fields of a job
LEMMA JobFields ==
    ASSUME NEW job \in Jobs
    PROVE  /\ job.kind \in Kinds \cup {"none"} /\ job.at \in Places
           /\ job.push \in Pushes \cup {None} /\ job.ref \in Refs \cup {None}
           /\ job.left \in Nat /\ job.first \in Tasks \cup {None}
           /\ job = [kind |-> job.kind, at |-> job.at, push |-> job.push, ref |-> job.ref,
                     left |-> job.left, first |-> job.first]
  BY DEF Jobs

\* What the creation of a row does to a job
LEMMA AfterCreateIs ==
    ASSUME NEW job \in Jobs, NEW t \in Tasks, job.left \in Nat \ {0}
    PROVE  /\ AfterCreate(job, t) \in Jobs
           /\ AfterCreate(job, t).kind = job.kind /\ AfterCreate(job, t).push = job.push
           /\ AfterCreate(job, t).ref = job.ref /\ AfterCreate(job, t).left = job.left - 1
           /\ AfterCreate(job, t).at =
                CASE job.left > 1 /\ job.kind = "run" -> "look"
                  [] job.left > 1 /\ job.kind # "run" -> "create"
                  [] job.left = 1 /\ job.kind = "hook" -> "complete"
                  [] job.left = 1 /\ job.kind \in {"cron", "behind"} -> "remember"
                  [] OTHER -> "record"
<1>1. PICK a, x, j :
         /\ a = CASE job.left > 1 /\ job.kind = "run" -> "look"
                  [] job.left > 1 /\ job.kind # "run" -> "create"
                  [] job.left = 1 /\ job.kind = "hook" -> "complete"
                  [] job.left = 1 /\ job.kind \in {"cron", "behind"} -> "remember"
                  [] OTHER -> "record"
         /\ x = IF job.first = None THEN t ELSE job.first
         /\ j = AfterCreate(job, t)
  OBVIOUS
<1>2. j = [job EXCEPT !.left = job.left - 1, !.first = x, !.at = a]
  BY <1>1 DEF AfterCreate
<1>3. j = [kind |-> job.kind, at |-> a, push |-> job.push, ref |-> job.ref,
           left |-> job.left - 1, first |-> x]
  BY <1>2 DEF Jobs
<1>4. a \in Places
  BY <1>1 DEF Places
<1>5. x \in Tasks \cup {None}
  BY <1>1, JobFields
<1>6. j \in Jobs
  <2>1. job.left - 1 \in Nat
    OBVIOUS
  <2> QED
    BY <1>3, <1>4, <1>5, <2>1, JobFields DEF Jobs
<1> QED
  BY <1>1, <1>3, <1>6

-----------------------------------------------------------------------------
(* The queue keeps what is kept. *)

LEMMA PutKeeps ==
    ASSUME TypeOK, NEW t \in Tasks, NEW r \in Refs, PutTask(t, r), UNCHANGED built
    PROVE  /\ status' \in [Tasks -> Statuses] /\ target' \in [Tasks -> Refs \cup {None}]
           /\ status'[t] = "pending" /\ target'[t] = r
           /\ \A p : Kept(p) => Kept(p)'
<1>1. /\ status[t] = "absent" /\ status' = [status EXCEPT ![t] = "pending"]
      /\ target' = [target EXCEPT ![t] = r]
  BY DEF PutTask
<1>2. status \in [Tasks -> Statuses] /\ target \in [Tasks -> Refs \cup {None}]
  BY DEF TypeOK
<1> QED
  BY <1>1, <1>2 DEF Kept, Statuses

\* Steps of the queue, the scheduler and time
LEMMA Frame ==
    ASSUME IInv, UNCHANGED <<server, delivery, pushed, excused, unkept, made>>,
           TypeOK', CronInv', \A p \in pushed : Kept(p) => Kept(p)'
    PROVE  IInv'
<1>1. ServerInv'
  BY DEF IInv, ServerInv, HookAt, RunAt
<1>2. PushInv'
  BY DEF IInv, PushInv
<1>3. DeliveryInv'
  BY DEF IInv, DeliveryInv
<1> QED
  BY <1>1, <1>2, <1>3 DEF IInv

LEMMA StartTaskKeeps ==
    ASSUME IInv, NEW t \in Tasks, StartTask(t)
    PROVE  IInv'
<1>1. /\ status[t] = "pending" /\ status' = [status EXCEPT ![t] = "running"] /\ bound' = t
      /\ UNCHANGED <<target, built, recent, delivery, stale, pushed, excused, unkept, made,
                     server, cron, clock, faults>>
  BY DEF StartTask, hooks
<1>2. TypeOK'
  BY <1>1 DEF IInv, TypeOK, Statuses, clock
<1>3. \A p \in pushed : Kept(p) => Kept(p)'
  BY <1>1 DEF IInv, TypeOK, Kept
<1>4. CronInv'
  BY <1>1 DEF IInv, CronInv, CronAt
<1> QED
  BY <1>1, <1>2, <1>3, <1>4, Frame

LEMMA CloneKeeps ==
    ASSUME IInv, NEW t \in Tasks, Clone(t)
    PROVE  IInv'
<1>1. /\ status[t] = "running" /\ status' = [status EXCEPT ![t] = "cloned"]
      /\ built' = built \cup Of(target[t])
      /\ UNCHANGED <<target, bound, recent, delivery, stale, pushed, excused, unkept, made,
                     server, cron, clock, faults>>
  BY DEF Clone, hooks
<1>2. TypeOK'
  BY <1>1 DEF IInv, TypeOK, Statuses, Of, clock
<1>3. \A p \in pushed : Kept(p) => Kept(p)'
  BY <1>1 DEF IInv, TypeOK, Kept, Of
<1>4. CronInv'
  BY <1>1 DEF IInv, CronInv, CronAt
<1> QED
  BY <1>1, <1>2, <1>3, <1>4, Frame

LEMMA EndTaskKeeps ==
    ASSUME IInv, NEW t \in Tasks, EndTask(t)
    PROVE  IInv'
<1>1. /\ status[t] # "absent" /\ status' = [status EXCEPT ![t] = "absent"]
      /\ target' = [target EXCEPT ![t] = None]
      /\ built' = IF status[t] = "cloned" THEN built ELSE built \cup Of(target[t])
      /\ bound' = IF bound = t THEN None ELSE bound
      /\ UNCHANGED <<recent, delivery, stale, pushed, excused, unkept, made,
                     server, cron, clock, faults>>
  BY DEF EndTask, hooks
<1>2. TypeOK'
  BY <1>1 DEF IInv, TypeOK, Statuses, Of, clock
<1>3. ASSUME NEW p \in pushed, Kept(p) PROVE Kept(p)'
  <2>1. CASE p \in built
    BY <1>1, <2>1 DEF Kept
  <2>2. CASE \E x \in Tasks : status[x] \in {"pending", "running"} /\ target[x] = Target(p)
    <3>1. PICK x \in Tasks : status[x] \in {"pending", "running"} /\ target[x] = Target(p)
      BY <2>2
    <3>2. CASE x = t
      BY <1>1, <3>1, <3>2 DEF Kept, Of
    <3>3. CASE x # t
      <4>1. status'[x] = status[x] /\ target'[x] = target[x]
        BY <1>1, <3>3 DEF IInv, TypeOK
      <4> QED
        BY <3>1, <4>1 DEF Kept
    <3> QED
      BY <3>2, <3>3
  <2> QED
    BY <1>3, <2>1, <2>2 DEF Kept
<1>4. CronInv'
  BY <1>1 DEF IInv, CronInv, CronAt
<1> QED
  BY <1>1, <1>2, <1>3, <1>4, Frame

-----------------------------------------------------------------------------
(* The scheduler and time. *)

\* Steps of the scheduler that leave the rows alone
LEMMA ClockSteps ==
    ASSUME IInv, UNCHANGED <<status, target, built, hooks, server, now>>,
           checks' \subseteq 1..now, due' \in Nat, dropped' \subseteq Nat,
           fired' \in [DueTimes -> Nat],
           bound' \in Tasks \cup {None}, recent' \in Configs \cup {None},
           faults' \in 0..MaxFaults, cron' \in Jobs, CronInv'
    PROVE  IInv'
<1>1. TypeOK' /\ UNCHANGED <<server, delivery, pushed, excused, unkept, made>>
  BY DEF IInv, TypeOK, hooks
<1>2. \A p \in pushed : Kept(p) => Kept(p)'
  BY DEF Kept
<1> QED
  BY <1>1, <1>2, Frame

\* ... and those that leave the clock alone
LEMMA CronSteps ==
    ASSUME IInv, UNCHANGED <<status, target, built, hooks, server, clock>>,
           bound' \in Tasks \cup {None}, recent' \in Configs \cup {None},
           faults' \in 0..MaxFaults, cron' \in Jobs, CronInv'
    PROVE  IInv'
  BY ClockSteps DEF IInv, TypeOK, clock

LEMMA AnsweredType == now \in Nat => Answered(now) \in Nat
<1>1. ASSUME NEW e \in Nat \ {0}, NEW n \in Nat
      PROVE  ((n + e - 1) \div e) * e \in Nat /\ (n \div e) * e \in Nat
  <2>1. n + e - 1 \in Nat
    OBVIOUS
  <2>2. (n + e - 1) \div e \in Nat /\ n \div e \in Nat
    BY <2>1
  <2> QED
    BY <2>2
<1> QED
  BY <1>1 DEF Answered, NextDue

LEMMA CronCheckKeeps ==
    ASSUME IInv, CronCheck
    PROVE  IInv'
<1>1. /\ checks' = checks \cup {now}
      /\ UNCHANGED <<status, target, bound, built, recent, hooks, server, now, fired, dropped, faults>>
      /\ \/ /\ cron' = [Idle EXCEPT !.kind = "cron", !.at = "check", !.ref = Configured,
                                    !.left = 1]
            /\ due' = Answered(now)
         \/ UNCHANGED <<cron, due>>
  BY DEF CronCheck, queue
<1>2. now \in 1..MaxMinute /\ checks \subseteq 1..now /\ due \in Nat
  BY DEF IInv, TypeOK
<1>3. cron' \in Jobs /\ CronInv'
  <2>1. CASE cron' = [Idle EXCEPT !.kind = "cron", !.at = "check", !.ref = Configured, !.left = 1]
    <3>1. cron' = [kind |-> "cron", at |-> "check", push |-> None, ref |-> Configured,
                   left |-> 1, first |-> None]
      BY <2>1 DEF Idle
    <3> QED
      BY <3>1 DEF Jobs, Kinds, Places, CronInv, CronAt
  <2>2. CASE UNCHANGED cron
    BY <2>2 DEF IInv, TypeOK, CronInv, CronAt
  <2> QED
    BY <1>1, <2>1, <2>2
<1>4. checks' \subseteq 1..now /\ due' \in Nat
  BY <1>1, <1>2, AnsweredType
<1> QED
  BY <1>1, <1>3, <1>4, ClockSteps DEF IInv, TypeOK

LEMMA CronMaskKeeps ==
    ASSUME IInv, CronMask
    PROVE  IInv'
<1>1. /\ cron.at = "check"
      /\ (cron' = Idle /\ UNCHANGED recent)
           \/ (recent' = CronConfig /\ cron' = [cron EXCEPT !.at = "look"])
      /\ due' \in {0, due} /\ dropped' \in {dropped, dropped \cup {due}}
      /\ UNCHANGED <<status, target, bound, built, hooks, server, now, checks, fired, faults>>
  BY DEF CronMask, Drop, queue
<1>2. cron \in Jobs /\ CronAt(cron)
  BY <1>1 DEF IInv, TypeOK, CronInv, Idle
<1>3. cron' \in Jobs /\ CronInv'
  BY <1>1, <1>2, IdleType DEF Jobs, Places, CronInv, CronAt
<1>4. recent' \in Configs \cup {None}
  BY <1>1 DEF IInv, TypeOK, CronConfig, Configs
<1>5. due' \in Nat /\ dropped' \subseteq Nat
  BY <1>1 DEF IInv, TypeOK
<1> QED
  BY <1>1, <1>3, <1>4, <1>5, ClockSteps DEF IInv, TypeOK

LEMMA CronLookKeeps ==
    ASSUME IInv, CronLook
    PROVE  IInv'
<1>1. /\ cron.at = "look"
      /\ UNCHANGED <<status, target, bound, built, recent, hooks, server, clock, faults>>
      /\ \/ cron' = [cron EXCEPT !.at = "create"]
         \/ cron' = [cron EXCEPT !.at = "create",
                                 !.kind = IF cron.kind = "cron" THEN "behind" ELSE cron.kind]
         \/ cron' = [cron EXCEPT !.at = "unbind"]
  BY DEF CronLook, LookAt, queue
<1>2. cron \in Jobs /\ CronAt(cron) /\ cron.left = 1
  BY <1>1 DEF IInv, TypeOK, CronInv, CronAt, Idle
<1>3. cron' \in Jobs /\ CronInv'
  <2>1. /\ cron'.at \in {"create", "unbind"} /\ cron'.kind \in {"cron", "behind"}
        /\ cron' = [kind |-> cron'.kind, at |-> cron'.at, push |-> cron.push, ref |-> cron.ref,
                    left |-> cron.left, first |-> cron.first]
    BY <1>1, <1>2 DEF Jobs, CronAt
  <2> QED
    BY <1>2, <2>1, JobFields DEF Jobs, Kinds, Places, CronInv, CronAt
<1> QED
  BY <1>1, <1>3, CronSteps DEF IInv, TypeOK

LEMMA CronUnbindKeeps ==
    ASSUME IInv, CronUnbind
    PROVE  IInv'
<1>1. /\ cron.at = "unbind" /\ bound' = None /\ cron' = [cron EXCEPT !.at = "create"]
      /\ UNCHANGED <<status, target, built, recent, hooks, server, clock, faults>>
  BY DEF CronUnbind
<1>2. cron \in Jobs /\ CronAt(cron)
  BY <1>1 DEF IInv, TypeOK, CronInv, Idle
<1>3. cron' \in Jobs /\ CronInv'
  BY <1>1, <1>2 DEF Jobs, Places, CronInv, CronAt
<1> QED
  BY <1>1, <1>3, CronSteps DEF IInv, TypeOK

LEMMA CronCreateKeeps ==
    ASSUME IInv, NEW t \in Tasks, CronCreate(t)
    PROVE  IInv'
<1>1. /\ cron.at = "create" /\ PutTask(t, cron.ref) /\ cron' = AfterCreate(cron, t)
      /\ UNCHANGED <<bound, built, recent, delivery, stale, pushed, excused, unkept, made,
                     server, now, checks, dropped, faults>>
      /\ due' = 0 /\ fired' = [d \in DueTimes |-> fired[d] + IF d = due THEN 1 ELSE 0]
  BY DEF CronCreate, hooks
<1>2. cron \in Jobs /\ CronAt(cron) /\ cron.left = 1 /\ cron.ref \in Refs
  BY <1>1 DEF IInv, TypeOK, CronInv, CronAt, Idle
<1>3. cron' \in Jobs /\ CronInv'
  <2>1. AfterCreate(cron, t).at = "remember"
    BY <1>2, AfterCreateIs DEF CronAt
  <2> QED
    BY <1>1, <1>2, <2>1, AfterCreateIs DEF CronInv, CronAt
<1>4. PICK r \in Refs : PutTask(t, r)
  BY <1>1, <1>2
<1>5. /\ status' \in [Tasks -> Statuses] /\ target' \in [Tasks -> Refs \cup {None}]
      /\ \A p : Kept(p) => Kept(p)'
  BY <1>1, <1>4, PutKeeps DEF IInv
<1>6. fired' \in [DueTimes -> Nat]
  BY <1>1 DEF IInv, TypeOK
<1>7. TypeOK'
  BY <1>1, <1>3, <1>5, <1>6 DEF IInv, TypeOK
<1> QED
  BY <1>1, <1>3, <1>5, <1>7, Frame

LEMMA CronFailsKeeps ==
    ASSUME IInv, CronFails
    PROVE  IInv'
<1>1. /\ faults < MaxFaults /\ faults' = faults + 1 /\ cron' = Idle
      /\ due' = 0 /\ dropped' = dropped \cup {due}
      /\ UNCHANGED <<status, target, bound, built, recent, hooks, server, now, checks, fired>>
  BY DEF CronFails, Drop, queue
<1>2. faults' \in 0..MaxFaults /\ due' \in Nat /\ dropped' \subseteq Nat
  BY <1>1 DEF IInv, TypeOK
<1> QED
  BY <1>1, <1>2, IdleType, ClockSteps DEF IInv, TypeOK, CronInv

LEMMA CronRememberKeeps ==
    ASSUME IInv, CronRemember
    PROVE  IInv'
<1>1. /\ cron.at = "remember" /\ recent' = CronConfig
      /\ cron' = Idle \/ cron' = [cron EXCEPT !.at = "record"]
      /\ UNCHANGED <<status, target, bound, built, hooks, server, clock, faults>>
  BY DEF CronRemember, queue
<1>2. cron \in Jobs /\ CronAt(cron)
  BY <1>1 DEF IInv, TypeOK, CronInv, Idle
<1>3. cron' \in Jobs /\ CronInv'
  BY <1>1, <1>2, IdleType DEF Jobs, Places, CronInv, CronAt
<1> QED
  BY <1>1, <1>3, CronSteps DEF IInv, TypeOK, CronConfig, Configs

LEMMA CronRecordKeeps ==
    ASSUME IInv, CronRecord
    PROVE  IInv'
<1>1. /\ bound' = cron.first /\ cron' = Idle
      /\ UNCHANGED <<status, target, built, recent, hooks, server, clock, faults>>
  BY DEF CronRecord, Record
<1>2. cron.first \in Tasks \cup {None}
  BY JobFields DEF IInv, TypeOK
<1> QED
  BY <1>1, <1>2, IdleType, CronSteps DEF IInv, TypeOK, CronInv

LEMMA MinuteKeeps ==
    ASSUME IInv, Minute
    PROVE  IInv'
<1>1. /\ now < MaxMinute /\ now' = now + 1
      /\ UNCHANGED <<status, target, bound, built, recent, delivery, stale, pushed, excused,
                     unkept, made, server, cron, checks, due, fired, dropped, faults>>
  BY DEF Minute, queue, hooks
<1>2. TypeOK' /\ CronInv'
  BY <1>1 DEF IInv, TypeOK, CronInv, CronAt
<1>3. \A p \in pushed : Kept(p) => Kept(p)'
  BY <1>1 DEF Kept
<1> QED
  BY <1>1, <1>2, <1>3, Frame

LEMMA SecondsKeeps ==
    ASSUME IInv, Seconds
    PROVE  IInv'
<1>1. /\ recent' = None
      /\ UNCHANGED <<status, target, bound, built, hooks, server, cron, clock, faults>>
  BY DEF Seconds, queue
<1> QED
  BY <1>1, CronSteps DEF IInv, TypeOK, CronInv, CronAt

LEMMA FiveMinutesKeeps ==
    ASSUME IInv, NEW p \in Pushes, FiveMinutes(p)
    PROVE  IInv'
<1>1. /\ delivery[p] # "absent" /\ stale' = stale \cup {p}
      /\ UNCHANGED <<status, target, bound, built, recent, delivery, pushed, excused, unkept,
                     made, server, cron, clock, faults>>
  BY DEF FiveMinutes, queue
<1>2. TypeOK' /\ CronInv'
  BY <1>1 DEF IInv, TypeOK, CronInv, CronAt, clock
<1>3. \A x \in pushed : Kept(x) => Kept(x)'
  BY <1>1 DEF Kept
<1> QED
  BY <1>1, <1>2, <1>3, Frame

-----------------------------------------------------------------------------
(* The routes. *)

LEMMA RouteFrame ==
    ASSUME IInv, UNCHANGED <<cron, clock>>, TypeOK', ServerInv', PushInv', DeliveryInv'
    PROVE  IInv'
  BY DEF IInv, CronInv, CronAt

\* What the invariant says of the route that handles a commit
LEMMA HookFacts ==
    ASSUME IInv, server # Idle
    PROVE  /\ server \in Jobs /\ (HookAt(server) \/ RunAt(server))
           /\ HookAt(server) <=> server.push \in Pushes
           /\ server.push # None <=> server.push \in Pushes
           /\ pushed \subseteq Pushes
  BY JobFields DEF IInv, TypeOK, ServerInv, HookAt, RunAt

LEMMA IdleKeeps ==
    ASSUME IInv
    PROVE  /\ Idle \in Jobs /\ Idle.push = None /\ Idle.at = "idle"
           /\ server' = Idle => ServerInv'
           /\ \A p \in Pushes : server = Idle => server.push # p
  BY IdleType DEF Idle, ServerInv

LEMMA WebhookKeeps ==
    ASSUME IInv, NEW p \in Pushes, Webhook(p)
    PROVE  IInv'
<1>1. /\ server = Idle /\ Target(p) # None /\ pushed' = pushed \cup {p}
      /\ server' = [Idle EXCEPT !.kind = "hook", !.at = "reserve", !.push = p, !.ref = Target(p),
                                !.left = TagCount[Ref[p]]]
      /\ UNCHANGED <<status, target, bound, built, recent, delivery, stale, excused, unkept, made,
                     cron, clock, faults>>
  BY DEF Webhook, queue
<1>2. server' = [kind |-> "hook", at |-> "reserve", push |-> p, ref |-> Target(p),
                 left |-> TagCount[Ref[p]], first |-> None]
  BY <1>1 DEF Idle
<1>3. Target(p) \in Refs /\ TagCount[Ref[p]] \in Nat \ {0}
  BY <1>1, TargetType
<1>4. server' \in Jobs /\ ServerInv'
  <2>1. PICK n, r, j : /\ n = TagCount[Ref[p]] /\ n \in Nat \ {0}
                       /\ r = Target(p) /\ r \in Refs /\ j = server'
                       /\ j = [kind |-> "hook", at |-> "reserve", push |-> p, ref |-> r,
                               left |-> n, first |-> None]
    BY <1>2, <1>3
  <2>2. j \in Jobs
    BY <2>1 DEF Jobs, Kinds, Places
  <2>3. HookAt(server)'
    BY <1>1, <2>1 DEF HookAt
  <2> QED
    BY <2>1, <2>2, <2>3 DEF ServerInv
<1>5. TypeOK'
  BY <1>1, <1>4 DEF IInv, TypeOK, clock
<1>6. \A q \in Pushes : Kept(q) => Kept(q)'
  BY <1>1 DEF Kept
<1>7. PushInv'
  <2>1. ASSUME NEW q \in pushed' \ excused'
        PROVE  \/ Kept(q)'
               \/ server'.push = q /\ server'.at = "reserve" /\ delivery'[q] = "absent"
    <3>1. CASE q \in pushed
      BY <1>1, <1>6, <2>1, <3>1, IdleKeeps DEF IInv, TypeOK, PushInv
    <3>2. CASE q \notin pushed
      BY <1>1, <1>2, <2>1, <3>2 DEF IInv, PushInv
    <3> QED
      BY <3>1, <3>2
  <2> QED
    BY <1>1, <2>1 DEF IInv, PushInv
<1>8. DeliveryInv'
  BY <1>1, <1>2 DEF IInv, DeliveryInv
<1> QED
  BY <1>1, <1>4, <1>5, <1>7, <1>8, RouteFrame

LEMMA ReserveKeeps ==
    ASSUME IInv, Reserve
    PROVE  IInv'
<1>0. PICK p : p = server.push
  OBVIOUS
<1>1. server \in Jobs /\ HookAt(server) /\ p \in pushed /\ p \in Pushes /\ server.at = "reserve"
      /\ server.left = TagCount[Ref[p]] /\ server.left \in Nat
  BY <1>0, HookFacts, JobFields DEF Reserve, Idle, RunAt, HookAt
<1>2. UNCHANGED <<status, target, bound, built, recent, pushed, cron, clock>>
  BY DEF Reserve, queue
<1>3. \A q \in Pushes : Kept(q) => Kept(q)'
  BY <1>2 DEF Kept
<1>4. CASE /\ Taken(p) /\ server' = Idle
           /\ UNCHANGED <<delivery, stale, excused, unkept, made, faults>>
  <2>1. TypeOK'
    BY <1>2, <1>4, IdleKeeps DEF IInv, TypeOK, clock
  <2>2. PushInv'
    BY <1>0, <1>1, <1>2, <1>3, <1>4 DEF IInv, TypeOK, PushInv, Taken
  <2>3. DeliveryInv'
    BY <1>4, IdleKeeps DEF IInv, DeliveryInv
  <2> QED
    BY <1>2, <1>4, <2>1, <2>2, <2>3, IdleKeeps, RouteFrame
<1>5. CASE server' = [server EXCEPT !.at = "check"]
  <2>1. /\ server' = [kind |-> server.kind, at |-> "check", push |-> p, ref |-> server.ref,
                      left |-> server.left, first |-> server.first]
    BY <1>0, <1>1, <1>5 DEF Jobs
  <2>2. server' \in Jobs /\ ServerInv'
    BY <1>0, <1>1, <1>2, <2>1, JobFields DEF Jobs, Places, ServerInv, HookAt
  <2>3. \/ /\ ~Taken(p) /\ delivery' = [delivery EXCEPT ![p] = "reserved"]
           /\ stale' = stale \ {p} /\ excused' = excused \ {p}
           /\ made' = IF delivery[p] = "absent" THEN made ELSE [made EXCEPT ![p] = 0]
           /\ UNCHANGED <<unkept, faults>>
        \/ /\ faults < MaxFaults /\ faults' = faults + 1 /\ unkept' = unkept \cup {p}
           /\ UNCHANGED <<delivery, stale, excused, made>>
    <3>1. server' # Idle
      BY <2>1 DEF Idle
    <3> QED
      BY <1>0, <3>1 DEF Reserve
  <2>4. TypeOK'
    BY <1>1, <1>2, <2>2, <2>3 DEF IInv, TypeOK, clock
  <2>5. PushInv'
    <3>1. \A q \in Pushes : delivery'[q] # "absent" => q \in pushed'
      BY <1>1, <1>2, <2>3 DEF IInv, TypeOK, PushInv
    <3>2. \A q \in (pushed' \ excused') \ {p} : Kept(q)'
      BY <1>0, <1>2, <1>3, <2>3 DEF IInv, TypeOK, PushInv
    <3> QED
      BY <2>1, <3>1, <3>2 DEF PushInv
  <2>6. DeliveryInv'
    <3>1. ASSUME NEW q \in Pushes \ unkept', q # p
          PROVE  /\ made'[q] = made[q] /\ delivery'[q] = delivery[q] /\ q \notin unkept
      BY <2>3, <3>1 DEF IInv, TypeOK
    <3>2. p \in unkept' \/ made'[p] = 0
      BY <1>1, <2>3 DEF IInv, TypeOK, DeliveryInv
    <3>3. TagCount[Ref[p]] \in Nat /\ 0 + TagCount[Ref[p]] <= TagCount[Ref[p]]
      BY <1>1
    <3>4. p \notin unkept' => delivery'[p] # "absent"
      BY <1>1, <2>3 DEF IInv, TypeOK
    <3>5. ASSUME NEW q \in Pushes \ unkept', q # p
          PROVE  /\ made'[q] <= TagCount[Ref[q]]
                 /\ delivery'[q] = "absent" => made'[q] = 0
                 /\ server'.push # q
      BY <2>1, <3>1, <3>5 DEF IInv, DeliveryInv
    <3>6. ASSUME p \notin unkept'
          PROVE  /\ made'[p] <= TagCount[Ref[p]]
                 /\ delivery'[p] = "absent" => made'[p] = 0
                 /\ made'[p] + server'.left <= TagCount[Ref[p]]
      BY <1>1, <2>1, <3>2, <3>3, <3>6
    <3> QED
      BY <3>4, <3>5, <3>6 DEF DeliveryInv
  <2> QED
    BY <1>2, <2>2, <2>4, <2>5, <2>6, RouteFrame
<1> QED
  BY <1>0, <1>4, <1>5 DEF Reserve

LEMMA CheckKeeps ==
    ASSUME IInv, Check
    PROVE  IInv'
<1>0. PICK p : p = server.push
  OBVIOUS
<1>1. server \in Jobs /\ HookAt(server) /\ p \in pushed /\ p \in Pushes /\ server.at = "check"
      /\ server.left = TagCount[Ref[p]] /\ server.left \in Nat \ {0} /\ Target(p) \in Refs
  BY <1>0, HookFacts, JobFields, TargetType DEF Check, Idle, RunAt, HookAt
<1>2. UNCHANGED <<status, target, bound, built, delivery, stale, pushed, unkept, made, cron, clock,
                  faults>>
  BY DEF Check, queue
<1>3. \A q \in Pushes : Kept(q) => Kept(q)'
  BY <1>2 DEF Kept
<1>4. CASE excused' = excused \cup {p} /\ server' = Idle /\ UNCHANGED recent
  <2>1. TypeOK'
    BY <1>1, <1>2, <1>4, IdleKeeps DEF IInv, TypeOK, clock
  <2>2. PushInv'
    BY <1>0, <1>1, <1>2, <1>3, <1>4 DEF IInv, TypeOK, PushInv
  <2>3. DeliveryInv'
    BY <1>2, <1>4, IdleKeeps DEF IInv, DeliveryInv
  <2> QED
    BY <1>2, <1>4, <2>1, <2>2, <2>3, IdleKeeps, RouteFrame
<1>5. CASE recent' = Config(p) /\ server' = [server EXCEPT !.at = "create"] /\ UNCHANGED excused
  <2>1. server' = [kind |-> server.kind, at |-> "create", push |-> p, ref |-> server.ref,
                   left |-> server.left, first |-> server.first]
    BY <1>0, <1>1, <1>5 DEF Jobs
  <2>2. server' \in Jobs /\ ServerInv'
    BY <1>0, <1>1, <1>2, <2>1, JobFields DEF Jobs, Places, ServerInv, HookAt
  <2>3. recent' \in Configs \cup {None}
    BY <1>1, <1>5, TargetType DEF Config, Configs
  <2>4. TypeOK'
    BY <1>2, <1>5, <2>2, <2>3 DEF IInv, TypeOK, clock
  <2>5. PushInv'
    BY <1>0, <1>1, <1>2, <1>3, <1>5, <2>1 DEF IInv, TypeOK, PushInv
  <2>6. DeliveryInv'
    BY <1>0, <1>1, <1>2, <2>1 DEF IInv, DeliveryInv
  <2> QED
    BY <1>2, <2>2, <2>4, <2>5, <2>6, RouteFrame
<1> QED
  BY <1>0, <1>4, <1>5 DEF Check

LEMMA ServerCreateKeeps ==
    ASSUME IInv, NEW t \in Tasks, ServerCreate(t)
    PROVE  IInv'
<1>0. PICK p : p = server.push
  OBVIOUS
<1>1. /\ server.at = "create" /\ PutTask(t, server.ref)
      /\ server' = IF server.kind = "quick" /\ server.left = 1 THEN Idle
                   ELSE AfterCreate(server, t)
      /\ made' = IF p = None THEN made ELSE [made EXCEPT ![p] = @ + 1]
      /\ UNCHANGED <<bound, built, recent, delivery, stale, pushed, excused, unkept, cron, clock,
                     faults>>
  BY <1>0 DEF ServerCreate
<1>2. /\ server \in Jobs /\ (HookAt(server) \/ RunAt(server)) /\ server.left \in Nat \ {0}
      /\ server.ref \in Refs /\ (p # None => p \in Pushes /\ server.ref = Target(p))
      /\ HookAt(server) <=> p \in Pushes
  <2>1. server # Idle
    BY <1>1 DEF Idle
  <2>2. \A x \in Refs : TagCount[x] \in Nat
    OBVIOUS
  <2> QED
    BY <1>0, <1>1, <2>1, <2>2, HookFacts, JobFields, TargetType DEF HookAt, RunAt
<1>3. PICK r \in Refs : r = server.ref /\ PutTask(t, r)
  BY <1>1, <1>2
<1>4. /\ status' \in [Tasks -> Statuses] /\ target' \in [Tasks -> Refs \cup {None}]
      /\ status'[t] = "pending" /\ target'[t] = server.ref
      /\ \A q : Kept(q) => Kept(q)'
  BY <1>1, <1>3, PutKeeps DEF IInv
<1>5. p # None => Kept(p)'
  BY <1>2, <1>4 DEF Kept
<1>6. /\ server' \in Jobs /\ ServerInv'
      /\ server' = Idle \/ (server'.push = p /\ server'.left = server.left - 1
                              /\ server'.at # "reserve")
  <2>1. CASE server.kind = "quick" /\ server.left = 1
    BY <1>1, <2>1, IdleKeeps
  <2>2. CASE ~(server.kind = "quick" /\ server.left = 1)
    <3>1. PICK j : j = AfterCreate(server, t)
      OBVIOUS
    <3>2. /\ server' = j /\ j \in Jobs /\ j.kind = server.kind /\ j.push = p
          /\ j.ref = server.ref /\ j.left = server.left - 1
          /\ j.at = CASE server.left > 1 /\ server.kind = "run" -> "look"
                      [] server.left > 1 /\ server.kind # "run" -> "create"
                      [] server.left = 1 /\ server.kind = "hook" -> "complete"
                      [] server.left = 1 /\ server.kind \in {"cron", "behind"} -> "remember"
                      [] OTHER -> "record"
      BY <1>0, <1>1, <1>2, <2>2, <3>1, AfterCreateIs
    <3>3. CASE HookAt(server)
      <4>1. server.left \in 1..TagCount[Ref[p]] /\ TagCount[Ref[p]] \in Nat
        BY <1>0, <1>1, <1>2, <3>3, TargetType DEF HookAt
      <4>2. IF server.left > 1 THEN j.at = "create" ELSE j.at = "complete"
        BY <1>2, <3>2, <3>3 DEF HookAt
      <4>3. HookAt(j)'
        BY <1>0, <1>1, <3>2, <3>3, <4>1, <4>2 DEF HookAt
      <4> QED
        BY <3>2, <4>2, <4>3 DEF ServerInv, HookAt
    <3>4. CASE RunAt(server)
      <4>1. \/ j.at \in {"look", "create"} /\ server.left > 1
            \/ j.at = "record" /\ server.left = 1
        <5>1. CASE server.left > 1
          BY <3>2, <5>1
        <5>2. CASE server.left = 1
          BY <2>2, <3>2, <3>4, <5>2 DEF RunAt
        <5> QED
          BY <1>2, <5>1, <5>2
      <4>2. RunAt(j)
        BY <1>0, <1>2, <3>2, <3>4, <4>1 DEF RunAt
      <4> QED
        BY <3>2, <4>1, <4>2 DEF ServerInv, RunAt
    <3> QED
      BY <1>2, <3>3, <3>4
  <2> QED
    BY <2>1, <2>2
<1>7. TypeOK'
  BY <1>1, <1>2, <1>4, <1>6 DEF IInv, TypeOK, clock
<1>8. PushInv'
  BY <1>0, <1>1, <1>2, <1>4, <1>5 DEF IInv, TypeOK, PushInv
<1>9. DeliveryInv'
  <2>1. ASSUME NEW q \in Pushes \ unkept, q # p
        PROVE  made'[q] = made[q] /\ server'.push # q
    BY <1>1, <1>2, <1>6, <2>1, IdleKeeps DEF IInv, TypeOK
  <2>2. ASSUME p \in Pushes \ unkept
        PROVE  /\ made'[p] = made[p] + 1 /\ made[p] \in Nat
               /\ made[p] + server.left <= TagCount[Ref[p]]
               /\ delivery[p] # "absent"
    BY <1>0, <1>1, <1>2, <2>2 DEF IInv, TypeOK, DeliveryInv
  <2>3. ASSUME NEW q \in Pushes \ unkept, q # p
        PROVE  /\ made'[q] <= TagCount[Ref[q]]
               /\ delivery'[q] = "absent" => made'[q] = 0
    BY <1>1, <2>1, <2>3 DEF IInv, DeliveryInv
  <2>4. ASSUME p \in Pushes \ unkept
        PROVE  /\ made'[p] <= TagCount[Ref[p]] /\ delivery'[p] # "absent"
               /\ server' = Idle \/ made'[p] + server'.left <= TagCount[Ref[p]]
    <3>1. /\ made'[p] = made[p] + 1 /\ made[p] \in Nat
          /\ made[p] + server.left <= TagCount[Ref[p]] /\ delivery[p] # "absent"
      BY <2>2, <2>4
    <3>2. TagCount[Ref[p]] \in Nat
      BY <2>4, TargetType
    <3> QED
      BY <1>1, <1>2, <1>6, <3>1, <3>2
  <2> QED
    BY <1>1, <1>6, <2>1, <2>3, <2>4, IdleKeeps DEF DeliveryInv
<1> QED
  BY <1>1, <1>6, <1>7, <1>8, <1>9, RouteFrame

LEMMA CreateFailsKeeps ==
    ASSUME IInv, CreateFails
    PROVE  IInv'
<1>0. PICK p : p = server.push
  OBVIOUS
<1>1. /\ server.at = "create" /\ faults < MaxFaults /\ faults' = faults + 1
      /\ excused' = IF p = None THEN excused ELSE excused \cup {p}
      /\ server' = Idle
      /\ UNCHANGED <<status, target, bound, built, recent, delivery, stale, pushed, unkept, made,
                     cron, clock>>
  BY <1>0 DEF CreateFails, queue
<1>2. p # None => p \in pushed
  BY <1>0, <1>1, HookFacts DEF Idle, HookAt, RunAt
<1>3. \A q \in Pushes : Kept(q) => Kept(q)'
  BY <1>1 DEF Kept
<1>4. TypeOK'
  BY <1>1, <1>2, IdleKeeps DEF IInv, TypeOK, clock
<1>5. PushInv'
  BY <1>0, <1>1, <1>3 DEF IInv, TypeOK, PushInv
<1>6. DeliveryInv'
  BY <1>1, IdleKeeps DEF IInv, DeliveryInv
<1> QED
  BY <1>1, <1>4, <1>5, <1>6, IdleKeeps, RouteFrame

LEMMA CompleteKeeps ==
    ASSUME IInv, Complete
    PROVE  IInv'
<1>0. PICK p : p = server.push
  OBVIOUS
<1>1. server \in Jobs /\ HookAt(server) /\ p \in pushed /\ p \in Pushes /\ server.at = "complete"
      /\ server.left = 0
  BY <1>0, HookFacts DEF Complete, Idle, RunAt, HookAt
<1>2. /\ server' = [server EXCEPT !.at = "record"]
      /\ UNCHANGED <<status, target, bound, built, recent, pushed, excused, unkept, made, cron,
                     clock>>
  BY DEF Complete, queue
<1>3. \/ /\ delivery[p] # "absent" /\ delivery' = [delivery EXCEPT ![p] = "created"]
         /\ stale' = stale \ {p} /\ UNCHANGED faults
      \/ UNCHANGED <<delivery, stale, faults>>
      \/ faults < MaxFaults /\ faults' = faults + 1 /\ UNCHANGED <<delivery, stale>>
  BY <1>0 DEF Complete
<1>4. server' = [kind |-> server.kind, at |-> "record", push |-> p, ref |-> server.ref,
                 left |-> server.left, first |-> server.first]
  BY <1>0, <1>1, <1>2 DEF Jobs
<1>5. server' \in Jobs /\ ServerInv'
  BY <1>0, <1>1, <1>2, <1>4, JobFields DEF Jobs, Places, ServerInv, HookAt
<1>6. TypeOK'
  BY <1>1, <1>2, <1>3, <1>5 DEF IInv, TypeOK, clock
<1>7. \A q \in Pushes : Kept(q) => Kept(q)'
  BY <1>2 DEF Kept
<1>8. \A q \in Pushes : delivery'[q] = "absent" <=> delivery[q] = "absent"
  BY <1>1, <1>3 DEF IInv, TypeOK
<1>9. PushInv'
  BY <1>0, <1>1, <1>2, <1>7, <1>8 DEF IInv, TypeOK, PushInv
<1>10. DeliveryInv'
  BY <1>0, <1>1, <1>2, <1>4, <1>8 DEF IInv, DeliveryInv
<1> QED
  BY <1>2, <1>5, <1>6, <1>9, <1>10, RouteFrame

\* Steps of a route that leave commits and deliveries alone
LEMMA RouteSteps ==
    ASSUME IInv, UNCHANGED <<status, target, built, recent, hooks, cron, clock, faults>>,
           bound' \in Tasks \cup {None}, server' \in Jobs, ServerInv',
           \/ server' = Idle /\ server.at = "record"
           \/ server'.push = None /\ server.push = None
    PROVE  IInv'
<1>1. UNCHANGED <<delivery, stale, pushed, excused, unkept, made>>
  BY DEF hooks
<1>2. TypeOK'
  BY <1>1 DEF IInv, TypeOK, clock
<1>3. \A q \in Pushes : Kept(q) => Kept(q)'
  BY DEF Kept
<1>4. \A q \in Pushes : server'.push # q
  BY IdleKeeps
<1>5. PushInv'
  BY <1>1, <1>3, <1>4 DEF IInv, TypeOK, PushInv
<1>6. DeliveryInv'
  BY <1>1, <1>4 DEF IInv, DeliveryInv
<1> QED
  BY <1>2, <1>5, <1>6, RouteFrame

LEMMA ServerRecordKeeps ==
    ASSUME IInv, ServerRecord
    PROVE  IInv'
<1>1. /\ server.at = "record" /\ bound' = server.first /\ server' = Idle
      /\ UNCHANGED <<status, target, built, recent, hooks, cron, clock, faults>>
  BY DEF ServerRecord, Record
<1>2. server.first \in Tasks \cup {None}
  BY JobFields DEF IInv, TypeOK
<1> QED
  BY <1>1, <1>2, IdleKeeps, RouteSteps

LEMMA RunPipelineKeeps ==
    ASSUME IInv, NEW r \in Refs, RunPipeline(r)
    PROVE  IInv'
<1>0. PICK debounced \in BOOLEAN :
         server' = [Idle EXCEPT !.kind = IF debounced THEN "quick" ELSE "run",
                                !.at = IF debounced THEN "create" ELSE "look",
                                !.ref = r, !.left = TagCount[r]]
  BY DEF RunPipeline
<1>1. PICK k, a :
         /\ (k = "quick" /\ a = "create") \/ (k = "run" /\ a = "look")
         /\ server' = [Idle EXCEPT !.kind = k, !.at = a, !.ref = r, !.left = TagCount[r]]
  <2>1. PICK k, a : /\ k = IF debounced THEN "quick" ELSE "run"
                    /\ a = IF debounced THEN "create" ELSE "look"
    OBVIOUS
  <2>2. server' = [Idle EXCEPT !.kind = k, !.at = a, !.ref = r, !.left = TagCount[r]]
    BY <1>0, <2>1
  <2>3. (k = "quick" /\ a = "create") \/ (k = "run" /\ a = "look")
    BY <2>1
  <2> QED
    BY <2>2, <2>3
<1>2. /\ server = Idle
      /\ UNCHANGED <<status, target, bound, built, recent, hooks, cron, clock, faults>>
  BY DEF RunPipeline, queue
<1>3. server' = [kind |-> k, at |-> a, push |-> None, ref |-> r, left |-> TagCount[r],
                 first |-> None]
  BY <1>1 DEF Idle
<1>4. TagCount[r] \in Nat \ {0}
  OBVIOUS
<1>5. server' \in Jobs /\ ServerInv'
  <2>1. PICK n, j : /\ n = TagCount[r] /\ n \in Nat \ {0} /\ j = server'
                    /\ j = [kind |-> k, at |-> a, push |-> None, ref |-> r, left |-> n,
                            first |-> None]
    BY <1>3, <1>4
  <2>2. j \in Jobs
    BY <1>1, <2>1 DEF Jobs, Kinds, Places
  <2>3. RunAt(j)
    <3>1. j.kind = k /\ j.at = a /\ j.push = None /\ j.ref = r /\ j.left = n
      BY <2>1
    <3>2. k \in {"run", "quick"} /\ a \in {"look", "unbind", "create"}
      BY <1>1
    <3> QED
      BY <2>1, <3>1, <3>2 DEF RunAt
  <2> QED
    BY <2>1, <2>2, <2>3 DEF ServerInv, RunAt
<1> QED
  BY <1>2, <1>3, <1>5, IdleKeeps, RouteSteps DEF IInv, TypeOK

LEMMA ServerLookKeeps ==
    ASSUME IInv, ServerLook
    PROVE  IInv'
<1>1. /\ server.at = "look"
      /\ UNCHANGED <<status, target, bound, built, recent, hooks, cron, clock, faults>>
      /\ \/ server' = [server EXCEPT !.at = "create"]
         \/ server' = [server EXCEPT !.at = "create",
                                     !.kind = IF server.kind = "cron" THEN "behind"
                                              ELSE server.kind]
         \/ server' = [server EXCEPT !.at = "unbind"]
  BY DEF ServerLook, LookAt, queue
<1>2. server \in Jobs /\ RunAt(server)
  BY <1>1, HookFacts DEF Idle, HookAt
<1>3. server' \in Jobs /\ ServerInv' /\ server'.push = None
  <2>1. /\ server'.at \in {"create", "unbind"}
        /\ server' = [kind |-> server.kind, at |-> server'.at, push |-> server.push,
                      ref |-> server.ref, left |-> server.left, first |-> server.first]
    BY <1>1, <1>2 DEF Jobs, RunAt
  <2> QED
    BY <1>1, <1>2, <2>1, JobFields DEF Jobs, Places, ServerInv, RunAt
<1> QED
  BY <1>1, <1>2, <1>3, RouteSteps DEF IInv, TypeOK, RunAt

LEMMA ServerUnbindKeeps ==
    ASSUME IInv, ServerUnbind
    PROVE  IInv'
<1>1. /\ server.at = "unbind" /\ bound' = None /\ server' = [server EXCEPT !.at = "create"]
      /\ UNCHANGED <<status, target, built, recent, hooks, cron, clock, faults>>
  BY DEF ServerUnbind
<1>2. server \in Jobs /\ RunAt(server)
  BY <1>1, HookFacts DEF Idle, HookAt
<1>3. server' \in Jobs /\ ServerInv' /\ server'.push = None
  BY <1>1, <1>2 DEF Jobs, Places, ServerInv, RunAt
<1> QED
  BY <1>1, <1>2, <1>3, RouteSteps DEF RunAt

-----------------------------------------------------------------------------
LEMMA InitInv == Init => IInv
<1> SUFFICES ASSUME Init PROVE IInv
  OBVIOUS
<1>1. TypeOK
  BY IdleType DEF Init, TypeOK, Statuses
<1>2. PushInv /\ DeliveryInv
  <2>1. \A p \in Pushes : TagCount[Ref[p]] \in Nat
    BY TargetType
  <2> QED
    BY <2>1, IdleKeeps DEF Init, PushInv, DeliveryInv, Idle
<1> QED
  BY <1>1, <1>2 DEF Init, IInv, ServerInv, CronInv

LEMMA StepKeeps == IInv /\ [Next]_vars => IInv'
<1> SUFFICES ASSUME IInv, [Next]_vars PROVE IInv'
  OBVIOUS
<1>1. CASE \E t \in Tasks : \/ StartTask(t) \/ Clone(t) \/ EndTask(t)
                            \/ ServerCreate(t) \/ CronCreate(t)
  BY <1>1, StartTaskKeeps, CloneKeeps, EndTaskKeeps, ServerCreateKeeps, CronCreateKeeps
<1>2. CASE \E p \in Pushes : Webhook(p) \/ FiveMinutes(p)
  BY <1>2, WebhookKeeps, FiveMinutesKeeps
<1>3. CASE \E r \in Refs : RunPipeline(r)
  BY <1>3, RunPipelineKeeps
<1>4. CASE \/ Reserve \/ Check \/ CreateFails \/ Complete \/ ServerRecord
           \/ ServerLook \/ ServerUnbind
  BY <1>4, ReserveKeeps, CheckKeeps, CreateFailsKeeps, CompleteKeeps, ServerRecordKeeps,
     ServerLookKeeps, ServerUnbindKeeps
<1>5. CASE \/ CronCheck \/ CronMask \/ CronLook \/ CronUnbind \/ CronFails
           \/ CronRemember \/ CronRecord \/ Minute \/ Seconds
  BY <1>5, CronCheckKeeps, CronMaskKeeps, CronLookKeeps, CronUnbindKeeps, CronFailsKeeps,
     CronRememberKeeps, CronRecordKeeps, MinuteKeeps, SecondsKeeps
<1>6. CASE UNCHANGED vars
  BY <1>6, CronSteps DEF vars, queue, hooks, clock, IInv, TypeOK, CronInv, CronAt
<1> QED
  BY <1>1, <1>2, <1>3, <1>4, <1>5, <1>6 DEF Next

(***************************************************************************)
(* The inductive invariant: what the route and the scheduler have in hand, *)
(* the reservations and the rows account for every commit announced.       *)
(***************************************************************************)
THEOREM Invariance == Spec => []IInv
<1>1. Init => IInv
  BY InitInv
<1>2. IInv /\ [Next]_vars => IInv'
  BY StepKeeps
<1> QED
  BY <1>1, <1>2, PTL DEF Spec

(***************************************************************************)
(* Rows, bindings, reservations, routes and the clock keep their types.    *)
(***************************************************************************)
THEOREM TypeCorrect == Spec => []TypeOK
<1>1. IInv => TypeOK
  BY DEF IInv
<1> QED
  BY <1>1, Invariance, PTL

(***************************************************************************)
(* A commit whose webhook was answered is in a build, or a row that builds *)
(* its ref has still to clone it (webhook_trigger), unless the webhook was *)
(* debounced or failed.                                                    *)
(***************************************************************************)
THEOREM NotForgotten == Spec => []PushNotForgotten
<1>1. IInv => PushNotForgotten
  BY DEF IInv, PushInv, PushNotForgotten, Kept
<1> QED
  BY <1>1, Invariance, PTL

(***************************************************************************)
(* One row for each image tag, however often a commit is delivered         *)
(* (reserve_webhook_delivery), while reservations do not fail.             *)
(***************************************************************************)
THEOREM Delivered == Spec => []DeliveredOnce
<1>1. IInv => DeliveredOnce
  BY DEF IInv, DeliveryInv, DeliveredOnce
<1> QED
  BY <1>1, Invariance, PTL

-----------------------------------------------------------------------------
(* The due times. *)

LEMMA UniqueQuotient ==
    ASSUME NEW e \in Nat \ {0}, NEW a \in Nat, NEW b \in Nat, NEW r \in Nat, NEW s \in Nat,
           r < e, s < e, e * a + r = e * b + s, a < b
    PROVE  FALSE
<1>1. PICK c \in Nat : b = a + 1 + c
  <2>1. b - a - 1 \in Nat /\ b = a + 1 + (b - a - 1)
    OBVIOUS
  <2> QED
    BY <2>1
<1>2. e * b = e * a + e + e * c
  BY <1>1
<1>3. e * c \in Nat /\ e * a \in Nat
  OBVIOUS
<1> QED
  BY <1>2, <1>3

LEMMA Quotient ==
    ASSUME NEW e \in Nat \ {0}, NEW k \in Nat, NEW r \in Nat, r < e, NEW n \in Nat, n = e * k + r
    PROVE  n \div e = k
<1>1. PICK q, s : q = n \div e /\ s = n % e
  OBVIOUS
<1>2. q \in Nat /\ s \in Nat /\ s < e /\ n = e * q + s
  BY <1>1
<1>3. ~(q < k) /\ ~(k < q)
  BY <1>2, UniqueQuotient
<1> QED
  BY <1>1, <1>2, <1>3

\* The check in the minute of a due time, or in the one before, finds it.
LEMMA Finds ==
    ASSUME Every >= 2, NEW d \in DueTimes
    PROVE  /\ d \in Nat /\ d >= Every
           /\ NextDue(d) = d /\ NextDue(d - 1) = d
           /\ (d \div Every) * Every = d /\ ((d + 1) \div Every) * Every = d
<1>1. PICK e \in Nat : e = Every /\ e >= 2
  OBVIOUS
<1>2. d \in Nat \ {0} /\ d % e = 0
  BY <1>1 DEF DueTimes
<1>3. PICK k \in Nat : d = e * k
  <2>1. PICK q, s : q = d \div e /\ s = d % e
    OBVIOUS
  <2>2. q \in Nat /\ s \in Nat /\ d = e * q + s
    BY <1>1, <1>2, <2>1
  <2>3. d = e * q
    BY <1>1, <1>2, <2>1, <2>2
  <2> QED
    BY <2>2, <2>3
<1>4. k >= 1 /\ d >= e
  BY <1>1, <1>2, <1>3
<1>5. d \div e = k
  BY <1>1, <1>2, <1>3, Quotient
<1>6. (d + 1) \div e = k
  BY <1>1, <1>2, <1>3, Quotient
<1>7. (d + e - 1) \div e = k
  <2>1. d + e - 1 \in Nat /\ d + e - 1 = e * k + (e - 1) /\ e - 1 \in Nat /\ e - 1 < e
    BY <1>1, <1>2, <1>3
  <2> QED
    BY <1>1, <2>1, Quotient
<1>8. (d - 1 + e - 1) \div e = k
  <2>1. /\ d - 1 + e - 1 \in Nat /\ d - 1 + e - 1 = e * k + (e - 2)
        /\ e - 2 \in Nat /\ e - 2 < e
    BY <1>1, <1>2, <1>3
  <2> QED
    BY <1>1, <2>1, Quotient
<1>9. k * e = d
  BY <1>1, <1>3
<1> QED
  BY <1>1, <1>2, <1>4, <1>5, <1>6, <1>7, <1>8, <1>9 DEF NextDue

\* The scheduler has a due time in hand only until its row is created.
DueAt == due # 0 => cron.at \in {"check", "look", "unbind", "create"}

\* A check in time finds the due time d.
LEMMA LookedFinds ==
    ASSUME IInv, Every >= 2, NEW d \in DueTimes,
           IF Stored = None THEN now \in {d - 1, d} ELSE Stored <= d /\ d <= now /\ now < d + Every
    PROVE  Due(now) /\ Answered(now) = d
<1>1. /\ d \in Nat /\ NextDue(d) = d /\ NextDue(d - 1) = d /\ now \in Nat
      /\ d % Every = 0 /\ Stored \in Nat \cup {None}
  BY Finds DEF IInv, TypeOK, DueTimes
<1>2. CASE Stored = None
  BY <1>1, <1>2 DEF Due, Answered
<1>3. CASE Stored # None
  <2>1. PICK e \in Nat \ {0} : e = Every
    OBVIOUS
  <2>2. PICK k \in Nat : d = e * k
    <3>1. PICK q, s : q = d \div e /\ s = d % e
      OBVIOUS
    <3>2. q \in Nat /\ s \in Nat /\ d = e * q + s
      BY <1>1, <2>1, <3>1
    <3>3. d = e * q
      BY <1>1, <2>1, <3>1, <3>2
    <3> QED
      BY <3>2, <3>3
  <2>3. now - d \in Nat /\ now - d < e /\ now = e * k + (now - d)
    BY <1>1, <1>3, <2>1, <2>2
  <2>4. now \div e = k
    BY <1>1, <2>1, <2>3, Quotient
  <2>5. (now \div e) * e = d
    BY <2>2, <2>4
  <2> QED
    BY <1>1, <1>3, <2>1, <2>5 DEF Due, Answered
<1> QED
  BY <1>2, <1>3

\* The check of this minute looks for no other due times than before, or finds them.
LEMMA CheckMeets ==
    ASSUME IInv, DueAt, DueTimeMet, Every >= 2, CronCheck
    PROVE  DueTimeMet'
<1> SUFFICES ASSUME NEW d \in DueTimes \ dropped, Looked(d)' PROVE fired[d] > 0 \/ due' = d
  BY DEF CronCheck, DueTimeMet
<1>1. /\ cron = Idle /\ checks' = checks \cup {now} /\ UNCHANGED now
      /\ Due(now) => due' = Answered(now)
      /\ ~Due(now) => due' = due
  BY DEF CronCheck
<1>2. due = 0 /\ d # 0
  BY <1>1 DEF DueAt, Idle, DueTimes
<1>3. CASE Looked(d)
  BY <1>2, <1>3 DEF DueTimeMet
<1>4. CASE ~Looked(d)
  <2>1. IF Stored = None THEN now \in {d - 1, d} ELSE Stored <= d /\ d <= now /\ now < d + Every
    BY <1>1, <1>4 DEF Looked
  <2> QED
    BY <1>1, <2>1, LookedFinds
<1> QED
  BY <1>3, <1>4

LEMMA DueStep ==
    ASSUME IInv, DueAt, DueTimeMet, Every >= 2, [Next]_vars
    PROVE  DueAt' /\ DueTimeMet'
<1>1. cron \in Jobs /\ CronInv
  BY DEF IInv, TypeOK
<1>2. CASE CronCheck
  <2>1. DueAt'
    <3>1. cron = Idle /\ due = 0
      BY <1>2 DEF CronCheck, DueAt, Idle
    <3> QED
      BY <1>2, <3>1 DEF CronCheck, DueAt, Idle
  <2> QED
    BY <1>2, <2>1, CheckMeets
<1>3. CASE CronMask \/ CronFails
  <2>1. CASE Drop /\ UNCHANGED <<checks, fired>>
    <3>1. DueAt'
      BY <2>1 DEF Drop, DueAt
    <3>2. DueTimeMet'
      BY <2>1 DEF Drop, DueTimeMet, Looked
    <3> QED
      BY <3>1, <3>2
  <2>2. CASE cron' = [cron EXCEPT !.at = "look"] /\ UNCHANGED <<checks, due, fired, dropped>>
    <3>1. cron'.at = "look"
      BY <1>1, <2>2 DEF Jobs
    <3> QED
      BY <2>2, <3>1 DEF DueAt, DueTimeMet, Looked
  <2> QED
    BY <1>3, <2>1, <2>2 DEF CronMask, CronFails
<1>4. CASE \E t \in Tasks : CronCreate(t)
  <2>1. /\ due' = 0 /\ UNCHANGED <<checks, dropped>>
        /\ fired' = [d \in DueTimes |-> fired[d] + IF d = due THEN 1 ELSE 0]
    BY <1>4 DEF CronCreate
  <2>2. \A d \in DueTimes : /\ fired[d] > 0 => fired'[d] > 0
                            /\ d = due => fired'[d] > 0
    BY <2>1 DEF IInv, TypeOK
  <2> QED
    BY <2>1, <2>2 DEF DueAt, DueTimeMet, Looked
<1>5. CASE CronLook \/ CronUnbind \/ CronRemember \/ CronRecord
  <2>1. UNCHANGED <<checks, due, fired, dropped>>
    BY <1>5 DEF CronLook, CronUnbind, CronRemember, CronRecord, clock
  <2>2. CASE CronLook \/ CronUnbind
    <3>1. cron'.at \in {"create", "unbind"}
      BY <1>1, <2>2 DEF CronLook, LookAt, CronUnbind, Jobs
    <3> QED
      BY <2>1, <3>1 DEF DueAt, DueTimeMet, Looked
  <2>3. CASE CronRemember \/ CronRecord
    <3>1. due = 0
      BY <2>3 DEF CronRemember, CronRecord, DueAt
    <3> QED
      BY <2>1, <3>1 DEF DueAt, DueTimeMet, Looked
  <2> QED
    BY <1>5, <2>2, <2>3
<1>6. CASE UNCHANGED <<cron, checks, due, fired, dropped>>
  BY <1>6 DEF DueAt, DueTimeMet, Looked
<1> QED
  <2>1. ASSUME NEW t \in Tasks, StartTask(t) \/ Clone(t) \/ EndTask(t) \/ ServerCreate(t)
        PROVE  UNCHANGED <<cron, checks, due, fired, dropped>>
    BY <2>1 DEF StartTask, Clone, EndTask, ServerCreate, clock
  <2>2. ASSUME \/ \E p \in Pushes : Webhook(p) \/ FiveMinutes(p)
               \/ \E r \in Refs : RunPipeline(r)
        PROVE  UNCHANGED <<cron, checks, due, fired, dropped>>
    BY <2>2 DEF Webhook, FiveMinutes, RunPipeline, clock
  <2>3. ASSUME \/ Reserve \/ Check \/ CreateFails \/ Complete \/ ServerRecord
               \/ ServerLook \/ ServerUnbind \/ Minute \/ Seconds \/ UNCHANGED vars
        PROVE  UNCHANGED <<cron, checks, due, fired, dropped>>
    BY <2>3 DEF Reserve, Check, CreateFails, Complete, ServerRecord, ServerLook, ServerUnbind,
                Minute, Seconds, vars, clock
  <2> QED
    BY <1>2, <1>3, <1>4, <1>5, <1>6, <2>1, <2>2, <2>3 DEF Next

(***************************************************************************)
(* A due time for which a single check was made in time gets a row         *)
(* (_check_pipelines, _trigger_pipeline), however many checks are left     *)
(* out, if the pipeline is due every other minute or less often: with a    *)
(* due time in each minute the check of the minute before sees the         *)
(* earlier one only.                                                       *)
(***************************************************************************)
THEOREM DueTimesMet == ASSUME Every >= 2 PROVE Spec => []DueTimeMet
<1>1. Init => DueAt /\ DueTimeMet
  <2> SUFFICES ASSUME Init PROVE DueAt /\ DueTimeMet
    OBVIOUS
  <2>1. checks = {} /\ due = 0
    BY DEF Init
  <2> QED
    BY <2>1 DEF DueAt, DueTimeMet, Looked
<1>2. IInv /\ DueAt /\ DueTimeMet /\ [Next]_vars => DueAt' /\ DueTimeMet'
  BY DueStep
<1> QED
  BY <1>1, <1>2, Invariance, PTL DEF Spec
=============================================================================
