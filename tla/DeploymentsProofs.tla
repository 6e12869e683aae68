-------------------------- MODULE DeploymentsProofs --------------------------
(***************************************************************************)
(* Theorems about Deployments, for any rows, targets and threads and any   *)
(* number of retries and crashes.                                          *)
(***************************************************************************)
EXTENDS Deployments, TLAPS

USE DeploymentAssumption

(***************************************************************************)
(* The inductive invariant.                                                *)
(***************************************************************************)

\* Where a thread is says what it has: a row, a target, and what is done of the row.
\* A thread that has seen no failure has deployed every target it has dealt with, and
\* a result of success is that of its own row and target.
WorkOf(w) ==
    /\ worker[w].at = "idle" <=> worker[w].task = None
    /\ worker[w].at = "wait" => worker[w].target \in Targets
    /\ worker[w].at = "final" => worker[w].todo = {}
    /\ worker[w].at # "idle" /\ ~worker[w].failed
           => \A x \in Targets \ worker[w].todo : <<worker[w].task, x>> \in deployed
    /\ worker[w].future = "ok" => <<worker[w].task, worker[w].target>> \in deployed

WorkInv == \A w \in Workers : WorkOf(w)

\* The thread of an entry waits for the key of the entry, and has no result yet.
EntryInv ==
    \A k \in Keys : future[k] # None =>
        /\ worker[future[k]].at = "wait" /\ <<worker[future[k]].task, worker[future[k]].target>> = k
        /\ worker[future[k]].future \in {"open", "cancelled"}

\* A result of success on its way is that of a deployment.
ResultInv == \A k \in Keys : <<k, TRUE>> \in outbox => k \in deployed

\* CompletedIsDeployed, target by target
DoneInv ==
    \A t \in Tasks, x \in Targets :
        status[t] = "completed" /\ t \notin guessed => <<t, x>> \in deployed

IInv == TypeOK /\ WorkInv /\ EntryInv /\ ResultInv /\ DoneInv /\ RunningIsServed

-----------------------------------------------------------------------------
(***************************************************************************)
(* The helpers on the table of futures.                                    *)
(***************************************************************************)
Threads ==
    [at : {"idle", "next", "wait", "final"}, task : Tasks \cup {None},
     todo : SUBSET Targets, failed : BOOLEAN, target : Targets \cup {None},
     future : {"none", "open", "ok", "error", "cancelled"}]

ThreadsTyped ==
    /\ worker \in [Workers -> Threads]
    /\ \A w \in Workers : worker[w].at = "wait" <=> worker[w].future # "none"

RestTyped ==
    /\ status \in [Tasks -> Statuses]
    /\ future \in [Keys -> Workers \cup {None}]
    /\ inbox \subseteq Keys
    /\ outbox \subseteq Keys \X BOOLEAN
    /\ deployed \subseteq Keys
    /\ server \in Tasks \cup {None}
    /\ recovery \in [at : {"off", "waiting", "judging"}, rows : SUBSET Tasks]
    /\ interrupted \cup guessed \subseteq Tasks
    /\ retries \in 0..MaxRetries /\ crashes \in 0..MaxCrashes

LEMMA Typed == TypeOK <=> ThreadsTyped /\ RestTyped
  BY DEF TypeOK, ThreadsTyped, RestTyped, Threads

LEMMA TypedNext == TypeOK' <=> ThreadsTyped' /\ RestTyped'
  BY DEF TypeOK, ThreadsTyped, RestTyped, Threads

\* Cancelling changes nothing of a thread but its open future.
LEMMA CancelledKeeps ==
    ASSUME NEW W \in [Workers -> Threads], NEW K, NEW w \in Workers
    PROVE  /\ Cancelled(W, K) \in [Workers -> Threads]
           /\ Cancelled(W, K)[w].at = W[w].at
           /\ Cancelled(W, K)[w].task = W[w].task
           /\ Cancelled(W, K)[w].todo = W[w].todo
           /\ Cancelled(W, K)[w].failed = W[w].failed
           /\ Cancelled(W, K)[w].target = W[w].target
           /\ \/ Cancelled(W, K)[w].future = W[w].future
              \/ /\ worker[w].future = "open"
                 /\ \E k \in K : future[k] = w
                 /\ Cancelled(W, K)[w].future = "cancelled"
  BY DEF Cancelled, Threads

\* A thread that took its result is at its next target; the others are as they were.
LEMMA TookIs ==
    ASSUME ThreadsTyped, NEW w \in Workers, NEW ok \in BOOLEAN
    PROVE  /\ Took(w, ok) \in [Workers -> Threads]
           /\ \A v \in Workers \ {w} : Took(w, ok)[v] = worker[v]
           /\ Took(w, ok)[w].at = "next"
           /\ Took(w, ok)[w].task = worker[w].task
           /\ Took(w, ok)[w].todo = worker[w].todo \ {worker[w].target}
           /\ Took(w, ok)[w].failed <=> worker[w].failed \/ ~ok
           /\ Took(w, ok)[w].target = None
           /\ Took(w, ok)[w].future = "none"
<1>1. worker \in [Workers -> Threads]
  BY DEF ThreadsTyped
<1> DEFINE r == [worker[w] EXCEPT !.at = "next", !.todo = @ \ {worker[w].target},
                     !.failed = @ \/ ~ok, !.target = None, !.future = "none"]
<1>3. Took(w, ok) = [worker EXCEPT ![w] = r]
  BY <1>1 DEF Took, Threads
<1>4. r \in Threads
  BY <1>1 DEF Threads
<1>5. /\ r.at = "next" /\ r.task = worker[w].task /\ r.todo = worker[w].todo \ {worker[w].target}
      /\ r.target = None /\ r.future = "none"
  BY <1>1 DEF Threads
<1>6. r.failed <=> worker[w].failed \/ ~ok
  BY <1>1 DEF Threads
<1> QED
  BY <1>1, <1>3, <1>4, <1>5, <1>6

LEMMA WithoutIs ==
    ASSUME TypeOK, NEW K
    PROVE  /\ Without(K) \in [Keys -> Workers \cup {None}]
           /\ \A k \in Keys : Without(K)[k] = IF k \in K THEN None ELSE future[k]
  BY DEF Without, TypeOK

LEMMA SetStatusIs ==
    ASSUME TypeOK, NEW t \in Tasks, NEW s \in Statuses, SetStatus(t, s)
    PROVE  /\ status' \in [Tasks -> Statuses]
           /\ \A u \in Tasks \ {t} : status'[u] = status[u]
           /\ status'[t] \in {s, "deleted"}
  BY DEF SetStatus, TypeOK

-----------------------------------------------------------------------------
(* Type correctness, of the threads and of the rest. *)

\* A step that makes r of the thread w
LEMMA ThreadSet ==
    ASSUME ThreadsTyped, NEW w \in Workers, NEW r \in Threads,
           r.at = "wait" <=> r.future # "none", worker' = [worker EXCEPT ![w] = r]
    PROVE  /\ ThreadsTyped'
           /\ worker'[w] = r
           /\ \A v \in Workers \ {w} : worker'[v] = worker[v]
  BY DEF ThreadsTyped

\* What each step of a thread makes of it
LEMMA FailsSets ==
    ASSUME ThreadsTyped, NEW w \in Workers, NEW x \in Targets, TargetFails(w, x)
    PROVE  \E r \in Threads :
             /\ worker' = [worker EXCEPT ![w] = r]
             /\ r.at = "next" /\ r.future = "none" /\ r.task = worker[w].task
             /\ r.todo = worker[w].todo \ {x} /\ r.failed
<1> DEFINE r == [worker[w] EXCEPT !.todo = @ \ {x}, !.failed = TRUE]
<1>1. r \in Threads /\ r.at = "next" /\ r.task = worker[w].task
      /\ r.todo = worker[w].todo \ {x} /\ r.failed /\ r.future = "none"
  BY DEF TargetFails, ThreadsTyped, Threads
<1>2. worker' = [worker EXCEPT ![w] = r]
  BY DEF TargetFails, ThreadsTyped, Threads
<1> QED
  BY <1>1, <1>2

LEMMA SendSets ==
    ASSUME ThreadsTyped, NEW w \in Workers, NEW x \in Targets, SendTarget(w, x)
    PROVE  \E r \in Threads :
             /\ worker' = [worker EXCEPT ![w] = r]
             /\ r.at = "wait" /\ r.future = "open" /\ r.task = worker[w].task
             /\ r.todo = worker[w].todo /\ (r.failed <=> worker[w].failed) /\ r.target = x
<1> DEFINE r == [worker[w] EXCEPT !.at = "wait", !.target = x, !.future = "open"]
<1>1. r \in Threads /\ r.at = "wait" /\ r.future = "open" /\ r.task = worker[w].task
      /\ r.todo = worker[w].todo /\ (r.failed <=> worker[w].failed) /\ r.target = x
  BY DEF SendTarget, ThreadsTyped, Threads
<1>2. worker' = [worker EXCEPT ![w] = r]
  BY DEF SendTarget, ThreadsTyped, Threads
<1> QED
  BY <1>1, <1>2

LEMMA DirectSets ==
    ASSUME ThreadsTyped, NEW w \in Workers, NEW x \in Targets, DeployDirectly(w, x)
    PROVE  \E r \in Threads :
             /\ worker' = [worker EXCEPT ![w] = r]
             /\ r.at = "next" /\ r.future = "none" /\ r.task = worker[w].task
             /\ r.todo = worker[w].todo \ {x} /\ (r.failed <=> worker[w].failed)
<1> DEFINE r == [worker[w] EXCEPT !.todo = @ \ {x}]
<1>1. r \in Threads /\ r.at = "next" /\ r.task = worker[w].task
      /\ r.todo = worker[w].todo \ {x} /\ (r.failed <=> worker[w].failed) /\ r.future = "none"
  BY DEF DeployDirectly, ThreadsTyped, Threads
<1>2. worker' = [worker EXCEPT ![w] = r]
  BY DEF DeployDirectly, ThreadsTyped, Threads
<1> QED
  BY <1>1, <1>2

LEMMA PollSets ==
    ASSUME ThreadsTyped, NEW w \in Workers, PollStopped(w)
    PROVE  \E r \in Threads :
             /\ worker' = [worker EXCEPT ![w] = r]
             /\ r.at = "wait" /\ r.future = "cancelled" /\ r.task = worker[w].task
             /\ r.todo = worker[w].todo /\ (r.failed <=> worker[w].failed)
             /\ r.target = worker[w].target
<1> DEFINE r == [worker[w] EXCEPT !.future = "cancelled"]
<1>1. r \in Threads /\ r.at = "wait" /\ r.future = "cancelled" /\ r.task = worker[w].task
      /\ r.todo = worker[w].todo /\ (r.failed <=> worker[w].failed)
      /\ r.target = worker[w].target
  BY DEF PollStopped, ThreadsTyped, Threads
<1>2. worker' = [worker EXCEPT ![w] = r]
  BY DEF PollStopped, ThreadsTyped, Threads
<1> QED
  BY <1>1, <1>2

LEMMA OutcomeSets ==
    ASSUME ThreadsTyped, NEW w \in Workers, WriteOutcome(w)
    PROVE  \E r \in Threads :
             /\ worker' = [worker EXCEPT ![w] = r]
             /\ r.at = "final" /\ r.future = "none" /\ r.task = worker[w].task
             /\ r.todo = {} /\ (r.failed <=> worker[w].failed)
<1> DEFINE r == [worker[w] EXCEPT !.at = "final"]
<1>1. r \in Threads /\ r.at = "final" /\ r.future = "none" /\ r.task = worker[w].task
      /\ r.todo = {} /\ (r.failed <=> worker[w].failed)
  BY DEF WriteOutcome, ThreadsTyped, Threads
<1>2. worker' = [worker EXCEPT ![w] = r]
  BY DEF WriteOutcome, ThreadsTyped, Threads
<1> QED
  BY <1>1, <1>2

LEMMA IdleTyped ==
    /\ Idle \in Threads
    /\ Idle.at = "idle" /\ Idle.task = None /\ Idle.future = "none"
  BY DEF Idle, Threads

LEMMA StartSets ==
    ASSUME ThreadsTyped, NEW t \in Tasks, NEW w \in Workers, Start(t, w)
    PROVE  \E r \in Threads :
             /\ worker' = [worker EXCEPT ![w] = r]
             /\ r.at = "next" /\ r.future = "none" /\ r.task = t
             /\ r.todo = Targets /\ ~r.failed
<1> DEFINE r == [Idle EXCEPT !.at = "next", !.task = t, !.todo = Targets]
<1>1. r \in Threads /\ r.at = "next" /\ r.future = "none" /\ r.task = t
      /\ r.todo = Targets /\ ~r.failed
  BY DEF Idle, Threads
<1> QED
  BY <1>1 DEF Start

-----------------------------------------------------------------------------
(* Each step preserves the invariant. *)

LEMMA Begins == Init => IInv
<1> SUFFICES ASSUME Init PROVE IInv
  OBVIOUS
<1>1. ThreadsTyped
  BY IdleTyped DEF Init, ThreadsTyped
<1>2. RestTyped
  BY DEF Init, RestTyped, Statuses, NoRecovery
<1>3. WorkInv
  BY IdleTyped DEF Init, WorkInv, WorkOf
<1>4. EntryInv /\ ResultInv /\ DoneInv /\ RunningIsServed
  BY DEF Init, EntryInv, ResultInv, DoneInv, RunningIsServed, Running
<1> QED
  BY <1>1, <1>2, <1>3, <1>4, Typed DEF IInv

\* A step of one thread, which may deploy something
LEMMA WorkSet ==
    ASSUME WorkInv, NEW w \in Workers, deployed \subseteq deployed',
           \A v \in Workers \ {w} : worker'[v] = worker[v], WorkOf(w)'
    PROVE  WorkInv'
<1> SUFFICES ASSUME NEW v \in Workers PROVE WorkOf(v)'
  BY DEF WorkInv
<1>1. CASE v = w
  BY <1>1
<1>2. CASE v # w
  <2>1. worker'[v] = worker[v] /\ WorkOf(v)
    BY <1>2 DEF WorkInv
  <2> QED
    BY <2>1 DEF WorkOf
<1> QED
  BY <1>1, <1>2

\* A request writes a status that is neither running nor completed.
LEMMA RowKeeps ==
    ASSUME IInv, NEW t \in Tasks, Create(t) \/ Retry(t) \/ Delete(t) \/ StopCommit(t)
    PROVE  IInv'
<1> USE DEF messages, restart
<1>0. ThreadsTyped /\ RestTyped
  BY Typed DEF IInv
<1>1. PICK s \in {"pending", "deleted", "stopped"} : status' = [status EXCEPT ![t] = s]
  BY DEF Create, Retry, Delete, StopCommit
<1>2. /\ UNCHANGED <<worker, future, inbox, outbox, deployed, recovery, interrupted,
                     guessed, crashes>>
      /\ server' \in Tasks \cup {None} /\ retries' \in 0..MaxRetries
  BY <1>0 DEF Create, Retry, Delete, StopCommit, RestTyped
<1>3. status' \in [Tasks -> Statuses]
  BY <1>0, <1>1 DEF RestTyped, Statuses
<1>4. TypeOK'
  BY <1>0, <1>2, <1>3, TypedNext DEF RestTyped, ThreadsTyped
<1>5. WorkInv' /\ EntryInv' /\ ResultInv'
  BY <1>2 DEF IInv, WorkInv, WorkOf, EntryInv, ResultInv
<1>6. \A u \in Tasks : status'[u] \in {"completed", "running"} => status[u] = status'[u]
  BY <1>0, <1>1 DEF RestTyped
<1>7. DoneInv'
  BY <1>2, <1>6 DEF IInv, DoneInv
<1>8. RunningIsServed'
  BY <1>2, <1>6 DEF IInv, RunningIsServed, Running
<1> QED
  BY <1>4, <1>5, <1>7, <1>8 DEF IInv

\* The thread of a started row has dealt with no target yet.
LEMMA StartKeeps ==
    ASSUME IInv, NEW t \in Tasks, NEW w \in Workers, Start(t, w)
    PROVE  IInv'
<1> USE DEF messages, restart
<1>0. ThreadsTyped /\ RestTyped /\ WorkInv
  BY Typed DEF IInv
<1>1. PICK r \in Threads :
        /\ worker' = [worker EXCEPT ![w] = r]
        /\ r.at = "next" /\ r.future = "none" /\ r.task = t /\ r.todo = Targets /\ ~r.failed
  BY <1>0, StartSets
<1>2. /\ UNCHANGED <<future, inbox, outbox, deployed, server, recovery, interrupted,
                     guessed, crashes, retries>>
      /\ status' = [status EXCEPT ![t] = "running"]
      /\ worker[w].at = "idle"
  BY DEF Start
<1>3. ThreadsTyped' /\ worker'[w] = r /\ \A v \in Workers \ {w} : worker'[v] = worker[v]
  BY <1>0, <1>1, ThreadSet
<1>4. TypeOK'
  BY <1>0, <1>2, <1>3, TypedNext DEF RestTyped, Statuses
<1>5. WorkInv'
  <2>1. WorkOf(w)'
    BY <1>0, <1>1, <1>2, <1>3 DEF WorkInv, WorkOf
  <2> QED
    BY <1>0, <1>2, <1>3, <2>1, WorkSet
<1>6. EntryInv'
  BY <1>0, <1>2, <1>3 DEF IInv, EntryInv, RestTyped
<1>7. ResultInv' /\ DoneInv'
  BY <1>0, <1>2 DEF IInv, ResultInv, DoneInv, RestTyped
<1>8. RunningIsServed'
  <2> SUFFICES ASSUME NEW u \in Tasks, status'[u] = "running"
               PROVE  \/ \E v \in Workers : worker'[v].task = u
                      \/ recovery'.at = "waiting" /\ u \in interrupted'
                      \/ u \in recovery'.rows
    BY DEF RunningIsServed, Running
  <2>1. CASE u = t
    BY <1>1, <1>3, <2>1
  <2>2. CASE u # t
    <3>1. u \in Running
      BY <1>0, <1>2, <2>2 DEF Running, RestTyped
    <3>2. \A v \in Workers : worker[v].task = u => v # w
      BY <1>0, <1>2 DEF WorkInv, WorkOf
    <3> QED
      BY <1>2, <1>3, <3>1, <3>2 DEF IInv, RunningIsServed
  <2> QED
    BY <2>1, <2>2
<1> QED
  BY <1>4, <1>5, <1>6, <1>7, <1>8 DEF IInv

\* A step that leaves the rows of the threads, and the statuses, as they were
LEMMA ServedStays ==
    ASSUME RunningIsServed, UNCHANGED <<status, recovery, interrupted>>,
           \A v \in Workers : worker'[v].task = worker[v].task
    PROVE  RunningIsServed'
  BY DEF RunningIsServed, Running

LEMMA FailsKeeps ==
    ASSUME IInv, NEW w \in Workers, NEW x \in Targets, TargetFails(w, x)
    PROVE  IInv'
<1> USE DEF messages, restart
<1>0. ThreadsTyped /\ RestTyped /\ WorkInv /\ EntryInv
  BY Typed DEF IInv
<1>1. PICK r \in Threads :
        /\ worker' = [worker EXCEPT ![w] = r]
        /\ r.at = "next" /\ r.future = "none" /\ r.task = worker[w].task
        /\ r.todo = worker[w].todo \ {x} /\ r.failed
  BY <1>0, FailsSets
<1>2. /\ UNCHANGED <<status, future, inbox, outbox, deployed, server, recovery, interrupted,
                     guessed, crashes, retries>>
      /\ worker[w].at = "next"
  BY DEF TargetFails
<1>3. ThreadsTyped' /\ worker'[w] = r /\ \A v \in Workers \ {w} : worker'[v] = worker[v]
  BY <1>0, <1>1, ThreadSet
<1>4. TypeOK'
  BY <1>0, <1>2, <1>3, TypedNext DEF RestTyped
<1>5. WorkInv'
  <2>1. WorkOf(w)'
    BY <1>0, <1>1, <1>2, <1>3 DEF WorkInv, WorkOf
  <2> QED
    BY <1>0, <1>2, <1>3, <2>1, WorkSet
<1>6. EntryInv'
  BY <1>0, <1>2, <1>3 DEF EntryInv, RestTyped
<1>7. ResultInv' /\ DoneInv'
  BY <1>2 DEF IInv, ResultInv, DoneInv
<1>8. RunningIsServed'
  BY <1>1, <1>2, <1>3, ServedStays DEF IInv
<1> QED
  BY <1>4, <1>5, <1>6, <1>7, <1>8 DEF IInv

\* The entry is that of the thread that begins to wait; the one it replaces was for
\* the same key.
LEMMA SendKeeps ==
    ASSUME IInv, NEW w \in Workers, NEW x \in Targets, SendTarget(w, x)
    PROVE  IInv'
<1> USE DEF messages, restart
<1>0. ThreadsTyped /\ RestTyped /\ WorkInv /\ EntryInv
  BY Typed DEF IInv
<1>1. PICK r \in Threads :
        /\ worker' = [worker EXCEPT ![w] = r]
        /\ r.at = "wait" /\ r.future = "open" /\ r.task = worker[w].task
        /\ r.todo = worker[w].todo /\ (r.failed <=> worker[w].failed) /\ r.target = x
  BY <1>0, SendSets
<1>2. /\ UNCHANGED <<status, outbox, deployed, server, recovery, interrupted,
                     guessed, crashes, retries>>
      /\ worker[w].at = "next"
      /\ future' = [future EXCEPT ![<<worker[w].task, x>>] = w]
      /\ inbox' = inbox \cup {<<worker[w].task, x>>}
  BY DEF SendTarget
<1>3. ThreadsTyped' /\ worker'[w] = r /\ \A v \in Workers \ {w} : worker'[v] = worker[v]
  BY <1>0, <1>1, ThreadSet
<1>4. <<worker[w].task, x>> \in Keys
  BY <1>0, <1>2 DEF WorkInv, WorkOf, ThreadsTyped, Threads, Keys
<1>5. TypeOK'
  BY <1>0, <1>2, <1>3, <1>4, TypedNext DEF RestTyped
<1>6. WorkInv'
  <2>1. WorkOf(w) /\ worker'[w] = r
    BY <1>0, <1>3 DEF WorkInv
  <2>2. ~r.failed => \A y \in Targets \ worker[w].todo : <<worker[w].task, y>> \in deployed
    BY <1>1, <1>2, <2>1 DEF WorkOf
  <2>3. WorkOf(w)'
    BY <1>1, <1>2, <2>1, <2>2 DEF WorkOf
  <2> QED
    BY <1>0, <1>2, <1>3, <2>3, WorkSet
<1>7. EntryInv'
  <2> SUFFICES ASSUME NEW k \in Keys, future'[k] # None
               PROVE  /\ worker'[future'[k]].at = "wait"
                      /\ <<worker'[future'[k]].task, worker'[future'[k]].target>> = k
                      /\ worker'[future'[k]].future \in {"open", "cancelled"}
    BY DEF EntryInv
  <2>1. CASE k = <<worker[w].task, x>>
    <3>1. future'[k] = w
      BY <1>0, <1>2, <1>4, <2>1 DEF RestTyped
    <3> QED
      BY <1>1, <1>3, <2>1, <3>1
  <2>2. CASE k # <<worker[w].task, x>>
    <3>1. future'[k] = future[k] /\ future[k] \in Workers \ {w}
      BY <1>0, <1>2, <2>2 DEF RestTyped, EntryInv
    <3> QED
      BY <1>0, <1>3, <3>1 DEF EntryInv
  <2> QED
    BY <2>1, <2>2
<1>8. ResultInv' /\ DoneInv'
  BY <1>2 DEF IInv, ResultInv, DoneInv
<1>9. RunningIsServed'
  BY <1>1, <1>2, <1>3, ServedStays DEF IInv
<1> QED
  BY <1>5, <1>6, <1>7, <1>8, <1>9 DEF IInv

LEMMA DirectKeeps ==
    ASSUME IInv, NEW w \in Workers, NEW x \in Targets, DeployDirectly(w, x)
    PROVE  IInv'
<1> USE DEF messages, restart
<1>0. ThreadsTyped /\ RestTyped /\ WorkInv /\ EntryInv
  BY Typed DEF IInv
<1>1. PICK r \in Threads :
        /\ worker' = [worker EXCEPT ![w] = r]
        /\ r.at = "next" /\ r.future = "none" /\ r.task = worker[w].task
        /\ r.todo = worker[w].todo \ {x} /\ (r.failed <=> worker[w].failed)
  BY <1>0, DirectSets
<1>2. /\ UNCHANGED <<status, future, inbox, outbox, server, recovery, interrupted,
                     guessed, crashes, retries>>
      /\ worker[w].at = "next"
      /\ deployed' = deployed \cup {<<worker[w].task, x>>}
  BY DEF DeployDirectly
<1>3. ThreadsTyped' /\ worker'[w] = r /\ \A v \in Workers \ {w} : worker'[v] = worker[v]
  BY <1>0, <1>1, ThreadSet
<1>4. <<worker[w].task, x>> \in Keys
  BY <1>0, <1>2 DEF WorkInv, WorkOf, ThreadsTyped, Threads, Keys
<1>5. TypeOK'
  BY <1>0, <1>2, <1>3, <1>4, TypedNext DEF RestTyped
<1>6. WorkInv'
  <2>1. WorkOf(w) /\ worker'[w] = r
    BY <1>0, <1>3 DEF WorkInv
  <2>2. ~r.failed => \A y \in Targets \ (worker[w].todo \ {x}) :
                        <<worker[w].task, y>> \in deployed'
    BY <1>1, <1>2, <2>1 DEF WorkOf
  <2>3. WorkOf(w)'
    BY <1>1, <1>2, <2>1, <2>2 DEF WorkOf
  <2> QED
    BY <1>0, <1>2, <1>3, <2>3, WorkSet
<1>7. EntryInv'
  BY <1>0, <1>2, <1>3 DEF EntryInv, RestTyped
<1>8. ResultInv' /\ DoneInv'
  BY <1>2 DEF IInv, ResultInv, DoneInv
<1>9. RunningIsServed'
  BY <1>1, <1>2, <1>3, ServedStays DEF IInv
<1> QED
  BY <1>5, <1>6, <1>7, <1>8, <1>9 DEF IInv

\* A thread with a result is named by no entry.
LEMMA ReceiveKeeps ==
    ASSUME IInv, NEW w \in Workers, Receive(w)
    PROVE  IInv'
<1> USE DEF messages, restart
<1>0. ThreadsTyped /\ RestTyped /\ WorkInv /\ EntryInv
  BY Typed DEF IInv
<1> DEFINE ok == worker[w].future = "ok"
<1>1. /\ UNCHANGED <<status, future, inbox, outbox, deployed, server, recovery, interrupted,
                     guessed, crashes, retries>>
      /\ worker[w].future \in {"ok", "error"}
      /\ worker' = Took(w, ok)
  BY DEF Receive
<1>2. /\ worker' \in [Workers -> Threads]
      /\ \A v \in Workers \ {w} : worker'[v] = worker[v]
      /\ worker'[w].at = "next" /\ worker'[w].future = "none"
      /\ worker'[w].task = worker[w].task
      /\ worker'[w].todo = worker[w].todo \ {worker[w].target}
      /\ worker'[w].failed <=> worker[w].failed \/ ~ok
  <2>1. ok \in BOOLEAN
    OBVIOUS
  <2> QED
    BY <1>0, <1>1, <2>1, TookIs
<1>3. ThreadsTyped'
  BY <1>0, <1>2 DEF ThreadsTyped
<1>4. TypeOK'
  BY <1>0, <1>1, <1>3, TypedNext DEF RestTyped
<1>5. WorkInv'
  <2>1. WorkOf(w)
    BY <1>0 DEF WorkInv
  <2>2. worker[w].at = "wait"
    BY <1>0, <1>1 DEF ThreadsTyped
  <2>3. ASSUME ~worker'[w].failed, NEW y \in Targets \ worker'[w].todo
        PROVE  <<worker[w].task, y>> \in deployed
    <3>1. ok /\ ~worker[w].failed
      BY <1>2, <2>3
    <3>2. CASE y = worker[w].target
      BY <2>1, <3>1, <3>2 DEF WorkOf
    <3>3. CASE y # worker[w].target
      BY <1>2, <2>1, <2>2, <2>3, <3>1, <3>3 DEF WorkOf
    <3> QED
      BY <3>2, <3>3
  <2>4. worker[w].task # None
    BY <2>1, <2>2 DEF WorkOf
  <2>5. WorkOf(w)'
    BY <1>1, <1>2, <2>3, <2>4 DEF WorkOf
  <2> QED
    BY <1>0, <1>1, <1>2, <2>5, WorkSet
<1>6. EntryInv'
  <2>1. \A k \in Keys : future[k] # w
    BY <1>0, <1>1 DEF EntryInv
  <2> QED
    BY <1>0, <1>1, <1>2, <2>1 DEF EntryInv, RestTyped
<1>7. ResultInv' /\ DoneInv'
  BY <1>1 DEF IInv, ResultInv, DoneInv
<1>8. RunningIsServed'
  BY <1>1, <1>2, ServedStays DEF IInv
<1> QED
  BY <1>4, <1>5, <1>6, <1>7, <1>8 DEF IInv

LEMMA PollKeeps ==
    ASSUME IInv, NEW w \in Workers, PollStopped(w)
    PROVE  IInv'
<1> USE DEF messages, restart
<1>0. ThreadsTyped /\ RestTyped /\ WorkInv /\ EntryInv
  BY Typed DEF IInv
<1>1. PICK r \in Threads :
        /\ worker' = [worker EXCEPT ![w] = r]
        /\ r.at = "wait" /\ r.future = "cancelled" /\ r.task = worker[w].task
        /\ r.todo = worker[w].todo /\ (r.failed <=> worker[w].failed)
        /\ r.target = worker[w].target
  BY <1>0, PollSets
<1>2. /\ UNCHANGED <<status, future, inbox, outbox, deployed, server, recovery, interrupted,
                     guessed, crashes, retries>>
      /\ worker[w].at = "wait"
  BY <1>0 DEF PollStopped, ThreadsTyped
<1>3. ThreadsTyped' /\ worker'[w] = r /\ \A v \in Workers \ {w} : worker'[v] = worker[v]
  BY <1>0, <1>1, ThreadSet
<1>4. TypeOK'
  BY <1>0, <1>2, <1>3, TypedNext DEF RestTyped
<1>5. WorkInv'
  <2>1. WorkOf(w) /\ worker'[w] = r
    BY <1>0, <1>3 DEF WorkInv
  <2>2. ~r.failed => \A y \in Targets \ worker[w].todo : <<worker[w].task, y>> \in deployed
    BY <1>1, <1>2, <2>1 DEF WorkOf
  <2>3. WorkOf(w)'
    BY <1>1, <1>2, <2>1, <2>2 DEF WorkOf
  <2> QED
    BY <1>0, <1>2, <1>3, <2>3, WorkSet
<1>6. EntryInv'
  <2> SUFFICES ASSUME NEW k \in Keys, future[k] # None
               PROVE  /\ worker'[future[k]].at = "wait"
                      /\ <<worker'[future[k]].task, worker'[future[k]].target>> = k
                      /\ worker'[future[k]].future \in {"open", "cancelled"}
    BY <1>2 DEF EntryInv
  <2>1. CASE future[k] = w
    BY <1>0, <1>1, <1>3, <2>1 DEF EntryInv
  <2>2. CASE future[k] # w
    BY <1>0, <1>3, <2>2 DEF EntryInv, RestTyped
  <2> QED
    BY <2>1, <2>2
<1>7. ResultInv' /\ DoneInv'
  BY <1>2 DEF IInv, ResultInv, DoneInv
<1>8. RunningIsServed'
  BY <1>1, <1>2, <1>3, ServedStays DEF IInv
<1> QED
  BY <1>4, <1>5, <1>6, <1>7, <1>8 DEF IInv

\* Who gives up takes the entry of its key out of the table, whosever it is; the thread
\* it belongs to is cancelled.
LEMMA GiveUpKeeps ==
    ASSUME IInv, NEW w \in Workers, GiveUp(w)
    PROVE  IInv'
<1> USE DEF messages, restart
<1>0. TypeOK /\ ThreadsTyped /\ RestTyped /\ WorkInv /\ EntryInv
  BY Typed DEF IInv
<1> DEFINE W == Took(w, FALSE)
<1> DEFINE K == {KeyOf(w)} \ {k \in Keys : future[k] = w}
<1>1. /\ UNCHANGED <<status, inbox, outbox, deployed, server, recovery, interrupted,
                     guessed, crashes, retries>>
      /\ worker[w].future \in {"cancelled", "open"}
      /\ worker' = Cancelled(W, K)
      /\ future' = Without({KeyOf(w)})
  BY DEF GiveUp
<1>2. /\ W \in [Workers -> Threads]
      /\ \A v \in Workers \ {w} : W[v] = worker[v]
      /\ W[w].at = "next" /\ W[w].future = "none" /\ W[w].task = worker[w].task
      /\ W[w].failed
  BY <1>0, TookIs
<1>3. worker[w].at = "wait" /\ WorkOf(w) /\ KeyOf(w) \in Keys
  BY <1>0, <1>1 DEF ThreadsTyped, Threads, WorkInv, WorkOf, KeyOf, Keys
<1>4. \A k \in K : future[k] # w
  BY <1>3
<1> HIDE DEF W, K
<1>5. /\ worker' \in [Workers -> Threads]
      /\ \A v \in Workers :
           /\ worker'[v].at = W[v].at /\ worker'[v].task = W[v].task
           /\ worker'[v].todo = W[v].todo /\ worker'[v].failed = W[v].failed
           /\ worker'[v].target = W[v].target
           /\ \/ worker'[v].future = W[v].future
              \/ worker[v].future = "open" /\ v # w /\ worker'[v].future = "cancelled"
  <2>1. worker' \in [Workers -> Threads]
    BY <1>1, <1>2, CancelledKeeps
  <2> SUFFICES ASSUME NEW v \in Workers
               PROVE  /\ worker'[v].at = W[v].at /\ worker'[v].task = W[v].task
                      /\ worker'[v].todo = W[v].todo /\ worker'[v].failed = W[v].failed
                      /\ worker'[v].target = W[v].target
                      /\ \/ worker'[v].future = W[v].future
                         \/ worker[v].future = "open" /\ v # w /\ worker'[v].future = "cancelled"
    BY <2>1
  <2> QED
    BY <1>1, <1>2, <1>4, CancelledKeeps
<1>6. ThreadsTyped'
  <2> SUFFICES ASSUME NEW v \in Workers
               PROVE  worker'[v].at = "wait" <=> worker'[v].future # "none"
    BY <1>5 DEF ThreadsTyped
  <2>1. CASE v = w
    BY <1>2, <1>5, <2>1
  <2>2. CASE v # w
    BY <1>0, <1>2, <1>5, <2>2 DEF ThreadsTyped
  <2> QED
    BY <2>1, <2>2
<1>7. TypeOK'
  BY <1>0, <1>1, <1>6, WithoutIs, TypedNext DEF RestTyped
<1>8. WorkInv'
  <2> SUFFICES ASSUME NEW v \in Workers PROVE WorkOf(v)'
    BY DEF WorkInv
  <2>1. CASE v = w
    BY <1>1, <1>2, <1>3, <1>5, <2>1 DEF WorkOf
  <2>2. CASE v # w
    <3>1. WorkOf(v) /\ W[v] = worker[v]
      BY <1>0, <1>2, <2>2 DEF WorkInv
    <3> QED
      BY <1>1, <1>5, <3>1 DEF WorkOf
  <2> QED
    BY <2>1, <2>2
<1>9. EntryInv'
  <2> SUFFICES ASSUME NEW k \in Keys, future'[k] # None
               PROVE  /\ worker'[future'[k]].at = "wait"
                      /\ <<worker'[future'[k]].task, worker'[future'[k]].target>> = k
                      /\ worker'[future'[k]].future \in {"open", "cancelled"}
    BY DEF EntryInv
  <2>1. k # KeyOf(w) /\ future'[k] = future[k]
    BY <1>0, <1>1, WithoutIs
  <2>2. future[k] \in Workers \ {w}
    BY <1>0, <2>1 DEF EntryInv, KeyOf, RestTyped
  <2> QED
    BY <1>0, <1>2, <1>5, <2>1, <2>2 DEF EntryInv
<1>10. ResultInv' /\ DoneInv'
  BY <1>1 DEF IInv, ResultInv, DoneInv
<1>11. RunningIsServed'
  BY <1>1, <1>2, <1>5, ServedStays DEF IInv
<1> QED
  BY <1>7, <1>8, <1>9, <1>10, <1>11 DEF IInv

\* The outcome of a thread that is through with its targets
LEMMA OutcomeHolds ==
    ASSUME TypeOK, WorkInv, DoneInv, NEW w \in Workers,
           worker[w].at # "idle", worker[w].todo = {},
           SetStatus(worker[w].task, Outcome(w)), UNCHANGED <<deployed, guessed>>
    PROVE  /\ status' \in [Tasks -> Statuses]
           /\ DoneInv'
           /\ \A u \in Tasks : status'[u] = "running" => status[u] = "running" /\ u # worker[w].task
<1> DEFINE t == worker[w].task
<1>1. WorkOf(w) /\ t \in Tasks
  BY Typed DEF WorkInv, WorkOf, ThreadsTyped, Threads
<1>2. Outcome(w) \in {"failed", "completed"}
  BY DEF Outcome
<1>3. /\ status' \in [Tasks -> Statuses]
      /\ \A u \in Tasks \ {t} : status'[u] = status[u]
      /\ status'[t] \in {Outcome(w), "deleted"}
  BY <1>1, <1>2, SetStatusIs DEF Statuses
<1>4. status'[t] = "completed" => \A x \in Targets : <<t, x>> \in deployed
  BY <1>1, <1>3 DEF Outcome, WorkOf
<1> HIDE DEF t
<1>5. DoneInv'
  BY <1>3, <1>4 DEF DoneInv
<1>6. \A u \in Tasks : status'[u] = "running" => status[u] = "running" /\ u # t
  BY <1>2, <1>3
<1> QED
  BY <1>3, <1>5, <1>6 DEF t

LEMMA OutcomeKeeps ==
    ASSUME IInv, NEW w \in Workers, WriteOutcome(w)
    PROVE  IInv'
<1> USE DEF messages, restart
<1>0. TypeOK /\ ThreadsTyped /\ RestTyped /\ WorkInv /\ EntryInv /\ DoneInv
  BY Typed DEF IInv
<1>1. PICK r \in Threads :
        /\ worker' = [worker EXCEPT ![w] = r]
        /\ r.at = "final" /\ r.future = "none" /\ r.task = worker[w].task
        /\ r.todo = {} /\ (r.failed <=> worker[w].failed)
  BY <1>0, OutcomeSets
<1>2. /\ UNCHANGED <<future, inbox, outbox, deployed, server, recovery, interrupted,
                     guessed, crashes, retries>>
      /\ worker[w].at = "next" /\ worker[w].todo = {}
  BY DEF WriteOutcome
<1>3. ThreadsTyped' /\ worker'[w] = r /\ \A v \in Workers \ {w} : worker'[v] = worker[v]
  BY <1>0, <1>1, ThreadSet
<1>4. /\ status' \in [Tasks -> Statuses]
      /\ DoneInv'
      /\ \A u \in Tasks : status'[u] = "running" => status[u] = "running"
  BY <1>0, <1>2, OutcomeHolds DEF WriteOutcome
<1>5. TypeOK'
  BY <1>0, <1>2, <1>3, <1>4, TypedNext DEF RestTyped
<1>6. WorkInv'
  <2>1. WorkOf(w) /\ worker'[w] = r
    BY <1>0, <1>3 DEF WorkInv
  <2>2. ~r.failed => \A y \in Targets \ r.todo : <<worker[w].task, y>> \in deployed
    BY <1>1, <1>2, <2>1 DEF WorkOf
  <2>3. WorkOf(w)'
    BY <1>1, <1>2, <2>1, <2>2 DEF WorkOf
  <2> QED
    BY <1>0, <1>2, <1>3, <2>3, WorkSet
<1>7. EntryInv'
  BY <1>0, <1>2, <1>3 DEF EntryInv, RestTyped
<1>8. ResultInv'
  BY <1>2 DEF IInv, ResultInv
<1>9. RunningIsServed'
  BY <1>1, <1>2, <1>3, <1>4 DEF IInv, RunningIsServed, Running
<1> QED
  BY <1>4, <1>5, <1>6, <1>7, <1>8, <1>9 DEF IInv

\* The thread leaves its row, which is not running any more.
LEMMA AgainKeeps ==
    ASSUME IInv, NEW w \in Workers, WriteAgain(w)
    PROVE  IInv'
<1> USE DEF messages, restart
<1>0. TypeOK /\ ThreadsTyped /\ RestTyped /\ WorkInv /\ EntryInv /\ DoneInv
  BY Typed DEF IInv
<1>1. /\ UNCHANGED <<future, inbox, outbox, deployed, server, recovery, interrupted,
                     guessed, crashes, retries>>
      /\ worker' = [worker EXCEPT ![w] = Idle]
      /\ worker[w].at = "final" /\ worker[w].todo = {}
  BY <1>0 DEF WriteAgain, WorkInv, WorkOf
<1>2. ThreadsTyped' /\ worker'[w] = Idle /\ \A v \in Workers \ {w} : worker'[v] = worker[v]
  BY <1>0, <1>1, ThreadSet, IdleTyped
<1>3. /\ status' \in [Tasks -> Statuses]
      /\ DoneInv'
      /\ \A u \in Tasks : status'[u] = "running" => status[u] = "running" /\ u # worker[w].task
  BY <1>0, <1>1, OutcomeHolds DEF WriteAgain
<1>4. TypeOK'
  BY <1>0, <1>1, <1>2, <1>3, TypedNext DEF RestTyped
<1>5. WorkInv'
  <2>1. WorkOf(w)'
    BY <1>2, IdleTyped DEF WorkOf
  <2> QED
    BY <1>0, <1>1, <1>2, <2>1, WorkSet
<1>6. EntryInv'
  BY <1>0, <1>1, <1>2 DEF EntryInv, RestTyped
<1>7. ResultInv'
  BY <1>1 DEF IInv, ResultInv
<1>8. RunningIsServed'
  <2> SUFFICES ASSUME NEW u \in Tasks, status'[u] = "running"
               PROVE  \/ \E v \in Workers : worker'[v].task = u
                      \/ recovery'.at = "waiting" /\ u \in interrupted'
                      \/ u \in recovery'.rows
    BY DEF RunningIsServed, Running
  <2>1. u \in Running /\ \A v \in Workers : worker[v].task = u => v # w
    BY <1>3 DEF Running
  <2> QED
    BY <1>1, <1>2, <2>1 DEF IInv, RunningIsServed
<1> QED
  BY <1>3, <1>4, <1>5, <1>6, <1>7, <1>8 DEF IInv

\* Stopping cancels the futures of a row: the entries of other rows stay.
LEMMA CancelKeeps ==
    ASSUME IInv, StopCancel
    PROVE  IInv'
<1> USE DEF messages, restart
<1>0. TypeOK /\ ThreadsTyped /\ RestTyped /\ WorkInv /\ EntryInv
  BY Typed DEF IInv
<1> DEFINE K == {server} \X Targets
<1>1. /\ UNCHANGED <<status, inbox, outbox, deployed, recovery, interrupted,
                     guessed, crashes, retries>>
      /\ worker' = Cancelled(worker, K)
      /\ future' = Without(K)
      /\ server' = None
  BY DEF StopCancel
<1> HIDE DEF K
<1>2. /\ worker' \in [Workers -> Threads]
      /\ \A v \in Workers :
           /\ worker'[v].at = worker[v].at /\ worker'[v].task = worker[v].task
           /\ worker'[v].todo = worker[v].todo /\ worker'[v].failed = worker[v].failed
           /\ worker'[v].target = worker[v].target
           /\ \/ worker'[v].future = worker[v].future
              \/ worker[v].future = "open" /\ worker'[v].future = "cancelled"
  <2>1. worker \in [Workers -> Threads]
    BY <1>0 DEF ThreadsTyped
  <2>2. worker' \in [Workers -> Threads]
    BY <1>1, <2>1 DEF Cancelled, Threads
  <2> SUFFICES ASSUME NEW v \in Workers
               PROVE  /\ worker'[v].at = worker[v].at /\ worker'[v].task = worker[v].task
                      /\ worker'[v].todo = worker[v].todo /\ worker'[v].failed = worker[v].failed
                      /\ worker'[v].target = worker[v].target
                      /\ \/ worker'[v].future = worker[v].future
                         \/ worker[v].future = "open" /\ worker'[v].future = "cancelled"
    BY <2>2
  <2>3. /\ Cancelled(worker, K)[v].at = worker[v].at
        /\ Cancelled(worker, K)[v].task = worker[v].task
        /\ Cancelled(worker, K)[v].todo = worker[v].todo
        /\ Cancelled(worker, K)[v].failed = worker[v].failed
        /\ Cancelled(worker, K)[v].target = worker[v].target
    BY <2>1, CancelledKeeps
  <2>4. \/ Cancelled(worker, K)[v].future = worker[v].future
        \/ worker[v].future = "open" /\ Cancelled(worker, K)[v].future = "cancelled"
    BY <2>1, CancelledKeeps
  <2> QED
    BY <1>1, <2>3, <2>4
<1>3. ThreadsTyped'
  BY <1>0, <1>2 DEF ThreadsTyped
<1>4. TypeOK'
  BY <1>0, <1>1, <1>3, WithoutIs, TypedNext DEF RestTyped
<1>5. WorkInv'
  <2> SUFFICES ASSUME NEW v \in Workers PROVE WorkOf(v)'
    BY DEF WorkInv
  <2>1. WorkOf(v)
    BY <1>0 DEF WorkInv
  <2> QED
    BY <1>1, <1>2, <2>1 DEF WorkOf
<1>6. EntryInv'
  <2> SUFFICES ASSUME NEW k \in Keys, future'[k] # None
               PROVE  /\ worker'[future'[k]].at = "wait"
                      /\ <<worker'[future'[k]].task, worker'[future'[k]].target>> = k
                      /\ worker'[future'[k]].future \in {"open", "cancelled"}
    BY DEF EntryInv
  <2>1. future'[k] = future[k] /\ future[k] \in Workers
    BY <1>0, <1>1, WithoutIs DEF RestTyped
  <2> QED
    BY <1>0, <1>2, <2>1 DEF EntryInv
<1>7. ResultInv' /\ DoneInv'
  BY <1>1 DEF IInv, ResultInv, DoneInv
<1>8. RunningIsServed'
  BY <1>1, <1>2, ServedStays DEF IInv
<1> QED
  BY <1>4, <1>5, <1>6, <1>7, <1>8 DEF IInv

LEMMA AgentKeeps ==
    ASSUME IInv, NEW k \in Keys, AgentDeploys(k)
    PROVE  IInv'
<1> USE DEF messages, restart
<1>0. ThreadsTyped /\ RestTyped /\ WorkInv /\ EntryInv
  BY Typed DEF IInv
<1>1. PICK ok \in BOOLEAN :
        /\ deployed' = IF ok THEN deployed \cup {k} ELSE deployed
        /\ outbox' = outbox \cup {<<k, ok>>}
  BY DEF AgentDeploys
<1>2. /\ UNCHANGED <<status, worker, future, server, recovery, interrupted, guessed,
                     crashes, retries>>
      /\ inbox' = inbox \ {k}
  BY DEF AgentDeploys
<1>3. TypeOK'
  BY <1>0, <1>1, <1>2, TypedNext DEF RestTyped, ThreadsTyped
<1>4. deployed \subseteq deployed'
  BY <1>1
<1>5. WorkInv'
  BY <1>0, <1>2, <1>4 DEF WorkInv, WorkOf
<1>6. EntryInv'
  BY <1>0, <1>2 DEF EntryInv
<1>7. ResultInv'
  BY <1>1, <1>4 DEF IInv, ResultInv
<1>8. DoneInv'
  BY <1>2, <1>4 DEF IInv, DoneInv
<1>9. RunningIsServed'
  BY <1>2, ServedStays DEF IInv
<1> QED
  BY <1>3, <1>5, <1>6, <1>7, <1>8, <1>9 DEF IInv

\* A result reaches the thread of the entry, which waits for its key.
LEMMA DeliverKeeps ==
    ASSUME IInv, NEW k \in Keys, NEW ok \in BOOLEAN, Deliver(k, ok)
    PROVE  IInv'
<1> USE DEF messages, restart
<1>0. TypeOK /\ ThreadsTyped /\ RestTyped /\ WorkInv /\ EntryInv
  BY Typed DEF IInv
<1>1. /\ UNCHANGED <<status, inbox, deployed, server, recovery, interrupted, guessed,
                     crashes, retries>>
      /\ <<k, ok>> \in outbox /\ outbox' = outbox \ {<<k, ok>>}
      /\ future' = Without({k})
  BY DEF Deliver
<1>2. /\ worker' \in [Workers -> Threads]
      /\ \A v \in Workers :
           /\ worker'[v].at = worker[v].at /\ worker'[v].task = worker[v].task
           /\ worker'[v].todo = worker[v].todo /\ worker'[v].failed = worker[v].failed
           /\ worker'[v].target = worker[v].target
           /\ \/ worker'[v].future = worker[v].future
              \/ /\ future[k] = v /\ worker[v].future = "open"
                 /\ worker'[v].future = IF ok THEN "ok" ELSE "error"
  BY <1>0 DEF Deliver, ThreadsTyped, Threads
<1>3. ThreadsTyped'
  BY <1>0, <1>2 DEF ThreadsTyped
<1>4. TypeOK'
  BY <1>0, <1>1, <1>3, WithoutIs, TypedNext DEF RestTyped
<1>5. WorkInv'
  <2> SUFFICES ASSUME NEW v \in Workers PROVE WorkOf(v)'
    BY DEF WorkInv
  <2>1. WorkOf(v)
    BY <1>0 DEF WorkInv
  <2>2. worker'[v].future = "ok" => <<worker[v].task, worker[v].target>> \in deployed
    <3>1. CASE worker'[v].future = worker[v].future
      BY <2>1, <3>1 DEF WorkOf
    <3>2. CASE future[k] = v /\ worker'[v].future = IF ok THEN "ok" ELSE "error"
      <4>1. v # None
        BY DEF DeploymentAssumption
      <4>2. k = <<worker[v].task, worker[v].target>>
        BY <1>0, <3>2, <4>1 DEF EntryInv
      <4> QED
        BY <1>1, <3>2, <4>2 DEF IInv, ResultInv
    <3> QED
      BY <1>2, <3>1, <3>2
  <2> QED
    BY <1>1, <1>2, <2>1, <2>2 DEF WorkOf
<1>6. EntryInv'
  <2> SUFFICES ASSUME NEW l \in Keys, future'[l] # None
               PROVE  /\ worker'[future'[l]].at = "wait"
                      /\ <<worker'[future'[l]].task, worker'[future'[l]].target>> = l
                      /\ worker'[future'[l]].future \in {"open", "cancelled"}
    BY DEF EntryInv
  <2>1. l # k /\ future'[l] = future[l] /\ future[l] \in Workers
    BY <1>0, <1>1, WithoutIs DEF RestTyped
  <2>2. future[k] # future[l]
    BY <1>0, <2>1 DEF EntryInv
  <2> QED
    BY <1>0, <1>2, <2>1, <2>2 DEF EntryInv
<1>7. ResultInv' /\ DoneInv'
  BY <1>1 DEF IInv, ResultInv, DoneInv
<1>8. RunningIsServed'
  BY <1>1, <1>2, ServedStays DEF IInv
<1> QED
  BY <1>4, <1>5, <1>6, <1>7, <1>8 DEF IInv

LEMMA LoseKeeps == IInv /\ Lose => IInv'
<1> SUFFICES ASSUME IInv, Lose PROVE IInv'
  OBVIOUS
<1> USE DEF messages, restart
<1>0. ThreadsTyped /\ RestTyped /\ WorkInv /\ EntryInv
  BY Typed DEF IInv
<1>1. /\ UNCHANGED <<status, worker, future, deployed, server, recovery, interrupted,
                     guessed, crashes, retries>>
      /\ inbox' \subseteq inbox /\ outbox' \subseteq outbox
  BY DEF Lose
<1>2. TypeOK'
  BY <1>0, <1>1, TypedNext DEF RestTyped, ThreadsTyped
<1>3. WorkInv' /\ EntryInv'
  BY <1>0, <1>1 DEF WorkInv, WorkOf, EntryInv
<1>4. ResultInv' /\ DoneInv'
  BY <1>1 DEF IInv, ResultInv, DoneInv
<1>5. RunningIsServed'
  BY <1>1, ServedStays DEF IInv
<1> QED
  BY <1>2, <1>3, <1>4, <1>5 DEF IInv

\* A crash empties the server; the running rows are for the recovery.
LEMMA CrashKeeps == IInv /\ Crash => IInv'
<1> SUFFICES ASSUME IInv, Crash PROVE IInv'
  OBVIOUS
<1> USE DEF messages, restart
<1>0. ThreadsTyped /\ RestTyped
  BY Typed DEF IInv
<1>1. /\ UNCHANGED <<status, inbox, outbox, deployed, guessed, retries>>
      /\ crashes < MaxCrashes /\ crashes' = crashes + 1
      /\ interrupted' = Running
      /\ worker' = [w \in Workers |-> Idle]
      /\ future' = [k \in Keys |-> None]
      /\ server' = None
      /\ recovery' = [at |-> "waiting", rows |-> {}]
  BY DEF Crash
<1>2. ThreadsTyped'
  BY <1>1, IdleTyped DEF ThreadsTyped
<1>3. crashes' \in 0..MaxCrashes
  BY <1>0, <1>1 DEF RestTyped, DeploymentAssumption
<1>4. TypeOK'
  BY <1>0, <1>1, <1>2, <1>3, TypedNext DEF RestTyped, Running
<1>5. WorkInv'
  BY <1>1, IdleTyped DEF WorkInv, WorkOf
<1>6. EntryInv' /\ ResultInv' /\ DoneInv'
  BY <1>1 DEF IInv, EntryInv, ResultInv, DoneInv
<1>7. RunningIsServed'
  BY <1>1 DEF RunningIsServed, Running
<1> QED
  BY <1>4, <1>5, <1>6, <1>7 DEF IInv

LEMMA SelectKeeps == IInv /\ RecoverSelect => IInv'
<1> SUFFICES ASSUME IInv, RecoverSelect PROVE IInv'
  OBVIOUS
<1> USE DEF messages, restart
<1>0. ThreadsTyped /\ RestTyped /\ WorkInv /\ EntryInv
  BY Typed DEF IInv
<1>1. /\ UNCHANGED <<status, worker, future, inbox, outbox, deployed, server, interrupted,
                     guessed, crashes, retries>>
      /\ recovery' = IF Running = {} THEN NoRecovery ELSE [at |-> "judging", rows |-> Running]
  BY DEF RecoverSelect
<1>2. recovery' \in [at : {"off", "waiting", "judging"}, rows : SUBSET Tasks]
  BY <1>1 DEF NoRecovery, Running
<1>3. TypeOK'
  BY <1>0, <1>1, <1>2, TypedNext DEF RestTyped, ThreadsTyped
<1>4. WorkInv' /\ EntryInv' /\ ResultInv' /\ DoneInv'
  BY <1>0, <1>1 DEF IInv, WorkInv, WorkOf, EntryInv, ResultInv, DoneInv
<1>5. Running' = Running /\ Running \subseteq recovery'.rows
  BY <1>1 DEF Running, NoRecovery
<1>6. RunningIsServed'
  BY <1>5 DEF RunningIsServed
<1> QED
  BY <1>3, <1>4, <1>6 DEF IInv

\* The row that is judged is not running any more, and guessed when it is completed.
LEMMA JudgeKeeps ==
    ASSUME IInv, NEW t \in Tasks, RecoverJudge(t)
    PROVE  IInv'
<1> USE DEF messages, restart
<1>0. TypeOK /\ ThreadsTyped /\ RestTyped /\ WorkInv /\ EntryInv
  BY Typed DEF IInv
<1>1. /\ UNCHANGED <<worker, future, inbox, outbox, deployed, server, interrupted,
                     crashes, retries>>
      /\ recovery.at = "judging"
      /\ recovery' = IF recovery.rows = {t} THEN NoRecovery
                     ELSE [recovery EXCEPT !.rows = @ \ {t}]
  BY DEF RecoverJudge
<1>2. PICK s \in {"completed", "failed"} :
        /\ SetStatus(t, s)
        /\ guessed' = IF s = "completed" THEN guessed \cup {t} ELSE guessed
  BY DEF RecoverJudge
<1>3. /\ status' \in [Tasks -> Statuses]
      /\ \A u \in Tasks \ {t} : status'[u] = status[u]
      /\ status'[t] \in {s, "deleted"}
  BY <1>0, <1>2, SetStatusIs DEF Statuses
<1>4. /\ recovery' \in [at : {"off", "waiting", "judging"}, rows : SUBSET Tasks]
      /\ recovery'.rows = recovery.rows \ {t}
  BY <1>0, <1>1 DEF RestTyped, NoRecovery
<1>5. guessed' \subseteq Tasks
  BY <1>0, <1>2 DEF RestTyped
<1>6. TypeOK'
  BY <1>0, <1>1, <1>3, <1>4, <1>5, TypedNext DEF RestTyped, ThreadsTyped
<1>7. WorkInv' /\ EntryInv' /\ ResultInv'
  BY <1>0, <1>1 DEF IInv, WorkInv, WorkOf, EntryInv, ResultInv
<1>8. DoneInv'
  BY <1>1, <1>2, <1>3 DEF IInv, DoneInv
<1>9. RunningIsServed'
  BY <1>1, <1>2, <1>3, <1>4 DEF IInv, RunningIsServed, Running
<1> QED
  BY <1>6, <1>7, <1>8, <1>9 DEF IInv

-----------------------------------------------------------------------------
(* The theorems. *)

LEMMA StutterKeeps == IInv /\ UNCHANGED vars => IInv'
<1> SUFFICES ASSUME IInv, UNCHANGED vars PROVE IInv'
  OBVIOUS
<1>1. UNCHANGED <<status, worker, future, inbox, outbox, deployed, server, recovery,
                  interrupted, guessed, crashes, retries>>
  BY DEF vars, messages, restart
<1>2. ThreadsTyped /\ RestTyped
  BY Typed DEF IInv
<1>3. TypeOK'
  BY <1>1, <1>2, TypedNext DEF ThreadsTyped, RestTyped
<1>4. WorkInv' /\ EntryInv' /\ ResultInv' /\ DoneInv'
  BY <1>1 DEF IInv, WorkInv, WorkOf, EntryInv, ResultInv, DoneInv
<1>5. RunningIsServed'
  BY <1>1 DEF IInv, RunningIsServed, Running
<1> QED
  BY <1>3, <1>4, <1>5 DEF IInv

\* Whatever threads, requests, agent, network and crashes do keeps the invariant.
LEMMA StepKeeps == IInv /\ [Next]_vars => IInv'
<1> SUFFICES ASSUME IInv, [Next]_vars PROVE IInv'
  OBVIOUS
<1>1. ASSUME NEW t \in Tasks, Create(t) \/ Retry(t) \/ Delete(t) \/ StopCommit(t)
      PROVE  IInv'
  BY <1>1, RowKeeps
<1>2. ASSUME NEW t \in Tasks, NEW w \in Workers, Start(t, w) PROVE IInv'
  BY <1>2, StartKeeps
<1>3. ASSUME NEW w \in Workers, Thread(w) PROVE IInv'
  <2>1. CASE \E x \in Targets : TargetFails(w, x) \/ SendTarget(w, x) \/ DeployDirectly(w, x)
    BY <2>1, FailsKeeps, SendKeeps, DirectKeeps
  <2>2. CASE Receive(w) \/ PollStopped(w) \/ GiveUp(w) \/ WriteOutcome(w) \/ WriteAgain(w)
    BY <2>2, ReceiveKeeps, PollKeeps, GiveUpKeeps, OutcomeKeeps, AgainKeeps
  <2> QED
    BY <1>3, <2>1, <2>2 DEF Thread
<1>4. ASSUME NEW k \in Keys, AgentDeploys(k) \/ \E ok \in BOOLEAN : Deliver(k, ok)
      PROVE  IInv'
  BY <1>4, AgentKeeps, DeliverKeeps
<1>5. CASE StopCancel \/ Lose \/ Crash
  BY <1>5, CancelKeeps, LoseKeeps, CrashKeeps
<1>6. CASE Recover
  BY <1>6, SelectKeeps, JudgeKeeps DEF Recover
<1>7. CASE UNCHANGED vars
  BY <1>7, StutterKeeps
<1> QED
  BY <1>1, <1>2, <1>3, <1>4, <1>5, <1>6, <1>7 DEF Next

\* The inductive invariant holds in every reachable state.
THEOREM Invariance == Spec => []IInv
<1>1. Init => IInv
  BY Begins
<1>2. IInv /\ [Next]_vars => IInv'
  BY StepKeeps
<1> QED
  BY <1>1, <1>2, PTL DEF Spec

\* Every variable has its type (status, threads, futures, messages, recovery).
THEOREM TypeCorrect == Spec => []TypeOK
<1>1. IInv => TypeOK
  BY DEF IInv
<1> QED
  BY <1>1, Invariance, PTL

\* A row is completed only when each of its targets was deployed for it
\* (execute_task_with_manager, with results from any attempt), unless the recovery
\* has judged it.
THEOREM Completed == Spec => []CompletedIsDeployed
<1>1. IInv => CompletedIsDeployed
  BY DEF IInv, DoneInv, CompletedIsDeployed
<1> QED
  BY <1>1, Invariance, PTL

\* An entry of deploy_result_futures is one that an attempt still waits for: a result
\* finds its attempt, and the table does not grow.
THEOREM Awaited == Spec => []EntryIsAwaited
<1>1. IInv => EntryIsAwaited
  BY DEF IInv, EntryInv, EntryIsAwaited, KeyOf
<1> QED
  BY <1>1, Invariance, PTL

\* A running row is worked on, or the recovery after a crash has still to judge it.
THEOREM Served == Spec => []RunningIsServed
<1>1. IInv => RunningIsServed
  BY DEF IInv
<1> QED
  BY <1>1, Invariance, PTL
=============================================================================
