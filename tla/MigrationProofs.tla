--------------------------- MODULE MigrationProofs ---------------------------
(***************************************************************************)
(* Theorems about Migration, for any rows, requests, workers and users and *)
(* any number of crashes.                                                  *)
(***************************************************************************)
EXTENDS Migration, TLAPS

USE MigrationAssumption

(***************************************************************************)
(* The inductive invariant.                                                *)
(***************************************************************************)

\* Where the server, the scheduler and the workers are says which row and which
\* request they have.
PlaceInv ==
    /\ server.at \in {"idle", "refile", "execute", "stop", "delete", "edit"} => server.request = None
    /\ server.at \in {"bind", "rebind", "result", "read", "approve", "grant", "save"}
           => server.request \in Requests
    /\ server.at \in {"bind", "rebind", "result", "refile", "execute", "queue", "save",
                      "stop", "delete", "edit"} => server.task \in Tasks
    /\ cron.at = "queue" => cron.task \in Tasks
    /\ starter.at # "idle" => starter.task \in Tasks
    /\ \A w \in Workers : worker[w].at # "idle" => worker[w].task \in Tasks

\* A request that is being filed is pending and has no migration yet; the migration it
\* is filed for is new, or no open request names it; after the binding it is bound to it.
FilingInv ==
    /\ server.at \in {"bind", "rebind", "result"} => req[server.request] = "pending"
    /\ server.at = "read" => req[server.request] \in {"pending", "running"}
    /\ server.at = "bind" =>
           status[server.task] = "absent" /\ \A r \in Requests : result[r] # server.task
    /\ server.at \in {"refile", "rebind"} =>
           \A r \in Requests : result[r] = server.task => req[r] \notin Open
    /\ server.at = "result" => approval[server.task] = server.request

\* A request whose approval is being carried out is approved, and once its migration is
\* found, the migration is bound to it.
Approving == server.at \in {"approve", "grant", "queue", "save"} /\ server.request # None

ApprovalInv ==
    /\ Approving => req[server.request] = "approved"
    /\ server.at = "approve" => server.task = result[server.request]
    /\ Approving /\ server.at \in {"queue", "save"} => approval[server.task] = server.request

\* What counts as approved has been reviewed, or a read took it for that.
GrantInv ==
    \A r \in Requests : req[r] \in {"approved", "running"} => r \in granted \cup presumed

\* The row whose status is about to be committed is there: only the server deletes.
RowInv == server.at \in {"queue", "stop"} => status[server.task] # "absent"

ServerInv ==
    FilingInv /\ ApprovalInv /\ RowInv /\ GrantInv /\ OneOpenRequest /\ NothingLeftApproved

IInv == TypeOK /\ PlaceInv /\ ServerInv /\ RunningHasWorker

-----------------------------------------------------------------------------
(* Types, in four parts. *)

TablesTyped ==
    /\ status \in [Tasks -> Statuses]
    /\ last \in [Tasks -> {"none", "completed", "failed"}]
    /\ sched \in [Tasks -> BOOLEAN]
    /\ creator \in [Tasks -> Users \cup {None}]
    /\ guarded \in SUBSET Tasks
    /\ approval \in [Tasks -> Requests \cup {None}]

ReviewsTyped ==
    /\ req \in [Requests -> Decided]
    /\ by \in [Requests -> Users \cup {None}]
    /\ result \in [Requests -> Tasks \cup {None}]
    /\ granted \in SUBSET Requests
    /\ presumed \in SUBSET Requests

ServerTyped ==
    server \in [at : Places, task : Tasks \cup {None}, request : Requests \cup {None}]

Jobs == [at : {"idle", "start", "run", "finish"}, task : Tasks \cup {None}, ok : BOOLEAN]

BesideTyped ==
    /\ cutoff \in SUBSET Requests
    /\ orphans \in SUBSET Tasks
    /\ verdict \in [Tasks -> {"free", "reviewed", "edited"}]
    /\ cron \in [at : {"idle", "queue"}, task : Tasks \cup {None}]
    /\ starter \in [at : {"idle", "start", "refuse"}, task : Tasks \cup {None}]
    /\ worker \in [Workers -> Jobs]
    /\ crashes \in 0..MaxCrashes

LEMMA Typed == TypeOK <=> TablesTyped /\ ReviewsTyped /\ ServerTyped /\ BesideTyped
  BY DEF TypeOK, TablesTyped, ReviewsTyped, ServerTyped, BesideTyped, Jobs

LEMMA TypedNext == TypeOK' <=> TablesTyped' /\ ReviewsTyped' /\ ServerTyped' /\ BesideTyped'
  BY DEF TypeOK, TablesTyped, ReviewsTyped, ServerTyped, BesideTyped, Jobs

-----------------------------------------------------------------------------
(* The operators of the model. *)

\* Reading a request spares what is decided, approves nothing and rejects nothing.
LEMMA SyncedIs ==
    ASSUME TypeOK, NEW r \in Requests
    PROVE  /\ SyncedTo(r) \in Decided
           /\ req[r] \notin Open => SyncedTo(r) = req[r]
           /\ SyncedTo(r) \in Open => req[r] \in Open
           /\ SyncedTo(r) \in {"pending", "approved"} => SyncedTo(r) = req[r]
  BY DEF TypeOK, SyncedTo, Synced, ExecutionOf, Decided, Open, Terminal

LEMMA ReadAllIs ==
    ASSUME TypeOK, NEW R \in SUBSET Requests, ReadAll(R)
    PROVE  /\ req' \in [Requests -> Decided]
           /\ presumed' \in SUBSET Requests
           /\ presumed \subseteq presumed'
           /\ \A r \in Requests :
                 /\ r \notin R => req'[r] = req[r]
                 /\ r \in R => req'[r] = SyncedTo(r)
                 /\ req[r] \notin Open => req'[r] = req[r]
                 /\ req'[r] \in Open => req[r] \in Open
                 /\ req'[r] = "approved" => req[r] = "approved"
                 /\ req'[r] = "running" => req[r] \in {"approved", "running"} \/ r \in presumed'
<1>1. \A r \in Requests :
        /\ SyncedTo(r) \in Decided
        /\ req[r] \notin Open => SyncedTo(r) = req[r]
        /\ SyncedTo(r) \in Open => req[r] \in Open
        /\ SyncedTo(r) \in {"pending", "approved"} => SyncedTo(r) = req[r]
  BY SyncedIs
<1>2. req \in [Requests -> Decided] /\ presumed \in SUBSET Requests
  BY DEF TypeOK
<1> QED
  BY <1>1, <1>2 DEF ReadAll, Open

LEMMA AtTyped ==
    ASSUME NEW place \in Places, NEW t \in Tasks \cup {None}, NEW r \in Requests \cup {None},
           At(place, t, r)
    PROVE  /\ ServerTyped'
           /\ server'.at = place /\ server'.task = t /\ server'.request = r
  BY DEF At, ServerTyped

LEMMA DoneTyped ==
    ASSUME Done
    PROVE  ServerTyped' /\ server'.at = "idle" /\ server'.request = None
  BY DEF Done, Resting, ServerTyped, Places

\* A row that is created is idle.
LEMMA PutTyped ==
    ASSUME TablesTyped, NEW t \in Tasks, NEW u \in Users \cup {None},
           NEW r \in Requests \cup {None}, NEW s \in BOOLEAN, PutTask(t, u, r, s),
           guarded' \in SUBSET Tasks
    PROVE  /\ TablesTyped'
           /\ status'[t] = "idle" /\ approval'[t] = r
           /\ \A v \in Tasks \ {t} : status'[v] = status[v] /\ approval'[v] = approval[v]
  BY DEF PutTask, TablesTyped, Statuses

-----------------------------------------------------------------------------
(* What most of the steps have in common. *)

\* A step that starts nothing leaves each running row its worker.
LEMMA NothingStarts ==
    ASSUME TypeOK, RunningHasWorker, UNCHANGED <<worker, orphans>>,
           \A t \in Tasks : status'[t] = "running" => status[t] = "running"
    PROVE  RunningHasWorker'
  BY DEF RunningHasWorker, Running

\* A step beside the server touches no request and no binding.
LEMMA BesideServer ==
    ASSUME TypeOK, PlaceInv, ServerInv,
           UNCHANGED <<reviews, server, approval, cutoff>>,
           \A t \in Tasks : status'[t] = "absent" <=> status[t] = "absent"
    PROVE  ServerInv'
<1>1. UNCHANGED <<req, by, result, granted, presumed>>
  BY DEF reviews
<1>2. \A r \in Requests : result[r] \in Tasks \cup {None}
  BY DEF TypeOK
<1>3. FilingInv' /\ ApprovalInv' /\ RowInv'
  BY <1>1 DEF ServerInv, FilingInv, ApprovalInv, RowInv, Approving, PlaceInv
<1>4. OneOpenRequest'
  BY <1>1, <1>2 DEF ServerInv, OneOpenRequest
<1>5. GrantInv' /\ NothingLeftApproved'
  BY <1>1 DEF ServerInv, GrantInv, NothingLeftApproved
<1> QED
  BY <1>3, <1>4, <1>5 DEF ServerInv

\* A step of a route that has no request and leaves the named migrations bound
LEMMA PlainStep ==
    ASSUME TypeOK, PlaceInv, ServerInv,
           UNCHANGED <<reviews, cutoff>>,
           server.request = None, server'.request = None,
           server'.at \in {"idle", "execute", "queue", "stop", "delete", "edit"}, RowInv',
           \A r \in Requests : result[r] # None =>
               /\ status[result[r]] = "absent" => status'[result[r]] = "absent"
               /\ status'[result[r]] = "absent" \/ approval'[result[r]] = approval[result[r]]
    PROVE  ServerInv'
<1>1. UNCHANGED <<req, by, result, granted, presumed>>
  BY DEF reviews
<1>2. FilingInv' /\ ApprovalInv'
  BY DEF FilingInv, ApprovalInv, Approving
<1>3. OneOpenRequest'
  BY <1>1 DEF ServerInv, OneOpenRequest
<1>4. GrantInv' /\ NothingLeftApproved'
  BY <1>1 DEF ServerInv, GrantInv, NothingLeftApproved
<1> QED
  BY <1>2, <1>3, <1>4 DEF ServerInv

\* A request is filed: it is pending and names no migration.
LEMMA Files ==
    ASSUME TypeOK, PlaceInv, ServerInv, NEW u \in Users, NEW r \in Requests, NEW t \in Tasks,
           NEW place \in {"bind", "rebind"}, FileRequest(u, r, t, place),
           server.request = None, UNCHANGED <<tables, cutoff>>,
           place = "bind" => status[t] = "absent" /\ \A q \in Requests : result[q] # t,
           place = "rebind" => \A q \in Requests : result[q] = t => req[q] \notin Open
    PROVE  ReviewsTyped' /\ ServerTyped' /\ server'.request \in Requests
           /\ server'.task \in Tasks /\ server'.at = place /\ ServerInv'
<1>1. /\ req' = [req EXCEPT ![r] = "pending"] /\ by' = [by EXCEPT ![r] = u]
      /\ result' = [result EXCEPT ![r] = None]
      /\ UNCHANGED <<granted, presumed, status, approval, cutoff>>
      /\ req[r] = "absent" /\ At(place, t, r)
  BY DEF FileRequest, tables
<1>2. /\ req \in [Requests -> Decided] /\ by \in [Requests -> Users \cup {None}]
      /\ result \in [Requests -> Tasks \cup {None}] /\ granted \in SUBSET Requests
      /\ presumed \in SUBSET Requests
  BY DEF TypeOK
<1>3. ReviewsTyped'
  BY <1>1, <1>2 DEF ReviewsTyped, Decided, Open
<1>4. /\ ServerTyped' /\ server'.at = place /\ server'.task = t /\ server'.request = r
  BY <1>1, AtTyped DEF Places
<1>5. FilingInv' /\ ApprovalInv' /\ RowInv'
  BY <1>1, <1>2, <1>4 DEF FilingInv, ApprovalInv, RowInv, Approving, Open
<1>6. OneOpenRequest'
  BY <1>1, <1>2 DEF ServerInv, OneOpenRequest
<1>7. GrantInv' /\ NothingLeftApproved'
  BY <1>1, <1>2 DEF ServerInv, GrantInv, NothingLeftApproved
<1> QED
  BY <1>3, <1>4, <1>5, <1>6, <1>7 DEF ServerInv

-----------------------------------------------------------------------------
(* Routes that create migrations and requests. *)

\* The parts of the invariant that a step of a route must keep
LEMMA RoutesKeep ==
    ASSUME IInv, ServerInv', TablesTyped', ReviewsTyped', ServerTyped',
           UNCHANGED <<beside, faults>>,
           \A t \in Tasks : status'[t] = "running" => status[t] = "running",
           server'.at \in {"idle", "refile", "execute", "stop", "delete", "edit"} => server'.request = None,
           server'.at \in {"bind", "rebind", "result", "read", "approve", "grant", "save"}
               => server'.request \in Requests,
           server'.at \in {"bind", "rebind", "result", "refile", "execute", "queue", "save",
                           "stop", "delete", "edit"} => server'.task \in Tasks
    PROVE  IInv'
<1>1. UNCHANGED <<cron, starter, worker, cutoff, orphans, verdict, crashes>>
  BY DEF faults, beside
<1>2. TypeOK'
  BY <1>1, Typed, TypedNext DEF IInv, BesideTyped
<1>3. PlaceInv'
  BY <1>1 DEF IInv, PlaceInv
<1>4. RunningHasWorker'
  BY <1>1, NothingStarts DEF IInv
<1> QED
  BY <1>2, <1>3, <1>4 DEF IInv

\* An identity that is fresh is named by no request.
LEMMA FreshIs ==
    ASSUME NEW t \in Tasks, FreshTask(t)
    PROVE  status[t] = "absent" /\ \A r \in Requests : result[r] # t
  BY DEF FreshTask

LEMMA CreateTaskKeeps ==
    ASSUME IInv, NEW u \in Users, NEW t \in Tasks, CreateTask(u, t)
    PROVE  IInv'
<1>0. TablesTyped /\ ReviewsTyped /\ TypeOK /\ PlaceInv /\ ServerInv
  BY Typed DEF IInv
<1>1. PICK secured, scheduled, now \in BOOLEAN :
        /\ guarded' = IF secured THEN guarded \cup {t} ELSE guarded \ {t}
        /\ PutTask(t, u, None, scheduled)
        /\ IF now THEN At("execute", t, None) ELSE Done
  BY DEF CreateTask
<1>2. server.at = "idle" /\ FreshTask(t) /\ UNCHANGED <<reviews, beside, faults>>
  BY DEF CreateTask
<1>3. guarded' \in SUBSET Tasks
  BY <1>0, <1>1 DEF TablesTyped
<1>4. /\ TablesTyped' /\ status'[t] = "idle"
      /\ \A v \in Tasks \ {t} : status'[v] = status[v] /\ approval'[v] = approval[v]
  BY <1>0, <1>1, <1>3, PutTyped
<1>5. /\ ServerTyped' /\ server'.request = None
      /\ server'.at \in {"idle", "execute"} /\ (server'.at = "execute" => server'.task \in Tasks)
  BY <1>1, AtTyped, DoneTyped DEF Places
<1>6. ReviewsTyped'
  BY <1>0, <1>2 DEF ReviewsTyped, reviews
<1>7. server.request = None
  BY <1>0, <1>2 DEF PlaceInv
<1>8. \A r \in Requests : result[r] \in Tasks \cup {None} /\ result[r] # t
  BY <1>0, <1>2, FreshIs DEF ReviewsTyped
<1>9. ServerInv'
  BY <1>0, <1>2, <1>4, <1>5, <1>7, <1>8, PlainStep DEF faults, RowInv
<1> QED
  BY <1>2, <1>4, <1>5, <1>6, <1>9, RoutesKeep

LEMMA SubmitKeeps ==
    ASSUME IInv, NEW u \in Users, NEW r \in Requests, NEW t \in Tasks, SubmitRequest(u, r, t)
    PROVE  IInv'
<1>0. TablesTyped /\ TypeOK /\ PlaceInv /\ ServerInv
  BY Typed DEF IInv
<1>1. /\ server.at = "idle" /\ FreshTask(t) /\ FileRequest(u, r, t, "bind")
      /\ UNCHANGED <<tables, beside, faults>>
  BY DEF SubmitRequest
<1>2. server.request = None
  BY <1>0, <1>1 DEF PlaceInv
<1>3. /\ ReviewsTyped' /\ ServerTyped' /\ server'.request \in Requests
      /\ server'.task \in Tasks /\ server'.at = "bind" /\ ServerInv'
  BY <1>0, <1>1, <1>2, FreshIs, Files DEF faults
<1>4. TablesTyped' /\ UNCHANGED status
  BY <1>0, <1>1 DEF TablesTyped, tables
<1> QED
  BY <1>1, <1>3, <1>4, RoutesKeep

LEMMA BindNewKeeps ==
    ASSUME IInv, BindNew
    PROVE  IInv'
<1>0. TablesTyped /\ ReviewsTyped /\ TypeOK /\ PlaceInv /\ ServerInv
  BY Typed DEF IInv
<1> DEFINE t == server.task
           r == server.request
<1>1. /\ server.at = "bind" /\ PutTask(t, by[r], r, FALSE)
      /\ guarded' = guarded \cup {t} /\ At("result", t, r)
      /\ UNCHANGED <<reviews, beside, faults>>
  BY DEF BindNew
<1>2. t \in Tasks /\ r \in Requests /\ by[r] \in Users \cup {None} /\ guarded' \in SUBSET Tasks
  BY <1>0, <1>1 DEF PlaceInv, ReviewsTyped, TablesTyped
<1>3. /\ TablesTyped' /\ status'[t] = "idle" /\ approval'[t] = r
      /\ \A v \in Tasks \ {t} : status'[v] = status[v] /\ approval'[v] = approval[v]
  BY <1>0, <1>1, <1>2 DEF PutTask, TablesTyped, Statuses
<1>4. /\ ServerTyped' /\ server'.at = "result" /\ server'.task = t /\ server'.request = r
  BY <1>1, <1>2, AtTyped DEF Places
<1>5. UNCHANGED <<req, by, result, granted, presumed, cutoff>>
  BY <1>1 DEF reviews, faults
<1>6. \A q \in Requests : result[q] \in Tasks \cup {None} /\ result[q] # t
  BY <1>0, <1>1 DEF ServerInv, FilingInv, ReviewsTyped
<1>7. req[r] = "pending"
  BY <1>0, <1>1 DEF ServerInv, FilingInv
<1>8. ServerInv'
  <2>1. FilingInv' /\ ApprovalInv' /\ RowInv'
    BY <1>3, <1>4, <1>5, <1>7 DEF FilingInv, ApprovalInv, RowInv, Approving
  <2>2. OneOpenRequest'
    BY <1>0, <1>3, <1>5, <1>6 DEF ServerInv, OneOpenRequest
  <2>3. GrantInv' /\ NothingLeftApproved'
    BY <1>0, <1>4, <1>5 DEF ServerInv, GrantInv, NothingLeftApproved
  <2> QED
    BY <2>1, <2>2, <2>3 DEF ServerInv
<1>9. ReviewsTyped'
  BY <1>0, <1>5 DEF ReviewsTyped
<1> QED
  BY <1>1, <1>2, <1>3, <1>4, <1>8, <1>9, RoutesKeep

LEMMA BindExistingKeeps ==
    ASSUME IInv, BindExisting
    PROVE  IInv'
<1>0. TablesTyped /\ ReviewsTyped /\ TypeOK /\ PlaceInv /\ ServerInv
  BY Typed DEF IInv
<1> DEFINE t == server.task
           r == server.request
<1>1. /\ server.at = "rebind" /\ approval' = [approval EXCEPT ![t] = r] /\ At("result", t, r)
      /\ UNCHANGED <<status, last, sched, creator, guarded, reviews, beside, faults>>
  BY DEF BindExisting
<1>2. t \in Tasks /\ r \in Requests
  BY <1>0, <1>1 DEF PlaceInv
<1>3. /\ TablesTyped' /\ approval'[t] = r
      /\ \A v \in Tasks \ {t} : approval'[v] = approval[v]
  BY <1>0, <1>1, <1>2 DEF TablesTyped
<1>4. /\ ServerTyped' /\ server'.at = "result" /\ server'.task = t /\ server'.request = r
  BY <1>1, <1>2, AtTyped DEF Places
<1>5. UNCHANGED <<status, req, by, result, granted, presumed, cutoff>>
  BY <1>1 DEF reviews, faults
<1>6. \A q \in Requests : /\ result[q] \in Tasks \cup {None}
                          /\ result[q] = t => req[q] \notin Open
  BY <1>0, <1>1 DEF ServerInv, FilingInv, ReviewsTyped
<1>7. req[r] = "pending"
  BY <1>0, <1>1 DEF ServerInv, FilingInv
<1>8. ServerInv'
  <2>1. FilingInv' /\ ApprovalInv' /\ RowInv'
    BY <1>3, <1>4, <1>5, <1>7 DEF FilingInv, ApprovalInv, RowInv, Approving
  <2>2. ASSUME NEW q \in Requests, req'[q] \in Open, result'[q] # None
        PROVE  status'[result'[q]] = "absent" \/ approval'[result'[q]] = q
    <3>1. result[q] \in Tasks \ {t} /\ req[q] \in Open
      BY <1>5, <1>6, <2>2
    <3> QED
      BY <1>0, <1>3, <1>5, <3>1 DEF ServerInv, OneOpenRequest
  <2>3. GrantInv' /\ NothingLeftApproved'
    BY <1>0, <1>4, <1>5 DEF ServerInv, GrantInv, NothingLeftApproved
  <2> QED
    BY <2>1, <2>2, <2>3 DEF ServerInv, OneOpenRequest
<1>9. ReviewsTyped'
  BY <1>0, <1>5 DEF ReviewsTyped
<1> QED
  BY <1>1, <1>2, <1>3, <1>4, <1>5, <1>8, <1>9, RoutesKeep

LEMMA SetResultKeeps ==
    ASSUME IInv, SetResult
    PROVE  IInv'
<1>0. TablesTyped /\ ReviewsTyped /\ TypeOK /\ PlaceInv /\ ServerInv
  BY Typed DEF IInv
<1> DEFINE t == server.task
           r == server.request
<1>1. /\ server.at = "result" /\ result' = [result EXCEPT ![r] = t] /\ At("read", None, r)
      /\ UNCHANGED <<tables, req, by, granted, presumed, beside, faults>>
  BY DEF SetResult
<1>2. t \in Tasks /\ r \in Requests /\ req[r] = "pending" /\ approval[t] = r
  BY <1>0, <1>1 DEF PlaceInv, ServerInv, FilingInv
<1>3. /\ ServerTyped' /\ server'.at = "read" /\ server'.task = None /\ server'.request = r
  BY <1>1, <1>2, AtTyped DEF Places
<1>4. TablesTyped' /\ UNCHANGED <<status, approval, cutoff>>
  BY <1>0, <1>1 DEF TablesTyped, tables, faults
<1>5. ReviewsTyped' /\ \A q \in Requests : result'[q] = IF q = r THEN t ELSE result[q]
  BY <1>0, <1>1, <1>2 DEF ReviewsTyped
<1>6. ServerInv'
  <2>1. FilingInv' /\ ApprovalInv' /\ RowInv'
    BY <1>1, <1>2, <1>3 DEF FilingInv, ApprovalInv, RowInv, Approving
  <2>2. OneOpenRequest'
    BY <1>0, <1>1, <1>2, <1>4, <1>5 DEF ServerInv, OneOpenRequest
  <2>3. GrantInv' /\ NothingLeftApproved'
    BY <1>0, <1>1, <1>3, <1>4 DEF ServerInv, GrantInv, NothingLeftApproved
  <2> QED
    BY <2>1, <2>2, <2>3 DEF ServerInv
<1> QED
  BY <1>1, <1>2, <1>3, <1>4, <1>5, <1>6, RoutesKeep

\* Whatever is read keeps requests open or closed, and approved only what was approved.
LEMMA ReadKeeps ==
    ASSUME IInv, NEW R \in SUBSET Requests, ReadAll(R),
           UNCHANGED <<tables, by, result, granted, faults>>
    PROVE  /\ ReviewsTyped' /\ TablesTyped'
           /\ GrantInv' /\ OneOpenRequest'
           /\ \A r \in Requests : req'[r] = "approved" => req[r] = "approved"
<1>0. TablesTyped /\ ReviewsTyped /\ TypeOK /\ ServerInv
  BY Typed DEF IInv
<1>1. /\ req' \in [Requests -> Decided] /\ presumed' \in SUBSET Requests
      /\ presumed \subseteq presumed'
      /\ \A r \in Requests :
            /\ req'[r] \in Open => req[r] \in Open
            /\ req'[r] = "approved" => req[r] = "approved"
            /\ req'[r] = "running" => req[r] \in {"approved", "running", "pending"}
            /\ req[r] = "pending" /\ req'[r] = "running" => r \in presumed'
  BY <1>0, ReadAllIs DEF ReadAll, Open
<1>2. UNCHANGED <<status, approval, by, result, granted>>
  BY DEF tables
<1>3. ReviewsTyped' /\ TablesTyped'
  BY <1>0, <1>1 DEF ReviewsTyped, TablesTyped, tables
<1>4. GrantInv'
  BY <1>0, <1>1, <1>2 DEF ServerInv, GrantInv
<1>5. OneOpenRequest'
  BY <1>0, <1>1, <1>2 DEF ServerInv, OneOpenRequest
<1> QED
  BY <1>1, <1>3, <1>4, <1>5

\* A route that reads requests and is over then
LEMMA AnswerKeeps ==
    ASSUME IInv, AnswerRequest
    PROVE  IInv'
<1>0. TypeOK /\ PlaceInv /\ ServerInv
  BY DEF IInv
<1>1. /\ server.at = "read" /\ ReadAll({server.request}) /\ Done
      /\ UNCHANGED <<tables, by, result, granted, beside, faults>>
  BY DEF AnswerRequest
<1>2. server.request \in Requests /\ req[server.request] # "approved"
  BY <1>0, <1>1 DEF PlaceInv, ServerInv, FilingInv
<1>3. /\ ReviewsTyped' /\ TablesTyped' /\ GrantInv' /\ OneOpenRequest'
      /\ \A r \in Requests : req'[r] = "approved" => req[r] = "approved"
  BY <1>1, <1>2, ReadKeeps
<1>4. ServerTyped' /\ server'.at = "idle" /\ server'.request = None
  BY <1>1, DoneTyped
<1>5. FilingInv' /\ ApprovalInv' /\ RowInv'
  BY <1>4 DEF FilingInv, ApprovalInv, RowInv, Approving
<1>6. NothingLeftApproved'
  BY <1>0, <1>1, <1>2, <1>3 DEF ServerInv, NothingLeftApproved, faults
<1>7. ServerInv' /\ UNCHANGED status
  BY <1>1, <1>3, <1>5, <1>6 DEF ServerInv, tables
<1> QED
  BY <1>1, <1>3, <1>4, <1>7, RoutesKeep

LEMMA ReadRequestsKeeps ==
    ASSUME IInv, NEW R \in SUBSET Requests, ReadRequests(R)
    PROVE  IInv'
<1>0. TypeOK /\ PlaceInv /\ ServerInv /\ ServerTyped
  BY Typed DEF IInv
<1>1. /\ server.at = "idle" /\ ReadAll(R)
      /\ UNCHANGED <<tables, by, result, granted, server, beside, faults>>
  BY DEF ReadRequests, threads
<1>2. /\ ReviewsTyped' /\ TablesTyped' /\ GrantInv' /\ OneOpenRequest'
      /\ \A r \in Requests : req'[r] = "approved" => req[r] = "approved"
  BY <1>1, ReadKeeps
<1>3. ServerTyped' /\ server.request = None
  BY <1>0, <1>1 DEF PlaceInv, ServerTyped
<1>4. FilingInv' /\ ApprovalInv' /\ RowInv'
  BY <1>1, <1>3 DEF FilingInv, ApprovalInv, RowInv, Approving
<1>5. NothingLeftApproved'
  BY <1>0, <1>1, <1>2 DEF ServerInv, NothingLeftApproved, faults
<1>6. ServerInv' /\ UNCHANGED status
  BY <1>1, <1>2, <1>4, <1>5 DEF ServerInv, tables
<1> QED
  BY <1>0, <1>1, <1>2, <1>3, <1>6, RoutesKeep DEF PlaceInv

-----------------------------------------------------------------------------
(* Execution. *)

LEMMA ExecuteRouteKeeps ==
    ASSUME IInv, NEW u \in Users, NEW t \in Tasks, ExecuteRoute(u, t)
    PROVE  IInv'
<1>0. TablesTyped /\ ReviewsTyped /\ ServerTyped /\ TypeOK /\ PlaceInv /\ ServerInv
  BY Typed DEF IInv
<1>1. /\ server.at = "idle" /\ status[t] # "absent"
      /\ UNCHANGED <<tables, beside, faults>>
  BY DEF ExecuteRoute
<1>2. TablesTyped' /\ UNCHANGED <<status, approval, cutoff>>
  BY <1>0, <1>1 DEF TablesTyped, tables, faults
<1>3. server.request = None
  BY <1>0, <1>1 DEF PlaceInv
<1>4. approval[t] \in Requests \cup {None}
  BY <1>0 DEF TablesTyped
<1>5. CASE At("execute", t, None) /\ UNCHANGED reviews
  <2>1. ServerTyped' /\ server'.at = "execute" /\ server'.task = t /\ server'.request = None
    BY <1>5, AtTyped DEF Places
  <2>2. ServerInv'
    BY <1>0, <1>2, <1>3, <1>5, <2>1, PlainStep DEF RowInv
  <2>3. ReviewsTyped'
    BY <1>0, <1>5 DEF ReviewsTyped, reviews
  <2> QED
    BY <1>1, <1>2, <2>1, <2>2, <2>3, RoutesKeep
<1>6. CASE approval[t] # None /\ ReadAll({approval[t]}) /\ UNCHANGED <<by, result, granted, server>>
  <2>1. /\ ReviewsTyped' /\ TablesTyped' /\ GrantInv' /\ OneOpenRequest'
        /\ \A r \in Requests : req'[r] = "approved" => req[r] = "approved"
    BY <1>1, <1>4, <1>6, ReadKeeps
  <2>2. FilingInv' /\ ApprovalInv' /\ RowInv' /\ ServerTyped'
    BY <1>0, <1>1, <1>3, <1>6 DEF FilingInv, ApprovalInv, RowInv, Approving, ServerTyped
  <2>3. NothingLeftApproved'
    BY <1>0, <1>2, <1>6, <2>1 DEF ServerInv, NothingLeftApproved
  <2>4. ServerInv'
    BY <2>1, <2>2, <2>3 DEF ServerInv
  <2> QED
    BY <1>0, <1>1, <1>2, <1>6, <2>1, <2>2, <2>4, RoutesKeep DEF PlaceInv
<1>7. CASE /\ approval[t] # None /\ SyncedTo(approval[t]) \in Terminal
           /\ ReadAll({approval[t]}) /\ At("refile", t, None) /\ UNCHANGED <<by, result, granted>>
  <2>1. /\ ReviewsTyped' /\ TablesTyped' /\ GrantInv' /\ OneOpenRequest'
        /\ \A r \in Requests : req'[r] = "approved" => req[r] = "approved"
    BY <1>1, <1>4, <1>7, ReadKeeps
  <2>2. ServerTyped' /\ server'.at = "refile" /\ server'.task = t /\ server'.request = None
    BY <1>7, AtTyped DEF Places
  <2>3. ASSUME NEW r \in Requests, result'[r] = t PROVE req'[r] \notin Open
    <3>1. result[r] = t /\ result[r] # None
      BY <1>7, <2>3
    <3>2. req[r] \in Open => approval[t] = r
      BY <1>0, <1>1, <3>1 DEF ServerInv, OneOpenRequest
    <3>3. req'[r] \in Open => req[r] \in Open
      BY <1>0, <1>4, <1>7, ReadAllIs
    <3>4. r = approval[t] => req'[r] = SyncedTo(r)
      BY <1>0, <1>4, <1>7, ReadAllIs
    <3> QED
      BY <1>7, <3>2, <3>3, <3>4 DEF Open, Terminal
  <2>4. FilingInv' /\ ApprovalInv' /\ RowInv'
    BY <2>2, <2>3 DEF FilingInv, ApprovalInv, RowInv, Approving
  <2>5. NothingLeftApproved'
    BY <1>0, <1>2, <1>3, <2>1, <2>2 DEF ServerInv, NothingLeftApproved
  <2>6. ServerInv'
    BY <2>1, <2>4, <2>5 DEF ServerInv
  <2> QED
    BY <1>1, <1>2, <2>1, <2>2, <2>6, RoutesKeep
<1>8. CASE approval[t] = None /\ \E r \in Requests : FileRequest(u, r, t, "rebind")
  <2>1. PICK r \in Requests : FileRequest(u, r, t, "rebind")
    BY <1>8
  <2>2. \A q \in Requests : result[q] = t => req[q] \notin Open
    BY <1>0, <1>1, <1>8 DEF ServerInv, OneOpenRequest
  <2>3. /\ ReviewsTyped' /\ ServerTyped' /\ server'.request \in Requests
        /\ server'.task \in Tasks /\ server'.at = "rebind" /\ ServerInv'
    BY <1>0, <1>1, <1>2, <1>3, <2>1, <2>2, Files
  <2> QED
    BY <1>1, <1>2, <2>3, RoutesKeep
<1> QED
  BY <1>5, <1>6, <1>7, <1>8 DEF ExecuteRoute

LEMMA FileAgainKeeps ==
    ASSUME IInv, NEW u \in Users, NEW r \in Requests, FileAgain(u, r)
    PROVE  IInv'
<1>0. TablesTyped /\ TypeOK /\ PlaceInv /\ ServerInv
  BY Typed DEF IInv
<1>1. /\ server.at = "refile" /\ FileRequest(u, r, server.task, "rebind")
      /\ UNCHANGED <<tables, beside, faults>>
  BY DEF FileAgain
<1>2. server.request = None /\ server.task \in Tasks
  BY <1>0, <1>1 DEF PlaceInv
<1>3. \A q \in Requests : result[q] = server.task => req[q] \notin Open
  BY <1>0, <1>1 DEF ServerInv, FilingInv
<1>4. /\ ReviewsTyped' /\ ServerTyped' /\ server'.request \in Requests
      /\ server'.task \in Tasks /\ server'.at = "rebind" /\ ServerInv'
  BY <1>0, <1>1, <1>2, <1>3, Files DEF faults
<1>5. TablesTyped' /\ UNCHANGED status
  BY <1>0, <1>1 DEF TablesTyped, tables
<1> QED
  BY <1>1, <1>4, <1>5, RoutesKeep

\* A step of the server that has no request, starts nothing and creates no row
LEMMA StatusKeeps ==
    ASSUME IInv, UNCHANGED <<reviews, beside, faults>>, TablesTyped',
           \A t \in Tasks : /\ status[t] = "absent" => status'[t] = "absent"
                            /\ status'[t] = "running" => status[t] = "running"
                            /\ status'[t] = "absent" \/ approval'[t] = approval[t],
           server.request = None, ServerTyped', server'.request = None,
           server'.at \in {"idle", "execute", "queue", "stop", "delete", "edit"},
           server'.at # "idle" => server'.task \in Tasks,
           server'.at \in {"queue", "stop"} => status'[server'.task] # "absent"
    PROVE  IInv'
<1>0. ReviewsTyped /\ TypeOK /\ PlaceInv /\ ServerInv
  BY Typed DEF IInv
<1>1. \A r \in Requests : result[r] # None => result[r] \in Tasks
  BY <1>0 DEF ReviewsTyped
<1>2. ServerInv'
  BY <1>0, <1>1, PlainStep DEF faults, RowInv
<1>3. ReviewsTyped'
  BY <1>0 DEF ReviewsTyped, reviews
<1> QED
  BY <1>2, <1>3, RoutesKeep


LEMMA ServerExecuteKeeps ==
    ASSUME IInv, ServerExecute
    PROVE  IInv'
<1>0. TablesTyped /\ PlaceInv
  BY Typed DEF IInv
<1> DEFINE t == server.task
<1>1. /\ server.at = "execute" /\ t \in Tasks /\ server.request = None
      /\ UNCHANGED <<reviews, beside, faults>>
  BY <1>0 DEF ServerExecute, PlaceInv
<1>2. /\ UNCHANGED <<last, sched, creator, guarded, approval>>
      /\ \/ UNCHANGED status /\ (Done \/ (At("queue", t, None) /\ status[t] # "absent"))
         \/ status[t] # "absent" /\ status' = [status EXCEPT ![t] = "failed"] /\ Done
  <2>1. CASE Executable(t) /\ At("queue", t, None) /\ UNCHANGED tables
    BY <2>1 DEF Executable, tables
  <2>2. CASE Unrequested(t) /\ Refuse(t) /\ Done
            /\ UNCHANGED <<last, sched, creator, guarded, approval>>
    BY <2>2 DEF Unrequested, Refuse
  <2>3. CASE Done /\ UNCHANGED tables
    BY <2>3 DEF tables
  <2> QED
    BY <2>1, <2>2, <2>3 DEF ServerExecute
<1>3. /\ ServerTyped' /\ server'.request = None /\ server'.at \in {"idle", "queue"}
      /\ server'.at # "idle" => server'.task = t /\ status'[t] # "absent"
  BY <1>1, <1>2, DoneTyped, AtTyped DEF Places
<1>4. TablesTyped'
  BY <1>0, <1>2 DEF TablesTyped, Statuses
<1>5. \A u \in Tasks : /\ status[u] = "absent" => status'[u] = "absent"
                       /\ status'[u] = "running" => status[u] = "running"
  BY <1>0, <1>1, <1>2 DEF TablesTyped
<1> QED
  BY <1>1, <1>2, <1>3, <1>4, <1>5, StatusKeeps

LEMMA ServerQueueKeeps ==
    ASSUME IInv, ServerQueue
    PROVE  IInv'
<1>0. TablesTyped /\ ReviewsTyped /\ TypeOK /\ PlaceInv /\ ServerInv
  BY Typed DEF IInv
<1> DEFINE t == server.task
           r == server.request
<1>1. /\ server.at = "queue" /\ t \in Tasks
      /\ status' = [status EXCEPT ![t] = "pending"]
      /\ UNCHANGED <<last, sched, creator, guarded, approval, reviews, beside, faults>>
      /\ IF r = None THEN Done ELSE At("save", t, r)
  BY <1>0 DEF ServerQueue, PlaceInv
<1>2. /\ TablesTyped' /\ ReviewsTyped'
      /\ \A u \in Tasks : status'[u] = IF u = t THEN "pending" ELSE status[u]
  BY <1>0, <1>1 DEF TablesTyped, Statuses, ReviewsTyped, reviews
<1>3. UNCHANGED <<req, by, result, granted, presumed, cutoff, approval>>
  BY <1>1 DEF reviews, faults
<1>4. r \in Requests \cup {None} /\ status[t] # "absent"
  BY <1>0, <1>1 DEF TypeOK, ServerInv, RowInv
<1>5. /\ ServerTyped'
      /\ r = None => server'.at = "idle" /\ server'.request = None
      /\ r # None => server'.at = "save" /\ server'.task = t /\ server'.request = r
  BY <1>1, <1>4, AtTyped, DoneTyped DEF Places
<1>6. FilingInv' /\ ApprovalInv' /\ RowInv'
  BY <1>0, <1>1, <1>3, <1>5 DEF ServerInv, FilingInv, ApprovalInv, RowInv, Approving
<1>7. OneOpenRequest'
  BY <1>0, <1>2, <1>3, <1>4 DEF ServerInv, OneOpenRequest, ReviewsTyped
<1>8. GrantInv' /\ NothingLeftApproved'
  BY <1>0, <1>3, <1>5 DEF ServerInv, GrantInv, NothingLeftApproved
<1>9. ServerInv'
  BY <1>6, <1>7, <1>8 DEF ServerInv
<1> QED
  BY <1>1, <1>2, <1>4, <1>5, <1>9, RoutesKeep

-----------------------------------------------------------------------------
(* Reviews. *)

LEMMA ApproveRequestKeeps ==
    ASSUME IInv, NEW r \in Requests, ApproveRequest(r)
    PROVE  IInv'
<1>0. TablesTyped /\ ReviewsTyped /\ TypeOK /\ PlaceInv /\ ServerInv
  BY Typed DEF IInv
<1>1. /\ server.at = "idle" /\ req[r] = "pending"
      /\ req' = [req EXCEPT ![r] = "approved"] /\ granted' = granted \cup {r}
      /\ At("approve", result[r], r)
      /\ UNCHANGED <<tables, by, result, presumed, beside, faults>>
  BY DEF ApproveRequest
<1>2. TablesTyped' /\ UNCHANGED <<status, approval, cutoff>>
  BY <1>0, <1>1 DEF TablesTyped, tables, faults
<1>3. ReviewsTyped' /\ result[r] \in Tasks \cup {None}
      /\ \A q \in Requests : req'[q] = IF q = r THEN "approved" ELSE req[q]
  BY <1>0, <1>1 DEF ReviewsTyped, Decided, Open
<1>4. ServerTyped' /\ server'.at = "approve" /\ server'.task = result[r] /\ server'.request = r
  BY <1>1, <1>3, AtTyped DEF Places
<1>5. server.request = None
  BY <1>0, <1>1 DEF PlaceInv
<1>6. FilingInv' /\ ApprovalInv' /\ RowInv'
  BY <1>1, <1>3, <1>4 DEF FilingInv, ApprovalInv, RowInv, Approving
<1>7. OneOpenRequest'
  BY <1>0, <1>1, <1>2, <1>3 DEF ServerInv, OneOpenRequest, Open
<1>8. GrantInv' /\ NothingLeftApproved'
  BY <1>0, <1>1, <1>2, <1>3, <1>4, <1>5 DEF ServerInv, GrantInv, NothingLeftApproved
<1>9. ServerInv'
  BY <1>6, <1>7, <1>8 DEF ServerInv
<1> QED
  BY <1>1, <1>2, <1>3, <1>4, <1>9, RoutesKeep

LEMMA ApproveExecuteKeeps ==
    ASSUME IInv, ApproveExecute
    PROVE  IInv'
<1>0. TablesTyped /\ ReviewsTyped /\ TypeOK /\ PlaceInv /\ ServerInv
  BY Typed DEF IInv
<1> DEFINE t == server.task
           r == server.request
<1>1. /\ server.at = "approve" /\ UNCHANGED <<tables, by, result, presumed, beside, faults>>
  BY DEF ApproveExecute
<1>2. r \in Requests /\ req[r] = "approved" /\ t = result[r]
  BY <1>0, <1>1 DEF PlaceInv, ServerInv, ApprovalInv, Approving
<1>3. TablesTyped' /\ UNCHANGED <<status, approval, cutoff>>
  BY <1>0, <1>1 DEF TablesTyped, tables, faults
<1>4. CASE t # None /\ Executable(t) /\ At("queue", t, r) /\ UNCHANGED <<req, granted>>
  <2>1. t \in Tasks /\ status[t] # "absent" /\ approval[t] = r
    BY <1>0, <1>2, <1>4 DEF ReviewsTyped, Executable, ServerInv, OneOpenRequest, Open
  <2>2. ServerTyped' /\ server'.at = "queue" /\ server'.task = t /\ server'.request = r
    BY <1>2, <1>4, <2>1, AtTyped DEF Places
  <2>3. FilingInv' /\ ApprovalInv' /\ RowInv'
    BY <1>2, <1>3, <1>4, <2>1, <2>2 DEF FilingInv, ApprovalInv, RowInv, Approving
  <2>4. OneOpenRequest' /\ GrantInv' /\ NothingLeftApproved' /\ ReviewsTyped'
    BY <1>0, <1>1, <1>3, <1>4, <2>2
       DEF ServerInv, OneOpenRequest, GrantInv, NothingLeftApproved, ReviewsTyped
  <2>5. ServerInv'
    BY <2>3, <2>4 DEF ServerInv
  <2> QED
    BY <1>1, <1>3, <2>1, <2>2, <2>4, <2>5, RoutesKeep
<1>5. CASE t = None /\ At("grant", None, r) /\ UNCHANGED <<req, granted>>
  <2>1. ServerTyped' /\ server'.at = "grant" /\ server'.task = None /\ server'.request = r
    BY <1>2, <1>5, AtTyped DEF Places
  <2>2. FilingInv' /\ ApprovalInv' /\ RowInv'
    BY <1>2, <1>3, <1>5, <2>1 DEF FilingInv, ApprovalInv, RowInv, Approving
  <2>3. OneOpenRequest' /\ GrantInv' /\ NothingLeftApproved' /\ ReviewsTyped'
    BY <1>0, <1>1, <1>3, <1>5, <2>1
       DEF ServerInv, OneOpenRequest, GrantInv, NothingLeftApproved, ReviewsTyped
  <2>4. ServerInv'
    BY <2>2, <2>3 DEF ServerInv
  <2> QED
    BY <1>1, <1>2, <1>3, <2>1, <2>3, <2>4, RoutesKeep
<1>6. ASSUME NEW refused \in {"pending", "failed"}, req' = [req EXCEPT ![r] = refused],
             granted' = granted \ {r}, Done
      PROVE  IInv'
  <2>1. ReviewsTyped' /\ \A q \in Requests : req'[q] = IF q = r THEN refused ELSE req[q]
    BY <1>0, <1>1, <1>2, <1>6 DEF ReviewsTyped, Decided, Open, Terminal
  <2>2. ServerTyped' /\ server'.at = "idle" /\ server'.request = None
    BY <1>6, DoneTyped
  <2>3. FilingInv' /\ ApprovalInv' /\ RowInv'
    BY <2>2 DEF FilingInv, ApprovalInv, RowInv, Approving
  <2>4. OneOpenRequest'
    BY <1>0, <1>1, <1>2, <1>3, <2>1 DEF ServerInv, OneOpenRequest, Open
  <2>5. GrantInv' /\ NothingLeftApproved'
    BY <1>0, <1>1, <1>2, <1>3, <1>6, <2>1, <2>2 DEF ServerInv, GrantInv, NothingLeftApproved
  <2>6. ServerInv'
    BY <2>3, <2>4, <2>5 DEF ServerInv
  <2> QED
    BY <1>1, <1>3, <2>1, <2>2, <2>6, RoutesKeep
<1> QED
  BY <1>4, <1>5, <1>6 DEF ApproveExecute

LEMMA ApproveCreateKeeps ==
    ASSUME IInv, NEW t \in Tasks, ApproveCreate(t)
    PROVE  IInv'
<1>0. TablesTyped /\ ReviewsTyped /\ TypeOK /\ PlaceInv /\ ServerInv
  BY Typed DEF IInv
<1> DEFINE r == server.request
<1>1. /\ server.at = "grant" /\ FreshTask(t) /\ PutTask(t, by[r], r, FALSE)
      /\ guarded' = guarded \cup {t} /\ At("queue", t, r)
      /\ UNCHANGED <<reviews, beside, faults>>
  BY DEF ApproveCreate
<1>2. r \in Requests /\ req[r] = "approved" /\ by[r] \in Users \cup {None}
      /\ guarded' \in SUBSET Tasks
  BY <1>0, <1>1 DEF PlaceInv, ServerInv, ApprovalInv, Approving, ReviewsTyped, TablesTyped
<1>3. /\ TablesTyped' /\ status'[t] = "idle" /\ approval'[t] = r
      /\ \A v \in Tasks \ {t} : status'[v] = status[v] /\ approval'[v] = approval[v]
  BY <1>0, <1>1, <1>2 DEF PutTask, TablesTyped, Statuses
<1>4. /\ ServerTyped' /\ server'.at = "queue" /\ server'.task = t /\ server'.request = r
  BY <1>1, <1>2, AtTyped DEF Places
<1>5. ReviewsTyped' /\ UNCHANGED <<req, by, result, granted, presumed, cutoff>>
  BY <1>0, <1>1 DEF ReviewsTyped, reviews, faults
<1>6. \A q \in Requests : result[q] \in Tasks \cup {None} /\ result[q] # t
  BY <1>0, <1>1, FreshIs DEF ReviewsTyped
<1>7. FilingInv' /\ ApprovalInv' /\ RowInv'
  BY <1>2, <1>3, <1>4, <1>5 DEF FilingInv, ApprovalInv, RowInv, Approving
<1>8. OneOpenRequest'
  BY <1>0, <1>3, <1>5, <1>6 DEF ServerInv, OneOpenRequest
<1>9. GrantInv' /\ NothingLeftApproved'
  BY <1>0, <1>4, <1>5 DEF ServerInv, GrantInv, NothingLeftApproved
<1>10. ServerInv'
  BY <1>7, <1>8, <1>9 DEF ServerInv
<1> QED
  BY <1>1, <1>3, <1>4, <1>5, <1>10, RoutesKeep

LEMMA SaveRunningKeeps ==
    ASSUME IInv, SaveRunning
    PROVE  IInv'
<1>0. TablesTyped /\ ReviewsTyped /\ TypeOK /\ PlaceInv /\ ServerInv
  BY Typed DEF IInv
<1> DEFINE t == server.task
           r == server.request
<1>1. /\ server.at = "save" /\ req' = [req EXCEPT ![r] = "running"]
      /\ result' = [result EXCEPT ![r] = t] /\ At("read", None, r)
      /\ UNCHANGED <<tables, by, granted, presumed, beside, faults>>
  BY DEF SaveRunning
<1>2. r \in Requests /\ t \in Tasks /\ req[r] = "approved" /\ approval[t] = r
  BY <1>0, <1>1 DEF PlaceInv, ServerInv, ApprovalInv, Approving
<1>3. TablesTyped' /\ UNCHANGED <<status, approval, cutoff>>
  BY <1>0, <1>1 DEF TablesTyped, tables, faults
<1>4. ReviewsTyped' /\ \A q \in Requests : /\ req'[q] = IF q = r THEN "running" ELSE req[q]
                                           /\ result'[q] = IF q = r THEN t ELSE result[q]
  BY <1>0, <1>1, <1>2 DEF ReviewsTyped, Decided, Open
<1>5. /\ ServerTyped' /\ server'.at = "read" /\ server'.task = None /\ server'.request = r
  BY <1>1, <1>2, AtTyped DEF Places
<1>6. FilingInv' /\ ApprovalInv' /\ RowInv'
  BY <1>2, <1>4, <1>5 DEF FilingInv, ApprovalInv, RowInv, Approving
<1>7. OneOpenRequest'
  BY <1>0, <1>2, <1>3, <1>4 DEF ServerInv, OneOpenRequest
<1>8. GrantInv' /\ NothingLeftApproved'
  BY <1>0, <1>1, <1>2, <1>3, <1>4, <1>5 DEF ServerInv, GrantInv, NothingLeftApproved
<1>9. ServerInv'
  BY <1>6, <1>7, <1>8 DEF ServerInv
<1> QED
  BY <1>1, <1>2, <1>3, <1>4, <1>5, <1>9, RoutesKeep

LEMMA RejectRequestKeeps ==
    ASSUME IInv, NEW r \in Requests, RejectRequest(r)
    PROVE  IInv'
<1>0. TablesTyped /\ ReviewsTyped /\ ServerTyped /\ TypeOK /\ PlaceInv /\ ServerInv
  BY Typed DEF IInv
<1>1. /\ server.at = "idle" /\ req[r] = "pending" /\ req' = [req EXCEPT ![r] = "rejected"]
      /\ UNCHANGED <<tables, by, result, granted, presumed, server, beside, faults>>
  BY DEF RejectRequest, threads
<1>2. TablesTyped' /\ ServerTyped' /\ UNCHANGED <<status, approval, cutoff>>
  BY <1>0, <1>1 DEF TablesTyped, ServerTyped, tables, faults
<1>3. ReviewsTyped' /\ \A q \in Requests : req'[q] = IF q = r THEN "rejected" ELSE req[q]
  BY <1>0, <1>1 DEF ReviewsTyped, Decided, Terminal
<1>4. server.request = None
  BY <1>0, <1>1 DEF PlaceInv
<1>5. FilingInv' /\ ApprovalInv' /\ RowInv'
  BY <1>1, <1>4 DEF FilingInv, ApprovalInv, RowInv, Approving
<1>6. OneOpenRequest'
  BY <1>0, <1>1, <1>2, <1>3 DEF ServerInv, OneOpenRequest, Open
<1>7. GrantInv' /\ NothingLeftApproved'
  BY <1>0, <1>1, <1>2, <1>3 DEF ServerInv, GrantInv, NothingLeftApproved
<1>8. ServerInv'
  BY <1>5, <1>6, <1>7 DEF ServerInv
<1> QED
  BY <1>0, <1>1, <1>2, <1>3, <1>4, <1>8, RoutesKeep DEF PlaceInv

-----------------------------------------------------------------------------
(* stop_task, delete_task, update_task and toggle_schedule. *)

LEMMA StopDeleteKeeps ==
    ASSUME IInv, NEW t \in Tasks,
           RequestStop(t) \/ RequestDelete(t) \/ \E u \in Users : RequestEdit(u, t)
    PROVE  IInv'
<1>0. TablesTyped /\ PlaceInv
  BY Typed DEF IInv
<1>1. PICK place \in {"stop", "delete", "edit"} :
        /\ server.at = "idle" /\ status[t] # "absent" /\ At(place, t, None)
        /\ UNCHANGED <<tables, reviews, beside, faults>>
  BY DEF RequestStop, RequestDelete, RequestEdit
<1>2. server.request = None
  BY <1>0, <1>1 DEF PlaceInv
<1>3. /\ ServerTyped' /\ server'.at = place /\ server'.task = t /\ server'.request = None
  BY <1>1, AtTyped DEF Places
<1>4. TablesTyped' /\ UNCHANGED <<status, approval>>
  BY <1>0, <1>1 DEF TablesTyped, tables
<1> QED
  BY <1>1, <1>2, <1>3, <1>4, StatusKeeps

LEMMA CommitStopKeeps ==
    ASSUME IInv, CommitStop
    PROVE  IInv'
<1>0. TablesTyped /\ PlaceInv /\ RowInv
  BY Typed DEF IInv, ServerInv
<1> DEFINE t == server.task
<1>1. /\ server.at = "stop" /\ status' = [status EXCEPT ![t] = "stopped"] /\ Done
      /\ UNCHANGED <<last, sched, creator, guarded, approval, reviews, beside, faults>>
  BY DEF CommitStop
<1>2. t \in Tasks /\ server.request = None /\ status[t] # "absent"
  BY <1>0, <1>1 DEF PlaceInv, RowInv
<1>3. ServerTyped' /\ server'.at = "idle" /\ server'.request = None
  BY <1>1, DoneTyped
<1>4. TablesTyped' /\ \A v \in Tasks : status'[v] = IF v = t THEN "stopped" ELSE status[v]
  BY <1>0, <1>1 DEF TablesTyped, Statuses
<1> QED
  BY <1>1, <1>2, <1>3, <1>4, StatusKeeps

LEMMA CommitDeleteKeeps ==
    ASSUME IInv, CommitDelete
    PROVE  IInv'
<1>0. TablesTyped /\ PlaceInv
  BY Typed DEF IInv
<1> DEFINE t == server.task
<1>1. /\ server.at = "delete" /\ status' = [status EXCEPT ![t] = "absent"]
      /\ last' = [last EXCEPT ![t] = "none"] /\ sched' = [sched EXCEPT ![t] = FALSE]
      /\ approval' = [approval EXCEPT ![t] = None] /\ Done
      /\ UNCHANGED <<creator, guarded, reviews, beside, faults>>
  BY DEF CommitDelete
<1>2. t \in Tasks /\ server.request = None
  BY <1>0, <1>1 DEF PlaceInv
<1>3. ServerTyped' /\ server'.at = "idle" /\ server'.request = None
  BY <1>1, DoneTyped
<1>4. TablesTyped' /\ \A v \in Tasks : /\ status'[v] = IF v = t THEN "absent" ELSE status[v]
                                       /\ approval'[v] = IF v = t THEN None ELSE approval[v]
  BY <1>0, <1>1 DEF TablesTyped, Statuses
<1> QED
  BY <1>1, <1>2, <1>3, <1>4, StatusKeeps

\* A row is edited, not its status.
LEMMA CommitEditKeeps ==
    ASSUME IInv, CommitEdit
    PROVE  IInv'
<1>0. /\ TypeOK /\ TablesTyped /\ ReviewsTyped /\ BesideTyped
      /\ PlaceInv /\ ServerInv /\ RunningHasWorker
  BY Typed DEF IInv
<1> DEFINE t == server.task
<1>1. /\ server.at = "edit" /\ Done
      /\ guarded' = IF t \in guarded THEN guarded \ {t} ELSE guarded \cup {t}
      /\ verdict' = IF Starting(t) THEN [verdict EXCEPT ![t] = "edited"] ELSE verdict
      /\ UNCHANGED <<status, last, sched, creator, approval, reviews, beside,
                      cutoff, orphans, crashes>>
  BY DEF CommitEdit
<1>2. t \in Tasks /\ server.request = None
  BY <1>0, <1>1 DEF PlaceInv
<1>3. ServerTyped' /\ server'.at = "idle" /\ server'.request = None
  BY <1>1, DoneTyped
<1>4. TablesTyped' /\ ReviewsTyped'
  BY <1>0, <1>1, <1>2 DEF TablesTyped, ReviewsTyped, reviews
<1>5. UNCHANGED <<cron, starter, worker>>
  BY <1>1 DEF beside
<1>6. BesideTyped'
  BY <1>0, <1>1, <1>5 DEF BesideTyped
<1>7. ServerInv'
  BY <1>0, <1>1, <1>2, <1>3, PlainStep DEF RowInv
<1>8. RunningHasWorker'
  BY <1>0, <1>1, <1>5, NothingStarts
<1>9. PlaceInv'
  BY <1>0, <1>3, <1>5 DEF PlaceInv
<1> QED
  BY <1>3, <1>4, <1>6, <1>7, <1>8, <1>9, TypedNext DEF IInv

LEMMA ToggleKeeps ==
    ASSUME IInv, NEW t \in Tasks, ToggleSchedule(t)
    PROVE  IInv'
<1>0. TablesTyped /\ ServerTyped /\ PlaceInv
  BY Typed DEF IInv
<1>1. /\ server.at = "idle" /\ sched' = [sched EXCEPT ![t] = ~sched[t]]
      /\ UNCHANGED <<status, last, creator, guarded, approval, reviews, server, beside, faults>>
  BY DEF ToggleSchedule, threads
<1>2. server.request = None
  BY <1>0, <1>1 DEF PlaceInv
<1>3. ServerTyped' /\ TablesTyped'
  BY <1>0, <1>1 DEF ServerTyped, TablesTyped
<1> QED
  BY <1>1, <1>2, <1>3, StatusKeeps

-----------------------------------------------------------------------------
(* The scheduler, the queue, the workers and the crash. *)

\* What a step beside the server must keep
LEMMA BesideKeeps ==
    ASSUME IInv, UNCHANGED <<creator, sched, guarded, reviews, server, approval, cutoff>>,
           status' \in [Tasks -> Statuses], last' \in [Tasks -> {"none", "completed", "failed"}],
           \A t \in Tasks : status'[t] = "absent" <=> status[t] = "absent",
           BesideTyped', cron'.at = "queue" => cron'.task \in Tasks,
           starter'.at # "idle" => starter'.task \in Tasks,
           \A w \in Workers : worker'[w].at # "idle" => worker'[w].task \in Tasks,
           RunningHasWorker'
    PROVE  IInv'
<1>0. TypeOK /\ TablesTyped /\ ReviewsTyped /\ ServerTyped /\ PlaceInv /\ ServerInv
  BY Typed DEF IInv
<1>1. ServerInv'
  BY <1>0, BesideServer
<1>2. TypeOK'
  <2>1. TablesTyped' /\ ServerTyped'
    BY <1>0 DEF TablesTyped, ServerTyped
  <2>2. ReviewsTyped'
    BY <1>0 DEF ReviewsTyped, reviews
  <2> QED
    BY <2>1, <2>2, TypedNext
<1>3. PlaceInv'
  BY <1>0 DEF PlaceInv
<1> QED
  BY <1>1, <1>2, <1>3 DEF IInv

LEMMA CronExecuteKeeps ==
    ASSUME IInv, NEW t \in Tasks, CronExecute(t)
    PROVE  IInv'
<1>0. TypeOK /\ TablesTyped /\ BesideTyped /\ PlaceInv /\ RunningHasWorker
  BY Typed DEF IInv
<1>1. /\ UNCHANGED <<last, sched, creator, guarded, approval, reviews, server, starter, worker, faults>>
      /\ \/ UNCHANGED status /\ cron' = [at |-> "queue", task |-> t]
         \/ UNCHANGED cron /\ status[t] # "absent" /\ status' = [status EXCEPT ![t] = "failed"]
  <2>1. CASE Executable(t) /\ cron' = [at |-> "queue", task |-> t] /\ UNCHANGED tables
    BY <2>1 DEF tables, CronExecute
  <2>2. CASE Unrequested(t) /\ Refuse(t)
            /\ UNCHANGED <<last, sched, creator, guarded, approval, cron>>
    BY <2>2 DEF Unrequested, Refuse, CronExecute
  <2> QED
    BY <2>1, <2>2 DEF CronExecute
<1>2. /\ status' \in [Tasks -> Statuses]
      /\ \A v \in Tasks : /\ status'[v] = "absent" <=> status[v] = "absent"
                          /\ status'[v] = "running" => status[v] = "running"
  BY <1>0, <1>1 DEF TablesTyped, Statuses
<1>3. UNCHANGED <<starter, worker, cutoff, orphans, verdict, crashes>>
  BY <1>1 DEF faults
<1>4. RunningHasWorker'
  BY <1>0, <1>2, <1>3, NothingStarts
<1>5. BesideTyped' /\ (cron'.at = "queue" => cron'.task \in Tasks)
  BY <1>0, <1>1, <1>3 DEF BesideTyped, PlaceInv
<1> QED
  BY <1>0, <1>1, <1>2, <1>3, <1>4, <1>5, BesideKeeps DEF PlaceInv, TablesTyped

LEMMA CronQueueKeeps ==
    ASSUME IInv, CronQueue
    PROVE  IInv'
<1>0. TypeOK /\ TablesTyped /\ BesideTyped /\ PlaceInv /\ RunningHasWorker
  BY Typed DEF IInv
<1>1. /\ UNCHANGED <<last, sched, creator, guarded, approval, reviews, server, starter, worker, faults>>
      /\ cron.at = "queue" /\ cron' = Sleeping
      /\ \/ UNCHANGED status
         \/ status[cron.task] # "absent" /\ status' = [status EXCEPT ![cron.task] = "pending"]
  BY DEF CronQueue
<1>2. /\ status' \in [Tasks -> Statuses]
      /\ \A v \in Tasks : /\ status'[v] = "absent" <=> status[v] = "absent"
                          /\ status'[v] = "running" => status[v] = "running"
  BY <1>0, <1>1 DEF TablesTyped, Statuses
<1>3. UNCHANGED <<starter, worker, cutoff, orphans, verdict, crashes>>
  BY <1>1 DEF faults
<1>4. RunningHasWorker'
  BY <1>0, <1>2, <1>3, NothingStarts
<1>5. BesideTyped' /\ cron'.at = "idle"
  BY <1>0, <1>1, <1>3 DEF BesideTyped, Sleeping
<1> QED
  BY <1>0, <1>1, <1>2, <1>3, <1>4, <1>5, BesideKeeps DEF PlaceInv, TablesTyped

LEMMA StartReadKeeps ==
    ASSUME IInv, NEW t \in Tasks, StartRead(t)
    PROVE  IInv'
<1>0. TypeOK /\ TablesTyped /\ BesideTyped /\ PlaceInv /\ RunningHasWorker
  BY Typed DEF IInv
<1>1. /\ UNCHANGED <<tables, reviews, server, cron, worker, cutoff, orphans, crashes>>
      /\ starter' \in {[at |-> "start", task |-> t], [at |-> "refuse", task |-> t]}
      /\ \/ UNCHANGED verdict
         \/ \E v \in {"free", "reviewed"} : verdict' = [verdict EXCEPT ![t] = v]
  BY DEF StartRead
<1>2. UNCHANGED <<status, last, sched, creator, guarded, approval>>
  BY <1>1 DEF tables
<1>3. RunningHasWorker'
  BY <1>0, <1>1, <1>2, NothingStarts
<1>4. BesideTyped' /\ starter'.task \in Tasks
  BY <1>0, <1>1 DEF BesideTyped
<1> QED
  BY <1>0, <1>1, <1>2, <1>3, <1>4, BesideKeeps DEF PlaceInv, TablesTyped

LEMMA StartCommitKeeps ==
    ASSUME IInv, StartCommit
    PROVE  IInv'
<1>0. TypeOK /\ TablesTyped /\ BesideTyped /\ PlaceInv /\ RunningHasWorker
  BY Typed DEF IInv
<1> DEFINE t == starter.task
<1>1. /\ starter.at # "idle" /\ starter' = Sleeping
      /\ UNCHANGED <<last, sched, creator, guarded, approval, reviews, server, cron,
                      cutoff, verdict, crashes>>
  BY DEF StartCommit
<1>2. t \in Tasks /\ starter'.at = "idle"
  BY <1>0, <1>1 DEF PlaceInv, Sleeping
<1>3. ASSUME NEW w \in Workers, worker[w].at = "idle", status[t] # "absent",
             worker' = [worker EXCEPT ![w] = [at |-> "start", task |-> t, ok |-> FALSE]],
             status' = [status EXCEPT ![t] = "running"], orphans' = orphans \ {t}
      PROVE  IInv'
  <2>1. /\ status' \in [Tasks -> Statuses]
        /\ \A v \in Tasks : status'[v] = IF v = t THEN "running" ELSE status[v]
    BY <1>0, <1>2, <1>3 DEF TablesTyped, Statuses
  <2>2. /\ worker' \in [Workers -> Jobs]
        /\ worker'[w] = [at |-> "start", task |-> t, ok |-> FALSE]
        /\ \A v \in Workers \ {w} : worker'[v] = worker[v]
    BY <1>0, <1>2, <1>3 DEF BesideTyped, Jobs
  <2>3. RunningHasWorker'
    <3> SUFFICES ASSUME NEW v \in Tasks, status'[v] = "running", v \notin orphans'
                 PROVE  \E x \in Workers : worker'[x].at # "idle" /\ worker'[x].task = v
      BY DEF RunningHasWorker, Running
    <3>1. CASE v = t
      BY <2>2, <3>1
    <3>2. CASE v # t
      <4>1. status[v] = "running" /\ v \notin orphans
        BY <1>3, <2>1, <3>2
      <4>2. PICK x \in Workers : worker[x].at # "idle" /\ worker[x].task = v
        BY <1>0, <4>1 DEF RunningHasWorker, Running
      <4> QED
        BY <1>3, <2>2, <4>2
    <3> QED
      BY <3>1, <3>2
  <2>4. BesideTyped'
    BY <1>0, <1>1, <1>3, <2>2 DEF BesideTyped, Sleeping
  <2>5. \A v \in Workers : worker'[v].at # "idle" => worker'[v].task \in Tasks
    BY <1>0, <1>2, <2>2 DEF PlaceInv
  <2> QED
    BY <1>0, <1>1, <1>2, <1>3, <2>1, <2>3, <2>4, <2>5, BesideKeeps DEF PlaceInv, TablesTyped
<1>4. CASE /\ UNCHANGED <<worker, orphans>>
           /\ \/ UNCHANGED status
              \/ status[t] # "absent" /\ status' = [status EXCEPT ![t] = "failed"]
  <2>1. /\ status' \in [Tasks -> Statuses]
        /\ \A v \in Tasks : /\ status'[v] = "absent" <=> status[v] = "absent"
                            /\ status'[v] = "running" => status[v] = "running"
    BY <1>0, <1>2, <1>4 DEF TablesTyped, Statuses
  <2>2. RunningHasWorker'
    BY <1>0, <1>4, <2>1, NothingStarts
  <2>3. BesideTyped'
    BY <1>0, <1>1, <1>4 DEF BesideTyped, Sleeping
  <2> QED
    BY <1>0, <1>1, <1>2, <1>4, <2>1, <2>2, <2>3, BesideKeeps DEF PlaceInv, TablesTyped
<1> QED
  BY <1>3, <1>4 DEF StartCommit, Refuse

\* A worker ends only when its row is not running any more.
LEMMA WorkerKeeps ==
    ASSUME IInv, NEW w \in Workers, Load(w) \/ Quit(w) \/ Finish(w) \/ FinishCommit(w)
    PROVE  IInv'
<1>0. TypeOK /\ TablesTyped /\ BesideTyped /\ PlaceInv /\ RunningHasWorker
  BY Typed DEF IInv
<1> DEFINE t == worker[w].task
<1>1. /\ UNCHANGED <<sched, creator, guarded, approval, reviews, server, cron, starter, faults>>
      /\ worker[w].at # "idle" /\ t \in Tasks
  BY <1>0 DEF Load, Quit, Finish, FinishCommit, tables, PlaceInv
<1>2. /\ status' \in [Tasks -> Statuses] /\ last' \in [Tasks -> {"none", "completed", "failed"}]
      /\ \A v \in Tasks : /\ status'[v] = "absent" <=> status[v] = "absent"
                          /\ status'[v] = "running" => status[v] = "running"
  BY <1>0 DEF TablesTyped, Statuses, Load, Quit, Finish, FinishCommit, tables
<1>3. /\ worker' \in [Workers -> Jobs]
      /\ \A v \in Workers \ {w} : worker'[v] = worker[v]
      /\ worker'[w].at # "idle" => worker'[w].task = t
      /\ worker'[w].at = "idle" => status'[t] # "running"
  <2>1. CASE Quit(w)
    BY <1>0, <2>1 DEF Quit, NoWork, BesideTyped, Jobs, tables
  <2>2. CASE Finish(w)
    <3>1. PICK ok \in BOOLEAN :
            worker' = [worker EXCEPT ![w] = [worker[w] EXCEPT !.at = "finish", !.ok = ok]]
      BY <2>2 DEF Finish
    <3>2. worker \in [Workers -> Jobs] /\ worker[w] \in Jobs
      BY <1>0 DEF BesideTyped
    <3>3. [worker[w] EXCEPT !.at = "finish", !.ok = ok] \in Jobs
      BY <3>2 DEF Jobs
    <3>4. /\ worker'[w].at = "finish" /\ worker'[w].task = t
          /\ \A v \in Workers \ {w} : worker'[v] = worker[v]
      BY <3>1, <3>2 DEF Jobs
    <3> QED
      BY <3>1, <3>2, <3>3, <3>4
  <2>3. CASE FinishCommit(w)
    BY <1>0, <1>1, <2>3 DEF FinishCommit, NoWork, BesideTyped, Jobs, TablesTyped
  <2>4. CASE Load(w)
    BY <1>0, <2>4 DEF Load, BesideTyped, Jobs
  <2> QED
    BY <2>1, <2>2, <2>3, <2>4
<1>4. RunningHasWorker'
  <2> SUFFICES ASSUME NEW v \in Tasks, status'[v] = "running", v \notin orphans'
               PROVE  \E x \in Workers : worker'[x].at # "idle" /\ worker'[x].task = v
    BY DEF RunningHasWorker, Running
  <2>1. status[v] = "running" /\ v \notin orphans
    BY <1>1, <1>2 DEF faults
  <2>2. PICK x \in Workers : worker[x].at # "idle" /\ worker[x].task = v
    BY <1>0, <2>1 DEF RunningHasWorker, Running
  <2>3. CASE x = w
    BY <1>3, <2>2, <2>3
  <2>4. CASE x # w
    BY <1>3, <2>2, <2>4
  <2> QED
    BY <2>3, <2>4
<1>5. BesideTyped'
  BY <1>0, <1>1, <1>3 DEF BesideTyped, faults
<1>6. \A v \in Workers : worker'[v].at # "idle" => worker'[v].task \in Tasks
  BY <1>0, <1>1, <1>3 DEF PlaceInv
<1> QED
  BY <1>0, <1>1, <1>2, <1>4, <1>5, <1>6, BesideKeeps DEF PlaceInv, faults

\* After a crash each running row is an orphan, each approved request cut off.
LEMMA CrashKeeps ==
    ASSUME IInv, Crash
    PROVE  IInv'
<1>0. TablesTyped /\ ReviewsTyped /\ BesideTyped /\ ServerInv
  BY Typed DEF IInv
<1>1. /\ crashes < MaxCrashes /\ crashes' = crashes + 1 /\ orphans' = Running
      /\ cutoff' = cutoff \cup {r \in Requests : req[r] = "approved"}
      /\ server' = Resting /\ cron' = Sleeping /\ starter' = Sleeping
      /\ worker' = [w \in Workers |-> NoWork]
      /\ UNCHANGED <<tables, reviews, verdict>>
  BY DEF Crash
<1>2. UNCHANGED <<status, approval, req, result, granted, presumed>>
  BY <1>1 DEF tables, reviews
<1>3. TypeOK'
  <2>1. TablesTyped' /\ ReviewsTyped'
    BY <1>0, <1>1 DEF TablesTyped, ReviewsTyped, tables, reviews
  <2>2. ServerTyped'
    BY <1>1 DEF ServerTyped, Resting, Places
  <2>3. BesideTyped'
    BY <1>0, <1>1 DEF BesideTyped, Running, Sleeping, NoWork, Jobs
  <2> QED
    BY <2>1, <2>2, <2>3, TypedNext
<1>4. PlaceInv'
  BY <1>1 DEF PlaceInv, Resting, Sleeping, NoWork
<1>5. ServerInv'
  <2>1. FilingInv' /\ ApprovalInv' /\ RowInv'
    BY <1>1 DEF FilingInv, ApprovalInv, RowInv, Approving, Resting
  <2>2. OneOpenRequest' /\ GrantInv'
    BY <1>0, <1>2 DEF ServerInv, OneOpenRequest, GrantInv
  <2>3. NothingLeftApproved'
    BY <1>1, <1>2 DEF NothingLeftApproved
  <2> QED
    BY <2>1, <2>2, <2>3 DEF ServerInv
<1>6. RunningHasWorker'
  BY <1>1, <1>2 DEF RunningHasWorker, Running
<1> QED
  BY <1>3, <1>4, <1>5, <1>6 DEF IInv

-----------------------------------------------------------------------------
(* The steps together. *)

LEMMA InitKeeps == Init => IInv
<1> SUFFICES ASSUME Init PROVE IInv
  OBVIOUS
<1>1. TypeOK
  BY DEF Init, TypeOK, Statuses, Decided, Resting, Sleeping, NoWork, Places
<1>2. PlaceInv
  BY DEF Init, PlaceInv, Resting, Sleeping, NoWork
<1>3. ServerInv
  BY DEF Init, ServerInv, FilingInv, ApprovalInv, RowInv, GrantInv, OneOpenRequest,
         NothingLeftApproved, Approving, Resting, Open
<1>4. RunningHasWorker
  BY DEF Init, RunningHasWorker, Running
<1> QED
  BY <1>1, <1>2, <1>3, <1>4 DEF IInv

LEMMA RouteKeeps ==
    ASSUME IInv, Route
    PROVE  IInv'
<1>1. ASSUME NEW u \in Users, NEW t \in Tasks,
             CreateTask(u, t) \/ ExecuteRoute(u, t) \/ RequestEdit(u, t)
      PROVE  IInv'
  BY <1>1, CreateTaskKeeps, ExecuteRouteKeeps, StopDeleteKeeps
<1>2. ASSUME NEW u \in Users, NEW r \in Requests, NEW t \in Tasks, SubmitRequest(u, r, t)
      PROVE  IInv'
  BY <1>2, SubmitKeeps
<1>3. ASSUME NEW R \in SUBSET Requests, ReadRequests(R) PROVE IInv'
  BY <1>3, ReadRequestsKeeps
<1>4. ASSUME NEW r \in Requests, ApproveRequest(r) \/ RejectRequest(r) PROVE IInv'
  BY <1>4, ApproveRequestKeeps, RejectRequestKeeps
<1>5. ASSUME NEW t \in Tasks, RequestStop(t) \/ RequestDelete(t) \/ ToggleSchedule(t)
      PROVE  IInv'
  BY <1>5, StopDeleteKeeps, ToggleKeeps
<1> QED
  BY <1>1, <1>2, <1>3, <1>4, <1>5 DEF Route

LEMMA ServerKeeps ==
    ASSUME IInv, Server
    PROVE  IInv'
  BY FileAgainKeeps, BindNewKeeps, BindExistingKeeps, SetResultKeeps, AnswerKeeps,
     ServerExecuteKeeps, ServerQueueKeeps, ApproveExecuteKeeps, ApproveCreateKeeps,
     SaveRunningKeeps, CommitStopKeeps, CommitDeleteKeeps, CommitEditKeeps
     DEF Server

LEMMA StutterKeeps ==
    ASSUME IInv, UNCHANGED vars
    PROVE  IInv'
  BY DEF IInv, vars, tables, reviews, beside, threads, faults, TypeOK, PlaceInv, ServerInv, FilingInv,
         ApprovalInv, RowInv, GrantInv, OneOpenRequest, NothingLeftApproved, Approving,
         RunningHasWorker, Running

LEMMA StepKeeps == IInv /\ [Next]_vars => IInv'
<1> SUFFICES ASSUME IInv, [Next]_vars PROVE IInv'
  OBVIOUS
<1>1. ASSUME NEW t \in Tasks, CronExecute(t) \/ StartRead(t) PROVE IInv'
  BY <1>1, CronExecuteKeeps, StartReadKeeps
<1>2. ASSUME NEW w \in Workers, Load(w) \/ Quit(w) \/ Finish(w) \/ FinishCommit(w) PROVE IInv'
  BY <1>2, WorkerKeeps
<1> QED
  BY <1>1, <1>2, RouteKeeps, ServerKeeps, CronQueueKeeps, StartCommitKeeps, CrashKeeps, StutterKeeps DEF Next

-----------------------------------------------------------------------------
(* The theorems. *)

\* Every state that is reached satisfies the inductive invariant.
THEOREM Invariance == Spec => []IInv
  BY InitKeeps, StepKeeps, PTL DEF Spec

\* The tables, the requests and the threads keep their types.
THEOREM TypeCorrect == Spec => []TypeOK
<1>1. IInv => TypeOK
  BY DEF IInv
<1> QED
  BY <1>1, Invariance, PTL

\* At most one open request names a migration, and the migration is bound to it:
\* executing what was approved and filing a request again never cross.
THEOREM OneOpen == Spec => []OneOpenRequest
<1>1. IInv => OneOpenRequest
  BY DEF IInv, ServerInv
<1> QED
  BY <1>1, Invariance, PTL

\* An approval is executed or taken back, unless a crash interrupts it.
THEOREM ApprovalExecuted == Spec => []NothingLeftApproved
<1>1. IInv => NothingLeftApproved
  BY DEF IInv, ServerInv
<1> QED
  BY <1>1, Invariance, PTL

\* A running migration has a worker, unless a crash took it.
THEOREM Served == Spec => []RunningHasWorker
<1>1. IInv => RunningHasWorker
  BY DEF IInv
<1> QED
  BY <1>1, Invariance, PTL

(***************************************************************************)
(* What has been checked and is not read yet has been reviewed, or edited  *)
(* since: the second invariant, beside the first.                          *)
(***************************************************************************)

CheckedInv ==
    /\ server.at = "bind" => ~Starting(server.task)
    /\ \A t \in Tasks : Starting(t) /\ NeedsApproval(t) => verdict[t] \in {"reviewed", "edited"}

\* A row with an identity that is fresh is not about to start.
LEMMA FreshRests ==
    ASSUME NEW t \in Tasks, FreshTask(t)
    PROVE  ~Starting(t)
  BY DEF FreshTask, Starting

\* A step that starts nothing and changes no target that is about to be read
LEMMA TargetsStay ==
    ASSUME CheckedInv, UNCHANGED verdict,
           \A t \in Tasks : Starting(t)' => Starting(t),
           \A t \in Tasks : Starting(t) /\ NeedsApproval(t)' => NeedsApproval(t),
           server'.at = "bind" => server'.task \in Tasks /\ ~Starting(server'.task)
    PROVE  CheckedInv'
  BY DEF CheckedInv

\* A step of a route that leaves the targets alone and does not begin to bind
LEMMA RouteRests ==
    ASSUME CheckedInv, UNCHANGED <<creator, guarded, beside, faults>>, server'.at # "bind"
    PROVE  CheckedInv'
  BY DEF CheckedInv, Starting, NeedsApproval, WriteNeedsApproval, beside, faults

\* A row with a fresh identity is written.
LEMMA PutRests ==
    ASSUME TypeOK, CheckedInv, NEW t \in Tasks, ~Starting(t), UNCHANGED <<beside, faults>>,
           \A v \in Tasks \ {t} : creator'[v] = creator[v] /\ (v \in guarded' <=> v \in guarded),
           server'.at # "bind"
    PROVE  CheckedInv'
<1>1. \A v \in Tasks : Starting(v)' <=> Starting(v)
  BY DEF Starting, beside
<1>2. \A v \in Tasks \ {t} : NeedsApproval(v)' <=> NeedsApproval(v)
  BY DEF NeedsApproval, WriteNeedsApproval
<1> QED
  BY <1>1, <1>2 DEF CheckedInv, faults

LEMMA CheckedInit == Init => CheckedInv
  BY DEF Init, CheckedInv, Starting, Resting, Sleeping, NoWork

LEMMA CheckedRoute ==
    ASSUME IInv, CheckedInv, Route
    PROVE  CheckedInv'
<1>0. TypeOK
  BY DEF IInv
<1>1. ASSUME NEW u \in Users, NEW t \in Tasks, CreateTask(u, t) PROVE CheckedInv'
  <2>1. /\ FreshTask(t) /\ UNCHANGED <<beside, faults>> /\ guarded' \in {guarded \cup {t}, guarded \ {t}}
        /\ creator' = [creator EXCEPT ![t] = u] /\ server'.at # "bind"
    BY <1>1 DEF CreateTask, PutTask, At, Done, Resting
  <2>2. \A v \in Tasks \ {t} : creator'[v] = creator[v] /\ (v \in guarded' <=> v \in guarded)
    BY <1>0, <2>1 DEF TypeOK
  <2> QED
    BY <1>0, <2>1, <2>2, FreshRests, PutRests
<1>2. ASSUME NEW u \in Users, NEW t \in Tasks, ExecuteRoute(u, t) PROVE CheckedInv'
  <2>1. UNCHANGED <<tables, beside, faults>> /\ server.at = "idle"
        /\ (server' = server \/ server'.at # "bind")
    BY <1>2 DEF ExecuteRoute, At, FileRequest
  <2> QED
    BY <2>1, RouteRests DEF tables
<1>3. ASSUME NEW u \in Users, NEW t \in Tasks, RequestEdit(u, t) PROVE CheckedInv'
  BY <1>3, RouteRests DEF RequestEdit, At, tables
<1>4. ASSUME NEW u \in Users, NEW r \in Requests, NEW t \in Tasks, SubmitRequest(u, r, t)
      PROVE  CheckedInv'
  <2>1. /\ FreshTask(t) /\ UNCHANGED <<tables, beside, faults>> /\ server'.at = "bind"
        /\ server'.task = t
    BY <1>4 DEF SubmitRequest, FileRequest, At
  <2>2. \A v \in Tasks : (Starting(v)' <=> Starting(v)) /\ (NeedsApproval(v)' <=> NeedsApproval(v))
    BY <2>1 DEF Starting, NeedsApproval, WriteNeedsApproval, beside, tables
  <2> QED
    BY <2>1, <2>2, FreshRests, TargetsStay DEF faults
<1>5. ASSUME NEW R \in SUBSET Requests, ReadRequests(R) PROVE CheckedInv'
  BY <1>5, RouteRests DEF ReadRequests, tables, threads
<1>6. ASSUME NEW r \in Requests, ApproveRequest(r) \/ RejectRequest(r) PROVE CheckedInv'
  BY <1>6, RouteRests DEF ApproveRequest, RejectRequest, At, tables, threads
<1>7. ASSUME NEW t \in Tasks, RequestStop(t) \/ RequestDelete(t) \/ ToggleSchedule(t)
      PROVE  CheckedInv'
  BY <1>7, RouteRests DEF RequestStop, RequestDelete, ToggleSchedule, At, tables, threads
<1> QED
  BY <1>1, <1>2, <1>3, <1>4, <1>5, <1>6, <1>7 DEF Route

LEMMA CheckedServer ==
    ASSUME IInv, CheckedInv, Server
    PROVE  CheckedInv'
<1>0. TypeOK /\ PlaceInv
  BY DEF IInv
<1>1. ASSUME NEW u \in Users, NEW r \in Requests, FileAgain(u, r) PROVE CheckedInv'
  BY <1>1, RouteRests DEF FileAgain, FileRequest, At, tables
<1>2. ASSUME BindNew PROVE CheckedInv'
  <2>1. /\ server.at = "bind" /\ UNCHANGED <<beside, faults>> /\ server'.at # "bind"
        /\ guarded' = guarded \cup {server.task}
        /\ creator' = [creator EXCEPT ![server.task] = by[server.request]]
    BY <1>2 DEF BindNew, PutTask, At
  <2>2. server.task \in Tasks /\ ~Starting(server.task)
    BY <1>0, <2>1 DEF PlaceInv, CheckedInv
  <2>3. \A v \in Tasks \ {server.task} :
           creator'[v] = creator[v] /\ (v \in guarded' <=> v \in guarded)
    BY <1>0, <2>1 DEF TypeOK
  <2> QED
    BY <1>0, <2>1, <2>2, <2>3, PutRests
<1>3. ASSUME BindExisting \/ SetResult \/ AnswerRequest \/ ServerExecute \/ ServerQueue
             \/ ApproveExecute \/ SaveRunning \/ CommitStop \/ CommitDelete
      PROVE  CheckedInv'
  <2>1. UNCHANGED <<creator, guarded, beside, faults>> /\ server'.at # "bind"
    BY <1>3 DEF BindExisting, SetResult, AnswerRequest, ServerExecute, ServerQueue,
                ApproveExecute, SaveRunning, CommitStop, CommitDelete, At, Done, Resting, tables
  <2> QED
    BY <2>1, RouteRests
<1>4. ASSUME NEW t \in Tasks, ApproveCreate(t) PROVE CheckedInv'
  <2>1. /\ FreshTask(t) /\ UNCHANGED <<beside, faults>> /\ server'.at # "bind"
        /\ guarded' = guarded \cup {t}
        /\ creator' = [creator EXCEPT ![t] = by[server.request]]
    BY <1>4 DEF ApproveCreate, PutTask, At
  <2>2. \A v \in Tasks \ {t} : creator'[v] = creator[v] /\ (v \in guarded' <=> v \in guarded)
    BY <1>0, <2>1 DEF TypeOK
  <2> QED
    BY <1>0, <2>1, <2>2, FreshRests, PutRests
<1>5. ASSUME CommitEdit PROVE CheckedInv'
  <2> DEFINE t == server.task
  <2>1. /\ t \in Tasks /\ UNCHANGED <<creator, beside>> /\ server'.at = "idle"
        /\ guarded' \in {guarded \ {t}, guarded \cup {t}}
        /\ verdict' = IF Starting(t) THEN [verdict EXCEPT ![t] = "edited"] ELSE verdict
    BY <1>0, <1>5 DEF CommitEdit, PlaceInv, Done, Resting
  <2>2. \A v \in Tasks : Starting(v)' <=> Starting(v)
    BY <2>1 DEF Starting, beside
  <2>3. \A v \in Tasks \ {t} : (NeedsApproval(v)' <=> NeedsApproval(v)) /\ verdict'[v] = verdict[v]
    BY <1>0, <2>1 DEF NeedsApproval, WriteNeedsApproval, TypeOK
  <2>4. Starting(t) => verdict'[t] = "edited"
    BY <1>0, <2>1 DEF TypeOK
  <2> QED
    BY <2>1, <2>2, <2>3, <2>4 DEF CheckedInv
<1> QED
  BY <1>1, <1>2, <1>3, <1>4, <1>5 DEF Server

LEMMA CheckedStart ==
    ASSUME IInv, CheckedInv, NEW t \in Tasks, StartRead(t)
    PROVE  CheckedInv'
<1>0. TypeOK /\ FilingInv /\ GrantInv /\ PlaceInv
  BY DEF IInv, ServerInv
<1>1. /\ status[t] = "pending"
      /\ UNCHANGED <<creator, guarded, server, worker>>
  BY DEF StartRead, tables
<1>2. ~(server.at = "bind" /\ server.task = t)
  BY <1>0, <1>1 DEF FilingInv
<1>3. \A v \in Tasks : NeedsApproval(v)' <=> NeedsApproval(v)
  BY <1>1 DEF NeedsApproval, WriteNeedsApproval
<1>4. CASE /\ NeedsApproval(t) => Allowed(t)
           /\ starter.at = "idle" /\ starter' = [at |-> "start", task |-> t]
           /\ verdict' = [verdict EXCEPT ![t] =
                 IF approval[t] \in granted \cup presumed THEN "reviewed" ELSE "free"]
  <2>1. \A v \in Tasks \ {t} : (Starting(v)' <=> Starting(v)) /\ verdict'[v] = verdict[v]
    BY <1>0, <1>1, <1>4 DEF Starting, TypeOK
  <2>2. NeedsApproval(t) => verdict'[t] = "reviewed"
    <3>1. Allowed(t) => approval[t] \in granted \cup presumed
      BY <1>0 DEF Allowed, GrantInv, TypeOK
    <3> QED
      BY <1>0, <1>4, <3>1 DEF TypeOK
  <2>3. server.at = "bind" => server.task \in Tasks \ {t} /\ ~Starting(server.task)
    BY <1>0, <1>2 DEF CheckedInv, PlaceInv
  <2>4. (server.at = "bind" => ~Starting(server.task))'
    BY <1>1, <2>1, <2>3
  <2>5. ASSUME NEW v \in Tasks, Starting(v)', NeedsApproval(v)'
        PROVE  verdict'[v] \in {"reviewed", "edited"}
    BY <1>3, <2>1, <2>2, <2>5 DEF CheckedInv
  <2> QED
    BY <2>4, <2>5 DEF CheckedInv
<1>5. CASE UNCHANGED verdict /\ starter.at = "idle" /\ starter' = [at |-> "refuse", task |-> t]
  <2>1. \A v \in Tasks : Starting(v)' <=> Starting(v)
    BY <1>1, <1>5 DEF Starting
  <2> QED
    BY <1>0, <1>1, <1>3, <1>5, <2>1, TargetsStay DEF CheckedInv, PlaceInv
<1> QED
  BY <1>4, <1>5 DEF StartRead

\* What the dispatcher, the scheduler, the workers and a crash do to no target
LEMMA CheckedBeside ==
    ASSUME IInv, CheckedInv,
           \/ CronQueue \/ StartCommit \/ Crash
           \/ \E t \in Tasks : CronExecute(t)
           \/ \E w \in Workers : Load(w) \/ Quit(w) \/ Finish(w) \/ FinishCommit(w)
    PROVE  CheckedInv'
<1>0. TypeOK /\ PlaceInv
  BY DEF IInv
<1>1. UNCHANGED <<creator, guarded, verdict>> /\ (server' = server \/ server'.at = "idle")
  <2>1. CASE CronQueue \/ StartCommit \/ Crash
    BY <2>1 DEF CronQueue, StartCommit, Crash, tables, faults, Resting
  <2>2. ASSUME NEW t \in Tasks, CronExecute(t) PROVE UNCHANGED <<creator, guarded, verdict, server>>
    BY <2>2 DEF CronExecute, tables, faults
  <2>3. ASSUME NEW w \in Workers, Load(w) \/ Quit(w) \/ Finish(w) \/ FinishCommit(w)
        PROVE  UNCHANGED <<creator, guarded, verdict, server>>
    BY <2>3 DEF Load, Quit, Finish, FinishCommit, tables, faults
  <2> QED
    BY <2>1, <2>2, <2>3
<1>2. \A v \in Tasks : NeedsApproval(v)' <=> NeedsApproval(v)
  BY <1>1 DEF NeedsApproval, WriteNeedsApproval
<1>3. \A v \in Tasks : Starting(v)' => Starting(v)
  <2>1. CASE CronQueue \/ \E t \in Tasks : CronExecute(t)
    BY <2>1 DEF CronQueue, CronExecute, Starting
  <2>2. CASE StartCommit
    <3>1. CASE UNCHANGED worker
      BY <2>2, <3>1 DEF StartCommit, Starting, Sleeping
    <3>2. CASE /\ starter.at = "start" /\ starter' = Sleeping
               /\ \E w \in Workers :
                     worker' = [worker EXCEPT ![w] =
                                  [at |-> "start", task |-> starter.task, ok |-> FALSE]]
      BY <1>0, <3>2 DEF Starting, Sleeping, TypeOK
    <3> QED
      BY <2>2, <3>1, <3>2 DEF StartCommit
  <2>3. CASE Crash
    BY <2>3 DEF Crash, Starting, Sleeping, NoWork
  <2>4. ASSUME NEW w \in Workers, Load(w) \/ Quit(w) \/ Finish(w) \/ FinishCommit(w),
               NEW v \in Tasks, Starting(v)'
        PROVE  Starting(v)
    <3>1. UNCHANGED starter /\ \A x \in Workers \ {w} : worker'[x] = worker[x]
      BY <1>0, <2>4 DEF Load, Quit, Finish, FinishCommit, TypeOK
    <3>2. worker'[w].at # "start"
      <4>1. CASE Load(w)
        BY <1>0, <4>1 DEF Load, TypeOK
      <4>2. CASE Quit(w) \/ FinishCommit(w)
        BY <1>0, <4>2 DEF Quit, FinishCommit, NoWork, TypeOK
      <4>3. CASE Finish(w)
        <5>1. PICK ok \in BOOLEAN :
                worker' = [worker EXCEPT ![w] = [worker[w] EXCEPT !.at = "finish", !.ok = ok]]
          BY <4>3 DEF Finish
        <5> QED
          BY <1>0, <5>1 DEF TypeOK
      <4> QED
        BY <2>4, <4>1, <4>2, <4>3
    <3> QED
      BY <2>4, <3>1, <3>2 DEF Starting
  <2> QED
    BY <2>1, <2>2, <2>3, <2>4
<1>4. server'.at = "bind" => server'.task \in Tasks /\ ~Starting(server'.task)
  BY <1>0, <1>1 DEF CheckedInv, PlaceInv
<1> QED
  BY <1>1, <1>2, <1>3, <1>4, TargetsStay

LEMMA CheckedStep == IInv /\ CheckedInv /\ [Next]_vars => CheckedInv'
<1> SUFFICES ASSUME IInv, CheckedInv, [Next]_vars PROVE CheckedInv'
  OBVIOUS
<1>1. CASE UNCHANGED vars
  BY <1>1 DEF vars, tables, threads, beside, faults, CheckedInv, Starting, NeedsApproval,
              WriteNeedsApproval
<1> QED
  BY <1>1, CheckedRoute, CheckedServer, CheckedStart, CheckedBeside DEF Next

\* What a worker reads and writes to has been reviewed, or was edited after the check.
THEOREM Reviewed == Spec => ReviewedRuns
<1>1. Spec => []CheckedInv
  BY CheckedInit, CheckedStep, Invariance, PTL DEF Spec
<1>2. IInv /\ CheckedInv =>
        [\A w \in Workers :
            LET t == worker[w].task IN
            worker[w].at = "start" /\ worker'[w].at = "run" /\ NeedsApproval(t)
                => verdict[t] \in {"reviewed", "edited"}]_vars
  BY DEF IInv, PlaceInv, CheckedInv, Starting
<1> QED
  BY <1>1, <1>2, Invariance, PTL DEF Spec, ReviewedRuns

\* A request that is decided is touched by no step: reading spares it, filing takes an
\* identity that is free, a review a pending request, and the commits of an approval the
\* request that is approved.
LEMMA DecidedStays ==
    ASSUME IInv, [Next]_vars, NEW r \in Requests, req[r] \in Terminal
    PROVE  req'[r] = req[r]
<1>0. /\ TypeOK /\ PlaceInv /\ ApprovalInv
      /\ req \in [Requests -> Decided] /\ approval \in [Tasks -> Requests \cup {None}]
  BY DEF IInv, ServerInv, TypeOK
<1>1. req[r] \notin {"absent", "pending", "approved"} /\ req[r] \notin Open
  BY DEF Terminal, Open
<1>2. ASSUME UNCHANGED reviews PROVE req'[r] = req[r]
  BY <1>2 DEF reviews
<1>3. ASSUME NEW R \in SUBSET Requests, ReadAll(R) PROVE req'[r] = req[r]
  BY <1>0, <1>1, <1>3, ReadAllIs
<1>4. ASSUME NEW q, NEW s, req[q] \in {"absent", "pending", "approved"},
             req' = [req EXCEPT ![q] = s]
      PROVE  req'[r] = req[r]
  BY <1>0, <1>1, <1>4
<1>5. ASSUME NEW q, NEW u, NEW v, NEW place, FileRequest(u, q, v, place)
      PROVE  req'[r] = req[r]
  <2>1. req[q] = "absent" /\ req' = [req EXCEPT ![q] = "pending"]
    BY <1>5 DEF FileRequest
  <2> QED
    BY <1>4, <2>1
<1>6. ASSUME Route PROVE req'[r] = req[r]
  <2>1. ASSUME NEW u \in Users, NEW t \in Tasks, CreateTask(u, t) \/ RequestEdit(u, t)
        PROVE  req'[r] = req[r]
    BY <1>2, <2>1 DEF CreateTask, RequestEdit
  <2>2. ASSUME NEW u \in Users, NEW t \in Tasks, ExecuteRoute(u, t)
        PROVE  req'[r] = req[r]
    <3>1. approval[t] # None => {approval[t]} \in SUBSET Requests
      BY <1>0
    <3> QED
      BY <1>2, <1>3, <1>5, <2>2, <3>1 DEF ExecuteRoute
  <2>3. ASSUME NEW u \in Users, NEW q \in Requests, NEW t \in Tasks, SubmitRequest(u, q, t)
        PROVE  req'[r] = req[r]
    BY <1>5, <2>3 DEF SubmitRequest
  <2>4. ASSUME NEW R \in SUBSET Requests, ReadRequests(R) PROVE req'[r] = req[r]
    BY <1>3, <2>4 DEF ReadRequests
  <2>5. ASSUME NEW q \in Requests, ApproveRequest(q) \/ RejectRequest(q)
        PROVE  req'[r] = req[r]
    BY <1>4, <2>5 DEF ApproveRequest, RejectRequest
  <2>6. ASSUME NEW t \in Tasks, RequestStop(t) \/ RequestDelete(t) \/ ToggleSchedule(t)
        PROVE  req'[r] = req[r]
    BY <1>2, <2>6 DEF RequestStop, RequestDelete, ToggleSchedule
  <2> QED
    BY <1>6, <2>1, <2>2, <2>3, <2>4, <2>5, <2>6 DEF Route
<1>7. ASSUME Server PROVE req'[r] = req[r]
  <2>1. ASSUME NEW u \in Users, NEW q \in Requests, FileAgain(u, q) PROVE req'[r] = req[r]
    BY <1>5, <2>1 DEF FileAgain
  <2>2. ASSUME BindNew \/ BindExisting \/ ServerExecute \/ ServerQueue \/ CommitStop
               \/ CommitDelete \/ CommitEdit \/ \E t \in Tasks : ApproveCreate(t)
        PROVE  req'[r] = req[r]
    BY <1>2, <2>2 DEF BindNew, BindExisting, ServerExecute, ServerQueue, CommitStop,
                      CommitDelete, CommitEdit, ApproveCreate
  <2>3. ASSUME SetResult PROVE req'[r] = req[r]
    BY <2>3 DEF SetResult
  <2>4. ASSUME AnswerRequest PROVE req'[r] = req[r]
    <3>1. {server.request} \in SUBSET Requests
      BY <1>0, <2>4 DEF AnswerRequest, PlaceInv
    <3> QED
      BY <1>3, <2>4, <3>1 DEF AnswerRequest
  <2>5. ASSUME ApproveExecute \/ SaveRunning PROVE req'[r] = req[r]
    <3>1. req[server.request] = "approved"
      BY <1>0, <2>5 DEF ApprovalInv, Approving, PlaceInv, ApproveExecute, SaveRunning
    <3> QED
      BY <1>4, <2>5, <3>1 DEF ApproveExecute, SaveRunning
  <2> QED
    BY <1>7, <2>1, <2>2, <2>3, <2>4, <2>5 DEF Server
<1>8. ASSUME CronQueue \/ StartCommit \/ Crash PROVE req'[r] = req[r]
  BY <1>2, <1>8 DEF CronQueue, StartCommit, Crash
<1>9. ASSUME NEW t \in Tasks, CronExecute(t) \/ StartRead(t) PROVE req'[r] = req[r]
  BY <1>2, <1>9 DEF CronExecute, StartRead
<1>10. ASSUME NEW w \in Workers, Load(w) \/ Quit(w) \/ Finish(w) \/ FinishCommit(w)
       PROVE  req'[r] = req[r]
  BY <1>2, <1>10 DEF Load, Quit, Finish, FinishCommit
<1>11. ASSUME UNCHANGED vars PROVE req'[r] = req[r]
  BY <1>2, <1>11 DEF vars
<1> QED
  BY <1>6, <1>7, <1>8, <1>9, <1>10, <1>11 DEF Next

\* What is completed, failed or rejected stays so, whoever reads it later.
THEOREM DecisionStands == Spec => DecisionIsFinal
<1>1. IInv /\ [Next]_vars => [\A r \in Requests : req[r] \in Terminal => req'[r] = req[r]]_vars
  BY DecidedStays
<1> QED
  BY <1>1, Invariance, PTL DEF Spec, DecisionIsFinal
=============================================================================
