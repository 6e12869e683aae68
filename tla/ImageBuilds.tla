---------------------------- MODULE ImageBuilds ----------------------------
(***************************************************************************)
(* What a build or export worker does with the images: fetch the sources,  *)
(* build, push or save, write the outcome, clean up; and what the server   *)
(* makes of the rows it finds running after a restart.                     *)
(*   handlers.py   _build_from_source_task, _build_task, _export_task,     *)
(*                 recover_non_deploy_tasks_after_restart                  *)
(*   docker_builder.py   the local images, known by name                   *)
(*   route_definitions.py   build_from_local, retry_build_task             *)
(*                                                                         *)
(* The contents of an image is the row it was made for.  The global queue  *)
(* is reduced to its slots and to whether it has been looked at since the  *)
(* server started: every later event that frees a slot looks at it again   *)
(* (TaskQueue).  Inside a build only what can be seen from outside is      *)
(* kept: the sources, the tags of the finished images, the outcome.        *)
(***************************************************************************)
EXTENDS Naturals, FiniteSets

CONSTANTS
  Rows,        \* rows of the tasks and export_tasks tables
  Jobs,        \* saved configurations a row is made from
  Images,      \* names with a tag
  Kind,        \* [Jobs -> Kinds]
  Targets,     \* [Jobs -> SUBSET Images]  the image of each selected service
  Push,        \* [Jobs -> Pushes]
  Slots,       \* rows running at once
  MaxCrashes,  \* bound: how often the server dies
  None

Kinds == {"git", "local", "upload", "export"}
\* no push, one push of the image, one push per service, pushed by buildx
Pushes == {"no", "global", "each", "buildx"}

ASSUME KindAssumption == Kind \in [Jobs -> Kinds] /\ None \notin Rows \cup Jobs
ASSUME TargetsAssumption ==
  /\ Targets \in [Jobs -> (SUBSET Images) \ {{}}]
  /\ Push \in [Jobs -> Pushes]
  /\ \A j \in Jobs : Push[j] # "each" => Cardinality(Targets[j]) = 1
  /\ \A j \in Jobs : Kind[j] = "export" => Push[j] = "no"
ASSUME BoundAssumption == Slots \in Nat \ {0} /\ MaxCrashes \in Nat

VARIABLES
  job,        \* [Rows -> Jobs \cup {None}]  configuration of the row
  status,     \* [Rows -> Statuses]
  at,         \* [Rows -> Places]  where the worker thread of the row is
  left,       \* [Rows -> SUBSET Images]  what the worker has still to do
  snapshots,  \* jobs whose uploaded workspace archive is on disk
  local,      \* [Images -> Rows \cup {None}]  images of the Docker host
  remote,     \* [Images -> Rows \cup {None}]  images of the registry
  phase,      \* the server: "down", "starting", "serving"
  judging,    \* rows the recovery has still to look at
  awake,      \* the queue has been looked at since the server started
  crashes,    \* how often the server died
  found,      \* [Rows -> SUBSET Images]  of the services its sources have
  made,       \* [Rows -> SUBSET Images]  what the worker has built
  unpushed,   \* rows whose worker had its one push break off
  own,        \* history: contents the worker built or pulled
  sent,       \* history: contents it pushed or saved last, None before
  shared      \* history: rows that had a worker while another row had one
              \*          for an image of the same name

rowVars  == <<job, status>>
workVars == <<at, left>>
madeVars == <<found, made, unpushed>>
diskVars == <<snapshots, local, remote>>
runVars  == <<phase, judging, crashes>>
history  == <<own, sent, shared>>
vars == <<rowVars, workVars, madeVars, diskVars, runVars, awake, history>>

Statuses == {"none", "pending", "running", "completed", "failed", "stopped",
             "gone"}
Places   == {"none", "mark", "fetch", "build", "push", "close"}
Contents == Rows \cup {None}

Init ==
  /\ job = [r \in Rows |-> None] /\ status = [r \in Rows |-> "none"]
  /\ at = [r \in Rows |-> "none"] /\ left = [r \in Rows |-> {}]
  /\ snapshots = {}
  /\ local = [i \in Images |-> None] /\ remote = [i \in Images |-> None]
  /\ phase = "serving" /\ judging = {} /\ awake = FALSE /\ crashes = 0
  /\ found = [r \in Rows |-> {}] /\ made = [r \in Rows |-> {}] /\ unpushed = {}
  /\ own = [r \in Rows |-> None] /\ sent = [r \in Rows |-> None]
  /\ shared = {}

-----------------------------------------------------------------------------
RowsOf(ks) == {r \in Rows : job[r] # None /\ Kind[job[r]] \in ks}
Running    == {r \in Rows : status[r] = "running"}
Working    == {r \in Rows : at[r] # "none"}
Sources    == {"git", "local"}

\* update_task_status with a final status: a deleted row is left alone, any
\* other status is overwritten and the queue is looked at.
Outcome(r, s) ==
  IF status[r] = "gone" THEN UNCHANGED <<rowVars, awake>>
  ELSE status' = [status EXCEPT ![r] = s] /\ awake' = TRUE /\ UNCHANGED job

Goes(r, place) == at' = [at EXCEPT ![r] = place] /\ UNCHANGED left

\* the thread ends, and its local variables with it
Leave(r) ==
  /\ Goes(r, "none")
  /\ found' = [found EXCEPT ![r] = {}] /\ made' = [made EXCEPT ![r] = {}]
  /\ unpushed' = unpushed \ {r}

-----------------------------------------------------------------------------
(* The HTTP interface. *)

\* a build is asked for; build_from_local stores the archive first
Submit(r, j) ==
  /\ phase = "serving" /\ status[r] = "none"
  /\ Kind[j] = "local" => \A q \in Rows : job[q] # j  \* a fresh archive id
  /\ job' = [job EXCEPT ![r] = j]
  /\ status' = [status EXCEPT ![r] = "pending"]
  /\ snapshots' = IF Kind[j] = "local" THEN snapshots \cup {j} ELSE snapshots
  /\ awake' = TRUE
  /\ UNCHANGED <<workVars, madeVars, local, remote, runVars, history>>

\* retry_build_task: a new row from the saved configuration of a finished one,
\* which keeps the id of the archive
Retry(q, r) ==
  /\ phase = "serving" /\ status[r] = "none"
  /\ q \in RowsOf(Sources) /\ status[q] \in {"completed", "failed", "stopped"}
  /\ job' = [job EXCEPT ![r] = job[q]]
  /\ status' = [status EXCEPT ![r] = "pending"]
  /\ awake' = TRUE
  /\ UNCHANGED <<workVars, madeVars, diskVars, runVars, history>>

\* stop_task: the worker is not told; it reads the status or does not
Stop(r) ==
  /\ phase = "serving" /\ status[r] \in {"pending", "running"}
  /\ status' = [status EXCEPT ![r] = "stopped"]
  /\ awake' = (awake \/ status[r] = "running")
  /\ UNCHANGED <<job, workVars, madeVars, diskVars, runVars, history>>

Delete(r) ==
  /\ phase = "serving" /\ status[r] \in {"completed", "failed", "stopped"}
  /\ status' = [status EXCEPT ![r] = "gone"]
  /\ UNCHANGED <<job, workVars, madeVars, diskVars, runVars, awake, history>>

-----------------------------------------------------------------------------
(* The worker of a row. *)

\* the queue commits running and starts the thread
Start(r) ==
  LET near == {q \in Working : Targets[job[q]] \cap Targets[job[r]] # {}}
  IN /\ phase # "down" /\ awake
     /\ status[r] = "pending" /\ Cardinality(Running) < Slots
     /\ status' = [status EXCEPT ![r] = "running"]
     /\ at' = [at EXCEPT ![r] = "mark"]
     /\ left' = [left EXCEPT ![r] = Targets[job[r]]]
     /\ sent' = [sent EXCEPT ![r] = None]
     /\ shared' = IF near = {} THEN shared ELSE shared \cup near \cup {r}
     /\ UNCHANGED <<job, madeVars, diskVars, runVars, awake, own>>

\* builds write running again, over a stop too; an export reads the status
Begin(r) ==
  /\ at[r] = "mark"
  /\ IF r \in RowsOf({"export"})
     THEN status[r] \notin {"stopped", "gone"} /\ UNCHANGED status
     ELSE status' = IF status[r] = "gone" THEN status
                    ELSE [status EXCEPT ![r] = "running"]
  /\ Goes(r, IF r \in RowsOf({"upload"}) THEN "build" ELSE "fetch")
  /\ UNCHANGED <<job, madeVars, diskVars, runVars, awake, history>>

\* the services of a build by service that the Dockerfile of these sources has a
\* stage for: the others are passed over, but with none of them the build fails;
\* the other builds do not look for stages
Staged(j) == IF Push[j] = "each" THEN (SUBSET Targets[j]) \ {{}} ELSE {Targets[j]}

\* mutant: the archive is removed as soon as it is unpacked
FetchSourcesOnce(r) ==
  /\ at[r] = "fetch" /\ r \in RowsOf(Sources)
  /\ r \in RowsOf({"local"}) => job[r] \in snapshots
  /\ snapshots' = snapshots \ {job[r]}
  /\ left' = [left EXCEPT ![r] = Targets[job[r]]] /\ found' = left'
  /\ at' = [at EXCEPT ![r] = "build"]
  /\ UNCHANGED <<rowVars, local, remote, runVars, awake, made, unpushed,
                 history>>

\* _clone_git_repo, or extract_source_archive of the uploaded workspace, and
\* resolve_multi_service_stage_selection
FetchSources(r) ==
  /\ at[r] = "fetch" /\ r \in RowsOf(Sources)
  /\ r \in RowsOf({"local"}) => job[r] \in snapshots
  /\ at' = [at EXCEPT ![r] = "build"]
  /\ \E S \in Staged(job[r]) :
       left' = [left EXCEPT ![r] = S] /\ found' = [found EXCEPT ![r] = S]
  /\ UNCHANGED <<rowVars, diskVars, runVars, awake, made, unpushed, history>>

\* the services are built in the order of the Dockerfile's stages; an image
\* stays in left until its push, if it is to be pushed, has been tried
Turn(r) == CHOOSE i \in left[r] : TRUE
Done(r) == left' = [left EXCEPT ![r] = @ \ {Turn(r)}]

\* mutant: the build of a service that fails is only logged, as its push is
BuildImagePassed(r) ==
  /\ at[r] = "build" /\ left[r] # {}
  /\ \/ /\ IF Push[job[r]] \in {"global", "each"} THEN Goes(r, "push")
                                                   ELSE Done(r) /\ UNCHANGED at
        /\ made' = [made EXCEPT ![r] = @ \cup {Turn(r)}]
        /\ own' = [own EXCEPT ![r] = r]
        /\ local' = [local EXCEPT ![Turn(r)] = r]
     \/ Push[job[r]] = "each" /\ Done(r) /\ UNCHANGED <<at, made, own, local>>
  /\ UNCHANGED <<rowVars, snapshots, remote, runVars, awake, found, unpushed,
                 sent, shared>>

\* one image is built under its tag; buildx sends several platforms to the
\* registry and leaves nothing on the Docker host
BuildImage(r) ==
  /\ at[r] = "build" /\ left[r] # {}
  /\ IF Push[job[r]] \in {"global", "each"} THEN Goes(r, "push")
                                            ELSE Done(r) /\ UNCHANGED at
  /\ made' = [made EXCEPT ![r] = @ \cup {Turn(r)}]
  /\ own' = [own EXCEPT ![r] = r]
  /\ IF Push[job[r]] = "buildx"
     THEN /\ remote' = [remote EXCEPT ![Turn(r)] = r]
          /\ sent' = [sent EXCEPT ![r] = r]
          /\ UNCHANGED local
     ELSE local' = [local EXCEPT ![Turn(r)] = r] /\ UNCHANGED <<remote, sent>>
  /\ UNCHANGED <<rowVars, snapshots, runVars, awake, found, unpushed, shared>>

\* mutant: the name has drifted to that of another image of the host
PushImageDrifted(r) ==
  /\ at[r] = "push" /\ r \notin RowsOf({"export"})
  /\ \E i \in Images :
       /\ local[i] # None
       /\ remote' = [remote EXCEPT ![i] = local[i]]
       /\ sent' = [sent EXCEPT ![r] = local[i]]
  /\ at' = [at EXCEPT ![r] = "build"] /\ Done(r)
  /\ UNCHANGED <<rowVars, madeVars, snapshots, local, runVars, awake, own, shared>>

\* push_image: by name, whatever that name stands for by now
PushImage(r) ==
  /\ at[r] = "push" /\ r \notin RowsOf({"export"})
  /\ remote' = [remote EXCEPT ![Turn(r)] = local[Turn(r)]]
  /\ sent' = [sent EXCEPT ![r] = local[Turn(r)]]
  /\ at' = [at EXCEPT ![r] = "build"] /\ Done(r)
  /\ UNCHANGED <<rowVars, madeVars, snapshots, local, runVars, awake, own, shared>>

\* the push of one service fails, or its configuration asks for none; the push
\* of an upload fails; and the push of the whole breaks off with an exception that
\* is not taken for a refused login: logged, the build goes on
SkipPush(r) ==
  /\ at[r] = "push" /\ r \notin RowsOf({"export"})
  /\ at' = [at EXCEPT ![r] = "build"] /\ Done(r)
  /\ unpushed' = IF Push[job[r]] = "global" /\ r \in RowsOf(Sources)
                  THEN unpushed \cup {r} ELSE unpushed
  /\ UNCHANGED <<rowVars, diskVars, runVars, awake, found, made, history>>

\* _export_task: the pull replaces the local image of that name; use_local
\* takes the image the Docker host has
FetchImage(r) ==
  /\ at[r] = "fetch" /\ r \in RowsOf({"export"})
  /\ \/ remote[Turn(r)] # None /\ local' = [local EXCEPT ![Turn(r)] = remote[Turn(r)]]
     \/ UNCHANGED local
  /\ own' = [own EXCEPT ![r] = local'[Turn(r)]]
  /\ Goes(r, "push")
  /\ UNCHANGED <<rowVars, madeVars, snapshots, remote, runVars, awake, sent, shared>>

\* the image is read by name; the file and completed are written together
Save(r) ==
  /\ at[r] = "push" /\ r \in RowsOf({"export"})
  /\ local[Turn(r)] # None
  /\ sent' = [sent EXCEPT ![r] = local[Turn(r)]]
  /\ at' = [at EXCEPT ![r] = "none"] /\ Done(r)
  /\ Outcome(r, "completed")
  /\ UNCHANGED <<madeVars, diskVars, runVars, own, shared>>

\* uploads and exports give up without an outcome where they read stopped (an
\* upload also after some errors, see SlotHasWorker of TaskQueue)
Quit(r) ==
  /\ at[r] # "none"
  /\ \/ r \in RowsOf({"upload"})
     \/ r \in RowsOf({"export"}) /\ status[r] \in {"stopped", "gone"}
  /\ Leave(r)
  /\ UNCHANGED <<rowVars, diskVars, runVars, awake, history>>

\* all services are built and the pushes are done
Complete(r) ==
  /\ at[r] = "build" /\ left[r] = {}
  /\ Outcome(r, "completed")
  /\ Goes(r, "close")
  /\ UNCHANGED <<madeVars, diskVars, runVars, history>>

\* mutant: the exception is logged and no outcome is written
FailLogged(r) ==
  /\ at[r] \in {"fetch", "build", "push"} /\ left[r] # {}
  /\ Goes(r, IF r \in RowsOf({"export"}) THEN "none" ELSE "close")
  /\ UNCHANGED <<rowVars, madeVars, awake, diskVars, runVars, history>>

\* an exception: no sources, no stage for any service, a failed build, a push of
\* the whole that the registry answers with an error
Fail(r) ==
  /\ at[r] \in {"fetch", "build", "push"} /\ left[r] # {}
  /\ Outcome(r, "failed")
  /\ Goes(r, IF r \in RowsOf({"export"}) THEN "none" ELSE "close")
  /\ UNCHANGED <<madeVars, diskVars, runVars, history>>

\* the finally clause: the workspace archive goes, whatever the outcome was
Close(r) ==
  /\ at[r] = "close"
  /\ Leave(r)
  /\ snapshots' = snapshots \ {job[r]}
  /\ UNCHANGED <<rowVars, local, remote, runVars, awake, history>>

Work(r) ==
  \/ Begin(r) \/ FetchSources(r) \/ BuildImage(r) \/ PushImage(r) \/ SkipPush(r)
  \/ FetchImage(r) \/ Save(r)
  \/ Complete(r) \/ Fail(r) \/ Quit(r) \/ Close(r)

-----------------------------------------------------------------------------
(* The server dies and starts again. *)

Crash ==
  /\ phase # "down" /\ crashes < MaxCrashes
  /\ phase' = "down" /\ crashes' = crashes + 1
  /\ judging' = {} /\ awake' = FALSE
  /\ at' = [r \in Rows |-> "none"] /\ left' = [r \in Rows |-> {}]
  /\ found' = [r \in Rows |-> {}] /\ made' = [r \in Rows |-> {}] /\ unpushed' = {}
  /\ UNCHANGED <<rowVars, diskVars, history>>

\* mutant: the exports are left to the build recovery, which reads builds only
RestartBuilds ==
  /\ phase = "down" /\ phase' = "starting"
  /\ judging' = Running \ RowsOf({"export"})
  /\ UNCHANGED <<rowVars, workVars, madeVars, diskVars, awake, crashes, history>>

\* the running exports fail at once (their file is named only on completion);
\* the running builds are read once and judged one after the other
Restart ==
  /\ phase = "down" /\ phase' = "starting"
  /\ status' = [r \in Rows |-> IF r \in Running \cap RowsOf({"export"})
                               THEN "failed" ELSE status[r]]
  /\ judging' = Running \ RowsOf({"export"})
  /\ UNCHANGED <<job, workVars, madeVars, diskVars, awake, crashes, history>>

\* the image a row is judged by: the one image of the row, or the name of the
\* whole, which no service of a multi service build has
ImageThere(r) == Push[job[r]] # "each" /\ \E i \in Targets[job[r]] : local[i] # None

\* an image of that name on the host counts as built; else sources are queued
\* again and uploads fail
Judge(r) ==
  /\ phase = "starting" /\ r \in judging
  /\ judging' = judging \ {r}
  /\ status' = [status EXCEPT ![r] =
                  CASE ImageThere(r) -> "completed"
                    [] ~ImageThere(r) /\ r \in RowsOf(Sources) -> "pending"
                    [] OTHER -> "failed"]
  /\ awake' = TRUE
  /\ UNCHANGED <<job, workVars, madeVars, diskVars, phase, crashes, history>>

\* only now the scheduler starts and requests are served
Serve ==
  /\ phase = "starting" /\ judging = {}
  /\ phase' = "serving"
  /\ UNCHANGED <<rowVars, workVars, madeVars, diskVars, judging, awake, crashes, history>>

Next ==
  \/ \E r \in Rows : \E j \in Jobs : Submit(r, j)
  \/ \E q, r \in Rows : Retry(q, r)
  \/ \E r \in Rows : Stop(r) \/ Delete(r) \/ Start(r) \/ Work(r) \/ Judge(r)
  \/ Crash \/ Restart \/ Serve

Spec == Init /\ [][Next]_vars

\* the start-up is one thread, from the service manager to the first request
StartUp == Restart \/ (\E r \in Rows : Judge(r)) \/ Serve

\* threads go on, and so does the start-up
FairSpec == Spec /\ (\A r \in Rows : WF_vars(Work(r))) /\ WF_vars(StartUp)

-----------------------------------------------------------------------------
(* Properties. *)

\* Every variable has its type, a row without a configuration is no row and has
\* no worker, and a worker that has not yet built everything has images left.
TypeOK ==
  /\ job \in [Rows -> Jobs \cup {None}] /\ status \in [Rows -> Statuses]
  /\ at \in [Rows -> Places] /\ left \in [Rows -> SUBSET Images]
  /\ snapshots \subseteq Jobs
  /\ local \in [Images -> Contents] /\ remote \in [Images -> Contents]
  /\ phase \in {"down", "starting", "serving"} /\ judging \subseteq Rows
  /\ awake \in BOOLEAN /\ crashes \in 0..MaxCrashes
  /\ found \in [Rows -> SUBSET Images] /\ made \in [Rows -> SUBSET Images]
  /\ unpushed \subseteq Rows
  /\ own \in [Rows -> Contents] /\ sent \in [Rows -> Contents]
  /\ shared \subseteq Rows
  /\ \A r \in Rows : job[r] = None <=> status[r] = "none"
  /\ \A r \in Working \cup judging : job[r] # None
  /\ \A r \in Rows : at[r] \in {"mark", "fetch", "push"} => left[r] # {}

\* When the worker of a build from sources writes completed, it has itself built the
\* image of every selected service that the sources it fetched have, and of one at
\* least, whatever attempt a restart cut off before; and it has itself pushed the
\* image when the whole was to be pushed, unless that push broke off with an
\* exception that is not taken for a refused login.
CompletedIsBuilt ==
  [][\A r \in RowsOf(Sources) :
       /\ at[r] # "none" /\ status[r] # "completed" /\ status'[r] = "completed"
       => /\ made[r] = found[r] /\ found[r] \in Staged(job[r])
          /\ Push[job[r]] \in {"global", "buildx"} => sent[r] # None \/ r \in unpushed]_vars

\* As long as a build of an uploaded workspace was not retried, the archive is
\* there until the build has unpacked it: the clean-up after the outcome never
\* takes it from a build that a restart puts back into the queue.
SnapshotHeld ==
  \A r \in RowsOf({"local"}) :
    /\ \A q \in Rows \ {r} : job[q] # job[r]
    /\ status[r] \in {"pending", "running"} /\ at[r] \in {"none", "mark", "fetch"}
    => job[r] \in snapshots

\* A running row holds a slot, so there is a worker that will give it back or
\* the recovery has still to judge the row.  (Uploads may end without a word.)
RunningIsServed ==
  phase # "down" =>
    \A r \in Running \ RowsOf({"upload"}) :
      at[r] \in Places \ {"none", "close"} \/ r \in judging

\* What a worker pushes or writes into its file is the image it has built or
\* pulled itself, although images are found by name: another contents gets in
\* only while two workers share a name.
SendsOwnImage ==
  \A r \in Rows \ shared : sent[r] \in {None, own[r]}

\* A row found running, before or after a crash, does not stay so: its worker
\* or the recovery brings it to an outcome or back into the queue.
RunningEnds ==
  \A r \in Rows : (status[r] = "running" /\ r \notin RowsOf({"upload"}))
                    ~> status[r] # "running"

=============================================================================
