------------------------- MODULE ImageBuildsProofs -------------------------
(***************************************************************************)
(* Proofs about ImageBuilds, for any rows, jobs, images, number of slots   *)
(* and of crashes.                                                         *)
(***************************************************************************)
EXTENDS ImageBuilds, TLAPS

USE KindAssumption, TargetsAssumption, BoundAssumption
    DEF KindAssumption, TargetsAssumption, BoundAssumption

-----------------------------------------------------------------------------
(* Type correctness. *)

\* The service whose turn it is, is one that is left.
LEMMA TurnIsLeft ==
  ASSUME NEW r \in Rows, left[r] # {}
  PROVE  Turn(r) \in left[r]
BY DEF Turn

\* Initially every variable has its type.
LEMMA InitTyped == Init => TypeOK
<1> SUFFICES ASSUME Init PROVE TypeOK
  OBVIOUS
<1>1. awake \in BOOLEAN
  BY DEF Init
<1>11. crashes \in 0..MaxCrashes
  BY DEF Init
<1>2. local \in [Images -> Contents] /\ remote \in [Images -> Contents]
  BY DEF Init, Contents
<1>3. own \in [Rows -> Contents] /\ sent \in [Rows -> Contents]
  BY DEF Init, Contents
<1>4. \A r \in Working \cup judging : job[r] # None
  BY DEF Init, Working
<1>5. job \in [Rows -> Jobs \cup {None}] /\ status \in [Rows -> Statuses]
  BY DEF Init, Statuses
<1>6. at \in [Rows -> Places]
  BY DEF Init, Places
<1>7. /\ left \in [Rows -> SUBSET Images] /\ made \in [Rows -> SUBSET Images]
      /\ found \in [Rows -> SUBSET Images] /\ unpushed \subseteq Rows
  BY DEF Init
<1>8. \A r \in Rows : job[r] = None <=> status[r] = "none"
  BY DEF Init
<1>9. \A r \in Rows : at[r] \in {"mark", "fetch", "push"} => left[r] # {}
  BY DEF Init
<1>10. /\ snapshots \subseteq Jobs /\ judging \subseteq Rows
       /\ phase \in {"down", "starting", "serving"}
       /\ shared \subseteq Rows
  BY DEF Init
<1> QED
  BY <1>1, <1>2, <1>3, <1>4, <1>5, <1>6, <1>7, <1>8, <1>9, <1>10, <1>11
  DEF TypeOK

\* A request of a user keeps the types.
LEMMA RequestTyped ==
  ASSUME TypeOK, NEW r \in Rows,
         \/ \E j \in Jobs : Submit(r, j)
         \/ \E q \in Rows : Retry(q, r)
         \/ Stop(r) \/ Delete(r)
  PROVE  TypeOK'
<1> USE DEF TypeOK, Statuses, Places, Contents, rowVars, workVars, madeVars, diskVars,
            runVars, history, Working
<1>1. CASE \E j \in Jobs : Submit(r, j)
  BY <1>1 DEF Submit
<1>2. CASE \E q \in Rows : Retry(q, r)
  BY <1>2 DEF Retry, RowsOf
<1>3. CASE Stop(r)
  BY <1>3 DEF Stop
<1>4. CASE Delete(r)
  BY <1>4 DEF Delete
<1> QED BY <1>1, <1>2, <1>3, <1>4

\* The start of a worker keeps the types.
LEMMA StartTyped ==
  ASSUME TypeOK, NEW r \in Rows, Start(r)
  PROVE  TypeOK'
BY DEF Start, TypeOK, Statuses, Places, Contents, rowVars, workVars, madeVars, diskVars,
       runVars, history, Working

\* A step of a worker keeps the types.
LEMMA WorkTyped ==
  ASSUME TypeOK, NEW r \in Rows, Work(r)
  PROVE  TypeOK'
<1> USE DEF TypeOK, Statuses, Places, Contents, rowVars, workVars, madeVars, diskVars,
            runVars, history, Working
<1>1. CASE Begin(r)
  BY <1>1 DEF Begin, Goes
<1>2. CASE FetchSources(r)
  BY <1>2 DEF FetchSources, Staged, RowsOf
<1>3. CASE BuildImage(r)
  <2>1. Turn(r) \in Images
    BY <1>3, TurnIsLeft DEF BuildImage
  <2>2. /\ local' \in [Images -> Contents] /\ remote' \in [Images -> Contents]
        /\ sent' \in [Rows -> Contents] /\ own' \in [Rows -> Contents]
        /\ made' \in [Rows -> SUBSET Images]
    BY <1>3, <2>1 DEF BuildImage
  <2>3. at' \in [Rows -> Places] /\ left' \in [Rows -> SUBSET Images]
    <3>1. CASE Goes(r, "push")
      BY <3>1 DEF Goes
    <3>2. CASE Done(r) /\ UNCHANGED at
      BY <3>2 DEF Done
    <3> QED BY <1>3, <3>1, <3>2 DEF BuildImage
  <2>5. \A q \in Rows : at'[q] \in {"mark", "fetch", "push"} => left'[q] # {}
    <3>1. CASE Goes(r, "push")
      BY <1>3, <3>1 DEF BuildImage, Goes
    <3>2. CASE Done(r) /\ UNCHANGED at
      BY <1>3, <3>2 DEF BuildImage, Done
    <3> QED BY <1>3, <3>1, <3>2 DEF BuildImage
  <2>4. \A q \in Working' \cup judging' : job'[q] # None
    BY <1>3 DEF BuildImage, Goes, Done
  <2> QED BY <1>3, <2>2, <2>3, <2>4, <2>5 DEF BuildImage
<1>4. CASE PushImage(r)
  <2>1. Turn(r) \in Images
    BY <1>4, TurnIsLeft DEF PushImage
  <2> QED BY <1>4, <2>1 DEF PushImage, Done
<1>5. CASE SkipPush(r)
  BY <1>5 DEF SkipPush, Done
<1>6. CASE FetchImage(r)
  <2>1. Turn(r) \in Images
    BY <1>6, TurnIsLeft DEF FetchImage
  <2> QED BY <1>6, <2>1 DEF FetchImage, Goes
<1>7. CASE Save(r)
  <2>1. Turn(r) \in Images
    BY <1>7, TurnIsLeft DEF Save
  <2> QED BY <1>7, <2>1 DEF Save, Done, Outcome
<1>8. CASE Complete(r)
  BY <1>8 DEF Complete, Goes, Outcome
<1>9. CASE Fail(r)
  BY <1>9 DEF Fail, Goes, Outcome
<1>10. CASE Quit(r)
  BY <1>10 DEF Quit, Leave, Goes
<1>11. CASE Close(r)
  BY <1>11 DEF Close, Leave, Goes
<1> QED
  BY <1>1, <1>2, <1>3, <1>4, <1>5, <1>6, <1>7, <1>8, <1>9, <1>10, <1>11 DEF Work

\* A crash and every step of the start-up keep the types.
LEMMA ServerTyped ==
  ASSUME TypeOK,
         Crash \/ Restart \/ Serve \/ \E r \in Rows : Judge(r)
  PROVE  TypeOK'
<1> USE DEF TypeOK, Statuses, Places, Contents, rowVars, workVars, madeVars, diskVars,
            runVars, history, Working
<1>1. CASE Crash
  <2>1. awake' \in BOOLEAN
    BY <1>1 DEF Crash
  <2>6. crashes' \in 0..MaxCrashes
    BY <1>1 DEF Crash
  <2>2. (\A r \in Working \cup judging : job[r] # None)'
    BY <1>1 DEF Crash
  <2>3. (\A r \in Rows : at[r] \in {"mark", "fetch", "push"} => left[r] # {})'
    BY <1>1 DEF Crash
  <2>4. (at \in [Rows -> Places] /\ left \in [Rows -> SUBSET Images])'
    BY <1>1 DEF Crash
  <2>5. (judging \subseteq Rows /\ phase \in {"down", "starting", "serving"})'
    BY <1>1 DEF Crash
  <2> QED BY <1>1, <2>1, <2>2, <2>3, <2>4, <2>5, <2>6 DEF Crash
<1>2. CASE Restart
  BY <1>2 DEF Restart, Running, RowsOf
<1>3. CASE Serve
  BY <1>3 DEF Serve
<1>4. CASE \E r \in Rows : Judge(r)
  BY <1>4 DEF Judge
<1> QED BY <1>1, <1>2, <1>3, <1>4

\* Every step keeps the types.
LEMMA TypedStep ==
  ASSUME TypeOK, [Next]_vars
  PROVE  TypeOK'
<1>1. CASE UNCHANGED vars
  BY <1>1 DEF TypeOK, vars, rowVars, workVars, madeVars, diskVars, runVars, history, Working
<1>2. CASE Next
  BY <1>2, RequestTyped, StartTyped, WorkTyped, ServerTyped DEF Next
<1> QED BY <1>1, <1>2

\* Every variable has its type in every reachable state (TypeOK).
THEOREM TypeCorrect == Spec => []TypeOK
BY InitTyped, TypedStep, PTL DEF Spec

-----------------------------------------------------------------------------
(* The server and its rows. *)

\* Only a starting server has rows to judge; they run without a worker, and no
\* thread outlives the server.  A row that waits has no worker, and a worker
\* that has only to clean up has left a row that neither waits nor runs.
ServerInv ==
  /\ phase # "starting" => judging = {}
  /\ phase = "down" => \A r \in Rows : at[r] = "none"
  /\ \A r \in judging : status[r] = "running" /\ at[r] = "none"
  /\ \A r \in Rows : status[r] = "pending" => at[r] = "none"
  /\ \A r \in Rows : at[r] = "close" => status[r] \notin {"pending", "running"}

\* Every step keeps ServerInv.
LEMMA ServerStep ==
  ASSUME TypeOK, ServerInv, [Next]_vars
  PROVE  ServerInv'
<1> USE DEF TypeOK, ServerInv, Statuses, Places, rowVars, workVars, madeVars, diskVars, runVars,
           history, RowsOf, Sources, Working
<1>1. ASSUME NEW r \in Rows, \E j \in Jobs : Submit(r, j) PROVE ServerInv'
  BY <1>1 DEF Submit
<1>2. ASSUME NEW r \in Rows, \E q \in Rows : Retry(q, r) PROVE ServerInv'
  BY <1>2 DEF Retry
<1>3. ASSUME NEW r \in Rows, Stop(r) PROVE ServerInv'
  BY <1>3 DEF Stop
<1>4. ASSUME NEW r \in Rows, Delete(r) PROVE ServerInv'
  BY <1>4 DEF Delete
<1>5. ASSUME NEW r \in Rows, Start(r) PROVE ServerInv'
  BY <1>5 DEF Start, Running
<1>6. ASSUME NEW r \in Rows, Begin(r) PROVE ServerInv'
  BY <1>6 DEF Begin, Goes
<1>7. ASSUME NEW r \in Rows, FetchSources(r) PROVE ServerInv'
  BY <1>7 DEF FetchSources, Staged
<1>8. ASSUME NEW r \in Rows, BuildImage(r) PROVE ServerInv'
  BY <1>8 DEF BuildImage, Goes, Done
<1>9. ASSUME NEW r \in Rows, PushImage(r) PROVE ServerInv'
  BY <1>9 DEF PushImage, Done
<1>10. ASSUME NEW r \in Rows, SkipPush(r) PROVE ServerInv'
  BY <1>10 DEF SkipPush, Done
<1>11. ASSUME NEW r \in Rows, FetchImage(r) PROVE ServerInv'
  BY <1>11 DEF FetchImage, Goes
<1>12. ASSUME NEW r \in Rows, Save(r) PROVE ServerInv'
  BY <1>12 DEF Save, Done, Outcome
<1>13. ASSUME NEW r \in Rows, Complete(r) PROVE ServerInv'
  BY <1>13 DEF Complete, Goes, Outcome
<1>14. ASSUME NEW r \in Rows, Fail(r) PROVE ServerInv'
  BY <1>14 DEF Fail, Goes, Outcome
<1>15. ASSUME NEW r \in Rows, Quit(r) PROVE ServerInv'
  BY <1>15 DEF Quit, Leave, Goes
<1>16. ASSUME NEW r \in Rows, Close(r) PROVE ServerInv'
  BY <1>16 DEF Close, Leave, Goes
<1>17. ASSUME NEW r \in Rows, Judge(r) PROVE ServerInv'
  BY <1>17 DEF Judge
<1>18. CASE Crash
  BY <1>18 DEF Crash
<1>19. CASE Restart
  BY <1>19 DEF Restart, Running
<1>20. CASE Serve
  BY <1>20 DEF Serve
<1>21. CASE UNCHANGED vars
  BY <1>21 DEF vars
<1> QED
  BY <1>1, <1>2, <1>3, <1>4, <1>5, <1>6, <1>7, <1>8, <1>9, <1>10, <1>11,
     <1>12, <1>13, <1>14, <1>15, <1>16, <1>17, <1>18, <1>19, <1>20, <1>21 DEF Next, Work

\* Every step keeps RunningIsServed: the outcome is written before the worker
\* goes, and a restart judges every row the crash has left running.
LEMMA ServedStep ==
  ASSUME TypeOK, ServerInv, RunningIsServed, [Next]_vars
  PROVE  RunningIsServed'
<1> USE DEF TypeOK, ServerInv, Statuses, Places, rowVars, workVars, madeVars, diskVars, runVars,
           history, RowsOf, Sources, Running, RunningIsServed
<1>1. ASSUME NEW r \in Rows, \E j \in Jobs : Submit(r, j) PROVE RunningIsServed'
  BY <1>1 DEF Submit
<1>2. ASSUME NEW r \in Rows, \E q \in Rows : Retry(q, r) PROVE RunningIsServed'
  BY <1>2 DEF Retry
<1>3. ASSUME NEW r \in Rows, Stop(r) PROVE RunningIsServed'
  BY <1>3 DEF Stop
<1>4. ASSUME NEW r \in Rows, Delete(r) PROVE RunningIsServed'
  BY <1>4 DEF Delete
<1>5. ASSUME NEW r \in Rows, Start(r) PROVE RunningIsServed'
  BY <1>5 DEF Start, Running
<1>6. ASSUME NEW r \in Rows, Begin(r) PROVE RunningIsServed'
  BY <1>6 DEF Begin, Goes
<1>7. ASSUME NEW r \in Rows, FetchSources(r) PROVE RunningIsServed'
  BY <1>7 DEF FetchSources, Staged
<1>8. ASSUME NEW r \in Rows, BuildImage(r) PROVE RunningIsServed'
  BY <1>8 DEF BuildImage, Goes, Done
<1>9. ASSUME NEW r \in Rows, PushImage(r) PROVE RunningIsServed'
  BY <1>9 DEF PushImage, Done
<1>10. ASSUME NEW r \in Rows, SkipPush(r) PROVE RunningIsServed'
  BY <1>10 DEF SkipPush, Done
<1>11. ASSUME NEW r \in Rows, FetchImage(r) PROVE RunningIsServed'
  BY <1>11 DEF FetchImage, Goes
<1>12. ASSUME NEW r \in Rows, Save(r) PROVE RunningIsServed'
  BY <1>12 DEF Save, Done, Outcome
<1>13. ASSUME NEW r \in Rows, Complete(r) PROVE RunningIsServed'
  BY <1>13 DEF Complete, Goes, Outcome
<1>14. ASSUME NEW r \in Rows, Fail(r) PROVE RunningIsServed'
  BY <1>14 DEF Fail, Goes, Outcome
<1>15. ASSUME NEW r \in Rows, Quit(r) PROVE RunningIsServed'
  BY <1>15 DEF Quit, Leave, Goes
<1>16. ASSUME NEW r \in Rows, Close(r) PROVE RunningIsServed'
  BY <1>16 DEF Close, Leave, Goes
<1>17. ASSUME NEW r \in Rows, Judge(r) PROVE RunningIsServed'
  BY <1>17 DEF Judge
<1>18. CASE Crash
  BY <1>18 DEF Crash
<1>19. CASE Restart
  BY <1>19 DEF Restart, Running
<1>20. CASE Serve
  BY <1>20 DEF Serve
<1>21. CASE UNCHANGED vars
  BY <1>21 DEF vars
<1> QED
  BY <1>1, <1>2, <1>3, <1>4, <1>5, <1>6, <1>7, <1>8, <1>9, <1>10, <1>11,
     <1>12, <1>13, <1>14, <1>15, <1>16, <1>17, <1>18, <1>19, <1>20, <1>21 DEF Next, Work

-----------------------------------------------------------------------------
(* The archives of uploaded workspaces. *)

\* The only row of an uploaded workspace finds the archive as long as it waits,
\* runs or has a worker that has not come to its clean-up.
ArchiveInv ==
  \A r \in RowsOf({"local"}) :
    /\ \A q \in Rows \ {r} : job[q] # job[r]
    /\ status[r] \in {"pending", "running"} \/ at[r] \notin {"none", "close"}
    => job[r] \in snapshots

\* Every step keeps ArchiveInv.
LEMMA ArchiveStep ==
  ASSUME TypeOK, ServerInv, ArchiveInv, [Next]_vars
  PROVE  ArchiveInv'
<1> USE DEF TypeOK, ServerInv, Statuses, Places, rowVars, workVars, madeVars, diskVars, runVars,
           history, RowsOf, Sources, ArchiveInv, Working
<1>1. ASSUME NEW r \in Rows, \E j \in Jobs : Submit(r, j) PROVE ArchiveInv'
  BY <1>1 DEF Submit
<1>2. ASSUME NEW r \in Rows, \E q \in Rows : Retry(q, r) PROVE ArchiveInv'
  BY <1>2 DEF Retry
<1>3. ASSUME NEW r \in Rows, Stop(r) PROVE ArchiveInv'
  BY <1>3 DEF Stop
<1>4. ASSUME NEW r \in Rows, Delete(r) PROVE ArchiveInv'
  BY <1>4 DEF Delete
<1>5. ASSUME NEW r \in Rows, Start(r) PROVE ArchiveInv'
  BY <1>5 DEF Start, Running
<1>6. ASSUME NEW r \in Rows, Begin(r) PROVE ArchiveInv'
  BY <1>6 DEF Begin, Goes
<1>7. ASSUME NEW r \in Rows, FetchSources(r) PROVE ArchiveInv'
  BY <1>7 DEF FetchSources, Staged
<1>8. ASSUME NEW r \in Rows, BuildImage(r) PROVE ArchiveInv'
  BY <1>8 DEF BuildImage, Goes, Done
<1>9. ASSUME NEW r \in Rows, PushImage(r) PROVE ArchiveInv'
  BY <1>9 DEF PushImage, Done
<1>10. ASSUME NEW r \in Rows, SkipPush(r) PROVE ArchiveInv'
  BY <1>10 DEF SkipPush, Done
<1>11. ASSUME NEW r \in Rows, FetchImage(r) PROVE ArchiveInv'
  BY <1>11 DEF FetchImage, Goes
<1>12. ASSUME NEW r \in Rows, Save(r) PROVE ArchiveInv'
  BY <1>12 DEF Save, Done, Outcome
<1>13. ASSUME NEW r \in Rows, Complete(r) PROVE ArchiveInv'
  BY <1>13 DEF Complete, Goes, Outcome
<1>14. ASSUME NEW r \in Rows, Fail(r) PROVE ArchiveInv'
  BY <1>14 DEF Fail, Goes, Outcome
<1>15. ASSUME NEW r \in Rows, Quit(r) PROVE ArchiveInv'
  BY <1>15 DEF Quit, Leave, Goes
<1>16. ASSUME NEW r \in Rows, Close(r) PROVE ArchiveInv'
  BY <1>16 DEF Close, Leave, Goes
<1>17. ASSUME NEW r \in Rows, Judge(r) PROVE ArchiveInv'
  BY <1>17 DEF Judge
<1>18. CASE Crash
  BY <1>18 DEF Crash
<1>19. CASE Restart
  BY <1>19 DEF Restart, Running
<1>20. CASE Serve
  BY <1>20 DEF Serve
<1>21. CASE UNCHANGED vars
  BY <1>21 DEF vars
<1> QED
  BY <1>1, <1>2, <1>3, <1>4, <1>5, <1>6, <1>7, <1>8, <1>9, <1>10, <1>11,
     <1>12, <1>13, <1>14, <1>15, <1>16, <1>17, <1>18, <1>19, <1>20, <1>21 DEF Next, Work

-----------------------------------------------------------------------------
(* The images that leave the machine. *)

Near(q, r) == Targets[job[q]] \cap Targets[job[r]] # {}

\* What a worker has still to do is part of what its row is about; an export
\* builds nothing, and its file is the last thing it has to do with images.
WorkInv ==
  /\ \A r \in Working : left[r] \subseteq Targets[job[r]]
  /\ \A r \in RowsOf({"export"}) : at[r] \notin {"build", "close"}
  /\ \A r \in RowsOf({"export"}) :
       sent[r] # None => at[r] = "none" /\ status[r] \in {"completed", "gone"}
  /\ \A r \in Rows : job[r] = None => own[r] = None /\ sent[r] = None
  /\ \A r \in Rows \ RowsOf({"export"}) : own[r] \in {None, r}

\* Two workers that share a name are both noted, and a worker that is alone
\* with its names finds, when it pushes or saves, what it has put there.
NameInv ==
  /\ \A q, r \in Working : q # r /\ Near(q, r) => r \in shared
  /\ \A r \in Rows \ shared : at[r] = "push" => local[Turn(r)] = own[r]

\* Every step keeps WorkInv.
LEMMA WorkStep ==
  ASSUME TypeOK, ServerInv, WorkInv, [Next]_vars
  PROVE  WorkInv'
<1> USE DEF TypeOK, ServerInv, Statuses, Places, rowVars, workVars, madeVars, diskVars, runVars,
           history, RowsOf, Sources, Working, WorkInv
<1>1. ASSUME NEW r \in Rows, \E j \in Jobs : Submit(r, j) PROVE WorkInv'
  BY <1>1 DEF Submit
<1>2. ASSUME NEW r \in Rows, \E q \in Rows : Retry(q, r) PROVE WorkInv'
  BY <1>2 DEF Retry
<1>3. ASSUME NEW r \in Rows, Stop(r) PROVE WorkInv'
  BY <1>3 DEF Stop
<1>4. ASSUME NEW r \in Rows, Delete(r) PROVE WorkInv'
  BY <1>4 DEF Delete
<1>5. ASSUME NEW r \in Rows, Start(r) PROVE WorkInv'
  BY <1>5 DEF Start, Running
<1>6. ASSUME NEW r \in Rows, Begin(r) PROVE WorkInv'
  BY <1>6 DEF Begin, Goes
<1>7. ASSUME NEW r \in Rows, FetchSources(r) PROVE WorkInv'
  BY <1>7 DEF FetchSources, Staged
<1>8. ASSUME NEW r \in Rows, BuildImage(r) PROVE WorkInv'
  BY <1>8 DEF BuildImage, Goes, Done
<1>9. ASSUME NEW r \in Rows, PushImage(r) PROVE WorkInv'
  BY <1>9 DEF PushImage, Done
<1>10. ASSUME NEW r \in Rows, SkipPush(r) PROVE WorkInv'
  BY <1>10 DEF SkipPush, Done
<1>11. ASSUME NEW r \in Rows, FetchImage(r) PROVE WorkInv'
  BY <1>11 DEF FetchImage, Goes
<1>12. ASSUME NEW r \in Rows, Save(r) PROVE WorkInv'
  BY <1>12 DEF Save, Done, Outcome
<1>13. ASSUME NEW r \in Rows, Complete(r) PROVE WorkInv'
  BY <1>13 DEF Complete, Goes, Outcome
<1>14. ASSUME NEW r \in Rows, Fail(r) PROVE WorkInv'
  BY <1>14 DEF Fail, Goes, Outcome
<1>15. ASSUME NEW r \in Rows, Quit(r) PROVE WorkInv'
  BY <1>15 DEF Quit, Leave, Goes
<1>16. ASSUME NEW r \in Rows, Close(r) PROVE WorkInv'
  BY <1>16 DEF Close, Leave, Goes
<1>17. ASSUME NEW r \in Rows, Judge(r) PROVE WorkInv'
  BY <1>17 DEF Judge
<1>18. CASE Crash
  BY <1>18 DEF Crash
<1>19. CASE Restart
  BY <1>19 DEF Restart, Running
<1>20. CASE Serve
  BY <1>20 DEF Serve
<1>21. CASE UNCHANGED vars
  BY <1>21 DEF vars
<1> QED
  BY <1>1, <1>2, <1>3, <1>4, <1>5, <1>6, <1>7, <1>8, <1>9, <1>10, <1>11,
     <1>12, <1>13, <1>14, <1>15, <1>16, <1>17, <1>18, <1>19, <1>20, <1>21 DEF Next, Work

\* Every step keeps NameInv: only a worker near r touches the image of r.
LEMMA NameStep ==
  ASSUME TypeOK, ServerInv, WorkInv, NameInv, [Next]_vars
  PROVE  NameInv'
<1> USE DEF TypeOK, ServerInv, Statuses, Places, rowVars, workVars, madeVars, diskVars, runVars,
           history, RowsOf, Sources, Working, WorkInv, NameInv
<1>1. ASSUME NEW r \in Rows, \E j \in Jobs : Submit(r, j) PROVE NameInv'
  <2>1. \A q \in Rows : at'[q] = "push" => at[q] = "push" /\ left'[q] = left[q]
    BY <1>1 DEF Submit
  <2>2. \A q \in Rows : at'[q] = "push" => Turn(q)' = Turn(q)
    BY <2>1 DEF Turn
  <2>3. (\A q \in Rows \ shared : at[q] = "push" => local[Turn(q)] = own[q])'
    BY <1>1, <2>1, <2>2 DEF Submit
  <2>4. (\A p, q \in Working : p # q /\ Near(p, q) => q \in shared)'
    BY <1>1 DEF Submit, Near
  <2> QED BY <2>3, <2>4
<1>2. ASSUME NEW r \in Rows, \E q \in Rows : Retry(q, r) PROVE NameInv'
  <2>1. \A q \in Rows : at'[q] = "push" => at[q] = "push" /\ left'[q] = left[q]
    BY <1>2 DEF Retry
  <2>2. \A q \in Rows : at'[q] = "push" => Turn(q)' = Turn(q)
    BY <2>1 DEF Turn
  <2>3. (\A q \in Rows \ shared : at[q] = "push" => local[Turn(q)] = own[q])'
    BY <1>2, <2>1, <2>2 DEF Retry
  <2>4. (\A p, q \in Working : p # q /\ Near(p, q) => q \in shared)'
    BY <1>2 DEF Retry, Near
  <2> QED BY <2>3, <2>4
<1>3. ASSUME NEW r \in Rows, Stop(r) PROVE NameInv'
  <2>1. \A q \in Rows : at'[q] = "push" => at[q] = "push" /\ left'[q] = left[q]
    BY <1>3 DEF Stop
  <2>2. \A q \in Rows : at'[q] = "push" => Turn(q)' = Turn(q)
    BY <2>1 DEF Turn
  <2>3. (\A q \in Rows \ shared : at[q] = "push" => local[Turn(q)] = own[q])'
    BY <1>3, <2>1, <2>2 DEF Stop
  <2>4. (\A p, q \in Working : p # q /\ Near(p, q) => q \in shared)'
    BY <1>3 DEF Stop, Near
  <2> QED BY <2>3, <2>4
<1>4. ASSUME NEW r \in Rows, Delete(r) PROVE NameInv'
  <2>1. \A q \in Rows : at'[q] = "push" => at[q] = "push" /\ left'[q] = left[q]
    BY <1>4 DEF Delete
  <2>2. \A q \in Rows : at'[q] = "push" => Turn(q)' = Turn(q)
    BY <2>1 DEF Turn
  <2>3. (\A q \in Rows \ shared : at[q] = "push" => local[Turn(q)] = own[q])'
    BY <1>4, <2>1, <2>2 DEF Delete
  <2>4. (\A p, q \in Working : p # q /\ Near(p, q) => q \in shared)'
    BY <1>4 DEF Delete, Near
  <2> QED BY <2>3, <2>4
<1>5. ASSUME NEW r \in Rows, Start(r) PROVE NameInv'
  <2>1. \A q \in Rows : at'[q] = "push" => at[q] = "push" /\ left'[q] = left[q]
    BY <1>5 DEF Start, Running
  <2>2. \A q \in Rows : at'[q] = "push" => Turn(q)' = Turn(q)
    BY <2>1 DEF Turn
  <2>3. (\A q \in Rows \ shared : at[q] = "push" => local[Turn(q)] = own[q])'
    BY <1>5, <2>1, <2>2 DEF Start, Running
  <2>4. (\A p, q \in Working : p # q /\ Near(p, q) => q \in shared)'
    BY <1>5 DEF Start, Running, Near
  <2> QED BY <2>3, <2>4
<1>6. ASSUME NEW r \in Rows, Begin(r) PROVE NameInv'
  <2>1. \A q \in Rows : at'[q] = "push" => at[q] = "push" /\ left'[q] = left[q]
    BY <1>6 DEF Begin, Goes
  <2>2. \A q \in Rows : at'[q] = "push" => Turn(q)' = Turn(q)
    BY <2>1 DEF Turn
  <2>3. (\A q \in Rows \ shared : at[q] = "push" => local[Turn(q)] = own[q])'
    BY <1>6, <2>1, <2>2 DEF Begin, Goes
  <2>4. (\A p, q \in Working : p # q /\ Near(p, q) => q \in shared)'
    BY <1>6 DEF Begin, Goes, Near
  <2> QED BY <2>3, <2>4
<1>7. ASSUME NEW r \in Rows, FetchSources(r) PROVE NameInv'
  <2>1. \A q \in Rows : at'[q] = "push" => at[q] = "push" /\ left'[q] = left[q]
    BY <1>7 DEF FetchSources, Staged
  <2>2. \A q \in Rows : at'[q] = "push" => Turn(q)' = Turn(q)
    BY <2>1 DEF Turn
  <2>3. (\A q \in Rows \ shared : at[q] = "push" => local[Turn(q)] = own[q])'
    BY <1>7, <2>1, <2>2 DEF FetchSources, Staged
  <2>4. (\A p, q \in Working : p # q /\ Near(p, q) => q \in shared)'
    BY <1>7 DEF FetchSources, Staged, Near
  <2> QED BY <2>3, <2>4
<1>8. ASSUME NEW r \in Rows, BuildImage(r) PROVE NameInv'
  <2>1. Turn(r) \in Images /\ Turn(r) \in Targets[job[r]]
    BY <1>8, TurnIsLeft, TypeOK DEF BuildImage, Goes, Done
  <2>2. \A q \in Rows \ {r} : left'[q] = left[q]
    BY <1>8 DEF BuildImage, Goes, Done
  <2>3. \A q \in Rows \ shared : q # r /\ at[q] = "push" => Turn(q) # Turn(r)
    BY <1>8, TurnIsLeft DEF BuildImage, Goes, Done, Near
  <2>4. ASSUME NEW q \in Rows \ shared', at'[q] = "push"
        PROVE  local'[Turn(q)'] = own'[q]
    <3>1. CASE q # r
      <4>1. Turn(q)' = Turn(q)
        BY <2>2, <3>1 DEF Turn
      <4>2. Turn(q) # Turn(r) /\ local[Turn(q)] = own[q]
        BY <1>8, <2>3, <2>4, <3>1 DEF BuildImage, Goes, Done
      <4>3. at[q] = "push" /\ Turn(q) \in Images
        BY <1>8, <2>4, <3>1, TurnIsLeft DEF BuildImage, Goes, Done
      <4>4. local'[Turn(q)] = local[Turn(q)] /\ own'[q] = own[q]
        BY <1>8, <3>1, <4>2, <4>3 DEF BuildImage, Goes, Done
      <4> QED BY <4>1, <4>2, <4>4
    <3>2. CASE q = r
      <4>1. left'[r] = left[r]
        BY <1>8, <2>4, <3>2 DEF BuildImage, Goes, Done
      <4>2. Turn(r)' = Turn(r)
        BY <4>1 DEF Turn
      <4> QED BY <1>8, <2>1, <2>4, <3>2, <4>2 DEF BuildImage, Goes, Done
    <3> QED BY <3>1, <3>2
  <2>5. (\A p, q \in Working : p # q /\ Near(p, q) => q \in shared)'
    BY <1>8 DEF BuildImage, Goes, Done, Near
  <2> QED BY <2>4, <2>5
<1>9. ASSUME NEW r \in Rows, PushImage(r) PROVE NameInv'
  <2>1. \A q \in Rows : at'[q] = "push" => at[q] = "push" /\ left'[q] = left[q]
    BY <1>9 DEF PushImage, Done
  <2>2. \A q \in Rows : at'[q] = "push" => Turn(q)' = Turn(q)
    BY <2>1 DEF Turn
  <2>3. (\A q \in Rows \ shared : at[q] = "push" => local[Turn(q)] = own[q])'
    BY <1>9, <2>1, <2>2 DEF PushImage, Done
  <2>4. (\A p, q \in Working : p # q /\ Near(p, q) => q \in shared)'
    BY <1>9 DEF PushImage, Done, Near
  <2> QED BY <2>3, <2>4
<1>10. ASSUME NEW r \in Rows, SkipPush(r) PROVE NameInv'
  <2>1. \A q \in Rows : at'[q] = "push" => at[q] = "push" /\ left'[q] = left[q]
    BY <1>10 DEF SkipPush, Done
  <2>2. \A q \in Rows : at'[q] = "push" => Turn(q)' = Turn(q)
    BY <2>1 DEF Turn
  <2>3. (\A q \in Rows \ shared : at[q] = "push" => local[Turn(q)] = own[q])'
    BY <1>10, <2>1, <2>2 DEF SkipPush, Done
  <2>4. (\A p, q \in Working : p # q /\ Near(p, q) => q \in shared)'
    BY <1>10 DEF SkipPush, Done, Near
  <2> QED BY <2>3, <2>4
<1>11. ASSUME NEW r \in Rows, FetchImage(r) PROVE NameInv'
  <2>1. Turn(r) \in Images /\ Turn(r) \in Targets[job[r]]
    BY <1>11, TurnIsLeft, TypeOK DEF FetchImage, Goes
  <2>2. \A q \in Rows \ {r} : left'[q] = left[q]
    BY <1>11 DEF FetchImage, Goes
  <2>3. \A q \in Rows \ shared : q # r /\ at[q] = "push" => Turn(q) # Turn(r)
    BY <1>11, TurnIsLeft DEF FetchImage, Goes, Near
  <2>4. ASSUME NEW q \in Rows \ shared', at'[q] = "push"
        PROVE  local'[Turn(q)'] = own'[q]
    <3>1. CASE q # r
      <4>1. Turn(q)' = Turn(q)
        BY <2>2, <3>1 DEF Turn
      <4>2. Turn(q) # Turn(r) /\ local[Turn(q)] = own[q]
        BY <1>11, <2>3, <2>4, <3>1 DEF FetchImage, Goes
      <4>3. at[q] = "push" /\ Turn(q) \in Images
        BY <1>11, <2>4, <3>1, TurnIsLeft DEF FetchImage, Goes
      <4>4. local'[Turn(q)] = local[Turn(q)] /\ own'[q] = own[q]
        BY <1>11, <3>1, <4>2, <4>3 DEF FetchImage, Goes
      <4> QED BY <4>1, <4>2, <4>4
    <3>2. CASE q = r
      <4>1. left'[r] = left[r]
        BY <1>11, <2>4, <3>2 DEF FetchImage, Goes
      <4>2. Turn(r)' = Turn(r)
        BY <4>1 DEF Turn
      <4> QED BY <1>11, <2>1, <2>4, <3>2, <4>2 DEF FetchImage, Goes
    <3> QED BY <3>1, <3>2
  <2>5. (\A p, q \in Working : p # q /\ Near(p, q) => q \in shared)'
    BY <1>11 DEF FetchImage, Goes, Near
  <2> QED BY <2>4, <2>5
<1>12. ASSUME NEW r \in Rows, Save(r) PROVE NameInv'
  <2>1. \A q \in Rows : at'[q] = "push" => at[q] = "push" /\ left'[q] = left[q]
    BY <1>12 DEF Save, Done, Outcome
  <2>2. \A q \in Rows : at'[q] = "push" => Turn(q)' = Turn(q)
    BY <2>1 DEF Turn
  <2>3. (\A q \in Rows \ shared : at[q] = "push" => local[Turn(q)] = own[q])'
    BY <1>12, <2>1, <2>2 DEF Save, Done, Outcome
  <2>4. (\A p, q \in Working : p # q /\ Near(p, q) => q \in shared)'
    BY <1>12 DEF Save, Done, Outcome, Near
  <2> QED BY <2>3, <2>4
<1>13. ASSUME NEW r \in Rows, Complete(r) PROVE NameInv'
  <2>1. \A q \in Rows : at'[q] = "push" => at[q] = "push" /\ left'[q] = left[q]
    BY <1>13 DEF Complete, Goes, Outcome
  <2>2. \A q \in Rows : at'[q] = "push" => Turn(q)' = Turn(q)
    BY <2>1 DEF Turn
  <2>3. (\A q \in Rows \ shared : at[q] = "push" => local[Turn(q)] = own[q])'
    BY <1>13, <2>1, <2>2 DEF Complete, Goes, Outcome
  <2>4. (\A p, q \in Working : p # q /\ Near(p, q) => q \in shared)'
    BY <1>13 DEF Complete, Goes, Outcome, Near
  <2> QED BY <2>3, <2>4
<1>14. ASSUME NEW r \in Rows, Fail(r) PROVE NameInv'
  <2>1. \A q \in Rows : at'[q] = "push" => at[q] = "push" /\ left'[q] = left[q]
    BY <1>14 DEF Fail, Goes, Outcome
  <2>2. \A q \in Rows : at'[q] = "push" => Turn(q)' = Turn(q)
    BY <2>1 DEF Turn
  <2>3. (\A q \in Rows \ shared : at[q] = "push" => local[Turn(q)] = own[q])'
    BY <1>14, <2>1, <2>2 DEF Fail, Goes, Outcome
  <2>4. (\A p, q \in Working : p # q /\ Near(p, q) => q \in shared)'
    BY <1>14 DEF Fail, Goes, Outcome, Near
  <2> QED BY <2>3, <2>4
<1>15. ASSUME NEW r \in Rows, Quit(r) PROVE NameInv'
  <2>1. \A q \in Rows : at'[q] = "push" => at[q] = "push" /\ left'[q] = left[q]
    BY <1>15 DEF Quit, Leave, Goes
  <2>2. \A q \in Rows : at'[q] = "push" => Turn(q)' = Turn(q)
    BY <2>1 DEF Turn
  <2>3. (\A q \in Rows \ shared : at[q] = "push" => local[Turn(q)] = own[q])'
    BY <1>15, <2>1, <2>2 DEF Quit, Leave, Goes
  <2>4. (\A p, q \in Working : p # q /\ Near(p, q) => q \in shared)'
    BY <1>15 DEF Quit, Leave, Goes, Near
  <2> QED BY <2>3, <2>4
<1>16. ASSUME NEW r \in Rows, Close(r) PROVE NameInv'
  <2>1. \A q \in Rows : at'[q] = "push" => at[q] = "push" /\ left'[q] = left[q]
    BY <1>16 DEF Close, Leave, Goes
  <2>2. \A q \in Rows : at'[q] = "push" => Turn(q)' = Turn(q)
    BY <2>1 DEF Turn
  <2>3. (\A q \in Rows \ shared : at[q] = "push" => local[Turn(q)] = own[q])'
    BY <1>16, <2>1, <2>2 DEF Close, Leave, Goes
  <2>4. (\A p, q \in Working : p # q /\ Near(p, q) => q \in shared)'
    BY <1>16 DEF Close, Leave, Goes, Near
  <2> QED BY <2>3, <2>4
<1>17. ASSUME NEW r \in Rows, Judge(r) PROVE NameInv'
  <2>1. \A q \in Rows : at'[q] = "push" => at[q] = "push" /\ left'[q] = left[q]
    BY <1>17 DEF Judge
  <2>2. \A q \in Rows : at'[q] = "push" => Turn(q)' = Turn(q)
    BY <2>1 DEF Turn
  <2>3. (\A q \in Rows \ shared : at[q] = "push" => local[Turn(q)] = own[q])'
    BY <1>17, <2>1, <2>2 DEF Judge
  <2>4. (\A p, q \in Working : p # q /\ Near(p, q) => q \in shared)'
    BY <1>17 DEF Judge, Near
  <2> QED BY <2>3, <2>4
<1>18. CASE Crash
  <2>1. \A q \in Rows : at'[q] = "push" => at[q] = "push" /\ left'[q] = left[q]
    BY <1>18 DEF Crash
  <2>2. \A q \in Rows : at'[q] = "push" => Turn(q)' = Turn(q)
    BY <2>1 DEF Turn
  <2>3. (\A q \in Rows \ shared : at[q] = "push" => local[Turn(q)] = own[q])'
    BY <1>18, <2>1, <2>2 DEF Crash
  <2>4. (\A p, q \in Working : p # q /\ Near(p, q) => q \in shared)'
    BY <1>18 DEF Crash, Near
  <2> QED BY <2>3, <2>4
<1>19. CASE Restart
  <2>1. \A q \in Rows : at'[q] = "push" => at[q] = "push" /\ left'[q] = left[q]
    BY <1>19 DEF Restart, Running
  <2>2. \A q \in Rows : at'[q] = "push" => Turn(q)' = Turn(q)
    BY <2>1 DEF Turn
  <2>3. (\A q \in Rows \ shared : at[q] = "push" => local[Turn(q)] = own[q])'
    BY <1>19, <2>1, <2>2 DEF Restart, Running
  <2>4. (\A p, q \in Working : p # q /\ Near(p, q) => q \in shared)'
    BY <1>19 DEF Restart, Running, Near
  <2> QED BY <2>3, <2>4
<1>20. CASE Serve
  <2>1. \A q \in Rows : at'[q] = "push" => at[q] = "push" /\ left'[q] = left[q]
    BY <1>20 DEF Serve
  <2>2. \A q \in Rows : at'[q] = "push" => Turn(q)' = Turn(q)
    BY <2>1 DEF Turn
  <2>3. (\A q \in Rows \ shared : at[q] = "push" => local[Turn(q)] = own[q])'
    BY <1>20, <2>1, <2>2 DEF Serve
  <2>4. (\A p, q \in Working : p # q /\ Near(p, q) => q \in shared)'
    BY <1>20 DEF Serve, Near
  <2> QED BY <2>3, <2>4
<1>21. CASE UNCHANGED vars
  <2>1. \A q \in Rows : at'[q] = "push" => at[q] = "push" /\ left'[q] = left[q]
    BY <1>21 DEF vars
  <2>2. \A q \in Rows : at'[q] = "push" => Turn(q)' = Turn(q)
    BY <2>1 DEF Turn
  <2>3. (\A q \in Rows \ shared : at[q] = "push" => local[Turn(q)] = own[q])'
    BY <1>21, <2>1, <2>2 DEF vars
  <2>4. (\A p, q \in Working : p # q /\ Near(p, q) => q \in shared)'
    BY <1>21 DEF vars, Near
  <2> QED BY <2>3, <2>4
<1> QED
  BY <1>1, <1>2, <1>3, <1>4, <1>5, <1>6, <1>7, <1>8, <1>9, <1>10, <1>11,
     <1>12, <1>13, <1>14, <1>15, <1>16, <1>17, <1>18, <1>19, <1>20, <1>21 DEF Next, Work

\* Every step keeps SendsOwnImage.
LEMMA SendStep ==
  ASSUME TypeOK, ServerInv, WorkInv, NameInv, SendsOwnImage, [Next]_vars
  PROVE  SendsOwnImage'
<1> USE DEF TypeOK, ServerInv, Statuses, Places, rowVars, workVars, madeVars, diskVars, runVars,
           history, RowsOf, Sources, Working, WorkInv, NameInv,
           SendsOwnImage
<1>1. ASSUME NEW r \in Rows, \E j \in Jobs : Submit(r, j) PROVE SendsOwnImage'
  BY <1>1 DEF Submit
<1>2. ASSUME NEW r \in Rows, \E q \in Rows : Retry(q, r) PROVE SendsOwnImage'
  BY <1>2 DEF Retry
<1>3. ASSUME NEW r \in Rows, Stop(r) PROVE SendsOwnImage'
  BY <1>3 DEF Stop
<1>4. ASSUME NEW r \in Rows, Delete(r) PROVE SendsOwnImage'
  BY <1>4 DEF Delete
<1>5. ASSUME NEW r \in Rows, Start(r) PROVE SendsOwnImage'
  BY <1>5 DEF Start, Running
<1>6. ASSUME NEW r \in Rows, Begin(r) PROVE SendsOwnImage'
  BY <1>6 DEF Begin, Goes
<1>7. ASSUME NEW r \in Rows, FetchSources(r) PROVE SendsOwnImage'
  BY <1>7 DEF FetchSources, Staged
<1>8. ASSUME NEW r \in Rows, BuildImage(r) PROVE SendsOwnImage'
  BY <1>8 DEF BuildImage, Goes, Done
<1>9. ASSUME NEW r \in Rows, PushImage(r) PROVE SendsOwnImage'
  BY <1>9 DEF PushImage, Done
<1>10. ASSUME NEW r \in Rows, SkipPush(r) PROVE SendsOwnImage'
  BY <1>10 DEF SkipPush, Done
<1>11. ASSUME NEW r \in Rows, FetchImage(r) PROVE SendsOwnImage'
  BY <1>11 DEF FetchImage, Goes
<1>12. ASSUME NEW r \in Rows, Save(r) PROVE SendsOwnImage'
  BY <1>12 DEF Save, Done, Outcome
<1>13. ASSUME NEW r \in Rows, Complete(r) PROVE SendsOwnImage'
  BY <1>13 DEF Complete, Goes, Outcome
<1>14. ASSUME NEW r \in Rows, Fail(r) PROVE SendsOwnImage'
  BY <1>14 DEF Fail, Goes, Outcome
<1>15. ASSUME NEW r \in Rows, Quit(r) PROVE SendsOwnImage'
  BY <1>15 DEF Quit, Leave, Goes
<1>16. ASSUME NEW r \in Rows, Close(r) PROVE SendsOwnImage'
  BY <1>16 DEF Close, Leave, Goes
<1>17. ASSUME NEW r \in Rows, Judge(r) PROVE SendsOwnImage'
  BY <1>17 DEF Judge
<1>18. CASE Crash
  BY <1>18 DEF Crash
<1>19. CASE Restart
  BY <1>19 DEF Restart, Running
<1>20. CASE Serve
  BY <1>20 DEF Serve
<1>21. CASE UNCHANGED vars
  BY <1>21 DEF vars
<1> QED
  BY <1>1, <1>2, <1>3, <1>4, <1>5, <1>6, <1>7, <1>8, <1>9, <1>10, <1>11,
     <1>12, <1>13, <1>14, <1>15, <1>16, <1>17, <1>18, <1>19, <1>20, <1>21 DEF Next, Work

-----------------------------------------------------------------------------
(* What a completed build has done. *)

\* From its sources to its outcome a build has left what it has not made of the
\* services it has found (an image stays left until its push was tried, and is on the
\* Docker host then); nothing is left after the push of the whole without the push,
\* or its breaking off.
BuiltInv ==
  /\ \A r \in RowsOf(Sources) :
       /\ at[r] \in {"none", "mark", "fetch"} => made[r] = {}
       /\ at[r] \in {"build", "push"} =>
            made[r] \cup left[r] = found[r] /\ found[r] \in Staged(job[r])
       /\ at[r] = "build" /\ left[r] = {} /\ Push[job[r]] = "global" =>
            sent[r] # None \/ r \in unpushed
       /\ Push[job[r]] = "buildx" /\ made[r] # {} => sent[r] # None
  /\ \A r \in Rows \ RowsOf({"export"}) : at[r] = "push" =>
       local[Turn(r)] # None /\ Turn(r) \in made[r]
  /\ \A r \in Rows : job[r] = None => made[r] = {}

\* No step takes an image away from the Docker host.
LEMMA ImagesStay ==
  ASSUME TypeOK, [Next]_vars, NEW i \in Images, local[i] # None
  PROVE  local'[i] # None
<1> USE DEF TypeOK, Contents, rowVars, workVars, madeVars, diskVars, runVars, history
<1>1. ASSUME NEW r \in Rows, Work(r) PROVE local'[i] # None
  BY <1>1 DEF Work, Begin, FetchSources, BuildImage, PushImage, SkipPush, FetchImage,
              Save, Complete, Fail, Quit, Close
<1>2. ASSUME NEW r \in Rows,
             \/ \E j \in Jobs : Submit(r, j)
             \/ \E q \in Rows : Retry(q, r)
             \/ Stop(r) \/ Delete(r) \/ Start(r) \/ Judge(r)
      PROVE local'[i] # None
  BY <1>2 DEF Submit, Retry, Stop, Delete, Start, Judge
<1>3. CASE Crash \/ Restart \/ Serve \/ UNCHANGED vars
  BY <1>3 DEF Crash, Restart, Serve, vars
<1> QED BY <1>1, <1>2, <1>3 DEF Next

\* Every step keeps BuiltInv.
LEMMA BuiltStep ==
  ASSUME TypeOK, ServerInv, WorkInv, BuiltInv, [Next]_vars
  PROVE  BuiltInv'
<1> USE DEF TypeOK, Contents, ServerInv, Statuses, Places, rowVars, workVars, madeVars, diskVars, runVars,
           history, RowsOf, Sources, Working, WorkInv, BuiltInv
<1>1. ASSUME NEW r \in Rows, \E j \in Jobs : Submit(r, j) PROVE BuiltInv'
  <2>1. \A q \in Rows : at'[q] = "push" => at[q] = "push" /\ left'[q] = left[q]
    BY <1>1 DEF Submit
  <2>2. \A q \in Rows : at'[q] = "push" => Turn(q)' = Turn(q) /\ Turn(q) \in Images
    BY <2>1, TurnIsLeft DEF Turn
  <2>3. (\A q \in Rows \ RowsOf({"export"}) : at[q] = "push" =>
           local[Turn(q)] # None /\ Turn(q) \in made[q])'
    BY <1>1, <2>1, <2>2, ImagesStay DEF Submit
  <2> QED BY <1>1, <2>3 DEF Submit
<1>2. ASSUME NEW r \in Rows, \E q \in Rows : Retry(q, r) PROVE BuiltInv'
  <2>1. \A q \in Rows : at'[q] = "push" => at[q] = "push" /\ left'[q] = left[q]
    BY <1>2 DEF Retry
  <2>2. \A q \in Rows : at'[q] = "push" => Turn(q)' = Turn(q) /\ Turn(q) \in Images
    BY <2>1, TurnIsLeft DEF Turn
  <2>3. (\A q \in Rows \ RowsOf({"export"}) : at[q] = "push" =>
           local[Turn(q)] # None /\ Turn(q) \in made[q])'
    BY <1>2, <2>1, <2>2, ImagesStay DEF Retry
  <2> QED BY <1>2, <2>3 DEF Retry
<1>3. ASSUME NEW r \in Rows, Stop(r) PROVE BuiltInv'
  <2>1. \A q \in Rows : at'[q] = "push" => at[q] = "push" /\ left'[q] = left[q]
    BY <1>3 DEF Stop
  <2>2. \A q \in Rows : at'[q] = "push" => Turn(q)' = Turn(q) /\ Turn(q) \in Images
    BY <2>1, TurnIsLeft DEF Turn
  <2>3. (\A q \in Rows \ RowsOf({"export"}) : at[q] = "push" =>
           local[Turn(q)] # None /\ Turn(q) \in made[q])'
    BY <1>3, <2>1, <2>2, ImagesStay DEF Stop
  <2> QED BY <1>3, <2>3 DEF Stop
<1>4. ASSUME NEW r \in Rows, Delete(r) PROVE BuiltInv'
  <2>1. \A q \in Rows : at'[q] = "push" => at[q] = "push" /\ left'[q] = left[q]
    BY <1>4 DEF Delete
  <2>2. \A q \in Rows : at'[q] = "push" => Turn(q)' = Turn(q) /\ Turn(q) \in Images
    BY <2>1, TurnIsLeft DEF Turn
  <2>3. (\A q \in Rows \ RowsOf({"export"}) : at[q] = "push" =>
           local[Turn(q)] # None /\ Turn(q) \in made[q])'
    BY <1>4, <2>1, <2>2, ImagesStay DEF Delete
  <2> QED BY <1>4, <2>3 DEF Delete
<1>5. ASSUME NEW r \in Rows, Start(r) PROVE BuiltInv'
  <2>1. \A q \in Rows : at'[q] = "push" => at[q] = "push" /\ left'[q] = left[q]
    BY <1>5 DEF Start, Running
  <2>2. \A q \in Rows : at'[q] = "push" => Turn(q)' = Turn(q) /\ Turn(q) \in Images
    BY <2>1, TurnIsLeft DEF Turn
  <2>3. (\A q \in Rows \ RowsOf({"export"}) : at[q] = "push" =>
           local[Turn(q)] # None /\ Turn(q) \in made[q])'
    BY <1>5, <2>1, <2>2, ImagesStay DEF Start, Running
  <2> QED BY <1>5, <2>3 DEF Start, Running
<1>6. ASSUME NEW r \in Rows, Begin(r) PROVE BuiltInv'
  <2>1. \A q \in Rows : at'[q] = "push" => at[q] = "push" /\ left'[q] = left[q]
    BY <1>6 DEF Begin, Goes
  <2>2. \A q \in Rows : at'[q] = "push" => Turn(q)' = Turn(q) /\ Turn(q) \in Images
    BY <2>1, TurnIsLeft DEF Turn
  <2>3. (\A q \in Rows \ RowsOf({"export"}) : at[q] = "push" =>
           local[Turn(q)] # None /\ Turn(q) \in made[q])'
    BY <1>6, <2>1, <2>2, ImagesStay DEF Begin, Goes
  <2> QED BY <1>6, <2>3 DEF Begin, Goes
<1>7. ASSUME NEW r \in Rows, FetchSources(r) PROVE BuiltInv'
  <2>1. \A q \in Rows : at'[q] = "push" => at[q] = "push" /\ left'[q] = left[q]
    BY <1>7 DEF FetchSources, Staged
  <2>2. \A q \in Rows : at'[q] = "push" => Turn(q)' = Turn(q) /\ Turn(q) \in Images
    BY <2>1, TurnIsLeft DEF Turn
  <2>3. (\A q \in Rows \ RowsOf({"export"}) : at[q] = "push" =>
           local[Turn(q)] # None /\ Turn(q) \in made[q])'
    BY <1>7, <2>1, <2>2, ImagesStay DEF FetchSources, Staged
  <2> QED BY <1>7, <2>3 DEF FetchSources, Staged
<1>8. ASSUME NEW r \in Rows, BuildImage(r) PROVE BuiltInv'
  <2>1. Turn(r) \in Images /\ Turn(r) \in left[r]
    BY <1>8, TurnIsLeft DEF BuildImage, Goes, Done
  <2>2. \A q \in Rows : at'[q] = "push" => left'[q] = left[q] /\ (q # r => at[q] = "push")
    BY <1>8 DEF BuildImage, Goes, Done
  <2>3. \A q \in Rows : at'[q] = "push" => Turn(q)' = Turn(q) /\ Turn(q) \in Images
    BY <1>8, <2>1, <2>2, TurnIsLeft DEF Turn
  <2>4. (\A q \in Rows \ RowsOf({"export"}) : at[q] = "push" =>
           local[Turn(q)] # None /\ Turn(q) \in made[q])'
    BY <1>8, <2>1, <2>2, <2>3, ImagesStay DEF BuildImage, Goes, Done
  <2> QED BY <1>8, <2>1, <2>4 DEF BuildImage, Goes, Done
<1>9. ASSUME NEW r \in Rows, PushImage(r) PROVE BuiltInv'
  <2>1. at[r] = "push" /\ r \notin RowsOf({"export"}) /\ left[r] # {}
    BY <1>9 DEF PushImage
  <2>2. Turn(r) \in Images /\ local[Turn(r)] # None /\ Turn(r) \in made[r]
    BY <2>1, TurnIsLeft
  <2>3. \A q \in Rows : at'[q] = "push" => at[q] = "push" /\ q # r /\ left'[q] = left[q]
    BY <1>9 DEF PushImage, Done
  <2>4. \A q \in Rows : at'[q] = "push" => Turn(q)' = Turn(q) /\ Turn(q) \in Images
    BY <2>3, TurnIsLeft DEF Turn
  <2>5. (\A q \in Rows \ RowsOf({"export"}) : at[q] = "push" =>
           local[Turn(q)] # None /\ Turn(q) \in made[q])'
    BY <1>9, <2>3, <2>4 DEF PushImage, Done
  <2>6. (\A q \in RowsOf(Sources) :
           at[q] \in {"build", "push"} =>
             made[q] \cup left[q] = found[q] /\ found[q] \in Staged(job[q]))'
    BY <1>9, <2>2 DEF PushImage, Done
  <2> QED BY <1>9, <2>2, <2>5, <2>6 DEF PushImage, Done
<1>10. ASSUME NEW r \in Rows, SkipPush(r) PROVE BuiltInv'
  <2>1. at[r] = "push" /\ r \notin RowsOf({"export"}) /\ left[r] # {}
    BY <1>10 DEF SkipPush
  <2>2. Turn(r) \in Images /\ local[Turn(r)] # None /\ Turn(r) \in made[r]
    BY <2>1, TurnIsLeft
  <2>3. \A q \in Rows : at'[q] = "push" => at[q] = "push" /\ q # r /\ left'[q] = left[q]
    BY <1>10 DEF SkipPush, Done
  <2>4. \A q \in Rows : at'[q] = "push" => Turn(q)' = Turn(q) /\ Turn(q) \in Images
    BY <2>3, TurnIsLeft DEF Turn
  <2>5. (\A q \in Rows \ RowsOf({"export"}) : at[q] = "push" =>
           local[Turn(q)] # None /\ Turn(q) \in made[q])'
    BY <1>10, <2>3, <2>4 DEF SkipPush, Done
  <2>6. (\A q \in RowsOf(Sources) :
           at[q] \in {"build", "push"} =>
             made[q] \cup left[q] = found[q] /\ found[q] \in Staged(job[q]))'
    BY <1>10, <2>2 DEF SkipPush, Done
  <2> QED BY <1>10, <2>5, <2>6 DEF SkipPush, Done
<1>11. ASSUME NEW r \in Rows, FetchImage(r) PROVE BuiltInv'
  <2>1. Turn(r) \in Images /\ Turn(r) \in left[r]
    BY <1>11, TurnIsLeft DEF FetchImage, Goes
  <2>2. \A q \in Rows : at'[q] = "push" => left'[q] = left[q] /\ (q # r => at[q] = "push")
    BY <1>11 DEF FetchImage, Goes
  <2>3. \A q \in Rows : at'[q] = "push" => Turn(q)' = Turn(q) /\ Turn(q) \in Images
    BY <1>11, <2>1, <2>2, TurnIsLeft DEF Turn
  <2>4. (\A q \in Rows \ RowsOf({"export"}) : at[q] = "push" =>
           local[Turn(q)] # None /\ Turn(q) \in made[q])'
    BY <1>11, <2>1, <2>2, <2>3, ImagesStay DEF FetchImage, Goes
  <2> QED BY <1>11, <2>1, <2>4 DEF FetchImage, Goes
<1>12. ASSUME NEW r \in Rows, Save(r) PROVE BuiltInv'
  <2>1. \A q \in Rows : at'[q] = "push" => at[q] = "push" /\ left'[q] = left[q]
    BY <1>12 DEF Save, Done, Outcome
  <2>2. \A q \in Rows : at'[q] = "push" => Turn(q)' = Turn(q) /\ Turn(q) \in Images
    BY <2>1, TurnIsLeft DEF Turn
  <2>3. (\A q \in Rows \ RowsOf({"export"}) : at[q] = "push" =>
           local[Turn(q)] # None /\ Turn(q) \in made[q])'
    BY <1>12, <2>1, <2>2, ImagesStay DEF Save, Done, Outcome
  <2> QED BY <1>12, <2>3 DEF Save, Done, Outcome
<1>13. ASSUME NEW r \in Rows, Complete(r) PROVE BuiltInv'
  <2>1. \A q \in Rows : at'[q] = "push" => at[q] = "push" /\ left'[q] = left[q]
    BY <1>13 DEF Complete, Goes, Outcome
  <2>2. \A q \in Rows : at'[q] = "push" => Turn(q)' = Turn(q) /\ Turn(q) \in Images
    BY <2>1, TurnIsLeft DEF Turn
  <2>3. (\A q \in Rows \ RowsOf({"export"}) : at[q] = "push" =>
           local[Turn(q)] # None /\ Turn(q) \in made[q])'
    BY <1>13, <2>1, <2>2, ImagesStay DEF Complete, Goes, Outcome
  <2> QED BY <1>13, <2>3 DEF Complete, Goes, Outcome
<1>14. ASSUME NEW r \in Rows, Fail(r) PROVE BuiltInv'
  <2>1. \A q \in Rows : at'[q] = "push" => at[q] = "push" /\ left'[q] = left[q]
    BY <1>14 DEF Fail, Goes, Outcome
  <2>2. \A q \in Rows : at'[q] = "push" => Turn(q)' = Turn(q) /\ Turn(q) \in Images
    BY <2>1, TurnIsLeft DEF Turn
  <2>3. (\A q \in Rows \ RowsOf({"export"}) : at[q] = "push" =>
           local[Turn(q)] # None /\ Turn(q) \in made[q])'
    BY <1>14, <2>1, <2>2, ImagesStay DEF Fail, Goes, Outcome
  <2> QED BY <1>14, <2>3 DEF Fail, Goes, Outcome
<1>15. ASSUME NEW r \in Rows, Quit(r) PROVE BuiltInv'
  <2>1. \A q \in Rows : at'[q] = "push" => at[q] = "push" /\ left'[q] = left[q]
    BY <1>15 DEF Quit, Leave, Goes
  <2>2. \A q \in Rows : at'[q] = "push" => Turn(q)' = Turn(q) /\ Turn(q) \in Images
    BY <2>1, TurnIsLeft DEF Turn
  <2>3. (\A q \in Rows \ RowsOf({"export"}) : at[q] = "push" =>
           local[Turn(q)] # None /\ Turn(q) \in made[q])'
    BY <1>15, <2>1, <2>2, ImagesStay DEF Quit, Leave, Goes
  <2> QED BY <1>15, <2>3 DEF Quit, Leave, Goes
<1>16. ASSUME NEW r \in Rows, Close(r) PROVE BuiltInv'
  <2>1. \A q \in Rows : at'[q] = "push" => at[q] = "push" /\ left'[q] = left[q]
    BY <1>16 DEF Close, Leave, Goes
  <2>2. \A q \in Rows : at'[q] = "push" => Turn(q)' = Turn(q) /\ Turn(q) \in Images
    BY <2>1, TurnIsLeft DEF Turn
  <2>3. (\A q \in Rows \ RowsOf({"export"}) : at[q] = "push" =>
           local[Turn(q)] # None /\ Turn(q) \in made[q])'
    BY <1>16, <2>1, <2>2, ImagesStay DEF Close, Leave, Goes
  <2> QED BY <1>16, <2>3 DEF Close, Leave, Goes
<1>17. ASSUME NEW r \in Rows, Judge(r) PROVE BuiltInv'
  <2>1. \A q \in Rows : at'[q] = "push" => at[q] = "push" /\ left'[q] = left[q]
    BY <1>17 DEF Judge
  <2>2. \A q \in Rows : at'[q] = "push" => Turn(q)' = Turn(q) /\ Turn(q) \in Images
    BY <2>1, TurnIsLeft DEF Turn
  <2>3. (\A q \in Rows \ RowsOf({"export"}) : at[q] = "push" =>
           local[Turn(q)] # None /\ Turn(q) \in made[q])'
    BY <1>17, <2>1, <2>2, ImagesStay DEF Judge
  <2> QED BY <1>17, <2>3 DEF Judge
<1>18. CASE Crash
  <2>1. \A q \in Rows : at'[q] = "push" => at[q] = "push" /\ left'[q] = left[q]
    BY <1>18 DEF Crash
  <2>2. \A q \in Rows : at'[q] = "push" => Turn(q)' = Turn(q) /\ Turn(q) \in Images
    BY <2>1, TurnIsLeft DEF Turn
  <2>3. (\A q \in Rows \ RowsOf({"export"}) : at[q] = "push" =>
           local[Turn(q)] # None /\ Turn(q) \in made[q])'
    BY <1>18, <2>1, <2>2, ImagesStay DEF Crash
  <2> QED BY <1>18, <2>3 DEF Crash
<1>19. CASE Restart
  <2>1. \A q \in Rows : at'[q] = "push" => at[q] = "push" /\ left'[q] = left[q]
    BY <1>19 DEF Restart, Running
  <2>2. \A q \in Rows : at'[q] = "push" => Turn(q)' = Turn(q) /\ Turn(q) \in Images
    BY <2>1, TurnIsLeft DEF Turn
  <2>3. (\A q \in Rows \ RowsOf({"export"}) : at[q] = "push" =>
           local[Turn(q)] # None /\ Turn(q) \in made[q])'
    BY <1>19, <2>1, <2>2, ImagesStay DEF Restart, Running
  <2> QED BY <1>19, <2>3 DEF Restart, Running
<1>20. CASE Serve
  <2>1. \A q \in Rows : at'[q] = "push" => at[q] = "push" /\ left'[q] = left[q]
    BY <1>20 DEF Serve
  <2>2. \A q \in Rows : at'[q] = "push" => Turn(q)' = Turn(q) /\ Turn(q) \in Images
    BY <2>1, TurnIsLeft DEF Turn
  <2>3. (\A q \in Rows \ RowsOf({"export"}) : at[q] = "push" =>
           local[Turn(q)] # None /\ Turn(q) \in made[q])'
    BY <1>20, <2>1, <2>2, ImagesStay DEF Serve
  <2> QED BY <1>20, <2>3 DEF Serve
<1>21. CASE UNCHANGED vars
  <2>1. \A q \in Rows : at'[q] = "push" => at[q] = "push" /\ left'[q] = left[q]
    BY <1>21 DEF vars
  <2>2. \A q \in Rows : at'[q] = "push" => Turn(q)' = Turn(q) /\ Turn(q) \in Images
    BY <2>1, TurnIsLeft DEF Turn
  <2>3. (\A q \in Rows \ RowsOf({"export"}) : at[q] = "push" =>
           local[Turn(q)] # None /\ Turn(q) \in made[q])'
    BY <1>21, <2>1, <2>2, ImagesStay DEF vars
  <2> QED BY <1>21, <2>3 DEF vars
<1> QED
  BY <1>1, <1>2, <1>3, <1>4, <1>5, <1>6, <1>7, <1>8, <1>9, <1>10, <1>11,
     <1>12, <1>13, <1>14, <1>15, <1>16, <1>17, <1>18, <1>19, <1>20, <1>21 DEF Next, Work

\* Whoever writes completed for a build from sources that has a worker is that worker,
\* and nothing is left to it then.
LEMMA CompletedStep ==
  ASSUME TypeOK, ServerInv, WorkInv, BuiltInv, [Next]_vars,
         NEW r \in RowsOf(Sources),
         at[r] # "none", status[r] # "completed", status'[r] = "completed"
  PROVE  /\ made[r] = found[r] /\ found[r] \in Staged(job[r])
         /\ Push[job[r]] \in {"global", "buildx"} => sent[r] # None \/ r \in unpushed
<1> USE DEF TypeOK, Statuses, rowVars, RowsOf, Sources
<1>1. Complete(r)
  <2>1. ASSUME NEW q \in Rows, Work(q) PROVE Complete(r)
    <3>1. CASE Complete(q)
      BY <2>1, <3>1 DEF Complete, Outcome
    <3>2. CASE Save(q)
      BY <3>2 DEF Save, Outcome
    <3>3. CASE ~Complete(q) /\ ~Save(q)
      BY <2>1, <3>3 DEF Work, Begin, FetchSources, BuildImage, PushImage, SkipPush,
                        FetchImage, Fail, Quit, Close, Outcome
    <3> QED BY <3>1, <3>2, <3>3
  <2>2. ASSUME NEW q \in Rows,
               \/ \E j \in Jobs : Submit(q, j)
               \/ \E p \in Rows : Retry(p, q)
               \/ Stop(q) \/ Delete(q) \/ Start(q)
        PROVE FALSE
    BY <2>2 DEF Submit, Retry, Stop, Delete, Start
  <2>3. ASSUME NEW q \in Rows, Judge(q) PROVE FALSE
    BY <2>3 DEF Judge, ServerInv
  <2>4. CASE Crash \/ Restart \/ Serve \/ UNCHANGED vars
    BY <2>4 DEF Crash, Restart, Serve, vars, Running
  <2> QED BY <2>1, <2>2, <2>3, <2>4 DEF Next
<1>2. job[r] \in Jobs /\ at[r] = "build" /\ left[r] = {}
  BY <1>1 DEF Complete
<1>3. made[r] = found[r] /\ found[r] \in Staged(job[r])
  <2>1. made[r] \cup left[r] = found[r] /\ found[r] \in Staged(job[r])
    BY <1>2 DEF BuiltInv
  <2>2. made[r] \cup {} = made[r]
    OBVIOUS
  <2> QED BY <1>2, <2>1, <2>2
<1>4. found[r] # {}
  BY <1>2, <1>3 DEF Staged
<1>5. Push[job[r]] \in {"global", "buildx"} => sent[r] # None \/ r \in unpushed
  BY <1>2, <1>3, <1>4 DEF BuiltInv
<1> QED BY <1>3, <1>5

-----------------------------------------------------------------------------
(* The theorems. *)

IInv ==
  /\ TypeOK /\ ServerInv /\ RunningIsServed
  /\ ArchiveInv
  /\ WorkInv /\ NameInv /\ SendsOwnImage
  /\ BuiltInv

\* The inductive invariant holds initially: there is no row and no worker.
LEMMA InitInv == Init => IInv
<1> SUFFICES ASSUME Init PROVE IInv
  OBVIOUS
<1> USE DEF Init, RowsOf, Sources, Working, Running
<1>1. TypeOK
  BY InitTyped
<1>2. ServerInv /\ RunningIsServed /\ ArchiveInv
  BY DEF ServerInv, RunningIsServed, ArchiveInv
<1>3. WorkInv /\ NameInv /\ SendsOwnImage
  BY DEF WorkInv, NameInv, SendsOwnImage
<1>4. BuiltInv
  BY DEF BuiltInv
<1> QED BY <1>1, <1>2, <1>3, <1>4 DEF IInv

\* The inductive invariant holds in every reachable state.
THEOREM Invariance == Spec => []IInv
<1>1. IInv /\ [Next]_vars => IInv'
  <2> SUFFICES ASSUME IInv, [Next]_vars PROVE IInv'
    OBVIOUS
  <2>1. TypeOK'
    BY TypedStep DEF IInv
  <2>2. ServerInv' /\ RunningIsServed' /\ ArchiveInv'
    BY ServerStep, ServedStep, ArchiveStep DEF IInv
  <2>3. WorkInv' /\ NameInv' /\ SendsOwnImage'
    BY WorkStep, NameStep, SendStep DEF IInv
  <2>4. BuiltInv'
    BY BuiltStep DEF IInv
  <2> QED BY <2>1, <2>2, <2>3, <2>4 DEF IInv
<1> QED BY <1>1, InitInv, PTL DEF Spec

\* A running row, uploads apart, has a worker or is still to be judged after a
\* restart (RunningIsServed).
THEOREM Served == Spec => []RunningIsServed
BY Invariance, PTL DEF IInv

\* A build that was not retried finds its uploaded workspace until it has
\* unpacked it, whatever crash comes between the outcome and the clean-up
\* (SnapshotHeld).
THEOREM Held == Spec => []SnapshotHeld
<1>1. IInv => SnapshotHeld
  BY DEF IInv, ArchiveInv, SnapshotHeld
<1> QED BY <1>1, Invariance, PTL

\* What leaves the machine for a row is its own image unless workers share a
\* name (SendsOwnImage).
THEOREM SendsOwn == Spec => []SendsOwnImage
BY Invariance, PTL DEF IInv

\* A build is completed by its worker only when this has built every service that its
\* sources have, and has pushed the image when the whole was to be pushed, or has seen
\* the push break off (CompletedIsBuilt).
THEOREM Completed == Spec => CompletedIsBuilt
<1>1. IInv /\ [Next]_vars =>
        [\A r \in RowsOf(Sources) :
           /\ at[r] # "none" /\ status[r] # "completed" /\ status'[r] = "completed"
           => /\ made[r] = found[r] /\ found[r] \in Staged(job[r])
              /\ Push[job[r]] \in {"global", "buildx"} =>
                   sent[r] # None \/ r \in unpushed]_vars
  BY CompletedStep DEF IInv
<1> QED BY <1>1, Invariance, PTL DEF Spec, CompletedIsBuilt

=============================================================================
