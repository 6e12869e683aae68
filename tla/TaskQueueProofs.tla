-------------------------- MODULE TaskQueueProofs --------------------------
(***************************************************************************)
(* Theorems about TaskQueue, for every set of tasks, threads, teams and    *)
(* pipelines, every assignment of kinds, teams, pipelines and limits, and  *)
(* every distribution of duties.                                           *)
(*                                                                         *)
(* The inductive invariant is built in layers: Control says which of the   *)
(* variables of a thread are meaningful at each of its places, Reserved    *)
(* what the dispatcher has found out before it starts a row, Single who    *)
(* has a row in hand, and Woken who will look at a row that waits; the     *)
(* safety properties follow from them.  DeploySlotLimit, OneWorker and     *)
(* NeverStranded say of which rows or duties they speak.                   *)
(***************************************************************************)
EXTENDS TaskQueue, TLAPS, FiniteSetTheorems

NeedsCur == Spawning \cup {"admitted", "look", "unbind"}
NeedsJob == {"mark", "work", "again", "stage", "record",
             "stopPending", "stopRunning", "retry", "delete"}
Inside   == NeedsCur \cup {"scan", "pick", "record"}

ControlOf(th) ==
    /\ pc[th] = "idle" => job[th] = None
    /\ pc[th] \in NeedsCur => cur[th] \in Tasks
    /\ pc[th] \in NeedsJob => job[th] \in Tasks
    /\ pc[th] \in Spawning \cup {"admitted"} => lock = th
    /\ pc[th] \in {"bind", "unbind"} => Pipeline[cur[th]] # None
    /\ pc[th] \in Inside /\ job[th] # None /\ again[th] = None =>
           Pipeline[job[th]] # None
    /\ pc[th] = "record" => again[th] = None
    /\ pc[th] = "again" => again[th] # None

Control == \A th \in Threads : ControlOf(th)

Typed == TypeOK /\ Control

----------------------------------------------------------------------------
(* Typed is inductive: one lemma for each action.                          *)

USE ConstantsAssumption
    DEF ConstantsAssumption, Threads, Statuses, Terminal, Places, Spawning, NeedsCur,
        NeedsJob, Inside, Typed, TypeOK, Control, ControlOf

LEMMA InitTyped == Init => Typed
BY SMT DEF Init

LEMMA ScanTyped ==
    ASSUME Typed, NEW th \in Threads, Scan(th) PROVE Typed'
BY SMTT(60)
   DEF Scan, Return, ReturnNested, Rest, Dispatch, GoTo, rows, Pending

LEMMA PickTyped ==
    ASSUME Typed, NEW th \in Threads, Pick(th) PROVE Typed'
BY SMTT(60)
   DEF Pick, NextCandidate, Return, Rest, GoTo, rows

LEMMA CommenceTyped ==
    ASSUME Typed, NEW th \in Threads, Commence(th) PROVE Typed'
BY SMTT(60)
   DEF Commence, NextCandidate, Return, Rest, GoTo, SetStatus, locals

LEMMA BindTyped ==
    ASSUME Typed, NEW th \in Threads, Bind(th) PROVE Typed'
BY SMTT(60)
   DEF Bind, GoTo, locals

LEMMA RemarkTyped ==
    ASSUME Typed, NEW th \in Threads, Remark(th) PROVE Typed'
BY SMTT(60)
   DEF Remark, MarkRunning, GoTo, locals

LEMMA SpawnTyped ==
    ASSUME Typed, NEW th \in Threads, Spawn(th) PROVE Typed'
BY SMTT(60)
   DEF Spawn, StartWorker, ReturnNested, Dispatch, SetStatus, GoTo, rows,
       locals

LEMMA LookTyped ==
    ASSUME Typed, NEW th \in Threads, Look(th) PROVE Typed'
BY SMTT(60)
   DEF Look, Binding, Dispatch, GoTo, rows

LEMMA UnbindTyped ==
    ASSUME Typed, NEW th \in Threads, Unbind(th) PROVE Typed'
BY SMTT(60)
   DEF Unbind, Dispatch, GoTo

LEMMA MarkTyped ==
    ASSUME Typed, NEW w \in Workers, Mark(w) PROVE Typed'
BY SMTT(60)
   DEF Mark, MarkRunning, Rest, GoTo, locals

LEMMA QuitTyped ==
    ASSUME Typed, NEW w \in Workers, Quit(w) PROVE Typed'
BY SMTT(60)
   DEF Quit, Rest, GoTo, rows

LEMMA FinishTyped ==
    ASSUME Typed, NEW w \in Workers, Finish(w) PROVE Typed'
BY SMTT(60)
   DEF Finish, SecondWrite, WriteOutcome, Release, SetStatus, Rest, Dispatch,
       GoTo

LEMMA FinishAgainTyped ==
    ASSUME Typed, NEW w \in Workers, FinishAgain(w) PROVE Typed'
BY SMTT(60)
   DEF FinishAgain, WriteOutcome, Release, SetStatus, Rest, Dispatch, GoTo

LEMMA StageTyped ==
    ASSUME Typed, NEW c \in Callers, Stage(c) PROVE Typed'
BY SMTT(60)
   DEF Stage, Dispatch, GoTo

LEMMA RecordTyped ==
    ASSUME Typed, NEW c \in Callers, Record(c) PROVE Typed'
BY SMTT(60)
   DEF Record, Rest, GoTo

LEMMA CommitStopTyped ==
    ASSUME Typed, NEW c \in Callers, CommitStop(c) PROVE Typed'
BY SMTT(60)
   DEF CommitStop, Gone, Release, SetStatus, Rest, Dispatch, GoTo

LEMMA CommitRetryTyped ==
    ASSUME Typed, NEW c \in Callers, CommitRetry(c) PROVE Typed'
BY SMTT(60)
   DEF CommitRetry, Gone, SetStatus, Rest, Dispatch, GoTo

LEMMA CommitDeleteTyped ==
    ASSUME Typed, NEW c \in Callers, CommitDelete(c) PROVE Typed'
BY SMTT(60)
   DEF CommitDelete, SetStatus, Rest, GoTo

LEMMA RequestTyped ==
    ASSUME Typed, NEW c \in Callers, NEW t \in Tasks, Request(c, t) PROVE Typed'
BY SMTT(60)
   DEF Request, Create, RequestStop, RequestRetry, RequestDelete, Expire,
       Begin, SetStatus, Dispatch, GoTo, Existing, rows

LEMMA StutterTyped == Typed /\ UNCHANGED vars => Typed'
BY SMT DEF vars

HIDE ConstantsAssumption
     DEF ConstantsAssumption, Threads, Statuses, Terminal, Places, Spawning, NeedsCur,
         NeedsJob, Inside, Typed, TypeOK, Control, ControlOf

LEMMA NextTyped == Typed /\ [Next]_vars => Typed'
<1> SUFFICES ASSUME Typed, [Next]_vars PROVE Typed'
    OBVIOUS
<1>1. CASE \E th \in Threads : Dispatcher(th)
    BY <1>1, ScanTyped, PickTyped, CommenceTyped, BindTyped, RemarkTyped, SpawnTyped,
       LookTyped, UnbindTyped DEF Dispatcher
<1>2. CASE \E w \in Workers : Worker(w)
    BY <1>2, MarkTyped, QuitTyped, FinishTyped, FinishAgainTyped DEF Worker
<1>3. CASE \E c \in Callers : Handler(c)
    BY <1>3, StageTyped, RecordTyped, CommitStopTyped, CommitRetryTyped, CommitDeleteTyped
       DEF Handler
<1>4. CASE \E c \in Callers, t \in Tasks : Request(c, t)
    BY <1>4, RequestTyped
<1>5. CASE UNCHANGED vars
    BY <1>5, StutterTyped
<1> QED
    BY <1>1, <1>2, <1>3, <1>4, <1>5 DEF Next

LEMMA AlwaysTyped == Spec => []Typed
BY InitTyped, NextTyped, PTL DEF Spec

\* Every variable has its type, whatever the threads do.
THEOREM TypeCorrect == Spec => []TypeOK
<1>1. Typed => TypeOK
    BY DEF Typed
<1> QED
    BY AlwaysTyped, <1>1, PTL

----------------------------------------------------------------------------
(* Admission.  A thread that can_start has answered True holds the lock    *)
(* until it has written running, and nobody else adds to the rows that     *)
(* hold a slot: what it found out is still true when it writes.            *)

Holding(s) == {t \in Admitted : Team[t] = s}

Reserved(th) ==
    pc[th] = "admitted" =>
        /\ \A s \in Scopes : s = Team[cur[th]] => Cardinality(Holding(s)) < Limit[s]
        /\ Pipeline[cur[th]] # None =>
               \A u \in Admitted : Pipeline[u] # Pipeline[cur[th]]

Admission ==
    /\ AdmissionLimit
    /\ AdmissionSerial
    /\ \A th \in Threads : Reserved(th)

\* A step that gives no slot away and admits nothing.
Harmless ==
    /\ Admitted' \subseteq Admitted
    /\ \A th \in Threads :
          pc'[th] = "admitted" => pc[th] = "admitted" /\ cur'[th] = cur[th]

LEMMA HoldingFinite ==
    ASSUME NEW s PROVE IsFiniteSet(Holding(s)) /\ Cardinality(Holding(s)) \in Nat
<1>1. Holding(s) \subseteq Tasks
    BY DEF Holding, Admitted, Running
<1>2. IsFiniteSet(Holding(s))
    BY <1>1, ConstantsAssumption, FS_Subset DEF ConstantsAssumption
<1> QED
    BY <1>2, FS_CardinalityType

LEMMA LimitType == \A s \in Scopes : Limit[s] \in Nat
BY ConstantsAssumption, SMT DEF ConstantsAssumption

\* Fewer admitted rows, fewer rows of a team.
LEMMA HoldingShrinks ==
    ASSUME Admitted' \subseteq Admitted, NEW s
    PROVE  /\ Cardinality(Holding(s)') \in Nat
           /\ Cardinality(Holding(s)') <= Cardinality(Holding(s))
<1>1. Holding(s)' \subseteq Holding(s)
    BY DEF Holding
<1>2. IsFiniteSet(Holding(s)) /\ Cardinality(Holding(s)) \in Nat
    BY HoldingFinite
<1>3. IsFiniteSet(Holding(s)') /\ Cardinality(Holding(s)') <= Cardinality(Holding(s))
    BY <1>1, <1>2, FS_Subset
<1> QED
    BY <1>3, FS_CardinalityType

LEMMA HarmlessKeepsAdmission ==
    ASSUME Typed, Admission, Harmless PROVE Admission'
<1>1. AdmissionLimit'
  <2> SUFFICES ASSUME NEW s \in Scopes PROVE Cardinality(Holding(s)') <= Limit[s]
      BY DEF AdmissionLimit, Holding
  <2>1. Cardinality(Holding(s)) <= Limit[s]
      BY DEF Admission, AdmissionLimit, Holding
  <2>2. /\ Cardinality(Holding(s)') \in Nat
        /\ Cardinality(Holding(s)') <= Cardinality(Holding(s))
      BY HoldingShrinks DEF Harmless
  <2>3. Cardinality(Holding(s)) \in Nat
      BY HoldingFinite
  <2> QED
      BY <2>1, <2>2, <2>3, LimitType, SMT
<1>2. AdmissionSerial'
    BY DEF Admission, AdmissionSerial, Harmless
<1>3. ASSUME NEW th \in Threads PROVE Reserved(th)'
  <2> SUFFICES ASSUME pc'[th] = "admitted"
               PROVE  /\ \A s \in Scopes : s = Team[cur'[th]] =>
                             Cardinality(Holding(s)') < Limit[s]
                      /\ Pipeline[cur'[th]] # None =>
                             \A u \in Admitted' : Pipeline[u] # Pipeline[cur'[th]]
      BY DEF Reserved, Holding
  <2>1. pc[th] = "admitted" /\ cur'[th] = cur[th]
      BY DEF Harmless
  <2>2. /\ \A s \in Scopes : s = Team[cur[th]] => Cardinality(Holding(s)) < Limit[s]
        /\ Pipeline[cur[th]] # None =>
               \A u \in Admitted : Pipeline[u] # Pipeline[cur[th]]
      BY <2>1 DEF Admission, Reserved
  <2>3. ASSUME NEW s \in Scopes, s = Team[cur'[th]] PROVE Cardinality(Holding(s)') < Limit[s]
    <3>1. Cardinality(Holding(s)) < Limit[s]
        BY <2>1, <2>2, <2>3
    <3>2. /\ Cardinality(Holding(s)') \in Nat
          /\ Cardinality(Holding(s)') <= Cardinality(Holding(s))
        BY HoldingShrinks DEF Harmless
    <3>3. Cardinality(Holding(s)) \in Nat
        BY HoldingFinite
    <3> QED
        BY <3>1, <3>2, <3>3, LimitType, SMT
  <2>4. Pipeline[cur'[th]] # None =>
            \A u \in Admitted' : Pipeline[u] # Pipeline[cur'[th]]
      BY <2>1, <2>2 DEF Harmless
  <2> QED
      BY <2>3, <2>4
<1> QED
    BY <1>1, <1>2, <1>3 DEF Admission

(* Every action but Pick and Commence is harmless.                         *)

USE ConstantsAssumption
    DEF ConstantsAssumption, Threads, Statuses, Terminal, Places, Spawning, NeedsCur,
        NeedsJob, Inside, Typed, TypeOK, Control, ControlOf, Harmless, Admitted, Running

LEMMA ScanHarmless ==
    ASSUME Typed, NEW th \in Threads, Scan(th) PROVE Harmless
BY SMTT(60)
   DEF Scan, Return, ReturnNested, Rest, Dispatch, GoTo, rows, Pending

LEMMA BindHarmless ==
    ASSUME Typed, NEW th \in Threads, Bind(th) PROVE Harmless
BY SMTT(60)
   DEF Bind, GoTo, locals

LEMMA RemarkHarmless ==
    ASSUME Typed, NEW th \in Threads, Remark(th) PROVE Harmless
BY SMTT(60)
   DEF Remark, MarkRunning, GoTo, locals

LEMMA SpawnHarmless ==
    ASSUME Typed, NEW th \in Threads, Spawn(th) PROVE Harmless
BY SMTT(60)
   DEF Spawn, StartWorker, ReturnNested, Dispatch, SetStatus, GoTo, rows,
       locals

LEMMA LookHarmless ==
    ASSUME Typed, NEW th \in Threads, Look(th) PROVE Harmless
BY SMTT(60)
   DEF Look, Binding, Dispatch, GoTo, rows

LEMMA UnbindHarmless ==
    ASSUME Typed, NEW th \in Threads, Unbind(th) PROVE Harmless
BY SMTT(60)
   DEF Unbind, Dispatch, GoTo

LEMMA MarkHarmless ==
    ASSUME Typed, NEW w \in Workers, Mark(w) PROVE Harmless
BY SMTT(60)
   DEF Mark, MarkRunning, Rest, GoTo, locals

LEMMA QuitHarmless ==
    ASSUME Typed, NEW w \in Workers, Quit(w) PROVE Harmless
BY SMTT(60)
   DEF Quit, Rest, GoTo, rows

LEMMA FinishHarmless ==
    ASSUME Typed, NEW w \in Workers, Finish(w) PROVE Harmless
BY SMTT(60)
   DEF Finish, SecondWrite, WriteOutcome, Release, SetStatus, Rest, Dispatch,
       GoTo

LEMMA FinishAgainHarmless ==
    ASSUME Typed, NEW w \in Workers, FinishAgain(w) PROVE Harmless
BY SMTT(60)
   DEF FinishAgain, WriteOutcome, Release, SetStatus, Rest, Dispatch, GoTo

LEMMA StageHarmless ==
    ASSUME Typed, NEW c \in Callers, Stage(c) PROVE Harmless
BY SMTT(60)
   DEF Stage, Dispatch, GoTo

LEMMA RecordHarmless ==
    ASSUME Typed, NEW c \in Callers, Record(c) PROVE Harmless
BY SMTT(60)
   DEF Record, Rest, GoTo

LEMMA CommitStopHarmless ==
    ASSUME Typed, NEW c \in Callers, CommitStop(c) PROVE Harmless
BY SMTT(60)
   DEF CommitStop, Gone, Release, SetStatus, Rest, Dispatch, GoTo

LEMMA CommitRetryHarmless ==
    ASSUME Typed, NEW c \in Callers, CommitRetry(c) PROVE Harmless
BY SMTT(60)
   DEF CommitRetry, Gone, SetStatus, Rest, Dispatch, GoTo

LEMMA CommitDeleteHarmless ==
    ASSUME Typed, NEW c \in Callers, CommitDelete(c) PROVE Harmless
BY SMTT(60)
   DEF CommitDelete, SetStatus, Rest, GoTo

LEMMA RequestHarmless ==
    ASSUME Typed, NEW c \in Callers, NEW t \in Tasks, Request(c, t) PROVE Harmless
BY SMTT(60)
   DEF Request, Create, RequestStop, RequestRetry, RequestDelete, Expire,
       Begin, SetStatus, Dispatch, GoTo, rows

LEMMA StutterHarmless == UNCHANGED vars => Harmless
BY SMT DEF vars

\* A starter that finds its row no longer pending gives the slot back.
LEMMA CommenceNotHarmless ==
    ASSUME Typed, NEW th \in Threads, Commence(th), status[cur[th]] # "pending"
    PROVE  Harmless
BY SMTT(60) DEF Commence, NextCandidate, Return, Rest, GoTo

HIDE ConstantsAssumption
     DEF ConstantsAssumption, Threads, Statuses, Terminal, Places, Spawning, NeedsCur,
         NeedsJob, Inside, Typed, TypeOK, Control, ControlOf, Harmless, Admitted, Running

LEMMA PickAdmission ==
    ASSUME Typed, Admission, NEW th \in Threads, Pick(th) PROVE Admission'
<1>1. Admitted' = Admitted
    BY DEF Pick, rows, Admitted, Running
<1>2. \A s : Holding(s)' = Holding(s)
    BY <1>1 DEF Holding
<1>3. AdmissionLimit' /\ AdmissionSerial'
    BY <1>1 DEF Admission, AdmissionLimit, AdmissionSerial
<1>4. ASSUME NEW x \in Threads, pc'[x] = "admitted", x # th PROVE Reserved(x)'
  <2>1. pc[x] = "admitted" /\ cur'[x] = cur[x]
      BY <1>4, SMT DEF Pick, NextCandidate, Return, Rest, GoTo, Typed, TypeOK
  <2> QED
      BY <1>1, <1>2, <2>1 DEF Reserved, Admission
<1>5. ASSUME pc'[th] = "admitted" PROVE Reserved(th)'
  <2>1. PICK t \in cands[th] : CanStart(t) /\ cur' = [cur EXCEPT ![th] = t]
      BY <1>5, SMT DEF Pick, NextCandidate, Return, Rest, GoTo, Typed, TypeOK
  <2>2. t \in Tasks /\ cur'[th] = t
      BY <2>1, SMT DEF Typed, TypeOK
  <2>3. ASSUME NEW s \in Scopes, s = Team[t] PROVE Cardinality(Holding(s)') < Limit[s]
    <3> DEFINE R == Running \cap Counted(s)
    <3>1. Holding(s) \subseteq R /\ R \subseteq Tasks
        BY DEF Holding, Admitted, Running, Counted
    <3>2. IsFiniteSet(R) /\ Cardinality(R) \in Nat
        BY <3>1, ConstantsAssumption, FS_Subset, FS_CardinalityType DEF ConstantsAssumption
    <3>3. Cardinality(Holding(s)) \in Nat /\ Cardinality(Holding(s)) <= Cardinality(R)
        BY <3>1, <3>2, FS_Subset, HoldingFinite
    <3>4. Cardinality(R) < Limit[s]
        BY <2>1, <2>3 DEF CanStart
    <3>5. Cardinality(Holding(s)) < Limit[s]
        BY <3>2, <3>3, <3>4, LimitType, SMT
    <3> QED
        BY <3>5, <1>2
  <2>4. Pipeline[t] # None => \A u \in Admitted' : Pipeline[u] # Pipeline[t]
      BY <1>1, <2>1 DEF CanStart, PipelineBusy, Admitted
  <2> QED
      BY <2>2, <2>3, <2>4 DEF Reserved, Holding
<1> QED
    BY <1>3, <1>4, <1>5 DEF Admission, Reserved

LEMMA CommenceAdmission ==
    ASSUME Typed, Admission, NEW th \in Threads, Commence(th) PROVE Admission'
<1>1. CASE status[cur[th]] # "pending"
    BY <1>1, CommenceNotHarmless, HarmlessKeepsAdmission
<1>2. CASE status[cur[th]] = "pending"
  <2> DEFINE t == cur[th]
  <2>1. t \in Tasks /\ t \notin Admitted /\ pc[th] = "admitted"
      BY <1>2, SMT DEF Commence, Admitted, Running, Typed, Control, ControlOf, NeedsCur
  <2>2. Admitted' = Admitted \cup {t}
      BY <1>2, <2>1, SMT DEF Commence, SetStatus, Admitted, Running, Typed, TypeOK
  <2>3. /\ \A s \in Scopes : s = Team[t] => Cardinality(Holding(s)) < Limit[s]
        /\ Pipeline[t] # None => \A u \in Admitted : Pipeline[u] # Pipeline[t]
      BY <2>1 DEF Admission, Reserved
  <2>4. ASSUME NEW s \in Scopes PROVE Cardinality(Holding(s)') <= Limit[s]
    <3>1. Cardinality(Holding(s)) <= Limit[s]
        BY DEF Admission, AdmissionLimit, Holding
    <3>2. CASE s # Team[t]
      <4>1. Holding(s)' = Holding(s)
          BY <3>2, <2>2 DEF Holding
      <4> QED
          BY <4>1, <3>1
    <3>3. CASE s = Team[t]
      <4>1. Holding(s)' = Holding(s) \cup {t} /\ t \notin Holding(s)
          BY <3>3, <2>1, <2>2 DEF Holding
      <4>2. Cardinality(Holding(s)') = Cardinality(Holding(s)) + 1
          BY <4>1, HoldingFinite, FS_AddElement
      <4>3. Cardinality(Holding(s)) < Limit[s] /\ Cardinality(Holding(s)) \in Nat
          BY <2>3, <3>3, HoldingFinite
      <4> QED
          BY <4>2, <4>3, LimitType, SMT
    <3> QED
        BY <3>2, <3>3
  <2>5. AdmissionLimit'
      BY <2>4 DEF AdmissionLimit, Holding
  <2>6. AdmissionSerial'
      BY <2>2, <2>3, Zenon DEF Admission, AdmissionSerial
  <2>7. ASSUME NEW x \in Threads PROVE pc'[x] # "admitted"
      BY <1>2, <2>1, SMT DEF Commence, GoTo, Typed, TypeOK, Control, ControlOf, Spawning
  <2> QED
      BY <2>5, <2>6, <2>7 DEF Admission, Reserved
<1> QED
    BY <1>1, <1>2

LEMMA InitAdmission == Init => Admission
<1> SUFFICES ASSUME Init PROVE Admission
    OBVIOUS
<1>1. Admitted = {} /\ \A s : Holding(s) = {}
    BY DEF Init, Admitted, Running, Holding
<1>2. AdmissionLimit
    BY <1>1, FS_EmptySet, LimitType, SMT DEF AdmissionLimit, Holding
<1> QED
    BY <1>1, <1>2 DEF Init, Admission, AdmissionSerial, Reserved

LEMMA NextAdmission == Typed /\ Admission /\ [Next]_vars => Admission'
<1> SUFFICES ASSUME Typed, Admission, [Next]_vars PROVE Admission'
    OBVIOUS
<1>1. CASE \E th \in Threads : Dispatcher(th)
    BY <1>1, ScanHarmless, PickAdmission, CommenceAdmission, BindHarmless, RemarkHarmless,
       SpawnHarmless, LookHarmless, UnbindHarmless, HarmlessKeepsAdmission DEF Dispatcher
<1>2. CASE \E w \in Workers : Worker(w)
    BY <1>2, MarkHarmless, QuitHarmless, FinishHarmless, FinishAgainHarmless,
       HarmlessKeepsAdmission DEF Worker
<1>3. CASE \E c \in Callers : Handler(c)
    BY <1>3, StageHarmless, RecordHarmless, CommitStopHarmless, CommitRetryHarmless,
       CommitDeleteHarmless, HarmlessKeepsAdmission DEF Handler
<1>4. CASE \E c \in Callers, t \in Tasks : Request(c, t)
    BY <1>4, RequestHarmless, HarmlessKeepsAdmission
<1>5. CASE UNCHANGED vars
    BY <1>5, StutterHarmless, HarmlessKeepsAdmission
<1> QED
    BY <1>1, <1>2, <1>3, <1>4, <1>5 DEF Next

LEMMA AlwaysAdmission == Spec => []Admission
BY AlwaysTyped, InitAdmission, NextAdmission, PTL DEF Spec

\* The rows of a team that hold a slot never exceed the limit of the team.
THEOREM AdmissionLimitHolds == Spec => []AdmissionLimit
<1>1. Admission => AdmissionLimit
    BY DEF Admission
<1> QED
    BY AlwaysAdmission, <1>1, PTL

\* Two rows of one pipeline never hold a slot together.
THEOREM AdmissionSerialHolds == Spec => []AdmissionSerial
<1>1. Admission => AdmissionSerial
    BY DEF Admission
<1> QED
    BY AlwaysAdmission, <1>1, PTL

----------------------------------------------------------------------------
(* Deployments only.  No worker of a deployment writes running, so no row  *)
(* comes back and the limit that is admitted is the limit that is visible. *)

DeploysOnly == \A t \in Tasks : Kind[t] = "deploy"

NothingRevived ==
    /\ revived = {}
    /\ \A th \in Threads : pc[th] \notin {"bind", "remark", "mark"}

LEMMA NextRevivesNothing ==
    ASSUME DeploysOnly, Typed, NothingRevived, [Next]_vars PROVE NothingRevived'
<1> USE DEF DeploysOnly, NothingRevived, Typed, TypeOK, Control, ControlOf, NeedsCur, NeedsJob,
            Spawning, Threads
<1>1. CASE \E th \in Threads : Dispatcher(th)
  <2> SUFFICES ASSUME NEW th \in Threads, Dispatcher(th) PROVE NothingRevived'
      BY <1>1
  <2>1. CASE Scan(th)
      BY <2>1, SMT DEF Scan, Return, ReturnNested, Rest, Dispatch, GoTo, rows
  <2>2. CASE Pick(th)
      BY <2>2, SMT DEF Pick, NextCandidate, Return, Rest, GoTo, rows
  <2>3. CASE Commence(th)
      BY <2>3, SMT DEF Commence, NextCandidate, Return, Rest, GoTo, SetStatus
  <2>4. CASE Spawn(th)
      BY <2>4, SMT DEF Spawn, StartWorker, ReturnNested, Dispatch, SetStatus, GoTo, rows
  <2>5. CASE Look(th) \/ Unbind(th)
      BY <2>5, SMT DEF Look, Unbind, Dispatch, GoTo, rows
  <2> QED
      BY <2>1, <2>2, <2>3, <2>4, <2>5 DEF Dispatcher, Bind, Remark
<1>2. CASE \E w \in Workers : Worker(w)
  <2> SUFFICES ASSUME NEW w \in Workers, Worker(w) PROVE NothingRevived'
      BY <1>2
  <2>1. CASE Quit(w)
      BY <2>1, SMT DEF Quit, Rest, GoTo, rows
  <2>2. CASE Finish(w) \/ FinishAgain(w)
      BY <2>2, SMT DEF Finish, FinishAgain, WriteOutcome, Release, SetStatus, Rest, Dispatch, GoTo
  <2> QED
      BY <2>1, <2>2 DEF Worker, Mark
<1>3. CASE \E c \in Callers : Handler(c)
    BY <1>3, SMT DEF Handler, Stage, Record, CommitStop, CommitRetry, CommitDelete, Gone, Release,
       SetStatus, Rest, Dispatch, GoTo
<1>4. CASE \E c \in Callers, t \in Tasks : Request(c, t)
    BY <1>4, SMT DEF Request, Create, RequestStop, RequestRetry, RequestDelete, Expire, Begin,
       SetStatus, Dispatch, GoTo, rows
<1>5. CASE UNCHANGED vars
    BY <1>5 DEF vars
<1> QED
    BY <1>1, <1>2, <1>3, <1>4, <1>5 DEF Next

\* When every row is a deployment the running rows of a team never exceed its
\* limit, although deployments are stopped, retried and deleted while they run.
THEOREM DeploySlotLimit ==
    ASSUME DeploysOnly PROVE Spec => []SlotLimit
<1>1. Init => NothingRevived
    BY DEF Init, NothingRevived
<1>2. Typed /\ NothingRevived /\ [Next]_vars => NothingRevived'
    BY NextRevivesNothing
<1>3. AdmissionLimit /\ NothingRevived => SlotLimit
    BY DEF AdmissionLimit, SlotLimit, NothingRevived, Admitted
<1> QED
    BY <1>1, <1>2, <1>3, AlwaysTyped, AdmissionLimitHolds, PTL DEF Spec

----------------------------------------------------------------------------
(* No slot is lost.  A row becomes running in the hands of its starter, is *)
(* handed over to the worker, and has left running when the worker rests.  *)

USE ConstantsAssumption
    DEF ConstantsAssumption, Threads, Statuses, Terminal, Places, Spawning, NeedsCur,
        NeedsJob, Inside, Typed, TypeOK, Control, ControlOf, SlotHasWorker, Attended, Running

LEMMA ScanAttended ==
    ASSUME Typed, SlotHasWorker, NEW th \in Threads, Scan(th) PROVE SlotHasWorker'
BY SMTT(60)
   DEF Scan, Return, ReturnNested, Rest, Dispatch, GoTo, rows, Pending

LEMMA PickAttended ==
    ASSUME Typed, SlotHasWorker, NEW th \in Threads, Pick(th) PROVE SlotHasWorker'
BY SMTT(60)
   DEF Pick, NextCandidate, Return, Rest, GoTo, rows

LEMMA CommenceAttended ==
    ASSUME Typed, SlotHasWorker, NEW th \in Threads, Commence(th) PROVE SlotHasWorker'
BY SMTT(60)
   DEF Commence, NextCandidate, Return, Rest, GoTo, SetStatus, locals

LEMMA BindAttended ==
    ASSUME Typed, SlotHasWorker, NEW th \in Threads, Bind(th) PROVE SlotHasWorker'
BY SMTT(60)
   DEF Bind, GoTo, locals

LEMMA RemarkAttended ==
    ASSUME Typed, SlotHasWorker, NEW th \in Threads, Remark(th) PROVE SlotHasWorker'
BY SMTT(60)
   DEF Remark, MarkRunning, GoTo, locals

LEMMA SpawnAttended ==
    ASSUME Typed, SlotHasWorker, NEW th \in Threads, Spawn(th) PROVE SlotHasWorker'
BY SMTT(60)
   DEF Spawn, StartWorker, ReturnNested, Dispatch, SetStatus, GoTo, rows,
       locals

LEMMA LookAttended ==
    ASSUME Typed, SlotHasWorker, NEW th \in Threads, Look(th) PROVE SlotHasWorker'
BY SMTT(60)
   DEF Look, Binding, Dispatch, GoTo, rows

LEMMA UnbindAttended ==
    ASSUME Typed, SlotHasWorker, NEW th \in Threads, Unbind(th) PROVE SlotHasWorker'
BY SMTT(60)
   DEF Unbind, Dispatch, GoTo

LEMMA MarkAttended ==
    ASSUME Typed, SlotHasWorker, NEW w \in Workers, Mark(w) PROVE SlotHasWorker'
BY SMTT(60)
   DEF Mark, MarkRunning, Rest, GoTo, locals

LEMMA QuitAttended ==
    ASSUME Typed, SlotHasWorker, NEW w \in Workers, Quit(w) PROVE SlotHasWorker'
BY SMTT(60)
   DEF Quit, Rest, GoTo, rows

LEMMA FinishAttended ==
    ASSUME Typed, SlotHasWorker, NEW w \in Workers, Finish(w) PROVE SlotHasWorker'
BY SMTT(60)
   DEF Finish, SecondWrite, WriteOutcome, Release, SetStatus, Rest, Dispatch,
       GoTo

LEMMA FinishAgainAttended ==
    ASSUME Typed, SlotHasWorker, NEW w \in Workers, FinishAgain(w) PROVE SlotHasWorker'
BY SMTT(60)
   DEF FinishAgain, WriteOutcome, Release, SetStatus, Rest, Dispatch, GoTo

LEMMA StageAttended ==
    ASSUME Typed, SlotHasWorker, NEW c \in Callers, Stage(c) PROVE SlotHasWorker'
BY SMTT(60)
   DEF Stage, Dispatch, GoTo

LEMMA RecordAttended ==
    ASSUME Typed, SlotHasWorker, NEW c \in Callers, Record(c) PROVE SlotHasWorker'
BY SMTT(60)
   DEF Record, Rest, GoTo

LEMMA CommitStopAttended ==
    ASSUME Typed, SlotHasWorker, NEW c \in Callers, CommitStop(c) PROVE SlotHasWorker'
BY SMTT(60)
   DEF CommitStop, Gone, Release, SetStatus, Rest, Dispatch, GoTo

LEMMA CommitRetryAttended ==
    ASSUME Typed, SlotHasWorker, NEW c \in Callers, CommitRetry(c) PROVE SlotHasWorker'
BY SMTT(60)
   DEF CommitRetry, Gone, SetStatus, Rest, Dispatch, GoTo

LEMMA CommitDeleteAttended ==
    ASSUME Typed, SlotHasWorker, NEW c \in Callers, CommitDelete(c) PROVE SlotHasWorker'
BY SMTT(60)
   DEF CommitDelete, SetStatus, Rest, GoTo

LEMMA RequestAttended ==
    ASSUME Typed, SlotHasWorker, NEW c \in Callers, NEW t \in Tasks, Request(c, t)
    PROVE  SlotHasWorker'
BY SMTT(60)
   DEF Request, Create, RequestStop, RequestRetry, RequestDelete, Expire,
       Begin, SetStatus, Dispatch, GoTo, rows

LEMMA StutterAttended == SlotHasWorker /\ UNCHANGED vars => SlotHasWorker'
BY SMT DEF vars

LEMMA InitAttended == Init => SlotHasWorker
BY SMT DEF Init

HIDE ConstantsAssumption
     DEF ConstantsAssumption, Threads, Statuses, Terminal, Places, Spawning, NeedsCur,
         NeedsJob, Inside, Typed, TypeOK, Control, ControlOf, SlotHasWorker, Attended, Running

LEMMA NextAttended == Typed /\ SlotHasWorker /\ [Next]_vars => SlotHasWorker'
<1> SUFFICES ASSUME Typed, SlotHasWorker, [Next]_vars PROVE SlotHasWorker'
    OBVIOUS
<1>1. CASE \E th \in Threads : Dispatcher(th)
    BY <1>1, ScanAttended, PickAttended, CommenceAttended, BindAttended, RemarkAttended,
       SpawnAttended, LookAttended, UnbindAttended DEF Dispatcher
<1>2. CASE \E w \in Workers : Worker(w)
    BY <1>2, MarkAttended, QuitAttended, FinishAttended, FinishAgainAttended DEF Worker
<1>3. CASE \E c \in Callers : Handler(c)
    BY <1>3, StageAttended, RecordAttended, CommitStopAttended, CommitRetryAttended,
       CommitDeleteAttended DEF Handler
<1>4. CASE \E c \in Callers, t \in Tasks : Request(c, t)
    BY <1>4, RequestAttended
<1>5. CASE UNCHANGED vars
    BY <1>5, StutterAttended
<1> QED
    BY <1>1, <1>2, <1>3, <1>4, <1>5 DEF Next

\* Every running row is in the hands of its starter or of a worker.
THEOREM SlotHasWorkerHolds == Spec => []SlotHasWorker
BY AlwaysTyped, InitAttended, NextAttended, PTL DEF Spec

----------------------------------------------------------------------------
(* The queue implements TeamSlots.  A write of a status is an Enqueue, a   *)
(* Leave or a stutter; the write of the starter is an Admit.               *)

SlotStep == [Slots!Next]_<<Pending, Admitted>>

LEMMA EnqueueStep ==
    ASSUME Typed, NEW t \in Tasks, SetStatus(t, "pending") PROVE SlotStep
<1>1. Pending' = Pending \cup {t} /\ Admitted' = Admitted \ {t}
    BY SMT DEF SetStatus, Pending, Admitted, Running, Typed, TypeOK
<1> QED
    BY <1>1 DEF SlotStep, Slots!Next, Slots!Enqueue

LEMMA LeaveStep ==
    ASSUME Typed, NEW t \in Tasks, NEW s, s \notin {"pending", "running"}, SetStatus(t, s)
    PROVE  SlotStep
<1>1. Pending' = Pending \ {t} /\ Admitted' = Admitted \ {t}
    BY SMT DEF SetStatus, Pending, Admitted, Running, Typed, TypeOK
<1> QED
    BY <1>1 DEF SlotStep, Slots!Next, Slots!Leave

LEMMA MarkStep ==
    ASSUME Typed, NEW t \in Tasks, MarkRunning(t) PROVE SlotStep
<1>1. CASE status[t] \in {"absent", "running"}
  <2>1. Pending' = Pending /\ Admitted' = Admitted
      BY <1>1, SMT DEF MarkRunning, Pending, Admitted, Running, Typed, TypeOK
  <2> QED
      BY <2>1 DEF SlotStep
<1>2. CASE status[t] \notin {"absent", "running"}
  <2>1. Pending' = Pending \ {t} /\ Admitted' = Admitted \ {t}
      BY <1>2, SMT DEF MarkRunning, Pending, Admitted, Running, Typed, TypeOK
  <2> QED
      BY <2>1 DEF SlotStep, Slots!Next, Slots!Leave
<1> QED
    BY <1>1, <1>2

LEMMA StutterStep ==
    ASSUME UNCHANGED <<status, revived>> PROVE SlotStep
BY DEF SlotStep, Pending, Admitted, Running

LEMMA CommenceStep ==
    ASSUME Typed, Admission, NEW th \in Threads, Commence(th) PROVE SlotStep
<1>1. CASE status[cur[th]] # "pending"
    BY <1>1, StutterStep DEF Commence
<1>2. CASE status[cur[th]] = "pending"
  <2> DEFINE t == cur[th]
  <2>1. t \in Tasks /\ pc[th] = "admitted"
      BY <1>2, SMT DEF Commence, Typed, Control, ControlOf, NeedsCur
  <2>2. Pending' = Pending \ {t} /\ Admitted' = Admitted \cup {t} /\ t \in Pending
      BY <1>2, <2>1, SMT DEF Commence, SetStatus, Pending, Admitted, Running, Typed, TypeOK
  <2>3. Team[t] \in Scopes
      BY <2>1, ConstantsAssumption DEF ConstantsAssumption, Scopes
  <2>4. Cardinality(Slots!Mates(t)) < Limit[Team[t]]
      BY <2>1, <2>3 DEF Admission, Reserved, Holding, Slots!Mates
  <2>5. Slots!Rivals(t) = {}
      BY <2>1 DEF Admission, Reserved, Slots!Rivals
  <2>6. Slots!Cardinality(Slots!Mates(t)) = Cardinality(Slots!Mates(t))
      BY DEF Slots!Cardinality, Cardinality
  <2>7. Slots!Admit(t)
      BY <2>2, <2>4, <2>5, <2>6 DEF Slots!Admit
  <2> QED
      BY <2>1, <2>7 DEF SlotStep, Slots!Next
<1> QED
    BY <1>1, <1>2

LEMMA DispatcherStep ==
    ASSUME Typed, Admission, NEW th \in Threads, Dispatcher(th) PROVE SlotStep
<1>1. CASE Scan(th) \/ Pick(th) \/ Bind(th) \/ Look(th) \/ Unbind(th)
    BY <1>1, StutterStep DEF Scan, Pick, Bind, Look, Unbind, rows
<1>2. CASE Commence(th)
    BY <1>2, CommenceStep
<1>3. CASE Remark(th)
    BY <1>3, MarkStep DEF Remark, Typed, Control, ControlOf, NeedsCur, Spawning
<1>4. CASE Spawn(th)
  <2>1. cur[th] \in Tasks
      BY <1>4 DEF Spawn, Typed, Control, ControlOf, NeedsCur, Spawning
  <2> QED
      BY <1>4, <2>1, StutterStep, LeaveStep DEF Spawn, StartWorker, rows
<1> QED
    BY <1>1, <1>2, <1>3, <1>4 DEF Dispatcher

LEMMA WorkerStep ==
    ASSUME Typed, NEW w \in Workers, Worker(w) PROVE SlotStep
<1>1. w \in Threads
    BY DEF Threads
<1>2. pc[w] \in {"mark", "work", "again"} => job[w] \in Tasks
    BY <1>1 DEF Typed, Control, ControlOf, NeedsJob
<1>3. CASE Mark(w)
    BY <1>2, <1>3, MarkStep, StutterStep DEF Mark
<1>4. CASE Quit(w)
    BY <1>4, StutterStep DEF Quit, rows
<1>5. CASE Finish(w)
    BY <1>2, <1>5, LeaveStep, StutterStep DEF Finish, WriteOutcome
<1>6. CASE FinishAgain(w)
  <2>1. again[w] \in {"completed", "failed"}
      BY <1>1, <1>6 DEF FinishAgain, Typed, TypeOK, Control, ControlOf
  <2> QED
      BY <1>2, <1>6, <2>1, LeaveStep, StutterStep DEF FinishAgain, WriteOutcome
<1> QED
    BY <1>3, <1>4, <1>5, <1>6 DEF Worker

LEMMA HandlerStep ==
    ASSUME Typed, NEW c \in Callers, Handler(c) PROVE SlotStep
<1>1. c \in Threads
    BY DEF Threads
<1>2. pc[c] \in NeedsJob => job[c] \in Tasks
    BY <1>1 DEF Typed, Control, ControlOf
<1>3. CASE Stage(c) \/ Record(c)
    BY <1>3, StutterStep DEF Stage, Record
<1>4. CASE CommitStop(c)
    BY <1>2, <1>4, LeaveStep, StutterStep DEF CommitStop, Gone, NeedsJob
<1>5. CASE CommitRetry(c)
    BY <1>2, <1>5, EnqueueStep, StutterStep DEF CommitRetry, Gone, NeedsJob
<1>6. CASE CommitDelete(c)
    BY <1>2, <1>6, LeaveStep DEF CommitDelete, NeedsJob
<1> QED
    BY <1>3, <1>4, <1>5, <1>6 DEF Handler

LEMMA RequestStep ==
    ASSUME Typed, NEW c \in Callers, NEW t \in Tasks, Request(c, t) PROVE SlotStep
<1>1. CASE Create(c, t)
    BY <1>1, EnqueueStep DEF Create
<1>2. CASE RequestStop(c, t) \/ RequestRetry(c, t) \/ RequestDelete(c, t) \/ Expire(c, t)
    BY <1>2, StutterStep DEF RequestStop, RequestRetry, RequestDelete, Expire, Begin, rows
<1> QED
    BY <1>1, <1>2 DEF Request

LEMMA NextStep == Typed /\ Admission /\ [Next]_vars => SlotStep
<1> SUFFICES ASSUME Typed, Admission, [Next]_vars PROVE SlotStep
    OBVIOUS
<1>1. CASE UNCHANGED vars
    BY <1>1, StutterStep DEF vars
<1> QED
    BY <1>1, DispatcherStep, WorkerStep, HandlerStep, RequestStep DEF Next

LEMMA InitSlots == Init => Slots!Init
BY DEF Init, Slots!Init, Pending, Admitted, Running

\* The queue implements the allocation of team slots.
THEOREM Refinement == Spec => ImplementsTeamSlots
<1>1. Init => Slots!Init
    BY InitSlots
<1>2. Typed /\ Admission /\ [Next]_vars => [Slots!Next]_<<Pending, Admitted>>
    BY NextStep DEF SlotStep
<1>3. Spec => Slots!Init /\ [][Slots!Next]_<<Pending, Admitted>>
    BY <1>1, <1>2, AlwaysTyped, AlwaysAdmission, PTL DEF Spec
<1> QED
    BY <1>3 DEF ImplementsTeamSlots, Slots!Spec, Slots!slots

----------------------------------------------------------------------------
(* One worker for a row.  Only a retry makes a row pending while somebody  *)
(* still works on it, and retry is for deployments and exports.            *)

Reattempted(t) ==
    Kind[t] \in {"deploy", "export"} /\ \E c \in Callers : "retry" \in Duties[c]

Holds(th, t) ==
    \/ pc[th] \in Spawning /\ cur[th] = t
    \/ th \in Workers /\ pc[th] \in {"mark", "work"} /\ job[th] = t

RetryDecided == \A c \in Callers : pc[c] = "retry" => Reattempted(job[c])

\* A row that is not retried is in the hands of one thread, of none while it
\* waits.
Single ==
    \A t \in Tasks : ~Reattempted(t) =>
        /\ \A a, b \in Threads : Holds(a, t) /\ Holds(b, t) => a = b
        /\ status[t] = "pending" => \A th \in Threads : ~Holds(th, t)

SingleInv == RetryDecided /\ Single

\* A step that hands no row over, lets none wait again and decides no retry.
Calm ==
    /\ \A th \in Threads, t \in Tasks : Holds(th, t)' => Holds(th, t)
    /\ \A t \in Tasks : status'[t] = "pending" => status[t] = "pending"
    /\ \A c \in Callers : pc'[c] = "retry" => pc[c] = "retry" /\ job'[c] = job[c]

LEMMA CalmKeepsSingle == ASSUME SingleInv, Calm PROVE SingleInv'
<1>1. RetryDecided'
    BY DEF SingleInv, RetryDecided, Calm, Reattempted
<1>2. Single'
    BY DEF SingleInv, Single, Calm, Reattempted
<1> QED
    BY <1>1, <1>2 DEF SingleInv

(* Every action but Commence, Spawn, Create, RequestRetry and CommitRetry  *)
(* is calm.                                                                *)

USE ConstantsAssumption
    DEF ConstantsAssumption, Threads, Statuses, Terminal, Places, Spawning, NeedsCur,
        NeedsJob, Inside, Typed, TypeOK, Control, ControlOf, Calm, Holds

LEMMA ScanCalm ==
    ASSUME Typed, NEW th \in Threads, Scan(th) PROVE Calm
BY SMTT(60) DEF Scan, Return, ReturnNested, Rest, Dispatch, GoTo, rows, Pending

LEMMA PickCalm ==
    ASSUME Typed, NEW th \in Threads, Pick(th) PROVE Calm
BY SMTT(60) DEF Pick, NextCandidate, Return, Rest, GoTo, rows

LEMMA BindCalm ==
    ASSUME Typed, NEW th \in Threads, Bind(th) PROVE Calm
BY SMTT(60) DEF Bind, GoTo, locals

LEMMA RemarkCalm ==
    ASSUME Typed, NEW th \in Threads, Remark(th) PROVE Calm
BY SMTT(60) DEF Remark, MarkRunning, GoTo, locals

LEMMA LookCalm ==
    ASSUME Typed, NEW th \in Threads, Look(th) PROVE Calm
BY SMTT(60) DEF Look, Binding, Dispatch, GoTo, rows

LEMMA UnbindCalm ==
    ASSUME Typed, NEW th \in Threads, Unbind(th) PROVE Calm
BY SMTT(60) DEF Unbind, Dispatch, GoTo

LEMMA MarkCalm ==
    ASSUME Typed, NEW w \in Workers, Mark(w) PROVE Calm
BY SMTT(60) DEF Mark, MarkRunning, Rest, GoTo, locals

LEMMA QuitCalm ==
    ASSUME Typed, NEW w \in Workers, Quit(w) PROVE Calm
BY SMTT(60) DEF Quit, Rest, GoTo, rows

LEMMA FinishCalm ==
    ASSUME Typed, NEW w \in Workers, Finish(w) PROVE Calm
BY SMTT(60)
   DEF Finish, SecondWrite, WriteOutcome, Release, SetStatus, Rest, Dispatch, GoTo

LEMMA FinishAgainCalm ==
    ASSUME Typed, NEW w \in Workers, FinishAgain(w) PROVE Calm
BY SMTT(60) DEF FinishAgain, WriteOutcome, Release, SetStatus, Rest, Dispatch, GoTo

LEMMA StageCalm ==
    ASSUME Typed, NEW c \in Callers, Stage(c) PROVE Calm
BY SMTT(60) DEF Stage, Dispatch, GoTo

LEMMA RecordCalm ==
    ASSUME Typed, NEW c \in Callers, Record(c) PROVE Calm
BY SMTT(60) DEF Record, Rest, GoTo

LEMMA CommitStopCalm ==
    ASSUME Typed, NEW c \in Callers, CommitStop(c) PROVE Calm
BY SMTT(60) DEF CommitStop, Gone, Release, SetStatus, Rest, Dispatch, GoTo

LEMMA CommitDeleteCalm ==
    ASSUME Typed, NEW c \in Callers, CommitDelete(c) PROVE Calm
BY SMTT(60) DEF CommitDelete, SetStatus, Rest, GoTo

LEMMA DecisionCalm ==
    ASSUME Typed, NEW c \in Callers, NEW t \in Tasks,
           RequestStop(c, t) \/ RequestDelete(c, t) \/ Expire(c, t)
    PROVE  Calm
BY SMTT(60) DEF RequestStop, RequestDelete, Expire, Begin, GoTo, rows

LEMMA StutterCalm == UNCHANGED vars => Calm
BY SMT DEF vars

\* A starter that finds its row no longer pending hands nothing over.
LEMMA CommenceNotCalm ==
    ASSUME Typed, NEW th \in Threads, Commence(th), status[cur[th]] # "pending"
    PROVE  Calm
BY SMTT(60) DEF Commence, NextCandidate, Return, Rest, GoTo

HIDE DEF Calm, Holds

\* The starter takes a row that is in nobody's hands.
LEMMA CommenceSingle ==
    ASSUME Typed, SingleInv, NEW th \in Threads, Commence(th) PROVE SingleInv'
<1>1. CASE status[cur[th]] # "pending"
    BY <1>1, CommenceNotCalm, CalmKeepsSingle
<1>2. CASE status[cur[th]] = "pending"
  <2> DEFINE t == cur[th]
  <2>1. /\ \A x \in Threads : pc'[x] = "retry" => pc[x] = "retry"
        /\ \A x \in Threads, u \in Tasks : Holds(x, u)' => Holds(x, u) \/ (x = th /\ u = t)
        /\ \A u \in Tasks : status'[u] = "pending" => status[u] = "pending" /\ u # t
        /\ job' = job
      BY <1>2, SMTT(60) DEF Commence, SetStatus, GoTo, locals, Holds
  <2>2. RetryDecided'
      BY <2>1 DEF SingleInv, RetryDecided, Reattempted
  <2>3. Single'
      BY <1>2, <2>1 DEF SingleInv, Single, Reattempted
  <2> QED
      BY <2>2, <2>3 DEF SingleInv
<1> QED
    BY <1>1, <1>2

\* The starter hands its row over to a worker that was idle.
LEMMA SpawnSingle ==
    ASSUME Typed, SingleInv, NEW th \in Threads, Spawn(th) PROVE SingleInv'
<1>1. CASE \E w \in Workers : StartWorker(th, w)
  <2>1. PICK w \in Workers : StartWorker(th, w)
      BY <1>1
  <2>2. /\ Holds(th, cur[th])
        /\ cur[th] \in Tasks
        /\ \A x \in Threads : pc'[x] = "retry" => pc[x] = "retry" /\ job'[x] = job[x]
        /\ \A x \in Threads, u \in Tasks :
              Holds(x, u)' => (x # th /\ Holds(x, u)) \/ (x = w /\ u = cur[th])
        /\ status' = status
      BY <2>1, SMTT(60) DEF Spawn, StartWorker, rows, Holds
  <2>3. RetryDecided'
      BY <2>2 DEF SingleInv, RetryDecided, Reattempted
  <2>4. Single'
      BY <2>2 DEF SingleInv, Single, Reattempted
  <2> QED
      BY <2>3, <2>4 DEF SingleInv
<1>2. CASE ~\E w \in Workers : StartWorker(th, w)
  <2>1. Calm
      BY <1>2, SMTT(60)
         DEF Spawn, ReturnNested, Dispatch, SetStatus, GoTo, rows, locals, Calm, Holds
  <2> QED
      BY <2>1, CalmKeepsSingle
<1> QED
    BY <1>1, <1>2

\* A new row has no reference anywhere.
LEMMA CreateSingle ==
    ASSUME Typed, SingleInv, NEW c \in Callers, NEW t \in Tasks, Create(c, t) PROVE SingleInv'
<1>1. /\ \A x \in Threads : ~Holds(x, t)'
      /\ \A x \in Threads, u \in Tasks : Holds(x, u)' => Holds(x, u)
      /\ \A x \in Callers : pc'[x] = "retry" => pc[x] = "retry" /\ job'[x] = job[x]
      /\ \A u \in Tasks : status'[u] = "pending" => status[u] = "pending" \/ u = t
    BY SMTT(60) DEF Create, Unreferenced, SetStatus, Dispatch, GoTo, Holds
<1>2. RetryDecided'
    BY <1>1 DEF SingleInv, RetryDecided, Reattempted
<1>3. Single'
    BY <1>1 DEF SingleInv, Single, Reattempted
<1> QED
    BY <1>2, <1>3 DEF SingleInv

LEMMA RequestRetrySingle ==
    ASSUME Typed, SingleInv, NEW c \in Callers, NEW t \in Tasks, RequestRetry(c, t)
    PROVE  SingleInv'
<1>1. Reattempted(t)
    BY DEF RequestRetry, Retryable, Reattempted
<1>2. /\ \A x \in Threads, u \in Tasks : Holds(x, u)' => Holds(x, u)
      /\ \A x \in Callers : pc'[x] = "retry" =>
             (pc[x] = "retry" /\ job'[x] = job[x]) \/ job'[x] = t
      /\ status' = status
    BY SMTT(60) DEF RequestRetry, Begin, GoTo, rows, Holds
<1>3. RetryDecided'
    BY <1>1, <1>2 DEF SingleInv, RetryDecided, Reattempted
<1>4. Single'
    BY <1>2 DEF SingleInv, Single, Reattempted
<1> QED
    BY <1>3, <1>4 DEF SingleInv

LEMMA CommitRetrySingle ==
    ASSUME Typed, SingleInv, NEW c \in Callers, CommitRetry(c) PROVE SingleInv'
<1>1. Reattempted(job[c])
    BY DEF CommitRetry, SingleInv, RetryDecided
<1>2. /\ \A x \in Threads, u \in Tasks : Holds(x, u)' => Holds(x, u)
      /\ \A x \in Callers : pc'[x] = "retry" => pc[x] = "retry" /\ job'[x] = job[x]
      /\ \A u \in Tasks : status'[u] = "pending" => status[u] = "pending" \/ u = job[c]
    BY SMTT(60) DEF CommitRetry, Gone, SetStatus, Rest, Dispatch, GoTo, Holds
<1>3. RetryDecided'
    BY <1>2 DEF SingleInv, RetryDecided, Reattempted
<1>4. Single'
    BY <1>1, <1>2 DEF SingleInv, Single, Reattempted
<1> QED
    BY <1>3, <1>4 DEF SingleInv

LEMMA InitSingle == Init => SingleInv
BY SMT DEF Init, SingleInv, RetryDecided, Single, Holds

HIDE ConstantsAssumption
     DEF ConstantsAssumption, Threads, Statuses, Terminal, Places, Spawning, NeedsCur,
         NeedsJob, Inside, Typed, TypeOK, Control, ControlOf

LEMMA NextSingle == Typed /\ SingleInv /\ [Next]_vars => SingleInv'
<1> SUFFICES ASSUME Typed, SingleInv, [Next]_vars PROVE SingleInv'
    OBVIOUS
<1>1. CASE \E th \in Threads : Dispatcher(th)
    BY <1>1, ScanCalm, PickCalm, CommenceSingle, BindCalm, RemarkCalm, SpawnSingle, LookCalm,
       UnbindCalm, CalmKeepsSingle DEF Dispatcher
<1>2. CASE \E w \in Workers : Worker(w)
    BY <1>2, MarkCalm, QuitCalm, FinishCalm, FinishAgainCalm, CalmKeepsSingle DEF Worker
<1>3. CASE \E c \in Callers : Handler(c)
    BY <1>3, StageCalm, RecordCalm, CommitStopCalm, CommitRetrySingle, CommitDeleteCalm,
       CalmKeepsSingle DEF Handler
<1>4. CASE \E c \in Callers, t \in Tasks : Request(c, t)
    BY <1>4, CreateSingle, RequestRetrySingle, DecisionCalm, CalmKeepsSingle DEF Request
<1>5. CASE UNCHANGED vars
    BY <1>5, StutterCalm, CalmKeepsSingle
<1> QED
    BY <1>1, <1>2, <1>3, <1>4, <1>5 DEF Next

LEMMA AlwaysSingle == Spec => []SingleInv
BY InitSingle, NextSingle, AlwaysTyped, PTL DEF Spec

\* A row that two workers execute is one that may be retried.
SharedIsRetried ==
    \A v, w \in Workers :
        /\ v # w
        /\ pc[v] \in {"mark", "work"}
        /\ pc[w] \in {"mark", "work"}
        /\ job[v] = job[w]
        => Reattempted(job[v])

\* Two workers that execute the same row execute a deployment or an export that
\* may be retried.  A build is never executed twice at a time, also when it is
\* stopped, started and deleted at the same moment.
THEOREM OnlyRetriesShare == Spec => []SharedIsRetried
<1>1. Typed /\ SingleInv => SharedIsRetried
  <2> SUFFICES ASSUME Typed, SingleInv, NEW v \in Workers, NEW w \in Workers, v # w,
                      pc[v] \in {"mark", "work"}, pc[w] \in {"mark", "work"}, job[v] = job[w]
               PROVE  Reattempted(job[v])
      BY DEF SharedIsRetried
  <2>1. v \in Threads /\ w \in Threads /\ job[v] \in Tasks
      BY DEF Threads, Typed, Control, ControlOf, NeedsJob
  <2>2. Holds(v, job[v]) /\ Holds(w, job[v])
      BY DEF Holds
  <2> QED
      BY <2>1, <2>2 DEF SingleInv, Single
<1> QED
    BY <1>1, AlwaysTyped, AlwaysSingle, PTL

\* Where nothing is retried, a row is executed by one worker at a time.
THEOREM OneWorker ==
    ASSUME \A c \in Callers : "retry" \notin Duties[c]
    PROVE  Spec => []OneWorkerPerTask
<1>1. SharedIsRetried => OneWorkerPerTask
    BY DEF SharedIsRetried, OneWorkerPerTask, Reattempted
<1> QED
    BY <1>1, OnlyRetriesShare, PTL

----------------------------------------------------------------------------
(* No lost wake-up.  A row that could be started is considered by some     *)
(* thread: one that will read the queue again before it leaves the         *)
(* dispatcher, or one that has the row among its candidates.               *)

Awake == Spawning \cup {"stage", "scan", "look", "unbind"}

Considers(th, t) ==
    \/ pc[th] \in Awake
    \/ pc[th] = "pick" /\ t \in cands[th]
    \/ pc[th] = "admitted" /\ t \in cands[th] \cup {cur[th]}

Woken == \A t \in Pending : CanStart(t) => \E th \in Threads : Considers(th, t)

\* The handlers that give a slot back and do not dispatch: stop_task of a row it
\* read as pending, and the deletions, when the row they commit on runs.
SilentRelease ==
    \E c \in Callers :
        /\ pc[c] \in {"stopPending", "delete"}
        /\ pc'[c] = "idle"
        /\ status[job[c]] = "running"

\* A step after which some thread will read the queue again.
Wakes == \E th \in Threads : pc'[th] \in Awake

\* A step that gives no slot back, lets no row wait, and after which every row
\* that could be started is still considered.
Steady ==
    /\ Running \subseteq Running'
    /\ Pending' \subseteq Pending
    /\ \A th \in Threads, t \in Pending :
          CanStart(t) /\ Considers(th, t) => Considers(th, t)'

\* More running rows, fewer rows that can be started.
LEMMA CanStartShrinks ==
    ASSUME Running \subseteq Running', NEW t \in Tasks, CanStart(t)' PROVE CanStart(t)
<1> DEFINE R == Running \cap Counted(Team[t])
<1>1. R \subseteq R' /\ R' \subseteq Tasks
    BY DEF Running, Counted
<1>2. IsFiniteSet(R')
    BY <1>1, ConstantsAssumption, FS_Subset DEF ConstantsAssumption
<1>3. IsFiniteSet(R) /\ Cardinality(R) <= Cardinality(R')
    BY <1>1, <1>2, FS_Subset
<1>4. Cardinality(R) \in Nat /\ Cardinality(R') \in Nat
    BY <1>2, <1>3, FS_CardinalityType
<1>5. Limit[Team[t]] \in Nat
    BY ConstantsAssumption, LimitType DEF ConstantsAssumption, Scopes
<1>6. Cardinality(R') < Limit[Team[t]]
    BY DEF CanStart
<1>7. Cardinality(R) < Limit[Team[t]]
    BY <1>3, <1>4, <1>5, <1>6, SMT
<1>8. ~PipelineBusy(Pipeline[t])
    BY DEF CanStart, PipelineBusy
<1> QED
    BY <1>7, <1>8 DEF CanStart

LEMMA WakesKeepsWoken == Wakes => Woken'
BY DEF Wakes, Woken, Considers

LEMMA SteadyKeepsWoken == ASSUME Woken, Steady PROVE Woken'
<1> SUFFICES ASSUME NEW t \in Pending', CanStart(t)'
             PROVE  \E th \in Threads : Considers(th, t)'
    BY DEF Woken
<1>1. t \in Pending /\ t \in Tasks
    BY DEF Steady, Pending
<1>2. CanStart(t)
    BY <1>1, CanStartShrinks DEF Steady
<1>3. PICK th \in Threads : Considers(th, t)
    BY <1>1, <1>2 DEF Woken
<1> QED
    BY <1>1, <1>2, <1>3 DEF Steady

USE ConstantsAssumption
    DEF ConstantsAssumption, Threads, Statuses, Terminal, Places, Spawning, NeedsCur, NeedsJob,
        Inside, Typed, TypeOK, Control, ControlOf, Considers, Awake, Wakes, Steady, Running, Pending

\* A dispatcher that finds rows has all of them as candidates; it leaves when
\* there are none.
LEMMA ScanWoken ==
    ASSUME Typed, NEW th \in Threads, Scan(th) PROVE Woken'
<1>1. Pending' = Pending
    BY DEF Scan, rows
<1>2. Pending # {} => pc'[th] = "pick" /\ cands'[th] = Pending
    BY SMT DEF Scan, GoTo
<1> QED
    BY <1>1, <1>2 DEF Woken

\* A candidate is dropped only when it cannot be started.
LEMMA PickSteady ==
    ASSUME Typed, NEW th \in Threads, Pick(th) PROVE Steady
BY SMTT(60) DEF Pick, NextCandidate, Return, Rest, GoTo, rows

\* A starter writes running, or its row no longer waits.
LEMMA CommenceSteady ==
    ASSUME Typed, NEW th \in Threads, Commence(th) PROVE Steady \/ Wakes
BY SMTT(60) DEF Commence, NextCandidate, Return, Rest, GoTo, SetStatus, locals

LEMMA DispatcherWakes ==
    ASSUME Typed, NEW th \in Threads,
           Bind(th) \/ Remark(th) \/ Spawn(th) \/ Look(th) \/ Unbind(th)
    PROVE  Wakes
BY SMTT(60)
   DEF Bind, Remark, Spawn, StartWorker, ReturnNested, Look, Unbind, Dispatch, GoTo, locals

LEMMA MarkSteady ==
    ASSUME Typed, NEW w \in Workers, Mark(w) PROVE Steady
BY SMTT(60) DEF Mark, MarkRunning, Rest, GoTo, locals

LEMMA QuitSteady ==
    ASSUME Typed, NEW w \in Workers, Quit(w) PROVE Steady
BY SMTT(60) DEF Quit, Rest, GoTo, rows

\* An outcome is followed by a look at the queue, unless the row is gone.
LEMMA FinishWoken ==
    ASSUME Typed, NEW w \in Workers, Finish(w) PROVE Steady \/ Wakes
BY SMTT(60)
   DEF Finish, SecondWrite, WriteOutcome, Release, SetStatus, Rest, Dispatch, GoTo

LEMMA FinishAgainWoken ==
    ASSUME Typed, NEW w \in Workers, FinishAgain(w) PROVE Steady \/ Wakes
BY SMTT(60) DEF FinishAgain, WriteOutcome, Release, SetStatus, Rest, Dispatch, GoTo

LEMMA StageWakes ==
    ASSUME Typed, NEW c \in Callers, Stage(c) PROVE Wakes
BY SMTT(60) DEF Stage, Dispatch, GoTo

LEMMA RecordSteady ==
    ASSUME Typed, NEW c \in Callers, Record(c) PROVE Steady
BY SMTT(60) DEF Record, Rest, GoTo

\* A stop of a row it read as running dispatches; one of a row it read as
\* pending gives back no slot when the row does not run.
LEMMA CommitStopWoken ==
    ASSUME Typed, NEW c \in Callers, CommitStop(c), ~SilentRelease PROVE Steady \/ Wakes
BY SMTT(60)
   DEF CommitStop, Gone, Release, SetStatus, Rest, Dispatch, GoTo, SilentRelease

LEMMA CommitRetryWoken ==
    ASSUME Typed, NEW c \in Callers, CommitRetry(c) PROVE Steady \/ Wakes
BY SMTT(60) DEF CommitRetry, Gone, SetStatus, Rest, Dispatch, GoTo

LEMMA CommitDeleteSteady ==
    ASSUME Typed, NEW c \in Callers, CommitDelete(c), ~SilentRelease PROVE Steady
BY SMTT(60) DEF CommitDelete, SetStatus, Rest, GoTo, SilentRelease

LEMMA RequestWoken ==
    ASSUME Typed, NEW c \in Callers, NEW t \in Tasks, Request(c, t) PROVE Steady \/ Wakes
BY SMTT(60)
   DEF Request, Create, RequestStop, RequestRetry, RequestDelete, Expire, Begin, SetStatus,
       Dispatch, GoTo, rows

LEMMA InitWoken == Init => Woken
BY SMT DEF Init, Woken

HIDE ConstantsAssumption
     DEF ConstantsAssumption, Threads, Statuses, Terminal, Places, Spawning, NeedsCur, NeedsJob,
         Inside, Typed, TypeOK, Control, ControlOf, Considers, Awake, Wakes, Steady, Running, Pending

LEMMA NextWoken == Typed /\ Woken /\ [Next]_vars /\ [~SilentRelease]_vars => Woken'
<1> SUFFICES ASSUME Typed, Woken, [Next]_vars, [~SilentRelease]_vars PROVE Woken'
    OBVIOUS
<1>1. CASE UNCHANGED vars
    BY <1>1 DEF vars, Woken, Pending, CanStart, Running, PipelineBusy, Considers
<1> SUFFICES ASSUME Next, ~SilentRelease PROVE Woken'
    BY <1>1
<1>2. CASE \E th \in Threads : Dispatcher(th)
    BY <1>2, ScanWoken, PickSteady, CommenceSteady, DispatcherWakes, SteadyKeepsWoken,
       WakesKeepsWoken DEF Dispatcher
<1>3. CASE \E w \in Workers : Worker(w)
    BY <1>3, MarkSteady, QuitSteady, FinishWoken, FinishAgainWoken, SteadyKeepsWoken,
       WakesKeepsWoken DEF Worker
<1>4. CASE \E c \in Callers : Handler(c)
    BY <1>4, StageWakes, RecordSteady, CommitStopWoken, CommitRetryWoken, CommitDeleteSteady,
       SteadyKeepsWoken, WakesKeepsWoken DEF Handler
<1>5. CASE \E c \in Callers, t \in Tasks : Request(c, t)
    BY <1>5, RequestWoken, SteadyKeepsWoken, WakesKeepsWoken
<1> QED
    BY <1>2, <1>3, <1>4, <1>5 DEF Next

LEMMA WokenIsEnough == Woken => QueueNotStranded
BY DEF Woken, QueueNotStranded, Quiet, Considers, Awake

\* A row that could be started waits unnoticed only after a handler has given a
\* slot back in silence: a stop decided on a row that was pending, or a deletion,
\* that commits when the row runs.  No other interleaving strands the queue.
THEOREM StrandedOnlyBySilence == Spec /\ [][~SilentRelease]_vars => []QueueNotStranded
BY InitWoken, NextWoken, WokenIsEnough, AlwaysTyped, PTL DEF Spec

\* Threads that neither stop nor delete rows release nothing in silence.
NoWithdrawals == \A c \in Callers : Duties[c] \cap {"stop", "delete", "expire"} = {}

NothingWithdrawn == \A c \in Callers : pc[c] \notin {"stopPending", "delete"}

LEMMA NextWithdrawsNothing ==
    ASSUME NoWithdrawals, Typed, NothingWithdrawn, [Next]_vars PROVE NothingWithdrawn'
<1> USE DEF NoWithdrawals, NothingWithdrawn, Typed, TypeOK, Threads
<1>1. CASE \E th \in Threads : Dispatcher(th)
    BY <1>1, SMTT(60)
       DEF Dispatcher, Scan, Pick, Commence, Bind, Remark, Spawn, Look, Unbind, StartWorker,
           NextCandidate, Return, ReturnNested, Rest, Dispatch, GoTo, locals
<1>2. CASE \E w \in Workers : Worker(w)
    BY <1>2, SMTT(60)
       DEF Worker, Mark, Quit, Finish, FinishAgain, WriteOutcome, Release, Rest, Dispatch, GoTo
<1>3. CASE \E c \in Callers : Handler(c)
    BY <1>3, SMTT(60)
       DEF Handler, Stage, Record, CommitStop, CommitRetry, CommitDelete, Gone, Release, Rest,
           Dispatch, GoTo
<1>4. CASE \E c \in Callers, t \in Tasks : Request(c, t)
    BY <1>4, SMTT(60)
       DEF Request, Create, RequestStop, RequestRetry, RequestDelete, Expire, Begin, Dispatch, GoTo
<1>5. CASE UNCHANGED vars
    BY <1>5 DEF vars
<1> QED
    BY <1>1, <1>2, <1>3, <1>4, <1>5 DEF Next

\* Where rows are created, scheduled and retried, and neither stopped nor deleted,
\* no row that could be started waits unnoticed.
THEOREM NeverStranded ==
    ASSUME NoWithdrawals PROVE Spec => []QueueNotStranded
<1>1. Init => NothingWithdrawn
    BY DEF Init, NothingWithdrawn, Threads
<1>2. Typed /\ NothingWithdrawn /\ [Next]_vars => NothingWithdrawn'
    BY NextWithdrawsNothing
<1>3. NothingWithdrawn => ~SilentRelease
    BY DEF NothingWithdrawn, SilentRelease
<1> QED
    BY <1>1, <1>2, <1>3, AlwaysTyped, StrandedOnlyBySilence, PTL DEF Spec

============================================================================
