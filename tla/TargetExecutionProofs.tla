------------------------ MODULE TargetExecutionProofs ------------------------
(***************************************************************************)
(* Theorems about TargetExecution, for any configurations of a target, any *)
(* services, executions, attempts, late requests and crashes.              *)
(***************************************************************************)
EXTENDS TargetExecution, TLAPS

USE TargetAssumption

(***************************************************************************)
(* The inductive invariant.  Where an execution can be:                    *)
(***************************************************************************)
Mine ==
    CASE ByPortainer -> {"remove", "select", "look", "create", "pull", "put", "list", "each",
                         "again", "result", "confirm", "verify"}
      [] how.by = "sshRun" -> {"clean", "run"}
      [] how.by = "sshSteps" -> {"clean", "run", "conflict", "rerun"}
      [] how.by = "sshCompose" -> {"clean", "write", "up"}
      [] how.by = "agentRun" -> {"login", "clean", "run", "conflict", "rerun"}
      [] how.by = "agentCompose" -> {"login", "clean", "up", "conflict", "rerun"}

\* The last execution is one that has begun.
OrderInv == IF newest = None THEN Begun = {} ELSE newest \in Begun

PlaceInv ==
    \A e \in Execs :
        /\ ex[e].at \in {"idle", "done", "dead"} \cup Mine
        /\ ex[e].at \in {"remove", "clean"} => ex[e].remove
        /\ ex[e].at \notin {"verify", "done"} => ex[e].basis = "none"
        /\ ex[e].answer = "ok" => ex[e].at = "done"
        /\ ex[e].todo \subseteq Parts

\* It failed or was cut off.
Fallen(e) == ex[e].at \in {"done", "dead"} /\ ex[e].basis = "none"

\* A request that is late is a put or the creation of a Stack, or it was the last of its
\* execution.
LateInv ==
    \A e \in Execs : \A q : <<e, q>> \in late =>
        /\ e \in Begun
        /\ q \notin {"put", "create"} => Fallen(e)
        /\ IF ByPortainer THEN q \in {"put", "create", "delete"}
           ELSE /\ BySsh
                /\ \A r : <<e, r>> \in late => r = q
                /\ q \in IF how.by = "sshCompose" THEN {"down", "up"} ELSE {"drop", "run"}
        /\ q \in {"delete", "down"} => ex[e].remove

\* An attempt in which nothing went wrong
Flawless(e) == ex[e].bad = {}

\* What ran, was written or pulled belongs to an execution that has begun.  When a tag moves,
\* the last execution has pulled what it updates to, and nothing else runs it before.
ImageInv ==
    /\ \A s \in Services : runs[s] \in Begun \cup {Old, None}
    /\ text \in Begun \cup {Old, None} /\ local \in Begun \cup {Old, None}
    /\ how.moving /\ newest # None =>
          /\ ~how.swarm => \A s \in Services : (runs[s] = newest => local = newest)
          /\ \/ ex[newest].at \in {"put", "list", "each", "again", "result"} /\ Flawless(newest)
             \/ ex[newest].at \in {"verify", "done"} /\ ex[newest].basis = "release"
             => local = newest

(***************************************************************************)
(* What the last execution has reached while no other disturbed it, and    *)
(* what it is not going to take away.  A part that is left alone may keep  *)
(* what it runs.                                                           *)
(***************************************************************************)
Seen == {s \in Parts : ~LeftAlone(s)}

Reached(e) ==
    /\ ex[e].at = "list" /\ Flawless(e) =>
          \A s \in Parts : runs[s] = e \/ (how.moving /\ runs[s] # None)
    /\ ex[e].at = "each" /\ Flawless(e) =>
          \A s \in Seen : runs[s] = e \/ s \in ex[e].todo \/ (~how.swarm /\ runs[s] = None)
    /\ ex[e].at = "again" /\ Flawless(e) => \A s \in Seen : runs[s] \in {e, None}
    /\ \/ ex[e].at = "result" /\ Flawless(e)
       \/ ex[e].at \in {"verify", "done"} /\ ex[e].basis = "release"
       => \A s \in Seen : runs[s] = e

Spares(e) ==
    /\ how.by \in Ssh /\ how.by # "sshCompose" /\ ~ex[e].remove =>
          (ex[e].at \in {"run", "conflict"} \/ <<e, "drop">> \in late => runs[Main] # e)
    /\ how.by = "sshCompose" => (ex[e].at = "up" \/ <<e, "up">> \in late => text = e)

EffectInv ==
    newest # None =>
        /\ ~disturbed => Reached(newest) /\ Spares(newest)
        /\ ~how.swarm /\ ex[newest].at = "each" =>
              \A s \in ex[newest].todo \cap fresh[newest] : runs[s] # newest

(***************************************************************************)
(* Whether executions side by side leave a mixture.  An execution that is  *)
(* under way or failed may; one that could succeed from where it is may    *)
(* only as far as it has still to work on a part.                          *)
(***************************************************************************)
Clean(e) ==
    \/ ex[e].at \in {"list", "result"} /\ Flawless(e)
    \/ ex[e].at = "each" /\ Flawless(e) /\ (how.moving \/ how.swarm)
    \/ ex[e].at = "again" /\ Flawless(e) /\ how.moving
    \/ ex[e].at \in {"verify", "done"} /\ ex[e].basis = "release"

Settled == Begun # {} /\ \A e \in Begun : Clean(e)

WorksOn(e, s) ==
    \/ ex[e].at = "list" /\ runs[s] # None
    \/ ex[e].at = "each" /\ (s \in ex[e].todo \/ (~how.swarm /\ runs[s] = None))
    \/ ex[e].at = "again" /\ runs[s] = None

Updates(e, s) == ex[e].at = "each" /\ s \in ex[e].todo

MovingWhole == \A s \in Seen : runs[s] = newest \/ \E e \in Begun : WorksOn(e, s)

\* Of two executions that update the services of a Swarm one by one, the one that meets a
\* service the other was at first fails.
FixedWhole ==
    /\ \A s \in Parts : runs[s] # None
    /\ \E r \in Releases : \A s \in Parts : runs[s] = r \/ \E e \in Begun : Updates(e, s)
    /\ \A e \in Begun : \A s, z \in Parts :
          Updates(e, s) /\ s \in fresh[e] /\ z \notin ex[e].todo =>
             /\ runs[z] = e \/ \E f \in Begun : f # e /\ Updates(f, s)
             /\ \A f \in Begun : ex[f].at = "each" /\ s \notin ex[f].todo => z \notin fresh[f]

WholeInv == Settled => IF how.moving THEN MovingWhole ELSE FixedWhole

IInv ==
    /\ TypeOK /\ OrderInv /\ PlaceInv /\ LateInv
    /\ ImageInv /\ EffectInv /\ WholeInv

-----------------------------------------------------------------------------
(* The configuration, and what is inferred from it. *)

LEMMA HowIs ==
    ASSUME how \in Hows
    PROVE  /\ how.by \in Portainer \cup Agent \cup Ssh
           /\ how.swarm \in BOOLEAN /\ how.moving \in BOOLEAN /\ how.lenient \in BOOLEAN
           /\ how.swarm => how.by \in {"name", "id"}
           /\ how.moving => ByPortainer
           /\ ByPortainer <=> how.by \notin Agent \cup Ssh
           /\ Parts \subseteq Services /\ Main \in Parts
           /\ ~ByPortainer /\ how.by \notin {"sshCompose", "agentCompose"} => Parts = {Main}
<1>1. how \in AllHows
  OBVIOUS
<1> QED
  BY <1>1 DEF AllHows, Portainer, Agent, Ssh, ByPortainer, Parts

LEMMA SeenIs ==
    /\ Seen \subseteq Parts
    /\ ~how.moving \/ how.swarm => Seen = Parts
    /\ UNCHANGED how => Parts' = Parts /\ Seen' = Seen
BY DEF Seen, LeftAlone, Parts

\* What the place of an execution says of the configuration, and the other way round
LEMMA MineIs ==
    ASSUME how \in Hows, NEW e \in Execs, ex[e].at \in {"idle", "done", "dead"} \cup Mine
    PROVE  /\ ex[e].at \in {"remove", "select", "look", "create", "pull", "put", "list", "each",
                            "again", "result", "confirm", "verify"} => ByPortainer
           /\ ex[e].at \in {"clean", "run", "write", "up", "conflict", "rerun", "login"}
                => ~ByPortainer
           /\ ex[e].at = "write" => how.by = "sshCompose"
           /\ ex[e].at = "up" => how.by \in {"sshCompose", "agentCompose"}
           /\ ex[e].at = "run" => how.by \in {"sshRun", "sshSteps", "agentRun"}
           /\ ex[e].at \in {"conflict", "rerun"} => how.by \in {"sshSteps"} \cup Agent
           /\ ex[e].at = "login" => how.by \in Agent
           /\ ex[e].at \in Places
<1>1. \/ ByPortainer
      \/ how.by \in {"sshRun", "sshSteps", "sshCompose", "agentRun", "agentCompose"}
  BY HowIs DEF Agent, Ssh, ByPortainer
<1>2. CASE ByPortainer
  <2>1. /\ how.by \notin {"sshRun", "sshSteps", "sshCompose", "agentRun", "agentCompose"}
        /\ how.by \notin Agent
    BY <1>2 DEF ByPortainer, Portainer, Agent
  <2>2. Mine = {"remove", "select", "look", "create", "pull", "put", "list", "each",
                "again", "result", "confirm", "verify"}
    BY <1>2, <2>1 DEF Mine
  <2> QED
    BY <1>2, <2>1, <2>2 DEF Places
<1>3. CASE ~ByPortainer
  BY <1>1, <1>3 DEF Mine, Places, Agent
<1> QED
  BY <1>2, <1>3

-----------------------------------------------------------------------------
(* The record of an execution. *)

Jobs == [at : Places, try : 1..Attempts, bad : SUBSET {"pull", "work"}, again : BOOLEAN,
         todo : SUBSET Services, remove : BOOLEAN, basis : {"none", "release", "guess"},
         answer : {"none", "ok", "failed"}]

LEMMA JobFields ==
    ASSUME NEW j \in Jobs
    PROVE  /\ j.at \in Places /\ j.try \in 1..Attempts /\ j.bad \in SUBSET {"pull", "work"}
           /\ j.again \in BOOLEAN /\ j.todo \in SUBSET Services /\ j.remove \in BOOLEAN
           /\ j.basis \in {"none", "release", "guess"} /\ j.answer \in {"none", "ok", "failed"}
           /\ j = [at |-> j.at, try |-> j.try, bad |-> j.bad, again |-> j.again,
                   todo |-> j.todo, remove |-> j.remove, basis |-> j.basis,
                   answer |-> j.answer]
  BY DEF Jobs

LEMMA BlankIs == Blank \in Jobs
  BY DEF Blank, Jobs, Places

\* Only e has moved, and it keeps its instruction to remove what is there.
Moves(e) ==
    /\ ex' \in [Execs -> Jobs]
    /\ \A f \in Execs : f # e => ex'[f] = ex[f]
    /\ ex'[e].remove = ex[e].remove

LEMMA GoIs ==
    ASSUME ex \in [Execs -> Jobs], NEW e \in Execs, NEW place \in Places, Go(e, place)
    PROVE  /\ Moves(e)
           /\ ex'[e].at = place /\ ex'[e].bad = ex[e].bad /\ ex'[e].todo = ex[e].todo
           /\ ex'[e].basis = ex[e].basis /\ ex'[e].answer = ex[e].answer
<1>1. PICK j : j = [ex[e] EXCEPT !.at = place]
  OBVIOUS
<1>2. ex' = [ex EXCEPT ![e] = j]
  BY <1>1 DEF Go
<1>3. ex[e] \in Jobs
  OBVIOUS
<1>4. j = [at |-> place, try |-> ex[e].try, bad |-> ex[e].bad, again |-> ex[e].again,
           todo |-> ex[e].todo, remove |-> ex[e].remove, basis |-> ex[e].basis,
           answer |-> ex[e].answer]
  BY <1>1, <1>3 DEF Jobs
<1>5. j \in Jobs
  BY <1>3, <1>4, JobFields DEF Jobs
<1> QED
  BY <1>2, <1>4, <1>5 DEF Moves

LEMMA GoOnIs ==
    ASSUME ex \in [Execs -> Jobs], NEW e \in Execs, NEW place \in Places,
           NEW basis \in {"none", "release", "guess"}, GoOn(e, place, basis)
    PROVE  /\ Moves(e)
           /\ ex'[e].at = place /\ ex'[e].bad = ex[e].bad /\ ex'[e].todo = ex[e].todo
           /\ ex'[e].basis = basis /\ ex'[e].answer = ex[e].answer
<1>1. PICK j : j = [ex[e] EXCEPT !.at = place, !.basis = basis]
  OBVIOUS
<1>2. ex' = [ex EXCEPT ![e] = j]
  BY <1>1 DEF GoOn
<1>3. ex[e] \in Jobs
  OBVIOUS
<1>4. j = [at |-> place, try |-> ex[e].try, bad |-> ex[e].bad, again |-> ex[e].again,
           todo |-> ex[e].todo, remove |-> ex[e].remove, basis |-> basis,
           answer |-> ex[e].answer]
  BY <1>1, <1>3 DEF Jobs
<1>5. j \in Jobs
  BY <1>3, <1>4, JobFields DEF Jobs
<1> QED
  BY <1>2, <1>4, <1>5 DEF Moves

LEMMA EndedIs ==
    ASSUME ex \in [Execs -> Jobs], NEW e \in Execs, NEW place \in {"done", "dead"},
           NEW a \in {"none", "ok", "failed"}, NEW basis \in {"none", "release", "guess"}
    PROVE  /\ Ended(e, place, a, basis) \in Jobs
           /\ Ended(e, place, a, basis).at = place /\ Ended(e, place, a, basis).answer = a
           /\ Ended(e, place, a, basis).basis = basis /\ Ended(e, place, a, basis).todo = {}
           /\ Ended(e, place, a, basis).remove = ex[e].remove
<1>1. PICK j : j = Ended(e, place, a, basis)
  OBVIOUS
<1>2. j = [at |-> place, try |-> 1, bad |-> {}, again |-> FALSE, todo |-> {},
           remove |-> ex[e].remove, basis |-> basis, answer |-> a]
  BY <1>1 DEF Ended, Blank
<1>3. place \in Places /\ ex[e].remove \in BOOLEAN
  BY JobFields DEF Places
<1>4. j \in Jobs
  BY <1>2, <1>3 DEF Jobs
<1> QED
  BY <1>1, <1>2, <1>4

LEMMA AnswerIs ==
    ASSUME ex \in [Execs -> Jobs], NEW e \in Execs, NEW a \in {"ok", "failed"}, Answer(e, a)
    PROVE  /\ Moves(e) /\ ex'[e].at = "done" /\ ex'[e].todo = {}
           /\ ex'[e].basis = ex[e].basis /\ ex'[e].answer = a
<1>1. PICK j : j = Ended(e, "done", a, ex[e].basis)
  OBVIOUS
<1>2. ex' = [ex EXCEPT ![e] = j]
  BY <1>1 DEF Answer
<1>3. ex[e].basis \in {"none", "release", "guess"}
  BY JobFields
<1> QED
  BY <1>1, <1>2, <1>3, EndedIs DEF Moves

LEMMA SuccessIs ==
    ASSUME ex \in [Execs -> Jobs], NEW e \in Execs, NEW basis \in {"release", "guess"},
           Success(e, basis)
    PROVE  /\ Moves(e) /\ ex'[e].at = "done" /\ ex'[e].todo = {}
           /\ ex'[e].basis = basis /\ ex'[e].answer = "ok"
<1>1. PICK j : j = Ended(e, "done", "ok", basis)
  OBVIOUS
<1>2. ex' = [ex EXCEPT ![e] = j]
  BY <1>1 DEF Success
<1> QED
  BY <1>1, <1>2, EndedIs DEF Moves

LEMMA BlankedIs ==
    ASSUME ex \in [Execs -> Jobs], NEW e \in Execs, Fails(e)
    PROVE  \/ Answer(e, "failed")
           \/ /\ Moves(e) /\ ex'[e].at = "confirm" /\ ex'[e].todo = ex[e].todo
              /\ ex'[e].basis = ex[e].basis /\ ex'[e].answer = ex[e].answer
<1>1. SUFFICES ASSUME ~Answer(e, "failed")
               PROVE  /\ Moves(e) /\ ex'[e].at = "confirm" /\ ex'[e].todo = ex[e].todo
                      /\ ex'[e].basis = ex[e].basis /\ ex'[e].answer = ex[e].answer
  OBVIOUS
<1>2. PICK j : j = [ex[e] EXCEPT !.at = "confirm", !.bad = {}, !.again = FALSE]
  OBVIOUS
<1>3. ex' = [ex EXCEPT ![e] = j]
  BY <1>1, <1>2 DEF Fails
<1>4. ex[e] \in Jobs
  OBVIOUS
<1>5. j = [at |-> "confirm", try |-> ex[e].try, bad |-> {}, again |-> FALSE,
           todo |-> ex[e].todo, remove |-> ex[e].remove, basis |-> ex[e].basis,
           answer |-> ex[e].answer]
  BY <1>2, <1>4 DEF Jobs
<1>6. j \in Jobs
  BY <1>4, <1>5, JobFields DEF Jobs, Places
<1> QED
  BY <1>3, <1>5, <1>6 DEF Moves

LEMMA WorkFailedIs ==
    ASSUME ex \in [Execs -> Jobs], NEW e \in Execs, WorkFailed(e)
    PROVE  /\ Moves(e) /\ ex'[e].at = "result" /\ ex'[e].bad # {} /\ ex'[e].todo = ex[e].todo
           /\ ex'[e].basis = ex[e].basis /\ ex'[e].answer = ex[e].answer
<1>1. PICK a \in BOOLEAN :
        ex' = [ex EXCEPT ![e].at = "result", ![e].bad = @ \cup {"work"}, ![e].again = a]
  BY DEF WorkFailed
<1>2. PICK b, w, j : /\ b = ex[e].bad \cup {"work"} /\ w = ex[e].todo
                     /\ j = [ex[e] EXCEPT !.at = "result", !.bad = b, !.again = a]
  OBVIOUS
<1>3. ex' = [ex EXCEPT ![e] = j]
  BY <1>1, <1>2
<1>4. ex[e] \in Jobs /\ b \in SUBSET {"pull", "work"} /\ w \in SUBSET Services /\ b # {}
  BY <1>2, JobFields
<1>5. j = [at |-> "result", try |-> ex[e].try, bad |-> b, again |-> a, todo |-> w,
           remove |-> ex[e].remove, basis |-> ex[e].basis, answer |-> ex[e].answer]
  BY <1>2, <1>4 DEF Jobs
<1>6. j \in Jobs
  BY <1>4, <1>5, JobFields DEF Jobs, Places
<1>7. ex'[e] = j /\ \A f \in Execs : f # e => ex'[f] = ex[f]
  BY <1>3
<1>8. Moves(e)
  BY <1>3, <1>5, <1>6, <1>7 DEF Moves
<1> QED
  BY <1>2, <1>4, <1>5, <1>7, <1>8

\* A pull that failed
LEMMA PullFailedIs ==
    ASSUME ex \in [Execs -> Jobs], NEW e \in Execs,
           ex' = [ex EXCEPT ![e].at = "put", ![e].bad = @ \cup {"pull"}]
    PROVE  /\ Moves(e) /\ ex'[e].at = "put" /\ ex'[e].bad # {} /\ ex'[e].todo = ex[e].todo
           /\ ex'[e].basis = ex[e].basis /\ ex'[e].answer = ex[e].answer
<1>1. PICK b, j : /\ b = ex[e].bad \cup {"pull"} /\ j = [ex[e] EXCEPT !.at = "put", !.bad = b]
  OBVIOUS
<1>2. ex' = [ex EXCEPT ![e] = j]
  BY <1>1
<1>3. ex[e] \in Jobs /\ b \in SUBSET {"pull", "work"} /\ b # {}
  BY <1>1, JobFields
<1>4. j = [at |-> "put", try |-> ex[e].try, bad |-> b, again |-> ex[e].again,
           todo |-> ex[e].todo, remove |-> ex[e].remove, basis |-> ex[e].basis,
           answer |-> ex[e].answer]
  BY <1>1, <1>3 DEF Jobs
<1>5. j \in Jobs
  BY <1>3, <1>4, JobFields DEF Jobs, Places
<1>6. ex'[e] = j /\ \A f \in Execs : f # e => ex'[f] = ex[f]
  BY <1>2
<1>7. Moves(e)
  BY <1>2, <1>4, <1>5, <1>6 DEF Moves
<1> QED
  BY <1>3, <1>4, <1>6, <1>7

\* The next of the parts is dealt with.
LEMMA WorksIs ==
    ASSUME ex \in [Execs -> Jobs], NEW e \in Execs, NEW s \in ex[e].todo,
           NEW b \in {{}, {"work"}}, ex[e].at = "each",
           ex' = [ex EXCEPT ![e].todo = @ \ {s}, ![e].bad = @ \cup b]
    PROVE  /\ Moves(e) /\ ex'[e].at = "each" /\ ex'[e].bad = ex[e].bad \cup b
           /\ ex'[e].todo = ex[e].todo \ {s}
           /\ ex'[e].basis = ex[e].basis /\ ex'[e].answer = ex[e].answer
<1>1. PICK x, w, j : /\ x = ex[e].bad \cup b /\ w = ex[e].todo \ {s}
                     /\ j = [ex[e] EXCEPT !.todo = w, !.bad = x]
  OBVIOUS
<1>2. ex' = [ex EXCEPT ![e] = j]
  BY <1>1
<1>3. ex[e] \in Jobs /\ x \in SUBSET {"pull", "work"} /\ w \in SUBSET Services
  BY <1>1, JobFields
<1>4. j = [at |-> "each", try |-> ex[e].try, bad |-> x, again |-> ex[e].again,
           todo |-> w, remove |-> ex[e].remove, basis |-> ex[e].basis,
           answer |-> ex[e].answer]
  BY <1>1, <1>3 DEF Jobs
<1>5. j \in Jobs
  BY <1>3, <1>4, JobFields DEF Jobs, Places
<1> QED
  BY <1>1, <1>2, <1>4, <1>5 DEF Moves

LEMMA ReadsIs ==
    ASSUME ex \in [Execs -> Jobs], NEW e \in Execs, NEW W \in SUBSET Services, Reads(e, W)
    PROVE  /\ Moves(e) /\ ex'[e].at = (IF W = {} THEN "result" ELSE "each")
           /\ ex'[e].bad = ex[e].bad /\ ex'[e].todo = W
           /\ ex'[e].basis = ex[e].basis /\ ex'[e].answer = ex[e].answer
<1>1. PICK p, j : /\ p = IF W = {} THEN "result" ELSE "each"
                  /\ j = [ex[e] EXCEPT !.todo = W, !.at = p]
  OBVIOUS
<1>2. ex' = [ex EXCEPT ![e] = j]
  BY <1>1 DEF Reads
<1>3. ex[e] \in Jobs /\ p \in Places
  BY <1>1 DEF Places
<1>4. j = [at |-> p, try |-> ex[e].try, bad |-> ex[e].bad, again |-> ex[e].again,
           todo |-> W, remove |-> ex[e].remove, basis |-> ex[e].basis,
           answer |-> ex[e].answer]
  BY <1>1, <1>3 DEF Jobs
<1>5. j \in Jobs
  BY <1>3, <1>4, JobFields DEF Jobs
<1> QED
  BY <1>1, <1>2, <1>4, <1>5 DEF Moves

LEMMA TryAgainIs ==
    ASSUME ex \in [Execs -> Jobs], NEW e \in Execs, TryAgain(e)
    PROVE  \/ Answer(e, "failed")
           \/ /\ Moves(e) /\ ex'[e].at \in {"pull", "look"} /\ ex'[e].todo = ex[e].todo
              /\ ex'[e].basis = ex[e].basis /\ ex'[e].answer = ex[e].answer
<1>1. CASE ex[e].try = Attempts
  BY <1>1 DEF TryAgain
<1>2. CASE ex[e].try # Attempts
  <2>1. PICK p, n, j : /\ p = IF how.by = "id" THEN "pull" ELSE "look"
                       /\ n = ex[e].try + 1
                       /\ j = [ex[e] EXCEPT !.at = p, !.try = n]
    OBVIOUS
  <2>2. ex' = [ex EXCEPT ![e] = j]
    BY <1>2, <2>1 DEF TryAgain
  <2>3. ex[e] \in Jobs /\ p \in {"pull", "look"} /\ n \in 1..Attempts
    BY <1>2, <2>1, JobFields
  <2>4. j = [at |-> p, try |-> n, bad |-> ex[e].bad, again |-> ex[e].again,
             todo |-> ex[e].todo, remove |-> ex[e].remove, basis |-> ex[e].basis,
             answer |-> ex[e].answer]
    BY <2>1, <2>3 DEF Jobs
  <2>5. j \in Jobs
    BY <2>3, <2>4, JobFields DEF Jobs, Places
  <2> QED
    BY <2>2, <2>3, <2>4, <2>5 DEF Moves
<1> QED
  BY <1>1, <1>2

-----------------------------------------------------------------------------
(* Steps of an execution, and what they do to the host. *)

Requests == {"put", "create", "delete", "down", "drop", "write", "up", "run", "update"}

\* The requests a target with a moving tag gets
Suits(q) ==
    how.moving => q \in {"put", "create", "delete", "drop"} \/ (how.swarm /\ q = "update")

Looks(e) ==
    /\ UNCHANGED <<runs, text, disturbed>>
    /\ local' \in {local, IF how.moving THEN newest ELSE local}
    /\ fresh' \in [Execs -> SUBSET Services]
    /\ \A f \in Execs : f # e => fresh'[f] = fresh[f]

\* While no other execution disturbs the host, a request of the last one takes its own
\* release away from no part, unless it is told to remove what is there.
Harmless(e, q, S) ==
    e = newest /\ ~disturbed /\ ~ex[e].remove /\ ~ClearsOwn(e) =>
        /\ q \in {"delete", "down", "drop"} => \A s \in S : runs[s] # e
        /\ q = "up" /\ how.by = "sshCompose" => text = e

Reaches(e) ==
    \E q \in Requests, S \in SUBSET Parts :
        Suits(q) /\ Touch(e, q, S) /\ Harmless(e, q, S)

\* A request of e becomes late.
Leaves(e) ==
    \E q :
        /\ late' = late \cup {<<e, q>>}
        /\ q \notin {"put", "create"} => Fallen(e)'
        /\ IF ByPortainer THEN q \in {"put", "create", "delete"}
           ELSE BySsh /\ q \in IF how.by = "sshCompose" THEN {"down", "up"} ELSE {"drop", "run"}
        /\ q \in {"delete", "down"} => ex[e].remove

Acts(e) ==
    /\ e \in Execs /\ Moves(e) /\ ex[e].at \notin {"idle", "done", "dead"}
    /\ UNCHANGED <<how, newest, crashes>>
    /\ Looks(e) \/ Reaches(e)
    /\ UNCHANGED late \/ Leaves(e)
    /\ ex'[e].at \in {"done"} \cup Mine
    /\ ex'[e].at \in {"remove", "clean"} => ex[e].remove
    /\ ex'[e].at \notin {"verify", "done"} => ex'[e].basis = "none"
    /\ ex'[e].answer = "ok" => ex'[e].at = "done"
    /\ ex'[e].todo \subseteq Parts

\* Has pulled what it brings
Pulled(e) ==
    \/ ex[e].at \in {"put", "list", "each", "again", "result"} /\ Flawless(e)
    \/ ex[e].at \in {"verify", "done"} /\ ex[e].basis = "release"

\* Cannot succeed from where it is without one more request that brings the release
Dull(e) ==
    /\ ex[e].at \in {"list", "each", "again", "result"} => ~Flawless(e)
    /\ ex[e].basis # "release"

LEMMA TypeIs == TypeOK => ex \in [Execs -> Jobs] /\ how \in Hows
  BY DEF TypeOK, Jobs

LEMMA ImageIs ==
    ASSUME TypeOK, NEW e \in Execs, NEW q
    PROVE  /\ Image(e, q) \in {e, newest, local, text, None}
           /\ newest \in Execs \cup {None} /\ local \in Releases \cup {None}
           /\ text \in Releases \cup {None}
  BY DEF TypeOK, Image, Resolve

LEMMA TouchIs ==
    ASSUME TypeOK, NEW e \in Execs, NEW q, NEW S \in SUBSET Services, Touch(e, q, S)
    PROVE  /\ \A s \in S : runs'[s] = Image(e, q)
           /\ \A s \in Services \ S : runs'[s] = runs[s]
           /\ text' \in {text, e, None}
           /\ local' = local \/ (how.moving /\ local = None /\ local' = newest)
           /\ \A f \in Execs : fresh'[f] = fresh[f] \ S
           /\ disturbed' <=> disturbed \/ e # newest
           /\ runs' \in [Services -> Releases \cup {None}]
           /\ text' \in Releases \cup {None} /\ local' \in Releases \cup {None}
           /\ fresh' \in [Execs -> SUBSET Services] /\ disturbed' \in BOOLEAN
<1>1. PICK i : i = Image(e, q) /\ i \in Releases \cup {None}
  BY ImageIs DEF Releases
<1>2. runs' = [s \in Services |-> IF s \in S THEN i ELSE runs[s]]
  BY <1>1 DEF Touch
<1>3. runs \in [Services -> Releases \cup {None}] /\ fresh \in [Execs -> SUBSET Services]
  BY DEF TypeOK
<1>4. /\ runs' \in [Services -> Releases \cup {None}]
      /\ \A s \in S : runs'[s] = i
      /\ \A s \in Services \ S : runs'[s] = runs[s]
  BY <1>1, <1>2, <1>3
<1>5. /\ fresh' \in [Execs -> SUBSET Services]
      /\ \A f \in Execs : fresh'[f] = fresh[f] \ S
  BY <1>3 DEF Touch
<1>6. /\ text' \in {text, e, None} /\ text' \in Releases \cup {None}
      /\ local' = local \/ (how.moving /\ local = None /\ local' = newest)
      /\ local' \in Releases \cup {None}
  BY ImageIs DEF Touch, Releases
<1>7. disturbed' = (disturbed \/ e # newest)
  BY DEF Touch
<1>8. (disturbed' <=> disturbed \/ e # newest) /\ disturbed' \in BOOLEAN
  BY <1>7
<1> QED
  BY <1>1, <1>4, <1>5, <1>6, <1>8

LEMMA HostTyped ==
    ASSUME TypeOK, NEW e \in Execs, Looks(e) \/ Reaches(e)
    PROVE  /\ runs' \in [Services -> Releases \cup {None}]
           /\ text' \in Releases \cup {None} /\ local' \in Releases \cup {None}
           /\ fresh' \in [Execs -> SUBSET Services] /\ disturbed' \in BOOLEAN
<1>1. CASE Looks(e)
  BY <1>1 DEF Looks, TypeOK, Releases
<1>2. CASE Reaches(e)
  <2>1. PICK q \in Requests, S \in SUBSET Parts : Touch(e, q, S)
    BY <1>2 DEF Reaches
  <2>2. S \in SUBSET Services
    BY HowIs, TypeIs
  <2> QED
    BY <2>1, <2>2, TouchIs
<1> QED
  BY <1>1, <1>2

LEMMA ActBasics ==
    ASSUME IInv, NEW e, Acts(e)
    PROVE  /\ TypeOK' /\ OrderInv' /\ PlaceInv' /\ LateInv'
           /\ Begun' = Begun /\ e \in Begun /\ e \in Execs /\ newest \in Begun
           /\ Parts' = Parts
<1>1. /\ e \in Execs /\ Moves(e) /\ ex[e].at \notin {"idle", "done", "dead"}
      /\ UNCHANGED <<how, newest, crashes>>
      /\ ex \in [Execs -> Jobs] /\ ex' \in [Execs -> Jobs]
  BY TypeIs DEF Acts, IInv, Moves
<1>2. Parts' = Parts /\ Mine' = Mine
  BY <1>1 DEF Parts, Mine, ByPortainer
<1>3. ex'[e].at # "idle"
  <2>1. "idle" \notin Mine
    BY <1>1, MineIs, HowIs, TypeIs DEF Mine, IInv, Agent, Ssh, Portainer, ByPortainer
  <2> QED
    BY <2>1 DEF Acts
<1>4. Begun' = Begun /\ e \in Begun
  BY <1>1, <1>3 DEF Begun, Moves
<1>5. OrderInv' /\ newest \in Begun
  BY <1>1, <1>4 DEF IInv, OrderInv
<1>6. PlaceInv'
  <2>1. \A f \in Execs : f # e => ex'[f] = ex[f]
    BY <1>1 DEF Moves
  <2>2. ex'[e].remove = ex[e].remove
    BY <1>1 DEF Moves
  <2> QED
    BY <1>1, <1>2, <2>1, <2>2 DEF Acts, IInv, PlaceInv
<1>7. LateInv'
  <2>1. ASSUME NEW f \in Execs, NEW q, <<f, q>> \in late', f # e
        PROVE  <<f, q>> \in late /\ (Fallen(f)' <=> Fallen(f)) /\ ex'[f] = ex[f]
    BY <1>1, <2>1 DEF Acts, Leaves, Moves, Fallen
  <2>2. \A f \in Execs : \A q : <<f, q>> \in late /\ f # e => <<f, q>> \in late'
    BY DEF Acts, Leaves
  <2>3. UNCHANGED <<Begun, ByPortainer, BySsh>>
    BY <1>1, <1>4 DEF ByPortainer, BySsh
  <2>4. \A q : <<e, q>> \in late => q \in {"put", "create"} /\ ByPortainer
    BY <1>1 DEF IInv, LateInv, Fallen
  <2>5. ASSUME NEW q, <<e, q>> \in late'
        PROVE  /\ q \notin {"put", "create"} => Fallen(e)'
               /\ IF ByPortainer THEN q \in {"put", "create", "delete"}
                  ELSE /\ BySsh
                       /\ \A r : <<e, r>> \in late' => r = q
                       /\ q \in IF how.by = "sshCompose" THEN {"down", "up"}
                                ELSE {"drop", "run"}
               /\ q \in {"delete", "down"} => ex'[e].remove
    <3>1. CASE UNCHANGED late
      BY <2>4, <2>5, <3>1
    <3>2. CASE Leaves(e)
      <4>1. PICK r :
              /\ late' = late \cup {<<e, r>>}
              /\ r \notin {"put", "create"} => Fallen(e)'
              /\ IF ByPortainer THEN r \in {"put", "create", "delete"}
                 ELSE BySsh /\ r \in IF how.by = "sshCompose" THEN {"down", "up"}
                                     ELSE {"drop", "run"}
              /\ r \in {"delete", "down"} => ex[e].remove
        BY <3>2 DEF Leaves
      <4>2. q = r \/ <<e, q>> \in late
        BY <2>5, <4>1
      <4>3. \A x : <<e, x>> \in late' => x = r \/ <<e, x>> \in late
        BY <4>1
      <4> QED
        BY <1>1, <2>4, <4>1, <4>2, <4>3 DEF Moves
    <3> QED
      BY <3>1, <3>2 DEF Acts
  <2> QED
    BY <1>1, <1>4, <2>1, <2>2, <2>3, <2>5 DEF IInv, LateInv
<1>8. TypeOK'
  <2>1. late' \subseteq Execs \X {"put", "create", "delete", "down", "drop", "write", "up", "run"}
    <3>1. CASE UNCHANGED late
      BY <3>1 DEF IInv, TypeOK
    <3>2. CASE Leaves(e)
      <4>1. PICK r :
              /\ late' = late \cup {<<e, r>>}
              /\ IF ByPortainer THEN r \in {"put", "create", "delete"}
                 ELSE BySsh /\ r \in IF how.by = "sshCompose" THEN {"down", "up"}
                                     ELSE {"drop", "run"}
        BY <3>2 DEF Leaves
      <4>2. r \in {"put", "create", "delete", "down", "up", "drop", "run"}
        BY <4>1
      <4> QED
        BY <1>1, <4>1, <4>2 DEF IInv, TypeOK
    <3> QED
      BY <3>1, <3>2 DEF Acts
  <2>2. /\ runs' \in [Services -> Releases \cup {None}]
        /\ text' \in Releases \cup {None} /\ local' \in Releases \cup {None}
        /\ fresh' \in [Execs -> SUBSET Services] /\ disturbed' \in BOOLEAN
    BY <1>1, HostTyped DEF Acts, IInv
  <2> QED
    BY <1>1, <2>1, <2>2 DEF IInv, TypeOK, Jobs
<1> QED
  BY <1>1, <1>2, <1>4, <1>5, <1>6, <1>7, <1>8

-----------------------------------------------------------------------------
(* What any step of an execution keeps. *)

\* A release that was asked for comes, whatever the tag.
LEMMA ResolveIs ==
    ASSUME TypeOK, NEW e \in Execs, newest \in Execs
    PROVE  /\ ~how.moving => Resolve(e) = e
           /\ how.moving /\ how.swarm => Resolve(e) = newest
           /\ how.moving /\ local = newest => Resolve(e) = newest
           /\ how.moving /\ ~how.swarm /\ local # None => Resolve(e) = local
           /\ how.moving /\ local = None => Resolve(e) = newest
           /\ Resolve(e) \in Releases /\ Resolve(e) # None /\ newest # None
  BY TypeIs, HowIs DEF TypeOK, Resolve, Execs, Releases

LEMMA BegunIs ==
    ASSUME NEW e \in Begun
    PROVE  e \in Execs /\ e # None /\ e # Old /\ ex[e].at # "idle" /\ e \in Releases
  BY DEF Begun, Execs, Releases

LEMMA ReachIs ==
    ASSUME TypeOK, NEW q, NEW S \in Reach(q), q # "write"
    PROVE  /\ S \in SUBSET Parts /\ S \in SUBSET Services
           /\ q = "put" => \A s \in Parts \ S : runs[s] # None
           /\ ~(q = "put" /\ how.moving) => S = Parts
  BY TypeIs, HowIs DEF Reach

\* The images after a request
LEMMA TouchImages ==
    ASSUME IInv, NEW e \in Begun, NEW q, NEW S \in SUBSET Services, Suits(q), Touch(e, q, S),
           newest \in Begun, UNCHANGED <<how, newest>>, Begun' = Begun
    PROVE  /\ \A s \in Services : runs'[s] \in Begun' \cup {Old, None}
           /\ text' \in Begun' \cup {Old, None} /\ local' \in Begun' \cup {Old, None}
           /\ local = newest => local' = newest
           /\ how.moving /\ ~how.swarm =>
                 \A s \in Services : (runs'[s] = newest => local' = newest)
<1>1. TypeOK /\ ImageInv /\ e \in Execs /\ newest \in Execs /\ newest # None
  BY BegunIs DEF IInv
<1>2. Image(e, q) \in Begun \cup {Old, None}
  BY <1>1, ImageIs DEF ImageInv
<1>3. /\ \A s \in S : runs'[s] = Image(e, q)
      /\ \A s \in Services \ S : runs'[s] = runs[s]
      /\ text' \in {text, e, None}
      /\ local' = local \/ (how.moving /\ local = None /\ local' = newest)
  BY <1>1, TouchIs
<1>4. /\ \A s \in Services : runs'[s] \in Begun' \cup {Old, None}
      /\ text' \in Begun' \cup {Old, None} /\ local' \in Begun' \cup {Old, None}
      /\ local = newest => local' = newest
  BY <1>1, <1>2, <1>3 DEF ImageInv
<1>5. ASSUME how.moving, ~how.swarm, NEW s \in Services, runs'[s] = newest
      PROVE  local' = newest
  <2>1. CASE s \notin S
    BY <1>1, <1>3, <1>5, <2>1 DEF ImageInv
  <2>2. CASE s \in S
    <3>1. q \in {"put", "create", "delete", "drop"} /\ Image(e, q) = newest
      BY <1>3, <1>5, <2>2 DEF Suits
    <3>2. q \in {"put", "create"} /\ Image(e, q) = Resolve(e)
      BY <1>1, <3>1 DEF Image
    <3>3. CASE local = None
      BY <1>5, <2>2, <3>2, <3>3 DEF Touch
    <3>4. CASE local # None
      BY <1>1, <1>3, <1>5, <3>1, <3>2, <3>4, ResolveIs
    <3> QED
      BY <3>3, <3>4
  <2> QED
    BY <2>1, <2>2
<1> QED
  BY <1>4, <1>5

LEMMA ActImages ==
    ASSUME IInv, NEW e, Acts(e),
           how.moving /\ e = newest /\ Pulled(e)' => Pulled(e) \/ local' = newest
    PROVE  ImageInv'
<1>1. /\ Begun' = Begun /\ e \in Begun /\ e \in Execs /\ newest \in Begun /\ newest # None
      /\ UNCHANGED <<how, newest>> /\ TypeOK /\ ImageInv
  BY ActBasics, BegunIs DEF Acts, IInv
<1>2. /\ \A s \in Services : runs'[s] \in Begun' \cup {Old, None}
      /\ text' \in Begun' \cup {Old, None} /\ local' \in Begun' \cup {Old, None}
      /\ local = newest => local' = newest
      /\ how.moving /\ ~how.swarm =>
            \A s \in Services : (runs'[s] = newest => local' = newest)
  <2>1. CASE Looks(e)
    BY <1>1, <2>1 DEF Looks, ImageInv
  <2>2. CASE Reaches(e)
    <3>1. PICK q \in Requests, S \in SUBSET Parts : Suits(q) /\ Touch(e, q, S)
      BY <2>2 DEF Reaches
    <3>2. S \in SUBSET Services
      BY <1>1, TypeIs, HowIs
    <3> HIDE DEF ImageInv
    <3> QED
      BY <1>1, <3>1, <3>2, TouchImages
  <2> QED
    BY <2>1, <2>2 DEF Acts
<1>3. how.moving /\ Pulled(newest)' => local' = newest
  <2>1. ASSUME how.moving, Pulled(newest)', e # newest
        PROVE  Pulled(newest)
    <3>1. ex'[newest] = ex[newest]
      BY <1>1, <2>1, BegunIs DEF Acts, Moves
    <3> QED
      BY <1>1, <2>1, <3>1 DEF Pulled, Flawless
  <2>2. how.moving /\ Pulled(newest) => local = newest
    BY <1>1 DEF ImageInv, Pulled
  <2>3. how.moving /\ Pulled(newest)' => Pulled(newest) \/ local' = newest
    <3>1. CASE e = newest
      BY <1>1, <3>1 DEF Pulled, Flawless
    <3>2. CASE e # newest
      BY <2>1, <3>2
    <3> QED
      BY <3>1, <3>2
  <2> QED
    BY <1>2, <2>2, <2>3
<1> QED
  BY <1>1, <1>2, <1>3 DEF ImageInv, Pulled

\* The step of an execution that is not the last
LEMMA ActEffectOther ==
    ASSUME IInv, NEW e, Acts(e), e # newest
    PROVE  EffectInv'
<1>1. /\ Begun' = Begun /\ e \in Execs /\ newest \in Execs /\ newest # None
      /\ UNCHANGED <<how, newest>> /\ TypeOK /\ EffectInv /\ Parts' = Parts
      /\ Parts \subseteq Services
  BY ActBasics, BegunIs, TypeIs, HowIs DEF Acts, IInv
<1>2. ex'[newest] = ex[newest]
  BY <1>1 DEF Acts, Moves
<1>3. CASE Looks(e)
  <2>1. UNCHANGED <<runs, text, disturbed>> /\ fresh'[newest] = fresh[newest]
    BY <1>1, <1>3 DEF Looks
  <2>2. Reached(newest) => Reached(newest)'
    BY <1>1, <1>2, <2>1, SeenIs DEF Reached, Flawless
  <2>3. \A q : <<newest, q>> \in late' => <<newest, q>> \in late
    BY DEF Acts, Leaves
  <2>4. Spares(newest) => Spares(newest)'
    BY <1>1, <1>2, <2>1, <2>3 DEF Spares
  <2> QED
    BY <1>1, <1>2, <2>1, <2>2, <2>4 DEF EffectInv
<1>4. CASE Reaches(e)
  <2>1. PICK q \in Requests, S \in SUBSET Parts : Touch(e, q, S)
    BY <1>4 DEF Reaches
  <2>2. /\ \A s \in Services \ S : runs'[s] = runs[s]
        /\ \A f \in Execs : fresh'[f] = fresh[f] \ S
        /\ disturbed'
    BY <1>1, <2>1, TouchIs
  <2>3. ASSUME ~how.swarm, ex[newest].at = "each",
               NEW s \in ex[newest].todo \cap fresh'[newest]
        PROVE  runs'[s] # newest
    <3>1. s \in fresh[newest] /\ s \notin S
      BY <1>1, <2>2, <2>3
    <3>2. s \in Services
      BY <1>1, <3>1 DEF TypeOK
    <3> QED
      BY <1>1, <2>2, <2>3, <3>1, <3>2 DEF EffectInv
  <2> QED
    BY <1>1, <1>2, <2>2, <2>3 DEF EffectInv
<1> QED
  BY <1>3, <1>4 DEF Acts

\* A step after which the execution has still to bring the release
LEMMA ActDull ==
    ASSUME IInv, NEW e, Acts(e), Dull(e)',
           how.moving /\ e = newest /\ Pulled(e)' => Pulled(e) \/ local' = newest,
           e = newest /\ ~disturbed' => Spares(e)',
           e = newest /\ ~how.swarm /\ ex'[e].at = "each" =>
              \A s \in ex'[e].todo \cap fresh'[e] : runs'[s] # e
    PROVE  IInv'
<1>1. /\ TypeOK' /\ OrderInv' /\ PlaceInv' /\ LateInv' /\ ImageInv'
      /\ Begun' = Begun /\ e \in Begun /\ UNCHANGED <<how, newest>>
  BY ActBasics, ActImages DEF Acts
<1>2. EffectInv'
  <2>1. CASE e # newest
    BY <2>1, ActEffectOther
  <2>2. CASE e = newest
    <3>1. Reached(e)'
      BY <1>1 DEF Dull, Reached
    <3> QED
      BY <1>1, <2>2, <3>1 DEF EffectInv
  <2> QED
    BY <2>1, <2>2
<1>3. WholeInv'
  <2>1. ~Clean(e)'
    BY DEF Dull, Clean
  <2> QED
    BY <1>1, <2>1 DEF WholeInv, Settled
<1> QED
  BY <1>1, <1>2, <1>3 DEF IInv

\* A request that all parts have got
LEMMA TouchWhole ==
    ASSUME TypeOK, NEW e \in Execs, NEW q, NEW r \in Releases, Touch(e, q, Parts),
           Image(e, q) = r, Parts' = Parts
    PROVE  FixedWhole' /\ \A s \in Parts : runs'[s] = r
<1>1. Parts \in SUBSET Services
  BY TypeIs, HowIs
<1>2. /\ \A s \in Parts : runs'[s] = r
      /\ \A f \in Execs : fresh'[f] = fresh[f] \ Parts
  BY <1>1, TouchIs
<1>3. r # None
  BY DEF Releases, Execs
<1>4. \A f \in Begun' : f \in Execs
  BY DEF Begun
<1>5. \A f \in Begun', s \in Parts' : s \notin fresh'[f]
  BY <1>1, <1>2, <1>4
<1> QED
  BY <1>2, <1>3, <1>5 DEF FixedWhole, Releases, Execs

LEMMA ActWhole ==
    ASSUME IInv, NEW e, Acts(e), NEW q, NEW r \in Releases, Touch(e, q, Parts),
           Image(e, q) = r, ~how.moving, ex'[e].at # "each",
           e = newest /\ ~disturbed => r = e,
           e = newest /\ ~disturbed' => Spares(e)'
    PROVE  IInv'
<1>1. /\ TypeOK' /\ OrderInv' /\ PlaceInv' /\ LateInv' /\ ImageInv'
      /\ Begun' = Begun /\ e \in Begun /\ e \in Execs /\ UNCHANGED <<how, newest>>
      /\ Parts' = Parts
  BY ActBasics, ActImages DEF Acts
<1>2. TypeOK
  BY DEF IInv
<1>3. FixedWhole' /\ \A s \in Parts : runs'[s] = r
  BY <1>1, <1>2, TouchWhole
<1>4. EffectInv'
  <2>1. CASE e # newest
    BY <2>1, ActEffectOther
  <2>2. CASE e = newest
    <3>1. disturbed' <=> disturbed
      <4>1. Parts \in SUBSET Services
        BY <1>2, TypeIs, HowIs
      <4> QED
        BY <1>1, <1>2, <2>2, <4>1, TouchIs
    <3>2. ~disturbed => Reached(e)'
      BY <1>1, <1>3, <2>2, SeenIs DEF Reached
    <3> QED
      BY <1>1, <2>2, <3>1, <3>2 DEF EffectInv
  <2> QED
    BY <2>1, <2>2
<1> QED
  BY <1>1, <1>3, <1>4 DEF IInv, WholeInv

-----------------------------------------------------------------------------
(* The steps of PortainerTarget. *)

Rooms == {"remove", "select", "look", "create", "pull", "put", "list", "each", "again",
          "result", "confirm", "verify"}

LEMMA AtPortainer ==
    ASSUME IInv, NEW e \in Execs, ex[e].at \in Rooms
    PROVE  /\ TypeOK /\ ex \in [Execs -> Jobs] /\ how \in Hows
           /\ ByPortainer /\ Mine = Rooms /\ how.by \notin Ssh
           /\ ex[e].answer # "ok" /\ ex[e].todo \subseteq Parts
           /\ ex[e].at # "verify" => ex[e].basis = "none"
           /\ ex[e].at = "remove" => ex[e].remove
           /\ e \in Begun /\ newest \in Begun /\ newest \in Execs
           /\ ex[e].at \notin {"idle", "done", "dead"}
           /\ UNCHANGED how => Spares(e)'
<1>1. TypeOK /\ ex \in [Execs -> Jobs] /\ how \in Hows
  BY TypeIs DEF IInv
<1>2. ByPortainer
  BY <1>1, MineIs DEF IInv, PlaceInv, Rooms
<1>3. how.by \notin Ssh /\ how.by # "sshCompose"
  BY <1>2 DEF ByPortainer, Portainer, Ssh
<1>4. Mine = Rooms
  <2>1. how.by \notin {"sshRun", "sshSteps", "sshCompose", "agentRun", "agentCompose"}
    BY <1>2 DEF ByPortainer, Portainer
  <2> QED
    BY <1>2, <2>1 DEF Mine, Rooms
<1>5. /\ ex[e].at \notin {"idle", "done", "dead"} /\ e \in Begun
  BY DEF Rooms, Begun
<1>6. newest \in Begun
  BY <1>5 DEF IInv, OrderInv
<1>7. UNCHANGED how => Spares(e)'
  BY <1>3 DEF Spares
<1> QED
  BY <1>1, <1>2, <1>3, <1>4, <1>5, <1>6, <1>7, BegunIs DEF IInv, PlaceInv

\* A request to Portainer: it reaches the host, or becomes late.
LEMMA RequestIs ==
    ASSUME IInv, NEW e \in Execs, NEW q \in Requests, Suits(q), Done(e, q) \/ Broken(e, q),
           q \in {"delete", "down", "drop"} => ex[e].remove,
           q = "up" => how.by # "sshCompose"
    PROVE  /\ Looks(e) \/ Reaches(e)
           /\ UNCHANGED late \/ late' = late \cup {<<e, q>>}
<1>1. TypeOK
  BY DEF IInv
<1>2. (\E S \in SUBSET Parts : Touch(e, q, S)) => Reaches(e)
  BY DEF Reaches, Harmless
<1>3. UNCHANGED host => Looks(e)
  BY <1>1 DEF Looks, host, TypeOK
<1>4. (\E S \in SUBSET Parts : Touch(e, q, S)) \/ UNCHANGED host
  BY <1>1, ReachIs DEF Done, Broken, Spoilt, Pending, Reach
<1> QED
  BY <1>2, <1>3, <1>4 DEF Done, Broken, Spoilt, Pending

\* The step of an attempt that failed
LEMMA FailsIs ==
    ASSUME IInv, NEW e \in Execs, ex[e].at \in Rooms \ {"verify"},
           Answer(e, "failed") \/ Fails(e), Looks(e) \/ Reaches(e),
           \/ UNCHANGED late
           \/ \E q \in {"put", "create"} : late' = late \cup {<<e, q>>}
           \/ late' = late \cup {<<e, "delete">>} /\ ex[e].remove /\ Answer(e, "failed"),
           UNCHANGED <<how, newest, crashes>>
    PROVE  Acts(e) /\ IInv'
<1>1. /\ TypeOK /\ ex \in [Execs -> Jobs] /\ ByPortainer /\ Mine = Rooms
      /\ ex[e].answer # "ok" /\ ex[e].todo \subseteq Parts /\ ex[e].basis = "none"
      /\ ex[e].at \notin {"idle", "done", "dead"} /\ Spares(e)'
  BY AtPortainer DEF Rooms
<1>2. /\ Moves(e) /\ ex'[e].at \in {"confirm", "done"} /\ ex'[e].basis = "none"
      /\ ex'[e].answer # "ok" /\ ex'[e].todo \subseteq Parts
  BY <1>1, AnswerIs, BlankedIs
<1>3. Answer(e, "failed") => Fallen(e)'
  BY <1>1, AnswerIs DEF Fallen
<1>4. UNCHANGED late \/ Leaves(e)
  BY <1>1, <1>3 DEF Leaves
<1>5. Acts(e)
  BY <1>1, <1>2, <1>4 DEF Acts, Rooms
<1>6. Dull(e)' /\ ~Pulled(e)' /\ ex'[e].at # "each"
  BY <1>2 DEF Dull, Pulled
<1>7. IInv'
  BY <1>1, <1>5, <1>6, ActDull
<1> QED
  BY <1>5, <1>7

LEMMA DullIs ==
    ASSUME IInv, NEW e \in Execs, ex[e].at \in Rooms, Moves(e),
           ex'[e].at \in (Rooms \ {"remove"}) \cup {"done"},
           ex'[e].basis # "release", ex'[e].at \notin {"verify", "done"} => ex'[e].basis = "none",
           ex'[e].answer = "ok" => ex'[e].at = "done", ex'[e].todo \subseteq Parts,
           ex'[e].at \in {"list", "each", "again", "result"} => ex'[e].bad # {},
           Looks(e) \/ Reaches(e),
           UNCHANGED late \/ \E q \in {"put", "create"} : late' = late \cup {<<e, q>>},
           how.moving /\ ex'[e].at = "put" /\ ex'[e].bad = {} => local' = newest,
           e = newest /\ ~how.swarm /\ ex'[e].at = "each" =>
              \A s \in ex'[e].todo \cap fresh'[e] : runs'[s] # e,
           UNCHANGED <<how, newest, crashes>>
    PROVE  Acts(e) /\ IInv'
<1>1. /\ TypeOK /\ ex \in [Execs -> Jobs] /\ ByPortainer /\ Mine = Rooms
      /\ ex[e].at \notin {"idle", "done", "dead"} /\ Spares(e)'
  BY AtPortainer
<1>2. UNCHANGED late \/ Leaves(e)
  BY <1>1 DEF Leaves
<1>3. Acts(e)
  BY <1>1, <1>2 DEF Acts, Rooms
<1>4. Dull(e)'
  BY DEF Dull, Flawless
<1>5. how.moving /\ Pulled(e)' => local' = newest
  BY DEF Pulled, Flawless
<1> QED
  BY <1>1, <1>3, <1>4, <1>5, ActDull

LEMMA FinishIs ==
    ASSUME ex \in [Execs -> Jobs], NEW e \in Execs, NEW basis \in {"release", "guess"},
           Finish(e, basis), ex[e].todo \subseteq Parts, ex[e].answer # "ok"
    PROVE  /\ Moves(e) /\ ex'[e].at \in {"verify", "done"} /\ ex'[e].basis = basis
           /\ ex'[e].answer = "ok" => ex'[e].at = "done"
           /\ ex'[e].todo \subseteq Parts
<1>1. CASE Single
  BY <1>1, SuccessIs DEF Finish
<1>2. CASE ~Single
  <2>1. "verify" \in Places
    BY DEF Places
  <2> QED
    BY <1>2, <2>1, GoOnIs DEF Finish
<1> QED
  BY <1>1, <1>2

LEMMA RemoveStackKeeps ==
    ASSUME IInv, NEW e \in Execs, RemoveStack(e)
    PROVE  Acts(e) /\ IInv'
<1>1. /\ ex[e].at = "remove" /\ ex[e].at \in Rooms /\ ex[e].at \in Rooms \ {"verify"}
      /\ UNCHANGED <<how, newest, crashes>>
  BY DEF RemoveStack, Rooms
<1>2. /\ TypeOK /\ ex \in [Execs -> Jobs] /\ ex[e].answer # "ok" /\ ex[e].todo \subseteq Parts
      /\ ex[e].basis = "none" /\ ex[e].remove
  BY <1>1, AtPortainer
<1>3. Done(e, "delete") \/ Broken(e, "delete") =>
        /\ Looks(e) \/ Reaches(e)
        /\ UNCHANGED late \/ late' = late \cup {<<e, "delete">>}
  BY <1>2, RequestIs DEF Suits, Requests
<1>4. CASE Broken(e, "delete") /\ Answer(e, "failed")
  BY <1>1, <1>2, <1>3, <1>4, FailsIs
<1>5. CASE /\ Go(e, First)
           /\ UNCHANGED <<host, late>> \/ Done(e, "delete")
  <2>1. First \in {"select", "look"} /\ First \in Places
    BY DEF First, Places
  <2>2. /\ Moves(e) /\ ex'[e].at \in {"select", "look"} /\ ex'[e].todo = ex[e].todo
        /\ ex'[e].basis = ex[e].basis /\ ex'[e].answer = ex[e].answer
    BY <1>2, <1>5, <2>1, GoIs
  <2>3. UNCHANGED host => Looks(e)
    BY <1>2 DEF Looks, host, TypeOK
  <2>4. (Looks(e) \/ Reaches(e)) /\ UNCHANGED late
    BY <1>3, <1>5, <2>3 DEF Done
  <2> QED
    BY <1>1, <1>2, <2>2, <2>4, DullIs DEF Rooms
<1> QED
  BY <1>1, <1>4, <1>5 DEF RemoveStack

\* The steps that look only, and do not end an attempt well
LEMMA LooksKeep ==
    ASSUME IInv, NEW e \in Execs, SelectStack(e) \/ LookUp(e) \/ PullImages(e) \/ Confirm(e)
    PROVE  Acts(e) /\ IInv'
<1>1. /\ ex[e].at \in {"select", "look", "pull", "confirm"} /\ ex[e].at \in Rooms \ {"verify"}
      /\ ex[e].at \in Rooms /\ UNCHANGED <<how, newest, crashes, late>>
  BY DEF SelectStack, LookUp, PullImages, Confirm, Rooms
<1>2. /\ TypeOK /\ ex \in [Execs -> Jobs] /\ ex[e].answer # "ok" /\ ex[e].todo \subseteq Parts
      /\ ex[e].basis = "none"
  BY <1>1, AtPortainer
<1>3. Looks(e)
  <2>1. /\ UNCHANGED <<runs, text, disturbed, fresh>>
        /\ local' \in {local, IF how.moving THEN newest ELSE local}
    BY DEF SelectStack, LookUp, PullImages, Confirm, host
  <2> QED
    BY <1>2, <2>1 DEF Looks, TypeOK
<1>4. CASE Answer(e, "failed") \/ Fails(e)
  BY <1>1, <1>3, <1>4, FailsIs
<1>5. CASE \E p \in {"create", "pull"} : Go(e, p)
  <2>1. PICK p \in {"create", "pull"} : Go(e, p)
    BY <1>5
  <2>2. p \in Places
    BY DEF Places
  <2>3. /\ Moves(e) /\ ex'[e].at \in {"create", "pull"} /\ ex'[e].todo = ex[e].todo
        /\ ex'[e].basis = ex[e].basis /\ ex'[e].answer = ex[e].answer
    BY <1>2, <2>1, <2>2, GoIs
  <2> QED
    BY <1>1, <1>2, <1>3, <2>3, DullIs DEF Rooms
<1>6. CASE Go(e, "put") /\ local' = IF how.moving THEN newest ELSE local
  <2>1. "put" \in Places
    BY DEF Places
  <2>2. /\ Moves(e) /\ ex'[e].at = "put" /\ ex'[e].todo = ex[e].todo
        /\ ex'[e].basis = ex[e].basis /\ ex'[e].answer = ex[e].answer
    BY <1>2, <1>6, <2>1, GoIs
  <2> QED
    BY <1>1, <1>2, <1>3, <1>6, <2>2, DullIs DEF Rooms
<1>7. CASE ex' = [ex EXCEPT ![e].at = "put", ![e].bad = @ \cup {"pull"}]
  <2>1. /\ Moves(e) /\ ex'[e].at = "put" /\ ex'[e].bad # {} /\ ex'[e].todo = ex[e].todo
        /\ ex'[e].basis = ex[e].basis /\ ex'[e].answer = ex[e].answer
    BY <1>2, <1>7, PullFailedIs
  <2> QED
    BY <1>1, <1>2, <1>3, <2>1, DullIs DEF Rooms
<1>8. CASE GoOn(e, "verify", "guess")
  <2>1. "verify" \in Places
    BY DEF Places
  <2>2. /\ Moves(e) /\ ex'[e].at = "verify" /\ ex'[e].todo = ex[e].todo
        /\ ex'[e].basis = "guess" /\ ex'[e].answer = ex[e].answer
    BY <1>2, <1>8, <2>1, GoOnIs
  <2> QED
    BY <1>1, <1>2, <1>3, <2>2, DullIs DEF Rooms
<1>9. CASE TryAgain(e) /\ ~Answer(e, "failed")
  <2>1. /\ Moves(e) /\ ex'[e].at \in {"pull", "look"} /\ ex'[e].todo = ex[e].todo
        /\ ex'[e].basis = ex[e].basis /\ ex'[e].answer = ex[e].answer
    BY <1>2, <1>9, TryAgainIs
  <2> QED
    BY <1>1, <1>2, <1>3, <2>1, DullIs DEF Rooms
<1>10. SelectStack(e) => (\E p \in {"create", "pull"} : Go(e, p)) \/ Answer(e, "failed")
  BY DEF SelectStack
<1>11. LookUp(e) => (\E p \in {"create", "pull"} : Go(e, p)) \/ Fails(e)
  BY DEF LookUp
<1>12. PullImages(e) =>
         \/ Go(e, "put") /\ local' = IF how.moving THEN newest ELSE local
         \/ ex' = [ex EXCEPT ![e].at = "put", ![e].bad = @ \cup {"pull"}]
  BY DEF PullImages
<1>13. Confirm(e) => GoOn(e, "verify", "guess") \/ TryAgain(e)
  BY DEF Confirm
<1> QED
  BY <1>4, <1>5, <1>6, <1>7, <1>8, <1>9, <1>10, <1>11, <1>12, <1>13

LEMMA CreateStackKeeps ==
    ASSUME IInv, NEW e \in Execs, CreateStack(e)
    PROVE  Acts(e) /\ IInv'
<1>1. /\ ex[e].at = "create" /\ ex[e].at \in Rooms \ {"verify"} /\ ex[e].at \in Rooms
      /\ UNCHANGED <<how, newest, crashes>>
  BY DEF CreateStack, Rooms
<1>2. /\ TypeOK /\ ex \in [Execs -> Jobs] /\ ex[e].answer # "ok" /\ ex[e].todo \subseteq Parts
      /\ ex[e].basis = "none" /\ Mine = Rooms /\ Spares(e)' /\ newest \in Execs
  BY <1>1, AtPortainer
<1>3. Suits("create") /\ "create" \in Requests
  BY DEF Suits, Requests
<1>4. /\ Looks(e) \/ Reaches(e)
      /\ UNCHANGED late \/ late' = late \cup {<<e, "create">>}
  <2>1. Done(e, "create") \/ Broken(e, "create")
    BY DEF CreateStack, Broken
  <2> QED
    BY <1>3, <2>1, RequestIs
<1>5. CASE Broken(e, "create") /\ Fails(e)
  BY <1>1, <1>4, <1>5, FailsIs
<1>6. CASE Finish(e, "guess")
  <2>1. /\ Moves(e) /\ ex'[e].at \in {"verify", "done"} /\ ex'[e].basis = "guess"
        /\ ex'[e].answer = "ok" => ex'[e].at = "done"
        /\ ex'[e].todo \subseteq Parts
    BY <1>2, <1>6, FinishIs
  <2> QED
    BY <1>1, <1>4, <2>1, DullIs DEF Rooms
<1>7. CASE Done(e, "create") /\ Finish(e, "release") /\ ~how.moving
  <2>1. /\ Moves(e) /\ ex'[e].at \in {"verify", "done"} /\ ex'[e].basis = "release"
        /\ ex'[e].answer = "ok" => ex'[e].at = "done"
        /\ ex'[e].todo \subseteq Parts
    BY <1>2, <1>7, FinishIs
  <2>2. UNCHANGED late
    BY <1>7 DEF Done
  <2>3. Acts(e)
    BY <1>1, <1>2, <1>4, <2>1, <2>2 DEF Acts, Rooms
  <2>4. Touch(e, "create", Parts)
    BY <1>2, <1>7, ReachIs DEF Done
  <2>5. Image(e, "create") = e /\ e \in Releases
    BY <1>2, <1>7, ResolveIs DEF Image, Releases
  <2> QED
    BY <1>2, <1>7, <2>1, <2>3, <2>4, <2>5, ActWhole
<1> QED
  BY <1>5, <1>6, <1>7 DEF CreateStack

\* A step after which the execution may have what it is to bring
LEMMA ActGood ==
    ASSUME IInv, NEW e, Acts(e), how.moving /\ e = newest /\ Pulled(e)' => Pulled(e),
           e = newest /\ ~disturbed' => Reached(e)' /\ Spares(e)',
           e = newest /\ ~how.swarm /\ ex'[e].at = "each" =>
              \A s \in ex'[e].todo \cap fresh'[e] : runs'[s] # e,
           WholeInv'
    PROVE  IInv'
<1>1. /\ TypeOK' /\ OrderInv' /\ PlaceInv' /\ LateInv' /\ ImageInv'
      /\ UNCHANGED <<how, newest>>
  BY ActBasics, ActImages DEF Acts
<1>2. EffectInv'
  <2>1. CASE e # newest
    BY <2>1, ActEffectOther
  <2>2. CASE e = newest
    BY <1>1, <2>2 DEF EffectInv
  <2> QED
    BY <2>1, <2>2
<1> QED
  BY <1>1, <1>2 DEF IInv

LEMMA SettledPulled ==
    ASSUME IInv, Settled, how.moving
    PROVE  local = newest /\ newest \in Begun
<1>1. newest \in Begun /\ newest # None
  BY BegunIs DEF IInv, OrderInv, Settled
<1>2. Pulled(newest)
  BY <1>1 DEF Settled, Clean, Pulled
<1> QED
  BY <1>1, <1>2 DEF IInv, ImageInv, Pulled

\* A request under a tag that moves brings what the host has pulled.
LEMMA PutMoving ==
    ASSUME TypeOK, newest \in Execs, how.moving, NEW e \in Execs, NEW q \in {"put", "create"},
           NEW S \in Reach(q), Touch(e, q, S)
    PROVE  /\ \A s \in Parts : runs'[s] # None
           /\ \A s \in Parts : s \notin S => runs'[s] = runs[s] /\ runs[s] # None
           /\ local = newest => \A s \in S : runs'[s] = newest
           /\ S \in SUBSET Parts
<1>1. S \in SUBSET Parts /\ S \in SUBSET Services /\ \A s \in Parts \ S : runs[s] # None
  BY ReachIs
<1>2. Parts \subseteq Services
  BY TypeIs, HowIs
<1>3. Image(e, q) = Resolve(e)
  BY DEF Image
<1>4. /\ \A s \in S : runs'[s] = Image(e, q)
      /\ \A s \in Services \ S : runs'[s] = runs[s]
  BY <1>1, TouchIs
<1>5. Resolve(e) # None /\ (local = newest => Resolve(e) = newest)
  BY ResolveIs
<1> QED
  BY <1>1, <1>2, <1>3, <1>4, <1>5

\* Whether the release was pulled or the tag does not move, a put brings it.
LEMMA PutBrings ==
    ASSUME IInv, NEW e \in Execs, e = newest, Pulled(e), NEW q \in {"put", "create"},
           NEW S \in Reach(q), Touch(e, q, S)
    PROVE  \A s \in Services : runs'[s] = IF s \in S THEN e ELSE runs[s]
<1>1. TypeOK /\ newest # None
  BY BegunIs DEF IInv, TypeOK, Execs
<1>2. S \in SUBSET Services
  BY <1>1, ReachIs
<1>3. how.moving => local = newest
  BY <1>1 DEF IInv, ImageInv, Pulled
<1>4. Image(e, q) = e
  BY <1>1, <1>3, ResolveIs DEF Image
<1> QED
  BY <1>1, <1>2, <1>4, TouchIs

LEMMA PutStackKeeps ==
    ASSUME IInv, NEW e \in Execs, PutStack(e)
    PROVE  Acts(e) /\ IInv'
<1>1. /\ ex[e].at = "put" /\ ex[e].at \in Rooms \ {"verify"} /\ ex[e].at \in Rooms
      /\ UNCHANGED <<how, newest, crashes>>
  BY DEF PutStack, Rooms
<1>2. /\ TypeOK /\ ex \in [Execs -> Jobs] /\ ex[e].answer # "ok" /\ ex[e].todo \subseteq Parts
      /\ ex[e].basis = "none" /\ Mine = Rooms /\ Spares(e)' /\ newest \in Execs /\ e \in Begun
      /\ ex[e].at \notin {"idle", "done", "dead"}
  BY <1>1, AtPortainer
<1>3. /\ Looks(e) \/ Reaches(e)
      /\ UNCHANGED late \/ late' = late \cup {<<e, "put">>}
  <2>1. Suits("put") /\ "put" \in Requests
    BY DEF Suits, Requests
  <2> QED
    BY <2>1, RequestIs DEF PutStack
<1>4. CASE Broken(e, "put") /\ Fails(e)
  BY <1>1, <1>3, <1>4, FailsIs
<1>5. CASE Done(e, "put") /\ Go(e, "list")
  <2>1. "list" \in Places
    BY DEF Places
  <2>2. /\ Moves(e) /\ ex'[e].at = "list" /\ ex'[e].todo = ex[e].todo
        /\ ex'[e].bad = ex[e].bad
        /\ ex'[e].basis = ex[e].basis /\ ex'[e].answer = ex[e].answer
    BY <1>2, <1>5, <2>1, GoIs
  <2>3. Acts(e)
    BY <1>1, <1>2, <1>3, <1>5, <2>2 DEF Acts, Rooms, Done
  <2>4. PICK S \in Reach("put") : Touch(e, "put", S)
    BY <1>5 DEF Done
  <2>5. CASE ~how.moving
    <3>1. S = Parts /\ Image(e, "put") = e /\ e \in Releases
      BY <1>2, <2>4, <2>5, ReachIs, ResolveIs DEF Image, Releases
    <3> QED
      BY <1>2, <2>2, <2>3, <2>4, <2>5, <3>1, ActWhole
  <2>6. CASE how.moving
    <3>1. \A s \in Parts : runs'[s] # None
      BY <1>2, <2>4, <2>6, PutMoving
    <3>2. Parts' = Parts /\ Begun' = Begun
      BY <2>3, ActBasics
    <3>3. Reached(e)'
      BY <1>1, <1>2, <2>2, <2>6, <3>1, <3>2 DEF Reached
    <3>4. WholeInv'
      BY <1>1, <1>2, <2>2, <2>6, <3>1, <3>2, SeenIs DEF WholeInv, MovingWhole, WorksOn
    <3>5. Pulled(e)' => Pulled(e)
      BY <1>1, <1>2, <2>2 DEF Pulled, Flawless
    <3> QED
      BY <1>1, <1>2, <2>2, <2>3, <3>3, <3>4, <3>5, ActGood
  <2> QED
    BY <2>3, <2>5, <2>6
<1> QED
  BY <1>4, <1>5 DEF PutStack

\* What is listed is what the host runs.
LEMMA ReadsKeeps ==
    ASSUME IInv, NEW e \in Execs, ex[e].at = "list",
           NEW W, W = IF how.swarm THEN Present ELSE Stale(e), Reads(e, W),
           UNCHANGED <<how, runs, text, local, disturbed, newest, late, crashes>>
    PROVE  Acts(e) /\ IInv'
<1>1. ex[e].at \in Rooms
  BY DEF Rooms
<1>2. /\ TypeOK /\ ex \in [Execs -> Jobs] /\ ex[e].answer # "ok" /\ ex[e].todo \subseteq Parts
      /\ ex[e].basis = "none" /\ Mine = Rooms /\ Spares(e)' /\ newest \in Execs /\ e \in Begun
      /\ ex[e].at \notin {"idle", "done", "dead"}
  BY <1>1, AtPortainer
<1>3. Parts \subseteq Services
  BY <1>2, TypeIs, HowIs
<1>4. /\ W \in SUBSET Services /\ W \subseteq Parts
      /\ \A s \in W : runs[s] # None /\ s \in Present
      /\ \A s \in Parts \ W : how.swarm => runs[s] = None
      /\ \A s \in Seen \ W :
            how.moving /\ ~how.swarm => runs[s] = None \/ runs[s] = Resolve(e)
      /\ ~how.swarm => \A s \in W : runs[s] # Resolve(e)
  BY <1>3 DEF Present, Stale, Seen, LeftAlone
<1>5. /\ Moves(e) /\ ex'[e].at = (IF W = {} THEN "result" ELSE "each")
      /\ ex'[e].bad = ex[e].bad /\ ex'[e].todo = W
      /\ ex'[e].basis = ex[e].basis /\ ex'[e].answer = ex[e].answer
  BY <1>2, <1>4, ReadsIs
<1>6. Looks(e)
  BY <1>2, <1>3 DEF Looks, Reads, Present, TypeOK
<1>7. Acts(e)
  BY <1>1, <1>2, <1>4, <1>5, <1>6 DEF Acts, Rooms
<1>8. Parts' = Parts /\ Begun' = Begun
  BY <1>7, ActBasics
<1>9. Pulled(e)' => Pulled(e)
  BY <1>2, <1>5 DEF Pulled, Flawless
<1>10. newest # None /\ e # None
  BY <1>2 DEF Execs
<1>11. ASSUME e = newest
       PROVE  how.moving /\ Flawless(e) => local = newest
  BY <1>10, <1>11 DEF IInv, ImageInv, Flawless
<1>12. ASSUME e = newest, ~disturbed
       PROVE  Reached(e)'
  <2>1. ASSUME Flawless(e), NEW s \in Seen
        PROVE  /\ s \notin W => runs[s] = e
               /\ runs[s] # None
    <3>1. runs[s] = e \/ (how.moving /\ runs[s] # None)
      BY <1>12, <1>10, <2>1, SeenIs DEF IInv, EffectInv, Reached
    <3>2. Resolve(e) = e
      BY <1>2, <1>11, <1>12, <2>1, ResolveIs
    <3> QED
      BY <1>4, <1>10, <2>1, <3>1, <3>2, SeenIs
  <2>2. Seen' = Seen
    BY SeenIs
  <2> QED
    BY <1>2, <1>5, <1>8, <2>1, <2>2 DEF Reached, Flawless
<1>13. ASSUME e = newest, ~how.swarm, NEW s \in W
       PROVE  runs[s] # e
  <2>1. runs[s] # Resolve(e) /\ runs[s] # None /\ s \in Services
    BY <1>4, <1>13
  <2>2. CASE ~how.moving
    BY <1>2, <2>1, <2>2, ResolveIs
  <2>3. CASE how.moving
    <3>1. runs[s] = newest => local = newest
      BY <1>10, <1>13, <2>1, <2>3 DEF IInv, ImageInv
    <3> QED
      BY <1>2, <1>13, <2>1, <2>3, <3>1, ResolveIs
  <2> QED
    BY <2>2, <2>3
<1>14. ASSUME Settled'
       PROVE  Settled
  <2>1. \A f \in Begun : f # e => (Clean(f)' <=> Clean(f))
    BY <1>5, BegunIs DEF Moves, Clean, Flawless
  <2>2. Clean(e)
    BY <1>2, <1>5, <1>8, <1>14 DEF Settled, Clean, Flawless
  <2> QED
    BY <1>8, <1>14, <2>1, <2>2 DEF Settled
<1>15. \A f \in Begun : \A s : f # e =>
          /\ WorksOn(f, s)' <=> WorksOn(f, s)
          /\ Updates(f, s)' <=> Updates(f, s)
  BY <1>5, BegunIs DEF Moves, WorksOn, Updates
<1>16. ASSUME Settled', how.moving
       PROVE  MovingWhole'
  <2>1. Settled /\ local = newest /\ MovingWhole
    BY <1>14, <1>16, SettledPulled DEF IInv, WholeInv
  <2>2. Resolve(e) = newest
    BY <1>2, <1>16, <2>1, ResolveIs
  <2>3. ASSUME NEW s \in Seen, runs[s] # newest
        PROVE  \E f \in Begun : WorksOn(f, s)'
    <3>1. PICK f \in Begun : WorksOn(f, s)
      BY <2>1, <2>3, SeenIs DEF MovingWhole
    <3>2. CASE f # e
      BY <1>15, <3>1, <3>2
    <3>3. CASE f = e
      <4>1. runs[s] # None /\ s \in W
        BY <1>4, <1>16, <2>2, <2>3, <3>1, <3>3, SeenIs DEF WorksOn
      <4>2. WorksOn(e, s)'
        BY <1>5, <4>1 DEF WorksOn
      <4> QED
        BY <1>2, <4>2
    <3> QED
      BY <3>2, <3>3
  <2> QED
    BY <1>8, <2>3, SeenIs DEF MovingWhole
<1>17. ASSUME Settled', ~how.moving
       PROVE  FixedWhole'
  <2>1. FixedWhole
    BY <1>14, <1>17 DEF IInv, WholeInv
  <2>2. Clean(e)'
    BY <1>2, <1>8, <1>17 DEF Settled
  <2>3. ex'[e].at = "each" => how.swarm
    BY <1>2, <1>5, <1>17, <2>2 DEF Clean
  <2>4. ex'[e].at = "each" => W = Parts
    BY <1>4, <2>1, <2>3 DEF FixedWhole
  <2>5. \A s : ~Updates(e, s)
    BY DEF Updates
  <2>6. \E r \in Releases : \A s \in Parts : runs[s] = r \/ \E f \in Begun : Updates(f, s)'
    BY <1>15, <2>1, <2>5 DEF FixedWhole
  <2>7. ASSUME NEW f \in Begun, NEW s \in Parts, NEW z \in Parts,
               Updates(f, s)', s \in fresh'[f], z \notin ex'[f].todo
        PROVE  /\ runs[z] = f \/ \E g \in Begun : g # f /\ Updates(g, s)'
               /\ \A g \in Begun :
                     ex'[g].at = "each" /\ s \notin ex'[g].todo => z \notin fresh'[g]
    <3>1. f # e
      BY <1>5, <2>4, <2>7 DEF Updates
    <3>2. Updates(f, s) /\ s \in fresh[f] /\ z \notin ex[f].todo
      BY <1>5, <1>6, <1>15, <2>7, <3>1, BegunIs DEF Moves, Looks
    <3>3. runs[z] = f \/ \E g \in Begun : g # f /\ Updates(g, s)
      BY <2>1, <3>2 DEF FixedWhole
    <3>4. ASSUME NEW g \in Begun, ex'[g].at = "each", s \notin ex'[g].todo
          PROVE  z \notin fresh'[g]
      <4>1. g # e
        BY <1>5, <2>4, <3>4
      <4>2. ex'[g] = ex[g] /\ fresh'[g] = fresh[g]
        BY <1>5, <1>6, <4>1, BegunIs DEF Moves, Looks
      <4> QED
        BY <2>1, <3>2, <3>4, <4>2 DEF FixedWhole
    <3> QED
      BY <1>15, <2>5, <3>3, <3>4
  <2>8. \A s \in Parts : runs[s] # None
    BY <2>1 DEF FixedWhole
  <2> QED
    BY <1>8, <2>6, <2>7, <2>8 DEF FixedWhole, Releases, Execs
<1>18. WholeInv'
  BY <1>16, <1>17 DEF WholeInv
<1>19. IInv'
  BY <1>2, <1>5, <1>7, <1>9, <1>12, <1>13, <1>18, ActGood
<1> QED
  BY <1>7, <1>19

LEMMA ListWorkloadsKeeps ==
    ASSUME IInv, NEW e \in Execs, ListWorkloads(e)
    PROVE  Acts(e) /\ IInv'
<1>1. /\ ex[e].at = "list" /\ ex[e].at \in Rooms \ {"verify"} /\ ex[e].at \in Rooms
      /\ UNCHANGED <<how, runs, text, local, disturbed, newest, late, crashes>>
  BY DEF ListWorkloads, Rooms
<1>2. /\ TypeOK /\ ex \in [Execs -> Jobs] /\ ex[e].answer # "ok" /\ ex[e].todo \subseteq Parts
      /\ ex[e].basis = "none"
  BY <1>1, AtPortainer
<1>3. UNCHANGED fresh => Looks(e)
  BY <1>1, <1>2 DEF Looks, TypeOK
<1>4. CASE UNCHANGED fresh /\ Fails(e)
  BY <1>1, <1>3, <1>4, FailsIs
<1>5. CASE UNCHANGED fresh /\ WorkFailed(e)
  <2>1. /\ Moves(e) /\ ex'[e].at = "result" /\ ex'[e].bad # {} /\ ex'[e].todo = ex[e].todo
        /\ ex'[e].basis = ex[e].basis /\ ex'[e].answer = ex[e].answer
    BY <1>2, <1>5, WorkFailedIs
  <2> QED
    BY <1>1, <1>2, <1>3, <1>5, <2>1, DullIs DEF Rooms
<1>6. CASE Reads(e, IF how.swarm THEN Present ELSE Stale(e))
  BY <1>1, <1>6, ReadsKeeps
<1> QED
  BY <1>4, <1>5, <1>6 DEF ListWorkloads

\* Two executions update the services of a Swarm, and e is the first at the service s.
LEMMA UpdateWhole ==
    ASSUME FixedWhole, NEW e \in Begun, NEW s \in Parts, Updates(e, s), s \in fresh[e],
           runs'[s] = e, \A z \in Parts : z # s => runs'[z] = runs[z],
           \A f \in Begun : fresh'[f] = fresh[f] \ {s},
           \A f \in Begun : f # e => ex'[f] = ex[f],
           ex'[e].at = "each", ex'[e].todo = ex[e].todo \ {s},
           Begun' = Begun, Parts' = Parts
    PROVE  FixedWhole'
<1>1. e \in Releases /\ e # None /\ ex[e].at = "each"
  BY BegunIs DEF Updates
<1>2. \A f \in Begun : \A z : Updates(f, z)' <=> (Updates(f, z) /\ ~(f = e /\ z = s))
  BY <1>1 DEF Updates
<1>3. \A z \in Parts : runs'[z] # None
  BY <1>1 DEF FixedWhole
<1>4. \E r \in Releases : \A z \in Parts : runs'[z] = r \/ \E f \in Begun : Updates(f, z)'
  <2>1. PICK r \in Releases : \A z \in Parts : runs[z] = r \/ \E f \in Begun : Updates(f, z)
    BY DEF FixedWhole
  <2>2. CASE \E f \in Begun : f # e /\ Updates(f, s)
    BY <1>2, <2>1, <2>2
  <2>3. CASE ~ \E f \in Begun : f # e /\ Updates(f, s)
    <3>1. \A z \in Parts : z \notin ex[e].todo => runs[z] = e
      BY <2>3 DEF FixedWhole
    <3>2. \A z \in Parts : z # s /\ z \in ex[e].todo => Updates(e, z)'
      BY <1>1, <1>2 DEF Updates
    <3> QED
      BY <1>1, <3>1, <3>2
  <2> QED
    BY <2>2, <2>3
<1>5. ASSUME NEW f \in Begun, NEW t \in Parts, NEW z \in Parts,
             Updates(f, t)', t \in fresh'[f], z \notin ex'[f].todo
      PROVE  /\ runs'[z] = f \/ \E g \in Begun : g # f /\ Updates(g, t)'
             /\ \A g \in Begun :
                   ex'[g].at = "each" /\ t \notin ex'[g].todo => z \notin fresh'[g]
  <2>1. t # s /\ t \in fresh[f] /\ Updates(f, t)
    BY <1>2, <1>5
  <2>2. \A g \in Begun : /\ g # e => ex'[g] = ex[g]
                         /\ fresh'[g] = fresh[g] \ {s}
    OBVIOUS
  <2>3. ASSUME z \notin ex[f].todo
        PROVE  /\ runs[z] = f \/ \E g \in Begun : g # f /\ Updates(g, t)'
               /\ \A g \in Begun :
                     ex[g].at = "each" /\ t \notin ex[g].todo => z \notin fresh[g]
    <3>1. /\ runs[z] = f \/ \E g \in Begun : g # f /\ Updates(g, t)
          /\ \A g \in Begun : ex[g].at = "each" /\ t \notin ex[g].todo => z \notin fresh[g]
      BY <2>1, <2>3 DEF FixedWhole
    <3> QED
      BY <1>2, <2>1, <3>1
  <2>4. CASE z \notin ex[f].todo
    <3>1. ASSUME NEW g \in Begun, ex'[g].at = "each", t \notin ex'[g].todo
          PROVE  z \notin fresh'[g]
      <4>1. ex[g].at = "each" /\ t \notin ex[g].todo
        BY <1>1, <2>1, <2>2, <3>1
      <4> QED
        BY <2>2, <2>3, <2>4, <4>1
    <3>2. runs'[z] = f \/ \E g \in Begun : g # f /\ Updates(g, t)'
      <4>1. CASE z # s
        BY <2>3, <2>4, <4>1
      <4>2. CASE z = s
        <5>1. CASE f = e
          BY <4>2, <5>1
        <5>2. CASE f # e
          <6>1. t \in ex[e].todo
            BY <1>1, <2>3, <2>4, <4>2
          <6> QED
            BY <1>1, <1>2, <2>1, <5>2, <6>1 DEF Updates
        <5> QED
          BY <5>1, <5>2
      <4> QED
        BY <4>1, <4>2
    <3> QED
      BY <3>1, <3>2
  <2>5. CASE z \in ex[f].todo
    <3>1. f = e /\ z = s
      BY <1>5, <2>2, <2>5
    <3> QED
      BY <2>2, <3>1
  <2> QED
    BY <2>4, <2>5
<1>6. \A f \in Begun : \A t, z \in Parts :
        Updates(f, t)' /\ t \in fresh'[f] /\ z \notin ex'[f].todo =>
           /\ runs'[z] = f \/ \E g \in Begun : g # f /\ Updates(g, t)'
           /\ \A g \in Begun :
                 ex'[g].at = "each" /\ t \notin ex'[g].todo => z \notin fresh'[g]
  BY <1>5
<1>7. Releases' = Releases
  BY DEF Releases, Execs
<1> QED
  BY <1>3, <1>4, <1>6, <1>7 DEF FixedWhole

\* One part is updated, or its container deleted.
LEMMA EachKeeps ==
    ASSUME IInv, NEW e \in Execs, ex[e].at = "each", NEW s \in ex[e].todo, s \in fresh[e],
           Touch(e, IF how.swarm THEN "update" ELSE "drop", {s}), NEW b \in {{}, {"work"}},
           ex' = [ex EXCEPT ![e].todo = @ \ {s}, ![e].bad = @ \cup b],
           UNCHANGED <<how, newest, late, crashes>>
    PROVE  Acts(e) /\ IInv'
<1>1. ex[e].at \in Rooms
  BY DEF Rooms
<1>2. /\ TypeOK /\ ex \in [Execs -> Jobs] /\ ex[e].answer # "ok" /\ ex[e].todo \subseteq Parts
      /\ ex[e].basis = "none" /\ Mine = Rooms /\ Spares(e)' /\ newest \in Execs /\ e \in Begun
      /\ ex[e].at \notin {"idle", "done", "dead"} /\ newest # None /\ e # None
  BY <1>1, AtPortainer DEF Execs
<1>3. s \in Parts /\ s \in Services /\ {s} \in SUBSET Services /\ {s} \in SUBSET Parts
      /\ Parts \subseteq Services
  BY <1>2, TypeIs, HowIs
<1>4. /\ Moves(e) /\ ex'[e].at = "each" /\ ex'[e].bad = ex[e].bad \cup b
      /\ ex'[e].todo = ex[e].todo \ {s}
      /\ ex'[e].basis = ex[e].basis /\ ex'[e].answer = ex[e].answer
  BY <1>2, WorksIs
<1>5. PICK q : q = IF how.swarm THEN "update" ELSE "drop"
  OBVIOUS
<1>6. Touch(e, q, {s}) /\ q \in {"update", "drop"} /\ q \in Requests
      /\ (how.swarm <=> q = "update")
  BY <1>5 DEF Requests
<1>7. /\ runs'[s] = Image(e, q)
      /\ \A z \in Services : z # s => runs'[z] = runs[z]
      /\ \A f \in Execs : fresh'[f] = fresh[f] \ {s}
      /\ disturbed' <=> disturbed \/ e # newest
  BY <1>2, <1>3, <1>6, TouchIs
<1>8. how.swarm => Image(e, q) = Resolve(e)
  BY <1>6 DEF Image
<1>9. ~how.swarm => Image(e, q) = None
  BY <1>6 DEF Image
<1>10. /\ how.swarm /\ ~how.moving => runs'[s] = e
       /\ how.swarm /\ how.moving => runs'[s] = newest
       /\ ~how.swarm => runs'[s] = None
  BY <1>2, <1>7, <1>8, <1>9, ResolveIs
<1>11. Harmless(e, q, {s})
  BY <1>2, <1>6 DEF Harmless, IInv, EffectInv
<1>12. Acts(e)
  <2>1. Suits(q)
    BY <1>6 DEF Suits
  <2>2. Reaches(e)
    BY <1>3, <1>6, <1>11, <2>1 DEF Reaches
  <2> QED
    BY <1>1, <1>2, <1>4, <2>2 DEF Acts, Rooms
<1>13. Parts' = Parts /\ Begun' = Begun
  BY <1>12, ActBasics
<1>14. Pulled(e)' => Pulled(e)
  BY <1>2, <1>4 DEF Pulled, Flawless
<1>15. ASSUME e = newest, ~how.swarm, NEW z \in ex'[e].todo \cap fresh'[e]
       PROVE  runs'[z] # e
  <2>1. z # s /\ z \in ex[e].todo \cap fresh[e] /\ z \in Services
    BY <1>2, <1>3, <1>4, <1>7, <1>15
  <2>2. runs[z] # e
    BY <1>2, <1>15, <2>1 DEF IInv, EffectInv
  <2> QED
    BY <1>7, <2>1, <2>2
<1>16. ASSUME e = newest, ~disturbed'
       PROVE  Reached(e)'
  <2>1. ASSUME Flawless(e), NEW z \in Seen
        PROVE  runs'[z] = e \/ z \in ex'[e].todo \/ (~how.swarm /\ runs'[z] = None)
    <3>1. runs[z] = e \/ z \in ex[e].todo \/ (~how.swarm /\ runs[z] = None)
      BY <1>2, <1>7, <1>16, <2>1, SeenIs DEF IInv, EffectInv, Reached
    <3>2. CASE z = s
      BY <1>10, <1>16, <3>2
    <3>3. CASE z # s
      BY <1>3, <1>4, <1>7, <2>1, <3>1, <3>3, SeenIs
    <3> QED
      BY <3>2, <3>3
  <2>2. Flawless(e)' => Flawless(e)
    BY <1>4 DEF Flawless
  <2> QED
    BY <1>2, <1>4, <1>13, <2>1, <2>2, SeenIs DEF Reached
<1>17. ASSUME Settled'
       PROVE  Settled /\ Clean(e)
  <2>1. \A f \in Begun : f # e => (Clean(f)' <=> Clean(f))
    BY <1>4, BegunIs DEF Moves, Clean, Flawless
  <2>2. Clean(e)
    BY <1>2, <1>4, <1>13, <1>17 DEF Settled, Clean, Flawless
  <2> QED
    BY <1>13, <1>17, <2>1, <2>2 DEF Settled
<1>18. ASSUME Settled', how.moving
       PROVE  MovingWhole'
  <2>1. MovingWhole
    BY <1>17, <1>18 DEF IInv, WholeInv
  <2>2. ASSUME NEW z \in Seen, runs'[z] # newest
        PROVE  \E f \in Begun : WorksOn(f, z)'
    <3>1. CASE z = s
      <4>1. ~how.swarm /\ runs'[s] = None
        BY <1>10, <1>18, <2>2, <3>1
      <4>2. WorksOn(e, z)'
        BY <1>4, <3>1, <4>1 DEF WorksOn
      <4> QED
        BY <1>2, <4>2
    <3>2. CASE z # s
      <4>1. runs'[z] = runs[z]
        BY <1>3, <1>7, <2>2, <3>2, SeenIs
      <4>2. PICK f \in Begun : WorksOn(f, z)
        BY <2>1, <2>2, <4>1, SeenIs DEF MovingWhole
      <4>3. CASE f = e
        <5>1. WorksOn(e, z)'
          BY <1>4, <3>2, <4>1, <4>2, <4>3 DEF WorksOn
        <5> QED
          BY <1>2, <5>1
      <4>4. CASE f # e
        <5>1. ex'[f] = ex[f]
          BY <1>4, <4>4, BegunIs DEF Moves
        <5> QED
          BY <4>1, <4>2, <5>1 DEF WorksOn
      <4> QED
        BY <4>3, <4>4
    <3> QED
      BY <3>1, <3>2
  <2> QED
    BY <1>13, <2>2, SeenIs DEF MovingWhole
<1>19. ASSUME Settled', ~how.moving
       PROVE  FixedWhole'
  <2>1. how.swarm /\ FixedWhole
    BY <1>17, <1>19 DEF Clean, IInv, WholeInv
  <2>2. \A f \in Begun : f # e => ex'[f] = ex[f]
    BY <1>4, BegunIs DEF Moves
  <2>3. \A f \in Begun : fresh'[f] = fresh[f] \ {s}
    BY <1>7, BegunIs
  <2>4. Updates(e, s)
    BY DEF Updates
  <2> QED
    <3>1. \A z \in Parts : z # s => runs'[z] = runs[z]
      BY <1>3, <1>7
    <3>2. runs'[s] = e
      BY <1>10, <1>19, <2>1
    <3>3. e \in Begun /\ s \in Parts /\ ex'[e].at = "each" /\ ex'[e].todo = ex[e].todo \ {s}
      BY <1>2, <1>3, <1>4
    <3> QED
      BY <1>13, <2>1, <2>2, <2>3, <2>4, <3>1, <3>2, <3>3, UpdateWhole
<1>20. WholeInv'
  BY <1>18, <1>19 DEF WholeInv
<1>21. IInv'
  BY <1>2, <1>12, <1>14, <1>15, <1>16, <1>20, ActGood
<1> QED
  BY <1>12, <1>21

LEMMA ForceUpdateKeeps ==
    ASSUME IInv, NEW e \in Execs, ForceUpdate(e)
    PROVE  Acts(e) /\ IInv'
<1>1. PICK s \in ex[e].todo :
        \/ /\ IsCurrent(e, s)
           /\ Touch(e, IF how.swarm THEN "update" ELSE "drop", {s})
           /\ \E b \in {{}, {"work"}} :
                 ex' = [ex EXCEPT ![e].todo = @ \ {s}, ![e].bad = @ \cup b]
        \/ /\ ex' = [ex EXCEPT ![e].todo = @ \ {s}, ![e].bad = @ \cup {"work"}]
           /\ UNCHANGED host
  BY DEF ForceUpdate
<1>2. ex[e].at = "each" /\ ex[e].at \in Rooms /\ UNCHANGED <<how, newest, late, crashes>>
  BY DEF ForceUpdate, Rooms
<1>3. CASE /\ IsCurrent(e, s)
           /\ Touch(e, IF how.swarm THEN "update" ELSE "drop", {s})
           /\ \E b \in {{}, {"work"}} :
                 ex' = [ex EXCEPT ![e].todo = @ \ {s}, ![e].bad = @ \cup b]
  BY <1>2, <1>3, EachKeeps DEF IsCurrent
<1>4. CASE /\ ex' = [ex EXCEPT ![e].todo = @ \ {s}, ![e].bad = @ \cup {"work"}]
           /\ UNCHANGED host
  <2>1. /\ TypeOK /\ ex \in [Execs -> Jobs] /\ ex[e].answer # "ok" /\ ex[e].todo \subseteq Parts
        /\ ex[e].basis = "none" /\ newest \in Execs
    BY <1>2, AtPortainer
  <2>2. /\ Moves(e) /\ ex'[e].at = "each" /\ ex'[e].bad = ex[e].bad \cup {"work"}
        /\ ex'[e].todo = ex[e].todo \ {s}
        /\ ex'[e].basis = ex[e].basis /\ ex'[e].answer = ex[e].answer
    BY <1>2, <1>4, <2>1, WorksIs
  <2>3. Looks(e)
    BY <1>4, <2>1 DEF Looks, host, TypeOK
  <2>4. e = newest /\ ~how.swarm => \A z \in ex'[e].todo \cap fresh'[e] : runs'[z] # e
    BY <1>2, <1>4, <2>1, <2>2 DEF IInv, EffectInv, host, Execs
  <2> QED
    BY <1>2, <2>1, <2>2, <2>3, <2>4, DullIs DEF Rooms
<1> QED
  BY <1>1, <1>3, <1>4

\* A step that only looks, of an execution that is beyond its updates
LEMMA QuietWhole ==
    ASSUME IInv, NEW e, Acts(e), Looks(e), ex'[e].at # "each", \A s : ~Updates(e, s),
           Clean(e)' => Clean(e) /\ \A s \in Parts : WorksOn(e, s) => WorksOn(e, s)'
    PROVE  WholeInv'
<1>1. /\ Begun' = Begun /\ e \in Begun /\ Parts' = Parts /\ UNCHANGED <<how, newest>>
      /\ UNCHANGED runs /\ Releases' = Releases
  BY ActBasics DEF Acts, Looks, Releases, Execs
<1>2. \A f \in Begun : f # e => ex'[f] = ex[f] /\ fresh'[f] = fresh[f]
  BY BegunIs DEF Acts, Moves, Looks
<1>3. \A f \in Begun : \A s : f # e =>
         /\ Clean(f)' <=> Clean(f)
         /\ WorksOn(f, s)' <=> WorksOn(f, s)
         /\ Updates(f, s)' <=> Updates(f, s)
  BY <1>1, <1>2 DEF Clean, Flawless, WorksOn, Updates
<1>4. ASSUME Settled'
      PROVE  Settled /\ Clean(e)'
  BY <1>1, <1>3, <1>4 DEF Settled
<1>5. ASSUME Settled', how.moving
      PROVE  MovingWhole'
  <2>1. MovingWhole
    BY <1>4, <1>5 DEF IInv, WholeInv
  <2> QED
    BY <1>1, <1>3, <1>4, <1>5, <2>1, SeenIs DEF MovingWhole
<1>6. ASSUME Settled', ~how.moving
      PROVE  FixedWhole'
  <2>1. FixedWhole
    BY <1>4, <1>6 DEF IInv, WholeInv
  <2>2. \A s : ~Updates(e, s)'
    BY DEF Updates
  <2>3. \A f \in Begun : \A s : Updates(f, s)' <=> Updates(f, s)
    BY <1>3, <2>2
  <2>4. \A f \in Begun : ex'[f].at = "each" => ex'[f] = ex[f] /\ fresh'[f] = fresh[f]
    BY <1>2
  <2>5. \A f \in Begun : \A s, z \in Parts :
           Updates(f, s)' /\ s \in fresh'[f] /\ z \notin ex'[f].todo =>
              /\ runs[z] = f \/ \E g \in Begun : g # f /\ Updates(g, s)'
              /\ \A g \in Begun :
                    ex'[g].at = "each" /\ s \notin ex'[g].todo => z \notin fresh'[g]
    <3>1. ASSUME NEW f \in Begun, NEW s \in Parts, NEW z \in Parts,
                 Updates(f, s)', s \in fresh'[f], z \notin ex'[f].todo
          PROVE  Updates(f, s) /\ s \in fresh[f] /\ z \notin ex[f].todo
      BY <2>3, <2>4, <3>1 DEF Updates
    <3> QED
      BY <2>1, <2>3, <2>4, <3>1 DEF FixedWhole
  <2>6. \E r \in Releases : \A s \in Parts : runs[s] = r \/ \E f \in Begun : Updates(f, s)'
    BY <2>1, <2>3 DEF FixedWhole
  <2>7. \A s \in Parts : runs[s] # None
    BY <2>1 DEF FixedWhole
  <2> QED
    BY <1>1, <2>5, <2>6, <2>7 DEF FixedWhole
<1> QED
  BY <1>1, <1>5, <1>6 DEF WholeInv

LEMMA LoopEndsKeeps ==
    ASSUME IInv, NEW e \in Execs, LoopEnds(e)
    PROVE  Acts(e) /\ IInv'
<1>1. /\ ex[e].at = "each" /\ ex[e].at \in Rooms /\ ex[e].todo = {}
      /\ UNCHANGED <<how, runs, text, local, disturbed, newest, late, crashes>>
      /\ fresh' = [fresh EXCEPT ![e] = {}]
  BY DEF LoopEnds, Rooms
<1>2. /\ TypeOK /\ ex \in [Execs -> Jobs] /\ ex[e].answer # "ok"
      /\ ex[e].basis = "none" /\ Mine = Rooms /\ Spares(e)' /\ newest \in Execs /\ e \in Begun
      /\ ex[e].at \notin {"idle", "done", "dead"} /\ newest # None
  BY <1>1, AtPortainer DEF Execs
<1>3. PICK p : p = IF how.swarm \/ "work" \in ex[e].bad THEN "result" ELSE "again"
  OBVIOUS
<1>4. p \in Places /\ Go(e, p)
  BY <1>3 DEF LoopEnds, Places
<1>5. /\ Moves(e) /\ ex'[e].at = p /\ ex'[e].todo = {} /\ ex'[e].bad = ex[e].bad
      /\ ex'[e].basis = ex[e].basis /\ ex'[e].answer = ex[e].answer
  BY <1>1, <1>2, <1>4, GoIs
<1>6. Looks(e)
  BY <1>1, <1>2 DEF Looks, TypeOK
<1>7. Acts(e)
  BY <1>1, <1>2, <1>3, <1>5, <1>6 DEF Acts, Rooms
<1>8. Parts' = Parts
  BY <1>7, ActBasics
<1>9. Pulled(e)' => Pulled(e)
  BY <1>1, <1>2, <1>3, <1>5 DEF Pulled, Flawless
<1>10. ASSUME e = newest, ~disturbed'
       PROVE  Reached(e)'
  <2>1. ASSUME Flawless(e), NEW s \in Seen
        PROVE  runs[s] = e \/ (~how.swarm /\ runs[s] = None)
    BY <1>1, <1>2, <1>10, <2>1, SeenIs DEF IInv, EffectInv, Reached
  <2>2. Flawless(e)' <=> Flawless(e)
    BY <1>5 DEF Flawless
  <2>3. p = "result" /\ Flawless(e) => how.swarm
    BY <1>3 DEF Flawless
  <2> QED
    BY <1>1, <1>2, <1>3, <1>5, <1>8, <2>1, <2>2, <2>3, SeenIs DEF Reached
<1>11. WholeInv'
  <2>1. \A s : ~Updates(e, s)
    BY <1>1 DEF Updates
  <2>2. ASSUME Clean(e)'
        PROVE  Clean(e) /\ \A s \in Parts : WorksOn(e, s) => WorksOn(e, s)'
    <3>1. /\ ex[e].bad = {}
          /\ p = "result" => how.swarm
          /\ p = "again" => how.moving
      BY <1>1, <1>2, <1>3, <1>5, <2>2 DEF Clean, Flawless
    <3> QED
      BY <1>1, <1>3, <1>5, <3>1 DEF Clean, Flawless, WorksOn
  <2> QED
    BY <1>3, <1>5, <1>6, <1>7, <2>1, <2>2, QuietWhole
<1>12. IInv'
  BY <1>2, <1>3, <1>5, <1>7, <1>9, <1>10, <1>11, ActGood
<1> QED
  BY <1>7, <1>12

\* A put or a late request does not mix what a tag that moves has brought.
LEMMA PutMovingWhole ==
    ASSUME IInv, Settled, how.moving, NEW e \in Execs, NEW q \in {"put", "create"},
           NEW S \in Reach(q), Touch(e, q, S), NEW z \in Seen, runs'[z] # newest
    PROVE  /\ runs'[z] = runs[z] /\ runs[z] # None
           /\ \E f \in Begun : \/ ex[f].at = "list"
                               \/ ex[f].at = "each" /\ z \in ex[f].todo
<1>1. local = newest /\ newest \in Execs /\ TypeOK /\ MovingWhole
  BY SettledPulled, BegunIs DEF IInv, WholeInv
<1>2. runs'[z] = runs[z] /\ runs[z] # None
  BY <1>1, PutMoving, SeenIs
<1> QED
  BY <1>1, <1>2 DEF MovingWhole, WorksOn

LEMMA PutAgainKeeps ==
    ASSUME IInv, NEW e \in Execs, PutAgain(e)
    PROVE  Acts(e) /\ IInv'
<1>1. /\ ex[e].at = "again" /\ ex[e].at \in Rooms \ {"verify"} /\ ex[e].at \in Rooms
      /\ UNCHANGED <<how, newest, crashes>>
  BY DEF PutAgain, Rooms
<1>2. /\ TypeOK /\ ex \in [Execs -> Jobs] /\ ex[e].answer # "ok" /\ ex[e].todo \subseteq Parts
      /\ ex[e].basis = "none" /\ Mine = Rooms /\ Spares(e)' /\ newest \in Execs /\ e \in Begun
      /\ ex[e].at \notin {"idle", "done", "dead"} /\ newest # None
  BY <1>1, AtPortainer DEF Execs
<1>3. /\ Looks(e) \/ Reaches(e)
      /\ UNCHANGED late \/ late' = late \cup {<<e, "put">>}
  <2>1. Suits("put") /\ "put" \in Requests
    BY DEF Suits, Requests
  <2> QED
    BY <2>1, RequestIs DEF PutAgain
<1>4. CASE Broken(e, "put") /\ WorkFailed(e)
  <2>1. /\ Moves(e) /\ ex'[e].at = "result" /\ ex'[e].bad # {} /\ ex'[e].todo = ex[e].todo
        /\ ex'[e].basis = ex[e].basis /\ ex'[e].answer = ex[e].answer
    BY <1>2, <1>4, WorkFailedIs
  <2> QED
    BY <1>1, <1>2, <1>3, <2>1, DullIs DEF Rooms
<1>5. CASE Done(e, "put") /\ Go(e, "result")
  <2>1. "result" \in Places
    BY DEF Places
  <2>2. /\ Moves(e) /\ ex'[e].at = "result" /\ ex'[e].todo = ex[e].todo
        /\ ex'[e].bad = ex[e].bad
        /\ ex'[e].basis = ex[e].basis /\ ex'[e].answer = ex[e].answer
    BY <1>2, <1>5, <2>1, GoIs
  <2>3. Acts(e)
    BY <1>1, <1>2, <1>3, <1>5, <2>2 DEF Acts, Rooms, Done
  <2>4. PICK S \in Reach("put") : Touch(e, "put", S)
    BY <1>5 DEF Done
  <2>5. CASE ~how.moving
    <3>1. S = Parts /\ Image(e, "put") = e /\ e \in Releases
      BY <1>2, <2>4, <2>5, ReachIs, ResolveIs DEF Image, Releases
    <3> QED
      BY <1>2, <2>2, <2>3, <2>4, <2>5, <3>1, ActWhole
  <2>6. CASE how.moving
    <3>1. Parts' = Parts /\ Begun' = Begun /\ Parts \subseteq Services
      BY <1>2, <2>3, ActBasics, TypeIs, HowIs
    <3>2. Pulled(e)' => Pulled(e)
      BY <1>1, <1>2, <2>2 DEF Pulled, Flawless
    <3>3. ASSUME e = newest, ~disturbed'
          PROVE  Reached(e)'
      <4>1. ASSUME Flawless(e), NEW s \in Seen
            PROVE  runs'[s] = e
        <5>1. Pulled(e)
          BY <1>1, <4>1 DEF Pulled
        <5>2. runs'[s] = IF s \in S THEN e ELSE runs[s]
          BY <2>4, <3>1, <3>3, <4>1, <5>1, PutBrings, SeenIs
        <5>3. s \notin S => runs[s] # None
          BY <1>2, <2>4, <2>6, <4>1, PutMoving, SeenIs
        <5>4. ~disturbed
          BY <2>4, <3>3 DEF Touch
        <5>5. runs[s] \in {e, None}
          BY <1>1, <1>2, <3>3, <4>1, <5>4, SeenIs DEF IInv, EffectInv, Reached
        <5> QED
          BY <5>2, <5>3, <5>5
      <4>2. Seen' = Seen
        BY <1>1, SeenIs
      <4> QED
        BY <1>2, <2>2, <3>1, <4>1, <4>2 DEF Reached, Flawless
    <3>4. ASSUME Settled'
          PROVE  MovingWhole'
      <4>1. \A f \in Begun : f # e => ex'[f] = ex[f]
        BY <2>2, BegunIs DEF Moves
      <4>2. Settled
        <5>1. Clean(e)
          BY <1>1, <1>2, <2>2, <2>6, <3>1, <3>4 DEF Settled, Clean, Flawless
        <5>2. \A f \in Begun : f # e => (Clean(f)' <=> Clean(f))
          BY <1>1, <4>1 DEF Clean, Flawless
        <5> QED
          BY <3>1, <3>4, <5>1, <5>2 DEF Settled
      <4>3. ASSUME NEW z \in Seen, runs'[z] # newest
            PROVE  \E f \in Begun : WorksOn(f, z)'
        <5>1. /\ runs'[z] # None
              /\ \E f \in Begun : \/ ex[f].at = "list"
                                  \/ ex[f].at = "each" /\ z \in ex[f].todo
          BY <2>4, <2>6, <4>2, <4>3, PutMovingWhole
        <5> QED
          BY <1>1, <4>1, <5>1 DEF WorksOn
      <4> QED
        BY <1>1, <3>1, <4>3, SeenIs DEF MovingWhole
    <3>5. WholeInv'
      BY <1>1, <2>6, <3>4 DEF WholeInv
    <3> QED
      BY <1>2, <2>2, <2>3, <3>2, <3>3, <3>5, ActGood
  <2> QED
    BY <2>3, <2>5, <2>6
<1> QED
  BY <1>4, <1>5 DEF PutAgain

\* The step of an attempt that went well
LEMMA EndKeeps ==
    ASSUME IInv, NEW e \in Execs,
           \/ ex[e].at = "result" /\ Flawless(e)
           \/ ex[e].at = "verify" /\ ex[e].basis = "release",
           Moves(e), ex'[e].at \in {"verify", "done"}, ex'[e].basis = "release",
           ex'[e].answer = "ok" => ex'[e].at = "done", ex'[e].todo \subseteq Parts,
           UNCHANGED <<how, host, newest, late, crashes>>
    PROVE  Acts(e) /\ IInv'
<1>1. ex[e].at \in Rooms
  BY DEF Rooms
<1>2. /\ TypeOK /\ ex \in [Execs -> Jobs] /\ Mine = Rooms /\ Spares(e)' /\ newest \in Execs
      /\ ex[e].at \notin {"idle", "done", "dead"} /\ newest # None /\ e \in Begun
  BY <1>1, AtPortainer DEF Execs
<1>3. Looks(e) /\ UNCHANGED runs /\ disturbed' = disturbed
  BY <1>2 DEF Looks, host, TypeOK
<1>4. Acts(e)
  BY <1>1, <1>2, <1>3 DEF Acts, Rooms
<1>5. Parts' = Parts
  BY <1>4, ActBasics
<1>6. Pulled(e)' => Pulled(e)
  BY DEF Pulled
<1>7. e = newest /\ ~disturbed' => Reached(e)'
  BY <1>2, <1>3, <1>5, SeenIs DEF IInv, EffectInv, Reached
<1>8. WholeInv'
  <2>1. Clean(e)
    BY DEF Clean
  <2>2. \A s : ~Updates(e, s) /\ ~WorksOn(e, s)
    <3>1. CASE ex[e].at = "result"
      BY <3>1 DEF Updates, WorksOn
    <3>2. CASE ex[e].at = "verify"
      BY <3>2 DEF Updates, WorksOn
    <3> QED
      BY <3>1, <3>2
  <2> QED
    BY <1>3, <1>4, <2>1, <2>2, QuietWhole
<1>9. IInv'
  BY <1>2, <1>4, <1>6, <1>7, <1>8, ActGood
<1> QED
  BY <1>4, <1>9

LEMMA UpdateResultKeeps ==
    ASSUME IInv, NEW e \in Execs, UpdateResult(e)
    PROVE  Acts(e) /\ IInv'
<1>1. /\ ex[e].at = "result" /\ ex[e].at \in Rooms \ {"verify"}
      /\ UNCHANGED <<how, host, newest, late, crashes>>
  BY DEF UpdateResult, Rooms
<1>2. /\ TypeOK /\ ex \in [Execs -> Jobs] /\ ex[e].answer # "ok" /\ ex[e].todo \subseteq Parts
      /\ ex[e].basis = "none"
  BY <1>1, AtPortainer
<1>3. CASE ex[e].bad = {} /\ Finish(e, "release")
  <2>1. /\ Moves(e) /\ ex'[e].at \in {"verify", "done"} /\ ex'[e].basis = "release"
        /\ ex'[e].answer = "ok" => ex'[e].at = "done"
        /\ ex'[e].todo \subseteq Parts
    BY <1>2, <1>3, FinishIs
  <2> QED
    BY <1>1, <1>3, <2>1, EndKeeps DEF Flawless
<1>4. CASE Answer(e, "failed") \/ Fails(e)
  <2>1. Looks(e)
    BY <1>1, <1>2 DEF Looks, host, TypeOK
  <2> QED
    BY <1>1, <1>4, <2>1, FailsIs
<1> QED
  BY <1>3, <1>4 DEF UpdateResult

LEMMA VerifyKeeps ==
    ASSUME IInv, NEW e \in Execs, Verify(e)
    PROVE  Acts(e) /\ IInv'
<1>1. /\ ex[e].at = "verify" /\ ex[e].at \in Rooms
      /\ UNCHANGED <<how, host, newest, late, crashes>>
  BY DEF Verify, Rooms
<1>2. TypeOK /\ ex \in [Execs -> Jobs] /\ ex[e].answer # "ok"
  BY <1>1, AtPortainer
<1>3. PICK a \in {"ok", "failed"} : Answer(e, a)
  BY DEF Verify
<1>4. /\ Moves(e) /\ ex'[e].at = "done" /\ ex'[e].todo = {}
      /\ ex'[e].basis = ex[e].basis
  BY <1>2, <1>3, AnswerIs
<1>5. CASE ex[e].basis = "release"
  BY <1>1, <1>4, <1>5, EndKeeps
<1>6. CASE ex[e].basis # "release"
  <2>1. Looks(e)
    BY <1>1, <1>2 DEF Looks, host, TypeOK
  <2> QED
    BY <1>1, <1>4, <1>6, <2>1, DullIs
<1> QED
  BY <1>5, <1>6

LEMMA PortainerKeeps ==
    ASSUME IInv, NEW e \in Execs, PortainerStep(e)
    PROVE  Acts(e) /\ IInv'
  BY RemoveStackKeeps, LooksKeep, CreateStackKeeps, PutStackKeeps, ListWorkloadsKeeps,
     ForceUpdateKeeps, LoopEndsKeeps, PutAgainKeeps, UpdateResultKeeps, VerifyKeeps
     DEF PortainerStep

-----------------------------------------------------------------------------
(* The steps of ShellTarget. *)

Rails == {"login", "clean", "write", "up", "run", "conflict", "rerun"}

LEMMA ShellIs ==
    ASSUME how \in Hows, ~ByPortainer
    PROVE  /\ how.by \in {"sshRun", "sshSteps", "sshCompose", "agentRun", "agentCompose"}
           /\ ~how.moving /\ ~how.swarm
           /\ Mine \subseteq Rails /\ Deploying \in Mine /\ Deploying \in Places
           /\ Deploying \in {"write", "up", "run"}
           /\ how.by = "sshCompose" => "up" \in Mine /\ Deploying = "write"
           /\ how.by \in {"sshSteps"} \cup Agent => "conflict" \in Mine /\ "rerun" \in Mine
           /\ how.by \in Agent => "clean" \in Mine
<1>1. how.by \in {"sshRun", "sshSteps", "sshCompose", "agentRun", "agentCompose"}
  BY HowIs DEF Agent, Ssh
<1>2. ~how.moving /\ ~how.swarm
  BY <1>1, HowIs DEF ByPortainer
<1>3. CASE how.by = "sshRun"
  BY <1>2, <1>3 DEF Mine, Rails, Deploying, Agent, Places
<1>4. CASE how.by = "sshSteps"
  BY <1>2, <1>4 DEF Mine, Rails, Deploying, Agent, Places
<1>5. CASE how.by = "sshCompose"
  BY <1>2, <1>5 DEF Mine, Rails, Deploying, Agent, Places
<1>6. CASE how.by = "agentRun"
  BY <1>2, <1>6 DEF Mine, Rails, Deploying, Agent, Places
<1>7. CASE how.by = "agentCompose"
  BY <1>2, <1>7 DEF Mine, Rails, Deploying, Agent, Places
<1> QED
  BY <1>1, <1>3, <1>4, <1>5, <1>6, <1>7

LEMMA AtShell ==
    ASSUME IInv, NEW e \in Execs, ex[e].at \in Rails
    PROVE  /\ TypeOK /\ ex \in [Execs -> Jobs] /\ how \in Hows /\ ~ByPortainer
           /\ ~how.moving /\ ~how.swarm
           /\ ex[e].answer # "ok" /\ ex[e].todo \subseteq Parts /\ ex[e].basis = "none"
           /\ ex[e].at = "clean" => ex[e].remove
           /\ e \in Begun /\ newest \in Begun /\ newest \in Execs /\ newest # None
           /\ ex[e].at \notin {"idle", "done", "dead"}
           /\ \A q : <<e, q>> \notin late
           /\ e = newest /\ ~disturbed => Spares(e)
           /\ Parts \subseteq Services
<1>1. TypeOK /\ ex \in [Execs -> Jobs] /\ how \in Hows
  BY TypeIs DEF IInv
<1>2. ~ByPortainer
  BY <1>1, MineIs DEF IInv, PlaceInv, Rails
<1>3. ex[e].at \notin {"idle", "done", "dead"} /\ e \in Begun
  BY DEF Rails, Begun
<1>4. newest \in Begun
  BY <1>3 DEF IInv, OrderInv
<1>5. \A q : <<e, q>> \notin late
  BY <1>2, <1>3 DEF IInv, LateInv, Fallen
<1>6. newest \in Execs /\ newest # None
  BY <1>4, BegunIs
<1>7. e = newest /\ ~disturbed => Spares(e)
  BY <1>6 DEF IInv, EffectInv
<1>8. ~how.moving /\ ~how.swarm /\ Parts \subseteq Services
  BY <1>1, <1>2, ShellIs, HowIs
<1>9. /\ ex[e].answer # "ok" /\ ex[e].todo \subseteq Parts /\ ex[e].basis = "none"
      /\ ex[e].at = "clean" => ex[e].remove
  BY <1>3 DEF IInv, PlaceInv, Rails
<1> QED
  BY <1>1, <1>2, <1>3, <1>4, <1>5, <1>6, <1>7, <1>8, <1>9

\* A command that comes to an end
LEMMA TriedIs ==
    ASSUME IInv, NEW e \in Execs, ex[e].at \in Rails, NEW q \in Requests,
           \A S \in SUBSET Parts : Harmless(e, q, S), Done(e, q) \/ Spoilt(e, q)
    PROVE  (Looks(e) \/ Reaches(e)) /\ UNCHANGED late
<1>1. TypeOK /\ Suits(q)
  BY AtShell DEF Suits
<1>2. UNCHANGED host => Looks(e)
  BY <1>1 DEF Looks, host, TypeOK
<1>3. (\E S \in SUBSET Parts : Touch(e, q, S)) \/ UNCHANGED host
  BY <1>1, ReachIs DEF Done, Spoilt, Reach
<1> QED
  BY <1>1, <1>2, <1>3 DEF Reaches, Done, Spoilt

LEMMA ShellDull ==
    ASSUME IInv, NEW e \in Execs, ex[e].at \in Rails, Moves(e),
           ex'[e].at \in Mine \cup {"done"}, ex'[e].at = "clean" => ex[e].remove,
           ex'[e].basis # "release", ex'[e].at # "done" => ex'[e].basis = "none",
           ex'[e].answer = "ok" => ex'[e].at = "done", ex'[e].todo \subseteq Parts,
           Looks(e) \/ Reaches(e), UNCHANGED late \/ Leaves(e),
           e = newest /\ ~disturbed' => Spares(e)',
           UNCHANGED <<how, newest, crashes>>
    PROVE  Acts(e) /\ IInv'
<1>1. /\ ex[e].at \notin {"idle", "done", "dead"} /\ ~how.moving /\ Mine \subseteq Rails
  BY AtShell, ShellIs
<1>2. Acts(e)
  BY <1>1 DEF Acts, Rails
<1>3. Dull(e)' /\ ex'[e].at # "each"
  BY <1>1 DEF Dull, Rails
<1> QED
  BY <1>1, <1>2, <1>3, ActDull

\* A command that fails
LEMMA ShellFails ==
    ASSUME IInv, NEW e \in Execs, ex[e].at \in Rails, NEW q \in Requests,
           \A S \in SUBSET Parts : Harmless(e, q, S),
           Spoilt(e, q) \/ Errs(e, q), Answer(e, "failed"),
           BySsh => q \in (IF how.by = "sshCompose" THEN {"down", "up", "write"}
                           ELSE {"drop", "run"}),
           q = "write" => Spoilt(e, q), q = "down" => ex[e].remove,
           e = newest /\ ~disturbed' => Spares(e)', UNCHANGED <<how, newest, crashes>>
    PROVE  Acts(e) /\ IInv'
<1>1. /\ TypeOK /\ ex \in [Execs -> Jobs] /\ ex[e].basis = "none" /\ ~ByPortainer
  BY AtShell
<1>2. /\ Moves(e) /\ ex'[e].at = "done" /\ ex'[e].basis = "none" /\ ex'[e].todo = {}
      /\ ex'[e].answer = "failed" /\ Fallen(e)'
  BY <1>1, AnswerIs DEF Fallen
<1>3. CASE Spoilt(e, q)
  <2>1. (Looks(e) \/ Reaches(e)) /\ UNCHANGED late
    BY <1>3, TriedIs
  <2> QED
    BY <1>2, <2>1, ShellDull
<1>4. CASE BySsh /\ Pending(e, q) /\ q # "write"
  <2>1. Looks(e)
    BY <1>1, <1>4 DEF Pending, Looks, host, TypeOK
  <2>2. Leaves(e)
    BY <1>1, <1>2, <1>4 DEF Pending, Leaves
  <2> QED
    BY <1>2, <2>1, <2>2, ShellDull
<1> QED
  BY <1>3, <1>4 DEF Errs

\* A command that goes on to another, or leaves the host alone
LEMMA ShellGoes ==
    ASSUME IInv, NEW e \in Execs, ex[e].at \in Rails, NEW place \in Mine, Go(e, place),
           place = "clean" => ex[e].remove, Looks(e) \/ Reaches(e), UNCHANGED late,
           e = newest /\ ~disturbed' => Spares(e)', UNCHANGED <<how, newest, crashes>>
    PROVE  Acts(e) /\ IInv'
<1>1. /\ ex \in [Execs -> Jobs] /\ ex[e].answer # "ok" /\ ex[e].todo \subseteq Parts
      /\ ex[e].basis = "none" /\ Mine \subseteq Rails
  BY AtShell, ShellIs
<1>2. place \in Places
  BY <1>1 DEF Rails, Places
<1>3. /\ Moves(e) /\ ex'[e].at = place /\ ex'[e].todo = ex[e].todo
      /\ ex'[e].basis = ex[e].basis /\ ex'[e].answer = ex[e].answer
  BY <1>1, <1>2, GoIs
<1> QED
  BY <1>1, <1>3, ShellDull DEF Rails

\* The command that brings the release
LEMMA ShellBrings ==
    ASSUME IInv, NEW e \in Execs, ex[e].at \in Rails, NEW q \in {"up", "run"},
           Done(e, q), Success(e, "release"), \A S \in SUBSET Parts : Harmless(e, q, S),
           NEW r \in Releases, Image(e, q) = r, e = newest /\ ~disturbed => r = e,
           UNCHANGED <<how, newest, crashes>>
    PROVE  Acts(e) /\ IInv'
<1>1. /\ TypeOK /\ ex \in [Execs -> Jobs] /\ ~how.moving
      /\ ex[e].at \notin {"idle", "done", "dead"} /\ \A x : <<e, x>> \notin late
  BY AtShell
<1>2. /\ Moves(e) /\ ex'[e].at = "done" /\ ex'[e].todo = {}
      /\ ex'[e].basis = "release" /\ ex'[e].answer = "ok"
  BY <1>1, SuccessIs
<1>3. (Looks(e) \/ Reaches(e)) /\ UNCHANGED late
  <2>1. q \in Requests
    BY DEF Requests
  <2> QED
    BY <2>1, TriedIs
<1>4. Acts(e)
  BY <1>1, <1>2, <1>3 DEF Acts
<1>5. Touch(e, q, Parts)
  BY <1>1, ReachIs DEF Done
<1>6. Spares(e)'
  BY <1>1, <1>2, <1>3 DEF Spares
<1> QED
  BY <1>1, <1>2, <1>4, <1>5, <1>6, ActWhole

\* What the last execution has spared stays so while nothing touches it.
LEMMA SparesStay ==
    ASSUME IInv, NEW e \in Execs, ex[e].at \in Rails,
           ~ (how.by = "sshCompose" /\ ex'[e].at = "up"),
           how.by \in Ssh /\ ~ex[e].remove => ex'[e].at \notin {"run", "conflict"},
           UNCHANGED late \/ \E q \in {"down", "run"} : late' = late \cup {<<e, q>>},
           ex'[e].remove = ex[e].remove, UNCHANGED how
    PROVE  Spares(e)'
<1>1. \A q : <<e, q>> \notin late
  BY AtShell
<1>2. <<e, "drop">> \notin late' /\ <<e, "up">> \notin late'
  BY <1>1
<1> QED
  BY <1>2 DEF Spares

LEMMA CleanHostKeeps ==
    ASSUME IInv, NEW e \in Execs, CleanHost(e)
    PROVE  Acts(e) /\ IInv'
<1>1. ex[e].at = "clean" /\ ex[e].at \in Rails /\ BySsh /\ UNCHANGED <<how, newest, crashes>>
  BY DEF CleanHost, Rails
<1>2. PICK q : q = IF how.by = "sshCompose" THEN "down" ELSE "drop"
  OBVIOUS
<1>3. /\ ex[e].remove /\ how \in Hows /\ ~ByPortainer /\ ex \in [Execs -> Jobs]
      /\ \A x : <<e, x>> \notin late
  BY <1>1, AtShell
<1>4. q \in Requests /\ \A S \in SUBSET Parts : Harmless(e, q, S)
  BY <1>2, <1>3 DEF Requests, Harmless
<1>5. CASE (Done(e, q) \/ Spoilt(e, q)) /\ Go(e, Deploying)
  <2>1. /\ Deploying \in Mine /\ Deploying \in Places /\ Deploying # "clean"
        /\ how.by = "sshCompose" => Deploying # "up"
    BY <1>3, ShellIs
  <2>2. (Looks(e) \/ Reaches(e)) /\ UNCHANGED late
    BY <1>1, <1>4, <1>5, TriedIs
  <2>3. ex'[e].at = Deploying /\ ex'[e].remove = ex[e].remove
    BY <1>3, <1>5, <2>1, GoIs DEF Moves
  <2>4. Spares(e)'
    BY <1>1, <1>3, <2>1, <2>2, <2>3, SparesStay
  <2> QED
    BY <1>1, <1>5, <2>1, <2>2, <2>4, ShellGoes
<1>6. CASE Errs(e, q) /\ Answer(e, "failed")
  <2>1. ex'[e].at = "done" /\ ex'[e].remove = ex[e].remove
    BY <1>3, <1>6, AnswerIs DEF Moves
  <2>2. UNCHANGED late \/ late' = late \cup {<<e, q>>}
    BY <1>6 DEF Errs, Spoilt, Pending
  <2>3. Spares(e)'
    <3>1. how.by = "sshCompose" => <<e, "up">> \notin late'
      BY <1>2, <1>3, <2>2
    <3> QED
      BY <1>1, <1>3, <2>1, <3>1 DEF Spares
  <2>4. /\ q \in (IF how.by = "sshCompose" THEN {"down", "up", "write"} ELSE {"drop", "run"})
        /\ q # "write"
    BY <1>2
  <2> QED
    BY <1>1, <1>3, <1>4, <1>6, <2>3, <2>4, ShellFails
<1>7. \/ (Done(e, q) \/ Spoilt(e, q)) /\ Go(e, Deploying)
      \/ Errs(e, q) /\ Answer(e, "failed")
  BY <1>2 DEF CleanHost
<1> QED
  BY <1>5, <1>6, <1>7

LEMMA WriteFileKeeps ==
    ASSUME IInv, NEW e \in Execs, WriteFile(e)
    PROVE  Acts(e) /\ IInv'
<1>1. ex[e].at = "write" /\ ex[e].at \in Rails /\ UNCHANGED <<how, newest, crashes>>
  BY DEF WriteFile, Rails
<1>2. /\ how.by = "sshCompose" /\ how \in Hows /\ ~ByPortainer /\ ex \in [Execs -> Jobs]
      /\ TypeOK
  BY <1>1, AtShell, MineIs DEF IInv, PlaceInv
<1>3. "write" \in Requests /\ \A S \in SUBSET Parts : Harmless(e, "write", S)
  BY DEF Requests, Harmless
<1>4. CASE Done(e, "write") /\ Go(e, "up")
  <2>1. (Looks(e) \/ Reaches(e)) /\ UNCHANGED late
    BY <1>1, <1>3, <1>4, TriedIs
  <2>2. text' = e
    BY <1>4 DEF Done, Touch
  <2>3. Spares(e)'
    BY <1>1, <1>2, <2>2 DEF Spares
  <2>4. "up" \in Mine
    BY <1>2, ShellIs
  <2> QED
    BY <1>1, <1>4, <2>1, <2>3, <2>4, ShellGoes
<1>5. CASE Spoilt(e, "write") /\ Answer(e, "failed")
  <2>1. ex'[e].at = "done" /\ ex'[e].remove = ex[e].remove
    BY <1>2, <1>5, AnswerIs DEF Moves
  <2>2. UNCHANGED late
    BY <1>5 DEF Spoilt
  <2>3. Spares(e)'
    BY <1>1, <2>1, <2>2, SparesStay
  <2> QED
    BY <1>1, <1>2, <1>3, <1>5, <2>3, ShellFails
<1> QED
  BY <1>4, <1>5 DEF WriteFile

LEMMA ComposeUpKeeps ==
    ASSUME IInv, NEW e \in Execs, ComposeUp(e)
    PROVE  Acts(e) /\ IInv'
<1>1. ex[e].at = "up" /\ ex[e].at \in Rails /\ BySsh /\ UNCHANGED <<how, newest, crashes>>
  BY DEF ComposeUp, Rails
<1>2. /\ how \in Hows /\ ~ByPortainer /\ ~how.moving /\ ex \in [Execs -> Jobs] /\ TypeOK
      /\ \A x : <<e, x>> \notin late /\ newest \in Execs
      /\ e = newest /\ ~disturbed => Spares(e)
  BY <1>1, AtShell
<1>3. how.by = "sshCompose"
  BY <1>1, <1>2, MineIs DEF IInv, PlaceInv, BySsh, Ssh
<1>4. e = newest /\ ~disturbed => text = e
  BY <1>1, <1>2, <1>3 DEF Spares
<1>5. "up" \in Requests /\ \A S \in SUBSET Parts : Harmless(e, "up", S)
  BY <1>4 DEF Requests, Harmless
<1>6. CASE Done(e, "up") /\ Success(e, "release")
  <2>1. text # None
    BY <1>3, <1>6 DEF Done, Applies
  <2>2. text \in Releases
    BY <1>2, <2>1 DEF TypeOK
  <2>3. Image(e, "up") = text
    BY <1>2, <1>3 DEF Image, Resolve
  <2> QED
    BY <1>1, <1>4, <1>5, <1>6, <2>2, <2>3, ShellBrings
<1>7. CASE Errs(e, "up") /\ Answer(e, "failed")
  <2>1. ex'[e].at = "done" /\ ex'[e].remove = ex[e].remove
    BY <1>2, <1>7, AnswerIs DEF Moves
  <2>2. text' = text
    BY <1>7 DEF Errs, Spoilt, Pending, host, Touch
  <2>3. disturbed' = (disturbed \/ e # newest) \/ disturbed' = disturbed
    BY <1>7 DEF Errs, Spoilt, Pending, host, Touch
  <2>4. e = newest /\ ~disturbed' => Spares(e)'
    BY <1>1, <1>3, <1>4, <2>2, <2>3 DEF Spares
  <2> QED
    BY <1>1, <1>3, <1>5, <1>7, <2>4, ShellFails
<1> QED
  BY <1>6, <1>7 DEF ComposeUp

\* docker run brings the release, or fails.
LEMMA RunKeeps ==
    ASSUME IInv, NEW e \in Execs, ex[e].at \in Rails, NEW q \in {"up", "run"},
           q = "up" => how.by = "agentCompose", how.by # "sshCompose",
           \/ Done(e, q) /\ Success(e, "release")
           \/ (Spoilt(e, q) \/ Errs(e, q)) /\ Answer(e, "failed"),
           UNCHANGED <<how, newest, crashes>>
    PROVE  Acts(e) /\ IInv'
<1>1. /\ ex \in [Execs -> Jobs] /\ TypeOK /\ ~how.moving /\ newest \in Execs
      /\ \A x : <<e, x>> \notin late
  BY AtShell
<1>2. q \in Requests /\ \A S \in SUBSET Parts : Harmless(e, q, S)
  BY DEF Requests, Harmless
<1>3. CASE Done(e, q) /\ Success(e, "release")
  <2>1. Image(e, q) = e /\ e \in Releases
    BY <1>1 DEF Image, Resolve, Releases
  <2> QED
    BY <1>2, <1>3, <2>1, ShellBrings
<1>4. CASE (Spoilt(e, q) \/ Errs(e, q)) /\ Answer(e, "failed")
  <2>1. ex'[e].at = "done" /\ ex'[e].remove = ex[e].remove
    BY <1>1, <1>4, AnswerIs DEF Moves
  <2>2. UNCHANGED late \/ late' = late \cup {<<e, q>>}
    BY <1>4 DEF Errs, Spoilt, Pending
  <2>3. Spares(e)'
    BY <1>1, <2>1, <2>2 DEF Spares
  <2>4. BySsh => q = "run"
    BY DEF BySsh, Ssh
  <2> QED
    BY <1>2, <1>4, <2>3, <2>4, ShellFails
<1> QED
  BY <1>3, <1>4

LEMMA RunStepKeeps ==
    ASSUME IInv, NEW e \in Execs, RunStep(e)
    PROVE  Acts(e) /\ IInv'
<1>1. /\ ex[e].at = "run" /\ ex[e].at \in Rails /\ how.by = "sshSteps"
      /\ UNCHANGED <<how, newest, crashes>>
  BY DEF RunStep, Rails
<1>2. /\ ex \in [Execs -> Jobs] /\ TypeOK /\ how \in Hows /\ ~ByPortainer
      /\ e = newest /\ ~disturbed => Spares(e)
  BY <1>1, AtShell
<1>3. CASE \/ Done(e, "run") /\ Success(e, "release")
           \/ Errs(e, "run") /\ Answer(e, "failed")
  BY <1>1, <1>3, RunKeeps
<1>4. CASE Spoilt(e, "run") /\ Success(e, "guess")
  <2>1. /\ Moves(e) /\ ex'[e].at = "done" /\ ex'[e].todo = {}
        /\ ex'[e].basis = "guess" /\ ex'[e].answer = "ok"
    BY <1>2, <1>4, SuccessIs
  <2>2. (Looks(e) \/ Reaches(e)) /\ UNCHANGED late
    BY <1>1, <1>4, TriedIs DEF Requests, Harmless
  <2>3. Spares(e)'
    BY <1>1, <2>1, <2>2, SparesStay DEF Moves
  <2> QED
    BY <1>1, <2>1, <2>2, <2>3, ShellDull
<1>5. CASE Go(e, "conflict") /\ UNCHANGED <<host, late>>
  <2>1. "conflict" \in Mine /\ "conflict" \in Places
    BY <1>1, <1>2, ShellIs DEF Places
  <2>2. Looks(e) /\ disturbed' = disturbed
    BY <1>2, <1>5 DEF Looks, host, TypeOK
  <2>3. ex'[e].at = "conflict" /\ ex'[e].remove = ex[e].remove
    BY <1>2, <1>5, <2>1, GoIs DEF Moves
  <2>4. e = newest /\ ~disturbed' => Spares(e)'
    BY <1>1, <1>2, <1>5, <2>2, <2>3 DEF Spares, host
  <2> QED
    BY <1>1, <1>5, <2>1, <2>2, <2>4, ShellGoes
<1> QED
  BY <1>3, <1>4, <1>5 DEF RunStep

LEMMA ClearNameKeeps ==
    ASSUME IInv, NEW e \in Execs, ClearName(e)
    PROVE  Acts(e) /\ IInv'
<1>1. /\ ex[e].at = "conflict" /\ ex[e].at \in Rails /\ BySsh
      /\ UNCHANGED <<how, newest, crashes>>
  BY DEF ClearName, Rails
<1>2. /\ ex \in [Execs -> Jobs] /\ TypeOK /\ how \in Hows /\ ~ByPortainer
      /\ e = newest /\ ~disturbed => Spares(e)
      /\ \A x : <<e, x>> \notin late
  BY <1>1, AtShell
<1>3. how.by = "sshSteps" /\ how.by \in Ssh
  BY <1>1, <1>2, MineIs DEF IInv, PlaceInv, BySsh, Ssh, Agent
<1>4. Parts = {Main}
  BY <1>2, <1>3, HowIs
<1>5. e = newest /\ ~disturbed /\ ~ex[e].remove => runs[Main] # e
  BY <1>1, <1>2, <1>3 DEF Spares
<1>6. "drop" \in Requests /\ \A S \in SUBSET Parts : Harmless(e, "drop", S)
  BY <1>4, <1>5 DEF Requests, Harmless
<1>7. CASE (Done(e, "drop") \/ Spoilt(e, "drop")) /\ Go(e, "rerun")
  <2>1. "rerun" \in Mine /\ "rerun" \in Places
    BY <1>2, <1>3, ShellIs DEF Places
  <2>2. (Looks(e) \/ Reaches(e)) /\ UNCHANGED late
    BY <1>1, <1>6, <1>7, TriedIs
  <2>3. ex'[e].at = "rerun" /\ ex'[e].remove = ex[e].remove
    BY <1>2, <1>7, <2>1, GoIs DEF Moves
  <2>4. Spares(e)'
    BY <1>1, <2>2, <2>3, SparesStay
  <2> QED
    BY <1>1, <1>7, <2>1, <2>2, <2>4, ShellGoes
<1>8. CASE Errs(e, "drop") /\ Answer(e, "failed")
  <2>1. ex'[e].at = "done" /\ ex'[e].remove = ex[e].remove
    BY <1>2, <1>8, AnswerIs DEF Moves
  <2>2. e = newest /\ ~disturbed' => Spares(e)'
    <3>1. CASE UNCHANGED late
      BY <1>1, <2>1, <3>1, SparesStay
    <3>2. CASE UNCHANGED host
      <4>1. UNCHANGED runs /\ disturbed' = disturbed
        BY <3>2 DEF host
      <4> QED
        BY <1>1, <1>3, <1>5, <2>1, <4>1 DEF Spares
    <3> QED
      BY <1>8, <3>1, <3>2 DEF Errs, Spoilt, Pending
  <2> QED
    BY <1>1, <1>3, <1>6, <1>8, <2>2, ShellFails
<1> QED
  BY <1>7, <1>8 DEF ClearName

\* A step of the agent has nothing to spare.
LEMMA AgentSpares ==
    ASSUME how.by \in Agent, UNCHANGED how, NEW e
    PROVE  Spares(e)'
  BY DEF Agent, Ssh, Spares

LEMMA LoginKeeps ==
    ASSUME IInv, NEW e \in Execs, Login(e)
    PROVE  Acts(e) /\ IInv'
<1>1. /\ ex[e].at = "login" /\ ex[e].at \in Rails
      /\ UNCHANGED <<how, host, newest, late, crashes>>
  BY DEF Login, Rails
<1>2. TypeOK /\ ex \in [Execs -> Jobs] /\ how \in Hows /\ ~ByPortainer /\ ex[e].basis = "none"
  BY <1>1, AtShell
<1>3. how.by \in Agent
  BY <1>1, <1>2, MineIs DEF IInv, PlaceInv
<1>4. Looks(e) /\ Spares(e)'
  BY <1>1, <1>2, <1>3, AgentSpares DEF Looks, host, TypeOK
<1>5. CASE Answer(e, "failed")
  <2>1. /\ Moves(e) /\ ex'[e].at = "done" /\ ex'[e].todo = {}
        /\ ex'[e].basis = ex[e].basis /\ ex'[e].answer = "failed"
    BY <1>2, <1>5, AnswerIs
  <2> QED
    BY <1>1, <1>2, <1>4, <2>1, ShellDull
<1>6. CASE Go(e, IF ex[e].remove THEN "clean" ELSE Deploying)
  <2>1. "clean" \in Mine /\ Deploying \in Mine /\ Deploying # "clean"
    BY <1>2, <1>3, ShellIs
  <2>2. CASE ex[e].remove
    BY <1>1, <1>4, <1>6, <2>1, <2>2, ShellGoes
  <2>3. CASE ~ex[e].remove
    BY <1>1, <1>4, <1>6, <2>1, <2>3, ShellGoes
  <2> QED
    BY <2>2, <2>3
<1> QED
  BY <1>5, <1>6 DEF Login

LEMMA AgentKeeps ==
    ASSUME IInv, NEW e \in Execs,
           CleanUp(e) \/ RunCommand(e) \/ ClearConflict(e) \/ RunCommandAgain(e)
    PROVE  Acts(e) /\ IInv'
<1>1. /\ ex[e].at \in {"clean", "up", "run", "conflict", "rerun"} /\ ex[e].at \in Rails
      /\ how.by \in Agent /\ UNCHANGED <<how, newest, crashes>>
  BY DEF CleanUp, RunCommand, ClearConflict, RunCommandAgain, Rails
<1>2. /\ TypeOK /\ ex \in [Execs -> Jobs] /\ how \in Hows /\ ~ByPortainer
      /\ ex[e].basis = "none"
      /\ ex[e].at = "clean" => ex[e].remove
      /\ ~how.moving
  BY <1>1, AtShell
<1>3. /\ Spares(e)' /\ how.by # "sshCompose"
      /\ Deploying \in Mine /\ Deploying # "clean" /\ "conflict" \in Mine /\ "rerun" \in Mine
  BY <1>1, <1>2, AgentSpares, ShellIs DEF Agent
<1>4. UNCHANGED host => Looks(e)
  BY <1>2 DEF Looks, host, TypeOK
<1>5. CASE \/ Done(e, AgentRequest) /\ Success(e, "release")
           \/ Spoilt(e, AgentRequest) /\ Answer(e, "failed")
  <2>1. AgentRequest \in {"up", "run"} /\ (AgentRequest = "up" => how.by = "agentCompose")
    BY DEF AgentRequest
  <2> QED
    BY <1>1, <1>3, <1>5, <2>1, RunKeeps
<1>6. CASE UNCHANGED <<host, late>> /\ \E p \in {Deploying, "conflict", "rerun"} : Go(e, p)
  BY <1>1, <1>3, <1>4, <1>6, ShellGoes
<1>7. CASE UNCHANGED <<host, late>> /\ Answer(e, "failed")
  <2>1. /\ Moves(e) /\ ex'[e].at = "done" /\ ex'[e].todo = {}
        /\ ex'[e].basis = ex[e].basis /\ ex'[e].answer = "failed"
    BY <1>2, <1>7, AnswerIs
  <2> QED
    BY <1>1, <1>2, <1>3, <1>4, <1>7, <2>1, ShellDull
<1>8. CASE (Done(e, "drop") \/ Spoilt(e, "drop")) /\ Go(e, Deploying) /\ ex[e].at = "clean"
  <2>1. (Looks(e) \/ Reaches(e)) /\ UNCHANGED late
    BY <1>1, <1>2, <1>8, TriedIs DEF Requests, Harmless
  <2> QED
    BY <1>1, <1>3, <1>8, <2>1, ShellGoes
<1>9. CASE /\ UNCHANGED late
           /\ Go(e, "rerun") \/ Answer(e, "failed")
           /\ ex[e].at = "conflict"
           /\ \E s \in Parts : Touch(e, "drop", {s})
  <2>1. ClearsOwn(e) => Reaches(e)
    <3>1. PICK s \in Parts : Touch(e, "drop", {s})
      BY <1>9
    <3>2. "drop" \in Requests /\ Suits("drop") /\ {s} \in SUBSET Parts
      BY DEF Requests, Suits
    <3>3. ClearsOwn(e) => Harmless(e, "drop", {s})
      BY DEF Harmless
    <3> QED
      BY <3>1, <3>2, <3>3 DEF Reaches
  <2>2. CASE Go(e, "rerun")
    <3>1. ex'[e].at = "rerun"
      BY <1>2, <2>2, GoIs DEF Places
    <3>2. ClearsOwn(e)
      BY <1>1, <1>9, <3>1, Zenon DEF ClearsOwn
    <3> QED
      BY <1>1, <1>3, <1>9, <2>1, <2>2, <3>2, ShellGoes
  <2>3. CASE Answer(e, "failed")
    <3>1. /\ Moves(e) /\ ex'[e].at = "done" /\ ex'[e].todo = {}
          /\ ex'[e].basis = ex[e].basis /\ ex'[e].answer = "failed"
      BY <1>2, <2>3, AnswerIs
    <3>2. ClearsOwn(e)
      BY <1>1, <1>9, <3>1, Zenon DEF ClearsOwn
    <3> QED
      BY <1>1, <1>2, <1>3, <1>9, <2>1, <3>1, <3>2, ShellDull
  <2> QED
    BY <1>9, <2>2, <2>3
<1>10. CASE Spoilt(e, AgentRequest) /\ Go(e, "conflict")
  <2>1. AgentRequest \in Requests /\ \A S \in SUBSET Parts : Harmless(e, AgentRequest, S)
    BY <1>3 DEF AgentRequest, Requests, Harmless
  <2>2. (Looks(e) \/ Reaches(e)) /\ UNCHANGED late
    BY <1>1, <1>10, <2>1, TriedIs
  <2> QED
    BY <1>1, <1>3, <1>10, <2>2, ShellGoes
<1>11. CleanUp(e) =>
         \/ UNCHANGED <<host, late>> /\ Go(e, Deploying)
         \/ (Done(e, "drop") \/ Spoilt(e, "drop")) /\ Go(e, Deploying) /\ ex[e].at = "clean"
  BY DEF CleanUp
<1>12. RunCommand(e) =>
         \/ Done(e, AgentRequest) /\ Success(e, "release")
         \/ Spoilt(e, AgentRequest) /\ Answer(e, "failed")
         \/ Spoilt(e, AgentRequest) /\ Go(e, "conflict")
  BY DEF RunCommand
<1>13. ClearConflict(e) =>
         \/ /\ UNCHANGED late
            /\ Go(e, "rerun") \/ Answer(e, "failed")
            /\ ex[e].at = "conflict"
            /\ \E s \in Parts : Touch(e, "drop", {s})
         \/ UNCHANGED <<host, late>> /\ Go(e, "rerun")
         \/ UNCHANGED <<host, late>> /\ Answer(e, "failed")
  BY DEF ClearConflict
<1>14. RunCommandAgain(e) =>
         \/ Done(e, AgentRequest) /\ Success(e, "release")
         \/ Spoilt(e, AgentRequest) /\ Answer(e, "failed")
  BY DEF RunCommandAgain
<1> QED
  BY <1>5, <1>6, <1>7, <1>8, <1>9, <1>10, <1>11, <1>12, <1>13, <1>14

LEMMA ShellKeeps ==
    ASSUME IInv, NEW e \in Execs, ShellStep(e)
    PROVE  Acts(e) /\ IInv'
<1>1. ASSUME RunContainer(e) \/ RunStepAgain(e)
      PROVE  Acts(e) /\ IInv'
  <2>1. /\ ex[e].at \in {"run", "rerun"} /\ ex[e].at \in Rails
        /\ UNCHANGED <<how, newest, crashes>>
    BY <1>1 DEF RunContainer, RunStepAgain, Rails
  <2>2. how \in Hows /\ ex[e].at \in {"idle", "done", "dead"} \cup Mine
    BY <2>1, AtShell DEF IInv, PlaceInv
  <2>3. how.by # "sshCompose"
    BY <2>1, <2>2, MineIs DEF Agent
  <2> QED
    BY <1>1, <2>1, <2>3, RunKeeps DEF RunContainer, RunStepAgain
<1> QED
  BY <1>1, CleanHostKeeps, WriteFileKeeps, ComposeUpKeeps, RunStepKeeps, ClearNameKeeps,
     LoginKeeps, AgentKeeps DEF ShellStep

-----------------------------------------------------------------------------
(* Requests that come late. *)

\* What the last execution brought into effect stays, unless another disturbed the host or
\* the execution was told to remove what is there or clears a conflict.
Kept ==
    \A s \in Parts :
        (newest # None /\ runs[s] = newest /\ runs'[s] # newest)
            => disturbed' \/ ex[newest].remove \/ ClearsOwn(newest)

LEMMA TouchKept ==
    ASSUME IInv, NEW e \in Begun, NEW q \in Requests, NEW S \in SUBSET Parts, Suits(q),
           Touch(e, q, S), Harmless(e, q, S), newest \in Execs
    PROVE  Kept
<1>1. /\ TypeOK /\ how \in Hows /\ e \in Execs /\ S \in SUBSET Services
      /\ Parts \subseteq Services
  BY BegunIs, TypeIs, HowIs DEF IInv
<1>2. SUFFICES ASSUME NEW s \in Parts, newest # None, runs[s] = newest, ~disturbed',
                      ~ex[newest].remove, ~ClearsOwn(newest)
               PROVE  runs'[s] = newest
  BY DEF Kept
<1>3. e = newest /\ ~disturbed
  BY <1>1, <1>2, TouchIs
<1>4. CASE s \notin S
  BY <1>1, <1>2, <1>4, TouchIs
<1>5. CASE s \in S
  <2>1. runs'[s] = Image(e, q) /\ q \notin {"delete", "down", "drop"}
    BY <1>1, <1>2, <1>3, <1>5, TouchIs DEF Harmless
  <2>2. CASE q = "up" /\ how.by = "sshCompose"
    <3>1. ~how.moving
      BY <1>1, <2>2, HowIs DEF ByPortainer, Portainer
    <3> QED
      BY <1>2, <1>3, <2>1, <2>2, <3>1 DEF Harmless, Image, Resolve
  <2>3. CASE ~ (q = "up" /\ how.by = "sshCompose")
    <3>1. Image(e, q) = Resolve(e)
      BY <2>1, <2>3 DEF Image
    <3>2. how.moving /\ ~how.swarm => local = newest
      BY <1>1, <1>2 DEF IInv, ImageInv
    <3> QED
      BY <1>1, <1>3, <2>1, <3>1, <3>2, ResolveIs
  <2> QED
    BY <2>2, <2>3
<1> QED
  BY <1>4, <1>5

\* What a late request is
LEMMA LateIs ==
    ASSUME IInv, NEW e \in Execs, NEW q, <<e, q>> \in late
    PROVE  /\ e \in Begun /\ newest \in Begun
           /\ q \in Requests /\ q # "write" /\ Suits(q)
           /\ \A S \in SUBSET Parts : Harmless(e, q, S)
           /\ q \notin {"put", "create"} => Fallen(e)
           /\ q \in {"put", "create"} => ByPortainer
<1>1. /\ e \in Begun /\ how \in Hows
      /\ q \notin {"put", "create"} => Fallen(e)
      /\ IF ByPortainer THEN q \in {"put", "create", "delete"}
         ELSE /\ BySsh
              /\ q \in IF how.by = "sshCompose" THEN {"down", "up"} ELSE {"drop", "run"}
      /\ q \in {"delete", "down"} => ex[e].remove
  BY TypeIs DEF IInv, LateInv
<1>2. newest \in Begun /\ newest # None
  BY <1>1, BegunIs DEF IInv, OrderInv
<1>3. Suits(q) /\ q \in Requests /\ q # "write" /\ (q \in {"put", "create"} => ByPortainer)
  <2>1. CASE ByPortainer
    BY <1>1, <2>1 DEF Suits, Requests
  <2>2. CASE ~ByPortainer
    BY <1>1, <2>2, HowIs DEF Suits, Requests
  <2> QED
    BY <2>1, <2>2
<1>4. ASSUME NEW S \in SUBSET Parts, e = newest, ~disturbed, ~ex[e].remove
      PROVE  /\ q \in {"delete", "down", "drop"} => \A s \in S : runs[s] # e
             /\ q = "up" /\ how.by = "sshCompose" => text = e
  <2>1. Spares(e)
    BY <1>2, <1>4 DEF IInv, EffectInv
  <2>2. ASSUME q = "drop", NEW s \in S
        PROVE  runs[s] # e
    <3>1. ~ByPortainer /\ BySsh /\ how.by # "sshCompose"
      BY <1>1, <2>2
    <3>2. Parts = {Main}
      BY <1>1, <3>1, HowIs DEF BySsh, Ssh
    <3> QED
      BY <1>4, <2>1, <2>2, <3>1, <3>2 DEF Spares, BySsh
  <2>3. q = "up" /\ how.by = "sshCompose" => text = e
    BY <2>1 DEF Spares
  <2> QED
    BY <1>1, <1>4, <2>2, <2>3
<1> QED
  BY <1>1, <1>2, <1>3, <1>4 DEF Harmless

LEMMA LateTouches ==
    ASSUME IInv, NEW e \in Execs, NEW q, <<e, q>> \in late, late' = late \ {<<e, q>>},
           NEW S \in Reach(q), Touch(e, q, S), UNCHANGED <<how, newest, ex, crashes>>,
           Begun' = Begun, Parts' = Parts
    PROVE  ImageInv' /\ EffectInv' /\ WholeInv' /\ Kept
<1>1. /\ e \in Begun /\ newest \in Begun /\ newest \in Execs /\ newest # None
      /\ q \in Requests /\ q # "write" /\ Suits(q)
      /\ \A Z \in SUBSET Parts : Harmless(e, q, Z)
      /\ q \notin {"put", "create"} => Fallen(e)
      /\ q \in {"put", "create"} => ByPortainer
  BY LateIs, BegunIs
<1>2. TypeOK /\ how \in Hows /\ Parts \subseteq Services
  BY TypeIs, HowIs DEF IInv
<1>3. S \in SUBSET Parts /\ S \in SUBSET Services
  BY <1>1, <1>2, ReachIs
<1>4. /\ \A s \in S : runs'[s] = Image(e, q)
      /\ \A s \in Services \ S : runs'[s] = runs[s]
      /\ \A f \in Execs : fresh'[f] = fresh[f] \ S
      /\ disturbed' <=> disturbed \/ e # newest
  BY <1>2, <1>3, TouchIs
<1>5. ImageInv'
  <2>1. /\ \A s \in Services : runs'[s] \in Begun' \cup {Old, None}
        /\ text' \in Begun' \cup {Old, None} /\ local' \in Begun' \cup {Old, None}
        /\ local = newest => local' = newest
        /\ how.moving /\ ~how.swarm =>
              \A s \in Services : (runs'[s] = newest => local' = newest)
    BY <1>1, <1>3, TouchImages
  <2>2. how.moving /\ Pulled(newest) => local' = newest
    BY <1>1, <2>1 DEF IInv, ImageInv, Pulled
  <2> QED
    BY <2>1, <2>2 DEF ImageInv, Pulled, Flawless
<1>6. EffectInv'
  <2>1. ASSUME ~how.swarm, ex[newest].at = "each",
               NEW s \in ex[newest].todo \cap fresh'[newest]
        PROVE  runs'[s] # newest
    <3>1. s \in fresh[newest] /\ s \notin S
      BY <1>1, <1>4, <2>1
    <3>2. s \in Services
      BY <1>1, <1>2, <3>1 DEF TypeOK
    <3> QED
      BY <1>1, <1>4, <2>1, <3>1, <3>2 DEF IInv, EffectInv
  <2>2. ASSUME ~disturbed'
        PROVE  Reached(newest)' /\ Spares(newest)'
    <3>1. e = newest /\ ~disturbed /\ Reached(newest) /\ Spares(newest)
      BY <1>1, <1>4, <2>2 DEF IInv, EffectInv
    <3>2. Reached(newest)'
      <4>1. CASE q \in {"put", "create"}
        <5>1. ASSUME Pulled(newest), NEW s \in Parts
              PROVE  runs'[s] \in {newest, runs[s]}
          BY <1>2, <3>1, <4>1, <5>1, PutBrings
        <5> QED
          BY <3>1, <5>1, SeenIs DEF Reached, Pulled, Flawless
      <4>2. CASE q \notin {"put", "create"}
        BY <1>1, <3>1, <4>2 DEF Fallen, Reached
      <4> QED
        BY <4>1, <4>2
    <3>3. Spares(newest)'
      <4>1. CASE ByPortainer
        BY <4>1 DEF Spares, ByPortainer, Portainer, Ssh
      <4>2. CASE ~ByPortainer
        <5>1. Fallen(e) /\ \A r : <<e, r>> \notin late'
          <6>1. \A r : <<e, r>> \in late => r = q
            BY <4>2 DEF IInv, LateInv
          <6> QED
            BY <1>1, <4>2, <6>1
        <5> QED
          BY <3>1, <5>1 DEF Spares, Fallen
      <4> QED
        BY <4>1, <4>2
    <3> QED
      BY <3>2, <3>3
  <2> QED
    BY <1>1, <2>1, <2>2 DEF EffectInv
<1>7. WholeInv'
  <2>1. SUFFICES ASSUME Settled'
                 PROVE  IF how.moving THEN MovingWhole' ELSE FixedWhole'
    BY DEF WholeInv
  <2>2. Settled
    BY <2>1 DEF Settled, Clean, Flawless
  <2>3. q \in {"put", "create"}
    BY <1>1, <2>2 DEF Settled, Clean, Fallen
  <2>4. CASE ~how.moving
    <3>1. S = Parts /\ Image(e, q) = e /\ e \in Releases
      BY <1>1, <1>2, <2>3, <2>4, ReachIs, ResolveIs DEF Image, Releases
    <3> QED
      BY <1>2, <2>4, <3>1, TouchWhole
  <2>5. CASE how.moving
    <3>1. ASSUME NEW z \in Seen, runs'[z] # newest
          PROVE  \E f \in Begun : WorksOn(f, z)'
      <4>1. /\ runs'[z] = runs[z] /\ runs[z] # None
            /\ \E f \in Begun : \/ ex[f].at = "list"
                                \/ ex[f].at = "each" /\ z \in ex[f].todo
        BY <2>2, <2>3, <2>5, <3>1, PutMovingWhole
      <4> QED
        BY <4>1 DEF WorksOn
    <3> QED
      BY <2>5, <3>1, SeenIs DEF MovingWhole
  <2> QED
    BY <2>4, <2>5
<1>8. Kept
  BY <1>1, <1>3, TouchKept
<1> QED
  BY <1>5, <1>6, <1>7, <1>8

LEMMA LateKeeps ==
    ASSUME IInv, NEW e \in Execs, NEW q, Late(e, q)
    PROVE  IInv' /\ Kept
<1>1. /\ <<e, q>> \in late /\ late' = late \ {<<e, q>>}
      /\ UNCHANGED <<how, newest, ex, crashes>>
      /\ (\E S \in Reach(q) : Touch(e, q, S)) \/ UNCHANGED host
  BY DEF Late
<1>2. /\ Begun' = Begun /\ Parts' = Parts /\ Mine' = Mine /\ Releases' = Releases
      /\ ByPortainer' = ByPortainer /\ BySsh' = BySsh
  BY <1>1 DEF Begun, Parts, Mine, ByPortainer, BySsh, Releases, Execs
<1>3. OrderInv' /\ PlaceInv'
  BY <1>1, <1>2 DEF IInv, OrderInv, PlaceInv
<1>4. LateInv'
  <2>1. \A f \in Execs : Fallen(f)' <=> Fallen(f)
    BY <1>1 DEF Fallen
  <2>2. \A f, r : <<f, r>> \in late' => <<f, r>> \in late
    BY <1>1
  <2> QED
    BY <1>1, <1>2, <2>1, <2>2 DEF IInv, LateInv
<1>5. CASE UNCHANGED host
  <2>1. TypeOK'
    BY <1>1, <1>5 DEF IInv, TypeOK, host
  <2>2. ImageInv'
    BY <1>1, <1>2, <1>5 DEF IInv, ImageInv, host, Flawless
  <2>3. EffectInv'
    <3>1. \A f : Reached(f) => Reached(f)'
      BY <1>1, <1>2, <1>5, SeenIs DEF Reached, Flawless, host
    <3>2. \A f : Spares(f) => Spares(f)'
      BY <1>1, <1>5 DEF Spares, host
    <3> QED
      BY <1>1, <1>5, <3>1, <3>2 DEF IInv, EffectInv, host
  <2>4. WholeInv'
    <3>1. \A f, s : (Clean(f)' <=> Clean(f)) /\ (WorksOn(f, s)' <=> WorksOn(f, s))
                    /\ (Updates(f, s)' <=> Updates(f, s))
      BY <1>1, <1>5 DEF Clean, Flawless, WorksOn, Updates, host
    <3>2. Settled' <=> Settled
      BY <1>2, <3>1 DEF Settled
    <3>3. MovingWhole' <=> MovingWhole
      BY <1>1, <1>2, <1>5, <3>1, SeenIs DEF MovingWhole, host
    <3>4. FixedWhole' <=> FixedWhole
      BY <1>1, <1>2, <1>5, <3>1 DEF FixedWhole, host
    <3> QED
      BY <1>1, <3>2, <3>3, <3>4 DEF IInv, WholeInv
  <2>5. Kept
    BY <1>5 DEF Kept, host
  <2> QED
    BY <1>3, <1>4, <2>1, <2>2, <2>3, <2>4, <2>5 DEF IInv
<1>6. CASE \E S \in Reach(q) : Touch(e, q, S)
  <2>1. PICK S \in Reach(q) : Touch(e, q, S)
    BY <1>6
  <2>2. TypeOK'
    <3>1. TypeOK /\ q # "write"
      BY <1>1, LateIs DEF IInv
    <3>2. S \in SUBSET Services
      BY <3>1, ReachIs
    <3>3. /\ runs' \in [Services -> Releases \cup {None}]
          /\ text' \in Releases \cup {None} /\ local' \in Releases \cup {None}
          /\ fresh' \in [Execs -> SUBSET Services] /\ disturbed' \in BOOLEAN
      BY <2>1, <3>1, <3>2, TouchIs
    <3> QED
      BY <1>1, <1>2, <3>1, <3>3 DEF TypeOK
  <2>3. ImageInv' /\ EffectInv' /\ WholeInv' /\ Kept
    BY <1>1, <1>2, <2>1, LateTouches
  <2> QED
    BY <1>3, <1>4, <2>2, <2>3 DEF IInv
<1> QED
  BY <1>1, <1>5, <1>6

-----------------------------------------------------------------------------
(* The end of the server, the beginning of an execution, and the start. *)

\* The request an execution waits for when the server ends
LEMMA SendsIs ==
    ASSUME IInv, NEW e \in AtWork, how.by \notin Agent, NEW q \in Sends(e)
    PROVE  /\ IF ByPortainer THEN q \in {"put", "create", "delete"}
              ELSE /\ BySsh
                   /\ \A r \in Sends(e) : r = q
                   /\ q \in IF how.by = "sshCompose" THEN {"down", "up"} ELSE {"drop", "run"}
           /\ q \in {"delete", "down"} => ex[e].remove
           /\ q = "drop" => ex[e].remove \/ ex[e].at = "conflict"
           /\ q = "up" => ex[e].at = "up"
<1>1. /\ e \in Execs /\ how \in Hows /\ ex[e].at \notin {"idle", "done", "dead"}
      /\ ex[e].at \in {"idle", "done", "dead"} \cup Mine
      /\ ex[e].at \in {"remove", "clean"} => ex[e].remove
  BY TypeIs DEF AtWork, IInv, PlaceInv
<1>2. /\ ex[e].at \in {"remove", "create", "put", "again"} => ByPortainer
      /\ ex[e].at \in {"clean", "run", "up", "conflict", "rerun"} => ~ByPortainer /\ BySsh
      /\ ex[e].at = "up" => how.by = "sshCompose"
      /\ ex[e].at \in {"run", "conflict", "rerun"} => how.by # "sshCompose"
  BY <1>1, MineIs, HowIs DEF BySsh, Agent
<1>3. CASE ex[e].at = "remove"
  BY <1>1, <1>2, <1>3 DEF Sends
<1>4. CASE ex[e].at = "create"
  BY <1>2, <1>4 DEF Sends
<1>5. CASE ex[e].at \in {"put", "again"}
  BY <1>2, <1>5 DEF Sends
<1>6. CASE ex[e].at = "conflict"
  BY <1>2, <1>6 DEF Sends
<1>7. CASE ex[e].at = "clean"
  BY <1>1, <1>2, <1>7 DEF Sends
<1>8. CASE ex[e].at = "up"
  BY <1>2, <1>8 DEF Sends
<1>9. CASE ex[e].at \in {"run", "rerun"}
  BY <1>2, <1>9 DEF Sends
<1>10. ex[e].at \in {"remove", "create", "put", "again", "conflict", "clean", "up", "run",
                     "rerun"}
  BY DEF Sends
<1> QED
  BY <1>3, <1>4, <1>5, <1>6, <1>7, <1>8, <1>9, <1>10

LEMMA CrashKeeps ==
    ASSUME IInv, Crash
    PROVE  IInv' /\ Kept
<1>1. /\ crashes' \in 0..MaxCrashes /\ how.by \notin Agent
      /\ ex' = [e \in Execs |-> IF e \in AtWork THEN Ended(e, "dead", "none", "none")
                                ELSE ex[e]]
      /\ fresh' = [e \in Execs |-> {}]
      /\ UNCHANGED <<how, runs, text, local, disturbed, newest>>
  BY DEF Crash, IInv, TypeOK
<1>2. PICK L \in SUBSET UNION {{e} \X Sends(e) : e \in AtWork} : late' = late \cup L
  BY DEF Crash
<1>3. ASSUME NEW e, NEW q, <<e, q>> \in L
      PROVE  e \in AtWork /\ q \in Sends(e)
  BY <1>2, <1>3
<1>4. TypeOK /\ ex \in [Execs -> Jobs] /\ how \in Hows
  BY TypeIs DEF IInv
<1>5. /\ Parts' = Parts /\ Mine' = Mine /\ Releases' = Releases
      /\ ByPortainer' = ByPortainer /\ BySsh' = BySsh
  BY <1>1 DEF Parts, Mine, ByPortainer, BySsh, Releases, Execs
<1>6. ASSUME NEW e \in AtWork
      PROVE  /\ ex'[e] \in Jobs /\ ex'[e].at = "dead" /\ ex'[e].basis = "none"
             /\ ex'[e].answer = "none" /\ ex'[e].todo = {} /\ ex'[e].remove = ex[e].remove
             /\ e \in Execs /\ ex[e].at \notin {"idle", "done", "dead"}
  <2>1. e \in Execs /\ ex[e].at \notin {"idle", "done", "dead"}
    BY DEF AtWork
  <2>2. ex'[e] = Ended(e, "dead", "none", "none")
    BY <1>1, <2>1
  <2> QED
    BY <1>4, <2>1, <2>2, EndedIs
<1>7. \A e \in Execs : e \notin AtWork => ex'[e] = ex[e] /\ ex[e].at \in {"idle", "done", "dead"}
  BY <1>1 DEF AtWork
<1>8. ex' \in [Execs -> Jobs]
  <2>1. \A e \in Execs : ex'[e] \in Jobs
    BY <1>4, <1>6, <1>7
  <2> QED
    BY <1>1, <2>1
<1>9. Begun' = Begun
  <2>1. \A e \in Execs : ex'[e].at = "idle" <=> ex[e].at = "idle"
    BY <1>6, <1>7
  <2> QED
    BY <2>1 DEF Begun
<1>10. TypeOK'
  <2>1. \A e : Sends(e) \subseteq {"put", "create", "delete", "down", "drop", "up", "run"}
    BY DEF Sends
  <2>2. AtWork \subseteq Execs
    BY DEF AtWork
  <2>3. L \subseteq Execs \X {"put", "create", "delete", "down", "drop", "write", "up", "run"}
    BY <1>2, <2>1, <2>2
  <2>4. late' \subseteq Execs \X {"put", "create", "delete", "down", "drop", "write", "up", "run"}
    BY <1>2, <1>4, <2>3 DEF TypeOK
  <2> QED
    BY <1>1, <1>4, <1>5, <1>8, <2>4 DEF TypeOK, Jobs
<1>11. OrderInv'
  BY <1>1, <1>9 DEF IInv, OrderInv
<1>12. PlaceInv'
  BY <1>5, <1>6, <1>7 DEF IInv, PlaceInv
<1>13. LateInv'
  <2>1. ASSUME NEW e \in Execs, NEW q, <<e, q>> \in late'
        PROVE  /\ e \in Begun
               /\ q \notin {"put", "create"} => Fallen(e)'
               /\ IF ByPortainer THEN q \in {"put", "create", "delete"}
                  ELSE /\ BySsh
                       /\ \A r : <<e, r>> \in late' => r = q
                       /\ q \in IF how.by = "sshCompose" THEN {"down", "up"}
                                ELSE {"drop", "run"}
               /\ q \in {"delete", "down"} => ex'[e].remove
    <3>1. CASE e \in AtWork
      <4>1. \A r : <<e, r>> \in late => r \in {"put", "create"} /\ ByPortainer
        BY <1>6, <3>1 DEF IInv, LateInv, Fallen
      <4>2. \A r : <<e, r>> \in late' => <<e, r>> \in late \/ r \in Sends(e)
        BY <1>2, <1>3
      <4>3. e \in Begun /\ Fallen(e)'
        BY <1>6, <3>1 DEF Begun, Fallen
      <4> QED
        BY <1>1, <1>6, <2>1, <3>1, <4>1, <4>2, <4>3, SendsIs
    <3>2. CASE e \notin AtWork
      <4>1. \A r : <<e, r>> \in late' <=> <<e, r>> \in late
        BY <1>2, <1>3, <3>2
      <4>2. Fallen(e)' <=> Fallen(e)
        BY <1>7, <3>2 DEF Fallen
      <4> QED
        BY <1>7, <2>1, <3>2, <4>1, <4>2 DEF IInv, LateInv
    <3> QED
      BY <3>1, <3>2
  <2> QED
    BY <1>1, <1>5, <1>9, <2>1 DEF LateInv
<1>14. ImageInv'
  <2>1. ASSUME newest # None, Pulled(newest)'
        PROVE  Pulled(newest)
    <3>1. newest \in Execs
      BY <1>4, <2>1 DEF TypeOK
    <3>2. newest \notin AtWork
      BY <1>1, <1>6, <2>1 DEF Pulled
    <3> QED
      BY <1>1, <1>7, <2>1, <3>1, <3>2 DEF Pulled, Flawless
  <2>2. newest # None /\ how.moving /\ Pulled(newest)' => local = newest
    BY <2>1 DEF IInv, ImageInv, Pulled
  <2> QED
    BY <1>1, <1>9, <2>2 DEF IInv, ImageInv, Pulled
<1>15. EffectInv'
  <2>1. SUFFICES ASSUME newest # None
                 PROVE  /\ ~disturbed => Reached(newest)' /\ Spares(newest)'
                        /\ ex'[newest].at # "each"
    BY <1>1 DEF EffectInv
  <2>2. newest \in Execs
    BY <1>4, <2>1 DEF TypeOK
  <2>3. CASE newest \in AtWork
    <3>1. Reached(newest)' /\ ex'[newest].at # "each"
      BY <1>1, <1>6, <2>3 DEF Reached
    <3>2. ASSUME ~disturbed
          PROVE  Spares(newest)'
      <4>1. Spares(newest)
        BY <2>1, <3>2 DEF IInv, EffectInv
      <4>2. \A r : <<newest, r>> \in late' => <<newest, r>> \in late \/ r \in Sends(newest)
        BY <1>2, <1>3
      <4>3. "drop" \in Sends(newest) => ex[newest].remove \/ ex[newest].at = "conflict"
        BY <1>1, <2>3, SendsIs
      <4>4. "up" \in Sends(newest) => ex[newest].at = "up"
        BY <1>1, <2>3, SendsIs
      <4> QED
        BY <1>1, <1>6, <2>3, <4>1, <4>2, <4>3, <4>4 DEF Spares
    <3> QED
      BY <3>1, <3>2
  <2>4. CASE newest \notin AtWork
    <3>1. ex'[newest] = ex[newest] /\ ex[newest].at \in {"idle", "done", "dead"}
      BY <1>7, <2>2, <2>4
    <3>2. \A r : <<newest, r>> \in late' <=> <<newest, r>> \in late
      BY <1>2, <1>3, <2>4
    <3>3. Reached(newest) => Reached(newest)'
      BY <1>1, <1>5, <3>1, SeenIs DEF Reached, Flawless
    <3>4. Spares(newest) => Spares(newest)'
      BY <1>1, <3>1, <3>2 DEF Spares
    <3> QED
      BY <2>1, <3>1, <3>3, <3>4 DEF IInv, EffectInv
  <2> QED
    BY <2>3, <2>4
<1>16. WholeInv'
  <2>1. SUFFICES ASSUME Settled'
                 PROVE  IF how.moving THEN MovingWhole' ELSE FixedWhole'
    BY <1>1 DEF WholeInv
  <2>2. ASSUME NEW e \in Begun
        PROVE  /\ e \in Execs /\ e \notin AtWork /\ ex'[e] = ex[e]
               /\ ex[e].at \in {"idle", "done", "dead"}
    <3>1. e \in Execs /\ Clean(e)'
      BY <1>9, <2>1, BegunIs DEF Settled
    <3>2. e \notin AtWork
      BY <1>6, <3>1 DEF Clean
    <3> QED
      BY <1>7, <3>1, <3>2
  <2>3. Settled
    BY <1>1, <1>9, <2>1, <2>2 DEF Settled, Clean, Flawless
  <2>4. \A e \in Begun : \A s : ~WorksOn(e, s) /\ ~Updates(e, s) /\ ~Updates(e, s)'
    BY <2>2 DEF WorksOn, Updates
  <2>5. CASE how.moving
    <3>1. \A s \in Seen : runs[s] = newest
      BY <2>3, <2>4, <2>5 DEF IInv, WholeInv, MovingWhole
    <3> QED
      BY <1>1, <1>5, <2>5, <3>1, SeenIs DEF MovingWhole
  <2>6. CASE ~how.moving
    <3>1. /\ \A s \in Parts : runs[s] # None
          /\ \E r \in Releases : \A s \in Parts : runs[s] = r
      BY <2>3, <2>4, <2>6 DEF IInv, WholeInv, FixedWhole
    <3> QED
      BY <1>1, <1>5, <1>9, <2>4, <2>6, <3>1 DEF FixedWhole
  <2> QED
    BY <2>5, <2>6
<1>17. Kept
  BY <1>1 DEF Kept
<1> QED
  BY <1>10, <1>11, <1>12, <1>13, <1>14, <1>15, <1>16, <1>17 DEF IInv

LEMMA BeginIs ==
    ASSUME ex \in [Execs -> Jobs], NEW e \in Execs, NEW r, r \in BOOLEAN, NEW place \in Places,
           ex' = [ex EXCEPT ![e].remove = r, ![e].at = place]
    PROVE  /\ ex' \in [Execs -> Jobs] /\ \A f \in Execs : f # e => ex'[f] = ex[f]
           /\ ex'[e].at = place /\ ex'[e].remove = r /\ ex'[e].todo = ex[e].todo
           /\ ex'[e].basis = ex[e].basis /\ ex'[e].answer = ex[e].answer
<1>1. PICK j : j = [ex[e] EXCEPT !.remove = r, !.at = place]
  OBVIOUS
<1>2. ex' = [ex EXCEPT ![e] = j]
  BY <1>1
<1>3. ex[e] \in Jobs
  OBVIOUS
<1>4. j = [at |-> place, try |-> ex[e].try, bad |-> ex[e].bad, again |-> ex[e].again,
           todo |-> ex[e].todo, remove |-> r, basis |-> ex[e].basis,
           answer |-> ex[e].answer]
  BY <1>1, <1>3 DEF Jobs
<1>5. j \in Jobs
  BY <1>3, <1>4, JobFields DEF Jobs
<1>6. ex'[e] = j /\ \A f \in Execs : f # e => ex'[f] = ex[f]
  BY <1>2
<1> QED
  BY <1>2, <1>4, <1>5, <1>6

\* Where an execution begins
LEMMA FirstIs ==
    ASSUME how \in Hows, NEW r \in BOOLEAN
    PROVE  /\ FirstStep[r] \in Places /\ FirstStep[r] \in Mine
           /\ FirstStep[r] \in {"remove", "select", "look", "login", "clean", "write", "up",
                               "run"}
           /\ FirstStep[r] \in {"remove", "clean"} => r
           /\ FirstStep[r] = "up" => how.by # "sshCompose"
<1>1. CASE ByPortainer
  <2>1. Mine = Rooms
    <3>1. how.by \notin {"sshRun", "sshSteps", "sshCompose", "agentRun", "agentCompose"}
      BY <1>1 DEF ByPortainer, Portainer
    <3> QED
      BY <1>1, <3>1 DEF Mine, Rooms
  <2>2. FirstStep[r] = IF r THEN "remove" ELSE First
    BY <1>1 DEF FirstStep
  <2> QED
    BY <2>1, <2>2 DEF First, Rooms, Places
<1>2. CASE ~ByPortainer
  <2>1. FirstStep[r] = FirstCommand(r)
    BY <1>2 DEF FirstStep
  <2>2. FirstCommand(r) = IF how.by \in Agent THEN "login" ELSE IF r THEN "clean" ELSE Deploying
    BY DEF FirstCommand
  <2>3. /\ Deploying \in {"write", "up", "run"} /\ Deploying \in Mine
        /\ how.by = "sshCompose" => Deploying = "write"
        /\ how.by \in {"sshRun", "sshSteps", "sshCompose", "agentRun", "agentCompose"}
    BY <1>2, ShellIs
  <2>4. "clean" \in Mine /\ (how.by \in Agent => "login" \in Mine)
    BY <1>2, <2>3 DEF Mine, Agent
  <2> QED
    BY <2>1, <2>2, <2>3, <2>4 DEF Places
<1> QED
  BY <1>1, <1>2

LEMMA BeginKeeps ==
    ASSUME IInv, NEW e \in Execs, Begin(e, FirstStep)
    PROVE  IInv' /\ Kept
<1>1. PICK r \in BOOLEAN : ex' = [ex EXCEPT ![e].remove = r, ![e].at = FirstStep[r]]
  BY DEF Begin
<1>2. /\ ex[e].at = "idle" /\ newest' = e /\ disturbed' = FALSE
      /\ UNCHANGED <<how, runs, text, local, fresh, late, crashes>>
  BY DEF Begin
<1>3. TypeOK /\ ex \in [Execs -> Jobs] /\ how \in Hows
  BY TypeIs DEF IInv
<1>4. PICK place : place = FirstStep[r]
  OBVIOUS
<1>5. /\ place \in Places /\ place \in Mine
      /\ place \in {"remove", "select", "look", "login", "clean", "write", "up", "run"}
      /\ place \in {"remove", "clean"} => r
      /\ place = "up" => how.by # "sshCompose"
  BY <1>3, <1>4, FirstIs
<1>6. /\ ex' \in [Execs -> Jobs] /\ \A f \in Execs : f # e => ex'[f] = ex[f]
      /\ ex'[e].at = place /\ ex'[e].remove = r /\ ex'[e].todo = ex[e].todo
      /\ ex'[e].basis = ex[e].basis /\ ex'[e].answer = ex[e].answer
  BY <1>1, <1>3, <1>4, <1>5, BeginIs
<1>7. /\ Parts' = Parts /\ Mine' = Mine /\ Releases' = Releases
      /\ ByPortainer' = ByPortainer /\ BySsh' = BySsh
  BY <1>2 DEF Parts, Mine, ByPortainer, BySsh, Releases, Execs
<1>8. Begun' = Begun \cup {e} /\ e \notin Begun
  <2>1. \A f \in Execs : f # e => (ex'[f].at = "idle" <=> ex[f].at = "idle")
    BY <1>6
  <2> QED
    BY <1>2, <1>5, <1>6, <2>1 DEF Begun
<1>9. e # None /\ e # Old
  BY DEF Execs
<1>10. /\ ex[e].basis = "none" /\ ex[e].answer # "ok" /\ ex[e].todo \subseteq Parts
  BY <1>2 DEF IInv, PlaceInv
<1>11. \A q : <<e, q>> \notin late
  BY <1>8 DEF IInv, LateInv
<1>12. TypeOK'
  BY <1>2, <1>3, <1>6, <1>7 DEF TypeOK, Jobs
<1>13. OrderInv'
  BY <1>2, <1>8, <1>9 DEF OrderInv
<1>14. PlaceInv'
  BY <1>5, <1>6, <1>7, <1>10 DEF IInv, PlaceInv
<1>15. LateInv'
  <2>1. \A f \in Begun : f # e /\ ex'[f] = ex[f] /\ (Fallen(f)' <=> Fallen(f))
    BY <1>6, <1>8, BegunIs DEF Fallen
  <2> QED
    BY <1>2, <1>7, <1>8, <2>1 DEF IInv, LateInv
<1>16. ImageInv'
  <2>1. /\ \A s \in Services : runs[s] \in Begun \cup {Old, None}
        /\ text \in Begun \cup {Old, None} /\ local \in Begun \cup {Old, None}
    BY DEF IInv, ImageInv
  <2>2. \A s \in Services : runs[s] # e
    BY <1>8, <1>9, <2>1
  <2>3. ~Pulled(e)'
    BY <1>5, <1>6 DEF Pulled
  <2> QED
    BY <1>2, <1>8, <2>1, <2>2, <2>3 DEF ImageInv, Pulled
<1>17. EffectInv'
  <2>1. Reached(e)' /\ ex'[e].at # "each"
    BY <1>5, <1>6, <1>10 DEF Reached
  <2>2. runs[Main] # e
    <3>1. Main \in Services
      OBVIOUS
    <3> QED
      BY <1>8, <1>9, <3>1 DEF IInv, ImageInv
  <2>3. Spares(e)'
    BY <1>2, <1>5, <1>6, <1>11, <2>2 DEF Spares
  <2> QED
    BY <1>2, <2>1, <2>3 DEF EffectInv
<1>18. WholeInv'
  <2>1. ~Clean(e)'
    BY <1>5, <1>6 DEF Clean
  <2> QED
    BY <1>8, <2>1 DEF WholeInv, Settled
<1>19. Kept
  BY <1>2 DEF Kept
<1> QED
  BY <1>12, <1>13, <1>14, <1>15, <1>16, <1>17, <1>18, <1>19 DEF IInv

LEMMA InitInv == Init => IInv
<1> SUFFICES ASSUME Init
             PROVE  IInv
  OBVIOUS
<1>1. /\ how \in Hows /\ newest = None /\ ex = [e \in Execs |-> Blank] /\ late = {}
      /\ disturbed = FALSE /\ crashes = 0 /\ fresh = [e \in Execs |-> {}]
  BY DEF Init
<1>2. PICK r \in {Old, None} :
        /\ runs = [s \in Services |-> IF s \in Parts THEN r ELSE None]
        /\ text = IF how.by \in Portainer \cup {"sshCompose"} THEN r ELSE None
        /\ local = IF how.moving THEN r ELSE None
  BY DEF Init
<1>3. \A e \in Execs : ex[e] = Blank
  BY <1>1
<1>4. Begun = {}
  BY <1>3 DEF Begun, Blank
<1>5. TypeOK
  <2>1. ex \in [Execs -> Jobs]
    BY <1>1, BlankIs
  <2>2. crashes \in 0..MaxCrashes
    BY <1>1
  <2>3. runs \in [Services -> Releases \cup {None}]
    BY <1>2 DEF Releases
  <2> QED
    BY <1>1, <1>2, <2>1, <2>2, <2>3 DEF TypeOK, Jobs, Releases
<1>6. OrderInv /\ LateInv /\ EffectInv /\ WholeInv
  BY <1>1, <1>4 DEF OrderInv, LateInv, EffectInv, WholeInv, Settled
<1>7. PlaceInv
  BY <1>3 DEF PlaceInv, Blank
<1>8. ImageInv
  BY <1>1, <1>2 DEF ImageInv
<1> QED
  BY <1>5, <1>6, <1>7, <1>8 DEF IInv

-----------------------------------------------------------------------------
(* The theorems. *)

LEMMA ActKept ==
    ASSUME IInv, NEW e, Acts(e)
    PROVE  Kept
<1>1. e \in Begun /\ newest \in Execs
  BY ActBasics, BegunIs
<1>2. CASE Looks(e)
  BY <1>2 DEF Looks, Kept
<1>3. CASE Reaches(e)
  BY <1>1, <1>3, TouchKept DEF Reaches
<1> QED
  BY <1>2, <1>3 DEF Acts

LEMMA StepKeeps == IInv /\ [Next]_vars => IInv' /\ Kept
<1> SUFFICES ASSUME IInv, [Next]_vars
             PROVE  IInv' /\ Kept
  OBVIOUS
<1>1. ASSUME NEW e \in Execs, Begin(e, FirstStep)
      PROVE  IInv' /\ Kept
  BY <1>1, BeginKeeps
<1>2. ASSUME NEW e \in Execs, Step(e)
      PROVE  IInv' /\ Kept
  BY <1>2, PortainerKeeps, ShellKeeps, ActKept DEF Step
<1>3. ASSUME NEW e \in Execs, NEW q, Late(e, q)
      PROVE  IInv' /\ Kept
  BY <1>3, LateKeeps
<1>4. ASSUME Crash
      PROVE  IInv' /\ Kept
  BY <1>4, CrashKeeps
<1>5. ASSUME UNCHANGED vars
      PROVE  IInv' /\ Kept
  <2>1. UNCHANGED <<how, runs, text, local, fresh, disturbed, newest, ex, late, crashes>>
    BY <1>5 DEF vars, host
  <2>2. TypeOK' /\ OrderInv' /\ PlaceInv' /\ LateInv'
    BY <2>1 DEF IInv, TypeOK, Releases, OrderInv, PlaceInv, LateInv, Begun, Mine, Parts,
                Fallen, ByPortainer, BySsh
  <2>3. ImageInv'
    BY <2>1 DEF IInv, ImageInv, Begun, Flawless
  <2>4. EffectInv'
    BY <2>1, SeenIs DEF IInv, EffectInv, Reached, Spares, Flawless, Parts
  <2>5. WholeInv'
    BY <2>1, SeenIs DEF IInv, WholeInv, Settled, Clean, Flawless, Begun, MovingWhole, FixedWhole,
                WorksOn, Updates, Parts, Releases
  <2>6. Kept
    BY <2>1 DEF Kept
  <2> QED
    BY <2>2, <2>3, <2>4, <2>5, <2>6 DEF IInv
<1> QED
  BY <1>1, <1>2, <1>3, <1>4, <1>5 DEF Next

\* The inductive invariant holds in every execution of the model.
THEOREM Invariance == Spec => []IInv
<1>1. Init => IInv
  BY InitInv
<1>2. IInv /\ [Next]_vars => IInv'
  BY StepKeeps
<1> QED
  BY <1>1, <1>2, PTL DEF Spec

\* Executions, the host and the late requests stay in their types.
THEOREM TypeCorrect == Spec => []TypeOK
<1>1. IInv => TypeOK
  BY DEF IInv
<1> QED
  BY <1>1, Invariance, PTL

\* A target that was answered with success, for a request that brought the release, has it
\* in all of its parts, unless another execution changed the host since.
THEOREM InEffect == Spec => []SuccessInEffect
<1>1. IInv => SuccessInEffect
  <2>1. SUFFICES ASSUME IInv, NEW e \in Execs, e = newest, Succeeded(e), ~disturbed,
                        NEW s \in Seen
                 PROVE  runs[s] = e
    BY DEF SuccessInEffect, EffectIn, Seen
  <2>2. e # None
    BY DEF Execs
  <2>3. ex[e].at = "done" /\ ex[e].basis = "release"
    BY <2>1 DEF IInv, PlaceInv, Succeeded
  <2> QED
    BY <2>1, <2>2, <2>3 DEF IInv, EffectInv, Reached
<1> QED
  BY <1>1, Invariance, PTL

\* Executions that overlap, whatever their steps on the host and whichever late, leave one
\* release and no mixture of two when all of them succeed.
THEOREM Whole == Spec => []SuccessIsWhole
<1>1. IInv => SuccessIsWhole
  <2>1. SUFFICES ASSUME IInv, Begun # {}, \A e \in Begun : Succeeded(e)
                 PROVE  \E r \in Releases : \A s \in Seen : runs[s] = r
    BY DEF SuccessIsWhole, Seen
  <2>2. \A e \in Begun : ex[e].at = "done" /\ ex[e].basis = "release"
    BY <2>1, BegunIs DEF IInv, PlaceInv, Succeeded
  <2>3. Settled /\ \A e \in Begun : \A s : ~WorksOn(e, s) /\ ~Updates(e, s)
    BY <2>1, <2>2 DEF Settled, Clean, WorksOn, Updates
  <2>4. CASE how.moving
    <3>1. newest \in Begun /\ \A s \in Seen : runs[s] = newest
      BY <2>1, <2>3, <2>4, SettledPulled DEF IInv, WholeInv, MovingWhole
    <3> QED
      BY <3>1, BegunIs
  <2>5. CASE ~how.moving
    BY <2>1, <2>3, <2>5, SeenIs DEF IInv, WholeInv, FixedWhole
  <2> QED
    BY <2>4, <2>5
<1> QED
  BY <1>1, Invariance, PTL

\* What the last execution brought into effect, neither a later attempt nor a later step of
\* it takes away again, nor a request of it that is late.
THEOREM Keeps == Spec => KeepsNewRelease
<1>1. IInv /\ [Next]_vars =>
        [\A s \in Parts :
            (newest # None /\ runs[s] = newest /\ runs'[s] # newest)
                => disturbed' \/ ex[newest].remove \/ ClearsOwn(newest)]_vars
  BY StepKeeps DEF Kept
<1> QED
  BY <1>1, Invariance, PTL DEF Spec, KeepsNewRelease
=============================================================================
