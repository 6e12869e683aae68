------------------------------ MODULE TeamData ------------------------------
(***************************************************************************)
(* The rows that describe teams: the teams, who is in them and with which  *)
(* role, the invitations, and what a team owns: resources (pipelines,      *)
(* hosts, configurations of deployments, sources, packages, registries,    *)
(* templates) with the permissions granted on them, groups of pipelines or *)
(* hosts, and tasks.                                                       *)
(*                                                                         *)
(* The web server runs the routes that work on them in a pool of threads,  *)
(* or (those of pipelines) in its event loop.  A route first reads what it *)
(* needs for its checks, each query seeing what is committed at that time, *)
(* and then writes in one transaction (SQLite takes the write lock at its  *)
(* first statement).  A request is therefore two steps, and any request    *)
(* may come between them.  What the session remembers of its reading is    *)
(* the record req[w]; rows is the set of members whose rows it holds: an   *)
(* UPDATE of a row that is gone makes the session roll everything back,    *)
(* a DELETE of one is only a warning.                                      *)
(***************************************************************************)
EXTENDS Naturals, FiniteSets

CONSTANTS
    Users, SystemAdmins,
    Teams, DefaultTeam,
    Invites,
    Resources, KindOf,   \* KindOf: the kind of every resource
    Tasks,
    Workers,             \* threads of the pool
    MaxRequests,         \* bound: requests in a behaviour
    Granted,             \* bound: the levels that requests grant
    None

View == 1
Run == 2
Edit == 3
Admin == 4
Levels == {View, Run, Edit, Admin}

Roles == {"owner", "admin", "member"}

\* the rows of team_invitations, of the tables of resources, and of tasks
InviteRows == [team : Teams, role : Roles, open : BOOLEAN, valid : BOOLEAN]
ResourceRows == [team : Teams, group : BOOLEAN, public : BOOLEAN]
TaskRows == [team : Teams, pipeline : Resources \cup {None}]

\* The start makes a default team only when the system has an administrator to own it.
ASSUME TeamAssumption ==
    /\ SystemAdmins \subseteq Users /\ SystemAdmins # {}
    /\ DefaultTeam \in Teams
    /\ MaxRequests \in Nat
    /\ Granted \subseteq Levels
    /\ None \notin Users \cup Teams \cup Invites \cup Resources \cup Tasks
    /\ None \notin Roles /\ None \notin InviteRows
    /\ None \notin ResourceRows /\ None \notin TaskRows

VARIABLES
    users,       \* rows of users
    born, live,  \* teams created so far; rows of teams
    role,        \* rows of team_members
    invites,     \* rows of team_invitations
    res,         \* rows of the tables of resources
    grants,      \* rows of the tables of their permissions
    groups,      \* teams that have a group of pipelines and of hosts
    groupGrants, \* rows of the tables of their permissions
    tasks,       \* rows of tasks
    req, asked,
    used,        \* history: ids given to invitations and resources, never again
    dropped,     \* history: resources that were deleted alone
    raced,       \* history: teams whose roles two requests changed at once
    late         \* history: teams that something was written for too late

data == <<users, born, live, role, invites, res, grants, groups, groupGrants, tasks>>
ids == <<used, dropped>>
vars == <<data, req, asked, ids, raced, late>>

Kinds == {"pipeline", "host", "deploy_config", "git_source", "resource_package",
          "registry", "template"}
Grouped == {"pipeline", "host"}  \* kinds that may be in a group

Best(a, b) == IF a >= b THEN a ELSE b   \* max_permission; 0 is no permission

Member(t, u) == role[t][u] # None
TeamAdmin(t, u) == role[t][u] \in {"owner", "admin"}
Owner(t, u) == role[t][u] = "owner"

\* what is granted to user u on resource r itself, and on its group
Direct(u, r) == grants[r][u]
ByGroup(u, r) == IF res[r].group THEN groupGrants[res[r].team][u] ELSE 0

\* get_effective_permission
Effective(u, r) ==
    LET t == res[r].team
        granted == Best(Direct(u, r), ByGroup(u, r))
        public == KindOf[r] = "git_source" /\ res[r].public
    IN  IF t = None \/ Owner(t, u) \/ (public /\ TeamAdmin(t, u)) THEN Admin
        ELSE IF public /\ Member(t, u) THEN Best(Run, granted)
        ELSE granted

\* require_resource_permission
May(u, r, level) == res[r] # None /\ Effective(u, r) >= level

-----------------------------------------------------------------------------
Idle == [op |-> "idle"]

Request(op, by, team) ==
    [op |-> op, by |-> by, team |-> team, who |-> None, item |-> None, set |-> {},
     rows |-> {}]

\* what requests that change roles are at work on
Changing(t) == {w \in Workers : req[w].op \in {"patch", "remove"} /\ req[w].team = t}

\* the checks of a request passed on what it read
Begin(w, r) ==
    /\ req[w] = Idle
    /\ asked < MaxRequests
    /\ r.by \in users
    /\ asked' = asked + 1
    /\ req' = [req EXCEPT ![w] = r]
    /\ raced' = raced \cup (IF r.op \in {"patch", "remove"} /\ Changing(r.team) # {}
                            THEN {r.team} ELSE {})
    /\ UNCHANGED <<data, ids, late>>

End(w) == req' = [req EXCEPT ![w] = Idle]

\* its transaction is rolled back
GiveUp(w) == End(w) /\ UNCHANGED <<data, asked, ids, raced, late>>

\* rows of team_members were deleted: no session holds them any longer
EndWithout(w, t, gone) ==
    req' = [v \in Workers |->
              IF v = w THEN Idle
              ELSE IF req[v] # Idle /\ req[v].team = t
                   THEN [req[v] EXCEPT !.rows = @ \ gone]
                   ELSE req[v]]

Deleting(t) == \E w \in Workers : req[w].op = "delete" /\ req[w].team = t

\* a row for team t is written while t is being deleted, or later
Written(t) == late' = late \cup (IF Deleting(t) \/ t \notin live THEN {t} ELSE {})
=============================================================================
