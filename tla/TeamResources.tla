--------------------------- MODULE TeamResources ---------------------------
(***************************************************************************)
(* What teams own: resources and the permissions on them                   *)
(* (routes/resource_permissions.py, resource_permissions.py), their groups,*)
(* tasks, and the deletion of a team with all of it (team_deletion.py).    *)
(***************************************************************************)
EXTENDS TeamData

roster == <<users, born, live, role, invites>>

\* the checks of PUT .../members/{user} of a resource of any kind
BeginGrant(w, u, r, target, level) ==
    /\ May(u, r, Admin)
    /\ res[r].team # None => Member(res[r].team, target)
    /\ Begin(w, [Request("grant", u, res[r].team) EXCEPT
                   !.item = r, !.who = target, !.set = {level, grants[r][target]}])

\* grant_resource_permission: the row it found is updated, else one is
\* inserted; neither when another request has removed or inserted it
Grant(w) ==
    LET r == req[w]
    IN  /\ r.op = "grant"
        /\ IF (0 \in r.set) # (grants[r.item][r.who] = 0)
           THEN GiveUp(w)
           ELSE /\ \E level \in r.set \ {0} : grants' = [grants EXCEPT ![r.item][r.who] = level]
                /\ Written(r.team)
                /\ End(w)
                /\ UNCHANGED <<roster, res, groups, groupGrants, tasks, asked, ids, raced>>

\* DELETE .../members/{user}, revoke_resource_permission: a single request,
\* as its DELETE takes whatever row it finds
Revoke(w, u, r, target) ==
    /\ req[w] = Idle /\ asked < MaxRequests /\ u \in users
    /\ May(u, r, Admin)
    /\ grants[r][target] # 0
    /\ asked' = asked + 1
    /\ grants' = [grants EXCEPT ![r][target] = 0]
    /\ UNCHANGED <<roster, res, groups, groupGrants, tasks, req, ids, raced, late>>

\* POST /pipeline-groups, /host-groups: any member creates one
BeginGroup(w, u, t) ==
    /\ Member(t, u)
    /\ t \notin groups
    /\ Begin(w, Request("group", u, t))

Group(w) ==
    /\ req[w].op = "group"
    /\ groups' = groups \cup {req[w].team}
    /\ Written(req[w].team)
    /\ End(w)
    /\ UNCHANGED <<roster, res, grants, groupGrants, tasks, asked, ids, raced>>

\* PUT .../groups/{group}/members/{user}
BeginGroupGrant(w, u, t, target, level) ==
    /\ t \in groups
    /\ Member(t, u) /\ Member(t, target)
    /\ Begin(w, [Request("group_grant", u, t) EXCEPT
                   !.who = target, !.set = {level, groupGrants[t][target]}])

GroupGrant(w) ==
    LET r == req[w]
    IN  /\ r.op = "group_grant"
        /\ IF (0 \in r.set) # (groupGrants[r.team][r.who] = 0)
           THEN GiveUp(w)
           ELSE /\ \E level \in r.set \ {0} :
                     groupGrants' = [groupGrants EXCEPT ![r.team][r.who] = level]
                /\ Written(r.team)
                /\ End(w)
                /\ UNCHANGED <<roster, res, grants, groups, tasks, asked, ids, raced>>

\* DELETE .../pipeline-groups/{group}/members/{user}
GroupRevoke(w, u, t, target) ==
    /\ req[w] = Idle /\ asked < MaxRequests /\ u \in users
    /\ t \in groups
    /\ Member(t, u)
    /\ groupGrants[t][target] # 0
    /\ asked' = asked + 1
    /\ groupGrants' = [groupGrants EXCEPT ![t][target] = 0]
    /\ UNCHANGED <<roster, res, grants, groups, tasks, req, ids, raced, late>>

-----------------------------------------------------------------------------
(***************************************************************************)
(* A member of a team creates a resource: a pipeline or a host, which may  *)
(* be in a group; a source, personal or (by the team's admins) shared with *)
(* the whole team; a registry, a template or a package.  The resource and  *)
(* the admin of its creator are transactions of their own.                 *)
(***************************************************************************)
BeginCreate(w, u, t, kind) ==
    /\ kind # "git_source"
    /\ Member(t, u)
    /\ Begin(w, [Request("create", u, t) EXCEPT !.item = kind])

BeginCreateSource(w, u, t, public) ==
    /\ public => TeamAdmin(t, u)
    /\ Member(t, u)
    /\ Begin(w, [Request("create", u, t) EXCEPT
                   !.item = "git_source", !.who = IF public THEN "all" ELSE None])

New(w, r, g, p, then) ==
    /\ r \notin used
    /\ used' = used \cup {r}
    /\ res' = [res EXCEPT ![r] = [team |-> req[w].team, group |-> g, public |-> p]]
    /\ req' = [req EXCEPT ![w].op = then, ![w].item = r]
    /\ Written(req[w].team)
    /\ UNCHANGED <<roster, grants, groups, groupGrants, tasks, asked, dropped, raced>>

Create(w, r, g, p) ==
    /\ req[w].op = "create"
    /\ req[w].item = KindOf[r]
    /\ g => req[w].team \in groups
    /\ New(w, r, g, p, "own")

CreatePipeline(w) ==
    \E r \in Resources, g \in BOOLEAN : KindOf[r] = "pipeline" /\ Create(w, r, g, FALSE)
CreateHost(w) ==
    \E r \in Resources, g \in BOOLEAN : KindOf[r] = "host" /\ Create(w, r, g, FALSE)
CreateSource(w) ==
    \E r \in Resources : KindOf[r] = "git_source" /\ Create(w, r, FALSE, req[w].who = "all")
CreateOther(w) ==
    \E r \in Resources : /\ KindOf[r] \notin Grouped \cup {"git_source"}
                         /\ Create(w, r, FALSE, FALSE)

\* PUT /git-sources: an admin of the team who may edit the source decides
\* who sees it; a source that is gone is not found
BeginShareSource(w, u, r, public) ==
    /\ KindOf[r] = "git_source"
    /\ May(u, r, Edit)
    /\ TeamAdmin(res[r].team, u)
    /\ Begin(w, [Request("publish", u, res[r].team) EXCEPT
                   !.item = r, !.who = IF public THEN "all" ELSE None])

ShareSource(w) ==
    LET r == req[w].item
    IN  /\ req[w].op = "publish"
        /\ IF res[r] = None
           THEN GiveUp(w)
           ELSE /\ res' = [res EXCEPT ![r].public = (req[w].who = "all")]
                /\ End(w)
                /\ UNCHANGED <<roster, grants, groups, groupGrants, tasks, asked, ids, raced, late>>

(***************************************************************************)
(* A copy of a pipeline has the permissions of the pipeline; who copies is *)
(* granted admin unless one of the copied permissions is theirs.           *)
(***************************************************************************)
BeginCopy(w, u, r) ==
    /\ KindOf[r] = "pipeline" /\ May(u, r, Edit)
    /\ Member(res[r].team, u)
    /\ Begin(w, [Request("copy", u, res[r].team) EXCEPT
                   !.item = IF res[r].group THEN "grouped" ELSE None,
                   !.set = {<<v, grants[r][v]>> : v \in {x \in Users : grants[r][x] # 0}}])

CopyPipeline(w) ==
    /\ req[w].op = "copy"
    /\ \E r \in Resources : KindOf[r] = "pipeline" /\ New(w, r, req[w].item = "grouped", FALSE, "share")

SharePermissions(w) ==
    LET r == req[w]
    IN  /\ r.op = "share"
        /\ r.set # {}
        /\ IF \E p \in r.set : grants[r.item][p[1]] # 0
           THEN GiveUp(w)
           ELSE /\ grants' = [grants EXCEPT ![r.item] =
                                [u \in Users |-> IF \E p \in r.set : p[1] = u
                                                 THEN (CHOOSE p \in r.set : p[1] = u)[2]
                                                 ELSE 0]]
                /\ req' = [req EXCEPT ![w].set = {}]
                /\ Written(r.team)
                /\ UNCHANGED <<roster, res, groups, groupGrants, tasks, asked, ids, raced>>

GrantCreator(w) ==
    LET r == req[w]
    IN  /\ r.op \in {"own", "share"}
        /\ r.set = {}
        /\ IF r.op = "share" /\ grants[r.item][r.by] # 0
           THEN UNCHANGED <<grants, late>>
           ELSE grants' = [grants EXCEPT ![r.item][r.by] = Admin] /\ Written(r.team)
        /\ End(w)
        /\ UNCHANGED <<roster, res, groups, groupGrants, tasks, asked, ids, raced>>

(***************************************************************************)
(* DELETE of one resource: the permissions on it and its tasks stay.       *)
(***************************************************************************)
Drop(w, u, r) ==
    /\ req[w] = Idle /\ asked < MaxRequests /\ u \in users
    /\ May(u, r, Admin)
    /\ asked' = asked + 1
    /\ res' = [res EXCEPT ![r] = None]
    /\ dropped' = dropped \cup {r}
    /\ UNCHANGED <<roster, grants, groups, groupGrants, tasks, req, used, raced, late>>

DeletePipeline(w, u, r) == KindOf[r] = "pipeline" /\ Drop(w, u, r)
DeleteHost(w, u, r) == KindOf[r] = "host" /\ Drop(w, u, r)
DeleteSource(w, u, r) == KindOf[r] = "git_source" /\ Drop(w, u, r)
DeleteOther(w, u, r) == KindOf[r] \notin Grouped \cup {"git_source"} /\ Drop(w, u, r)

(***************************************************************************)
(* A task is filed for a pipeline, with the pipeline's team, or for a team *)
(* alone.  infer_team_id_for_new_task reads the team before the row is     *)
(* written.                                                                *)
(***************************************************************************)
BeginTask(w, u, t, p) ==
    /\ Member(t, u)
    /\ p # None => KindOf[p] = "pipeline" /\ May(u, p, Run) /\ res[p].team = t
    /\ Begin(w, [Request("task", u, t) EXCEPT !.item = p])

FileTask(w) ==
    LET r == req[w]
    IN  /\ r.op = "task"
        /\ \E k \in Tasks :
             /\ tasks[k] = None
             /\ tasks' = [tasks EXCEPT ![k] = [team |-> r.team, pipeline |-> r.item]]
        /\ Written(r.team)
        /\ End(w)
        /\ UNCHANGED <<roster, res, grants, groups, groupGrants, asked, ids, raced>>

-----------------------------------------------------------------------------
(***************************************************************************)
(* Deletion of a team: by an owner, or an administrator of the system, and *)
(* never of the default team.  First the ids of what it owns are read;     *)
(* then one transaction deletes the tasks with those ids, and for every    *)
(* kind of which there was a resource, the permissions on those ids and    *)
(* all resources of the team; its groups; and the team with its members    *)
(* and invitations.                                                        *)
(***************************************************************************)
OwnedBy(t) == {r \in Resources : res[r] # None /\ res[r].team = t}

\* The tasks of the team's pipelines only
TasksOfPipelines(t) == {k \in Tasks : tasks[k] # None /\ tasks[k].pipeline \in OwnedBy(t)}

TasksOf(t) ==
    {k \in Tasks : /\ tasks[k] # None
                   /\ \/ tasks[k].team = t
                      \/ tasks[k].pipeline \in OwnedBy(t)}

BeginDelete(w, u, t) ==
    /\ t \in live
    /\ u \in SystemAdmins \/ Owner(t, u)
    /\ t # DefaultTeam
    /\ Begin(w, [Request("delete", u, t) EXCEPT
                   !.set = OwnedBy(t) \cup TasksOf(t) \cup ({t} \cap groups)])

DeleteTeam(w) ==
    LET t == req[w].team
        found == req[w].set
        kinds == {KindOf[r] : r \in found \cap Resources}
    IN  /\ req[w].op = "delete"
        /\ tasks' = [k \in Tasks |-> IF k \in found THEN None ELSE tasks[k]]
        /\ grants' = [r \in Resources |-> IF r \in found THEN [u \in Users |-> 0] ELSE grants[r]]
        /\ res' = [r \in Resources |->
                     IF r \in OwnedBy(t) /\ KindOf[r] \in kinds THEN None ELSE res[r]]
        /\ groupGrants' = IF t \in found THEN [groupGrants EXCEPT ![t] = [u \in Users |-> 0]]
                          ELSE groupGrants
        /\ groups' = groups \ {t}
        /\ live' = live \ {t}
        /\ role' = [role EXCEPT ![t] = [u \in Users |-> None]]
        /\ invites' = [i \in Invites |->
                         IF invites[i] # None /\ invites[i].team = t THEN None ELSE invites[i]]
        /\ EndWithout(w, t, Users)
        /\ UNCHANGED <<users, born, asked, ids, raced, late>>
=============================================================================
