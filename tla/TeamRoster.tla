----------------------------- MODULE TeamRoster -----------------------------
(***************************************************************************)
(* Members and invitations: routes/teams.py.                               *)
(***************************************************************************)
EXTENDS TeamData

rest == <<res, grants, groups, groupGrants, tasks>>

\* POST /teams: the team and its first owner in one transaction
CreateTeam(w, u, t) ==
    /\ req[w] = Idle
    /\ asked < MaxRequests
    /\ u \in users
    /\ t \notin born \cup {DefaultTeam}
    /\ asked' = asked + 1
    /\ born' = born \cup {t}
    /\ live' = live \cup {t}
    /\ role' = [role EXCEPT ![t][u] = "owner"]
    /\ UNCHANGED <<users, invites, rest, req, ids, raced, late>>

\* POST /admin/teams: an administrator of the system names the owner
CreateTeamFor(w, u, t, owner) ==
    /\ u \in SystemAdmins \cap users
    /\ CreateTeam(w, owner, t)

-----------------------------------------------------------------------------
(***************************************************************************)
(* Invitations.  GET .../invite/current hands out the one that is pending  *)
(* for the role and still valid; otherwise it issues one, as POST          *)
(* .../invite always does.                                                 *)
(***************************************************************************)
MayInvite(t, u, r) == r # "owner" /\ (r = "admin" => Owner(t, u))

Pending(t, r) ==
    {i \in Invites : /\ invites[i] # None
                     /\ invites[i].team = t /\ invites[i].role = r
                     /\ invites[i].open /\ invites[i].valid}

BeginInvite(w, u, t, r) ==
    /\ TeamAdmin(t, u)
    /\ MayInvite(t, u, r)
    /\ t \in live
    /\ Begin(w, [Request("invite", u, t) EXCEPT !.item = r])

BeginCurrentInvite(w, u, t, r) ==
    /\ Pending(t, r) = {}
    /\ BeginInvite(w, u, t, r)

IssueInvite(w) ==
    /\ req[w].op = "invite"
    /\ \E i \in Invites :
         /\ i \notin used
         /\ used' = used \cup {i}
         /\ invites' = [invites EXCEPT ![i] = [team |-> req[w].team, role |-> req[w].item,
                                               open |-> TRUE, valid |-> TRUE]]
    /\ Written(req[w].team)
    /\ End(w)
    /\ UNCHANGED <<users, born, live, role, rest, asked, dropped, raced>>

\* an invitation is valid for seven days
InviteExpires(i) ==
    /\ invites[i] # None /\ invites[i].valid
    /\ invites' = [invites EXCEPT ![i].valid = FALSE]
    /\ UNCHANGED <<users, born, live, role, rest, req, asked, ids, raced, late>>

BeginAccept(w, u, i) ==
    /\ invites[i] # None
    /\ invites[i].open /\ invites[i].valid
    /\ invites[i].team \in live
    /\ Begin(w, [Request("accept", u, invites[i].team) EXCEPT
                   !.item = i,
                   !.set = IF Member(invites[i].team, u) THEN {}
                           ELSE {<<u, invites[i].role>>}])

\* The mark on an invitation whose row is gone goes unnoticed
InviteNotChecked(i) == TRUE

\* the UPDATE of the invitation finds its row
InviteStands(i) == invites[i] # None

\* The membership, if it is new, and the mark on the invitation are written
\* together; a membership that came in between violates the unique index.
\* Nothing looks again whether the invitation was accepted in the meantime.
Accept(w) ==
    LET r == req[w]
    IN  /\ r.op = "accept"
        /\ IF ~InviteStands(r.item) \/ (r.set # {} /\ Member(r.team, r.by))
           THEN GiveUp(w)
           ELSE /\ invites' = [invites EXCEPT ![r.item] =
                                 IF @ = None THEN None ELSE [@ EXCEPT !.open = FALSE]]
                /\ role' = [role EXCEPT ![r.team] =
                              [u \in Users |-> IF \E p \in r.set : p[1] = u
                                               THEN (CHOOSE p \in r.set : p[1] = u)[2]
                                               ELSE @[u]]]
                /\ End(w)
                /\ UNCHANGED <<users, born, live, rest, asked, ids, raced, late>>

-----------------------------------------------------------------------------
(***************************************************************************)
(* PATCH and DELETE of a member.                                           *)
(***************************************************************************)
\* The last owner may give the role up
AnyOwnerMayStepDown(t, target, new) == TRUE

\* a team keeps an owner: the last one cannot be given another role
OwnerRemains(t, target, new) ==
    Owner(t, target) /\ new # "owner" => \E o \in Users \ {target} : Owner(t, o)

MayChange(t, actor, target, new) ==
    Owner(t, actor) \/ (new = "member" /\ role[t][target] = "member")

\* set: the rows that change and their new role; with a new owner, the
\* first owner that the query returns becomes an admin
BeginPatch(w, u, t, target, new) ==
    /\ TeamAdmin(t, u)
    /\ Member(t, target)
    /\ MayChange(t, u, target, new)
    /\ OwnerRemains(t, target, new)
    /\ \E old \in IF new = "owner" THEN {o \in Users : Owner(t, o)} ELSE {target} :
         LET changed == (IF role[t][target] = new THEN {} ELSE {<<target, new>>})
                          \cup (IF old = target THEN {} ELSE {<<old, "admin">>})
         IN  Begin(w, [Request("patch", u, t) EXCEPT !.who = target, !.set = changed,
                                                     !.rows = {target, old}])

Patch(w) ==
    LET r == req[w]
    IN  /\ r.op = "patch"
        /\ IF \E p \in r.set : p[1] \notin r.rows
           THEN GiveUp(w)
           ELSE /\ role' = [role EXCEPT ![r.team] =
                              [u \in Users |-> IF \E p \in r.set : p[1] = u
                                               THEN (CHOOSE p \in r.set : p[1] = u)[2]
                                               ELSE @[u]]]
                /\ End(w)
                /\ UNCHANGED <<users, born, live, invites, rest, asked, ids, raced, late>>

BeginRemove(w, u, t, target) ==
    /\ TeamAdmin(t, u)
    /\ Member(t, target)
    /\ ~Owner(t, target)
    /\ role[t][target] = "admin" => Owner(t, u)
    /\ Begin(w, [Request("remove", u, t) EXCEPT !.who = target, !.rows = {target}])

Remove(w) ==
    LET r == req[w]
    IN  /\ r.op = "remove"
        /\ IF r.who \in r.rows
           THEN /\ role' = [role EXCEPT ![r.team][r.who] = None]
                /\ EndWithout(w, r.team, {r.who})
                /\ UNCHANGED <<users, born, live, invites, rest, asked, ids, raced, late>>
           ELSE GiveUp(w)

\* an administrator deletes a user: the rows of team_members stay
DeleteUser(u) ==
    /\ asked < MaxRequests
    /\ u \in users
    /\ users' = users \ {u}
    /\ asked' = asked + 1
    /\ UNCHANGED <<born, live, role, invites, rest, req, ids, raced, late>>
=============================================================================
