---------------------------- MODULE TeamRequests ----------------------------
(***************************************************************************)
(* Requests on teams, their members and what they own, side by side.       *)
(***************************************************************************)
EXTENDS TeamRoster, TeamResources

Nothing == [u \in Users |-> 0]

(***************************************************************************)
(* A team that one user created, and the default team, which all the       *)
(* administrators of the system own; others are members or admins.         *)
(***************************************************************************)
Init ==
    /\ users = Users
    /\ born \in {{DefaultTeam}, Teams \ {DefaultTeam}}
    /\ live = born
    /\ role \in [Teams -> [Users -> Roles \cup {None}]]
    /\ \A t \in Teams : LET owners == {u \in Users : Owner(t, u)}
                        IN  IF t \notin live THEN \A u \in Users : ~Member(t, u)
                            ELSE IF t = DefaultTeam THEN owners = SystemAdmins
                            ELSE Cardinality(owners) = 1
    /\ invites = [i \in Invites |-> None]
    /\ res = [r \in Resources |-> None]
    /\ grants = [r \in Resources |-> Nothing]
    /\ groups = {}
    /\ groupGrants = [t \in Teams |-> Nothing]
    /\ tasks = [k \in Tasks |-> None]
    /\ req = [w \in Workers |-> Idle]
    /\ asked = 0
    /\ used = {} /\ dropped = {}
    /\ raced = {} /\ late = {}

Write(w) ==
    \/ IssueInvite(w) \/ Accept(w) \/ Patch(w) \/ Remove(w)
    \/ Grant(w) \/ Group(w) \/ GroupGrant(w)
    \/ CreatePipeline(w) \/ CreateHost(w) \/ CreateSource(w) \/ CreateOther(w)
    \/ CopyPipeline(w) \/ SharePermissions(w) \/ GrantCreator(w) \/ ShareSource(w)
    \/ FileTask(w) \/ DeleteTeam(w)

RosterRequest(w, u) ==
    \/ \E t \in Teams : \/ CreateTeam(w, u, t)
                      \/ \E v \in users : CreateTeamFor(w, u, t, v)
    \/ \E i \in Invites : BeginAccept(w, u, i)
    \/ \E t \in live :
         \/ \E r \in Roles : BeginInvite(w, u, t, r) \/ BeginCurrentInvite(w, u, t, r)
         \/ \E v \in Users : BeginRemove(w, u, t, v)
         \/ \E v \in Users, new \in Roles : BeginPatch(w, u, t, v, new)

ResourceRequest(w, u) ==
    \/ \E r \in Resources : \/ BeginCopy(w, u, r) \/ DeletePipeline(w, u, r)
                            \/ DeleteHost(w, u, r) \/ DeleteSource(w, u, r) \/ DeleteOther(w, u, r)
                            \/ \E p \in BOOLEAN : BeginShareSource(w, u, r, p)
                            \/ \E v \in Users : Revoke(w, u, r, v)
    \/ \E r \in Resources, v \in Users, l \in Granted : BeginGrant(w, u, r, v, l)
    \/ \E t \in live : \/ BeginGroup(w, u, t) \/ BeginDelete(w, u, t)
                       \/ \E k \in {KindOf[r] : r \in Resources \ used} : BeginCreate(w, u, t, k)
                       \/ \E p \in BOOLEAN : BeginCreateSource(w, u, t, p)
                       \/ \E p \in Resources \cup {None} : BeginTask(w, u, t, p)
                       \/ \E v \in Users : GroupRevoke(w, u, t, v)
                       \/ \E v \in Users, l \in Granted : BeginGroupGrant(w, u, t, v, l)

Next ==
    \/ \E w \in Workers : Write(w)
    \/ /\ asked < MaxRequests
       /\ \/ \E w \in {v \in Workers : req[v] = Idle}, u \in users :
               RosterRequest(w, u) \/ ResourceRequest(w, u)
          \/ \E u \in users : DeleteUser(u)
    \/ \E i \in Invites : InviteExpires(i)

Spec == Init /\ [][Next]_vars

-----------------------------------------------------------------------------
TypeOK ==
    /\ live \subseteq born /\ born \subseteq Teams
    /\ role \in [Teams -> [Users -> Roles \cup {None}]]
    /\ grants \in [Resources -> [Users -> {0} \cup Levels]]
    /\ groupGrants \in [Teams -> [Users -> {0} \cup Levels]]
    /\ groups \subseteq Teams
    /\ asked \in 0..MaxRequests

(***************************************************************************)
(* Every member belongs to a team that exists: a user who accepts an       *)
(* invitation while the team is being deleted does not become a member of  *)
(* nothing, because the invitation is marked in the same transaction       *)
(* (accept_invitation) and the deletion takes it along.                    *)
(***************************************************************************)
MembersOfLiveTeams == \A t \in Teams, u \in Users : Member(t, u) => t \in live

(***************************************************************************)
(* "A team keeps at least one owner" (patch_member_role): true of every    *)
(* team whose roles are changed by one request at a time, whatever else    *)
(* happens meanwhile.                                                      *)
(***************************************************************************)
OwnerUnlessRaced == \A t \in live \ raced : \E u \in Users : Owner(t, u)

(***************************************************************************)
(* A deleted team leaves nothing behind, in no table, and nothing names a  *)
(* resource that is gone, unless something was written for the team while  *)
(* it was being deleted or later (delete_team_cascade).  A resource that   *)
(* was deleted alone leaves its permissions and its tasks.                 *)
(***************************************************************************)
NothingLeftBehind ==
    /\ \A t \in born \ (live \cup late) :
         /\ OwnedBy(t) = {}
         /\ \A k \in Tasks : tasks[k] # None => tasks[k].team # t
         /\ t \notin groups /\ groupGrants[t] = Nothing
         /\ \A i \in Invites : invites[i] # None => invites[i].team # t
    /\ late = {} =>
         /\ \A r \in Resources \ dropped : res[r] = None => grants[r] = Nothing
         /\ \A k \in Tasks : tasks[k] # None =>
              tasks[k].pipeline \in {None} \cup dropped \/ res[tasks[k].pipeline] # None
=============================================================================
