----------------------------- MODULE TeamProofs -----------------------------
(***************************************************************************)
(* Theorems about what happens to the rows of teams: by the upgrade that a *)
(* start of the server runs, SchemaUpgrade, for any releases and any       *)
(* number of starts, failures and changes in between; and by the requests  *)
(* it then serves, TeamRequests, for any users, teams, resources, tasks    *)
(* and threads, and any number of requests.                                *)
(***************************************************************************)
EXTENDS SchemaUpgrade, TeamRequests, FiniteSetTheorems, TLAPS

(***************************************************************************)
(* The upgrade.  The inductive invariant: what a database must be like for *)
(* the steps to come, what the open transaction has kept of it, and what   *)
(* the rows still to be dealt with are.                                    *)
(***************************************************************************)
Keyed(d) ==
    /\ IsFiniteSet(d.teams)
    /\ \A t, u \in d.teams : t.id = u.id => t = u

\* an execution has the content of its source
Sourced(d) == \A e, t \in d.tasks : e.source = t.id => e.content = t.content

\* what is said of the team of a task without one is a team
Hinted(d) == \A t \in d.tasks : t.team = Null => t.hint \in Ids(d.teams) \cup {Null}

Sound(d) == Keyed(d) /\ Sourced(d) /\ TeamsExistIn(d) /\ ContentIn(d) /\ HistoryIn(d)

SameRows(d, e) ==
    /\ d.tasks = e.tasks /\ d.configs = e.configs /\ d.rows = e.rows
    /\ d.teams = e.teams /\ d.members = e.members /\ d.done = e.done

Rebuilding == {"copy", "drop", "rename"}
Open == Rebuilding \cup {"move", "merge"}
Places == Steps \cup {"served"}

OpenInv ==
    /\ pc \notin Open => open = db /\ todo = {}
    /\ open.origin = db.origin
    /\ pc \in Rebuilding => SameRows(open, db) /\ todo = {}
    /\ pc \in {"drop", "rename"} => open.spare = db.hosts
    /\ pc \in {"copy", "move", "merge"} => open.hosts = db.hosts

MoveInv ==
    pc = "move" =>
        /\ Sound(open) /\ Hinted(open)
        /\ open.members = db.members /\ open.teams = db.teams
        /\ todo \subseteq {t \in open.tasks : IsConfigTask(t)}

MergeInv ==
    pc = "merge" =>
        /\ Sound(open)
        /\ BySlug(open) # {}
        /\ todo \subseteq {t \in ByName(open) : t.id # DefaultTeamId(open)}
        /\ KeepsMembers(db, open)

DbInv ==
    /\ Sound(db) /\ Hinted(db)
    /\ pc = "owners" => BySlug(db) # {}
    /\ HostsKept

UpgradeInv == UpgradeTypeOK /\ OpenInv /\ MoveInv /\ MergeInv /\ DbInv

-----------------------------------------------------------------------------
LEMMA NullIsNone == Null \notin Nat
BY ReleasesAssumption DEF ReleasesOK

\* The steps lead to steps, and none of them into the middle of another.
LEMMA AfterIsOutside == \A s \in Steps : After[s] \in Places \ (Open \cup {"owners"})
BY DEF Steps, After, Places, Open, Rebuilding

LEMMA FirstIsFirst ==
  ASSUME NEW S, S # {}, \A s \in S : s.id \in Nat
  PROVE  First(S) \in S /\ \A r \in S : First(S).id <= r.id
<1> DEFINE T == {s.id : s \in S}
<1>1. T \subseteq Nat /\ T # {}
  OBVIOUS
<1>2. PICK m \in T : \A n \in T : <<n, m>> \notin OpToRel(<, Nat)
  <2> HIDE DEF T
  <2> QED
    BY <1>1, NatLessThanWellFounded, WFMin
<1>3. \A n \in T : m <= n
  <2> TAKE n \in T
  <2>1. m \in Nat /\ n \in Nat
    BY <1>1
  <2>2. ~ (n < m)
    BY <1>2, <2>1 DEF OpToRel
  <2> QED
    BY <2>1, <2>2
<1>4. \E s \in S : \A r \in S : s.id <= r.id
  BY <1>3
<1> QED
  BY <1>4 DEF First

LEMMA DefaultTeamIsOne ==
  ASSUME NEW d \in Databases, BySlug(d) # {}
  PROVE  /\ First(BySlug(d)) \in BySlug(d)
         /\ \A t \in BySlug(d) : DefaultTeamId(d) <= t.id
         /\ DefaultTeamId(d) \in Ids(d.teams)
         /\ DefaultTeamId(d) \in Nat
<1>1. BySlug(d) \subseteq d.teams /\ d.teams \subseteq TeamRows
  BY DEF BySlug, Databases
<1>2. \A t \in BySlug(d) : t.id \in Nat
  BY <1>1 DEF TeamRows
<1>3. First(BySlug(d)) \in BySlug(d) /\ \A t \in BySlug(d) : First(BySlug(d)).id <= t.id
  BY <1>2, FirstIsFirst
<1> QED
  BY <1>1, <1>2, <1>3 DEF DefaultTeamId, Ids

\* A new team gets an id no other has.
LEMMA NewIdIsNew ==
  ASSUME NEW S, IsFiniteSet(S)
  PROVE  NewId(S) \in Nat /\ NewId(S) \notin Ids(S)
<1> DEFINE n == Cardinality(S)
           f == [s \in S |-> s.id]
<1>1. n \in Nat
  BY FS_CardinalityType
<1>2. IsFiniteSet(Ids(S)) /\ Cardinality(Ids(S)) <= n
  <2>1. f \in Surjection(S, Ids(S))
    BY DEF Surjection, Ids
  <2> QED
    BY <2>1, FS_Surjection
<1>3. IsFiniteSet(1..(n + 1)) /\ Cardinality(1..(n + 1)) = n + 1
  BY <1>1, FS_Interval
<1>4. Cardinality(Ids(S)) \in Nat
  BY <1>2, FS_CardinalityType
<1>5. ~ (1..(n + 1) \subseteq Ids(S))
  <2> SUFFICES ASSUME 1..(n + 1) \subseteq Ids(S) PROVE FALSE
    OBVIOUS
  <2>1. Cardinality(1..(n + 1)) <= Cardinality(Ids(S))
    BY <1>2, FS_Subset
  <2> QED
    BY <1>1, <1>2, <1>3, <1>4, <2>1
<1>6. NewId(S) \in 1..(n + 1) /\ NewId(S) \notin Ids(S)
  BY <1>5 DEF NewId
<1> QED
  BY <1>1, <1>6

\* What the steps say of the rows is kept by what leaves the rows alone.
LEMMA SameRowsKept ==
  ASSUME NEW d, NEW e, SameRows(d, e)
  PROVE  /\ Sound(e) => Sound(d)
         /\ Hinted(e) => Hinted(d)
         /\ BySlug(d) = BySlug(e) /\ ByName(d) = ByName(e)
BY DEF SameRows, Sound, Hinted, Keyed, Sourced, TeamsExistIn, ContentIn, HistoryIn, BySlug, ByName

\* The columns a step adds are those of the present tables.
LEMMA ColumnsTyped ==
  /\ \A s \in DOMAIN ColumnsOf :
       /\ s \in Steps /\ s \notin Open \cup {"owners"}
       /\ \A i \in DOMAIN ColumnsOf[s] : ColumnsOf[s][i] \in AllColumns
  /\ Range(LinkColumns) \subseteq AllColumns
  /\ Range(MigrationColumns) \subseteq AllColumns
  /\ RebuiltColumns \subseteq AllColumns
  /\ "agent_hosts" \in OldTables
<1>1. \A s \in DOMAIN ColumnsOf : s \in Steps /\ s \notin Open \cup {"owners"}
  BY DEF ColumnsOf, Steps, After, Open, Rebuilding
<1>2. \A s \in DOMAIN ColumnsOf : Range(ColumnsOf[s]) \subseteq AllColumns
  BY DEF AllColumns
<1>3. \A s \in DOMAIN ColumnsOf : \A i \in DOMAIN ColumnsOf[s] : ColumnsOf[s][i] \in AllColumns
  BY <1>2 DEF Range
<1>4. Range(LinkColumns) \subseteq AllColumns /\ Range(MigrationColumns) \subseteq AllColumns
  BY DEF AllColumns
<1>5. RebuiltColumns \subseteq AllColumns
  BY <1>2 DEF RebuiltColumns, ColumnsOf
<1>6. <<"agent_hosts", "host_type">> \in RebuiltColumns
  BY DEF RebuiltColumns, PortainerColumns, Range
<1>7. "agent_hosts" \in OldTables
  BY <1>5, <1>6 DEF OldTables
<1> QED
  BY <1>1, <1>3, <1>4, <1>5, <1>7

-----------------------------------------------------------------------------
\* A committed change that keeps the database sound keeps the invariant.
LEMMA CommitKeeps ==
  ASSUME UpgradeInv, NEW new \in Databases, NEW s \in Places \ Open, Commit(new, s),
         new.origin = db.origin, new.hosts = db.hosts, Sound(new), Hinted(new),
         s = "owners" => BySlug(new) # {}
  PROVE  UpgradeInv'
<1>1. db' = new /\ open' = new /\ todo' = {} /\ pc' = s
  BY DEF Commit
<1>2. UpgradeTypeOK'
  BY <1>1 DEF UpgradeInv, UpgradeTypeOK, Commit, Places
<1>3. OpenInv' /\ MoveInv' /\ MergeInv'
  BY <1>1 DEF OpenInv, MoveInv, MergeInv, Open, Rebuilding
<1>4. HostsKept'
  BY <1>1 DEF UpgradeInv, DbInv, HostsKept
<1>5. Sound(db') /\ Hinted(db')
  BY <1>1
<1>6. (pc = "owners" => BySlug(db) # {})'
  BY <1>1
<1>7. DbInv'
  BY <1>4, <1>5, <1>6 DEF DbInv, Sound, Hinted, Keyed, Sourced, TeamsExistIn, ContentIn, HistoryIn
<1> QED
  BY <1>2, <1>3, <1>7 DEF UpgradeInv

\* So does one that leaves the rows and the hosts alone.
LEMMA OtherFieldsKeep ==
  ASSUME UpgradeInv, NEW new \in Databases, NEW s \in Places \ (Open \cup {"owners"}),
         Commit(new, s), new.origin = db.origin, new.hosts = db.hosts, SameRows(new, db)
  PROVE  UpgradeInv'
<1>1. Sound(new) /\ Hinted(new)
  BY SameRowsKept DEF UpgradeInv, DbInv
<1> QED
  BY <1>1, CommitKeeps

LEMMA SkipKeeps ==
  ASSUME UpgradeInv, pc \in Steps, Skip(After[pc])
  PROVE  UpgradeInv'
<1>1. db \in Databases
  BY DEF UpgradeInv, UpgradeTypeOK
<1>2. SameRows(db, db)
  BY DEF SameRows
<1> QED
  BY <1>1, <1>2, AfterIsOutside, OtherFieldsKeep DEF Skip

LEMMA CreateAllKeeps == UpgradeInv /\ CreateAll => UpgradeInv'
<1> SUFFICES ASSUME UpgradeInv, CreateAll PROVE UpgradeInv'
  OBVIOUS
<1> DEFINE missing == (OldTables \cup {"teams"}) \ db.tables
           new == [db EXCEPT !.tables = @ \cup missing,
                             !.cols = @ \cup {c \in AllColumns : c[1] \in missing}]
<1>1. pc = "create_all" /\ Commit(new, After[pc])
  BY DEF CreateAll
<1>2. db \in Databases
  BY DEF UpgradeInv, UpgradeTypeOK
<1>3. new \in Databases /\ new.origin = db.origin /\ new.hosts = db.hosts /\ SameRows(new, db)
  BY <1>2 DEF Databases, SameRows
<1>4. pc \in Steps
  BY <1>1 DEF Steps, After
<1> QED
  BY <1>1, <1>3, <1>4, AfterIsOutside, OtherFieldsKeep

LEMMA AddColumnsKeeps == UpgradeInv /\ AddColumns => UpgradeInv'
<1> SUFFICES ASSUME UpgradeInv, AddColumns PROVE UpgradeInv'
  OBVIOUS
<1>1. pc \in Steps /\ pc \in Places \ (Open \cup {"owners"})
  BY ColumnsTyped DEF AddColumns, Places
<1>2. db \in Databases
  BY DEF UpgradeInv, UpgradeTypeOK
<1>3. CASE Skip(After[pc])
  BY <1>1, <1>3, SkipKeeps
<1>4. CASE \E i \in DOMAIN ColumnsOf[pc] :
             Commit([db EXCEPT !.cols = @ \cup {ColumnsOf[pc][i]}], pc)
  <2>1. PICK i \in DOMAIN ColumnsOf[pc] :
           Commit([db EXCEPT !.cols = @ \cup {ColumnsOf[pc][i]}], pc)
    BY <1>4
  <2> DEFINE new == [db EXCEPT !.cols = @ \cup {ColumnsOf[pc][i]}]
  <2>2. ColumnsOf[pc][i] \in AllColumns
    BY ColumnsTyped DEF AddColumns
  <2>3. new \in Databases /\ new.origin = db.origin /\ new.hosts = db.hosts /\ SameRows(new, db)
    BY <1>2, <2>2 DEF Databases, SameRows
  <2> QED
    BY <1>1, <2>1, <2>3, OtherFieldsKeep
<1> QED
  BY <1>3, <1>4 DEF AddColumns

LEMMA FixJsonKeeps == UpgradeInv /\ FixJson => UpgradeInv'
<1> SUFFICES ASSUME UpgradeInv, FixJson PROVE UpgradeInv'
  OBVIOUS
<1> DEFINE new == [db EXCEPT !.badJson = {}]
<1>1. pc = "fix_json" /\ Commit(new, After[pc])
  BY DEF FixJson
<1>2. db \in Databases
  BY DEF UpgradeInv, UpgradeTypeOK
<1>3. new \in Databases /\ new.origin = db.origin /\ new.hosts = db.hosts /\ SameRows(new, db)
  BY <1>2 DEF Databases, SameRows
<1>4. pc \in Steps
  BY <1>1 DEF Steps, After
<1> QED
  BY <1>1, <1>3, <1>4, AfterIsOutside, OtherFieldsKeep

LEMMA RolesAndPermissionsKeeps == UpgradeInv /\ RolesAndPermissions => UpgradeInv'
<1> SUFFICES ASSUME UpgradeInv, RolesAndPermissions PROVE UpgradeInv'
  OBVIOUS
<1> DEFINE new == [db EXCEPT !.roles = @ \cup {"admin", "user", "readonly"},
                             !.perms = @ \cup {"menus", "menu.migration"}]
<1>1. pc = "user_system" /\ (Skip(After[pc]) \/ Commit(new, "grants"))
  BY DEF RolesAndPermissions
<1>2. db \in Databases
  BY DEF UpgradeInv, UpgradeTypeOK
<1>3. new \in Databases /\ new.origin = db.origin /\ new.hosts = db.hosts /\ SameRows(new, db)
  BY <1>2 DEF Databases, SameRows, SystemRoles, Menus
<1>4. pc \in Steps /\ "grants" \in Places \ (Open \cup {"owners"})
  BY <1>1 DEF Steps, After, Places, Open, Rebuilding
<1> QED
  BY <1>1, <1>3, <1>4, SkipKeeps, OtherFieldsKeep

LEMMA GrantMenusKeeps == UpgradeInv /\ GrantMenus => UpgradeInv'
<1> SUFFICES ASSUME UpgradeInv, GrantMenus PROVE UpgradeInv'
  OBVIOUS
<1> DEFINE given == {"admin", "user"} \X {"menus", "menu.migration"}
           new == [db EXCEPT !.grants = @ \cup given \cup {<<"readonly", "menus">>}]
<1>1. Commit(new, "accounts")
  BY DEF GrantMenus
<1>2. db \in Databases
  BY DEF UpgradeInv, UpgradeTypeOK
<1>3. given \cup {<<"readonly", "menus">>} \subseteq SystemRoles \X Menus
  BY DEF SystemRoles, Menus
<1>4. new \in Databases /\ new.origin = db.origin /\ new.hosts = db.hosts /\ SameRows(new, db)
  <2> HIDE DEF given
  <2> QED
    BY <1>2, <1>3 DEF Databases, SameRows
<1>5. "accounts" \in Places \ (Open \cup {"owners"})
  BY DEF Steps, After, Places, Open, Rebuilding
<1> QED
  BY <1>1, <1>4, <1>5, OtherFieldsKeep

LEMMA AddAccountKeeps == UpgradeInv /\ AddAccount => UpgradeInv'
<1> SUFFICES ASSUME UpgradeInv, AddAccount PROVE UpgradeInv'
  OBVIOUS
<1>1. pc = "accounts"
  BY DEF AddAccount
<1>2. db \in Databases
  BY DEF UpgradeInv, UpgradeTypeOK
<1>3. pc \in Steps /\ pc \in Places \ (Open \cup {"owners"})
  BY <1>1 DEF Steps, After, Places, Open, Rebuilding
<1>4. CASE \E u \in db.users : Commit([db EXCEPT !.holders = @ \cup {<<u, RoleOf(u)>>}], pc)
  <2>1. PICK u \in db.users : Commit([db EXCEPT !.holders = @ \cup {<<u, RoleOf(u)>>}], pc)
    BY <1>4
  <2> DEFINE new == [db EXCEPT !.holders = @ \cup {<<u, RoleOf(u)>>}]
  <2>2. <<u, RoleOf(u)>> \in Accounts \X SystemRoles
    BY <1>2 DEF Databases, RoleOf, SystemRoles
  <2>3. new \in Databases /\ new.origin = db.origin /\ new.hosts = db.hosts /\ SameRows(new, db)
    BY <1>2, <2>2 DEF Databases, SameRows
  <2> QED
    BY <1>3, <2>1, <2>3, OtherFieldsKeep
<1>5. CASE Skip(After[pc])
  BY <1>3, <1>5, SkipKeeps
<1>6. CASE \E u \in NewAccounts : Commit([db EXCEPT !.users = @ \cup {u}], pc)
  <2>1. PICK u \in NewAccounts : Commit([db EXCEPT !.users = @ \cup {u}], pc)
    BY <1>6
  <2> DEFINE new == [db EXCEPT !.users = @ \cup {u}]
  <2>2. u \in Accounts
    BY DEF NewAccounts, Accounts
  <2>3. new \in Databases /\ new.origin = db.origin /\ new.hosts = db.hosts /\ SameRows(new, db)
    BY <1>2, <2>2 DEF Databases, SameRows
  <2> QED
    BY <1>3, <2>1, <2>3, OtherFieldsKeep
<1> QED
  BY <1>4, <1>5, <1>6 DEF AddAccount

LEMMA AddLinkColumnKeeps == UpgradeInv /\ AddLinkColumn => UpgradeInv'
<1> SUFFICES ASSUME UpgradeInv, AddLinkColumn PROVE UpgradeInv'
  OBVIOUS
<1> DEFINE new == [db EXCEPT !.cols = @ \cup Range(LinkColumns)]
<1>1. Commit(new, "config_tasks")
  BY DEF AddLinkColumn
<1>2. db \in Databases
  BY DEF UpgradeInv, UpgradeTypeOK
<1>3. new \in Databases /\ new.origin = db.origin /\ new.hosts = db.hosts /\ SameRows(new, db)
  BY <1>2, ColumnsTyped DEF Databases, SameRows
<1>4. "config_tasks" \in Places \ (Open \cup {"owners"})
  BY DEF Steps, After, Places, Open, Rebuilding
<1> QED
  BY <1>1, <1>3, <1>4, OtherFieldsKeep

LEMMA FillRegistriesKeeps == UpgradeInv /\ FillRegistries => UpgradeInv'
<1> SUFFICES ASSUME UpgradeInv, FillRegistries PROVE UpgradeInv'
  OBVIOUS
<1> DEFINE new == [db EXCEPT !.registries = @ \cup Ids(db.teams)]
<1>1. pc = "registries" /\ (Skip(After[pc]) \/ Commit(new, After[pc]))
  BY DEF FillRegistries, Skip
<1>2. db \in Databases
  BY DEF UpgradeInv, UpgradeTypeOK
<1>3. Ids(db.teams) \subseteq Nat
  BY <1>2 DEF Databases, Ids, TeamRows
<1>4. new \in Databases /\ new.origin = db.origin /\ new.hosts = db.hosts /\ SameRows(new, db)
  BY <1>2, <1>3 DEF Databases, SameRows
<1>5. pc \in Steps
  BY <1>1 DEF Steps, After
<1> QED
  BY <1>1, <1>4, <1>5, SkipKeeps, AfterIsOutside, OtherFieldsKeep

LEMMA RecordTemplatesKeeps == UpgradeInv /\ RecordTemplates => UpgradeInv'
<1> SUFFICES ASSUME UpgradeInv, RecordTemplates PROVE UpgradeInv'
  OBVIOUS
<1> DEFINE team == IF db.teams = {} THEN Null ELSE First(db.teams).id
           new == [db EXCEPT !.templates = UserTemplates \X {team}]
<1>1. pc = "templates" /\ (Skip(After[pc]) \/ Commit(new, After[pc]))
  BY DEF RecordTemplates, Skip
<1>2. db \in Databases
  BY DEF UpgradeInv, UpgradeTypeOK
<1>3. UserTemplates \X {team} \subseteq STRING \X OptId
  <2>1. \A t \in db.teams : t.id \in Nat
    BY <1>2 DEF Databases, TeamRows
  <2>2. team \in OptId
    BY <2>1, FirstIsFirst DEF OptId
  <2> QED
    BY <2>2, ReleasesAssumption DEF ReleasesOK
<1>4. new \in Databases /\ new.origin = db.origin /\ new.hosts = db.hosts /\ SameRows(new, db)
  <2> HIDE DEF team
  <2> QED
    BY <1>2, <1>3 DEF Databases, SameRows
<1>5. pc \in Steps
  BY <1>1 DEF Steps, After
<1> QED
  BY <1>1, <1>4, <1>5, SkipKeeps, AfterIsOutside, OtherFieldsKeep

LEMMA MigrationMenuKeeps == UpgradeInv /\ MigrationMenu => UpgradeInv'
<1> SUFFICES ASSUME UpgradeInv, MigrationMenu PROVE UpgradeInv'
  OBVIOUS
<1> DEFINE given == (db.roles \cap {"admin", "user"}) \X {"menu.migration"}
           new == [db EXCEPT !.cols = @ \cup Range(MigrationColumns),
                             !.perms = @ \cup {"menu.migration"},
                             !.grants = @ \cup given]
<1>1. pc = "migration_menu" /\ Commit(new, After[pc])
  BY DEF MigrationMenu
<1>2. db \in Databases
  BY DEF UpgradeInv, UpgradeTypeOK
<1>3. given \subseteq SystemRoles \X Menus /\ "menu.migration" \in Menus
  BY DEF SystemRoles, Menus
<1>4. new \in Databases /\ new.origin = db.origin /\ new.hosts = db.hosts /\ SameRows(new, db)
  <2> HIDE DEF given
  <2> QED
    BY <1>2, <1>3, ColumnsTyped DEF Databases, SameRows
<1>5. pc \in Steps
  BY <1>1 DEF Steps, After
<1> QED
  BY <1>1, <1>4, <1>5, AfterIsOutside, OtherFieldsKeep

LEMMA ApprovalMenuKeeps == UpgradeInv /\ ApprovalMenu => UpgradeInv'
<1> SUFFICES ASSUME UpgradeInv, ApprovalMenu PROVE UpgradeInv'
  OBVIOUS
<1> DEFINE given == (db.roles \cap {"admin", "user"}) \X {"menu.team-requests"}
           new == [db EXCEPT !.perms = @ \cup {"menu.team-requests"},
                             !.grants = @ \cup given]
<1>1. pc = "approval_menu" /\ Commit(new, After[pc])
  BY DEF ApprovalMenu
<1>2. db \in Databases
  BY DEF UpgradeInv, UpgradeTypeOK
<1>3. given \subseteq SystemRoles \X Menus /\ "menu.team-requests" \in Menus
  BY DEF SystemRoles, Menus
<1>4. new \in Databases /\ new.origin = db.origin /\ new.hosts = db.hosts /\ SameRows(new, db)
  <2> HIDE DEF given
  <2> QED
    BY <1>2, <1>3 DEF Databases, SameRows
<1>5. pc \in Steps
  BY <1>1 DEF Steps, After
<1> QED
  BY <1>1, <1>4, <1>5, AfterIsOutside, OtherFieldsKeep

-----------------------------------------------------------------------------
(***************************************************************************)
(* The rebuilding of agent_hosts: until the commit of the renaming, db has *)
(* what it had and open has the hosts in one of the two tables.            *)
(***************************************************************************)
\* A statement whose transaction leaves the rows alone, with the hosts in hand.
LEMMA StatementKeeps ==
  ASSUME UpgradeInv, NEW new \in Databases, NEW s \in Rebuilding, Statement(new, db, s),
         todo = {}, new.origin = db.origin, SameRows(new, db),
         IF s = "copy" THEN new.hosts = db.hosts ELSE new.spare = db.hosts
  PROVE  UpgradeInv'
<1>1. db' = db /\ open' = new /\ todo' = {} /\ pc' = s
  BY DEF Statement
<1>2. s \in Places
  BY DEF Rebuilding, Places, Steps, After
<1>3. UpgradeTypeOK'
  BY <1>1, <1>2 DEF UpgradeInv, UpgradeTypeOK, Statement, Places
<1>4. OpenInv' /\ MoveInv' /\ MergeInv'
  BY <1>1 DEF OpenInv, MoveInv, MergeInv, Open, Rebuilding, SameRows
<1>5. DbInv'
  BY <1>1 DEF UpgradeInv, DbInv, HostsKept, Rebuilding, Sound, Hinted, Keyed, Sourced, TeamsExistIn,
       ContentIn, HistoryIn
<1> QED
  BY <1>3, <1>4, <1>5 DEF UpgradeInv

LEMMA CreateSpareKeeps == UpgradeInv /\ CreateSpare => UpgradeInv'
<1> SUFFICES ASSUME UpgradeInv, CreateSpare PROVE UpgradeInv'
  OBVIOUS
<1>1. pc = "token_nullable" /\ pc \in Steps
  BY DEF CreateSpare, Steps, After
<1>2. open = db /\ todo = {} /\ db \in Databases
  BY <1>1 DEF UpgradeInv, UpgradeTypeOK, OpenInv, Open, Rebuilding
<1> DEFINE new == [db EXCEPT !.spareTable = TRUE, !.spare = {}]
<1>3. new \in Databases /\ new.origin = db.origin /\ new.hosts = db.hosts /\ SameRows(new, db)
  BY <1>2 DEF Databases, SameRows
<1>4. CASE Skip(After[pc])
  BY <1>1, <1>4, SkipKeeps
<1>5. CASE Statement(new, new, "copy")
  <2>1. db' = new /\ open' = new /\ todo' = {} /\ pc' = "copy"
    BY <1>2, <1>5 DEF Statement
  <2>2. UpgradeTypeOK'
    BY <1>3, <1>5, <2>1 DEF UpgradeInv, UpgradeTypeOK, Statement, Steps, After
  <2>3. OpenInv' /\ MoveInv' /\ MergeInv'
    BY <2>1 DEF OpenInv, MoveInv, MergeInv, Open, Rebuilding, SameRows
  <2>4. Sound(new) /\ Hinted(new)
    BY <1>3, SameRowsKept DEF UpgradeInv, DbInv
  <2>5. HostsKept'
    BY <1>3, <2>1 DEF UpgradeInv, DbInv, HostsKept
  <2>6. DbInv'
    BY <2>1, <2>4, <2>5 DEF DbInv, Sound, Hinted, Keyed, Sourced, TeamsExistIn, ContentIn, HistoryIn
  <2> QED
    BY <2>2, <2>3, <2>6 DEF UpgradeInv
<1> QED
  BY <1>1, <1>2, <1>4, <1>5 DEF CreateSpare, Ddl, InTransaction

LEMMA CopyHostsKeeps == UpgradeInv /\ CopyHosts => UpgradeInv'
<1> SUFFICES ASSUME UpgradeInv, CopyHosts PROVE UpgradeInv'
  OBVIOUS
<1> DEFINE new == [open EXCEPT !.spare = open.hosts]
<1>1. pc = "copy" /\ Statement(new, db, "drop")
  BY DEF CopyHosts
<1>2. /\ open \in Databases /\ open.origin = db.origin /\ open.hosts = db.hosts
      /\ SameRows(open, db) /\ todo = {}
  BY <1>1 DEF UpgradeInv, UpgradeTypeOK, OpenInv, Rebuilding
<1>3. new \in Databases /\ new.origin = db.origin /\ new.spare = db.hosts /\ SameRows(new, db)
  BY <1>2 DEF Databases, SameRows
<1> QED
  BY <1>1, <1>2, <1>3, StatementKeeps DEF Rebuilding

LEMMA DropHostsKeeps == UpgradeInv /\ DropHosts => UpgradeInv'
<1> SUFFICES ASSUME UpgradeInv, DropHosts PROVE UpgradeInv'
  OBVIOUS
<1> DEFINE new == [open EXCEPT !.tables = @ \ {"agent_hosts"}, !.hosts = {},
                               !.cols = {c \in @ : c[1] # "agent_hosts"}, !.strict = FALSE]
<1>1. pc = "drop" /\ Statement(new, db, "rename")
  BY DEF DropHosts, Ddl, InTransaction
<1>2. /\ open \in Databases /\ open.origin = db.origin /\ open.spare = db.hosts
      /\ SameRows(open, db) /\ todo = {}
  BY <1>1 DEF UpgradeInv, UpgradeTypeOK, OpenInv, Rebuilding
<1>3. new \in Databases /\ new.origin = db.origin /\ new.spare = db.hosts /\ SameRows(new, db)
  BY <1>2 DEF Databases, SameRows
<1> QED
  BY <1>1, <1>2, <1>3, StatementKeeps DEF Rebuilding

LEMMA RenameSpareKeeps == UpgradeInv /\ RenameSpare => UpgradeInv'
<1> SUFFICES ASSUME UpgradeInv, RenameSpare PROVE UpgradeInv'
  OBVIOUS
<1> DEFINE new == [open EXCEPT !.tables = @ \cup {"agent_hosts"}, !.strict = FALSE,
                               !.hosts = open.spare, !.spareTable = FALSE, !.spare = {},
                               !.cols = @ \cup RebuiltColumns]
<1>1. pc = "rename" /\ Commit(new, After[pc])
  BY DEF RenameSpare
<1>2. /\ open \in Databases /\ open.origin = db.origin /\ open.spare = db.hosts
      /\ SameRows(open, db)
  BY <1>1 DEF UpgradeInv, UpgradeTypeOK, OpenInv, Rebuilding
<1>3. new \in Databases /\ new.origin = db.origin /\ new.hosts = db.hosts /\ SameRows(new, db)
  BY <1>2, ColumnsTyped DEF Databases, SameRows
<1>4. pc \in Steps
  BY <1>1 DEF Steps, After
<1> QED
  BY <1>1, <1>3, <1>4, AfterIsOutside, OtherFieldsKeep

-----------------------------------------------------------------------------
(***************************************************************************)
(* Configurations become rows of deploy_configs.                           *)
(***************************************************************************)
\* A new configuration, for no team, takes nothing from what is there.
LEMMA ConfigAdded ==
  ASSUME NEW d \in Databases, NEW c \in ConfigRows, c.team = Null, Sound(d), Hinted(d)
  PROVE  LET e == [d EXCEPT !.configs = @ \cup {c}]
         IN  /\ e \in Databases /\ e.configs = d.configs \cup {c} /\ e.tasks = d.tasks
             /\ e.origin = d.origin /\ e.hosts = d.hosts
             /\ Sound(e) /\ Hinted(e) /\ e.members = d.members /\ e.teams = d.teams
<1> DEFINE e == [d EXCEPT !.configs = @ \cup {c}]
<1>1. /\ e \in Databases /\ e.configs = d.configs \cup {c} /\ e.tasks = d.tasks
      /\ e.origin = d.origin /\ e.hosts = d.hosts /\ e.rows = d.rows /\ e.teams = d.teams
      /\ e.members = d.members /\ e.done = d.done
  BY DEF Databases
<1> HIDE DEF e
<1>2. Keyed(e) /\ Sourced(e) /\ HistoryIn(e) /\ Hinted(e)
  BY <1>1 DEF Sound, Keyed, Sourced, HistoryIn, Hinted
<1>3. TeamsExistIn(e)
  BY <1>1 DEF Sound, TeamsExistIn
<1>4. ContentIn(e)
  BY <1>1 DEF Sound, ContentIn
<1>5. Sound(e)
  BY <1>2, <1>3, <1>4 DEF Sound
<1> QED
  BY <1>1, <1>2, <1>5 DEF e

\* The executions of t find its content in configuration id; what else there is keeps
\* its team and its content.
LEMMA RepointKeeps ==
  ASSUME NEW d \in Databases, NEW t \in d.tasks, NEW id \in Nat, Sound(d), Hinted(d),
         \E c \in d.configs : c.id = id /\ c.content = t.content
  PROVE  LET e == Repoint(d, t, id)
         IN  /\ e \in Databases /\ e.origin = d.origin /\ e.hosts = d.hosts
             /\ Sound(e) /\ Hinted(e) /\ e.members = d.members /\ e.teams = d.teams
             /\ \A u \in d.tasks \ {t} : u.source = Null => u \in e.tasks
<1> DEFINE Moved(u) == IF u.source = t.id THEN [u EXCEPT !.config = id] ELSE u
           e == Repoint(d, t, id)
<1>1. d.tasks \subseteq StoredTasks
  BY DEF Databases
<1>2. /\ e.tasks = {Moved(u) : u \in d.tasks \ {t}} /\ e.origin = d.origin /\ e.hosts = d.hosts
      /\ e.configs = d.configs /\ e.rows = d.rows /\ e.teams = d.teams
      /\ e.members = d.members /\ e.done = d.done
  BY DEF Databases, Repoint
<1>3. \A u \in d.tasks :
         /\ Moved(u) \in StoredTasks
         /\ Moved(u).id = u.id /\ Moved(u).source = u.source /\ Moved(u).content = u.content
         /\ Moved(u).team = u.team /\ Moved(u).hint = u.hint
         /\ Moved(u).config = IF u.source = t.id THEN id ELSE u.config
  BY <1>1 DEF StoredTasks, OptId
<1>4. e \in Databases
  <2>1. {Moved(u) : u \in d.tasks \ {t}} \subseteq StoredTasks
    BY <1>3
  <2> QED
    BY <2>1 DEF Databases, Repoint
<1>5. \A u \in d.tasks \ {t} : u.source = Null => u \in e.tasks
  BY <1>1, <1>2, NullIsNone DEF StoredTasks
<1> HIDE DEF e, Moved
<1>6. \A v \in e.tasks : \E u \in d.tasks \ {t} : v = Moved(u)
  BY <1>2
<1>7. Keyed(e)
  BY <1>2 DEF Sound, Keyed
<1>8. Sourced(e)
  <2> SUFFICES ASSUME NEW v \in e.tasks, NEW w \in e.tasks, v.source = w.id
               PROVE  v.content = w.content
    BY DEF Sourced
  <2>1. PICK a \in d.tasks : v = Moved(a)
    BY <1>6
  <2>2. PICK b \in d.tasks : w = Moved(b)
    BY <1>6
  <2> QED
    BY <1>3, <2>1, <2>2 DEF Sound, Sourced
<1>9. TeamsExistIn(e)
  BY <1>2, <1>3, <1>6 DEF Sound, TeamsExistIn
<1>10. HistoryIn(e) /\ Hinted(e)
  BY <1>2, <1>3, <1>6 DEF Sound, HistoryIn, Hinted
<1>11. ContentIn(e)
  <2> SUFFICES ASSUME NEW v \in e.tasks, v.source # Null
               PROVE  \/ /\ v.config = Null
                         /\ \E w \in e.tasks : w.id = v.source /\ w.content = v.content
                      \/ \E c \in e.configs : c.id = v.config /\ c.content = v.content
    BY DEF ContentIn
  <2>1. PICK a \in d.tasks \ {t} : v = Moved(a)
    BY <1>6
  <2>2. a.source # Null /\ v.source = a.source /\ v.content = a.content
    BY <1>3, <2>1
  <2>3. CASE a.source = t.id
    <3>1. v.config = id /\ a.content = t.content
      BY <1>3, <2>1, <2>3 DEF Sound, Sourced
    <3> QED
      BY <1>2, <2>2, <3>1
  <2>4. CASE a.source # t.id
    <3>1. v.config = a.config
      BY <1>3, <2>1, <2>4
    <3>2. CASE \E c \in d.configs : c.id = a.config /\ c.content = a.content
      BY <1>2, <2>2, <3>1, <3>2
    <3>3. CASE a.config = Null /\ \E b \in d.tasks : b.id = a.source /\ b.content = a.content
      <4>1. PICK b \in d.tasks : b.id = a.source /\ b.content = a.content
        BY <3>3
      <4>2. b # t
        BY <2>4, <4>1
      <4>3. Moved(b) \in e.tasks /\ Moved(b).id = v.source /\ Moved(b).content = v.content
        BY <1>2, <1>3, <2>2, <4>1, <4>2
      <4> QED
        BY <3>1, <3>3, <4>3
    <3> QED
      BY <2>2, <3>2, <3>3 DEF Sound, ContentIn
  <2> QED
    BY <2>3, <2>4
<1>12. Sound(e)
  BY <1>7, <1>8, <1>9, <1>10, <1>11 DEF Sound
<1> QED
  BY <1>2, <1>4, <1>5, <1>10, <1>12 DEF e

LEMMA MoveConfigKeeps ==
  ASSUME NEW d \in Databases, NEW t \in d.tasks, Sound(d), Hinted(d)
  PROVE  LET e == MoveConfig(d, t)
         IN  /\ e \in Databases /\ e.origin = d.origin /\ e.hosts = d.hosts
             /\ Sound(e) /\ Hinted(e) /\ e.members = d.members /\ e.teams = d.teams
             /\ \A u \in d.tasks \ {t} : u.source = Null => u \in e.tasks
<1> DEFINE same == {c \in SameName(d, t) : Reusable(c, t)}
           name == IF SameName(d, t) = {} THEN t.name ELSE <<t.name[1], t.id>>
           new == [id |-> t.id, content |-> t.content, team |-> Null, name |-> name]
<1>1. t \in StoredTasks /\ d.configs \subseteq ConfigRows
  BY DEF Databases
<1>2. CASE same # {}
  <2> DEFINE c == CHOOSE c \in same : TRUE
  <2>1. c \in d.configs /\ c.content = t.content
    BY <1>2 DEF SameName, Reusable
  <2>2. c.id \in Nat
    BY <1>1, <2>1 DEF ConfigRows
  <2>3. MoveConfig(d, t) = Repoint(d, t, c.id)
    BY <1>2 DEF MoveConfig
  <2> HIDE DEF c
  <2> QED
    BY <2>1, <2>2, <2>3, RepointKeeps
<1>3. CASE same = {}
  <2> DEFINE more == [d EXCEPT !.configs = @ \cup {new}]
  <2>1. MoveConfig(d, t) = Repoint(more, t, new.id)
    BY <1>3 DEF MoveConfig
  <2>2. name \in Nat \X Nat
    BY <1>1 DEF StoredTasks
  <2>3. new \in ConfigRows /\ new.team = Null /\ new.id = t.id /\ new.content = t.content
    <3> HIDE DEF name
    <3> QED
      BY <1>1, <2>2 DEF ConfigRows, StoredTasks, OptId
  <2>4. t.id \in Nat
    BY <1>1 DEF StoredTasks
  <2> HIDE DEF new
  <2>5. /\ more \in Databases /\ more.configs = d.configs \cup {new} /\ more.tasks = d.tasks
        /\ more.origin = d.origin /\ more.hosts = d.hosts /\ Sound(more) /\ Hinted(more)
        /\ more.members = d.members /\ more.teams = d.teams
    BY <2>3, ConfigAdded
  <2> HIDE DEF more
  <2> QED
    BY <2>1, <2>3, <2>4, <2>5, RepointKeeps
<1> QED
  BY <1>2, <1>3

LEMMA ReadConfigTasksKeeps == UpgradeInv /\ ReadConfigTasks => UpgradeInv'
<1> SUFFICES ASSUME UpgradeInv, ReadConfigTasks PROVE UpgradeInv'
  OBVIOUS
<1>1. pc = "config_tasks" /\ pc' = "move" /\ db' = db /\ open' = open
  BY DEF ReadConfigTasks
<1>2. open = db
  BY <1>1 DEF UpgradeInv, OpenInv, Open, Rebuilding
<1>3. todo' = {t \in db.tasks : IsConfigTask(t)}
  BY DEF ReadConfigTasks
<1>4. todo' \subseteq StoredTasks \cup TeamRows
  BY <1>3 DEF UpgradeInv, UpgradeTypeOK, Databases
<1>5. UpgradeTypeOK'
  BY <1>1, <1>4 DEF UpgradeInv, UpgradeTypeOK, ReadConfigTasks, Steps, After
<1>6. OpenInv' /\ MergeInv'
  BY <1>1, <1>2 DEF OpenInv, MergeInv, Open, Rebuilding
<1>7. Sound(open') /\ Hinted(open')
  BY <1>1, <1>2 DEF UpgradeInv, DbInv
<1>8. MoveInv'
  BY <1>1, <1>2, <1>3, <1>7 DEF MoveInv, IsConfigTask, Sound, Hinted, Keyed, Sourced,
       TeamsExistIn, ContentIn, HistoryIn
<1>9. DbInv'
  BY <1>1 DEF UpgradeInv, DbInv, HostsKept, Sound, Hinted, Keyed, Sourced, TeamsExistIn,
       ContentIn, HistoryIn
<1> QED
  BY <1>5, <1>6, <1>8, <1>9 DEF UpgradeInv

LEMMA MoveConfigTaskKeeps == ASSUME NEW t \in todo PROVE UpgradeInv /\ MoveConfigTask(t) => UpgradeInv'
<1> SUFFICES ASSUME UpgradeInv, MoveConfigTask(t) PROVE UpgradeInv'
  OBVIOUS
<1>1. pc = "move" /\ pc' = "move" /\ db' = db /\ todo' = todo \ {t}
  BY DEF MoveConfigTask
<1>2. /\ open \in Databases /\ Sound(open) /\ Hinted(open)
      /\ open.origin = db.origin /\ open.hosts = db.hosts
      /\ open.members = db.members /\ open.teams = db.teams
      /\ \A u \in todo : u \in open.tasks /\ IsConfigTask(u)
  BY <1>1 DEF UpgradeInv, UpgradeTypeOK, MoveInv, OpenInv
<1>3. /\ open' \in Databases /\ Sound(open') /\ Hinted(open')
      /\ open'.members = db.members /\ open'.teams = db.teams
      /\ open'.origin = db.origin /\ open'.hosts = db.hosts
      /\ \A u \in todo \ {t} : u \in open'.tasks /\ IsConfigTask(u)
  <2>1. CASE open' = MoveConfig(open, t)
    BY <1>2, <2>1, MoveConfigKeeps DEF IsConfigTask
  <2>2. CASE open' = open
    BY <1>2, <2>2
  <2> QED
    BY <2>1, <2>2 DEF MoveConfigTask
<1>4. failures' \in 0..MaxFailures
  BY ReleasesAssumption DEF MoveConfigTask, UpgradeInv, UpgradeTypeOK, ReleasesOK
<1>5. UpgradeTypeOK'
  BY <1>1, <1>3, <1>4 DEF UpgradeInv, UpgradeTypeOK, MoveConfigTask
<1>6. OpenInv' /\ MergeInv'
  BY <1>1, <1>3 DEF OpenInv, MergeInv, Open, Rebuilding
<1>7. MoveInv'
  BY <1>1, <1>3 DEF MoveInv, IsConfigTask, Sound, Hinted, Keyed, Sourced, TeamsExistIn, ContentIn,
       HistoryIn
<1>8. DbInv'
  BY <1>1 DEF UpgradeInv, DbInv, HostsKept, Sound, Hinted, Keyed, Sourced, TeamsExistIn,
       ContentIn, HistoryIn
<1> QED
  BY <1>5, <1>6, <1>7, <1>8 DEF UpgradeInv

LEMMA CommitMovesKeeps == UpgradeInv /\ CommitMoves => UpgradeInv'
<1> SUFFICES ASSUME UpgradeInv, CommitMoves PROVE UpgradeInv'
  OBVIOUS
<1>1. pc = "move" /\ pc \in Steps /\ Commit(open, After[pc])
  BY DEF CommitMoves, Steps, After
<1>2. /\ open \in Databases /\ Sound(open) /\ Hinted(open)
      /\ open.origin = db.origin /\ open.hosts = db.hosts
  BY <1>1 DEF UpgradeInv, UpgradeTypeOK, MoveInv, OpenInv
<1> QED
  BY <1>1, <1>2, AfterIsOutside, CommitKeeps

-----------------------------------------------------------------------------
(***************************************************************************)
(* One default team, and the history for it.                               *)
(***************************************************************************)
WithTeams(d, T, M) == [d EXCEPT !.teams = T, !.members = M]

\* Teams may be added, and their names and slugs may change.
LEMMA TeamsGrow ==
  ASSUME NEW d \in Databases, NEW T \in SUBSET TeamRows, NEW M \in SUBSET MemberRows,
         Sound(d), Hinted(d), IsFiniteSet(T), \A t, u \in T : t.id = u.id => t = u,
         Ids(d.teams) \subseteq Ids(T), \A m \in M : m.team \in Ids(T)
  PROVE  LET e == WithTeams(d, T, M)
         IN  /\ e \in Databases /\ e.teams = T /\ e.members = M
             /\ e.origin = d.origin /\ e.hosts = d.hosts /\ Sound(e) /\ Hinted(e)
<1> DEFINE e == WithTeams(d, T, M)
<1>1. /\ e \in Databases /\ e.configs = d.configs /\ e.tasks = d.tasks
      /\ e.origin = d.origin /\ e.hosts = d.hosts /\ e.rows = d.rows /\ e.teams = T
      /\ e.members = M /\ e.done = d.done
  BY DEF Databases, WithTeams
<1> HIDE DEF e
<1>2. Keyed(e)
  BY <1>1 DEF Keyed
<1>3. Sourced(e) /\ HistoryIn(e) /\ ContentIn(e)
  BY <1>1 DEF Sound, Sourced, HistoryIn, ContentIn
<1>4. Hinted(e)
  BY <1>1 DEF Hinted
<1>5. TeamsExistIn(e)
  BY <1>1 DEF Sound, TeamsExistIn
<1> QED
  BY <1>1, <1>2, <1>3, <1>4, <1>5 DEF Sound, e

LEMMA MembersTyped ==
  ASSUME NEW d \in Databases, Sound(d)
  PROVE  d.members \in SUBSET MemberRows /\ d.teams \in SUBSET TeamRows
         /\ IsFiniteSet(d.teams) /\ (\A t, u \in d.teams : t.id = u.id => t = u)
         /\ (\A m \in d.members : m.team \in Ids(d.teams))
         /\ Ids(d.teams) \subseteq Nat
BY DEF Databases, Sound, Keyed, TeamsExistIn, Ids, TeamRows

\* Replacing the row of a team by one of the same id, or adding one of a new id.
LEMMA TeamReplaced ==
  ASSUME NEW T \in SUBSET TeamRows, IsFiniteSet(T), \A t, u \in T : t.id = u.id => t = u,
         NEW k \in T, NEW n \in TeamRows, n.id = k.id
  PROVE  LET U == (T \ {k}) \cup {n}
         IN  /\ U \in SUBSET TeamRows /\ IsFiniteSet(U)
             /\ \A t, u \in U : t.id = u.id => t = u
             /\ Ids(U) = Ids(T)
<1> DEFINE U == (T \ {k}) \cup {n}
<1>1. IsFiniteSet(U)
  BY FS_RemoveElement, FS_AddElement
<1>2. Ids(U) = Ids(T)
  BY DEF Ids
<1> QED
  BY <1>1, <1>2

LEMMA TeamAdded ==
  ASSUME NEW T \in SUBSET TeamRows, IsFiniteSet(T), \A t, u \in T : t.id = u.id => t = u,
         NEW n \in TeamRows, n.id \notin Ids(T)
  PROVE  LET U == T \cup {n}
         IN  /\ U \in SUBSET TeamRows /\ IsFiniteSet(U)
             /\ \A t, u \in U : t.id = u.id => t = u
             /\ Ids(T) \subseteq Ids(U)
             /\ n.id \in Ids(U)
<1> DEFINE U == T \cup {n}
<1>1. IsFiniteSet(U)
  BY FS_AddElement
<1>2. Ids(T) \subseteq Ids(U) /\ n.id \in Ids(U)
  BY DEF Ids
<1>3. \A t, u \in U : t.id = u.id => t = u
  BY DEF Ids
<1> QED
  BY <1>1, <1>2, <1>3

\* Members stay with teams that stay.
LEMMA MembersStay ==
  ASSUME NEW d, NEW e, Sound(d), d.members \subseteq e.members, Ids(d.teams) \subseteq Ids(e.teams)
  PROVE  KeepsMembers(d, e)
BY DEF Sound, TeamsExistIn, KeepsMembers

LEMMA WithDefaultTeamKeeps ==
  ASSUME NEW d \in Databases, Sound(d), Hinted(d)
  PROVE  LET e == WithDefaultTeam(d)
         IN  /\ e \in Databases /\ e.origin = d.origin /\ e.hosts = d.hosts
             /\ Sound(e) /\ BySlug(e) # {} /\ KeepsMembers(d, e)
<1> DEFINE e == WithDefaultTeam(d)
<1>1. /\ d.members \in SUBSET MemberRows /\ d.teams \in SUBSET TeamRows
      /\ IsFiniteSet(d.teams) /\ (\A t, u \in d.teams : t.id = u.id => t = u)
      /\ (\A m \in d.members : m.team \in Ids(d.teams))
  BY MembersTyped
<1>2. CASE BySlug(d) \cup ByName(d) # {}
  <2> DEFINE k == KeptTeam(d)
             n == [k EXCEPT !.slug = Default]
             T == (d.teams \ {k}) \cup {n}
  <2>1. k \in d.teams
    <3> DEFINE S == IF BySlug(d) # {} THEN BySlug(d) ELSE ByName(d)
    <3>1. S # {} /\ S \subseteq d.teams
      BY <1>2 DEF BySlug, ByName
    <3>2. \A t \in S : t.id \in Nat
      BY <1>1, <3>1 DEF TeamRows
    <3> HIDE DEF S
    <3>3. First(S) \in S
      BY <3>1, <3>2, FirstIsFirst
    <3> QED
      BY <3>1, <3>3 DEF KeptTeam, S
  <2>2. e = WithTeams(d, T, d.members)
    BY <1>2 DEF WithDefaultTeam, WithTeams, Databases
  <2> HIDE DEF k
  <2>3. n \in TeamRows /\ n.id = k.id /\ n.slug = Default
    BY <1>1, <2>1 DEF TeamRows
  <2> HIDE DEF n
  <2>4. /\ T \in SUBSET TeamRows /\ IsFiniteSet(T)
        /\ (\A t, u \in T : t.id = u.id => t = u)
        /\ Ids(T) = Ids(d.teams)
    BY <1>1, <2>1, <2>3, TeamReplaced
  <2>5. n \in T
    OBVIOUS
  <2> HIDE DEF T
  <2>6. /\ e \in Databases /\ e.teams = T /\ e.members = d.members /\ e.origin = d.origin /\ e.hosts = d.hosts
        /\ Sound(e)
    BY <1>1, <2>2, <2>4, TeamsGrow
  <2> QED
    BY <2>3, <2>4, <2>5, <2>6, MembersStay DEF BySlug
<1>3. CASE BySlug(d) \cup ByName(d) = {}
  <2> DEFINE n == [id |-> NewId(d.teams), name |-> DefaultName, slug |-> Default]
             T == d.teams \cup {n}
  <2>1. e = WithTeams(d, T, d.members)
    BY <1>3 DEF WithDefaultTeam, WithTeams, Databases
  <2>2. NewId(d.teams) \in Nat /\ NewId(d.teams) \notin Ids(d.teams)
    BY <1>1, NewIdIsNew
  <2>3. n \in TeamRows /\ n.id \notin Ids(d.teams) /\ n.slug = Default
    BY <2>2 DEF TeamRows
  <2> HIDE DEF n
  <2>4. /\ T \in SUBSET TeamRows /\ IsFiniteSet(T)
        /\ (\A t, u \in T : t.id = u.id => t = u)
        /\ Ids(d.teams) \subseteq Ids(T)
    BY <1>1, <2>3, TeamAdded
  <2>5. n \in T
    OBVIOUS
  <2> HIDE DEF T
  <2>6. /\ e \in Databases /\ e.teams = T /\ e.members = d.members /\ e.origin = d.origin /\ e.hosts = d.hosts
        /\ Sound(e)
    BY <1>1, <2>1, <2>4, TeamsGrow
  <2> QED
    BY <2>3, <2>4, <2>5, <2>6, MembersStay DEF BySlug
<1> QED
  BY <1>2, <1>3

LEMMA KeepDefaultTeamKeeps == UpgradeInv /\ KeepDefaultTeam => UpgradeInv'
<1> SUFFICES ASSUME UpgradeInv, KeepDefaultTeam PROVE UpgradeInv'
  OBVIOUS
<1>1. pc = "default_team" /\ pc \in Steps
  BY DEF KeepDefaultTeam, Steps, After
<1>2. CASE Skip(After[pc])
  BY <1>1, <1>2, SkipKeeps
<1>3. CASE /\ open' = WithDefaultTeam(db)
           /\ todo' = {t \in ByName(open') : t.id # DefaultTeamId(open')}
           /\ pc' = "merge"
           /\ UNCHANGED <<db, starts, failures, changes>>
  <2>1. db \in Databases /\ Sound(db) /\ Hinted(db)
    BY DEF UpgradeInv, UpgradeTypeOK, DbInv
  <2>2. /\ open' \in Databases /\ open'.origin = db.origin /\ open'.hosts = db.hosts
        /\ Sound(open') /\ BySlug(open') # {} /\ KeepsMembers(db, open')
    BY <1>3, <2>1, WithDefaultTeamKeeps
  <2>3. todo' \subseteq StoredTasks \cup TeamRows
    BY <1>3, <2>2 DEF ByName, Databases
  <2>4. UpgradeTypeOK'
    BY <1>3, <2>2, <2>3 DEF UpgradeInv, UpgradeTypeOK, Steps, After
  <2>5. OpenInv' /\ MoveInv'
    BY <1>3, <2>2 DEF OpenInv, MoveInv, Open, Rebuilding
  <2>6. MergeInv'
    BY <1>3, <2>2 DEF MergeInv, BySlug, ByName, DefaultTeamId, Sound, Keyed, Sourced,
         TeamsExistIn, ContentIn, HistoryIn, KeepsMembers
  <2>7. DbInv'
    BY <1>3 DEF UpgradeInv, DbInv, HostsKept, Sound, Hinted, Keyed, Sourced, TeamsExistIn,
         ContentIn, HistoryIn
  <2> QED
    BY <2>4, <2>5, <2>6, <2>7 DEF UpgradeInv
<1> QED
  BY <1>2, <1>3 DEF KeepDefaultTeam

\* What becomes of a task keeps what it is and what it was made from.
SameTask(v, u) == v.id = u.id /\ v.source = u.source /\ v.config = u.config /\ v.content = u.content

LEMMA ContentKept ==
  ASSUME NEW d, NEW e, Sourced(d), ContentIn(d),
         \A v \in e.tasks : \E u \in d.tasks : SameTask(v, u),
         \A u \in d.tasks : \E v \in e.tasks : SameTask(v, u),
         \A c \in d.configs : \E b \in e.configs : b.id = c.id /\ b.content = c.content
  PROVE  Sourced(e) /\ ContentIn(e)
<1>1. Sourced(e)
  BY DEF Sourced, SameTask
<1>2. ContentIn(e)
  <2> SUFFICES ASSUME NEW v \in e.tasks, v.source # Null
               PROVE  \/ /\ v.config = Null
                         /\ \E w \in e.tasks : w.id = v.source /\ w.content = v.content
                      \/ \E c \in e.configs : c.id = v.config /\ c.content = v.content
    BY DEF ContentIn
  <2>1. PICK a \in d.tasks : SameTask(v, a)
    OBVIOUS
  <2>2. CASE \E c \in d.configs : c.id = a.config /\ c.content = a.content
    BY <2>1, <2>2 DEF SameTask
  <2>3. CASE a.config = Null /\ \E b \in d.tasks : b.id = a.source /\ b.content = a.content
    BY <2>1, <2>3 DEF SameTask
  <2> QED
    BY <2>1, <2>2, <2>3 DEF ContentIn, SameTask
<1> QED
  BY <1>1, <1>2

\* Rows of a team that is merged go to the default team, and so do its members.
LEMMA MergeTeamKeeps ==
  ASSUME NEW d \in Databases, Sound(d), BySlug(d) # {},
         NEW x \in d.teams, x.id # DefaultTeamId(d)
  PROVE  LET e == MergeTeam(d, DefaultTeamId(d), x.id)
         IN  /\ e \in Databases /\ e.origin = d.origin /\ e.hosts = d.hosts
             /\ e.teams = d.teams \ {x}
             /\ Sound(e) /\ BySlug(e) # {} /\ DefaultTeamId(e) = DefaultTeamId(d)
             /\ \A m \in d.members : \E n \in e.members :
                   /\ n.user = m.user
                   /\ m.role = "owner" => n.role = "owner"
                   /\ n.team = IF m.team = x.id THEN DefaultTeamId(d) ELSE m.team
<1> DEFINE k == DefaultTeamId(d)
           Given(s) == [s EXCEPT !.team = IF @ = x.id THEN k ELSE @]
           mine == {m \in d.members : m.team = x.id}
           Raised(m) == [team |-> x.id, user |-> m.user, role |-> "owner"] \in mine
           Stay(m) == [m EXCEPT !.role = IF m.team = k /\ Raised(m) THEN "owner" ELSE @]
           stay == {Stay(m) : m \in d.members \ mine}
           joining == {n \in mine : \A o \in stay : o.team = k => o.user # n.user}
           Join(m) == [m EXCEPT !.team = k]
           join == {Join(m) : m \in joining}
           e == MergeTeam(d, k, x.id)
<1>1. /\ First(BySlug(d)) \in BySlug(d) /\ k = First(BySlug(d)).id
      /\ \A t \in BySlug(d) : k <= t.id
      /\ k \in Ids(d.teams) /\ k \in Nat
  BY DefaultTeamIsOne DEF DefaultTeamId
<1>2. /\ d.tasks \subseteq StoredTasks /\ d.configs \subseteq ConfigRows
      /\ d.rows \subseteq TeamOwnedRows /\ d.members \subseteq MemberRows
      /\ d.teams \subseteq TeamRows
  BY DEF Databases
<1>3. /\ IsFiniteSet(d.teams) /\ (\A t, u \in d.teams : t.id = u.id => t = u)
  BY DEF Sound, Keyed
<1>4. /\ e.tasks = {Given(s) : s \in d.tasks} /\ e.configs = {Given(s) : s \in d.configs}
      /\ e.rows = {Given(s) : s \in d.rows} /\ e.members = stay \cup join
      /\ e.teams = {t \in d.teams : t.id # x.id}
      /\ e.origin = d.origin /\ e.hosts = d.hosts /\ e.done = d.done
  BY DEF MergeTeam, RepointTeam, Databases
<1>5. e.teams = d.teams \ {x}
  BY <1>3, <1>4
<1>6. /\ \A s \in d.tasks : /\ Given(s) \in StoredTasks /\ SameTask(Given(s), s)
                            /\ Given(s).team = IF s.team = x.id THEN k ELSE s.team
      /\ \A s \in d.configs : /\ Given(s) \in ConfigRows
                              /\ Given(s).id = s.id /\ Given(s).content = s.content
                              /\ Given(s).team = IF s.team = x.id THEN k ELSE s.team
      /\ \A s \in d.rows : /\ Given(s) \in TeamOwnedRows
                           /\ Given(s).team = IF s.team = x.id THEN k ELSE s.team
  <2>1. \A s \in d.tasks : /\ Given(s) \in StoredTasks /\ SameTask(Given(s), s)
                           /\ Given(s).team = IF s.team = x.id THEN k ELSE s.team
    BY <1>1, <1>2 DEF StoredTasks, OptId, SameTask
  <2>2. \A s \in d.configs : /\ Given(s) \in ConfigRows
                             /\ Given(s).id = s.id /\ Given(s).content = s.content
                             /\ Given(s).team = IF s.team = x.id THEN k ELSE s.team
    BY <1>1, <1>2 DEF ConfigRows, OptId
  <2>3. \A s \in d.rows : /\ Given(s) \in TeamOwnedRows
                          /\ Given(s).team = IF s.team = x.id THEN k ELSE s.team
    BY <1>1, <1>2 DEF TeamOwnedRows, OptId
  <2> QED
    BY <2>1, <2>2, <2>3
<1>7. /\ \A m \in d.members : Stay(m) \in MemberRows /\ Stay(m).team = m.team
      /\ \A m \in d.members : Join(m) \in MemberRows /\ Join(m).team = k
  BY <1>1, <1>2 DEF MemberRows
<1>8. \A m \in stay \cup join :
         m \in MemberRows /\ (m.team = k \/ \E n \in d.members : n.team # x.id /\ m.team = n.team)
  <2> HIDE DEF Stay, Join
  <2> QED
    BY <1>7
<1>9. \A m \in d.members : \E n \in stay \cup join :
         /\ n.user = m.user
         /\ m.role = "owner" => n.role = "owner"
         /\ n.team = IF m.team = x.id THEN k ELSE m.team
  <2> SUFFICES ASSUME NEW m \in d.members
               PROVE  \E n \in stay \cup join :
                         /\ n.user = m.user
                         /\ m.role = "owner" => n.role = "owner"
                         /\ n.team = IF m.team = x.id THEN k ELSE m.team
    OBVIOUS
  <2>1. m \in MemberRows
    BY <1>2
  <2>2. \A p \in d.members :
          /\ Stay(p).user = p.user /\ Stay(p).team = p.team
          /\ Stay(p).role = IF p.team = k /\ Raised(p) THEN "owner" ELSE p.role
          /\ Join(p).user = p.user /\ Join(p).team = k /\ Join(p).role = p.role
    <3> HIDE DEF Raised
    <3> QED
      BY <1>2 DEF MemberRows
  <2> HIDE DEF Stay, Join
  <2>3. CASE m \notin mine
    BY <2>2, <2>3
  <2>4. CASE m \in joining
    BY <2>2, <2>4
  <2>5. CASE m \in mine \ joining
    <3>a. PICK o \in stay : o.team = k /\ o.user = m.user
      BY <2>5
    <3>b. PICK p \in d.members \ mine : o = Stay(p)
      BY <3>a
    <3>1. p.team = k /\ p.user = m.user
      <4> HIDE DEF Raised, mine
      <4> QED
        BY <2>2, <3>a, <3>b
    <3>2. m.role = "owner" => m = [team |-> x.id, user |-> p.user, role |-> "owner"]
      BY <2>1, <2>5, <3>1 DEF MemberRows
    <3>3. m.role = "owner" => Raised(p)
      BY <2>5, <3>2
    <3> HIDE DEF Raised
    <3> QED
      BY <2>2, <2>5, <3>1, <3>3
  <2> QED
    BY <2>3, <2>4, <2>5
<1>10. e \in Databases
  <2>1. /\ {Given(s) : s \in d.tasks} \subseteq StoredTasks
        /\ {Given(s) : s \in d.configs} \subseteq ConfigRows
        /\ {Given(s) : s \in d.rows} \subseteq TeamOwnedRows
    BY <1>6
  <2>2. stay \cup join \subseteq MemberRows
    BY <1>8
  <2>3. e = [d EXCEPT !.tasks = {Given(s) : s \in d.tasks}, !.configs = {Given(s) : s \in d.configs},
                      !.rows = {Given(s) : s \in d.rows}, !.members = stay \cup join,
                      !.teams = {t \in d.teams : t.id # x.id}]
    BY DEF MergeTeam, RepointTeam, Databases
  <2> HIDE DEF Given, stay, join, e
  <2> QED
    BY <1>2, <2>1, <2>2, <2>3 DEF Databases
<1> HIDE DEF Given, stay, join, e
<1>11. /\ \A v \in e.tasks : \E u \in d.tasks : v = Given(u)
       /\ \A v \in e.configs : \E u \in d.configs : v = Given(u)
       /\ \A v \in e.rows : \E u \in d.rows : v = Given(u)
  BY <1>4
<1>12. Sourced(e) /\ ContentIn(e)
  <2>1. \A v \in e.tasks : \E u \in d.tasks : SameTask(v, u)
    BY <1>6, <1>11
  <2>2. \A u \in d.tasks : \E v \in e.tasks : SameTask(v, u)
    BY <1>4, <1>6
  <2>3. \A c \in d.configs : \E b \in e.configs : b.id = c.id /\ b.content = c.content
    BY <1>4, <1>6
  <2> QED
    BY <2>1, <2>2, <2>3, ContentKept DEF Sound
<1>13. Keyed(e)
  <2>1. IsFiniteSet(e.teams)
    BY <1>3, <1>5, FS_RemoveElement
  <2> QED
    BY <1>3, <1>5, <2>1 DEF Keyed
<1>14. /\ k \in Ids(e.teams)
       /\ \A id \in Ids(d.teams) : id # x.id => id \in Ids(e.teams)
  BY <1>1, <1>4 DEF Ids
<1>15. TeamsExistIn(e)
  <2>1. \A r \in e.rows \cup e.tasks \cup e.configs : r.team \in Ids(e.teams) \cup {Null}
    BY <1>6, <1>11, <1>14 DEF Sound, TeamsExistIn
  <2>2. \A m \in e.members : m.team \in Ids(e.teams)
    BY <1>4, <1>8, <1>14 DEF Sound, TeamsExistIn
  <2> QED
    BY <2>1, <2>2 DEF TeamsExistIn
<1>16. HistoryIn(e)
  BY <1>1, <1>4, <1>6, <1>11, NullIsNone DEF Sound, HistoryIn
<1>17. First(BySlug(d)) \in BySlug(e) /\ BySlug(e) \subseteq BySlug(d)
  BY <1>1, <1>4 DEF BySlug
<1>18. DefaultTeamId(e) = k
  <2>1. /\ First(BySlug(e)) \in BySlug(e) /\ DefaultTeamId(e) = First(BySlug(e)).id
        /\ DefaultTeamId(e) <= k /\ DefaultTeamId(e) \in Nat
    BY <1>1, <1>10, <1>17, DefaultTeamIsOne DEF DefaultTeamId
  <2>2. k <= DefaultTeamId(e)
    BY <1>1, <1>17, <2>1
  <2> HIDE DEF k
  <2> QED
    BY <1>1, <2>1, <2>2
<1> QED
  BY <1>4, <1>5, <1>9, <1>10, <1>12, <1>13, <1>15, <1>16, <1>17, <1>18 DEF Sound, e

LEMMA MergeIntoKeeps == ASSUME NEW x \in todo PROVE UpgradeInv /\ MergeInto(x) => UpgradeInv'
<1> SUFFICES ASSUME UpgradeInv, MergeInto(x) PROVE UpgradeInv'
  OBVIOUS
<1>1. /\ pc = "merge" /\ pc' = "merge" /\ db' = db /\ todo' = todo \ {x}
      /\ open' = MergeTeam(open, DefaultTeamId(open), x.id)
  BY DEF MergeInto
<1>2. /\ open \in Databases /\ Sound(open) /\ BySlug(open) # {}
      /\ open.origin = db.origin /\ open.hosts = db.hosts
      /\ \A u \in todo : u \in ByName(open) /\ u.id # DefaultTeamId(open)
      /\ KeepsMembers(db, open)
  BY <1>1 DEF UpgradeInv, UpgradeTypeOK, MergeInv, OpenInv
<1>3. \A u \in todo : u \in open.teams /\ u.name = DefaultName
  BY <1>2 DEF ByName
<1>4. /\ open' \in Databases /\ open'.origin = open.origin /\ open'.hosts = open.hosts
      /\ open'.teams = open.teams \ {x}
      /\ Sound(open') /\ BySlug(open') # {} /\ DefaultTeamId(open') = DefaultTeamId(open)
      /\ \A m \in open.members : \E n \in open'.members :
            /\ n.user = m.user
            /\ m.role = "owner" => n.role = "owner"
            /\ n.team = IF m.team = x.id THEN DefaultTeamId(open) ELSE m.team
  BY <1>1, <1>2, <1>3, MergeTeamKeeps
<1>5. \A u \in todo' : u \in ByName(open') /\ u.id # DefaultTeamId(open')
  BY <1>1, <1>2, <1>3, <1>4 DEF ByName
<1>6. KeepsMembers(db, open')
  <2> SUFFICES ASSUME NEW m \in db.members
               PROVE  \E n \in open'.members :
                         /\ n.user = m.user
                         /\ m.role = "owner" => n.role = "owner"
                         /\ n.team = IF m.team \in Ids(open'.teams) THEN m.team
                                     ELSE DefaultTeamId(open')
    BY DEF KeepsMembers
  <2>1. PICK o \in open.members :
           /\ o.user = m.user
           /\ m.role = "owner" => o.role = "owner"
           /\ o.team = IF m.team \in Ids(open.teams) THEN m.team ELSE DefaultTeamId(open)
    BY <1>2 DEF KeepsMembers
  <2>2. PICK n \in open'.members :
           /\ n.user = o.user
           /\ o.role = "owner" => n.role = "owner"
           /\ n.team = IF o.team = x.id THEN DefaultTeamId(open) ELSE o.team
    BY <1>4
  <2>3. Ids(open'.teams) = Ids(open.teams) \ {x.id}
    BY <1>2, <1>3, <1>4 DEF Ids, Sound, Keyed
  <2>4. n.team = IF m.team \in Ids(open'.teams) THEN m.team ELSE DefaultTeamId(open')
    BY <1>2, <1>4, <2>1, <2>2, <2>3
  <2> QED
    BY <2>1, <2>2, <2>4
<1>7. UpgradeTypeOK'
  BY <1>1, <1>4 DEF UpgradeInv, UpgradeTypeOK, MergeInto
<1>8. OpenInv' /\ MoveInv'
  BY <1>1, <1>2, <1>4 DEF OpenInv, MoveInv, Open, Rebuilding
<1>9. MergeInv'
  BY <1>1, <1>4, <1>5, <1>6 DEF MergeInv, BySlug, ByName, DefaultTeamId, Sound, Keyed, Sourced,
       TeamsExistIn, ContentIn, HistoryIn, KeepsMembers
<1>10. DbInv'
  BY <1>1 DEF UpgradeInv, DbInv, HostsKept, Sound, Hinted, Keyed, Sourced, TeamsExistIn,
       ContentIn, HistoryIn
<1> QED
  BY <1>7, <1>8, <1>9, <1>10 DEF UpgradeInv

\* The history of a database whose tasks can be given a team goes to the default team.
LEMMA BackfilledKeeps ==
  ASSUME NEW d \in Databases, Sound(d), BySlug(d) # {}, Backfillable(d)
  PROVE  LET e == [Backfilled(d) EXCEPT !.done = TRUE]
         IN  /\ e \in Databases /\ e.origin = d.origin /\ e.hosts = d.hosts
             /\ e.teams = d.teams /\ e.members = d.members /\ Sound(e) /\ Hinted(e)
<1> DEFINE k == DefaultTeamId(d)
           Given(s, t) == [s EXCEPT !.team = IF @ = Null /\ Has(d, t, "team_id") THEN k ELSE @]
           given(S, t) == {Given(s, t) : s \in S}
           rows == UNION {given({r \in d.rows : r.table = t}, t) : t \in TeamTables}
           e == [Backfilled(d) EXCEPT !.done = TRUE]
<1>1. k \in Ids(d.teams) /\ k \in Nat
  BY DefaultTeamIsOne
<1>2. /\ d.tasks \subseteq StoredTasks /\ d.configs \subseteq ConfigRows
      /\ d.rows \subseteq TeamOwnedRows
  BY DEF Databases
<1>3. e = [d EXCEPT !.tasks = given(d.tasks, "tasks"), !.rows = rows,
                    !.configs = given(d.configs, "deploy_configs"), !.done = TRUE]
  BY DEF Backfilled, Databases
<1>4. /\ e.tasks = given(d.tasks, "tasks") /\ e.configs = given(d.configs, "deploy_configs")
      /\ e.rows = rows /\ e.members = d.members /\ e.teams = d.teams
      /\ e.origin = d.origin /\ e.hosts = d.hosts /\ e.done = TRUE
  BY <1>3 DEF Databases
<1>5. \A s \in d.tasks : /\ Given(s, "tasks") \in StoredTasks /\ SameTask(Given(s, "tasks"), s)
                         /\ Given(s, "tasks").team = IF s.team = Null THEN k ELSE s.team
  BY <1>1, <1>2 DEF StoredTasks, OptId, SameTask, Backfillable
<1>6. \A s \in d.configs : /\ Given(s, "deploy_configs") \in ConfigRows
                           /\ Given(s, "deploy_configs").id = s.id
                           /\ Given(s, "deploy_configs").content = s.content
                           /\ Given(s, "deploy_configs").team \in {k, s.team}
  BY <1>1, <1>2 DEF ConfigRows, OptId
<1>7. \A s \in d.rows, t \in TeamTables :
         Given(s, t) \in TeamOwnedRows /\ Given(s, t).team \in {k, s.team}
  BY <1>1, <1>2 DEF TeamOwnedRows, OptId
<1>8. \A v \in rows : \E s \in d.rows, t \in TeamTables : v = Given(s, t)
  <2> HIDE DEF Given
  <2> QED
    OBVIOUS
<1>9. /\ given(d.tasks, "tasks") \subseteq StoredTasks
      /\ given(d.configs, "deploy_configs") \subseteq ConfigRows
      /\ rows \subseteq TeamOwnedRows
  <2> HIDE DEF Given, rows
  <2> QED
    BY <1>5, <1>6, <1>7, <1>8
<1>10. e \in Databases
  <2> HIDE DEF given, rows, e
  <2> QED
    BY <1>3, <1>9 DEF Databases
<1> HIDE DEF Given, rows, e
<1>11. Sourced(e) /\ ContentIn(e)
  <2>1. \A v \in e.tasks : \E u \in d.tasks : SameTask(v, u)
    BY <1>4, <1>5
  <2>2. \A u \in d.tasks : \E v \in e.tasks : SameTask(v, u)
    BY <1>4, <1>5
  <2>3. \A c \in d.configs : \E b \in e.configs : b.id = c.id /\ b.content = c.content
    BY <1>4, <1>6
  <2> QED
    BY <2>1, <2>2, <2>3, ContentKept DEF Sound
<1>12. \A v \in e.tasks : v.team # Null
  BY <1>1, <1>4, <1>5, NullIsNone
<1>13. HistoryIn(e) /\ Hinted(e)
  BY <1>12 DEF HistoryIn, Hinted
<1>14. TeamsExistIn(e)
  <2>1. \A r \in e.tasks : r.team \in Ids(e.teams) \cup {Null}
    BY <1>1, <1>4, <1>5 DEF Sound, TeamsExistIn
  <2>2. \A r \in e.configs : r.team \in Ids(e.teams) \cup {Null}
    BY <1>1, <1>4, <1>6 DEF Sound, TeamsExistIn
  <2>3. \A r \in e.rows : r.team \in Ids(e.teams) \cup {Null}
    BY <1>1, <1>4, <1>7, <1>8 DEF Sound, TeamsExistIn
  <2>4. \A m \in e.members : m.team \in Ids(e.teams)
    BY <1>4 DEF Sound, TeamsExistIn
  <2> QED
    BY <2>1, <2>2, <2>3, <2>4 DEF TeamsExistIn
<1>15. Keyed(e)
  BY <1>4 DEF Sound, Keyed
<1> QED
  BY <1>4, <1>10, <1>11, <1>13, <1>14, <1>15 DEF Sound, e

LEMMA BackfillTeamsKeeps == UpgradeInv /\ BackfillTeams => UpgradeInv'
<1> SUFFICES ASSUME UpgradeInv, BackfillTeams PROVE UpgradeInv'
  OBVIOUS
<1>1. pc = "merge" /\ pc \in Steps
  BY DEF BackfillTeams, Steps, After
<1>2. /\ open \in Databases /\ Sound(open) /\ BySlug(open) # {}
      /\ open.origin = db.origin /\ open.hosts = db.hosts
  BY <1>1 DEF UpgradeInv, UpgradeTypeOK, MergeInv, OpenInv
<1>3. "owners" \in Places \ Open
  BY DEF Places, Steps, After, Open, Rebuilding
<1>4. CASE open.done /\ Commit(open, "owners")
  <2>1. Hinted(open)
    BY <1>2, <1>4 DEF Sound, HistoryIn, Hinted
  <2> QED
    BY <1>2, <1>3, <1>4, <2>1, CommitKeeps
<1>5. CASE Backfillable(open) /\ Commit([Backfilled(open) EXCEPT !.done = TRUE], "owners")
  <2> DEFINE new == [Backfilled(open) EXCEPT !.done = TRUE]
  <2>1. /\ new \in Databases /\ new.origin = db.origin /\ new.hosts = db.hosts
        /\ new.teams = open.teams /\ Sound(new) /\ Hinted(new)
    BY <1>2, <1>5, BackfilledKeeps
  <2>2. Commit(new, "owners")
    BY <1>5
  <2> HIDE DEF new
  <2>3. BySlug(new) # {}
    BY <1>2, <2>1 DEF BySlug
  <2> QED
    BY <1>3, <2>1, <2>2, <2>3, CommitKeeps
<1>6. CASE Skip(After[pc])
  BY <1>1, <1>6, SkipKeeps
<1> QED
  BY <1>4, <1>5, <1>6 DEF BackfillTeams

LEMMA AdminsOwnItKeeps == UpgradeInv /\ AdminsOwnIt => UpgradeInv'
<1> SUFFICES ASSUME UpgradeInv, AdminsOwnIt PROVE UpgradeInv'
  OBVIOUS
<1> DEFINE k == DefaultTeamId(db)
           others == {m \in db.members : m.team # k \/ m.user \notin Admins(db)}
           owners == [team : {k}, user : Admins(db), role : {"owner"}]
           M == others \cup owners
<1>1. pc = "owners" /\ pc \in Steps /\ Commit([db EXCEPT !.members = M], After[pc])
  BY DEF AdminsOwnIt, Steps, After
<1>2. db \in Databases /\ Sound(db) /\ Hinted(db) /\ BySlug(db) # {}
  BY <1>1 DEF UpgradeInv, UpgradeTypeOK, DbInv
<1>3. k \in Ids(db.teams) /\ k \in Nat
  BY <1>2, DefaultTeamIsOne
<1>4. /\ db.members \in SUBSET MemberRows /\ db.teams \in SUBSET TeamRows
      /\ IsFiniteSet(db.teams) /\ (\A t, u \in db.teams : t.id = u.id => t = u)
      /\ (\A m \in db.members : m.team \in Ids(db.teams))
  BY <1>2, MembersTyped
<1>5. M \in SUBSET MemberRows /\ \A m \in M : m.team \in Ids(db.teams)
  <2>1. Admins(db) \subseteq Accounts
    BY <1>2 DEF Admins, Databases
  <2>2. \A m \in owners : m \in MemberRows /\ m.team = k
    BY <1>3, <2>1 DEF MemberRows
  <2> HIDE DEF owners
  <2> QED
    BY <1>3, <1>4, <2>2
<1>6. [db EXCEPT !.members = M] = WithTeams(db, db.teams, M)
  BY <1>2 DEF WithTeams, Databases
<1> DEFINE new == WithTeams(db, db.teams, M)
<1> HIDE DEF M
<1>7. new \in Databases /\ new.origin = db.origin /\ new.hosts = db.hosts /\ Sound(new) /\ Hinted(new)
  BY <1>2, <1>4, <1>5, TeamsGrow
<1> QED
  BY <1>1, <1>6, <1>7, AfterIsOutside, CommitKeeps

-----------------------------------------------------------------------------
(***************************************************************************)
(* The creators and the uploads.                                           *)
(***************************************************************************)
\* Tasks that stay what they are and take only a team that is said to be theirs.
LEMMA TasksGiven ==
  ASSUME NEW d \in Databases, NEW T \in SUBSET StoredTasks, Sound(d), Hinted(d),
         \A v \in T : \E u \in d.tasks :
            /\ SameTask(v, u) /\ v.hint = u.hint
            /\ v.team = u.team \/ (u.team = Null /\ v.team = u.hint),
         \A u \in d.tasks : \E v \in T : SameTask(v, u)
  PROVE  LET e == [d EXCEPT !.tasks = T]
         IN  /\ e \in Databases /\ e.origin = d.origin /\ e.hosts = d.hosts
             /\ Sound(e) /\ Hinted(e)
<1> DEFINE e == [d EXCEPT !.tasks = T]
<1>1. /\ e \in Databases /\ e.configs = d.configs /\ e.tasks = T
      /\ e.origin = d.origin /\ e.hosts = d.hosts /\ e.rows = d.rows /\ e.teams = d.teams
      /\ e.members = d.members /\ e.done = d.done
  BY DEF Databases
<1> HIDE DEF e
<1>2. Sourced(e) /\ ContentIn(e)
  BY <1>1, ContentKept DEF Sound
<1>3. Keyed(e)
  BY <1>1 DEF Sound, Keyed
<1>4. \A v \in T : \/ v.team \in Ids(d.teams)
                   \/ v.team = Null /\ v.hint \in Ids(d.teams) \cup {Null}
  <2> SUFFICES ASSUME NEW v \in T
               PROVE  \/ v.team \in Ids(d.teams)
                      \/ v.team = Null /\ v.hint \in Ids(d.teams) \cup {Null}
    OBVIOUS
  <2>1. PICK u \in d.tasks : /\ v.hint = u.hint
                             /\ v.team = u.team \/ (u.team = Null /\ v.team = u.hint)
    OBVIOUS
  <2>2. u.team \in Ids(d.teams) \cup {Null}
    BY DEF Sound, TeamsExistIn
  <2> QED
    BY <2>1, <2>2 DEF Hinted
<1>5. Hinted(e)
  BY <1>1, <1>4 DEF Hinted
<1>6. TeamsExistIn(e)
  BY <1>1, <1>4 DEF Sound, TeamsExistIn
<1>7. HistoryIn(e)
  BY <1>1 DEF Sound, HistoryIn
<1> QED
  BY <1>1, <1>2, <1>3, <1>5, <1>6, <1>7 DEF Sound, e

LEMMA BackfillCreatorsKeeps == UpgradeInv /\ BackfillCreators => UpgradeInv'
<1> SUFFICES ASSUME UpgradeInv, BackfillCreators PROVE UpgradeInv'
  OBVIOUS
<1> DEFINE Given(t) == [t EXCEPT !.by = IF @ = Null THEN t.logged ELSE @]
           T == {Given(t) : t \in db.tasks}
           new == [db EXCEPT !.tasks = T]
<1>1. pc = "created_by" /\ pc \in Steps /\ (Skip(After[pc]) \/ Commit(new, After[pc]))
  BY DEF BackfillCreators, Skip, Steps, After
<1>2. db \in Databases /\ Sound(db) /\ Hinted(db)
  BY DEF UpgradeInv, UpgradeTypeOK, DbInv
<1>3. \A t \in db.tasks : /\ Given(t) \in StoredTasks /\ SameTask(Given(t), t)
                          /\ Given(t).hint = t.hint /\ Given(t).team = t.team
  BY <1>2 DEF Databases, StoredTasks, SameTask
<1> HIDE DEF Given
<1>4. /\ T \in SUBSET StoredTasks
      /\ \A v \in T : \E u \in db.tasks :
            /\ SameTask(v, u) /\ v.hint = u.hint
            /\ v.team = u.team \/ (u.team = Null /\ v.team = u.hint)
      /\ \A u \in db.tasks : \E v \in T : SameTask(v, u)
  BY <1>3
<1> HIDE DEF T
<1>5. new \in Databases /\ new.origin = db.origin /\ new.hosts = db.hosts /\ Sound(new) /\ Hinted(new)
  BY <1>2, <1>4, TasksGiven
<1> QED
  BY <1>1, <1>5, SkipKeeps, AfterIsOutside, CommitKeeps

LEMMA BackfillUploadsKeeps == UpgradeInv /\ BackfillUploads => UpgradeInv'
<1> SUFFICES ASSUME UpgradeInv, BackfillUploads PROVE UpgradeInv'
  OBVIOUS
<1> DEFINE Orphan(t) == t.kind = "upload" /\ t.team = Null
           Given(t) == [t EXCEPT !.team = IF Orphan(t) THEN t.hint ELSE @]
           T == {Given(t) : t \in db.tasks}
           new == [db EXCEPT !.tasks = T]
<1>1. pc = "orphan_uploads" /\ pc \in Steps /\ (Skip(After[pc]) \/ Commit(new, After[pc]))
  BY DEF BackfillUploads, Skip, Steps, After
<1>2. db \in Databases /\ Sound(db) /\ Hinted(db)
  BY DEF UpgradeInv, UpgradeTypeOK, DbInv
<1>3. \A t \in db.tasks : /\ Given(t) \in StoredTasks /\ SameTask(Given(t), t)
                          /\ Given(t).hint = t.hint
                          /\ Given(t).team = t.team \/ (t.team = Null /\ Given(t).team = t.hint)
  BY <1>2 DEF Databases, StoredTasks, SameTask
<1> HIDE DEF Given
<1>4. /\ T \in SUBSET StoredTasks
      /\ \A v \in T : \E u \in db.tasks :
            /\ SameTask(v, u) /\ v.hint = u.hint
            /\ v.team = u.team \/ (u.team = Null /\ v.team = u.hint)
      /\ \A u \in db.tasks : \E v \in T : SameTask(v, u)
  BY <1>3
<1> HIDE DEF T
<1>5. new \in Databases /\ new.origin = db.origin /\ new.hosts = db.hosts /\ Sound(new) /\ Hinted(new)
  BY <1>2, <1>4, TasksGiven
<1> QED
  BY <1>1, <1>5, SkipKeeps, AfterIsOutside, CommitKeeps

-----------------------------------------------------------------------------
(***************************************************************************)
(* Failures, restarts, and what the server changes in between.             *)
(***************************************************************************)
\* What is not committed is given up.
LEMMA GivenUp ==
  ASSUME UpgradeInv, db' = db, open' = db, todo' = {}, pc' \in Places \ (Open \cup {"owners"}),
         starts' \in 1..MaxStarts, failures' \in 0..MaxFailures, changes' \in 0..MaxChanges
  PROVE  UpgradeInv'
<1>1. UpgradeTypeOK'
  BY DEF UpgradeInv, UpgradeTypeOK, Places
<1>2. OpenInv' /\ MoveInv' /\ MergeInv'
  BY DEF OpenInv, MoveInv, MergeInv, Open, Rebuilding
<1>3. DbInv'
  BY DEF UpgradeInv, DbInv, HostsKept, Sound, Hinted, Keyed, Sourced, TeamsExistIn, ContentIn,
         HistoryIn
<1> QED
  BY <1>1, <1>2, <1>3 DEF UpgradeInv

LEMMA StepFailsKeeps == UpgradeInv /\ StepFails => UpgradeInv'
<1> SUFFICES ASSUME UpgradeInv, StepFails PROVE UpgradeInv'
  OBVIOUS
<1>1. pc' \in Places \ (Open \cup {"owners"})
  BY AfterIsOutside DEF StepFails
<1>2. failures' \in 0..MaxFailures
  BY ReleasesAssumption DEF StepFails, UpgradeInv, UpgradeTypeOK, ReleasesOK
<1> QED
  BY <1>1, <1>2, GivenUp DEF StepFails, UpgradeInv, UpgradeTypeOK

LEMMA RestartKeeps == UpgradeInv /\ Restart => UpgradeInv'
<1> SUFFICES ASSUME UpgradeInv, Restart PROVE UpgradeInv'
  OBVIOUS
<1>1. pc' \in Places \ (Open \cup {"owners"})
  BY DEF Restart, Places, Steps, After, Open, Rebuilding
<1>2. starts' \in 1..MaxStarts
  BY ReleasesAssumption DEF Restart, UpgradeInv, UpgradeTypeOK, ReleasesOK
<1> QED
  BY <1>1, <1>2, GivenUp DEF Restart, UpgradeInv, UpgradeTypeOK

LEMMA ServedChangeKeeps ==
  ASSUME UpgradeInv, NEW new \in Databases, Change(new), new.origin = db.origin,
         new.hosts = db.hosts, Sound(new), Hinted(new)
  PROVE  UpgradeInv'
<1>1. db' = new /\ open' = new /\ todo' = todo /\ pc = "served" /\ pc' = "served"
  BY DEF Change
<1>2. todo = {}
  BY <1>1 DEF UpgradeInv, OpenInv, Open, Rebuilding
<1>3. changes' \in 0..MaxChanges
  BY ReleasesAssumption DEF Change, UpgradeInv, UpgradeTypeOK, ReleasesOK
<1>4. UpgradeTypeOK'
  BY <1>1, <1>3 DEF UpgradeInv, UpgradeTypeOK, Change
<1>5. OpenInv' /\ MoveInv' /\ MergeInv'
  BY <1>1, <1>2 DEF OpenInv, MoveInv, MergeInv, Open, Rebuilding
<1>6. HostsKept'
  BY <1>1 DEF UpgradeInv, DbInv, HostsKept
<1>7. DbInv'
  BY <1>1, <1>6 DEF DbInv, Sound, Hinted, Keyed, Sourced, TeamsExistIn, ContentIn, HistoryIn
<1> QED
  BY <1>4, <1>5, <1>7 DEF UpgradeInv

LEMMA AddTeamKeeps == ASSUME NEW u \in db.users PROVE UpgradeInv /\ AddTeam(u) => UpgradeInv'
<1> SUFFICES ASSUME UpgradeInv, AddTeam(u) PROVE UpgradeInv'
  OBVIOUS
<1> DEFINE n == [id |-> NewId(db.teams), name |-> "team", slug |-> "own"]
           m == [team |-> n.id, user |-> u, role |-> "owner"]
           T == db.teams \cup {n}
           M == db.members \cup {m}
           new == WithTeams(db, T, M)
<1>1. db \in Databases /\ Sound(db) /\ Hinted(db)
  BY DEF UpgradeInv, UpgradeTypeOK, DbInv
<1>2. Change(new)
  BY <1>1 DEF AddTeam, WithTeams, Databases
<1>3. /\ db.members \in SUBSET MemberRows /\ db.teams \in SUBSET TeamRows
      /\ IsFiniteSet(db.teams) /\ (\A t, v \in db.teams : t.id = v.id => t = v)
      /\ (\A o \in db.members : o.team \in Ids(db.teams))
  BY <1>1, MembersTyped
<1>4. NewId(db.teams) \in Nat /\ NewId(db.teams) \notin Ids(db.teams)
  BY <1>3, NewIdIsNew
<1>5. n \in TeamRows /\ n.id \notin Ids(db.teams) /\ n.id \in Nat
  BY <1>4 DEF TeamRows
<1> HIDE DEF n
<1>6. u \in Accounts
  BY <1>1 DEF Databases
<1>7. m \in MemberRows /\ m.team = n.id
  BY <1>5, <1>6 DEF MemberRows
<1> HIDE DEF m
<1>8. /\ T \in SUBSET TeamRows /\ IsFiniteSet(T)
      /\ (\A t, v \in T : t.id = v.id => t = v)
      /\ Ids(db.teams) \subseteq Ids(T) /\ n.id \in Ids(T)
  BY <1>3, <1>5, TeamAdded
<1> HIDE DEF T
<1>9. M \in SUBSET MemberRows /\ \A o \in M : o.team \in Ids(T)
  BY <1>3, <1>7, <1>8
<1> HIDE DEF M
<1>10. new \in Databases /\ new.origin = db.origin /\ new.hosts = db.hosts /\ Sound(new) /\ Hinted(new)
  BY <1>1, <1>8, <1>9, TeamsGrow
<1> QED
  BY <1>2, <1>10, ServedChangeKeeps

LEMMA RenameTeamKeeps ==
  ASSUME NEW t \in db.teams, NEW name \in {DefaultName, "team"}
  PROVE  UpgradeInv /\ RenameTeam(t, name) => UpgradeInv'
<1> SUFFICES ASSUME UpgradeInv, RenameTeam(t, name) PROVE UpgradeInv'
  OBVIOUS
<1> DEFINE n == [t EXCEPT !.name = name, !.slug = "own"]
           T == (db.teams \ {t}) \cup {n}
           new == WithTeams(db, T, db.members)
<1>1. db \in Databases /\ Sound(db) /\ Hinted(db)
  BY DEF UpgradeInv, UpgradeTypeOK, DbInv
<1>2. Change(new)
  BY <1>1 DEF RenameTeam, WithTeams, Databases
<1>3. /\ db.members \in SUBSET MemberRows /\ db.teams \in SUBSET TeamRows
      /\ IsFiniteSet(db.teams) /\ (\A u, v \in db.teams : u.id = v.id => u = v)
      /\ (\A o \in db.members : o.team \in Ids(db.teams))
  BY <1>1, MembersTyped
<1>4. n \in TeamRows /\ n.id = t.id
  BY <1>3 DEF TeamRows
<1> HIDE DEF n
<1>5. /\ T \in SUBSET TeamRows /\ IsFiniteSet(T)
      /\ (\A u, v \in T : u.id = v.id => u = v)
      /\ Ids(T) = Ids(db.teams)
  BY <1>3, <1>4, TeamReplaced
<1> HIDE DEF T
<1>6. new \in Databases /\ new.origin = db.origin /\ new.hosts = db.hosts /\ Sound(new) /\ Hinted(new)
  BY <1>1, <1>3, <1>5, TeamsGrow
<1> QED
  BY <1>2, <1>6, ServedChangeKeeps

LEMMA WriteRowKeeps ==
  ASSUME NEW table \in {"export_tasks", "operation_logs"}, NEW team \in Ids(db.teams) \cup {Null}
  PROVE  UpgradeInv /\ WriteRow(table, team) => UpgradeInv'
<1> SUFFICES ASSUME UpgradeInv, WriteRow(table, team) PROVE UpgradeInv'
  OBVIOUS
<1> DEFINE row == [id |-> 100 + changes, table |-> table, team |-> team]
           new == [db EXCEPT !.rows = @ \cup {row}]
<1>1. db \in Databases /\ Sound(db) /\ Hinted(db) /\ changes \in Nat
  BY DEF UpgradeInv, UpgradeTypeOK, DbInv
<1>2. Change(new)
  BY DEF WriteRow
<1>3. team \in OptId
  BY <1>1, MembersTyped DEF OptId
<1>4. row \in TeamOwnedRows /\ row.team = team
  BY <1>1, <1>3 DEF TeamOwnedRows, TeamTables
<1> HIDE DEF row
<1>5. /\ new \in Databases /\ new.configs = db.configs /\ new.tasks = db.tasks
      /\ new.origin = db.origin /\ new.hosts = db.hosts /\ new.rows = db.rows \cup {row}
      /\ new.teams = db.teams /\ new.members = db.members /\ new.done = db.done
  BY <1>1, <1>4 DEF Databases
<1> HIDE DEF new
<1>6. Keyed(new) /\ Sourced(new) /\ ContentIn(new) /\ HistoryIn(new) /\ Hinted(new)
  BY <1>1, <1>5 DEF Sound, Keyed, Sourced, ContentIn, HistoryIn, Hinted
<1>7. TeamsExistIn(new)
  BY <1>1, <1>4, <1>5 DEF Sound, TeamsExistIn
<1> QED
  BY <1>2, <1>5, <1>6, <1>7, ServedChangeKeeps DEF Sound

LEMMA WriteConfigKeeps ==
  ASSUME NEW team \in Ids(db.teams)
  PROVE  UpgradeInv /\ WriteConfig(team) => UpgradeInv'
<1> SUFFICES ASSUME UpgradeInv, WriteConfig(team) PROVE UpgradeInv'
  OBVIOUS
<1> DEFINE row == [id |-> 100 + changes, name |-> <<100 + changes, 0>>,
                   content |-> 100 + changes, team |-> team]
           new == [db EXCEPT !.configs = @ \cup {row}]
<1>1. db \in Databases /\ Sound(db) /\ Hinted(db) /\ changes \in Nat
  BY DEF UpgradeInv, UpgradeTypeOK, DbInv
<1>2. Change(new)
  BY DEF WriteConfig
<1>3. team \in OptId
  BY <1>1, MembersTyped DEF OptId
<1>4. row \in ConfigRows /\ row.team = team
  BY <1>1, <1>3 DEF ConfigRows
<1> HIDE DEF row
<1>5. /\ new \in Databases /\ new.configs = db.configs \cup {row} /\ new.tasks = db.tasks
      /\ new.origin = db.origin /\ new.hosts = db.hosts /\ new.rows = db.rows
      /\ new.teams = db.teams /\ new.members = db.members /\ new.done = db.done
  BY <1>1, <1>4 DEF Databases
<1> HIDE DEF new
<1>6. Keyed(new) /\ Sourced(new) /\ ContentIn(new) /\ HistoryIn(new) /\ Hinted(new)
  BY <1>1, <1>5 DEF Sound, Keyed, Sourced, ContentIn, HistoryIn, Hinted
<1>7. TeamsExistIn(new)
  BY <1>1, <1>4, <1>5 DEF Sound, TeamsExistIn
<1> QED
  BY <1>2, <1>5, <1>6, <1>7, ServedChangeKeeps DEF Sound

-----------------------------------------------------------------------------
LEMMA UpgradeStarts == UpgradeInit => UpgradeInv
<1> SUFFICES ASSUME UpgradeInit PROVE UpgradeInv
  OBVIOUS
<1>1. db \in Releases /\ open = db /\ todo = {} /\ pc = "create_all"
  BY DEF UpgradeInit
<1>2. UpgradeTypeOK
  BY <1>1, ReleasesAssumption DEF UpgradeInit, UpgradeTypeOK, ReleasesOK, Steps, After
<1>3. OpenInv /\ MoveInv /\ MergeInv
  BY <1>1 DEF OpenInv, MoveInv, MergeInv, Open, Rebuilding
<1>4. Keyed(db) /\ Sourced(db) /\ TeamsExistIn(db) /\ ContentIn(db) /\ HistoryIn(db) /\ HintsIn(db)
  BY <1>1, ReleasesAssumption DEF ReleasesOK, Keyed, Sourced
<1>5. DbInv
  BY <1>1, <1>4 DEF DbInv, HostsKept, Sound, Hinted, HintsIn
<1> QED
  BY <1>2, <1>3, <1>5 DEF UpgradeInv

LEMMA UpgradeSteps == UpgradeInv /\ [UpgradeNext]_upgradeVars => UpgradeInv'
<1> SUFFICES ASSUME UpgradeInv, [UpgradeNext]_upgradeVars PROVE UpgradeInv'
  OBVIOUS
<1>1. CASE CreateAll
  BY <1>1, CreateAllKeeps
<1>2. CASE AddColumns
  BY <1>2, AddColumnsKeeps
<1>3. CASE CreateSpare
  BY <1>3, CreateSpareKeeps
<1>4. CASE CopyHosts
  BY <1>4, CopyHostsKeeps
<1>5. CASE DropHosts
  BY <1>5, DropHostsKeeps
<1>6. CASE RenameSpare
  BY <1>6, RenameSpareKeeps
<1>7. CASE FixJson
  BY <1>7, FixJsonKeeps
<1>8. CASE RolesAndPermissions
  BY <1>8, RolesAndPermissionsKeeps
<1>9. CASE GrantMenus
  BY <1>9, GrantMenusKeeps
<1>10. CASE AddAccount
  BY <1>10, AddAccountKeeps
<1>11. CASE AddLinkColumn
  BY <1>11, AddLinkColumnKeeps
<1>12. CASE ReadConfigTasks
  BY <1>12, ReadConfigTasksKeeps
<1>13. CASE \E t \in todo : MoveConfigTask(t)
  BY <1>13, MoveConfigTaskKeeps
<1>14. CASE CommitMoves
  BY <1>14, CommitMovesKeeps
<1>15. CASE FillRegistries
  BY <1>15, FillRegistriesKeeps
<1>16. CASE RecordTemplates
  BY <1>16, RecordTemplatesKeeps
<1>17. CASE BackfillCreators
  BY <1>17, BackfillCreatorsKeeps
<1>18. CASE BackfillUploads
  BY <1>18, BackfillUploadsKeeps
<1>19. CASE KeepDefaultTeam
  BY <1>19, KeepDefaultTeamKeeps
<1>20. CASE \E x \in todo : MergeInto(x)
  BY <1>20, MergeIntoKeeps
<1>21. CASE BackfillTeams
  BY <1>21, BackfillTeamsKeeps
<1>22. CASE AdminsOwnIt
  BY <1>22, AdminsOwnItKeeps
<1>23. CASE MigrationMenu
  BY <1>23, MigrationMenuKeeps
<1>24. CASE ApprovalMenu
  BY <1>24, ApprovalMenuKeeps
<1>25. CASE StepFails
  BY <1>25, StepFailsKeeps
<1>26. CASE Restart
  BY <1>26, RestartKeeps
<1>27. CASE Serve
  <2>1. CASE \E u \in db.users : AddTeam(u)
    BY <2>1, AddTeamKeeps
  <2>2. CASE \E t \in db.teams, name \in {DefaultName, "team"} : RenameTeam(t, name)
    BY <2>2, RenameTeamKeeps
  <2>3. CASE \E t \in {"export_tasks", "operation_logs"}, team \in Ids(db.teams) \cup {Null} :
               WriteRow(t, team)
    BY <2>3, WriteRowKeeps
  <2>4. CASE \E team \in Ids(db.teams) : WriteConfig(team)
    BY <2>4, WriteConfigKeeps
  <2> QED
    BY <1>27, <2>1, <2>2, <2>3, <2>4 DEF Serve
<1>28. CASE UNCHANGED upgradeVars
  <2>1. UpgradeTypeOK' /\ OpenInv'
    BY <1>28 DEF upgradeVars, UpgradeInv, UpgradeTypeOK, OpenInv, SameRows
  <2>2. MoveInv'
    BY <1>28 DEF upgradeVars, UpgradeInv, MoveInv, Sound, Hinted, Keyed, Sourced, TeamsExistIn,
       ContentIn, HistoryIn
  <2>3. MergeInv'
    BY <1>28 DEF upgradeVars, UpgradeInv, MergeInv, Sound, Keyed, Sourced, TeamsExistIn, ContentIn,
       HistoryIn, BySlug, ByName, DefaultTeamId, KeepsMembers
  <2>4. DbInv'
    BY <1>28 DEF upgradeVars, UpgradeInv, DbInv, HostsKept, Sound, Hinted, Keyed, Sourced,
       TeamsExistIn, ContentIn, HistoryIn, BySlug
  <2> QED
    BY <2>1, <2>2, <2>3, <2>4 DEF UpgradeInv
<1> QED
  BY <1>1, <1>2, <1>3, <1>4, <1>5, <1>6, <1>7, <1>8, <1>9, <1>10, <1>11, <1>12, <1>13, <1>14,
     <1>15, <1>16, <1>17, <1>18, <1>19, <1>20, <1>21, <1>22, <1>23, <1>24, <1>25, <1>26, <1>27,
     <1>28 DEF UpgradeNext

-----------------------------------------------------------------------------
(***************************************************************************)
(* What a commit does to the members.                                      *)
(***************************************************************************)
\* Most steps leave them and their teams alone.
LEMMA MembersLeft ==
  ASSUME UpgradeInv, db'.members = db.members, db'.teams = db.teams
  PROVE  KeepsMembers(db, db')
BY MembersStay DEF UpgradeInv, DbInv

LEMMA AddingColumnsKeepsMembers ==
  ASSUME UpgradeInv, CreateAll \/ AddColumns \/ AddLinkColumn
  PROVE  KeepsMembers(db, db')
<1>1. db \in Databases
  BY DEF UpgradeInv, UpgradeTypeOK
<1>2. db'.members = db.members /\ db'.teams = db.teams
  BY <1>1 DEF CreateAll, AddColumns, AddLinkColumn, Commit, Skip, Databases
<1> QED
  BY <1>2, MembersLeft

LEMMA RebuildingKeepsMembers ==
  ASSUME UpgradeInv, CreateSpare \/ CopyHosts \/ DropHosts \/ RenameSpare
  PROVE  KeepsMembers(db, db')
<1>1. db \in Databases /\ open \in Databases
  BY DEF UpgradeInv, UpgradeTypeOK
<1>2. CASE CreateSpare
  <2>1. open = db
    BY <1>2 DEF CreateSpare, UpgradeInv, OpenInv, Open, Rebuilding
  <2>2. db'.members = db.members /\ db'.teams = db.teams
    BY <1>1, <1>2, <2>1 DEF CreateSpare, Statement, Ddl, Commit, Skip, Databases
  <2> QED
    BY <2>2, MembersLeft
<1>3. CASE CopyHosts \/ DropHosts
  <2>1. db' = db
    BY <1>3 DEF CopyHosts, DropHosts, Statement, Ddl, InTransaction
  <2> QED
    BY <2>1, MembersLeft
<1>4. CASE RenameSpare
  <2>1. SameRows(open, db)
    BY <1>4 DEF RenameSpare, UpgradeInv, OpenInv, Rebuilding
  <2>2. db'.members = db.members /\ db'.teams = db.teams
    BY <1>1, <1>4, <2>1 DEF RenameSpare, Commit, SameRows, Databases
  <2> QED
    BY <2>2, MembersLeft
<1> QED
  BY <1>2, <1>3, <1>4

LEMMA OtherRowsKeepMembers ==
  ASSUME UpgradeInv,
         \/ FixJson \/ RolesAndPermissions \/ GrantMenus \/ AddAccount \/ FillRegistries
         \/ RecordTemplates \/ BackfillCreators \/ BackfillUploads \/ MigrationMenu \/ ApprovalMenu
  PROVE  KeepsMembers(db, db')
<1>1. db \in Databases
  BY DEF UpgradeInv, UpgradeTypeOK
<1>2. CASE FixJson \/ RolesAndPermissions \/ GrantMenus \/ AddAccount
  <2>1. db'.members = db.members /\ db'.teams = db.teams
    BY <1>1, <1>2 DEF FixJson, RolesAndPermissions, GrantMenus, AddAccount, Commit, Skip, Databases
  <2> QED
    BY <2>1, MembersLeft
<1>3. CASE FillRegistries \/ RecordTemplates \/ BackfillCreators \/ BackfillUploads
  <2>1. db'.members = db.members /\ db'.teams = db.teams
    BY <1>1, <1>3 DEF FillRegistries, RecordTemplates, BackfillCreators, BackfillUploads, Commit,
       Databases
  <2> QED
    BY <2>1, MembersLeft
<1>4. CASE MigrationMenu \/ ApprovalMenu
  <2>1. db'.members = db.members /\ db'.teams = db.teams
    BY <1>1, <1>4 DEF MigrationMenu, ApprovalMenu, Commit, Databases
  <2> QED
    BY <2>1, MembersLeft
<1> QED
  BY <1>2, <1>3, <1>4

\* The commit of the merged teams, whose members the invariant speaks of.
LEMMA BackfillTeamsKeepsMembers ==
  ASSUME UpgradeInv, BackfillTeams
  PROVE  KeepsMembers(db, db')
<1>1. pc = "merge"
  BY DEF BackfillTeams
<1>2. open \in Databases /\ Sound(open) /\ BySlug(open) # {} /\ KeepsMembers(db, open)
  BY <1>1 DEF UpgradeInv, UpgradeTypeOK, MergeInv
<1>3. CASE db' = db
  BY <1>3, MembersLeft
<1>4. CASE db'.members = open.members /\ db'.teams = open.teams
  BY <1>2, <1>4 DEF KeepsMembers, DefaultTeamId, BySlug
<1>5. CASE Backfillable(open) /\ db' = [Backfilled(open) EXCEPT !.done = TRUE]
  BY <1>2, <1>4, <1>5, BackfilledKeeps
<1> QED
  BY <1>3, <1>4, <1>5 DEF BackfillTeams, Commit, Skip

\* An administrator's role in the default team is replaced by that of an owner.
LEMMA AdminsOwnItKeepsMembers ==
  ASSUME UpgradeInv, AdminsOwnIt
  PROVE  KeepsMembers(db, db')
<1> DEFINE k == DefaultTeamId(db)
           others == {m \in db.members : m.team # k \/ m.user \notin Admins(db)}
           owners == [team : {k}, user : Admins(db), role : {"owner"}]
<1>1. db \in Databases /\ Sound(db)
  BY DEF UpgradeInv, UpgradeTypeOK, DbInv
<1>2. db'.members = others \cup owners /\ db'.teams = db.teams
  BY <1>1 DEF AdminsOwnIt, Commit, Databases
<1> SUFFICES ASSUME NEW m \in db.members
             PROVE  \E n \in db'.members :
                       /\ n.user = m.user
                       /\ m.role = "owner" => n.role = "owner"
                       /\ n.team = m.team
  BY <1>1, <1>2 DEF KeepsMembers, Sound, TeamsExistIn
<1>3. CASE m \in others
  BY <1>2, <1>3
<1>4. CASE m.team = k /\ m.user \in Admins(db)
  <2> DEFINE n == [team |-> k, user |-> m.user, role |-> "owner"]
  <2>1. n \in owners /\ n.team = m.team /\ n.user = m.user /\ n.role = "owner"
    BY <1>4
  <2> HIDE DEF n, owners
  <2> QED
    BY <1>2, <2>1
<1> QED
  BY <1>3, <1>4

LEMMA ServeKeepsMembers ==
  ASSUME UpgradeInv, Serve
  PROVE  KeepsMembers(db, db')
<1>1. db \in Databases /\ Sound(db)
  BY DEF UpgradeInv, UpgradeTypeOK, DbInv
<1>2. CASE \E u \in db.users : AddTeam(u)
  <2>1. db.members \subseteq db'.members /\ db.teams \subseteq db'.teams
    BY <1>1, <1>2 DEF AddTeam, Change, Databases
  <2>2. Ids(db.teams) \subseteq Ids(db'.teams)
    BY <2>1 DEF Ids
  <2> QED
    BY <1>1, <2>1, <2>2, MembersStay
<1>3. CASE \E t \in db.teams, name \in {DefaultName, "team"} : RenameTeam(t, name)
  <2>1. PICK t \in db.teams, name \in {DefaultName, "team"} : RenameTeam(t, name)
    BY <1>3
  <2> DEFINE n == [t EXCEPT !.name = name, !.slug = "own"]
  <2>2. db'.members = db.members /\ db'.teams = (db.teams \ {t}) \cup {n}
    BY <1>1, <2>1 DEF RenameTeam, Change, Databases
  <2>3. t \in TeamRows
    BY <1>1 DEF Databases
  <2>4. n.id = t.id
    BY <2>3 DEF TeamRows
  <2> HIDE DEF n
  <2>5. Ids(db.teams) \subseteq Ids(db'.teams)
    BY <2>2, <2>4 DEF Ids
  <2> QED
    BY <1>1, <2>2, <2>5, MembersStay
<1>4. CASE \/ \E t \in {"export_tasks", "operation_logs"}, team \in Ids(db.teams) \cup {Null} :
                WriteRow(t, team)
           \/ \E team \in Ids(db.teams) : WriteConfig(team)
  <2>1. db'.members = db.members /\ db'.teams = db.teams
    BY <1>1, <1>4 DEF WriteRow, WriteConfig, Change, Databases
  <2> QED
    BY <2>1, MembersLeft
<1> QED
  BY <1>2, <1>3, <1>4 DEF Serve

LEMMA MembersSteps == UpgradeInv /\ [UpgradeNext]_upgradeVars => KeepsMembers(db, db')
<1> SUFFICES ASSUME UpgradeInv, [UpgradeNext]_upgradeVars PROVE KeepsMembers(db, db')
  OBVIOUS
<1>1. CASE CreateAll \/ AddColumns \/ AddLinkColumn
  BY <1>1, AddingColumnsKeepsMembers
<1>2. CASE CreateSpare \/ CopyHosts \/ DropHosts \/ RenameSpare
  BY <1>2, RebuildingKeepsMembers
<1>3. CASE \/ FixJson \/ RolesAndPermissions \/ GrantMenus \/ AddAccount \/ FillRegistries
           \/ RecordTemplates \/ BackfillCreators \/ BackfillUploads \/ MigrationMenu
           \/ ApprovalMenu
  BY <1>3, OtherRowsKeepMembers
<1>4. CASE \/ ReadConfigTasks \/ (\E t \in todo : MoveConfigTask(t))
           \/ KeepDefaultTeam \/ (\E x \in todo : MergeInto(x))
           \/ StepFails \/ Restart \/ UNCHANGED upgradeVars
  <2>1. db'.members = db.members /\ db'.teams = db.teams
    BY <1>4 DEF ReadConfigTasks, MoveConfigTask, KeepDefaultTeam, MergeInto, StepFails, Restart,
       upgradeVars, Skip, Commit
  <2> QED
    BY <2>1, MembersLeft
<1>5. CASE CommitMoves
  <2>1. db'.members = db.members /\ db'.teams = db.teams
    BY <1>5 DEF CommitMoves, Commit, UpgradeInv, MoveInv
  <2> QED
    BY <2>1, MembersLeft
<1>6. CASE BackfillTeams
  BY <1>6, BackfillTeamsKeepsMembers
<1>7. CASE AdminsOwnIt
  BY <1>7, AdminsOwnItKeepsMembers
<1>8. CASE Serve
  BY <1>8, ServeKeepsMembers
<1> QED
  BY <1>1, <1>2, <1>3, <1>4, <1>5, <1>6, <1>7, <1>8 DEF UpgradeNext

(***************************************************************************)
(* The inductive invariant: whichever statements of whichever step a       *)
(* failure or a crash cut off, the committed database is sound, and what   *)
(* is open has kept the hosts, the contents and the teams.                 *)
(***************************************************************************)
THEOREM UpgradeInvariance == UpgradeSpec => []UpgradeInv
BY UpgradeStarts, UpgradeSteps, PTL DEF UpgradeSpec

(***************************************************************************)
(* The database and what is open of it are of their types.                 *)
(***************************************************************************)
THEOREM UpgradeTypeCorrect == UpgradeSpec => []UpgradeTypeOK
<1>1. UpgradeInv => UpgradeTypeOK
  BY DEF UpgradeInv
<1> QED
  BY <1>1, UpgradeInvariance, PTL

(***************************************************************************)
(* No host is lost by the rebuilding of agent_hosts                        *)
(* (migrate_token_nullable), however often it is interrupted.              *)
(***************************************************************************)
THEOREM NoHostLost == UpgradeSpec => []HostsKept
<1>1. UpgradeInv => HostsKept
  BY DEF UpgradeInv, DbInv
<1> QED
  BY <1>1, UpgradeInvariance, PTL

(***************************************************************************)
(* An execution never finds another configuration than the one it was made *)
(* from (migrate_deploy_task_architecture).                                *)
(***************************************************************************)
THEOREM ContentStays == UpgradeSpec => []ExecutionsKeepContent
<1>1. UpgradeInv => ExecutionsKeepContent
  BY DEF UpgradeInv, DbInv, Sound, ExecutionsKeepContent
<1> QED
  BY <1>1, UpgradeInvariance, PTL

(***************************************************************************)
(* No row and no member is left with a team that is gone                   *)
(* (_dedupe_default_teams_locked, _repoint_team_id_refs).                  *)
(***************************************************************************)
THEOREM NoTeamMissing == UpgradeSpec => []TeamsExist
<1>1. UpgradeInv => TeamsExist
  BY DEF UpgradeInv, DbInv, Sound, TeamsExist
<1> QED
  BY <1>1, UpgradeInvariance, PTL

(***************************************************************************)
(* The mark of the backfill and the rows it speaks of are committed        *)
(* together (migrate_backfill_default_team).                               *)
(***************************************************************************)
THEOREM HistoryGiven == UpgradeSpec => []HistoryHasTeam
<1>1. UpgradeInv => HistoryHasTeam
  BY DEF UpgradeInv, DbInv, Sound, HistoryHasTeam
<1> QED
  BY <1>1, UpgradeInvariance, PTL

(***************************************************************************)
(* The upgrade takes nobody's membership or ownership away, in whatever    *)
(* order the teams of the default name are merged, and whatever cuts the   *)
(* merging off (_dedupe_default_teams_locked).                             *)
(***************************************************************************)
THEOREM NoMemberLost == UpgradeSpec => MembersKept
<1>1. UpgradeInv /\ [UpgradeNext]_upgradeVars => [KeepsMembers(db, db')]_upgradeVars
  BY MembersSteps
<1> QED
  BY <1>1, UpgradeInvariance, PTL DEF UpgradeSpec, MembersKept

-----------------------------------------------------------------------------
(***************************************************************************)
(* The requests.                                                           *)
(***************************************************************************)
USE TeamAssumption

(***************************************************************************)
(* What requests under way may still do.  Those of the roster:             *)
(***************************************************************************)
RosterOps == {"invite", "accept", "patch", "remove"}
ResourceOps == {"grant", "group", "group_grant", "create", "own", "publish", "copy", "share",
                "task", "delete"}

Invited == {"admin", "member"}

\* u is an owner of the team once the request r has been written.
OwnerAfter(r, u) ==
    /\ \A p \in r.set : p[1] = u => p[2] = "owner"
    /\ Owner(r.team, u) \/ \E p \in r.set : p[1] = u

\* An accepted invitation that still has its row is one to a team that is there; a change
\* of roles holds rows of members; and when no other changes the team's roles, it leaves
\* an owner.
RosterOK(r) ==
    /\ r.op = "invite" => r.item \in Invited
    /\ r.op = "accept" =>
          /\ r.item \in Invites \cap used
          /\ r.set \subseteq {r.by} \X Invited
          /\ invites[r.item] # None => invites[r.item].team = r.team /\ r.team \in live
    /\ r.op \in {"patch", "remove"} => \A u \in r.rows : Member(r.team, u)
    /\ r.op = "patch" =>
          /\ r.set \subseteq Users \X Roles
          /\ r.team \in live \ raced => \E u \in Users : OwnerAfter(r, u)
    /\ r.op = "remove" => r.who \in Users
    /\ r.op = "remove" /\ r.team \in live \ raced => ~Owner(r.team, r.who)

(***************************************************************************)
(* Those of resources: what they name is there with their team, or was     *)
(* deleted alone or with the team.  A deletion has found everything the    *)
(* team owns, unless something was written for the team too late.          *)
(***************************************************************************)
Names(r) ==
    /\ r.item \in Resources \cap used
    /\ res[r.item] # None => res[r.item].team = r.team
    /\ res[r.item] = None => r.item \in dropped \/ r.team \notin live

Found(r) ==
    /\ OwnedBy(r.team) \subseteq r.set
    /\ TasksOf(r.team) \subseteq r.set
    /\ r.team \in groups => r.team \in r.set

ResourceOK(r) ==
    /\ r.op \in {"grant", "own", "share"} => Names(r)
    /\ r.op = "task" => r.item = None \/ Names(r)
    /\ r.op = "publish" => r.item \in Resources
    /\ r.op \in {"grant", "group_grant"} => r.who \in Users /\ r.set \subseteq {0} \cup Levels
    /\ r.op \in {"copy", "share"} => r.set \subseteq Users \X Levels
    /\ r.op = "group_grant" /\ r.team \in live => r.team \in groups
    /\ r.op = "delete" /\ r.team \notin late => Found(r)

(***************************************************************************)
(* The inductive invariant, in three parts.                                *)
(***************************************************************************)
Shaped(r) ==
    /\ r = [op |-> r.op, by |-> r.by, team |-> r.team, who |-> r.who, item |-> r.item,
            set |-> r.set, rows |-> r.rows]
    /\ r.op \in RosterOps \cup ResourceOps
    /\ r.by \in Users /\ r.team \in born /\ r.rows \subseteq Users

Typed ==
    /\ TypeOK
    /\ users \subseteq Users /\ DOMAIN req = Workers
    /\ \A w \in Workers : req[w] = Idle \/ Shaped(req[w])

\* Roles and invitations
RosterInv ==
    /\ invites \in [Invites -> InviteRows \cup {None}]
    /\ \A i \in Invites : invites[i] # None => i \in used /\ invites[i].role \in Invited
    /\ \A v, w \in Workers : \A t \in Teams :
          v # w /\ v \in Changing(t) /\ w \in Changing(t) => t \in raced
    /\ MembersOfLiveTeams /\ OwnerUnlessRaced
    /\ \A w \in Workers : RosterOK(req[w])

\* Resources, groups and tasks.  What has not been used yet has left nothing.
ResourceInv ==
    /\ res \in [Resources -> ResourceRows \cup {None}]
    /\ tasks \in [Tasks -> TaskRows \cup {None}]
    /\ \A r \in Resources : res[r] # None => r \in used /\ res[r].team \in born
    /\ \A r \in Resources \ used : grants[r] = Nothing
    /\ \A k \in Tasks : tasks[k] # None => tasks[k].pipeline \in used \cup {None}
    /\ \A t \in Teams \ late : t \in groups \/ groupGrants[t] = Nothing
    /\ NothingLeftBehind
    /\ \A w \in Workers : ResourceOK(req[w])

IInv == Typed /\ RosterInv /\ ResourceInv

-----------------------------------------------------------------------------
(* Steps that leave a part of the invariant alone. *)

\* What the request of v does is the same, whatever rows it holds.
SameRequest(v) ==
    /\ req'[v].op = req[v].op /\ req'[v].team = req[v].team /\ req'[v].who = req[v].who
    /\ req'[v].item = req[v].item /\ req'[v].set = req[v].set

LEMMA TypedFrame ==
    ASSUME Typed, TypeOK', users' \subseteq Users, born \subseteq born', DOMAIN req' = Workers,
           \A v \in Workers : req'[v] = req[v] \/ req'[v] = Idle \/ Shaped(req[v])'
    PROVE  Typed'
  BY DEF Typed, Shaped

LEMMA RosterFrame ==
    ASSUME RosterInv, UNCHANGED <<live, role, invites, raced>>, used \subseteq used',
           \A v \in Workers : req'[v] = req[v] \/ req'[v].op \notin RosterOps
    PROVE  RosterInv'
<1>1. \A v \in Workers : RosterOK(req[v])'
  BY DEF RosterInv, RosterOK, RosterOps, OwnerAfter, Member, Owner
<1>2. MembersOfLiveTeams' /\ OwnerUnlessRaced'
  BY DEF RosterInv, MembersOfLiveTeams, OwnerUnlessRaced, Member, Owner
<1>3. \A v, w \in Workers : \A t \in Teams :
        v # w /\ (v \in Changing(t))' /\ (w \in Changing(t))' => t \in raced'
  BY DEF RosterInv, Changing, RosterOps
<1> QED
  BY <1>1, <1>2, <1>3 DEF RosterInv

LEMMA ResourceFrame ==
    ASSUME Typed, ResourceInv, UNCHANGED <<rest, dropped>>, used \subseteq used',
           late \subseteq late', born \subseteq born',
           \A t \in live' : t \in live \/ t \notin born,
           \A t \in born' \ live' : t \in born \ live,
           \A i \in Invites : invites'[i] # None =>
               \/ invites[i] # None /\ invites'[i].team = invites[i].team
               \/ invites'[i].team \in live' \cup late',
           \A v \in Workers : SameRequest(v) \/ req'[v].op \notin ResourceOps
    PROVE  ResourceInv'
<1>1. UNCHANGED <<res, grants, groups, groupGrants, tasks>>
  BY DEF rest
<1>2. /\ \A t : OwnedBy(t)' = OwnedBy(t)
      /\ \A t : TasksOf(t)' = TasksOf(t)
  BY <1>1 DEF OwnedBy, TasksOf
<1>3. \A v \in Workers : req[v].op \in ResourceOps => req[v].team \in born
  BY DEF Typed, Shaped, Idle, ResourceOps
<1>4. ASSUME NEW v \in Workers PROVE ResourceOK(req[v])'
  <2>1. CASE req'[v].op \notin ResourceOps
    BY <2>1 DEF ResourceOK, ResourceOps
  <2>2. CASE SameRequest(v) /\ req'[v].op \in ResourceOps
    <3>1. ResourceOK(req[v]) /\ req[v].team \in born
      BY <1>3, <2>2 DEF ResourceInv, SameRequest
    <3>2. req[v].team \in live' => req[v].team \in live
      BY <3>1
    <3>3. Names(req[v]) => Names(req[v])'
      BY <1>1, <2>2, <3>2 DEF Names, SameRequest
    <3>4. Found(req[v]) => Found(req[v])'
      BY <1>1, <1>2, <2>2 DEF Found, SameRequest
    <3> QED
      BY <1>1, <2>2, <3>1, <3>2, <3>3, <3>4 DEF ResourceOK, SameRequest
  <2> QED
    BY <2>1, <2>2
<1>5. NothingLeftBehind'
  <2>1. ASSUME NEW t \in born' \ (live' \cup late')
        PROVE  /\ OwnedBy(t)' = {}
               /\ \A k \in Tasks : tasks'[k] # None => tasks'[k].team # t
               /\ t \notin groups' /\ groupGrants'[t] = Nothing
               /\ \A i \in Invites : invites'[i] # None => invites'[i].team # t
    <3>1. t \in born \ (live \cup late)
      BY <2>1
    <3> QED
      BY <1>1, <1>2, <2>1, <3>1 DEF ResourceInv, NothingLeftBehind
  <2>2. late' = {} =>
          /\ \A r \in Resources \ dropped' : res'[r] = None => grants'[r] = Nothing
          /\ \A k \in Tasks : tasks'[k] # None =>
               tasks'[k].pipeline \in {None} \cup dropped' \/ res'[tasks'[k].pipeline] # None
    <3>1. late' = {} => late = {}
      OBVIOUS
    <3> QED
      BY <1>1, <3>1 DEF ResourceInv, NothingLeftBehind
  <2> QED
    BY <2>1, <2>2 DEF NothingLeftBehind, Nothing
<1> QED
  BY <1>1, <1>4, <1>5 DEF ResourceInv, Nothing

-----------------------------------------------------------------------------
(* Requests begin and end. *)

LEMMA EndIs ==
    ASSUME Typed, NEW w \in Workers, End(w)
    PROVE  /\ DOMAIN req' = Workers /\ req'[w] = Idle
           /\ \A v \in Workers \ {w} : req'[v] = req[v]
           /\ \A v \in Workers : /\ req'[v] = req[v] \/ req'[v] = Idle
                                 /\ req'[v] = req[v] \/ req'[v].op \notin RosterOps
                                 /\ SameRequest(v) \/ req'[v].op \notin ResourceOps
  BY DEF Typed, End, Idle, RosterOps, ResourceOps, SameRequest

LEMMA BeginKeeps ==
    ASSUME IInv, NEW w \in Workers, NEW r, Begin(w, r), Shaped(r), RosterOK(r), ResourceOK(r)
    PROVE  IInv'
<1>1. /\ asked < MaxRequests /\ asked' = asked + 1 /\ req' = [req EXCEPT ![w] = r]
      /\ raced \subseteq raced'
      /\ r.op \in {"patch", "remove"} /\ Changing(r.team) # {} => r.team \in raced'
      /\ UNCHANGED <<data, ids, late>>
  BY DEF Begin
<1>2. UNCHANGED <<users, born, live, role, invites, res, grants, groups, groupGrants, tasks, used,
                  dropped, late>>
  BY <1>1 DEF data, ids
<1>3. DOMAIN req' = Workers /\ req'[w] = r /\ \A v \in Workers \ {w} : req'[v] = req[v]
  BY <1>1 DEF IInv, Typed
<1>4. Typed'
  <2>1. TypeOK'
    BY <1>1, <1>2 DEF IInv, Typed, TypeOK
  <2>2. Shaped(req[w])'
    BY <1>2, <1>3 DEF Shaped
  <2> QED
    BY <1>2, <1>3, <2>1, <2>2, TypedFrame DEF IInv, Typed
<1>5. RosterInv'
  <2>1. ASSUME NEW v \in Workers PROVE RosterOK(req[v])'
    <3>1. CASE v = w
      BY <1>1, <1>2, <1>3, <3>1 DEF RosterOK, OwnerAfter, Member, Owner
    <3>2. CASE v # w
      BY <1>1, <1>2, <1>3, <3>2 DEF IInv, RosterInv, RosterOK, OwnerAfter, Member, Owner
    <3> QED
      BY <3>1, <3>2
  <2>2. MembersOfLiveTeams' /\ OwnerUnlessRaced'
    BY <1>1, <1>2 DEF IInv, RosterInv, MembersOfLiveTeams, OwnerUnlessRaced, Member, Owner
  <2>3. \A v, x \in Workers : \A t \in Teams :
          v # x /\ (v \in Changing(t))' /\ (x \in Changing(t))' => t \in raced'
    BY <1>1, <1>3 DEF IInv, RosterInv, Changing
  <2> QED
    BY <1>2, <2>1, <2>2, <2>3 DEF IInv, RosterInv
<1>6. ResourceInv'
  <2>1. ASSUME NEW v \in Workers PROVE ResourceOK(req[v])'
    <3>1. CASE v = w
      BY <1>2, <1>3, <3>1 DEF ResourceOK, Names, Found, OwnedBy, TasksOf
    <3>2. CASE v # w
      BY <1>2, <1>3, <3>2 DEF IInv, ResourceInv, ResourceOK, Names, Found, OwnedBy, TasksOf
    <3> QED
      BY <3>1, <3>2
  <2>2. NothingLeftBehind'
    BY <1>2 DEF IInv, ResourceInv, NothingLeftBehind, OwnedBy, Nothing
  <2> QED
    BY <1>2, <2>1, <2>2 DEF IInv, ResourceInv, Nothing
<1> QED
  BY <1>4, <1>5, <1>6 DEF IInv

LEMMA GiveUpKeeps ==
    ASSUME IInv, NEW w \in Workers, GiveUp(w)
    PROVE  IInv'
<1>1. /\ End(w)
      /\ UNCHANGED <<users, born, live, role, invites, rest, asked, used, dropped, raced, late>>
  BY DEF GiveUp, data, ids, rest
<1>2. /\ DOMAIN req' = Workers
      /\ \A v \in Workers : /\ req'[v] = req[v] \/ req'[v] = Idle
                            /\ req'[v] = req[v] \/ req'[v].op \notin RosterOps
                            /\ SameRequest(v) \/ req'[v].op \notin ResourceOps
  BY <1>1, EndIs DEF IInv
<1>3. TypeOK'
  BY <1>1 DEF IInv, Typed, TypeOK, rest
<1>4. Typed'
  BY <1>1, <1>2, <1>3, TypedFrame DEF IInv, Typed
<1>5. RosterInv'
  BY <1>1, <1>2, RosterFrame DEF IInv
<1>6. ResourceInv'
  BY <1>1, <1>2, ResourceFrame DEF IInv
<1> QED
  BY <1>4, <1>5, <1>6 DEF IInv

-----------------------------------------------------------------------------
(* Invitations, members and roles. *)

LEMMA WrittenIs ==
    ASSUME NEW t, Written(t)
    PROVE  /\ late \subseteq late'
           /\ \A s : s \in late' /\ s # t => s \in late
           /\ t \in late' \/ (late' = late /\ t \in live /\ ~Deleting(t))
  BY DEF Written

LEMMA IssueKeeps ==
    ASSUME IInv, NEW w \in Workers, IssueInvite(w)
    PROVE  IInv'
<1> DEFINE t == req[w].team
           row == [team |-> t, role |-> req[w].item, open |-> TRUE, valid |-> TRUE]
<1>1. PICK i \in Invites : i \notin used /\ used' = used \cup {i}
                           /\ invites' = [invites EXCEPT ![i] = row]
  BY DEF IssueInvite
<1>2. /\ req[w].op = "invite" /\ Written(t) /\ End(w)
      /\ UNCHANGED <<users, born, live, role, rest, asked, dropped, raced>>
  BY DEF IssueInvite
<1>3. /\ DOMAIN req' = Workers
      /\ \A v \in Workers : /\ req'[v] = req[v] \/ req'[v] = Idle
                            /\ req'[v] = req[v] \/ req'[v].op \notin RosterOps
                            /\ SameRequest(v) \/ req'[v].op \notin ResourceOps
  BY <1>2, EndIs DEF IInv
<1>4. late \subseteq late' /\ t \in live \cup late'
  BY <1>2, WrittenIs
<1>5. t \in Teams /\ req[w].item \in Invited
  BY <1>2 DEF IInv, Typed, TypeOK, Shaped, Idle, RosterInv, RosterOK
<1>6. row \in InviteRows
  BY <1>5 DEF InviteRows, Invited, Roles
<1>7. invites \in [Invites -> InviteRows \cup {None}]
  BY DEF IInv, RosterInv
<1>8. /\ invites' \in [Invites -> InviteRows \cup {None}] /\ invites'[i] = row
      /\ \A j \in Invites \ {i} : invites'[j] = invites[j]
  BY <1>1, <1>6, <1>7
<1>9. Typed'
  <2>1. TypeOK'
    BY <1>2 DEF IInv, Typed, TypeOK, rest
  <2> QED
    BY <1>2, <1>3, <2>1, TypedFrame DEF IInv, Typed
<1>10. RosterInv'
  <2>1. ASSUME NEW v \in Workers PROVE RosterOK(req[v])'
    <3>1. CASE req'[v].op \notin RosterOps
      BY <3>1 DEF RosterOK, RosterOps
    <3>2. CASE req'[v] = req[v]
      <4>1. req[v].op = "accept" => req[v].item \in Invites \ {i}
        BY <1>1 DEF IInv, RosterInv, RosterOK
      <4> QED
        BY <1>1, <1>2, <1>8, <3>2, <4>1 DEF IInv, RosterInv, RosterOK, OwnerAfter, Member, Owner
    <3> QED
      BY <1>3, <3>1, <3>2
  <2>2. MembersOfLiveTeams' /\ OwnerUnlessRaced'
    BY <1>2 DEF IInv, RosterInv, MembersOfLiveTeams, OwnerUnlessRaced, Member, Owner
  <2>3. \A v, x \in Workers : \A s \in Teams :
          v # x /\ (v \in Changing(s))' /\ (x \in Changing(s))' => s \in raced'
    BY <1>2, <1>3 DEF IInv, RosterInv, Changing, RosterOps
  <2>4. \A j \in Invites : invites'[j] # None => j \in used' /\ invites'[j].role \in Invited
    BY <1>1, <1>5, <1>8 DEF IInv, RosterInv
  <2> QED
    BY <1>8, <2>1, <2>2, <2>3, <2>4 DEF RosterInv
<1>11. ResourceInv'
  BY <1>1, <1>2, <1>3, <1>4, <1>8, ResourceFrame DEF IInv
<1> QED
  BY <1>9, <1>10, <1>11 DEF IInv

LEMMA ExpiresKeeps ==
    ASSUME IInv, NEW i \in Invites, InviteExpires(i)
    PROVE  IInv'
<1>1. /\ invites[i] # None /\ invites' = [invites EXCEPT ![i].valid = FALSE]
      /\ UNCHANGED <<users, born, live, role, rest, req, asked, used, dropped, raced, late>>
  BY DEF InviteExpires, ids
<1>2. invites \in [Invites -> InviteRows \cup {None}] /\ invites[i] \in InviteRows
  BY <1>1 DEF IInv, RosterInv
<1>3. /\ invites'[i] \in InviteRows /\ invites'[i].team = invites[i].team
      /\ invites'[i].role = invites[i].role
      /\ \A j \in Invites \ {i} : invites'[j] = invites[j]
  BY <1>1, <1>2 DEF InviteRows
<1>4. invites' \in [Invites -> InviteRows \cup {None}]
  BY <1>1, <1>2, <1>3
<1>5. Typed'
  BY <1>1 DEF IInv, Typed, TypeOK, Shaped, rest
<1>6. RosterInv'
  <2>1. ASSUME NEW v \in Workers PROVE RosterOK(req[v])'
    BY <1>1, <1>3 DEF IInv, RosterInv, RosterOK, OwnerAfter, Member, Owner
  <2>2. MembersOfLiveTeams' /\ OwnerUnlessRaced'
    BY <1>1 DEF IInv, RosterInv, MembersOfLiveTeams, OwnerUnlessRaced, Member, Owner
  <2>3. \A v, x \in Workers : \A s \in Teams :
          v # x /\ (v \in Changing(s))' /\ (x \in Changing(s))' => s \in raced'
    BY <1>1 DEF IInv, RosterInv, Changing
  <2>4. \A j \in Invites : invites'[j] # None => j \in used' /\ invites'[j].role \in Invited
    BY <1>1, <1>3 DEF IInv, RosterInv
  <2> QED
    BY <1>4, <2>1, <2>2, <2>3, <2>4 DEF RosterInv
<1>7. \A v \in Workers : SameRequest(v)
  BY <1>1 DEF SameRequest
<1>8. ResourceInv'
  BY <1>1, <1>3, <1>7, ResourceFrame DEF IInv
<1> QED
  BY <1>5, <1>6, <1>8 DEF IInv

\* The roles of team t when the pairs of S are written
Given(t, S) == [role EXCEPT ![t] = [u \in Users |-> IF \E p \in S : p[1] = u
                                                    THEN (CHOOSE p \in S : p[1] = u)[2]
                                                    ELSE @[u]]]

LEMMA GivenIs ==
    ASSUME NEW t \in Teams, NEW S, S \subseteq Users \X Roles, TypeOK, role' = Given(t, S)
    PROVE  /\ role' \in [Teams -> [Users -> Roles \cup {None}]]
           /\ \A s \in Teams \ {t} : role'[s] = role[s]
           /\ \A u \in Users : (\A p \in S : p[1] # u) => role'[t][u] = role[t][u]
           /\ \A u \in Users : (\E p \in S : p[1] = u) =>
                 \E p \in S : p[1] = u /\ role'[t][u] = p[2]
<1> DEFINE new == [u \in Users |-> IF \E p \in S : p[1] = u
                                   THEN (CHOOSE p \in S : p[1] = u)[2]
                                   ELSE role[t][u]]
<1>1. role \in [Teams -> [Users -> Roles \cup {None}]]
  BY DEF TypeOK
<1>2. \A u \in Users : (\E p \in S : p[1] = u) => \E p \in S : p[1] = u /\ new[u] = p[2]
  <2> SUFFICES ASSUME NEW u \in Users, \E p \in S : p[1] = u
               PROVE  \E p \in S : p[1] = u /\ new[u] = p[2]
    OBVIOUS
  <2>1. (CHOOSE p \in S : p[1] = u) \in S /\ (CHOOSE p \in S : p[1] = u)[1] = u
    OBVIOUS
  <2> QED
    BY <2>1
<1>3. \A u \in Users : (\A p \in S : p[1] # u) => new[u] = role[t][u]
  OBVIOUS
<1>4. \A u \in Users : new[u] \in Roles \cup {None}
  BY <1>1, <1>2, <1>3
<1>5. new \in [Users -> Roles \cup {None}]
  BY <1>4
<1>6. role' = [role EXCEPT ![t] = new]
  BY <1>1 DEF Given
<1> HIDE DEF new
<1> QED
  BY <1>1, <1>2, <1>3, <1>5, <1>6

\* Roles are written, and nothing else that is asked about.
LEMMA RolesTyped ==
    ASSUME Typed, role' \in [Teams -> [Users -> Roles \cup {None}]],
           UNCHANGED <<users, born, live, rest, asked>>, DOMAIN req' = Workers,
           \A v \in Workers : req'[v] = req[v] \/ req'[v] = Idle \/ Shaped(req[v])'
    PROVE  Typed'
<1>1. TypeOK'
  BY DEF Typed, TypeOK, rest
<1> QED
  BY <1>1, TypedFrame DEF Typed

LEMMA AcceptKeeps ==
    ASSUME IInv, NEW w \in Workers, Accept(w)
    PROVE  IInv'
<1> DEFINE r == req[w]
           t == r.team
<1>1. CASE GiveUp(w)
  BY <1>1, GiveUpKeeps
<1>2. CASE ~GiveUp(w)
  <2>1. /\ r.op = "accept" /\ InviteStands(r.item) /\ (r.set = {} \/ ~Member(t, r.by))
        /\ invites' = [invites EXCEPT ![r.item] =
                         IF @ = None THEN None ELSE [@ EXCEPT !.open = FALSE]]
        /\ role' = Given(t, r.set) /\ End(w)
        /\ UNCHANGED <<users, born, live, rest, asked, used, dropped, raced, late>>
    BY <1>2 DEF Accept, Given, ids
  <2>2. /\ r.item \in Invites \cap used /\ r.set \subseteq {r.by} \X Invited
        /\ invites[r.item] # None /\ t \in live
    BY <2>1 DEF IInv, RosterInv, RosterOK, InviteStands
  <2>3. r.by \in Users /\ t \in Teams /\ TypeOK /\ r.set \subseteq Users \X Roles
    BY <2>1, <2>2 DEF IInv, Typed, TypeOK, Shaped, Idle, Invited, Roles
  <2>4. /\ role' \in [Teams -> [Users -> Roles \cup {None}]]
        /\ \A s \in Teams \ {t} : role'[s] = role[s]
        /\ \A u \in Users : (\A p \in r.set : p[1] # u) => role'[t][u] = role[t][u]
        /\ \A u \in Users : (\E p \in r.set : p[1] = u) =>
              \E p \in r.set : p[1] = u /\ role'[t][u] = p[2]
    BY <2>1, <2>3, GivenIs
  <2>5. \A u \in Users : role'[t][u] = role[t][u] \/ (~Member(t, u) /\ role'[t][u] \in Invited)
    BY <2>1, <2>2, <2>4
  <2>6. /\ DOMAIN req' = Workers /\ req'[w] = Idle
        /\ \A v \in Workers \ {w} : req'[v] = req[v]
        /\ \A v \in Workers : /\ req'[v] = req[v] \/ req'[v] = Idle
                              /\ req'[v] = req[v] \/ req'[v].op \notin RosterOps
                              /\ SameRequest(v) \/ req'[v].op \notin ResourceOps
    BY <2>1, EndIs DEF IInv
  <2>7. Typed'
    BY <2>1, <2>4, <2>6, RolesTyped DEF IInv
  <2>8. invites \in [Invites -> InviteRows \cup {None}] /\ invites[r.item] \in InviteRows
    BY <2>2 DEF IInv, RosterInv
  <2>9. /\ invites'[r.item] \in InviteRows /\ invites'[r.item].team = invites[r.item].team
        /\ invites'[r.item].role = invites[r.item].role
        /\ \A j \in Invites \ {r.item} : invites'[j] = invites[j]
    BY <2>1, <2>2, <2>8 DEF InviteRows
  <2>10. invites' \in [Invites -> InviteRows \cup {None}]
    BY <2>1, <2>8, <2>9
  <2>11. \A s \in Teams, u \in Users : /\ Member(s, u) => Member(s, u)'
                                       /\ Owner(s, u) <=> Owner(s, u)'
                                       /\ Member(s, u)' => Member(s, u) \/ s = t
    BY <2>4, <2>5 DEF Member, Owner, Invited, Roles
  <2>12. RosterInv'
    <3>1. ASSUME NEW v \in Workers PROVE RosterOK(req[v])'
      <4>1. CASE req'[v].op \notin RosterOps
        BY <4>1 DEF RosterOK, RosterOps
      <4>2. CASE req'[v] = req[v] /\ req[v].op \in RosterOps
        <5>1. req[v].team \in Teams /\ req[v].rows \subseteq Users /\ RosterOK(req[v])
          BY <4>2 DEF IInv, Typed, TypeOK, Shaped, Idle, RosterInv, RosterOps
        <5>2. \A u \in Users : OwnerAfter(req[v], u) => OwnerAfter(req[v], u)'
          BY <2>11, <4>2, <5>1 DEF OwnerAfter
        <5> QED
          BY <2>1, <2>9, <2>11, <4>2, <5>1, <5>2 DEF RosterOK
      <4> QED
        BY <2>6, <4>1, <4>2
    <3>2. MembersOfLiveTeams' /\ OwnerUnlessRaced'
      BY <2>1, <2>2, <2>3, <2>11 DEF IInv, RosterInv, MembersOfLiveTeams, OwnerUnlessRaced, TypeOK
    <3>3. \A v, x \in Workers : \A s \in Teams :
            v # x /\ (v \in Changing(s))' /\ (x \in Changing(s))' => s \in raced'
      BY <2>1, <2>6 DEF IInv, RosterInv, Changing, RosterOps
    <3>4. \A j \in Invites : invites'[j] # None => j \in used' /\ invites'[j].role \in Invited
      BY <2>1, <2>2, <2>9 DEF IInv, RosterInv
    <3> QED
      BY <2>10, <3>1, <3>2, <3>3, <3>4 DEF RosterInv
  <2>13. ResourceInv'
    BY <2>1, <2>2, <2>6, <2>9, ResourceFrame DEF IInv
  <2> QED
    BY <2>7, <2>12, <2>13 DEF IInv
<1> QED
  BY <1>1, <1>2

LEMMA EndWithoutIs ==
    ASSUME Typed, born \subseteq born', NEW w \in Workers, NEW t, NEW gone,
           EndWithout(w, t, gone)
    PROVE  /\ DOMAIN req' = Workers /\ req'[w] = Idle
           /\ \A v \in Workers \ {w} :
                /\ SameRequest(v) /\ req'[v].by = req[v].by
                /\ req'[v] = req[v] \/ Shaped(req[v])'
                /\ req[v].op \in RosterOps \cup ResourceOps => req'[v].rows \subseteq req[v].rows
                /\ req[v].op \in RosterOps \cup ResourceOps /\ req[v].team = t =>
                     req'[v].rows \cap gone = {}
<1>1. DOMAIN req' = Workers /\ req'[w] = Idle
  BY DEF EndWithout
<1>2. ASSUME NEW v \in Workers \ {w}
      PROVE  /\ SameRequest(v) /\ req'[v].by = req[v].by
             /\ req'[v] = req[v] \/ Shaped(req[v])'
             /\ req[v].op \in RosterOps \cup ResourceOps => req'[v].rows \subseteq req[v].rows
             /\ req[v].op \in RosterOps \cup ResourceOps /\ req[v].team = t =>
                  req'[v].rows \cap gone = {}
  <2>1. CASE req[v] = Idle \/ req[v].team # t
    <3>1. req'[v] = req[v]
      BY <2>1 DEF EndWithout
    <3>2. req[v].op \in RosterOps \cup ResourceOps => req[v].team # t
      BY <2>1 DEF Idle, RosterOps, ResourceOps
    <3> QED
      BY <3>1, <3>2 DEF SameRequest
  <2>2. CASE req[v] # Idle /\ req[v].team = t
    <3>1. req'[v] = [req[v] EXCEPT !.rows = @ \ gone] /\ Shaped(req[v])
      BY <2>2 DEF EndWithout, Typed
    <3>2. req'[v] = [op |-> req[v].op, by |-> req[v].by, team |-> req[v].team,
                     who |-> req[v].who, item |-> req[v].item, set |-> req[v].set,
                     rows |-> req[v].rows \ gone]
      BY <3>1 DEF Shaped
    <3> QED
      BY <3>1, <3>2 DEF SameRequest, Shaped
  <2> QED
    BY <2>1, <2>2
<1> QED
  BY <1>1, <1>2

\* A change of the roles of a team by the one request that is at work on them
LEMMA ChangeKeeps ==
    ASSUME IInv, NEW w \in Workers, NEW t \in Teams, w \in Changing(t),
           role' \in [Teams -> [Users -> Roles \cup {None}]],
           \A s \in Teams \ {t} : role'[s] = role[s],
           \A u \in Users : Member(t, u)' => Member(t, u),
           t \in live \ raced => \E u \in Users : Owner(t, u)',
           UNCHANGED <<users, born, live, invites, rest, asked, used, dropped, raced, late>>,
           DOMAIN req' = Workers, req'[w] = Idle,
           \A v \in Workers \ {w} :
              /\ SameRequest(v) /\ req'[v].by = req[v].by
              /\ req'[v] = req[v] \/ Shaped(req[v])'
              /\ req[v].op \in RosterOps \cup ResourceOps => req'[v].rows \subseteq req[v].rows
              /\ req[v].op \in RosterOps \cup ResourceOps /\ req[v].team = t =>
                   \A u \in req'[v].rows : Member(t, u)' \/ ~Member(t, u)
    PROVE  IInv'
<1>1. Typed'
  BY RolesTyped DEF IInv
<1>2. ResourceInv'
  BY ResourceFrame DEF IInv, Idle, ResourceOps
<1>3. RosterInv'
  <2>1. ASSUME NEW v \in Workers PROVE RosterOK(req[v])'
    <3>1. CASE req'[v].op \notin RosterOps
      BY <3>1 DEF RosterOK, RosterOps
    <3>2. CASE req'[v].op \in RosterOps
      <4>1. v # w /\ SameRequest(v) /\ req'[v].by = req[v].by
        BY <3>2 DEF Idle, RosterOps
      <4>2. req[v].op \in RosterOps
        BY <3>2, <4>1 DEF SameRequest
      <4>3. req[v].team \in Teams /\ RosterOK(req[v]) /\ req[v].rows \subseteq Users
        BY <4>2 DEF IInv, Typed, TypeOK, Shaped, Idle, RosterInv, RosterOps
      <4>4. \A u \in req'[v].rows : Member(req[v].team, u) => Member(req[v].team, u)'
        BY <4>1, <4>2, <4>3 DEF Member, SameRequest
      <4>5. req[v].op \in {"patch", "remove"} /\ req[v].team = t => t \in raced'
        BY <4>1 DEF IInv, RosterInv, Changing
      <4>6. req[v].team # t =>
              \A u \in Users : /\ OwnerAfter(req[v], u) => OwnerAfter(req[v], u)'
                               /\ Owner(req[v].team, u)' => Owner(req[v].team, u)
        BY <4>1, <4>3 DEF OwnerAfter, Owner, SameRequest
      <4> QED
        BY <4>1, <4>2, <4>3, <4>4, <4>5, <4>6 DEF RosterOK, SameRequest
    <3> QED
      BY <3>1, <3>2
  <2>2. MembersOfLiveTeams'
    BY DEF IInv, RosterInv, MembersOfLiveTeams, Member
  <2>3. OwnerUnlessRaced'
    BY DEF IInv, Typed, TypeOK, RosterInv, OwnerUnlessRaced, Owner
  <2>4. \A v, x \in Workers : \A s \in Teams :
          v # x /\ (v \in Changing(s))' /\ (x \in Changing(s))' => s \in raced'
    BY DEF IInv, RosterInv, Changing, SameRequest, Idle
  <2>5. \A j \in Invites : invites'[j] # None => j \in used' /\ invites'[j].role \in Invited
    BY DEF IInv, RosterInv
  <2> QED
    BY <2>1, <2>2, <2>3, <2>4, <2>5 DEF IInv, RosterInv
<1> QED
  BY <1>1, <1>2, <1>3 DEF IInv

LEMMA PatchKeeps ==
    ASSUME IInv, NEW w \in Workers, Patch(w)
    PROVE  IInv'
<1> DEFINE r == req[w]
<1>0. PICK t : t = r.team
  OBVIOUS
<1>1. CASE GiveUp(w)
  BY <1>1, GiveUpKeeps
<1>2. CASE ~GiveUp(w)
  <2>1. /\ r.op = "patch" /\ (\A p \in r.set : p[1] \in r.rows)
        /\ role' = Given(t, r.set) /\ End(w)
        /\ UNCHANGED <<users, born, live, invites, rest, asked, used, dropped, raced, late>>
    BY <1>0, <1>2 DEF Patch, Given, ids
  <2>2. /\ t \in Teams /\ TypeOK /\ r.set \subseteq Users \X Roles /\ r.rows \subseteq Users
        /\ \A u \in r.rows : Member(t, u)
        /\ t \in live \ raced => \E u \in Users : OwnerAfter(r, u)
        /\ w \in Changing(t)
    BY <1>0, <2>1 DEF IInv, Typed, TypeOK, Shaped, Idle, RosterInv, RosterOK, Changing
  <2>3. /\ role' \in [Teams -> [Users -> Roles \cup {None}]]
        /\ \A s \in Teams \ {t} : role'[s] = role[s]
        /\ \A u \in Users : (\A p \in r.set : p[1] # u) => role'[t][u] = role[t][u]
        /\ \A u \in Users : (\E p \in r.set : p[1] = u) =>
              \E p \in r.set : p[1] = u /\ role'[t][u] = p[2]
    BY <2>1, <2>2, GivenIs
  <2>4. \A u \in Users : Member(t, u) <=> Member(t, u)'
    <3> SUFFICES ASSUME NEW u \in Users PROVE Member(t, u) <=> Member(t, u)'
      OBVIOUS
    <3>1. CASE \A p \in r.set : p[1] # u
      BY <2>1, <2>3, <3>1 DEF Member
    <3>2. CASE \E p \in r.set : p[1] = u
      <4>1. Member(t, u)
        BY <2>1, <2>2, <3>2
      <4>2. role'[t][u] \in Roles
        BY <2>2, <2>3, <3>2
      <4> QED
        BY <4>1, <4>2 DEF Member, Roles
    <3> QED
      BY <3>1, <3>2
  <2>5. t \in live \ raced => \E u \in Users : Owner(t, u)'
    <3> SUFFICES ASSUME t \in live \ raced PROVE \E u \in Users : Owner(t, u)'
      OBVIOUS
    <3>1. PICK u \in Users : OwnerAfter(r, u)
      BY <2>2
    <3>2. CASE \E p \in r.set : p[1] = u
      <4>1. role'[t][u] = "owner"
        BY <1>0, <2>3, <3>1, <3>2 DEF OwnerAfter
      <4> QED
        BY <2>1, <4>1 DEF Owner
    <3>3. CASE \A p \in r.set : p[1] # u
      BY <1>0, <2>1, <2>3, <3>1, <3>3 DEF OwnerAfter, Owner
    <3> QED
      BY <3>2, <3>3
  <2>6. /\ DOMAIN req' = Workers /\ req'[w] = Idle
        /\ \A v \in Workers \ {w} : req'[v] = req[v]
    BY <2>1, EndIs DEF IInv
  <2>7. \A v \in Workers \ {w} :
           /\ SameRequest(v) /\ req'[v].by = req[v].by
           /\ req'[v] = req[v] \/ Shaped(req[v])'
           /\ req[v].op \in RosterOps \cup ResourceOps => req'[v].rows \subseteq req[v].rows
           /\ req[v].op \in RosterOps \cup ResourceOps /\ req[v].team = t =>
                \A u \in req'[v].rows : Member(t, u)' \/ ~Member(t, u)
    BY <2>2, <2>4, <2>6 DEF SameRequest, IInv, Typed, Shaped, Idle, RosterOps, ResourceOps
  <2> QED
    BY <2>1, <2>2, <2>3, <2>4, <2>5, <2>6, <2>7, ChangeKeeps
<1> QED
  BY <1>1, <1>2

LEMMA RemoveKeeps ==
    ASSUME IInv, NEW w \in Workers, Remove(w)
    PROVE  IInv'
<1> DEFINE r == req[w]
<1>0. PICK t : t = r.team
  OBVIOUS
<1>1. CASE GiveUp(w)
  BY <1>1, GiveUpKeeps
<1>2. CASE ~GiveUp(w)
  <2>1. /\ r.op = "remove" /\ r.who \in r.rows
        /\ role' = [role EXCEPT ![t][r.who] = None] /\ EndWithout(w, t, {r.who})
        /\ UNCHANGED <<users, born, live, invites, rest, asked, used, dropped, raced, late>>
    BY <1>0, <1>2 DEF Remove, ids
  <2>2. /\ t \in Teams /\ role \in [Teams -> [Users -> Roles \cup {None}]] /\ r.who \in Users
        /\ t \in live \ raced => ~Owner(t, r.who)
        /\ w \in Changing(t)
    BY <1>0, <2>1 DEF IInv, Typed, TypeOK, Shaped, Idle, RosterInv, RosterOK, Changing
  <2>3. /\ role' \in [Teams -> [Users -> Roles \cup {None}]]
        /\ \A s \in Teams \ {t} : role'[s] = role[s]
        /\ role'[t][r.who] = None
        /\ \A u \in Users \ {r.who} : role'[t][u] = role[t][u]
    BY <2>1, <2>2
  <2>4. /\ \A u \in Users : Member(t, u)' => Member(t, u)
        /\ \A u \in Users \ {r.who} : /\ Member(t, u) => Member(t, u)'
                                      /\ Owner(t, u) => Owner(t, u)'
    BY <2>1, <2>3 DEF Member, Owner
  <2>5. t \in live \ raced => \E u \in Users : Owner(t, u)'
    BY <2>2, <2>4 DEF IInv, RosterInv, OwnerUnlessRaced
  <2>6. /\ DOMAIN req' = Workers /\ req'[w] = Idle
        /\ \A v \in Workers \ {w} :
             /\ SameRequest(v) /\ req'[v].by = req[v].by
             /\ req'[v] = req[v] \/ Shaped(req[v])'
             /\ req[v].op \in RosterOps \cup ResourceOps => req'[v].rows \subseteq req[v].rows
             /\ req[v].op \in RosterOps \cup ResourceOps /\ req[v].team = t =>
                  req'[v].rows \cap {r.who} = {}
    BY <2>1, EndWithoutIs DEF IInv
  <2>7. \A v \in Workers \ {w} :
           req[v].op \in RosterOps \cup ResourceOps /\ req[v].team = t =>
             \A u \in req'[v].rows : Member(t, u)' \/ ~Member(t, u)
    <3> SUFFICES ASSUME NEW v \in Workers \ {w}, req[v].op \in RosterOps \cup ResourceOps,
                        req[v].team = t, NEW u \in req'[v].rows
                 PROVE  Member(t, u)' \/ ~Member(t, u)
      OBVIOUS
    <3>1. req[v].rows \subseteq Users
      BY DEF IInv, Typed, Shaped, Idle, RosterOps, ResourceOps
    <3>2. u \in Users \ {r.who}
      BY <2>6, <3>1
    <3> QED
      BY <2>4, <3>2
  <2>8. UNCHANGED <<users, born, live, invites, rest, asked, used, dropped, raced, late>>
    BY <2>1
  <2> QED
    BY <2>2, <2>3, <2>4, <2>5, <2>6, <2>7, <2>8, ChangeKeeps
<1> QED
  BY <1>1, <1>2

LEMMA DeleteUserKeeps ==
    ASSUME IInv, NEW u \in Users, DeleteUser(u)
    PROVE  IInv'
<1>1. /\ asked < MaxRequests /\ users' = users \ {u} /\ asked' = asked + 1
      /\ UNCHANGED <<born, live, role, invites, rest, req, used, dropped, raced, late>>
  BY DEF DeleteUser, ids
<1>2. \A v \in Workers : SameRequest(v)
  BY <1>1 DEF SameRequest
<1>3. Typed'
  BY <1>1, TypedFrame DEF IInv, Typed, TypeOK, rest
<1>4. RosterInv'
  BY <1>1, RosterFrame DEF IInv
<1>5. ResourceInv'
  BY <1>1, <1>2, ResourceFrame DEF IInv
<1> QED
  BY <1>3, <1>4, <1>5 DEF IInv

LEMMA CreateTeamKeeps ==
    ASSUME IInv, NEW w \in Workers, NEW u \in Users, NEW t \in Teams, CreateTeam(w, u, t)
    PROVE  IInv'
<1>1. /\ asked < MaxRequests /\ asked' = asked + 1
      /\ t \in Teams \ born /\ born' = born \cup {t} /\ live' = live \cup {t}
      /\ role' = [role EXCEPT ![t][u] = "owner"]
      /\ UNCHANGED <<users, invites, rest, req, used, dropped, raced, late>>
  BY DEF CreateTeam, ids
<1>2. TypeOK /\ DOMAIN req = Workers /\ \A v \in Workers : req[v] = Idle \/ Shaped(req[v])
  BY DEF IInv, Typed
<1>3. /\ role' \in [Teams -> [Users -> Roles \cup {None}]]
      /\ \A s \in Teams \ {t} : role'[s] = role[s]
      /\ role'[t][u] = "owner"
  BY <1>1, <1>2 DEF TypeOK, Roles
<1>4. Typed'
  <2>1. TypeOK'
    BY <1>1, <1>2, <1>3 DEF TypeOK, rest
  <2> QED
    BY <1>1, <1>2, <2>1, TypedFrame DEF IInv, Typed
<1>5. \A s \in born, x \in Users : /\ Member(s, x) <=> Member(s, x)'
                                   /\ Owner(s, x) <=> Owner(s, x)'
  BY <1>1, <1>2, <1>3 DEF Member, Owner, TypeOK
<1>6. RosterInv'
  <2>1. ASSUME NEW v \in Workers PROVE RosterOK(req[v])'
    <3>1. CASE req[v].op \notin RosterOps
      BY <1>1, <3>1 DEF RosterOK, RosterOps
    <3>2. CASE req[v].op \in RosterOps
      <4>1. req[v].team \in born /\ req[v].rows \subseteq Users /\ RosterOK(req[v])
        BY <1>2, <3>2 DEF IInv, Shaped, Idle, RosterInv, RosterOps
      <4>2. req[v].team \in live' => req[v].team \in live
        BY <1>1, <4>1
      <4>3. \A x \in Users : OwnerAfter(req[v], x) => OwnerAfter(req[v], x)'
        BY <1>1, <1>5, <4>1 DEF OwnerAfter
      <4> QED
        BY <1>1, <1>5, <4>1, <4>2, <4>3 DEF RosterOK
    <3> QED
      BY <3>1, <3>2
  <2>2. MembersOfLiveTeams'
    BY <1>1, <1>2, <1>3 DEF IInv, RosterInv, MembersOfLiveTeams, Member
  <2>3. OwnerUnlessRaced'
    BY <1>1, <1>2, <1>3 DEF IInv, RosterInv, OwnerUnlessRaced, Owner, TypeOK
  <2>4. \A v, x \in Workers : \A s \in Teams :
          v # x /\ (v \in Changing(s))' /\ (x \in Changing(s))' => s \in raced'
    BY <1>1 DEF IInv, RosterInv, Changing
  <2> QED
    BY <1>1, <2>1, <2>2, <2>3, <2>4 DEF IInv, RosterInv
<1>7. \A v \in Workers : SameRequest(v)
  BY <1>1 DEF SameRequest
<1>8. ResourceInv'
  BY <1>1, <1>7, ResourceFrame DEF IInv, ResourceInv
<1> QED
  BY <1>4, <1>6, <1>8 DEF IInv

-----------------------------------------------------------------------------
(* Resources, the permissions on them, groups and tasks. *)

\* Steps that write nothing about the roster
LEMMA WriteFrame ==
    ASSUME IInv, UNCHANGED <<users, born, live, role, invites, raced>>,
           asked' \in 0..MaxRequests, used \subseteq used', ResourceInv',
           grants' \in [Resources -> [Users -> {0} \cup Levels]],
           groupGrants' \in [Teams -> [Users -> {0} \cup Levels]], groups' \subseteq Teams,
           DOMAIN req' = Workers,
           \A v \in Workers : \/ req'[v] = req[v] \/ req'[v] = Idle
                              \/ Shaped(req[v])' /\ req'[v].op \notin RosterOps
    PROVE  IInv'
<1>1. TypeOK'
  BY DEF IInv, Typed, TypeOK
<1>2. Typed'
  BY <1>1, TypedFrame DEF IInv, Typed
<1>3. \A v \in Workers : req'[v] = req[v] \/ req'[v].op \notin RosterOps
  BY DEF Idle, RosterOps
<1>4. RosterInv'
  BY <1>3, RosterFrame DEF IInv
<1> QED
  BY <1>2, <1>4 DEF IInv

\* What the other requests know stays true, unless they delete a team for which something
\* was written.
LEMMA OthersOK ==
    ASSUME Typed, ResourceInv, UNCHANGED live,
           used \subseteq used', dropped \subseteq dropped', late \subseteq late',
           groups \subseteq groups',
           \A i \in Resources \cap used :
              /\ res'[i] # None => res[i] # None /\ res'[i].team = res[i].team
              /\ res'[i] = None => res[i] = None \/ i \in dropped',
           \A t \in born \ late' : Deleting(t) =>
              /\ OwnedBy(t)' \subseteq OwnedBy(t) /\ TasksOf(t)' \subseteq TasksOf(t)
              /\ t \in groups' => t \in groups,
           NEW v \in Workers, SameRequest(v) \/ req'[v].op \notin ResourceOps
    PROVE  ResourceOK(req[v])'
<1>1. CASE req'[v].op \notin ResourceOps
  BY <1>1 DEF ResourceOK, ResourceOps
<1>2. CASE SameRequest(v) /\ req[v].op \in ResourceOps
  <2>1. ResourceOK(req[v]) /\ req[v].team \in born
    BY <1>2 DEF ResourceInv, Typed, Shaped, Idle, ResourceOps
  <2>2. Names(req[v]) => Names(req[v])'
    BY <1>2 DEF Names, SameRequest
  <2>3. req[v].op = "delete" /\ req[v].team \notin late' => Found(req[v])'
    <3> SUFFICES ASSUME req[v].op = "delete", req[v].team \notin late' PROVE Found(req[v])'
      OBVIOUS
    <3>1. Deleting(req[v].team) /\ Found(req[v])
      BY <2>1 DEF Deleting, ResourceOK
    <3>2. PICK t : t = req[v].team /\ t = req'[v].team
      BY <1>2 DEF SameRequest
    <3>3. OwnedBy(t)' \subseteq OwnedBy(t) /\ TasksOf(t)' \subseteq TasksOf(t)
          /\ (t \in groups' => t \in groups)
      BY <2>1, <3>1, <3>2
    <3> QED
      BY <1>2, <3>1, <3>2, <3>3 DEF Found, SameRequest, OwnedBy, TasksOf
  <2> QED
    BY <1>2, <2>1, <2>2, <2>3 DEF ResourceOK, SameRequest
<1> QED
  BY <1>1, <1>2 DEF SameRequest

\* Steps that grant or revoke permissions on one resource
LEMMA GrantsKeep ==
    ASSUME IInv, NEW i \in Resources \cap used,
           grants' \in [Resources -> [Users -> {0} \cup Levels]],
           \A x \in Resources \ {i} : grants'[x] = grants[x],
           grants' = grants \/ (res[i] = None /\ i \notin dropped => late' # {}),
           late \subseteq late', asked' \in 0..MaxRequests,
           UNCHANGED <<users, born, live, role, invites, res, groups, groupGrants, tasks, used,
                       dropped, raced>>,
           DOMAIN req' = Workers,
           \A v \in Workers :
              \/ req'[v] = req[v] \/ req'[v] = Idle
              \/ /\ Shaped(req[v])' /\ req[v].op = "share" /\ req'[v].op = "share"
                 /\ req'[v].item = req[v].item /\ req'[v].team = req[v].team
                 /\ req'[v].set = {}
    PROVE  IInv'
<1>1. \A t : OwnedBy(t)' = OwnedBy(t) /\ TasksOf(t)' = TasksOf(t)
  BY DEF OwnedBy, TasksOf
<1>2. ASSUME NEW v \in Workers PROVE ResourceOK(req[v])'
  <2>1. CASE SameRequest(v) \/ req'[v].op \notin ResourceOps
    BY <1>1, <2>1, OthersOK DEF IInv
  <2>2. CASE /\ req[v].op = "share" /\ req'[v].op = "share"
             /\ req'[v].item = req[v].item /\ req'[v].team = req[v].team
             /\ req'[v].set = {}
    BY <2>2 DEF IInv, ResourceInv, ResourceOK, Names
  <2> QED
    BY <2>1, <2>2 DEF SameRequest, Idle, ResourceOps
<1>3. NothingLeftBehind'
  <2>1. late' = {} =>
          \A r \in Resources \ dropped : res[r] = None => grants'[r] = Nothing
    BY DEF IInv, ResourceInv, NothingLeftBehind
  <2> QED
    BY <1>1, <2>1 DEF IInv, ResourceInv, NothingLeftBehind, Nothing
<1>4. ResourceInv'
  BY <1>2, <1>3 DEF IInv, ResourceInv, Nothing
<1> QED
  BY <1>4, WriteFrame DEF IInv, Typed, TypeOK, RosterOps

LEMMA GrantKeeps ==
    ASSUME IInv, NEW w \in Workers, Grant(w)
    PROVE  IInv'
<1> DEFINE r == req[w]
<1>1. CASE GiveUp(w)
  BY <1>1, GiveUpKeeps
<1>2. CASE ~GiveUp(w)
  <2>1. /\ r.op = "grant" /\ Written(r.team) /\ End(w)
        /\ UNCHANGED <<users, born, live, role, invites, res, groups, groupGrants, tasks, asked,
                       used, dropped, raced>>
    BY <1>2 DEF Grant, roster, ids
  <2>2. PICK level \in r.set \ {0} : grants' = [grants EXCEPT ![r.item][r.who] = level]
    BY <1>2 DEF Grant
  <2>3. Names(r) /\ r.who \in Users /\ r.set \subseteq {0} \cup Levels
    BY <2>1 DEF IInv, ResourceInv, ResourceOK
  <2>4. grants \in [Resources -> [Users -> {0} \cup Levels]] /\ r.item \in Resources \cap used
    BY <2>3 DEF IInv, Typed, TypeOK, Names
  <2>5. /\ grants' \in [Resources -> [Users -> {0} \cup Levels]]
        /\ \A x \in Resources \ {r.item} : grants'[x] = grants[x]
    BY <2>2, <2>3, <2>4
  <2>6. late \subseteq late' /\ (r.team \notin live => late' # {})
    BY <2>1, WrittenIs
  <2>7. res[r.item] = None /\ r.item \notin dropped => late' # {}
    BY <2>3, <2>6 DEF Names
  <2>8. DOMAIN req' = Workers /\ \A v \in Workers : req'[v] = req[v] \/ req'[v] = Idle
    BY <2>1, EndIs DEF IInv
  <2> QED
    BY <2>1, <2>4, <2>5, <2>6, <2>7, <2>8, GrantsKeep DEF IInv, Typed, TypeOK
<1> QED
  BY <1>1, <1>2

LEMMA RevokeKeeps ==
    ASSUME IInv, NEW w \in Workers, NEW u \in Users, NEW i \in Resources, NEW target \in Users,
           Revoke(w, u, i, target)
    PROVE  IInv'
<1>1. /\ res[i] # None /\ asked < MaxRequests /\ asked' = asked + 1
      /\ grants' = [grants EXCEPT ![i][target] = 0]
      /\ UNCHANGED <<users, born, live, role, invites, res, groups, groupGrants, tasks, req,
                     used, dropped, raced, late>>
  BY DEF Revoke, May, roster, ids
<1>2. i \in used /\ grants \in [Resources -> [Users -> {0} \cup Levels]]
  BY <1>1 DEF IInv, Typed, TypeOK, ResourceInv
<1>3. /\ grants' \in [Resources -> [Users -> {0} \cup Levels]]
      /\ \A x \in Resources \ {i} : grants'[x] = grants[x]
  BY <1>1, <1>2
<1>4. asked' \in 0..MaxRequests
  BY <1>1 DEF IInv, Typed, TypeOK
<1> QED
  BY <1>1, <1>2, <1>3, <1>4, GrantsKeep DEF IInv, Typed

LEMMA SharePermissionsKeeps ==
    ASSUME IInv, NEW w \in Workers, SharePermissions(w)
    PROVE  IInv'
<1> DEFINE r == req[w]
           new == [u \in Users |-> IF \E p \in r.set : p[1] = u
                                   THEN (CHOOSE p \in r.set : p[1] = u)[2]
                                   ELSE 0]
<1>1. CASE GiveUp(w)
  BY <1>1, GiveUpKeeps
<1>2. CASE ~GiveUp(w)
  <2>1. /\ r.op = "share" /\ Written(r.team) /\ req' = [req EXCEPT ![w].set = {}]
        /\ grants' = [grants EXCEPT ![r.item] = new]
        /\ UNCHANGED <<users, born, live, role, invites, res, groups, groupGrants, tasks, asked,
                       used, dropped, raced>>
    BY <1>2 DEF SharePermissions, roster, ids
  <2>2. Names(r) /\ r.set \subseteq Users \X Levels
    BY <2>1 DEF IInv, ResourceInv, ResourceOK
  <2>3. grants \in [Resources -> [Users -> {0} \cup Levels]] /\ r.item \in Resources \cap used
    BY <2>2 DEF IInv, Typed, TypeOK, Names
  <2>4. new \in [Users -> {0} \cup Levels]
    <3>1. ASSUME NEW u \in Users PROVE new[u] \in {0} \cup Levels
      <4>1. CASE \E p \in r.set : p[1] = u
        <5>1. (CHOOSE p \in r.set : p[1] = u) \in r.set
          BY <4>1
        <5> QED
          BY <2>2, <4>1, <5>1
      <4>2. CASE \A p \in r.set : p[1] # u
        BY <4>2
      <4> QED
        BY <4>1, <4>2
    <3> QED
      BY <3>1
  <2> HIDE DEF new
  <2>5. /\ grants' \in [Resources -> [Users -> {0} \cup Levels]]
        /\ \A x \in Resources \ {r.item} : grants'[x] = grants[x]
    BY <2>1, <2>3, <2>4
  <2>6. late \subseteq late' /\ (r.team \notin live => late' # {})
    BY <2>1, WrittenIs
  <2>7. res[r.item] = None /\ r.item \notin dropped => late' # {}
    BY <2>2, <2>6 DEF Names
  <2>8. Shaped(r) /\ DOMAIN req = Workers
    BY <2>1 DEF IInv, Typed, Idle
  <2>9. /\ DOMAIN req' = Workers /\ \A v \in Workers \ {w} : req'[v] = req[v]
        /\ req'[w] = [op |-> r.op, by |-> r.by, team |-> r.team, who |-> r.who,
                      item |-> r.item, set |-> {}, rows |-> r.rows]
    BY <2>1, <2>8 DEF Shaped
  <2>10. /\ Shaped(req[w])' /\ req'[w].op = "share" /\ req'[w].set = {}
         /\ req'[w].item = r.item /\ req'[w].team = r.team
    BY <2>1, <2>8, <2>9 DEF Shaped
  <2> QED
    BY <2>1, <2>3, <2>5, <2>6, <2>7, <2>9, <2>10, GrantsKeep DEF IInv, Typed, TypeOK
<1> QED
  BY <1>1, <1>2

LEMMA GrantCreatorKeeps ==
    ASSUME IInv, NEW w \in Workers, GrantCreator(w)
    PROVE  IInv'
<1> DEFINE r == req[w]
<1>1. /\ r.op \in {"own", "share"} /\ End(w)
      /\ \/ UNCHANGED <<grants, late>>
         \/ grants' = [grants EXCEPT ![r.item][r.by] = Admin] /\ Written(r.team)
      /\ UNCHANGED <<users, born, live, role, invites, res, groups, groupGrants, tasks, asked,
                     used, dropped, raced>>
  BY DEF GrantCreator, roster, ids
<1>2. Names(r) /\ r.by \in Users
  BY <1>1 DEF IInv, Typed, Shaped, Idle, ResourceInv, ResourceOK
<1>3. grants \in [Resources -> [Users -> {0} \cup Levels]] /\ r.item \in Resources \cap used
  BY <1>2 DEF IInv, Typed, TypeOK, Names
<1>4. /\ grants' \in [Resources -> [Users -> {0} \cup Levels]]
      /\ \A x \in Resources \ {r.item} : grants'[x] = grants[x]
  BY <1>1, <1>2, <1>3 DEF Levels
<1>5. /\ late \subseteq late'
      /\ grants' = grants \/ (res[r.item] = None /\ r.item \notin dropped => late' # {})
  <2>1. CASE UNCHANGED <<grants, late>>
    BY <2>1
  <2>2. CASE Written(r.team)
    BY <1>2, <2>2, WrittenIs DEF Names
  <2> QED
    BY <1>1, <2>1, <2>2
<1>6. DOMAIN req' = Workers /\ \A v \in Workers : req'[v] = req[v] \/ req'[v] = Idle
  BY <1>1, EndIs DEF IInv
<1>7. asked' \in 0..MaxRequests
  BY <1>1 DEF IInv, Typed, TypeOK
<1> QED
  BY <1>1, <1>3, <1>4, <1>5, <1>6, <1>7, GrantsKeep

LEMMA GroupKeeps ==
    ASSUME IInv, NEW w \in Workers, Group(w)
    PROVE  IInv'
<1> DEFINE t == req[w].team
<1>1. /\ req[w].op = "group" /\ groups' = groups \cup {t} /\ Written(t) /\ End(w)
      /\ UNCHANGED <<users, born, live, role, invites, res, grants, groupGrants, tasks, asked,
                     used, dropped, raced>>
  BY DEF Group, roster, ids
<1>2. t \in born /\ t \in Teams
  BY <1>1 DEF IInv, Typed, TypeOK, Shaped, Idle
<1>3. late \subseteq late' /\ (t \in late' \/ (late' = late /\ t \in live /\ ~Deleting(t)))
  BY <1>1, WrittenIs
<1>4. \A s : OwnedBy(s)' = OwnedBy(s) /\ TasksOf(s)' = TasksOf(s)
  BY <1>1 DEF OwnedBy, TasksOf
<1>5. /\ DOMAIN req' = Workers /\ \A v \in Workers : req'[v] = req[v] \/ req'[v] = Idle
      /\ \A v \in Workers : SameRequest(v) \/ req'[v].op \notin ResourceOps
  BY <1>1, EndIs DEF IInv
<1>6. \A v \in Workers : ResourceOK(req[v])'
  BY <1>1, <1>3, <1>4, <1>5, OthersOK DEF IInv
<1>7. NothingLeftBehind'
  <2>1. \A s \in born' \ (live' \cup late') : s \in born \ (live \cup late) /\ s # t
    BY <1>1, <1>3
  <2>2. \A s \in born' \ (live' \cup late') :
          /\ OwnedBy(s)' = {}
          /\ \A k \in Tasks : tasks'[k] # None => tasks'[k].team # s
          /\ s \notin groups' /\ groupGrants'[s] = Nothing
          /\ \A i \in Invites : invites'[i] # None => invites'[i].team # s
    BY <1>1, <1>4, <2>1 DEF IInv, ResourceInv, NothingLeftBehind
  <2> QED
    BY <1>1, <1>3, <2>2 DEF IInv, ResourceInv, NothingLeftBehind, Nothing
<1>8. ResourceInv'
  BY <1>1, <1>3, <1>6, <1>7 DEF IInv, ResourceInv, Nothing
<1> QED
  BY <1>1, <1>2, <1>5, <1>8, WriteFrame DEF IInv, Typed, TypeOK

\* Steps that write a permission on the group of a team
LEMMA GroupGrantsKeep ==
    ASSUME IInv, NEW t \in born, t \in groups \/ t \in late',
           groupGrants' \in [Teams -> [Users -> {0} \cup Levels]],
           \A s \in Teams \ {t} : groupGrants'[s] = groupGrants[s],
           late \subseteq late', asked' \in 0..MaxRequests,
           UNCHANGED <<users, born, live, role, invites, res, grants, groups, tasks, used,
                       dropped, raced>>,
           DOMAIN req' = Workers,
           \A v \in Workers : req'[v] = req[v] \/ req'[v] = Idle
    PROVE  IInv'
<1>1. \A s : OwnedBy(s)' = OwnedBy(s) /\ TasksOf(s)' = TasksOf(s)
  BY DEF OwnedBy, TasksOf
<1>2. \A v \in Workers : SameRequest(v) \/ req'[v].op \notin ResourceOps
  BY DEF SameRequest, Idle, ResourceOps
<1>3. \A v \in Workers : ResourceOK(req[v])'
  BY <1>1, <1>2, OthersOK DEF IInv
<1>4. NothingLeftBehind'
  <2>1. ASSUME NEW s \in born \ (live \cup late')
        PROVE  s \notin groups /\ groupGrants'[s] = Nothing
    <3>1. s \notin groups /\ groupGrants[s] = Nothing
      BY <2>1 DEF IInv, ResourceInv, NothingLeftBehind
    <3> QED
      BY <2>1, <3>1 DEF IInv, Typed, TypeOK
  <2> QED
    BY <1>1, <2>1 DEF IInv, ResourceInv, NothingLeftBehind, Nothing
<1>5. ResourceInv'
  BY <1>3, <1>4 DEF IInv, ResourceInv, Nothing
<1> QED
  BY <1>5, WriteFrame DEF IInv, Typed, TypeOK

LEMMA GroupGrantKeeps ==
    ASSUME IInv, NEW w \in Workers, GroupGrant(w)
    PROVE  IInv'
<1> DEFINE r == req[w]
           t == r.team
<1>1. CASE GiveUp(w)
  BY <1>1, GiveUpKeeps
<1>2. CASE ~GiveUp(w)
  <2>1. /\ r.op = "group_grant" /\ Written(t) /\ End(w)
        /\ UNCHANGED <<users, born, live, role, invites, res, grants, groups, tasks, asked,
                       used, dropped, raced>>
    BY <1>2 DEF GroupGrant, roster, ids
  <2>2. PICK level \in r.set \ {0} : groupGrants' = [groupGrants EXCEPT ![t][r.who] = level]
    BY <1>2 DEF GroupGrant
  <2>3. /\ r.who \in Users /\ r.set \subseteq {0} \cup Levels
        /\ t \in live => t \in groups
    BY <2>1 DEF IInv, ResourceInv, ResourceOK
  <2>4. /\ t \in born /\ t \in Teams /\ groupGrants \in [Teams -> [Users -> {0} \cup Levels]]
    BY <2>1 DEF IInv, Typed, TypeOK, Shaped, Idle
  <2>5. /\ groupGrants' \in [Teams -> [Users -> {0} \cup Levels]]
        /\ \A s \in Teams \ {t} : groupGrants'[s] = groupGrants[s]
    BY <2>2, <2>3, <2>4
  <2>6. late \subseteq late' /\ (t \in groups \/ t \in late')
    BY <2>1, <2>3, WrittenIs
  <2>7. DOMAIN req' = Workers /\ \A v \in Workers : req'[v] = req[v] \/ req'[v] = Idle
    BY <2>1, EndIs DEF IInv
  <2>8. asked' \in 0..MaxRequests
    BY <2>1 DEF IInv, Typed, TypeOK
  <2>9. PICK s : s = t
    OBVIOUS
  <2> QED
    BY <2>1, <2>4, <2>5, <2>6, <2>7, <2>8, <2>9, GroupGrantsKeep
<1> QED
  BY <1>1, <1>2

LEMMA GroupRevokeKeeps ==
    ASSUME IInv, NEW w \in Workers, NEW u \in Users, NEW t \in live, NEW target \in Users,
           GroupRevoke(w, u, t, target)
    PROVE  IInv'
<1>1. /\ t \in groups /\ asked < MaxRequests /\ asked' = asked + 1
      /\ groupGrants' = [groupGrants EXCEPT ![t][target] = 0]
      /\ UNCHANGED <<users, born, live, role, invites, res, grants, groups, tasks, req,
                     used, dropped, raced, late>>
  BY DEF GroupRevoke, roster, ids
<1>2. /\ t \in born /\ t \in Teams /\ groupGrants \in [Teams -> [Users -> {0} \cup Levels]]
      /\ asked' \in 0..MaxRequests
  BY <1>1 DEF IInv, Typed, TypeOK
<1>3. /\ groupGrants' \in [Teams -> [Users -> {0} \cup Levels]]
      /\ \A s \in Teams \ {t} : groupGrants'[s] = groupGrants[s]
  BY <1>1, <1>2
<1> QED
  BY <1>1, <1>2, <1>3, GroupGrantsKeep DEF IInv, Typed

\* A resource is new: nothing names it yet.
LEMMA NewKeeps ==
    ASSUME IInv, NEW w \in Workers, req[w].op \in {"create", "copy"},
           NEW i \in Resources, NEW g \in BOOLEAN, NEW p \in BOOLEAN,
           NEW then \in {"own", "share"}, then = "share" <=> req[w].op = "copy",
           New(w, i, g, p, then)
    PROVE  IInv'
<1> DEFINE r == req[w]
           row == [team |-> r.team, group |-> g, public |-> p]
<1>0. PICK t : t = r.team
  OBVIOUS
<1>1. /\ i \notin used /\ used' = used \cup {i} /\ res' = [res EXCEPT ![i] = row]
      /\ req' = [req EXCEPT ![w].op = then, ![w].item = i] /\ Written(t)
      /\ UNCHANGED <<users, born, live, role, invites, grants, groups, groupGrants, tasks, asked,
                     dropped, raced>>
  BY <1>0 DEF New, roster
<1>2. Shaped(r) /\ DOMAIN req = Workers /\ t \in born /\ t \in Teams
  BY <1>0 DEF IInv, Typed, TypeOK, Shaped, Idle
<1>3. /\ res \in [Resources -> ResourceRows \cup {None}] /\ row \in ResourceRows
      /\ res[i] = None
  BY <1>0, <1>1, <1>2 DEF IInv, ResourceInv, ResourceRows
<1>4. /\ res' \in [Resources -> ResourceRows \cup {None}] /\ res'[i] = row
      /\ \A x \in Resources \ {i} : res'[x] = res[x]
  BY <1>1, <1>3
<1>5. /\ DOMAIN req' = Workers /\ \A v \in Workers \ {w} : req'[v] = req[v]
      /\ req'[w] = [op |-> then, by |-> r.by, team |-> r.team, who |-> r.who,
                    item |-> i, set |-> r.set, rows |-> r.rows]
  BY <1>1, <1>2 DEF Shaped
<1>6. /\ Shaped(req[w])' /\ req'[w].op = then /\ req'[w].set = r.set
      /\ req'[w].item = i /\ req'[w].team = t
  BY <1>0, <1>1, <1>2, <1>5 DEF Shaped, ResourceOps
<1>7. late \subseteq late' /\ (t \in late' \/ (late' = late /\ t \in live /\ ~Deleting(t)))
  BY <1>1, WrittenIs
<1>8. \A s : s # t => OwnedBy(s)' = OwnedBy(s)
  BY <1>0, <1>1, <1>3, <1>4 DEF OwnedBy
<1>9. \A k \in Tasks : tasks[k] # None => tasks[k].pipeline # i
  BY <1>1 DEF IInv, ResourceInv
<1>10. \A s : s # t => TasksOf(s)' = TasksOf(s)
  BY <1>1, <1>8 DEF TasksOf
<1>11. ASSUME NEW v \in Workers PROVE ResourceOK(req[v])'
  <2>1. CASE v # w
    <3>1. \A s \in born \ late' : Deleting(s) => s # t
      BY <1>7
    <3>2. \A x \in Resources \cap used : res'[x] = res[x]
      BY <1>1, <1>4
    <3>3. SameRequest(v)
      BY <1>5, <2>1 DEF SameRequest
    <3> QED
      BY <1>1, <1>7, <1>8, <1>10, <3>1, <3>2, <3>3, OthersOK DEF IInv
  <2>2. CASE v = w
    <3>1. Names(req[w])'
      BY <1>0, <1>1, <1>3, <1>4, <1>6 DEF Names
    <3>2. then = "share" => r.set \subseteq Users \X Levels
      BY DEF IInv, ResourceInv, ResourceOK
    <3> QED
      BY <1>6, <2>2, <3>1, <3>2 DEF ResourceOK
  <2> QED
    BY <2>1, <2>2
<1>12. NothingLeftBehind'
  <2>1. \A s \in born' \ (live' \cup late') : s \in born \ (live \cup late) /\ s # t
    BY <1>1, <1>7
  <2>2. \A s \in born' \ (live' \cup late') :
          /\ OwnedBy(s)' = {}
          /\ \A k \in Tasks : tasks'[k] # None => tasks'[k].team # s
          /\ s \notin groups' /\ groupGrants'[s] = Nothing
          /\ \A x \in Invites : invites'[x] # None => invites'[x].team # s
    BY <1>1, <1>8, <2>1 DEF IInv, ResourceInv, NothingLeftBehind
  <2>3. late' = {} =>
          /\ \A x \in Resources \ dropped' : res'[x] = None => grants'[x] = Nothing
          /\ \A k \in Tasks : tasks'[k] # None =>
               tasks'[k].pipeline \in {None} \cup dropped' \/ res'[tasks'[k].pipeline] # None
    <3> SUFFICES ASSUME late' = {}
                 PROVE  /\ \A x \in Resources \ dropped : res'[x] = None => grants[x] = Nothing
                        /\ \A k \in Tasks : tasks[k] # None =>
                             \/ tasks[k].pipeline \in {None} \cup dropped
                             \/ res'[tasks[k].pipeline] # None
      BY <1>1
    <3>1. late = {}
      BY <1>7
    <3>2. \A x \in Resources : res'[x] = None => res[x] = None
      BY <1>3, <1>4
    <3>3. \A k \in Tasks : tasks[k] # None => tasks[k].pipeline \in Resources \cup {None}
      BY DEF IInv, ResourceInv, TaskRows
    <3> QED
      BY <3>1, <3>2, <3>3 DEF IInv, ResourceInv, NothingLeftBehind
  <2> QED
    BY <2>2, <2>3 DEF NothingLeftBehind, Nothing
<1>13. ResourceInv'
  BY <1>0, <1>1, <1>2, <1>4, <1>7, <1>11, <1>12 DEF IInv, ResourceInv, Nothing
<1> QED
  BY <1>1, <1>5, <1>6, <1>13, WriteFrame DEF IInv, Typed, TypeOK, RosterOps

LEMMA CreateKeeps ==
    ASSUME IInv, NEW w \in Workers,
           CreatePipeline(w) \/ CreateHost(w) \/ CreateSource(w) \/ CreateOther(w)
    PROVE  IInv'
<1>1. PICK i \in Resources, g \in BOOLEAN, p \in BOOLEAN : Create(w, i, g, p)
  BY DEF CreatePipeline, CreateHost, CreateSource, CreateOther
<1> QED
  BY <1>1, NewKeeps DEF Create

LEMMA CopyPipelineKeeps ==
    ASSUME IInv, NEW w \in Workers, CopyPipeline(w)
    PROVE  IInv'
<1>1. PICK i \in Resources, g \in BOOLEAN, p \in BOOLEAN : New(w, i, g, p, "share")
  BY DEF CopyPipeline
<1> QED
  BY <1>1, NewKeeps DEF CopyPipeline

LEMMA ShareSourceKeeps ==
    ASSUME IInv, NEW w \in Workers, ShareSource(w)
    PROVE  IInv'
<1> DEFINE i == req[w].item
<1>1. CASE GiveUp(w)
  BY <1>1, GiveUpKeeps
<1>2. CASE ~GiveUp(w)
  <2>1. PICK p \in BOOLEAN : res' = [res EXCEPT ![i].public = p]
    BY <1>2 DEF ShareSource
  <2>2. /\ req[w].op = "publish" /\ res[i] # None /\ End(w)
        /\ UNCHANGED <<users, born, live, role, invites, grants, groups, groupGrants, tasks,
                       asked, used, dropped, raced, late>>
    BY <1>2 DEF ShareSource, roster, ids
  <2>3. i \in Resources /\ res \in [Resources -> ResourceRows \cup {None}]
    BY <2>2 DEF IInv, ResourceInv, ResourceOK
  <2>4. /\ res' \in [Resources -> ResourceRows \cup {None}]
        /\ \A x \in Resources : /\ res'[x] = None <=> res[x] = None
                                /\ res[x] # None => res'[x].team = res[x].team
    <3>1. res[i] \in ResourceRows
      BY <2>2, <2>3
    <3>2. /\ res'[i] \in ResourceRows /\ res'[i].team = res[i].team
          /\ \A x \in Resources \ {i} : res'[x] = res[x]
      BY <2>1, <2>3, <3>1 DEF ResourceRows
    <3> QED
      BY <2>1, <2>2, <2>3, <3>2
  <2>5. \A s : OwnedBy(s)' = OwnedBy(s)
    BY <2>4 DEF OwnedBy
  <2>6. \A s : TasksOf(s)' = TasksOf(s)
    BY <2>2, <2>5 DEF TasksOf
  <2>7. /\ DOMAIN req' = Workers /\ \A v \in Workers : req'[v] = req[v] \/ req'[v] = Idle
        /\ \A v \in Workers : SameRequest(v) \/ req'[v].op \notin ResourceOps
    BY <2>2, EndIs DEF IInv
  <2>8. \A v \in Workers : ResourceOK(req[v])'
    BY <2>2, <2>4, <2>5, <2>6, <2>7, OthersOK DEF IInv
  <2>9. NothingLeftBehind'
    <3>1. \A k \in Tasks : tasks[k] # None => tasks[k].pipeline \in Resources \cup {None}
      BY DEF IInv, ResourceInv, TaskRows
    <3> QED
      BY <2>2, <2>4, <2>5, <3>1 DEF IInv, ResourceInv, NothingLeftBehind, Nothing
  <2>10. ResourceInv'
    BY <2>2, <2>4, <2>8, <2>9 DEF IInv, ResourceInv, Nothing
  <2> QED
    BY <2>2, <2>7, <2>10, WriteFrame DEF IInv, Typed, TypeOK
<1> QED
  BY <1>1, <1>2

LEMMA DropKeeps ==
    ASSUME IInv, NEW w \in Workers, NEW u \in Users, NEW i \in Resources, Drop(w, u, i)
    PROVE  IInv'
<1>1. /\ asked < MaxRequests /\ asked' = asked + 1
      /\ res' = [res EXCEPT ![i] = None] /\ dropped' = dropped \cup {i}
      /\ UNCHANGED <<users, born, live, role, invites, grants, groups, groupGrants, tasks, req,
                     used, raced, late>>
  BY DEF Drop, roster
<1>2. res \in [Resources -> ResourceRows \cup {None}]
  BY DEF IInv, ResourceInv
<1>3. /\ res' \in [Resources -> ResourceRows \cup {None}] /\ res'[i] = None
      /\ \A x \in Resources \ {i} : res'[x] = res[x]
  BY <1>1, <1>2
<1>4. \A s : OwnedBy(s)' \subseteq OwnedBy(s)
  BY <1>3 DEF OwnedBy
<1>5. \A s : TasksOf(s)' \subseteq TasksOf(s)
  BY <1>1, <1>4 DEF TasksOf
<1>6. \A v \in Workers : ResourceOK(req[v])'
  <2>1. \A v \in Workers : SameRequest(v)
    BY <1>1 DEF SameRequest
  <2> QED
    BY <1>1, <1>3, <1>4, <1>5, <2>1, OthersOK DEF IInv
<1>7. NothingLeftBehind'
  <2>1. \A s \in born' \ (live' \cup late') :
          /\ OwnedBy(s)' = {}
          /\ \A k \in Tasks : tasks'[k] # None => tasks'[k].team # s
          /\ s \notin groups' /\ groupGrants'[s] = Nothing
          /\ \A x \in Invites : invites'[x] # None => invites'[x].team # s
    BY <1>1, <1>4 DEF IInv, ResourceInv, NothingLeftBehind
  <2>2. late' = {} =>
          /\ \A x \in Resources \ dropped' : res'[x] = None => grants'[x] = Nothing
          /\ \A k \in Tasks : tasks'[k] # None =>
               tasks'[k].pipeline \in {None} \cup dropped' \/ res'[tasks'[k].pipeline] # None
    <3>1. \A k \in Tasks : tasks[k] # None => tasks[k].pipeline \in Resources \cup {None}
      BY DEF IInv, ResourceInv, TaskRows
    <3> QED
      BY <1>1, <1>3, <3>1 DEF IInv, ResourceInv, NothingLeftBehind
  <2> QED
    BY <2>1, <2>2 DEF NothingLeftBehind, Nothing
<1>8. ResourceInv'
  BY <1>1, <1>3, <1>6, <1>7 DEF IInv, ResourceInv, Nothing
<1> QED
  BY <1>1, <1>8, WriteFrame DEF IInv, Typed, TypeOK

LEMMA FileTaskKeeps ==
    ASSUME IInv, NEW w \in Workers, FileTask(w)
    PROVE  IInv'
<1> DEFINE r == req[w]
           row == [team |-> r.team, pipeline |-> r.item]
<1>0. PICK t : t = r.team
  OBVIOUS
<1>1. PICK k \in Tasks : tasks[k] = None /\ tasks' = [tasks EXCEPT ![k] = row]
  BY DEF FileTask
<1>2. /\ r.op = "task" /\ Written(t) /\ End(w)
      /\ UNCHANGED <<users, born, live, role, invites, res, grants, groups, groupGrants, asked,
                     used, dropped, raced>>
  BY <1>0 DEF FileTask, roster, ids
<1>3. t \in born /\ t \in Teams /\ (r.item = None \/ Names(r))
  BY <1>0, <1>2 DEF IInv, Typed, TypeOK, Shaped, Idle, ResourceInv, ResourceOK
<1>4. tasks \in [Tasks -> TaskRows \cup {None}] /\ row \in TaskRows
  BY <1>0, <1>3 DEF IInv, ResourceInv, TaskRows, Names
<1>5. /\ tasks' \in [Tasks -> TaskRows \cup {None}] /\ tasks'[k] = row
      /\ \A j \in Tasks \ {k} : tasks'[j] = tasks[j]
  BY <1>1, <1>4
<1>6. late \subseteq late' /\ (t \in late' \/ (late' = late /\ t \in live /\ ~Deleting(t)))
  BY <1>2, WrittenIs
<1>7. \A s : OwnedBy(s)' = OwnedBy(s)
  BY <1>2 DEF OwnedBy
<1>8. row.pipeline = r.item /\ row.team = t
  BY <1>0
<1>9. \A s : s # t => TasksOf(s)' \subseteq TasksOf(s)
  <2> SUFFICES ASSUME NEW s, s # t, NEW j \in Tasks, j \in TasksOf(s)' PROVE j \in TasksOf(s)
    BY DEF TasksOf
  <2>1. tasks'[j] # None /\ (tasks'[j].team = s \/ tasks'[j].pipeline \in OwnedBy(s))
    BY <1>7 DEF TasksOf
  <2>2. CASE j = k
    <3>1. r.item \in OwnedBy(s)
      BY <1>5, <1>8, <2>1, <2>2
    <3>2. r.item # None
      BY <3>1 DEF OwnedBy
    <3> QED
      BY <1>0, <1>3, <3>1, <3>2 DEF OwnedBy, Names
  <2>3. CASE j # k
    BY <1>5, <2>1, <2>3 DEF TasksOf
  <2> QED
    BY <2>2, <2>3
<1>10. /\ DOMAIN req' = Workers /\ \A v \in Workers : req'[v] = req[v] \/ req'[v] = Idle
       /\ \A v \in Workers : SameRequest(v) \/ req'[v].op \notin ResourceOps
  BY <1>2, EndIs DEF IInv
<1>11. \A v \in Workers : ResourceOK(req[v])'
  BY <1>2, <1>6, <1>7, <1>9, <1>10, OthersOK DEF IInv
<1>12. NothingLeftBehind'
  <2>1. \A s \in born' \ (live' \cup late') : s \in born \ (live \cup late) /\ s # t
    BY <1>2, <1>6
  <2>2. \A s \in born' \ (live' \cup late') :
          /\ OwnedBy(s)' = {}
          /\ \A j \in Tasks : tasks'[j] # None => tasks'[j].team # s
          /\ s \notin groups' /\ groupGrants'[s] = Nothing
          /\ \A x \in Invites : invites'[x] # None => invites'[x].team # s
    BY <1>2, <1>5, <1>7, <1>8, <2>1 DEF IInv, ResourceInv, NothingLeftBehind
  <2>3. late' = {} =>
          /\ \A x \in Resources \ dropped' : res'[x] = None => grants'[x] = Nothing
          /\ \A j \in Tasks : tasks'[j] # None =>
               tasks'[j].pipeline \in {None} \cup dropped' \/ res'[tasks'[j].pipeline] # None
    <3>1. late' = {} => r.item \in {None} \cup dropped \/ res[r.item] # None
      BY <1>0, <1>3, <1>6 DEF Names
    <3> QED
      BY <1>2, <1>5, <1>6, <1>8, <3>1 DEF IInv, ResourceInv, NothingLeftBehind
  <2> QED
    BY <2>2, <2>3 DEF NothingLeftBehind, Nothing
<1>13. \A j \in Tasks : tasks'[j] # None => tasks'[j].pipeline \in used' \cup {None}
  BY <1>2, <1>3, <1>5, <1>8 DEF IInv, ResourceInv, Names
<1>14. ResourceInv'
  BY <1>2, <1>5, <1>6, <1>11, <1>12, <1>13 DEF IInv, ResourceInv, Nothing
<1> QED
  BY <1>2, <1>10, <1>14, WriteFrame DEF IInv, Typed, TypeOK

-----------------------------------------------------------------------------
(* The deletion of a team takes everything with it that was found, and     *)
(* nothing else is there unless something came too late.                   *)

LEMMA DeleteTeamKeeps ==
    ASSUME IInv, NEW w \in Workers, DeleteTeam(w)
    PROVE  IInv'
<1> DEFINE found == req[w].set
<1>0. PICK t : t = req[w].team
  OBVIOUS
<1>1. /\ req[w].op = "delete"
      /\ tasks' = [k \in Tasks |-> IF k \in found THEN None ELSE tasks[k]]
      /\ grants' = [x \in Resources |-> IF x \in found THEN Nothing ELSE grants[x]]
      /\ groupGrants' = IF t \in found THEN [groupGrants EXCEPT ![t] = Nothing] ELSE groupGrants
      /\ groups' = groups \ {t} /\ live' = live \ {t}
      /\ role' = [role EXCEPT ![t] = [u \in Users |-> None]]
      /\ invites' = [i \in Invites |->
                       IF invites[i] # None /\ invites[i].team = t THEN None ELSE invites[i]]
      /\ EndWithout(w, t, Users)
      /\ UNCHANGED <<users, born, asked, used, dropped, raced, late>>
  BY <1>0 DEF DeleteTeam, Nothing, ids
<1>2. /\ t \in born /\ t \in Teams
      /\ t \notin late => /\ OwnedBy(t) \subseteq found /\ TasksOf(t) \subseteq found
                          /\ t \in groups => t \in found
  BY <1>0, <1>1 DEF IInv, Typed, TypeOK, Shaped, Idle, ResourceInv, ResourceOK, Found
<1>3. TypeOK /\ RosterInv /\ ResourceInv
  BY DEF IInv, Typed
<1>4. /\ \A x \in Resources : res'[x] # None => res'[x] = res[x]
      /\ \A x \in Resources : res'[x] # res[x] => res[x].team = t
      /\ t \notin late => \A x \in Resources : res'[x] # None => res[x].team # t
      /\ res' \in [Resources -> ResourceRows \cup {None}]
  <2> DEFINE gone == {x \in OwnedBy(t) : KindOf[x] \in {KindOf[y] : y \in found \cap Resources}}
  <2>1. res' = [x \in Resources |-> IF x \in gone THEN None ELSE res[x]]
    BY <1>0 DEF DeleteTeam
  <2>2. /\ gone \subseteq OwnedBy(t)
        /\ t \notin late => gone = OwnedBy(t)
    BY <1>2 DEF OwnedBy
  <2> HIDE DEF gone
  <2>3. res \in [Resources -> ResourceRows \cup {None}]
    BY <1>3 DEF ResourceInv
  <2> QED
    BY <2>1, <2>2, <2>3 DEF OwnedBy
<1>5. /\ \A k \in Tasks : tasks'[k] # None => tasks'[k] = tasks[k] /\ k \notin found
      /\ tasks' \in [Tasks -> TaskRows \cup {None}]
  BY <1>1, <1>3 DEF ResourceInv
<1>6. /\ Nothing \in [Users -> {0} \cup Levels]
      /\ grants' \in [Resources -> [Users -> {0} \cup Levels]]
      /\ \A x \in Resources : grants'[x] = IF x \in found THEN Nothing ELSE grants[x]
  <2>1. Nothing \in [Users -> {0} \cup Levels]
    BY DEF Nothing
  <2> QED
    BY <1>1, <1>3, <2>1 DEF TypeOK
<1>7. /\ groupGrants' \in [Teams -> [Users -> {0} \cup Levels]]
      /\ \A s \in Teams \ {t} : groupGrants'[s] = groupGrants[s]
      /\ t \notin late => groupGrants'[t] = Nothing
  <2>1. t \notin late => t \in groups \/ groupGrants[t] = Nothing
    BY <1>2, <1>3 DEF ResourceInv
  <2> QED
    BY <1>1, <1>2, <1>3, <1>6, <2>1 DEF TypeOK
<1>8. /\ role' \in [Teams -> [Users -> Roles \cup {None}]]
      /\ \A s \in Teams \ {t} : role'[s] = role[s]
      /\ \A u \in Users : role'[t][u] = None
  BY <1>1, <1>2, <1>3 DEF TypeOK
<1>9. /\ invites' \in [Invites -> InviteRows \cup {None}]
      /\ \A i \in Invites : invites'[i] # None => invites'[i] = invites[i] /\ invites[i].team # t
  BY <1>1, <1>3 DEF RosterInv
<1>10. /\ DOMAIN req' = Workers /\ req'[w] = Idle
       /\ \A v \in Workers \ {w} :
            /\ SameRequest(v) /\ req'[v].by = req[v].by
            /\ req'[v] = req[v] \/ Shaped(req[v])'
            /\ req[v].op \in RosterOps \cup ResourceOps => req'[v].rows \subseteq req[v].rows
            /\ req[v].op \in RosterOps \cup ResourceOps /\ req[v].team = t =>
                 req'[v].rows \cap Users = {}
  BY <1>1, EndWithoutIs DEF IInv
<1>11. Typed'
  <2>1. TypeOK'
    BY <1>1, <1>3, <1>6, <1>7, <1>8 DEF TypeOK
  <2>2. \A v \in Workers : req'[v] = req[v] \/ req'[v] = Idle \/ Shaped(req[v])'
    BY <1>10
  <2> QED
    BY <1>1, <1>10, <2>1, <2>2, TypedFrame DEF IInv, Typed
<1>12. RosterInv'
  <2>1. ASSUME NEW v \in Workers PROVE RosterOK(req[v])'
    <3>1. CASE req'[v].op \notin RosterOps
      BY <3>1 DEF RosterOK, RosterOps
    <3>2. CASE req'[v].op \in RosterOps
      <4>1. v # w /\ SameRequest(v) /\ req'[v].by = req[v].by /\ req[v].op \in RosterOps
        BY <1>10, <3>2 DEF Idle, RosterOps, SameRequest
      <4>2. /\ req[v].team \in Teams /\ RosterOK(req[v]) /\ req[v].rows \subseteq Users
            /\ req'[v].rows \subseteq req[v].rows
        BY <1>3, <1>10, <4>1 DEF IInv, Typed, TypeOK, Shaped, Idle, RosterInv, RosterOps
      <4>3. CASE req[v].team = t
        <5>1. req'[v].rows = {} /\ req'[v].team \notin live'
          BY <1>1, <1>10, <4>1, <4>2, <4>3 DEF SameRequest
        <5> QED
          BY <1>1, <1>9, <4>1, <4>2, <4>3, <5>1 DEF RosterOK, SameRequest
      <4>4. CASE req[v].team # t
        <5>1. \A u \in Users : /\ OwnerAfter(req[v], u) => OwnerAfter(req[v], u)'
                               /\ Owner(req[v].team, u)' <=> Owner(req[v].team, u)
                               /\ Member(req[v].team, u)' <=> Member(req[v].team, u)
          BY <1>8, <4>1, <4>2, <4>4 DEF OwnerAfter, Owner, Member, SameRequest
        <5> QED
          BY <1>1, <1>9, <4>1, <4>2, <4>4, <5>1 DEF RosterOK, SameRequest
      <4> QED
        BY <4>3, <4>4
    <3> QED
      BY <3>1, <3>2
  <2>2. MembersOfLiveTeams'
    BY <1>1, <1>3, <1>8 DEF RosterInv, MembersOfLiveTeams, Member
  <2>3. OwnerUnlessRaced'
    BY <1>1, <1>3, <1>8 DEF TypeOK, RosterInv, OwnerUnlessRaced, Owner
  <2>4. \A v, x \in Workers : \A s \in Teams :
          v # x /\ (v \in Changing(s))' /\ (x \in Changing(s))' => s \in raced'
    BY <1>1, <1>3, <1>10 DEF RosterInv, Changing, SameRequest, Idle
  <2>5. \A j \in Invites : invites'[j] # None => j \in used' /\ invites'[j].role \in Invited
    BY <1>1, <1>3, <1>9 DEF RosterInv
  <2> QED
    BY <1>9, <2>1, <2>2, <2>3, <2>4, <2>5 DEF RosterInv
<1>13. /\ \A s : OwnedBy(s)' \subseteq OwnedBy(s)
       /\ t \notin late => OwnedBy(t)' = {}
  BY <1>4 DEF OwnedBy
<1>14. \A s : TasksOf(s)' \subseteq TasksOf(s)
  BY <1>5, <1>13 DEF TasksOf
<1>15. ASSUME NEW v \in Workers PROVE ResourceOK(req[v])'
  <2>1. CASE req'[v].op \notin ResourceOps
    BY <2>1 DEF ResourceOK, ResourceOps
  <2>2. CASE req'[v].op \in ResourceOps
    <3>1. v # w /\ SameRequest(v) /\ req[v].op \in ResourceOps /\ ResourceOK(req[v])
      BY <1>3, <1>10, <2>2 DEF Idle, ResourceOps, SameRequest, ResourceInv
    <3>2. Names(req[v]) => Names(req[v])'
      BY <1>1, <1>4, <3>1 DEF Names, SameRequest
    <3>3. Found(req[v]) => Found(req[v])'
      <4>1. PICK s : s = req[v].team /\ s = req'[v].team
        BY <3>1 DEF SameRequest
      <4>2. OwnedBy(s)' \subseteq OwnedBy(s) /\ TasksOf(s)' \subseteq TasksOf(s)
        BY <1>13, <1>14
      <4> QED
        BY <1>1, <3>1, <4>1, <4>2 DEF Found, SameRequest, OwnedBy, TasksOf
    <3> QED
      BY <1>1, <3>1, <3>2, <3>3 DEF ResourceOK, SameRequest
  <2> QED
    BY <2>1, <2>2
<1>16. NothingLeftBehind'
  <2>1. ASSUME NEW s \in born' \ (live' \cup late')
        PROVE  /\ OwnedBy(s)' = {}
               /\ \A k \in Tasks : tasks'[k] # None => tasks'[k].team # s
               /\ s \notin groups' /\ groupGrants'[s] = Nothing
               /\ \A i \in Invites : invites'[i] # None => invites'[i].team # s
    <3>1. CASE s = t
      <4>1. \A k \in Tasks : tasks[k] # None /\ tasks[k].team = t => k \in found
        BY <1>1, <1>2, <2>1, <3>1 DEF TasksOf
      <4> QED
        BY <1>1, <1>5, <1>7, <1>9, <1>13, <2>1, <3>1, <4>1
    <3>2. CASE s # t
      <4>1. s \in born \ (live \cup late) /\ s \in Teams
        BY <1>1, <1>3, <2>1, <3>2 DEF TypeOK
      <4> QED
        BY <1>1, <1>3, <1>5, <1>7, <1>9, <1>13, <3>2, <4>1 DEF ResourceInv, NothingLeftBehind
    <3> QED
      BY <3>1, <3>2
  <2>2. ASSUME late' = {}
        PROVE  /\ \A x \in Resources \ dropped' : res'[x] = None => grants'[x] = Nothing
               /\ \A k \in Tasks : tasks'[k] # None =>
                    \/ tasks'[k].pipeline \in {None} \cup dropped'
                    \/ res'[tasks'[k].pipeline] # None
    <3>1. late = {} /\ OwnedBy(t) \subseteq found /\ TasksOf(t) \subseteq found
      BY <1>1, <1>2, <2>2
    <3>2. ASSUME NEW x \in Resources \ dropped', res'[x] = None PROVE grants'[x] = Nothing
      <4>1. CASE res[x] = None
        BY <1>1, <1>3, <1>6, <3>1, <3>2, <4>1 DEF ResourceInv, NothingLeftBehind
      <4>2. CASE res[x] # None
        <5>1. x \in OwnedBy(t)
          BY <1>4, <3>2, <4>2 DEF OwnedBy
        <5> QED
          BY <1>6, <3>1, <5>1
      <4> QED
        BY <4>1, <4>2
    <3>3. ASSUME NEW k \in Tasks, tasks'[k] # None
          PROVE  \/ tasks'[k].pipeline \in {None} \cup dropped'
                 \/ res'[tasks'[k].pipeline] # None
      <4>1. tasks'[k] = tasks[k] /\ k \notin TasksOf(t)
        BY <1>5, <3>1, <3>3
      <4>2. tasks[k].pipeline \in Resources \cup {None}
        BY <1>3, <3>3, <4>1 DEF ResourceInv, TaskRows
      <4>3. tasks[k].pipeline \notin OwnedBy(t)
        BY <3>3, <4>1 DEF TasksOf
      <4> QED
        BY <1>1, <1>3, <1>4, <3>1, <3>3, <4>1, <4>2, <4>3
           DEF ResourceInv, NothingLeftBehind, OwnedBy
    <3> QED
      BY <3>2, <3>3
  <2> QED
    BY <2>1, <2>2 DEF NothingLeftBehind, Nothing
<1>17. ResourceInv'
  <2>1. \A x \in Resources : res'[x] # None => x \in used' /\ res'[x].team \in born'
    BY <1>1, <1>3, <1>4 DEF ResourceInv
  <2>2. \A x \in Resources \ used' : grants'[x] = Nothing
    BY <1>1, <1>3, <1>6 DEF ResourceInv
  <2>3. \A k \in Tasks : tasks'[k] # None => tasks'[k].pipeline \in used' \cup {None}
    BY <1>1, <1>3, <1>5 DEF ResourceInv
  <2>4. \A s \in Teams \ late' : s \in groups' \/ groupGrants'[s] = Nothing
    BY <1>1, <1>3, <1>7 DEF ResourceInv
  <2> QED
    BY <1>4, <1>5, <1>15, <1>16, <2>1, <2>2, <2>3, <2>4 DEF ResourceInv, Nothing
<1> QED
  BY <1>11, <1>12, <1>17 DEF IInv

-----------------------------------------------------------------------------
(* Every request that begins knows what the invariant says of it. *)

\* What a request that has not been begun yet may rely on
LEMMA RowsFacts ==
    ASSUME IInv
    PROVE  /\ users \subseteq Users /\ live \subseteq born /\ born \subseteq Teams
           /\ \A x \in Resources : res[x] # None => x \in used /\ res[x].team \in born
           /\ \A i \in Invites : invites[i] # None =>
                i \in used /\ invites[i].role \in Invited
           /\ grants \in [Resources -> [Users -> {0} \cup Levels]]
           /\ groupGrants \in [Teams -> [Users -> {0} \cup Levels]]
           /\ role \in [Teams -> [Users -> Roles \cup {None}]]
  BY DEF IInv, Typed, TypeOK, RosterInv, ResourceInv

LEMMA InviteBegins ==
    ASSUME IInv, NEW w \in Workers, NEW u \in Users, NEW t \in live, NEW x \in Roles,
           BeginInvite(w, u, t, x)
    PROVE  IInv'
<1> DEFINE r == [Request("invite", u, t) EXCEPT !.item = x]
<1>1. r = [op |-> "invite", by |-> u, team |-> t, who |-> None, item |-> x, set |-> {},
           rows |-> {}]
  BY DEF Request
<1>2. Begin(w, r) /\ x \in Invited
  BY DEF BeginInvite, MayInvite, Invited, Roles
<1>3. Shaped(r) /\ RosterOK(r) /\ ResourceOK(r)
  BY <1>1, <1>2, RowsFacts DEF Shaped, RosterOps, RosterOK, ResourceOK
<1> QED
  BY <1>2, <1>3, BeginKeeps

LEMMA AcceptBegins ==
    ASSUME IInv, NEW w \in Workers, NEW u \in Users, NEW i \in Invites, BeginAccept(w, u, i)
    PROVE  IInv'
<1> DEFINE t == invites[i].team
           S == IF Member(t, u) THEN {} ELSE {<<u, invites[i].role>>}
<1>0. PICK r : r = [Request("accept", u, t) EXCEPT !.item = i, !.set = S]
  OBVIOUS
<1>1. r = [op |-> "accept", by |-> u, team |-> t, who |-> None, item |-> i, set |-> S,
           rows |-> {}]
  BY <1>0 DEF Request
<1>2. Begin(w, r) /\ invites[i] # None /\ t \in live
  BY <1>0 DEF BeginAccept
<1>3. S \subseteq {u} \X Invited
  BY <1>2, RowsFacts
<1>4. Shaped(r) /\ RosterOK(r) /\ ResourceOK(r)
  <2> HIDE DEF S
  <2> QED
    BY <1>1, <1>2, <1>3, RowsFacts DEF Shaped, RosterOps, RosterOK, ResourceOK
<1> QED
  BY <1>2, <1>4, BeginKeeps

LEMMA RemoveBegins ==
    ASSUME IInv, NEW w \in Workers, NEW u \in Users, NEW t \in live, NEW target \in Users,
           BeginRemove(w, u, t, target)
    PROVE  IInv'
<1>0. PICK r : r = [Request("remove", u, t) EXCEPT !.who = target, !.rows = {target}]
  OBVIOUS
<1>1. r = [op |-> "remove", by |-> u, team |-> t, who |-> target, item |-> None, set |-> {},
           rows |-> {target}]
  BY <1>0 DEF Request
<1>2. Begin(w, r) /\ Member(t, target) /\ ~Owner(t, target)
  BY <1>0 DEF BeginRemove
<1>3. Shaped(r) /\ RosterOK(r) /\ ResourceOK(r)
  BY <1>1, <1>2, RowsFacts DEF Shaped, RosterOps, RosterOK, ResourceOK
<1> QED
  BY <1>2, <1>3, BeginKeeps

\* A change of roles that passed its check leaves an owner, as long as nobody else changes
\* the roles of the team.
LEMMA PatchBegins ==
    ASSUME IInv, NEW w \in Workers, NEW u \in Users, NEW t \in live, NEW target \in Users,
           NEW new \in Roles, BeginPatch(w, u, t, target, new)
    PROVE  IInv'
<1> DEFINE changed(old) == (IF role[t][target] = new THEN {} ELSE {<<target, new>>})
                             \cup (IF old = target THEN {} ELSE {<<old, "admin">>})
<1>1. PICK old \in IF new = "owner" THEN {o \in Users : Owner(t, o)} ELSE {target} :
         Begin(w, [Request("patch", u, t) EXCEPT !.who = target, !.set = changed(old),
                                                 !.rows = {target, old}])
  BY DEF BeginPatch
<1>2. /\ Member(t, target) /\ old \in Users
      /\ IF new = "owner" THEN Owner(t, old) ELSE old = target
      /\ OwnerRemains(t, target, new)
  BY <1>1 DEF BeginPatch
<1>0. PICK S, r :
         /\ S = changed(old)
         /\ r = [Request("patch", u, t) EXCEPT !.who = target, !.set = S, !.rows = {target, old}]
  OBVIOUS
<1>3. r = [op |-> "patch", by |-> u, team |-> t, who |-> target, item |-> None, set |-> S,
           rows |-> {target, old}]
  BY <1>0 DEF Request
<1>4. S \subseteq Users \X Roles
  BY <1>0, <1>2 DEF Roles
<1>5. Member(t, old)
  BY <1>2 DEF Member, Owner, Roles
<1>6. t \notin raced => \E o \in Users : /\ \A p \in S : p[1] = o => p[2] = "owner"
                                         /\ Owner(t, o) \/ \E p \in S : p[1] = o
  <2>1. CASE new = "owner"
    <3>1. \A p \in S : p[1] = target => p[2] = "owner"
      BY <1>0, <2>1
    <3>2. Owner(t, target) \/ \E p \in S : p[1] = target
      <4>1. CASE role[t][target] = new
        BY <2>1, <4>1 DEF Owner
      <4>2. CASE role[t][target] # new
        <5>1. <<target, new>> \in S
          BY <1>0, <4>2
        <5> QED
          BY <5>1
      <4> QED
        BY <4>1, <4>2
    <3> QED
      BY <3>1, <3>2
  <2>2. CASE new # "owner"
    <3>1. \A p \in S : p[1] = target
      BY <1>0, <1>2, <2>2
    <3>2. t \notin raced => \E o \in Users \ {target} : Owner(t, o)
      BY <1>2, <2>2 DEF OwnerRemains, IInv, RosterInv, OwnerUnlessRaced
    <3> QED
      BY <3>1, <3>2
  <2> QED
    BY <2>1, <2>2
<1>7. Shaped(r) /\ RosterOK(r) /\ ResourceOK(r)
  <2>1. /\ r.op = "patch" /\ r.by = u /\ r.team = t /\ r.set = S /\ r.rows = {target, old}
        /\ r = [op |-> r.op, by |-> r.by, team |-> r.team, who |-> r.who, item |-> r.item,
                set |-> r.set, rows |-> r.rows]
    BY <1>3
  <2>2. t \notin raced => \E o \in Users : OwnerAfter(r, o)
    BY <1>6, <2>1 DEF OwnerAfter
  <2> QED
    BY <1>2, <1>4, <1>5, <2>1, <2>2, RowsFacts DEF Shaped, RosterOps, RosterOK, ResourceOK
<1> QED
  BY <1>0, <1>1, <1>7, BeginKeeps

LEMMA GrantBegins ==
    ASSUME IInv, NEW w \in Workers, NEW u \in Users, NEW i \in Resources, NEW target \in Users,
           NEW level \in Granted, BeginGrant(w, u, i, target, level)
    PROVE  IInv'
<1>0. PICK r : r = [Request("grant", u, res[i].team) EXCEPT
                      !.item = i, !.who = target, !.set = {level, grants[i][target]}]
  OBVIOUS
<1>1. r = [op |-> "grant", by |-> u, team |-> res[i].team, who |-> target, item |-> i,
           set |-> {level, grants[i][target]}, rows |-> {}]
  BY <1>0 DEF Request
<1>2. Begin(w, r) /\ res[i] # None
  BY <1>0 DEF BeginGrant, May
<1>3. grants[i][target] \in {0} \cup Levels
  BY RowsFacts
<1>4. Shaped(r) /\ RosterOK(r) /\ ResourceOK(r)
  BY <1>1, <1>2, <1>3, RowsFacts DEF Shaped, ResourceOps, RosterOK, ResourceOK, Names
<1> QED
  BY <1>2, <1>4, BeginKeeps

LEMMA GroupBegins ==
    ASSUME IInv, NEW w \in Workers, NEW u \in Users, NEW t \in live, BeginGroup(w, u, t)
    PROVE  IInv'
<1>1. PICK r : r = Request("group", u, t)
  OBVIOUS
<1>2. Shaped(r) /\ RosterOK(r) /\ ResourceOK(r)
  BY <1>1, RowsFacts DEF Request, Shaped, ResourceOps, RosterOK, ResourceOK
<1> QED
  BY <1>1, <1>2, BeginKeeps DEF BeginGroup

LEMMA GroupGrantBegins ==
    ASSUME IInv, NEW w \in Workers, NEW u \in Users, NEW t \in live, NEW target \in Users,
           NEW level \in Granted, BeginGroupGrant(w, u, t, target, level)
    PROVE  IInv'
<1>0. PICK r : r = [Request("group_grant", u, t) EXCEPT
                      !.who = target, !.set = {level, groupGrants[t][target]}]
  OBVIOUS
<1>1. r = [op |-> "group_grant", by |-> u, team |-> t, who |-> target, item |-> None,
           set |-> {level, groupGrants[t][target]}, rows |-> {}]
  BY <1>0 DEF Request
<1>2. Begin(w, r) /\ t \in groups
  BY <1>0 DEF BeginGroupGrant
<1>3. groupGrants[t][target] \in {0} \cup Levels
  BY RowsFacts
<1>4. Shaped(r) /\ RosterOK(r) /\ ResourceOK(r)
  BY <1>1, <1>2, <1>3, RowsFacts DEF Shaped, ResourceOps, RosterOK, ResourceOK
<1> QED
  BY <1>2, <1>4, BeginKeeps

LEMMA CreateBegins ==
    ASSUME IInv, NEW w \in Workers, NEW u \in Users, NEW t \in live,
           NEW kind, NEW public, BeginCreate(w, u, t, kind) \/ BeginCreateSource(w, u, t, public)
    PROVE  IInv'
<1>0. PICK r, x, y : /\ r = [op |-> "create", by |-> u, team |-> t, who |-> x, item |-> y,
                             set |-> {}, rows |-> {}]
                     /\ Begin(w, r)
  <2>1. CASE BeginCreate(w, u, t, kind)
    <3>1. PICK r : r = [Request("create", u, t) EXCEPT !.item = kind]
      OBVIOUS
    <3>2. r = [op |-> "create", by |-> u, team |-> t, who |-> None, item |-> kind,
               set |-> {}, rows |-> {}]
      BY <3>1 DEF Request
    <3>3. Begin(w, r)
      BY <2>1, <3>1 DEF BeginCreate
    <3> QED
      BY <3>2, <3>3
  <2>2. CASE BeginCreateSource(w, u, t, public)
    <3>1. PICK r, x : /\ x = IF public THEN "all" ELSE None
                      /\ r = [Request("create", u, t) EXCEPT !.item = "git_source", !.who = x]
      OBVIOUS
    <3>2. r = [op |-> "create", by |-> u, team |-> t, who |-> x, item |-> "git_source",
               set |-> {}, rows |-> {}]
      BY <3>1 DEF Request
    <3>3. Begin(w, r)
      BY <2>2, <3>1 DEF BeginCreateSource
    <3> QED
      BY <3>2, <3>3
  <2> QED
    BY <2>1, <2>2
<1>1. Shaped(r) /\ RosterOK(r) /\ ResourceOK(r)
  BY <1>0, RowsFacts DEF Shaped, ResourceOps, RosterOK, ResourceOK
<1> QED
  BY <1>0, <1>1, BeginKeeps

LEMMA ShareSourceBegins ==
    ASSUME IInv, NEW w \in Workers, NEW u \in Users, NEW i \in Resources, NEW public,
           BeginShareSource(w, u, i, public)
    PROVE  IInv'
<1>0. PICK r, x : /\ x = IF public THEN "all" ELSE None
                  /\ r = [Request("publish", u, res[i].team) EXCEPT !.item = i, !.who = x]
  OBVIOUS
<1>1. r = [op |-> "publish", by |-> u, team |-> res[i].team, who |-> x, item |-> i,
           set |-> {}, rows |-> {}]
  BY <1>0 DEF Request
<1>2. Begin(w, r) /\ res[i] # None
  BY <1>0 DEF BeginShareSource, May
<1>3. Shaped(r) /\ RosterOK(r) /\ ResourceOK(r)
  BY <1>1, <1>2, RowsFacts DEF Shaped, ResourceOps, RosterOK, ResourceOK
<1> QED
  BY <1>2, <1>3, BeginKeeps

LEMMA CopyBegins ==
    ASSUME IInv, NEW w \in Workers, NEW u \in Users, NEW i \in Resources, BeginCopy(w, u, i)
    PROVE  IInv'
<1>0. PICK r, x, S :
         /\ x = IF res[i].group THEN "grouped" ELSE None
         /\ S = {<<v, grants[i][v]>> : v \in {y \in Users : grants[i][y] # 0}}
         /\ r = [Request("copy", u, res[i].team) EXCEPT !.item = x, !.set = S]
  OBVIOUS
<1>1. r = [op |-> "copy", by |-> u, team |-> res[i].team, who |-> None, item |-> x,
           set |-> S, rows |-> {}]
  BY <1>0 DEF Request
<1>2. Begin(w, r) /\ res[i] # None
  BY <1>0 DEF BeginCopy, May
<1>3. S \subseteq Users \X Levels
  <2>1. \A v \in Users : grants[i][v] \in {0} \cup Levels
    BY RowsFacts
  <2> QED
    BY <1>0, <2>1
<1>4. Shaped(r) /\ RosterOK(r) /\ ResourceOK(r)
  BY <1>1, <1>2, <1>3, RowsFacts DEF Shaped, ResourceOps, RosterOK, ResourceOK
<1> QED
  BY <1>2, <1>4, BeginKeeps

LEMMA TaskBegins ==
    ASSUME IInv, NEW w \in Workers, NEW u \in Users, NEW t \in live,
           NEW p \in Resources \cup {None}, BeginTask(w, u, t, p)
    PROVE  IInv'
<1> DEFINE r == [Request("task", u, t) EXCEPT !.item = p]
<1>1. r = [op |-> "task", by |-> u, team |-> t, who |-> None, item |-> p, set |-> {},
           rows |-> {}]
  BY DEF Request
<1>2. Begin(w, r) /\ (p # None => p \in Resources /\ res[p] # None /\ res[p].team = t)
  BY DEF BeginTask, May
<1>3. Shaped(r) /\ RosterOK(r) /\ ResourceOK(r)
  BY <1>1, <1>2, RowsFacts DEF Shaped, ResourceOps, RosterOK, ResourceOK, Names
<1> QED
  BY <1>2, <1>3, BeginKeeps

LEMMA DeleteBegins ==
    ASSUME IInv, NEW w \in Workers, NEW u \in Users, NEW t \in live, BeginDelete(w, u, t)
    PROVE  IInv'
<1>0. PICK r, S : /\ S = OwnedBy(t) \cup TasksOf(t) \cup ({t} \cap groups)
                  /\ r = [Request("delete", u, t) EXCEPT !.set = S]
  OBVIOUS
<1>1. r = [op |-> "delete", by |-> u, team |-> t, who |-> None, item |-> None,
           set |-> S, rows |-> {}]
  BY <1>0 DEF Request
<1>2. Begin(w, r)
  BY <1>0 DEF BeginDelete
<1>3. Found(r)
  BY <1>0, <1>1 DEF Found
<1>4. Shaped(r) /\ RosterOK(r) /\ ResourceOK(r)
  BY <1>1, <1>3, RowsFacts DEF Shaped, ResourceOps, RosterOK, ResourceOK
<1> QED
  BY <1>2, <1>4, BeginKeeps

-----------------------------------------------------------------------------
LEMMA InitInv == Init => IInv
<1> SUFFICES ASSUME Init PROVE IInv
  OBVIOUS
<1>1. /\ users = Users /\ live = born /\ born \subseteq Teams
      /\ role \in [Teams -> [Users -> Roles \cup {None}]]
      /\ invites = [i \in Invites |-> None] /\ res = [x \in Resources |-> None]
      /\ grants = [x \in Resources |-> Nothing] /\ groups = {}
      /\ groupGrants = [t \in Teams |-> Nothing] /\ tasks = [k \in Tasks |-> None]
      /\ req = [w \in Workers |-> Idle] /\ asked = 0
      /\ used = {} /\ dropped = {} /\ raced = {} /\ late = {}
  BY DEF Init
<1>2. Nothing \in [Users -> {0} \cup Levels]
  BY DEF Nothing
<1>3. Typed
  BY <1>1, <1>2 DEF Typed, TypeOK
<1>4. \A w \in Workers : req[w] = Idle
  BY <1>1
<1>5. OwnerUnlessRaced
  <2> SUFFICES ASSUME NEW t \in live PROVE \E u \in Users : Owner(t, u)
    BY DEF OwnerUnlessRaced
  <2> DEFINE owners == {u \in Users : Owner(t, u)}
  <2>1. IF t = DefaultTeam THEN owners = SystemAdmins ELSE Cardinality(owners) = 1
    BY <1>1 DEF Init
  <2>2. owners # {}
    <3>1. Cardinality({}) = 0
      BY FS_EmptySet
    <3> HIDE DEF owners
    <3> QED
      BY <2>1, <3>1
  <2> QED
    BY <2>2
<1>6. MembersOfLiveTeams
  BY DEF Init, MembersOfLiveTeams
<1>7. RosterInv
  BY <1>1, <1>4, <1>5, <1>6 DEF RosterInv, RosterOK, Changing, Idle
<1>8. NothingLeftBehind
  BY <1>1 DEF NothingLeftBehind
<1>9. ResourceInv
  BY <1>1, <1>4, <1>8 DEF ResourceInv, ResourceOK, Idle
<1> QED
  BY <1>3, <1>7, <1>9 DEF IInv

LEMMA WriteKeeps ==
    ASSUME IInv, NEW w \in Workers, Write(w)
    PROVE  IInv'
  BY IssueKeeps, AcceptKeeps, PatchKeeps, RemoveKeeps, GrantKeeps, GroupKeeps, GroupGrantKeeps,
     CreateKeeps, CopyPipelineKeeps, SharePermissionsKeeps, GrantCreatorKeeps, ShareSourceKeeps,
     FileTaskKeeps, DeleteTeamKeeps DEF Write

LEMMA RosterRequestKeeps ==
    ASSUME IInv, NEW w \in Workers, NEW u \in Users, RosterRequest(w, u)
    PROVE  IInv'
<1>1. CASE \E t \in Teams : CreateTeam(w, u, t) \/ \E v \in users : CreateTeamFor(w, u, t, v)
  BY <1>1, CreateTeamKeeps, RowsFacts DEF CreateTeamFor
<1>2. CASE \E i \in Invites : BeginAccept(w, u, i)
  BY <1>2, AcceptBegins
<1>3. CASE \E t \in live, x \in Roles : BeginInvite(w, u, t, x) \/ BeginCurrentInvite(w, u, t, x)
  BY <1>3, InviteBegins DEF BeginCurrentInvite
<1>4. CASE \E t \in live, v \in Users : BeginRemove(w, u, t, v)
  BY <1>4, RemoveBegins
<1>5. CASE \E t \in live, v \in Users, new \in Roles : BeginPatch(w, u, t, v, new)
  BY <1>5, PatchBegins
<1> QED
  BY <1>1, <1>2, <1>3, <1>4, <1>5 DEF RosterRequest

LEMMA ResourceRequestKeeps ==
    ASSUME IInv, NEW w \in Workers, NEW u \in Users, ResourceRequest(w, u)
    PROVE  IInv'
<1>1. CASE \E x \in Resources : BeginCopy(w, u, x)
  BY <1>1, CopyBegins
<1>2. CASE \E x \in Resources : \/ DeletePipeline(w, u, x) \/ DeleteHost(w, u, x)
                                \/ DeleteSource(w, u, x) \/ DeleteOther(w, u, x)
  BY <1>2, DropKeeps DEF DeletePipeline, DeleteHost, DeleteSource, DeleteOther
<1>3. CASE \E x \in Resources, p \in BOOLEAN : BeginShareSource(w, u, x, p)
  BY <1>3, ShareSourceBegins
<1>4. CASE \E x \in Resources, v \in Users : Revoke(w, u, x, v)
  BY <1>4, RevokeKeeps
<1>5. CASE \E x \in Resources, v \in Users, l \in Granted : BeginGrant(w, u, x, v, l)
  BY <1>5, GrantBegins
<1>6. CASE \E t \in live : BeginGroup(w, u, t) \/ BeginDelete(w, u, t)
  BY <1>6, GroupBegins, DeleteBegins
<1>7. CASE \E t \in live :
             \/ \E k \in {KindOf[x] : x \in Resources \ used} : BeginCreate(w, u, t, k)
             \/ \E p \in BOOLEAN : BeginCreateSource(w, u, t, p)
  BY <1>7, CreateBegins
<1>8. CASE \E t \in live, p \in Resources \cup {None} : BeginTask(w, u, t, p)
  BY <1>8, TaskBegins
<1>9. CASE \E t \in live, v \in Users : GroupRevoke(w, u, t, v)
  BY <1>9, GroupRevokeKeeps
<1>10. CASE \E t \in live, v \in Users, l \in Granted : BeginGroupGrant(w, u, t, v, l)
  BY <1>10, GroupGrantBegins
<1> QED
  BY <1>1, <1>2, <1>3, <1>4, <1>5, <1>6, <1>7, <1>8, <1>9, <1>10 DEF ResourceRequest

LEMMA StutterKeeps ==
    ASSUME IInv, UNCHANGED vars
    PROVE  IInv'
<1>1. /\ UNCHANGED <<users, born, live, role, invites, raced>>
      /\ UNCHANGED <<res, grants, groups, groupGrants, tasks, req, asked, used, dropped, late>>
  BY DEF vars, data, ids
<1>2. \A v \in Workers : SameRequest(v)
  BY <1>1 DEF SameRequest
<1>3. UNCHANGED rest
  BY <1>1 DEF rest
<1>4. ResourceInv'
  BY <1>1, <1>2, <1>3, ResourceFrame DEF IInv, ResourceInv
<1> QED
  BY <1>1, <1>4, WriteFrame DEF IInv, Typed, TypeOK

LEMMA StepKeeps == IInv /\ [Next]_vars => IInv'
<1> SUFFICES ASSUME IInv, [Next]_vars PROVE IInv'
  OBVIOUS
<1>1. CASE \E w \in Workers : Write(w)
  BY <1>1, WriteKeeps
<1>2. CASE \E w \in Workers, u \in users : RosterRequest(w, u) \/ ResourceRequest(w, u)
  BY <1>2, RosterRequestKeeps, ResourceRequestKeeps, RowsFacts
<1>3. CASE \E u \in users : DeleteUser(u)
  BY <1>3, DeleteUserKeeps, RowsFacts
<1>4. CASE \E i \in Invites : InviteExpires(i)
  BY <1>4, ExpiresKeeps
<1>5. CASE UNCHANGED vars
  BY <1>5, StutterKeeps
<1> QED
  BY <1>1, <1>2, <1>3, <1>4, <1>5 DEF Next

(***************************************************************************)
(* The inductive invariant: rows, and what every request under way read    *)
(* of them, say the same in every reachable state.                         *)
(***************************************************************************)
THEOREM Invariance == Spec => []IInv
<1>1. Init => IInv
  BY InitInv
<1>2. IInv /\ [Next]_vars => IInv'
  BY StepKeeps
<1> QED
  BY <1>1, <1>2, PTL DEF Spec

(***************************************************************************)
(* The rows of teams, members, permissions and groups keep their types.    *)
(***************************************************************************)
THEOREM TypeCorrect == Spec => []TypeOK
<1>1. IInv => TypeOK
  BY DEF IInv, Typed
<1> QED
  BY <1>1, Invariance, PTL

(***************************************************************************)
(* Nobody becomes a member of a team that is gone: an invitation accepted  *)
(* while the team is deleted is undone with its mark (accept_invitation).  *)
(***************************************************************************)
THEOREM Members == Spec => []MembersOfLiveTeams
<1>1. IInv => MembersOfLiveTeams
  BY DEF IInv, RosterInv
<1> QED
  BY <1>1, Invariance, PTL

(***************************************************************************)
(* A team keeps an owner as long as its roles are changed by one request   *)
(* at a time (patch_member_role), whatever else any number of requests do. *)
(***************************************************************************)
THEOREM OwnerKept == Spec => []OwnerUnlessRaced
<1>1. IInv => OwnerUnlessRaced
  BY DEF IInv, RosterInv
<1> QED
  BY <1>1, Invariance, PTL

(***************************************************************************)
(* A deleted team leaves nothing behind (delete_team_cascade), unless      *)
(* something was written for it while it was deleted or later.             *)
(***************************************************************************)
THEOREM NothingLeft == Spec => []NothingLeftBehind
<1>1. IInv => NothingLeftBehind
  BY DEF IInv, ResourceInv
<1> QED
  BY <1>1, Invariance, PTL
=============================================================================
