--------------------------- MODULE SchemaUpgrade ---------------------------
(***************************************************************************)
(* The schema upgrade that every start of the server runs before it serves *)
(* (database.init_db).  It is a fixed sequence of steps; each looks at     *)
(* what the database of an older release still lacks, adds it, and catches *)
(* its own errors, so that the later steps run whatever became of it, and  *)
(* all of them run again at the next start.  Nothing else uses the         *)
(* database meanwhile.  What can go wrong lies between the commits: a      *)
(* crash, or a step that fails (the file is locked by an export script, a  *)
(* column that an earlier step could not add), leaves the committed part.  *)
(*                                                                         *)
(* db is the committed database and open the connection's view of it while *)
(* a transaction that consists of several steps of this module is open;    *)
(* todo are the rows that transaction has read and still has to deal with. *)
(***************************************************************************)
EXTENDS Naturals, Sequences, FiniteSets, Functions

CONSTANTS
    Releases,     \* the databases of older releases an upgrade may find
    ConfigUsers,  \* the user names of config.yml
    ConfigHasRegistries, \* config.yml lists registries
    UserTemplates,       \* names of the template files of the users
    MaxStarts,    \* bound: starts of the server
    MaxFailures,  \* bound: steps that fail
    MaxChanges,   \* bound: changes made while the server serves
    Null

VARIABLES db, open, todo, pc, starts, failures, changes
upgradeVars == <<db, open, todo, pc, starts, failures, changes>>

Default == "default"            \* DEFAULT_TEAM_SLUG
DefaultName == "default team"   \* DEFAULT_TEAM_NAME

(***************************************************************************)
(* Tables and columns.  A table is old when releases exist whose table of  *)
(* that name lacks columns of the present one.                             *)
(***************************************************************************)
TeamTables ==
    {"pipelines", "deploy_configs", "git_sources", "agent_hosts", "hosts",
     "resource_packages", "tasks", "export_tasks", "operation_logs"}

PipelineColumns ==
    << <<"pipelines", "webhook_allowed_branches">>,
       <<"pipelines", "post_build_webhooks">>,
       <<"pipelines", "tag_build_enabled">>, <<"pipelines", "profile">> >>
PortainerColumns ==
    << <<"agent_hosts", "host_type">>, <<"agent_hosts", "portainer_url">>,
       <<"agent_hosts", "portainer_api_key">>,
       <<"agent_hosts", "portainer_endpoint_id">> >>
AuthColumns ==
    << <<"agent_hosts", "portainer_auth_mode">>,
       <<"agent_hosts", "portainer_username">>,
       <<"agent_hosts", "portainer_password">> >>
StartedColumns == << <<"tasks", "started_at">> >>
AgentIdColumns == << <<"agent_hosts", "agent_unique_id">> >>
LinkColumns == << <<"tasks", "deploy_config_id">> >>
ResourceColumns ==
    << <<"pipelines", "team_id">>, <<"pipelines", "group_id">>,
       <<"pipelines", "created_by">>, <<"deploy_configs", "team_id">>,
       <<"deploy_configs", "created_by">>, <<"git_sources", "team_id">>,
       <<"git_sources", "created_by">>, <<"agent_hosts", "team_id">>,
       <<"agent_hosts", "group_id">>, <<"agent_hosts", "created_by">> >>
CleanupColumns == << <<"teams", "task_cleanup_days">> >>
LimitColumns == << <<"teams", "max_concurrent_tasks">> >>
MiscColumns ==
    << <<"tasks", "team_id">>, <<"tasks", "created_by">>,
       <<"export_tasks", "team_id">>, <<"export_tasks", "created_by">>,
       <<"hosts", "team_id">>, <<"hosts", "created_by">>,
       <<"resource_packages", "team_id">>, <<"resource_packages", "created_by">>,
       <<"operation_logs", "team_id">> >>
MigrationColumns ==
    << <<"migration_tasks", "source_registry_name">>,
       <<"migration_tasks", "target_registry_name">>,
       <<"migration_tasks", "approval_request_id">> >>
ScopeColumns == << <<"git_sources", "scope">>, <<"git_sources", "visibility">> >>

\* the steps that only add columns, and what each adds
ColumnsOf ==
    [pipeline_columns |-> PipelineColumns, portainer_fields |-> PortainerColumns,
     portainer_auth_mode |-> AuthColumns, started_at |-> StartedColumns,
     agent_unique_id |-> AgentIdColumns, resource_columns |-> ResourceColumns,
     cleanup_days |-> CleanupColumns, max_tasks |-> LimitColumns,
     misc_columns |-> MiscColumns, git_source_scope |-> ScopeColumns]

AllColumns ==
    (UNION {Range(ColumnsOf[s]) : s \in DOMAIN ColumnsOf})
        \cup Range(LinkColumns) \cup Range(MigrationColumns)
OldTables == {c[1] : c \in AllColumns}

\* the columns the rebuilt agent_hosts has, of those added over the years
RebuiltColumns == Range(PortainerColumns)

Has(d, t, c) == <<t, c>> \in d.cols
Ids(S) == {s.id : s \in S}

(***************************************************************************)
(* The rows, as far as the upgrade tells them apart, and the databases.    *)
(* The name of an application is a number and, once it was taken, the id   *)
(* of the task that was moved to it.                                       *)
(***************************************************************************)
OptId == Nat \cup {Null}
OptUser == STRING \cup {Null}

SystemRoles == {"admin", "user", "readonly"}
Menus == {"menus", "menu.migration", "menu.team-requests"}
Accounts == ConfigUsers \cup {"admin"} \cup (UNION {r.users : r \in Releases})

StoredTasks ==
    [id : Nat, kind : STRING, source : OptId, config : OptId, name : Nat \X Nat,
     content : Nat, team : OptId, by : OptUser, logged : OptUser, hint : OptId]
ConfigRows == [id : Nat, name : Nat \X Nat, content : Nat, team : OptId]
TeamOwnedRows == [id : Nat, table : TeamTables, team : OptId]
TeamRows == [id : Nat, name : {DefaultName, "team"}, slug : {Default, "own"}]
MemberRows == [team : Nat, user : Accounts, role : {"owner", "admin", "member"}]

Databases ==
    [origin : Nat, tables : SUBSET (OldTables \cup {"teams"}), cols : SUBSET AllColumns,
     strict : BOOLEAN, hosts : SUBSET STRING, spareTable : BOOLEAN, spare : SUBSET STRING,
     badJson : SUBSET STRING, roles : SUBSET SystemRoles, perms : SUBSET Menus,
     grants : SUBSET (SystemRoles \X Menus), users : SUBSET Accounts,
     holders : SUBSET (Accounts \X SystemRoles), tasks : SUBSET StoredTasks,
     configs : SUBSET ConfigRows, rows : SUBSET TeamOwnedRows, teams : SUBSET TeamRows,
     members : SUBSET MemberRows, registries : SUBSET Nat,
     templates : SUBSET (STRING \X OptId), done : BOOLEAN]

(***************************************************************************)
(* What the properties say of a database.                                  *)
(***************************************************************************)
\* every row with a team, and every member, names a team that exists
TeamsExistIn(d) ==
    /\ \A r \in d.rows \cup d.tasks \cup d.configs : r.team \in Ids(d.teams) \cup {Null}
    /\ \A m \in d.members : m.team \in Ids(d.teams)

\* every execution finds the content it was made from
ContentIn(d) ==
    \A e \in {t \in d.tasks : t.source # Null} :
        \/ e.config = Null /\ \E t \in d.tasks : t.id = e.source /\ t.content = e.content
        \/ \E c \in d.configs : c.id = e.config /\ c.content = e.content

\* the mark says that no task is without a team
HistoryIn(d) == d.done => \A t \in d.tasks : t.team # Null

\* what the log or the configuration of a task says of its team is a team
HintsIn(d) == \A t \in d.tasks : t.hint \in Ids(d.teams) \cup {Null}

\* The databases an upgrade finds: their rows name rows that are there.
ReleasesOK ==
    /\ Null \notin Nat
    /\ UserTemplates \subseteq STRING
    /\ MaxStarts \in Nat \ {0} /\ MaxFailures \in Nat /\ MaxChanges \in Nat
    /\ Releases \subseteq Databases
    /\ \A d \in Releases :
          /\ IsFiniteSet(d.teams) /\ \A t, u \in d.teams : t.id = u.id => t = u
          /\ \A e, t \in d.tasks : e.source = t.id => e.content = t.content
          /\ TeamsExistIn(d) /\ ContentIn(d) /\ HistoryIn(d) /\ HintsIn(d)

ASSUME ReleasesAssumption == ReleasesOK

(***************************************************************************)
(* The order of the steps; a step that fails or has nothing to do is       *)
(* followed by the one After it.                                           *)
(***************************************************************************)
After ==
    [create_all |-> "pipeline_columns", pipeline_columns |-> "portainer_fields",
     portainer_fields |-> "portainer_auth_mode",
     portainer_auth_mode |-> "token_nullable", token_nullable |-> "fix_json",
     copy |-> "fix_json", drop |-> "fix_json", rename |-> "fix_json",
     fix_json |-> "started_at", started_at |-> "user_system",
     grants |-> "agent_unique_id", accounts |-> "agent_unique_id",
     user_system |-> "agent_unique_id", agent_unique_id |-> "link_column",
     link_column |-> "resource_columns", config_tasks |-> "resource_columns",
     move |-> "resource_columns",
     resource_columns |-> "registries", registries |-> "templates",
     templates |-> "cleanup_days", cleanup_days |-> "max_tasks",
     max_tasks |-> "misc_columns", misc_columns |-> "created_by",
     created_by |-> "orphan_uploads", orphan_uploads |-> "default_team",
     default_team |-> "migration_menu", merge |-> "migration_menu", owners |-> "migration_menu",
     migration_menu |-> "approval_menu", approval_menu |-> "git_source_scope",
     git_source_scope |-> "served"]
Steps == DOMAIN After

UpgradeInit ==
    /\ db \in Releases
    /\ open = db
    /\ todo = {}
    /\ pc = "create_all"
    /\ starts = 1
    /\ failures = 0
    /\ changes = 0

\* a committed change, after which step s is the next
Commit(new, s) ==
    /\ db' = new
    /\ open' = new
    /\ todo' = {}
    /\ pc' = s
    /\ UNCHANGED <<starts, failures, changes>>

Skip(s) == Commit(db, s)

(***************************************************************************)
(* Base.metadata.create_all: the tables that do not exist, complete.       *)
(***************************************************************************)
CreateAll ==
    /\ pc = "create_all"
    /\ LET missing == (OldTables \cup {"teams"}) \ db.tables
       IN  Commit([db EXCEPT !.tables = @ \cup missing,
                             !.cols = @ \cup {c \in AllColumns : c[1] \in missing}],
                  After[pc])

\* ALTER TABLE outside a transaction is committed at once: the missing
\* columns of a step are added one by one
AddColumns ==
    /\ pc \in DOMAIN ColumnsOf
    /\ LET columns == ColumnsOf[pc]
           missing == {i \in DOMAIN columns : columns[i] \notin db.cols}
       IN  \/ missing = {} /\ Skip(After[pc])
           \/ \E i \in missing :
                 /\ \A j \in missing : i <= j
                 /\ Commit([db EXCEPT !.cols = @ \cup {columns[i]}], pc)

(***************************************************************************)
(* migrate_token_nullable: SQLite cannot drop a NOT NULL, so agent_hosts   *)
(* is rebuilt.  The driver opens a transaction before INSERT, UPDATE and   *)
(* DELETE only: a CREATE, DROP or ALTER is committed at once unless one is *)
(* open already.                                                           *)
(***************************************************************************)
InTransaction == pc \in {"drop", "rename"}

\* A driver that commits before every DDL statement
DdlCommits(new) == new
Ddl(new) == IF InTransaction THEN db ELSE new

Statement(new, committed, s) ==
    /\ open' = new
    /\ db' = committed
    /\ pc' = s
    /\ UNCHANGED <<todo, starts, failures, changes>>

\* CREATE TABLE agent_hosts_new; it fails when a crash has left one
CreateSpare ==
    /\ pc = "token_nullable"
    /\ IF db.strict /\ ~db.spareTable
       THEN LET new == [open EXCEPT !.spareTable = TRUE, !.spare = {}]
            IN  Statement(new, Ddl(new), "copy")
       ELSE Skip(After[pc])

CopyHosts ==
    /\ pc = "copy"
    /\ Statement([open EXCEPT !.spare = open.hosts], db, "drop")

DropHosts ==
    /\ pc = "drop"
    /\ LET new == [open EXCEPT !.tables = @ \ {"agent_hosts"}, !.hosts = {},
                               !.cols = {c \in @ : c[1] # "agent_hosts"}, !.strict = FALSE]
       IN  Statement(new, Ddl(new), "rename")

\* RENAME, the indexes, and the commit; values that are no text become "{}"
RenameSpare ==
    /\ pc = "rename"
    /\ Commit([open EXCEPT !.tables = @ \cup {"agent_hosts"}, !.strict = FALSE,
                           !.hosts = open.spare, !.spareTable = FALSE, !.spare = {},
                           !.cols = @ \cup RebuiltColumns],
              After[pc])

\* migrate_fix_json_fields: host_info and docker_info that do not parse
FixJson ==
    /\ pc = "fix_json"
    /\ Commit([db EXCEPT !.badJson = {}], After[pc])

(***************************************************************************)
(* migrate_add_user_system: nothing once a user exists.  The roles and the *)
(* permissions are committed one by one, which no later step can tell      *)
(* apart; a user and the user's role are two commits, which a crash can.   *)
(***************************************************************************)
RolesAndPermissions ==
    /\ pc = "user_system"
    /\ IF db.users # {}
       THEN Skip(After[pc])
       ELSE Commit([db EXCEPT !.roles = @ \cup {"admin", "user", "readonly"},
                              !.perms = @ \cup {"menus", "menu.migration"}],
                   "grants")

GrantMenus ==
    /\ pc = "grants"
    /\ Commit([db EXCEPT !.grants = @ \cup {"admin", "user"} \X {"menus", "menu.migration"}
                                       \cup {<<"readonly", "menus">>}],
              "accounts")

NewAccounts == IF ConfigUsers = {} THEN {"admin"} ELSE ConfigUsers
RoleOf(u) == IF u = "admin" THEN "admin" ELSE "user"

\* the user just added gets a role in a commit of its own
AddAccount ==
    /\ pc = "accounts"
    /\ LET bare == {u \in db.users : u \notin {h[1] : h \in db.holders}}
       IN  IF bare # {}
           THEN \E u \in bare : Commit([db EXCEPT !.holders = @ \cup {<<u, RoleOf(u)>>}], pc)
           ELSE IF NewAccounts \subseteq db.users
                THEN Skip(After[pc])
                ELSE \E u \in NewAccounts \ db.users :
                       Commit([db EXCEPT !.users = @ \cup {u}], pc)

(***************************************************************************)
(* migrate_deploy_task_architecture: a deployment's configuration was a    *)
(* task that its executions named as their source; each becomes a row of   *)
(* deploy_configs.  The rows are moved one by one, in the order in which   *)
(* they were read, which no ORDER BY fixes; a row that cannot be moved is  *)
(* left, and there is one commit for all.                                  *)
(***************************************************************************)
AddLinkColumn ==
    /\ pc = "link_column"
    /\ Commit([db EXCEPT !.cols = @ \cup Range(LinkColumns)], "config_tasks")

IsConfigTask(t) == t.kind = "deploy" /\ t.config = Null /\ t.source = Null

SameName(d, t) == {c \in d.configs : c.name = t.name}
\* A row of that name is taken whatever its content
ReusableByName(c, t) == TRUE
Reusable(c, t) == c.content = t.content

\* the executions of t name configuration id, and t is deleted
Repoint(d, t, id) ==
    [d EXCEPT !.tasks = {IF e.source = t.id THEN [e EXCEPT !.config = id] ELSE e :
                           e \in @ \ {t}}]

MoveConfig(d, t) ==
    LET same == {c \in SameName(d, t) : Reusable(c, t)}
        new == [id |-> t.id, content |-> t.content, team |-> Null,
                name |-> IF SameName(d, t) = {} THEN t.name ELSE <<t.name[1], t.id>>]
    IN  IF same # {}
        THEN Repoint(d, t, (CHOOSE c \in same : TRUE).id)
        ELSE Repoint([d EXCEPT !.configs = @ \cup {new}], t, new.id)

ReadConfigTasks ==
    /\ pc = "config_tasks"
    /\ todo' = {t \in db.tasks : IsConfigTask(t)}
    /\ pc' = "move"
    /\ UNCHANGED <<db, open, starts, failures, changes>>

MoveConfigTask(t) ==
    /\ pc = "move"
    /\ todo' = todo \ {t}
    /\ \/ /\ open' = MoveConfig(open, t)
          /\ UNCHANGED failures
       \/ /\ failures < MaxFailures
          /\ failures' = failures + 1
          /\ UNCHANGED open
    /\ UNCHANGED <<db, pc, starts, changes>>

CommitMoves ==
    /\ pc = "move"
    /\ todo = {}
    /\ Commit(open, After[pc])

(***************************************************************************)
(* Rows that were files before: the registries of config.yml for every     *)
(* team that has none, and the templates of the users, once, for the first *)
(* team.  Both read the teams as the present release describes them.       *)
(***************************************************************************)
TeamsReadable(d) ==
    Has(d, "teams", "task_cleanup_days") /\ Has(d, "teams", "max_concurrent_tasks")

First(S) == CHOOSE s \in S : \A r \in S : s.id <= r.id

FillRegistries ==
    /\ pc = "registries"
    /\ Commit(IF ConfigHasRegistries /\ TeamsReadable(db)
              THEN [db EXCEPT !.registries = @ \cup Ids(db.teams)] ELSE db, After[pc])

RecordTemplates ==
    /\ pc = "templates"
    /\ LET team == IF db.teams = {} THEN Null ELSE First(db.teams).id
       IN  Commit(IF db.templates = {} /\ TeamsReadable(db)
                  THEN [db EXCEPT !.templates = UserTemplates \X {team}] ELSE db,
                  After[pc])

(***************************************************************************)
(* Backfills of the tasks' creators (from the log) and of the team of      *)
(* uploaded builds (from the log or the task's own configuration).         *)
(***************************************************************************)
BackfillCreators ==
    /\ pc = "created_by"
    /\ Commit(IF Has(db, "tasks", "created_by") /\ Has(db, "tasks", "team_id")
              THEN [db EXCEPT !.tasks = {[t EXCEPT !.by = IF @ = Null THEN t.logged ELSE @] :
                                           t \in @}]
              ELSE db, After[pc])

BackfillUploads ==
    /\ pc = "orphan_uploads"
    /\ LET Orphan(t) == t.kind = "upload" /\ t.team = Null
       IN  Commit(IF Has(db, "tasks", "team_id") /\ Has(db, "operation_logs", "team_id")
                  THEN [db EXCEPT !.tasks =
                         {[t EXCEPT !.team = IF Orphan(t) THEN t.hint ELSE @] : t \in @}]
                  ELSE db, After[pc])

(***************************************************************************)
(* migrate_backfill_default_team.  In one transaction: a single default    *)
(* team (the one with its slug, else the oldest with its name; every other *)
(* team of that name is merged into it), and, once in the life of a        *)
(* database, every row without a team given to it.                         *)
(***************************************************************************)
Admins(d) == {u \in d.users : <<u, "admin">> \in d.holders}

BySlug(d) == {t \in d.teams : t.slug = Default}
ByName(d) == {t \in d.teams : t.name = DefaultName}

\* A list of tables in which deploy_configs is missing
RepointTasksAndRows(d, k, x) ==
    LET moved(S) == {[s EXCEPT !.team = IF @ = x THEN k ELSE @] : s \in S}
    IN  [d EXCEPT !.tasks = moved(@), !.rows = moved(@)]

\* each table of TeamTables that has the column: rows of team x go to k
RepointTeam(d, k, x) ==
    LET moved(S) == {[s EXCEPT !.team = IF @ = x THEN k ELSE @] : s \in S}
    IN  [d EXCEPT !.tasks = moved(@), !.configs = moved(@), !.rows = moved(@)]

\* Who is in both keeps the role had in k
MergeTeamUnraised(d, k, x) ==
    LET stay == {m \in d.members : m.team # x}
        join == {[m EXCEPT !.team = k] :
                   m \in {n \in d.members \ stay : \A o \in stay : o.team = k => o.user # n.user}}
    IN  [RepointTeam(d, k, x) EXCEPT !.members = stay \cup join,
                                     !.teams = {t \in @ : t.id # x}]

\* x's members join k; who is in both is an owner if an owner of either
MergeTeam(d, k, x) ==
    LET mine == {m \in d.members : m.team = x}
        Raised(m) == [team |-> x, user |-> m.user, role |-> "owner"] \in mine
        stay == {[m EXCEPT !.role = IF m.team = k /\ Raised(m) THEN "owner" ELSE @] :
                   m \in d.members \ mine}
        join == {[m EXCEPT !.team = k] :
                   m \in {n \in mine : \A o \in stay : o.team = k => o.user # n.user}}
    IN  [RepointTeam(d, k, x) EXCEPT !.members = stay \cup join,
                                     !.teams = {t \in @ : t.id # x}]

NewId(S) == CHOOSE n \in 1..(Cardinality(S) + 1) : n \notin Ids(S)

\* the team to keep gets the slug, or a team is created
KeptTeam(d) == First(IF BySlug(d) # {} THEN BySlug(d) ELSE ByName(d))

WithDefaultTeam(d) ==
    IF BySlug(d) \cup ByName(d) # {}
    THEN [d EXCEPT !.teams = (@ \ {KeptTeam(d)}) \cup {[KeptTeam(d) EXCEPT !.slug = Default]}]
    ELSE [d EXCEPT !.teams = @ \cup {[id |-> NewId(@), name |-> DefaultName,
                                     slug |-> Default]}]

DefaultTeamId(d) == First(BySlug(d)).id

\* _backfill_null_team_ids_locked: a table without the column is passed over
Backfilled(d) ==
    LET given(S, t) == {[s EXCEPT !.team = IF @ = Null /\ Has(d, t, "team_id")
                                           THEN DefaultTeamId(d) ELSE @] : s \in S}
    IN  [d EXCEPT !.tasks = given(@, "tasks"), !.configs = given(@, "deploy_configs"),
                  !.rows = UNION {given({r \in @ : r.table = t}, t) : t \in TeamTables}]

\* Tasks without the column are passed over like the other tables
BackfillableAlways(d) == TRUE

\* A statement that cannot be executed rolls the transaction back: a team is
\* created with the first column, tasks are updated by the second.
Creatable(d) == BySlug(d) \cup ByName(d) = {} => Has(d, "teams", "task_cleanup_days")
Backfillable(d) == Has(d, "tasks", "team_id")

\* _ensure_canonical_default_team_locked, up to the merging
KeepDefaultTeam ==
    /\ pc = "default_team"
    /\ IF Admins(db) = {} \/ ~Creatable(db)
       THEN Skip(After[pc])
       ELSE /\ open' = WithDefaultTeam(db)
            /\ todo' = {t \in ByName(open') : t.id # DefaultTeamId(open')}
            /\ pc' = "merge"
            /\ UNCHANGED <<db, starts, failures, changes>>

MergeInto(x) ==
    /\ pc = "merge"
    /\ open' = MergeTeam(open, DefaultTeamId(open), x.id)
    /\ todo' = todo \ {x}
    /\ UNCHANGED <<db, pc, starts, failures, changes>>

\* the history, unless it was given before, and the mark; then the commit
BackfillTeams ==
    /\ pc = "merge"
    /\ todo = {}
    /\ IF open.done THEN Commit(open, "owners")
       ELSE IF Backfillable(open)
            THEN Commit([Backfilled(open) EXCEPT !.done = TRUE], "owners")
            ELSE Skip(After[pc])

\* every administrator becomes an owner of it, in a transaction of its own
AdminsOwnIt ==
    /\ pc = "owners"
    /\ LET k == DefaultTeamId(db)
           others == {m \in db.members : m.team # k \/ m.user \notin Admins(db)}
       IN  Commit([db EXCEPT !.members =
                     others \cup [team : {k}, user : Admins(db), role : {"owner"}]],
                  After[pc])

\* menu permissions that came later, granted to the roles that exist
MigrationMenu ==
    /\ pc = "migration_menu"
    /\ Commit([db EXCEPT !.cols = @ \cup Range(MigrationColumns),
                         !.perms = @ \cup {"menu.migration"},
                         !.grants = @ \cup (db.roles \cap {"admin", "user"})
                                              \X {"menu.migration"}],
              After[pc])

ApprovalMenu ==
    /\ pc = "approval_menu"
    /\ Commit([db EXCEPT !.perms = @ \cup {"menu.team-requests"},
                         !.grants = @ \cup (db.roles \cap {"admin", "user"})
                                              \X {"menu.team-requests"}],
              After[pc])

(***************************************************************************)
(* Faults: a step fails and is rolled back; the process ends at any point. *)
(***************************************************************************)
StepFails ==
    /\ pc \in Steps \ {"create_all"}
    /\ failures < MaxFailures
    /\ failures' = failures + 1
    /\ open' = db
    /\ todo' = {}
    /\ pc' = After[pc]
    /\ UNCHANGED <<db, starts, changes>>

Restart ==
    /\ starts < MaxStarts
    /\ starts' = starts + 1
    /\ pc' = "create_all"
    /\ open' = db
    /\ todo' = {}
    /\ UNCHANGED <<db, failures, changes>>

(***************************************************************************)
(* What the server changes between two starts, as far as the next upgrade  *)
(* looks at it: teams are created and renamed, rows are written for a team *)
(* or, by the log, for none.                                               *)
(***************************************************************************)
Change(new) ==
    /\ pc = "served"
    /\ changes < MaxChanges
    /\ changes' = changes + 1
    /\ db' = new
    /\ open' = new
    /\ UNCHANGED <<todo, pc, starts, failures>>

AddTeam(u) ==
    LET t == [id |-> NewId(db.teams), name |-> "team", slug |-> "own"]
    IN  Change([db EXCEPT !.teams = @ \cup {t},
                          !.members = @ \cup {[team |-> t.id, user |-> u, role |-> "owner"]}])

\* PATCH of a team: any name, and the slug made from it
RenameTeam(t, name) ==
    Change([db EXCEPT !.teams = (@ \ {t}) \cup {[t EXCEPT !.name = name, !.slug = "own"]}])

WriteRow(table, team) ==
    Change([db EXCEPT !.rows = @ \cup {[id |-> 100 + changes, table |-> table, team |-> team]}])

WriteConfig(team) ==
    Change([db EXCEPT !.configs = @ \cup {[id |-> 100 + changes, name |-> <<100 + changes, 0>>,
                                          content |-> 100 + changes, team |-> team]}])

Serve ==
    \/ \E u \in db.users : AddTeam(u)
    \/ \E t \in db.teams, name \in {DefaultName, "team"} : RenameTeam(t, name)
    \/ \E t \in {"export_tasks", "operation_logs"}, team \in Ids(db.teams) \cup {Null} :
         WriteRow(t, team)
    \/ \E team \in Ids(db.teams) : WriteConfig(team)

UpgradeNext ==
    \/ CreateAll \/ AddColumns
    \/ CreateSpare \/ CopyHosts \/ DropHosts \/ RenameSpare \/ FixJson
    \/ RolesAndPermissions \/ GrantMenus \/ AddAccount
    \/ AddLinkColumn \/ ReadConfigTasks \/ (\E t \in todo : MoveConfigTask(t)) \/ CommitMoves
    \/ FillRegistries \/ RecordTemplates
    \/ BackfillCreators \/ BackfillUploads
    \/ KeepDefaultTeam \/ (\E x \in todo : MergeInto(x)) \/ BackfillTeams
    \/ AdminsOwnIt \/ MigrationMenu \/ ApprovalMenu
    \/ StepFails \/ Restart \/ Serve

UpgradeSpec == UpgradeInit /\ [][UpgradeNext]_upgradeVars

-----------------------------------------------------------------------------
UpgradeTypeOK ==
    /\ db \in Databases
    /\ open \in Databases
    /\ todo \subseteq StoredTasks \cup TeamRows
    /\ pc \in Steps \cup {"served"}
    /\ starts \in 1..MaxStarts
    /\ failures \in 0..MaxFailures
    /\ changes \in 0..MaxChanges

(***************************************************************************)
(* Whatever the upgrade was doing when it was interrupted, the committed   *)
(* agent_hosts has every host it had: the copy, the drop and the renaming  *)
(* of the rebuild are one transaction (migrate_token_nullable).            *)
(***************************************************************************)
HostsKept == \E r \in Releases : db.hosts = r.hosts /\ r.origin = db.origin

(***************************************************************************)
(* An execution finds the configuration it was made from, in the task it   *)
(* names as its source until that becomes a row of deploy_configs, and in  *)
(* that row afterwards: two configurations of one application are never    *)
(* taken for each other (migrate_deploy_task_architecture).                *)
(***************************************************************************)
ExecutionsKeepContent == ContentIn(db)

(***************************************************************************)
(* The rows of the nine tables and the members name teams that exist, also *)
(* after a team was merged into the default team                           *)
(* (_dedupe_default_teams_locked).                                         *)
(***************************************************************************)
TeamsExist == TeamsExistIn(db)

(***************************************************************************)
(* Once the database says that its history has been given to the default   *)
(* team, no task of that history is without a team: the mark is committed  *)
(* with the rows, or not at all (migrate_backfill_default_team).           *)
(***************************************************************************)
HistoryHasTeam == HistoryIn(db)

(***************************************************************************)
(* The upgrade takes nobody's membership or ownership away: after a commit *)
(* every member is one of the same team or, when that was merged, of the   *)
(* default team, and an owner is an owner still, in whatever order the     *)
(* teams of the default name are merged (_dedupe_default_teams_locked).    *)
(***************************************************************************)
KeepsMembers(d, e) ==
    \A m \in d.members : \E n \in e.members :
        /\ n.user = m.user
        /\ m.role = "owner" => n.role = "owner"
        /\ n.team = IF m.team \in Ids(e.teams) THEN m.team ELSE DefaultTeamId(e)

MembersKept == [][KeepsMembers(db, db')]_upgradeVars
=============================================================================
