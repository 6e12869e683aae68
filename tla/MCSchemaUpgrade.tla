-------------------------- MODULE MCSchemaUpgrade --------------------------
(***************************************************************************)
(* Four releases to upgrade from: no database at all; hosts whose token    *)
(* must not be null, no users, no teams; configurations of deployments     *)
(* that are tasks, two of them for one application, no teams; and teams,   *)
(* the default one twice, with rows and members of each.                   *)
(***************************************************************************)
EXTENDS SchemaUpgrade

Task(id, kind, source, name, content) ==
    [id |-> id, kind |-> kind, source |-> source, config |-> Null, name |-> <<name, 0>>,
     content |-> content, team |-> Null, by |-> Null, logged |-> Null, hint |-> Null]

TeamColumns == {<<"teams", "task_cleanup_days">>, <<"teams", "max_concurrent_tasks">>}

Fresh ==
    [origin |-> 0, tables |-> {}, cols |-> {}, strict |-> FALSE, hosts |-> {},
     spareTable |-> FALSE, spare |-> {}, badJson |-> {},
     roles |-> {}, perms |-> {}, grants |-> {}, users |-> {}, holders |-> {},
     tasks |-> {}, configs |-> {}, rows |-> {}, teams |-> {}, members |-> {},
     registries |-> {}, templates |-> {}, done |-> FALSE]

BeforeUsers ==
    [Fresh EXCEPT !.origin = 1, !.strict = TRUE, !.tables = OldTables \ {"migration_tasks"},
                  !.hosts = {"h1", "h2"}, !.badJson = {"h2"},
                  !.tasks = {Task(1, "upload", Null, 20, 1)}]

BeforeTeams ==
    [Fresh EXCEPT !.origin = 2, !.tables = OldTables \ {"migration_tasks", "teams"},
                  !.cols = Range(PipelineColumns \o PortainerColumns \o StartedColumns
                                   \o AgentIdColumns),
                  !.hosts = {"h1"}, !.roles = {"admin", "user", "readonly"},
                  !.users = {"admin", "ann"},
                  !.holders = {<<"admin", "admin">>, <<"ann", "user">>},
                  !.tasks = {Task(1, "deploy", Null, 10, 1), Task(2, "deploy", Null, 10, 2),
                             Task(3, "deploy", Null, 10, 1), Task(4, "deploy", 2, 10, 2),
                             Task(5, "deploy", 3, 10, 1)},
                  !.rows = {[id |-> 1, table |-> "export_tasks", team |-> Null]}]

TwoDefaults ==
    [Fresh EXCEPT !.origin = 3, !.tables = OldTables \cup {"teams"},
                  !.cols = AllColumns \ TeamColumns,
                  !.hosts = {"h1"}, !.roles = {"admin", "user"},
                  !.users = {"admin", "ann"},
                  !.holders = {<<"admin", "admin">>, <<"ann", "user">>},
                  !.teams = {[id |-> 1, name |-> DefaultName, slug |-> "own"],
                             [id |-> 2, name |-> DefaultName, slug |-> "own"]},
                  !.members = {[team |-> 1, user |-> "ann", role |-> "member"],
                               [team |-> 2, user |-> "ann", role |-> "owner"]},
                  !.configs = {[id |-> 9, name |-> <<10, 0>>, content |-> 1, team |-> 2]},
                  !.tasks = {[Task(1, "upload", Null, 20, 1) EXCEPT !.hint = 2],
                             [Task(2, "upload", Null, 20, 1) EXCEPT !.team = 2]},
                  !.rows = {[id |-> 1, table |-> "export_tasks", team |-> Null],
                            [id |-> 2, table |-> "operation_logs", team |-> 2]}]

MCReleases == {Fresh, BeforeUsers, BeforeTeams, TwoDefaults}
MCConfigUsers == {"admin", "ann"}
MCUserTemplates == {"jar"}
=============================================================================
