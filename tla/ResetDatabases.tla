---------------------------- MODULE ResetDatabases ----------------------------
(***************************************************************************)
(* tools/reset-databases: drop the databases of a project, create them     *)
(* again, run their scripts and seed them.  The tool is one process that   *)
(* ends after each run or dies in it; the databases stay.  While it        *)
(* creates databases it clears log.OnError, the variable of AuditErrorHook *)
(* that other goroutines of the process save, clear and restore as well.   *)
(*                                                                         *)
(* Logical databases are numbered in the order of Config.Databases.  Each  *)
(* lives in a database of the server, on Oracle in the schema of a user,   *)
(* which several of them may share.                                        *)
(***************************************************************************)
EXTENDS Naturals, Sequences, FiniteSets

CONSTANTS
  N,           \* len(Config.Databases)
  Goroutines,  \* others of the process, which may log errors
  MaxDepth,
  DoError, Nil

ASSUME ConstantsAssumption ==
  /\ N \in Nat \ {0} /\ MaxDepth \in Nat \ {0}
  /\ DoError # Nil

Databases == 1 .. N

VARIABLES
  config,              \* what the project configures, never changed
  env,                 \* the environment variables of the run
  deleteAndCreateDb, bypassConfirmation,
  pc,                  \* what the tool does next; "off": it does not run
  turn,                \* the database the loop of pc has come to
  provisioned,         \* Oracle: the users dropped and created so far
  exists,              \* exists[n]: the server has the database (the user) n
  tables,              \* tables[d]: what d holds
  seeded,              \* a seed has gone through since anything changed
  OnError, pcOfDoError, originalsOfDoError,   \* AuditErrorHook
  originalOnError,     \* the copy of executeReset
  healthy,             \* server, files and process fail no more
  answered,            \* history: both keys have been entered in this run
  overlapped           \* history: two held log.OnError at a time in this run

flags == <<env, deleteAndCreateDb, bypassConfirmation>>
loops == <<turn, provisioned>>
data == <<exists, tables, seeded>>
hook == <<OnError, pcOfDoError, originalsOfDoError>>
vars == <<config, flags, loops, pc, data, hook, originalOnError, healthy, answered, overlapped>>

Hook == INSTANCE AuditErrorHook WITH pc <- pcOfDoError, originalOnError <- originalsOfDoError

\* The name of each database, given by the first database that has it.
Names == {f \in [Databases -> Databases]: \A d \in Databases: f[d] <= d /\ f[f[d]] = f[d]}
Configs == [oracle: BOOLEAN, name: Names, samePassword: BOOLEAN]
Environments == [isDev: BOOLEAN, delete: BOOLEAN, bypass: BOOLEAN]
Contents == {"none", "old", "some", "created"}

TypeOK ==
  /\ config \in Configs /\ env \in Environments
  /\ deleteAndCreateDb \in BOOLEAN /\ bypassConfirmation \in BOOLEAN
  /\ pc \in {"off", "save", "clear", "confirm", "connect", "drop", "create", "scripts",
        "restore", "seed"}
  /\ turn \in Databases /\ provisioned \subseteq Databases
  /\ exists \in [Databases -> BOOLEAN] /\ tables \in [Databases -> Contents]
  /\ seeded \in BOOLEAN /\ healthy \in BOOLEAN
  /\ Hook!TypeOK /\ originalOnError \in {DoError, Nil}
  /\ answered \in BOOLEAN /\ overlapped \in BOOLEAN

NameOf(d) == config.name[d]

\* The server may have all the databases, filled, or none.
Init ==
  /\ config \in Configs
  /\ \E there \in BOOLEAN:
       /\ exists = [d \in Databases |-> there /\ NameOf(d) = d]
       /\ tables = [d \in Databases |-> IF there THEN "old" ELSE "none"]
  /\ seeded = FALSE
  /\ env = [isDev |-> FALSE, delete |-> FALSE, bypass |-> FALSE]
  /\ deleteAndCreateDb = FALSE /\ bypassConfirmation = FALSE
  /\ pc = "off" /\ turn = 1 /\ provisioned = {}
  /\ Hook!Init /\ originalOnError = Nil
  /\ healthy = FALSE /\ answered = FALSE /\ overlapped = FALSE

\* A run ends, well or not.  The deferred function restores log.OnError, with
\* which nothing happens any more: OnExecute is left out and the process exits.
Exit == pc' = "off"

Unless(bad, next) == IF bad THEN Exit ELSE pc' = next

----------------------------------------------------------------------------
\* Faulty variant: outside development the variables count as well.
FlagsOfEnvironment(e) ==
  /\ deleteAndCreateDb' = e.delete
  /\ bypassConfirmation' = e.bypass

Flags(e) ==
  /\ deleteAndCreateDb' = (e.isDev /\ e.delete)
  /\ bypassConfirmation' = (e.isDev /\ e.bypass)

\* Run and RunNoVault: a new process, and defineConfiguration, which fails before
\* anything is touched when the project's own functions do.
Run(e) ==
  /\ pc = "off"
  /\ env' = e
  /\ Flags(e)
  /\ \/ pc' = "save"
     \/ ~healthy /\ Exit
  /\ turn' = 1 /\ provisioned' = {}
  /\ OnError' = DoError
  /\ pcOfDoError' = [g \in Goroutines |-> "idle"]
  /\ originalsOfDoError' = [g \in Goroutines |-> << >>]
  /\ originalOnError' = Nil
  /\ answered' = FALSE /\ overlapped' = FALSE
  /\ UNCHANGED <<config, data, healthy>>

\* log.OnError is held by executeReset until it restores it, and by each DoError.
Resetting(label) == label \notin {"off", "save", "seed"}
Logging(labels) == {g \in Goroutines: labels[g] # "idle"}
NoteOverlap ==
  overlapped' = \/ overlapped
                \/ Cardinality(Logging(pcOfDoError')) > 1
                \/ Resetting(pc') /\ Logging(pcOfDoError') # {}

\* Faulty variant: the variable is cleared before it is saved.
SaveCleared ==
  /\ pc = "save" /\ pc' = "clear"
  /\ originalOnError' = Nil
  /\ UNCHANGED <<config, flags, loops, data, hook, healthy, answered>>
  /\ NoteOverlap

SaveOnError ==
  /\ pc = "save" /\ pc' = "clear"
  /\ originalOnError' = OnError
  /\ UNCHANGED <<config, flags, loops, data, hook, healthy, answered>>
  /\ NoteOverlap

ClearOnError ==
  /\ pc = "clear" /\ pc' = "confirm"
  /\ OnError' = Nil
  /\ UNCHANGED <<config, flags, loops, data, pcOfDoError, originalsOfDoError, originalOnError,
                 healthy, answered, overlapped>>

\* Another goroutine logs an error, or goes on in its DoError.
OtherGoroutine ==
  /\ pc # "off"
  /\ Hook!Next
  /\ UNCHANGED <<config, flags, loops, pc, data, originalOnError, healthy, answered>>
  /\ NoteOverlap

Quiet == UNCHANGED <<config, flags, hook, originalOnError, healthy, overlapped>>
Working == Quiet /\ UNCHANGED answered

\* PromptForConfirmation reads both keys before it compares any.
Accept(right1, right2) == right1 /\ right2

\* The check after it cannot fail: Flags has left no way to delete outside
\* development.
Confirm(right1, right2) ==
  /\ pc = "confirm"
  /\ answered' = (~bypassConfirmation /\ right1 /\ right2)
  /\ Unless(\/ ~bypassConfirmation /\ ~Accept(right1, right2)
            \/ deleteAndCreateDb /\ ~env.isDev,
            IF deleteAndCreateDb THEN "connect" ELSE "scripts")
  /\ UNCHANGED <<loops, data>> /\ Quiet

\* The administration database is configured and answers.
Connect ==
  /\ pc = "connect"
  /\ \/ pc' = "drop"
     \/ ~healthy /\ Exit
  /\ UNCHANGED <<loops, data>> /\ Working

\* The next database of a loop; after the last one, what follows the loop.
Advance(next) ==
  IF turn < N THEN turn' = turn + 1 /\ UNCHANGED pc ELSE turn' = 1 /\ pc' = next

Drop(n) ==
  /\ exists' = [exists EXCEPT ![n] = FALSE]
  /\ tables' = [d \in Databases |-> IF NameOf(d) = n THEN "none" ELSE tables[d]]
  /\ seeded' = FALSE

\* Faulty variant: an error of the drop ends the run; a database that is not there
\* is an error.
DropOrExit ==
  /\ pc = "drop" /\ ~config.oracle
  /\ IF exists[NameOf(turn)]
     THEN Drop(NameOf(turn)) /\ Advance("create")
     ELSE Exit /\ UNCHANGED <<turn, data>>
  /\ UNCHANGED provisioned /\ Working

\* Every engine but Oracle drops all databases first.  Errors are dropped.
DropDatabase ==
  /\ pc = "drop" /\ ~config.oracle
  /\ Advance("create")
  /\ \/ Drop(NameOf(turn))
     \/ ~healthy /\ UNCHANGED data
  /\ UNCHANGED provisioned /\ Working

\* ... and then creates them all; the first error ends the run.
CreateDatabase ==
  /\ pc = "create" /\ ~config.oracle
  /\ \/ /\ ~exists[NameOf(turn)]
        /\ exists' = [exists EXCEPT ![NameOf(turn)] = TRUE]
        /\ Advance("scripts")
     \/ /\ exists[NameOf(turn)] \/ ~healthy
        /\ Exit
        /\ UNCHANGED <<exists, turn>>
  /\ UNCHANGED <<tables, seeded, provisioned>> /\ Working

\* Oracle: a user that was provisioned for an earlier database is left as it is,
\* and must have the same password.
SharedUser ==
  /\ pc = "drop" /\ config.oracle /\ NameOf(turn) \in provisioned
  /\ IF config.samePassword THEN Advance("scripts") ELSE Exit /\ UNCHANGED turn
  /\ UNCHANGED <<data, provisioned>> /\ Working

\* Another one is dropped, whatever the error, ...
DropOracleUser ==
  /\ pc = "drop" /\ config.oracle /\ NameOf(turn) \notin provisioned
  /\ provisioned' = provisioned \cup {NameOf(turn)}
  /\ \/ Drop(NameOf(turn))
     \/ ~healthy /\ UNCHANGED data
  /\ pc' = "create"
  /\ UNCHANGED turn /\ Working

\* ... and created.
CreateOracleUser ==
  /\ pc = "create" /\ config.oracle
  /\ \/ /\ ~exists[NameOf(turn)]
        /\ exists' = [exists EXCEPT ![NameOf(turn)] = TRUE]
        /\ IF turn < N THEN turn' = turn + 1 /\ pc' = "drop" ELSE turn' = 1 /\ pc' = "scripts"
     \/ /\ exists[NameOf(turn)] \/ ~healthy
        /\ Exit
        /\ UNCHANGED <<exists, turn>>
  /\ UNCHANGED <<tables, seeded, provisioned>> /\ Working

\* CreateDDL, WriteFile, ExecuteCreateScriptsFromEmbedded for one database.  What
\* the project's scripts do to tables that are there is not known.
ExecuteScripts ==
  /\ pc = "scripts"
  /\ \/ /\ exists[NameOf(turn)]
        /\ tables' = [tables EXCEPT ![turn] = "created"]
        /\ Advance("restore")
     \/ /\ tables[turn] # "none" \/ ~exists[NameOf(turn)] \/ ~healthy
        /\ \/ UNCHANGED tables
           \/ exists[NameOf(turn)] /\ tables' = [tables EXCEPT ![turn] = "some"]
        /\ Exit
        /\ UNCHANGED turn
  /\ seeded' = FALSE
  /\ UNCHANGED <<exists, provisioned>> /\ Working

\* The deferred function of executeReset; then the application starts and calls
\* OnExecute.
RestoreOnError ==
  /\ pc = "restore" /\ pc' = "seed"
  /\ OnError' = originalOnError
  /\ UNCHANGED <<config, flags, loops, data, pcOfDoError, originalsOfDoError, originalOnError,
                 healthy, answered, overlapped>>

\* executeSeed calls the project's OnSeed.
Seed ==
  /\ pc = "seed" /\ Exit
  /\ \/ seeded' = TRUE
     \/ ~healthy /\ UNCHANGED seeded
  /\ UNCHANGED <<loops, exists, tables>> /\ Working

\* The process dies, or the operator stops it.
Crash ==
  /\ pc # "off" /\ ~healthy
  /\ Exit
  /\ UNCHANGED <<loops, data>> /\ Working

Recover ==
  /\ healthy' = TRUE
  /\ UNCHANGED <<config, flags, loops, pc, data, hook, originalOnError, answered, overlapped>>

Work ==
  \/ SaveOnError \/ ClearOnError \/ Connect
  \/ DropDatabase \/ CreateDatabase \/ SharedUser \/ DropOracleUser \/ CreateOracleUser
  \/ ExecuteScripts \/ RestoreOnError \/ Seed

Next ==
  \/ \E e \in Environments: Run(e)
  \/ \E right1, right2 \in BOOLEAN: Confirm(right1, right2)
  \/ Work \/ OtherGoroutine \/ Crash \/ Recover

\* The tool goes on while it runs; the faults end; and the operator runs it in
\* development, with the deletion and without questions, as often as it takes.
Unattended == [isDev |-> TRUE, delete |-> TRUE, bypass |-> TRUE]

Fairness ==
  /\ WF_vars(Work) /\ WF_vars(Confirm(TRUE, TRUE)) /\ WF_vars(Recover)
  /\ SF_vars(Run(Unattended))

Spec == Init /\ [][Next]_vars /\ Fairness

(***************************************************************************)
(* Properties.                                                             *)
(***************************************************************************)
\* "Two-key confirmation before destructive operations": no run changes a
\* database unless both keys were entered in it or it is a run in development that
\* asks for none; and outside development no database is ever dropped.
NothingLostWithoutConsent ==
  [][/\ data' # data => answered \/ (env.isDev /\ env.bypass)
     /\ \A n \in Databases: exists[n] /\ ~exists'[n] => env.isDev /\ env.delete]_vars

\* Errors are kept out of error_log while its table may not exist, and reach it
\* again when the seed runs, unless a DoError held log.OnError at the same time.
HookFollowsTheReset ==
  ~overlapped =>
    /\ pc \in {"connect", "drop", "create", "scripts", "restore"} => OnError = Nil
    /\ pc = "seed" /\ Logging(pcOfDoError) = {} => OnError = DoError

\* Two databases of one name only Oracle can share, and only with one password.
ConsistentConfig ==
  IF config.oracle THEN config.samePassword \/ \A d \in Databases: NameOf(d) = d
  ELSE \A d \in Databases: NameOf(d) = d

Complete == seeded /\ \A d \in Databases: tables[d] = "created"

\* Wherever earlier runs failed or died, running the tool again ends with all
\* databases created and seeded.
RerunsRecover == [](ConsistentConfig => <>Complete)
===============================================================================
