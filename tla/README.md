# A TLA+ model of schemaf

schemaf is a Go framework for small web applications: an app is one binary that
serves an HTTP API and a frontend, migrates and uses one Postgres database, backs
it up every day, and is developed and deployed with docker compose. This directory
holds TLA+ models of the framework's stateful parts, TLC configurations that check
them on small instances, and proofs, checked by TLAPS, that hold for every
instance.

Run `tlc -config X.cfg M` for a pair `(M, X)` of the table under
[Runs](#3-runs), and `tlapm M.tla` for the proofs, where `M` is one of the eight modules
`...Proof` under [Proofs](#4-proofs). `PROJECT.json`
maps every definition to the lines of code it stands for.

## 1. The system

| Component | Code | State it keeps | Operations | Talks to |
|---|---|---|---|---|
| Migration runner | `db/migrate.go` | `schemaf_migrations` and whatever the SQL creates, in Postgres; the registered sets, in the process | `RunMigrations`, `RunMigrationsOn`, `RunSet` | Postgres; other processes only through it |
| Database pool and reset | `db/db.go` | the pool, the DSN | `Init`, `DB`, `ResetSchema`, `HealthCheck` | Postgres |
| Server boot and signing key | `schemaf/app.go`, `schemaf/auth_cmd.go`, `db/config.go` | the key in `_schemaf_config` and in each process | `serve`, `initDB`, `initAuth`, `auth token` | migrations, pool, API |
| Backups | `db/backup.go`, `db/cmd_backup.go` | `lastBackupTime`, `lastBackupError` in memory and in `_schemaf_config`; the files of an SFTP directory, a local file | scheduler, `db backup`, `db restore` | pg_dump, psql, SFTP |
| Request pipeline | `api/*.go` | the routes; the signing key | routing, `requireAuth`, decoding, error mapping, `/health`, `/status` | pool |
| OpenAPI | `api/openapi.go`, `cli/cmd/codegen/endpoints.go` | none | Go types to schemas, twice: by reflection and from source text | |
| Compose resolution, ctl | `compose/resolve.go`, `cli/cmd/ctl` | docker's containers | `Resolve`, `ctl start`, `dev`, `stop`, `status` | docker compose |
| Development session | `schemaf/dev.go`, `cli/cmd/run/prerun.go`, `schemaf.sh` | containers, native processes, ports, the schema | `dev`, `run`, `test` | docker compose, pool, migrations |
| Code generation | `cli/cmd/codegen`, `cli/cmd/initialize` | generated files | `codegen all` and its generators, `init` | |
| CLI state and configuration | `cli/config.go`, `cli/types.go`, `files/files.go` | `state.toml`, once `state.json` | load, migrate, `Set`, `Save` | the file system |
| API client, event stream | `cli/apis.go`, `cli/http.go` | a connection | requests, `listenToEvents` | a server |
| AI client | `ai/**` | none but its key | `Complete`, prices, models | an HTTP API |
| Formatting, logging, constants | `cli/format.go`, `log/log.go`, `constants` | none | | |

**What is hard.** Postgres is the only thing that coordinates processes, and the code
reads, decides and writes in separate round trips (migrations, signing key). Nearly
every sequence of effects can be cut short: by a crash, a lost answer, an ignored
error (backups, reset, state file). Several processes share an outside resource
without a lock: the SFTP directory, the compose project, the ports, the state
file. Time matters for backups and token expiry. `PROJECT.json` lists each of these
hazards at its line, with the properties that would catch it going wrong, or, where
no property covers it, the reason.

**What makes each component correct.**

- *Migrations*: SQL and its record take effect together; nothing takes effect twice
  or out of order; a nil return means a complete schema; nobody hangs.
- *Boot and key*: the config table exists when it is read; all processes that are
  ready agree on the key; a settled key never changes.
- *Backups*: no day is skipped over restarts; the directory neither overflows nor
  loses what retention promises; what is restored is a whole dump.
- *Compose*: every file once, dependencies first, the entry last.
- *ctl*: a service runs once, in a container or natively; a command leaves up what it
  names, wired for what is absent.
- *Development session*: dev and production do not run at once; a session's services
  are there while it runs; what it starts ends with it.
- *State file*: a saved value is found again; the migration from JSON loses nothing, wherever it is
  cut off.
- *Event stream*: events are printed in order and not lost; the listener ends when it is told to.
- *Request pipeline*: only a valid, unexpired token passes; a value is decoded
  exactly or refused; an error has one status.
- *OpenAPI*: the two generators agree on the endpoints and the types they both accept.

## 2. The modules

### Migrations, MigrationLedger, MigrationsProof

`Migrations` models any number of processes (`Runner`) that run migration sets on
one database. A process is a server boot, `db migrate`, `auth token`, another
replica, an older or newer release, or another app that calls `RunSet`.

| Model | Code |
|---|---|
| `rows` | `schemaf_migrations`, as a set of (prefix, version) |
| `applied[f]` | how often the SQL of file `f` has been committed |
| `pc`, `left`, `todo`, `cur` | where a process is in `runMigrations`/`runSet`, the sets and files it has still to do, its open transaction |
| `CheckTable` | `bootstrap`'s `SELECT EXISTS` |
| `ReadApplied`, `RefuseSet` | `runSet` up to its loop: file names parsed, recorded versions read |
| `Begin`, `ExecSQL`, `InsertRow`, `Commit`, `RejectSQL`, `RejectRow` | `applyMigration`, one round trip each |
| `CommitUnanswered`, `Interrupt` | a lost answer, a crash or a lost connection at any point |
| `Start` | a call; after a failure, the container's restart |

SQL is abstracted to what the properties need: a file's SQL always fails
(`Broken`), succeeds once and fails from then on (`CREATE TABLE`, the default), or
would succeed again (`Rerunnable`: seed data). A transaction's effects stay out of
`rows` and `applied` until it commits, as others do not see them; they do see its
locks (`HeldByAnother`, `KeyHeldByAnother`), which is how Postgres treats two
transactions that create one object or insert one unique key. `Lowest` is the sort by
version, as a choice, because `sort.Slice` is not stable.

`MigrationLedger` is what the component promises: a ledger of keys that only grows,
each entry together with exactly one execution of its file, in version order in
the release it came from. `Migrations` implements it with `rows` and `applied` as
they are (`LedgerSpec`); processes, transactions and crashes become stutters.

### ServerBoot

`ServerBoot` EXTENDS `Migrations`: every `App` process goes on from `pc = "done"` to
`initAuth`. `auth`, `key` are the process's, `stored` is the row in
`_schemaf_config`, `tokens` the keys that tokens in circulation were signed with.
`LoadKey` is `ConfigGet`, `StoreKey` the generation and `ConfigSet`, one
transaction each, with a crash between (`CrashInAuth`) or a lost answer
(`StoreKeyUnanswered`). `raced` is history: whether two processes have found no key
before either stored one. `Secret` bounds how many different keys are generated.

### Backup

The scheduler goroutine of a server, `db backup` and `db restore`, on one SFTP
directory, and `--local` with one file. `now` is the clock; `remote` maps a file to its
owner, time and content, `later` maps it to the files that were written to after it. A backup is `Boot` or
`Fire` or `Command`, then `Create`, `Progress`, `Finish` or `DumpFails`, `SaveTime`,
`SaveError`, `List`, `Delete`..., `Cleaned`, one action per call that another process or a
crash can come between. `CatchUp` and `NextRun` are `shouldCatchUp` and `nextRunTime` over
ticks. `local` is what the file of `--local` holds (`BackupLocal`, `LocalDone`, or
`LocalFails` and `Discard`, which is `os.Remove`). A restore is `RestoreLatest`,
`FindLatest` or `RestoreNamed`, then `Open`, or `RestoreLocal`, and `Restore`: what it
reads is what the file has become by then (`ReadsAs`). `told` is history: what the last
restore that reported success has read.

What is abstracted: only dumping and restoring take time, so `Tick` waits for processes
that are between two other calls and for timers that are due. A modification time
matters by its order, which is the order of last writes (`later`: it orders the files in
a line, of which the `k` newest have fewer than `k` later ones, `Newest`; SFTP times have a
resolution of a second; ties, which the code leaves to `sort.Slice`, are decided by
the order). Two files get one name only when two processes of a project begin in
the same tick. A file holds a whole dump, one that pg_dump left unfinished inside
well-formed gzip, or gzip that is cut off, which is what a restore can tell apart.

### SchemaReset

`SchemaReset` EXTENDS `Migrations` with processes that are `dev --reset-db`
(`Resetter`): before `RunMigrations` they go through `ResetSchema`'s two statements,
`DropSchema` and `CreateSchema`, either of which may fail or be interrupted before or
after its effect. The other runners keep going meanwhile; `NotFound` is the error of
one whose table or schema has gone. `DROP SCHEMA CASCADE` waits for transactions that
have created or written something; that Postgres may also break such a wait as a
deadlock is covered by the interruptions. `overtaken` is history: the runs that a
reset has come upon. `Skips(r)` is that a step of `r` records a version of a set that `r`
registered while a lower one of the set is not recorded.

### Compose

`Resolve`'s recursion as a stack of frames (`stack`), so that cycles, shared
dependencies and unreadable files are ordinary steps (`Enter`, `Skip`, `Refuse`,
`Leave`), then `ShortNameMap` (`NameService`, `NameFile`), whose loop over a Go map
is a choice. What the files say is the variable `project`, chosen at the start:
`Project` is the set of everything they may say. "Depends on, directly or not" is
stated without recursion, by closed sets of files (`Reaches`).

### Ctl

`ctl start`, `dev`, `--native` and `stop`, typed in several terminals. `box` is the
environment that a service's container runs in (a set: `{}`, or that environment alone), `native` the services that run
outside of one; `pc` is where a command is in `runCompose`: `Type` (names parsed, services
included and excluded), `StopContainer` and `RunShell` for `--native`, else `Down`,
`NativeStop` for each included service, `ComposeUp`. What `Resolve` returns is a
constant; `AllServices` is the set of the orders it may return, because it ranges over
Go maps, and `Overrides` holds the last word on each variable in one of them (`LastWords`), which
`Overriding` puts before all else. `RunByHand` is the developer who
follows the instructions that were printed last (`told`); an earlier command's
instructions are not followed any more. `slipped` and `calm` are history. All files are of
one compose project.

### DevSession

`dev` and `run` sessions of one project, which share its containers, ports and native
processes with each other and with strangers. `up` (the configuration that each
container runs in), `holder` (who listens on a port) and `vite` are the machine's: strangers come to
listen and go at any time (`StrangerComes`, `StrangerGoes`). `bg`
is a session's `bgProcs`; `pc` is where a session is in `runDev`, from
`Begin` (the choice of services, `parseDevServices`) through `Probe` and `Down`
(`stopProdIfRunning`), the ports (`PortPassed`, `PortRefused`, `PortFreed`, `PortTaken`
for `checkPort`'s outcomes), `DevUp`, `StartVite`, `KeepVite`, `Settle` to `Serve`. `ProbeUnanswered` is the
error of `ps`, which counts as nothing running. Two exceptions are history: `raced` (sessions
started at the same time) and `blind` (something ran when a `ps` failed, and no later session has
put that right). Every step
that calls out may fail, a signal may come between any two (`Interrupt`, which runs
beside the main goroutine) and a kill as well. `RunUp` and `RunEnds` are `schemaf.sh run`. The
frontend's and backend's contents, prompts and the test session are left out;
`--reset-db` is `SchemaReset`.

### Request

One request per client, from `Arrive` to its answer, while `Tick` moves the clock
and `IssueToken` makes tokens. The steps are those of the handler that `NewRoute` or
`NewRawRoute` builds: `Authenticate` (`requireAuth`), `DecodePath`, `DecodeQuery`,
`DecodeBody`, `Handle` and `Encode`, or `HandleRaw`. A text is abstracted to what
it parses as: a word, a truth value or a number; fields have one of the kinds that
`setFieldValue` tells apart, and integers keep their width (`Half`, half as many as there are integers of it;
three and six bits in the instance for any two widths). What the handler does is its own; it may
return a response, or an error that wraps any of the five sentinels. `Routes` adds what
`NewMux` registers of its own: the health page (`HealthCheck`, `Ask` for each check in any order,
`Tell`), the status page and the document (`Describe`), `UserMe`, and the frontend for whatever
else is asked for. `keyed` says whether the app has a database, for `serve` calls `initAuth` only then.

### Codegen

Runs of `codegen all`, one after the other, over a project whose sources and frontend
are edited at any time. Each generator is a record of what it reads and what it
writes, in order; `Steps` is `newAllCmd`. `Read` takes a snapshot of the sources,
`Write` writes one file, `GoGet` is `runAPIGo`'s `go get`, which may raise the version of Go in the
`go.mod` that `runComposeGen` has read, `Skip`, `Fail` and `Cut` are a generator that has nothing to
do, that fails, and an interruption between or within two writes, which leaves a file
`"torn"`. `from` records of each file the state of the sources that it was made from.
Two runs at once are not modelled.

### OpenAPI

The two OpenAPI documents: what `codegen` writes from the source text, and what the
server gives by reflection. What a project declares is the variable `project`, chosen
at the start: structs and the types with endpoint methods. `Scan` is `scanAPIDir`, which
refuses an ambiguous type and passes over what it does not understand (`endpoints`); `Visit`
and `Pass` are an iteration of `buildSchemas`'s work list, which is a set here because the
result does not depend on its order; `Emit` writes schemas and operations.
`RuntimePaths` is `BuildOpenAPI`, and `NewMuxPanics` says whether the server with these
routes starts at all (`ServeMux` is external). `RuntimeShape` is `typeToSchema`,
`CodegenShape` the written document with its references replaced, both as recursive
functions cut off at `Depth`, which map a depth to what is said of each type to that depth; `DocumentsAgree` compares whole operations, and schemas
of which the generators describe every field in one way (`Tame`). It says nothing of a server that
cannot describe itself: `typeToSchema` has no cut, and `BuildOpenAPI` never returns once a request or a
response contains itself (`ServerAnswers`); nor of an endpoint whose method or path is a literal in back quotes
(`quoted`), which `codegen` keeps. `leads` is a field that is the first name of its declaration, the only one
that `extractStructInfo` looks at, and `"[n]"` an array, which `exprTypeName` spells like a slice.

### StateStore, StateFile, EventStream, Cli

`StateStore` is what the CLI's state promises to the commands: one durable store, of which a
command that saves changes the settings it set and no other. `StateFile` is how
`cli/config.go` keeps it: `Start` and `Migrate` (`state.json` to `state.toml`), `Stat`,
`Read` or the creation of a file, `Set`, `Save`. An `Open` truncates and a `Write`
writes from offset 0, as viper does, so two writes that overlap leave one, lines of both, or what
does not parse (`Garbled`), which a file may also be at first. A command may be killed anywhere, or its save fails
(`Interrupt`), and the removal of the old file may fail. Where any other call of `loadState` fails (`LoadFails`:
a read, the directory, the opening or the writing of a file, all of it or a part) the command goes on without a
state, since `New` ignores the error: it is then `"failed"`, as it is `"lost"` if it found a file that it could not parse or
that was gone (`Stateless`). `Store` is the refinement mapping: the store is `state.json` as long
as it is there, and a save counts from its truncation on, when the settings are those of the
command that is `Saving` (`Stored`, `Phase`). `broken` maps
to a store that is not `sound`: a command saved over another's change, was cut off within
its save, or saved although `state.json` was still there. `StoreSpec` promises nothing
while the store is not sound, and everything again when a command starts alone (`Mend`).
`mem` of a `Stateless` command is none at all.

`EventStream` is `listenToEvents`: `main` is the command's goroutine with its two selects, `reader`
the one that reads and prints, `wire` the frames that have been sent and not read. The
service is free: it sends, closes, breaks off or does nothing. `Cli` puts terminals together:
every command loads the state, one may go on to listen (`Listen`, `ListenEnds`), and Ctrl-C
kills all of them but the listener that has asked for the signal.

### How the modules relate

`Migrations` is the base. `ServerBoot` and `SchemaReset` extend it and use its
actions step by step, so every interleaving of migrations with the signing key, and
with resets, is explored. `MigrationLedger` is its abstract specification.
`StateStore` is `StateFile`'s, and `Cli` composes `StateFile` with `EventStream`.
The others stand for themselves: what they share in the code with other parts is one
table (`Backup`), the commands that others call (`DevSession` runs what `Codegen`
wrote, `Ctl` what `Compose` resolved) or the routes' types (`Request`, `OpenAPI`).
The `MC` modules give the constants of the instances.

## 3. Runs

Passing runs:

| Run | Module, cfg | Shows |
|---|---|---|
| server_boot | MCServerBoot, ServerBoot | A server and a second process of its project, with the same files registered in different orders, and a `RunSet` of which a file fails share a fresh database, with one fault anywhere. Migrations: the schema is never half-recorded, a nil return means that it is complete, framework files come first, the ledger is implemented, no run hangs. Key: a settled key is never replaced, everyone gets a key in the end, which it can only if the config table is there, and tokens are accepted by all unless two processes raced |
| backup_daily | MCBackup, Backup_daily | A server and one `db` command, a backup or a restore, local or not, over two days, with two crashes or failures: a server that waits and knows of no failure makes its next backup within a day and the hour of the last one on its record, little is left of what failed, in the directory and at the local path, and, without overlap, the newest whole backup is never deleted |
| schema_reset | MCSchemaReset, SchemaReset | Two resets and an `auth token`, with one fault, a version that two files share and a set with an unparsable name: records and tables go and come back together; a run that no reset came upon ends well only when each of its files, or another of the same version, has taken effect; only a run that a reset came upon goes out of order; one file per version takes effect; the malformed set does not touch the database |
| compose | MCCompose, Compose | All dependency graphs of three files: once each, dependencies first except in cycles, exactly what is reachable, entry last; own short names win; the walk ends |
| ctl | MCCtl, Ctl | Two terminals, nine commands on two compositions that share the database, one failure: a service is not in a container and native at once unless its handover went wrong, and a command that succeeds undisturbed leaves what it named, wired for what is absent |
| dev_session | MCDevSession, DevSession | Two `dev` sessions and a `run`, next to strangers that come and go on the ports: production and development containers run together only if sessions started at the same time or a `ps` failed, an undisturbed session gets what it asked for whatever earlier ones left, no Vite process outlives a session that could clean up |
| request | MCRequest, Request | Every request to six endpoints, the framework's pages and the frontend while tokens expire: nothing passes `requireAuth` without a valid token, a typed handler is given what was sent, by the body if it holds the field and else by the URL, or zero, each request has one status and one document, which agree, an error has the status of a sentinel that it wraps, and the health page that of what it found |
| codegen | MCCodegen, Codegen | Runs over a project with two edits and one interruption: a run that succeeds leaves every generated file whole and made from the sources as they are unless they changed meanwhile, server, document and clients agree, and the developer's files are kept |
| openapi | MCOpenAPI, OpenAPI | Two structs with links to themselves and each other, and every two endpoints that share a place, overlap or are incomplete: the work list ends, references resolve, nothing superfluous is written, and, if the server starts and can describe itself, each endpoint that was understood, and has its method and path in double quotes, is the same operation in both documents, with the same tame schemas |
| cli | MCCli, Cli | Two terminals on a state file that is absent, old, old and new, or does not parse, one of them also listening, with one kill or failed call: what was saved is found again unless commands collide or a save is cut off (the store is implemented), a command goes on without a state only if another one changed the files while it loaded, a call of its own failed or a file does not parse, events are printed in order and, after an orderly close, all of them, every event arrives, and Ctrl-C ends the listener |

Runs in which TLC finds a violation of what the code or its documentation says:

| Run | Property | What happens |
|---|---|---|
| migrations_duplicate | DoneMeansApplied | Two files of one set with the same number (two merged branches): the first boot fails at the second file, the next one finds the version recorded, skips both and reports success; one file has never run |
| backup_latest | RestoredIsWhole | A dump that pg_dump left unfinished is the newest file; `restore --latest` reads it, and reports success |

The passing properties are stated so that they hold next to what the code does: by
history variables (`raced`, `blind`, `overlap`, `overtaken`, `slipped`, `touched`) or by named
exceptions that say when a situation has occurred, never by leaving it out of
the model.

Further disagreements were met in the models and have no run of their own:

- Two processes that boot at once on a database without a key each generate one, and
  a token of `auth token` is refused by the server until a restart (`raced`;
  `auth_cmd.go:36`, `EXTEND.md:283`).
- Two apps that start at once on a fresh database may both find no tracking table, and
  the slower fails its first boot (`EXTEND.md:384` has it skip; the restart does).
- `ResetSchema` that dies between DROP and CREATE cannot be repeated, because DROP
  SCHEMA has no IF EXISTS. A process in the middle of its migrations goes on in a
  schema that was reset, out of order (`InOrderUnlessOvertaken`).
- A server that dies between the two statements of `recordBackup` takes a failed
  backup for a success when it starts again, and does not catch up.
- Retention counts the file of an interrupted upload like a backup (`EXTEND.md:624`), and
  projects that share an SFTP account and the default path delete each other's backups.
- "Dev and prod can't coexist" (`dev.go:102`), but `stopProdIfRunning` and `stopDevIfRunning` take an
  error of `ps` for nothing running (`dev.go:232`, `prerun.go:34`), and then a session of one kind starts next to
  the containers of the other, with no other session about (`blind`); so do sessions that
  start at the same time (`raced`).
- The frontend's port is "exclusively owned by schemaf" (`dev.go:129`), but if a stranger takes it
  between the check and the start of Vite, the session runs with its frontend on another port.
- `stopProdIfRunning` stops another `dev` session's containers as well (`dev.go:229` speaks
  of production); a Vite that crashes in its first second goes unnoticed, for
  `cmd.ProcessState` is set by `Wait` only (`dev.go:211`); and an existing
  `compose.gen.yml` alone counts as codegen having been run (`dev.go:94`). `codegen all` runs `go get`
  (`apigo.go:39`) after it has made the Dockerfile from `go.mod`'s version of Go (`compose.go:85`): if that is raised, the
  Dockerfile has the old one until the next run, and `Fresh` excepts it.
- `--native` stops no container of a service without `container_name`, because
  `docker stop` is given the service's name and compose calls the container otherwise
  (`start.go:71`, `ctl.go:157`). It has stopped the container when it finds that there are no
  dev-instructions, runs the first of several services only, and makes `dev` ignore its
  names. A misspelt name makes `dev` scale everything to 0 and report success.
- A body overwrites a field that is tagged `path` (`endpoint.go:70`), which `EXTEND.md:255` has
  "from URL path": `GetsWhatWasSent` has the body's value there. A query's integer that is wider
  than its field leaves its low bits there (`decode.go:63`; `Truncated`). An error is appended to what a raw handler has written,
  although `endpoint.go:97` speaks of no response written yet.
- `writeJSONError` quotes with `%q` (`endpoint.go:136`), whose escapes are not all JSON's. The status page
  is empty, with a 200, if a provider's value cannot be encoded (`status.go:57`), and a health
  check that is called `db` replaces the entry of the database (`health.go:49`).
- Generated files stay when all their sources are removed (`EXTEND.md:572`), and a scaffold
  that was interrupted blocks every later run or is accepted as it is.
- `db backup --local` over an older file truncates it at once and removes it when pg_dump fails
  (`cmd_backup.go:99`). A restore over a database that has its tables already fails statement
  by statement and reports success, for psql is run without `ON_ERROR_STOP` (`backup.go:204`).
- `schemaf.sh:77` tears the test environment down "regardless of result", but under `set -e`
  the script has already ended when a test has failed.
- Commands ignore `loadState`'s error (`framework.go:49`), although `EXTEND.md:514` promises them access
  to the state: one whose load fails goes on, and dereferences nil where it uses its state. A `state.toml` or
  `state.json` that does not parse is never repaired. Commands
  that overlap undo each other's settings (`types.go:83`).
- `EventsPath` is never used, `listen` keeps only the port of `--api`, and `api list` ignores
  `URLDefault`, which `listen` uses (`apis.go:347`).
- Two endpoints of one method and path: codegen's document keeps the later one and says nothing,
  the server panics as it starts. `scanAPIDir` also passes over an endpoint whose `Method`,
  `Path` or `Auth` is no literal, or whose types it cannot spell, without a word, and it reads `_test.go`
  files. The ids of `/a/{id}` and `/a/id` are the same.
- The runtime document gives GET and DELETE a request body and lists no path parameters; codegen's does
  the opposite of both.
- `Complete` switches caching off in the caller's own `CacheConfig` (`client.go:94`), for all its later
  requests, and `containsString` looks only at the ends of a model's name, so that `claude-opus-4-6` has
  the price of Haiku (`costs.go:91`).
- The two OpenAPI documents differ on untagged names of several words, `time.Time`,
  `[]byte`, named types that are no structs, types of other packages and embedded fields. Of `X, Y int`
  codegen knows only `X` (`endpoints.go:322`), of `[3]int` it makes a list (`endpoints.go:312`) and the server an
  object (`openapi.go:189`), a json tag in double quotes it does not find (`endpoints.go:329`), and of a path
  or method in back quotes it keeps them (`endpoints.go:257`). The server's generator does not end for a type that
  contains itself (`openapi.go:155`).

### Bounds

- *Migrations*: two framework files, two or three of a project, one or two of another
  app. Versions interact in pairs (an earlier and a later, or two with one number) and
  runners through one lock or one stale read at a time, so three runners and two
  versions a set show every pairwise order plus a bystander. `MaxFaults = 1` is one
  fault at any point of any runner; restarts are unbounded. The proofs below have
  no bounds.
- *ServerBoot*: two values in `Secret`, one for each of the two processes that can
  generate a key; a key that is out of use everywhere is drawn again, and if there were
  too few, a process would stop for want of one and `BootsComplete` would fail.
- *Backup*: `Day = 3`, `Hour = 1` has a tick before, at and after the scheduled hour;
  six ticks are two scheduled backups, one missed and caught up, or both. One
  `db` command may fall anywhere: it can meet a backup of the server, a file that one has left or
  retention that deletes what it reads. `Retain = 1` makes every backup expire another,
  and two faults allow for a failure whose clean-up fails as well. Two commands on one local file do
  not meet in this instance. The clock's bound ends
  every behaviour, hence no deadlock check.
- *SchemaReset*: two resets are the least that can interleave their statements, with
  one process to come upon.
- *DevSession*: two `dev` sessions and one `run` are the least in which a session is
  disturbed by another of its kind and by production; the two are interchangeable, and
  TLC's symmetry reduction uses it (all properties are invariants). Four choices of services hold
  each service alone or with what it depends on.
- *Request*: one client, as requests share nothing but the clock and the tokens;
  three seconds are before, at and after an expiry; numbers that fit both widths, only the
  wide, and neither; two health checks, one of which is named like the page's own entry.
- *Codegen*: two edits are one before and one during a run, or two during it; one
  interruption leaves one torn file. The developer edits one source of each kind (`Changing`): `go.mod`, which two
  generators read, the queries, without which one is skipped, and the API; with one that cannot be read. The proofs are for all
  sources. Runs are unbounded.
- *OpenAPI*: two structs, each with a link and a leaf, hold every cycle and every path of
  one step, with every wrap, array included; depth 3 unfolds a cycle of two and one step more (the server's
  document is compared where there is none). Routes conflict and
  displace each other in pairs, so two endpoints are enough; the five paths have every relation
  (equal, one more specific, overlapping, apart, the framework's own).
- *Cli*: two terminals are the least that can collide, two settings the least of which one
  can be lost while the other is saved, each on or unset, so that one that is lost shows; one fault is a kill, a call of
  `loadState` or a save that fails, or an old file that cannot be removed. Two events are one that has been read and one on its way. Commands are unbounded.
- *Ctl*: two terminals are the least that can overlap; the commands exclude each of the three
  services, two of them together, and name one by its short name and one that does not
  exist. The three differ in what they declare: only two have a `native-stop`, two
  instructions, two a `container_name`.
- *Compose*: three files hold every shape of two dependencies: chain, fork, diamond
  without its top, loops of one, two and three. The command ends, hence no deadlock
  check.

### Fairness

`BootFairSpec` assumes weak fairness of each process's
steps, because a Go process and Postgres keep running while they can, and of the start
of a process that is down or failed: the generated compose file says
`restart: unless-stopped`, and a developer repeats a command that failed. Starting a
process that is done is never forced, nor is a fault. Waiting for a lock is not a
step, so `RunsEnd` also says that nobody waits for ever. `Compose` and `OpenAPI` assume that
the command runs to its end. `CliSpec` assumes weak fairness of the listener's two goroutines and of
its timers (`Dialling`: the handshake's timeout, `Reading`, `Waiting`: the second it waits for a
close), which Go's scheduler gives; that a user or a service does anything is not assumed. The
others have no fairness: their properties are about what must not happen, and an
upload, a prompt or a handler may take for ever.

## 4. Proofs

A `...Proof` module extends what it is about: `MigrationsProof` the migrations and the two
modules that extend them, `CodegenProof` `Codegen` and `OpenAPI`, the document that one of its generators
writes (whose specification is `DocSpec`), each other one its namesake. Its theorems hold for every set of
processes, files, settings or messages, any times, widths and numbers of faults, from the named
assumption of that module alone (`MigrationsAssumption`, `BackupAssumption`, ...), which gives the
constants their types and says what the code does of them (TLC evaluates each on every run).
The one further hypothesis is `UniqueVersions` (no release holds two files with one version)
in DoneIsComplete and BootDoneIsComplete: the run migrations_duplicate shows that it is needed.
Each invariant below was checked by TLC on its instance before it was proved.

| Module | Theorem | States |
|---|---|---|
| MigrationsProof | TypeCorrect, Invariance | `TypeOK`; the inductive invariant `IInv` |
| | Atomicity | `RecordedIffApplied` |
| | NeverTwice | `AppliedOnce` |
| | VersionsExclusive | `OneFilePerVersion` |
| | MalformedRefused | `RefusedWhole` |
| | FrameworkComesFirst | `FrameworkFirst` |
| | DoneIsComplete | `DoneMeansApplied` |
| | Implementation | `LedgerSpec`: the runners implement the ledger |
| | BootInvariance | `IInv` of processes that go on to `initAuth` |
| | BootAtomicity, BootFrameworkFirst, BootDoneIsComplete, BootImplementation | `RecordedIffApplied`, `FrameworkFirst`, `DoneMeansApplied`, `LedgerSpec`, of the whole boot |
| | KeyInvariance | `KeyInv` |
| | OneKey | `OneKeyAccepted` |
| | StoredKeyStable | `SettledKeyStable` |
| | ResetInvariance | `ResetIInv` |
| | RecordsGoWithTables | `ResetKeepsRecords` |
| | ResetVersionsExclusive, ResetMalformedRefused | `OneFilePerVersion`, `RefusedWhole`, with resets about |
| | DoneIsCompleteUnlessOvertaken | `DoneUnlessOvertaken` |
| | InOrderOrOvertaken | `InOrderUnlessOvertaken` |
| BackupProof | BackupInvariance | `BackupInv` |
| | BackupsAreNeverFarApart | `GapBounded` |
| | FailuresLeaveLittle | `LittleIsLeft` |
| | NewestWholeIsKept | `NewestWholeStays` |
| ComposeProof | WalkInvariance, ComposeInvariance | `WalkInv`; `NameInv` with it |
| | DependenciesComeFirst | `DependenciesFirst` |
| | ListsWhatIsReached | `ExactlyReached` |
| | OwnersKeepTheirNames | `OwnNameWins` |
| RequestProof | RequestInvariance | `IInv` |
| | AuthFirst | `AuthComesFirst` |
| | HandlersGetWhatWasSent | `GetsWhatWasSent` |
| | AnsweredOnce | `OneAnswer` |
| CodegenProof | RunInvariance | `RunInv` |
| | FreshAfterSuccess | `Fresh` |
| | OneAPI | `ClientsAgree` |
| | FrontendIsTheDevelopers | `OwnFilesKept` |
| | SearchInvariance | `IInv`, of the work list |
| | ReferencesResolve | `Resolves` |
| | DocumentsAreOne | `DocumentsAgree` |
| DevSessionProof | DevInvariance | `IInv` |
| | NoMixture | `NeverMixed` |
| | RunsWithWhatItAskedFor | `GetsWhatItAskedFor` |
| | NoOrphan | `NothingLeftBehind` |
| CtlProof | HandoverInvariance, OutcomeInvariance | `IInv`; `CalmInv` and `OutcomeInv` |
| | InOnePlace | `NotTwice` |
| | LeavesWhatItNamed | `GetsWhatItNamed` |
| | WiredForWhatIsAbsent | `WiredForTheAbsent` |
| CliProof | ListenerMissesNothing | `NothingMissed` |
| | StateInvariance | `StateInv` |
| | StateIfAlone | `StateUnlessDisturbed` |
| | StateImplementation | `StoreSpec`: the state file implements the store |

### The arguments

*Migrations.* `IInv` is `TypeOK /\ DatabaseInv /\ KeyExclusive /\ \A r : RunnerInv(r)`.
`DatabaseInv` is what is claimed of the database alone. It is not inductive: a commit
adds a key and an execution, and nothing in it says that the key was free.
`KeyExclusive` does: a runner that has inserted its key is the only one to hold it
and the key is not recorded, since the `UNIQUE` constraint and its locks are all that stands
between two stale reads. `RunnerInv` relates a runner's memory to the table:

- `Focused`: it works on bootstrap's file alone or on one registered set, which is
  well-formed and of which every file is recorded or still pending;
- `LowestFirst`: its open file is a lowest one of what is pending;
- `Settled`: nothing is pending outside the loop, and no set is left at the end;
- `Covered`: the sets it has been through are recorded, but for what is pending;
- `InOrder`: sets come up in `orderMigrationSets`' order.

Rows are never deleted, so a step of one runner keeps the others' `RunnerInv` (`OtherRunner`);
the rest is one lemma per action of the runner itself (`StepIsLocal` and
`StartRunner` to `CommitRunner`).

*Server boot.* The steps of `initAuth` leave `database` and the runner's memory alone, so
`IInv` and the ledger carry over. `KeyInv` holds the key's own argument: a process has auth state only
when its migrations are done (`AuthAfterMigrations`); as long as no two have raced, one that
is about to generate a key is the only one and nothing is stored (`OneGenerates`), and whoever has a
key has the stored one, with which all tokens were signed (`StoredKeyUsed`).

*Resets.* A reset deletes rows, so `OtherRunner` fails for the runs that are about. `ResetIInv`
gives them up: a run in `overtaken` keeps only `StaleInv` (what it goes on with came from a
well-formed set, and nothing is pending outside its loop), which suffices for what is claimed of
the database, because `KeyExclusive` and the tracking table do not care how a runner came
to its files. `SchemaInv`: without a schema nothing is recorded, and no transaction has locks in it
(the DROP waited for them). Proving `InOrderUnlessOvertaken` showed that it had been stated too
widely, of every set in the release: a process that registers only some of them need not
record the others' versions, so it is now of the sets that the runner has registered.

*Backups.* `BackupInv` has one part for each theorem.

- `GapInv`: from the end of an attempt until the wait the server's memory is of now, and the
  wait is within a day of it; after a restart it is within a day and the hour, because
  `shouldCatchUp` was false (`NoCatchUp`). It needs the clock to stand still between two calls.
- `AloneInv`: while no two processes have been making a backup at once, whoever makes one has its file open and nobody
  else's deletions to fear, and once it is closed the newest file is whole and not on
  the list of what is to be deleted; with `LaterInv` (the last writes are in a line) every file that is
  deleted has been written before it. That a failed attempt does not get to the deletions is what
  keeps it so.
- `CountInv`: the number of files alone is not inductive: a process that cleans up works
  from a list, and others add files, and finish, meanwhile. The invariant is about every set `S` of
  processes that are cleaning up: once all of them have deleted what is on their lists, what is left is at most
  `Retain`, one file for each *other* process in the making, and one for each failure. A listing
  establishes it for the sets with itself (`NewestAreFew`: at most `k` files have fewer than
  `k` later ones); when one is through, `S` gains a process whose list is empty (`CountCleaned`);
  each failure pays for the file it leaves (`Balance`).
- `LocalInv`: a short local file means a process that will remove it, or two failures.

*Compose.* `WalkInv`: the open calls are a path from the entry, of different files (`StackInv`);
what is listed is complete but for what is open (`ListInv`); what was seen is listed or
open (`SeenInv`). So a dependency that is seen and not listed is open, which is a cycle; and at
the end, with nothing open, what is listed is closed, and holds what the entry reaches. `Reaches` is defined
by closed sets, so that no induction over paths is needed. `NameInv`: every short name that a
service passed so far calls itself is that of one of the services that do.

*Requests.* `IInv` says, for each place of the handler, what has happened to the
request by then: how it was let in or turned away (`Authenticated`), what each decoder leaves to the
next (`Decoded`), what the health page has found (`Reported`), and that nothing is answered
before the end (`Unanswered`, `Answered`). A token that was valid on arrival may expire before `requireAuth` looks,
and not the other way round, which is why `since` is part of it. Requests share tokens, which only
grow, and the clock.

*Code generation.* That a run has succeeded says nothing of how its files came about: a generator may have been
cut off in an earlier run, and its sources edited in this one. `RunInv` follows the generators' turns. One
has had its turn (`Passed`) in this run, or in the last one if that succeeded; from then on its files are whole and made from
what its sources are, unless those were edited or there is nothing to do (`MadeInv`), because an edit is noted in
`touched` and no generator writes another one's files (`OneWriter`). During its turn that holds
of the files it has written so far, with the snapshot it took (`TurnInv`). `AgreeInv` does not except edits: the
clients are made from the document, not from the sources, so they agree with the handlers even
if the API was edited meanwhile. `ScaffoldInv`: `runScaffoldFrontend` begins only while there is no `frontend/`,
so what it has still to write was never written.

*OpenAPI.* The work list's invariant (`Searching`): what has been met or is on the list
holds the roots, is closed but for what is on the list, and leads to nothing superfluous. When it is empty,
what has been met is exactly what the roots lead to. For the operations: had one displaced another
at its place, the mux would have panicked. For the schemas both shapes are recursive in the depth, and types
may contain themselves. `ServedShapes` and `WrittenShapes` say that the two functions are what their definitions
say (that such a function exists is shown of the least depth at which it would not). `SameFields` is
the step: a struct all of whose fields are tame has one schema in both documents to a depth if what it leads to has,
one level less deep; it uses that what the document refers to has been met and is
tame as well (`TameOnwards`). So there is no least depth at which they differ (`SameAtEveryDepth`).

*Development sessions.* `IInv` has three kinds of parts. `MixInv`: between its probe and its `up` a session that
nobody raced, and that has had an answer or needed none, has nothing running, so what `up` starts is of one configuration. `KeptInv`: a Vite process is in `bgProcs` as long as its
session may still be interrupted, but for the instant before it is appended, and those that
this instant or a kill have cut off are in `slipped`. `AloneInv`, of each session that has met no other: the frontend's port is still to be
checked, or all its ports are and nobody listens there (`PortInv`; a stranger that comes after the check has met it), the infrastructure is up after `up` (`InfraInv`), its servers have its ports
(`OwnPortInv`); for which one must know who may listen where (`ListenInv`), strangers included.

*Service control.* `HandoverInv` of each service whose handover has not gone wrong: it is in one place; two commands that are at work
on it have been noted; `--native` has removed its container before the shell command runs
(`Freed`); the loop over the included services has ended its process before `up` (`Ended`); and nobody is told
to run by hand what has, or is about to get, a container (`Told`). `OutcomeInv` is what an
undisturbed command leaves: each service of its composition has no container, or one with one environment for all
(`Outcome`). What that environment says of a variable is `EnvironmentOf`, before the overrides, and
`LastWordOfOne`: whatever order the maps are ranged over in, the value is one that an absent service gives, or no override at all.

*State file, events.* `StateInv` says of each stage of a command what it has in memory and in the
files as long as no other one has touched them (`Undisturbed`). Overlaps come in by `Crossed`: while one fills a file it has
truncated, all others at work are stale; and `SavesAlone`: unless `broken`, one at a time saves,
and not while `state.json` is there, and no command that fills a file is stale. A failing step leaves at most a part
of what the file is being filled with, and its command out of the invariant (`FailingStep`). For the refinement each action maps to a step of
`StateStore` or a stutter: the store changes with the truncation of a save or when the old
file is removed, and a write of the same settings is a stutter. `StreamInv` accounts for every
event: printed, in the reader's hand or on the wire, in order, unless the stream broke off.

### Only model-checked

- Liveness, and what speaks of ENABLED: `RunsEnd`, `BootsComplete`, `Ends` (twice),
  `InterruptEnds`, `EventsArrive`. All other properties of passing runs are proved.
- That the two runs with a violation fail: their counterexamples are TLC's.

### What the proofs have changed

Attempts that failed showed where a module was not yet fit to be reasoned about, or not right:

- `InOrderUnlessOvertaken` was stated of sets that the runner had never registered.
- `GetsWhatItNamed` took a name in either of two ways when a short name is also a service's; the code resolves
  short names first, and so does the property now.
- `Ctl`'s environments were merged by `@@`, of which nothing says that what comes out is an environment
  again; `Overriding` is a function on `Var`. `ComposeUp` chose between overlapping cases.
- `OpenAPIAssumption` did not say that a type of `Handle` that can be spelled is one of
  `Type`; without it `DocumentsAgree` speaks of schemas of nothing.

## 5. Not modelled

- SQL itself, what pg_dump, gzip, psql and SFTP do beyond success, failure and
  being cut off, and what a restore does to the tables that are there.
- Nothing bounds the time of an upload: an SFTP server that stops answering holds up the
  scheduler for ever. `Backup` allows it, and claims nothing of such a run.
- The advisory parts of the CLI: printing, prompting, formats, cobra's wiring; `api list`,
  `status` and `health`, one request each.
- Templates in `cli/cmd/codegen`, doc comments and Go's parser: text in, text out. The commands for single
  generators, two runs of codegen at once, and `init`, which writes a new directory once.
- Which route `ServeMux` takes, but for the conflicts at which it panics; what Vite answers.
- The test session of `schemaf.sh`, a script of five steps, and its upgrade.
- `AddService`'s goroutines: the framework starts them and never looks again.
- The AI client: its conversions are field by field, its requests independent but for the pointer
  named above.
- Concurrent reads of `lastBackupTime` by `/status`, a data race on a display value.

## 6. Plan

All safety properties and refinements that the runs check are proved. What is left:

1. The prices and the shared cache settings of the AI client; `init` in `Codegen`.
2. Two runs of `codegen` at once, and two compose projects in `Ctl`.
3. The commands of `api`, which make one request each.
