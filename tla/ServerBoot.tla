----------------------------- MODULE ServerBoot -----------------------------
(***************************************************************************)
(* schemaf/app.go and schemaf/auth_cmd.go: processes of an app that run    *)
(* initDB and then initAuth, the server to serve and `auth token` to mint  *)
(* a token.  initAuth reads the signing key from _schemaf_config and, when *)
(* there is none, generates one and upserts it; nothing holds other        *)
(* processes off between the read and the write.                           *)
(*                                                                         *)
(* The migrations are those of module Migrations, step by step; a process  *)
(* that starts again has lost its key.                                     *)
(***************************************************************************)
EXTENDS Migrations

CONSTANTS
  App,         \* the runners that go on to initAuth
  ConfigFile,  \* 0002_schemaf_config.sql, which creates _schemaf_config
  Secret,      \* values that rand.Read may return; bounds the keys generated
  NoSecret     \* no key

ASSUME ServerBootAssumption ==
  /\ App \subseteq Runner
  /\ ConfigFile \in File
  /\ NoSecret \notin Secret
  /\ \A r \in App : \E i \in DOMAIN Registered[r] : ConfigFile \in Registered[r][i].files

VARIABLES
  auth,    \* where each app process is in initAuth
  key,     \* api's signing key in each process
  stored,  \* the jwt_signing_key row of _schemaf_config
  tokens,  \* the keys that tokens have been signed with
  raced    \* history: two processes have found no key before either stored one

authVars == <<auth, key, stored, tokens, raced>>
bootVars == <<vars, authVars>>

BootInit ==
  /\ Init
  /\ auth = [r \in App |-> "none"]
  /\ key = [r \in App |-> NoSecret]
  /\ stored = NoSecret
  /\ tokens = {}
  /\ raced = FALSE

\* A new process of r: its memory is fresh, the database is not.  A server that
\* is ready may be stopped and started again at any time.
BootLaunch(r) ==
  /\ Start(r)
  /\ r \in App /\ pc[r] = "done" => auth[r] = "ready"
  /\ auth' = [q \in App |-> IF q = r THEN "none" ELSE auth[q]]
  /\ key' = [q \in App |-> IF q = r THEN NoSecret ELSE key[q]]
  /\ UNCHANGED <<stored, tokens, raced>>

\* A step of initDB's migrations, or a fault in them.
BootMigrate(r) ==
  /\ Step(r) \/ CommitUnanswered(r) \/ Interrupt(r)
  /\ UNCHANGED authVars

\* No key was found: one is generated next.
FindNone(r) ==
  /\ auth' = [auth EXCEPT ![r] = "absent"]
  /\ raced' = (raced \/ \E q \in App \ {r} : auth[q] = "absent")
  /\ UNCHANGED key

\* Faulty variant: the stored key is not looked at.
LoadKeyAlwaysAbsent(r) ==
  /\ pc[r] = "done" /\ auth[r] = "none"
  /\ applied[ConfigFile] > 0
  /\ FindNone(r)
  /\ UNCHANGED <<vars, stored, tokens>>

\* ConfigGet reads _schemaf_config: the key is found and installed, or absent.
LoadKey(r) ==
  /\ pc[r] = "done" /\ auth[r] = "none"
  /\ applied[ConfigFile] > 0
  /\ \/ stored = NoSecret /\ FindNone(r)
     \/ /\ stored # NoSecret
        /\ auth' = [auth EXCEPT ![r] = "ready"]
        /\ key' = [key EXCEPT ![r] = stored]
        /\ UNCHANGED raced
  /\ UNCHANGED <<vars, stored, tokens>>

\* What 32 random bytes can be: none of the keys that are or were in use.
Fresh == Secret \ (tokens \union {stored} \union {key[q] : q \in App})

\* Faulty variant: the generated key is installed but not stored.
StoreKeyNot(r) ==
  /\ pc[r] = "done" /\ auth[r] = "absent"
  /\ \E s \in Fresh : key' = [key EXCEPT ![r] = s]
  /\ auth' = [auth EXCEPT ![r] = "ready"]
  /\ UNCHANGED <<vars, stored, tokens, raced>>

\* A fresh key is generated, upserted by ConfigSet and installed.
StoreKey(r) ==
  /\ pc[r] = "done" /\ auth[r] = "absent"
  /\ \E s \in Fresh : stored' = s /\ key' = [key EXCEPT ![r] = s]
  /\ auth' = [auth EXCEPT ![r] = "ready"]
  /\ UNCHANGED <<vars, tokens, raced>>

\* The process dies between the migrations and having its key.
CrashInAuth(r) ==
  /\ pc[r] = "done" /\ auth[r] # "ready"
  /\ faults < MaxFaults
  /\ Fail(r)
  /\ faults' = faults + 1
  /\ auth' = [auth EXCEPT ![r] = "none"]
  /\ UNCHANGED <<database, key, stored, tokens, raced>>

\* ConfigSet has its effect but the process never learns, and exits.
StoreKeyUnanswered(r) ==
  /\ pc[r] = "done" /\ auth[r] = "absent"
  /\ faults < MaxFaults
  /\ stored' \in Fresh
  /\ Fail(r)
  /\ faults' = faults + 1
  /\ auth' = [auth EXCEPT ![r] = "none"]
  /\ UNCHANGED <<database, key, tokens, raced>>

\* IssueToken signs with the process's own key.
Mint(r) ==
  /\ pc[r] = "done" /\ auth[r] = "ready"
  /\ tokens' = tokens \union {key[r]}
  /\ UNCHANGED <<vars, auth, key, stored, raced>>

\* verifyToken: the signature is checked against the process's own key.
Accepts(r, t) == pc[r] = "done" /\ auth[r] = "ready" /\ key[r] = t

InitAuth(r) == LoadKey(r) \/ StoreKey(r)

BootNext ==
  \/ \E r \in Runner : BootLaunch(r) \/ BootMigrate(r)
  \/ \E r \in App : InitAuth(r) \/ CrashInAuth(r) \/ StoreKeyUnanswered(r) \/ Mint(r)

BootSpec == BootInit /\ [][BootNext]_bootVars

\* A process that is running keeps going, and one that exited with an error is
\* started again.
BootFairSpec ==
  /\ BootSpec
  /\ \A r \in Runner :
       /\ WF_bootVars(Step(r) /\ BootMigrate(r))
       /\ WF_bootVars(pc[r] \in {"down", "failed"} /\ BootLaunch(r))
  /\ \A r \in App : WF_bootVars(InitAuth(r))

-----------------------------------------------------------------------------
\* Unless two processes have raced for it, there is one key: every process that
\* is ready accepts every token any process has minted, in whatever order they
\* boot, crash and restart.
OneKeyAccepted ==
  ~raced =>
    \A r \in App : pc[r] = "done" /\ auth[r] = "ready" => \A t \in tokens : Accepts(r, t)

\* Once a key is stored and no process is between finding none and storing its
\* own, the key in the database is that one for ever.
SettledKeyStable ==
  \A s \in Secret :
    [](stored = s /\ (\A r \in App : auth[r] # "absent") => [](stored = s))

\* Every process that crashes and collides on the way gets its key in the end.
BootsComplete == \A r \in App : <>(auth[r] = "ready")
=============================================================================
