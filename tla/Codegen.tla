------------------------------ MODULE Codegen ------------------------------
(***************************************************************************)
(* cli/cmd/codegen: `codegen all`, run again and again over a project that *)
(* its developer edits, with runs that fail or are interrupted between or  *)
(* within any two writes.                                                  *)
(*                                                                         *)
(* The content of a generated file is abstracted to the state of the       *)
(* sources that it was generated from.  A generator reads its sources when *)
(* it starts and then writes one file after the other.                     *)
(***************************************************************************)
EXTENDS Naturals, SequencesExt

CONSTANTS
  Given,     \* the sources that a new project may have
  Changing,  \* those that the developer edits
  Edited,    \* the files of the frontend that the developer writes
  MaxEdits,  \* how often the developer edits something
  MaxCuts    \* how many runs are interrupted

\* What the developer writes: schemaf.toml, compose/, go/go.mod, go/db/migrations,
\* go/db/queries, go/api, go/tests.
Source == {"toml", "ext", "gomod", "migrations", "queries", "api", "tests"}

\* What a source may hold: nothing, one thing or another, or what cannot be read.
Contents == {"none", "old", "new", "bad"}

\* What each generator reads, or looks for, and the files that it writes, in order.
\* Files whose text is fixed and that are written every time, sqlc.yaml and
\* .gitkeep, are left out; node_modules stands for `npm install`.
runConstantsGen == [reads |-> {"toml"}, writes |-> <<"constants.gen.go">>]
runScaffoldFrontend ==
  [reads |-> {"toml"},
   writes |-> <<"package.json", "vite.config.ts", "tsconfig.json", "index.html",
                "main.tsx", "App.tsx", ".gitignore", "node_modules">>]
runFrontendGen == [reads |-> {}, writes |-> <<"frontend.gen.go">>]
runComposeGen ==
  [reads |-> {"toml", "ext", "gomod"},
   writes |-> <<"compose.gen.yml", "compose.dev.gen.yml", "compose.test.gen.yml",
                "Dockerfile.gen", "test-env.sh", "schemaf.sh">>]
runMigrationsGen == [reads |-> {"migrations"}, writes |-> <<"migrations.gen.go">>]
runSQLC == [reads |-> {"migrations", "queries"}, writes |-> <<"queries.gen.go">>]
runEndpointsGen == [reads |-> {"api"}, writes |-> <<"endpoints.gen.go", "openapi.json">>]
runAPITS == [reads |-> {"api"}, writes |-> <<"api.gen.ts">>]
runAPIGo == [reads |-> {"api"}, writes |-> <<"client.gen.go">>]
runTestsGen == [reads |-> {"tests", "gomod"}, writes |-> <<"ts.gen_test.go", "runner.gen.ts">>]

\* The generators in the order of newAllCmd.
Steps == <<runConstantsGen, runScaffoldFrontend, runFrontendGen, runComposeGen, runMigrationsGen,
           runSQLC, runEndpointsGen, runAPITS, runAPIGo, runTestsGen>>
Step == Range(Steps)
Clients == {runAPITS, runAPIGo}

File == UNION {Range(s.writes) : s \in Step}
FrontendFile == Range(runScaffoldFrontend.writes)

ASSUME CodegenAssumption ==
  /\ Given \subseteq SUBSET (Source \ {"toml"}) /\ Changing \subseteq Source
  /\ Edited \subseteq FrontendFile \ {"node_modules"}
  /\ MaxEdits \in Nat /\ MaxCuts \in Nat

VARIABLES
  src,     \* what each source holds
  files,   \* each file is "whole", "torn", the developer's "own", or "no"
  from,    \* the sources that it was generated from
  dir,     \* frontend/ exists
  at,      \* the generator that runs, 0 between runs
  left,    \* what it has still to write, once it has read
  snap,    \* what it has read
  last,    \* how the last run ended
  touched, \* history: the sources changed since the last run began
  edits, cuts \* how often the developer has edited, and runs were interrupted

vars == <<src, files, from, dir, at, left, snap, last, touched, edits, cuts>>

Init ==
  /\ \E given \in Given :
       src = [s \in Source |-> IF s \in given \union {"toml"} THEN "old" ELSE "none"]
  /\ files = [f \in File |-> "no"]
  /\ from = [f \in File |-> <<>>]
  /\ dir = FALSE
  /\ at = 0
  /\ left = <<>>
  /\ snap = <<>>
  /\ last = "never"
  /\ touched = {}
  /\ edits = 0
  /\ cuts = 0

-----------------------------------------------------------------------------
\* The developer edits, adds, removes or spoils a source, at any time.
Edit(s) ==
  /\ edits < MaxEdits
  /\ edits' = edits + 1
  /\ \E to \in Contents \ {src[s]} :
       /\ to \in {"none", "bad"} => s # "toml"
       /\ to = "bad" => s \notin {"gomod", "migrations", "tests"}
       /\ src' = [src EXCEPT ![s] = to]
  /\ touched' = touched \union {s}
  /\ UNCHANGED <<files, from, dir, at, left, snap, last, cuts>>

\* The developer writes a file of the frontend, which may be the first.
EditFrontend(f) ==
  /\ edits < MaxEdits
  /\ edits' = edits + 1
  /\ dir' = TRUE
  /\ files' = [files EXCEPT ![f] = "own"]
  /\ UNCHANGED <<src, from, at, left, snap, last, touched, cuts>>

Begin ==
  /\ at = 0
  /\ at' = 1
  /\ touched' = {}
  /\ UNCHANGED <<src, files, from, dir, left, snap, last, edits, cuts>>

Entering(s) == at # 0 /\ Steps[at] = s /\ left = <<>>

\* The run is over.
End(how) ==
  /\ at' = 0
  /\ left' = <<>>
  /\ snap' = <<>>
  /\ last' = how

\* The next generator's turn.
Proceed ==
  IF at = Len(Steps)
    THEN End("ok")
    ELSE at' = at + 1 /\ left' = <<>> /\ snap' = <<>> /\ UNCHANGED last

Required == {"package.json", "vite.config.ts", "index.html"}

\* A generator that cannot do its work: validateFrontend misses a file, a source
\* or the OpenAPI document cannot be parsed, there is no module.
Refuses(s) ==
  CASE s = runScaffoldFrontend -> dir /\ \E f \in Required : files[f] = "no"
    [] s = runComposeGen -> src["ext"] = "bad"
    [] s = runSQLC -> src["queries"] = "bad"
    [] s = runEndpointsGen -> src["api"] = "bad"
    [] s \in Clients -> files["openapi.json"] = "torn"
    [] s = runTestsGen -> src["gomod"] = "none" /\ src["tests"] # "none"
    [] OTHER -> FALSE

\* Faulty variant: a frontend without an App.tsx is scaffolded.
HasNothingToDoBut(s) ==
  CASE s = runScaffoldFrontend -> files["App.tsx"] # "no"
    [] s = runFrontendGen -> ~dir
    [] s = runMigrationsGen -> src["migrations"] = "none"
    [] s = runSQLC -> src["queries"] = "none"
    [] s \in Clients -> files["openapi.json"] = "no"
    [] s = runTestsGen -> src["tests"] = "none"
    [] OTHER -> FALSE

\* A generator that is skipped.  What it wrote in earlier runs stays.
HasNothingToDo(s) ==
  CASE s = runScaffoldFrontend -> dir
    [] s = runFrontendGen -> ~dir
    [] s = runMigrationsGen -> src["migrations"] = "none"
    [] s = runSQLC -> src["queries"] = "none"
    [] s \in Clients -> files["openapi.json"] = "no"
    [] s = runTestsGen -> src["tests"] = "none"
    [] OTHER -> FALSE

\* What a generator reads: the clients, the OpenAPI document.
Seen(s) ==
  IF s \in Clients THEN from["openapi.json"] ELSE [r \in s.reads |-> src[r]]

Skip(s) ==
  /\ Entering(s) /\ ~Refuses(s) /\ HasNothingToDo(s)
  /\ Proceed
  /\ UNCHANGED <<src, files, from, dir, touched, edits, cuts>>

Read(s) ==
  /\ Entering(s) /\ ~Refuses(s) /\ ~HasNothingToDo(s)
  /\ snap' = Seen(s)
  /\ left' = s.writes
  /\ dir' = (dir \/ s = runScaffoldFrontend)
  /\ UNCHANGED <<src, files, from, at, last, touched, edits, cuts>>

\* Faulty variant: every file is made from the sources as they are by then.
WriteRereading ==
  /\ left # <<>>
  /\ files' = [files EXCEPT ![Head(left)] = "whole"]
  /\ from' = [from EXCEPT ![Head(left)] = Seen(Steps[at])]
  /\ IF Len(left) = 1
       THEN Proceed
       ELSE left' = Tail(left) /\ UNCHANGED <<at, snap, last>>
  /\ UNCHANGED <<src, dir, touched, edits, cuts>>

\* The next file is written.
Write ==
  /\ left # <<>>
  /\ files' = [files EXCEPT ![Head(left)] = "whole"]
  /\ from' = [from EXCEPT ![Head(left)] = snap]
  /\ IF Len(left) = 1
       THEN Proceed
       ELSE left' = Tail(left) /\ UNCHANGED <<at, snap, last>>
  /\ UNCHANGED <<src, dir, touched, edits, cuts>>

\* The files that are made by another tool: npm, sqlc, npx, go.
ByTool == {"node_modules", "queries.gen.go", "api.gen.ts", "client.gen.go"}

\* runAPIGo's `go get` may raise the version of Go in go.mod, which runComposeGen
\* has read by then.
GoGet ==
  /\ left # <<>> /\ Head(left) = "client.gen.go"
  /\ src["gomod"] = "old"
  /\ src' = [src EXCEPT !["gomod"] = "new"]
  /\ touched' = touched \union {"gomod"}
  /\ UNCHANGED <<files, from, dir, at, left, snap, last, edits, cuts>>

\* Faulty variant: a generator that fails is passed over.
FailOnward(s) ==
  /\ \/ Entering(s) /\ Refuses(s)
     \/ left # <<>> /\ Steps[at] = s /\ Head(left) \in ByTool
  /\ Proceed
  /\ UNCHANGED <<src, files, from, dir, touched, edits, cuts>>

\* A generator fails and ends the run: by itself, or because the tool does that
\* it calls.
Fail(s) ==
  /\ \/ Entering(s) /\ Refuses(s)
     \/ left # <<>> /\ Steps[at] = s /\ Head(left) \in ByTool
  /\ End("failed")
  /\ UNCHANGED <<src, files, from, dir, touched, edits, cuts>>

\* The run is interrupted, or a write fails, which truncates the file first.
Cut ==
  /\ at # 0 /\ cuts < MaxCuts
  /\ cuts' = cuts + 1
  /\ \/ UNCHANGED files
     \/ left # <<>> /\ files' = [files EXCEPT ![Head(left)] = "torn"]
  /\ End("failed")
  /\ UNCHANGED <<src, from, dir, touched, edits>>

Next ==
  \/ \E s \in Changing : Edit(s)
  \/ \E f \in Edited : EditFrontend(f)
  \/ Begin \/ Write \/ GoGet \/ Cut
  \/ \E s \in Step : Skip(s) \/ Read(s) \/ Fail(s)

Spec == Init /\ [][Next]_vars

-----------------------------------------------------------------------------
Succeeded == at = 0 /\ last = "ok"

\* EXTEND.md:572, "freshly generated code": when a run has succeeded, every
\* generated file has been made from the sources as they are, unless they were
\* changed meanwhile, whatever earlier runs left half done: by the developer or,
\* go.mod, by the run's own `go get`.  Files whose sources
\* have all been removed are not; they stay as they were.
Fresh ==
  Succeeded => \A s \in Step \ {runScaffoldFrontend} :
    \/ s.reads \intersect touched # {}
    \/ s = runMigrationsGen /\ src["migrations"] = "none"
    \/ s = runTestsGen /\ src["tests"] = "none"
    \/ s = runSQLC /\ src["queries"] = "none"
    \/ \A f \in Range(s.writes) :
         files[f] = "whole" /\ from[f] = [r \in s.reads |-> src[r]]

\* A run that has succeeded leaves handlers, the OpenAPI document and both
\* clients of one and the same API, even if go/api was edited meanwhile.
ClientsAgree ==
  Succeeded => \A f \in {"endpoints.gen.go", "openapi.json", "api.gen.ts", "client.gen.go"} :
    files[f] = "whole" /\ from[f] = from["endpoints.gen.go"]

\* What the developer has written in frontend/ stays, unless it was written
\* while the scaffold was being made.
OwnFilesKept ==
  [][\A f \in FrontendFile :
       files[f] = "own" /\ files'[f] # "own" => f \in Range(left) /\ from[f] = <<>>]_vars
=============================================================================
