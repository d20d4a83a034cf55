---------------------------- MODULE CodegenProof ----------------------------
(***************************************************************************)
(* Proofs about Codegen, for any project and any number of edits, failures *)
(* and interruptions, and about OpenAPI, the document that one of its      *)
(* generators writes, for any structs and any endpoints.                   *)
(***************************************************************************)
EXTENDS Codegen, OpenAPI, FiniteSetTheorems, WellFoundedInduction, TLAPS

Number == 1 .. 10
Reads(k) == Steps[k].reads
Writes(k) == Range(Steps[k].writes)

\* The number of the generator that writes a file.
WriterOf(f) ==
  IF f = "constants.gen.go" THEN 1
  ELSE IF f \in FrontendFile THEN 2
  ELSE IF f = "frontend.gen.go" THEN 3
  ELSE IF f \in {"compose.gen.yml", "compose.dev.gen.yml", "compose.test.gen.yml",
                 "Dockerfile.gen", "test-env.sh", "schemaf.sh"} THEN 4
  ELSE IF f = "migrations.gen.go" THEN 5
  ELSE IF f = "queries.gen.go" THEN 6
  ELSE IF f \in {"endpoints.gen.go", "openapi.json"} THEN 7
  ELSE IF f = "api.gen.ts" THEN 8
  ELSE IF f = "client.gen.go" THEN 9
  ELSE 10

RunTypeOK ==
  /\ src \in [Source -> Contents]
  /\ files \in [File -> {"whole", "torn", "own", "no"}]
  /\ from = [f \in File |-> from[f]]
  /\ dir \in BOOLEAN
  /\ at \in {0} \union Number
  /\ left \in Seq(File) /\ (left # <<>> => at # 0)
  /\ touched \subseteq Source

\* A generator has had its turn in this run, or in the last one, which succeeded.
Passed(k) == IF at = 0 THEN last = "ok" ELSE k < at

\* Only the developer's files are not a generator's.
OwnInv == \A f \in File \ FrontendFile : files[f] # "own"

\* The sources of a generator were changed, or it had nothing to do.
Excused(k) ==
  \/ Reads(k) \intersect touched # {}
  \/ k = 5 /\ src["migrations"] = "none"
  \/ k = 6 /\ src["queries"] = "none"
  \/ k = 10 /\ src["tests"] = "none"

Current(k) == [r \in Reads(k) |-> src[r]]

\* Every file of a generator is made from what the sources are, or it is excused.
Settled(k) ==
  Excused(k) \/ \A f \in Writes(k) : files[f] = "whole" /\ from[f] = Current(k)

\* That is so once it has had its turn.
MadeInv ==
  \A k \in Number \ {2} : Passed(k) => Settled(k)

\* What a generator has read is what the sources are, unless they were changed,
\* and what it has written so far is made from that.
TurnInv ==
  left # <<>> =>
    /\ Range(left) \subseteq Writes(at)
    /\ at # 2 => \A f \in Writes(at) \ Range(left) : files[f] = "whole" /\ from[f] = snap
    /\ at # 2 => Reads(at) \intersect touched # {} \/ snap = Current(at)
    /\ at \in {8, 9} => snap = from["openapi.json"]

\* The document and the clients are made from what the handlers are.
AgreeInv ==
  /\ Passed(7) => /\ files["endpoints.gen.go"] = "whole" /\ files["openapi.json"] = "whole"
                  /\ from["openapi.json"] = from["endpoints.gen.go"]
  /\ Passed(8) => files["api.gen.ts"] = "whole" /\ from["api.gen.ts"] = from["endpoints.gen.go"]
  /\ Passed(9) => files["client.gen.go"] = "whole" /\ from["client.gen.go"] = from["endpoints.gen.go"]

\* What the scaffold has still to write was never written, and it begins but once.
ScaffoldInv ==
  /\ ~dir => \A f \in FrontendFile : from[f] = <<>>
  /\ Passed(2) \/ (at = 2 /\ left # <<>>) => dir
  /\ at = 2 => /\ \A f \in Range(left) : from[f] = <<>>
               /\ \A i, j \in DOMAIN left : left[i] = left[j] => i = j

RunInv == RunTypeOK /\ OwnInv /\ MadeInv /\ TurnInv /\ AgreeInv /\ ScaffoldInv

-----------------------------------------------------------------------------
(***************************************************************************)
(* The generators.                                                         *)
(***************************************************************************)

LEMMA StepList ==
  /\ Len(Steps) = 10 /\ DOMAIN Steps = Number
  /\ Steps[1] = runConstantsGen /\ Steps[2] = runScaffoldFrontend /\ Steps[3] = runFrontendGen
  /\ Steps[4] = runComposeGen /\ Steps[5] = runMigrationsGen /\ Steps[6] = runSQLC
  /\ Steps[7] = runEndpointsGen /\ Steps[8] = runAPITS /\ Steps[9] = runAPIGo
  /\ Steps[10] = runTestsGen
BY DEF Steps, Number

\* The generators are those with a number.
LEMMA Numbered ==
  /\ \A s \in Step : \E k \in Number : s = Steps[k]
  /\ \A k \in Number : Steps[k] \in Step
BY StepList DEF Step, Range

LEMMA WritesOf ==
  /\ Writes(1) = {"constants.gen.go"}
  /\ Writes(2) = {"package.json", "vite.config.ts", "tsconfig.json", "index.html",
                  "main.tsx", "App.tsx", ".gitignore", "node_modules"}
  /\ Writes(3) = {"frontend.gen.go"}
  /\ Writes(4) = {"compose.gen.yml", "compose.dev.gen.yml", "compose.test.gen.yml",
                  "Dockerfile.gen", "test-env.sh", "schemaf.sh"}
  /\ Writes(5) = {"migrations.gen.go"}
  /\ Writes(6) = {"queries.gen.go"}
  /\ Writes(7) = {"endpoints.gen.go", "openapi.json"}
  /\ Writes(8) = {"api.gen.ts"}
  /\ Writes(9) = {"client.gen.go"}
  /\ Writes(10) = {"ts.gen_test.go", "runner.gen.ts"}
<1>1. Writes(1) = {"constants.gen.go"}
  BY StepList DEF Writes, Range, runConstantsGen
<1>2. Writes(2) = {"package.json", "vite.config.ts", "tsconfig.json", "index.html",
                   "main.tsx", "App.tsx", ".gitignore", "node_modules"}
  BY StepList DEF Writes, Range, runScaffoldFrontend
<1>3. Writes(3) = {"frontend.gen.go"}
  BY StepList DEF Writes, Range, runFrontendGen
<1>4. Writes(4) = {"compose.gen.yml", "compose.dev.gen.yml", "compose.test.gen.yml",
                   "Dockerfile.gen", "test-env.sh", "schemaf.sh"}
  BY StepList DEF Writes, Range, runComposeGen
<1>5. Writes(5) = {"migrations.gen.go"}
  BY StepList DEF Writes, Range, runMigrationsGen
<1>6. Writes(6) = {"queries.gen.go"}
  BY StepList DEF Writes, Range, runSQLC
<1>7. Writes(7) = {"endpoints.gen.go", "openapi.json"}
  BY StepList DEF Writes, Range, runEndpointsGen
<1>8. Writes(8) = {"api.gen.ts"}
  BY StepList DEF Writes, Range, runAPITS
<1>9. Writes(9) = {"client.gen.go"}
  BY StepList DEF Writes, Range, runAPIGo
<1>10. Writes(10) = {"ts.gen_test.go", "runner.gen.ts"}
  BY StepList DEF Writes, Range, runTestsGen
<1>. QED  BY <1>1, <1>2, <1>3, <1>4, <1>5, <1>6, <1>7, <1>8, <1>9, <1>10

LEMMA FrontendFiles == FrontendFile = Writes(2)
BY StepList DEF FrontendFile, Writes

\* No two generators write the same file.
LEMMA OneWriter == \A k \in Number : \A f \in Writes(k) : f \in File /\ WriterOf(f) = k
<1>1. ASSUME NEW k \in Number, NEW f \in Writes(k) PROVE f \in File
  BY Numbered DEF Writes, File
<1>2. ASSUME NEW k \in Number, NEW f \in Writes(k) PROVE WriterOf(f) = k
  <2>1. k \in {1, 2, 3, 4, 5, 6, 7, 8, 9, 10}
    BY DEF Number
  <2>. QED  BY <2>1, WritesOf, FrontendFiles DEF WriterOf
<1>. QED  BY <1>1, <1>2

\* A generator writes its files in some order; the scaffold, each of them once.
LEMMA WriteOrder ==
  /\ \A k \in Number : Steps[k].writes \in Seq(File) /\ Steps[k].writes # <<>>
  /\ \A i, j \in DOMAIN runScaffoldFrontend.writes :
       runScaffoldFrontend.writes[i] = runScaffoldFrontend.writes[j] => i = j
<1>1. ASSUME NEW k \in Number PROVE Steps[k].writes \in Seq(File) /\ Steps[k].writes # <<>>
  <2>1. k \in {1, 2, 3, 4, 5, 6, 7, 8, 9, 10}
    BY DEF Number
  <2>2. Steps[k].writes \in Seq(Writes(k)) /\ Steps[k].writes # <<>>
    <3>1. runConstantsGen.writes \in Seq(Writes(1)) /\ runConstantsGen.writes # <<>>
      BY WritesOf DEF runConstantsGen
    <3>2. runScaffoldFrontend.writes \in Seq(Writes(2)) /\ runScaffoldFrontend.writes # <<>>
      BY WritesOf DEF runScaffoldFrontend
    <3>3. runFrontendGen.writes \in Seq(Writes(3)) /\ runFrontendGen.writes # <<>>
      BY WritesOf DEF runFrontendGen
    <3>4. runComposeGen.writes \in Seq(Writes(4)) /\ runComposeGen.writes # <<>>
      BY WritesOf DEF runComposeGen
    <3>5. runMigrationsGen.writes \in Seq(Writes(5)) /\ runMigrationsGen.writes # <<>>
      BY WritesOf DEF runMigrationsGen
    <3>6. runSQLC.writes \in Seq(Writes(6)) /\ runSQLC.writes # <<>>
      BY WritesOf DEF runSQLC
    <3>7. runEndpointsGen.writes \in Seq(Writes(7)) /\ runEndpointsGen.writes # <<>>
      BY WritesOf DEF runEndpointsGen
    <3>8. runAPITS.writes \in Seq(Writes(8)) /\ runAPITS.writes # <<>>
      BY WritesOf DEF runAPITS
    <3>9. runAPIGo.writes \in Seq(Writes(9)) /\ runAPIGo.writes # <<>>
      BY WritesOf DEF runAPIGo
    <3>10. runTestsGen.writes \in Seq(Writes(10)) /\ runTestsGen.writes # <<>>
      BY WritesOf DEF runTestsGen
    <3>. QED  BY <2>1, StepList, <3>1, <3>2, <3>3, <3>4, <3>5, <3>6, <3>7, <3>8, <3>9, <3>10
  <2>3. Writes(k) \subseteq File
    BY OneWriter
  <2>. DEFINE w == Steps[k].writes
  <2>. HIDE DEF w
  <2>4. w \in [1 .. Len(w) -> File] /\ Len(w) \in Nat /\ w # <<>>
    BY <2>2, <2>3 DEF w
  <2>5. w \in Seq(File)
    BY <2>4
  <2>. QED  BY <2>4, <2>5 DEF w
<1>2. \A i, j \in DOMAIN runScaffoldFrontend.writes :
       runScaffoldFrontend.writes[i] = runScaffoldFrontend.writes[j] => i = j
  BY DEF runScaffoldFrontend
<1>. QED  BY <1>1, <1>2

\* No generator comes twice.
LEMMA Distinct == \A j, k \in Number : Steps[j] = Steps[k] => j = k
<1> SUFFICES ASSUME NEW j \in Number, NEW k \in Number, Steps[j] = Steps[k] PROVE j = k
  OBVIOUS
<1>1. PICK f \in Writes(j) : TRUE
  <2>1. 1 \in DOMAIN Steps[j].writes
    BY WriteOrder
  <2>. QED  BY <2>1 DEF Writes, Range
<1>2. f \in Writes(k)
  BY <1>1 DEF Writes
<1>. QED  BY <1>1, <1>2, OneWriter

\* When a generator has nothing to do.
LEMMA NothingToDo ==
  ASSUME NEW k \in Number
  PROVE  HasNothingToDo(Steps[k]) <=>
           \/ k = 2 /\ dir
           \/ k = 3 /\ ~dir
           \/ k = 5 /\ src["migrations"] = "none"
           \/ k = 6 /\ src["queries"] = "none"
           \/ k \in {8, 9} /\ files["openapi.json"] = "no"
           \/ k = 10 /\ src["tests"] = "none"
<1>1. k \in {1, 2, 3, 4, 5, 6, 7, 8, 9, 10} /\ \A j \in Number : Steps[j] = Steps[k] <=> j = k
  BY Distinct DEF Number
<1>2. /\ Steps[k] = runScaffoldFrontend <=> k = 2
      /\ Steps[k] = runFrontendGen <=> k = 3
      /\ Steps[k] = runMigrationsGen <=> k = 5
      /\ Steps[k] = runSQLC <=> k = 6
      /\ Steps[k] \in Clients <=> k \in {8, 9}
      /\ Steps[k] = runTestsGen <=> k = 10
  BY <1>1, StepList DEF Clients, Number
<1>. QED  BY <1>1, <1>2 DEF HasNothingToDo

\* The clients are the generators that read the document.
LEMMA SeenBy ==
  ASSUME NEW k \in Number
  PROVE  Seen(Steps[k]) = IF k \in {8, 9} THEN from["openapi.json"] ELSE Current(k)
<1>1. k \in {1, 2, 3, 4, 5, 6, 7, 8, 9, 10}
  BY DEF Number
<1>2. Steps[k] \in Clients <=> k \in {8, 9}
  BY <1>1, StepList, Distinct DEF Clients, Number
<1>. QED  BY <1>2 DEF Seen, Current, Reads

-----------------------------------------------------------------------------
(***************************************************************************)
(* The invariant.                                                          *)
(***************************************************************************)

\* A sequence is empty if its length is 0.
LEMMA EmptySeq == ASSUME NEW S, NEW q \in Seq(S) PROVE q = <<>> <=> Len(q) = 0
OBVIOUS

\* The next generator's turn: the one that ran has had its own.
LEMMA ProceedTo ==
  ASSUME RunTypeOK, at \in Number, Proceed
  PROVE  /\ at' \in {0} \union Number /\ at' # at /\ left' = <<>>
         /\ \A k \in Number : Passed(k)' <=> k <= at
         /\ at' = 2 => at = 1
BY StepList DEF Proceed, End, Passed, Number

\* A run that ends otherwise has passed nothing.
LEMMA EndOf ==
  ASSUME End("failed")
  PROVE  at' = 0 /\ left' = <<>> /\ \A k \in Number : ~Passed(k)'
BY DEF End, Passed, Number

\* A generator that is at its turn has a number, and those before it had theirs.
LEMMA Entered ==
  ASSUME RunTypeOK, NEW s \in Step, Entering(s)
  PROVE  at \in Number /\ s = Steps[at] /\ \A k \in Number : Passed(k) <=> k < at
BY DEF RunTypeOK, Entering, Passed

LEMMA Writing ==
  ASSUME RunTypeOK, left # <<>>
  PROVE  /\ at \in Number /\ \A k \in Number : Passed(k) <=> k < at
         /\ Head(left) \in Range(left) /\ Tail(left) \in Seq(File) /\ Head(left) \in File
         /\ Range(left) = Range(Tail(left)) \union {Head(left)}
         /\ Len(left) = 1 <=> Tail(left) = <<>>
<1>1. left \in Seq(File) /\ Len(left) \in Nat /\ Len(left) > 0
  BY DEF RunTypeOK
<1>2. /\ Head(left) = left[1] /\ 1 \in DOMAIN left
      /\ Tail(left) \in Seq(File) /\ Len(Tail(left)) = Len(left) - 1
      /\ \A i \in DOMAIN Tail(left) : i + 1 \in DOMAIN left /\ Tail(left)[i] = left[i + 1]
      /\ \A i \in DOMAIN left : i # 1 => i - 1 \in DOMAIN Tail(left) /\ left[i] = Tail(left)[i - 1]
  BY <1>1
<1>3. Range(left) = Range(Tail(left)) \union {Head(left)}
  <2>1. ASSUME NEW i \in DOMAIN left PROVE left[i] \in Range(Tail(left)) \union {Head(left)}
    BY <1>2 DEF Range
  <2>2. ASSUME NEW i \in DOMAIN Tail(left) PROVE Tail(left)[i] \in Range(left)
    BY <1>2 DEF Range
  <2>3. Head(left) \in Range(left)
    BY <1>2 DEF Range
  <2>. QED  BY <2>1, <2>2, <2>3 DEF Range
<1>4. at \in Number /\ \A k \in Number : Passed(k) <=> k < at
  BY DEF RunTypeOK, Passed
<1>5. Len(left) = 1 <=> Tail(left) = <<>>
  <2>1. Tail(left) = <<>> <=> Len(Tail(left)) = 0
    BY <1>2, EmptySeq
  <2>. QED  BY <1>1, <1>2, <2>1
<1>6. Head(left) \in Range(left) /\ Head(left) \in File
  BY <1>1, <1>2 DEF Range
<1>. QED  BY <1>2, <1>3, <1>4, <1>5, <1>6

\* A source changes, and nothing else.
Changes(s) ==
  /\ \E to \in Contents : src' = [src EXCEPT ![s] = to]
  /\ touched' = touched \union {s}
  /\ UNCHANGED <<files, from, dir, at, left, snap, last>>

\* The developer and `go get` do that.
LEMMA SourceSteps ==
  (\E s \in Changing : Edit(s)) \/ GoGet => \E s \in Source : Changes(s)
<1>1. ASSUME NEW s \in Changing, Edit(s) PROVE s \in Source /\ Changes(s)
  BY <1>1, CodegenAssumption DEF Edit, Changes
<1>2. ASSUME GoGet PROVE "gomod" \in Source /\ Changes("gomod")
  BY <1>2 DEF GoGet, Changes, Source, Contents
<1>. QED  BY <1>1, <1>2

\* Every step keeps the types.
LEMMA NextRunTypeOK == RunTypeOK /\ [Next]_vars => RunTypeOK'
<1> SUFFICES ASSUME RunTypeOK, [Next]_vars PROVE RunTypeOK'
  OBVIOUS
<1>1. ASSUME NEW s \in Source, Changes(s) PROVE RunTypeOK'
  BY <1>1 DEF RunTypeOK, Changes
<1>2. ASSUME NEW f \in Edited, EditFrontend(f) PROVE RunTypeOK'
  BY <1>2 DEF RunTypeOK, EditFrontend
<1>3. CASE Begin
  BY <1>3 DEF RunTypeOK, Begin, Number
<1>4. ASSUME NEW s \in Step, Skip(s) PROVE RunTypeOK'
  <2>1. at \in Number
    BY <1>4, Entered DEF Skip
  <2>2. at' \in {0} \union Number /\ left' = <<>>
    BY <1>4, <2>1, ProceedTo DEF Skip
  <2>3. left' \in Seq(File)
    BY <2>2
  <2>. QED  BY <1>4, <2>2, <2>3 DEF RunTypeOK, Skip
<1>5. ASSUME NEW s \in Step, Read(s) PROVE RunTypeOK'
  <2>1. at \in Number /\ s = Steps[at]
    BY <1>5, Entered DEF Read
  <2>2. left' \in Seq(File)
    BY <1>5, <2>1, WriteOrder DEF Read
  <2>. QED  BY <1>5, <2>1, <2>2 DEF RunTypeOK, Read, Number
<1>6. CASE Write
  <2>1. Head(left) \in File /\ Tail(left) \in Seq(File) /\ at \in Number
    BY <1>6, Writing DEF Write
  <2>2. /\ left' \in Seq(File) /\ at' \in {0} \union Number
        /\ left' # <<>> => at' # 0
    <3>1. CASE Len(left) = 1
      <4>1. at' \in {0} \union Number /\ left' = <<>>
        BY <1>6, <2>1, <3>1, ProceedTo DEF Write
      <4>. QED  BY <4>1
    <3>2. CASE Len(left) # 1
      BY <1>6, <2>1, <3>2 DEF Write, Number
    <3>. QED  BY <3>1, <3>2
  <2>3. files' \in [File -> {"whole", "torn", "own", "no"}] /\ from' = [f \in File |-> from'[f]]
    BY <1>6, <2>1 DEF Write, RunTypeOK
  <2>. QED  BY <1>6, <2>2, <2>3 DEF Write, RunTypeOK
<1>7. ASSUME NEW s \in Step, Fail(s) PROVE RunTypeOK'
  BY <1>7, EndOf DEF RunTypeOK, Fail
<1>8. CASE Cut
  BY <1>8, EndOf, Writing DEF RunTypeOK, Cut
<1>9. CASE UNCHANGED vars
  BY <1>9 DEF RunTypeOK, vars
<1>. QED  BY <1>1, <1>2, <1>3, <1>4, <1>5, <1>6, <1>7, <1>8, <1>9, SourceSteps DEF Next

\* A generator stays settled, unless its own files are written, or its sources changed.
LEMMA SettledStays ==
  ASSUME NEW k \in Number, Settled(k), touched' = touched,
         \A r \in Reads(k) : src'[r] = src[r],
         \A r \in {"migrations", "queries", "tests"} : src'[r] = src[r],
         \A f \in Writes(k) : files'[f] = files[f] /\ from'[f] = from[f]
  PROVE  Settled(k)'
BY DEF Settled, Excused, Current, Reads, Writes

\* Nor does a change of a source unsettle it.
LEMMA SettledUnderChange ==
  ASSUME RunTypeOK, NEW k \in Number, Settled(k), NEW s \in Source, Changes(s)
  PROVE  Settled(k)'
<1>1. CASE s \in Reads(k)
  BY <1>1 DEF Changes, Settled, Excused, Reads
<1>2. CASE s \notin Reads(k) /\ Excused(k)
  <2>1. k = 5 => "migrations" \in Reads(k)
    BY StepList DEF Reads, runMigrationsGen
  <2>2. k = 6 => "queries" \in Reads(k)
    BY StepList DEF Reads, runSQLC
  <2>3. k = 10 => "tests" \in Reads(k)
    BY StepList DEF Reads, runTestsGen
  <2>4. \A r \in Source \ {s} : src'[r] = src[r]
    BY DEF Changes, RunTypeOK
  <2>. QED  BY <1>2, <2>1, <2>2, <2>3, <2>4 DEF Changes, Settled, Excused, Reads, Source
<1>3. CASE s \notin Reads(k) /\ \A f \in Writes(k) : files[f] = "whole" /\ from[f] = Current(k)
  <2>1. \A r \in Reads(k) : src'[r] = src[r]
    BY <1>3 DEF Changes, RunTypeOK
  <2>2. Current(k)' = Current(k)
    BY <2>1 DEF Current, Reads
  <2>. QED  BY <1>3, <2>2 DEF Changes, Settled, Writes
<1>. QED  BY <1>1, <1>2, <1>3 DEF Settled

\* The developer's files are those of the frontend.
LEMMA OwnNext == RunTypeOK /\ OwnInv /\ [Next]_vars => OwnInv'
<1> SUFFICES ASSUME RunTypeOK, OwnInv, [Next]_vars PROVE OwnInv'
  OBVIOUS
<1> USE DEF OwnInv, RunTypeOK
<1>1. ASSUME NEW f \in Edited, EditFrontend(f) PROVE OwnInv'
  BY <1>1, CodegenAssumption DEF EditFrontend
<1>2. CASE Write
  BY <1>2 DEF Write
<1>3. CASE Cut
  BY <1>3 DEF Cut
<1>4. ASSUME files' = files PROVE OwnInv'
  BY <1>4
<1>. QED  BY <1>1, <1>2, <1>3, <1>4 DEF Next, Edit, GoGet, Begin, Skip, Read, Fail, vars

\* A file that the developer writes is none of the other generators'.
LEMMA EditedFiles ==
  ASSUME NEW f \in Edited, NEW k \in Number, k # 2 PROVE f \in FrontendFile /\ f \notin Writes(k)
<1>1. f \in Writes(2)
  BY CodegenAssumption, FrontendFiles
<1>2. 2 \in Number
  BY DEF Number
<1>. QED  BY <1>1, <1>2, OneWriter, FrontendFiles

\* A write touches one file, of the generator whose turn it is.
LEMMA WriteTo ==
  ASSUME RunTypeOK, TurnInv, Write
  PROVE  /\ Head(left) \in Writes(at)
         /\ \A k \in Number \ {at} : \A f \in Writes(k) : files'[f] = files[f] /\ from'[f] = from[f]
         /\ files'[Head(left)] = "whole" /\ from'[Head(left)] = snap
         /\ \A f \in File \ {Head(left)} : files'[f] = files[f] /\ from'[f] = from[f]
<1>1. Head(left) \in Writes(at) /\ Head(left) \in File /\ at \in Number
  BY Writing DEF Write, TurnInv
<1>2. \A f \in File \ {Head(left)} : files'[f] = files[f] /\ from'[f] = from[f]
  BY DEF Write, RunTypeOK
<1>3. files'[Head(left)] = "whole" /\ from'[Head(left)] = snap
  BY <1>1 DEF Write, RunTypeOK
<1>4. ASSUME NEW k \in Number \ {at}, NEW f \in Writes(k) PROVE f \in File \ {Head(left)}
  BY <1>1, OneWriter
<1>. QED  BY <1>1, <1>2, <1>3, <1>4

\* The files of a generator when its last one is written.
LEMMA LastWrite ==
  ASSUME RunTypeOK, TurnInv, Write, Len(left) = 1, at # 2
  PROVE  \A f \in Writes(at) : files'[f] = "whole" /\ from'[f] = snap
<1>1. Range(left) = {Head(left)}
  <2>1. Range(left) = Range(Tail(left)) \union {Head(left)} /\ Tail(left) = <<>>
    BY Writing DEF Write
  <2>. QED  BY <2>1 DEF Range
<1>2. \A f \in Writes(at) \ {Head(left)} : files[f] = "whole" /\ from[f] = snap
  BY <1>1 DEF TurnInv, Write
<1>3. Writes(at) \subseteq File
  BY Writing, OneWriter DEF Write
<1>. QED  BY <1>2, <1>3, WriteTo

\* Every step keeps what the generators have made current.
LEMMA MadeNext == RunInv /\ [Next]_vars => MadeInv'
<1> SUFFICES ASSUME RunInv, [Next]_vars, NEW k \in Number \ {2}, Passed(k)' PROVE Settled(k)'
  BY DEF MadeInv
<1>0. RunTypeOK /\ (Passed(k) => Settled(k))
  BY DEF RunInv, MadeInv
<1>1. ASSUME NEW s \in Source, Changes(s) PROVE Settled(k)'
  BY <1>0, <1>1, SettledUnderChange DEF Changes, Passed
<1>2. ASSUME NEW f \in Edited, EditFrontend(f) PROVE Settled(k)'
  <2>1. Passed(k)
    BY <1>2 DEF EditFrontend, Passed
  <2>2. \A g \in Writes(k) : files'[g] = files[g] /\ from'[g] = from[g]
    BY <1>0, <1>2, EditedFiles, OneWriter DEF EditFrontend, RunTypeOK
  <2>. QED  BY <1>0, <1>2, <2>1, <2>2, SettledStays DEF EditFrontend
<1>3. CASE Begin
  BY <1>3 DEF Begin, Passed, Number
<1>4. ASSUME NEW s \in Step, Skip(s) PROVE Settled(k)'
  <2>1. at \in Number /\ s = Steps[at] /\ (Passed(k) <=> k < at) /\ k <= at
    BY <1>0, <1>4, Entered, ProceedTo DEF Skip
  <2>2. Passed(k) => Settled(k)'
    BY <1>0, <1>4, SettledStays DEF Skip
  <2>3. CASE k = at
    <3>1. \/ k = 3 /\ ~dir
          \/ k \in {8, 9} /\ files["openapi.json"] = "no"
          \/ Excused(k)
      <4>1. HasNothingToDo(Steps[k])
        BY <1>4, <2>1, <2>3 DEF Skip
      <4>. QED  BY <4>1, NothingToDo DEF Excused
    <3>2. k = 3 => dir
      <4>1. k = 3 => Passed(2)
        BY <1>0, <1>4, <2>3, Entered DEF Skip, Number
      <4>. QED  BY <4>1 DEF RunInv, ScaffoldInv
    <3>3. k \in {8, 9} => files["openapi.json"] = "whole"
      <4>1. k \in {8, 9} => Passed(7)
        BY <1>0, <1>4, <2>3, Entered DEF Skip, Number
      <4>. QED  BY <4>1 DEF RunInv, AgreeInv
    <3>4. Excused(k)
      BY <3>1, <3>2, <3>3
    <3>. QED  BY <1>4, <3>4 DEF Settled, Excused, Skip, Reads
  <2>. QED  BY <2>1, <2>2, <2>3 DEF Number
<1>5. ASSUME NEW s \in Step, Read(s) PROVE Settled(k)'
  BY <1>0, <1>5, SettledStays DEF Read, Passed
<1>6. CASE Write
  <2>1. at \in Number /\ (Passed(k) <=> k < at)
    BY <1>0, <1>6, Writing DEF Write
  <2>2. k # at /\ Passed(k) => Settled(k)'
    BY <1>0, <1>6, WriteTo, SettledStays DEF Write, RunInv
  <2>3. k <= at /\ (k = at => Len(left) = 1)
    BY <1>0, <1>6, <2>1, ProceedTo DEF Write, Passed, Number
  <2>4. CASE k = at
    <3>1. \A f \in Writes(k) : files'[f] = "whole" /\ from'[f] = snap
      BY <1>0, <1>6, <2>3, <2>4, LastWrite DEF RunInv
    <3>2. Reads(k) \intersect touched # {} \/ snap = Current(k)
      BY <1>6, <2>4 DEF RunInv, TurnInv, Write
    <3>3. src' = src /\ touched' = touched /\ Current(k)' = Current(k)
      BY <1>6 DEF Write, Current, Reads
    <3>4. CASE Reads(k) \intersect touched # {}
      BY <3>3, <3>4 DEF Settled, Excused, Reads
    <3>5. CASE snap = Current(k)
      BY <3>1, <3>3, <3>5 DEF Settled, Writes
    <3>. QED  BY <3>2, <3>4, <3>5
  <2>. QED  BY <2>1, <2>2, <2>3, <2>4 DEF Number
<1>7. ASSUME NEW s \in Step, Fail(s) PROVE Settled(k)'
  BY <1>7, EndOf DEF Fail
<1>8. CASE Cut
  BY <1>8, EndOf DEF Cut
<1>9. CASE UNCHANGED vars
  BY <1>0, <1>9, SettledStays DEF vars, Passed
<1>. QED  BY <1>1, <1>2, <1>3, <1>4, <1>5, <1>6, <1>7, <1>8, <1>9, SourceSteps DEF Next

\* And that what has been written so far is made from what was read.
LEMMA TurnNext == RunInv /\ [Next]_vars => TurnInv'
<1> SUFFICES ASSUME RunInv, [Next]_vars, left' # <<>> PROVE TurnInv'
  BY DEF TurnInv
<1>0. RunTypeOK /\ TurnInv
  BY DEF RunInv
<1>1. ASSUME NEW s \in Source, Changes(s) PROVE TurnInv'
  <2>1. at \in Number /\ left # <<>> /\ left' = left /\ at' = at /\ snap' = snap /\ files' = files /\ from' = from
    BY <1>0, <1>1 DEF Changes, RunTypeOK
  <2>2. CASE s \in Reads(at)
    BY <1>0, <1>1, <2>1, <2>2 DEF TurnInv, Changes, Writes, Reads
  <2>3. CASE s \notin Reads(at)
    <3>1. Current(at)' = Current(at)
      BY <1>0, <1>1, <2>1, <2>3 DEF Changes, RunTypeOK, Current, Reads
    <3>. QED  BY <1>0, <1>1, <2>1, <3>1 DEF TurnInv, Changes, Writes, Reads
  <2>. QED  BY <2>2, <2>3
<1>2. ASSUME NEW f \in Edited, EditFrontend(f) PROVE TurnInv'
  <2>1. at \in Number /\ left # <<>> /\ left' = left /\ at' = at /\ snap' = snap /\ src' = src /\ from' = from /\ touched' = touched
    BY <1>0, <1>2 DEF EditFrontend, RunTypeOK
  <2>2. at # 2 => \A g \in Writes(at) : files'[g] = files[g]
    BY <1>0, <1>2, <2>1, EditedFiles, OneWriter DEF EditFrontend, RunTypeOK
  <2>. QED  BY <1>0, <2>1, <2>2 DEF TurnInv, Writes, Reads, Current
<1>3. ASSUME NEW s \in Step, Read(s) PROVE TurnInv'
  <2>1. at \in Number /\ s = Steps[at] /\ left' = Steps[at].writes /\ snap' = Seen(Steps[at])
    BY <1>0, <1>3, Entered DEF Read
  <2>2. snap' = IF at \in {8, 9} THEN from["openapi.json"] ELSE Current(at)
    BY <2>1, SeenBy
  <2>3. at \in {8, 9} => Reads(at) \intersect touched # {} \/ from["openapi.json"] = Current(at)
    <3>1. at \in {8, 9} => Passed(7)
      BY <1>0, <1>3, Entered DEF Read, Number
    <3>2. at \in {8, 9} => Settled(7)
      BY <3>1 DEF RunInv, MadeInv, Number
    <3>3. Reads(7) = {"api"} /\ Reads(8) = {"api"} /\ Reads(9) = {"api"}
      BY StepList DEF Reads, runEndpointsGen, runAPITS, runAPIGo
    <3>. QED  BY <3>2, <3>3, WritesOf DEF Settled, Excused, Current
  <2>4. Range(left') = Writes(at)
    BY <2>1 DEF Writes
  <2>. QED  BY <1>3, <2>1, <2>2, <2>3, <2>4 DEF Read, TurnInv, Writes, Reads, Current
<1>4. CASE Write
  <2>1. at \in Number /\ Len(left) # 1 /\ left' = Tail(left) /\ at' = at /\ snap' = snap
    BY <1>0, <1>4, Writing, ProceedTo DEF Write
  <2>2. Range(left) = Range(left') \union {Head(left)}
    BY <1>0, <1>4, <2>1, Writing DEF Write
  <2>3. \A f \in Writes(at) \ Range(left') : f = Head(left) \/ f \in Writes(at) \ Range(left)
    BY <2>2
  <2>4. Writes(at) \subseteq File
    BY <2>1, OneWriter
  <2>5. at # 2 => \A f \in Writes(at) \ Range(left') : files'[f] = "whole" /\ from'[f] = snap
    BY <1>0, <1>4, <2>3, <2>4, WriteTo DEF TurnInv, Write
  <2>6. at \in {8, 9} => from'["openapi.json"] = from["openapi.json"]
    <3>1. "openapi.json" \in Writes(7) /\ 7 \in Number
      BY WritesOf DEF Number
    <3>. QED  BY <1>0, <1>4, <2>1, <3>1, WriteTo
  <2>7. Range(left') \subseteq Writes(at)
    BY <1>0, <1>4, <2>2 DEF TurnInv, Write
  <2>8. at # 2 => Reads(at) \intersect touched # {} \/ snap = Current(at)
    BY <1>0, <1>4 DEF TurnInv, Write
  <2>9. at \in {8, 9} => snap = from'["openapi.json"]
    BY <1>0, <1>4, <2>6 DEF TurnInv, Write
  <2>10. /\ touched' = touched /\ Reads(at)' = Reads(at)
         /\ Current(at)' = Current(at) /\ Writes(at)' = Writes(at)
    BY <1>4, <2>1 DEF Write, Reads, Writes, Current
  <2>. QED  BY <2>1, <2>5, <2>7, <2>8, <2>9, <2>10 DEF TurnInv
<1>5. ASSUME left' = <<>> PROVE TurnInv'
  BY <1>5 DEF TurnInv
<1>6. ASSUME NEW s \in Step, Skip(s) PROVE TurnInv'
  BY <1>0, <1>5, <1>6, Entered, ProceedTo DEF Skip
<1>7. ASSUME NEW s \in Step, Fail(s) PROVE TurnInv'
  BY <1>5, <1>7, EndOf DEF Fail
<1>8. CASE Cut
  BY <1>5, <1>8, EndOf DEF Cut
<1>9. CASE Begin
  BY <1>0, <1>9 DEF Begin, RunTypeOK
<1>10. CASE UNCHANGED vars
  BY <1>0, <1>10 DEF vars, TurnInv, Writes, Reads, Current
<1>. QED  BY <1>1, <1>2, <1>3, <1>4, <1>6, <1>7, <1>8, <1>9, <1>10, SourceSteps DEF Next

\* And that handlers, document and clients are of one API.
LEMMA AgreeNext == RunInv /\ [Next]_vars => AgreeInv'
<1> SUFFICES ASSUME RunInv, [Next]_vars PROVE AgreeInv'
  OBVIOUS
<1>0. RunTypeOK /\ AgreeInv /\ TurnInv
  BY DEF RunInv
<1>. DEFINE kept == \A f \in Writes(7) \union Writes(8) \union Writes(9) : files'[f] = files[f] /\ from'[f] = from[f]
<1>1. ASSUME kept, \A k \in {7, 8, 9} : Passed(k)' => Passed(k) PROVE AgreeInv'
  BY <1>0, <1>1, WritesOf DEF AgreeInv
<1>2. ASSUME NEW s \in Source, Changes(s) PROVE AgreeInv'
  BY <1>1, <1>2 DEF Changes, Passed
<1>3. ASSUME NEW f \in Edited, EditFrontend(f) PROVE AgreeInv'
  <2>1. kept
    BY <1>0, <1>3, EditedFiles, OneWriter DEF EditFrontend, RunTypeOK, Number
  <2>. QED  BY <1>1, <1>3, <2>1 DEF EditFrontend, Passed
<1>4. CASE Begin
  BY <1>1, <1>4 DEF Begin, Passed
<1>5. ASSUME NEW s \in Step, Skip(s) PROVE AgreeInv'
  <2>1. at \in Number /\ s = Steps[at] /\ \A k \in Number : (Passed(k) <=> k < at) /\ (Passed(k)' <=> k <= at)
    BY <1>0, <1>5, Entered, ProceedTo DEF Skip
  <2>2. at # 7 /\ at # 8 /\ at # 9
    <3>1. at \in {8, 9} => Passed(7)
      BY <2>1 DEF Number
    <3>2. at # 7 /\ (at \in {8, 9} => files["openapi.json"] = "no")
      BY <1>5, <2>1, NothingToDo DEF Skip
    <3>. QED  BY <1>0, <3>1, <3>2 DEF AgreeInv
  <2>. QED  BY <1>1, <1>5, <2>1, <2>2 DEF Skip, Number
<1>6. ASSUME NEW s \in Step, Read(s) PROVE AgreeInv'
  BY <1>1, <1>6 DEF Read, Passed
<1>7. CASE Write
  <2>1. /\ at \in Number /\ \A k \in Number : Passed(k) <=> k < at
        /\ IF Len(left) = 1 THEN \A k \in Number : Passed(k)' <=> k <= at
           ELSE \A k \in Number : Passed(k)' <=> Passed(k)
    BY <1>0, <1>7, Writing, ProceedTo DEF Write, Passed
  <2>2. CASE at \notin {7, 8, 9}
    <3>1. kept
      BY <1>0, <1>7, <2>2, WriteTo DEF Number
    <3>. QED  BY <1>1, <2>1, <2>2, <3>1 DEF Number
  <2>3. CASE at \in {7, 8, 9} /\ Len(left) # 1
    <3>1. \A k \in 7 .. at - 1 : \A f \in Writes(k) : files'[f] = files[f] /\ from'[f] = from[f]
      BY <1>0, <1>7, <2>3, WriteTo DEF Number
    <3>2. \A k \in {7, 8, 9} : Passed(k)' <=> Passed(k) /\ k < at
      BY <2>1, <2>3 DEF Number
    <3>. QED  BY <1>0, <2>3, <3>1, <3>2, WritesOf DEF AgreeInv
  <2>4. CASE at \in {7, 8, 9} /\ Len(left) = 1
    <3>1. \A f \in Writes(at) : files'[f] = "whole" /\ from'[f] = snap
      BY <1>0, <1>7, <2>4, LastWrite
    <3>2. \A k \in 7 .. at - 1 : \A f \in Writes(k) : files'[f] = files[f] /\ from'[f] = from[f]
      BY <1>0, <1>7, <2>4, WriteTo DEF Number
    <3>3. \A k \in {7, 8, 9} : (Passed(k)' <=> k <= at) /\ (Passed(k) <=> k < at)
      BY <2>1, <2>4 DEF Number
    <3>4. at \in {8, 9} => snap = from["openapi.json"]
      BY <1>0, <1>7 DEF TurnInv, Write
    <3>. QED  BY <1>0, <2>4, <3>1, <3>2, <3>3, <3>4, WritesOf DEF AgreeInv
  <2>. QED  BY <2>2, <2>3, <2>4
<1>8. ASSUME NEW s \in Step, Fail(s) PROVE AgreeInv'
  BY <1>8, EndOf DEF Fail, AgreeInv, Number
<1>9. CASE Cut
  BY <1>9, EndOf DEF Cut, AgreeInv, Number
<1>10. CASE UNCHANGED vars
  BY <1>1, <1>10 DEF vars, Passed
<1>. QED  BY <1>2, <1>3, <1>4, <1>5, <1>6, <1>7, <1>8, <1>9, <1>10, SourceSteps DEF Next

\* And what the scaffold has still to write was never written.
LEMMA ScaffoldNext == RunInv /\ [Next]_vars => ScaffoldInv'
<1> SUFFICES ASSUME RunInv, [Next]_vars PROVE ScaffoldInv'
  OBVIOUS
<1>0. RunTypeOK /\ ScaffoldInv /\ TurnInv /\ 2 \in Number
  BY DEF RunInv, Number
<1>1. ASSUME NEW s \in Source, Changes(s) PROVE ScaffoldInv'
  BY <1>0, <1>1 DEF Changes, ScaffoldInv, Passed
<1>2. ASSUME NEW f \in Edited, EditFrontend(f) PROVE ScaffoldInv'
  BY <1>0, <1>2 DEF EditFrontend, ScaffoldInv, Passed
<1>3. CASE Begin
  BY <1>0, <1>3 DEF Begin, ScaffoldInv, Passed
<1>4. ASSUME NEW s \in Step, Skip(s) PROVE ScaffoldInv'
  <2>1. /\ at \in Number /\ s = Steps[at] /\ left' = <<>> /\ dir' = dir /\ from' = from
        /\ (Passed(2) <=> 2 < at) /\ (Passed(2)' <=> 2 <= at)
        /\ at' # at /\ (at' = 2 => at = 1)
    BY <1>0, <1>4, Entered, ProceedTo DEF Skip
  <2>2. at = 2 => dir
    BY <1>4, <2>1, NothingToDo DEF Skip
  <2>3. Passed(2)' => dir'
    BY <1>0, <2>1, <2>2 DEF ScaffoldInv, Number
  <2>. QED  BY <1>0, <2>1, <2>3 DEF ScaffoldInv, Range
<1>5. ASSUME NEW s \in Step, Read(s) PROVE ScaffoldInv'
  <2>1. /\ at \in Number /\ s = Steps[at] /\ left' = s.writes /\ at' = at /\ from' = from
        /\ Passed(2)' <=> Passed(2)
    BY <1>0, <1>5, Entered DEF Read, Passed
  <2>2. s = runScaffoldFrontend <=> at = 2
    BY <2>1, StepList, Distinct DEF Number
  <2>3. dir' = (dir \/ at = 2)
    BY <1>5, <2>2 DEF Read
  <2>4. at = 2 => ~dir
    BY <1>5, <2>1, NothingToDo DEF Read
  <2>5. at = 2 => /\ \A f \in Range(left') : from'[f] = <<>>
                  /\ \A i, j \in DOMAIN left' : left'[i] = left'[j] => i = j
    BY <1>0, <2>1, <2>2, <2>4, WriteOrder DEF ScaffoldInv, FrontendFile
  <2>. QED  BY <1>0, <2>1, <2>3, <2>5 DEF ScaffoldInv, RunTypeOK
<1>6. CASE Write
  <2>1. /\ at \in Number /\ (Passed(2) <=> 2 < at)
        /\ IF Len(left) = 1 THEN (Passed(2)' <=> 2 <= at) /\ (at' = 2 => at = 1) /\ left' = <<>>
           ELSE (Passed(2)' <=> Passed(2)) /\ at' = at /\ left' = Tail(left)
    BY <1>0, <1>6, Writing, ProceedTo DEF Write, Passed
  <2>2. at >= 2 => dir
    BY <1>0, <1>6, <2>1 DEF ScaffoldInv, Number, Write
  <2>3. Head(left) \in Writes(at)
    BY <1>0, <1>6, WriteTo
  <2>4. ~dir => \A f \in FrontendFile : from'[f] = <<>>
    <3>1. at # 2 => \A f \in FrontendFile : from'[f] = from[f]
      BY <1>0, <1>6, WriteTo, FrontendFiles
    <3>. QED  BY <1>0, <2>1, <2>2, <3>1 DEF ScaffoldInv, Number
  <2>5. CASE Len(left) = 1
    BY <1>6, <2>1, <2>2, <2>4, <2>5 DEF ScaffoldInv, Write, Number, Range
  <2>6. CASE Len(left) # 1
    <3>1. left \in Seq(File) /\ left # <<>>
      BY <1>0, <1>6 DEF RunTypeOK, Write
    <3>2. \A i \in DOMAIN Tail(left) : i + 1 \in DOMAIN left /\ Tail(left)[i] = left[i + 1] /\ i \in Nat
      BY <3>1
    <3>3. 1 \in DOMAIN left /\ Head(left) = left[1]
      BY <3>1
    <3>4. at = 2 => \A i, j \in DOMAIN Tail(left) : Tail(left)[i] = Tail(left)[j] => i = j
      BY <1>0, <3>2 DEF ScaffoldInv
    <3>5. at = 2 => \A f \in Range(Tail(left)) : f # Head(left) /\ f \in Range(left)
      <4> SUFFICES ASSUME at = 2, NEW i \in DOMAIN Tail(left)
                   PROVE  Tail(left)[i] # Head(left) /\ Tail(left)[i] \in Range(left)
        BY DEF Range
      <4>1. i + 1 # 1
        BY <3>2
      <4>. QED  BY <1>0, <3>2, <3>3, <4>1 DEF ScaffoldInv, Range
    <3>6. Range(left) \subseteq File
      BY <3>1 DEF Range
    <3>7. at = 2 => \A f \in Range(Tail(left)) : from'[f] = <<>>
      BY <1>0, <1>6, <3>5, <3>6, WriteTo DEF ScaffoldInv
    <3>8. left' = Tail(left) /\ at' = at /\ dir' = dir
      BY <1>6, <2>1, <2>6 DEF Write
    <3>9. Passed(2)' \/ (at' = 2 /\ left' # <<>>) => dir'
      BY <2>1, <2>2, <2>6, <3>8 DEF Number
    <3>. QED  BY <2>4, <3>4, <3>7, <3>8, <3>9 DEF ScaffoldInv, Range
  <2>. QED  BY <2>5, <2>6
<1>7. ASSUME NEW s \in Step, Fail(s) PROVE ScaffoldInv'
  BY <1>0, <1>7, EndOf DEF Fail, ScaffoldInv
<1>8. CASE Cut
  BY <1>0, <1>8, EndOf DEF Cut, ScaffoldInv
<1>9. CASE UNCHANGED vars
  BY <1>0, <1>9 DEF vars, ScaffoldInv, Passed
<1>. QED  BY <1>1, <1>2, <1>3, <1>4, <1>5, <1>6, <1>7, <1>8, <1>9, SourceSteps DEF Next

LEMMA InitRunInv == Init => RunInv
<1> SUFFICES ASSUME Init PROVE RunInv
  OBVIOUS
<1> USE DEF Init
<1>1. \A k : ~Passed(k)
  BY DEF Passed
<1>2. src \in [Source -> Contents]
  BY DEF Contents
<1>3. FrontendFile \subseteq File
  BY FrontendFiles, OneWriter DEF Number
<1>4. RunTypeOK
  <2>1. left \in Seq(File) /\ left = <<>>
    OBVIOUS
  <2>2. files \in [File -> {"whole", "torn", "own", "no"}] /\ from = [f \in File |-> from[f]]
    OBVIOUS
  <2>. QED  BY <1>2, <2>1, <2>2 DEF RunTypeOK
<1>5. OwnInv /\ TurnInv
  BY DEF OwnInv, TurnInv
<1>6. MadeInv /\ AgreeInv
  BY <1>1 DEF MadeInv, AgreeInv
<1>7. ScaffoldInv
  BY <1>1, <1>3 DEF ScaffoldInv
<1>. QED  BY <1>4, <1>5, <1>6, <1>7 DEF RunInv

\* In every reachable state the files are what the turns of the generators so far
\* have made of them, whatever was edited and wherever runs were cut off.
THEOREM RunInvariance == Spec => []RunInv
<1>1. RunInv /\ [Next]_vars => RunInv'
  BY NextRunTypeOK, OwnNext, MadeNext, TurnNext, AgreeNext, ScaffoldNext DEF RunInv
<1>. QED  BY InitRunInv, <1>1, PTL DEF Spec

-----------------------------------------------------------------------------
(***************************************************************************)
(* What follows from it.                                                   *)
(***************************************************************************)

\* A run that succeeds leaves every generated file made from the sources as they
\* are, whatever earlier runs left half done, but for those changed meanwhile.
THEOREM FreshAfterSuccess == Spec => []Fresh
<1>1. RunInv => Fresh
  <2> SUFFICES ASSUME RunInv, Succeeded, NEW s \in Step \ {runScaffoldFrontend}
               PROVE  \/ s.reads \intersect touched # {}
                      \/ s = runMigrationsGen /\ src["migrations"] = "none"
                      \/ s = runTestsGen /\ src["tests"] = "none"
                      \/ s = runSQLC /\ src["queries"] = "none"
                      \/ \A f \in Range(s.writes) :
                           files[f] = "whole" /\ from[f] = [r \in s.reads |-> src[r]]
    BY DEF Fresh
  <2>1. PICK k \in Number : s = Steps[k]
    BY Numbered
  <2>2. k # 2
    BY <2>1, StepList
  <2>3. Passed(k)
    BY DEF Succeeded, Passed
  <2>4. Settled(k)
    BY <2>2, <2>3 DEF RunInv, MadeInv
  <2>. QED  BY <2>1, <2>4, StepList DEF Settled, Excused, Current, Reads, Writes
<1>. QED  BY <1>1, RunInvariance, PTL

\* A run that succeeds leaves handlers, document and clients of one API, even if
\* the API was edited while they were made.
THEOREM OneAPI == Spec => []ClientsAgree
<1>1. RunInv => ClientsAgree
  BY DEF RunInv, AgreeInv, ClientsAgree, Succeeded, Passed
<1>. QED  BY <1>1, RunInvariance, PTL

\* No step takes a file of the frontend from the developer but one of a scaffold
\* that is still being made and has never written the file.
THEOREM FrontendIsTheDevelopers == Spec => OwnFilesKept
<1>1. RunInv /\ [Next]_vars =>
        [\A f \in FrontendFile :
           files[f] = "own" /\ files'[f] # "own" => f \in Range(left) /\ from[f] = <<>>]_vars
  <2> SUFFICES ASSUME RunInv, [Next]_vars, NEW f \in FrontendFile, files[f] = "own", files'[f] # "own"
               PROVE  f \in Range(left) /\ from[f] = <<>>
    OBVIOUS
  <2>0. RunTypeOK /\ TurnInv /\ ScaffoldInv /\ 2 \in Number
    BY DEF RunInv, Number
  <2>1. f \in File /\ f \in Writes(2)
    BY <2>0, FrontendFiles, OneWriter
  <2>2. left # <<>> /\ f = Head(left)
    BY <2>0, <2>1 DEF Next, Edit, GoGet, EditFrontend, Begin, Skip, Read, Write, Fail, Cut, vars, RunTypeOK
  <2>3. at \in Number /\ f \in Range(left) /\ f \in Writes(at)
    BY <2>0, <2>2, Writing DEF TurnInv
  <2>4. at = 2
    BY <2>0, <2>1, <2>3, OneWriter
  <2>. QED  BY <2>0, <2>3, <2>4 DEF ScaffoldInv
<1>. QED  BY <1>1, RunInvariance, PTL DEF OwnFilesKept, Spec

-----------------------------------------------------------------------------
(***************************************************************************)
(* runEndpointsGen: the invariant is that of a search over a work list.     *)
(***************************************************************************)

\* Nothing is on the list before the source has been scanned, or if it is refused.
Idle == stage \in {"scan", "refused"} => queue = {} /\ referenced = {}

\* What has been met, or is on the list, holds the roots and is closed but for what
\* is on the list; and it holds only what the roots lead to.
Searching ==
  stage \in {"collect", "written"} =>
    /\ Names(Roots) \subseteq queue \union referenced
    /\ \A s \in referenced : Follow(s) \subseteq queue \union referenced
    /\ queue \union referenced \subseteq LeadsTo(Names(Roots))

\* The document has a schema for each struct that was met, and an operation for
\* each place.
Written ==
  stage = "written" =>
    /\ queue = {}
    /\ schemas = [s \in referenced |->
                    {<<CodegenKey(f), FieldSchema(f.type)>> : f \in Listed(s)}]
    /\ paths = [k \in Places |-> Operation(LastAt(k))]

TypeOK ==
  /\ project \in Project
  /\ stage \in {"scan", "refused", "collect", "written"}
  /\ queue \subseteq Struct /\ referenced \subseteq Struct

IInv == TypeOK /\ Idle /\ Searching /\ Written

-----------------------------------------------------------------------------
(***************************************************************************)
(* Facts about the operators.                                              *)
(***************************************************************************)

\* All that is derived from the project stays as it is.
LEMMA SameProject ==
  ASSUME UNCHANGED project
  PROVE  /\ Roots' = Roots /\ endpoints' = endpoints /\ Places' = Places
         /\ \A k : LastAt(k)' = LastAt(k)
         /\ \A s : Listed(s)' = Listed(s) /\ Follow(s)' = Follow(s)
         /\ \A S : LeadsTo(S)' = LeadsTo(S)
         /\ \A e : Operation(e)' = Operation(e)
<1>1. structs' = structs /\ endpoints' = endpoints
  BY DEF structs, endpoints
<1>2. Roots' = Roots /\ Places' = Places
  BY <1>1 DEF Roots, Places
<1>3. \A s : Listed(s)' = Listed(s)
  BY <1>1 DEF Listed
<1>4. \A s : Follow(s)' = Follow(s)
  BY <1>3 DEF Follow
<1>5. \A S : LeadsTo(S)' = LeadsTo(S)
  BY <1>1 DEF LeadsTo
<1>6. \A k : LastAt(k)' = LastAt(k)
  BY <1>1 DEF LastAt, LastOf
<1>7. \A e : Operation(e)' = Operation(e)
  BY <1>3 DEF Operation, RequestContent, ResponseContent, Content
<1>. QED  BY <1>1, <1>2, <1>3, <1>4, <1>5, <1>6, <1>7

\* The names of types are names of structs.
LEMMA NamesType == \A S : Names(S) \subseteq Struct
BY DEF Names, IsStruct

\* baseType cuts wraps off, and the base stays.
LEMMA BaseKept ==
  ASSUME NEW t \in Type PROVE Base(t).base = t.base
BY DEF Base, Type

\* Fields have types.
LEMMA FieldType ==
  ASSUME TypeOK, NEW s \in Struct, NEW f \in Listed(s) PROVE f \in structs[s] /\ f.type \in Type
BY OpenAPIAssumption DEF TypeOK, Listed, structs

\* What a struct's fields lead to, the type leads to that leads to the struct.
LEMMA FollowLeads ==
  ASSUME TypeOK, NEW S, NEW s \in LeadsTo(S) PROVE Follow(s) \subseteq LeadsTo(S)
<1>1. s \in Struct
  BY DEF LeadsTo
<1> SUFFICES ASSUME NEW r \in Follow(s),
                    NEW C \in SUBSET Struct, S \subseteq C,
                    \A c \in C : {f.type.base : f \in structs[c]} \intersect Struct \subseteq C
             PROVE  r \in C
  BY NamesType DEF LeadsTo, Follow
<1>2. s \in C
  BY DEF LeadsTo
<1>3. PICK f \in Listed(s) : r = Base(f.type).base /\ r \in Struct
  BY DEF Follow, Names, IsStruct
<1>4. r = f.type.base /\ f \in structs[s]
  BY <1>1, <1>3, FieldType, BaseKept
<1>. QED  BY <1>2, <1>3, <1>4

\* Roots lead to themselves.
LEMMA RootsLead ==
  ASSUME NEW S \in SUBSET Struct PROVE S \subseteq LeadsTo(S)
BY DEF LeadsTo

\* A field's schema refers to nothing but what the field leads to.
LEMMA FieldRefers ==
  ASSUME TypeOK, NEW s \in Struct, NEW f \in Listed(s)
  PROVE  FieldSchema(f.type).ref \subseteq Follow(s)
<1>1. CASE IsStruct(Base(f.type))
  <2>1. FieldSchema(f.type).ref = {f.type.base}
    BY <1>1 DEF FieldSchema, Ref
  <2>2. Base(f.type).base \in Follow(s)
    BY <1>1 DEF Follow, Names
  <2>. QED  BY <2>1, <2>2, FieldType, BaseKept
<1>2. CASE ~IsStruct(Base(f.type))
  BY <1>2 DEF FieldSchema, Plain
<1>. QED  BY <1>1, <1>2

\* An operation refers to nothing but the roots.
LEMMA ContentRefers ==
  ASSUME NEW e \in endpoints, NEW c \in RequestContent(e) \union ResponseContent(e)
  PROVE  c.ref \subseteq Names(Roots)
<1>1. ~IsRaw(e) /\ (c \in Content(e.req) \/ c \in Content(e.resp))
  BY DEF RequestContent, ResponseContent
<1>2. e.req \in Roots /\ e.resp \in Roots
  BY <1>1 DEF Roots
<1>3. ASSUME NEW t \in Roots, c \in Content(t) PROVE c.ref \subseteq Names(Roots)
  BY <1>3 DEF Content, Ref, Names
<1>. QED  BY <1>1, <1>2, <1>3

\* Of two endpoints at one place, neither is registered without a panic: every
\* endpoint is the last one at its place, as codegen reads it and as it is.
LEMMA AloneAtItsPlace ==
  ASSUME TypeOK, ~NewMuxPanics, NEW e \in endpoints
  PROVE  /\ LastAt(At(e)) = e
         /\ LastOf({f \in endpoints : ServedAt(f) = ServedAt(e)}) = e
<1>1. ASSUME NEW f \in endpoints, f.path = e.path /\ f.method = e.method PROVE f = e
  <2>1. Conflict(e, f)
    BY <1>1 DEF Conflict, Overlap, Within
  <2>. QED  BY <2>1 DEF NewMuxPanics
<1>2. {f \in endpoints : At(f) = At(e)} = {e}
  BY <1>1 DEF At
<1>3. {f \in endpoints : ServedAt(f) = ServedAt(e)} = {e}
  BY <1>1 DEF ServedAt
<1>4. LastOf({e}) = e
  <2>1. e.name <= e.name
    BY OpenAPIAssumption DEF TypeOK, endpoints
  <2>. QED  BY <2>1 DEF LastOf
<1>5. LastAt(At(e)) = LastOf({f \in endpoints : At(f) = At(e)})
  BY DEF LastAt
<1>. QED  BY <1>2, <1>3, <1>4, <1>5

-----------------------------------------------------------------------------
(***************************************************************************)
(* The invariant is inductive.                                             *)
(***************************************************************************)

\* At first nothing has been read.
LEMMA InitInv == DocInit => IInv
BY DEF DocInit, IInv, TypeOK, Idle, Searching, Written

\* The list starts with the roots.
LEMMA ScanInv ==
  ASSUME IInv, Scan PROVE IInv'
<1>1. /\ stage = "scan" /\ project' = project /\ referenced' = {} /\ TypeOK /\ queue = {}
  BY DEF Scan, IInv, Idle
<1>2. CASE stage' = "refused" /\ UNCHANGED queue
  BY <1>1, <1>2 DEF IInv, TypeOK, Idle, Searching, Written
<1>3. CASE stage' = "collect" /\ queue' = Names(Roots)
  <2>1. TypeOK' /\ Idle' /\ Written'
    BY <1>1, <1>3, NamesType DEF TypeOK, Idle, Written
  <2>2. Names(Roots)' = Names(Roots)
    BY <1>1, SameProject
  <2>3. LeadsTo(Names(Roots))' = LeadsTo(Names(Roots))
    BY <1>1, <2>2, SameProject
  <2>4. Names(Roots) \subseteq LeadsTo(Names(Roots))
    BY NamesType, RootsLead
  <2>5. Searching'
    BY <1>1, <1>3, <2>2, <2>3, <2>4 DEF Searching
  <2>. QED  BY <2>1, <2>5 DEF IInv
<1>. QED  BY <1>2, <1>3 DEF Scan

\* What a struct leads to is put on the list as the struct is taken from it.
LEMMA VisitInv ==
  ASSUME IInv, NEW s \in Struct, Visit(s) PROVE IInv'
<1>1. /\ s \in queue /\ referenced' = referenced \union {s}
      /\ queue' = (queue \ {s}) \union Follow(s) /\ project' = project /\ stage' = stage
      /\ TypeOK /\ stage = "collect" /\ Searching
  BY DEF Visit, IInv, TypeOK, Idle, Written
<1>2. /\ Follow(s) \subseteq LeadsTo(Names(Roots)) /\ Follow(s) \subseteq Struct
      /\ queue' \union referenced' = queue \union referenced \union Follow(s)
  BY <1>1, FollowLeads, NamesType DEF Searching, Follow
<1>3. TypeOK' /\ Idle' /\ Written'
  BY <1>1, <1>2 DEF TypeOK, Idle, Written
<1>4. /\ Names(Roots)' = Names(Roots) /\ LeadsTo(Names(Roots))' = LeadsTo(Names(Roots))
      /\ \A r : Follow(r)' = Follow(r)
  BY <1>1, SameProject
<1>5. Searching'
  BY <1>1, <1>2, <1>4 DEF Searching
<1>. QED  BY <1>3, <1>5 DEF IInv

\* A struct that has been met is only taken from the list.
LEMMA PassInv ==
  ASSUME IInv, NEW s \in Struct, Pass(s) PROVE IInv'
<1>1. /\ s \in queue /\ s \in referenced /\ referenced' = referenced
      /\ queue' = queue \ {s} /\ project' = project /\ stage' = stage
      /\ TypeOK /\ stage = "collect" /\ Searching
  BY DEF Pass, IInv, TypeOK, Idle, Written
<1>2. queue' \union referenced' = queue \union referenced
  BY <1>1
<1>3. TypeOK' /\ Idle' /\ Written'
  BY <1>1 DEF TypeOK, Idle, Written
<1>4. /\ Names(Roots)' = Names(Roots) /\ LeadsTo(Names(Roots))' = LeadsTo(Names(Roots))
      /\ \A r : Follow(r)' = Follow(r)
  BY <1>1, SameProject
<1>5. Searching'
  BY <1>1, <1>2, <1>4 DEF Searching
<1>. QED  BY <1>3, <1>5 DEF IInv

\* The document is written from what has been met.
LEMMA EmitInv ==
  ASSUME IInv, Emit PROVE IInv'
<1>1. /\ queue = {} /\ queue' = queue /\ referenced' = referenced /\ project' = project
      /\ stage = "collect" /\ stage' = "written" /\ TypeOK /\ Searching
      /\ schemas' = [s \in referenced |->
                       {<<CodegenKey(f), FieldSchema(f.type)>> : f \in Listed(s)}]
      /\ paths' = [k \in Places |-> Operation(LastAt(k))]
  BY DEF Emit, IInv
<1>2. /\ Names(Roots)' = Names(Roots) /\ LeadsTo(Names(Roots))' = LeadsTo(Names(Roots))
      /\ \A r : Follow(r)' = Follow(r) /\ Listed(r)' = Listed(r)
      /\ Places' = Places
      /\ \A k : LastAt(k)' = LastAt(k)
      /\ \A e : Operation(e)' = Operation(e)
  BY <1>1, SameProject
<1>3. TypeOK' /\ Idle' /\ Searching'
  BY <1>1, <1>2 DEF TypeOK, Idle, Searching
<1>4. Written'
  BY <1>1, <1>2 DEF Written
<1>. QED  BY <1>3, <1>4 DEF IInv

\* Every step keeps the invariant.
LEMMA NextInv == IInv /\ [DocNext]_docVars => IInv'
<1> SUFFICES ASSUME IInv, [DocNext]_docVars PROVE IInv'
  OBVIOUS
<1>1. CASE UNCHANGED docVars
  <2>1. /\ Names(Roots)' = Names(Roots) /\ LeadsTo(Names(Roots))' = LeadsTo(Names(Roots))
        /\ \A r : Follow(r)' = Follow(r) /\ Listed(r)' = Listed(r)
        /\ Places' = Places
        /\ \A k : LastAt(k)' = LastAt(k)
        /\ \A e : Operation(e)' = Operation(e)
    BY <1>1, SameProject DEF docVars
  <2>. QED  BY <1>1, <2>1 DEF docVars, IInv, TypeOK, Idle, Searching, Written
<1>. QED  BY <1>1, ScanInv, EmitInv, VisitInv, PassInv DEF DocNext

-----------------------------------------------------------------------------
(***************************************************************************)
(* The theorems.                                                           *)
(***************************************************************************)

\* The invariant holds in every reachable state.
THEOREM SearchInvariance == DocSpec => []IInv
BY InitInv, NextInv, PTL DEF DocSpec

\* Every reference in the document that codegen writes has its schema there, and
\* every schema is one that a request or a response leads to, whatever contains
\* what.
THEOREM ReferencesResolve == DocSpec => []Resolves
<1>1. ASSUME IInv, Emitted
      PROVE  /\ \A s \in DOMAIN schemas : \A p \in schemas[s] : p[2].ref \subseteq DOMAIN schemas
             /\ \A e \in endpoints : \A c \in RequestContent(e) \union ResponseContent(e) :
                  c.ref \subseteq DOMAIN schemas
             /\ DOMAIN schemas \subseteq LeadsTo(Names(Roots))
  <2>1. /\ DOMAIN schemas = referenced /\ queue = {} /\ TypeOK /\ referenced \subseteq Struct
        /\ \A s \in referenced :
             schemas[s] = {<<CodegenKey(f), FieldSchema(f.type)>> : f \in Listed(s)}
        /\ Names(Roots) \subseteq referenced
        /\ \A s \in referenced : Follow(s) \subseteq referenced
        /\ referenced \subseteq LeadsTo(Names(Roots))
    BY <1>1 DEF IInv, TypeOK, Searching, Written, Emitted
  <2>2. ASSUME NEW s \in referenced, NEW p \in schemas[s] PROVE p[2].ref \subseteq referenced
    <3>1. PICK f \in Listed(s) : p = <<CodegenKey(f), FieldSchema(f.type)>>
      BY <2>1
    <3>2. p[2] = FieldSchema(f.type)
      BY <3>1
    <3>. QED  BY <2>1, <3>2, FieldRefers
  <2>. QED  BY <2>1, <2>2, ContentRefers
<1>2. IInv => Resolves
  BY <1>1 DEF Resolves
<1>. QED  BY <1>2, SearchInvariance, PTL

-----------------------------------------------------------------------------
(***************************************************************************)
(* The schemas.  Both documents are compared to a depth, by functions that *)
(* are recursive on it; what is shown of them is shown of the least depth  *)
(* at which it would fail.                                                 *)
(***************************************************************************)

\* Of natural numbers one is the least.
LEMMA LeastNumber ==
  ASSUME NEW T \in SUBSET Nat, T # {} PROVE \E x \in T : \A y \in T : x <= y
<1>. DEFINE R == OpToRel(<, Nat)
<1>1. \E x \in T : \A y \in T : ~ (<<y, x>> \in R)
  <2>1. IsWellFoundedOn(R, Nat)
    BY NatLessThanWellFounded
  <2>. HIDE DEF R
  <2>. QED  BY <2>1, WFMin
<1>2. \A x, y \in Nat : y < x => <<y, x>> \in R
  BY DEF OpToRel
<1>3. \A x, y \in T : x <= y \/ y < x
  OBVIOUS
<1>. HIDE DEF R
<1>. QED  BY <1>1, <1>2, <1>3

\* What the server says to depth d, given g for the depths below.
ServedLevel(g, d) ==
  [t \in Type |->
     IF IsArray(t) THEN Shape(Slices(t.wraps), "object", {})
     ELSE IF t.base \in Struct
       THEN Shape(Slices(t.wraps), "object",
              IF d = 0 THEN {}
              ELSE {<<RuntimeKey(f), g[d - 1][f.type]>> : f \in {h \in structs[t.base] : h.exported}})
       ELSE Shape(Slices(t.wraps),
              CASE t.base = "time" -> "object" [] t.base = "byte" -> "int" [] t.base = "alias" -> "string"
                [] OTHER -> t.base, {})]

\* What codegen's document says.
WrittenLevel(g, d) ==
  [s \in DOMAIN schemas |->
     {<<p[1], IF p[2].ref = {} THEN Shape(p[2].arrays, p[2].is, {})
              ELSE Shape(p[2].arrays, "object",
                     IF d = 0 THEN {} ELSE g[d - 1][CHOOSE r \in p[2].ref : TRUE])>> :
        p \in schemas[s]}]

\* There are functions that are as the recursion says.
LEMMA ServedExists ==
  ASSUME NEW n \in Nat PROVE \E g : g = [d \in 0 .. n |-> ServedLevel(g, d)]
<1>. DEFINE Solved(m) == \E g : g = [d \in 0 .. m |-> ServedLevel(g, d)]
            Unsolved == {m \in Nat : ~Solved(m)}
<1>1. ASSUME NEW g, NEW h, NEW d, d = 0 \/ g[d - 1] = h[d - 1]
      PROVE  ServedLevel(g, d) = ServedLevel(h, d)
  BY <1>1 DEF ServedLevel
<1>2. Solved(0)
  <2>. DEFINE g == [d \in 0 .. 0 |-> ServedLevel(<<>>, d)]
  <2>1. g = [d \in 0 .. 0 |-> ServedLevel(g, d)]
    BY <1>1
  <2>. QED  BY <2>1
<1>3. ASSUME NEW m \in Nat, m # 0, Solved(m - 1) PROVE Solved(m)
  <2>1. PICK g : g = [d \in 0 .. m - 1 |-> ServedLevel(g, d)]
    BY <1>3
  <2>. DEFINE h == [d \in 0 .. m |-> ServedLevel(g, d)]
  <2>2. ASSUME NEW d \in 0 .. m PROVE ServedLevel(g, d) = ServedLevel(h, d)
    <3>1. d # 0 => d - 1 \in 0 .. m - 1 /\ d - 1 \in 0 .. m
      BY <1>3
    <3>2. d # 0 => g[d - 1] = h[d - 1]
      BY <2>1, <3>1
    <3>. QED  BY <1>1, <3>2
  <2>3. h = [d \in 0 .. m |-> ServedLevel(h, d)]
    BY <2>2
  <2>. QED  BY <2>3
<1>. HIDE DEF Solved
<1>4. Unsolved = {}
  <2> SUFFICES ASSUME Unsolved # {} PROVE FALSE
    OBVIOUS
  <2>1. PICK m \in Unsolved : \A k \in Unsolved : m <= k
    BY LeastNumber
  <2>2. m \in Nat /\ ~Solved(m) /\ m # 0
    BY <1>2, <2>1
  <2>3. m - 1 \in Nat /\ ~ (m <= m - 1)
    BY <2>2
  <2>4. Solved(m - 1)
    BY <2>1, <2>3
  <2>. QED  BY <1>3, <2>2, <2>4
<1>5. Solved(n)
  BY <1>4
<1>. QED  BY <1>5 DEF Solved

LEMMA WrittenExists ==
  ASSUME NEW n \in Nat PROVE \E g : g = [d \in 0 .. n |-> WrittenLevel(g, d)]
<1>. DEFINE Solved(m) == \E g : g = [d \in 0 .. m |-> WrittenLevel(g, d)]
            Unsolved == {m \in Nat : ~Solved(m)}
<1>1. ASSUME NEW g, NEW h, NEW d, d = 0 \/ g[d - 1] = h[d - 1]
      PROVE  WrittenLevel(g, d) = WrittenLevel(h, d)
  BY <1>1 DEF WrittenLevel
<1>2. Solved(0)
  <2>. DEFINE g == [d \in 0 .. 0 |-> WrittenLevel(<<>>, d)]
  <2>1. g = [d \in 0 .. 0 |-> WrittenLevel(g, d)]
    BY <1>1
  <2>. QED  BY <2>1
<1>3. ASSUME NEW m \in Nat, m # 0, Solved(m - 1) PROVE Solved(m)
  <2>1. PICK g : g = [d \in 0 .. m - 1 |-> WrittenLevel(g, d)]
    BY <1>3
  <2>. DEFINE h == [d \in 0 .. m |-> WrittenLevel(g, d)]
  <2>2. ASSUME NEW d \in 0 .. m PROVE WrittenLevel(g, d) = WrittenLevel(h, d)
    <3>1. d # 0 => d - 1 \in 0 .. m - 1 /\ d - 1 \in 0 .. m
      BY <1>3
    <3>2. d # 0 => g[d - 1] = h[d - 1]
      BY <2>1, <3>1
    <3>. QED  BY <1>1, <3>2
  <2>3. h = [d \in 0 .. m |-> WrittenLevel(h, d)]
    BY <2>2
  <2>. QED  BY <2>3
<1>. HIDE DEF Solved
<1>4. Unsolved = {}
  <2> SUFFICES ASSUME Unsolved # {} PROVE FALSE
    OBVIOUS
  <2>1. PICK m \in Unsolved : \A k \in Unsolved : m <= k
    BY LeastNumber
  <2>2. m \in Nat /\ ~Solved(m) /\ m # 0
    BY <1>2, <2>1
  <2>3. m - 1 \in Nat /\ ~ (m <= m - 1)
    BY <2>2
  <2>4. Solved(m - 1)
    BY <2>1, <2>3
  <2>. QED  BY <1>3, <2>2, <2>4
<1>5. Solved(n)
  BY <1>4
<1>. QED  BY <1>5 DEF Solved

\* So the two functions are.
LEMMA ServedShapes ==
  \A d \in 0 .. Depth + 1 : RuntimeShape[d] = ServedLevel(RuntimeShape, d)
<1>1. \E g : g = [d \in 0 .. Depth + 1 |-> ServedLevel(g, d)]
  BY ServedExists, OpenAPIAssumption
<1>2. RuntimeShape = [d \in 0 .. Depth + 1 |-> ServedLevel(RuntimeShape, d)]
  BY <1>1 DEF RuntimeShape, ServedLevel
<1>. QED  BY <1>2

LEMMA WrittenShapes ==
  \A d \in 0 .. Depth : CodegenShape[d] = WrittenLevel(CodegenShape, d)
<1>1. \E g : g = [d \in 0 .. Depth |-> WrittenLevel(g, d)]
  BY WrittenExists, OpenAPIAssumption
<1>2. CodegenShape = [d \in 0 .. Depth |-> WrittenLevel(CodegenShape, d)]
  BY <1>1 DEF CodegenShape, WrittenLevel
<1>. QED  BY <1>2

\* Without arrays codegen spells a type as it is, and counts what the server does.
LEMMA NoArray ==
  ASSUME NEW t \in Type, ~IsArray(t)
  PROVE  /\ \A i \in DOMAIN t.wraps : t.wraps[i] \in {"[]", "*"}
         /\ Spelled(t.wraps) = t.wraps /\ Slices(t.wraps) = Arrays(t.wraps)
<1>1. PICK n \in 0 .. 2 : t.wraps \in [1 .. n -> Wrap]
  BY DEF Type
<1>2. \A i \in 1 .. n : t.wraps[i] # "[n]"
  BY <1>1 DEF IsArray, Range
<1>3. \A i \in DOMAIN t.wraps : t.wraps[i] \in {"[]", "*"}
  BY <1>1, <1>2 DEF Wrap
<1>4. Spelled(t.wraps) = t.wraps
  BY <1>1, <1>3 DEF Spelled
<1>5. {i \in DOMAIN t.wraps : "[n]" \notin {t.wraps[j] : j \in 1 .. i} /\ t.wraps[i] = "[]"}
        = {i \in DOMAIN t.wraps : t.wraps[i] # "*"}
  <2>1. \A i \in 1 .. n : "[n]" \notin {t.wraps[j] : j \in 1 .. i}
    BY <1>2
  <2>. QED  BY <1>1, <1>3, <2>1
<1>. QED  BY <1>3, <1>4, <1>5 DEF Slices, Arrays

\* What a type is with which codegen gets as far as to a struct.
LEMMA StructBehindWraps ==
  ASSUME NEW t \in Type, IsStruct(Base(t)), ~IsArray(t)
  PROVE  /\ t.base \in Struct
         /\ Arrays(t.wraps) = IF t.wraps # <<>> /\ t.wraps[1] # "*" THEN 1 ELSE 0
<1>1. t.base \in Struct /\ TrimOne(TrimOne(t.wraps, "[]"), "*") = <<>>
  BY NoArray DEF IsStruct, Base, Type
<1>2. PICK n \in 0 .. 2 : t.wraps \in [1 .. n -> {"[]", "*"}]
  BY NoArray DEF Type
<1>. DEFINE w == t.wraps
            marks == {i \in DOMAIN w : w[i] # "*"}
<1>3. w \in Seq({"[]", "*"}) /\ Len(w) = n /\ DOMAIN w = 1 .. n
  BY <1>2
<1>. HIDE DEF w
<1>7. \A q \in Seq({"[]", "*"}) : Len(q) # 0 => q # <<>>
  BY EmptySeq
<1>. USE DEF w
<1>4. CASE n = 0
  <2>1. DOMAIN w = {} /\ w = <<>>
    BY <1>3, <1>4
  <2>2. marks = {}
    BY <2>1
  <2>3. Arrays(w) = Cardinality(marks)
    BY DEF Arrays
  <2>4. Cardinality({}) = 0
    BY FS_EmptySet, Zenon
  <2>5. Arrays(w) = 0
    BY <2>2, <2>3, <2>4
  <2>. QED  BY <1>1, <2>1, <2>5
<1>5. CASE n = 1
  <2>1. w # <<>> /\ DOMAIN w = {1}
    <3>1. DOMAIN w = {1} /\ Len(w) # 0
      BY <1>3, <1>5
    <3>. QED  BY <1>3, <1>7, <3>1
  <2>2. Arrays(w) = Cardinality(marks)
    BY DEF Arrays
  <2>3. Cardinality({1}) = 1 /\ Cardinality({}) = 0
    <3>1. Cardinality({1}) = 1
      BY FS_Singleton, Zenon
    <3>2. Cardinality({}) = 0
      BY FS_EmptySet, Zenon
    <3>. QED  BY <3>1, <3>2
  <2>4. w[1] # "*" => marks = {1}
    BY <2>1
  <2>5. w[1] = "*" => marks = {}
    BY <2>1
  <2>6. w[1] # "*" => Arrays(w) = 1
    BY <2>2, <2>3, <2>4
  <2>7. w[1] = "*" => Arrays(w) = 0
    BY <2>2, <2>3, <2>5
  <2>8. w # <<>>
    BY <2>1
  <2>. HIDE DEF marks
  <2>. QED  BY <1>1, <2>6, <2>7, <2>8
<1>6. CASE n = 2
  <2>1. w # <<>> /\ Head(w) = w[1] /\ Tail(w) \in Seq({"[]", "*"}) /\ Len(Tail(w)) = 1 /\ Tail(w)[1] = w[2]
    <3>1. Len(w) = 2 /\ w # <<>>
      <4>1. Len(w) = 2
        BY <1>3, <1>6
      <4>2. Len(w) # 0
        BY <4>1
      <4>. QED  BY <1>3, <1>7, <4>1, <4>2, Zenon
    <3>2. Head(w) = w[1] /\ Tail(w) \in Seq({"[]", "*"})
      BY <1>3, <3>1
    <3>3. Len(Tail(w)) = 1
      BY <1>3, <3>1
    <3>4. Tail(w)[1] = w[2]
      BY <1>3, <3>1
    <3>. QED  BY <3>1, <3>2, <3>3, <3>4
  <2>2. Tail(w) # <<>> /\ Head(Tail(w)) = Tail(w)[1]
    <3>1. Tail(w) # <<>>
      <4>1. Len(Tail(w)) # 0
        BY <2>1
      <4>. QED  BY <1>7, <2>1, <4>1, Zenon
    <3>2. ASSUME NEW q \in Seq({"[]", "*"}) PROVE Head(q) = q[1]
      OBVIOUS
    <3>. QED  BY <2>1, <3>1, <3>2
  <2>3. w[1] = "[]"
    <3> SUFFICES ASSUME w[1] # "[]" PROVE FALSE
      OBVIOUS
    <3>1. TrimOne(w, "[]") = w
      BY <2>1 DEF TrimOne
    <3>. QED  BY <1>1, <2>1, <2>2, <3>1 DEF TrimOne
  <2>4. TrimOne(w, "[]") = Tail(w)
    BY <2>1, <2>3 DEF TrimOne
  <2>5. Head(Tail(w)) = "*"
    BY <1>1, <2>2, <2>4 DEF TrimOne
  <2>6. w[2] = "*"
    BY <2>1, <2>2, <2>5
  <2>7. marks = {1}
    BY <1>3, <1>6, <2>3, <2>6
  <2>. QED  BY <1>1, <2>1, <2>3, <2>7, FS_Singleton DEF Arrays
<1>. QED  BY <1>2, <1>4, <1>5, <1>6

\* A tame field's schema is the server's, if what it refers to is; at depth 0 it
\* is cut off.
LEMMA TameField ==
  ASSUME TypeOK, NEW s \in Struct, NEW f \in structs[s], Tame(f), NEW d \in 0 .. Depth
  PROVE  /\ CodegenKey(f) = RuntimeKey(f)
         /\ IF f.type.base \in Struct
              THEN /\ FieldSchema(f.type) = Ref(Arrays(f.type.wraps), f.type.base)
                   /\ f.type.base \in Follow(s)
                   /\ RuntimeShape[d][f.type] =
                        Shape(Arrays(f.type.wraps), "object",
                          IF d = 0 THEN {}
                          ELSE {<<RuntimeKey(g), RuntimeShape[d - 1][g.type]>> :
                                  g \in {h \in structs[f.type.base] : h.exported}})
              ELSE /\ FieldSchema(f.type) = Plain(Arrays(f.type.wraps), f.type.base)
                   /\ RuntimeShape[d][f.type] = Shape(Arrays(f.type.wraps), f.type.base, {})
<1>1. f \in Listed(s) /\ f.type \in Type
  BY OpenAPIAssumption DEF TypeOK, Listed, structs, Tame
<1>2. CodegenKey(f) = RuntimeKey(f)
  BY OpenAPIAssumption DEF TypeOK, structs, Tame, CodegenKey, RuntimeKey
<1>3. RuntimeShape[d] = ServedLevel(RuntimeShape, d)
  BY ServedShapes, OpenAPIAssumption
<1>6. ~IsArray(f.type) /\ Slices(f.type.wraps) = Arrays(f.type.wraps)
  BY <1>1, NoArray DEF Tame
<1>4. CASE f.type.base \in Struct
  <2>1. IsStruct(Base(f.type))
    BY <1>4 DEF Tame
  <2>2. FieldSchema(f.type) = Ref(Arrays(f.type.wraps), f.type.base)
    BY <1>1, <1>6, <2>1, StructBehindWraps DEF FieldSchema
  <2>3. f.type.base \in Follow(s)
    BY <1>1, <2>1, BaseKept DEF Follow, Names
  <2>4. ASSUME NEW g
        PROVE  ServedLevel(g, d)[f.type] =
                 Shape(Slices(f.type.wraps), "object",
                   IF d = 0 THEN {}
                   ELSE {<<RuntimeKey(h), g[d - 1][h.type]>> : h \in {i \in structs[f.type.base] : i.exported}})
    BY <1>1, <1>4, <1>6 DEF ServedLevel
  <2>5. RuntimeShape[d][f.type] =
          Shape(Arrays(f.type.wraps), "object",
            IF d = 0 THEN {}
            ELSE {<<RuntimeKey(h), RuntimeShape[d - 1][h.type]>> : h \in {i \in structs[f.type.base] : i.exported}})
    BY <1>3, <1>6, <2>4
  <2>. QED  BY <1>2, <1>4, <2>2, <2>3, <2>5
<1>5. CASE f.type.base \notin Struct
  <2>1. ~IsStruct(Base(f.type)) /\ f.type.base \in Basic
    BY <1>1, <1>5, BaseKept DEF IsStruct, Type
  <2>2. BasicSchema(f.type) = f.type.base
    BY <2>1 DEF BasicSchema, Tame
  <2>3. FieldSchema(f.type) = Plain(Arrays(f.type.wraps), f.type.base)
    BY <2>1, <2>2 DEF FieldSchema
  <2>4. RuntimeShape[d][f.type] = Shape(Arrays(f.type.wraps), f.type.base, {})
    BY <1>1, <1>3, <1>5, <1>6 DEF ServedLevel, Tame
  <2>. QED  BY <1>2, <1>5, <2>3, <2>4
<1>. QED  BY <1>4, <1>5

\* All that a type leads to is tame.
TameFrom(s) == \A r \in LeadsTo({s}) : \A f \in structs[r] : Tame(f)

\* The fields of a struct as the server describes them to depth d.
Served(s, d) == {<<RuntimeKey(f), RuntimeShape[d][f.type]>> : f \in {g \in structs[s] : g.exported}}

\* What a struct leads to is tame if the struct is.
LEMMA TameOnwards ==
  ASSUME TypeOK, NEW s \in Struct, TameFrom(s), NEW r \in Follow(s)
  PROVE  r \in Struct /\ TameFrom(r)
<1>1. s \in LeadsTo({s})
  BY RootsLead
<1>2. r \in LeadsTo({s}) /\ r \in Struct
  BY <1>1, FollowLeads, NamesType DEF Follow
<1>3. LeadsTo({r}) \subseteq LeadsTo({s})
  BY <1>2 DEF LeadsTo
<1>. QED  BY <1>2, <1>3 DEF TameFrom

\* The document describes a struct's fields as the server does, if it does so what
\* they lead to.
LEMMA SameFields ==
  ASSUME IInv, Emitted, NEW d \in 0 .. Depth, NEW s \in referenced, TameFrom(s),
         d # 0 => \A r \in referenced : TameFrom(r) => CodegenShape[d - 1][r] = Served(r, d - 1)
  PROVE  CodegenShape[d][s] = Served(s, d)
<1>1. /\ TypeOK /\ s \in Struct /\ referenced \subseteq Struct /\ queue = {}
      /\ schemas = [r \in referenced |-> {<<CodegenKey(f), FieldSchema(f.type)>> : f \in Listed(r)}]
      /\ \A r \in referenced : Follow(r) \subseteq referenced
  BY DEF IInv, TypeOK, Searching, Written, Emitted
<1>2. \A f \in structs[s] : Tame(f)
  <2>1. s \in LeadsTo({s})
    BY <1>1, RootsLead
  <2>. QED  BY <2>1 DEF TameFrom
<1>3. Listed(s) = structs[s] /\ {g \in structs[s] : g.exported} = structs[s]
  <2>1. \A f \in structs[s] : f.exported /\ ~f.embedded /\ f.leads
    BY <1>2 DEF Tame
  <2>. QED  BY <2>1 DEF Listed
<1>. DEFINE shape(p) ==
       IF p[2].ref = {} THEN Shape(p[2].arrays, p[2].is, {})
       ELSE Shape(p[2].arrays, "object", IF d = 0 THEN {} ELSE CodegenShape[d - 1][CHOOSE r \in p[2].ref : TRUE])
            pair(f) == <<CodegenKey(f), FieldSchema(f.type)>>
<1>4. CodegenShape[d][s] = {<<p[1], shape(p)>> : p \in schemas[s]}
  <2>1. CodegenShape[d] = WrittenLevel(CodegenShape, d)
    BY WrittenShapes
  <2>2. s \in DOMAIN schemas
    BY <1>1
  <2>3. ASSUME NEW g
        PROVE  WrittenLevel(g, d)[s] =
                 {<<p[1], IF p[2].ref = {} THEN Shape(p[2].arrays, p[2].is, {})
                          ELSE Shape(p[2].arrays, "object",
                                 IF d = 0 THEN {} ELSE g[d - 1][CHOOSE r \in p[2].ref : TRUE])>> :
                    p \in schemas[s]}
    BY <2>2 DEF WrittenLevel
  <2>. QED  BY <2>1, <2>3
<1>5. schemas[s] = {pair(f) : f \in structs[s]}
  BY <1>1, <1>3
<1>6. ASSUME NEW f \in structs[s] PROVE shape(pair(f)) = RuntimeShape[d][f.type] /\ CodegenKey(f) = RuntimeKey(f)
  <2>1. CodegenKey(f) = RuntimeKey(f)
    BY <1>1, <1>2, TameField
  <2>2. CASE f.type.base \in Struct
    <3>. DEFINE b == f.type.base
    <3>1. /\ FieldSchema(f.type) = Ref(Arrays(f.type.wraps), b) /\ b \in Follow(s)
          /\ RuntimeShape[d][f.type] = Shape(Arrays(f.type.wraps), "object", IF d = 0 THEN {} ELSE Served(b, d - 1))
      BY <1>1, <1>2, <2>2, TameField DEF Served
    <3>2. b \in referenced /\ TameFrom(b)
      BY <1>1, <3>1, TameOnwards
    <3>3. pair(f)[2].ref = {b} /\ pair(f)[2].arrays = Arrays(f.type.wraps)
      BY <3>1 DEF Ref
    <3>4. (CHOOSE r \in {b} : TRUE) = b
      OBVIOUS
    <3>5. shape(pair(f)) = Shape(Arrays(f.type.wraps), "object", IF d = 0 THEN {} ELSE CodegenShape[d - 1][b])
      <4>. HIDE DEF b, pair
      <4>. QED  BY <3>3, <3>4
    <3>6. d # 0 => CodegenShape[d - 1][b] = Served(b, d - 1)
      BY <3>2
    <3>. QED  BY <2>1, <3>1, <3>5, <3>6
  <2>3. CASE f.type.base \notin Struct
    <3>1. /\ FieldSchema(f.type) = Plain(Arrays(f.type.wraps), f.type.base)
          /\ RuntimeShape[d][f.type] = Shape(Arrays(f.type.wraps), f.type.base, {})
      BY <1>1, <1>2, <2>3, TameField
    <3>2. pair(f)[2].ref = {} /\ pair(f)[2].arrays = Arrays(f.type.wraps) /\ pair(f)[2].is = f.type.base
      BY <3>1 DEF Plain
    <3>. HIDE DEF pair
    <3>. QED  BY <2>1, <3>1, <3>2
  <2>. QED  BY <2>2, <2>3
<1>7. \A f \in structs[s] : pair(f)[1] = CodegenKey(f)
  OBVIOUS
<1>8. CodegenShape[d][s] = {<<pair(f)[1], shape(pair(f))>> : f \in structs[s]}
  <2>. HIDE DEF pair, shape
  <2>. QED  BY <1>4, <1>5
<1>. HIDE DEF pair, shape
<1>. QED  BY <1>3, <1>6, <1>7, <1>8 DEF Served

\* So it does at every depth.
LEMMA SameAtEveryDepth ==
  ASSUME IInv, Emitted, NEW d \in 0 .. Depth, NEW s \in referenced, TameFrom(s)
  PROVE  CodegenShape[d][s] = Served(s, d)
<1>. DEFINE Same(k) == \A r \in referenced : TameFrom(r) => CodegenShape[k][r] = Served(r, k)
            Apart == {k \in 0 .. Depth : ~Same(k)}
<1>1. ASSUME NEW k \in 0 .. Depth, k = 0 \/ Same(k - 1) PROVE Same(k)
  BY <1>1, SameFields
<1>. HIDE DEF Same
<1>2. Apart = {}
  <2> SUFFICES ASSUME Apart # {} PROVE FALSE
    OBVIOUS
  <2>. Apart \in SUBSET Nat
    OBVIOUS
  <2>. HIDE DEF Apart
  <2>1. PICK k \in Apart : \A j \in Apart : k <= j
    BY LeastNumber
  <2>. USE DEF Apart
  <2>2. k \in 0 .. Depth /\ ~Same(k) /\ k # 0
    BY <1>1, <2>1
  <2>3. k - 1 \in 0 .. Depth /\ ~ (k <= k - 1)
    BY <2>2, OpenAPIAssumption
  <2>4. Same(k - 1)
    BY <2>1, <2>3
  <2>. QED  BY <1>1, <2>2, <2>4
<1>. QED  BY <1>2 DEF Same

\* What codegen's document gives a request or a response, the server gives it too.
LEMMA SameContent ==
  ASSUME IInv, Emitted, NEW e \in endpoints, ~IsRaw(e), NEW t \in {e.req, e.resp}
  PROVE  SameShape(Content(t), {RuntimeShape[Depth + 1][t]})
<1> SUFFICES ASSUME NEW s \in UNION {c.ref : c \in Content(t)}, TameFrom(s)
             PROVE  RuntimeShape[Depth + 1][t] = Shape(0, "object", CodegenShape[Depth][s])
  BY DEF SameShape, TameFrom
<1>1. /\ TypeOK /\ queue = {} /\ Names(Roots) \subseteq queue \union referenced
  BY DEF IInv, Searching, Written, Emitted
<1>2. t \in Type /\ t \in Roots
  BY <1>1, OpenAPIAssumption DEF TypeOK, endpoints, Implements, Legible, Roots
<1>3. IsStruct(t) /\ s = t.base
  BY DEF Content, Ref
<1>4. s \in referenced
  BY <1>1, <1>2, <1>3 DEF Names
<1>5. ~IsArray(t) /\ Slices(t.wraps) = 0
  <2>1. DOMAIN t.wraps = {}
    BY <1>3 DEF IsStruct
  <2>2. ~IsArray(t)
    BY <2>1 DEF IsArray, Range
  <2>3. {i \in DOMAIN t.wraps : "[n]" \notin {t.wraps[j] : j \in 1 .. i} /\ t.wraps[i] = "[]"} = {}
    BY <2>1
  <2>. QED  BY <2>2, <2>3, FS_EmptySet DEF Slices
<1>6. CodegenShape[Depth][s] = Served(s, Depth)
  BY <1>4, SameAtEveryDepth, OpenAPIAssumption
<1>7. RuntimeShape[Depth + 1] = ServedLevel(RuntimeShape, Depth + 1)
  BY ServedShapes, OpenAPIAssumption
<1>8. RuntimeShape[Depth + 1][t] =
        Shape(0, "object", {<<RuntimeKey(f), RuntimeShape[Depth][f.type]>> : f \in {h \in structs[s] : h.exported}})
  <2>1. t.base \in Struct /\ Depth + 1 # 0 /\ (Depth + 1) - 1 = Depth
    BY <1>3, OpenAPIAssumption DEF IsStruct
  <2>2. ASSUME NEW g, NEW n, n # 0
        PROVE  ServedLevel(g, n)[t] =
                 Shape(Slices(t.wraps), "object",
                   {<<RuntimeKey(f), g[n - 1][f.type]>> : f \in {h \in structs[t.base] : h.exported}})
    BY <1>2, <1>5, <2>1, <2>2 DEF ServedLevel
  <2>3. ServedLevel(RuntimeShape, Depth + 1)[t] =
          Shape(Slices(t.wraps), "object",
            {<<RuntimeKey(f), RuntimeShape[(Depth + 1) - 1][f.type]>> : f \in {h \in structs[t.base] : h.exported}})
    BY <2>1, <2>2
  <2>. QED  BY <1>3, <1>5, <1>7, <2>1, <2>3
<1>. QED  BY <1>6, <1>8 DEF Served

\* If the server starts and can describe itself, its document and the one its
\* clients were generated from say the same of every endpoint whose method and
\* path codegen read as they are: one operation under one id behind the same
\* authorization, with the same schemas to any depth where all fields are ones
\* that the source text reveals.
THEOREM DocumentsAreOne == DocSpec => []DocumentsAgree
<1>1. ASSUME IInv, Emitted, ~NewMuxPanics, NEW e \in endpoints, e.quoted = {}
      PROVE  SameOperation(e) /\ SameSchemas(e)
  <2>1. LastAt(At(e)) = e /\ At(e) \in Places
    BY <1>1, AloneAtItsPlace DEF IInv, Places
  <2>2. paths[At(e)] = Operation(e)
    BY <1>1, <2>1 DEF IInv, Written, Emitted
  <2>3. RuntimePaths[ServedAt(e)] = RuntimeOperation(e)
    BY <1>1, AloneAtItsPlace DEF IInv, RuntimePaths
  <2>4. SameOperation(e)
    BY <1>1, <2>2, <2>3 DEF Operation, RuntimeOperation, SameOperation
  <2>5. ASSUME NEW shapes PROVE SameShape({}, shapes)
    BY DEF SameShape
  <2>6. ~IsRaw(e) => /\ SameShape(Content(e.req), {RuntimeShape[Depth + 1][e.req]})
                     /\ SameShape(Content(e.resp), {RuntimeShape[Depth + 1][e.resp]})
    BY <1>1, SameContent
  <2>7. SameShape(RequestContent(e), RuntimeOperation(e).req)
    BY <2>5, <2>6 DEF RequestContent, RuntimeOperation
  <2>8. SameShape(ResponseContent(e), RuntimeOperation(e).resp)
    BY <2>5, <2>6 DEF ResponseContent, RuntimeOperation
  <2>9. Operation(e).req = RequestContent(e) /\ Operation(e).resp = ResponseContent(e)
    BY DEF Operation
  <2>. QED  BY <2>2, <2>3, <2>4, <2>7, <2>8, <2>9 DEF SameSchemas
<1>2. IInv => DocumentsAgree
  BY <1>1 DEF DocumentsAgree
<1>. QED  BY <1>2, SearchInvariance, PTL
=============================================================================
