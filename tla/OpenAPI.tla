------------------------------ MODULE OpenAPI ------------------------------
(***************************************************************************)
(* The two descriptions of a project's API: the one that codegen writes    *)
(* from the source text (endpoints.go: scanAPIDir, writeOpenAPIJSON and    *)
(* buildSchemas with its work list), and the one that the server gives by  *)
(* reflection (openapi.go: BuildOpenAPI and typeToSchema) once NewMux has  *)
(* accepted the routes that codegen has registered for it.                 *)
(*                                                                         *)
(* A type is a base, a named struct of package api or something else, with *)
(* slices, pointers and arrays around it.  A path is a sequence of         *)
(* segments, without a last slash and escapes; a method is in capitals; no *)
(* two fields of a struct have one key.  What the parser of Go makes of    *)
(* the source is the variable project.                                     *)
(***************************************************************************)
EXTENDS FiniteSetsExt, Integers, SequencesExt

CONSTANTS
  Struct,     \* the names of structs
  Basic,      \* the other base types
  Project,    \* what a project may declare: structs, and structs with methods
  Depth       \* how deep schemas are compared

\* "[n]" is an array of a fixed length.
Wrap == {"[]", "*", "[n]"}
Type == [wraps : UNION {[1 .. n -> Wrap] : n \in 0 .. 2}, base : Struct \union Basic]

\* The methods that scanAPIDir looks for; it reads three of them, and understands
\* only a literal that is returned at once.  One in back quotes keeps them.
Method == {"Method", "Path", "Auth", "Handle", "HandleRaw"}
Legible == {"Method", "Path", "Auth"}
Textual == {"Method", "Path"}

\* A struct is a set of fields.  A field has a Go name, which may have an
\* upper-case letter inside, leads its declaration or follows another name there,
\* and has a json tag: none, a name, "-" or one that is not in back quotes.
ASSUME OpenAPIAssumption ==
  /\ Struct \intersect Basic = {}
  /\ \A p \in Project :
       /\ DOMAIN p.structs = Struct
       /\ \A s \in Struct : \A f \in p.structs[s] :
            /\ f.camel \in BOOLEAN /\ f.exported \in BOOLEAN
            /\ f.embedded \in BOOLEAN /\ f.leads \in BOOLEAN
            /\ f.tag \in {"none", "named", "dash", "escaped"} /\ f.type \in Type
       /\ \A d \in p.decls :
            /\ d.name \in Nat \* its place in the order of names
            /\ d.has \subseteq Method /\ d.literal \subseteq Legible
            /\ d.quoted \subseteq Textual /\ d.spelled \in BOOLEAN
            /\ d.method \in {"GET", "DELETE", "POST", "PUT"} /\ d.auth \in BOOLEAN
            /\ "Handle" \in d.has /\ d.spelled => {d.req, d.resp} \subseteq Type
       /\ \A c, d \in p.decls : c.name = d.name => c = d
  /\ Depth \in Nat

VARIABLES
  project,    \* what the project declares
  stage,      \* how far runEndpointsGen has come
  queue,      \* buildSchemas's work list
  referenced, \* the structs that it has met
  schemas,    \* the schemas that it has written, by struct
  paths       \* the operations that writeOpenAPIJSON has written, by path and method

docVars == <<project, stage, queue, referenced, schemas, paths>>

structs == project.structs

\* It is an endpoint, and an ambiguous one.
Implements(d) == Legible \subseteq d.has
Ambiguous(d) == Implements(d) /\ {"Handle", "HandleRaw"} \subseteq d.has

IsRaw(d) == "HandleRaw" \in d.has

\* The endpoints that scanAPIDir understands; it passes over the others.  A type
\* of Handle may be one that cannot be spelled: a map, a generic.
endpoints ==
  {d \in project.decls : /\ Implements(d) /\ d.literal = Legible
                         /\ IsRaw(d) \/ ("Handle" \in d.has /\ d.spelled)}

\* A type's name, as exprTypeName spells it, is a struct's only without wraps.
IsStruct(t) == t.wraps = <<>> /\ t.base \in Struct

Names(types) == {t.base : t \in {u \in types : IsStruct(u)}}

DocInit ==
  /\ project \in Project
  /\ stage = "scan"
  /\ queue = {}
  /\ referenced = {}
  /\ schemas = <<>>
  /\ paths = <<>>

\* What of an endpoint is a schema.
Roots == UNION {{e.req, e.resp} : e \in {f \in endpoints : ~IsRaw(f)}}

\* The source is scanned: the endpoints are known, or there is an error.
Scan ==
  /\ stage = "scan"
  /\ IF \E d \in project.decls : Ambiguous(d)
       THEN stage' = "refused" /\ UNCHANGED queue
       ELSE stage' = "collect" /\ queue' = Names(Roots)
  /\ UNCHANGED <<project, referenced, schemas, paths>>

-----------------------------------------------------------------------------
TrimOne(wraps, w) == IF wraps # <<>> /\ Head(wraps) = w THEN Tail(wraps) ELSE wraps

\* exprTypeName spells an array like a slice.
Spelled(wraps) == [i \in DOMAIN wraps |-> IF wraps[i] = "[n]" THEN "[]" ELSE wraps[i]]

\* baseType: one "[]" is cut off, and then one "*".
Base(t) == [t EXCEPT !.wraps = TrimOne(TrimOne(Spelled(@), "[]"), "*")]

\* extractStructInfo leaves embedded fields out, and of each declaration keeps the
\* first name.
Listed(s) == {f \in structs[s] : ~f.embedded /\ f.leads}

\* The structs that a struct's fields lead to.
Follow(s) == Names({Base(f.type) : f \in Listed(s)})

\* Faulty variant: the fields of a struct are not followed.
VisitShallowly(s) ==
  /\ s \in queue /\ s \notin referenced
  /\ referenced' = referenced \union {s}
  /\ queue' = queue \ {s}
  /\ UNCHANGED <<project, stage, schemas, paths>>

\* A name is taken from the work list, and its fields' are put there.
Visit(s) ==
  /\ s \in queue /\ s \notin referenced
  /\ referenced' = referenced \union {s}
  /\ queue' = (queue \ {s}) \union Follow(s)
  /\ UNCHANGED <<project, stage, schemas, paths>>

\* Faulty variant: a struct that has been met is followed once more.
PassAgain(s) ==
  /\ s \in queue /\ s \in referenced
  /\ queue' = (queue \ {s}) \union Follow(s)
  /\ UNCHANGED <<project, stage, referenced, schemas, paths>>

\* It has been met already.
Pass(s) ==
  /\ s \in queue /\ s \in referenced
  /\ queue' = queue \ {s}
  /\ UNCHANGED <<project, stage, referenced, schemas, paths>>

\* goFieldName and fieldName, for a field without a usable tag, differ in the
\* letters inside a name; and extractJSONTag reads a tag in back quotes only.
CodegenKey(f) ==
  IF f.tag = "named" THEN <<f.name, "tag">> ELSE <<f.name, IF f.camel THEN "camelCase" ELSE "lower">>
RuntimeKey(f) == IF f.tag \in {"named", "escaped"} THEN <<f.name, "tag">> ELSE <<f.name, "lower">>

Arrays(wraps) == Cardinality({i \in DOMAIN wraps : wraps[i] # "*"})

\* A schema: how many arrays are around it, and a reference or a type.
Ref(k, s) == [arrays |-> k, ref |-> {s}, is |-> "ref"]
Plain(k, b) == [arrays |-> k, ref |-> {}, is |-> b]

\* primitiveSchema: "time" is time.Time, "byte" also rune, "alias" a named type that
\* is not a struct, "foreign" a type of another package, and one whose struct has
\* no name of its own: a generic one, one without a name, another name of one.
BasicSchema(t) ==
  IF t.wraps = <<"*", "*">> \/ t.base \notin Basic \ {"byte", "alias", "foreign"} THEN "object" ELSE t.base

\* Faulty variant: a slice of structs is a reference to one.
FieldSchemaFlat(t) ==
  IF IsStruct(Base(t)) THEN Ref(0, t.base)
  ELSE Plain(Arrays(t.wraps), BasicSchema(t))

\* What buildSchemas writes for a field's type.
FieldSchema(t) ==
  IF IsStruct(Base(t)) THEN Ref(IF t.wraps # <<>> /\ t.wraps[1] # "*" THEN 1 ELSE 0, t.base)
  ELSE Plain(Arrays(t.wraps), BasicSchema(t))

\* The schema that writeOpenAPIJSON gives a request or a response: a reference,
\* if the type is a struct with fields.
Content(t) == IF IsStruct(t) /\ Listed(t.base) # {} THEN {Ref(0, t.base)} ELSE {}
Bodiless(e) == e.method \in {"GET", "DELETE"} /\ "Method" \notin e.quoted
RequestContent(e) == IF IsRaw(e) \/ Bodiless(e) THEN {} ELSE Content(e.req)
ResponseContent(e) == IF IsRaw(e) THEN {} ELSE Content(e.resp)

\* An operation's id names its method and the segments of its path, without the
\* braces of parameters but with the back quotes of either, if they are read.
OperationId(e, quoted) == <<e.method, [i \in DOMAIN e.path |-> e.path[i].name], quoted>>

\* A back quote hides the brace before it.
Parameters(e) ==
  {g.name : g \in {h \in Range(IF "Path" \in e.quoted THEN Front(e.path) ELSE e.path) : h.param}}

Operation(e) ==
  [id |-> OperationId(e, e.quoted), auth |-> e.auth, params |-> Parameters(e),
   req |-> RequestContent(e), resp |-> ResponseContent(e)]

\* Operations by path and method, as they are read.  Endpoints are gone through by
\* their names, and of two at one place the later one stays.
LastOf(S) == CHOOSE e \in S : \A f \in S : f.name <= e.name
At(e) == <<e.path, e.method, e.quoted>>
Places == {At(e) : e \in endpoints}
LastAt(k) == LastOf({e \in endpoints : At(e) = k})

\* The work list is done: the document is written.
Emit ==
  /\ stage = "collect" /\ queue = {}
  /\ stage' = "written"
  /\ schemas' = [s \in referenced |->
                   {<<CodegenKey(f), FieldSchema(f.type)>> : f \in Listed(s)}]
  /\ paths' = [k \in Places |-> Operation(LastAt(k))]
  /\ UNCHANGED <<project, queue, referenced>>

DocNext == Scan \/ Emit \/ \E s \in Struct : Visit(s) \/ Pass(s)

DocSpec == DocInit /\ [][DocNext]_docVars /\ WF_docVars(DocNext)

Emitted == stage = "written"

-----------------------------------------------------------------------------
\* A shape is a schema with its references replaced, down to a depth.
Shape(k, is, props) == [arrays |-> k, is |-> is, props |-> props]

\* typeToSchema looks into slices and through pointers, but not into arrays.
IsArray(t) == "[n]" \in Range(t.wraps)
Slices(wraps) == Cardinality({i \in DOMAIN wraps : "[n]" \notin {wraps[j] : j \in 1 .. i} /\ wraps[i] = "[]"})

\* What typeToSchema says of a type: structs are written out.  time.Time is a
\* struct, all of whose fields are hidden; a byte is an integer.
RuntimeShape[d \in 0 .. Depth + 1] ==
  [t \in Type |->
     IF IsArray(t) THEN Shape(Slices(t.wraps), "object", {})
     ELSE IF t.base \in Struct
       THEN Shape(Slices(t.wraps), "object",
              IF d = 0 THEN {}
              ELSE {<<RuntimeKey(f), RuntimeShape[d - 1][f.type]>> : f \in {g \in structs[t.base] : g.exported}})
       ELSE Shape(Slices(t.wraps),
              CASE t.base = "time" -> "object" [] t.base = "byte" -> "int" [] t.base = "alias" -> "string"
                [] OTHER -> t.base, {})]

\* What codegen's document says.
CodegenShape[d \in 0 .. Depth] ==
  [s \in DOMAIN schemas |->
     {<<p[1], IF p[2].ref = {} THEN Shape(p[2].arrays, p[2].is, {})
              ELSE Shape(p[2].arrays, "object",
                     IF d = 0 THEN {} ELSE CodegenShape[d - 1][CHOOSE r \in p[2].ref : TRUE])>> :
        p \in schemas[s]}]

\* The structs that are in every set that holds a type's and is closed: those that
\* the type leads to.
LeadsTo(S) ==
  {s \in Struct : \A C \in SUBSET Struct :
     (S \subseteq C /\ \A c \in C : {f.type.base : f \in structs[c]} \intersect Struct \subseteq C) => s \in C}

-----------------------------------------------------------------------------
\* The server.  NewMux registers the framework's routes and the project's;
\* ServeMux panics at two patterns of which neither is more specific.
Fixed(names) == [path |-> [i \in DOMAIN names |-> [name |-> names[i], param |-> FALSE]], method |-> "GET"]
Builtin == {Fixed(n) : n \in {<<"openapi.json">>, <<"api", "health">>, <<"api", "status">>, <<"api", "user", "me">>}}

\* Every request for p is one for q, by its path; some request is for both.
Within(p, q) == \A i \in DOMAIN p : q[i].param \/ (~p[i].param /\ p[i].name = q[i].name)
Overlap(p, q) == \A i \in DOMAIN p : p[i].param \/ q[i].param \/ p[i].name = q[i].name

Conflict(r, t) ==
  /\ r.method = t.method /\ Len(r.path) = Len(t.path)
  /\ Overlap(r.path, t.path)
  /\ Within(r.path, t.path) <=> Within(t.path, r.path)

NewMuxPanics ==
  \E e \in endpoints : \E r \in Builtin \union (endpoints \ {e}) : Conflict(e, r)

\* BuildOpenAPI does not return for a struct in which typeToSchema comes upon it
\* again: a request or a response leads there by exported fields.
WrittenOut(types) == {t.base : t \in {u \in types : ~IsArray(u)}} \intersect Struct
ServerAnswers ==
  ~ \E C \in SUBSET Struct :
      /\ WrittenOut(Roots) \intersect C # {}
      /\ \A s \in C : WrittenOut({f.type : f \in {g \in structs[s] : g.exported}}) \intersect C # {}

\* What BuildOpenAPI says of a route: a schema for every type, and no parameters.
RuntimeOperation(e) ==
  [id |-> OperationId(e, {}), auth |-> e.auth,
   req |-> IF IsRaw(e) THEN {} ELSE {RuntimeShape[Depth + 1][e.req]},
   resp |-> IF IsRaw(e) THEN {} ELSE {RuntimeShape[Depth + 1][e.resp]}]

ServedAt(e) == <<e.path, e.method>>
RuntimePaths ==
  [k \in {ServedAt(e) : e \in endpoints} |-> RuntimeOperation(LastOf({e \in endpoints : ServedAt(e) = k}))]

-----------------------------------------------------------------------------
\* Every reference in the document that codegen writes has its schema there, on
\* which the generated clients rely, and no schema is there that no request or
\* response leads to.
Resolves ==
  Emitted =>
    /\ \A s \in DOMAIN schemas : \A p \in schemas[s] : p[2].ref \subseteq DOMAIN schemas
    /\ \A e \in endpoints : \A c \in RequestContent(e) \union ResponseContent(e) :
         c.ref \subseteq DOMAIN schemas
    /\ DOMAIN schemas \subseteq LeadsTo(Names(Roots))

\* The fields that both generators describe in one way: exported, not embedded, the
\* first of their declaration, with a tag in back quotes or a name of one word, of
\* a type that the source text reveals, no array, and at most a slice of, or a
\* pointer to, a struct.
Tame(f) ==
  /\ f.exported /\ ~f.embedded /\ f.leads
  /\ f.tag = "named" \/ (f.tag # "escaped" /\ ~f.camel)
  /\ ~IsArray(f.type)
  /\ f.type.base \notin {"time", "byte", "alias", "foreign"}
  /\ f.type.base \in Struct => IsStruct(Base(f.type))
  /\ f.type.wraps # <<"*", "*">>

\* The schemas of a request or a response in codegen's document are the server's,
\* to any depth, if they lead to tame fields only.
SameShape(content, shapes) ==
  \A s \in UNION {c.ref : c \in content} :
    (\A r \in LeadsTo({s}) : \A f \in structs[r] : Tame(f)) =>
      shapes = {Shape(0, "object", CodegenShape[Depth][s])}

\* An endpoint has its own operation in both documents.
SameOperation(e) ==
  LET written == paths[At(e)]
      served == RuntimePaths[ServedAt(e)]
  IN  written = Operation(e) /\ written.id = served.id /\ written.auth = served.auth

\* The schemas that the two documents have at an endpoint's place.
SameSchemas(e) ==
  LET written == paths[At(e)]
      served == RuntimePaths[ServedAt(e)]
  IN  SameShape(written.req, served.req) /\ SameShape(written.resp, served.resp)

\* A server that starts and can describe itself agrees with the document that its
\* clients were generated from: every endpoint that codegen understood, and whose
\* method and path it read as they are, has its operation in both, under one id
\* and behind the same authorization, with the same tame schemas; none has been
\* displaced by another one at its place.
DocumentsAgree ==
  Emitted /\ ~NewMuxPanics /\ ServerAnswers =>
    \A e \in endpoints : e.quoted = {} => SameOperation(e) /\ SameSchemas(e)

\* runEndpointsGen ends, also for types that contain themselves.
Ends == <>(stage \in {"written", "refused"})
=============================================================================
