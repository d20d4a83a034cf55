----------------------------- MODULE MCOpenAPI -----------------------------
(***************************************************************************)
(* An instance of OpenAPI: two structs, each of which may contain itself   *)
(* and the other in every way that two wraps allow, next to a basic field  *)
(* with every tag, and endpoints that use one or both of them; and every   *)
(* two endpoints of some that share a place, overlap, or are incomplete.   *)
(***************************************************************************)
EXTENDS OpenAPI

Fields(name, camel, exported, embedded, tags, wraps, bases) ==
  [name : {name}, camel : {camel}, exported : exported, embedded : embedded, leads : {TRUE}, tag : tags,
   type : [wraps : wraps, base : bases]]

Wraps == {<<>>, <<"[]">>, <<"*">>, <<"[n]">>, <<"[]", "*">>, <<"*", "[]">>, <<"[]", "[]">>}

MCBasic == {"string", "int", "time", "byte", "alias", "foreign"}

\* A field that holds a struct, and one that holds something basic.
Links == Fields("Next", FALSE, {TRUE}, {FALSE}, {"named"}, Wraps, Struct)
Leaves == Fields("CreatedAt", TRUE, {TRUE}, {TRUE}, {"none"}, {<<>>}, {"foreign"})
  \union Fields("CreatedAt", TRUE, {TRUE}, {FALSE}, {"none", "named", "dash", "escaped"}, {<<>>}, {"string"})
  \union Fields("CreatedAt", TRUE, BOOLEAN, {FALSE}, {"none"}, {<<>>}, {"time"})
  \union Fields("Size", FALSE, {TRUE}, {FALSE}, {"none"}, {<<"[]">>}, {"int", "byte", "alias"})
  \union Fields("Size", FALSE, {TRUE}, {FALSE}, {"none"}, {<<"*">>, <<"[n]">>}, {"int"})

\* X, Y int
TwoNames ==
  LET x == CHOOSE f \in Fields("X", FALSE, {TRUE}, {FALSE}, {"none"}, {<<>>}, {"int"}) : TRUE
  IN  {x, [x EXCEPT !.name = "Y", !.leads = FALSE]}

OneOrNone(S) == {{}} \union {{x} : x \in S}
Declared == {l \union b : l \in OneOrNone(Links), b \in OneOrNone(Leaves) \union {TwoNames}}

T(wraps, s) == [wraps |-> wraps, base |-> s]

Segment(n) == [name |-> n, param |-> FALSE]
Param(n) == [name |-> n, param |-> TRUE]

\* A declaration as it should be, and what may be wrong with one.
D(name, handle, method, path, auth, req, resp) ==
  [name |-> name, has |-> Legible \union {handle}, literal |-> Legible, quoted |-> {}, spelled |-> TRUE,
   method |-> method, path |-> path, auth |-> auth, req |-> req, resp |-> resp]

CONSTANTS A, B

\* Endpoints that use the structs in different ways.
MCUses ==
  { {D(1, "Handle", "GET", <<Segment("a")>>, TRUE, T(<<>>, A), T(<<>>, B)),
     D(2, "HandleRaw", "POST", <<Segment("a")>>, FALSE, T(<<>>, B), T(<<>>, B))},
    {D(1, "Handle", "POST", <<Segment("a")>>, TRUE, T(<<>>, A), T(<<"[]">>, B))} }

\* Two endpoints that are at one place or not, or are not quite endpoints.
Path == { <<Segment("a"), Param("id")>>, <<Segment("a"), Param("key")>>, <<Segment("a"), Segment("id")>>,
          <<Param("any"), Segment("id")>>, <<Segment("api"), Segment("health")>> }

Proper(name) ==
  {D(name, "Handle", m, p, a, T(<<>>, A), T(<<>>, B)) : m \in {"GET", "PUT"}, p \in Path, a \in BOOLEAN}

Improper(name) ==
  LET d == D(name, "Handle", "GET", <<Segment("a"), Param("id")>>, FALSE, T(<<>>, A), T(<<>>, B))
  IN  { [d EXCEPT !.has = Method], [d EXCEPT !.has = Legible], [d EXCEPT !.has = @ \ {"Auth"}],
        [d EXCEPT !.literal = @ \ {"Path"}], [d EXCEPT !.quoted = {"Path"}], [d EXCEPT !.quoted = {"Method"}],
        [d EXCEPT !.spelled = FALSE] }

MCPairs == {{c, d} : c \in Proper(1) \union Improper(1), d \in Proper(2) \union Improper(2)}

Plainly == {l \union b : l \in {{}, {CHOOSE f \in Links : f.type = T(<<"[]">>, B)}}, b \in {{}}}

MCProject == [structs : [Struct -> Declared], decls : MCUses]
  \union [structs : [Struct -> Plainly], decls : MCPairs]
=============================================================================
