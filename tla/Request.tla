------------------------------ MODULE Request ------------------------------
(***************************************************************************)
(* api: the life of a request to a server, to a registered endpoint, one   *)
(* of the framework's own or, if no pattern matches, the frontend.         *)
(* requireAuth, the decoding of path, query and body, the handler, the     *)
(* response, while time passes and tokens are issued and expire.           *)
(*                                                                         *)
(* Text is abstracted to what it can be parsed as, and integers keep their *)
(* width.  A handler's own effects are left out; what it is given and what *)
(* becomes of its result is modelled.                                      *)
(***************************************************************************)
EXTENDS FiniteSetsExt, Integers, Sequences

CONSTANTS
  Client,    \* clients, each of which makes one request
  Subject,   \* whom tokens are for
  Endpoint,  \* what is registered
  Checker,   \* the names that RegisterHealth was called with
  Number,    \* the integers that occur in a request
  Half,      \* half as many as there are integers of the "narrow" and of the "wide" width
  MaxNow,    \* the clock's bound
  MaxTokens  \* how many tokens are issued

\* The Go types of a request type's fields, but for pointers to them.
Kind == {"string", "narrow", "wide", "bool", "other"}

ASSUME RequestAssumption ==
  /\ \A e \in Endpoint : /\ e.auth \in BOOLEAN /\ e.raw \in BOOLEAN /\ e.carries \in BOOLEAN
                         /\ e.route = "project"
                         /\ \A f \in e.fields : f.tag \in {"path", "query", "json"} /\ f.kind \in Kind
  /\ Number \subseteq Int
  /\ Half.narrow \in 1 .. Half.wide /\ Half.wide \in Nat
  /\ MaxNow \in Nat /\ MaxTokens \in Nat

\* What NewMux adds: routes that neither decode nor map errors, and the catch-all,
\* which also gets the requests whose path is registered for another method.
Own(route, auth) ==
  [route |-> route, auth |-> auth, raw |-> TRUE, carries |-> FALSE, fields |-> {}]
Routes ==
  Endpoint \union
    {Own("health", FALSE), Own("status", FALSE), Own("openapi", FALSE), Own("me", TRUE),
     Own("frontend", FALSE)}

\* A text, or a value, and the number that it stands for.
Text == [is : {"word"}, n : {0}] \union [is : {"truth"}, n : {0, 1}] \union [is : {"number"}, n : Number]
Empty == [is |-> "empty", n |-> 0]
Nil == [is |-> "nil", n |-> 0]

\* When a token is meant to expire, if never.
Never == -1

Sentinel == {400, 403, 404, 409, 503}
NoError == {0}

VARIABLES
  now,     \* the clock, in seconds
  keyed,   \* the server has a database, and InitAuth has been called
  tokens,  \* the tokens in circulation
  pc,      \* where each request is
  req,     \* the request
  since,   \* when it arrived
  as,      \* the subjects in its context: one or none
  view,    \* the request value, as decoded so far
  heard,   \* the handler has been called
  failed,  \* the sentinels that the handler's error wraps, or NoError
  report,  \* what the health page has found so far
  status,  \* what WriteHeader was first called with, 0 before
  parts    \* what has been written to the body

vars == <<now, keyed, tokens, pc, req, since, as, view, heard, failed, report, status, parts>>
request == <<req, since>>

Alien == [sub |-> CHOOSE s \in Subject : TRUE, exp |-> 0, until |-> Never, ours |-> FALSE]

NoRequest == [ep |-> CHOOSE e \in Endpoint : TRUE, cred |-> {}, url |-> <<>>, body |-> <<>>, broken |-> FALSE]

Init ==
  /\ now = 1
  /\ keyed \in BOOLEAN
  /\ tokens = {Alien}
  /\ pc = [c \in Client |-> "idle"]
  /\ req = [c \in Client |-> NoRequest]
  /\ since = [c \in Client |-> 0]
  /\ as = [c \in Client |-> {}]
  /\ view = [c \in Client |-> <<>>]
  /\ heard = [c \in Client |-> FALSE]
  /\ failed = [c \in Client |-> NoError]
  /\ report = [c \in Client |-> <<>>]
  /\ status = [c \in Client |-> 0]
  /\ parts = [c \in Client |-> <<>>]

Tick ==
  /\ now < MaxNow
  /\ now' = now + 1
  /\ UNCHANGED <<keyed, tokens, pc, req, since, as, view, heard, failed, report, status, parts>>

\* IssueToken: `omitempty` leaves out an expiry of 0, as if there were none.
IssueToken(sub, until) ==
  /\ keyed /\ Cardinality(tokens) <= MaxTokens
  /\ tokens' = tokens \union
       {[sub |-> sub, exp |-> IF until = Never THEN 0 ELSE until, until |-> until, ours |-> TRUE]}
  /\ UNCHANGED <<now, keyed, pc, req, since, as, view, heard, failed, report, status, parts>>

-----------------------------------------------------------------------------
\* The zero value of a field.
Zero(f) ==
  IF f.ptr THEN Nil
  ELSE [is |-> CASE f.kind = "string" -> "empty"
                 [] f.kind = "bool" -> "truth"
                 [] OTHER -> "number",
        n |-> 0]

Tagged(c, tag) == {f \in req[c].ep.fields : f.tag = tag}

\* Where a request goes that needs no token, or has one.
First(e) == IF e.route # "project" THEN e.route ELSE IF e.raw THEN "handle" ELSE "path"

\* A request arrives.  Its URL may leave parameters out, and its body any field,
\* but it may also hold fields that are tagged as parameters.
Arrive(c) ==
  /\ pc[c] = "idle"
  /\ \E e \in Routes, cred \in {{}} \union {{t} : t \in tokens}, broken \in BOOLEAN :
       LET inURL == {f \in e.fields : f.tag # "json"}
           inBody == IF e.carries THEN e.fields ELSE {}
       IN  \E url \in [inURL -> Text \union {Empty}] :
           \E sent \in SUBSET inBody : \E body \in [sent -> Text] :
             /\ broken => sent = {} /\ e.carries
             /\ req' = [req EXCEPT ![c] =
                  [ep |-> e, cred |-> cred, url |-> url, body |-> body, broken |-> broken]]
             /\ view' = [view EXCEPT ![c] = [f \in e.fields |-> Zero(f)]]
             /\ pc' = [pc EXCEPT ![c] = IF e.auth THEN "auth" ELSE First(e)]
  /\ since' = [since EXCEPT ![c] = now]
  /\ UNCHANGED <<now, keyed, tokens, as, heard, failed, report, status, parts>>

Goto(c, to) == pc' = [pc EXCEPT ![c] = to]

\* A function with the values of another one over its own.
Over(old, new) ==
  [x \in DOMAIN old \union DOMAIN new |-> IF x \in DOMAIN new THEN new[x] ELSE old[x]]

\* WriteHeader has no effect the second time.
Respond(c, code, what) ==
  /\ status' = [status EXCEPT ![c] = IF @ = 0 THEN code ELSE @]
  /\ parts' = [parts EXCEPT ![c] = Append(@, what)]

\* writeJSONError, and the request is over.
Reject(c, code) == Respond(c, code, "error") /\ Goto(c, "done")

\* Faulty variant: a token without an expiry is expired.
VerifiedStrictly(t) == keyed /\ t.ours /\ ~(now > t.exp)

\* verifyToken.
Verified(t) == keyed /\ t.ours /\ ~(t.exp # 0 /\ now > t.exp)

\* requireAuth.
Authenticate(c) ==
  /\ pc[c] = "auth"
  /\ as' = [as EXCEPT ![c] = {t.sub : t \in {u \in req[c].cred : Verified(u)}}]
  /\ IF as'[c] = {}
       THEN Reject(c, 401)
       ELSE /\ Goto(c, First(req[c].ep))
            /\ UNCHANGED <<status, parts>>
  /\ UNCHANGED <<now, keyed, tokens, request, view, heard, failed, report>>

\* The integers of a width, and SetInt, which keeps the low bits.
Fits(n, half) == -half <= n /\ n < half
Wrap(n, half) == ((n + half) % (2 * half)) - half

\* setFieldValue accepts a text for a field: ParseInt takes 64 bits whatever the
\* field's width, ParseBool takes 0 and 1.
Accepted(f, t) ==
  CASE f.kind = "string" -> TRUE
    [] f.kind \in {"narrow", "wide"} -> t.is = "number" /\ Fits(t.n, Half.wide)
    [] f.kind = "bool" -> t.is = "truth" \/ (t.is = "number" /\ t.n \in {0, 1})
    [] OTHER -> FALSE

\* What an accepted text stands for, and what is left of it in the field.
Meaning(f, t) == IF f.kind = "bool" THEN [t EXCEPT !.is = "truth"] ELSE t
Converted(f, t) ==
  IF f.kind = "narrow" THEN [t EXCEPT !.n = Wrap(t.n, Half.narrow)] ELSE Meaning(f, t)

Given(c, tag) == {f \in Tagged(c, tag) : req[c].url[f] # Empty}

\* A decoder sets every field that it finds in the request, or reports an error.
Decode(c, values, acceptable, next) ==
  /\ IF acceptable
       THEN /\ view' = [view EXCEPT ![c] = Over(@, values)]
            /\ Goto(c, next)
            /\ UNCHANGED <<status, parts>>
       ELSE /\ Reject(c, 400)
            /\ UNCHANGED view
  /\ UNCHANGED <<now, keyed, tokens, request, as, heard, failed, report>>

\* decodePathParams.
DecodePath(c) ==
  /\ pc[c] = "path"
  /\ LET found == Given(c, "path")
         values == [f \in found |-> req[c].url[f]]
     IN  Decode(c, values, \A f \in found : f.kind = "string" /\ ~f.ptr, "query")

\* Faulty variant: what is unacceptable is skipped.
DecodeQueryLeniently(c) ==
  /\ pc[c] = "query"
  /\ LET found == {f \in Given(c, "query") : Accepted(f, req[c].url[f])}
         values == [f \in found |-> Converted(f, req[c].url[f])]
     IN  Decode(c, values, TRUE, IF req[c].ep.carries THEN "body" ELSE "handle")

\* decodeQueryParams.
DecodeQuery(c) ==
  /\ pc[c] = "query"
  /\ LET found == Given(c, "query")
         values == [f \in found |-> Converted(f, req[c].url[f])]
     IN  Decode(c, values, \A f \in found : Accepted(f, req[c].url[f]),
                IF req[c].ep.carries THEN "body" ELSE "handle")

\* encoding/json accepts a value for a field: of its type, and of its width.
Unmarshals(f, t) ==
  CASE f.kind = "string" -> t.is = "word"
    [] f.kind = "narrow" -> t.is = "number" /\ Fits(t.n, Half.narrow)
    [] f.kind = "wide" -> t.is = "number" /\ Fits(t.n, Half.wide)
    [] f.kind = "bool" -> t.is = "truth"
    [] OTHER -> t.is = "number"

\* The body is decoded over the same value, so it reaches every exported field.
DecodeBody(c) ==
  /\ pc[c] = "body"
  /\ LET body == req[c].body
     IN  Decode(c, body, ~req[c].broken /\ \A f \in DOMAIN body : Unmarshals(f, body[f]), "handle")

-----------------------------------------------------------------------------
\* Faulty variant: only an error that wraps one sentinel is looked at.
StatusForOne(wrapped) == IF Cardinality(wrapped) # 1 THEN 500 ELSE Min(wrapped)

\* statusFor asks for the sentinels in the order of their codes.
StatusFor(wrapped) == IF wrapped = {} THEN 500 ELSE Min(wrapped)

\* Handle returns a response or an error, which may wrap several sentinels.
Handle(c) ==
  /\ pc[c] = "handle" /\ ~req[c].ep.raw
  /\ heard' = [heard EXCEPT ![c] = TRUE]
  /\ \/ /\ Goto(c, "encode")
        /\ UNCHANGED <<failed, status, parts>>
     \/ \E wrapped \in SUBSET Sentinel :
          /\ failed' = [failed EXCEPT ![c] = wrapped]
          /\ Reject(c, StatusFor(wrapped))
  /\ UNCHANGED <<now, keyed, tokens, request, as, view, report>>

\* The encoder writes the whole response, or nothing if it cannot encode it.
Encode(c) ==
  /\ pc[c] = "encode"
  /\ Respond(c, 200, "response") \/ Respond(c, 500, "error")
  /\ Goto(c, "done")
  /\ UNCHANGED <<now, keyed, tokens, request, as, view, heard, failed, report>>

\* HandleRaw may write a response, and may return an error before or after.
HandleRaw(c) ==
  /\ pc[c] = "handle" /\ req[c].ep.raw
  /\ heard' = [heard EXCEPT ![c] = TRUE]
  /\ \/ /\ Respond(c, 200, "response")
        /\ Goto(c, "done")
        /\ UNCHANGED failed
     \/ \E wrapped \in SUBSET Sentinel :
          /\ failed' = [failed EXCEPT ![c] = wrapped]
          /\ Reject(c, StatusFor(wrapped))
     \/ \E wrapped \in SUBSET Sentinel :
          /\ failed' = [failed EXCEPT ![c] = wrapped]
          /\ status' = [status EXCEPT ![c] = 200]
          /\ parts' = [parts EXCEPT ![c] = <<"response", "error">>]
          /\ Goto(c, "done")
  /\ UNCHANGED <<now, keyed, tokens, request, as, view, report>>

-----------------------------------------------------------------------------
\* UserMeHandler says who the token is for.
UserMe(c) ==
  /\ pc[c] = "me"
  /\ heard' = [heard EXCEPT ![c] = TRUE]
  /\ Respond(c, 200, "response")
  /\ Goto(c, "done")
  /\ UNCHANGED <<now, keyed, tokens, request, as, view, failed, report>>

\* HealthHandler looks for the pool, which a server without a database does not
\* have, and pings.
HealthCheck(c) ==
  /\ pc[c] = "health"
  /\ \E found \in IF keyed THEN {"ok", "error"} ELSE {"not configured"} :
       report' = [report EXCEPT ![c] = [db |-> found, status |-> IF found = "error" THEN "error" ELSE "ok",
                                        left |-> Checker, named |-> <<>>]]
  /\ Goto(c, "ask")
  /\ UNCHANGED <<now, keyed, tokens, request, as, view, heard, failed, status, parts>>

\* Then it asks the registered checks, in the order of a map.  Names share the
\* document with its own entries: a check called "db" replaces that entry.
Ask(c) ==
  /\ pc[c] = "ask"
  /\ \E n \in report[c].left, found \in {"ok", "error"} :
       report' = [report EXCEPT ![c].left = @ \ {n}, ![c].named = Over(@, [m \in {n} |-> found]),
                                ![c].status = IF found = "error" THEN "error" ELSE @]
  /\ UNCHANGED <<now, keyed, tokens, pc, request, as, view, heard, failed, status, parts>>

\* What the document says of a name; "status" is written last.
Entry(c, name) ==
  IF name = "status" THEN report[c].status
  ELSE IF name \in DOMAIN report[c].named THEN report[c].named[name] ELSE report[c].db

\* The page is written, with its code.
Tell(c) ==
  /\ pc[c] = "ask" /\ report[c].left = {}
  /\ IF report[c].status = "ok" THEN Respond(c, 200, "response") ELSE Respond(c, 503, "error")
  /\ Goto(c, "done")
  /\ UNCHANGED <<now, keyed, tokens, request, as, view, heard, failed, report>>

\* StatusHandler and OpenAPIHandler ignore the encoder's error: a provider's value
\* that it refuses leaves an empty page.
Describe(c) ==
  /\ pc[c] \in {"status", "openapi"}
  /\ \/ Respond(c, 200, "response")
     \/ pc[c] = "status" /\ status' = [status EXCEPT ![c] = 200] /\ UNCHANGED parts
  /\ Goto(c, "done")
  /\ UNCHANGED <<now, keyed, tokens, request, as, view, heard, failed, report>>

\* frontendHandler: the development server's answer, or that it is not there; no
\* frontend at all; a file, a redirection to a directory or, for whatever else is
\* asked for, index.html.
Frontend(c) ==
  /\ pc[c] = "frontend"
  /\ \/ \E code \in {200, 301} : Respond(c, code, "response")
     \/ \E code \in {404, 502} : Respond(c, code, "error")
  /\ Goto(c, "done")
  /\ UNCHANGED <<now, keyed, tokens, request, as, view, heard, failed, report>>

Next ==
  \/ Tick
  \/ \E s \in Subject, until \in 0 .. MaxNow \union {Never} : IssueToken(s, until)
  \/ \E c \in Client :
       \/ Arrive(c) \/ Authenticate(c) \/ DecodePath(c) \/ DecodeQuery(c) \/ DecodeBody(c)
       \/ Handle(c) \/ Encode(c) \/ HandleRaw(c)
       \/ UserMe(c) \/ HealthCheck(c) \/ Ask(c) \/ Tell(c) \/ Describe(c) \/ Frontend(c)

Spec == Init /\ [][Next]_vars

-----------------------------------------------------------------------------
\* A token of this server that was not out of date at a time.  (A token that is
\* meant to expire at second 0 has no expiry, auth.go:44.)
Valid(t, time) == keyed /\ t.ours /\ (t.until > 0 => time <= t.until)

\* A request that needs a token reaches nothing but a 401, whatever else is
\* wrong with it, unless it has a token that was valid when it arrived; one
\* whose token is still valid when it is answered has been let through, and
\* been heard as the token's subject if at all.
AuthComesFirst ==
  \A c \in Client : pc[c] = "done" /\ req[c].ep.auth =>
    /\ (\A t \in req[c].cred : ~Valid(t, since[c])) => status[c] = 401 /\ ~heard[c]
    /\ \A t \in req[c].cred : Valid(t, now) => status[c] # 401 /\ as[c] = {t.sub}

\* What the URL says of a field, as a value of its type; and what the request does,
\* in which the body has the last word.
SentInURL(c, f) ==
  {Meaning(f, req[c].url[g]) : g \in {f} \intersect (Given(c, "path") \union Given(c, "query"))}
Sent(c, f) == IF f \in DOMAIN req[c].body THEN {req[c].body[f]} ELSE SentInURL(c, f)

\* The one exception to what follows: a query's integer that is wider than its
\* field, which ParseInt does not notice.  The field gets its low bits.
Truncated(f, value, sent) ==
  /\ f.kind = "narrow" /\ f.tag = "query"
  /\ \E v \in sent : ~Fits(v.n, Half.narrow) /\ value = [v EXCEPT !.n = Wrap(@, Half.narrow)]

\* A field has got what was sent for it, or zero if nothing was.
Conveyed(f, value, sent) ==
  \/ value \in sent
  \/ sent = {} /\ value = Zero(f)
  \/ Truncated(f, value, sent)

\* A typed handler that is called is given, for every field, what was sent for it:
\* no value that cannot be converted is dropped, no other one is changed, and no
\* decoder undoes what another has set.  But where the body holds a field that is
\* tagged `path` or `query`, the handler is given the body's value, although the
\* documentation has a path's field come from the URL (EXTEND.md:255).
GetsWhatWasSent ==
  \A c \in Client : heard[c] /\ ~req[c].ep.raw =>
    \A f \in req[c].ep.fields : Conveyed(f, view[c][f], Sent(c, f))

\* Something that the health page has asked for was found to be failing.
Failing(c) == report[c].db = "error" \/ \E n \in DOMAIN report[c].named : report[c].named[n] = "error"

\* One status and one document, which agree; an error is answered as one of the
\* sentinels that it wraps; the health page says 503 exactly if something was
\* failing, and never shows an error with a 200.
WellAnswered(c) ==
  /\ Len(parts[c]) = 1
  /\ parts[c] = <<"response">> <=> status[c] < 400
  /\ failed[c] # NoError => status[c] \in IF failed[c] = {} THEN {500} ELSE failed[c]
  /\ req[c].ep.route = "health" =>
       /\ Failing(c) <=> status[c] = 503
       /\ \A n \in {"db", "status"} \union Checker : status[c] = 200 => Entry(c, n) # "error"

\* Every request that ends is answered well.  But a raw handler that has written
\* its response before it reports an error has an error appended to it, and the
\* status page may be empty.
OneAnswer ==
  \A c \in Client : pc[c] = "done" =>
    \/ WellAnswered(c)
    \/ /\ req[c].ep.raw /\ failed[c] # NoError
       /\ parts[c] = <<"response", "error">> /\ status[c] = 200
    \/ req[c].ep.route = "status" /\ parts[c] = <<>> /\ status[c] = 200
=============================================================================
