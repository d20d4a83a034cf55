---------------------------- MODULE RequestProof ----------------------------
(***************************************************************************)
(* Proofs about Request, for any number of clients, endpoints and tokens,  *)
(* any integers and widths, and any names of health checks.                *)
(***************************************************************************)
EXTENDS Request, TLAPS

-----------------------------------------------------------------------------
(***************************************************************************)
(* The inductive invariant.                                                *)
(***************************************************************************)

\* The clock and the tokens: one that never expires says 0, as does one that is
\* meant to expire at second 0.
Clocked ==
  /\ now \in Nat
  /\ \A t \in tokens : t.ours =>
       t.until \in Nat \union {Never} /\ t.exp = IF t.until = Never THEN 0 ELSE t.until

\* Every client has its state.
Complete ==
  /\ DOMAIN pc = Client /\ DOMAIN req = Client /\ DOMAIN since = Client
  /\ DOMAIN as = Client /\ DOMAIN view = Client /\ DOMAIN heard = Client
  /\ DOMAIN failed = Client /\ DOMAIN report = Client
  /\ DOMAIN status = Client /\ DOMAIN parts = Client

\* What a client may have asked for.
Asked(c) ==
  pc[c] # "idle" =>
    /\ req[c].ep \in Routes
    /\ req[c].cred \subseteq tokens /\ \A t, u \in req[c].cred : t = u
    /\ req[c].url \in [{f \in req[c].ep.fields : f.tag # "json"} -> Text \union {Empty}]
    /\ DOMAIN req[c].body \subseteq IF req[c].ep.carries THEN req[c].ep.fields ELSE {}
    /\ since[c] \in Nat /\ since[c] <= now

\* Only requests to their own routes get to each place.
Routed(c) ==
  /\ pc[c] = "auth" => req[c].ep.auth
  /\ pc[c] \in {"path", "query", "body", "encode"} =>
       req[c].ep.route = "project" /\ ~req[c].ep.raw
  /\ pc[c] = "handle" => req[c].ep.route = "project"
  /\ pc[c] \in {"me", "health", "status", "openapi", "frontend"} => req[c].ep.route = pc[c]
  /\ pc[c] = "ask" => req[c].ep.route = "health"

\* Nothing is answered before the end, and no handler called before its turn.
Unanswered(c) ==
  /\ pc[c] # "done" => status[c] = 0 /\ parts[c] = <<>> /\ failed[c] = NoError
  /\ heard[c] => pc[c] \in {"encode", "done"}

\* A request has been let in with a token that was valid when it arrived.
LetIn(c) ==
  /\ \E t \in req[c].cred : as[c] = {t.sub} /\ Valid(t, since[c])
  /\ status[c] # 401

\* A request has been turned away, with no token that is still valid.
TurnedAway(c) ==
  /\ pc[c] = "done" /\ status[c] = 401 /\ ~heard[c]
  /\ \A t \in req[c].cred : ~Valid(t, now)

Authenticated(c) ==
  pc[c] \notin {"idle", "auth"} /\ req[c].ep.auth => LetIn(c) \/ TurnedAway(c)

\* What each decoder leaves to the next one.
FromPath(c, f) ==
  /\ view[c][f] = IF f \in Given(c, "path") THEN req[c].url[f] ELSE Zero(f)
  /\ f \in Given(c, "path") => f.kind = "string"

Decoded(c) ==
  /\ pc[c] \in {"auth", "path", "query", "body"} => DOMAIN view[c] = req[c].ep.fields
  /\ pc[c] \in {"auth", "path"} => \A f \in req[c].ep.fields : view[c][f] = Zero(f)
  /\ pc[c] = "query" => \A f \in req[c].ep.fields : FromPath(c, f)
  /\ pc[c] = "body" =>
       \A f \in req[c].ep.fields : Conveyed(f, view[c][f], SentInURL(c, f))
  /\ (pc[c] = "handle" \/ heard[c]) /\ ~req[c].ep.raw =>
       \A f \in req[c].ep.fields : Conveyed(f, view[c][f], Sent(c, f))

\* The health page is failing exactly if something was found to be.
Found == {"ok", "error"}
OfDatabase == {"ok", "error", "not configured"}
Findings == UNION {[S -> Found] : S \in SUBSET Checker}
Page == [db : OfDatabase, status : Found, left : SUBSET Checker, named : Findings]

Reported(c) ==
  (pc[c] = "ask" \/ (pc[c] = "done" /\ req[c].ep.route = "health")) =>
    /\ report[c] \in Page
    /\ DOMAIN report[c].named = Checker \ report[c].left
    /\ report[c].status = "error" <=> Failing(c)

Answered(c) ==
  pc[c] = "done" =>
    \/ WellAnswered(c)
    \/ /\ req[c].ep.raw /\ failed[c] # NoError
       /\ parts[c] = <<"response", "error">> /\ status[c] = 200
    \/ req[c].ep.route = "status" /\ parts[c] = <<>> /\ status[c] = 200

ClientInv(c) ==
  /\ Asked(c) /\ Routed(c) /\ Unanswered(c)
  /\ Authenticated(c) /\ Decoded(c) /\ Reported(c) /\ Answered(c)

IInv == Clocked /\ Complete /\ \A c \in Client : ClientInv(c)

-----------------------------------------------------------------------------
(***************************************************************************)
(* Steps of one client and of the others.                                  *)
(***************************************************************************)

ClientStep(c) ==
  \/ Arrive(c) \/ Authenticate(c) \/ DecodePath(c) \/ DecodeQuery(c) \/ DecodeBody(c)
  \/ Handle(c) \/ Encode(c) \/ HandleRaw(c)
  \/ UserMe(c) \/ HealthCheck(c) \/ Ask(c) \/ Tell(c) \/ Describe(c) \/ Frontend(c)

Same(d) ==
  /\ pc'[d] = pc[d] /\ req'[d] = req[d] /\ since'[d] = since[d] /\ as'[d] = as[d]
  /\ view'[d] = view[d] /\ heard'[d] = heard[d] /\ failed'[d] = failed[d]
  /\ report'[d] = report[d] /\ status'[d] = status[d] /\ parts'[d] = parts[d]

\* A step of one client leaves the server and all other clients alone.
LEMMA Elsewhere ==
  ASSUME Complete, NEW c \in Client, ClientStep(c)
  PROVE  /\ UNCHANGED <<now, keyed, tokens>> /\ Complete'
         /\ \A d \in Client \ {c} : Same(d)
<1> USE DEF Complete, Same, Goto, Respond, Reject, Decode, request
<1>1. CASE Arrive(c)
  BY <1>1 DEF Arrive
<1>2. CASE Authenticate(c)
  BY <1>2 DEF Authenticate
<1>3. CASE DecodePath(c) \/ DecodeQuery(c) \/ DecodeBody(c)
  BY <1>3 DEF DecodePath, DecodeQuery, DecodeBody
<1>4. CASE Handle(c)
  BY <1>4 DEF Handle
<1>5. CASE Encode(c)
  BY <1>5 DEF Encode
<1>6. CASE HandleRaw(c)
  BY <1>6 DEF HandleRaw
<1>7. CASE UserMe(c)
  BY <1>7 DEF UserMe
<1>8. CASE HealthCheck(c)
  BY <1>8 DEF HealthCheck
<1>9. CASE Ask(c)
  BY <1>9 DEF Ask
<1>10. CASE Tell(c)
  BY <1>10 DEF Tell
<1>11. CASE Describe(c)
  BY <1>11 DEF Describe
<1>12. CASE Frontend(c)
  BY <1>12 DEF Frontend
<1>. QED
  BY <1>1, <1>2, <1>3, <1>4, <1>5, <1>6, <1>7, <1>8, <1>9, <1>10, <1>11, <1>12 DEF ClientStep

\* A client that takes no step keeps its invariant while time passes and tokens
\* are issued.
LEMMA OtherClient ==
  ASSUME Clocked, NEW d \in Client, ClientInv(d), Same(d),
         keyed' = keyed, tokens \subseteq tokens', now' \in Nat, now <= now'
  PROVE  ClientInv(d)'
<1> USE DEF ClientInv, Same
<1>1. Asked(d)'
  BY DEF Asked, Clocked
<1>2. Routed(d)' /\ Unanswered(d)'
  BY DEF Routed, Unanswered
<1>3. Authenticated(d)'
  <2> SUFFICES ASSUME pc[d] \notin {"idle", "auth"}, req[d].ep.auth
               PROVE  LetIn(d)' \/ TurnedAway(d)'
    BY DEF Authenticated
  <2>1. req[d].cred \subseteq tokens
    BY DEF Asked
  <2>2. ASSUME NEW t \in tokens, Valid(t, now)' PROVE Valid(t, now)
    BY <2>2 DEF Valid, Clocked, Never
  <2>3. CASE LetIn(d)
    BY <2>3 DEF LetIn, Valid
  <2>4. CASE TurnedAway(d)
    BY <2>1, <2>2, <2>4 DEF TurnedAway
  <2>. QED  BY <2>3, <2>4 DEF Authenticated
<1>4. Decoded(d)'
  <2>1. Given(d, "path")' = Given(d, "path") /\ Given(d, "query")' = Given(d, "query")
    BY DEF Given, Tagged
  <2>2. \A f : SentInURL(d, f)' = SentInURL(d, f)
    BY <2>1 DEF SentInURL
  <2>3. \A f : Sent(d, f)' = Sent(d, f)
    BY <2>2 DEF Sent
  <2>. QED  BY <2>1, <2>2, <2>3 DEF Decoded, FromPath
<1>5. Reported(d)'
  BY DEF Reported, Failing
<1>6. Answered(d)'
  BY DEF Answered, WellAnswered, Failing, Entry
<1>. QED  BY <1>1, <1>2, <1>3, <1>4, <1>5, <1>6

-----------------------------------------------------------------------------
(***************************************************************************)
(* Facts about the operators.                                              *)
(***************************************************************************)

\* A route is the project's, or one of NewMux's own, of which only the user's
\* page needs a token.
LEMMA RouteType ==
  ASSUME NEW e \in Routes
  PROVE  \/ e.route = "project"
         \/ /\ e.route \in {"health", "status", "openapi", "me", "frontend"} /\ e.raw
            /\ e.auth => e.route = "me"
BY RequestAssumption DEF Routes, Own

\* What HandleRaw and Handle answer an error with is one of the sentinels in it.
LEMMA StatusForType ==
  ASSUME NEW wrapped \in SUBSET Sentinel
  PROVE  /\ StatusFor(wrapped) \in IF wrapped = {} THEN {500} ELSE wrapped
         /\ StatusFor(wrapped) \in Nat /\ StatusFor(wrapped) >= 400 /\ StatusFor(wrapped) # 401
         /\ wrapped # NoError
<1>1. ASSUME wrapped # {} PROVE Min(wrapped) \in wrapped
  <2>1. \E x \in wrapped : \A y \in wrapped : x <= y
    <3>. PICK z : z \in wrapped
      BY <1>1
    <3> USE DEF Sentinel
    <3>1. CASE 400 \in wrapped
      BY <3>1
    <3>2. CASE 400 \notin wrapped /\ 403 \in wrapped
      BY <3>2
    <3>3. CASE wrapped \intersect {400, 403} = {} /\ 404 \in wrapped
      BY <3>3
    <3>4. CASE wrapped \intersect {400, 403, 404} = {} /\ 409 \in wrapped
      BY <3>4
    <3>5. CASE wrapped \intersect {400, 403, 404, 409} = {}
      <4>1. \A x \in wrapped : x = 503
        BY <3>5
      <4>2. z = 503 /\ \A y \in wrapped : z <= y
        BY <4>1
      <4>. QED  BY <4>2
    <3>. QED  BY <3>1, <3>2, <3>3, <3>4, <3>5
  <2>. QED  BY <2>1 DEF Min
<1>2. StatusFor(wrapped) = 500 \/ StatusFor(wrapped) \in wrapped
  BY <1>1 DEF StatusFor
<1>3. 0 \notin wrapped
  BY DEF Sentinel
<1>4. \A x \in Sentinel : x \in Nat /\ x >= 400 /\ x # 401
  BY DEF Sentinel
<1>5. wrapped # NoError
  BY <1>3 DEF NoError
<1>6. StatusFor(wrapped) \in IF wrapped = {} THEN {500} ELSE wrapped
  BY <1>1 DEF StatusFor
<1>. QED  BY <1>2, <1>4, <1>5, <1>6

\* A number that fits is not changed by SetInt.
LEMMA WrapFits ==
  ASSUME NEW n \in Int, NEW half \in Nat \ {0}, Fits(n, half)
  PROVE  Wrap(n, half) = n
BY DEF Fits, Wrap

\* What an accepted text becomes is what it stands for, if that fits.
LEMMA ConvertedFits ==
  ASSUME NEW f, NEW t \in Text, Accepted(f, t),
         ~(f.kind = "narrow" /\ ~Fits(Meaning(f, t).n, Half.narrow))
  PROVE  Converted(f, t) = Meaning(f, t)
<1>1. CASE f.kind # "narrow"
  BY <1>1 DEF Converted
<1>2. CASE f.kind = "narrow"
  <2>1. Meaning(f, t) = t /\ Fits(t.n, Half.narrow) /\ Half.narrow \in Nat \ {0} /\ t.n \in Int
    BY <1>2, RequestAssumption DEF Meaning, Text
  <2>2. Wrap(t.n, Half.narrow) = t.n
    BY <2>1, WrapFits
  <2>3. [t EXCEPT !.n = t.n] = t
    BY DEF Text
  <2>. QED  BY <1>2, <2>1, <2>2, <2>3 DEF Converted
<1>. QED  BY <1>1, <1>2

-----------------------------------------------------------------------------
(***************************************************************************)
(* What a step keeps of the invariant of the client that takes it.         *)
(***************************************************************************)

\* A request that has been let in stays so unless it is answered with a 401.
LEMMA StaysLetIn ==
  ASSUME IInv, NEW c \in Client, pc[c] \notin {"idle", "auth", "done"},
         UNCHANGED <<now, keyed, tokens, request, as>>, status'[c] # 401
  PROVE  Asked(c)' /\ Authenticated(c)'
<1>1. ClientInv(c)
  BY DEF IInv
<1>2. Asked(c)'
  BY <1>1 DEF ClientInv, Asked, request
<1>3. req[c].ep.auth => LetIn(c)
  BY <1>1 DEF ClientInv, Authenticated, TurnedAway
<1>4. req[c].ep.auth => LetIn(c)'
  BY <1>3 DEF LetIn, Valid, request
<1>. QED  BY <1>2, <1>4 DEF Authenticated, request

\* The one answer to a request, if it is not to the health page.
LEMMA Ending ==
  ASSUME IInv, NEW c \in Client, pc[c] # "done", req' = req,
         NEW code \in Nat, NEW what \in {"response", "error"}, what = "response" <=> code < 400,
         Respond(c, code, what), Goto(c, "done"),
         req[c].ep.route # "health",
         failed'[c] # NoError => code \in IF failed'[c] = {} THEN {500} ELSE failed'[c]
  PROVE  /\ Answered(c)' /\ Unanswered(c)' /\ Routed(c)' /\ Reported(c)'
         /\ pc'[c] = "done" /\ status'[c] = code
<1>1. status[c] = 0 /\ parts[c] = <<>>
  BY DEF IInv, ClientInv, Unanswered
<1>2. pc'[c] = "done" /\ status'[c] = code
  BY <1>1 DEF IInv, Complete, Respond, Goto
<1>3. parts'[c] = <<what>>
  BY <1>1 DEF IInv, Complete, Respond
<1>4. Len(parts'[c]) = 1 /\ (parts'[c] = <<"response">> <=> what = "response")
  BY <1>3
<1>5. WellAnswered(c)'
  BY <1>2, <1>4 DEF WellAnswered
<1>. QED  BY <1>2, <1>5 DEF Answered, Unanswered, Routed, Reported

\* A request starts with a value that is zero.
LEMMA ArriveInv ==
  ASSUME IInv, NEW c \in Client, Arrive(c) PROVE ClientInv(c)'
<1>1. PICK e \in Routes, cred \in {{}} \union {{t} : t \in tokens}, broken \in BOOLEAN :
        LET inURL == {f \in e.fields : f.tag # "json"}
            inBody == IF e.carries THEN e.fields ELSE {}
        IN  \E url \in [inURL -> Text \union {Empty}] :
            \E sent \in SUBSET inBody : \E body \in [sent -> Text] :
              /\ broken => sent = {} /\ e.carries
              /\ req' = [req EXCEPT ![c] =
                   [ep |-> e, cred |-> cred, url |-> url, body |-> body, broken |-> broken]]
              /\ view' = [view EXCEPT ![c] = [f \in e.fields |-> Zero(f)]]
              /\ pc' = [pc EXCEPT ![c] = IF e.auth THEN "auth" ELSE First(e)]
  BY DEF Arrive
<1>2. PICK url \in [{f \in e.fields : f.tag # "json"} -> Text \union {Empty}],
           sent \in SUBSET (IF e.carries THEN e.fields ELSE {}) :
        \E body \in [sent -> Text] :
          /\ req' = [req EXCEPT ![c] =
               [ep |-> e, cred |-> cred, url |-> url, body |-> body, broken |-> broken]]
          /\ view' = [view EXCEPT ![c] = [f \in e.fields |-> Zero(f)]]
          /\ pc' = [pc EXCEPT ![c] = IF e.auth THEN "auth" ELSE First(e)]
  BY <1>1
<1>3. PICK body \in [sent -> Text] :
        /\ req' = [req EXCEPT ![c] =
             [ep |-> e, cred |-> cred, url |-> url, body |-> body, broken |-> broken]]
        /\ view' = [view EXCEPT ![c] = [f \in e.fields |-> Zero(f)]]
        /\ pc' = [pc EXCEPT ![c] = IF e.auth THEN "auth" ELSE First(e)]
  BY <1>2
<1>4. /\ req'[c] = [ep |-> e, cred |-> cred, url |-> url, body |-> body, broken |-> broken]
      /\ view'[c] = [f \in e.fields |-> Zero(f)]
      /\ pc'[c] = IF e.auth THEN "auth" ELSE First(e)
  BY <1>3 DEF IInv, Complete
<1>5. /\ pc[c] = "idle" /\ since'[c] = now /\ heard'[c] = heard[c] /\ status'[c] = status[c]
      /\ parts'[c] = parts[c] /\ failed'[c] = failed[c] /\ tokens' = tokens /\ now' = now
  BY DEF Arrive, IInv, Complete
<1>6. status[c] = 0 /\ parts[c] = <<>> /\ failed[c] = NoError /\ ~heard[c]
  BY <1>5 DEF IInv, ClientInv, Unanswered
<1>7. /\ pc'[c] \in {"auth", "path", "handle", "me", "health", "status", "openapi", "frontend"}
      /\ e.auth <=> pc'[c] = "auth"
      /\ pc'[c] = "path" => e.route = "project" /\ ~e.raw
      /\ pc'[c] = "handle" => e.route = "project" /\ e.raw
      /\ pc'[c] \in {"me", "health", "status", "openapi", "frontend"} => e.route = pc'[c]
  BY <1>4, RouteType DEF First
<1>8. Asked(c)'
  BY <1>4, <1>5 DEF Asked, IInv, Clocked
<1>9. Routed(c)' /\ Authenticated(c)'
  BY <1>4, <1>7 DEF Routed, Authenticated
<1>10. Unanswered(c)' /\ Reported(c)' /\ Answered(c)'
  BY <1>5, <1>6, <1>7 DEF Unanswered, Reported, Answered
<1>11. Decoded(c)'
  BY <1>4, <1>5, <1>6, <1>7 DEF Decoded
<1>. QED  BY <1>8, <1>9, <1>10, <1>11 DEF ClientInv

\* requireAuth looks at the clock between the request's arrival and its answer.
LEMMA AuthenticateInv ==
  ASSUME IInv, NEW c \in Client, Authenticate(c) PROVE ClientInv(c)'
<1>1. /\ pc[c] = "auth" /\ UNCHANGED <<now, keyed, tokens, request, view, heard, failed, report>>
      /\ as'[c] = {t.sub : t \in {u \in req[c].cred : Verified(u)}}
  BY DEF Authenticate, IInv, Complete
<1>2. /\ ClientInv(c) /\ Clocked
      /\ req[c].ep \in Routes /\ req[c].ep.auth /\ req[c].cred \subseteq tokens
      /\ \A t, u \in req[c].cred : t = u
      /\ since[c] \in Nat /\ since[c] <= now
  BY <1>1 DEF IInv, ClientInv, Asked, Routed
<1>3. ~heard[c] /\ status[c] = 0 /\ parts[c] = <<>> /\ failed[c] = NoError
  BY <1>1, <1>2 DEF ClientInv, Unanswered
<1>4. req[c].ep.route \in {"project", "me"}
  BY <1>2, RouteType
<1>5. Asked(c)'
  BY <1>1, <1>2 DEF Asked, request, ClientInv
<1>6. CASE as'[c] = {}
  <2>1. Respond(c, 401, "error") /\ Goto(c, "done")
    BY <1>6 DEF Authenticate, Reject
  <2>2. /\ Answered(c)' /\ Unanswered(c)' /\ Routed(c)' /\ Reported(c)'
        /\ pc'[c] = "done" /\ status'[c] = 401
    BY <1>1, <1>3, <1>4, <2>1, Ending DEF request
  <2>3. ASSUME NEW t \in req[c].cred PROVE ~Valid(t, now)
    <3>1. ~Verified(t)
      BY <1>1, <1>6
    <3>. QED  BY <1>2, <3>1 DEF Verified, Valid, Clocked, Never
  <2>4. TurnedAway(c)'
    BY <1>1, <1>3, <2>2, <2>3 DEF TurnedAway, Valid, request
  <2>5. Decoded(c)'
    BY <1>1, <1>3, <2>2 DEF Decoded
  <2>. QED  BY <1>5, <2>2, <2>4, <2>5 DEF ClientInv, Authenticated
<1>7. CASE as'[c] # {}
  <2>1. /\ pc'[c] = First(req[c].ep) /\ status' = status /\ parts' = parts
    BY <1>7 DEF Authenticate, Goto, IInv, Complete
  <2>2. /\ pc'[c] \in {"path", "handle", "me"}
        /\ pc'[c] = "path" => req[c].ep.route = "project" /\ ~req[c].ep.raw
        /\ pc'[c] = "handle" => req[c].ep.route = "project" /\ req[c].ep.raw
        /\ pc'[c] = "me" => req[c].ep.route = "me"
    BY <1>4, <2>1 DEF First
  <2>3. LetIn(c)'
    <3>1. PICK t \in req[c].cred : Verified(t)
      BY <1>1, <1>7
    <3>2. as'[c] = {t.sub}
      BY <1>1, <1>2, <3>1
    <3>3. Valid(t, since[c])
      BY <1>2, <3>1 DEF Verified, Valid, Clocked, Never
    <3>. QED  BY <1>1, <1>3, <2>1, <3>2, <3>3 DEF LetIn, Valid, request
  <2>4. Routed(c)' /\ Unanswered(c)' /\ Reported(c)' /\ Answered(c)'
    BY <1>1, <1>3, <2>1, <2>2 DEF Routed, Unanswered, Reported, Answered, request
  <2>5. Decoded(c)'
    BY <1>1, <1>2, <1>3, <2>2 DEF ClientInv, Decoded, request
  <2>. QED  BY <1>5, <2>3, <2>4, <2>5 DEF ClientInv, Authenticated
<1>. QED  BY <1>6, <1>7

\* A decoder that reports an error answers with a 400 and calls no handler.
LEMMA DecodeFails ==
  ASSUME IInv, NEW c \in Client, pc[c] \in {"path", "query", "body"}, Reject(c, 400),
         UNCHANGED <<now, keyed, tokens, request, as, view, heard, failed, report>>
  PROVE  ClientInv(c)'
<1>1. ClientInv(c) /\ ~heard[c] /\ failed[c] = NoError /\ req[c].ep.route = "project" /\ req' = req
  BY DEF IInv, ClientInv, Unanswered, Routed, request
<1>2. /\ Answered(c)' /\ Unanswered(c)' /\ Routed(c)' /\ Reported(c)'
      /\ pc'[c] = "done" /\ status'[c] = 400
  BY <1>1, Ending DEF Reject
<1>3. Asked(c)' /\ Authenticated(c)'
  BY <1>2, StaysLetIn
<1>4. Decoded(c)'
  BY <1>1, <1>2 DEF Decoded
<1>. QED  BY <1>1, <1>2, <1>3, <1>4 DEF ClientInv

\* A decoder that goes on leaves all but the value as it was.
LEMMA DecodeGoesOn ==
  ASSUME IInv, NEW c \in Client, NEW to \in {"query", "body", "handle"}, Goto(c, to),
         pc[c] \in {"path", "query", "body"},
         UNCHANGED <<now, keyed, tokens, request, as, heard, failed, report, status, parts>>,
         Decoded(c)'
  PROVE  ClientInv(c)'
<1>1. /\ ClientInv(c) /\ pc'[c] = to /\ req' = req
      /\ req[c].ep.route = "project" /\ ~req[c].ep.raw
      /\ ~heard[c] /\ status[c] = 0 /\ parts[c] = <<>> /\ failed[c] = NoError
  BY DEF IInv, Complete, ClientInv, Unanswered, Routed, Goto, request
<1>2. Asked(c)' /\ Authenticated(c)'
  BY <1>1, StaysLetIn
<1>3. Routed(c)' /\ Unanswered(c)' /\ Reported(c)' /\ Answered(c)'
  BY <1>1 DEF Routed, Unanswered, Reported, Answered
<1>. QED  BY <1>2, <1>3 DEF ClientInv

\* decodePathParams sets strings only.
LEMMA DecodePathInv ==
  ASSUME IInv, NEW c \in Client, DecodePath(c) PROVE ClientInv(c)'
<1> DEFINE found == Given(c, "path")
           values == [f \in found |-> req[c].url[f]]
           acceptable == \A f \in found : f.kind = "string" /\ ~f.ptr
<1>1. pc[c] = "path" /\ Decode(c, values, acceptable, "query")
  BY DEF DecodePath
<1>2. CASE ~acceptable
  BY <1>1, <1>2, DecodeFails DEF Decode
<1>3. CASE acceptable
  <2>1. /\ Goto(c, "query")
        /\ UNCHANGED <<now, keyed, tokens, request, as, heard, failed, report, status, parts>>
        /\ view'[c] = Over(view[c], values) /\ pc'[c] = "query"
    BY <1>1, <1>3 DEF Decode, IInv, Complete, Goto
  <2>2. /\ DOMAIN view[c] = req[c].ep.fields /\ ~heard[c] /\ req' = req /\ heard' = heard
        /\ \A f \in req[c].ep.fields : view[c][f] = Zero(f)
    BY <1>1, <2>1 DEF IInv, ClientInv, Decoded, Unanswered, request
  <2>3. found \subseteq req[c].ep.fields
    BY DEF Given, Tagged
  <2>4. /\ DOMAIN view'[c] = req[c].ep.fields
        /\ \A f \in req[c].ep.fields :
             view'[c][f] = IF f \in found THEN req[c].url[f] ELSE Zero(f)
    BY <2>1, <2>2, <2>3 DEF Over
  <2>5. Given(c, "path")' = found
    BY <2>2 DEF Given, Tagged
  <2>6. Decoded(c)'
    BY <1>3, <2>1, <2>2, <2>4, <2>5 DEF Decoded, FromPath
  <2>. QED  BY <1>1, <2>1, <2>6, DecodeGoesOn
<1>. QED  BY <1>2, <1>3

\* What is in the URL is sent for the field that it is for.
LEMMA InURL ==
  ASSUME NEW c, NEW f, f \in Given(c, "path") \/ f \in Given(c, "query")
  PROVE  SentInURL(c, f) = {Meaning(f, req[c].url[f])}
BY DEF SentInURL

\* decodeQueryParams sets what it can convert and refuses the rest.
LEMMA DecodeQueryInv ==
  ASSUME IInv, NEW c \in Client, DecodeQuery(c) PROVE ClientInv(c)'
<1> DEFINE found == Given(c, "query")
           values == [f \in found |-> Converted(f, req[c].url[f])]
           acceptable == \A f \in found : Accepted(f, req[c].url[f])
           to == IF req[c].ep.carries THEN "body" ELSE "handle"
<1>1. pc[c] = "query" /\ Decode(c, values, acceptable, to)
  BY DEF DecodeQuery
<1>2. CASE ~acceptable
  BY <1>1, <1>2, DecodeFails DEF Decode
<1>3. CASE acceptable
  <2>1. /\ Goto(c, to)
        /\ UNCHANGED <<now, keyed, tokens, request, as, heard, failed, report, status, parts>>
        /\ view'[c] = Over(view[c], values) /\ pc'[c] = to
    BY <1>1, <1>3 DEF Decode, IInv, Complete, Goto
  <2>2. /\ DOMAIN view[c] = req[c].ep.fields /\ ~heard[c] /\ req' = req /\ heard' = heard
        /\ ~req[c].ep.raw
        /\ \A f \in req[c].ep.fields : FromPath(c, f)
        /\ req[c].url \in [{f \in req[c].ep.fields : f.tag # "json"} -> Text \union {Empty}]
        /\ DOMAIN req[c].body \subseteq IF req[c].ep.carries THEN req[c].ep.fields ELSE {}
    BY <1>1, <2>1 DEF IInv, ClientInv, Decoded, Unanswered, Routed, Asked, request
  <2>3. found \subseteq req[c].ep.fields
    BY DEF Given, Tagged
  <2>4. /\ DOMAIN view'[c] = req[c].ep.fields
        /\ \A f \in req[c].ep.fields :
             view'[c][f] = IF f \in found THEN Converted(f, req[c].url[f]) ELSE view[c][f]
    BY <2>1, <2>2, <2>3 DEF Over
  <2>5. ASSUME NEW f \in req[c].ep.fields PROVE Conveyed(f, view'[c][f], SentInURL(c, f))
    <3>1. CASE f \in found
      <4>1. req[c].url[f] \in Text /\ Accepted(f, req[c].url[f])
        BY <1>3, <2>2, <3>1 DEF Given, Tagged
      <4>2. SentInURL(c, f) = {Meaning(f, req[c].url[f])} /\ f.tag = "query"
        BY <3>1, InURL DEF Given, Tagged
      <4>3. CASE f.kind = "narrow" /\ ~Fits(Meaning(f, req[c].url[f]).n, Half.narrow)
        <5>1. Meaning(f, req[c].url[f]) = req[c].url[f]
          BY <4>3 DEF Meaning
        <5>2. view'[c][f] = [req[c].url[f] EXCEPT !.n = Wrap(@, Half.narrow)]
          BY <2>4, <3>1, <4>3 DEF Converted
        <5>. QED  BY <4>2, <4>3, <5>1, <5>2 DEF Conveyed, Truncated
      <4>4. CASE ~(f.kind = "narrow" /\ ~Fits(Meaning(f, req[c].url[f]).n, Half.narrow))
        BY <2>4, <3>1, <4>1, <4>2, <4>4, ConvertedFits DEF Conveyed
      <4>. QED  BY <4>3, <4>4
    <3>2. CASE f \in Given(c, "path")
      <4>1. f \notin found /\ f.kind = "string"
        BY <2>2, <3>2 DEF Given, Tagged, FromPath
      <4>2. view'[c][f] = req[c].url[f] /\ Meaning(f, req[c].url[f]) = req[c].url[f]
        BY <2>2, <2>4, <3>2, <4>1 DEF FromPath, Meaning
      <4>. QED  BY <3>2, <4>2, InURL DEF Conveyed
    <3>3. CASE f \notin found /\ f \notin Given(c, "path")
      <4>1. SentInURL(c, f) = {}
        BY <3>3 DEF SentInURL
      <4>2. view'[c][f] = Zero(f)
        BY <2>2, <2>4, <3>3 DEF FromPath
      <4>. QED  BY <4>1, <4>2 DEF Conveyed
    <3>. QED  BY <3>1, <3>2, <3>3
  <2>6. \A f : SentInURL(c, f)' = SentInURL(c, f)
    BY <2>2 DEF SentInURL, Given, Tagged
  <2>7. ASSUME ~req[c].ep.carries PROVE \A f : Sent(c, f)' = SentInURL(c, f)
    BY <2>2, <2>6, <2>7 DEF Sent
  <2>8. Decoded(c)'
    BY <2>1, <2>2, <2>4, <2>5, <2>6, <2>7 DEF Decoded
  <2>. QED  BY <1>1, <2>1, <2>8, DecodeGoesOn
<1>. QED  BY <1>2, <1>3

\* The body is decoded over what the URL has said.
LEMMA DecodeBodyInv ==
  ASSUME IInv, NEW c \in Client, DecodeBody(c) PROVE ClientInv(c)'
<1> DEFINE body == req[c].body
           acceptable == ~req[c].broken /\ \A f \in DOMAIN body : Unmarshals(f, body[f])
<1>1. pc[c] = "body" /\ Decode(c, body, acceptable, "handle")
  BY DEF DecodeBody
<1>2. CASE ~acceptable
  BY <1>1, <1>2, DecodeFails DEF Decode
<1>3. CASE acceptable
  <2>1. /\ Goto(c, "handle")
        /\ UNCHANGED <<now, keyed, tokens, request, as, heard, failed, report, status, parts>>
        /\ view'[c] = Over(view[c], body) /\ pc'[c] = "handle"
    BY <1>1, <1>3 DEF Decode, IInv, Complete, Goto
  <2>2. /\ DOMAIN view[c] = req[c].ep.fields /\ req' = req
        /\ \A f \in req[c].ep.fields : Conveyed(f, view[c][f], SentInURL(c, f))
    BY <1>1, <2>1 DEF IInv, ClientInv, Decoded, request
  <2>3. \A f \in req[c].ep.fields : view'[c][f] = IF f \in DOMAIN body THEN body[f] ELSE view[c][f]
    BY <2>1, <2>2 DEF Over
  <2>4. ASSUME NEW f \in req[c].ep.fields PROVE Conveyed(f, view'[c][f], Sent(c, f))
    <3>1. CASE f \in DOMAIN body
      BY <2>3, <3>1 DEF Conveyed, Sent
    <3>2. CASE f \notin DOMAIN body
      <4>1. Sent(c, f) = SentInURL(c, f)
        BY <3>2 DEF Sent
      <4>. QED  BY <2>2, <2>3, <3>2, <4>1
    <3>. QED  BY <3>1, <3>2
  <2>5. \A f : Sent(c, f)' = Sent(c, f)
    BY <2>2 DEF Sent, SentInURL, Given, Tagged
  <2>6. Decoded(c)'
    BY <2>1, <2>2, <2>4, <2>5 DEF Decoded
  <2>. QED  BY <1>1, <2>1, <2>6, DecodeGoesOn
<1>. QED  BY <1>2, <1>3

\* An answer that is the only one ends a request well, unless it is to the health
\* page, which says more.
LEMMA Answering ==
  ASSUME IInv, NEW c \in Client,
         pc[c] \in {"handle", "encode", "me", "status", "openapi", "frontend"},
         UNCHANGED <<now, keyed, tokens, request, as, view>>,
         NEW code \in Nat, NEW what \in {"response", "error"}, what = "response" <=> code < 400,
         Respond(c, code, what), Goto(c, "done"), code # 401,
         failed'[c] # NoError => code \in IF failed'[c] = {} THEN {500} ELSE failed'[c],
         pc[c] = "handle" \/ heard'[c] = heard[c] \/ req[c].ep.raw
  PROVE  ClientInv(c)'
<1>1. ClientInv(c) /\ req' = req /\ req[c].ep.route # "health"
  BY DEF IInv, ClientInv, Routed, request
<1>2. /\ Answered(c)' /\ Unanswered(c)' /\ Routed(c)' /\ Reported(c)'
      /\ pc'[c] = "done" /\ status'[c] = code
  BY <1>1, Ending
<1>3. Asked(c)' /\ Authenticated(c)'
  BY <1>2, StaysLetIn
<1>4. \A f : Sent(c, f)' = Sent(c, f)
  BY <1>1 DEF Sent, SentInURL, Given, Tagged
<1>5. Decoded(c)'
  BY <1>1, <1>2, <1>4 DEF ClientInv, Decoded
<1>. QED  BY <1>2, <1>3, <1>5 DEF ClientInv

\* A handler's error decides the status; a response is yet to be encoded.
LEMMA HandleInv ==
  ASSUME IInv, NEW c \in Client, Handle(c) PROVE ClientInv(c)'
<1>1. /\ pc[c] = "handle" /\ ~req[c].ep.raw /\ heard'[c]
      /\ UNCHANGED <<now, keyed, tokens, request, as, view, report>>
      /\ ClientInv(c) /\ req' = req
  BY DEF Handle, IInv, Complete, ClientInv, request
<1>2. CASE Goto(c, "encode") /\ UNCHANGED <<failed, status, parts>>
  <2>1. pc'[c] = "encode" /\ status'[c] = 0 /\ parts'[c] = <<>> /\ failed'[c] = NoError
    BY <1>1, <1>2 DEF Goto, IInv, Complete, ClientInv, Unanswered
  <2>2. Asked(c)' /\ Authenticated(c)'
    BY <1>1, <2>1, StaysLetIn
  <2>3. Routed(c)' /\ Unanswered(c)' /\ Reported(c)' /\ Answered(c)'
    BY <1>1, <2>1 DEF ClientInv, Routed, Unanswered, Reported, Answered
  <2>4. \A f : Sent(c, f)' = Sent(c, f)
    BY <1>1 DEF Sent, SentInURL, Given, Tagged
  <2>5. Decoded(c)'
    BY <1>1, <2>1, <2>4 DEF ClientInv, Decoded
  <2>. QED  BY <2>2, <2>3, <2>5 DEF ClientInv
<1>3. ASSUME NEW wrapped \in SUBSET Sentinel,
             failed' = [failed EXCEPT ![c] = wrapped], Reject(c, StatusFor(wrapped))
      PROVE  ClientInv(c)'
  <2>1. failed'[c] = wrapped
    BY <1>3 DEF IInv, Complete
  <2>. QED  BY <1>1, <1>3, <2>1, StatusForType, Answering DEF Reject
<1>. QED  BY <1>2, <1>3 DEF Handle

\* The response of a handler is written as a whole, or replaced by an error.
LEMMA EncodeInv ==
  ASSUME IInv, NEW c \in Client, Encode(c) PROVE ClientInv(c)'
<1>1. /\ pc[c] = "encode" /\ heard' = heard /\ Goto(c, "done")
      /\ UNCHANGED <<now, keyed, tokens, request, as, view>>
  BY DEF Encode
<1>2. failed'[c] = NoError
  BY DEF Encode, IInv, ClientInv, Unanswered
<1>3. CASE Respond(c, 200, "response")
  BY <1>1, <1>2, <1>3, Answering
<1>4. CASE Respond(c, 500, "error")
  BY <1>1, <1>2, <1>4, Answering
<1>. QED  BY <1>3, <1>4 DEF Encode

\* A raw handler that reports an error after its response gets the error appended.
LEMMA HandleRawInv ==
  ASSUME IInv, NEW c \in Client, HandleRaw(c) PROVE ClientInv(c)'
<1>1. /\ pc[c] = "handle" /\ req[c].ep.raw /\ UNCHANGED <<now, keyed, tokens, request, as, view, report>>
      /\ ClientInv(c) /\ req' = req /\ heard'[c] /\ req[c].ep.route = "project"
  BY DEF HandleRaw, IInv, Complete, ClientInv, Routed, request
<1>2. CASE Respond(c, 200, "response") /\ Goto(c, "done") /\ UNCHANGED failed
  <2>1. failed'[c] = NoError
    BY <1>1, <1>2 DEF ClientInv, Unanswered
  <2>. QED  BY <1>1, <1>2, <2>1, Answering
<1>3. ASSUME NEW wrapped \in SUBSET Sentinel,
             failed' = [failed EXCEPT ![c] = wrapped], Reject(c, StatusFor(wrapped))
      PROVE  ClientInv(c)'
  <2>1. failed'[c] = wrapped
    BY <1>3 DEF IInv, Complete
  <2>. QED  BY <1>1, <1>3, <2>1, StatusForType, Answering DEF Reject
<1>4. ASSUME NEW wrapped \in SUBSET Sentinel,
             failed' = [failed EXCEPT ![c] = wrapped],
             status' = [status EXCEPT ![c] = 200],
             parts' = [parts EXCEPT ![c] = <<"response", "error">>], Goto(c, "done")
      PROVE  ClientInv(c)'
  <2>1. /\ pc'[c] = "done" /\ status'[c] = 200 /\ parts'[c] = <<"response", "error">>
        /\ failed'[c] # NoError
    BY <1>4, StatusForType DEF IInv, Complete, Goto
  <2>2. Asked(c)' /\ Authenticated(c)'
    BY <1>1, <2>1, StaysLetIn
  <2>3. Routed(c)' /\ Unanswered(c)' /\ Reported(c)' /\ Answered(c)' /\ Decoded(c)'
    BY <1>1, <2>1 DEF Routed, Unanswered, Reported, Answered, Decoded
  <2>. QED  BY <2>2, <2>3 DEF ClientInv
<1>. QED  BY <1>2, <1>3, <1>4 DEF HandleRaw

\* UserMeHandler, and the frontend, answer once.
LEMMA UserMeInv ==
  ASSUME IInv, NEW c \in Client, UserMe(c) PROVE ClientInv(c)'
<1>1. req[c].ep.raw /\ failed'[c] = NoError
  BY RouteType DEF UserMe, IInv, ClientInv, Asked, Routed, Unanswered
<1>2. /\ pc[c] = "me" /\ UNCHANGED <<now, keyed, tokens, request, as, view>>
      /\ Respond(c, 200, "response") /\ Goto(c, "done")
  BY DEF UserMe
<1>. QED  BY <1>1, <1>2, Answering

\* The frontend is found, or it is not.
LEMMA FrontendInv ==
  ASSUME IInv, NEW c \in Client, Frontend(c) PROVE ClientInv(c)'
<1>1. /\ pc[c] = "frontend" /\ heard' = heard /\ Goto(c, "done")
      /\ UNCHANGED <<now, keyed, tokens, request, as, view>> /\ failed'[c] = NoError
  BY DEF Frontend, IInv, ClientInv, Unanswered
<1>2. ASSUME NEW code \in {200, 301}, Respond(c, code, "response") PROVE ClientInv(c)'
  BY <1>1, <1>2, Answering
<1>3. ASSUME NEW code \in {404, 502}, Respond(c, code, "error") PROVE ClientInv(c)'
  BY <1>1, <1>3, Answering
<1>. QED  BY <1>2, <1>3 DEF Frontend

\* The status page may be empty.
LEMMA DescribeInv ==
  ASSUME IInv, NEW c \in Client, Describe(c) PROVE ClientInv(c)'
<1>1. /\ pc[c] \in {"status", "openapi"} /\ heard' = heard /\ Goto(c, "done")
      /\ UNCHANGED <<now, keyed, tokens, request, as, view, failed>>
      /\ failed'[c] = NoError /\ parts[c] = <<>> /\ ~heard[c]
      /\ req[c].ep.route = pc[c] /\ req' = req
  BY DEF Describe, IInv, ClientInv, Unanswered, Routed, request
<1>2. CASE Respond(c, 200, "response")
  BY <1>1, <1>2, Answering
<1>3. CASE pc[c] = "status" /\ status' = [status EXCEPT ![c] = 200] /\ UNCHANGED parts
  <2>1. pc'[c] = "done" /\ status'[c] = 200 /\ parts'[c] = <<>>
    BY <1>1, <1>3 DEF IInv, Complete, Goto
  <2>2. Asked(c)' /\ Authenticated(c)'
    BY <1>1, <2>1, StaysLetIn
  <2>3. Routed(c)' /\ Unanswered(c)' /\ Reported(c)' /\ Answered(c)' /\ Decoded(c)'
    BY <1>1, <1>3, <2>1 DEF Routed, Unanswered, Reported, Answered, Decoded
  <2>. QED  BY <2>2, <2>3 DEF ClientInv
<1>. QED  BY <1>2, <1>3 DEF Describe

-----------------------------------------------------------------------------
(***************************************************************************)
(* The health page.                                                        *)
(***************************************************************************)

\* The parts of the invariant that the health page's steps have no part in.
LEMMA OnHealthPage ==
  ASSUME IInv, NEW c \in Client, pc[c] \in {"health", "ask"}, pc'[c] \in {"ask", "done"},
         UNCHANGED <<now, keyed, tokens, request, as, view, heard, failed>>,
         pc'[c] # "done" => status'[c] = status[c] /\ parts'[c] = parts[c], status'[c] # 401
  PROVE  /\ Asked(c)' /\ Routed(c)' /\ Unanswered(c)' /\ Authenticated(c)' /\ Decoded(c)'
         /\ req[c].ep.route = "health" /\ req' = req
<1>1. ClientInv(c) /\ req' = req /\ heard' = heard
  BY DEF IInv, ClientInv, request
<1>2. req[c].ep.route = "health" /\ ~heard[c]
  BY <1>1 DEF ClientInv, Routed, Unanswered
<1>3. Asked(c)' /\ Authenticated(c)'
  BY StaysLetIn
<1>4. Routed(c)' /\ Unanswered(c)' /\ Decoded(c)'
  BY <1>1, <1>2 DEF ClientInv, Routed, Unanswered, Decoded
<1>. QED  BY <1>1, <1>2, <1>3, <1>4

\* Nothing is the function of no argument.
LEMMA Nothing ==
  ASSUME NEW S PROVE DOMAIN <<>> = {} /\ <<>> \in [{} -> S]
<1>1. DOMAIN <<>> = 1 .. 0
  OBVIOUS
<1>2. <<>> \in [{} -> S]
  OBVIOUS
<1>. QED  BY <1>1, <1>2

\* HealthHandler starts with what it has found of the database.
LEMMA HealthCheckInv ==
  ASSUME IInv, NEW c \in Client, HealthCheck(c) PROVE ClientInv(c)'
<1>1. PICK found :
        /\ found \in OfDatabase
        /\ report' = [report EXCEPT ![c] = [db |-> found, status |-> IF found = "error" THEN "error" ELSE "ok",
                                            left |-> Checker, named |-> <<>>]]
  BY DEF HealthCheck, OfDatabase
<1> DEFINE outcome == IF found = "error" THEN "error" ELSE "ok"
<1>2. report'[c] = [db |-> found, status |-> outcome, left |-> Checker, named |-> <<>>]
  BY <1>1 DEF IInv, Complete
<1> HIDE DEF outcome
<1>3. /\ pc[c] = "health" /\ pc'[c] = "ask" /\ status' = status /\ parts' = parts
      /\ UNCHANGED <<now, keyed, tokens, request, as, view, heard, failed>>
      /\ status[c] = 0
  BY DEF HealthCheck, Goto, IInv, Complete, ClientInv, Unanswered
<1>4. DOMAIN report'[c].named = {} /\ report'[c].named \in [{} -> Found]
  <2>1. report'[c].named = <<>>
    BY <1>2
  <2>. QED  BY <2>1, Nothing
<1>5. /\ report'[c] \in Page
      /\ DOMAIN report'[c].named = Checker \ report'[c].left
  <2>1. report'[c].named \in Findings
    BY <1>4 DEF Findings
  <2>2. report'[c].left = Checker
    BY <1>2
  <2>3. report'[c].left \in SUBSET Checker
    BY <2>2
  <2>4. found \in OfDatabase /\ outcome \in Found
    BY <1>1 DEF Found, outcome
  <2>. QED  BY <1>2, <1>4, <2>1, <2>2, <2>3, <2>4 DEF Page
<1>6. report'[c].status = "error" <=> Failing(c)'
  BY <1>2, <1>4 DEF Failing, outcome
<1>7. Reported(c)'
  BY <1>5, <1>6 DEF Reported
<1>8. /\ Asked(c)' /\ Routed(c)' /\ Unanswered(c)' /\ Authenticated(c)' /\ Decoded(c)'
  BY <1>3, OnHealthPage
<1>9. Answered(c)'
  BY <1>3 DEF Answered
<1>. QED  BY <1>7, <1>8, <1>9 DEF ClientInv

\* Each check that fails makes the page fail.
LEMMA AskInv ==
  ASSUME IInv, NEW c \in Client, Ask(c) PROVE ClientInv(c)'
<1>1. PICK n, found :
        /\ n \in report[c].left /\ found \in Found
        /\ report' = [report EXCEPT ![c].left = @ \ {n}, ![c].named = Over(@, [m \in {n} |-> found]),
                                    ![c].status = IF found = "error" THEN "error" ELSE @]
  BY DEF Ask, Found
<1>2. /\ pc[c] = "ask" /\ pc' = pc /\ status' = status /\ parts' = parts
      /\ UNCHANGED <<now, keyed, tokens, request, as, view, heard, failed>>
      /\ status[c] = 0
  BY DEF Ask, IInv, ClientInv, Unanswered
<1>3. /\ report[c] \in Page
      /\ DOMAIN report[c].named = Checker \ report[c].left
      /\ report[c].status = "error" <=> Failing(c)
  BY <1>2 DEF IInv, ClientInv, Reported
<1> DEFINE named == Over(report[c].named, [m \in {n} |-> found])
           outcome == IF found = "error" THEN "error" ELSE report[c].status
<1>4. report'[c] = [db |-> report[c].db, left |-> report[c].left \ {n}, named |-> named,
                    status |-> outcome]
  <2>1. DOMAIN report = Client
    BY DEF IInv, Complete
  <2>2. report[c] = [db |-> report[c].db, left |-> report[c].left, named |-> report[c].named,
                     status |-> report[c].status]
    BY <1>3 DEF Page
  <2> HIDE DEF named, outcome
  <2>3. report' = [report EXCEPT ![c].left = @ \ {n}, ![c].named = named, ![c].status = outcome]
    BY <1>1 DEF named, outcome
  <2>. QED  BY <2>1, <2>2, <2>3
<1>5. /\ DOMAIN named = DOMAIN report[c].named \union {n} /\ named[n] = found
      /\ \A m \in DOMAIN report[c].named \ {n} : named[m] = report[c].named[m]
  BY DEF Over
<1>6. report[c].left \in SUBSET Checker /\ n \in Checker /\ n \notin DOMAIN report[c].named
  BY <1>1, <1>3 DEF Page
<1>7. \A m \in DOMAIN report[c].named : report[c].named[m] \in Found
  <2>1. PICK S \in SUBSET Checker : report[c].named \in [S -> Found]
    BY <1>3 DEF Page, Findings
  <2>. QED  BY <2>1
<1>8. named \in [DOMAIN named -> Found]
  BY <1>1, <1>5, <1>7 DEF Over
<1>9. outcome \in Found
  BY <1>3 DEF Page, Found
<1> HIDE DEF named, outcome
<1>10. report'[c] \in Page
  <2>1. report[c].db \in OfDatabase
    BY <1>3 DEF Page
  <2>2. DOMAIN named \in SUBSET Checker
    BY <1>3, <1>5, <1>6
  <2>3. named \in Findings
    BY <1>8, <2>2 DEF Findings
  <2>. QED  BY <1>4, <1>6, <1>9, <2>1, <2>3 DEF Page
<1>11. DOMAIN report'[c].named = Checker \ report'[c].left
  BY <1>3, <1>4, <1>5, <1>6
<1>12. report'[c].status = "error" <=> Failing(c)'
  <2>1. Failing(c)' <=> Failing(c) \/ found = "error"
    BY <1>4, <1>5, <1>6 DEF Failing
  <2>. QED  BY <1>3, <1>4, <2>1 DEF Failing, outcome
<1>13. Reported(c)'
  BY <1>10, <1>11, <1>12 DEF Reported
<1>14. Answered(c)'
  BY <1>2 DEF Answered
<1>. QED  BY <1>2, <1>13, <1>14, OnHealthPage DEF ClientInv

\* The page says what was found, with the code that goes with it.
LEMMA TellInv ==
  ASSUME IInv, NEW c \in Client, Tell(c) PROVE ClientInv(c)'
<1>1. /\ pc[c] = "ask" /\ pc'[c] = "done" /\ report[c].left = {} /\ report' = report
      /\ UNCHANGED <<now, keyed, tokens, request, as, view, heard, failed>>
      /\ status[c] = 0 /\ parts[c] = <<>> /\ failed[c] = NoError
  BY DEF Tell, Goto, IInv, Complete, ClientInv, Unanswered
<1>2. /\ report[c] \in Page
      /\ DOMAIN report[c].named = Checker
      /\ report[c].status = "error" <=> Failing(c)
  BY <1>1 DEF IInv, ClientInv, Reported
<1>3. report[c].status \in {"ok", "error"}
  BY <1>2 DEF Page, Found
<1>4. IF report[c].status = "ok"
        THEN status'[c] = 200 /\ parts'[c] = <<"response">>
        ELSE status'[c] = 503 /\ parts'[c] = <<"error">>
  BY <1>1 DEF Tell, Respond, IInv, Complete
<1>5. /\ Asked(c)' /\ Routed(c)' /\ Unanswered(c)' /\ Authenticated(c)' /\ Decoded(c)'
      /\ req[c].ep.route = "health" /\ req' = req
  BY <1>1, <1>4, OnHealthPage
<1>6. Reported(c)' /\ (Failing(c)' <=> Failing(c))
  BY <1>1, <1>2 DEF Reported, Failing
<1>7. status'[c] = 503 <=> Failing(c)
  BY <1>2, <1>3, <1>4 DEF Failing
<1>8. ASSUME ~Failing(c), NEW n \in {"db", "status"} \union Checker PROVE Entry(c, n) # "error"
  BY <1>2, <1>8 DEF Failing, Entry
<1>9. \A n : Entry(c, n)' = Entry(c, n)
  BY <1>1 DEF Entry
<1>10. Len(parts'[c]) = 1 /\ (parts'[c] = <<"response">> <=> status'[c] < 400)
  BY <1>4
<1>11. WellAnswered(c)'
  BY <1>1, <1>4, <1>6, <1>7, <1>8, <1>9, <1>10 DEF WellAnswered
<1>. QED  BY <1>5, <1>6, <1>11 DEF ClientInv, Answered

-----------------------------------------------------------------------------
(***************************************************************************)
(* The theorems.                                                           *)
(***************************************************************************)

\* Nothing has been asked for yet.
LEMMA InitInv == Init => IInv
<1> SUFFICES ASSUME Init PROVE IInv
  OBVIOUS
<1>1. Clocked
  BY DEF Init, Clocked, Alien
<1>2. Complete
  BY DEF Init, Complete
<1>3. ASSUME NEW c \in Client PROVE ClientInv(c)
  BY DEF Init, ClientInv, Asked, Routed, Unanswered, Authenticated, Decoded, Reported, Answered
<1>. QED  BY <1>1, <1>2, <1>3 DEF IInv

\* Whatever a client does, its own invariant is kept.
LEMMA ClientStepInv ==
  ASSUME IInv, NEW c \in Client, ClientStep(c) PROVE ClientInv(c)'
BY ArriveInv, AuthenticateInv, DecodePathInv, DecodeQueryInv, DecodeBodyInv, HandleInv, EncodeInv,
   HandleRawInv, UserMeInv, HealthCheckInv, AskInv, TellInv, DescribeInv, FrontendInv DEF ClientStep

\* Every step keeps the invariant.
LEMMA NextInv == IInv /\ [Next]_vars => IInv'
<1> SUFFICES ASSUME IInv, [Next]_vars PROVE IInv'
  OBVIOUS
<1>1. Clocked /\ Complete /\ \A c \in Client : ClientInv(c)
  BY DEF IInv
<1>2. CASE Tick
  <2>1. now' \in Nat /\ now <= now' /\ tokens' = tokens /\ keyed' = keyed
    BY <1>1, <1>2 DEF Tick, Clocked
  <2>2. \A d \in Client : Same(d)
    BY <1>2 DEF Tick, Same
  <2>3. Clocked' /\ Complete'
    BY <1>1, <1>2, <2>1 DEF Tick, Clocked, Complete
  <2>. QED  BY <1>1, <2>1, <2>2, <2>3, OtherClient DEF IInv
<1>3. ASSUME NEW s \in Subject, NEW until \in 0 .. MaxNow \union {Never}, IssueToken(s, until)
      PROVE  IInv'
  <2>1. now' \in Nat /\ now <= now' /\ tokens \subseteq tokens' /\ keyed' = keyed
    BY <1>1, <1>3 DEF IssueToken, Clocked
  <2>2. \A d \in Client : Same(d)
    BY <1>3 DEF IssueToken, Same
  <2>3. until \in Nat \union {Never}
    BY RequestAssumption
  <2>4. Clocked'
    BY <1>1, <1>3, <2>3 DEF IssueToken, Clocked
  <2>5. Complete'
    BY <1>1, <1>3 DEF IssueToken, Complete
  <2>. QED  BY <1>1, <2>1, <2>2, <2>4, <2>5, OtherClient DEF IInv
<1>4. ASSUME NEW c \in Client, ClientStep(c) PROVE IInv'
  <2>1. /\ UNCHANGED <<now, keyed, tokens>> /\ Complete'
        /\ \A d \in Client \ {c} : Same(d)
    BY <1>1, <1>4, Elsewhere
  <2>2. now' \in Nat /\ now <= now' /\ Clocked'
    BY <1>1, <2>1 DEF Clocked
  <2>3. \A d \in Client \ {c} : ClientInv(d)'
    BY <1>1, <2>1, <2>2, OtherClient
  <2>4. ClientInv(c)'
    BY <1>4, ClientStepInv
  <2>. QED  BY <2>1, <2>2, <2>3, <2>4 DEF IInv
<1>5. CASE UNCHANGED vars
  <2>1. /\ now' \in Nat /\ now <= now' /\ tokens' = tokens /\ keyed' = keyed
        /\ \A d \in Client : Same(d)
    BY <1>1, <1>5 DEF vars, Clocked, Same
  <2>2. Clocked' /\ Complete'
    BY <1>1, <1>5 DEF vars, Clocked, Complete
  <2>. QED  BY <1>1, <2>1, <2>2, OtherClient DEF IInv
<1>. QED  BY <1>2, <1>3, <1>4, <1>5 DEF Next, ClientStep

\* The invariant holds in every reachable state.
THEOREM RequestInvariance == Spec => []IInv
BY InitInv, NextInv, PTL DEF Spec

\* requireAuth comes before everything else, with the token as it was when it
\* looked: no request slips through by expiring late, none is refused early.
THEOREM AuthFirst == Spec => []AuthComesFirst
<1>1. ASSUME IInv, NEW c \in Client, pc[c] = "done", req[c].ep.auth
      PROVE  /\ (\A t \in req[c].cred : ~Valid(t, since[c])) => status[c] = 401 /\ ~heard[c]
             /\ \A t \in req[c].cred : Valid(t, now) => status[c] # 401 /\ as[c] = {t.sub}
  <2>1. LetIn(c) \/ TurnedAway(c)
    BY <1>1 DEF IInv, ClientInv, Authenticated
  <2>2. \A t, u \in req[c].cred : t = u
    BY <1>1 DEF IInv, ClientInv, Asked
  <2>3. CASE LetIn(c)
    BY <1>1, <2>2, <2>3 DEF LetIn
  <2>4. CASE TurnedAway(c)
    BY <1>1, <2>2, <2>4 DEF TurnedAway
  <2>. QED  BY <2>1, <2>3, <2>4
<1>2. IInv => AuthComesFirst
  BY <1>1 DEF AuthComesFirst
<1>. QED  BY <1>2, RequestInvariance, PTL

\* A typed handler is given what was sent, through three decoders that write over
\* one another's fields: the body's value if the body holds the field, else the URL's.
THEOREM HandlersGetWhatWasSent == Spec => []GetsWhatWasSent
<1>1. IInv => GetsWhatWasSent
  BY DEF IInv, ClientInv, Decoded, GetsWhatWasSent
<1>. QED  BY <1>1, RequestInvariance, PTL

\* Every request that ends is answered once and well, but for the two exceptions
\* that the property names.
THEOREM AnsweredOnce == Spec => []OneAnswer
<1>1. IInv => OneAnswer
  BY DEF IInv, ClientInv, Answered, OneAnswer
<1>. QED  BY <1>1, RequestInvariance, PTL
=============================================================================
