----------------------------- MODULE MCRequest -----------------------------
(***************************************************************************)
(* Instances of Request: a search with parameters of every kind, an update *)
(* that carries a body, a download, and two endpoints whose request types  *)
(* have fields that cannot be decoded.                                     *)
(***************************************************************************)
EXTENDS Request

CONSTANTS c1, s1, s2

F(name, tag, kind, ptr) == [name |-> name, tag |-> tag, kind |-> kind, ptr |-> ptr]
E(auth, raw, carries, fields) == [route |-> "project", auth |-> auth, raw |-> raw, carries |-> carries, fields |-> fields]

MCEndpoint ==
  { E(TRUE, FALSE, FALSE, {F("Limit", "query", "narrow", FALSE), F("Since", "query", "wide", TRUE)}),
    E(FALSE, FALSE, FALSE, {F("ID", "path", "string", FALSE), F("All", "query", "bool", FALSE)}),
    E(TRUE, FALSE, TRUE, {F("ID", "path", "string", FALSE), F("Size", "json", "narrow", FALSE)}),
    E(TRUE, TRUE, FALSE, {}),
    E(FALSE, FALSE, FALSE, {F("ID", "path", "wide", FALSE)}),
    E(FALSE, FALSE, FALSE, {F("Rate", "query", "other", FALSE)}) }

MCNumber == {1, 4, 40}
MCHalf == [narrow |-> 4, wide |-> 32]
=============================================================================
