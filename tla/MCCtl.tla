------------------------------- MODULE MCCtl -------------------------------
(***************************************************************************)
(* An instance of Ctl: two terminals and two entry files.  lib.yml has the *)
(* database, app.yml depends on it and has an API and a web service.       *)
(***************************************************************************)
EXTENDS Ctl

CONSTANTS one, two, app, lib, db, api, web, typo, short, url

Says(stop, run, absent) == [stop |-> stop, run |-> run, absent |-> absent]
Host(v) == url :> v

LibFile ==
  [services |-> {db}, named |-> {db}, own |-> [s \in {} |-> NoSchemaf],
   schemaf |-> {Says(FALSE, TRUE, Host("hostdb"))}, project |-> Unset, pass |-> "dev"]

\* Only the API has a container_name; both services say where the API is found.
AppFile ==
  [services |-> {api, web}, named |-> {api},
   own |-> api :> Says(TRUE, TRUE, Host("hostapi")) @@ web :> Says(TRUE, FALSE, Host("hostweb")),
   schemaf |-> {Says(FALSE, FALSE, [v \in {} |-> Unset])}, project |-> "acme", pass |-> "dev"]

MCResolved == app :> <<LibFile, AppFile>> @@ lib :> <<LibFile>>
MCShort == app :> (short :> api) @@ lib :> [n \in {} |-> db]
MCBoxName == db :> "pg" @@ api :> "acme-api" @@ web :> "acme-web-1"

Nowhere == [v \in Var |-> Unset]
MCShell == one :> Nowhere @@ two :> [Nowhere EXCEPT ![DBPass] = "mine"]
MCHome == [Nowhere EXCEPT ![DBPass] = "kept", ![url] = "kept"]

Ask(v, e, n, t) == [verb |-> v, entry |-> e, names |-> n, native |-> t]

MCRequests ==
  {Ask("start", app, {}, NoNative), Ask("stop", app, {}, NoNative),
   Ask("start", lib, {}, NoNative),
   Ask("dev", app, {db, web}, NoNative), Ask("dev", app, {db}, NoNative),
   Ask("dev", app, {short, typo}, NoNative),
   Ask("start", app, {}, <<short>>), Ask("start", app, {}, <<web, api>>),
   Ask("dev", app, {db}, <<db>>)}
=============================================================================
