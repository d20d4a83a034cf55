-------------------------- MODULE MigrationLedger --------------------------
(***************************************************************************)
(* What the migration runner promises about a database, whoever runs it:   *)
(* a ledger of (prefix, version) keys that only grows, each entry made     *)
(* together with exactly one execution of its file's SQL, and only once    *)
(* every lower version of the same release is in the ledger.  Processes,   *)
(* transactions, locks and crashes do not appear here.                     *)
(***************************************************************************)
EXTENDS Integers

CONSTANTS File,       \* migration files of every release that meets the database
          PrefixOf,   \* the prefix (migration line) a file is recorded under
          VersionOf,  \* the NNNN of its name
          Release     \* the sets of files that are applied together

VARIABLES rows,       \* recorded keys
          applied     \* how often each file's SQL has taken effect

ledger == <<rows, applied>>

Key(f) == <<PrefixOf[f], VersionOf[f]>>

Init == /\ rows = {}
        /\ applied = [f \in File |-> 0]

Apply(S, f) ==
  /\ Key(f) \notin rows
  /\ applied[f] = 0
  /\ \A g \in S : VersionOf[g] < VersionOf[f] => Key(g) \in rows
  /\ rows' = rows \union {Key(f)}
  /\ applied' = [applied EXCEPT ![f] = 1]

Next == \E S \in Release : \E f \in S : Apply(S, f)

Spec == Init /\ [][Next]_ledger
=============================================================================
