------------------------------ MODULE MCBackup ------------------------------
(***************************************************************************)
(* Instances of Backup: a server and the `db backup` command of one        *)
(* project, and a server of another project that was given the same SFTP   *)
(* account and the default BACKUP_PATH.                                    *)
(***************************************************************************)
EXTENDS Backup, TLC

CONSTANTS server, command, neighbour

MCProjectOf ==
  [a \in Agent |-> IF a = neighbour THEN "other" ELSE "project"]
=============================================================================
