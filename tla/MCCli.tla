-------------------------------- MODULE MCCli --------------------------------
(***************************************************************************)
(* An instance of Cli: two terminals and a state of two settings, each of  *)
(* which is on or unset, so that one that is lost shows; at first there    *)
(* may be no file, an old one, both, or one that does not parse.           *)
(***************************************************************************)
EXTENDS Cli

CONSTANTS one, two, city, mode, on

Setting(v, w) == [k \in Key |-> IF k = city THEN v ELSE w]

MCInitial ==
  {<<Absent, Absent>>, <<Setting(on, Unset), Absent>>, <<Setting(on, Unset), Setting(Unset, on)>>,
   <<Garbled, Absent>>, <<Absent, Garbled>>}

MCChange == {Setting(on, Unset), Setting(Unset, on)}
=============================================================================
