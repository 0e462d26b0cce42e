--------------------------- MODULE MCAccountLayout ---------------------------
(***************************************************************************)
(* AccountLayout for TLC: two plugins, two adapters, lengths of a few      *)
(* bytes.                                                                  *)
(***************************************************************************)
EXTENDS AccountReaders, TLC

CONSTANTS freeze, groups, app, oracle

=============================================================================
