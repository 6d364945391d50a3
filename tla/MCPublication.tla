---------------------------- MODULE MCPublication ----------------------------
(***************************************************************************)
(* Attempts of one run publish, with faults among them.  Two faults make a *)
(* lease expire under a publisher and break one of its calls; three also   *)
(* break its cleanup.  A run that is terminal, and whose publishers have   *)
(* ended, stops.                                                           *)
(***************************************************************************)
EXTENDS Publication
===============================================================================
