------------------------------ MODULE MCServer ------------------------------
(***************************************************************************)
(* Server on a small instance: three deliveries, a pool of one worker and  *)
(* a channel of one place, so that the pool is busy, full and closed while *)
(* a delivery is on its way.                                               *)
(***************************************************************************)
EXTENDS Server
=============================================================================
