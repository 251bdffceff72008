---------------------------- MODULE MCWorkerPool ----------------------------
(***************************************************************************)
(* WorkerPool on a small instance: three callers race two Shutdown calls   *)
(* and two workers over a channel of two places.  A channel of two is the  *)
(* smallest that can reorder, three callers the fewest that can fill it    *)
(* with a worker busy, two Shutdown calls race for closeOnce.              *)
(***************************************************************************)
EXTENDS WorkerPool
=============================================================================
