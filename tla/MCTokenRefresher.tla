-------------------------- MODULE MCTokenRefresher --------------------------
(***************************************************************************)
(* TokenRefresher on a small instance: three workers and an OAuth callback.*)
(* One worker refreshes, one waits behind it, and one comes late.          *)
(***************************************************************************)
EXTENDS TokenRefresher
=============================================================================
