-------------------------- MODULE MCProxyService --------------------------
(* Two requests, the monitors and the process on one user's container. *)
EXTENDS ProxyService
=============================================================================
