--------------------------- MODULE MCTenantStore ----------------------------
(* Small instances of TenantStore for TLC: an administrator and a user. *)
EXTENDS TenantStore, TLC

CONSTANTS u1, u2

MCUsers == {u1, u2}
MCRole  == u1 :> "ADMIN" @@ u2 :> "USER"
=============================================================================
