----------------------------- MODULE MCLRUCache -----------------------------
(* Small instances of LRUCache for TLC. *)
EXTENDS LRUCache, TLC
=============================================================================
