------------------------------- MODULE MCVaina -------------------------------
(* Two addresses that share their first bit, a prefix that joins them, one   *)
(* that tells them apart and one longer than an address; one place in each   *)
(* table, so that the second client or route finds it full.                  *)
EXTENDS Vaina

MCIps == {<<0, 0>>, <<0, 1>>}
MCPfxLens == {1, 2, 3}
=============================================================================
