---------------------- MODULE MCSecureConnectSessions ----------------------
(***************************************************************************)
(* An instance of SecureConnectSessions for TLC: two devices of two        *)
(* tenants on two shared gateways, one with room for both devices and one  *)
(* with room for a single session.                                         *)
(***************************************************************************)
EXTENDS SecureConnectSessions, TLC

CONSTANTS d1, d2, g1, g2, acme, globex

TwoTenants == (d1 :> acme) @@ (d2 :> globex)

NoneDedicated == [g \in {} |-> acme]

TwoAndOne == (g1 :> 2) @@ (g2 :> 1)

Symmetric == Permutations(SessionIds)
=============================================================================
