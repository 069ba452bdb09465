-------------------------- MODULE GatewayReconciler --------------------------
(***************************************************************************)
(* The gateway reconciler (app/secure_connect_gateway/reconciler.py): it   *)
(* polls the control plane for the peers of its gateway                    *)
(* (list_gateway_peers in router.py) and makes the local WireGuard         *)
(* interface the same, one `wg set' at a time, while sessions start,       *)
(* rekey, migrate and close.                                               *)
(*                                                                         *)
(* Polls and commands may fail, and the process or the whole host may      *)
(* restart, at any point.  A peer is a public key with its tunnel address; *)
(* SecureConnectSessions shows that the control plane never lists one      *)
(* address twice.                                                          *)
(*                                                                         *)
(* The names are the reconciler's own, so that SecureConnectProofs can     *)
(* extend both ends of Secure Connect.                                     *)
(***************************************************************************)
EXTENDS Naturals, FiniteSets, Functions

CONSTANTS
    Keys,           \* public keys
    PeerAddresses,  \* tunnel addresses
    MaxChanges      \* bound: changes of the peers listed, and reboots of the host

ASSUME ReconcilerAssumption == MaxChanges \in Nat

VARIABLES
    listed,     \* the control plane: listed key -> address
    wg,         \* the interface: key -> allowed-ips
    pc,         \* where reconcile_once is; "asleep" between two rounds
    desired,    \* what the last poll returned: key -> address
    plan,       \* the operations of the plan still to run
    changes,
    dropped     \* history: peers unlisted at some time since they were set up

reconcilerVars == <<listed, wg, pc, desired, plan, changes, dropped>>

Empty == [k \in {} |-> {}]

NoPlan == [remove |-> {}, add |-> {}, update |-> {}]

ReconcilerInit ==
    /\ listed = Empty /\ wg = Empty /\ pc = "asleep"
    /\ desired = Empty /\ plan = NoPlan /\ changes = 0 /\ dropped = {}

-----------------------------------------------------------------------------
(* The peers the control plane lists. *)

Change == changes < MaxChanges /\ changes' = changes + 1

\* A session starts on the gateway, migrates to it, or has a new key or address.
ListPeer(k, a) ==
    /\ Change
    /\ \A l \in DOMAIN listed : listed[l] # a
    /\ listed' = [l \in DOMAIN listed \cup {k} |-> IF l = k THEN a ELSE listed[l]]
    /\ UNCHANGED <<wg, pc, desired, plan, dropped>>

\* The session closes or migrates away, or its key is replaced.
DropPeer(k) ==
    /\ Change
    /\ k \in DOMAIN listed
    /\ listed' = Restrict(listed, DOMAIN listed \ {k})
    /\ dropped' = dropped \cup {k}
    /\ UNCHANGED <<wg, pc, desired, plan>>

\* handle_rekey: the new key takes the address over in one transaction.
RekeyPeer(k, l) ==
    /\ Change
    /\ k \in DOMAIN listed /\ l \notin DOMAIN listed
    /\ listed' = [m \in (DOMAIN listed \ {k}) \cup {l} |-> IF m = l THEN listed[k] ELSE listed[m]]
    /\ dropped' = dropped \cup {k}
    /\ UNCHANGED <<wg, pc, desired, plan>>

-----------------------------------------------------------------------------
(* WireGuard: an address belongs to one peer, the last it was given to. *)

WgSet(k, A) ==
    [l \in DOMAIN wg \cup {k} |-> IF l = k THEN A ELSE wg[l] \ A]

WgRemove(k) == Restrict(wg, DOMAIN wg \ {k})

-----------------------------------------------------------------------------
(* reconcile_once. *)

\* The peer lists a poll returns; a poll that fails returns none.
Polled == {listed}

FetchDesired ==
    /\ pc = "asleep"
    /\ desired' \in Polled
    /\ pc' = "fetched"
    /\ UNCHANGED <<listed, wg, plan, changes, dropped>>

\* Mutant: a peer that is there is taken to have its address.
PlanByKey ==
    [remove |-> DOMAIN wg \ DOMAIN desired, add |-> DOMAIN desired \ DOMAIN wg, update |-> {}]

BuildPlan ==
    [remove |-> DOMAIN wg \ DOMAIN desired,
     add |-> DOMAIN desired \ DOMAIN wg,
     update |-> {k \in DOMAIN desired \cap DOMAIN wg : wg[k] # {desired[k]}}]

\* observe_peers and build_plan.
Observe ==
    /\ pc = "fetched"
    /\ plan' = BuildPlan
    /\ pc' = IF plan' = NoPlan THEN "converged" ELSE "applying"
    /\ UNCHANGED <<listed, wg, desired, changes, dropped>>

Rest(p) == plan' = p /\ pc' = IF p = NoPlan THEN "converged" ELSE "applying"

RemovePeer(k) ==
    /\ pc = "applying" /\ k \in plan.remove
    /\ wg' = WgRemove(k)
    /\ Rest([plan EXCEPT !.remove = @ \ {k}])
    /\ UNCHANGED <<listed, desired, changes, dropped>>

\* The removals come first, then the additions, then the updates.
MayApply(k) ==
    /\ plan.remove = {}
    /\ k \in IF plan.add # {} THEN plan.add ELSE plan.update

ApplyPeer(k) ==
    /\ pc = "applying" /\ MayApply(k)
    /\ wg' = WgSet(k, {desired[k]})
    /\ Rest([plan EXCEPT !.add = @ \ {k}, !.update = @ \ {k}])
    /\ dropped' = IF k \in DOMAIN listed THEN dropped \ {k} ELSE dropped
    /\ UNCHANGED <<listed, desired, changes>>

\* The round is over, with or without the heartbeat having got through.
ReportHeartbeat ==
    /\ pc = "converged"
    /\ pc' = "asleep"
    /\ UNCHANGED <<listed, wg, desired, plan, changes, dropped>>

\* A command fails, or the process restarts: the rest of the plan is forgotten.
ReconcileFails ==
    /\ pc # "asleep"
    /\ pc' = "asleep" /\ plan' = NoPlan
    /\ UNCHANGED <<listed, wg, desired, changes, dropped>>

\* The host restarts with an interface without peers.
Reboot ==
    /\ Change
    /\ wg' = Empty /\ pc' = "asleep" /\ plan' = NoPlan
    /\ UNCHANGED <<listed, desired, dropped>>

-----------------------------------------------------------------------------

Apply == \E k \in Keys : RemovePeer(k) \/ ApplyPeer(k)

Round == FetchDesired \/ Observe \/ Apply \/ ReportHeartbeat

ReconcilerNext ==
    \/ Round \/ ReconcileFails \/ Reboot
    \/ \E k \in Keys : DropPeer(k) \/ \E a \in PeerAddresses : ListPeer(k, a)
    \/ \E k, l \in Keys : RekeyPeer(k, l)

ReconcilerSpec == ReconcilerInit /\ [][ReconcilerNext]_reconcilerVars

\* The loop goes on, and now and then a round is not cut short: a command that
\* is due again and again succeeds in the end.
FairReconcilerSpec ==
    /\ ReconcilerSpec
    /\ WF_reconcilerVars(FetchDesired) /\ SF_reconcilerVars(Observe)
    /\ SF_reconcilerVars(Apply) /\ SF_reconcilerVars(ReportHeartbeat)

-----------------------------------------------------------------------------
(* Properties. *)

\* The interface and the plan are well formed; a plan only names peers of the
\* last poll to set and others to remove.
ReconcilerTypeOK ==
    /\ DOMAIN listed \subseteq Keys /\ \A k \in DOMAIN listed : listed[k] \in PeerAddresses
    /\ DOMAIN wg \subseteq Keys /\ \A k \in DOMAIN wg : wg[k] \subseteq PeerAddresses
    /\ pc \in {"asleep", "fetched", "applying", "converged"}
    /\ plan.remove \subseteq Keys /\ plan.remove \cap DOMAIN desired = {}
    /\ plan.add \subseteq DOMAIN desired /\ plan.update \subseteq DOMAIN desired
    /\ changes \in 0 .. MaxChanges /\ dropped \subseteq Keys

\* "never revoke on a failed poll": a round takes a peer off the interface only
\* if the control plane has dropped it since it was set up.
RemovesOnlyDropped ==
    [][changes' = changes => DOMAIN wg \ DOMAIN wg' \subseteq dropped]_reconcilerVars

\* "a revoked key cannot linger while additions are still being written"
\* (apply_plan): no peer is given an address while the interface has a peer
\* that the poll did not list.
RevokedFirst ==
    [][(\E k \in DOMAIN wg' : k \notin DOMAIN wg \/ ~ wg'[k] \subseteq wg[k])
        => DOMAIN wg \subseteq DOMAIN desired]_reconcilerVars

\* The heartbeat is sent "after every successful reconcile": when it is, the
\* interface is exactly what the poll returned, although each command may take
\* an address from another peer.
ConvergedWhenReported ==
    pc = "converged" => wg = [k \in DOMAIN desired |-> {desired[k]}]

\* The interface comes to serve exactly the peers the control plane lists,
\* whatever failed on the way.
Converges == []<>(wg = [k \in DOMAIN listed |-> {listed[k]}])
=============================================================================
