------------------------ MODULE SecureConnectSessions ------------------------
(***************************************************************************)
(* The session registry of the Secure Connect control plane: devices,      *)
(* gateways, sessions, WireGuard key material and tunnel-address leases    *)
(* (models/secure_connect.py), and the request handlers and background     *)
(* jobs that change them (service.py, allocator.py, key_manager.py,        *)
(* worker.py, router.py).                                                  *)
(*                                                                         *)
(* One control-plane process serves every request on one event loop and a  *)
(* handler never awaits between its reads and its commit, so a handler is  *)
(* one step.  Two things cut a handler short.  An address lease commits on *)
(* its own, so a crash or an error after it leaves the lease without the   *)
(* session.  And each lease a failover pass takes also commits what the    *)
(* pass did so far, so the pass is one step per session, with no other     *)
(* handler in between.                                                     *)
(*                                                                         *)
(* Time is abstracted: any live session may be the one whose profile       *)
(* expired, and a reporting gateway may fall silent at any moment.         *)
(***************************************************************************)
EXTENDS AccessStates, FiniteSets

CONSTANTS
    Devices, Gateways, SessionIds,
    Addresses,      \* the host addresses of every gateway's client_cidr, in order
    Capacity,       \* gateway -> its capacity
    Tenants,
    TenantOf,       \* the tenant of each device
    Dedicated,      \* gateway -> the one tenant it serves; absent when shared
    Regional,       \* the gateways in the region the profile asks for
    Statuses,       \* the gateway statuses operators set
    OperatorStates, \* the session states operators set
    Risks,          \* the risk actions profiles ask for
    MaxRekeys       \* bound: key rotations per session

ASSUME RegistryAssumption ==
    /\ Addresses \subseteq Nat
    /\ Capacity \in [Gateways -> Nat]
    /\ MaxRekeys \in Nat
    /\ OperatorStates \subseteq SessionStates
    /\ Risks \subseteq RiskActions
    /\ Statuses \subseteq {"online", "draining", "offline"}
    /\ TenantOf \in [Devices -> Tenants]
    /\ DOMAIN Dedicated \subseteq Gateways
    /\ \A g \in DOMAIN Dedicated : Dedicated[g] \in Tenants

VARIABLES
    device,     \* device -> "unknown" | "active" | "quarantined"
    status,     \* gateway -> operator intent
    seen,       \* gateway -> whether its reconciler reports
    sessions,   \* the rows of sc_sessions, by id
    keys,       \* the rows of sc_key_material that are not revoked
    leases,     \* the rows of sc_address_leases
    todo,       \* sessions a failover pass has still to move ({}: no pass)
    excluded    \* gateways that pass must not choose

vars == <<device, status, seen, sessions, keys, leases, todo, excluded>>

SessionRows ==
    [device : Devices, gateway : Gateways, address : Addresses,
     state : SessionStates, key : 0 .. MaxRekeys]

KeyRows == [session : SessionIds, gateway : Gateways, address : Addresses, key : 0 .. MaxRekeys]

LeaseRows == [gateway : Gateways, address : Addresses, device : Devices]

Live == {s \in DOMAIN sessions : sessions[s].state \in LiveStates}

LiveOf(d) == {s \in Live : sessions[s].device = d}

LiveOn(g) == {s \in Live : sessions[s].gateway = g}

Init ==
    /\ device = [d \in Devices |-> "unknown"]
    /\ status = [g \in Gateways |-> "online"]
    /\ seen = [g \in Gateways |-> "never"]
    /\ sessions = [s \in {} |-> {}]
    /\ keys = {}
    /\ leases = {}
    /\ todo = {}
    /\ excluded = {}

-----------------------------------------------------------------------------
(* Helpers shared by the handlers. *)

\* A gateway that never reported counts as reachable; one that used to
\* report and went silent does not.
Reachable(g) == seen[g] # "silent"

Serves(g, tenant) == g \in DOMAIN Dedicated => Dedicated[g] = tenant

Candidates(tenant, exclude) ==
    {g \in Gateways \ exclude :
        status[g] = "online" /\ Serves(g, tenant)
            /\ Cardinality(LiveOn(g)) < Capacity[g] /\ Reachable(g)}

\* The candidates that sort first: those in the region if there are any, then
\* dedicated before shared, then the least load for its capacity (which is not
\* zero, as a candidate has room).  Names break the remaining
\* ties in the code; here any of them may win.
SelectGateway(tenant, exclude) ==
    LET all == Candidates(tenant, exclude)
        pool == IF all \cap Regional # {} THEN all \cap Regional ELSE all
        tier == IF pool \cap DOMAIN Dedicated # {} THEN pool \cap DOMAIN Dedicated ELSE pool
    IN  {g \in tier : \A h \in tier :
            Cardinality(LiveOn(g)) * Capacity[h] <= Cardinality(LiveOn(h)) * Capacity[g]}

Held(g, d) == {l \in leases : l.gateway = g /\ l.device = d}

\* Mutant: a free address is one no live session uses, whoever leases it.
FreeOfSessions(g) == Addresses \ {sessions[s].address : s \in LiveOn(g)}

Free(g) == Addresses \ {l.address : l \in {x \in leases : x.gateway = g}}

\* The address a device gets on a gateway: the one it holds there, else the
\* first free one; none when the pool is exhausted.
AllocateAddress(g, d) ==
    IF Held(g, d) # {}
    THEN {l.address : l \in Held(g, d)}
    ELSE {a \in Free(g) : \A b \in Free(g) : a <= b}

Lease(g, a, d) == [gateway |-> g, address |-> a, device |-> d]

ReleaseAddress(g, d) == Held(g, d)

\* revoke_key_material, for a set of sessions.
Revoke(S) == {k \in keys : k.session \notin S}

KeyRow(s, row) == [session |-> s, gateway |-> row.gateway, address |-> row.address, key |-> row.key]

\* Mutant: the new key is recorded and the one it replaces stays valid.
AddKeyMaterial(s, row) == keys \cup {KeyRow(s, row)}

\* issue_key_material: the new key, and nothing the session held before it.
IssueKeyMaterial(s, row) == Revoke({s}) \cup {KeyRow(s, row)}

\* The sessions S moved to a state by apply_transition or _close_live_sessions.
WithState(S, state) ==
    [s \in DOMAIN sessions |->
        IF s \in S THEN [sessions[s] EXCEPT !.state = state] ELSE sessions[s]]

WithRow(s, row) ==
    [t \in DOMAIN sessions \cup {s} |-> IF t = s THEN row ELSE sessions[t]]

-----------------------------------------------------------------------------
(* Devices and sessions. *)

\* enroll_device, with a token that redeems: a known device is re-activated.
EnrollDevice(d) ==
    /\ device' = [device EXCEPT ![d] = "active"]
    /\ UNCHANGED <<status, seen, sessions, keys, leases, todo, excluded>>

\* Mutant: the device's earlier sessions stay live beside the new one.
StartBesideLive(d, s) ==
    /\ device[d] = "active"
    /\ s \notin DOMAIN sessions
    /\ \E g \in SelectGateway(TenantOf[d], {}) : \E a \in AllocateAddress(g, d) :
          LET row == [device |-> d, gateway |-> g, address |-> a, state |-> "healthy", key |-> 0]
          IN  /\ leases' = leases \cup {Lease(g, a, d)}
              /\ sessions' = WithRow(s, row)
              /\ keys' = keys \cup {KeyRow(s, row)}
    /\ UNCHANGED <<device, status, seen, todo, excluded>>

\* start_session: choose a gateway, lease an address there, close the sessions
\* the device still has, and record the new one with its key.
StartSession(d, s) ==
    /\ device[d] = "active"
    /\ s \notin DOMAIN sessions
    /\ \E g \in SelectGateway(TenantOf[d], {}) : \E a \in AllocateAddress(g, d) :
          LET row == [device |-> d, gateway |-> g, address |-> a, state |-> "healthy", key |-> 0]
              closed == WithState(LiveOf(d), "terminated")
          IN  /\ leases' = leases \cup {Lease(g, a, d)}
              /\ sessions' = [t \in DOMAIN sessions \cup {s} |-> IF t = s THEN row ELSE closed[t]]
              /\ keys' = Revoke(LiveOf(d)) \cup {KeyRow(s, row)}
    /\ UNCHANGED <<device, status, seen, todo, excluded>>

\* start_session cut short after the lease committed.
StartSessionInterrupted(d) ==
    /\ device[d] = "active"
    /\ \E g \in SelectGateway(TenantOf[d], {}) : \E a \in AllocateAddress(g, d) :
          leases' = leases \cup {Lease(g, a, d)}
    /\ UNCHANGED <<device, status, seen, sessions, keys, todo, excluded>>

\* The part of a heartbeat that changes the access state: an elevated session
\* whose clean window has elapsed cools down.
CoolDown(s) ==
    /\ s \in Live
    /\ sessions[s].state = "elevated"
    /\ TransitionAllowed("elevated", "healthy", FALSE, TRUE)
    /\ sessions' = WithState({s}, "healthy")
    /\ UNCHANGED <<device, status, seen, keys, leases, todo, excluded>>

\* handle_rekey: the session's new key replaces the one on record.
Rekey(s) ==
    /\ s \in Live
    /\ sessions[s].key < MaxRekeys
    /\ LET row == [sessions[s] EXCEPT !.key = @ + 1]
       IN  sessions' = WithRow(s, row) /\ keys' = IssueKeyMaterial(s, row)
    /\ UNCHANGED <<device, status, seen, leases, todo, excluded>>

\* terminate_session: also closes a quarantined session.
TerminateSession(s) ==
    /\ s \in DOMAIN sessions
    /\ sessions[s].state # "terminated"
    /\ sessions' = WithState({s}, "terminated")
    /\ keys' = Revoke({s})
    /\ UNCHANGED <<device, status, seen, leases, todo, excluded>>

\* set_session_state: an operator's transition; it leaves the keys alone.
SetSessionState(s, target, hasSafeCidrs) ==
    /\ s \in DOMAIN sessions
    /\ IsRelaxation(sessions[s].state, target) =>
          sessions[s].state = "elevated" /\ target = "healthy"
    /\ target = "restricted" => hasSafeCidrs
    /\ TransitionAllowed(sessions[s].state, target, TRUE, FALSE)
    /\ sessions' = WithState({s}, target)
    /\ UNCHANGED <<device, status, seen, keys, leases, todo, excluded>>

\* quarantine_device: the device and every live session it holds.
QuarantineDevice(d) ==
    /\ device[d] # "unknown"
    /\ device' = [device EXCEPT ![d] = "quarantined"]
    /\ sessions' = WithState(LiveOf(d), "quarantined")
    /\ keys' = Revoke(LiveOf(d))
    /\ UNCHANGED <<status, seen, leases, todo, excluded>>

\* submit_risk_signal and apply_alert: the live sessions of the alerting host
\* move to the state its profile asks for, unless that would relax them.
RiskSignal(d, action, hasSafeCidrs) ==
    LET target == PlanRiskTarget(action, hasSafeCidrs)
        moved == {s \in LiveOf(d) : sessions[s].state # target
                                       /\ ~IsRelaxation(sessions[s].state, target)}
    IN  /\ moved # {}
        /\ sessions' = WithState(moved, target)
        /\ keys' = IF ClosesAccess(target) THEN Revoke(moved) ELSE keys
        /\ UNCHANGED <<device, status, seen, leases, todo, excluded>>

\* reap_expired_sessions: S are the live sessions expired beyond the grace.
ReapExpired(S) ==
    /\ S \subseteq Live /\ S # {}
    /\ sessions' = WithState(S, "terminated")
    /\ keys' = Revoke(S)
    /\ UNCHANGED <<device, status, seen, leases, todo, excluded>>

-----------------------------------------------------------------------------
(* Gateways and failover. *)

GatewayHeartbeat(g) ==
    /\ seen' = [seen EXCEPT ![g] = "recent"]
    /\ UNCHANGED <<device, status, sessions, keys, leases, todo, excluded>>

\* The grace period since the gateway's last report runs out.
GatewaySilent(g) ==
    /\ seen[g] = "recent"
    /\ seen' = [seen EXCEPT ![g] = "silent"]
    /\ UNCHANGED <<device, status, sessions, keys, leases, todo, excluded>>

SetGatewayStatus(g, st) ==
    /\ status' = [status EXCEPT ![g] = st]
    /\ UNCHANGED <<device, seen, sessions, keys, leases, todo, excluded>>

\* The worker's pass: off every gateway that can no longer serve.
FailoverSessions ==
    LET evacuating == {g \in Gateways : status[g] # "online" \/ ~Reachable(g)}
    IN  /\ todo' = {s \in Live : sessions[s].gateway \in evacuating}
        /\ todo' # {}
        /\ excluded' = evacuating
        /\ UNCHANGED <<device, status, seen, sessions, keys, leases>>

\* The operator's pass: one tenant's sessions off one gateway.
FailoverGateway(g, tenant) ==
    /\ Serves(g, tenant)
    /\ todo' = {s \in LiveOn(g) : TenantOf[sessions[s].device] = tenant}
    /\ todo' # {}
    /\ excluded' = {g}
    /\ UNCHANGED <<device, status, seen, sessions, keys, leases>>

\* One session of the pass moves: migrate_session.
MigrateNext(s) ==
    LET d == sessions[s].device
    IN  /\ s \in todo
        /\ \E g \in SelectGateway(TenantOf[d], excluded) : \E a \in AllocateAddress(g, d) :
              LET row == [sessions[s] EXCEPT !.gateway = g, !.address = a]
              IN  /\ leases' = (leases \cup {Lease(g, a, d)})
                                  \ ReleaseAddress(sessions[s].gateway, d)
                  /\ sessions' = WithRow(s, row)
                  /\ keys' = IssueKeyMaterial(s, row)
        /\ todo' = todo \ {s}
        /\ excluded' = IF todo' = {} THEN {} ELSE excluded
        /\ UNCHANGED <<device, status, seen>>

\* One session of the pass has nowhere to go and stays where it is.
StrandNext(s) ==
    LET choice == SelectGateway(TenantOf[sessions[s].device], excluded)
    IN  /\ s \in todo
        /\ \/ choice = {}
           \/ \E g \in choice : AllocateAddress(g, sessions[s].device) = {}
        /\ todo' = todo \ {s}
        /\ excluded' = IF todo' = {} THEN {} ELSE excluded
        /\ UNCHANGED <<device, status, seen, sessions, keys, leases>>

\* The process stops during the pass, after a lease committed and before the
\* migration it was for.
FailoverInterrupted(s) ==
    LET d == sessions[s].device
    IN  /\ s \in todo
        /\ \E g \in SelectGateway(TenantOf[d], excluded) : \E a \in AllocateAddress(g, d) :
              leases' = leases \cup {Lease(g, a, d)}
        /\ todo' = {}
        /\ excluded' = {}
        /\ UNCHANGED <<device, status, seen, sessions, keys>>

-----------------------------------------------------------------------------

DeviceStep ==
    \E d \in Devices :
        \/ EnrollDevice(d)
        \/ \E s \in SessionIds : StartSession(d, s)
        \/ StartSessionInterrupted(d)
        \/ QuarantineDevice(d)
        \/ \E action \in Risks, safe \in BOOLEAN : RiskSignal(d, action, safe)

SessionStep ==
    \E s \in SessionIds :
        \/ CoolDown(s)
        \/ Rekey(s)
        \/ TerminateSession(s)
        \/ \E target \in OperatorStates, safe \in BOOLEAN : SetSessionState(s, target, safe)

GatewayStep ==
    \E g \in Gateways :
        \/ GatewayHeartbeat(g)
        \/ GatewaySilent(g)
        \/ \E st \in Statuses : SetGatewayStatus(g, st)
        \/ \E t \in Tenants : FailoverGateway(g, t)

PassStep ==
    \E s \in todo : MigrateNext(s) \/ StrandNext(s) \/ FailoverInterrupted(s)

Next ==
    \/ /\ todo = {}
       /\ \/ DeviceStep
          \/ SessionStep
          \/ GatewayStep
          \/ \E S \in SUBSET SessionIds : ReapExpired(S)
          \/ FailoverSessions
    \/ PassStep

Spec == Init /\ [][Next]_vars

-----------------------------------------------------------------------------
(* Properties. *)

\* Every table holds rows of its columns' types, and a failover pass works
\* through live sessions.
TypeOK ==
    /\ device \in [Devices -> {"unknown", "active", "quarantined"}]
    /\ status \in [Gateways -> {"online", "draining", "offline"}]
    /\ seen \in [Gateways -> {"never", "recent", "silent"}]
    /\ DOMAIN sessions \subseteq SessionIds
    /\ sessions \in [DOMAIN sessions -> SessionRows]
    /\ keys \subseteq KeyRows
    /\ leases \subseteq LeaseRows
    /\ todo \subseteq Live
    /\ excluded \subseteq Gateways

\* "a device holds one tunnel at a time" (_close_live_sessions): whatever the
\* order of starts, migrations, risk signals and operator actions, a device
\* never has two live sessions.
OneTunnelPerDevice ==
    \A s, t \in Live : sessions[s].device = sessions[t].device => s = t

\* Two live sessions on one gateway never have the same tunnel address, though
\* leases commit apart from the sessions they are for, survive a failed start
\* and are released by a migration (allocate_address, release_address).
AddressExclusive ==
    \A s, t \in Live :
        sessions[s].gateway = sessions[t].gateway /\ sessions[s].address = sessions[t].address
            => s = t

\* A live session has exactly one key that is not revoked, and it is the key
\* on the session's record, valid on its present gateway and address only: "a
\* migrated device never holds valid key material on two gateways at once"
\* (migrate_session, issue_key_material).
KeyFollowsSession ==
    \A s \in Live : {k \in keys : k.session = s} = {KeyRow(s, sessions[s])}

=============================================================================
