------------------------- MODULE SecureConnectProofs -------------------------
(***************************************************************************)
(* Proofs about the two ends of Secure Connect: the control plane's        *)
(* registry of sessions and the gateway's reconciler.                      *)
(*                                                                         *)
(* SecureConnectSessions, for any devices, gateways, tenants, address pool *)
(* and capacity: the types, one tunnel per device, exclusive tunnel        *)
(* addresses, and keys that follow their session.  None of the last three  *)
(* is inductive by itself.  Two live sessions cannot share an address      *)
(* because each holds the lease of its address (LiveLeased) and a lease    *)
(* has one owner (LeaseOwned); a migration keeps LiveLeased because the    *)
(* lease it releases is on a gateway the pass excludes (PassLeaves) and    *)
(* belongs to no other live session (OneTunnelPerDevice).                  *)
(*                                                                         *)
(* GatewayReconciler, for any keys, addresses and number of changes: what  *)
(* a round removes, in which order it works, and what it reports.          *)
(***************************************************************************)
EXTENDS SecureConnectSessions, GatewayReconciler, TLAPS

\* An address of a gateway is leased to one device, and a device leases one
\* address of a gateway.
LeaseOwned ==
    \A l, m \in leases :
        l.gateway = m.gateway /\ (l.address = m.address \/ l.device = m.device) => l = m

\* A live session holds the lease of its address.
LiveLeased ==
    \A s \in Live : Lease(sessions[s].gateway, sessions[s].address, sessions[s].device) \in leases

\* A failover pass moves sessions off the gateways it excludes.
PassLeaves == \A s \in todo : sessions[s].gateway \in excluded

\* Keys are recorded for sessions that exist.
KeysOfSessions == \A k \in keys : k.session \in DOMAIN sessions

\* The inductive invariant.
IInv ==
    /\ TypeOK
    /\ OneTunnelPerDevice
    /\ LeaseOwned
    /\ LiveLeased
    /\ PassLeaves
    /\ KeysOfSessions
    /\ KeyFollowsSession

-----------------------------------------------------------------------------
(* Facts about the helpers. *)

\* select_gateway returns a gateway it was not told to exclude.
LEMMA SelectGatewayRange ==
    ASSUME NEW tenant, NEW exclude
    PROVE  SelectGateway(tenant, exclude) \subseteq Gateways \ exclude
  BY DEF SelectGateway, Candidates

\* allocate_address hands out an address of the pool, and leasing it keeps
\* every lease in one hand: it is the device's own or nobody's.
LEMMA AllocateAddressSound ==
    ASSUME TypeOK, LeaseOwned, NEW g \in Gateways, NEW d \in Devices,
           NEW a \in AllocateAddress(g, d)
    PROVE  /\ a \in Addresses
           /\ leases \cup {Lease(g, a, d)} \subseteq LeaseRows
           /\ \A l, m \in leases \cup {Lease(g, a, d)} :
                 l.gateway = m.gateway /\ (l.address = m.address \/ l.device = m.device) => l = m
  <1>1. CASE Held(g, d) # {}
    <2>1. PICK l \in leases : l.gateway = g /\ l.device = d /\ a = l.address
      BY <1>1 DEF AllocateAddress, Held
    <2>2. l = Lease(g, a, d)
      BY <2>1 DEF Lease, TypeOK, LeaseRows
    <2> QED
      BY <2>1, <2>2 DEF LeaseOwned, TypeOK, LeaseRows
  <1>2. CASE Held(g, d) = {}
    <2>1. a \in Free(g)
      BY <1>2 DEF AllocateAddress
    <2>2. \A l \in leases : l.gateway = g => l.address # a /\ l.device # d
      BY <1>2, <2>1 DEF Free, Held
    <2> QED
      BY <2>1, <2>2 DEF LeaseOwned, TypeOK, LeaseRows, Lease, Free
  <1> QED
    BY <1>1, <1>2

\* A transition that is not a relaxation never revives a closed session.
LEMMA OnlyRelaxingRevives ==
    ASSUME NEW current \in SessionStates, NEW target \in SessionStates,
           ~IsRelaxation(current, target), target \in LiveStates
    PROVE  current \in LiveStates
  BY DEF IsRelaxation, SessionStates, LiveStates, RestrictionRank

\* A step that only changes session states, revives nothing, and revokes the
\* keys of the sessions it closes at most, keeps the invariant.
LEMMA StateChangeKeepsIInv ==
    ASSUME IInv, NEW S \in SUBSET SessionIds, NEW state \in SessionStates,
           S \subseteq DOMAIN sessions,
           state \in LiveStates => S \subseteq Live,
           todo = {},
           sessions' = WithState(S, state),
           keys' = keys \/ (state \notin LiveStates /\ keys' = Revoke(S)),
           UNCHANGED <<status, seen, leases, todo, excluded>>,
           device' \in [Devices -> {"unknown", "active", "quarantined"}]
    PROVE  IInv'
  <1> USE DEF IInv
  <1>1. /\ DOMAIN sessions' = DOMAIN sessions
        /\ \A s \in DOMAIN sessions :
              /\ sessions'[s] \in SessionRows
              /\ sessions'[s].device = sessions[s].device
              /\ sessions'[s].gateway = sessions[s].gateway
              /\ sessions'[s].address = sessions[s].address
              /\ sessions'[s].key = sessions[s].key
              /\ sessions'[s].state = IF s \in S THEN state ELSE sessions[s].state
        /\ sessions' \in [DOMAIN sessions -> SessionRows]
    BY DEF WithState, TypeOK, SessionRows
  <1>2. Live' \subseteq Live
    BY <1>1 DEF Live
  <1>3. keys' \subseteq keys
    BY DEF Revoke
  <1>4. TypeOK'
    BY <1>1, <1>2, <1>3 DEF TypeOK
  <1>5. OneTunnelPerDevice'
    BY <1>1, <1>2 DEF OneTunnelPerDevice, Live
  <1>6. LeaseOwned' /\ PassLeaves'
    BY DEF LeaseOwned, PassLeaves
  <1>7. LiveLeased'
    BY <1>1, <1>2 DEF LiveLeased, Lease, Live
  <1>8. KeysOfSessions'
    BY <1>1, <1>3 DEF KeysOfSessions
  <1>9. KeyFollowsSession'
    <2> SUFFICES ASSUME NEW s \in Live'
                 PROVE  {k \in keys' : k.session = s} = {KeyRow(s, sessions'[s])}
      BY DEF KeyFollowsSession, KeyRow
    <2>1. s \in Live /\ KeyRow(s, sessions'[s]) = KeyRow(s, sessions[s])
      BY <1>1, <1>2 DEF KeyRow, Live
    <2>2. {k \in keys' : k.session = s} = {k \in keys : k.session = s}
      BY <1>1 DEF Revoke, Live
    <2> QED
      BY <2>1, <2>2 DEF KeyFollowsSession
  <1> QED
    BY <1>4, <1>5, <1>6, <1>7, <1>8, <1>9

\* A step that only commits the lease of an allocated address keeps the
\* invariant: the lease outlives the start or migration it was for.
LEMMA LeaseAloneKeepsIInv ==
    ASSUME IInv, NEW g \in Gateways, NEW d \in Devices, NEW a \in AllocateAddress(g, d),
           leases' = leases \cup {Lease(g, a, d)},
           UNCHANGED <<device, status, seen, sessions, keys>>,
           \/ UNCHANGED <<todo, excluded>>
           \/ todo' = {} /\ excluded' = {}
    PROVE  IInv'
  <1> USE DEF IInv
  <1>1. LeaseOwned' /\ leases' \subseteq LeaseRows
    BY AllocateAddressSound DEF LeaseOwned
  <1>2. Live' = Live
    BY DEF Live
  <1>3. TypeOK'
    BY <1>1, <1>2 DEF TypeOK
  <1>4. LiveLeased'
    BY <1>2 DEF LiveLeased, Lease
  <1>5. OneTunnelPerDevice' /\ KeysOfSessions' /\ PassLeaves'
    BY <1>2 DEF OneTunnelPerDevice, KeysOfSessions, PassLeaves
  <1>6. KeyFollowsSession'
    BY <1>2 DEF KeyFollowsSession, KeyRow
  <1> QED
    BY <1>1, <1>3, <1>4, <1>5, <1>6

\* start_session keeps the invariant: the new session takes the lease, and
\* the device's other sessions are closed in the same commit.
LEMMA StartSessionKeepsIInv ==
    ASSUME IInv, NEW d \in Devices, NEW s \in SessionIds, todo = {}, StartSession(d, s)
    PROVE  IInv'
  <1> USE DEF IInv
  <1>a. PICK g \in SelectGateway(TenantOf[d], {}) : \E a \in AllocateAddress(g, d) :
        LET row == [device |-> d, gateway |-> g, address |-> a, state |-> "healthy", key |-> 0]
            closed == WithState(LiveOf(d), "terminated")
        IN  /\ leases' = leases \cup {Lease(g, a, d)}
            /\ sessions' = [t \in DOMAIN sessions \cup {s} |-> IF t = s THEN row ELSE closed[t]]
            /\ keys' = Revoke(LiveOf(d)) \cup {KeyRow(s, row)}
    BY DEF StartSession
  <1>b. PICK a \in AllocateAddress(g, d) :
        LET row == [device |-> d, gateway |-> g, address |-> a, state |-> "healthy", key |-> 0]
            closed == WithState(LiveOf(d), "terminated")
        IN  /\ leases' = leases \cup {Lease(g, a, d)}
            /\ sessions' = [t \in DOMAIN sessions \cup {s} |-> IF t = s THEN row ELSE closed[t]]
            /\ keys' = Revoke(LiveOf(d)) \cup {KeyRow(s, row)}
    BY <1>a
  <1> DEFINE row == [device |-> d, gateway |-> g, address |-> a, state |-> "healthy", key |-> 0]
  <1>1. g \in Gateways /\ a \in Addresses /\ LeaseOwned' /\ leases' \subseteq LeaseRows
    <2>1. g \in Gateways
      BY SelectGatewayRange
    <2> QED
      BY <1>b, <2>1, AllocateAddressSound DEF LeaseOwned
  <1>2. s \notin DOMAIN sessions /\ UNCHANGED <<device, status, seen, todo, excluded>>
    BY DEF StartSession
  <1>3. row \in SessionRows
    BY <1>1, RegistryAssumption DEF SessionRows, SessionStates
  <1>4. /\ DOMAIN sessions' = DOMAIN sessions \cup {s}
        /\ sessions'[s] = row
        /\ \A t \in DOMAIN sessions :
              /\ sessions'[t] \in SessionRows
              /\ t \notin LiveOf(d) => sessions'[t] = sessions[t]
              /\ t \in LiveOf(d) => sessions'[t].state = "terminated"
    BY <1>b, <1>2 DEF WithState, TypeOK, SessionRows, SessionStates
  <1>5. sessions' \in [DOMAIN sessions' -> SessionRows]
    BY <1>b, <1>3, <1>4
  <1>6. Live' = (Live \ LiveOf(d)) \cup {s}
    BY <1>2, <1>4 DEF Live, LiveStates, LiveOf
  <1>7. \A t \in Live' \ {s} : t \in Live /\ sessions'[t] = sessions[t] /\ sessions[t].device # d
    BY <1>4, <1>6 DEF LiveOf, Live
  <1>8. TypeOK'
    <2>1. keys' \subseteq KeyRows
      BY <1>b, <1>1, RegistryAssumption DEF KeyRow, Revoke, TypeOK, KeyRows
    <2> QED
      BY <2>1, <1>1, <1>2, <1>4, <1>5 DEF TypeOK
  <1>9. OneTunnelPerDevice'
    BY <1>4, <1>7 DEF OneTunnelPerDevice
  <1>10. LiveLeased'
    BY <1>b, <1>4, <1>7 DEF LiveLeased, Lease
  <1>11. PassLeaves'
    BY <1>2 DEF PassLeaves
  <1>12. KeysOfSessions'
    BY <1>b, <1>4 DEF KeysOfSessions, Revoke, KeyRow
  <1>13. KeyFollowsSession'
    <2> SUFFICES ASSUME NEW t \in Live'
                 PROVE  {k \in keys' : k.session = t} = {KeyRow(t, sessions'[t])}
      BY DEF KeyFollowsSession, KeyRow
    <2>1. CASE t = s
      BY <1>b, <2>1, <1>2, <1>4 DEF KeysOfSessions, Revoke, KeyRow
    <2>2. CASE t # s
      <3>1. {k \in keys' : k.session = t} = {k \in keys : k.session = t}
        BY <1>b, <2>2, <1>6 DEF Revoke, KeyRow
      <3> QED
        BY <2>2, <3>1, <1>7 DEF KeyFollowsSession
    <2> QED
      BY <2>1, <2>2
  <1> QED
    BY <1>1, <1>8, <1>9, <1>10, <1>11, <1>12, <1>13

\* Replacing the row of a live session and issuing its key anew, as a rekey
\* and a migration do, keeps the keys in step with the sessions.
LEMMA IssueKeepsKeys ==
    ASSUME TypeOK, KeysOfSessions, KeyFollowsSession,
           NEW s \in Live, NEW row \in SessionRows, row.state = sessions[s].state,
           sessions' = WithRow(s, row), keys' = IssueKeyMaterial(s, row)
    PROVE  /\ DOMAIN sessions' = DOMAIN sessions
           /\ sessions'[s] = row
           /\ \A t \in DOMAIN sessions : t # s => sessions'[t] = sessions[t]
           /\ sessions' \in [DOMAIN sessions -> SessionRows]
           /\ Live' = Live
           /\ keys' \subseteq KeyRows
           /\ KeysOfSessions'
           /\ KeyFollowsSession'
  <1>1. /\ DOMAIN sessions' = DOMAIN sessions
        /\ sessions'[s] = row
        /\ \A t \in DOMAIN sessions : t # s => sessions'[t] = sessions[t]
        /\ sessions' \in [DOMAIN sessions -> SessionRows]
    BY DEF WithRow, TypeOK, Live
  <1>2. Live' = Live
    BY <1>1 DEF Live
  <1>3. keys' \subseteq KeyRows
    BY DEF IssueKeyMaterial, Revoke, KeyRow, KeyRows, TypeOK, SessionRows, Live
  <1>4. KeysOfSessions'
    BY <1>1 DEF KeysOfSessions, IssueKeyMaterial, Revoke, KeyRow, Live
  <1>5. KeyFollowsSession'
    <2> SUFFICES ASSUME NEW t \in Live
                 PROVE  {k \in keys' : k.session = t} = {KeyRow(t, sessions'[t])}
      BY <1>2 DEF KeyFollowsSession, KeyRow
    <2>1. CASE t = s
      BY <2>1, <1>1 DEF IssueKeyMaterial, Revoke, KeyRow
    <2>2. CASE t # s
      <3>1. {k \in keys' : k.session = t} = {k \in keys : k.session = t}
        BY <2>2 DEF IssueKeyMaterial, Revoke, KeyRow
      <3> QED
        BY <2>2, <3>1, <1>1 DEF KeyFollowsSession, Live
    <2> QED
      BY <2>1, <2>2
  <1> QED
    BY <1>1, <1>2, <1>3, <1>4, <1>5

\* handle_rekey keeps the invariant: only the key of the session changes, and
\* its key material with it.
LEMMA RekeyKeepsIInv ==
    ASSUME IInv, NEW s \in SessionIds, todo = {}, Rekey(s)
    PROVE  IInv'
  <1> USE DEF IInv
  <1>1. /\ s \in Live /\ sessions[s] \in SessionRows
        /\ UNCHANGED <<device, status, seen, leases, todo, excluded>>
    BY DEF Rekey, Live, TypeOK
  <1>2. PICK row \in SessionRows :
           /\ row.device = sessions[s].device /\ row.gateway = sessions[s].gateway
           /\ row.address = sessions[s].address /\ row.state = sessions[s].state
           /\ sessions' = WithRow(s, row) /\ keys' = IssueKeyMaterial(s, row)
    <2> DEFINE r == [sessions[s] EXCEPT !.key = @ + 1]
    <2>1. sessions' = WithRow(s, r) /\ keys' = IssueKeyMaterial(s, r)
      BY DEF Rekey
    <2>2. /\ r \in SessionRows
          /\ r.device = sessions[s].device /\ r.gateway = sessions[s].gateway
          /\ r.address = sessions[s].address /\ r.state = sessions[s].state
      BY <1>1, RegistryAssumption DEF SessionRows, Rekey
    <2> HIDE DEF r
    <2> QED
      BY <2>1, <2>2
  <1>3. /\ DOMAIN sessions' = DOMAIN sessions /\ sessions'[s] = row /\ Live' = Live
        /\ \A t \in DOMAIN sessions : t # s => sessions'[t] = sessions[t]
        /\ sessions' \in [DOMAIN sessions -> SessionRows]
        /\ keys' \subseteq KeyRows /\ KeysOfSessions' /\ KeyFollowsSession'
    BY <1>1, <1>2, IssueKeepsKeys
  <1>4. TypeOK'
    BY <1>1, <1>3 DEF TypeOK
  <1>5. OneTunnelPerDevice' /\ LeaseOwned' /\ PassLeaves'
    BY <1>1, <1>2, <1>3 DEF OneTunnelPerDevice, LeaseOwned, PassLeaves, Live
  <1>6. LiveLeased'
    BY <1>1, <1>2, <1>3 DEF LiveLeased, Lease, Live
  <1> QED
    BY <1>3, <1>4, <1>5, <1>6

\* migrate_session keeps the invariant.  The lease it releases is on a gateway
\* the pass excludes, so it is not the one just taken; and no other live
\* session relies on it, because the device has no other live session.
LEMMA MigrateKeepsIInv ==
    ASSUME IInv, NEW s \in todo, MigrateNext(s)
    PROVE  IInv'
  <1> USE DEF IInv
  <1> DEFINE d == sessions[s].device
             old == sessions[s].gateway
  <1>1. s \in Live /\ s \in DOMAIN sessions /\ sessions[s] \in SessionRows /\ old \in excluded
    BY DEF TypeOK, Live, PassLeaves
  <1>2. /\ UNCHANGED <<device, status, seen>>
        /\ todo' = todo \ {s}
        /\ todo' # {} => excluded' = excluded
        /\ excluded' \subseteq Gateways
    BY DEF MigrateNext, TypeOK
  <1>3. d \in Devices
    BY <1>1 DEF SessionRows
  <1>4. PICK g \in SelectGateway(TenantOf[d], excluded) : \E a \in AllocateAddress(g, d) :
           LET row == [sessions[s] EXCEPT !.gateway = g, !.address = a]
           IN  /\ leases' = (leases \cup {Lease(g, a, d)}) \ ReleaseAddress(old, d)
               /\ sessions' = WithRow(s, row)
               /\ keys' = IssueKeyMaterial(s, row)
    BY Zenon DEF MigrateNext
  <1>5. PICK a \in AllocateAddress(g, d) :
           LET row == [sessions[s] EXCEPT !.gateway = g, !.address = a]
           IN  /\ leases' = (leases \cup {Lease(g, a, d)}) \ ReleaseAddress(old, d)
               /\ sessions' = WithRow(s, row)
               /\ keys' = IssueKeyMaterial(s, row)
    BY <1>4, Zenon
  <1>6. g \in Gateways /\ g # old
    BY <1>1, SelectGatewayRange
  <1>7. a \in Addresses /\ LeaseOwned' /\ leases' \subseteq LeaseRows
    BY <1>3, <1>5, <1>6, AllocateAddressSound DEF LeaseOwned
  <1>8. PICK row \in SessionRows :
           /\ row.device = d /\ row.gateway = g /\ row.address = a
           /\ row.state = sessions[s].state
           /\ sessions' = WithRow(s, row) /\ keys' = IssueKeyMaterial(s, row)
    <2> DEFINE r == [sessions[s] EXCEPT !.gateway = g, !.address = a]
    <2>1. sessions' = WithRow(s, r) /\ keys' = IssueKeyMaterial(s, r)
      BY <1>5
    <2>2. /\ r \in SessionRows
          /\ r.device = d /\ r.gateway = g /\ r.address = a /\ r.state = sessions[s].state
      BY <1>1, <1>6, <1>7, Zenon DEF SessionRows
    <2> HIDE DEF r
    <2> QED
      BY <2>1, <2>2
  <1>9. /\ DOMAIN sessions' = DOMAIN sessions /\ sessions'[s] = row /\ Live' = Live
        /\ \A t \in DOMAIN sessions : t # s => sessions'[t] = sessions[t]
        /\ sessions' \in [DOMAIN sessions -> SessionRows]
        /\ keys' \subseteq KeyRows /\ KeysOfSessions' /\ KeyFollowsSession'
    BY <1>1, <1>8, IssueKeepsKeys
  <1>10. TypeOK'
    BY <1>2, <1>7, <1>9 DEF TypeOK
  <1>11. OneTunnelPerDevice'
    BY <1>1, <1>8, <1>9 DEF OneTunnelPerDevice, Live
  <1>12. LiveLeased'
    <2> SUFFICES ASSUME NEW t \in Live
                 PROVE  Lease(sessions'[t].gateway, sessions'[t].address, sessions'[t].device)
                            \in leases'
      BY <1>9 DEF LiveLeased, Lease
    <2>1. CASE t = s
      BY <2>1, <1>5, <1>6, <1>8, <1>9 DEF Lease, ReleaseAddress, Held
    <2>2. CASE t # s
      <3>1. sessions'[t] = sessions[t] /\ sessions[t].device # d
        BY <2>2, <1>1, <1>9 DEF OneTunnelPerDevice, Live
      <3> QED
        BY <3>1, <1>5 DEF LiveLeased, Lease, ReleaseAddress, Held
    <2> QED
      BY <2>1, <2>2
  <1>13. PassLeaves'
    BY <1>2, <1>9 DEF PassLeaves, TypeOK, Live
  <1> QED
    BY <1>7, <1>9, <1>10, <1>11, <1>12, <1>13

-----------------------------------------------------------------------------
(* The invariant, and the properties it implies. *)

\* The empty registry satisfies the invariant.
LEMMA InitIInv == Init => IInv
  BY DEF Init, IInv, TypeOK, OneTunnelPerDevice, LeaseOwned, LiveLeased, PassLeaves,
         KeysOfSessions, KeyFollowsSession, Live

\* Every handler and every step of a failover pass keeps the invariant.
LEMMA NextIInv == IInv /\ [Next]_vars => IInv'
  <1> SUFFICES ASSUME IInv, [Next]_vars PROVE IInv'
    OBVIOUS
  <1> USE DEF IInv
  <1>1. ASSUME todo = {}, NEW d \in Devices, EnrollDevice(d) PROVE IInv'
    BY <1>1 DEF EnrollDevice, TypeOK, OneTunnelPerDevice, LeaseOwned, LiveLeased, PassLeaves,
                KeysOfSessions, KeyFollowsSession, Live, Lease, KeyRow
  <1>2. ASSUME todo = {}, NEW d \in Devices, NEW s \in SessionIds, StartSession(d, s) PROVE IInv'
    BY <1>2, StartSessionKeepsIInv
  <1>3. ASSUME todo = {}, NEW d \in Devices, StartSessionInterrupted(d) PROVE IInv'
    <2>1. PICK g \in SelectGateway(TenantOf[d], {}) : \E a \in AllocateAddress(g, d) :
             leases' = leases \cup {Lease(g, a, d)}
      BY <1>3 DEF StartSessionInterrupted
    <2>2. g \in Gateways
      BY SelectGatewayRange
    <2> QED
      BY <1>3, <2>1, <2>2, LeaseAloneKeepsIInv DEF StartSessionInterrupted
  <1>4. ASSUME todo = {}, NEW d \in Devices, QuarantineDevice(d) PROVE IInv'
    <2>1. LiveOf(d) \subseteq DOMAIN sessions /\ LiveOf(d) \in SUBSET SessionIds
      BY DEF LiveOf, Live, TypeOK
    <2>2. "quarantined" \in SessionStates /\ "quarantined" \notin LiveStates
      BY DEF SessionStates, LiveStates
    <2> QED
      BY <1>4, <2>1, <2>2, StateChangeKeepsIInv DEF QuarantineDevice, TypeOK
  <1>5. ASSUME todo = {}, NEW d \in Devices, NEW action \in Risks, NEW safe \in BOOLEAN,
               RiskSignal(d, action, safe)
        PROVE  IInv'
    <2> DEFINE target == PlanRiskTarget(action, safe)
               moved == {s \in LiveOf(d) : sessions[s].state # target
                                              /\ ~IsRelaxation(sessions[s].state, target)}
    <2>1. moved \subseteq Live /\ moved \subseteq DOMAIN sessions /\ moved \in SUBSET SessionIds
      BY DEF LiveOf, Live, TypeOK
    <2>2. target \in SessionStates
      BY RegistryAssumption DEF PlanRiskTarget, SessionStates, RiskActions
    <2>3. /\ sessions' = WithState(moved, target)
          /\ keys' = IF ClosesAccess(target) THEN Revoke(moved) ELSE keys
          /\ UNCHANGED <<device, status, seen, leases, todo, excluded>>
      BY <1>5 DEF RiskSignal
    <2>4. keys' = keys \/ (target \notin LiveStates /\ keys' = Revoke(moved))
      BY <2>3 DEF ClosesAccess, LiveStates
    <2> HIDE DEF target, moved
    <2> QED
      BY <1>5, <2>1, <2>2, <2>3, <2>4, StateChangeKeepsIInv DEF TypeOK
  <1>6. ASSUME todo = {}, NEW s \in SessionIds, CoolDown(s) PROVE IInv'
    <2>1. {s} \subseteq Live /\ {s} \subseteq DOMAIN sessions
      BY <1>6 DEF CoolDown, Live
    <2>2. "healthy" \in SessionStates
      BY DEF SessionStates
    <2>3. /\ sessions' = WithState({s}, "healthy") /\ keys' = keys
          /\ UNCHANGED <<device, status, seen, leases, todo, excluded>>
      BY <1>6 DEF CoolDown
    <2>4. {s} \in SUBSET SessionIds /\ device' \in [Devices -> {"unknown", "active", "quarantined"}]
      BY <2>3 DEF TypeOK
    <2> QED
      BY <1>6, <2>1, <2>2, <2>3, <2>4, StateChangeKeepsIInv
  <1>7. ASSUME todo = {}, NEW s \in SessionIds, Rekey(s) PROVE IInv'
    BY <1>7, RekeyKeepsIInv
  <1>8. ASSUME todo = {}, NEW s \in SessionIds, TerminateSession(s) PROVE IInv'
    <2>1. "terminated" \in SessionStates /\ "terminated" \notin LiveStates
      BY DEF SessionStates, LiveStates
    <2>2. /\ sessions' = WithState({s}, "terminated") /\ keys' = Revoke({s})
          /\ UNCHANGED <<device, status, seen, leases, todo, excluded>>
      BY <1>8 DEF TerminateSession
    <2>3. {s} \in SUBSET SessionIds /\ {s} \subseteq DOMAIN sessions
      BY <1>8 DEF TerminateSession
    <2>4. device' \in [Devices -> {"unknown", "active", "quarantined"}]
      BY <2>2 DEF TypeOK
    <2> QED
      BY <1>8, <2>1, <2>2, <2>3, <2>4, StateChangeKeepsIInv
  <1>9. ASSUME todo = {}, NEW s \in SessionIds, NEW target \in OperatorStates,
               NEW safe \in BOOLEAN, SetSessionState(s, target, safe)
        PROVE  IInv'
    <2>1. target \in SessionStates /\ s \in DOMAIN sessions /\ sessions[s].state \in SessionStates
      BY <1>9, RegistryAssumption DEF SetSessionState, TypeOK, SessionRows
    <2>2. target \in LiveStates => {s} \subseteq Live
      <3>1. CASE IsRelaxation(sessions[s].state, target)
        BY <1>9, <2>1, <3>1 DEF SetSessionState, Live, LiveStates
      <3>2. CASE ~IsRelaxation(sessions[s].state, target)
        BY <2>1, <3>2, OnlyRelaxingRevives DEF Live
      <3> QED
        BY <3>1, <3>2
    <2>3. /\ sessions' = WithState({s}, target) /\ keys' = keys
          /\ UNCHANGED <<device, status, seen, leases, todo, excluded>>
      BY <1>9 DEF SetSessionState
    <2>4. {s} \in SUBSET SessionIds /\ {s} \subseteq DOMAIN sessions
      BY <2>1
    <2>5. device' \in [Devices -> {"unknown", "active", "quarantined"}]
      BY <2>3 DEF TypeOK
    <2> QED
      BY <1>9, <2>1, <2>2, <2>3, <2>4, <2>5, StateChangeKeepsIInv
  <1>10. ASSUME todo = {}, NEW S \in SUBSET SessionIds, ReapExpired(S) PROVE IInv'
    <2>1. "terminated" \in SessionStates /\ "terminated" \notin LiveStates
      BY DEF SessionStates, LiveStates
    <2> QED
      BY <1>10, <2>1, StateChangeKeepsIInv, SMTT(30) DEF ReapExpired, TypeOK, Live
  <1>11. ASSUME todo = {}, NEW g \in Gateways, GatewayHeartbeat(g) \/ GatewaySilent(g) PROVE IInv'
    BY <1>11 DEF GatewayHeartbeat, GatewaySilent, TypeOK, OneTunnelPerDevice, LeaseOwned,
                 LiveLeased, PassLeaves, KeysOfSessions, KeyFollowsSession, Live, Lease, KeyRow
  <1>12. ASSUME todo = {}, NEW g \in Gateways, NEW st \in Statuses, SetGatewayStatus(g, st)
         PROVE  IInv'
    BY <1>12, RegistryAssumption
       DEF SetGatewayStatus, TypeOK, OneTunnelPerDevice, LeaseOwned,
           LiveLeased, PassLeaves, KeysOfSessions, KeyFollowsSession, Live, Lease, KeyRow
  <1>13. ASSUME todo = {}, NEW g \in Gateways, NEW t \in Tenants, FailoverGateway(g, t) PROVE IInv'
    BY <1>13 DEF FailoverGateway, TypeOK, OneTunnelPerDevice, LeaseOwned, LiveLeased, PassLeaves,
                 KeysOfSessions, KeyFollowsSession, Live, LiveOn, Lease, KeyRow
  <1>14. ASSUME todo = {}, FailoverSessions PROVE IInv'
    BY <1>14 DEF FailoverSessions, TypeOK, OneTunnelPerDevice, LeaseOwned, LiveLeased, PassLeaves,
                 KeysOfSessions, KeyFollowsSession, Live, Lease, KeyRow
  <1>15. ASSUME NEW s \in todo, MigrateNext(s) PROVE IInv'
    BY <1>15, MigrateKeepsIInv
  <1>16. ASSUME NEW s \in todo, StrandNext(s) PROVE IInv'
    BY <1>16 DEF StrandNext, TypeOK, OneTunnelPerDevice, LeaseOwned, LiveLeased, PassLeaves,
                 KeysOfSessions, KeyFollowsSession, Live, Lease, KeyRow
  <1>17. ASSUME NEW s \in todo, FailoverInterrupted(s) PROVE IInv'
    <2>1. sessions[s].device \in Devices
      BY DEF TypeOK, Live, SessionRows
    <2>2. PICK g \in SelectGateway(TenantOf[sessions[s].device], excluded) :
             \E a \in AllocateAddress(g, sessions[s].device) :
                leases' = leases \cup {Lease(g, a, sessions[s].device)}
      BY <1>17 DEF FailoverInterrupted
    <2>3. g \in Gateways
      BY SelectGatewayRange
    <2> QED
      BY <1>17, <2>1, <2>2, <2>3, LeaseAloneKeepsIInv DEF FailoverInterrupted
  <1>18. ASSUME UNCHANGED vars PROVE IInv'
    BY <1>18 DEF vars, TypeOK, OneTunnelPerDevice, LeaseOwned, LiveLeased, PassLeaves,
                 KeysOfSessions, KeyFollowsSession, Live, Lease, KeyRow
  <1> QED
    BY <1>1, <1>2, <1>3, <1>4, <1>5, <1>6, <1>7, <1>8, <1>9, <1>10, <1>11, <1>12, <1>13, <1>14,
       <1>15, <1>16, <1>17, <1>18
       DEF Next, DeviceStep, SessionStep, GatewayStep, PassStep

\* IInv is an invariant of the registry.
LEMMA RegistryInvariant == Spec => []IInv
  BY InitIInv, NextIInv, PTL DEF Spec

\* The tables hold well-typed rows whatever the interleaving of handlers,
\* background jobs and crashes after a lease commit.
THEOREM RegistryTypes == Spec => []TypeOK
  BY RegistryInvariant, PTL DEF IInv

\* A device never has two live sessions (start_session closes the others).
THEOREM OneTunnel == Spec => []OneTunnelPerDevice
  BY RegistryInvariant, PTL DEF IInv

\* Two live sessions on one gateway never share a tunnel address
\* (allocate_address, release_address, migrate_session).
THEOREM ExclusiveAddresses == Spec => []AddressExclusive
  <1>1. IInv => AddressExclusive
    BY Zenon DEF IInv, AddressExclusive, OneTunnelPerDevice, LeaseOwned, LiveLeased, Lease
  <1> QED
    BY <1>1, RegistryInvariant, PTL

\* A live session's valid key material is exactly the key on its record, at
\* its present gateway and address (issue_key_material, revoke_key_material).
THEOREM KeysFollowSessions == Spec => []KeyFollowsSession
  BY RegistryInvariant, PTL DEF IInv

-----------------------------------------------------------------------------
(* The gateway reconciler. *)

\* The tables are functions, the plan a record of sets of keys.
Tables ==
    /\ changes \in Nat
    /\ listed = [k \in DOMAIN listed |-> listed[k]]
    /\ wg = [k \in DOMAIN wg |-> wg[k]]
    /\ desired = [k \in DOMAIN desired |-> desired[k]]
    /\ plan \in [remove : SUBSET Keys, add : SUBSET Keys, update : SUBSET Keys]
    /\ DOMAIN listed \subseteq Keys /\ DOMAIN wg \subseteq Keys /\ DOMAIN desired \subseteq Keys

\* No address is listed twice, now or by the last poll.
Distinct(f) == \A k, l \in DOMAIN f : f[k] = f[l] => k = l

\* A peer on the interface, or known to the last poll, is listed still or was
\* dropped; one the last poll did not know was dropped.
Accounted ==
    /\ \A k \in DOMAIN wg \cup DOMAIN desired : k \in DOMAIN listed \/ k \in dropped
    /\ DOMAIN wg \ DOMAIN desired \subseteq dropped

\* The plan is what is left to do: exactly the peers too many and too few, and
\* at least those with another address.
PlanIsRest ==
    pc = "applying" =>
        /\ plan.remove = DOMAIN wg \ DOMAIN desired
        /\ plan.add = DOMAIN desired \ DOMAIN wg
        /\ plan.update \subseteq DOMAIN desired
        /\ \A k \in DOMAIN desired \cap DOMAIN wg : wg[k] # {desired[k]} => k \in plan.update

ReconcilerInv ==
    /\ Tables /\ Distinct(listed) /\ Distinct(desired) /\ Accounted /\ PlanIsRest
    /\ ConvergedWhenReported

\* The empty interface of a fresh host.
LEMMA InitReconcilerInv == ReconcilerInit => ReconcilerInv
  BY DEF ReconcilerInit, ReconcilerInv, Tables, Distinct, Accounted, PlanIsRest,
         ConvergedWhenReported, Empty, NoPlan

\* When nothing is left of the plan the interface is what was polled.
LEMMA NothingLeft ==
    ASSUME Tables, PlanIsRest, pc = "applying", plan = NoPlan
    PROVE  wg = [k \in DOMAIN desired |-> {desired[k]}]
  <1>1. DOMAIN wg = DOMAIN desired
    BY DEF PlanIsRest, NoPlan
  <1>2. \A k \in DOMAIN desired : wg[k] = {desired[k]}
    BY <1>1 DEF PlanIsRest, NoPlan
  <1> QED
    BY <1>1, <1>2 DEF Tables

\* A plan made from what was observed is exact.
LEMMA ObserveKeepsReconcilerInv ==
    ASSUME ReconcilerInv, Observe
    PROVE  ReconcilerInv'
  <1> USE DEF ReconcilerInv
  <1>1. Tables' /\ Distinct(listed)' /\ Distinct(desired)' /\ Accounted'
    BY DEF Observe, BuildPlan, Tables, Distinct, Accounted
  <1>2. PlanIsRest'
    BY DEF Observe, BuildPlan, PlanIsRest, Tables
  <1>3. ConvergedWhenReported'
    <2> SUFFICES ASSUME BuildPlan = NoPlan
                 PROVE  wg = [k \in DOMAIN desired |-> {desired[k]}]
      BY DEF Observe, ConvergedWhenReported
    <2>1. DOMAIN wg = DOMAIN desired
      BY DEF BuildPlan, NoPlan
    <2>2. \A k \in DOMAIN desired : wg[k] = {desired[k]}
      BY <2>1 DEF BuildPlan, NoPlan
    <2> QED
      BY <2>1, <2>2 DEF Tables
  <1> QED
    BY <1>1, <1>2, <1>3

\* A peer taken off was too many, and leaves the others as they are.
LEMMA RemoveKeepsReconcilerInv ==
    ASSUME ReconcilerInv, NEW k \in Keys, RemovePeer(k)
    PROVE  ReconcilerInv'
  <1> USE DEF ReconcilerInv
  <1>1. /\ DOMAIN wg' = DOMAIN wg \ {k}
        /\ \A l \in DOMAIN wg' : wg'[l] = wg[l]
        /\ wg' = [l \in DOMAIN wg' |-> wg'[l]]
    BY DEF RemovePeer, WgRemove, Restrict
  <1>2. /\ plan' = [plan EXCEPT !.remove = @ \ {k}]
        /\ plan'.remove = plan.remove \ {k} /\ plan'.add = plan.add /\ plan'.update = plan.update
        /\ plan' \in [remove : SUBSET Keys, add : SUBSET Keys, update : SUBSET Keys]
    BY DEF RemovePeer, Rest, Tables
  <1>3. Tables' /\ Distinct(listed)' /\ Distinct(desired)'
    BY <1>1, <1>2 DEF RemovePeer, Tables, Distinct
  <1>4. Accounted'
    BY <1>1 DEF RemovePeer, Accounted
  <1>5. k \notin DOMAIN desired
    BY DEF RemovePeer, PlanIsRest
  <1>6. /\ plan'.remove = DOMAIN wg' \ DOMAIN desired'
        /\ plan'.add = DOMAIN desired' \ DOMAIN wg'
        /\ plan'.update \subseteq DOMAIN desired'
        /\ \A l \in DOMAIN desired' \cap DOMAIN wg' : wg'[l] # {desired'[l]} => l \in plan'.update
    BY <1>1, <1>2, <1>5 DEF RemovePeer, PlanIsRest
  <1>7. plan' = NoPlan => wg' = [l \in DOMAIN desired' |-> {desired'[l]}]
    <2> SUFFICES ASSUME plan' = NoPlan
                 PROVE  wg' = [l \in DOMAIN desired' |-> {desired'[l]}]
      OBVIOUS
    <2>1. DOMAIN wg' = DOMAIN desired'
      BY <1>6 DEF NoPlan
    <2>2. \A l \in DOMAIN desired' : wg'[l] = {desired'[l]}
      BY <1>6, <2>1 DEF NoPlan
    <2> QED
      BY <1>1, <2>1, <2>2
  <1>8. PlanIsRest' /\ ConvergedWhenReported'
    BY <1>6, <1>7 DEF PlanIsRest, ConvergedWhenReported, RemovePeer, Rest
  <1> QED
    BY <1>3, <1>4, <1>8

\* A peer set has its address, and takes no other peer's: the list has each
\* address once.
LEMMA ApplyKeepsReconcilerInv ==
    ASSUME ReconcilerInv, NEW k \in Keys, ApplyPeer(k)
    PROVE  ReconcilerInv'
  <1> USE DEF ReconcilerInv
  <1>1. /\ DOMAIN wg' = DOMAIN wg \cup {k}
        /\ wg'[k] = {desired[k]}
        /\ \A l \in DOMAIN wg \ {k} : wg'[l] = wg[l] \ {desired[k]}
        /\ wg' = [l \in DOMAIN wg' |-> wg'[l]]
    BY DEF ApplyPeer, WgSet
  <1>2. /\ plan'.remove = plan.remove /\ plan'.add = plan.add \ {k}
        /\ plan'.update = plan.update \ {k}
        /\ plan' \in [remove : SUBSET Keys, add : SUBSET Keys, update : SUBSET Keys]
    BY Zenon DEF ApplyPeer, Rest, Tables
  <1>3. k \in DOMAIN desired /\ plan.remove = {}
    BY DEF ApplyPeer, MayApply, PlanIsRest
  <1>4. Tables' /\ Distinct(listed)' /\ Distinct(desired)'
    <2>1. UNCHANGED <<listed, desired, changes>>
      BY DEF ApplyPeer
    <2>2. DOMAIN wg' \subseteq Keys
      BY <1>1 DEF Tables
    <2> QED
      BY <1>1, <1>2, <2>1, <2>2 DEF Tables, Distinct
  <1>5. Accounted'
    BY <1>1, <1>3 DEF ApplyPeer, Accounted
  <1>6. /\ plan'.remove = DOMAIN wg' \ DOMAIN desired'
        /\ plan'.add = DOMAIN desired' \ DOMAIN wg'
        /\ plan'.update \subseteq DOMAIN desired'
    BY <1>1, <1>2, <1>3 DEF ApplyPeer, PlanIsRest
  <1>7. \A l \in DOMAIN desired' \cap DOMAIN wg' : wg'[l] # {desired'[l]} => l \in plan'.update
    <2> SUFFICES ASSUME NEW l \in DOMAIN desired \cap DOMAIN wg', wg'[l] # {desired[l]}
                 PROVE  l \in plan.update \ {k}
      BY <1>2 DEF ApplyPeer
    <2>1. l # k /\ l \in DOMAIN wg
      BY <1>1
    <2>2. desired[l] # desired[k]
      BY <1>3, <2>1 DEF Distinct
    <2>3. wg[l] # {desired[l]}
      BY <1>1, <2>1, <2>2
    <2> QED
      BY <2>1, <2>3 DEF ApplyPeer, PlanIsRest
  <1>8. plan' = NoPlan => wg' = [l \in DOMAIN desired' |-> {desired'[l]}]
    <2> SUFFICES ASSUME plan' = NoPlan
                 PROVE  wg' = [l \in DOMAIN desired' |-> {desired'[l]}]
      OBVIOUS
    <2>1. DOMAIN wg' = DOMAIN desired'
      BY <1>6 DEF NoPlan
    <2>2. \A l \in DOMAIN desired' : wg'[l] = {desired'[l]}
      BY <1>7, <2>1 DEF NoPlan
    <2> QED
      BY <1>1, <2>1, <2>2
  <1>9. PlanIsRest' /\ ConvergedWhenReported'
    BY <1>6, <1>7, <1>8 DEF PlanIsRest, ConvergedWhenReported, ApplyPeer, Rest
  <1> QED
    BY <1>4, <1>5, <1>9

\* Changes of the list keep its addresses apart, and remember what is dropped.
LEMMA ListingKeepsReconcilerInv ==
    ASSUME ReconcilerInv, NEW k \in Keys,
           \/ DropPeer(k)
           \/ \E a \in PeerAddresses : ListPeer(k, a)
           \/ \E l \in Keys : RekeyPeer(k, l)
    PROVE  ReconcilerInv'
  <1> USE DEF ReconcilerInv
  <1>1. CASE DropPeer(k)
    <2>1. /\ DOMAIN listed' = DOMAIN listed \ {k}
          /\ listed' = [m \in DOMAIN listed' |-> listed'[m]]
          /\ \A m \in DOMAIN listed' : listed'[m] = listed[m]
      BY <1>1 DEF DropPeer, Restrict
    <2>2. UNCHANGED <<wg, pc, desired, plan>> /\ dropped' = dropped \cup {k}
      BY <1>1 DEF DropPeer
    <2>3. changes' \in Nat
      BY <1>1 DEF DropPeer, Change, Tables
    <2>4. Tables' /\ Distinct(listed)' /\ Distinct(desired)'
      BY <2>1, <2>2, <2>3 DEF Tables, Distinct
    <2> QED
      BY <2>1, <2>2, <2>4 DEF Accounted, PlanIsRest, ConvergedWhenReported
  <1>2. ASSUME NEW a \in PeerAddresses, ListPeer(k, a) PROVE ReconcilerInv'
    <2>1. /\ DOMAIN listed' = DOMAIN listed \cup {k} /\ listed'[k] = a
          /\ listed' = [m \in DOMAIN listed' |-> listed'[m]]
          /\ \A m \in DOMAIN listed : listed[m] # a
          /\ \A m \in DOMAIN listed \ {k} : listed'[m] = listed[m]
      BY <1>2 DEF ListPeer
    <2> QED
      BY <1>2, <2>1 DEF ListPeer, Change, Tables, Distinct, Accounted, PlanIsRest, ConvergedWhenReported
  <1>3. ASSUME NEW l \in Keys, RekeyPeer(k, l) PROVE ReconcilerInv'
    <2>1. /\ DOMAIN listed' = (DOMAIN listed \ {k}) \cup {l} /\ listed'[l] = listed[k]
          /\ k \in DOMAIN listed /\ l \notin DOMAIN listed
          /\ listed' = [m \in DOMAIN listed' |-> listed'[m]]
          /\ \A m \in DOMAIN listed \ {k} : listed'[m] = listed[m]
      BY <1>3 DEF RekeyPeer
    <2> QED
      BY <1>3, <2>1 DEF RekeyPeer, Change, Tables, Distinct, Accounted, PlanIsRest, ConvergedWhenReported
  <1> QED
    BY <1>1, <1>2, <1>3

\* Every step of the reconciler, the control plane and the host.
LEMMA NextReconcilerInv == ReconcilerInv /\ [ReconcilerNext]_reconcilerVars => ReconcilerInv'
  <1> SUFFICES ASSUME ReconcilerInv, [ReconcilerNext]_reconcilerVars PROVE ReconcilerInv'
    OBVIOUS
  <1> USE DEF ReconcilerInv
  <1>1. CASE FetchDesired
    BY <1>1 DEF FetchDesired, Polled, Tables, Distinct, Accounted, PlanIsRest, ConvergedWhenReported
  <1>2. CASE Observe
    BY <1>2, ObserveKeepsReconcilerInv
  <1>3. CASE Apply
    BY <1>3, RemoveKeepsReconcilerInv, ApplyKeepsReconcilerInv DEF Apply
  <1>4. CASE ReportHeartbeat
    BY <1>4 DEF ReportHeartbeat, Tables, Distinct, Accounted, PlanIsRest, ConvergedWhenReported
  <1>5. CASE ReconcileFails
    BY <1>5 DEF ReconcileFails, NoPlan, Tables, Distinct, Accounted, PlanIsRest, ConvergedWhenReported
  <1>6. CASE Reboot
    BY <1>6 DEF Reboot, Change, NoPlan, Empty, Tables, Distinct, Accounted, PlanIsRest, ConvergedWhenReported
  <1>7. CASE \E k \in Keys : DropPeer(k) \/ (\E a \in PeerAddresses : ListPeer(k, a))
    BY <1>7, ListingKeepsReconcilerInv
  <1>8. CASE \E k, l \in Keys : RekeyPeer(k, l)
    BY <1>8, ListingKeepsReconcilerInv
  <1>9. CASE UNCHANGED reconcilerVars
    BY <1>9 DEF reconcilerVars, Tables, Distinct, Accounted, PlanIsRest, ConvergedWhenReported
  <1> QED
    BY <1>1, <1>2, <1>3, <1>4, <1>5, <1>6, <1>7, <1>8, <1>9 DEF ReconcilerNext, Round

\* The invariant in every state.
LEMMA ReconcilerInvariant == ReconcilerSpec => []ReconcilerInv
  BY InitReconcilerInv, NextReconcilerInv, PTL DEF ReconcilerSpec

\* The heartbeat of a round is only sent over an interface that is exactly the
\* list the round polled, with any number of peers and whatever addresses they
\* exchange (reconcile_once).
THEOREM ReportsConverged == ReconcilerSpec => []ConvergedWhenReported
  BY ReconcilerInvariant, PTL DEF ReconcilerInv

\* A round takes off only peers the control plane dropped since they were set
\* up: no failed poll, stale plan or restart revokes a listed peer.
THEOREM NeverRevokesListed == ReconcilerSpec => RemovesOnlyDropped
  <1> DEFINE Step == changes' = changes => DOMAIN wg \ DOMAIN wg' \subseteq dropped
  <1>1. ReconcilerInv /\ [ReconcilerNext]_reconcilerVars => [Step]_reconcilerVars
    <2> SUFFICES ASSUME ReconcilerInv, ReconcilerNext PROVE Step
      OBVIOUS
    <2>1. CASE \E k \in Keys : RemovePeer(k)
      BY <2>1 DEF RemovePeer, WgRemove, Restrict, ReconcilerInv, Accounted, PlanIsRest
    <2>2. CASE \E k \in Keys : ApplyPeer(k)
      BY <2>2 DEF ApplyPeer, WgSet
    <2>3. CASE FetchDesired \/ Observe \/ ReportHeartbeat \/ ReconcileFails
      BY <2>3 DEF FetchDesired, Observe, ReportHeartbeat, ReconcileFails
    <2>4. CASE \/ Reboot \/ \E k \in Keys : DropPeer(k) \/ \E a \in PeerAddresses : ListPeer(k, a)
               \/ \E k, l \in Keys : RekeyPeer(k, l)
      <3>1. Change
        BY <2>4, Zenon DEF Reboot, DropPeer, ListPeer, RekeyPeer
      <3>2. changes' # changes
        BY <3>1 DEF Change, ReconcilerInv, Tables
      <3> QED
        BY <3>2
    <2> QED
      BY <2>1, <2>2, <2>3, <2>4 DEF ReconcilerNext, Round, Apply
  <1> QED
    BY <1>1, ReconcilerInvariant, PTL DEF ReconcilerSpec, RemovesOnlyDropped

\* While a peer the poll did not list is on the interface, no peer is given an
\* address (apply_plan removes first).
THEOREM RevokesBeforeItServes == ReconcilerSpec => RevokedFirst
  <1> DEFINE Step == (\E k \in DOMAIN wg' : k \notin DOMAIN wg \/ ~ wg'[k] \subseteq wg[k])
                        => DOMAIN wg \subseteq DOMAIN desired
  <1>1. ReconcilerInv /\ [ReconcilerNext]_reconcilerVars => [Step]_reconcilerVars
    <2> SUFFICES ASSUME ReconcilerInv, ReconcilerNext PROVE Step
      OBVIOUS
    <2>1. CASE \E k \in Keys : RemovePeer(k)
      BY <2>1 DEF RemovePeer, WgRemove, Restrict
    <2>2. CASE \E k \in Keys : ApplyPeer(k)
      BY <2>2 DEF ApplyPeer, MayApply, ReconcilerInv, PlanIsRest
    <2>3. CASE Reboot
      BY <2>3 DEF Reboot, Empty
    <2>4. CASE \/ FetchDesired \/ Observe \/ ReportHeartbeat \/ ReconcileFails
               \/ \E k \in Keys : DropPeer(k) \/ \E a \in PeerAddresses : ListPeer(k, a)
               \/ \E k, l \in Keys : RekeyPeer(k, l)
      BY <2>4, Zenon DEF FetchDesired, Observe, ReportHeartbeat, ReconcileFails, DropPeer, ListPeer, RekeyPeer
    <2> QED
      BY <2>1, <2>2, <2>3, <2>4 DEF ReconcilerNext, Round, Apply
  <1> QED
    BY <1>1, ReconcilerInvariant, PTL DEF ReconcilerSpec, RevokedFirst
=============================================================================
