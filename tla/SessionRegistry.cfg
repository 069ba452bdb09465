SPECIFICATION Spec
CONSTANTS
    d1 = d1
    d2 = d2
    g1 = g1
    g2 = g2
    acme = acme
    globex = globex
    Devices = {d1, d2}
    Gateways = {g1, g2}
    SessionIds = {s1, s2}
    Addresses = {2, 3}
    Capacity <- TwoAndOne
    Tenants = {acme, globex}
    TenantOf <- TwoTenants
    Dedicated <- NoneDedicated
    Regional = {g2}
    Statuses = {"draining"}
    OperatorStates = {"elevated", "quarantined"}
    Risks = {"restrict_to_safe_cidrs"}
    MaxRekeys = 1
SYMMETRY Symmetric
INVARIANTS
    OneTunnelPerDevice
    AddressExclusive
    KeyFollowsSession
CHECK_DEADLOCK FALSE
