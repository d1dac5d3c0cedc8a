CONSTANTS
    p1 = p1
    p2 = p2
    a1 = a1
    a2 = a2
    a3 = a3
    Peer = {p1, p2}
    Addr = {a1, a2, a3}
    Session = {s1, s2, s3}
    AddrOf <- MCAddrOf
    MaxSessionsPerKey = 3
    MaxSessionsPerEndpoint = 2
    PermitInbound = TRUE
    None = None
SPECIFICATION Spec
INVARIANT TypeOK
INVARIANT PendingPerEndpointCap
INVARIANT LiveSessionsTracked
