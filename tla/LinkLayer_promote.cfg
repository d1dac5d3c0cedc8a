CONSTANTS
    p1 = p1
    p2 = p2
    a1 = a1
    a2 = a2
    a3 = a3
    Peer = {p1, p2}
    Addr = {a1, a2, a3}
    Session = {s1, s2}
    AddrOf <- MCAddrOf
    MaxSessionsPerKey = 2
    MaxSessionsPerEndpoint = 2
    PermitInbound = FALSE
    None = None
SPECIFICATION Spec
INVARIANT AuthedSessionsAuthenticated
