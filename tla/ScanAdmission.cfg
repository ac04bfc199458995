SPECIFICATION Spec
CONSTANTS
    None = None
    u1 = u1
    u2 = u2
    u3 = u3
    a = a
    b = b
    k1 = k1
    k2 = k2
    k3 = k3
    Uploads = {u1, u2, u3}
    Credentials = {a, b}
    Checksums = {k1, k2, k3}
    MaxPending = 2
    MaxConcurrent = 1
    RateLimit = 2
SYMMETRY Symmetric
INVARIANTS
    CapacityHeld
    ChainServed
