SPECIFICATION Spec
CONSTANTS
    v4 = v4
    mapped = mapped
    other = other
    loopback = loopback
    Addr = {v4, mapped, other, loopback}
    Host = {v4, other, loopback}
    Canonical <- MCCanonical
    Allowlisted = {loopback}
    Never = Never
    MaxPerWindow = 2
    FloodWindow = 2
    BanDuration = 3
    SweepInterval = 2
    MaxTime = 6
INVARIANTS
    GuardTypeOK
    SweepForgetsExpired
PROPERTY ImplementsPolicy
