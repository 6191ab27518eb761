SPECIFICATION FairSpec
CONSTANTS
    Daemons = {d1, d2}
    Clients = {c1}
    None = None
INVARIANTS TypeOK AloneIsReachable ControlOutlivesRuntime
PROPERTY StopReleases
