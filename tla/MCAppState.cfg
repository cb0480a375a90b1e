\* The administrator's requests, one at a time, and a migrate process beside the probe.
CONSTANTS
    r1 = r1  r2 = r2  c1 = c1  Probe = Probe  Nobody = Nobody
    Requests = {r1}
    Clis = {c1}
SPECIFICATION FairSpec
INVARIANTS ReadyIsCurrent AdoptedOnce
PROPERTIES MigrationSettles Recovers
