\* A database without tables, lost once while the server starts.
CONSTANTS
    r1 = r1  r2 = r2  c1 = c1  Probe = Probe  Nobody = Nobody
    Requests = {r1, r2}
    Clis = {}
SPECIFICATION FairSpec
PROPERTY ProbeRetries
