\* Admission with a key of each class, two of them sharing a lock number.
CONSTANTS
    j1 = j1  j2 = j2
    s1 = s1  m1 = m1  i1 = i1  h1 = h1  h2 = h2  c1 = c1  c2 = c2
    NoClient = NoClient
    NoJob = NoJob
    Jobs = {j1, j2}
    Keys = {s1, m1, i1}
    Locks = {h1, h2}
    Clients = {c1, c2}
    ClassOf <- Class
    LockOf <- Lock
SPECIFICATION FairSpec
INVARIANT AtMostOneGuarded
PROPERTY MaintenanceKeyFreed
