\* A sync row whose dispatch was never enqueued.
CONSTANTS
    j1 = j1  j2 = j2
    s1 = s1  m1 = m1  i1 = i1  h1 = h1  h2 = h2  c1 = c1  c2 = c2
    NoClient = NoClient
    NoJob = NoJob
    Jobs = {j1}
    Keys = {s1}
    Locks = {h1}
    Clients = {c1}
    ClassOf <- ClassSync
    LockOf <- LockSync
SPECIFICATION FairSpec
PROPERTY SyncKeyFreed
