\* A library of one batch, no crashes: interleavings, refused inserts, failed writes.
CONSTANTS
    g1 = g1  g2 = g2  p1 = p1  p2 = p2
    NoGame = NoGame
    Games = {g1, g2}
    Procs = {p1, p2}
    NJobs = 1
    Parent <- Siblings12
    WasSkipped = {}
    BatchSize = 2
    Attempts = 3
    MaxCrashes = 0
    MaxFaults = 1
    MaxLost = 0
    MaxCancels = 0
SPECIFICATION Spec
SYMMETRY Symmetric
INVARIANT Lockstep
PROPERTY ImplementsLifecycle
\* The bounds end the run: with every job triggered and settled nothing is left.
CHECK_DEADLOCK FALSE
