\* Everything that goes wrong at once: a crash, a timeout, a refused insert, a cancellation.
CONSTANTS
    g1 = g1  g2 = g2  p1 = p1  p2 = p2
    NoGame = NoGame
    Games = {g1, g2}
    Procs = {p1, p2}
    NJobs = 1
    Parent <- Unrelated
    WasSkipped = {g2}
    BatchSize = 1
    Attempts = 3
    MaxCrashes = 1
    MaxFaults = 1
    MaxLost = 1
    MaxCancels = 1
SPECIFICATION Spec
SYMMETRY Symmetric
INVARIANTS GateHolds AnnouncedOnce
\* The bounds end the run: with every job triggered and settled nothing is left.
CHECK_DEADLOCK FALSE
