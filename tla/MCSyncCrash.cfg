\* A crash at any point: the job settles and the user is asked.
CONSTANTS
    g1 = g1  g2 = g2  p1 = p1  p2 = p2
    NoGame = NoGame
    Games = {g1, g2}
    Procs = {p1, p2}
    NJobs = 1
    Parent <- Unrelated
    WasSkipped = {}
    BatchSize = 2
    Attempts = 3
    MaxCrashes = 1
    MaxFaults = 0
    MaxLost = 0
    MaxCancels = 0
SPECIFICATION FairSpec
PROPERTIES JobSettles ReviewAsked
\* The bounds end the run: with every job triggered and settled nothing is left.
CHECK_DEADLOCK FALSE
