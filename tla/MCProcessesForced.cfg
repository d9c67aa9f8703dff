SPECIFICATION MCSpec
CONSTANTS
    Handler = {h1}
    Token = {t1}
    Plain = plain
    Bad = bad
    k1 = k1
    k2 = k2
    k3 = k3
    None = None
    Ring <- MCRing
    FirstRing <- Current
    MaxEdits = 0
    MaxRuns = 2
INVARIANT SpentOnce
\* After its last run the process stays down.
CHECK_DEADLOCK FALSE
