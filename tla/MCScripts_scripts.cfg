SPECIFICATION Spec
CONSTANTS
    Scripts = {s1}
    Evals = {e1}
    Editors = {a}
    Workers = {w1, w2}
    Schedules <- EveryAndOdd
    Minute = 2
    Interval = 2
    Ttl = 1
    SweepEvery = 1
    MaxTime = 5
    MaxJobs = 2
    MaxResults = 1
    MaxEdits = 2
PROPERTIES JobsAreTaken
INVARIANTS
    OncePerMinute
    BodyGoesWithSchedule
    ResultsLast
CHECK_DEADLOCK FALSE
