CONSTANTS
    Parts = {"dashboard", "saving", "opening", "paging", "tasks", "timeline", "lanes", "metrics",
             "utilization", "idle ranking", "execution", "cleanup panel",
             "continuation panel", "terminal", "cleanup", "renamed"}
    None = None
    Commands = {c1, c2}  c1 = c1  LossyCallers = {}
    OtherClients = TRUE  MaxSaves = 1
    Grid = {1, 2, 3}  Grids = {{1, 2, 3}, {1, 2}, {2}}  Searches = {{1, 2, 3}, {1, 3}}
    Layouts = {1, 2}  Intervals = {1, 2}
    Drafts = {a, b}  Filters = {"running", "all"}
    Bars = {j1, j2}  ha = ha  hb = hb  lo = lo  p = p  q = q  m1 = m1  m2 = m2  m3 = m3
    job = job  range = range  everything = everything  group = group  invalid = invalid
    Batches = {a, b}
    Audits = {a, b}  ReadIDs = {s, t}  MaxChecks = 1  MaxSwitches = 1
    Targets = {a, b}  MaxOld = 2  MaxSessions = 1  ChunkSizes = {1}
    MaxBuffered = 2  MaxTyped = 1
    Procs = {a, b}  Minimum = 1
SPECIFICATION Spec
INVARIANTS
    TypeOK ShownIsChosen ViewsExist EffectsAreOnce DoubtIsKept ControlsComeBack
    InputReachesSelected AcksMatch OnlyRequest HeldMachinesSpared BoardIsTrue
PROPERTIES
    Implements  DwellIsWhole HeldAfterQuiet NothingGoesBack
