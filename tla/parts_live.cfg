CONSTANTS
    Parts = {"dashboard", "opening", "paging", "tasks", "metrics", "continuation panel", "terminal",
             "cleanup"}
    None = None
    Commands = {c1}  c1 = c1  LossyCallers = {"poll", "startup"}
    OtherClients = FALSE  MaxSaves = 1
    Grid = {1, 2, 3}  Grids = {{1, 2, 3}, {1, 2}, {2}}  Searches = {{1, 2, 3}, {1, 3}}
    Layouts = {1, 2}  Intervals = {1, 2}
    Drafts = {a}  Filters = {"running"}
    Bars = {j1, j2}  ha = ha  hb = hb  lo = lo  p = p  q = q  m1 = m1  m2 = m2  m3 = m3
    job = job  range = range  everything = everything  group = group  invalid = invalid
    Batches = {a, b}
    Audits = {a, b}  ReadIDs = {s, t}  MaxChecks = 1  MaxSwitches = 1
    Targets = {a}  MaxOld = 1  MaxSessions = 1  ChunkSizes = {1}
    MaxBuffered = 2  MaxTyped = 1
    Procs = {a}  Minimum = 1
SPECIFICATION FairSpec
PROPERTIES PagesCatchUp EveryMachineComesRound SlotsComeBack EndIsVerified
