CONSTANTS
    m1 = m1  m2 = m2  m3 = m3  t1 = t1  t2 = t2  c1 = c1  c2 = c2
    p1 = p1  p2 = p2  h1 = h1  h2 = h2  local = local
    Machines = {m1}
    ResourceIDs = {p1, p2}
    Hosts = {h1, h2, local}
    LoopbackHosts = {local}
    Localhost = local
    None = None
    Tasks = {t1}
    ReservationIDs = {}
    ContinuationIDs = {c1}
    Senders = {s1}
    InitialConfig <- OneHost
    Edits <- NoEdits
    Plan <- OnePlanned
    PriorTasks <- NothingBefore
    Faults = {}
    MaxGeneration = 1
    MaxProbes = 1
    NoJob = NoJob  NoDir = NoDir  EmptyDir = EmptyDir  NoReservation = NoReservation
    Unregistered = Unregistered  NoWake = NoWake  Removed = Removed  NoRequest = NoRequest
SPECIFICATION FairSpec
PROPERTIES OffersEnd FinishedTasksAreReviewed DispatchEnds SendingEnds

