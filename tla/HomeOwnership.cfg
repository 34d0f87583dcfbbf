SPECIFICATION Spec
CONSTANTS
  j1 = j1
  j2 = j2
  s1 = s1
  s2 = s2
  s3 = s3
  Worker = worker
  NoJournal = NoJournal
  NoSupervisor = NoSupervisor
  NoThread = NoThread
  Journals = {j1, j2}
  Supervisors = {s1, s2, s3}
  Threads = {worker, user}
  Home <- Succession
SYMMETRY Symmetry
CONSTRAINT OneFault
CHECK_DEADLOCK FALSE
INVARIANTS ClosedTransportIsIdle  
PROPERTIES OnlyOwnerRecords 
