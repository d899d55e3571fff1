SPECIFICATION BulkSpec
CONSTANTS
  a1 = a1
  a2 = a2
  b = b
  k1 = k1
  k2 = k2
  x1 = x1
  x2 = x2
  h = h
  nm = nm
  e = e
  l1 = l1
  l2 = l2
  p = p
  q = q
  Procs = {p, q}
  NoProc = NoProc
  Limit = 2
  Candidates = {a1, a2, b}
  Companies = {k1, k2}
  NoCompany = NoCompany
  CompanyOf <- Shared
  Contacts = {x1, x2}
  NoContact = NoContact
  EmployerOf <- AllAtFirst
  WithEmail = {x1}
  Disturbances = {"crash", "review", "generate"}
  Hosts = {h}
  NoHost = NoHost
  BadHost = BadHost
  Names = {nm}
  NoName = NoName
  Malformed = Malformed
  Files <- AllFiles
  Texts <- Templates
  Found <- Hits
  MaxQueries = 2
  PerQuery = 2
  Ceiling = 3
  MaxCompanies = 2
  Tasks = {1, 2, 3}
  TaskCompany <- OfTasks
  Emails = {e}
  NoEmail = NoEmail
  FirstAddress <- Addresses
  Options = {"x"}
  RunLimits = {1, 2}
  Drafts = {1, 2, 3}
  First = {1, 2}
  DueRank <- Due
  TaskOf <- OneTaskEach
  LeadOf <- Leads
  Batches <- Asked
  NoFile = NoFile
  MaxChanges = 2
SYMMETRY ProcSymmetry
INVARIANTS BulkTypeOK AttemptsAccounted CompletedStored DuplicatesOverlap SentIsTimed
PROPERTIES OnlyNewCounted ReportTrue DraftsReported BatchAnswerTrue NeverReplaced
CHECK_DEADLOCK FALSE
