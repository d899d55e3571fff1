SPECIFICATION Spec
CONSTANTS
  p1 = p1
  p2 = p2
  c1 = c1
  c2 = c2
  h1 = h1
  Procs = {p1, p2}
  NoProc = NoProc
  Candidates = {c1, c2}
  NoCandidate = NoCandidate
  Companies = {1}
  NoCompany = NoCompany
  Runs = {1, 2}
  NoRun = NoRun
  Hosts = {h1}
  NoHost = NoHost
  HostOf <- OneWithoutHost
  Fields = {"name", "country"}
  Commands = {"plan", "recover", "review", "apply"}
  Faults = {"crash"}
SYMMETRY ProcSymmetry
INVARIANTS IInv AppliedAsPlanned
