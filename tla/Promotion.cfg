SPECIFICATION Spec
CONSTANTS
  p1 = p1
  p2 = p2
  c1 = c1
  c2 = c2
  h1 = h1
  Procs = {p1, p2}
  NoProc = NoProc
  Candidates = {c1, c2}
  NoCandidate = NoCandidate
  Companies = {1, 2}
  NoCompany = NoCompany
  Runs = {1}
  NoRun = NoRun
  Hosts = {h1}
  NoHost = NoHost
  HostOf <- OneHost
  Fields = {"name"}
  Commands = {"stage", "review", "promote", "apply", "create", "delete"}
  Faults = {"database"}
SYMMETRY ProcSymmetry
PROPERTIES PromotionHonest ImplementsLedger
