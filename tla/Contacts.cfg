SPECIFICATION Spec
CONSTANTS
  p1 = p1
  p2 = p2
  c1 = c1
  c2 = c2
  e1 = e1
  Procs = {p1, p2}
  NoProc = NoProc
  Candidates = {c1, c2}
  NoCandidate = NoCandidate
  Contacts = {1, 2}
  NoContact = NoContact
  Leads = {1, 2}
  NoLead = NoLead
  Tasks = {1, 2, 3}
  NoTask = NoTask
  Emails = {e1}
  NoEmail = NoEmail
  EmailOf <- OneAddress
  Fields = {"name"}
  LastCheck = 2
  Mixes <- AllMixes
  Faults = {"crash", "database"}
SYMMETRY ProcSymmetry
VIEW Unanswered
INVARIANTS IInv AppliedAsPlanned OutreachBounded
PROPERTIES AnswersHonest ImplementsLedger
