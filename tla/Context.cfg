SPECIFICATION Spec
CONSTANTS
  Procs = {p1, p2}
  NoProc = NoProc
  Drafts = {d1}
  NoDraft = NoDraft
  Tasks = {t1}
  NoTask = NoTask
  Emails = {e1, e2}
  NoEmail = NoEmail
  Senders = {s1}
  TrustedSender = s1
  Commands = {"generate", "approve", "reject", "send", "rebind", "enrich", "task"}
  Faults = {"crash", "database"}
SYMMETRY ProcSymmetry
INVARIANTS IInv SentOnlyAfterApproval RecipientCanonical
PROPERTIES ClaimedRecipientFrozen
