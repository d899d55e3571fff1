SPECIFICATION Spec
CONSTANTS
  Procs = {p1, p2}
  NoProc = NoProc
  Drafts = {d1, d2}
  NoDraft = NoDraft
  Tasks = {t1}
  NoTask = NoTask
  Emails = {e1}
  NoEmail = NoEmail
  Senders = {s1}
  TrustedSender = s1
  Commands = {"generate", "approve", "send", "rebind", "mark_sent", "record_external", "record_batch"}
  Faults = {"crash", "database"}
SYMMETRY ProcDraftSymmetry
INVARIANTS AtMostOneMessage ChannelExclusive OutcomeHonest NoLockAcrossNetwork AnswerHonest OneDraftPerRequest
PROPERTIES BatchAllOrNothing ImplementsLedger
