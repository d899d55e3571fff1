SPECIFICATION Spec
CONSTANTS
  Procs = {p1, p2}
  NoProc = NoProc
  Drafts = {d1}
  NoDraft = NoDraft
  Tasks = {t1}
  NoTask = NoTask
  Emails = {e1}
  NoEmail = NoEmail
  Senders = {s1}
  TrustedSender = s1
  Commands = {"generate", "approve", "reject"}
  Faults = {}
PROPERTIES ReviewIsFinal
