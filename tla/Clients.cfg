SPECIFICATION ClientSpec
CONSTANTS
  h = h
  w = w
  o = o
  Hosts = {h, w, o}
  NoHost = NoHost
  SiteOf <- Sites
  MaxRedirects = 2
  MaxAddresses = 2
  OverlongReplies = FALSE
INVARIANTS ClientTypeOK ReportPromised OnlyOverTls OneAnswer OneSite ResultAccepted
PROPERTIES ClientsEnd
CHECK_DEADLOCK FALSE
