SPECIFICATION Spec
CONSTANT OverlongReplies = TRUE
INVARIANTS ReportPromised
CHECK_DEADLOCK FALSE
