SPECIFICATION FairSpec
CONSTANTS
  Callers = {c1}
  Threads = {t1}
  ActionOnHwErr = "RECOVER"
  NoSleepMayFail = FALSE
  MaxRestarts = 1
  MaxHwErrs = 1
INVARIANTS StartOrder OneRestart LinkAgrees DetachAssert RestartInProgress NoReportForgotten
PROPERTIES IoctlCoversReset WaitersReturn
