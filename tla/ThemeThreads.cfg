CONSTANTS
  Thread = {t1, t2, t3}
  NoThread = NoThread
  Dialogs = {TRUE, FALSE}
  Retries = 1
SPECIFICATION FairSpec
INVARIANTS
  TypeOK
  OneAtATime
  ClicksNoBusyDialog
  LeftoversComeFromErrors
PROPERTY ThemeThreadsFinish
\* The process ends.
CHECK_DEADLOCK FALSE
