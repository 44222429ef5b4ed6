CONSTANTS
  Editions = {"nt", "98", "linux"}
  Request = {url1, url2, plain, refused}
  NoRequest = NoRequest
  Refused = {refused}
  Url = {url1, url2}
  Warn = TRUE
  LastMinute = 2
SPECIFICATION Spec
INVARIANTS
  UrlsAskedFirst
  RefusedNeverRuns
PROPERTY RunsWhatWasSentOnWindows
\* Every request has been sent, and the clock is at its bound.
CHECK_DEADLOCK FALSE
