CONSTANTS
  Editions = {"linux"}
  Request = {url1, plain, refused}
  NoRequest = NoRequest
  Refused = {refused}
  Url = {url1}
  Warn = TRUE
  LastMinute = 2
SPECIFICATION Spec
PROPERTY RunsWhatWasSent
\* Every request has been sent, and the clock is at its bound.
CHECK_DEADLOCK FALSE
