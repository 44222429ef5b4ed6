--------------------------- MODULE TerminalFiles ---------------------------
(***************************************************************************)
(* /terminal: CmdUtil::executeTerminalCommand writes the command to a      *)
(* batch file that is named after the minute, asks about URLs through a    *)
(* second file, WARNING.BAT, and opens a console on one of the two.  The   *)
(* consoles read the files later, at their own pace, while the server has  *)
(* gone on to other requests; the user answers their questions, or not.    *)
(*                                                                         *)
(* A batch file is read as a whole when its console comes to it; of        *)
(* WARNING.BAT the part before the question and the part after it are read *)
(* at different times.  An empty file and a missing one are the same.      *)
(***************************************************************************)
EXTENDS Naturals, FiniteSets

CONSTANTS
  Editions,   \* some of "nt", "98" and "linux"
  Request,    \* requests, each sent once, with commands of their own
  NoRequest,
  Refused,    \* those that _checkIfCommandIsValid refuses
  Url,        \* those in which _checkIfHasUrl finds a URL
  Warn,       \* warnAboutUrlsInTerminal
  LastMinute  \* bound of the clock

ASSUME EditionAssumption == Editions \subseteq {"nt", "98", "linux"}
ASSUME RequestAssumption ==
  /\ NoRequest \notin Request
  /\ Refused \subseteq Request /\ Url \subseteq Request
ASSUME WarnAssumption == Warn \in BOOLEAN
ASSUME BoundAssumption == LastMinute \in Nat \ {0}

Minute == 1..LastMinute

VARIABLES
  edition,   \* which build runs
  minute,    \* the clock
  pc,        \* the next step of executeTerminalCommand, or "idle"
  req,       \* its request
  sent,      \* the requests that have come so far
  later,     \* history: those that have come after each of them
  file,      \* the minute in the name of each request's batch file, 0 before it
             \* has one
  batch,     \* CHAT-<minute>.BAT: the request whose command it holds
  warning,   \* WARNING.BAT: the request it was written for
  console,   \* what the console of each request is about to do
  shown,     \* the request that each console has asked the user about
  opens,     \* the minute in the name of the batch file it opens
  ran        \* history: which console has run which command, and after which question

serverVars == <<pc, req, sent, later, file>>
diskVars == <<batch, warning>>
consoleVars == <<console, shown, opens, ran>>
vars == <<edition, minute, serverVars, diskVars, consoleVars>>

Init ==
  /\ edition \in Editions
  /\ minute = 1
  /\ pc = "idle" /\ req = NoRequest /\ sent = {}
  /\ later = [r \in Request |-> {}]
  /\ file = [r \in Request |-> 0]
  /\ batch = [m \in Minute |-> NoRequest] /\ warning = NoRequest
  /\ console = [r \in Request |-> "none"]
  /\ shown = [r \in Request |-> NoRequest]
  /\ opens = [r \in Request |-> 1]
  /\ ran = {}

-----------------------------------------------------------------------------
(* The server's thread.                                                    *)

\* Mutant: the check comes after the file has been written.
After_checksLate(step) ==
  CASE step = "begin" -> IF edition = "linux" THEN "check" ELSE "delete"
    [] step = "delete" -> "write"
    [] step = "write" -> "check"
    [] step = "check" -> IF Warn /\ req \in Url /\ edition # "linux"
                           THEN "deleteWarning" ELSE "open"
    [] step = "deleteWarning" -> "writeWarning"
    [] step = "writeWarning" -> "openWarning"
    [] OTHER -> "idle"

\* Mutant: the return after the warning is missing.
After_noReturn(step) ==
  CASE step = "begin" -> "check"
    [] step = "check" -> IF edition = "linux" THEN "open" ELSE "delete"
    [] step = "delete" -> "write"
    [] step = "write" -> IF Warn /\ req \in Url THEN "deleteWarning" ELSE "open"
    [] step = "deleteWarning" -> "writeWarning"
    [] step = "writeWarning" -> "openWarning"
    [] step = "openWarning" -> "open"
    [] OTHER -> "idle"

\* What follows each step of executeTerminalCommand.  Linux goes from the check
\* to system(): the script is neither written nor asked about.
After(step) ==
  CASE step = "begin" -> "check"
    [] step = "check" -> IF edition = "linux" THEN "open" ELSE "delete"
    [] step = "delete" -> "write"
    [] step = "write" -> IF Warn /\ req \in Url THEN "deleteWarning" ELSE "open"
    [] step = "deleteWarning" -> "writeWarning"
    [] step = "writeWarning" -> "openWarning"
    [] OTHER -> "idle"

Goto(step) == pc = step /\ pc' = After(step)

\* A request comes.  Linux reads the minute before the check.
Begin ==
  /\ pc = "idle"
  /\ pc' = After("begin")
  /\ \E r \in Request \ sent :
       /\ req' = r
       /\ sent' = sent \cup {r}
       /\ later' = [q \in Request |-> IF q \in sent THEN later[q] \cup {r} ELSE later[q]]
       /\ file' = IF edition = "linux" THEN [file EXCEPT ![r] = minute] ELSE file
  /\ UNCHANGED <<edition, minute, diskVars, consoleVars>>

Check ==
  /\ Goto("check")
  /\ req \notin Refused
  /\ UNCHANGED <<edition, minute, req, sent, later, file, diskVars, consoleVars>>

CheckRefuses ==
  /\ pc = "check"
  /\ req \in Refused
  /\ pc' = "idle"
  /\ UNCHANGED <<edition, minute, req, sent, later, file, diskVars, consoleVars>>

\* Windows reads the minute, once, to delete what there is of that name.
DeleteFile ==
  /\ Goto("delete")
  /\ file' = [file EXCEPT ![req] = minute]
  /\ batch' = [batch EXCEPT ![minute] = NoRequest]
  /\ UNCHANGED <<edition, minute, req, sent, later, warning, consoleVars>>

WriteFile ==
  /\ Goto("write")
  /\ batch' = [batch EXCEPT ![file[req]] = req]
  /\ UNCHANGED <<edition, minute, req, sent, later, file, warning, consoleVars>>

DeleteWarning ==
  /\ Goto("deleteWarning")
  /\ warning' = NoRequest
  /\ UNCHANGED <<edition, minute, req, sent, later, file, batch, consoleVars>>

WriteWarning ==
  /\ Goto("writeWarning")
  /\ warning' = req
  /\ UNCHANGED <<edition, minute, req, sent, later, file, batch, consoleVars>>

OpenWarning ==
  /\ Goto("openWarning")
  /\ console' = [console EXCEPT ![req] = "warning"]
  /\ UNCHANGED <<edition, minute, req, sent, later, file, diskVars, shown, opens, ran>>

\* Mutant: the name is formed anew, with the time of opening.
Open_formsNameAgain ==
  /\ Goto("open")
  /\ console' = [console EXCEPT ![req] = "command"]
  /\ opens' = [opens EXCEPT ![req] = minute]
  /\ UNCHANGED <<edition, minute, req, sent, later, file, diskVars, shown, ran>>

Open ==
  /\ Goto("open")
  /\ console' = [console EXCEPT ![req] = "command"]
  /\ opens' = [opens EXCEPT ![req] = file[req]]
  /\ UNCHANGED <<edition, minute, req, sent, later, file, diskVars, shown, ran>>

\* A file cannot be handled or a console not opened: the exception leaves what
\* has been written.  Linux' system() does not throw.
Fails ==
  /\ edition # "linux"
  /\ pc \notin {"idle", "check"}
  /\ pc' = "idle"
  /\ UNCHANGED <<edition, minute, req, sent, later, file, diskVars, consoleVars>>

-----------------------------------------------------------------------------
(* The consoles and the clock.                                             *)

\* A console reads WARNING.BAT as far as the question.
Ask(r) ==
  /\ console[r] = "warning"
  /\ shown' = [shown EXCEPT ![r] = warning]
  /\ console' = [console EXCEPT ![r] = IF warning = NoRequest THEN "done" ELSE "ask"]
  /\ UNCHANGED <<edition, minute, serverVars, diskVars, opens, ran>>

\* On a yes the console goes on in WARNING.BAT where it was.  If another
\* warning is there by now it finds that one's line or, when its URLs are
\* longer or shorter, none.  98 has opened the console outside TEMP, where the
\* name in that line leads to no file.
AnswerYes(r) ==
  /\ console[r] = "ask"
  /\ \/ /\ edition = "nt" /\ warning # NoRequest
        /\ console' = [console EXCEPT ![r] = "command"]
        /\ opens' = [opens EXCEPT ![r] = file[warning]]
     \/ /\ edition = "98" \/ warning # shown[r]
        /\ console' = [console EXCEPT ![r] = "done"]
        /\ UNCHANGED opens
  /\ UNCHANGED <<edition, minute, serverVars, diskVars, shown, ran>>

AnswerNo(r) ==
  /\ console[r] = "ask"
  /\ console' = [console EXCEPT ![r] = "done"]
  /\ UNCHANGED <<edition, minute, serverVars, diskVars, shown, opens, ran>>

\* A console runs what its batch file holds when it comes to read it.
RunFile(r) ==
  /\ console[r] = "command"
  /\ LET what == batch[opens[r]]
     IN  ran' = IF what = NoRequest THEN ran
                ELSE ran \cup {[by |-> r, what |-> what, asked |-> shown[r]]}
  /\ console' = [console EXCEPT ![r] = "done"]
  /\ UNCHANGED <<edition, minute, serverVars, diskVars, shown, opens>>

Tick ==
  /\ minute < LastMinute
  /\ minute' = minute + 1
  /\ UNCHANGED <<edition, serverVars, diskVars, consoleVars>>

ServerStep ==
  \/ Begin \/ Check \/ CheckRefuses
  \/ DeleteFile \/ WriteFile \/ DeleteWarning \/ WriteWarning
  \/ OpenWarning \/ Open \/ Fails

Next ==
  \/ ServerStep
  \/ \E r \in Request : Ask(r) \/ AnswerYes(r) \/ AnswerNo(r) \/ RunFile(r)
  \/ Tick

Spec == Init /\ [][Next]_vars

-----------------------------------------------------------------------------
\* The types of the variables.
TypeOK ==
  /\ edition \in Editions
  /\ minute \in Minute
  /\ pc \in {"idle", "check", "delete", "write", "deleteWarning", "writeWarning",
             "openWarning", "open"}
  /\ req \in Request \cup {NoRequest} /\ sent \subseteq Request
  /\ pc # "idle" => req \in Request
  /\ later \in [Request -> SUBSET Request]
  /\ file \in [Request -> {0} \cup Minute] /\ opens \in [Request -> Minute]
  /\ warning # NoRequest => file[warning] \in Minute
  /\ pc # "idle" /\ (edition = "linux" \/ pc \notin {"check", "delete"})
       => file[req] \in Minute
  /\ batch \in [Minute -> Request \cup {NoRequest}]
  /\ warning \in Request \cup {NoRequest}
  /\ console \in [Request -> {"none", "warning", "ask", "command", "done"}]
  /\ shown \in [Request -> Request \cup {NoRequest}]
  /\ ran \subseteq [by : Request, what : Request, asked : Request \cup {NoRequest}]

\* A console that runs a command with a URL has asked about it.  It has not only
\* where a later request has taken the place of the one it was opened for: in the
\* batch file of a request without a URL, by a command of the same minute; or in
\* the batch file or in WARNING.BAT after the console has asked its question.
UrlsAskedFirst ==
  \A x \in ran :
    Warn /\ x.what \in Url /\ x.asked # x.what =>
      IF x.asked = NoRequest
        THEN x.by \notin Url /\ x.what \in later[x.by] /\ file[x.what] = file[x.by]
        ELSE x.what \in later[x.asked]

\* No console, whichever file it comes to read and when, runs a refused
\* command: a refused request leaves no file.
RefusedNeverRuns == \A x \in ran : x.what \notin Refused

\* A console that comes to its batch file finds the command of its request there:
\* the README's "Creates and runs a temporary .bat file with the specified
\* command(s)".
RunsWhatWasSent ==
  [][\A r \in Request :
       console[r] = "command" /\ console'[r] = "done" => batch[opens[r]] = r]_vars

\* The same of the Windows editions, unless the file is by then that of a later
\* request: one of the same minute, or one whose warning has taken the place of
\* the console's own.  It never finds an earlier request's command, nor nothing
\* when no later request has come to that file.
RunsWhatWasSentOnWindows ==
  [][\A r \in Request :
       edition # "linux" /\ console[r] = "command" /\ console'[r] = "done" =>
         \/ batch[opens[r]] = r
         \/ /\ batch[opens[r]] \in {NoRequest} \cup later[r]
            /\ \E q \in later[r] : file[q] = opens[r]]_vars
=============================================================================
