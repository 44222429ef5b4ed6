--------------------------- MODULE TrayLifecycle ---------------------------
(***************************************************************************)
(* The two long-lived threads of the Windows editions: main(), which scans *)
(* the disks, builds the server and runs it, and the tray thread, which    *)
(* main() starts first and never joins.  They share threadData (the server *)
(* pointer and the address of the tray thread's own window handle), the    *)
(* window's message queue, and the server's abortNow.                      *)
(*                                                                         *)
(* WebServer models what start() does step by step; here it opens the      *)
(* listener, waits in accept() ("serve"), or is held by a connection and   *)
(* its handler ("busy"), which need not ever let it go.                    *)
(***************************************************************************)
EXTENDS Naturals, Sequences

CONSTANTS Edition,      \* "nt" (Windows XP and later) or "98"
          MaxMessages   \* bound: messages sent to the tray window from outside

ASSUME EditionAssumption == Edition \in {"nt", "98"}
ASSUME MaxMessagesAssumption == MaxMessages \in Nat

VARIABLES
  main,       \* where main() stands
  tray,       \* where trayIconThread stands
  process,    \* "running", or how it ended
  server,     \* threadData.server: does it point to the WebServer?
  hwndPtr,    \* threadData.hwndPtr: does it point to the thread's hwnd?
  userData,   \* GWLP_USERDATA of the window, read by windowProc
  window,     \* the hidden window: "none", "open" or "destroyed"
  icon,       \* is the icon in the notification area?
  queue,      \* messages not yet dispatched
  abortNow,   \* WebServer::abortNow
  listener,   \* the server's listening socket: "none", "open" or "closed"
  early,      \* history: an abort found no listening socket to close
  outside,    \* messages sent from outside so far
  stale       \* main() has read *hwndPtr after the tray thread returned

shared == <<server, hwndPtr, userData>>
ui == <<window, icon, queue>>
abortVars == <<abortNow, listener, early>>
vars == <<main, tray, process, shared, ui, abortVars, outside, stale>>

MainPc ==
  {"scan", "publish", "announce", "box", "open", "serve", "busy", "notify",
   "leave"}
TrayPc == {"create", "link", "expose", "icon", "loading", "loop", "check", "returned"}
\* Messages told apart: the Exit command, WM_CLOSE, and any other one.
Message == {"exit", "close", "other"}

Init ==
  /\ main = "scan"
  /\ tray = "create"
  /\ process = "running"
  /\ server = FALSE /\ hwndPtr = FALSE /\ userData = FALSE
  /\ window = "none" /\ icon = FALSE /\ queue = <<>>
  /\ abortNow = FALSE /\ listener = "none" /\ early = FALSE
  /\ outside = 0
  /\ stale = FALSE

Running == process = "running"

\* How the process ends: "exited" (main() returned), "killed" (ExitProcess),
\* "crashed" (access violation) or "terminated" (exception out of a thread).
Ends(how) ==
  /\ process' = how
  /\ UNCHANGED <<main, tray, shared, ui, abortVars, outside, stale>>

-----------------------------------------------------------------------------
(* main()                                                                  *)

\* FileUtil's scan and the other utilities, with the tray thread running; an
\* exception here is outside main()'s try block.
Scan ==
  /\ Running /\ main = "scan"
  /\ \/ /\ main' = "publish"
        /\ UNCHANGED <<tray, process, shared, ui, abortVars, outside, stale>>
     \/ Ends("terminated")

PublishServer ==
  /\ Running /\ main = "publish"
  /\ server' = TRUE
  /\ main' = "announce"
  /\ UNCHANGED <<tray, process, hwndPtr, userData, ui, abortVars, outside, stale>>

\* hwnd lives on the tray thread's stack: main() reads it through hwndPtr.
ReadsHwnd ==
  stale' = (stale \/ (hwndPtr /\ tray = "returned"))

\* main()'s catch clauses show an error box: if that throws too, nothing
\* catches it.  Either way nobody posts WM_CLOSE.
CatchClause ==
  \/ /\ main' = "leave"
     /\ UNCHANGED <<tray, process, shared, ui, abortVars, outside, stale>>
  \/ Ends("terminated")

\* If there is a window handle, what is online is said by a balloon, or on
\* Windows 98 by a message box.  A stale handle may read as none.
Announce ==
  /\ Running /\ main = "announce"
  /\ ReadsHwnd
  /\ \/ main' = "open" /\ (Edition = "98" /\ hwndPtr => tray = "returned")
     \/ main' = "box" /\ Edition = "98" /\ hwndPtr
  /\ UNCHANGED <<tray, process, shared, ui, abortVars, outside>>

\* The message box of Windows 98, which may throw.
OnlineBox ==
  /\ Running /\ main = "box"
  /\ \/ /\ main' = "open"
        /\ UNCHANGED <<tray, process, shared, ui, abortVars, outside, stale>>
     \/ CatchClause

OpenListener ==
  /\ Running /\ main = "open"
  /\ main' = "serve"
  /\ listener' = "open"
  /\ UNCHANGED <<tray, process, shared, ui, abortNow, early, outside, stale>>

OpenFails == Running /\ main = "open" /\ CatchClause

\* accept() returns a connection.
TakeUp ==
  /\ Running /\ main = "serve" /\ listener = "open"
  /\ main' = "busy"
  /\ UNCHANGED <<tray, process, shared, ui, abortVars, outside, stale>>

\* Mutant: serverAbort() records the abort and leaves the socket open.
Aborts_keepsListener ==
  /\ abortNow' = TRUE
  /\ early' = (early \/ listener = "none")
  /\ UNCHANGED listener

\* serverAbort(), from either thread, has nothing to close before bind.
Aborts ==
  /\ abortNow' = TRUE
  /\ listener' = IF listener = "open" THEN "closed" ELSE listener
  /\ early' = (early \/ listener = "none")

\* The connection being served asks for /abort.
AbortRoute ==
  /\ Running /\ main = "busy"
  /\ Aborts
  /\ UNCHANGED <<main, tray, process, shared, ui, outside, stale>>

\* The connection is closed and the loop condition read.
Served ==
  /\ Running /\ main = "busy"
  /\ main' = IF abortNow THEN "notify" ELSE "serve"
  /\ UNCHANGED <<tray, process, shared, ui, abortVars, outside, stale>>

\* A body could not be parsed, or a refusal could not be sent.
ServeThrows == Running /\ main = "busy" /\ CatchClause

\* accept() fails on a closed listener.
ServerReturns ==
  /\ Running /\ main = "serve" /\ listener = "closed" /\ abortNow
  /\ main' = "notify"
  /\ UNCHANGED <<tray, process, shared, ui, abortVars, outside, stale>>

\* Mutant: WM_QUIT is posted to the window instead of WM_CLOSE.
PostClose_quit ==
  /\ Running /\ main = "notify"
  /\ ReadsHwnd
  /\ queue' = IF hwndPtr /\ window = "open" THEN Append(queue, "quit") ELSE queue
  /\ main' = "leave"
  /\ UNCHANGED <<tray, process, shared, window, icon, abortVars, outside>>

PostClose ==
  /\ Running /\ main = "notify"
  /\ ReadsHwnd
  /\ queue' = IF hwndPtr /\ window = "open" THEN Append(queue, "close") ELSE queue
  /\ main' = "leave"
  /\ UNCHANGED <<tray, process, shared, window, icon, abortVars, outside>>

Leave ==
  /\ Running /\ main = "leave"
  /\ Ends("exited")

\* What main() does on its own, and what a connection must let it do.
Proceeds ==
  \/ Scan \/ PublishServer \/ Announce \/ OnlineBox \/ OpenListener \/ OpenFails
  \/ ServerReturns \/ PostClose \/ Leave
Serves == TakeUp \/ AbortRoute \/ Served \/ ServeThrows
MainStep == Proceeds \/ Serves

-----------------------------------------------------------------------------
(* trayIconThread                                                          *)

CreateTrayWindow ==
  /\ Running /\ tray = "create"
  /\ \/ tray' = "link" /\ window' = "open"
     \/ tray' = "returned" /\ UNCHANGED window
  /\ UNCHANGED <<main, process, shared, icon, queue, abortVars, outside, stale>>

\* threadData->server is copied into the window once, now.
LinkServer ==
  /\ Running /\ tray = "link"
  /\ userData' = server
  /\ tray' = "expose"
  /\ UNCHANGED <<main, process, server, hwndPtr, ui, abortVars, outside, stale>>

ExposeHwnd ==
  /\ Running /\ tray = "expose"
  /\ hwndPtr' = TRUE
  /\ tray' = "icon"
  /\ UNCHANGED <<main, process, server, userData, ui, abortVars, outside, stale>>

AddTrayIcon ==
  /\ Running /\ tray = "icon"
  /\ icon' = TRUE
  /\ tray' = "loading"
  /\ UNCHANGED <<main, process, shared, window, queue, abortVars, outside, stale>>

\* A balloon, or on Windows 98 a message box whose failure nobody catches.
ShowLoading ==
  /\ Running /\ tray = "loading"
  /\ \/ /\ tray' = "loop"
        /\ UNCHANGED <<main, process, shared, ui, abortVars, outside, stale>>
     \/ Edition = "98" /\ Ends("terminated")

\* WM_DESTROY and WM_CLOSE in windowProc, with the server pointer set.  The
\* WM_QUIT they post is never met: the check after the same message sees
\* abortNow and leaves the loop before GetMessage is called again.
StopsServer ==
  /\ IF abortNow THEN UNCHANGED abortVars ELSE Aborts
  /\ icon' = FALSE

\* GetMessage returns the next message and windowProc handles it.
DispatchClose ==
  /\ Running /\ tray = "loop" /\ queue # <<>> /\ Head(queue) = "close"
  /\ \/ /\ userData
        /\ StopsServer
        /\ queue' = Tail(queue)
        /\ tray' = "check"
        /\ UNCHANGED <<main, process, shared, window, outside, stale>>
     \/ ~userData /\ Ends("crashed")

DispatchExit ==
  /\ Running /\ tray = "loop" /\ queue # <<>> /\ Head(queue) = "exit"
  /\ \/ /\ userData
        /\ Aborts
        /\ icon' = FALSE
        /\ window' = "destroyed"
        /\ queue' = Tail(queue)
        /\ tray' = "check"
        /\ UNCHANGED <<main, process, shared, outside, stale>>
     \/ ~userData /\ Ends("killed")

\* Also openSettings(), whose catch clause shows a box: an exception out of
\* that leaves windowProc.
DispatchOther ==
  /\ Running /\ tray = "loop" /\ queue # <<>> /\ Head(queue) = "other"
  /\ \/ /\ queue' = Tail(queue)
        /\ tray' = "check"
        /\ UNCHANGED <<main, process, shared, window, icon, abortVars, outside,
                       stale>>
     \/ Ends("terminated")

\* Mutant: the thread leaves its loop on an abort without destroying the window.
CheckAbort_justLeaves ==
  /\ Running /\ tray = "check"
  /\ tray' = IF server /\ abortNow THEN "returned" ELSE "loop"
  /\ UNCHANGED <<main, process, shared, ui, abortVars, outside, stale>>

\* After each message: when the server is aborting, the window is destroyed,
\* which runs windowProc once more, and the thread returns.
CheckAbort ==
  /\ Running /\ tray = "check"
  /\ \/ /\ ~server \/ ~abortNow
        /\ tray' = "loop"
        /\ UNCHANGED <<main, process, shared, ui, abortVars, outside, stale>>
     \/ /\ server /\ abortNow
        /\ window = "destroyed" \/ userData
        /\ StopsServer
        /\ window' = "destroyed"
        /\ tray' = "returned"
        /\ UNCHANGED <<main, process, shared, queue, outside, stale>>
     \/ /\ server /\ abortNow
        /\ window = "open" /\ ~userData
        /\ Ends("crashed")

TrayStep ==
  \/ CreateTrayWindow \/ LinkServer \/ ExposeHwnd \/ AddTrayIcon \/ ShowLoading
  \/ DispatchClose \/ DispatchExit \/ DispatchOther \/ CheckAbort

-----------------------------------------------------------------------------
\* The user chooses Exit (which takes the icon), or Windows sends a message.
SendMessage(m) ==
  /\ Running
  /\ window = "open"
  /\ m = "exit" => icon
  /\ outside < MaxMessages
  /\ outside' = outside + 1
  /\ queue' = Append(queue, m)
  /\ UNCHANGED <<main, tray, process, shared, window, icon, abortVars, stale>>

Next ==
  \/ MainStep
  \/ TrayStep
  \/ \E m \in Message : SendMessage(m)

Spec == Init /\ [][Next]_vars

\* Both threads are scheduled.  Nothing is assumed of the callers and of the
\* handlers: accept() need not return while the listener is open, and a
\* connection that was taken up need not ever end.
FairSpec ==
  /\ Spec
  /\ WF_vars(Proceeds)
  /\ WF_vars(TrayStep)

-----------------------------------------------------------------------------
TypeOK ==
  /\ main \in MainPc
  /\ tray \in TrayPc
  /\ process \in {"running", "exited", "killed", "crashed", "terminated"}
  /\ server \in BOOLEAN /\ hwndPtr \in BOOLEAN /\ userData \in BOOLEAN
  /\ window \in {"none", "open", "destroyed"}
  /\ icon \in BOOLEAN
  /\ queue \in Seq(Message)
  /\ abortNow \in BOOLEAN /\ early \in BOOLEAN
  /\ listener \in {"none", "open", "closed"}
  /\ outside \in 0..MaxMessages
  /\ stale \in BOOLEAN

\* The tray thread returns from its loop only when it had been given the
\* server, and then it leaves neither an icon nor a running server behind.
TrayReturnsClean ==
  tray = "returned" /\ window # "none" => userData /\ abortNow /\ ~icon

\* main() reads the window handle from the stack of a thread that has returned
\* only when that thread copied a server pointer that main() had published.
StaleReadNeedsLink == stale => userData

\* Choosing Exit ends the process, whether main() still scans the disks
\* (ExitProcess) or the server runs, and whatever was in the queue before,
\* unless start() is held for ever by a connection or its handler, or the
\* abort came before bind, when there was no socket to close yet, and nobody
\* ever connects to the one that was opened afterwards.
ExitEndsProcess ==
  (\E i \in 1..Len(queue) : queue[i] = "exit") ~>
    \/ ~Running
    \/ [](main = "busy")
    \/ early /\ [](main = "serve")

\* main.cpp, in the handler of access violations: "This message should never
\* be shown."
NoUnhandledError == process # "crashed"
=============================================================================
