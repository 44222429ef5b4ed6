----------------------------- MODULE WebServer -----------------------------
(***************************************************************************)
(* The HTTP server of Interact Box: WebServer::start and handleRequest,    *)
(* the socket backend of the edition, and serverAbort, which the worker    *)
(* calls for /abort and (on Windows) the tray thread calls for "Exit".     *)
(*                                                                         *)
(* The worker thread runs only while the main thread sits in pthread_join, *)
(* so one program counter, pc, serves both.  The tray thread is the only   *)
(* real concurrency: it interleaves with every step below, and shares      *)
(* abortNow, the listening socket and Winsock with the server thread.      *)
(***************************************************************************)
EXTENDS Integers, Sequences

CONSTANTS Client,     \* the connections that may be made
          NoClient,   \* no connection is being served
          Editions    \* which SocketBackends are looked at: "linux", "windows"

ASSUME EditionAssumption == Editions \subseteq {"linux", "windows"}
ASSUME ClientAssumption == NoClient \notin Client

VARIABLES
  edition,    \* the SocketBackend this program is built with
  pc,         \* where the server thread (main, or its joined worker) stands
  after,      \* where it goes on when the shutdown() it has called returns
  shut,       \* per thread: how far its serverAbort()/shutdown() call has come
  abortNow,   \* WebServer::abortNow
  listenFd,   \* does _listenFd/_listenSocket hold a descriptor?
  lsock,      \* the listening socket as the kernel sees it
  winsock,    \* WSAStartup calls not yet undone by WSACleanup
  backlog,    \* connections the kernel holds for accept()
  seen,       \* connections ever made
  client,     \* clientFd
  sent,       \* what each connection's data turned out to be
  response,   \* HttpResponse being built by the worker
  reply,      \* statuses of the responses handed to send() per connection
  heap,       \* connections whose HttpRequest object is allocated
  unserved,   \* history: connections whose worker was never created
  gone,       \* connections whose peer has closed or reset its end
  late        \* connections accepted although abortNow was already set

netVars == <<backlog, seen, gone>>
reqVars == <<sent, response, reply, heap, unserved>>
endVars == <<abortNow, listenFd, lsock, winsock>>
vars == <<edition, pc, after, shut, endVars, netVars, client, reqVars, late>>

\* The threads that call serverAbort() and shutdown(); "tray" on Windows only.
Actor == {"server", "tray"}

\* The routes tell apart: /abort as written, the same route in another case
\* (find_if compares with iequals), any other registered route, and none.
Route == {"/abort", "/ABORT", "/open", "/nosuch"}
\* What recv and parseContent make of the bytes: nothing received, a request
\* refused with 400 or 422, a body the JSON parser rejects, or a request.
Received == {"nothing", "refused", "unparsable"} \cup Route
Failure == {"400", "403", "404", "500", "501"}
Status == Failure \cup {"200", "422"}

\* pc values at which nothing of a connection's processing is under way.
Idle == {"accept", "loop"}
Over == {"returned", "threw", "ended"}

WinsockUp == edition = "linux" \/ winsock > 0

Init ==
  /\ edition \in Editions
  /\ pc = "init"
  /\ after = "returned"
  /\ shut = [a \in Actor |-> "no"]
  /\ abortNow = FALSE
  /\ listenFd = FALSE
  /\ lsock = "none"
  /\ winsock = 0
  /\ backlog = <<>> /\ seen = {} /\ gone = {}
  /\ client = NoClient
  /\ sent = [c \in Client |-> "pending"]
  /\ response = "unset"
  /\ reply = [c \in Client |-> <<>>]
  /\ heap = {} /\ unserved = {}
  /\ late = 0

-----------------------------------------------------------------------------
(* The process ends: the kernel closes its sockets and stops its threads.  *)
ProcessEnds ==
  /\ pc' = "ended"
  /\ lsock' = "closed"
  /\ backlog' = <<>>
  /\ UNCHANGED <<edition, after, shut, abortNow, listenFd, winsock, seen, gone,
                 client, reqVars, late>>

\* The server thread enters shutdown() at the given point, to go on at next.
CallShutdown(point, next) ==
  /\ pc' = "shutdown"
  /\ after' = next
  /\ shut' = [shut EXCEPT !["server"] = point]

-----------------------------------------------------------------------------
(* start(): opening the listening socket.                                  *)

Startup ==
  /\ pc = "init"
  /\ IF edition = "windows"
       THEN \/ pc' = "socket" /\ winsock' = winsock + 1
            \/ pc' = "threw" /\ UNCHANGED winsock
       ELSE pc' = "socket" /\ UNCHANGED winsock
  /\ UNCHANGED <<edition, after, shut, abortNow, listenFd, lsock, netVars,
                 client,
                 reqVars, late>>

OpenSocket ==
  /\ pc = "socket"
  /\ \/ /\ WinsockUp
        /\ pc' = "listen" /\ listenFd' = TRUE /\ lsock' = "open"
        /\ UNCHANGED <<after, shut>>
     \/ /\ CallShutdown("test", "threw")
        /\ listenFd' = FALSE
        /\ UNCHANGED lsock
  /\ UNCHANGED <<edition, abortNow, winsock, netVars, client, reqVars, late>>

BindAndListen ==
  /\ pc = "listen"
  /\ \/ /\ lsock = "open"
        /\ lsock' = "listening" /\ pc' = "accept"
        /\ UNCHANGED <<after, shut>>
     \/ /\ CallShutdown("test", "threw")
        /\ UNCHANGED lsock
  /\ UNCHANGED <<edition, abortNow, listenFd, winsock, netVars, client,
                 reqVars, late>>

-----------------------------------------------------------------------------
(* start(): one turn of the accept loop.                                   *)

AcceptClient ==
  /\ pc = "accept"
  /\ lsock = "listening" /\ WinsockUp
  /\ backlog # <<>>
  /\ client' = Head(backlog)
  /\ backlog' = Tail(backlog)
  /\ late' = IF abortNow THEN late + 1 ELSE late
  /\ pc' = "recv"
  /\ UNCHANGED <<edition, after, shut, endVars, seen, gone, reqVars>>

\* Mutant: a failed accept() is retried without a look at abortNow.
AcceptFails_retries == pc = "accept" /\ UNCHANGED vars

\* accept() returns a negative value: break if an abort is under way,
\* otherwise continue, which evaluates the loop condition.
AcceptFails ==
  /\ pc = "accept"
  /\ IF abortNow THEN CallShutdown("test", "returned")
                 ELSE pc' = "loop" /\ UNCHANGED <<after, shut>>
  /\ UNCHANGED <<edition, endVars, netVars, client, reqVars, late>>

\* recv() returns nothing: the connection is closed and the loop continues.
ReceiveNothing ==
  /\ pc = "recv"
  /\ sent' = [sent EXCEPT ![client] = "nothing"]
  /\ client' = NoClient
  /\ pc' = "loop"
  /\ UNCHANGED <<edition, after, shut, endVars, netVars, response, reply,
                 heap, unserved, late>>

\* Mutant: a refused request's connection is closed without a response.
Receive_silent ==
  /\ pc = "recv"
  /\ WinsockUp
  /\ heap' = heap \cup {client}
  /\ \E d \in Received \ {"nothing"} :
       /\ sent' = [sent EXCEPT ![client] = d]
       /\ pc' = CASE d = "refused" -> "close"
                  [] d = "unparsable" -> "threw"
                  [] OTHER -> "spawn"
  /\ response' = "unset"
  /\ UNCHANGED <<edition, after, shut, endVars, netVars, client, reply, unserved,
                 late>>

\* recv() returns data: an HttpRequest is allocated and parsed.
Receive ==
  /\ pc = "recv"
  /\ WinsockUp
  /\ heap' = heap \cup {client}
  /\ \E d \in Received \ {"nothing"} :
       /\ sent' = [sent EXCEPT ![client] = d]
       /\ pc' = CASE d = "refused" -> "refuse"
                  [] d = "unparsable" -> "threw"
                  [] OTHER -> "spawn"
  /\ response' = "unset"
  /\ UNCHANGED <<edition, after, shut, endVars, netVars, client, reply, unserved,
                 late>>

\* Mutant: the next connection is accepted with this one still open.
CloseClient_forgets ==
  /\ pc = "close"
  /\ pc' = "loop"
  /\ UNCHANGED <<edition, after, shut, endVars, netVars, client, reqVars, late>>

\* Closing the connection, and the loop condition.
CloseClient ==
  /\ pc = "close"
  /\ client' = NoClient
  /\ pc' = "loop"
  /\ UNCHANGED <<edition, after, shut, endVars, netVars, reqVars, late>>

\* Mutants: a loop that does not read abortNow, and one that ends without
\* the final shutdown().
LoopCondition_forever ==
  /\ pc = "loop" /\ pc' = "accept"
  /\ UNCHANGED <<edition, after, shut, endVars, netVars, client, reqVars, late>>

LoopCondition_noShutdown ==
  /\ pc = "loop"
  /\ pc' = IF abortNow THEN "returned" ELSE "accept"
  /\ UNCHANGED <<edition, after, shut, endVars, netVars, client, reqVars, late>>

LoopCondition ==
  /\ pc = "loop"
  /\ IF abortNow THEN CallShutdown("test", "returned")
                 ELSE pc' = "accept" /\ UNCHANGED <<after, shut>>
  /\ UNCHANGED <<edition, endVars, netVars, client, reqVars, late>>

-----------------------------------------------------------------------------
(* The worker: handleRequest.                                              *)

Spawn ==
  /\ pc = "spawn"
  /\ pc' = "handler"
  /\ UNCHANGED <<edition, after, shut, endVars, netVars, client, reqVars, late>>

\* pthread_create fails unnoticed: the request is never handled, and
\* pthread_join of the unset pthread_t fails or brings the process down.
SpawnFails ==
  /\ pc = "spawn"
  /\ \/ /\ pc' = "close"
        /\ unserved' = unserved \cup {client}
        /\ UNCHANGED <<edition, after, shut, endVars, netVars, client, sent,
                       response, reply, heap, late>>
     \/ ProcessEnds

NoSuchRoute ==
  /\ pc = "handler"
  /\ sent[client] = "/nosuch"
  /\ response' = "404"
  /\ pc' = "send"
  /\ UNCHANGED <<edition, after, shut, endVars, netVars, client, sent, reply,
                 heap, unserved, late>>

\* The handler returns.  find_if has matched the route whatever its case, but
\* serverAbort() is called for the exact text "/abort" only.
HandlerReturns ==
  /\ pc = "handler"
  /\ sent[client] # "/nosuch"
  /\ response' = "200"
  /\ IF sent[client] = "/abort" THEN CallShutdown("store", "send")
                               ELSE pc' = "send" /\ UNCHANGED <<after, shut>>
  /\ UNCHANGED <<edition, endVars, netVars, client, sent, reply, heap, unserved,
                 late>>

\* The handler throws.  Everything but the catch-all goes through
\* ErrorHandler::handleError, which opens a message box.
HandlerThrows ==
  /\ pc = "handler"
  /\ sent[client] # "/nosuch"
  /\ \E s \in Failure :
       /\ response' = s
       /\ pc' \in IF s = "500" THEN {"box", "send"} ELSE {"box"}
  /\ UNCHANGED <<edition, after, shut, endVars, netVars, client, sent, reply,
                 heap, unserved, late>>

\* Mutant: the catch clause around respondWith() returns from the worker.
ShowErrorBox_returns ==
  /\ pc \in {"box", "sendbox"}
  /\ \/ /\ pc' = IF pc = "box" THEN "send" ELSE "close"
        /\ UNCHANGED <<edition, after, shut, endVars, netVars, client,
                       reqVars, late>>
     \/ ProcessEnds

\* handleError's createBox: an exception out of it leaves a catch block of
\* the thread function, and the process is terminated.
ShowErrorBox ==
  /\ pc \in {"box", "sendbox"}
  /\ \/ /\ pc' = IF pc = "box" THEN "send" ELSE "delete"
        /\ UNCHANGED <<edition, after, shut, endVars, netVars, client,
                       reqVars, late>>
     \/ ProcessEnds

DeleteRequest ==
  /\ pc = "delete"
  /\ heap' = heap \ {client}
  /\ pc' = "close"
  /\ UNCHANGED <<edition, after, shut, endVars, netVars, client, sent,
                 response, reply, unserved, late>>

-----------------------------------------------------------------------------
(* respondWith, called by the worker ("send") and, for a request that the  *)
(* parser refused, by start() itself ("refuse").                           *)

Respond ==
  /\ pc \in {"send", "refuse"}
  /\ WinsockUp
  /\ \E s \in IF pc = "send" THEN {response} ELSE {"400", "422"} :
       reply' = [reply EXCEPT ![client] = Append(@, s)]
  /\ pc' = IF pc = "send" THEN "delete" ELSE "close"
  /\ UNCHANGED <<edition, after, shut, endVars, netVars, client, sent,
                 response, heap, unserved, late>>

\* Linux ignores send()'s result, but SIGPIPE may end the process.
SendFailsOnLinux ==
  /\ edition = "linux"
  /\ pc \in {"send", "refuse"}
  /\ client \in gone
  /\ \/ /\ pc' = IF pc = "send" THEN "delete" ELSE "close"
        /\ UNCHANGED <<edition, after, shut, endVars, netVars, client,
                       reqVars, late>>
     \/ ProcessEnds

\* Windows throws: handleRequest catches it, start() does not.
SendFailsOnWindows ==
  /\ edition = "windows"
  /\ pc \in {"send", "refuse"}
  /\ client \in gone \/ ~WinsockUp
  /\ pc' = IF pc = "send" THEN "sendbox" ELSE "threw"
  /\ UNCHANGED <<edition, after, shut, endVars, netVars, client, reqVars, late>>

-----------------------------------------------------------------------------
(* serverAbort() and SocketBackend::shutdown(), step by step: on Windows   *)
(* two threads can be inside at once.                                      *)

MayRun(a) == pc # "ended" /\ (a = "server" => pc = "shutdown")

\* The call returns: the server thread goes on, the tray thread is done.
ReturnsFrom(a) ==
  /\ shut' = [shut EXCEPT ![a] = IF a = "server" THEN "no" ELSE "done"]
  /\ pc' = IF a = "server" THEN after ELSE pc

GoesOn(a, point) ==
  /\ shut' = [shut EXCEPT ![a] = point]
  /\ UNCHANGED pc

\* After the listening socket: WSACleanup on Windows, nothing on Linux.
Finishes(a) ==
  IF edition = "windows" THEN GoesOn(a, "cleanup") ELSE ReturnsFrom(a)

\* Mutant: the tray thread shuts the socket down before it stores abortNow.
TrayAborts_shutsFirst ==
  /\ edition = "windows" /\ pc # "ended" /\ shut["tray"] = "no"
  /\ shut' = [shut EXCEPT !["tray"] = "test"]
  /\ UNCHANGED <<edition, pc, after, endVars, netVars, client, reqVars, late>>

\* "Exit" in the tray menu, or the window being closed or destroyed.
TrayAborts ==
  /\ edition = "windows"
  /\ pc # "ended"
  /\ shut["tray"] = "no"
  /\ shut' = [shut EXCEPT !["tray"] = "store"]
  /\ UNCHANGED <<edition, pc, after, endVars, netVars, client, reqVars, late>>

\* Mutant: serverAbort() records the abort and leaves the sockets alone.
StoreAbort_only(a) ==
  /\ shut[a] = "store" /\ MayRun(a)
  /\ abortNow' = TRUE
  /\ ReturnsFrom(a)
  /\ UNCHANGED <<edition, after, listenFd, lsock, winsock, netVars, client,
                 reqVars, late>>

StoreAbort(a) ==
  /\ shut[a] = "store" /\ MayRun(a)
  /\ abortNow' = TRUE
  /\ GoesOn(a, "test")
  /\ UNCHANGED <<edition, after, listenFd, lsock, winsock, netVars, client,
                 reqVars, late>>

TestListener(a) ==
  /\ shut[a] = "test" /\ MayRun(a)
  /\ IF listenFd THEN GoesOn(a, "close") ELSE Finishes(a)
  /\ UNCHANGED <<edition, after, endVars, netVars, client, reqVars, late>>

\* close()/closesocket() of a listening socket resets what still waits.
CloseListener(a) ==
  /\ shut[a] = "close" /\ MayRun(a)
  /\ lsock' = "closed" /\ backlog' = <<>>
  /\ GoesOn(a, "forget")
  /\ UNCHANGED <<edition, after, abortNow, listenFd, winsock, seen, gone,
                 client, reqVars, late>>

\* Mutant: the closed descriptor is kept.
ForgetListener_keeps(a) ==
  /\ shut[a] = "forget" /\ MayRun(a)
  /\ Finishes(a)
  /\ UNCHANGED <<edition, after, endVars, netVars, client, reqVars, late>>

ForgetListener(a) ==
  /\ shut[a] = "forget" /\ MayRun(a)
  /\ listenFd' = FALSE
  /\ Finishes(a)
  /\ UNCHANGED <<edition, after, abortNow, lsock, winsock, netVars, client,
                 reqVars, late>>

\* WSACleanup fails when nothing is left to undo ...
CleanupCount_unchecked == winsock - 1
CleanupCount == IF winsock = 0 THEN 0 ELSE winsock - 1

\* ... and the last one takes every socket of the process with it.
Cleanup(a) ==
  /\ shut[a] = "cleanup" /\ MayRun(a)
  /\ winsock' = CleanupCount
  /\ IF winsock = 1 /\ lsock # "none"
       THEN lsock' = "closed" /\ backlog' = <<>>
       ELSE UNCHANGED <<lsock, backlog>>
  /\ ReturnsFrom(a)
  /\ UNCHANGED <<edition, after, abortNow, listenFd, seen, gone, client,
                 reqVars, late>>

ShutdownStep(a) ==
  \/ StoreAbort(a)
  \/ TestListener(a)
  \/ CloseListener(a)
  \/ ForgetListener(a)
  \/ Cleanup(a)

\* main() returns, or its catch clause is done with the exception.
Exit ==
  /\ pc \in {"returned", "threw"}
  /\ ProcessEnds

-----------------------------------------------------------------------------
(* The callers.                                                            *)

Connect(c) ==
  /\ lsock = "listening"
  /\ c \notin seen
  /\ seen' = seen \cup {c}
  /\ backlog' = Append(backlog, c)
  /\ UNCHANGED <<edition, pc, after, shut, endVars, gone, client, reqVars,
                 late>>

PeerLeaves ==
  /\ client # NoClient /\ client \notin gone
  /\ gone' = gone \cup {client}
  /\ UNCHANGED <<edition, pc, after, shut, endVars, backlog, seen, client,
                 reqVars, late>>

Callers == PeerLeaves \/ \E c \in Client : Connect(c)

\* Steps that end only when a caller or a handler lets them.
Waits == Receive \/ ReceiveNothing \/ NoSuchRoute \/ HandlerReturns \/ HandlerThrows

\* Steps the server thread takes on its own.
Proceeds ==
  \/ Startup \/ OpenSocket \/ BindAndListen
  \/ AcceptClient \/ CloseClient \/ LoopCondition
  \/ Spawn \/ SpawnFails \/ ShowErrorBox \/ DeleteRequest
  \/ Respond \/ SendFailsOnLinux \/ SendFailsOnWindows
  \/ ShutdownStep("server")
  \/ Exit

\* accept() of a socket that is not listening does not block.
AcceptRefused == (lsock # "listening" \/ ~WinsockUp) /\ AcceptFails

Next ==
  \/ Proceeds
  \/ AcceptFails
  \/ Waits
  \/ TrayAborts
  \/ edition = "windows" /\ ShutdownStep("tray")
  \/ Callers

Spec == Init /\ [][Next]_vars

(***************************************************************************)
(* The operating system schedules every thread that can run.  Nothing is   *)
(* assumed of the callers, of the handlers, or of the user at the tray.    *)
(***************************************************************************)
FairSpec ==
  /\ Spec
  /\ WF_vars(Proceeds)
  /\ WF_vars(AcceptRefused)
  /\ WF_vars(edition = "windows" /\ ShutdownStep("tray"))

-----------------------------------------------------------------------------
TypeOK ==
  /\ edition \in Editions
  /\ pc \in Idle \cup Over \cup
       {"init", "socket", "listen", "recv", "refuse", "spawn", "handler",
        "box", "send", "sendbox", "delete", "close", "shutdown"}
  /\ after \in {"send", "returned", "threw"}
  /\ shut \in [Actor -> {"no", "store", "test", "close", "forget", "cleanup",
                        "done"}]
  /\ abortNow \in BOOLEAN
  /\ listenFd \in BOOLEAN
  /\ lsock \in {"none", "open", "listening", "closed"}
  /\ winsock \in Nat
  /\ backlog \in Seq(Client)
  /\ seen \in SUBSET Client
  /\ client \in Client \cup {NoClient}
  /\ sent \in [Client -> Received \cup {"pending"}]
  /\ response \in Status \cup {"unset"}
  /\ reply \in [Client -> Seq(Status)]
  /\ heap \in SUBSET Client /\ unserved \in SUBSET Client
  /\ gone \in SUBSET Client
  /\ late \in Nat

\* When the accept loop meets a listening socket that is closed, an abort is
\* recorded already, so it leaves (serverAbort stores abortNow first, and
\* start() reads it after accept() has failed): it never spins on a dead
\* socket.
NeverSpinsOnClosedListener ==
  pc \in Idle /\ lsock # "listening" => abortNow

\* At most one connection is taken up after an abort has been recorded: the
\* one a do-while loop lets through before it reads abortNow again.
AtMostOneLateClient == late <= 1

\* When a connection is closed, a request received on it was answered, one
\* that parseContent refused included, unless its peer had gone, its worker
\* was never created, or an abort had taken Winsock down before the worker
\* could send.
AnsweredWhenClosed ==
  pc = "close" /\ reply[client] = <<>> =>
    \/ client \in gone
    \/ client \in unserved
    \/ /\ edition = "windows" /\ abortNow /\ winsock = 0
       /\ sent[client] # "refused"

\* A request object outlives its connection only when parseContent refused
\* it, or its worker was never created: a worker that ran has deleted it,
\* whatever its handler did and whether or not its response could be sent.
OnlyRefusedRequestsLeak ==
  \A c \in heap \ {client} : sent[c] = "refused" \/ c \in unserved

\* When start() returns, nothing of the server's sockets is left, whichever
\* of the two threads was first at each step of the two shutdown() calls.
ReleasedOnReturn ==
  pc = "returned" => lsock = "closed" /\ ~listenFd /\ client = NoClient /\ winsock = 0

\* README, "/abort": "Closes Interact Box".  Once a request for the abort
\* route has been answered with 200, the server is closing.
AbortRouteCloses ==
  \A c \in Client : sent[c] \in {"/abort", "/ABORT"} /\ reply[c] = <<"200">> => abortNow

\* Once an abort is recorded the process ends, unless a caller sends nothing
\* for ever, a handler does not return, or the tray thread's whole call of
\* serverAbort() was over before start() had called WSAStartup: it found
\* nothing to close, and the socket opened later listens until somebody
\* connects.
AbortEndsProcess ==
  <>abortNow =>
    \/ <>(pc = "ended")
    \/ <>[](pc = "recv")
    \/ <>[](pc = "handler")
    \/ <>(pc = "init" /\ shut["tray"] = "done") /\ <>[](pc = "accept")

\* start() serves its callers in turn and answers each at most once, whatever
\* the outcome of each request and whenever the abort comes.
Service ==
  INSTANCE SerialService WITH
    phase <- CASE lsock \in {"none", "open"} -> "down"
               [] lsock = "listening" -> "open"
               [] OTHER -> "shut",
    waiting <- backlog,
    arrived <- seen,
    serving <- client,
    answers <- [c \in Client |-> Len(reply[c])]

ImplementsService == Service!ServiceSpec
=============================================================================
