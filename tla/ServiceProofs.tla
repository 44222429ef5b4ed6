--------------------------- MODULE ServiceProofs ---------------------------
(***************************************************************************)
(* That WebServer implements SerialService, and what becomes of each       *)
(* request and of the sockets: for any set of connections, either edition  *)
(* and every interleaving with the tray thread's abort.                    *)
(*                                                                         *)
(* The refinement and the three invariants rest on one inductive           *)
(* invariant, ServiceInv, on top of WebServerProofs!LoopInv.  Its parts    *)
(* say what the listening socket and Winsock are wherever the two threads  *)
(* stand inside shutdown(), which connections nothing has happened to yet, *)
(* and how far the request of the connection being served has come.        *)
(***************************************************************************)
EXTENDS WebServerProofs

\* The worker is inside shutdown() for /abort.
Aborting == pc = "shutdown" /\ after = "send"

\* start() is past the opening of the socket, and has not failed.
Opened ==
  \/ pc \in InLoop \cup {"listen", "returned"}
  \/ pc = "shutdown" /\ after # "threw"

\* Nobody closes a listening socket that is not there, and whoever forgets
\* the descriptor has closed the socket before.
SocketInv ==
  /\ pc \in {"init", "socket"} => lsock = "none" /\ ~listenFd
  /\ Opened => lsock # "none"
  /\ Opened /\ ~listenFd => lsock = "closed"
  /\ lsock = "closed" => backlog = <<>>
  /\ \A a \in Actor : shut[a] \in {"close", "forget"} => pc \notin {"init", "socket"}
  /\ \A a \in Actor : shut[a] = "forget" => lsock = "closed"
  /\ pc = "shutdown" /\ shut["server"] = "cleanup" => ~listenFd
  /\ pc = "returned" => ~listenFd

\* While the loop runs, only an abort takes Winsock down.
WinsockInv ==
  /\ winsock \in {0, 1}
  /\ edition = "linux" => winsock = 0
  /\ pc \in {"init", "returned"} => winsock = 0
  /\ edition = "windows" /\ winsock = 0
       /\ (pc \in InLoop \cup {"socket", "listen"} \/ Aborting) => abortNow

\* Nobody is served between two turns of the loop, before it and after it.
Between ==
  \/ pc \in {"init", "socket", "listen", "accept", "loop", "returned"}
  \/ pc = "shutdown" /\ after # "send"
IdleInv == Between => client = NoClient

\* Nothing has happened to a connection that has not been taken up.
Untouched(c) == reply[c] = <<>> /\ c \notin heap /\ c \notin unserved

FreshInv ==
  /\ \A c \in Client \ seen : Untouched(c)
  /\ \A i \in 1..Len(backlog) :
       backlog[i] \in seen /\ backlog[i] # client /\ Untouched(backlog[i])
  /\ \A i, j \in 1..Len(backlog) : backlog[i] = backlog[j] => i = j
  /\ client \in Client => client \in seen

\* The request of a worker that has run was answered, or there is an excuse.
Settled ==
  \/ reply[client] # <<>>
  \/ client \in gone
  \/ edition = "windows" /\ abortNow /\ winsock = 0

\* The points of the worker's code, from its creation to its return.
AtWork ==
  pc \in {"spawn", "handler", "box", "send", "sendbox", "delete"} \/ Aborting

\* The request of the connection being served, point by point.
ServedInv ==
  /\ pc = "recv" => client \notin heap
  /\ pc = "refuse" => sent[client] = "refused"
  /\ AtWork => client \in heap /\ sent[client] \in Route
  /\ pc \in {"recv", "refuse", "spawn", "handler", "box", "send"} \/ Aborting
       => reply[client] = <<>>
  /\ pc \in {"sendbox", "delete"} => Settled
  /\ pc = "close" /\ client \in heap =>
       sent[client] = "refused" \/ client \in unserved

ControlPart == SocketInv /\ WinsockInv /\ IdleInv
RequestPart == FreshInv /\ ServedInv /\ AnsweredWhenClosed /\ OnlyRefusedRequestsLeak

ServiceInv == LoopInv /\ ControlPart /\ RequestPart

-----------------------------------------------------------------------------
(* The sockets, Winsock and who is served.                                 *)

LEMMA InitControlPart == Init => ControlPart
BY ActorFacts
   DEF Init, ControlPart, SocketInv, WinsockInv, IdleInv, Between, Opened, Aborting,
       InLoop

LEMMA StartControlPart ==
  ASSUME ServiceInv,
         \/ Startup \/ OpenSocket \/ BindAndListen \/ AcceptClient \/ AcceptFails
         \/ ReceiveNothing \/ Receive \/ CloseClient \/ LoopCondition
  PROVE  ControlPart'
<1> USE ActorFacts, EditionAssumption
    DEF ServiceInv, LoopInv, TypeOK, Idle, Over, ControlPart, SocketInv, WinsockInv, IdleInv,
        Between, Opened, Aborting, InLoop, endVars, netVars, reqVars, CallShutdown
<1>1. CASE Startup
  BY <1>1 DEF Startup
<1>2. CASE OpenSocket
  BY <1>2 DEF OpenSocket, WinsockUp
<1>3. CASE BindAndListen
  BY <1>3 DEF BindAndListen
<1>4. CASE AcceptClient
  BY <1>4 DEF AcceptClient
<1>5. CASE AcceptFails
  BY <1>5 DEF AcceptFails
<1>6. CASE ReceiveNothing
  BY <1>6 DEF ReceiveNothing
<1>7. CASE Receive
  <2>1. pc' \in {"refuse", "threw", "spawn"}
    BY <1>7 DEF Receive
  <2>2. QED
    BY <1>7, <2>1 DEF Receive
<1>8. CASE CloseClient
  BY <1>8 DEF CloseClient
<1>9. CASE LoopCondition
  BY <1>9 DEF LoopCondition
<1>10. QED
  BY <1>1, <1>2, <1>3, <1>4, <1>5, <1>6, <1>7, <1>8, <1>9

LEMMA WorkerControlPart ==
  ASSUME ServiceInv,
         \/ Spawn \/ SpawnFails \/ NoSuchRoute \/ HandlerReturns \/ HandlerThrows
         \/ ShowErrorBox \/ DeleteRequest \/ Respond \/ SendFailsOnLinux
         \/ SendFailsOnWindows
  PROVE  ControlPart'
<1> USE ActorFacts
    DEF ServiceInv, LoopInv, TypeOK, ControlPart, SocketInv, WinsockInv, IdleInv,
        Between, Opened, Aborting, InLoop, endVars, netVars, reqVars, CallShutdown,
        ProcessEnds
<1>1. CASE Spawn
  BY <1>1 DEF Spawn
<1>2. CASE SpawnFails
  BY <1>2 DEF SpawnFails
<1>3. CASE NoSuchRoute
  BY <1>3 DEF NoSuchRoute
<1>4. CASE HandlerReturns
  BY <1>4 DEF HandlerReturns
<1>5. CASE HandlerThrows
  <2>1. pc' \in {"box", "send"}
    BY <1>5 DEF HandlerThrows
  <2>2. QED
    BY <1>5, <2>1 DEF HandlerThrows
<1>6. CASE ShowErrorBox
  BY <1>6 DEF ShowErrorBox
<1>7. CASE DeleteRequest
  BY <1>7 DEF DeleteRequest
<1>8. CASE Respond
  BY <1>8 DEF Respond
<1>9. CASE SendFailsOnLinux
  BY <1>9 DEF SendFailsOnLinux
<1>10. CASE SendFailsOnWindows
  BY <1>10 DEF SendFailsOnWindows
<1>11. QED
  BY <1>1, <1>2, <1>3, <1>4, <1>5, <1>6, <1>7, <1>8, <1>9, <1>10

LEMMA ShutdownControlPart ==
  ASSUME ServiceInv, NEW a \in Actor, ShutdownStep(a)
  PROVE  ControlPart'
<1> USE ActorFacts, EditionAssumption
    DEF ServiceInv, LoopInv, TypeOK, ControlInv, AbortFirst, TrayPastStore,
        WorkerPastStore, ControlPart, SocketInv, WinsockInv, IdleInv,
        Between, Opened, Aborting, InLoop, Idle, Over, MayRun, netVars, reqVars, GoesOn,
        ReturnsFrom, Finishes
<1>1. CASE StoreAbort(a)
  BY <1>1 DEF StoreAbort
<1>2. CASE TestListener(a)
  BY <1>2 DEF TestListener, endVars
<1>3. CASE CloseListener(a)
  BY <1>3 DEF CloseListener
<1>4. CASE ForgetListener(a)
  BY <1>4 DEF ForgetListener
<1>5. CASE Cleanup(a)
  BY <1>5 DEF Cleanup, CleanupCount
<1>6. QED
  BY <1>1, <1>2, <1>3, <1>4, <1>5 DEF ShutdownStep

LEMMA OutsideControlPart ==
  ASSUME ServiceInv, Callers \/ TrayAborts \/ Exit \/ UNCHANGED vars
  PROVE  ControlPart'
<1> USE ActorFacts
    DEF ServiceInv, LoopInv, TypeOK, ControlPart, SocketInv, WinsockInv, IdleInv,
        Between, Opened, Aborting, InLoop, endVars, netVars, reqVars
<1>1. CASE PeerLeaves
  BY <1>1 DEF PeerLeaves
<1>2. ASSUME NEW c \in Client, Connect(c)
      PROVE  ControlPart'
  BY <1>2 DEF Connect
<1>3. CASE TrayAborts
  BY <1>3 DEF TrayAborts
<1>4. CASE Exit
  BY <1>4 DEF Exit, ProcessEnds
<1>5. CASE UNCHANGED vars
  BY <1>5 DEF vars
<1>6. QED
  BY <1>1, <1>2, <1>3, <1>4, <1>5 DEF Callers

-----------------------------------------------------------------------------
(* The connections and their requests.                                     *)

LEMMA InitRequestPart == Init => RequestPart
<1> SUFFICES ASSUME Init PROVE RequestPart
  OBVIOUS
<1>1. pc = "init" /\ heap = {} /\ unserved = {} /\ client \notin Client /\ \A c \in Client : reply[c] = <<>>
  BY ClientAssumption DEF Init
<1>2. backlog = <<>> /\ 1..Len(backlog) = {}
  BY DEF Init
<1>3. QED
  BY <1>1, <1>2 DEF RequestPart, FreshInv, ServedInv, Untouched, AnsweredWhenClosed,
     OnlyRefusedRequestsLeak, AtWork, Aborting

\* A connection that is taken up is one of those that nothing has happened to.
LEMMA AcceptRequestPart == ASSUME ServiceInv, AcceptClient PROVE RequestPart'
<1> USE DEF ServiceInv, LoopInv, TypeOK
<1>1. /\ pc = "accept" /\ backlog # <<>> /\ pc' = "recv"
      /\ client = NoClient /\ client' = Head(backlog) /\ backlog' = Tail(backlog)
      /\ UNCHANGED <<edition, after, shut, endVars, seen, gone, reqVars>>
  BY DEF AcceptClient, ControlPart, IdleInv, Between
<1>2. client' = backlog[1] /\ 1 \in 1..Len(backlog)
  BY <1>1
<1>3. Len(backlog') = Len(backlog) - 1
      /\ \A i \in 1..Len(backlog') : i + 1 \in 1..Len(backlog) /\ backlog'[i] = backlog[i + 1]
  BY <1>1
<1>4. \A i \in 1..Len(backlog') : backlog'[i] # client'
  <2> TAKE i \in 1..Len(backlog')
  <2>1. \A k, j \in 1..Len(backlog) : backlog[k] = backlog[j] => k = j
    BY DEF RequestPart, FreshInv
  <2>2. i + 1 # 1 /\ i + 1 \in 1..Len(backlog) /\ backlog'[i] = backlog[i + 1]
    BY <1>3
  <2> QED
    BY <1>2, <2>1, <2>2
<1>5. client' \in seen /\ Untouched(client')
  BY <1>2 DEF RequestPart, FreshInv
<1>6. FreshInv'
  <2>1. UNCHANGED <<seen, reply, heap, unserved>>
    BY <1>1 DEF reqVars
  <2>2. \A i, j \in 1..Len(backlog') : backlog'[i] = backlog'[j] => i = j
    <3> TAKE i, j \in 1..Len(backlog')
    <3>1. backlog[i + 1] = backlog[j + 1] => i + 1 = j + 1
      BY <1>3 DEF RequestPart, FreshInv
    <3> QED
      BY <1>3, <3>1
  <2>3. \A i \in 1..Len(backlog') : backlog'[i] \in seen /\ Untouched(backlog'[i])
    BY <1>3 DEF RequestPart, FreshInv
  <2>4. QED
    BY <1>4, <1>5, <2>1, <2>2, <2>3 DEF RequestPart, FreshInv, Untouched
<1>7. ServedInv' /\ AnsweredWhenClosed'
  BY <1>1, <1>5 DEF ServedInv, AnsweredWhenClosed, Untouched, AtWork, Aborting, reqVars
<1>8. OnlyRefusedRequestsLeak'
  <2>1. \A c \in heap : c # client
    BY <1>1, ClientAssumption
  <2>2. QED
    BY <1>1, <2>1 DEF RequestPart, OnlyRefusedRequestsLeak, reqVars
<1>9. QED
  BY <1>6, <1>7, <1>8 DEF RequestPart

LEMMA StartRequestPart ==
  ASSUME ServiceInv,
         \/ Startup \/ OpenSocket \/ BindAndListen \/ AcceptFails
         \/ ReceiveNothing \/ Receive \/ CloseClient \/ LoopCondition
  PROVE  RequestPart'
<1> USE ClientAssumption
    DEF ServiceInv, LoopInv, TypeOK, ControlInv, ServesClient, Serving, ControlPart,
        IdleInv, Between, Idle, Over,
        RequestPart, FreshInv, Untouched, ServedInv, AnsweredWhenClosed,
        OnlyRefusedRequestsLeak, Settled, AtWork, Aborting, endVars, netVars, reqVars,
        CallShutdown
<1>1. CASE Startup
  BY <1>1 DEF Startup
<1>2. CASE OpenSocket
  BY <1>2 DEF OpenSocket
<1>3. CASE BindAndListen
  BY <1>3 DEF BindAndListen
<1>4. CASE AcceptFails
  BY <1>4 DEF AcceptFails
<1>5. CASE ReceiveNothing
  BY <1>5 DEF ReceiveNothing
<1>6. CASE Receive
  <2>1. PICK d \in Received \ {"nothing"} :
          /\ sent' = [sent EXCEPT ![client] = d]
          /\ pc' = CASE d = "refused" -> "refuse"
                     [] d = "unparsable" -> "threw"
                     [] OTHER -> "spawn"
    BY <1>6 DEF Receive
  <2>2. \/ pc' = "refuse" /\ d = "refused"
        \/ pc' = "threw"
        \/ pc' = "spawn" /\ d \in Route
    BY <2>1 DEF Received
  <2>3. sent'[client] = d /\ \A c \in Client \ {client} : sent'[c] = sent[c]
    BY <1>6, <2>1 DEF Receive
  <2>4. QED
    BY <1>6, <2>2, <2>3 DEF Receive
<1>7. CASE CloseClient
  BY <1>7 DEF CloseClient
<1>8. CASE LoopCondition
  BY <1>8 DEF LoopCondition
<1>9. QED
  BY <1>1, <1>2, <1>3, <1>4, <1>5, <1>6, <1>7, <1>8

LEMMA WorkerRequestPart ==
  ASSUME ServiceInv,
         \/ Spawn \/ SpawnFails \/ NoSuchRoute \/ HandlerReturns \/ HandlerThrows
         \/ ShowErrorBox \/ DeleteRequest \/ Respond \/ SendFailsOnLinux
         \/ SendFailsOnWindows
  PROVE  RequestPart'
<1> USE ClientAssumption
    DEF ServiceInv, LoopInv, TypeOK, ControlInv, ServesClient, Serving, ControlPart,
        IdleInv, Between, WinsockInv, WinsockUp, InLoop,
        RequestPart, FreshInv, Untouched, ServedInv, AnsweredWhenClosed,
        OnlyRefusedRequestsLeak, Settled, AtWork, Aborting, endVars, netVars, reqVars,
        CallShutdown, ProcessEnds
<1>1. CASE Spawn
  BY <1>1 DEF Spawn
<1>2. CASE SpawnFails
  <2>1. CASE /\ pc = "spawn" /\ pc' = "close"
             /\ unserved' = unserved \cup {client}
             /\ UNCHANGED <<edition, after, endVars, netVars, client, sent, reply, heap>>
    <3>1. \A c \in Client : c # client => (Untouched(c) => Untouched(c)')
      BY <2>1
    <3>2. FreshInv'
      BY <2>1, <3>1
    <3>3. ServedInv' /\ AnsweredWhenClosed'
      BY <2>1
    <3>4. OnlyRefusedRequestsLeak'
      BY <2>1
    <3>5. QED
      BY <3>2, <3>3, <3>4
  <2>2. CASE ProcessEnds
    BY <1>2, <2>2 DEF SpawnFails
  <2>3. QED
    BY <1>2, <2>1, <2>2 DEF SpawnFails
<1>3. CASE NoSuchRoute
  BY <1>3 DEF NoSuchRoute
<1>4. CASE HandlerReturns
  BY <1>4 DEF HandlerReturns
<1>5. CASE HandlerThrows
  <2>1. pc' \in {"box", "send"}
    BY <1>5 DEF HandlerThrows
  <2>2. QED
    BY <1>5, <2>1 DEF HandlerThrows
<1>6. CASE ShowErrorBox
  BY <1>6 DEF ShowErrorBox
<1>7. CASE DeleteRequest
  <2>1. /\ pc = "delete" /\ pc' = "close" /\ heap' = heap \ {client}
        /\ UNCHANGED <<edition, after, abortNow, winsock, backlog, seen, gone, client,
                       sent, reply, unserved>>
    BY <1>7 DEF DeleteRequest
  <2>2. Settled /\ client \in Client /\ sent[client] \in Route
    BY <2>1
  <2>3. FreshInv'
    BY <2>1
  <2>4. ServedInv' /\ OnlyRefusedRequestsLeak'
    BY <2>1
  <2>5. AnsweredWhenClosed'
    BY <2>1, <2>2 DEF Route
  <2>6. QED
    BY <2>3, <2>4, <2>5
<1>8. CASE Respond
  <2>1. client \in Client /\ reply[client] = <<>>
    BY <1>8 DEF Respond
  <2>2. PICK s : reply' = [reply EXCEPT ![client] = Append(reply[client], s)]
    BY <1>8 DEF Respond
  <2>3. reply'[client] = <<s>> /\ \A c \in Client \ {client} : reply'[c] = reply[c]
    BY <2>1, <2>2
  <2>4. reply'[client] # <<>>
    BY <2>3
  <2>5. \A c \in Client : c # client => (Untouched(c) => Untouched(c)')
    BY <1>8, <2>3 DEF Respond
  <2>6. FreshInv'
    BY <1>8, <2>1, <2>5 DEF Respond
  <2>7. QED
    BY <1>8, <2>1, <2>3, <2>4, <2>6 DEF Respond
<1>9. CASE SendFailsOnLinux
  BY <1>9 DEF SendFailsOnLinux
<1>10. CASE SendFailsOnWindows
  BY <1>10 DEF SendFailsOnWindows
<1>11. QED
  BY <1>1, <1>2, <1>3, <1>4, <1>5, <1>6, <1>7, <1>8, <1>9, <1>10

LEMMA ShutdownRequestPart ==
  ASSUME ServiceInv, NEW a \in Actor, ShutdownStep(a)
  PROVE  RequestPart'
<1> USE ActorFacts
    DEF ServiceInv, LoopInv, TypeOK, ControlPart, WinsockInv,
        RequestPart, FreshInv, Untouched, ServedInv, AnsweredWhenClosed,
        OnlyRefusedRequestsLeak, Settled, AtWork, Aborting, MayRun, netVars, reqVars, GoesOn,
        ReturnsFrom, Finishes
<1>1. CASE StoreAbort(a)
  BY <1>1 DEF StoreAbort
<1>2. CASE TestListener(a)
  BY <1>2 DEF TestListener, endVars
<1>3. CASE CloseListener(a)
  BY <1>3 DEF CloseListener
<1>4. CASE ForgetListener(a)
  BY <1>4 DEF ForgetListener
<1>5. CASE Cleanup(a)
  BY <1>5 DEF Cleanup, CleanupCount
<1>6. QED
  BY <1>1, <1>2, <1>3, <1>4, <1>5 DEF ShutdownStep

LEMMA OutsideRequestPart ==
  ASSUME ServiceInv, Callers \/ TrayAborts \/ Exit \/ UNCHANGED vars
  PROVE  RequestPart'
<1> USE ActorFacts
    DEF ServiceInv, LoopInv, TypeOK, RequestPart, FreshInv, Untouched, ServedInv,
        AnsweredWhenClosed, OnlyRefusedRequestsLeak, Settled, AtWork, Aborting,
        endVars, netVars, reqVars
<1>1. CASE PeerLeaves
  BY <1>1 DEF PeerLeaves
<1>2. ASSUME NEW c \in Client, Connect(c)
      PROVE  RequestPart'
  <2>1. /\ c \notin seen /\ seen' = seen \cup {c} /\ backlog' = Append(backlog, c)
        /\ UNCHANGED <<edition, pc, after, abortNow, winsock, gone, client, sent, reply,
                       heap, unserved>>
    BY <1>2 DEF Connect
  <2>2. c # client /\ Untouched(c)
    BY <2>1
  <2>3. \A i \in 1..Len(backlog) : backlog[i] # c
    BY <2>1
  <2>4. /\ 1..Len(backlog') = 1..Len(backlog) \cup {Len(backlog) + 1}
        /\ backlog'[Len(backlog) + 1] = c
        /\ \A i \in 1..Len(backlog) : backlog'[i] = backlog[i]
    <3>1. backlog \in Seq(Client) /\ backlog' = Append(backlog, c)
      BY <2>1
    <3> HIDE DEF ServiceInv, LoopInv, TypeOK, RequestPart, FreshInv, ServedInv
    <3> QED
      BY <3>1
  <2>5. FreshInv'
    <3>1. \A i \in 1..Len(backlog') :
            backlog'[i] \in seen' /\ backlog'[i] # client' /\ Untouched(backlog'[i])
      <4>1. \A i \in 1..Len(backlog) :
              backlog[i] \in seen /\ backlog[i] # client /\ Untouched(backlog[i])
        OBVIOUS
      <4>2. UNCHANGED client /\ c \in seen' /\ \A d \in seen : d \in seen'
        BY <2>1
      <4> HIDE DEF ServiceInv, LoopInv, TypeOK, RequestPart, FreshInv, ServedInv,
                   Untouched
      <4> QED
        BY <2>2, <2>4, <4>1, <4>2
    <3>2. \A i, j \in 1..Len(backlog) : backlog[i] = backlog[j] => i = j
      OBVIOUS
    <3>3. \A i, j \in 1..Len(backlog') : backlog'[i] = backlog'[j] => i = j
      <4> HIDE DEF ServiceInv, LoopInv, TypeOK, RequestPart, FreshInv, ServedInv
      <4> QED
        BY <2>3, <2>4, <3>2
    <3>4. QED
      BY <2>1, <3>1, <3>3
  <2>6. QED
    BY <2>1, <2>5
<1>3. CASE TrayAborts
  BY <1>3 DEF TrayAborts
<1>4. CASE Exit
  BY <1>4 DEF Exit, ProcessEnds
<1>5. CASE UNCHANGED vars
  BY <1>5 DEF vars
<1>6. QED
  BY <1>1, <1>2, <1>3, <1>4, <1>5 DEF Callers

-----------------------------------------------------------------------------
(* The invariants.                                                         *)

LEMMA StepKeepsServiceInv == ServiceInv /\ [Next]_vars => ServiceInv'
<1> SUFFICES ASSUME ServiceInv, [Next]_vars PROVE ServiceInv'
  OBVIOUS
<1>1. LoopInv'
  BY StepKeepsLoopInv DEF ServiceInv
<1>2. CASE AcceptClient
  BY <1>1, <1>2, StartControlPart, AcceptRequestPart DEF ServiceInv
<1>3. CASE \/ Startup \/ OpenSocket \/ BindAndListen \/ AcceptFails
           \/ ReceiveNothing \/ Receive \/ CloseClient \/ LoopCondition
  BY <1>1, <1>3, StartControlPart, StartRequestPart DEF ServiceInv
<1>4. CASE \/ Spawn \/ SpawnFails \/ NoSuchRoute \/ HandlerReturns \/ HandlerThrows
           \/ ShowErrorBox \/ DeleteRequest \/ Respond \/ SendFailsOnLinux
           \/ SendFailsOnWindows
  BY <1>1, <1>4, WorkerControlPart, WorkerRequestPart DEF ServiceInv
<1>5. ASSUME NEW a \in Actor, ShutdownStep(a)
      PROVE  ServiceInv'
  BY <1>1, <1>5, ShutdownControlPart, ShutdownRequestPart DEF ServiceInv
<1>6. CASE Callers \/ TrayAborts \/ Exit \/ UNCHANGED vars
  BY <1>1, <1>6, OutsideControlPart, OutsideRequestPart DEF ServiceInv
<1>7. QED
  BY <1>2, <1>3, <1>4, <1>5, <1>6, ActorFacts DEF Next, Proceeds, Waits

\* The invariant holds in every reachable state.
THEOREM ServiceInvariant == Spec => []ServiceInv
<1>1. Init => ServiceInv
  BY InitTypes, InitControl, InitControlPart, InitRequestPart DEF ServiceInv, LoopInv
<1>2. QED
  BY <1>1, StepKeepsServiceInv, PTL DEF Spec

\* A connection is closed unanswered only if its peer has gone, its worker was
\* never created, or an abort had taken Winsock down.
THEOREM Answered == Spec => []AnsweredWhenClosed
<1>1. ServiceInv => AnsweredWhenClosed
  BY DEF ServiceInv, RequestPart
<1>2. QED
  BY <1>1, ServiceInvariant, PTL

\* handleRequest deletes every request it is given: what leaks is the requests
\* that start() itself refuses and those whose worker was never created.
THEOREM LeaksAreRefusals == Spec => []OnlyRefusedRequestsLeak
<1>1. ServiceInv => OnlyRefusedRequestsLeak
  BY DEF ServiceInv, RequestPart
<1>2. QED
  BY <1>1, ServiceInvariant, PTL

\* When start() returns, the listening socket is closed and forgotten, Winsock
\* is down and nobody is being served, whoever was first inside shutdown().
THEOREM Released == Spec => []ReleasedOnReturn
<1>1. ServiceInv => ReleasedOnReturn
  BY DEF ServiceInv, ControlPart, SocketInv, WinsockInv, IdleInv, Between, Opened,
         ReleasedOnReturn
<1>2. QED
  BY <1>1, ServiceInvariant, PTL

-----------------------------------------------------------------------------
(* WebServer implements SerialService.                                     *)

\* Where the service starts.
LEMMA InitImplements == Init => Service!ServiceInit
BY DEF Init, Service!ServiceInit

\* Steps that touch nothing the callers see.
LEMMA Unseen ==
  ASSUME lsock' = lsock \/ (lsock = "none" /\ lsock' = "open"),
         UNCHANGED <<backlog, seen, client, reply>>
  PROVE  UNCHANGED Service!svars
BY DEF Service!svars

\* Whoever closes the listening socket first shuts the service; closing it
\* once more changes nothing.
LEMMA ClosingShuts ==
  ASSUME TypeOK, SocketInv, lsock' = "closed", backlog' = <<>>,
         UNCHANGED <<seen, client, reply>>
  PROVE  [Service!ServiceNext]_(Service!svars)
<1>1. CASE lsock = "closed"
  BY <1>1, Unseen DEF SocketInv
<1>2. CASE lsock # "closed"
  BY <1>2 DEF TypeOK, Service!ServiceNext, Service!Shut
<1>3. QED
  BY <1>1, <1>2

LEMMA ProcessEndShuts ==
  ASSUME TypeOK, SocketInv, ProcessEnds
  PROVE  [Service!ServiceNext]_(Service!svars)
BY ClosingShuts DEF ProcessEnds, reqVars

LEMMA ShutdownImplements ==
  ASSUME ServiceInv, NEW a \in Actor, ShutdownStep(a)
  PROVE  [Service!ServiceNext]_(Service!svars)
<1>1. CASE StoreAbort(a)
  BY <1>1, Unseen DEF StoreAbort, netVars, reqVars
<1>2. CASE TestListener(a)
  BY <1>2, Unseen DEF TestListener, endVars, netVars, reqVars
<1>3. CASE CloseListener(a)
  BY <1>3, ClosingShuts DEF CloseListener, reqVars, ServiceInv, LoopInv, ControlPart
<1>4. CASE ForgetListener(a)
  BY <1>4, Unseen DEF ForgetListener, netVars, reqVars
<1>5. CASE Cleanup(a)
  <2>1. UNCHANGED <<seen, client, reply>>
    BY <1>5 DEF Cleanup, reqVars
  <2>2. \/ lsock' = "closed" /\ backlog' = <<>>
        \/ UNCHANGED <<lsock, backlog>>
    BY <1>5 DEF Cleanup
  <2>3. QED
    BY <2>1, <2>2, ClosingShuts, Unseen DEF ServiceInv, LoopInv, ControlPart
<1>6. QED
  BY <1>1, <1>2, <1>3, <1>4, <1>5 DEF ShutdownStep

\* Opening the socket and the turns of the loop.
LEMMA StartImplements ==
  ASSUME ServiceInv,
         \/ Startup \/ OpenSocket \/ BindAndListen \/ AcceptClient \/ AcceptFails
         \/ ReceiveNothing \/ Receive \/ CloseClient \/ LoopCondition
  PROVE  [Service!ServiceNext]_(Service!svars)
<1>1. CASE Startup
  BY <1>1, Unseen DEF Startup, netVars, reqVars
<1>2. CASE OpenSocket
  BY <1>2, Unseen DEF OpenSocket, netVars, reqVars, CallShutdown, ServiceInv,
     ControlPart, SocketInv
<1>3. CASE BindAndListen
  <2>1. UNCHANGED <<backlog, seen, client, reply>>
    BY <1>3 DEF BindAndListen, netVars, reqVars
  <2>2. CASE lsock = "open" /\ lsock' = "listening"
    BY <2>1, <2>2 DEF Service!ServiceNext, Service!Open
  <2>3. CASE lsock' = lsock
    BY <2>1, <2>3, Unseen
  <2>4. QED
    BY <1>3, <2>2, <2>3 DEF BindAndListen
<1>4. CASE AcceptClient
  <2>1. /\ lsock = "listening" /\ lsock' = lsock
        /\ client = NoClient /\ backlog # <<>>
        /\ client' = Head(backlog) /\ backlog' = Tail(backlog)
        /\ UNCHANGED <<seen, reply>>
    BY <1>4 DEF AcceptClient, endVars, reqVars, ServiceInv, ControlPart, IdleInv, Between
  <2>2. QED
    BY <2>1 DEF Service!ServiceNext, Service!Serve
<1>5. CASE AcceptFails
  BY <1>5, Unseen DEF AcceptFails, endVars, netVars, reqVars
<1>6. CASE Receive
  BY <1>6, Unseen DEF Receive, endVars, netVars
<1>7. CASE ReceiveNothing \/ CloseClient
  <2>1. /\ client # NoClient /\ client' = NoClient
        /\ UNCHANGED <<lsock, backlog, seen, reply>>
    BY <1>7, ClientAssumption
       DEF ReceiveNothing, CloseClient, endVars, netVars, reqVars, ServiceInv, LoopInv,
           ControlInv, ServesClient, Serving
  <2>2. QED
    BY <2>1 DEF Service!ServiceNext, Service!Release
<1>8. CASE LoopCondition
  BY <1>8, Unseen DEF LoopCondition, endVars, netVars, reqVars
<1>9. QED
  BY <1>1, <1>2, <1>3, <1>4, <1>5, <1>6, <1>7, <1>8

\* The worker answers once.
LEMMA WorkerImplements ==
  ASSUME ServiceInv,
         \/ Spawn \/ SpawnFails \/ NoSuchRoute \/ HandlerReturns \/ HandlerThrows
         \/ ShowErrorBox \/ DeleteRequest \/ Respond \/ SendFailsOnLinux
         \/ SendFailsOnWindows
  PROVE  [Service!ServiceNext]_(Service!svars)
<1> USE DEF endVars, netVars, reqVars
<1>0. TypeOK /\ SocketInv
  BY DEF ServiceInv, LoopInv, ControlPart
<1>1. CASE Respond
  <2>1. /\ client \in Client /\ client # NoClient
        /\ reply \in [Client -> Seq(Status)] /\ reply[client] = <<>>
    BY <1>1, ClientAssumption
       DEF Respond, ServiceInv, LoopInv, TypeOK, ControlInv, ServesClient, Serving,
           RequestPart, ServedInv
  <2>2. PICK s : reply' = [reply EXCEPT ![client] = Append(reply[client], s)]
    BY <1>1 DEF Respond
  <2>3. Len(reply[client]) = 0 /\ Len(reply'[client]) = 1
    BY <2>1, <2>2
  <2>4. [c \in Client |-> Len(reply'[c])]
          = [[c \in Client |-> Len(reply[c])] EXCEPT ![client] = 1]
    BY <2>1, <2>2, <2>3
  <2>5. UNCHANGED <<lsock, backlog, seen, client>>
    BY <1>1 DEF Respond
  <2>6. QED
    BY <2>1, <2>3, <2>4, <2>5 DEF Service!ServiceNext, Service!Answer
<1>2. CASE SpawnFails
  BY <1>0, <1>2, Unseen, ProcessEndShuts DEF SpawnFails
<1>3. CASE ShowErrorBox
  BY <1>0, <1>3, Unseen, ProcessEndShuts DEF ShowErrorBox
<1>4. CASE SendFailsOnLinux
  BY <1>0, <1>4, Unseen, ProcessEndShuts DEF SendFailsOnLinux
<1>5. CASE Spawn \/ NoSuchRoute \/ HandlerThrows \/ DeleteRequest
  BY <1>5, Unseen DEF Spawn, NoSuchRoute, HandlerThrows, DeleteRequest
<1>6. CASE HandlerReturns \/ SendFailsOnWindows
  BY <1>6, Unseen DEF HandlerReturns, SendFailsOnWindows
<1>7. QED
  BY <1>1, <1>2, <1>3, <1>4, <1>5, <1>6

\* The callers, the tray thread's first step and the end of the process.
LEMMA OutsideImplements ==
  ASSUME ServiceInv, Callers \/ TrayAborts \/ Exit \/ UNCHANGED vars
  PROVE  [Service!ServiceNext]_(Service!svars)
<1> USE DEF endVars, netVars, reqVars
<1>1. CASE PeerLeaves
  BY <1>1, Unseen DEF PeerLeaves
<1>2. ASSUME NEW c \in Client, Connect(c)
      PROVE  [Service!ServiceNext]_(Service!svars)
  <2>1. Service!Arrive(c)
    BY <1>2 DEF Connect, Service!Arrive
  <2>2. QED
    BY <2>1 DEF Service!ServiceNext
<1>3. CASE TrayAborts
  BY <1>3, Unseen DEF TrayAborts
<1>4. CASE Exit
  BY <1>4, ProcessEndShuts DEF Exit, ServiceInv, LoopInv, ControlPart
<1>5. CASE UNCHANGED vars
  BY <1>5, Unseen DEF vars
<1>6. QED
  BY <1>1, <1>2, <1>3, <1>4, <1>5 DEF Callers

LEMMA StepImplements ==
  ASSUME ServiceInv, [Next]_vars
  PROVE  [Service!ServiceNext]_(Service!svars)
<1>1. CASE \/ Startup \/ OpenSocket \/ BindAndListen \/ AcceptClient \/ AcceptFails
           \/ ReceiveNothing \/ Receive \/ CloseClient \/ LoopCondition
  BY <1>1, StartImplements
<1>2. CASE \/ Spawn \/ SpawnFails \/ NoSuchRoute \/ HandlerReturns \/ HandlerThrows
           \/ ShowErrorBox \/ DeleteRequest \/ Respond \/ SendFailsOnLinux
           \/ SendFailsOnWindows
  BY <1>2, WorkerImplements
<1>3. ASSUME NEW a \in Actor, ShutdownStep(a)
      PROVE  [Service!ServiceNext]_(Service!svars)
  BY <1>3, ShutdownImplements
<1>4. CASE Callers \/ TrayAborts \/ Exit \/ UNCHANGED vars
  BY <1>4, OutsideImplements
<1>5. QED
  BY <1>1, <1>2, <1>3, <1>4, ActorFacts DEF Next, Proceeds, Waits

\* start(), its worker and the tray thread's abort together serve the callers
\* as SerialService promises: one at a time, in the order they came, each
\* answered once at most and only while it is served, and nobody after the
\* listening socket is closed.
THEOREM Implements == Spec => ImplementsService
<1>1. ServiceInv /\ [Next]_vars => [Service!ServiceNext]_(Service!svars)
  BY StepImplements
<1>2. QED
  BY <1>1, InitImplements, ServiceInvariant, PTL
     DEF Spec, ImplementsService, Service!ServiceSpec
=============================================================================
