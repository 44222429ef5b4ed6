-------------------------- MODULE WebServerProofs --------------------------
(***************************************************************************)
(* Proofs about WebServer, for any set of connections and either edition:  *)
(* type correctness, and what an abort does to the accept loop.            *)
(***************************************************************************)
EXTENDS WebServer, TLAPS

\* The server thread is between bindAndListen and the end of the loop.
InLoop == {"accept", "recv", "refuse", "spawn", "handler", "box", "send",
           "sendbox", "delete", "close", "loop"}

\* The tray thread has stored abortNow, or has returned from serverAbort().
TrayPastStore ==
  shut["tray"] \notin {"no", "store"}

\* The worker has stored abortNow and is inside shutdown() for /abort.
WorkerPastStore ==
  pc = "shutdown" /\ after = "send" /\ shut["server"] # "store"

\* A connection is being served, or will be when shutdown() returns.
Serving ==
  \/ pc \in {"recv", "refuse", "spawn", "handler", "box", "send", "sendbox",
            "delete", "close"}
  \/ pc = "shutdown" /\ after = "send"

ServesClient == Serving => client \in Client

\* When the worker is about to respond, a status has been set.
HasResponse ==
  pc \in {"box", "send"} \/ (pc = "shutdown" /\ after = "send") => response \in Status

\* NeverSpinsOnClosedListener made inductive: whoever can close the listening
\* socket while the loop runs has stored abortNow before.
AbortFirst ==
  /\ TrayPastStore => abortNow
  /\ WorkerPastStore => abortNow
  /\ pc \in InLoop /\ lsock # "listening" => abortNow

\* AtMostOneLateClient made inductive: after a late connection abortNow is
\* set, so the loop condition does not lead back to accept().
LateOnce ==
  /\ pc \in {"init", "socket", "listen", "accept"} => late = 0
  /\ late > 0 => abortNow
  /\ late <= 1

ControlInv == ServesClient /\ HasResponse /\ AbortFirst /\ LateOnce

LoopInv == TypeOK /\ ControlInv

-----------------------------------------------------------------------------
LEMMA ActorFacts == Actor = {"server", "tray"}
BY DEF Actor

LEMMA StutterTypes == TypeOK /\ UNCHANGED vars => TypeOK'
BY DEF TypeOK, Idle, Over, Actor, Received, Route, Status, Failure, vars,
       endVars, netVars, reqVars

LEMMA EmptyBacklog == <<>> \in Seq(Client) /\ <<>> \in Seq(Status)
OBVIOUS

LEMMA InitTypes == Init => TypeOK
<1> SUFFICES ASSUME Init PROVE TypeOK
  OBVIOUS
<1>1. backlog \in Seq(Client) /\ reply \in [Client -> Seq(Status)]
  BY EmptyBacklog DEF Init
<1>2. QED
  BY <1>1 DEF Init, TypeOK, Idle, Over

\* TypeOK in the three parts a step of shutdown() treats differently: where
\* the threads stand, the flag and the sockets, and the requests.
ControlTypes ==
  /\ pc \in Idle \cup Over \cup
       {"init", "socket", "listen", "recv", "refuse", "spawn", "handler",
        "box", "send", "sendbox", "delete", "close", "shutdown"}
  /\ after \in {"send", "returned", "threw"}
  /\ shut \in [Actor -> {"no", "store", "test", "close", "forget", "cleanup",
                        "done"}]

EndTypes ==
  /\ abortNow \in BOOLEAN
  /\ listenFd \in BOOLEAN
  /\ lsock \in {"none", "open", "listening", "closed"}
  /\ winsock \in Nat
  /\ backlog \in Seq(Client)

RequestTypes ==
  /\ edition \in Editions
  /\ seen \in SUBSET Client /\ gone \in SUBSET Client
  /\ heap \in SUBSET Client /\ unserved \in SUBSET Client
  /\ client \in Client \cup {NoClient}
  /\ sent \in [Client -> Received \cup {"pending"}]
  /\ response \in Status \cup {"unset"}
  /\ reply \in [Client -> Seq(Status)]
  /\ late \in Nat

LEMMA TypeParts == TypeOK <=> ControlTypes /\ EndTypes /\ RequestTypes
BY DEF TypeOK, ControlTypes, EndTypes, RequestTypes

LEMMA TypePartsNext == ControlTypes' /\ EndTypes' /\ RequestTypes' => TypeOK'
BY DEF TypeOK, ControlTypes, EndTypes, RequestTypes

\* Whichever way a step of shutdown() ends, the thread stands somewhere.
LEMMA MovesTypes ==
  ASSUME ControlTypes, NEW a \in Actor, after' = after,
         \/ \E point \in {"store", "test", "close", "forget", "cleanup"} :
              GoesOn(a, point)
         \/ ReturnsFrom(a)
  PROVE  ControlTypes'
<1>1. pc' \in {pc, after}
  BY DEF GoesOn, ReturnsFrom
<1>2. shut' \in [Actor -> {"no", "store", "test", "close", "forget", "cleanup",
                          "done"}]
  BY DEF ControlTypes, GoesOn, ReturnsFrom
<1>3. QED
  BY <1>1, <1>2 DEF ControlTypes, Over

\* The steps of serverAbort() and shutdown() keep every variable's type.
LEMMA ShutdownTypes ==
  ASSUME TypeOK, NEW a \in Actor, ShutdownStep(a)
  PROVE  TypeOK'
<1>1. ControlTypes /\ EndTypes /\ RequestTypes
  BY TypeParts
<1>2. RequestTypes'
  <2>1. UNCHANGED <<edition, seen, gone, heap, unserved, client, sent, response,
                    reply, late>>
    BY DEF ShutdownStep, StoreAbort, TestListener, CloseListener,
           ForgetListener, Cleanup, endVars, netVars, reqVars
  <2>2. QED
    BY <1>1, <2>1 DEF RequestTypes
<1>3. ControlTypes'
  <2>1. after' = after
    BY DEF ShutdownStep, StoreAbort, TestListener, CloseListener,
           ForgetListener, Cleanup
  <2>2. \/ \E point \in {"store", "test", "close", "forget", "cleanup"} :
              GoesOn(a, point)
        \/ ReturnsFrom(a)
    BY DEF ShutdownStep, StoreAbort, TestListener, CloseListener,
           ForgetListener, Cleanup, Finishes
  <2>3. QED
    BY <1>1, <2>1, <2>2, MovesTypes
<1>4. EndTypes'
  <2>1. CASE StoreAbort(a)
    BY <1>1, <2>1 DEF StoreAbort, EndTypes, netVars
  <2>2. CASE TestListener(a)
    BY <1>1, <2>2 DEF TestListener, EndTypes, endVars, netVars
  <2>3. CASE CloseListener(a)
    BY <1>1, <2>3, EmptyBacklog DEF CloseListener, EndTypes, netVars
  <2>4. CASE ForgetListener(a)
    BY <1>1, <2>4 DEF ForgetListener, EndTypes, netVars
  <2>5. CASE Cleanup(a)
    <3>1. winsock' \in Nat
      BY <1>1, <2>5 DEF Cleanup, CleanupCount, EndTypes
    <3>2. lsock' \in {lsock, "closed"} /\ backlog' \in {backlog, <<>>}
      BY <2>5 DEF Cleanup
    <3>3. UNCHANGED <<abortNow, listenFd>>
      BY <2>5 DEF Cleanup
    <3>4. QED
      BY <1>1, <3>1, <3>2, <3>3, EmptyBacklog DEF EndTypes
  <2>6. QED
    BY <2>1, <2>2, <2>3, <2>4, <2>5 DEF ShutdownStep
<1>5. QED
  BY <1>2, <1>3, <1>4, TypePartsNext

\* The end of the process closes the listening socket and nothing else.
LEMMA ProcessEndsTypes == TypeOK /\ ProcessEnds => TypeOK'
BY EmptyBacklog DEF ProcessEnds, TypeOK, Idle, Over, netVars, reqVars

\* The steps of start() keep every variable's type.
LEMMA StartTypes ==
  ASSUME TypeOK, ServesClient,
         \/ Startup \/ OpenSocket \/ BindAndListen \/ AcceptClient \/ AcceptFails
         \/ ReceiveNothing \/ Receive \/ CloseClient \/ LoopCondition
  PROVE  TypeOK'
<1> USE ActorFacts
    DEF TypeOK, Idle, Over, endVars, netVars, reqVars, CallShutdown
<1>1. CASE Startup
  BY <1>1 DEF Startup
<1>2. CASE OpenSocket
  BY <1>2 DEF OpenSocket
<1>3. CASE BindAndListen
  BY <1>3 DEF BindAndListen
<1>4. CASE AcceptClient
  <2>1. Head(backlog) \in Client /\ Tail(backlog) \in Seq(Client)
    BY <1>4 DEF AcceptClient
  <2>2. late' \in Nat
    BY <1>4 DEF AcceptClient
  <2>3. QED
    BY <1>4, <2>1, <2>2 DEF AcceptClient
<1>5. CASE AcceptFails
  BY <1>5 DEF AcceptFails
<1>6. CASE ReceiveNothing
  BY <1>6 DEF ReceiveNothing, Received
<1>7. CASE Receive
  <2>1. client \in Client
    BY <1>7 DEF Receive, ServesClient, Serving
  <2>2. PICK d \in Received \ {"nothing"} :
          /\ sent' = [sent EXCEPT ![client] = d]
          /\ pc' = CASE d = "refused" -> "refuse"
                     [] d = "unparsable" -> "threw"
                     [] OTHER -> "spawn"
    BY <1>7 DEF Receive
  <2>3. pc' \in {"refuse", "threw", "spawn"}
    BY <2>2
  <2>4. sent' \in [Client -> Received \cup {"pending"}]
    BY <2>2
  <2>5. QED
    BY <1>7, <2>1, <2>3, <2>4 DEF Receive
<1>8. CASE CloseClient
  BY <1>8 DEF CloseClient
<1>9. CASE LoopCondition
  BY <1>9 DEF LoopCondition
<1>10. QED
  BY <1>1, <1>2, <1>3, <1>4, <1>5, <1>6, <1>7, <1>8, <1>9

\* The steps of the worker and of respondWith keep every variable's type.
LEMMA WorkerTypes ==
  ASSUME TypeOK, ServesClient, HasResponse,
         \/ Spawn \/ SpawnFails \/ NoSuchRoute \/ HandlerReturns \/ HandlerThrows
         \/ ShowErrorBox \/ DeleteRequest \/ Respond \/ SendFailsOnLinux
         \/ SendFailsOnWindows
  PROVE  TypeOK'
<1> USE ActorFacts, ProcessEndsTypes
    DEF TypeOK, Idle, Over, Status, Failure, endVars, netVars, reqVars,
        CallShutdown
<1>1. CASE Spawn
  BY <1>1 DEF Spawn
<1>2. CASE SpawnFails
  BY <1>2 DEF SpawnFails, ServesClient, Serving
<1>3. CASE NoSuchRoute
  BY <1>3 DEF NoSuchRoute
<1>4. CASE HandlerReturns
  BY <1>4 DEF HandlerReturns
<1>5. CASE HandlerThrows
  <2>1. PICK s \in Failure :
          /\ response' = s
          /\ pc' \in IF s = "500" THEN {"box", "send"} ELSE {"box"}
    BY <1>5 DEF HandlerThrows
  <2>2. pc' \in {"box", "send"}
    BY <2>1
  <2>3. QED
    BY <1>5, <2>1, <2>2 DEF HandlerThrows
<1>6. CASE ShowErrorBox
  BY <1>6 DEF ShowErrorBox
<1>7. CASE DeleteRequest
  BY <1>7 DEF DeleteRequest
<1>8. CASE Respond
  <2>1. client \in Client
    BY <1>8 DEF Respond, ServesClient, Serving
  <2>2. PICK s \in Status : reply' = [reply EXCEPT ![client] = Append(@, s)]
    BY <1>8 DEF Respond, HasResponse
  <2>3. Append(reply[client], s) \in Seq(Status)
    BY <2>1
  <2>4. reply' \in [Client -> Seq(Status)]
    BY <2>2, <2>3
  <2>5. QED
    BY <1>8, <2>4 DEF Respond
<1>9. CASE SendFailsOnLinux
  BY <1>9 DEF SendFailsOnLinux
<1>10. CASE SendFailsOnWindows
  BY <1>10 DEF SendFailsOnWindows
<1>11. QED
  BY <1>1, <1>2, <1>3, <1>4, <1>5, <1>6, <1>7, <1>8, <1>9, <1>10

\* What the callers and the tray thread's first step do.
LEMMA OutsideTypes ==
  ASSUME TypeOK, Callers \/ TrayAborts \/ Exit
  PROVE  TypeOK'
<1> USE ActorFacts DEF TypeOK, Idle, Over, endVars, reqVars, netVars
<1>1. CASE PeerLeaves
  BY <1>1 DEF PeerLeaves
<1>2. ASSUME NEW c \in Client, Connect(c)
      PROVE  TypeOK'
  <2>1. Append(backlog, c) \in Seq(Client)
    OBVIOUS
  <2>2. QED
    BY <1>2, <2>1 DEF Connect
<1>3. CASE TrayAborts
  BY <1>3 DEF TrayAborts
<1>4. CASE Exit
  BY <1>4, ProcessEndsTypes DEF Exit
<1>5. QED
  BY <1>1, <1>2, <1>3, <1>4 DEF Callers

-----------------------------------------------------------------------------
(* The control invariant.                                                  *)

LEMMA StartControl ==
  ASSUME LoopInv,
         \/ Startup \/ OpenSocket \/ BindAndListen \/ AcceptClient \/ AcceptFails
         \/ ReceiveNothing \/ Receive \/ CloseClient \/ LoopCondition
  PROVE  ControlInv'
<1> USE ActorFacts
    DEF LoopInv, ControlInv, ServesClient, Serving, HasResponse, AbortFirst,
        TrayPastStore, WorkerPastStore, InLoop, LateOnce, TypeOK,
        endVars, netVars, reqVars, CallShutdown
<1>1. CASE Startup
  BY <1>1 DEF Startup
<1>2. CASE OpenSocket
  BY <1>2 DEF OpenSocket
<1>3. CASE BindAndListen
  BY <1>3 DEF BindAndListen
<1>4. CASE AcceptClient
  <2>1. client' \in Client
    BY <1>4 DEF AcceptClient
  <2>2. QED
    BY <1>4, <2>1 DEF AcceptClient
<1>5. CASE AcceptFails
  BY <1>5 DEF AcceptFails
<1>6. CASE ReceiveNothing
  BY <1>6 DEF ReceiveNothing
<1>7. CASE Receive
  <2>1. pc' \in {"refuse", "threw", "spawn"}
    BY <1>7 DEF Receive
  <2>2. QED
    BY <1>7, <2>1 DEF Receive
<1>8. CASE CloseClient
  BY <1>8 DEF CloseClient
<1>9. CASE LoopCondition
  BY <1>9 DEF LoopCondition
<1>10. QED
  BY <1>1, <1>2, <1>3, <1>4, <1>5, <1>6, <1>7, <1>8, <1>9

LEMMA WorkerControl ==
  ASSUME LoopInv,
         \/ Spawn \/ SpawnFails \/ NoSuchRoute \/ HandlerReturns \/ HandlerThrows
         \/ ShowErrorBox \/ DeleteRequest \/ Respond \/ SendFailsOnLinux
         \/ SendFailsOnWindows
  PROVE  ControlInv'
<1> USE ActorFacts
    DEF LoopInv, ControlInv, ServesClient, Serving, HasResponse, AbortFirst,
        TrayPastStore, WorkerPastStore, InLoop, LateOnce, TypeOK, Status, Failure,
        endVars, netVars, reqVars, CallShutdown, ProcessEnds
<1>1. CASE Spawn
  BY <1>1 DEF Spawn
<1>2. CASE SpawnFails
  BY <1>2 DEF SpawnFails
<1>3. CASE NoSuchRoute
  BY <1>3 DEF NoSuchRoute
<1>4. CASE HandlerReturns
  BY <1>4 DEF HandlerReturns
<1>5. CASE HandlerThrows
  <2>1. pc' \in {"box", "send"} /\ response' \in Status
    BY <1>5 DEF HandlerThrows
  <2>2. QED
    BY <1>5, <2>1 DEF HandlerThrows
<1>6. CASE ShowErrorBox
  BY <1>6 DEF ShowErrorBox
<1>7. CASE DeleteRequest
  BY <1>7 DEF DeleteRequest
<1>8. CASE Respond
  BY <1>8 DEF Respond
<1>9. CASE SendFailsOnLinux
  BY <1>9 DEF SendFailsOnLinux
<1>10. CASE SendFailsOnWindows
  BY <1>10 DEF SendFailsOnWindows
<1>11. QED
  BY <1>1, <1>2, <1>3, <1>4, <1>5, <1>6, <1>7, <1>8, <1>9, <1>10

LEMMA ShutdownControl ==
  ASSUME LoopInv, NEW a \in Actor, ShutdownStep(a)
  PROVE  ControlInv'
<1> USE ActorFacts
    DEF LoopInv, ControlInv, ServesClient, Serving, HasResponse, AbortFirst,
        TrayPastStore, WorkerPastStore, InLoop, LateOnce, TypeOK, MayRun,
        netVars, reqVars, GoesOn, ReturnsFrom, Finishes
<1>1. CASE StoreAbort(a)
  BY <1>1 DEF StoreAbort
<1>2. CASE TestListener(a)
  BY <1>2 DEF TestListener, endVars
<1>3. CASE CloseListener(a)
  BY <1>3 DEF CloseListener
<1>4. CASE ForgetListener(a)
  BY <1>4 DEF ForgetListener
<1>5. CASE Cleanup(a)
  BY <1>5 DEF Cleanup
<1>6. QED
  BY <1>1, <1>2, <1>3, <1>4, <1>5 DEF ShutdownStep

LEMMA OutsideControl ==
  ASSUME LoopInv, Callers \/ TrayAborts \/ Exit
  PROVE  ControlInv'
<1> USE ActorFacts
    DEF LoopInv, ControlInv, ServesClient, Serving, HasResponse, AbortFirst,
        TrayPastStore, WorkerPastStore, InLoop, LateOnce, TypeOK,
        endVars, netVars, reqVars
<1>1. CASE PeerLeaves
  BY <1>1 DEF PeerLeaves
<1>2. ASSUME NEW c \in Client, Connect(c)
      PROVE  ControlInv'
  BY <1>2 DEF Connect
<1>3. CASE TrayAborts
  BY <1>3 DEF TrayAborts
<1>4. CASE Exit
  BY <1>4 DEF Exit, ProcessEnds
<1>5. QED
  BY <1>1, <1>2, <1>3, <1>4 DEF Callers

LEMMA InitControl == Init => ControlInv
BY ActorFacts DEF Init, ControlInv, ServesClient, Serving, HasResponse, AbortFirst,
       TrayPastStore, WorkerPastStore, InLoop, LateOnce

LEMMA StutterKeepsLoopInv == LoopInv /\ UNCHANGED vars => LoopInv'
<1> SUFFICES ASSUME LoopInv, UNCHANGED vars PROVE LoopInv'
  OBVIOUS
<1>1. TypeOK'
  BY StutterTypes DEF LoopInv
<1>2. ControlInv'
  BY DEF LoopInv, ControlInv, ServesClient, Serving, HasResponse,
       AbortFirst, TrayPastStore, WorkerPastStore, InLoop, LateOnce, vars,
       endVars, netVars, reqVars
<1>3. QED
  BY <1>1, <1>2 DEF LoopInv

\* Every step of the server, of the tray thread and of the callers keeps the
\* invariant.
LEMMA StepKeepsLoopInv == LoopInv /\ [Next]_vars => LoopInv'
<1> SUFFICES ASSUME LoopInv, [Next]_vars PROVE LoopInv'
  OBVIOUS
<1>1. CASE UNCHANGED vars
  BY <1>1, StutterKeepsLoopInv
<1>2. CASE \/ Startup \/ OpenSocket \/ BindAndListen \/ AcceptClient \/ AcceptFails
           \/ ReceiveNothing \/ Receive \/ CloseClient \/ LoopCondition
  BY <1>2, StartTypes, StartControl DEF LoopInv, ControlInv
<1>3. CASE \/ Spawn \/ SpawnFails \/ NoSuchRoute \/ HandlerReturns \/ HandlerThrows
           \/ ShowErrorBox \/ DeleteRequest \/ Respond \/ SendFailsOnLinux
           \/ SendFailsOnWindows
  BY <1>3, WorkerTypes, WorkerControl DEF LoopInv, ControlInv
<1>4. ASSUME NEW a \in Actor, ShutdownStep(a)
      PROVE  LoopInv'
  BY <1>4, ShutdownTypes, ShutdownControl DEF LoopInv, ControlInv
<1>5. CASE Callers \/ TrayAborts \/ Exit
  BY <1>5, OutsideTypes, OutsideControl DEF LoopInv, ControlInv
<1>6. QED
  BY <1>1, <1>2, <1>3, <1>4, <1>5, ActorFacts DEF Next, Proceeds, Waits

\* The invariant holds in every reachable state.
THEOREM LoopInvariant == Spec => []LoopInv
<1>1. Init => LoopInv
  BY InitTypes, InitControl DEF LoopInv
<1>2. QED
  BY <1>1, StepKeepsLoopInv, PTL DEF Spec

\* Every variable keeps its type, however many connections there are and on
\* either edition.
THEOREM TypeCorrect == Spec => []TypeOK
BY LoopInvariant, PTL DEF LoopInv

\* start() never meets a closed listening socket without also seeing that an
\* abort was recorded, wherever the tray thread is inside serverAbort().
THEOREM ClosedListenerMeansAbort == Spec => []NeverSpinsOnClosedListener
<1>1. LoopInv => NeverSpinsOnClosedListener
  BY DEF LoopInv, ControlInv, AbortFirst, InLoop, NeverSpinsOnClosedListener, Idle
<1>2. QED
  BY <1>1, LoopInvariant, PTL

\* After an abort is recorded, start() takes up one more connection at most,
\* whoever aborts and however the two shutdown() calls interleave.
THEOREM OneLateClient == Spec => []AtMostOneLateClient
<1>1. LoopInv => AtMostOneLateClient
  BY DEF LoopInv, ControlInv, LateOnce, AtMostOneLateClient
<1>2. QED
  BY <1>1, LoopInvariant, PTL
=============================================================================
