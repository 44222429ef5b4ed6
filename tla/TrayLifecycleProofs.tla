------------------------ MODULE TrayLifecycleProofs ------------------------
(***************************************************************************)
(* Proofs about TrayLifecycle for both Windows editions and any number of  *)
(* messages: how the tray thread returns, and when main() may read the     *)
(* window handle from a stack that is gone.                                *)
(*                                                                         *)
(* The window connects the two threads: it is destroyed only after         *)
(* windowProc has stopped the server through the pointer copied into it,   *)
(* and a thread that has created it returns only after destroying it.      *)
(***************************************************************************)
EXTENDS TrayLifecycle, TLAPS

\* Who destroys the window has been through windowProc's WM_DESTROY.
DestroyedAfterStop ==
  window = "destroyed" => /\ userData /\ abortNow /\ ~icon
                          /\ tray \in {"check", "returned"}

\* What the tray thread has done so far, from where it stands.
WindowFacts ==
  /\ tray = "create" => window = "none"
  /\ tray \in {"link", "expose", "icon", "loading", "loop"} => window = "open"
  /\ tray = "check" => window # "none"
  /\ tray = "returned" => window # "open"
  /\ hwndPtr => window # "none"
  /\ userData => server
  /\ stale => tray = "returned"

TrayInv ==
  /\ TypeOK
  /\ DestroyedAfterStop
  /\ WindowFacts
  /\ TrayReturnsClean
  /\ StaleReadNeedsLink

-----------------------------------------------------------------------------
\* Before either thread has done anything.
LEMMA TrayInit == Init => TrayInv
<1> SUFFICES ASSUME Init PROVE TrayInv
  OBVIOUS
<1>1. queue \in Seq(Message) BY DEF Init
<1>2. outside \in 0..MaxMessages BY MaxMessagesAssumption DEF Init
<1> QED
  BY <1>1, <1>2
     DEF Init, TrayInv, TypeOK, MainPc, TrayPc, DestroyedAfterStop, WindowFacts,
         TrayReturnsClean, StaleReadNeedsLink

\* What is said of the rest of the process when it ends is unchanged.
LEMMA EndsKeeps ==
  ASSUME TrayInv, NEW how \in {"exited", "killed", "crashed", "terminated"}, Ends(how)
  PROVE  TrayInv'
BY DEF Ends, shared, ui, abortVars, TrayInv, TypeOK, DestroyedAfterStop, WindowFacts,
       TrayReturnsClean, StaleReadNeedsLink

\* main() and the worker keep the invariant.
LEMMA MainKeeps == ASSUME TrayInv, MainStep PROVE TrayInv'
<1> USE DEF TrayInv, TypeOK, MainPc, shared, ui, abortVars, DestroyedAfterStop,
            WindowFacts, TrayReturnsClean, StaleReadNeedsLink
<1>0. ASSUME CatchClause PROVE TrayInv'
  BY <1>0, EndsKeeps DEF CatchClause
<1>1. CASE Scan BY <1>1, EndsKeeps DEF Scan
<1>2. CASE PublishServer BY <1>2 DEF PublishServer
<1>3. CASE Announce BY <1>3 DEF Announce, ReadsHwnd
<1>4. CASE OnlineBox BY <1>0, <1>4 DEF OnlineBox
<1>5. CASE OpenListener BY <1>5 DEF OpenListener
<1>6. CASE OpenFails BY <1>0, <1>6 DEF OpenFails
<1>7. CASE ServerReturns BY <1>7 DEF ServerReturns
<1>8. CASE PostClose
  <2>1. queue' \in Seq(Message)
    <3>1. "close" \in Message BY DEF Message
    <3> QED BY <1>8, <3>1 DEF PostClose
  <2> QED BY <1>8, <2>1 DEF PostClose, ReadsHwnd
<1>9. CASE Leave BY <1>9, EndsKeeps DEF Leave
<1>10. CASE TakeUp BY <1>10 DEF TakeUp
<1>11. CASE AbortRoute BY <1>11 DEF AbortRoute, Aborts
<1>12. CASE Served BY <1>12 DEF Served
<1>13. CASE ServeThrows BY <1>0, <1>13 DEF ServeThrows
<1> QED
  BY <1>1, <1>2, <1>3, <1>4, <1>5, <1>6, <1>7, <1>8, <1>9, <1>10, <1>11, <1>12, <1>13
     DEF MainStep, Proceeds, Serves

\* The tray thread keeps the invariant.
LEMMA TrayKeeps == ASSUME TrayInv, TrayStep PROVE TrayInv'
<1> USE DEF TrayInv, TypeOK, TrayPc, shared, ui, abortVars, DestroyedAfterStop,
            WindowFacts, TrayReturnsClean, StaleReadNeedsLink, StopsServer, Aborts
<1>0. queue # <<>> => Tail(queue) \in Seq(Message) OBVIOUS
<1>1. CASE CreateTrayWindow BY <1>1 DEF CreateTrayWindow
<1>2. CASE LinkServer BY <1>2 DEF LinkServer
<1>3. CASE ExposeHwnd BY <1>3 DEF ExposeHwnd
<1>4. CASE AddTrayIcon BY <1>4 DEF AddTrayIcon
<1>5. CASE ShowLoading BY <1>5, EndsKeeps DEF ShowLoading
<1>6. CASE DispatchClose
  <2>1. CASE userData
    <3>1. queue' \in Seq(Message) /\ process' = process /\ outside' = outside
      BY <1>0, <1>6, <2>1 DEF DispatchClose
    <3>2. TypeOK' BY <1>6, <2>1, <3>1 DEF DispatchClose
    <3>3. DestroyedAfterStop' BY <1>6, <2>1 DEF DispatchClose
    <3>4. WindowFacts' BY <1>6, <2>1 DEF DispatchClose
    <3>5. TrayReturnsClean' BY <1>6, <2>1 DEF DispatchClose
    <3>6. StaleReadNeedsLink' BY <1>6, <2>1 DEF DispatchClose
    <3> QED BY <3>2, <3>3, <3>4, <3>5, <3>6
  <2>2. CASE ~userData
    <3>1. Ends("crashed") BY <1>6, <2>2 DEF DispatchClose
    <3> QED BY <3>1, EndsKeeps
  <2> QED BY <2>1, <2>2
<1>7. CASE DispatchExit
  <2>1. CASE userData
    <3>1. queue' \in Seq(Message) /\ process' = process /\ outside' = outside
      BY <1>0, <1>7, <2>1 DEF DispatchExit
    <3>2. TypeOK' BY <1>7, <2>1, <3>1 DEF DispatchExit
    <3>3. DestroyedAfterStop' BY <1>7, <2>1 DEF DispatchExit
    <3>4. WindowFacts' BY <1>7, <2>1 DEF DispatchExit
    <3>5. TrayReturnsClean' BY <1>7, <2>1 DEF DispatchExit
    <3>6. StaleReadNeedsLink' BY <1>7, <2>1 DEF DispatchExit
    <3> QED BY <3>2, <3>3, <3>4, <3>5, <3>6
  <2>2. CASE ~userData
    <3>1. Ends("killed") BY <1>7, <2>2 DEF DispatchExit
    <3> QED BY <3>1, EndsKeeps
  <2> QED BY <2>1, <2>2
<1>8. CASE DispatchOther BY <1>0, <1>8, EndsKeeps DEF DispatchOther
<1>9. CASE CheckAbort
  <2>1. CASE ~server \/ ~abortNow \/ window = "destroyed" \/ userData
    <3>1. queue' \in Seq(Message) /\ process' = process /\ outside' = outside
      BY <1>9, <2>1 DEF CheckAbort
    <3>2. TypeOK' BY <1>9, <2>1, <3>1 DEF CheckAbort
    <3>3. DestroyedAfterStop'
      <4>1. CASE ~server \/ ~abortNow
        <5>1. window # "destroyed" BY <4>1
        <5>2. UNCHANGED window BY <1>9, <4>1 DEF CheckAbort
        <5> QED BY <5>1, <5>2
      <4>2. CASE server /\ abortNow
        <5>1. userData BY <2>1, <4>2
        <5> QED BY <1>9, <4>2, <5>1 DEF CheckAbort
      <4> QED BY <4>1, <4>2
    <3>4. WindowFacts' BY <1>9, <2>1 DEF CheckAbort
    <3>5. TrayReturnsClean' BY <1>9, <2>1 DEF CheckAbort
    <3>6. StaleReadNeedsLink' BY <1>9, <2>1 DEF CheckAbort
    <3> QED BY <3>2, <3>3, <3>4, <3>5, <3>6
  <2>2. CASE ~(~server \/ ~abortNow \/ window = "destroyed" \/ userData)
    <3>1. Ends("crashed") BY <1>9, <2>2 DEF CheckAbort
    <3> QED BY <3>1, EndsKeeps
  <2> QED BY <2>1, <2>2
<1> QED BY <1>1, <1>2, <1>3, <1>4, <1>5, <1>6, <1>7, <1>8, <1>9 DEF TrayStep

\* Every step keeps the invariant.
LEMMA TrayNext == TrayInv /\ [Next]_vars => TrayInv'
<1> SUFFICES ASSUME TrayInv, [Next]_vars PROVE TrayInv'
  OBVIOUS
<1>1. CASE MainStep BY <1>1, MainKeeps
<1>2. CASE TrayStep BY <1>2, TrayKeeps
<1> USE DEF TrayInv, TypeOK, shared, ui, abortVars, DestroyedAfterStop, WindowFacts,
            TrayReturnsClean, StaleReadNeedsLink
<1>3. ASSUME NEW m \in Message, SendMessage(m) PROVE TrayInv'
  <2>1. queue' \in Seq(Message) BY <1>3 DEF SendMessage
  <2>2. outside' \in 0..MaxMessages BY <1>3, MaxMessagesAssumption DEF SendMessage
  <2> QED BY <1>3, <2>1, <2>2 DEF SendMessage
<1>4. CASE UNCHANGED vars BY <1>4 DEF vars
<1> QED BY <1>1, <1>2, <1>3, <1>4 DEF Next

\* The inductive invariant holds of every behaviour.
THEOREM TrayInvariant == Spec => []TrayInv
<1> QED BY TrayInit, TrayNext, PTL DEF Spec

\* Type correctness of the two threads' shared state.
THEOREM TrayTypes == Spec => []TypeOK
<1>1. TrayInv => TypeOK BY DEF TrayInv
<1> QED BY <1>1, TrayInvariant, PTL

\* However abort, Exit, WM_CLOSE and the end of main() interleave, a tray
\* thread that has created its window returns with the server stopped and the
\* icon removed.
THEOREM TrayReturn == Spec => []TrayReturnsClean
<1>1. TrayInv => TrayReturnsClean BY DEF TrayInv
<1> QED BY <1>1, TrayInvariant, PTL

\* main() reads *hwndPtr after the tray thread has returned only in a process
\* whose tray thread was started late enough to see the server.
THEOREM StaleHandle == Spec => []StaleReadNeedsLink
<1>1. TrayInv => StaleReadNeedsLink BY DEF TrayInv
<1> QED BY <1>1, TrayInvariant, PTL
=============================================================================
