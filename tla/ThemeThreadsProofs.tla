------------------------- MODULE ThemeThreadsProofs -------------------------
(***************************************************************************)
(* What themeMutex keeps apart, for any number of theme threads and both   *)
(* kinds of Windows.                                                       *)
(*                                                                         *)
(* OneAtATime and ClicksNoBusyDialog are not inductive by themselves: the  *)
(* first needs that a thread at work owns the mutex, the second also that  *)
(* a dialog belongs to a thread that has come as far as opening it, and    *)
(* that a thread which an exception has left is in a dead process.         *)
(*                                                                         *)
(* LeftoversComeFromErrors needs a count.  A thread adds its own dialog    *)
(* and, before it may go on, sees one dialog closed, be it its own or not: *)
(* so while it is at work the dialogs but one are no more than the threads *)
(* that have thrown, and before and after it all of them are.              *)
(***************************************************************************)
EXTENDS ThemeThreads, FiniteSetTheorems, TLAPS

HolderWorks ==
  lockFailed = {} => \A t \in Thread : pc[t] \in Critical => owner = t

DialogsWereOpened ==
  \A d \in coming \cup shown : pc[d] \notin {"none", "never", "lock"}

UnwoundIsDead == \A t \in Thread : pc[t] = "unwound" => ~alive

MutexInv ==
  /\ TypeOK
  /\ HolderWorks
  /\ DialogsWereOpened
  /\ UnwoundIsDead
  /\ ClicksNoBusyDialog

-----------------------------------------------------------------------------
\* No thread runs and no dialog is open when the process starts.
LEMMA InitEstablishes == Init => MutexInv
BY DialogAssumption, RetriesAssumption
   DEF Init, MutexInv, TypeOK, Critical, HolderWorks, DialogsWereOpened,
       UnwoundIsDead, ClicksNoBusyDialog

\* The variables keep their types.
LEMMA TypePreserved == TypeOK /\ [Next]_vars => TypeOK'
<1> SUFFICES ASSUME TypeOK, [Next]_vars PROVE TypeOK'
  OBVIOUS
<1> USE RetriesAssumption DEF TypeOK, Critical, Goto, Throw, windows
<1>1. ASSUME NEW t \in Thread, ThreadStep(t) PROVE TypeOK'
  <2>1. CASE Lock(t) BY <2>1 DEF Lock
  <2>2. CASE LockFails(t) BY <2>2 DEF LockFails
  <2>3. CASE OpenTheme(t) BY <2>3 DEF OpenTheme
  <2>4. CASE OpenFails(t) BY <2>4 DEF OpenFails
  <2>5. CASE FindWindow(t) BY <2>5 DEF FindWindow
  <2>6. CASE LookAgain(t) BY <2>6 DEF LookAgain
  <2>7. CASE ClickOk(t) BY <2>7 DEF ClickOk
  <2>8. CASE NoButton(t) BY <2>8 DEF NoButton
  <2>9. CASE WaitOver(t) BY <2>9 DEF WaitOver
  <2>10. CASE ShowBox(t) BY <2>10 DEF ShowBox
  <2>11. CASE BoxThrows(t) BY <2>11 DEF BoxThrows
  <2>12. CASE Unlock(t) BY <2>12 DEF Unlock
  <2> QED BY <1>1, <2>1, <2>2, <2>3, <2>4, <2>5, <2>6, <2>7, <2>8, <2>9, <2>10,
             <2>11, <2>12 DEF ThreadStep
<1>2. ASSUME NEW t \in Thread, Request(t) \/ RequestWithoutThread(t) PROVE TypeOK'
  BY <1>2 DEF Request, RequestWithoutThread
<1>3. ASSUME NEW d \in Thread, DialogAppears(d) \/ DialogCloses(d) PROVE TypeOK'
  BY <1>3 DEF DialogAppears, DialogCloses
<1>4. CASE ProcessEnds BY <1>4 DEF ProcessEnds
<1>5. CASE UNCHANGED vars BY <1>5 DEF vars
<1> QED BY <1>1, <1>2, <1>3, <1>4, <1>5 DEF Next

\* A thread's own step keeps the parts about the mutex and the dialogs: it
\* moves only itself, and only its own step touches the dialog it has found.
LEMMA ThreadStepPreserves ==
  ASSUME NEW t \in Thread, MutexInv, TypeOK', ThreadStep(t) PROVE MutexInv'
<1> USE DEF MutexInv, TypeOK, Critical, Goto, Throw, windows, HolderWorks,
            DialogsWereOpened, UnwoundIsDead, ClicksNoBusyDialog
<1>0. alive BY DEF ThreadStep
<1>1. CASE Lock(t) BY <1>1, ThreadAssumption DEF Lock
<1>2. CASE LockFails(t) BY <1>2 DEF LockFails
<1>3. CASE OpenTheme(t) BY <1>3 DEF OpenTheme
<1>4. CASE OpenFails(t) BY <1>4 DEF OpenFails
<1>5. CASE FindWindow(t)
  <2>1. PICK d \in shown : found' = [found EXCEPT ![t] = d] BY <1>5 DEF FindWindow
  <2>2. ASSUME lockFailed = {}, d # t PROVE pc[d] = "done"
    <3>1. pc[d] \notin Critical BY <1>5, <2>1, <2>2 DEF FindWindow
    <3>2. pc[d] # "unwound" BY <1>0, <2>1
    <3> QED BY <2>1, <3>1, <3>2
  <2> QED BY <1>5, <2>1, <2>2 DEF FindWindow
<1>6. CASE LookAgain(t) BY <1>6 DEF LookAgain
<1>7. CASE ClickOk(t) BY <1>7 DEF ClickOk
<1>8. CASE NoButton(t) BY <1>8 DEF NoButton
<1>9. CASE WaitOver(t) BY <1>9 DEF WaitOver
<1>10. CASE ShowBox(t) BY <1>10 DEF ShowBox
<1>11. CASE BoxThrows(t) BY <1>11 DEF BoxThrows
<1>12. CASE Unlock(t) BY <1>12 DEF Unlock
<1> QED BY <1>1, <1>2, <1>3, <1>4, <1>5, <1>6, <1>7, <1>8, <1>9, <1>10, <1>11,
           <1>12 DEF ThreadStep

\* Every step keeps the invariant.
LEMMA NextPreserves == MutexInv /\ [Next]_vars => MutexInv'
<1> SUFFICES ASSUME MutexInv, [Next]_vars PROVE MutexInv'
  OBVIOUS
<1>0. TypeOK' BY TypePreserved DEF MutexInv
<1>1. ASSUME NEW t \in Thread, ThreadStep(t) PROVE MutexInv'
  BY <1>0, <1>1, ThreadStepPreserves
<1> USE DEF MutexInv, TypeOK, Critical, Goto, windows, HolderWorks,
            DialogsWereOpened, UnwoundIsDead, ClicksNoBusyDialog
<1>2. ASSUME NEW t \in Thread, alive, Request(t) PROVE MutexInv'
  BY <1>0, <1>2 DEF Request
<1>3. ASSUME NEW t \in Thread, alive, RequestWithoutThread(t) PROVE MutexInv'
  BY <1>0, <1>3 DEF RequestWithoutThread
<1>4. ASSUME NEW d \in Thread, DialogAppears(d) \/ DialogCloses(d) PROVE MutexInv'
  BY <1>0, <1>4 DEF DialogAppears, DialogCloses
<1>5. CASE ProcessEnds BY <1>0, <1>5 DEF ProcessEnds
<1>6. CASE UNCHANGED vars BY <1>0, <1>6 DEF vars
<1> QED BY <1>1, <1>2, <1>3, <1>4, <1>5, <1>6 DEF Next

\* The inductive invariant holds of every behaviour.
THEOREM MutexInvariant == Spec => []MutexInv
<1> QED BY InitEstablishes, NextPreserves, PTL DEF Spec

\* Type correctness of the theme threads.
THEOREM ThemeTypes == Spec => []TypeOK
<1>1. MutexInv => TypeOK BY DEF MutexInv
<1> QED BY <1>1, MutexInvariant, PTL

\* As long as no lock fails, one thread at most is between pthread_mutex_lock
\* and pthread_mutex_unlock, error paths included.
THEOREM MutualExclusion == Spec => []OneAtATime
<1>1. MutexInv => OneAtATime BY DEF MutexInv, HolderWorks, OneAtATime
<1> QED BY <1>1, MutexInvariant, PTL

\* As long as no lock fails, no thread works the dialog of another thread
\* that is still at work, although a dialog does not say whose it is.
THEOREM NoBusyDialogClicked == Spec => []ClicksNoBusyDialog
<1>1. MutexInv => ClicksNoBusyDialog BY DEF MutexInv
<1> QED BY <1>1, MutexInvariant, PTL

-----------------------------------------------------------------------------
(* The dialogs left behind.                                                *)

\* The dialogs that Windows has been asked for and that have not closed.
Open == coming \cup shown

\* The thread has asked for its dialog and not yet seen one closed.
AtDialog == {"find", "click", "wait"}

\* A thread throws once.
ThrowsOnce == \A t \in failed : pc[t] \in {"box", "unlock", "done", "unwound"}

\* A dialog is on its way or on the screen, and its thread asks for it once.
OpenedOnce == coming \cap shown = {} /\ \A d \in Open : pc[d] # "open"

FiniteInv == IsFiniteSet(coming) /\ IsFiniteSet(shown) /\ IsFiniteSet(failed)

\* How many dialogs there are, outside and inside the work on one.
CountOutside ==
  (\A t \in Thread : pc[t] \notin AtDialog) => Cardinality(Open) <= Cardinality(failed)
CountInside(t) ==
  /\ pc[t] \in AtDialog => Cardinality(Open \ {t}) <= Cardinality(failed)
  /\ pc[t] \in {"click", "wait"} =>
       /\ found[t] \notin coming
       /\ Cardinality(Open \ {found[t]}) <= Cardinality(failed)

CountInv == lockFailed = {} => CountOutside /\ \A t \in Thread : CountInside(t)

LeftoverInv == MutexInv /\ ThrowsOnce /\ OpenedOnce /\ FiniteInv /\ CountInv

\* Fewer elements, and one element more or less.
LEMMA Fewer ==
  ASSUME NEW T, IsFiniteSet(T), NEW S \in SUBSET T
  PROVE  IsFiniteSet(S) /\ Cardinality(S) \in Nat /\ Cardinality(T) \in Nat
         /\ Cardinality(S) <= Cardinality(T)
BY FS_Subset, FS_CardinalityType

LEMMA OneOff ==
  ASSUME NEW S, IsFiniteSet(S), NEW x
  PROVE  /\ IsFiniteSet(S \cup {x}) /\ IsFiniteSet(S \ {x})
         /\ Cardinality(S \ {x}) \in Nat /\ Cardinality(S) \in Nat
         /\ Cardinality(S \cup {x}) =
              IF x \in S THEN Cardinality(S) ELSE Cardinality(S) + 1
         /\ Cardinality(S \ {x}) =
              IF x \in S THEN Cardinality(S) - 1 ELSE Cardinality(S)
BY FS_AddElement, FS_RemoveElement, FS_CardinalityType

\* Throwing pays for one dialog more.
LEMMA ThrowPays ==
  ASSUME LeftoverInv, NEW t \in Thread, pc[t] \notin {"box", "unlock", "done", "unwound"},
         failed' = failed \cup {t}
  PROVE  IsFiniteSet(failed') /\ Cardinality(failed') = Cardinality(failed) + 1
<1>1. t \notin failed
  BY DEF LeftoverInv, ThrowsOnce
<1>2. QED
  BY <1>1, OneOff DEF LeftoverInv, FiniteInv

\* No dialog is there when the process starts.
LEMMA InitCounts == Init => LeftoverInv
<1> SUFFICES ASSUME Init PROVE LeftoverInv
  OBVIOUS
<1>1. MutexInv
  BY InitEstablishes
<1>2. coming = {} /\ shown = {} /\ failed = {} /\ \A t \in Thread : pc[t] = "none"
  BY DEF Init
<1>3. Open = {}
  BY <1>2 DEF Open
<1>4. Cardinality({}) = 0 /\ IsFiniteSet({})
  BY FS_EmptySet
<1> QED BY <1>1, <1>2, <1>3, <1>4
        DEF LeftoverInv, ThrowsOnce, OpenedOnce, FiniteInv, CountInv, CountOutside,
            CountInside, AtDialog

\* The sets stay finite: a step adds one element at most to each.
LEMMA FinitePreserved == FiniteInv /\ [Next]_vars => FiniteInv'
<1> SUFFICES ASSUME FiniteInv, [Next]_vars PROVE FiniteInv'
  OBVIOUS
<1>1. \E t : /\ coming' \subseteq coming \cup {t}
             /\ shown' \subseteq shown \cup {t}
             /\ failed' \subseteq failed \cup {t}
  <2>1. ASSUME NEW t \in Thread, ThreadStep(t)
        PROVE  /\ coming' \subseteq coming \cup {t} /\ shown' \subseteq shown
               /\ failed' \subseteq failed \cup {t}
    BY <2>1 DEF ThreadStep, Lock, LockFails, OpenTheme, OpenFails, FindWindow, LookAgain,
       ClickOk, NoButton, WaitOver, ShowBox, BoxThrows, Unlock, Throw, windows
  <2>2. ASSUME NEW d \in Thread, DialogAppears(d) \/ DialogCloses(d)
        PROVE  /\ coming' \subseteq coming /\ shown' \subseteq shown \cup {d}
               /\ failed' = failed
    BY <2>2 DEF DialogAppears, DialogCloses
  <2>3. CASE UNCHANGED vars \/ ProcessEnds
             \/ \E t \in Thread : Request(t) \/ RequestWithoutThread(t)
    BY <2>3 DEF vars, windows, ProcessEnds, Request, RequestWithoutThread
  <2> QED BY <2>1, <2>2, <2>3 DEF Next
<1>2. PICK t : /\ coming' \subseteq coming \cup {t}
               /\ shown' \subseteq shown \cup {t}
               /\ failed' \subseteq failed \cup {t}
  BY <1>1
<1>3. /\ IsFiniteSet(coming \cup {t}) /\ IsFiniteSet(shown \cup {t})
      /\ IsFiniteSet(failed \cup {t})
  BY OneOff DEF FiniteInv
<1> QED BY <1>2, <1>3, Fewer DEF FiniteInv

\* A thread that throws goes to the box, and from there to its end.
LEMMA ThrowsOncePreserved == TypeOK /\ ThrowsOnce /\ [Next]_vars => ThrowsOnce'
<1> SUFFICES ASSUME TypeOK, ThrowsOnce, [Next]_vars PROVE ThrowsOnce'
  OBVIOUS
<1> USE DEF ThrowsOnce, TypeOK, Goto, Throw, windows
<1>1. ASSUME NEW t \in Thread, ThreadStep(t) PROVE ThrowsOnce'
  BY <1>1 DEF ThreadStep, Lock, LockFails, OpenTheme, OpenFails, FindWindow, LookAgain,
     ClickOk, NoButton, WaitOver, ShowBox, BoxThrows, Unlock
<1>2. ASSUME NEW t \in Thread, Request(t) \/ RequestWithoutThread(t) PROVE ThrowsOnce'
  BY <1>2 DEF Request, RequestWithoutThread
<1>3. ASSUME NEW d \in Thread, DialogAppears(d) \/ DialogCloses(d) PROVE ThrowsOnce'
  BY <1>3 DEF DialogAppears, DialogCloses
<1>4. CASE UNCHANGED vars \/ ProcessEnds
  BY <1>4 DEF vars, ProcessEnds
<1> QED BY <1>1, <1>2, <1>3, <1>4 DEF Next

\* A thread that reaches its opening has no dialog yet.
LEMMA OpenedOncePreserved == MutexInv /\ OpenedOnce /\ [Next]_vars => OpenedOnce'
<1> SUFFICES ASSUME MutexInv, OpenedOnce, [Next]_vars PROVE OpenedOnce'
  OBVIOUS
<1> USE DEF MutexInv, TypeOK, DialogsWereOpened, OpenedOnce, Open, Goto, Throw, windows
<1>1. ASSUME NEW t \in Thread, ThreadStep(t) PROVE OpenedOnce'
  BY <1>1 DEF ThreadStep, Lock, LockFails, OpenTheme, OpenFails, FindWindow, LookAgain,
     ClickOk, NoButton, WaitOver, ShowBox, BoxThrows, Unlock
<1>2. ASSUME NEW t \in Thread, Request(t) \/ RequestWithoutThread(t) PROVE OpenedOnce'
  BY <1>2 DEF Request, RequestWithoutThread
<1>3. ASSUME NEW d \in Thread, DialogAppears(d) \/ DialogCloses(d) PROVE OpenedOnce'
  BY <1>3 DEF DialogAppears, DialogCloses
<1>4. CASE UNCHANGED vars \/ ProcessEnds
  BY <1>4 DEF vars, ProcessEnds
<1> QED BY <1>1, <1>2, <1>3, <1>4 DEF Next

\* A step that adds no dialog, finds none and throws nothing keeps the count.
LEMMA SameCount ==
  ASSUME LeftoverInv, lockFailed' = lockFailed, failed' = failed, found' = found,
         coming' \subseteq coming, Open' \subseteq Open,
         \A u \in Thread : /\ pc'[u] \in AtDialog <=> pc[u] \in AtDialog
                           /\ pc'[u] \in {"click", "wait"} <=> pc[u] \in {"click", "wait"}
  PROVE  CountInv'
<1> SUFFICES ASSUME lockFailed = {} PROVE CountOutside' /\ \A u \in Thread : CountInside(u)'
  BY DEF CountInv
<1>1. IsFiniteSet(Open)
  BY FS_Union DEF Open, LeftoverInv, FiniteInv
<1>2. \A x : /\ Cardinality(Open' \ {x}) <= Cardinality(Open \ {x})
             /\ Cardinality(Open' \ {x}) \in Nat /\ Cardinality(Open \ {x}) \in Nat
  <2> TAKE x
  <2>1. IsFiniteSet(Open \ {x}) /\ Open' \ {x} \in SUBSET (Open \ {x})
    BY <1>1, OneOff
  <2> QED BY <2>1, Fewer
<1>3. Cardinality(Open') <= Cardinality(Open)
      /\ Cardinality(Open') \in Nat /\ Cardinality(Open) \in Nat
  BY <1>1, Fewer
<1>4. Cardinality(failed) \in Nat
  BY FS_CardinalityType DEF LeftoverInv, FiniteInv
<1>5. CountOutside'
  BY <1>3, <1>4 DEF LeftoverInv, CountInv, CountOutside
<1>6. ASSUME NEW u \in Thread PROVE CountInside(u)'
  <2>1. CountInside(u)
    BY DEF LeftoverInv, CountInv
  <2>2. /\ Cardinality(Open' \ {u}) <= Cardinality(Open \ {u})
        /\ Cardinality(Open' \ {u}) \in Nat /\ Cardinality(Open \ {u}) \in Nat
        /\ Cardinality(Open' \ {found[u]}) <= Cardinality(Open \ {found[u]})
        /\ Cardinality(Open' \ {found[u]}) \in Nat
        /\ Cardinality(Open \ {found[u]}) \in Nat
    BY <1>2
  <2> QED BY <1>4, <2>1, <2>2 DEF CountInside
<1> QED BY <1>5, <1>6

\* While one thread is at work the others are not.
LEMMA OthersOutside ==
  ASSUME LeftoverInv, lockFailed = {}, NEW t \in Thread, pc[t] \in Critical
  PROVE  \A u \in Thread \ {t} : pc[u] \notin AtDialog
BY DEF LeftoverInv, MutexInv, HolderWorks, Critical, AtDialog

\* The steps of a thread that count.
LEMMA ThreadStepCounts ==
  ASSUME LeftoverInv, NEW t \in Thread, ThreadStep(t)
  PROVE  CountInv'
<1> SUFFICES ASSUME lockFailed' = {} PROVE CountOutside' /\ \A u \in Thread : CountInside(u)'
  BY DEF CountInv
<1>pc. /\ pc \in [Thread -> Critical \cup {"none", "never", "lock", "done", "unwound"}]
       /\ found \in [Thread -> Thread \cup {NoThread}]
  BY DEF LeftoverInv, MutexInv, TypeOK
<1>a. pc[t] \in {"lock", "unlock", "box"} \/ pc[t] \in Critical
  BY DEF ThreadStep, Lock, LockFails, OpenTheme, OpenFails, FindWindow, LookAgain,
     ClickOk, NoButton, WaitOver, ShowBox, BoxThrows, Unlock, Critical
<1>b. lockFailed = {}
  BY DEF ThreadStep, Lock, LockFails, OpenTheme, OpenFails, FindWindow, LookAgain,
     ClickOk, NoButton, WaitOver, ShowBox, BoxThrows, Unlock
<1>c. CountOutside /\ CountInside(t) /\ Cardinality(failed) \in Nat /\ IsFiniteSet(Open)
  BY <1>b, FS_Union, FS_CardinalityType DEF LeftoverInv, CountInv, FiniteInv, Open
<1>d. pc[t] \in Critical => \A u \in Thread \ {t} : pc[u] \notin AtDialog
  BY <1>b, OthersOutside
<1>1. CASE Lock(t) \/ ShowBox(t) \/ BoxThrows(t) \/ Unlock(t) \/ ClickOk(t)
           \/ (OpenTheme(t) /\ ~hasDialog) \/ (LookAgain(t) /\ tries[t] < Retries)
  <2>1. /\ lockFailed' = lockFailed /\ failed' = failed /\ found' = found
        /\ coming' = coming /\ shown' \subseteq shown
    BY <1>1 DEF Lock, ShowBox, BoxThrows, Unlock, ClickOk, OpenTheme, LookAgain, windows
  <2>2. \A u \in Thread : /\ pc'[u] \in AtDialog <=> pc[u] \in AtDialog
                          /\ pc'[u] \in {"click", "wait"} <=> pc[u] \in {"click", "wait"}
    BY <1>1, <1>pc
       DEF Lock, ShowBox, BoxThrows, Unlock, ClickOk, OpenTheme, LookAgain, Goto, AtDialog
  <2>3. Open' \subseteq Open
    BY <2>1 DEF Open
  <2> QED BY <1>b, <2>1, <2>2, <2>3, SameCount DEF CountInv
<1>2. CASE OpenTheme(t) /\ hasDialog
  <2>1. /\ pc[t] = "open" /\ pc' = [pc EXCEPT ![t] = "find"] /\ failed' = failed
        /\ Open' = Open \cup {t}
    BY <1>2 DEF OpenTheme, Goto, Open
  <2>2. Cardinality(Open) <= Cardinality(failed)
    BY <1>c, <1>d, <2>1 DEF CountOutside, Critical, AtDialog
  <2>3. Cardinality(Open' \ {t}) <= Cardinality(failed)
    <3>1. Open' \ {t} \in SUBSET Open
      BY <2>1
    <3> QED BY <1>c, <2>2, <3>1, Fewer
  <2> QED BY <1>d, <1>pc, <2>1, <2>3 DEF CountOutside, CountInside, Critical, AtDialog
<1>3. CASE OpenFails(t)
  <2>1. /\ pc[t] = "open" /\ pc' = [pc EXCEPT ![t] = "box"] /\ failed' = failed \cup {t}
        /\ Open' = Open
    BY <1>3 DEF OpenFails, Throw, Goto, Open, windows
  <2>2. Cardinality(Open) <= Cardinality(failed) /\ Cardinality(Open) \in Nat
    BY <1>c, <1>d, <2>1, FS_CardinalityType DEF CountOutside, Critical, AtDialog
  <2>3. Cardinality(failed') = Cardinality(failed) + 1
    BY <2>1, ThrowPays
  <2>4. Cardinality(Open') <= Cardinality(failed')
    BY <1>c, <2>1, <2>2, <2>3
  <2> QED BY <1>d, <1>pc, <2>1, <2>4 DEF CountOutside, CountInside, Critical, AtDialog
<1>4. CASE FindWindow(t)
  <2>1. PICK d \in shown : found' = [found EXCEPT ![t] = d]
    BY <1>4 DEF FindWindow
  <2>2. /\ pc[t] = "find" /\ pc' = [pc EXCEPT ![t] = "click"] /\ failed' = failed
        /\ Open' = Open /\ coming' = coming
    BY <1>4 DEF FindWindow, Goto, Open, windows
  <2>3. Cardinality(Open \ {t}) <= Cardinality(failed)
    BY <1>c, <2>2 DEF CountInside, AtDialog
  <2>4. Cardinality(Open \ {d}) <= Cardinality(failed)
    <3>1. d \in Open
      BY DEF Open
    <3> QED BY <1>c, <2>3, <3>1, OneOff
  <2>5. d \notin coming
    BY DEF LeftoverInv, OpenedOnce
  <2> QED BY <1>d, <1>pc, <2>1, <2>2, <2>3, <2>4, <2>5
          DEF CountOutside, CountInside, Critical, AtDialog
<1>5. CASE (LookAgain(t) /\ ~(tries[t] < Retries)) \/ NoButton(t)
  <2>1. /\ pc[t] \in {"find", "click"} /\ pc' = [pc EXCEPT ![t] = "box"]
        /\ failed' = failed \cup {t} /\ Open' = Open
    BY <1>5 DEF LookAgain, NoButton, Throw, Goto, Open, windows
  <2>2. Cardinality(Open \ {t}) <= Cardinality(failed)
    BY <1>c, <2>1 DEF CountInside, AtDialog
  <2>3. Cardinality(failed') = Cardinality(failed) + 1
    BY <2>1, ThrowPays
  <2>4. Cardinality(Open') <= Cardinality(failed')
    <3>1. /\ Cardinality(Open) \in Nat /\ Cardinality(Open \ {t}) \in Nat
          /\ Cardinality(Open) <= Cardinality(Open \ {t}) + 1
      <4>1. /\ Cardinality(Open \ {t}) \in Nat /\ Cardinality(Open) \in Nat
            /\ Cardinality(Open \ {t}) =
                 IF t \in Open THEN Cardinality(Open) - 1 ELSE Cardinality(Open)
        BY <1>c, OneOff
      <4> QED BY <4>1
    <3> QED BY <1>c, <2>1, <2>2, <2>3, <3>1
  <2> QED BY <1>d, <1>pc, <2>1, <2>4 DEF CountOutside, CountInside, Critical, AtDialog
<1>6. CASE WaitOver(t)
  <2>1. /\ pc[t] = "wait" /\ pc' = [pc EXCEPT ![t] = "unlock"] /\ failed' = failed
        /\ Open' = Open /\ found[t] \notin shown
    BY <1>6 DEF WaitOver, Goto, Open, windows
  <2>2. Open \ {found[t]} = Open /\ Cardinality(Open \ {found[t]}) <= Cardinality(failed)
    BY <1>c, <2>1 DEF CountInside, Open
  <2> QED BY <1>d, <1>pc, <2>1, <2>2 DEF CountOutside, CountInside, Critical, AtDialog
<1>7. CASE LockFails(t)
  BY <1>7, <1>b DEF LockFails
<1> QED BY <1>1, <1>2, <1>3, <1>4, <1>5, <1>6, <1>7 DEF ThreadStep

\* Every step keeps the count; outside the threads none adds a dialog.
LEMMA LeftoverPreserved == LeftoverInv /\ [Next]_vars => LeftoverInv'
<1> SUFFICES ASSUME LeftoverInv, [Next]_vars PROVE LeftoverInv'
  OBVIOUS
<1>1. MutexInv' /\ ThrowsOnce' /\ OpenedOnce' /\ FiniteInv'
  BY NextPreserves, ThrowsOncePreserved, OpenedOncePreserved, FinitePreserved
     DEF LeftoverInv, MutexInv
<1>2. CountInv'
  <2>1. ASSUME NEW t \in Thread, ThreadStep(t) PROVE CountInv'
    BY <2>1, ThreadStepCounts
  <2>2. CASE \/ \E t \in Thread : Request(t) \/ RequestWithoutThread(t)
             \/ \E d \in Thread : DialogAppears(d) \/ DialogCloses(d)
             \/ ProcessEnds \/ UNCHANGED vars
    <3>1. /\ lockFailed' = lockFailed /\ failed' = failed /\ found' = found
          /\ coming' \subseteq coming /\ Open' \subseteq Open
      BY <2>2 DEF Request, RequestWithoutThread, DialogAppears, DialogCloses, ProcessEnds,
                  vars, windows, Open
    <3>2. \A u \in Thread : /\ pc'[u] \in AtDialog <=> pc[u] \in AtDialog
                            /\ pc'[u] \in {"click", "wait"} <=> pc[u] \in {"click", "wait"}
      BY <2>2 DEF Request, RequestWithoutThread, DialogAppears, DialogCloses, ProcessEnds,
                  vars, Goto, AtDialog, LeftoverInv, MutexInv, TypeOK
    <3> QED BY <3>1, <3>2, SameCount
  <2> QED BY <2>1, <2>2 DEF Next
<1> QED BY <1>1, <1>2 DEF LeftoverInv

\* A thread that is done is not the one at work, so what is left behind is
\* what the count bounds.
LEMMA LeftoverBound == LeftoverInv => LeftoversComeFromErrors
<1> SUFFICES ASSUME LeftoverInv, lockFailed = {}
             PROVE  Cardinality(Leftover) <= Cardinality(failed)
  BY DEF LeftoversComeFromErrors
<1>1. IsFiniteSet(Open) /\ Cardinality(failed) \in Nat
  BY FS_Union, FS_CardinalityType DEF LeftoverInv, FiniteInv, Open
<1>2. CASE \E t \in Thread : pc[t] \in AtDialog
  <2>1. PICK t \in Thread : pc[t] \in AtDialog
    BY <1>2
  <2>2. Cardinality(Open \ {t}) <= Cardinality(failed)
    BY <2>1 DEF LeftoverInv, CountInv, CountInside
  <2>3. Leftover \in SUBSET (Open \ {t}) /\ IsFiniteSet(Open \ {t})
    BY <1>1, <2>1, OneOff DEF Leftover, Open, AtDialog
  <2> QED BY <1>1, <2>2, <2>3, Fewer
<1>3. CASE ~ \E t \in Thread : pc[t] \in AtDialog
  <2>1. Cardinality(Open) <= Cardinality(failed)
    BY <1>3 DEF LeftoverInv, CountInv, CountOutside
  <2>2. Leftover \in SUBSET Open
    BY DEF Leftover, Open
  <2> QED BY <1>1, <2>1, <2>2, Fewer
<1> QED BY <1>2, <1>3

\* As long as no lock fails, never more dialogs are left behind than threads
\* have thrown, however many threads there are and whoever closes a dialog.
THEOREM ErrorsLeaveDialogs == Spec => []LeftoversComeFromErrors
<1> QED BY InitCounts, LeftoverPreserved, LeftoverBound, PTL DEF Spec
=============================================================================
