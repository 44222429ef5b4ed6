---------------------------- MODULE ThemeThreads ----------------------------
(***************************************************************************)
(* Theme requests on Windows.  processThemeCommand picks a theme file,     *)
(* starts a detached thread for it and answers at once; runThemeThread     *)
(* opens the file and, before Windows 7, works the dialog that Windows     *)
(* shows for it.  themeMutex is to keep the threads apart, because they    *)
(* look for the dialog by its title or its program: nothing says whose     *)
(* dialog they have found.                                                 *)
(***************************************************************************)
EXTENDS Naturals, FiniteSets

CONSTANTS
  Thread,     \* the theme requests; each has a thread and may have a dialog
  NoThread,   \* nobody holds the mutex, no dialog has been found
  Dialogs,    \* the kinds of Windows: TRUE for those that ask for an OK
  Retries     \* how often the dialog is looked for again (5 in the code)

ASSUME ThreadAssumption == NoThread \notin Thread
ASSUME DialogAssumption == Dialogs \subseteq BOOLEAN
ASSUME RetriesAssumption == Retries \in Nat

VARIABLES
  hasDialog,   \* WINVER < _WIN32_WINNT_7: Windows asks for an OK
  pc,          \* where each thread stands
  owner,       \* the holder of themeMutex
  lockFailed,  \* threads whose pthread_mutex_lock failed
  failed,      \* threads that have thrown
  coming,      \* dialogs launched but not on the screen yet
  shown,       \* dialogs on the screen
  found,       \* window: the dialog each thread has found
  tries,       \* how often it has looked again
  alive        \* the process runs

windows == <<coming, shown>>
vars == <<hasDialog, pc, owner, lockFailed, failed, windows, found, tries, alive>>

\* From the lock to the unlock.
Critical == {"open", "find", "click", "wait", "box", "unlock"}

Init ==
  /\ hasDialog \in Dialogs
  /\ pc = [t \in Thread |-> "none"]
  /\ owner = NoThread
  /\ lockFailed = {} /\ failed = {}
  /\ coming = {} /\ shown = {}
  /\ found = [t \in Thread |-> NoThread]
  /\ tries = [t \in Thread |-> 0]
  /\ alive = TRUE

Goto(t, point) == pc' = [pc EXCEPT ![t] = point]

-----------------------------------------------------------------------------
(* processThemeCommand                                                     *)

\* The thread starts, detached.
Request(t) ==
  /\ pc[t] = "none"
  /\ Goto(t, "lock")
  /\ UNCHANGED <<hasDialog, owner, lockFailed, failed, windows, found, tries, alive>>

\* pthread_create fails unnoticed, and the request is answered all the same;
\* pthread_detach is given whatever themeThread holds.
RequestWithoutThread(t) ==
  /\ pc[t] = "none"
  /\ Goto(t, "never")
  /\ alive' \in BOOLEAN
  /\ UNCHANGED <<hasDialog, owner, lockFailed, failed, windows, found, tries>>

-----------------------------------------------------------------------------
(* runThemeThread                                                          *)

\* Mutant: the mutex is looked at by no one.
Lock_none(t) ==
  /\ pc[t] = "lock"
  /\ owner' = t
  /\ Goto(t, "open")
  /\ UNCHANGED <<hasDialog, lockFailed, failed, windows, found, tries, alive>>

Lock(t) ==
  /\ pc[t] = "lock"
  /\ owner = NoThread
  /\ owner' = t
  /\ Goto(t, "open")
  /\ UNCHANGED <<hasDialog, lockFailed, failed, windows, found, tries, alive>>

\* An exception is caught: a message box comes next, then the unlock.
Throw(t) ==
  /\ Goto(t, "box")
  /\ failed' = failed \cup {t}

LockFails(t) ==
  /\ pc[t] = "lock"
  /\ Throw(t)
  /\ lockFailed' = lockFailed \cup {t}
  /\ UNCHANGED <<hasDialog, owner, windows, found, tries, alive>>

OpenTheme(t) ==
  /\ pc[t] = "open"
  /\ IF hasDialog
       THEN coming' = coming \cup {t} /\ Goto(t, "find")
       ELSE Goto(t, "unlock") /\ UNCHANGED coming
  /\ UNCHANGED <<hasDialog, owner, lockFailed, failed, shown, found, tries, alive>>

OpenFails(t) ==
  /\ pc[t] = "open"
  /\ Throw(t)
  /\ UNCHANGED <<hasDialog, owner, lockFailed, windows, found, tries, alive>>

FindWindow(t) ==
  /\ pc[t] = "find"
  /\ \E d \in shown : found' = [found EXCEPT ![t] = d]
  /\ Goto(t, "click")
  /\ UNCHANGED <<hasDialog, owner, lockFailed, failed, windows, tries, alive>>

\* Mutant: the dialog is looked for once more than it should be.
LookAgain_onceMore(t) ==
  /\ pc[t] = "find"
  /\ shown = {}
  /\ IF tries[t] <= Retries
       THEN tries' = [tries EXCEPT ![t] = @ + 1] /\ UNCHANGED <<pc, failed>>
       ELSE Throw(t) /\ UNCHANGED tries
  /\ UNCHANGED <<hasDialog, owner, lockFailed, windows, found, alive>>

LookAgain(t) ==
  /\ pc[t] = "find"
  /\ shown = {}
  /\ IF tries[t] < Retries
       THEN tries' = [tries EXCEPT ![t] = @ + 1] /\ UNCHANGED <<pc, failed>>
       ELSE Throw(t) /\ UNCHANGED tries
  /\ UNCHANGED <<hasDialog, owner, lockFailed, windows, found, alive>>

\* The OK button is clicked.  The dialog closes, now or later, or stays.
ClickOk(t) ==
  /\ pc[t] = "click"
  /\ found[t] \in shown
  /\ shown' \in {shown, shown \ {found[t]}}
  /\ Goto(t, "wait")
  /\ UNCHANGED <<hasDialog, owner, lockFailed, failed, coming, found, tries, alive>>

\* There is no OK button, or no window any more.
NoButton(t) ==
  /\ pc[t] = "click"
  /\ Throw(t)
  /\ UNCHANGED <<hasDialog, owner, lockFailed, windows, found, tries, alive>>

\* Mutant: the thread does not wait for the window to close.
WaitOver_atOnce(t) ==
  /\ pc[t] = "wait"
  /\ Goto(t, "unlock")
  /\ UNCHANGED <<hasDialog, owner, lockFailed, failed, windows, found, tries, alive>>

WaitOver(t) ==
  /\ pc[t] = "wait"
  /\ found[t] \notin shown
  /\ Goto(t, "unlock")
  /\ UNCHANGED <<hasDialog, owner, lockFailed, failed, windows, found, tries, alive>>

\* The message box of the catch clauses.
ShowBox(t) ==
  /\ pc[t] = "box"
  /\ Goto(t, "unlock")
  /\ UNCHANGED <<hasDialog, owner, lockFailed, failed, windows, found, tries, alive>>

\* It throws in its turn: out of the catch clause, past the unlock, out of
\* the thread function, and std::terminate ends the process.
BoxThrows(t) ==
  /\ pc[t] = "box"
  /\ Goto(t, "unwound")
  /\ alive' = FALSE
  /\ UNCHANGED <<hasDialog, owner, lockFailed, failed, windows, found, tries>>

\* Mutant: a thread that has thrown leaves the mutex locked.
Unlock_notAfterThrow(t) ==
  /\ pc[t] = "unlock"
  /\ owner' = IF t \in failed THEN owner ELSE NoThread
  /\ Goto(t, "done")
  /\ UNCHANGED <<hasDialog, lockFailed, failed, windows, found, tries, alive>>

\* A thread whose lock failed unlocks too, whoever holds the mutex.
Unlock(t) ==
  /\ pc[t] = "unlock"
  /\ owner' = NoThread
  /\ Goto(t, "done")
  /\ UNCHANGED <<hasDialog, lockFailed, failed, windows, found, tries, alive>>

ThreadStep(t) ==
  /\ alive
  /\ \/ Lock(t) \/ LockFails(t)
     \/ OpenTheme(t) \/ OpenFails(t)
     \/ FindWindow(t) \/ LookAgain(t)
     \/ ClickOk(t) \/ NoButton(t)
     \/ WaitOver(t)
     \/ ShowBox(t) \/ BoxThrows(t)
     \/ Unlock(t)

-----------------------------------------------------------------------------
(* Around the threads.                                                     *)

\* Windows shows a dialog at last.
DialogAppears(d) ==
  /\ d \in coming
  /\ coming' = coming \ {d}
  /\ shown' = shown \cup {d}
  /\ UNCHANGED <<hasDialog, pc, owner, lockFailed, failed, found, tries, alive>>

\* A dialog closes after its OK, or the user closes it.
DialogCloses(d) ==
  /\ d \in shown
  /\ shown' = shown \ {d}
  /\ UNCHANGED <<hasDialog, pc, owner, lockFailed, failed, coming, found, tries, alive>>

\* main() returns or another thread ends the process.
ProcessEnds ==
  /\ alive' = FALSE
  /\ UNCHANGED <<hasDialog, pc, owner, lockFailed, failed, windows, found, tries>>

Next ==
  \/ \E t \in Thread : ThreadStep(t)
  \/ /\ alive
     /\ \/ \E t \in Thread : Request(t) \/ RequestWithoutThread(t)
        \/ \E d \in Thread : DialogAppears(d) \/ DialogCloses(d)
        \/ ProcessEnds

Spec == Init /\ [][Next]_vars

\* A thread that waits for the mutex is owed nothing while it is held.
CanRun(t) == pc[t] = "lock" => owner = NoThread

\* Windows schedules every thread that can run, and a mutex that stays free
\* is given to a thread that waits.  Nothing is assumed of the dialogs.
FairSpec == Spec /\ \A t \in Thread : WF_vars(CanRun(t) /\ ThreadStep(t))

-----------------------------------------------------------------------------
\* The types of the variables.
TypeOK ==
  /\ hasDialog \in Dialogs
  /\ pc \in [Thread -> Critical \cup {"none", "never", "lock", "done", "unwound"}]
  /\ owner \in Thread \cup {NoThread}
  /\ lockFailed \subseteq failed /\ failed \subseteq Thread
  /\ coming \subseteq Thread /\ shown \subseteq Thread
  /\ found \in [Thread -> Thread \cup {NoThread}]
  /\ tries \in [Thread -> 0..Retries]
  /\ alive \in BOOLEAN

\* "Lock to ensure this doesn't cause a race condition": as long as no lock
\* fails, one thread at most is between its lock and its unlock.
OneAtATime ==
  lockFailed = {} =>
    \A t, u \in Thread : pc[t] \in Critical /\ pc[u] \in Critical => t = u

\* What the mutex is for: as long as no lock fails, a thread works its own
\* dialog or one that a finished thread has left behind, never the dialog of
\* a thread that is still at work.
ClicksNoBusyDialog ==
  lockFailed = {} =>
    \A t \in Thread : pc[t] \in {"click", "wait"} =>
      found[t] = t \/ (found[t] \in Thread /\ pc[found[t]] = "done")

\* Dialogs are left behind by errors only: as long as no lock fails, there
\* are never more left than threads have thrown, although a thread may close
\* another's dialog and leave its own.
Leftover == {d \in coming \cup shown : pc[d] = "done"}
LeftoversComeFromErrors ==
  lockFailed = {} => Cardinality(Leftover) <= Cardinality(failed)

\* Every theme thread comes to its end, unless the process does or some
\* dialog stays open for ever after its OK.
ThemeThreadsFinish ==
  \/ <>[](\E t \in Thread : pc[t] = "wait" /\ found[t] \in shown)
  \/ \A t \in Thread : pc[t] = "lock" ~> (pc[t] = "done" \/ ~alive)
=============================================================================
