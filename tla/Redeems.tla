------------------------------ MODULE Redeems ------------------------------
(***************************************************************************)
(* The redeems of Interact Box: RequestCycle with the handlers that have a *)
(* state of their own, and the thread that /crash leaves behind, which     *)
(* strikes while later requests are served.                                *)
(***************************************************************************)
EXTENDS Display, MalwareDates

VARIABLE crash  \* the crash thread: "none", "asleep" or "over"

vars == <<cycleVars, displayVars, dateVars, crash>>

Init == CycleInit /\ DisplayInit /\ DatesInit /\ crash = "none"

\* /crash: the thread is detached, and the request answered at once.
StartCrash ==
  /\ At("crash")
  /\ crash' = "asleep"
  /\ GoOn(Tail(todo))
  /\ UNCHANGED <<displayVars, dateVars>>

\* After its 200 ms: the system goes down, or on Windows 98 ShellExecute fails
\* and the exception ends the process; NT may lack ntdll, and Linux only
\* enables the magic key.
CrashStrikes ==
  /\ crash = "asleep" /\ pc # "ended"
  /\ crash' = "over"
  /\ \/ edition # "linux" /\ CycleEnds
     \/ edition # "98" /\ UNCHANGED cycleVars
  /\ UNCHANGED <<displayVars, dateVars>>

\* /killInteractBox writes through a null pointer, /winamp and /deleteRandom
\* draw from a list that may be empty, the only wallpaper has no neighbour, and
\* a call that goes on without an end may use up the stack.
Fault ==
  /\ pc = "steps" /\ todo # <<>>
  /\ Head(todo) \in {"fault", "item", "delete", "wallpaper"} \/ MayHang(Head(todo))
  /\ CycleEnds
  /\ UNCHANGED <<displayVars, dateVars, crash>>

Serve ==
  \/ CycleStep /\ UNCHANGED <<displayVars, dateVars, crash>>
  \/ DisplayStep /\ UNCHANGED <<dateVars, crash>>
  \/ DateStep /\ UNCHANGED <<displayVars, crash>>
  \/ StartCrash
  \/ Fault

Next ==
  \/ Serve
  \/ Receive /\ FreshDisplay /\ FreshDates /\ UNCHANGED crash
  \/ CrashStrikes

Spec == Init /\ [][Next]_vars

\* The worker runs whenever it can; callers and the crash thread need not.
FairSpec == Spec /\ WF_vars(Serve)

-----------------------------------------------------------------------------
\* The types of the request's own state.
TypeOK ==
  /\ pc \in {"config", "accept", "dispatch", "steps", "stuck", "ended"}
  /\ enabled \subseteq Setting /\ count \in 0..MaxRequests
  /\ left \in Seq(DOMAIN screens) /\ known \subseteq DOMAIN screens
  /\ entry \in 1..(Len(dates) + 1)

\* However recv() cuts a request, a handler runs for the method and, unless it
\* is written with other characters than [\w./?=&], for the route that were
\* sent, or not at all: a route inside a header or the body is taken for that
\* of the request only when the first line has none that the pattern accepts.
\* And of a request that is well formed it gets the whole body.
ParsedAsSent ==
  pc \in {"dispatch", "steps"} =>
    /\ request.method = sent.method
    /\ IF sent.route \in Route THEN request.route = sent.route
       ELSE request.route \in ToSet(sent.headers) \cup ToSet(sent.body)
    /\ WellFormed(sent) =>
         request.body = IF sent.method = "GET" THEN <<>> ELSE Braced(sent.body)

\* A well-formed request that is seen in part ends the server (by a JSON error
\* that start() does not catch) only if there is a closing brace before the end
\* of its body.
FlatBodyNeverThrows ==
  reply = "thrown" /\ WellFormed(sent) =>
    \E i \in 1..(Len(sent.body) - 1) : sent.body[i] = "}"

\* README, "Everything here is optional and can be disabled by the user in the
\* application settings": whatever requests come, a machine whose owner has
\* switched a redeem off never shows what that redeem does, and its handler
\* takes no step (of the settings that this build reads).
SwitchedOffTouchesNothing ==
  /\ {"MacroResolution", "MicroResolution"} \subseteq off =>
       \A i \in DOMAIN mode : mode[i] = StartMode
  /\ "Malware" \in off => clock = "today"
  /\ "Crash" \in off => crash = "none"
  /\ \A p \in DOMAIN SettingOf(edition) :
       request.route = p /\ done # <<>> =>
         SettingOf(edition)[p] \notin off \ NotRead(edition)

\* Every handler returns or ends the process: the loops over screens and over
\* dates come to an end, whichever of their steps fail.  Three may go on for
\* ever: /deleteRandom; /openRandom except on NT; and Linux's /wallpaper.
RequestsEnd ==
  pc \in {"dispatch", "steps"} ~>
    \/ pc \in {"accept", "ended"}
    \/ /\ pc = "stuck"
       /\ \/ request.route = "/deleteRandom"
          \/ request.route = "/openRandom" /\ edition # "nt"
          \/ request.route = "/wallpaper" /\ edition = "linux"
=============================================================================
