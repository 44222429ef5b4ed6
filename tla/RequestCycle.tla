---------------------------- MODULE RequestCycle ----------------------------
(***************************************************************************)
(* One request after the other, as the routes see them: the configuration  *)
(* read once, the request received and parsed, its entry of the table      *)
(* found, and the steps of its handler, each of which may fail.  (Sockets, *)
(* threads and the abort are WebServer's.)                                 *)
(***************************************************************************)
EXTENDS HttpText, FiniteSets

CONSTANTS
  Editions,   \* some of "nt", "98" and "linux"
  Requests,   \* the requests that callers send
  OffSets,    \* the settings a configuration may switch off
  MaxRequests \* bound: requests received

\* Anything may be sent, but for a brace in the first line.
ASSUME RequestAssumption ==
  \A r \in Requests :
    /\ r \in [method : STRING, route : STRING, headers : Seq(STRING), body : Seq(STRING)]
    /\ {r.method, r.route} \cap {"{", "}"} = {}

ASSUME CountAssumption == MaxRequests \in Nat

VARIABLES
  edition,
  off,      \* the settings switched off in the configuration file
  enabled,  \* the settings found on when the routes were set up
  pc,       \* "config", "accept", "dispatch", "steps", "stuck" or "ended"
  count,    \* requests received so far
  sent,     \* the last request that a caller sent
  request,  \* HttpRequest: what was made of it
  todo,     \* the steps its handler has yet to take
  done,     \* those it has taken
  reply     \* the status of its response, or "thrown" by start() itself

cycleVars == <<edition, off, enabled, pc, count, sent, request, todo, done, reply>>

Unsupported == <<"unsupported">>
Only98 == {"/bootImage", "/systemBox"}

MessagePath == {"/", "/baseData", "/abort", "/box", "/sound", "/terminal", "/tts"}
FilePath == {"/wallpaper", "/deleteRandom", "/deleteSystem", "/openRandom", "/music",
             "/runMalware"}
SystemPath == {"/reboot", "/crash", "/macro", "/micro", "/killInteractBox", "/colors",
               "/theme", "/winamp"} \cup Only98
Path == MessagePath \cup FilePath \cup SystemPath

\* The handlers, by the calls they make that can fail or change something.
MessageSteps(e, p) ==
  CASE p \in {"/", "/baseData"} -> <<>>
    [] p \in {"/abort", "/box"} -> <<"box">>
    [] p = "/sound"    -> IF e = "linux" THEN Unsupported ELSE <<"sounds", "box">>
    [] p = "/terminal" -> <<"field", "terminal">>
    [] p = "/tts"      -> <<"field", IF e = "nt" THEN "shell" ELSE "system">>

FileSteps(p) ==
  CASE p = "/wallpaper"    -> <<"wallpaper">>
    [] p = "/deleteRandom" -> <<"delete">>
    [] p = "/deleteSystem" -> <<"open">>
    [] p \in {"/openRandom", "/music"} -> <<"draw", "open">>
    [] p = "/runMalware"   -> <<"rename", "settings", "dates", "open">>

SystemSteps(e, p) ==
  CASE p = "/reboot"          -> <<IF e = "linux" THEN "system" ELSE "shell">>
    [] p = "/crash"           -> <<"crash">>
    [] p \in {"/macro", "/micro"} -> <<"resolution">>
    [] p = "/killInteractBox" -> <<"fault">>
    [] p = "/colors"    -> IF e = "linux" THEN Unsupported ELSE <<"field", "colors">>
    [] p = "/theme"     -> IF e = "linux" THEN Unsupported ELSE <<"draw">>
    [] p = "/winamp"    -> IF e = "linux" THEN Unsupported ELSE <<"item", "open">>
    [] p = "/bootImage" -> IF e # "98" THEN Unsupported ELSE <<"field", "draw", "copy">>
    [] p = "/systemBox" -> IF e # "98" THEN Unsupported
                           ELSE <<"check file", "field", "truncate", "shell">>

StepsOf(e, p) ==
  CASE p \in MessagePath -> MessageSteps(e, p)
    [] p \in FilePath    -> FileSteps(p)
    [] p \in SystemPath  -> SystemSteps(e, p)

MethodOf(p) ==
  IF p \in {"/box", "/terminal", "/tts", "/colors"} \cup Only98 THEN "POST" ELSE "GET"

\* The setting that each entry is given; the others have none.
SettingName(p) ==
  CASE p = "/box"       -> "MessageBox"   [] p = "/sound"        -> "SysSounds"
    [] p = "/terminal"  -> "Terminal"     [] p = "/tts"          -> "Tts"
    [] p = "/wallpaper" -> "Wallpapers"   [] p = "/deleteRandom" -> "DeleteRandom"
    [] p = "/music"     -> "Music"        [] p = "/deleteSystem" -> "DeleteSystem"
    [] p = "/reboot"    -> "Reboot"       [] p = "/openRandom"   -> "OpenRandom"
    [] p = "/crash"     -> "Crash"        [] p = "/runMalware"   -> "Malware"
    [] p = "/colors"    -> "Colors"       [] p = "/macro"        -> "MacroResolution"
    [] p = "/theme"     -> "Themes"       [] p = "/micro"        -> "MicroResolution"
    [] p = "/winamp"    -> "Winamp"       [] p = "/systemBox"    -> "SystemBox"
    [] p = "/bootImage" -> "BootAndShutdownImages"

SettingOf(e) ==
  [p \in Path \ ({"/", "/baseData", "/abort", "/killInteractBox"} \cup
                 (IF e = "98" THEN {} ELSE Only98)) |-> SettingName(p)]

Setting == {SettingOf("98")[p] : p \in DOMAIN SettingOf("98")}

\* Windows 98 and Linux never read useTts: their field stays uninitialised.
NotRead(e) == IF e = "nt" THEN {} ELSE {"Tts"}

\* Statuses that the exceptions of a step are answered with.
Fails(e, step) ==
  CASE step \in {"field", "settings"}   -> {"400", "500"}
    [] step \in {"box", "delete", "wallpaper", "copy", "sounds", "draw", "rename"} ->
         {"404", "500"}
    [] step \in {"terminal", "truncate"} -> {"500"}
    [] step = "check file"              -> {"424"}
    [] step \in {"open", "shell", "colors"} /\ e # "linux" -> {"500"}
    [] step = "unsupported"             -> {"501"}
    [] OTHER                            -> {}

\* Steps with a state of their own, in the modules that extend this one.
Special == {"rename", "settings", "dates", "resolution", "screens", "crash", "fault"}

NoRequest == [method |-> "none", route |-> "none", body |-> <<>>]
NotSent == [method |-> "none", route |-> "none", headers |-> <<>>, body |-> <<>>]

CycleInit ==
  /\ edition \in Editions
  /\ off \in OffSets
  /\ enabled = {}
  /\ pc = "config"
  /\ count = 0
  /\ sent = NotSent /\ request = NoRequest
  /\ todo = <<>> /\ done = <<>>
  /\ reply = "none"

\* ConfigUtil's constructor, and the condition that each HttpRoute copies; any
\* error in the file ends the process.
ReadConfig ==
  /\ pc = "config"
  /\ \/ /\ pc' = "accept"
        /\ \E garbage \in SUBSET NotRead(edition) :
             enabled' = (Setting \ (off \cup NotRead(edition))) \cup garbage
     \/ /\ pc' = "ended"
        /\ UNCHANGED enabled
  /\ UNCHANGED <<edition, off, count, sent, request, todo, done, reply>>

Receive ==
  /\ pc = "accept"
  /\ count < MaxRequests
  /\ count' = count + 1
  /\ \E r \in Requests : \E t \in Received(r) :
       /\ sent' = r
       /\ CASE Outcome(t) = "parsed" ->
                 pc' = "dispatch" /\ request' = Parsed(t) /\ reply' = "none"
            [] Outcome(t) = "throws" ->
                 pc' = "ended" /\ request' = NoRequest /\ reply' = "thrown"
            [] OTHER ->
                 pc' = "accept" /\ request' = NoRequest /\ reply' = Outcome(t)
  /\ todo' = <<>> /\ done' = <<>>
  /\ UNCHANGED <<edition, off, enabled>>

Respond(status) ==
  /\ reply' = status
  /\ pc' = "accept"
  /\ todo' = <<>>

Found == request.route \in Path /\ request.method = MethodOf(request.route)

\* Mutant: the condition of an entry is not looked at.
Enabled_always == TRUE

\* HttpRoute::executeHandler's condition; an entry without one is enabled.
Enabled ==
  request.route \in DOMAIN SettingOf(edition)
    => SettingOf(edition)[request.route] \in enabled

Dispatch ==
  /\ pc = "dispatch"
  /\ \/ ~Found /\ Respond("404")
     \/ Found /\ ~Enabled /\ Respond("403")
     \/ /\ Found /\ Enabled
        /\ pc' = "steps"
        /\ todo' = StepsOf(edition, request.route)
        /\ UNCHANGED reply
  /\ UNCHANGED <<edition, off, enabled, count, sent, request, done>>

At(step) == pc = "steps" /\ todo # <<>> /\ Head(todo) = step

\* The step at hand is done, and rest is what there is still to do.
GoOn(rest) ==
  /\ todo' = rest
  /\ done' = Append(done, Head(todo))
  /\ UNCHANGED <<edition, off, enabled, pc, count, sent, request, reply>>

TakeStep ==
  /\ pc = "steps" /\ todo # <<>>
  /\ Head(todo) \notin Special \cup {"unsupported"}
  /\ GoOn(Tail(todo))

\* Calls that may never return: deleteRandomFile, and a draw of openRandomFile
\* before NT and on Linux, go on until they meet a file that is not Interact
\* Box's own; Linux's getCurrentWallpaper calls itself.
MayHang(step) ==
  \/ step = "delete"
  \/ step = "draw" /\ request.route = "/openRandom" /\ edition # "nt"
  \/ step = "wallpaper" /\ edition = "linux"

Hang ==
  /\ pc = "steps" /\ todo # <<>> /\ MayHang(Head(todo))
  /\ pc' = "stuck"
  /\ UNCHANGED <<edition, off, enabled, count, sent, request, todo, done, reply>>

\* An exception of the step, as handleRequest's catch clauses answer it.
FailStep ==
  /\ pc = "steps" /\ todo # <<>>
  /\ \E s \in Fails(edition, Head(todo)) : Respond(s)
  /\ UNCHANGED <<edition, off, enabled, count, sent, request, done>>

Finish ==
  /\ pc = "steps" /\ todo = <<>>
  /\ Respond("200")
  /\ UNCHANGED <<edition, off, enabled, count, sent, request, done>>

CycleEnds ==
  /\ pc' = "ended"
  /\ UNCHANGED <<edition, off, enabled, count, sent, request, todo, done, reply>>

CycleStep == ReadConfig \/ Dispatch \/ TakeStep \/ Hang \/ FailStep \/ Finish
=============================================================================
