# Interact Box: a TLA+ model

Interact Box is a small HTTP server that lets its callers play tricks on the
machine it runs on: message boxes, wallpapers, themes, random files opened or
deleted. It is built in three editions: Linux, NT (Windows XP to Windows 10)
and Windows 98. This directory holds TLA+ modules of its core, configurations
that TLC checks, and theorems that TLAPS checks. Paths below are relative to
the repository.

    tlc -config WebServer.cfg WebServer   # a run
    tlapm WebServerProofs.tla             # the proofs of a module

## The system

| component | state it keeps | operations | what makes it correct |
|---|---|---|---|
| web server, `src/server/web_server.cpp` | `abortNow`, the route table, one connection at a time | `start`, `handleRequest`, `respondWith`, `serverAbort` | callers are served in turn and answered once at most; an abort ends the loop, from either thread; nothing is left open |
| socket backends, `src/server/socket_backend/` | the listening descriptor; on Windows Winsock's use count | `init`, `bindAndListen`, `acceptClient`, `recvData`, `sendData`, `closeClient`, `shutdown` | two threads may be in `shutdown` at once |
| HTTP request, response, route, `src/server/http/` | the parsed request, the response | `parseContent`, `setResponse`, `executeHandler` | what is parsed is the route and the body that were sent, or nothing; a refused request gets 400 or 422 |
| route table, `src/server/routes/route_handlers.cpp` | each entry's condition, copied from the configuration | one handler per route | a redeem that is switched off does nothing; handlers end, three aside |
| theme threads, `route_handler_auxiliaries.cpp` | `themeMutex`, the dialogs on the screen | `processThemeCommand`, `runThemeThread` | threads do not work each other's dialogs, and all end |
| file catalogue, `src/utils/file_util.cpp` | `files` and the lists per kind, twice (see below) | scan, delete, open, wallpaper, malware | own files are never deleted; the lists follow the disk |
| `main`, `src/main.cpp` | `threadData`, shared with the tray thread | start of everything; what follows `start()` | the process ends when it should, and not in a crash |
| tray thread, `src/threads/tray_thread.cpp` | its window, icon, message queue | `trayIconThread`, `windowProc` | Exit always works; no icon and no server is left |
| error handler, message box starter | none | `handleError`, `createBox` | (may throw themselves) |
| terminal command, `src/utils/cmd_util.cpp` | batch files in the temp directory | `executeTerminalCommand` | what is refused never runs; a URL is asked about first; a console runs the command it was opened for, or a later one |
| sound scheme, `route_handlers.cpp`, `registry_util.cpp` | six registry keys, the active pack | `processSoundCommand`, `getSoundPacks` | six sounds of one pack, or a failure was reported; the active pack is the one in place |
| resolution, `src/utils/resolution_util.cpp` | the modes of the screens | `changeResolution`, `changeColors` | a success means that the extreme width is in place |
| malware dates, `route_handlers.cpp` | the system clock | the loop of `processMalwareCommand` | a file runs on the date that the settings give it |
| crash, `src/utils/crash_util.cpp` | a detached thread | `crash`, `runCrashThread` | it strikes only when it was asked for |
| configuration, `src/utils/config_util.cpp` | the switches, read once | the constructor | every switch is read |
| logging, registry, shell, reboot, time, sudo user | none that changes | | |

How they interact. `main()` starts the tray thread (Windows), scans the disk,
builds the server and the routes, and calls `start()`. `start()` accepts one
connection, reads once, parses, starts a worker thread for `handleRequest` and
joins it: the server is sequential. The worker calls the handler, which calls
the utilities. `/theme` starts a thread that nobody joins. The tray thread and
the worker both may call `serverAbort()`. `main()` and the tray thread share a
plain struct.

What is hard here: the tray thread inside `shutdown()` at the same time as the
server thread; pointers copied before they are set, or into a stack that is
gone; detached theme threads that look for a window by its title; exceptions
out of catch clauses of thread functions, which terminate the process; lists of
files that are scanned once, copied, and go stale; recursion used as retry.
`PROJECT.json` lists each hazard at its line, with the properties about it.

## The modules

| module | models | extends or uses |
|---|---|---|
| `SerialService` | what the server promises: callers in turn, one answer each at most | |
| `WebServer` | `web_server.cpp`, both socket backends, `serverAbort` from both threads | implements `SerialService` |
| `WebServerProofs` | theorems on the loop | `WebServer`, `TLAPS` |
| `ServiceProofs` | theorems on the connections, the sockets and the refinement | `WebServerProofs` |
| `TrayLifecycle` | Windows `main()` and the tray thread | |
| `TrayLifecycleProofs` | theorems | `TrayLifecycle`, `TLAPS` |
| `ThemeThreads` | `processThemeCommand`, `runThemeThread` | |
| `ThemeThreadsProofs` | theorems | `ThemeThreads`, `TLAPS` |
| `FileCatalogue` | `FileUtil` in its three editions | |
| `MCFileCatalogue` | a machine of eight files and four directories | `FileCatalogue` |
| `FileCatalogueProofs` | theorems | `FileCatalogue`, `SequenceTheorems`, `TLAPS` |
| `SoundScheme` | `/sound`: six keys, the active pack, restarts | |
| `MCSoundScheme` | four packs, with and without the `_pack` ending | `SoundScheme` |
| `SoundSchemeProofs` | theorems | `SoundScheme`, `TLAPS` |
| `TerminalFiles` | `/terminal`: batch files, their consoles, the question about URLs | |
| `TerminalFilesProofs` | theorems | `TerminalFiles`, `TLAPS` |
| `HttpText` | what one `recv()` gives, and `parseContent` of it | |
| `RequestCycle` | configuration, route table, dispatch, the steps of the handlers and their failures | `HttpText` |
| `Display` | `/macro` and `/micro` | `RequestCycle` |
| `MalwareDates` | the dates and the clock of `/runMalware` | `RequestCycle` |
| `Redeems` | the composition, and the thread that `/crash` leaves | `Display`, `MalwareDates` |
| `MCRedeems` | requests, screens and settings | `Redeems` |
| `RedeemsProofs` | theorems | `Redeems`, `SequenceTheorems`, `WellFoundedInduction`, `TLAPS` |

Every module that describes code also holds its mutants: definitions named
`<definition>_<what is wrong>`, each a plausible bug, that no other definition
uses. Each property of a passing run is violated when some definition is
replaced by one of its mutants.

### WebServer

The worker runs only while the main thread sits in `pthread_join`, so one
program counter, `pc`, serves both. `shut` holds, for the server thread and for
the tray thread, how far a call of `serverAbort()`/`shutdown()` has come: store
`abortNow`, test the descriptor, close, forget it, `WSACleanup`. These steps
interleave in every order.

| variables | code |
|---|---|
| `pc`, `after` | position in `start()` / `handleRequest()`; where it goes on after `shutdown()` |
| `abortNow`, `listenFd` | the members of those names (`_listenSocket` on Windows) |
| `lsock`, `backlog`, `winsock`, `gone` | the kernel: listening socket, pending connections, Winsock's use count, peers that have left |
| `client`, `heap` | `clientFd`, and the connections whose `HttpRequest` is allocated |
| `sent`, `response`, `reply` | what the bytes turned out to be, the response being built, the statuses handed to `send()` |
| `seen`, `late` | history: connections ever made; connections accepted after the abort |
| `unserved` | history: connections whose worker thread could not be created |

A request is one of: nothing received, refused by the parser, a body that the
JSON parser rejects, or a route. Routes are told apart only where the code does:
`/abort`, the same in capitals, another registered route, none. A handler
returns or throws, as it likes.

A connection may be closed unanswered, and a request object may outlive its
connection. `AnsweredWhenClosed` and `OnlyRefusedRequestsLeak` name the ways in which
this happens: the peer has gone, no worker was created (`unserved`), Winsock was taken
down before the worker could send; and, for the object, a refusal by the parser, after
which nothing deletes it. A request that the parser refuses has to be answered like any
other, and a worker that ran has deleted its request even if the sending failed.

`edition` is chosen at the start: Linux has one thread, no use count, and SIGPIPE.

### TrayLifecycle

Of `start()` this module keeps where it may stay: it opens the listener (`open`,
which may fail), waits in `accept()` (`serve`), or is held by a connection and its
handler (`busy`). `listener` is the listening socket, which `serverAbort()` closes if
there is one; `early` notes that there was none, because the abort came before `start()`
had opened it. `accept()` fails on a closed listener and otherwise need not return. The
steps inside `start()` and `shutdown()` are `WebServer`'s business.

The rest of the state is `threadData` (`server`, `hwndPtr`), the pointer that the tray
thread copies into its window (`userData`), the window, icon and message queue.
`process` says how the process ended. `ReadsHwnd` notes, in `stale`, that `main()`
follows `hwndPtr` into the stack of a thread that has returned. On Windows 98 what is
announced is announced by message boxes (`OnlineBox`, `ShowLoading`); these, the box of
`main()`'s catch clause (`CatchClause`) and that of `openSettings()`' (`DispatchOther`)
may throw where nothing catches it, which terminates the process.

### ThemeThreads

One thread per theme request. A dialog is named after the thread that launched
it; `coming` are dialogs not on the screen yet, `shown` those that are. A thread
finds any dialog shown, which is what looking by title or by program means.
`hasDialog` is `WINVER < _WIN32_WINNT_7`, chosen once. `Retries` is 5 in the code.

### FileCatalogue

`main()` hands the routes a copy of the `FileUtil` it has built, but the map of
option lists still points into the original. So the model has `options` for the
original's lists, which never change after the scan (deletion only filters
copies of them), and `files`, `malwareFiles`, `wallpaperFiles` for the copy.
`pc` is the operation under way; deleting and opening take several steps, during
which the user may delete a file too (`Vanish`). `fault` stands for undefined
behaviour, a recursion without an end, or an exception out of `main()`.

The scan walks a tree of directories (`Dir`, `ParentOf`, `Roots`) as `_listFiles` does.
`path` is the stack of its calls, `roots` the directories it has yet to begin with.
The size of `files` is looked at in the loop's condition (`LoopCondition`), and `granted`
says that the next entry is taken without another look: after the condition, or as the
first turn of the `do`-`while` of Windows in each directory it enters (`Open`). So a
descent through nested directories lists its first entries unchecked; `ScanStops` says
that this never exceeds the limit by more than the one file by which `<=` does.

Wallpapers are compared as the code compares them: the catalogue's paths are in lower
case, the registry's is as it was chosen. `asListed` says whether the two agree, which
they do for a wallpaper that Interact Box put up itself and need not for one that the
user did (`UserSetsWallpaper`). `WallpaperChanges` promises another wallpaper only where
the name in the registry is spelled as listed, and that the index leaves the vector only
where it holds a single wallpaper, which has no neighbour.

The editions differ in the lists a file is added to, in how own files are passed
over (NT walks forward, the others draw again), in whether opening one of them is
possible, and in what a failed deletion does. They also read the configured
directories differently (`written`, `ReadAsMeant`): Windows 98 takes an absolute one
for relative, and Linux's `main()` hands over the desktop's name where the
configuration directory is expected, so that relative ones name nothing. For the same
reason `/wallpaper` on Linux knows no command for its "desktop" and changes nothing,
which `src/README.md` lists among the known issues; and `getCurrentWallpaper` there
calls itself for ever if it finds an empty output of `gsettings`
(`SetWallpaperLinux`). Names are model names with a
directory and a set of lists; the conversion of the malware suffix is the
function `Active`. One file that NT leaves out of every list by its name
(`malware_date_settings.exe`) is not modelled.

### SoundScheme

`scheme` says whose sound each registry place holds: of a pack, Windows' own, or
what the user had. A request draws a pack (`ChoosePack`), then writes one key per
step; `SetKeyFails` is a failure of any registry call or of an entry of the map,
before or after the value is set. `active` is `_activeSoundPack`. `before`, `torn`
and `fresh` are history. A directory's name and the pack names it ends with are
constants, because the code compares one with the other: the directories that the
installer ships end with `_pack`, so they are never recognised as the active or as
the default pack; `ActiveNotOffered` holds of directories without that ending,
and says so. `setDefaultSounds` asks for a value named `\.Default`, which no key
has, so that a request for the default pack fails at its first key; the model lets such
a request go on as well.

### TerminalFiles

`pc` walks through `executeTerminalCommand` in the order that `After` gives;
`batch` holds, for every minute, the request whose command is in
`CHAT-<minute>.BAT`, and `warning` the request that `WARNING.BAT` is about. Every
request may have a `console`, which reads its files when it gets to it, while the
server has gone on. On a yes the console goes on reading `WARNING.BAT` at the
place it had come to, so that another warning there leads it to another minute's
file or nowhere. On Windows 98 a yes runs nothing, because the console is not in
the temp directory. On Linux nothing is written and `system()` is given the name.
A batch file is read as a whole, a simplification: `cmd.exe` reads by lines. Windows
forms the file's name after the check, at the first of its file operations
(`DeleteFile`), Linux before it (`Begin`).

What a console runs is what its file holds when it comes to it, and by then another
request may have written the same file: of the same minute, or through `WARNING.BAT`.
The code does not prevent this, and the properties say exactly how far it goes. `later`
has, for each request, those that came after it. `RunsWhatWasSentOnWindows`: a console
that comes to its file finds its request's own command, unless a later request has come
to that file in between; never an earlier one's, and never nothing for no reason.
`UrlsAskedFirst`: the console of a command with a URL has asked about this very command,
unless a later request has replaced a harmless command in the file of its minute, or
has replaced what the user was asked about after the question.

### HttpText, RequestCycle, Display, MalwareDates, Redeems

These five are one specification, `Redeems!Spec`: the requests as the routes see
them, one after the other. `WebServer` has the same turn with its sockets, threads
and the abort, and takes the handler as something that returns or throws;
`RequestCycle` has the handlers and no sockets.

A request's text is a sequence of tokens: the first line's, those of its headers, those
of its body. `Received` is what one `recv()` may have given of it: any beginning.
`Outcome` is `parseContent`: 400, 422, a request, or an exception of the JSON parser,
which `start()` does not catch and which ends the process. Its patterns search the whole
text. `RoutesIn` are the places where the route's pattern matches, in a header or the
body as well as in the first line, and `FirstRoute` the one that is found; the body is
what stands between the first opening and the last closing brace of the text. Two
constants say which routes the two patterns accept. The JSON parser is a submodule; of
it, only nesting and strings are modelled. `RequestAssumption` asks of requests no more
than their types and a first line without braces. Where a property speaks of a
`WellFormed` request, it has no brace in its headers and, where its body has braces, one
JSON object from the first to the last of them; the requests of `MCRedeems` break this
too.

`ParsedAsSent` holds of every request: the method is that of the first line, and so is
the route, unless it is written with other characters than the pattern takes. Then the
code goes on searching, and a route inside a header or the body is what runs.

| variables | code |
|---|---|
| `off`, `enabled` | the configuration file's switches; the `_condition` of each `HttpRoute` |
| `sent`, `request`, `reply` | the caller's request; `HttpRequest`; the status of `HttpResponse` |
| `todo`, `done` | the calls of the handler that are still to come, and those that were made |
| `screens`, `mode`, `known`, `left` | the modes a machine lists, those in use; what `xrandr` told of, and the loop over it |
| `malware`, `dates`, `entry`, `clock` | the locals of `processMalwareCommand`; the system date |
| `crash` | the detached thread |

`StepsOf` is the route table: for each path of an edition, the calls of its handler
that can fail or change something, in their order; `SettingOf` gives the entries their
settings. A step fails with the statuses that
`handleRequest` gives to its exceptions (`Fails`); 404 and 500 are both possible where
the status depends on the words "not found" in a message. A step that may go on for
ever (`MayHang`) leaves the server `stuck`, or ends the process when its recursion has
used up the stack (`Fault`). Steps with a state of
their own are actions of `Display`, `MalwareDates` and `Redeems`. `useTts` is read on
NT only, so that elsewhere `enabled` may or may not hold it. A date of less than three
parts is read past its end (`EntryFaults`), and an output of `xrandr` that is connected
but not in use has modes without a screen to put them in (`QueryFaults`); both are
undefined.

On Windows the largest width and the largest height are gathered apart, starting from
1000, and the driver refuses a size that is no mode of the display; a machine of
`MCRedeems` has no mode of that height. On Linux only widths are compared.

## The runs

| run | question | bounds |
|---|---|---|
| `server` | on Linux and Windows, over every outcome of each call, on Windows with the tray thread's `serverAbort` at every point: are callers answered, what leaks, what is open at return; does the server implement `SerialService`; what does an abort do to the loop and to the process | 2 connections, fairness |
| `abort_route_case` (violation) | does `/abort` close the server however it is written | 1 connection is enough |
| `tray_98` | does the tray thread return clean; stale handle; does Exit end the process, and what may keep `start()` from returning | 3 messages from outside, fairness |
| `tray_unhandled_error` (violation) | can an ordinary `/abort` end in an access violation | no message from outside |
| `theme_threads` | with and without dialogs: exclusion, whose dialog is clicked, what is left on the screen, does every thread end | 3 threads, 1 retry, fairness |
| `files` | own files, one deletion per request, lists against disk, retries, wallpapers, malware opened by accident, the scan's limit over nested directories; on NT, does the forward scan end | 3 editions, relative and absolute directories, 8 files in 4 directories, three deep, a limit of 2, 1 file deleted by the user; fairness |
| `default_directory` (violation) | does the default `malware` directory hold the malware | Linux |
| `sound_scheme` | what a failure or a restart leaves in the registry; when a pack is the active one | 4 packs, Windows 10 |
| `terminal_files` | can anything refused run, or a URL unasked; whose command may a console run | 4 requests (2 with a URL, 1 refused), 2 minutes, every edition |
| `terminal_linux` (violation) | is the command run at all on Linux | 1 request is enough |
| `redeems` | which route and body does a handler get, however a request is cut or written; can a part of one end the process; does a redeem that is switched off do anything; what does a 200 of `/macro` and `/micro` mean; which handlers end | 3 requests of 37, cut anywhere, 3 configurations, 2 machines, 4 settings of dates; fairness |
| `malware_date` (violation) | is a file opened on its date | the same, with `/runMalware` only |

Why these bounds are enough. The server handles one connection at a time, so
what one leaves behind is seen by the next: two show every effect. The steps of
two `shutdown()` calls are enumerated in every order. Windows 98 is the edition
checked for the tray: it differs from NT only by the two message boxes that may
throw (`OnlineBox`, `ShowLoading`), so every behaviour of NT is one of its own;
the theorems cover both. Three messages cover Exit, close and another one in
every order, before and after `main()` posts its own. A leftover dialog needs a
failing thread, one that finds its dialog, and one after that: three. One retry
tells "found at once", "found later" and "never" apart; the code's five only
lengthen the wait. `MaxFiles` is smaller than the number of files, so that the
scan meets its limit, and larger than one, so that the forward scan wraps round
and a wallpaper has a neighbour. Three directories, one inside the other, let the scan
descend twice without looking and come back twice; Linux has a second root. Every bound
is a constant: `Client`,
`MaxMessages`, `Thread`, `Retries`, `Name`, `MaxFiles`, `MaxVanish`, `Request`,
`LastMinute`, `MaxRequests`. Sound requests are not bounded: four packs, two of them recognised by
their names, let every order of new, same and default pack follow each other. Two
requests within a minute and one in the next share or do not share a file; the
theorems hold for any number. Of the redeems, only the screens' modes, the clock and
the crash thread outlive a request: three requests let a `/crash` strike during a
third one's handler, and one resolution follow another. The requests of `MCRedeems`
are one for each entry of the table, one for each way of being refused, and some that
are not well formed or hold a second route.

Fairness. Operating systems schedule a thread that can run: weak fairness of
each thread's own steps. Nothing is assumed of callers, handlers, dialogs, the
user or the desktop, so the liveness properties name them as the only excuses:

* `AbortEndsProcess` allows a caller that sends nothing (there is no timeout), a handler
  that does not return, and an abort from the tray thread that was over while `start()`
  had not begun to open its socket, so that the socket opened later keeps `accept()`
  waiting. An abort that comes later and leaves the listener open is not excused.
* `ExitEndsProcess` allows the same: a connection that holds `start()` for ever (`busy`),
  or an abort that came too early (`early`) and a listener nobody connects to. `main()`'s
  own steps and the tray thread's are fair, `accept()`, connections and handlers are not.
* `ThemeThreadsFinish` allows a dialog that stays open. A theme thread takes the mutex
  once, so weak fairness is enough for it.
* `DeleteReturns` allows a catalogue of own files only, where the loop really has no end.
* `RequestsEnd` allows three handlers to go on for ever: `/deleteRandom`; `/openRandom`
  except on NT, which draws until the file is not an own one; and Linux's `/wallpaper`.
  Every other call of a handler is taken to return or throw: system calls and helper
  programs, whose code is not in the repository.

`CHECK_DEADLOCK FALSE` is set where the program stops: the process ends, the
server waits for a connection that never comes, or the model's supply of
connections is used up.

### What the violation runs show

* `tray_unhandled_error`. The tray thread copies `threadData->server` into its
  window when it is created, when the pointer is normally still null
  (`tray_thread.cpp:175`). After `/abort`, `main()` posts `WM_CLOSE`, whose
  handler dereferences the copy (`tray_thread.cpp:17`). The process ends in the
  handler that announces "This message should never be shown".
* `abort_route_case`. Routes are compared without regard to case, the abort is
  made for the exact text: `/ABORT` is answered "Aborted" and the server goes on.
* `default_directory`. Linux's `main()` passes the desktop and the configuration
  directory in the other order than `FileUtil` takes them (`main.cpp:360`), so the
  default, relative `malware` names no directory that the scan comes to.
* `malware_date`. The loop skips the entry that matches and sets the date of every
  one that does not (`route_handlers.cpp:150`).
* `terminal_linux`. The README says that `/terminal` creates and runs a file with the
  command; on Linux the file is run (`cmd_util.cpp:121`) and never created.

## The proofs

| theorem | states |
|---|---|
| `WebServerProofs!TypeCorrect` | `TypeOK` |
| `WebServerProofs!ClosedListenerMeansAbort` | `NeverSpinsOnClosedListener` |
| `WebServerProofs!OneLateClient` | `AtMostOneLateClient` |
| `ServiceProofs!ServiceInvariant` | `ServiceInv`, the inductive invariant itself |
| `ServiceProofs!Answered` | `AnsweredWhenClosed` |
| `ServiceProofs!LeaksAreRefusals` | `OnlyRefusedRequestsLeak` |
| `ServiceProofs!Released` | `ReleasedOnReturn` |
| `ServiceProofs!Implements` | `ImplementsService`: `WebServer` implements `SerialService` |
| `TrayLifecycleProofs!TrayTypes` | `TypeOK` |
| `TrayLifecycleProofs!TrayReturn` | `TrayReturnsClean` |
| `TrayLifecycleProofs!StaleHandle` | `StaleReadNeedsLink` |
| `ThemeThreadsProofs!ThemeTypes` | `TypeOK` |
| `ThemeThreadsProofs!MutualExclusion` | `OneAtATime` |
| `ThemeThreadsProofs!NoBusyDialogClicked` | `ClicksNoBusyDialog` |
| `ThemeThreadsProofs!ErrorsLeaveDialogs` | `LeftoversComeFromErrors` |
| `SoundSchemeProofs!InOrder` | `WrittenInOrder` |
| `SoundSchemeProofs!Whole` | `SchemeIsWhole` |
| `SoundSchemeProofs!ActiveAfterAll` | `ActiveWhenWritten` |
| `SoundSchemeProofs!NotOfferedAgain` | `ActiveNotOffered` |
| `TerminalFilesProofs!TypeCorrect` | `TypeOK` |
| `TerminalFilesProofs!NoRefusedRun` | `RefusedNeverRuns` |
| `TerminalFilesProofs!AskedFirst` | `UrlsAskedFirst` |
| `TerminalFilesProofs!FindsItsCommand` | `RunsWhatWasSentOnWindows` |
| `FileCatalogueProofs!CatalogueTypes` | `TypeOK` |
| `FileCatalogueProofs!ScanLimit` | `ScanStops` |
| `FileCatalogueProofs!NoOwnFileDeleted` | `OwnFilesSurvive` |
| `FileCatalogueProofs!OneDeletion` | `OneDeletionPerRequest` |
| `FileCatalogueProofs!ThreeAttempts` | `AtMostThreeAttempts` |
| `FileCatalogueProofs!FilesInStep` | `FilesTrackDisk` |
| `FileCatalogueProofs!MalwareInStep` | `MalwareTracksDisk` |
| `FileCatalogueProofs!AnotherWallpaper` | `WallpaperChanges` |
| `FileCatalogueProofs!NoMalwareOpened` | `OpensNoMalware` |
| `RedeemsProofs!RedeemTypes` | `TypeOK` |
| `RedeemsProofs!Steps` | `StepsInv`, the inductive invariant of the route table |
| `RedeemsProofs!OffIsOff` | `SwitchedOffTouchesNothing` |
| `RedeemsProofs!HandlersSeeWhatWasSent` | `ParsedAsSent` |
| `RedeemsProofs!OnlyNestedBodiesThrow` | `FlatBodyNeverThrows` |
| `RedeemsProofs!ResolutionsReached` | `ReachesExtreme` |

Together they state every safety invariant that a passing run checks, and every
action property and refinement. They hold for every value of the constants that
satisfies the named assumptions
of the modules: the edition is one of those built, the "nobody" values are not
members of the sets, counts are natural numbers, a request's first line has no braces
(`RequestAssumption`), Windows scans one root (`DirAssumption`), a machine has a screen and every screen lists a mode whose sizes are natural
numbers. The sets need not be finite.

*WebServer.* That the loop never spins on a closed socket depends on who can have
closed it. `LoopInv` is `TypeOK` with `ServesClient` (a connection is being served
where the code uses `clientFd`), `HasResponse`, `AbortFirst` (a thread that is past
the store in `serverAbort` has set `abortNow`, and while the loop runs nobody else
closes the listening socket) and `LateOnce` (the counter of late connections is 0
at `accept()`, and positive only with `abortNow` set). `ServesClient` and
`HasResponse` are there for the types of `reply` and `response`. The proof has a
lemma for `shutdown()`'s steps and one for the rest, a step per action.

*WebServer, connections.* `AnsweredWhenClosed` is not inductive, because a connection
is closed at one point only and what happened to it before is spread over the turn.
`ServiceInv` adds to `LoopInv` what there is at each point of a turn (`ServedInv`:
whether the request object exists, whether it was answered or has an excuse, and, once
the connection is to be closed, that the object is left only of a request that was
refused or had no worker), that
nothing has happened to connections that are still in the backlog or have not come yet
(`FreshInv`), and that nobody is served between the turns (`IdleInv`). `SocketInv` and
`WinsockInv` relate the two threads inside `shutdown()`: whoever is about to forget the
descriptor has closed the socket, and as long as the loop runs only an abort takes
Winsock down. `ReleasedOnReturn` is a consequence, and so is the refinement: every
action of `WebServer` is a step of `SerialService` or leaves its variables alone. It
needs `FreshInv` (an answer is given once) and `SocketInv` (a closed socket has no
backlog). There is a lemma for each group of actions.

*TrayLifecycle.* `DestroyedAfterStop` says that the window is destroyed only by a
handler that has stopped the server through the copied pointer, and that after it
the thread is about to leave; `WindowFacts` that the window is open wherever the
thread may take a message, that a thread returns only without an open one, that
the copied pointer is one that `main()` had published, and that the handle is
exposed only after the window exists.

*ThemeThreads.* `HolderWorks` (a thread at work owns the mutex, as long as no lock
has failed) gives exclusion. That a dialog found is the thread's own or of a
finished one needs two more facts: a dialog's thread has come as far as opening
it, and a thread that an exception has left is in a dead process.
`LeftoversComeFromErrors` compares two cardinalities, and is not inductive while a
thread works: it has put a dialog up and not yet closed one. `CountInv` counts the open
dialogs without that one: outside the work there are no more of them than threads have
failed; inside it, leaving out the thread's own dialog, or the one it has found.
A thread throws once (`ThrowsOnce`) and opens once (`OpenedOnce`), so that each failure
pays for one dialog. `CountInv` rests on mutual exclusion: one thread's dialog can be
left out because one thread is at work.

*SoundScheme.* The registry is the first `n` keys of the chosen pack on top of what
was there (`Mixture(n)`), with `n` one less than the next key while a request writes,
and 6 after one that went through. One lemma says that writing a key adds one to
`n`, one that a step which leaves the chosen pack alone leaves the mixtures alone. `ActiveIsChosen` says that the
name `FileUtil` remembers is that of the pack chosen last, except where `torn` or
`fresh` is set.

*TerminalFiles.* The properties speak of what has run, so the invariant says what a
console would find if it came to its file now. `NothingRefused`: no file holds a refused
command. The other properties compare requests by the order in which they came. `Order`
makes `later` transitive, and the request under way is the last one (`ReqIsNew`), so that
whatever it writes is later than what was there. `FilesAreOfTheirMinute`: a file holds a
command that names this file, and names are formed once (`NamedOnce`).
`WrittenWhenOpened`: between writing and opening, nobody else writes, because requests
are served one at a time; this is where a console starts. From there on,
`ConsolesInOrder` and `WarningsInOrder` say that what a console would find is its own
request's command or a later one's, and no earlier than what it has asked about.
`UnaskedIsPlain`: a console on its way to a file without a question is that of a request
without a URL, at its own minute's file.

*FileCatalogue.* The lists follow the disk because no path is listed twice: the scan
visits each path once, and while it goes on everything listed has been visited. With
that, the entry that a deletion drops was the only one of its path (`FilesInv`). The
limit of the scan is kept although entries are taken unchecked, because every unchecked
one follows a look at the size with nothing listed in between: a directory that is entered
is itself an entry that was granted, and a listing that returns comes to the condition of
the directory above (`ScanInv`). A root is entered without a look before it, which is
why Windows may begin only one, when nothing has been listed (`RootBegun`). The
malware list may come to hold a path twice, when a file is renamed to a name that is
listed already; what has to be listed once is a name that a renaming takes away, an
inert one (`MalwareInv`). A wallpaper's neighbour differs from it for the same reason
(`WallpaperInv`). Two lemmas about sequences say what `RemoveAt` and a conditional
`Append` do to such lists.

*Redeems.* `StepsInv` says that while a handler runs, its entry was asked for, its
setting is on, and what it has yet to do belongs to that entry; `StepsFit` shows the last
of the whole table, a route at a time. With it, a change of a screen's mode, of the clock
or of `crash` (three lemmas say which steps make one) means that its setting was on, and
`EffectsInv` follows. `CycleShape` says what each step of the program can be to the
request, so that the invariants about it have ten cases and not one for every action.

`ParsedAsSent` is about texts of any length. `FirstLine` says what the search for a route
finds in a beginning of a text: the first line's route if the pattern accepts it, or else
one that stands in the headers or the body. `FirstBrace` and `LastBrace` say what the two
searches of `Braced` find, `BracedBeginning` that a beginning of a text opens at the place
where the text does and closes no later, and `BodyInText` that of a well-formed request
nothing before the body has a brace. So what a part of such a request has between its
braces is a beginning of what the whole has. That is one object, of which no proper
beginning is accepted: either nothing is missing (`PartParsed`), or the parser throws
after a brace inside (`PartThrows`).

`ReachesExtreme` needs to know what the loop over a screen's modes comes to.
`FoldLeft` is defined by a recursive function over sets of indices; `FoldExists` shows
that there is one and `BestUnfolds` gives it as a function of the number of modes seen,
of which `BestOfAll` shows that its value is a mode of the screen, and as wide (or as
narrow) as all those seen. `DisplayInv` follows the handler: on Linux, a screen that
`xrandr` told of is done or still to be set; on Windows, one call does it.
`TargetReaches` is for `Max` and `Min` what `BestOfAll` is for the loop.

The inductions over numbers that this takes are made without the library's induction
rules, which take an operator: `SetInduction` states induction of a set of numbers, and
follows from `LeastNumber`, that is from the well-foundedness of `<`.

Only model-checked: liveness (`AbortEndsProcess`, `ExitEndsProcess`, `ThemeThreadsFinish`,
`DeleteReturns`, `RequestsEnd`), which is out of the prover's reach, and what the
constants of the MC modules stand for. What the JSON parser accepts, `IsObject`, is a
fold over tokens that the theorems use only through `WellFormed`; TLC evaluates it
on the bodies of `MCRedeems`.

## Where the documentation and the code part, without a run

* `src/README.md` gives `/bootImage` as a GET; the table has a POST.
* It says that `/tts` is unavailable on Windows 98; the handler runs there, if the
  field that `useTts` should have set happens to hold true.
* "Change every screen's resolution" holds on Linux; Windows changes the primary one.
* `/crash` on Linux only enables the magic key.
* A command for `/systemBox` longer than 126 characters keeps 125 of them.

## Not modelled

Texts, quoting and logs; what `JsonHelper` makes of a value once it has parsed it; the
single calls of the registry, shell, reboot, time and sudo helpers, beyond their
success or failure; the libraries and helper programs of `interact_box_libs`, which are
submodules whose code is not in the repository and which appear as external outcomes;
the installer and the build. The buffer's last byte: 8192 bytes at once put the closing
zero outside it, and what follows is the compiler's choice. Data races on the log
stream and on the plain fields of `threadData` are taken as atomic reads and writes in
any order. `main()`'s `FileUtil`, server and configuration live on its stack; what the
tray thread does with the server once `main()` has returned, and before the process is
gone, is not modelled: `Leave` ends both at once. `FileCatalogue` has the lists of the
original only as `openRandomFile` reads them, so what else differs between the two copies
has no property.

## Plan

Done, in the order of importance: `WebServer`, `TrayLifecycle`, `FileCatalogue`,
`ThemeThreads`, `SoundScheme`, `TerminalFiles`, then `HttpText`, `RequestCycle`,
`Display`, `MalwareDates` and their composition `Redeems`; and theorems for the safety
properties and the refinement of each. What is left:

1. The safety half of the liveness properties, as action properties with proofs: each
   loop has a measure that every turn of it makes smaller (`entry` and `left` in
   `Redeems`, the retries of `ThemeThreads` and of `openRandomFile`).
2. An abstract specification of a request's turn (received, answered once or the end of
   the process, with the statuses that each way of failing may give), implemented by
   `Redeems` with a proof, beside `SerialService` for the sockets.
3. The part of `malware_date` that does hold: which date a file is opened on.
