--------------------------- MODULE FileCatalogue ---------------------------
(***************************************************************************)
(* FileUtil: the catalogue of the machine's files that the constructor     *)
(* scans once, and the operations that the routes call on it, against the  *)
(* disk that they, and the user, change behind its back.                   *)
(*                                                                         *)
(* main() hands the routes a COPY of the FileUtil it has built, but the    *)
(* pointers in _mapOfOpenableOptions still lead to the original's vectors: *)
(* openRandomFile reads the original's lists (options here), every other   *)
(* operation those of the copy.                                            *)
(***************************************************************************)
EXTENDS Naturals, Sequences, SequencesExt, FiniteSets

CONSTANTS
  Editions,   \* some of "nt", "98" and "linux"
  Name,       \* file paths
  Own,        \* those inside workingDirectory, Interact Box's own files
  Inert,      \* those with the .inert suffix in the malware directory
  Active,     \* the name each of them is given when it is run
  DirOf,      \* "malware", "wallpaper" or "none": the directory a path is in
  TypesOf,    \* the lists its extension belongs to
  Image,      \* those with an image's extension
  Installed,  \* the files there are at the start, for each edition
  Dir,        \* directories
  ParentOf,   \* the directory that a file or a directory is an entry of
  Roots,      \* where the scan begins: "C:", or on Linux "/home" and "/etc"
  Written,    \* how the directories may be written in the configuration file
  MaxFiles,   \* MAX_FILE_VEC_SIZE
  MaxVanish   \* bound: files that the user deletes

Kind == {"default", "music"}
NoPath == "no path"

ASSUME EditionAssumption == Editions \subseteq {"nt", "98", "linux"}
ASSUME NameAssumption ==
  /\ NoPath \notin Name
  /\ Own \subseteq Name /\ Image \subseteq Name
  /\ Inert \subseteq {n \in Name : DirOf[n] = "malware"}
  /\ Active \in [Inert -> Name \ Inert]
  /\ DirOf \in [Name -> {"malware", "wallpaper", "none"}]
  /\ TypesOf \in [Name -> SUBSET Kind]
  /\ Installed \in [Editions -> SUBSET (Name \ {Active[n] : n \in Inert})]
ASSUME DirAssumption ==
  /\ Dir \cap Name = {}
  /\ ParentOf \in [Name \cup Dir -> Dir \cup {NoPath}]
  /\ Roots \in [Editions -> Seq(Dir)]
  /\ \A e \in Editions : e # "linux" => Len(Roots[e]) = 1
ASSUME WrittenAssumption == Written \subseteq {"relative", "absolute"}
ASSUME BoundAssumption == MaxFiles \in Nat /\ MaxVanish \in Nat

VARIABLES
  edition,        \* which build runs
  written,        \* how wallpaperDir and malwareDir are written
  pc,             \* the operation under way
  disk,           \* the files that exist
  roots,          \* roots the scan has yet to begin with
  path,           \* the directories being listed, each an entry of the one before
  granted,        \* the next entry is taken without another look at the size
  visited,        \* paths the scan has come to
  files,          \* FileUtil::files
  options,        \* the lists _mapOfOpenableOptions points to
  malwareFiles, wallpaperFiles,
  at,             \* deleteRandomFile: the index being considered
  kind, attempts, \* openRandomFile: its type, and openFile calls so far
  current,        \* the current wallpaper
  asListed,       \* whether the registry spells it as the catalogue does
  last,           \* the last operation that succeeded, and on which file
  deleted, renamed, vanished  \* history: paths gone from the disk, and why

walkVars == <<roots, path, granted, visited>>
scanVars == <<walkVars, options, wallpaperFiles>>
paperVars == <<current, asListed>>
callVars == <<at, kind, attempts>>
history == <<deleted, renamed, vanished>>
vars == <<edition, written, pc, disk, scanVars, files, malwareFiles, callVars,
          paperVars, last, history>>

\* What an operation leaves behind: for a wallpaper also which one was up, and
\* whether the registry spelled it as the catalogue does.
Result(op, f) == [op |-> op, file |-> f, before |-> NoPath, known |-> TRUE]
Nothing == Result("none", NoPath)

Init ==
  /\ edition \in Editions
  /\ written \in Written
  /\ pc = "scan"
  /\ disk = Installed[edition]
  /\ roots = Roots[edition] /\ path = <<>> /\ granted = FALSE
  /\ visited = {}
  /\ files = <<>>
  /\ options = [k \in Kind |-> <<>>]
  /\ malwareFiles = <<>> /\ wallpaperFiles = <<>>
  /\ at = 1 /\ kind = "default" /\ attempts = 0
  /\ current \in {NoPath} \cup (Image \cap Installed[edition])
  /\ asListed \in BOOLEAN
  /\ last = Nothing
  /\ deleted = {} /\ renamed = {} /\ vanished = {}

-----------------------------------------------------------------------------
(* The scan: _listFiles and _addToOpenableOptions.                         *)

\* _getFullPath makes a relative directory one of the working directory, or on
\* Linux of the configuration directory.  Windows 98 takes "C:\malware" for
\* relative (its pattern wants a blank after the colon); and main() of Linux
\* hands over the desktop's name where the constructor takes the configuration
\* directory.  A directory misread in this way holds no file of the scan.
ReadAsMeant ==
  \/ edition = "nt"
  \/ edition = "98" /\ written = "relative"
  \/ edition = "linux" /\ written = "absolute"

\* The configured directory that a path is found to be in.
FoundIn(n) == IF ReadAsMeant THEN DirOf[n] ELSE "none"

\* The lists a path is added to for its extension.  Windows 98 and Linux stop
\* at the first directory or extension that matches; NT goes on to every one.
FirstMatch(n) ==
  IF "default" \in TypesOf[n] THEN {"default"} ELSE TypesOf[n]

\* Mutant: a path of a configured directory goes on to the extensions.
KindsOf_noReturn(n) == IF edition = "nt" THEN TypesOf[n] ELSE FirstMatch(n)

KindsOf(n) ==
  IF edition = "nt" THEN TypesOf[n]
  ELSE IF FoundIn(n) = "none" THEN FirstMatch(n) ELSE {}

RoomLeft == Len(files) <= MaxFiles

AddIf(list, n, wanted) == IF wanted THEN Append(list, n) ELSE list

\* What the directory being listed still has to offer.
Entries(d) == {e \in (disk \cup Dir) \ visited : ParentOf[e] = d}

\* _listFiles(d).  The body of the do-while of Windows runs once before the size
\* is looked at, the for loop of Linux looks first.  A directory that cannot be
\* read is left out on NT; elsewhere the exception leaves the constructor and
\* main().
Open(d) ==
  \/ /\ path' = Append(path, d)
     /\ granted' = (edition # "linux")
     /\ UNCHANGED pc
  \/ /\ granted' = FALSE
     /\ pc' = IF edition = "nt" THEN pc ELSE "fault"
     /\ UNCHANGED path

BeginRoot ==
  /\ pc = "scan" /\ path = <<>> /\ roots # <<>>
  /\ Open(Head(roots))
  /\ roots' = Tail(roots)
  /\ UNCHANGED <<edition, written, disk, visited, files, options, malwareFiles,
                 wallpaperFiles, callVars, paperVars, last, history>>

ListFile(n) ==
  /\ pc = "scan" /\ granted
  /\ n \in Entries(Last(path))
  /\ granted' = FALSE
  /\ visited' = visited \cup {n}
  /\ files' = Append(files, n)
  /\ options' = [k \in Kind |-> AddIf(options[k], n, k \in KindsOf(n))]
  /\ malwareFiles' = AddIf(malwareFiles, n, FoundIn(n) = "malware")
  /\ wallpaperFiles' =
       AddIf(wallpaperFiles, n, FoundIn(n) = "wallpaper" /\ n \in Image)
  /\ UNCHANGED <<edition, written, pc, disk, roots, path, callVars, paperVars, last,
                 history>>

\* The entry is a directory: its own entries come before the next one.
EnterDirectory(d) ==
  /\ pc = "scan" /\ granted
  /\ d \in Entries(Last(path))
  /\ visited' = visited \cup {d}
  /\ Open(d)
  /\ UNCHANGED <<edition, written, disk, roots, files, options, malwareFiles,
                 wallpaperFiles, callVars, paperVars, last, history>>

\* The entry is "." or "..", or on Linux not a regular file.
SkipEntry ==
  /\ pc = "scan" /\ granted
  /\ granted' = FALSE
  /\ UNCHANGED <<edition, written, pc, disk, roots, path, visited, files, options,
                 malwareFiles, wallpaperFiles, callVars, paperVars, last, history>>

\* Mutant: when the listing of a subdirectory ends, the listing of the directory
\* above goes on with its next entry without looking at the size.
LoopCondition_onReturn ==
  /\ pc = "scan" /\ ~granted /\ path # <<>>
  /\ IF Entries(Last(path)) # {} /\ RoomLeft
       THEN granted' = TRUE /\ UNCHANGED path
       ELSE path' = Front(path) /\ granted' = (Len(path) > 1)
  /\ UNCHANGED <<edition, written, pc, disk, roots, visited, files, options,
                 malwareFiles, wallpaperFiles, callVars, paperVars, last, history>>

\* The listing goes on while there are entries and the size allows it; or else
\* it ends, and the listing of the directory above comes to its own condition.
LoopCondition ==
  /\ pc = "scan" /\ ~granted /\ path # <<>>
  /\ IF Entries(Last(path)) # {} /\ RoomLeft
       THEN granted' = TRUE /\ UNCHANGED path
       ELSE path' = Front(path) /\ UNCHANGED granted
  /\ UNCHANGED <<edition, written, pc, disk, roots, visited, files, options,
                 malwareFiles, wallpaperFiles, callVars, paperVars, last, history>>

FinishScan ==
  /\ pc = "scan" /\ path = <<>> /\ roots = <<>>
  /\ pc' = "idle"
  /\ visited' = {}
  /\ UNCHANGED <<edition, written, disk, roots, path, granted, files, options,
                 malwareFiles, wallpaperFiles, callVars, paperVars, last, history>>

-----------------------------------------------------------------------------
(* deleteRandomFile: choose an index, move on while the file is Interact   *)
(* Box's own, delete, drop the entry; start again when the deletion fails. *)
(* The lists of _mapOfOpenableOptions are only filtered in copies, so they *)
(* stay as they are.                                                       *)

\* getRandomIndex of an empty vector has no index to return.
ChooseIndex ==
  /\ pc = "delete"
  /\ IF files = <<>>
       THEN pc' = "fault" /\ UNCHANGED at
       ELSE pc' = "check" /\ at' \in 1..Len(files)
  /\ UNCHANGED <<edition, written, disk, scanVars, files, malwareFiles, kind,
                 attempts,
                 paperVars, last, history>>

BeginDelete ==
  /\ pc = "idle"
  /\ pc' = "delete"
  /\ last' = Nothing
  /\ UNCHANGED <<edition, written, disk, scanVars, files, malwareFiles,
                 callVars,
                 paperVars, history>>

\* Mutant: the scan forward turns round one entry too early.
NextIndex_short(i) == IF i + 1 >= Len(files) THEN 1 ELSE i + 1

NextIndex(i) == IF i >= Len(files) THEN 1 ELSE i + 1

\* NT looks at the next entry; the others draw again.
SkipOwnFile ==
  /\ pc = "check"
  /\ files[at] \in Own
  /\ at' \in IF edition = "nt" THEN {NextIndex(at)} ELSE 1..Len(files)
  /\ UNCHANGED <<edition, written, pc, disk, scanVars, files, malwareFiles,
                 kind,
                 attempts, paperVars, last, history>>

\* Mutant: the entry stays in files when its file is deleted.
DeleteChosen_keepsEntry ==
  /\ pc = "check"
  /\ disk' = disk \ {files[at]}
  /\ deleted' = deleted \cup {files[at]}
  /\ last' = Result("delete", files[at])
  /\ pc' = "idle" /\ at' = 1
  /\ UNCHANGED <<edition, written, scanVars, files, malwareFiles, kind,
                 attempts,
                 paperVars, renamed, vanished>>

\* Mutant: the check for Interact Box's own files is dropped.
DeleteChosen_anyFile ==
  /\ pc = "check"
  /\ files[at] \in disk
  /\ files' = RemoveAt(files, at)
  /\ disk' = disk \ {files[at]}
  /\ deleted' = deleted \cup {files[at]}
  /\ last' = Result("delete", files[at])
  /\ pc' = "idle" /\ at' = 1
  /\ UNCHANGED <<edition, written, scanVars, malwareFiles, kind, attempts,
                 paperVars, renamed, vanished>>

\* Mutant: deleteRandomFile calls itself after a deletion that succeeded.
DeleteChosen_repeats ==
  /\ pc = "check"
  /\ files[at] \notin Own
  /\ files[at] \in disk
  /\ files' = RemoveAt(files, at)
  /\ disk' = disk \ {files[at]}
  /\ deleted' = deleted \cup {files[at]}
  /\ last' = Result("delete", files[at])
  /\ pc' = "delete" /\ at' = 1
  /\ UNCHANGED <<edition, written, scanVars, malwareFiles, kind, attempts,
                 paperVars, renamed, vanished>>

DeleteChosen ==
  /\ pc = "check"
  /\ files[at] \notin Own
  /\ files[at] \in disk
  /\ files' = RemoveAt(files, at)
  /\ disk' = disk \ {files[at]}
  /\ deleted' = deleted \cup {files[at]}
  /\ last' = Result("delete", files[at])
  /\ pc' = "idle" /\ at' = 1
  /\ UNCHANGED <<edition, written, scanVars, malwareFiles, kind, attempts,
                 paperVars, renamed, vanished>>

\* The deletion fails: the entry is dropped all the same, and deleteRandomFile
\* calls itself.  On Linux remove() returns false only for a path that does
\* not exist; any other failure is an exception.
DeletionFails ==
  /\ pc = "check"
  /\ files[at] \notin Own
  /\ \/ /\ edition = "linux" => files[at] \notin disk
        /\ files' = RemoveAt(files, at)
        /\ pc' = "delete"
     \/ /\ edition = "linux" /\ files[at] \in disk
        /\ pc' = "idle"
        /\ UNCHANGED files
  /\ at' = 1
  /\ UNCHANGED <<edition, written, disk, scanVars, malwareFiles, kind,
                 attempts, paperVars,
                 last, history>>

-----------------------------------------------------------------------------
(* openRandomFile                                                          *)

BeginOpen ==
  /\ pc = "idle"
  /\ \E k \in Kind :
       /\ options[k] # <<>>
       /\ kind' = k
  /\ pc' = "open"
  /\ attempts' = 0
  /\ last' = Nothing
  /\ UNCHANGED <<edition, written, disk, scanVars, files, malwareFiles, at,
                 paperVars, history>>

\* What may be drawn: NT draws once, the others until it is not an own file.
Drawable ==
  {i \in 1..Len(options[kind]) :
     edition # "nt" /\ kind = "default" => options[kind][i] \notin Own}

OpenSucceeds ==
  /\ pc = "open"
  /\ \E i \in Drawable :
       /\ edition = "linux" \/ options[kind][i] \in disk
       /\ last' = Result("open", options[kind][i])
  /\ attempts' = attempts + 1
  /\ pc' = "idle"
  /\ UNCHANGED <<edition, written, disk, scanVars, files, malwareFiles, at,
                 kind,
                 paperVars, history>>

\* Mutant: the last retry is not the last.
RetriesLeft_one == attempts <= 2

\* retries < 2: the third failure is passed on.
RetriesLeft == attempts < 2

\* ShellExecute fails (Linux cannot tell).  The entry is erased from a local
\* copy of the list, so the next attempt may draw it again.
OpenFails ==
  /\ pc = "open"
  /\ edition # "linux"
  /\ Drawable # {}
  /\ pc' = IF RetriesLeft THEN "open" ELSE "idle"
  /\ attempts' = attempts + 1
  /\ UNCHANGED <<edition, written, disk, scanVars, files, malwareFiles, at,
                 kind,
                 paperVars, last, history>>

-----------------------------------------------------------------------------
(* getRandomMalware and setWallpaper, each in one call of the worker.      *)

\* Mutant: the new name is returned but not kept.
KeepName_not(i) == malwareFiles
KeepName(i) == [malwareFiles EXCEPT ![i] = Active[malwareFiles[i]]]

RenameMalware ==
  /\ pc = "idle"
  /\ \E i \in 1..Len(malwareFiles) :
       /\ malwareFiles[i] \in Inert \cap disk
       /\ disk' = (disk \ {malwareFiles[i]}) \cup {Active[malwareFiles[i]]}
       /\ renamed' = renamed \cup {malwareFiles[i]}
       /\ last' = Result("malware", Active[malwareFiles[i]])
       /\ malwareFiles' = KeepName(i)
  /\ UNCHANGED <<edition, written, pc, scanVars, files, callVars, paperVars, deleted,
                 vanished>>

\* Mutant: the neighbour of the last wallpaper is the last wallpaper.
Neighbour_self(i) == IF i = Len(wallpaperFiles) THEN i ELSE i + 1

Neighbour(i) == IF i = Len(wallpaperFiles) THEN i - 1 ELSE i + 1

\* processWallpaperCommand compares what the registry says, as it is, with the
\* catalogue's lower-case paths: a wallpaper that the user set with capitals is
\* not recognised.  On Linux what is read is never the path of a wallpaper.
CurrentRead == IF edition # "linux" /\ asListed THEN current ELSE NoPath

\* The drawn wallpaper, or its neighbour when it is read to be the current one.
\* With a single wallpaper that neighbour is outside the vector.
SetWallpaper ==
  /\ pc = "idle" /\ edition # "linux"
  /\ \E i \in 1..Len(wallpaperFiles) :
       LET j == IF wallpaperFiles[i] = CurrentRead THEN Neighbour(i) ELSE i
           f == IF j = 0 THEN NoPath ELSE wallpaperFiles[j]
       IN  /\ last' = [op |-> "wallpaper", file |-> f, before |-> current,
                       known |-> asListed]
           /\ IF j = 0
                THEN pc' = "fault" /\ UNCHANGED paperVars
                ELSE current' = f /\ asListed' = TRUE /\ UNCHANGED pc
  /\ UNCHANGED <<edition, written, disk, scanVars, files, malwareFiles, callVars,
                 history>>

\* On Linux the FileUtil holds the configuration directory for the desktop's
\* name: it knows no command for that desktop, runs an empty one, and reports
\* success.  And getCurrentWallpaper, which never runs its command, calls itself
\* for ever when it finds no output of gsettings.
SetWallpaperLinux ==
  /\ pc = "idle" /\ edition = "linux"
  /\ \E i \in 1..Len(wallpaperFiles) :
       \/ last' = Result("wallpaper", wallpaperFiles[i]) /\ UNCHANGED pc
       \/ pc' = "fault" /\ UNCHANGED last
  /\ UNCHANGED <<edition, written, disk, scanVars, files, malwareFiles, callVars,
                 paperVars, history>>

-----------------------------------------------------------------------------
\* The user deletes a file while Interact Box runs.
Vanish(n) ==
  /\ pc # "scan"
  /\ n \in disk
  /\ Cardinality(vanished) < MaxVanish
  /\ disk' = disk \ {n}
  /\ vanished' = vanished \cup {n}
  /\ UNCHANGED <<edition, written, pc, scanVars, files, malwareFiles,
                 callVars, paperVars,
                 last, deleted, renamed>>

\* The user puts up a wallpaper, and the registry has its name as it was chosen
\* (on Linux Interact Box does not learn of it).
UserSetsWallpaper(n) ==
  /\ pc = "idle" /\ edition # "linux"
  /\ n \in Image \cap disk
  /\ current' = n
  /\ asListed' \in BOOLEAN
  /\ UNCHANGED <<edition, written, pc, disk, scanVars, files, malwareFiles, callVars,
                 last, history>>

ScanStep ==
  \/ BeginRoot
  \/ \E n \in Name : ListFile(n)
  \/ \E d \in Dir : EnterDirectory(d)
  \/ SkipEntry
  \/ LoopCondition
  \/ FinishScan

DeleteStep == ChooseIndex \/ SkipOwnFile \/ DeleteChosen \/ DeletionFails

Next ==
  \/ ScanStep
  \/ BeginDelete \/ DeleteStep
  \/ BeginOpen \/ OpenSucceeds \/ OpenFails
  \/ RenameMalware
  \/ SetWallpaper \/ SetWallpaperLinux
  \/ \E n \in Name : Vanish(n) \/ UserSetsWallpaper(n)

Spec == Init /\ [][Next]_vars

\* A call that has begun goes on.
FairSpec == Spec /\ WF_vars(DeleteStep)

-----------------------------------------------------------------------------
\* The types of the variables.
TypeOK ==
  /\ edition \in Editions /\ written \in Written
  /\ pc \in {"scan", "idle", "delete", "check", "open", "fault"}
  /\ disk \subseteq Name /\ visited \subseteq Name \cup Dir
  /\ roots \in Seq(Dir) /\ path \in Seq(Dir) /\ granted \in BOOLEAN
  /\ files \in Seq(Name)
  /\ options \in [Kind -> Seq(Name)]
  /\ malwareFiles \in Seq(Name) /\ wallpaperFiles \in Seq(Name)
  /\ at \in Nat /\ kind \in Kind /\ attempts \in Nat
  /\ current \in Name \cup {NoPath} /\ asListed \in BOOLEAN
  /\ last \in [op : {"none", "delete", "open", "malware", "wallpaper"},
               file : Name \cup {NoPath}, before : Name \cup {NoPath}, known : BOOLEAN]
  /\ deleted \subseteq Name /\ renamed \subseteq Name /\ vanished \subseteq Name

Listed(list) == {list[i] : i \in 1..Len(list)}

\* The scan stops one file past its limit, although each directory that Windows
\* descends into lists its first entry, and each directory above goes on after it,
\* without the limit having been looked at in between.
ScanStops == Len(files) <= MaxFiles + 1

\* deleteRandomFile never deletes a file of Interact Box's own directory.
OwnFilesSurvive == deleted \cap Own = {}

\* A request deletes one file: the recursion after a failure goes on only
\* while nothing has been deleted, and stops with the first success.
OneDeletionPerRequest ==
  pc \in {"delete", "check"} => last.op # "delete"

\* A path listed in files that no longer exists was renamed by a malware
\* request or deleted by the user: deletions keep files in step with the disk.
FilesTrackDisk == Listed(files) \ disk \subseteq renamed \cup vanished

\* A path in malwareFiles that no longer exists was deleted, by a request or
\* by the user: renaming keeps malwareFiles in step with the disk.
MalwareTracksDisk == Listed(malwareFiles) \ disk \subseteq deleted \cup vanished

\* openRandomFile calls openFile three times at most.
AtMostThreeAttempts == attempts <= 3

\* A wallpaper request on Windows puts up another wallpaper than was up, unless
\* the registry spelled that one in another way than the catalogue; and it leaves
\* the vector only where there is a single wallpaper.
WallpaperChanges ==
  edition # "linux" /\ last.op = "wallpaper" =>
    IF last.file = NoPath THEN Len(wallpaperFiles) = 1
    ELSE last.known => last.file # last.before

\* On Windows 98 and Linux openRandomFile opens no file of the malware
\* directory, whatever its extension, if that directory is read as it was
\* meant: what the early return of _addToOpenableOptions is for.
OpensNoMalware ==
  edition # "nt" /\ ReadAsMeant /\ last.op = "open" => DirOf[last.file] # "malware"

\* README, "otherwise the default `malware` subdirectory will be used", which
\* the configuration file names by a relative path: what the scan lists of the
\* malware directory can be drawn by /runMalware, unless it was renamed since.
MalwareIsCatalogued ==
  \A n \in Listed(files) \ renamed : DirOf[n] = "malware" => n \in Listed(malwareFiles)

\* On NT deleteRandomFile returns (or runs into the empty vector) unless every
\* file still listed is Interact Box's own: the scan forward misses no entry.
\* (The other editions draw until a file is not their own, which ends with
\* probability one but not under fairness.)
DeleteReturns ==
  edition = "nt" /\ pc = "delete"
    ~> (pc \in {"idle", "fault"} \/ Listed(files) \subseteq Own)
=============================================================================
