------------------------ MODULE FileCatalogueProofs ------------------------
(***************************************************************************)
(* What holds of the catalogue however requests, failures and the user's   *)
(* own deletions follow each other: for any set of names, any directories  *)
(* and extensions, any limit, and each edition.                            *)
(***************************************************************************)
EXTENDS FileCatalogue, SequenceTheorems, TLAPS

Distinct(list) == \A i, j \in 1..Len(list) : list[i] = list[j] => i = j

\* The sequences are of names, and the index points into files.
Typed ==
  /\ TypeOK
  /\ pc = "check" => at \in 1..Len(files)

-----------------------------------------------------------------------------
(* Sequences                                                               *)

\* Removing an entry moves those behind it by one and leaves the others.
LEMMA RemoveAtEntries ==
  ASSUME NEW S, NEW s \in Seq(S), NEW i \in 1..Len(s)
  PROVE  /\ RemoveAt(s, i) \in Seq(S)
         /\ Len(RemoveAt(s, i)) = Len(s) - 1
         /\ \A j \in 1..(Len(s) - 1) :
              RemoveAt(s, i)[j] = IF j < i THEN s[j] ELSE s[j + 1]
<1>1. SubSeq(s, 1, i - 1) \in Seq(S) /\ Len(SubSeq(s, 1, i - 1)) = i - 1
      /\ \A j \in 1..(i - 1) : SubSeq(s, 1, i - 1)[j] = s[j]
  OBVIOUS
<1>2. SubSeq(s, i + 1, Len(s)) \in Seq(S)
      /\ Len(SubSeq(s, i + 1, Len(s))) = Len(s) - i
      /\ \A j \in 1..(Len(s) - i) : SubSeq(s, i + 1, Len(s))[j] = s[i + j]
  OBVIOUS
<1> HIDE DEF RemoveAt
<1>3. RemoveAt(s, i) = SubSeq(s, 1, i - 1) \o SubSeq(s, i + 1, Len(s))
  BY DEF RemoveAt
<1> DEFINE a == SubSeq(s, 1, i - 1)
           b == SubSeq(s, i + 1, Len(s))
<1>4. a \in Seq(S) /\ Len(a) = i - 1 /\ b \in Seq(S) /\ Len(b) = Len(s) - i
      /\ (\A j \in 1..(i - 1) : a[j] = s[j])
      /\ (\A j \in 1..(Len(s) - i) : b[j] = s[i + j])
      /\ RemoveAt(s, i) = a \o b
  BY <1>1, <1>2, <1>3
<1> HIDE DEF a, b
<1>5. /\ a \o b \in Seq(S) /\ Len(a \o b) = Len(a) + Len(b)
      /\ \A j \in 1..(Len(a) + Len(b)) :
           (a \o b)[j] = IF j <= Len(a) THEN a[j] ELSE b[j - Len(a)]
  BY <1>4, ConcatProperties, Zenon
<1>6. Len(a) + Len(b) = Len(s) - 1
  BY <1>4
<1>7. ASSUME NEW j \in 1..(Len(s) - 1)
      PROVE  RemoveAt(s, i)[j] = IF j < i THEN s[j] ELSE s[j + 1]
  <2>1. RemoveAt(s, i)[j] = IF j <= i - 1 THEN a[j] ELSE b[j - (i - 1)]
    BY <1>4, <1>5, <1>6
  <2>2. CASE j < i
    BY <1>4, <2>1, <2>2
  <2>3. CASE j >= i
    <3>1. j - (i - 1) \in 1..(Len(s) - i) /\ i + (j - (i - 1)) = j + 1
      BY <2>3
    <3> QED BY <1>4, <2>1, <2>3, <3>1
  <2> QED BY <2>2, <2>3
<1> QED BY <1>4, <1>5, <1>6, <1>7

\* Without an entry a list of distinct entries has all the others, and not it.
LEMMA RemoveAtDistinct ==
  ASSUME NEW S, NEW s \in Seq(S), Distinct(s), NEW i \in 1..Len(s)
  PROVE  /\ Distinct(RemoveAt(s, i))
         /\ Listed(RemoveAt(s, i)) = Listed(s) \ {s[i]}
<1> DEFINE r == RemoveAt(s, i)
<1>1. /\ Len(r) = Len(s) - 1
      /\ \A j \in 1..Len(r) : r[j] = IF j < i THEN s[j] ELSE s[j + 1]
  BY RemoveAtEntries
<1> HIDE DEF r
<1>2. Distinct(r)
  BY <1>1 DEF Distinct
<1>3. Listed(r) \subseteq Listed(s) \ {s[i]}
  BY <1>1 DEF Listed, Distinct
<1>4. ASSUME NEW x \in Listed(s) \ {s[i]} PROVE x \in Listed(r)
  <2>1. PICK k \in 1..Len(s) : x = s[k]
    BY DEF Listed
  <2>2. CASE k < i
    BY <1>1, <2>1, <2>2 DEF Listed
  <2>3. CASE k > i
    <3>1. k - 1 \in 1..Len(r) /\ r[k - 1] = s[k]
      BY <1>1, <2>3
    <3> QED BY <2>1, <3>1 DEF Listed
  <2> QED BY <2>1, <2>2, <2>3
<1> QED BY <1>2, <1>3, <1>4 DEF r

\* A conditional appending keeps the type, and adds the entry at most.
LEMMA AddIfEntries ==
  ASSUME NEW S, NEW s \in Seq(S), NEW n \in S, NEW wanted \in BOOLEAN
  PROVE  /\ AddIf(s, n, wanted) \in Seq(S)
         /\ Listed(AddIf(s, n, wanted)) \subseteq Listed(s) \cup {n}
         /\ Distinct(s) /\ n \notin Listed(s) => Distinct(AddIf(s, n, wanted))
<1>1. CASE ~wanted
  BY <1>1 DEF AddIf
<1>2. CASE wanted
  <2>1. /\ AddIf(s, n, wanted) = Append(s, n) /\ Append(s, n) \in Seq(S)
        /\ Len(Append(s, n)) = Len(s) + 1
        /\ \A j \in 1..Len(s) : Append(s, n)[j] = s[j]
        /\ Append(s, n)[Len(s) + 1] = n
    BY <1>2 DEF AddIf
  <2>2. \A j \in 1..(Len(s) + 1) : j = Len(s) + 1 \/ j \in 1..Len(s)
    OBVIOUS
  <2> QED BY <2>1, <2>2 DEF Listed, Distinct
<1> QED BY <1>1, <1>2

-----------------------------------------------------------------------------
(* Types                                                                   *)

\* What SetWallpaper does with the index it has come to; 0 is outside the list.
PutsUp(j) ==
  LET f == IF j = 0 THEN NoPath ELSE wallpaperFiles[j]
  IN  /\ last' = [op |-> "wallpaper", file |-> f, before |-> current,
                  known |-> asListed]
      /\ IF j = 0
           THEN pc' = "fault" /\ UNCHANGED paperVars
           ELSE current' = f /\ asListed' = TRUE /\ UNCHANGED pc

LEMMA WallpaperDrawn ==
  ASSUME Typed, SetWallpaper
  PROVE  \E j \in 0..Len(wallpaperFiles) :
           /\ PutsUp(j)
           /\ \E i \in 1..Len(wallpaperFiles) :
                j = IF wallpaperFiles[i] = CurrentRead THEN Neighbour(i) ELSE i
<1>1. PICK i \in 1..Len(wallpaperFiles) :
        PutsUp(IF wallpaperFiles[i] = CurrentRead THEN Neighbour(i) ELSE i)
  BY DEF SetWallpaper, PutsUp
<1>2. (IF wallpaperFiles[i] = CurrentRead THEN Neighbour(i) ELSE i)
        \in 0..Len(wallpaperFiles)
  BY DEF Neighbour, Typed, TypeOK
<1> QED BY <1>1, <1>2

LEMMA InitTyped == Init => Typed
<1> SUFFICES ASSUME Init PROVE Typed
  OBVIOUS
<1>1. /\ Roots[edition] \in Seq(Dir) /\ Installed[edition] \subseteq Name
      /\ current \in Name \cup {NoPath}
  BY NameAssumption, DirAssumption DEF Init
<1>2. /\ options \in [Kind -> Seq(Name)] /\ kind \in Kind /\ at \in Nat
      /\ attempts \in Nat /\ files = <<>> /\ path = <<>> /\ pc = "scan"
  BY DEF Init, Kind
<1>3. /\ last = [op |-> "none", file |-> NoPath, before |-> NoPath, known |-> TRUE]
      /\ granted = FALSE /\ asListed \in BOOLEAN
  BY DEF Init, Nothing, Result
<1>4. last \in [op : {"none", "delete", "open", "malware", "wallpaper"},
                file : Name \cup {NoPath}, before : Name \cup {NoPath}, known : BOOLEAN]
  BY <1>3
<1>5. disk \subseteq Name /\ roots \in Seq(Dir) /\ path \in Seq(Dir)
      /\ files \in Seq(Name) /\ malwareFiles \in Seq(Name)
      /\ wallpaperFiles \in Seq(Name)
  BY <1>1 DEF Init
<1> QED BY <1>1, <1>2, <1>3, <1>4, <1>5 DEF Init, Typed, TypeOK

LEMMA Opened ==
  ASSUME path \in Seq(Dir), NEW d \in Dir, Open(d)
  PROVE  path' \in Seq(Dir) /\ granted' \in BOOLEAN /\ pc' \in {pc, "fault"}
<1>1. Append(path, d) \in Seq(Dir)
  OBVIOUS
<1> QED BY <1>1, Zenon DEF Open

LEMMA StepTyped ==
  ASSUME Typed, [Next]_vars
  PROVE  Typed'
<1> USE DEF Typed, TypeOK
<1>1. ASSUME NEW n \in Name, ListFile(n) PROVE Typed'
  <2>1. /\ AddIf(malwareFiles, n, FoundIn(n) = "malware") \in Seq(Name)
        /\ AddIf(wallpaperFiles, n, FoundIn(n) = "wallpaper" /\ n \in Image) \in Seq(Name)
        /\ \A k \in Kind : AddIf(options[k], n, k \in KindsOf(n)) \in Seq(Name)
    BY DEF AddIf
  <2>2. /\ visited' \subseteq Name \cup Dir /\ granted' \in BOOLEAN
        /\ UNCHANGED <<edition, written, pc, disk, roots, path, callVars, paperVars, last,
                       history>>
    BY <1>1 DEF ListFile
  <2>3. /\ files' \in Seq(Name) /\ options' \in [Kind -> Seq(Name)]
        /\ malwareFiles' \in Seq(Name) /\ wallpaperFiles' \in Seq(Name)
    BY <1>1, <2>1 DEF ListFile
  <2>4. pc' # "check"
    BY <1>1 DEF ListFile
  <2> QED BY <2>2, <2>3, <2>4 DEF callVars, paperVars, history
<1>2. CASE BeginRoot
  <2>1. roots # <<>> /\ roots \in Seq(Dir) /\ path \in Seq(Dir)
    BY <1>2 DEF BeginRoot
  <2>2. Head(roots) \in Dir /\ Tail(roots) \in Seq(Dir)
    BY <2>1
  <2>3. path' \in Seq(Dir) /\ granted' \in BOOLEAN /\ pc' \in {pc, "fault"}
    BY <1>2, <2>1, <2>2, Opened DEF BeginRoot
  <2> QED BY <1>2, <2>2, <2>3 DEF BeginRoot, callVars, paperVars, history
<1>16. ASSUME NEW d \in Dir, EnterDirectory(d) PROVE Typed'
  <2>1. path' \in Seq(Dir) /\ granted' \in BOOLEAN /\ pc' \in {pc, "fault"}
    BY <1>16, Opened DEF EnterDirectory
  <2> QED BY <1>16, <2>1 DEF EnterDirectory, callVars, paperVars, history
<1>17. CASE SkipEntry
  BY <1>17 DEF SkipEntry, callVars, paperVars, history
<1>18. CASE LoopCondition
  <2>1. Front(path) \in Seq(Dir)
    BY <1>18 DEF LoopCondition, Front
  <2> QED BY <1>18, <2>1 DEF LoopCondition, callVars, paperVars, history
<1>3. CASE FinishScan
  BY <1>3 DEF FinishScan, callVars, paperVars, history
<1>4. CASE BeginDelete
  BY <1>4 DEF BeginDelete, callVars, history, scanVars, walkVars, paperVars, Nothing,
         Result
<1>5. CASE ChooseIndex
  BY <1>5 DEF ChooseIndex, history, scanVars, walkVars, paperVars
<1>6. CASE SkipOwnFile
  BY <1>6 DEF SkipOwnFile, history, scanVars, walkVars, paperVars, NextIndex
<1>7. CASE DeleteChosen
  <2>1. RemoveAt(files, at) \in Seq(Name) /\ files[at] \in Name
    BY <1>7, RemoveAtEntries DEF DeleteChosen
  <2> QED BY <1>7, <2>1 DEF DeleteChosen, Result, scanVars, walkVars, paperVars
<1>8. CASE DeletionFails
  <2>1. RemoveAt(files, at) \in Seq(Name)
    BY <1>8, RemoveAtEntries DEF DeletionFails
  <2> QED BY <1>8, <2>1 DEF DeletionFails, scanVars, walkVars, paperVars, history
<1>9. CASE BeginOpen
  BY <1>9 DEF BeginOpen, scanVars, walkVars, paperVars, history, Nothing, Result
<1>10. CASE OpenSucceeds
  BY <1>10 DEF OpenSucceeds, Result, scanVars, walkVars, paperVars, history, Drawable
<1>11. CASE OpenFails
  BY <1>11 DEF OpenFails, scanVars, walkVars, paperVars, history
<1>12. CASE RenameMalware
  <2>1. PICK i \in 1..Len(malwareFiles) :
          /\ malwareFiles[i] \in Inert \cap disk
          /\ disk' = (disk \ {malwareFiles[i]}) \cup {Active[malwareFiles[i]]}
          /\ renamed' = renamed \cup {malwareFiles[i]}
          /\ last' = Result("malware", Active[malwareFiles[i]])
          /\ malwareFiles' = [malwareFiles EXCEPT ![i] = Active[malwareFiles[i]]]
    BY <1>12 DEF RenameMalware, KeepName
  <2>2. Active[malwareFiles[i]] \in Name /\ malwareFiles[i] \in Name
    BY <2>1, NameAssumption
  <2> QED BY <1>12, <2>1, <2>2 DEF RenameMalware, Result, scanVars, walkVars,
         paperVars, callVars
<1>13. CASE SetWallpaper
  <2>1. \E j \in 0..Len(wallpaperFiles) : PutsUp(j)
    BY <1>13, WallpaperDrawn
  <2>2. PICK j \in 0..Len(wallpaperFiles) : PutsUp(j)
    BY <2>1
  <2>3. CASE j = 0
    BY <1>13, <2>2, <2>3 DEF SetWallpaper, PutsUp, scanVars, walkVars, paperVars,
           callVars, history
  <2>4. CASE j # 0
    <3>1. wallpaperFiles[j] \in Name
      BY <2>4
    <3> QED BY <1>13, <2>2, <2>4, <3>1
            DEF SetWallpaper, PutsUp, scanVars, walkVars, paperVars, callVars, history
  <2> QED BY <2>3, <2>4
<1>14. ASSUME NEW n \in Name, Vanish(n) PROVE Typed'
  BY <1>14 DEF Vanish, scanVars, walkVars, paperVars, callVars
<1>19. CASE SetWallpaperLinux
  <2>1. PICK i \in 1..Len(wallpaperFiles) :
          \/ last' = Result("wallpaper", wallpaperFiles[i]) /\ UNCHANGED pc
          \/ pc' = "fault" /\ UNCHANGED last
    BY <1>19 DEF SetWallpaperLinux
  <2>2. wallpaperFiles[i] \in Name
    OBVIOUS
  <2>3. /\ pc' \in {pc, "fault"}
        /\ last' \in [op : {"none", "delete", "open", "malware", "wallpaper"},
                      file : Name \cup {NoPath}, before : Name \cup {NoPath},
                      known : BOOLEAN]
    <3>1. CASE pc' = "fault" /\ UNCHANGED last
      BY <3>1
    <3>2. CASE last' = Result("wallpaper", wallpaperFiles[i]) /\ UNCHANGED pc
      BY <2>2, <3>2 DEF Result
    <3> QED BY <2>1, <3>1, <3>2
  <2> QED BY <1>19, <2>3 DEF SetWallpaperLinux, scanVars, walkVars, paperVars,
                             callVars, history
<1>20. ASSUME NEW n \in Name, UserSetsWallpaper(n) PROVE Typed'
  BY <1>20 DEF UserSetsWallpaper, scanVars, walkVars, callVars, history
<1>15. CASE UNCHANGED vars
  BY <1>15 DEF vars, scanVars, walkVars, paperVars, callVars, history
<1> QED BY <1>1, <1>2, <1>3, <1>4, <1>5, <1>6, <1>7, <1>8, <1>9, <1>10, <1>11,
           <1>12, <1>13, <1>14, <1>15, <1>16, <1>17, <1>18, <1>19,
           <1>20 DEF Next, ScanStep, DeleteStep

\* FileCatalogue's variables keep their types in each edition.
THEOREM CatalogueTypes == Spec => []TypeOK
<1>1. Spec => []Typed
  BY InitTyped, StepTyped, PTL DEF Spec
<1> QED BY <1>1, PTL DEF Typed

-----------------------------------------------------------------------------
(* Deletion, retries and the scan's limit                                  *)

\* What may happen to files: the scan lists a name, or an entry is dropped.
LEMMA FilesStep ==
  ASSUME [Next]_vars
  PROVE  \/ UNCHANGED files
         \/ \E n \in Name : ListFile(n)
         \/ DeleteChosen
         \/ DeletionFails /\ files' = RemoveAt(files, at)
BY DEF Next, ScanStep, DeleteStep, BeginRoot, Open, EnterDirectory, SkipEntry,
       LoopCondition, FinishScan, BeginDelete,
       ChooseIndex, SkipOwnFile, DeletionFails, BeginOpen, OpenSucceeds, OpenFails,
       RenameMalware, SetWallpaper, SetWallpaperLinux, UserSetsWallpaper, Vanish, vars,
              scanVars, callVars, history

\* Whoever takes an entry without looking has looked since the last file was
\* listed, or is the first of all: every descent follows a look with nothing
\* listed in between, and Windows begins a root once, with no file listed.
ScanInv ==
  /\ ScanStops
  /\ granted => Len(files) <= MaxFiles
  /\ edition # "linux" /\ roots # <<>> =>
       Len(roots) = 1 /\ files = <<>> /\ pc # "check" /\ path = <<>> /\ ~granted

\* Before a root of Windows is begun nothing is scanned; then none is left.
LEMMA RootBegun ==
  ASSUME Typed, ScanInv, BeginRoot
  PROVE  /\ granted' => Len(files) <= MaxFiles
         /\ edition # "linux" => roots' = <<>>
<1>1. /\ roots # <<>> /\ roots' = Tail(roots) /\ roots \in Seq(Dir)
      /\ granted' => edition # "linux"
  BY DEF BeginRoot, Open, Typed, TypeOK
<1>2. CASE edition = "linux"
  BY <1>1, <1>2
<1>3. CASE edition # "linux"
  <2>1. Len(roots) = 1 /\ files = <<>>
    BY <1>1, <1>3 DEF ScanInv
  <2>2. Len(files) <= MaxFiles
    BY <2>1, BoundAssumption
  <2>3. Tail(roots) = <<>>
    BY <1>1, <2>1
  <2> QED BY <1>1, <2>2, <2>3
<1> QED BY <1>2, <1>3

LEMMA ScanInvStep ==
  ASSUME Typed, ScanInv, [Next]_vars
  PROVE  ScanInv'
<1> USE BoundAssumption DEF ScanInv, ScanStops
<1>1. files \in Seq(Name) /\ Len(files) \in Nat /\ roots \in Seq(Dir)
  BY DEF Typed, TypeOK
<1>2. ASSUME NEW n \in Name, ListFile(n) PROVE ScanInv'
  <2>1. /\ granted /\ ~granted' /\ files' = Append(files, n)
        /\ UNCHANGED <<edition, roots>>
    BY <1>2 DEF ListFile
  <2>2. Len(files') = Len(files) + 1
    BY <1>1, <2>1
  <2> QED BY <1>1, <2>1, <2>2
<1>3. CASE BeginRoot
  <2>1. UNCHANGED <<edition, files>> /\ (pc' # "check")
    BY <1>3 DEF BeginRoot, Open
  <2> QED BY <1>1, <1>3, <2>1, RootBegun
<1>4. ASSUME NEW d \in Dir, EnterDirectory(d) PROVE ScanInv'
  <2>1. granted /\ UNCHANGED <<edition, files, roots>>
    BY <1>4 DEF EnterDirectory
  <2> QED BY <2>1
<1>5. CASE LoopCondition
  <2>1. /\ UNCHANGED <<edition, files, roots, pc>>
        /\ granted' => RoomLeft
        /\ edition = "linux" \/ roots = <<>>
    <3>1. CASE Entries(Last(path)) # {} /\ RoomLeft
      BY <1>5, <3>1 DEF LoopCondition
    <3>2. CASE ~(Entries(Last(path)) # {} /\ RoomLeft)
      BY <1>5, <3>2 DEF LoopCondition
    <3> QED BY <3>1, <3>2
  <2> QED BY <2>1 DEF RoomLeft
<1>6. CASE pc = "check" /\ files' = RemoveAt(files, at) /\ UNCHANGED <<edition, scanVars>>
  <2>1. Len(files') = Len(files) - 1
    BY <1>6, RemoveAtEntries DEF Typed, TypeOK
  <2>2. UNCHANGED <<edition, roots, granted>>
    BY <1>6 DEF scanVars, walkVars
  <2> QED BY <1>1, <1>6, <2>1, <2>2
<1>7. CASE /\ UNCHANGED <<edition, files, roots, path>> /\ (granted' => granted)
           /\ pc' # "check" \/ pc = "check" \/ files # <<>>
  BY <1>7
<1> QED BY <1>2, <1>3, <1>4, <1>5, <1>6, <1>7, FilesStep
        DEF Next, ScanStep, DeleteStep, FinishScan, SkipEntry, BeginDelete, ChooseIndex,
            SkipOwnFile, DeleteChosen, DeletionFails, BeginOpen, OpenSucceeds, OpenFails,
            RenameMalware, SetWallpaper, SetWallpaperLinux, UserSetsWallpaper, Vanish,
            vars, scanVars, walkVars

\* The scan stops one file past its limit however the directories are nested, for
\* any tree of them.
THEOREM ScanLimit == Spec => []ScanStops
<1>1. Init => ScanInv
  BY BoundAssumption, DirAssumption DEF Init, ScanInv, ScanStops
<1>2. Spec => []Typed
  BY InitTyped, StepTyped, PTL DEF Spec
<1>3. ScanInv => ScanStops
  BY DEF ScanInv
<1> QED BY <1>1, <1>2, <1>3, ScanInvStep, PTL DEF Spec

\* DeleteChosen is the only step that deletes, and it has passed the own files.
THEOREM NoOwnFileDeleted == Spec => []OwnFilesSurvive
<1>1. Init => OwnFilesSurvive
  BY DEF Init, OwnFilesSurvive
<1>2. ASSUME OwnFilesSurvive, [Next]_vars PROVE OwnFilesSurvive'
  <2>1. deleted' = deleted \/ DeleteChosen
    BY <1>2 DEF Next, ScanStep, DeleteStep, ListFile, BeginRoot, Open, EnterDirectory,
           SkipEntry, LoopCondition, FinishScan,
         BeginDelete, ChooseIndex, SkipOwnFile, DeletionFails, BeginOpen, OpenSucceeds,
         OpenFails, RenameMalware, SetWallpaper, SetWallpaperLinux, UserSetsWallpaper,
                Vanish, vars, history
  <2> QED BY <1>2, <2>1 DEF DeleteChosen, OwnFilesSurvive
<1> QED BY <1>1, <1>2, PTL DEF Spec

\* Once a file is deleted the request is over: what follows belongs to another.
THEOREM OneDeletion == Spec => []OneDeletionPerRequest
<1>1. Init => OneDeletionPerRequest
  BY DEF Init, OneDeletionPerRequest
<1>2. ASSUME OneDeletionPerRequest, [Next]_vars PROVE OneDeletionPerRequest'
  <2>1. ASSUME pc' \in {"delete", "check"} PROVE last' = Nothing \/ last' = last
    BY <1>2, <2>1 DEF Next, ScanStep, DeleteStep, ListFile, BeginRoot, Open,
           EnterDirectory, SkipEntry, LoopCondition,
       FinishScan, BeginDelete, ChooseIndex, SkipOwnFile, DeleteChosen, DeletionFails,
       BeginOpen, OpenSucceeds, OpenFails, RenameMalware, SetWallpaper,
              SetWallpaperLinux, UserSetsWallpaper, Vanish, vars,
       callVars
  <2>2. ASSUME pc' \in {"delete", "check"}
        PROVE  pc \in {"delete", "check"} \/ last' = Nothing
    BY <1>2, <2>2 DEF Next, ScanStep, DeleteStep, ListFile, BeginRoot, Open,
           EnterDirectory, SkipEntry, LoopCondition,
       FinishScan, BeginDelete, ChooseIndex, SkipOwnFile, DeleteChosen, DeletionFails,
       BeginOpen, OpenSucceeds, OpenFails, RenameMalware, SetWallpaper,
              SetWallpaperLinux, UserSetsWallpaper, Vanish, vars,
       callVars
  <2> QED BY <1>2, <2>1, <2>2 DEF OneDeletionPerRequest, Nothing, Result
<1> QED BY <1>1, <1>2, PTL DEF Spec

\* Another attempt is made only after fewer than three.
RetryBound ==
  /\ attempts \in Nat /\ attempts <= 3
  /\ pc = "open" => attempts <= 2

\* openRandomFile calls openFile three times at most.
THEOREM ThreeAttempts == Spec => []AtMostThreeAttempts
<1>1. Init => RetryBound
  BY DEF Init, RetryBound
<1>2. ASSUME RetryBound, [Next]_vars PROVE RetryBound'
  <2> USE DEF RetryBound
  <2>1. CASE BeginOpen
    BY <2>1 DEF BeginOpen
  <2>2. CASE OpenSucceeds
    BY <1>2, <2>2 DEF OpenSucceeds
  <2>3. CASE OpenFails
    BY <1>2, <2>3 DEF OpenFails, RetriesLeft
  <2>4. CASE UNCHANGED attempts /\ (pc' = "open" => pc = "open")
    BY <1>2, <2>4
  <2> QED BY <1>2, <2>1, <2>2, <2>3, <2>4
          DEF Next, ScanStep, DeleteStep, ListFile, BeginRoot, Open, EnterDirectory,
                 SkipEntry, LoopCondition, FinishScan,
              BeginDelete, ChooseIndex, SkipOwnFile, DeleteChosen, DeletionFails,
              RenameMalware, SetWallpaper, SetWallpaperLinux, UserSetsWallpaper,
                     Vanish, vars, callVars
<1>3. RetryBound => AtMostThreeAttempts
  BY DEF RetryBound, AtMostThreeAttempts
<1> QED BY <1>1, <1>2, <1>3, PTL DEF Spec

-----------------------------------------------------------------------------
(* The lists against the disk                                              *)

\* The scan does not come back, and what it has visited stays visited.
LEMMA ScanGoesOn ==
  ASSUME [Next]_vars, pc' = "scan"
  PROVE  pc = "scan" /\ visited \subseteq visited'
BY DEF Next, ScanStep, DeleteStep, ListFile, BeginRoot, Open, EnterDirectory,
       SkipEntry, LoopCondition, FinishScan,
       BeginDelete, ChooseIndex, SkipOwnFile, DeleteChosen, DeletionFails, BeginOpen,
       OpenSucceeds, OpenFails, RenameMalware, SetWallpaper, SetWallpaperLinux,
       UserSetsWallpaper, Vanish, vars, scanVars, walkVars

\* Three actions change the disk, each with a history of its own.
LEMMA DiskStep ==
  ASSUME [Next]_vars
  PROVE  \/ DeleteChosen
         \/ RenameMalware
         \/ \E n \in Name : Vanish(n)
         \/ UNCHANGED <<disk, history>>
BY DEF Next, ScanStep, DeleteStep, ListFile, BeginRoot, Open, EnterDirectory,
       SkipEntry, LoopCondition, FinishScan,
       BeginDelete, ChooseIndex, SkipOwnFile, DeletionFails, BeginOpen, OpenSucceeds,
       OpenFails, SetWallpaper, SetWallpaperLinux, UserSetsWallpaper, vars, history

\* No path is listed twice, because the scan visits each once.
FilesInv ==
  /\ pc = "scan" => Listed(files) \subseteq visited
  /\ Distinct(files)
  /\ FilesTrackDisk

LEMMA FilesStayInStep ==
  ASSUME Typed, FilesInv, [Next]_vars
  PROVE  FilesInv'
<1> USE DEF FilesInv, FilesTrackDisk
<1>1. ASSUME NEW n \in Name, ListFile(n) PROVE FilesInv'
  <2>1. /\ pc = "scan" /\ n \in disk /\ n \notin visited
        /\ visited' = visited \cup {n} /\ files' = Append(files, n)
        /\ UNCHANGED <<disk, renamed, vanished>>
    BY <1>1, DirAssumption DEF ListFile, Entries, history
  <2>2. files' = AddIf(files, n, TRUE) /\ files \in Seq(Name)
    BY <2>1 DEF AddIf, Typed, TypeOK
  <2>3. n \notin Listed(files) /\ Distinct(files) /\ TRUE \in BOOLEAN
    BY <2>1
  <2>4. /\ Listed(AddIf(files, n, TRUE)) \subseteq Listed(files) \cup {n}
        /\ Distinct(AddIf(files, n, TRUE))
    BY <2>2, <2>3, AddIfEntries
  <2>5. Listed(files') \subseteq Listed(files) \cup {n} /\ Distinct(files')
    BY <2>2, <2>4
  <2> QED BY <2>1, <2>5 DEF Distinct, Listed
<1>2. ASSUME pc = "check", files' = RemoveAt(files, at)
      PROVE  Distinct(files') /\ Listed(files') = Listed(files) \ {files[at]}
  BY <1>2, RemoveAtDistinct DEF Typed, TypeOK
<1>3. CASE DeleteChosen
  <2>1. /\ pc' = "idle" /\ pc = "check" /\ disk' = disk \ {files[at]}
        /\ files' = RemoveAt(files, at) /\ UNCHANGED <<renamed, vanished>>
    BY <1>3 DEF DeleteChosen
  <2> QED BY <1>2, <2>1 DEF Distinct, Listed
<1>4. CASE DeletionFails /\ files' = RemoveAt(files, at)
  <2>1. pc = "check" /\ pc' # "scan" /\ UNCHANGED <<disk, renamed, vanished>>
    BY <1>4 DEF DeletionFails, history
  <2> QED BY <1>2, <1>4, <2>1 DEF Distinct, Listed
<1>5. CASE UNCHANGED files /\ ~DeleteChosen
  <2>1. Distinct(files') /\ Listed(files') = Listed(files)
    BY <1>5
  <2>2. disk \ disk' \subseteq renamed' \cup vanished'
        /\ renamed \cup vanished \subseteq renamed' \cup vanished'
    <3>1. CASE RenameMalware
      BY <3>1 DEF RenameMalware
    <3>2. ASSUME NEW n \in Name, Vanish(n)
          PROVE  /\ disk \ disk' \subseteq renamed' \cup vanished'
                 /\ renamed \cup vanished \subseteq renamed' \cup vanished'
      BY <3>2 DEF Vanish
    <3> QED BY <1>5, <3>1, <3>2, DiskStep DEF history
  <2> QED BY <2>1, <2>2, ScanGoesOn DEF Distinct, Listed
<1> QED BY <1>1, <1>3, <1>4, <1>5, FilesStep

\* A path in files that is gone was renamed by a request or deleted by the user.
THEOREM FilesInStep == Spec => []FilesTrackDisk
<1>1. Init => FilesInv
  BY DEF Init, FilesInv, FilesTrackDisk, Distinct, Listed
<1>2. Spec => []Typed
  BY InitTyped, StepTyped, PTL DEF Spec
<1>3. FilesInv => FilesTrackDisk
  BY DEF FilesInv
<1> QED BY <1>1, <1>2, <1>3, FilesStayInStep, PTL DEF Spec

\* An inert name is listed once, so that no entry is left with the name that a
\* renaming has taken away.
MalwareInv ==
  /\ pc = "scan" => Listed(malwareFiles) \subseteq visited
  /\ \A i, j \in 1..Len(malwareFiles) :
       malwareFiles[i] \in Inert /\ malwareFiles[i] = malwareFiles[j] => i = j
  /\ pc = "scan" => Distinct(malwareFiles)
  /\ MalwareTracksDisk

LEMMA MalwareStaysInStep ==
  ASSUME Typed, MalwareInv, [Next]_vars
  PROVE  MalwareInv'
<1> USE DEF MalwareInv, MalwareTracksDisk
<1>1. ASSUME NEW n \in Name, ListFile(n) PROVE MalwareInv'
  <2> DEFINE found == FoundIn(n) = "malware"
  <2>1. /\ pc = "scan" /\ n \in disk /\ n \notin visited
        /\ visited' = visited \cup {n} /\ malwareFiles' = AddIf(malwareFiles, n, found)
        /\ UNCHANGED <<disk, deleted, vanished>>
    BY <1>1, DirAssumption DEF ListFile, Entries, history
  <2>2. found \in BOOLEAN /\ malwareFiles \in Seq(Name)
    BY DEF Typed, TypeOK
  <2> HIDE DEF found
  <2>3. /\ Listed(malwareFiles') \subseteq Listed(malwareFiles) \cup {n}
        /\ Distinct(malwareFiles')
    BY <2>1, <2>2, AddIfEntries
  <2> QED BY <2>1, <2>3 DEF Distinct, Listed
<1>2. CASE RenameMalware
  <2>1. PICK i \in 1..Len(malwareFiles) :
          /\ malwareFiles[i] \in Inert \cap disk
          /\ disk' = (disk \ {malwareFiles[i]}) \cup {Active[malwareFiles[i]]}
          /\ malwareFiles' = [malwareFiles EXCEPT ![i] = Active[malwareFiles[i]]]
    BY <1>2 DEF RenameMalware, KeepName
  <2>2. /\ Len(malwareFiles') = Len(malwareFiles)
        /\ malwareFiles'[i] = Active[malwareFiles[i]]
        /\ \A j \in 1..Len(malwareFiles) : j # i => malwareFiles'[j] = malwareFiles[j]
    BY <2>1 DEF Typed, TypeOK
  <2>3. Active[malwareFiles[i]] \notin Inert
    BY <2>1, NameAssumption
  <2>4. pc' = "idle" /\ UNCHANGED <<deleted, vanished>>
    BY <1>2 DEF RenameMalware
  <2>5. \A j \in 1..Len(malwareFiles) : j # i => malwareFiles[j] # malwareFiles[i]
    BY <2>1
  <2>6. MalwareTracksDisk'
    BY <2>1, <2>2, <2>4, <2>5 DEF Listed
  <2>7. \A j, k \in 1..Len(malwareFiles') :
          malwareFiles'[j] \in Inert /\ malwareFiles'[j] = malwareFiles'[k] => j = k
    BY <2>2, <2>3
  <2> QED BY <2>4, <2>6, <2>7
<1>3. CASE UNCHANGED malwareFiles /\ ~RenameMalware
  <2>1. Listed(malwareFiles') = Listed(malwareFiles)
        /\ (Distinct(malwareFiles) => Distinct(malwareFiles'))
    BY <1>3
  <2>2. disk \ disk' \subseteq deleted' \cup vanished'
        /\ deleted \cup vanished \subseteq deleted' \cup vanished'
    <3>1. CASE DeleteChosen
      BY <3>1 DEF DeleteChosen
    <3>2. ASSUME NEW n \in Name, Vanish(n)
          PROVE  /\ disk \ disk' \subseteq deleted' \cup vanished'
                 /\ deleted \cup vanished \subseteq deleted' \cup vanished'
      BY <3>2 DEF Vanish
    <3> QED BY <1>3, <3>1, <3>2, DiskStep DEF history
  <2> QED BY <1>3, <2>1, <2>2, ScanGoesOn DEF Listed, Distinct
<1>4. UNCHANGED malwareFiles \/ RenameMalware \/ \E n \in Name : ListFile(n)
  BY DEF Next, ScanStep, DeleteStep, BeginRoot, Open, EnterDirectory, SkipEntry,
         LoopCondition, FinishScan, BeginDelete,
         ChooseIndex, SkipOwnFile, DeleteChosen, DeletionFails, BeginOpen, OpenSucceeds,
         OpenFails, SetWallpaper, SetWallpaperLinux, UserSetsWallpaper, Vanish, vars
<1> QED BY <1>1, <1>2, <1>3, <1>4

\* A path in malwareFiles that is gone was deleted, by a request or by the user.
THEOREM MalwareInStep == Spec => []MalwareTracksDisk
<1>1. Init => MalwareInv
  BY DEF Init, MalwareInv, MalwareTracksDisk, Distinct, Listed
<1>2. Spec => []Typed
  BY InitTyped, StepTyped, PTL DEF Spec
<1>3. MalwareInv => MalwareTracksDisk
  BY DEF MalwareInv
<1> QED BY <1>1, <1>2, <1>3, MalwareStaysInStep, PTL DEF Spec

-----------------------------------------------------------------------------
(* Wallpapers, and malware opened by accident                              *)

\* No wallpaper is listed twice, so a neighbour of the current one differs.
WallpaperInv ==
  /\ pc = "scan" => Listed(wallpaperFiles) \subseteq visited
  /\ pc = "scan" => last.op = "none"
  /\ Distinct(wallpaperFiles)
  /\ WallpaperChanges

LEMMA WallpaperStep ==
  ASSUME Typed, WallpaperInv, [Next]_vars
  PROVE  WallpaperInv'
<1> USE DEF WallpaperInv
<1>1. ASSUME NEW n \in Name, ListFile(n) PROVE WallpaperInv'
  <2> DEFINE found == FoundIn(n) = "wallpaper" /\ n \in Image
  <2>1. /\ pc = "scan" /\ n \notin visited /\ visited' = visited \cup {n}
        /\ wallpaperFiles' = AddIf(wallpaperFiles, n, found)
        /\ UNCHANGED <<edition, last>>
    BY <1>1 DEF ListFile, Entries
  <2>2. found \in BOOLEAN /\ wallpaperFiles \in Seq(Name)
    BY DEF Typed, TypeOK
  <2> HIDE DEF found
  <2>3. n \notin Listed(wallpaperFiles) /\ Distinct(wallpaperFiles)
    BY <2>1
  <2>4. /\ Listed(wallpaperFiles') \subseteq Listed(wallpaperFiles) \cup {n}
        /\ Distinct(wallpaperFiles')
    BY <2>1, <2>2, <2>3, AddIfEntries
  <2> QED BY <2>1, <2>4 DEF WallpaperChanges
<1>2. CASE SetWallpaper
  <2>1. pc = "idle" /\ UNCHANGED <<edition, wallpaperFiles>> /\ pc' # "scan"
    BY <1>2 DEF SetWallpaper, scanVars
  <2>2. PICK j \in 0..Len(wallpaperFiles) :
          /\ PutsUp(j)
          /\ \E i \in 1..Len(wallpaperFiles) :
               j = IF wallpaperFiles[i] = CurrentRead THEN Neighbour(i) ELSE i
    BY <1>2, WallpaperDrawn
  <2>3. PICK i \in 1..Len(wallpaperFiles) :
          j = IF wallpaperFiles[i] = CurrentRead THEN Neighbour(i) ELSE i
    BY <2>2
  <2>4. /\ wallpaperFiles \in Seq(Name) /\ Len(wallpaperFiles) \in Nat
        /\ NoPath \notin Name
    BY NameAssumption DEF Typed, TypeOK
  <2>5. /\ last' = [op |-> "wallpaper", before |-> current, known |-> asListed,
                    file |-> IF j = 0 THEN NoPath ELSE wallpaperFiles[j]]
    BY <2>2 DEF PutsUp
  <2>6. CASE j = 0
    <3>1. i # 0 /\ i \in Nat /\ j = Neighbour(i)
      BY <2>3, <2>4, <2>6
    <3>2. Len(wallpaperFiles) = 1
      <4>1. Neighbour(i) = IF i = Len(wallpaperFiles) THEN i - 1 ELSE i + 1
        BY DEF Neighbour
      <4>2. CASE i = Len(wallpaperFiles)
        BY <2>6, <3>1, <4>1, <4>2
      <4>3. CASE i # Len(wallpaperFiles)
        <5>1. i + 1 # 0
          BY <3>1
        <5> QED BY <2>6, <3>1, <4>1, <4>3, <5>1
      <4> QED BY <4>2, <4>3
    <3> QED BY <2>1, <2>5, <2>6, <3>2 DEF WallpaperChanges, Distinct
  <2>7. CASE j # 0
    <3>1. asListed /\ edition # "linux" => wallpaperFiles[j] # current
      BY <2>3, <2>4, <2>7 DEF CurrentRead, Neighbour, Distinct
    <3>2. wallpaperFiles[j] # NoPath
      BY <2>4, <2>7
    <3> QED BY <2>1, <2>5, <2>7, <3>1, <3>2 DEF WallpaperChanges, Distinct
  <2> QED BY <2>6, <2>7
<1>3. CASE /\ UNCHANGED <<edition, wallpaperFiles>>
           /\ last' = last \/ last'.op # "wallpaper" \/ edition = "linux"
           /\ pc = "scan" => last' = last
  <2>1. WallpaperChanges'
    BY <1>3 DEF WallpaperChanges
  <2>2. Listed(wallpaperFiles') = Listed(wallpaperFiles) /\ Distinct(wallpaperFiles')
    BY <1>3 DEF Distinct
  <2>3. pc' = "scan" => pc = "scan" /\ visited \subseteq visited' /\ last' = last
    BY <1>3, ScanGoesOn
  <2> QED BY <2>1, <2>2, <2>3
<1>4. \/ SetWallpaper
      \/ \E n \in Name : ListFile(n)
      \/ /\ UNCHANGED <<edition, wallpaperFiles>>
         /\ last' = last \/ last'.op # "wallpaper" \/ edition = "linux"
         /\ pc = "scan" => last' = last
  BY DEF Next, ScanStep, DeleteStep, BeginRoot, Open, EnterDirectory, SkipEntry,
         LoopCondition, FinishScan, BeginDelete,
         ChooseIndex, SkipOwnFile, DeleteChosen, DeletionFails, BeginOpen, OpenSucceeds,
         OpenFails, RenameMalware, SetWallpaperLinux, UserSetsWallpaper, Vanish, vars,
                scanVars, Nothing, Result
<1> QED BY <1>1, <1>2, <1>3, <1>4

\* A wallpaper request on Windows puts up another wallpaper than was up if the
\* registry spelled that one as the catalogue does, and has one to put up unless
\* there is a single wallpaper.
THEOREM AnotherWallpaper == Spec => []WallpaperChanges
<1>1. Init => WallpaperInv
  BY DEF Init, WallpaperInv, WallpaperChanges, Distinct, Listed, Nothing, Result
<1>2. Spec => []Typed
  BY InitTyped, StepTyped, PTL DEF Spec
<1>3. WallpaperInv => WallpaperChanges
  BY DEF WallpaperInv
<1> QED BY <1>1, <1>2, <1>3, WallpaperStep, PTL DEF Spec

\* The lists that openRandomFile draws from hold nothing of that directory.
OptionsInv ==
  /\ edition # "nt" /\ ReadAsMeant =>
       \A k \in Kind : \A i \in 1..Len(options[k]) : DirOf[options[k][i]] # "malware"
  /\ OpensNoMalware

LEMMA OptionsStep ==
  ASSUME Typed, OptionsInv, [Next]_vars
  PROVE  OptionsInv'
<1> USE DEF OptionsInv
<1>1. ASSUME NEW n \in Name, ListFile(n) PROVE OptionsInv'
  <2>1. /\ UNCHANGED <<edition, written, last>>
        /\ options' = [k \in Kind |-> AddIf(options[k], n, k \in KindsOf(n))]
    BY <1>1 DEF ListFile
  <2>2. ASSUME edition # "nt", ReadAsMeant, NEW k \in Kind,
               NEW i \in 1..Len(options'[k])
        PROVE  DirOf[options'[k][i]] # "malware"
    <3>1. options[k] \in Seq(Name)
      BY DEF Typed, TypeOK
    <3>2. CASE k \in KindsOf(n)
      <4>1. DirOf[n] = "none"
        BY <2>2, <3>2 DEF KindsOf, FoundIn
      <4>2. options'[k] = Append(options[k], n)
        BY <2>1, <3>2 DEF AddIf
      <4> QED BY <2>2, <3>1, <4>1, <4>2
    <3>3. CASE k \notin KindsOf(n)
      BY <2>1, <2>2, <3>3 DEF AddIf
    <3> QED BY <3>2, <3>3
  <2>3. ReadAsMeant' = ReadAsMeant /\ OpensNoMalware'
    BY <2>1 DEF ReadAsMeant, OpensNoMalware
  <2> QED BY <2>1, <2>2, <2>3
<1>2. CASE OpenSucceeds
  <2>1. PICK i \in Drawable :
          last' = Result("open", options[kind][i])
    BY <1>2 DEF OpenSucceeds
  <2>2. kind \in Kind /\ i \in 1..Len(options[kind])
    BY <2>1 DEF Drawable, Typed, TypeOK
  <2>3. UNCHANGED <<edition, written, options>>
    BY <1>2 DEF OpenSucceeds, scanVars
  <2> QED BY <2>1, <2>2, <2>3 DEF OpensNoMalware, ReadAsMeant, Result
<1>3. CASE /\ UNCHANGED <<edition, written, options>>
           /\ last' = last \/ last'.op # "open"
  BY <1>3 DEF OpensNoMalware, ReadAsMeant
<1>4. \/ OpenSucceeds
      \/ \E n \in Name : ListFile(n)
      \/ /\ UNCHANGED <<edition, written, options>>
         /\ last' = last \/ last'.op # "open"
  BY DEF Next, ScanStep, DeleteStep, BeginRoot, Open, EnterDirectory, SkipEntry,
         LoopCondition, FinishScan, BeginDelete,
         ChooseIndex, SkipOwnFile, DeleteChosen, DeletionFails, BeginOpen, OpenFails,
         RenameMalware, SetWallpaper, SetWallpaperLinux, UserSetsWallpaper, Vanish,
                vars, scanVars, Nothing, Result
<1> QED BY <1>1, <1>2, <1>3, <1>4

\* Where the directory is read as it was meant, /openRandom opens no malware.
THEOREM NoMalwareOpened == Spec => []OpensNoMalware
<1>1. Init => OptionsInv
  BY DEF Init, OptionsInv, OpensNoMalware, Nothing, Result
<1>2. Spec => []Typed
  BY InitTyped, StepTyped, PTL DEF Spec
<1>3. OptionsInv => OpensNoMalware
  BY DEF OptionsInv
<1> QED BY <1>1, <1>2, <1>3, OptionsStep, PTL DEF Spec
=============================================================================
