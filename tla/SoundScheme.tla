----------------------------- MODULE SoundScheme -----------------------------
(***************************************************************************)
(* /sound on Windows: processSoundCommand picks a sound pack, a directory  *)
(* under sounds, and writes six sounds of it into the registry, one after  *)
(* the other; any write may fail.  Only afterwards is the pack the active  *)
(* one, which getSoundPacks leaves out.  The registry outlives the         *)
(* process, the active pack does not.                                      *)
(***************************************************************************)
EXTENDS Naturals, Sequences

CONSTANTS
  Dir,       \* the pack directories
  NoDir,     \* no pack has been chosen yet
  Pack,      \* pack names: a directory's name without its "_pack" suffix
  NameOf,    \* the pack name of each directory
  EndsWith,  \* the pack names that each directory's full name ends with
  Win10      \* WINVER >= _WIN32_WINNT_WIN10

ASSUME DirAssumption == NoDir \notin Dir
ASSUME PackAssumption ==
  /\ "default" \in Pack
  /\ NameOf \in [Dir -> Pack]
  /\ EndsWith \in [Dir -> SUBSET Pack]
ASSUME EditionAssumption == Win10 \in BOOLEAN

VARIABLES
  pc,      \* "idle", or "write" between two keys
  active,  \* FileUtil::_activeSoundPack
  chosen,  \* packDir of the last request that got to writing
  next,    \* the index of the key to be written
  scheme,  \* whose sound is in each place of the registry
  before,  \* history: the scheme before the chosen pack
  torn,    \* history: the last request that chose a pack did not finish
  fresh    \* history: the process has restarted since a pack was set

vars == <<pc, active, chosen, next, scheme, before, torn, fresh>>

keys == <<"SystemStart", "SystemExit", "SystemAsterisk",
          "SystemQuestion", "SystemHand", "SystemExclamation">>

\* Windows 10 has its start sound elsewhere.
SubKey(i) ==
  IF Win10 /\ keys[i] = "SystemStart" THEN "WindowsLogon" ELSE keys[i]
Place == {keys[i] : i \in 1..6} \cup {"WindowsLogon"}

\* A place holds a file of a pack, Windows' own sound, or the user's.
Sound == Dir \cup {"windows", "user"}

Init ==
  /\ pc = "idle"
  /\ active = "default"
  /\ chosen = NoDir
  /\ next = 1
  /\ scheme = [p \in Place |-> "user"] /\ before = scheme
  /\ torn = FALSE
  /\ fresh = TRUE

\* getSoundPacks: the directories whose names do not end with the active pack's.
Offered == {d \in Dir : active \notin EndsWith[d]}

\* The branch for a directory that "ends with default".
IsDefault(d) == "default" \in EndsWith[d]

\* setDefaultSounds copies Windows' value, setSoundsFromJson names a file.
SoundFrom(d) == IF IsDefault(d) THEN "windows" ELSE d

\* Mutant: the pack becomes the active one before its sounds are written.
ChoosePack_setsActive ==
  /\ pc = "idle"
  /\ \E d \in Offered : chosen' = d /\ active' = NameOf[d]
  /\ pc' = "write" /\ next' = 1
  /\ before' = scheme
  /\ UNCHANGED <<scheme, torn, fresh>>

\* A pack is drawn and its map is read; a request that fails before (no pack
\* to offer, no map, a map that cannot be parsed) changes nothing.
ChoosePack ==
  /\ pc = "idle"
  /\ \E d \in Offered : chosen' = d
  /\ pc' = "write" /\ next' = 1
  /\ before' = scheme
  /\ UNCHANGED <<active, scheme, torn, fresh>>

Write == scheme' = [scheme EXCEPT ![SubKey(next)] = SoundFrom(chosen)]

\* (setDefaultSounds asks for a value named "\.Default", which Windows does not
\* keep: unless someone has made one, that branch ends in SetKeyFails.)
SetKey ==
  /\ pc = "write" /\ next <= 6
  /\ Write
  /\ next' = next + 1
  /\ UNCHANGED <<pc, active, chosen, before, torn, fresh>>

\* Mutant: a key that cannot be written is passed over.
SetKeyFails_goesOn ==
  /\ pc = "write" /\ next <= 6
  /\ next' = next + 1
  /\ UNCHANGED <<pc, active, chosen, scheme, before, torn, fresh>>

\* A registry call fails: before the value is set, or when the key is closed.
SetKeyFails ==
  /\ pc = "write" /\ next <= 6
  /\ Write \/ UNCHANGED scheme
  /\ pc' = "idle" /\ next' = 1
  /\ torn' = TRUE
  /\ UNCHANGED <<active, chosen, before, fresh>>

\* Mutant: the branch for the default pack returns without setSoundPack.
SetSoundPack_notDefault ==
  /\ pc = "write" /\ next = 7
  /\ active' = IF IsDefault(chosen) THEN active ELSE NameOf[chosen]
  /\ pc' = "idle" /\ next' = 1
  /\ torn' = FALSE /\ fresh' = FALSE
  /\ UNCHANGED <<chosen, scheme, before>>

SetSoundPack ==
  /\ pc = "write" /\ next = 7
  /\ active' = NameOf[chosen]
  /\ pc' = "idle" /\ next' = 1
  /\ torn' = FALSE /\ fresh' = FALSE
  /\ UNCHANGED <<chosen, scheme, before>>

\* The process ends anywhere and is started again: the constructor of FileUtil
\* makes "default" the active pack, whatever the registry holds.
Restart ==
  /\ pc' = "idle" /\ next' = 1
  /\ active' = "default"
  /\ torn' = (torn \/ pc = "write")
  /\ fresh' = TRUE
  /\ UNCHANGED <<chosen, scheme, before>>

Next == ChoosePack \/ SetKey \/ SetKeyFails \/ SetSoundPack \/ Restart

Spec == Init /\ [][Next]_vars

-----------------------------------------------------------------------------
\* The types of the variables.
TypeOK ==
  /\ pc \in {"idle", "write"}
  /\ active \in Pack
  /\ chosen \in Dir \cup {NoDir}
  /\ pc = "write" => chosen \in Dir
  /\ next \in 1..7
  /\ scheme \in [Place -> Sound] /\ before \in [Place -> Sound]
  /\ torn \in BOOLEAN /\ fresh \in BOOLEAN

\* The registry with the first n sounds of the chosen pack written.
Mixture(n) ==
  [p \in Place |->
     IF \E i \in 1..n : p = SubKey(i) THEN SoundFrom(chosen) ELSE before[p]]

\* However a request ends, the registry holds the new pack's sounds up to some
\* key and what was there before from that key on: nothing is passed over.
WrittenInOrder == chosen # NoDir => \E n \in 0..6 : scheme = Mixture(n)

\* Unless the last request that chose a pack failed or was cut off, all six sounds
\* come from its pack, over restarts too.
SchemeIsWhole ==
  pc = "idle" /\ chosen # NoDir /\ ~torn =>
    \A i \in 1..6 : scheme[SubKey(i)] = SoundFrom(chosen)

\* A pack becomes the active one only when all its sounds are in the registry.
ActiveWhenWritten ==
  [][active' # active /\ active' # "default"
       => \A i \in 1..6 : scheme'[SubKey(i)] = SoundFrom(chosen')]_vars

\* A pack whose directory carries its bare name is not offered again while it
\* is in place: what getSoundPacks' comparison is for.
ActiveNotOffered ==
  pc = "idle" /\ ~torn /\ ~fresh /\ NameOf[chosen] \in EndsWith[chosen]
    => chosen \notin Offered
=============================================================================
