---------------------------- MODULE MalwareDates ----------------------------
(***************************************************************************)
(* /runMalware: processMalwareCommand draws a file, reads the dates that   *)
(* the Malware Date Settings tool has written, and moves the system clock  *)
(* before it opens the file.                                               *)
(***************************************************************************)
EXTENDS RequestCycle

CONSTANTS
  Malware,   \* the files of the malware directory
  DateFiles  \* what the settings file may hold: sequences of entries
             \* [of, full, date]: the malware meant, whether "file" is its
             \* whole path, and the date ("short": it has not three parts,
             \* "broken": the entry is no object)
DateEntry == [of : STRING, full : BOOLEAN, date : STRING]
ASSUME DateAssumption == DateFiles \subseteq Seq(DateEntry)

VARIABLES
  malware,  \* the file drawn
  dates,    \* the entries of the settings file
  entry,    \* the loop's index
  clock     \* the system date

dateVars == <<malware, dates, entry, clock>>

NoMalware == "no malware"

DatesInit ==
  /\ malware = NoMalware /\ dates = <<>> /\ entry = 1
  /\ clock = "today"

\* The variables of processMalwareCommand go with each request; the clock stays.
FreshDates ==
  /\ malware' = NoMalware /\ dates' = <<>> /\ entry' = 1
  /\ UNCHANGED clock

\* getRandomMalware (its renaming is FileCatalogue's).
DrawMalware ==
  /\ At("rename")
  /\ malware' \in Malware
  /\ GoOn(Tail(todo))
  /\ UNCHANGED <<dates, entry, clock>>

ReadDates ==
  /\ At("settings")
  /\ dates' \in DateFiles
  /\ entry' = 1
  /\ GoOn(Tail(todo))
  /\ UNCHANGED <<malware, clock>>

Current == dates[entry]
InLoop == At("dates") /\ entry <= Len(dates)

\* istarts_with(malwareFile, name), of a whole path and what was configured.
NameMatches == Current.full /\ Current.of = malware

\* Mutant: the loop goes on without the next entry.
SkipEntry_stays ==
  /\ InLoop /\ NameMatches
  /\ UNCHANGED <<cycleVars, dateVars>>

SkipEntry ==
  /\ InLoop /\ NameMatches
  /\ entry' = entry + 1
  /\ UNCHANGED <<cycleVars, malware, dates, clock>>

\* (Of a short date, parts are read beyond its end, if that is survived.)
SetClock ==
  /\ InLoop /\ Current.date # "broken" /\ ~NameMatches
  /\ clock' = Current.date
  /\ entry' = entry + 1
  /\ UNCHANGED <<cycleVars, malware, dates>>

\* The date cannot be set, or the entry is not an object: the file is not
\* opened, and the dates set before stay.
EntryFails ==
  /\ InLoop
  /\ \/ Current.date # "broken" /\ ~NameMatches /\ Respond("500")
     \/ Current.date = "broken" /\ Respond("400")
  /\ UNCHANGED <<edition, off, enabled, count, sent, request, done, dateVars>>

EntryFaults ==
  /\ InLoop /\ Current.date = "short" /\ ~NameMatches
  /\ CycleEnds
  /\ UNCHANGED dateVars

DatesDone ==
  /\ At("dates") /\ entry > Len(dates)
  /\ GoOn(Tail(todo))
  /\ UNCHANGED dateVars

DateStep ==
  \/ DrawMalware \/ ReadDates
  \/ SkipEntry \/ SetClock \/ EntryFails \/ EntryFaults \/ DatesDone

-----------------------------------------------------------------------------
\* README, "Malware with date-specific payloads": a malware file that has a
\* date in the settings is opened on that date.
RunsOnItsDate ==
  reply = "200" /\ request.route = "/runMalware" =>
    \A i \in 1..Len(dates) : dates[i].of = malware => clock = dates[i].date
=============================================================================
