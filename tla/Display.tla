------------------------------ MODULE Display ------------------------------
(***************************************************************************)
(* /macro, /micro and /colors: ResolutionUtil against the machine's        *)
(* screens.  Windows changes the primary screen in one call; Linux reads   *)
(* what xrandr prints and then sets one screen after the other.            *)
(***************************************************************************)
EXTENDS RequestCycle, Integers, FiniteSetsExt

CONSTANT Machines  \* the machines looked at: for each screen, the primary one
                   \* first, the modes it lists, as records [w, h, depth]
ListedMode == [w : Nat, h : Nat, depth : Nat]
ASSUME MachineAssumption ==
  \A m \in Machines :
    m # <<>> /\ m \in Seq(Seq(ListedMode)) /\ \A i \in DOMAIN m : m[i] # <<>>

VARIABLES
  screens,  \* the machine's screens and their modes
  mode,     \* the width and height each screen has
  known,    \* Linux: the screens that xrandr told of
  left      \* Linux: those of them that are still to be set

displayVars == <<screens, mode, known, left>>

Size(m) == [w |-> m.w, h |-> m.h]
Up == request.route = "/macro"

\* A size that none of the machines lists, so that a redeem is seen to act.
StartMode == [w |-> 1000, h |-> 700]

DisplayInit ==
  /\ screens \in Machines
  /\ mode = [i \in DOMAIN screens |-> StartMode]
  /\ known = {} /\ left = <<>>

\* What changeResolution gathers goes with each request; the modes stay.
FreshDisplay ==
  /\ known' = {} /\ left' = <<>>
  /\ UNCHANGED <<screens, mode>>

-----------------------------------------------------------------------------
(* Windows                                                                 *)

\* Mutant: modes of fewer colours count for the largest size as well.
Counted_all(m) == TRUE

\* Modes of less than 32 bits are skipped when the largest size is wanted.
Counted(m) == Up => m.depth >= 32

\* The extreme width and the extreme height, each for itself, from 1000.
Extreme(sizes) == IF Up THEN Max({1000} \cup sizes) ELSE Min({1000} \cup sizes)

Target ==
  LET counted == {m \in ToSet(screens[1]) : Counted(m)}
  IN  [w |-> Extreme({m.w : m \in counted}), h |-> Extreme({m.h : m \in counted})]

\* ChangeDisplaySettings takes sizes that are a mode of the display.
ChangeResolution ==
  /\ edition # "linux" /\ At("resolution")
  /\ Target \in {Size(m) : m \in ToSet(screens[1])}
  /\ mode' = [mode EXCEPT ![1] = Target]
  /\ GoOn(Tail(todo))
  /\ UNCHANGED <<screens, known, left>>

\* Neither it nor the query of the current settings before it need succeed.
ChangeRefused ==
  /\ edition # "linux" /\ At("resolution")
  /\ Respond("500")
  /\ UNCHANGED <<edition, off, enabled, count, sent, request, done, displayVars>>

-----------------------------------------------------------------------------
(* Linux                                                                   *)

\* Mutant: the comparison is the same for both redeems.
Better_alwaysUp(m, best) == m.w > best.w

\* Only widths are compared; when shrinking, an equal one counts as smaller.
Better(m, best) == IF Up THEN m.w > best.w ELSE m.w <= best.w

Chosen(i) ==
  FoldLeft(LAMBDA best, m : IF Better(m, best) THEN m ELSE best,
           Head(screens[i]), Tail(screens[i]))

\* xrandr is run, and tells of some of the screens (of none when it cannot
\* open the display).
QueryScreens ==
  /\ edition = "linux" /\ At("resolution")
  /\ \E n \in 0..Len(screens) :
       /\ known' = 1..n
       /\ left' = [i \in 1..n |-> i]
  /\ GoOn(<<"screens">> \o Tail(todo))
  /\ UNCHANGED <<screens, mode>>

QueryFails ==
  /\ edition = "linux" /\ At("resolution")
  /\ Respond("500")
  /\ UNCHANGED <<edition, off, enabled, count, sent, request, done, displayVars>>

\* An output that is connected but not in use has modes and no size at the end
\* of its line: when it comes first, its modes go to the screen before the first.
QueryFaults ==
  /\ edition = "linux" /\ At("resolution")
  /\ CycleEnds
  /\ UNCHANGED displayVars

SetScreen ==
  /\ At("screens") /\ left # <<>>
  /\ mode' = [mode EXCEPT ![Head(left)] = Size(Chosen(Head(left)))]
  /\ left' = Tail(left)
  /\ UNCHANGED <<cycleVars, screens, known>>

\* xrandr fails: the exception leaves the screens before this one changed.
SetScreenFails ==
  /\ At("screens") /\ left # <<>>
  /\ left' = <<>>
  /\ Respond("500")
  /\ UNCHANGED <<edition, off, enabled, count, sent, request, done, screens, mode,
                 known>>

ScreensDone ==
  /\ At("screens") /\ left = <<>>
  /\ GoOn(Tail(todo))
  /\ UNCHANGED displayVars

DisplayStep ==
  \/ ChangeResolution \/ ChangeRefused
  \/ QueryScreens \/ QueryFails \/ QueryFaults \/ SetScreen \/ SetScreenFails \/ ScreensDone

-----------------------------------------------------------------------------
\* When /macro or /micro has been answered with 200, the primary screen (on
\* Linux every screen that xrandr told of) has the largest, or the smallest,
\* width among its modes (of 32 bits, for /macro on Windows), whatever the
\* sizes it started from and the redeems before.
ReachesExtreme ==
  reply = "200" /\ request.route \in {"/macro", "/micro"} =>
    \A i \in IF edition = "linux" THEN known ELSE {1} :
      \A m \in ToSet(screens[i]) :
        IF request.route = "/macro"
          THEN edition = "linux" \/ m.depth >= 32 => m.w <= mode[i].w
          ELSE mode[i].w <= m.w
=============================================================================
