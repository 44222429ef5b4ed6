------------------------- MODULE SoundSchemeProofs -------------------------
(***************************************************************************)
(* However requests, failures and restarts follow each other, the registry *)
(* holds a beginning of the chosen pack on top of what was there before,   *)
(* and the whole of it after a request that went through.  This holds for  *)
(* any set of packs and names, and either way of naming the start sound.   *)
(* A pack in place is not offered again because the active name is the     *)
(* name of the pack in the registry whenever no request was cut short and  *)
(* the process has not been started anew.                                  *)
(***************************************************************************)
EXTENDS SoundScheme, TLAPS

\* While a request writes, exactly the keys before the next one are written.
WrittenSoFar == pc = "write" => scheme = Mixture(next - 1)

\* A request that went through has written all of them.
WrittenWhenDone == pc = "idle" /\ chosen # NoDir /\ ~torn => scheme = Mixture(6)

SchemeInv == TypeOK /\ WrittenSoFar /\ WrittenWhenDone /\ WrittenInOrder

\* setSoundsFromJson's place for each of the six keys is a place of the registry.
LEMMA PlaceOfKey == ASSUME NEW i \in 1..6 PROVE SubKey(i) \in Place
BY DEF SubKey, Place, keys

\* What is written for a directory is a sound.
LEMMA SoundOfDir == ASSUME NEW d \in Dir PROVE SoundFrom(d) \in Sound
BY DEF SoundFrom, Sound

\* Writing the next key makes the mixture of one key more.
LEMMA OneKeyMore ==
  ASSUME NEW n \in 1..6, scheme = Mixture(n - 1),
         chosen' = chosen, before' = before,
         scheme' = [scheme EXCEPT ![SubKey(n)] = SoundFrom(chosen)]
  PROVE  scheme' = Mixture(n)'
<1>1. \A p \in Place : (\E i \in 1..n : p = SubKey(i))
                         <=> (\E i \in 1..(n - 1) : p = SubKey(i)) \/ p = SubKey(n)
  <2> TAKE p \in Place
  <2>1. \A i \in 1..n : i = n \/ i \in 1..(n - 1)
    OBVIOUS
  <2>2. n \in 1..n /\ \A i \in 1..(n - 1) : i \in 1..n
    OBVIOUS
  <2> QED BY <2>1, <2>2
<1>2. SubKey(n) \in Place
  BY PlaceOfKey
<1>3. SoundFrom(chosen)' = SoundFrom(chosen)
  BY DEF SoundFrom, IsDefault
<1>4. \A p \in Place : scheme'[p] = (IF \E i \in 1..n : p = SubKey(i)
                                       THEN SoundFrom(chosen) ELSE before[p])
  BY <1>1, <1>2 DEF Mixture
<1>5. scheme' = [p \in Place |-> scheme'[p]]
  BY <1>2 DEF Mixture
<1> QED BY <1>3, <1>4, <1>5 DEF Mixture, SubKey

-----------------------------------------------------------------------------
\* No request has come when the process starts for the first time.
LEMMA InitEstablishes == Init => SchemeInv
<1> SUFFICES ASSUME Init PROVE SchemeInv
  OBVIOUS
<1>1. scheme \in [Place -> Sound] /\ before \in [Place -> Sound]
  BY DEF Init, Sound
<1>2. next \in 1..7
  BY DEF Init
<1>3. TypeOK
  BY <1>1, <1>2, PackAssumption, Zenon DEF Init, TypeOK
<1> QED BY <1>3 DEF Init, SchemeInv, WrittenSoFar, WrittenWhenDone, WrittenInOrder

\* The variables keep their types.
LEMMA TypePreserved == TypeOK /\ [Next]_vars => TypeOK'
<1> SUFFICES ASSUME TypeOK, [Next]_vars PROVE TypeOK'
  OBVIOUS
<1> USE DEF TypeOK
<1>1. CASE ChoosePack
  BY <1>1 DEF ChoosePack, Offered
<1>2. ASSUME pc = "write", next <= 6, Write
      PROVE  scheme' \in [Place -> Sound]
  BY <1>2, PlaceOfKey, SoundOfDir DEF Write
<1>3. CASE SetKey
  BY <1>2, <1>3 DEF SetKey
<1>4. CASE SetKeyFails
  BY <1>2, <1>4 DEF SetKeyFails
<1>5. CASE SetSoundPack
  <2>1. chosen \in Dir /\ active' = NameOf[chosen] /\ NameOf[chosen] \in Pack
    BY <1>5, PackAssumption DEF SetSoundPack
  <2>2. torn' \in BOOLEAN /\ fresh' \in BOOLEAN
    BY <1>5, Zenon DEF SetSoundPack
  <2> QED BY <1>5, <2>1, <2>2 DEF SetSoundPack
<1>6. CASE Restart
  <2>1. torn' \in BOOLEAN
    BY <1>6, Zenon DEF Restart
  <2> QED BY <1>6, <2>1, PackAssumption DEF Restart
<1>7. CASE UNCHANGED vars
  BY <1>7 DEF vars
<1> QED BY <1>1, <1>3, <1>4, <1>5, <1>6, <1>7 DEF Next

\* A step that leaves the chosen pack and what was before it alone leaves every
\* mixture alone.
LEMMA SameMixture ==
  ASSUME chosen' = chosen, before' = before
  PROVE  \A n \in 0..6 : Mixture(n)' = Mixture(n)
BY DEF Mixture, SoundFrom, IsDefault, SubKey

\* Nothing written yet: the mixture is what was there before.
LEMMA NoKeyYet == ASSUME before \in [Place -> Sound] PROVE Mixture(0) = before
<1>1. \A p \in Place : ~ \E i \in 1..0 : p = SubKey(i)
  OBVIOUS
<1>2. Mixture(0) = [p \in Place |-> before[p]]
  BY <1>1 DEF Mixture
<1> QED BY <1>2

\* The written keys are the first ones after every step.
LEMMA SchemePreserved == SchemeInv /\ [Next]_vars => SchemeInv'
<1> SUFFICES ASSUME SchemeInv, [Next]_vars PROVE SchemeInv'
  OBVIOUS
<1> USE DEF SchemeInv, WrittenSoFar, WrittenWhenDone, WrittenInOrder
<1>t. TypeOK'
  BY TypePreserved
<1>k. ASSUME NEW n \in 1..6, n = next, pc = "write", Write,
             chosen' = chosen, before' = before
      PROVE  scheme' = Mixture(n)'
  BY <1>k, OneKeyMore DEF Write
<1>n. pc = "write" /\ next <= 6 => next \in 1..6
  BY DEF TypeOK
<1>1. CASE ChoosePack
  <2>1. scheme' = before' /\ next' = 1 /\ pc' = "write"
    BY <1>1 DEF ChoosePack
  <2>2. Mixture(0)' = before'
    <3>1. before' \in [Place -> Sound]
      BY <1>t DEF TypeOK
    <3>2. \A p \in Place : ~ \E i \in 1..0 : p = SubKey(i)'
      OBVIOUS
    <3> QED BY <3>1, <3>2 DEF Mixture
  <2> QED BY <1>t, <2>1, <2>2
<1>2. CASE SetKey
  <2>1. PICK n \in 1..6 : n = next
    BY <1>2, <1>n DEF SetKey
  <2>2. pc' = "write" /\ next' - 1 = n
    BY <1>2, <2>1 DEF SetKey
  <2>3. scheme' = Mixture(n)'
    BY <1>2, <1>k, <2>1 DEF SetKey
  <2> QED BY <1>t, <2>2, <2>3
<1>3. CASE SetKeyFails
  <2>1. pc = "write" /\ next <= 6 /\ pc' = "idle" /\ torn'
        /\ chosen' = chosen /\ before' = before
    BY <1>3 DEF SetKeyFails
  <2>2. CASE Write
    <3>1. PICK n \in 1..6 : n = next
      BY <1>n, <2>1
    <3>2. scheme' = Mixture(n)'
      BY <1>k, <2>1, <2>2, <3>1
    <3> QED BY <1>t, <2>1, <3>2
  <2>3. CASE UNCHANGED scheme
    BY <1>t, <2>1, <2>3, SameMixture
  <2> QED BY <1>3, <2>2, <2>3 DEF SetKeyFails
<1>4. CASE SetSoundPack
  <2>1. scheme = Mixture(6) /\ chosen' = chosen /\ before' = before /\ scheme' = scheme
        /\ pc' = "idle"
    BY <1>4 DEF SetSoundPack
  <2> QED BY <1>t, <2>1, SameMixture
<1>5. CASE Restart
  <2>1. pc' = "idle" /\ (~torn' => ~torn /\ pc # "write")
        /\ chosen' = chosen /\ before' = before /\ scheme' = scheme
    BY <1>5 DEF Restart
  <2>2. ~torn' => pc = "idle"
    BY <2>1 DEF TypeOK
  <2> QED BY <1>t, <2>1, <2>2, SameMixture
<1>6. CASE UNCHANGED vars
  <2>1. pc' = pc /\ next' = next /\ torn' = torn /\ chosen' = chosen
        /\ before' = before /\ scheme' = scheme
    BY <1>6 DEF vars
  <2>2. pc = "write" => next - 1 \in 0..6
    BY DEF TypeOK
  <2> QED BY <1>t, <2>1, <2>2, SameMixture
<1> QED BY <1>1, <1>2, <1>3, <1>4, <1>5, <1>6 DEF Next

-----------------------------------------------------------------------------
\* The registry is never anything but a beginning of the chosen pack on top of
\* what was there before: no key is passed over, whatever fails and when.
THEOREM InOrder == Spec => []WrittenInOrder
<1>1. SchemeInv => WrittenInOrder
  BY DEF SchemeInv
<1> QED BY <1>1, InitEstablishes, SchemePreserved, PTL DEF Spec

\* Unless the last request was cut short, all six sounds are of its pack.
THEOREM Whole == Spec => []SchemeIsWhole
<1>1. SchemeInv => SchemeIsWhole
  BY PlaceOfKey DEF SchemeInv, WrittenWhenDone, SchemeIsWhole, Mixture
<1> QED BY <1>1, InitEstablishes, SchemePreserved, PTL DEF Spec

\* A pack becomes the active one only when all its sounds are in the registry.
THEOREM ActiveAfterAll == Spec => ActiveWhenWritten
<1>1. SchemeInv /\ [Next]_vars
        => [active' # active /\ active' # "default"
              => \A i \in 1..6 : scheme'[SubKey(i)] = SoundFrom(chosen')]_vars
  <2> SUFFICES ASSUME SchemeInv, Next, active' # active, active' # "default"
               PROVE  \A i \in 1..6 : scheme'[SubKey(i)] = SoundFrom(chosen')
    BY DEF vars
  <2>1. /\ pc = "write" /\ next = 7
        /\ scheme' = scheme /\ chosen' = chosen
    BY DEF Next, ChoosePack, SetKey, SetKeyFails, SetSoundPack, Restart
  <2>2. scheme' = Mixture(6)
    BY <2>1 DEF SchemeInv, WrittenSoFar
  <2> QED BY <2>1, <2>2, PlaceOfKey DEF Mixture
<1> QED BY <1>1, InitEstablishes, SchemePreserved, PTL DEF Spec, ActiveWhenWritten

\* The name FileUtil remembers is that of the pack the last request chose.
ActiveIsChosen == pc = "idle" /\ ~torn /\ ~fresh => chosen \in Dir /\ active = NameOf[chosen]

\* A pack whose directory carries its bare name is not offered while it is in
\* place: active and registry part ways only where torn or fresh says so.
THEOREM NotOfferedAgain == Spec => []ActiveNotOffered
<1>1. Init => ActiveIsChosen
  BY DEF Init, ActiveIsChosen
<1>2. TypeOK /\ ActiveIsChosen /\ [Next]_vars => ActiveIsChosen'
  <2> SUFFICES ASSUME TypeOK, ActiveIsChosen, [Next]_vars PROVE ActiveIsChosen'
    OBVIOUS
  <2>1. CASE ChoosePack \/ SetKey BY <2>1 DEF ChoosePack, SetKey, ActiveIsChosen
  <2>2. CASE SetKeyFails BY <2>2 DEF SetKeyFails, ActiveIsChosen
  <2>3. CASE SetSoundPack BY <2>3 DEF SetSoundPack, ActiveIsChosen, TypeOK
  <2>4. CASE Restart BY <2>4 DEF Restart, ActiveIsChosen
  <2>5. CASE UNCHANGED vars BY <2>5 DEF vars, ActiveIsChosen
  <2> QED BY <2>1, <2>2, <2>3, <2>4, <2>5 DEF Next
<1>3. ActiveIsChosen => ActiveNotOffered
  BY DEF ActiveIsChosen, ActiveNotOffered, Offered
<1>4. Spec => []TypeOK
  <2>1. SchemeInv => TypeOK
    BY DEF SchemeInv
  <2> QED BY <2>1, InitEstablishes, SchemePreserved, PTL DEF Spec
<1> QED BY <1>1, <1>2, <1>3, <1>4, PTL DEF Spec
=============================================================================
