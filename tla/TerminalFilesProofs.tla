------------------------ MODULE TerminalFilesProofs ------------------------
(***************************************************************************)
(* What a console may find in the file it reads, for any number of         *)
(* requests, any interleaving with the server and every edition.           *)
(*                                                                         *)
(* The properties speak of what has run, so the invariant says what a      *)
(* console would run if it read its file now: nothing refused is in any    *)
(* file; a file holds a command of its own minute; what a console comes to *)
(* is its own request's or a later one's, and never earlier than what it   *)
(* has asked about; and a console that comes to a file unasked is that of  *)
(* a request without a URL, at its own minute's file.                      *)
(***************************************************************************)
EXTENDS TerminalFiles, TLAPS

\* Nothing refused gets past the check, into a file or into a console.
NothingRefused ==
  /\ pc \notin {"idle", "check"} => req \notin Refused
  /\ \A m \in Minute : batch[m] \notin Refused
  /\ RefusedNeverRuns

RefusalInv == TypeOK /\ NothingRefused

\* Requests come one after the other.
Order ==
  /\ \A q, r \in Request : q \in later[r] => q \in sent /\ r \in sent
  /\ \A p, q, r \in Request : q \in later[r] /\ p \in later[q] => p \in later[r]

\* The request under way is the last one, and has no console yet.
ReqIsNew ==
  pc # "idle" =>
    /\ req \in sent /\ console[req] = "none"
    /\ \A r \in sent : r # req => req \in later[r]

\* Linux goes from the check to system().
LinuxWritesNothing == edition = "linux" => pc \in {"idle", "check", "open"}

\* A name is formed once, and nothing is opened before.
NamedOnce ==
  edition # "linux" =>
    /\ \A r \in Request : r \notin sent => file[r] = 0
    /\ pc \in {"check", "delete"} => file[req] = 0
    /\ \A r \in Request : console[r] # "none" => file[r] \in Minute
    /\ \A x \in ran : file[x.by] \in Minute /\ file[x.what] \in Minute

\* Between the writing and the opening nobody else writes.
WrittenWhenOpened ==
  edition # "linux" /\ pc \in {"open", "deleteWarning", "writeWarning", "openWarning"}
    => batch[file[req]] = req

ConsolesWereSent ==
  \A r \in Request : /\ console[r] # "none" => r \in sent
                     /\ console[r] = "none" => shown[r] = NoRequest
                     /\ console[r] = "ask" => shown[r] # NoRequest
                     /\ shown[r] # NoRequest => shown[r] \in sent

FilesAreOfTheirMinute ==
  \A m \in Minute : batch[m] # NoRequest =>
    /\ edition # "linux"
    /\ batch[m] \in sent /\ file[batch[m]] = m

\* w is r or came after it, or there is nothing.
NotBefore(r, w) == w \in {NoRequest, r} \cup later[r]

\* What r, come to the file of minute m, finds there.
Finds(r, m) ==
  /\ NotBefore(r, batch[m])
  /\ batch[m] = r \/ \E q \in later[r] : file[q] = m

\* WARNING.BAT is that of the last request with a URL, whose file is written.
WarningsInOrder ==
  /\ warning # NoRequest => warning \in sent /\ Finds(warning, file[warning])
  /\ pc = "openWarning" => NotBefore(req, warning)
  /\ \A r \in Request :
       /\ console[r] \in {"warning", "ask"} => NotBefore(r, warning)
       /\ console[r] = "ask" => NotBefore(shown[r], warning)

\* What a console would find now.
ConsolesInOrder ==
  edition # "linux" =>
    \A r \in Request : console[r] = "command" =>
      /\ Finds(r, opens[r])
      /\ shown[r] # NoRequest => NotBefore(shown[r], batch[opens[r]])

\* From Open to RunFile without a question.
UnaskedIsPlain ==
  Warn /\ edition # "linux" =>
    /\ pc = "open" => req \notin Url
    /\ \A r \in Request : console[r] = "command" /\ shown[r] = NoRequest =>
         r \notin Url /\ opens[r] = file[r]

RanWasSent ==
  \A x \in ran : edition # "linux" /\ x.by \in sent /\ x.what \in sent

AskingInv ==
  /\ TypeOK
  /\ Order /\ ReqIsNew /\ LinuxWritesNothing /\ NamedOnce /\ WrittenWhenOpened
  /\ ConsolesWereSent /\ FilesAreOfTheirMinute
  /\ WarningsInOrder /\ ConsolesInOrder /\ UnaskedIsPlain
  /\ RanWasSent /\ UrlsAskedFirst

-----------------------------------------------------------------------------
\* Nothing has been sent, written or opened when the process starts.
LEMMA InitEstablishes == Init => RefusalInv /\ AskingInv
BY RequestAssumption, BoundAssumption
   DEF Init, RefusalInv, AskingInv, TypeOK, NothingRefused, RefusedNeverRuns, ReqIsNew,
       LinuxWritesNothing, WrittenWhenOpened, Order, NamedOnce, WarningsInOrder,
       ConsolesInOrder, NotBefore, ConsolesWereSent, FilesAreOfTheirMinute,
       UnaskedIsPlain, RanWasSent, UrlsAskedFirst, Minute

\* The variables keep their types.
LEMMA TypePreserved == TypeOK /\ [Next]_vars => TypeOK'
<1> SUFFICES ASSUME TypeOK, [Next]_vars PROVE TypeOK'
  OBVIOUS
<1> USE DEF TypeOK, Goto, After, serverVars, diskVars, consoleVars
<1>1. CASE Begin
  BY <1>1 DEF Begin
<1>2. CASE Check \/ CheckRefuses
  BY <1>2 DEF Check, CheckRefuses
<1>3. CASE DeleteFile \/ WriteFile
  BY <1>3 DEF DeleteFile, WriteFile
<1>4. CASE DeleteWarning \/ WriteWarning
  BY <1>4 DEF DeleteWarning, WriteWarning
<1>5. CASE OpenWarning \/ Open
  BY <1>5 DEF OpenWarning, Open
<1>6. CASE Fails
  BY <1>6 DEF Fails
<1>7. ASSUME NEW r \in Request, Ask(r) PROVE TypeOK'
  BY <1>7 DEF Ask
<1>8. ASSUME NEW r \in Request, AnswerYes(r) \/ AnswerNo(r) PROVE TypeOK'
  BY <1>8 DEF AnswerYes, AnswerNo
<1>9. ASSUME NEW r \in Request, RunFile(r) PROVE TypeOK'
  <2>1. ran' \subseteq [by : Request, what : Request, asked : Request \cup {NoRequest}]
    <3> DEFINE what == batch[opens[r]]
    <3>1. CASE what = NoRequest
      BY <1>9, <3>1 DEF RunFile
    <3>2. CASE what # NoRequest
      <4>1. what \in Request
        BY <3>2
      <4>2. [by |-> r, what |-> what, asked |-> shown[r]]
              \in [by : Request, what : Request, asked : Request \cup {NoRequest}]
        BY <4>1
      <4> QED BY <1>9, <3>2, <4>2 DEF RunFile
    <3> QED BY <3>1, <3>2
  <2> QED BY <1>9, <2>1 DEF RunFile
<1>10. CASE Tick
  BY <1>10, BoundAssumption DEF Tick, Minute
<1>11. CASE UNCHANGED vars
  BY <1>11 DEF vars
<1> QED BY <1>1, <1>2, <1>3, <1>4, <1>5, <1>6, <1>7, <1>8, <1>9, <1>10, <1>11
        DEF Next, ServerStep

-----------------------------------------------------------------------------
\* Files and consoles stay free of refused commands.
LEMMA RefusalPreserved == RefusalInv /\ [Next]_vars => RefusalInv'
<1> SUFFICES ASSUME RefusalInv, [Next]_vars PROVE NothingRefused'
  BY TypePreserved DEF RefusalInv
<1> USE RequestAssumption DEF RefusalInv, TypeOK, NothingRefused, RefusedNeverRuns,
                              Goto, After, serverVars, diskVars, consoleVars
<1>1. CASE Begin \/ Check \/ CheckRefuses \/ Fails
  BY <1>1 DEF Begin, Check, CheckRefuses, Fails
<1>2. CASE DeleteFile \/ WriteFile
  BY <1>2 DEF DeleteFile, WriteFile
<1>3. CASE DeleteWarning \/ WriteWarning \/ OpenWarning \/ Open
  BY <1>3 DEF DeleteWarning, WriteWarning, OpenWarning, Open
<1>4. ASSUME NEW r \in Request, Ask(r) \/ AnswerYes(r) \/ AnswerNo(r)
      PROVE  NothingRefused'
  BY <1>4 DEF Ask, AnswerYes, AnswerNo
<1>5. ASSUME NEW r \in Request, RunFile(r) PROVE NothingRefused'
  <2>1. batch[opens[r]] \notin Refused
    OBVIOUS
  <2>2. \A x \in ran' : x \in ran \/ x.what = batch[opens[r]]
    BY <1>5 DEF RunFile
  <2> QED BY <1>5, <2>1, <2>2 DEF RunFile
<1>6. CASE Tick \/ UNCHANGED vars
  BY <1>6 DEF Tick, vars
<1> QED BY <1>1, <1>2, <1>3, <1>4, <1>5, <1>6 DEF Next, ServerStep

\* Whoever is asked, and whatever the files hold meanwhile.
LEMMA AskingPreserved == AskingInv /\ [Next]_vars => AskingInv'
<1> SUFFICES ASSUME AskingInv, [Next]_vars PROVE AskingInv'
  OBVIOUS
<1>t. TypeOK'
  BY TypePreserved DEF AskingInv
<1> USE <1>t, RequestAssumption DEF AskingInv, TypeOK, serverVars, diskVars, consoleVars
<1>1. CASE Begin
  <2>1. Order' /\ ReqIsNew' /\ LinuxWritesNothing' /\ WrittenWhenOpened'
    BY <1>1 DEF Begin, Order, ReqIsNew, LinuxWritesNothing, WrittenWhenOpened,
       ConsolesWereSent, Goto, After
  <2>2. NamedOnce' /\ ConsolesWereSent' /\ FilesAreOfTheirMinute'
    BY <1>1 DEF Begin, NamedOnce, ConsolesWereSent, FilesAreOfTheirMinute, ReqIsNew,
       LinuxWritesNothing, WarningsInOrder, Minute, Goto, After
  <2>3. WarningsInOrder'
    BY <1>1 DEF Begin, WarningsInOrder, NotBefore, Finds, ReqIsNew, Order,
       NamedOnce, ConsolesWereSent, WrittenWhenOpened, LinuxWritesNothing, Minute,
       Goto, After
  <2>4. ConsolesInOrder'
    BY <1>1 DEF Begin, ConsolesInOrder, NotBefore, Finds, ReqIsNew, Order,
       NamedOnce, ConsolesWereSent, WrittenWhenOpened, WarningsInOrder, Minute,
       Goto, After
  <2>5. UnaskedIsPlain' /\ RanWasSent' /\ UrlsAskedFirst'
    BY <1>1 DEF Begin, UnaskedIsPlain, RanWasSent, UrlsAskedFirst, ReqIsNew,
       NamedOnce, ConsolesWereSent, FilesAreOfTheirMinute, Order, Minute, Goto,
       After
  <2> QED BY <2>1, <2>2, <2>3, <2>4, <2>5
<1>2. CASE Check \/ CheckRefuses \/ Fails
  <2>1. Order' /\ ReqIsNew' /\ LinuxWritesNothing' /\ WrittenWhenOpened'
    BY <1>2 DEF Check, CheckRefuses, Fails, Order, ReqIsNew, LinuxWritesNothing,
       WrittenWhenOpened, ConsolesWereSent, Goto, After
  <2>2. NamedOnce' /\ ConsolesWereSent' /\ FilesAreOfTheirMinute'
    BY <1>2 DEF Check, CheckRefuses, Fails, NamedOnce, ConsolesWereSent,
       FilesAreOfTheirMinute, ReqIsNew, LinuxWritesNothing, WarningsInOrder, Minute,
       Goto, After
  <2>3. WarningsInOrder'
    BY <1>2 DEF Check, CheckRefuses, Fails, WarningsInOrder, NotBefore, Finds,
       ReqIsNew, Order, NamedOnce, ConsolesWereSent, WrittenWhenOpened,
       LinuxWritesNothing, Minute, Goto, After
  <2>4. ConsolesInOrder'
    BY <1>2 DEF Check, CheckRefuses, Fails, ConsolesInOrder, NotBefore, Finds,
       ReqIsNew, Order, NamedOnce, ConsolesWereSent, WrittenWhenOpened,
       WarningsInOrder, Minute, Goto, After
  <2>5. UnaskedIsPlain' /\ RanWasSent' /\ UrlsAskedFirst'
    BY <1>2 DEF Check, CheckRefuses, Fails, UnaskedIsPlain, RanWasSent,
       UrlsAskedFirst, ReqIsNew, NamedOnce, ConsolesWereSent, FilesAreOfTheirMinute,
       Order, Minute, Goto, After
  <2> QED BY <2>1, <2>2, <2>3, <2>4, <2>5
<1>3. CASE DeleteFile
  <2>1. Order' /\ ReqIsNew' /\ LinuxWritesNothing' /\ WrittenWhenOpened'
    BY <1>3 DEF DeleteFile, Order, ReqIsNew, LinuxWritesNothing, WrittenWhenOpened,
       ConsolesWereSent, Goto, After
  <2>2. NamedOnce' /\ ConsolesWereSent' /\ FilesAreOfTheirMinute'
    BY <1>3 DEF DeleteFile, NamedOnce, ConsolesWereSent, FilesAreOfTheirMinute,
       ReqIsNew, LinuxWritesNothing, WarningsInOrder, Minute, Goto, After
  <2>3. WarningsInOrder'
    BY <1>3 DEF DeleteFile, WarningsInOrder, NotBefore, Finds, ReqIsNew, Order,
       NamedOnce, ConsolesWereSent, WrittenWhenOpened, LinuxWritesNothing, Minute,
       Goto, After
  <2>4. ConsolesInOrder'
    BY <1>3 DEF DeleteFile, ConsolesInOrder, NotBefore, Finds, ReqIsNew, Order,
       NamedOnce, ConsolesWereSent, WrittenWhenOpened, WarningsInOrder, Minute,
       Goto, After
  <2>5. UnaskedIsPlain' /\ RanWasSent' /\ UrlsAskedFirst'
    BY <1>3 DEF DeleteFile, UnaskedIsPlain, RanWasSent, UrlsAskedFirst, ReqIsNew,
       NamedOnce, ConsolesWereSent, FilesAreOfTheirMinute, Order, Minute, Goto,
       After
  <2> QED BY <2>1, <2>2, <2>3, <2>4, <2>5
<1>4. CASE WriteFile
  <2>1. Order' /\ ReqIsNew' /\ LinuxWritesNothing' /\ WrittenWhenOpened'
    BY <1>4 DEF WriteFile, Order, ReqIsNew, LinuxWritesNothing, WrittenWhenOpened,
       ConsolesWereSent, Goto, After
  <2>2. NamedOnce' /\ ConsolesWereSent' /\ FilesAreOfTheirMinute'
    BY <1>4 DEF WriteFile, NamedOnce, ConsolesWereSent, FilesAreOfTheirMinute,
       ReqIsNew, LinuxWritesNothing, WarningsInOrder, Minute, Goto, After
  <2>3. WarningsInOrder'
    BY <1>4 DEF WriteFile, WarningsInOrder, NotBefore, Finds, ReqIsNew, Order,
       NamedOnce, ConsolesWereSent, WrittenWhenOpened, LinuxWritesNothing, Minute,
       Goto, After
  <2>4. ConsolesInOrder'
    BY <1>4 DEF WriteFile, ConsolesInOrder, NotBefore, Finds, ReqIsNew, Order,
       NamedOnce, ConsolesWereSent, WrittenWhenOpened, WarningsInOrder, Minute,
       Goto, After
  <2>5. UnaskedIsPlain' /\ RanWasSent' /\ UrlsAskedFirst'
    BY <1>4 DEF WriteFile, UnaskedIsPlain, RanWasSent, UrlsAskedFirst, ReqIsNew,
       NamedOnce, ConsolesWereSent, FilesAreOfTheirMinute, Order, Minute, Goto,
       After
  <2> QED BY <2>1, <2>2, <2>3, <2>4, <2>5
<1>5. CASE DeleteWarning
  <2>1. Order' /\ ReqIsNew' /\ LinuxWritesNothing' /\ WrittenWhenOpened'
    BY <1>5 DEF DeleteWarning, Order, ReqIsNew, LinuxWritesNothing,
       WrittenWhenOpened, ConsolesWereSent, Goto, After
  <2>2. NamedOnce' /\ ConsolesWereSent' /\ FilesAreOfTheirMinute'
    BY <1>5 DEF DeleteWarning, NamedOnce, ConsolesWereSent, FilesAreOfTheirMinute,
       ReqIsNew, LinuxWritesNothing, WarningsInOrder, Minute, Goto, After
  <2>3. WarningsInOrder'
    BY <1>5 DEF DeleteWarning, WarningsInOrder, NotBefore, Finds, ReqIsNew, Order,
       NamedOnce, ConsolesWereSent, WrittenWhenOpened, LinuxWritesNothing, Minute,
       Goto, After
  <2>4. ConsolesInOrder'
    BY <1>5 DEF DeleteWarning, ConsolesInOrder, NotBefore, Finds, ReqIsNew, Order,
       NamedOnce, ConsolesWereSent, WrittenWhenOpened, WarningsInOrder, Minute,
       Goto, After
  <2>5. UnaskedIsPlain' /\ RanWasSent' /\ UrlsAskedFirst'
    BY <1>5 DEF DeleteWarning, UnaskedIsPlain, RanWasSent, UrlsAskedFirst, ReqIsNew,
       NamedOnce, ConsolesWereSent, FilesAreOfTheirMinute, Order, Minute, Goto,
       After
  <2> QED BY <2>1, <2>2, <2>3, <2>4, <2>5
<1>6. CASE WriteWarning
  <2>1. Order' /\ ReqIsNew' /\ LinuxWritesNothing' /\ WrittenWhenOpened'
    BY <1>6 DEF WriteWarning, Order, ReqIsNew, LinuxWritesNothing,
       WrittenWhenOpened, ConsolesWereSent, Goto, After
  <2>2. NamedOnce' /\ ConsolesWereSent' /\ FilesAreOfTheirMinute'
    BY <1>6 DEF WriteWarning, NamedOnce, ConsolesWereSent, FilesAreOfTheirMinute,
       ReqIsNew, LinuxWritesNothing, WarningsInOrder, Minute, Goto, After
  <2>3. WarningsInOrder'
    BY <1>6 DEF WriteWarning, WarningsInOrder, NotBefore, Finds, ReqIsNew, Order,
       NamedOnce, ConsolesWereSent, WrittenWhenOpened, LinuxWritesNothing, Minute,
       Goto, After
  <2>4. ConsolesInOrder'
    BY <1>6 DEF WriteWarning, ConsolesInOrder, NotBefore, Finds, ReqIsNew, Order,
       NamedOnce, ConsolesWereSent, WrittenWhenOpened, WarningsInOrder, Minute,
       Goto, After
  <2>5. UnaskedIsPlain' /\ RanWasSent' /\ UrlsAskedFirst'
    BY <1>6 DEF WriteWarning, UnaskedIsPlain, RanWasSent, UrlsAskedFirst, ReqIsNew,
       NamedOnce, ConsolesWereSent, FilesAreOfTheirMinute, Order, Minute, Goto,
       After
  <2> QED BY <2>1, <2>2, <2>3, <2>4, <2>5
<1>7. CASE OpenWarning
  <2>1. Order' /\ ReqIsNew' /\ LinuxWritesNothing' /\ WrittenWhenOpened'
    BY <1>7 DEF OpenWarning, Order, ReqIsNew, LinuxWritesNothing, WrittenWhenOpened,
       ConsolesWereSent, Goto, After
  <2>2. NamedOnce' /\ ConsolesWereSent' /\ FilesAreOfTheirMinute'
    BY <1>7 DEF OpenWarning, NamedOnce, ConsolesWereSent, FilesAreOfTheirMinute,
       ReqIsNew, LinuxWritesNothing, WarningsInOrder, Minute, Goto, After
  <2>3. WarningsInOrder'
    BY <1>7 DEF OpenWarning, WarningsInOrder, NotBefore, Finds, ReqIsNew, Order,
       NamedOnce, ConsolesWereSent, WrittenWhenOpened, LinuxWritesNothing, Minute,
       Goto, After
  <2>4. ConsolesInOrder'
    BY <1>7 DEF OpenWarning, ConsolesInOrder, NotBefore, Finds, ReqIsNew, Order,
       NamedOnce, ConsolesWereSent, WrittenWhenOpened, WarningsInOrder, Minute,
       Goto, After
  <2>5. UnaskedIsPlain' /\ RanWasSent' /\ UrlsAskedFirst'
    BY <1>7 DEF OpenWarning, UnaskedIsPlain, RanWasSent, UrlsAskedFirst, ReqIsNew,
       NamedOnce, ConsolesWereSent, FilesAreOfTheirMinute, Order, Minute, Goto,
       After
  <2> QED BY <2>1, <2>2, <2>3, <2>4, <2>5
<1>8. CASE Open
  <2>1. Order' /\ ReqIsNew' /\ LinuxWritesNothing' /\ WrittenWhenOpened'
    BY <1>8 DEF Open, Order, ReqIsNew, LinuxWritesNothing, WrittenWhenOpened,
       ConsolesWereSent, Goto, After
  <2>2. NamedOnce' /\ ConsolesWereSent' /\ FilesAreOfTheirMinute'
    BY <1>8 DEF Open, NamedOnce, ConsolesWereSent, FilesAreOfTheirMinute, ReqIsNew,
       LinuxWritesNothing, WarningsInOrder, Minute, Goto, After
  <2>3. WarningsInOrder'
    BY <1>8 DEF Open, WarningsInOrder, NotBefore, Finds, ReqIsNew, Order, NamedOnce,
       ConsolesWereSent, WrittenWhenOpened, LinuxWritesNothing, Minute, Goto, After
  <2>4. ConsolesInOrder'
    BY <1>8 DEF Open, ConsolesInOrder, NotBefore, Finds, ReqIsNew, Order, NamedOnce,
       ConsolesWereSent, WrittenWhenOpened, WarningsInOrder, Minute, Goto, After
  <2>5. UnaskedIsPlain' /\ RanWasSent' /\ UrlsAskedFirst'
    BY <1>8 DEF Open, UnaskedIsPlain, RanWasSent, UrlsAskedFirst, ReqIsNew,
       NamedOnce, ConsolesWereSent, FilesAreOfTheirMinute, Order, Minute, Goto,
       After
  <2> QED BY <2>1, <2>2, <2>3, <2>4, <2>5
<1>9. ASSUME NEW r \in Request, Ask(r) PROVE AskingInv'
  <2>1. Order' /\ ReqIsNew' /\ LinuxWritesNothing' /\ WrittenWhenOpened'
    BY <1>9 DEF Ask, Order, ReqIsNew, LinuxWritesNothing, WrittenWhenOpened,
       ConsolesWereSent
  <2>2. NamedOnce' /\ ConsolesWereSent' /\ FilesAreOfTheirMinute'
    BY <1>9 DEF Ask, NamedOnce, ConsolesWereSent, FilesAreOfTheirMinute, ReqIsNew,
       LinuxWritesNothing, WarningsInOrder, Minute
  <2>3. WarningsInOrder'
    BY <1>9 DEF Ask, WarningsInOrder, NotBefore, Finds, ReqIsNew, Order, NamedOnce,
       ConsolesWereSent, WrittenWhenOpened, LinuxWritesNothing, Minute
  <2>4. ConsolesInOrder'
    BY <1>9 DEF Ask, ConsolesInOrder, NotBefore, Finds, ReqIsNew, Order, NamedOnce,
       ConsolesWereSent, WrittenWhenOpened, WarningsInOrder, Minute
  <2>5. UnaskedIsPlain' /\ RanWasSent' /\ UrlsAskedFirst'
    BY <1>9 DEF Ask, UnaskedIsPlain, RanWasSent, UrlsAskedFirst, ReqIsNew,
       NamedOnce, ConsolesWereSent, FilesAreOfTheirMinute, Order, Minute
  <2> QED BY <2>1, <2>2, <2>3, <2>4, <2>5
<1>10. ASSUME NEW r \in Request, AnswerYes(r) PROVE AskingInv'
  <2>1. Order' /\ ReqIsNew' /\ LinuxWritesNothing' /\ WrittenWhenOpened'
    BY <1>10 DEF AnswerYes, Order, ReqIsNew, LinuxWritesNothing, WrittenWhenOpened,
       ConsolesWereSent
  <2>2. NamedOnce' /\ ConsolesWereSent' /\ FilesAreOfTheirMinute'
    BY <1>10 DEF AnswerYes, NamedOnce, ConsolesWereSent, FilesAreOfTheirMinute,
       ReqIsNew, LinuxWritesNothing, WarningsInOrder, Minute
  <2>3. WarningsInOrder'
    BY <1>10 DEF AnswerYes, WarningsInOrder, NotBefore, Finds, ReqIsNew, Order,
       NamedOnce, ConsolesWereSent, WrittenWhenOpened, LinuxWritesNothing, Minute
  <2>4. ConsolesInOrder'
    <3>1. CASE UNCHANGED opens /\ console' = [console EXCEPT ![r] = "done"]
      BY <1>10, <3>1 DEF AnswerYes, ConsolesInOrder, NotBefore, Finds
    <3>2. CASE /\ warning # NoRequest
               /\ console' = [console EXCEPT ![r] = "command"]
               /\ opens' = [opens EXCEPT ![r] = file[warning]]
      <4> DEFINE w == warning
                 a == shown[r]
      <4>1. /\ console[r] = "ask" /\ w \in Request /\ a \in Request
            /\ NotBefore(r, w) /\ NotBefore(a, w) /\ Finds(w, file[w])
            /\ UNCHANGED <<edition, batch, shown, later, file>>
        BY <1>10, <3>2 DEF AnswerYes, WarningsInOrder, ConsolesWereSent
      <4>2. Finds(r, file[w]) /\ NotBefore(a, batch[file[w]])
        BY <3>2, <4>1 DEF Finds, NotBefore, Order
      <4>3. opens'[r] = file[w] /\ \A q \in Request : q # r => opens'[q] = opens[q]
        BY <3>2
      <4> HIDE DEF w, a
      <4>4. \A q \in Request : q # r => console'[q] = console[q]
        BY <3>2
      <4>5. ASSUME edition # "linux", NEW q \in Request, console'[q] = "command"
            PROVE  /\ Finds(q, opens[q])'
                   /\ shown[q] # NoRequest => NotBefore(shown[q], batch[opens'[q]])
        <5>1. CASE q = r
          BY <4>1, <4>2, <4>3, <5>1 DEF Finds, NotBefore, a
        <5>2. CASE q # r
          BY <4>1, <4>3, <4>4, <4>5, <5>2 DEF Finds, NotBefore, ConsolesInOrder
        <5> QED BY <5>1, <5>2
      <4> QED BY <4>1, <4>5 DEF ConsolesInOrder, NotBefore
    <3> QED BY <1>10, <3>1, <3>2 DEF AnswerYes
  <2>5. UnaskedIsPlain' /\ RanWasSent' /\ UrlsAskedFirst'
    BY <1>10 DEF AnswerYes, UnaskedIsPlain, RanWasSent, UrlsAskedFirst, ReqIsNew,
       NamedOnce, ConsolesWereSent, FilesAreOfTheirMinute, Order, Minute
  <2> QED BY <2>1, <2>2, <2>3, <2>4, <2>5
<1>11. ASSUME NEW r \in Request, AnswerNo(r) PROVE AskingInv'
  <2>1. Order' /\ ReqIsNew' /\ LinuxWritesNothing' /\ WrittenWhenOpened'
    BY <1>11 DEF AnswerNo, Order, ReqIsNew, LinuxWritesNothing, WrittenWhenOpened,
       ConsolesWereSent
  <2>2. NamedOnce' /\ ConsolesWereSent' /\ FilesAreOfTheirMinute'
    BY <1>11 DEF AnswerNo, NamedOnce, ConsolesWereSent, FilesAreOfTheirMinute,
       ReqIsNew, LinuxWritesNothing, WarningsInOrder, Minute
  <2>3. WarningsInOrder'
    BY <1>11 DEF AnswerNo, WarningsInOrder, NotBefore, Finds, ReqIsNew, Order,
       NamedOnce, ConsolesWereSent, WrittenWhenOpened, LinuxWritesNothing, Minute
  <2>4. ConsolesInOrder'
    BY <1>11 DEF AnswerNo, ConsolesInOrder, NotBefore, Finds, ReqIsNew, Order,
       NamedOnce, ConsolesWereSent, WrittenWhenOpened, WarningsInOrder, Minute
  <2>5. UnaskedIsPlain' /\ RanWasSent' /\ UrlsAskedFirst'
    BY <1>11 DEF AnswerNo, UnaskedIsPlain, RanWasSent, UrlsAskedFirst, ReqIsNew,
       NamedOnce, ConsolesWereSent, FilesAreOfTheirMinute, Order, Minute
  <2> QED BY <2>1, <2>2, <2>3, <2>4, <2>5
<1>12. ASSUME NEW r \in Request, RunFile(r) PROVE AskingInv'
  <2> DEFINE what == batch[opens[r]]
             x == [by |-> r, what |-> what, asked |-> shown[r]]
  <2>1. ran' = IF what = NoRequest THEN ran ELSE ran \cup {x}
    BY <1>12 DEF RunFile
  <2>2. /\ console[r] = "command" /\ console' = [console EXCEPT ![r] = "done"]
        /\ UNCHANGED <<edition, minute, pc, req, sent, later, file, batch, warning, shown,
                       opens>>
    BY <1>12 DEF RunFile
  <2>3. /\ Order' /\ ReqIsNew' /\ LinuxWritesNothing' /\ WrittenWhenOpened'
        /\ ConsolesWereSent' /\ FilesAreOfTheirMinute'
    BY <2>2 DEF Order, ReqIsNew, LinuxWritesNothing, WrittenWhenOpened,
                ConsolesWereSent, FilesAreOfTheirMinute
  <2>4. WarningsInOrder' /\ ConsolesInOrder' /\ UnaskedIsPlain'
    BY <2>2 DEF WarningsInOrder, ConsolesInOrder, UnaskedIsPlain, Finds, NotBefore
  <2>5. x.by = r /\ x.what = what /\ x.asked = shown[r]
    OBVIOUS
  <2>6. ASSUME what # NoRequest
        PROVE  /\ edition # "linux" /\ r \in sent /\ what \in sent
               /\ file[what] = opens[r] /\ file[r] \in Minute
    BY <2>2, <2>6 DEF FilesAreOfTheirMinute, ConsolesWereSent, NamedOnce
  <2>7. ASSUME what # NoRequest, Warn, what \in Url, what # shown[r]
        PROVE  IF shown[r] = NoRequest
                 THEN r \notin Url /\ what \in later[r] /\ file[what] = file[r]
                 ELSE what \in later[shown[r]]
    <3>1. CASE shown[r] = NoRequest
      <4>1. r \notin Url /\ opens[r] = file[r] /\ Finds(r, opens[r])
        BY <2>2, <2>6, <2>7, <3>1 DEF UnaskedIsPlain, ConsolesInOrder
      <4> QED BY <2>6, <2>7, <3>1, <4>1 DEF Finds, NotBefore
    <3>2. CASE shown[r] # NoRequest
      <4>1. NotBefore(shown[r], what)
        BY <2>2, <2>6, <2>7, <3>2 DEF ConsolesInOrder
      <4> QED BY <2>7, <3>2, <4>1 DEF NotBefore
    <3> QED BY <3>1, <3>2
  <2>8. opens[r] \in Minute
    OBVIOUS
  <2> HIDE DEF what, x
  <2>9. RanWasSent'
    BY <2>1, <2>2, <2>5, <2>6 DEF RanWasSent
  <2>10. NamedOnce'
    BY <2>1, <2>2, <2>5, <2>6, <2>8 DEF NamedOnce
  <2>11. UrlsAskedFirst'
    BY <2>1, <2>2, <2>5, <2>7 DEF UrlsAskedFirst
  <2> QED BY <2>3, <2>4, <2>9, <2>10, <2>11
<1>13. CASE Tick \/ UNCHANGED vars
  <2>1. Order' /\ ReqIsNew' /\ LinuxWritesNothing' /\ WrittenWhenOpened'
    BY <1>13 DEF Tick, vars, Order, ReqIsNew, LinuxWritesNothing, WrittenWhenOpened,
       ConsolesWereSent
  <2>2. NamedOnce' /\ ConsolesWereSent' /\ FilesAreOfTheirMinute'
    BY <1>13 DEF Tick, vars, NamedOnce, ConsolesWereSent, FilesAreOfTheirMinute,
       ReqIsNew, LinuxWritesNothing, WarningsInOrder, Minute
  <2>3. WarningsInOrder'
    BY <1>13 DEF Tick, vars, WarningsInOrder, NotBefore, Finds, ReqIsNew, Order,
       NamedOnce, ConsolesWereSent, WrittenWhenOpened, LinuxWritesNothing, Minute
  <2>4. ConsolesInOrder'
    BY <1>13 DEF Tick, vars, ConsolesInOrder, NotBefore, Finds, ReqIsNew, Order,
       NamedOnce, ConsolesWereSent, WrittenWhenOpened, WarningsInOrder, Minute
  <2>5. UnaskedIsPlain' /\ RanWasSent' /\ UrlsAskedFirst'
    BY <1>13 DEF Tick, vars, UnaskedIsPlain, RanWasSent, UrlsAskedFirst, ReqIsNew,
       NamedOnce, ConsolesWereSent, FilesAreOfTheirMinute, Order, Minute
  <2> QED BY <2>1, <2>2, <2>3, <2>4, <2>5
<1> QED BY <1>1, <1>2, <1>3, <1>4, <1>5, <1>6, <1>7, <1>8, <1>9, <1>10, <1>11, <1>12,
           <1>13 DEF Next, ServerStep

-----------------------------------------------------------------------------
\* The variables have their types, on every edition.
THEOREM TypeCorrect == Spec => []TypeOK
<1>1. RefusalInv => TypeOK
  BY DEF RefusalInv
<1> QED BY <1>1, InitEstablishes, RefusalPreserved, PTL DEF Spec

\* A refused command is never run, through whichever console.
THEOREM NoRefusedRun == Spec => []RefusedNeverRuns
<1>1. RefusalInv => RefusedNeverRuns
  BY DEF RefusalInv, NothingRefused
<1> QED BY <1>1, InitEstablishes, RefusalPreserved, PTL DEF Spec

\* What a console runs with a URL it has asked about, or it is what a later request
\* has put in the place of what was asked about, or of a request without a URL.
THEOREM AskedFirst == Spec => []UrlsAskedFirst
<1>1. AskingInv => UrlsAskedFirst
  BY DEF AskingInv
<1> QED BY <1>1, InitEstablishes, AskingPreserved, PTL DEF Spec

\* On Windows a console finds in its batch file what its request sent, or a later
\* request has come to that file.
THEOREM FindsItsCommand == Spec => RunsWhatWasSentOnWindows
<1>1. AskingInv /\ [Next]_vars
        => [\A r \in Request :
              edition # "linux" /\ console[r] = "command" /\ console'[r] = "done" =>
                \/ batch[opens[r]] = r
                \/ /\ batch[opens[r]] \in {NoRequest} \cup later[r]
                   /\ \E q \in later[r] : file[q] = opens[r]]_vars
  <2> SUFFICES ASSUME AskingInv, NEW r \in Request, edition # "linux",
                      console[r] = "command"
               PROVE  \/ batch[opens[r]] = r
                      \/ /\ batch[opens[r]] \in {NoRequest} \cup later[r]
                         /\ \E q \in later[r] : file[q] = opens[r]
    OBVIOUS
  <2>1. Finds(r, opens[r])
    BY DEF AskingInv, ConsolesInOrder
  <2> QED BY <2>1 DEF Finds, NotBefore
<1> QED BY <1>1, InitEstablishes, AskingPreserved, PTL DEF Spec, RunsWhatWasSentOnWindows
=============================================================================
