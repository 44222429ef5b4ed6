--------------------------- MODULE SerialService ---------------------------
(***************************************************************************)
(* What Interact Box promises the programs that call it: one connection is *)
(* served at a time, in the order in which the connections arrived, each   *)
(* is answered at most once and only while it is being served, and nothing *)
(* is taken up once the service has closed.                                *)
(* WebServer implements this module (WebServer!ImplementsService).         *)
(***************************************************************************)
EXTENDS Naturals, Sequences

CONSTANTS Client,    \* the connections that may be made
          NoClient   \* "nobody is being served"

VARIABLES phase,     \* "down" before listening, "open", then "shut" for good
          waiting,   \* connections in arrival order, not yet taken up
          arrived,   \* every connection made so far
          serving,   \* the connection being served, or NoClient
          answers    \* per connection, the responses it has got

svars == <<phase, waiting, arrived, serving, answers>>

ServiceTypeOK ==
  /\ phase \in {"down", "open", "shut"}
  /\ waiting \in Seq(Client)
  /\ arrived \subseteq Client
  /\ serving \in Client \cup {NoClient}
  /\ answers \in [Client -> 0..1]

ServiceInit ==
  /\ phase = "down"
  /\ waiting = <<>>
  /\ arrived = {}
  /\ serving = NoClient
  /\ answers = [c \in Client |-> 0]

Open ==
  /\ phase = "down"
  /\ phase' = "open"
  /\ UNCHANGED <<waiting, arrived, serving, answers>>

Arrive(c) ==
  /\ phase = "open"
  /\ c \notin arrived
  /\ arrived' = arrived \cup {c}
  /\ waiting' = Append(waiting, c)
  /\ UNCHANGED <<phase, serving, answers>>

Serve ==
  /\ phase = "open"
  /\ serving = NoClient
  /\ waiting # <<>>
  /\ serving' = Head(waiting)
  /\ waiting' = Tail(waiting)
  /\ UNCHANGED <<phase, arrived, answers>>

Answer ==
  /\ serving # NoClient
  /\ answers[serving] = 0
  /\ answers' = [answers EXCEPT ![serving] = 1]
  /\ UNCHANGED <<phase, waiting, arrived, serving>>

Release ==
  /\ serving # NoClient
  /\ serving' = NoClient
  /\ UNCHANGED <<phase, waiting, arrived, answers>>

\* Whoever still waits when the service closes is turned away.
Shut ==
  /\ phase # "shut"
  /\ phase' = "shut"
  /\ waiting' = <<>>
  /\ UNCHANGED <<arrived, serving, answers>>

ServiceNext ==
  \/ Open
  \/ \E c \in Client : Arrive(c)
  \/ Serve
  \/ Answer
  \/ Release
  \/ Shut

ServiceSpec == ServiceInit /\ [][ServiceNext]_svars
=============================================================================
