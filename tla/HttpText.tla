------------------------------ MODULE HttpText ------------------------------
(***************************************************************************)
(* What start() makes of the bytes one recv() has given it: the texts that *)
(* can arrive of a request, and HttpRequest::parseContent.                 *)
(*                                                                         *)
(* A text is a sequence of tokens: method, route and "HTTP" of the first   *)
(* line, then those of the headers and of the body.  "type" is the header  *)
(* Content-Type: application/json; a route is one between blanks, wherever *)
(* it comes; "{", "}" and "quote" are the characters, "x" anything else.   *)
(***************************************************************************)
EXTENDS Naturals, Sequences, SequencesExt

CONSTANTS
  Route,      \* the routes that are written with [\w./?=&] only
  NoPairRoute \* those of them with a "=" and no key=value pair

ASSUME RouteAssumption == "HTTP" \notin Route /\ NoPairRoute \subseteq Route

Text(r) == <<r.method, r.route, "HTTP">> \o r.headers \o r.body

\* recv() is called once, for one buffer: a request that is longer, or comes in
\* several segments, is seen in part.  A cut inside a token leaves no token,
\* but inside a route it leaves a shorter route.
Received(r) == {p \in Prefixes(Text(r)) : p # <<>>} \cup {<<r.method, "/">>}

\* Mutant: the route need not be followed by the protocol's name.
RoutesIn_unfinished(t) == {i \in 2..Len(t) : t[i] \in Route}

\* \s(/...)\sHTTP : not tied to the first line, the pattern may match in a
\* header or in the body as well.
RoutesIn(t) == {i \in 2..(Len(t) - 1) : t[i] \in Route /\ t[i + 1] = "HTTP"}

\* What regex_search finds is the first of them.
FirstRoute(t) == t[Min(RoutesIn(t))]

\* \{[\s\S]*\} : from the first opening to the last closing brace.
Braced(t) ==
  LET first == SelectInSeq(t, LAMBDA k : k = "{")
      last  == SelectLastInSeq(t, LAMBDA k : k = "}")
  IN  IF first = 0 \/ last < first THEN <<>> ELSE SubSeq(t, first, last)

\* A brace inside a string does not count.
Read(s, k) ==
  CASE k = "quote"            -> [s EXCEPT !.quoted = ~@]
    [] k = "{" /\ ~s.quoted   -> [s EXCEPT !.depth = @ + 1]
    [] k = "}" /\ s.depth > 0 /\ ~s.quoted -> [s EXCEPT !.depth = @ - 1]
    [] OTHER                  -> s

\* JsonHelper::parseJsonString accepts the text: it leaves nothing open.
IsObject(t) ==
  LET start == [depth |-> 0, quoted |-> FALSE]
  IN  t # <<>> /\ FoldLeft(Read, start, t) = start

\* One object: it is accepted as a whole, and no beginning of it is.
OneObject(t) == IsObject(t) /\ \A n \in 1..(Len(t) - 1) : ~IsObject(SubSeq(t, 1, n))

\* No brace in its headers, and one object between those of its body.
WellFormed(r) ==
  /\ ToSet(r.headers) \cap {"{", "}"} = {}
  /\ "{" \in ToSet(r.body) => OneObject(Braced(r.body))

\* Mutant: a body without braces goes to the JSON parser.
Outcome_bodyUnchecked(t) ==
  IF RoutesIn(t) = {} \/ FirstRoute(t) \in NoPairRoute THEN "400"
  ELSE IF t[1] = "GET" THEN "parsed"
  ELSE IF ~Contains(t, "type") THEN "422"
  ELSE IF IsObject(Braced(t)) THEN "parsed" ELSE "throws"

\* What parseContent comes to: a status it throws, which start() answers; an
\* exception of the JSON parser, which start() does not catch; or a request.
Outcome(t) ==
  IF RoutesIn(t) = {} \/ FirstRoute(t) \in NoPairRoute THEN "400"
  ELSE IF t[1] = "GET" THEN "parsed"
  ELSE IF ~Contains(t, "type") THEN "422"
  ELSE IF Braced(t) = <<>> THEN "400"
  ELSE IF IsObject(Braced(t)) THEN "parsed" ELSE "throws"

Parsed(t) ==
  [method |-> t[1], route |-> FirstRoute(t),
   body |-> IF t[1] = "GET" THEN <<>> ELSE Braced(t)]
=============================================================================
