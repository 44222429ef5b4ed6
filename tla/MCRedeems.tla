----------------------------- MODULE MCRedeems -----------------------------
(* Requests, screens and date settings for TLC: one request for each entry  *)
(* of the table, and some that match none or are not well formed.           *)
EXTENDS Redeems

Get(p) == [method |-> "GET", route |-> p, headers |-> <<>>, body |-> <<>>]
Post(p, b) == [method |-> "POST", route |-> p, headers |-> <<"type">>, body |-> b]

Flat == <<"{", "quote", "x", "quote", "}">>
Nested == <<"{", "x", "{", "}", "x", "}">>
InString == <<"{", "quote", "}", "x", "quote", "}">>
NotClosed == <<"{", "quote", "x", "}">>
WithRoute == <<"{", "quote", "/tts", "HTTP", "quote", "}">>

MCRequests ==
  {IF MethodOf(p) = "GET" THEN Get(p) ELSE Post(p, Flat) : p \in Path} \cup
  {Post("/box", Nested), Post("/terminal", InString), Post("/macro", Flat),
   Post("/box", <<"x">>), [Post("/tts", Flat) EXCEPT !.headers = <<>>],
   Get("/nosuch"), Get("/no-such"), Get("/macro?x=1"), Get("/macro?="),
   Post("/box", NotClosed), Post("/tts", WithRoute), Post("/no-such", WithRoute),
   [Get("/no-such") EXCEPT !.headers = <<"x", "/macro", "HTTP">>],
   [Post("/box", Flat) EXCEPT !.headers = <<"{", "}", "type">>]}
MCMalwareRequests == {Get("/runMalware")}
MCRoute == Path \cup {"/nosuch", "/macro?x=1", "/macro?="}
MCNoPairRoute == {"/macro?="}

Mode(w, h, d) == [w |-> w, h |-> h, depth |-> d]
MCMachines ==
  {<< <<Mode(1024, 768, 32), Mode(1280, 1024, 32), Mode(640, 480, 16)>>,
      <<Mode(1920, 1080, 32), Mode(1280, 720, 32), Mode(1280, 1024, 32)>> >>,
   << <<Mode(1280, 720, 32), Mode(1024, 768, 32), Mode(1600, 1200, 16)>> >>}

Entry(m, full, date) == [of |-> m, full |-> full, date |-> date]
MCDateFiles ==
  {<<>>, <<Entry("m1", TRUE, "d1"), Entry("m2", FALSE, "d2")>>,
   <<Entry("m2", FALSE, "d2"), Entry("m2", FALSE, "broken")>>,
   <<Entry("m1", TRUE, "short")>>}
MCOffSets == {{}, {"Tts", "MacroResolution"}, Setting}
=============================================================================
