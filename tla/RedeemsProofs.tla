--------------------------- MODULE RedeemsProofs ---------------------------
(***************************************************************************)
(* What the redeems of Interact Box do and never do, for any requests, any *)
(* screens and settings and any number of requests: what handlers see of   *)
(* what was sent, which bodies can make the JSON parser throw, that what   *)
(* is switched off stays untouched, and that /macro and /micro end at the  *)
(* extreme width.                                                          *)
(*                                                                         *)
(* The loops (over the braces of a text, and over the modes of a screen)   *)
(* are folds: what they come to is shown with SetInduction, which follows  *)
(* from the least number of a set.  StepsInv, on the entry of the table    *)
(* being served, carries the rest.                                         *)
(***************************************************************************)
EXTENDS Redeems, SequenceTheorems, WellFoundedInduction, TLAPS

-----------------------------------------------------------------------------
(* Numbers                                                                 *)

\* A set of numbers that is not empty has a least one.
LEMMA LeastNumber ==
  ASSUME NEW T \in SUBSET Nat, T # {}
  PROVE  \E n \in T : \A m \in T : n <= m
<1>1. IsWellFoundedOn(OpToRel(<, Nat), Nat)
  BY NatLessThanWellFounded
<1>2. PICK n \in T : \A m \in T : ~ (<<m, n>> \in OpToRel(<, Nat))
  BY <1>1, WFMin
<1>3. \A m \in T : m \in Nat /\ n \in Nat
  OBVIOUS
<1>4. \A m \in T : <<m, n>> \in OpToRel(<, Nat) <=> m < n
  BY <1>3 DEF OpToRel
<1>5. \A m \in T : ~ (m < n)
  BY <1>2, <1>4
<1>6. \A m \in T : n <= m
  BY <1>3, <1>5
<1> QED BY <1>6

\* Induction, stated of a set.
LEMMA SetInduction ==
  ASSUME NEW T \in SUBSET Nat, 0 \in T, \A n \in T : n + 1 \in T
  PROVE  T = Nat
<1> DEFINE U == Nat \ T
<1>1. SUFFICES ASSUME U # {} PROVE FALSE
  OBVIOUS
<1>2. PICK n \in U : \A m \in U : n <= m
  <2> HIDE DEF U
  <2>1. U \in SUBSET Nat
    BY DEF U
  <2> QED BY <1>1, <2>1, LeastNumber
<1>3. n # 0 /\ n \in Nat
  OBVIOUS
<1>4. n - 1 \in Nat /\ n - 1 \notin U
  BY <1>2, <1>3
<1>5. n - 1 \in T
  BY <1>4
<1>6. (n - 1) + 1 \in T
  BY <1>5
<1> QED BY <1>3, <1>6

\* FiniteSetsExt's Min, of numbers.
LEMMA MinOf ==
  ASSUME NEW S \in SUBSET Nat, S # {}
  PROVE  Min(S) \in S /\ \A x \in S : Min(S) <= x
BY LeastNumber DEF Min

\* FiniteSetsExt's Max, of numbers below a bound.
LEMMA MaxOf ==
  ASSUME NEW n \in Nat, NEW S \in SUBSET (0..n), S # {}
  PROVE  Max(S) \in S /\ \A x \in S : x <= Max(S)
<1> DEFINE U == {n - x : x \in S}
<1>1. U \in SUBSET Nat /\ U # {}
  <2>1. \A x \in S : n - x \in Nat
    OBVIOUS
  <2>2. \E x : x \in S
    OBVIOUS
  <2> QED BY <2>1, <2>2
<1>2. PICK u \in U : \A v \in U : u <= v
  <2> HIDE DEF U
  <2> QED BY <1>1, LeastNumber
<1>3. PICK x \in S : u = n - x
  OBVIOUS
<1>4. \A y \in S : x >= y
  <2> TAKE y \in S
  <2>1. n - y \in U /\ x \in 0..n /\ y \in 0..n
    OBVIOUS
  <2> QED BY <1>2, <1>3, <2>1
<1>5. \E z \in S : \A y \in S : z >= y
  BY <1>4
<1>6. Max(S) \in S /\ \A y \in S : Max(S) >= y
  BY <1>5 DEF Max
<1> QED BY <1>6

-----------------------------------------------------------------------------
(* Braces: what Braced finds in a text                                     *)

\* Where the expression of Braced starts and ends, 0 for nowhere.
Opening(t) == SelectInSeq(t, LAMBDA k : k = "{")
Closing(t) == SelectLastInSeq(t, LAMBDA k : k = "}")

\* The first opening brace of a text.
LEMMA FirstBrace ==
  ASSUME NEW S, NEW t \in Seq(S), NEW o, o = Opening(t)
  PROVE  \/ o = 0 /\ \A i \in 1..Len(t) : t[i] # "{"
         \/ /\ o \in 1..Len(t) /\ t[o] = "{"
            /\ \A i \in 1..Len(t) : t[i] = "{" => o <= i
<1> DEFINE I == {i \in 1..Len(t) : t[i] = "{"}
<1>1. o = IF I # {} THEN Min(I) ELSE 0
  BY DEF Opening, SelectInSeq
<1>2. \A i \in I : i \in 1..Len(t)
  OBVIOUS
<1>s. \A i \in I : t[i] = "{"
  OBVIOUS
<1>3. \A i \in 1..Len(t) : t[i] = "{" => i \in I
  OBVIOUS
<1> HIDE DEF I
<1>4. I # {} => Min(I) \in I /\ \A x \in I : Min(I) <= x
  <2>1. I \in SUBSET Nat
    BY <1>2
  <2> QED BY <2>1, MinOf
<1> QED BY <1>1, <1>2, <1>s, <1>3, <1>4

\* The last closing brace of a text.
LEMMA LastBrace ==
  ASSUME NEW S, NEW t \in Seq(S), NEW c, c = Closing(t)
  PROVE  \/ c = 0 /\ \A i \in 1..Len(t) : t[i] # "}"
         \/ /\ c \in 1..Len(t) /\ t[c] = "}"
            /\ \A i \in 1..Len(t) : t[i] = "}" => i <= c
<1> DEFINE I == {i \in 1..Len(t) : t[i] = "}"}
<1>1. c = IF I # {} THEN Max(I) ELSE 0
  BY DEF Closing, SelectLastInSeq
<1>2. \A i \in I : i \in 1..Len(t)
  OBVIOUS
<1>s. \A i \in I : t[i] = "}"
  OBVIOUS
<1>3. \A i \in 1..Len(t) : t[i] = "}" => i \in I
  OBVIOUS
<1> HIDE DEF I
<1>4. I # {} => Max(I) \in I /\ \A x \in I : x <= Max(I)
  <2>1. I \in SUBSET (0..Len(t)) /\ Len(t) \in Nat
    BY <1>2
  <2> QED BY <2>1, MaxOf
<1> QED BY <1>1, <1>2, <1>s, <1>3, <1>4

\* Braced is nothing, or runs from the first opening to the last closing brace.
LEMMA BracedIs ==
  ASSUME NEW S, NEW t \in Seq(S)
  PROVE  \/ /\ Braced(t) = <<>>
            /\ \A i, j \in 1..Len(t) : t[i] = "{" /\ t[j] = "}" => j < i
         \/ \E i, j \in 1..Len(t) :
              /\ i <= j /\ t[i] = "{" /\ t[j] = "}"
              /\ \A k \in 1..Len(t) : (t[k] = "{" => i <= k) /\ (t[k] = "}" => k <= j)
              /\ Braced(t) = SubSeq(t, i, j)
<1>o. PICK o : o = Opening(t)
  OBVIOUS
<1>c. PICK c : c = Closing(t)
  OBVIOUS
<1>1. Braced(t) = IF o = 0 \/ c < o THEN <<>> ELSE SubSeq(t, o, c)
  BY <1>o, <1>c DEF Braced, Opening, Closing
<1>2. \/ o = 0 /\ \A i \in 1..Len(t) : t[i] # "{"
      \/ /\ o \in 1..Len(t) /\ t[o] = "{"
         /\ \A i \in 1..Len(t) : t[i] = "{" => o <= i
  BY <1>o, FirstBrace
<1>3. \/ c = 0 /\ \A i \in 1..Len(t) : t[i] # "}"
      \/ /\ c \in 1..Len(t) /\ t[c] = "}"
         /\ \A i \in 1..Len(t) : t[i] = "}" => i <= c
  BY <1>c, LastBrace
<1>4. CASE o \in 1..Len(t) /\ c \in 1..Len(t) /\ o <= c
  <2>0. o # 0 /\ c # 0
    BY <1>4
  <2>1. t[o] = "{" /\ t[c] = "}"
    BY <1>2, <1>3, <2>0
  <2>2. \A k \in 1..Len(t) : (t[k] = "{" => o <= k) /\ (t[k] = "}" => k <= c)
    <3>1. \A k \in 1..Len(t) : t[k] = "{" => o <= k
      BY <1>2, <1>4
    <3>2. \A k \in 1..Len(t) : t[k] = "}" => k <= c
      BY <1>3, <1>4
    <3> QED BY <3>1, <3>2
  <2>3. Braced(t) = SubSeq(t, o, c)
    BY <1>1, <1>4
  <2> QED BY <1>4, <2>1, <2>2, <2>3
<1>5. CASE ~ (o \in 1..Len(t) /\ c \in 1..Len(t) /\ o <= c)
  <2>1. Braced(t) = <<>>
    <3>1. o = 0 \/ o \in 1..Len(t)
      BY <1>2
    <3>2. c = 0 \/ c \in 1..Len(t)
      BY <1>3
    <3> QED BY <1>1, <1>5, <3>1, <3>2
  <2>2. ASSUME NEW i \in 1..Len(t), NEW j \in 1..Len(t), t[i] = "{", t[j] = "}"
        PROVE  j < i
    <3>1. o \in 1..Len(t) /\ o <= i
      BY <1>2, <2>2
    <3>2. c \in 1..Len(t) /\ j <= c
      BY <1>3, <2>2
    <3> QED BY <1>5, <3>1, <3>2
  <2> QED BY <2>1, <2>2
<1> QED BY <1>4, <1>5

\* The first line of a request, as a sequence.
LEMMA Triple ==
  ASSUME NEW S, NEW x \in S, NEW y \in S, NEW z \in S
  PROVE  <<x, y, z>> \in Seq(S) /\ Len(<<x, y, z>>) = 3
OBVIOUS

\* A sequence of one.
LEMMA Single == ASSUME NEW S, NEW x \in S PROVE <<x>> \in Seq(S) /\ Len(<<x>>) = 1
OBVIOUS

\* Lengths and places of two sequences put together.
LEMMA Concat ==
  ASSUME NEW S, NEW s \in Seq(S), NEW t \in Seq(S)
  PROVE  /\ s \o t \in Seq(S) /\ Len(s) \in Nat /\ Len(t) \in Nat
         /\ Len(s \o t) = Len(s) + Len(t)
         /\ \A i \in 1..Len(s) : (s \o t)[i] = s[i]
         /\ \A i \in 1..Len(t) : (s \o t)[Len(s) + i] = t[i]
OBVIOUS

\* Length and places of a part of a sequence.
LEMMA Part ==
  ASSUME NEW S, NEW s \in Seq(S), NEW i \in 1..Len(s), NEW j \in 1..Len(s), i <= j
  PROVE  /\ SubSeq(s, i, j) \in Seq(S) /\ Len(SubSeq(s, i, j)) = j - i + 1
         /\ \A k \in 1..(j - i + 1) : SubSeq(s, i, j)[k] = s[i + k - 1]
OBVIOUS

\* Two texts without a token of B, one after the other.
LEMMA ConcatWithout ==
  ASSUME NEW S, NEW s \in Seq(S), NEW t \in Seq(S), NEW B,
         \A i \in 1..Len(s) : s[i] \notin B, \A i \in 1..Len(t) : t[i] \notin B
  PROVE  \A i \in 1..Len(s \o t) : (s \o t)[i] \notin B
<1> SUFFICES ASSUME NEW i \in 1..Len(s \o t) PROVE (s \o t)[i] \notin B
  OBVIOUS
<1>1. CASE i \in 1..Len(s)
  BY <1>1, Concat
<1>2. CASE i \notin 1..Len(s)
  <2>1. i - Len(s) \in 1..Len(t) /\ i = Len(s) + (i - Len(s))
    BY <1>2, Concat
  <2> QED BY <2>1, Concat
<1> QED BY <1>1, <1>2

-----------------------------------------------------------------------------
(* What recv() gives of a request                                          *)

\* What can be in the text of a request.
Token == STRING \cup {"HTTP"}
Brace == {"{", "}"}

\* The places of what a request is made of.
LEMMA TextParts ==
  ASSUME NEW r \in Requests
  PROVE  /\ Text(r) \in Seq(Token) /\ r.headers \in Seq(Token) /\ r.body \in Seq(Token)
         /\ Len(r.headers) \in Nat /\ Len(r.body) \in Nat
         /\ Len(Text(r)) = (3 + Len(r.headers)) + Len(r.body)
         /\ Text(r)[1] = r.method /\ Text(r)[2] = r.route /\ Text(r)[3] = "HTTP"
         /\ \A i \in 1..Len(r.headers) : Text(r)[3 + i] = r.headers[i]
         /\ \A i \in 1..Len(r.body) : Text(r)[(3 + Len(r.headers)) + i] = r.body[i]
<1> DEFINE a == <<r.method, r.route, "HTTP">>
           b == r.headers
           c == a \o b
           d == r.body
<1>1. r.method \in Token /\ r.route \in Token /\ "HTTP" \in Token
  BY RequestAssumption DEF Token
<1>2. b \in Seq(Token) /\ d \in Seq(Token)
  <2>1. STRING \subseteq Token
    BY DEF Token
  <2>2. r.headers \in Seq(STRING) /\ r.body \in Seq(STRING)
    BY RequestAssumption
  <2> QED BY <2>1, <2>2, SeqMonotonic
<1>3. a \in Seq(Token) /\ Len(a) = 3
  BY <1>1, Triple
<1>4. a[1] = r.method /\ a[2] = r.route /\ a[3] = "HTTP"
  OBVIOUS
<1>5. Text(r) = c \o d
  BY DEF Text
<1>n. Len(b) \in Nat /\ Len(d) \in Nat
  BY <1>2
<1> HIDE DEF a, b, d
<1>6. /\ c \in Seq(Token) /\ Len(c) = 3 + Len(b)
      /\ \A i \in 1..3 : c[i] = a[i]
      /\ \A i \in 1..Len(b) : c[3 + i] = b[i]
  <2>0. a \in Seq(Token) /\ b \in Seq(Token)
    BY <1>2, <1>3
  <2>1. /\ a \o b \in Seq(Token) /\ Len(a \o b) = Len(a) + Len(b)
        /\ \A i \in 1..Len(a) : (a \o b)[i] = a[i]
        /\ \A i \in 1..Len(b) : (a \o b)[Len(a) + i] = b[i]
    BY <2>0, Concat
  <2> QED BY <1>3, <2>1
<1> HIDE DEF c
<1>7. /\ c \o d \in Seq(Token) /\ Len(c \o d) = Len(c) + Len(d)
      /\ \A i \in 1..Len(c) : (c \o d)[i] = c[i]
      /\ \A i \in 1..Len(d) : (c \o d)[Len(c) + i] = d[i]
  <2>1. c \in Seq(Token) /\ d \in Seq(Token)
    BY <1>2, <1>6
  <2> QED BY <2>1, Concat
<1>8. /\ 1 \in 1..3 /\ 2 \in 1..3 /\ 3 \in 1..3
      /\ 1 \in 1..(3 + Len(b)) /\ 2 \in 1..(3 + Len(b)) /\ 3 \in 1..(3 + Len(b))
      /\ \A i \in 1..Len(b) : 3 + i \in 1..(3 + Len(b))
  BY <1>n
<1>9. Text(r)[1] = r.method /\ Text(r)[2] = r.route /\ Text(r)[3] = "HTTP"
  BY <1>4, <1>5, <1>6, <1>7, <1>8
<1>10. \A i \in 1..Len(b) : Text(r)[3 + i] = b[i]
  BY <1>5, <1>6, <1>7, <1>8
<1>11. \A i \in 1..Len(d) : Text(r)[(3 + Len(b)) + i] = d[i]
  BY <1>5, <1>6, <1>7
<1>12. Text(r) \in Seq(Token) /\ Len(Text(r)) = (3 + Len(b)) + Len(d)
  BY <1>5, <1>6, <1>7
<1> QED BY <1>2, <1>n, <1>9, <1>10, <1>11, <1>12 DEF b, d

\* Text puts the body of a well-formed request after tokens without braces.
LEMMA BodyInText ==
  ASSUME NEW r \in Requests, WellFormed(r)
  PROVE  /\ Text(r) \in Seq(Token) /\ r.body \in Seq(Token) /\ Len(r.body) \in Nat
         /\ \E o \in Nat :
              /\ Len(Text(r)) = o + Len(r.body)
              /\ \A i \in 1..o : Text(r)[i] \notin Brace
              /\ \A i \in 1..Len(r.body) : Text(r)[o + i] = r.body[i]
<1> DEFINE t == Text(r)
           b == r.headers
<1>1. /\ r.method \notin Brace /\ r.route \notin Brace /\ "HTTP" \notin Brace
  BY RequestAssumption DEF Brace
<1>2. /\ b \in Seq(Token) /\ Len(b) \in Nat
      /\ t[1] = r.method /\ t[2] = r.route /\ t[3] = "HTTP"
      /\ \A i \in 1..Len(b) : t[3 + i] = b[i]
  BY TextParts
<1>3. \A i \in 1..Len(b) : b[i] \notin Brace
  <2>1. ToSet(b) \cap Brace = {}
    BY DEF WellFormed, Brace
  <2> HIDE DEF b
  <2>2. \A i \in 1..Len(b) : b[i] \in ToSet(b)
    BY <1>2 DEF ToSet
  <2> QED BY <2>1, <2>2
<1> HIDE DEF t, b
<1>4. ASSUME NEW i \in 1..(3 + Len(b)) PROVE t[i] \notin Brace
  <2>1. CASE i = 1 \/ i = 2 \/ i = 3
    BY <1>1, <1>2, <2>1
  <2>2. CASE ~(i = 1 \/ i = 2 \/ i = 3)
    <3>1. i - 3 \in 1..Len(b) /\ 3 + (i - 3) = i
      BY <1>2, <2>2
    <3> QED BY <1>2, <1>3, <3>1
  <2> QED BY <2>1, <2>2
<1>5. 3 + Len(b) \in Nat
  BY <1>2
<1> QED BY <1>4, <1>5, TextParts DEF t, b

\* A token is at one place of the text, and one place of the body.
LEMMA BracedBody ==
  ASSUME NEW r \in Requests, WellFormed(r)
  PROVE  Braced(Text(r)) = Braced(r.body)
<1> DEFINE t == Text(r)
           b == r.body
<1>1. t \in Seq(Token) /\ b \in Seq(Token) /\ Len(b) \in Nat
  BY BodyInText
<1>2. PICK o \in Nat : /\ Len(t) = o + Len(b)
                       /\ \A i \in 1..o : t[i] \notin Brace
                       /\ \A i \in 1..Len(b) : t[o + i] = b[i]
  BY BodyInText
<1> HIDE DEF t, b
<1>n. o \in Nat /\ Len(b) \in Nat /\ Len(t) = o + Len(b)
  BY <1>1, <1>2
<1>3. \A i \in 1..Len(t) : t[i] \in Brace => i - o \in 1..Len(b) /\ b[i - o] = t[i]
  <2> TAKE i \in 1..Len(t)
  <2>1. CASE i \in 1..o
    BY <1>2, <2>1
  <2>2. CASE i \notin 1..o
    <3>1. i - o \in 1..Len(b) /\ o + (i - o) = i
      BY <1>1, <1>2, <2>2
    <3> QED BY <1>2, <3>1
  <2> QED BY <2>1, <2>2
<1>4. \A i \in 1..Len(b) : o + i \in 1..Len(t) /\ t[o + i] = b[i]
  <2>1. \A i \in 1..Len(b) : o + i \in 1..Len(t)
    BY <1>1, <1>2
  <2> QED BY <1>2, <2>1
<1>5. "{" \in Brace /\ "}" \in Brace
  BY DEF Brace
<1>6. CASE /\ Braced(t) = <<>>
           /\ \A i, j \in 1..Len(t) : t[i] = "{" /\ t[j] = "}" => j < i
  <2>1. ASSUME NEW i \in 1..Len(b), NEW j \in 1..Len(b), b[i] = "{", b[j] = "}"
        PROVE  j < i
    <3>1. o + j < o + i
      BY <1>4, <1>6, <2>1
    <3> QED BY <1>n, <3>1
  <2>2. ~ \E i, j \in 1..Len(b) : i <= j /\ b[i] = "{" /\ b[j] = "}"
    <3>1. \A i, j \in 1..Len(b) : j < i => ~(i <= j)
      BY <1>n
    <3> QED BY <2>1, <3>1
  <2>3. Braced(b) = <<>>
    BY <1>1, <2>2, BracedIs
  <2> QED BY <1>6, <2>3 DEF t, b
<1>7. ASSUME NEW i \in 1..Len(t), NEW j \in 1..Len(t),
             i <= j, t[i] = "{", t[j] = "}",
             \A k \in 1..Len(t) : (t[k] = "{" => i <= k) /\ (t[k] = "}" => k <= j),
             Braced(t) = SubSeq(t, i, j)
      PROVE  Braced(t) = Braced(b)
  <2>1. /\ i - o \in 1..Len(b) /\ b[i - o] = "{"
        /\ j - o \in 1..Len(b) /\ b[j - o] = "}"
    BY <1>3, <1>5, <1>7
  <2>2. i - o <= j - o
    <3>1. i <= j
      BY <1>7
    <3> QED BY <1>n, <3>1
  <2>n. i - o \in 1..Len(b) /\ j - o \in 1..Len(b)
    BY <2>1
  <2>3. PICK x, y \in 1..Len(b) :
          /\ x <= y /\ b[x] = "{" /\ b[y] = "}"
          /\ \A k \in 1..Len(b) : (b[k] = "{" => x <= k) /\ (b[k] = "}" => k <= y)
          /\ Braced(b) = SubSeq(b, x, y)
    <3>1. ~(j - o < i - o)
      BY <1>1, <1>2, <2>2
    <3> QED BY <1>1, <2>1, <3>1, BracedIs
  <2>4. x <= i - o /\ j - o <= y
    BY <2>1, <2>3
  <2>5. i <= o + x /\ o + y <= j
    BY <1>4, <1>7, <2>3
  <2>6. x = i - o /\ y = j - o
    BY <1>1, <1>2, <2>4, <2>5
  <2>7. Braced(b) = SubSeq(b, i - o, j - o)
    BY <2>3, <2>6
  <2>8. SubSeq(t, i, j) = SubSeq(b, i - o, j - o)
    <3>1. /\ SubSeq(t, i, j) \in Seq(Token) /\ Len(SubSeq(t, i, j)) = j - i + 1
          /\ \A k \in 1..(j - i + 1) : SubSeq(t, i, j)[k] = t[i + k - 1]
      BY <1>1, <1>7, Part
    <3>2. /\ SubSeq(b, i - o, j - o) \in Seq(Token)
          /\ Len(SubSeq(b, i - o, j - o)) = (j - o) - (i - o) + 1
          /\ \A k \in 1..((j - o) - (i - o) + 1) :
               SubSeq(b, i - o, j - o)[k] = b[(i - o) + k - 1]
      BY <1>1, <2>1, <2>2, Part
    <3>n. (j - o) - (i - o) + 1 = j - i + 1
      BY <1>n
    <3>3. \A k \in 1..(j - i + 1) : t[i + k - 1] = b[(i - o) + k - 1]
      <4> TAKE k \in 1..(j - i + 1)
      <4>1. (i - o) + k - 1 \in 1..Len(b) /\ o + ((i - o) + k - 1) = i + k - 1
        BY <1>n, <2>n
      <4> QED BY <1>4, <4>1
    <3> DEFINE u == SubSeq(t, i, j)
               v == SubSeq(b, i - o, j - o)
    <3>4. u \in Seq(Token) /\ v \in Seq(Token) /\ Len(u) = Len(v)
      BY <3>1, <3>2, <3>n
    <3>5. \A k \in 1..Len(u) : u[k] = v[k]
      BY <3>1, <3>2, <3>n, <3>3
    <3> HIDE DEF u, v
    <3>6. u = v
      BY <3>4, <3>5, SeqEqual
    <3> QED BY <3>6 DEF u, v
  <2> QED BY <1>7, <2>7, <2>8
<1>8. Braced(t) = Braced(b)
  BY <1>1, <1>6, <1>7, BracedIs DEF t, b
<1> QED BY <1>8 DEF t, b

\* The braces of a beginning of a text open where those of the text do.
LEMMA BracedBeginning ==
  ASSUME NEW S, NEW t \in Seq(S), NEW n \in 0..Len(t), Braced(SubSeq(t, 1, n)) # <<>>
  PROVE  \E i, j, l \in 1..Len(t) :
           /\ i <= j /\ j <= l
           /\ t[j] = "}"
           /\ Braced(SubSeq(t, 1, n)) = SubSeq(t, i, j)
           /\ Braced(t) = SubSeq(t, i, l)
<1> DEFINE p == SubSeq(t, 1, n)
<1>0. Len(t) \in Nat /\ n \in Nat /\ n <= Len(t)
  OBVIOUS
<1>1. p \in Seq(S) /\ Len(p) = n /\ \A k \in 1..n : p[k] = t[k]
  OBVIOUS
<1>2. Braced(p) # <<>>
  OBVIOUS
<1> HIDE DEF p
<1>3. PICK i, j \in 1..Len(p) :
        /\ i <= j /\ p[i] = "{" /\ p[j] = "}"
        /\ \A k \in 1..Len(p) : (p[k] = "{" => i <= k) /\ (p[k] = "}" => k <= j)
        /\ Braced(p) = SubSeq(p, i, j)
  BY <1>1, <1>2, BracedIs
<1>4. i \in 1..n /\ j \in 1..n /\ i <= j
  BY <1>1, <1>3
<1>5. i \in 1..Len(t) /\ j \in 1..Len(t) /\ 1 \in 1..Len(t) /\ n \in 1..Len(t)
  BY <1>0, <1>4
<1>6. t[i] = "{" /\ t[j] = "}"
  BY <1>1, <1>3, <1>4
<1>7. PICK x, l \in 1..Len(t) :
        /\ x <= l /\ t[x] = "{" /\ t[l] = "}"
        /\ \A k \in 1..Len(t) : (t[k] = "{" => x <= k) /\ (t[k] = "}" => k <= l)
        /\ Braced(t) = SubSeq(t, x, l)
  <2>1. ~(j < i)
    BY <1>0, <1>4
  <2> QED BY <1>5, <1>6, <2>1, BracedIs
<1>8. x <= i /\ j <= l
  BY <1>5, <1>6, <1>7
<1>9. x \in 1..n
  BY <1>0, <1>4, <1>8
<1>10. p[x] = "{" /\ x \in 1..Len(p)
  BY <1>1, <1>7, <1>9
<1>11. i <= x
  BY <1>3, <1>10
<1>12. x = i
  BY <1>0, <1>4, <1>8, <1>9, <1>11
<1>13. SubSeq(p, i, j) = SubSeq(t, i, j)
  <2>1. p = SubSeq(t, 1, n)
    BY DEF p
  <2>2. i \in 1..(n - 1 + 1) /\ j \in 1..(n - 1 + 1)
    BY <1>0, <1>4
  <2>3. SubSeq(SubSeq(t, 1, n), i, j) = SubSeq(t, 1 + i - 1, 1 + j - 1)
    BY <1>5, <2>2, SubSeqOfSubSeq
  <2>4. 1 + i - 1 = i /\ 1 + j - 1 = j
    BY <1>0, <1>4
  <2> QED BY <2>1, <2>3, <2>4
<1>14. Braced(p) = SubSeq(t, i, j)
  BY <1>3, <1>13
<1>15. Braced(t) = SubSeq(t, i, l)
  BY <1>7, <1>12
<1> QED BY <1>4, <1>5, <1>6, <1>7, <1>8, <1>14, <1>15 DEF p

\* Of a text that is one object between its braces, no beginning has another.
LEMMA ObjectAtItsEnd ==
  ASSUME NEW r \in Requests, WellFormed(r), NEW n \in 0..Len(Text(r)),
         Braced(SubSeq(Text(r), 1, n)) # <<>>
  PROVE  \/ /\ IsObject(Braced(SubSeq(Text(r), 1, n)))
            /\ Braced(SubSeq(Text(r), 1, n)) = Braced(Text(r))
         \/ /\ ~IsObject(Braced(SubSeq(Text(r), 1, n)))
            /\ \E k \in 1..(Len(r.body) - 1) : r.body[k] = "}"
<1> DEFINE t == Text(r)
           b == r.body
           p == SubSeq(t, 1, n)
<1>1. t \in Seq(Token) /\ b \in Seq(Token) /\ Len(b) \in Nat
  BY BodyInText
<1>2. PICK i, j, l \in 1..Len(t) :
        /\ i <= j /\ j <= l
        /\ t[j] = "}"
        /\ Braced(p) = SubSeq(t, i, j)
        /\ Braced(t) = SubSeq(t, i, l)
  <2> HIDE DEF t
  <2> QED BY <1>1, BracedBeginning DEF t
<1>n. i <= j /\ j <= l
  BY <1>2
<1>il. i <= l
  BY <1>n
<1>3. OneObject(Braced(b))
  <2>1. Braced(b) = SubSeq(t, i, l)
    BY <1>2, BracedBody
  <2>2. Len(SubSeq(t, i, l)) = l - i + 1
    <3> HIDE DEF t
    <3> QED BY <1>1, <1>il, Part
  <2>3. Braced(b) # <<>>
    <3>1. l - i + 1 # 0
      BY <1>il
    <3>2. Len(<<>>) = 0
      OBVIOUS
    <3> QED BY <2>1, <2>2, <3>1, <3>2
  <2>4. \E x \in 1..Len(b) : b[x] = "{"
    <3> HIDE DEF b
    <3> QED BY <1>1, <2>3, BracedIs
  <2>5. "{" \in ToSet(b)
    <3> HIDE DEF b
    <3>1. DOMAIN b = 1..Len(b)
      BY <1>1
    <3> QED BY <2>4, <3>1 DEF ToSet
  <2> QED BY <2>5 DEF WellFormed
<1>4. OneObject(SubSeq(t, i, l))
  BY <1>2, <1>3, BracedBody
<1>5. CASE j = l
  BY <1>2, <1>4, <1>5 DEF OneObject
<1>6. CASE j # l
  <2>1. i \in Nat /\ j \in Nat /\ l \in Nat /\ 1 <= i /\ i <= j /\ j < l
    <3>1. i <= j /\ j <= l
      BY <1>2
    <3> QED BY <1>6, <3>1
  <2>2. SubSeq(SubSeq(t, i, l), 1, j - i + 1) = SubSeq(t, i, j)
    <3>1. 1 \in 1..(l - i + 1) /\ (j - i + 1) \in 1..(l - i + 1)
      BY <2>1
    <3>2. i + 1 - 1 = i /\ i + (j - i + 1) - 1 = j
      BY <2>1
    <3> HIDE DEF t
    <3>3. SubSeq(SubSeq(t, i, l), 1, j - i + 1) = SubSeq(t, i + 1 - 1, i + (j - i + 1) - 1)
      BY <1>1, <3>1, SubSeqOfSubSeq
    <3> QED BY <3>2, <3>3
  <2>3. Len(SubSeq(t, i, l)) = l - i + 1
    <3>1. i <= l
      BY <2>1
    <3> HIDE DEF t
    <3> QED BY <1>1, <3>1, Part
  <2>4. j - i + 1 \in 1..(Len(SubSeq(t, i, l)) - 1)
    BY <2>1, <2>3
  <2>5. ~IsObject(SubSeq(SubSeq(t, i, l), 1, j - i + 1))
    BY <1>4, <2>4 DEF OneObject
  <2>6. ~IsObject(Braced(p))
    BY <1>2, <2>2, <2>5
  <2>7. \E k \in 1..(Len(b) - 1) : b[k] = "}"
    <3>1. PICK o \in Nat : /\ Len(t) = o + Len(b)
                           /\ \A k \in 1..o : t[k] \notin Brace
                           /\ \A k \in 1..Len(b) : t[o + k] = b[k]
      BY BodyInText
    <3>2. t[j] = "}" /\ "}" \in Brace
      BY <1>2 DEF Brace
    <3>3. j \notin 1..o
      BY <3>1, <3>2
    <3>4. Len(t) = o + Len(b) /\ l <= Len(t)
      BY <1>1, <3>1
    <3>5. j - o \in 1..(Len(b) - 1) /\ j - o \in 1..Len(b) /\ o + (j - o) = j
      <4> HIDE DEF t, b
      <4> QED BY <1>1, <2>1, <3>3, <3>4
    <3>6. b[j - o] = "}"
      BY <3>1, <3>2, <3>5
    <3> QED BY <3>5, <3>6
  <2> QED BY <2>6, <2>7
<1> QED BY <1>5, <1>6

\* A part of a request in which a route is found is a beginning of it with its
\* whole first line; so the route is that of the first line, if the pattern
\* accepts it.
LEMMA FirstLine ==
  ASSUME NEW r \in Requests, NEW p \in Received(r), RoutesIn(p) # {}
  PROVE  /\ \E n \in 0..Len(Text(r)) : p = SubSeq(Text(r), 1, n)
         /\ p[1] = r.method
         /\ IF r.route \in Route THEN FirstRoute(p) = r.route
            ELSE FirstRoute(p) \in ToSet(r.headers) \cup ToSet(r.body)
<1> DEFINE t == Text(r)
<1>1. t \in Seq(Token) /\ Len(t) \in Nat
  <2>1. t \in Seq(Token)
    BY TextParts
  <2> HIDE DEF t
  <2> QED BY <2>1
<1>2. p # <<r.method, "/">>
  <2>1. \A i \in 2..(Len(<<r.method, "/">>) - 1) : FALSE
    OBVIOUS
  <2> QED BY <2>1 DEF RoutesIn
<1>3. PICK n \in 0..Len(t) : p = SubSeq(t, 1, n)
  BY <1>2 DEF Received, Prefixes
<1> HIDE DEF t
<1>4. Len(p) = n /\ \A i \in 1..n : p[i] = t[i]
  BY <1>1, <1>3
<1>5. PICK m : m = Min(RoutesIn(p))
  OBVIOUS
<1>6. m \in RoutesIn(p) /\ \A i \in RoutesIn(p) : m <= i
  <2>1. RoutesIn(p) \in SUBSET Nat
    BY <1>4 DEF RoutesIn
  <2> QED BY <1>5, <2>1, MinOf
<1>7. m \in 2..(n - 1) /\ p[m] \in Route
  BY <1>4, <1>6 DEF RoutesIn
<1>8. n \in Nat /\ 3 <= n /\ m \in 1..n /\ m \in 1..Len(t)
  BY <1>1, <1>7
<1>9. t[1] = r.method /\ t[2] = r.route /\ t[3] = "HTTP"
  BY TextParts DEF t
<1>10. 1 \in 1..n /\ 2 \in 1..n /\ 3 \in 1..n
  BY <1>8
<1>11. p[1] = r.method /\ p[2] = r.route /\ p[3] = "HTTP" /\ p[m] = t[m]
  BY <1>4, <1>8, <1>9, <1>10
<1>12. CASE r.route \in Route
  <2>1. 2 \in 2..(n - 1) /\ 2 + 1 = 3
    BY <1>8
  <2>2. 2 \in RoutesIn(p)
    BY <1>4, <1>11, <1>12, <2>1 DEF RoutesIn
  <2>3. m <= 2
    BY <1>6, <2>2
  <2>4. m = 2
    BY <1>7, <1>8, <2>3
  <2> QED BY <1>3, <1>5, <1>11, <1>12, <2>4 DEF FirstRoute, t
<1>13. CASE r.route \notin Route
  <2>1. m # 2 /\ m # 3
    BY <1>7, <1>11, <1>13, RouteAssumption
  <2>2. PICK h \in Nat, b \in Nat :
          /\ h = Len(r.headers) /\ b = Len(r.body) /\ Len(t) = (3 + h) + b
          /\ \A i \in 1..h : t[3 + i] = r.headers[i]
          /\ \A i \in 1..b : t[(3 + h) + i] = r.body[i]
    BY TextParts DEF t
  <2>d. DOMAIN r.headers = 1..h /\ DOMAIN r.body = 1..b
    BY <2>2, TextParts
  <2>3. CASE m <= 3 + h
    <3>1. m - 3 \in 1..h /\ 3 + (m - 3) = m
      BY <1>7, <1>8, <2>1, <2>2, <2>3
    <3>2. p[m] = r.headers[m - 3]
      BY <1>11, <2>2, <3>1
    <3>3. p[m] \in ToSet(r.headers)
      BY <2>d, <3>1, <3>2 DEF ToSet
    <3> QED BY <1>3, <1>5, <1>11, <1>13, <3>3 DEF FirstRoute, t
  <2>4. CASE ~(m <= 3 + h)
    <3>0. m \in 1..((3 + h) + b)
      BY <1>8, <2>2
    <3>1. m - (3 + h) \in 1..b /\ (3 + h) + (m - (3 + h)) = m
      BY <2>4, <3>0
    <3>2. p[m] = r.body[m - (3 + h)]
      BY <1>11, <2>2, <3>1
    <3>3. p[m] \in ToSet(r.body)
      BY <2>d, <3>1, <3>2 DEF ToSet
    <3> QED BY <1>3, <1>5, <1>11, <1>13, <3>3 DEF FirstRoute, t
  <2> QED BY <2>3, <2>4
<1> QED BY <1>12, <1>13

\* What a handler is to see of a request, as ParsedAsSent says it.
Sees(q, r) ==
  /\ q.method = r.method
  /\ IF r.route \in Route THEN q.route = r.route
     ELSE q.route \in ToSet(r.headers) \cup ToSet(r.body)
  /\ WellFormed(r) => q.body = IF r.method = "GET" THEN <<>> ELSE Braced(r.body)

\* What parseContent makes of a part of a request, if it makes anything of it.
LEMMA PartParsed ==
  ASSUME NEW r \in Requests, NEW p \in Received(r), Outcome(p) = "parsed"
  PROVE  Sees(Parsed(p), r)
<1>1. RoutesIn(p) # {} /\ (p[1] = "GET" \/ (Braced(p) # <<>> /\ IsObject(Braced(p))))
  BY DEF Outcome
<1>2. /\ \E n \in 0..Len(Text(r)) : p = SubSeq(Text(r), 1, n)
      /\ p[1] = r.method
      /\ IF r.route \in Route THEN FirstRoute(p) = r.route
         ELSE FirstRoute(p) \in ToSet(r.headers) \cup ToSet(r.body)
  BY <1>1, FirstLine
<1>3. ASSUME WellFormed(r), r.method # "GET" PROVE Braced(p) = Braced(r.body)
  BY <1>1, <1>2, <1>3, ObjectAtItsEnd, BracedBody
<1> QED BY <1>2, <1>3 DEF Parsed, Sees

\* Its JSON parser throws only at an object cut off after one of its braces.
LEMMA PartThrows ==
  ASSUME NEW r \in Requests, WellFormed(r), NEW p \in Received(r), Outcome(p) = "throws"
  PROVE  \E k \in 1..(Len(r.body) - 1) : r.body[k] = "}"
<1>1. RoutesIn(p) # {} /\ Braced(p) # <<>> /\ ~IsObject(Braced(p))
  BY DEF Outcome
<1>2. PICK n \in 0..Len(Text(r)) : p = SubSeq(Text(r), 1, n)
  BY <1>1, FirstLine
<1> QED BY <1>1, <1>2, ObjectAtItsEnd

-----------------------------------------------------------------------------
(* The loop over a screen's modes                                          *)

\* One turn of the loop, and what the loop over all the modes comes to.
Step(best, m) == IF Better(m, best) THEN m ELSE best
BestOf(s) ==
  FoldLeft(LAMBDA best, m : IF Better(m, best) THEN m ELSE best, Head(s), Tail(s))

\* The function by which FoldLeft is defined.
IsFold(f, base, q, n) ==
  f = [u \in SUBSET (1..n) |->
         IF u = {} THEN base ELSE Step(f[u \ {Max(u)}], q[Max(u)])]

\* The loop over one mode more continues the loop over those before.
LEMMA FoldExtends ==
  ASSUME NEW n \in Nat, NEW base, NEW q, NEW f, IsFold(f, base, q, n)
  PROVE  \E g : IsFold(g, base, q, n + 1)
<1> DEFINE k == n + 1
           g == [u \in SUBSET (1..k) |->
                   IF k \in u THEN Step(f[u \ {k}], q[k]) ELSE f[u]]
<1>f. /\ DOMAIN f = SUBSET (1..n)
      /\ \A u \in SUBSET (1..n) :
           f[u] = IF u = {} THEN base ELSE Step(f[u \ {Max(u)}], q[Max(u)])
  BY Zenon DEF IsFold
<1>1. ASSUME NEW u \in SUBSET (1..k)
      PROVE  g[u] = IF u = {} THEN base ELSE Step(g[u \ {Max(u)}], q[Max(u)])
  <2>k. k \in Nat /\ k \notin 1..n /\ \A x \in 1..k : x \in 1..n \/ x = k
    OBVIOUS
  <2>1. CASE u = {}
    <3>1. g[u] = f[u] /\ u \in SUBSET (1..n)
      BY <2>1
    <3> QED BY <1>f, <2>1, <3>1
  <2>2. CASE k \in u
    <3>1. Max(u) = k
      <4>1. u \in SUBSET (0..k) /\ u # {}
        BY <2>2
      <4>2. Max(u) \in u /\ \A x \in u : x <= Max(u)
        BY <2>k, <4>1, MaxOf
      <4>3. Max(u) \in 1..k /\ k <= Max(u)
        BY <2>2, <4>2
      <4> QED BY <2>k, <4>3
    <3>2. u \ {k} \in SUBSET (1..n) /\ k \notin u \ {k}
      BY <2>k
    <3>3. g[u \ {k}] = f[u \ {k}]
      BY <3>2
    <3>4. g[u] = Step(f[u \ {k}], q[k])
      BY <2>2
    <3> HIDE DEF g, k
    <3> QED BY <2>2, <3>1, <3>3, <3>4
  <2>3. CASE u # {} /\ k \notin u
    <3>1. u \in SUBSET (1..n) /\ u \in SUBSET (0..n)
      BY <2>k, <2>3
    <3>2. Max(u) \in u
      BY <2>3, <3>1, MaxOf
    <3>3. g[u] = f[u] /\ f[u] = Step(f[u \ {Max(u)}], q[Max(u)])
      BY <1>f, <2>3, <3>1
    <3>4. u \ {Max(u)} \in SUBSET (1..k) /\ k \notin u \ {Max(u)}
      BY <2>3
    <3>5. g[u \ {Max(u)}] = f[u \ {Max(u)}]
      BY <3>4
    <3> HIDE DEF g, k
    <3> QED BY <2>3, <3>3, <3>5
  <2> QED BY <2>1, <2>2, <2>3
<1>2. g = [u \in SUBSET (1..k) |-> g[u]]
  OBVIOUS
<1> HIDE DEF g
<1>3. g = [u \in SUBSET (1..k) |->
            IF u = {} THEN base ELSE Step(g[u \ {Max(u)}], q[Max(u)])]
  BY <1>1, <1>2, Zenon
<1>4. IsFold(g, base, q, n + 1)
  BY <1>3, Zenon DEF IsFold
<1> QED BY <1>4

\* The function of FoldLeft exists for every number of modes.
LEMMA FoldExists ==
  ASSUME NEW base, NEW q
  PROVE  \A n \in Nat : \E f : IsFold(f, base, q, n)
<1> DEFINE T == {n \in Nat : \E f : IsFold(f, base, q, n)}
<1>1. 0 \in T
  <2> DEFINE f == [u \in SUBSET (1..0) |-> base]
  <2>1. \A u \in SUBSET (1..0) : u = {}
    OBVIOUS
  <2>2. f = [u \in SUBSET (1..0) |->
               IF u = {} THEN base ELSE Step(f[u \ {Max(u)}], q[Max(u)])]
    BY <2>1
  <2>3. IsFold(f, base, q, 0)
    BY <2>2, Zenon DEF IsFold
  <2> QED BY <2>3
<1>2. ASSUME NEW n \in T PROVE n + 1 \in T
  <2>1. n \in Nat /\ n + 1 \in Nat /\ \E f : IsFold(f, base, q, n)
    OBVIOUS
  <2>2. \E f : IsFold(f, base, q, n + 1)
    BY <2>1, FoldExtends
  <2> QED BY <2>1, <2>2
<1>3. T \in SUBSET Nat
  OBVIOUS
<1>4. T = Nat
  <2> HIDE DEF T
  <2> QED BY <1>1, <1>2, <1>3, SetInduction
<1> QED BY <1>4

\* FoldLeft takes the modes in their order, and each is compared with the best
\* of those before it.
LEMMA BestUnfolds ==
  ASSUME NEW S, NEW s \in Seq(S), s # <<>>
  PROVE  \E f, n : /\ n \in Nat /\ n + 1 = Len(s)
                   /\ BestOf(s) = f[n]
                   /\ f[0] = s[1]
                   /\ \A k \in 1..n : f[k] = Step(f[k - 1], s[k + 1])
<1>1. PICK n \in Nat : /\ n + 1 = Len(s) /\ Head(s) = s[1]
                       /\ DOMAIN Tail(s) = 1..n /\ \A k \in 1..n : Tail(s)[k] = s[k + 1]
  <2>1. Len(s) - 1 \in Nat /\ (Len(s) - 1) + 1 = Len(s) /\ Head(s) = s[1]
    OBVIOUS
  <2>2. Tail(s) \in Seq(S) /\ Len(Tail(s)) = Len(s) - 1
        /\ \A k \in 1..(Len(s) - 1) : Tail(s)[k] = s[k + 1]
    OBVIOUS
  <2>3. DOMAIN Tail(s) = 1..(Len(s) - 1)
    BY <2>2
  <2> QED BY <2>1, <2>2, <2>3
<1> DEFINE it == CHOOSE f : f = [u \in SUBSET (1..n) |->
                   IF u = {} THEN Head(s)
                   ELSE Step(f[u \ {Max(u)}], Tail(s)[Max(u)])]
<1>2. \E f : IsFold(f, Head(s), Tail(s), n)
  BY FoldExists
<1>3. IsFold(it, Head(s), Tail(s), n)
  BY <1>2, Zenon DEF IsFold
<1>4. BestOf(s) = it[1..n]
  BY <1>1, Zenon DEF BestOf, FoldLeft, MapThenFoldSet, Step
<1> HIDE DEF it
<1>5. \A u \in SUBSET (1..n) :
        it[u] = IF u = {} THEN Head(s) ELSE Step(it[u \ {Max(u)}], Tail(s)[Max(u)])
  BY <1>3, Zenon DEF IsFold
<1> DEFINE f == [k \in 0..n |-> it[1..k]]
<1>6. f[0] = s[1]
  <2>1. 1..0 = {} /\ 1..0 \in SUBSET (1..n) /\ 0 \in 0..n
    OBVIOUS
  <2> QED BY <1>1, <1>5, <2>1
<1>7. ASSUME NEW k \in 1..n PROVE f[k] = Step(f[k - 1], s[k + 1])
  <2>1. Max(1..k) = k
    <3>1. k \in Nat /\ 1..k \in SUBSET (0..k) /\ k \in 1..k
      OBVIOUS
    <3>2. Max(1..k) \in 1..k /\ k <= Max(1..k)
      BY <3>1, MaxOf
    <3> QED BY <3>2
  <2>2. (1..k) \ {k} = 1..(k - 1) /\ 1..k \in SUBSET (1..n) /\ 1..k # {}
    <3>1. \A x : x \in (1..k) \ {k} <=> x \in 1..(k - 1)
      OBVIOUS
    <3>2. k \in 1..k /\ \A x \in 1..k : x \in 1..n
      OBVIOUS
    <3> QED BY <3>1, <3>2
  <2>3. it[1..k] = Step(it[1..(k - 1)], Tail(s)[k])
    BY <1>5, <2>1, <2>2
  <2>4. k \in 0..n /\ k - 1 \in 0..n
    OBVIOUS
  <2> QED BY <1>1, <2>3, <2>4
<1>8. BestOf(s) = f[n]
  <2>1. n \in 0..n
    OBVIOUS
  <2> QED BY <1>4, <2>1
<1> QED BY <1>1, <1>6, <1>7, <1>8

\* What ReachesExtreme wants of a mode, against one the screen lists.
AsGood(best, m) == IF Up THEN m.w <= best.w ELSE best.w <= m.w

\* The mode that changeResolution comes out of its loop with is one that the
\* screen lists, and none is wider (or narrower).
LEMMA BestOfAll ==
  ASSUME NEW s \in Seq(ListedMode), s # <<>>
  PROVE  BestOf(s) \in ListedMode /\ \A i \in 1..Len(s) : AsGood(BestOf(s), s[i])
<1>1. PICK f, n : /\ n \in Nat /\ n + 1 = Len(s)
                  /\ BestOf(s) = f[n]
                  /\ f[0] = s[1]
                  /\ \A k \in 1..n : f[k] = Step(f[k - 1], s[k + 1])
  BY BestUnfolds
<1>s. \A i \in 1..Len(s) : s[i] \in ListedMode
  OBVIOUS
<1>n. n \in Nat /\ Len(s) = n + 1
  BY <1>1
<1> DEFINE P(k) == f[k] \in ListedMode /\ \A i \in 1..(k + 1) : AsGood(f[k], s[i])
           T == {k \in Nat : k <= n => P(k)}
<1>2. 0 \in T
  <2>1. 1 \in 1..Len(s) /\ \A i \in 1..(0 + 1) : i = 1
    BY <1>n
  <2>2. s[1] \in ListedMode
    BY <1>s, <2>1
  <2>3. AsGood(s[1], s[1])
    BY <2>2 DEF AsGood, ListedMode
  <2> QED BY <1>1, <2>1, <2>2, <2>3
<1>3. ASSUME NEW k \in T PROVE k + 1 \in T
  <2>1. SUFFICES ASSUME k + 1 <= n PROVE P(k + 1)
    OBVIOUS
  <2>2. k \in Nat /\ P(k)
    BY <1>n, <2>1
  <2>3. k + 1 \in 1..n /\ (k + 1) - 1 = k /\ (k + 1) + 1 \in 1..Len(s)
    BY <1>n, <2>1, <2>2
  <2>4. f[k + 1] = Step(f[k], s[(k + 1) + 1])
    BY <1>1, <2>3
  <2>5. \A i \in 1..((k + 1) + 1) : i \in 1..(k + 1) \/ i = (k + 1) + 1
    BY <2>2
  <2>6. s[(k + 1) + 1] \in ListedMode
    BY <1>s, <2>3
  <2>7. ASSUME NEW a \in ListedMode, NEW b \in ListedMode
        PROVE  /\ Step(a, b) \in ListedMode
               /\ AsGood(Step(a, b), b) /\ AsGood(Step(a, b), a)
               /\ \A c \in ListedMode : AsGood(a, c) => AsGood(Step(a, b), c)
    BY DEF Step, Better, AsGood, ListedMode
  <2>8. \A i \in 1..(k + 1) : s[i] \in ListedMode
    <3>1. \A i \in 1..(k + 1) : i \in 1..Len(s)
      BY <2>2, <2>3
    <3> QED BY <1>s, <3>1
  <2>9. f[k + 1] \in ListedMode
    BY <2>2, <2>4, <2>6, <2>7
  <2>10. \A i \in 1..(k + 1) : AsGood(f[k + 1], s[i])
    BY <2>2, <2>4, <2>6, <2>7, <2>8
  <2>11. AsGood(f[k + 1], s[(k + 1) + 1])
    BY <2>2, <2>4, <2>6, <2>7
  <2> QED BY <2>5, <2>9, <2>10, <2>11
<1>4. T \in SUBSET Nat
  OBVIOUS
<1>5. T = Nat
  <2> HIDE DEF T
  <2> QED BY <1>2, <1>3, <1>4, SetInduction
<1>6. P(n)
  <2>1. n \in T /\ n <= n
    BY <1>n, <1>5
  <2> QED BY <2>1
<1> QED BY <1>1, <1>n, <1>6

\* The size for which Windows is asked is as wide, or as narrow, as any that counts.
LEMMA TargetReaches ==
  ASSUME NEW s \in Seq(ListedMode), s # <<>>, screens[1] = s
  PROVE  \A m \in ToSet(s) :
           IF Up THEN m.depth >= 32 => m.w <= Target.w ELSE Target.w <= m.w
<1> DEFINE counted == {m \in ToSet(s) : Counted(m)}
           W == {1000} \cup {m.w : m \in counted}
<1>1. \A m \in ToSet(s) : m \in ListedMode /\ \E i \in 1..Len(s) : m = s[i]
  <2>1. \A m \in ToSet(s) : \E i \in 1..Len(s) : m = s[i]
    BY DEF ToSet
  <2> QED BY <2>1
<1>2. \A m \in ToSet(s) : m.w \in Nat
  BY <1>1 DEF ListedMode
<1>3. W \in SUBSET Nat /\ W # {}
  BY <1>2
<1>4. \A m \in ToSet(s) : (Up => m.depth >= 32) => m.w \in W
  BY DEF Counted
<1>5. Target.w = IF Up THEN Max(W) ELSE Min(W)
  BY DEF Target, Extreme
<1>6. CASE Up
  <2>1. BestOf(s) \in ListedMode /\ \A m \in ToSet(s) : m.w <= BestOf(s).w
    BY <1>1, <1>6, BestOfAll DEF AsGood
  <2>2. PICK n \in Nat : n = BestOf(s).w
    BY <2>1 DEF ListedMode
  <2>3. PICK k \in Nat : k = n + 1000
    OBVIOUS
  <2>k. W \in SUBSET (0..k)
    <3>1. \A m \in ToSet(s) : m.w \in 0..k
      BY <1>2, <2>1, <2>2, <2>3
    <3>2. 1000 \in 0..k
      BY <2>3
    <3> QED BY <3>1, <3>2
  <2> HIDE DEF W
  <2>4. \A x \in W : x <= Max(W)
    BY <1>3, <2>k, MaxOf
  <2> QED BY <1>4, <1>5, <1>6, <2>4
<1>7. CASE ~Up
  <2> HIDE DEF W
  <2>1. \A x \in W : Min(W) <= x
    BY <1>3, MinOf
  <2> QED BY <1>4, <1>5, <1>7, <2>1
<1> QED BY <1>6, <1>7

-----------------------------------------------------------------------------
(* The table of routes                                                     *)

\* The entries that change the resolution, and the steps without a lasting effect.
Resizing == {"/macro", "/micro"}
Plain ==
  {"box", "sounds", "field", "terminal", "shell", "system", "unsupported", "wallpaper", "delete",
   "open", "draw", "fault", "colors", "item", "copy", "check file", "truncate"}
StepName == Plain \cup {"rename", "settings", "dates", "crash", "resolution", "screens"}

\* The steps with a lasting effect belong to the routes they are named after.
StepFits(step, p) ==
  /\ step \in {"resolution", "screens"} => p \in Resizing
  /\ step \in {"rename", "settings", "dates"} => p = "/runMalware"
  /\ step = "crash" => p = "/crash"

\* The steps t are some that the handler of p may have.
Fits(t, p) ==
  /\ t \in Seq(StepName)
  /\ \A i \in 1..Len(t) : StepFits(t[i], p)
  /\ p \in Resizing => t = <<"resolution">>

\* Plain steps fit every entry but /macro and /micro.
LEMMA PlainFits ==
  ASSUME NEW t \in Seq(Plain), NEW p, p \notin Resizing
  PROVE  Fits(t, p)
<1>1. t \in Seq(StepName)
  <2>1. Plain \subseteq StepName BY DEF StepName
  <2> QED BY <2>1, SeqMonotonic
<1>2. \A i \in 1..Len(t) : t[i] \in Plain
  OBVIOUS
<1>3. \A x \in Plain : StepFits(x, p)
  BY DEF Plain, StepFits
<1> QED BY <1>1, <1>2, <1>3 DEF Fits

\* The names of the plain steps, one by one.
LEMMA PlainNames ==
  /\ "box" \in Plain /\ "sounds" \in Plain /\ "field" \in Plain /\ "terminal" \in Plain
  /\ "shell" \in Plain /\ "system" \in Plain /\ "unsupported" \in Plain
  /\ "wallpaper" \in Plain /\ "delete" \in Plain /\ "open" \in Plain /\ "draw" \in Plain
  /\ "fault" \in Plain /\ "colors" \in Plain /\ "item" \in Plain /\ "copy" \in Plain
  /\ "check file" \in Plain /\ "truncate" \in Plain
BY DEF Plain

\* A handler of one plain step.
LEMMA One == ASSUME NEW a \in Plain PROVE <<a>> \in Seq(Plain)
OBVIOUS

\* A handler of two plain steps.
LEMMA Two == ASSUME NEW a \in Plain, NEW b \in Plain PROVE <<a, b>> \in Seq(Plain)
OBVIOUS

\* A handler of three plain steps.
LEMMA Three ==
  ASSUME NEW a \in Plain, NEW b \in Plain, NEW c \in Plain PROVE <<a, b, c>> \in Seq(Plain)
OBVIOUS

\* A handler of four plain steps.
LEMMA Four ==
  ASSUME NEW a \in Plain, NEW b \in Plain, NEW c \in Plain, NEW d \in Plain
  PROVE  <<a, b, c, d>> \in Seq(Plain)
OBVIOUS

\* The handlers of the table that have plain steps only.
LEMMA PlainTuples ==
  /\ <<>> \in Seq(Plain) /\ <<"box">> \in Seq(Plain) /\ <<"unsupported">> \in Seq(Plain)
  /\ <<"sounds", "box">> \in Seq(Plain) /\ <<"field", "terminal">> \in Seq(Plain)
  /\ <<"field", "shell">> \in Seq(Plain) /\ <<"field", "system">> \in Seq(Plain)
  /\ <<"wallpaper">> \in Seq(Plain) /\ <<"delete">> \in Seq(Plain) /\ <<"open">> \in Seq(Plain)
  /\ <<"draw", "open">> \in Seq(Plain) /\ <<"system">> \in Seq(Plain)
  /\ <<"shell">> \in Seq(Plain) /\ <<"fault">> \in Seq(Plain) /\ <<"draw">> \in Seq(Plain)
  /\ <<"field", "colors">> \in Seq(Plain) /\ <<"item", "open">> \in Seq(Plain)
  /\ <<"field", "draw", "copy">> \in Seq(Plain)
  /\ <<"check file", "field", "truncate", "shell">> \in Seq(Plain)
<1>0. <<>> \in Seq(Plain)
  OBVIOUS
<1>1. /\ <<"box">> \in Seq(Plain) /\ <<"unsupported">> \in Seq(Plain)
      /\ <<"wallpaper">> \in Seq(Plain) /\ <<"delete">> \in Seq(Plain)
      /\ <<"open">> \in Seq(Plain) /\ <<"system">> \in Seq(Plain)
      /\ <<"shell">> \in Seq(Plain) /\ <<"fault">> \in Seq(Plain) /\ <<"draw">> \in Seq(Plain)
  BY PlainNames, One, Zenon
<1>2. /\ <<"sounds", "box">> \in Seq(Plain) /\ <<"field", "terminal">> \in Seq(Plain)
      /\ <<"field", "shell">> \in Seq(Plain) /\ <<"field", "system">> \in Seq(Plain)
      /\ <<"draw", "open">> \in Seq(Plain)
      /\ <<"field", "colors">> \in Seq(Plain) /\ <<"item", "open">> \in Seq(Plain)
  BY PlainNames, Two, Zenon
<1>3. <<"field", "draw", "copy">> \in Seq(Plain)
  BY PlainNames, Three, Zenon
<1>4. <<"check file", "field", "truncate", "shell">> \in Seq(Plain)
  BY PlainNames, Four, Zenon
<1> QED BY <1>0, <1>1, <1>2, <1>3, <1>4

\* A handler of one step.
LEMMA OneStep ==
  ASSUME NEW S, NEW a \in S
  PROVE  <<a>> \in Seq(S) /\ \A i \in 1..Len(<<a>>) : <<a>>[i] = a
OBVIOUS

\* A handler of four steps.
LEMMA FourSteps ==
  ASSUME NEW S, NEW a \in S, NEW b \in S, NEW c \in S, NEW d \in S
  PROVE  /\ <<a, b, c, d>> \in Seq(S)
         /\ \A i \in 1..Len(<<a, b, c, d>>) : <<a, b, c, d>>[i] \in {a, b, c, d}
OBVIOUS

\* The table keeps its effects apart: changes of the screen, of the date and
\* the crash are steps of the entries that are named after them only.
LEMMA StepsFit ==
  ASSUME NEW e, NEW p \in Path
  PROVE  Fits(StepsOf(e, p), p)
<1>1. CASE p \in MessagePath
  <2>1. StepsOf(e, p) = MessageSteps(e, p)
    BY <1>1 DEF StepsOf, MessagePath, FilePath, SystemPath, Only98
  <2>2. MessageSteps(e, p) \in Seq(Plain)
    <3>1. CASE p \in {"/", "/baseData"}
      <4>1. MessageSteps(e, p) = <<>>
        BY <3>1 DEF MessageSteps
      <4> QED BY <4>1, PlainTuples
    <3>2. CASE p \in {"/abort", "/box"}
      <4>1. MessageSteps(e, p) = <<"box">>
        BY <3>2 DEF MessageSteps
      <4> QED BY <4>1, PlainTuples
    <3>3. CASE p = "/sound"
      <4>1. MessageSteps(e, p) \in {<<"unsupported">>, <<"sounds", "box">>}
        BY <3>3 DEF MessageSteps, Unsupported
      <4> QED BY <4>1, PlainTuples
    <3>4. CASE p = "/terminal"
      <4>1. MessageSteps(e, p) = <<"field", "terminal">>
        BY <3>4 DEF MessageSteps
      <4> QED BY <4>1, PlainTuples
    <3>5. CASE p = "/tts"
      <4>1. MessageSteps(e, p) \in {<<"field", "shell">>, <<"field", "system">>}
        BY <3>5 DEF MessageSteps
      <4> QED BY <4>1, PlainTuples
    <3> QED BY <1>1, <3>1, <3>2, <3>3, <3>4, <3>5 DEF MessagePath
  <2>3. p \notin Resizing
    BY <1>1 DEF MessagePath, Resizing
  <2> QED BY <2>1, <2>2, <2>3, PlainFits
<1>2. CASE p \in FilePath \ {"/runMalware"}
  <2>1. StepsOf(e, p) = FileSteps(p)
    BY <1>2 DEF StepsOf, MessagePath, FilePath, SystemPath, Only98
  <2>2. FileSteps(p) \in {<<"wallpaper">>, <<"delete">>, <<"open">>, <<"draw", "open">>}
    BY <1>2 DEF FileSteps, FilePath
  <2>3. FileSteps(p) \in Seq(Plain)
    BY <2>2, PlainTuples
  <2>4. p \notin Resizing
    BY <1>2 DEF FilePath, Resizing
  <2> QED BY <2>1, <2>3, <2>4, PlainFits
<1>3. CASE p = "/runMalware"
  <2>1. StepsOf(e, p) = <<"rename", "settings", "dates", "open">>
    BY <1>3 DEF StepsOf, FileSteps, MessagePath, FilePath, SystemPath, Only98
  <2>2. \A x \in {"rename", "settings", "dates", "open"} : x \in StepName /\ StepFits(x, p)
    BY <1>3 DEF StepName, Plain, StepFits
  <2>3. p \notin Resizing
    BY <1>3 DEF Resizing
  <2> QED BY <2>1, <2>2, <2>3, FourSteps DEF Fits
<1>4. CASE p \in SystemPath \ (Resizing \cup {"/crash"})
  <2>1. StepsOf(e, p) = SystemSteps(e, p)
    BY <1>4 DEF StepsOf, MessagePath, FilePath, SystemPath, Only98
  <2>2. SystemSteps(e, p) \in
          {<<"system">>, <<"shell">>, <<"fault">>, Unsupported, <<"field", "colors">>,
           <<"draw">>, <<"item", "open">>, <<"field", "draw", "copy">>,
           <<"check file", "field", "truncate", "shell">>}
    BY <1>4 DEF SystemSteps, SystemPath, Resizing, Only98
  <2>3. SystemSteps(e, p) \in Seq(Plain)
    BY <2>2, PlainTuples DEF Unsupported
  <2> QED BY <1>4, <2>1, <2>3, PlainFits
<1>5. CASE p \in Resizing \cup {"/crash"}
  <2>1. StepsOf(e, p) = IF p \in Resizing THEN <<"resolution">> ELSE <<"crash">>
    BY <1>5 DEF StepsOf, SystemSteps, MessagePath, FilePath, SystemPath, Only98, Resizing
  <2>2. /\ "resolution" \in StepName /\ (p \in Resizing => StepFits("resolution", p))
        /\ "crash" \in StepName /\ (p \notin Resizing => StepFits("crash", p))
    BY <1>5 DEF StepName, Plain, StepFits
  <2> QED BY <2>1, <2>2, OneStep DEF Fits
<1> QED BY <1>1, <1>2, <1>3, <1>4, <1>5 DEF Path

-----------------------------------------------------------------------------
(* The steps of a handler                                                  *)

\* The steps that are left when the one at hand is done.
LEMMA TailSteps ==
  ASSUME NEW S, NEW t \in Seq(S), t # <<>>
  PROVE  /\ Tail(t) \in Seq(S) /\ Len(t) \in Nat /\ Head(t) = t[1] /\ 1 \in 1..Len(t)
         /\ \A i \in 1..Len(Tail(t)) : i + 1 \in 1..Len(t) /\ Tail(t)[i] = t[i + 1]
OBVIOUS

\* A sequence of one, and nothing after it.
LEMMA TailOfOne ==
  ASSUME NEW a
  PROVE  Tail(<<a>>) = <<>> /\ <<a>> # <<>> /\ Head(<<a>>) = a /\ <<a>> \o <<>> = <<a>>
OBVIOUS

\* While a handler runs, its entry is the one asked for and its setting is on,
\* and what it has yet to do belongs to that entry; the setting of a handler
\* that has done something was on, and what is on is not off.
StepsInv ==
  /\ pc \in {"config", "accept", "dispatch", "steps", "stuck", "ended"}
  /\ pc = "steps" =>
       /\ Found /\ Enabled
       /\ todo \in Seq(StepName)
       /\ \A i \in 1..Len(todo) : StepFits(todo[i], request.route)
       /\ request.route \in Resizing => todo \in {<<"resolution">>, <<"screens">>, <<>>}
  /\ pc \in {"config", "dispatch"} => done = <<>>
  /\ done # <<>> => Enabled
  /\ enabled \cap (off \ NotRead(edition)) = {}

\* An error of the step at hand is answered.
Answers ==
  /\ pc = "steps"
  /\ \E s : s \notin {"200", "thrown"} /\ Respond(s)
  /\ UNCHANGED <<edition, off, enabled, count, sent, request, done>>

\* Exceptions are answered with statuses of their own.
LEMMA FailsWith ==
  ASSUME NEW e, NEW step, NEW s \in Fails(e, step)
  PROVE  s \notin {"200", "thrown"}
BY DEF Fails

\* What a step of the program can be to the request.
LEMMA CycleShape ==
  ASSUME Next
  PROVE  \/ ReadConfig \/ Receive \/ Dispatch \/ Finish
         \/ pc = "steps" /\ todo # <<>> /\ GoOn(Tail(todo))
         \/ edition = "linux" /\ At("resolution") /\ GoOn(<<"screens">> \o Tail(todo))
         \/ Answers
         \/ Hang
         \/ CycleEnds
         \/ UNCHANGED cycleVars
<1>1. CASE CycleStep
  <2>1. CASE FailStep
    BY <2>1, FailsWith DEF FailStep, Answers
  <2> QED BY <1>1, <2>1 DEF CycleStep, TakeStep
<1>2. CASE DisplayStep
  <2>1. CASE ChangeResolution \/ ScreensDone
    BY <2>1 DEF ChangeResolution, ScreensDone, At
  <2>2. CASE ChangeRefused \/ QueryFails \/ SetScreenFails
    BY <2>2 DEF ChangeRefused, QueryFails, SetScreenFails, At, Answers
  <2>3. CASE QueryScreens
    BY <2>3 DEF QueryScreens
  <2>4. CASE SetScreen \/ QueryFaults
    BY <2>4 DEF SetScreen, QueryFaults
  <2> QED BY <1>2, <2>1, <2>2, <2>3, <2>4 DEF DisplayStep
<1>3. CASE DateStep
  <2>1. CASE DrawMalware \/ ReadDates \/ DatesDone
    BY <2>1 DEF DrawMalware, ReadDates, DatesDone, At
  <2>2. CASE SkipEntry \/ SetClock
    BY <2>2 DEF SkipEntry, SetClock
  <2>3. CASE EntryFails \/ EntryFaults
    BY <2>3 DEF EntryFails, EntryFaults, InLoop, At, Answers
  <2> QED BY <1>3, <2>1, <2>2, <2>3 DEF DateStep
<1>4. CASE StartCrash
  BY <1>4 DEF StartCrash, At
<1>5. CASE Fault \/ CrashStrikes
  BY <1>5 DEF Fault, CrashStrikes
<1>6. CASE Receive
  BY <1>6
<1> QED BY <1>1, <1>2, <1>3, <1>4, <1>5, <1>6 DEF Next, Serve

\* No handler runs at the start.
LEMMA StepsInvStart == Init => StepsInv
BY DEF Init, CycleInit, StepsInv

\* Every step keeps StepsInv; Dispatch, by what the table holds.
LEMMA StepsInvStep == StepsInv /\ [Next]_vars => StepsInv'
<1> SUFFICES ASSUME StepsInv, [Next]_vars PROVE StepsInv'
  OBVIOUS
<1>1. CASE ReadConfig
  <2>1. enabled' \cap (off' \ NotRead(edition')) = {}
    BY <1>1 DEF ReadConfig, StepsInv
  <2> QED BY <1>1, <2>1 DEF ReadConfig, StepsInv
<1>2. CASE Receive
  BY <1>2 DEF Receive, StepsInv
<1>3. CASE Dispatch
  <2>1. CASE Respond("404") \/ Respond("403")
    BY <1>3, <2>1 DEF Dispatch, Respond, StepsInv, Enabled
  <2>2. CASE Found /\ Enabled /\ pc' = "steps" /\ todo' = StepsOf(edition, request.route)
    <3>1. Fits(todo', request'.route)
      BY <1>3, <2>2, StepsFit DEF Dispatch, Found
    <3>2. Found' /\ Enabled' /\ done' = done /\ enabled' \cap (off' \ NotRead(edition')) = {}
      BY <1>3, <2>2 DEF Dispatch, Found, Enabled, StepsInv
    <3> QED BY <1>3, <2>2, <3>1, <3>2 DEF Fits, StepsInv
  <2> QED BY <1>3, <2>1, <2>2 DEF Dispatch
<1>4. CASE Finish
  BY <1>4 DEF Finish, Respond, StepsInv, Enabled
<1>5. ASSUME pc = "steps", todo # <<>>,
             GoOn(Tail(todo)) \/ (At("resolution") /\ GoOn(<<"screens">> \o Tail(todo)))
      PROVE  StepsInv'
  <2>1. /\ pc' = "steps" /\ UNCHANGED <<edition, off, enabled, request>>
        /\ Found /\ Enabled /\ todo \in Seq(StepName)
        /\ \A i \in 1..Len(todo) : StepFits(todo[i], request.route)
        /\ request.route \in Resizing => todo \in {<<"resolution">>, <<"screens">>, <<>>}
    BY <1>5 DEF GoOn, StepsInv
  <2>2. Found' /\ Enabled' /\ enabled' \cap (off' \ NotRead(edition')) = {}
    BY <2>1 DEF Found, Enabled, StepsInv
  <2>3. /\ Tail(todo) \in Seq(StepName)
        /\ \A i \in 1..Len(Tail(todo)) : StepFits(Tail(todo)[i], request.route)
    BY <1>5, <2>1, TailSteps
  <2>4. CASE todo' = Tail(todo)
    <3>1. request.route \in Resizing => Tail(todo) = <<>>
      BY <1>5, <2>1, TailOfOne
    <3> QED BY <2>1, <2>2, <2>3, <2>4, <3>1 DEF StepsInv
  <2>5. CASE At("resolution") /\ todo' = <<"screens">> \o Tail(todo)
    <3>1. request.route \in Resizing /\ "screens" \in StepName
      BY <1>5, <2>1, <2>5, TailSteps DEF At, StepFits, StepName
    <3>2. Tail(todo) = <<>>
      BY <1>5, <2>1, <3>1, TailOfOne
    <3>3. todo' = <<"screens">>
      BY <2>5, <3>2, TailOfOne
    <3>4. StepFits("screens", request.route)
      BY <3>1 DEF StepFits
    <3>5. /\ todo' \in Seq(StepName)
          /\ \A i \in 1..Len(todo') : StepFits(todo'[i], request'.route)
      BY <2>1, <3>1, <3>3, <3>4, OneStep
    <3> QED BY <2>1, <2>2, <3>3, <3>5 DEF StepsInv
  <2> QED BY <1>5, <2>4, <2>5 DEF GoOn
<1>6. CASE Answers
  BY <1>6 DEF Answers, Respond, StepsInv, Enabled
<1>7. CASE CycleEnds \/ Hang
  BY <1>7 DEF CycleEnds, Hang, StepsInv, Enabled
<1>8. CASE UNCHANGED cycleVars
  BY <1>8 DEF cycleVars, StepsInv, Found, Enabled
<1>9. CASE UNCHANGED vars
  BY <1>8, <1>9 DEF vars
<1> QED BY <1>1, <1>2, <1>3, <1>4, <1>5, <1>6, <1>7, <1>8, <1>9, CycleShape DEF At

\* Whatever requests come, a handler runs only for its own entry of the table,
\* with its setting on, and only takes steps of that entry.
THEOREM Steps == Spec => []StepsInv
<1>1. Init => StepsInv BY StepsInvStart
<1>2. StepsInv /\ [Next]_vars => StepsInv' BY StepsInvStep
<1> QED BY <1>1, <1>2, PTL DEF Spec

-----------------------------------------------------------------------------
(* What is switched off                                                    *)

\* The settings of the entries with a lasting effect; all of them are read.
LEMMA SettingsOfEffects ==
  ASSUME NEW e
  PROVE  /\ \A p \in Resizing : /\ p \in DOMAIN SettingOf(e)
                                /\ SettingOf(e)[p] \in {"MacroResolution", "MicroResolution"}
         /\ "/runMalware" \in DOMAIN SettingOf(e) /\ SettingOf(e)["/runMalware"] = "Malware"
         /\ "/crash" \in DOMAIN SettingOf(e) /\ SettingOf(e)["/crash"] = "Crash"
         /\ NotRead(e) \subseteq {"Tts"}
<1> DEFINE D == Path \ ({"/", "/baseData", "/abort", "/killInteractBox"} \cup
                        (IF e = "98" THEN {} ELSE Only98))
<1>1. SettingOf(e) = [p \in D |-> SettingName(p)]
  BY DEF SettingOf
<1>2. \A p \in Resizing \cup {"/runMalware", "/crash"} : p \in D
  BY DEF Path, MessagePath, FilePath, SystemPath, Only98, Resizing
<1>3. /\ \A p \in Resizing : SettingName(p) \in {"MacroResolution", "MicroResolution"}
      /\ SettingName("/runMalware") = "Malware" /\ SettingName("/crash") = "Crash"
  BY DEF SettingName, Resizing
<1>4. NotRead(e) \subseteq {"Tts"}
  BY DEF NotRead
<1> HIDE DEF D
<1> QED BY <1>1, <1>2, <1>3, <1>4

\* The step at hand has an effect only where the setting of its entry is on.
LEMMA EffectIsOn ==
  ASSUME StepsInv, pc = "steps", todo # <<>>
  PROVE  /\ Head(todo) \in {"resolution", "screens"} =>
              ~({"MacroResolution", "MicroResolution"} \subseteq off)
         /\ Head(todo) \in {"rename", "settings", "dates"} => "Malware" \notin off
         /\ Head(todo) = "crash" => "Crash" \notin off
<1>1. /\ StepFits(Head(todo), request.route)
      /\ Enabled /\ enabled \cap (off \ NotRead(edition)) = {}
  BY TailSteps DEF StepsInv
<1>2. Head(todo) \in {"resolution", "screens"} =>
        \E s \in {"MacroResolution", "MicroResolution"} : s \in enabled
  BY <1>1, SettingsOfEffects DEF StepFits, Enabled
<1>3. Head(todo) \in {"rename", "settings", "dates"} => "Malware" \in enabled
  BY <1>1, SettingsOfEffects DEF StepFits, Enabled
<1>4. Head(todo) = "crash" => "Crash" \in enabled
  BY <1>1, SettingsOfEffects DEF StepFits, Enabled
<1>5. \A s \in enabled \cap off : s = "Tts"
  BY <1>1, SettingsOfEffects
<1> QED BY <1>2, <1>3, <1>4, <1>5

\* The lasting state: the screens, the clock and the crash.
EffectsInv ==
  /\ {"MacroResolution", "MicroResolution"} \subseteq off =>
       \A i \in DOMAIN mode : mode[i] = StartMode
  /\ "Malware" \in off => clock = "today"
  /\ "Crash" \in off => crash = "none"

\* Only two steps of a handler change a screen.
LEMMA ChangesScreens ==
  ASSUME Next, ~ UNCHANGED mode
  PROVE  pc = "steps" /\ todo # <<>> /\ Head(todo) \in {"resolution", "screens"} /\ UNCHANGED off
BY DEF Next, Serve, CycleStep, DisplayStep, DateStep, StartCrash, Fault, CrashStrikes,
       FreshDisplay, displayVars, ChangeResolution, ChangeRefused, QueryScreens, QueryFails,
       QueryFaults, SetScreen, SetScreenFails, ScreensDone, At, GoOn, cycleVars

\* Only one step of a handler changes the date.
LEMMA ChangesClock ==
  ASSUME Next, ~ UNCHANGED clock
  PROVE  pc = "steps" /\ todo # <<>> /\ Head(todo) = "dates" /\ UNCHANGED off
BY DEF Next, Serve, CycleStep, DisplayStep, DateStep, StartCrash, Fault, CrashStrikes,
       FreshDates, dateVars, DrawMalware, ReadDates, SkipEntry, SetClock, EntryFails,
       EntryFaults, DatesDone, InLoop, At, cycleVars

\* Only one step of a handler starts the crash thread.
LEMMA ChangesCrash ==
  ASSUME Next, ~ UNCHANGED crash
  PROVE  /\ UNCHANGED off
         /\ \/ pc = "steps" /\ todo # <<>> /\ Head(todo) = "crash"
            \/ crash = "asleep"
BY DEF Next, Serve, CycleStep, DisplayStep, DateStep, StartCrash, Fault, CrashStrikes,
       At, GoOn, CycleEnds, cycleVars

\* The configuration file is not written.
LEMMA OffStays == ASSUME [Next]_vars PROVE UNCHANGED off
BY CycleShape DEF vars, cycleVars, ReadConfig, Receive, Dispatch, Finish, GoOn, Answers, Hang,
                  CycleEnds

\* Every step keeps EffectsInv, as no step of an entry that is off is taken.
LEMMA EffectsInvStep == StepsInv /\ EffectsInv /\ [Next]_vars => EffectsInv'
<1> SUFFICES ASSUME StepsInv, EffectsInv, [Next]_vars PROVE EffectsInv'
  OBVIOUS
<1>1. UNCHANGED off
  BY OffStays
<1>2. {"MacroResolution", "MicroResolution"} \subseteq off => UNCHANGED mode
  BY ChangesScreens, EffectIsOn DEF vars, displayVars
<1>3. "Malware" \in off => UNCHANGED clock
  BY ChangesClock, EffectIsOn DEF vars, dateVars
<1>4. "Crash" \in off => UNCHANGED crash
  BY ChangesCrash, EffectIsOn DEF vars, EffectsInv
<1> QED BY <1>1, <1>2, <1>3, <1>4 DEF EffectsInv

\* README, "Everything here is optional and can be disabled by the user in the
\* application settings": the screens, the date and the crash of a redeem that
\* is switched off stay as they were, and its handler takes no step.
THEOREM OffIsOff == Spec => []SwitchedOffTouchesNothing
<1>1. Init => StepsInv /\ EffectsInv
  BY StepsInvStart DEF Init, DisplayInit, DatesInit, EffectsInv
<1>2. StepsInv /\ EffectsInv /\ [Next]_vars => (StepsInv /\ EffectsInv)'
  BY StepsInvStep, EffectsInvStep
<1>3. StepsInv /\ EffectsInv => SwitchedOffTouchesNothing
  <2> SUFFICES ASSUME StepsInv, EffectsInv,
                      NEW p \in DOMAIN SettingOf(edition), request.route = p, done # <<>>
               PROVE  SettingOf(edition)[p] \notin off \ NotRead(edition)
    BY DEF SwitchedOffTouchesNothing, EffectsInv
  <2>1. SettingOf(edition)[p] \in enabled /\ enabled \cap (off \ NotRead(edition)) = {}
    BY DEF StepsInv, Enabled
  <2> QED BY <2>1
<1> QED BY <1>1, <1>2, <1>3, PTL DEF Spec

-----------------------------------------------------------------------------
(* The request                                                             *)

\* What recv() has given is a request, an exception or an answer of start().
LEMMA Receives ==
  ASSUME Receive
  PROVE  \E r \in Requests : \E t \in Received(r) :
           /\ sent' = r
           /\ \/ /\ Outcome(t) = "parsed" /\ pc' = "dispatch"
                 /\ request' = Parsed(t) /\ reply' = "none"
              \/ Outcome(t) = "throws" /\ pc' = "ended" /\ reply' = "thrown"
              \/ pc' = "accept" /\ reply' \in {"400", "422"}
<1>1. ASSUME NEW t PROVE Outcome(t) \in {"parsed", "throws", "400", "422"}
  BY DEF Outcome
<1> QED BY <1>1 DEF Receive

\* Every step keeps ParsedAsSent; Receive, by PartParsed.
LEMMA ParsedStep == ParsedAsSent /\ [Next]_vars => ParsedAsSent'
<1> SUFFICES ASSUME ParsedAsSent, [Next]_vars PROVE ParsedAsSent'
  OBVIOUS
<1>1. CASE Receive
  <2>1. PICK r \in Requests : \E t \in Received(r) :
          /\ sent' = r
          /\ \/ pc' = "dispatch" /\ Outcome(t) = "parsed" /\ request' = Parsed(t)
             \/ pc' \in {"ended", "accept"}
    BY <1>1, Receives
  <2>2. pc' \in {"dispatch", "steps"} => Sees(request', sent')
    BY <2>1, PartParsed
  <2> QED BY <2>2 DEF ParsedAsSent, Sees
<1>2. CASE ReadConfig
  BY <1>2 DEF ReadConfig, ParsedAsSent
<1>3. CASE Dispatch \/ Finish \/ Answers
  BY <1>3 DEF Dispatch, Finish, Answers, Respond, ParsedAsSent
<1>4. CASE \/ pc = "steps" /\ todo # <<>> /\ GoOn(Tail(todo))
           \/ At("resolution") /\ GoOn(<<"screens">> \o Tail(todo))
  BY <1>4 DEF GoOn, ParsedAsSent
<1>5. CASE CycleEnds \/ Hang
  BY <1>5 DEF CycleEnds, Hang, ParsedAsSent
<1>6. CASE UNCHANGED cycleVars
  BY <1>6 DEF cycleVars, ParsedAsSent
<1> QED BY <1>1, <1>2, <1>3, <1>4, <1>5, <1>6, CycleShape DEF vars

\* However recv() cuts a request, a handler runs for the method that was sent,
\* for the route that was sent if the pattern accepts it, and for the whole body
\* of a well-formed request, or not at all.
THEOREM HandlersSeeWhatWasSent == Spec => []ParsedAsSent
<1>1. Init => ParsedAsSent
  BY DEF Init, CycleInit, ParsedAsSent
<1> QED BY <1>1, ParsedStep, PTL DEF Spec

\* Every step keeps FlatBodyNeverThrows; Receive, by PartThrows.
LEMMA FlatStep == FlatBodyNeverThrows /\ [Next]_vars => FlatBodyNeverThrows'
<1> SUFFICES ASSUME FlatBodyNeverThrows, [Next]_vars PROVE FlatBodyNeverThrows'
  OBVIOUS
<1>1. CASE Receive
  <2>1. PICK r \in Requests : \E t \in Received(r) :
          sent' = r /\ (reply' = "thrown" => Outcome(t) = "throws")
    BY <1>1, Receives
  <2> QED BY <2>1, PartThrows DEF FlatBodyNeverThrows
<1>2. CASE ReadConfig
  BY <1>2 DEF ReadConfig, FlatBodyNeverThrows
<1>3. CASE Dispatch \/ Finish \/ Answers
  <2>1. UNCHANGED sent /\ (reply' # "thrown" \/ UNCHANGED reply)
    BY <1>3 DEF Dispatch, Finish, Answers, Respond
  <2> QED BY <2>1 DEF FlatBodyNeverThrows
<1>4. CASE \/ pc = "steps" /\ todo # <<>> /\ GoOn(Tail(todo))
           \/ At("resolution") /\ GoOn(<<"screens">> \o Tail(todo))
  BY <1>4 DEF GoOn, FlatBodyNeverThrows
<1>5. CASE CycleEnds \/ Hang
  BY <1>5 DEF CycleEnds, Hang, FlatBodyNeverThrows
<1>6. CASE UNCHANGED cycleVars
  BY <1>6 DEF cycleVars, FlatBodyNeverThrows
<1> QED BY <1>1, <1>2, <1>3, <1>4, <1>5, <1>6, CycleShape DEF vars

\* The exception that start() does not catch needs a closing brace before the
\* end of a well-formed body: a flat one never ends the server.
THEOREM OnlyNestedBodiesThrow == Spec => []FlatBodyNeverThrows
<1>1. Init => FlatBodyNeverThrows
  BY DEF Init, CycleInit, FlatBodyNeverThrows
<1> QED BY <1>1, FlatStep, PTL DEF Spec

-----------------------------------------------------------------------------
(* The screens                                                             *)

\* What ReachesExtreme says of one screen.
Reached(i) ==
  \A m \in ToSet(screens[i]) :
    IF Up THEN edition = "linux" \/ m.depth >= 32 => m.w <= mode[i].w
    ELSE mode[i].w <= m.w

\* A handler of /macro or /micro runs.
Resizes == pc = "steps" /\ request.route \in Resizing

\* The screens are those of the machine, and each of them has a size.
ScreensInv ==
  /\ screens \in Machines /\ DOMAIN mode = DOMAIN screens
  /\ known \subseteq DOMAIN screens /\ left \in Seq(DOMAIN screens)

\* Linux: a screen that xrandr told of is done, or still to be set.
LinuxInv ==
  edition = "linux" /\ Resizes =>
    /\ todo # <<"resolution">> =>
         \A i \in known : Reached(i) \/ \E j \in 1..Len(left) : left[j] = i
    /\ todo = <<>> => left = <<>>

\* Windows: there is one call, after which the primary screen is done.
WindowsInv ==
  edition # "linux" /\ Resizes => todo # <<"screens">> /\ (todo = <<>> => Reached(1))

\* The status is set when a handler is over.
ReplyInv ==
  /\ pc \in {"dispatch", "steps"} => reply = "none"
  /\ reply = "200" => pc \in {"accept", "ended"}
  /\ ReachesExtreme

DisplayInv == ScreensInv /\ LinuxInv /\ WindowsInv /\ ReplyInv

\* There is a primary screen, and every screen lists a mode.
LEMMA ScreensOfMachine ==
  ASSUME ScreensInv
  PROVE  /\ DOMAIN screens = 1..Len(screens) /\ Len(screens) \in Nat /\ 1 \in DOMAIN screens
         /\ \A i \in DOMAIN screens : screens[i] \in Seq(ListedMode) /\ screens[i] # <<>>
<1>1. /\ screens # <<>> /\ screens \in Seq(Seq(ListedMode))
      /\ \A i \in DOMAIN screens : screens[i] # <<>>
  BY MachineAssumption DEF ScreensInv
<1> QED BY <1>1

\* Every step keeps ScreensInv.
LEMMA ScreensInvStep == ScreensInv /\ [Next]_vars => ScreensInv'
<1> SUFFICES ASSUME ScreensInv, [Next]_vars PROVE ScreensInv'
  OBVIOUS
<1>1. UNCHANGED screens
  BY DEF vars, displayVars, Next, Serve, FreshDisplay, DisplayStep, DateStep, CrashStrikes,
         StartCrash, Fault, ChangeResolution, ChangeRefused, QueryScreens, QueryFails,
         QueryFaults, SetScreen, SetScreenFails, ScreensDone
<1>2. DOMAIN mode' = DOMAIN mode
  BY DEF vars, displayVars, Next, Serve, FreshDisplay, DisplayStep, DateStep, CrashStrikes,
         StartCrash, Fault, ChangeResolution, ChangeRefused, QueryScreens, QueryFails,
         QueryFaults, SetScreen, SetScreenFails, ScreensDone
<1>3. CASE UNCHANGED <<known, left>>
  BY <1>1, <1>2, <1>3 DEF ScreensInv
<1>4. CASE known' = {} /\ left' = <<>>
  BY <1>1, <1>2, <1>4 DEF ScreensInv
<1>5. CASE QueryScreens
  <2>1. PICK n \in 0..Len(screens) : known' = 1..n /\ left' = [i \in 1..n |-> i]
    BY <1>5 DEF QueryScreens
  <2>2. n \in Nat /\ 1..n \subseteq DOMAIN screens
    BY ScreensOfMachine
  <2>3. left' \in Seq(DOMAIN screens)
    BY <2>1, <2>2
  <2> QED BY <1>1, <1>2, <2>1, <2>2, <2>3 DEF ScreensInv
<1>6. CASE SetScreen
  <2>1. UNCHANGED known /\ left' = Tail(left) /\ left # <<>>
    BY <1>6 DEF SetScreen
  <2>2. Tail(left) \in Seq(DOMAIN screens)
    BY <2>1, TailSteps DEF ScreensInv
  <2> QED BY <1>1, <1>2, <2>1, <2>2 DEF ScreensInv
<1>7. CASE SetScreenFails
  BY <1>1, <1>2, <1>7 DEF SetScreenFails, ScreensInv
<1> QED BY <1>3, <1>4, <1>5, <1>6, <1>7
        DEF vars, displayVars, Next, Serve, FreshDisplay, DisplayStep, CrashStrikes,
            StartCrash, Fault, ChangeResolution, ChangeRefused, QueryFails, QueryFaults,
            ScreensDone

\* The step before and the step after xrandr has been asked differ.
LEMMA TwoNames ==
  <<"resolution">> # <<"screens">> /\ <<"screens">> # <<>> /\ <<"resolution">> # <<>>
OBVIOUS

\* What a step can be to a handler that is changing the resolution.
LEMMA ResizesShape ==
  ASSUME StepsInv, Next, Resizes'
  PROVE  \/ todo' = <<"resolution">>
         \/ /\ Resizes /\ UNCHANGED <<edition, request>>
            /\ \/ ChangeResolution /\ todo = <<"resolution">> /\ todo' = <<>>
               \/ QueryScreens /\ todo = <<"resolution">> /\ todo' = <<"screens">>
               \/ SetScreen /\ todo = <<"screens">> /\ UNCHANGED todo
               \/ ScreensDone /\ todo = <<"screens">> /\ todo' = <<>>
               \/ UNCHANGED <<todo, displayVars>>
<1>1. pc' = "steps" /\ request'.route \in Resizing
  BY DEF Resizes
<1>2. Resizes /\ todo # <<>> =>
        \/ todo = <<"resolution">> /\ Head(todo) = "resolution" /\ Tail(todo) = <<>>
        \/ todo = <<"screens">> /\ Head(todo) = "screens" /\ Tail(todo) = <<>>
  BY TailOfOne DEF StepsInv, Resizes
<1>3. <<"screens">> \o <<>> = <<"screens">>
  BY TailOfOne
<1>4. CASE Dispatch
  <2>1. todo' = StepsOf(edition, request.route) /\ request.route \in Resizing \cap Path
    BY <1>1, <1>4 DEF Dispatch, Respond, Found
  <2> QED BY <2>1, StepsFit DEF Fits
<1>5. ASSUME pc = "steps", UNCHANGED request PROVE Resizes
  BY <1>1, <1>5 DEF Resizes
<1>6. CASE DisplayStep
  <2>1. CASE ChangeResolution \/ QueryScreens
    BY <1>2, <1>3, <1>5, <2>1 DEF ChangeResolution, QueryScreens, At, GoOn
  <2>2. CASE SetScreen \/ ScreensDone
    BY <1>2, <1>5, <2>2 DEF SetScreen, ScreensDone, At, GoOn, cycleVars
  <2>3. CASE ChangeRefused \/ QueryFails \/ QueryFaults \/ SetScreenFails
    BY <1>1, <2>3
       DEF ChangeRefused, QueryFails, QueryFaults, SetScreenFails, Respond, CycleEnds
  <2> QED BY <1>6, <2>1, <2>2, <2>3 DEF DisplayStep
<1>7. CASE ReadConfig \/ Receive
  BY <1>1, <1>7, Receives DEF ReadConfig
<1>8. CASE TakeStep \/ DrawMalware \/ ReadDates \/ DatesDone \/ StartCrash
  <2>1. /\ pc = "steps" /\ todo # <<>> /\ UNCHANGED request
        /\ Head(todo) \notin {"resolution", "screens"}
    BY <1>8 DEF TakeStep, DrawMalware, ReadDates, DatesDone, StartCrash, At, GoOn, Special
  <2> QED BY <1>2, <1>5, <2>1
<1>9. CASE FailStep \/ Hang \/ Finish \/ EntryFails \/ EntryFaults \/ Fault
  BY <1>1, <1>9 DEF FailStep, Hang, Finish, EntryFails, EntryFaults, Fault, Respond, CycleEnds
<1>10. CASE (SkipEntry \/ SetClock \/ CrashStrikes) /\ UNCHANGED displayVars
  <2>1. UNCHANGED cycleVars
    BY <1>1, <1>10 DEF SkipEntry, SetClock, CrashStrikes, CycleEnds
  <2> QED BY <1>1, <1>5, <1>10, <2>1 DEF cycleVars
<1> QED BY <1>4, <1>6, <1>7, <1>8, <1>9, <1>10
        DEF Next, Serve, CycleStep, DateStep, CrashStrikes, displayVars

\* Every step keeps LinuxInv; SetScreen, by BestOfAll.
LEMMA LinuxInvStep == StepsInv /\ ScreensInv /\ LinuxInv /\ [Next]_vars => LinuxInv'
<1> SUFFICES ASSUME StepsInv, ScreensInv, LinuxInv, [Next]_vars,
                    edition' = "linux", Resizes'
             PROVE  /\ todo' # <<"resolution">> =>
                         \A i \in known' : Reached(i)' \/ \E j \in 1..Len(left') : left'[j] = i
                    /\ todo' = <<>> => left' = <<>>
  BY DEF LinuxInv
<1>1. CASE todo' = <<"resolution">>
  BY <1>1, TwoNames
<1>2. ASSUME Resizes, UNCHANGED <<edition, request>>
      PROVE  /\ edition = "linux"
             /\ todo # <<"resolution">> =>
                  \A i \in known : Reached(i) \/ \E j \in 1..Len(left) : left[j] = i
             /\ todo = <<>> => left = <<>>
  BY <1>2 DEF LinuxInv
<1>3. CASE Resizes /\ UNCHANGED <<edition, request, todo, displayVars>>
  BY <1>2, <1>3 DEF displayVars, Reached, Up
<1>4. CASE Resizes /\ UNCHANGED <<edition, request>> /\ ChangeResolution
  BY <1>2, <1>4 DEF ChangeResolution
<1>5. CASE QueryScreens /\ todo' = <<"screens">>
  <2>1. PICK n \in 0..Len(screens) : known' = 1..n /\ left' = [i \in 1..n |-> i]
    BY <1>5 DEF QueryScreens
  <2>2. n \in Nat
    BY ScreensOfMachine
  <2>3. \A i \in known' : i \in 1..Len(left') /\ left'[i] = i
    BY <2>1, <2>2
  <2> QED BY <1>5, <2>3, TwoNames
<1>6. CASE /\ Resizes /\ UNCHANGED <<edition, request, todo>>
           /\ SetScreen /\ todo = <<"screens">>
  <2>0. PICK h : h = Head(left)
    OBVIOUS
  <2>1. /\ left # <<>> /\ left' = Tail(left) /\ UNCHANGED <<screens, known>>
        /\ mode' = [mode EXCEPT ![h] = Size(Chosen(h))]
    BY <1>6, <2>0 DEF SetScreen
  <2>2. /\ h \in DOMAIN screens /\ h \in DOMAIN mode
        /\ screens[h] \in Seq(ListedMode) /\ screens[h] # <<>>
    BY <2>0, <2>1, TailSteps, ScreensOfMachine DEF ScreensInv
  <2>3. Reached(h)'
    <3>1. mode'[h].w = BestOf(screens[h]).w
      <4>1. mode'[h] = Size(Chosen(h)) /\ Chosen(h) = BestOf(screens[h])
        BY <2>1, <2>2 DEF Chosen, BestOf
      <4> QED BY <4>1 DEF Size
    <3>2. \A m \in ToSet(screens[h]) : AsGood(BestOf(screens[h]), m)
      <4>1. \A m \in ToSet(screens[h]) : \E i \in 1..Len(screens[h]) : m = screens[h][i]
        BY <2>2 DEF ToSet
      <4> QED BY <2>2, <4>1, BestOfAll
    <3> QED BY <1>6, <2>1, <3>1, <3>2 DEF Reached, AsGood, Up
  <2>4. ASSUME NEW i \in known, i # h
        PROVE  Reached(i)' \/ \E j \in 1..Len(left') : left'[j] = i
    <3>1. CASE Reached(i)
      <4>1. mode'[i] = mode[i]
        BY <2>1, <2>4 DEF ScreensInv
      <4> QED BY <1>6, <2>1, <3>1, <4>1 DEF Reached, Up
    <3>2. ASSUME NEW j \in 1..Len(left), left[j] = i
          PROVE  \E k \in 1..Len(left') : left'[k] = i
      <4>0. left \in Seq(DOMAIN screens) /\ left # <<>>
        BY <2>1 DEF ScreensInv
      <4>1. j # 1
        BY <2>0, <2>4, <3>2, <4>0, TailSteps
      <4>2. j - 1 \in 1..Len(Tail(left)) /\ (j - 1) + 1 = j
        BY <4>0, <4>1
      <4>3. Tail(left)[j - 1] = left[j]
        BY <4>0, <4>2, TailSteps
      <4> QED BY <2>1, <3>2, <4>2, <4>3
    <3> QED BY <1>2, <1>6, <2>4, <3>1, <3>2, TwoNames
  <2> QED BY <1>6, <2>1, <2>3, <2>4, TwoNames
<1>7. CASE /\ Resizes /\ UNCHANGED <<edition, request>>
           /\ ScreensDone /\ todo = <<"screens">> /\ todo' = <<>>
  <2>1. left = <<>> /\ UNCHANGED displayVars
    BY <1>7 DEF ScreensDone
  <2>2. \A i \in known : Reached(i)
    <3>1. 1..Len(left) = {}
      BY <2>1
    <3> QED BY <1>2, <1>7, <3>1, TwoNames
  <2> QED BY <1>7, <2>1, <2>2 DEF displayVars, Reached, Up
<1>8. CASE UNCHANGED vars
  BY <1>3, <1>8 DEF vars, cycleVars, displayVars, Resizes
<1> QED BY <1>1, <1>3, <1>4, <1>5, <1>6, <1>7, <1>8, ResizesShape

\* Every step keeps WindowsInv; ChangeResolution, by TargetReaches.
LEMMA WindowsInvStep == StepsInv /\ ScreensInv /\ WindowsInv /\ [Next]_vars => WindowsInv'
<1> SUFFICES ASSUME StepsInv, ScreensInv, WindowsInv, [Next]_vars,
                    edition' # "linux", Resizes'
             PROVE  todo' # <<"screens">> /\ (todo' = <<>> => Reached(1)')
  BY DEF WindowsInv
<1>1. CASE todo' = <<"resolution">>
  BY <1>1, TwoNames
<1>2. CASE Resizes /\ UNCHANGED <<edition, request, todo, displayVars>>
  BY <1>2 DEF WindowsInv, displayVars, Reached, Up
<1>3. CASE /\ Resizes /\ UNCHANGED <<edition, request>>
           /\ QueryScreens \/ todo = <<"screens">>
  BY <1>3 DEF WindowsInv, QueryScreens
<1>4. CASE UNCHANGED <<edition, request>> /\ ChangeResolution /\ todo' = <<>>
  <2>1. mode' = [mode EXCEPT ![1] = Target] /\ UNCHANGED screens
    BY <1>4 DEF ChangeResolution
  <2>2. mode'[1] = Target
    BY <2>1, ScreensOfMachine DEF ScreensInv
  <2>3. PICK s : s = screens[1] /\ s \in Seq(ListedMode) /\ s # <<>>
    BY ScreensOfMachine
  <2>4. \A m \in ToSet(s) :
          IF Up THEN m.depth >= 32 => m.w <= Target.w ELSE Target.w <= m.w
    BY <2>3, TargetReaches
  <2>5. Reached(1)'
    BY <1>4, <2>1, <2>2, <2>3, <2>4 DEF Reached, Up
  <2> QED BY <1>4, <2>5, TwoNames
<1>5. CASE UNCHANGED vars
  BY <1>2, <1>5 DEF vars, cycleVars, displayVars, Resizes
<1> QED BY <1>1, <1>2, <1>3, <1>4, <1>5, ResizesShape

\* Between the handlers the screens do not change.
LEMMA NoHandlerNoChange ==
  ASSUME [Next]_vars, ~Receive, pc \in {"accept", "ended"} \/ todo = <<>>
  PROVE  UNCHANGED displayVars
BY DEF vars, Next, Serve, CycleStep, DisplayStep, DateStep, CrashStrikes, StartCrash, Fault, At,
       ChangeResolution, ChangeRefused, QueryScreens, QueryFails, QueryFaults, SetScreen,
       SetScreenFails, ScreensDone, Hang

\* A request is answered with 200 by Finish, which changes nothing else.
LEMMA Answers200 ==
  ASSUME ReplyInv, [Next]_vars
  PROVE  /\ pc' \in {"dispatch", "steps"} => reply' = "none"
         /\ reply' = "200" =>
              /\ pc' \in {"accept", "ended"}
              /\ UNCHANGED <<edition, request, displayVars>>
              /\ reply = "200" \/ Finish
<1>1. CASE Receive
  BY <1>1, Receives
<1>2. CASE Finish /\ ~Receive
  <2>1. UNCHANGED displayVars
    BY <1>2, NoHandlerNoChange DEF Finish
  <2> QED BY <1>2, <2>1 DEF Finish, Respond
<1>3. CASE ReadConfig
  BY <1>3 DEF ReadConfig, ReplyInv
<1>4. CASE Dispatch
  BY <1>4 DEF Dispatch, Respond, ReplyInv
<1>5. CASE Answers
  BY <1>5 DEF Answers, Respond
<1>6. CASE pc = "steps" /\ UNCHANGED reply
  BY <1>6 DEF ReplyInv
<1>7. CASE (CycleEnds \/ UNCHANGED cycleVars) /\ ~Receive
  <2>1. UNCHANGED <<edition, request, reply>> /\ pc' \in {pc, "ended"}
    BY <1>7 DEF CycleEnds, cycleVars
  <2>2. reply = "200" => UNCHANGED displayVars
    BY <1>7, NoHandlerNoChange DEF ReplyInv
  <2> QED BY <2>1, <2>2 DEF ReplyInv
<1>8. \/ ReadConfig \/ Receive \/ Dispatch \/ Finish \/ Answers \/ CycleEnds
      \/ UNCHANGED cycleVars
      \/ pc = "steps" /\ UNCHANGED reply
  BY CycleShape DEF GoOn, Hang, At, vars
<1> QED BY <1>1, <1>2, <1>3, <1>4, <1>5, <1>6, <1>7, <1>8

\* Every step keeps ReplyInv.
LEMMA ReplyInvStep ==
  StepsInv /\ LinuxInv /\ WindowsInv /\ ReplyInv /\ [Next]_vars => ReplyInv'
<1> SUFFICES ASSUME StepsInv, LinuxInv, WindowsInv, ReplyInv, [Next]_vars
             PROVE  ReachesExtreme'
  BY Answers200 DEF ReplyInv
<1>1. CASE reply' # "200"
  BY <1>1 DEF ReachesExtreme
<1>2. CASE reply = "200" /\ UNCHANGED <<edition, request, displayVars>>
  BY <1>2 DEF ReplyInv, ReachesExtreme, displayVars
<1>3. CASE Finish /\ UNCHANGED <<edition, request, displayVars>>
  <2>1. ASSUME request.route \in Resizing
        PROVE  \A i \in IF edition = "linux" THEN known ELSE {1} : Reached(i)
    <3>1. Resizes /\ todo = <<>>
      BY <1>3, <2>1 DEF Finish, Resizes
    <3>2. edition = "linux" => \A i \in known : Reached(i) \/ \E j \in 1..Len(<<>>) : left[j] = i
      BY <3>1, TwoNames DEF LinuxInv
    <3>3. edition # "linux" => Reached(1)
      BY <3>1 DEF WindowsInv
    <3>4. 1..Len(<<>>) = {}
      OBVIOUS
    <3> QED BY <3>2, <3>3, <3>4
  <2> QED BY <1>3, <2>1 DEF ReachesExtreme, Reached, Resizing, Up, displayVars
<1> QED BY <1>1, <1>2, <1>3, Answers200

\* At the start no screen has been changed, and nothing answered.
LEMMA DisplayInvStart == Init => DisplayInv
<1> SUFFICES ASSUME Init PROVE DisplayInv
  OBVIOUS
<1>1. pc = "config" /\ reply = "none" /\ screens \in Machines
      /\ mode = [i \in DOMAIN screens |-> StartMode] /\ known = {} /\ left = <<>>
  BY DEF Init, CycleInit, DisplayInit
<1>2. ScreensInv
  BY <1>1 DEF ScreensInv
<1> QED BY <1>1, <1>2 DEF DisplayInv, LinuxInv, WindowsInv, ReplyInv, Resizes, ReachesExtreme

\* A request for /macro or /micro that is answered with 200 has left the primary
\* screen (on Linux every screen that xrandr told of) at its extreme width.
THEOREM ResolutionsReached == Spec => []ReachesExtreme
<1>1. Init => StepsInv /\ DisplayInv
  BY StepsInvStart, DisplayInvStart
<1>2. StepsInv /\ DisplayInv /\ [Next]_vars => (StepsInv /\ DisplayInv)'
  BY StepsInvStep, ScreensInvStep, LinuxInvStep, WindowsInvStep, ReplyInvStep DEF DisplayInv
<1>3. StepsInv /\ DisplayInv => ReachesExtreme
  BY DEF DisplayInv, ReplyInv
<1> QED BY <1>1, <1>2, <1>3, PTL DEF Spec

-----------------------------------------------------------------------------
(* Types                                                                   *)

\* The numbers of TypeOK, and the settings.
CountInv ==
  /\ count \in 0..MaxRequests /\ enabled \subseteq Setting
  /\ dates \in Seq(DateEntry) /\ entry \in 1..(Len(dates) + 1)

\* Every step keeps CountInv.
LEMMA CountInvStep == CountInv /\ [Next]_vars => CountInv'
<1> SUFFICES ASSUME CountInv, [Next]_vars PROVE CountInv'
  OBVIOUS
<1>1. count' \in 0..MaxRequests
  <2>1. CASE Receive
    BY <2>1, CountAssumption DEF Receive, CountInv
  <2>2. CASE ~Receive
    <3>1. UNCHANGED count
      BY <2>2, CycleShape
         DEF vars, cycleVars, ReadConfig, Dispatch, Finish, Answers, Hang, GoOn, CycleEnds
    <3> QED BY <3>1 DEF CountInv
  <2> QED BY <2>1, <2>2
<1>2. enabled' \subseteq Setting
  <2>1. CASE ReadConfig
    <3>1. "Tts" \in Setting
      <4>1. "/tts" \in DOMAIN SettingOf("98") /\ SettingOf("98")["/tts"] = "Tts"
        BY DEF SettingOf, SettingName, Path, MessagePath, Only98
      <4> QED BY <4>1 DEF Setting
    <3>2. NotRead(edition) \subseteq Setting
      BY <3>1, SettingsOfEffects
    <3> QED BY <2>1, <3>2 DEF ReadConfig, CountInv
  <2>2. CASE ~ReadConfig
    <3>1. UNCHANGED enabled
      BY <2>2, CycleShape
         DEF vars, cycleVars, Receive, Dispatch, Finish, Answers, Hang, GoOn, CycleEnds
    <3> QED BY <3>1 DEF CountInv
  <2> QED BY <2>1, <2>2
<1>3. dates' \in Seq(DateEntry) /\ entry' \in 1..(Len(dates') + 1)
  <2>1. CASE UNCHANGED <<dates, entry>>
    BY <2>1 DEF CountInv
  <2>2. CASE dates' \in Seq(DateEntry) /\ entry' = 1
    BY <2>2
  <2>3. CASE entry <= Len(dates) /\ entry' = entry + 1 /\ UNCHANGED dates
    BY <2>3 DEF CountInv
  <2>4. <<>> \in Seq(DateEntry)
    OBVIOUS
  <2> QED
    BY <2>1, <2>2, <2>3, <2>4, DateAssumption
    DEF Next, Serve, DateStep, StartCrash, Fault, CrashStrikes, FreshDates, DrawMalware,
        ReadDates, SkipEntry, SetClock, EntryFails, EntryFaults, DatesDone, InLoop, dateVars,
        vars
<1> QED BY <1>1, <1>2, <1>3 DEF CountInv

\* The types of the state of a request, of the screens and of the dates.
THEOREM RedeemTypes == Spec => []TypeOK
<1>1. Init => StepsInv /\ ScreensInv /\ CountInv
  BY StepsInvStart, DisplayInvStart, CountAssumption
     DEF DisplayInv, Init, CycleInit, DatesInit, CountInv
<1>2. StepsInv /\ ScreensInv /\ CountInv /\ [Next]_vars
        => (StepsInv /\ ScreensInv /\ CountInv)'
  BY StepsInvStep, ScreensInvStep, CountInvStep
<1>3. StepsInv /\ ScreensInv /\ CountInv => TypeOK
  BY DEF StepsInv, ScreensInv, CountInv, TypeOK
<1> QED BY <1>1, <1>2, <1>3, PTL DEF Spec
=============================================================================
