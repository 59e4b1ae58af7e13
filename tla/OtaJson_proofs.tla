---------------------------- MODULE OtaJson_proofs ---------------------------
(* What the parser makes of a text, for every text and every length of the  *)
(* array of tokens.                                                         *)
EXTENDS OtaJson, TLAPS, SequenceTheorems, WellFoundedInduction

----------------------------------------------------------------------------
(* Maxima.                                                                  *)

\* A set of numbers that is not empty has a least one.
LEMMA LeastOfSet ==
    ASSUME NEW T \in SUBSET Nat, T # {}
    PROVE  \E d \in T : \A e \in T : d <= e
  <1> DEFINE R == {ss \in Nat \X Nat : ss[1] < ss[2]}
  <1>1. IsWellFoundedOn(R, Nat)
    BY NatLessThanWellFounded, Zenon DEF OpToRel
  <1>2. PICK d \in T : \A e \in T : ~(<<e, d>> \in R)
    <2> HIDE DEF R
    <2> QED
      BY <1>1, WFMin
  <1>3. \A e \in T : d <= e
    <2> SUFFICES ASSUME NEW e \in T PROVE d <= e
      OBVIOUS
    <2>1. e \in Nat /\ d \in Nat /\ (e < d => <<e, d>> \in R)
      OBVIOUS
    <2> HIDE DEF R
    <2> QED
      BY <1>2, <2>1
  <1> QED
    BY <1>3

\* A set of numbers up to n that is not empty has a maximum, and Max is it: its
\* distance from n is the least.
LEMMA MaxOfSet ==
    ASSUME NEW n \in Nat, NEW S \in SUBSET (0 .. n), S # {}
    PROVE  Max(S) \in S /\ \A x \in S : x <= Max(S)
  <1> DEFINE T == {d \in 0 .. n : \E x \in S : d = n - x}
  <1>1. T \in SUBSET Nat /\ T # {}
    <2>1. PICK x \in S : x \in 0 .. n
      OBVIOUS
    <2>2. n - x \in T
      BY <2>1
    <2>3. T \in SUBSET Nat
      OBVIOUS
    <2> HIDE DEF T
    <2> QED
      BY <2>2, <2>3
  <1>2. PICK d \in T : \A e \in T : d <= e
    <2> HIDE DEF T
    <2> QED
      BY <1>1, LeastOfSet
  <1>3. PICK m \in S : d = n - m
    BY <1>2
  <1>4. \A x \in S : m >= x
    <2> SUFFICES ASSUME NEW x \in S PROVE m >= x
      OBVIOUS
    <2>1. x \in 0 .. n /\ m \in 0 .. n
      OBVIOUS
    <2>2. n - x \in T
      BY <2>1
    <2>3. n - m <= n - x
      <3> HIDE DEF T
      <3> QED
        BY <1>2, <1>3, <2>2
    <2> QED
      BY <2>1, <2>3
  <1>5. Max(S) \in S /\ \A x \in S : Max(S) >= x
    BY <1>4 DEF Max
  <1>6. \A x \in S : x \in Int
    OBVIOUS
  <1> QED
    BY <1>5, <1>6

LEMMA InnermostIs ==
    ASSUME NEW n \in Nat, NEW S \in SUBSET (1 .. n)
    PROVE  /\ Innermost(S) \in 0 .. n
           /\ S = {} => Innermost(S) = 0
           /\ S # {} => Innermost(S) \in S /\ \A x \in S : x <= Innermost(S)
  <1>1. CASE S = {}
    BY <1>1 DEF Innermost
  <1>2. CASE S # {}
    <2>1. S \in SUBSET (0 .. n)
      OBVIOUS
    <2>2. Max(S) \in S /\ \A x \in S : x <= Max(S)
      BY <1>2, <2>1, MaxOfSet
    <2>3. Innermost(S) = Max(S)
      BY <1>2 DEF Innermost
    <2>4. Innermost(S) \in S /\ \A x \in S : x <= Innermost(S)
      BY <2>2, <2>3
    <2>5. \A x \in S : x \in 0 .. n
      OBVIOUS
    <2>6. Innermost(S) \in 0 .. n
      BY <2>4, <2>5
    <2> QED
      BY <1>2, <2>4, <2>6
  <1> QED
    BY <1>1, <1>2

----------------------------------------------------------------------------
(* What the parser does to its tokens.                                      *)

TokenType == Container \cup {"STRING", "PRIMITIVE"}

Bounded(q) ==
    /\ q \in Parser
    /\ Len(q.tokens) <= NumTokens
    /\ q.toksuper \in 0 .. Len(q.tokens)

\* Tokens are where they were; only what they count may differ.
SamePlace(a, b) == a.type = b.type /\ a.start = b.start /\ a.end = b.end

SamePlaces(new, old) ==
    Len(new) = Len(old) /\ \A i \in 1 .. Len(old) : SamePlace(new[i], old[i])

OneMore(new, old, type, start, end) ==
    /\ Len(new) = Len(old) + 1
    /\ \A i \in 1 .. Len(old) : SamePlace(new[i], old[i])
    /\ SamePlace(new[Len(old) + 1], [type |-> type, start |-> start, end |-> end])

\* All but the tokens is as it was.
OnlyTokens(new, old) ==
    /\ new.toksuper = old.toksuper /\ new.mode = old.mode /\ new.start = old.start
    /\ new.digits = old.digits /\ new.ret = old.ret

LEMMA FilledIs ==
    ASSUME NEW q, Bounded(q),
           NEW type \in TokenType, NEW start \in Nat, NEW end \in Int
    PROVE  \/ /\ Filled(q, type, start, end) = Error(q, "NOMEM")
              /\ Bounded(Error(q, "NOMEM"))
           \/ /\ Bounded(Filled(q, type, start, end))
              /\ OnlyTokens(Filled(q, type, start, end), q)
              /\ OneMore(Filled(q, type, start, end).tokens, q.tokens, type, start, end)
  <1> DEFINE tok == [type |-> type, start |-> start, end |-> end, size |-> 0]
             counted == IF q.toksuper = 0 THEN q.tokens
                        ELSE [q.tokens EXCEPT ![q.toksuper].size = @ + 1]
             s == [q EXCEPT !.tokens = Append(counted, tok)]
  <1>t. /\ q \in Parser /\ q.tokens \in Seq(Token)
        /\ q.toksuper \in 0 .. Len(q.tokens) /\ Len(q.tokens) \in Nat
    BY DEF Bounded, Parser
  <1>1. CASE Len(q.tokens) >= NumTokens
    <2>1. Filled(q, type, start, end) = Error(q, "NOMEM")
      BY <1>1 DEF Filled
    <2>2. Bounded(Error(q, "NOMEM"))
      BY DEF Error, Bounded, Parser
    <2> QED
      BY <2>1, <2>2
  <1>2. CASE ~(Len(q.tokens) >= NumTokens)
    <2>1. /\ counted \in Seq(Token) /\ Len(counted) = Len(q.tokens)
          /\ \A i \in 1 .. Len(q.tokens) : SamePlace(counted[i], q.tokens[i])
      <3>1. CASE q.toksuper = 0
        BY <1>t, <3>1 DEF SamePlace
      <3>2. CASE q.toksuper # 0
        <4> DEFINE k == q.toksuper
                   old == q.tokens[k]
                   new == [old EXCEPT !.size = @ + 1]
        <4>1. k \in 1 .. Len(q.tokens) /\ old \in Token
          BY <1>t, <3>2
        <4>2. new \in Token /\ SamePlace(new, old)
          BY <4>1 DEF Token, SamePlace
        <4>3. counted = [q.tokens EXCEPT ![k] = new]
          BY <3>2
        <4> HIDE DEF k, new, counted
        <4>4. counted \in Seq(Token) /\ Len(counted) = Len(q.tokens)
          BY <4>1, <4>2, <4>3, <1>t
        <4>5. ASSUME NEW i \in 1 .. Len(q.tokens) PROVE SamePlace(counted[i], q.tokens[i])
          BY <4>1, <4>2, <4>3, <1>t DEF SamePlace
        <4> QED
          BY <4>4, <4>5
      <3> QED
        BY <3>1, <3>2
    <2>2. tok \in Token
      BY DEF Token, TokenType
    <2>3. Filled(q, type, start, end) = s
      BY <1>2 DEF Filled
    <2> HIDE DEF counted
    <2>4. /\ Append(counted, tok) \in Seq(Token)
          /\ Len(Append(counted, tok)) = Len(q.tokens) + 1
          /\ OneMore(Append(counted, tok), q.tokens, type, start, end)
      BY <2>1, <2>2, <1>t DEF OneMore, SamePlace
    <2>5. s.tokens = Append(counted, tok) /\ OnlyTokens(s, q) /\ s \in Parser
      BY <1>t, <2>4 DEF OnlyTokens, Parser
    <2>6. Bounded(s)
      BY <2>4, <2>5, <1>t, <1>2, NumTokensAssumption DEF Bounded, OnlyTokens
    <2> QED
      BY <2>3, <2>4, <2>5, <2>6
  <1> QED
    BY <1>1, <1>2

----------------------------------------------------------------------------
(* Backslashes in a row.                                                    *)

\* The number of them right before position i of t.
Slashes(t, i) == Max({n \in 0 .. i : \A m \in i - n .. i - 1 : t[m + 1] = "backslash"})

LEMMA SlashesAre ==
    ASSUME NEW t, NEW i \in Nat
    PROVE  /\ Slashes(t, i) \in 0 .. i
           /\ \A m \in i - Slashes(t, i) .. i - 1 : t[m + 1] = "backslash"
           /\ \A n \in 0 .. i : (\A m \in i - n .. i - 1 : t[m + 1] = "backslash") => n <= Slashes(t, i)
  <1> DEFINE S == {n \in 0 .. i : \A m \in i - n .. i - 1 : t[m + 1] = "backslash"}
  <1>1. 0 \in S
    OBVIOUS
  <1>2. S \in SUBSET (0 .. i) /\ S # {}
    <2>1. S \in SUBSET (0 .. i)
      OBVIOUS
    <2> HIDE DEF S
    <2> QED
      BY <1>1, <2>1
  <1>3. Max(S) \in S /\ \A n \in S : n <= Max(S)
    <2> HIDE DEF S
    <2> QED
      BY <1>2, MaxOfSet
  <1>4. Slashes(t, i) = Max(S)
    BY DEF Slashes
  <1> DEFINE s == Max(S)
  <1>5. s \in S /\ \A n \in S : n <= s
    BY <1>3
  <1> HIDE DEF s
  <1>6. /\ s \in 0 .. i
        /\ \A m \in i - s .. i - 1 : t[m + 1] = "backslash"
        /\ \A n \in 0 .. i : (\A m \in i - n .. i - 1 : t[m + 1] = "backslash") => n <= s
    BY <1>5
  <1> QED
    BY <1>4, <1>6 DEF s

\* One more after a backslash, none after anything else.
LEMMA NextSlashes ==
    ASSUME NEW t, NEW i \in Nat
    PROVE  /\ t[i + 1] = "backslash" => Slashes(t, i + 1) = Slashes(t, i) + 1
           /\ t[i + 1] # "backslash" => Slashes(t, i + 1) = 0
  <1> DEFINE a == Slashes(t, i)
             b == Slashes(t, i + 1)
  <1>1. /\ a \in 0 .. i
        /\ \A m \in i - a .. i - 1 : t[m + 1] = "backslash"
        /\ \A n \in 0 .. i : (\A m \in i - n .. i - 1 : t[m + 1] = "backslash") => n <= a
    BY SlashesAre
  <1>2. /\ b \in 0 .. i + 1
        /\ \A m \in i + 1 - b .. i : t[m + 1] = "backslash"
        /\ \A n \in 0 .. i + 1 : (\A m \in i + 1 - n .. i : t[m + 1] = "backslash") => n <= b
    <2>1. i + 1 \in Nat /\ i + 1 - 1 = i
      OBVIOUS
    <2> HIDE DEF b
    <2> QED
      BY <2>1, SlashesAre DEF b
  <1> HIDE DEF a, b
  <1>3. ASSUME t[i + 1] = "backslash" PROVE b = a + 1
    <2>1. \A m \in i + 1 - (a + 1) .. i : t[m + 1] = "backslash"
      BY <1>1, <1>3
    <2>2. a + 1 <= b
      BY <1>1, <1>2, <2>1
    <2>3. b - 1 \in 0 .. i /\ \A m \in i - (b - 1) .. i - 1 : t[m + 1] = "backslash"
      BY <1>1, <1>2, <2>2
    <2>4. b - 1 <= a
      BY <1>1, <2>3
    <2> QED
      BY <1>1, <1>2, <2>2, <2>4
  <1>4. ASSUME t[i + 1] # "backslash" PROVE b = 0
    <2>1. b > 0 => i \in i + 1 - b .. i
      BY <1>2
    <2> QED
      BY <1>2, <1>4, <2>1
  <1> QED
    BY <1>3, <1>4 DEF a, b

\* What is read later does not change them.
LEMMA SlashesKept ==
    ASSUME NEW t \in Seq(Char), NEW c \in Char, NEW i \in 0 .. Len(t)
    PROVE  Slashes(Append(t, c), i) = Slashes(t, i)
  <1> DEFINE u == Append(t, c)
  <1>1. \A m \in 0 .. i - 1 : u[m + 1] = t[m + 1]
    OBVIOUS
  <1>2. {n \in 0 .. i : \A m \in i - n .. i - 1 : u[m + 1] = "backslash"}
        = {n \in 0 .. i : \A m \in i - n .. i - 1 : t[m + 1] = "backslash"}
    <2> HIDE DEF u
    <2> QED
      BY <1>1
  <1> QED
    BY <1>2 DEF Slashes

----------------------------------------------------------------------------
(* Tokens of the text t, of which n characters are read.                    *)

Quote(t, k) == t[k + 1] = "quote"

\* What its characters make it.
Marked(a, t) ==
    /\ a.type = "OBJECT" => t[a.start + 1] = "lbrace" /\ (a.end # -1 => t[a.end] = "rbrace")
    /\ a.type = "ARRAY" => t[a.start + 1] = "lbracket" /\ (a.end # -1 => t[a.end] = "rbracket")
    /\ a.type = "STRING" =>
          /\ Quote(t, a.start - 1) /\ Quote(t, a.end) /\ Slashes(t, a.end) % 2 = 0
          /\ \A k \in a.start .. a.end - 1 : Quote(t, k) => Slashes(t, k) % 2 = 1
    /\ a.type = "PRIMITIVE" =>
          /\ \A k \in a.start .. a.end - 1 : t[k + 1] \notin Separator
          /\ a.end < Len(t) => t[a.end + 1] \in Separator

\* It lies before position n; a primitive that ends there is at most at m.
Before(a, n, m) ==
    /\ a.start < n
    /\ a.type \in Container => a.end <= n /\ (a.end = -1 \/ a.start < a.end)
    /\ a.type = "STRING" => 1 <= a.start /\ a.start <= a.end /\ a.end < n
    /\ a.type = "PRIMITIVE" => a.start < a.end /\ a.end < m

\* a comes before b in the array.
Nested(a, b) ==
    /\ a.start < b.start
    /\ a.end = -1 \/ b.start >= a.end \/ (b.end # -1 /\ b.end < a.end)
    /\ a.type \notin Container => a.end < b.start
    /\ Span(a) \cap Span(b) = {}

\* What belongs to no token separates tokens.
Covered(toks, t, n) ==
    \A k \in 0 .. n - 1 :
        (\A i \in 1 .. Len(toks) : k \notin Span(toks[i])) => t[k + 1] \in {"colon", "comma", "space"}

Good(toks, t, n, m) ==
    /\ \A i \in 1 .. Len(toks) : Before(toks[i], n, m) /\ Marked(toks[i], t)
    /\ \A i, j \in 1 .. Len(toks) : i < j => Nested(toks[i], toks[j])
    /\ Covered(toks, t, n)

LEMMA SpanIs ==
    ASSUME NEW a \in Token
    PROVE  /\ a.type = "STRING" => Span(a) = a.start - 1 .. a.end
           /\ a.type = "PRIMITIVE" => Span(a) = a.start .. a.end - 1
           /\ a.type \in Container /\ a.end = -1 => Span(a) = {a.start}
           /\ a.type \in Container /\ a.end # -1 => Span(a) = {a.start, a.end - 1}
  <1>1. a.type \in Container => a.type # "STRING" /\ a.type # "PRIMITIVE"
    BY DEF Container
  <1>2. a.type \in Container => Span(a) = {a.start} \cup (IF a.end = -1 THEN {} ELSE {a.end - 1})
    BY <1>1 DEF Span
  <1>3. a.type = "STRING" => Span(a) = a.start - 1 .. a.end
    BY DEF Span
  <1>4. a.type = "PRIMITIVE" => Span(a) = a.start .. a.end - 1
    BY DEF Span
  <1> QED
    BY <1>2, <1>3, <1>4

\* Only the place of a token counts here.
LEMMA PlaceCounts ==
    ASSUME NEW a, NEW b, SamePlace(a, b)
    PROVE  /\ Span(a) = Span(b)
           /\ \A t : Marked(a, t) <=> Marked(b, t)
           /\ \A n, m : Before(a, n, m) <=> Before(b, n, m)
           /\ \A c : Nested(a, c) <=> Nested(b, c)
           /\ \A c : Nested(c, a) <=> Nested(c, b)
  <1>1. a.type = b.type /\ a.start = b.start /\ a.end = b.end
    BY DEF SamePlace
  <1>2. Span(a) = Span(b)
    BY <1>1 DEF Span
  <1>3. ASSUME NEW t PROVE Marked(a, t) <=> Marked(b, t)
    BY <1>1 DEF Marked
  <1>4. ASSUME NEW n, NEW m PROVE Before(a, n, m) <=> Before(b, n, m)
    BY <1>1 DEF Before
  <1>5. ASSUME NEW c PROVE (Nested(a, c) <=> Nested(b, c)) /\ (Nested(c, a) <=> Nested(c, b))
    BY <1>1, <1>2 DEF Nested
  <1> QED
    BY <1>2, <1>3, <1>4, <1>5

LEMMA SpanBefore ==
    ASSUME NEW a \in Token, NEW n \in Nat, NEW m \in {n, n + 1}, Before(a, n, m)
    PROVE  \A k \in Span(a) : k \in 0 .. n - 1
  <1>1. a.start \in Nat /\ a.end \in Int /\ a.type \in Container \cup {"STRING", "PRIMITIVE"}
    BY DEF Token
  <1>2. CASE a.type = "STRING"
    <2>1. 1 <= a.start /\ a.start <= a.end /\ a.end < n /\ Span(a) = a.start - 1 .. a.end
      BY <1>2, SpanIs DEF Before
    <2> QED
      BY <1>1, <2>1
  <1>3. CASE a.type = "PRIMITIVE"
    <2>1. a.start < a.end /\ a.end < m /\ Span(a) = a.start .. a.end - 1
      BY <1>3, SpanIs DEF Before
    <2> QED
      BY <1>1, <2>1
  <1>4. CASE a.type \in Container
    <2>1. a.start < n /\ a.end <= n /\ (a.end = -1 \/ a.start < a.end)
      BY <1>4 DEF Before
    <2>2. \A k \in Span(a) : k = a.start \/ (a.end # -1 /\ k = a.end - 1)
      BY <1>4, SpanIs
    <2> QED
      BY <1>1, <2>1, <2>2
  <1> QED
    BY <1>1, <1>2, <1>3, <1>4

LEMMA BeforeNext ==
    ASSUME NEW a \in Token, NEW n \in Nat, NEW m \in {n, n + 1}, Before(a, n, m)
    PROVE  Before(a, n + 1, n + 1) /\ Before(a, n, n + 1) /\ a.end <= n
  <1>1. a.start \in Nat /\ a.end \in Int /\ a.type \in Container \cup {"STRING", "PRIMITIVE"}
    BY DEF Token
  <1>2. CASE a.type = "STRING"
    BY <1>1, <1>2 DEF Before, Container
  <1>3. CASE a.type = "PRIMITIVE"
    BY <1>1, <1>3 DEF Before, Container
  <1>4. CASE a.type \in Container
    BY <1>1, <1>4 DEF Before, Container
  <1> QED
    BY <1>1, <1>2, <1>3, <1>4

\* The next character of the text changes nothing in what was read before.
LEMMA GoodStays ==
    ASSUME NEW t \in Seq(Char), NEW c \in Char, NEW toks \in Seq(Token),
           NEW n \in 0 .. Len(t), Good(toks, t, n, n)
    PROVE  Good(toks, Append(t, c), n, n)
  <1> DEFINE u == Append(t, c)
  <1>1. /\ \A k \in 1 .. Len(t) : u[k] = t[k]
        /\ Len(u) = Len(t) + 1
        /\ \A k \in 0 .. Len(t) : Slashes(u, k) = Slashes(t, k)
    BY SlashesKept
  <1> HIDE DEF u
  <1>2. ASSUME NEW i \in 1 .. Len(toks) PROVE Marked(toks[i], u)
    <2> DEFINE a == toks[i]
    <2>1. Before(a, n, n) /\ Marked(a, t) /\ a \in Token
      BY DEF Good
    <2>2. a.start \in Nat /\ a.end \in Int /\ a.type \in Container \cup {"STRING", "PRIMITIVE"}
      BY <2>1 DEF Token
    <2> SUFFICES Marked(a, u)
      OBVIOUS
    <2> HIDE DEF a
    <2>3. CASE a.type \in Container
      <3>1. a.start + 1 \in 1 .. Len(t) /\ (a.end # -1 => a.end \in 1 .. Len(t))
        BY <2>1, <2>2, <2>3 DEF Before
      <3>2. u[a.start + 1] = t[a.start + 1] /\ (a.end # -1 => u[a.end] = t[a.end])
        BY <1>1, <3>1
      <3> QED
        BY <2>1, <2>3, <3>2 DEF Marked, Container
    <2>4. CASE a.type = "STRING"
      <3>1. 1 <= a.start /\ a.start <= a.end /\ a.end < n
        BY <2>1, <2>4 DEF Before
      <3>2. \A k \in a.start - 1 .. a.end : Quote(u, k) <=> Quote(t, k)
        BY <1>1, <2>2, <3>1 DEF Quote
      <3>3. \A k \in a.start - 1 .. a.end : Slashes(u, k) = Slashes(t, k)
        BY <1>1, <2>2, <3>1
      <3>4. /\ Quote(t, a.start - 1) /\ Quote(t, a.end) /\ Slashes(t, a.end) % 2 = 0
            /\ \A k \in a.start .. a.end - 1 : Quote(t, k) => Slashes(t, k) % 2 = 1
        BY <2>1, <2>4 DEF Marked
      <3>5. a.start - 1 \in a.start - 1 .. a.end /\ a.end \in a.start - 1 .. a.end
        BY <2>2, <3>1
      <3>6. Quote(u, a.start - 1) /\ Quote(u, a.end) /\ Slashes(u, a.end) % 2 = 0
        BY <3>2, <3>3, <3>4, <3>5
      <3>7. ASSUME NEW k \in a.start .. a.end - 1, Quote(u, k) PROVE Slashes(u, k) % 2 = 1
        <4>1. k \in a.start - 1 .. a.end
          BY <2>2
        <4> QED
          BY <3>2, <3>3, <3>4, <3>7, <4>1
      <3> QED
        BY <2>4, <3>6, <3>7 DEF Marked
    <2>5. CASE a.type = "PRIMITIVE"
      <3>1. a.start < a.end /\ a.end < n
        BY <2>1, <2>5 DEF Before
      <3>2. /\ \A k \in a.start .. a.end - 1 : t[k + 1] \notin Separator
            /\ t[a.end + 1] \in Separator
        BY <2>1, <2>2, <2>5, <3>1 DEF Marked
      <3>3. \A k \in a.start .. a.end : u[k + 1] = t[k + 1]
        BY <1>1, <2>2, <3>1
      <3>4. u[a.end + 1] \in Separator
        <4>1. a.end \in a.start .. a.end
          BY <2>2, <3>1
        <4> QED
          BY <3>2, <3>3, <4>1
      <3>5. ASSUME NEW k \in a.start .. a.end - 1 PROVE u[k + 1] \notin Separator
        <4>1. k \in a.start .. a.end
          BY <2>2
        <4>2. u[k + 1] = t[k + 1]
          BY <3>3, <4>1
        <4>3. t[k + 1] \notin Separator
          BY <3>2
        <4> QED
          BY <4>2, <4>3
      <3> QED
        BY <2>5, <3>4, <3>5 DEF Marked
    <2> QED
      BY <2>2, <2>3, <2>4, <2>5
  <1>3. Covered(toks, u, n)
    <2>1. \A k \in 0 .. n - 1 : u[k + 1] = t[k + 1]
      BY <1>1
    <2> QED
      BY <2>1 DEF Good, Covered
  <1> QED
    BY <1>2, <1>3 DEF Good, u

\* A token z is added that begins at from, where the others end, and lies before n.
LEMMA GoodGrows ==
    ASSUME NEW t, NEW old \in Seq(Token), NEW new \in Seq(Token),
           NEW z \in Token, NEW from \in Nat, NEW n \in Nat, NEW m \in {n, n + 1}, from <= n,
           Good(old, t, from, from),
           OneMore(new, old, z.type, z.start, z.end),
           Before(z, n, m), Marked(z, t), from <= z.start,
           \A k \in from .. n - 1 : k \in Span(z),
           \A k \in Span(z) : k >= from
    PROVE  Good(new, t, n, m)
  <1> DEFINE l == Len(old)
  <1>t. l \in Nat /\ Len(new) = l + 1 /\ \A i \in 1 .. l : old[i] \in Token /\ new[i] \in Token
    BY DEF OneMore
  <1>z. SamePlace(new[l + 1], z) /\ z.start >= from
    BY DEF OneMore, SamePlace
  <1>s. \A i \in 1 .. l : SamePlace(new[i], old[i])
    BY DEF OneMore
  <1> HIDE DEF l
  <1>1. ASSUME NEW i \in 1 .. l
        PROVE  Before(new[i], n, m) /\ Marked(new[i], t) /\ Nested(new[i], new[l + 1])
    <2> DEFINE a == old[i]
    <2>1. a \in Token /\ Before(a, from, from) /\ Marked(a, t)
      BY <1>t DEF Good, l
    <2>2. a.start \in Nat /\ a.end \in Int /\ a.type \in Container \cup {"STRING", "PRIMITIVE"}
      BY <2>1 DEF Token
    <2>s. SamePlace(new[i], a)
      BY <1>s
    <2> HIDE DEF a
    <2>3. Before(a, n, m)
      BY <2>1, <2>2 DEF Before
    <2>4. \A k \in Span(a) : k \in 0 .. from - 1
      BY <2>1, SpanBefore
    <2>t. z.start \in Nat /\ z.start >= from /\ a.start < from
      BY <2>1, <1>z DEF Before, Token
    <2>n. ASSUME a.type \notin Container PROVE a.end < from
      BY <2>1, <2>2, <2>n DEF Before
    <2>c. ASSUME a.type \in Container PROVE a.end <= from
      BY <2>1, <2>2, <2>c DEF Before
    <2>5. Nested(a, z)
      <3>1. Span(a) \cap Span(z) = {}
        BY <2>4
      <3>2. a.start < z.start
        BY <2>2, <2>t
      <3>3. z.start >= a.end
        BY <2>2, <2>t, <2>n, <2>c
      <3>4. a.type \notin Container => a.end < z.start
        BY <2>2, <2>t, <2>n
      <3> QED
        BY <3>1, <3>2, <3>3, <3>4 DEF Nested
    <2>6. Before(new[i], n, m) /\ Marked(new[i], t) /\ Nested(new[i], z)
      BY <2>s, <2>1, <2>3, <2>5, PlaceCounts
    <2> QED
      BY <2>6, <1>z, PlaceCounts
  <1>2. Before(new[l + 1], n, m) /\ Marked(new[l + 1], t)
    BY <1>z, PlaceCounts
  <1>3. ASSUME NEW i \in 1 .. l, NEW j \in 1 .. l, i < j PROVE Nested(new[i], new[j])
    <2>1. Nested(old[i], old[j])
      BY <1>3 DEF Good, l
    <2>2. Nested(new[i], old[j])
      BY <2>1, <1>s, PlaceCounts
    <2> QED
      BY <2>2, <1>s, PlaceCounts
  <1>4. Covered(new, t, n)
    <2> SUFFICES ASSUME NEW k \in 0 .. n - 1,
                        \A i \in 1 .. Len(new) : k \notin Span(new[i])
                 PROVE  t[k + 1] \in {"colon", "comma", "space"}
      BY DEF Covered
    <2>1. k \notin Span(new[l + 1])
      BY <1>t
    <2>2. k \notin Span(z)
      BY <2>1, <1>z, PlaceCounts
    <2>3. k \in 0 .. from - 1
      BY <2>2
    <2>4. \A i \in 1 .. l : k \notin Span(old[i])
      <3> SUFFICES ASSUME NEW i \in 1 .. l PROVE k \notin Span(old[i])
        OBVIOUS
      <3>1. k \notin Span(new[i])
        BY <1>t
      <3> QED
        BY <3>1, <1>s, PlaceCounts
    <2> QED
      BY <2>3, <2>4 DEF Good, Covered, l
  <1>5. \A i \in 1 .. Len(new) : i \in 1 .. l \/ i = l + 1
    BY <1>t
  <1>6. \A i \in 1 .. Len(new) : Before(new[i], n, m) /\ Marked(new[i], t)
    BY <1>1, <1>2, <1>5
  <1>7. ASSUME NEW i \in 1 .. Len(new), NEW j \in 1 .. Len(new), i < j
        PROVE  Nested(new[i], new[j])
    <2>1. i \in 1 .. l /\ (j \in 1 .. l \/ j = l + 1)
      BY <1>t, <1>7
    <2> QED
      BY <2>1, <1>1, <1>3, <1>7
  <1> QED
    BY <1>4, <1>6, <1>7 DEF Good

\* The container i, the last that is open, is closed by the bracket at n.
LEMMA GoodCloses ==
    ASSUME NEW t \in Seq(Char), NEW old \in Seq(Token), NEW new \in Seq(Token), NEW n \in Nat,
           Good(old, t, n, n + 1),
           NEW i \in 1 .. Len(old), old[i].type \in Container, old[i].end = -1,
           \A j \in 1 .. Len(old) : j > i => old[j].end # -1,
           Len(new) = Len(old),
           \A j \in 1 .. Len(old) : j # i => SamePlace(new[j], old[j]),
           SamePlace(new[i], [type |-> old[i].type, start |-> old[i].start, end |-> n + 1]),
           t[n + 1] = IF old[i].type = "OBJECT" THEN "rbrace" ELSE "rbracket"
    PROVE  Good(new, t, n + 1, n + 1)
  <1> DEFINE a == old[i]
             b == new[i]
             l == Len(old)
  <1>a. a \in Token /\ a.type \in Container /\ a.end = -1 /\ Before(a, n, n + 1) /\ Marked(a, t)
    BY DEF Good
  <1>b. b \in Token /\ b.type = a.type /\ b.start = a.start /\ b.end = n + 1
    BY DEF SamePlace
  <1>t. a.start \in Nat /\ a.start < n /\ l \in Nat
    BY <1>a DEF Token, Before
  <1>c. t[n + 1] = IF a.type = "OBJECT" THEN "rbrace" ELSE "rbracket"
    OBVIOUS
  <1>j. \A j \in 1 .. l : /\ old[j] \in Token /\ Before(old[j], n, n + 1) /\ Marked(old[j], t)
                          /\ \A k \in Span(old[j]) : k \in 0 .. n - 1
    BY SpanBefore DEF Good
  <1>l. \A j \in 1 .. l : j > i => old[j].end # -1
    OBVIOUS
  <1>p. \A j \in 1 .. l : j # i => SamePlace(new[j], old[j])
    OBVIOUS
  <1>n. \A j, k \in 1 .. l : j < k => Nested(old[j], old[k])
    BY DEF Good
  <1>d. i \in 1 .. l /\ new[i] = b /\ old[i] = a /\ Len(new) = l
    OBVIOUS
  <1> HIDE DEF a, b, l
  <1>1. Before(b, n + 1, n + 1)
    BY <1>a, <1>b, <1>t DEF Before, Container
  <1>2. Marked(b, t)
    <2>1. CASE a.type = "OBJECT"
      BY <2>1, <1>a, <1>b, <1>c, <1>t DEF Marked
    <2>2. CASE a.type = "ARRAY"
      BY <2>2, <1>a, <1>b, <1>c, <1>t DEF Marked
    <2> QED
      BY <1>a, <2>1, <2>2 DEF Container
  <1>s. Span(a) = {a.start} /\ Span(b) = {a.start, n}
    <2>1. b.end # -1 /\ b.end - 1 = n
      BY <1>b
    <2> QED
      BY <1>a, <1>b, <2>1, SpanIs
  <1>3. ASSUME NEW j \in 1 .. l, j # i PROVE Before(new[j], n + 1, n + 1) /\ Marked(new[j], t)
    <2> DEFINE e == old[j]
    <2>1. e \in Token /\ Before(e, n, n + 1) /\ Marked(e, t) /\ SamePlace(new[j], e)
      BY <1>3, <1>j, <1>p
    <2> HIDE DEF e
    <2>2. Before(e, n + 1, n + 1)
      BY <2>1, BeforeNext
    <2> QED
      BY <2>1, <2>2, PlaceCounts
  <1>4. ASSUME NEW j \in 1 .. l, NEW k \in 1 .. l, j < k PROVE Nested(new[j], new[k])
    <2> DEFINE x == old[j]
               y == old[k]
    <2>1. x \in Token /\ y \in Token /\ Nested(x, y)
      BY <1>4, <1>j, <1>n
    <2>2. CASE j = i
      <3>1. y.end # -1 /\ Before(y, n, n + 1) /\ SamePlace(new[k], y) /\ x = a
        BY <1>4, <2>2, <1>j, <1>l, <1>p, <1>d
      <3>2. \A h \in Span(y) : h \in 0 .. n - 1
        BY <1>j
      <3> HIDE DEF x, y
      <3>3. y.end < n + 1
        <4>1. y.end <= n /\ y.end \in Int
          BY <3>1, <2>1, BeforeNext DEF Token
        <4> QED
          BY <4>1
      <3>4. Span(b) \cap Span(y) = {}
        BY <3>1, <3>2, <2>1, <1>s DEF Nested
      <3>5. Nested(b, y)
        BY <2>1, <3>1, <3>3, <3>4, <1>a, <1>b DEF Nested
      <3> QED
        BY <2>2, <3>1, <3>5, <1>d, PlaceCounts
    <2>3. CASE k = i
      <3>1. SamePlace(new[j], x) /\ y = a
        BY <1>4, <2>3, <1>p, <1>d
      <3>2. \A h \in Span(x) : h \in 0 .. n - 1
        BY <1>j
      <3> HIDE DEF x, y
      <3>3. x.end = -1 \/ b.start >= x.end
        BY <2>1, <3>1, <1>a, <1>b DEF Nested
      <3>4. Span(x) \cap Span(b) = {}
        BY <3>1, <3>2, <2>1, <1>s DEF Nested
      <3>5. Nested(x, b)
        BY <2>1, <3>1, <3>3, <3>4, <1>b DEF Nested
      <3> QED
        BY <2>3, <3>1, <3>5, <1>d, PlaceCounts
    <2>4. CASE j # i /\ k # i
      <3>1. SamePlace(new[j], x) /\ SamePlace(new[k], y)
        BY <2>4, <1>p
      <3> HIDE DEF x, y
      <3>2. Nested(new[j], y)
        BY <2>1, <3>1, PlaceCounts
      <3> QED
        BY <3>1, <3>2, PlaceCounts
    <2> QED
      BY <2>2, <2>3, <2>4
  <1>5. Covered(new, t, n + 1)
    <2> SUFFICES ASSUME NEW k \in 0 .. n + 1 - 1, \A j \in 1 .. Len(new) : k \notin Span(new[j])
                 PROVE  t[k + 1] \in {"colon", "comma", "space"}
      BY DEF Covered
    <2>k. k \in 0 .. n
      OBVIOUS
    <2>1. k \notin Span(b)
      BY <1>d
    <2>2. k \in 0 .. n - 1 /\ k \notin Span(a)
      BY <2>k, <2>1, <1>s
    <2>3. ASSUME NEW j \in 1 .. l PROVE k \notin Span(old[j])
      <3>1. CASE j = i
        BY <2>2, <3>1, <1>d
      <3>2. CASE j # i
        BY <3>2, <1>d, <1>p, PlaceCounts
      <3> QED
        BY <3>1, <3>2
    <2> QED
      BY <2>2, <2>3 DEF Good, Covered, l
  <1> QED
    BY <1>1, <1>2, <1>3, <1>4, <1>5, <1>d DEF Good

\* A character that separates tokens is passed.
LEMMA GoodSkips ==
    ASSUME NEW t \in Seq(Char), NEW toks \in Seq(Token), NEW n \in Nat, Good(toks, t, n, n + 1),
           t[n + 1] \in {"colon", "comma", "space"}
    PROVE  Good(toks, t, n + 1, n + 1)
  <1>1. ASSUME NEW i \in 1 .. Len(toks)
        PROVE  Before(toks[i], n + 1, n + 1) /\ Marked(toks[i], t)
    <2> DEFINE a == toks[i]
    <2>1. a \in Token /\ Before(a, n, n + 1) /\ Marked(a, t)
      BY DEF Good
    <2> HIDE DEF a
    <2>2. Before(a, n + 1, n + 1)
      BY <2>1, BeforeNext
    <2> QED
      BY <2>1, <2>2 DEF a
  <1>2. Covered(toks, t, n + 1)
    <2>1. \A k \in 0 .. n : k \in 0 .. n - 1 \/ k = n
      OBVIOUS
    <2> QED
      BY <2>1 DEF Good, Covered
  <1> QED
    BY <1>1, <1>2 DEF Good

\* A weaker bound on the primitives.
LEMMA GoodWeakens ==
    ASSUME NEW t \in Seq(Char), NEW toks \in Seq(Token), NEW n \in Nat, Good(toks, t, n, n)
    PROVE  Good(toks, t, n, n + 1)
  <1>1. ASSUME NEW i \in 1 .. Len(toks) PROVE Before(toks[i], n, n + 1)
    <2> DEFINE a == toks[i]
    <2>1. a \in Token /\ Before(a, n, n)
      BY DEF Good
    <2> HIDE DEF a
    <2>2. Before(a, n, n + 1)
      BY <2>1, BeforeNext
    <2> QED
      BY <2>2 DEF a
  <1> QED
    BY <1>1 DEF Good

----------------------------------------------------------------------------
(* The parser between two characters: q has read n characters of t.         *)

\* Whenever a token is open what comes next is counted by some token.
Owned(q) == q.toksuper = 0 => \A i \in 1 .. Len(q.tokens) : q.tokens[i].end # -1

\* Since the quote that begins the string no other but escaped ones were read, and
\* the number of backslashes just read tells whether the next one would be.
InString(q, t, n) ==
    /\ q.start < n /\ Good(q.tokens, t, q.start, q.start)
    /\ Quote(t, q.start)
    /\ \A k \in q.start + 1 .. n - 1 : Quote(t, k) => Slashes(t, k) % 2 = 1
    /\ Slashes(t, n) % 2 = IF q.mode = "escape" THEN 1 ELSE 0

InPrimitive(q, t, n) ==
    /\ q.start < n /\ Good(q.tokens, t, q.start, q.start)
    /\ \A k \in q.start .. n - 1 : t[k + 1] \notin Separator

Reading(q, t, n) ==
    /\ Owned(q)
    /\ \/ q.mode = "top" /\ Good(q.tokens, t, n, n)
       \/ q.mode \in {"string", "escape", "hex"} /\ InString(q, t, n)
       \/ q.mode = "primitive" /\ InPrimitive(q, t, n)

\* What a step of the parser must come to.
Reads(s, t, n) == Bounded(s) /\ s.ret # "OK" /\ (s.ret = "RUN" => Reading(s, t, n))

LEMMA ErrorReads ==
    ASSUME NEW q, Bounded(q), NEW ret \in {"NOMEM", "INVAL", "PART"}, NEW t, NEW n
    PROVE  Reads(Error(q, ret), t, n) /\ Error(q, ret).ret = ret
  <1>1. q \in Parser
    BY DEF Bounded
  <1>2. Error(q, ret) \in Parser /\ Error(q, ret).ret = ret
    BY <1>1 DEF Error, Parser
  <1>3. Error(q, ret).tokens = q.tokens /\ Error(q, ret).toksuper = q.toksuper
    BY <1>1 DEF Error, Parser
  <1> QED
    BY <1>2, <1>3 DEF Reads, Bounded

LEMMA ParserChanges ==
    ASSUME NEW q \in Parser
    PROVE  /\ \A u \in Nat : LET s == [q EXCEPT !.toksuper = u]
                            IN  /\ s \in Parser /\ s.toksuper = u
                                /\ s.tokens = q.tokens /\ s.mode = q.mode /\ s.start = q.start
                                /\ s.digits = q.digits /\ s.ret = q.ret
           /\ \A new \in Seq(Token) :
                 LET s == [q EXCEPT !.tokens = new]
                 IN  /\ s \in Parser /\ s.tokens = new
                     /\ s.toksuper = q.toksuper /\ s.mode = q.mode /\ s.start = q.start
                     /\ s.digits = q.digits /\ s.ret = q.ret
  BY DEF Parser

\* A bracket opens a container.
LEMMA OpenedReads ==
    ASSUME NEW t \in Seq(Char), NEW n \in Nat, NEW q, Bounded(q),
           q.ret = "RUN", q.mode = "top", Good(q.tokens, t, n, n),
           NEW type \in Container,
           t[n + 1] = IF type = "OBJECT" THEN "lbrace" ELSE "lbracket"
    PROVE  Reads(Opened(q, type, n), t, n + 1)
  <1> DEFINE f == Filled(q, type, n, -1)
             s == [f EXCEPT !.toksuper = Len(f.tokens)]
             z == [type |-> type, start |-> n, end |-> -1, size |-> 0]
  <1>t. q \in Parser /\ q.tokens \in Seq(Token) /\ type \in TokenType
    BY DEF Bounded, Parser, TokenType
  <1>1. \/ f = Error(q, "NOMEM") /\ Bounded(Error(q, "NOMEM"))
        \/ Bounded(f) /\ OnlyTokens(f, q) /\ OneMore(f.tokens, q.tokens, type, n, -1)
    BY <1>t, FilledIs
  <1>z. /\ z \in Token /\ SamePlace(z, [type |-> type, start |-> n, end |-> -1])
        /\ z.type = type /\ z.start = n /\ z.end = -1
    BY <1>t DEF Token, TokenType, SamePlace
  <1>s. Span(z) = {n}
    BY <1>z, SpanIs
  <1> HIDE DEF z
  <1>2. Before(z, n + 1, n + 1)
    BY <1>z DEF Before, Container
  <1>3. Marked(z, t)
    <2>1. CASE type = "OBJECT"
      BY <1>z, <2>1 DEF Marked
    <2>2. CASE type = "ARRAY"
      BY <1>z, <2>2 DEF Marked
    <2> QED
      BY <2>1, <2>2 DEF Container
  <1>4. CASE f = Error(q, "NOMEM")
    <2>1. Opened(q, type, n) = Error(q, "NOMEM")
      BY <1>4, ErrorReads DEF Opened
    <2> QED
      BY <2>1, ErrorReads
  <1>5. CASE Bounded(f) /\ OnlyTokens(f, q) /\ OneMore(f.tokens, q.tokens, type, n, -1)
    <2>1. Opened(q, type, n) = s
      BY <1>5 DEF Opened, OnlyTokens
    <2>2. f \in Parser /\ f.tokens \in Seq(Token) /\ Len(f.tokens) <= NumTokens
      BY <1>5 DEF Bounded, Parser
    <2>3. f.ret = "RUN" /\ f.mode = "top" /\ Len(f.tokens) = Len(q.tokens) + 1
      BY <1>5 DEF OnlyTokens, OneMore
    <2> HIDE DEF f
    <2>4. /\ s.tokens = f.tokens /\ s.toksuper = Len(f.tokens)
          /\ s.ret = "RUN" /\ s.mode = "top" /\ s \in Parser
      <3>1. Len(f.tokens) \in Nat
        BY <2>2
      <3> QED
        BY <2>2, <2>3, <3>1, ParserChanges
    <2> HIDE DEF s
    <2>5. Good(s.tokens, t, n + 1, n + 1)
      <3>1. \A k \in n .. n + 1 - 1 : k \in Span(z)
        BY <1>s
      <3>2. \A k \in Span(z) : k >= n
        BY <1>s
      <3>3. OneMore(f.tokens, q.tokens, z.type, z.start, z.end) /\ n <= z.start
        BY <1>5, <1>z DEF f
      <3> QED
        BY <2>2, <2>4, <3>1, <3>2, <3>3, <1>t, <1>z, <1>2, <1>3, GoodGrows
    <2>6. Bounded(s) /\ s.toksuper # 0
      BY <2>2, <2>3, <2>4, <1>t DEF Bounded
    <2> QED
      BY <2>1, <2>4, <2>5, <2>6 DEF Reads, Reading, Owned
  <1> QED
    BY <1>1, <1>4, <1>5

\* A bracket closes the last container that is open.
LEMMA ClosedReads ==
    ASSUME NEW t \in Seq(Char), NEW n \in Nat, NEW q, Bounded(q),
           q.ret = "RUN", q.mode = "top", Good(q.tokens, t, n, n + 1),
           NEW type \in Container,
           t[n + 1] = IF type = "OBJECT" THEN "rbrace" ELSE "rbracket"
    PROVE  Reads(Closed(q, type, n), t, n + 1)
  <1> DEFINE open == OpenTokens(q)
             i == Innermost(open)
             s == [q EXCEPT !.tokens[i].end = n + 1, !.toksuper = Innermost(open \ {i})]
  <1>t. q \in Parser /\ q.tokens \in Seq(Token) /\ Len(q.tokens) \in Nat
    BY DEF Bounded, Parser
  <1>1. CASE open = {} \/ q.tokens[i].type # type
    <2>1. Closed(q, type, n) = Error(q, "INVAL")
      BY <1>1 DEF Closed
    <2> QED
      BY <2>1, ErrorReads
  <1>2. CASE open # {} /\ q.tokens[i].type = type
    <2> DEFINE l == Len(q.tokens)
               u == Innermost(open \ {i})
               new == [q.tokens EXCEPT ![i] = [@ EXCEPT !.end = n + 1]]
    <2>o. open \in SUBSET (1 .. l) /\ \A j \in 1 .. l : j \in open <=> q.tokens[j].end = -1
      BY <1>t DEF OpenTokens
    <2>1. Closed(q, type, n) = s
      BY <1>2 DEF Closed
    <2> HIDE DEF open
    <2>2. i \in open /\ \A j \in open : j <= i
      BY <1>2, <2>o, <1>t, InnermostIs
    <2>3. u \in 0 .. l /\ (u = 0 => open \ {i} = {})
      <3>1. open \ {i} \in SUBSET (1 .. l)
        BY <2>o
      <3> HIDE DEF i
      <3>2. u \in 0 .. l /\ (open \ {i} # {} => u \in open \ {i})
        BY <3>1, <1>t, InnermostIs
      <3> QED
        BY <3>1, <3>2
    <2>4. s = [q EXCEPT !.tokens = new, !.toksuper = u]
      OBVIOUS
    <2> HIDE DEF i, u
    <2>5. i \in 1 .. l /\ q.tokens[i].end = -1 /\ \A j \in 1 .. l : j > i => q.tokens[j].end # -1
      BY <2>o, <2>2
    <2>6. q.tokens[i] \in Token
      BY <2>5, <1>t
    <2>7. /\ new \in Seq(Token) /\ Len(new) = l
          /\ \A j \in 1 .. l : j # i => new[j] = q.tokens[j]
          /\ new[i] = [q.tokens[i] EXCEPT !.end = n + 1]
      <3>1. [q.tokens[i] EXCEPT !.end = n + 1] \in Token
        BY <2>6 DEF Token
      <3> QED
        BY <3>1, <2>5, <1>t
    <2>8. SamePlace(new[i], [type |-> type, start |-> q.tokens[i].start, end |-> n + 1])
      <3> DEFINE x == q.tokens[i]
      <3>1. /\ [x EXCEPT !.end = n + 1].type = x.type /\ [x EXCEPT !.end = n + 1].start = x.start
            /\ [x EXCEPT !.end = n + 1].end = n + 1
        BY <2>6 DEF Token
      <3>2. new[i] = [x EXCEPT !.end = n + 1] /\ x.type = type
        BY <1>2, <2>7
      <3> HIDE DEF x, new
      <3> QED
        BY <3>1, <3>2 DEF SamePlace, x
    <2> HIDE DEF new
    <2>9. /\ s.tokens = new /\ s.toksuper = u
          /\ s.ret = "RUN" /\ s.mode = "top" /\ s \in Parser
      <3> DEFINE q1 == [q EXCEPT !.tokens = new]
      <3>1. s = [q1 EXCEPT !.toksuper = u]
        BY <1>t, <2>4 DEF Parser
      <3>2. q1 \in Parser /\ q1.tokens = new /\ q1.mode = "top" /\ q1.ret = "RUN"
        BY <1>t, <2>7, ParserChanges
      <3> HIDE DEF q1, s
      <3>3. u \in Nat
        BY <2>3
      <3> QED
        BY <3>1, <3>2, <3>3, ParserChanges
    <2> HIDE DEF s
    <2>10. Good(new, t, n + 1, n + 1)
      <3>1. \A j \in 1 .. l : j # i => SamePlace(new[j], q.tokens[j])
        BY <2>7 DEF SamePlace
      <3>2. q.tokens[i].type = type
        BY <1>2
      <3> QED
        BY <1>t, <2>5, <2>7, <2>8, <3>1, <3>2, GoodCloses
    <2>11. Owned(s)
      <3>1. ASSUME u = 0, NEW j \in 1 .. l PROVE new[j].end # -1
        <4>1. CASE j = i
          BY <4>1, <2>8 DEF SamePlace
        <4>2. CASE j # i
          BY <3>1, <4>2, <2>3, <2>7, <2>o
        <4> QED
          BY <4>1, <4>2
      <3> QED
        BY <3>1, <2>7, <2>9 DEF Owned
    <2>12. Bounded(s)
      BY <2>3, <2>7, <2>9 DEF Bounded
    <2> QED
      BY <2>1, <2>9, <2>10, <2>11, <2>12 DEF Reads, Reading
  <1> QED
    BY <1>1, <1>2

\* A colon, a comma and what begins a string or a primitive.
LEMMA ColonReads ==
    ASSUME NEW t \in Seq(Char), NEW n \in Nat, NEW q, Bounded(q),
           q.ret = "RUN", q.mode = "top", Good(q.tokens, t, n, n + 1), t[n + 1] = "colon"
    PROVE  Reads(Colon(q), t, n + 1)
  <1> DEFINE s == [q EXCEPT !.toksuper = Len(q.tokens)]
  <1>t. q \in Parser /\ q.tokens \in Seq(Token) /\ Len(q.tokens) \in Nat
    BY DEF Bounded, Parser
  <1>1. /\ s \in Parser /\ s.toksuper = Len(q.tokens)
        /\ s.tokens = q.tokens /\ s.mode = "top" /\ s.ret = "RUN"
    BY <1>t, ParserChanges
  <1>2. Colon(q) = s
    BY DEF Colon
  <1> HIDE DEF s
  <1>3. Good(s.tokens, t, n + 1, n + 1)
    BY <1>t, <1>1, GoodSkips
  <1> QED
    BY <1>t, <1>1, <1>2, <1>3 DEF Reads, Reading, Bounded, Owned

LEMMA CommaReads ==
    ASSUME NEW t \in Seq(Char), NEW n \in Nat, NEW q, Bounded(q), Owned(q),
           q.ret = "RUN", q.mode = "top", Good(q.tokens, t, n, n + 1), t[n + 1] = "comma"
    PROVE  Reads(Comma(q), t, n + 1)
  <1> DEFINE open == OpenTokens(q)
             u == Innermost(open)
             s == [q EXCEPT !.toksuper = u]
  <1>t. q \in Parser /\ q.tokens \in Seq(Token) /\ Len(q.tokens) \in Nat
    BY DEF Bounded, Parser
  <1>g. Good(q.tokens, t, n + 1, n + 1)
    BY <1>t, GoodSkips
  <1>1. Comma(q) = q \/ (open # {} /\ Comma(q) = s)
    BY DEF Comma
  <1>2. CASE Comma(q) = q
    BY <1>2, <1>g DEF Reads, Reading
  <1>3. CASE open # {} /\ Comma(q) = s
    <2>1. open \in SUBSET (1 .. Len(q.tokens))
      BY <1>t DEF OpenTokens
    <2> HIDE DEF open
    <2>2. u \in 1 .. Len(q.tokens)
      BY <1>3, <1>t, <2>1, InnermostIs
    <2> HIDE DEF u
    <2>3. /\ s \in Parser /\ s.toksuper = u
          /\ s.tokens = q.tokens /\ s.mode = "top" /\ s.ret = "RUN"
      BY <1>t, <2>2, ParserChanges
    <2> HIDE DEF s
    <2>4. Bounded(s) /\ Owned(s)
      BY <1>t, <2>2, <2>3 DEF Bounded, Owned
    <2> QED
      BY <1>3, <1>g, <2>3, <2>4 DEF Reads, Reading
  <1> QED
    BY <1>1, <1>2, <1>3

LEMMA BegunReads ==
    ASSUME NEW t \in Seq(Char), NEW n \in Nat, NEW q, Bounded(q), Owned(q),
           q.ret = "RUN", Good(q.tokens, t, n, n),
           NEW mode,
           \/ mode = "string" /\ t[n + 1] = "quote"
           \/ mode = "primitive" /\ t[n + 1] \notin Separator
    PROVE  Reads(Begun(q, mode, n), t, n + 1)
  <1> DEFINE s == Begun(q, mode, n)
  <1>t. q \in Parser /\ mode \in {"string", "primitive"}
    BY DEF Bounded
  <1>1. /\ s \in Parser /\ s.mode = mode /\ s.start = n
        /\ s.tokens = q.tokens /\ s.toksuper = q.toksuper /\ s.ret = "RUN"
    BY <1>t DEF Begun, Parser
  <1> HIDE DEF s
  <1>2. Bounded(s) /\ Owned(s)
    BY <1>1 DEF Bounded, Owned
  <1>3. CASE mode = "string" /\ t[n + 1] = "quote"
    <2>1. Slashes(t, n + 1) = 0
      BY <1>3, NextSlashes
    <2>2. \A k \in n + 1 .. n + 1 - 1 : FALSE
      OBVIOUS
    <2>3. InString(s, t, n + 1)
      BY <1>1, <1>3, <2>1, <2>2 DEF InString, Quote
    <2> QED
      BY <1>1, <1>2, <1>3, <2>3 DEF Reads, Reading, s
  <1>4. CASE mode = "primitive" /\ t[n + 1] \notin Separator
    <2>1. \A k \in n .. n + 1 - 1 : k = n
      OBVIOUS
    <2>2. InPrimitive(s, t, n + 1)
      BY <1>1, <1>4, <2>1 DEF InPrimitive
    <2> QED
      BY <1>1, <1>2, <1>4, <2>2 DEF Reads, Reading, s
  <1> QED
    BY <1>3, <1>4

\* Between tokens; only a separator finds a primitive that ends right before it.
LEMMA TopReads ==
    ASSUME NEW t \in Seq(Char), NEW n \in 0 .. Len(t) - 1, NEW q, Bounded(q), Owned(q),
           q.ret = "RUN", q.mode = "top", Good(q.tokens, t, n, n + 1),
           t[n + 1] \notin Separator => Good(q.tokens, t, n, n)
    PROVE  Reads(TopLevel(q, t[n + 1], n), t, n + 1)
  <1> DEFINE c == t[n + 1]
  <1>c. c \in Char /\ n \in Nat
    OBVIOUS
  <1>l. t[n + 1] = c
    OBVIOUS
  <1> SUFFICES Reads(TopLevel(q, c, n), t, n + 1)
    OBVIOUS
  <1> HIDE DEF c
  <1>n. c \in {"lbrace", "lbracket", "quote", "ctl", "backslash", "b", "n", "0", "u", "x"}
          => c \notin Separator /\ Good(q.tokens, t, n, n)
    BY <1>l DEF Separator
  <1>1. CASE c = "lbrace"
    <2>1. TopLevel(q, c, n) = Opened(q, "OBJECT", n)
      BY <1>1 DEF TopLevel
    <2> QED
      BY <1>1, <1>c, <1>l, <1>n, <2>1, OpenedReads DEF Container
  <1>2. CASE c = "lbracket"
    <2>1. TopLevel(q, c, n) = Opened(q, "ARRAY", n)
      BY <1>2 DEF TopLevel
    <2> QED
      BY <1>2, <1>c, <1>l, <1>n, <2>1, OpenedReads DEF Container
  <1>3. CASE c = "rbrace"
    <2>1. TopLevel(q, c, n) = Closed(q, "OBJECT", n)
      BY <1>3 DEF TopLevel
    <2> QED
      BY <1>3, <1>c, <1>l, <2>1, ClosedReads DEF Container
  <1>4. CASE c = "rbracket"
    <2>1. TopLevel(q, c, n) = Closed(q, "ARRAY", n)
      BY <1>4 DEF TopLevel
    <2> QED
      BY <1>4, <1>c, <1>l, <2>1, ClosedReads DEF Container
  <1>5. CASE c = "quote"
    <2>1. TopLevel(q, c, n) = Begun(q, "string", n)
      BY <1>5 DEF TopLevel
    <2> QED
      BY <1>5, <1>c, <1>l, <1>n, <2>1, BegunReads
  <1>6. CASE c = "space"
    <2>1. TopLevel(q, c, n) = q
      BY <1>6 DEF TopLevel
    <2>2. Good(q.tokens, t, n + 1, n + 1)
      BY <1>6, <1>c, <1>l, GoodSkips DEF Bounded, Parser
    <2> QED
      BY <2>1, <2>2 DEF Reads, Reading
  <1>7. CASE c = "colon"
    <2>1. TopLevel(q, c, n) = Colon(q)
      BY <1>7 DEF TopLevel
    <2> QED
      BY <1>7, <1>c, <1>l, <2>1, ColonReads
  <1>8. CASE c = "comma"
    <2>1. TopLevel(q, c, n) = Comma(q)
      BY <1>8 DEF TopLevel
    <2> QED
      BY <1>8, <1>c, <1>l, <2>1, CommaReads
  <1>9. CASE c = "ctl"
    <2>1. TopLevel(q, c, n) = Error(q, "INVAL")
      BY <1>9 DEF TopLevel
    <2> QED
      BY <2>1, ErrorReads
  <1>10. CASE c \in {"backslash", "b", "n", "0", "u", "x"}
    <2>1. TopLevel(q, c, n) = Begun(q, "primitive", n)
      BY <1>10 DEF TopLevel
    <2>2. c \notin Separator /\ Good(q.tokens, t, n, n)
      BY <1>10, <1>n
    <2> QED
      BY <1>c, <1>l, <2>1, <2>2, BegunReads
  <1> QED
    BY <1>c, <1>1, <1>2, <1>3, <1>4, <1>5, <1>6, <1>7, <1>8, <1>9, <1>10 DEF Char, Separator

\* A primitive ends before position n, at a separator or with the text.
LEMMA PrimitiveEnds ==
    ASSUME NEW t \in Seq(Char), NEW n \in 0 .. Len(t), NEW q, Bounded(q), Owned(q),
           q.ret = "RUN", InPrimitive(q, t, n),
           n < Len(t) => t[n + 1] \in Separator
    PROVE  LET s == PrimitiveRead(q, n)
           IN  \/ Bounded(s) /\ s.ret = "NOMEM"
               \/ /\ Bounded(s) /\ Owned(s) /\ s.ret = "RUN" /\ s.mode = "top"
                  /\ Good(s.tokens, t, n, n + 1)
  <1> DEFINE f == Filled(q, "PRIMITIVE", q.start, n)
             s == PrimitiveRead(q, n)
             z == [type |-> "PRIMITIVE", start |-> q.start, end |-> n, size |-> 0]
  <1>t. /\ q \in Parser /\ q.tokens \in Seq(Token) /\ Len(q.tokens) \in Nat
        /\ q.start \in Nat /\ n \in Nat /\ q.start < n
    BY DEF Bounded, Parser, InPrimitive
  <1>1. \/ f = Error(q, "NOMEM") /\ Bounded(f)
        \/ Bounded(f) /\ OnlyTokens(f, q) /\ OneMore(f.tokens, q.tokens, "PRIMITIVE", q.start, n)
    <2>1. n \in Int /\ "PRIMITIVE" \in TokenType
      BY <1>t DEF TokenType
    <2> QED
      BY <1>t, <2>1, FilledIs
  <1>2. Bounded(f) /\ s = [f EXCEPT !.mode = "top"]
    BY <1>1 DEF PrimitiveRead
  <1> HIDE DEF f, s
  <1>3. /\ s.tokens = f.tokens /\ s.toksuper = f.toksuper /\ s.ret = f.ret
        /\ s.mode = "top" /\ s \in Parser /\ f.tokens \in Seq(Token)
    BY <1>2 DEF Bounded, Parser
  <1>4. Bounded(s)
    BY <1>2, <1>3 DEF Bounded
  <1>5. CASE f = Error(q, "NOMEM")
    BY <1>3, <1>4, <1>5, ErrorReads DEF s
  <1>6. CASE OnlyTokens(f, q) /\ OneMore(f.tokens, q.tokens, "PRIMITIVE", q.start, n)
    <2>1. /\ z \in Token /\ z.type = "PRIMITIVE" /\ z.start = q.start /\ z.end = n
          /\ SamePlace(z, [type |-> "PRIMITIVE", start |-> q.start, end |-> n])
      BY <1>t DEF Token, SamePlace
    <2> HIDE DEF z
    <2>2. Span(z) = q.start .. n - 1
      BY <2>1, SpanIs
    <2>3. Before(z, n, n + 1)
      BY <1>t, <2>1 DEF Before, Container
    <2>4. Marked(z, t)
      <3>1. \A k \in q.start .. n - 1 : t[k + 1] \notin Separator
        BY DEF InPrimitive
      <3> QED
        BY <2>1, <3>1 DEF Marked
    <2>5. /\ \A k \in q.start .. n - 1 : k \in Span(z)
          /\ \A k \in Span(z) : k >= q.start
          /\ q.start <= n /\ q.start <= z.start
      BY <1>t, <2>1, <2>2
    <2>6. Good(q.tokens, t, q.start, q.start)
      BY DEF InPrimitive
    <2>g. OneMore(f.tokens, q.tokens, z.type, z.start, z.end) /\ f.tokens \in Seq(Token)
      BY <1>3, <1>6, <2>1
    <2>7. Good(f.tokens, t, n, n + 1)
      BY <1>t, <2>g, <2>1, <2>3, <2>4, <2>5, <2>6, GoodGrows
    <2>8. Owned(s)
      <3>1. ASSUME q.toksuper = 0, NEW i \in 1 .. Len(f.tokens) PROVE f.tokens[i].end # -1
        <4>1. i \in 1 .. Len(q.tokens) \/ i = Len(q.tokens) + 1
          BY <1>t, <1>6 DEF OneMore
        <4>2. CASE i \in 1 .. Len(q.tokens)
          BY <1>6, <3>1, <4>2 DEF OneMore, SamePlace, Owned
        <4>3. CASE i = Len(q.tokens) + 1
          BY <1>t, <1>6, <4>3 DEF OneMore, SamePlace
        <4> QED
          BY <4>1, <4>2, <4>3
      <3> QED
        BY <1>3, <1>6, <3>1 DEF Owned, OnlyTokens
    <2> QED
      BY <1>3, <1>4, <1>6, <2>7, <2>8 DEF OnlyTokens, s
  <1> QED
    BY <1>1, <1>5, <1>6

LEMMA PrimitiveReads ==
    ASSUME NEW t \in Seq(Char), NEW n \in 0 .. Len(t) - 1, NEW q, Bounded(q), Owned(q),
           q.ret = "RUN", q.mode = "primitive", InPrimitive(q, t, n)
    PROVE  Reads(jsmn_parse_primitive(q, t[n + 1], n), t, n + 1)
  <1> DEFINE c == t[n + 1]
             s == PrimitiveRead(q, n)
  <1>1. CASE c \in Separator
    <2>1. \/ Bounded(s) /\ s.ret = "NOMEM"
          \/ /\ Bounded(s) /\ Owned(s) /\ s.ret = "RUN" /\ s.mode = "top"
             /\ Good(s.tokens, t, n, n + 1)
      <3>1. n \in 0 .. Len(t)
        OBVIOUS
      <3> QED
        BY <1>1, <3>1, PrimitiveEnds
    <2>2. jsmn_parse_primitive(q, c, n) = TopLevel(s, c, n)
      BY <1>1 DEF jsmn_parse_primitive
    <2> HIDE DEF s
    <2>3. CASE Bounded(s) /\ s.ret = "NOMEM"
      <3>1. TopLevel(s, c, n) = s
        BY <2>3 DEF TopLevel
      <3> QED
        BY <2>2, <2>3, <3>1 DEF Reads
    <2>4. CASE /\ Bounded(s) /\ Owned(s) /\ s.ret = "RUN" /\ s.mode = "top"
               /\ Good(s.tokens, t, n, n + 1)
      <3>1. Reads(TopLevel(s, t[n + 1], n), t, n + 1)
        BY <1>1, <2>4, TopReads
      <3> QED
        BY <2>2, <3>1
    <2> QED
      BY <2>1, <2>3, <2>4
  <1>2. CASE c = "ctl"
    <2>1. jsmn_parse_primitive(q, c, n) = Error(q, "INVAL")
      BY <1>2 DEF jsmn_parse_primitive, Separator
    <2> QED
      BY <2>1, ErrorReads
  <1>3. CASE c \notin Separator /\ c # "ctl"
    <2>1. jsmn_parse_primitive(q, c, n) = q
      BY <1>3 DEF jsmn_parse_primitive
    <2>2. InPrimitive(q, t, n + 1)
      <3>1. \A k \in q.start .. n + 1 - 1 : k \in q.start .. n - 1 \/ k = n
        BY DEF Bounded, Parser
      <3>2. q.start < n + 1
        BY DEF InPrimitive, Bounded, Parser
      <3> QED
        BY <1>3, <3>1, <3>2 DEF InPrimitive
    <2> QED
      BY <2>1, <2>2 DEF Reads, Reading
  <1> QED
    BY <1>1, <1>2, <1>3

\* A string ends at the quote at n.
LEMMA StringEnds ==
    ASSUME NEW t \in Seq(Char), NEW n \in Nat, NEW q, Bounded(q), Owned(q),
           q.ret = "RUN", q.mode = "string", InString(q, t, n), t[n + 1] = "quote"
    PROVE  Reads([Filled(q, "STRING", q.start + 1, n) EXCEPT !.mode = "top"], t, n + 1)
  <1> DEFINE f == Filled(q, "STRING", q.start + 1, n)
             s == [f EXCEPT !.mode = "top"]
             z == [type |-> "STRING", start |-> q.start + 1, end |-> n, size |-> 0]
  <1>t. /\ q \in Parser /\ q.tokens \in Seq(Token) /\ Len(q.tokens) \in Nat
        /\ q.start \in Nat /\ n \in Nat /\ q.start < n
    BY DEF Bounded, Parser, InString
  <1>1. \/ f = Error(q, "NOMEM") /\ Bounded(f)
        \/ /\ Bounded(f) /\ OnlyTokens(f, q)
           /\ OneMore(f.tokens, q.tokens, "STRING", q.start + 1, n)
    <2>1. q.start + 1 \in Nat /\ n \in Int
      BY <1>t
    <2> QED
      BY <2>1, FilledIs DEF TokenType
  <1>2. Bounded(f)
    BY <1>1
  <1>l. s = [f EXCEPT !.mode = "top"]
    OBVIOUS
  <1> SUFFICES Reads(s, t, n + 1)
    OBVIOUS
  <1> HIDE DEF f, s
  <1>3. /\ s.tokens = f.tokens /\ s.toksuper = f.toksuper /\ s.ret = f.ret
        /\ s.mode = "top" /\ s \in Parser /\ f.tokens \in Seq(Token)
    BY <1>2, <1>l DEF Bounded, Parser
  <1>4. Bounded(s)
    BY <1>2, <1>3 DEF Bounded
  <1>5. CASE f = Error(q, "NOMEM")
    BY <1>3, <1>4, <1>5, ErrorReads DEF Reads
  <1>6. CASE OnlyTokens(f, q) /\ OneMore(f.tokens, q.tokens, "STRING", q.start + 1, n)
    <2>1. /\ z \in Token /\ z.type = "STRING" /\ z.start = q.start + 1 /\ z.end = n
          /\ SamePlace(z, [type |-> "STRING", start |-> q.start + 1, end |-> n])
      BY <1>t DEF Token, SamePlace
    <2> HIDE DEF z
    <2>2. Span(z) = q.start .. n
      <3>1. Span(z) = z.start - 1 .. z.end
        BY <2>1, SpanIs
      <3>2. z.start - 1 = q.start /\ z.end = n
        BY <1>t, <2>1
      <3> QED
        BY <3>1, <3>2
    <2>3. Before(z, n + 1, n + 1)
      BY <1>t, <2>1 DEF Before, Container
    <2>4. Marked(z, t)
      <3>1. /\ Quote(t, z.start - 1) /\ Quote(t, z.end) /\ Slashes(t, z.end) % 2 = 0
            /\ \A k \in z.start .. z.end - 1 : Quote(t, k) => Slashes(t, k) % 2 = 1
        <4>1. z.start - 1 = q.start
          BY <1>t, <2>1
        <4> QED
          BY <2>1, <4>1 DEF InString, Quote
      <3> QED
        BY <2>1, <3>1 DEF Marked
    <2>5. /\ \A k \in q.start .. n + 1 - 1 : k \in Span(z)
          /\ \A k \in Span(z) : k >= q.start
          /\ q.start <= n + 1 /\ q.start <= z.start /\ n + 1 \in Nat
      BY <1>t, <2>1, <2>2
    <2>6. Good(q.tokens, t, q.start, q.start)
      BY DEF InString
    <2>g. OneMore(f.tokens, q.tokens, z.type, z.start, z.end) /\ f.tokens \in Seq(Token)
      BY <1>3, <1>6, <2>1
    <2>7. Good(f.tokens, t, n + 1, n + 1)
      BY <1>t, <2>g, <2>1, <2>3, <2>4, <2>5, <2>6, GoodGrows
    <2>8. Owned(s)
      <3>1. ASSUME q.toksuper = 0, NEW i \in 1 .. Len(f.tokens) PROVE f.tokens[i].end # -1
        <4>1. i \in 1 .. Len(q.tokens) \/ i = Len(q.tokens) + 1
          BY <1>t, <1>6 DEF OneMore
        <4>2. CASE i \in 1 .. Len(q.tokens)
          BY <1>6, <3>1, <4>2 DEF OneMore, SamePlace, Owned
        <4>3. CASE i = Len(q.tokens) + 1
          BY <1>t, <1>6, <4>3 DEF OneMore, SamePlace
        <4> QED
          BY <4>1, <4>2, <4>3
      <3> QED
        BY <1>3, <1>6, <3>1 DEF Owned, OnlyTokens
    <2> QED
      BY <1>3, <1>4, <1>6, <2>7, <2>8 DEF OnlyTokens, Reads, Reading
  <1> QED
    BY <1>1, <1>5, <1>6

LEMMA StaysInString ==
    ASSUME NEW t \in Seq(Char), NEW n \in Nat, NEW q, Bounded(q), Owned(q), InString(q, t, n),
           NEW s \in Parser, s.tokens = q.tokens, s.toksuper = q.toksuper, s.start = q.start,
           s.ret = "RUN", s.mode \in {"string", "escape", "hex"},
           Quote(t, n) => Slashes(t, n) % 2 = 1,
           Slashes(t, n + 1) % 2 = IF s.mode = "escape" THEN 1 ELSE 0
    PROVE  Reads(s, t, n + 1)
  <1>1. q.start \in Nat
    BY DEF Bounded, Parser
  <1>2. \A k \in q.start + 1 .. n + 1 - 1 : k \in q.start + 1 .. n - 1 \/ k = n
    BY <1>1
  <1>3. q.start < n + 1
    BY <1>1 DEF InString
  <1>4. InString(s, t, n + 1)
    <2>1. \A k \in q.start + 1 .. n + 1 - 1 : Quote(t, k) => Slashes(t, k) % 2 = 1
      BY <1>2 DEF InString
    <2>2. Good(q.tokens, t, q.start, q.start) /\ Quote(t, q.start)
      BY DEF InString
    <2> QED
      BY <1>3, <2>1, <2>2 DEF InString
  <1>5. Bounded(s) /\ Owned(s)
    BY DEF Bounded, Owned
  <1> QED
    BY <1>4, <1>5 DEF Reads, Reading

LEMMA EscapeChanges ==
    ASSUME NEW q \in Parser, NEW mode \in {"string", "hex"}
    PROVE  LET s == [q EXCEPT !.mode = mode, !.digits = 0]
           IN  /\ s \in Parser /\ s.mode = mode
               /\ s.tokens = q.tokens /\ s.toksuper = q.toksuper
               /\ s.start = q.start /\ s.ret = q.ret
  <1> DEFINE q1 == [q EXCEPT !.mode = mode]
             s == [q1 EXCEPT !.digits = 0]
  <1>1. /\ q1 \in Parser /\ q1.mode = mode
        /\ q1.tokens = q.tokens /\ q1.toksuper = q.toksuper
        /\ q1.start = q.start /\ q1.ret = q.ret
    BY DEF Parser
  <1>2. [q EXCEPT !.mode = mode, !.digits = 0] = s
    BY DEF Parser
  <1> HIDE DEF q1
  <1>3. /\ s \in Parser /\ s.mode = q1.mode
        /\ s.tokens = q1.tokens /\ s.toksuper = q1.toksuper
        /\ s.start = q1.start /\ s.ret = q1.ret
    BY <1>1 DEF Parser
  <1> QED
    BY <1>1, <1>2, <1>3

LEMMA StringReads ==
    ASSUME NEW t \in Seq(Char), NEW n \in 0 .. Len(t) - 1, NEW q, Bounded(q), Owned(q),
           q.ret = "RUN", q.mode \in {"string", "escape", "hex"}, InString(q, t, n)
    PROVE  Reads(jsmn_parse_string(q, t[n + 1], n), t, n + 1)
  <1> DEFINE c == t[n + 1]
             a == Slashes(t, n)
             b == Slashes(t, n + 1)
  <1>t. q \in Parser /\ n \in Nat /\ a \in Nat
    BY SlashesAre DEF Bounded
  <1>c. t[n + 1] = c /\ (Quote(t, n) <=> c = "quote")
    BY DEF Quote
  <1>a. a % 2 = IF q.mode = "escape" THEN 1 ELSE 0
    BY DEF InString
  <1>b. (c = "backslash" => b = a + 1) /\ (c # "backslash" => b = 0)
    BY <1>t, NextSlashes
  <1>d. Slashes(t, n) = a /\ Slashes(t, n + 1) = b
    OBVIOUS
  <1> SUFFICES Reads(jsmn_parse_string(q, c, n), t, n + 1)
    OBVIOUS
  <1> HIDE DEF a, b, c
  <1>z. 0 % 2 = 0
    OBVIOUS
  <1>1. CASE q.mode = "string" /\ c = "quote"
    <2>1. jsmn_parse_string(q, c, n) = [Filled(q, "STRING", q.start + 1, n) EXCEPT !.mode = "top"]
      BY <1>1 DEF jsmn_parse_string
    <2> QED
      BY <1>1, <1>c, <1>t, <2>1, StringEnds
  <1>2. CASE q.mode = "string" /\ c = "backslash"
    <2> DEFINE s == [q EXCEPT !.mode = "escape"]
    <2>1. jsmn_parse_string(q, c, n) = s
      BY <1>2 DEF jsmn_parse_string
    <2>2. /\ s \in Parser /\ s.tokens = q.tokens /\ s.toksuper = q.toksuper
          /\ s.start = q.start /\ s.ret = "RUN" /\ s.mode = "escape"
      BY <1>t DEF Parser
    <2> HIDE DEF s
    <2>3. b % 2 = 1
      BY <1>t, <1>a, <1>b, <1>2
    <2> QED
      BY <1>2, <1>c, <1>d, <1>t, <2>1, <2>2, <2>3, StaysInString
  <1>3. CASE q.mode = "escape" /\ c \in Escaped
    <2> DEFINE s == [q EXCEPT !.mode = "string"]
    <2>1. jsmn_parse_string(q, c, n) = s
      BY <1>3 DEF jsmn_parse_string, Escaped
    <2>2. /\ s \in Parser /\ s.tokens = q.tokens /\ s.toksuper = q.toksuper
          /\ s.start = q.start /\ s.ret = "RUN" /\ s.mode = "string"
      BY <1>t DEF Parser
    <2> HIDE DEF s
    <2>3. a % 2 = 1
      BY <1>a, <1>3
    <2>4. b % 2 = 0
      BY <1>t, <1>b, <1>z, <2>3
    <2> QED
      BY <1>c, <1>d, <1>t, <2>1, <2>2, <2>3, <2>4, StaysInString
  <1>4. CASE q.mode = "escape" /\ c = "u"
    <2> DEFINE s == [q EXCEPT !.mode = "hex", !.digits = 0]
    <2>1. jsmn_parse_string(q, c, n) = s
      BY <1>4 DEF jsmn_parse_string, Escaped
    <2>2. /\ s \in Parser /\ s.tokens = q.tokens /\ s.toksuper = q.toksuper
          /\ s.start = q.start /\ s.ret = "RUN" /\ s.mode = "hex"
      BY <1>t, EscapeChanges
    <2> HIDE DEF s
    <2>3. b % 2 = 0 /\ c # "quote"
      BY <1>b, <1>z, <1>4
    <2> QED
      BY <1>c, <1>d, <1>t, <2>1, <2>2, <2>3, StaysInString
  <1>5. CASE q.mode = "hex" /\ c \in HexDigit
    <2> DEFINE s == IF q.digits = 3 THEN [q EXCEPT !.mode = "string", !.digits = 0]
                                    ELSE [q EXCEPT !.digits = @ + 1]
    <2>1. jsmn_parse_string(q, c, n) = s
      BY <1>5 DEF jsmn_parse_string
    <2>2. /\ s \in Parser /\ s.tokens = q.tokens /\ s.toksuper = q.toksuper
          /\ s.start = q.start /\ s.ret = "RUN" /\ s.mode \in {"string", "hex"}
      <3>1. CASE q.digits = 3
        BY <1>5, <1>t, <3>1, EscapeChanges
      <3>2. CASE q.digits # 3
        <4>1. q.digits + 1 \in 0 .. 3
          BY <1>t, <3>2 DEF Parser
        <4> QED
          BY <1>5, <1>t, <3>2, <4>1 DEF Parser
      <3> QED
        BY <3>1, <3>2
    <2> HIDE DEF s
    <2>3. b % 2 = 0 /\ c # "quote" /\ s.mode # "escape"
      BY <1>b, <1>z, <1>5, <2>2 DEF HexDigit
    <2> QED
      BY <1>c, <1>d, <1>t, <2>1, <2>2, <2>3, StaysInString
  <1>6. CASE q.mode = "string" /\ c \notin {"quote", "backslash"}
    <2>1. jsmn_parse_string(q, c, n) = q
      BY <1>6 DEF jsmn_parse_string
    <2>2. b % 2 = 0
      BY <1>b, <1>z, <1>6
    <2> QED
      BY <1>6, <1>c, <1>d, <1>t, <2>1, <2>2, StaysInString
  <1>7. CASE /\ q.mode \in {"escape", "hex"}
             /\ ~(q.mode = "escape" /\ (c \in Escaped \/ c = "u"))
             /\ ~(q.mode = "hex" /\ c \in HexDigit)
    <2>1. jsmn_parse_string(q, c, n) = Error(q, "INVAL")
      BY <1>7 DEF jsmn_parse_string
    <2> QED
      BY <2>1, ErrorReads
  <1> QED
    BY <1>1, <1>2, <1>3, <1>4, <1>5, <1>6, <1>7

LEMMA ParsedReads ==
    ASSUME NEW t \in Seq(Char), NEW n \in 0 .. Len(t) - 1, NEW q, Bounded(q),
           q.ret = "RUN", Reading(q, t, n)
    PROVE  Reads(Parsed(q, t[n + 1], n), t, n + 1)
  <1>t. Owned(q)
    BY DEF Reading
  <1>1. CASE q.mode = "top" /\ Good(q.tokens, t, n, n)
    <2>1. Good(q.tokens, t, n, n + 1)
      BY <1>1, GoodWeakens DEF Bounded, Parser
    <2>2. Parsed(q, t[n + 1], n) = TopLevel(q, t[n + 1], n)
      BY <1>1 DEF Parsed
    <2> QED
      BY <1>1, <1>t, <2>1, <2>2, TopReads
  <1>2. CASE q.mode \in {"string", "escape", "hex"} /\ InString(q, t, n)
    <2>1. Parsed(q, t[n + 1], n) = jsmn_parse_string(q, t[n + 1], n)
      BY <1>2 DEF Parsed
    <2> QED
      BY <1>2, <1>t, <2>1, StringReads
  <1>3. CASE q.mode = "primitive" /\ InPrimitive(q, t, n)
    <2>1. Parsed(q, t[n + 1], n) = jsmn_parse_primitive(q, t[n + 1], n)
      BY <1>3 DEF Parsed
    <2> QED
      BY <1>3, <1>t, <2>1, PrimitiveReads
  <1> QED
    BY <1>1, <1>2, <1>3 DEF Reading

\* The next character changes nothing of what was read before it.
LEMMA ReadingStays ==
    ASSUME NEW t \in Seq(Char), NEW c \in Char, NEW q, Bounded(q), Reading(q, t, Len(t))
    PROVE  Reading(q, Append(t, c), Len(t))
  <1> DEFINE u == Append(t, c)
             n == Len(t)
  <1>t. q.tokens \in Seq(Token) /\ q.start \in Nat /\ n \in Nat
    BY DEF Bounded, Parser
  <1>1. \A k \in 0 .. n : Slashes(u, k) = Slashes(t, k)
    BY SlashesKept
  <1>2. \A k \in 0 .. n - 1 : u[k + 1] = t[k + 1]
    OBVIOUS
  <1>3. \A m \in 0 .. n : Good(q.tokens, t, m, m) => Good(q.tokens, u, m, m)
    BY <1>t, GoodStays
  <1>r. Owned(q) /\ Reading(q, t, n)
    BY DEF Reading
  <1> HIDE DEF u, n
  <1>4. CASE q.mode = "top" /\ Good(q.tokens, t, n, n)
    BY <1>r, <1>t, <1>3, <1>4 DEF Reading, u, n
  <1>5. CASE q.mode \in {"string", "escape", "hex"} /\ InString(q, t, n)
    <2>1. q.start \in 0 .. n /\ q.start \in 0 .. n - 1 /\ q.start < n
      BY <1>t, <1>5 DEF InString
    <2>2. Good(q.tokens, u, q.start, q.start)
      BY <1>3, <1>5, <2>1 DEF InString
    <2>3. \A k \in 0 .. n - 1 : Quote(u, k) <=> Quote(t, k)
      BY <1>2 DEF Quote
    <2>4. Quote(u, q.start)
      BY <1>5, <2>1, <2>3 DEF InString
    <2>5. \A k \in q.start + 1 .. n - 1 : Quote(u, k) => Slashes(u, k) % 2 = 1
      <3> SUFFICES ASSUME NEW k \in q.start + 1 .. n - 1, Quote(u, k)
                   PROVE  Slashes(u, k) % 2 = 1
        OBVIOUS
      <3>1. k \in 0 .. n - 1 /\ k \in 0 .. n
        BY <1>t
      <3>2. Slashes(t, k) % 2 = 1
        BY <1>5, <2>3, <3>1 DEF InString
      <3> QED
        BY <1>1, <3>1, <3>2
    <2>6. Slashes(u, n) = Slashes(t, n)
      BY <1>1, <1>t
    <2>7. InString(q, u, n)
      BY <1>5, <2>1, <2>2, <2>4, <2>5, <2>6 DEF InString
    <2> QED
      BY <1>r, <1>5, <2>7 DEF Reading, u, n
  <1>6. CASE q.mode = "primitive" /\ InPrimitive(q, t, n)
    <2>1. q.start \in 0 .. n /\ q.start < n
      BY <1>t, <1>6 DEF InPrimitive
    <2>2. Good(q.tokens, u, q.start, q.start)
      BY <1>3, <1>6, <2>1 DEF InPrimitive
    <2>3. \A k \in q.start .. n - 1 : u[k + 1] = t[k + 1]
      BY <1>2, <1>t
    <2>4. InPrimitive(q, u, n)
      BY <1>6, <2>1, <2>2, <2>3 DEF InPrimitive
    <2> QED
      BY <1>r, <1>6, <2>4 DEF Reading, u, n
  <1> QED
    BY <1>r, <1>4, <1>5, <1>6 DEF Reading

\* The text ends. What the parser says "OK" to is read to the end and closed.
LEMMA FinishedIs ==
    ASSUME NEW t \in Seq(Char), NEW q, Bounded(q), q.ret = "RUN", Reading(q, t, Len(t))
    PROVE  LET s == Finished(q, Len(t))
           IN  /\ Bounded(s) /\ s.ret # "RUN"
               /\ s.ret = "OK" =>
                     /\ Good(s.tokens, t, Len(t), Len(t) + 1)
                     /\ \A i \in 1 .. Len(s.tokens) : s.tokens[i].end # -1
  <1> DEFINE n == Len(t)
             r1 == IF q.mode = "primitive" THEN PrimitiveRead(q, n) ELSE q
             s == Finished(q, n)
  <1>t. n \in Nat /\ Owned(q)
    BY DEF Reading
  <1>1. \/ Bounded(r1) /\ r1.ret = "NOMEM"
        \/ /\ Bounded(r1) /\ r1.ret = "RUN"
           /\ r1.mode = "top" => Good(r1.tokens, t, n, n + 1)
    <2>1. CASE q.mode = "primitive"
      <3>1. InPrimitive(q, t, n) /\ n \in 0 .. Len(t) /\ ~(n < Len(t))
        BY <2>1 DEF Reading
      <3>2. r1 = PrimitiveRead(q, n)
        BY <2>1
      <3> HIDE DEF n, r1
      <3> QED
        BY <1>t, <3>1, <3>2, PrimitiveEnds
    <2>2. CASE q.mode # "primitive"
      <3>1. q.mode = "top" => Good(q.tokens, t, n, n)
        BY DEF Reading
      <3>2. q.mode = "top" => Good(q.tokens, t, n, n + 1)
        BY <1>t, <3>1, GoodWeakens DEF Bounded, Parser
      <3> QED
        BY <2>2, <3>2
    <2> QED
      BY <2>1, <2>2
  <1>2. s = IF r1.ret # "RUN" THEN r1
            ELSE IF r1.mode # "top" \/ OpenTokens(r1) # {} THEN Error(r1, "PART")
            ELSE [r1 EXCEPT !.ret = "OK"]
    BY DEF Finished
  <1>n. n = Len(t)
    OBVIOUS
  <1> SUFFICES /\ Bounded(s) /\ s.ret # "RUN"
               /\ s.ret = "OK" =>
                     /\ Good(s.tokens, t, n, n + 1)
                     /\ \A i \in 1 .. Len(s.tokens) : s.tokens[i].end # -1
    OBVIOUS
  <1> HIDE DEF n, r1, s
  <1>3. CASE r1.ret # "RUN"
    BY <1>1, <1>2, <1>3
  <1>4. CASE r1.ret = "RUN" /\ (r1.mode # "top" \/ OpenTokens(r1) # {})
    <2>1. s = Error(r1, "PART")
      BY <1>2, <1>4
    <2> QED
      BY <1>1, <2>1, ErrorReads DEF Reads
  <1>5. CASE r1.ret = "RUN" /\ r1.mode = "top" /\ OpenTokens(r1) = {}
    <2>1. s = [r1 EXCEPT !.ret = "OK"]
      BY <1>2, <1>5
    <2>2. r1 \in Parser
      BY <1>1 DEF Bounded
    <2>3. /\ s \in Parser /\ s.ret = "OK" /\ s.tokens = r1.tokens
          /\ s.toksuper = r1.toksuper
      BY <2>1, <2>2 DEF Parser
    <2>4. Bounded(s) /\ Good(s.tokens, t, n, n + 1)
      BY <1>1, <1>5, <2>3 DEF Bounded
    <2>5. \A i \in 1 .. Len(r1.tokens) : r1.tokens[i].end # -1
      BY <1>5, <2>2 DEF OpenTokens, Parser
    <2> QED
      BY <2>3, <2>4, <2>5
  <1> QED
    BY <1>3, <1>4, <1>5

----------------------------------------------------------------------------
(* The invariant.                                                           *)

ReadInv ==
    /\ template \in Template /\ text \in Seq(Char) /\ Bounded(p)
    /\ p.ret = "RUN" => Reading(p, text, Len(text))
    /\ p.ret = "OK" =>
          /\ Good(p.tokens, text, Len(text), Len(text) + 1)
          /\ \A i \in 1 .. Len(p.tokens) : p.tokens[i].end # -1

LEMMA InitReads == Bounded(jsmn_init) /\ jsmn_init.ret = "RUN" /\ Reading(jsmn_init, <<>>, 0)
  <1>1. jsmn_init \in Parser /\ Len(jsmn_init.tokens) = 0
    BY DEF jsmn_init, Parser
  <1>2. Bounded(jsmn_init)
    BY <1>1, NumTokensAssumption DEF Bounded, jsmn_init
  <1>3. Good(<<>>, <<>>, 0, 0)
    BY DEF Good, Covered
  <1> QED
    BY <1>1, <1>2, <1>3 DEF jsmn_init, Reading, Owned

LEMMA ReadInvariant == Spec => []ReadInv
  <1>1. Init => ReadInv
    BY InitReads DEF Init, ReadInv
  <1>2. ReadInv /\ [Next]_vars => ReadInv'
    <2> SUFFICES ASSUME ReadInv, [Next]_vars PROVE ReadInv'
      OBVIOUS
    <2>1. CASE ReadChar
      <3>1. PICK c \in template.chars[Len(text) + 1] :
                    text' = Append(text, c) /\ p' = Parsed(p, c, Len(text))
        BY <2>1 DEF ReadChar
      <3> DEFINE n == Len(text)
                 u == Append(text, c)
      <3>2. c \in Char /\ text \in Seq(Char) /\ n \in Nat
        <4>1. template \in Template /\ text \in Seq(Char)
          BY DEF ReadInv
        <4>2. template.chars \in Seq(SUBSET Char)
          BY <4>1, TemplateAssumption
        <4>3. n + 1 \in 1 .. Len(template.chars)
          BY <2>1, <4>1 DEF ReadChar
        <4>4. template.chars[n + 1] \in SUBSET Char
          BY <4>2, <4>3
        <4> QED
          BY <3>1, <4>1, <4>4
      <3>3. u \in Seq(Char) /\ Len(u) = n + 1 /\ n \in 0 .. Len(u) - 1 /\ u[n + 1] = c
        BY <3>2
      <3>4. p.ret = "RUN" /\ Bounded(p) /\ Reading(p, text, n)
        BY <2>1 DEF ReadInv, ReadChar
      <3>5. Reading(p, u, n)
        BY <3>2, <3>4, ReadingStays
      <3>6. text' = u /\ p' = Parsed(p, c, n)
        BY <3>1
      <3> HIDE DEF n, u
      <3>7. Reads(p', u, n + 1)
        BY <3>3, <3>4, <3>5, <3>6, ParsedReads
      <3> QED
        BY <2>1, <3>3, <3>6, <3>7 DEF ReadInv, ReadChar, Reads
    <2>2. CASE EndOfText
      <3>1. /\ p.ret = "RUN" /\ Bounded(p) /\ Reading(p, text, Len(text))
            /\ text \in Seq(Char) /\ template \in Template
        BY <2>2 DEF ReadInv, EndOfText
      <3>2. p' = Finished(p, Len(text)) /\ text' = text /\ template' = template
        BY <2>2 DEF EndOfText
      <3>3. /\ Bounded(p') /\ p'.ret # "RUN"
            /\ p'.ret = "OK" =>
                  /\ Good(p'.tokens, text, Len(text), Len(text) + 1)
                  /\ \A i \in 1 .. Len(p'.tokens) : p'.tokens[i].end # -1
        BY <3>1, <3>2, FinishedIs
      <3> QED
        BY <3>1, <3>2, <3>3 DEF ReadInv
    <2>3. CASE NextText
      BY <2>3, InitReads DEF NextText, Start, ReadInv
    <2>4. CASE UNCHANGED vars
      BY <2>4 DEF vars, ReadInv
    <2> QED
      BY <2>1, <2>2, <2>3, <2>4 DEF Next
  <1> QED
    BY <1>1, <1>2, PTL DEF Spec

----------------------------------------------------------------------------
(* What it says of the properties.                                          *)

\* The parser and its tokens stay within their types, and the tokens within their
\* array, for every text and every length of the array.
THEOREM JsonTyping == Spec => []TypeOK
  <1>1. ReadInv => TypeOK
    BY DEF ReadInv, Bounded, TypeOK
  <1> QED
    BY <1>1, ReadInvariant, PTL

\* While a text is read tokens are nested or apart and in its order.
THEOREM JsonNesting == Spec => []NestInv
  <1> DEFINE Order ==
               /\ \A i, j \in 1 .. Len(p.tokens) : i < j => Nested(p.tokens[i], p.tokens[j])
               /\ p.toksuper = 0 => OpenTokens(p) = {}
  <1>1. ReadInv /\ p.ret \in {"RUN", "OK"} => Order
    <2> SUFFICES ASSUME ReadInv, p.ret \in {"RUN", "OK"} PROVE Order
      OBVIOUS
    <2>1. CASE p.ret = "RUN"
      <3>1. Reading(p, text, Len(text)) /\ Owned(p)
        BY <2>1 DEF ReadInv, Reading
      <3>2. \A i, j \in 1 .. Len(p.tokens) : i < j => Nested(p.tokens[i], p.tokens[j])
        BY <3>1 DEF Reading, InString, InPrimitive, Good
      <3>3. DOMAIN p.tokens = 1 .. Len(p.tokens)
        BY DEF ReadInv, Bounded, Parser
      <3> QED
        BY <3>1, <3>2, <3>3 DEF Owned, OpenTokens
    <2>2. CASE p.ret = "OK"
      <3>1. DOMAIN p.tokens = 1 .. Len(p.tokens)
        BY DEF ReadInv, Bounded, Parser
      <3> QED
        BY <2>2, <3>1 DEF ReadInv, Good, OpenTokens
    <2> QED
      BY <2>1, <2>2
  <1>2. ReadInv => NestInv
    <2> SUFFICES ASSUME ReadInv, p.ret \in {"RUN", "OK"}
                 PROVE  /\ \A i, j \in DOMAIN p.tokens : i < j =>
                             LET a == p.tokens[i] b == p.tokens[j]
                             IN  /\ a.start < b.start
                                 /\ a.end = -1 \/ b.start >= a.end
                                      \/ (b.end # -1 /\ b.end < a.end)
                                 /\ a.type \notin Container => a.end < b.start
                        /\ p.toksuper = 0 => OpenTokens(p) = {}
      BY DEF NestInv
    <2>1. DOMAIN p.tokens = 1 .. Len(p.tokens)
      BY DEF ReadInv, Bounded, Parser
    <2> QED
      BY <1>1, <2>1 DEF Nested
  <1> QED
    BY <1>2, ReadInvariant, PTL

\* The tokens of an accepted text are what the text says: brackets, strings between
\* quotes that are not escaped, whole primitives, and separators between them.
THEOREM JsonTokens == Spec => []TokensAreRight
  <1>1. ASSUME ReadInv, p.ret = "OK" PROVE TokensAreRight
    <2> DEFINE toks == p.tokens
               n == Len(text)
    <2>t. /\ toks \in Seq(Token) /\ DOMAIN toks = 1 .. Len(toks) /\ n \in Nat
          /\ text \in Seq(Char)
      BY <1>1 DEF ReadInv, Bounded, Parser
    <2>g. /\ Good(toks, text, n, n + 1)
          /\ \A i \in 1 .. Len(toks) : toks[i].end # -1
      BY <1>1 DEF ReadInv
    <2>s. \A k : Backslashes(k) = Slashes(text, k)
      BY DEF Backslashes, Slashes, At
    <2> SUFFICES
           /\ \A i \in DOMAIN toks :
                LET t == toks[i]
                IN  CASE t.type = "OBJECT" -> At(t.start) = "lbrace" /\ At(t.end - 1) = "rbrace"
                      [] t.type = "ARRAY"  -> At(t.start) = "lbracket" /\ At(t.end - 1) = "rbracket"
                      [] t.type = "STRING" ->
                           /\ At(t.start - 1) = "quote" /\ At(t.end) = "quote"
                           /\ \A k \in t.start .. t.end :
                                At(k) = "quote" => (k = t.end) = (Backslashes(k) % 2 = 0)
                      [] OTHER ->
                           /\ t.start < t.end
                           /\ \A k \in t.start .. t.end - 1 : At(k) \notin Separator
                           /\ t.end < Len(text) => At(t.end) \in Separator
           /\ \A i, j \in DOMAIN toks : i # j => Span(toks[i]) \cap Span(toks[j]) = {}
           /\ \A k \in 0 .. Len(text) - 1 :
                (\A i \in DOMAIN toks : k \notin Span(toks[i]))
                    => At(k) \in {"colon", "comma", "space"}
      BY DEF TokensAreRight
    <2> HIDE DEF toks, n
    <2>1. ASSUME NEW i \in 1 .. Len(toks)
          PROVE LET t == toks[i]
                IN  CASE t.type = "OBJECT" -> At(t.start) = "lbrace" /\ At(t.end - 1) = "rbrace"
                      [] t.type = "ARRAY"  -> At(t.start) = "lbracket" /\ At(t.end - 1) = "rbracket"
                      [] t.type = "STRING" ->
                           /\ At(t.start - 1) = "quote" /\ At(t.end) = "quote"
                           /\ \A k \in t.start .. t.end :
                                At(k) = "quote" => (k = t.end) = (Backslashes(k) % 2 = 0)
                      [] OTHER ->
                           /\ t.start < t.end
                           /\ \A k \in t.start .. t.end - 1 : At(k) \notin Separator
                           /\ t.end < Len(text) => At(t.end) \in Separator
      <3> DEFINE t == toks[i]
      <3>1. t \in Token /\ Before(t, n, n + 1) /\ Marked(t, text) /\ t.end # -1
        BY <2>t, <2>g DEF Good
      <3> HIDE DEF t
      <3>2. /\ t.type \in {"OBJECT", "ARRAY", "STRING", "PRIMITIVE"}
            /\ t.start \in Nat /\ t.end \in Int
        BY <3>1 DEF Token, Container
      <3>e. t.end - 1 + 1 = t.end /\ t.start - 1 + 1 = t.start
        BY <3>2
      <3>3. CASE t.type = "OBJECT"
        <4>1. At(t.start) = "lbrace" /\ At(t.end - 1) = "rbrace"
          BY <3>1, <3>3, <3>e DEF Marked, At
        <4> QED
          BY <3>3, <4>1 DEF t
      <3>4. CASE t.type = "ARRAY"
        <4>1. At(t.start) = "lbracket" /\ At(t.end - 1) = "rbracket"
          BY <3>1, <3>4, <3>e DEF Marked, At
        <4> QED
          BY <3>4, <4>1 DEF t
      <3>5. CASE t.type = "STRING"
        <4>1. /\ Quote(text, t.start - 1) /\ Quote(text, t.end)
              /\ Slashes(text, t.end) % 2 = 0
              /\ \A k \in t.start .. t.end - 1 : Quote(text, k) => Slashes(text, k) % 2 = 1
          BY <3>1, <3>5 DEF Marked
        <4>2. At(t.start - 1) = "quote" /\ At(t.end) = "quote"
          BY <4>1 DEF At, Quote
        <4>3. ASSUME NEW k \in t.start .. t.end, At(k) = "quote"
              PROVE  (k = t.end) = (Backslashes(k) % 2 = 0)
          <5>1. CASE k = t.end
            BY <4>1, <5>1, <2>s
          <5>2. CASE k # t.end
            <6>1. k \in t.start .. t.end - 1
              BY <3>2, <5>2
            <6>2. Slashes(text, k) % 2 = 1
              BY <4>1, <4>3, <6>1 DEF At, Quote
            <6> QED
              BY <5>2, <6>2, <2>s
          <5> QED
            BY <5>1, <5>2
        <4> QED
          BY <3>5, <4>2, <4>3 DEF t
      <3>6. CASE t.type = "PRIMITIVE"
        <4>1. /\ t.start < t.end
              /\ \A k \in t.start .. t.end - 1 : At(k) \notin Separator
              /\ t.end < Len(text) => At(t.end) \in Separator
          BY <3>1, <3>6 DEF Before, Marked, At
        <4> QED
          BY <3>6, <4>1 DEF t
      <3> QED
        BY <3>2, <3>3, <3>4, <3>5, <3>6
    <2>2. ASSUME NEW i \in 1 .. Len(toks), NEW j \in 1 .. Len(toks), i # j
          PROVE  Span(toks[i]) \cap Span(toks[j]) = {}
      <3>1. CASE i < j
        BY <2>g, <3>1 DEF Good, Nested
      <3>2. CASE j < i
        BY <2>g, <3>2 DEF Good, Nested
      <3> QED
        BY <2>2, <2>t, <3>1, <3>2
    <2>3. \A k \in 0 .. Len(text) - 1 :
              (\A i \in 1 .. Len(toks) : k \notin Span(toks[i]))
                  => At(k) \in {"colon", "comma", "space"}
      BY <2>g DEF Good, Covered, At, n
    <2> QED
      BY <2>1, <2>2, <2>3, <2>t
  <1>2. ReadInv => TokensAreRight
    BY <1>1 DEF TokensAreRight
  <1> QED
    BY <1>2, ReadInvariant, PTL

----------------------------------------------------------------------------
(* A command of the page, token by token.                                   *)

Tok(type, start, end, size) == [type |-> type, start |-> start, end |-> end, size |-> size]

\* The parser while it reads in this mode, with k tokens of which super is the one
\* that counts what comes next.
InMode(q, mode, k, super) ==
    /\ q \in Parser /\ q.ret = "RUN" /\ q.mode = mode
    /\ Len(q.tokens) = k /\ q.toksuper = super

SameTokens(s, q) == s.tokens = q.tokens

\* One more token belongs to it.
Counted(a) == [a EXCEPT !.size = @ + 1]

LEMMA CountedIs ==
    ASSUME NEW type, NEW start, NEW end, NEW size
    PROVE  Counted(Tok(type, start, end, size)) = Tok(type, start, end, size + 1)
  BY DEF Counted, Tok

\* What jsmn_fill_token does when there is room.
LEMMA FilledExactly ==
    ASSUME NEW q \in Parser, Len(q.tokens) < NumTokens, q.toksuper \in 1 .. Len(q.tokens),
           NEW type \in TokenType, NEW start \in Nat, NEW end \in Int
    PROVE  LET s == Filled(q, type, start, end)
           IN  /\ s \in Parser /\ Len(s.tokens) = Len(q.tokens) + 1 /\ OnlyTokens(s, q)
               /\ \A i \in 1 .. Len(q.tokens) : i # q.toksuper => s.tokens[i] = q.tokens[i]
               /\ s.tokens[q.toksuper] = Counted(q.tokens[q.toksuper])
               /\ s.tokens[Len(q.tokens) + 1] = Tok(type, start, end, 0)
  <1> DEFINE j == q.toksuper
             old == q.tokens
             k == Len(q.tokens)
             up == Counted(old[j])
             new == [old EXCEPT ![j] = up]
             tok == Tok(type, start, end, 0)
             s == Filled(q, type, start, end)
  <1>t. old \in Seq(Token) /\ j \in 1 .. k /\ k = Len(old) /\ k \in Nat /\ old[j] \in Token
    BY DEF Parser
  <1>1. s = [q EXCEPT !.tokens = Append(new, tok)]
    <2>1. ~(Len(q.tokens) >= NumTokens) /\ q.toksuper # 0
      BY NumTokensAssumption
    <2> QED
      BY <2>1 DEF Filled, Tok, Counted
  <1>2. up \in Token /\ tok \in Token
    <2>1. ASSUME NEW x \in Token PROVE Counted(x) \in Token
      BY DEF Token, Counted
    <2>2. up \in Token
      BY <1>t, <2>1
    <2>3. tok \in Token
      BY DEF Token, TokenType, Tok
    <2> QED
      BY <2>2, <2>3
  <1>3. up = Counted(old[j])
    OBVIOUS
  <1> HIDE DEF old, j, k, up, tok, s
  <1>4. /\ new \in Seq(Token) /\ Len(new) = k
        /\ \A i \in 1 .. k : i # j => new[i] = old[i]
        /\ new[j] = up
    BY <1>t, <1>2
  <1> HIDE DEF new
  <1>5. /\ Append(new, tok) \in Seq(Token) /\ Len(Append(new, tok)) = k + 1
        /\ \A i \in 1 .. k : i # j => Append(new, tok)[i] = old[i]
        /\ Append(new, tok)[j] = up /\ Append(new, tok)[k + 1] = tok
    BY <1>t, <1>2, <1>4
  <1>6. s \in Parser /\ s.tokens = Append(new, tok) /\ OnlyTokens(s, q)
    <2>1. Append(new, tok) \in Seq(Token)
      BY <1>5
    <2> QED
      BY <1>1, <2>1, ParserChanges DEF OnlyTokens
  <1> QED
    BY <1>3, <1>5, <1>6 DEF old, j, k, tok, s

\* A string begins, goes on and ends.
LEMMA StringBegins ==
    ASSUME NEW q, NEW k, NEW super, InMode(q, "top", k, super), NEW n \in Nat
    PROVE  LET s == Parsed(q, "quote", n)
           IN  InMode(s, "string", k, super) /\ s.start = n /\ SameTokens(s, q)
  <1>1. Parsed(q, "quote", n) = [q EXCEPT !.mode = "string", !.start = n]
    BY DEF Parsed, TopLevel, Begun, InMode
  <1> QED
    BY <1>1 DEF InMode, SameTokens, Parser

LEMMA StringGoesOn ==
    ASSUME NEW q, q.mode = "string", NEW c, c \notin {"quote", "backslash"}, NEW n
    PROVE  Parsed(q, c, n) = q
  BY DEF Parsed, jsmn_parse_string

LEMMA StringIsDone ==
    ASSUME NEW q, NEW k \in Nat, NEW super \in 1 .. k, InMode(q, "string", k, super),
           k < NumTokens, NEW n \in Nat
    PROVE  LET s == Parsed(q, "quote", n)
           IN  /\ InMode(s, "top", k + 1, super)
               /\ \A i \in 1 .. k : i # super => s.tokens[i] = q.tokens[i]
               /\ s.tokens[super] = Counted(q.tokens[super])
               /\ s.tokens[k + 1] = Tok("STRING", q.start + 1, n, 0)
  <1> DEFINE f == Filled(q, "STRING", q.start + 1, n)
             s == Parsed(q, "quote", n)
  <1>1. s = [f EXCEPT !.mode = "top"]
    BY DEF Parsed, jsmn_parse_string, InMode
  <1>2. /\ q \in Parser /\ Len(q.tokens) = k /\ q.toksuper = super /\ q.ret = "RUN"
        /\ q.start + 1 \in Nat /\ n \in Int /\ "STRING" \in TokenType
    BY DEF InMode, Parser, TokenType
  <1>3. /\ f \in Parser /\ Len(f.tokens) = k + 1 /\ OnlyTokens(f, q)
        /\ \A i \in 1 .. k : i # super => f.tokens[i] = q.tokens[i]
        /\ f.tokens[super] = Counted(q.tokens[super])
        /\ f.tokens[k + 1] = Tok("STRING", q.start + 1, n, 0)
    <2>1. Len(q.tokens) < NumTokens /\ q.toksuper \in 1 .. Len(q.tokens)
      BY <1>2
    <2>2. /\ f \in Parser /\ Len(f.tokens) = Len(q.tokens) + 1 /\ OnlyTokens(f, q)
          /\ \A i \in 1 .. Len(q.tokens) : i # q.toksuper => f.tokens[i] = q.tokens[i]
          /\ f.tokens[q.toksuper] = Counted(q.tokens[q.toksuper])
          /\ f.tokens[Len(q.tokens) + 1] = Tok("STRING", q.start + 1, n, 0)
      BY <1>2, <2>1, FilledExactly
    <2> HIDE DEF f
    <2> QED
      BY <1>2, <2>2
  <1> HIDE DEF f, s
  <1>4. /\ s \in Parser /\ s.tokens = f.tokens /\ s.toksuper = f.toksuper /\ s.ret = f.ret
        /\ s.mode = "top"
    BY <1>1, <1>3 DEF Parser
  <1> QED
    BY <1>2, <1>3, <1>4 DEF InMode, OnlyTokens, s

\* A colon makes what follows belong to the last token, a comma to the only container.
LEMMA ColonPasses ==
    ASSUME NEW q, NEW k \in Nat, NEW super, InMode(q, "top", k, super), NEW n
    PROVE  LET s == Parsed(q, "colon", n)
           IN  InMode(s, "top", k, k) /\ SameTokens(s, q)
  <1>1. Parsed(q, "colon", n) = [q EXCEPT !.toksuper = k]
    BY DEF Parsed, TopLevel, Colon, InMode
  <1> QED
    BY <1>1 DEF InMode, SameTokens, Parser

OthersClosed(toks, k) == \A i \in 2 .. k : toks[i].end # -1

LEMMA OnlyObject ==
    ASSUME NEW q \in Parser, Len(q.tokens) >= 1, q.tokens[1].end = -1,
           OthersClosed(q.tokens, Len(q.tokens))
    PROVE  OpenTokens(q) = {1} /\ Innermost({1}) = 1
  <1>1. DOMAIN q.tokens = 1 .. Len(q.tokens) /\ Len(q.tokens) \in Nat
    BY DEF Parser
  <1>2. \A i \in 1 .. Len(q.tokens) : q.tokens[i].end = -1 <=> i = 1
    BY <1>1 DEF OthersClosed
  <1>3. OpenTokens(q) = {1}
    BY <1>1, <1>2 DEF OpenTokens
  <1>4. Innermost({1}) = 1
    BY InnermostIs
  <1> QED
    BY <1>3, <1>4

LEMMA CommaPasses ==
    ASSUME NEW q, NEW k \in Nat, NEW super \in 1 .. k, InMode(q, "top", k, super), NEW n,
           q.tokens[super].type = "STRING", q.tokens[1].end = -1, OthersClosed(q.tokens, k)
    PROVE  LET s == Parsed(q, "comma", n)
           IN  InMode(s, "top", k, 1) /\ SameTokens(s, q)
  <1>1. OpenTokens(q) = {1} /\ Innermost({1}) = 1
    BY OnlyObject DEF InMode
  <1>2. q.toksuper # 0 /\ q.tokens[q.toksuper].type \notin Container
    BY DEF InMode, Container
  <1>3. Parsed(q, "comma", n) = Comma(q)
    BY DEF Parsed, TopLevel, InMode
  <1>4. Comma(q) = [q EXCEPT !.toksuper = 1]
    BY <1>1, <1>2 DEF Comma
  <1> QED
    BY <1>3, <1>4 DEF InMode, SameTokens, Parser

\* The bracket at 0 begins the object, the one at n ends it.
LEMMA ObjectBegins ==
    LET s == Parsed(jsmn_init, "lbrace", 0)
    IN  InMode(s, "top", 1, 1) /\ s.tokens[1] = Tok("OBJECT", 0, -1, 0)
  <1> DEFINE tok == Tok("OBJECT", 0, -1, 0)
             f == Filled(jsmn_init, "OBJECT", 0, -1)
  <1>1. tok \in Token
    BY DEF Token, Container, Tok
  <1>2. ~(Len(jsmn_init.tokens) >= NumTokens) /\ jsmn_init.toksuper = 0
    BY NumTokensAssumption DEF jsmn_init
  <1>3. f = [jsmn_init EXCEPT !.tokens = Append(<<>>, tok)]
    <2>1. f = [jsmn_init EXCEPT !.tokens = Append(jsmn_init.tokens, tok)]
      BY <1>2 DEF Filled, Tok
    <2>2. jsmn_init.tokens = <<>>
      BY DEF jsmn_init
    <2> QED
      BY <2>1, <2>2
  <1>4. Append(<<>>, tok) \in Seq(Token) /\ Len(Append(<<>>, tok)) = 1 /\ Append(<<>>, tok)[1] = tok
    <2> HIDE DEF tok
    <2>1. <<>> \in Seq(Token)
      OBVIOUS
    <2> QED
      BY <1>1, <2>1
  <1>5. jsmn_init \in Parser
    BY DEF jsmn_init, Parser
  <1>6. jsmn_init.mode = "top" /\ jsmn_init.ret = "RUN"
    BY DEF jsmn_init
  <1> HIDE DEF tok
  <1>7. f \in Parser /\ f.tokens = Append(<<>>, tok) /\ f.ret = "RUN" /\ f.mode = "top"
    BY <1>3, <1>4, <1>5, <1>6 DEF Parser
  <1>8. Parsed(jsmn_init, "lbrace", 0) = Opened(jsmn_init, "OBJECT", 0)
    BY <1>6 DEF Parsed, TopLevel
  <1>9. Opened(jsmn_init, "OBJECT", 0) = [f EXCEPT !.toksuper = 1]
    <2>1. Opened(jsmn_init, "OBJECT", 0) = IF f.ret = "RUN" THEN [f EXCEPT !.toksuper = Len(f.tokens)] ELSE f
      BY DEF Opened
    <2> HIDE DEF f
    <2> QED
      BY <1>4, <1>7, <2>1
  <1> DEFINE s == [f EXCEPT !.toksuper = 1]
  <1> HIDE DEF f
  <1>10. /\ s \in Parser /\ s.tokens = f.tokens /\ s.ret = "RUN" /\ s.mode = "top"
         /\ s.toksuper = 1
    BY <1>7 DEF Parser
  <1>11. InMode(s, "top", 1, 1) /\ s.tokens[1] = tok
    <2> HIDE DEF s
    <2> QED
      BY <1>4, <1>7, <1>10 DEF InMode
  <1> QED
    BY <1>8, <1>9, <1>11 DEF tok

ObjectEnded(s, q, k, n, size) ==
    /\ InMode(s, "top", k, 0)
    /\ s.tokens[1] = Tok("OBJECT", 0, n + 1, size)
    /\ \A i \in 2 .. k : s.tokens[i] = q.tokens[i]

LEMMA ObjectEnds ==
    ASSUME NEW q, NEW k \in Nat, k >= 1, NEW super, InMode(q, "top", k, super), NEW n \in Nat,
           NEW size, q.tokens[1] = Tok("OBJECT", 0, -1, size), OthersClosed(q.tokens, k)
    PROVE  ObjectEnded(TopLevel(q, "rbrace", n), q, k, n, size)
  <1> DEFINE old == q.tokens
             x == old[1]
             z == [x EXCEPT !.end = n + 1]
             q1 == [q EXCEPT !.tokens = [old EXCEPT ![1] = z]]
             s == [q1 EXCEPT !.toksuper = 0]
  <1>t. q \in Parser /\ old \in Seq(Token) /\ Len(old) = k /\ x \in Token
    BY DEF InMode, Parser
  <1>1. OpenTokens(q) = {1} /\ Innermost({1}) = 1
    <2>1. q.tokens[1].end = -1
      BY DEF Tok
    <2> QED
      BY <2>1, OnlyObject DEF InMode
  <1>2. TopLevel(q, "rbrace", n) = Closed(q, "OBJECT", n)
    BY DEF TopLevel, InMode
  <1>3. x.type = "OBJECT" /\ x = Tok("OBJECT", 0, -1, size)
    BY DEF Tok
  <1>4. Innermost({1} \ {1}) = 0
    BY DEF Innermost
  <1>5. Closed(q, "OBJECT", n) = [q EXCEPT !.tokens[1].end = n + 1, !.toksuper = 0]
    <2>1. {1} # {}
      OBVIOUS
    <2> QED
      BY <1>1, <1>3, <1>4, <2>1 DEF Closed
  <1>6. [q EXCEPT !.tokens[1].end = n + 1, !.toksuper = 0] = s
    BY <1>t DEF Parser
  <1>7. z \in Token /\ z = Tok("OBJECT", 0, n + 1, size)
    <2>1. ASSUME NEW y \in Token PROVE [y EXCEPT !.end = n + 1] \in Token
      BY DEF Token
    <2>2. z \in Token
      BY <1>t, <2>1
    <2>3. z = Tok("OBJECT", 0, n + 1, size)
      BY <1>3 DEF Tok
    <2> QED
      BY <2>2, <2>3
  <1> DEFINE new == [old EXCEPT ![1] = z]
  <1> HIDE DEF old, x, z
  <1>8. new \in Seq(Token) /\ Len(new) = k /\ new[1] = z /\ \A i \in 2 .. k : new[i] = old[i]
    BY <1>t, <1>7
  <1>9. q1 = [q EXCEPT !.tokens = new]
    OBVIOUS
  <1> HIDE DEF new, q1
  <1>10. /\ q1 \in Parser /\ q1.tokens = new /\ q1.ret = q.ret /\ q1.mode = q.mode
    BY <1>t, <1>8, <1>9 DEF Parser
  <1>11. /\ s \in Parser /\ s.tokens = new /\ s.ret = q.ret /\ s.mode = q.mode /\ s.toksuper = 0
    BY <1>10 DEF Parser
  <1> HIDE DEF s
  <1>12. InMode(s, "top", k, 0)
    BY <1>8, <1>11 DEF InMode
  <1>13. s.tokens[1] = Tok("OBJECT", 0, n + 1, size) /\ \A i \in 2 .. k : s.tokens[i] = q.tokens[i]
    BY <1>7, <1>8, <1>11 DEF old
  <1> QED
    BY <1>2, <1>5, <1>6, <1>12, <1>13 DEF ObjectEnded

\* A primitive begins, goes on and ends with the object.
LEMMA PrimitiveBegins ==
    ASSUME NEW q, NEW k, NEW super, InMode(q, "top", k, super), NEW n \in Nat,
           NEW c \in {"b", "n", "0", "u", "x"}
    PROVE  LET s == Parsed(q, c, n)
           IN  InMode(s, "primitive", k, super) /\ s.start = n /\ SameTokens(s, q)
  <1>1. Parsed(q, c, n) = [q EXCEPT !.mode = "primitive", !.start = n]
    BY DEF Parsed, TopLevel, Begun, InMode
  <1> QED
    BY <1>1 DEF InMode, SameTokens, Parser

LEMMA PrimitiveGoesOn ==
    ASSUME NEW q, q.mode = "primitive", NEW c \in {"b", "n", "0", "u", "x"}, NEW n
    PROVE  Parsed(q, c, n) = q
  BY DEF Parsed, jsmn_parse_primitive, Separator

LastEnded(s, q, k, super, n) ==
    /\ InMode(s, "top", k + 1, 0)
    /\ s.tokens[1] = Tok("OBJECT", 0, n + 1, 2)
    /\ \A i \in 2 .. k : i # super => s.tokens[i] = q.tokens[i]
    /\ s.tokens[super] = Counted(q.tokens[super])
    /\ s.tokens[k + 1] = Tok("PRIMITIVE", q.start, n, 0)

LEMMA PrimitiveIsDone ==
    ASSUME NEW q, NEW k \in Nat, NEW super \in 2 .. k, InMode(q, "primitive", k, super),
           k < NumTokens, NEW n \in Nat, n > q.start,
           q.tokens[1] = Tok("OBJECT", 0, -1, 2), OthersClosed(q.tokens, k),
           NEW ty, NEW st, NEW en, q.tokens[super] = Tok(ty, st, en, 0)
    PROVE  LastEnded(Parsed(q, "rbrace", n), q, k, super, n)
  <1> DEFINE f == Filled(q, "PRIMITIVE", q.start, n)
             g == [f EXCEPT !.mode = "top"]
             s == TopLevel(g, "rbrace", n)
  <1>1. Parsed(q, "rbrace", n) = s
    BY DEF Parsed, jsmn_parse_primitive, Separator, PrimitiveRead, InMode
  <1>2. /\ q \in Parser /\ Len(q.tokens) = k /\ q.toksuper = super /\ q.ret = "RUN"
        /\ q.start \in Nat /\ n \in Int /\ "PRIMITIVE" \in TokenType
        /\ q.toksuper \in 1 .. k
    BY DEF InMode, Parser, TokenType
  <1>3. /\ f \in Parser /\ Len(f.tokens) = k + 1 /\ OnlyTokens(f, q)
        /\ \A i \in 1 .. k : i # super => f.tokens[i] = q.tokens[i]
        /\ f.tokens[super] = Tok(ty, st, en, 0 + 1)
        /\ f.tokens[super] = Counted(q.tokens[super])
        /\ f.tokens[k + 1] = Tok("PRIMITIVE", q.start, n, 0)
    <2>1. Len(q.tokens) < NumTokens /\ q.toksuper \in 1 .. Len(q.tokens)
      BY <1>2
    <2>2. /\ f \in Parser /\ Len(f.tokens) = Len(q.tokens) + 1 /\ OnlyTokens(f, q)
          /\ \A i \in 1 .. Len(q.tokens) : i # q.toksuper => f.tokens[i] = q.tokens[i]
          /\ f.tokens[q.toksuper] = Counted(q.tokens[q.toksuper])
          /\ f.tokens[Len(q.tokens) + 1] = Tok("PRIMITIVE", q.start, n, 0)
      BY <1>2, <2>1, FilledExactly
    <2> HIDE DEF f
    <2>3. Counted(Tok(ty, st, en, 0)) = Tok(ty, st, en, 0 + 1)
      BY CountedIs
    <2> QED
      BY <1>2, <2>2, <2>3
  <1> HIDE DEF f
  <1>4. /\ g \in Parser /\ g.tokens = f.tokens /\ g.toksuper = f.toksuper /\ g.ret = f.ret
        /\ g.mode = "top"
    BY <1>3 DEF Parser
  <1> HIDE DEF g
  <1>5. InMode(g, "top", k + 1, super)
    BY <1>2, <1>3, <1>4 DEF InMode, OnlyTokens
  <1>6. g.tokens[1] = Tok("OBJECT", 0, -1, 2)
    BY <1>3, <1>4
  <1>7. OthersClosed(g.tokens, k + 1)
    <2> SUFFICES ASSUME NEW i \in 2 .. k + 1 PROVE g.tokens[i].end # -1
      BY DEF OthersClosed
    <2>1. CASE i = k + 1
      BY <1>3, <1>4, <2>1 DEF Tok
    <2>2. CASE i = super
      <3>1. q.tokens[super].end # -1 /\ q.tokens[super].end = en
        BY DEF Tok, OthersClosed
      <3> QED
        BY <1>3, <1>4, <2>2, <3>1 DEF Tok
    <2>3. CASE i \in 2 .. k /\ i # super
      BY <1>3, <1>4, <2>3 DEF OthersClosed
    <2> QED
      BY <2>1, <2>2, <2>3
  <1>8. ObjectEnded(s, g, k + 1, n, 2)
    <2>1. k + 1 \in Nat /\ k + 1 >= 1
      OBVIOUS
    <2> QED
      BY <1>5, <1>6, <1>7, <2>1, ObjectEnds
  <1> HIDE DEF s
  <1>9. /\ \A i \in 2 .. k : i # super => s.tokens[i] = q.tokens[i]
        /\ s.tokens[super] = Counted(q.tokens[super])
        /\ s.tokens[k + 1] = Tok("PRIMITIVE", q.start, n, 0)
    BY <1>3, <1>4, <1>8 DEF ObjectEnded
  <1> QED
    BY <1>1, <1>8, <1>9 DEF LastEnded, ObjectEnded

\* The tokens of a command as they come: the object, its first key, the name, its
\* second key and the value.
One(toks) == toks[1] = Tok("OBJECT", 0, -1, 0)

Two(toks, e1) ==
    /\ toks[1] = Tok("OBJECT", 0, -1, 1)
    /\ toks[2] = Tok("STRING", 2, e1, 0)

Three(toks, e1, e2) ==
    /\ toks[1] = Tok("OBJECT", 0, -1, 1)
    /\ toks[2] = Tok("STRING", 2, e1, 1)
    /\ toks[3] = Tok("STRING", e1 + 3, e2, 0)

Four(toks, e1, e2, e3) ==
    /\ toks[1] = Tok("OBJECT", 0, -1, 2)
    /\ toks[2] = Tok("STRING", 2, e1, 1)
    /\ toks[3] = Tok("STRING", e1 + 3, e2, 0)
    /\ toks[4] = Tok("STRING", e2 + 3, e3, 0)

Five(toks, t, end, e1, e2, e3) ==
    /\ toks[1] = Tok("OBJECT", 0, end, 2)
    /\ toks[2] = Tok("STRING", 2, e1, 1)
    /\ toks[3] = Tok("STRING", e1 + 3, e2, 0)
    /\ toks[4] = Tok("STRING", e2 + 3, e3, 1)
    /\ toks[5] \in {Tok("STRING", t.value.start, t.value.end, 0),
                    Tok("PRIMITIVE", t.value.start, t.value.end, 0)}

InStringFrom(q, i, k, super) == InMode(q, "string", k, super) /\ q.start = i

\* The parser when n characters of a command are read.
Phase(q, t, n, e1, e2, e3, e4) ==
    \/ n = 0 /\ q = jsmn_init
    \/ n = 1 /\ InMode(q, "top", 1, 1) /\ One(q.tokens)
    \/ n \in 2 .. e1 /\ InStringFrom(q, 1, 1, 1) /\ One(q.tokens)
    \/ n = e1 + 1 /\ InMode(q, "top", 2, 1) /\ Two(q.tokens, e1)
    \/ n = e1 + 2 /\ InMode(q, "top", 2, 2) /\ Two(q.tokens, e1)
    \/ n \in e1 + 3 .. e2 /\ InStringFrom(q, e1 + 2, 2, 2) /\ Two(q.tokens, e1)
    \/ n = e2 + 1 /\ InMode(q, "top", 3, 2) /\ Three(q.tokens, e1, e2)
    \/ n = e2 + 2 /\ InMode(q, "top", 3, 1) /\ Three(q.tokens, e1, e2)
    \/ n \in e2 + 3 .. e3 /\ InStringFrom(q, e2 + 2, 3, 1) /\ Three(q.tokens, e1, e2)
    \/ n = e3 + 1 /\ InMode(q, "top", 4, 1) /\ Four(q.tokens, e1, e2, e3)
    \/ n = e3 + 2 /\ InMode(q, "top", 4, 4) /\ Four(q.tokens, e1, e2, e3)
    \/ /\ StringValue(t, e3, e4) /\ n \in e3 + 3 .. e4
       /\ InStringFrom(q, e3 + 2, 4, 4) /\ Four(q.tokens, e1, e2, e3)
    \/ /\ StringValue(t, e3, e4) /\ n = e4 + 1
       /\ InMode(q, "top", 5, 4) /\ Five(q.tokens, t, -1, e1, e2, e3)
    \/ /\ PlainValue(t, e3, e4) /\ n \in e3 + 3 .. e4
       /\ InMode(q, "primitive", 4, 4) /\ q.start = e3 + 2 /\ Four(q.tokens, e1, e2, e3)
    \/ n = Len(t.chars) /\ InMode(q, "top", 5, 0) /\ Five(q.tokens, t, n, e1, e2, e3)

LEMMA OneChar ==
    ASSUME NEW t, NEW k \in Nat, NEW x, Only(t, k, k, {x}), NEW n, n = k,
           NEW c, c \in t.chars[n + 1]
    PROVE  c = x
  BY DEF Only

LEMMA CharOf ==
    ASSUME NEW t, NEW i, NEW k, NEW S, Only(t, i, k, S), NEW n \in i .. k,
           NEW c, c \in t.chars[n + 1]
    PROVE  c \in S
  BY DEF Only

\* A string that begins at i and ends at e.
StringEnded(s, q, k, super, i, e) ==
    /\ InMode(s, "top", k + 1, super)
    /\ \A j \in 1 .. k : j # super => s.tokens[j] = q.tokens[j]
    /\ s.tokens[super] = Counted(q.tokens[super])
    /\ s.tokens[k + 1] = Tok("STRING", i + 1, e, 0)

LEMMA StringStep ==
    ASSUME NEW t, NEW i \in Nat, NEW e \in Nat, IsString(t, i, e),
           NEW q, NEW k \in Nat, k < NumTokens, NEW super \in 1 .. k,
           NEW n \in i + 1 .. e, InStringFrom(q, i, k, super),
           NEW c \in Char, c \in t.chars[n + 1]
    PROVE  /\ n < e => Parsed(q, c, n) = q
           /\ n = e => StringEnded(Parsed(q, c, n), q, k, super, i, e)
  <1>1. CASE n < e
    <2>1. n \in i + 1 .. e - 1 /\ Only(t, i + 1, e - 1, Char \ {"quote", "backslash"})
      BY <1>1 DEF IsString
    <2>2. c \in Char \ {"quote", "backslash"}
      BY <2>1, CharOf
    <2>3. Parsed(q, c, n) = q
      BY <2>2, StringGoesOn DEF InStringFrom, InMode
    <2> QED
      BY <1>1, <2>3
  <1>2. CASE n = e
    <2>1. n \in e .. e /\ Only(t, e, e, {"quote"}) /\ n \in Nat
      BY <1>2 DEF IsString
    <2>2. c = "quote"
      BY <2>1, CharOf
    <2> DEFINE s == Parsed(q, "quote", n)
    <2>3. /\ InMode(s, "top", k + 1, super)
          /\ \A j \in 1 .. k : j # super => s.tokens[j] = q.tokens[j]
          /\ s.tokens[super] = Counted(q.tokens[super])
          /\ s.tokens[k + 1] = Tok("STRING", q.start + 1, n, 0)
      BY <2>1, StringIsDone DEF InStringFrom
    <2>4. q.start = i
      BY DEF InStringFrom
    <2> QED
      BY <1>2, <2>2, <2>3, <2>4 DEF StringEnded
  <1> QED
    BY <1>1, <1>2

LEMMA CommandStep ==
    ASSUME NumTokens >= 5, NEW t \in Template, NEW e1 \in Nat, NEW e2 \in Nat, NEW e3 \in Nat, NEW e4 \in Nat,
           IsCommand(t, e1, e2, e3, e4), NEW q, NEW n \in 0 .. Len(t.chars) - 1,
           Phase(q, t, n, e1, e2, e3, e4), NEW c \in Char, c \in t.chars[n + 1]
    PROVE  Phase(Parsed(q, c, n), t, n + 1, e1, e2, e3, e4)
  <1> DEFINE s == Parsed(q, c, n)
  <1> SUFFICES Phase(s, t, n + 1, e1, e2, e3, e4)
    OBVIOUS
  <1>e. 2 <= e1 /\ e1 + 3 <= e2 /\ e2 + 3 <= e3 /\ e3 + 3 <= e4 /\ n \in Nat
    BY DEF IsCommand
  <1>s. ASSUME NEW k \in Nat, Only(t, k, k, {"quote"}), n = k PROVE c = "quote"
    BY <1>s, OneChar
  <1>1. CASE n = 0 /\ q = jsmn_init
    <2>1. Only(t, 0, 0, {"lbrace"}) /\ 0 \in Nat
      BY DEF IsCommand
    <2>2. c = "lbrace"
      BY <1>1, <2>1, OneChar
    <2>3. n + 1 = 1 /\ InMode(s, "top", 1, 1) /\ One(s.tokens)
      BY <1>1, <2>2, ObjectBegins DEF One
    <2> QED
      BY <2>3 DEF Phase
  <1>2. CASE n = 1 /\ InMode(q, "top", 1, 1) /\ One(q.tokens)
    <2>1. Only(t, 1, 1, {"quote"})
      BY <1>e DEF IsCommand, IsString
    <2>2. c = "quote"
      BY <1>e, <1>s, <1>2, <2>1
    <2>3. InMode(s, "string", 1, 1) /\ s.start = n /\ SameTokens(s, q)
      BY <1>e, <1>2, <2>2, StringBegins
    <2> HIDE DEF s
    <2>4. InStringFrom(s, 1, 1, 1) /\ One(s.tokens)
      BY <1>2, <2>3 DEF InStringFrom, SameTokens
    <2>5. n + 1 \in 2 .. e1
      BY <1>e, <1>2
    <2> QED
      BY <2>4, <2>5 DEF Phase
  <1>3. CASE n \in 1 + 1 .. e1 /\ InStringFrom(q, 1, 1, 1) /\ One(q.tokens)
    <2>1. /\ IsString(t, 1, e1) /\ 1 \in Nat /\ 1 < NumTokens
          /\ 1 \in Nat /\ 1 \in 1 .. 1 /\ n \in 1 + 1 .. e1 /\ e1 \in Nat
      BY <1>e, <1>3, NumTokensAssumption DEF IsCommand
    <2>2. /\ n < e1 => s = q
          /\ n = e1 => StringEnded(s, q, 1, 1, 1, e1)
      BY <1>3, <2>1, StringStep
    <2> HIDE DEF s
    <2>3. CASE n < e1
      <3>1. n + 1 \in 1 + 1 .. e1 /\ s = q
        BY <1>e, <1>3, <2>2, <2>3
      <3> QED
        BY <1>3, <3>1 DEF Phase
    <2>4. CASE n = e1
      <3>1. Counted(Tok("OBJECT", 0, -1, 0)) = Tok("OBJECT", 0, -1, 0 + 1)
        BY CountedIs
      <3>2. InMode(s, "top", 2, 1) /\ Two(s.tokens, e1)
        BY <1>3, <2>2, <2>4, <3>1 DEF StringEnded, One, Two
      <3> QED
        BY <1>3, <2>4, <3>2 DEF Phase
    <2> QED
      BY <1>e, <1>3, <2>3, <2>4
  <1>4. CASE n = e1 + 1 /\ InMode(q, "top", 2, 1) /\ Two(q.tokens, e1)
    <2>1. Only(t, e1 + 1, e1 + 1, {"colon"}) /\ e1 + 1 \in Nat
      BY <1>e DEF IsCommand
    <2>2. c = "colon"
      BY <1>4, <2>1, OneChar
    <2>3. InMode(s, "top", 2, 2) /\ SameTokens(s, q)
      BY <1>4, <2>2, ColonPasses
    <2> HIDE DEF s
    <2>4. n + 1 = e1 + 2 /\ InMode(s, "top", 2, 2) /\ Two(s.tokens, e1)
      BY <1>e, <1>4, <2>3 DEF SameTokens
    <2> QED
      BY <2>4 DEF Phase
  <1>5. CASE n = e1 + 2 /\ InMode(q, "top", 2, 2) /\ Two(q.tokens, e1)
    <2>1. Only(t, e1 + 2, e1 + 2, {"quote"})
      BY <1>e DEF IsCommand, IsString
    <2>2. c = "quote"
      BY <1>e, <1>s, <1>5, <2>1
    <2>3. InMode(s, "string", 2, 2) /\ s.start = n /\ SameTokens(s, q)
      BY <1>e, <1>5, <2>2, StringBegins
    <2> HIDE DEF s
    <2>4. InStringFrom(s, e1 + 2, 2, 2) /\ Two(s.tokens, e1)
      BY <1>5, <2>3 DEF InStringFrom, SameTokens
    <2>5. n + 1 \in e1 + 3 .. e2
      BY <1>e, <1>5
    <2> QED
      BY <2>4, <2>5 DEF Phase
  <1>6. CASE n \in e1 + 2 + 1 .. e2 /\ InStringFrom(q, e1 + 2, 2, 2) /\ Two(q.tokens, e1)
    <2>1. /\ IsString(t, e1 + 2, e2) /\ e1 + 2 \in Nat /\ 2 < NumTokens
          /\ 2 \in Nat /\ 2 \in 1 .. 2 /\ n \in e1 + 2 + 1 .. e2 /\ e2 \in Nat
      BY <1>e, <1>6, NumTokensAssumption DEF IsCommand
    <2>2. /\ n < e2 => s = q
          /\ n = e2 => StringEnded(s, q, 2, 2, e1 + 2, e2)
      BY <1>6, <2>1, StringStep
    <2> HIDE DEF s
    <2>3. CASE n < e2
      <3>1. n + 1 \in e1 + 2 + 1 .. e2 /\ s = q
        BY <1>e, <1>6, <2>2, <2>3
      <3> QED
        BY <1>6, <3>1 DEF Phase
    <2>4. CASE n = e2
      <3>1. Counted(Tok("STRING", 2, e1, 0)) = Tok("STRING", 2, e1, 0 + 1)
        BY CountedIs
      <3>2. InMode(s, "top", 3, 2) /\ Three(s.tokens, e1, e2)
        BY <1>6, <2>2, <2>4, <3>1 DEF StringEnded, Two, Three
      <3> QED
        BY <1>6, <2>4, <3>2 DEF Phase
    <2> QED
      BY <1>e, <1>6, <2>3, <2>4
  <1>7. CASE n = e2 + 1 /\ InMode(q, "top", 3, 2) /\ Three(q.tokens, e1, e2)
    <2>1. Only(t, e2 + 1, e2 + 1, {"comma"}) /\ e2 + 1 \in Nat
      BY <1>e DEF IsCommand
    <2>2. c = "comma"
      BY <1>7, <2>1, OneChar
    <2>3. /\ q.tokens[2].type = "STRING" /\ q.tokens[1].end = -1
          /\ q.tokens[2].end = e1 /\ q.tokens[3].end = e2
      BY <1>7 DEF Three, Tok
    <2>4. OthersClosed(q.tokens, 3)
      <3>1. \A i \in 2 .. 3 : i = 2 \/ i = 3
        OBVIOUS
      <3> QED
        BY <2>3, <3>1 DEF OthersClosed
    <2>a. 3 \in Nat /\ 2 \in 1 .. 3
      OBVIOUS
    <2>5. InMode(s, "top", 3, 1) /\ SameTokens(s, q)
      BY <1>7, <2>a, <2>2, <2>3, <2>4, CommaPasses
    <2> HIDE DEF s
    <2>6. n + 1 = e2 + 2 /\ InMode(s, "top", 3, 1) /\ Three(s.tokens, e1, e2)
      BY <1>e, <1>7, <2>5 DEF SameTokens
    <2> QED
      BY <2>6 DEF Phase
  <1>8. CASE n = e2 + 2 /\ InMode(q, "top", 3, 1) /\ Three(q.tokens, e1, e2)
    <2>1. Only(t, e2 + 2, e2 + 2, {"quote"})
      BY <1>e DEF IsCommand, IsString
    <2>2. c = "quote"
      BY <1>e, <1>s, <1>8, <2>1
    <2>3. InMode(s, "string", 3, 1) /\ s.start = n /\ SameTokens(s, q)
      BY <1>e, <1>8, <2>2, StringBegins
    <2> HIDE DEF s
    <2>4. InStringFrom(s, e2 + 2, 3, 1) /\ Three(s.tokens, e1, e2)
      BY <1>8, <2>3 DEF InStringFrom, SameTokens
    <2>5. n + 1 \in e2 + 3 .. e3
      BY <1>e, <1>8
    <2> QED
      BY <2>4, <2>5 DEF Phase
  <1>9. CASE n \in e2 + 2 + 1 .. e3 /\ InStringFrom(q, e2 + 2, 3, 1) /\ Three(q.tokens, e1, e2)
    <2>1. /\ IsString(t, e2 + 2, e3) /\ e2 + 2 \in Nat /\ 3 < NumTokens
          /\ 3 \in Nat /\ 1 \in 1 .. 3 /\ n \in e2 + 2 + 1 .. e3 /\ e3 \in Nat
      BY <1>e, <1>9, NumTokensAssumption DEF IsCommand
    <2>2. /\ n < e3 => s = q
          /\ n = e3 => StringEnded(s, q, 3, 1, e2 + 2, e3)
      BY <1>9, <2>1, StringStep
    <2> HIDE DEF s
    <2>3. CASE n < e3
      <3>1. n + 1 \in e2 + 2 + 1 .. e3 /\ s = q
        BY <1>e, <1>9, <2>2, <2>3
      <3> QED
        BY <1>9, <3>1 DEF Phase
    <2>4. CASE n = e3
      <3>1. Counted(Tok("OBJECT", 0, -1, 1)) = Tok("OBJECT", 0, -1, 1 + 1)
        BY CountedIs
      <3>2. InMode(s, "top", 4, 1) /\ Four(s.tokens, e1, e2, e3)
        BY <1>9, <2>2, <2>4, <3>1 DEF StringEnded, Three, Four
      <3> QED
        BY <1>9, <2>4, <3>2 DEF Phase
    <2> QED
      BY <1>e, <1>9, <2>3, <2>4
  <1>10. CASE n = e3 + 1 /\ InMode(q, "top", 4, 1) /\ Four(q.tokens, e1, e2, e3)
    <2>1. Only(t, e3 + 1, e3 + 1, {"colon"}) /\ e3 + 1 \in Nat
      BY <1>e DEF IsCommand
    <2>2. c = "colon"
      BY <1>10, <2>1, OneChar
    <2>3. InMode(s, "top", 4, 4) /\ SameTokens(s, q)
      BY <1>10, <2>2, ColonPasses
    <2> HIDE DEF s
    <2>4. n + 1 = e3 + 2 /\ InMode(s, "top", 4, 4) /\ Four(s.tokens, e1, e2, e3)
      BY <1>e, <1>10, <2>3 DEF SameTokens
    <2> QED
      BY <2>4 DEF Phase
  <1>11. CASE n = e3 + 2 /\ InMode(q, "top", 4, 4) /\ Four(q.tokens, e1, e2, e3)
    <2>1. n + 1 \in e3 + 3 .. e4
      BY <1>e, <1>11
    <2>2. CASE StringValue(t, e3, e4)
      <3>1. Only(t, e3 + 2, e3 + 2, {"quote"})
        BY <2>2 DEF StringValue, IsString
      <3>2. c = "quote"
        BY <1>e, <1>s, <1>11, <3>1
      <3>3. InMode(s, "string", 4, 4) /\ s.start = n /\ SameTokens(s, q)
        BY <1>e, <1>11, <3>2, StringBegins
      <3> HIDE DEF s
      <3>4. InStringFrom(s, e3 + 2, 4, 4) /\ Four(s.tokens, e1, e2, e3)
        BY <1>11, <3>3 DEF InStringFrom, SameTokens
      <3> QED
        BY <2>1, <2>2, <3>4 DEF Phase
    <2>3. CASE PlainValue(t, e3, e4)
      <3>1. Only(t, e3 + 2, e4 - 1, {"b", "n", "0", "u", "x"}) /\ n \in e3 + 2 .. e4 - 1
        BY <1>e, <1>11, <2>3 DEF PlainValue
      <3>2. c \in {"b", "n", "0", "u", "x"}
        BY <3>1, CharOf
      <3>3. InMode(s, "primitive", 4, 4) /\ s.start = n /\ SameTokens(s, q)
        BY <1>e, <1>11, <3>2, PrimitiveBegins
      <3> HIDE DEF s
      <3>4. InMode(s, "primitive", 4, 4) /\ s.start = e3 + 2 /\ Four(s.tokens, e1, e2, e3)
        BY <1>11, <3>3 DEF SameTokens
      <3> QED
        BY <2>1, <2>3, <3>4 DEF Phase
    <2> QED
      BY <2>2, <2>3 DEF IsCommand
  <1>12. CASE StringValue(t, e3, e4) /\ n \in e3 + 2 + 1 .. e4 /\ InStringFrom(q, e3 + 2, 4, 4) /\ Four(q.tokens, e1, e2, e3)
    <2>1. /\ IsString(t, e3 + 2, e4) /\ e3 + 2 \in Nat /\ 4 < NumTokens
          /\ 4 \in Nat /\ 4 \in 1 .. 4 /\ n \in e3 + 2 + 1 .. e4 /\ e4 \in Nat
      <3>1. IsString(t, e3 + 2, e4) /\ n \in e3 + 2 + 1 .. e4
        BY <1>12 DEF StringValue
      <3>2. e3 + 2 \in Nat /\ 4 \in Nat /\ 4 \in 1 .. 4 /\ e4 \in Nat
        OBVIOUS
      <3>3. 4 < NumTokens
        BY NumTokensAssumption
      <3> QED
        BY <3>1, <3>2, <3>3
    <2>2. /\ n < e4 => s = q
          /\ n = e4 => StringEnded(s, q, 4, 4, e3 + 2, e4)
      BY <1>12, <2>1, StringStep
    <2> HIDE DEF s
    <2>3. CASE n < e4
      <3>1. n + 1 \in e3 + 2 + 1 .. e4 /\ s = q
        BY <1>e, <1>12, <2>2, <2>3
      <3> QED
        BY <1>12, <3>1 DEF Phase
    <2>4. CASE n = e4
      <3>1. Counted(Tok("STRING", e2 + 3, e3, 0)) = Tok("STRING", e2 + 3, e3, 0 + 1)
        BY CountedIs
      <3>2. InMode(s, "top", 5, 4) /\ Five(s.tokens, t, -1, e1, e2, e3)
        <4>1. t.value.start = e3 + 3 /\ t.value.end = e4 /\ e3 + 2 + 1 = e3 + 3
          BY <1>12 DEF StringValue
        <4>2. StringEnded(s, q, 4, 4, e3 + 2, e4)
          BY <2>2, <2>4
        <4>3. InMode(s, "top", 5, 4) /\ s.tokens[5] = Tok("STRING", t.value.start, t.value.end, 0)
          BY <4>1, <4>2 DEF StringEnded
        <4>4. /\ s.tokens[1] = q.tokens[1] /\ s.tokens[2] = q.tokens[2]
              /\ s.tokens[3] = q.tokens[3] /\ s.tokens[4] = Counted(q.tokens[4])
          BY <4>2 DEF StringEnded
        <4>5. Four(q.tokens, e1, e2, e3)
          BY <1>12
        <4> QED
          BY <3>1, <4>3, <4>4, <4>5 DEF Four, Five
      <3> QED
        BY <1>12, <2>4, <3>2 DEF Phase
    <2> QED
      BY <1>e, <1>12, <2>3, <2>4
  <1>13. CASE /\ StringValue(t, e3, e4) /\ n = e4 + 1
              /\ InMode(q, "top", 5, 4) /\ Five(q.tokens, t, -1, e1, e2, e3)
    <2>1. Only(t, e4 + 1, e4 + 1, {"rbrace"}) /\ e4 + 1 \in Nat /\ Len(t.chars) = e4 + 2
      BY <1>e, <1>13 DEF StringValue
    <2>2. c = "rbrace"
      BY <1>13, <2>1, OneChar
    <2>3. s = TopLevel(q, "rbrace", n)
      BY <1>13, <2>2 DEF Parsed, InMode
    <2>4. t.value.end = e4
      BY <1>13 DEF StringValue
    <2>5. /\ q.tokens[1] = Tok("OBJECT", 0, -1, 2)
          /\ q.tokens[2].end = e1 /\ q.tokens[3].end = e2 /\ q.tokens[4].end = e3
          /\ q.tokens[5].end = e4
      BY <1>13, <2>4 DEF Five, Tok
    <2>6. OthersClosed(q.tokens, 5)
      <3>1. \A i \in 2 .. 5 : i = 2 \/ i = 3 \/ i = 4 \/ i = 5
        OBVIOUS
      <3> QED
        BY <2>5, <3>1 DEF OthersClosed
    <2>a. 5 \in Nat /\ 5 >= 1 /\ n \in Nat
      BY <1>e
    <2>7. ObjectEnded(s, q, 5, n, 2)
      BY <1>13, <2>a, <2>3, <2>5, <2>6, ObjectEnds
    <2> HIDE DEF s
    <2>8. InMode(s, "top", 5, 0) /\ Five(s.tokens, t, n + 1, e1, e2, e3)
      BY <1>13, <2>7 DEF Five, ObjectEnded
    <2>9. n + 1 = Len(t.chars)
      BY <1>13, <1>e, <2>1
    <2> QED
      BY <2>8, <2>9 DEF Phase
  <1>14. CASE /\ PlainValue(t, e3, e4) /\ n \in e3 + 3 .. e4
              /\ InMode(q, "primitive", 4, 4) /\ q.start = e3 + 2 /\ Four(q.tokens, e1, e2, e3)
    <2>1. CASE n < e4
      <3>1. /\ Only(t, e3 + 2, e4 - 1, {"b", "n", "0", "u", "x"}) /\ n \in e3 + 2 .. e4 - 1
            /\ n + 1 \in e3 + 3 .. e4
        BY <1>e, <1>14, <2>1 DEF PlainValue
      <3>2. c \in {"b", "n", "0", "u", "x"}
        BY <3>1, CharOf
      <3>3. s = q
        BY <1>14, <3>2, PrimitiveGoesOn DEF InMode
      <3> QED
        BY <1>14, <3>1, <3>3 DEF Phase
    <2>2. CASE n = e4
      <3>1. /\ Only(t, e4, e4, {"rbrace"}) /\ n + 1 = Len(t.chars)
            /\ t.value = [start |-> e3 + 2, end |-> e4]
        BY <1>e, <1>14, <2>2 DEF PlainValue
      <3>2. c = "rbrace"
        BY <2>2, <3>1, OneChar
      <3>3. /\ q.tokens[1] = Tok("OBJECT", 0, -1, 2)
            /\ q.tokens[2].end = e1 /\ q.tokens[3].end = e2 /\ q.tokens[4].end = e3
            /\ q.tokens[4] = Tok("STRING", e2 + 3, e3, 0)
        BY <1>14 DEF Four, Tok
      <3>4. OthersClosed(q.tokens, 4)
        <4>1. \A i \in 2 .. 4 : i = 2 \/ i = 3 \/ i = 4
          OBVIOUS
        <4> QED
          BY <3>3, <4>1 DEF OthersClosed
      <3>5. n > q.start /\ 4 < NumTokens /\ 4 \in 2 .. 4
        BY <1>e, <1>14, NumTokensAssumption
      <3> DEFINE z == Parsed(q, "rbrace", n)
      <3>6. LastEnded(z, q, 4, 4, n)
        BY <1>14, <1>e, <3>3, <3>4, <3>5, PrimitiveIsDone
      <3> HIDE DEF z
      <3>7. InMode(z, "top", 5, 0) /\ Five(z.tokens, t, n + 1, e1, e2, e3)
        <4>1. Counted(Tok("STRING", e2 + 3, e3, 0)) = Tok("STRING", e2 + 3, e3, 0 + 1)
          BY CountedIs
        <4> QED
          BY <1>14, <2>2, <3>1, <3>6, <4>1 DEF Five, Four, LastEnded
      <3>8. s = z
        BY <3>2 DEF z
      <3> QED
        BY <3>1, <3>7, <3>8 DEF Phase
    <2> QED
      BY <1>e, <1>14, <2>1, <2>2
  <1>15. n # Len(t.chars)
    <2>1. Len(t.chars) \in Nat
      BY <1>e DEF IsCommand, StringValue, PlainValue
    <2> QED
      BY <2>1
  <1> HIDE DEF s
  <1>16. 1 + 1 = 2 /\ e1 + 2 + 1 = e1 + 3 /\ e2 + 2 + 1 = e2 + 3 /\ e3 + 2 + 1 = e3 + 3
    BY <1>e
  <1> QED
    BY <1>1, <1>2, <1>3, <1>4, <1>5, <1>6, <1>7, <1>8, <1>9, <1>10, <1>11, <1>12, <1>13, <1>14,
       <1>15, <1>16 DEF Phase

\* When it is read to its end, it is done.
LEMMA CommandEnds ==
    ASSUME NEW t, NEW e1 \in Nat, NEW e2 \in Nat, NEW e3 \in Nat, NEW e4 \in Nat,
           IsCommand(t, e1, e2, e3, e4), NEW q, NEW n \in Nat, n = Len(t.chars),
           Phase(q, t, n, e1, e2, e3, e4)
    PROVE  InMode(q, "top", 5, 0) /\ Five(q.tokens, t, n, e1, e2, e3)
  <1>1. /\ 2 <= e1 /\ e1 + 3 <= e2 /\ e2 + 3 <= e3 /\ e3 + 3 <= e4
        /\ n = e4 + 1 \/ n = e4 + 2
        /\ StringValue(t, e3, e4) => n = e4 + 2
    BY DEF IsCommand, StringValue, PlainValue
  <1>2. CASE n = e4 + 1 /\ ~StringValue(t, e3, e4)
    BY <1>1, <1>2 DEF Phase
  <1>3. CASE n = e4 + 2
    BY <1>1, <1>3 DEF Phase
  <1> QED
    BY <1>1, <1>2, <1>3

LEMMA CommandFinished ==
    ASSUME NEW t, NEW q, NEW n \in Nat, InMode(q, "top", 5, 0),
           t.value.end # -1, NEW e1 \in Nat, NEW e2 \in Nat, NEW e3 \in Nat,
           Five(q.tokens, t, n, e1, e2, e3)
    PROVE  LET s == Finished(q, n)
           IN  s.ret = "OK" /\ Len(s.tokens) = 5 /\ Five(s.tokens, t, n, e1, e2, e3)
  <1>1. q \in Parser /\ q.ret = "RUN" /\ q.mode = "top" /\ Len(q.tokens) = 5
    BY DEF InMode
  <1>2. /\ q.tokens[1].end # -1 /\ q.tokens[2].end # -1 /\ q.tokens[3].end # -1
        /\ q.tokens[4].end # -1 /\ q.tokens[5].end # -1
    BY DEF Five, Tok
  <1>3. OpenTokens(q) = {}
    <2>1. DOMAIN q.tokens = 1 .. 5
      BY <1>1 DEF Parser
    <2>2. \A i \in 1 .. 5 : i = 1 \/ i = 2 \/ i = 3 \/ i = 4 \/ i = 5
      OBVIOUS
    <2>3. \A i \in 1 .. 5 : q.tokens[i].end # -1
      BY <1>2, <2>2
    <2> QED
      BY <2>1, <2>3 DEF OpenTokens
  <1>4. Finished(q, n) = [q EXCEPT !.ret = "OK"]
    BY <1>1, <1>3 DEF Finished
  <1>5. /\ [q EXCEPT !.ret = "OK"].ret = "OK"
        /\ [q EXCEPT !.ret = "OK"].tokens = q.tokens
    BY <1>1 DEF Parser
  <1> QED
    BY <1>1, <1>4, <1>5

CommandInv ==
    \A e1, e2, e3, e4 \in Nat :
        template.command /\ IsCommand(template, e1, e2, e3, e4) =>
            /\ p.ret = "RUN" => Phase(p, template, Len(text), e1, e2, e3, e4)
            /\ p.ret # "RUN" /\ Len(text) = Len(template.chars) =>
                 /\ p.ret = "OK" /\ Len(p.tokens) = 5
                 /\ Five(p.tokens, template, Len(text), e1, e2, e3)

LEMMA CommandInvInit == Init => CommandInv
  <1> SUFFICES ASSUME Init, NEW e1 \in Nat, NEW e2 \in Nat, NEW e3 \in Nat, NEW e4 \in Nat
               PROVE  p.ret = "RUN" /\ Phase(p, template, Len(text), e1, e2, e3, e4)
    BY DEF CommandInv
  <1>1. Len(text) = 0 /\ p = jsmn_init /\ p.ret = "RUN"
    BY DEF Init, jsmn_init
  <1> QED
    BY <1>1 DEF Phase

LEMMA CommandInvStep ==
    ASSUME NumTokens >= 5, TypeOK, CommandInv, [Next]_vars
    PROVE  CommandInv'
  <1> USE DEF TypeOK
  <1>t. Len(text) \in Nat
    OBVIOUS
  <1>1. CASE ReadChar
    <2>1. PICK c \in template.chars[Len(text) + 1] :
            text' = Append(text, c) /\ p' = Parsed(p, c, Len(text))
      BY <1>1 DEF ReadChar
    <2>2. /\ p.ret = "RUN" /\ Len(text) < Len(template.chars) /\ template' = template
          /\ template.chars \in Seq(SUBSET Char)
      BY <1>1, TemplateAssumption DEF ReadChar
    <2>3. /\ c \in Char /\ Len(text') = Len(text) + 1
          /\ Len(text) \in 0 .. Len(template.chars) - 1
      BY <1>t, <2>1, <2>2
    <2> SUFFICES ASSUME NEW e1 \in Nat, NEW e2 \in Nat, NEW e3 \in Nat, NEW e4 \in Nat,
                        template.command, IsCommand(template, e1, e2, e3, e4)
                 PROVE  Phase(p', template, Len(text) + 1, e1, e2, e3, e4) /\ p'.ret = "RUN"
      BY <2>2, <2>3 DEF CommandInv
    <2>4. Phase(p, template, Len(text), e1, e2, e3, e4)
      BY <2>2 DEF CommandInv
    <2>5. Phase(p', template, Len(text) + 1, e1, e2, e3, e4)
      BY <2>1, <2>3, <2>4, CommandStep
    <2>6. Len(text) + 1 # 0
      BY <1>t
    <2>7. p'.ret = "RUN"
      BY <2>5, <2>6 DEF Phase, InMode, InStringFrom
    <2> QED
      BY <2>5, <2>7
  <1>2. CASE EndOfText
    <2>1. p.ret = "RUN" /\ p' = Finished(p, Len(text)) /\ template' = template /\ text' = text
      BY <1>2 DEF EndOfText
    <2> SUFFICES ASSUME NEW e1 \in Nat, NEW e2 \in Nat, NEW e3 \in Nat, NEW e4 \in Nat,
                        template.command, IsCommand(template, e1, e2, e3, e4)
                 PROVE  /\ p'.ret # "RUN"
                        /\ Len(text) = Len(template.chars) =>
                             /\ p'.ret = "OK" /\ Len(p'.tokens) = 5
                             /\ Five(p'.tokens, template, Len(text), e1, e2, e3)
      BY <2>1 DEF CommandInv
    <2>2. p'.ret # "RUN"
      BY <2>1 DEF Finished, PrimitiveRead, Error, Parser
    <2>3. ASSUME Len(text) = Len(template.chars)
          PROVE  /\ p'.ret = "OK" /\ Len(p'.tokens) = 5
                 /\ Five(p'.tokens, template, Len(text), e1, e2, e3)
      <3>1. Phase(p, template, Len(text), e1, e2, e3, e4)
        BY <2>1 DEF CommandInv
      <3>2. InMode(p, "top", 5, 0) /\ Five(p.tokens, template, Len(text), e1, e2, e3)
        BY <1>t, <2>3, <3>1, CommandEnds
      <3>3. template.value.end # -1
        BY DEF IsCommand, StringValue, PlainValue
      <3> QED
        <4> DEFINE s == Finished(p, Len(text))
        <4>1. s.ret = "OK" /\ Len(s.tokens) = 5 /\ Five(s.tokens, template, Len(text), e1, e2, e3)
          BY <1>t, <3>2, <3>3, CommandFinished
        <4>2. p' = s
          BY <2>1
        <4> HIDE DEF s
        <4> QED
          BY <4>1, <4>2
    <2> QED
      BY <2>2, <2>3
  <1>3. CASE NextText
    <2>1. Len(text') = 0 /\ p' = jsmn_init /\ p'.ret = "RUN"
      BY <1>3 DEF NextText, Start, jsmn_init
    <2> QED
      BY <2>1 DEF CommandInv, Phase
  <1>4. CASE UNCHANGED vars
    BY <1>4 DEF vars, CommandInv
  <1> QED
    BY <1>1, <1>2, <1>3, <1>4 DEF Next

\* A command of the page is read as it was meant, whatever name and value stand in
\* it, if the array has room for its five tokens (t[5] in json_to_str_parm).
THEOREM CommandRead == ASSUME NumTokens >= 5 PROVE Spec => []CommandIsRead
  <1>1. TypeOK /\ CommandInv => CommandIsRead
    <2> SUFFICES ASSUME TypeOK, CommandInv, template.command,
                        Len(text) = Len(template.chars), p.ret # "RUN"
                 PROVE  /\ json_to_str_parm = [ret |-> "OK", nameStr |-> template.name,
                                               valStr |-> template.value]
                        /\ [i \in 1 .. 5 |-> p.tokens[i].size] = <<2, 1, 0, 1, 0>>
      BY DEF CommandIsRead
    <2>1. PICK e1, e2, e3, e4 \in 0 .. Len(template.chars) : IsCommand(template, e1, e2, e3, e4)
      BY CommandAssumption DEF TypeOK
    <2>2. e1 \in Nat /\ e2 \in Nat /\ e3 \in Nat /\ e4 \in Nat
      OBVIOUS
    <2>3. /\ p.ret = "OK" /\ Len(p.tokens) = 5
          /\ Five(p.tokens, template, Len(text), e1, e2, e3)
      BY <2>1, <2>2 DEF CommandInv
    <2> DEFINE toks == p.tokens
    <2>4. /\ template.name = [start |-> e1 + 3, end |-> e2]
          /\ template.value = [start |-> template.value.start, end |-> template.value.end]
      BY <2>1 DEF IsCommand, StringValue, PlainValue
    <2>5. /\ toks[3].start = e1 + 3 /\ toks[3].end = e2
          /\ toks[5].start = template.value.start /\ toks[5].end = template.value.end
          /\ toks[1].size = 2 /\ toks[2].size = 1 /\ toks[3].size = 0
          /\ toks[4].size = 1 /\ toks[5].size = 0
      BY <2>3 DEF Five, Tok
    <2>6. toks \in Seq(Token) /\ DOMAIN toks = 1 .. 5
      BY <2>3 DEF TypeOK, Parser
    <2>7. Copied(2) = template.name /\ Copied(4) = template.value
      BY <2>4, <2>5, <2>6 DEF Copied
    <2>8. r = 5
      BY <2>3 DEF r
    <2>9. json_to_str_parm = [ret |-> "OK", nameStr |-> template.name, valStr |-> template.value]
      BY <2>7, <2>8 DEF json_to_str_parm
    <2>10. [i \in 1 .. 5 |-> toks[i].size] = <<2, 1, 0, 1, 0>>
      BY <2>5
    <2> QED
      BY <2>9, <2>10
  <1>2. Spec => []CommandInv
    <2>1. Spec => []TypeOK
      BY JsonTyping
    <2> QED
      BY <2>1, CommandInvInit, CommandInvStep, PTL DEF Spec
  <1> QED
    BY <1>1, <1>2, JsonTyping, PTL

=============================================================================
