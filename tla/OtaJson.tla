-------------------------------- MODULE OtaJson -------------------------------
(* The text frames of the http layer: json_to_str_parm of                   *)
(* source/ota_ws_update_http.c on top of the parser.  The name and the value *)
(* it gives back are pieces of the text, from one position to another.      *)
EXTENDS Jsmn

CONSTANT Template  \* what clients write: sequences of sets of characters
ASSUME TemplateAssumption == \A t \in Template : t.chars \in Seq(SUBSET Char)

\* Only characters of S from position i to position k.
Only(t, i, k, S) == \A m \in i .. k : t.chars[m + 1] \subseteq S

IsString(t, i, k) ==
    /\ Only(t, i, i, {"quote"}) /\ Only(t, k, k, {"quote"})
    /\ Only(t, i + 1, k - 1, Char \ {"quote", "backslash"})

\* The value of a command begins after the colon at e3 + 1 and ends at e4.
StringValue(t, e3, e4) ==
    /\ IsString(t, e3 + 2, e4) /\ t.value = [start |-> e3 + 3, end |-> e4]
    /\ Only(t, e4 + 1, e4 + 1, {"rbrace"}) /\ Len(t.chars) = e4 + 2

PlainValue(t, e3, e4) ==
    /\ Only(t, e3 + 2, e4 - 1, {"b", "n", "0", "u", "x"})
    /\ t.value = [start |-> e3 + 2, end |-> e4]
    /\ Only(t, e4, e4, {"rbrace"}) /\ Len(t.chars) = e4 + 1

\* What JSON.stringify makes of a command of the page, {"name":"..","value":".."} or
\* {"name":"..","value":..}: the first key, the name and the second key end with the
\* quotes at e1, e2 and e3.
IsCommand(t, e1, e2, e3, e4) ==
    /\ 2 <= e1 /\ e1 + 3 <= e2 /\ e2 + 3 <= e3 /\ e3 + 3 <= e4
    /\ Only(t, 0, 0, {"lbrace"})
    /\ IsString(t, 1, e1) /\ Only(t, e1 + 1, e1 + 1, {"colon"}) /\ IsString(t, e1 + 2, e2)
    /\ Only(t, e2 + 1, e2 + 1, {"comma"})
    /\ IsString(t, e2 + 2, e3) /\ Only(t, e3 + 1, e3 + 1, {"colon"})
    /\ t.name = [start |-> e1 + 3, end |-> e2]
    /\ StringValue(t, e3, e4) \/ PlainValue(t, e3, e4)

ASSUME CommandAssumption ==
    \A t \in Template : t.command =>
        \E e1, e2, e3, e4 \in 0 .. Len(t.chars) : IsCommand(t, e1, e2, e3, e4)

VARIABLES
    template,  \* the kind of text that is being read
    text,      \* what was read of it
    p          \* the parser

vars == <<template, text, p>>

Start ==
    /\ template' \in Template
    /\ text' = <<>>
    /\ p' = jsmn_init

Init == template \in Template /\ text = <<>> /\ p = jsmn_init

ReadChar ==
    /\ p.ret = "RUN"
    /\ Len(text) < Len(template.chars)
    /\ \E c \in template.chars[Len(text) + 1] :
         /\ text' = Append(text, c)
         /\ p' = Parsed(p, c, Len(text))
    /\ UNCHANGED template

\* A text may end anywhere.
EndOfText ==
    /\ p.ret = "RUN"
    /\ p' = Finished(p, Len(text))
    /\ UNCHANGED <<template, text>>

NextText == p.ret # "RUN" /\ Start

Next == ReadChar \/ EndOfText \/ NextText

Spec == Init /\ [][Next]_vars

\* Tokens behind the last one are not initialised.
Unfilled == [start |-> -1, end |-> -1]
Nothing == [start |-> 0, end |-> 0]

\* t[k] of the code.
Copied(k) ==
    IF k + 1 \in DOMAIN p.tokens
    THEN [start |-> p.tokens[k + 1].start, end |-> p.tokens[k + 1].end]
    ELSE Unfilled

r == IF p.ret = "OK" THEN Len(p.tokens) ELSE -1

json_to_str_parm ==
    IF r < 2 THEN [ret |-> "FAIL", nameStr |-> Nothing, valStr |-> Nothing]
    ELSE [ret |-> "OK", nameStr |-> Copied(2),
          valStr |-> IF r > 3 THEN Copied(4) ELSE Nothing]

----------------------------------------------------------------------------
(* Properties.                                                              *)

\* Every variable stays within its type, and the tokens within their array.
TypeOK ==
    /\ template \in Template
    /\ text \in Seq(Char)
    /\ p \in Parser
    /\ Len(p.tokens) <= NumTokens
    /\ p.toksuper \in 0 .. Len(p.tokens)

At(i) == text[i + 1]

\* Positions of the characters of a token; a container has its two brackets only.
Span(t) ==
    CASE t.type = "STRING"    -> t.start - 1 .. t.end
      [] t.type = "PRIMITIVE" -> t.start .. t.end - 1
      [] OTHER                -> {t.start} \cup (IF t.end = -1 THEN {} ELSE {t.end - 1})

\* While a text is read, tokens come in the order of the text and are nested or
\* apart, never across each other; a container that is still open reaches up to the
\* present; and what comes next is counted by some token whenever one is open.
NestInv ==
    p.ret \in {"RUN", "OK"} =>
        /\ \A i, j \in DOMAIN p.tokens : i < j =>
              LET a == p.tokens[i] b == p.tokens[j]
              IN  /\ a.start < b.start
                  /\ a.end = -1 \/ b.start >= a.end \/ (b.end # -1 /\ b.end < a.end)
                  /\ a.type \notin Container => a.end < b.start
        /\ p.toksuper = 0 => OpenTokens(p) = {}

\* The number of backslashes right before position i.
Backslashes(i) == Max({n \in 0 .. i : \A m \in i - n .. i - 1 : At(m) = "backslash"})

\* What the tokens of an accepted text must be, said of the text: each bracket
\* begins or ends one container of its kind; a string stands between quotes of which
\* only the last is not escaped; a primitive is as long as it can be; and what
\* belongs to no token separates tokens.
TokensAreRight ==
    p.ret = "OK" =>
        /\ \A i \in DOMAIN p.tokens :
             LET t == p.tokens[i]
             IN  CASE t.type = "OBJECT" -> At(t.start) = "lbrace" /\ At(t.end - 1) = "rbrace"
                   [] t.type = "ARRAY"  -> At(t.start) = "lbracket" /\ At(t.end - 1) = "rbracket"
                   [] t.type = "STRING" ->
                        /\ At(t.start - 1) = "quote" /\ At(t.end) = "quote"
                        /\ \A k \in t.start .. t.end :
                             At(k) = "quote" => (k = t.end) = (Backslashes(k) % 2 = 0)
                   [] OTHER ->
                        /\ t.start < t.end
                        /\ \A k \in t.start .. t.end - 1 : At(k) \notin Separator
                        /\ t.end < Len(text) => At(t.end) \in Separator
        /\ \A i, j \in DOMAIN p.tokens : i # j => Span(p.tokens[i]) \cap Span(p.tokens[j]) = {}
        /\ \A k \in 0 .. Len(text) - 1 :
             (\A i \in DOMAIN p.tokens : k \notin Span(p.tokens[i]))
                 => At(k) \in {"colon", "comma", "space"}

\* A command of the page, an object of two keys, is read as it was meant whatever
\* name and value stand in it: the name is the value of the first key, the value
\* that of the second; the object counts its keys and each key its value.
CommandIsRead ==
    template.command /\ Len(text) = Len(template.chars) /\ p.ret # "RUN" =>
        /\ json_to_str_parm = [ret |-> "OK", nameStr |-> template.name, valStr |-> template.value]
        /\ [i \in 1 .. 5 |-> p.tokens[i].size] = <<2, 1, 0, 1, 0>>
=============================================================================
