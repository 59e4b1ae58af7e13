--------------------------------- MODULE Jsmn ---------------------------------
(* private_include/jsmn.h as the component builds it: JSMN_STATIC, neither  *)
(* strict nor with parent links, parsing into an array of tokens.  A text is *)
(* a sequence of character classes, read one at a time; what the parser      *)
(* keeps between two characters is the record p.  Positions count from 0 as  *)
(* in the code, tokens from 1: toksuper 0 is its -1.                         *)
EXTENDS Integers, Sequences, FiniteSetsExt

CONSTANT NumTokens  \* length of the array of tokens
ASSUME NumTokensAssumption == NumTokens \in Nat \ {0}

\* Brackets, separators, space; quote and backslash; then letters by what they
\* are in an escape: "b" names one and is a hexadecimal digit, "n" names one, "0"
\* is a digit, "u" begins \uXXXX, "x" is none of these; "ctl" is not printable.
Separator == {"colon", "space", "comma", "rbracket", "rbrace"}
Char == Separator \cup {"lbracket", "lbrace", "quote", "backslash", "b", "n", "0", "u", "x", "ctl"}
HexDigit == {"b", "0"}
Escaped == {"quote", "backslash", "b", "n"}

Container == {"OBJECT", "ARRAY"}

Token == [type : Container \cup {"STRING", "PRIMITIVE"}, start : Nat, end : Int, size : Nat]

Parser ==
    [tokens : Seq(Token), toksuper : Nat,
     mode : {"top", "string", "escape", "hex", "primitive"},
     start : Nat,   \* where the string or primitive being read starts
     digits : 0 .. 3,
     ret : {"RUN", "OK", "NOMEM", "INVAL", "PART"}]

jsmn_init ==
    [tokens |-> <<>>, toksuper |-> 0, mode |-> "top", start |-> 0, digits |-> 0, ret |-> "RUN"]

Error(p, ret) == [p EXCEPT !.ret = ret]

\* The containers that are open, by their index.
OpenTokens(p) == {i \in DOMAIN p.tokens : p.tokens[i].end = -1}

Innermost(open) == IF open = {} THEN 0 ELSE Max(open)

\* Mutant: the length of the array is not looked at.
Filled_NoLimit(p, type, start, end) ==
    LET tok == [type |-> type, start |-> start, end |-> end, size |-> 0]
        counted == IF p.toksuper = 0 THEN p.tokens
                   ELSE [p.tokens EXCEPT ![p.toksuper].size = @ + 1]
    IN  [p EXCEPT !.tokens = Append(counted, tok)]

\* jsmn_alloc_token and jsmn_fill_token.  The token superior to it counts it.
Filled(p, type, start, end) ==
    LET tok == [type |-> type, start |-> start, end |-> end, size |-> 0]
        counted == IF p.toksuper = 0 THEN p.tokens
                   ELSE [p.tokens EXCEPT ![p.toksuper].size = @ + 1]
    IN  IF Len(p.tokens) >= NumTokens THEN Error(p, "NOMEM")
        ELSE [p EXCEPT !.tokens = Append(counted, tok)]

\* { and [.
Opened(p, type, pos) ==
    LET q == Filled(p, type, pos, -1)
    IN  IF q.ret = "RUN" THEN [q EXCEPT !.toksuper = Len(q.tokens)] ELSE q

\* Mutant: the bracket closes the first container that is open.
Closed_First(p, type, pos) ==
    LET open == OpenTokens(p)
        i == IF open = {} THEN 0 ELSE Min(open)
    IN  IF open = {} \/ (i # 0 /\ p.tokens[i].type # type) THEN Error(p, "INVAL")
        ELSE [p EXCEPT !.tokens[i].end = pos + 1, !.toksuper = Innermost(open \ {i})]

\* } and ] close the last container that is open, which must be of their type.
Closed(p, type, pos) ==
    LET open == OpenTokens(p)
        i == Innermost(open)
    IN  IF open = {} THEN Error(p, "INVAL")
        ELSE IF p.tokens[i].type # type THEN Error(p, "INVAL")
        ELSE [p EXCEPT !.tokens[i].end = pos + 1, !.toksuper = Innermost(open \ {i})]

\* What follows belongs to the last token.
Colon(p) == [p EXCEPT !.toksuper = Len(p.tokens)]

\* Mutant: what follows a comma still belongs to the key before it.
Comma_KeepsKey(p) == p

\* After a key and its value what follows belongs to the container again.
Comma(p) ==
    IF /\ p.toksuper # 0 /\ p.tokens[p.toksuper].type \notin Container
       /\ OpenTokens(p) # {}
    THEN [p EXCEPT !.toksuper = Innermost(OpenTokens(p))]
    ELSE p

Begun(p, mode, pos) == [p EXCEPT !.mode = mode, !.start = pos]

\* The switch of jsmn_parse; any other character begins a primitive.
TopLevel(p, c, pos) ==
    IF p.ret # "RUN" THEN p
    ELSE CASE c = "lbrace"     -> Opened(p, "OBJECT", pos)
           [] c = "lbracket"   -> Opened(p, "ARRAY", pos)
           [] c = "rbrace"     -> Closed(p, "OBJECT", pos)
           [] c = "rbracket"   -> Closed(p, "ARRAY", pos)
           [] c = "quote"      -> Begun(p, "string", pos)
           [] c = "space"      -> p
           [] c = "colon"      -> Colon(p)
           [] c = "comma"      -> Comma(p)
           [] c = "ctl"        -> Error(p, "INVAL")
           [] OTHER            -> Begun(p, "primitive", pos)

\* The loop of jsmn_parse_primitive.  The character that ends a primitive is not
\* part of it.
PrimitiveRead(p, pos) == [Filled(p, "PRIMITIVE", p.start, pos) EXCEPT !.mode = "top"]

jsmn_parse_primitive(p, c, pos) ==
    IF c \in Separator THEN TopLevel(PrimitiveRead(p, pos), c, pos)
    ELSE IF c = "ctl" THEN Error(p, "INVAL")
    ELSE p

\* Mutant: an escaped character is read like any other.
jsmn_parse_string_NoEscape(p, c, pos) ==
    IF c = "quote"
    THEN [Filled(p, "STRING", p.start + 1, pos) EXCEPT !.mode = "top"]
    ELSE p

\* The loop of jsmn_parse_string.  The token is what stands between the quotes.
jsmn_parse_string(p, c, pos) ==
    CASE p.mode = "string" /\ c = "quote" ->
             [Filled(p, "STRING", p.start + 1, pos) EXCEPT !.mode = "top"]
      [] p.mode = "string" /\ c = "backslash" -> [p EXCEPT !.mode = "escape"]
      [] p.mode = "escape" /\ c \in Escaped -> [p EXCEPT !.mode = "string"]
      [] p.mode = "escape" /\ c = "u" -> [p EXCEPT !.mode = "hex", !.digits = 0]
      [] p.mode = "hex" /\ c \in HexDigit ->
             IF p.digits = 3 THEN [p EXCEPT !.mode = "string", !.digits = 0]
                             ELSE [p EXCEPT !.digits = @ + 1]
      [] p.mode = "string" /\ c \notin {"quote", "backslash"} -> p
      [] OTHER -> Error(p, "INVAL")

\* One character of the text.
Parsed(p, c, pos) ==
    CASE p.mode = "top"       -> TopLevel(p, c, pos)
      [] p.mode = "primitive" -> jsmn_parse_primitive(p, c, pos)
      [] OTHER                -> jsmn_parse_string(p, c, pos)

\* The text ends after pos characters.  On success the number of tokens is what
\* jsmn_parse returns.
Finished(p, pos) ==
    LET q == IF p.mode = "primitive" THEN PrimitiveRead(p, pos) ELSE p
    IN  IF q.ret # "RUN" THEN q
        ELSE IF q.mode # "top" \/ OpenTokens(q) # {} THEN Error(q, "PART")
        ELSE [q EXCEPT !.ret = "OK"]
=============================================================================
