------------------------------- MODULE MCOtaJson ------------------------------
(* OtaJson on all short texts of brackets, separators, quotes and letters,  *)
(* on strings with every kind of escape, and on the commands of the page.   *)
EXTENDS OtaJson

Text(chars) == [command |-> FALSE, chars |-> chars]

Structure == {"lbrace", "rbrace", "lbracket", "rbracket", "quote", "colon", "comma", "x"}
Escape == {"quote", "backslash", "u", "b", "0"}
Letter == {"x", "lbrace", "comma", "colon"}

\* {"n":"..","v":".."} and {"n":"..","v":..}, as JSON.stringify writes them.
Key == <<{"quote"}, {"x"}, {"quote"}, {"colon"}>>
Name == <<{"quote"}, Letter, Letter, {"quote"}>>
Pair(value) == <<{"lbrace"}>> \o Key \o Name \o <<{"comma"}>> \o Key \o value \o <<{"rbrace"}>>

MCTemplate ==
    {Text([i \in 1 .. 6 |-> Structure]),
     Text(<<{"quote"}>> \o [i \in 1 .. 6 |-> Escape] \o <<{"quote"}>>),
     Text(<<{"lbracket", "x"}, {"space", "ctl", "n"}, {"quote", "n"}, {"backslash", "ctl"},
            {"n", "x"}>>),
     [command |-> TRUE, chars |-> Pair(Name),
      name |-> [start |-> 6, end |-> 8], value |-> [start |-> 15, end |-> 17]],
     [command |-> TRUE, chars |-> Pair(<<{"0"}, {"0", "x"}>>),
      name |-> [start |-> 6, end |-> 8], value |-> [start |-> 14, end |-> 16]]}
=============================================================================
