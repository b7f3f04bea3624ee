------------------------------- MODULE MCWire -------------------------------
(* Texts, results and startup parameters for the run of module Wire. *)
EXTENDS Wire

\* Words of two letters stand for the keywords.
MCSpelling == [SELECT |-> <<83, 69>>, INSERT |-> <<73, 78>>, BEGIN |-> <<66, 69>>, begin |-> <<98, 101>>]
MCWords == DOMAIN MCSpelling \cup {"", Other}
MCUpper == [w \in MCWords |-> CASE w = "begin" -> "BEGIN" [] w = Other -> "OTHER" [] OTHER -> w]

Keywords == {MCSpelling[w] : w \in {"SELECT", "INSERT"}}
Pieces == {<<13, 10>>, <<10>>, <<45, 45>>, <<47, 42>>, <<42, 47>>, <<47>>, <<42>>, <<40>>} \cup Keywords

\* Up to three pieces, and two pieces in a comment with one behind it.
UpToThree == {a \o b \o c : a, b, c \in {<<>>} \cup Pieces}
Commented == {<<47, 42>> \o x[1] \o x[2] \o <<42, 47>> \o y :
                 x \in [1..2 -> Pieces], y \in {<<42, 47>>} \cup Keywords}

Query(sql) == [type |-> "Q", sql |-> sql]
Parse(sql) == [type |-> "P", sql |-> sql]

\* A session of one statement, or of a transaction with two requests in it.
Inside == {Query(MCSpelling["SELECT"]), Query(MCSpelling["INSERT"]), Parse(MCSpelling["INSERT"])}
MCScripts == {<<Query(sql)>> : sql \in UpToThree \cup Commented}
             \cup {<<Query(MCSpelling["begin"]), x[1], x[2]>> : x \in [1..2 -> Inside]}

\* A line comment that a carriage return ends, before a write and before a read.
LoneCRScripts == {<<Query(<<45, 45, 13>> \o MCSpelling[w])>> : w \in {"SELECT", "INSERT"}}

Field(n, mod) == [name |-> n, nums |-> <<16385, 1, 23, 4, mod, 0>>]
Result(is, fields, rows, tag) ==
    [is |-> is, fields |-> fields, rows |-> rows, tag |-> tag, error |-> <<101>>]

MCResults ==
    {Result("refused", <<>>, <<>>, <<>>),
     Result("ok", <<>>, <<>>, <<79, 75>>),
     Result("ok", <<Field(<<97>>, -1)>>, <<>>, <<>>),
     Result("ok", <<Field(<<97>>, -1), Field(<<>>, 300)>>, <<<<{}, {<<>>}>>, <<{<<0, 9>>}, {}>>>>, <<79>>),
     Result("failed", <<Field(<<97>>, 5)>>, <<<<{<<7>>}>>>>, <<>>)}

\* The second is longer than a startup message may be.
MCStartups == {[user |-> <<97, 98>>, database |-> <<99>>], [user |-> [i \in 1..40 |-> 97], database |-> <<>>]}
MCServerParams == <<<<<<118>>, <<49, 54>>>>, <<<<101>>, <<>>>>>>
=============================================================================
