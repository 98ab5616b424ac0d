----------------------------- MODULE MCKeyspace -----------------------------
EXTENDS Keyspace

CONSTANTS c1, c2

MCConns == {c1, c2}

\* One key is a beginning of the other; "odd" stands for every other text, and
\* the value of the second SET looks like the header of two arguments, those of
\* the others like a command.
MCKeys   == {"u1", "u10"}
MCTexts  == MCKeys \union {"", "*3", "$", "SET", "*2", "set", "odd"}
MCSetNames == {"SET", "set"}
MCCounts == [t \in MCTexts |-> CASE t = "*3" -> 3 [] t = "*2" -> 2 [] OTHER -> 0]
MCTorn   == [t \in MCTexts |-> IF t = "u10" THEN {"u1", "odd"} ELSE {"odd"}]
MCTextOf == <<"set", "*2", "set">>

\* A value that has expired, one that will, and a newer one of the same key.
MCDump == << [key |-> "u1", deadline |-> "past"], [key |-> "u10", deadline |-> "future"] >>

\* A cut of each kind: nothing written, after the header, inside the key, after
\* the line of the key, and after the value but before the end of its line.
MCCuts == { <<0, "none">>, <<1, "none">>, <<4, "part">>, <<5, "none">>, <<6, "unended">> }
=============================================================================
