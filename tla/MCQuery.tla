------------------------------ MODULE MCQuery -------------------------------
EXTENDS Query, TLC

S(sign) == Tok("", sign, FALSE)
Num(field, op, lo, hi, unit) == [Tok(field, unit, FALSE) EXCEPT !.op = op, !.lo = lo, !.hi = hi]

Signed == {S(s) : s \in {"(", ")", "-", "OR"}}
Alphabets ==
    {[length |-> 6, tokens |-> Signed \cup {Tok("", "a", FALSE), Tok("tag", "a", FALSE)}],
     [length |-> 5, tokens |-> Signed \cup {S("AND"), S("NOT"), Tok("", "a", FALSE), Tok("watched", "yes", FALSE)}],
     [length |-> 3, tokens |-> {S("-"), S("OR"), Tok("", "OR", TRUE), Tok("", "a b", TRUE), Tok("", "-", TRUE),
        Tok("tag", "a", FALSE), Tok("tag", "1", FALSE), Tok("tag", "1", TRUE), Tok("tag", "3", FALSE), Tok("tag", "b", FALSE),
        Tok("tag", "no", FALSE), Tok("person", "p", FALSE), Tok("person", "2", FALSE),
        Num("year", "<", 3, 0, ""), Num("year", "..", 2, 3, ""), Num("year", "..", 3, 2, ""), Num("plays", ">=", 1, 0, ""),
        Num("duration", ">", 1, 0, "h"), Num("duration", "<=", 60, 0, "m"), Num("duration", "=", 3600, 0, "s"),
        Tok("watched", "yes", FALSE), Tok("watched", "maybe", FALSE),
        Tok("matched", "any", FALSE), Tok("matched", "tmdb", FALSE), Tok("matched", "other", FALSE),
        Tok("note", "x", TRUE), Tok("old", "x", FALSE)}]}

Hours == {[length |-> 2, tokens |-> {S("-")} \cup {Num("duration", op, n, 0, "h") : op \in {"<", ">="}, n \in 1 .. 300}]}

(* Tag 2 is below tag 1 and is called "1"; tag 3's name is an alias's too. *)
Names == [tag |-> {<<"a", 1>>, <<"1", 2>>, <<"b", 1>>, <<"b", 3>>, <<"c", 3>>, <<"OR", 3>>}, person |-> {<<"p", 1>>, <<"2", 1>>}]
Parents == <<0, 1, 0>>
Mapped == [note |-> [kind |-> "text", owner |-> TRUE]]

V(tags, title, year, secs, watched, plays, providers) ==
    [tags |-> tags, people |-> tags \cap {1}, title |-> title, year |-> year, secs |-> secs, watched |-> watched,
     plays |-> plays, providers |-> providers, note |-> IF watched THEN {"x"} ELSE {}]
Videos ==
    {V({}, {}, 0, 0, FALSE, 0, {}), V({1}, {}, 2, 3600, TRUE, 1, {"tmdb"}), V({2}, {"OR"}, 3, 3601, FALSE, 2, {"x"}),
     V({3}, {"a"}, 4, 60, TRUE, 0, {}), V({2, 3}, {"a", "a b", "-"}, 2, 7200, FALSE, 0, {"tmdb", "x"})}
Numerals == <<"1", "2", "3", "4">>
==============================================================================
