------------------------------ MODULE MCRound -------------------------------
(* A small instance of Round: one home page, the page of the built-in       *)
(* warm-up "tt", and the same page for the account that wrote its own.      *)
EXTENDS Round

Row(text, genre, style, level, image, words) ==
    [text |-> text, genre |-> genre, slug |-> text, style |-> style,
     level |-> level, image |-> image, words |-> words]

HomeRows ==
    {Row("a", "g", None, None, FALSE, 2), Row("b", "g", None, None, TRUE, 2),
     Row("c", "own", "coined", None, FALSE, 2)}

Passages == {Row("x", "tt", None, "easy", FALSE, 8)}
Mine == {Row("z", "mine", None, "easy", FALSE, 4)}

HomeBank(rows) ==
    [genres |-> <<"tt", "g", "own", "mine">>, read |-> {"tt", "mine"},
     styles |-> {}, topics |-> rows]
TwisterBank(rows, own) ==
    [genres |-> IF own THEN <<"tt", "mine">> ELSE <<"tt">>,
     read |-> IF own THEN {"tt", "mine"} ELSE {"tt"}, styles |-> {}, topics |-> rows]

MCPages ==
    {[lock |-> None, bank |-> HomeBank(HomeRows \cup Mine), still |-> FALSE],
     [lock |-> "tt", bank |-> TwisterBank(Passages, TRUE), still |-> FALSE],
     [lock |-> "tt", bank |-> TwisterBank(Passages \cup Mine, TRUE), still |-> FALSE]}

MCLinks ==
    {NoLink, [NoLink EXCEPT !.genre = "own"], [NoLink EXCEPT !.topic = "x", !.wpm = 2]}

Remember(genre) ==
    [genre |-> genre, style |-> Surprise, level |-> Surprise, passages |-> None,
     pictures |-> FALSE, wpm |-> 2, prep |-> 1, speak |-> 1]
MCStored == {Remember("g"), Remember("mine")}

(* The console lists the account's own genres, warm-ups among them.         *)
MCStageableOwn == HomeRows \cup Mine
MCStageable == {r \in HomeRows : r.text = "b"}
MCSpeeds == <<2, 4>>
=============================================================================
