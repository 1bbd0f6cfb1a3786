----------------------------- MODULE MCInsights -----------------------------
(* A small instance of Insights. Halves of the code's unit where Progress   *)
(* keeps them.                                                              *)
EXTENDS Insights

MCWords == <<"just", "like">>
MCSlugs == <<"opinions", "stories">>

Leans(just, like) == [w \in {"just", "like"} |-> IF w = "just" THEN just ELSE like]

Good ==
    [silence |-> 20, stall |-> 2, restarts |-> 0, timed |-> TRUE, spoken |-> 60, setting |-> 60,
     ended |-> 1, distinct |-> 200, leaned |-> Leans(0, 0), genre |-> "opinions",
     answered |-> "yes", pointAt |-> 3, prep |-> 0, gaps |-> 0, ums |-> 0]

(* A good round; one that stopped early and quiet; one that leans on a      *)
(* word; one nothing transcribed; and one of short, restless talk.          *)
MCKinds ==
    {Good,
     [Good EXCEPT !.silence = 60, !.stall = 9, !.spoken = 30, !.ended = 0, !.genre = "stories",
                  !.answered = "no", !.pointAt = Unmeasured, !.gaps = 2, !.ums = 3],
     [Good EXCEPT !.silence = 28, !.leaned = Leans(0, 9), !.spoken = 50, !.answered = "half", !.pointAt = 20, !.prep = 10],
     [Good EXCEPT !.timed = FALSE, !.ended = Unmeasured, !.distinct = Unmeasured, !.genre = "stories",
                  !.silence = 34, !.answered = Unmeasured, !.pointAt = Unmeasured, !.ums = Unmeasured],
     [Good EXCEPT !.restarts = 8, !.leaned = Leans(4, 0), !.spoken = 55, !.stall = 3]}

MCSentenceKinds ==
    {[role |-> "point", at |-> 2, end |-> 4], [role |-> "point", at |-> Unmeasured, end |-> Unmeasured],
     [role |-> "reason", at |-> 5, end |-> 8], [role |-> "setup", at |-> Unmeasured, end |-> Unmeasured]}

(* A word, two leaned on of which a report names one, a filler, a token     *)
(* without letters, and the gaps that make a pause and a long one.          *)
MCAlphabet == [word \in {"like", "so"} |-> IF word = "like" THEN 1 ELSE 2]

Word(bare, stops, gap) == [bare |-> bare, stops |-> stops, gap |-> gap]
MCWordKinds ==
    {Word("i", FALSE, 0), Word("like", FALSE, 0), Word("um", FALSE, 0), Word("2", FALSE, 0),
     Word("so", TRUE, 0), Word("i", FALSE, 5), Word("um", FALSE, 3)}

MCReaders ==
    {[provider |-> "assemblyai", clocked |-> TRUE], [provider |-> "assemblyai", clocked |-> FALSE],
     [provider |-> "groq", clocked |-> TRUE], [provider |-> "none", clocked |-> FALSE]}

MCScale == [pace |-> <<0, 12>>, start |-> <<0, 8>>, gap |-> <<0, 8>>, fillers |-> <<0, 120>>, sentence |-> <<0, 6>>]
MCGoodPace == <<7, 9>>
=============================================================================
