------------------------------- MODULE MCBank -------------------------------
(* Two genres and three lines, and the editions one edit apart from them.   *)
EXTENDS Bank

Of(g, t, s) == [genre |-> g, text |-> t, slug |-> s]

Two      == [declared |-> {"g", "h"}, lines |-> <<Of("g", "a", 1), Of("g", "b", 2), Of("h", "c", 3)>>]
Moved    == [declared |-> {"g", "h"}, lines |-> <<Of("g", "a", 1), Of("h", "c", 3), Of("h", "b", 2)>>]
Merged   == [declared |-> {"g"}, lines |-> <<Of("g", "a", 1), Of("g", "b", 2), Of("g", "c", 3)>>]
Left     == [declared |-> {"g"}, lines |-> Two.lines]
Renamed  == [declared |-> {"g", "h"}, lines |-> <<Of("g", "a", 4), Of("g", "b", 2), Of("h", "c", 3)>>]
Dropped  == [declared |-> {"g", "h"}, lines |-> <<Of("g", "a", 1), Of("h", "c", 3)>>]
Reworded == [declared |-> {"g", "h"}, lines |-> <<Of("g", "a", 1), Of("g", "d", 2), Of("h", "c", 3)>>]

(* Every kind of edit that keeps a line's words.                            *)
Edits    == {Two, Moved, Merged, Left, Renamed, Dropped}

(* And those the seed does not survive, or does not undo (README): a comma  *)
(* or a capital, where slugify gives the slug of the line before; a line    *)
(* that leaves its file and may come back.                                  *)
Wordings == {Two, Reworded}
Comings  == {Two, Dropped}

(* Somebody's own "a", under a genre of theirs with a built-in's slug.      *)
Mine == {[id |-> 1, own |-> TRUE, genre |-> "g", text |-> "a", slug |-> 1, active |-> TRUE]}
=============================================================================
