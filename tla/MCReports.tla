------------------------------ MODULE MCReports ------------------------------
(* One history is three rounds of a month or two (month), one round whose   *)
(* report is asked for twice by workers that may die (twice), or the inside *)
(* of one call (call).  Workers are interchangeable: no property names one. *)
EXTENDS Reports, Transcriber, TLC

VARIABLE scene

mcVars == <<vars, callVars, scene>>

Alike == Permutations(Workers)

Rows == Range(reports) \cup {job[w].row : w \in {x \in Workers : job[x].stage \in {"call", "case", "save"}}}

(* What the scene leaves to the others.                                     *)
Within ==
    /\ scene = "month" => /\ \A r \in Rounds : posted[r] <= 1 /\ lost[r] = 0
                          /\ \A w \in Workers : job[w].stage = "judge" => job[w].audio
                          /\ \A row \in Rows : row.said # "" => row.said = "words" /\ row.charged = Most
    /\ scene = "twice" => month = 0 /\ Cardinality(DOMAIN runs) <= 1

MCInit == Init /\ CallInit /\ scene \in {"month", "twice", "call"}

MCNext ==
    \/ scene # "call" /\ Next /\ UNCHANGED <<callVars, scene>> /\ Within'
    \/ scene = "call" /\ CallNext /\ UNCHANGED <<vars, scene>>

MCSpec == MCInit /\ [][MCNext]_mcVars

(* What the tables, the workers and the call hold.                          *)
ReportsTypeOK == TypeOK /\ CallTypeOK
=============================================================================
