-------------------------------- MODULE Bank --------------------------------
(* The built-in bank and who writes it: the seeder (topics/services.py over *)
(* the files of topics/bank.py), the operator's form (topics/admin.py) and, *)
(* in the same tables, lines people wrote for themselves; who reads it: the *)
(* round's page (/topics/bank) and the shared page (_bank_topics in         *)
(* runs/sharing.py), whose links name a line by its slug.                   *)
(* Prompts and passages are two tables with one shape: a line here is       *)
(* either.                                                                  *)
EXTENDS Integers, Sequences, FiniteSets, FiniteSetsExt, Functions

CONSTANTS
    Genres,    \* slugs of built-in genres
    Texts, Slugs,
    Editions,  \* what data/topics and bank.GENRES may say: the genres declared,
               \* and the lines of their files in the order they are read
    Theirs,    \* the rows somebody wrote, and their ids
    Overlap,   \* the operator may be at the form while the seeder runs
    MaxSeeds   \* bound

Line     == [genre : Genres, text : Texts, slug : Slugs]
Row      == [id : Nat \ {0}, own : BOOLEAN, genre : Genres, text : Texts, slug : Slugs,
             active : BOOLEAN]  \* own: under a genre with an owner
LinesOf(e) == {l \in Range(e.lines) : l.genre \in e.declared}
BuiltIn(rs) == {r \in rs : ~r.own}
Closed   == [open |-> FALSE]

(* What every file that loads has: a text in one file only, a slug once in  *)
(* its genre.                                                               *)
ASSUME BankAssumption ==
    /\ \A e \in Editions :
        /\ e.declared \subseteq Genres /\ e.lines \in Seq(Line)
        /\ \A k, l \in LinesOf(e) : k.text = l.text \/ <<k.genre, k.slug>> = <<l.genre, l.slug>> => k = l
    /\ Theirs \subseteq Row /\ IsFiniteSet(Theirs) /\ \A r \in Theirs : r.own
    /\ \A q, r \in Theirs : q.id = r.id => q = r
    /\ Overlap \in BOOLEAN /\ MaxSeeds \in Nat

VARIABLES
    edition,        \* what the files say now
    offered,        \* the built-in genres there are, and whether each is active
    rows,           \* the rows under them, and under genres people own
    seeding,        \* what a seed that is running has loaded
    form,           \* the row the operator has open
    practised,      \* texts one account has spoken to
    off,            \* auxiliary: ids the operator switched off, and not on again
    seeds, refused  \* auxiliary: seeds so far, and whether the last one raised

bankVars == <<edition, offered, rows, seeding, form, practised, off, seeds, refused>>

BankInit ==
    /\ edition \in Editions
    /\ offered = [g \in {} |-> TRUE] /\ rows = Theirs
    /\ seeding = Closed /\ form = Closed
    /\ practised = {} /\ off = {} /\ seeds = 0 /\ refused = FALSE

(***************************************************************************)
(* seed_topics, as pure steps over the tables: one line written, the rows  *)
(* no file names, the genres nobody declares.                              *)
(***************************************************************************)
Clash(rs, r) == \E q \in rs : q.id # r.id /\ q.own = r.own /\ q.genre = r.genre /\ (q.slug = r.slug \/ q.text = r.text)

FreshId(rs) == Max({0} \cup {r.id : r \in rs}) + 1

\* Seeded fault: a line is looked for in its own genre only.
HadHere(loaded, l) == {r \in loaded : r.text = l.text /\ r.genre = l.genre}

Had(loaded, l) == {r \in loaded : r.text = l.text}

\* Seeded fault: a line in a file is a line on offer.
KeptLive(r, l) == [r EXCEPT !.genre = l.genre, !.active = TRUE]

\* Seeded fault: the slug follows the file.
KeptRenamed(r, l) == [r EXCEPT !.genre = l.genre, !.slug = l.slug]

(* What was loaded, moved to the line's genre, its slug and its switch as   *)
(* they are.                                                                *)
Kept(r, l) == [r EXCEPT !.genre = l.genre]

(* An upsert by text among the rows loaded when the seed began, saved whole.*)
Upsert(loaded, w, l) ==
    LET had  == Had(loaded, l)
        row  == IF had = {} THEN [id |-> FreshId(w.rows), own |-> FALSE, genre |-> l.genre, text |-> l.text,
                                  slug |-> l.slug, active |-> TRUE]
                            ELSE Kept(CHOOSE r \in had : TRUE, l)
        rest == {r \in w.rows : r.id # row.id}
    IN IF ~w.ok \/ Clash(rest, row)
       THEN [w EXCEPT !.ok = FALSE]
       ELSE [rows |-> rest \cup {row}, seen |-> w.seen \cup {row.id}, ok |-> TRUE]

(* Line after line; the file of a genre nobody declares is not read.        *)
Read(loaded, w, l) == IF l.genre \in edition.declared THEN Upsert(loaded, w, l) ELSE w

Written(loaded) ==
    LET lines == edition.lines
        written[n \in 0 .. Len(lines)] ==
            IF n = 0 THEN [rows |-> rows, seen |-> {}, ok |-> TRUE]
                     ELSE Read(loaded, written[n - 1], lines[n])
    IN  written[Len(lines)]

\* Seeded fault: what no file names any more is left as it is.
SweepNone(rs, seen) == rs

\* Seeded fault: the sweep reads past the rows without an owner.
SweepAll(rs, seen) == {IF r.id \in seen THEN r ELSE [r EXCEPT !.active = FALSE] : r \in rs}

Sweep(rs, seen) == {IF r.own \/ r.id \in seen THEN r ELSE [r EXCEPT !.active = FALSE] : r \in rs}

(* A genre that left the list is deleted when nothing hangs under it and    *)
(* switched off otherwise.                                                  *)
Departed(rs, known) == {g \in known \ edition.declared : ~\E r \in BuiltIn(rs) : r.genre = g}
Shelves(rs, known) ==
    [g \in (DOMAIN offered \cup edition.declared) \ Departed(rs, known) |->
        g \in edition.declared \/ (g \notin known /\ offered[g])]

SeedBegins ==
    /\ seeding = Closed /\ seeds < MaxSeeds /\ (form.open => Overlap)
    /\ seeding' = [open |-> TRUE, rows |-> BuiltIn(rows), genres |-> DOMAIN offered]
    /\ seeds' = seeds + 1 /\ refused' = FALSE
    /\ UNCHANGED <<edition, offered, rows, form, practised, off>>

SeedEnds ==  \* one transaction: all of it, or nothing and an error
    LET w == Written(seeding.rows) IN
    /\ seeding.open /\ seeding' = Closed
    /\ IF w.ok
       THEN /\ rows' = Sweep(w.rows, w.seen)
            /\ offered' = Shelves(w.rows, seeding.genres)
            /\ UNCHANGED refused
       ELSE refused' = TRUE /\ UNCHANGED <<rows, offered>>
    /\ UNCHANGED <<edition, form, practised, off, seeds>>

(***************************************************************************)
(* The people around it.                                                   *)
(***************************************************************************)
EditFiles == \E e \in Editions :
    /\ ~seeding.open /\ edition' = e
    /\ UNCHANGED <<offered, rows, seeding, form, practised, off, seeds, refused>>

OpenForm == \E r \in BuiltIn(rows) :
    /\ form = Closed /\ (seeding.open => Overlap)
    /\ form' = [open |-> TRUE, row |-> r]
    /\ UNCHANGED <<edition, offered, rows, seeding, practised, off, seeds, refused>>

(* The form posts back every column as it was when it was opened.           *)
SaveForm == \E active \in BOOLEAN :
    /\ form.open /\ form' = Closed
    /\ LET row  == [form.row EXCEPT !.active = active]
           rest == {r \in rows : r.id # row.id}
       IN IF row.genre \in DOMAIN offered /\ ~Clash(rest, row)
          THEN /\ rows' = rest \cup {row}
               /\ off' = IF active THEN off \ {row.id} ELSE off \cup {row.id}
          ELSE UNCHANGED <<rows, off>>
    /\ UNCHANGED <<edition, offered, seeding, practised, seeds, refused>>

Offered == {r \in BuiltIn(rows) : r.active /\ r.genre \in DOMAIN offered /\ offered[r.genre]}

Practise == \E r \in Offered \cup Theirs :
    /\ practised' = practised \cup {r.text}
    /\ UNCHANGED <<edition, offered, rows, seeding, form, off, seeds, refused>>

BankNext == SeedBegins \/ SeedEnds \/ EditFiles \/ OpenForm \/ SaveForm \/ Practise

BankSpec == BankInit /\ [][BankNext]_bankVars

(* What the shared page names: bank rows whose text was practised.          *)
Named == {r \in BuiltIn(rows) : r.text \in practised}

(***************************************************************************)
(* Properties.                                                             *)
(***************************************************************************)

(* What the tables hold, and the keys the upsert and the links rest on: one *)
(* built-in row for a text, one row for a slug in its genre.                *)
BankTypeOK ==
    /\ edition \in Editions /\ DOMAIN offered \subseteq Genres /\ Range(offered) \subseteq BOOLEAN
    /\ rows \subseteq Row
    /\ \A q, r \in BuiltIn(rows) : q.id = r.id \/ q.text = r.text \/ <<q.genre, q.slug>> = <<r.genre, r.slug>> => q = r
    /\ \A q, r \in rows : q.id = r.id => q = r
    /\ \A r \in BuiltIn(rows) : r.genre \in DOMAIN offered
    /\ practised \subseteq Texts /\ off \subseteq Nat /\ seeds \in 0..MaxSeeds /\ refused \in BOOLEAN

(* "The seeder never re-activates a row switched off here": what the        *)
(* operator switched off is off until the operator says otherwise, through  *)
(* any series of files and seeds. Not so of a save that lands between what  *)
(* a seed loaded and what it writes (Overlap): the seed undoes it.          *)
SwitchedOffStaysOff == \A r \in rows : r.id \in off => ~r.active

Seeded == seeding.open /\ ~seeding'.open /\ ~refused'

(* A seed leaves on offer what the files say and nothing else: no genre     *)
(* nobody declares, no line no file holds, and every line that had not been *)
(* switched off before, wherever it hung.                                   *)
SeedSettlesBank ==
    Seeded =>
        /\ \A g \in DOMAIN offered' : offered'[g] <=> g \in edition.declared
        /\ \A r \in BuiltIn(rows') : r.active => \E l \in LinesOf(edition) : l.text = r.text /\ l.genre = r.genre
        /\ \A l \in LinesOf(edition) :
            \/ \E r \in BuiltIn(rows') : r.active /\ r.text = l.text
            \/ \E r \in BuiltIn(rows) : ~r.active /\ r.text = l.text

(* "Changing a file must not break a link somebody already sent": no edit,  *)
(* merge or seed deletes a row or changes the slug it answers to, and none  *)
(* touches a line somebody wrote for themselves.                            *)
LinksSurvive ==
    /\ \A r \in rows : \E q \in rows' : q.id = r.id /\ q.text = r.text /\ q.slug = r.slug
    /\ Theirs \subseteq rows'

(* The seed keeps its word to the operator, to the files and to the links.  *)
SeedKeepsItsWord == [][SwitchedOffStaysOff' /\ SeedSettlesBank /\ LinksSurvive]_bankVars

(* "Editing a file and running seed_topics is the whole content workflow":  *)
(* a seed of files that load does not raise. Not so of a line reworded      *)
(* under its slug, which meets the row it had ...                           *)
SeedGoesThrough == ~refused

(* ... and puts on offer every line but those the operator switched off.    *)
(* Not so of a line that comes back: the sweep leaves the operator's mark.  *)
LinesAreOffered ==
    [][Seeded => \A r \in BuiltIn(rows') : r.text \in {l.text : l \in LinesOf(edition)} => r.active \/ r.id \in off]_bankVars

(* "Only bank topics are named, each a link into a round on that exact      *)
(* prompt": what the shared page names, the round's page opens. Not so of a *)
(* line that is off or left its file.                                       *)
SharedLinkOpens == Named \subseteq Offered
=============================================================================
