------------------------------- MODULE Editor -------------------------------
(* A genre somebody wrote, and the pages it is edited on: the controls of   *)
(* components/genres/editor.tsx and yours.tsx, over the routes under        *)
(* /topics/mine. A control waits only for its own call, so the calls of one *)
(* page overlap, and two pages never hear of each other. A route reads the  *)
(* genre when it begins and answers later: a model, or a bucket, may take a *)
(* minute in between.                                                       *)
EXTENDS Integers, FiniteSets, FiniteSetsExt

CONSTANTS
    Pages,     \* tabs and devices of one account
    Texts,     \* what a row may say
    Cap,       \* MAX_TOPICS
    PerMonth,  \* generate.PER_MONTH
    MaxSends,  \* bound: presses
    MaxRows    \* bound: rows ever made

ASSUME EditorAssumption ==
    /\ IsFiniteSet(Texts) /\ Cap \in Nat \ {0} /\ PerMonth \in Nat \ {0}
    /\ MaxSends \in Nat /\ MaxRows \in Nat

VARIABLES
    alive, rows, token,  \* the genre row, what hangs under it, its link (0: none)
    made, minted, born,  \* genres after the first, links and rows ever made
    called, spent,       \* model calls made, and the Generation rows that say so
    pro,                 \* the account may write
    page,                \* what each page holds
    calls, sends,        \* calls in flight, and presses so far
    fresh,               \* auxiliary: pages nothing has happened behind the back of,
    tangled,             \* pages with a call out that overlapped another of their own,
    atOnce, slipped      \* most descriptions served at once, pictures a link overtook

server == <<alive, rows, token, made, minted, born, called, spent>>
vars   == <<server, pro, page, calls, sends, fresh, tangled, atOnce, slipped>>

Link     == 0 .. MaxSends
Row      == [id : 1..MaxRows, text : Texts, image : BOOLEAN]
Genre    == [rows : SUBSET Row, token : Link]
Controls == {"add", "picture", "row", "share", "genre"}
Ops      == {"paste", "describe", "picture", "save", "drop", "share", "unshare", "remove", "make"}
Shares   == {"share", "unshare"}
Closed   == {"save", "paste", "describe", "picture", "share", "make"}  \* _writer: Pro only

Held      == [rows |-> rows, token |-> token]
Empty     == [rows |-> {}, token |-> 0]
Said(rs)  == {r.text : r \in rs}
Pictures(rs) == {r \in rs : r.image}
Left      == Max({0, PerMonth - spent})

(* The button that waits for an operation. A row's delete has none.         *)
Control(op) ==
    CASE op \in {"paste", "describe"} -> {"add"}
      [] op = "picture" -> {"picture"}
      [] op = "save" -> {"row"}
      [] op \in Shares -> {"share"}
      [] op \in {"remove", "make"} -> {"genre"}
      [] OTHER -> {}

Init ==
    /\ alive = TRUE /\ rows = {} /\ token = 0
    /\ made = 0 /\ minted = 0 /\ born = 0 /\ called = 0 /\ spent = 0 /\ pro = TRUE
    /\ page = [p \in Pages |-> [open |-> TRUE, genre |-> Held, left |-> Left, busy |-> {}]]
    /\ calls = {} /\ sends = 0
    /\ fresh = Pages /\ tangled = {} /\ atOnce = 0 /\ slipped = {}

-----------------------------------------------------------------------------
(* The page: a press sends, and the button waits. An editor is opened anew  *)
(* only once the calls of the last one are over.                            *)

Of(p) == {c \in calls : c.by = p}

Offered(p, op, id) ==
    LET shown == page[p].genre IN
    CASE op = "make" -> ~page[p].open /\ Of(p) = {}
      [] op = "describe" -> page[p].open /\ page[p].left > 0
      [] op = "picture" -> page[p].open /\ shown.token = 0
      [] op \in {"save", "drop"} -> page[p].open /\ id \in {r.id : r \in shown.rows}
      [] op = "share" -> page[p].open /\ shown.token = 0 /\ Pictures(shown.rows) = {}
      [] op = "unshare" -> page[p].open /\ shown.token # 0 /\ Pictures(shown.rows) = {}
      [] OTHER -> page[p].open

Press(p, op, id, lines) ==
    /\ sends < MaxSends
    /\ Offered(p, op, id)
    /\ Control(op) \cap page[p].busy = {}
    /\ sends' = sends + 1
    /\ page' = [page EXCEPT ![p].busy = @ \cup Control(op)]
    /\ calls' = calls \cup {[n |-> sends', by |-> p, op |-> op, id |-> id, lines |-> lines,
                             shown |-> IF op \in Shares THEN page[p].genre ELSE Empty,
                             at |-> "out", of |-> 0, seen |-> 0, links |-> 0,
                             answer |-> "none", genre |-> Empty, left |-> 0]}
    /\ IF Of(p) = {} THEN UNCHANGED <<fresh, tangled>>
                     ELSE fresh' = fresh \ {p} /\ tangled' = tangled \cup {p}
    /\ UNCHANGED <<server, pro, atOnce, slipped>>

Moved(c, as)     == calls' = (calls \ {c}) \cup {as}
(* Nothing more is asked of what a call brought.                            *)
Finished(c)      == [c EXCEPT !.at = "back", !.id = 0, !.lines = {}, !.of = 0, !.seen = 0, !.links = 0]
Refused(c, why)  == Moved(c, [Finished(c) EXCEPT !.answer = why])
(* Every write answers with the genre, its rows read again and its link as  *)
(* the route found it.                                                      *)
Answered(c, rs, link) ==
    Moved(c, [Finished(c) EXCEPT !.answer = "ok", !.left = Max({0, PerMonth - (spent + 1)}),
                              !.genre = [rows |-> rs, token |-> link]])
(* The other pages are out of date. A page told only of the link is as up   *)
(* to date as it was; one told of the whole genre is up to date, unless its *)
(* calls overlap or the link turned while the route was at work.            *)
Behind(c) ==
    fresh' = IF c.op \in Shares THEN fresh \cap {c.by}
             ELSE IF c.by \notin tangled /\ c.seen = token THEN {c.by} ELSE {}

-----------------------------------------------------------------------------
(* The routes. Begin reads the genre and judges what is judged before the   *)
(* work; Finish does the work.                                              *)

(* Seeded fault: the allowance is judged by the page alone.                 *)
TurnedAwayFree(c) ==
    IF c.op \in Closed /\ ~pro THEN "403"
    ELSE IF ~alive /\ c.op # "make" THEN "404"
    ELSE IF c.op = "picture" /\ (token # 0 \/ Cardinality(rows) >= Cap \/ c.lines \subseteq Said(rows)) THEN "400"
    ELSE "ok"

TurnedAway(c) ==
    IF c.op \in Closed /\ ~pro THEN "403"
    ELSE IF ~alive /\ c.op # "make" THEN "404"
    ELSE IF \/ c.op = "describe" /\ Left = 0
            \/ c.op = "picture" /\ (token # 0 \/ Cardinality(rows) >= Cap \/ c.lines \subseteq Said(rows))
         THEN "400"
    ELSE "ok"

Generating == {c \in calls : c.op = "describe" /\ c.at = "in"}

Begin(c) ==
    /\ c.at = "out"
    /\ LET why == TurnedAway(c) IN
       IF why # "ok" THEN Refused(c, why)
                     ELSE Moved(c, [c EXCEPT !.at = "in", !.of = made, !.seen = token, !.links = minted])
    /\ atOnce' = Max({atOnce, Cardinality(Generating')})
    /\ UNCHANGED <<server, pro, page, sends, fresh, tangled, slipped>>

(* Rows for lines nothing here says yet.                                    *)
Fresh(lines) == lines \ Said(rows)
Fits(lines)  == Cardinality(rows) + Cardinality(Fresh(lines)) <= Cap

Landed(lines) ==
    \E new \in [Fresh(lines) -> (born + 1) .. (born + Cardinality(Fresh(lines)))] :
        /\ \A s, t \in Fresh(lines) : s # t => new[s] # new[t]
        /\ rows' = rows \cup {[id |-> new[t], text |-> t, image |-> FALSE] : t \in Fresh(lines)}
        /\ born' = born + Cardinality(Fresh(lines))
        /\ born' <= MaxRows

Paste(c) ==
    /\ c.op = "paste"
    /\ IF Fits(c.lines)
         THEN Landed(c.lines) /\ Answered(c, rows', c.seen) /\ Behind(c)
         ELSE Refused(c, "400") /\ UNCHANGED <<rows, born, fresh>>
    /\ UNCHANGED <<alive, token, minted, called, spent>>

(* The model answers, or does not. What it wrote goes through the paste,    *)
(* and the attempt is written down after it.                                *)
Describe(c) ==
    /\ c.op = "describe"
    /\ called' = called + 1
    /\ \/ /\ Fits(c.lines) /\ Landed(c.lines)
          /\ spent' = spent + 1 /\ Answered(c, rows', c.seen) /\ Behind(c)
       \/ /\ ~Fits(c.lines)
          /\ Refused(c, "400") /\ UNCHANGED <<rows, born, spent, fresh>>
       \/ /\ spent' = spent + 1 /\ Refused(c, "502") /\ UNCHANGED <<rows, born, fresh>>
    /\ UNCHANGED <<alive, token, minted>>

(* The picture is in the bucket by now; only the table can still refuse.    *)
AddPicture(c) ==
    /\ c.op = "picture"
    /\ IF c.lines \subseteq Said(rows)
         THEN Refused(c, "500") /\ UNCHANGED <<rows, born, fresh>>
         ELSE /\ born' = born + 1 /\ born' <= MaxRows
              /\ rows' = rows \cup {[id |-> born', text |-> CHOOSE t \in c.lines : TRUE, image |-> TRUE]}
              /\ Answered(c, rows', c.seen) /\ Behind(c)
    /\ UNCHANGED <<alive, token, minted, called, spent>>

Save(c) ==
    LET was == {r \in rows : r.id = c.id} IN
    /\ c.op = "save"
    /\ IF was = {} THEN Refused(c, "404") /\ UNCHANGED <<rows, fresh>>
       ELSE IF c.lines \subseteq Said(rows \ was) THEN Refused(c, "400") /\ UNCHANGED <<rows, fresh>>
       ELSE /\ rows' = (rows \ was) \cup {[r EXCEPT !.text = CHOOSE t \in c.lines : TRUE] : r \in was}
            /\ Answered(c, rows', c.seen) /\ Behind(c)
    /\ UNCHANGED <<alive, token, minted, born, called, spent>>

Drop(c) ==
    /\ c.op = "drop"
    /\ rows' = {r \in rows : r.id # c.id}
    /\ Answered(c, rows', c.seen) /\ Behind(c)
    /\ UNCHANGED <<alive, token, minted, born, called, spent>>

(* Seeded fault: pictures are the page's business.                          *)
ShareAnyway(c) ==
    /\ c.op = "share"
    /\ IF c.seen = 0
         THEN minted' = minted + 1 /\ token' = minted' /\ Answered(c, rows, token') /\ Behind(c)
         ELSE Answered(c, rows, c.seen) /\ UNCHANGED <<token, minted, fresh>>
    /\ UNCHANGED <<alive, rows, born, called, spent>>

(* Seeded fault: the old link is handed back.                               *)
ShareParked(c) ==
    /\ c.op = "share"
    /\ IF Pictures(rows) # {} THEN Refused(c, "400") /\ UNCHANGED <<token, minted, fresh>>
       ELSE minted' = Max({1, minted}) /\ token' = minted' /\ Answered(c, rows, token') /\ Behind(c)
    /\ UNCHANGED <<alive, rows, born, called, spent>>

Share(c) ==
    /\ c.op = "share"
    /\ IF Pictures(rows) # {} THEN Refused(c, "400") /\ UNCHANGED <<token, minted, fresh>>
       ELSE IF c.seen = 0
         THEN minted' = minted + 1 /\ token' = minted' /\ Answered(c, rows, token') /\ Behind(c)
         ELSE Answered(c, rows, c.seen) /\ UNCHANGED <<token, minted, fresh>>
    /\ UNCHANGED <<alive, rows, born, called, spent>>

Unshare(c) ==
    /\ c.op = "unshare"
    /\ token' = IF c.seen = 0 THEN token ELSE 0
    /\ Answered(c, rows, 0) /\ Behind(c)
    /\ UNCHANGED <<alive, rows, minted, born, called, spent>>

Remove(c) ==
    /\ c.op = "remove"
    /\ alive' = FALSE /\ rows' = {} /\ token' = 0
    /\ Answered(c, {}, 0) /\ Behind(c)
    /\ UNCHANGED <<minted, born, called, spent>>

(* The same name again: the same slug, and a new genre under it.            *)
Make(c) ==
    /\ c.op = "make"
    /\ IF alive THEN Refused(c, "400") /\ UNCHANGED <<alive, rows, token, made, fresh>>
       ELSE /\ alive' = TRUE /\ rows' = {} /\ token' = 0 /\ made' = made + 1
            /\ Answered(c, {}, 0) /\ Behind(c)
    /\ UNCHANGED <<minted, born, called, spent>>

(* A genre deleted under a route in flight fails the write that names it,   *)
(* the Generation row included; a row or a link already gone is no write,   *)
(* and is answered of a genre without rows.                                 *)
Gone(c) == c.op # "make" /\ (~alive \/ c.of # made)

Orphaned(c) ==
    /\ IF c.op \in {"drop", "remove"} \/ (c.op = "unshare" /\ c.seen = 0) \/ (c.op = "share" /\ c.seen # 0)
         THEN Answered(c, {}, c.seen) ELSE Refused(c, "500")
    /\ called' = IF c.op = "describe" THEN called + 1 ELSE called
    /\ UNCHANGED <<alive, rows, token, made, minted, born, spent, fresh>>

Finish(c) ==
    /\ c.at = "in"
    /\ IF Gone(c) THEN Orphaned(c)
       ELSE \/ Make(c)
            \/ /\ \/ Paste(c) \/ Describe(c) \/ AddPicture(c) \/ Save(c) \/ Drop(c)
                  \/ Share(c) \/ Unshare(c) \/ Remove(c)
               /\ UNCHANGED made
    /\ slipped' = IF c.op = "picture" /\ born' # born /\ token > c.links THEN slipped \cup {born'} ELSE slipped
    /\ UNCHANGED <<pro, page, sends, tangled, atOnce>>

-----------------------------------------------------------------------------
(* The answer, on the page that asked.                                      *)

(* Seeded fault: the page works out for itself what its press did.          *)
ShownKept(at, c) ==
    IF ~at.open THEN at
    ELSE IF c.answer = "ok" THEN [at EXCEPT !.genre = [@ EXCEPT !.token = c.genre.token]]
    ELSE IF c.op = "describe" THEN [at EXCEPT !.left = Max({0, @ - 1})]
    ELSE at

(* Seeded fault: the count goes down whatever it stands at.                 *)
ShownBelow(at, c) ==
    IF ~at.open THEN at
    ELSE IF c.answer = "ok" /\ c.op \in Shares
         THEN [at EXCEPT !.genre = [c.shown EXCEPT !.token = c.genre.token]]
    ELSE IF c.answer = "ok" /\ c.op = "describe" THEN [at EXCEPT !.genre = c.genre, !.left = c.left]
    ELSE IF c.answer = "ok" THEN [at EXCEPT !.genre = c.genre]
    ELSE IF c.op = "describe" THEN [at EXCEPT !.left = @ - 2]
    ELSE at

(* write, upload and generate take the whole genre; flipShare puts the link *)
(* on the genre it closed over when it was pressed.                         *)
Shown(at, c) ==
    IF ~at.open THEN at
    ELSE IF c.answer = "ok" /\ c.op \in Shares
         THEN [at EXCEPT !.genre = [c.shown EXCEPT !.token = c.genre.token]]
    ELSE IF c.answer = "ok" /\ c.op = "describe" THEN [at EXCEPT !.genre = c.genre, !.left = c.left]
    ELSE IF c.answer = "ok" THEN [at EXCEPT !.genre = c.genre]
    ELSE IF c.op = "describe" THEN [at EXCEPT !.left = Max({0, @ - 1})]
    ELSE at

Freed(at, c) == [at EXCEPT !.busy = @ \ Control(c.op)]

(* Seeded fault: a refusal returns before the button is given back.         *)
FreedOnce(at, c) == IF c.answer = "ok" THEN Freed(at, c) ELSE at

(* Deleting leaves for the list whatever it was told, and making opens the  *)
(* editor on what the server has.                                           *)
Arrived(at, c) ==
    CASE c.op = "remove" -> [at EXCEPT !.open = FALSE, !.busy = {}]
      [] c.op = "make" /\ c.answer = "ok" ->
            IF alive THEN [open |-> TRUE, genre |-> Held, left |-> Left, busy |-> {}] ELSE at
      [] OTHER -> at

Settled(at, c) == Freed(at, c)

(* A call is over.                                                          *)
Over(c) ==
    /\ calls' = calls \ {c}
    /\ tangled' = IF Of(c.by) = {c} THEN tangled \ {c.by} ELSE tangled

Land(c) ==
    /\ c.at = "back"
    /\ page' = [page EXCEPT ![c.by] = Arrived(Shown(Settled(@, c), c), c)]
    /\ Over(c)
    /\ UNCHANGED <<server, pro, sends, fresh, atOnce, slipped>>

(* The network takes the call, or its answer. The page is told the same.    *)
Lose(c) ==
    /\ c.at \in {"out", "back"}
    /\ page' = [page EXCEPT ![c.by] = Freed(@, c)]
    /\ Over(c)
    /\ fresh' = IF c.at = "back" THEN fresh \ {c.by} ELSE fresh
    /\ UNCHANGED <<server, pro, sends, atOnce, slipped>>

(* A card on the list opens the editor on what the server has.              *)
Open(p) ==
    /\ ~page[p].open /\ alive /\ Of(p) = {}
    /\ page' = [page EXCEPT ![p] = [open |-> TRUE, genre |-> Held, left |-> Left, busy |-> {}]]
    /\ fresh' = fresh \cup {p}
    /\ UNCHANGED <<server, pro, calls, sends, tangled, atOnce, slipped>>

(* The plan ends, or is bought again; a page already open is not told.      *)
Lapse ==
    /\ sends < MaxSends
    /\ pro' = ~pro
    /\ UNCHANGED <<server, page, calls, sends, fresh, tangled, atOnce, slipped>>

Lines(op) ==
    CASE op \in {"paste", "describe"} -> (SUBSET Texts) \ {{}}
      [] op \in {"picture", "save"} -> {{t} : t \in Texts}
      [] OTHER -> {{}}
Named(op) == IF op \in {"save", "drop"} THEN 1..MaxRows ELSE {0}

Next ==
    \/ \E p \in Pages, op \in Ops : \E id \in Named(op), lines \in Lines(op) : Press(p, op, id, lines)
    \/ \E c \in calls : Begin(c) \/ Finish(c) \/ Land(c) \/ Lose(c)
    \/ \E p \in Pages : Open(p)
    \/ Lapse

Spec == Init /\ [][Next]_vars
(* The server answers and the browser is told, or gives the call up.        *)
FairSpec == Spec /\ WF_vars(\E c \in calls : Begin(c) \/ Finish(c) \/ Land(c))

-----------------------------------------------------------------------------
(* What must hold.                                                          *)

TypeOK ==
    /\ alive \in BOOLEAN /\ rows \subseteq Row /\ token \in Link
    /\ made \in Nat /\ minted \in Link /\ born \in 0..MaxRows /\ called \in Nat /\ spent \in Nat /\ pro \in BOOLEAN
    /\ page \in [Pages -> [open : BOOLEAN, genre : Genre, left : 0..PerMonth, busy : SUBSET Controls]]
    /\ sends \in 0..MaxSends /\ fresh \subseteq Pages /\ tangled \subseteq Pages
    /\ atOnce \in Nat /\ slipped \subseteq 1..MaxRows

(* A picture is behind a link only where the link was made while it was     *)
(* being uploaded: whichever pages, however stale, asked for which of the   *)
(* two, a route that sees the other one refuses (add_picture and share,     *)
(* topics/owned.py).                                                        *)
PrivatePictures == token # 0 => {r.id : r \in Pictures(rows)} \subseteq slipped

(* A picture is never behind a link. Not so: a link made while it is being  *)
(* uploaded is not looked for again.                                        *)
PicturesNeverShared == token # 0 => Pictures(rows) = {}

(* The month is overrun by no more than were at work at once, less one,     *)
(* however many pages still show one left (used, generate).                 *)
AllowanceKept == spent <= PerMonth + Max({0, atOnce - 1})

(* No account is given more generations in a month than it has. Not so: two *)
(* pressed together are both counted before either is written down.         *)
MonthIsTheCeiling == spent <= PerMonth

(* Every call to the model is written down: the rows are the ceiling. Not   *)
(* so: a paste that refuses what was written comes before the row is saved. *)
EveryCallCounted == called = spent

(* The page whose write was the last to land shows what the server holds,   *)
(* although it was refused, or stale, when it asked, and whatever the other *)
(* pages had in flight, if it had nothing else out and the link did not     *)
(* turn between the route's two looks (write, upload, generate, flipShare). *)
LastWriterSees ==
    \A p \in fresh : page[p].open /\ Of(p) = {} => page[p].genre = Held

(* Turning the link takes no row off the page. Not so: it is put on the     *)
(* genre the page held at the press, without what its own paste has brought *)
(* since (flipShare).                                                       *)
SharingKeepsRows ==
    [][\A c \in calls : c.op \in Shares /\ Land(c) => page'[c.by].genre.rows = page[c.by].genre.rows]_vars

(* A page that is behind is given hardly more than there is, and catches up *)
(* with its next write.                                                     *)
StalePagesHarmless == AllowanceKept /\ LastWriterSees

(* A link taken back never opens the genre again.                           *)
LinkDiesForGood == token' \notin {token, 0} => token' > minted

(* The link is the owner's to take back, and is never given to a picture    *)
(* that was there to be seen.                                               *)
PublicLink == [][PrivatePictures' /\ LinkDiesForGood]_vars

(* Every call ends, answered, refused or lost, and no button is left        *)
(* waiting for a call that is over: once nobody presses, none waits.        *)
Quiet == calls = {} /\ \A p \in Pages : page[p].busy = {}
ControlsComeBack == []<>Quiet
=============================================================================
