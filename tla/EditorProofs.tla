---------------------------- MODULE EditorProofs ----------------------------
(* The editor's pages over its routes, for any number of pages, texts and   *)
(* calls, however the calls overlap.                                        *)
EXTENDS Editor, FiniteSetTheorems, TLAPS

Answers == {"none", "ok", "204", "400", "403", "404", "500", "502"}

Call ==
    [n : 1..MaxSends, by : Pages, op : Ops, id : 0..MaxRows, lines : SUBSET Texts, shown : Genre,
     at : {"out", "in", "back"}, of : Nat, seen : Link, links : Link, answer : Answers, genre : Genre,
     left : 0..PerMonth]

(* The calls a route may still serve.                                       *)
Unserved == {c \in calls : c.at # "back"}

(* A call mints one link at most.                                           *)
Typed ==
    /\ TypeOK
    /\ calls \subseteq Call /\ IsFiniteSet(calls)
    /\ minted + Cardinality(Unserved) <= sends

-----------------------------------------------------------------------------
(* What a call becomes.                                                     *)

Back(c, why)        == [Finished(c) EXCEPT !.answer = why]
Served(c)           == [c EXCEPT !.at = "in", !.of = made, !.seen = token, !.links = minted]
Done(c, rs, link, more) ==
    [Finished(c) EXCEPT !.answer = "ok", !.left = more, !.genre = [rows |-> rs, token |-> link]]

LEMMA FinishedIs ==
    ASSUME NEW c \in Call
    PROVE  LET d == Finished(c) IN
           d \in Call /\ d.by = c.by /\ d.op = c.op /\ d.at = "back" /\ d.shown = c.shown
<1>1. 0 \in Link /\ 0 \in 0..MaxRows
  BY EditorAssumption DEF Link
<1> QED
  BY <1>1 DEF Finished, Call

LEMMA BackIs ==
    ASSUME NEW c \in Call, NEW why \in Answers
    PROVE  LET d == Back(c, why) IN
           d \in Call /\ d.by = c.by /\ d.op = c.op /\ d.at = "back" /\ d.answer = why /\ d.shown = c.shown
<1> DEFINE f == Finished(c)
<1>1. f \in Call /\ f.by = c.by /\ f.op = c.op /\ f.at = "back" /\ f.shown = c.shown
  BY FinishedIs
<1> HIDE DEF f
<1>2. LET d == [f EXCEPT !.answer = why] IN
      d \in Call /\ d.by = f.by /\ d.op = f.op /\ d.at = f.at /\ d.answer = why /\ d.shown = f.shown
  BY <1>1 DEF Call
<1> QED
  BY <1>1, <1>2 DEF Back, f

LEMMA ServedIs ==
    ASSUME NEW c \in Call, token \in Link, made \in Nat, minted \in Link
    PROVE  LET d == Served(c) IN
           /\ d \in Call /\ d.by = c.by /\ d.op = c.op /\ d.at = "in" /\ d.shown = c.shown
           /\ d.of = made /\ d.seen = token /\ d.links = minted
  BY DEF Served, Call

LEMMA DoneIs ==
    ASSUME NEW c \in Call, NEW rs, rs \subseteq Row, NEW link \in Link, NEW more \in 0..PerMonth
    PROVE  LET d == Done(c, rs, link, more) IN
           /\ d \in Call /\ d.by = c.by /\ d.op = c.op /\ d.at = "back" /\ d.answer = "ok" /\ d.shown = c.shown
           /\ d.genre.rows = rs /\ d.genre.token = link
<1>1. [rows |-> rs, token |-> link] \in Genre
  BY DEF Genre
<1> DEFINE f == Finished(c)
<1>2. f \in Call /\ f.by = c.by /\ f.op = c.op /\ f.at = "back" /\ f.shown = c.shown
  BY FinishedIs
<1> HIDE DEF f
<1>3. LET d == [f EXCEPT !.answer = "ok", !.left = more, !.genre = [rows |-> rs, token |-> link]] IN
      /\ d \in Call /\ d.by = f.by /\ d.op = f.op /\ d.at = f.at /\ d.answer = "ok" /\ d.shown = f.shown
      /\ d.genre.rows = rs /\ d.genre.token = link
  BY <1>1, <1>2 DEF Call, Answers
<1> QED
  BY <1>2, <1>3 DEF Done, f

LEMMA MaxIs == ASSUME NEW n \in Int PROVE Max({0, n}) = IF n > 0 THEN n ELSE 0
<1>1. CASE n > 0
  <2>1. \A x \in {0, n} : (\A y \in {0, n} : x >= y) <=> x = n
    BY <1>1
  <2> QED
    BY <1>1, <2>1 DEF Max
<1>2. CASE ~(n > 0)
  <2>1. \A x \in {0, n} : (\A y \in {0, n} : x >= y) => x = 0
    BY <1>2
  <2>2. \A y \in {0, n} : 0 >= y
    BY <1>2
  <2> QED
    BY <1>2, <2>1, <2>2 DEF Max
<1> QED
  BY <1>1, <1>2

LEMMA MaxOf == ASSUME NEW m \in Int, NEW n \in Int PROVE Max({m, n}) \in {m, n} /\ Max({m, n}) >= m /\ Max({m, n}) >= n
<1>1. CASE m >= n
  <2>1. \A y \in {m, n} : m >= y
    BY <1>1
  <2> QED
    BY <2>1 DEF Max
<1>2. CASE ~(m >= n)
  <2>1. \A y \in {m, n} : n >= y
    BY <1>2
  <2> QED
    BY <2>1 DEF Max
<1> QED
  BY <1>1, <1>2

LEMMA LeftIs == ASSUME NEW k \in Nat PROVE Max({0, PerMonth - k}) \in 0..PerMonth
<1>1. PerMonth - k \in Int /\ PerMonth \in Nat
  BY EditorAssumption
<1> QED
  BY <1>1, MaxIs

-----------------------------------------------------------------------------
(* The ways a route can end.                                                *)

Replaced(c, d) == calls' = (calls \ {c}) \cup {d}

PictureIds(rs) == {r.id : r \in Pictures(rs)}

(* Who is up to date once a page has been told of the whole genre.          *)
Caught(c) == IF c.by \notin tangled /\ c.seen = token THEN {c.by} ELSE {}

Turned(c) ==
    /\ \E why \in Answers \ {"ok"} : Replaced(c, Back(c, why))
    /\ UNCHANGED <<alive, rows, token, made, minted, born, fresh>>
    /\ called' \in {called, called + 1}
    /\ \/ spent' = spent
       \/ c.op = "describe" /\ spent' = spent + 1

Wrote(c) ==
    /\ ~Gone(c) /\ c.op \in {"paste", "describe", "picture", "save", "drop"}
    /\ \E more \in 0..PerMonth : Replaced(c, Done(c, rows', c.seen, more))
    /\ rows' \subseteq Row /\ born' \in 0..MaxRows /\ fresh' = Caught(c)
    /\ PictureIds(rows') \subseteq PictureIds(rows) \cup IF c.op = "picture" THEN {born'} ELSE {}
    /\ c.op = "picture" => born' # born /\ born' \in 1..MaxRows
    /\ UNCHANGED <<alive, token, made, minted>>
    /\ called' \in {called, called + 1}
    /\ \/ spent' = spent
       \/ c.op = "describe" /\ spent' = spent + 1

Linked(c) ==
    /\ ~Gone(c) /\ c.op = "share" /\ Pictures(rows) = {}
    /\ minted' = minted + 1 /\ token' = minted'
    /\ \E more \in 0..PerMonth : Replaced(c, Done(c, rows, minted + 1, more))
    /\ fresh' = fresh \cap {c.by}
    /\ UNCHANGED <<alive, rows, made, born, called, spent>>

LinkedBefore(c) ==
    /\ ~Gone(c) /\ c.op = "share"
    /\ \E more \in 0..PerMonth : Replaced(c, Done(c, rows, c.seen, more))
    /\ UNCHANGED <<alive, rows, token, made, minted, born, called, spent, fresh>>

Unlinked(c) ==
    /\ ~Gone(c) /\ c.op = "unshare"
    /\ token' = IF c.seen = 0 THEN token ELSE 0
    /\ \E more \in 0..PerMonth : Replaced(c, Done(c, rows, 0, more))
    /\ fresh' = fresh \cap {c.by}
    /\ UNCHANGED <<alive, rows, made, minted, born, called, spent>>

Emptied(c) ==
    /\ \/ c.op = "remove" /\ alive /\ alive' = FALSE /\ made' = made
       \/ c.op = "make" /\ ~alive /\ alive' = TRUE /\ made' = made + 1
    /\ rows' = {} /\ token' = 0 /\ fresh' = Caught(c)
    /\ \E more \in 0..PerMonth : Replaced(c, Done(c, {}, 0, more))
    /\ UNCHANGED <<minted, born, called, spent>>

(* Answered of a genre that is gone.                                        *)
Voided(c) ==
    /\ Gone(c)
    /\ \E more \in 0..PerMonth : Replaced(c, Done(c, {}, c.seen, more))
    /\ UNCHANGED <<alive, rows, token, made, minted, born, called, spent, fresh>>

Ended(c) == Turned(c) \/ Wrote(c) \/ Linked(c) \/ LinkedBefore(c) \/ Unlinked(c) \/ Emptied(c) \/ Voided(c)

(* A picture whose row lands under a link made since its route looked.      *)
Slipping(c) ==
    slipped' = IF c.op = "picture" /\ born' # born /\ token > c.links THEN slipped \cup {born'} ELSE slipped

LEMMA RefusedIs ==
    ASSUME NEW c, NEW why, Refused(c, why) PROVE Replaced(c, Back(c, why))
  BY DEF Refused, Moved, Replaced, Back

LEMMA AnsweredIs ==
    ASSUME spent \in Nat, NEW c, NEW rs, NEW link, Answered(c, rs, link)
    PROVE  \E more \in 0..PerMonth : Replaced(c, Done(c, rs, link, more))
<1> DEFINE more == Max({0, PerMonth - (spent + 1)})
<1>1. more \in 0..PerMonth
  BY LeftIs
<1> HIDE DEF more
<1>2. Replaced(c, Done(c, rs, link, more))
  BY DEF Answered, Moved, Replaced, Done, more
<1> QED
  BY <1>1, <1>2

LEMMA LandedIs ==
    ASSUME rows \subseteq Row, born \in 0..MaxRows, NEW lines \in SUBSET Texts, Landed(lines)
    PROVE  /\ rows' \subseteq Row /\ born' \in 0..MaxRows
           /\ PictureIds(rows') \subseteq PictureIds(rows)
<1> DEFINE k == Cardinality(Fresh(lines))
<1>1. IsFiniteSet(Fresh(lines)) /\ Fresh(lines) \subseteq Texts
  BY FS_Subset, EditorAssumption DEF Fresh
<1>2. k \in Nat
  BY <1>1, FS_CardinalityType
<1>3. PICK new \in [Fresh(lines) -> (born + 1) .. (born + k)] :
         /\ rows' = rows \cup {[id |-> new[t], text |-> t, image |-> FALSE] : t \in Fresh(lines)}
         /\ born' = born + k /\ born' <= MaxRows
  BY DEF Landed
<1> HIDE DEF k
<1>4. born' \in 0..MaxRows
  BY <1>2, <1>3, EditorAssumption
<1>5. ASSUME NEW t \in Fresh(lines) PROVE [id |-> new[t], text |-> t, image |-> FALSE] \in Row
  <2>1. new[t] \in (born + 1) .. (born + k)
    BY <1>3
  <2>2. new[t] \in 1..MaxRows
    BY <1>2, <1>3, <2>1, EditorAssumption
  <2>3. t \in Texts
    BY <1>1
  <2> QED
    BY <2>2, <2>3 DEF Row
<1>6. rows' \subseteq Row
  BY <1>3, <1>5
<1>7. PictureIds(rows') \subseteq PictureIds(rows)
  BY <1>3 DEF Pictures, PictureIds
<1> QED
  BY <1>4, <1>6, <1>7

(* A route that has begun ends in one of these ways.                        *)
LEMMA FinishEnds ==
    ASSUME Typed, NEW c \in calls, Finish(c)
    PROVE  c.at = "in" /\ Ended(c) /\ Slipping(c) /\ UNCHANGED <<pro, page, sends, tangled, atOnce>>
<1>1. /\ c \in Call /\ rows \subseteq Row /\ born \in 0..MaxRows /\ spent \in Nat
      /\ c.lines \subseteq Texts /\ c.op \in Ops
  BY DEF Typed, TypeOK, Call
<1>2. c.at = "in" /\ Slipping(c) /\ UNCHANGED <<pro, page, sends, tangled, atOnce>>
  BY DEF Finish, Slipping
<1>3. \A why \in Answers \ {"ok"} : Refused(c, why) => \E w \in Answers \ {"ok"} : Replaced(c, Back(c, w))
  BY RefusedIs
<1>4. \A rs, link : Answered(c, rs, link) => \E more \in 0..PerMonth : Replaced(c, Done(c, rs, link, more))
  BY <1>1, AnsweredIs
<1>5. CASE Gone(c)
  <2>1. Orphaned(c) /\ UNCHANGED <<alive, rows, token, made, minted, born, spent, fresh>>
    BY <1>5 DEF Finish, Orphaned
  <2>2. CASE Refused(c, "500")
    BY <1>2, <1>3, <2>1, <2>2 DEF Orphaned, Turned, Answers, Ended
  <2>3. CASE Answered(c, {}, c.seen) /\ c.op # "describe"
    BY <1>2, <1>4, <1>5, <2>1, <2>3 DEF Orphaned, Voided, Ended
  <2> QED
    BY <2>1, <2>2, <2>3 DEF Orphaned
<1>6. CASE ~Gone(c)
  <2>1. /\ Paste(c) \/ Describe(c) \/ AddPicture(c) \/ Save(c) \/ Drop(c) \/ Share(c) \/ Unshare(c) \/ Remove(c) \/ Make(c)
        /\ ~Gone(c)
        /\ c.op = "remove" => alive
        /\ c.op # "make" => made' = made
    BY <1>6 DEF Finish, Gone, Make
  <2>2. CASE Paste(c)
    <3>1. CASE Fits(c.lines)
      <4>1. /\ Landed(c.lines) /\ Answered(c, rows', c.seen) /\ Behind(c) /\ c.op = "paste"
            /\ UNCHANGED <<alive, token, minted, called, spent>>
        BY <2>2, <3>1 DEF Paste
      <4> QED
        BY <1>1, <1>2, <1>4, <2>1, <4>1, LandedIs DEF Ended, Wrote, Behind, Shares, Caught
    <3>2. CASE ~Fits(c.lines)
      BY <1>2, <1>3, <2>1, <2>2, <3>2 DEF Paste, Ended, Turned, Answers
    <3> QED
      BY <3>1, <3>2
  <2>3. CASE Describe(c)
    <3>1. c.op = "describe" /\ called' = called + 1 /\ UNCHANGED <<alive, token, minted>>
      BY <2>3 DEF Describe
    <3>2. CASE Fits(c.lines) /\ Landed(c.lines) /\ spent' = spent + 1 /\ Answered(c, rows', c.seen) /\ Behind(c)
      BY <1>1, <1>2, <1>4, <2>1, <3>1, <3>2, LandedIs DEF Ended, Wrote, Behind, Shares, Caught
    <3>3. CASE Refused(c, "400") /\ UNCHANGED <<rows, born, spent, fresh>>
      BY <1>2, <1>3, <2>1, <3>1, <3>3 DEF Ended, Turned, Answers
    <3>4. CASE spent' = spent + 1 /\ Refused(c, "502") /\ UNCHANGED <<rows, born, fresh>>
      BY <1>2, <1>3, <2>1, <3>1, <3>4 DEF Ended, Turned, Answers
    <3> QED
      BY <2>3, <3>2, <3>3, <3>4 DEF Describe
  <2>4. CASE AddPicture(c)
    <3>1. c.op = "picture" /\ UNCHANGED <<alive, token, minted, called, spent>>
      BY <2>4 DEF AddPicture
    <3>2. CASE c.lines \subseteq Said(rows)
      BY <1>2, <1>3, <2>1, <2>4, <3>1, <3>2 DEF AddPicture, Ended, Turned, Answers
    <3>3. CASE ~(c.lines \subseteq Said(rows))
      <4> DEFINE said == CHOOSE t \in c.lines : TRUE
                 row == [id |-> born', text |-> said, image |-> TRUE]
      <4>1. /\ born' = born + 1 /\ born' <= MaxRows /\ rows' = rows \cup {row}
            /\ Answered(c, rows', c.seen) /\ Behind(c)
        BY <2>4, <3>3 DEF AddPicture
      <4>2. said \in Texts
        BY <1>1, <3>3
      <4> HIDE DEF said
      <4>3. born' \in 1..MaxRows
        BY <1>1, <4>1, EditorAssumption
      <4>4. row \in Row /\ row.id = born'
        BY <4>2, <4>3 DEF Row
      <4> HIDE DEF row
      <4>5. PictureIds(rows') \subseteq PictureIds(rows) \cup {born'}
        BY <4>1, <4>4 DEF PictureIds, Pictures
      <4>6. born' # born
        BY <1>1, <4>1
      <4>7. rows' \subseteq Row /\ born' \in 0..MaxRows /\ fresh' = Caught(c)
        BY <1>1, <3>1, <4>1, <4>3, <4>4 DEF Behind, Shares, Caught
      <4>8. \E more \in 0..PerMonth : Replaced(c, Done(c, rows', c.seen, more))
        BY <1>4, <4>1
      <4>9. UNCHANGED <<alive, token, made, minted>> /\ called' = called /\ spent' = spent /\ ~Gone(c)
        BY <2>1, <3>1
      <4> HIDE DEF row
      <4>10. Wrote(c)
        BY <3>1, <4>3, <4>5, <4>6, <4>7, <4>8, <4>9 DEF Wrote
      <4> QED
        BY <1>2, <4>10 DEF Ended
    <3> QED
      BY <3>2, <3>3
  <2>5. CASE Save(c)
    <3> DEFINE was == {r \in rows : r.id = c.id}
               said == CHOOSE t \in c.lines : TRUE
               saved == {[r EXCEPT !.text = said] : r \in was}
    <3>1. c.op = "save" /\ UNCHANGED <<alive, token, minted, born, called, spent>>
      BY <2>5 DEF Save
    <3>2. CASE was = {}
      BY <1>2, <1>3, <2>1, <2>5, <3>1, <3>2 DEF Save, Ended, Turned, Answers
    <3>3. CASE was # {} /\ c.lines \subseteq Said(rows \ was)
      BY <1>2, <1>3, <2>1, <2>5, <3>1, <3>3 DEF Save, Ended, Turned, Answers
    <3>4. CASE was # {} /\ ~(c.lines \subseteq Said(rows \ was))
      <4>1. rows' = (rows \ was) \cup saved /\ Answered(c, rows', c.seen) /\ Behind(c)
        BY <2>5, <3>4 DEF Save
      <4>2. said \in Texts
        BY <1>1, <3>4
      <4> HIDE DEF said
      <4>3. ASSUME NEW r \in was PROVE LET v == [r EXCEPT !.text = said] IN v \in Row /\ v.image = r.image /\ v.id = r.id
        BY <1>1, <4>2 DEF Row
      <4>4. \A v \in saved : v \in Row /\ \E r \in was : v.image = r.image /\ v.id = r.id
        BY <4>3
      <4> HIDE DEF saved
      <4>5. rows' \subseteq Row /\ PictureIds(rows') \subseteq PictureIds(rows)
        BY <1>1, <4>1, <4>4 DEF Pictures, PictureIds
      <4> QED
        BY <1>1, <1>2, <1>4, <2>1, <3>1, <4>1, <4>5 DEF Ended, Wrote, Behind, Shares, Caught
    <3> QED
      BY <3>2, <3>3, <3>4
  <2>6. CASE Drop(c)
    <3>1. /\ c.op = "drop" /\ rows' = {r \in rows : r.id # c.id} /\ Answered(c, rows', c.seen) /\ Behind(c)
          /\ UNCHANGED <<alive, token, minted, born, called, spent>>
      BY <2>6 DEF Drop
    <3>2. rows' \subseteq Row /\ PictureIds(rows') \subseteq PictureIds(rows)
      BY <1>1, <3>1 DEF Pictures, PictureIds
    <3> QED
      BY <1>1, <1>2, <1>4, <2>1, <3>1, <3>2 DEF Ended, Wrote, Behind, Shares, Caught
  <2>7. CASE Share(c)
    <3>1. c.op = "share" /\ UNCHANGED <<alive, rows, born, called, spent>>
      BY <2>7 DEF Share
    <3>2. CASE Pictures(rows) # {}
      BY <1>2, <1>3, <2>1, <2>7, <3>1, <3>2 DEF Share, Ended, Turned, Answers
    <3>3. CASE Pictures(rows) = {} /\ c.seen = 0
      <4>1. minted' = minted + 1 /\ token' = minted' /\ Answered(c, rows, minted + 1) /\ Behind(c)
        BY <2>7, <3>3 DEF Share
      <4> QED
        BY <1>2, <1>4, <2>1, <3>1, <3>3, <4>1 DEF Ended, Linked, Behind, Shares
    <3>4. CASE Pictures(rows) = {} /\ c.seen # 0
      BY <1>2, <1>4, <2>1, <2>7, <3>1, <3>4 DEF Share, Ended, LinkedBefore
    <3> QED
      BY <3>2, <3>3, <3>4
  <2>8. CASE Unshare(c)
    BY <1>2, <1>4, <2>1, <2>8 DEF Unshare, Ended, Unlinked, Behind, Shares
  <2>9. CASE Remove(c)
    BY <1>2, <1>4, <2>1, <2>9 DEF Remove, Ended, Emptied, Behind, Shares, Caught
  <2>10. CASE Make(c)
    <3>1. CASE alive
      BY <1>2, <1>3, <2>1, <2>10, <3>1 DEF Make, Ended, Turned, Answers
    <3>2. CASE ~alive
      BY <1>2, <1>4, <2>1, <2>10, <3>2 DEF Make, Ended, Emptied, Behind, Shares, Caught
    <3> QED
      BY <3>1, <3>2
  <2> QED
    BY <2>1, <2>2, <2>3, <2>4, <2>5, <2>6, <2>7, <2>8, <2>9, <2>10
<1> QED
  BY <1>5, <1>6

-----------------------------------------------------------------------------
(* Types.                                                                   *)

PageType == [open : BOOLEAN, genre : Genre, left : 0..PerMonth, busy : SUBSET Controls]

Written(p, op, id, lines) ==
    [n |-> sends + 1, by |-> p, op |-> op, id |-> id, lines |-> lines,
     shown |-> IF op \in Shares THEN page[p].genre ELSE Empty,
     at |-> "out", of |-> 0, seen |-> 0, links |-> 0, answer |-> "none", genre |-> Empty, left |-> 0]

LEMMA Facts ==
    ASSUME Typed
    PROVE  /\ alive \in BOOLEAN /\ rows \subseteq Row /\ token \in Link /\ Held \in Genre
           /\ made \in Nat /\ minted \in Nat /\ minted \in Link /\ Empty \in Genre /\ born \in 0..MaxRows /\ called \in Nat /\ spent \in Nat
           /\ sends \in Nat /\ sends <= MaxSends /\ MaxSends \in Nat /\ 0 \in Link
           /\ Max({0, PerMonth - spent}) \in 0..PerMonth /\ 0 \in 0..PerMonth
           /\ page \in [Pages -> PageType] /\ fresh \subseteq Pages /\ pro \in BOOLEAN
           /\ tangled \subseteq Pages /\ atOnce \in Nat /\ slipped \subseteq 1..MaxRows
           /\ IsFiniteSet(Unserved) /\ Cardinality(Unserved) \in Nat
<1>1. /\ TypeOK /\ MaxSends \in Nat /\ PerMonth \in Nat
  BY EditorAssumption DEF Typed
<1>2. IsFiniteSet(Unserved) /\ Cardinality(Unserved) \in Nat
  BY FS_Subset, FS_CardinalityType DEF Typed, Unserved
<1>3. Held \in Genre /\ Empty \in Genre
  BY <1>1 DEF TypeOK, Held, Empty, Genre, Link
<1>4. Max({0, PerMonth - spent}) \in 0..PerMonth
  BY <1>1, LeftIs DEF TypeOK
<1> QED
  BY <1>1, <1>2, <1>3, <1>4 DEF TypeOK, Link, PageType

LEMMA PressIs ==
    ASSUME Typed, NEW p \in Pages, NEW op \in Ops, NEW id \in Named(op), NEW lines \in Lines(op),
           Press(p, op, id, lines)
    PROVE  LET c == Written(p, op, id, lines) IN
           /\ c \in Call /\ c.by = p /\ c.op = op /\ c.at = "out" /\ c.answer = "none"
           /\ op \in Shares => c.shown = page[p].genre
           /\ calls' = calls \cup {c} /\ sends' = sends + 1 /\ sends < MaxSends
           /\ page' \in [Pages -> PageType]
           /\ \A q \in Pages : page'[q].open = page[q].open /\ page'[q].genre = page[q].genre
           /\ IF Of(p) = {} THEN UNCHANGED <<fresh, tangled>>
                            ELSE fresh' = fresh \ {p} /\ tangled' = tangled \cup {p}
           /\ UNCHANGED <<server, pro, atOnce, slipped>>
<1> DEFINE c == Written(p, op, id, lines)
<1>1. /\ sends < MaxSends /\ sends' = sends + 1 /\ calls' = calls \cup {c}
      /\ page' = [page EXCEPT ![p].busy = @ \cup Control(op)]
      /\ IF Of(p) = {} THEN UNCHANGED <<fresh, tangled>>
                       ELSE fresh' = fresh \ {p} /\ tangled' = tangled \cup {p}
      /\ UNCHANGED <<server, pro, atOnce, slipped>>
  BY DEF Press, Written
<1>2. id \in 0..MaxRows
  BY EditorAssumption DEF Named
<1>3. lines \in SUBSET Texts
  BY DEF Lines
<1>4. sends + 1 \in 1..MaxSends
  BY <1>1, Facts
<1>5. page[p] \in PageType
  BY Facts
<1>6. c \in Call
  BY <1>2, <1>3, <1>4, <1>5, Facts DEF Call, Written, Answers, PageType
<1>7. Control(op) \subseteq Controls
  BY DEF Control, Controls
<1>8. /\ page' \in [Pages -> PageType]
      /\ \A q \in Pages : page'[q].open = page[q].open /\ page'[q].genre = page[q].genre
  <2> DEFINE b == page[p].busy \cup Control(op)
  <2>1. b \in SUBSET Controls
    BY <1>5, <1>7 DEF PageType
  <2>2. page' = [page EXCEPT ![p] = [page[p] EXCEPT !.busy = b]]
    BY <1>1
  <2> HIDE DEF b
  <2>3. LET v == [page[p] EXCEPT !.busy = b] IN v \in PageType /\ v.open = page[p].open /\ v.genre = page[p].genre
    BY <1>5, <2>1 DEF PageType
  <2> QED
    BY <2>2, <2>3, Facts
<1> QED
  BY <1>1, <1>6, <1>8 DEF Written

LEMMA FreedIs ==
    ASSUME NEW at \in PageType, NEW c \in Call
    PROVE  LET v == Freed(at, c) IN v \in PageType /\ v.open = at.open /\ v.genre = at.genre
  BY DEF Freed, PageType

LEMMA ShownIs ==
    ASSUME NEW at \in PageType, NEW c \in Call
    PROVE  LET v == Shown(at, c) IN
           /\ v \in PageType /\ v.open = at.open
           /\ v.genre = IF ~at.open \/ c.answer # "ok" THEN at.genre
                        ELSE IF c.op \in Shares THEN [rows |-> c.shown.rows, token |-> c.genre.token]
                        ELSE c.genre
<1>1. c.genre \in Genre /\ c.left \in 0..PerMonth /\ c.shown \in Genre
  BY DEF Call
<1>2. LET g == [c.shown EXCEPT !.token = c.genre.token] IN g \in Genre /\ g = [rows |-> c.shown.rows, token |-> c.genre.token]
  BY <1>1 DEF Genre
<1>3. Max({0, at.left - 1}) \in 0..PerMonth
  <2>1. at.left - 1 \in Int /\ at.left \in 0..PerMonth /\ PerMonth \in Nat
    BY EditorAssumption DEF PageType
  <2> QED
    BY <2>1, MaxIs
<1> DEFINE g == [c.shown EXCEPT !.token = c.genre.token]  k == Max({0, at.left - 1})
<1>4. g \in Genre /\ g = [rows |-> c.shown.rows, token |-> c.genre.token] /\ k \in 0..PerMonth
  BY <1>2, <1>3
<1>5. Shown(at, c) = IF ~at.open THEN at
                     ELSE IF c.answer = "ok" /\ c.op \in Shares THEN [at EXCEPT !.genre = g]
                     ELSE IF c.answer = "ok" /\ c.op = "describe" THEN [at EXCEPT !.genre = c.genre, !.left = c.left]
                     ELSE IF c.answer = "ok" THEN [at EXCEPT !.genre = c.genre]
                     ELSE IF c.op = "describe" THEN [at EXCEPT !.left = k]
                     ELSE at
  BY DEF Shown
<1> HIDE DEF g, k
<1> QED
  BY <1>1, <1>4, <1>5 DEF PageType

LEMMA ArrivedIs ==
    ASSUME Typed, NEW at \in PageType, NEW c \in Call
    PROVE  LET v == Arrived(at, c) IN
           /\ v \in PageType
           /\ c.op = "remove" => ~v.open
           /\ c.op # "remove" => \/ v.open = at.open /\ v.genre = at.genre
                                 \/ v.genre = Held
  BY Facts DEF Arrived, PageType, Left

LEMMA LandIs ==
    ASSUME Typed, NEW c \in calls, Land(c)
    PROVE  /\ c.at = "back" /\ calls' = calls \ {c} /\ UNCHANGED <<server, pro, sends, fresh, atOnce, slipped>>
           /\ tangled' = IF Of(c.by) = {c} THEN tangled \ {c.by} ELSE tangled
           /\ page' \in [Pages -> PageType]
           /\ \A q \in Pages \ {c.by} : page'[q] = page[q]
           /\ c.op = "remove" => ~page'[c.by].open
           /\ c.op # "remove" =>
                 \/ page'[c.by].genre = Held
                 \/ /\ page'[c.by].open = page[c.by].open
                    /\ page'[c.by].genre = IF ~page[c.by].open \/ c.answer # "ok" THEN page[c.by].genre
                                           ELSE IF c.op \in Shares
                                           THEN [rows |-> c.shown.rows, token |-> c.genre.token]
                                           ELSE c.genre
<1> DEFINE at == page[c.by]  v == Arrived(Shown(Freed(at, c), c), c)
<1>1. /\ c.at = "back" /\ calls' = calls \ {c} /\ UNCHANGED <<server, pro, sends, fresh, atOnce, slipped>>
      /\ tangled' = IF Of(c.by) = {c} THEN tangled \ {c.by} ELSE tangled
      /\ page' = [page EXCEPT ![c.by] = v]
  BY DEF Land, Over, Settled
<1>2. c \in Call /\ c.by \in Pages /\ at \in PageType
  BY Facts DEF Typed, Call
<1>3. Freed(at, c) \in PageType /\ Freed(at, c).open = at.open /\ Freed(at, c).genre = at.genre
  BY <1>2, FreedIs
<1> DEFINE s == Shown(Freed(at, c), c)
<1>4. /\ s \in PageType /\ s.open = at.open
      /\ s.genre = IF ~at.open \/ c.answer # "ok" THEN at.genre
                   ELSE IF c.op \in Shares THEN [rows |-> c.shown.rows, token |-> c.genre.token]
                   ELSE c.genre
  BY <1>2, <1>3, ShownIs
<1>5. /\ v \in PageType
      /\ c.op = "remove" => ~v.open
      /\ c.op # "remove" => \/ v.open = s.open /\ v.genre = s.genre
                            \/ v.genre = Held
  BY <1>2, <1>4, ArrivedIs
<1> HIDE DEF v, s
<1>6. page' \in [Pages -> PageType] /\ page'[c.by] = v /\ \A q \in Pages \ {c.by} : page'[q] = page[q]
  BY <1>1, <1>2, <1>5, Facts
<1> QED
  BY <1>1, <1>4, <1>5, <1>6

LEMMA LoseIs ==
    ASSUME Typed, NEW c \in calls, Lose(c)
    PROVE  /\ c.at \in {"out", "back"} /\ calls' = calls \ {c} /\ UNCHANGED <<server, pro, sends, atOnce, slipped>>
           /\ tangled' = IF Of(c.by) = {c} THEN tangled \ {c.by} ELSE tangled
           /\ page' \in [Pages -> PageType]
           /\ \A q \in Pages : page'[q].open = page[q].open /\ page'[q].genre = page[q].genre
           /\ fresh' = IF c.at = "back" THEN fresh \ {c.by} ELSE fresh
<1>1. /\ c.at \in {"out", "back"} /\ calls' = calls \ {c} /\ UNCHANGED <<server, pro, sends, atOnce, slipped>>
      /\ tangled' = IF Of(c.by) = {c} THEN tangled \ {c.by} ELSE tangled
      /\ page' = [page EXCEPT ![c.by] = Freed(page[c.by], c)]
      /\ fresh' = IF c.at = "back" THEN fresh \ {c.by} ELSE fresh
  BY DEF Lose, Over
<1>2. c \in Call /\ c.by \in Pages /\ page[c.by] \in PageType
  BY Facts DEF Typed, Call
<1> DEFINE v == Freed(page[c.by], c)
<1>3. v \in PageType /\ v.open = page[c.by].open /\ v.genre = page[c.by].genre
  BY <1>2, FreedIs
<1> HIDE DEF v
<1> QED
  BY <1>1, <1>2, <1>3, Facts DEF v

LEMMA OpenIs ==
    ASSUME Typed, NEW p \in Pages, Open(p)
    PROVE  /\ alive /\ Of(p) = {}
           /\ page' \in [Pages -> PageType] /\ page'[p].genre = Held
           /\ \A q \in Pages \ {p} : page'[q] = page[q]
           /\ fresh' = fresh \cup {p}
           /\ UNCHANGED <<server, pro, calls, sends, tangled, atOnce, slipped>>
<1> DEFINE v == [open |-> TRUE, genre |-> Held, left |-> Left, busy |-> {}]
<1>1. v \in PageType /\ v.genre = Held
  BY Facts DEF PageType, Left
<1>2. page' = [page EXCEPT ![p] = v]
  BY DEF Open
<1> HIDE DEF v
<1> QED
  BY <1>1, <1>2, Facts DEF Open

(* A route takes the call up, or refuses it.                                *)
LEMMA BeginIs ==
    ASSUME NEW c, Begin(c)
    PROVE  /\ c.at = "out" /\ UNCHANGED <<server, pro, page, sends, fresh, tangled, slipped>>
           /\ atOnce' = Max({atOnce, Cardinality(Generating')})
           /\ \/ \E why \in Answers \ {"ok"} : Replaced(c, Back(c, why))
              \/ TurnedAway(c) = "ok" /\ Replaced(c, Served(c))
<1>1. TurnedAway(c) \in {"ok", "400", "403", "404"}
  BY DEF TurnedAway
<1>2. CASE TurnedAway(c) = "ok"
  BY <1>2 DEF Begin, Moved, Replaced, Served
<1>3. CASE TurnedAway(c) # "ok"
  BY <1>1, <1>3, RefusedIs DEF Begin, Answers
<1> QED
  BY <1>2, <1>3

(* What a call becomes is a call, and none of those still to be served is   *)
(* counted twice.                                                           *)
LEMMA ReplacedIs ==
    ASSUME Typed, NEW c \in calls, NEW d \in Call, Replaced(c, d), c.at # "back"
    PROVE  /\ calls' \subseteq Call /\ IsFiniteSet(calls')
           /\ Cardinality(Unserved') \in Nat /\ Cardinality(Unserved') <= Cardinality(Unserved)
           /\ d.at = "back" => Cardinality(Unserved') + 1 <= Cardinality(Unserved)
<1> DEFINE U == Unserved \ {c}
<1>1. IsFiniteSet(U) /\ Cardinality(U) = Cardinality(Unserved) - 1
  <2>1. c \in Unserved
    BY DEF Unserved
  <2> QED
    BY <2>1, Facts, FS_RemoveElement
<1>2. IsFiniteSet(calls \ {c})
  BY FS_RemoveElement DEF Typed
<1>3. calls' \subseteq Call /\ IsFiniteSet(calls')
  <2>1. IsFiniteSet((calls \ {c}) \cup {d})
    BY <1>2, FS_AddElement
  <2> QED
    BY <2>1 DEF Replaced, Typed
<1>4. Cardinality(U) \in Nat
  BY <1>1, FS_CardinalityType
<1>5. CASE d.at = "back"
  <2>1. Unserved' = U
    BY <1>5 DEF Unserved, Replaced
  <2> QED
    BY <1>1, <1>3, <1>4, <2>1, Facts
<1>6. CASE d.at # "back"
  <2>1. Unserved' = U \cup {d}
    BY <1>6 DEF Unserved, Replaced
  <2>2. Cardinality(U \cup {d}) = IF d \in U THEN Cardinality(U) ELSE Cardinality(U) + 1
    BY <1>1, FS_AddElement
  <2> HIDE DEF U
  <2> QED
    BY <1>1, <1>3, <1>4, <1>6, <2>1, <2>2, Facts
<1> QED
  BY <1>5, <1>6

LEMMA FewerCalls ==
    ASSUME Typed, NEW c \in calls, calls' = calls \ {c}
    PROVE  calls' \subseteq Call /\ IsFiniteSet(calls') /\ Cardinality(Unserved') <= Cardinality(Unserved)
           /\ Cardinality(Unserved') \in Nat
<1>1. IsFiniteSet(calls \ {c})
  BY FS_RemoveElement DEF Typed
<1>2. Unserved' \subseteq Unserved
  BY DEF Unserved
<1>3. IsFiniteSet(Unserved') /\ Cardinality(Unserved') <= Cardinality(Unserved) /\ Cardinality(Unserved') \in Nat
  BY <1>2, Facts, FS_Subset, FS_CardinalityType
<1> QED
  BY <1>1, <1>3 DEF Typed

(* Enough to know of a step.                                                *)
LEMMA TypedBy ==
    ASSUME Typed, sends' \in Nat, sends' <= MaxSends,
           alive' \in BOOLEAN, rows' \subseteq Row, minted' \in Nat, token' \in 0..MaxSends,
           made' \in Nat, born' \in 0..MaxRows, called' \in Nat, spent' \in Nat, pro' \in BOOLEAN,
           tangled' \subseteq Pages, atOnce' \in Nat, slipped' \subseteq 1..MaxRows,
           page' \in [Pages -> PageType], fresh' \subseteq Pages,
           calls' \subseteq Call, IsFiniteSet(calls'), Cardinality(Unserved') \in Nat,
           minted' + Cardinality(Unserved') <= sends'
    PROVE  Typed'
<1>1. minted' \in 0..MaxSends /\ sends' \in 0..MaxSends
  BY Facts
<1> QED
  BY <1>1 DEF Typed, TypeOK, PageType, Link

LEMMA PressTyped ==
    ASSUME Typed, NEW p \in Pages, NEW op \in Ops, NEW id \in Named(op), NEW lines \in Lines(op),
           Press(p, op, id, lines)
    PROVE  Typed'
<1> DEFINE c == Written(p, op, id, lines)
<1>1. /\ c \in Call /\ c.at = "out" /\ calls' = calls \cup {c} /\ sends' = sends + 1 /\ sends < MaxSends
      /\ page' \in [Pages -> PageType] /\ UNCHANGED <<server, pro, atOnce, slipped>>
      /\ fresh' \subseteq fresh /\ tangled' \subseteq tangled \cup {p}
  BY PressIs
<1> HIDE DEF c
<1>2. Unserved' = Unserved \cup {c}
  BY <1>1 DEF Unserved
<1>3. Cardinality(Unserved') \in Nat /\ Cardinality(Unserved') <= Cardinality(Unserved) + 1
  <2>1. IsFiniteSet(Unserved) /\ Cardinality(Unserved) \in Nat
    BY Facts
  <2>2. Cardinality(Unserved \cup {c}) = IF c \in Unserved THEN Cardinality(Unserved) ELSE Cardinality(Unserved) + 1
    BY <2>1, FS_AddElement
  <2> QED
    BY <1>2, <2>1, <2>2
<1>4. IsFiniteSet(calls')
  BY <1>1, FS_AddElement DEF Typed
<1>5. minted + Cardinality(Unserved) <= sends /\ calls \subseteq Call /\ token \in 0..MaxSends
  BY DEF Typed, TypeOK, Link
<1> QED
  BY <1>1, <1>3, <1>4, <1>5, Facts, TypedBy DEF server

LEMMA BeginTyped == ASSUME Typed, NEW c \in calls, Begin(c) PROVE Typed'
<1>1. /\ c \in Call /\ c.at = "out" /\ UNCHANGED <<server, pro, page, sends, fresh, tangled, slipped>>
      /\ atOnce' = Max({atOnce, Cardinality(Generating')})
  BY BeginIs DEF Typed
<1>2. \E d \in Call : Replaced(c, d)
  <2>1. \A why \in Answers : Back(c, why) \in Call
    BY <1>1, BackIs
  <2>2. Served(c) \in Call
    BY <1>1, ServedIs, Facts
  <2> QED
    BY <2>1, <2>2, BeginIs
<1>3. PICK d \in Call : Replaced(c, d)
  BY <1>2
<1>4. /\ calls' \subseteq Call /\ IsFiniteSet(calls')
      /\ Cardinality(Unserved') \in Nat /\ Cardinality(Unserved') <= Cardinality(Unserved)
  BY <1>1, <1>3, ReplacedIs
<1>5. minted + Cardinality(Unserved) <= sends /\ token \in 0..MaxSends
  BY DEF Typed, TypeOK, Link
<1>6. atOnce' \in Nat
  <2>1. Generating' \subseteq calls'
    BY DEF Generating
  <2>2. Cardinality(Generating') \in Nat
    BY <1>4, <2>1, FS_Subset, FS_CardinalityType
  <2> DEFINE k == Cardinality(Generating')
  <2>3. k \in Int /\ k \in Nat /\ atOnce' = Max({atOnce, k})
    BY <1>1, <2>2
  <2>4. atOnce \in Nat /\ atOnce \in Int
    BY Facts
  <2> HIDE DEF k
  <2>5. Max({atOnce, k}) \in {atOnce, k}
    BY <2>3, <2>4, MaxOf
  <2> QED
    BY <2>3, <2>4, <2>5
<1> QED
  BY <1>1, <1>4, <1>5, <1>6, Facts, TypedBy DEF server

(* A call answers for the page and the press it came of.                    *)
LEMMA EndsAs ==
    ASSUME Typed, NEW c \in calls, c.at = "in", Ended(c)
    PROVE  \E d \in Call : /\ Replaced(c, d) /\ d.at = "back" /\ d.op = c.op /\ d.by = c.by /\ d.shown = c.shown
                           /\ \/ Turned(c) /\ d.answer # "ok"
                              \/ Wrote(c) /\ d.answer = "ok" /\ d.genre.rows = rows' /\ d.genre.token = c.seen
                              \/ Linked(c) /\ d.answer = "ok" /\ d.genre.token = minted + 1
                              \/ LinkedBefore(c) /\ d.answer = "ok" /\ d.genre.token = c.seen
                              \/ Unlinked(c) /\ d.answer = "ok" /\ d.genre.token = 0
                              \/ Emptied(c) /\ d.answer = "ok" /\ d.genre.rows = {} /\ d.genre.token = 0
                              \/ Voided(c) /\ d.answer = "ok"
<1>1. c \in Call /\ c.seen \in Link
  BY DEF Typed, Call
<1>2. CASE Turned(c)
  <2>1. PICK why \in Answers \ {"ok"} : Replaced(c, Back(c, why))
    BY <1>2 DEF Turned
  <2> QED
    BY <1>1, <1>2, <2>1, BackIs
<1>9. ASSUME NEW rs, rs \subseteq Row, NEW link \in Link, NEW more \in 0..PerMonth
      PROVE  LET d == Done(c, rs, link, more) IN
             /\ d \in Call /\ d.by = c.by /\ d.op = c.op /\ d.at = "back" /\ d.answer = "ok" /\ d.shown = c.shown
             /\ d.genre.rows = rs /\ d.genre.token = link
  BY <1>1, <1>9, DoneIs
<1>10. rows \subseteq Row /\ 0 \in Link
  BY Facts
<1>3. CASE Wrote(c)
  BY <1>1, <1>3, <1>9 DEF Wrote
<1>4. CASE Linked(c)
  <2>1. minted + 1 \in Link
    <3>1. Cardinality(Unserved) >= 1
      <4>1. c \in Unserved
        BY DEF Unserved, Ended
      <4>2. Cardinality(Unserved \ {c}) = Cardinality(Unserved) - 1 /\ Cardinality(Unserved \ {c}) \in Nat
        BY <4>1, Facts, FS_RemoveElement, FS_CardinalityType
      <4> QED
        BY <4>2, Facts
    <3> QED
      BY <3>1, Facts DEF Typed, Link
  <2> QED
    BY <1>4, <1>9, <1>10, <2>1 DEF Linked
<1>5. CASE LinkedBefore(c)
  BY <1>1, <1>5, <1>9, <1>10 DEF LinkedBefore
<1>6. CASE Unlinked(c)
  BY <1>1, <1>6, <1>9, <1>10 DEF Unlinked
<1>7. CASE Emptied(c)
  BY <1>1, <1>7, <1>9, <1>10 DEF Emptied
<1>8. CASE Voided(c)
  BY <1>1, <1>8, <1>9, <1>10 DEF Voided
<1> QED
  BY <1>2, <1>3, <1>4, <1>5, <1>6, <1>7, <1>8 DEF Ended

LEMMA FinishTyped == ASSUME Typed, NEW c \in calls, Finish(c) PROVE Typed'
<1>1. c.at = "in" /\ Ended(c) /\ Slipping(c) /\ UNCHANGED <<pro, page, sends, tangled, atOnce>> /\ c \in Call /\ c.by \in Pages
  BY FinishEnds DEF Typed, Call
<1>2. PICK d \in Call : Replaced(c, d) /\ d.at = "back"
  BY <1>1, EndsAs
<1>3. /\ calls' \subseteq Call /\ IsFiniteSet(calls')
      /\ Cardinality(Unserved') \in Nat /\ Cardinality(Unserved') + 1 <= Cardinality(Unserved)
  BY <1>1, <1>2, ReplacedIs
<1>4. minted + Cardinality(Unserved) <= sends /\ token \in 0..MaxSends
  BY DEF Typed, TypeOK, Link
<1>5. /\ alive' \in BOOLEAN /\ rows' \subseteq Row /\ minted' \in {minted, minted + 1} /\ token' \in {token, 0, minted'}
      /\ token' # token => token' \in {0, minted'}
      /\ made' \in {made, made + 1}
      /\ born' \in 0..MaxRows /\ called' \in Nat /\ spent' \in Nat /\ fresh' \subseteq Pages
  <2>1. CASE Turned(c)
    BY <2>1, Facts DEF Turned
  <2>2. CASE Wrote(c)
    BY <1>1, <2>2, Facts DEF Wrote, Caught
  <2>3. CASE Linked(c)
    BY <2>3, Facts DEF Linked
  <2>4. CASE LinkedBefore(c)
    BY <2>4, Facts DEF LinkedBefore
  <2>5. CASE Unlinked(c)
    BY <2>5, Facts DEF Unlinked
  <2>6. CASE Emptied(c)
    BY <1>1, <2>6, Facts DEF Emptied, Caught
  <2>7. CASE Voided(c)
    BY <2>7, Facts DEF Voided
  <2> QED
    BY <1>1, <2>1, <2>2, <2>3, <2>4, <2>5, <2>6, <2>7 DEF Ended
<1>6. minted' \in Nat /\ minted' + Cardinality(Unserved') <= sends' /\ sends' \in Nat /\ sends' <= MaxSends
  BY <1>1, <1>3, <1>4, <1>5, Facts
<1>7. token' \in 0..MaxSends
  BY <1>3, <1>4, <1>5, <1>6, Facts
<1>8. slipped' \subseteq 1..MaxRows
  <2>1. CASE slipped' = slipped
    BY <2>1, Facts
  <2>2. CASE c.op = "picture" /\ born' # born /\ slipped' = slipped \cup {born'}
    <3>1. Wrote(c)
      BY <1>1, <2>2 DEF Ended, Turned, Linked, LinkedBefore, Unlinked, Emptied, Voided
    <3>2. born' \in 1..MaxRows
      BY <2>2, <3>1 DEF Wrote
    <3> QED
      BY <2>2, <3>2, Facts
  <2> QED
    BY <1>1, <2>1, <2>2 DEF Slipping
<1> QED
  BY <1>1, <1>3, <1>5, <1>6, <1>7, <1>8, Facts, TypedBy

LEMMA TypedInit == Init => Typed
<1> SUFFICES ASSUME Init PROVE Typed
  OBVIOUS
<1>1. MaxSends \in Nat /\ MaxRows \in Nat /\ PerMonth \in Nat
  BY EditorAssumption
<1>2. Held \in Genre /\ Left \in 0..PerMonth
  BY <1>1, LeftIs DEF Init, Held, Genre, Link, Left
<1>3. page \in [Pages -> PageType]
  BY <1>2 DEF Init, PageType
<1>4. Unserved = {} /\ IsFiniteSet({}) /\ Cardinality({}) = 0
  BY FS_EmptySet DEF Init, Unserved
<1> QED
  BY <1>1, <1>3, <1>4 DEF Init, Typed, TypeOK, PageType, Link

LEMMA TypedNext == Typed /\ [Next]_vars => Typed'
<1> SUFFICES ASSUME Typed, [Next]_vars PROVE Typed'
  OBVIOUS
<1>1. CASE \E p \in Pages, op \in Ops : \E id \in Named(op), lines \in Lines(op) : Press(p, op, id, lines)
  BY <1>1, PressTyped
<1>2. CASE \E c \in calls : Begin(c) \/ Finish(c)
  BY <1>2, BeginTyped, FinishTyped
<1>3. minted + Cardinality(Unserved) <= sends /\ token \in 0..MaxSends /\ calls \subseteq Call /\ IsFiniteSet(calls)
  BY DEF Typed, TypeOK, Link
<1>4. CASE \E c \in calls : Land(c)
  <2>1. PICK c \in calls : Land(c)
    BY <1>4
  <2>2. /\ calls' = calls \ {c} /\ UNCHANGED <<server, pro, sends, fresh, atOnce, slipped>>
        /\ page' \in [Pages -> PageType] /\ tangled' \subseteq tangled
    BY <2>1, LandIs
  <2> QED
    BY <1>3, <2>2, FewerCalls, Facts, TypedBy DEF server
<1>5. CASE \E c \in calls : Lose(c)
  <2>1. PICK c \in calls : Lose(c)
    BY <1>5
  <2>2. /\ calls' = calls \ {c} /\ UNCHANGED <<server, pro, sends, atOnce, slipped>>
        /\ page' \in [Pages -> PageType] /\ fresh' \subseteq fresh /\ tangled' \subseteq tangled
    BY <2>1, LoseIs
  <2> QED
    BY <1>3, <2>2, FewerCalls, Facts, TypedBy DEF server
<1>6. CASE \E p \in Pages : Open(p)
  <2>1. PICK p \in Pages : Open(p)
    BY <1>6
  <2>2. /\ page' \in [Pages -> PageType] /\ fresh' = fresh \cup {p}
        /\ UNCHANGED <<server, pro, calls, sends, tangled, atOnce, slipped>>
    BY <2>1, OpenIs
  <2>3. Unserved' = Unserved
    BY <2>2 DEF Unserved
  <2> QED
    BY <1>3, <2>2, <2>3, Facts, TypedBy DEF server
<1>7. CASE Lapse
  <2>1. pro' = ~pro /\ UNCHANGED <<server, page, calls, sends, fresh, tangled, atOnce, slipped>>
    BY <1>7 DEF Lapse
  <2>2. Unserved' = Unserved
    BY <2>1 DEF Unserved
  <2> QED
    BY <1>3, <2>1, <2>2, Facts, TypedBy DEF server
<1>8. CASE UNCHANGED vars
  BY <1>8 DEF vars, server, Typed, TypeOK, Unserved
<1> QED
  BY <1>1, <1>2, <1>4, <1>5, <1>6, <1>7, <1>8 DEF Next

LEMMA AlwaysTyped == Spec => []Typed
  BY TypedInit, TypedNext, PTL DEF Spec

(* Every variable keeps its shape: no page counts below nothing or above a  *)
(* month, and no more links are minted than calls were sent.                *)
THEOREM EditorTyped == Spec => []TypeOK
<1>1. Typed => TypeOK
  BY DEF Typed
<1> QED
  BY <1>1, AlwaysTyped, PTL

-----------------------------------------------------------------------------
(* The steps, as the promises below see them.                               *)

Pressed(c) ==
    /\ c \in Call /\ c.at = "out" /\ (c.op \in Shares => c.shown = page[c.by].genre)
    /\ calls' = calls \cup {c}
    /\ \A q \in Pages : page'[q].open = page[q].open /\ page'[q].genre = page[q].genre
    /\ IF Of(c.by) = {} THEN UNCHANGED <<fresh, tangled>>
                        ELSE fresh' = fresh \ {c.by} /\ tangled' = tangled \cup {c.by}
    /\ UNCHANGED <<server, atOnce, slipped>>

(* A route ends, and no page has heard of it yet.                           *)
Finishing(c) == c.at = "in" /\ Ended(c) /\ Slipping(c) /\ UNCHANGED <<page, tangled, atOnce>>

Idle == UNCHANGED <<server, page, calls, fresh, tangled, atOnce, slipped>>

LEMMA Steps ==
    ASSUME Typed, [Next]_vars
    PROVE  \/ \E c : Pressed(c)
           \/ \E c \in calls : Begin(c)
           \/ \E c \in calls : Finishing(c)
           \/ \E c \in calls : Land(c) \/ Lose(c)
           \/ \E p \in Pages : Open(p)
           \/ Idle
<1>1. CASE \E p \in Pages, op \in Ops : \E id \in Named(op), lines \in Lines(op) : Press(p, op, id, lines)
  <2>1. PICK p \in Pages, op \in Ops : \E id \in Named(op), lines \in Lines(op) : Press(p, op, id, lines)
    BY <1>1
  <2>2. PICK id \in Named(op), lines \in Lines(op) : Press(p, op, id, lines)
    BY <2>1
  <2> DEFINE c == Written(p, op, id, lines)
  <2>3. /\ c \in Call /\ c.by = p /\ c.op = op /\ c.at = "out" /\ (op \in Shares => c.shown = page[p].genre)
        /\ calls' = calls \cup {c}
        /\ \A q \in Pages : page'[q].open = page[q].open /\ page'[q].genre = page[q].genre
        /\ IF Of(p) = {} THEN UNCHANGED <<fresh, tangled>>
                         ELSE fresh' = fresh \ {p} /\ tangled' = tangled \cup {p}
        /\ UNCHANGED <<server, atOnce, slipped>>
    BY <2>2, PressIs
  <2> HIDE DEF c
  <2>4. Pressed(c)
    BY <2>3 DEF Pressed
  <2> QED
    BY <2>4
<1>2. CASE \E c \in calls : Finish(c)
  BY <1>2, FinishEnds DEF Finishing
<1>3. CASE Lapse \/ UNCHANGED vars
  BY <1>3 DEF Lapse, vars, Idle
<1> QED
  BY <1>1, <1>2, <1>3 DEF Next

(* What a route that takes a call up has made sure of.                      *)
LEMMA BeginsAs ==
    ASSUME Typed, NEW c \in calls, Begin(c)
    PROVE  /\ c.at = "out" /\ UNCHANGED <<server, pro, page, sends, fresh, tangled, slipped>>
           /\ atOnce' = Max({atOnce, Cardinality(Generating')})
           /\ \E d \in Call :
                 /\ Replaced(c, d) /\ d.op = c.op /\ d.by = c.by /\ d.shown = c.shown
                 /\ \/ d.at = "back" /\ d.answer # "ok"
                    \/ /\ d.at = "in" /\ d.of = made /\ d.seen = token /\ d.links = minted
                       /\ c.op # "make" => alive
                       /\ c.op = "picture" => token = 0
                       /\ c.op = "describe" => spent < PerMonth
<1>1. c \in Call /\ token \in Link /\ made \in Nat /\ minted \in Link
  BY Facts DEF Typed
<1>2. /\ c.at = "out" /\ UNCHANGED <<server, pro, page, sends, fresh, tangled, slipped>>
      /\ atOnce' = Max({atOnce, Cardinality(Generating')})
  BY BeginIs
<1>3. CASE \E why \in Answers \ {"ok"} : Replaced(c, Back(c, why))
  BY <1>1, <1>2, <1>3, BackIs
<1>4. CASE TurnedAway(c) = "ok" /\ Replaced(c, Served(c))
  <2>1. (c.op = "picture" => token = 0) /\ (c.op # "make" => alive)
    BY <1>4 DEF TurnedAway
  <2>2. c.op = "describe" => spent < PerMonth
    <3> SUFFICES ASSUME c.op = "describe" PROVE spent < PerMonth
      OBVIOUS
    <3>1. Left # 0
      BY <1>4 DEF TurnedAway
    <3>2. PerMonth - spent \in Int /\ PerMonth \in Nat /\ spent \in Nat
      BY Facts, EditorAssumption
    <3> QED
      BY <3>1, <3>2, MaxIs DEF Left
  <2> QED
    BY <1>1, <1>2, <1>4, <2>1, <2>2, ServedIs
<1> QED
  BY <1>3, <1>4, BeginIs

-----------------------------------------------------------------------------
(* Pictures. A route adding one has found no link, so a link that stands    *)
(* when it is done is newer than all the links it could have found.         *)

Private ==
    /\ PrivatePictures
    /\ token <= minted
    /\ \A c \in calls : c.at = "in" => c.links <= minted /\ (c.op = "picture" => token = 0 \/ token > c.links)

LEMMA PrivateStill ==
    ASSUME Private, UNCHANGED <<rows, token, minted, slipped>>,
           \A c \in calls' : c.at = "in" => c \in calls \/ (c.links <= minted /\ (c.op = "picture" => token = 0))
    PROVE  Private'
  BY DEF Private, PrivatePictures, Pictures

LEMMA PrivateEnds ==
    ASSUME Typed, Private, NEW c \in calls, Finishing(c)
    PROVE  Private'
<1>1. PICK d \in Call : Replaced(c, d) /\ d.at = "back"
  BY EndsAs DEF Finishing
<1>2. c.at = "in" /\ Ended(c) /\ Slipping(c) /\ slipped \subseteq slipped'
  BY DEF Finishing, Slipping
<1>3. minted \in Nat /\ token \in Nat /\ \A a \in calls : a.links \in Nat
  BY Facts DEF Typed, Call, Link
<1>4. \A a \in calls' : a.at = "in" => a \in calls
  BY <1>1 DEF Replaced
<1>5. CASE Wrote(c)
  <2>1. token' # 0 => PictureIds(rows') \subseteq slipped'
    <3> SUFFICES ASSUME token' # 0 PROVE PictureIds(rows') \subseteq slipped'
      OBVIOUS
    <3>1. token # 0 /\ PictureIds(rows) \subseteq slipped
      BY <1>5 DEF Wrote, Private, PrivatePictures, PictureIds
    <3>2. CASE c.op = "picture"
      <4>1. token > c.links /\ born' # born
        BY <1>2, <1>5, <3>1, <3>2 DEF Wrote, Private
      <4>2. slipped' = slipped \cup {born'}
        BY <1>2, <3>2, <4>1 DEF Slipping
      <4> QED
        BY <1>5, <3>1, <3>2, <4>2 DEF Wrote
    <3>3. CASE c.op # "picture"
      BY <1>2, <1>5, <3>1, <3>3 DEF Wrote
    <3> QED
      BY <3>2, <3>3
  <2> QED
    BY <1>4, <1>5, <2>1 DEF Wrote, Private, PrivatePictures, PictureIds
<1>6. CASE Linked(c)
  <2>1. rows' = rows /\ Pictures(rows) = {} /\ token' = minted + 1 /\ minted' = minted + 1
    BY <1>6 DEF Linked
  <2>2. PrivatePictures'
    BY <2>1 DEF PrivatePictures, Pictures
  <2>3. \A a \in calls' : a.at = "in" => a.links <= minted' /\ token' > a.links
    BY <1>3, <1>4, <2>1 DEF Private
  <2>4. token' <= minted'
    BY <1>3, <2>1
  <2> QED
    BY <2>2, <2>3, <2>4 DEF Private
<1>7. CASE token' \in {token, 0} /\ minted' = minted /\ rows' \in {rows, {}}
  <2>1. PrivatePictures'
    BY <1>2, <1>7 DEF Private, PrivatePictures, Pictures
  <2>2. token' <= minted'
    BY <1>3, <1>7 DEF Private
  <2> QED
    BY <1>4, <1>7, <2>1, <2>2 DEF Private
<1> QED
  BY <1>2, <1>5, <1>6, <1>7 DEF Ended, Turned, LinkedBefore, Unlinked, Emptied, Voided

LEMMA PrivateNext == Typed /\ Private /\ [Next]_vars => Private'
<1> SUFFICES ASSUME Typed, Private, [Next]_vars PROVE Private'
  OBVIOUS
<1>1. ASSUME NEW c, Pressed(c) PROVE Private'
  BY <1>1, PrivateStill DEF Pressed, server
<1>2. ASSUME NEW c \in calls, Begin(c) PROVE Private'
  <2>1. PICK d \in Call : /\ Replaced(c, d) /\ d.op = c.op
                          /\ d.at = "in" => d.links = minted /\ (c.op = "picture" => token = 0)
    BY <1>2, BeginsAs
  <2>2. UNCHANGED <<rows, token, minted, slipped>> /\ minted \in Nat
    BY <1>2, BeginsAs, Facts DEF server
  <2> QED
    BY <2>1, <2>2, PrivateStill DEF Replaced
<1>3. ASSUME NEW c \in calls, Land(c) \/ Lose(c) PROVE Private'
  BY <1>3, PrivateStill DEF Land, Lose, Over, server
<1>4. ASSUME NEW p \in Pages, Open(p) PROVE Private'
  BY <1>4, PrivateStill DEF Open, server
<1>5. CASE Idle
  BY <1>5, PrivateStill DEF Idle, server
<1> QED
  BY <1>1, <1>2, <1>3, <1>4, <1>5, PrivateEnds, Steps

LEMMA LinksAreNew == ASSUME Typed, [Next]_vars PROVE LinkDiesForGood
<1>1. minted \in Nat
  BY Facts
<1>2. ASSUME NEW c \in calls, Ended(c) PROVE LinkDiesForGood
  BY <1>1, <1>2 DEF LinkDiesForGood, Ended, Turned, Wrote, Linked, LinkedBefore, Unlinked, Emptied, Voided
<1>3. CASE token' = token
  BY <1>3 DEF LinkDiesForGood
<1> QED
  BY <1>2, <1>3, Steps DEF Pressed, Finishing, Begin, Land, Lose, Open, Idle, server

(* However the calls overlap, a picture under a link is one whose upload    *)
(* was overtaken by the making of that link or of a later one, and a link   *)
(* taken back stays dead (add_picture and share, topics/owned.py).          *)
THEOREM PicturesStayPrivate == Spec => PublicLink
<1>1. Init => Private
  BY DEF Init, Private, PrivatePictures
<1>2. Typed /\ Private /\ [Next]_vars => [PrivatePictures' /\ LinkDiesForGood]_vars
  BY PrivateNext, LinksAreNew DEF Private
<1> QED
  BY <1>1, <1>2, PrivateNext, AlwaysTyped, PTL DEF Spec, PublicLink

-----------------------------------------------------------------------------
(* The allowance: what is spent and what is at work together are never more *)
(* than the month and those that were let in beside another.                *)

AtWork  == Cardinality(Generating)
Beside  == Max({0, atOnce - 1})
Allowed == spent + AtWork <= PerMonth + Beside

LEMMA BesideIs ==
    ASSUME NEW k \in Nat
    PROVE  /\ Max({0, k - 1}) \in Nat /\ k <= Max({0, k - 1}) + 1
           /\ \A l \in Nat : k <= l => Max({0, k - 1}) <= Max({0, l - 1})
<1>1. ASSUME NEW l \in Nat PROVE (l > 1 => Max({0, l - 1}) = l - 1) /\ (l <= 1 => Max({0, l - 1}) = 0)
  <2> DEFINE n == l - 1
  <2>1. n \in Int /\ (n > 0 <=> l > 1) /\ (l <= 1 <=> ~(n > 0))
    BY <1>1
  <2> HIDE DEF n
  <2>2. (n > 0 => Max({0, n}) = n) /\ (~(n > 0) => Max({0, n}) = 0)
    BY <2>1, MaxIs
  <2> QED
    BY <2>1, <2>2 DEF n
<1> DEFINE over(l) == Max({0, l - 1})
<1>2. \A l \in Nat : (l > 1 => over(l) = l - 1) /\ (l <= 1 => over(l) = 0)
  BY <1>1
<1> HIDE DEF over
<1>3. over(k) \in Nat /\ k <= over(k) + 1 /\ \A l \in Nat : k <= l => over(k) <= over(l)
  BY <1>2
<1> QED
  BY <1>3 DEF over

LEMMA GeneratingIs ==
    ASSUME Typed
    PROVE  /\ IsFiniteSet(Generating) /\ Cardinality(Generating) \in Nat
           /\ spent \in Nat /\ atOnce \in Nat /\ PerMonth \in Nat
<1>1. Generating \subseteq calls
  BY DEF Generating
<1> QED
  BY <1>1, FS_Subset, FS_CardinalityType, Facts, EditorAssumption DEF Typed

LEMMA AllowedNext == Typed /\ Allowed /\ [Next]_vars => Allowed'
<1> SUFFICES ASSUME Typed, Allowed, [Next]_vars PROVE Allowed'
  OBVIOUS
<1>1. Typed'
  BY TypedNext
<1>2. AtWork \in Nat /\ spent \in Nat /\ atOnce \in Nat /\ PerMonth \in Nat
  BY GeneratingIs DEF AtWork
<1>3. AtWork' \in Nat /\ spent' \in Nat /\ atOnce' \in Nat
  <2>1. spent' \in Nat /\ atOnce' \in Nat /\ IsFiniteSet(calls')
    BY <1>1 DEF Typed, TypeOK
  <2>2. Generating' \subseteq calls'
    BY DEF Generating
  <2> QED
    BY <2>1, <2>2, FS_Subset, FS_CardinalityType DEF AtWork
<1>4. Beside \in Nat /\ Beside' \in Nat /\ atOnce' <= Beside' + 1 /\ (atOnce <= atOnce' => Beside <= Beside')
  BY <1>2, <1>3, BesideIs DEF Beside
<1>5. spent + AtWork <= PerMonth + Beside /\ (spent' + AtWork' <= PerMonth + Beside' => Allowed')
  BY DEF Allowed
<1>6. ASSUME spent' + AtWork' <= spent + AtWork, atOnce' >= atOnce PROVE Allowed'
  BY <1>2, <1>6, <1>3, <1>4, <1>5 DEF AtWork, Beside
<1>7. CASE Generating' = Generating /\ spent' = spent /\ atOnce' >= atOnce
  BY <1>2, <1>6, <1>7 DEF AtWork
<1>8. ASSUME NEW c, Pressed(c) PROVE Allowed'
  BY <1>2, <1>7, <1>8 DEF Pressed, server, Generating
<1>9. ASSUME NEW c \in calls, Begin(c) PROVE Allowed'
  <2>1. /\ c.at = "out" /\ spent' = spent /\ atOnce' = Max({atOnce, AtWork'})
    BY <1>9, BeginsAs DEF server, AtWork
  <2>2. atOnce' >= atOnce /\ atOnce' >= AtWork'
    BY <1>2, <1>3, <2>1, MaxOf DEF AtWork
  <2>3. PICK d \in Call : /\ Replaced(c, d) /\ d.op = c.op
                          /\ d.at = "in" /\ c.op = "describe" => spent < PerMonth
    BY <1>9, BeginsAs
  <2>4. CASE d.at = "in" /\ c.op = "describe"
    <3>1. spent + 1 <= PerMonth
      BY <1>2, <2>3, <2>4
    <3> QED
      BY <1>2, <1>3, <1>4, <1>5, <2>1, <2>2, <3>1 DEF AtWork, Beside
  <2>5. CASE ~(d.at = "in" /\ c.op = "describe")
    <3>1. Generating' = Generating
      BY <2>1, <2>3, <2>5 DEF Generating, Replaced
    <3> QED
      BY <1>7, <2>1, <2>2, <3>1
  <2> QED
    BY <2>4, <2>5
<1>10. ASSUME NEW c \in calls, Finishing(c) PROVE Allowed'
  <2>1. c.at = "in" /\ Ended(c) /\ atOnce' = atOnce
    BY <1>10 DEF Finishing
  <2>2. PICK d \in Call : Replaced(c, d) /\ d.at = "back" /\ d.op = c.op
    BY <2>1, EndsAs
  <2>3. spent' = spent \/ (c.op = "describe" /\ spent' = spent + 1)
    BY <2>1 DEF Ended, Turned, Wrote, Linked, LinkedBefore, Unlinked, Emptied, Voided
  <2>4. CASE c.op = "describe"
    <3>1. c \in Generating /\ Generating' = Generating \ {c}
      BY <2>1, <2>2, <2>4 DEF Generating, Replaced
    <3>2. AtWork' = AtWork - 1
      BY <3>1, GeneratingIs, FS_RemoveElement DEF AtWork
    <3>3. spent' + AtWork' <= spent + AtWork
      BY <1>2, <1>3, <2>3, <3>2 DEF AtWork
    <3> QED
      BY <1>2, <1>6, <2>1, <3>3
  <2>5. CASE c.op # "describe"
    <3>1. Generating' = Generating
      BY <2>1, <2>2, <2>5 DEF Generating, Replaced
    <3> QED
      BY <1>2, <1>7, <2>1, <2>3, <2>5, <3>1
  <2> QED
    BY <2>4, <2>5
<1>11. ASSUME NEW c \in calls, Land(c) \/ Lose(c) PROVE Allowed'
  BY <1>2, <1>7, <1>11 DEF Land, Lose, Over, server, Generating
<1>12. ASSUME NEW p \in Pages, Open(p) PROVE Allowed'
  BY <1>2, <1>7, <1>12 DEF Open, server, Generating
<1>13. CASE Idle
  BY <1>2, <1>7, <1>13 DEF Idle, server, Generating
<1> QED
  BY <1>8, <1>9, <1>10, <1>11, <1>12, <1>13, Steps

LEMMA AllowedInit == Init => Allowed
<1> SUFFICES ASSUME Init PROVE Allowed
  OBVIOUS
<1>1. spent = 0 /\ AtWork = 0
  BY FS_EmptySet DEF Init, Generating, AtWork
<1>2. PerMonth \in Nat /\ Beside \in Nat
  BY TypedInit, GeneratingIs, BesideIs DEF Beside
<1> QED
  BY <1>1, <1>2 DEF Allowed

-----------------------------------------------------------------------------
(* Two pages, and calls that overlap.                                       *)

(* A page out of a tangle has one call out at the most, and one in it has   *)
(* some and is not counted up to date.                                      *)
Lone ==
    /\ \A c, d \in calls : c.by = d.by /\ c.by \notin tangled => c = d
    /\ \A p \in tangled : p \notin fresh /\ Of(p) # {}

(* What a route found is still so while its page is counted up to date.     *)
Steady == \A c \in calls : c.by \in fresh /\ c.at = "in" /\ c.op # "make" => alive /\ c.of = made /\ c.seen = token

(* A page nothing has happened behind the back of, unless it is about to be *)
(* left: what it shows, or is about to be told, is what the server holds.   *)
Leaving(p) == \E c \in calls : c.by = p /\ c.op = "remove" /\ c.at = "back" /\ c.answer = "ok"
Told(p, c) == c.by = p /\ c.op # "remove" /\ c.at = "back" /\ c.answer = "ok"

SeesIt(p) ==
    /\ \A c \in calls : Told(p, c) => /\ c.genre.token = token
                                      /\ c.op \notin Shares => c.genre = Held
    /\ \A c \in calls : c.by = p /\ c.op \in Shares => c.shown.rows = rows
    /\ (\A c \in calls : ~Told(p, c)) => page[p].genre = Held

UpToDate == \A p \in fresh : page[p].open /\ ~Leaving(p) => SeesIt(p)

Synced == Lone /\ Steady /\ UpToDate

(* An answered write leaves no page but its own up to date, nor that one if *)
(* it was not told of it all.                                               *)
LEMMA Caughts ==
    ASSUME NEW c \in calls, Ended(c)
    PROVE  \/ UNCHANGED <<alive, rows, token, made, fresh>>
           \/ fresh' = fresh \cap {c.by}
           \/ fresh' = {c.by} /\ c.by \notin tangled /\ c.seen = token
           \/ fresh' = {}
  BY DEF Ended, Turned, Wrote, Caught, Linked, LinkedBefore, Unlinked, Emptied, Voided

LEMMA LoneNext == Typed /\ Lone /\ [Next]_vars => Lone'
<1> SUFFICES ASSUME Typed, Lone, [Next]_vars PROVE Lone'
  OBVIOUS
<1>1. ASSUME NEW c, Pressed(c) PROVE Lone'
  BY <1>1 DEF Lone, Pressed, Of
<1>2. ASSUME NEW c \in calls, NEW d, Replaced(c, d), d.by = c.by, tangled' = tangled,
             \A p \in fresh' : p \in fresh \/ p \notin tangled
      PROVE  Lone'
  <2>1. \A a, b \in calls' : a.by = b.by /\ a.by \notin tangled' => a = b
    BY <1>2 DEF Lone, Replaced
  <2>2. \A p \in tangled' : p \notin fresh' /\ Of(p)' # {}
    BY <1>2 DEF Lone, Replaced, Of
  <2> QED
    BY <2>1, <2>2 DEF Lone
<1>3. ASSUME NEW c \in calls, Begin(c) PROVE Lone'
  BY <1>2, <1>3, BeginsAs
<1>4. ASSUME NEW c \in calls, Finishing(c) PROVE Lone'
  <2>1. c.at = "in" /\ Ended(c) /\ tangled' = tangled
    BY <1>4 DEF Finishing
  <2>2. \E d : Replaced(c, d) /\ d.by = c.by
    BY <2>1, EndsAs
  <2>3. \A p \in fresh' : p \in fresh \/ p \notin tangled
    BY <2>1, Caughts
  <2> QED
    BY <1>2, <2>1, <2>2, <2>3
<1>5. ASSUME NEW c \in calls, Land(c) \/ Lose(c) PROVE Lone'
  <2>1. /\ calls' = calls \ {c} /\ fresh' \subseteq fresh
        /\ tangled' = IF Of(c.by) = {c} THEN tangled \ {c.by} ELSE tangled
    BY <1>5 DEF Land, Lose, Over
  <2>2. c \in Of(c.by) /\ \A a \in calls : a \in Of(a.by)
    BY DEF Of
  <2>3. \A a, b \in calls' : a.by = b.by /\ a.by \notin tangled' => a = b
    BY <2>1, <2>2 DEF Lone
  <2>4. \A p \in tangled' : p \notin fresh' /\ Of(p)' # {}
    BY <2>1, <2>2 DEF Lone, Of
  <2> QED
    BY <2>3, <2>4 DEF Lone
<1>6. ASSUME NEW p \in Pages, Open(p) PROVE Lone'
  BY <1>6, OpenIs DEF Lone, Of
<1>7. CASE Idle
  BY <1>7 DEF Idle, Lone, Of
<1> QED
  BY <1>1, <1>3, <1>4, <1>5, <1>6, <1>7, Steps

LEMMA SteadyStill ==
    ASSUME Steady, UNCHANGED <<alive, made, token>>,
           \A c \in calls' : c.at = "in" /\ c.by \in fresh' /\ c.op # "make" =>
               (c \in calls /\ c.by \in fresh) \/ (alive /\ c.of = made /\ c.seen = token)
    PROVE  Steady'
  BY DEF Steady

LEMMA SteadyNext == Typed /\ Lone /\ Steady /\ [Next]_vars => Steady'
<1> SUFFICES ASSUME Typed, Lone, Steady, [Next]_vars PROVE Steady'
  OBVIOUS
<1>1. ASSUME NEW c, Pressed(c) PROVE Steady'
  BY <1>1, SteadyStill DEF Pressed, server
<1>2. ASSUME NEW c \in calls, Begin(c) PROVE Steady'
  <2>1. PICK d \in Call :
           /\ Replaced(c, d) /\ d.op = c.op
           /\ d.at = "in" /\ c.op # "make" => alive /\ d.of = made /\ d.seen = token
    BY <1>2, BeginsAs
  <2>2. UNCHANGED <<alive, made, token, fresh>>
    BY <1>2, BeginsAs DEF server
  <2> QED
    BY <2>1, <2>2, SteadyStill DEF Replaced
<1>3. ASSUME NEW c \in calls, Finishing(c) PROVE Steady'
  <2>1. c.at = "in" /\ Ended(c)
    BY <1>3 DEF Finishing
  <2>2. PICK d \in Call : Replaced(c, d) /\ d.at = "back"
    BY <2>1, EndsAs
  <2>3. CASE UNCHANGED <<alive, made, token, fresh>>
    BY <2>2, <2>3, SteadyStill DEF Replaced
  <2>4. CASE fresh' \subseteq {c.by} \ tangled
    <3>1. \A a \in calls' : a.by \in fresh' => a = d
      BY <2>2, <2>4 DEF Replaced, Lone
    <3> QED
      BY <2>2, <3>1 DEF Steady
  <2>5. fresh \cap tangled = {}
    BY DEF Lone
  <2> QED
    BY <2>1, <2>3, <2>4, <2>5, Caughts
<1>4. ASSUME NEW c \in calls, Land(c) \/ Lose(c) PROVE Steady'
  BY <1>4, SteadyStill DEF Land, Lose, Over, server
<1>5. ASSUME NEW p \in Pages, Open(p) PROVE Steady'
  <2>1. UNCHANGED <<alive, made, token, calls>> /\ fresh' = fresh \cup {p} /\ \A c \in calls : c.by # p
    BY <1>5, OpenIs DEF server, Of
  <2> QED
    BY <2>1, SteadyStill
<1>6. CASE Idle
  BY <1>6, SteadyStill DEF Idle, server
<1> QED
  BY <1>1, <1>2, <1>3, <1>4, <1>5, <1>6, Steps

(* Told nothing new and nothing changed on the server, a page is as it was. *)
LEMMA AsBefore ==
    ASSUME NEW p \in fresh, UpToDate, UNCHANGED <<rows, token>>,
           page'[p].open = page[p].open, page'[p].genre = page[p].genre,
           Leaving(p) => Leaving(p)',
           \A c \in calls' : Told(p, c) => c \in calls,
           \A c \in calls : Told(p, c) => c \in calls',
           \A c \in calls' : c.by = p /\ c.op \in Shares =>
               \E d \in calls : d.by = p /\ d.op \in Shares /\ d.shown = c.shown
    PROVE  page'[p].open /\ ~Leaving(p)' => SeesIt(p)'
<1> SUFFICES ASSUME page'[p].open, ~Leaving(p)' PROVE SeesIt(p)'
  OBVIOUS
<1>1. SeesIt(p)
  BY DEF UpToDate
<1>2. Held' = Held
  BY DEF Held
<1>3. \A c \in calls' : Told(p, c) => c.genre.token = token' /\ (c.op \notin Shares => c.genre = Held')
  BY <1>1, <1>2 DEF SeesIt
<1>4. \A c \in calls' : c.by = p /\ c.op \in Shares => c.shown.rows = rows'
  BY <1>1 DEF SeesIt
<1>5. (\A c \in calls' : ~Told(p, c)) => page'[p].genre = Held'
  BY <1>1, <1>2 DEF SeesIt
<1> QED
  BY <1>3, <1>4, <1>5 DEF SeesIt, Told

(* The one write a page is about to be told of.                             *)
LEMMA AboutToSee ==
    ASSUME NEW p, NEW d \in calls', Told(p, d)',
           \A a \in calls' : a.by = p => a = d,
           d.genre.token = token',
           d.op \notin Shares => d.genre = Held',
           d.op \in Shares => d.shown.rows = rows'
    PROVE  SeesIt(p)'
  BY DEF SeesIt, Told, Shares

LEMMA EndedUpToDate ==
    ASSUME Typed, Synced, NEW c \in calls, Finishing(c)
    PROVE  UpToDate'
<1>0. c.at = "in" /\ Ended(c) /\ page' = page
  BY DEF Finishing
<1> SUFFICES ASSUME NEW p \in fresh', page[p].open, ~Leaving(p)' PROVE SeesIt(p)'
  BY <1>0 DEF UpToDate
<1>1. PICK d \in Call :
         /\ Replaced(c, d) /\ d.at = "back" /\ d.op = c.op /\ d.by = c.by /\ d.shown = c.shown
         /\ \/ Turned(c) /\ d.answer # "ok"
            \/ Wrote(c) /\ d.answer = "ok" /\ d.genre.rows = rows' /\ d.genre.token = c.seen
            \/ Linked(c) /\ d.answer = "ok" /\ d.genre.token = minted + 1
            \/ LinkedBefore(c) /\ d.answer = "ok" /\ d.genre.token = c.seen
            \/ Unlinked(c) /\ d.answer = "ok" /\ d.genre.token = 0
            \/ Emptied(c) /\ d.answer = "ok" /\ d.genre.rows = {} /\ d.genre.token = 0
            \/ Voided(c) /\ d.answer = "ok"
  BY <1>0, EndsAs
<1>2. calls' = (calls \ {c}) \cup {d} /\ d \in calls'
  BY <1>1 DEF Replaced
<1>3. c.by \notin tangled => \A a \in calls' : a.by = c.by => a = d
  BY <1>1, <1>2 DEF Synced, Lone
<1>4. Leaving(p) => Leaving(p)'
  BY <1>0, <1>2 DEF Leaving
<1>5. c.by \in fresh => c.by \notin tangled /\ (c.op # "make" => alive /\ c.of = made /\ c.seen = token)
  BY <1>0 DEF Synced, Lone, Steady
<1>6. d.genre \in Genre /\ UpToDate
  BY <1>1 DEF Call, Synced
<1>7. \A link, rs : d.genre.rows = rs /\ d.genre.token = link => d.genre = [rows |-> rs, token |-> link]
  BY <1>6 DEF Genre
<1>8. CASE p # c.by \/ d.answer # "ok"
  <2>1. p \in fresh /\ UNCHANGED <<rows, token>>
    BY <1>1, <1>8 DEF Wrote, Caught, Linked, LinkedBefore, Unlinked, Emptied, Turned, Voided
  <2>2. \A a \in calls' : Told(p, a) => a \in calls
    BY <1>1, <1>2, <1>8 DEF Told
  <2>3. \A a \in calls : Told(p, a) => a \in calls'
    BY <1>0, <1>2 DEF Told
  <2>4. \A a \in calls' : a.by = p /\ a.op \in Shares =>
            \E b \in calls : b.by = p /\ b.op \in Shares /\ b.shown = a.shown
    BY <1>1, <1>2
  <2> QED
    BY <1>0, <1>4, <1>6, <2>1, <2>2, <2>3, <2>4, AsBefore
<1>9. CASE p = c.by /\ d.answer = "ok" /\ c.op # "remove"
  <2>1. Told(p, d)'
    BY <1>1, <1>9 DEF Told
  <2>2. c.by \notin tangled
    BY <1>1, <1>5, <1>9 DEF Turned, Wrote, Caught, Linked, LinkedBefore, Unlinked, Emptied, Voided
  <2>3. CASE Wrote(c) \/ Emptied(c)
    <3>1. d.op \notin Shares /\ d.genre.rows = rows' /\ d.genre.token = token'
      <4>1. d.op = c.op /\ p \in Caught(c)
        BY <1>1, <2>3 DEF Wrote, Emptied
      <4>2. c.seen = token
        BY <4>1 DEF Caught
      <4>3. CASE Wrote(c)
        <5>1. c.op \in {"paste", "describe", "picture", "save", "drop"} /\ token' = token
          BY <4>3 DEF Wrote
        <5>2. ~Linked(c) /\ ~LinkedBefore(c) /\ ~Unlinked(c) /\ ~Emptied(c) /\ ~Voided(c)
          BY <4>3, <5>1, <1>5 DEF Wrote, Linked, LinkedBefore, Unlinked, Emptied, Voided
        <5> QED
          BY <1>1, <1>9, <4>1, <4>2, <5>1, <5>2 DEF Shares
      <4>4. CASE Emptied(c)
        <5>1. c.op = "make" /\ rows' = {} /\ token' = 0
          BY <1>9, <4>4 DEF Emptied
        <5> QED
          BY <1>1, <1>9, <4>1, <5>1 DEF Wrote, Linked, LinkedBefore, Unlinked, Voided, Gone, Shares
      <4> QED
        BY <2>3, <4>3, <4>4
    <3>2. d.genre = Held'
      BY <1>7, <3>1 DEF Held
    <3> QED
      BY <1>2, <1>3, <1>9, <2>1, <2>2, <3>1, <3>2, AboutToSee
  <2>4. CASE Linked(c) \/ LinkedBefore(c) \/ Unlinked(c)
    <3>1. p \in fresh /\ rows' = rows /\ c.op \in Shares /\ d.op \in Shares
      BY <1>1, <1>9, <2>4 DEF Linked, LinkedBefore, Unlinked, Shares
    <3>2. d.genre.token = token'
      BY <1>1, <1>5, <1>9, <2>4, <3>1 DEF Turned, Wrote, Linked, LinkedBefore, Unlinked, Emptied, Voided, Gone, Shares
    <3>3. SeesIt(p)
      BY <1>0, <1>4, <1>6, <3>1 DEF UpToDate
    <3>4. d.shown.rows = rows'
      BY <1>1, <1>9, <3>1, <3>3 DEF SeesIt
    <3> QED
      BY <1>2, <1>3, <1>9, <2>1, <2>2, <3>1, <3>2, <3>4, AboutToSee
  <2>5. CASE Voided(c)
    BY <1>5, <1>9, <2>5 DEF Voided, Gone
  <2> QED
    BY <1>1, <1>9, <2>3, <2>4, <2>5
<1>10. CASE p = c.by /\ d.answer = "ok" /\ c.op = "remove"
  <2>1. Leaving(p)'
    BY <1>1, <1>2, <1>10 DEF Leaving
  <2> QED
    BY <2>1
<1> QED
  BY <1>8, <1>9, <1>10

LEMMA LandUpToDate ==
    ASSUME Typed, Synced, NEW c \in calls, Land(c)
    PROVE  UpToDate'
<1> SUFFICES ASSUME NEW p \in fresh', page'[p].open, ~Leaving(p)' PROVE SeesIt(p)'
  BY DEF UpToDate
<1>1. /\ c.at = "back" /\ calls' = calls \ {c} /\ UNCHANGED <<rows, token, fresh>>
      /\ p \in Pages /\ p \in fresh /\ UpToDate /\ Held' = Held
  BY LandIs, Facts DEF server, Synced, Held
<1>2. CASE p # c.by
  <2>1. page'[p] = page[p]
    BY <1>1, <1>2, LandIs
  <2>2. Leaving(p) => Leaving(p)'
    BY <1>1, <1>2 DEF Leaving
  <2>3. \A a \in calls : Told(p, a) => a \in calls'
    BY <1>1, <1>2 DEF Told
  <2> QED
    BY <1>1, <2>1, <2>2, <2>3, AsBefore
<1>3. CASE p = c.by
  <2>1. c.op # "remove"
    BY <1>3, LandIs
  <2>2. \A a \in calls : a.by = p => a = c
    BY <1>1, <1>3 DEF Synced, Lone
  <2>3. page'[p].genre = Held
    <3>1. CASE page'[p].genre # Held
      <4>1. /\ page'[p].open = page[p].open
            /\ page'[p].genre = IF ~page[p].open \/ c.answer # "ok" THEN page[p].genre
                                ELSE IF c.op \in Shares THEN [rows |-> c.shown.rows, token |-> c.genre.token]
                                ELSE c.genre
        BY <1>3, <2>1, <3>1, LandIs
      <4>2. ~Leaving(p)
        BY <2>1, <2>2 DEF Leaving
      <4>3. SeesIt(p)
        BY <1>1, <4>1, <4>2 DEF UpToDate
      <4>4. CASE c.answer # "ok"
        <5>1. \A a \in calls : ~Told(p, a)
          BY <2>2, <4>4 DEF Told
        <5> QED
          BY <4>1, <4>3, <4>4, <5>1 DEF SeesIt
      <4>5. CASE c.answer = "ok"
        <5>1. Told(p, c)
          BY <1>1, <1>3, <2>1, <4>5 DEF Told
        <5>2. c.genre.token = token /\ (c.op \notin Shares => c.genre = Held) /\ (c.op \in Shares => c.shown.rows = rows)
          BY <1>3, <4>3, <5>1 DEF SeesIt
        <5> QED
          BY <4>1, <4>5, <5>2 DEF Held, Shares
      <4> QED
        BY <4>4, <4>5
    <3> QED
      BY <3>1
  <2>4. \A a \in calls' : a.by # p
    BY <1>1, <2>2
  <2> QED
    BY <1>1, <2>3, <2>4 DEF SeesIt, Told
<1> QED
  BY <1>2, <1>3

LEMMA PressUpToDate ==
    ASSUME Typed, Synced, NEW c, Pressed(c)
    PROVE  UpToDate'
<1>1. /\ c \in Call /\ c.at = "out" /\ (c.op \in Shares => c.shown = page[c.by].genre)
      /\ calls' = calls \cup {c} /\ UNCHANGED <<rows, token>>
      /\ \A q \in Pages : page'[q].open = page[q].open /\ page'[q].genre = page[q].genre
      /\ \A q \in fresh' : q \in fresh /\ (q = c.by => Of(q) = {})
  BY DEF Pressed, server
<1> SUFFICES ASSUME NEW p \in fresh', page'[p].open, ~Leaving(p)' PROVE SeesIt(p)'
  BY DEF UpToDate
<1>2. p \in Pages /\ p \in fresh /\ Held' = Held
  BY <1>1, Facts DEF Held
<1>3. Leaving(p) => Leaving(p)'
  BY <1>1 DEF Leaving
<1>4. SeesIt(p)
  BY <1>1, <1>2, <1>3 DEF Synced, UpToDate
<1>5. ~Told(p, c)
  BY <1>1 DEF Told
<1>6. c.by = p /\ c.op \in Shares => c.shown.rows = rows
  <2>1. c.by = p => \A a \in calls : ~Told(p, a)
    BY <1>1 DEF Told, Of
  <2> QED
    BY <1>1, <1>4, <2>1 DEF SeesIt, Held
<1>7. \A a \in calls' : Told(p, a) => a.genre.token = token' /\ (a.op \notin Shares => a.genre = Held')
  BY <1>1, <1>2, <1>4, <1>5 DEF SeesIt
<1>8. \A a \in calls' : a.by = p /\ a.op \in Shares => a.shown.rows = rows'
  BY <1>1, <1>4, <1>6 DEF SeesIt
<1>9. (\A a \in calls' : ~Told(p, a)) => page'[p].genre = Held'
  BY <1>1, <1>2, <1>4 DEF SeesIt
<1> QED
  BY <1>7, <1>8, <1>9 DEF SeesIt, Told

LEMMA UpToDateNext == Typed /\ Synced /\ [Next]_vars => UpToDate'
<1> SUFFICES ASSUME Typed, Synced, [Next]_vars PROVE UpToDate'
  OBVIOUS
<1>1. UpToDate
  BY DEF Synced
<1>2. ASSUME NEW c \in calls, Begin(c) PROVE UpToDate'
  <2>1. c.at = "out" /\ UNCHANGED <<rows, token, page, fresh>>
    BY <1>2, BeginsAs DEF server
  <2>2. PICK d \in Call : /\ Replaced(c, d) /\ d.op = c.op /\ d.by = c.by /\ d.shown = c.shown
                          /\ d.at = "back" => d.answer # "ok"
    BY <1>2, BeginsAs
  <2>3. calls' = (calls \ {c}) \cup {d}
    BY <2>2 DEF Replaced
  <2>4. ASSUME NEW p \in fresh PROVE page'[p].open /\ ~Leaving(p)' => SeesIt(p)'
    <3>1. Leaving(p) => Leaving(p)'
      BY <2>1, <2>3 DEF Leaving
    <3>2. \A a \in calls' : Told(p, a) => a \in calls
      BY <2>2, <2>3 DEF Told
    <3>3. \A a \in calls : Told(p, a) => a \in calls'
      BY <2>1, <2>3 DEF Told
    <3>4. \A a \in calls' : a.by = p /\ a.op \in Shares =>
              \E b \in calls : b.by = p /\ b.op \in Shares /\ b.shown = a.shown
      BY <2>2, <2>3
    <3> QED
      BY <1>1, <2>1, <3>1, <3>2, <3>3, <3>4, AsBefore
  <2> QED
    BY <2>1, <2>4 DEF UpToDate
<1>3. ASSUME NEW c \in calls, Lose(c) PROVE UpToDate'
  <2>1. /\ c.at \in {"out", "back"} /\ calls' = calls \ {c} /\ UNCHANGED <<rows, token>>
        /\ \A q \in Pages : page'[q].open = page[q].open /\ page'[q].genre = page[q].genre
        /\ fresh' = IF c.at = "back" THEN fresh \ {c.by} ELSE fresh
    BY <1>3, LoseIs DEF server
  <2>2. ASSUME NEW p \in fresh' PROVE page'[p].open /\ ~Leaving(p)' => SeesIt(p)'
    <3>1. p \in fresh /\ p \in Pages /\ (c.by # p \/ c.at = "out")
      BY <2>1, Facts
    <3>2. Leaving(p) => Leaving(p)'
      BY <2>1, <3>1 DEF Leaving
    <3>3. \A a \in calls : Told(p, a) => a \in calls'
      BY <2>1, <3>1 DEF Told
    <3> QED
      BY <1>1, <2>1, <3>1, <3>2, <3>3, AsBefore
  <2> QED
    BY <2>2 DEF UpToDate
<1>4. ASSUME NEW q \in Pages, Open(q) PROVE UpToDate'
  <2>1. /\ \A c \in calls : c.by # q
        /\ page'[q].genre = Held /\ \A r \in Pages \ {q} : page'[r] = page[r]
        /\ fresh' = fresh \cup {q} /\ UNCHANGED <<rows, token, calls>>
    BY <1>4, OpenIs DEF server, Of
  <2>2. SeesIt(q)'
    BY <2>1 DEF SeesIt, Told, Held
  <2>3. ASSUME NEW p \in fresh, p # q PROVE page'[p].open /\ ~Leaving(p)' => SeesIt(p)'
    <3>1. page'[p] = page[p] /\ (Leaving(p) => Leaving(p)')
      BY <2>1, <2>3, Facts DEF Leaving
    <3> QED
      BY <1>1, <2>1, <3>1, AsBefore
  <2> QED
    BY <2>1, <2>2, <2>3 DEF UpToDate
<1>5. CASE Idle
  BY <1>1, <1>5 DEF Idle, server, UpToDate, SeesIt, Told, Leaving, Held
<1> QED
  BY <1>2, <1>3, <1>4, <1>5, PressUpToDate, EndedUpToDate, LandUpToDate, Steps

(* However many pages are stale, and however their calls overlap, the month *)
(* is overrun by no more than were at work at once, less one; and the page  *)
(* whose write was the last to land, with nothing else of its own out and   *)
(* the link as its route found it, shows what the server holds (generate,   *)
(* topics/generate.py; write, upload and flipShare, genres/editor.tsx).     *)
THEOREM StaleIsHarmless == Spec => []StalePagesHarmless
<1>1. Init => Synced
  <2> SUFFICES ASSUME Init PROVE Synced
    OBVIOUS
  <2>1. calls = {} /\ fresh = Pages /\ tangled = {}
    BY DEF Init
  <2>2. \A p \in Pages : page[p].genre = Held
    BY DEF Init
  <2> QED
    BY <2>1, <2>2 DEF Synced, Lone, Steady, UpToDate, SeesIt
<1>2. Typed /\ Synced /\ [Next]_vars => Synced'
  BY LoneNext, SteadyNext, UpToDateNext DEF Synced
<1>3. Typed /\ Allowed /\ Synced => StalePagesHarmless
  <2>1. UpToDate => LastWriterSees
    BY DEF UpToDate, LastWriterSees, SeesIt, Leaving, Told, Of
  <2>2. ASSUME Typed, Allowed PROVE AllowanceKept
    <3>1. AtWork \in Nat /\ Beside \in Nat /\ spent \in Nat /\ PerMonth \in Nat
      BY <2>2, GeneratingIs, BesideIs DEF AtWork, Beside
    <3>2. spent <= PerMonth + Beside
      BY <2>2, <3>1 DEF Allowed
    <3> QED
      BY <3>2 DEF AllowanceKept, Beside
  <2> QED
    BY <2>1, <2>2 DEF Synced, StalePagesHarmless
<1> QED
  BY <1>1, <1>2, <1>3, AllowedInit, AllowedNext, AlwaysTyped, PTL DEF Spec
=============================================================================
