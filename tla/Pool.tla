-------------------------------- MODULE Pool --------------------------------
(* What a spin may land on (lib/round/pool.ts), over a bank of topics.      *)
(*                                                                          *)
(* A bank is a record: `genres`, the slugs in picker order; `read`, those   *)
(* that are warm-ups; `styles`, the built-in keys; `topics`, the rows. A    *)
(* row carries its text, genre, slug, style, level, image and words; a key  *)
(* absent on the wire is None.                                              *)
EXTENDS Naturals, Sequences

CONSTANTS
    None,
    Surprise      \* SURPRISE: no filter on style or level

IsRead(bank, genre) == genre \in bank.read

Of(bank, genre) == {t \in bank.topics : t.genre = genre}

Pictured(rows) == {t \in rows : t.image}

OwnStyles(bank, genre) == {t.style : t \in Of(bank, genre)} \ (bank.styles \cup {None})

SettledStyle(bank, prefs) ==
    IF prefs.style \in {Surprise} \cup bank.styles \cup OwnStyles(bank, prefs.genre)
    THEN prefs.style
    ELSE Surprise

(* A filter that empties the bank is worse than one that is ignored.        *)
OrElse(wanted, rest) == IF wanted # {} THEN wanted ELSE rest

(* Seeded fault: picture mode prefers the genre to the promise.             *)
PoolSentences(bank, prefs) ==
    LET all      == Of(bank, prefs.genre)
        pictured == IF prefs.pictures THEN Pictured(all) ELSE {}
        styled   == {t \in all : t.style = prefs.style}
        levelled == {t \in all : t.level = prefs.level}
    IN  IF IsRead(bank, prefs.genre)
        THEN OrElse(levelled, all)
        ELSE OrElse(pictured, OrElse(styled, OrElse(all, bank.topics)))

Pool(bank, prefs) ==
    LET all      == Of(bank, prefs.genre)
        pictured == IF prefs.pictures
                    THEN OrElse(Pictured(all), Pictured(bank.topics)) ELSE {}
        styled   == {t \in all : t.style = prefs.style}
        levelled == {t \in all : t.level = prefs.level}
    IN  IF IsRead(bank, prefs.genre)
        THEN OrElse(levelled, all)
        ELSE OrElse(pictured, OrElse(styled, OrElse(all, bank.topics)))

(* draw: what it may hand back, and the used texts it leaves when the       *)
(* source has run dry.                                                      *)
Unseen(source, used) == {t \in source : t.text \notin used}
Draws(source, used) == OrElse(Unseen(source, used), source)
UsedAfterDraw(source, used) == IF Unseen(source, used) = {} THEN {} ELSE used

(* decoysFor: the texts that may roll past, none for a warm-up. How many    *)
(* rows roll and in what order is left out.                                 *)
Decoys(bank, prefs, winner) ==
    IF IsRead(bank, prefs.genre) THEN {} ELSE {t.text : t \in bank.topics} \ {winner.text}

(* stagedTopic: a name that matches nothing is no topic.                    *)
StagedRows(bank, staged) ==
    {t \in bank.topics : staged # None /\ <<t.genre, t.text>> = <<staged.genre, staged.text>>}
=============================================================================
