------------------------- MODULE ScannerRecognition -------------------------
(***************************************************************************)
(* What the scanner makes of one page: the readings of its cells, items    *)
(* and quantities become fields with a value, warnings and candidates, the *)
(* item names are ranked against the catalogue, the rows are validated     *)
(* together, and the result must keep the contract it is sent under.       *)
(*                                                                         *)
(* A page is what the recognition backend answers for each crop.  A cell   *)
(* is the kind of character read; the name of an item is a sequence of     *)
(* letters, already normalised; scores and confidences are in percent.     *)
(***************************************************************************)
EXTENDS Integers, Sequences, FiniteSets, FiniteSetsExt, Functions

CONSTANTS
    Items,          \* codes of the catalogue and the menu
    Nothing,
    Catalogue,      \* item -> its names and aliases; of no item, if none is configured
    Unaccented,     \* letter -> the letter without its accent; the letters are its domain
    IdLength,       \* cells of an identifier (6)
    RoomMaxLength,  \* cells of a room code (4)
    QuantityMax,    \* LimitConfig.quantity_max (999)
    CandidateLimit, \* LimitConfig.candidate_limit (5)
    MinimumScore,   \* RankingPolicy.minimum_score, in percent
    MinimumMargin   \* RankingPolicy.minimum_margin, in percent

ASSUME RecognitionAssumption ==
    /\ Items \subseteq Nat /\ DOMAIN Catalogue \subseteq Items /\ IsFiniteSet(DOMAIN Catalogue)
    /\ \A i, j \in DOMAIN Catalogue : i # j => Catalogue[i] \cap Catalogue[j] = {}
    /\ \A i \in DOMAIN Catalogue : /\ Catalogue[i] # {} /\ <<>> \notin Catalogue[i]
                                  /\ Catalogue[i] \subseteq Seq(DOMAIN Unaccented)
    /\ {IdLength, RoomMaxLength, QuantityMax, CandidateLimit} \subseteq Nat \ {0}
    /\ RoomMaxLength <= 4
    /\ {MinimumScore, MinimumMargin} \subseteq 0..100

\* The elements of seq that are in set, in their order.
Sifted(seq, set) ==
    LET kept[n \in 0..Len(seq)] ==
            IF n = 0 THEN <<>>
            ELSE IF seq[n] \in set THEN Append(kept[n - 1], seq[n]) ELSE kept[n - 1]
    IN  kept[Len(seq)]

-----------------------------------------------------------------------------
(* Ranking against the catalogue *)

Smallest(a, b) == IF a < b THEN a ELSE b

\* One row of the table of _levenshtein from the row before it.
NextRow(previous, letter, right) ==
    LET row[j \in 0..Len(right)] ==
            IF j = 0 THEN previous[0] + 1
            ELSE Smallest(Smallest(row[j - 1] + 1, previous[j] + 1),
                          previous[j - 1] + (IF letter = right[j] THEN 0 ELSE 1))
    IN  row

Levenshtein(left, right) ==
    LET table[i \in 0..Len(left)] ==
            IF i = 0 THEN [j \in 0..Len(right) |-> j] ELSE NextRow(table[i - 1], left[i], right)
    IN  table[Len(left)][Len(right)]

Longer(left, right) == IF Len(left) > Len(right) THEN Len(left) ELSE Len(right)

Similarity(left, right) ==
    IF Longer(left, right) = 0 THEN 100
    ELSE ((Longer(left, right) - Levenshtein(left, right)) * 100) \div Longer(left, right)

AccentStripped(text) == [i \in 1..Len(text) |-> Unaccented[text[i]]]

\* An agreement that rests on dropping accents counts a little less.
MatchScore(left, right) ==
    IF left = right THEN 100
    ELSE Max({Similarity(left, right), (Similarity(AccentStripped(left), AccentStripped(right)) * 97) \div 100})

\* The best score of an item over what was read and the names it goes by.
Score(hypotheses, item) ==
    Max({0} \cup {(MatchScore(h.text, name) * h.confidence) \div 100 :
                     h \in {g \in Range(hypotheses) : g.text # <<>>}, name \in Catalogue[item]})

Truncated(seq, n) == SubSeq(seq, 1, Smallest(n, Len(seq)))

\* The items with their scores, if anything legible was read.
Scored(hypotheses) ==
    {[item |-> i, score |-> Score(hypotheses, i)] :
        i \in {j \in DOMAIN Catalogue : \E h \in Range(hypotheses) : h.text # <<>>}}

\* The first of some scored items by falling score, then by code.
Leader(S) ==
    CHOOSE e \in S : \A o \in S \ {e} : e.score > o.score \/ (e.score = o.score /\ e.item < o.item)

\* Sorted by that.
Ordered(S) ==
    LET order[n \in 0..Cardinality(S)] ==
            IF n = 0 THEN <<>>
            ELSE LET before == order[n - 1] IN Append(before, Leader(S \ Range(before)))
    IN  order[Cardinality(S)]

\* The first of a ranking, if it is near enough and the next is far enough behind.
Settled(ranking) ==
    LET next == IF Len(ranking) > 1 THEN ranking[2].score ELSE 0
    IN  IF /\ ranking # <<>> /\ ranking[1].score >= MinimumScore
           /\ ranking[1].score - next >= MinimumMargin
        THEN ranking[1].item ELSE Nothing

Codes(ranking) == [k \in 1..Len(ranking) |-> ranking[k].item]

\* Mutant: the list is cut to the candidates before the runner-up is taken.
RankCutFirst(all) ==
    LET kept == Truncated(all, CandidateLimit)
    IN  [candidates |-> Codes(kept), accepted |-> Settled(kept)]

\* CatalogueIndex.rank; the runner-up is the next of all items, offered or not.
Rank(all) == [candidates |-> Codes(Truncated(all, CandidateLimit)), accepted |-> Settled(all)]

Ranked(hypotheses) == Rank(Ordered(Scored(hypotheses)))

-----------------------------------------------------------------------------
(* Fields *)

Field(value, confidence, warned, candidates) ==
    [value |-> value, confidence |-> confidence, warned |-> warned, candidates |-> candidates]

UnavailableField == Field(Nothing, 0, TRUE, <<>>)

\* The cells of an identifier, or of a room, whose code may end early.
RecognizeFixedCells(cells, digitsOnly, expected, auto) ==
    LET used == Truncated(cells, expected)
        Skipped(i) == ~digitsOnly /\ used[i] = "blank"
        Allowed(i) == used[i] = "digit" \/ (used[i] = "letter" /\ ~digitsOnly)
        Faulty(i) == ~Skipped(i) /\ (~Allowed(i) \/ \E j \in 1..(i - 1) : Skipped(j))
        values == Sifted(used, {"digit", "letter"})
        warned == \/ IF digitsOnly THEN Len(cells) # expected ELSE Len(cells) > expected
                  \/ \E i \in 1..Len(used) : Faulty(i)
    IN  IF warned \/ values = <<>> THEN Field(Nothing, 0, TRUE, <<>>)
        ELSE Field(values, 100, ~auto, <<values>>)

RecognizeId(cells, auto) == RecognizeFixedCells(cells, TRUE, IdLength, auto)

RecognizeRoom(cells, auto) == RecognizeFixedCells(cells, FALSE, RoomMaxLength, auto)

\* A candidate is the text that was read, whatever its value.
AsText(h) == [form |-> "text", n |-> h.n]

RecognizeQuantity(all, auto) ==
    LET hypotheses == Truncated(all, CandidateLimit)
        legible == Sifted(hypotheses, {h \in Range(hypotheses) : h.kind # "blank"})
        candidates == [i \in 1..Len(legible) |-> AsText(legible[i])]
    IN  IF hypotheses = <<>> THEN UnavailableField
        ELSE IF hypotheses[1].kind = "digits" /\ hypotheses[1].n \in 1..QuantityMax
             THEN Field(hypotheses[1].n, hypotheses[1].confidence, ~auto, candidates)
             ELSE Field(Nothing, hypotheses[1].confidence, TRUE, candidates)

\* The value of the field is the canonical name, here the item's code.
RecognizeItem(all, auto) ==
    LET hypotheses == Truncated(all, CandidateLimit)
        rank == Ranked(hypotheses)
        confidence == IF hypotheses = <<>> THEN 0 ELSE hypotheses[1].confidence
    IN  Field(rank.accepted, confidence, rank.accepted = Nothing \/ ~auto, rank.candidates)

-----------------------------------------------------------------------------
(* Rows, the page, and the contract of a result *)

\* _recognize: a row without its crops, a row classified as blank, or a row read.
RowEvidence(row, auto) ==
    CASE row.blank = "no_crop" -> [blank |-> "uncertain", item |-> UnavailableField, quantity |-> UnavailableField]
      [] row.blank = "blank" -> [blank |-> "blank", item |-> Field(Nothing, 0, FALSE, <<>>),
                                 quantity |-> Field(Nothing, 0, FALSE, <<>>)]
      [] OTHER -> [blank |-> row.blank, item |-> RecognizeItem(row.item, auto),
                   quantity |-> RecognizeQuantity(row.quantity, auto)]

\* An item without a quantity, or a quantity without an item, warns of the half
\* that is missing.
ItemResult(e) ==
    [item |-> [e.item EXCEPT !.warned = @ \/ (e.item.value = Nothing /\ e.quantity.value # Nothing)],
     quantity |-> [e.quantity EXCEPT !.warned = @ \/ (e.quantity.value = Nothing /\ e.item.value # Nothing)],
     uncertain |-> e.blank # "present"]

ValidatePage(id, room, evidence) ==
    LET kept == Sifted(evidence, {e \in Range(evidence) : ~(/\ e.blank = "blank" /\ e.item.value = Nothing
                                                            /\ e.quantity.value = Nothing)})
        items == [i \in 1..Len(kept) |-> ItemResult(kept[i])]
        warned == \E i \in 1..Len(items) : items[i].uncertain
        errors == \/ warned \/ id.warned \/ room.warned
                  \/ \E i \in 1..Len(items) : items[i].item.warned \/ items[i].quantity.warned
    IN  [id |-> id, room |-> room, items |-> items, warned |-> warned,
         outcome |-> IF errors \/ id.value = Nothing \/ room.value = Nothing THEN "needs_review" ELSE "accepted"]

\* PageProcessor.process; without alignment nothing is read and the page warns.
Processed(page) ==
    LET Read(cells) == IF page.aligned THEN cells ELSE UnavailableField
        Blind(row) == IF page.aligned THEN row ELSE [row EXCEPT !.blank = "no_crop"]
        validated == ValidatePage(Read(RecognizeId(page.id, page.auto)), Read(RecognizeRoom(page.room, page.auto)),
                                  [i \in 1..Len(page.rows) |-> RowEvidence(Blind(page.rows[i]), page.auto)])
    IN  [validated EXCEPT !.warned = @ \/ ~page.aligned]

\* ResultSnapshot.__post_init__, of an accepted result; a result that fails it
\* is an unexpected error of the worker.
KeepsContract(r) ==
    r.outcome = "accepted" =>
        /\ r.id.value # Nothing /\ Len(r.id.value) = IdLength /\ Range(r.id.value) = {"digit"}
        /\ r.room.value # Nothing /\ Len(r.room.value) \in 1..4 /\ Range(r.room.value) \subseteq {"digit", "letter"}
        /\ ~r.warned /\ ~r.id.warned /\ ~r.room.warned
        /\ \A i \in 1..Len(r.items) :
              /\ ~r.items[i].item.warned /\ ~r.items[i].quantity.warned
              /\ r.items[i].item.value # Nothing
              /\ r.items[i].quantity.value # Nothing /\ r.items[i].quantity.value > 0
=============================================================================
