--------------------------- MODULE MCScannerReview ---------------------------
(* Two menu items; a row that is plain, has alternatives or warnings, or is half read; *)
(* pages with readings that are sure, near, ambiguous, out of range or missing.        *)
EXTENDS ScannerReview, TLC

Plain == [direct |-> 1, itemCandidates |-> <<>>, itemWarned |-> FALSE, itemSure |-> TRUE,
          value |-> 1, values |-> {}, valueWarned |-> FALSE, valueSure |-> TRUE]

Number(n) == [form |-> "number", n |-> n]

SomeRows ==
    {Plain, [Plain EXCEPT !.direct = 2], [Plain EXCEPT !.value = 3],
     [Plain EXCEPT !.itemSure = FALSE], [Plain EXCEPT !.valueWarned = TRUE],
     [Plain EXCEPT !.itemWarned = TRUE], [Plain EXCEPT !.itemCandidates = <<2, 1>>],
     [Plain EXCEPT !.direct = Nothing, !.itemCandidates = <<2>>, !.itemWarned = TRUE],
     [Plain EXCEPT !.value = Nothing, !.values = {Number(1), Number(2)}, !.valueWarned = TRUE],
     [Plain EXCEPT !.direct = Nothing]}

\* Letters 1, 2 and 3; 3 is an accented 2.
SomeCatalogue == (1 :> {<<1, 1, 2>>, <<2>>}) @@ (2 :> {<<1, 1, 3>>})
SomeAccents == <<1, 2, 2>>

Reading(text, confidence) == [text |-> text, confidence |-> confidence]
ItemReadings ==
    {<<>>, <<Reading(<<1, 1, 2>>, 95)>>, <<Reading(<<1, 1, 2>>, 70)>>, <<Reading(<<2>>, 95)>>,
     <<Reading(<<1, 2>>, 100)>>, <<Reading(<<>>, 90), Reading(<<1, 1, 3>>, 95)>>,
     <<Reading(<<1, 1, 3>>, 95), Reading(<<2>>, 94)>>}

Figure(kind, n) == [kind |-> kind, n |-> n, confidence |-> 90]
QuantityReadings ==
    {<<>>, <<Figure("digits", 1)>>, <<Figure("digits", 0), Figure("digits", 2)>>, <<Figure("digits", 4)>>,
     <<Figure("blank", 0), Figure("digits", 1)>>, <<Figure("other", 0)>>}

ReadRow(blank, item, quantity) == [blank |-> blank, item |-> item, quantity |-> quantity]
SomeReadings == {ReadRow("present", i, q) : i \in ItemReadings, q \in QuantityReadings}
                   \cup {ReadRow(b, <<Reading(<<2>>, 95)>>, <<Figure("digits", 1)>>) : b \in {"blank", "uncertain", "no_crop"}}

Sure == ReadRow("present", <<Reading(<<2>>, 95)>>, <<Figure("digits", 1)>>)
Page(id, room, rows, auto, aligned) == [id |-> id, room |-> room, rows |-> rows, auto |-> auto, aligned |-> aligned]

Id == <<"digit", "digit">>
Room == <<"letter", "digit">>
CellsOf(lengths) == UNION {[1..n -> Cells] : n \in lengths}

\* Every row alone and after a sure one; every identifier, every room; a page not aligned.
SomePages ==
    {Page(Id, Room, rows, auto, TRUE) :
         rows \in {<<r>> : r \in SomeReadings} \cup {<<Sure, r>> : r \in SomeReadings}, auto \in BOOLEAN}
    \cup {Page(id, Room, <<Sure>>, TRUE, TRUE) : id \in CellsOf({1, 2, 3})}
    \cup {Page(Id, room, <<Sure>>, TRUE, TRUE) : room \in CellsOf({1, 2, 3})}
    \cup {Page(Id, Room, <<Sure>>, TRUE, FALSE)}
=============================================================================
