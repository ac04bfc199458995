------------------------- MODULE VerifyScreenProofs -------------------------
(***************************************************************************)
(* Proofs about the verification of what was scanned: of the page and its  *)
(* requests (VerifyScreen), for any answers in any order, and of the rules *)
(* a scanner result is read and reviewed by (ScannerRecognition,           *)
(* ScannerReview), for any catalogue, readings and menu.                   *)
(***************************************************************************)
EXTENDS VerifyScreen, ScannerReview, FiniteSetTheorems, TLAPS, WellFoundedInduction

-----------------------------------------------------------------------------
(* Induction, by way of a least counterexample *)

Less == {pair \in Nat \X Nat : pair[1] < pair[2]}

\* A set of natural numbers has a least element, unless it is empty.
LEMMA LeastOf ==
    ASSUME NEW N, N \subseteq Nat, N # {}
    PROVE  \E n \in N : \A m \in N : n <= m
<1>1. Less = OpToRel(<, Nat)
    BY Zenon DEF Less, OpToRel
<1>2. IsWellFoundedOn(Less, Nat)
    BY <1>1, NatLessThanWellFounded, Zenon
<1>3. PICK n \in N : \A m \in N : <<m, n>> \notin Less
    BY <1>2, WFMin
<1>4. \A m \in N : ~(m < n)
    BY <1>3 DEF Less
<1> QED
    BY <1>4

-----------------------------------------------------------------------------
(* Kept *)

\* The first elements of seq that are in set, for every length up to n.
Keeps(f, seq, set, n) ==
    f = [i \in 0..n |->
            IF i = 0 THEN <<>>
            ELSE IF seq[i] \in set THEN Append(f[i - 1], seq[i]) ELSE f[i - 1]]

\* There is such a function for every n: what holds for n - 1 extends to n.
LEMMA KeepsExists ==
    ASSUME NEW S, NEW seq \in Seq(S), NEW set, NEW len \in Nat
    PROVE  \E f : Keeps(f, seq, set, len)
<1> DEFINE Bad == {n \in Nat : ~ \E f : Keeps(f, seq, set, n)}
<1>1. SUFFICES ASSUME Bad # {}
               PROVE  FALSE
    OBVIOUS
<1>2. PICK n \in Bad : \A m \in Bad : n <= m
    BY <1>1, LeastOf
<1>3. n # 0
    <2>1. Keeps([i \in 0..0 |-> <<>>], seq, set, 0)
        BY DEF Keeps
    <2> QED
        BY <2>1
<1>4. n - 1 \in Nat /\ n - 1 \notin Bad
    BY <1>2, <1>3
<1>5. PICK f : Keeps(f, seq, set, n - 1)
    BY <1>4
<1> DEFINE g == [i \in 0..n |->
                    IF i = n THEN IF seq[n] \in set THEN Append(f[n - 1], seq[n]) ELSE f[n - 1]
                    ELSE f[i]]
<1>6. \A i \in 0..n : g[i] = IF i = 0 THEN <<>>
                             ELSE IF seq[i] \in set THEN Append(g[i - 1], seq[i]) ELSE g[i - 1]
    <2> SUFFICES ASSUME NEW i \in 0..n
                 PROVE  g[i] = IF i = 0 THEN <<>>
                               ELSE IF seq[i] \in set THEN Append(g[i - 1], seq[i]) ELSE g[i - 1]
        OBVIOUS
    <2>1. CASE i = n
        <3>1. g[i - 1] = f[n - 1]
            BY <2>1, <1>2, <1>3
        <3> QED
            BY <3>1, <2>1, <1>3
    <2>2. CASE i # n
        <3>1. i \in 0..(n - 1) /\ g[i] = f[i]
            BY <2>2, <1>2
        <3>2. i # 0 => g[i - 1] = f[i - 1]
            BY <3>1, <1>2
        <3>3. f[i] = IF i = 0 THEN <<>>
                     ELSE IF seq[i] \in set THEN Append(f[i - 1], seq[i]) ELSE f[i - 1]
            BY <3>1, <1>5 DEF Keeps
        <3> QED
            BY <3>1, <3>2, <3>3
    <2> QED
        BY <2>1, <2>2
<1>7. Keeps(g, seq, set, n)
    BY <1>6 DEF Keeps
<1> QED
    BY <1>2, <1>7

\* What is kept is of the sequence and of the set, and all that is of both is kept.
LEMMA KeptIs ==
    ASSUME NEW S, NEW seq \in Seq(S), NEW set
    PROVE  /\ Kept(seq, set) \in Seq(S)
           /\ \A i \in 1..Len(seq) : seq[i] \in set
                  => \E j \in 1..Len(Kept(seq, set)) : Kept(seq, set)[j] = seq[i]
<1> DEFINE kept == CHOOSE f : Keeps(f, seq, set, Len(seq))
<1>1. Keeps(kept, seq, set, Len(seq))
    BY KeepsExists
<1>2. Kept(seq, set) = kept[Len(seq)]
    BY DEF Kept, Keeps
<1> HIDE DEF kept
<1> DEFINE Good(n) == /\ kept[n] \in Seq(S)
                      /\ \A i \in 1..n : seq[i] \in set
                             => \E j \in 1..Len(kept[n]) : kept[n][j] = seq[i]
           Bad == {n \in 0..Len(seq) : ~Good(n)}
<1>3. ASSUME Bad # {}
      PROVE  FALSE
    <2>0. Bad \subseteq Nat
        OBVIOUS
    <2> HIDE DEF Bad
    <2>1. PICK n \in Bad : \A m \in Bad : n <= m
        BY <1>3, <2>0, LeastOf
    <2> USE DEF Bad
    <2>2. n # 0
        <3>1. kept[0] = <<>>
            BY <1>1 DEF Keeps
        <3>2. Good(0)
            BY <3>1
        <3> QED
            BY <2>1, <3>2
    <2>3. n - 1 \in 0..Len(seq) /\ n - 1 \notin Bad
        BY <2>1, <2>2
    <2>4. Good(n - 1)
        BY <2>3
    <2>5. kept[n] = IF seq[n] \in set THEN Append(kept[n - 1], seq[n]) ELSE kept[n - 1]
        BY <1>1, <2>2 DEF Keeps
    <2>6. seq[n] \in S
        BY <2>2
    <2>7. kept[n] \in Seq(S)
        BY <2>4, <2>5, <2>6
    <2>8. ASSUME NEW i \in 1..n, seq[i] \in set
          PROVE  \E j \in 1..Len(kept[n]) : kept[n][j] = seq[i]
        <3>1. CASE i = n
            <4>1. kept[n] = Append(kept[n - 1], seq[n])
                BY <3>1, <2>8, <2>5
            <4>2. Len(kept[n]) \in 1..Len(kept[n]) /\ kept[n][Len(kept[n])] = seq[n]
                BY <4>1, <2>4, <2>6
            <4> QED
                BY <4>2, <3>1
        <3>2. CASE i # n
            <4>1. PICK j \in 1..Len(kept[n - 1]) : kept[n - 1][j] = seq[i]
                BY <3>2, <2>4, <2>8
            <4>2. j \in 1..Len(kept[n]) /\ kept[n][j] = kept[n - 1][j]
                BY <2>4, <2>5, <2>6
            <4> QED
                BY <4>1, <4>2
        <3> QED
            BY <3>1, <3>2
    <2> QED
        BY <2>1, <2>7, <2>8
<1>4. Good(Len(seq))
    BY <1>3
<1> QED
    BY <1>2, <1>4

-----------------------------------------------------------------------------
(* Values *)

\* The server answers with sheets it knows.
LEMMA QueueType ==
    ASSUME TypeOK, NEW r
    PROVE  GetQueue(r) \in Seq(QueueItems)
<1>1. Listed(r) \in Seq(Sheets)
    BY KeptIs, ScreenAssumption DEF Listed
<1>2. ASSUME NEW s \in Sheets
      PROVE  QueueItem(s) \in QueueItems
    <2>1. Owner[s] # None => <<Owner[s], Date[s]>> \in Users \X Dates
        BY ScreenAssumption DEF Dates
    <2> QED
        BY <2>1 DEF QueueItem, QueueItems, TypeOK, Orders
<1> QED
    BY <1>1, <1>2 DEF GetQueue

\* A queue without a sheet keeps every other.
LEMMA WithoutIs ==
    ASSUME NEW q \in Seq(QueueItems), NEW s
    PROVE  /\ Without(q, s) \in Seq(QueueItems)
           /\ \A t : t # s /\ Holds(q, t) => Holds(Without(q, s), t)
<1> DEFINE others == {q[i] : i \in {j \in 1..Len(q) : q[j].id # s}}
<1>1. Without(q, s) = Kept(q, others)
    BY DEF Without
<1>2. \A i \in 1..Len(q) : q[i].id # s => q[i] \in others
    OBVIOUS
<1> HIDE DEF others
<1> QED
    BY <1>1, <1>2, KeptIs DEF Holds

\* The entries of a queue.
LEMMA ItemIs ==
    ASSUME NEW q \in Seq(QueueItems), NEW i \in 1..Len(q)
    PROVE  q[i] \in QueueItems /\ q[i].id \in Sheets
<1>1. q[i] \in QueueItems
    OBVIOUS
<1> QED
    BY <1>1 DEF QueueItems

\* A sheet in the queue has a position.
LEMMA PositionIs ==
    ASSUME NEW q \in Seq(QueueItems), NEW s, Holds(q, s)
    PROVE  Position(q, s) \in 1..Len(q) /\ q[Position(q, s)].id = s
BY DEF Holds, Position

\* An entry of the queue is something.
LEMMA ItemIsNotNone == ASSUME NEW item \in QueueItems PROVE item # None
BY ScreenAssumption

\* What the page shows is in the queue.
LEMMA ShownIs ==
    ASSUME NEW q \in Seq(QueueItems), NEW r, Shown(q, r) # None
    PROVE  \E i \in 1..Len(q) : Shown(q, r) = q[i] /\ q[i] \in QueueItems
<1>1. CASE r # None /\ Holds(q, r)
    BY <1>1, PositionIs, ItemIs DEF Shown
<1>2. CASE r = None /\ q # <<>>
    BY <1>2 DEF Shown
<1> QED
    BY <1>1, <1>2 DEF Shown

\* The sheet shown is known, is in the queue, and is the one the work is of once
\* the effects have run.
LEMMA CurrentIs ==
    ASSUME TypeOK, WorkOfCurrent, Current # None
    PROVE  /\ Current \in QueueItems /\ Current.id \in Sheets /\ Holds(queue, Current.id)
           /\ "sheet" \notin due => work.of = Current.id
<1>1. PICK i \in 1..Len(queue) : Current = queue[i]
    BY ShownIs DEF TypeOK, Current
<1>2. Current \in QueueItems /\ Current.id \in Sheets
    BY <1>1, ItemIs DEF TypeOK
<1> QED
    BY <1>1, <1>2 DEF WorkOfCurrent, Holds

\* The work on a sheet that comes up.
LEMMA FreshType ==
    ASSUME NEW item \in QueueItems \cup {None}
    PROVE  /\ Fresh(item) \in Works /\ Fresh(item).preview = None
           /\ Fresh(item).of = IF item = None THEN None ELSE item.id
<1>1. NoWork \in Works /\ NoWork.preview = None /\ NoWork.of = None
    BY DEF NoWork, Works
<1>2. CASE item = None
    BY <1>1, <1>2 DEF Fresh
<1>3. CASE item # None
    <2>1. item.id \in Sheets /\ (item.id \in Clean) \in BOOLEAN
        BY <1>3 DEF QueueItems
    <2>2. ExactSelection(item.id) \in Users \cup {None}
        BY <2>1, ScreenAssumption DEF ExactSelection
    <2> QED
        BY <2>1, <2>2, <1>1, <1>3 DEF Fresh, Works
<1> QED
    BY <1>2, <1>3

\* The previews asked for are of the sheet they are asked for.
LEMMA PreviewsType ==
    ASSUME NEW s \in Sheets, NEW u \in Users \cup {None}
    PROVE  /\ Previews(s, u) \subseteq PreviewGets
           /\ \A g \in Previews(s, u) : g.kind = "preview" /\ g.sheet = s /\ g.answer = None
BY DEF Previews, PreviewOf, PreviewGets

\* Reads of a queue are queue reads.
LEMMA QueueOfType ==
    ASSUME NEW r \in Ranges, NEW live \in BOOLEAN
    PROVE  /\ QueueOf(r, live) \in QueueGets /\ QueueOf(r, live).kind # "preview"
           /\ QueueOf(r, live).answer = None
BY DEF QueueOf, QueueGets

\* A decision of the page is about a sheet.
LEMMA DecisionType ==
    ASSUME TypeOK, NEW kind \in {"confirm", "reject", "skip", "artifact"}, NEW s \in Sheets,
           NEW next \in Sheets \cup {None}
    PROVE  /\ Decision(kind, s, next) \in Decisions
           /\ Decision(kind, s, next).kind = kind /\ Decision(kind, s, next).answer = None
BY DEF TypeOK, Decision, Decisions, Works

\* The sheet after the one decided, and the one skipped to.
LEMMA NextType ==
    ASSUME TypeOK, NEW s \in Sheets, Holds(queue, s)
    PROVE  NextAfter(s) \in Sheets \cup {None} /\ SkipForward(s) \in Sheets
<1>1. Position(queue, s) \in 1..Len(queue)
    BY PositionIs DEF TypeOK
<1>2. NextAfter(s) \in Sheets \cup {None}
    <2> DEFINE rest == Without(queue, s)
    <2>1. rest \in Seq(QueueItems)
        BY WithoutIs DEF TypeOK
    <2>2. NextAfter(s) = IF rest = <<>> THEN None
                         ELSE rest[IF Position(queue, s) <= Len(rest) THEN Position(queue, s) ELSE Len(rest)].id
        BY DEF NextAfter
    <2> HIDE DEF rest
    <2>3. CASE rest # <<>>
        <3>1. (IF Position(queue, s) <= Len(rest) THEN Position(queue, s) ELSE Len(rest)) \in 1..Len(rest)
            BY <1>1, <2>1, <2>3
        <3>2. \A i \in 1..Len(rest) : rest[i].id \in Sheets
            BY <2>1, ItemIs
        <3> QED
            BY <3>1, <3>2, <2>2, <2>3
    <2> QED
        BY <2>2, <2>3
<1>3. SkipForward(s) \in Sheets
    <2>1. \A n \in Nat, m \in Nat \ {0} : (n % m) + 1 \in 1..m
        OBVIOUS
    <2>2. (Position(queue, s) % Len(queue)) + 1 \in 1..Len(queue)
        BY <1>1, <2>1 DEF TypeOK
    <2>3. \A i \in 1..Len(queue) : queue[i].id \in Sheets
        BY ItemIs DEF TypeOK
    <2> QED
        BY <2>2, <2>3 DEF SkipForward
<1> QED
    BY <1>2, <1>3

-----------------------------------------------------------------------------
(* What the page shows: its sheet, the work on it, and the reads on their way *)

pageVars == <<range, route, queue, loading, work, due, gets>>

Flags == {"inFlight", "saving"}

PageType ==
    /\ range \in Ranges /\ route \in Sheets \cup {None} /\ queue \in Seq(QueueItems)
    /\ loading \in BOOLEAN /\ work \in Works /\ due \subseteq {"page", "sheet", "range"}
    /\ gets \subseteq QueueGets \cup PreviewGets

Page == PageType /\ WorkOfCurrent /\ PreviewsOfWork

LEMMA PageStays ==
    ASSUME Page, UNCHANGED pageVars
    PROVE  Page'
BY DEF Page, pageVars, PageType, WorkOfCurrent, PreviewsOfWork, Current

\* The sheet stays, the work on it goes on: of and preview are the same.
LEMMA WorkGoesOn ==
    ASSUME Page, UNCHANGED <<range, route, queue, loading, due, gets>>,
           work' \in Works, work'.of = work.of, work'.preview = work.preview
    PROVE  Page'
BY DEF Page, PageType, WorkOfCurrent, PreviewsOfWork, Current

\* However the page turns, the work follows unless it is due.
LEMMA TurnStep ==
    ASSUME Page, NEW q \in Seq(QueueItems), NEW rg \in Ranges, NEW rt \in Sheets \cup {None},
           NEW fresh \in BOOLEAN, NEW ld \in BOOLEAN, NEW rest, rest \subseteq gets,
           Turn(q, rg, rt, fresh, ld, rest)
    PROVE  Page'
<1> DEFINE new == Shown(q, rt)
           same == ~fresh /\ (IF new = None THEN work.of = None ELSE work.of = new.id)
<1>1. /\ queue' = q /\ range' = rg /\ route' = rt /\ loading' = ld /\ gets' = rest /\ work' = work
      /\ due' = {"page"} \cup (IF same THEN {} ELSE {"sheet"}) \cup (IF rg = range THEN {} ELSE {"range"})
    BY DEF Turn
<1>2. due' \subseteq {"page", "sheet", "range"} /\ ("sheet" \notin due' => same)
    BY <1>1
<1>3. Current' = new
    BY <1>1 DEF Current
<1>4. PageType'
    BY <1>1, <1>2 DEF Page, PageType
<1>5. WorkOfCurrent'
    BY <1>1, <1>2, <1>3 DEF WorkOfCurrent
<1>6. PreviewsOfWork'
    BY <1>1 DEF Page, PreviewsOfWork
<1> QED
    BY <1>4, <1>5, <1>6 DEF Page

\* The effects reset what is due to the sheet shown, and read for it alone.
LEMMA EffectsStep ==
    ASSUME TypeOK, Page, Effects
    PROVE  Page'
<1> DEFINE kept == {g \in gets : /\ g.kind = "preview" => "sheet" \notin due
                                 /\ g.kind = "queue" /\ g.live => "range" \notin due}
           to == IF route = None /\ ~loading /\ queue # <<>> THEN queue[1].id ELSE route
<1>1. /\ work' = (IF "sheet" \in due THEN Fresh(Current) ELSE work) /\ due' = {}
      /\ loading' = (loading \/ "range" \in due) /\ route' = to
      /\ gets' = kept \cup LoadsAnew \cup AsksAnew /\ UNCHANGED <<range, queue>>
    BY DEF Effects
<1>2. Current \in QueueItems \cup {None} /\ (Current # None => Current.id \in Sheets)
    BY CurrentIs DEF Page
<1>3. to \in Sheets \cup {None}
    BY ItemIs DEF Page, PageType
<1>4. IF Current = None THEN Current' = None ELSE Current' # None /\ Current'.id = Current.id
    <2>1. CASE to = route
        BY <2>1, <1>1 DEF Current, Shown
    <2>2. CASE to # route
        <3>1. route = None /\ queue # <<>> /\ to = queue[1].id /\ to \in Sheets
            BY <2>2, ItemIs DEF Page, PageType
        <3>2. to # None
            BY <3>1, ScreenAssumption
        <3>3. queue \in Seq(QueueItems) /\ 1 \in 1..Len(queue)
            BY <3>1 DEF Page, PageType
        <3>4. Holds(queue, to) /\ Current = queue[1] /\ queue[1] # None
            BY <3>1, <3>3, ItemIs, ItemIsNotNone DEF Holds, Current, Shown
        <3>5. Current' = queue[Position(queue, to)]
            BY <3>2, <3>4, <1>1 DEF Current, Shown
        <3>6. /\ queue[Position(queue, to)].id = to /\ queue[Position(queue, to)] \in QueueItems
            BY <3>3, <3>4, PositionIs, ItemIs
        <3>7. Current' # None
            BY <3>5, <3>6, ItemIsNotNone
        <3> QED
            BY <3>1, <3>4, <3>5, <3>6, <3>7
    <2> QED
        BY <2>1, <2>2
<1>5. LoadsAnew \subseteq QueueGets /\ \A g \in LoadsAnew : g.kind # "preview"
    BY QueueOfType DEF LoadsAnew, Page, PageType
<1>6. /\ AsksAnew \subseteq PreviewGets /\ (AsksAnew # {} => "sheet" \in due /\ Current # None)
      /\ \A g \in AsksAnew : g.kind = "preview" /\ g.sheet = Current.id /\ g.answer = None
    <2>1. CASE "sheet" \in due /\ Current # None
        <3>1. ExactSelection(Current.id) \in Users \cup {None}
            BY <1>2, <2>1, ScreenAssumption DEF ExactSelection
        <3> QED
            BY <3>1, <2>1, <1>2, PreviewsType DEF AsksAnew
    <2>2. CASE ~("sheet" \in due /\ Current # None)
        BY <2>2 DEF AsksAnew
    <2> QED
        BY <2>1, <2>2
<1>7. CASE "sheet" \in due
    <2>1. /\ work' \in Works /\ work'.preview = None
          /\ work'.of = IF Current = None THEN None ELSE Current.id
        BY <1>1, <1>2, <1>7, FreshType
    <2>2. \A g \in kept : g \in gets /\ g.kind # "preview"
        BY <1>7
    <2> HIDE DEF kept, to
    <2>3. PageType'
        BY <2>1, <2>2, <1>1, <1>3, <1>5, <1>6 DEF Page, PageType
    <2>4. WorkOfCurrent'
        BY <2>1, <1>4 DEF WorkOfCurrent
    <2>5. PreviewsOfWork'
        BY <2>1, <2>2, <1>1, <1>5, <1>6 DEF PreviewsOfWork
    <2> QED
        BY <2>3, <2>4, <2>5 DEF Page
<1>8. CASE "sheet" \notin due
    <2>1. work' = work /\ AsksAnew = {}
        BY <1>1, <1>6, <1>8
    <2>2. kept \subseteq gets
        OBVIOUS
    <2> HIDE DEF kept, to
    <2>3. PageType'
        BY <2>1, <2>2, <1>1, <1>3, <1>5 DEF Page, PageType
    <2>4. WorkOfCurrent'
        BY <2>1, <1>4, <1>8 DEF Page, WorkOfCurrent
    <2>5. PreviewsOfWork'
        BY <2>1, <2>2, <1>1, <1>5 DEF Page, PreviewsOfWork
    <2> QED
        BY <2>3, <2>4, <2>5 DEF Page
<1> QED
    BY <1>7, <1>8

\* A preview is asked for the sheet shown; those asked for before are forgotten.
LEMMA AskStep ==
    ASSUME TypeOK, Page, Current # None, InStep, NEW u \in Users \cup {None}, AskPreview(u),
           UNCHANGED <<range, route, queue, loading, due>>, work' \in Works, work'.of = work.of,
           work'.preview # None => work'.preview = work.preview
    PROVE  Page'
<1>1. /\ Current.id \in Sheets /\ work.of = Current.id
    <2>1. "sheet" \notin due
        BY DEF InStep
    <2> QED
        BY <2>1, CurrentIs DEF Page
<1>2. /\ Previews(Current.id, u) \subseteq PreviewGets
      /\ \A g \in Previews(Current.id, u) : g.kind = "preview" /\ g.sheet = Current.id /\ g.answer = None
    BY <1>1, PreviewsType
<1>3. \A g \in gets' : \/ g \in gets /\ g.kind # "preview"
                       \/ g \in Previews(Current.id, u)
    BY DEF AskPreview
<1>4. PageType'
    BY <1>2, <1>3 DEF Page, PageType
<1>5. WorkOfCurrent'
    BY DEF Page, WorkOfCurrent, Current
<1>6. PreviewsOfWork'
    BY <1>1, <1>2, <1>3 DEF Page, PreviewsOfWork
<1> QED
    BY <1>4, <1>5, <1>6 DEF Page

\* The server reads its tables for a queue or a preview.
LEMMA ServeGetStep ==
    ASSUME TypeOK, Page, NEW g \in gets, ServeGet(g)
    PROVE  Page'
<1> DEFINE answer == IF g.kind = "queue" THEN GetQueue(g.range) ELSE GetIdentityPreview(g.sheet, g.user)
           served == [g EXCEPT !.answer = answer]
<1>1. gets' = (gets \ {g}) \cup {served} /\ UNCHANGED <<range, route, queue, loading, work, due>>
    BY DEF ServeGet, view
<1>2. g \in QueueGets \cup PreviewGets
    BY DEF Page, PageType
<1>3. CASE g \in QueueGets
    <2>1. answer \in Seq(QueueItems)
        BY <1>3, QueueType DEF QueueGets
    <2> HIDE DEF answer
    <2>2. served \in QueueGets /\ served.kind # "preview"
        BY <2>1, <1>3 DEF QueueGets
    <2> HIDE DEF served
    <2> QED
        BY <2>2, <1>1 DEF Page, PageType, PreviewsOfWork, WorkOfCurrent, Current
<1>4. CASE g \in PreviewGets
    <2>1. /\ g.kind = "preview" /\ g.sheet \in Sheets /\ g.user \in Users
        BY <1>4 DEF PreviewGets
    <2>2. answer \in PreviewRows /\ answer.sheet = g.sheet /\ answer.user = g.user
        <3>1. <<g.user, Date[g.sheet]>> \in Users \X Dates
            BY <2>1 DEF Dates
        <3> QED
            BY <2>1, <3>1 DEF GetIdentityPreview, PreviewRows, TypeOK
    <2> HIDE DEF answer
    <2>3. /\ served \in PreviewGets /\ served.kind = "preview" /\ served.sheet = g.sheet
          /\ served.user = g.user /\ served.answer = answer
        BY <2>2, <1>4 DEF PreviewGets
    <2> HIDE DEF served
    <2>4. g.sheet = work.of
        BY <2>1 DEF Page, PreviewsOfWork
    <2>5. PageType' /\ WorkOfCurrent'
        BY <2>3, <1>1 DEF Page, PageType, WorkOfCurrent, Current
    <2>6. PreviewsOfWork'
        BY <2>2, <2>3, <2>4, <1>1 DEF Page, PreviewsOfWork
    <2> QED
        BY <2>5, <2>6 DEF Page
<1> QED
    BY <1>2, <1>3, <1>4

\* A preview comes in only while its sheet is shown.
LEMMA ReceivePreviewStep ==
    ASSUME Page, NEW g \in gets, ReceivePreview(g)
    PROVE  Page'
<1>1. /\ g.kind = "preview" /\ gets' = gets \ {g} /\ UNCHANGED <<range, route, queue, loading, due>>
      /\ \/ g.answer # None /\ work' = [work EXCEPT !.preview = g.answer]
         \/ work' = work
    BY DEF ReceivePreview
<1>2. g \in PreviewGets
    BY <1>1 DEF Page, PageType, QueueGets
<1>3. work' \in Works /\ work'.of = work.of
    BY <1>1, <1>2 DEF Page, PageType, Works, PreviewGets
<1>4. work'.preview # None => work'.preview.sheet = work'.of
    BY <1>1, <1>3 DEF Page, PageType, PreviewsOfWork, Works
<1> QED
    BY <1>1, <1>3, <1>4 DEF Page, PageType, WorkOfCurrent, PreviewsOfWork, Current

\* A queue comes in: every sheet comes up anew.
LEMMA ReceiveQueueStep ==
    ASSUME Page, NEW g \in gets, ReceiveQueue(g)
    PROVE  Page'
<1>1. g.kind = "queue" /\ gets \ {g} \subseteq gets
    BY DEF ReceiveQueue
<1>2. g \in QueueGets
    BY <1>1 DEF Page, PageType, PreviewGets
<1>3. <<>> \in Seq(QueueItems) /\ range \in Ranges /\ route \in Sheets \cup {None}
    BY DEF Page, PageType
<1>4. CASE g.answer # None /\ Turn(g.answer, range, route, TRUE, FALSE, gets \ {g})
    <2>1. g.answer \in Seq(QueueItems)
        BY <1>2, <1>4 DEF QueueGets
    <2> QED
        BY <2>1, <1>1, <1>3, <1>4, TurnStep
<1>5. CASE Turn(<<>>, range, route, TRUE, FALSE, gets \ {g})
    BY <1>1, <1>3, <1>5, TurnStep
<1> QED
    BY <1>4, <1>5 DEF ReceiveQueue

\* The operator moves about.
LEMMA MoveStep ==
    ASSUME Page, Navigate \/ ReturnToQueue
    PROVE  Page'
<1>1. /\ queue \in Seq(QueueItems) /\ range \in Ranges /\ route \in Sheets \cup {None}
      /\ loading \in BOOLEAN /\ gets \subseteq gets
    BY DEF Page, PageType
<1>2. CASE Navigate
    <2>1. CASE \E i \in 1..Len(queue) : Turn(queue, range, queue[i].id, FALSE, loading, gets)
        <3>1. PICK i \in 1..Len(queue) : Turn(queue, range, queue[i].id, FALSE, loading, gets)
            BY <2>1
        <3>2. queue[i].id \in Sheets \cup {None}
            BY <1>1, ItemIs
        <3> QED
            BY <3>1, <3>2, <1>1, TurnStep
    <2>2. CASE \E r \in Ranges \ {range} : Turn(queue, r, route, FALSE, loading, gets)
        BY <2>2, <1>1, TurnStep
    <2> QED
        BY <2>1, <2>2, <1>2 DEF Navigate
<1>3. CASE ReturnToQueue
    <2> DEFINE first == IF queue = <<>> THEN None ELSE queue[1].id
    <2>1. first \in Sheets \cup {None}
        BY <1>1, ItemIs
    <2>2. route # None => {Date[route]} \in Ranges
        BY <1>1, ScreenAssumption
    <2>3. \/ route # None /\ Turn(queue, {Date[route]}, route, FALSE, FALSE, gets)
          \/ Turn(queue, range, first, FALSE, FALSE, gets)
        BY <1>3 DEF ReturnToQueue
    <2> HIDE DEF first
    <2> QED
        BY <2>1, <2>2, <2>3, <1>1, TurnStep
<1> QED
    BY <1>2, <1>3

\* The answer of a decision moves the page on.
LEMMA AnswerStep ==
    ASSUME Page, calls \subseteq Decisions, NEW c \in calls,
           ReceiveDecision(c) \/ ReceiveSkip(c) \/ ReceiveArtifact(c)
    PROVE  Page'
<1>1. /\ queue \in Seq(QueueItems) /\ range \in Ranges /\ route \in Sheets \cup {None}
      /\ loading \in BOOLEAN /\ gets \subseteq gets
    BY DEF Page, PageType
<1>2. c.range \in Ranges /\ c.next \in Sheets \cup {None}
    BY DEF Decisions
<1>3. CASE ReceiveDecision(c)
    <2>1. CASE Advance(c)
        BY <2>1, <1>1, <1>2, WithoutIs, TurnStep DEF Advance
    <2>2. CASE UNCHANGED <<view, gets>>
        BY <2>2, PageStays DEF view, pageVars
    <2> QED
        BY <2>1, <2>2, <1>3 DEF ReceiveDecision
<1>4. CASE ReceiveSkip(c)
    BY <1>4, <1>1, <1>2, TurnStep DEF ReceiveSkip
<1>5. CASE ReceiveArtifact(c)
    <2>1. UNCHANGED <<range, route, queue, work, due>> /\ loading' \in BOOLEAN
        BY <1>1, <1>5 DEF ReceiveArtifact
    <2>2. gets' = gets \cup {QueueOf(c.range, FALSE)} \/ gets' = gets
        BY <1>5 DEF ReceiveArtifact
    <2>3. QueueOf(c.range, FALSE) \in QueueGets /\ QueueOf(c.range, FALSE).kind # "preview"
        BY <1>2, QueueOfType
    <2> QED
        BY <2>1, <2>2, <2>3 DEF Page, PageType, WorkOfCurrent, PreviewsOfWork, Current
<1> QED
    BY <1>3, <1>4, <1>5

\* Every step of the page, the server and the rivals.
LEMMA PageStep ==
    ASSUME TypeOK, Page, [Next]_vars
    PROVE  Page'
<1>1. CASE UNCHANGED vars
    BY <1>1, PageStays DEF vars, view, pageVars
<1>2. CASE EditLine \/ RefreshReference \/ WriteReason
    <2>1. /\ work' \in Works /\ work'.of = work.of /\ work'.preview = work.preview
          /\ UNCHANGED <<range, route, queue, loading, due, gets>>
        BY <1>2 DEF EditLine, RefreshReference, WriteReason, Page, PageType, Works
    <2> QED
        BY <2>1, WorkGoesOn
<1>3. CASE \E u \in Users : Select(u)
    <2>1. PICK u \in Users : Select(u)
        BY <1>3
    <2>2. /\ work' \in Works /\ work'.of = work.of /\ work'.preview = None
          /\ UNCHANGED <<range, route, queue, loading, due>> /\ AskPreview(u)
        BY <2>1 DEF Select, Page, PageType, Works
    <2>3. Current # None /\ InStep
        BY <2>1, Zenon DEF Select, Free, Clickable
    <2> QED
        BY <2>2, <2>3, AskStep
<1>4. CASE RetryPreview
    <2>1. work.pick \in Users \cup {None} /\ work \in Works
        BY DEF Page, PageType, Works
    <2>2. UNCHANGED <<range, route, queue, loading, work, due>> /\ AskPreview(work.pick)
        BY <1>4 DEF RetryPreview, view
    <2>3. Current # None /\ InStep
        BY <1>4, Zenon DEF RetryPreview, Free, Clickable
    <2> QED
        BY <2>1, <2>2, <2>3, AskStep
<1>5. CASE Navigate \/ ReturnToQueue
    BY <1>5, MoveStep
<1>6. CASE \/ Confirm \/ Acknowledge \/ DeclineReplacement \/ OpenReject \/ Reject \/ CancelReject
           \/ Skip \/ RetryArtifact \/ Serves \/ (\E c \in calls : Fail(c)) \/ Rival
    <2>1. UNCHANGED <<view, gets>>
        BY <1>6 DEF Confirm, Acknowledge, DeclineReplacement, OpenReject, Reject, CancelReject, Skip,
            RetryArtifact, Serves, ServeConfirm, ServeReject, ServeOther, Fail, Rival
    <2> QED
        BY <2>1, PageStays DEF view, pageVars
<1>7. CASE Reads
    BY <1>7, ServeGetStep, ReceiveQueueStep, ReceivePreviewStep DEF Reads
<1>8. CASE Receives
    BY <1>8, AnswerStep DEF Receives, TypeOK
<1>9. CASE Effects
    BY <1>9, EffectsStep
<1> QED
    BY <1>1, <1>2, <1>3, <1>4, <1>5, <1>6, <1>7, <1>8, <1>9 DEF Next, Operator

-----------------------------------------------------------------------------
(* Decisions: what they carry, and what the server made of them *)

\* What is known of a confirmation.
Carries(c) ==
    c.kind = "confirm" => /\ c.shown.sheet = c.sheet /\ c.shown.user = c.user
                          /\ c.draftOf = c.sheet \/ (c.hasty /\ Binding[c.sheet] = "issued")

ServerType == status \in [Sheets -> Statuses] /\ active \in [Users \X Dates -> Orders]

DecisionsType ==
    /\ ack \in Decisions \cup {None} /\ calls \subseteq Decisions
    /\ rejecting \in BOOLEAN /\ saving \subseteq Flags /\ gestures \in Nat /\ faults \in Nat

Sent ==
    /\ ServerType /\ DecisionsType
    /\ ack # None => Carries(ack)
    /\ \A c \in calls : Carries(c)
    /\ DecidedWasDecided

LEMMA SentStays ==
    ASSUME Sent, UNCHANGED <<server, ack, calls>>, rejecting' \in BOOLEAN, saving' \subseteq Flags,
           gestures' \in Nat, faults' \in Nat
    PROVE  Sent'
BY DEF Sent, ServerType, DecisionsType, DecidedWasDecided, server, Carries

\* The confirmation of the sheet shown carries that sheet, for an issued form
\* with the owner's order, else with the preview that is ready.
LEMMA ConfirmationIs ==
    ASSUME TypeOK, Page, Current # None, IdentityReady(Current.id)
    PROVE  /\ Confirmation(Current.id) \in Decisions
           /\ Confirmation(Current.id).answer = None
           /\ Carries(Confirmation(Current.id))
<1> DEFINE s == Current.id
           d == Decision("confirm", s, NextAfter(s))
<1>1. /\ Current \in QueueItems /\ s \in Sheets /\ Holds(queue, s)
      /\ work.of = s \/ "sheet" \in due
    BY CurrentIs DEF Page
<1>2. d \in Decisions /\ d.kind = "confirm" /\ d.answer = None
    BY <1>1, NextType, DecisionType
<1>5. d.sheet = s /\ d.draftOf = work.of
    BY DEF Decision
<1>6. d.draftOf = s \/ d.hasty
    <2>1. d.hasty <=> "sheet" \in due
        BY Zenon DEF Decision
    <2> QED
        BY <2>1, <1>1, <1>5
<1>3. CASE Binding[s] = "issued"
    <2> DEFINE shown == [sheet |-> s, user |-> Owner[s], order |-> Current.existing]
    <2>1. Owner[s] \in Users
        BY <1>1, <1>3, ScreenAssumption DEF IdentityReady
    <2>2. shown \in PreviewRows /\ shown.sheet = s /\ shown.user = Owner[s]
        BY <2>1, <1>1 DEF PreviewRows, QueueItems
    <2>3. Confirmation(s) = [d EXCEPT !.user = Owner[s], !.shown = shown]
        BY <1>3 DEF Confirmation
    <2> DEFINE c == Confirmation(s)
    <2> HIDE DEF shown, d, s
    <2>4. /\ c \in Decisions /\ c.answer = None /\ c.sheet = s /\ c.shown = shown /\ c.user = Owner[s]
          /\ c.draftOf = d.draftOf /\ c.hasty = d.hasty
        BY <2>1, <2>2, <2>3, <1>2, <1>5 DEF Decisions
    <2> HIDE DEF c
    <2>5. Carries(c)
        BY <2>2, <2>4, <1>3, <1>6, Zenon DEF Carries
    <2> QED
        BY <2>4, <2>5 DEF c, s
<1>4. CASE Binding[s] # "issued"
    <2>1. /\ work.pick \in Users /\ work.preview # None /\ work.preview.user = work.pick
          /\ work.preview \in PreviewRows /\ work.of = s
        BY <1>4 DEF IdentityReady, Page, PageType, Works
    <2>2. work.preview.sheet = s
        BY <2>1 DEF Page, PreviewsOfWork
    <2>3. Confirmation(s) = [d EXCEPT !.user = work.pick, !.shown = work.preview]
        BY <1>4 DEF Confirmation
    <2>5. d.draftOf = s
        BY <2>1, <1>5
    <2> DEFINE c == Confirmation(s)
    <2> HIDE DEF d, s
    <2>4. /\ c \in Decisions /\ c.answer = None /\ c.sheet = s /\ c.shown = work.preview /\ c.user = work.pick
          /\ c.draftOf = d.draftOf
        BY <2>1, <2>2, <2>3, <1>2, <1>5 DEF Decisions
    <2> HIDE DEF c
    <2>6. Carries(c)
        BY <2>1, <2>2, <2>4, <2>5, Zenon DEF Carries
    <2> QED
        BY <2>4, <2>6 DEF c, s
<1> QED
    BY <1>3, <1>4

\* A new decision is on its way.
LEMMA PostStep ==
    ASSUME Sent, NEW c \in Decisions, c.answer = None, Carries(c), calls' = calls \cup {c},
           UNCHANGED <<server, rejecting, faults>>, saving' \subseteq Flags, gestures' \in Nat,
           ack' \in {ack, None}
    PROVE  Sent'
<1>1. DecisionsType'
    BY DEF Sent, DecisionsType
<1>2. (ack' # None => Carries(ack)) /\ \A d \in calls' : Carries(d)
    BY DEF Sent
<1>3. DecidedWasDecided'
    BY ScreenAssumption DEF Sent, DecidedWasDecided, server
<1> QED
    BY <1>1, <1>2, <1>3 DEF Sent, ServerType, server, Carries

\* No step puts a sheet back.
Onward == \A s \in Sheets : status[s] # "flagged" => status'[s] # "flagged"

\* The server, or a failure, answers a decision; ok and terminal mean decided.
LEMMA ServeStep ==
    ASSUME Sent, NEW c \in calls, NEW a \in {"ok", "terminal", "error"}, Answer(c, a), Onward,
           ServerType', UNCHANGED <<ack, rejecting, saving, gestures>>, faults' \in Nat,
           c.kind \in {"confirm", "reject"} /\ a # "error" => status'[c.sheet] # "flagged"
    PROVE  Sent'
<1> DEFINE told == [c EXCEPT !.answer = a]
<1>1. calls' = (calls \ {c}) \cup {told}
    BY DEF Answer
<1>2. c \in Decisions /\ \A d \in calls : d \in Decisions
    BY DEF Sent, DecisionsType
<1>3. /\ told \in Decisions /\ told.kind = c.kind /\ told.sheet = c.sheet /\ told.answer = a
      /\ told.draftOf = c.draftOf /\ told.hasty = c.hasty /\ told.shown = c.shown /\ told.user = c.user
    BY <1>2 DEF Decisions
<1> HIDE DEF told
<1>4. DecisionsType'
    BY <1>1, <1>2, <1>3 DEF Sent, DecisionsType
<1>5. (ack' # None => Carries(ack)) /\ \A d \in calls' : Carries(d)
    BY <1>1, <1>3 DEF Sent, Carries
<1>6. DecidedWasDecided'
    <2>1. ASSUME NEW d \in calls', d.kind \in {"confirm", "reject"}, d.answer \in {"ok", "terminal"}
          PROVE  status'[d.sheet] # "flagged"
        <3>1. CASE d = told
            BY <3>1, <2>1, <1>3
        <3>2. CASE d # told
            <4>1. d \in calls /\ d.sheet \in Sheets
                BY <3>2, <1>1, <1>2 DEF Decisions
            <4> QED
                BY <4>1, <2>1 DEF Sent, DecidedWasDecided, Onward
        <3> QED
            BY <3>1, <3>2
    <2> QED
        BY <2>1 DEF Sent, DecidedWasDecided
<1> QED
    BY <1>4, <1>5, <1>6 DEF Sent, Carries

\* An answer that came in is forgotten.
LEMMA ForgetStep ==
    ASSUME Sent, NEW c \in calls, calls' = calls \ {c}, UNCHANGED <<server, ack, gestures, faults>>,
           rejecting' \in BOOLEAN, saving' \subseteq Flags
    PROVE  Sent'
BY DEF Sent, ServerType, DecisionsType, DecidedWasDecided, server, Carries

LEMMA FaultType ==
    ASSUME faults \in Nat, UNCHANGED faults \/ Fault
    PROVE  faults' \in Nat
BY DEF Fault

LEMMA GestureType ==
    ASSUME gestures \in Nat, UNCHANGED gestures \/ Gesture
    PROVE  gestures' \in Nat
BY DEF Gesture

\* The steps that decide a sheet: two answers of the server, and a rival.
LEMMA DecidingStep ==
    ASSUME Sent, (\E c \in calls : ServeConfirm(c) \/ ServeReject(c)) \/ Rival
    PROVE  Sent' /\ Onward
<1>1. \A s \in Sheets, v \in Statuses \ {"flagged"} :
          LET st == [status EXCEPT ![s] = v]
          IN  /\ st \in [Sheets -> Statuses] /\ st[s] # "flagged"
              /\ \A t \in Sheets : status[t] # "flagged" => st[t] # "flagged"
    BY DEF Sent, ServerType, Statuses
<1>2. \A s \in Sheets, u \in Users : [active EXCEPT ![<<u, Date[s]>>] = OrderOf(s)] \in [Users \X Dates -> Orders]
    BY DEF Sent, ServerType, Orders
<1>3. {"confirmed", "rejected"} \subseteq Statuses \ {"flagged"}
    BY DEF Statuses
<1>4. ServerType /\ DecisionsType
    BY DEF Sent
<1>5. ASSUME NEW c \in calls, ServeConfirm(c)
      PROVE  Sent' /\ Onward
    <2>1. c \in Decisions /\ c.sheet \in Sheets
        BY <1>4 DEF DecisionsType, Decisions
    <2>2. UNCHANGED <<ack, rejecting, saving, gestures>>
        BY <1>5 DEF ServeConfirm
    <2>3. CASE /\ status' = [status EXCEPT ![c.sheet] = "confirmed"]
               /\ active' = [active EXCEPT ![<<c.user, Date[c.sheet]>>] = OrderOf(c.sheet)]
               /\ Done(c)
        <3>1. Onward /\ status'[c.sheet] # "flagged" /\ status' \in [Sheets -> Statuses]
            BY <2>1, <2>3, <1>1, <1>3 DEF Onward
        <3>2. active' \in [Users \X Dates -> Orders]
            BY <2>1, <2>3, <1>4 DEF ServerType, Orders
        <3>3. faults' \in Nat /\ \E a \in {"ok", "error"} : Answer(c, a)
            BY <2>3, <1>4, FaultType DEF Done, DecisionsType
        <3> QED
            BY <3>1, <3>2, <3>3, <2>2, ServeStep DEF ServerType
    <2>4. CASE Answer(c, "error") /\ UNCHANGED <<server, faults>>
        <3>1. Onward /\ ServerType' /\ faults' \in Nat
            BY <2>4, <1>4 DEF Onward, server, ServerType, DecisionsType
        <3> QED
            BY <3>1, <2>4, <2>2, ServeStep
    <2>5. CASE /\ status' = [status EXCEPT ![c.sheet] = "rejected"]
               /\ Answer(c, "terminal") /\ Fault /\ UNCHANGED active
        <3>1. Onward /\ status'[c.sheet] # "flagged" /\ status' \in [Sheets -> Statuses]
            BY <2>1, <2>5, <1>1, <1>3 DEF Onward
        <3>2. ServerType' /\ faults' \in Nat
            BY <3>1, <2>5, <1>4, FaultType DEF ServerType, DecisionsType
        <3> QED
            BY <3>1, <3>2, <2>5, <2>2, ServeStep
    <2> QED
        BY <2>3, <2>4, <2>5, <1>5 DEF ServeConfirm
<1>6. ASSUME NEW c \in calls, ServeReject(c)
      PROVE  Sent' /\ Onward
    <2>1. c \in Decisions /\ c.sheet \in Sheets
        BY <1>4 DEF DecisionsType, Decisions
    <2>2. UNCHANGED <<active, ack, rejecting, saving, gestures>>
        BY <1>6 DEF ServeReject
    <2>3. CASE status' = [status EXCEPT ![c.sheet] = "rejected"] /\ Done(c)
        <3>1. Onward /\ status'[c.sheet] # "flagged" /\ status' \in [Sheets -> Statuses]
            BY <2>1, <2>3, <1>1, <1>3 DEF Onward
        <3>2. faults' \in Nat /\ \E a \in {"ok", "error"} : Answer(c, a)
            BY <2>3, <1>4, FaultType DEF Done, DecisionsType
        <3>3. ServerType'
            BY <3>1, <2>2, <1>4 DEF ServerType
        <3> QED
            BY <3>1, <3>2, <3>3, <2>2, ServeStep
    <2>4. CASE Answer(c, "error") /\ UNCHANGED <<status, faults>>
        <3>1. Onward /\ ServerType' /\ faults' \in Nat
            BY <2>4, <2>2, <1>4 DEF Onward, ServerType, DecisionsType
        <3> QED
            BY <3>1, <2>4, <2>2, ServeStep
    <2> QED
        BY <2>3, <2>4, <1>6 DEF ServeReject
<1>7. CASE Rival
    <2>1. PICK s \in Sheets :
              \/ /\ status' = [status EXCEPT ![s] = "confirmed"]
                 /\ \E u \in Users : active' = [active EXCEPT ![<<u, Date[s]>>] = OrderOf(s)]
              \/ status' = [status EXCEPT ![s] = "rejected"] /\ UNCHANGED active
        BY <1>7 DEF Rival
    <2>2. active' \in [Users \X Dates -> Orders]
        <3>1. (\E u \in Users : active' = [active EXCEPT ![<<u, Date[s]>>] = OrderOf(s)]) \/ active' = active
            BY ONLY <2>1
        <3>2. CASE \E u \in Users : active' = [active EXCEPT ![<<u, Date[s]>>] = OrderOf(s)]
            <4>1. PICK u \in Users : active' = [active EXCEPT ![<<u, Date[s]>>] = OrderOf(s)]
                BY <3>2
            <4>2. [active EXCEPT ![<<u, Date[s]>>] = OrderOf(s)] \in [Users \X Dates -> Orders]
                BY <1>2
            <4> QED
                BY ONLY <4>1, <4>2
        <3>3. CASE active' = active
            BY <3>3, <1>4 DEF ServerType
        <3> QED
            BY <3>1, <3>2, <3>3
    <2>5. \E v \in {"confirmed", "rejected"} : status' = [status EXCEPT ![s] = v]
        BY <2>1
    <2>6. Onward /\ ServerType'
        BY <2>2, <2>5, <1>1, <1>3 DEF Onward, ServerType
    <2>3. faults' \in Nat /\ UNCHANGED <<ack, rejecting, saving, calls, gestures>>
        BY <1>7, <1>4, FaultType DEF Rival, DecisionsType
    <2>4. \A c \in calls : c.sheet \in Sheets
        BY <1>4 DEF DecisionsType, Decisions
    <2> QED
        BY <2>3, <2>4, <2>6 DEF Sent, DecisionsType, DecidedWasDecided, Onward, Carries
<1> QED
    BY <1>5, <1>6, <1>7

\* Every step of the page, the server and the rivals.
LEMMA SentStep ==
    ASSUME TypeOK, Page, Sent, [Next]_vars
    PROVE  Sent'
<1>1. CASE UNCHANGED vars
    BY <1>1, SentStays DEF vars, server, Sent, DecisionsType
<1> DEFINE Quiet == /\ UNCHANGED <<server, ack, calls>> /\ rejecting' \in BOOLEAN /\ saving' \subseteq Flags
                    /\ gestures' \in Nat /\ faults' \in Nat
<1>2. Quiet => Sent'
    BY SentStays
<1>3. ServerType /\ DecisionsType /\ gestures \in Nat /\ faults \in Nat
    BY DEF Sent, DecisionsType
<1>4. (UNCHANGED gestures \/ Gesture => gestures' \in Nat) /\ (UNCHANGED faults \/ Fault => faults' \in Nat)
    BY <1>3, FaultType, GestureType
<1>5. CASE EditLine \/ RefreshReference \/ WriteReason \/ (\E u \in Users : Select(u)) \/ RetryPreview
           \/ Navigate \/ ReturnToQueue
    <2>1. UNCHANGED <<server, ack, calls, rejecting, saving, faults>> /\ Gesture
        BY <1>5 DEF EditLine, RefreshReference, WriteReason, Select, RetryPreview, Navigate,
            ReturnToQueue
    <2> QED
        BY <2>1, <1>2, <1>3, <1>4 DEF DecisionsType
<1>6. CASE DeclineReplacement
    BY <1>6, <1>3 DEF DeclineReplacement, Sent, ServerType, DecisionsType, DecidedWasDecided, server, Carries
<1>7. CASE OpenReject \/ CancelReject
    <2>1. UNCHANGED <<server, ack, calls, saving, faults>> /\ rejecting' \in BOOLEAN
          /\ (Gesture \/ UNCHANGED gestures)
        BY <1>7 DEF OpenReject, CancelReject
    <2> QED
        BY <2>1, <1>2, <1>3, <1>4 DEF DecisionsType
<1>8. CASE Confirm
    <2> DEFINE c == Confirmation(Current.id)
    <2>1. c \in Decisions /\ c.answer = None /\ Carries(c)
        BY <1>8, ConfirmationIs DEF Confirm, Clickable
    <2>2. UNCHANGED <<server, rejecting, faults>> /\ gestures' \in Nat
        BY <1>8, <1>4 DEF Confirm
    <2>3. \/ ack' = c /\ UNCHANGED <<calls, saving>>
          \/ Post(c) /\ UNCHANGED ack
        BY <1>8 DEF Confirm
    <2> HIDE DEF c
    <2>4. CASE ack' = c /\ UNCHANGED <<calls, saving>>
        BY <2>1, <2>2, <2>4, <1>3 DEF Sent, ServerType, DecisionsType, DecidedWasDecided, server, Carries
    <2>5. CASE Post(c) /\ UNCHANGED ack
        <3>1. calls' = calls \cup {c} /\ saving' \subseteq Flags /\ ack' \in {ack, None}
            BY <2>5 DEF Post, Flags
        <3> QED
            BY <3>1, <2>1, <2>2, PostStep
    <2> QED
        BY <2>3, <2>4, <2>5
<1>9. CASE Acknowledge
    <2> DEFINE c == [ack EXCEPT !.acked = TRUE]
    <2>1. ack # None /\ ack \in Decisions /\ Carries(ack) /\ ack.answer = None
        BY <1>9, <1>3 DEF Acknowledge, WarningShown, DecisionsType, Sent, DecidedWasDecided
    <2>2. c \in Decisions /\ c.answer = None /\ Carries(c)
        BY <2>1 DEF Decisions, Carries
    <2>3. /\ calls' = calls \cup {c} /\ saving' \subseteq Flags /\ ack' \in {ack, None}
          /\ UNCHANGED <<server, rejecting, faults, gestures>>
        BY <1>9 DEF Acknowledge, Post, Flags
    <2> HIDE DEF c
    <2> QED
        BY <2>2, <2>3, <1>3, PostStep
<1>10. ASSUME NEW kind \in {"reject", "skip", "artifact"}, NEW next \in Sheets \cup {None}, Current # None,
              calls' = calls \cup {Decision(kind, Current.id, next)},
              UNCHANGED <<server, rejecting, faults, ack>>, saving' \subseteq Flags, gestures' \in Nat
       PROVE  Sent'
    <2> DEFINE c == Decision(kind, Current.id, next)
    <2>1. c \in Decisions /\ c.answer = None /\ c.kind # "confirm"
        BY <1>10, CurrentIs, DecisionType DEF Page
    <2> HIDE DEF c
    <2>2. Carries(c)
        BY <2>1 DEF Carries
    <2>3. calls' = calls \cup {c} /\ ack' \in {ack, None}
        BY <1>10 DEF c
    <2> QED
        BY <2>1, <2>2, <2>3, <1>10, PostStep
<1>11. Current # None => NextAfter(Current.id) \in Sheets \cup {None} /\ SkipForward(Current.id) \in Sheets \cup {None}
    BY CurrentIs, NextType DEF Page
<1>12. CASE Reject
    <2>1. CASE Current = None \/ "inFlight" \in saving
        <3>1. rejecting' = FALSE /\ UNCHANGED <<server, ack, calls, saving, gestures, faults>>
            BY <2>1, <1>12 DEF Reject
        <3> QED
            BY <3>1, <1>2, <1>3 DEF DecisionsType
    <2>2. CASE ~(Current = None \/ "inFlight" \in saving)
        <3>1. /\ calls' = calls \cup {Decision("reject", Current.id, NextAfter(Current.id))}
              /\ saving' \subseteq Flags /\ UNCHANGED <<server, rejecting, faults, ack, gestures>>
            BY <2>2, <1>12 DEF Reject, Post, Flags
        <3> QED
            BY <3>1, <2>2, <1>3, <1>10, <1>11
    <2> QED
        BY <2>1, <2>2
<1>13. CASE Skip
    <2>1. /\ calls' = calls \cup {Decision("skip", Current.id, SkipForward(Current.id))} /\ Current # None
          /\ saving' \subseteq Flags /\ UNCHANGED <<server, rejecting, faults, ack>> /\ gestures' \in Nat
        BY <1>13, <1>3, <1>4 DEF Skip, Free, Clickable, DecisionsType, Flags
    <2> QED
        BY <2>1, <1>10, <1>11
<1>14. CASE RetryArtifact
    <2>1. /\ calls' = calls \cup {Decision("artifact", Current.id, None)} /\ Current # None
          /\ UNCHANGED <<server, rejecting, faults, ack, saving>> /\ gestures' \in Nat
        BY <1>14, <1>4 DEF RetryArtifact, Free, Clickable
    <2>2. saving' \subseteq Flags
        BY <2>1, <1>3 DEF DecisionsType
    <2> QED
        BY <2>1, <2>2, <1>10
<1>15. CASE Reads \/ Effects
    <2>1. UNCHANGED <<server, ack, calls, rejecting, saving, gestures>> /\ (Fault \/ UNCHANGED faults)
        BY <1>15 DEF Reads, ServeGet, ReceiveQueue, ReceivePreview, Effects
    <2> QED
        BY <2>1, <1>2, <1>3, <1>4 DEF DecisionsType
<1>16. CASE (\E c \in calls : ServeConfirm(c) \/ ServeReject(c)) \/ Rival
    BY <1>16, DecidingStep
<1>17. CASE \E c \in calls : ServeOther(c) \/ Fail(c)
    <2>1. PICK c \in calls : ServeOther(c) \/ Fail(c)
        BY <1>17
    <2>2. \E a \in {"ok", "error"} : Answer(c, a) /\ (a = "ok" => c.kind \notin {"confirm", "reject"})
        BY <2>1 DEF ServeOther, Fail
    <2>3. UNCHANGED <<server, ack, rejecting, saving, gestures>> /\ (Fault \/ UNCHANGED faults)
        BY <2>1 DEF ServeOther, Fail
    <2>4. Onward /\ ServerType'
        BY <2>3, <1>3 DEF Onward, ServerType, server
    <2> QED
        BY <2>2, <2>3, <2>4, <1>4, ServeStep
<1>18. CASE Receives
    <2>1. PICK c \in calls : ReceiveDecision(c) \/ ReceiveSkip(c) \/ ReceiveArtifact(c)
        BY <1>18 DEF Receives
    <2>2. /\ calls' = calls \ {c} /\ UNCHANGED <<server, ack, gestures, faults>>
          /\ rejecting' \in BOOLEAN /\ saving' \subseteq Flags
        BY <2>1, <1>3 DEF ReceiveDecision, ReceiveSkip, ReceiveArtifact, DecisionsType, Flags
    <2> QED
        BY <2>2, ForgetStep
<1> HIDE DEF Quiet
<1> QED
    BY <1>1, <1>5, <1>6, <1>7, <1>8, <1>9, <1>12, <1>13, <1>14, <1>15, <1>16, <1>17, <1>18
    DEF Next, Operator, Serves

-----------------------------------------------------------------------------
(* Theorems *)

LEMMA IInvIs == IInv <=> Page /\ Sent
<1>1. TypeOK <=> PageType /\ ServerType /\ DecisionsType
    BY DEF TypeOK, PageType, ServerType, DecisionsType, Flags
<1>2. DecisionsCarryTheirSheet <=> (ack # None => Carries(ack)) /\ \A c \in calls : Carries(c)
    BY DEF DecisionsCarryTheirSheet, Carries
<1> QED
    BY <1>1, <1>2 DEF IInv, Page, Sent

LEMMA InitSound == Init => IInv
<1> SUFFICES ASSUME Init
             PROVE  Page /\ Sent
    BY IInvIs
<1>1. PageType
    <2>1. NoWork \in Works
        BY DEF NoWork, Works
    <2>2. range \in Ranges /\ gets = {QueueOf(range, TRUE)} /\ QueueOf(range, TRUE) \in QueueGets
        BY QueueOfType DEF Init
    <2>3. /\ queue = <<>> /\ <<>> \in Seq(QueueItems) /\ route = None /\ loading = TRUE
          /\ work = NoWork /\ due = {}
        BY DEF Init
    <2> QED
        BY ONLY <2>1, <2>2, <2>3 DEF PageType
<1>2. WorkOfCurrent /\ PreviewsOfWork
    BY QueueOfType DEF Init, WorkOfCurrent, PreviewsOfWork, Current, Shown, Holds, NoWork
<1>3. ServerType
    BY ScreenAssumption DEF Init, ServerType, Statuses, Orders
<1>4. DecisionsType /\ DecidedWasDecided
    BY DEF Init, DecisionsType, DecidedWasDecided, Flags
<1> QED
    BY <1>1, <1>2, <1>3, <1>4 DEF Page, Sent, Init

\* The type of every variable, the sheet the draft, the selection and the preview
\* belong to once the effects have run, and what decisions carry, for any queue,
\* users and faults (the effects of useVerifyQueue and VerifyPage).
THEOREM IInvHolds == Spec => []IInv
<1>1. IInv /\ [Next]_vars => IInv'
    <2> SUFFICES ASSUME IInv, [Next]_vars
                 PROVE  IInv'
        OBVIOUS
    <2>1. TypeOK /\ Page /\ Sent
        BY IInvIs DEF IInv
    <2>2. Page' /\ Sent'
        BY <2>1, PageStep, SentStep
    <2>3. TypeOK' /\ DecisionsCarryTheirSheet'
        <3>1. PageType' /\ ServerType' /\ DecisionsType'
            BY <2>2 DEF Page, Sent
        <3>2. TypeOK'
            BY <3>1 DEF TypeOK, PageType, ServerType, DecisionsType, Flags
        <3>3. DecisionsCarryTheirSheet'
            BY <2>2 DEF Sent, DecisionsCarryTheirSheet, Carries
        <3> QED
            BY <3>2, <3>3
    <2> QED
        BY <2>2, <2>3 DEF IInv, Page, Sent
<1> QED
    BY InitSound, <1>1, PTL DEF Spec

\* A confirmation names the prisoner whose order was on the page for its sheet, and
\* takes that sheet's lines unless it was clicked, on an issued sheet, before the
\* draft followed; in whatever order answers arrive (current of VerifyPage).
THEOREM CarriedWhole == Spec => []DecisionsCarryTheirSheet
<1>1. IInv => DecisionsCarryTheirSheet
    BY DEF IInv
<1> QED
    BY <1>1, IInvHolds, PTL

\* Without a new queue from the server the page drops only the sheet of an answer
\* that says it was decided.
LEMMA LeaveStep ==
    ASSUME IInv, [Next]_vars, {g \in gets : g.kind = "queue"} \subseteq gets', NEW s \in Sheets,
           Holds(queue, s), ~Holds(queue', s)
    PROVE  status[s] # "flagged"
<1>1. queue' # queue
    OBVIOUS
<1>2. CASE \E g \in gets : ReceiveQueue(g)
    <2>1. PICK g \in gets : ReceiveQueue(g)
        BY <1>2
    <2>2. g.kind = "queue" /\ g \in gets'
        BY <2>1 DEF ReceiveQueue
    <2>3. \E q : Turn(q, range, route, TRUE, FALSE, gets \ {g})
        BY <2>1 DEF ReceiveQueue
    <2> QED
        BY <2>2, <2>3 DEF Turn
<1>3. CASE \E c \in calls : ReceiveDecision(c)
    <2>1. PICK c \in calls : ReceiveDecision(c)
        BY <1>3
    <2>2. Advance(c) /\ c.answer \in {"ok", "terminal"} /\ c.kind \in {"confirm", "reject"}
        BY <2>1, <1>1 DEF ReceiveDecision, view
    <2>3. queue' = Without(queue, c.sheet)
        BY <2>2 DEF Advance, Turn
    <2>4. s = c.sheet
        BY <2>3, WithoutIs DEF IInv, TypeOK
    <2> QED
        BY <2>2, <2>4 DEF IInv, DecidedWasDecided
<1>4. CASE Navigate \/ ReturnToQueue \/ \E c \in calls : ReceiveSkip(c)
    BY <1>4, <1>1 DEF Navigate, ReturnToQueue, ReceiveSkip, Turn
<1>5. ~(\E g \in gets : ReceiveQueue(g)) /\ ~(\E c \in calls : ReceiveDecision(c) \/ ReceiveSkip(c))
      /\ ~Navigate /\ ~ReturnToQueue => queue' = queue
    BY DEF Next, Operator, Reads, Serves, Receives, vars, view, EditLine, RefreshReference, WriteReason,
        Select, RetryPreview, Confirm, Acknowledge, DeclineReplacement, OpenReject, Reject, CancelReject,
        Skip, RetryArtifact, ServeGet, ReceivePreview, ServeConfirm, ServeReject, ServeOther, Fail,
        Rival, ReceiveArtifact, Effects
<1> QED
    BY <1>1, <1>2, <1>3, <1>4, <1>5

\* The page takes a sheet out of its queue only once the server has decided it (advance).
THEOREM LeaversAreDecided == Spec => OnlyDecidedLeave
<1>1. IInv /\ [Next]_vars =>
          [{g \in gets : g.kind = "queue"} \subseteq gets'
              => \A s \in Sheets : Holds(queue, s) /\ ~Holds(queue', s) => status[s] # "flagged"]_vars
    BY LeaveStep
<1> QED
    BY <1>1, IInvHolds, PTL DEF Spec, OnlyDecidedLeave

-----------------------------------------------------------------------------
(* ScannerRecognition: sifting *)

\* Sifting takes elements of the sequence that are in the set, all of them, and
\* leaves a sequence of such elements as it is.
LEMMA SiftedIs ==
    ASSUME NEW S, NEW seq \in Seq(S), NEW set
    PROVE  /\ Sifted(seq, set) \in Seq(S)
           /\ Len(Sifted(seq, set)) <= Len(seq)
           /\ \A j \in 1..Len(Sifted(seq, set)) : Sifted(seq, set)[j] \in set
           /\ \A j \in 1..Len(Sifted(seq, set)) : \E i \in 1..Len(seq) : Sifted(seq, set)[j] = seq[i]
           /\ (\A i \in 1..Len(seq) : seq[i] \in set) => Sifted(seq, set) = seq
<1> DEFINE kept == CHOOSE f : Keeps(f, seq, set, Len(seq))
<1>1. Keeps(kept, seq, set, Len(seq))
    BY KeepsExists
<1>2. Sifted(seq, set) = kept[Len(seq)]
    BY DEF Sifted, Keeps
<1> HIDE DEF kept
<1> DEFINE Good(n) == /\ kept[n] \in Seq(S) /\ Len(kept[n]) <= n
                      /\ \A j \in 1..Len(kept[n]) : kept[n][j] \in set /\ \E i \in 1..n : kept[n][j] = seq[i]
                      /\ (\A i \in 1..n : seq[i] \in set) => Len(kept[n]) = n /\ \A i \in 1..n : kept[n][i] = seq[i]
           Bad == {n \in 0..Len(seq) : ~Good(n)}
<1>3. ASSUME Bad # {}
      PROVE  FALSE
    <2>0. Bad \subseteq Nat
        OBVIOUS
    <2> HIDE DEF Bad
    <2>1. PICK n \in Bad : \A m \in Bad : n <= m
        BY <1>3, <2>0, LeastOf
    <2> USE DEF Bad
    <2>2. n # 0
        <3>1. kept[0] = <<>>
            BY <1>1 DEF Keeps
        <3>2. Good(0)
            BY <3>1
        <3> QED
            BY <2>1, <3>2
    <2>3. n - 1 \in 0..Len(seq) /\ n - 1 \notin Bad
        BY <2>1, <2>2
    <2>4. Good(n - 1)
        BY <2>3
    <2>5. kept[n] = IF seq[n] \in set THEN Append(kept[n - 1], seq[n]) ELSE kept[n - 1]
        BY <1>1, <2>2 DEF Keeps
    <2>6. seq[n] \in S
        BY <2>2
    <2> DEFINE old == kept[n - 1]
               new == kept[n]
    <2>7. /\ old \in Seq(S) /\ Len(old) <= n - 1
          /\ \A j \in 1..Len(old) : old[j] \in set /\ \E i \in 1..(n - 1) : old[j] = seq[i]
          /\ (\A i \in 1..(n - 1) : seq[i] \in set) => Len(old) = n - 1 /\ \A i \in 1..(n - 1) : old[i] = seq[i]
        BY <2>4
    <2> HIDE DEF old
    <2>8. CASE seq[n] \in set
        <3>1. new = Append(old, seq[n])
            BY <2>5, <2>8 DEF old
        <3> HIDE DEF new
        <3>2. /\ new \in Seq(S) /\ Len(new) = Len(old) + 1 /\ new[Len(new)] = seq[n]
              /\ \A j \in 1..Len(old) : new[j] = old[j]
            BY <3>1, <2>6, <2>7
        <3>3. n \in Nat /\ n > 0 /\ Len(old) \in Nat
            BY <2>1, <2>2, <2>7
        <3>4. \A j \in 1..Len(new) : new[j] \in set /\ \E i \in 1..n : new[j] = seq[i]
            <4> SUFFICES ASSUME NEW j \in 1..Len(new)
                         PROVE  new[j] \in set /\ \E i \in 1..n : new[j] = seq[i]
                OBVIOUS
            <4>1. CASE j = Len(new)
                BY <4>1, <3>2, <3>3, <2>8
            <4>2. CASE j # Len(new)
                <5>1. j \in 1..Len(old) /\ new[j] = old[j]
                    BY <4>2, <3>2, <3>3
                <5>2. PICK i \in 1..(n - 1) : old[j] = seq[i]
                    BY <5>1, <2>7
                <5> QED
                    BY <5>1, <5>2, <2>7, <3>3
            <4> QED
                BY <4>1, <4>2
        <3>5. (\A i \in 1..n : seq[i] \in set) => Len(new) = n /\ \A i \in 1..n : new[i] = seq[i]
            <4> SUFFICES ASSUME \A i \in 1..n : seq[i] \in set
                         PROVE  Len(new) = n /\ \A i \in 1..n : new[i] = seq[i]
                OBVIOUS
            <4>1. Len(old) = n - 1 /\ \A i \in 1..(n - 1) : old[i] = seq[i]
                BY <2>7, <3>3
            <4>2. Len(new) = n
                BY <4>1, <3>2
            <4>3. ASSUME NEW i \in 1..n
                  PROVE  new[i] = seq[i]
                <5>1. CASE i = n
                    BY <5>1, <4>2, <3>2
                <5>2. CASE i # n
                    <6>1. i \in 1..(n - 1) /\ i \in 1..Len(old)
                        BY <5>2, <4>1, <3>3
                    <6> QED
                        BY <6>1, <4>1, <3>2
                <5> QED
                    BY <5>1, <5>2
            <4> QED
                BY <4>2, <4>3
        <3>6. Len(new) <= n
            BY <3>2, <3>3, <2>7
        <3>7. Good(n)
            BY ONLY <3>2, <3>4, <3>5, <3>6, Zenon DEF new
        <3> QED
            BY <3>7, <2>1
    <2>9. CASE seq[n] \notin set
        <3>1. new = old
            BY <2>5, <2>9 DEF old
        <3> HIDE DEF new
        <3>3. n \in Nat /\ n > 0
            BY <2>1, <2>2
        <3>4. \A j \in 1..Len(new) : new[j] \in set /\ \E i \in 1..n : new[j] = seq[i]
            BY <3>1, <2>7, <3>3
        <3>5. (\A i \in 1..n : seq[i] \in set) => FALSE
            BY <3>3, <2>9
        <3>6. Good(n)
            BY <3>1, <3>3, <3>4, <3>5, <2>7 DEF new
        <3> QED
            BY <3>6, <2>1
    <2> QED
        BY <2>8, <2>9
<1>4. Good(Len(seq))
    <2>0. Bad = {}
        BY ONLY <1>3, Zenon
    <2>1. Bad = {} /\ Len(seq) \in 0..Len(seq)
        <3> HIDE DEF Good, Bad
        <3>1. PICK n \in Nat : n = Len(seq)
            OBVIOUS
        <3> QED
            BY <2>0, <3>1
    <2>2. Len(seq) \notin Bad
        BY ONLY <2>1
    <2> HIDE DEF Good
    <2> QED
        BY <2>1, <2>2
<1>5. ASSUME \A i \in 1..Len(seq) : seq[i] \in set
      PROVE  kept[Len(seq)] = seq
    <2> DEFINE k == kept[Len(seq)]
    <2>1. k \in Seq(S) /\ Len(k) = Len(seq) /\ \A i \in 1..Len(seq) : k[i] = seq[i]
        BY <1>4, <1>5
    <2> HIDE DEF k
    <2>2. k = seq
        BY <2>1
    <2> QED
        BY <2>2 DEF k
<1> QED
    BY <1>2, <1>4, <1>5

-----------------------------------------------------------------------------
(* ScannerRecognition: what a page becomes *)

\* A sequence of no elements is the empty one.
LEMMA EmptySeq ==
    ASSUME NEW S, NEW seq \in Seq(S), Len(seq) = 0
    PROVE  seq = <<>>
OBVIOUS

\* The head of a sequence.
LEMMA TruncatedIs ==
    ASSUME NEW S, NEW seq \in Seq(S), NEW n \in Nat
    PROVE  /\ Truncated(seq, n) \in Seq(S)
           /\ Len(Truncated(seq, n)) = Smallest(n, Len(seq))
           /\ \A i \in 1..Len(Truncated(seq, n)) : Truncated(seq, n)[i] = seq[i]
<1>1. Len(seq) \in Nat /\ Smallest(n, Len(seq)) \in 0..Len(seq)
    BY DEF Smallest
<1> DEFINE m == Smallest(n, Len(seq))
<1> HIDE DEF m
<1>2. m \in 0..Len(seq)
    BY <1>1 DEF m
<1>3. /\ SubSeq(seq, 1, m) \in Seq(S) /\ Len(SubSeq(seq, 1, m)) = m
      /\ \A i \in 1..m : SubSeq(seq, 1, m)[i] = seq[i]
    BY <1>2
<1> QED
    BY <1>3 DEF Truncated, m


Digits(value, n) == value \in Seq(Cells) /\ Len(value) = n /\ \A i \in 1..n : value[i] = "digit"

RoomCode(value) ==
    value \in Seq(Cells) /\ Len(value) \in 1..4 /\ \A i \in 1..Len(value) : value[i] \in {"digit", "letter"}

\* An identifier without a warning is the full number of digits.
LEMMA IdIsDigits ==
    ASSUME NEW cells \in Seq(Cells), NEW auto \in BOOLEAN, NEW expected \in Nat \ {0},
           NEW f, f = RecognizeFixedCells(cells, TRUE, expected, auto), ~f.warned
    PROVE  Digits(f.value, expected)
<1>1. PICK used : used = Truncated(cells, expected)
    OBVIOUS
<1>2. PICK values : values = Sifted(used, {"digit", "letter"})
    OBVIOUS
<1>3. PICK asked : asked = ~auto
    OBVIOUS
<1>4. /\ f = Field(values, 100, asked, <<values>>)
      /\ Len(cells) = expected
      /\ \A i \in 1..Len(used) : used[i] = "digit"
    BY <1>1, <1>2, <1>3 DEF RecognizeFixedCells, Field
<1>5. used \in Seq(Cells) /\ Len(used) = Smallest(expected, Len(cells))
    BY <1>1, TruncatedIs
<1>6. Len(used) = expected
    BY <1>4, <1>5 DEF Smallest
<1>7. values = used
    BY <1>2, <1>4, <1>5, SiftedIs
<1>8. f.value = values
    BY ONLY <1>4 DEF Field
<1> QED
    BY <1>4, <1>5, <1>6, <1>7, <1>8 DEF Digits

\* A room without a warning is one to four letters and digits.
LEMMA RoomIsCode ==
    ASSUME NEW cells \in Seq(Cells), NEW auto \in BOOLEAN, NEW expected \in 1..4,
           NEW f, f = RecognizeFixedCells(cells, FALSE, expected, auto), ~f.warned
    PROVE  RoomCode(f.value)
<1>1. PICK used : used = Truncated(cells, expected)
    OBVIOUS
<1>2. PICK values : values = Sifted(used, {"digit", "letter"})
    OBVIOUS
<1>3. PICK asked : asked = ~auto
    OBVIOUS
<1>4. f = Field(values, 100, asked, <<values>>) /\ values # <<>>
    BY <1>1, <1>2, <1>3 DEF RecognizeFixedCells, Field
<1>5. used \in Seq(Cells) /\ Len(used) = Smallest(expected, Len(cells))
    BY <1>1, TruncatedIs
<1>6. values \in Seq(Cells) /\ Len(values) <= Len(used) /\ \A i \in 1..Len(values) : values[i] \in {"digit", "letter"}
    BY <1>2, <1>5, SiftedIs
<1>7. Len(used) <= 4
    BY <1>5 DEF Smallest
<1>8. Len(values) # 0
    BY <1>4, <1>6, EmptySeq
<1>9. Len(values) \in 1..4
    <2>1. PICK m : m = Len(values)
        OBVIOUS
    <2>2. PICK n : n = Len(used)
        OBVIOUS
    <2>3. m \in Nat /\ n \in Nat /\ m <= n /\ n <= 4 /\ m # 0
        BY <1>5, <1>6, <1>7, <1>8, <2>1, <2>2
    <2>4. m \in 1..4
        BY <2>3
    <2> QED
        BY <2>1, <2>4
<1>10. f.value = values
    BY ONLY <1>4 DEF Field
<1> QED
    BY <1>6, <1>9, <1>10 DEF RoomCode

\* Fields have the parts of a field.
IsField(f) == f = Field(f.value, f.confidence, f.warned, f.candidates)

\* What was read of a row: of a row that is there, a half without a warning has a value.
Evidence(e) ==
    /\ IsField(e.item) /\ IsField(e.quantity)
    /\ e.quantity.value \in 1..QuantityMax \cup {Nothing}
    /\ e.blank = "present" => /\ ~e.item.warned => e.item.value # Nothing
                              /\ ~e.quantity.warned => e.quantity.value # Nothing

LEMMA RowEvidenceIs ==
    ASSUME RecognitionAssumption, ReviewAssumption, NEW row \in RowReadings, NEW auto \in BOOLEAN
    PROVE  Evidence(RowEvidence(row, auto))
<1>1. IsField(UnavailableField) /\ UnavailableField.value = Nothing /\ UnavailableField.warned
    BY DEF IsField, UnavailableField, Field
<1>2. IsField(Field(Nothing, 0, FALSE, <<>>)) /\ Field(Nothing, 0, FALSE, <<>>).value = Nothing
    BY DEF IsField, Field
<1>3. IsField(RecognizeItem(row.item, auto))
    BY DEF IsField, RecognizeItem, Field
<1>4. ~RecognizeItem(row.item, auto).warned => RecognizeItem(row.item, auto).value # Nothing
    BY DEF RecognizeItem, Field
<1> DEFINE q == RecognizeQuantity(row.quantity, auto)
<1>5. /\ IsField(q) /\ q.value \in 1..QuantityMax \cup {Nothing}
      /\ ~q.warned => q.value # Nothing
    <2> DEFINE hypotheses == Truncated(row.quantity, CandidateLimit)
               legible == Sifted(hypotheses, {h \in Range(hypotheses) : h.kind # "blank"})
               candidates == [i \in 1..Len(legible) |-> AsText(legible[i])]
    <2>1. \/ q = UnavailableField
          \/ /\ q = Field(hypotheses[1].n, hypotheses[1].confidence, ~auto, candidates)
             /\ hypotheses[1].n \in 1..QuantityMax
          \/ q = Field(Nothing, hypotheses[1].confidence, TRUE, candidates)
        BY DEF RecognizeQuantity
    <2> HIDE DEF candidates, hypotheses, q
    <2>2. QuantityMax \in Nat /\ Nothing \notin 1..QuantityMax
        BY DEF RecognitionAssumption, ReviewAssumption
    <2> QED
        BY <1>1, <2>1, <2>2 DEF IsField, Field
<1> HIDE DEF q
<1> DEFINE e == RowEvidence(row, auto)
<1>6. \/ e = [blank |-> "uncertain", item |-> UnavailableField, quantity |-> UnavailableField]
      \/ e = [blank |-> "blank", item |-> Field(Nothing, 0, FALSE, <<>>), quantity |-> Field(Nothing, 0, FALSE, <<>>)]
      \/ e = [blank |-> row.blank, item |-> RecognizeItem(row.item, auto), quantity |-> q]
    BY DEF RowEvidence, q
<1> HIDE DEF e
<1>7. Evidence(e)
    <2>1. CASE e = [blank |-> "uncertain", item |-> UnavailableField, quantity |-> UnavailableField]
        BY <1>1, <2>1 DEF Evidence
    <2>2. CASE e = [blank |-> "blank", item |-> Field(Nothing, 0, FALSE, <<>>), quantity |-> Field(Nothing, 0, FALSE, <<>>)]
        BY <1>2, <2>2 DEF Evidence
    <2>3. CASE e = [blank |-> row.blank, item |-> RecognizeItem(row.item, auto), quantity |-> q]
        BY <1>3, <1>4, <1>5, <2>3 DEF Evidence
    <2> QED
        BY <1>6, <2>1, <2>2, <2>3
<1> QED
    BY <1>7 DEF e

\* A row of the result says what was read of it, and warns of what was warned of.
LEMMA ItemResultIs ==
    ASSUME NEW e, Evidence(e)
    PROVE  /\ ItemResult(e).item.value = e.item.value /\ ItemResult(e).quantity.value = e.quantity.value
           /\ ItemResult(e).uncertain <=> e.blank # "present"
           /\ ~ItemResult(e).item.warned => ~e.item.warned
           /\ ~ItemResult(e).quantity.warned => ~e.quantity.warned
BY DEF ItemResult, Evidence, IsField, Field


\* A validated page keeps what was read of its rows; what it passes as accepted
\* has a prisoner, a room and no warning anywhere.
Passed(v, id, room, S) ==
    /\ v.id = id /\ v.room = room
    /\ \E kept \in Seq(S) : v.items = [i \in 1..Len(kept) |-> ItemResult(kept[i])]
    /\ v.outcome \in {"accepted", "needs_review"}
    /\ v.outcome = "accepted" =>
          /\ ~v.warned /\ ~id.warned /\ ~room.warned /\ id.value # Nothing /\ room.value # Nothing
          /\ \A i \in 1..Len(v.items) : /\ ~v.items[i].uncertain
                                        /\ ~v.items[i].item.warned /\ ~v.items[i].quantity.warned

LEMMA ValidatedIs ==
    ASSUME NEW id, NEW room, NEW S, NEW evidence \in Seq(S), \A e \in S : Evidence(e),
           NEW v, v = ValidatePage(id, room, evidence)
    PROVE  Passed(v, id, room, S)
<1>1. PICK kept : kept = Sifted(evidence, {e \in Range(evidence) : ~(/\ e.blank = "blank" /\ e.item.value = Nothing
                                                                     /\ e.quantity.value = Nothing)})
    OBVIOUS
<1>2. kept \in Seq(S)
    BY <1>1, SiftedIs
<1>3. PICK items : items = [i \in 1..Len(kept) |-> ItemResult(kept[i])]
    OBVIOUS
<1>4. PICK warned \in BOOLEAN : warned = \E i \in 1..Len(items) : items[i].uncertain
    OBVIOUS
<1>5. PICK errors \in BOOLEAN : errors = \/ warned \/ id.warned \/ room.warned
                                         \/ \E i \in 1..Len(items) : items[i].item.warned \/ items[i].quantity.warned
    OBVIOUS
<1>6. PICK outcome : outcome = IF errors \/ id.value = Nothing \/ room.value = Nothing THEN "needs_review" ELSE "accepted"
    OBVIOUS
<1>7. v = [id |-> id, room |-> room, items |-> items, warned |-> warned, outcome |-> outcome]
    BY <1>1, <1>3, <1>4, <1>5, <1>6 DEF ValidatePage
<1>8. v.id = id /\ v.room = room /\ v.items = items /\ v.warned = warned /\ v.outcome = outcome
    BY ONLY <1>7
<1>9. outcome = "accepted" => ~errors /\ id.value # Nothing /\ room.value # Nothing
    BY <1>6
<1> QED
    BY <1>2, <1>3, <1>4, <1>5, <1>6, <1>8, <1>9 DEF Passed

\* What the scanner makes of a page: rows made of evidence, and an accepted page
\* was aligned and leaves nothing to warn of.
Delivered(r, p) ==
    /\ \E S : \E kept \in Seq(S) : /\ \A e \in S : Evidence(e)
                                   /\ r.items = [i \in 1..Len(kept) |-> ItemResult(kept[i])]
    /\ r.outcome \in {"accepted", "needs_review"}
    /\ r.outcome = "accepted" =>
          /\ r.id = RecognizeId(p.id, p.auto) /\ r.room = RecognizeRoom(p.room, p.auto)
          /\ ~r.warned /\ ~r.id.warned /\ ~r.room.warned
          /\ r.id.value # Nothing /\ r.room.value # Nothing
          /\ \A i \in 1..Len(r.items) : ~r.items[i].uncertain /\ ~r.items[i].item.warned /\ ~r.items[i].quantity.warned

\* A row whose crops are missing is a reading like another.
LEMMA RowBlinded ==
    ASSUME NEW B, NEW I, NEW Q, NEW row \in [blank : B, item : I, quantity : Q], NEW b \in B
    PROVE  [row EXCEPT !.blank = b] \in [blank : B, item : I, quantity : Q]
OBVIOUS

\* A function of 1..n is a sequence of its values.
LEMMA SeqOf ==
    ASSUME NEW n \in Nat, NEW S, NEW f, f = [i \in 1..n |-> f[i]], \A i \in 1..n : f[i] \in S
    PROVE  f \in Seq(S)
OBVIOUS

LEMMA ProcessedIs ==
    ASSUME RecognitionAssumption, ReviewAssumption, NEW p \in Pages
    PROVE  Delivered(Processed(p), p)
<1>1. /\ p.rows \in Seq(RowReadings) /\ p.auto \in BOOLEAN /\ p.aligned \in BOOLEAN
    BY DEF ReviewAssumption
<1> DEFINE Blind(row) == IF p.aligned THEN row ELSE [row EXCEPT !.blank = "no_crop"]
<1>2. \A i \in 1..Len(p.rows) : Blind(p.rows[i]) \in RowReadings
    <2>1. \A row \in RowReadings : [row EXCEPT !.blank = "no_crop"] \in RowReadings
        BY RowBlinded, Zenon DEF RowReadings
    <2> QED
        BY <1>1, <2>1
<1>3. PICK evidence : evidence = [i \in 1..Len(p.rows) |-> RowEvidence(Blind(p.rows[i]), p.auto)]
    OBVIOUS
<1>4. PICK S : S = {evidence[i] : i \in 1..Len(p.rows)}
    OBVIOUS
<1>5. evidence \in Seq(S)
    <2>1. PICK n \in Nat : n = Len(p.rows)
        BY <1>1
    <2>2. /\ evidence = [i \in 1..n |-> evidence[i]]
          /\ \A i \in 1..n : evidence[i] \in S
        BY <1>3, <1>4, <2>1
    <2> QED
        BY <2>2, SeqOf
<1>6. \A e \in S : Evidence(e)
    <2> SUFFICES ASSUME NEW i \in 1..Len(p.rows)
                 PROVE  Evidence(evidence[i])
        BY <1>4
    <2>1. PICK row \in RowReadings : row = Blind(p.rows[i])
        BY <1>2
    <2>2. PICK auto \in BOOLEAN : auto = p.auto
        BY <1>1
    <2>3. evidence[i] = RowEvidence(row, auto)
        BY <1>3, <2>1, <2>2
    <2>4. Evidence(RowEvidence(row, auto))
        BY RowEvidenceIs
    <2> QED
        BY <2>3, <2>4
<1>7. PICK id : id = IF p.aligned THEN RecognizeId(p.id, p.auto) ELSE UnavailableField
    OBVIOUS
<1>8. PICK room : room = IF p.aligned THEN RecognizeRoom(p.room, p.auto) ELSE UnavailableField
    OBVIOUS
<1>9. PICK v : v = ValidatePage(id, room, evidence)
    OBVIOUS
<1>10. Passed(v, id, room, S)
    BY <1>5, <1>6, <1>9, ValidatedIs
<1>11. Processed(p) = [v EXCEPT !.warned = @ \/ ~p.aligned]
    BY <1>3, <1>7, <1>8, <1>9 DEF Processed
<1>12. v = [id |-> v.id, room |-> v.room, items |-> v.items, warned |-> v.warned, outcome |-> v.outcome]
    BY <1>9 DEF ValidatePage
<1>13. /\ Processed(p).id = id /\ Processed(p).room = room /\ Processed(p).items = v.items
       /\ Processed(p).outcome = v.outcome /\ (Processed(p).warned <=> v.warned \/ ~p.aligned)
    BY <1>10, <1>11, <1>12 DEF Passed
<1>14. v.outcome = "accepted" => p.aligned
    BY <1>7, <1>10 DEF UnavailableField, Field, Passed
<1>15. \E kept \in Seq(S) : Processed(p).items = [i \in 1..Len(kept) |-> ItemResult(kept[i])]
    BY <1>10, <1>13 DEF Passed
<1>16. Processed(p).outcome = "accepted" =>
          /\ p.aligned /\ ~v.warned /\ ~id.warned /\ ~room.warned /\ id.value # Nothing /\ room.value # Nothing
          /\ \A i \in 1..Len(v.items) : /\ ~v.items[i].uncertain
                                        /\ ~v.items[i].item.warned /\ ~v.items[i].quantity.warned
    BY <1>10, <1>13, <1>14 DEF Passed
<1>17. Processed(p).outcome \in {"accepted", "needs_review"}
    BY <1>10, <1>13 DEF Passed
<1>18. PICK r : r = Processed(p)
    OBVIOUS
<1>19. r.outcome = "accepted" =>
          /\ r.id = RecognizeId(p.id, p.auto) /\ r.room = RecognizeRoom(p.room, p.auto)
          /\ ~r.warned /\ ~r.id.warned /\ ~r.room.warned
          /\ r.id.value # Nothing /\ r.room.value # Nothing
          /\ \A i \in 1..Len(r.items) : ~r.items[i].uncertain /\ ~r.items[i].item.warned /\ ~r.items[i].quantity.warned
    <2> SUFFICES ASSUME r.outcome = "accepted"
                 PROVE  /\ r.id = RecognizeId(p.id, p.auto) /\ r.room = RecognizeRoom(p.room, p.auto)
                        /\ ~r.warned /\ ~r.id.warned /\ ~r.room.warned
                        /\ r.id.value # Nothing /\ r.room.value # Nothing
                        /\ \A i \in 1..Len(r.items) : /\ ~r.items[i].uncertain
                                                      /\ ~r.items[i].item.warned /\ ~r.items[i].quantity.warned
        OBVIOUS
    <2>1. r.id = id /\ r.room = room /\ r.items = v.items /\ (r.warned <=> v.warned \/ ~p.aligned) /\ p.aligned
        BY <1>13, <1>16, <1>18
    <2>2. r.id = RecognizeId(p.id, p.auto) /\ r.room = RecognizeRoom(p.room, p.auto)
        BY <2>1, <1>7, <1>8
    <2>3. /\ ~v.warned /\ ~id.warned /\ ~room.warned /\ id.value # Nothing /\ room.value # Nothing
          /\ \A i \in 1..Len(v.items) : /\ ~v.items[i].uncertain
                                        /\ ~v.items[i].item.warned /\ ~v.items[i].quantity.warned
        BY <1>16, <1>18
    <2> QED
        BY <2>1, <2>2, <2>3
<1> HIDE DEF Blind
<1>20. \E kept \in Seq(S) : r.items = [i \in 1..Len(kept) |-> ItemResult(kept[i])]
    BY <1>15, <1>18
<1>21. r.outcome \in {"accepted", "needs_review"}
    BY <1>17, <1>18
<1>22. \E T : \E kept \in Seq(T) : /\ \A e \in T : Evidence(e)
                                  /\ r.items = [i \in 1..Len(kept) |-> ItemResult(kept[i])]
    BY <1>6, <1>20, SMTT(30)
<1>23. Delivered(r, p)
    BY <1>19, <1>21, <1>22 DEF Delivered
<1> QED
    BY <1>18, <1>23

\* The contract of a result holds for what validate_page passes.
LEMMA ContractKept ==
    ASSUME RecognitionAssumption, ReviewAssumption, NEW p \in Pages
    PROVE  KeepsContract(Processed(p))
<1>1. PICK r : r = Processed(p)
    OBVIOUS
<1> SUFFICES ASSUME r.outcome = "accepted"
             PROVE  KeepsContract(r)
    BY <1>1 DEF KeepsContract
<1>2. /\ r.id = RecognizeId(p.id, p.auto) /\ r.room = RecognizeRoom(p.room, p.auto)
      /\ ~r.warned /\ ~r.id.warned /\ ~r.room.warned /\ r.id.value # Nothing /\ r.room.value # Nothing
      /\ \A i \in 1..Len(r.items) : ~r.items[i].uncertain /\ ~r.items[i].item.warned /\ ~r.items[i].quantity.warned
    BY <1>1, ProcessedIs DEF Delivered
<1>3. p.id \in Seq(Cells) /\ p.room \in Seq(Cells) /\ p.auto \in BOOLEAN
    BY DEF ReviewAssumption
<1>4. IdLength \in Nat \ {0} /\ RoomMaxLength \in 1..4
    BY DEF RecognitionAssumption
<1>5. /\ r.id.value \in Seq(Cells) /\ Len(r.id.value) = IdLength
      /\ \A i \in 1..IdLength : r.id.value[i] = "digit"
    <2>1. PICK cells \in Seq(Cells) : cells = p.id
        BY <1>3
    <2>2. PICK auto \in BOOLEAN : auto = p.auto
        BY <1>3
    <2>3. PICK f : f = r.id
        OBVIOUS
    <2>4. f = RecognizeFixedCells(cells, TRUE, IdLength, auto) /\ ~f.warned
        BY <1>2, <2>1, <2>2, <2>3 DEF RecognizeId
    <2>5. Digits(f.value, IdLength)
        BY <1>4, <2>4, IdIsDigits
    <2> QED
        BY <2>3, <2>5 DEF Digits
<1>6. Range(r.id.value) = {"digit"}
    BY <1>4, <1>5 DEF Range
<1>7. /\ r.room.value \in Seq(Cells) /\ Len(r.room.value) \in 1..4
      /\ \A i \in 1..Len(r.room.value) : r.room.value[i] \in {"digit", "letter"}
    <2>1. PICK cells \in Seq(Cells) : cells = p.room
        BY <1>3
    <2>2. PICK auto \in BOOLEAN : auto = p.auto
        BY <1>3
    <2>3. PICK f : f = r.room
        OBVIOUS
    <2>4. f = RecognizeFixedCells(cells, FALSE, RoomMaxLength, auto) /\ ~f.warned
        BY <1>2, <2>1, <2>2, <2>3 DEF RecognizeRoom
    <2>5. RoomCode(f.value)
        BY <1>4, <2>4, RoomIsCode
    <2> QED
        BY <2>3, <2>5 DEF RoomCode
<1>8. Range(r.room.value) \subseteq {"digit", "letter"}
    BY <1>7 DEF Range
<1>9. \A i \in 1..Len(r.items) : /\ r.items[i].item.value # Nothing
                                 /\ r.items[i].quantity.value # Nothing /\ r.items[i].quantity.value > 0
    <2> SUFFICES ASSUME NEW i \in 1..Len(r.items)
                 PROVE  /\ r.items[i].item.value # Nothing
                        /\ r.items[i].quantity.value # Nothing /\ r.items[i].quantity.value > 0
        OBVIOUS
    <2>1. PICK S : \E kept \in Seq(S) : /\ \A e \in S : Evidence(e)
                                        /\ Processed(p).items = [k \in 1..Len(kept) |-> ItemResult(kept[k])]
        BY ProcessedIs DEF Delivered
    <2>2. PICK kept \in Seq(S) : /\ \A e \in S : Evidence(e)
                                 /\ r.items = [k \in 1..Len(kept) |-> ItemResult(kept[k])]
        BY <1>1, <2>1
    <2>3. i \in 1..Len(kept) /\ r.items[i] = ItemResult(kept[i]) /\ Evidence(kept[i])
        BY <2>2
    <2>4. PICK e : e = kept[i]
        OBVIOUS
    <2>8. Evidence(e) /\ r.items[i] = ItemResult(e)
        BY <2>3, <2>4
    <2>9. ~ItemResult(e).uncertain /\ ~ItemResult(e).item.warned /\ ~ItemResult(e).quantity.warned
        BY <1>2, <2>8
    <2>10. /\ ItemResult(e).item.value = e.item.value /\ ItemResult(e).quantity.value = e.quantity.value
           /\ e.blank = "present" /\ ~e.item.warned /\ ~e.quantity.warned
        BY <2>8, <2>9, ItemResultIs
    <2>5. /\ r.items[i].item.value = e.item.value /\ r.items[i].quantity.value = e.quantity.value
          /\ e.blank = "present" /\ ~e.item.warned /\ ~e.quantity.warned
        BY <2>8, <2>10
    <2>6. e.item.value # Nothing /\ e.quantity.value # Nothing /\ e.quantity.value \in 1..QuantityMax
        BY <2>8, <2>5 DEF Evidence
    <2>7. QuantityMax \in Nat
        BY DEF RecognitionAssumption
    <2> QED
        BY <2>5, <2>6, <2>7
<1> QED
    BY <1>2, <1>5, <1>6, <1>7, <1>8, <1>9 DEF KeepsContract

-----------------------------------------------------------------------------
(* ScannerRecognition: scores *)

\* A set that has 0 and, with every number up to n, the next, has all of 0..n.
LEMMA UpTo ==
    ASSUME NEW n \in Nat, NEW W, 0 \in W, \A i \in 1..n : i - 1 \in W => i \in W
    PROVE  0..n \subseteq W
<1> DEFINE Out == {i \in 0..n : i \notin W}
<1>1. SUFFICES ASSUME Out # {}
               PROVE  FALSE
    OBVIOUS
<1>2. Out \subseteq Nat
    OBVIOUS
<1>3. PICK i \in Out : \A j \in Out : i <= j
    <2> HIDE DEF Out
    <2> QED
        BY <1>1, <1>2, LeastOf
<1>4. i \in 1..n /\ i - 1 \in 0..n /\ ~(i <= i - 1)
    BY <1>3
<1>5. i - 1 \in W
    BY <1>3, <1>4
<1> QED
    BY <1>3, <1>4, <1>5

Unfolds(f, n, first, step) == f[0] = first /\ \A i \in 1..n : f[i] = step[<<i, f[i - 1]>>]

\* A function of the numbers up to n may be given by its first value and by each
\* next one in terms of the one before.
LEMMA Recursion ==
    ASSUME NEW n \in Nat, NEW V, NEW first \in V, NEW step \in [(1..n) \X V -> V]
    PROVE  \E f \in [0..n -> V] : Unfolds(f, n, first, step)
<1> DEFINE Given(m) == \E f \in [0..m -> V] : f[0] = first /\ \A i \in 1..m : f[i] = step[<<i, f[i - 1]>>]
           W == {m \in 0..n : Given(m)}
<1>1. 0 \in W
    <2>1. PICK f : f = [i \in 0..0 |-> first]
        OBVIOUS
    <2>2. f \in [0..0 -> V] /\ f[0] = first
        BY <2>1
    <2>3. Given(0)
        BY <2>2
    <2> QED
        BY <2>3
<1>2. ASSUME NEW m \in 1..n, m - 1 \in W
      PROVE  m \in W
    <2>1. PICK f \in [0..(m - 1) -> V] : f[0] = first /\ \A i \in 1..(m - 1) : f[i] = step[<<i, f[i - 1]>>]
        BY <1>2
    <2>2. PICK next : next = step[<<m, f[m - 1]>>]
        OBVIOUS
    <2>3. next \in V
        BY <2>1, <2>2
    <2>4. PICK g : g = [i \in 0..m |-> IF i = m THEN next ELSE f[i]]
        OBVIOUS
    <2>5. g \in [0..m -> V] /\ g[0] = first /\ g[m] = next
        BY <2>1, <2>3, <2>4
    <2>6. \A i \in 0..(m - 1) : g[i] = f[i]
        BY <2>4
    <2>7. \A i \in 1..m : g[i] = step[<<i, g[i - 1]>>]
        <3> SUFFICES ASSUME NEW i \in 1..m
                     PROVE  g[i] = step[<<i, g[i - 1]>>]
            OBVIOUS
        <3>1. i - 1 \in 0..(m - 1) /\ g[i - 1] = f[i - 1]
            BY <2>6
        <3>2. CASE i = m
            BY <3>1, <3>2, <2>2, <2>5
        <3>3. CASE i # m
            <4>1. i \in 1..(m - 1)
                BY <3>3
            <4> QED
                BY <4>1, <3>1, <2>1, <2>6
        <3> QED
            BY <3>2, <3>3
    <2>8. Given(m)
        BY <2>5, <2>7
    <2> QED
        BY <2>8
<1>3. 0..n \subseteq W
    <2> HIDE DEF W
    <2> QED
        BY <1>1, <1>2, UpTo
<1>4. n \in W
    BY <1>3
<1> QED
    BY <1>4 DEF Unfolds

\* The smaller of two numbers is a number.
LEMMA SmallestIs == ASSUME NEW a \in Nat, NEW b \in Nat PROVE Smallest(a, b) \in Nat
BY DEF Smallest

\* A row of the table of distances has numbers, if the one before has.
LEMMA NextRowIs ==
    ASSUME NEW T, NEW right \in Seq(T), NEW letter, NEW previous \in [0..Len(right) -> Nat]
    PROVE  NextRow(previous, letter, right) \in [0..Len(right) -> Nat]
<1>1. PICK n \in Nat : n = Len(right)
    OBVIOUS
<1> DEFINE Cell(j, left) == Smallest(Smallest(left + 1, previous[j] + 1),
                                     previous[j - 1] + (IF letter = right[j] THEN 0 ELSE 1))
<1>2. ASSUME NEW j \in 1..n, NEW left \in Nat
      PROVE  Cell(j, left) \in Nat
    <2>1. previous[j] \in Nat /\ previous[j - 1] \in Nat
        BY <1>1
    <2>2. left + 1 \in Nat /\ previous[j] + 1 \in Nat /\ previous[j - 1] + (IF letter = right[j] THEN 0 ELSE 1) \in Nat
        BY <2>1
    <2> QED
        BY <2>2, SmallestIs
<1>3. PICK first \in Nat : first = previous[0] + 1
    BY <1>1
<1>4. PICK step : step = [p \in (1..n) \X Nat |-> Cell(p[1], p[2])]
    OBVIOUS
<1> DEFINE IsRow(f) == f = [j \in 0..n |-> IF j = 0 THEN previous[0] + 1 ELSE Cell(j, f[j - 1])]
<1>5. step \in [(1..n) \X Nat -> Nat] /\ \A j \in 1..n, left \in Nat : step[<<j, left>>] = Cell(j, left)
    <2> HIDE DEF Cell
    <2> QED
        BY <1>2, <1>4
<1>6. \E f : IsRow(f)
    <2>1. PICK f \in [0..n -> Nat] : Unfolds(f, n, first, step)
        <3>1. step \in [(1..n) \X Nat -> Nat]
            BY <1>5
        <3> QED
            BY <3>1, Recursion, Zenon
    <2>2. ASSUME NEW j \in 1..n
          PROVE  f[j] = Cell(j, f[j - 1])
        <3> HIDE DEF Cell
        <3>1. f[j - 1] \in Nat /\ f[j] = step[<<j, f[j - 1]>>]
            BY <2>1 DEF Unfolds
        <3> QED
            BY <3>1, <1>5
    <2>3. \A j \in 0..n : f[j] = IF j = 0 THEN previous[0] + 1 ELSE Cell(j, f[j - 1])
        <3> HIDE DEF Cell
        <3> QED
            BY <2>1, <2>2, <1>3 DEF Unfolds
    <2>4. IsRow(f)
        <3> HIDE DEF Cell
        <3> QED
            BY <2>1, <2>3
    <2> QED
        BY <2>4
<1> DEFINE row == CHOOSE f : IsRow(f)
<1>7. IsRow(row)
    <2> HIDE DEF IsRow
    <2> QED
        BY <1>6
<1>8. NextRow(previous, letter, right) = row
    BY <1>1 DEF NextRow
<1> HIDE DEF row
<1> DEFINE W == {j \in 0..n : row[j] \in Nat}
<1>9. 0 \in W
    BY <1>7, <1>3
<1>10. ASSUME NEW j \in 1..n, j - 1 \in W
       PROVE  j \in W
    <2>1. row[j] = Cell(j, row[j - 1]) /\ row[j - 1] \in Nat
        BY <1>7, <1>10
    <2>2. row[j] \in Nat
        <3> HIDE DEF Cell
        <3> QED
            BY <1>2, <2>1
    <2> QED
        BY <2>2
<1>11. 0..n \subseteq W
    <2> HIDE DEF W
    <2> QED
        BY <1>9, <1>10, UpTo
<1>12. row \in [0..n -> Nat]
    <2>1. row = [j \in 0..n |-> row[j]]
        BY <1>7
    <2> QED
        BY <1>11, <2>1
<1> QED
    BY <1>1, <1>8, <1>12

\* A distance is a number.
LEMMA LevenshteinIs ==
    ASSUME NEW T, NEW left \in Seq(T), NEW right \in Seq(T)
    PROVE  Levenshtein(left, right) \in Nat
<1>1. PICK n \in Nat : n = Len(left)
    OBVIOUS
<1>2. PICK m \in Nat : m = Len(right)
    OBVIOUS
<1>3. PICK V : V = [0..m -> Nat]
    OBVIOUS
<1>4. PICK first : first = [j \in 0..m |-> j]
    OBVIOUS
<1>5. first \in V
    BY <1>3, <1>4
<1>6. PICK step : step = [p \in (1..n) \X V |-> NextRow(p[2], left[p[1]], right)]
    OBVIOUS
<1>7. \A i \in 1..n, previous \in V : NextRow(previous, left[i], right) \in V
    BY <1>2, <1>3, NextRowIs
<1>8. step \in [(1..n) \X V -> V] /\ \A i \in 1..n, previous \in V : step[<<i, previous>>] = NextRow(previous, left[i], right)
    BY <1>6, <1>7
<1> DEFINE IsTable(f) == f = [i \in 0..n |-> IF i = 0 THEN first ELSE NextRow(f[i - 1], left[i], right)]
<1>9. \E f : IsTable(f)
    <2>1. PICK f \in [0..n -> V] : Unfolds(f, n, first, step)
        <3>1. step \in [(1..n) \X V -> V]
            BY <1>8
        <3> QED
            BY <3>1, <1>5, Recursion, Zenon
    <2>4. ASSUME NEW i \in 1..n
          PROVE  f[i] = NextRow(f[i - 1], left[i], right)
        <3>1. f[i - 1] \in V /\ f[i] = step[<<i, f[i - 1]>>]
            BY <2>1 DEF Unfolds
        <3> QED
            BY <3>1, <1>8
    <2>2. \A i \in 0..n : f[i] = IF i = 0 THEN first ELSE NextRow(f[i - 1], left[i], right)
        BY <2>1, <2>4 DEF Unfolds
    <2>3. IsTable(f)
        BY <2>1, <2>2
    <2> QED
        BY <2>3
<1> DEFINE table == CHOOSE f : IsTable(f)
<1>10. IsTable(table)
    <2> HIDE DEF IsTable
    <2> QED
        BY <1>9
<1>11. Levenshtein(left, right) = table[n][m]
    BY <1>1, <1>2, <1>4 DEF Levenshtein
<1> HIDE DEF table
<1> DEFINE W == {i \in 0..n : table[i] \in V}
<1>12. 0 \in W
    BY <1>10, <1>5
<1>13. ASSUME NEW i \in 1..n, i - 1 \in W
       PROVE  i \in W
    <2>1. table[i] = NextRow(table[i - 1], left[i], right) /\ table[i - 1] \in V
        BY <1>10, <1>13
    <2> QED
        BY <1>7, <2>1
<1>14. 0..n \subseteq W
    <2> HIDE DEF W
    <2> QED
        BY <1>12, <1>13, UpTo
<1>15. table[n] \in V
    BY <1>14
<1> QED
    BY <1>3, <1>11, <1>15

\* A set of integers that are bounded has a greatest.
LEMMA GreatestIs ==
    ASSUME NEW N, N \subseteq Int, N # {}, NEW bound \in Int, \A n \in N : n <= bound
    PROVE  Max(N) \in N /\ \A n \in N : n <= Max(N)
<1> DEFINE Below == {d \in Nat : bound - d \in N}
<1>1. Below \subseteq Nat /\ Below # {}
    <2>1. PICK n \in N : TRUE
        OBVIOUS
    <2>2. n \in Int /\ n <= bound
        BY <2>1
    <2>3. PICK d \in Nat : bound - d = n
        <3>1. bound - n \in Nat /\ bound - (bound - n) = n
            BY <2>2
        <3> QED
            BY <3>1
    <2>4. d \in Below
        BY <2>1, <2>3
    <2>5. Below \subseteq Nat
        OBVIOUS
    <2> HIDE DEF Below
    <2> QED
        BY <2>4, <2>5
<1>2. PICK d \in Below : \A e \in Below : d <= e
    <2> HIDE DEF Below
    <2> QED
        BY <1>1, LeastOf
<1>3. PICK g \in N : g = bound - d
    BY <1>2
<1>4. ASSUME NEW n \in N
      PROVE  g >= n
    <2>1. n \in Int /\ n <= bound
        OBVIOUS
    <2>2. bound - n \in Nat /\ bound - (bound - n) = n
        BY <2>1
    <2>3. bound - n \in Below
        BY <2>2
    <2>4. d <= bound - n /\ d \in Nat
        BY <1>2, <2>3
    <2> QED
        BY <2>1, <2>4, <1>3
<1>5. Max(N) \in N /\ \A n \in N : Max(N) >= n
    BY <1>4 DEF Max
<1> QED
    BY <1>5

LEMMA GreatestPerCent ==
    ASSUME NEW N, N \subseteq Int, N # {}, \A n \in N : n <= 100
    PROVE  Max(N) \in N /\ \A n \in N : n <= Max(N)
<1>1. PICK bound \in Int : bound = 100
    OBVIOUS
<1>2. \A n \in N : n <= bound
    BY <1>1
<1> QED
    BY <1>2, GreatestIs, Zenon

\* A quotient of what is at most a hundred times the divisor.
LEMMA PerCent ==
    ASSUME NEW d \in Nat \ {0}, NEW a \in Int, a <= d * 100
    PROVE  a \div d \in Int /\ a \div d <= 100
OBVIOUS

LEMMA OfPerCent ==
    ASSUME NEW a \in Int, NEW c \in 0..100, a <= 100
    PROVE  (a * c) \div 100 \in Int /\ (a * c) \div 100 <= 100
<1>1. a * c \in Int /\ a * c <= 100 * 100
    OBVIOUS
<1> QED
    BY <1>1

\* Similarities and scores are at most a hundred.
LEMMA SimilarityIs ==
    ASSUME NEW T, NEW left \in Seq(T), NEW right \in Seq(T)
    PROVE  Similarity(left, right) \in Int /\ Similarity(left, right) <= 100
<1>1. PICK longer \in Nat : longer = Longer(left, right)
    BY DEF Longer
<1>2. PICK distance \in Nat : distance = Levenshtein(left, right)
    BY LevenshteinIs
<1>3. CASE longer = 0
    BY <1>1, <1>3 DEF Similarity
<1>4. CASE longer # 0
    <2>1. PICK a \in Int : a = (longer - distance) * 100 /\ a <= longer * 100
        <3>1. (longer - distance) * 100 \in Int /\ (longer - distance) * 100 <= longer * 100
            OBVIOUS
        <3> QED
            BY <3>1
    <2>2. Similarity(left, right) = a \div longer
        BY <1>1, <1>2, <1>4, <2>1 DEF Similarity
    <2> QED
        BY <1>4, <2>1, <2>2, PerCent
<1> QED
    BY <1>3, <1>4

LEMMA AccentStrippedIs ==
    ASSUME NEW text \in Seq(DOMAIN Unaccented)
    PROVE  AccentStripped(text) \in Seq(Range(Unaccented))
<1>1. PICK n \in Nat : n = Len(text)
    OBVIOUS
<1>2. PICK f : f = AccentStripped(text)
    OBVIOUS
<1>3. f = [i \in 1..n |-> Unaccented[text[i]]]
    BY <1>1, <1>2 DEF AccentStripped
<1>4. \A i \in 1..n : text[i] \in DOMAIN Unaccented
    BY <1>1
<1>5. f = [i \in 1..n |-> f[i]] /\ \A i \in 1..n : f[i] \in Range(Unaccented)
    BY <1>3, <1>4 DEF Range
<1>6. f \in Seq(Range(Unaccented))
    BY <1>5, SeqOf
<1> QED
    BY <1>2, <1>6

LEMMA MatchScoreIs ==
    ASSUME NEW left \in Seq(DOMAIN Unaccented), NEW right \in Seq(DOMAIN Unaccented)
    PROVE  MatchScore(left, right) \in Int /\ MatchScore(left, right) <= 100
<1>1. PICK plain \in Int : plain = Similarity(left, right) /\ plain <= 100
    BY SimilarityIs
<1>2. PICK bare \in Int : bare = Similarity(AccentStripped(left), AccentStripped(right)) /\ bare <= 100
    BY SimilarityIs, AccentStrippedIs
<1>3. PICK less \in Int : less = (bare * 97) \div 100 /\ less <= 100
    BY <1>2, OfPerCent
<1>4. PICK N : N = {plain, less}
    OBVIOUS
<1>5. N \subseteq Int /\ N # {} /\ \A n \in N : n <= 100
    BY <1>1, <1>3, <1>4
<1>6. Max(N) \in N
    BY <1>5, GreatestPerCent
<1>8. Max(N) \in Int /\ Max(N) <= 100
    BY <1>5, <1>6
<1>7. MatchScore(left, right) = IF left = right THEN 100 ELSE Max(N)
    BY <1>1, <1>2, <1>3, <1>4 DEF MatchScore
<1> QED
    BY <1>7, <1>8

\* The readings of an item, as the backend answers them.
ItemReading == [text : Seq(DOMAIN Unaccented), confidence : 0..100]

LEMMA ScoreIs ==
    ASSUME RecognitionAssumption, NEW hypotheses \in Seq(ItemReading), NEW item \in DOMAIN Catalogue
    PROVE  Score(hypotheses, item) \in 0..100
<1> DEFINE N == {0} \cup {(MatchScore(h.text, name) * h.confidence) \div 100 :
                             h \in {g \in Range(hypotheses) : g.text # <<>>}, name \in Catalogue[item]}
<1>1. ASSUME NEW h \in Range(hypotheses), NEW name \in Catalogue[item]
      PROVE  /\ (MatchScore(h.text, name) * h.confidence) \div 100 \in Int
             /\ (MatchScore(h.text, name) * h.confidence) \div 100 <= 100
    <2>1. h \in ItemReading
        BY DEF Range
    <2>2. h.text \in Seq(DOMAIN Unaccented) /\ h.confidence \in 0..100 /\ name \in Seq(DOMAIN Unaccented)
        BY <2>1 DEF ItemReading, RecognitionAssumption
    <2>3. MatchScore(h.text, name) \in Int /\ MatchScore(h.text, name) <= 100
        BY <2>2, MatchScoreIs
    <2> QED
        BY <2>2, <2>3, OfPerCent
<1>2. \A n \in N : n \in Int /\ n <= 100
    BY <1>1
<1>3. N \subseteq Int /\ 0 \in N
    <2>1. 0 \in N
        OBVIOUS
    <2> HIDE DEF N
    <2> QED
        BY <1>2, <2>1
<1>4. Score(hypotheses, item) = Max(N)
    BY DEF Score
<1> HIDE DEF N
<1>5. PICK m : m = Max(N)
    OBVIOUS
<1>6. m \in N /\ 0 <= m
    BY <1>2, <1>3, <1>5, GreatestPerCent
<1>7. m \in Int /\ m <= 100
    BY <1>2, <1>6
<1>8. m \in 0..100
    BY <1>6, <1>7
<1> QED
    BY <1>4, <1>5, <1>8

-----------------------------------------------------------------------------
(* ScannerRecognition: ranking *)

\* Items with their scores.
Entry(e) == e.item \in Nat /\ e.score \in 0..100 /\ e = [item |-> e.item, score |-> e.score]

\* Of some scored items there is a first: the least code of those with the
\* greatest score.
LEMMA LeaderIs ==
    ASSUME NEW S, S # {}, \A e \in S : Entry(e)
    PROVE  Leader(S) \in S /\ \A o \in S : Leader(S).score >= o.score
<1>1. PICK N : N = {e.score : e \in S}
    OBVIOUS
<1>2. N \subseteq Int /\ N # {} /\ \A n \in N : n <= 100
    BY <1>1 DEF Entry
<1>3. PICK top \in N : \A n \in N : n <= top
    BY <1>2, GreatestPerCent
<1>4. PICK C : C = {n \in Nat : \E e \in S : e.item = n /\ e.score = top}
    OBVIOUS
<1>5. C \subseteq Nat /\ C # {}
    BY <1>1, <1>3, <1>4 DEF Entry
<1>6. PICK c \in C : \A n \in C : c <= n
    BY <1>5, LeastOf
<1>7. PICK best \in S : best.item = c /\ best.score = top
    BY <1>4, <1>6
<1>8. ASSUME NEW o \in S \ {best}
      PROVE  best.score > o.score \/ (best.score = o.score /\ best.item < o.item)
    <2>1. /\ Entry(best) /\ Entry(o) /\ o.score <= top
        BY <1>1, <1>3
    <2>2. CASE o.score < top
        BY <2>1, <2>2, <1>7 DEF Entry
    <2>3. CASE o.score = top
        <3>1. o.item \in C
            BY <2>1, <2>3, <1>4 DEF Entry
        <3>2. best.item <= o.item
            BY <3>1, <1>6, <1>7
        <3>3. best.item # o.item
            BY <2>1, <2>3, <1>7 DEF Entry
        <3> QED
            BY <2>1, <2>3, <3>2, <3>3, <1>7 DEF Entry
    <2> QED
        BY <2>1, <2>2, <2>3, <1>7 DEF Entry
<1>9. /\ Leader(S) \in S
      /\ \A o \in S \ {Leader(S)} : \/ Leader(S).score > o.score
                                    \/ Leader(S).score = o.score /\ Leader(S).item < o.item
    BY <1>8 DEF Leader
<1>10. ASSUME NEW o \in S
       PROVE  Leader(S).score >= o.score
    <2>1. Entry(Leader(S)) /\ Entry(o)
        BY <1>9
    <2> QED
        BY <1>9, <2>1 DEF Entry
<1> QED
    BY <1>9, <1>10

\* What is scored is finite, and made of entries.
LEMMA ScoredIs ==
    ASSUME RecognitionAssumption, NEW hypotheses \in Seq(ItemReading)
    PROVE  IsFiniteSet(Scored(hypotheses)) /\ \A e \in Scored(hypotheses) : Entry(e)
<1>1. PICK D : D = {j \in DOMAIN Catalogue : \E h \in Range(hypotheses) : h.text # <<>>}
    OBVIOUS
<1>2. IsFiniteSet(D)
    <2>1. D \subseteq DOMAIN Catalogue
        BY <1>1
    <2> QED
        BY <2>1, FS_Subset DEF RecognitionAssumption
<1>3. PICK S : S = Scored(hypotheses)
    OBVIOUS
<1>4. S = {[item |-> i, score |-> Score(hypotheses, i)] : i \in D}
    BY <1>1, <1>3 DEF Scored
<1>5. PICK g : g = [i \in D |-> [item |-> i, score |-> Score(hypotheses, i)]]
    OBVIOUS
<1>6. g \in Surjection(D, S)
    BY <1>4, <1>5 DEF Surjection
<1>7. IsFiniteSet(S)
    BY <1>2, <1>6, FS_Surjection
<1>8. ASSUME NEW e \in S
      PROVE  Entry(e)
    <2>1. PICK i \in D : e = [item |-> i, score |-> Score(hypotheses, i)]
        BY <1>4
    <2>2. i \in Nat /\ Score(hypotheses, i) \in 0..100
        BY <1>1, ScoreIs DEF RecognitionAssumption
    <2> QED
        BY <2>1, <2>2 DEF Entry
<1> QED
    BY <1>3, <1>7, <1>8

\* A ranking of n entries: its first two are the first, and the first of the rest.
Heads(r, S, n) ==
    /\ Len(r) = n
    /\ n = 0 => Range(r) = {}
    /\ n = 1 => Range(r) = {Leader(S)}
    /\ n >= 1 => r[1] = Leader(S)
    /\ n >= 2 => r[2] = Leader(S \ {Leader(S)})

\* One more entry leaves the first ones.
LEMMA HeadsStay ==
    ASSUME NEW L, NEW r \in Seq(L), NEW S, NEW n \in Nat, Heads(r, S, n), Leader(S \ Range(r)) \in L
    PROVE  Heads(Append(r, Leader(S \ Range(r))), S, n + 1)
<1>1. PICK e \in L : e = Leader(S \ Range(r))
    OBVIOUS
<1>2. PICK q : q = Append(r, e)
    OBVIOUS
<1>3. Len(r) = n
    BY DEF Heads
<1>4. /\ q \in Seq(L) /\ Len(q) = n + 1 /\ q[n + 1] = e
      /\ \A i \in 1..n : q[i] = r[i]
    BY <1>2, <1>3
<1>5. CASE n = 0
    <2>1. e = Leader(S)
        BY <1>1, <1>5 DEF Heads
    <2>2. Range(q) = {e}
        <3>1. DOMAIN q = 1..1
            BY <1>4, <1>5
        <3> QED
            BY <3>1, <1>4, <1>5 DEF Range
    <2> QED
        BY <2>1, <2>2, <1>1, <1>2, <1>4, <1>5 DEF Heads
<1>6. CASE n = 1
    <2>1. e = Leader(S \ {Leader(S)}) /\ r[1] = Leader(S)
        BY <1>1, <1>6 DEF Heads
    <2>2. q[1] = r[1] /\ q[2] = e /\ Len(q) = 2
        BY <1>4, <1>6
    <2>3. Heads(q, S, 2)
        BY <2>1, <2>2 DEF Heads
    <2> QED
        BY <2>3, <1>1, <1>2, <1>6
<1>7. CASE n >= 2
    <2>1. q[1] = r[1] /\ q[2] = r[2]
        BY <1>4, <1>7
    <2>2. r[1] = Leader(S) /\ r[2] = Leader(S \ {Leader(S)})
        BY <1>7 DEF Heads
    <2>3. Heads(q, S, n + 1)
        BY <2>1, <2>2, <1>4, <1>7 DEF Heads
    <2> QED
        BY <2>3, <1>1, <1>2
<1> QED
    BY <1>5, <1>6, <1>7

LEMMA OrderedIs ==
    ASSUME NEW S, IsFiniteSet(S)
    PROVE  Heads(Ordered(S), S, Cardinality(S))
<1>1. PICK n \in Nat : n = Cardinality(S)
    BY FS_CardinalityType
<1>2. PICK L : L = {Leader(X) : X \in SUBSET S}
    OBVIOUS
<1>3. PICK V : V = Seq(L)
    OBVIOUS
<1>4. PICK first : first = <<>>
    OBVIOUS
<1>5. first \in V /\ Heads(first, S, 0)
    BY <1>3, <1>4 DEF Heads, Range
<1>6. ASSUME NEW r \in V
      PROVE  Leader(S \ Range(r)) \in L /\ Append(r, Leader(S \ Range(r))) \in V
    <2>1. S \ Range(r) \in SUBSET S
        OBVIOUS
    <2>2. Leader(S \ Range(r)) \in L
        BY <1>2, <2>1
    <2> QED
        BY <2>2, <1>3
<1>7. PICK step : step = [p \in (1..n) \X V |-> Append(p[2], Leader(S \ Range(p[2])))]
    OBVIOUS
<1>8. step \in [(1..n) \X V -> V] /\ \A i \in 1..n, r \in V : step[<<i, r>>] = Append(r, Leader(S \ Range(r)))
    BY <1>6, <1>7
<1> DEFINE IsOrder(f) == f = [i \in 0..n |-> IF i = 0 THEN first
                                             ELSE LET before == f[i - 1]
                                                  IN  Append(before, Leader(S \ Range(before)))]
<1>9. \E f : IsOrder(f)
    <2>1. PICK f \in [0..n -> V] : Unfolds(f, n, first, step)
        <3>1. step \in [(1..n) \X V -> V]
            BY <1>8
        <3> QED
            BY <3>1, <1>5, Recursion, Zenon
    <2>2. ASSUME NEW i \in 1..n
          PROVE  f[i] = Append(f[i - 1], Leader(S \ Range(f[i - 1])))
        <3>1. f[i - 1] \in V /\ f[i] = step[<<i, f[i - 1]>>]
            BY <2>1 DEF Unfolds
        <3> QED
            BY <3>1, <1>8
    <2>3. ASSUME NEW i \in 0..n
          PROVE  f[i] = IF i = 0 THEN first ELSE Append(f[i - 1], Leader(S \ Range(f[i - 1])))
        <3>1. CASE i = 0
            BY <2>1, <3>1 DEF Unfolds
        <3>2. CASE i \in 1..n
            <4>1. f[i] = Append(f[i - 1], Leader(S \ Range(f[i - 1])))
                BY <2>2, <3>2
            <4>2. i # 0
                BY <3>2
            <4> QED
                BY <4>1, <4>2, Zenon
        <3> QED
            BY <3>1, <3>2
    <2>4. IsOrder(f)
        BY <2>1, <2>3
    <2> QED
        BY <2>4
<1> DEFINE order0 == CHOOSE f : IsOrder(f)
<1>10. IsOrder(order0)
    <2> HIDE DEF IsOrder
    <2> QED
        BY <1>9
<1>11. Ordered(S) = order0[n]
    BY <1>1, <1>4 DEF Ordered
<1> HIDE DEF order0
<1> DEFINE W == {i \in 0..n : order0[i] \in V /\ Heads(order0[i], S, i)}
<1>12. 0 \in W
    BY <1>10, <1>5
<1>13. ASSUME NEW i \in 1..n, i - 1 \in W
       PROVE  i \in W
    <2>1. PICK r \in V : r = order0[i - 1] /\ Heads(r, S, i - 1)
        BY <1>13
    <2>2. order0[i] = Append(r, Leader(S \ Range(r)))
        <3>1. i \in 0..n /\ i # 0
            OBVIOUS
        <3>2. order0[i] = Append(order0[i - 1], Leader(S \ Range(order0[i - 1])))
            BY <1>10, <3>1
        <3> QED
            BY <2>1, <3>2
    <2>3. Leader(S \ Range(r)) \in L /\ Append(r, Leader(S \ Range(r))) \in V
        BY <1>6
    <2>4. PICK k \in Nat : k = i - 1 /\ k + 1 = i
        OBVIOUS
    <2>5. Heads(Append(r, Leader(S \ Range(r))), S, k + 1)
        BY <1>3, <2>1, <2>3, <2>4, HeadsStay
    <2>6. Heads(order0[i], S, i) /\ order0[i] \in V
        BY <2>2, <2>3, <2>4, <2>5
    <2> QED
        BY <2>6
<1>14. 0..n \subseteq W
    <2> HIDE DEF W
    <2> QED
        BY <1>12, <1>13, UpTo
<1>15. Heads(order0[n], S, n)
    BY <1>14
<1> QED
    BY <1>1, <1>11, <1>15

\* Nothing to rank, no ranking.
LEMMA OrderedOfNone ==
    ASSUME NEW S, Cardinality(S) = 0
    PROVE  Ordered(S) = <<>>
<1> DEFINE IsOrder(f) == f = [i \in 0..0 |-> IF i = 0 THEN <<>>
                                             ELSE LET before == f[i - 1]
                                                  IN  Append(before, Leader(S \ Range(before)))]
<1>1. IsOrder([i \in 0..0 |-> <<>>])
    OBVIOUS
<1> DEFINE chosen == CHOOSE f : IsOrder(f)
<1>2. IsOrder(chosen)
    <2> HIDE DEF IsOrder
    <2> QED
        BY <1>1
<1>3. Ordered(S) = chosen[0]
    BY DEF Ordered
<1> HIDE DEF chosen
<1> QED
    BY <1>2, <1>3

\* What the ranking settles on has a score that is enough and leaves every other
\* item behind by the margin.
LEMMA SettledIs ==
    ASSUME RecognitionAssumption, ReviewAssumption, NEW S, IsFiniteSet(S), \A e \in S : Entry(e),
           Settled(Ordered(S)) # Nothing
    PROVE  \E best \in S : /\ best.item = Settled(Ordered(S)) /\ best.score >= MinimumScore
                           /\ \A o \in S \ {best} : best.score - o.score >= MinimumMargin
<1>1. PICK n \in Nat : n = Cardinality(S)
    BY FS_CardinalityType
<1>2. PICK ranking : ranking = Ordered(S)
    OBVIOUS
<1>3. Heads(ranking, S, n)
    BY <1>1, <1>2, OrderedIs
<1>4. PICK next : next = IF Len(ranking) > 1 THEN ranking[2].score ELSE 0
    OBVIOUS
<1>5. /\ ranking # <<>> /\ ranking[1].score >= MinimumScore
      /\ ranking[1].score - next >= MinimumMargin
      /\ Settled(ranking) = ranking[1].item
    BY <1>2, <1>4 DEF Settled
<1>6. S # {}
    <2> SUFFICES ASSUME S = {}
                 PROVE  FALSE
        OBVIOUS
    <2>1. n = 0
        BY <1>1, FS_EmptySet
    <2>2. PICK nobody : nobody = {}
        OBVIOUS
    <2>3. ranking = <<>>
        BY <1>2, <2>1, <1>1, OrderedOfNone
    <2> QED
        BY <1>5, <2>3
<1>7. n # 0 /\ n >= 1
    BY <1>1, <1>6, FS_EmptySet
<1>8. PICK best : best = Leader(S)
    OBVIOUS
<1>9. best \in S /\ Entry(best) /\ ranking[1] = best /\ best.item = Settled(ranking)
    BY <1>3, <1>5, <1>6, <1>7, <1>8, LeaderIs DEF Heads
<1>10. ASSUME NEW o \in S \ {best}
       PROVE  best.score - o.score >= MinimumMargin
    <2>1. PICK T : T = S \ {best}
        OBVIOUS
    <2>2. T # {} /\ \A e \in T : Entry(e)
        BY <2>1
    <2>3. IsFiniteSet(T) /\ Cardinality(T) = n - 1
        BY <1>1, <1>9, <2>1, FS_RemoveElement
    <2>4. Cardinality(T) # 0
        BY <2>2, <2>3, FS_EmptySet
    <2>5. n >= 2
        BY <1>7, <2>3, <2>4
    <2>6. Len(ranking) = n /\ ranking[2] = Leader(T)
        BY <1>3, <1>8, <2>1, <2>5 DEF Heads
    <2>7. next = Leader(T).score
        BY <1>4, <2>5, <2>6
    <2>8. Leader(T) \in T /\ Leader(T).score >= o.score
        BY <2>1, <2>2, LeaderIs
    <2>9. next \in 0..100 /\ next >= o.score /\ o.score \in 0..100
        BY <2>1, <2>2, <2>7, <2>8 DEF Entry
    <2>10. MinimumMargin \in 0..100
        BY DEF RecognitionAssumption
    <2>11. PICK a \in 0..100 : a = best.score
        BY <1>9 DEF Entry
    <2>12. PICK c \in 0..100 : c = o.score
        BY <2>9
    <2>13. a - next >= MinimumMargin /\ next >= c
        BY <1>5, <1>9, <2>9, <2>11, <2>12
    <2>14. a - c >= MinimumMargin
        BY <2>9, <2>10, <2>13
    <2> QED
        BY <2>11, <2>12, <2>14
<1> QED
    BY <1>2, <1>5, <1>9, <1>10

\* No other item is in reach of the one the scanner settles on.
LEMMA NoRival ==
    ASSUME RecognitionAssumption, ReviewAssumption, NEW read \in Seq(ItemReading),
           NEW chosen, chosen = Ranked(read).accepted, chosen # Nothing
    PROVE  /\ Score(read, chosen) >= MinimumScore
           /\ \A rival \in DOMAIN Catalogue \ {chosen} : Score(read, chosen) - Score(read, rival) >= MinimumMargin
<1>1. PICK S : S = Scored(read)
    OBVIOUS
<1>2. IsFiniteSet(S) /\ \A e \in S : Entry(e)
    BY <1>1, ScoredIs
<1>3. chosen = Settled(Ordered(S))
    BY <1>1 DEF Ranked, Rank
<1>4. PICK best \in S : /\ best.item = chosen /\ best.score >= MinimumScore
                        /\ \A o \in S \ {best} : best.score - o.score >= MinimumMargin
    BY <1>2, <1>3, SettledIs
<1>5. PICK D : D = {j \in DOMAIN Catalogue : \E h \in Range(read) : h.text # <<>>}
    OBVIOUS
<1>6. S = {[item |-> i, score |-> Score(read, i)] : i \in D}
    BY <1>1, <1>5 DEF Scored
<1>7. best = [item |-> chosen, score |-> Score(read, chosen)] /\ D = DOMAIN Catalogue
    <2>1. PICK i \in D : best = [item |-> i, score |-> Score(read, i)]
        BY <1>4, <1>6
    <2>2. i = chosen
        BY <1>4, <2>1
    <2>3. D = DOMAIN Catalogue
        BY <1>5, <2>1
    <2> QED
        BY <2>1, <2>2, <2>3
<1>8. ASSUME NEW rival \in DOMAIN Catalogue \ {chosen}
      PROVE  Score(read, chosen) - Score(read, rival) >= MinimumMargin
    <2>1. PICK o : o = [item |-> rival, score |-> Score(read, rival)]
        OBVIOUS
    <2>2. o \in S \ {best} /\ o.score = Score(read, rival)
        BY <1>6, <1>7, <2>1
    <2>3. best.score = Score(read, chosen)
        BY <1>7
    <2> QED
        BY <1>4, <2>2, <2>3
<1> QED
    BY <1>4, <1>7, <1>8

-----------------------------------------------------------------------------
(* ScannerReview: the invariant *)

\* The rows of a result, one by one.
LEMMA RowIs ==
    ASSUME ResultTypeOK
    PROVE  /\ Len(result.rows) \in Nat
           /\ \A i \in 1..Len(result.rows) : result.rows[i] \in Rows(result)
           /\ \A row \in Rows(result) : \E i \in 1..Len(result.rows) : row = result.rows[i]
           /\ \A row \in Rows(result) : row.value \in Int \cup {Nothing}
BY DEF ResultTypeOK, Rows

\* The result is one of the contract, or one the scanner made of a page.
LEMMA InitResultTypeOK ==
    ASSUME RecognitionAssumption, ReviewAssumption, ReviewInit
    PROVE  ResultTypeOK
<1>1. CASE page = Nothing /\ result \in Results
    <2>1. PICK n \in 0..MaxRows : result.rows \in [1..n -> RowShapes]
        BY <1>1 DEF Results
    <2>2. n \in Nat /\ Len(result.rows) = n
        BY <2>1 DEF ReviewAssumption
    <2>3. Rows(result) \subseteq RowShapes /\ \A i \in 1..n : result.rows[i] \in Rows(result)
        BY <2>1, <2>2 DEF Rows
    <2>4. result.rows \in Seq(Rows(result))
        BY <2>1, <2>2, <2>3
    <2>5. \A row \in Rows(result) : row.value \in Int \cup {Nothing}
        BY <2>3 DEF ReviewAssumption
    <2>6. result.evidence \in {"complete", "pending", "fault"}
        BY <1>1 DEF Results
    <2> QED
        BY <1>1, <2>4, <2>5, <2>6 DEF ResultTypeOK
<1>2. CASE page \in Pages /\ result \in ScannedResults(page)
    <2>1. PICK r : r = Processed(page)
        OBVIOUS
    <2>2. result.rows = [i \in 1..Len(r.items) |-> ScannedRow(r.items[i])] /\ result.evidence = "complete"
        BY <1>2, <2>1 DEF ScannedResults
    <2>3. Delivered(r, page)
        BY <1>2, <2>1, ProcessedIs
    <2>14. PICK S : \E kept \in Seq(S) : /\ \A e \in S : Evidence(e)
                                         /\ r.items = [i \in 1..Len(kept) |-> ItemResult(kept[i])]
        BY <2>3 DEF Delivered
    <2>4. PICK kept \in Seq(S) : /\ \A e \in S : Evidence(e)
                                 /\ r.items = [i \in 1..Len(kept) |-> ItemResult(kept[i])]
        BY <2>14
    <2>5. PICK n \in Nat : n = Len(kept)
        BY <2>4
    <2>6. r.items = [i \in 1..n |-> ItemResult(kept[i])]
        BY <2>4, <2>5
    <2>7. Len(r.items) = n
        BY <2>6
    <2>8. result.rows = [i \in 1..n |-> ScannedRow(ItemResult(kept[i]))]
        BY <2>2, <2>6, <2>7
    <2>9. Len(result.rows) = n
        BY <2>8
    <2>10. \A i \in 1..n : result.rows[i] \in Rows(result)
        BY <2>9 DEF Rows
    <2>11. result.rows \in Seq(Rows(result))
        <3>1. PICK f : f = result.rows
            OBVIOUS
        <3>2. f = [i \in 1..n |-> f[i]] /\ \A i \in 1..n : f[i] \in Rows(result)
            BY <2>8, <2>10, <3>1
        <3>3. f \in Seq(Rows(result))
            BY <3>2, SeqOf
        <3> QED
            BY <3>1, <3>3
    <2>12. \A i \in 1..n : result.rows[i].value \in Int \cup {Nothing}
        <3> SUFFICES ASSUME NEW i \in 1..n
                     PROVE  result.rows[i].value \in Int \cup {Nothing}
            OBVIOUS
        <3>1. PICK e : e = kept[i]
            OBVIOUS
        <3>2. Evidence(e)
            BY <2>4, <2>5, <3>1
        <3>3. result.rows[i].value = ItemResult(e).quantity.value
            BY <2>8, <3>1 DEF ScannedRow
        <3>4. result.rows[i].value \in 1..QuantityMax \cup {Nothing} /\ QuantityMax \in Nat
            BY <3>2, <3>3, ItemResultIs DEF Evidence, RecognitionAssumption
        <3> QED
            BY <3>4
    <2>13. \A row \in Rows(result) : row.value \in Int \cup {Nothing}
        BY <2>9, <2>12 DEF Rows
    <2> QED
        BY <1>2, <2>2, <2>11, <2>13 DEF ResultTypeOK
<1> QED
    BY <1>1, <1>2 DEF ReviewInit

\* The type of a result is that of the result alone.
LEMMA ResultTypeStays ==
    ASSUME ResultTypeOK, page' = page, result' = result
    PROVE  ResultTypeOK'
<1>1. Rows(result)' = Rows(result) /\ result'.rows = result.rows /\ result'.evidence = result.evidence
    BY DEF Rows
<1>2. \A row \in Rows(result)' : row.value \in Int \cup {Nothing}
    BY <1>1 DEF ResultTypeOK
<1> QED
    BY <1>1, <1>2 DEF ResultTypeOK

\* Nothing changes the result or its page, and nothing happens to a confirmed one.
LEMMA ResultStays ==
    ASSUME ReviewNext
    PROVE  page' = page /\ result' = result /\ order = Nothing
BY DEF ReviewNext, SetLineCode, SetLineQty, Edit, RemoveLine, AddLine, SelectIdentity, GiveReason, EditMenu,
       Reload, ConfirmReview

\* An operation on the draft marks it, and a new queue builds it anew.
LEMMA DraftStays ==
    ASSUME ReviewNext
    PROVE  touched' \/ (~touched' /\ lines' = BuildDraft(result)) \/ (lines' = lines /\ touched' = touched)
BY DEF ReviewNext, SetLineCode, SetLineQty, Edit, RemoveLine, AddLine, SelectIdentity, GiveReason, EditMenu,
       Reload, ConfirmReview

\* The invariant is inductive.
LEMMA ReviewInvariantHolds ==
    ASSUME RecognitionAssumption, ReviewAssumption
    PROVE  ReviewSpec => []ReviewInvariant
<1>1. ReviewInit => ReviewInvariant
    BY InitResultTypeOK DEF ReviewInit, ReviewInvariant, DraftAsBuilt
<1>2. ReviewInvariant /\ [ReviewNext]_reviewVars => ReviewInvariant'
    <2> SUFFICES ASSUME ReviewInvariant, [ReviewNext]_reviewVars
                 PROVE  ReviewInvariant'
        OBVIOUS
    <2>1. CASE UNCHANGED reviewVars
        <3>1. /\ page' = page /\ result' = result /\ menu' = menu
              /\ lines' = lines /\ touched' = touched /\ order' = order
            BY <2>1 DEF reviewVars
        <3>2. ResultTypeOK'
            BY <3>1, ResultTypeStays DEF ReviewInvariant
        <3>3. DraftAsBuilt'
            BY <3>1 DEF ReviewInvariant, DraftAsBuilt
        <3> QED
            BY <3>2, <3>3 DEF ReviewInvariant
    <2>2. CASE ReviewNext
        <3>1. page' = page /\ result' = result
            BY <2>2, ResultStays
        <3>2. ResultTypeOK'
            BY <3>1, ResultTypeStays DEF ReviewInvariant
        <3>3. DraftAsBuilt'
            BY <2>2, <3>1, DraftStays DEF ReviewInvariant, DraftAsBuilt
        <3> QED
            BY <3>2, <3>3 DEF ReviewInvariant
    <2> QED
        BY <2>1, <2>2
<1> QED
    BY <1>1, <1>2, PTL DEF ReviewSpec

\* The page asks for a reason wherever the server wants one.
LEMMA ReasonIsAsked == ASSUME ReviewAssumption PROVE ReasonAskedWhenNeeded
<1> SUFFICES ASSUME seen = menu, NeedsReason(menu, result, pick)
             PROVE  ReasonKind # Nothing
    BY DEF ReasonAskedWhenNeeded
<1>1. CASE pick # "exact" \/ RequiresIdentityReason(result)
    BY <1>1 DEF ReasonKind, ReviewAssumption
<1>2. CASE ~(pick # "exact" \/ RequiresIdentityReason(result))
    <2>1. Drift(seen, result) \/ \E row \in Rows(result) : RowBlocked(seen, row)
        BY <1>2 DEF NeedsReason, DoubtfulRow, RowBlocked
    <2> QED
        BY <1>2, <2>1 DEF ReasonKind, ReviewAssumption
<1> QED
    BY <1>1, <1>2

\* What is graded ready passes every check of the server as it stands.
LEMMA ReadyIsAccepted == ASSUME ReviewAssumption, ReviewInvariant PROVE ReadyIsConfirmable
<1> SUFFICES ASSUME ReviewState(menu, result) = "ready", ~touched,
                    \A row \in Rows(result) : row.value <= MaxQuantity
             PROVE  Accepts(menu, result, "exact", Payload, FALSE)
    BY DEF ReadyIsConfirmable
<1>1. /\ ~RequiresIdentityReason(result) /\ ~Drift(menu, result) /\ result.rows # <<>>
      /\ \A row \in Rows(result) : ~RowBlocked(menu, row)
    BY DEF ReviewState, ReviewInvariant, ResultTypeOK
<1>2. \A row \in Rows(result) : /\ Active(menu, row.direct) /\ ~row.itemWarned /\ row.itemCandidates = <<>>
                                /\ row.value \in 1..MaxQuantity /\ ~row.valueWarned /\ row.values = {}
    BY <1>1, RowIs DEF RowBlocked, ReviewInvariant, ReviewAssumption
<1>3. PICK n \in Nat : n = Len(result.rows)
    BY RowIs DEF ReviewInvariant
<1>4. n > 0
    <2>1. result.rows \in Seq(Rows(result))
        BY DEF ReviewInvariant, ResultTypeOK
    <2>2. n # 0
        BY <1>1, <1>3, <2>1, EmptySeq
    <2> QED
        BY <2>2
<1>5. lines = [i \in 1..n |-> BuildLine(result.rows[i])]
    BY <1>3 DEF ReviewInvariant, DraftAsBuilt, BuildDraft
<1>6. \A i \in 1..n : /\ lines[i].code = result.rows[i].direct /\ lines[i].quantity = result.rows[i].value
                      /\ Resolved(lines[i])
    <2> SUFFICES ASSUME NEW i \in 1..n
                 PROVE  /\ lines[i].code = result.rows[i].direct /\ lines[i].quantity = result.rows[i].value
                        /\ Resolved(lines[i])
        OBVIOUS
    <2>1. PICK row : row = result.rows[i]
        OBVIOUS
    <2>2. row \in Rows(result)
        BY <1>3, <2>1 DEF Rows
    <2>3. lines[i] = BuildLine(row)
        BY <1>5, <2>1
    <2>4. row.value # Nothing
        BY <1>2, <2>2 DEF ReviewAssumption
    <2>5. BuildLine(row).code = row.direct /\ BuildLine(row).quantity = row.value
        BY <1>2, <2>2, <2>4 DEF BuildLine, CodeOf
    <2> QED
        BY <1>2, <2>1, <2>2, <2>3, <2>5 DEF Resolved, Active
<1>7. lines \in Seq(Range(lines)) /\ Len(lines) = n
    <2>1. PICK f : f = lines
        OBVIOUS
    <2>2. f = [i \in 1..n |-> f[i]] /\ DOMAIN f = 1..n
        BY <1>5, <2>1
    <2>3. \A i \in 1..n : f[i] \in Range(f)
        BY <2>2 DEF Range
    <2>4. f \in Seq(Range(f)) /\ Len(f) = n
        BY <2>2, <2>3, SeqOf
    <2> QED
        BY <2>1, <2>4
<1>8. Sifted(lines, {line \in Range(lines) : Resolved(line)}) = lines
    <2>1. \A i \in 1..Len(lines) : lines[i] \in {line \in Range(lines) : Resolved(line)}
        BY <1>6, <1>7
    <2> QED
        BY <1>7, <2>1, SiftedIs
<1>9. PICK items : items = Payload
    OBVIOUS
<1>10. items = [i \in 1..n |-> [item |-> lines[i].code, quantity |-> lines[i].quantity]]
    BY <1>7, <1>8, <1>9 DEF Payload
<1>11. Len(items) = n /\ \A i \in 1..n : items[i].item = lines[i].code /\ items[i].quantity = lines[i].quantity
    BY <1>10
<1>12. items # <<>>
    BY <1>4, <1>11
<1>13. \A i \in 1..n : result.rows[i] \in Rows(result)
    BY <1>3 DEF Rows
<1>14. \A i \in 1..n : items[i].quantity \in 1..MaxQuantity
    BY <1>2, <1>6, <1>11, <1>13
<1>15. \A i \in 1..n : items[i].item \in ScannedItems(menu, result)
    <2> SUFFICES ASSUME NEW i \in 1..n
                 PROVE  items[i].item \in ScannedItems(menu, result)
        OBVIOUS
    <2>1. PICK row \in Rows(result) : row = result.rows[i]
        BY <1>13
    <2>2. items[i].item = row.direct /\ Active(menu, row.direct)
        BY <1>2, <1>6, <1>11, <2>1
    <2> QED
        BY <2>2 DEF ScannedItems, Active
<1>16. \A row \in Rows(result) : RowReviewed(menu, items, row)
    BY <1>2 DEF RowReviewed
<1>17. ~NeedsReason(menu, result, "exact")
    BY <1>1, <1>2 DEF NeedsReason, DoubtfulRow
<1>18. Accepts(menu, result, "exact", items, FALSE)
    BY <1>11, <1>12, <1>14, <1>15, <1>16, <1>17 DEF Accepts
<1> QED
    BY <1>9, <1>18

-----------------------------------------------------------------------------
(* ScannerRecognition and ScannerReview: the properties *)

\* What the scanner says of a page keeps its contract, and names no item with a rival.
LEMMA RecognitionIsSound ==
    ASSUME RecognitionAssumption, ReviewAssumption, ResultTypeOK
    PROVE  RecognitionSound
<1>1. ResultsDeliverable
    <2> SUFFICES ASSUME page # Nothing
                 PROVE  KeepsContract(Processed(page))
        BY DEF ResultsDeliverable
    <2>1. page \in Pages
        BY DEF ResultTypeOK
    <2> QED
        BY <2>1, ContractKept
<1>2. ASSUME page # Nothing, NEW k \in 1..Len(page.rows), NEW read,
             read = Truncated(page.rows[k].item, CandidateLimit),
             NEW chosen, chosen = RecognizeItem(page.rows[k].item, TRUE).value, chosen # Nothing
      PROVE  /\ Score(read, chosen) >= MinimumScore
             /\ \A rival \in DOMAIN Catalogue \ {chosen} :
                   Score(read, chosen) - Score(read, rival) >= MinimumMargin
    <2>1. page \in Pages
        BY <1>2 DEF ResultTypeOK
    <2>2. page.rows \in Seq(RowReadings)
        BY <2>1 DEF ReviewAssumption
    <2>3. page.rows[k] \in RowReadings
        BY <1>2, <2>2
    <2>4. page.rows[k].item \in Seq(ItemReading)
        BY <2>3 DEF RowReadings, ItemReading
    <2>5. CandidateLimit \in Nat
        BY DEF RecognitionAssumption
    <2>6. read \in Seq(ItemReading)
        BY <1>2, <2>4, <2>5, TruncatedIs
    <2>7. PICK readings : readings = page.rows[k].item
        OBVIOUS
    <2>8. chosen = Ranked(read).accepted
        <3>1. RecognizeItem(readings, TRUE).value = Ranked(Truncated(readings, CandidateLimit)).accepted
            BY DEF RecognizeItem, Field
        <3> QED
            BY <1>2, <2>7, <3>1
    <2> QED
        BY <1>2, <2>6, <2>8, NoRival
<1>3. NoRivalInReach
    BY <1>2 DEF NoRivalInReach
<1> QED
    BY <1>1, <1>3 DEF RecognitionSound

\* An operator is never refused for want of a reason the page did not ask for
\* (reviewReasonKind against confirmScanner).
THEOREM ReasonsAreAsked == ReviewSpec => []ReasonAskedWhenNeeded
<1>1. ReviewInvariant => ReasonAskedWhenNeeded
    BY ReasonIsAsked, ReviewAssumption
<1> QED
    BY <1>1, ReviewInvariantHolds, RecognitionAssumption, ReviewAssumption, PTL

\* A result graded ready is accepted as it stands (evaluateScannerReviewState
\* against confirmScanner and assertScannerFieldReview).
THEOREM ReadyIsTaken == ReviewSpec => []ReadyIsConfirmable
<1>1. ReviewInvariant => ReadyIsConfirmable
    BY ReadyIsAccepted, ReviewAssumption
<1> QED
    BY <1>1, ReviewInvariantHolds, RecognitionAssumption, ReviewAssumption, PTL

\* Every page becomes a result its contract lets through, and an item the scanner
\* settles on has no rival in reach (validation.py against contracts.py, and
\* CatalogueIndex.rank).
THEOREM ScannerIsSound == ReviewSpec => []RecognitionSound
<1>1. ReviewInvariant => RecognitionSound
    BY RecognitionIsSound, RecognitionAssumption, ReviewAssumption DEF ReviewInvariant
<1> QED
    BY <1>1, ReviewInvariantHolds, RecognitionAssumption, ReviewAssumption, PTL
=============================================================================
