------------------------ MODULE ScanAdmissionProofs ------------------------
(***************************************************************************)
(* Proofs about ScanAdmission, for any uploads, credentials, checksums and *)
(* limits, and about PrintedForms, for any prisoners, cells, labels, form  *)
(* pages, jobs and limits.                                                 *)
(***************************************************************************)
EXTENDS ScanAdmission, PrintedForms, FiniteSetTheorems, TLAPS, WellFoundedInduction

-----------------------------------------------------------------------------
(* Counting *)

\* A set that differs in one element at most differs in one at most in number.
LEMMA Recount ==
    ASSUME NEW A, IsFiniteSet(A), NEW B, NEW x, \A y : y # x => (y \in A <=> y \in B)
    PROVE  /\ IsFiniteSet(B) /\ Cardinality(A) \in Nat /\ Cardinality(B) \in Nat
           /\ x \notin A /\ x \in B => Cardinality(B) = Cardinality(A) + 1
           /\ x \in A /\ x \notin B => Cardinality(B) = Cardinality(A) - 1
           /\ (x \in A <=> x \in B) => B = A
<1>1. CASE x \notin A /\ x \in B
  <2>1. B = A \cup {x}
      BY <1>1
  <2> QED
      BY <1>1, <2>1, FS_AddElement, FS_CardinalityType
<1>2. CASE x \in A /\ x \notin B
  <2>1. B = A \ {x}
      BY <1>2
  <2> QED
      BY <1>2, <2>1, FS_RemoveElement, FS_CardinalityType
<1>3. CASE x \in A <=> x \in B
  <2>1. B = A
      BY <1>3
  <2> QED
      BY <1>3, <2>1, FS_CardinalityType
<1> QED
    BY <1>1, <1>2, <1>3

\* The sets that are counted are finite.
LEMMA CountsAreNumbers ==
    /\ IsFiniteSet(Waiting) /\ Cardinality(Waiting) \in Nat
    /\ IsFiniteSet(Checking) /\ Cardinality(Checking) \in Nat
    /\ IsFiniteSet(Promised) /\ Cardinality(Promised) \in Nat
    /\ IsFiniteSet(Written) /\ Cardinality(Written) \in Nat
    /\ \A c : IsFiniteSet(ActiveOf(c)) /\ Cardinality(ActiveOf(c)) \in Nat
    /\ Cardinality(Waiting') \in Nat /\ Cardinality(Written') \in Nat
    /\ Cardinality(Promised') \in Nat
<1>1. ASSUME NEW S \in SUBSET Uploads
      PROVE  IsFiniteSet(S) /\ Cardinality(S) \in Nat
    BY FS_Subset, FS_CardinalityType, AdmissionAssumption
<1>2. Waiting \in SUBSET Checksums
    BY DEF Waiting
<1>3. IsFiniteSet(Waiting) /\ Cardinality(Waiting) \in Nat
    BY <1>2, FS_Subset, FS_CardinalityType, AdmissionAssumption
<1>4. /\ Checking \in SUBSET Uploads /\ Promised \in SUBSET Uploads /\ Written \in SUBSET Uploads
      /\ \A c : ActiveOf(c) \in SUBSET Uploads
    BY DEF Checking, Promised, Written, ActiveOf
<1>5. Cardinality(Waiting') \in Nat
  <2>1. Waiting' \in SUBSET Checksums
      BY DEF Waiting
  <2> QED
      BY <2>1, FS_Subset, FS_CardinalityType, AdmissionAssumption
<1>6. Written' \in SUBSET Uploads /\ Promised' \in SUBSET Uploads
    BY DEF Written, Promised
<1> QED
    BY <1>1, <1>3, <1>4, <1>5, <1>6

\* Only upload u moved.
Only(u) == \A v \in Uploads : v # u => up'[v] = up[v]

\* What the move of one upload does to the numbers of uploads at work.
LEMMA UploadsRecount ==
    ASSUME NEW u \in Uploads, Only(u)
    PROVE  /\ up[u].pc \notin {"counting", "counted"} /\ up'[u].pc \in {"counting", "counted"} =>
                 Cardinality(Checking') = Cardinality(Checking) + 1
           /\ up[u].pc \in {"counting", "counted"} /\ up'[u].pc \notin {"counting", "counted"} =>
                 Cardinality(Checking') = Cardinality(Checking) - 1
           /\ (up[u].pc \in {"counting", "counted"} <=> up'[u].pc \in {"counting", "counted"}) =>
                 Checking' = Checking
           /\ up[u].pc \notin {"reserved", "admitted", "saving"}
              /\ up'[u].pc \in {"reserved", "admitted", "saving"} =>
                 Cardinality(Promised') = Cardinality(Promised) + 1
           /\ up[u].pc \in {"reserved", "admitted", "saving"}
              /\ up'[u].pc \notin {"reserved", "admitted", "saving"} =>
                 Cardinality(Promised') = Cardinality(Promised) - 1
           /\ (up[u].pc \in {"reserved", "admitted", "saving"}
               <=> up'[u].pc \in {"reserved", "admitted", "saving"}) => Promised' = Promised
           /\ up[u].pc # "inserted" /\ up'[u].pc = "inserted" =>
                 Cardinality(Written') = Cardinality(Written) + 1
           /\ up[u].pc = "inserted" /\ up'[u].pc # "inserted" =>
                 Cardinality(Written') = Cardinality(Written) - 1
           /\ (up[u].pc = "inserted" <=> up'[u].pc = "inserted") => Written' = Written
<1>1. /\ \A v : v # u => (v \in Checking <=> v \in Checking')
      /\ u \in Checking <=> up[u].pc \in {"counting", "counted"}
      /\ u \in Checking' <=> up'[u].pc \in {"counting", "counted"}
    BY DEF Only, Checking
<1>2. /\ \A v : v # u => (v \in Promised <=> v \in Promised')
      /\ u \in Promised <=> up[u].pc \in {"reserved", "admitted", "saving"}
      /\ u \in Promised' <=> up'[u].pc \in {"reserved", "admitted", "saving"}
    BY DEF Only, Promised
<1>3. /\ \A v : v # u => (v \in Written <=> v \in Written')
      /\ u \in Written <=> up[u].pc = "inserted"
      /\ u \in Written' <=> up'[u].pc = "inserted"
    BY DEF Only, Written
<1>4. IsFiniteSet(Checking) /\ IsFiniteSet(Promised) /\ IsFiniteSet(Written)
    BY CountsAreNumbers
<1>5. /\ u \notin Checking /\ u \in Checking' => Cardinality(Checking') = Cardinality(Checking) + 1
      /\ u \in Checking /\ u \notin Checking' => Cardinality(Checking') = Cardinality(Checking) - 1
      /\ (u \in Checking <=> u \in Checking') => Checking' = Checking
    BY <1>1, <1>4, Recount
<1>6. /\ u \notin Promised /\ u \in Promised' => Cardinality(Promised') = Cardinality(Promised) + 1
      /\ u \in Promised /\ u \notin Promised' => Cardinality(Promised') = Cardinality(Promised) - 1
      /\ (u \in Promised <=> u \in Promised') => Promised' = Promised
    BY <1>2, <1>4, Recount
<1>7. /\ u \notin Written /\ u \in Written' => Cardinality(Written') = Cardinality(Written) + 1
      /\ u \in Written /\ u \notin Written' => Cardinality(Written') = Cardinality(Written) - 1
      /\ (u \in Written <=> u \in Written') => Written' = Written
    BY <1>3, <1>4, Recount
<1> QED
    BY <1>1, <1>2, <1>3, <1>5, <1>6, <1>7

\* And to the number of uploads a credential has active.
LEMMA ActiveRecount ==
    ASSUME NEW u \in Uploads, Only(u), NEW c
    PROVE  /\ u \notin ActiveOf(c) /\ u \in ActiveOf(c)' =>
                 Cardinality(ActiveOf(c)') = Cardinality(ActiveOf(c)) + 1
           /\ u \in ActiveOf(c) /\ u \notin ActiveOf(c)' =>
                 Cardinality(ActiveOf(c)') = Cardinality(ActiveOf(c)) - 1
           /\ (u \in ActiveOf(c) <=> u \in ActiveOf(c)') => ActiveOf(c)' = ActiveOf(c)
           /\ Cardinality(ActiveOf(c)') \in Nat
<1>1. \A v : v # u => (v \in ActiveOf(c) <=> v \in ActiveOf(c)')
    BY DEF Only, ActiveOf
<1>2. IsFiniteSet(ActiveOf(c))
    BY CountsAreNumbers
<1> QED
    BY <1>1, <1>2, Recount

\* A row that is inserted waits; one that is done does not.
LEMMA SheetsRecount ==
    ASSUME NEW k \in Checksums, sheets \in [Checksums -> {None, "pending", "processing", "done"}],
           NEW status, sheets' = [sheets EXCEPT ![k] = status]
    PROVE  /\ sheets[k] = None /\ status = "pending" =>
                 Cardinality(Waiting') = Cardinality(Waiting) + 1
           /\ k \in Waiting => Cardinality(Waiting') <= Cardinality(Waiting)
<1>1. \A i : i # k => (i \in Waiting <=> i \in Waiting')
    BY DEF Waiting
<1>2. /\ k \in Waiting <=> sheets[k] \in {"pending", "processing"}
      /\ k \in Waiting' <=> status \in {"pending", "processing"}
    BY DEF Waiting
<1>3. IsFiniteSet(Waiting) /\ None \notin {"pending", "processing"}
    BY CountsAreNumbers, AdmissionAssumption
<1>4. /\ k \notin Waiting /\ k \in Waiting' => Cardinality(Waiting') = Cardinality(Waiting) + 1
      /\ k \in Waiting /\ k \notin Waiting' => Cardinality(Waiting') = Cardinality(Waiting) - 1
      /\ (k \in Waiting <=> k \in Waiting') => Waiting' = Waiting
      /\ Cardinality(Waiting) \in Nat
    BY <1>1, <1>3, Recount
<1> QED
    BY <1>2, <1>3, <1>4

-----------------------------------------------------------------------------
(* Moves of an upload *)

\* An upload goes on to another step.
LEMMA Advanced ==
    ASSUME up \in [Uploads -> UploadMemories], NEW u \in Uploads,
           NEW pc \in Entering \cup {"idle", "admitted", "saving", "inserted"},
           up' = [up EXCEPT ![u].pc = pc]
    PROVE  /\ up' \in [Uploads -> UploadMemories] /\ Only(u)
           /\ up'[u].pc = pc /\ up'[u].cred = up[u].cred /\ up'[u].sum = up[u].sum
           /\ up'[u].seen = up[u].seen
BY DEF UploadMemories, Only

\* An upload is over.
LEMMA Ended ==
    ASSUME up \in [Uploads -> UploadMemories], NEW u \in Uploads,
           up' = [up EXCEPT ![u] = Idle]
    PROVE  /\ up' \in [Uploads -> UploadMemories] /\ Only(u)
           /\ up'[u].pc = "idle" /\ up'[u].cred = None
BY AdmissionAssumption DEF UploadMemories, Only, Idle

\* Uploads stay known as long as the one that moves does.
LEMMA KnownStep ==
    ASSUME UploadsKnown, NEW u \in Uploads, Only(u),
           up'[u].pc # "idle" => up'[u].cred \in Credentials /\ up'[u].sum \in Checksums
    PROVE  UploadsKnown'
BY DEF UploadsKnown, Only

\* Snapshots stay covered as long as the sheets inserted since stay on the books.
LEMMA SnapshotsStep ==
    ASSUME up \in [Uploads -> UploadMemories], SnapshotsCovered,
           NEW u \in Uploads, Only(u), up'[u].pc # "counted",
           deferred \in Nat, deferred' \in Nat,
           checks = Cardinality(Checking),
           \/ Cardinality(Waiting') - Cardinality(Written') - deferred'
                 <= Cardinality(Waiting) - Cardinality(Written) - deferred
           \/ checks = 1 /\ up[u].pc \in {"counting", "counted"}
    PROVE  SnapshotsCovered'
<1> SUFFICES ASSUME NEW v \in Uploads, up'[v].pc = "counted"
             PROVE  Cardinality(Waiting') <= up'[v].seen + Cardinality(Written') + deferred'
    BY DEF SnapshotsCovered
<1>1. v # u /\ up'[v] = up[v]
    BY DEF Only
<1>2. CASE Cardinality(Waiting') - Cardinality(Written') - deferred'
              <= Cardinality(Waiting) - Cardinality(Written) - deferred
  <2>1. Cardinality(Waiting) <= up[v].seen + Cardinality(Written) + deferred
      BY <1>1 DEF SnapshotsCovered
  <2>2. up[v].seen \in Nat
      BY DEF UploadMemories
  <2> QED
      BY <1>1, <1>2, <2>1, <2>2, CountsAreNumbers
<1>3. CASE checks = 1 /\ up[u].pc \in {"counting", "counted"}
  <2>1. u \in Checking /\ v \in Checking
      BY <1>1, <1>3 DEF Checking
  <2>2. PICK w : Checking = {w}
      BY <1>3, CountsAreNumbers, FS_Singleton
  <2> QED
      BY <1>1, <2>1, <2>2
<1> QED
    BY <1>2, <1>3

-----------------------------------------------------------------------------
(* Chains *)

\* Whoever is past the queue is at the head of its chain, and alone there.
LEMMA HeadOfChain ==
    ASSUME UploadsKnown, ChainServed, chain \in [Credentials -> Seq(Uploads)],
           NEW u \in Uploads, up[u].pc \in {"counting", "counted", "reserved"}
    PROVE  /\ up[u].cred \in Credentials /\ Len(chain[up[u].cred]) \in Nat \ {0}
           /\ chain[up[u].cred][1] = u
<1>1. up[u].cred \in Credentials
    BY DEF UploadsKnown
<1>2. PICK i \in 1..Len(chain[up[u].cred]) : chain[up[u].cred][i] = u
    BY DEF ChainServed
<1>3. i = 1
    BY <1>1, <1>2 DEF ChainServed
<1>4. Len(chain[up[u].cred]) \in Nat
    BY <1>1
<1> QED
    BY <1>1, <1>2, <1>3, <1>4

\* So two uploads of one credential cannot both be past the queue.
LEMMA OneEntersAtATime ==
    ASSUME UploadsKnown, ChainServed, chain \in [Credentials -> Seq(Uploads)],
           NEW u \in Uploads, up[u].pc \in {"counting", "counted", "reserved"},
           NEW v \in Uploads, up[v].pc \in {"counting", "counted", "reserved"},
           up[u].cred = up[v].cred
    PROVE  u = v
BY HeadOfChain

\* An upload moves on at the head of its chain.
LEMMA ChainStays ==
    ASSUME ChainServed, ChainOnce, chain' = chain, chain \in [Credentials -> Seq(Uploads)],
           NEW u \in Uploads, Only(u),
           up[u].cred \in Credentials, up'[u].cred = up[u].cred,
           Len(chain[up[u].cred]) \in Nat \ {0}, chain[up[u].cred][1] = u,
           up'[u].pc \in {"counting", "counted", "reserved"}
    PROVE  ChainServed' /\ ChainOnce'
<1>1. ASSUME NEW c \in Credentials, NEW i \in 1..Len(chain[c])
      PROVE  /\ up'[chain[c][i]].cred = c
             /\ up'[chain[c][i]].pc \in IF i = 1 THEN {"queued", "counting", "counted", "reserved"}
                                                ELSE {"queued"}
  <2>1. /\ up[chain[c][i]].cred = c
        /\ up[chain[c][i]].pc \in IF i = 1 THEN {"queued", "counting", "counted", "reserved"}
                                           ELSE {"queued"}
      BY DEF ChainServed
  <2>2. chain[c][i] \in Uploads
      OBVIOUS
  <2>3. CASE chain[c][i] = u
    <3>1. c = up[u].cred
        BY <2>1, <2>3
    <3>2. 1 \in 1..Len(chain[c])
        BY <3>1
    <3>3. i = 1
        BY <2>3, <3>1, <3>2 DEF ChainOnce
    <3> QED
        BY <2>3, <3>1, <3>3
  <2>4. CASE chain[c][i] # u
      BY <2>1, <2>2, <2>4 DEF Only
  <2> QED
      BY <2>3, <2>4
<1>2. ASSUME NEW v \in Uploads, up'[v].pc \in {"queued", "counting", "counted", "reserved"}
      PROVE  \E i \in 1..Len(chain[up'[v].cred]) : chain[up'[v].cred][i] = v
  <2>1. CASE v = u
    <3>1. 1 \in 1..Len(chain[up'[v].cred]) /\ chain[up'[v].cred][1] = v
        BY <2>1
    <3> QED
        BY <3>1
  <2>2. CASE v # u
      BY <1>2, <2>2 DEF Only, ChainServed
  <2> QED
      BY <2>1, <2>2
<1> QED
    BY <1>1, <1>2 DEF ChainServed, ChainOnce

\* Uploads that are not inside enter are in no chain.
LEMMA ChainUntouched ==
    ASSUME ChainServed, ChainOnce, chain' = chain, chain \in [Credentials -> Seq(Uploads)],
           NEW u \in Uploads, Only(u), up[u].pc \notin Entering, up'[u].pc \notin Entering
    PROVE  ChainServed' /\ ChainOnce'
<1>1. ASSUME NEW c \in Credentials, NEW i \in 1..Len(chain[c])
      PROVE  up'[chain[c][i]] = up[chain[c][i]]
  <2>1. chain[c][i] \in Uploads
      OBVIOUS
  <2>2. up[chain[c][i]].pc \in Entering
      BY DEF ChainServed, Entering
  <2> QED
      BY <2>1, <2>2 DEF Only
<1>2. ASSUME NEW v \in Uploads, up'[v].pc \in {"queued", "counting", "counted", "reserved"}
      PROVE  up'[v] = up[v]
    BY <1>2 DEF Only, Entering
<1> QED
    BY <1>1, <1>2 DEF ChainServed, ChainOnce

\* An upload leaves enter and lets the next one of its chain in.
LEMMA ChainPops ==
    ASSUME ChainServed, ChainOnce, chain \in [Credentials -> Seq(Uploads)],
           NEW u \in Uploads, Only(u), up[u].cred \in Credentials,
           Len(chain[up[u].cred]) \in Nat \ {0}, chain[up[u].cred][1] = u,
           up'[u].pc \notin Entering,
           chain' = [chain EXCEPT ![up[u].cred] = Tail(@)]
    PROVE  ChainServed' /\ ChainOnce' /\ chain' \in [Credentials -> Seq(Uploads)]
<1> DEFINE d == up[u].cred
<1> HIDE DEF d
<1>0. /\ d \in Credentials /\ Len(chain[d]) \in Nat \ {0} /\ chain[d][1] = u
      /\ d = up[u].cred
    BY DEF d
<1>1. /\ chain'[d] \in Seq(Uploads) /\ Len(chain'[d]) = Len(chain[d]) - 1
      /\ \A i \in 1..Len(chain'[d]) : chain'[d][i] = chain[d][i + 1]
  <2>1. chain[d] \in Seq(Uploads) /\ chain[d] # << >>
      BY <1>0
  <2>2. chain'[d] = Tail(chain[d])
      BY <1>0
  <2> QED
      BY <1>0, <2>1, <2>2
<1>2. \A c \in Credentials : c # d => chain'[c] = chain[c]
    BY <1>0
<1>3. chain' \in [Credentials -> Seq(Uploads)]
    BY <1>0, <1>1
<1>4. ASSUME NEW c \in Credentials, NEW i \in 1..Len(chain'[c])
      PROVE  /\ up'[chain'[c][i]].cred = c
             /\ up'[chain'[c][i]].pc \in IF i = 1 THEN {"queued", "counting", "counted", "reserved"}
                                                  ELSE {"queued"}
  <2>1. CASE c = d
    <3>1. i + 1 \in 1..Len(chain[d]) /\ chain'[c][i] = chain[d][i + 1] /\ i + 1 # 1
          /\ 1 \in 1..Len(chain[d])
        BY <1>0, <1>1, <2>1
    <3>2. chain[d][i + 1] # u
        BY <1>0, <3>1 DEF ChainOnce
    <3>3. up[chain[d][i + 1]].cred = d /\ up[chain[d][i + 1]].pc = "queued"
        BY <1>0, <3>1 DEF ChainServed
    <3>4. chain[d][i + 1] \in Uploads
        BY <1>0, <3>1
    <3> QED
        BY <2>1, <3>1, <3>2, <3>3, <3>4 DEF Only
  <2>2. CASE c # d
    <3>1. /\ chain'[c] = chain[c] /\ i \in 1..Len(chain[c]) /\ chain[c][i] \in Uploads
          /\ up[chain[c][i]].cred = c
          /\ up[chain[c][i]].pc \in IF i = 1 THEN {"queued", "counting", "counted", "reserved"}
                                             ELSE {"queued"}
        BY <1>2, <2>2 DEF ChainServed
    <3>2. chain[c][i] # u
        BY <1>0, <2>2, <3>1
    <3> QED
        BY <3>1, <3>2 DEF Only
  <2> QED
      BY <2>1, <2>2
<1>5. ASSUME NEW v \in Uploads, up'[v].pc \in {"queued", "counting", "counted", "reserved"}
      PROVE  \E i \in 1..Len(chain'[up'[v].cred]) : chain'[up'[v].cred][i] = v
  <2>1. v # u /\ up'[v] = up[v]
      BY <1>5 DEF Only, Entering
  <2>2. PICK i \in 1..Len(chain[up[v].cred]) : chain[up[v].cred][i] = v
      BY <1>5, <2>1 DEF ChainServed
  <2>3. CASE up[v].cred = d
    <3>1. i # 1
        BY <1>0, <2>1, <2>2, <2>3
    <3>2. i - 1 \in 1..Len(chain'[d]) /\ chain'[d][i - 1] = chain[d][(i - 1) + 1]
        BY <1>0, <1>1, <2>2, <2>3, <3>1
    <3>3. chain'[d][i - 1] = v
        BY <2>2, <2>3, <3>2
    <3> QED
        BY <2>1, <2>3, <3>2, <3>3
  <2>4. CASE up[v].cred # d
    <3>1. chain'[up[v].cred] = chain[up[v].cred]
        BY <2>4 DEF d
    <3> QED
        BY <2>1, <2>2, <3>1
  <2> QED
      BY <2>3, <2>4
<1>6. ASSUME NEW c \in Credentials, NEW i \in 1..Len(chain'[c]), NEW k \in 1..Len(chain'[c]),
             chain'[c][i] = chain'[c][k]
      PROVE  i = k
  <2>1. CASE c = d
    <3>1. /\ i + 1 \in 1..Len(chain[d]) /\ k + 1 \in 1..Len(chain[d])
          /\ chain[d][i + 1] = chain[d][k + 1]
        BY <1>0, <1>1, <1>6, <2>1
    <3>2. i + 1 = k + 1
        BY <1>0, <3>1 DEF ChainOnce
    <3> QED
        BY <3>2
  <2>2. CASE c # d
      BY <1>2, <1>6, <2>2 DEF ChainOnce
  <2> QED
      BY <2>1, <2>2
<1>7. ChainServed'
    BY <1>4, <1>5 DEF ChainServed
<1>8. ChainOnce'
    BY <1>6 DEF ChainOnce
<1> QED
    BY <1>3, <1>7, <1>8

\* An upload joins the end of the chain of its credential.
LEMMA ChainGrows ==
    ASSUME ChainServed, ChainOnce, chain \in [Credentials -> Seq(Uploads)],
           NEW u \in Uploads, Only(u), NEW d \in Credentials,
           up[u].pc = "idle", up'[u].pc = "queued", up'[u].cred = d,
           chain' = [chain EXCEPT ![d] = Append(@, u)]
    PROVE  ChainServed' /\ ChainOnce' /\ chain' \in [Credentials -> Seq(Uploads)]
<1>1. /\ chain'[d] \in Seq(Uploads) /\ Len(chain[d]) \in Nat
      /\ Len(chain'[d]) = Len(chain[d]) + 1
      /\ chain'[d][Len(chain[d]) + 1] = u
      /\ \A i \in 1..Len(chain[d]) : chain'[d][i] = chain[d][i]
  <2>1. chain'[d] = Append(chain[d], u) /\ chain[d] \in Seq(Uploads)
      OBVIOUS
  <2> QED
      BY <2>1
<1>2. \A c \in Credentials : c # d => chain'[c] = chain[c]
    OBVIOUS
<1>3. chain' \in [Credentials -> Seq(Uploads)]
    BY <1>1
<1>4. ASSUME NEW c \in Credentials, NEW i \in 1..Len(chain[c])
      PROVE  /\ chain[c][i] # u /\ up'[chain[c][i]] = up[chain[c][i]]
             /\ up[chain[c][i]].cred = c
             /\ up[chain[c][i]].pc \in IF i = 1 THEN {"queued", "counting", "counted", "reserved"}
                                                ELSE {"queued"}
             /\ i \in 1..Len(chain'[c]) /\ chain'[c][i] = chain[c][i]
  <2>1. /\ up[chain[c][i]].cred = c
        /\ up[chain[c][i]].pc \in IF i = 1 THEN {"queued", "counting", "counted", "reserved"}
                                           ELSE {"queued"}
      BY DEF ChainServed
  <2>2. chain[c][i] # u
      BY <2>1
  <2>3. chain[c][i] \in Uploads
      OBVIOUS
  <2>4. i \in 1..Len(chain'[c]) /\ chain'[c][i] = chain[c][i]
      BY <1>1, <1>2
  <2> QED
      BY <2>1, <2>2, <2>3, <2>4 DEF Only
<1>5. ASSUME NEW c \in Credentials, NEW i \in 1..Len(chain'[c])
      PROVE  \/ i \in 1..Len(chain[c])
             \/ c = d /\ i = Len(chain[d]) + 1
    BY <1>1, <1>2
<1>6. ASSUME NEW c \in Credentials, NEW i \in 1..Len(chain'[c])
      PROVE  /\ up'[chain'[c][i]].cred = c
             /\ up'[chain'[c][i]].pc \in IF i = 1 THEN {"queued", "counting", "counted", "reserved"}
                                                  ELSE {"queued"}
  <2>1. CASE i \in 1..Len(chain[c])
      BY <1>4, <2>1
  <2>2. CASE c = d /\ i = Len(chain[d]) + 1
      BY <1>1, <2>2
  <2> QED
      BY <1>5, <2>1, <2>2
<1>7. ASSUME NEW v \in Uploads, up'[v].pc \in {"queued", "counting", "counted", "reserved"}
      PROVE  \E i \in 1..Len(chain'[up'[v].cred]) : chain'[up'[v].cred][i] = v
  <2>1. CASE v = u
    <3>1. Len(chain[d]) + 1 \in 1..Len(chain'[d])
        BY <1>1
    <3> QED
        BY <1>1, <2>1, <3>1
  <2>2. CASE v # u
    <3>1. up'[v] = up[v]
        BY <2>2 DEF Only
    <3>2. PICK i \in 1..Len(chain[up[v].cred]) : chain[up[v].cred][i] = v
        BY <1>7, <3>1 DEF ChainServed
    <3>3. CASE up[v].cred = d
      <4>1. i \in 1..Len(chain'[d]) /\ chain'[d][i] = v
          BY <1>1, <3>2, <3>3
      <4> QED
          BY <3>1, <3>3, <4>1
    <3>4. CASE up[v].cred # d
      <4>1. chain'[up[v].cred] = chain[up[v].cred]
          BY <3>4
      <4> QED
          BY <3>1, <3>2, <4>1
    <3> QED
        BY <3>3, <3>4
  <2> QED
      BY <2>1, <2>2
<1>8. ASSUME NEW c \in Credentials, NEW i \in 1..Len(chain'[c]), NEW k \in 1..Len(chain'[c]),
             chain'[c][i] = chain'[c][k]
      PROVE  i = k
  <2>1. CASE i \in 1..Len(chain[c]) /\ k \in 1..Len(chain[c])
      BY <1>4, <1>8, <2>1 DEF ChainOnce
  <2>2. CASE c = d /\ i = Len(chain[d]) + 1
      BY <1>1, <1>4, <1>5, <1>8, <2>2
  <2>3. CASE c = d /\ k = Len(chain[d]) + 1
      BY <1>1, <1>4, <1>5, <1>8, <2>3
  <2> QED
      BY <1>5, <2>1, <2>2, <2>3
<1> QED
    BY <1>3, <1>6, <1>7, <1>8 DEF ChainServed, ChainOnce

-----------------------------------------------------------------------------
(* Limits of a credential *)

\* Nothing is entered in the books of the credentials.
LEMMA LimitsStay ==
    ASSUME LimitsChecked, NEW u \in Uploads, Only(u), UNCHANGED <<active, recent>>,
           \A c \in Credentials : u \in ActiveOf(c) <=> u \in ActiveOf(c)',
           up'[u].pc \in {"counting", "counted", "reserved"} =>
               active[up'[u].cred] < MaxConcurrent /\ recent[up'[u].cred] < RateLimit
    PROVE  LimitsChecked'
<1>1. \A c \in Credentials : ActiveOf(c)' = ActiveOf(c)
    BY ActiveRecount
<1>2. ASSUME NEW v \in Uploads, up'[v].pc \in {"counting", "counted", "reserved"}
      PROVE  active'[up'[v].cred] < MaxConcurrent /\ recent'[up'[v].cred] < RateLimit
    BY <1>2 DEF Only, LimitsChecked
<1> QED
    BY <1>1, <1>2 DEF LimitsChecked

\* An upload is admitted: its credential's books grow by one, and nobody else
\* of that credential has been checked against the old ones.
LEMMA LimitsAdmit ==
    ASSUME LimitsChecked, UploadsKnown, ChainServed, chain \in [Credentials -> Seq(Uploads)],
           active \in [Credentials -> Nat], recent \in [Credentials -> Nat],
           NEW u \in Uploads, Only(u), up[u].pc = "reserved",
           up'[u].pc = "admitted", up'[u].cred = up[u].cred,
           recent' = [recent EXCEPT ![up[u].cred] = @ + 1],
           active' = [active EXCEPT ![up[u].cred] = @ + 1]
    PROVE  LimitsChecked'
<1> DEFINE d == up[u].cred
<1>1. d \in Credentials /\ active[d] < MaxConcurrent /\ recent[d] < RateLimit
    BY DEF UploadsKnown, LimitsChecked
<1>2. ASSUME NEW c \in Credentials
      PROVE  active'[c] = Cardinality(ActiveOf(c)') /\ active'[c] <= MaxConcurrent
             /\ recent'[c] <= RateLimit
  <2>1. /\ active[c] = Cardinality(ActiveOf(c)) /\ active[c] <= MaxConcurrent
        /\ recent[c] <= RateLimit
      BY DEF LimitsChecked
  <2>2. u \notin ActiveOf(c) /\ (u \in ActiveOf(c)' <=> c = d)
      BY DEF ActiveOf
  <2>3. CASE c = d
    <3>1. Cardinality(ActiveOf(c)') = Cardinality(ActiveOf(c)) + 1
        BY <2>2, <2>3, ActiveRecount
    <3>2. active'[c] = active[c] + 1 /\ recent'[c] = recent[c] + 1
        BY <2>3
    <3>3. active[c] + 1 <= MaxConcurrent /\ recent[c] + 1 <= RateLimit
        BY <1>1, <2>3, AdmissionAssumption
    <3> QED
        BY <2>1, <3>1, <3>2, <3>3
  <2>4. CASE c # d
    <3>1. ActiveOf(c)' = ActiveOf(c)
        BY <2>2, <2>4, ActiveRecount
    <3>2. active'[c] = active[c] /\ recent'[c] = recent[c]
        BY <2>4
    <3> QED
        BY <2>1, <3>1, <3>2
  <2> QED
      BY <2>3, <2>4
<1>3. ASSUME NEW v \in Uploads, up'[v].pc \in {"counting", "counted", "reserved"}
      PROVE  active'[up'[v].cred] < MaxConcurrent /\ recent'[up'[v].cred] < RateLimit
  <2>1. v # u /\ up'[v] = up[v]
      BY <1>3 DEF Only
  <2>2. up[v].cred # d
      BY <1>3, <2>1, OneEntersAtATime
  <2>3. active'[up[v].cred] = active[up[v].cred] /\ recent'[up[v].cred] = recent[up[v].cred]
      BY <1>3, <2>1, <2>2 DEF UploadsKnown
  <2> QED
      BY <1>3, <2>1, <2>3 DEF LimitsChecked
<1> QED
    BY <1>2, <1>3 DEF LimitsChecked

\* An admitted upload leaves.
LEMMA LimitsLeave ==
    ASSUME LimitsChecked, UploadsKnown, active \in [Credentials -> Nat],
           NEW u \in Uploads, Only(u), up[u].pc \in {"admitted", "saving", "inserted"},
           up'[u].pc = "idle", UNCHANGED recent,
           active' = [active EXCEPT ![up[u].cred] = AtLeastZero(@ - 1)]
    PROVE  LimitsChecked' /\ active' \in [Credentials -> Nat]
<1> DEFINE d == up[u].cred
<1>1. d \in Credentials
    BY DEF UploadsKnown
<1>2. ASSUME NEW c \in Credentials
      PROVE  active'[c] = Cardinality(ActiveOf(c)') /\ active'[c] <= active[c] /\ active'[c] \in Nat
  <2>1. active[c] = Cardinality(ActiveOf(c))
      BY DEF LimitsChecked
  <2>2. u \notin ActiveOf(c)' /\ (u \in ActiveOf(c) <=> c = d)
      BY DEF ActiveOf
  <2>3. CASE c = d
    <3>1. Cardinality(ActiveOf(c)') = Cardinality(ActiveOf(c)) - 1
        BY <2>2, <2>3, ActiveRecount
    <3>2. Cardinality(ActiveOf(c)') \in Nat
        BY ActiveRecount
    <3>3. active'[c] = AtLeastZero(active[c] - 1)
        BY <2>3
    <3> QED
        BY <2>1, <3>1, <3>2, <3>3 DEF AtLeastZero
  <2>4. CASE c # d
    <3>1. ActiveOf(c)' = ActiveOf(c)
        BY <2>2, <2>4, ActiveRecount
    <3>2. active'[c] = active[c]
        BY <2>4
    <3> QED
        BY <2>1, <3>1, <3>2
  <2> QED
      BY <2>3, <2>4
<1>3. active' \in [Credentials -> Nat]
    BY <1>2
<1>4. ASSUME NEW v \in Uploads, up'[v].pc \in {"counting", "counted", "reserved"}
      PROVE  active'[up'[v].cred] < MaxConcurrent /\ recent'[up'[v].cred] < RateLimit
  <2>1. v # u /\ up'[v] = up[v]
      BY <1>4 DEF Only
  <2>2. up[v].cred \in Credentials /\ active[up[v].cred] < MaxConcurrent
        /\ recent[up[v].cred] < RateLimit
      BY <1>4, <2>1 DEF UploadsKnown, LimitsChecked
  <2>3. active'[up[v].cred] <= active[up[v].cred] /\ active'[up[v].cred] \in Nat
      BY <1>2, <2>2
  <2> QED
      BY <2>1, <2>2, <2>3, AdmissionAssumption
<1>5. \A c \in Credentials : active[c] <= MaxConcurrent /\ recent[c] <= RateLimit
    BY DEF LimitsChecked
<1>6. ASSUME NEW c \in Credentials
      PROVE  active'[c] <= MaxConcurrent
    BY <1>2, <1>5, AdmissionAssumption
<1> QED
    BY <1>2, <1>3, <1>4, <1>5, <1>6 DEF LimitsChecked

-----------------------------------------------------------------------------
(* Steps *)

\* The reservations the uploads stand for are counted by their three kinds.
LEMMA HoldersCounted ==
    Cardinality(Holders) = Cardinality(Checking) + Cardinality(Promised) + Cardinality(Written)
<1>1. Checking \cap Promised = {} /\ (Checking \cup Promised) \cap Written = {}
    BY DEF Checking, Promised, Written
<1>2. Holders = (Checking \cup Promised) \cup Written
    BY DEF Holders, Checking, Promised, Written
<1>3. /\ IsFiniteSet(Checking \cup Promised)
      /\ Cardinality(Checking \cup Promised) = Cardinality(Checking) + Cardinality(Promised)
  <2>1. Cardinality(Checking \cap Promised) = 0
      BY <1>1, FS_EmptySet
  <2>2. Cardinality(Checking \cup Promised)
            = Cardinality(Checking) + Cardinality(Promised) - Cardinality(Checking \cap Promised)
      BY CountsAreNumbers, FS_Union
  <2>3. IsFiniteSet(Checking \cup Promised)
      BY CountsAreNumbers, FS_Union
  <2> QED
      BY <2>1, <2>2, <2>3, CountsAreNumbers
<1>4. Cardinality((Checking \cup Promised) \cup Written)
          = Cardinality(Checking \cup Promised) + Cardinality(Written)
            - Cardinality((Checking \cup Promised) \cap Written)
    BY <1>3, CountsAreNumbers, FS_Union
<1>5. Cardinality((Checking \cup Promised) \cap Written) = 0
    BY <1>1, FS_EmptySet
<1> QED
    BY <1>2, <1>3, <1>4, <1>5, CountsAreNumbers

\* The end of a check puts right what was put off, when it is the last one.
LEMMA EndOfCheck ==
    ASSUME checks \in Nat \ {0}, deferred \in Nat, NEW held, held - deferred \in Nat,
           held \in Nat, EndCheck(held)
    PROVE  /\ checks' = checks - 1 /\ checks' \in Nat
           /\ inFlight' - deferred' = held - deferred /\ inFlight' \in Nat /\ deferred' \in Nat
           /\ deferred' > 0 => checks' > 0
           /\ checks # 1 => deferred' = deferred
BY DEF EndCheck, AtLeastZero

\* A release frees one place, now or when the checks under way are over.
LEMMA Released ==
    ASSUME checks \in Nat, deferred \in Nat, inFlight \in Nat, inFlight - deferred \in Nat \ {0},
           deferred > 0 => checks > 0, ReleasePending
    PROVE  /\ checks' = checks /\ inFlight' \in Nat /\ deferred' \in Nat
           /\ inFlight' = (inFlight - deferred - 1) + deferred'
           /\ deferred' > 0 => checks' > 0
           /\ checks > 0 => deferred' = deferred + 1
BY DEF ReleasePending, AtLeastZero

\* A refusal, at the limits of the credential or before.
LEMMA StartCheckStep ==
    ASSUME IInv, NEW u \in Uploads, StartCheck(u)
    PROVE  IInv'
<1>T. /\ up \in [Uploads -> UploadMemories] /\ chain \in [Credentials -> Seq(Uploads)]
      /\ checks \in Nat /\ inFlight \in Nat /\ deferred \in Nat
    BY DEF IInv, TypeOK
<1>N. checks \in Nat /\ inFlight \in Nat /\ deferred \in Nat
    BY DEF IInv, TypeOK
<1>I. UploadsKnown /\ ChainServed /\ ChainOnce /\ Books /\ RoomKept /\ SnapshotsCovered
      /\ LimitsChecked
    BY DEF IInv
<1>U. /\ up[u].pc = "queued" /\ up[u].cred \in Credentials /\ up[u].sum \in Checksums
      /\ Waiting' = Waiting /\ UNCHANGED <<sheets, active, recent>>
    BY <1>I DEF StartCheck, UploadsKnown, Waiting
<1>H. Len(chain[up[u].cred]) \in Nat \ {0} /\ chain[up[u].cred][1] = u
  <2>1. PICK i \in 1..Len(chain[up[u].cred]) : chain[up[u].cred][i] = u
      BY <1>I, <1>U DEF ChainServed
  <2>2. Len(chain[up[u].cred]) \in Nat \ {0}
      BY <1>T, <1>U, <2>1
  <2> QED
      BY <1>T, <1>U, <2>2 DEF StartCheck
<1>1. CASE up' = [up EXCEPT ![u] = Idle] /\ Unlock(u) /\ UNCHANGED counters
  <2>1. up' \in [Uploads -> UploadMemories] /\ Only(u) /\ up'[u].pc = "idle"
      BY <1>1, <1>T, Ended
  <2>2. ChainServed' /\ ChainOnce' /\ chain' \in [Credentials -> Seq(Uploads)]
      BY <1>1, <1>T, <1>I, <1>U, <1>H, <2>1, ChainPops DEF Unlock, Entering
  <2>3. Checking' = Checking /\ Promised' = Promised /\ Written' = Written
      BY <1>U, <2>1, UploadsRecount
  <2>4. UNCHANGED <<checks, inFlight, deferred>>
      BY <1>1 DEF counters
  <2>5. Books' /\ RoomKept'
      BY <1>I, <1>U, <2>3, <2>4 DEF Books, RoomKept
  <2>6. SnapshotsCovered'
    <3>1. Cardinality(Waiting') - Cardinality(Written') - deferred'
             <= Cardinality(Waiting) - Cardinality(Written) - deferred
        BY <1>T, <1>U, <2>3, <2>4, CountsAreNumbers
    <3>2. checks = Cardinality(Checking)
        BY <1>I DEF Books
    <3> QED
        BY <1>T, <1>I, <2>1, <2>4, <3>1, <3>2, SnapshotsStep
  <2>7. LimitsChecked'
    <3>1. \A c \in Credentials : u \notin ActiveOf(c) /\ u \notin ActiveOf(c)'
        BY <1>U, <2>1 DEF ActiveOf
    <3> QED
        BY <1>I, <1>U, <2>1, <3>1, LimitsStay
  <2>8. UploadsKnown'
      BY <1>I, <2>1, KnownStep
  <2>9. TypeOK'
      BY <1>U, <2>1, <2>2, <2>4 DEF IInv, TypeOK
  <2> QED
      BY <2>2, <2>5, <2>6, <2>7, <2>8, <2>9 DEF IInv
<1>2. CASE /\ ~(recent[up[u].cred] >= RateLimit \/ active[up[u].cred] >= MaxConcurrent)
           /\ up' = [up EXCEPT ![u].pc = "counting"]
           /\ checks' = checks + 1 /\ inFlight' = inFlight + 1
           /\ UNCHANGED <<chain, deferred>>
  <2>1. /\ up' \in [Uploads -> UploadMemories] /\ Only(u) /\ up'[u].pc = "counting"
        /\ up'[u].cred = up[u].cred /\ up'[u].sum = up[u].sum
      BY <1>2, <1>T, Advanced DEF Entering
  <2>2. ChainServed' /\ ChainOnce'
      BY <1>2, <1>T, <1>I, <1>U, <1>H, <2>1, ChainStays
  <2>3. /\ Cardinality(Checking') = Cardinality(Checking) + 1
        /\ Promised' = Promised /\ Written' = Written
      BY <1>U, <2>1, UploadsRecount
  <2>4. Books'
    <3>1. /\ inFlight = Cardinality(Checking) + Cardinality(Promised) + Cardinality(Written) + deferred
          /\ checks = Cardinality(Checking)
          /\ deferred > 0 => checks > 0
        BY <1>I DEF Books
    <3>2. /\ inFlight' = Cardinality(Checking') + Cardinality(Promised') + Cardinality(Written')
                           + deferred'
          /\ checks' = Cardinality(Checking')
          /\ deferred' > 0 => checks' > 0
        BY <1>2, <1>N, <2>3, <3>1, CountsAreNumbers
    <3> QED
        BY <3>2 DEF Books
  <2>5. RoomKept'
      BY <1>I, <1>U, <2>3 DEF RoomKept
  <2>6. SnapshotsCovered'
    <3>1. Cardinality(Waiting') - Cardinality(Written') - deferred'
             <= Cardinality(Waiting) - Cardinality(Written) - deferred
        BY <1>2, <1>T, <1>U, <2>3, CountsAreNumbers
    <3>2. checks = Cardinality(Checking)
        BY <1>I DEF Books
    <3> QED
        BY <1>2, <1>T, <1>I, <2>1, <3>1, <3>2, SnapshotsStep
  <2>7. LimitsChecked'
    <3>1. \A c \in Credentials : u \notin ActiveOf(c) /\ u \notin ActiveOf(c)'
        BY <1>U, <2>1 DEF ActiveOf
    <3>2. active[up[u].cred] \in Nat /\ recent[up[u].cred] \in Nat
        BY <1>U DEF IInv, TypeOK
    <3>3. active[up'[u].cred] < MaxConcurrent /\ recent[up'[u].cred] < RateLimit
        BY <1>2, <2>1, <3>2, AdmissionAssumption
    <3> QED
        BY <1>I, <1>U, <2>1, <3>1, <3>3, LimitsStay
  <2>8. UploadsKnown'
      BY <1>I, <1>U, <2>1, KnownStep
  <2>9. TypeOK'
      BY <1>2, <1>T, <1>U, <2>1 DEF IInv, TypeOK
  <2> QED
      BY <2>2, <2>4, <2>5, <2>6, <2>7, <2>8, <2>9 DEF IInv
<1> QED
    BY <1>1, <1>2 DEF StartCheck

\* An admitted upload leaves: what it held is released or put off.
LEMMA LeaveStep ==
    ASSUME IInv, NEW u \in Uploads, up[u].pc \in {"admitted", "saving", "inserted"},
           Leave(u), UNCHANGED sheets
    PROVE  IInv'
<1>T. /\ sheets \in [Checksums -> {None, "pending", "processing", "done"}]
      /\ up \in [Uploads -> UploadMemories] /\ chain \in [Credentials -> Seq(Uploads)]
      /\ active \in [Credentials -> Nat] /\ recent \in [Credentials -> Nat]
      /\ checks \in Nat /\ inFlight \in Nat /\ deferred \in Nat
    BY DEF IInv, TypeOK
<1>N. checks \in Nat /\ inFlight \in Nat /\ deferred \in Nat
    BY DEF IInv, TypeOK
<1>I. UploadsKnown /\ ChainServed /\ ChainOnce /\ Books /\ RoomKept /\ SnapshotsCovered
      /\ LimitsChecked
    BY DEF IInv
<1>B. /\ inFlight = Cardinality(Checking) + Cardinality(Promised) + Cardinality(Written) + deferred
      /\ checks = Cardinality(Checking)
      /\ deferred > 0 => checks > 0
    BY <1>I DEF Books
<1>C. /\ Cardinality(Waiting) \in Nat /\ Cardinality(Checking) \in Nat
      /\ Cardinality(Promised) \in Nat /\ Cardinality(Written) \in Nat
      /\ Cardinality(Waiting') \in Nat /\ Cardinality(Written') \in Nat
    BY CountsAreNumbers
<1>1. up' \in [Uploads -> UploadMemories] /\ Only(u) /\ up'[u].pc = "idle" /\ chain' = chain
      /\ Waiting' = Waiting
    BY <1>T, Ended DEF Leave, Waiting
<1>2. ChainServed' /\ ChainOnce'
    BY <1>T, <1>I, <1>1, ChainUntouched DEF Entering
<1>3. /\ Checking' = Checking
      /\ Cardinality(Promised') + Cardinality(Written') = Cardinality(Promised) + Cardinality(Written) - 1
      /\ Cardinality(Promised') <= Cardinality(Promised) /\ Cardinality(Promised') \in Nat
      /\ up[u].pc = "inserted" => Cardinality(Written') = Cardinality(Written) - 1
      /\ up[u].pc # "inserted" => Written' = Written
  <2>1. CASE up[u].pc = "inserted"
    <3>1. /\ Checking' = Checking /\ Promised' = Promised
          /\ Cardinality(Written') = Cardinality(Written) - 1
        BY <1>1, <2>1, UploadsRecount
    <3> QED
        BY <1>C, <2>1, <3>1
  <2>2. CASE up[u].pc \in {"admitted", "saving"}
    <3>1. /\ Checking' = Checking /\ Written' = Written
          /\ Cardinality(Promised') = Cardinality(Promised) - 1
        BY <1>1, <2>2, UploadsRecount
    <3>2. Cardinality(Promised') \in Nat
        BY CountsAreNumbers
    <3> QED
        BY <1>C, <2>2, <3>1, <3>2
  <2> QED
      BY <2>1, <2>2
<1>4. inFlight - deferred \in Nat \ {0}
    BY <1>N, <1>B, <1>C, <1>3
<1>5. /\ checks' = checks /\ inFlight' \in Nat /\ deferred' \in Nat
      /\ inFlight' = (inFlight - deferred - 1) + deferred'
      /\ deferred' > 0 => checks' > 0
      /\ checks > 0 => deferred' = deferred + 1
    BY <1>T, <1>B, <1>4, Released DEF Leave
<1>6. Books'
  <2>1. inFlight' = (inFlight - deferred - 1) + deferred'
      BY <1>5
  <2>2. inFlight - deferred = Cardinality(Checking) + (Cardinality(Promised) + Cardinality(Written))
      BY <1>N, <1>B, <1>C
  <2>3. inFlight - deferred - 1 = Cardinality(Checking) + (Cardinality(Promised') + Cardinality(Written'))
      BY <1>C, <1>3, <2>2
  <2>4. inFlight' = Cardinality(Checking') + Cardinality(Promised') + Cardinality(Written') + deferred'
      BY <1>C, <1>3, <1>5, <2>1, <2>3
  <2> QED
      BY <1>B, <1>3, <1>5, <2>4 DEF Books
<1>7. RoomKept'
    BY <1>I, <1>C, <1>1, <1>3, AdmissionAssumption DEF RoomKept
<1>8. SnapshotsCovered'
  <2>1. CASE checks = 0
    <3>1. Checking' = {}
        BY <1>B, <1>3, <2>1, CountsAreNumbers, FS_EmptySet
    <3>2. \A v \in Uploads : up'[v].pc # "counted"
        BY <3>1 DEF Checking
    <3> QED
        BY <3>2 DEF SnapshotsCovered
  <2>2. CASE checks # 0
    <3>1. deferred' = deferred + 1
        BY <1>T, <1>5, <2>2
    <3>2. Cardinality(Waiting') - Cardinality(Written') - deferred'
             <= Cardinality(Waiting) - Cardinality(Written) - deferred
        BY <1>N, <1>C, <1>1, <1>3, <3>1
    <3> QED
        BY <1>T, <1>I, <1>B, <1>1, <1>5, <3>2, SnapshotsStep
  <2> QED
      BY <2>1, <2>2
<1>9. LimitsChecked' /\ active' \in [Credentials -> Nat]
    BY <1>T, <1>I, <1>1, LimitsLeave DEF Leave
<1>10. UploadsKnown'
    BY <1>I, <1>1, KnownStep
<1>11. TypeOK'
    BY <1>T, <1>1, <1>5, <1>9 DEF TypeOK, Leave
<1> QED
    BY <1>2, <1>6, <1>7, <1>8, <1>9, <1>10, <1>11 DEF IInv

\* A check ends without a reservation: the queue is full or the count failed.
LEMMA RefusedStep ==
    ASSUME IInv, NEW u \in Uploads, up[u].pc \in {"counting", "counted"},
           up' = [up EXCEPT ![u] = Idle], EndCheck(inFlight - 1), Unlock(u),
           UNCHANGED <<sheets, active, recent>>
    PROVE  IInv'
<1>T. /\ sheets \in [Checksums -> {None, "pending", "processing", "done"}]
      /\ up \in [Uploads -> UploadMemories] /\ chain \in [Credentials -> Seq(Uploads)]
      /\ active \in [Credentials -> Nat] /\ recent \in [Credentials -> Nat]
      /\ checks \in Nat /\ inFlight \in Nat /\ deferred \in Nat
    BY DEF IInv, TypeOK
<1>N. checks \in Nat /\ inFlight \in Nat /\ deferred \in Nat
    BY DEF IInv, TypeOK
<1>I. UploadsKnown /\ ChainServed /\ ChainOnce /\ Books /\ RoomKept /\ SnapshotsCovered
      /\ LimitsChecked
    BY DEF IInv
<1>B. /\ inFlight = Cardinality(Checking) + Cardinality(Promised) + Cardinality(Written) + deferred
      /\ checks = Cardinality(Checking)
      /\ deferred > 0 => checks > 0
    BY <1>I DEF Books
<1>C. /\ Cardinality(Waiting) \in Nat /\ Cardinality(Checking) \in Nat
      /\ Cardinality(Promised) \in Nat /\ Cardinality(Written) \in Nat
      /\ Cardinality(Waiting') \in Nat /\ Cardinality(Written') \in Nat
    BY CountsAreNumbers
<1>1. up' \in [Uploads -> UploadMemories] /\ Only(u) /\ up'[u].pc = "idle"
      /\ Waiting' = Waiting
    BY <1>T, Ended DEF Waiting
<1>2. ChainServed' /\ ChainOnce' /\ chain' \in [Credentials -> Seq(Uploads)]
  <2>1. /\ up[u].cred \in Credentials /\ Len(chain[up[u].cred]) \in Nat \ {0}
        /\ chain[up[u].cred][1] = u
      BY <1>T, <1>I, HeadOfChain
  <2> QED
      BY <1>T, <1>I, <1>1, <2>1, ChainPops DEF Unlock, Entering
<1>3. /\ Cardinality(Checking') = Cardinality(Checking) - 1
      /\ Promised' = Promised /\ Written' = Written
    BY <1>1, UploadsRecount
<1>4. checks \in Nat \ {0} /\ inFlight - 1 \in Nat /\ (inFlight - 1) - deferred \in Nat
  <2>1. Checking # {}
      BY DEF Checking
  <2>2. Cardinality(Checking) # 0
      BY <2>1, CountsAreNumbers, FS_EmptySet
  <2>3. checks \in Nat \ {0}
      BY <1>N, <1>B, <2>2
  <2>4. inFlight - deferred = checks + Cardinality(Promised) + Cardinality(Written)
      BY <1>N, <1>B, <1>C
  <2> QED
      BY <1>N, <1>C, <2>3, <2>4
<1>5. /\ checks' = checks - 1 /\ checks' \in Nat
      /\ inFlight' - deferred' = (inFlight - 1) - deferred /\ inFlight' \in Nat /\ deferred' \in Nat
      /\ deferred' > 0 => checks' > 0
      /\ checks # 1 => deferred' = deferred
    BY <1>T, <1>4, EndOfCheck
<1>6. Books'
  <2>1. inFlight' = Cardinality(Checking') + Cardinality(Promised') + Cardinality(Written') + deferred'
      BY <1>N, <1>B, <1>C, <1>3, <1>5
  <2> QED
      BY <1>B, <1>3, <1>5, <2>1 DEF Books
<1>7. RoomKept'
    BY <1>I, <1>1, <1>3 DEF RoomKept
<1>8. SnapshotsCovered'
  <2>1. checks # 1 => Cardinality(Waiting') - Cardinality(Written') - deferred'
                         <= Cardinality(Waiting) - Cardinality(Written) - deferred
      BY <1>N, <1>C, <1>1, <1>3, <1>5
  <2> QED
      BY <1>T, <1>I, <1>B, <1>1, <1>5, <2>1, SnapshotsStep
<1>9. LimitsChecked'
  <2>1. \A c \in Credentials : u \notin ActiveOf(c) /\ u \notin ActiveOf(c)'
      BY <1>1 DEF ActiveOf
  <2> QED
      BY <1>I, <1>1, <2>1, LimitsStay
<1>10. UploadsKnown'
    BY <1>I, <1>1, KnownStep
<1>11. TypeOK'
    BY <1>T, <1>1, <1>2, <1>5 DEF TypeOK
<1> QED
    BY <1>2, <1>6, <1>7, <1>8, <1>9, <1>10, <1>11 DEF IInv

\* A check ends with a reservation: there was room for the sheet when the rows
\* were counted, and what was inserted since is among the reservations.
LEMMA ReservedStep ==
    ASSUME IInv, NEW u \in Uploads, up[u].pc = "counted",
           up[u].seen + inFlight <= MaxPending,
           up' = [up EXCEPT ![u].pc = "reserved"], EndCheck(inFlight),
           UNCHANGED <<sheets, chain, active, recent>>
    PROVE  IInv'
<1>T. /\ sheets \in [Checksums -> {None, "pending", "processing", "done"}]
      /\ up \in [Uploads -> UploadMemories] /\ chain \in [Credentials -> Seq(Uploads)]
      /\ active \in [Credentials -> Nat] /\ recent \in [Credentials -> Nat]
      /\ checks \in Nat /\ inFlight \in Nat /\ deferred \in Nat
    BY DEF IInv, TypeOK
<1>N. checks \in Nat /\ inFlight \in Nat /\ deferred \in Nat
    BY DEF IInv, TypeOK
<1>I. UploadsKnown /\ ChainServed /\ ChainOnce /\ Books /\ RoomKept /\ SnapshotsCovered
      /\ LimitsChecked
    BY DEF IInv
<1>B. /\ inFlight = Cardinality(Checking) + Cardinality(Promised) + Cardinality(Written) + deferred
      /\ checks = Cardinality(Checking)
      /\ deferred > 0 => checks > 0
    BY <1>I DEF Books
<1>C. /\ Cardinality(Waiting) \in Nat /\ Cardinality(Checking) \in Nat
      /\ Cardinality(Promised) \in Nat /\ Cardinality(Written) \in Nat
      /\ Cardinality(Waiting') \in Nat /\ Cardinality(Written') \in Nat
    BY CountsAreNumbers
<1>1. /\ up' \in [Uploads -> UploadMemories] /\ Only(u) /\ up'[u].pc = "reserved"
      /\ up'[u].cred = up[u].cred /\ up'[u].sum = up[u].sum /\ Waiting' = Waiting
    BY <1>T, Advanced DEF Waiting, Entering
<1>2. ChainServed' /\ ChainOnce'
  <2>1. /\ up[u].cred \in Credentials /\ Len(chain[up[u].cred]) \in Nat \ {0}
        /\ chain[up[u].cred][1] = u
      BY <1>T, <1>I, HeadOfChain
  <2> QED
      BY <1>T, <1>I, <1>1, <2>1, ChainStays
<1>3. /\ Cardinality(Checking') = Cardinality(Checking) - 1
      /\ Cardinality(Promised') = Cardinality(Promised) + 1 /\ Written' = Written
    BY <1>1, UploadsRecount
<1>4. checks \in Nat \ {0} /\ inFlight - deferred \in Nat
  <2>1. Checking # {}
      BY DEF Checking
  <2>2. Cardinality(Checking) # 0
      BY <2>1, CountsAreNumbers, FS_EmptySet
  <2> QED
      BY <1>N, <1>B, <1>C, <2>2
<1>5. /\ checks' = checks - 1 /\ checks' \in Nat
      /\ inFlight' - deferred' = inFlight - deferred /\ inFlight' \in Nat /\ deferred' \in Nat
      /\ deferred' > 0 => checks' > 0
      /\ checks # 1 => deferred' = deferred
    BY <1>T, <1>4, EndOfCheck
<1>6. Books'
  <2>1. inFlight' = Cardinality(Checking') + Cardinality(Promised') + Cardinality(Written') + deferred'
      BY <1>N, <1>B, <1>C, <1>3, <1>5
  <2> QED
      BY <1>B, <1>3, <1>5, <2>1 DEF Books
<1>7. RoomKept'
  <2>1. Cardinality(Waiting) <= up[u].seen + Cardinality(Written) + deferred
      BY <1>I DEF SnapshotsCovered
  <2>2. up[u].seen \in Nat
      BY <1>T DEF UploadMemories
  <2>3. Cardinality(Waiting) + Cardinality(Promised) + Cardinality(Checking) <= MaxPending
      BY <1>N, <1>B, <1>C, <2>1, <2>2, AdmissionAssumption
  <2>4. Cardinality(Checking) >= 1
      BY <1>T, <1>B, <1>4
  <2>5. Cardinality(Waiting) + (Cardinality(Promised) + 1) <= MaxPending
      BY <1>C, <2>3, <2>4, AdmissionAssumption
  <2> QED
      BY <1>1, <1>3, <2>5 DEF RoomKept
<1>8. SnapshotsCovered'
  <2>1. checks # 1 => Cardinality(Waiting') - Cardinality(Written') - deferred'
                         <= Cardinality(Waiting) - Cardinality(Written) - deferred
      BY <1>N, <1>C, <1>1, <1>3, <1>5
  <2> QED
      BY <1>T, <1>I, <1>B, <1>1, <1>5, <2>1, SnapshotsStep
<1>9. LimitsChecked'
  <2>1. \A c \in Credentials : u \notin ActiveOf(c) /\ u \notin ActiveOf(c)'
      BY <1>1 DEF ActiveOf
  <2>2. active[up'[u].cred] < MaxConcurrent /\ recent[up'[u].cred] < RateLimit
      BY <1>I, <1>1 DEF LimitsChecked
  <2> QED
      BY <1>I, <1>1, <2>1, <2>2, LimitsStay
<1>10. UploadsKnown'
    BY <1>I, <1>1, KnownStep DEF UploadsKnown
<1>11. TypeOK'
    BY <1>T, <1>1, <1>5 DEF TypeOK
<1> QED
    BY <1>2, <1>6, <1>7, <1>8, <1>9, <1>10, <1>11 DEF IInv

\* Past its check, an upload is admitted, or refused because storage is full.
LEMMA AdmitStep ==
    ASSUME IInv, NEW u \in Uploads, Admit(u)
    PROVE  IInv'
<1>T. /\ sheets \in [Checksums -> {None, "pending", "processing", "done"}]
      /\ up \in [Uploads -> UploadMemories] /\ chain \in [Credentials -> Seq(Uploads)]
      /\ active \in [Credentials -> Nat] /\ recent \in [Credentials -> Nat]
      /\ checks \in Nat /\ inFlight \in Nat /\ deferred \in Nat
    BY DEF IInv, TypeOK
<1>N. checks \in Nat /\ inFlight \in Nat /\ deferred \in Nat
    BY DEF IInv, TypeOK
<1>I. UploadsKnown /\ ChainServed /\ ChainOnce /\ Books /\ RoomKept /\ SnapshotsCovered
      /\ LimitsChecked
    BY DEF IInv
<1>B. /\ inFlight = Cardinality(Checking) + Cardinality(Promised) + Cardinality(Written) + deferred
      /\ checks = Cardinality(Checking)
      /\ deferred > 0 => checks > 0
    BY <1>I DEF Books
<1>C. /\ Cardinality(Waiting) \in Nat /\ Cardinality(Checking) \in Nat
      /\ Cardinality(Promised) \in Nat /\ Cardinality(Written) \in Nat
      /\ Cardinality(Waiting') \in Nat /\ Cardinality(Written') \in Nat
    BY CountsAreNumbers
<1>H. /\ up[u].pc = "reserved" /\ up[u].cred \in Credentials
      /\ Len(chain[up[u].cred]) \in Nat \ {0} /\ chain[up[u].cred][1] = u
      /\ Waiting' = Waiting /\ Unlock(u) /\ UNCHANGED sheets
    BY <1>T, <1>I, HeadOfChain DEF Admit, Waiting
<1>1. CASE up' = [up EXCEPT ![u] = Idle] /\ ReleasePending /\ UNCHANGED <<active, recent>>
  <2>1. up' \in [Uploads -> UploadMemories] /\ Only(u) /\ up'[u].pc = "idle"
      BY <1>T, <1>1, Ended
  <2>2. ChainServed' /\ ChainOnce' /\ chain' \in [Credentials -> Seq(Uploads)]
      BY <1>T, <1>I, <1>H, <2>1, ChainPops DEF Unlock, Entering
  <2>3. /\ Cardinality(Promised') = Cardinality(Promised) - 1
        /\ Checking' = Checking /\ Written' = Written
      BY <1>H, <2>1, UploadsRecount
  <2>4. Cardinality(Promised') \in Nat
      BY CountsAreNumbers
  <2>5. inFlight - deferred \in Nat \ {0}
      BY <1>N, <1>B, <1>C, <2>3, <2>4
  <2>6. /\ checks' = checks /\ inFlight' \in Nat /\ deferred' \in Nat
        /\ inFlight' = (inFlight - deferred - 1) + deferred'
        /\ deferred' > 0 => checks' > 0
        /\ checks > 0 => deferred' = deferred + 1
      BY <1>T, <1>B, <1>1, <2>5, Released
  <2>7. Books'
    <3>1. inFlight' = Cardinality(Checking') + Cardinality(Promised') + Cardinality(Written') + deferred'
        BY <1>N, <1>B, <1>C, <2>3, <2>4, <2>6
    <3> QED
        BY <1>B, <2>3, <2>6, <3>1 DEF Books
  <2>8. RoomKept'
      BY <1>I, <1>C, <1>H, <2>3, <2>4, AdmissionAssumption DEF RoomKept
  <2>9. SnapshotsCovered'
    <3>1. deferred' >= deferred
        BY <1>T, <1>B, <2>6
    <3>2. Cardinality(Waiting') - Cardinality(Written') - deferred'
             <= Cardinality(Waiting) - Cardinality(Written) - deferred
        BY <1>N, <1>C, <1>H, <2>3, <2>6, <3>1
    <3> QED
        BY <1>T, <1>I, <1>B, <2>1, <2>6, <3>2, SnapshotsStep
  <2>10. LimitsChecked'
    <3>1. \A c \in Credentials : u \notin ActiveOf(c) /\ u \notin ActiveOf(c)'
        BY <1>H, <2>1 DEF ActiveOf
    <3> QED
        BY <1>I, <1>1, <2>1, <3>1, LimitsStay
  <2>11. UploadsKnown'
      BY <1>I, <2>1, KnownStep
  <2>12. TypeOK'
      BY <1>T, <1>1, <1>H, <2>1, <2>2, <2>6 DEF TypeOK
  <2> QED
      BY <2>2, <2>7, <2>8, <2>9, <2>10, <2>11, <2>12 DEF IInv
<1>2. CASE /\ up' = [up EXCEPT ![u].pc = "admitted"]
           /\ recent' = [recent EXCEPT ![up[u].cred] = @ + 1]
           /\ active' = [active EXCEPT ![up[u].cred] = @ + 1]
           /\ UNCHANGED counters
  <2>1. /\ up' \in [Uploads -> UploadMemories] /\ Only(u) /\ up'[u].pc = "admitted"
        /\ up'[u].cred = up[u].cred /\ up'[u].sum = up[u].sum
      BY <1>T, <1>2, Advanced
  <2>2. ChainServed' /\ ChainOnce' /\ chain' \in [Credentials -> Seq(Uploads)]
      BY <1>T, <1>I, <1>H, <2>1, ChainPops DEF Unlock, Entering
  <2>3. Promised' = Promised /\ Checking' = Checking /\ Written' = Written
      BY <1>H, <2>1, UploadsRecount
  <2>4. UNCHANGED <<checks, inFlight, deferred>>
      BY <1>2 DEF counters
  <2>5. Books' /\ RoomKept'
      BY <1>I, <1>H, <2>3, <2>4 DEF Books, RoomKept
  <2>6. SnapshotsCovered'
    <3>1. Cardinality(Waiting') - Cardinality(Written') - deferred'
             <= Cardinality(Waiting) - Cardinality(Written) - deferred
        BY <1>N, <1>C, <1>H, <2>3, <2>4
    <3> QED
        BY <1>T, <1>I, <1>B, <2>1, <2>4, <3>1, SnapshotsStep
  <2>7. LimitsChecked'
      BY <1>T, <1>I, <1>H, <1>2, <2>1, LimitsAdmit
  <2>8. UploadsKnown'
      BY <1>I, <1>H, <2>1, KnownStep DEF UploadsKnown
  <2>9. TypeOK'
    <3>1. active[up[u].cred] + 1 \in Nat /\ recent[up[u].cred] + 1 \in Nat
        BY <1>T, <1>H
    <3>2. active' \in [Credentials -> Nat] /\ recent' \in [Credentials -> Nat]
        BY <1>T, <1>2, <3>1
    <3> QED
        BY <1>T, <1>H, <2>1, <2>2, <2>4, <3>2 DEF TypeOK
  <2> QED
      BY <2>2, <2>5, <2>6, <2>7, <2>8, <2>9 DEF IInv
<1> QED
    BY <1>1, <1>2 DEF Admit

\* An upload comes in and joins its chain.
LEMMA EnterStep ==
    ASSUME IInv, NEW u \in Uploads, NEW c \in Credentials, NEW k \in Checksums, Enter(u, c, k)
    PROVE  IInv'
<1>T. /\ sheets \in [Checksums -> {None, "pending", "processing", "done"}]
      /\ up \in [Uploads -> UploadMemories] /\ chain \in [Credentials -> Seq(Uploads)]
      /\ active \in [Credentials -> Nat] /\ recent \in [Credentials -> Nat]
      /\ checks \in Nat /\ inFlight \in Nat /\ deferred \in Nat
    BY DEF IInv, TypeOK
<1>N. checks \in Nat /\ inFlight \in Nat /\ deferred \in Nat
    BY DEF IInv, TypeOK
<1>I. UploadsKnown /\ ChainServed /\ ChainOnce /\ Books /\ RoomKept /\ SnapshotsCovered
      /\ LimitsChecked
    BY DEF IInv
<1>B. /\ inFlight = Cardinality(Checking) + Cardinality(Promised) + Cardinality(Written) + deferred
      /\ checks = Cardinality(Checking)
      /\ deferred > 0 => checks > 0
    BY <1>I DEF Books
<1>C. /\ Cardinality(Waiting) \in Nat /\ Cardinality(Checking) \in Nat
      /\ Cardinality(Promised) \in Nat /\ Cardinality(Written) \in Nat
      /\ Cardinality(Waiting') \in Nat /\ Cardinality(Written') \in Nat
    BY CountsAreNumbers
<1>1. /\ up' \in [Uploads -> UploadMemories] /\ Only(u) /\ up[u].pc = "idle"
      /\ up'[u].pc = "queued" /\ up'[u].cred = c /\ up'[u].sum = k /\ Waiting' = Waiting
      /\ UNCHANGED <<sheets, active, recent, checks, inFlight, deferred>>
  <2>1. [pc |-> "queued", cred |-> c, sum |-> k, seen |-> 0] \in UploadMemories
      BY DEF UploadMemories, Entering
  <2>2. up' = [up EXCEPT ![u] = [pc |-> "queued", cred |-> c, sum |-> k, seen |-> 0]]
      BY DEF Enter
  <2> QED
      BY <1>T, <2>1, <2>2 DEF Enter, Only, counters, Waiting
<1>2. ChainServed' /\ ChainOnce' /\ chain' \in [Credentials -> Seq(Uploads)]
    BY <1>T, <1>I, <1>1, ChainGrows DEF Enter
<1>3. Checking' = Checking /\ Promised' = Promised /\ Written' = Written
    BY <1>1, UploadsRecount
<1>4. Books' /\ RoomKept'
    BY <1>I, <1>1, <1>3 DEF Books, RoomKept
<1>5. SnapshotsCovered'
  <2>1. Cardinality(Waiting') - Cardinality(Written') - deferred'
           <= Cardinality(Waiting) - Cardinality(Written) - deferred
      BY <1>N, <1>C, <1>1, <1>3
  <2> QED
      BY <1>T, <1>I, <1>B, <1>1, <2>1, SnapshotsStep
<1>6. LimitsChecked'
  <2>1. \A d \in Credentials : u \notin ActiveOf(d) /\ u \notin ActiveOf(d)'
      BY <1>1 DEF ActiveOf
  <2> QED
      BY <1>I, <1>1, <2>1, LimitsStay
<1>7. UploadsKnown'
    BY <1>I, <1>1, KnownStep
<1>8. TypeOK'
    BY <1>T, <1>1, <1>2 DEF TypeOK
<1> QED
    BY <1>2, <1>4, <1>5, <1>6, <1>7, <1>8 DEF IInv

\* The rows are counted for an upload.
LEMMA CountStep ==
    ASSUME IInv, NEW u \in Uploads, Count(u)
    PROVE  IInv'
<1>T. /\ sheets \in [Checksums -> {None, "pending", "processing", "done"}]
      /\ up \in [Uploads -> UploadMemories] /\ chain \in [Credentials -> Seq(Uploads)]
      /\ active \in [Credentials -> Nat] /\ recent \in [Credentials -> Nat]
      /\ checks \in Nat /\ inFlight \in Nat /\ deferred \in Nat
    BY DEF IInv, TypeOK
<1>N. checks \in Nat /\ inFlight \in Nat /\ deferred \in Nat
    BY DEF IInv, TypeOK
<1>I. UploadsKnown /\ ChainServed /\ ChainOnce /\ Books /\ RoomKept /\ SnapshotsCovered
      /\ LimitsChecked
    BY DEF IInv
<1>B. /\ inFlight = Cardinality(Checking) + Cardinality(Promised) + Cardinality(Written) + deferred
      /\ checks = Cardinality(Checking)
      /\ deferred > 0 => checks > 0
    BY <1>I DEF Books
<1>C. /\ Cardinality(Waiting) \in Nat /\ Cardinality(Checking) \in Nat
      /\ Cardinality(Promised) \in Nat /\ Cardinality(Written) \in Nat
      /\ Cardinality(Waiting') \in Nat /\ Cardinality(Written') \in Nat
    BY CountsAreNumbers
<1>1. /\ up' \in [Uploads -> UploadMemories] /\ Only(u) /\ up[u].pc = "counting"
      /\ up'[u].pc = "counted" /\ up'[u].cred = up[u].cred /\ up'[u].sum = up[u].sum
      /\ up'[u].seen = Cardinality(Waiting) /\ Waiting' = Waiting
      /\ UNCHANGED <<sheets, chain, active, recent, checks, inFlight, deferred>>
  <2>1. [up[u] EXCEPT !.pc = "counted", !.seen = Cardinality(Waiting)] \in UploadMemories
      BY <1>T, <1>C DEF UploadMemories, Entering
  <2>2. up' = [up EXCEPT ![u] = [up[u] EXCEPT !.pc = "counted", !.seen = Cardinality(Waiting)]]
      BY <1>T DEF Count
  <2>3. up'[u] = [up[u] EXCEPT !.pc = "counted", !.seen = Cardinality(Waiting)]
      BY <1>T, <2>2
  <2>4. up' \in [Uploads -> UploadMemories] /\ Only(u)
      BY <1>T, <2>1, <2>2 DEF Only
  <2>5. /\ up'[u].pc = "counted" /\ up'[u].cred = up[u].cred /\ up'[u].sum = up[u].sum
        /\ up'[u].seen = Cardinality(Waiting)
      BY <1>T, <2>3 DEF UploadMemories
  <2> QED
      BY <2>4, <2>5 DEF Count, counters, Waiting
<1>2. ChainServed' /\ ChainOnce'
  <2>1. /\ up[u].cred \in Credentials /\ Len(chain[up[u].cred]) \in Nat \ {0}
        /\ chain[up[u].cred][1] = u
      BY <1>T, <1>I, <1>1, HeadOfChain
  <2> QED
      BY <1>T, <1>I, <1>1, <2>1, ChainStays
<1>3. Checking' = Checking /\ Promised' = Promised /\ Written' = Written
    BY <1>1, UploadsRecount
<1>4. Books' /\ RoomKept'
    BY <1>I, <1>1, <1>3 DEF Books, RoomKept
<1>5. SnapshotsCovered'
  <2> SUFFICES ASSUME NEW v \in Uploads, up'[v].pc = "counted"
               PROVE  Cardinality(Waiting) <= up'[v].seen + Cardinality(Written) + deferred
      BY <1>1, <1>3 DEF SnapshotsCovered
  <2>1. CASE v = u
      BY <1>N, <1>C, <1>1, <2>1
  <2>2. CASE v # u
      BY <1>I, <1>1, <2>2 DEF Only, SnapshotsCovered
  <2> QED
      BY <2>1, <2>2
<1>6. LimitsChecked'
  <2>1. \A d \in Credentials : u \notin ActiveOf(d) /\ u \notin ActiveOf(d)'
      BY <1>1 DEF ActiveOf
  <2>2. active[up'[u].cred] < MaxConcurrent /\ recent[up'[u].cred] < RateLimit
      BY <1>I, <1>1 DEF LimitsChecked
  <2> QED
      BY <1>I, <1>1, <2>1, <2>2, LimitsStay
<1>7. UploadsKnown'
    BY <1>I, <1>1, KnownStep DEF UploadsKnown
<1>8. TypeOK'
    BY <1>T, <1>1 DEF TypeOK
<1> QED
    BY <1>2, <1>4, <1>5, <1>6, <1>7, <1>8 DEF IInv

\* An admitted upload finds no duplicate and writes its image.
LEMMA SavingStep ==
    ASSUME IInv, NEW u \in Uploads, up[u].pc = "admitted", up' = [up EXCEPT ![u].pc = "saving"],
           UNCHANGED <<sheets, chain, active, recent, checks, inFlight, deferred>>
    PROVE  IInv'
<1>T. /\ sheets \in [Checksums -> {None, "pending", "processing", "done"}]
      /\ up \in [Uploads -> UploadMemories] /\ chain \in [Credentials -> Seq(Uploads)]
      /\ active \in [Credentials -> Nat] /\ recent \in [Credentials -> Nat]
      /\ checks \in Nat /\ inFlight \in Nat /\ deferred \in Nat
    BY DEF IInv, TypeOK
<1>N. checks \in Nat /\ inFlight \in Nat /\ deferred \in Nat
    BY DEF IInv, TypeOK
<1>I. UploadsKnown /\ ChainServed /\ ChainOnce /\ Books /\ RoomKept /\ SnapshotsCovered
      /\ LimitsChecked
    BY DEF IInv
<1>B. /\ inFlight = Cardinality(Checking) + Cardinality(Promised) + Cardinality(Written) + deferred
      /\ checks = Cardinality(Checking)
      /\ deferred > 0 => checks > 0
    BY <1>I DEF Books
<1>C. /\ Cardinality(Waiting) \in Nat /\ Cardinality(Checking) \in Nat
      /\ Cardinality(Promised) \in Nat /\ Cardinality(Written) \in Nat
      /\ Cardinality(Waiting') \in Nat /\ Cardinality(Written') \in Nat
    BY CountsAreNumbers
<1>1. /\ up' \in [Uploads -> UploadMemories] /\ Only(u) /\ up'[u].pc = "saving"
      /\ up'[u].cred = up[u].cred /\ up'[u].sum = up[u].sum /\ Waiting' = Waiting
    BY <1>T, Advanced DEF Waiting
<1>2. ChainServed' /\ ChainOnce'
    BY <1>T, <1>I, <1>1, ChainUntouched DEF Entering
<1>3. Checking' = Checking /\ Promised' = Promised /\ Written' = Written
    BY <1>1, UploadsRecount
<1>4. Books' /\ RoomKept'
    BY <1>I, <1>1, <1>3 DEF Books, RoomKept
<1>5. SnapshotsCovered'
  <2>1. Cardinality(Waiting') - Cardinality(Written') - deferred'
           <= Cardinality(Waiting) - Cardinality(Written) - deferred
      BY <1>N, <1>C, <1>1, <1>3
  <2> QED
      BY <1>T, <1>I, <1>B, <1>1, <2>1, SnapshotsStep
<1>6. LimitsChecked'
  <2>1. \A d \in Credentials : u \in ActiveOf(d) <=> u \in ActiveOf(d)'
      BY <1>1 DEF ActiveOf
  <2> QED
      BY <1>I, <1>1, <2>1, LimitsStay
<1>7. UploadsKnown'
    BY <1>I, <1>1, KnownStep DEF UploadsKnown
<1>8. TypeOK'
    BY <1>T, <1>1 DEF TypeOK
<1> QED
    BY <1>2, <1>4, <1>5, <1>6, <1>7, <1>8 DEF IInv

\* An upload that was promised room inserts its sheet.
LEMMA InsertedStep ==
    ASSUME IInv, NEW u \in Uploads, up[u].pc = "saving", sheets[up[u].sum] = None,
           sheets' = [sheets EXCEPT ![up[u].sum] = "pending"],
           up' = [up EXCEPT ![u].pc = "inserted"],
           UNCHANGED <<chain, active, recent, checks, inFlight, deferred>>
    PROVE  IInv'
<1>T. /\ sheets \in [Checksums -> {None, "pending", "processing", "done"}]
      /\ up \in [Uploads -> UploadMemories] /\ chain \in [Credentials -> Seq(Uploads)]
      /\ active \in [Credentials -> Nat] /\ recent \in [Credentials -> Nat]
      /\ checks \in Nat /\ inFlight \in Nat /\ deferred \in Nat
    BY DEF IInv, TypeOK
<1>N. checks \in Nat /\ inFlight \in Nat /\ deferred \in Nat
    BY DEF IInv, TypeOK
<1>I. UploadsKnown /\ ChainServed /\ ChainOnce /\ Books /\ RoomKept /\ SnapshotsCovered
      /\ LimitsChecked
    BY DEF IInv
<1>B. /\ inFlight = Cardinality(Checking) + Cardinality(Promised) + Cardinality(Written) + deferred
      /\ checks = Cardinality(Checking)
      /\ deferred > 0 => checks > 0
    BY <1>I DEF Books
<1>C. /\ Cardinality(Waiting) \in Nat /\ Cardinality(Checking) \in Nat
      /\ Cardinality(Promised) \in Nat /\ Cardinality(Written) \in Nat
      /\ Cardinality(Waiting') \in Nat /\ Cardinality(Written') \in Nat
    BY CountsAreNumbers
<1>1. /\ up' \in [Uploads -> UploadMemories] /\ Only(u) /\ up'[u].pc = "inserted"
      /\ up'[u].cred = up[u].cred /\ up'[u].sum = up[u].sum
    BY <1>T, Advanced
<1>W. Cardinality(Waiting') = Cardinality(Waiting) + 1
  <2>1. up[u].sum \in Checksums
      BY <1>I DEF UploadsKnown
  <2> QED
      BY <1>T, <2>1, SheetsRecount
<1>2. ChainServed' /\ ChainOnce'
    BY <1>T, <1>I, <1>1, ChainUntouched DEF Entering
<1>3. /\ Checking' = Checking /\ Cardinality(Promised') = Cardinality(Promised) - 1
      /\ Cardinality(Written') = Cardinality(Written) + 1
    BY <1>1, UploadsRecount
<1>4. Books'
  <2>1. Cardinality(Promised') + Cardinality(Written') = Cardinality(Promised) + Cardinality(Written)
      BY <1>C, <1>3
  <2>2. inFlight = Cardinality(Checking) + (Cardinality(Promised) + Cardinality(Written)) + deferred
      BY <1>N, <1>B, <1>C
  <2>3. Cardinality(Promised') \in Nat
      BY CountsAreNumbers
  <2>4. inFlight' = Cardinality(Checking') + Cardinality(Promised') + Cardinality(Written') + deferred'
      BY <1>N, <1>C, <1>3, <2>1, <2>2, <2>3
  <2> QED
      BY <1>B, <1>3, <2>4 DEF Books
<1>5. RoomKept'
  <2>1. Cardinality(Waiting') + Cardinality(Promised') = Cardinality(Waiting) + Cardinality(Promised)
      BY <1>C, <1>W, <1>3
  <2> QED
      BY <1>I, <2>1 DEF RoomKept
<1>6. SnapshotsCovered'
  <2>1. Cardinality(Waiting') - Cardinality(Written') - deferred'
           <= Cardinality(Waiting) - Cardinality(Written) - deferred
      BY <1>N, <1>C, <1>W, <1>3
  <2> QED
      BY <1>T, <1>I, <1>B, <1>1, <2>1, SnapshotsStep
<1>7. LimitsChecked'
  <2>1. \A d \in Credentials : u \in ActiveOf(d) <=> u \in ActiveOf(d)'
      BY <1>1 DEF ActiveOf
  <2> QED
      BY <1>I, <1>1, <2>1, LimitsStay
<1>8. UploadsKnown'
    BY <1>I, <1>1, KnownStep DEF UploadsKnown
<1>9. TypeOK'
  <2>1. sheets' \in [Checksums -> {None, "pending", "processing", "done"}]
      BY <1>T
  <2> QED
      BY <1>T, <1>1, <2>1 DEF TypeOK
<1> QED
    BY <1>2, <1>4, <1>5, <1>6, <1>7, <1>8, <1>9 DEF IInv

\* The processor takes, puts off or finishes a sheet: no more sheets wait.
LEMMA ProcessStep ==
    ASSUME IInv, NEW k \in Checksums, Process(k)
    PROVE  IInv'
<1>T. /\ sheets \in [Checksums -> {None, "pending", "processing", "done"}]
      /\ up \in [Uploads -> UploadMemories] /\ chain \in [Credentials -> Seq(Uploads)]
      /\ active \in [Credentials -> Nat] /\ recent \in [Credentials -> Nat]
      /\ checks \in Nat /\ inFlight \in Nat /\ deferred \in Nat
    BY DEF IInv, TypeOK
<1>N. checks \in Nat /\ inFlight \in Nat /\ deferred \in Nat
    BY DEF IInv, TypeOK
<1>I. UploadsKnown /\ ChainServed /\ ChainOnce /\ Books /\ RoomKept /\ SnapshotsCovered
      /\ LimitsChecked
    BY DEF IInv
<1>B. /\ inFlight = Cardinality(Checking) + Cardinality(Promised) + Cardinality(Written) + deferred
      /\ checks = Cardinality(Checking)
      /\ deferred > 0 => checks > 0
    BY <1>I DEF Books
<1>C. /\ Cardinality(Waiting) \in Nat /\ Cardinality(Checking) \in Nat
      /\ Cardinality(Promised) \in Nat /\ Cardinality(Written) \in Nat
      /\ Cardinality(Waiting') \in Nat /\ Cardinality(Written') \in Nat
    BY CountsAreNumbers
<1>1. UNCHANGED <<up, chain, active, recent, checks, inFlight, deferred>>
    BY DEF Process, counters
<1>2. sheets' \in [Checksums -> {None, "pending", "processing", "done"}]
    BY <1>T DEF Process
<1>3. Cardinality(Waiting') <= Cardinality(Waiting)
  <2>1. k \in Waiting
      BY DEF Process, Waiting
  <2> QED
      BY <1>T, <2>1, SheetsRecount DEF Process
<1>4. Checking' = Checking /\ Promised' = Promised /\ Written' = Written
      /\ \A c : ActiveOf(c)' = ActiveOf(c)
    BY <1>1 DEF Checking, Promised, Written, ActiveOf
<1>5. TypeOK'
    BY <1>T, <1>1, <1>2 DEF TypeOK
<1>6. ChainServed' /\ ChainOnce' /\ UploadsKnown'
    BY <1>I, <1>1 DEF ChainServed, ChainOnce, UploadsKnown
<1>7. Books' /\ LimitsChecked'
    BY <1>I, <1>1, <1>4 DEF Books, LimitsChecked
<1>8. RoomKept'
    BY <1>I, <1>C, <1>3, <1>4, AdmissionAssumption DEF RoomKept
<1>9. SnapshotsCovered'
  <2> SUFFICES ASSUME NEW v \in Uploads, up[v].pc = "counted"
               PROVE  Cardinality(Waiting') <= up[v].seen + Cardinality(Written) + deferred
      BY <1>1, <1>4 DEF SnapshotsCovered
  <2>1. Cardinality(Waiting) <= up[v].seen + Cardinality(Written) + deferred
      BY <1>I DEF SnapshotsCovered
  <2>2. up[v].seen \in Nat
      BY <1>T DEF UploadMemories
  <2> QED
      BY <1>N, <1>C, <1>3, <2>1, <2>2
<1> QED
    BY <1>5, <1>6, <1>7, <1>8, <1>9 DEF IInv

\* An admission falls out of the window of a minute.
LEMMA MinuteStep ==
    ASSUME IInv, NEW c \in Credentials, MinutePasses(c)
    PROVE  IInv'
<1>T. /\ sheets \in [Checksums -> {None, "pending", "processing", "done"}]
      /\ up \in [Uploads -> UploadMemories] /\ chain \in [Credentials -> Seq(Uploads)]
      /\ active \in [Credentials -> Nat] /\ recent \in [Credentials -> Nat]
      /\ checks \in Nat /\ inFlight \in Nat /\ deferred \in Nat
    BY DEF IInv, TypeOK
<1>N. checks \in Nat /\ inFlight \in Nat /\ deferred \in Nat
    BY DEF IInv, TypeOK
<1>I. UploadsKnown /\ ChainServed /\ ChainOnce /\ Books /\ RoomKept /\ SnapshotsCovered
      /\ LimitsChecked
    BY DEF IInv
<1>B. /\ inFlight = Cardinality(Checking) + Cardinality(Promised) + Cardinality(Written) + deferred
      /\ checks = Cardinality(Checking)
      /\ deferred > 0 => checks > 0
    BY <1>I DEF Books
<1>C. /\ Cardinality(Waiting) \in Nat /\ Cardinality(Checking) \in Nat
      /\ Cardinality(Promised) \in Nat /\ Cardinality(Written) \in Nat
      /\ Cardinality(Waiting') \in Nat /\ Cardinality(Written') \in Nat
    BY CountsAreNumbers
<1>1. /\ UNCHANGED <<sheets, up, chain, active, checks, inFlight, deferred>>
      /\ Waiting' = Waiting
    BY DEF MinutePasses, counters, Waiting
<1>2. recent' \in [Credentials -> Nat] /\ \A d \in Credentials : recent'[d] <= recent[d]
  <2>1. recent[c] \in Nat /\ recent[c] - 1 \in Nat /\ recent[c] - 1 <= recent[c]
      BY <1>T DEF MinutePasses
  <2>2. recent' = [recent EXCEPT ![c] = recent[c] - 1]
      BY DEF MinutePasses
  <2>3. ASSUME NEW d \in Credentials
        PROVE  recent'[d] <= recent[d]
    <3>1. recent[d] \in Nat
        BY <1>T
    <3>2. recent'[d] = IF d = c THEN recent[c] - 1 ELSE recent[d]
        BY <1>T, <2>2
    <3> QED
        BY <2>1, <3>1, <3>2
  <2> QED
      BY <1>T, <2>1, <2>2, <2>3
<1>4. Checking' = Checking /\ Promised' = Promised /\ Written' = Written
      /\ \A d : ActiveOf(d)' = ActiveOf(d)
    BY <1>1 DEF Checking, Promised, Written, ActiveOf
<1>5. TypeOK'
    BY <1>T, <1>1, <1>2 DEF TypeOK
<1>6. ChainServed' /\ ChainOnce' /\ UploadsKnown'
    BY <1>I, <1>1 DEF ChainServed, ChainOnce, UploadsKnown
<1>7. Books' /\ RoomKept' /\ SnapshotsCovered'
    BY <1>I, <1>1, <1>4 DEF Books, RoomKept, SnapshotsCovered
<1>8. LimitsChecked'
  <2>1. ASSUME NEW d \in Credentials
        PROVE  recent'[d] <= RateLimit /\ (recent[d] < RateLimit => recent'[d] < RateLimit)
    <3>1. recent[d] \in Nat /\ recent'[d] \in Nat /\ recent'[d] <= recent[d] /\ recent[d] <= RateLimit
        BY <1>T, <1>I, <1>2 DEF LimitsChecked
    <3> QED
        BY <3>1, AdmissionAssumption
  <2>2. \A d \in Credentials : active'[d] = Cardinality(ActiveOf(d)') /\ active'[d] <= MaxConcurrent
      BY <1>I, <1>1, <1>4 DEF LimitsChecked
  <2>3. ASSUME NEW v \in Uploads, up'[v].pc \in {"counting", "counted", "reserved"}
        PROVE  active'[up'[v].cred] < MaxConcurrent /\ recent'[up'[v].cred] < RateLimit
    <3>1. up[v].cred \in Credentials
        BY <1>I, <1>1, <2>3 DEF UploadsKnown
    <3>2. active[up[v].cred] < MaxConcurrent /\ recent[up[v].cred] < RateLimit
        BY <1>I, <1>1, <2>3 DEF LimitsChecked
    <3> QED
        BY <1>1, <2>1, <3>1, <3>2
  <2> QED
      BY <2>1, <2>2, <2>3 DEF LimitsChecked
<1> QED
    BY <1>5, <1>6, <1>7, <1>8 DEF IInv

\* The service is idle, and no more sheets wait than may.
IdleService ==
    /\ sheets \in [Checksums -> {None, "pending", "processing", "done"}]
    /\ Cardinality(Waiting) <= MaxPending
    /\ up = [u \in Uploads |-> Idle] /\ chain = [c \in Credentials |-> << >>]
    /\ active = [c \in Credentials |-> 0] /\ recent = [c \in Credentials |-> 0]
    /\ checks = 0 /\ inFlight = 0 /\ deferred = 0

\* An idle service satisfies the invariant.
LEMMA IdleIInv == IdleService => IInv
<1> SUFFICES ASSUME IdleService
             PROVE  IInv
    OBVIOUS
<1>1. /\ Checking = {} /\ Promised = {} /\ Written = {}
      /\ \A c : ActiveOf(c) = {}
    BY DEF Checking, Promised, Written, ActiveOf, Idle, IdleService
<1>2. /\ Cardinality(Checking) = 0 /\ Cardinality(Promised) = 0 /\ Cardinality(Written) = 0
      /\ \A c : Cardinality(ActiveOf(c)) = 0
    BY <1>1, FS_EmptySet
<1>3. TypeOK
    BY DEF TypeOK, UploadMemories, Idle, IdleService
<1>4. UploadsKnown /\ ChainServed /\ ChainOnce
    BY DEF UploadsKnown, ChainServed, ChainOnce, Idle, IdleService
<1>5. Books
    BY <1>2 DEF Books, IdleService
<1>6. RoomKept
    BY <1>2, CountsAreNumbers DEF RoomKept, IdleService
<1>7. SnapshotsCovered
    BY DEF SnapshotsCovered, Idle, IdleService
<1>8. LimitsChecked
    BY <1>2, AdmissionAssumption DEF LimitsChecked, Idle, IdleService
<1> QED
    BY <1>3, <1>4, <1>5, <1>6, <1>7, <1>8 DEF IInv

\* The service starts idle.
LEMMA InitIInv == Init => IInv
<1>1. ASSUME Init
      PROVE  IdleService
  <2>1. Waiting = {}
      BY <1>1, AdmissionAssumption DEF Init, Waiting
  <2>2. Cardinality(Waiting) = 0
      BY <2>1, FS_EmptySet
  <2>3. Cardinality(Waiting) <= MaxPending
      BY <2>2, AdmissionAssumption
  <2> QED
      BY <1>1, <2>3 DEF Init, IdleService
<1> QED
    BY <1>1, IdleIInv

\* A restart leaves the rows, which were not too many, and an idle service.
LEMMA RestartStep == IInv /\ Restart => IInv'
<1>1. IInv /\ Restart => IdleService'
  <2> SUFFICES ASSUME IInv, Restart
               PROVE  IdleService'
      OBVIOUS
  <2>1. Waiting' = Waiting
      BY DEF Restart, Waiting
  <2>2. Cardinality(Waiting) <= MaxPending
      BY CountsAreNumbers, AdmissionAssumption DEF IInv, RoomKept
  <2>3. Cardinality(Waiting') <= MaxPending
      BY <2>1, <2>2
  <2> QED
      BY <2>3 DEF Restart, IdleService, IInv, TypeOK
<1> QED
    BY <1>1, IdleIInv, PTL

\* The invariant is inductive.
LEMMA NextIInv == IInv /\ [Next]_vars => IInv'
<1> SUFFICES ASSUME IInv, [Next]_vars
             PROVE  IInv'
    OBVIOUS
<1>1. ASSUME NEW u \in Uploads, Advance(u)
      PROVE  IInv'
  <2>1. CASE StartCheck(u)
      BY <2>1, StartCheckStep
  <2>2. CASE Count(u)
      BY <2>2, CountStep
  <2>3. CASE CountFails(u)
    <3>1. inFlight \in Nat \ {0}
      <4>1. u \in Checking
          BY <2>3 DEF CountFails, Checking
      <4>2. Cardinality(Checking) \in Nat \ {0}
          BY <4>1, CountsAreNumbers, FS_EmptySet
      <4>3. /\ inFlight = Cardinality(Checking) + Cardinality(Promised) + Cardinality(Written) + deferred
            /\ deferred \in Nat
          BY DEF IInv, Books, TypeOK
      <4> QED
          BY <4>2, <4>3, CountsAreNumbers
    <3>2. AtLeastZero(inFlight - 1) = inFlight - 1
        BY <3>1 DEF AtLeastZero
    <3> QED
        BY <2>3, <3>2, RefusedStep DEF CountFails
  <2>4. CASE Decide(u)
    <3>1. CASE up[u].seen + inFlight > MaxPending
        BY <2>4, <3>1, RefusedStep DEF Decide
    <3>2. CASE ~(up[u].seen + inFlight > MaxPending)
      <4>1. up[u].seen + inFlight <= MaxPending
          BY <3>2, AdmissionAssumption DEF IInv, TypeOK, UploadMemories
      <4> QED
          BY <2>4, <3>2, <4>1, ReservedStep DEF Decide
    <3> QED
        BY <3>1, <3>2
  <2>5. CASE Admit(u)
      BY <2>5, AdmitStep
  <2>6. CASE FindDuplicate(u)
      BY <2>6, LeaveStep, SavingStep DEF FindDuplicate, counters
  <2>7. CASE Insert(u)
      BY <2>7, LeaveStep, InsertedStep DEF Insert, counters
  <2>8. CASE Answer(u)
      BY <2>8, LeaveStep DEF Answer
  <2> QED
      BY <1>1, <2>1, <2>2, <2>3, <2>4, <2>5, <2>6, <2>7, <2>8 DEF Advance
<1>2. ASSUME NEW u \in Uploads, NEW c \in Credentials, NEW k \in Checksums, Enter(u, c, k)
      PROVE  IInv'
    BY <1>2, EnterStep
<1>3. ASSUME NEW k \in Checksums, Process(k)
      PROVE  IInv'
    BY <1>3, ProcessStep
<1>4. ASSUME NEW c \in Credentials, MinutePasses(c)
      PROVE  IInv'
    BY <1>4, MinuteStep
<1>5. CASE Restart
    BY <1>5, RestartStep
<1>6. CASE UNCHANGED vars
  <2>1. UNCHANGED <<sheets, up, chain, active, recent, checks, inFlight, deferred>>
      BY <1>6 DEF vars
  <2>2. /\ Waiting' = Waiting /\ Checking' = Checking /\ Promised' = Promised
        /\ Written' = Written /\ \A c : ActiveOf(c)' = ActiveOf(c)
      BY <2>1 DEF Waiting, Checking, Promised, Written, ActiveOf
  <2> QED
      BY <2>1, <2>2
      DEF IInv, TypeOK, UploadsKnown, ChainServed, ChainOnce, Books, RoomKept, SnapshotsCovered,
          LimitsChecked
<1> QED
    BY <1>1, <1>2, <1>3, <1>4, <1>5, <1>6 DEF Next

-----------------------------------------------------------------------------
(* Theorems *)

\* In every reachable state of the admission service, the invariant holds.
THEOREM IInvHolds == Spec => []IInv
<1> QED
    BY InitIInv, NextIInv, PTL DEF Spec

\* However the counts, inserts and releases of overlapping uploads interleave,
\* and whenever the service restarts: the queue stays within SCAN_MAX_PENDING,
\* a credential within its limits, and no reservation is lost or kept.
THEOREM CapacityIsHeld == Spec => []CapacityHeld
<1>1. IInv => CapacityHeld
  <2> SUFFICES ASSUME IInv
               PROVE  CapacityHeld
      OBVIOUS
  <2>1. QueueBounded
      BY CountsAreNumbers, AdmissionAssumption DEF IInv, RoomKept, QueueBounded
  <2>2. ReservationsAccounted
    <3>1. {u \in Uploads : up[u].pc \in {"counting", "counted"}} = Checking
        BY DEF Checking
    <3>2. /\ inFlight = Cardinality(Checking) + Cardinality(Promised) + Cardinality(Written) + deferred
          /\ checks = Cardinality(Checking)
          /\ deferred > 0 => checks > 0
        BY DEF IInv, Books
    <3> QED
        BY <3>1, <3>2, HoldersCounted DEF ReservationsAccounted
  <2>3. CredentialBounded
      BY DEF IInv, LimitsChecked, ActiveOf, CredentialBounded
  <2> QED
      BY <2>1, <2>2, <2>3 DEF CapacityHeld
<1> QED
    BY <1>1, IInvHolds, PTL

\* Every upload that waits for its credential waits behind one that is inside
\* enter: no way out of enter leaves the credential locked.
THEOREM ChainsAreServed == Spec => []ChainServed
<1>1. IInv => ChainServed
    BY DEF IInv
<1> QED
    BY <1>1, IInvHolds, PTL

-----------------------------------------------------------------------------
(* PrintedForms: numbers *)

\* The order of the natural numbers as a set of pairs.
Less == {pair \in Nat \X Nat : pair[1] < pair[2]}

\* A set of natural numbers has a least element, unless it is empty.
LEMMA LeastOf ==
    ASSUME NEW N, N \subseteq Nat, N # {}
    PROVE  \E n \in N : \A m \in N : n <= m
<1>1. Less = OpToRel(<, Nat)
    BY Zenon DEF Less, OpToRel
<1>2. IsWellFoundedOn(Less, Nat)
    BY <1>1, NatLessThanWellFounded, Zenon
<1>3. PICK n \in N : \A m \in N : <<m, n>> \notin Less
    BY <1>2, WFMin
<1>4. \A m \in N : ~(m < n)
    BY <1>3 DEF Less
<1> QED
    BY <1>4

\* The highest of the codes that are taken, none of which is beyond b.
LEMMA HighestCode ==
    ASSUME NEW S, S \subseteq Nat, NEW b \in Nat, \A m \in S : m <= b
    PROVE  Highest(S, 0) \in 0..b /\ \A m \in S : m <= Highest(S, 0)
<1> DEFINE N == {n \in Nat : \A m \in S : m <= n}
<1>1. N \subseteq Nat /\ b \in N
    OBVIOUS
<1>2. \A n \in Nat : n \in N <=> \A m \in S : m <= n
    OBVIOUS
<1> HIDE DEF N
<1>3. PICK n \in N : \A m \in N : n <= m
    BY <1>1, LeastOf
<1>4. n \in Nat /\ n <= b /\ \A m \in S : m <= n
    BY <1>1, <1>2, <1>3
<1>5. n \in S \cup {0}
    <2>1. SUFFICES ASSUME n # 0
                   PROVE  n \in S
        OBVIOUS
    <2>2. n - 1 \in Nat /\ n - 1 \notin N
        BY <2>1, <1>3, <1>4
    <2>3. PICK m \in S : ~(m <= n - 1)
        BY <2>2, <1>2
    <2>4. m \in Nat /\ m <= n
        BY <1>4
    <2>5. m = n
        BY <2>3, <2>4, <1>4
    <2> QED
        BY <2>5
<1>6. \E k \in S \cup {0} : \A m \in S \cup {0} : m <= k
    BY <1>4, <1>5
<1>7. PICK h : h = Highest(S, 0)
    OBVIOUS
<1>8. h \in S \cup {0} /\ \A m \in S \cup {0} : m <= h
    BY <1>6, <1>7, Zenon DEF Highest
<1> QED
    BY <1>7, <1>8

\* The highest of the positions of n items.
LEMMA HighestPosition ==
    ASSUME NEW n \in Nat
    PROVE  Highest(0..(n - 1), -1) = n - 1
<1>1. n - 1 \in (0..(n - 1)) \cup {-1} /\ \A m \in (0..(n - 1)) \cup {-1} : m <= n - 1
    OBVIOUS
<1>2. \E k \in (0..(n - 1)) \cup {-1} : \A m \in (0..(n - 1)) \cup {-1} : m <= k
    BY <1>1
<1>3. PICK h : h = Highest(0..(n - 1), -1)
    OBVIOUS
<1>4. h \in (0..(n - 1)) \cup {-1} /\ \A m \in (0..(n - 1)) \cup {-1} : m <= h
    BY <1>2, <1>3, Zenon DEF Highest
<1>5. h <= n - 1 /\ n - 1 <= h /\ h \in Int
    BY <1>1, <1>4
<1> QED
    BY <1>3, <1>5

\* As many items as positions, no two at the same: every position is taken.
LEMMA PositionsFill ==
    ASSUME NEW S, IsFiniteSet(S), NEW f \in [S -> 0..(Cardinality(S) - 1)],
           \A x, y \in S : f[x] = f[y] => x = y
    PROVE  {f[x] : x \in S} = 0..(Cardinality(S) - 1)
<1> DEFINE n == Cardinality(S)
           T == 0..(n - 1)
<1>1. n \in Nat
    BY FS_CardinalityType
<1>2. IsFiniteSet(T) /\ Cardinality(T) = n
    BY <1>1, FS_Interval
<1>3. f \in Injection(S, T)
    BY DEF Injection, IsInjective
<1>4. f \in Surjection(S, T)
    BY <1>2, <1>3, FS_Injection
<1> QED
    BY <1>4 DEF Surjection

\* The number of items before each, of items at different positions.
Before(S, p, x) == {y \in S : p[y] < p[x]}

\* It is a position, and no two have the same.
LEMMA RanksDiffer ==
    ASSUME NEW S, IsFiniteSet(S), NEW p \in [S -> Nat],
           \A x, y \in S : p[x] = p[y] => x = y
    PROVE  /\ \A x \in S : Cardinality(Before(S, p, x)) \in 0..(Cardinality(S) - 1)
           /\ \A x, y \in S :
                 Cardinality(Before(S, p, x)) = Cardinality(Before(S, p, y)) => x = y
<1>1. ASSUME NEW x \in S
      PROVE  /\ IsFiniteSet(Before(S, p, x)) /\ Cardinality(Before(S, p, x)) \in Nat
             /\ Cardinality(Before(S, p, x)) <= Cardinality(S)
             /\ Cardinality(Before(S, p, x)) # Cardinality(S)
    <2>1. Before(S, p, x) \in SUBSET S /\ x \notin Before(S, p, x)
        BY DEF Before
    <2> QED
        BY <2>1, FS_Subset, FS_CardinalityType
<1>2. Cardinality(S) \in Nat
    BY FS_CardinalityType
<1>3. ASSUME NEW x \in S, NEW y \in S, p[x] < p[y]
      PROVE  Cardinality(Before(S, p, x)) < Cardinality(Before(S, p, y))
    <2>1. Before(S, p, x) \in SUBSET Before(S, p, y)
        <3>1. p[x] \in Nat /\ p[y] \in Nat /\ \A z \in S : p[z] \in Nat
            OBVIOUS
        <3> QED
            BY <1>3, <3>1 DEF Before
    <2>2. x \in Before(S, p, y) /\ x \notin Before(S, p, x)
        BY <1>3 DEF Before
    <2>3. IsFiniteSet(Before(S, p, y))
        BY <1>1
    <2>4. /\ Cardinality(Before(S, p, x)) <= Cardinality(Before(S, p, y))
          /\ Cardinality(Before(S, p, x)) # Cardinality(Before(S, p, y))
        BY <2>1, <2>2, <2>3, FS_Subset
    <2> QED
        BY <2>4, <1>1
<1>4. ASSUME NEW x \in S, NEW y \in S,
             Cardinality(Before(S, p, x)) = Cardinality(Before(S, p, y))
      PROVE  x = y
    <2>1. p[x] \in Nat /\ p[y] \in Nat
        OBVIOUS
    <2>2. Cardinality(Before(S, p, x)) \in Nat
        BY <1>1
    <2>3. ~(p[x] < p[y]) /\ ~(p[y] < p[x])
        BY <1>3, <1>4, <2>2
    <2> QED
        BY <2>1, <2>3
<1>5. \A x \in S : Cardinality(Before(S, p, x)) \in 0..(Cardinality(S) - 1)
    <2> SUFFICES ASSUME NEW x \in S
                 PROVE  Cardinality(Before(S, p, x)) \in 0..(Cardinality(S) - 1)
        OBVIOUS
    <2>1. PICK b : b = Cardinality(Before(S, p, x))
        OBVIOUS
    <2>2. PICK n : n = Cardinality(S)
        OBVIOUS
    <2>3. b \in Nat /\ n \in Nat /\ b <= n /\ b # n
        BY <2>1, <2>2, <1>1, <1>2
    <2>4. b \in 0..(n - 1)
        BY <2>3
    <2> QED
        BY <2>4, <2>1, <2>2
<1> QED
    BY <1>4, <1>5

LEMMA SeqOf ==
    ASSUME NEW S, NEW n \in Nat, NEW f, f = [i \in 1..n |-> f[i]], \A i \in 1..n : f[i] \in S
    PROVE  f \in Seq(S) /\ Len(f) = n
<1>1. f \in [1..n -> S]
    OBVIOUS
<1> QED
    BY <1>1

-----------------------------------------------------------------------------
(* PrintedForms: the menu *)

\* The menu has its type, and codes and positions name one item each.
MenuHolds ==
    /\ menu \in Seq(MenuRows) /\ ItemsAreTold
    /\ \A i, k \in Kept : i # k => menu[i].code # menu[k].code
    /\ {menu[i].position : i \in Kept} = 0..(Cardinality(Kept) - 1)

\* What is on the menu stays, as it is.
RowsStay == \A i \in Kept : i \in Kept' /\ Row(i)' = Row(i)

\* The items of the menu.
LEMMA ItemsAre ==
    ASSUME menu \in Seq(MenuRows)
    PROVE  /\ Len(menu) \in Nat /\ DOMAIN menu = 1..Len(menu)
           /\ \A i \in 1..Len(menu) :
                 /\ menu[i] \in MenuRows /\ menu[i].code \in Nat /\ menu[i].position \in Nat
                 /\ menu[i].label \in Labels \cup {Unset}
           /\ Kept \subseteq 1..Len(menu)
           /\ IsFiniteSet(Kept) /\ Cardinality(Kept) \in Nat
<1>1. Len(menu) \in Nat /\ DOMAIN menu = 1..Len(menu)
    OBVIOUS
<1>2. \A i \in 1..Len(menu) : menu[i] \in MenuRows
    OBVIOUS
<1>3. Kept \in SUBSET (1..Len(menu))
    BY <1>1 DEF Kept
<1>4. IsFiniteSet(1..Len(menu))
    BY <1>1, FS_Interval
<1>5. IsFiniteSet(Kept) /\ Cardinality(Kept) \in Nat
    BY <1>3, <1>4, FS_Subset, FS_CardinalityType
<1> QED
    BY <1>1, <1>2, <1>3, <1>5 DEF MenuRows

\* An item at another position.
LEMMA MovedItem ==
    ASSUME NEW row \in MenuRows, NEW position \in Nat, NEW moved,
           moved = [row EXCEPT !.position = position]
    PROVE  /\ moved \in MenuRows /\ moved.status = row.status /\ moved.code = row.code
           /\ moved.position = position
BY DEF MenuRows

\* A row of the menu can be printed.
LEMMA RowsArePrinted ==
    ASSUME menu \in Seq(MenuRows)
    PROVE  (\A i \in Kept : Row(i) \in PrintedRows) /\ ActiveCatalog \subseteq PrintedRows
<1>1. ASSUME NEW i \in Kept
      PROVE  Row(i) \in PrintedRows
    <2>1. i \in Nat /\ menu[i].code \in Nat /\ menu[i].position \in Nat
          /\ menu[i].label \in Labels \cup {Unset}
        BY ItemsAre
    <2> QED
        BY <2>1 DEF Row, PrintedRows
<1> QED
    BY <1>1 DEF ActiveCatalog

\* A new item has the next code and the next position.
LEMMA AddItemStep ==
    ASSUME MenuHolds, NEW label \in Labels, AddItem(label)
    PROVE  MenuHolds' /\ RowsStay
<1> DEFINE codes == {menu[i].code : i \in Kept}
           code == Highest(codes, 0) + 1
           n == Cardinality(Kept)
           position == Highest({menu[i].position : i \in Kept}, -1) + 1
           len == Len(menu)
           row == [status |-> "on", label |-> label, code |-> code, position |-> position]
<1>1. /\ len \in Nat /\ n \in Nat /\ Kept \subseteq 1..len /\ IsFiniteSet(Kept)
      /\ DOMAIN menu = 1..len /\ \A i \in 1..len : menu[i] \in MenuRows /\ menu[i].code \in Nat
    BY ItemsAre DEF MenuHolds
<1>2. codes \subseteq Nat /\ \A m \in codes : m <= len
    BY <1>1 DEF MenuHolds, ItemsAreTold
<1>3. menu' = Append(menu, row)
    BY DEF AddItem
<1>4. position = n
    <2>1. Highest(0..(n - 1), -1) = n - 1
        BY <1>1, HighestPosition
    <2>2. Highest({menu[i].position : i \in Kept}, -1) = n - 1
        BY <2>1, Zenon DEF MenuHolds
    <2> QED
        BY <2>2, <1>1
<1> HIDE DEF codes
<1>5. Highest(codes, 0) \in 0..len /\ \A m \in codes : m <= Highest(codes, 0)
    BY <1>1, <1>2, HighestCode
<1>6. code \in 1..(len + 1) /\ \A m \in codes : m < code
    BY <1>1, <1>2, <1>5
<1>7. \A i \in Kept : menu[i].code < code
    BY <1>6 DEF codes
<1> HIDE DEF code, position, n
<1>8. row \in MenuRows /\ row.status = "on" /\ row.code = code /\ row.position = n
    BY <1>1, <1>4, <1>6 DEF MenuRows
<1> HIDE DEF row, len
<1>9. /\ menu' \in Seq(MenuRows) /\ Len(menu') = len + 1 /\ DOMAIN menu' = 1..(len + 1)
      /\ menu'[len + 1] = row /\ \A i \in 1..len : menu'[i] = menu[i]
    BY <1>3, <1>8 DEF MenuHolds, len
<1>10. Kept' = Kept \cup {len + 1} /\ len + 1 \notin Kept
    <2>1. len + 1 \in Kept' /\ len + 1 \notin Kept
        BY <1>1, <1>8, <1>9 DEF Kept
    <2>2. \A i \in 1..len : i \in Kept' <=> i \in Kept
        BY <1>1, <1>9 DEF Kept
    <2>3. Kept' \subseteq 1..(len + 1)
        BY <1>9 DEF Kept
    <2>4. \A i \in 1..(len + 1) : i = len + 1 \/ i \in 1..len
        BY <1>1
    <2> QED
        BY <2>1, <2>2, <2>3, <2>4, <1>1
<1>11. Cardinality(Kept') = n + 1
    BY <1>1, <1>10, FS_AddElement DEF n
<1>12. \A i \in Kept : menu'[i] = menu[i] /\ menu[i].position \in 0..(n - 1)
    BY <1>1, <1>9 DEF MenuHolds, n
<1>13. RowsStay
    BY <1>10, <1>12 DEF RowsStay, Row
<1>14. ItemsAreTold'
    <2>1. \A i \in Kept' : menu'[i].code <= Len(menu')
        <3>1. \A i \in Kept : menu[i].code \in Nat /\ menu[i].code <= len
            BY <1>1 DEF MenuHolds, ItemsAreTold, len
        <3> QED
            BY <3>1, <1>1, <1>6, <1>8, <1>9, <1>10, <1>12
    <2>2. \A i, k \in Kept' : menu'[i].position = menu'[k].position => i = k
        <3>1. \A i \in Kept : menu'[i].position # menu'[len + 1].position
            BY <1>1, <1>8, <1>9, <1>12
        <3>2. \A i, k \in Kept : menu'[i].position = menu'[k].position => i = k
            BY <1>12 DEF MenuHolds, ItemsAreTold
        <3> QED
            BY <3>1, <3>2, <1>10
    <2> QED
        BY <2>1, <2>2 DEF ItemsAreTold
<1>15. \A i, k \in Kept' : i # k => menu'[i].code # menu'[k].code
    <2>1. \A i \in Kept : menu'[i].code # menu'[len + 1].code
        <3> SUFFICES ASSUME NEW i \in Kept
                     PROVE  menu'[i].code # menu'[len + 1].code
            OBVIOUS
        <3>1. menu[i].code \in Nat /\ menu[i].code < code /\ code \in Nat
            BY <1>1, <1>6, <1>7
        <3> QED
            BY <3>1, <1>8, <1>9, <1>12
    <2>2. \A i, k \in Kept : i # k => menu'[i].code # menu'[k].code
        BY <1>12 DEF MenuHolds
    <2> QED
        BY <2>1, <2>2, <1>10
<1>16. {menu'[i].position : i \in Kept'} = 0..n
    <2>1. {menu'[i].position : i \in Kept} = 0..(n - 1)
        BY <1>12 DEF MenuHolds, n
    <2>2. {menu'[i].position : i \in Kept'} = {menu'[i].position : i \in Kept} \cup {n}
        BY <1>8, <1>9, <1>10
    <2>3. 0..n = (0..(n - 1)) \cup {n}
        BY <1>1
    <2> QED
        BY <2>1, <2>2, <2>3
<1> QED
    BY <1>1, <1>9, <1>11, <1>13, <1>14, <1>15, <1>16 DEF MenuHolds

\* An edit that leaves the items their codes and positions.
LEMMA NumbersStay ==
    ASSUME MenuHolds, menu' \in Seq(MenuRows), Len(menu') = Len(menu), Kept' = Kept,
           \A i \in Kept : menu'[i].code = menu[i].code /\ menu'[i].position = menu[i].position
    PROVE  MenuHolds'
<1>1. ItemsAreTold'
    BY DEF MenuHolds, ItemsAreTold
<1>2. \A i, k \in Kept' : i # k => menu'[i].code # menu'[k].code
    BY DEF MenuHolds
<1>3. {menu'[i].position : i \in Kept'} = 0..(Cardinality(Kept') - 1)
    BY DEF MenuHolds
<1> QED
    BY <1>1, <1>2, <1>3 DEF MenuHolds

\* The items that stay are put at as many positions.
LEMMA RepositionedStep ==
    ASSUME MenuHolds, NEW S, S \subseteq Kept, NEW f, \A x, y \in S : f[x] = f[y] => x = y,
           {f[x] : x \in S} = 0..(Cardinality(S) - 1),
           menu' \in Seq(MenuRows), Len(menu') = Len(menu), Kept' = S,
           \A i \in S : menu'[i].code = menu[i].code /\ menu'[i].position = f[i]
    PROVE  MenuHolds'
<1>1. ItemsAreTold'
    BY DEF MenuHolds, ItemsAreTold
<1>2. \A i, k \in Kept' : i # k => menu'[i].code # menu'[k].code
    BY DEF MenuHolds
<1>3. {menu'[i].position : i \in Kept'} = {f[i] : i \in S}
    OBVIOUS
<1> QED
    BY <1>1, <1>2, <1>3 DEF MenuHolds

\* One item gets another name, or comes or goes.
LEMMA RelabelledStep ==
    ASSUME MenuHolds, NEW i \in Kept, NEW row \in MenuRows, row.status # "removed",
           row.code = menu[i].code, row.position = menu[i].position,
           menu' = [menu EXCEPT ![i] = row]
    PROVE  MenuHolds' /\ (row.label = menu[i].label => RowsStay)
<1>1. /\ Len(menu) \in Nat /\ DOMAIN menu = 1..Len(menu) /\ Kept \subseteq 1..Len(menu)
      /\ i \in 1..Len(menu) /\ menu[i].code \in Nat /\ menu[i].position \in Nat
    BY ItemsAre DEF MenuHolds
<1>4. /\ menu' \in Seq(MenuRows) /\ Len(menu') = Len(menu) /\ DOMAIN menu' = DOMAIN menu
      /\ menu'[i] = row /\ \A k \in DOMAIN menu : k # i => menu'[k] = menu[k]
    BY <1>1 DEF MenuHolds
<1>5. Kept' = Kept
    BY <1>1, <1>4 DEF Kept
<1>6. \A k \in Kept : menu'[k].code = menu[k].code /\ menu'[k].position = menu[k].position
    BY <1>1, <1>4
<1>7. MenuHolds'
    BY <1>4, <1>5, <1>6, NumbersStay
<1>8. row.label = menu[i].label => RowsStay
    BY <1>1, <1>4, <1>5 DEF RowsStay, Row
<1> QED
    BY <1>7, <1>8

\* A printed name stays.
LEMMA UpdateItemStep ==
    ASSUME MenuHolds, NEW i \in DOMAIN menu, NEW label \in Labels \cup {Unset}, NEW status,
           status \in {"on", "off"} \/ status = menu[i].status, UpdateItem(i, label, status)
    PROVE  MenuHolds' /\ (FormGenerated => RowsStay)
<1>1. i \in Kept /\ (label # menu[i].label => ~FormGenerated)
    BY DEF UpdateItem
<1>2. status \in {"on", "off"}
    BY <1>1, ItemsAre DEF MenuHolds, MenuRows, Kept
<1>3. menu[i] \in MenuRows /\ i \in DOMAIN menu
    BY <1>1, ItemsAre DEF MenuHolds
<1>4. PICK row \in MenuRows : row = menu[i]
    BY <1>3
<1>5. PICK other : other = [row EXCEPT !.label = label, !.status = status]
    OBVIOUS
<1>6. /\ other \in MenuRows /\ other.status = status /\ other.label = label
      /\ other.code = row.code /\ other.position = row.position
    <2>1. label \in Labels \cup {Unset} /\ row \in MenuRows
        OBVIOUS
    <2> QED
        BY ONLY <2>1, <1>2, <1>5 DEF MenuRows
<1>7. menu' = [menu EXCEPT ![i] = other]
    BY <1>3, <1>4, <1>5 DEF UpdateItem
<1>8. other.status # "removed"
    BY <1>2, <1>6
<1>9. MenuHolds' /\ (other.label = menu[i].label => RowsStay)
    BY <1>1, <1>4, <1>6, <1>7, <1>8, RelabelledStep
<1> QED
    BY <1>1, <1>6, <1>9

\* A printed item is hidden; one that was not goes, and the others move up.
LEMMA RemoveItemStep ==
    ASSUME MenuHolds, NEW gone \in DOMAIN menu, RemoveItem(gone)
    PROVE  MenuHolds' /\ (FormGenerated => RowsStay)
<1>1. gone \in Kept /\ gone \in 1..Len(menu)
    BY ItemsAre DEF MenuHolds, RemoveItem
<1>2. CASE FormGenerated
    <2>1. PICK row \in MenuRows : row = menu[gone]
        BY <1>1, ItemsAre DEF MenuHolds
    <2>2. PICK other : other = [row EXCEPT !.status = "off"]
        OBVIOUS
    <2>3. /\ other \in MenuRows /\ other.status = "off" /\ other.label = row.label
          /\ other.code = row.code /\ other.position = row.position
        BY <2>2 DEF MenuRows
    <2>4. menu' = [menu EXCEPT ![gone] = other]
        BY <1>2, <2>1, <2>2 DEF RemoveItem
    <2>5. MenuHolds' /\ (other.label = menu[gone].label => RowsStay)
        BY <1>1, <2>1, <2>3, <2>4, RelabelledStep
    <2> QED
        BY <2>1, <2>3, <2>5
<1>3. CASE ~FormGenerated
    <2> DEFINE S == Kept \ {gone}
               p == [i \in S |-> menu[i].position]
               f == [i \in S |-> Cardinality(Before(S, p, i))]
               n == Len(menu)
    <2>1. /\ n \in Nat /\ DOMAIN menu = 1..n /\ Kept \subseteq 1..n /\ IsFiniteSet(Kept)
          /\ \A i \in 1..n : menu[i] \in MenuRows /\ menu[i].position \in Nat
        BY ItemsAre DEF MenuHolds
    <2>2. IsFiniteSet(S)
        BY <2>1, FS_Subset
    <2>3. p \in [S -> Nat] /\ \A x, y \in S : p[x] = p[y] => x = y
        BY <2>1 DEF MenuHolds, ItemsAreTold
    <2>4. /\ \A i \in S : Cardinality(Before(S, p, i)) \in 0..(Cardinality(S) - 1)
          /\ \A x, y \in S : Cardinality(Before(S, p, x)) = Cardinality(Before(S, p, y)) => x = y
        <3> HIDE DEF S, p
        <3> QED
            BY <2>2, <2>3, RanksDiffer
    <2>5. f \in [S -> 0..(Cardinality(S) - 1)] /\ \A x, y \in S : f[x] = f[y] => x = y
        BY <2>4
    <2>6. {f[x] : x \in S} = 0..(Cardinality(S) - 1)
        <3> HIDE DEF S, f
        <3> QED
            BY <2>2, <2>5, PositionsFill
    <2>7. \A i \in S : f[i] = Cardinality({k \in Kept \ {gone} : menu[k].position < menu[i].position})
        <3> SUFFICES ASSUME NEW i \in S
                     PROVE  f[i] = Cardinality({k \in S : menu[k].position < menu[i].position})
            OBVIOUS
        <3>1. Before(S, p, i) = {k \in S : menu[k].position < menu[i].position}
            BY DEF Before
        <3> QED
            BY <3>1
    <2>8. \A i \in S : f[i] \in Nat
        <3> HIDE DEF f
        <3> QED
            BY <2>5
    <2>9. menu' = Reindexed(gone)
        BY <1>3 DEF RemoveItem
    <2> HIDE DEF f, p
    <2>10. menu' = [i \in 1..n |-> menu'[i]]
        BY <2>1, <2>9 DEF Reindexed
    <2>11. /\ menu'[gone] = [status |-> "removed", label |-> Unset, code |-> 0, position |-> 0]
           /\ \A i \in S : menu'[i] = [menu[i] EXCEPT !.position = f[i]]
           /\ \A i \in 1..n : i \notin Kept => menu'[i] = menu[i]
        BY <2>1, <2>7, <2>9, <1>1 DEF Reindexed
    <2>12. \A i \in S : /\ menu'[i] \in MenuRows /\ menu'[i].status = menu[i].status
                        /\ menu'[i].code = menu[i].code /\ menu'[i].position = f[i]
        <3> SUFFICES ASSUME NEW i \in S
                     PROVE  /\ menu'[i] \in MenuRows /\ menu'[i].status = menu[i].status
                            /\ menu'[i].code = menu[i].code /\ menu'[i].position = f[i]
            OBVIOUS
        <3>1. PICK row \in MenuRows : row = menu[i]
            BY <2>1
        <3>2. PICK position \in Nat : position = f[i]
            BY <2>8
        <3>3. PICK moved : moved = menu'[i]
            OBVIOUS
        <3>4. moved = [row EXCEPT !.position = position]
            BY <2>11, <3>1, <3>2, <3>3
        <3>5. /\ moved \in MenuRows /\ moved.status = row.status /\ moved.code = row.code
              /\ moved.position = position
            BY <3>4, MovedItem
        <3> QED
            BY <3>1, <3>2, <3>3, <3>5
    <2>13. menu'[gone] \in MenuRows /\ menu'[gone].status = "removed"
        BY <2>11 DEF MenuRows
    <2>14. \A i \in 1..n : menu'[i] \in MenuRows
        BY <2>1, <2>11, <2>12, <2>13
    <2>15. menu' \in Seq(MenuRows) /\ Len(menu') = n
        BY <2>1, <2>10, <2>14, SeqOf
    <2>16. Kept' = S
        BY <1>1, <2>1, <2>11, <2>12, <2>13, <2>15 DEF Kept
    <2> HIDE DEF S, n
    <2>17. S \subseteq Kept /\ \A x, y \in S : f[x] = f[y] => x = y
        BY <2>5 DEF S
    <2>18. MenuHolds'
        BY <2>6, <2>12, <2>15, <2>16, <2>17, RepositionedStep DEF n
    <2> QED
        BY <1>3, <2>18
<1> QED
    BY <1>2, <1>3

\* Any order of the items puts one at each position.
LEMMA ReorderStep ==
    ASSUME MenuHolds, NEW place \in Orders, Reorder(place)
    PROVE  MenuHolds' /\ (FormGenerated => RowsStay)
<1> DEFINE n == Len(menu)
<1>1. /\ n \in Nat /\ DOMAIN menu = 1..n /\ Kept \subseteq 1..n /\ IsFiniteSet(Kept)
      /\ \A i \in 1..n : menu[i] \in MenuRows /\ menu[i].position \in Nat
    BY ItemsAre DEF MenuHolds
<1>2. /\ place \in [Kept -> 0..(Cardinality(Kept) - 1)]
      /\ \A i, k \in Kept : place[i] = place[k] => i = k
    BY DEF Orders
<1>3. {place[i] : i \in Kept} = 0..(Cardinality(Kept) - 1)
    BY <1>1, <1>2, PositionsFill
<1>4. \A i \in Kept : place[i] \in Nat
    BY <1>2
<1>5. menu' = [i \in DOMAIN menu |-> IF i \in Kept THEN [menu[i] EXCEPT !.position = place[i]]
                                     ELSE menu[i]]
    BY DEF Reorder
<1>6. \A i \in Kept : menu'[i] = [menu[i] EXCEPT !.position = place[i]]
    BY <1>1, <1>5
<1>7. \A i \in 1..n : i \notin Kept => menu'[i] = menu[i]
    BY <1>1, <1>5
<1>8. \A i \in Kept : /\ menu'[i] \in MenuRows /\ menu'[i].status = menu[i].status
                      /\ menu'[i].code = menu[i].code /\ menu'[i].position = place[i]
    <2> SUFFICES ASSUME NEW i \in Kept
                 PROVE  /\ menu'[i] \in MenuRows /\ menu'[i].status = menu[i].status
                        /\ menu'[i].code = menu[i].code /\ menu'[i].position = place[i]
        OBVIOUS
    <2>1. PICK row \in MenuRows : row = menu[i]
        BY <1>1
    <2>2. PICK position \in Nat : position = place[i]
        BY <1>4
    <2>3. PICK moved : moved = menu'[i]
        OBVIOUS
    <2>4. moved = [row EXCEPT !.position = position]
        BY <1>6, <2>1, <2>2, <2>3
    <2>5. /\ moved \in MenuRows /\ moved.status = row.status /\ moved.code = row.code
          /\ moved.position = position
        BY <2>4, MovedItem
    <2> QED
        BY <2>1, <2>2, <2>3, <2>5
<1>9. \A i \in 1..n : menu'[i] \in MenuRows
    BY <1>1, <1>7, <1>8
<1>10. menu' = [i \in 1..n |-> menu'[i]]
    BY <1>1, <1>5
<1>11. menu' \in Seq(MenuRows) /\ Len(menu') = n
    BY <1>1, <1>9, <1>10, SeqOf
<1>12. Kept' = Kept
    BY <1>1, <1>7, <1>8, <1>11 DEF Kept
<1>13. MenuHolds'
    <2> HIDE DEF n
    <2>1. Kept \subseteq Kept /\ \A x, y \in Kept : place[x] = place[y] => x = y
        BY <1>2
    <2>2. Len(menu') = Len(menu)
        BY <1>11 DEF n
    <2>3. \A i \in Kept : menu'[i].code = menu[i].code /\ menu'[i].position = place[i]
        BY <1>8
    <2> QED
        BY <2>1, <2>2, <2>3, <1>3, <1>11, <1>12, RepositionedStep
<1>14. ~FormGenerated
    BY DEF Reorder
<1> QED
    BY <1>13, <1>14

\* Whatever an administrator does on the menu page.
LEMMA EditMenuStep ==
    ASSUME MenuHolds, EditMenu
    PROVE  MenuHolds' /\ (FormGenerated => RowsStay) /\ MenuOnly
<1>1. CASE AddFromPage
    <2>1. PICK label \in Labels : AddItem(label)
        BY <1>1 DEF AddFromPage
    <2>2. MenuOnly
        BY <2>1 DEF AddItem
    <2> QED
        BY <2>1, <2>2, AddItemStep
<1>2. ASSUME NEW i \in DOMAIN menu, EditRow(i)
      PROVE  MenuHolds' /\ (FormGenerated => RowsStay) /\ MenuOnly
    <2>1. menu[i].label \in Labels \cup {Unset}
        BY ItemsAre DEF MenuHolds
    <2>2. ASSUME NEW status \in {"on", "off"}, UpdateItem(i, menu[i].label, status)
          PROVE  MenuHolds' /\ (FormGenerated => RowsStay) /\ MenuOnly
        <3>1. MenuOnly
            BY <2>2 DEF UpdateItem
        <3> QED
            BY <2>1, <2>2, <3>1, UpdateItemStep
    <2>3. ASSUME NEW label \in Labels, UpdateItem(i, label, menu[i].status)
          PROVE  MenuHolds' /\ (FormGenerated => RowsStay) /\ MenuOnly
        <3>1. MenuOnly
            BY <2>3 DEF UpdateItem
        <3>2. label \in Labels \cup {Unset}
            OBVIOUS
        <3> QED
            BY <2>3, <3>1, <3>2, UpdateItemStep
    <2>4. CASE RemoveItem(i)
        <3>1. MenuOnly
            BY <2>4 DEF RemoveItem
        <3> QED
            BY <2>4, <3>1, RemoveItemStep
    <2> QED
        BY <1>2, <2>2, <2>3, <2>4 DEF EditRow, SaveItem
<1>3. ASSUME NEW place \in Orders, Reorder(place)
      PROVE  MenuHolds' /\ (FormGenerated => RowsStay) /\ MenuOnly
    <2>1. MenuOnly
        BY <1>3 DEF Reorder
    <2> QED
        BY <1>3, <2>1, ReorderStep
<1> QED
    BY <1>1, <1>2, <1>3 DEF EditMenu

-----------------------------------------------------------------------------
(* PrintedForms: templates *)

\* The templates have their type, what they store is what was drawn and what is
\* on the menu, and a mode has one that is active at most.
TemplatesHold ==
    /\ template \in Seq(Templates)
    /\ \A t \in DOMAIN template :
          /\ template[t].drawn = template[t].rows
          /\ \A row \in template[t].rows \cup template[t].known :
                row.item \in Kept /\ Row(row.item) = row
    /\ \A mode \in Modes : Cardinality(Active(mode)) <= 1

\* What waits for the renderer.
DraftsHold ==
    /\ draft \in [Admins -> [mode : Modes \cup {Unset}, rows : SUBSET PrintedRows]]
    /\ \A a \in Admins : draft[a] # NoDraft => draft[a].mode \in Modes

\* Templates outlive the edits of the menu.
LEMMA PaperStays ==
    ASSUME TemplatesHold, template' = template, FormGenerated => RowsStay
    PROVE  TemplatesHold'
<1>1. \A t \in DOMAIN template :
          /\ template[t].drawn = template[t].rows
          /\ \A row \in template[t].rows \cup template[t].known :
                row.item \in Kept' /\ Row(row.item)' = row
    <2> SUFFICES ASSUME NEW t \in DOMAIN template
                 PROVE  /\ template[t].drawn = template[t].rows
                        /\ \A row \in template[t].rows \cup template[t].known :
                              row.item \in Kept' /\ Row(row.item)' = row
        OBVIOUS
    <2>1. RowsStay
        BY DEF FormGenerated
    <2> QED
        BY <2>1 DEF TemplatesHold, RowsStay
<1>2. \A mode \in Modes : Cardinality(Active(mode)') <= 1
    BY DEF TemplatesHold, Active
<1> QED
    BY <1>1, <1>2 DEF TemplatesHold

\* A step that leaves the menu alone.
LEMMA MenuIdle ==
    ASSUME MenuHolds, menu' = menu
    PROVE  MenuHolds'
BY DEF MenuHolds, ItemsAreTold, Kept

\* A step that leaves the menu and the templates alone.
LEMMA CatalogueIdle ==
    ASSUME MenuHolds, TemplatesHold, menu' = menu, template' = template
    PROVE  MenuHolds' /\ TemplatesHold'
<1>1. MenuHolds'
    BY MenuIdle
<1>2. RowsStay
    BY DEF RowsStay, Kept, Row
<1> QED
    BY <1>1, <1>2, PaperStays

\* What is stored is what was drawn, and by the lock it is the menu.
LEMMA ActivateStep ==
    ASSUME MenuHolds, TemplatesHold, DraftsHold, NEW a \in Admins, Activate(a)
    PROVE  MenuHolds' /\ TemplatesHold' /\ DraftsHold'
<1> DEFINE mode == draft[a].mode
           rows == draft[a].rows
           known == {Row(i) : i \in Kept}
           new == [mode |-> mode, active |-> TRUE, rows |-> rows, drawn |-> rows, known |-> known]
           old == [t \in DOMAIN template |->
                      [template[t] EXCEPT !.active = @ /\ template[t].mode # mode]]
           n == Len(template)
<1>1. mode \in Modes /\ rows \in SUBSET PrintedRows
    BY DEF Activate, DraftsHold
<1>2. rows = (IF mode = "full_list" THEN ActiveCatalog ELSE {})
    BY DEF Activate
<1>3. \A row \in rows \cup known : row.item \in Kept /\ Row(row.item) = row
    BY <1>2 DEF ActiveCatalog, Row
<1>4. template' = Append(old, new)
    BY DEF Activate, Activated
<1>5. known \in SUBSET PrintedRows
    BY RowsArePrinted DEF MenuHolds
<1>6. new \in Templates /\ new.mode = mode /\ new.active /\ new.rows = rows
      /\ new.drawn = rows /\ new.known = known
    BY <1>1, <1>5 DEF Templates
<1>7. n \in Nat /\ DOMAIN template = 1..n /\ \A t \in 1..n : template[t] \in Templates
    BY DEF TemplatesHold
<1>8. \A t \in 1..n : old[t] = [template[t] EXCEPT !.active = @ /\ template[t].mode # mode]
    BY <1>7
<1>9. old = [t \in 1..n |-> old[t]]
    BY <1>7
<1>10. menu' = menu /\ draft' = [draft EXCEPT ![a] = NoDraft]
    BY DEF Activate
<1> HIDE DEF old, new, mode, known, rows
<1>11. \A t \in 1..n : /\ old[t] \in Templates /\ old[t].mode = template[t].mode
                       /\ old[t].rows = template[t].rows /\ old[t].drawn = template[t].drawn
                       /\ old[t].known = template[t].known
                       /\ old[t].active <=> template[t].active /\ template[t].mode # mode
    <2> SUFFICES ASSUME NEW t \in 1..n
                 PROVE  /\ old[t] \in Templates /\ old[t].mode = template[t].mode
                        /\ old[t].rows = template[t].rows /\ old[t].drawn = template[t].drawn
                        /\ old[t].known = template[t].known
                        /\ old[t].active <=> template[t].active /\ template[t].mode # mode
        OBVIOUS
    <2>1. PICK row \in Templates : row = template[t]
        BY <1>7
    <2>2. PICK still \in BOOLEAN : still = (row.active /\ row.mode # mode)
        OBVIOUS
    <2>3. old[t] = [row EXCEPT !.active = still]
        BY <1>8, <2>1, <2>2
    <2>4. /\ old[t] \in Templates /\ old[t].mode = row.mode
          /\ old[t].rows = row.rows /\ old[t].drawn = row.drawn
          /\ old[t].known = row.known /\ old[t].active = still
        BY <2>3 DEF Templates
    <2> QED
        BY <2>1, <2>2, <2>4
<1>12. old \in Seq(Templates) /\ Len(old) = n
    BY <1>7, <1>9, <1>11, SeqOf
<1>13. /\ template' \in Seq(Templates) /\ DOMAIN template' = 1..(n + 1)
       /\ template'[n + 1] = new /\ \A t \in 1..n : template'[t] = old[t]
    BY <1>4, <1>6, <1>7, <1>12
<1>14. \A t \in DOMAIN template' :
          /\ template'[t].drawn = template'[t].rows
          /\ \A row \in template'[t].rows \cup template'[t].known :
                row.item \in Kept /\ Row(row.item) = row
    <2> SUFFICES ASSUME NEW t \in 1..(n + 1)
                 PROVE  /\ template'[t].drawn = template'[t].rows
                        /\ \A row \in template'[t].rows \cup template'[t].known :
                              row.item \in Kept /\ Row(row.item) = row
        BY <1>13
    <2>1. CASE t = n + 1
        BY <2>1, <1>3, <1>6, <1>13
    <2>2. CASE t \in 1..n
        <3>1. template'[t].drawn = template[t].drawn /\ template'[t].rows = template[t].rows
              /\ template'[t].known = template[t].known
            BY <2>2, <1>11, <1>13
        <3> QED
            BY <2>2, <3>1, <1>7 DEF TemplatesHold
    <2> QED
        BY <2>1, <2>2, <1>7
<1>15. \A m \in Modes : Cardinality(Active(m)') <= 1
    <2> SUFFICES ASSUME NEW m \in Modes
                 PROVE  Cardinality(Active(m)') <= 1
        OBVIOUS
    <2>1. n + 1 \in Active(m)' <=> m = mode
        BY <1>6, <1>7, <1>13 DEF Active
    <2>2. \A t \in 1..n : t \in Active(m)' <=> t \in Active(m) /\ m # mode
        BY <1>7, <1>11, <1>13 DEF Active
    <2>3. Active(m)' \subseteq 1..(n + 1) /\ Active(m) \subseteq 1..n
        BY <1>7, <1>13 DEF Active
    <2>4. CASE m = mode
        <3>1. Active(m)' = {n + 1}
            BY <2>1, <2>2, <2>3, <2>4, <1>7
        <3>2. Cardinality({n + 1}) = 1
            BY FS_Singleton
        <3> QED
            BY <3>1, <3>2
    <2>5. CASE m # mode
        <3>1. Active(m)' = Active(m)
            BY <2>1, <2>2, <2>3, <2>5, <1>7
        <3> QED
            BY <3>1 DEF TemplatesHold
    <2> QED
        BY <2>4, <2>5
<1>16. Kept' = Kept /\ \A i : Row(i)' = Row(i)
    BY <1>10 DEF Kept, Row
<1>17. TemplatesHold'
    BY <1>13, <1>14, <1>15, <1>16 DEF TemplatesHold
<1>18. MenuHolds'
    BY <1>10, MenuIdle
<1>19. DraftsHold'
    BY <1>10 DEF DraftsHold, NoDraft
<1> QED
    BY <1>17, <1>18, <1>19

\* Templates are made one step at a time.
LEMMA MakeTemplatesStep ==
    ASSUME MenuHolds, TemplatesHold, DraftsHold, MakeTemplates
    PROVE  MenuHolds' /\ TemplatesHold' /\ DraftsHold'
<1>1. ASSUME NEW a \in Admins, NEW mode \in Modes, StartTemplate(a, mode)
      PROVE  MenuHolds' /\ TemplatesHold' /\ DraftsHold'
    <2> DEFINE rows == IF mode = "full_list" THEN ActiveCatalog ELSE {}
    <2>1. menu' = menu /\ template' = template
          /\ draft' = [draft EXCEPT ![a] = [mode |-> mode, rows |-> rows]]
        BY <1>1 DEF StartTemplate
    <2>2. rows \in SUBSET PrintedRows
        BY RowsArePrinted DEF MenuHolds
    <2> HIDE DEF rows
    <2>3. DraftsHold'
        BY <2>1, <2>2 DEF DraftsHold
    <2> QED
        BY <2>1, <2>3, CatalogueIdle
<1>2. ASSUME NEW a \in Admins, TemplateFails(a)
      PROVE  MenuHolds' /\ TemplatesHold' /\ DraftsHold'
    <2>1. menu' = menu /\ template' = template /\ draft' = [draft EXCEPT ![a] = NoDraft]
        BY <1>2 DEF TemplateFails
    <2>2. DraftsHold'
        BY <2>1 DEF DraftsHold, NoDraft
    <2> QED
        BY <2>1, <2>2, CatalogueIdle
<1>3. ASSUME NEW a \in Admins, Activate(a)
      PROVE  MenuHolds' /\ TemplatesHold' /\ DraftsHold'
    BY <1>3, ActivateStep
<1> QED
    BY <1>1, <1>2, <1>3 DEF MakeTemplates

-----------------------------------------------------------------------------
(* PrintedForms: jobs and forms *)

FormRows == [user : Users, batch : Nat, template : Nat, place : Places \cup {Unset},
             valid : BOOLEAN]

JobRows == [pc : {"idle", "sent", "selected", "matched"}, batch : SUBSET Users,
            mode : Modes \cup {Unset}, place : Places \cup {Unset}, template : Nat]

JobsHold == job \in [Jobs -> JobRows] /\ JobsArePlaced

PaperHolds == forms \subseteq FormRows /\ BatchesAreNumbered /\ OneValidForm

LEMMA InvariantParts ==
    /\ FormsInvariant <=> MenuHolds /\ TemplatesHold /\ DraftsHold /\ JobsHold /\ PaperHolds
    /\ MenuHolds' /\ TemplatesHold' /\ DraftsHold' /\ JobsHold' /\ PaperHolds' => FormsInvariant'
BY DEF FormsInvariant, FormsTypeOK, PrintedRowsStay, MenuHolds, TemplatesHold, DraftsHold,
       JobsHold, PaperHolds, FormRows, JobRows

\* One job moves.
LEMMA OneJobMoves ==
    ASSUME JobsHold, NEW j \in Jobs, NEW row \in JobRows, job' = [job EXCEPT ![j] = row],
           row.pc \in {"selected", "matched"} => row.place.zone # Unset,
           row.pc # "idle" => row.batch # {}
    PROVE  JobsHold'
<1>1. job' \in [Jobs -> JobRows] /\ job'[j] = row /\ \A k \in Jobs : k # j => job'[k] = job[k]
    BY DEF JobsHold
<1> QED
    BY <1>1 DEF JobsHold, JobsArePlaced

\* A job that is over.
LEMMA NoJobIs == NoJob \in JobRows /\ NoJob.pc = "idle"
BY DEF NoJob, JobRows

LEMMA JobEnds ==
    ASSUME JobsHold, NEW j \in Jobs, job' = [job EXCEPT ![j] = NoJob]
    PROVE  JobsHold'
<1>1. NoJob \in JobRows /\ NoJob.pc \notin {"selected", "matched"} /\ ~(NoJob.pc # "idle")
    BY NoJobIs
<1> HIDE DEF NoJob
<1> QED
    BY <1>1, OneJobMoves

\* A step that prints nothing.
LEMMA NothingIssued ==
    ASSUME PaperHolds, forms' = forms
    PROVE  PaperHolds' /\ CurrentBatch
<1>1. PaperHolds'
    BY DEF PaperHolds, BatchesAreNumbered, OneValidForm, NextBatch
<1>2. {f \in forms' : f.batch \notin {g.batch : g \in forms}} = {}
    OBVIOUS
<1> QED
    BY <1>1, <1>2 DEF CurrentBatch, PaperHolds, OneValidForm

\* What issueBatch does before it stores anything, and when it fails.
LEMMA JobStep ==
    ASSUME JobsHold, NEW j \in Jobs,
           \/ \E place \in Places : LoadSelection(j, place)
           \/ \E t \in DOMAIN template : LoadTemplate(j, t)
           \/ MatchCatalog(j) \/ IssueFails(j),
           template \in Seq(Templates)
    PROVE  JobsHold' /\ forms' = forms /\ JobOnly
<1>1. PICK row \in JobRows : row = job[j]
    BY DEF JobsHold
<1>2. /\ row.pc \in {"selected", "matched"} => row.place.zone # Unset
      /\ row.pc # "idle" => row.batch # {}
    BY <1>1 DEF JobsHold, JobsArePlaced
<1>3. ASSUME NEW place \in Places, LoadSelection(j, place)
      PROVE  JobsHold' /\ forms' = forms /\ JobOnly
    <2>1. PICK next : next = [row EXCEPT !.pc = "selected", !.place = place]
        OBVIOUS
    <2>2. next \in JobRows /\ next.pc = "selected" /\ next.place = place /\ next.batch = row.batch
        BY <2>1 DEF JobRows
    <2>3. job' = [job EXCEPT ![j] = next]
        BY <1>1, <1>3, <2>1 DEF LoadSelection, JobsHold
    <2>4. row.pc = "sent" /\ place.zone # Unset
        BY <1>1, <1>3 DEF LoadSelection
    <2>5. JobsHold'
        BY <1>2, <2>2, <2>3, <2>4, OneJobMoves
    <2> QED
        BY <1>3, <2>5 DEF LoadSelection
<1>4. ASSUME NEW t \in DOMAIN template, LoadTemplate(j, t)
      PROVE  JobsHold' /\ forms' = forms /\ JobOnly
    <2>1. t \in Nat
        OBVIOUS
    <2>2. PICK next : next = [row EXCEPT !.template = t]
        OBVIOUS
    <2>3. next \in JobRows /\ next.pc = row.pc /\ next.place = row.place /\ next.batch = row.batch
        BY <2>1, <2>2 DEF JobRows
    <2>4. job' = [job EXCEPT ![j] = next]
        BY <1>1, <1>4, <2>2 DEF LoadTemplate, JobsHold
    <2>5. JobsHold'
        BY <1>2, <2>3, <2>4, OneJobMoves
    <2> QED
        BY <1>4, <2>5 DEF LoadTemplate
<1>5. CASE MatchCatalog(j)
    <2>1. PICK next : next = [row EXCEPT !.pc = "matched"]
        OBVIOUS
    <2>2. next \in JobRows /\ next.pc = "matched" /\ next.place = row.place /\ next.batch = row.batch
        BY <2>1 DEF JobRows
    <2>3. job' = [job EXCEPT ![j] = next]
        BY <1>1, <1>5, <2>1 DEF MatchCatalog, JobsHold
    <2>4. row.pc = "selected"
        BY <1>1, <1>5 DEF MatchCatalog
    <2>5. JobsHold'
        BY <1>2, <2>2, <2>3, <2>4, OneJobMoves
    <2> QED
        BY <1>5, <2>5 DEF MatchCatalog
<1>6. CASE IssueFails(j)
    BY <1>6, JobEnds DEF IssueFails
<1> QED
    BY <1>3, <1>4, <1>5, <1>6

\* Sending a batch.
LEMMA SendStep ==
    ASSUME JobsHold, NEW j \in Jobs, NEW batch \in SUBSET Users, NEW mode \in Modes,
           Send(j, batch, mode)
    PROVE  JobsHold'
<1>1. PICK next : next = [NoJob EXCEPT !.pc = "sent", !.batch = batch, !.mode = mode]
    OBVIOUS
<1>2. next \in JobRows /\ next.pc = "sent" /\ next.batch = batch
    BY <1>1, NoJobIs DEF JobRows
<1>3. job' = [job EXCEPT ![j] = next] /\ batch # {}
    BY <1>1 DEF Send, Ticked
<1>4. next.pc \notin {"selected", "matched"} /\ next.batch # {}
    BY <1>2, <1>3
<1> QED
    BY <1>2, <1>3, <1>4, OneJobMoves

\* A batch is stored under the locks: it is whole, true and new, and whoever is
\* in it has no other valid form.
LEMMA CommitBatchStep ==
    ASSUME JobsHold, PaperHolds, NEW j \in Jobs, CommitBatch(j)
    PROVE  JobsHold' /\ PaperHolds' /\ CurrentBatch
<1>1. PICK row \in JobRows : row = job[j]
    BY DEF JobsHold
<1>2. PICK n \in Nat : n + 1 = NextBatch /\ {f.batch : f \in forms} = 1..n
    <2>1. NextBatch \in Nat /\ {f.batch : f \in forms} = 1..(NextBatch - 1)
        BY DEF PaperHolds, BatchesAreNumbered
    <2>2. NextBatch # 0
        <3>1. CASE {f.batch : f \in forms} = {}
            BY <3>1, FS_EmptySet DEF NextBatch
        <3>2. CASE {f.batch : f \in forms} # {}
            BY <2>1, <3>2
        <3> QED
            BY <3>1, <3>2
    <2> QED
        BY <2>1, <2>2
<1>3. /\ row.batch \subseteq Roster(row.place) /\ row.place.zone # Unset /\ row.batch # {}
      /\ row.batch \subseteq Users
      /\ template[row.template].active /\ Matches(row.template)
      /\ forms' = Issue(j) /\ job' = [job EXCEPT ![j] = NoJob]
    <2>1. row.batch \subseteq Users
        BY DEF JobRows
    <2> QED
        BY <1>1, <2>1 DEF CommitBatch, JobsHold, JobsArePlaced
<1>4. JobsHold'
    BY <1>3, JobEnds
<1> DEFINE kept(f) == IF f.user \in row.batch THEN [f EXCEPT !.valid = FALSE] ELSE f
           issued(u) == [user |-> u, batch |-> n + 1, template |-> row.template,
                         place |-> row.place, valid |-> TRUE]
<1>5. forms' = {kept(f) : f \in forms} \cup {issued(u) : u \in row.batch}
    BY <1>1, <1>2, <1>3 DEF Issue, Issued
<1>6. \A f \in forms : /\ kept(f) \in FormRows /\ kept(f).batch = f.batch /\ kept(f).user = f.user
                       /\ kept(f).valid => f.user \notin row.batch /\ kept(f) = f
    BY DEF PaperHolds, FormRows
<1>7. \A u \in row.batch : /\ issued(u) \in FormRows /\ issued(u).batch = n + 1
                           /\ issued(u).user = u /\ issued(u).place = row.place
                           /\ issued(u).template = row.template
    BY <1>3 DEF FormRows, JobRows
<1> HIDE DEF kept, issued
<1>8. \A f \in forms' : \/ \E g \in forms : f = kept(g)
                        \/ \E u \in row.batch : f = issued(u)
    BY <1>5
<1>9. forms' \subseteq FormRows
    BY <1>6, <1>7, <1>8
<1>10. {f.batch : f \in forms'} = 1..(n + 1)
    <2>1. {f.batch : f \in forms'} \subseteq (1..n) \cup {n + 1}
        BY <1>2, <1>6, <1>7, <1>8
    <2>2. ASSUME NEW b \in 1..n
          PROVE  b \in {f.batch : f \in forms'}
        <3>1. PICK f \in forms : f.batch = b
            BY <1>2
        <3>2. kept(f) \in forms' /\ kept(f).batch = b
            BY <3>1, <1>5, <1>6
        <3> QED
            BY <3>2
    <2>3. n + 1 \in {f.batch : f \in forms'}
        <3>1. PICK u \in row.batch : TRUE
            BY <1>3
        <3>2. issued(u) \in forms' /\ issued(u).batch = n + 1
            BY <3>1, <1>5, <1>7
        <3> QED
            BY <3>2
    <2>4. 1..(n + 1) = (1..n) \cup {n + 1}
        OBVIOUS
    <2> QED
        BY <2>1, <2>2, <2>3, <2>4
<1>11. BatchesAreNumbered'
    <2>1. Cardinality(1..(n + 1)) = n + 1
        BY FS_Interval
    <2>2. Cardinality({f.batch : f \in forms'}) = n + 1
        BY <1>10, <2>1, Zenon
    <2>3. NextBatch' = 1 + Cardinality({f.batch : f \in forms'})
        BY Zenon DEF NextBatch
    <2>4. NextBatch' = n + 2
        BY <2>2, <2>3
    <2> QED
        BY <1>10, <2>4 DEF BatchesAreNumbered
<1>12. OneValidForm'
    <2> SUFFICES ASSUME NEW f \in forms', NEW g \in forms', f.valid, g.valid, f.user = g.user
                 PROVE  f = g
        BY DEF OneValidForm
    <2>1. ASSUME NEW p \in forms, NEW q \in forms, f = kept(p), g = kept(q)
          PROVE  f = g
        BY <2>1, <1>6 DEF PaperHolds, OneValidForm
    <2>2. ASSUME NEW u \in row.batch, f = issued(u)
          PROVE  f = g
        BY <2>2, <1>6, <1>7, <1>8
    <2>3. ASSUME NEW u \in row.batch, g = issued(u)
          PROVE  f = g
        BY <2>3, <1>6, <1>7, <1>8
    <2> QED
        BY <2>1, <2>2, <2>3, <1>8
<1>13. ASSUME NEW f \in forms', f.batch \notin {g.batch : g \in forms}
       PROVE  /\ f.user \in row.batch /\ f.place = row.place /\ f.template = row.template
    <2>1. ~ \E g \in forms : f = kept(g)
        BY <1>6, <1>13
    <2>2. PICK u \in row.batch : f = issued(u)
        BY <2>1, <1>8
    <2> QED
        BY <2>2, <1>7
<1>14. CurrentBatch
    <2>1. \A u \in row.batch : user[u].active /\ user[u].place = row.place
        BY <1>3 DEF Roster
    <2>2. template[row.template].mode = "full_list" => template[row.template].rows = ActiveCatalog
        BY <1>3 DEF Matches
    <2> DEFINE fresh == {f \in forms' : f.batch \notin {g.batch : g \in forms}}
    <2>3. \A f \in fresh : f.user \in row.batch /\ f.place = row.place /\ f.template = row.template
        BY <1>13
    <2> HIDE DEF fresh
    <2>4. \A f \in fresh : /\ user[f.user].active /\ user[f.user].place = f.place
                           /\ f.place.zone # Unset /\ template[f.template].active
                           /\ template[f.template].mode = "full_list" =>
                                 template[f.template].rows = ActiveCatalog
                           /\ \A g \in fresh : f.place = g.place
        BY <1>3, <2>1, <2>2, <2>3
    <2> QED
        BY <1>12, <2>4 DEF CurrentBatch, OneValidForm, fresh
<1> QED
    BY <1>4, <1>9, <1>11, <1>12, <1>14 DEF PaperHolds

-----------------------------------------------------------------------------
(* PrintedForms: the invariant *)

\* Two items and nothing printed.
LEMMA FormsInitInvariant == FormsInit => FormsInvariant
<1> SUFFICES ASSUME FormsInit
             PROVE  FormsInvariant
    OBVIOUS
<1>1. PICK label \in Labels :
          menu = [i \in 1..2 |-> [status |-> "on", label |-> label, code |-> i, position |-> i - 1]]
    BY DEF FormsInit
<1>2. /\ template = <<>> /\ forms = {} /\ draft = [a \in Admins |-> NoDraft]
      /\ job = [j \in Jobs |-> NoJob]
    BY DEF FormsInit
<1>3. MenuHolds
    <2>1. \A i \in 1..2 : /\ menu[i] \in MenuRows /\ menu[i].status = "on"
                          /\ menu[i].code = i /\ menu[i].position = i - 1
        BY <1>1 DEF MenuRows
    <2>2. menu = [i \in 1..2 |-> menu[i]]
        BY <1>1
    <2>3. menu \in Seq(MenuRows) /\ Len(menu) = 2
        BY <2>1, <2>2, SeqOf
    <2>4. Kept = 1..2
        BY <2>1, <2>3 DEF Kept
    <2>5. Cardinality(Kept) = 2
        <3>1. PICK n \in Nat : n = 2
            OBVIOUS
        <3>2. Cardinality(1..n) = n
            <4>1. 1 \in Int /\ n \in Int
                OBVIOUS
            <4>2. Cardinality(1..n) = IF 1 > n THEN 0 ELSE n - 1 + 1
                BY ONLY <4>1, FS_Interval
            <4> QED
                BY <3>1, <4>2
        <3> QED
            BY <2>4, <3>1, <3>2
    <2>6. {menu[i].position : i \in Kept} = 0..1
        BY <2>1, <2>4
    <2>7. ItemsAreTold
        BY <2>1, <2>3, <2>4 DEF ItemsAreTold
    <2> QED
        BY <2>1, <2>3, <2>4, <2>5, <2>6, <2>7 DEF MenuHolds
<1>4. TemplatesHold
    <2>1. \A mode : Active(mode) = {}
        BY <1>2 DEF Active
    <2>2. \A mode : Cardinality(Active(mode)) = 0
        BY <2>1, FS_EmptySet
    <2> QED
        BY <1>2, <2>2 DEF TemplatesHold
<1>5. DraftsHold
    BY <1>2 DEF DraftsHold, NoDraft
<1>6. JobsHold
    BY <1>2, NoJobIs DEF JobsHold, JobsArePlaced
<1>7. PaperHolds
    <2>1. {f.batch : f \in forms} = {}
        BY <1>2
    <2>2. NextBatch = 1
        BY <2>1, FS_EmptySet DEF NextBatch
    <2> QED
        BY <1>2, <2>1, <2>2 DEF PaperHolds, BatchesAreNumbered, OneValidForm
<1> QED
    BY <1>3, <1>4, <1>5, <1>6, <1>7, InvariantParts

\* A step that leaves the catalogue, the drafts, the jobs and the forms alone.
LEMMA ElsewhereStep ==
    ASSUME FormsInvariant, UNCHANGED <<menu, template, draft, job, forms>>
    PROVE  FormsInvariant' /\ CurrentBatch
<1>1. DraftsHold'
    BY InvariantParts DEF DraftsHold
<1>2. JobsHold'
    BY InvariantParts DEF JobsHold, JobsArePlaced
<1>3. MenuHolds' /\ TemplatesHold'
    BY InvariantParts, CatalogueIdle
<1>4. PaperHolds' /\ CurrentBatch
    BY InvariantParts, NothingIssued
<1> QED
    BY <1>1, <1>2, <1>3, <1>4, InvariantParts

LEMMA FormsStep ==
    ASSUME FormsInvariant, [FormsNext]_formsVars
    PROVE  FormsInvariant' /\ CurrentBatch
<1>1. MenuHolds /\ TemplatesHold /\ DraftsHold /\ JobsHold /\ PaperHolds
    BY InvariantParts
<1>2. CASE EditMenu
    <2>1. MenuHolds' /\ (FormGenerated => RowsStay) /\ MenuOnly
        BY <1>1, <1>2, EditMenuStep
    <2>2. TemplatesHold'
        BY <1>1, <2>1, PaperStays DEF MenuOnly
    <2>3. DraftsHold' /\ JobsHold'
        BY <1>1, <2>1 DEF MenuOnly, DraftsHold, JobsHold, JobsArePlaced
    <2>4. PaperHolds' /\ CurrentBatch
        BY <1>1, <2>1, NothingIssued DEF MenuOnly
    <2> QED
        BY <2>1, <2>2, <2>3, <2>4, InvariantParts
<1>3. CASE MakeTemplates
    <2>1. MenuHolds' /\ TemplatesHold' /\ DraftsHold'
        BY <1>1, <1>3, MakeTemplatesStep
    <2>2. UNCHANGED <<job, forms>>
        BY <1>3 DEF MakeTemplates, StartTemplate, TemplateFails, Activate
    <2>3. JobsHold'
        BY <1>1, <2>2 DEF JobsHold, JobsArePlaced
    <2>4. PaperHolds' /\ CurrentBatch
        BY <1>1, <2>2, NothingIssued
    <2> QED
        BY <2>1, <2>3, <2>4, InvariantParts
<1>4. CASE UsePage
    <2>1. CASE OpenPage \/ \E place \in Places : ChoosePlace(place)
        BY <2>1, ElsewhereStep DEF OpenPage, ChoosePlace
    <2>2. ASSUME NEW j \in Jobs, NEW batch \in SUBSET Users, NEW mode \in Modes,
                 Send(j, batch, mode)
          PROVE  FormsInvariant' /\ CurrentBatch
        <3>1. UNCHANGED <<menu, template, draft, forms>>
            BY <2>2 DEF Send
        <3>2. JobsHold'
            BY <1>1, <2>2, SendStep
        <3>3. DraftsHold'
            BY <1>1, <3>1 DEF DraftsHold
        <3>4. MenuHolds' /\ TemplatesHold'
            BY <1>1, <3>1, CatalogueIdle
        <3>5. PaperHolds' /\ CurrentBatch
            BY <1>1, <3>1, NothingIssued
        <3> QED
            BY <3>2, <3>3, <3>4, <3>5, InvariantParts
    <2> QED
        BY <1>4, <2>1, <2>2 DEF UsePage
<1>5. CASE IssueBatch
    <2>1. PICK j \in Jobs : \/ \E place \in Places : LoadSelection(j, place)
                            \/ \E t \in DOMAIN template : LoadTemplate(j, t)
                            \/ MatchCatalog(j) \/ CommitBatch(j) \/ IssueFails(j)
        BY <1>5 DEF IssueBatch
    <2>2. JobsHold' /\ PaperHolds' /\ CurrentBatch /\ JobOnly
        <3>1. CASE CommitBatch(j)
            <4>1. JobOnly
                BY <3>1 DEF CommitBatch
            <4> QED
                BY <1>1, <3>1, <4>1, CommitBatchStep
        <3>2. CASE ~CommitBatch(j)
            <4>1. JobsHold' /\ forms' = forms /\ JobOnly
                BY <1>1, <2>1, <3>2, JobStep DEF TemplatesHold
            <4> QED
                BY <1>1, <4>1, NothingIssued
        <3> QED
            BY <3>1, <3>2
    <2>3. UNCHANGED <<menu, template, draft>>
        BY <2>2 DEF JobOnly
    <2>4. DraftsHold'
        BY <1>1, <2>3 DEF DraftsHold
    <2>5. MenuHolds' /\ TemplatesHold'
        BY <1>1, <2>3, CatalogueIdle
    <2> QED
        BY <2>2, <2>4, <2>5, InvariantParts
<1>6. CASE PrintMasters
    BY <1>6, ElsewhereStep DEF PrintMasters, AskMaster, RenderMaster, MasterComes, MasterFails
<1>7. CASE \E u \in Users, free \in BOOLEAN, place \in Places : MoveUser(u, free, place)
    BY <1>7, ElsewhereStep DEF MoveUser
<1>8. CASE UNCHANGED formsVars
    BY <1>8, ElsewhereStep DEF formsVars
<1> QED
    BY <1>2, <1>3, <1>4, <1>5, <1>6, <1>7, <1>8 DEF FormsNext

LEMMA FormsInvariantHolds == FormsSpec => []FormsInvariant
<1>1. FormsInvariant /\ [FormsNext]_formsVars => FormsInvariant'
    BY FormsStep
<1> QED
    BY <1>1, FormsInitInvariant, PTL DEF FormsSpec

-----------------------------------------------------------------------------
(* PrintedForms: the results *)

\* Paper outlives the menu: an item that is on a template, or was on the menu when
\* one was made, keeps its code, label and position; codes and positions name one
\* item each, and a mode has one active template at most.
THEOREM PaperOutlivesTheMenu == FormsSpec => []PrintedRowsStay
<1>1. FormsInvariant => PrintedRowsStay
    BY DEF FormsInvariant
<1> QED
    BY <1>1, FormsInvariantHolds, PTL

\* A batch is whole and true at the moment it is stored, however long the renderer
\* took, and leaves each prisoner one valid form of the date.
THEOREM BatchesAreCurrent == FormsSpec => BatchIsCurrent
<1>1. FormsInvariant /\ [FormsNext]_formsVars => [CurrentBatch]_formsVars
    BY FormsStep
<1> QED
    BY <1>1, FormsInvariantHolds, PTL DEF FormsSpec, BatchIsCurrent

=============================================================================
