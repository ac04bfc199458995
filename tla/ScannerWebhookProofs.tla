------------------------ MODULE ScannerWebhookProofs ------------------------
(***************************************************************************)
(* Proofs about the manager's end of the scanner, for any payloads,        *)
(* artifacts, number of backend processes and retention periods: a         *)
(* document revision opens one review at most, receipts implement the      *)
(* one-step CallbackInbox, and evidence on offer is on disk until its      *)
(* purge.                                                                  *)
(*                                                                         *)
(* The first two rest on what a receipt knows behind its two advisory      *)
(* locks (ReceiptsInv), the last on the fence of an import, the grace      *)
(* period of files and the order of the two retention periods              *)
(* (EvidenceInv).                                                          *)
(***************************************************************************)
EXTENDS ScannerWebhook, TLAPS

-----------------------------------------------------------------------------
(* Types *)

LEMMA NoRowsTyped ==
    /\ NoRequest \in RequestMemories /\ NoEvent \in EventRows /\ NoSheet \in SheetRows
    /\ NoJob \in JobRows /\ NoImport \in ImporterMemories
BY DEF NoRequest, RequestMemories, NoEvent, EventRows, NoSheet, SheetRows, NoJob, JobRows,
       NoImport, ImporterMemories, Outcomes

LEMMA InitTypes == Init => TypeOK
<1> SUFFICES ASSUME Init
             PROVE  TypeOK
    OBVIOUS
<1>1. NoRequest.pc = "idle" /\ NoImport.pc = "idle"
    BY DEF NoRequest, NoImport
<1> QED
    BY <1>1, NoRowsTyped DEF Init, TypeOK

\* A receipt's memory is typed when its payload is.
LEMMA GoTyped ==
    ASSUME TypeOK, NEW r \in Requests, NEW p \in Payloads, NEW pc \in {"event", "result", "commit"},
           NEW double \in BOOLEAN, Go(r, pc, p, double)
    PROVE  /\ request' \in [Requests -> RequestMemories]
           /\ \A s \in Requests : request'[s].pc # "idle" => request'[s].payload \in Payloads
<1> DEFINE new == [pc |-> pc, payload |-> p, double |-> double]
<1>1. new \in RequestMemories /\ new.payload = p
    BY DEF RequestMemories
<1>2. request' = [request EXCEPT ![r] = new]
    BY DEF Go
<1>3. request \in [Requests -> RequestMemories]
    BY DEF TypeOK
<1>4. \A s \in Requests : request[s].pc # "idle" => request[s].payload \in Payloads
    BY DEF TypeOK
<1> HIDE DEF new
<1> QED
    BY <1>1, <1>2, <1>3, <1>4

\* So it is when a receipt ends.
LEMMA EndTyped ==
    ASSUME TypeOK, NEW r \in Requests, request' = [request EXCEPT ![r] = NoRequest]
    PROVE  /\ request' \in [Requests -> RequestMemories]
           /\ \A s \in Requests : request'[s].pc # "idle" => request'[s].payload \in Payloads
<1>1. request \in [Requests -> RequestMemories]
    BY DEF TypeOK
<1>2. \A s \in Requests : request[s].pc # "idle" => request[s].payload \in Payloads
    BY DEF TypeOK
<1>3. NoRequest \in RequestMemories /\ NoRequest.pc = "idle"
    BY NoRowsTyped DEF NoRequest
<1> QED
    BY <1>1, <1>2, <1>3

\* A delivery that finds its event changes the state of it at most.
LEMMA RecognisedRows ==
    ASSUME TypeOK, NEW p \in Payloads, Recognised(p)
    PROVE  /\ event' \in [Events -> EventRows]
           /\ p.event \in Events /\ event[p.event] # NoEvent
           /\ \A e \in Events : event'[e].payload = event[e].payload
           /\ \A e \in Events : event'[e] # event[e] =>
                  e = p.event /\ event'[e].state = "integrity_fault"
<1>1. event \in [Events -> EventRows] /\ p.event \in Events
    BY DEF TypeOK, Events
<1>2. \/ event' = event
      \/ event' = [event EXCEPT ![p.event].state = "integrity_fault"]
    BY DEF Recognised
<1>3. event[p.event] # NoEvent
    BY DEF Recognised
<1>4. CASE event' = event
    BY <1>1, <1>3, <1>4
<1>5. CASE event' = [event EXCEPT ![p.event].state = "integrity_fault"]
  <2>1. event' = [event EXCEPT ![p.event] = [event[p.event] EXCEPT !.state = "integrity_fault"]]
      BY <1>1, <1>5
  <2>2. [event[p.event] EXCEPT !.state = "integrity_fault"] \in EventRows
      BY <1>1 DEF EventRows
  <2>3. /\ [event[p.event] EXCEPT !.state = "integrity_fault"].state = "integrity_fault"
        /\ [event[p.event] EXCEPT !.state = "integrity_fault"].payload = event[p.event].payload
      BY <1>1 DEF EventRows
  <2> QED
      BY <1>1, <1>3, <2>1, <2>2, <2>3
<1> QED
    BY <1>2, <1>4, <1>5

-----------------------------------------------------------------------------
(* What the actions make of the rows *)

\* The row of one job is replaced.
LEMMA JobReplaced ==
    ASSUME TypeOK, NEW k \in Evidence, NEW row \in JobRows, job' = [job EXCEPT ![k] = row]
    PROVE  /\ job' \in [Evidence -> JobRows] /\ job'[k] = row
           /\ \A l \in Evidence \ {k} : job'[l] = job[l]
BY DEF TypeOK

LEMMA ClaimRows ==
    ASSUME TypeOK, NEW i \in Importers, NEW k \in Evidence, Claim(i, k)
    PROVE  /\ job' \in [Evidence -> JobRows]
           /\ \A l \in Evidence \ {k} : job'[l] = job[l]
           /\ job[k].state \in Recoverable
           /\ job'[k].state = "processing" /\ job'[k].token = i /\ job'[k].path = job[k].path
           /\ importer[i] = NoImport
           /\ importer' \in [Importers -> ImporterMemories]
           /\ \A j \in Importers \ {i} : importer'[j] = importer[j]
           /\ importer'[i].pc = "claimed" /\ importer'[i].job = k
<1> DEFINE row == [job[k] EXCEPT !.state = "processing", !.token = i, !.lease = TRUE]
           memory == [pc |-> "claimed", job |-> k, outcome |-> None]
<1>1. job \in [Evidence -> JobRows] /\ importer \in [Importers -> ImporterMemories]
    BY DEF TypeOK
<1>2. row \in JobRows /\ row.state = "processing" /\ row.token = i /\ row.path = job[k].path
    BY <1>1 DEF JobRows
<1>3. job' = [job EXCEPT ![k] = row]
    BY <1>1 DEF Claim
<1>4. memory \in ImporterMemories /\ memory.pc = "claimed" /\ memory.job = k
    BY DEF ImporterMemories
<1>5. importer' = [importer EXCEPT ![i] = memory] /\ importer[i] = NoImport
    BY DEF Claim
<1>6. job[k].state \in Recoverable
    BY DEF Claim, Due, Recoverable
<1> HIDE DEF row, memory
<1> QED
    BY <1>1, <1>2, <1>3, <1>4, <1>5, <1>6, JobReplaced

LEMMA LeaseRows ==
    ASSUME TypeOK, NEW k \in Evidence,
           LeaseRunsOut(k) \/ RetryDue(k)
    PROVE  /\ job' \in [Evidence -> JobRows]
           /\ \A l \in Evidence : /\ job'[l].state = job[l].state /\ job'[l].token = job[l].token
                                  /\ job'[l].path = job[l].path
<1>1. job \in [Evidence -> JobRows]
    BY DEF TypeOK
<1>2. CASE LeaseRunsOut(k)
  <2> DEFINE row == [job[k] EXCEPT !.lease = FALSE]
  <2>1. /\ row \in JobRows
        /\ row.state = job[k].state /\ row.token = job[k].token /\ row.path = job[k].path
      BY <1>1 DEF JobRows
  <2>2. job' = [job EXCEPT ![k] = row]
      BY <1>1, <1>2 DEF LeaseRunsOut
  <2> HIDE DEF row
  <2> QED
      BY <2>1, <2>2, JobReplaced
<1>3. CASE RetryDue(k)
  <2> DEFINE row == [job[k] EXCEPT !.due = TRUE]
  <2>1. /\ row \in JobRows
        /\ row.state = job[k].state /\ row.token = job[k].token /\ row.path = job[k].path
      BY <1>1 DEF JobRows
  <2>2. job' = [job EXCEPT ![k] = row]
      BY <1>1, <1>3 DEF RetryDue
  <2> HIDE DEF row
  <2> QED
      BY <2>1, <2>2, JobReplaced
<1> QED
    BY <1>2, <1>3

LEMMA RetryRows ==
    ASSUME TypeOK, NEW k \in Evidence, RetryScannerArtifact(k)
    PROVE  /\ job' \in [Evidence -> JobRows]
           /\ \A l \in Evidence \ {k} : job'[l] = job[l]
           /\ job[k].state \in {"missing", "permanent_failed", "integrity_fault"}
           /\ job'[k].state = "retrying" /\ ~job'[k].path
           /\ day < ArtifactDays
<1> DEFINE row == [state |-> "retrying", token |-> None, lease |-> FALSE, due |-> TRUE,
                   path |-> FALSE]
<1>1. row \in JobRows /\ row.state = "retrying" /\ ~row.path
    BY DEF JobRows, Outcomes
<1>2. job' = [job EXCEPT ![k] = row]
    BY DEF RetryScannerArtifact
<1>3. job[k].state \in {"missing", "permanent_failed", "integrity_fault"} /\ day < ArtifactDays
    BY WebhookAssumption DEF RetryScannerArtifact, RetentionExpired, TypeOK
<1> HIDE DEF row
<1> QED
    BY <1>1, <1>2, <1>3, JobReplaced

LEMMA DownloadRows ==
    ASSUME TypeOK, NEW i \in Importers, Download(i)
    PROVE  /\ importer[i].pc = "claimed" /\ importer[i].job \in Evidence
           /\ importer' \in [Importers -> ImporterMemories]
           /\ \A j \in Importers \ {i} : importer'[j] = importer[j]
           /\ importer'[i].pc = "fetched" /\ importer'[i].job = importer[i].job
           /\ importer'[i].outcome \in Outcomes
           /\ \/ importer'[i].outcome # "available" /\ UNCHANGED <<file, stray>>
              \/ /\ file' = [file EXCEPT ![importer[i].job] = "young"]
                 /\ stray' = IF OwnClaim(i) THEN stray ELSE stray \cup {importer[i].job}
           /\ faults' \in Nat
<1> DEFINE memory(o) == [importer[i] EXCEPT !.pc = "fetched", !.outcome = o]
<1>1. importer \in [Importers -> ImporterMemories] /\ faults \in Nat
    BY DEF TypeOK
<1>2. importer[i].pc = "claimed" /\ importer[i].job \in Evidence
    BY DEF Download, TypeOK
<1>3. PICK o \in Outcomes :
        /\ importer' = [importer EXCEPT ![i].pc = "fetched", ![i].outcome = o]
        /\ \/ o # "available" /\ UNCHANGED <<file, stray>>
           \/ /\ file' = [file EXCEPT ![importer[i].job] = "young"]
              /\ stray' = IF OwnClaim(i) THEN stray ELSE stray \cup {importer[i].job}
        /\ faults' \in Nat
  <2>1. FinalOutcomes \subseteq Outcomes \ {"available"}
      BY DEF FinalOutcomes, Outcomes
  <2>2. "retrying" \in Outcomes /\ "available" \in Outcomes
      BY DEF Outcomes
  <2> QED
      BY <1>1, <2>1, <2>2 DEF Download, Fault
<1>4. importer' = [importer EXCEPT ![i] = memory(o)]
    BY <1>1, <1>3
<1>5. /\ memory(o) \in ImporterMemories
      /\ memory(o).pc = "fetched" /\ memory(o).job = importer[i].job /\ memory(o).outcome = o
    BY <1>1 DEF ImporterMemories
<1> HIDE DEF memory
<1> QED
    BY <1>1, <1>2, <1>3, <1>4, <1>5

\* The outcome of an import reaches the rows only under its own claim.
LEMMA FinishRows ==
    ASSUME TypeOK, NEW i \in Importers, Finish(i)
    PROVE  /\ importer[i].pc = "fetched" /\ importer[i].outcome \in Outcomes
           /\ importer[i].job \in Evidence
           /\ importer' = [importer EXCEPT ![i] = NoImport]
           /\ job' \in [Evidence -> JobRows] /\ sheet' \in [Events -> SheetRows]
           /\ \A l \in Evidence \ {importer[i].job} : job'[l] = job[l]
           /\ \A e \in Events : /\ sheet'[e].status = sheet[e].status
                                /\ sheet'[e].processed = sheet[e].processed
           /\ \/ UNCHANGED <<job, sheet>>
              \/ /\ OwnClaim(i)
                 /\ job'[importer[i].job].state = importer[i].outcome
                 /\ job'[importer[i].job].path =
                        (job[importer[i].job].path \/ importer[i].outcome = "available")
                 /\ \/ UNCHANGED sheet
                       /\ ~(importer[i].outcome = "available" /\ importer[i].job[2] = Source)
                    \/ /\ importer[i].outcome = "available" /\ importer[i].job[2] = Source
                       /\ sheet'[importer[i].job[1]].image = "file"
                       /\ \A e \in Events \ {importer[i].job[1]} : sheet'[e] = sheet[e]
<1> DEFINE k == importer[i].job  o == importer[i].outcome
           row == [state |-> o, token |-> None, lease |-> FALSE,
                   due |-> o # "retrying", path |-> job[k].path \/ o = "available"]
           shown == [sheet[k[1]] EXCEPT !.image = "file"]
<1>1. /\ job \in [Evidence -> JobRows] /\ sheet \in [Events -> SheetRows]
      /\ importer[i].pc = "fetched" /\ o \in Outcomes /\ k \in Evidence
    BY DEF Finish, TypeOK
<1>2. importer' = [importer EXCEPT ![i] = NoImport]
    BY DEF Finish
<1>3. k[1] \in Events
    BY <1>1 DEF Evidence
<1>4. CASE UNCHANGED <<job, sheet>>
    BY <1>1, <1>2, <1>4
<1>5. CASE ~UNCHANGED <<job, sheet>>
  <2>1. /\ OwnClaim(i) /\ job' = [job EXCEPT ![k] = row]
        /\ \/ UNCHANGED sheet /\ ~(o = "available" /\ k[2] = Source)
           \/ o = "available" /\ k[2] = Source /\ sheet' = [sheet EXCEPT ![k[1]].image = "file"]
      BY <1>1, <1>5 DEF Finish
  <2>2. row \in JobRows /\ row.state = o /\ row.path = (job[k].path \/ o = "available")
      BY <1>1 DEF JobRows
  <2>3. job' \in [Evidence -> JobRows] /\ job'[k] = row
        /\ \A l \in Evidence \ {k} : job'[l] = job[l]
    <3> HIDE DEF row, k
    <3> QED
        BY <1>1, <2>1, <2>2, JobReplaced
  <2>4. /\ shown \in SheetRows /\ shown.status = sheet[k[1]].status /\ shown.image = "file"
        /\ shown.processed = sheet[k[1]].processed
      BY <1>1, <1>3 DEF SheetRows
  <2>5. /\ sheet' \in [Events -> SheetRows]
        /\ \A e \in Events : /\ sheet'[e].status = sheet[e].status
                             /\ sheet'[e].processed = sheet[e].processed
        /\ \/ UNCHANGED sheet /\ ~(o = "available" /\ k[2] = Source)
           \/ /\ o = "available" /\ k[2] = Source /\ sheet'[k[1]].image = "file"
              /\ \A e \in Events \ {k[1]} : sheet'[e] = sheet[e]
    <3>1. CASE UNCHANGED sheet /\ ~(o = "available" /\ k[2] = Source)
        BY <1>1, <3>1
    <3>2. CASE o = "available" /\ k[2] = Source /\ sheet' = [sheet EXCEPT ![k[1]].image = "file"]
      <4>1. sheet' = [sheet EXCEPT ![k[1]] = shown]
          BY <1>1, <3>2
      <4> HIDE DEF shown, k
      <4> QED
          BY <1>1, <1>3, <2>4, <3>2, <4>1
    <3> QED
        BY <2>1, <3>1, <3>2
  <2> HIDE DEF row
  <2> QED
      BY <1>1, <1>2, <2>1, <2>2, <2>3, <2>5
<1> QED
    BY <1>4, <1>5

\* An operator decides a sheet that is flagged; its image stays what it was.
LEMMA DecisionRows ==
    ASSUME TypeOK, NEW e \in Events, ConfirmScanner(e) \/ RejectScanner(e)
    PROVE  /\ sheet' \in [Events -> SheetRows]
           /\ sheet[e].status = "flagged" /\ sheet'[e].status \in {"verified", "rejected"}
           /\ \A d \in Events \ {e} : sheet'[d] = sheet[d]
           /\ \A d \in Events : sheet'[d].image = sheet[d].image
<1>1. sheet \in [Events -> SheetRows] /\ day \in Nat
    BY DEF TypeOK
<1>2. CASE ConfirmScanner(e)
  <2> DEFINE row == [sheet[e] EXCEPT !.status = "verified"]
  <2>1. row \in SheetRows /\ row.status = "verified" /\ row.image = sheet[e].image
      BY <1>1 DEF SheetRows
  <2>2. sheet' = [sheet EXCEPT ![e] = row] /\ sheet[e].status = "flagged"
      BY <1>1, <1>2 DEF ConfirmScanner
  <2> HIDE DEF row
  <2> QED
      BY <1>1, <2>1, <2>2
<1>3. CASE RejectScanner(e)
  <2> DEFINE row == [sheet[e] EXCEPT !.status = "rejected", !.processed = day]
  <2>1. row \in SheetRows /\ row.status = "rejected" /\ row.image = sheet[e].image
      BY <1>1 DEF SheetRows
  <2>2. sheet' = [sheet EXCEPT ![e] = row] /\ sheet[e].status = "flagged"
      BY <1>1, <1>3 DEF RejectScanner
  <2> HIDE DEF row
  <2> QED
      BY <1>1, <2>1, <2>2
<1> QED
    BY <1>2, <1>3

\* The purge leaves the rows alone or marks them, and deletes files of its sheet only.
LEMMA PurgeRows ==
    ASSUME TypeOK, NEW e \in Events, PurgeDue(e)
    PROVE  /\ PurgeEligible(e)
           /\ job' \in [Evidence -> JobRows] /\ sheet' \in [Events -> SheetRows]
           /\ file' \in [Evidence -> {"absent", "young", "old"}]
           /\ \A k \in Evidence : \/ file'[k] = file[k]
                                  \/ k \in Jobs(e) /\ job[k].path /\ file'[k] = "absent"
           /\ \/ UNCHANGED <<job, sheet>>
              \/ /\ \A k \in Evidence \ Jobs(e) : job'[k] = job[k]
                 /\ \A k \in Jobs(e) :
                       IF job[k].path
                       THEN /\ job'[k].state = "purged" /\ ~job'[k].path
                            /\ file'[k] = "absent"
                       ELSE job'[k] = job[k]
                 /\ \A d \in Events \ {e} : sheet'[d] = sheet[d]
                 /\ sheet'[e].image = "purged" /\ sheet'[e].status = sheet[e].status
                 /\ sheet'[e].processed = sheet[e].processed
<1>1. /\ job \in [Evidence -> JobRows] /\ sheet \in [Events -> SheetRows]
      /\ file \in [Evidence -> {"absent", "young", "old"}] /\ PurgeEligible(e)
    BY DEF TypeOK, PurgeDue
<1>2. Jobs(e) = {k \in Evidence : k[1] = e}
    BY DEF Jobs, Evidence
<1>3. CASE /\ file' = [k \in Evidence |-> IF k[1] = e /\ job[k].path THEN "absent" ELSE file[k]]
           /\ job' = [k \in Evidence |-> IF k[1] = e THEN Purged(k) ELSE job[k]]
           /\ sheet' = [sheet EXCEPT ![e].image = "purged"]
  <2> DEFINE row == [sheet[e] EXCEPT !.image = "purged"]
  <2>1. /\ row \in SheetRows /\ row.image = "purged" /\ row.status = sheet[e].status
        /\ row.processed = sheet[e].processed
      BY <1>1 DEF SheetRows
  <2>2. sheet' = [sheet EXCEPT ![e] = row]
      BY <1>1, <1>3
  <2>3. ASSUME NEW k \in Evidence
        PROVE  /\ Purged(k) \in JobRows
               /\ IF job[k].path THEN Purged(k).state = "purged" /\ ~Purged(k).path
                                 ELSE Purged(k) = job[k]
    <3>1. CASE job[k].path
      <4>1. Purged(k) = [job[k] EXCEPT !.path = FALSE, !.state = "purged"]
          BY <3>1 DEF Purged
      <4> QED
          BY <1>1, <3>1, <4>1 DEF JobRows
    <3>2. CASE ~job[k].path
        BY <1>1, <3>2 DEF Purged
    <3> QED
        BY <3>1, <3>2
  <2> HIDE DEF row
  <2>4. /\ sheet' \in [Events -> SheetRows] /\ sheet'[e] = row
        /\ \A d \in Events \ {e} : sheet'[d] = sheet[d]
      BY <1>1, <2>1, <2>2
  <2>5. /\ job' \in [Evidence -> JobRows]
        /\ \A k \in Evidence \ Jobs(e) : job'[k] = job[k]
        /\ \A k \in Jobs(e) : job'[k] = Purged(k)
      BY <1>1, <1>2, <1>3, <2>3
  <2>6. /\ file' \in [Evidence -> {"absent", "young", "old"}]
        /\ \A k \in Evidence : \/ file'[k] = file[k]
                               \/ k \in Jobs(e) /\ job[k].path /\ file'[k] = "absent"
        /\ \A k \in Jobs(e) : job[k].path => file'[k] = "absent"
    <3>1. \A k \in Evidence :
              file'[k] = IF k \in Jobs(e) /\ job[k].path THEN "absent" ELSE file[k]
        BY <1>2, <1>3
    <3>2. Jobs(e) \subseteq Evidence
        BY <1>2
    <3>3. file' \in [Evidence -> {"absent", "young", "old"}]
        BY <1>1, <1>3
    <3>4. ASSUME NEW k \in Evidence
          PROVE  /\ \/ file'[k] = file[k]
                    \/ k \in Jobs(e) /\ job[k].path /\ file'[k] = "absent"
                 /\ k \in Jobs(e) /\ job[k].path => file'[k] = "absent"
      <4>1. CASE k \in Jobs(e) /\ job[k].path
          BY <3>1, <4>1
      <4>2. CASE ~(k \in Jobs(e) /\ job[k].path)
          BY <3>1, <4>2
      <4> QED
          BY <4>1, <4>2
    <3> QED
        BY <3>2, <3>3, <3>4
  <2>7. \A k \in Jobs(e) : IF job[k].path
                           THEN job'[k].state = "purged" /\ ~job'[k].path /\ file'[k] = "absent"
                           ELSE job'[k] = job[k]
      BY <1>2, <2>3, <2>5, <2>6
  <2> QED
      BY <1>1, <2>1, <2>4, <2>5, <2>6, <2>7
<1>4. CASE /\ \E gone \in SUBSET Jobs(e) :
                 file' = [k \in Evidence |-> IF k \in gone /\ job[k].path THEN "absent" ELSE file[k]]
           /\ UNCHANGED <<job, sheet>>
  <2>1. PICK gone \in SUBSET Jobs(e) :
            file' = [k \in Evidence |-> IF k \in gone /\ job[k].path THEN "absent" ELSE file[k]]
      BY <1>4
  <2>2. /\ file' \in [Evidence -> {"absent", "young", "old"}]
        /\ \A k \in Evidence : \/ file'[k] = file[k]
                               \/ k \in Jobs(e) /\ job[k].path /\ file'[k] = "absent"
    <3>1. \A k \in Evidence :
              file'[k] = IF k \in gone /\ job[k].path THEN "absent" ELSE file[k]
        BY <2>1
    <3>2. file' \in [Evidence -> {"absent", "young", "old"}]
        BY <1>1, <2>1
    <3>3. ASSUME NEW k \in Evidence
          PROVE  \/ file'[k] = file[k]
                 \/ k \in Jobs(e) /\ job[k].path /\ file'[k] = "absent"
      <4>1. CASE k \in gone /\ job[k].path
          BY <2>1, <3>1, <4>1
      <4>2. CASE ~(k \in gone /\ job[k].path)
          BY <3>1, <4>2
      <4> QED
          BY <4>1, <4>2
    <3> QED
        BY <3>2, <3>3
  <2> QED
      BY <1>1, <1>4, <2>2
<1> QED
    BY <1>3, <1>4 DEF PurgeDue, PurgeFilesFirst

\* The row of a receipt, and what it opens unless it is held back.
LEMMA CommitRows ==
    ASSUME TypeOK, NEW r \in Requests, CommitReceipt(r)
    PROVE  LET p == request[r].payload
           IN  /\ request[r].pc = "commit" /\ p \in Payloads /\ p.event \in Events
               /\ request' = [request EXCEPT ![r] = NoRequest]
               /\ event' \in [Events -> EventRows]
               /\ event'[p.event].payload = p /\ event'[p.event].state # "absent"
               /\ \A e \in Events \ {p.event} : event'[e] = event[e]
               /\ job' \in [Evidence -> JobRows] /\ sheet' \in [Events -> SheetRows]
               /\ \A e \in Events \ {p.event} : sheet'[e] = sheet[e]
               /\ \A k \in Evidence \ Jobs(p.event) : job'[k] = job[k]
               /\ \/ UNCHANGED <<sheet, job>>
                  \/ /\ ~request[r].double /\ event'[p.event].state = "received"
                     /\ sheet'[p.event] = NewSheet
                     /\ \A k \in Jobs(p.event) : /\ job'[k].state \in {"pending", "permanent_failed"}
                                                 /\ ~job'[k].path
<1> DEFINE p == request[r].payload  e == p.event
           held == request[r].double \/ OutOfWindow(p)
           row == [state |-> IF held THEN "quarantined" ELSE "received", payload |-> p]
<1>1. /\ request[r].pc = "commit" /\ p \in Payloads
      /\ event \in [Events -> EventRows] /\ sheet \in [Events -> SheetRows]
      /\ job \in [Evidence -> JobRows] /\ day \in Nat
    BY DEF CommitReceipt, TypeOK
<1>2. e \in Events
    BY <1>1 DEF Events
<1>3. /\ row \in EventRows /\ row.payload = p /\ row.state # "absent"
      /\ ~held => row.state = "received"
  <2> HIDE DEF held, p
  <2> QED
    BY <1>1 DEF EventRows
<1>4. event' = [event EXCEPT ![e] = row] /\ request' = [request EXCEPT ![r] = NoRequest]
    BY DEF CommitReceipt
<1>5. Jobs(e) = {k \in Evidence : k[1] = e}
    BY <1>2 DEF Jobs, Evidence
<1>6. \/ UNCHANGED <<sheet, job>>
      \/ /\ ~held /\ sheet' = [sheet EXCEPT ![e] = NewSheet]
         /\ \E valid \in [Artifacts -> BOOLEAN] :
               job' = [k \in Evidence |-> IF k[1] = e THEN NewJob(valid[k[2]]) ELSE job[k]]
    BY DEF CommitReceipt
<1>7. /\ event' \in [Events -> EventRows] /\ event'[e] = row
      /\ \A d \in Events \ {e} : event'[d] = event[d]
  <2> HIDE DEF row, e
  <2> QED
      BY <1>1, <1>2, <1>3, <1>4
<1>8. CASE UNCHANGED <<sheet, job>>
  <2> HIDE DEF row, held
  <2> QED
    BY <1>1, <1>2, <1>3, <1>4, <1>7, <1>8
<1>9. CASE /\ ~held /\ sheet' = [sheet EXCEPT ![e] = NewSheet]
           /\ \E valid \in [Artifacts -> BOOLEAN] :
                 job' = [k \in Evidence |-> IF k[1] = e THEN NewJob(valid[k[2]]) ELSE job[k]]
  <2>1. ASSUME NEW valid \in BOOLEAN
        PROVE  /\ NewJob(valid) \in JobRows /\ ~NewJob(valid).path
               /\ NewJob(valid).state \in {"pending", "permanent_failed"}
      BY DEF NewJob, NoJob, JobRows, Outcomes
  <2>2. PICK valid \in [Artifacts -> BOOLEAN] :
            job' = [k \in Evidence |-> IF k[1] = e THEN NewJob(valid[k[2]]) ELSE job[k]]
      BY <1>9
  <2>3. \A k \in Evidence : valid[k[2]] \in BOOLEAN
      BY DEF Evidence
  <2>4. NewSheet \in SheetRows
      BY <1>1 DEF NewSheet, SheetRows
  <2>5. /\ sheet' \in [Events -> SheetRows] /\ sheet'[e] = NewSheet
        /\ \A d \in Events \ {e} : sheet'[d] = sheet[d]
    <3> HIDE DEF e
    <3> QED
      BY <1>1, <1>2, <1>9, <2>4
  <2>6. ASSUME NEW k \in Evidence
        PROVE  /\ job'[k] \in JobRows
               /\ k \notin Jobs(e) => job'[k] = job[k]
               /\ k \in Jobs(e) => job'[k].state \in {"pending", "permanent_failed"} /\ ~job'[k].path
    <3>1. CASE k \in Jobs(e)
      <4>1. job'[k] = NewJob(valid[k[2]])
          BY <1>5, <2>2, <3>1
      <4> QED
          BY <2>1, <2>3, <3>1, <4>1
    <3>2. CASE k \notin Jobs(e)
        BY <1>1, <1>5, <2>2, <3>2
    <3> QED
        BY <3>1, <3>2
  <2>7. job' \in [Evidence -> JobRows]
    <3>1. job' = [k \in Evidence |-> job'[k]]
        BY <2>2
    <3> QED
        BY <2>6, <3>1
  <2>8. Jobs(e) \subseteq Evidence
      BY <1>5
  <2>9. ~request[r].double /\ event'[e].state = "received"
      BY <1>3, <1>7, <1>9
  <2> HIDE DEF row, held
  <2> QED
      BY <1>1, <1>2, <1>3, <1>4, <1>7, <2>5, <2>6, <2>7, <2>8, <2>9
<1> QED
    BY <1>6, <1>8, <1>9

-----------------------------------------------------------------------------
(* Every step keeps the types *)

\* An importer without a job knows none.
LEMMA FreedImporter ==
    ASSUME TypeOK, NEW i \in Importers, importer' = [importer EXCEPT ![i] = NoImport]
    PROVE  /\ importer' \in [Importers -> ImporterMemories]
           /\ \A j \in Importers : importer'[j] = NoImport \/ importer'[j] = importer[j]
           /\ NoImport.pc = "idle"
<1>1. importer \in [Importers -> ImporterMemories]
    BY DEF TypeOK
<1> QED
    BY <1>1, NoRowsTyped DEF NoImport

LEMMA TypesOfReceipts ==
    ASSUME TypeOK, NEW r \in Requests, Receipt(r)
    PROVE  TypeOK'
<1>1. CASE \E p \in Payloads : Deliver(r, p)
  <2>1. PICK p \in Payloads : Deliver(r, p)
      BY <1>1
  <2>2. CASE Recognised(p) /\ UNCHANGED request
      BY <2>1, <2>2, RecognisedRows DEF Deliver, TypeOK
  <2>3. CASE Go(r, "event", p, FALSE) /\ UNCHANGED event
    <3>1. /\ request' \in [Requests -> RequestMemories]
          /\ \A s \in Requests : request'[s].pc # "idle" => request'[s].payload \in Payloads
        BY <2>3, GoTyped
    <3> QED
        BY <2>1, <2>3, <3>1 DEF Deliver, TypeOK
  <2> QED
      BY <2>1, <2>2, <2>3 DEF Deliver
<1>2. CASE LockEvent(r)
  <2>1. request[r].payload \in Payloads
      BY <1>2 DEF LockEvent, TypeOK
  <2>2. CASE Recognised(request[r].payload) /\ request' = [request EXCEPT ![r] = NoRequest]
      BY <1>2, <2>1, <2>2, RecognisedRows, EndTyped DEF LockEvent, TypeOK
  <2>3. CASE Go(r, "result", request[r].payload, FALSE) /\ UNCHANGED event
    <3>1. /\ request' \in [Requests -> RequestMemories]
          /\ \A s \in Requests : request'[s].pc # "idle" => request'[s].payload \in Payloads
        BY <2>1, <2>3, GoTyped
    <3> QED
        BY <1>2, <2>3, <3>1 DEF LockEvent, TypeOK
  <2> QED
      BY <1>2, <2>2, <2>3 DEF LockEvent
<1>3. CASE LockResult(r)
  <2> DEFINE double == \E e \in Events : /\ event[e] # NoEvent
                                         /\ event[e].payload.doc = request[r].payload.doc
  <2>1. request[r].payload \in Payloads
      BY <1>3 DEF LockResult, TypeOK
  <2>2. Go(r, "commit", request[r].payload, double) /\ double \in BOOLEAN
      BY <1>3 DEF LockResult
  <2> HIDE DEF double
  <2>3. /\ request' \in [Requests -> RequestMemories]
        /\ \A s \in Requests : request'[s].pc # "idle" => request'[s].payload \in Payloads
      BY <2>1, <2>2, GoTyped
  <2> QED
      BY <1>3, <2>3 DEF LockResult, TypeOK
<1>4. CASE CommitReceipt(r)
  <2>1. /\ request' = [request EXCEPT ![r] = NoRequest] /\ event' \in [Events -> EventRows]
        /\ job' \in [Evidence -> JobRows] /\ sheet' \in [Events -> SheetRows]
      BY <1>4, CommitRows
  <2> QED
      BY <1>4, <2>1, EndTyped DEF CommitReceipt, TypeOK
<1>5. CASE ReceiptFails(r)
  <2>1. /\ request' = [request EXCEPT ![r] = NoRequest] /\ faults' \in Nat
        /\ UNCHANGED <<event, sheet, job, importer, file, sweep, day, stray>>
      BY <1>5 DEF ReceiptFails, Fault, TypeOK
  <2>2. /\ request' \in [Requests -> RequestMemories]
        /\ \A s \in Requests : request'[s].pc # "idle" => request'[s].payload \in Payloads
      BY <2>1, EndTyped
  <2> QED
      BY <2>1, <2>2 DEF TypeOK
<1> QED
    BY <1>1, <1>2, <1>3, <1>4, <1>5 DEF Receipt

LEMMA TypesOfImports ==
    ASSUME TypeOK, NEW i \in Importers, Import(i) \/ ImporterDies(i)
    PROVE  TypeOK'
<1>1. CASE \E k \in Evidence : Claim(i, k)
  <2>1. PICK k \in Evidence : Claim(i, k)
      BY <1>1
  <2>2. /\ job' \in [Evidence -> JobRows] /\ importer' \in [Importers -> ImporterMemories]
        /\ \A j \in Importers \ {i} : importer'[j] = importer[j]
        /\ importer'[i].pc = "claimed" /\ importer'[i].job = k
      BY <2>1, ClaimRows
  <2> QED
      BY <2>1, <2>2 DEF Claim, TypeOK
<1>2. CASE Download(i)
  <2>1. /\ importer[i].job \in Evidence
        /\ importer' \in [Importers -> ImporterMemories]
        /\ \A j \in Importers \ {i} : importer'[j] = importer[j]
        /\ importer'[i].pc = "fetched" /\ importer'[i].job = importer[i].job
        /\ importer'[i].outcome \in Outcomes
        /\ faults' \in Nat
      BY <1>2, DownloadRows
  <2>2. file' \in [Evidence -> {"absent", "young", "old"}] /\ stray' \subseteq Evidence
    <3>1. \/ UNCHANGED <<file, stray>>
          \/ /\ file' = [file EXCEPT ![importer[i].job] = "young"]
             /\ stray' = IF OwnClaim(i) THEN stray ELSE stray \cup {importer[i].job}
        BY <1>2, DownloadRows
    <3>2. file \in [Evidence -> {"absent", "young", "old"}] /\ stray \subseteq Evidence
        BY DEF TypeOK
    <3> QED
        BY <2>1, <3>1, <3>2
  <2> QED
      BY <1>2, <2>1, <2>2 DEF Download, TypeOK
<1>3. CASE Finish(i)
  <2>1. /\ importer' = [importer EXCEPT ![i] = NoImport]
        /\ job' \in [Evidence -> JobRows] /\ sheet' \in [Events -> SheetRows]
      BY <1>3, FinishRows
  <2> QED
      BY <1>3, <2>1, FreedImporter DEF Finish, TypeOK
<1>4. CASE ImporterDies(i)
  <2>1. /\ importer' = [importer EXCEPT ![i] = NoImport] /\ faults' \in Nat
        /\ UNCHANGED <<request, event, sheet, job, file, sweep, day, stray>>
      BY <1>4 DEF ImporterDies, Fault, TypeOK
  <2>2. /\ importer' \in [Importers -> ImporterMemories]
        /\ \A j \in Importers : importer'[j] = NoImport \/ importer'[j] = importer[j]
        /\ NoImport.pc = "idle"
      BY <2>1, FreedImporter
  <2> QED
      BY <2>1, <2>2 DEF TypeOK
<1> QED
    BY <1>1, <1>2, <1>3, <1>4 DEF Import

LEMMA TypesOfTheRest ==
    ASSUME TypeOK,
           \/ \E k \in Evidence : \/ LeaseRunsOut(k) \/ RetryDue(k) \/ RetryScannerArtifact(k)
                                  \/ FileAges(k)
           \/ \E e \in Events : ConfirmScanner(e) \/ RejectScanner(e) \/ PurgeDue(e)
           \/ ReconcileReads \/ ReconcileDeletes \/ NextDay
    PROVE  TypeOK'
<1>1. ASSUME NEW k \in Evidence, LeaseRunsOut(k) \/ RetryDue(k)
      PROVE  TypeOK'
  <2>1. job' \in [Evidence -> JobRows]
      BY <1>1, LeaseRows
  <2>2. faults' \in Nat
      BY <1>1 DEF LeaseRunsOut, RetryDue, Fault, TypeOK
  <2> QED
      BY <1>1, <2>1, <2>2 DEF LeaseRunsOut, RetryDue, TypeOK
<1>2. ASSUME NEW k \in Evidence, RetryScannerArtifact(k)
      PROVE  TypeOK'
  <2>1. job' \in [Evidence -> JobRows]
      BY <1>2, RetryRows
  <2> QED
      BY <1>2, <2>1 DEF RetryScannerArtifact, Fault, TypeOK
<1>3. ASSUME NEW k \in Evidence, FileAges(k)
      PROVE  TypeOK'
    BY <1>3 DEF FileAges, TypeOK
<1>4. ASSUME NEW e \in Events, ConfirmScanner(e) \/ RejectScanner(e)
      PROVE  TypeOK'
  <2>1. sheet' \in [Events -> SheetRows]
      BY <1>4, DecisionRows
  <2> QED
      BY <1>4, <2>1 DEF ConfirmScanner, RejectScanner, TypeOK
<1>5. ASSUME NEW e \in Events, PurgeDue(e)
      PROVE  TypeOK'
  <2>1. /\ job' \in [Evidence -> JobRows] /\ sheet' \in [Events -> SheetRows]
        /\ file' \in [Evidence -> {"absent", "young", "old"}]
      BY <1>5, PurgeRows
  <2> QED
      BY <1>5, <2>1 DEF PurgeDue, TypeOK
<1>6. CASE ReconcileReads
    BY <1>6 DEF ReconcileReads, TypeOK
<1>7. CASE ReconcileDeletes
    BY <1>7 DEF ReconcileDeletes, TypeOK
<1>8. CASE NextDay
    BY <1>8 DEF NextDay, TypeOK
<1> QED
    BY <1>1, <1>2, <1>3, <1>4, <1>5, <1>6, <1>7, <1>8

LEMMA TypesKept == TypeOK /\ [Next]_vars => TypeOK'
<1>1. TypeOK /\ Next => TypeOK'
    BY TypesOfReceipts, TypesOfImports, TypesOfTheRest DEF Next
<1>2. TypeOK /\ UNCHANGED vars => TypeOK'
    BY DEF TypeOK, vars
<1> QED
    BY <1>1, <1>2

-----------------------------------------------------------------------------
(* Every step keeps what the locks of receipts promise *)

\* As long as no row appears and no receipt gets past a lock.
LEMMA LocksFrame ==
    ASSUME TypeOK, LocksHold,
           \A e \in Events : event'[e] = NoEvent <=> event[e] = NoEvent,
           \A e \in Events : event'[e].payload = event[e].payload,
           \A s \in Requests : \/ request'[s] = request[s]
                               \/ request'[s].pc \in {"idle", "event"}
    PROVE  LocksHold'
<1>1. \A s \in Requests : request[s].pc # "idle" => request[s].payload.event \in Events
    BY DEF TypeOK, Events
<1>2. ASSUME NEW r \in Requests, request'[r].pc \in {"result", "commit"}
      PROVE  /\ event'[request'[r].payload.event] = NoEvent
             /\ \A s \in Requests \ {r} : request'[s].pc \in {"result", "commit"} =>
                    request'[s].payload.event # request'[r].payload.event
    BY <1>1, <1>2 DEF LocksHold
<1>3. ASSUME NEW r \in Requests, request'[r].pc = "commit"
      PROVE  /\ \A s \in Requests \ {r} : request'[s].pc = "commit" =>
                    request'[s].payload.doc # request'[r].payload.doc
             /\ ~request'[r].double =>
                    \A e \in Events : event'[e] # NoEvent =>
                        event'[e].payload.doc # request'[r].payload.doc
  <2>1. request'[r] = request[r] /\ request[r].pc = "commit"
      BY <1>3
  <2>2. \A s \in Requests \ {r} : request'[s].pc = "commit" =>
            request'[s].payload.doc # request'[r].payload.doc
      BY <2>1 DEF LocksHold
  <2>3. ~request[r].double =>
            \A e \in Events : event[e] # NoEvent => event[e].payload.doc # request[r].payload.doc
      BY <2>1 DEF LocksHold
  <2> QED
      BY <2>1, <2>2, <2>3
<1> QED
    BY <1>2, <1>3 DEF LocksHold

\* As long as nothing is opened, and only for a sheet imported.
LEMMA ReviewsFrame ==
    ASSUME OneReviewPerRevision, ImportsOfSheets,
           \A e \in Events : event'[e].payload = event[e].payload,
           \A e \in Events : event'[e] = event[e] \/ event'[e].state = "integrity_fault",
           \A e \in Events : sheet'[e] = NoSheet <=> sheet[e] = NoSheet,
           \A k \in Evidence : \/ job[k].state # "absent"
                               \/ job'[k].state = "absent"
                               \/ sheet[k[1]] # NoSheet
    PROVE  OneReviewPerRevision' /\ ImportsOfSheets'
<1>1. \A k \in Evidence : k[1] \in Events
    BY DEF Evidence
<1>2. ImportsOfSheets'
    BY <1>1 DEF ImportsOfSheets
<1>3. \A d, e \in Events :
          sheet'[d] # NoSheet /\ sheet'[e] # NoSheet /\ d # e
          => event'[d].payload.doc # event'[e].payload.doc
    BY DEF OneReviewPerRevision
<1>4. \A e \in Events : sheet'[e] # NoSheet => event'[e].state \in {"received", "integrity_fault"}
    BY DEF OneReviewPerRevision
<1> QED
    BY <1>2, <1>3, <1>4 DEF OneReviewPerRevision

\* A body that is acknowledged again, or found at fault.
LEMMA RecognisedKeeps ==
    ASSUME ReceiptsInv, NEW p \in Payloads, Recognised(p), UNCHANGED <<sheet, job>>,
           \A s \in Requests : \/ request'[s] = request[s]
                               \/ request'[s].pc \in {"idle", "event"}
    PROVE  LocksHold' /\ OneReviewPerRevision' /\ ImportsOfSheets'
<1>1. /\ event[p.event] # NoEvent
      /\ \A e \in Events : event'[e].payload = event[e].payload
      /\ \A e \in Events : event'[e] # event[e] =>
             e = p.event /\ event'[e].state = "integrity_fault"
    BY RecognisedRows DEF ReceiptsInv
<1>2. NoEvent.state = "absent"
    BY DEF NoEvent
<1>3. \A e \in Events : event'[e] = NoEvent <=> event[e] = NoEvent
    BY <1>1, <1>2
<1>4. LocksHold'
    BY <1>1, <1>3, LocksFrame DEF ReceiptsInv
<1>5. OneReviewPerRevision' /\ ImportsOfSheets'
    BY <1>1, ReviewsFrame DEF ReceiptsInv
<1> QED
    BY <1>4, <1>5

LEMMA DeliverKeeps ==
    ASSUME ReceiptsInv, NEW r \in Requests, NEW p \in Payloads, Deliver(r, p)
    PROVE  LocksHold' /\ OneReviewPerRevision' /\ ImportsOfSheets'
<1>1. CASE Recognised(p) /\ UNCHANGED request
    BY <1>1, RecognisedKeeps DEF Deliver
<1>2. CASE Go(r, "event", p, FALSE) /\ UNCHANGED event
  <2>1. \A s \in Requests : \/ request'[s] = request[s]
                            \/ request'[s].pc \in {"idle", "event"}
      BY <1>2 DEF Go, ReceiptsInv, TypeOK
  <2>2. UNCHANGED <<event, sheet, job>>
      BY <1>2 DEF Deliver
  <2> QED
      BY <2>1, <2>2, LocksFrame, ReviewsFrame DEF ReceiptsInv
<1> QED
    BY <1>1, <1>2 DEF Deliver

LEMMA LockEventKeeps ==
    ASSUME ReceiptsInv, NEW r \in Requests, LockEvent(r)
    PROVE  LocksHold' /\ OneReviewPerRevision' /\ ImportsOfSheets'
<1> DEFINE p == request[r].payload
<1>1. p \in Payloads /\ request \in [Requests -> RequestMemories]
    BY DEF LockEvent, ReceiptsInv, TypeOK
<1>2. CASE Recognised(p) /\ request' = [request EXCEPT ![r] = NoRequest]
  <2>1. \A s \in Requests : \/ request'[s] = request[s]
                            \/ request'[s].pc \in {"idle", "event"}
      BY <1>1, <1>2 DEF NoRequest
  <2>2. UNCHANGED <<sheet, job>>
      BY DEF LockEvent
  <2> HIDE DEF p
  <2> QED
      BY <1>1, <1>2, <2>1, <2>2, RecognisedKeeps
<1>3. CASE event[p.event] = NoEvent /\ Go(r, "result", p, FALSE) /\ UNCHANGED event
  <2>1. /\ request'[r].pc = "result" /\ request'[r].payload = p
        /\ \A s \in Requests \ {r} : request'[s] = request[s]
      BY <1>1, <1>3 DEF Go
  <2>2. \A s \in Requests : request[s].pc \in {"result", "commit"} =>
            request[s].payload.event # p.event
      BY DEF LockEvent, EventKeyFree
  <2>3. UNCHANGED <<event, sheet, job>>
      BY <1>3 DEF LockEvent
  <2>4. ASSUME NEW s \in Requests, request'[s].pc \in {"result", "commit"}
        PROVE  /\ event'[request'[s].payload.event] = NoEvent
               /\ \A t \in Requests \ {s} : request'[t].pc \in {"result", "commit"} =>
                      request'[t].payload.event # request'[s].payload.event
    <3> HIDE DEF p
    <3>1. CASE s = r
        BY <1>3, <2>1, <2>2, <2>3, <3>1
    <3>2. CASE s # r
        BY <2>1, <2>2, <2>3, <2>4, <3>2 DEF ReceiptsInv, LocksHold
    <3> QED
        BY <3>1, <3>2
  <2>5. ASSUME NEW s \in Requests, request'[s].pc = "commit"
        PROVE  /\ \A t \in Requests \ {s} : request'[t].pc = "commit" =>
                      request'[t].payload.doc # request'[s].payload.doc
               /\ ~request'[s].double =>
                      \A e \in Events : event'[e] # NoEvent =>
                          event'[e].payload.doc # request'[s].payload.doc
    <3>1. s # r /\ request'[s] = request[s]
        BY <2>1, <2>5
    <3> QED
        BY <2>1, <2>3, <2>5, <3>1 DEF ReceiptsInv, LocksHold
  <2>6. LocksHold'
      BY <2>4, <2>5 DEF LocksHold
  <2> QED
      BY <2>3, <2>6, ReviewsFrame DEF ReceiptsInv
<1> QED
    BY <1>2, <1>3 DEF LockEvent

LEMMA LockResultKeeps ==
    ASSUME ReceiptsInv, NEW r \in Requests, LockResult(r)
    PROVE  LocksHold' /\ OneReviewPerRevision' /\ ImportsOfSheets'
<1> DEFINE p == request[r].payload
           double == \E e \in Events : event[e] # NoEvent /\ event[e].payload.doc = p.doc
<1>1. request \in [Requests -> RequestMemories]
    BY DEF ReceiptsInv, TypeOK
<1>2. request[r].pc = "result" /\ UNCHANGED <<event, sheet, job>>
    BY DEF LockResult
<1>3. /\ request'[r].pc = "commit" /\ request'[r].payload = p /\ request'[r].double = double
      /\ \A s \in Requests \ {r} : request'[s] = request[s]
  <2>1. Go(r, "commit", p, double)
      BY DEF LockResult
  <2> HIDE DEF p, double
  <2> QED
      BY <1>1, <2>1 DEF Go
<1>4. \A s \in Requests : request[s].pc = "commit" => request[s].payload.doc # p.doc
    BY DEF LockResult, ResultKeyFree
<1>5. ~double => \A e \in Events : event[e] # NoEvent => event[e].payload.doc # p.doc
    OBVIOUS
<1> HIDE DEF double
<1>6. ASSUME NEW s \in Requests, request'[s].pc \in {"result", "commit"}
      PROVE  /\ event'[request'[s].payload.event] = NoEvent
             /\ \A t \in Requests \ {s} : request'[t].pc \in {"result", "commit"} =>
                    request'[t].payload.event # request'[s].payload.event
  <2>1. \A t \in Requests : /\ request'[t].payload = request[t].payload
                            /\ request'[t].pc \in {"result", "commit"} =>
                                   request[t].pc \in {"result", "commit"}
      BY <1>2, <1>3
  <2> QED
      BY <1>2, <1>6, <2>1 DEF ReceiptsInv, LocksHold
<1>7. ASSUME NEW s \in Requests, request'[s].pc = "commit"
      PROVE  /\ \A t \in Requests \ {s} : request'[t].pc = "commit" =>
                    request'[t].payload.doc # request'[s].payload.doc
             /\ ~request'[s].double =>
                    \A e \in Events : event'[e] # NoEvent =>
                        event'[e].payload.doc # request'[s].payload.doc
  <2> HIDE DEF p
  <2>1. CASE s = r
      BY <1>2, <1>3, <1>4, <1>5, <2>1
  <2>2. CASE s # r
    <3>1. request'[s] = request[s] /\ request[s].pc = "commit"
        BY <1>3, <1>7, <2>2
    <3>2. \A t \in Requests \ {s} : request'[t].pc = "commit" =>
              request'[t].payload.doc # request'[s].payload.doc
        BY <1>3, <1>4, <3>1 DEF ReceiptsInv, LocksHold
    <3> QED
        BY <1>2, <3>1, <3>2 DEF ReceiptsInv, LocksHold
  <2> QED
      BY <2>1, <2>2
<1>8. LocksHold'
    BY <1>6, <1>7 DEF LocksHold
<1> QED
    BY <1>2, <1>8, ReviewsFrame DEF ReceiptsInv

\* The row of a receipt is the first of its event, and a review opens only if it
\* is the first of its revision.
LEMMA CommitKeeps ==
    ASSUME ReceiptsInv, NEW r \in Requests, CommitReceipt(r)
    PROVE  LocksHold' /\ OneReviewPerRevision' /\ ImportsOfSheets'
<1> DEFINE p == request[r].payload
<1>1. /\ request[r].pc = "commit" /\ p \in Payloads /\ p.event \in Events
      /\ event'[p.event].payload = p /\ event'[p.event].state # "absent"
      /\ \A e \in Events \ {p.event} : event'[e] = event[e]
      /\ \A e \in Events \ {p.event} : sheet'[e] = sheet[e]
      /\ \A k \in Evidence \ Jobs(p.event) : job'[k] = job[k]
    BY CommitRows DEF ReceiptsInv
<1>2. \/ UNCHANGED <<sheet, job>>
      \/ /\ ~request[r].double /\ event'[p.event].state = "received"
         /\ sheet'[p.event] = NewSheet
    BY CommitRows DEF ReceiptsInv
<1>3. request'[r].pc = "idle" /\ \A s \in Requests \ {r} : request'[s] = request[s]
  <2>1. request' = [request EXCEPT ![r] = NoRequest] /\ request \in [Requests -> RequestMemories]
      BY CommitRows DEF ReceiptsInv, TypeOK
  <2> QED
      BY <2>1 DEF NoRequest
<1>4. event[p.event] = NoEvent
    BY DEF CommitReceipt
<1>5. NoEvent.state = "absent" /\ NewSheet # NoSheet
    BY DEF NoEvent, NewSheet, NoSheet
<1>6. \A k \in Evidence : k \notin Jobs(p.event) => k[1] # p.event
    BY <1>1 DEF Evidence, Jobs
<1> HIDE DEF p
<1>7. ASSUME NEW s \in Requests, request'[s].pc \in {"result", "commit"}
      PROVE  /\ event'[request'[s].payload.event] = NoEvent
             /\ \A t \in Requests \ {s} : request'[t].pc \in {"result", "commit"} =>
                    request'[t].payload.event # request'[s].payload.event
  <2>1. s # r /\ request'[s] = request[s]
      BY <1>3, <1>7
  <2>2. request[s].payload \in Payloads /\ request[s].payload.event \in Events
      BY <1>7, <2>1 DEF ReceiptsInv, TypeOK, Events
  <2>3. request[s].payload.event # p.event
      BY <1>1, <1>7, <2>1 DEF ReceiptsInv, LocksHold, p
  <2>4. event[request[s].payload.event] = NoEvent
      BY <1>7, <2>1 DEF ReceiptsInv, LocksHold
  <2>5. \A t \in Requests \ {s} : request'[t].pc \in {"result", "commit"} =>
            request'[t].payload.event # request'[s].payload.event
      BY <1>3, <1>7, <2>1 DEF ReceiptsInv, LocksHold
  <2> QED
      BY <1>1, <2>1, <2>2, <2>3, <2>4, <2>5
<1>8. ASSUME NEW s \in Requests, request'[s].pc = "commit"
      PROVE  /\ \A t \in Requests \ {s} : request'[t].pc = "commit" =>
                    request'[t].payload.doc # request'[s].payload.doc
             /\ ~request'[s].double =>
                    \A e \in Events : event'[e] # NoEvent =>
                        event'[e].payload.doc # request'[s].payload.doc
  <2>1. s # r /\ request'[s] = request[s]
      BY <1>3, <1>8
  <2>2. p.doc # request[s].payload.doc
      BY <1>1, <1>8, <2>1 DEF ReceiptsInv, LocksHold, p
  <2>3. \A t \in Requests \ {s} : request'[t].pc = "commit" =>
            request'[t].payload.doc # request'[s].payload.doc
      BY <1>3, <1>8, <2>1 DEF ReceiptsInv, LocksHold
  <2>4. ~request[s].double =>
            \A e \in Events : event[e] # NoEvent => event[e].payload.doc # request[s].payload.doc
      BY <1>8, <2>1 DEF ReceiptsInv, LocksHold
  <2> QED
      BY <1>1, <2>1, <2>2, <2>3, <2>4
<1>9. LocksHold'
    BY <1>7, <1>8 DEF LocksHold
<1>10. sheet[p.event] = NoSheet /\ \A e \in Events : sheet[e] # NoSheet => event[e] # NoEvent
    BY <1>1, <1>4, <1>5 DEF ReceiptsInv, OneReviewPerRevision
<1>11. CASE UNCHANGED <<sheet, job>>
  <2>1. \A e \in Events : sheet'[e] # NoSheet => e # p.event /\ sheet[e] # NoSheet
      BY <1>10, <1>11
  <2> QED
      BY <1>1, <1>9, <1>11, <2>1 DEF ReceiptsInv, OneReviewPerRevision, ImportsOfSheets
<1>12. CASE /\ ~request[r].double /\ event'[p.event].state = "received"
            /\ sheet'[p.event] = NewSheet
  <2>1. \A e \in Events : event[e] # NoEvent => event[e].payload.doc # p.doc
      BY <1>1, <1>12 DEF ReceiptsInv, LocksHold, p
  <2>2. ASSUME NEW d \in Events, NEW e \in Events, sheet'[d] # NoSheet, sheet'[e] # NoSheet, d # e
        PROVE  event'[d].payload.doc # event'[e].payload.doc
    <3>1. CASE d = p.event
        BY <1>1, <1>10, <2>1, <2>2, <3>1
    <3>2. CASE e = p.event
        BY <1>1, <1>10, <2>1, <2>2, <3>2
    <3>3. CASE d # p.event /\ e # p.event
        BY <1>1, <2>2, <3>3 DEF ReceiptsInv, OneReviewPerRevision
    <3> QED
        BY <3>1, <3>2, <3>3
  <2>3. \A e \in Events : sheet'[e] # NoSheet => event'[e].state \in {"received", "integrity_fault"}
      BY <1>1, <1>12 DEF ReceiptsInv, OneReviewPerRevision
  <2>4. ASSUME NEW k \in Evidence, job'[k].state # "absent"
        PROVE  sheet'[k[1]] # NoSheet
    <3>1. CASE k[1] = p.event
        BY <1>5, <1>12, <3>1
    <3>2. CASE k[1] # p.event
      <4>1. k \notin Jobs(p.event) /\ k[1] \in Events
          BY <3>2 DEF Jobs, Evidence
      <4> QED
          BY <1>1, <2>4, <3>2, <4>1 DEF ReceiptsInv, ImportsOfSheets
    <3> QED
        BY <3>1, <3>2
  <2> QED
      BY <1>9, <2>2, <2>3, <2>4 DEF OneReviewPerRevision, ImportsOfSheets
<1> QED
    BY <1>2, <1>11, <1>12

\* Importers, operators and the purge open no review and close none.
LEMMA OthersOpenNothing ==
    ASSUME TypeOK, ImportsOfSheets,
           \/ \E i \in Importers : Import(i) \/ ImporterDies(i)
           \/ \E k \in Evidence : \/ LeaseRunsOut(k) \/ RetryDue(k) \/ RetryScannerArtifact(k)
                                  \/ FileAges(k)
           \/ \E e \in Events : ConfirmScanner(e) \/ RejectScanner(e) \/ PurgeDue(e)
           \/ ReconcileReads \/ ReconcileDeletes \/ NextDay
    PROVE  /\ \A e \in Events : sheet'[e] = NoSheet <=> sheet[e] = NoSheet
           /\ \A k \in Evidence : \/ job[k].state # "absent"
                                  \/ job'[k].state = "absent"
                                  \/ sheet[k[1]] # NoSheet
           /\ UNCHANGED <<request, event>>
<1> DEFINE Framed == /\ \A e \in Events : sheet'[e] = NoSheet <=> sheet[e] = NoSheet
                     /\ \A k \in Evidence : \/ job[k].state # "absent"
                                            \/ job'[k].state = "absent"
                                            \/ sheet[k[1]] # NoSheet
<1>1. TypeOK /\ ImportsOfSheets
    OBVIOUS
<1>2. NoSheet.status = "absent" /\ NoSheet.image = None /\ None # "file" /\ None # "purged"
    BY WebhookAssumption DEF NoSheet
<1>3. UNCHANGED <<sheet, job>> => Framed
    OBVIOUS
<1>4. ASSUME NEW i \in Importers, NEW k \in Evidence, Claim(i, k)
      PROVE  Framed
  <2>1. job[k].state \in Recoverable /\ \A l \in Evidence \ {k} : job'[l] = job[l]
      BY <1>1, <1>4, ClaimRows
  <2>2. UNCHANGED sheet
      BY <1>4 DEF Claim
  <2> QED
      BY <2>1, <2>2 DEF Recoverable
<1>5. ASSUME NEW i \in Importers, Finish(i)
      PROVE  Framed
  <2>1. CASE UNCHANGED <<job, sheet>>
      BY <1>3, <2>1
  <2>2. CASE ~UNCHANGED <<job, sheet>>
    <3> DEFINE k == importer[i].job
    <3>1. /\ k \in Evidence /\ OwnClaim(i)
          /\ \A l \in Evidence \ {k} : job'[l] = job[l]
          /\ \/ UNCHANGED sheet
             \/ /\ sheet'[k[1]].image = "file"
                /\ \A e \in Events \ {k[1]} : sheet'[e] = sheet[e]
        BY <1>1, <1>5, <2>2, FinishRows
    <3>2. job[k].state = "processing"
        BY <3>1 DEF OwnClaim
    <3>3. sheet[k[1]] # NoSheet
        BY <1>1, <3>1, <3>2 DEF ImportsOfSheets
    <3> HIDE DEF k
    <3> QED
        BY <1>2, <3>1, <3>2, <3>3
  <2> QED
      BY <2>1, <2>2
<1>6. ASSUME NEW k \in Evidence, LeaseRunsOut(k) \/ RetryDue(k)
      PROVE  Framed
  <2>1. \A l \in Evidence : job'[l].state = job[l].state
      BY <1>1, <1>6, LeaseRows
  <2>2. UNCHANGED sheet
      BY <1>6 DEF LeaseRunsOut, RetryDue
  <2> QED
      BY <2>1, <2>2
<1>7. ASSUME NEW k \in Evidence, RetryScannerArtifact(k)
      PROVE  Framed
  <2>1. job[k].state # "absent" /\ \A l \in Evidence \ {k} : job'[l] = job[l]
      BY <1>1, <1>7, RetryRows
  <2>2. UNCHANGED sheet
      BY <1>7 DEF RetryScannerArtifact
  <2> QED
      BY <2>1, <2>2
<1>8. ASSUME NEW e \in Events, ConfirmScanner(e) \/ RejectScanner(e)
      PROVE  Framed
  <2>1. /\ sheet[e].status = "flagged" /\ sheet'[e].status \in {"verified", "rejected"}
        /\ \A d \in Events \ {e} : sheet'[d] = sheet[d]
      BY <1>1, <1>8, DecisionRows
  <2>2. UNCHANGED job
      BY <1>8 DEF ConfirmScanner, RejectScanner
  <2> QED
      BY <1>2, <2>1, <2>2
<1>9. ASSUME NEW e \in Events, PurgeDue(e)
      PROVE  Framed
  <2>1. CASE UNCHANGED <<job, sheet>>
      BY <1>3, <2>1
  <2>2. CASE ~UNCHANGED <<job, sheet>>
    <3>1. /\ PurgeEligible(e)
          /\ \A k \in Evidence \ Jobs(e) : job'[k] = job[k]
          /\ \A d \in Events \ {e} : sheet'[d] = sheet[d]
          /\ sheet'[e].image = "purged"
        BY <1>1, <1>9, <2>2, PurgeRows
    <3>2. sheet[e] # NoSheet /\ sheet'[e] # NoSheet
        BY <1>2, <3>1 DEF PurgeEligible
    <3>3. \A k \in Jobs(e) : k[1] = e
        BY DEF Jobs
    <3> QED
        BY <3>1, <3>2, <3>3
  <2> QED
      BY <2>1, <2>2
<1>10. Framed
  <2>1. CASE UNCHANGED <<sheet, job>>
      BY <1>3, <2>1
  <2>2. CASE ~UNCHANGED <<sheet, job>>
    <3> HIDE DEF Framed
    <3> QED
        BY <1>4, <1>5, <1>6, <1>7, <1>8, <1>9, <2>2
           DEF Import, Download, ImporterDies, FileAges, ReconcileReads, ReconcileDeletes, NextDay
  <2> QED
      BY <2>1, <2>2
<1>11. UNCHANGED <<request, event>>
  <2>1. CASE \E i \in Importers : Import(i) \/ ImporterDies(i)
      BY <2>1 DEF Import, Claim, Download, Finish, ImporterDies
  <2>2. CASE \E k \in Evidence : \/ LeaseRunsOut(k) \/ RetryDue(k) \/ RetryScannerArtifact(k)
                                 \/ FileAges(k)
      BY <2>2 DEF LeaseRunsOut, RetryDue, RetryScannerArtifact, FileAges
  <2>3. CASE \/ \E e \in Events : ConfirmScanner(e) \/ RejectScanner(e) \/ PurgeDue(e)
             \/ ReconcileReads \/ ReconcileDeletes \/ NextDay
      BY <2>3 DEF ConfirmScanner, RejectScanner, PurgeDue, ReconcileReads, ReconcileDeletes,
                  NextDay
  <2> HIDE DEF Framed
  <2> QED
      BY <2>1, <2>2, <2>3
<1> QED
    BY <1>10, <1>11

LEMMA OthersKeep ==
    ASSUME ReceiptsInv,
           \/ \E i \in Importers : Import(i) \/ ImporterDies(i)
           \/ \E k \in Evidence : \/ LeaseRunsOut(k) \/ RetryDue(k) \/ RetryScannerArtifact(k)
                                  \/ FileAges(k)
           \/ \E e \in Events : ConfirmScanner(e) \/ RejectScanner(e) \/ PurgeDue(e)
           \/ ReconcileReads \/ ReconcileDeletes \/ NextDay
    PROVE  LocksHold' /\ OneReviewPerRevision' /\ ImportsOfSheets'
<1>1. /\ \A e \in Events : sheet'[e] = NoSheet <=> sheet[e] = NoSheet
      /\ \A k \in Evidence : \/ job[k].state # "absent"
                             \/ job'[k].state = "absent"
                             \/ sheet[k[1]] # NoSheet
      /\ UNCHANGED <<request, event>>
    BY OthersOpenNothing DEF ReceiptsInv
<1>2. OneReviewPerRevision' /\ ImportsOfSheets'
    BY <1>1, ReviewsFrame DEF ReceiptsInv
<1>3. LocksHold'
    BY <1>1, LocksFrame DEF ReceiptsInv
<1> QED
    BY <1>2, <1>3

LEMMA ReceiptsStep == ReceiptsInv /\ [Next]_vars => ReceiptsInv'
<1> SUFFICES ASSUME ReceiptsInv, [Next]_vars
             PROVE  LocksHold' /\ OneReviewPerRevision' /\ ImportsOfSheets'
    BY TypesKept DEF ReceiptsInv
<1>1. CASE UNCHANGED vars
    BY <1>1 DEF vars, ReceiptsInv, LocksHold, OneReviewPerRevision, ImportsOfSheets
<1>2. ASSUME NEW r \in Requests, ReceiptFails(r)
      PROVE  LocksHold' /\ OneReviewPerRevision' /\ ImportsOfSheets'
  <2>1. \A s \in Requests : \/ request'[s] = request[s]
                            \/ request'[s].pc \in {"idle", "event"}
      BY <1>2 DEF ReceiptFails, NoRequest, ReceiptsInv, TypeOK
  <2>2. UNCHANGED <<event, sheet, job>>
      BY <1>2 DEF ReceiptFails
  <2> QED
      BY <2>1, <2>2, LocksFrame, ReviewsFrame DEF ReceiptsInv
<1>3. CASE \E r \in Requests : Receipt(r)
    BY <1>2, <1>3, DeliverKeeps, LockEventKeeps, LockResultKeeps, CommitKeeps DEF Receipt
<1>4. CASE \/ \E i \in Importers : Import(i) \/ ImporterDies(i)
           \/ \E k \in Evidence : \/ LeaseRunsOut(k) \/ RetryDue(k) \/ RetryScannerArtifact(k)
                                  \/ FileAges(k)
           \/ \E e \in Events : ConfirmScanner(e) \/ RejectScanner(e) \/ PurgeDue(e)
           \/ ReconcileReads \/ ReconcileDeletes \/ NextDay
    BY <1>4, OthersKeep
<1> QED
    BY <1>1, <1>3, <1>4 DEF Next

-----------------------------------------------------------------------------
(* Reviews *)

\* What the two advisory locks of persistReceipt protect is inductive.
THEOREM ReceiptsInvHolds == Spec => []ReceiptsInv
<1>1. Init => ReceiptsInv
  <2> SUFFICES ASSUME Init
               PROVE  ReceiptsInv
      OBVIOUS
  <2>1. NoRequest.pc = "idle" /\ NoJob.state = "absent"
      BY DEF NoRequest, NoJob
  <2>2. LocksHold
      BY <2>1 DEF Init, LocksHold
  <2>3. OneReviewPerRevision /\ ImportsOfSheets
      BY <2>1 DEF Init, OneReviewPerRevision, ImportsOfSheets
  <2> QED
      BY <2>2, <2>3, InitTypes DEF ReceiptsInv
<1> QED
    BY <1>1, ReceiptsStep, PTL DEF Spec

\* A document revision opens one review at most, in any number of deliveries,
\* under any event ids, with failures anywhere: persistReceipt.
THEOREM RevisionsAreReviewedOnce == Spec => []OneReviewPerRevision
<1>1. ReceiptsInv => OneReviewPerRevision
    BY DEF ReceiptsInv
<1> QED
    BY <1>1, ReceiptsInvHolds, PTL

-----------------------------------------------------------------------------
(* Receipts implement the one-step inbox *)

LEMMA InboxIds == Inbox!Ids = Events
BY DEF Inbox!Ids, Events

\* An event without a row is one the inbox knows nothing of.
LEMMA InboxKnows ==
    ASSUME TypeOK, OneReviewPerRevision, NEW e \in Events
    PROVE  InboxView[e] = Inbox!Nothing <=> event[e] = NoEvent
<1>1. event[e] \in EventRows
    BY DEF TypeOK
<1>2. event[e] = NoEvent <=> event[e].state = "absent" /\ event[e].payload = None
    BY <1>1 DEF EventRows, NoEvent
<1>3. event[e].state = "absent" => sheet[e] = NoSheet
    BY DEF OneReviewPerRevision
<1> QED
    BY <1>2, <1>3 DEF InboxView, Inbox!Nothing

LEMMA InboxFramed ==
    ASSUME \A e \in Events : event'[e] = event[e] /\ (sheet'[e] = NoSheet <=> sheet[e] = NoSheet)
    PROVE  UNCHANGED InboxView
BY DEF InboxView

\* One row of the inbox is replaced.
LEMMA InboxReplaced ==
    ASSUME NEW e \in Events,
           \A d \in Events \ {e} :
               event'[d] = event[d] /\ (sheet'[d] = NoSheet <=> sheet[d] = NoSheet)
    PROVE  InboxView' = [InboxView EXCEPT ![e] =
                            [state |-> event'[e].state, body |-> event'[e].payload,
                             review |-> sheet'[e] # NoSheet]]
BY DEF InboxView

LEMMA RecognisedInInbox ==
    ASSUME TypeOK, OneReviewPerRevision, NEW p \in Payloads, Recognised(p), UNCHANGED sheet
    PROVE  Inbox!Dispute(p) \/ UNCHANGED InboxView
<1>1. p.event \in Events /\ event \in [Events -> EventRows]
    BY DEF TypeOK, Events
<1>2. InboxView[p.event] # Inbox!Nothing
    BY <1>1, InboxKnows DEF Recognised
<1>3. CASE event[p.event].payload = p
    BY <1>3, InboxFramed DEF Recognised
<1>4. CASE event[p.event].payload # p
  <2>1. event' = [event EXCEPT ![p.event].state = "integrity_fault"]
      BY <1>4 DEF Recognised
  <2>2. /\ event'[p.event].state = "integrity_fault"
        /\ event'[p.event].payload = event[p.event].payload
        /\ \A d \in Events \ {p.event} : event'[d] = event[d]
      BY <1>1, <2>1 DEF EventRows
  <2>3. InboxView' = [InboxView EXCEPT ![p.event] =
                         [state |-> "integrity_fault", body |-> event[p.event].payload,
                          review |-> sheet[p.event] # NoSheet]]
    <3>1. \A d \in Events \ {p.event} :
              event'[d] = event[d] /\ (sheet'[d] = NoSheet <=> sheet[d] = NoSheet)
        BY <2>2
    <3>2. InboxView' = [InboxView EXCEPT ![p.event] =
                           [state |-> event'[p.event].state, body |-> event'[p.event].payload,
                            review |-> sheet'[p.event] # NoSheet]]
        BY <1>1, <3>1, InboxReplaced
    <3>3. UNCHANGED sheet
        OBVIOUS
    <3> QED
        BY <2>2, <3>2, <3>3, Zenon
  <2>4. InboxView[p.event] = [state |-> event[p.event].state, body |-> event[p.event].payload,
                              review |-> sheet[p.event] # NoSheet]
      BY <1>1 DEF InboxView
  <2>5. InboxView' = [InboxView EXCEPT ![p.event].state = "integrity_fault"]
    <3>1. [InboxView[p.event] EXCEPT !.state = "integrity_fault"] =
              [state |-> "integrity_fault", body |-> event[p.event].payload,
               review |-> sheet[p.event] # NoSheet]
        BY <2>4
    <3>2. InboxView' = [InboxView EXCEPT ![p.event] =
                           [InboxView[p.event] EXCEPT !.state = "integrity_fault"]]
        BY <2>3, <3>1
    <3> QED
        BY <3>2
  <2>6. InboxView[p.event].body # p
      BY <1>4, <2>4
  <2> QED
      BY <1>2, <2>5, <2>6 DEF Inbox!Dispute
<1> QED
    BY <1>3, <1>4

\* A commit is the whole of a receipt: behind its locks, what it read a while ago
\* is what it would read now.
LEMMA CommitInInbox ==
    ASSUME ReceiptsInv, NEW r \in Requests, CommitReceipt(r)
    PROVE  \E p \in Payloads : Inbox!Receive(p) \/ Inbox!Quarantine(p)
<1> DEFINE p == request[r].payload
           held == request[r].double \/ OutOfWindow(p)
           row == [state |-> IF held THEN "quarantined" ELSE "received", payload |-> p]
<1>1. /\ request[r].pc = "commit" /\ p \in Payloads /\ p.event \in Events
      /\ \A d \in Events \ {p.event} : event'[d] = event[d] /\ sheet'[d] = sheet[d]
    BY CommitRows DEF ReceiptsInv
<1>2. event \in [Events -> EventRows] /\ sheet \in [Events -> SheetRows]
    BY DEF ReceiptsInv, TypeOK
<1>3. event[p.event] = NoEvent /\ event' = [event EXCEPT ![p.event] = row]
    BY DEF CommitReceipt
<1>4. /\ held \/ ~ScannerReviewEnabled => UNCHANGED sheet
      /\ ~held /\ ScannerReviewEnabled => sheet' = [sheet EXCEPT ![p.event] = NewSheet]
    BY DEF CommitReceipt
<1>5. NewSheet # NoSheet /\ NoEvent.state = "absent"
    BY DEF NewSheet, NoSheet, NoEvent
<1>6. sheet[p.event] = NoSheet /\ InboxView[p.event] = Inbox!Nothing
    BY <1>1, <1>3, <1>5, InboxKnows DEF ReceiptsInv, OneReviewPerRevision
<1>7. event'[p.event] = row
  <2> HIDE DEF row, p
  <2> QED
      BY <1>1, <1>2, <1>3
<1>8. InboxView' = [InboxView EXCEPT ![p.event] =
                       [state |-> row.state, body |-> row.payload,
                        review |-> sheet'[p.event] # NoSheet]]
  <2> HIDE DEF row, p
  <2> QED
      BY <1>1, <1>7, InboxReplaced
<1>9. row.payload = p /\ row.state = IF held THEN "quarantined" ELSE "received"
    OBVIOUS
<1>10. ~held => Inbox!FirstOfRevision(p)
  <2> SUFFICES ASSUME ~held, NEW e \in Events, InboxView[e] # Inbox!Nothing
               PROVE  InboxView[e].body.doc # p.doc
      BY InboxIds DEF Inbox!FirstOfRevision
  <2>1. event[e] # NoEvent
      BY InboxKnows DEF ReceiptsInv
  <2>2. event[e].payload.doc # p.doc
      BY <1>1, <2>1 DEF ReceiptsInv, LocksHold
  <2> QED
      BY <2>2 DEF InboxView
<1> HIDE DEF row, held, p
<1>11. CASE held
  <2>1. (sheet'[p.event] # NoSheet) = FALSE
      BY <1>4, <1>6, <1>11
  <2>2. Inbox!Quarantine(p)
      BY <1>6, <1>8, <1>9, <1>11, <2>1 DEF Inbox!Quarantine
  <2> QED
      BY <1>1, <2>2
<1>12. CASE ~held
  <2>1. (sheet'[p.event] # NoSheet) = ScannerReviewEnabled
      BY <1>1, <1>2, <1>4, <1>5, <1>6, <1>12 DEF ScannerReviewEnabled
  <2>2. Inbox!Receive(p)
      BY <1>6, <1>8, <1>9, <1>10, <1>12, <2>1 DEF Inbox!Receive
  <2> QED
      BY <1>1, <2>2
<1> QED
    BY <1>11, <1>12

LEMMA ReceiptInInbox ==
    ASSUME ReceiptsInv, NEW r \in Requests, Receipt(r)
    PROVE  [Inbox!Next]_InboxView
<1>1. ASSUME NEW p \in Payloads, Deliver(r, p)
      PROVE  Inbox!Dispute(p) \/ UNCHANGED InboxView
    BY <1>1, RecognisedInInbox, InboxFramed DEF Deliver, ReceiptsInv
<1>2. ASSUME LockEvent(r)
      PROVE  \/ \E p \in Payloads : Inbox!Dispute(p)
             \/ UNCHANGED InboxView
  <2>1. request[r].payload \in Payloads
      BY <1>2 DEF LockEvent, ReceiptsInv, TypeOK
  <2> QED
      BY <1>2, <2>1, RecognisedInInbox, InboxFramed DEF LockEvent, ReceiptsInv
<1>3. ASSUME LockResult(r) \/ ReceiptFails(r)
      PROVE  UNCHANGED InboxView
    BY <1>3, InboxFramed DEF LockResult, ReceiptFails
<1> QED
    BY <1>1, <1>2, <1>3, CommitInInbox DEF Receipt, Inbox!Next

LEMMA InboxStep == ReceiptsInv /\ [Next]_vars => [Inbox!Next]_InboxView
<1> SUFFICES ASSUME ReceiptsInv, [Next]_vars
             PROVE  [Inbox!Next]_InboxView
    OBVIOUS
<1>1. CASE UNCHANGED vars
    BY <1>1, InboxFramed DEF vars
<1>2. CASE \E r \in Requests : Receipt(r)
    BY <1>2, ReceiptInInbox
<1>3. CASE \/ \E i \in Importers : Import(i) \/ ImporterDies(i)
           \/ \E k \in Evidence : \/ LeaseRunsOut(k) \/ RetryDue(k) \/ RetryScannerArtifact(k)
                                  \/ FileAges(k)
           \/ \E e \in Events : ConfirmScanner(e) \/ RejectScanner(e) \/ PurgeDue(e)
           \/ ReconcileReads \/ ReconcileDeletes \/ NextDay
    BY <1>3, OthersOpenNothing, InboxFramed DEF ReceiptsInv
<1> QED
    BY <1>1, <1>2, <1>3 DEF Next

\* However persistReceipt is interleaved with other deliveries, and wherever it
\* fails, receipts look like single steps: a result is received only while its
\* revision has no row, in the step that opens its review; only other bytes ever
\* change a row, and importers, operators, purge and sweep change none.
THEOREM WebhookImplementsInbox == Spec => CallbackInboxSpec
<1>1. Init => Inbox!Init
  <2> SUFFICES ASSUME Init
               PROVE  InboxView = [e \in Events |-> Inbox!Nothing]
      BY InboxIds DEF Inbox!Init
  <2>1. \A e \in Events : event[e] = NoEvent /\ sheet[e] = NoSheet
      BY DEF Init
  <2>2. NoEvent.state = "absent" /\ NoEvent.payload = None
      BY DEF NoEvent
  <2>3. \A e \in Events : InboxView[e] = Inbox!Nothing
      BY <2>1, <2>2 DEF InboxView, Inbox!Nothing
  <2> QED
      BY <2>3 DEF InboxView
<1>2. ReceiptsInv /\ [Next]_vars => [Inbox!Next]_InboxView
    BY InboxStep
<1> QED
    BY <1>1, <1>2, ReceiptsInvHolds, PTL DEF Spec, CallbackInboxSpec, Inbox!Spec

-----------------------------------------------------------------------------
(* Every step keeps the evidence *)

\* What EvidenceKept says of one artifact, and of one sheet.
OnDisk(k) == job[k].state = "available" => file[k] # "absent" \/ PurgeEligible(k[1])

Shown(e) == (sheet[e].image = "file") <=> (job[<<e, Source>>].state = "available")

LEMMA EvidenceOfSheets ==
    /\ \A k \in Evidence : k[1] \in Events /\ k \in Jobs(k[1])
    /\ \A e \in Events : \A k \in Jobs(e) : k \in Evidence /\ k[1] = e
    /\ \A e \in Events : <<e, Source>> \in Evidence
BY WebhookAssumption DEF Evidence, Jobs

LEMMA KeptPointwise ==
    ASSUME EvidenceKept
    PROVE  (\A k \in Evidence : OnDisk(k)) /\ (\A e \in Events : Shown(e))
BY EvidenceOfSheets DEF EvidenceKept, OnDisk, Shown

LEMMA KeptPointwiseNext ==
    ASSUME PathsAreOfFiles', \A k \in Evidence : OnDisk(k)', \A e \in Events : Shown(e)'
    PROVE  EvidenceKept'
BY EvidenceOfSheets DEF EvidenceKept, PathsAreOfFiles, OnDisk, Shown

\* A sheet that is due for the purge is beyond the scanner's retention, and
\* nothing of it is being imported.
LEMMA EligibleIsPast ==
    ASSUME TypeOK, ArtifactDays <= RetentionDays, NEW e \in Events, PurgeEligible(e)
    PROVE  /\ ArtifactDays <= day /\ sheet[e].status \in {"verified", "rejected"}
           /\ \A k \in Jobs(e) : job[k].state \notin Recoverable
<1>1. sheet[e].processed \in Nat /\ day \in Nat /\ RetentionDays \in Nat /\ ArtifactDays \in Nat
    BY WebhookAssumption DEF TypeOK, SheetRows
<1>2. day - sheet[e].processed >= RetentionDays
    BY DEF PurgeEligible
<1>3. ArtifactDays <= day
    BY <1>1, <1>2
<1> QED
    BY <1>3 DEF PurgeEligible

\* So is a purged one.
LEMMA PurgedIsPast ==
    ASSUME TypeOK, PurgesStand, ArtifactDays <= RetentionDays, NEW e \in Events,
           sheet[e].image = "purged"
    PROVE  /\ ArtifactDays <= day /\ sheet[e].status \in {"verified", "rejected"}
           /\ \A k \in Jobs(e) : job[k].state \notin Recoverable \cup {"available"}
<1>1. sheet[e].processed \in Nat /\ day \in Nat /\ RetentionDays \in Nat /\ ArtifactDays \in Nat
    BY WebhookAssumption DEF TypeOK, SheetRows
<1>2. day - sheet[e].processed >= RetentionDays
    BY DEF PurgesStand
<1>3. ArtifactDays <= day
    BY <1>1, <1>2
<1> QED
    BY <1>3 DEF PurgesStand

\* Rows may move between the states in which they name no file, and into the
\* importers' reach only while their sheet is undecided or the scanner still
\* keeps the artifact.
RowsMove ==
    /\ \A e \in Events :
          /\ sheet'[e].image = sheet[e].image
          /\ sheet'[e] = sheet[e] \/ sheet[e].status \notin {"verified", "rejected"}
    /\ \A k \in Evidence :
          \/ job'[k].state = job[k].state /\ job'[k].path = job[k].path
          \/ /\ job[k].state \notin {"available", "purged"} /\ ~job'[k].path
             /\ job'[k].state \notin {"available", "purged"}
             /\ job'[k].state \in Recoverable =>
                   \/ job[k].state \in Recoverable
                   \/ day < ArtifactDays
                   \/ sheet[k[1]].status \notin {"verified", "rejected"}

\* No importer gains a claim, or a download.
ClaimsOnlyEnd ==
    \A i \in Importers : importer'[i].pc = "fetched" =>
        importer'[i] = importer[i] /\ (OwnClaim(i)' => OwnClaim(i))

LEMMA RowsMoveKeeps ==
    ASSUME ArtifactDays <= RetentionDays, EvidenceInv, RowsMove, ClaimsOnlyEnd,
           UNCHANGED <<file, sweep, day, stray>>
    PROVE  PathsAreOfFiles' /\ EvidenceKept' /\ FilesGuarded' /\ PurgesStand'
<1>1. TypeOK /\ PurgesStand /\ PathsAreOfFiles /\ FilesGuarded
    BY DEF EvidenceInv
<1>2. (\A k \in Evidence : OnDisk(k)) /\ (\A e \in Events : Shown(e))
    BY KeptPointwise DEF EvidenceInv
<1>3. PathsAreOfFiles'
    BY <1>1 DEF PathsAreOfFiles, RowsMove
<1>4. day \in Nat /\ ArtifactDays \in Nat
    BY <1>1, WebhookAssumption DEF TypeOK
<1>5. ASSUME NEW e \in Events, sheet[e].status \in {"verified", "rejected"},
             \A k \in Jobs(e) : job[k].state \notin Recoverable, ArtifactDays <= day
      PROVE  sheet'[e] = sheet[e] /\ \A k \in Jobs(e) : job'[k].state \notin Recoverable
  <2>1. sheet'[e] = sheet[e]
      BY <1>5 DEF RowsMove
  <2>2. ~(day < ArtifactDays)
      BY <1>4, <1>5
  <2>3. ASSUME NEW k \in Jobs(e)
        PROVE  job'[k].state \notin Recoverable
      BY <1>5, <2>2, EvidenceOfSheets DEF RowsMove
  <2> QED
      BY <2>1, <2>3
<1>6. ASSUME NEW k \in Evidence
      PROVE  OnDisk(k)'
  <2> SUFFICES ASSUME job'[k].state = "available", file'[k] = "absent"
               PROVE  PurgeEligible(k[1])'
      BY DEF OnDisk
  <2>1. k[1] \in Events
      BY EvidenceOfSheets
  <2>2. PurgeEligible(k[1])
      BY <1>2 DEF OnDisk, RowsMove
  <2>3. /\ sheet'[k[1]] = sheet[k[1]]
        /\ \A l \in Jobs(k[1]) : job'[l].state \notin Recoverable
    <3>1. /\ ArtifactDays <= day /\ sheet[k[1]].status \in {"verified", "rejected"}
          /\ \A l \in Jobs(k[1]) : job[l].state \notin Recoverable
        BY <1>1, <2>1, <2>2, EligibleIsPast
    <3> QED
        BY <1>5, <2>1, <3>1
  <2> QED
      BY <2>2, <2>3 DEF PurgeEligible
<1>7. ASSUME NEW e \in Events
      PROVE  Shown(e)'
    BY <1>2, EvidenceOfSheets DEF Shown, RowsMove
<1>8. FilesGuarded'
  <2>1. ASSUME NEW i \in Importers, importer'[i].pc = "fetched",
               importer'[i].outcome = "available", OwnClaim(i)'
        PROVE  file'[importer'[i].job] = "young"
      BY <1>1, <2>1 DEF FilesGuarded, ClaimsOnlyEnd
  <2>2. ASSUME sweep' # None, NEW k \in Evidence \ sweep', job'[k].state = "available"
        PROVE  file'[k] # "old"
      BY <1>1, <2>2 DEF FilesGuarded, RowsMove
  <2> QED
      BY <2>1, <2>2 DEF FilesGuarded
<1>9. PurgesStand'
  <2>1. ASSUME NEW e \in Events, sheet'[e].image = "purged"
        PROVE  /\ sheet'[e].status \in {"verified", "rejected"}
               /\ day' - sheet'[e].processed >= RetentionDays
               /\ \A k \in Jobs(e) : job'[k].state \notin Recoverable \cup {"available"}
    <3>1. sheet[e].image = "purged"
        BY <2>1 DEF RowsMove
    <3>2. /\ ArtifactDays <= day /\ sheet[e].status \in {"verified", "rejected"}
          /\ \A k \in Jobs(e) : job[k].state \notin Recoverable \cup {"available"}
        BY <1>1, <3>1, PurgedIsPast
    <3>3. sheet'[e] = sheet[e] /\ \A k \in Jobs(e) : job'[k].state \notin Recoverable
        BY <1>5, <3>2
    <3>4. \A k \in Jobs(e) : job'[k].state # "available"
        BY <3>2, EvidenceOfSheets DEF RowsMove
    <3> QED
        BY <1>1, <3>1, <3>3, <3>4 DEF PurgesStand
  <2>2. ASSUME NEW k \in Evidence, job'[k].state = "purged"
        PROVE  file'[k] = "absent" \/ k \in stray'
      BY <1>1, <2>2 DEF PurgesStand, RowsMove
  <2> QED
      BY <2>1, <2>2 DEF PurgesStand
<1> QED
    BY <1>3, <1>6, <1>7, <1>8, <1>9, KeptPointwiseNext

LEMMA DownloadKeeps ==
    ASSUME EvidenceInv, NEW i \in Importers, Download(i)
    PROVE  PathsAreOfFiles' /\ EvidenceKept' /\ FilesGuarded' /\ PurgesStand'
<1> DEFINE k == importer[i].job
<1>1. TypeOK /\ PurgesStand /\ PathsAreOfFiles /\ FilesGuarded
    BY DEF EvidenceInv
<1>2. /\ k \in Evidence /\ importer'[i].job = k
      /\ \A j \in Importers \ {i} : importer'[j] = importer[j]
      /\ \/ importer'[i].outcome # "available" /\ UNCHANGED <<file, stray>>
         \/ /\ file' = [file EXCEPT ![k] = "young"]
            /\ stray' = IF OwnClaim(i) THEN stray ELSE stray \cup {k}
    BY <1>1, DownloadRows
<1>3. UNCHANGED <<sheet, job, sweep, day>> /\ file \in [Evidence -> {"absent", "young", "old"}]
    BY <1>1 DEF Download, TypeOK
<1>4. (\A l \in Evidence : OnDisk(l)) /\ (\A e \in Events : Shown(e))
    BY KeptPointwise DEF EvidenceInv
<1>5. PathsAreOfFiles'
    BY <1>1, <1>3 DEF PathsAreOfFiles
<1> HIDE DEF k
<1>6. \A l \in Evidence : file'[l] = file[l] \/ (l = k /\ file'[l] = "young")
    BY <1>2, <1>3
<1>7. ASSUME NEW l \in Evidence
      PROVE  OnDisk(l)'
  <2>1. PurgeEligible(l[1]) => PurgeEligible(l[1])'
      BY <1>3 DEF PurgeEligible
  <2> QED
      BY <1>3, <1>4, <1>6, <2>1 DEF OnDisk
<1>8. \A e \in Events : Shown(e)'
    BY <1>3, <1>4 DEF Shown
<1>9. ASSUME NEW j \in Importers, importer'[j].pc = "fetched",
             importer'[j].outcome = "available", OwnClaim(j)'
      PROVE  file'[importer'[j].job] = "young"
  <2>1. CASE j = i
      BY <1>2, <1>3, <1>9, <2>1
  <2>2. CASE j # i
    <3>1. importer[j].job \in Evidence /\ file[importer[j].job] = "young"
        BY <1>1, <1>2, <1>3, <1>9, <2>2 DEF FilesGuarded, OwnClaim, TypeOK
    <3> QED
        BY <1>2, <1>6, <2>2, <3>1
  <2> QED
      BY <2>1, <2>2
<1>10. ASSUME sweep' # None, NEW l \in Evidence \ sweep', job'[l].state = "available"
       PROVE  file'[l] # "old"
    BY <1>1, <1>3, <1>6, <1>10 DEF FilesGuarded
<1>11. FilesGuarded'
    BY <1>9, <1>10 DEF FilesGuarded
<1>12. ASSUME NEW l \in Evidence, job'[l].state = "purged"
       PROVE  file'[l] = "absent" \/ l \in stray'
  <2>1. file[l] = "absent" \/ l \in stray
      BY <1>1, <1>3, <1>12 DEF PurgesStand
  <2>2. CASE UNCHANGED <<file, stray>>
      BY <2>1, <2>2
  <2>3. CASE /\ file' = [file EXCEPT ![k] = "young"]
             /\ stray' = IF OwnClaim(i) THEN stray ELSE stray \cup {k}
    <3>1. l = k => ~OwnClaim(i)
        BY <1>3, <1>12 DEF OwnClaim, k
    <3> QED
        BY <1>3, <2>1, <2>3, <3>1
  <2> QED
      BY <1>2, <2>2, <2>3
<1>13. PurgesStand'
    BY <1>1, <1>3, <1>12 DEF PurgesStand
<1> QED
    BY <1>5, <1>7, <1>8, <1>11, <1>13, KeptPointwiseNext

\* An import that succeeds offers the file it has just written.
LEMMA ImportedKeeps ==
    ASSUME ArtifactDays <= RetentionDays, EvidenceInv, NEW i \in Importers, Finish(i),
           OwnClaim(i), importer[i].outcome = "available"
    PROVE  PathsAreOfFiles' /\ EvidenceKept' /\ FilesGuarded' /\ PurgesStand'
<1> DEFINE k == importer[i].job
<1>1. TypeOK /\ PurgesStand /\ PathsAreOfFiles /\ FilesGuarded
    BY DEF EvidenceInv
<1>2. /\ importer[i].pc = "fetched" /\ k \in Evidence
      /\ importer' = [importer EXCEPT ![i] = NoImport]
      /\ \A l \in Evidence \ {k} : job'[l] = job[l]
    BY <1>1, FinishRows
<1>3. job[k].state = "processing" /\ file[k] = "young"
    BY <1>1, <1>2 DEF OwnClaim, FilesGuarded
<1>4. ~UNCHANGED job
  <2>1. job' = [job EXCEPT ![k] = [state |-> "available", token |-> None, lease |-> FALSE,
                                   due |-> "available" # "retrying",
                                   path |-> @.path \/ "available" = "available"]]
      BY DEF Finish
  <2> HIDE DEF k
  <2>2. job'[k].state = "available"
      BY <1>1, <1>2, <2>1 DEF TypeOK
  <2> QED
      BY <1>3, <2>2
<1>5. /\ job'[k].state = "available" /\ job'[k].path = TRUE
      /\ \/ UNCHANGED sheet /\ k[2] # Source
         \/ /\ k[2] = Source /\ sheet'[k[1]].image = "file"
            /\ \A e \in Events \ {k[1]} : sheet'[e] = sheet[e]
    BY <1>1, <1>4, FinishRows
<1>6. UNCHANGED <<file, sweep, day, stray>>
    BY DEF Finish
<1>7. k[1] \in Events /\ k \in Jobs(k[1]) /\ k = <<k[1], k[2]>>
    BY <1>2, EvidenceOfSheets DEF Evidence
<1>8. (\A l \in Evidence : OnDisk(l)) /\ (\A e \in Events : Shown(e))
    BY KeptPointwise DEF EvidenceInv
<1>9. importer \in [Importers -> ImporterMemories] /\ NoImport.pc = "idle"
    BY <1>1 DEF TypeOK, NoImport
<1> HIDE DEF k
<1>10. PathsAreOfFiles'
    BY <1>1, <1>2, <1>5 DEF PathsAreOfFiles
<1>11. ASSUME NEW l \in Evidence
       PROVE  OnDisk(l)'
  <2>1. CASE l = k
      BY <1>3, <1>6, <2>1 DEF OnDisk
  <2>2. CASE l # k
    <3> SUFFICES ASSUME job'[l].state = "available", file'[l] = "absent"
                 PROVE  PurgeEligible(l[1])'
        BY DEF OnDisk
    <3>1. l[1] \in Events /\ PurgeEligible(l[1])
        BY <1>2, <1>6, <1>8, <2>2, EvidenceOfSheets DEF OnDisk
    <3>2. k \notin Jobs(l[1])
        BY <1>3, <3>1 DEF PurgeEligible, Recoverable
    <3>3. l[1] # k[1]
        BY <1>7, <3>2
    <3>4. sheet'[l[1]] = sheet[l[1]]
        BY <1>5, <3>1, <3>3
    <3>5. \A m \in Jobs(l[1]) : job'[m] = job[m]
        BY <1>2, <3>1, <3>2, EvidenceOfSheets
    <3> QED
        BY <1>6, <3>1, <3>4, <3>5 DEF PurgeEligible
  <2> QED
      BY <2>1, <2>2
<1>12. ASSUME NEW e \in Events
       PROVE  Shown(e)'
  <2>1. CASE e = k[1] /\ k[2] = Source
      BY <1>5, <1>7, <2>1 DEF Shown
  <2>2. CASE ~(e = k[1] /\ k[2] = Source)
    <3>1. <<e, Source>> # k /\ <<e, Source>> \in Evidence
        BY <1>7, <2>2, EvidenceOfSheets
    <3>2. sheet'[e] = sheet[e] /\ job'[<<e, Source>>] = job[<<e, Source>>]
        BY <1>2, <1>5, <2>2, <3>1
    <3> QED
        BY <1>8, <3>2 DEF Shown
  <2> QED
      BY <2>1, <2>2
<1>13. ASSUME NEW j \in Importers, importer'[j].pc = "fetched",
              importer'[j].outcome = "available", OwnClaim(j)'
       PROVE  file'[importer'[j].job] = "young"
  <2>1. j # i /\ importer'[j] = importer[j] /\ importer[j].job \in Evidence
      BY <1>1, <1>2, <1>9, <1>13 DEF TypeOK
  <2>2. importer[j].job # k
      BY <1>5, <1>13, <2>1 DEF OwnClaim
  <2> QED
      BY <1>1, <1>2, <1>6, <1>13, <2>1, <2>2 DEF FilesGuarded, OwnClaim
<1>14. ASSUME sweep' # None, NEW l \in Evidence \ sweep', job'[l].state = "available"
       PROVE  file'[l] # "old"
    BY <1>1, <1>2, <1>3, <1>6, <1>14 DEF FilesGuarded
<1>15. FilesGuarded'
    BY <1>13, <1>14 DEF FilesGuarded
<1>16. ASSUME NEW e \in Events, sheet'[e].image = "purged"
       PROVE  /\ sheet'[e].status \in {"verified", "rejected"}
              /\ day' - sheet'[e].processed >= RetentionDays
              /\ \A l \in Jobs(e) : job'[l].state \notin Recoverable \cup {"available"}
  <2>1. sheet'[e] = sheet[e]
      BY <1>5, <1>16
  <2>2. k \notin Jobs(e)
      BY <1>1, <1>3, <1>16, <2>1 DEF PurgesStand, Recoverable
  <2>3. \A l \in Jobs(e) : job'[l] = job[l]
      BY <1>2, <2>2, EvidenceOfSheets
  <2> QED
      BY <1>1, <1>6, <1>16, <2>1, <2>3 DEF PurgesStand
<1>17. ASSUME NEW l \in Evidence, job'[l].state = "purged"
       PROVE  file'[l] = "absent" \/ l \in stray'
    BY <1>1, <1>2, <1>5, <1>6, <1>17 DEF PurgesStand
<1>18. PurgesStand'
    BY <1>16, <1>17 DEF PurgesStand
<1> QED
    BY <1>10, <1>11, <1>12, <1>15, <1>18, KeptPointwiseNext

\* The purge takes the files of a sheet that is due, and no other.
LEMMA PurgeKeeps ==
    ASSUME ArtifactDays <= RetentionDays, EvidenceInv, NEW e \in Events, PurgeDue(e)
    PROVE  PathsAreOfFiles' /\ EvidenceKept' /\ FilesGuarded' /\ PurgesStand'
<1>1. TypeOK /\ PurgesStand /\ PathsAreOfFiles /\ FilesGuarded
    BY DEF EvidenceInv
<1>2. (\A l \in Evidence : OnDisk(l)) /\ (\A d \in Events : Shown(d))
    BY KeptPointwise DEF EvidenceInv
<1>3. /\ PurgeEligible(e)
      /\ \A k \in Evidence : \/ file'[k] = file[k]
                             \/ k \in Jobs(e) /\ job[k].path /\ file'[k] = "absent"
    BY <1>1, PurgeRows
<1>4. UNCHANGED <<importer, sweep, day, stray>>
    BY DEF PurgeDue
<1>5. \A k \in Jobs(e) : job[k].state \notin Recoverable
    BY <1>3 DEF PurgeEligible
<1>6. CASE UNCHANGED <<job, sheet>>
  <2>1. PathsAreOfFiles'
      BY <1>1, <1>6 DEF PathsAreOfFiles
  <2>2. \A d \in Events : PurgeEligible(d) => PurgeEligible(d)'
      BY <1>4, <1>6 DEF PurgeEligible
  <2>3. ASSUME NEW l \in Evidence
        PROVE  OnDisk(l)'
    <3>1. CASE file'[l] = file[l]
        BY <1>2, <1>6, <2>2, <3>1, EvidenceOfSheets DEF OnDisk
    <3>2. CASE l \in Jobs(e)
        BY <1>3, <2>2, <3>2, EvidenceOfSheets DEF OnDisk
    <3> QED
        BY <1>3, <3>1, <3>2
  <2>4. \A d \in Events : Shown(d)'
      BY <1>2, <1>6 DEF Shown
  <2>5. ASSUME NEW j \in Importers, importer'[j].pc = "fetched",
               importer'[j].outcome = "available", OwnClaim(j)'
        PROVE  file'[importer'[j].job] = "young"
    <3>1. /\ importer[j].job \in Evidence /\ job[importer[j].job].state = "processing"
          /\ file[importer[j].job] = "young"
        BY <1>1, <1>4, <1>6, <2>5 DEF FilesGuarded, OwnClaim, TypeOK
    <3>2. importer[j].job \notin Jobs(e)
        BY <1>5, <3>1 DEF Recoverable
    <3> QED
        BY <1>3, <1>4, <3>1, <3>2
  <2>6. ASSUME sweep' # None, NEW l \in Evidence \ sweep', job'[l].state = "available"
        PROVE  file'[l] # "old"
      BY <1>1, <1>3, <1>4, <1>6, <2>6 DEF FilesGuarded
  <2>7. FilesGuarded'
      BY <2>5, <2>6 DEF FilesGuarded
  <2>8. \A l \in Evidence : job'[l].state = "purged" => file'[l] = "absent" \/ l \in stray'
      BY <1>1, <1>3, <1>4, <1>6 DEF PurgesStand
  <2>9. PurgesStand'
      BY <1>1, <1>4, <1>6, <2>8 DEF PurgesStand
  <2> QED
      BY <2>1, <2>3, <2>4, <2>7, <2>9, KeptPointwiseNext
<1>7. CASE ~UNCHANGED <<job, sheet>>
  <2>1. /\ \A k \in Evidence \ Jobs(e) : job'[k] = job[k]
        /\ \A k \in Jobs(e) : IF job[k].path
                              THEN /\ job'[k].state = "purged" /\ ~job'[k].path
                                   /\ file'[k] = "absent"
                              ELSE job'[k] = job[k]
        /\ \A d \in Events \ {e} : sheet'[d] = sheet[d]
        /\ sheet'[e].image = "purged" /\ sheet'[e].status = sheet[e].status
        /\ sheet'[e].processed = sheet[e].processed
      BY <1>1, <1>7, PurgeRows
  <2>2. ASSUME NEW k \in Jobs(e)
        PROVE  /\ job'[k].state \notin Recoverable \cup {"available"}
               /\ ~job'[k].path
               /\ job'[k].state = "purged" => file'[k] = "absent" \/ k \in stray
    <3>1. k \in Evidence
        BY EvidenceOfSheets
    <3>2. CASE job[k].path
        BY <2>1, <3>2 DEF Recoverable
    <3>3. CASE ~job[k].path
      <4>1. job'[k] = job[k] /\ file'[k] = file[k]
          BY <1>3, <2>1, <3>1, <3>3
      <4>2. job[k].state # "available"
          BY <1>1, <3>1, <3>3 DEF PathsAreOfFiles
      <4>3. job[k].state = "purged" => file[k] = "absent" \/ k \in stray
          BY <1>1, <3>1 DEF PurgesStand
      <4> QED
          BY <1>5, <3>3, <4>1, <4>2, <4>3
    <3> QED
        BY <3>2, <3>3
  <2>3. \A k \in Evidence : k \notin Jobs(e) => job'[k] = job[k] /\ file'[k] = file[k]
      BY <1>3, <2>1
  <2>4. ASSUME NEW k \in Evidence
        PROVE  job'[k].path <=> job'[k].state = "available"
    <3>1. CASE k \in Jobs(e)
        BY <2>2, <3>1
    <3>2. CASE k \notin Jobs(e)
        BY <1>1, <2>3, <3>2 DEF PathsAreOfFiles
    <3> QED
        BY <3>1, <3>2
  <2>5. ASSUME NEW k \in Evidence
        PROVE  OnDisk(k)'
    <3> SUFFICES ASSUME job'[k].state = "available", file'[k] = "absent"
                 PROVE  PurgeEligible(k[1])'
        BY DEF OnDisk
    <3>1. k \notin Jobs(e) /\ k[1] \in Events /\ k[1] # e
        BY <2>2, EvidenceOfSheets
    <3>2. PurgeEligible(k[1])
        BY <1>2, <2>3, <3>1 DEF OnDisk
    <3>3. sheet'[k[1]] = sheet[k[1]] /\ \A l \in Jobs(k[1]) : job'[l] = job[l]
      <4>1. \A l \in Jobs(k[1]) : l \in Evidence /\ l \notin Jobs(e)
          BY <3>1, EvidenceOfSheets
      <4> QED
          BY <2>1, <2>3, <3>1, <4>1
    <3> QED
        BY <1>4, <3>2, <3>3 DEF PurgeEligible
  <2>6. ASSUME NEW d \in Events
        PROVE  Shown(d)'
    <3>1. CASE d = e
      <4>1. <<e, Source>> \in Jobs(e)
          BY WebhookAssumption DEF Jobs
      <4> QED
          BY <2>1, <2>2, <3>1, <4>1 DEF Shown
    <3>2. CASE d # e
      <4>1. <<d, Source>> \in Evidence /\ <<d, Source>> \notin Jobs(e)
          BY <3>2, EvidenceOfSheets DEF Jobs
      <4> QED
          BY <1>2, <2>1, <2>3, <3>2, <4>1 DEF Shown
    <3> QED
        BY <3>1, <3>2
  <2>7. ASSUME NEW j \in Importers, importer'[j].pc = "fetched",
               importer'[j].outcome = "available", OwnClaim(j)'
        PROVE  file'[importer'[j].job] = "young"
    <3>1. importer[j].job \in Evidence /\ job'[importer[j].job].state = "processing"
        BY <1>1, <1>4, <2>7 DEF OwnClaim, TypeOK
    <3>2. importer[j].job \notin Jobs(e)
        BY <2>2, <3>1 DEF Recoverable
    <3> QED
        BY <1>1, <1>4, <2>3, <2>7, <3>1, <3>2 DEF FilesGuarded, OwnClaim
  <2>8. ASSUME sweep' # None, NEW l \in Evidence \ sweep', job'[l].state = "available"
        PROVE  file'[l] # "old"
    <3>1. l \notin Jobs(e)
        BY <2>2, <2>8
    <3> QED
        BY <1>1, <1>4, <2>3, <2>8, <3>1 DEF FilesGuarded
  <2>9. FilesGuarded'
      BY <2>7, <2>8 DEF FilesGuarded
  <2>10. ASSUME NEW d \in Events, sheet'[d].image = "purged"
         PROVE  /\ sheet'[d].status \in {"verified", "rejected"}
                /\ day' - sheet'[d].processed >= RetentionDays
                /\ \A l \in Jobs(d) : job'[l].state \notin Recoverable \cup {"available"}
    <3>1. CASE d = e
        BY <1>3, <1>4, <2>1, <2>2, <3>1 DEF PurgeEligible
    <3>2. CASE d # e
      <4>1. \A l \in Jobs(d) : l \in Evidence /\ l \notin Jobs(e)
          BY <3>2, EvidenceOfSheets
      <4>2. sheet'[d] = sheet[d] /\ \A l \in Jobs(d) : job'[l] = job[l]
          BY <2>1, <2>3, <3>2, <4>1
      <4> QED
          BY <1>1, <1>4, <2>10, <4>2 DEF PurgesStand
    <3> QED
        BY <3>1, <3>2
  <2>11. ASSUME NEW l \in Evidence, job'[l].state = "purged"
         PROVE  file'[l] = "absent" \/ l \in stray'
    <3>1. CASE l \in Jobs(e)
        BY <1>4, <2>2, <2>11, <3>1
    <3>2. CASE l \notin Jobs(e)
        BY <1>1, <1>4, <2>3, <2>11, <3>2 DEF PurgesStand
    <3> QED
        BY <3>1, <3>2
  <2>12. PurgesStand'
      BY <2>10, <2>11 DEF PurgesStand
  <2>13. PathsAreOfFiles'
      BY <2>4 DEF PathsAreOfFiles
  <2> QED
      BY <2>5, <2>6, <2>9, <2>12, <2>13, KeptPointwiseNext
<1> QED
    BY <1>6, <1>7

\* The sweep knows the rows it may not touch; files it has not seen a row of are
\* offered only while they are young.
LEMMA SweepKeeps ==
    ASSUME EvidenceInv, ReconcileReads \/ ReconcileDeletes
    PROVE  PathsAreOfFiles' /\ EvidenceKept' /\ FilesGuarded' /\ PurgesStand'
<1>1. TypeOK /\ PurgesStand /\ PathsAreOfFiles /\ FilesGuarded
    BY DEF EvidenceInv
<1>2. (\A l \in Evidence : OnDisk(l)) /\ (\A d \in Events : Shown(d))
    BY KeptPointwise DEF EvidenceInv
<1>3. UNCHANGED <<sheet, job, importer, day, stray>>
    BY DEF ReconcileReads, ReconcileDeletes
<1>4. /\ PathsAreOfFiles'
      /\ \A d \in Events : Shown(d)'
      /\ \A d \in Events : PurgeEligible(d) => PurgeEligible(d)'
    BY <1>1, <1>2, <1>3 DEF PathsAreOfFiles, Shown, PurgeEligible
<1>5. CASE ReconcileReads
  <2>1. file' = file /\ sweep' = {k \in Evidence : job[k].path}
      BY <1>5 DEF ReconcileReads
  <2>2. \A l \in Evidence : OnDisk(l)'
      BY <1>2, <1>3, <1>4, <2>1, EvidenceOfSheets DEF OnDisk
  <2>3. ASSUME NEW l \in Evidence \ sweep'
        PROVE  job'[l].state # "available"
      BY <1>1, <1>3, <2>1 DEF PathsAreOfFiles
  <2>4. FilesGuarded'
      BY <1>1, <1>3, <2>1, <2>3 DEF FilesGuarded, OwnClaim
  <2>5. PurgesStand'
      BY <1>1, <1>3, <2>1 DEF PurgesStand
  <2> QED
      BY <1>4, <2>2, <2>4, <2>5, KeptPointwiseNext
<1>6. CASE ReconcileDeletes
  <2>1. sweep # None /\ sweep' = None
      BY <1>6 DEF ReconcileDeletes
  <2>2. \A l \in Evidence : file'[l] = IF l \notin sweep /\ file[l] = "old" THEN "absent" ELSE file[l]
      BY <1>6 DEF ReconcileDeletes
  <2>3. ASSUME NEW l \in Evidence
        PROVE  OnDisk(l)'
    <3>1. CASE job[l].state = "available"
      <4>1. file'[l] = file[l]
          BY <1>1, <2>1, <2>2, <3>1 DEF FilesGuarded
      <4> QED
          BY <1>2, <1>3, <1>4, <4>1, EvidenceOfSheets DEF OnDisk
    <3>2. CASE job[l].state # "available"
        BY <1>3, <3>2 DEF OnDisk
    <3> QED
        BY <3>1, <3>2
  <2>4. ASSUME NEW j \in Importers, importer'[j].pc = "fetched",
               importer'[j].outcome = "available", OwnClaim(j)'
        PROVE  file'[importer'[j].job] = "young"
    <3>1. importer[j].job \in Evidence /\ file[importer[j].job] = "young"
        BY <1>1, <1>3, <2>4 DEF FilesGuarded, OwnClaim, TypeOK
    <3> QED
        BY <1>3, <2>2, <3>1
  <2>5. FilesGuarded'
      BY <2>1, <2>4 DEF FilesGuarded
  <2>6. \A l \in Evidence : job'[l].state = "purged" => file'[l] = "absent" \/ l \in stray'
      BY <1>1, <1>3, <2>2 DEF PurgesStand
  <2>7. PurgesStand'
      BY <1>1, <1>3, <2>6 DEF PurgesStand
  <2> QED
      BY <1>4, <2>3, <2>5, <2>7, KeptPointwiseNext
<1> QED
    BY <1>5, <1>6

\* Files age and days pass only while nothing is in the middle of a transfer.
LEMMA TimeKeeps ==
    ASSUME EvidenceInv, NextDay \/ \E k \in Evidence : FileAges(k)
    PROVE  PathsAreOfFiles' /\ EvidenceKept' /\ FilesGuarded' /\ PurgesStand'
<1>1. TypeOK /\ PurgesStand /\ PathsAreOfFiles
    BY DEF EvidenceInv
<1>2. (\A l \in Evidence : OnDisk(l)) /\ (\A d \in Events : Shown(d))
    BY KeptPointwise DEF EvidenceInv
<1>3. /\ UNCHANGED <<sheet, job, importer, sweep, stray>>
      /\ sweep = None /\ \A i \in Importers : importer[i] = NoImport
    BY DEF NextDay, FileAges, Rest
<1>4. day' = day \/ day' = day + 1
    BY DEF NextDay, FileAges
<1>5. \A l \in Evidence : file'[l] = "absent" <=> file[l] = "absent"
    BY <1>1 DEF NextDay, FileAges, TypeOK
<1>6. ASSUME NEW d \in Events, day - sheet[d].processed >= RetentionDays
      PROVE  day' - sheet'[d].processed >= RetentionDays
  <2>1. day \in Nat /\ sheet[d].processed \in Nat /\ RetentionDays \in Nat
      BY <1>1, WebhookAssumption DEF TypeOK, SheetRows
  <2> QED
      BY <1>3, <1>4, <1>6, <2>1
<1>7. \A d \in Events : PurgeEligible(d) => PurgeEligible(d)'
    BY <1>3, <1>6 DEF PurgeEligible
<1>8. PathsAreOfFiles' /\ \A d \in Events : Shown(d)'
    BY <1>1, <1>2, <1>3 DEF PathsAreOfFiles, Shown
<1>9. \A l \in Evidence : OnDisk(l)'
    BY <1>2, <1>3, <1>5, <1>7, EvidenceOfSheets DEF OnDisk
<1>10. FilesGuarded'
    BY <1>3 DEF FilesGuarded, NoImport
<1>11. PurgesStand'
    BY <1>1, <1>3, <1>5, <1>6 DEF PurgesStand
<1> QED
    BY <1>8, <1>9, <1>10, <1>11, KeptPointwiseNext

\* Claims, lost leases, retries, decisions and receipts only move rows.
Movers ==
    \/ UNCHANGED vars
    \/ \E r \in Requests : Receipt(r)
    \/ \E i \in Importers : \/ \E k \in Evidence : Claim(i, k)
                            \/ Finish(i) /\ ~(OwnClaim(i) /\ importer[i].outcome = "available")
                            \/ ImporterDies(i)
    \/ \E k \in Evidence : LeaseRunsOut(k) \/ RetryDue(k) \/ RetryScannerArtifact(k)
    \/ \E e \in Events : ConfirmScanner(e) \/ RejectScanner(e)

LEMMA RowsOnlyMove ==
    ASSUME ReceiptsInv, EvidenceInv, Movers
    PROVE  RowsMove /\ ClaimsOnlyEnd /\ UNCHANGED <<file, sweep, day, stray>>
<1>1. TypeOK /\ PathsAreOfFiles
    BY DEF EvidenceInv
<1>2. UNCHANGED sheet => \A e \in Events : /\ sheet'[e].image = sheet[e].image
                                           /\ sheet'[e] = sheet[e]
    OBVIOUS
<1>3. UNCHANGED <<job, sheet>> => RowsMove
    BY DEF RowsMove
<1>4. UNCHANGED <<job, importer>> => ClaimsOnlyEnd
    BY DEF ClaimsOnlyEnd, OwnClaim
<1>5. CASE UNCHANGED vars
    BY <1>3, <1>4, <1>5 DEF vars
<1>6. ASSUME NEW r \in Requests, Receipt(r), ~CommitReceipt(r)
      PROVE  RowsMove /\ ClaimsOnlyEnd /\ UNCHANGED <<file, sweep, day, stray>>
  <2>1. UNCHANGED <<sheet, job, importer, file, sweep, day, stray>>
      BY <1>6 DEF Receipt, Deliver, LockEvent, LockResult, ReceiptFails
  <2> QED
      BY <1>3, <1>4, <2>1
<1>7. ASSUME NEW r \in Requests, CommitReceipt(r)
      PROVE  RowsMove /\ ClaimsOnlyEnd /\ UNCHANGED <<file, sweep, day, stray>>
  <2> DEFINE e == request[r].payload.event
  <2>1. UNCHANGED <<importer, file, sweep, day, stray>>
      BY <1>7 DEF CommitReceipt
  <2>2. CASE UNCHANGED <<sheet, job>>
      BY <1>3, <1>4, <2>1, <2>2
  <2>3. CASE ~UNCHANGED <<sheet, job>>
    <3>1. /\ e \in Events /\ sheet'[e] = NewSheet
          /\ \A d \in Events \ {e} : sheet'[d] = sheet[d]
          /\ \A k \in Evidence \ Jobs(e) : job'[k] = job[k]
          /\ \A k \in Jobs(e) : job'[k].state \in {"pending", "permanent_failed"} /\ ~job'[k].path
        BY <1>1, <1>7, <2>3, CommitRows
    <3>2. event[e] = NoEvent /\ NoEvent.state = "absent"
        BY <1>7 DEF CommitReceipt, NoEvent
    <3>3. sheet[e] = NoSheet
        BY <3>1, <3>2 DEF ReceiptsInv, OneReviewPerRevision
    <3>4. \A k \in Jobs(e) : job[k].state = "absent"
        BY <3>1, <3>3, EvidenceOfSheets DEF ReceiptsInv, ImportsOfSheets
    <3>5. NoSheet.status = "absent" /\ NewSheet.image = NoSheet.image
        BY DEF NoSheet, NewSheet
    <3> HIDE DEF e
    <3>6. \A d \in Events : /\ sheet'[d].image = sheet[d].image
                            /\ sheet'[d] = sheet[d] \/ sheet[d].status \notin {"verified", "rejected"}
        BY <3>1, <3>3, <3>5
    <3>7. ASSUME NEW k \in Evidence
          PROVE  \/ job'[k].state = job[k].state /\ job'[k].path = job[k].path
                 \/ /\ job[k].state \notin {"available", "purged"} /\ ~job'[k].path
                    /\ job'[k].state \notin {"available", "purged"}
                    /\ job'[k].state \in Recoverable =>
                          \/ job[k].state \in Recoverable
                          \/ day < ArtifactDays
                          \/ sheet[k[1]].status \notin {"verified", "rejected"}
      <4>1. CASE k \in Jobs(e)
          BY <3>1, <3>3, <3>4, <3>5, <4>1, EvidenceOfSheets
      <4>2. CASE k \notin Jobs(e)
          BY <3>1, <4>2
      <4> QED
          BY <4>1, <4>2
    <3>8. RowsMove
        BY <3>6, <3>7 DEF RowsMove
    <3>9. ASSUME NEW i \in Importers, importer'[i].pc = "fetched", OwnClaim(i)'
          PROVE  OwnClaim(i)
      <4>1. importer[i].job \in Evidence /\ job'[importer[i].job].state = "processing"
          BY <1>1, <2>1, <3>9 DEF OwnClaim, TypeOK
      <4>2. job'[importer[i].job] = job[importer[i].job]
          BY <3>1, <4>1
      <4> QED
          BY <2>1, <3>9, <4>2 DEF OwnClaim
    <3>10. ClaimsOnlyEnd
        BY <2>1, <3>9 DEF ClaimsOnlyEnd
    <3> QED
        BY <2>1, <3>8, <3>10
  <2> QED
      BY <2>2, <2>3
<1>8. ASSUME NEW i \in Importers, NEW k \in Evidence, Claim(i, k)
      PROVE  RowsMove /\ ClaimsOnlyEnd /\ UNCHANGED <<file, sweep, day, stray>>
  <2>1. UNCHANGED <<sheet, file, sweep, day, stray>>
      BY <1>8 DEF Claim
  <2>2. /\ \A l \in Evidence \ {k} : job'[l] = job[l]
        /\ job[k].state \in Recoverable
        /\ job'[k].state = "processing" /\ job'[k].token = i /\ job'[k].path = job[k].path
        /\ \A j \in Importers \ {i} : importer'[j] = importer[j]
        /\ importer'[i].pc = "claimed" /\ importer'[i].job = k
      BY <1>1, <1>8, ClaimRows
  <2>3. ~job[k].path
      BY <1>1, <2>2 DEF PathsAreOfFiles, Recoverable
  <2>4. RowsMove
      BY <2>1, <2>2, <2>3 DEF RowsMove, Recoverable
  <2>5. ASSUME NEW j \in Importers, importer'[j].pc = "fetched"
        PROVE  importer'[j] = importer[j] /\ (OwnClaim(j)' => OwnClaim(j))
    <3>1. j # i /\ importer'[j] = importer[j] /\ importer[j].job \in Evidence
        BY <1>1, <2>2, <2>5 DEF TypeOK
    <3> QED
        BY <2>2, <3>1 DEF OwnClaim
  <2> QED
      BY <2>1, <2>4, <2>5 DEF ClaimsOnlyEnd
<1>9. ASSUME NEW i \in Importers, importer' = [importer EXCEPT ![i] = NoImport],
             \A j \in Importers \ {i} : importer[j].pc = "fetched" /\ OwnClaim(j)' => OwnClaim(j)
      PROVE  ClaimsOnlyEnd
  <2>1. NoImport.pc = "idle" /\ importer \in [Importers -> ImporterMemories]
      BY <1>1 DEF NoImport, TypeOK
  <2>2. \A j \in Importers : importer'[j].pc = "fetched" => j # i /\ importer'[j] = importer[j]
      BY <1>9, <2>1
  <2> QED
      BY <1>9, <2>2 DEF ClaimsOnlyEnd
<1>10. ASSUME NEW i \in Importers, Finish(i),
              ~(OwnClaim(i) /\ importer[i].outcome = "available")
       PROVE  RowsMove /\ ClaimsOnlyEnd /\ UNCHANGED <<file, sweep, day, stray>>
  <2> DEFINE k == importer[i].job
  <2>1. UNCHANGED <<file, sweep, day, stray>> /\ importer' = [importer EXCEPT ![i] = NoImport]
      BY <1>10 DEF Finish
  <2>2. \A j \in Importers \ {i} : importer'[j] = importer[j]
      BY <1>1, <2>1 DEF TypeOK
  <2>3. CASE UNCHANGED <<job, sheet>>
    <3>1. \A j \in Importers \ {i} : OwnClaim(j)' => OwnClaim(j)
        BY <2>2, <2>3 DEF OwnClaim
    <3> QED
        BY <1>3, <1>9, <2>1, <2>3, <3>1
  <2>4. CASE ~UNCHANGED <<job, sheet>>
    <3>1. /\ importer[i].outcome \in Outcomes /\ k \in Evidence /\ OwnClaim(i)
          /\ \A l \in Evidence \ {k} : job'[l] = job[l]
          /\ job'[k].state = importer[i].outcome
          /\ job'[k].path = (job[k].path \/ importer[i].outcome = "available")
          /\ importer[i].outcome # "available" => UNCHANGED sheet
        BY <1>1, <1>10, <2>4, FinishRows
    <3>2. importer[i].outcome # "available" /\ job[k].state = "processing"
        BY <1>10, <3>1 DEF OwnClaim
    <3>3. ~job'[k].path
        BY <1>1, <3>1, <3>2 DEF PathsAreOfFiles
    <3>4. job'[k].state \notin {"available", "purged", "processing"}
        BY <3>1, <3>2 DEF Outcomes
    <3>5. \A j \in Importers \ {i} : importer[j].pc = "fetched" /\ OwnClaim(j)' => OwnClaim(j)
      <4>1. ASSUME NEW j \in Importers \ {i}, importer[j].pc = "fetched", OwnClaim(j)'
            PROVE  OwnClaim(j)
        <5>1. importer[j].job # k
            BY <2>2, <3>4, <4>1 DEF OwnClaim
        <5>2. importer[j].job \in Evidence
            BY <1>1, <4>1 DEF TypeOK
        <5> QED
            BY <2>2, <3>1, <4>1, <5>1, <5>2 DEF OwnClaim
      <4> QED
          BY <4>1
    <3>6. RowsMove
      <4>1. UNCHANGED sheet
          BY <3>1, <3>2
      <4> HIDE DEF k
      <4> QED
          BY <3>1, <3>2, <3>3, <3>4, <4>1 DEF RowsMove, Recoverable
    <3> QED
        BY <1>9, <2>1, <3>5, <3>6
  <2> QED
      BY <2>3, <2>4
<1>11. ASSUME NEW i \in Importers, ImporterDies(i)
       PROVE  RowsMove /\ ClaimsOnlyEnd /\ UNCHANGED <<file, sweep, day, stray>>
  <2>1. /\ importer' = [importer EXCEPT ![i] = NoImport]
        /\ UNCHANGED <<job, sheet, file, sweep, day, stray>>
      BY <1>11 DEF ImporterDies
  <2>2. \A j \in Importers \ {i} : OwnClaim(j)' => OwnClaim(j)
      BY <1>1, <2>1 DEF OwnClaim, TypeOK
  <2> QED
      BY <1>3, <1>9, <2>1, <2>2
<1>12. ASSUME NEW k \in Evidence, LeaseRunsOut(k) \/ RetryDue(k)
       PROVE  RowsMove /\ ClaimsOnlyEnd /\ UNCHANGED <<file, sweep, day, stray>>
  <2>1. UNCHANGED <<sheet, importer, file, sweep, day, stray>>
      BY <1>12 DEF LeaseRunsOut, RetryDue
  <2>2. \A l \in Evidence : /\ job'[l].state = job[l].state /\ job'[l].token = job[l].token
                            /\ job'[l].path = job[l].path
      BY <1>1, <1>12, LeaseRows
  <2>3. RowsMove
      BY <2>1, <2>2 DEF RowsMove
  <2>4. ClaimsOnlyEnd
    <3>1. ASSUME NEW j \in Importers, importer'[j].pc = "fetched", OwnClaim(j)'
          PROVE  OwnClaim(j)
      <4>1. importer[j].job \in Evidence
          BY <1>1, <2>1, <3>1 DEF TypeOK
      <4> QED
          BY <2>1, <2>2, <3>1, <4>1 DEF OwnClaim
    <3> QED
        BY <2>1, <3>1 DEF ClaimsOnlyEnd
  <2> QED
      BY <2>1, <2>3, <2>4
<1>13. ASSUME NEW k \in Evidence, RetryScannerArtifact(k)
       PROVE  RowsMove /\ ClaimsOnlyEnd /\ UNCHANGED <<file, sweep, day, stray>>
  <2>1. UNCHANGED <<sheet, importer, file, sweep, day, stray>>
      BY <1>13 DEF RetryScannerArtifact
  <2>2. /\ \A l \in Evidence \ {k} : job'[l] = job[l]
        /\ job[k].state \in {"missing", "permanent_failed", "integrity_fault"}
        /\ job'[k].state = "retrying" /\ ~job'[k].path
        /\ day < ArtifactDays
      BY <1>1, <1>13, RetryRows
  <2>3. RowsMove
      BY <2>1, <2>2 DEF RowsMove
  <2>4. ClaimsOnlyEnd
    <3>1. ASSUME NEW j \in Importers, importer'[j].pc = "fetched", OwnClaim(j)'
          PROVE  OwnClaim(j)
      <4>1. importer[j].job \in Evidence /\ job'[importer[j].job].state = "processing"
          BY <1>1, <2>1, <3>1 DEF OwnClaim, TypeOK
      <4>2. job'[importer[j].job] = job[importer[j].job]
          BY <2>2, <4>1
      <4> QED
          BY <2>1, <3>1, <4>2 DEF OwnClaim
    <3> QED
        BY <2>1, <3>1 DEF ClaimsOnlyEnd
  <2> QED
      BY <2>1, <2>3, <2>4
<1>14. ASSUME NEW e \in Events, ConfirmScanner(e) \/ RejectScanner(e)
       PROVE  RowsMove /\ ClaimsOnlyEnd /\ UNCHANGED <<file, sweep, day, stray>>
  <2>1. UNCHANGED <<job, importer, file, sweep, day, stray>>
      BY <1>14 DEF ConfirmScanner, RejectScanner
  <2>2. /\ sheet[e].status = "flagged"
        /\ \A d \in Events \ {e} : sheet'[d] = sheet[d]
        /\ \A d \in Events : sheet'[d].image = sheet[d].image
      BY <1>1, <1>14, DecisionRows
  <2>3. RowsMove
      BY <2>1, <2>2 DEF RowsMove
  <2> QED
      BY <1>4, <2>1, <2>3
<1> QED
    BY <1>5, <1>6, <1>7, <1>8, <1>10, <1>11, <1>12, <1>13, <1>14 DEF Movers

LEMMA EvidenceStep ==
    ASSUME ArtifactDays <= RetentionDays
    PROVE  ReceiptsInv /\ EvidenceInv /\ [Next]_vars => EvidenceInv'
<1> DEFINE Goal == PathsAreOfFiles' /\ EvidenceKept' /\ FilesGuarded' /\ PurgesStand'
<1> SUFFICES ASSUME ReceiptsInv, EvidenceInv, [Next]_vars
             PROVE  Goal
    BY TypesKept DEF EvidenceInv
<1>1. ASSUME Movers
      PROVE  Goal
  <2>1. RowsMove /\ ClaimsOnlyEnd /\ UNCHANGED <<file, sweep, day, stray>>
      BY <1>1, RowsOnlyMove
  <2> QED
      BY <2>1, RowsMoveKeeps
<1> HIDE DEF Goal
<1>2. CASE UNCHANGED vars \/ \E r \in Requests : Receipt(r)
    BY <1>1, <1>2 DEF Movers
<1>3. ASSUME NEW i \in Importers, Import(i) \/ ImporterDies(i)
      PROVE  Goal
  <2>1. CASE Download(i)
      BY <2>1, DownloadKeeps DEF Goal
  <2>2. CASE Finish(i) /\ OwnClaim(i) /\ importer[i].outcome = "available"
      BY <2>2, ImportedKeeps DEF Goal
  <2>3. CASE \/ \E k \in Evidence : Claim(i, k)
             \/ Finish(i) /\ ~(OwnClaim(i) /\ importer[i].outcome = "available")
             \/ ImporterDies(i)
      BY <1>1, <2>3 DEF Movers
  <2> QED
      BY <1>3, <2>1, <2>2, <2>3 DEF Import
<1>4. CASE \E k \in Evidence : LeaseRunsOut(k) \/ RetryDue(k) \/ RetryScannerArtifact(k)
    BY <1>1, <1>4 DEF Movers
<1>5. CASE \E e \in Events : ConfirmScanner(e) \/ RejectScanner(e)
    BY <1>1, <1>5 DEF Movers
<1>6. CASE \E e \in Events : PurgeDue(e)
    BY <1>6, PurgeKeeps DEF Goal
<1>7. CASE ReconcileReads \/ ReconcileDeletes
    BY <1>7, SweepKeeps DEF Goal
<1>8. CASE NextDay \/ \E k \in Evidence : FileAges(k)
    BY <1>8, TimeKeeps DEF Goal
<1> QED
  <2>1. CASE \E k \in Evidence : \/ LeaseRunsOut(k) \/ RetryDue(k) \/ RetryScannerArtifact(k)
                                 \/ FileAges(k)
      BY <1>4, <1>8, <2>1
  <2>2. CASE \E e \in Events : ConfirmScanner(e) \/ RejectScanner(e) \/ PurgeDue(e)
      BY <1>5, <1>6, <2>2
  <2> QED
      BY <1>2, <1>3, <1>7, <1>8, <2>1, <2>2 DEF Next

-----------------------------------------------------------------------------
(* Evidence *)

LEMMA InitEvidence == Init => EvidenceInv
<1> SUFFICES ASSUME Init
             PROVE  EvidenceInv
    OBVIOUS
<1>1. /\ NoJob.state = "absent" /\ NoJob.path = FALSE /\ NoImport.pc = "idle"
      /\ NoSheet.image = None /\ None # "file" /\ None # "purged"
    BY WebhookAssumption DEF NoJob, NoImport, NoSheet
<1>2. \A k \in Evidence : job[k].state = "absent" /\ job[k].path = FALSE
    BY <1>1 DEF Init
<1>3. \A e \in Events : sheet[e].image # "file" /\ sheet[e].image # "purged"
    BY <1>1 DEF Init
<1>4. PathsAreOfFiles /\ EvidenceKept
    BY <1>2, <1>3, EvidenceOfSheets DEF PathsAreOfFiles, EvidenceKept
<1>5. FilesGuarded
    BY <1>1, <1>2 DEF Init, FilesGuarded
<1>6. PurgesStand
    BY <1>2, <1>3 DEF PurgesStand
<1> QED
    BY <1>4, <1>5, <1>6, InitTypes DEF EvidenceInv

\* What the fence of imports, the grace period and the order of the retention
\* periods protect is inductive, given what holds of receipts.
THEOREM EvidenceInvHolds ==
    ASSUME ArtifactDays <= RetentionDays
    PROVE  Spec => []EvidenceInv
<1>1. Init => EvidenceInv
    BY InitEvidence
<1>2. ReceiptsInv /\ EvidenceInv /\ [Next]_vars => EvidenceInv'
    BY EvidenceStep
<1> QED
    BY <1>1, <1>2, ReceiptsInvHolds, PTL DEF Spec

\* Where the scanner keeps artifacts no longer than the manager keeps sheets, an
\* artifact on offer is on disk until its sheet is due for the purge, and the
\* sheet shows its image exactly then: processJob, finish, reconcile, purgeBatch.
THEOREM EvidenceIsKept ==
    ASSUME ArtifactDays <= RetentionDays
    PROVE  Spec => []EvidenceKept
<1>1. EvidenceInv => EvidenceKept
    BY DEF EvidenceInv
<1> QED
    BY <1>1, EvidenceInvHolds, PTL

\* There, too, purgeBatch is right that "the DB never claims data was purged
\* while files remain", but for the file of an importer that lost its claim.
THEOREM PurgesAreComplete ==
    ASSUME ArtifactDays <= RetentionDays
    PROVE  Spec => []PurgedKeepsNothing
<1>1. EvidenceInv => PurgedKeepsNothing
    BY EvidenceOfSheets DEF EvidenceInv, PurgesStand, PurgedKeepsNothing
<1> QED
    BY <1>1, EvidenceInvHolds, PTL
=============================================================================
