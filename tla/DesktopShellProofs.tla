------------------------- MODULE DesktopShellProofs -------------------------
(***************************************************************************)
(* Proofs about the desktop shell, for any number of backends forked over  *)
(* the life of an installation: no backend outlives the shell that started *)
(* it unless that shell crashed, and the one behind the window is its      *)
(* child, with the port, on a schema and on demo data that are whole.      *)
(***************************************************************************)
EXTENDS DesktopShell, TLAPS

USE ForksAssumption DEF Procs, None

-----------------------------------------------------------------------------
(* Types *)

Mail == Seq(Exits \cup {"ready", "error"})

LEMMA SeedStages ==
    /\ Len(SeedSteps) = 7
    /\ Seeding = {"reset", "operators", "menu", "users", "accounts", "orders", "settings"}
    /\ \A i \in 1..7 : SeedSteps[i] \in Seeding
BY DEF SeedSteps, Seeding

LEMMA InitTypes == Init => TypeOK
<1> SUFFICES ASSUME Init
             PROVE  TypeOK
    OBVIOUS
<1>1. inbox \in Mail
    BY DEF Init, Mail
<1>2. stage \in [Procs -> Stages]
    BY DEF Init, Stages
<1>3. phase \in {"off", "prompt", "starting", "running", "failed"} /\ window \in {"none", "shown", "hidden"}
      /\ config \in {"absent", "good", "torn"}
    BY DEF Init
<1>4. /\ quitting \in BOOLEAN /\ timer \in BOOLEAN /\ cut \in BOOLEAN
    BY DEF Init
<1>5. stops \subseteq {"timeout", "quit"} /\ data \subseteq Seeding \X Procs
    BY DEF Init
<1>6. asked \subseteq Procs /\ lost \subseteq Procs /\ silent \subseteq Procs
    BY DEF Init
<1>7. /\ handle \in {None} \cup Procs /\ port \in {None} \cup Procs /\ forks \in {None} \cup Procs
      /\ schema \in 0..2 /\ recorded \in 0..2
    BY DEF Init
<1> QED
    BY <1>1, <1>2, <1>3, <1>4, <1>5, <1>6, <1>7 DEF TypeOK, Mail

\* What becomes of a process is typed.
LEMMA GoesTyped ==
    ASSUME TypeOK, NEW p \in Procs, NEW n \in Stages, Goes(p, n)
    PROVE  /\ stage' \in [Procs -> Stages] /\ port' \in {None} \cup Procs
           /\ cut' \in BOOLEAN /\ inbox' \in Mail
BY DEF TypeOK, Goes, Mail

LEMMA EndsTyped ==
    ASSUME TypeOK, NEW p \in Procs, NEW last \in Mail, Ends(p, last)
    PROVE  /\ stage' \in [Procs -> Stages] /\ port' \in {None} \cup Procs
           /\ cut' \in BOOLEAN /\ inbox' \in Mail
<1>1. "dead" \in Stages
    BY DEF Stages
<1>2. inbox \in Mail /\ inbox \o last \in Mail
    BY DEF TypeOK, Mail
<1>3. Midway(p) \in BOOLEAN
    BY DEF Midway
<1> QED
    BY <1>1, <1>2, <1>3 DEF TypeOK, Ends, Released

LEMMA LastWords ==
    /\ <<"error", "exit1">> \in Mail /\ <<"exit0">> \in Mail /\ <<"exit1">> \in Mail
    /\ <<"signal">> \in Mail
BY DEF Mail, Exits

LEMMA BackendTypes ==
    ASSUME TypeOK, NEW p \in Procs, Backend(p)
    PROVE  TypeOK'
<1> DEFINE Untouched == UNCHANGED <<phase, quitting, handle, timer, stops, window, config, asked, forks, lost>>
           Typed == /\ stage' \in [Procs -> Stages] /\ port' \in {None} \cup Procs
                    /\ cut' \in BOOLEAN /\ inbox' \in Mail
           DataTyped == schema' \in 0..2 /\ recorded' \in 0..2 /\ data' \subseteq Seeding \X Procs
<1>1. silent' \subseteq Procs
    BY DEF Backend, BackendDies, Deaths, TypeOK
<1>2. Untouched
    BY DEF Backend
<1>3. SUFFICES Typed /\ DataTyped
    BY <1>1, <1>2 DEF TypeOK, Mail
<1>4. Fails(p) => Typed
    BY EndsTyped, LastWords DEF Fails
<1>5. UNCHANGED database => DataTyped
    BY DEF TypeOK, database
<1>6. \A n \in Stages : Goes(p, n) => Typed
    BY GoesTyped
<1>7. /\ {"table1", "table2", "record", "later", "count", "listen", "ready", "closing"} \subseteq Stages
      /\ \A i \in 1..7 : SeedSteps[i] \in Stages
    BY SeedStages DEF Stages, Migrating, Serving
<1>8. CASE Create(p)
    <2>1. FirstPending \in Stages
        BY <1>7 DEF FirstPending
    <2> QED
        BY <1>8, <2>1, <1>5, <1>6 DEF Create
<1>9. CASE MigrateFirst(p)
    <2>1. PICK k \in 1..2 : MigrateFirst(p)!(k)
        BY <1>9 DEF MigrateFirst
    <2>2. <<"table2", "record">>[k] \in Stages
        BY <1>7
    <2>3. Typed
        BY <2>1, <2>2, <1>4, <1>6
    <2>4. DataTyped
        BY <2>1 DEF TypeOK
    <2> QED
        BY <2>3, <2>4
<1>10. CASE MigrateRest(p)
    <2>1. Typed
        BY <1>10, <1>6, <1>7 DEF MigrateRest
    <2>2. DataTyped
        BY <1>10 DEF MigrateRest, TypeOK
    <2> QED
        BY <2>1, <2>2
<1>11. CASE CountUsers(p)
    <2>1. AfterMigrations \in Stages
        BY <1>7 DEF AfterMigrations
    <2> QED
        BY <1>11, <2>1, <1>5, <1>6 DEF CountUsers
<1>12. CASE Seed(p)
    <2>1. PICK i \in 1..7 : Seed(p)!(i)
        BY <1>12, SeedStages DEF Seed
    <2>2. (IF i < Len(SeedSteps) THEN SeedSteps[i + 1] ELSE "listen") \in Stages
        BY <1>7, SeedStages
    <2>3. Typed
        BY <2>1, <2>2, <1>4, <1>6
    <2>4. Written(SeedSteps[i], p) \subseteq Seeding \X Procs
        BY SeedStages DEF Written, TypeOK
    <2>5. DataTyped
        BY <2>1, <2>4 DEF TypeOK
    <2> QED
        BY <2>3, <2>5
<1>13. CASE Listen(p)
    <2>1. Typed
        <3>1. CASE port # None
            BY <3>1, <1>13, <1>4 DEF Listen
        <3>2. CASE port = None
            <4>1. stage' = [stage EXCEPT ![p] = "ready"] /\ port' = p /\ UNCHANGED cut
                BY <3>2, <1>13 DEF Listen
            <4>2. inbox' \in {inbox, Append(inbox, "ready")}
                BY <3>2, <1>13 DEF Listen
            <4>3. inbox' \in Mail
                BY <4>2 DEF TypeOK, Mail
            <4> QED
                BY <4>1, <4>3, <1>7 DEF TypeOK
        <3> QED
            BY <3>1, <3>2
    <2> QED
        BY <2>1, <1>5, <1>13 DEF Listen
<1>14. CASE Shutdown(p)
    <2>1. Ends(p, <<"exit0">>) => Typed
        BY EndsTyped, LastWords
    <2>2. CASE stage[p] = "ready"
        <3>1. stage' = [stage EXCEPT ![p] = "closing"] /\ port' = Released(p) /\ UNCHANGED <<cut, inbox>>
            BY <2>2, <1>14 DEF Shutdown
        <3> QED
            BY <3>1, <1>5, <1>7, <1>14 DEF Shutdown, Released, TypeOK, Mail
    <2>3. CASE stage[p] = "closing"
        BY <2>1, <2>3, <1>5, <1>14 DEF Shutdown
    <2> QED
        BY <2>2, <2>3, <1>14 DEF Shutdown
<1>15. CASE BootstrapFails(p)
    BY <1>15, <1>4, <1>5 DEF BootstrapFails
<1>16. CASE BackendDies(p)
    BY <1>16, <1>5, EndsTyped, LastWords DEF BackendDies, Deaths
<1> QED
    BY <1>8, <1>9, <1>10, <1>11, <1>12, <1>13, <1>14, <1>15, <1>16 DEF Backend

\* A kill leaves the processes typed.
LEMMA KilledTyped ==
    ASSUME TypeOK, NEW p \in {None} \cup Procs, Killed(p)
    PROVE  /\ stage' \in [Procs -> Stages] /\ port' \in {None} \cup Procs /\ cut' \in BOOLEAN
<1>1. "dead" \in Stages
    BY DEF Stages
<1>2. stage' \in {stage, [stage EXCEPT ![p] = "dead"]} /\ port' \in {None, port}
    BY DEF Killed, Released
<1>3. stage' \in [Procs -> Stages]
    BY <1>1, <1>2 DEF TypeOK
<1> QED
    BY <1>2, <1>3 DEF TypeOK, Killed, Midway

LEMMA StartTyped ==
    ASSUME TypeOK, forks < MaxForks, StartBackend
    PROVE  /\ stage' \in [Procs -> Stages] /\ port' \in {None} \cup Procs /\ cut' \in BOOLEAN
           /\ phase' \in {"starting", "failed"} /\ timer' \in BOOLEAN
           /\ handle' \in {None} \cup Procs /\ forks' \in {None} \cup Procs
<1>1. {"create", "dead"} \subseteq Stages
    BY DEF Stages
<1>2. CASE phase' = "failed" /\ UNCHANGED <<handle, timer, stage, port, cut, forks>>
    BY <1>2 DEF TypeOK
<1>3. CASE \E found \in BOOLEAN : StartBackend!2!(found)
    <2>1. PICK found \in BOOLEAN : StartBackend!2!(found)
        BY <1>3
    <2>2. forks + 1 \in Procs
        BY DEF TypeOK
    <2>3. /\ handle' = forks + 1 /\ forks' = forks + 1 /\ timer' = TRUE /\ phase' = "starting"
          /\ port' \in {None, port} /\ cut' = cut
        BY <2>1
    <2>4. stage' = [p \in Procs |-> CASE p = Occupant(found) -> "dead" [] p = forks + 1 -> "create"
                                      [] OTHER -> stage[p]]
        BY <2>1
    <2>5. stage' \in [Procs -> Stages]
        BY <1>1, <2>4 DEF TypeOK
    <2> QED
        BY <2>2, <2>3, <2>5 DEF TypeOK
<1> QED
    BY <1>2, <1>3 DEF StartBackend

\* What the handlers of the shell leave of its own state.
LEMMA ShellTypes ==
    ASSUME TypeOK,
           \/ Launch \/ AnswerPrompt \/ CrashWhileSaving \/ ReceiveMessage \/ ReceiveExit
           \/ StartTimeout \/ KillTimeout \/ Quit \/ CloseWindow \/ ShowWindow \/ ShellDies,
           phase = "prompt" => forks < MaxForks
    PROVE  TypeOK'
<1> DEFINE Processes == stage' \in [Procs -> Stages] /\ port' \in {None} \cup Procs /\ cut' \in BOOLEAN
           Rest == /\ forks' \in {None} \cup Procs /\ asked' \subseteq Procs /\ lost' \subseteq Procs
                   /\ silent' \subseteq Procs /\ config' \in {"absent", "good", "torn"}
                   /\ schema' \in 0..2 /\ recorded' \in 0..2 /\ data' \subseteq Seeding \X Procs
           Shell == /\ phase' \in {"off", "prompt", "starting", "running", "failed"}
                    /\ quitting' \in BOOLEAN /\ timer' \in BOOLEAN /\ handle' \in {None} \cup Procs
                    /\ stops' \subseteq {"timeout", "quit"} /\ window' \in {"none", "shown", "hidden"}
                    /\ inbox' \in Mail
<1>1. SUFFICES Processes /\ Rest /\ Shell
    BY DEF TypeOK, Mail
<1>2. UNCHANGED <<stage, port, cut>> => Processes
    BY DEF TypeOK
<1>3. UNCHANGED <<forks, asked, lost, silent, config, database>> => Rest
    BY DEF TypeOK, database
<1>4. Gone => Shell
    <2>1. <<>> \in Mail /\ {} \subseteq {"timeout", "quit"}
        BY DEF Mail
    <2> QED
        BY <2>1 DEF Gone
<1>5. ForceKill => Processes
    BY KilledTyped DEF TypeOK, ForceKill
<1>6. inbox # <<>> => Tail(inbox) \in Mail
    BY DEF TypeOK, Mail
<1>7. CASE Launch
    <2>1. \/ /\ phase' \in {"prompt", "failed"}
             /\ UNCHANGED <<handle, timer, stage, port, cut, forks>>
          \/ StartBackend
        BY <1>7 DEF Launch, TypeOK
    <2> QED
        BY <2>1, <1>7, StartTyped DEF Launch, TypeOK, database, Mail
<1>8. CASE AnswerPrompt
    BY <1>8, StartTyped DEF AnswerPrompt, TypeOK, database, Mail
<1>9. CASE CrashWhileSaving
    BY <1>9, <1>2, <1>4 DEF CrashWhileSaving, TypeOK, database
<1>10. CASE ReceiveMessage
    <2>1. phase' \in {phase, "running", "failed"} /\ window' \in {window, "shown"}
        BY <1>10 DEF ReceiveMessage, Settle
    <2> QED
        BY <2>1, <1>10, <1>2, <1>3, <1>6 DEF ReceiveMessage, TypeOK
<1>11. CASE ReceiveExit
    <2>1. CASE "quit" \in stops
        BY <2>1, <1>11, <1>2, <1>3, <1>4 DEF ReceiveExit
    <2>2. CASE "quit" \notin stops
        <3>1. phase' \in {phase, "failed"} /\ window' = window
            BY <2>2, <1>11 DEF ReceiveExit, Settle
        <3> QED
            BY <3>1, <2>2, <1>11, <1>2, <1>3, <1>6 DEF ReceiveExit, TypeOK
    <2> QED
        BY <2>1, <2>2
<1>12. CASE StartTimeout
    BY <1>12, <1>2 DEF StartTimeout, Settle, StopBackend, TypeOK, database, Mail
<1>13. CASE KillTimeout
    <2>1. CASE StopTimedOut
        <3>1. inbox' \in {inbox, Append(inbox, "signal")}
            BY <2>1 DEF StopTimedOut
        <3>2. inbox' \in Mail
            BY <3>1 DEF TypeOK, Mail, Exits
        <3> QED
            BY <3>2, <2>1, <1>13, <1>3, <1>5 DEF KillTimeout, StopTimedOut, TypeOK
    <2>2. CASE Exit
        BY <2>2, <1>13, <1>3, <1>4, <1>5 DEF KillTimeout, Exit
    <2> QED
        BY <2>1, <2>2, <1>13 DEF KillTimeout
<1>14. CASE Quit
    <2>1. CASE handle = None \/ quitting
        BY <2>1, <1>14, <1>3, <1>4, <1>5 DEF Quit, Exit
    <2>2. CASE ~(handle = None \/ quitting)
        BY <2>2, <1>14, <1>2 DEF Quit, StopBackend, TypeOK, database, Mail
    <2> QED
        BY <2>1, <2>2
<1>15. CASE CloseWindow
    BY <1>15, <1>2, <1>3 DEF CloseWindow, TypeOK, Mail
<1>16. CASE ShowWindow
    BY <1>16, <1>2, <1>3 DEF ShowWindow, TypeOK, Mail
<1>17. CASE ShellDies
    BY <1>17, <1>4 DEF ShellDies, TypeOK, database, Alive
<1> QED
    BY <1>7, <1>8, <1>9, <1>10, <1>11, <1>12, <1>13, <1>14, <1>15, <1>16, <1>17

LEMMA StepTypes == TypeOK /\ MailOfTheChild /\ [Next]_vars => TypeOK'
<1> SUFFICES ASSUME TypeOK, MailOfTheChild, [Next]_vars
             PROVE  TypeOK'
    OBVIOUS
<1>1. phase = "prompt" => forks < MaxForks
    BY DEF MailOfTheChild
<1>2. CASE \E p \in Procs : Backend(p)
    BY <1>2, BackendTypes
<1>3. CASE UNCHANGED vars
    BY <1>3 DEF vars, shell, database, TypeOK
<1> QED
    BY <1>1, <1>2, <1>3, ShellTypes DEF Next

-----------------------------------------------------------------------------
(* What a step makes of the processes *)

\* A message that ends the conversation.
ExitIn(mail) == \E i \in 1..Len(mail) : mail[i] \in Exits

LEMMA MailFacts ==
    ASSUME NEW mail \in Mail
    PROVE  /\ ExitIn(Append(mail, "ready")) => ExitIn(mail)
           /\ mail # <<>> => /\ ExitIn(Tail(mail)) => ExitIn(mail)
                             /\ Head(mail) \in Exits => ExitIn(mail)
           /\ ~ExitIn(<<>>)
<1>1. ExitIn(Append(mail, "ready")) => ExitIn(mail)
    BY DEF ExitIn, Exits, Mail
<1>2. mail # <<>> /\ ExitIn(Tail(mail)) => ExitIn(mail)
    <2> SUFFICES ASSUME mail # <<>>, NEW i \in 1..Len(Tail(mail)), Tail(mail)[i] \in Exits
                 PROVE  ExitIn(mail)
        BY DEF ExitIn
    <2>1. i + 1 \in 1..Len(mail) /\ mail[i + 1] = Tail(mail)[i]
        BY DEF Mail
    <2> QED
        BY <2>1 DEF ExitIn
<1>3. mail # <<>> /\ Head(mail) \in Exits => ExitIn(mail)
    <2> SUFFICES ASSUME mail # <<>>, Head(mail) \in Exits
                 PROVE  ExitIn(mail)
        OBVIOUS
    <2>1. 1 \in 1..Len(mail) /\ mail[1] = Head(mail)
        BY DEF Mail
    <2> QED
        BY <2>1 DEF ExitIn
<1>4. ~ExitIn(<<>>)
    BY DEF ExitIn
<1> QED
    BY <1>1, <1>2, <1>3, <1>4

\* A process goes on with its start, ends, opens its port or closes it.
Advances(p) ==
    /\ stage[p] \notin {"none", "dead"} \cup Serving
    /\ \E n \in Stages \ ({"none", "dead"} \cup Serving) : Goes(p, n)
    /\ Create(p) \/ MigrateFirst(p) \/ MigrateRest(p) \/ CountUsers(p) \/ Seed(p)

Dies(p) ==
    /\ stage' = [stage EXCEPT ![p] = "dead"]
    /\ port' = Released(p)
    /\ cut' = (cut \/ Midway(p))
    /\ UNCHANGED database

Opens(p) ==
    /\ stage[p] = "listen" /\ port = None
    /\ stage' = [stage EXCEPT ![p] = "ready"] /\ port' = p
    /\ inbox' = IF Heard(p) THEN Append(inbox, "ready") ELSE inbox
    /\ UNCHANGED <<cut, database>>

Closes(p) ==
    /\ stage[p] = "ready"
    /\ stage' = [stage EXCEPT ![p] = "closing"] /\ port' = Released(p)
    /\ UNCHANGED <<cut, inbox, database>>

LEMMA StageKinds ==
    /\ \A i \in 1..7 : SeedSteps[i] \in Stages \ ({"none", "dead", "listen", "count", "create"} \cup Serving \cup Migrating)
    /\ Migrating \cup {"count", "listen", "create"} \subseteq Stages \ ({"none", "dead"} \cup Serving)
BY SeedStages DEF Stages, Migrating, Serving, Seeding

LEMMA BackendKinds ==
    ASSUME TypeOK, NEW p \in Procs, Backend(p)
    PROVE  /\ Alive(p)
           /\ \/ Advances(p) \/ Opens(p) \/ Closes(p)
              \/ Dies(p) /\ (~Heard(p) => inbox' = inbox)
           /\ UNCHANGED <<phase, handle, forks, lost>>
<1> DEFINE Early == Stages \ ({"none", "dead"} \cup Serving)
           Kinds == \/ Advances(p) \/ Opens(p) \/ Closes(p)
                    \/ Dies(p) /\ (~Heard(p) => inbox' = inbox)
<1>1. UNCHANGED <<phase, handle, forks, lost>>
    BY DEF Backend
<1>2. \A last : Ends(p, last) /\ UNCHANGED database => Kinds
    BY DEF Ends, Dies
<1>3. SUFFICES Alive(p) /\ Kinds
    BY <1>1
<1>4. CASE Create(p)
    <2>1. FirstPending \in Early
        BY StageKinds DEF FirstPending, Migrating
    <2> QED
        BY <1>4, <2>1 DEF Create, Advances, Alive, Serving
<1>5. CASE MigrateFirst(p)
    <2>1. PICK k \in 1..2 : MigrateFirst(p)!(k)
        BY <1>5 DEF MigrateFirst
    <2>2. stage[p] \in {"table1", "table2"}
        BY <2>1
    <2>3. <<"table2", "record">>[k] \in Early
        BY StageKinds DEF Migrating
    <2>4. CASE schema >= k
        BY <1>2, <2>1, <2>2, <2>4 DEF Fails, Alive, database
    <2>5. CASE ~(schema >= k)
        BY <1>5, <2>1, <2>2, <2>3, <2>5 DEF Advances, Alive, Serving
    <2> QED
        BY <2>4, <2>5
<1>6. CASE MigrateRest(p)
    <2>1. stage[p] \in {"record", "later"} /\ (Goes(p, "later") \/ Goes(p, "count"))
        BY <1>6 DEF MigrateRest
    <2> QED
        BY <1>6, <2>1, StageKinds DEF Advances, Alive, Serving, Migrating
<1>7. CASE CountUsers(p)
    <2>1. AfterMigrations \in Early
        BY StageKinds, SeedStages DEF AfterMigrations
    <2> QED
        BY <1>7, <2>1 DEF CountUsers, Advances, Alive, Serving
<1>8. CASE Seed(p)
    <2>1. PICK i \in 1..7 : Seed(p)!(i)
        BY <1>8, SeedStages DEF Seed
    <2>2. stage[p] \in Early /\ Alive(p)
        BY <2>1, StageKinds DEF Alive
    <2>3. (IF i < Len(SeedSteps) THEN SeedSteps[i + 1] ELSE "listen") \in Early
        BY StageKinds, SeedStages
    <2>4. CASE Refused(SeedSteps[i], p)
        BY <1>2, <2>1, <2>2, <2>4 DEF Fails, database
    <2>5. CASE ~Refused(SeedSteps[i], p)
        BY <1>8, <2>1, <2>2, <2>3, <2>5 DEF Advances
    <2> QED
        BY <2>4, <2>5
<1>9. CASE Listen(p)
    <2>1. stage[p] = "listen" /\ UNCHANGED database
        BY <1>9 DEF Listen
    <2>2. CASE port # None
        BY <1>2, <1>9, <2>1, <2>2 DEF Listen, Fails, Alive
    <2>3. CASE port = None
        BY <1>9, <2>1, <2>3 DEF Listen, Opens, Alive
    <2> QED
        BY <2>2, <2>3
<1>10. CASE Shutdown(p)
    <2>1. CASE stage[p] = "ready"
        BY <1>10, <2>1 DEF Shutdown, Closes, Alive
    <2>2. CASE stage[p] # "ready"
        BY <1>2, <1>10, <2>2 DEF Shutdown, Alive
    <2> QED
        BY <2>1, <2>2
<1>11. CASE BootstrapFails(p)
    BY <1>2, <1>11 DEF BootstrapFails, Fails
<1>12. CASE BackendDies(p)
    BY <1>2, <1>12 DEF BackendDies
<1> QED
    BY <1>4, <1>5, <1>6, <1>7, <1>8, <1>9, <1>10, <1>11, <1>12 DEF Backend

-----------------------------------------------------------------------------
(* The child and its mail *)

\* What its handler knows of the shell's child.
Held == TypeOK /\ PortOfTheReady /\ ChildrenHeld /\ MailOfTheChild

LEMMA MailRead == MailOfTheChild <=>
    /\ phase \in {"off", "prompt"} => handle = None /\ inbox = <<>>
    /\ phase = "prompt" => forks < MaxForks
    /\ ExitIn(inbox) => forks # None /\ stage[forks] = "dead"
BY DEF MailOfTheChild, ExitIn

LEMMA MailReadNext == MailOfTheChild' <=>
    /\ phase' \in {"off", "prompt"} => handle' = None /\ inbox' = <<>>
    /\ phase' = "prompt" => forks' < MaxForks
    /\ ExitIn(inbox') => forks' # None /\ stage'[forks'] = "dead"
BY DEF MailOfTheChild, ExitIn

LEMMA BackendHeld ==
    ASSUME Held, NEW p \in Procs, Backend(p)
    PROVE  ChildrenHeld' /\ MailOfTheChild'
<1> USE DEF Held
<1>1. /\ Alive(p) /\ UNCHANGED <<phase, handle, forks, lost>>
      /\ \/ Advances(p) \/ Opens(p) \/ Closes(p)
         \/ Dies(p) /\ (~Heard(p) => inbox' = inbox)
    BY BackendKinds
<1>2. PICK n \in Stages \ {"none"} : stage' = [stage EXCEPT ![p] = n]
    BY <1>1 DEF Advances, Goes, Opens, Closes, Dies, Stages, Serving
<1>3. \A q \in Procs : stage'[q] = IF q = p THEN n ELSE stage[q]
    BY <1>2 DEF TypeOK
<1>4. p <= forks
    BY <1>1 DEF ChildrenHeld, Alive, TypeOK
<1>5. ChildrenHeld'
    BY <1>1, <1>3, <1>4 DEF ChildrenHeld, Alive, TypeOK
<1>6. ~Heard(p) => inbox' = inbox
    BY <1>1 DEF Advances, Goes, Opens, Closes
<1>7. phase \in {"off", "prompt"} => ~Heard(p)
    BY <1>1 DEF Heard, ChildrenHeld, MailOfTheChild
<1>8. n # "dead" => (ExitIn(inbox') => ExitIn(inbox))
    <2>1. n # "dead" => stage'[p] # "dead"
        BY <1>3
    <2>2. n # "dead" => inbox' \in {inbox, Append(inbox, "ready")}
        BY <1>1, <2>1 DEF Advances, Goes, Opens, Closes, Dies, TypeOK
    <2> QED
        BY <2>2, MailFacts DEF TypeOK, Mail
<1>9. ExitIn(inbox) /\ p = forks => n = "dead"
    BY <1>1, MailRead DEF Alive
<1>10. ExitIn(inbox') => forks # None /\ stage'[forks] = "dead"
    <2>1. CASE Heard(p)
        BY <2>1, <1>3, <1>8, <1>9, MailRead DEF Heard
    <2>2. CASE ~Heard(p)
        BY <2>2, <1>3, <1>6, <1>9, MailRead DEF TypeOK
    <2> QED
        BY <2>1, <2>2
<1>11. MailOfTheChild'
    BY <1>1, <1>6, <1>7, <1>10, MailRead, MailReadNext
<1> QED
    BY <1>5, <1>11

\* A handler that lets the processes be and the child stay.
LEMMA CalmHeld ==
    ASSUME Held, UNCHANGED <<stage, handle, forks, lost>>,
           ExitIn(inbox') => ExitIn(inbox),
           phase' \in {"off", "prompt"} => phase' = phase /\ inbox' = inbox
    PROVE  ChildrenHeld' /\ MailOfTheChild'
<1>1. ChildrenHeld'
    BY DEF Held, ChildrenHeld, Alive
<1> QED
    BY <1>1, MailRead, MailReadNext DEF Held

\* A shell without a child that lives, one that is gone for instance.
LEMMA ChildlessHeld ==
    ASSUME Held, UNCHANGED forks, handle' = None,
           \A p \in Procs : stage'[p] = stage[p] \/ (p <= forks /\ stage'[p] = "dead"),
           lost' \subseteq 1..forks, \A p \in Procs : stage'[p] \notin {"none", "dead"} => p \in lost',
           phase' = "prompt" => forks < MaxForks,
           phase' \in {"off", "prompt"} => inbox' = <<>>,
           ExitIn(inbox') => ExitIn(inbox) \/ (forks # None /\ stage'[forks] = "dead")
    PROVE  ChildrenHeld' /\ MailOfTheChild'
<1>1. ChildrenHeld'
    BY DEF Held, ChildrenHeld, Alive, TypeOK
<1>2. ExitIn(inbox) => forks # None /\ stage'[forks] = "dead"
    BY MailRead DEF Held, TypeOK
<1> QED
    BY <1>1, <1>2, MailReadNext DEF Held

\* A child is forked by a shell that has none.
LEMMA StartHeld ==
    ASSUME Held, forks < MaxForks, phase \in {"off", "prompt"}, StartBackend, UNCHANGED <<inbox, lost>>
    PROVE  ChildrenHeld' /\ MailOfTheChild'
<1> USE DEF Held
<1>1. handle = None /\ inbox = <<>>
    BY DEF MailOfTheChild
<1>2. ~ExitIn(inbox')
    BY <1>1 DEF ExitIn
<1>3. CASE phase' = "failed" /\ UNCHANGED <<handle, timer, stage, port, cut, forks>>
    BY <1>2, <1>3, CalmHeld
<1>4. CASE \E found \in BOOLEAN : StartBackend!2!(found)
    <2>1. PICK found \in BOOLEAN : StartBackend!2!(found)
        BY <1>4
    <2>2. /\ forks' = forks + 1 /\ handle' = forks + 1 /\ phase' = "starting"
          /\ stage' = [p \in Procs |-> CASE p = Occupant(found) -> "dead" [] p = forks + 1 -> "create"
                                         [] OTHER -> stage[p]]
        BY <2>1
    <2>3. Occupant(found) = None \/ (Occupant(found) = port /\ stage[port] = "ready" /\ port \in Procs)
        BY DEF Occupant, PortOfTheReady, TypeOK
    <2>4. \A p \in Procs : stage'[p] = CASE p = Occupant(found) -> "dead" [] p = forks + 1 -> "create"
                                         [] OTHER -> stage[p]
        BY <2>2
    <2> DEFINE old == Occupant(found)
    <2> HIDE DEF old
    <2>5. old = None \/ (old <= forks /\ old \in Procs)
        BY <2>3 DEF old, ChildrenHeld, TypeOK
    <2>6. \A p \in Procs : /\ p = old => stage'[p] = "dead"
                           /\ p = forks + 1 => stage'[p] = "create"
                           /\ p # old /\ p # forks + 1 => stage'[p] = stage[p]
        BY <2>4, <2>5 DEF old, TypeOK
    <2>7. ASSUME NEW p \in Procs, p # forks + 1, stage'[p] \notin {"none", "dead"}
          PROVE  p \in lost
        <3>1. p # old /\ stage'[p] = stage[p]
            BY <2>6, <2>7
        <3> QED
            BY <1>1, <2>7, <3>1 DEF ChildrenHeld, Alive
    <2>8. ASSUME NEW p \in Procs, p > forks + 1
          PROVE  stage'[p] = "none" /\ p \notin lost
        <3>1. p # old /\ p # forks + 1 /\ p > forks
            BY <2>5, <2>8 DEF TypeOK
        <3> QED
            BY <2>6, <3>1 DEF ChildrenHeld
    <2>9. ChildrenHeld'
        BY <2>2, <2>7, <2>8 DEF ChildrenHeld, Alive
    <2> QED
        BY <1>2, <2>2, <2>9, MailReadNext
<1> QED
    BY <1>3, <1>4 DEF StartBackend

LEMMA ShellHeld ==
    ASSUME Held,
           \/ Launch \/ AnswerPrompt \/ CrashWhileSaving \/ ReceiveMessage \/ ReceiveExit
           \/ StartTimeout \/ KillTimeout \/ Quit \/ CloseWindow \/ ShowWindow \/ ShellDies
    PROVE  ChildrenHeld' /\ MailOfTheChild'
<1> USE DEF Held
<1>1. inbox \in Mail
    BY DEF TypeOK, Mail
<1>2. handle # None => handle \in Procs /\ handle <= forks
    BY DEF ChildrenHeld, TypeOK
<1>3. lost \subseteq 1..forks
    BY DEF ChildrenHeld, TypeOK
<1>4. ForceKill => /\ \A p \in Procs : stage'[p] = stage[p] \/ (p <= forks /\ stage'[p] = "dead")
                   /\ \A p \in Procs : stage'[p] \notin {"none", "dead"} => p \in lost
                   /\ handle # None => stage'[handle] = "dead"
    BY <1>2 DEF ForceKill, Killed, ChildrenHeld, Alive, TypeOK
<1>5. handle = None => \A p \in Procs : stage[p] \notin {"none", "dead"} => p \in lost
    BY DEF ChildrenHeld, Alive
<1>6. ~ExitIn(<<>>)
    BY MailFacts, <1>1
<1>7. Exit /\ UNCHANGED <<forks, lost>> => ChildrenHeld' /\ MailOfTheChild'
    BY <1>3, <1>4, <1>6, ChildlessHeld DEF Exit, Gone
<1>8. CASE Launch
    <2>1. CASE phase' = "prompt" /\ UNCHANGED <<handle, stage, forks>>
        <3>1. handle = None /\ inbox = <<>> /\ UNCHANGED <<inbox, forks, lost>>
            BY <1>8, <2>1 DEF Launch, MailOfTheChild, TypeOK
        <3>2. forks < MaxForks
            BY <1>8 DEF Launch
        <3> QED
            BY <2>1, <3>1, <3>2, <1>3, <1>5, <1>6, ChildlessHeld
    <2>2. CASE phase' = "failed" /\ UNCHANGED <<handle, stage, forks>>
        BY <1>8, <2>2, CalmHeld DEF Launch
    <2>3. CASE StartBackend
        BY <1>8, <2>3, StartHeld DEF Launch
    <2> QED
        BY <1>8, <2>1, <2>2, <2>3 DEF Launch, TypeOK
<1>9. CASE AnswerPrompt
    BY <1>9, StartHeld DEF AnswerPrompt, MailOfTheChild
<1>10. CASE CrashWhileSaving
    <2>1. handle = None
        BY <1>10 DEF CrashWhileSaving, MailOfTheChild
    <2> QED
        BY <1>10, <2>1, <1>3, <1>5, <1>6, ChildlessHeld DEF CrashWhileSaving, Gone
<1>11. CASE ReceiveMessage
    <2>1. inbox # <<>> /\ inbox' = Tail(inbox)
        BY <1>11 DEF ReceiveMessage
    <2>2. phase' = phase \/ phase' \in {"running", "failed"}
        BY <1>11 DEF ReceiveMessage, Settle
    <2>3. phase \notin {"off", "prompt"}
        BY <2>1 DEF MailOfTheChild
    <2> QED
        BY <1>11, <2>1, <2>2, <2>3, <1>1, MailFacts, CalmHeld DEF ReceiveMessage
<1>12. CASE ReceiveExit
    <2>1. inbox # <<>> /\ Head(inbox) \in Exits
        BY <1>12 DEF ReceiveExit, Exits
    <2>2. forks # None /\ stage[forks] = "dead"
        BY <2>1, <1>1, MailFacts, MailRead
    <2>3. \A p \in Procs : stage[p] \notin {"none", "dead"} => p \in lost
        BY <2>2 DEF ChildrenHeld, Alive
    <2>4. UNCHANGED <<stage, forks, lost>>
        BY <1>12 DEF ReceiveExit
    <2>5. CASE "quit" \in stops
        BY <1>12, <2>3, <2>4, <2>5, <1>3, <1>6, ChildlessHeld DEF ReceiveExit, Gone
    <2>6. CASE "quit" \notin stops
        <3>1. inbox' = Tail(inbox) /\ handle' = None
            BY <1>12, <2>6 DEF ReceiveExit
        <3>2. phase' \in {phase, "failed"}
            BY <1>12, <2>6 DEF ReceiveExit, Settle
        <3>3. phase \notin {"off", "prompt"}
            BY <2>1 DEF MailOfTheChild
        <3> QED
            BY <2>1, <2>3, <2>4, <3>1, <3>2, <3>3, <1>1, <1>3, MailFacts, ChildlessHeld
    <2> QED
        BY <2>5, <2>6
<1>13. CASE StartTimeout
    <2>1. phase' = phase \/ phase' = "failed"
        BY <1>13 DEF StartTimeout, Settle
    <2> QED
        BY <1>13, <2>1, CalmHeld DEF StartTimeout
<1>14. CASE KillTimeout
    <2>1. CASE StopTimedOut
        <3>1. /\ ForceKill /\ handle' = None /\ UNCHANGED <<phase, forks, lost>>
              /\ handle = None => inbox' = inbox
            BY <1>14, <2>1 DEF KillTimeout, StopTimedOut
        <3>2. handle # None => stage'[forks] = "dead" /\ forks # None
            BY <3>1, <1>4 DEF ChildrenHeld
        <3> QED
            BY <3>1, <3>2, <1>3, <1>4, ChildlessHeld DEF MailOfTheChild
    <2>2. CASE Exit
        BY <1>7, <1>14, <2>2 DEF KillTimeout
    <2> QED
        BY <1>14, <2>1, <2>2 DEF KillTimeout
<1>15. CASE Quit
    <2>1. CASE handle = None \/ quitting
        BY <1>7, <1>15, <2>1 DEF Quit
    <2>2. CASE ~(handle = None \/ quitting)
        BY <1>15, <2>2, CalmHeld DEF Quit
    <2> QED
        BY <2>1, <2>2
<1>16. CASE CloseWindow
    BY <1>16, CalmHeld DEF CloseWindow
<1>17. CASE ShowWindow
    BY <1>17, CalmHeld DEF ShowWindow
<1>18. CASE ShellDies
    <2>1. /\ Gone /\ UNCHANGED <<stage, forks>>
          /\ lost' = lost \cup (IF forks # 0 /\ Alive(forks) THEN {forks} ELSE {})
        BY <1>18 DEF ShellDies
    <2>2. lost' \subseteq 1..forks
        BY <2>1, <1>3 DEF TypeOK
    <2>3. \A p \in Procs : stage[p] \notin {"none", "dead"} => p \in lost'
        BY <2>1 DEF ChildrenHeld, Alive
    <2> QED
        BY <2>1, <2>2, <2>3, <1>6, ChildlessHeld DEF Gone
<1> QED
    BY <1>8, <1>9, <1>10, <1>11, <1>12, <1>13, <1>14, <1>15, <1>16, <1>17, <1>18

LEMMA HeldStep == Held /\ [Next]_vars => ChildrenHeld' /\ MailOfTheChild'
<1> SUFFICES ASSUME Held, [Next]_vars
             PROVE  ChildrenHeld' /\ MailOfTheChild'
    OBVIOUS
<1>1. CASE \E p \in Procs : Backend(p)
    BY <1>1, BackendHeld
<1>2. CASE UNCHANGED vars
    BY <1>2, CalmHeld DEF vars, shell
<1> QED
    BY <1>1, <1>2, ShellHeld DEF Next

-----------------------------------------------------------------------------
(* What a step of the shell makes of the backends *)

\* The next backend is forked, and whoever was found on the port is dead.
Forked ==
    /\ forks < MaxForks /\ handle = None
    /\ \E old \in {None, port} :
         /\ stage' = [p \in Procs |-> CASE p = old -> "dead" [] p = forks + 1 -> "create" [] OTHER -> stage[p]]
         /\ port' = IF old = None THEN port ELSE None
    /\ UNCHANGED <<cut, lost, database>>

Left ==
    /\ lost' = lost \cup (IF forks # 0 /\ Alive(forks) THEN {forks} ELSE {})
    /\ cut' = (cut \/ (forks # 0 /\ Alive(forks) /\ stage[forks] \notin Serving))
    /\ UNCHANGED <<stage, port, database>>

Still == UNCHANGED <<stage, port, cut, lost, database>>

LEMMA ShellKinds ==
    ASSUME Held,
           \/ Launch \/ AnswerPrompt \/ CrashWhileSaving \/ ReceiveMessage \/ ReceiveExit
           \/ StartTimeout \/ KillTimeout \/ Quit \/ CloseWindow \/ ShowWindow \/ ShellDies
    PROVE  \/ Still \/ Forked \/ Left
           \/ handle # None /\ Dies(handle) /\ UNCHANGED lost
<1> DEFINE Kinds == \/ Still \/ Forked \/ Left
                    \/ handle # None /\ Dies(handle) /\ UNCHANGED lost
<1>1. ForceKill /\ UNCHANGED <<lost, database>> => Kinds
    <2>1. CASE handle = None
        <3>1. cut \in BOOLEAN
            BY DEF Held, TypeOK
        <3> QED
            BY <2>1, <3>1 DEF ForceKill, Killed, Still
    <2>2. CASE handle # None
        BY <2>2 DEF ForceKill, Killed, Dies
    <2> QED
        BY <2>1, <2>2
<1>2. StartBackend /\ forks < MaxForks /\ handle = None /\ UNCHANGED <<lost, database>> => Kinds
    <2> SUFFICES ASSUME StartBackend, forks < MaxForks, handle = None, UNCHANGED <<lost, database>>
                 PROVE  Still \/ Forked
        OBVIOUS
    <2>1. CASE UNCHANGED <<handle, timer, stage, port, cut, forks>>
        BY <2>1 DEF Still
    <2>2. CASE \E found \in BOOLEAN : StartBackend!2!(found)
        <3>1. PICK found \in BOOLEAN : StartBackend!2!(found)
            BY <2>2
        <3>2. Occupant(found) \in {None, port}
            BY DEF Occupant
        <3>3. /\ stage' = [p \in Procs |-> CASE p = Occupant(found) -> "dead" [] p = forks + 1 -> "create"
                                             [] OTHER -> stage[p]]
              /\ port' = IF Occupant(found) = None THEN port ELSE None
              /\ UNCHANGED cut
            BY <3>1
        <3> QED
            BY <3>2, <3>3 DEF Forked
    <2> QED
        BY <2>1, <2>2 DEF StartBackend
<1>3. phase \in {"off", "prompt"} => handle = None
    BY DEF Held, MailOfTheChild
<1>4. CASE Launch
    BY <1>2, <1>3, <1>4 DEF Launch, Still, TypeOK, Held
<1>5. CASE AnswerPrompt
    BY <1>2, <1>3, <1>5 DEF AnswerPrompt, Held, MailOfTheChild
<1>6. CASE CrashWhileSaving
    BY <1>6 DEF CrashWhileSaving, Still
<1>7. CASE ReceiveMessage
    BY <1>7 DEF ReceiveMessage, Still
<1>8. CASE ReceiveExit
    BY <1>8 DEF ReceiveExit, Still
<1>9. CASE StartTimeout
    BY <1>9 DEF StartTimeout, Still
<1>10. CASE KillTimeout
    BY <1>1, <1>10 DEF KillTimeout, StopTimedOut, Exit
<1>11. CASE Quit
    BY <1>1, <1>11 DEF Quit, Exit, Still
<1>12. CASE CloseWindow \/ ShowWindow
    BY <1>12 DEF CloseWindow, ShowWindow, Still
<1>13. CASE ShellDies
    BY <1>13 DEF ShellDies, Left
<1> QED
    BY <1>4, <1>5, <1>6, <1>7, <1>8, <1>9, <1>10, <1>11, <1>12, <1>13

LEMMA StepKinds ==
    ASSUME Held, [Next]_vars
    PROVE  \/ Still \/ Forked \/ Left
           \/ \E p \in Procs : Dies(p) /\ p <= forks /\ UNCHANGED lost
           \/ \E p \in Procs : /\ Advances(p) \/ Opens(p) \/ Closes(p)
                               /\ UNCHANGED lost
<1>1. CASE \E p \in Procs : Backend(p)
    <2>1. PICK p \in Procs : Backend(p)
        BY <1>1
    <2>2. p <= forks
        BY <2>1, BackendKinds DEF Held, ChildrenHeld, Alive, TypeOK
    <2> QED
        BY <2>1, <2>2, BackendKinds DEF Held
<1>2. CASE UNCHANGED vars
    BY <1>2 DEF vars, shell, Still
<1>3. handle # None => handle \in Procs /\ handle <= forks
    BY DEF Held, ChildrenHeld, TypeOK
<1> QED
    BY <1>1, <1>2, <1>3, ShellKinds DEF Next

-----------------------------------------------------------------------------
(* The port and the schema *)

\* What a fork makes of the processes, one by one.
LEMMA ForkedRead ==
    ASSUME Held, Forked
    PROVE  /\ forks + 1 \in Procs /\ stage[forks + 1] = "none" /\ forks + 1 \notin lost
           /\ stage'[forks + 1] = "create"
           /\ \A p \in Procs \ {forks + 1} : \/ stage'[p] = stage[p] /\ (port' = p <=> port = p)
                                             \/ stage'[p] = "dead" /\ port' # p /\ stage[p] = "ready"
           /\ port' # forks + 1
<1>1. forks + 1 \in Procs /\ forks + 1 > forks
    BY DEF Forked, Held, TypeOK
<1>2. stage[forks + 1] = "none" /\ forks + 1 \notin lost
    BY <1>1 DEF Held, ChildrenHeld
<1>3. PICK old \in {None, port} :
        /\ stage' = [p \in Procs |-> CASE p = old -> "dead" [] p = forks + 1 -> "create" [] OTHER -> stage[p]]
        /\ port' = IF old = None THEN port ELSE None
    BY DEF Forked
<1>4. \A p \in Procs : stage[p] = "ready" <=> port = p
    BY DEF Held, PortOfTheReady
<1>5. old # forks + 1 /\ port # forks + 1
    BY <1>1, <1>2, <1>3, <1>4
<1> QED
    BY <1>1, <1>2, <1>3, <1>4, <1>5

LEMMA PortStep ==
    ASSUME Held, [Next]_vars
    PROVE  PortOfTheReady'
<1>1. \A p \in Procs : stage[p] = "ready" <=> port = p
    BY DEF Held, PortOfTheReady
<1>2. stage \in [Procs -> Stages]
    BY DEF Held, TypeOK
<1>3. CASE Still \/ Left
    BY <1>1, <1>3 DEF Still, Left, PortOfTheReady
<1>4. CASE Forked
    BY <1>1, <1>4, ForkedRead DEF PortOfTheReady
<1>5. CASE \E p \in Procs : Dies(p)
    BY <1>1, <1>2, <1>5 DEF Dies, Released, PortOfTheReady
<1>6. CASE \E p \in Procs : Advances(p)
    <2>1. PICK p \in Procs : Advances(p)
        BY <1>6
    <2>2. PICK n \in Stages \ ({"none", "dead"} \cup Serving) : Goes(p, n)
        BY <2>1 DEF Advances
    <2>3. stage[p] # "ready" /\ n # "ready"
        BY <2>1, <2>2 DEF Advances, Serving
    <2> QED
        BY <1>1, <1>2, <2>2, <2>3 DEF Goes, PortOfTheReady
<1>7. CASE \E p \in Procs : Opens(p) \/ Closes(p)
    BY <1>1, <1>2, <1>7 DEF Opens, Closes, Released, PortOfTheReady
<1> QED
    BY <1>3, <1>4, <1>5, <1>6, <1>7, StepKinds

LEMMA MigratedStep ==
    ASSUME Held, Migrated, [Next]_vars
    PROVE  Migrated'
<1> DEFINE Past == {"count", "listen"} \cup Seeding \cup Serving
           Fits(st) == /\ st = "record" => schema = 2
                       /\ st = "later" => recorded > 0
                       /\ st \in Past => recorded = 2
           FitsNow(st) == /\ st = "record" => schema' = 2
                          /\ st = "later" => recorded' > 0
                          /\ st \in Past => recorded' = 2
<1>1. stage \in [Procs -> Stages] /\ schema \in 0..2 /\ recorded \in 0..2
    BY DEF Held, TypeOK
<1>2. recorded > 0 => schema = 2
    BY DEF Migrated
<1>3. \A p \in Procs : Fits(stage[p])
    BY DEF Migrated
<1>4. SUFFICES (recorded' > 0 => schema' = 2) /\ \A p \in Procs : FitsNow(stage'[p])
    BY DEF Migrated
<1>5. /\ Past = {"count", "listen", "reset", "operators", "menu", "users", "accounts", "orders",
                 "settings", "ready", "closing"}
      /\ \A i \in 1..7 : SeedSteps[i] \in Past
    BY SeedStages DEF Serving
<1>6. CASE Still \/ Left
    BY <1>2, <1>3, <1>6 DEF Still, Left, database
<1>7. CASE Forked
    <2>1. UNCHANGED <<schema, recorded>>
        BY <1>7 DEF Forked, database
    <2>2. \A p \in Procs : stage'[p] \in {stage[p], "dead", "create"}
        BY <1>7, ForkedRead
    <2> QED
        BY <1>2, <1>3, <1>5, <2>1, <2>2
<1>8. CASE \E p \in Procs : Dies(p) \/ Opens(p) \/ Closes(p)
    <2>1. PICK p \in Procs : Dies(p) \/ Opens(p) \/ Closes(p)
        BY <1>8
    <2>2. UNCHANGED <<schema, recorded>>
        BY <2>1 DEF Dies, Opens, Closes, database
    <2>3. \E n \in Stages : stage' = [stage EXCEPT ![p] = n] /\ Fits(n)
        <3>1. Fits(stage[p])
            BY <1>3
        <3>2. {"dead", "ready", "closing"} \subseteq Stages
            BY DEF Stages, Serving
        <3> QED
            BY <2>1, <3>1, <3>2, <1>5 DEF Dies, Opens, Closes
    <2> QED
        BY <1>1, <1>2, <1>3, <2>2, <2>3
<1>9. CASE \E p \in Procs : Advances(p)
    <2>1. PICK p \in Procs : Advances(p)
        BY <1>9
    <2>2. PICK n \in Stages \ ({"none", "dead"} \cup Serving) : Goes(p, n)
        BY <2>1 DEF Advances
    <2>3. \A q \in Procs : stage'[q] = IF q = p THEN n ELSE stage[q]
        BY <1>1, <2>2 DEF Goes
    <2>4. n # "dead" /\ stage'[p] # "dead"
        BY <2>2, <2>3
    <2>5. Fits(stage[p])
        BY <1>3
    <2> HIDE DEF Past
    <2>6. CASE Create(p)
        <3>1. n = FirstPending /\ UNCHANGED <<schema, recorded>>
            BY <2>2, <2>3, <2>6, <1>1 DEF Create, Goes, database
        <3>2. Fits(n)
            BY <1>1, <1>5, <3>1 DEF FirstPending
        <3> QED
            BY <1>2, <1>3, <2>3, <3>1, <3>2
    <2>7. CASE MigrateFirst(p)
        <3>1. PICK k \in 1..2 : MigrateFirst(p)!(k)
            BY <2>7 DEF MigrateFirst
        <3>2. ~(schema >= k)
            BY <1>1, <2>4, <3>1 DEF Fails, Ends
        <3>3. schema' = k /\ n = <<"table2", "record">>[k] /\ recorded' = recorded
            BY <1>1, <2>3, <3>1, <3>2 DEF Goes
        <3>4. recorded = 0
            BY <1>1, <1>2, <3>2
        <3>5. \A q \in Procs : stage[q] \notin {"record", "later"} \cup Past
            BY <1>1, <1>3, <3>2, <3>4
        <3>6. n \notin {"later"} \cup Past /\ (n = "record" => k = 2)
            BY <3>3, <1>5
        <3> QED
            BY <2>3, <3>3, <3>4, <3>5, <3>6
    <2>8. CASE MigrateRest(p)
        <3>1. schema' = schema /\ recorded' >= recorded /\ recorded' \in 0..2
            BY <1>1, <2>8 DEF MigrateRest
        <3>2. CASE stage[p] = "record"
            <4>1. recorded' > 0 /\ n = "later" /\ schema = 2
                BY <1>1, <2>3, <2>5, <2>8, <3>2 DEF MigrateRest, Goes
            <4> QED
                BY <1>1, <1>3, <1>5, <2>3, <3>1, <4>1
        <3>3. CASE stage[p] = "later"
            <4>1. recorded' = 2 /\ n = "count" /\ recorded > 0
                BY <1>1, <2>3, <2>5, <2>8, <3>3 DEF MigrateRest, Goes
            <4> QED
                BY <1>1, <1>2, <1>3, <1>5, <2>3, <3>1, <4>1
        <3> QED
            BY <2>8, <3>2, <3>3 DEF MigrateRest
    <2>9. CASE CountUsers(p) \/ Seed(p)
        <3>1. UNCHANGED <<schema, recorded>>
            BY <2>9 DEF CountUsers, Seed, database
        <3>2. stage[p] \in Past
            BY <2>9, <1>5, SeedStages DEF CountUsers, Seed
        <3>3. n \in Past
            <4>1. CASE CountUsers(p)
                BY <4>1, <1>5, <1>1, <2>3, SeedStages DEF CountUsers, Goes, AfterMigrations
            <4>2. CASE Seed(p)
                <5>1. PICK i \in 1..7 : Seed(p)!(i)
                    BY <4>2, SeedStages DEF Seed
                <5>2. ~Refused(SeedSteps[i], p)
                    BY <1>1, <2>4, <5>1 DEF Fails, Ends
                <5>3. n = IF i < Len(SeedSteps) THEN SeedSteps[i + 1] ELSE "listen"
                    BY <1>1, <2>3, <5>1, <5>2 DEF Goes
                <5> QED
                    BY <1>5, <5>3, SeedStages
            <4> QED
                BY <2>9, <4>1, <4>2
        <3>4. recorded = 2 /\ schema = 2
            BY <1>1, <1>2, <2>5, <3>2
        <3> QED
            BY <2>3, <1>3, <3>1, <3>3, <3>4
    <2> QED
        BY <2>1, <2>6, <2>7, <2>8, <2>9 DEF Advances
<1> QED
    BY <1>6, <1>7, <1>8, <1>9, StepKinds

-----------------------------------------------------------------------------
(* The demo data *)

\* A step of the seed leaves what the next one is to find.
LEMMA SeedWrites ==
    ASSUME NEW p \in Procs, NEW i \in 1..7, data = WrittenBefore(i, p)
    PROVE  Written(SeedSteps[i], p) = WrittenBefore(i + 1, p)
<1>1. 1..0 = {} /\ 1..1 = {1} /\ 1..2 = {1, 2} /\ 1..3 = {1, 2, 3} /\ 1..4 = {1, 2, 3, 4}
      /\ 1..5 = {1, 2, 3, 4, 5} /\ 1..6 = {1, 2, 3, 4, 5, 6} /\ 1..7 = {1, 2, 3, 4, 5, 6, 7}
    OBVIOUS
<1>2. WrittenBefore(i + 1, p) = WrittenBefore(i, p) \cup (({SeedSteps[i]} \cap Kept) \X {p})
    <2>1. 1..((i + 1) - 1) = 1..(i - 1) \cup {i}
        OBVIOUS
    <2>2. {SeedSteps[j] : j \in 1..((i + 1) - 1)} = {SeedSteps[j] : j \in 1..(i - 1)} \cup {SeedSteps[i]}
        BY <2>1
    <2> QED
        BY <2>2 DEF WrittenBefore
<1>3. CASE SeedSteps[i] = "reset"
    <2>1. i = 1
        BY <1>3 DEF SeedSteps
    <2>2. WrittenBefore(1, p) = {}
        BY <1>1 DEF WrittenBefore
    <2> QED
        BY <1>2, <1>3, <2>1, <2>2 DEF Written, Kept
<1>4. CASE SeedSteps[i] \in {"operators", "settings"}
    BY <1>2, <1>4 DEF Written, Kept
<1>5. CASE SeedSteps[i] \in Kept
    <2>1. SeedSteps[i] \notin {"reset", "operators", "settings"}
        BY <1>5 DEF Kept
    <2>2. Written(SeedSteps[i], p) = data \cup {<<SeedSteps[i], p>>}
        BY <2>1 DEF Written
    <2>3. ({SeedSteps[i]} \cap Kept) \X {p} = {<<SeedSteps[i], p>>}
        BY <1>5
    <2> QED
        BY <1>2, <2>2, <2>3
<1> QED
    BY <1>3, <1>4, <1>5, SeedStages DEF Kept

LEMMA SeedEnds ==
    ASSUME NEW p \in Procs
    PROVE  WrittenBefore(1, p) = {} /\ WrittenBefore(8, p) = Kept \X {p}
<1>1. {SeedSteps[j] : j \in 1..(1 - 1)} = {}
    OBVIOUS
<1>2. {SeedSteps[j] : j \in 1..(8 - 1)} = Seeding
    BY SeedStages DEF Seeding
<1> QED
    BY <1>1, <1>2, SeedStages DEF WrittenBefore, Kept

LEMMA SeedIndex == \A i, j \in 1..7 : SeedSteps[i] = SeedSteps[j] => i = j
BY DEF SeedSteps

\* The data stays when only other processes than one in the seed move, and none comes to it.
LEMMA SeedRests ==
    ASSUME TypeOK, NEW p \in Procs, NEW n \in Stages, stage' = [stage EXCEPT ![p] = n], data' = data,
           n \notin Seeding, stage[p] \notin Seeding,
           n \in {"listen"} \cup Serving => Seeded,
           Unseeded \/ BeingSeeded \/ Seeded
    PROVE  Unseeded' \/ BeingSeeded' \/ Seeded'
<1>1. \A q \in Procs : stage'[q] = IF q = p THEN n ELSE stage[q]
    BY DEF TypeOK
<1>2. CASE Seeded
    BY <1>1, <1>2 DEF Seeded
<1>3. CASE Unseeded /\ ~Seeded
    BY <1>1, <1>3 DEF Unseeded
<1>4. CASE BeingSeeded /\ ~Seeded
    <2>1. PICK q \in Procs, i \in 1..7 : BeingSeeded!(q, i)
        BY <1>4, SeedStages DEF BeingSeeded
    <2>2. q # p
        BY <2>1, SeedStages
    <2>3. stage'[q] = SeedSteps[i] /\ data' = WrittenBefore(i, q)
        BY <1>1, <2>1, <2>2
    <2>4. \A r \in Procs \ {q} : stage'[r] \notin {"listen"} \cup Seeding
        BY <1>1, <1>4, <2>1
    <2>5. WrittenBefore(i, q)' = WrittenBefore(i, q)
        BY DEF WrittenBefore
    <2> QED
        BY <2>3, <2>4, <2>5, SeedStages DEF BeingSeeded
<1> QED
    BY <1>2, <1>3, <1>4

LEMMA AdvanceKeepsSeed ==
    ASSUME Held, SeedKept, ~cut, NEW p \in Procs, Advances(p), UNCHANGED lost
    PROVE  /\ \A q \in lost' : stage'[q] \in {"dead"} \cup Serving
           /\ Unseeded' \/ BeingSeeded' \/ Seeded'
<1>1. TypeOK /\ (Unseeded \/ BeingSeeded \/ Seeded)
    BY DEF Held, SeedKept
<1>2. PICK n \in Stages \ ({"none", "dead"} \cup Serving) : Goes(p, n)
    BY DEF Advances
<1>3. stage' = [stage EXCEPT ![p] = n] /\ \A q \in Procs : stage'[q] = IF q = p THEN n ELSE stage[q]
    BY <1>1, <1>2 DEF Goes, TypeOK
<1>4. n # "dead" /\ stage'[p] # "dead" /\ n \notin Serving
    BY <1>2, <1>3
<1>5. stage[p] \notin {"none", "dead"} \cup Serving
    BY DEF Advances
<1>6. p \notin lost
    BY <1>5 DEF SeedKept
<1>7. \A q \in lost' : stage'[q] \in {"dead"} \cup Serving
    BY <1>3, <1>6 DEF SeedKept, Held, TypeOK
<1>8. ASSUME NEW q \in Procs, q # p
      PROVE  stage[q] \in {"none", "dead"} \cup Serving
    <2>1. handle = p
        BY <1>5, <1>6 DEF Held, ChildrenHeld, Alive
    <2>2. Alive(q) => q \in lost
        BY <1>8, <2>1 DEF Held, ChildrenHeld
    <2> QED
        BY <2>2 DEF Alive, SeedKept
<1>9. \A q \in Procs : q # p => stage[q] \notin {"listen"} \cup Seeding
    BY <1>8, SeedStages DEF Serving
<1>10. CASE Create(p) \/ MigrateFirst(p) \/ MigrateRest(p)
    <2>1. stage[p] \in {"create"} \cup Migrating /\ data' = data
        BY <1>10 DEF Create, MigrateFirst, MigrateRest, Migrating, database
    <2>2. n \in {"count"} \cup Migrating
        <3>1. CASE Create(p)
            BY <1>1, <1>2, <1>3, <3>1 DEF Create, Goes, FirstPending, Migrating, TypeOK
        <3>2. CASE MigrateFirst(p)
            <4>1. PICK k \in 1..2 : MigrateFirst(p)!(k)
                BY <3>2 DEF MigrateFirst
            <4>2. ~(schema >= k)
                BY <1>1, <1>4, <4>1 DEF Fails, Ends, TypeOK
            <4>3. n = <<"table2", "record">>[k]
                BY <1>1, <1>3, <4>1, <4>2 DEF Goes, TypeOK
            <4> QED
                BY <4>3 DEF Migrating
        <3>3. CASE MigrateRest(p)
            BY <1>1, <1>3, <3>3 DEF MigrateRest, Goes, Migrating, TypeOK
        <3> QED
            BY <1>10, <3>1, <3>2, <3>3
    <2>3. n \notin {"listen"} \cup Seeding \cup Serving /\ stage[p] \notin Seeding
        BY <2>1, <2>2, SeedStages DEF Migrating, Serving
    <2> QED
        BY <1>1, <1>3, <1>7, <2>1, <2>3, SeedRests
<1>11. CASE CountUsers(p)
    <2>1. stage[p] = "count" /\ data' = data /\ n = AfterMigrations
        BY <1>1, <1>3, <1>11 DEF CountUsers, Goes, database, TypeOK
    <2>2. stage[p] \notin Seeding /\ "count" # "listen"
        BY <2>1, SeedStages
    <2>3. ~BeingSeeded
        BY <1>9, <2>2, SeedStages DEF BeingSeeded
    <2>4. CASE \E q \in Procs : <<"users", q>> \in data
        <3>1. n = "listen" /\ Seeded
            BY <1>1, <2>1, <2>3, <2>4 DEF AfterMigrations, Unseeded
        <3>2. "listen" \notin Seeding
            BY SeedStages
        <3> QED
            BY <1>1, <1>3, <1>7, <2>1, <2>2, <3>1, <3>2, SeedRests
    <2>5. CASE ~\E q \in Procs : <<"users", q>> \in data
        <3>1. n = SeedSteps[1]
            BY <2>1, <2>5 DEF AfterMigrations
        <3>2. ~Seeded
            BY <2>5 DEF Seeded, Kept
        <3>3. data' = WrittenBefore(1, p)
            BY <1>1, <2>1, <2>3, <3>2, SeedEnds DEF Unseeded
        <3>4. WrittenBefore(1, p)' = WrittenBefore(1, p)
            BY DEF WrittenBefore
        <3>5. \A q \in Procs \ {p} : stage'[q] \notin {"listen"} \cup Seeding
            BY <1>3, <1>9
        <3>6. BeingSeeded'
            BY <1>3, <3>1, <3>3, <3>4, <3>5, SeedStages DEF BeingSeeded
        <3> QED
            BY <1>7, <3>6
    <2> QED
        BY <2>4, <2>5
<1>12. CASE Seed(p)
    <2>1. PICK i \in 1..7 : Seed(p)!(i)
        BY <1>12, SeedStages DEF Seed
    <2>2. ~Refused(SeedSteps[i], p)
        BY <1>1, <1>4, <2>1 DEF Fails, Ends, TypeOK
    <2>3. /\ data' = Written(SeedSteps[i], p)
          /\ n = IF i < 7 THEN SeedSteps[i + 1] ELSE "listen"
        BY <1>1, <1>3, <2>1, <2>2, SeedStages DEF Goes, TypeOK
    <2>4. stage[p] = SeedSteps[i] /\ stage[p] \in Seeding
        BY <2>1, SeedStages
    <2>5. BeingSeeded
        BY <1>1, <2>4 DEF Unseeded, Seeded
    <2>6. PICK q \in Procs, j \in 1..7 : BeingSeeded!(q, j)
        BY <2>5, SeedStages DEF BeingSeeded
    <2>7. q = p /\ j = i
        BY <1>9, <2>4, <2>6, SeedStages, SeedIndex
    <2>8. data' = WrittenBefore(i + 1, p)
        BY <2>3, <2>6, <2>7, SeedWrites
    <2>9. \A r \in Procs \ {p} : stage'[r] \notin {"listen"} \cup Seeding
        BY <1>3, <1>9
    <2>10. WrittenBefore(i + 1, p)' = WrittenBefore(i + 1, p)
        BY DEF WrittenBefore
    <2>11. CASE i < 7
        <3>1. i + 1 \in 1..7 /\ stage'[p] = SeedSteps[i + 1]
            BY <1>3, <2>3, <2>11
        <3>2. BeingSeeded'
            BY <2>8, <2>9, <2>10, <3>1, SeedStages DEF BeingSeeded
        <3> QED
            BY <1>7, <3>2
    <2>12. CASE i = 7
        <3>1. data' = Kept \X {p}
            BY <2>8, <2>12, SeedEnds
        <3>2. \A r \in Procs : stage'[r] \notin Seeding
            BY <1>3, <2>3, <2>9, <2>12, SeedStages
        <3>3. Seeded'
            BY <3>1, <3>2 DEF Seeded, Kept
        <3> QED
            BY <1>7, <3>3
    <2> QED
        BY <2>11, <2>12
<1> QED
    BY <1>10, <1>11, <1>12 DEF Advances

LEMMA SeedStep ==
    ASSUME Held, SeedKept, [Next]_vars
    PROVE  SeedKept'
<1> SUFFICES ASSUME ~cut'
             PROVE  /\ \A p \in lost' : stage'[p] \in {"dead"} \cup Serving
                    /\ Unseeded' \/ BeingSeeded' \/ Seeded'
    BY DEF SeedKept
<1>1. TypeOK
    BY DEF Held
<1>2. ~cut
    BY StepKinds DEF Still, Forked, Left, Dies, Opens, Closes, Advances, Goes
<1>3. /\ \A p \in lost : stage[p] \in {"dead"} \cup Serving
      /\ Unseeded \/ BeingSeeded \/ Seeded
    BY <1>2 DEF SeedKept
<1>4. CASE Still
    BY <1>3, <1>4 DEF Still, database, Unseeded, BeingSeeded, Seeded, WrittenBefore
<1>5. CASE Left
    <2>1. lost' \subseteq lost \cup {forks} /\ (forks \in lost' => forks \in lost \/ stage[forks] \in Serving)
        BY <1>5 DEF Left
    <2> QED
        BY <1>3, <1>5, <2>1 DEF Left, database, Unseeded, BeingSeeded, Seeded, WrittenBefore
<1>6. CASE Forked
    <2>1. \A p \in Procs : stage[p] \in {"none", "dead"} \cup Serving
        BY <1>3, <1>6 DEF Forked, Held, ChildrenHeld, Alive
    <2>2. \A p \in Procs : stage'[p] \in {stage[p], "dead", "create"}
        BY <1>6, ForkedRead
    <2>3. \A p \in Procs : stage'[p] \notin {"listen"} \cup Seeding
        BY <2>1, <2>2, SeedStages DEF Serving
    <2>4. ~BeingSeeded
        BY <2>1, SeedStages DEF BeingSeeded, Serving
    <2>5. data' = data /\ lost' = lost
        BY <1>6 DEF Forked, database
    <2>6. \A p \in lost' : stage'[p] \in {stage[p], "dead"}
        BY <1>1, <1>6, <2>5, ForkedRead DEF TypeOK
    <2>7. Unseeded => Unseeded'
        BY <2>2, <2>3, <2>5 DEF Unseeded, Serving
    <2>8. Seeded => Seeded'
        BY <2>3, <2>5 DEF Seeded
    <2> QED
        BY <1>3, <2>4, <2>5, <2>6, <2>7, <2>8
<1>7. CASE \E p \in Procs : Dies(p) /\ p <= forks /\ UNCHANGED lost
    <2>1. PICK p \in Procs : Dies(p) /\ UNCHANGED lost
        BY <1>7
    <2>2. data' = data /\ stage' = [stage EXCEPT ![p] = "dead"]
        BY <2>1 DEF Dies, database
    <2>3. stage[p] \notin Seeding
        BY <2>1 DEF Dies, Midway
    <2>4. "dead" \in Stages /\ "dead" \notin {"listen"} \cup Seeding \cup Serving
        BY SeedStages DEF Stages, Serving
    <2>5. \A q \in lost' : stage'[q] \in {"dead"} \cup Serving
        BY <1>1, <1>3, <2>1, <2>2 DEF TypeOK
    <2> QED
        BY <1>1, <1>3, <2>2, <2>3, <2>4, <2>5, SeedRests
<1>8. CASE \E p \in Procs : (Opens(p) \/ Closes(p)) /\ UNCHANGED lost
    <2>1. PICK p \in Procs : (Opens(p) \/ Closes(p)) /\ UNCHANGED lost
        BY <1>8
    <2>2. PICK n \in Serving : stage' = [stage EXCEPT ![p] = n]
        BY <2>1 DEF Opens, Closes, Serving
    <2>3. data' = data /\ stage[p] \in {"listen"} \cup Serving
        BY <2>1 DEF Opens, Closes, database, Serving
    <2>4. n \in Stages /\ n \notin Seeding /\ stage[p] \notin Seeding
        BY <2>2, <2>3, SeedStages DEF Stages, Serving
    <2>5. \A q \in lost' : stage'[q] \in {"dead"} \cup Serving
        BY <1>1, <1>3, <2>1, <2>2 DEF TypeOK
    <2>6. CASE Seeded
        BY <1>1, <1>3, <2>2, <2>3, <2>4, <2>5, <2>6, SeedRests
    <2>7. CASE BeingSeeded
        <3>1. PICK q \in Procs, i \in 1..7 : BeingSeeded!(q, i)
            BY <2>7, SeedStages DEF BeingSeeded
        <3>2. q # p
            BY <2>4, <3>1, SeedStages
        <3>3. \A r \in Procs : stage'[r] = IF r = p THEN n ELSE stage[r]
            BY <1>1, <2>2 DEF TypeOK
        <3>4. "listen" # n
            BY <2>2 DEF Serving
        <3>5. \A r \in Procs \ {q} : stage'[r] \notin {"listen"} \cup Seeding
            BY <2>4, <3>1, <3>3, <3>4
        <3>6. WrittenBefore(i, q)' = WrittenBefore(i, q)
            BY DEF WrittenBefore
        <3>7. BeingSeeded'
            BY <2>3, <3>1, <3>2, <3>3, <3>5, <3>6, SeedStages DEF BeingSeeded
        <3> QED
            BY <2>5, <3>7
    <2>8. ~Unseeded
        BY <2>3 DEF Unseeded
    <2> QED
        BY <1>3, <2>6, <2>7, <2>8
<1>9. CASE \E p \in Procs : Advances(p) /\ UNCHANGED lost
    BY <1>2, <1>9, AdvanceKeepsSeed
<1> QED
    BY <1>4, <1>5, <1>6, <1>7, <1>8, <1>9, StepKinds

-----------------------------------------------------------------------------
(* The theorems *)

LEMMA InitIInv == Init => IInv
<1> SUFFICES ASSUME Init
             PROVE  IInv
    OBVIOUS
<1>1. \A p \in Procs : stage[p] = "none"
    BY DEF Init
<1>2. ChildrenHeld /\ MailOfTheChild
    BY <1>1 DEF Init, ChildrenHeld, MailOfTheChild, Alive
<1>3. PortOfTheReady /\ Migrated
    BY <1>1, SeedStages DEF Init, PortOfTheReady, Migrated, Serving
<1>4. SeedKept
    BY <1>1, SeedStages DEF Init, SeedKept, Unseeded, Serving
<1> QED
    BY <1>2, <1>3, <1>4, InitTypes DEF IInv

LEMMA StepIInv == IInv /\ [Next]_vars => IInv'
<1> SUFFICES ASSUME IInv, [Next]_vars
             PROVE  IInv'
    OBVIOUS
<1>1. Held
    BY DEF IInv, Held
<1> QED
    BY <1>1, StepTypes, HeldStep, PortStep, MigratedStep, SeedStep DEF IInv

(* The inductive invariant of the shell and its backends: who may live, whose exit is in the mail,
   who has the port, and how far schema and demo data are. *)
THEOREM IInvHolds == Spec => []IInv
BY InitIInv, StepIInv, PTL DEF Spec

(* However the application is quit, no backend it forked is left running; only those of a shell that
   crashed are (stopBackend and forceKillBackend of backend-process.ts, before-quit and the exit
   handler of index.ts). *)
THEOREM NoOrphans == Spec => []NoOrphanAfterQuit
<1>1. IInv => NoOrphanAfterQuit
    BY DEF IInv, ChildrenHeld, MailOfTheChild, NoOrphanAfterQuit
<1> QED
    BY <1>1, IInvHolds, PTL

(* The backend behind the window is the shell's own child, with the port, on a whole schema, and on
   whole demo data unless a backend was ended inside its start (bootstrap in main.ts, its migrations,
   seedMvpDemo). *)
THEOREM WhatIsServedIsWhole == Spec => []ServedWhole
<1>1. IInv => ServedWhole
    <2> SUFFICES ASSUME IInv, phase = "running", handle # None, stage[handle] = "ready"
                 PROVE  /\ port = handle /\ schema = 2 /\ recorded = 2
                        /\ ~cut => {d[1] : d \in data} = Kept
        BY DEF ServedWhole, Kept
    <2>1. handle \in Procs
        BY DEF IInv, TypeOK
    <2>2. port = handle
        BY <2>1 DEF IInv, PortOfTheReady
    <2>3. schema = 2 /\ recorded = 2
        BY <2>1 DEF IInv, Migrated, Serving, TypeOK
    <2>4. ASSUME ~cut
          PROVE  {d[1] : d \in data} = Kept
        <3>1. ~Unseeded
            BY <2>1 DEF Unseeded, Serving
        <3>2. \A p \in Procs : stage[p] \notin Seeding
            <4>1. stage[handle] \notin Seeding
                BY SeedStages
            <4> QED
                BY <2>1, <2>4, <4>1, SeedStages DEF IInv, SeedKept, ChildrenHeld, Alive, Serving
        <3>3. Seeded
            BY <2>4, <3>1, <3>2, SeedStages DEF IInv, SeedKept, BeingSeeded
        <3>4. PICK p \in Procs : data = Kept \X {p}
            BY <3>3 DEF Seeded
        <3>5. \A k \in Kept : <<k, p>> \in data /\ <<k, p>>[1] = k
            BY <3>4
        <3>6. \A d \in data : d[1] \in Kept
            BY <3>4
        <3> QED
            BY <3>5, <3>6
    <2> QED
        BY <2>2, <2>3, <2>4
<1> QED
    BY <1>1, IInvHolds, PTL
=============================================================================
