---------------------------- MODULE DesktopShell ----------------------------
(***************************************************************************)
(* The desktop build: the Electron shell (canteen-electron) that forks the *)
(* backend, waits for it to say ready, shows it in a window and stops it   *)
(* on quit, and the backend's own start (main.ts): migrations, demo data,  *)
(* listener, in that order, each statement committed by itself.            *)
(*                                                                         *)
(* The shell may quit or crash at any step, a backend may fail, hang or be *)
(* killed at any step, and one that outlives a crashed shell goes on, with *)
(* the port and the database it shares with the next.  Messages and exits  *)
(* of the child reach the shell in order, and timers run beside them.  Of  *)
(* the first migration two statements are kept, of each loop of the seed   *)
(* one step.                                                               *)
(***************************************************************************)
EXTENDS Naturals, Sequences, FiniteSets

CONSTANT MaxForks   \* bound: backend processes forked over all starts of the shell

ASSUME ForksAssumption == MaxForks \in Nat \ {0}

Procs == 1..MaxForks

None == 0

VARIABLES
    phase,      \* of the shell: off, prompt, starting, running, failed
    quitting,   \* before-quit is waiting for stopBackend
    handle,     \* backendProcess
    timer,      \* the start timer is set
    stops,      \* force-kill timers set by stopBackend, by who called it
    window,     \* none, shown, hidden
    inbox,      \* messages and exits of the child the shell has not handled
    config,     \* config.json: absent, good, torn
    stage,      \* of every process, where its start is
    asked,      \* processes that were sent shutdown
    port,       \* the process that listens
    schema,     \* statements of the first migration that ran
    recorded,   \* migrations in typeorm_migrations
    data,       \* what of the demo data is there, and which process wrote it
    forks,
    lost,       \* history: processes left behind by a crash of their shell
    silent,     \* history: processes ended with no error to report: by a signal, or with code 0
    cut         \* history: a process ended inside migrations or seed, or was left behind before it served

shell == <<phase, quitting, handle, timer, stops, window, inbox>>
database == <<schema, recorded, data>>
vars == <<shell, config, stage, asked, port, database, forks, lost, silent, cut>>

SeedSteps == <<"reset", "operators", "menu", "users", "accounts", "orders", "settings">>

Seeding == {SeedSteps[i] : i \in 1..Len(SeedSteps)}

Migrating == {"table1", "table2", "record", "later"}

Serving == {"ready", "closing"}

Alive(p) == stage[p] \notin {"none", "dead"}

\* The shell still reads what the process sends.
Heard(p) == phase # "off" /\ p = forks /\ p \notin lost

Init ==
    /\ phase = "off" /\ quitting = FALSE /\ handle = None /\ timer = FALSE /\ stops = {}
    /\ window = "none" /\ inbox = <<>> /\ config = "absent"
    /\ stage = [p \in Procs |-> "none"] /\ asked = {} /\ port = None
    /\ schema = 0 /\ recorded = 0 /\ data = {}
    /\ forks = 0 /\ lost = {} /\ silent = {} /\ cut = FALSE

-----------------------------------------------------------------------------
(* The backend: bootstrap in main.ts *)

Midway(p) == stage[p] \in Migrating \cup Seeding

Released(p) == IF port = p THEN None ELSE port

\* The process is gone, and what it sent last is followed by its exit.
Ends(p, last) ==
    /\ stage' = [stage EXCEPT ![p] = "dead"]
    /\ port' = Released(p)
    /\ cut' = (cut \/ Midway(p))
    /\ inbox' = IF Heard(p) THEN inbox \o last ELSE inbox

Goes(p, next) ==
    /\ stage' = [stage EXCEPT ![p] = next]
    /\ UNCHANGED <<port, cut, inbox>>

\* bootstrap().catch: the error is sent, then the process exits.
Fails(p) == Ends(p, <<"error", "exit1">>)

\* Mutant: one recorded migration counts as all.
FirstPendingAny == IF recorded = 0 THEN "table1" ELSE "count"

\* showMigrations: what is left of the migrations, and behind them the check for users.
FirstPending == CASE recorded = 0 -> "table1" [] recorded = 1 -> "later" [] OTHER -> "count"

Create(p) ==
    /\ stage[p] = "create"
    /\ Goes(p, FirstPending)
    /\ UNCHANGED database

\* CREATE TABLE without IF NOT EXISTS, no transaction around: a statement that ran already fails.
MigrateFirst(p) ==
    \E k \in 1..2 :
        /\ stage[p] = <<"table1", "table2">>[k]
        /\ IF schema >= k
             THEN Fails(p) /\ UNCHANGED schema
             ELSE schema' = k /\ Goes(p, <<"table2", "record">>[k])
        /\ UNCHANGED <<recorded, data>>

\* The migration is recorded once up has returned; the later ones may run again.
MigrateRest(p) ==
    /\ stage[p] \in {"record", "later"}
    /\ LET n == IF stage[p] = "record" THEN 1 ELSE 2
       IN  recorded' = IF n > recorded THEN n ELSE recorded
    /\ Goes(p, IF stage[p] = "record" THEN "later" ELSE "count")
    /\ UNCHANGED <<schema, data>>

AfterMigrations == IF \E p \in Procs : <<"users", p>> \in data THEN "listen" ELSE SeedSteps[1]

CountUsers(p) ==
    /\ stage[p] = "count"
    /\ Goes(p, AfterMigrations)
    /\ UNCHANGED database

\* What the rows of a step refer to, all written by the same process.
Needs(step) == CASE step = "accounts" -> {"users"} [] step = "orders" -> {"users", "menu"} [] OTHER -> {}

(* The codes of the menu are unique, the numbers of the prisoners are not; accounts and orders need
   the rows their foreign keys name. *)
Refused(step, p) ==
    \/ step = "menu" /\ \E q \in Procs : <<"menu", q>> \in data
    \/ \E need \in Needs(step) : <<need, p>> \notin data

\* The reset deletes the demo data of anyone; operators and settings are found or created.
Written(step, p) ==
    CASE step = "reset" -> {}
      [] step \in {"operators", "settings"} -> data
      [] OTHER -> data \cup {<<step, p>>}

\* seedMvpDemo: nothing holds the steps together but their order.
Seed(p) ==
    \E i \in 1..Len(SeedSteps) :
        /\ stage[p] = SeedSteps[i]
        /\ IF Refused(SeedSteps[i], p)
             THEN Fails(p) /\ UNCHANGED data
             ELSE /\ data' = Written(SeedSteps[i], p)
                  /\ Goes(p, IF i < Len(SeedSteps) THEN SeedSteps[i + 1] ELSE "listen")
        /\ UNCHANGED <<schema, recorded>>

Listen(p) ==
    /\ stage[p] = "listen"
    /\ IF port # None
         THEN Fails(p)
         ELSE /\ stage' = [stage EXCEPT ![p] = "ready"]
              /\ port' = p
              /\ inbox' = IF Heard(p) THEN Append(inbox, "ready") ELSE inbox
              /\ UNCHANGED cut
    /\ UNCHANGED database

\* The handler of shutdown is registered last; a message that came before waits for it.
Shutdown(p) ==
    /\ UNCHANGED database
    /\ \/ /\ stage[p] = "ready" /\ p \in asked
          /\ stage' = [stage EXCEPT ![p] = "closing"]
          /\ port' = Released(p)
          /\ UNCHANGED <<cut, inbox>>
       \/ stage[p] = "closing" /\ Ends(p, <<"exit0">>)

\* An await of bootstrap rejects, for instance on a full disk.
BootstrapFails(p) ==
    /\ Alive(p) /\ stage[p] \notin Serving
    /\ Fails(p)
    /\ UNCHANGED database

\* Ended from outside by a signal, or by an exception outside bootstrap; or, while bootstrap
\* awaits what never settles, with code 0, because nothing is left to wait for.
Deaths(p) == {"signal", "exit1"} \cup (IF stage[p] \in Serving THEN {} ELSE {"exit0"})

BackendDies(p) ==
    /\ Alive(p)
    /\ \E how \in Deaths(p) :
         /\ Ends(p, <<how>>)
         /\ silent' = IF how = "exit1" THEN silent ELSE silent \cup {p}
    /\ UNCHANGED database

Backend(p) ==
    /\ \/ /\ \/ Create(p) \/ MigrateFirst(p) \/ MigrateRest(p) \/ CountUsers(p) \/ Seed(p)
             \/ Listen(p) \/ Shutdown(p) \/ BootstrapFails(p)
          /\ UNCHANGED silent
       \/ BackendDies(p)
    /\ UNCHANGED <<phase, quitting, handle, timer, stops, window, config, asked, forks, lost>>

-----------------------------------------------------------------------------
(* The shell *)

\* forceKillBackend, or the system's kill: the process p ends, with no word.
Killed(p) ==
    /\ stage' = IF p = None THEN stage ELSE [stage EXCEPT ![p] = "dead"]
    /\ port' = IF p = None THEN port ELSE Released(p)
    /\ cut' = (cut \/ (p # None /\ Midway(p)))

ForceKill == Killed(handle)

\* The process of the shell is gone, with its window, timers and channel.
Gone ==
    /\ phase' = "off" /\ quitting' = FALSE /\ handle' = None
    /\ timer' = FALSE /\ stops' = {} /\ window' = "none" /\ inbox' = <<>>

\* app.exit, or a quit nobody prevents: the 'exit' handler of the process kills what is left.
ExitForgetful == Gone /\ UNCHANGED <<stage, port, cut>>

Exit == Gone /\ ForceKill

\* killPortOccupant: the process to kill, if the tool that finds it works.
Occupant(found) == IF found THEN port ELSE None

(* startBackend: whoever listens is killed and the child is forked.  A package
   without the backend's modules throws before that. *)
StartBackend ==
    \/ /\ phase' = "failed"
       /\ UNCHANGED <<handle, timer, stage, port, cut, forks>>
    \/ \E found \in BOOLEAN :
         LET old == Occupant(found)
             new == forks + 1
         IN  /\ forks' = new /\ handle' = new
             /\ timer' = TRUE /\ phase' = "starting"
             /\ stage' = [p \in Procs |-> CASE p = old -> "dead" [] p = new -> "create" [] OTHER -> stage[p]]
             /\ port' = IF old = None THEN port ELSE None
             /\ UNCHANGED cut

\* The ready handler: the first launch asks, a config that cannot be parsed throws.
Launch ==
    /\ phase = "off" /\ forks < MaxForks
    /\ CASE config = "absent" -> phase' = "prompt" /\ UNCHANGED <<handle, timer, stage, port, cut, forks>>
         [] config = "torn" -> phase' = "failed" /\ UNCHANGED <<handle, timer, stage, port, cut, forks>>
         [] config = "good" -> StartBackend
    /\ UNCHANGED <<quitting, stops, window, inbox, config, asked, database, lost, silent>>

AnswerPrompt ==
    /\ phase = "prompt"
    /\ config' = "good"
    /\ StartBackend
    /\ UNCHANGED <<quitting, stops, window, inbox, asked, database, lost, silent>>

\* The file is written in place: the shell may die with half of it on disk.
CrashWhileSaving ==
    /\ phase = "prompt"
    /\ config' = "torn"
    /\ Gone
    /\ UNCHANGED <<stage, asked, port, database, forks, lost, silent, cut>>

\* The promise of startBackend is settled once; later outcomes change nothing.
Settle(to) ==
    /\ phase' = IF phase = "starting" THEN to ELSE phase
    /\ window' = IF phase = "starting" /\ to = "running" THEN "shown" ELSE window

\* createTray or createMainWindow may throw once the backend is ready.
ReceiveMessage ==
    /\ inbox # <<>> /\ Head(inbox) \in {"ready", "error"}
    /\ inbox' = Tail(inbox)
    /\ timer' = FALSE
    /\ Settle("failed") \/ (Head(inbox) = "ready" /\ Settle("running"))
    /\ UNCHANGED <<quitting, handle, stops, config, stage, asked, port, database, forks, lost, silent, cut>>

(* The exit handlers: that of startBackend, which rejects only for a code other than zero, then
   those of stopBackend; before-quit goes on to app.exit. *)
ReceiveExit ==
    /\ inbox # <<>> /\ Head(inbox) \in {"exit0", "exit1", "signal"}
    /\ IF "quit" \in stops
         THEN Gone
         ELSE /\ inbox' = Tail(inbox)
              /\ timer' = FALSE /\ handle' = None /\ stops' = {}
              /\ IF Head(inbox) = "exit1" THEN Settle("failed") ELSE UNCHANGED <<phase, window>>
              /\ UNCHANGED quitting
    /\ UNCHANGED <<config, stage, asked, port, database, forks, lost, silent, cut>>

\* stopBackend while there is a child: a force-kill timer, and the message.
StopBackend(who) ==
    /\ stops' = IF handle = None THEN stops ELSE stops \cup {who}
    /\ asked' = IF handle = None THEN asked ELSE asked \cup {handle}

StartTimeoutSilent ==
    /\ timer
    /\ timer' = FALSE
    /\ StopBackend("timeout")
    /\ UNCHANGED <<phase, quitting, handle, window, inbox, config, stage, port, database, forks, lost, silent, cut>>

StartTimeout ==
    /\ timer
    /\ timer' = FALSE
    /\ Settle("failed")
    /\ StopBackend("timeout")
    /\ UNCHANGED <<quitting, handle, inbox, config, stage, port, database, forks, lost, silent, cut>>

StopTimedOut ==
    /\ "timeout" \in stops
    /\ ForceKill
    /\ handle' = None
    /\ stops' = stops \ {"timeout"}
    /\ inbox' = IF handle # None /\ Alive(handle) THEN Append(inbox, "signal") ELSE inbox
    /\ UNCHANGED <<phase, quitting, timer, window>>

\* The force-kill timers, the older one first.
KillTimeout ==
    /\ StopTimedOut \/ (stops = {"quit"} /\ Exit)
    /\ UNCHANGED <<config, asked, database, forks, lost, silent>>

(* before-quit, from the tray, the menu, the failure dialog or the system.  The first one waits for
   stopBackend, a second one is not prevented. *)
Quit ==
    /\ phase # "off"
    /\ IF handle = None \/ quitting
         THEN Exit /\ UNCHANGED asked
         ELSE /\ quitting' = TRUE
              /\ StopBackend("quit")
              /\ UNCHANGED <<phase, handle, timer, window, inbox, stage, port, cut>>
    /\ UNCHANGED <<config, database, forks, lost, silent>>

\* The window is closed to the tray, and opened from there.
CloseWindow ==
    /\ window = "shown" /\ ~quitting
    /\ window' = "hidden"
    /\ UNCHANGED <<phase, quitting, handle, timer, stops, inbox, config, stage, asked, port,
                   database, forks, lost, silent, cut>>

ShowWindow ==
    /\ window = "hidden"
    /\ window' = "shown"
    /\ UNCHANGED <<phase, quitting, handle, timer, stops, inbox, config, stage, asked, port,
                   database, forks, lost, silent, cut>>

\* Killed or crashed: no handler of the process runs.
ShellDies ==
    /\ phase # "off"
    /\ Gone
    /\ lost' = lost \cup (IF forks # 0 /\ Alive(forks) THEN {forks} ELSE {})
    /\ cut' = (cut \/ (forks # 0 /\ Alive(forks) /\ stage[forks] \notin Serving))
    /\ UNCHANGED <<config, stage, asked, port, database, forks, silent>>

Receive == ReceiveMessage \/ ReceiveExit

Next ==
    \/ Launch \/ AnswerPrompt \/ CrashWhileSaving \/ ReceiveMessage \/ ReceiveExit
    \/ StartTimeout \/ KillTimeout \/ Quit \/ CloseWindow \/ ShowWindow \/ ShellDies
    \/ \E p \in Procs : Backend(p)

Spec == Init /\ [][Next]_vars

(* The event loop of a shell that lives handles what has come and fires its timers.  Nothing is
   assumed of the backend, which may hang anywhere, or of the people in front of the machine. *)
Fairness == WF_vars(Receive) /\ WF_vars(StartTimeout) /\ WF_vars(KillTimeout)

FairSpec == Spec /\ Fairness

-----------------------------------------------------------------------------
(* Inductive invariant *)

Exits == {"exit0", "exit1", "signal"}

Stages == {"none", "create", "count", "listen", "dead"} \cup Migrating \cup Seeding \cup Serving

TypeOK ==
    /\ phase \in {"off", "prompt", "starting", "running", "failed"}
    /\ quitting \in BOOLEAN /\ timer \in BOOLEAN /\ cut \in BOOLEAN
    /\ handle \in {None} \cup Procs /\ port \in {None} \cup Procs /\ forks \in {None} \cup Procs
    /\ stops \subseteq {"timeout", "quit"}
    /\ window \in {"none", "shown", "hidden"}
    /\ inbox \in Seq(Exits \cup {"ready", "error"})
    /\ config \in {"absent", "good", "torn"}
    /\ stage \in [Procs -> Stages]
    /\ asked \subseteq Procs /\ lost \subseteq Procs /\ silent \subseteq Procs
    /\ schema \in 0..2 /\ recorded \in 0..2
    /\ data \subseteq Seeding \X Procs

\* A backend that lives is the child the shell holds, or one a crash left behind.
ChildrenHeld ==
    /\ handle \in {None, forks}
    /\ \A p \in Procs : Alive(p) /\ p \notin lost => handle = p
    /\ \A p \in Procs : p > forks => stage[p] = "none" /\ p \notin lost

\* Between its starts the shell has neither a child nor mail; an exit in the mail is of a dead child.
MailOfTheChild ==
    /\ phase \in {"off", "prompt"} => handle = None /\ inbox = <<>>
    /\ phase = "prompt" => forks < MaxForks
    /\ \A i \in 1..Len(inbox) : inbox[i] \in Exits => forks # None /\ stage[forks] = "dead"

PortOfTheReady == \A p \in Procs : stage[p] = "ready" <=> port = p

\* A process that is past a migration has its statements and its record below it.
Migrated ==
    /\ recorded > 0 => schema = 2
    /\ \A p \in Procs :
         /\ stage[p] = "record" => schema = 2
         /\ stage[p] = "later" => recorded > 0
         /\ stage[p] \in {"count", "listen"} \cup Seeding \cup Serving => recorded = 2

Kept == {"menu", "users", "accounts", "orders"}

\* What the process p has written when it comes to step i of the seed.
WrittenBefore(i, p) == ({SeedSteps[j] : j \in 1..(i - 1)} \cap Kept) \X {p}

Unseeded == data = {} /\ \A p \in Procs : stage[p] \notin {"listen"} \cup Seeding \cup Serving

BeingSeeded ==
    \E p \in Procs, i \in 1..Len(SeedSteps) :
        /\ stage[p] = SeedSteps[i]
        /\ data = WrittenBefore(i, p)
        /\ \A q \in Procs \ {p} : stage[q] \notin {"listen"} \cup Seeding

Seeded ==
    /\ \E p \in Procs : data = Kept \X {p}
    /\ \A p \in Procs : stage[p] \notin Seeding

\* While no backend ended inside its start, none that was left behind is inside it either.
SeedKept ==
    ~cut =>
        /\ \A p \in lost : stage[p] \in {"dead"} \cup Serving
        /\ Unseeded \/ BeingSeeded \/ Seeded

IInv ==
    /\ TypeOK /\ ChildrenHeld /\ MailOfTheChild
    /\ PortOfTheReady /\ Migrated /\ SeedKept

-----------------------------------------------------------------------------
(* Properties *)

(* However the application is quit - twice, during a start, while a start that timed out is being
   stopped - no backend it forked is left running; only those of a shell that crashed are. *)
NoOrphanAfterQuit == phase = "off" => \A p \in Procs : Alive(p) => p \in lost

(* The backend behind the window is the child of this shell: it holds the port, not an orphan of an
   earlier crash, on a schema that is whole.  Its demo data is whole too unless some backend was
   ended, or left behind, in the middle of its start: the check for users does not see that. *)
ServedWhole ==
    phase = "running" /\ handle # None /\ stage[handle] = "ready" =>
        /\ port = handle
        /\ schema = 2 /\ recorded = 2
        /\ ~cut => {d[1] : d \in data} = {"menu", "users", "accounts", "orders"}

(* The child ended by a signal, or with code 0, before it said ready: the exit handler clears the
   timer and rejects for no code but another. *)
EndedSilently == handle = None /\ forks \in silent

(* Every start ends in a window, in the failure dialog or in an exit, even if the backend hangs or
   fails anywhere, as long as it lives or says that it failed; one that ends silently is reported
   by nothing, and the start then waits until somebody quits. *)
StartupSettles == phase = "starting" ~> (phase # "starting" \/ EndedSilently)

(* A quit always ends the application, whether or not the backend answers. *)
QuitEnds == quitting ~> phase = "off"

(* The shell comes up or says why not, unless its backend ended silently; and it goes when told to. *)
ShellSettles == StartupSettles /\ QuitEnds
=============================================================================
