---------------------------- MODULE PrintedForms ----------------------------
(***************************************************************************)
(* The menu and the paper forms printed from it: the items with their      *)
(* codes and positions, the templates generated from the active items, the *)
(* batches of personal forms issued to the prisoners of a cell, and the    *)
(* generic masters, with the pages from which all of this is asked.        *)
(*                                                                         *)
(* Whatever writes the menu or a template does so in one transaction under *)
(* the catalogue lock and is one step.  Generating a template, issuing a   *)
(* batch and preparing a master are not: each reads, then waits for the    *)
(* renderer, then looks again.  What becomes of a form when it is scanned  *)
(* is in OmrSheets; prices and texts are left out.                         *)
(***************************************************************************)
EXTENDS Integers, Sequences, FiniteSets

CONSTANTS
    Users,      \* prisoners
    Places,     \* records of a zone and a cell, as users have them
    Labels,     \* what the short label of an item can be
    Admins,     \* form pages from which templates are generated
    Jobs,       \* calls of issueBatch that may run at once
    Unset,      \* nothing there: no zone, no cell
    MaxCode,    \* the largest code of CODE_DIGIT_COUNT digits
    Capacity,   \* FULL_LIST_CAPACITY
    MaxBatch,   \* MAX_OMR_BATCH_SIZE
    MaxItems,      \* bound: items ever on the menu
    MaxTemplates,  \* bound: templates, beyond which none is asked for
    MaxBatches,    \* bound: batches, beyond which none is asked for
    MaxChanges     \* bound: edits of the menu, and prisoners moved

ASSUME FormsAssumption ==
    /\ MaxCode \in Nat /\ Capacity \in Nat /\ MaxBatch \in Nat /\ MaxItems \in Nat
    /\ MaxTemplates \in Nat /\ MaxBatches \in Nat /\ MaxChanges \in Nat
    /\ IsFiniteSet(Users) /\ Unset \notin Labels \cup Jobs

VARIABLES
    opMode,     \* OMR_OPERATIONAL_FORM_MODE
    menu,       \* the menu_items table, in the order the items were added
    template,   \* the omr_form_templates table with its rows, in order
    user,       \* users.is_active and where each prisoner is
    forms,      \* the issued_omr_forms of one service date
    draft,      \* what each generateForm holds while the renderer works
    job,        \* what each issueBatch holds
    page,       \* the order form page of an operator
    master,     \* the generic masters of that page
    changes

formsVars == <<opMode, menu, template, user, forms, draft, job, page, master, changes>>

Modes == {"code", "full_list"}

Highest(S, least) == CHOOSE n \in S \cup {least} : \A m \in S \cup {least} : m <= n

-----------------------------------------------------------------------------
(* The menu *)

Kept == {i \in DOMAIN menu : menu[i].status # "removed"}

Row(i) == [item |-> i, code |-> menu[i].code, label |-> menu[i].label,
           position |-> menu[i].position]

\* snapshotActiveCatalog, and its canonical hash: the rows, which their
\* positions put in order.
ActiveCatalog == {Row(i) : i \in {k \in Kept : menu[k].status = "on"}}

\* isFormGenerated: some template was activated once.
FormGenerated == DOMAIN template # {}

Change == changes < MaxChanges /\ changes' = changes + 1

MenuOnly == UNCHANGED <<opMode, template, user, forms, draft, job, page, master>>

\* addItemLocked: beyond every position and every code of the table.
AddItem(label) ==
    LET code == Highest({menu[i].code : i \in Kept}, 0) + 1
        position == Highest({menu[i].position : i \in Kept}, -1) + 1
    IN  /\ Change /\ Len(menu) < MaxItems
        /\ code <= MaxCode
        /\ menu' = Append(menu, [status |-> "on", label |-> label,
                                 code |-> code, position |-> position])
        /\ MenuOnly

\* updateItemLocked: a printed name stays, an item may come and go.
UpdateItem(i, label, status) ==
    /\ Change /\ i \in Kept
    /\ label # menu[i].label => ~FormGenerated
    /\ menu' = [menu EXCEPT ![i].label = label, ![i].status = status]
    /\ MenuOnly

\* The final positions of the two-phase write.
Reindexed(gone) ==
    [i \in DOMAIN menu |->
        IF i = gone THEN [status |-> "removed", label |-> Unset, code |-> 0, position |-> 0]
        ELSE IF i \in Kept
        THEN [menu[i] EXCEPT !.position =
                 Cardinality({k \in Kept \ {gone} : menu[k].position < menu[i].position})]
        ELSE menu[i]]

\* removeItemLocked: hidden once forms are printed, deleted before.
RemoveItem(i) ==
    /\ Change /\ i \in Kept
    /\ menu' = IF FormGenerated THEN [menu EXCEPT ![i].status = "off"] ELSE Reindexed(i)
    /\ MenuOnly

\* reorderLocked, with any order of the present items: the list on the page
\* from which it was made may be old.
Reorder(place) ==
    /\ Change /\ ~FormGenerated
    /\ menu' = [i \in DOMAIN menu |-> IF i \in Kept THEN [menu[i] EXCEPT !.position = place[i]]
                                      ELSE menu[i]]
    /\ MenuOnly

\* A page sends the items it lists, two of them exchanged.
Orders == {place \in [Kept -> 0..(Cardinality(Kept) - 1)] :
              \A i, k \in Kept : i # k => place[i] # place[k]}

\* The dialog sends the name with whatever else was changed.
SaveItem(i) == \E label \in Labels : UpdateItem(i, label, menu[i].status)

\* What a row of the page offers: the switch, the dialog, and removal.
EditRow(i) ==
    \/ \E status \in {"on", "off"} : UpdateItem(i, menu[i].label, status)
    \/ SaveItem(i)
    \/ RemoveItem(i)

AddFromPage == \E label \in Labels : AddItem(label)

\* What an administrator does on the menu page.
EditMenu ==
    \/ AddFromPage
    \/ \E i \in DOMAIN menu : EditRow(i)
    \/ \E place \in Orders : Reorder(place)

-----------------------------------------------------------------------------
(* Templates *)

NoDraft == [mode |-> Unset, rows |-> {}]

Active(mode) == {t \in DOMAIN template : template[t].mode = mode /\ template[t].active}

\* The catalogue hashes of a full list and of the menu are equal.
Matches(t) == template[t].mode = "full_list" => template[t].rows = ActiveCatalog

Fits(mode) == mode = "full_list" => Cardinality(ActiveCatalog) <= Capacity

\* generateForm up to the renderer.  Codes that addItemLocked gave out fit.
StartTemplate(a, mode) ==
    /\ draft[a] = NoDraft /\ Len(template) < MaxTemplates
    /\ Fits(mode)
    /\ draft' = [draft EXCEPT ![a] =
                    [mode |-> mode, rows |-> IF mode = "full_list" THEN ActiveCatalog ELSE {}]]
    /\ UNCHANGED <<opMode, menu, template, user, forms, job, page, master, changes>>

\* The renderer fails, or activate refuses: nothing is stored.
TemplateFails(a) ==
    /\ draft[a] # NoDraft
    /\ draft' = [draft EXCEPT ![a] = NoDraft]
    /\ UNCHANGED <<opMode, menu, template, user, forms, job, page, master, changes>>

\* validateDraft: the rows of a full list have codes, labels and positions
\* by what the menu is; there must be some, and not too many.
ValidRows(mode, rows) ==
    mode = "full_list" => rows # {} /\ Cardinality(rows) <= Capacity

\* The tables after a template of these rows, drawn from those, is activated.
Activated(mode, rows, drawn) ==
    Append([t \in DOMAIN template |->
               [template[t] EXCEPT !.active = @ /\ template[t].mode # mode]],
           [mode |-> mode, active |-> TRUE, rows |-> rows, drawn |-> drawn,
            known |-> {Row(i) : i \in Kept}])

\* Mutant: the rows are stored as they are by now, whatever was drawn.
ActivateUnchecked(a) ==
    LET mode == draft[a].mode
        rows == IF mode = "full_list" THEN ActiveCatalog ELSE {}
    IN  /\ draft[a] # NoDraft
        /\ ValidRows(mode, rows)
        /\ template' = Activated(mode, rows, draft[a].rows)
        /\ draft' = [draft EXCEPT ![a] = NoDraft]
        /\ UNCHANGED <<opMode, menu, user, forms, job, page, master, changes>>

\* activate: the catalogue is read again and must be the one that was drawn.
Activate(a) ==
    LET mode == draft[a].mode
        rows == IF mode = "full_list" THEN ActiveCatalog ELSE {}
    IN  /\ draft[a] # NoDraft
        /\ ValidRows(mode, rows)
        /\ rows = draft[a].rows
        /\ template' = Activated(mode, rows, draft[a].rows)
        /\ draft' = [draft EXCEPT ![a] = NoDraft]
        /\ UNCHANGED <<opMode, menu, user, forms, job, page, master, changes>>

-----------------------------------------------------------------------------
(* Prisoners *)

\* The sync releases a prisoner, takes one back or moves one to another cell.
MoveUser(u, active, place) ==
    /\ Change
    /\ user[u] # [active |-> active, place |-> place]
    /\ user' = [user EXCEPT ![u] = [active |-> active, place |-> place]]
    /\ UNCHANGED <<opMode, menu, template, forms, draft, job, page, master>>

\* listIssuanceRoster: a page asks for a zone, with a cell or without.
Roster(place) == {u \in Users : user[u].active /\ user[u].place = place}

\* assertGenericCellIdentityReady: a cell names one active prisoner, whatever the zone.
CellsTellUsersApart ==
    \A u \in Users : user[u].active =>
        /\ user[u].place.cell # Unset
        /\ \A v \in Users \ {u} : user[v].active => user[v].place.cell # user[u].place.cell

-----------------------------------------------------------------------------
(* The order form page *)

NoPage == [caps |-> {}, roster |-> {}]

\* getCapabilities: the modes in which forms can be issued now.
Capabilities ==
    {mode \in Modes : Fits(mode) /\ \E t \in Active(mode) : Matches(t)}

\* The page is opened, or opened again: it asks for the capabilities once.
OpenPage ==
    /\ page' = [NoPage EXCEPT !.caps = Capabilities]
    /\ master' = [mode \in Modes |-> [pc |-> "none", template |-> 0]]
    /\ UNCHANGED <<opMode, menu, template, user, forms, draft, job, changes>>

\* handleZoneChange or handleCellChange, and then the roster.  One that was asked
\* for before is ignored, and until it comes nobody can be ticked.
ChoosePlace(place) ==
    /\ opMode = "issued" /\ place.zone # Unset
    /\ page' = [page EXCEPT !.roster = Roster(place)]
    /\ UNCHANGED <<opMode, menu, template, user, forms, draft, job, master, changes>>

NoJob == [pc |-> "idle", batch |-> {}, mode |-> Unset, place |-> Unset, template |-> 0]

NextBatch == 1 + Cardinality({f.batch : f \in forms})

\* togglePrisoner and toggleVisible: only who is on the roster shown, and not too many.
Ticked(batch) == batch # {} /\ batch \subseteq page.roster /\ Cardinality(batch) <= MaxBatch

\* A mode that was available when the page asked.
Offered(mode) == mode \in page.caps

\* issue.  A page waits for its answer; another page, or one whose connection was
\* lost, does not.
Send(j, batch, mode) ==
    /\ opMode = "issued" /\ job[j] = NoJob /\ NextBatch <= MaxBatches
    /\ Ticked(batch) /\ Offered(mode)
    /\ job' = [job EXCEPT ![j] = [NoJob EXCEPT !.pc = "sent", !.batch = batch, !.mode = mode]]
    /\ UNCHANGED <<opMode, menu, template, user, forms, draft, page, master, changes>>

-----------------------------------------------------------------------------
(* issueBatch *)

Working(j) == job[j].pc \in {"sent", "selected", "matched"}

JobOnly == UNCHANGED <<opMode, menu, template, user, draft, page, master, changes>>

\* loadIssuanceSelection and the identities to print: one zone and cell.
LoadSelection(j, place) ==
    /\ job[j].pc = "sent"
    /\ place.zone # Unset /\ job[j].batch \subseteq Roster(place)
    /\ job' = [job EXCEPT ![j].pc = "selected", ![j].place = place]
    /\ UNCHANGED forms /\ JobOnly

\* getActiveTemplates.
LoadTemplate(j, t) ==
    /\ job[j].pc = "selected" /\ job[j].template = 0
    /\ t \in Active(job[j].mode)
    /\ job' = [job EXCEPT ![j].template = t]
    /\ UNCHANGED forms /\ JobOnly

\* The catalogue, in a transaction of its own, then assertIssuable.
MatchCatalog(j) ==
    /\ job[j].pc = "selected" /\ job[j].template # 0
    /\ Fits(job[j].mode) /\ Matches(job[j].template)
    /\ job' = [job EXCEPT ![j].pc = "matched"]
    /\ UNCHANGED forms /\ JobOnly

\* A check fails, or the renderer, or the database.
IssueFails(j) ==
    /\ Working(j)
    /\ job' = [job EXCEPT ![j] = NoJob]
    /\ UNCHANGED forms /\ JobOnly

\* A form, with what is printed on it.
Issued(j, u) == [user |-> u, batch |-> NextBatch, template |-> job[j].template,
                 place |-> job[j].place, valid |-> TRUE]

\* The forms of a batch, in place of the valid ones of the same prisoners.
Issue(j) ==
    {IF f.user \in job[j].batch THEN [f EXCEPT !.valid = FALSE] ELSE f : f \in forms}
    \cup {Issued(j, u) : u \in job[j].batch}

\* Mutant: what was read before the renderer was called is not looked at again.
CommitStale(j) ==
    /\ job[j].pc = "matched"
    /\ \A u \in job[j].batch : user[u].active
    /\ forms' = Issue(j)
    /\ job' = [job EXCEPT ![j] = NoJob]
    /\ JobOnly

\* commitBatch: under the locks of prisoners, catalogue and template all of it
\* is as it was.  The geometry in the rendering is that of the template.
CommitBatch(j) ==
    /\ job[j].pc = "matched"
    /\ job[j].batch \subseteq Roster(job[j].place)
    /\ template[job[j].template].active /\ Matches(job[j].template)
    /\ forms' = Issue(j)
    /\ job' = [job EXCEPT ![j] = NoJob]
    /\ JobOnly

-----------------------------------------------------------------------------
(* Generic masters *)

NoMaster == [pc |-> "none", template |-> 0]

\* loadMaster: one request per mode, and what has come once is kept.
AskMaster(mode) ==
    /\ opMode = "generic" /\ Offered(mode) /\ master[mode] = NoMaster
    /\ master' = [master EXCEPT ![mode].pc = "asked"]
    /\ UNCHANGED <<opMode, menu, template, user, forms, draft, job, page, changes>>

\* getGenericMaster up to the renderer.
RenderMaster(mode, t) ==
    /\ master[mode].pc = "asked" /\ CellsTellUsersApart /\ t \in Active(mode)
    /\ master' = [master EXCEPT ![mode] = [pc |-> "rendered", template |-> t]]
    /\ UNCHANGED <<opMode, menu, template, user, forms, draft, job, page, changes>>

\* The template must still be the active one.
MasterComes(mode) ==
    /\ master[mode].pc = "rendered" /\ template[master[mode].template].active
    /\ master' = [master EXCEPT ![mode].pc = "shown"]
    /\ UNCHANGED <<opMode, menu, template, user, forms, draft, job, page, changes>>

\* A check fails, or the renderer, or the connection.
MasterFails(mode) ==
    /\ master[mode].pc \in {"asked", "rendered"}
    /\ master' = [master EXCEPT ![mode] = NoMaster]
    /\ UNCHANGED <<opMode, menu, template, user, forms, draft, job, page, changes>>

-----------------------------------------------------------------------------
\* Two items were added and nothing was printed yet.  In generic mode the server
\* starts only when cells tell the prisoners apart.
FormsInit ==
    /\ opMode \in {"issued", "generic"}
    /\ \E label \in Labels :
          menu = [i \in 1..2 |-> [status |-> "on", label |-> label, code |-> i,
                                  position |-> i - 1]]
    /\ template = <<>>
    /\ user \in [Users -> [active : {TRUE}, place : Places]]
    /\ opMode = "generic" => CellsTellUsersApart
    /\ forms = {}
    /\ draft = [a \in Admins |-> NoDraft]
    /\ job = [j \in Jobs |-> NoJob]
    /\ page = NoPage
    /\ master = [mode \in Modes |-> NoMaster]
    /\ changes = 0

MakeTemplates ==
    \E a \in Admins :
        \/ \E mode \in Modes : StartTemplate(a, mode)
        \/ TemplateFails(a)
        \/ Activate(a)

UsePage ==
    \/ OpenPage
    \/ \E place \in Places : ChoosePlace(place)
    \/ \E j \in Jobs, batch \in SUBSET Users, mode \in Modes : Send(j, batch, mode)

IssueBatch ==
    \E j \in Jobs :
        \/ \E place \in Places : LoadSelection(j, place)
        \/ \E t \in DOMAIN template : LoadTemplate(j, t)
        \/ MatchCatalog(j) \/ CommitBatch(j) \/ IssueFails(j)

PrintMasters ==
    \E mode \in Modes :
        \/ AskMaster(mode)
        \/ \E t \in DOMAIN template : RenderMaster(mode, t)
        \/ MasterComes(mode) \/ MasterFails(mode)

FormsNext ==
    \/ EditMenu \/ MakeTemplates \/ UsePage \/ IssueBatch \/ PrintMasters
    \/ \E u \in Users, active \in BOOLEAN, place \in Places : MoveUser(u, active, place)

FormsSpec == FormsInit /\ [][FormsNext]_formsVars

-----------------------------------------------------------------------------
(* Properties *)

\* Paper outlives the menu: what was printed from a template is what the
\* template stores, every item that was on the menu when the template was made
\* is kept with its code, label and position as long as there is paper, codes and
\* positions are never given twice, and a mode has one active template at most.
\* Generating a form races with edits of the menu; no test does both.
PrintedRowsStay ==
    /\ \A t \in DOMAIN template :
          /\ template[t].drawn = template[t].rows
          /\ \A row \in template[t].rows \cup template[t].known :
                row.item \in Kept /\ Row(row.item) = row
    /\ \A i, k \in Kept : i # k => menu[i].code # menu[k].code
    /\ {menu[i].position : i \in Kept} = 0..(Cardinality(Kept) - 1)
    /\ \A mode \in Modes : Cardinality(Active(mode)) <= 1

\* What a step that issues forms must keep to.
CurrentBatch ==
    LET new == {f \in forms' : f.batch \notin {g.batch : g \in forms}}
    IN  /\ \A f \in new :
              /\ user[f.user].active /\ user[f.user].place = f.place
              /\ f.place.zone # Unset
              /\ template[f.template].active
              /\ template[f.template].mode = "full_list" =>
                    template[f.template].rows = ActiveCatalog
              /\ \A g \in new : f.place = g.place
        /\ \A f, g \in forms' : f.valid /\ g.valid /\ f.user = g.user => f = g

\* A batch is issued whole and is true when it is: its prisoners are active and
\* where the paper says they are, all in one zone and cell; its template is the
\* active one and a printed list is the menu of that moment, however long the
\* renderer took; and no prisoner is left with two valid forms of one date.
BatchIsCurrent == [][CurrentBatch]_formsVars

-----------------------------------------------------------------------------
(* The inductive invariant: what the two properties rest on *)

MenuRows == [status : {"on", "off", "removed"}, label : Labels \cup {Unset},
             code : Nat, position : Nat]

PrintedRows == [item : Nat, code : Nat, label : Labels \cup {Unset}, position : Nat]

Templates == [mode : Modes, active : BOOLEAN, rows : SUBSET PrintedRows,
              drawn : SUBSET PrintedRows, known : SUBSET PrintedRows]

FormsTypeOK ==
    /\ menu \in Seq(MenuRows)
    /\ template \in Seq(Templates)
    /\ forms \subseteq [user : Users, batch : Nat, template : Nat,
                        place : Places \cup {Unset}, valid : BOOLEAN]
    /\ draft \in [Admins -> [mode : Modes \cup {Unset}, rows : SUBSET PrintedRows]]
    /\ \A a \in Admins : draft[a] # NoDraft => draft[a].mode \in Modes
    /\ job \in [Jobs -> [pc : {"idle", "sent", "selected", "matched"}, batch : SUBSET Users,
                         mode : Modes \cup {Unset}, place : Places \cup {Unset},
                         template : Nat]]

\* Codes and positions name one item each, and no code is beyond the items ever
\* added: what keeps the next code and the next position unused.
ItemsAreTold ==
    /\ \A i \in Kept : menu[i].code <= Len(menu)
    /\ \A i, k \in Kept : menu[i].position = menu[k].position => i = k

\* A job that has its prisoners has a zone; one at work has somebody to print for.
JobsArePlaced ==
    \A j \in Jobs :
        /\ job[j].pc \in {"selected", "matched"} => job[j].place.zone # Unset
        /\ job[j].pc # "idle" => job[j].batch # {}

\* The batches of the forms are numbered as they come.
BatchesAreNumbered == NextBatch \in Nat /\ {f.batch : f \in forms} = 1..(NextBatch - 1)

OneValidForm == \A f, g \in forms : f.valid /\ g.valid /\ f.user = g.user => f = g

FormsInvariant ==
    /\ FormsTypeOK /\ ItemsAreTold /\ JobsArePlaced /\ BatchesAreNumbered /\ OneValidForm
    /\ PrintedRowsStay
=============================================================================
