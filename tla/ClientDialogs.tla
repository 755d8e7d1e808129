----------------------------- MODULE ClientDialogs -----------------------------
(***************************************************************************)
(* The dialogs of the browser client: what the user types into one, what   *)
(* it asks before it is closed, what it sends and what an answer does to   *)
(* it.                                                                     *)
(*                                                                         *)
(* A page holds one dialog of a kind at a time.  All of them follow the    *)
(* same protocol and differ in a few rules, which one record per dialog    *)
(* states.  Answers arrive in any order, also after the dialog that sent   *)
(* the request was closed and another one was opened in its place.         *)
(***************************************************************************)
EXTENDS Naturals, FiniteSets

CONSTANTS
    MaxOpens, MaxSubmits   \* bounds: openings of a dialog, requests sent

(* The rules of a dialog:                                                   *)
(*   inputs   what the user can enter: fields, further lines, staged files, *)
(*            a choice among records                                        *)
(*   seen     the inputs its dirty check looks at                           *)
(*   guard    whether closing it dirty asks first                           *)
(*   frozen   whether inputs are disabled while a save is under way         *)
(*   again    whether a save can be started while one is under way          *)
(*   shut     whether it can be closed while a save is under way            *)
(*   creates  whether a save creates records                                *)
(*   files    what becomes of a file whose upload failed: the page tells    *)
(*            the user and the dialog closes, the dialog keeps it for a     *)
(*            retry, or the dialog drops it                                 *)
(*   then     what a save does to the page: it closes whatever dialog of    *)
(*            the kind is open, or only ends editing                        *)
Dialog == [inputs |-> {"fields"}, seen |-> {"fields"}, guard |-> TRUE, frozen |-> FALSE,
           again |-> FALSE, shut |-> TRUE, creates |-> FALSE, files |-> "told", then |-> "close"]

WithFiles == [Dialog EXCEPT !.inputs = {"fields", "files"}, !.seen = {"fields", "files"}]
WithLines == [Dialog EXCEPT !.inputs = {"fields", "lines", "files"},
                            !.seen = {"fields", "lines", "files"}, !.creates = TRUE]
Unguarded == [Dialog EXCEPT !.guard = FALSE, !.seen = {}]
Choosing == [Unguarded EXCEPT !.inputs = {"choice"}]

(* Staged files are left out of the dirty check.                            *)
BadSourcingItemModal == [WithLines EXCEPT !.seen = {"fields", "lines"}]

(* Procurement.                                                             *)
SourcingItemModal == WithLines
PendingOrderModal == [WithLines EXCEPT !.seen = {"fields", "files"}]
ConvertPendingOrderModal == [WithFiles EXCEPT !.creates = TRUE]
ConvertAllModal == [WithFiles EXCEPT !.creates = TRUE]
ConvertSourcingModal == [Dialog EXCEPT !.inputs = {"fields", "choice"}, !.seen = {"fields", "choice"},
                                       !.creates = TRUE]
SourcingRequestEditModal == WithFiles
MergeSourcingModal == [Dialog EXCEPT !.shut = FALSE]
WorkflowDocumentsModal == [Dialog EXCEPT !.inputs = {"files"}, !.seen = {"files"}, !.files = "dropped"]
TermSuccessorModal == [Choosing EXCEPT !.frozen = TRUE]
TermPredecessorsModal == [Choosing EXCEPT !.frozen = TRUE]

(* Licenses.                                                                *)
InvoiceConfirmModal == WithLines
FieldEditModal == [Dialog EXCEPT !.again = TRUE]
SecondaryContactsModal == [Dialog EXCEPT !.again = TRUE]
InvoiceNumbersModal == [Dialog EXCEPT !.again = TRUE]
MaintenanceCoverageModal == [Dialog EXCEPT !.inputs = {"fields", "choice"}, !.seen = {"fields", "choice"}]
MaintenanceCreateModal == [WithFiles EXCEPT !.frozen = TRUE, !.shut = FALSE, !.creates = TRUE,
                                            !.files = "kept"]
ExistingSuccessorModal == [Choosing EXCEPT !.frozen = TRUE]
LegacyMaintenanceLinkModal == Choosing
IncludedSupportModal == Unguarded
PoTotalOverrideModal == [Unguarded EXCEPT !.again = TRUE]

(* Contracts and settings.                                                  *)
ContractModal == [Dialog EXCEPT !.then = "stay"]
NewContractModal == [Unguarded EXCEPT !.creates = TRUE]
EmailTemplatesModal == Dialog
PasswordSection == [Unguarded EXCEPT !.then = "stay"]
PluginInstallModal == [Choosing EXCEPT !.frozen = TRUE, !.creates = TRUE]
PortfolioResetSection == [Unguarded EXCEPT !.frozen = TRUE, !.shut = FALSE]

(* Dialogs with the same rules are one here.                                *)
Rules ==
    {SourcingItemModal, PendingOrderModal, ConvertPendingOrderModal, ConvertAllModal,
     ConvertSourcingModal, SourcingRequestEditModal, MergeSourcingModal, WorkflowDocumentsModal,
     TermSuccessorModal, TermPredecessorsModal, InvoiceConfirmModal, FieldEditModal,
     SecondaryContactsModal, InvoiceNumbersModal, MaintenanceCoverageModal, MaintenanceCreateModal,
     ExistingSuccessorModal, LegacyMaintenanceLinkModal, IncludedSupportModal, PoTotalOverrideModal,
     ContractModal, NewContractModal, EmailTemplatesModal, PasswordSection, PluginInstallModal,
     PortfolioResetSection}

VARIABLES
    rule,      \* the dialog this user works with
    open,      \* the opening that is on screen, 0 for none
    typed,     \* inputs of that opening with something not saved
    fresh,     \* of those, the ones touched since the last save was started
    saving,    \* whether it shows a save under way
    asking,    \* whether it asks about discarding
    stored,    \* whether it remembers the record it created
    opens, submits, \* counters of the bounds
    requests,  \* saves under way
    created,   \* history: records created, by opening
    lost       \* history: what input disappeared, and how

dvars == <<rule, open, typed, fresh, saving, asking, stored, opens, submits, requests, created, lost>>

Init ==
    /\ rule \in Rules /\ open = 0 /\ typed = {} /\ fresh = {}
    /\ saving = FALSE /\ asking = FALSE /\ stored = FALSE /\ opens = 0 /\ submits = 0
    /\ requests = {} /\ created = [o \in 1..MaxOpens |-> 0] /\ lost = {}

Vanish(inputs, how) == lost' = lost \union {[input |-> i, how |-> how] : i \in inputs}

(* The dialog leaves the screen, with its state.                            *)
Dismissed == open' = 0 /\ typed' = {} /\ fresh' = {} /\ saving' = FALSE /\ asking' = FALSE /\ stored' = FALSE

-----------------------------------------------------------------------------
(* The user.                                                                *)

OpenDialog ==
    /\ open = 0 /\ opens < MaxOpens
    /\ opens' = opens + 1 /\ open' = opens + 1
    /\ UNCHANGED <<rule, typed, fresh, saving, asking, stored, submits, requests, created, lost>>

(* A record that was created already leaves only its files to be changed.   *)
Type(i) ==
    /\ open # 0 /\ ~asking /\ i \in rule.inputs
    /\ ~(saving /\ rule.frozen) /\ (stored => i = "files")
    /\ typed' = typed \union {i} /\ fresh' = fresh \union {i}
    /\ UNCHANGED <<rule, open, saving, asking, stored, opens, submits, requests, created, lost>>

(* The guard compares what is typed with what was there.                    *)
Dirty == rule.seen \intersect typed # {}

(* The close button, a click beside the dialog and Escape ask the guard;    *)
(* the cancel button does too, but only while no save is under way.         *)
CloseDialog ==
    /\ open # 0 /\ ~asking /\ (saving => rule.shut)
    /\ IF rule.guard /\ Dirty
       THEN asking' = TRUE /\ UNCHANGED <<open, typed, fresh, saving, stored, lost>>
       ELSE Dismissed /\ Vanish(typed, "closed")
    /\ UNCHANGED <<rule, opens, submits, requests, created>>

KeepEditing ==
    /\ asking /\ asking' = FALSE
    /\ UNCHANGED <<rule, open, typed, fresh, saving, stored, opens, submits, requests, created, lost>>

Discard ==
    /\ asking /\ Dismissed /\ Vanish(typed, "discarded")
    /\ UNCHANGED <<rule, opens, submits, requests, created>>

(* Saving sends what is typed; a dialog that remembers the record it        *)
(* created sends only the files that are left.                              *)
Submit ==
    /\ open # 0 /\ ~asking /\ typed # {} /\ submits < MaxSubmits
    /\ saving => rule.again
    /\ saving' = TRUE /\ fresh' = {} /\ submits' = submits + 1
    /\ requests' = requests \union
         {[id |-> submits, from |-> open, inputs |-> typed, create |-> rule.creates /\ ~stored,
           state |-> "sent"]}
    /\ UNCHANGED <<rule, open, typed, asking, stored, opens, created, lost>>

-----------------------------------------------------------------------------
(* The server.                                                              *)

(* The record is written, or the request is refused; a record that needs no *)
(* writing again goes straight to its files.  Any of the files may fail.    *)
Handle(q) ==
    /\ q.state = "sent"
    /\ \E result \in {"done", "failed", "filesFailed"} :
        /\ result = "filesFailed" => "files" \in q.inputs
        /\ result = "failed" => q.create \/ q.inputs # {"files"}
        /\ requests' = (requests \ {q}) \union {[q EXCEPT !.state = result]}
        /\ created' = IF q.create /\ result # "failed"
                      THEN [created EXCEPT ![q.from] = @ + 1] ELSE created
    /\ UNCHANGED <<rule, open, typed, fresh, saving, asking, stored, opens, submits, lost>>

-----------------------------------------------------------------------------
(* Answers.                                                                 *)

(* What the page's callback closes: the dialog on screen, whichever opening *)
(* of it sent the request; input typed since the save was started goes with *)
(* it.                                                                      *)
CloseWhatIsOpen(q) ==
    Dismissed /\ IF q.from = open THEN Vanish(fresh, "overtaken") ELSE Vanish(typed, "late")

AnswerDone(q) ==
    IF rule.then = "stay"
    THEN /\ lost' = lost
         /\ IF q.from # open THEN UNCHANGED <<open, typed, fresh, saving, asking, stored>>
            ELSE /\ typed' = {} /\ fresh' = {} /\ saving' = FALSE /\ asking' = FALSE
                 /\ UNCHANGED <<open, stored>>
    ELSE CloseWhatIsOpen(q)

(* An error is shown and the input stays.                                   *)
AnswerFailed(q) ==
    /\ saving' = (saving /\ q.from # open)
    /\ UNCHANGED <<open, typed, fresh, asking, stored, lost>>

(* A record with files that did not arrive.                                 *)
AnswerFilesFailed(q) ==
    \/ rule.files = "told" /\ CloseWhatIsOpen(q)
    \/ /\ rule.files = "kept" /\ q.from = open
       /\ typed' = {"files"} /\ fresh' = {} /\ stored' = TRUE /\ saving' = FALSE
       /\ UNCHANGED <<open, asking, lost>>
    \/ /\ rule.files = "dropped" /\ q.from = open
       /\ typed' = {} /\ fresh' = {} /\ saving' = FALSE /\ Vanish({"files"}, "dropped")
       /\ UNCHANGED <<open, asking, stored>>
    \/ /\ rule.files = "dropped" /\ q.from # open
       /\ UNCHANGED <<open, typed, fresh, saving, asking, stored, lost>>

Answer(q) ==
    /\ requests' = requests \ {q}
    /\ \/ q.state = "done" /\ AnswerDone(q)
       \/ q.state = "failed" /\ AnswerFailed(q)
       \/ q.state = "filesFailed" /\ AnswerFilesFailed(q)
    /\ UNCHANGED <<rule, opens, submits, created>>

Next ==
    \/ OpenDialog \/ CloseDialog \/ KeepEditing \/ Discard \/ Submit
    \/ \E i \in {"fields", "lines", "files", "choice"} : Type(i)
    \/ \E q \in requests : Handle(q) \/ Answer(q)

Spec == Init /\ [][Next]_dvars

-----------------------------------------------------------------------------
(* Properties.                                                              *)

(* A save is shown only by a dialog that is open and has one under way, and *)
(* what is asked about or touched is in a dialog that is open.              *)
TypeOK ==
    /\ rule \in Rules /\ open \in 0..MaxOpens /\ opens \in 0..MaxOpens
    /\ fresh \subseteq typed /\ typed \subseteq rule.inputs
    /\ open = 0 => typed = {} /\ ~saving /\ ~asking /\ ~stored
    /\ saving => \E q \in requests : q.from = open
    /\ submits \in 0..MaxSubmits
    /\ \A q \in requests : q.inputs \subseteq rule.inputs /\ q.from \in 1..opens

(* The inputs a dirty check does not look at: the lines of a new order.     *)
Blind == IF rule = PendingOrderModal THEN {"lines"} ELSE {}

(* A guarded dialog is never closed over what was typed into it without     *)
(* asking, whatever combination of fields, lines, files and choices that is *)
(* and whatever save is under way or has failed; except for Blind.          *)
ClosingAsks ==
    \A l \in lost : l.how = "closed" => ~rule.guard \/ l.input \in Blind

(* One opening of a dialog creates its record once, however often saving is *)
(* repeated: while a save is under way, after uploads that failed, or with  *)
(* files added afterwards.                                                  *)
CreatesOnce == \A o \in 1..MaxOpens : created[o] <= 1

=============================================================================
