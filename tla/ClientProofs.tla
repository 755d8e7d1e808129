------------------------------ MODULE ClientProofs ------------------------------
(***************************************************************************)
(* What the areas of the browser client promise, for any number of records, *)
(* requests, openings and edits.  Areas share no state, so each has an      *)
(* invariant of its own, kept by the steps of that area.                    *)
(***************************************************************************)
EXTENDS MCClient, Sequences, TLAPS

-----------------------------------------------------------------------------
(* Dialogs. *)

SaveRequests ==
    [id : Nat, from : 1..MaxOpens, inputs : SUBSET manners.inputs, create : BOOLEAN,
     state : {"sent", "done", "failed", "filesFailed"}]

DialogTypes ==
    /\ manners \in D!Rules
    /\ opens \in 0..MaxOpens /\ open \in 0..opens /\ submits \in Nat
    /\ typed \subseteq manners.inputs
    /\ posts \subseteq SaveRequests /\ \A p \in posts : p.from <= opens
    /\ created \in [1..MaxOpens -> Nat]

(* An opening that creates has one save under way at a time, and shows it.  *)
OneSaveAtATime ==
    manners.creates =>
        /\ \A p \in posts : p.from = open => busy
        /\ \A p, q \in posts : p.from = q.from => p = q

(* A save that is to create a record and was not handled is the first to;   *)
(* an opening on screen that created its record remembers it or is about to *)
(* hear so.                                                                 *)
CreationIsKnown ==
    /\ \A p \in posts : p.create => manners.creates
    /\ \A p \in posts : p.create /\ p.state = "sent" => created[p.from] = 0
    /\ \A o \in 1..MaxOpens : o > opens \/ ~manners.creates => created[o] = 0
    /\ open # 0 /\ created[open] # 0 =>
          known \/ \E p \in posts : p.from = open /\ p.state \in {"done", "filesFailed"}

DialogInv ==
    /\ DialogTypes
    /\ OneSaveAtATime
    /\ CreationIsKnown
    /\ D!ClosingAsks
    /\ D!CreatesOnce

(* A dialog that creates saves once at a time and closes with its record    *)
(* unless it keeps the files; the dirty check of a guarded dialog sees all  *)
(* but the lines of a new order.                                            *)
LEMMA DialogRules ==
    ASSUME NEW r \in D!Rules
    PROVE  /\ r.creates => ~r.again /\ r.then = "close" /\ r.files \in {"told", "kept"}
           /\ r.files \in {"kept", "dropped"} => "files" \in r.inputs
           /\ r.guard => r.inputs \ r.seen \subseteq (IF r = D!PendingOrderModal THEN {"lines"} ELSE {})
           /\ {r.creates, r.guard, r.again, r.shut, r.frozen} \subseteq BOOLEAN
<1> USE DEF D!Dialog, D!WithFiles, D!WithLines, D!Unguarded, D!Choosing
<1>1. CASE r \in {D!SourcingItemModal, D!PendingOrderModal, D!InvoiceConfirmModal}
  BY <1>1 DEF D!SourcingItemModal, D!PendingOrderModal, D!InvoiceConfirmModal
<1>2. CASE r \in {D!ConvertPendingOrderModal, D!ConvertAllModal}
  BY <1>2 DEF D!ConvertPendingOrderModal, D!ConvertAllModal, D!PendingOrderModal
<1>3. CASE r = D!ConvertSourcingModal
  BY <1>3 DEF D!ConvertSourcingModal, D!PendingOrderModal
<1>4. CASE r = D!NewContractModal
  BY <1>4 DEF D!NewContractModal, D!PendingOrderModal
<1>13. CASE r = D!PluginInstallModal
  BY <1>13 DEF D!PluginInstallModal, D!PendingOrderModal
<1>14. CASE r = D!MaintenanceCreateModal
  BY <1>14 DEF D!MaintenanceCreateModal, D!PendingOrderModal
<1>5. CASE r \in {D!SourcingRequestEditModal, D!MergeSourcingModal,
                   D!WorkflowDocumentsModal}
  BY <1>5 DEF D!SourcingRequestEditModal, D!MergeSourcingModal,
               D!WorkflowDocumentsModal, D!PendingOrderModal
<1>6. CASE r \in {D!FieldEditModal, D!SecondaryContactsModal, D!InvoiceNumbersModal}
  BY <1>6 DEF D!FieldEditModal, D!SecondaryContactsModal, D!InvoiceNumbersModal,
               D!PendingOrderModal
<1>7. CASE r = D!MaintenanceCoverageModal
  BY <1>7 DEF D!MaintenanceCoverageModal, D!PendingOrderModal
<1>8. CASE r = D!ContractModal
  BY <1>8 DEF D!ContractModal, D!PendingOrderModal
<1>12. CASE r = D!EmailTemplatesModal
  BY <1>12 DEF D!EmailTemplatesModal, D!PendingOrderModal
<1>9. CASE r \in {D!TermSuccessorModal, D!TermPredecessorsModal,
                   D!ExistingSuccessorModal}
  BY <1>9 DEF D!TermSuccessorModal, D!TermPredecessorsModal,
               D!ExistingSuccessorModal, D!PendingOrderModal
<1>10. CASE r \in {D!LegacyMaintenanceLinkModal, D!IncludedSupportModal,
                   D!PoTotalOverrideModal}
  BY <1>10 DEF D!LegacyMaintenanceLinkModal, D!IncludedSupportModal,
               D!PoTotalOverrideModal, D!PendingOrderModal
<1>11. CASE r \in {D!PasswordSection, D!PortfolioResetSection}
  BY <1>11 DEF D!PasswordSection, D!PortfolioResetSection, D!PendingOrderModal
<1> QED
  BY <1>1, <1>2, <1>3, <1>4, <1>5, <1>6, <1>7, <1>8, <1>9, <1>10, <1>11, <1>12,
     <1>13, <1>14 DEF D!Rules

(* Invariant of the dialogs, one action at a time. *)
LEMMA DialogStep ==
    ASSUME DialogInv, D!Next
    PROVE  DialogInv'
<1> USE DEF DialogInv
<1>0. /\ MaxOpens \in Nat /\ MaxSubmits \in Nat
      /\ manners.creates => ~manners.again /\ manners.then = "close" /\ manners.files \in {"told", "kept"}
      /\ manners.files \in {"kept", "dropped"} => "files" \in manners.inputs
      /\ manners.guard => manners.inputs \ manners.seen \subseteq D!Blind
      /\ {manners.creates, manners.guard, manners.again, manners.shut, manners.frozen} \subseteq BOOLEAN
  BY DialogRules, BoundsAssumption DEF D!Blind, DialogTypes
<1>T. /\ opens \in 0..MaxOpens /\ open \in 0..opens /\ submits \in Nat
      /\ typed \subseteq manners.inputs
      /\ \A p \in posts :
            /\ p.id \in Nat /\ p.from \in 1..MaxOpens /\ p.from <= opens
            /\ p.inputs \subseteq manners.inputs /\ p.create \in BOOLEAN
            /\ p.state \in {"sent", "done", "failed", "filesFailed"}
      /\ created \in [1..MaxOpens -> Nat]
  BY DEF DialogTypes, SaveRequests
<1>1. CASE D!OpenDialog
  <2> USE <1>0, <1>1 DEF D!OpenDialog
  <2>1. DialogTypes'
    BY <1>T DEF DialogTypes, SaveRequests
  <2>2. OneSaveAtATime'
    BY <1>T DEF OneSaveAtATime
  <2>3. CreationIsKnown'
    BY <1>T DEF CreationIsKnown, OneSaveAtATime
  <2>4. D!ClosingAsks' /\ D!CreatesOnce'
    BY <1>T DEF D!ClosingAsks, D!Blind, D!CreatesOnce
  <2> QED
    BY <2>1, <2>2, <2>3, <2>4
<1>2. ASSUME NEW i, D!Type(i)
      PROVE  DialogInv'
  <2> USE <1>0, <1>2 DEF D!Type
  <2>1. DialogTypes'
    BY <1>T DEF DialogTypes, SaveRequests
  <2>2. OneSaveAtATime'
    BY <1>T DEF OneSaveAtATime
  <2>3. CreationIsKnown'
    BY <1>T DEF CreationIsKnown, OneSaveAtATime
  <2>4. D!ClosingAsks' /\ D!CreatesOnce'
    BY <1>T DEF D!ClosingAsks, D!Blind, D!CreatesOnce
  <2> QED
    BY <2>1, <2>2, <2>3, <2>4
<1>3. CASE D!CloseDialog
  <2> USE <1>0, <1>3 DEF D!CloseDialog, D!Dismissed, D!Vanish, D!Dirty
  <2>1. DialogTypes'
    BY <1>T DEF DialogTypes, SaveRequests
  <2>2. OneSaveAtATime'
    BY <1>T DEF OneSaveAtATime
  <2>3. CreationIsKnown'
    BY <1>T DEF CreationIsKnown, OneSaveAtATime
  <2>4. D!ClosingAsks' /\ D!CreatesOnce'
    BY <1>T DEF D!ClosingAsks, D!Blind, D!CreatesOnce
  <2> QED
    BY <2>1, <2>2, <2>3, <2>4
<1>4. CASE D!KeepEditing
  <2> USE <1>0, <1>4 DEF D!KeepEditing
  <2>1. DialogTypes'
    BY <1>T DEF DialogTypes, SaveRequests
  <2>2. OneSaveAtATime'
    BY <1>T DEF OneSaveAtATime
  <2>3. CreationIsKnown'
    BY <1>T DEF CreationIsKnown, OneSaveAtATime
  <2>4. D!ClosingAsks' /\ D!CreatesOnce'
    BY <1>T DEF D!ClosingAsks, D!Blind, D!CreatesOnce
  <2> QED
    BY <2>1, <2>2, <2>3, <2>4
<1>5. CASE D!Discard
  <2> USE <1>0, <1>5 DEF D!Discard, D!Dismissed, D!Vanish
  <2>1. DialogTypes'
    BY <1>T DEF DialogTypes, SaveRequests
  <2>2. OneSaveAtATime'
    BY <1>T DEF OneSaveAtATime
  <2>3. CreationIsKnown'
    BY <1>T DEF CreationIsKnown, OneSaveAtATime
  <2>4. D!ClosingAsks' /\ D!CreatesOnce'
    BY <1>T DEF D!ClosingAsks, D!Blind, D!CreatesOnce
  <2> QED
    BY <2>1, <2>2, <2>3, <2>4
<1>6. CASE D!Submit
  <2> DEFINE r == [id |-> submits, from |-> open, inputs |-> typed,
                   create |-> manners.creates /\ ~known, state |-> "sent"]
  <2>0. /\ open \in 1..MaxOpens /\ open <= opens /\ busy' /\ (busy => manners.again)
        /\ r \in SaveRequests /\ posts' = posts \union {r} /\ submits' \in Nat
        /\ UNCHANGED <<manners, open, typed, known, opens, created, lost>>
    BY <1>0, <1>6, <1>T DEF D!Submit, SaveRequests
  <2>1. DialogTypes'
    BY <1>0, <1>T, <2>0 DEF DialogTypes, SaveRequests
  <2>2. OneSaveAtATime'
    BY <1>0, <1>T, <2>0 DEF OneSaveAtATime
  <2>3. manners.creates /\ ~known => created[open] = 0
    BY <1>0, <1>T, <2>0 DEF CreationIsKnown, OneSaveAtATime
  <2>4. CreationIsKnown'
    BY <1>0, <1>T, <2>0, <2>3 DEF CreationIsKnown
  <2>5. D!ClosingAsks' /\ D!CreatesOnce'
    BY <2>0 DEF D!ClosingAsks, D!Blind, D!CreatesOnce
  <2> QED
    BY <2>1, <2>2, <2>4, <2>5
<1>7. ASSUME NEW q \in posts, D!Handle(q)
      PROVE  DialogInv'
  <2>1. PICK result \in {"done", "failed", "filesFailed"} :
          /\ posts' = (posts \ {q}) \union {[q EXCEPT !.state = result]}
          /\ created' = IF q.create /\ result # "failed"
                         THEN [created EXCEPT ![q.from] = @ + 1] ELSE created
    BY <1>7 DEF D!Handle
  <2> DEFINE r == [q EXCEPT !.state = result]
  <2>2. /\ posts' = (posts \ {q}) \union {r}
        /\ r \in SaveRequests /\ r.from = q.from /\ r.create = q.create /\ r.state = result
        /\ q.state = "sent" /\ q \in SaveRequests
        /\ UNCHANGED <<manners, open, typed, busy, known, opens, submits, lost>>
    BY <1>7, <2>1 DEF D!Handle, DialogTypes, SaveRequests
  <2> HIDE DEF r
  <2>3. created' \in [1..MaxOpens -> Nat]
    BY <1>T, <2>1, <2>2
  <2>4. DialogTypes'
    BY <1>0, <1>T, <2>1, <2>2, <2>3 DEF DialogTypes, SaveRequests
  <2>5. OneSaveAtATime'
    BY <1>T, <2>1, <2>2 DEF OneSaveAtATime
  <2>6. q.create => manners.creates /\ created[q.from] = 0
    BY <2>2 DEF CreationIsKnown
  <2>7. CreationIsKnown'
    BY <1>T, <2>1, <2>2, <2>6 DEF CreationIsKnown, OneSaveAtATime
  <2>8. D!ClosingAsks' /\ D!CreatesOnce'
    BY <1>T, <2>1, <2>2, <2>6 DEF D!ClosingAsks, D!Blind, D!CreatesOnce
  <2> QED
    BY <2>4, <2>5, <2>7, <2>8
<1>8. ASSUME NEW q \in posts, D!Answer(q)
      PROVE  DialogInv'
  <2>1. /\ posts' = posts \ {q} /\ UNCHANGED <<manners, opens, submits, created>>
        /\ \/ /\ q.state = "failed" \/ q.from # open
              /\ UNCHANGED <<open, typed>>
              /\ busy /\ q.from # open => busy'
              /\ known => known'
           \/ open' = 0 /\ typed' = {}
           \/ UNCHANGED open /\ typed' \subseteq manners.inputs /\ q.from = open /\ known'
           \/ UNCHANGED open /\ typed' \subseteq manners.inputs /\ ~manners.creates
        /\ \A l \in lost' : l \in lost \/ l.how # "closed"
    BY <1>0, <1>8, <1>T DEF D!Answer, D!AnswerDone, D!AnswerFailed, D!AnswerFilesFailed,
                            D!Dismissed, D!Vanish, D!CloseWhatIsOpen
  <2>2. DialogTypes'
    BY <1>0, <1>T, <2>1 DEF DialogTypes, SaveRequests
  <2>3. OneSaveAtATime'
    <3>1. SUFFICES ASSUME manners.creates
                   PROVE  OneSaveAtATime'
      BY <2>1 DEF OneSaveAtATime
    <3> QED
      BY <1>T, <2>1, <3>1 DEF OneSaveAtATime
  <2>4. CreationIsKnown'
    <3>1. open' # 0 /\ created'[open'] # 0 => open = open' /\ manners.creates
      <4>1. open' # 0 => open = open' /\ open \in 1..MaxOpens
        BY <1>0, <1>T, <2>1
      <4>2. created[open] # 0 /\ open \in 1..MaxOpens => manners.creates
        BY DEF CreationIsKnown
      <4> QED
        BY <2>1, <4>1, <4>2
    <3>2. ASSUME open' # 0, created'[open'] # 0, ~known'
          PROVE  \E p \in posts' : p.from = open' /\ p.state \in {"done", "filesFailed"}
      <4>1. PICK p \in posts : p.from = open /\ p.state \in {"done", "filesFailed"}
        BY <2>1, <3>1, <3>2 DEF CreationIsKnown
      <4>2. p # q
        BY <2>1, <3>1, <3>2, <4>1
      <4> QED
        BY <2>1, <3>1, <3>2, <4>1, <4>2
    <3> QED
      BY <1>T, <2>1, <3>2 DEF CreationIsKnown
  <2>5. D!ClosingAsks' /\ D!CreatesOnce'
    BY <2>1 DEF D!ClosingAsks, D!Blind, D!CreatesOnce
  <2> QED
    BY <2>2, <2>3, <2>4, <2>5
<1> QED
  BY <1>1, <1>2, <1>3, <1>4, <1>5, <1>6, <1>7, <1>8 DEF D!Next

-----------------------------------------------------------------------------
(* Import. *)

Previews == [number : Nat, file : Files \union {I!NoOne}, updates : BOOLEAN, way : I!Ways, mapping : Nat]
ImportRequests(states) ==
    [kind : {"analyze", "preview", "import"}, number : Nat, file : Files \union {I!NoOne},
     updates : BOOLEAN, way : I!Ways, mapping : Nat, shown : Previews, astray : BOOLEAN, state : states]

ImportTypes ==
    /\ step \in {"upload", "mapping", "preview", "importing", "done"}
    /\ source \in I!Ways /\ file \in Files \union {I!NoOne}
    /\ analyzed \in BOOLEAN /\ mapping \in Nat /\ mappings \in Nat
    /\ updating \in [I!Ways -> BOOLEAN]
    /\ preview \in Previews /\ sends \in Nat /\ astray \in BOOLEAN
    /\ uploads \subseteq ImportRequests({"sent", "done", "failed"})
    /\ imports \subseteq ImportRequests({"done", "lost"})

(* Who waits for each answer has one request under way.                     *)
PatienceIsKnown ==
    /\ \A p, q \in uploads : ~p.astray /\ ~q.astray => p = q
    /\ ~astray => \A p \in uploads : ~p.astray

(* A preview on screen was answered: its number is that of no request under *)
(* way, nor is the number of a preview that was or is to be imported.       *)
NumbersAreUnique ==
    /\ preview.number <= sends
    /\ \A q \in uploads :
          /\ 1 <= q.number /\ q.number <= sends /\ q.shown.number <= sends
          /\ q.number # preview.number
          /\ \A p \in uploads : p.number = q.number => p = q
          /\ \A p \in uploads : p.shown.number # q.number
          /\ \A i \in imports : i.shown.number # q.number
    /\ \A i \in imports : i.shown.number <= sends

(* What confirming would send.                                              *)
Confirmed ==
    IF source = "external" /\ analyzed
    THEN [file |-> file, updates |-> updating["external"], way |-> "external", mapping |-> mapping]
    ELSE [file |-> file, updates |-> updating["standard"], way |-> "standard", mapping |-> 0]

(* A preview was not imported yet, but for imports whose answer was lost.   *)
NotImported(p) == \A i \in imports : i.shown = p => i.state = "lost"

(* The answer a patient user waits for fits what the page holds.            *)
AnswersFit ==
    ~astray => \A q \in uploads :
        /\ q.kind = "analyze" => step = "upload" /\ source = "external"
        /\ q.kind = "preview" =>
              /\ step # "importing" /\ q.file = file /\ file # I!NoOne
              /\ q.way = "external" <=> source = "external" /\ analyzed
              /\ q.way = "external" => q.updates = updating["external"] /\ q.mapping = mapping
              /\ q.way = "standard" => q.mapping = 0
        /\ q.kind = "import" =>
              /\ step = "importing" /\ q.shown = preview
              /\ file # I!NoOne /\ I!Asked(q) = Confirmed /\ I!Asked(preview) = Confirmed

(* A patient user on the preview confirms what is on it, for the first time.*)
PreviewIsConfirmed ==
    ~astray =>
        /\ step = "mapping" => source = "external" /\ analyzed
        /\ step = "preview" /\ uploads = {} =>
              file # I!NoOne /\ I!Asked(preview) = Confirmed /\ NotImported(preview)

(* So does an import under way.                                             *)
ImportsAsShown ==
    \A q \in uploads :
        q.kind = "import" /\ ~q.astray =>
            I!Asked(q) = I!Asked(q.shown) /\ (q.state # "done" => NotImported(q.shown))

ImportInv ==
    /\ ImportTypes
    /\ PatienceIsKnown
    /\ NumbersAreUnique
    /\ AnswersFit
    /\ PreviewIsConfirmed
    /\ ImportsAsShown
    /\ I!PatientImports

(* A request that is sent has what it was sent with.                        *)
LEMMA SentImport ==
    ASSUME ImportTypes,
           NEW kind \in {"analyze", "preview", "import"}, NEW f \in Files \union {I!NoOne}, NEW updates \in BOOLEAN,
           NEW way \in I!Ways, NEW m \in Nat, I!Send(kind, f, updates, way, m)
    PROVE  /\ sends' = sends + 1
           /\ \E r \in ImportRequests({"sent", "done", "failed"}) :
                 /\ uploads' = uploads \union {r}
                 /\ r.kind = kind /\ r.number = sends + 1 /\ r.state = "sent"
                 /\ I!Asked(r) = [file |-> f, updates |-> updates, way |-> way, mapping |-> m]
                 /\ r.file = f /\ r.updates = updates /\ r.way = way /\ r.mapping = m
                 /\ r.shown = IF kind = "import" THEN preview ELSE I!NoPreview
                 /\ r.astray <=> astray \/ uploads # {}
<1> DEFINE r == [kind |-> kind, number |-> sends + 1, file |-> f, updates |-> updates, way |-> way,
                 mapping |-> m, shown |-> IF kind = "import" THEN preview ELSE I!NoPreview,
                 astray |-> astray \/ uploads # {}, state |-> "sent"]
<1>1. I!NoPreview \in Previews
  BY DEF I!NoPreview, Previews, I!Ways
<1>2. r \in ImportRequests({"sent", "done", "failed"})
  BY <1>1 DEF ImportTypes, ImportRequests
<1> QED
  BY <1>2 DEF I!Send, I!Asked

(* What a record of the types above has.                                    *)
LEMMA ImportFields ==
    ASSUME ImportTypes
    PROVE  /\ \A q \in uploads :
                 /\ q.kind \in {"analyze", "preview", "import"} /\ q.number \in Nat
                 /\ q.updates \in BOOLEAN /\ q.way \in I!Ways /\ q.mapping \in Nat
                 /\ q.shown \in Previews /\ q.shown.number \in Nat /\ q.astray \in BOOLEAN
                 /\ q.state \in {"sent", "done", "failed"}
           /\ \A i \in imports : i.shown.number \in Nat /\ i.state \in {"done", "lost"}
           /\ preview.number \in Nat
  BY DEF ImportTypes, ImportRequests, Previews

(* A user who does something without sending a request.                     *)
LEMMA UserGoesOn ==
    ASSUME ImportInv, I!UserActs, ImportTypes',
           UNCHANGED <<step, file, analyzed, preview, sends, uploads, imports>>,
           \/ astray'
           \/ step = "mapping" /\ UNCHANGED source
           \/ step = "upload"
           \/ UNCHANGED <<Confirmed, source>>
    PROVE  ImportInv'
<1> USE ImportFields DEF ImportInv, I!UserActs
<1>1. ~astray' => ~astray /\ uploads = {}
  BY DEF ImportTypes
<1>2. PatienceIsKnown' /\ NumbersAreUnique' /\ ImportsAsShown' /\ I!PatientImports'
  BY <1>1 DEF PatienceIsKnown, NumbersAreUnique, ImportsAsShown, NotImported, I!PatientImports, I!Asked
<1>3. AnswersFit' /\ PreviewIsConfirmed'
  BY <1>1 DEF AnswersFit, PreviewIsConfirmed, NotImported, I!Asked
<1> QED
  BY <1>2, <1>3

(* What a patient user sends fits what the page holds then.                 *)
FitsWhenSent(r) ==
    /\ r.kind = "analyze" => step' = "upload" /\ source' = "external"
    /\ r.kind = "preview" =>
          /\ step' # "importing" /\ r.file = file' /\ file' # I!NoOne
          /\ r.way = "external" <=> source' = "external" /\ analyzed'
          /\ r.way = "external" => r.updates = updating'["external"] /\ r.mapping = mapping'
          /\ r.way = "standard" => r.mapping = 0
    /\ r.kind = "import" =>
          /\ step = "preview" /\ step' = "importing" /\ UNCHANGED <<file, Confirmed>>
          /\ I!Asked(r) = Confirmed
    /\ step' = "mapping" => step = "mapping" /\ UNCHANGED <<source, analyzed>>

LEMMA UserSends ==
    ASSUME ImportInv, ImportTypes', UNCHANGED <<preview, imports>>, sends' = sends + 1,
           astray' <=> astray \/ uploads # {},
           NEW r \in ImportRequests({"sent", "done", "failed"}), uploads' = uploads \union {r},
           r.number = sends + 1, r.astray <=> astray',
           r.shown = IF r.kind = "import" THEN preview ELSE I!NoPreview,
           ~astray' => FitsWhenSent(r)
    PROVE  ImportInv'
<1> USE DEF ImportInv, FitsWhenSent
<1>1. /\ ~astray' => ~astray /\ uploads = {} /\ uploads' = {r}
      /\ r.number \in Nat /\ r.shown.number \in Nat /\ r.shown.number <= sends /\ r.astray \in BOOLEAN
  BY DEF ImportTypes, ImportRequests, NumbersAreUnique, Previews, I!NoPreview
<1>2. PatienceIsKnown'
  BY <1>1, ImportFields DEF PatienceIsKnown
<1>3. NumbersAreUnique'
  BY <1>1, ImportFields DEF NumbersAreUnique, ImportTypes, I!NoPreview
<1>4. r.kind = "import" /\ ~r.astray =>
        /\ I!Asked(r) = I!Asked(r.shown) /\ NotImported(r.shown)
        /\ file # I!NoOne /\ I!Asked(preview) = Confirmed
  BY <1>1 DEF PreviewIsConfirmed
<1>5. AnswersFit'
  BY <1>1, <1>4 DEF AnswersFit, I!Asked
<1>6. PreviewIsConfirmed'
  BY <1>1 DEF PreviewIsConfirmed
<1>7. ImportsAsShown'
  BY <1>4 DEF ImportsAsShown, NotImported, I!Asked
<1>8. I!PatientImports'
  BY DEF I!PatientImports, I!Asked
<1> QED
  BY <1>2, <1>3, <1>5, <1>6, <1>7, <1>8

(* Only the state of a request changes when it is handled.                  *)
LEMMA WithState ==
    ASSUME NEW before, NEW after, NEW q \in ImportRequests(before), NEW t \in after
    PROVE  \E n \in ImportRequests(after) :
              /\ n = [q EXCEPT !.state = t] /\ n.state = t
              /\ n.shown = q.shown /\ I!Asked(n) = I!Asked(q)
              /\ n.kind = q.kind /\ n.number = q.number /\ n.astray = q.astray
              /\ n.file = q.file /\ n.updates = q.updates /\ n.way = q.way /\ n.mapping = q.mapping
<1> DEFINE n == [q EXCEPT !.state = t]
<1>1. /\ n \in ImportRequests(after) /\ n.state = t
      /\ n.shown = q.shown /\ I!Asked(n) = I!Asked(q)
      /\ n.kind = q.kind /\ n.number = q.number /\ n.astray = q.astray
      /\ n.file = q.file /\ n.updates = q.updates /\ n.way = q.way /\ n.mapping = q.mapping
  BY DEF ImportRequests, I!Asked
<1> QED
  BY <1>1

(* Invariant of the import, one action at a time.                           *)
LEMMA ImportStep ==
    ASSUME ImportInv, I!Next
    PROVE  ImportInv'
<1> USE ImportFields, FilesAssumption
<1>0. ImportTypes
  BY DEF ImportInv
<1>1. ASSUME NEW w \in I!Ways, I!ChooseSource(w)
      PROVE  ImportInv'
  <2>1. ImportTypes'
    BY <1>0, <1>1 DEF I!ChooseSource, I!UserActs, ImportTypes
  <2> QED
    BY <1>0, <1>1, <2>1, UserGoesOn DEF I!ChooseSource, Confirmed, ImportTypes
<1>2. CASE I!DecideColumns
  <2>1. ImportTypes'
    BY <1>0, <1>2 DEF I!DecideColumns, I!UserActs, ImportTypes
  <2> QED
    BY <1>0, <1>2, <2>1, UserGoesOn DEF I!DecideColumns, Confirmed, ImportTypes
<1>3. ASSUME NEW rows, I!SkipRows(rows)
      PROVE  ImportInv'
  <2>1. ImportTypes'
    BY <1>0, <1>3 DEF I!SkipRows, I!UserActs, ImportTypes
  <2> QED
    BY <1>0, <1>3, <2>1, UserGoesOn DEF I!SkipRows, Confirmed, ImportTypes
<1>4. ASSUME NEW r, I!RestoreRow(r)
      PROVE  ImportInv'
  <2>1. ImportTypes'
    BY <1>0, <1>4 DEF I!RestoreRow, I!UserActs, ImportTypes
  <2> QED
    BY <1>0, <1>4, <2>1, UserGoesOn DEF I!RestoreRow, Confirmed, ImportTypes
<1>5. CASE I!DecideRow
  <2>1. ImportTypes'
    BY <1>0, <1>5 DEF I!DecideRow, I!UserActs, ImportTypes
  <2> QED
    BY <1>0, <1>5, <2>1, UserGoesOn DEF I!DecideRow, Confirmed, ImportTypes
<1>6. ASSUME NEW f \in Files, I!ChooseFile(f), source = "external"
      PROVE  ImportInv'
  <2> DEFINE u == TRUE
  <2>1. /\ I!Send("analyze", f, u, "external", 0)
        /\ f \in Files \union {I!NoOne} /\ u \in BOOLEAN /\ "external" \in I!Ways /\ 0 \in Nat
        /\ "analyze" \in {"analyze", "preview", "import"}
    BY <1>0, <1>6 DEF I!ChooseFile, ImportTypes, I!Ways
  <2> HIDE DEF u
  <2>2. PICK r \in ImportRequests({"sent", "done", "failed"}) :
          /\ sends' = sends + 1 /\ uploads' = uploads \union {r}
          /\ r.kind = "analyze" /\ r.number = sends + 1
          /\ I!Asked(r) = [file |-> f, updates |-> u, way |-> "external", mapping |-> 0]
          /\ r.file = f /\ r.updates = u /\ r.way = "external" /\ r.mapping = 0
          /\ r.shown = IF r.kind = "import" THEN preview ELSE I!NoPreview
          /\ r.astray <=> astray \/ uploads # {}
    BY <1>0, <2>1, SentImport
  <2>3. ImportTypes'
    BY <1>0, <1>6, <2>2 DEF I!ChooseFile, I!UserActs, ImportTypes, I!Ways
  <2>4. /\ UNCHANGED <<preview, imports>> /\ (astray' <=> astray \/ uploads # {})
    BY <1>0, <1>6 DEF I!ChooseFile, I!UserActs, ImportTypes
  <2>5. ASSUME ~astray'
        PROVE  FitsWhenSent(r)
    BY <1>0, <1>6, <2>2, <2>4, <2>5
       DEF I!ChooseFile, FitsWhenSent, ImportInv, PreviewIsConfirmed, Confirmed, ImportTypes, I!Ways
  <2>6. r.astray <=> astray'
    BY <2>2, <2>4
  <2> QED
    BY <2>2, <2>3, <2>4, <2>5, <2>6, UserSends, Zenon
<1>7. ASSUME NEW f \in Files, I!ChooseFile(f), source = "standard"
      PROVE  ImportInv'
  <2> DEFINE u == TRUE
  <2>1. /\ I!Send("preview", f, u, "standard", 0)
        /\ f \in Files \union {I!NoOne} /\ u \in BOOLEAN /\ "standard" \in I!Ways /\ 0 \in Nat
        /\ "preview" \in {"analyze", "preview", "import"}
    BY <1>0, <1>7 DEF I!ChooseFile, ImportTypes, I!Ways
  <2> HIDE DEF u
  <2>2. PICK r \in ImportRequests({"sent", "done", "failed"}) :
          /\ sends' = sends + 1 /\ uploads' = uploads \union {r}
          /\ r.kind = "preview" /\ r.number = sends + 1
          /\ I!Asked(r) = [file |-> f, updates |-> u, way |-> "standard", mapping |-> 0]
          /\ r.file = f /\ r.updates = u /\ r.way = "standard" /\ r.mapping = 0
          /\ r.shown = IF r.kind = "import" THEN preview ELSE I!NoPreview
          /\ r.astray <=> astray \/ uploads # {}
    BY <1>0, <2>1, SentImport
  <2>3. ImportTypes'
    BY <1>0, <1>7, <2>2 DEF I!ChooseFile, I!UserActs, ImportTypes, I!Ways
  <2>4. /\ UNCHANGED <<preview, imports>> /\ (astray' <=> astray \/ uploads # {})
    BY <1>0, <1>7 DEF I!ChooseFile, I!UserActs, ImportTypes
  <2>5. ASSUME ~astray'
        PROVE  FitsWhenSent(r)
    BY <1>0, <1>7, <2>2, <2>4, <2>5
       DEF I!ChooseFile, FitsWhenSent, ImportInv, PreviewIsConfirmed, Confirmed, ImportTypes, I!Ways
  <2>6. r.astray <=> astray'
    BY <2>2, <2>4
  <2> QED
    BY <2>2, <2>3, <2>4, <2>5, <2>6, UserSends, Zenon
<1>8. CASE I!PreviewMapped
  <2>1. /\ I!Send("preview", file, updating["external"], "external", mapping)
        /\ file \in Files \union {I!NoOne} /\ updating["external"] \in BOOLEAN /\ "external" \in I!Ways /\ mapping \in Nat
        /\ "preview" \in {"analyze", "preview", "import"}
    BY <1>0, <1>8 DEF I!PreviewMapped, ImportTypes, I!Ways
  <2>2. PICK r \in ImportRequests({"sent", "done", "failed"}) :
          /\ sends' = sends + 1 /\ uploads' = uploads \union {r}
          /\ r.kind = "preview" /\ r.number = sends + 1
          /\ I!Asked(r) = [file |-> file, updates |-> updating["external"], way |-> "external", mapping |-> mapping]
          /\ r.file = file /\ r.updates = updating["external"] /\ r.way = "external" /\ r.mapping = mapping
          /\ r.shown = IF r.kind = "import" THEN preview ELSE I!NoPreview
          /\ r.astray <=> astray \/ uploads # {}
    BY <1>0, <2>1, SentImport
  <2>3. ImportTypes'
    BY <1>0, <1>8, <2>2 DEF I!PreviewMapped, I!UserActs, ImportTypes, I!Ways
  <2>4. /\ UNCHANGED <<preview, imports>> /\ (astray' <=> astray \/ uploads # {})
    BY <1>0, <1>8 DEF I!PreviewMapped, I!UserActs, ImportTypes
  <2>5. ASSUME ~astray'
        PROVE  FitsWhenSent(r)
    BY <1>0, <1>8, <2>2, <2>4, <2>5
       DEF I!PreviewMapped, FitsWhenSent, ImportInv, PreviewIsConfirmed, Confirmed, ImportTypes, I!Ways
  <2>6. r.astray <=> astray'
    BY <2>2, <2>4
  <2> QED
    BY <2>2, <2>3, <2>4, <2>5, <2>6, UserSends, Zenon
<1>9. ASSUME NEW b \in BOOLEAN, I!ToggleUpdate(b),
            source = "external" /\ (file = I!NoOne \/ ~analyzed)
      PROVE  ImportInv'
  <2>1. ImportTypes'
    BY <1>0, <1>9 DEF I!ToggleUpdate, I!UserActs, ImportTypes, I!Ways
  <2>2. UNCHANGED <<step, file, analyzed, preview, sends, uploads, imports, source, mapping>>
    BY <1>9 DEF I!ToggleUpdate
  <2>3. astray' \/ UNCHANGED Confirmed
    BY <1>0, <1>9, <2>2
       DEF I!ToggleUpdate, ImportInv, PreviewIsConfirmed, I!UserActs, Confirmed, ImportTypes, I!Ways
  <2> QED
    BY <1>9, <2>1, <2>2, <2>3, UserGoesOn DEF I!ToggleUpdate
<1>10. ASSUME NEW b \in BOOLEAN, I!ToggleUpdate(b),
            source = "external" /\ file # I!NoOne /\ analyzed
      PROVE  ImportInv'
  <2>1. /\ I!Send("preview", file, b, "external", mapping)
        /\ file \in Files \union {I!NoOne} /\ b \in BOOLEAN /\ "external" \in I!Ways /\ mapping \in Nat
        /\ "preview" \in {"analyze", "preview", "import"}
    BY <1>0, <1>10 DEF I!ToggleUpdate, ImportTypes, I!Ways
  <2>2. PICK r \in ImportRequests({"sent", "done", "failed"}) :
          /\ sends' = sends + 1 /\ uploads' = uploads \union {r}
          /\ r.kind = "preview" /\ r.number = sends + 1
          /\ I!Asked(r) = [file |-> file, updates |-> b, way |-> "external", mapping |-> mapping]
          /\ r.file = file /\ r.updates = b /\ r.way = "external" /\ r.mapping = mapping
          /\ r.shown = IF r.kind = "import" THEN preview ELSE I!NoPreview
          /\ r.astray <=> astray \/ uploads # {}
    BY <1>0, <2>1, SentImport
  <2>3. ImportTypes'
    BY <1>0, <1>10, <2>2 DEF I!ToggleUpdate, I!UserActs, ImportTypes, I!Ways
  <2>4. /\ UNCHANGED <<preview, imports>> /\ (astray' <=> astray \/ uploads # {})
    BY <1>0, <1>10 DEF I!ToggleUpdate, I!UserActs, ImportTypes
  <2>5. ASSUME ~astray'
        PROVE  FitsWhenSent(r)
    BY <1>0, <1>10, <2>2, <2>4, <2>5
       DEF I!ToggleUpdate, FitsWhenSent, ImportInv, PreviewIsConfirmed, Confirmed, ImportTypes, I!Ways
  <2>6. r.astray <=> astray'
    BY <2>2, <2>4
  <2> QED
    BY <2>2, <2>3, <2>4, <2>5, <2>6, UserSends, Zenon
<1>11. ASSUME NEW b \in BOOLEAN, I!ToggleUpdate(b), source = "standard"
      PROVE  ImportInv'
  <2>1. /\ I!Send("preview", file, b, "standard", 0)
        /\ file \in Files \union {I!NoOne} /\ b \in BOOLEAN /\ "standard" \in I!Ways /\ 0 \in Nat
        /\ "preview" \in {"analyze", "preview", "import"}
    BY <1>0, <1>11 DEF I!ToggleUpdate, ImportTypes, I!Ways
  <2>2. PICK r \in ImportRequests({"sent", "done", "failed"}) :
          /\ sends' = sends + 1 /\ uploads' = uploads \union {r}
          /\ r.kind = "preview" /\ r.number = sends + 1
          /\ I!Asked(r) = [file |-> file, updates |-> b, way |-> "standard", mapping |-> 0]
          /\ r.file = file /\ r.updates = b /\ r.way = "standard" /\ r.mapping = 0
          /\ r.shown = IF r.kind = "import" THEN preview ELSE I!NoPreview
          /\ r.astray <=> astray \/ uploads # {}
    BY <1>0, <2>1, SentImport
  <2>3. ImportTypes'
    BY <1>0, <1>11, <2>2 DEF I!ToggleUpdate, I!UserActs, ImportTypes, I!Ways
  <2>4. /\ UNCHANGED <<preview, imports>> /\ (astray' <=> astray \/ uploads # {})
    BY <1>0, <1>11 DEF I!ToggleUpdate, I!UserActs, ImportTypes
  <2>5. ASSUME ~astray'
        PROVE  FitsWhenSent(r)
    BY <1>0, <1>11, <2>2, <2>4, <2>5
       DEF I!ToggleUpdate, FitsWhenSent, ImportInv, PreviewIsConfirmed, Confirmed, ImportTypes, I!Ways
  <2>6. r.astray <=> astray'
    BY <2>2, <2>4
  <2> QED
    BY <2>2, <2>3, <2>4, <2>5, <2>6, UserSends, Zenon
<1>12. ASSUME I!Confirm, source = "external" /\ analyzed
      PROVE  ImportInv'
  <2>1. /\ I!Send("import", file, updating["external"], "external", mapping)
        /\ file \in Files \union {I!NoOne} /\ updating["external"] \in BOOLEAN /\ "external" \in I!Ways /\ mapping \in Nat
        /\ "import" \in {"analyze", "preview", "import"}
    BY <1>0, <1>12 DEF I!Confirm, ImportTypes, I!Ways
  <2>2. PICK r \in ImportRequests({"sent", "done", "failed"}) :
          /\ sends' = sends + 1 /\ uploads' = uploads \union {r}
          /\ r.kind = "import" /\ r.number = sends + 1
          /\ I!Asked(r) = [file |-> file, updates |-> updating["external"], way |-> "external", mapping |-> mapping]
          /\ r.file = file /\ r.updates = updating["external"] /\ r.way = "external" /\ r.mapping = mapping
          /\ r.shown = IF r.kind = "import" THEN preview ELSE I!NoPreview
          /\ r.astray <=> astray \/ uploads # {}
    BY <1>0, <2>1, SentImport
  <2>3. ImportTypes'
    BY <1>0, <1>12, <2>2 DEF I!Confirm, I!UserActs, ImportTypes, I!Ways
  <2>4. /\ UNCHANGED <<preview, imports>> /\ (astray' <=> astray \/ uploads # {})
    BY <1>0, <1>12 DEF I!Confirm, I!UserActs, ImportTypes
  <2>5. ASSUME ~astray'
        PROVE  FitsWhenSent(r)
    BY <1>0, <1>12, <2>2, <2>4, <2>5
       DEF I!Confirm, FitsWhenSent, ImportInv, PreviewIsConfirmed, Confirmed, ImportTypes, I!Ways
  <2>6. r.astray <=> astray'
    BY <2>2, <2>4
  <2> QED
    BY <2>2, <2>3, <2>4, <2>5, <2>6, UserSends, Zenon
<1>13. ASSUME I!Confirm, ~(source = "external" /\ analyzed)
      PROVE  ImportInv'
  <2>1. /\ I!Send("import", file, updating["standard"], "standard", 0)
        /\ file \in Files \union {I!NoOne} /\ updating["standard"] \in BOOLEAN /\ "standard" \in I!Ways /\ 0 \in Nat
        /\ "import" \in {"analyze", "preview", "import"}
    BY <1>0, <1>13 DEF I!Confirm, ImportTypes, I!Ways
  <2>2. PICK r \in ImportRequests({"sent", "done", "failed"}) :
          /\ sends' = sends + 1 /\ uploads' = uploads \union {r}
          /\ r.kind = "import" /\ r.number = sends + 1
          /\ I!Asked(r) = [file |-> file, updates |-> updating["standard"], way |-> "standard", mapping |-> 0]
          /\ r.file = file /\ r.updates = updating["standard"] /\ r.way = "standard" /\ r.mapping = 0
          /\ r.shown = IF r.kind = "import" THEN preview ELSE I!NoPreview
          /\ r.astray <=> astray \/ uploads # {}
    BY <1>0, <2>1, SentImport
  <2>3. ImportTypes'
    BY <1>0, <1>13, <2>2 DEF I!Confirm, I!UserActs, ImportTypes, I!Ways
  <2>4. /\ UNCHANGED <<preview, imports>> /\ (astray' <=> astray \/ uploads # {})
    BY <1>0, <1>13 DEF I!Confirm, I!UserActs, ImportTypes
  <2>5. ASSUME ~astray'
        PROVE  FitsWhenSent(r)
    BY <1>0, <1>13, <2>2, <2>4, <2>5
       DEF I!Confirm, FitsWhenSent, ImportInv, PreviewIsConfirmed, Confirmed, ImportTypes, I!Ways
  <2>6. r.astray <=> astray'
    BY <2>2, <2>4
  <2> QED
    BY <2>2, <2>3, <2>4, <2>5, <2>6, UserSends, Zenon
<1>14. CASE I!Reset
  <2>1. ImportTypes'
    BY <1>0, <1>14 DEF I!Reset, ImportTypes, I!NoPreview, Previews, I!Ways
  <2>2. PatienceIsKnown' /\ NumbersAreUnique' /\ ImportsAsShown' /\ I!PatientImports'
    BY <1>0, <1>14 DEF I!Reset, ImportInv, PatienceIsKnown, NumbersAreUnique, ImportsAsShown,
                       NotImported, I!PatientImports, I!Asked, I!NoPreview, ImportTypes
  <2>3. AnswersFit' /\ PreviewIsConfirmed'
    BY <1>14 DEF I!Reset, AnswersFit, PreviewIsConfirmed
  <2> QED
    BY <2>1, <2>2, <2>3 DEF ImportInv
<1>15. ASSUME NEW q \in uploads, I!Handle(q)
       PROVE  ImportInv'
  <2>1. PICK result \in {"done", "refused", "lost"} :
          /\ uploads' = (uploads \ {q}) \union
               {[q EXCEPT !.state = IF result = "done" THEN "done" ELSE "failed"]}
          /\ imports' = IF q.kind = "import" /\ ~q.astray /\ result # "refused"
                        THEN imports \union {[q EXCEPT !.state = result]} ELSE imports
    BY <1>15 DEF I!Handle
  <2>q. q \in ImportRequests({"sent", "done", "failed"})
    BY <1>0 DEF ImportTypes
  <2>2. PICK n \in ImportRequests({"sent", "done", "failed"}) :
          /\ uploads' = (uploads \ {q}) \union {n}
          /\ n.state = IF result = "done" THEN "done" ELSE "failed"
          /\ n.shown = q.shown /\ I!Asked(n) = I!Asked(q)
          /\ n.kind = q.kind /\ n.number = q.number /\ n.astray = q.astray
          /\ n.file = q.file /\ n.updates = q.updates /\ n.way = q.way /\ n.mapping = q.mapping
    <3> DEFINE t == IF result = "done" THEN "done" ELSE "failed"
    <3>1. t \in {"sent", "done", "failed"}
      OBVIOUS
    <3> HIDE DEF t
    <3>2. uploads' = (uploads \ {q}) \union {[q EXCEPT !.state = t]}
      BY <2>1 DEF t
    <3> QED
      BY <2>q, <3>1, <3>2, WithState DEF t
  <2>3. ASSUME q.kind = "import", ~q.astray, result # "refused"
        PROVE  \E i \in ImportRequests({"done", "lost"}) :
                  /\ imports' = imports \union {i} /\ i.state = result
                  /\ i.shown = q.shown /\ I!Asked(i) = I!Asked(q)
    <3>1. result \in {"done", "lost"} /\ imports' = imports \union {[q EXCEPT !.state = result]}
      BY <2>1, <2>3
    <3> DEFINE i == [q EXCEPT !.state = result]
    <3>2. /\ i \in ImportRequests({"done", "lost"}) /\ i.state = result
          /\ i.shown = q.shown /\ I!Asked(i) = I!Asked(q)
      BY <2>q, <3>1 DEF ImportRequests, I!Asked
    <3> QED
      BY <3>1, <3>2
  <2>4. ~(q.kind = "import" /\ ~q.astray /\ result # "refused") => imports' = imports
    BY <2>1
  <2>5. /\ UNCHANGED <<step, source, file, analyzed, mapping, updating, preview, sends, mappings, astray>>
        /\ q.state = "sent"
    BY <1>15 DEF I!Handle
  <2>6. ImportTypes'
    BY <1>0, <2>2, <2>3, <2>4, <2>5 DEF ImportTypes
  <2>7. PatienceIsKnown'
    BY <2>2, <2>5 DEF ImportInv, PatienceIsKnown
  <2>8. NumbersAreUnique'
    BY <2>2, <2>3, <2>4, <2>5 DEF ImportInv, NumbersAreUnique
  <2>9. AnswersFit'
    <3> SUFFICES ASSUME ~astray
                 PROVE  AnswersFit'
      BY <2>5 DEF AnswersFit
    <3>1. UNCHANGED <<Confirmed, I!Asked(preview)>>
      BY <2>5 DEF Confirmed, I!Asked
    <3>2. I!Asked(n)' = I!Asked(n)
      BY DEF I!Asked
    <3> QED
      BY <2>2, <2>5, <3>1, <3>2 DEF ImportInv, AnswersFit, I!Asked
  <2>10. PreviewIsConfirmed'
    BY <2>2, <2>5 DEF ImportInv, PreviewIsConfirmed, Confirmed
  <2>11. ImportsAsShown'
    <3> SUFFICES ASSUME NEW p \in uploads', p.kind = "import", ~p.astray
                 PROVE  /\ I!Asked(p) = I!Asked(p.shown)
                        /\ p.state # "done" => NotImported(p.shown)'
      BY DEF ImportsAsShown, NotImported, I!Asked
    <3>1. CASE p = n
      <4>1. q.kind = "import" /\ ~q.astray
        BY <2>2, <3>1
      <4>2. I!Asked(q) = I!Asked(q.shown) /\ NotImported(q.shown)
        BY <2>5, <4>1 DEF ImportInv, ImportsAsShown
      <4>3. CASE result = "done"
        BY <2>2, <3>1, <4>2, <4>3
      <4>4. CASE result = "refused"
        BY <2>2, <2>4, <3>1, <4>2, <4>4 DEF NotImported
      <4>5. CASE result = "lost"
        <5>1. PICK i : imports' = imports \union {i} /\ i.state = "lost"
          BY <2>3, <4>1, <4>5
        <5>2. NotImported(q.shown)'
          BY <4>2, <5>1 DEF NotImported
        <5> QED
          BY <2>2, <3>1, <4>2, <5>2
      <4> QED
        BY <4>3, <4>4, <4>5
    <3>2. CASE p # n
      <4>1. p \in uploads /\ p # q
        BY <2>2, <3>2
      <4>2. q.astray
        BY <4>1 DEF ImportInv, PatienceIsKnown
      <4> QED
        BY <2>4, <4>1, <4>2 DEF ImportInv, ImportsAsShown, NotImported
    <3> QED
      BY <3>1, <3>2
  <2>12. I!PatientImports'
    <3>1. CASE q.kind = "import" /\ ~q.astray /\ result # "refused"
      <4>1. PICK i : /\ imports' = imports \union {i} /\ i.shown = q.shown /\ I!Asked(i) = I!Asked(q)
        BY <2>3, <3>1
      <4>2. I!Asked(q) = I!Asked(q.shown) /\ NotImported(q.shown)
        BY <2>5, <3>1 DEF ImportInv, ImportsAsShown
      <4>3. ASSUME NEW j \in imports'
            PROVE  /\ I!Asked(j) = I!Asked(j.shown)
                   /\ \A k \in imports' : j # k /\ k.shown = j.shown => "lost" \in {j.state, k.state}
        BY <4>1, <4>2 DEF ImportInv, NotImported, I!PatientImports
      <4> QED
        BY <4>3 DEF I!PatientImports, I!Asked
    <3> QED
      BY <2>4, <3>1 DEF ImportInv, I!PatientImports, I!Asked
  <2> QED
    BY <2>6, <2>7, <2>8, <2>9, <2>10, <2>11, <2>12 DEF ImportInv
<1>16. ASSUME NEW q \in uploads, I!AnswerPreview(q)
       PROVE  ImportInv'
  <2>1. /\ q.kind = "preview" /\ uploads' = uploads \ {q} /\ UNCHANGED <<imports, sends>>
        /\ ~astray' => ~astray
    BY <1>0, <1>16 DEF I!AnswerPreview, I!Arrives, ImportTypes
  <2>2. ImportTypes'
    BY <1>0, <1>16, <2>1
       DEF I!AnswerPreview, ImportTypes, ImportRequests, Previews, I!Ways
  <2>3. PatienceIsKnown' /\ I!PatientImports' /\ ImportsAsShown'
    BY <2>1 DEF ImportInv, PatienceIsKnown, ImportsAsShown, NotImported, I!PatientImports, I!Asked
  <2>4. preview' = preview \/ preview'.number = q.number
    BY <1>16 DEF I!AnswerPreview
  <2>5. NumbersAreUnique'
    BY <2>1, <2>4 DEF ImportInv, NumbersAreUnique
  <2>6. ASSUME ~astray'
        PROVE  uploads' = {} /\ uploads = {q} /\ ~astray
    BY <2>1, <2>6 DEF ImportInv, PatienceIsKnown
  <2>7. AnswersFit'
    BY <2>6 DEF AnswersFit
  <2>8. PreviewIsConfirmed'
    <3> SUFFICES ASSUME ~astray'
                 PROVE  PreviewIsConfirmed'
      BY DEF PreviewIsConfirmed
    <3>1. CASE q.state = "failed"
      BY <1>16, <2>1, <2>6, <3>1
         DEF I!AnswerPreview, ImportInv, PreviewIsConfirmed, Confirmed, NotImported
    <3>2. CASE q.state # "failed"
      <4>1. /\ step' = "preview" /\ UNCHANGED <<source, file, analyzed, mapping>>
            /\ preview' = [number |-> q.number, file |-> q.file, updates |-> q.updates,
                            way |-> q.way, mapping |-> q.mapping]
            /\ updating' = IF q.way = "standard" THEN [updating EXCEPT !["standard"] = q.updates]
                            ELSE updating
        BY <1>16, <3>2 DEF I!AnswerPreview
      <4>2. /\ q.file = file /\ file # I!NoOne
            /\ q.way = "external" <=> source = "external" /\ analyzed
            /\ q.way = "external" => q.updates = updating["external"] /\ q.mapping = mapping
            /\ q.way = "standard" => q.mapping = 0
        BY <2>1, <2>6 DEF ImportInv, AnswersFit
      <4>3. I!Asked(preview') = Confirmed'
        BY <1>0, <4>1, <4>2 DEF Confirmed, I!Asked, I!Ways, ImportTypes
      <4>4. NotImported(preview)'
        BY <2>1, <4>1 DEF ImportInv, NumbersAreUnique, NotImported
      <4> QED
        BY <4>1, <4>2, <4>3, <4>4 DEF PreviewIsConfirmed, I!Asked
    <3> QED
      BY <3>1, <3>2
  <2> QED
    BY <2>2, <2>3, <2>5, <2>7, <2>8 DEF ImportInv
<1>17. ASSUME NEW q \in uploads, I!AnswerAnalyze(q)
       PROVE  ImportInv'
  <2>1. /\ q.kind = "analyze" /\ uploads' = uploads \ {q}
        /\ UNCHANGED <<imports, sends, astray, preview, source, file>>
    BY <1>17 DEF I!AnswerAnalyze, I!Arrives
  <2>2. ImportTypes'
    <3>1. [updating EXCEPT !["external"] = TRUE] \in [I!Ways -> BOOLEAN]
      BY <1>0 DEF ImportTypes, I!Ways
    <3>2. /\ step' \in {step, "mapping"} /\ mapping' \in Nat /\ analyzed' \in BOOLEAN
          /\ updating' \in [I!Ways -> BOOLEAN] /\ mappings' = mappings
      <4>1. CASE q.state = "failed"
        BY <1>0, <1>17, <4>1 DEF I!AnswerAnalyze, ImportTypes
      <4>2. CASE q.state # "failed"
        <5>1. /\ step' = "mapping" /\ analyzed' = TRUE /\ mapping' = 0 /\ mappings' = mappings
              /\ updating' = [updating EXCEPT !["external"] = TRUE]
          BY <1>17, <4>2 DEF I!AnswerAnalyze
        <5> QED
          BY <3>1, <5>1
      <4> QED
        BY <4>1, <4>2
    <3> QED
      BY <1>0, <2>1, <3>2 DEF ImportTypes
  <2>3. PatienceIsKnown' /\ I!PatientImports' /\ ImportsAsShown' /\ NumbersAreUnique'
    BY <2>1 DEF ImportInv, PatienceIsKnown, ImportsAsShown, NotImported, NumbersAreUnique,
                I!PatientImports, I!Asked
  <2>4. ASSUME ~astray'
        PROVE  uploads' = {} /\ ~astray /\ step = "upload" /\ source = "external"
    BY <2>1, <2>4 DEF ImportInv, PatienceIsKnown, AnswersFit
  <2>5. AnswersFit' /\ PreviewIsConfirmed'
    BY <1>17, <2>1, <2>4 DEF I!AnswerAnalyze, AnswersFit, PreviewIsConfirmed
  <2> QED
    BY <2>2, <2>3, <2>5 DEF ImportInv
<1>18. ASSUME NEW q \in uploads, I!AnswerImport(q)
       PROVE  ImportInv'
  <2>1. /\ q.kind = "import" /\ uploads' = uploads \ {q} /\ q.state # "sent"
        /\ UNCHANGED <<imports, sends, mappings, astray, preview, source, file, analyzed, mapping, updating>>
        /\ step' = IF q.state = "done" THEN "done" ELSE IF q.way = "external" THEN "mapping" ELSE "preview"
    BY <1>18 DEF I!AnswerImport, I!Arrives
  <2>2. ImportTypes'
    BY <1>0, <2>1 DEF ImportTypes
  <2>3. PatienceIsKnown' /\ I!PatientImports' /\ ImportsAsShown' /\ NumbersAreUnique'
    BY <2>1 DEF ImportInv, PatienceIsKnown, ImportsAsShown, NotImported, NumbersAreUnique,
                I!PatientImports, I!Asked
  <2>4. ASSUME ~astray'
        PROVE  /\ uploads' = {} /\ ~astray /\ ~q.astray /\ q.shown = preview /\ file # I!NoOne
               /\ I!Asked(q) = Confirmed /\ I!Asked(preview) = Confirmed
    BY <2>1, <2>4 DEF ImportInv, PatienceIsKnown, AnswersFit
  <2>5. ASSUME ~astray', q.way = "external"
        PROVE  source = "external" /\ analyzed
    BY <2>4, <2>5 DEF I!Asked, Confirmed
  <2>6. AnswersFit' /\ PreviewIsConfirmed'
    BY <2>1, <2>4, <2>5
       DEF ImportInv, AnswersFit, PreviewIsConfirmed, ImportsAsShown, Confirmed, NotImported, I!Asked
  <2> QED
    BY <2>2, <2>3, <2>6 DEF ImportInv
<1> QED
  BY <1>0, <1>1, <1>2, <1>3, <1>4, <1>5, <1>6, <1>7, <1>8, <1>9, <1>10, <1>11, <1>12, <1>13, <1>14,
     <1>15, <1>16, <1>17, <1>18 DEF I!Next, ImportTypes, I!Ways

-----------------------------------------------------------------------------
(* The areas together. *)

SubmitInv ==
    /\ area = "dialogs" => DialogInv
    /\ area = "import" => ImportInv

(* Dialogs and imports begin and go on as SubmitInv says.                   *)
LEMMA SubmitStart == MCInit => SubmitInv
<1> SUFFICES ASSUME MCInit
             PROVE  DialogInv /\ ImportInv
  BY DEF SubmitInv
<1>1. D!Init /\ I!Init
  BY DEF MCInit
<1>2. DialogInv
  BY <1>1, BoundsAssumption
     DEF D!Init, DialogInv, DialogTypes, OneSaveAtATime, CreationIsKnown, D!ClosingAsks, D!CreatesOnce
<1>3. ImportTypes
  BY <1>1 DEF I!Init, ImportTypes, I!NoPreview, Previews, I!Ways
<1>4. ImportInv
  BY <1>1, <1>3 DEF I!Init, ImportInv, PatienceIsKnown, NumbersAreUnique, AnswersFit, PreviewIsConfirmed,
                    ImportsAsShown, I!PatientImports, I!NoPreview
<1> QED
  BY <1>2, <1>4

LEMMA SubmitKept ==
    ASSUME SubmitInv, MCNext \/ UNCHANGED <<area, dialogs, imported>>
    PROVE  SubmitInv'
<1>1. area' = area
  BY DEF MCNext
<1>2. ASSUME area = "dialogs"
      PROVE  DialogInv'
  <2>1. CASE D!Next
    BY <1>2, <2>1, DialogStep DEF SubmitInv
  <2>2. CASE UNCHANGED dialogs
    BY <1>2, <2>2 DEF SubmitInv, dialogs, DialogInv, DialogTypes, SaveRequests, OneSaveAtATime,
                      CreationIsKnown, D!ClosingAsks, D!Blind, D!CreatesOnce
  <2> QED
    BY <1>2, <2>1, <2>2 DEF MCNext
<1>3. ASSUME area = "import"
      PROVE  ImportInv'
  <2>1. CASE I!Next
    BY <1>3, <2>1, ImportStep DEF SubmitInv
  <2>2. CASE UNCHANGED imported
    BY <1>3, <2>2 DEF SubmitInv, imported, ImportInv, ImportTypes, ImportRequests, PatienceIsKnown,
                      NumbersAreUnique, AnswersFit, PreviewIsConfirmed, ImportsAsShown, NotImported,
                      Confirmed, I!PatientImports, I!Asked
  <2> QED
    BY <1>3, <2>1, <2>2 DEF MCNext
<1> QED
  BY <1>1, <1>2, <1>3 DEF SubmitInv

(* SubmittedOnce: a dialog that asks about unsaved input is not closed over *)
(* what was typed into it without asking, but for the lines of a new order; *)
(* one opening of a dialog creates its record at most once, whatever saves, *)
(* failed uploads and retries there are; and the import of a user who waits *)
(* sends the file, the mapping and the option that were previewed, and a    *)
(* preview a second time only after an answer was lost.                     *)
THEOREM FormsAreSentOnce == MCSpec => []SubmittedOnce
<1>1. SubmitInv /\ [MCNext]_<<area, rvars, settings, dialogs, routes, imported, cached, listed, tabled, reported>>
        => SubmitInv'
  BY SubmitKept
<1>2. SubmitInv => SubmittedOnce
  BY DEF SubmitInv, SubmittedOnce, DialogInv, ImportInv
<1> QED
  BY <1>1, <1>2, SubmitStart, PTL DEF MCSpec

-----------------------------------------------------------------------------
(* Addresses. *)

RoutePaths == [page : R!Pages \union {"root", "unknown"}, key : R!LicenseKeys \union {R!Nowhere}]
Waits ==
    [page : R!Pages \union {R!Nowhere}, license : R!Licenses \union {R!Nowhere, "any"}, awaiting : BOOLEAN]

RouteTypes ==
    /\ page \in R!Pages /\ license \in R!Licenses \union {R!Nowhere}
    /\ hist \in Seq(RoutePaths) /\ at \in 1..Len(hist) /\ remembered \in {R!Nowhere, "LT1"}
    /\ viewer \in BOOLEAN /\ started \in BOOLEAN /\ loaded \subseteq R!Licenses /\ dirty \in BOOLEAN
    /\ adding \in BOOLEAN /\ posting \in BOOLEAN /\ made \in BOOLEAN /\ dialog \in BOOLEAN
    /\ creating \in BOOLEAN /\ overtaken \in BOOLEAN
    /\ expected \in Waits /\ pending \in R!LicenseKeys \union {R!Nowhere}
    /\ timers \subseteq R!Pages /\ asking \in R!Pages \union {R!Nowhere}

(* A page that was just loaded waits for nothing.                           *)
StartsAnew ==
    ~started => /\ page = "licenses" /\ license = R!Nowhere /\ expected = R!Nothing
                /\ pending = R!Nowhere /\ timers = {} /\ ~dirty /\ asking = R!Nowhere /\ ~overtaken

EditsAreGuarded ==
    /\ dirty => page = "settings"
    /\ asking # R!Nowhere => dirty

(* Only the address a user came with can have the key of no license, and    *)
(* until that was looked up nothing is written.                             *)
KeysAreLicenses ==
    /\ \A j \in 1..Len(hist) :
         /\ hist[j].key # R!Nowhere => hist[j].page = "licenses"
         /\ hist[j].key = "gone" => Len(hist) = 1 /\ (started => pending = "gone")
    /\ pending = "gone" =>
         /\ Len(hist) = 1 /\ timers = {}
         /\ expected = [page |-> "licenses", license |-> "any", awaiting |-> TRUE]
         /\ ~overtaken => license = R!Nowhere

(* Where nothing is waited for, the address is that of what is shown.       *)
AddressIsShown ==
    started /\ ~overtaken /\ expected = R!Nothing /\ pending = R!Nowhere => R!Shows(hist[at])

(* A license is looked up on the page that will show it, or behind settings *)
(* that were not left, where a timer will put the address back.             *)
LookedUpIsShown ==
    started /\ ~overtaken /\ pending # R!Nowhere =>
        \/ page = "licenses" /\ hist[at] \in {R!Path("licenses", pending), R!Path("licenses", license)}
        \/ page = "settings" /\ loaded # {} /\ "licenses" \in timers

(* So is any other wait ended by a timer, unless the page comes to be shown.*)
WaitIsTimed ==
    started /\ ~overtaken /\ expected # R!Nothing /\ pending = R!Nowhere =>
        /\ expected.page \in timers \ {page} /\ ~expected.awaiting
        /\ expected.license \in {"any", license}

RouteInv ==
    /\ RouteTypes
    /\ StartsAnew
    /\ EditsAreGuarded
    /\ KeysAreLicenses
    /\ AddressIsShown
    /\ LookedUpIsShown
    /\ WaitIsTimed

(* The history with an entry replaced, or put after those up to it.         *)
LEMMA Histories ==
    ASSUME NEW h \in Seq(RoutePaths), NEW i \in 1..Len(h), NEW p \in RoutePaths
    PROVE  /\ R!Replaced(h, i, p) \in Seq(RoutePaths) /\ Len(R!Replaced(h, i, p)) = Len(h)
           /\ R!Replaced(h, i, p)[i] = p /\ \A j \in 1..Len(h) : j # i => R!Replaced(h, i, p)[j] = h[j]
           /\ R!Pushed(h, i, p) \in Seq(RoutePaths) /\ Len(R!Pushed(h, i, p)) = i + 1
           /\ R!Pushed(h, i, p)[i + 1] = p /\ \A j \in 1..i : R!Pushed(h, i, p)[j] = h[j]
<1>1. /\ R!Replaced(h, i, p) \in Seq(RoutePaths) /\ Len(R!Replaced(h, i, p)) = Len(h)
      /\ R!Replaced(h, i, p)[i] = p /\ \A j \in 1..Len(h) : j # i => R!Replaced(h, i, p)[j] = h[j]
  BY DEF R!Replaced
<1>2. /\ SubSeq(h, 1, i) \in Seq(RoutePaths) /\ Len(SubSeq(h, 1, i)) = i
      /\ \A j \in 1..i : SubSeq(h, 1, i)[j] = h[j]
  OBVIOUS
<1> HIDE DEF RoutePaths
<1>3. /\ R!Pushed(h, i, p) \in Seq(RoutePaths) /\ Len(R!Pushed(h, i, p)) = i + 1
      /\ R!Pushed(h, i, p)[i + 1] = p /\ \A j \in 1..i : R!Pushed(h, i, p)[j] = h[j]
  BY <1>2 DEF R!Pushed
<1> QED
  BY <1>1, <1>3

(* What a change of the page or the license does to the address: nothing if *)
(* both stay; it is written, unless something is waited for that the change *)
(* is not.                                                                  *)
LEMMA WriteRule ==
    ASSUME NEW p \in R!Pages, NEW s \in R!Licenses \union {R!Nowhere}, NEW e \in Waits,
           NEW h \in Seq(RoutePaths), NEW i \in 1..Len(h), R!Write(p, s, e, h, i)
    PROVE  /\ hist' \in Seq(RoutePaths) /\ at' \in 1..Len(hist') /\ expected' \in {e, R!Nothing}
           /\ expected' = R!Nothing => hist'[at'] = R!pathForState(p, s)
           /\ expected' # R!Nothing =>
                 expected' = e /\ ~R!CaughtUp(p, s, e) /\ hist' = h /\ at' = i
           /\ \A j \in 1..Len(hist') : hist'[j] = R!pathForState(p, s) \/ (j \in 1..Len(h) /\ hist'[j] = h[j])
<1> DEFINE d == R!pathForState(p, s)
<1>1. d \in RoutePaths
  BY DEF R!pathForState, R!Path, RoutePaths, R!Licenses, R!Created, R!LicenseKeys, R!Resolves
<1> HIDE DEF d
<1>H. /\ R!Replaced(h, i, d) \in Seq(RoutePaths) /\ Len(R!Replaced(h, i, d)) = Len(h)
      /\ R!Replaced(h, i, d)[i] = d /\ \A j \in 1..Len(h) : j # i => R!Replaced(h, i, d)[j] = h[j]
      /\ R!Pushed(h, i, d) \in Seq(RoutePaths) /\ Len(R!Pushed(h, i, d)) = i + 1
      /\ R!Pushed(h, i, d)[i + 1] = d /\ \A j \in 1..i : R!Pushed(h, i, d)[j] = h[j]
  BY <1>1, Histories, Zenon
<1>L. Len(h) \in Nat /\ i \in Nat
  OBVIOUS
<1>2. CASE e # R!Nothing /\ ~R!CaughtUp(p, s, e)
  BY <1>2 DEF R!Write
<1>3. CASE e # R!Nothing /\ R!CaughtUp(p, s, e)
  <2>1. expected' = R!Nothing /\ hist' = R!Replaced(h, i, d) /\ at' = i
    BY <1>3 DEF R!Write, d
  <2> QED
    BY <1>H, <1>L, <2>1 DEF d
<1>4. CASE e = R!Nothing /\ h[i] = d
  BY <1>4 DEF R!Write, d
<1>5. CASE e = R!Nothing /\ h[i] # d
  <2>1. expected' = R!Nothing /\ hist' = R!Pushed(h, i, d) /\ at' = i + 1
    BY <1>5 DEF R!Write, d
  <2>2. i + 1 \in 1..Len(hist') /\ \A j \in 1..Len(hist') : j = i + 1 \/ j \in 1..i
    BY <1>H, <1>L, <2>1
  <2> QED
    BY <1>H, <1>L, <2>1, <2>2 DEF d
<1> QED
  BY <1>2, <1>3, <1>4, <1>5

LEMMA SettleRule ==
    ASSUME NEW p \in R!Pages, NEW s \in R!Licenses \union {R!Nowhere}, NEW e \in Waits,
           NEW h \in Seq(RoutePaths), NEW i \in 1..Len(h), R!Settle(p, s, e, h, i)
    PROVE  /\ page' = p /\ license' = s /\ dirty' \in BOOLEAN /\ (dirty' <=> dirty /\ p = "settings")
           /\ hist' \in Seq(RoutePaths) /\ at' \in 1..Len(hist') /\ expected' \in {e, R!Nothing}
           /\ expected' # R!Nothing => expected' = e /\ hist' = h /\ at' = i
           /\ p = page /\ s = license => expected' = e /\ hist' = h /\ at' = i
           /\ p # page \/ s # license =>
                 /\ expected' = R!Nothing => hist'[at'] = R!pathForState(p, s)
                 /\ expected' # R!Nothing => ~R!CaughtUp(p, s, e)
           /\ \A j \in 1..Len(hist') : hist'[j] = R!pathForState(p, s) \/ (j \in 1..Len(h) /\ hist'[j] = h[j])
<1>1. CASE p = page /\ s = license
  BY <1>1 DEF R!Settle
<1>2. CASE p # page \/ s # license
  <2>1. /\ page' = p /\ license' = s /\ dirty' \in BOOLEAN /\ (dirty' <=> dirty /\ p = "settings")
        /\ R!Write(p, s, e, h, i)
    BY <1>2 DEF R!Settle
  <2> QED
    BY <1>2, <2>1, WriteRule
<1> QED
  BY <1>1, <1>2

(* The address of what is shown shows it; a license is its own key.         *)
LEMMA OwnPath ==
    ASSUME NEW p \in R!Pages, NEW s \in R!Licenses \union {R!Nowhere}
    PROVE  LET path == R!pathForState(p, s)
           IN /\ path \in RoutePaths /\ path.page = p /\ R!parseAppPath(path).page = p /\ path.key # "gone"
              /\ path.key # R!Nowhere => p = "licenses"
              /\ p = "licenses" => path = R!Path("licenses", s)
              /\ p = "licenses" => (path.key # R!Nowhere /\ R!Resolves[path.key] = s)
                                     \/ (path.key = R!Nowhere /\ s = R!Nowhere)
  BY DEF R!pathForState, R!Path, RoutePaths, R!Licenses, R!Created, R!LicenseKeys, R!Resolves, R!Nowhere, R!parseAppPath

(* A page or license shown while nothing is looked up, unless it is by a    *)
(* user who goes on meanwhile.                                              *)
LEMMA ShowStep ==
    ASSUME RouteInv, started, NEW p \in R!Pages, NEW s \in R!Licenses \union {R!Nowhere}, R!Show(p, s),
           UNCHANGED <<viewer, remembered, started, pending, timers>>,
           loaded' \subseteq R!Licenses, adding' \in BOOLEAN, posting' \in BOOLEAN, made' \in BOOLEAN,
           dialog' \in BOOLEAN, creating' \in BOOLEAN, overtaken' \in BOOLEAN,
           ~overtaken' => ~overtaken /\ pending = R!Nowhere,
           s = license \/ timers = {} \/ overtaken',
           asking' \in R!Pages \union {R!Nowhere}, asking' # R!Nowhere => dirty /\ p = "settings"
    PROVE  RouteInv'
<1> USE DEF RouteInv
<1>0. RouteTypes
  OBVIOUS
<1>1. /\ page' = p /\ license' = s /\ dirty' \in BOOLEAN /\ (dirty' <=> dirty /\ p = "settings")
      /\ hist' \in Seq(RoutePaths) /\ at' \in 1..Len(hist') /\ expected' \in {expected, R!Nothing}
      /\ expected' # R!Nothing => expected' = expected /\ hist' = hist /\ at' = at
      /\ p = page /\ s = license => expected' = expected /\ hist' = hist /\ at' = at
      /\ p # page \/ s # license =>
            /\ expected' = R!Nothing => hist'[at'] = R!pathForState(p, s)
            /\ expected' # R!Nothing => ~R!CaughtUp(p, s, expected)
      /\ \A j \in 1..Len(hist') : hist'[j] = R!pathForState(p, s) \/ (j \in 1..Len(hist) /\ hist'[j] = hist[j])
  BY <1>0, SettleRule DEF R!Show, RouteTypes
<1>2. RouteTypes'
  <2>1. R!Nothing \in Waits
    BY DEF Waits, R!Nothing
  <2>2. expected' \in Waits
    BY <1>0, <1>1, <2>1 DEF RouteTypes
  <2> QED
    BY <1>0, <1>1, <2>2 DEF RouteTypes
<1>3. StartsAnew' /\ EditsAreGuarded'
  BY <1>1 DEF StartsAnew, EditsAreGuarded
<1>4. KeysAreLicenses'
  <2>1. CASE pending = "gone"
    <3>1. expected = [page |-> "licenses", license |-> "any", awaiting |-> TRUE] /\ expected # R!Nothing
      BY <2>1 DEF KeysAreLicenses, R!Nothing
    <3>2. ~R!CaughtUp(p, s, expected)
      BY <3>1 DEF R!CaughtUp
    <3>3. R!Settle(p, s, expected, hist, at)
      BY DEF R!Show
    <3>4. expected' = expected /\ hist' = hist
      <4>1. CASE p = page /\ s = license
        BY <1>1, <4>1
      <4>2. CASE p # page \/ s # license
        BY <3>1, <3>2, <3>3, <4>2 DEF R!Settle, R!Write
      <4> QED
        BY <4>1, <4>2
    <3> QED
      BY <2>1, <3>4 DEF KeysAreLicenses, R!Nowhere
  <2>2. CASE pending # "gone"
    BY <1>1, <2>2, OwnPath DEF KeysAreLicenses
  <2> QED
    BY <2>1, <2>2
<1>5. AddressIsShown'
  <2> SUFFICES ASSUME ~overtaken', expected' = R!Nothing
               PROVE  R!Shows(hist[at])'
    BY DEF AddressIsShown
  <2>1. CASE p = page /\ s = license
    BY <1>1, <2>1 DEF AddressIsShown, R!Shows
  <2>2. CASE p # page \/ s # license
    BY <1>1, <2>2, OwnPath DEF R!Shows
  <2> QED
    BY <2>1, <2>2
<1>6. LookedUpIsShown'
  BY DEF LookedUpIsShown
<1>7. WaitIsTimed'
  <2> SUFFICES ASSUME ~overtaken', expected' # R!Nothing
               PROVE  /\ expected'.page \in timers \ {p} /\ ~expected'.awaiting
                      /\ expected'.license \in {"any", s}
    BY <1>1 DEF WaitIsTimed
  <2>1. expected' = expected /\ expected # R!Nothing
    BY <1>1
  <2>2. expected.page \in timers \ {page} /\ ~expected.awaiting /\ expected.license \in {"any", license}
    BY <2>1 DEF WaitIsTimed
  <2>3. s = license
    BY <2>2
  <2>4. p # expected.page
    BY <1>1, <2>1, <2>2, <2>3 DEF R!CaughtUp
  <2> QED
    BY <2>1, <2>2, <2>3, <2>4
<1> QED
  BY <1>2, <1>3, <1>4, <1>5, <1>6, <1>7

(* What leaves the page, the license and the address as they are.           *)
LEMMA ViewStays ==
    ASSUME RouteInv, started, UNCHANGED <<viewer, remembered, started, pending, timers, overtaken, R!view>>,
           loaded' \subseteq R!Licenses, loaded # {} => loaded' # {},
           adding' \in BOOLEAN, posting' \in BOOLEAN, made' \in BOOLEAN,
           dirty' \in BOOLEAN, dirty' => page = "settings",
           asking' \in R!Pages \union {R!Nowhere}, asking' # R!Nowhere => dirty',
           dialog' \in BOOLEAN, creating' \in BOOLEAN
    PROVE  RouteInv'
<1> USE DEF RouteInv, R!view
<1>1. RouteTypes'
  BY DEF RouteTypes
<1>2. StartsAnew' /\ EditsAreGuarded'
  BY DEF StartsAnew, EditsAreGuarded
<1>3. KeysAreLicenses'
  BY DEF KeysAreLicenses
<1>4. AddressIsShown' /\ LookedUpIsShown' /\ WaitIsTimed'
  BY DEF AddressIsShown, LookedUpIsShown, WaitIsTimed, R!Shows
<1> QED
  BY <1>1, <1>2, <1>3, <1>4

(* The requested address is applied.                                        *)
LEMMA StartStep ==
    ASSUME RouteInv, R!Start
    PROVE  RouteInv'
<1> USE DEF RouteInv
<1>0. RouteTypes /\ ~started /\ started' = TRUE
  BY DEF R!Start
<1> DEFINE target == IF hist[at].page = "root" /\ remembered # R!Nowhere THEN R!Path("licenses", remembered)
                     ELSE R!parseAppPath(hist[at])
           e == [page |-> target.page, license |-> "any", awaiting |-> target.key # R!Nowhere]
           h == R!Replaced(hist, at, target)
<1>1. /\ page' = target.page /\ pending' = target.key
      /\ R!Write(target.page, license, e, h, at)
      /\ remembered' = R!Nowhere
      /\ UNCHANGED <<viewer, license, loaded, timers, dirty, asking, dialog, adding, posting, made, creating, events, overtaken>>
  BY DEF R!Start, R!addition
<1>2. hist[at] \in RoutePaths
  BY <1>0 DEF RouteTypes
<1>3. /\ target \in RoutePaths /\ target.page \in R!Pages /\ target.key \in R!LicenseKeys \union {R!Nowhere}
      /\ target = R!Path(target.page, target.key)
      /\ target.key # R!Nowhere => target.page = "licenses"
  <2>1. CASE hist[at].page = "root" /\ remembered # R!Nowhere
    BY <1>0, <2>1 DEF RouteTypes, RoutePaths, R!Path, R!Pages, R!LicenseKeys, R!Resolves
  <2>2. CASE ~(hist[at].page = "root" /\ remembered # R!Nowhere)
    BY <1>0, <1>2, <2>2 DEF RouteTypes, RoutePaths, R!Path, R!Pages, R!parseAppPath, KeysAreLicenses
  <2> QED
    BY <2>1, <2>2
<1> HIDE DEF target
<1>4. /\ e \in Waits /\ e # R!Nothing /\ (e.awaiting <=> target.key # R!Nowhere)
      /\ e.page = target.page /\ e.license = "any"
  BY <1>3 DEF Waits, R!Nothing, R!Pages, R!Nowhere
<1> HIDE DEF e
<1>5. /\ h \in Seq(RoutePaths) /\ Len(h) = Len(hist) /\ h[at] = target
      /\ \A j \in 1..Len(hist) : j # at => h[j] = hist[j]
  BY <1>0, <1>3, Histories DEF RouteTypes
<1> HIDE DEF h
<1>6. license = R!Nowhere /\ timers = {} /\ ~dirty /\ asking = R!Nowhere /\ ~overtaken
  BY <1>0 DEF StartsAnew
<1>7. CASE target.key = R!Nowhere
  <2>1. /\ expected' = R!Nothing /\ hist' = R!Replaced(h, at, R!pathForState(target.page, license)) /\ at' = at
    BY <1>1, <1>4, <1>7 DEF R!Write, R!CaughtUp
  <2>2. R!pathForState(target.page, license) = target
    BY <1>3, <1>6, <1>7 DEF R!pathForState, R!Path
  <2>3. hist' \in Seq(RoutePaths) /\ Len(hist') = Len(hist) /\ hist'[at] = target
        /\ \A j \in 1..Len(hist) : j # at => hist'[j] = hist[j]
    <3>1. at \in 1..Len(h)
      BY <1>0, <1>5 DEF RouteTypes
    <3>2. /\ R!Replaced(h, at, target) \in Seq(RoutePaths) /\ Len(R!Replaced(h, at, target)) = Len(h)
          /\ R!Replaced(h, at, target)[at] = target
          /\ \A j \in 1..Len(h) : j # at => R!Replaced(h, at, target)[j] = h[j]
      BY <1>3, <1>5, <3>1, Histories, Zenon
    <3>3. hist' = R!Replaced(h, at, target)
      BY <2>1, <2>2
    <3> QED
      BY <1>5, <3>2, <3>3
  <2>4. RouteTypes'
    BY <1>0, <1>1, <1>3, <2>1, <2>3 DEF RouteTypes, Waits, R!Nothing
  <2>5. R!Shows(hist[at])'
    BY <1>1, <1>3, <1>6, <1>7, <2>1, <2>3 DEF R!Shows, R!parseAppPath
  <2>6. KeysAreLicenses'
    <3>1. pending' # "gone"
      BY <1>1, <1>7 DEF R!Nowhere
    <3>2. \A j \in 1..Len(hist') : hist'[j].key # "gone"
      <4> SUFFICES ASSUME NEW j \in 1..Len(hist'), hist'[j].key = "gone"
                   PROVE  FALSE
        OBVIOUS
      <4>1. j # at
        BY <1>7, <2>3 DEF R!Nowhere
      <4>2. Len(hist) = 1
        BY <2>3, <4>1 DEF KeysAreLicenses
      <4> QED
        BY <1>0, <2>3, <4>1, <4>2 DEF RouteTypes
    <3> QED
      BY <1>7, <2>3, <3>1, <3>2 DEF KeysAreLicenses
  <2> QED
    BY <1>0, <1>1, <1>6, <1>7, <2>1, <2>4, <2>5, <2>6
       DEF StartsAnew, EditsAreGuarded, AddressIsShown, LookedUpIsShown, WaitIsTimed
<1>8. CASE target.key # R!Nowhere
  <2>1. expected' = e /\ hist' = h /\ at' = at
    BY <1>1, <1>4, <1>8 DEF R!Write, R!CaughtUp
  <2>2. RouteTypes'
    BY <1>0, <1>1, <1>3, <1>4, <1>5, <2>1 DEF RouteTypes
  <2>3. e = [page |-> "licenses", license |-> "any", awaiting |-> TRUE]
    BY <1>3, <1>8 DEF e
  <2>4. KeysAreLicenses'
    <3>1. ASSUME NEW j \in 1..Len(hist'), hist'[j].key = "gone"
          PROVE  Len(hist') = 1 /\ pending' = "gone"
      <4>1. CASE j = at
        <5>1. pending' = "gone" /\ target.key = "gone"
          BY <1>1, <1>5, <2>1, <3>1, <4>1
        <5>2. hist[at].key = "gone"
          BY <1>0, <5>1 DEF target, R!Path, R!parseAppPath, RouteTypes, R!Nowhere
        <5> QED
          BY <1>0, <1>5, <2>1, <5>1, <5>2 DEF KeysAreLicenses, RouteTypes
      <4>2. CASE j # at
        <5>1. Len(hist) = 1
          BY <1>5, <2>1, <3>1, <4>2 DEF KeysAreLicenses
        <5> QED
          <6>1. Len(hist') = 1 /\ at \in 1..1 /\ j \in 1..1
            BY <1>0, <1>5, <2>1, <3>1, <5>1 DEF RouteTypes
          <6> QED
            BY <4>2, <6>1
      <4> QED
        BY <4>1, <4>2
    <3>2. ASSUME pending' = "gone"
          PROVE  Len(hist') = 1
      <4>1. hist'[at].key = "gone" /\ at \in 1..Len(hist')
        BY <1>0, <1>1, <1>5, <2>1, <3>2 DEF RouteTypes
      <4> QED
        BY <3>1, <4>1
    <3> QED
      BY <1>1, <1>3, <1>5, <1>6, <2>1, <2>3, <3>1, <3>2 DEF KeysAreLicenses
  <2> QED
    BY <1>0, <1>1, <1>3, <1>5, <1>6, <1>8, <2>1, <2>2, <2>4
       DEF StartsAnew, EditsAreGuarded, AddressIsShown, LookedUpIsShown, WaitIsTimed
<1> QED
  BY <1>7, <1>8

(* What is pushed is the address of what is shown, and nothing is waited    *)
(* for.                                                                     *)
LEMMA PushStep ==
    ASSUME RouteInv, R!Ready, NEW i \in 1..Len(hist), pending # "gone",
           expected' = R!Nothing, at' = i + 1,
           hist' = R!Pushed(hist, i, R!pathForState(page, license)),
           UNCHANGED <<viewer, page, license, remembered, started, pending, loaded, dirty, asking, dialog,
                       adding, posting, made, creating, overtaken>>,
           timers' \subseteq timers
    PROVE  RouteInv'
<1> USE DEF RouteInv
<1>0. RouteTypes /\ started
  BY DEF R!Ready
<1> DEFINE d == R!pathForState(page, license)
<1>1. d \in RoutePaths /\ d.key # "gone" /\ (d.key # R!Nowhere => d.page = "licenses")
      /\ (page = "licenses" => d = R!Path("licenses", license))
  BY <1>0, OwnPath, Zenon DEF RouteTypes
<1>2. R!parseAppPath(d).page = page /\ (page = "licenses" =>
        (d.key # R!Nowhere /\ R!Resolves[d.key] = license) \/ (d.key = R!Nowhere /\ license = R!Nowhere))
  BY <1>0, OwnPath, Zenon DEF RouteTypes
<1>3. /\ hist' \in Seq(RoutePaths) /\ Len(hist') = i + 1 /\ hist'[i + 1] = d
      /\ \A j \in 1..i : hist'[j] = hist[j]
  <2>1. hist \in Seq(RoutePaths) /\ hist' = R!Pushed(hist, i, d)
    BY <1>0 DEF RouteTypes
  <2>2. d \in RoutePaths
    BY <1>1
  <2> HIDE DEF d
  <2>3. /\ R!Pushed(hist, i, d) \in Seq(RoutePaths) /\ Len(R!Pushed(hist, i, d)) = i + 1
        /\ R!Pushed(hist, i, d)[i + 1] = d /\ \A j \in 1..i : R!Pushed(hist, i, d)[j] = hist[j]
    BY <2>1, <2>2, Histories
  <2> QED
    BY <2>1, <2>3
<1> HIDE DEF d
<1>4. /\ i \in Nat /\ at' \in 1..Len(hist') /\ hist'[at'] = d
      /\ \A j \in 1..Len(hist') : hist'[j] = d \/ (j \in 1..Len(hist) /\ hist'[j] = hist[j])
  BY <1>0, <1>3 DEF RouteTypes
<1>5. RouteTypes'
  BY <1>0, <1>3, <1>4 DEF RouteTypes, Waits, R!Nothing
<1>6. KeysAreLicenses'
  BY <1>0, <1>1, <1>4 DEF KeysAreLicenses
<1>7. AddressIsShown'
  BY <1>2, <1>4 DEF AddressIsShown, R!Shows
<1>8. LookedUpIsShown'
  <2>1. pending # R!Nowhere /\ ~overtaken => page = "licenses"
    BY <1>0 DEF LookedUpIsShown, R!Ready, R!ResolveDue
  <2> QED
    BY <1>1, <1>4, <2>1 DEF LookedUpIsShown
<1> QED
  BY <1>0, <1>5, <1>6, <1>7, <1>8 DEF StartsAnew, EditsAreGuarded, WaitIsTimed

LEMMA ResolveStep ==
    ASSUME RouteInv, R!Resolve
    PROVE  RouteInv'
<1> USE DEF RouteInv
<1>0. /\ RouteTypes /\ started /\ pending # R!Nowhere /\ pending' = R!Nowhere
      /\ UNCHANGED <<viewer, remembered, started, loaded, timers, asking, dialog, adding, posting, made, creating>>
      /\ overtaken' = (overtaken \/ R!Resolves[pending] \notin loaded \union {R!Nowhere})
  BY DEF R!Resolve, R!ResolveDue, R!addition
<1> DEFINE found == IF R!Resolves[pending] \in loaded THEN R!Resolves[pending] ELSE R!Nowhere
<1>1. /\ found \in R!Licenses \union {R!Nowhere} /\ overtaken' \in BOOLEAN
      /\ pending = "gone" => found = R!Nowhere
      /\ found = R!Nowhere /\ ~overtaken' => pending = "gone" /\ ~overtaken
      /\ found # R!Nowhere => found = R!Resolves[pending] /\ overtaken' = overtaken
      /\ \A l \in R!Licenses : R!Resolves[l] = l /\ l # R!Nowhere
  <2>1. /\ \A l \in R!Licenses : R!Resolves[l] = l /\ l # R!Nowhere
        /\ R!Resolves["gone"] = R!Nowhere /\ R!Nowhere \notin R!Licenses
        /\ \A k \in R!LicenseKeys : k # "gone" => R!Resolves[k] \in R!Licenses
    BY DEF R!LicenseKeys, R!Resolves, R!Licenses, R!Created, R!Nowhere
  <2>2. loaded \subseteq R!Licenses /\ pending \in R!LicenseKeys /\ overtaken \in BOOLEAN
    BY <1>0 DEF RouteTypes
  <2> QED
    BY <1>0, <2>1, <2>2
<1> HIDE DEF found
<1>2. CASE found = R!Nowhere
  <2>1. /\ expected' = R!Nothing /\ hist' = R!Replaced(hist, at, R!Path("licenses", R!Nowhere))
        /\ UNCHANGED <<at, page, license, dirty>>
    BY <1>2 DEF R!Resolve, found
  <2>2. R!Path("licenses", R!Nowhere) \in RoutePaths
    BY DEF R!Path, RoutePaths, R!Pages
  <2>3. /\ hist' \in Seq(RoutePaths) /\ Len(hist') = Len(hist) /\ hist'[at] = R!Path("licenses", R!Nowhere)
        /\ \A j \in 1..Len(hist) : j # at => hist'[j] = hist[j]
    <3> DEFINE d == R!Path("licenses", R!Nowhere)
    <3>1. hist \in Seq(RoutePaths) /\ at \in 1..Len(hist)
      BY <1>0 DEF RouteTypes
    <3>2. d \in RoutePaths
      BY <2>2
    <3> HIDE DEF d
    <3>3. /\ R!Replaced(hist, at, d) \in Seq(RoutePaths) /\ Len(R!Replaced(hist, at, d)) = Len(hist)
          /\ R!Replaced(hist, at, d)[at] = d
          /\ \A j \in 1..Len(hist) : j # at => R!Replaced(hist, at, d)[j] = hist[j]
      BY <3>1, <3>2, Histories, Zenon
    <3> QED
      BY <2>1, <3>1, <3>3 DEF d
  <2>4. ~overtaken' => page = "licenses" /\ license = R!Nowhere
    BY <1>0, <1>1, <1>2 DEF LookedUpIsShown, KeysAreLicenses
  <2>5. RouteTypes'
    BY <1>0, <1>1, <2>1, <2>3 DEF RouteTypes, Waits, R!Nothing
  <2>6. KeysAreLicenses'
    <3>1. R!Path("licenses", R!Nowhere).key = R!Nowhere /\ R!Nowhere # "gone" /\ pending' # "gone"
      BY <1>0 DEF R!Path, R!Nowhere
    <3>2. at \in 1..Len(hist)
      BY <1>0 DEF RouteTypes
    <3>3. \A j \in 1..Len(hist') : hist'[j].key # "gone"
      <4> SUFFICES ASSUME NEW j \in 1..Len(hist'), hist'[j].key = "gone"
                   PROVE  FALSE
        OBVIOUS
      <4>1. j # at /\ hist[j].key = "gone" /\ j \in 1..Len(hist)
        BY <2>3, <3>1
      <4>2. Len(hist) = 1
        BY <4>1 DEF KeysAreLicenses
      <4> QED
        BY <3>2, <4>1, <4>2
    <3>4. \A j \in 1..Len(hist') : hist'[j].key # R!Nowhere => hist'[j].page = "licenses"
      BY <2>3, <3>1, <3>2 DEF KeysAreLicenses
    <3> QED
      BY <3>1, <3>3, <3>4 DEF KeysAreLicenses
  <2>7. AddressIsShown'
    <3>1. /\ R!Path("licenses", R!Nowhere).key = R!Nowhere
          /\ R!parseAppPath(R!Path("licenses", R!Nowhere)).page = "licenses"
      BY DEF R!Path, R!parseAppPath, R!Pages
    <3>2. hist'[at'] = R!Path("licenses", R!Nowhere)
      BY <2>1, <2>3
    <3> QED
      BY <1>0, <2>1, <2>4, <3>1, <3>2 DEF AddressIsShown, R!Shows
  <2> QED
    BY <1>0, <2>1, <2>5, <2>6, <2>7 DEF StartsAnew, EditsAreGuarded, LookedUpIsShown, WaitIsTimed
<1>3. CASE found # R!Nowhere /\ found = license /\ page = "licenses"
  <2>1. expected' = R!Nothing /\ UNCHANGED <<hist, at, page, license, dirty>>
    BY <1>3 DEF R!Resolve, found
  <2>2. RouteTypes'
    BY <1>0, <1>1, <2>1 DEF RouteTypes, Waits, R!Nothing
  <2>3. KeysAreLicenses'
    BY <1>0, <1>1, <1>3, <2>1 DEF KeysAreLicenses, R!Nowhere
  <2>4. AddressIsShown'
    <3> SUFFICES ASSUME ~overtaken
                 PROVE  R!Shows(hist[at])
      BY <1>0, <1>1, <1>3, <2>1 DEF AddressIsShown, R!Shows
    <3>1. hist[at] \in {R!Path("licenses", pending), R!Path("licenses", license)}
      BY <1>0, <1>3 DEF LookedUpIsShown
    <3> QED
      BY <1>0, <1>1, <1>3, <3>1 DEF R!Shows, R!Path, R!parseAppPath, R!Pages, found, RouteTypes
  <2> QED
    BY <1>0, <1>1, <1>3, <2>1, <2>2, <2>3, <2>4 DEF StartsAnew, EditsAreGuarded, LookedUpIsShown, WaitIsTimed
<1>4. CASE found # R!Nowhere /\ ~(found = license /\ page = "licenses")
  <2> DEFINE e == [page |-> "licenses", license |-> found, awaiting |-> FALSE]
  <2>1. R!Settle(page, found, e, hist, at)
    BY <1>4 DEF R!Resolve, found
  <2>2. e \in Waits /\ e # R!Nothing
    BY <1>1 DEF Waits, R!Pages, R!Nothing, R!Nowhere
  <2>3. /\ page' = page /\ license' = found /\ dirty' \in BOOLEAN /\ (dirty' <=> dirty /\ page = "settings")
        /\ hist' \in Seq(RoutePaths) /\ at' \in 1..Len(hist') /\ expected' \in {e, R!Nothing}
        /\ found = license => expected' = e
        /\ found # license /\ expected' = R!Nothing => hist'[at'] = R!pathForState(page, found)
        /\ found # license /\ expected' # R!Nothing => ~R!CaughtUp(page, found, e)
        /\ \A j \in 1..Len(hist') : hist'[j] = R!pathForState(page, found) \/ (j \in 1..Len(hist) /\ hist'[j] = hist[j])
    <3> HIDE DEF e
    <3> QED
      BY <1>0, <1>1, <2>1, <2>2, SettleRule DEF RouteTypes
  <2>4. RouteTypes'
    <3>0. R!Nothing \in Waits
      BY DEF Waits, R!Nothing
    <3> HIDE DEF e
    <3>1. expected' \in Waits
      BY <2>2, <2>3, <3>0
    <3> QED
      BY <1>0, <1>1, <2>3, <3>1 DEF RouteTypes
  <2>5. KeysAreLicenses'
    BY <1>0, <1>1, <1>4, <2>3, OwnPath DEF KeysAreLicenses, RouteTypes, R!Nowhere
  <2>6. AddressIsShown'
    BY <1>0, <1>1, <2>2, <2>3, OwnPath DEF AddressIsShown, R!Shows, RouteTypes
  <2>7. WaitIsTimed'
    <3> SUFFICES ASSUME ~overtaken, expected' # R!Nothing
                 PROVE  expected'.page \in timers \ {page} /\ ~expected'.awaiting /\ expected'.license = found
      BY <1>0, <1>1, <1>4, <2>3 DEF WaitIsTimed
    <3>1. expected' = e
      BY <2>3
    <3>2. page # "licenses"
      BY <1>4, <2>3, <3>1 DEF R!CaughtUp
    <3> QED
      BY <1>0, <3>1, <3>2 DEF LookedUpIsShown
  <2> QED
    BY <1>0, <2>3, <2>4, <2>5, <2>6, <2>7 DEF StartsAnew, EditsAreGuarded, LookedUpIsShown
<1> QED
  BY <1>2, <1>3, <1>4

(* Back or Forward to an entry, with no dialog open and nothing asked.      *)
LEMMA TraverseStep ==
    ASSUME RouteInv, R!Ready, NEW i \in 1..Len(hist), R!Traversed(i), Len(hist) > 1,
           UNCHANGED <<viewer, remembered, started, loaded, dialog, adding, posting, made, creating>>
    PROVE  RouteInv'
<1> USE DEF RouteInv
<1>0. RouteTypes /\ started /\ pending # "gone"
  BY DEF R!Ready, KeysAreLicenses
<1> DEFINE target == R!parseAppPath(hist[i])
           chosen == IF target.page = "licenses" /\ target.key = R!Nowhere THEN R!Nowhere ELSE "any"
           e == IF R!AlreadyShown(target) THEN R!Nothing
                ELSE [page |-> target.page, license |-> chosen, awaiting |-> target.key # R!Nowhere]
           p == IF R!Blocked(target) THEN page ELSE target.page
           s == IF chosen = R!Nowhere THEN R!Nowhere ELSE license
<1>1. /\ R!Settle(p, s, e, hist, i)
      /\ asking' = (IF R!Blocked(target) THEN target.page ELSE R!Nowhere)
      /\ timers' = (IF target.page # page THEN timers \union {target.page} ELSE timers)
      /\ pending' = (IF target.key # R!Nowhere THEN target.key ELSE pending)
      /\ overtaken' = (overtaken \/ pending # R!Nowhere \/ (R!Blocked(target) /\ target.key # R!Nowhere /\ loaded = {}))
  BY DEF R!Traversed
<1>2. hist[i] \in RoutePaths /\ (hist[i].key # R!Nowhere => hist[i].page = "licenses") /\ hist[i].key # "gone"
  BY <1>0 DEF RouteTypes, KeysAreLicenses
<1>3. /\ target.page \in R!Pages /\ target.key \in R!LicenseKeys \union {R!Nowhere} /\ target.key # "gone"
      /\ target.key # R!Nowhere => target.page = "licenses" /\ hist[i] = R!Path("licenses", target.key)
      /\ R!parseAppPath(hist[i]).page = target.page
      /\ target.key = R!Nowhere => hist[i].key = R!Nowhere \/ target.page # "licenses"
  BY <1>2 DEF RoutePaths, R!Path, R!Pages, R!parseAppPath, R!Nowhere
<1> HIDE DEF target
<1>4. /\ chosen \in {R!Nowhere, "any"} /\ (chosen = R!Nowhere <=> target.page = "licenses" /\ target.key = R!Nowhere)
      /\ s \in R!Licenses \union {R!Nowhere} /\ p \in R!Pages /\ s \in {license, R!Nowhere}
      /\ chosen = R!Nowhere => s = R!Nowhere
      /\ chosen = "any" => s = license
  BY <1>0, <1>3 DEF R!Nowhere, RouteTypes
<1>5. ~R!AlreadyShown(target) =>
        /\ e \in Waits /\ e # R!Nothing /\ e.page = target.page /\ e.license = chosen
        /\ e.awaiting <=> target.key # R!Nowhere
  BY <1>3, <1>4 DEF Waits, R!Nothing, R!Pages, R!Nowhere
<1>6. R!AlreadyShown(target) => e = R!Nothing /\ p = page /\ s = license
  BY <1>4 DEF R!AlreadyShown, R!Blocked
<1>7. e \in Waits
  <2>1. R!Nothing \in Waits
    BY DEF Waits, R!Nothing
  <2> QED
    BY <1>5, <1>6, <2>1
<1>8. /\ R!Blocked(target) => p = page /\ page = "settings" /\ dirty /\ target.page # page
      /\ ~R!Blocked(target) => p = target.page
  BY DEF R!Blocked, R!Guarded
<1>9. ~R!AlreadyShown(target) /\ target.key = R!Nowhere /\ ~R!Blocked(target) => p # page \/ s # license
  BY <1>4, <1>8 DEF R!AlreadyShown
<1> HIDE DEF chosen, e, p, s
<1>10. /\ page' = p /\ license' = s /\ dirty' \in BOOLEAN /\ (dirty' <=> dirty /\ p = "settings")
       /\ hist' \in Seq(RoutePaths) /\ at' \in 1..Len(hist') /\ expected' \in {e, R!Nothing}
       /\ expected' # R!Nothing => expected' = e /\ hist' = hist /\ at' = i
       /\ p = page /\ s = license => expected' = e /\ hist' = hist /\ at' = i
       /\ p # page \/ s # license =>
             /\ expected' = R!Nothing => hist'[at'] = R!pathForState(p, s)
             /\ expected' # R!Nothing => ~R!CaughtUp(p, s, e)
       /\ \A j \in 1..Len(hist') : hist'[j] = R!pathForState(p, s) \/ (j \in 1..Len(hist) /\ hist'[j] = hist[j])
  BY <1>0, <1>1, <1>4, <1>7, SettleRule DEF RouteTypes
<1>11. RouteTypes'
  <2>1. expected' \in Waits
    <3>1. R!Nothing \in Waits
      BY DEF Waits, R!Nothing
    <3> QED
      BY <1>7, <1>10, <3>1
  <2>2. /\ asking' \in R!Pages \union {R!Nowhere} /\ timers' \subseteq R!Pages
        /\ pending' \in R!LicenseKeys \union {R!Nowhere} /\ overtaken' \in BOOLEAN
    BY <1>0, <1>1, <1>3 DEF RouteTypes
  <2> QED
    BY <1>0, <1>4, <1>10, <2>1, <2>2 DEF RouteTypes
<1>12. StartsAnew' /\ EditsAreGuarded'
  BY <1>0, <1>1, <1>8, <1>10 DEF StartsAnew, EditsAreGuarded, R!Traversed
<1>13. KeysAreLicenses'
  <2>1. pending' # "gone"
    BY <1>0, <1>1, <1>3
  <2>2. \A j \in 1..Len(hist') :
          (hist'[j].key # R!Nowhere => hist'[j].page = "licenses") /\ hist'[j].key # "gone"
    BY <1>0, <1>4, <1>10, OwnPath DEF KeysAreLicenses
  <2> QED
    BY <2>1, <2>2 DEF KeysAreLicenses
<1>14. AddressIsShown'
  <2> SUFFICES ASSUME ~overtaken', expected' = R!Nothing, pending' = R!Nowhere
               PROVE  R!Shows(hist[at])'
    BY DEF AddressIsShown
  <2>1. target.key = R!Nowhere
    BY <1>1
  <2>2. CASE p = page /\ s = license
    <3>1. R!AlreadyShown(target) /\ hist' = hist /\ at' = i
      BY <1>5, <1>10, <2>2
    <3> QED
      BY <1>3, <1>10, <2>1, <2>2, <3>1 DEF R!AlreadyShown, R!Shows
  <2>3. CASE p # page \/ s # license
    BY <1>4, <1>10, <2>3, OwnPath DEF R!Shows
  <2> QED
    BY <2>2, <2>3
<1>15. LookedUpIsShown'
  <2> SUFFICES ASSUME ~overtaken', pending' # R!Nowhere
               PROVE  LookedUpIsShown'
    BY DEF LookedUpIsShown
  <2>1. pending = R!Nowhere /\ target.key # R!Nowhere /\ pending' = target.key /\ (R!Blocked(target) => loaded # {})
    BY <1>0, <1>1 DEF RouteTypes
  <2>2. CASE R!Blocked(target)
    <3>1. page' = "settings" /\ "licenses" \in timers'
      BY <1>1, <1>3, <1>8, <1>10, <2>1, <2>2
    <3> QED
      BY <2>1, <2>2, <3>1 DEF LookedUpIsShown
  <2>3. CASE ~R!Blocked(target)
    <3>1. p = "licenses" /\ hist[i] = R!Path("licenses", pending')
      BY <1>3, <1>8, <2>1, <2>3
    <3>2. CASE expected' = R!Nothing /\ (p # page \/ s # license)
      BY <1>4, <1>10, <3>1, <3>2, OwnPath DEF LookedUpIsShown
    <3>3. CASE ~(expected' = R!Nothing /\ (p # page \/ s # license))
      BY <1>10, <3>1, <3>3 DEF LookedUpIsShown
    <3> QED
      BY <3>2, <3>3
  <2> QED
    BY <2>2, <2>3
<1>16. WaitIsTimed'
  <2> SUFFICES ASSUME ~overtaken', expected' # R!Nothing, pending' = R!Nowhere
               PROVE  /\ expected'.page \in timers' \ {p} /\ ~expected'.awaiting
                      /\ expected'.license \in {"any", s}
    BY <1>10 DEF WaitIsTimed
  <2>1. target.key = R!Nowhere /\ expected' = e /\ e # R!Nothing /\ ~R!AlreadyShown(target)
    BY <1>1, <1>6, <1>10
  <2>2. e.page = target.page /\ e.license = chosen /\ ~e.awaiting /\ e.license \in {"any", s}
    BY <1>4, <1>5, <2>1
  <2>3. R!Blocked(target)
    <3> SUFFICES ASSUME ~R!Blocked(target)
                 PROVE  FALSE
      OBVIOUS
    <3>1. R!CaughtUp(p, s, e)
      BY <1>8, <2>2 DEF R!CaughtUp
    <3> QED
      BY <1>9, <1>10, <2>1, <3>1
  <2> QED
    BY <1>1, <1>8, <2>1, <2>2, <2>3
<1> QED
  BY <1>11, <1>12, <1>13, <1>14, <1>15, <1>16

(* Invariant of the addresses, one action at a time.                        *)
LEMMA RouteStep ==
    ASSUME RouteInv, R!Next
    PROVE  RouteInv'
<1>0. RouteTypes
  BY DEF RouteInv
<1>1. CASE R!Start
  BY <1>1, StartStep
<1>2. CASE R!Resolve
  BY <1>2, ResolveStep
<1>3. CASE R!Redirect
  <2>1. /\ started /\ page \notin {"licenses", "settings"} /\ R!Show("licenses", license)
        /\ UNCHANGED <<viewer, remembered, started, pending, loaded, timers, asking, dialog, adding, posting, made,
                       creating, overtaken>>
    BY <1>3 DEF R!Redirect, R!RedirectDue, R!viewerRestricted, R!addition
  <2>2. asking = R!Nowhere /\ (~overtaken => pending = R!Nowhere)
    BY <2>1 DEF RouteInv, EditsAreGuarded, LookedUpIsShown
  <2>3. "licenses" \in R!Pages /\ license \in R!Licenses \union {R!Nowhere}
    BY <1>0 DEF RouteTypes, R!Pages
  <2> QED
    BY <1>0, <2>1, <2>2, <2>3, ShowStep DEF RouteTypes
<1>4. CASE R!Reload
  <2>1. RouteTypes'
    BY <1>0, <1>4 DEF R!Reload, RouteTypes, Waits, R!Nothing, R!Pages
  <2>2. KeysAreLicenses'
    BY <1>4 DEF R!Reload, RouteInv, KeysAreLicenses, R!Nowhere
  <2> QED
    BY <1>4, <2>1, <2>2 DEF R!Reload, RouteInv, StartsAnew, EditsAreGuarded, AddressIsShown, LookedUpIsShown, WaitIsTimed
<1>5. CASE R!Load
  <2>1. /\ started /\ loaded' \subseteq R!Licenses /\ loaded' # {}
        /\ UNCHANGED <<viewer, remembered, started, pending, timers, overtaken, R!view, dirty, asking,
                       dialog, adding, posting, made, creating>>
    BY <1>5 DEF R!Load, R!addition, R!Licenses, R!Created
  <2> QED
    BY <1>0, <2>1, ViewStays DEF RouteTypes, RouteInv, EditsAreGuarded
<1>6. CASE R!EditSettings \/ R!SaveSettings \/ R!OpenDialog \/ R!AddLicense \/ R!CreateContract
  <2>1. started /\ asking = R!Nowhere /\ (dirty => page = "settings") /\ timers = {}
    BY <1>6 DEF R!EditSettings, R!SaveSettings, R!OpenDialog, R!AddLicense, R!CreateContract, R!User,
                R!Ready, RouteInv, EditsAreGuarded
  <2>2. /\ UNCHANGED <<viewer, remembered, started, pending, timers, overtaken, R!view>>
        /\ loaded' = loaded /\ asking' = asking
        /\ dirty' \in BOOLEAN /\ (dirty' => page = "settings")
        /\ dialog' \in BOOLEAN /\ creating' \in BOOLEAN
        /\ adding' \in BOOLEAN /\ posting' = posting /\ made' = made
    <3>0. /\ dirty \in BOOLEAN /\ dialog \in BOOLEAN /\ creating \in BOOLEAN
          /\ adding \in BOOLEAN
      BY <1>0 DEF RouteTypes
    <3> USE DEF R!addition
    <3>1. CASE R!EditSettings
      BY <2>1, <3>0, <3>1 DEF R!EditSettings
    <3>2. CASE R!SaveSettings
      BY <2>1, <3>0, <3>2 DEF R!SaveSettings
    <3>3. CASE R!OpenDialog
      BY <2>1, <3>0, <3>3 DEF R!OpenDialog
    <3>4. CASE R!AddLicense
      BY <2>1, <3>0, <3>4 DEF R!AddLicense
    <3>5. CASE R!CreateContract
      BY <2>1, <3>0, <3>5 DEF R!CreateContract
    <3> QED
      BY <1>6, <3>1, <3>2, <3>3, <3>4, <3>5
  <2> QED
    BY <1>0, <2>1, <2>2, ViewStays DEF RouteTypes
<1>7. CASE R!CloseDialog \/ R!StayInSettings \/ R!SubmitOrCancel \/ R!LicenseRefused
  <2>1. /\ started /\ UNCHANGED <<viewer, remembered, started, pending, timers, overtaken, R!view>>
        /\ loaded' = loaded /\ creating' = creating /\ dirty' = dirty
        /\ asking' \in {asking, R!Nowhere} /\ dialog' \in {dialog, FALSE}
        /\ made' = made /\ adding' \in {adding, FALSE} /\ posting' \in {posting, TRUE, FALSE}
    BY <1>7 DEF R!CloseDialog, R!StayInSettings, R!SubmitOrCancel, R!LicenseRefused, R!Ready, R!addition
  <2>2. loaded' \subseteq R!Licenses /\ dirty' \in BOOLEAN /\ creating' \in BOOLEAN /\ dialog' \in BOOLEAN
        /\ {made', adding', posting'} \subseteq BOOLEAN /\ asking' \in R!Pages \union {R!Nowhere}
    BY <1>0, <2>1 DEF RouteTypes
  <2> QED
    BY <1>0, <2>1, <2>2, ViewStays DEF RouteInv, EditsAreGuarded
<1>8. ASSUME NEW p \in R!Pages, NEW s \in R!Licenses \union {R!Nowhere}, R!Navigate(p, s)
      PROVE  RouteInv'
  <2>1. /\ started /\ timers = {}
        /\ overtaken' = (overtaken \/ pending # R!Nowhere)
        /\ UNCHANGED <<viewer, remembered, started, pending, loaded, timers, dialog, adding, posting, made, creating>>
    BY <1>8 DEF R!Navigate, R!User, R!Ready, R!Moves, R!addition
  <2>2. PICK q \in R!Pages :
           /\ R!Show(q, s) /\ asking' \in R!Pages \union {R!Nowhere}
           /\ asking' # R!Nowhere => dirty /\ q = "settings"
    BY <1>0, <1>8 DEF R!Navigate, R!Guarded, RouteTypes
  <2> QED
    BY <1>0, <2>1, <2>2, ShowStep DEF RouteTypes
<1>9. ASSUME NEW l \in R!Licenses \union {R!Nowhere}, R!SelectLicense(l)
      PROVE  RouteInv'
  <2>1. /\ started /\ timers = {} /\ asking' = R!Nowhere
        /\ overtaken' = (overtaken \/ pending # R!Nowhere) /\ R!Show(page, l)
        /\ UNCHANGED <<viewer, remembered, started, pending, loaded, timers, dialog, adding, posting, made, creating>>
    BY <1>9 DEF R!SelectLicense, R!User, R!Ready, R!Moves, R!addition
  <2> QED
    BY <1>0, <2>1, ShowStep DEF RouteTypes
<1>10. ASSUME NEW p \in R!Pages, NEW l \in R!Licenses \union {R!Nowhere}, R!Follow(p, l)
       PROVE  RouteInv'
  <2>1. /\ started /\ timers = {} /\ asking' = R!Nowhere
        /\ overtaken' = (overtaken \/ pending # R!Nowhere) /\ R!Show(p, l)
        /\ UNCHANGED <<viewer, remembered, started, pending, loaded, timers, dialog, adding, posting, made, creating>>
    BY <1>10 DEF R!Follow, R!User, R!Ready, R!Moves, R!addition
  <2> QED
    BY <1>0, <2>1, ShowStep DEF RouteTypes
<1>11. CASE R!LeaveSettings
  <2>1. /\ started /\ timers = {} /\ asking \in R!Pages /\ dirty /\ page = "settings"
        /\ ~R!ResolveDue
    BY <1>0, <1>11 DEF R!LeaveSettings, R!Ready, RouteTypes, RouteInv, EditsAreGuarded
  <2>2. asking' = R!Nowhere /\ overtaken' = (overtaken \/ pending # R!Nowhere) /\ page' = asking
        /\ license' = license /\ dirty' = FALSE
        /\ UNCHANGED <<viewer, remembered, started, pending, loaded, timers, dialog, adding, posting, made, creating>>
    BY <1>11 DEF R!LeaveSettings, R!Moves, R!addition
  <2>3. CASE page = asking
    <3>1. UNCHANGED <<expected, hist, at>>
      BY <1>11, <2>3 DEF R!LeaveSettings
    <3>2. RouteTypes'
      BY <1>0, <2>2, <2>3, <3>1 DEF RouteTypes
    <3>3. KeysAreLicenses'
      BY <2>2, <3>1 DEF RouteInv, KeysAreLicenses
    <3> QED
      BY <1>0, <2>1, <2>2, <2>3, <3>1, <3>2, <3>3
         DEF RouteInv, StartsAnew, EditsAreGuarded, AddressIsShown, LookedUpIsShown, WaitIsTimed, R!Shows
  <2>4. CASE page # asking
    <3>1. R!Settle(asking, license, expected, hist, at)
      BY <1>11, <2>1, <2>2, <2>4 DEF R!LeaveSettings, R!Settle
    <3>2. R!Show(asking, license)
      BY <3>1 DEF R!Show
    <3> QED
      BY <1>0, <2>1, <2>2, <3>2, ShowStep DEF RouteTypes
  <2> QED
    BY <2>3, <2>4
<1>12. CASE R!ContractCreated
  <2>1. /\ started /\ asking' = R!Nowhere /\ "reports" \in R!Pages
        /\ overtaken' = (overtaken \/ pending # R!Nowhere) /\ R!Show("reports", license)
        /\ dialog' = (dialog /\ page = "reports") /\ creating' = FALSE
        /\ UNCHANGED <<viewer, remembered, started, pending, loaded, timers, adding, posting, made>>
    BY <1>12 DEF R!ContractCreated, R!Ready, R!Moves, R!Pages, R!addition, RouteInv, EditsAreGuarded
  <2> QED
    BY <1>0, <2>1, ShowStep DEF RouteTypes
<1>13. ASSUME NEW p \in R!Pages, R!Restore(p)
       PROVE  RouteInv'
  <2>1. /\ R!Ready /\ p \in timers /\ timers' = timers \ {p} /\ started
        /\ UNCHANGED <<viewer, page, license, remembered, started, pending, loaded, dirty, asking, dialog,
                       adding, posting, made, creating, overtaken>>
    BY <1>13 DEF R!Restore, R!Ready, R!addition
  <2>2. CASE page = p
    <3>1. UNCHANGED <<expected, hist, at>>
      BY <1>13, <2>2 DEF R!Restore
    <3>2. RouteTypes'
      BY <1>0, <2>1, <3>1 DEF RouteTypes
    <3>3. KeysAreLicenses'
      BY <2>1, <3>1 DEF RouteInv, KeysAreLicenses
    <3>4. AddressIsShown' /\ WaitIsTimed'
      BY <2>1, <2>2, <3>1 DEF RouteInv, AddressIsShown, WaitIsTimed, R!Shows
    <3>5. LookedUpIsShown'
      BY <2>1, <2>2, <3>1 DEF RouteInv, LookedUpIsShown, R!Ready, R!ResolveDue
    <3> QED
      BY <2>1, <3>1, <3>2, <3>3, <3>4, <3>5 DEF RouteInv, StartsAnew, EditsAreGuarded
  <2>3. CASE page # p
    <3>1. pending # "gone"
      BY <2>1 DEF RouteInv, KeysAreLicenses
    <3>2. /\ expected' = R!Nothing /\ hist' = R!Pushed(hist, at, R!pathForState(page, license))
          /\ at' = at + 1
      BY <1>13, <2>3 DEF R!Restore
    <3> QED
      BY <1>0, <2>1, <3>1, <3>2, PushStep DEF RouteTypes
  <2> QED
    BY <2>2, <2>3
<1>14. ASSUME NEW i \in {at - 1, at + 1}, R!PopState(i)
       PROVE  RouteInv'
  <2>1. /\ R!Ready /\ i \in 1..Len(hist) /\ Len(hist) > 1
        /\ UNCHANGED <<viewer, remembered, started, loaded, dialog, adding, posting, made, creating>>
    BY <1>0, <1>14 DEF R!PopState, R!addition, RouteTypes
  <2>2. CASE R!Kept(i)
    <3>1. pending # "gone"
      BY <2>1 DEF RouteInv, KeysAreLicenses
    <3> QED
      BY <2>1, <2>2, <3>1, PushStep DEF R!Kept
  <2>3. CASE R!Traversed(i)
    BY <2>1, <2>3, TraverseStep
  <2> QED
    BY <1>14, <2>2, <2>3 DEF R!PopState
<1>15. CASE R!LicenseCreated
  <2>1. PICK s \in {license, R!Created} :
            /\ R!Show("licenses", s)
            /\ overtaken' = (overtaken \/ pending # R!Nowhere \/ (s # license /\ timers # {}))
    BY <1>15 DEF R!LicenseCreated
  <2>2. /\ started /\ asking' = R!Nowhere /\ "licenses" \in R!Pages /\ R!Created \in R!Licenses
        /\ dialog' = (dialog /\ page = "licenses") /\ posting' = FALSE /\ adding' = FALSE /\ made' = TRUE
        /\ loaded' = loaded \ {R!Created}
        /\ UNCHANGED <<viewer, remembered, started, pending, timers, creating>>
    BY <1>15 DEF R!LicenseCreated, R!Ready, R!Pages, R!Licenses
  <2>3. /\ s \in R!Licenses \union {R!Nowhere} /\ (s = license \/ timers = {} \/ overtaken')
        /\ overtaken' \in BOOLEAN /\ (~overtaken' => ~overtaken /\ pending = R!Nowhere)
        /\ loaded' \subseteq R!Licenses /\ {dialog', posting', adding', made', creating'} \subseteq BOOLEAN
    BY <1>0, <2>1, <2>2 DEF RouteTypes
  <2> QED
    BY <2>1, <2>2, <2>3, ShowStep
<1>16. R!Nowhere \in R!Licenses \union {R!Nowhere} /\ license \in R!Licenses \union {R!Nowhere}
  BY <1>0 DEF RouteTypes
<1> QED
  BY <1>1, <1>2, <1>3, <1>4, <1>5, <1>6, <1>7, <1>8, <1>9, <1>10, <1>11, <1>12, <1>13, <1>14, <1>15, <1>16
     DEF R!Next, R!Sidebar, R!TopBar

LEMMA RouteAsks ==
    ASSUME RouteInv, R!Next
    PROVE  R!AsksBeforeLeaving
<1> SUFFICES ASSUME page = "settings", dirty, page' # "settings"
             PROVE  \/ asking # R!Nowhere \/ ~started'
                    \/ posting /\ ~posting'
                    \/ creating /\ ~creating'
  BY DEF R!AsksBeforeLeaving
<1>0. RouteTypes /\ started /\ page \notin {"licenses", "sourcing"} /\ R!Guarded
  BY DEF RouteInv, StartsAnew, R!Guarded
<1>1. ASSUME NEW p, NEW s, R!Show(p, s)
      PROVE  page' = p
  BY <1>1 DEF R!Show, R!Settle
<1>2. ASSUME NEW p, NEW s, R!Navigate(p, s)
      PROVE  FALSE
  BY <1>0, <1>1, <1>2 DEF R!Navigate
<1>3. ASSUME NEW i, R!PopState(i)
      PROVE  FALSE
  BY <1>0, <1>3 DEF R!PopState, R!Kept, R!Traversed, R!Blocked, R!Settle
<1>4. ~R!Start /\ ~R!Load /\ ~R!Redirect /\ (R!Resolve => FALSE)
  BY <1>0 DEF R!Start, R!Load, R!Redirect, R!RedirectDue, R!viewerRestricted, R!Resolve, R!Settle, R!view
<1>5. R!Reload => ~started'
  BY DEF R!Reload
<1>6. ASSUME NEW p, R!Restore(p)
      PROVE  FALSE
  BY <1>6 DEF R!Restore
<1>7. ASSUME NEW p, NEW l, R!SelectLicense(l) \/ R!Follow(p, l)
      PROVE  FALSE
  BY <1>0, <1>7 DEF R!SelectLicense, R!Follow
<1>8. /\ ~R!EditSettings /\ ~R!SaveSettings /\ ~R!OpenDialog /\ ~R!CloseDialog /\ ~R!StayInSettings
      /\ ~R!AddLicense /\ ~R!SubmitOrCancel /\ ~R!LicenseRefused /\ ~R!CreateContract
  BY DEF R!EditSettings, R!SaveSettings, R!OpenDialog, R!CloseDialog, R!StayInSettings, R!AddLicense,
         R!SubmitOrCancel, R!LicenseRefused, R!CreateContract, R!view
<1>9. R!LeaveSettings => asking # R!Nowhere
  BY DEF R!LeaveSettings
<1>10. R!ContractCreated => creating /\ ~creating'
  BY DEF R!ContractCreated
<1>11. R!LicenseCreated => posting /\ ~posting'
  BY DEF R!LicenseCreated
<1> QED
  BY <1>2, <1>3, <1>4, <1>5, <1>6, <1>7, <1>8, <1>9, <1>10, <1>11 DEF R!Next, R!Sidebar, R!TopBar

LEMMA RouteStart == R!Init => RouteInv
<1> SUFFICES ASSUME R!Init
             PROVE  RouteInv
  OBVIOUS
<1>1. PICK q \in R!Requested : hist = <<q>>
  BY DEF R!Init
<1>2. q \in RoutePaths /\ (q.key # R!Nowhere => q.page = "licenses")
  BY DEF R!Requested, RoutePaths, R!Path, R!Pages, R!LicenseKeys, R!Resolves
<1> HIDE DEF RoutePaths
<1>3. hist \in Seq(RoutePaths) /\ Len(hist) = 1 /\ hist[1] = q
  BY <1>1, <1>2
<1>4. RouteTypes
  <2>1. R!Nothing \in Waits
    BY DEF Waits, R!Nothing
  <2>2. "licenses" \in R!Pages
    BY DEF R!Pages
  <2> QED
    <3>1. /\ at \in 1..Len(hist) /\ remembered \in {R!Nowhere, "LT1"} /\ viewer \in BOOLEAN
          /\ expected \in Waits /\ page \in R!Pages
      BY <1>3, <2>1, <2>2 DEF R!Init, R!Fresh
    <3>2. /\ started \in BOOLEAN /\ loaded \subseteq R!Licenses /\ dirty \in BOOLEAN /\ dialog \in BOOLEAN
          /\ adding \in BOOLEAN /\ posting \in BOOLEAN /\ made \in BOOLEAN /\ creating \in BOOLEAN /\ overtaken \in BOOLEAN
      BY DEF R!Init, R!Fresh
    <3>3. /\ license \in R!Licenses \union {R!Nowhere} /\ pending \in R!LicenseKeys \union {R!Nowhere}
          /\ timers \subseteq R!Pages /\ asking \in R!Pages \union {R!Nowhere}
      BY DEF R!Init, R!Fresh
    <3> QED
      BY <1>3, <3>1, <3>2, <3>3 DEF RouteTypes
<1>5. KeysAreLicenses
  BY <1>2, <1>3 DEF R!Init, R!Fresh, KeysAreLicenses, R!Nowhere
<1> QED
  BY <1>4, <1>5 DEF R!Init, R!Fresh, RouteInv, StartsAnew, EditsAreGuarded, AddressIsShown, LookedUpIsShown,
                    WaitIsTimed

(* A step of the client keeps the invariant, whatever area it is of.        *)
LEMMA RouteKept ==
    ASSUME RouteInv, MCNext \/ UNCHANGED routes
    PROVE  RouteInv'
<1>1. CASE UNCHANGED routes
  BY <1>1 DEF routes, RouteInv, RouteTypes, StartsAnew, EditsAreGuarded, KeysAreLicenses, AddressIsShown,
              LookedUpIsShown, WaitIsTimed, R!Shows
<1>2. CASE R!Next
  BY <1>2, RouteStep
<1> QED
  BY <1>1, <1>2 DEF MCNext

(* UrlInStep: when nothing is under way, the address is that of the page    *)
(* and the license on screen, and nothing is waited for that would keep the *)
(* next one from being written: for histories and visits of any length,     *)
(* unless the user moved while the license of an address was looked up, or  *)
(* a new license was looked up in a list without it.                        *)
THEOREM AddressNamesTheScreen == MCSpec => []UrlInStep
<1>1. MCInit => RouteInv
  BY RouteStart DEF MCInit
<1>2. RouteInv /\ [MCNext]_<<area, rvars, settings, dialogs, routes, imported, cached, listed, tabled, reported>>
        => RouteInv'
  BY RouteKept
<1>3. RouteInv => UrlInStep
  <2> SUFFICES ASSUME RouteInv, R!AtRest, ~overtaken
               PROVE  expected = R!Nothing /\ R!Shows(hist[at])
    BY DEF UrlInStep, R!UrlInStep
  <2> QED
    BY DEF RouteInv, WaitIsTimed, AddressIsShown, R!AtRest, R!Ready
<1> QED
  BY <1>1, <1>2, <1>3, PTL DEF MCSpec

(* SettingsLeftWhenAsked: Back, Forward, links, look-ups and redirects      *)
(* never leave settings with unsaved edits; only a user who was asked, a    *)
(* reload of the page, or the answer to the creation of a license from the  *)
(* form over the settings, or of a contract, does.                          *)
THEOREM UnsavedSettingsAreKept == MCSpec => SettingsLeftWhenAsked
<1>1. MCInit => RouteInv
  BY RouteStart DEF MCInit
<1>2. RouteInv /\ [MCNext]_<<area, rvars, settings, dialogs, routes, imported, cached, listed, tabled, reported>>
        => RouteInv' /\ [R!AsksBeforeLeaving]_routes
  <2> SUFFICES ASSUME RouteInv, MCNext \/ UNCHANGED routes
               PROVE  RouteInv' /\ (R!AsksBeforeLeaving \/ UNCHANGED routes)
    OBVIOUS
  <2>1. RouteInv'
    BY RouteKept
  <2>2. R!Next => R!AsksBeforeLeaving
    BY RouteAsks
  <2> QED
    BY <2>1, <2>2 DEF MCNext
<1> QED
  BY <1>1, <1>2, PTL DEF MCSpec, SettingsLeftWhenAsked

-----------------------------------------------------------------------------
(* Readers. *)

ReaderTypes ==
    /\ reader \in Kinds /\ selected \in Records \union {None}
    /\ shown \in [of : Records \union {None}, version : Nat] /\ loading \in BOOLEAN
    /\ cache \in [Records -> Nat] /\ lastOf \in [Records -> Nat]
    /\ version \in [Records -> Nat] /\ mine \in [Records -> Nat]
    /\ reads \in Nat /\ selects \in Nat /\ changes \in Nat
    /\ newest \in [of : Records \union {None}, end : {"dropped", "open", "done", "failed"}]
    /\ requests \subseteq [kind : {"read", "change"}, id : Nat, of : Records, selection : Nat, spins : BOOLEAN,
                           state : {"sent", "done", "failed"}, version : Nat]

(* The last read has the number of reads, and is about newest.of; without a *)
(* selection nobody takes it.                                               *)
ReadsAreNumbered ==
    /\ \A q \in requests : q.kind = "read" =>
         /\ q.id <= reads
         /\ q.id = reads => selected # None /\ newest.of = q.of
         /\ q.id = reads /\ rule.takes = "newest" /\ ~rule.acts => q.of = selected
         /\ reader \notin Unnumbered \union Quiet /\ rule.takes # "cache" => q.spins
    /\ newest.of # None => lastOf[newest.of] = reads
    /\ \A q \in requests : q.kind = "change" => rule.acts

(* What was asked for since the record was selected is about it.            *)
SelectionsAreNumbered ==
    \A q \in requests :
        /\ q.selection <= selects
        /\ q.selection = selects /\ selected # None /\ ~rule.pulls => q.of = selected

(* The last read has this user's last change of its record.                 *)
ReadsFollowChanges ==
    /\ \A r \in Records : mine[r] <= version[r]
    /\ \A q \in requests : q.state = "done" =>
         /\ q.kind = "change" => q.version <= version[q.of]
         /\ q.kind = "read" /\ q.id = reads => mine[q.of] <= q.version

LastReadIsShown ==
    reader \notin Unnumbered /\ selected # None /\ newest.of = selected /\ newest.end = "done" =>
        /\ shown.of = selected /\ mine[selected] <= shown.version
        /\ reader \notin Quiet => ~loading

ReaderInv ==
    /\ ReaderTypes
    /\ ReadsAreNumbered
    /\ SelectionsAreNumbered
    /\ ReadsFollowChanges
    /\ LastReadIsShown
    /\ ShowsTheSelected

(* What a guarded reader does with answers.                                 *)
LEMMA ReaderRules ==
    ASSUME NEW k \in Kinds
    PROVE  /\ Rule[k].takes \in {"newest", "ofRecord", "open", "cache", "any"}
           /\ {Rule[k].empties, Rule[k].acts, Rule[k].spins, Rule[k].polls, Rule[k].pulls} \subseteq BOOLEAN
           /\ k \notin Careless \union {"customFields"} =>
                 /\ ~Rule[k].pulls /\ Rule[k].takes # "any" /\ (Rule[k].takes # "cache" => Rule[k].empties)
                 /\ Rule[k].takes = "newest" => ~Rule[k].acts
           /\ k \notin Unnumbered => ~Rule[k].pulls /\ Rule[k].takes \notin {"open", "any"}
           /\ k \notin Unnumbered \union Quiet /\ Rule[k].takes # "cache" =>
                 ~Rule[k].polls /\ (Rule[k].acts => Rule[k].spins)
<1>0. k \in DOMAIN Rule
  BY DEF Kinds
<1>1. CASE k = "documents"
  <2>1. Rule[k] = Documents
    BY <1>1 DEF Rule
  <2> QED
    BY <1>1, <2>1 DEF Careless, Unnumbered, Quiet, Reader, OfRecord, Documents
<1>2. CASE k = "processingResults"
  <2>1. Rule[k] = ProcessingResults
    BY <1>2 DEF Rule
  <2> QED
    BY <1>2, <2>1 DEF Careless, Unnumbered, Quiet, Reader, OfRecord, ProcessingResults
<1>3. CASE k = "pluginSuggestions"
  <2>1. Rule[k] = PluginSuggestions
    BY <1>3 DEF Rule
  <2> QED
    BY <1>3, <2>1 DEF Careless, Unnumbered, Quiet, Reader, OfRecord, PluginSuggestions
<1>4. CASE k = "maintenanceHistory"
  <2>1. Rule[k] = MaintenanceHistory
    BY <1>4 DEF Rule
  <2> QED
    BY <1>4, <2>1 DEF Careless, Unnumbered, Quiet, Reader, OfRecord, MaintenanceHistory
<1>5. CASE k = "customFields"
  <2>1. Rule[k] = CustomFields
    BY <1>5 DEF Rule
  <2> QED
    BY <1>5, <2>1 DEF Careless, Unnumbered, Quiet, Reader, CustomFields
<1>6. CASE k = "pluginActions"
  <2>1. Rule[k] = PluginActions
    BY <1>6 DEF Rule
  <2> QED
    BY <1>6, <2>1 DEF Careless, Unnumbered, Quiet, Reader, Opened, PluginActions
<1>7. CASE k = "procurementTrail"
  <2>1. Rule[k] = ProcurementTrail
    BY <1>7 DEF Rule
  <2> QED
    BY <1>7, <2>1 DEF Careless, Unnumbered, Quiet, Reader, Cached, ProcurementTrail
<1>8. CASE k = "documentPreview"
  <2>1. Rule[k] = DocumentPreview
    BY <1>8 DEF Rule
  <2> QED
    BY <1>8, <2>1 DEF Careless, Unnumbered, Quiet, Reader, DocumentPreview
<1>9. CASE k = "localPreview"
  <2>1. Rule[k] = LocalDocumentPreview
    BY <1>9 DEF Rule
  <2> QED
    BY <1>9, <2>1 DEF Careless, Unnumbered, Quiet, Reader, Opened, LocalDocumentPreview
<1>10. CASE k = "contractFiles"
  <2>1. Rule[k] = ContractFiles
    BY <1>10 DEF Rule
  <2> QED
    BY <1>10, <2>1 DEF Careless, Unnumbered, Quiet, Reader, Opened, ContractFiles
<1>11. CASE k = "mergePreview"
  <2>1. Rule[k] = MergePreview
    BY <1>11 DEF Rule
  <2> QED
    BY <1>11, <2>1 DEF Careless, Unnumbered, Quiet, Reader, MergePreview
<1>12. CASE k = "referenceOptions"
  <2>1. Rule[k] = ReferenceOptions
    BY <1>12 DEF Rule
  <2> QED
    BY <1>12, <2>1 DEF Careless, Unnumbered, Quiet, Reader, Cached, ReferenceOptions
<1>13. CASE k = "contactOptions"
  <2>1. Rule[k] = ContactOptions
    BY <1>13 DEF Rule
  <2> QED
    BY <1>13, <2>1 DEF Careless, Unnumbered, Quiet, Reader, Cached, ContactOptions
<1>14. CASE k = "referenceList"
  <2>1. Rule[k] = ReferenceList
    BY <1>14 DEF Rule
  <2> QED
    BY <1>14, <2>1 DEF Careless, Unnumbered, Quiet, Reader, Cached, ReferenceList
<1>15. CASE k = "deliveries"
  <2>1. Rule[k] = WebhookDeliveries
    BY <1>15 DEF Rule
  <2> QED
    BY <1>15, <2>1 DEF Careless, Unnumbered, Quiet, Reader, Unguarded, WebhookDeliveries
<1>16. CASE k = "pluginSettings"
  <2>1. Rule[k] = PluginSettings
    BY <1>16 DEF Rule
  <2> QED
    BY <1>16, <2>1 DEF Careless, Unnumbered, Quiet, Reader, Unguarded, PluginSettings
<1>17. CASE k = "auditEntries"
  <2>1. Rule[k] = AuditEntries
    BY <1>17 DEF Rule
  <2> QED
    BY <1>17, <2>1 DEF Careless, Unnumbered, Quiet, Reader, Unguarded, AuditEntries
<1> QED
  BY <1>0, <1>1, <1>2, <1>3, <1>4, <1>5, <1>6, <1>7, <1>8, <1>9,
     <1>10, <1>11, <1>12, <1>13, <1>14, <1>15, <1>16, <1>17 DEF Rule

(* Invariant of the readers, one action at a time.                          *)
LEMMA ReaderStep ==
    ASSUME ReaderInv, Next
    PROVE  ReaderInv'
<1>0. ReaderTypes
  BY DEF ReaderInv
<1>R. /\ rule.takes \in {"newest", "ofRecord", "open", "cache", "any"}
      /\ {rule.empties, rule.acts, rule.spins, rule.polls, rule.pulls} \subseteq BOOLEAN
      /\ reader \notin Careless \union {"customFields"} =>
            /\ ~rule.pulls /\ rule.takes # "any" /\ (rule.takes # "cache" => rule.empties)
            /\ rule.takes = "newest" => ~rule.acts
      /\ reader \notin Unnumbered => ~rule.pulls /\ rule.takes \notin {"open", "any"}
      /\ reader \notin Unnumbered \union Quiet /\ rule.takes # "cache" =>
            ~rule.polls /\ (rule.acts => rule.spins)
  BY <1>0, ReaderRules DEF rule, ReaderTypes
<1>T. /\ \A q \in requests :
            /\ q.kind \in {"read", "change"} /\ q.id \in Nat /\ q.of \in Records /\ q.selection \in Nat
            /\ q.spins \in BOOLEAN /\ q.state \in {"sent", "done", "failed"} /\ q.version \in Nat
      /\ reads \in Nat /\ selects \in Nat /\ None \notin Records
      /\ shown.of \in Records \union {None} /\ shown.version \in Nat
      /\ newest.of \in Records \union {None}
  BY <1>0, NoneAssumption DEF ReaderTypes
<1>1. ASSUME NEW r \in Records, Select(r)
      PROVE  ReaderInv'
  <2> DEFINE new == ReadOf(r, selects + 1, TRUE)
  <2>1. /\ new \in [kind : {"read", "change"}, id : Nat, of : Records, selection : Nat, spins : BOOLEAN,
                    state : {"sent", "done", "failed"}, version : Nat]
        /\ new.kind = "read" /\ new.id = reads + 1 /\ new.of = r /\ new.selection = selects + 1
        /\ new.spins
        /\ new.state = "sent"
    BY <1>T DEF ReadOf
  <2> HIDE DEF new
  <2>2. /\ reader' = reader /\ rule' = rule /\ selected' = r /\ shown' = WhenSelected(r) /\ loading' = TRUE
        /\ reads' = reads + 1 /\ selects' = selects + 1 /\ changes' = changes
        /\ requests' = requests \union {new} /\ lastOf' = [lastOf EXCEPT ![r] = reads + 1]
        /\ newest' = [of |-> r, end |-> "open"] /\ UNCHANGED <<cache, version, mine>>
    BY <1>1 DEF Select, SendRead, rule, new
  <2>3. shown' \in {shown, Nothing, [of |-> r, version |-> cache[r]]}
    BY <2>2 DEF WhenSelected
  <2>4. ReaderTypes'
    <3>1. shown' \in [of : Records \union {None}, version : Nat]
      BY <1>0, <2>3 DEF ReaderTypes, Nothing
    <3> QED
      BY <1>0, <2>1, <2>2, <3>1 DEF ReaderTypes
  <2>5. ReadsAreNumbered'
    BY <1>0, <1>T, <2>1, <2>2 DEF ReaderInv, ReadsAreNumbered, ReaderTypes
  <2>6. SelectionsAreNumbered'
    BY <1>T, <2>1, <2>2 DEF ReaderInv, SelectionsAreNumbered
  <2>7. ReadsFollowChanges'
    BY <1>T, <2>1, <2>2 DEF ReaderInv, ReadsFollowChanges, ReadsAreNumbered
  <2>8. LastReadIsShown'
    BY <2>2 DEF LastReadIsShown
  <2>9. ShowsTheSelected'
    BY <1>R, <2>2 DEF ShowsTheSelected, WhenSelected, Nothing
  <2> QED
    BY <2>4, <2>5, <2>6, <2>7, <2>8, <2>9 DEF ReaderInv
<1>2. CASE Deselect
  <2>1. ReaderTypes'
    <3>1. Nothing \in [of : Records \union {None}, version : Nat]
      BY DEF Nothing
    <3>2. [of |-> None, end |-> "dropped"] \in
            [of : Records \union {None}, end : {"dropped", "open", "done", "failed"}]
      OBVIOUS
    <3>3. /\ reader' = reader /\ cache' = cache /\ lastOf' = lastOf /\ version' = version /\ mine' = mine
          /\ selects' = selects /\ changes' = changes /\ requests' = requests
          /\ shown' \in [of : Records \union {None}, version : Nat]
          /\ newest' \in [of : Records \union {None}, end : {"dropped", "open", "done", "failed"}]
      BY <1>2, <3>1, <3>2 DEF Deselect
    <3>4. loading' \in BOOLEAN /\ reads' \in Nat /\ selected' \in Records \union {None}
      <4>1. loading' \in BOOLEAN
        BY <1>2 DEF Deselect
      <4>2. reads' = reads + 1 /\ selected' = None
        BY <1>2 DEF Deselect
      <4> QED
        BY <1>T, <4>1, <4>2
    <3>5. /\ reader' \in Kinds /\ cache' \in [Records -> Nat] /\ lastOf' \in [Records -> Nat]
          /\ version' \in [Records -> Nat] /\ mine' \in [Records -> Nat]
          /\ selects' \in Nat /\ changes' \in Nat
      BY <1>0, <3>3 DEF ReaderTypes
    <3>6. requests' \subseteq [kind : {"read", "change"}, id : Nat, of : Records, selection : Nat, spins : BOOLEAN,
                               state : {"sent", "done", "failed"}, version : Nat]
      BY <1>0, <3>3 DEF ReaderTypes
    <3> QED
      BY <3>3, <3>4, <3>5, <3>6 DEF ReaderTypes
  <2>2. rule' = rule
    BY <1>2 DEF Deselect, rule
  <2>3. ReadsAreNumbered' /\ SelectionsAreNumbered'
    BY <1>T, <1>2, <2>2 DEF Deselect, ReaderInv, ReadsAreNumbered, SelectionsAreNumbered
  <2>4. ReadsFollowChanges'
    BY <1>T, <1>2 DEF Deselect, ReaderInv, ReadsFollowChanges, ReadsAreNumbered
  <2>5. LastReadIsShown' /\ ShowsTheSelected'
    BY <1>2 DEF Deselect, LastReadIsShown, ShowsTheSelected, Nothing
  <2> QED
    BY <2>1, <2>3, <2>4, <2>5 DEF ReaderInv
<1>3. CASE Reload
  <2>0. PICK spins \in BOOLEAN :
          SendRead(selected, selects, spins, requests) /\ (spins \/ rule.polls)
    BY <1>3 DEF Reload
  <2> DEFINE new == ReadOf(selected, selects, spins)
  <2>1. /\ new \in [kind : {"read", "change"}, id : Nat, of : Records, selection : Nat, spins : BOOLEAN,
                    state : {"sent", "done", "failed"}, version : Nat]
        /\ new.kind = "read" /\ new.id = reads + 1 /\ new.of = selected /\ new.selection = selects
        /\ new.state = "sent" /\ selected \in Records /\ new.spins = spins
    BY <1>0, <1>T, <1>3 DEF ReadOf, Reload, ReaderTypes
  <2> HIDE DEF new
  <2>2. /\ rule' = rule /\ reads' = reads + 1 /\ requests' = requests \union {new}
        /\ lastOf' = [lastOf EXCEPT ![selected] = reads + 1]
        /\ newest' = [of |-> selected, end |-> "open"] /\ loading' = (loading \/ spins)
        /\ UNCHANGED <<reader, selected, shown, cache, selects, changes, version, mine>>
    BY <1>3, <2>0 DEF Reload, SendRead, rule, new
  <2>3. ReaderTypes'
    BY <1>0, <2>1, <2>2 DEF ReaderTypes
  <2>4. ReadsAreNumbered' /\ SelectionsAreNumbered'
    BY <1>0, <1>R, <1>T, <2>0, <2>1, <2>2 DEF ReaderInv, ReadsAreNumbered, SelectionsAreNumbered, ReaderTypes
  <2>5. ReadsFollowChanges'
    BY <1>T, <2>1, <2>2 DEF ReaderInv, ReadsFollowChanges, ReadsAreNumbered
  <2>6. LastReadIsShown' /\ ShowsTheSelected'
    BY <2>2 DEF ReaderInv, LastReadIsShown, ShowsTheSelected
  <2> QED
    BY <2>3, <2>4, <2>5, <2>6 DEF ReaderInv
<1>4. CASE Act
  <2> DEFINE new == [kind |-> "change", id |-> changes, of |-> selected, selection |-> selects,
                     spins |-> FALSE, state |-> "sent", version |-> 0]
  <2>1. /\ new \in [kind : {"read", "change"}, id : Nat, of : Records, selection : Nat, spins : BOOLEAN,
                    state : {"sent", "done", "failed"}, version : Nat]
        /\ new.kind = "change" /\ new.of = selected /\ new.selection = selects /\ new.state = "sent"
    BY <1>0, <1>4 DEF Act, ReaderTypes
  <2> HIDE DEF new
  <2>2. /\ rule' = rule /\ requests' = requests \union {new} /\ changes' = changes + 1 /\ rule.acts
        /\ UNCHANGED <<reader, selected, shown, loading, cache, reads, selects, lastOf, newest, version, mine>>
    BY <1>4 DEF Act, rule, new
  <2>3. ReaderTypes'
    BY <1>0, <2>1, <2>2 DEF ReaderTypes
  <2>4. ReadsAreNumbered' /\ SelectionsAreNumbered' /\ ReadsFollowChanges'
    BY <1>T, <2>1, <2>2 DEF ReaderInv, ReadsAreNumbered, SelectionsAreNumbered, ReadsFollowChanges
  <2>5. LastReadIsShown' /\ ShowsTheSelected'
    BY <2>2 DEF ReaderInv, LastReadIsShown, ShowsTheSelected
  <2> QED
    BY <2>3, <2>4, <2>5 DEF ReaderInv
<1>5. ASSUME NEW r \in Records, Change(r)
      PROVE  ReaderInv'
  <2>1. /\ rule' = rule /\ changes' = changes + 1 /\ version' = [version EXCEPT ![r] = version[r] + 1]
        /\ UNCHANGED <<reader, selected, shown, loading, cache, reads, selects, lastOf, newest, mine, requests>>
    BY <1>5 DEF Change, rule
  <2>2. ReaderTypes'
    BY <1>0, <2>1 DEF ReaderTypes
  <2>3. ReadsAreNumbered' /\ SelectionsAreNumbered' /\ LastReadIsShown' /\ ShowsTheSelected'
    BY <2>1 DEF ReaderInv, ReadsAreNumbered, SelectionsAreNumbered, LastReadIsShown, ShowsTheSelected
  <2>4. ReadsFollowChanges'
    BY <1>0, <1>T, <2>1 DEF ReaderInv, ReadsFollowChanges, ReaderTypes
  <2> QED
    BY <2>2, <2>3, <2>4 DEF ReaderInv
<1>6. ASSUME NEW q \in requests, Handle(q)
      PROVE  ReaderInv'
  <2>1. PICK n \in [kind : {"read", "change"}, id : Nat, of : Records, selection : Nat, spins : BOOLEAN,
                    state : {"sent", "done", "failed"}, version : Nat] :
          /\ requests' = (requests \ {q}) \union {n}
          /\ n.kind = q.kind /\ n.id = q.id /\ n.of = q.of /\ n.selection = q.selection /\ n.spins = q.spins
          /\ n.state = "done" => n.version = version'[q.of]
          /\ version' \in [Records -> Nat] /\ \A r \in Records : version[r] <= version'[r]
    <3>1. CASE /\ q.kind = "read" /\ version' = version
               /\ requests' = (requests \ {q}) \union {[q EXCEPT !.state = "done", !.version = version[q.of]]}
      <4> DEFINE n == [q EXCEPT !.state = "done", !.version = version[q.of]]
      <4>1. /\ n \in [kind : {"read", "change"}, id : Nat, of : Records, selection : Nat, spins : BOOLEAN,
                      state : {"sent", "done", "failed"}, version : Nat]
            /\ n.kind = q.kind /\ n.id = q.id /\ n.of = q.of /\ n.selection = q.selection /\ n.spins = q.spins
            /\ n.version = version[q.of]
        BY <1>0 DEF ReaderTypes
      <4>2. requests' = (requests \ {q}) \union {n} /\ version' = version
        BY <3>1
      <4> HIDE DEF n
      <4>3. version' \in [Records -> Nat] /\ \A r \in Records : version[r] <= version'[r]
        BY <1>0, <4>2 DEF ReaderTypes
      <4> QED
        BY <4>1, <4>2, <4>3
    <3>2. CASE /\ q.kind = "change" /\ version' = [version EXCEPT ![q.of] = version[q.of] + 1]
               /\ requests' = (requests \ {q}) \union
                    {[q EXCEPT !.state = "done", !.version = version[q.of] + 1]}
      <4> DEFINE n == [q EXCEPT !.state = "done", !.version = version[q.of] + 1]
      <4>0. q.of \in Records /\ version[q.of] + 1 \in Nat
        BY <1>0, <1>T DEF ReaderTypes
      <4>1. /\ n \in [kind : {"read", "change"}, id : Nat, of : Records, selection : Nat, spins : BOOLEAN,
                      state : {"sent", "done", "failed"}, version : Nat]
            /\ n.kind = q.kind /\ n.id = q.id /\ n.of = q.of /\ n.selection = q.selection /\ n.spins = q.spins
            /\ n.version = version[q.of] + 1
        BY <1>0, <4>0 DEF ReaderTypes
      <4>2. requests' = (requests \ {q}) \union {n}
        BY <3>2
      <4> HIDE DEF n
      <4>3. version' \in [Records -> Nat] /\ \A r \in Records : version[r] <= version'[r]
        BY <1>0, <3>2, <4>0 DEF ReaderTypes
      <4>4. version'[q.of] = version[q.of] + 1
        BY <1>0, <3>2, <4>0 DEF ReaderTypes
      <4> QED
        BY <4>1, <4>2, <4>3, <4>4
    <3>3. CASE /\ version' = version
               /\ requests' = (requests \ {q}) \union {[q EXCEPT !.state = "failed"]}
      <4> DEFINE n == [q EXCEPT !.state = "failed"]
      <4>1. /\ n \in [kind : {"read", "change"}, id : Nat, of : Records, selection : Nat, spins : BOOLEAN,
                      state : {"sent", "done", "failed"}, version : Nat]
            /\ n.kind = q.kind /\ n.id = q.id /\ n.of = q.of /\ n.selection = q.selection /\ n.spins = q.spins
            /\ n.state = "failed"
        BY <1>0 DEF ReaderTypes
      <4> HIDE DEF n
      <4> QED
        BY <1>0, <3>3, <4>1 DEF ReaderTypes, n
    <3> QED
      BY <1>6, <3>1, <3>2, <3>3 DEF Handle
  <2>2. /\ rule' = rule
        /\ UNCHANGED <<reader, selected, shown, loading, cache, reads, selects, changes, lastOf, newest, mine>>
    BY <1>6 DEF Handle, rule
  <2>3. ReaderTypes'
    BY <1>0, <2>1, <2>2 DEF ReaderTypes
  <2>4. ReadsAreNumbered' /\ SelectionsAreNumbered'
    BY <2>1, <2>2 DEF ReaderInv, ReadsAreNumbered, SelectionsAreNumbered
  <2>5. LastReadIsShown' /\ ShowsTheSelected'
    BY <2>2 DEF ReaderInv, LastReadIsShown, ShowsTheSelected
  <2>6. ReadsFollowChanges'
    BY <1>0, <1>T, <2>1, <2>2 DEF ReaderInv, ReadsFollowChanges, ReaderTypes
  <2> QED
    BY <2>3, <2>4, <2>5, <2>6 DEF ReaderInv
<1>7. ASSUME NEW q \in requests, AnswerRead(q)
      PROVE  ReaderInv'
  <2>1. /\ rule' = rule /\ q.kind = "read" /\ q.state \in {"done", "failed"} /\ requests' = requests \ {q}
        /\ newest' = IF q.id = reads THEN [newest EXCEPT !.end = q.state] ELSE newest
        /\ UNCHANGED <<reader, selected, reads, selects, changes, lastOf, version, mine>>
        /\ newest'.of = newest.of /\ newest'.end = IF q.id = reads THEN q.state ELSE newest.end
    BY <1>0, <1>T, <1>7 DEF AnswerRead, rule, ReaderTypes
  <2>2. ~Taken(q) => UNCHANGED <<shown, loading, cache>>
    BY <1>7 DEF AnswerRead
  <2>3. Taken(q) =>
          /\ selected # None
          /\ loading' \in BOOLEAN
          /\ loading' => loading /\ (IF rule.takes = "cache" THEN q.of # selected ELSE ~q.spins)
          /\ shown' \in {shown, [of |-> q.of, version |-> q.version]}
          /\ rule.takes = "cache" /\ q.of # selected => shown' = shown
          /\ cache' \in {cache, [cache EXCEPT ![q.of] = q.version]}
    BY <1>R, <1>T, <1>7 DEF AnswerRead, TakeRead, Taken
  <2>4. q.state = "done" /\ Taken(q) /\ (rule.takes # "cache" \/ q.of = selected) =>
          shown' = [of |-> q.of, version |-> q.version]
    BY <1>7 DEF AnswerRead, TakeRead
  <2>5. ReaderTypes'
    <3>0. [of |-> q.of, version |-> q.version] \in [of : Records \union {None}, version : Nat]
      BY <1>T
    <3>1. /\ shown' \in [of : Records \union {None}, version : Nat] /\ loading' \in BOOLEAN
          /\ cache' \in [Records -> Nat]
      <4>1. CASE Taken(q)
        BY <1>0, <1>T, <2>3, <3>0, <4>1 DEF ReaderTypes
      <4>2. CASE ~Taken(q)
        BY <1>0, <2>2, <4>2 DEF ReaderTypes
      <4> QED
        BY <4>1, <4>2
    <3>2. newest' \in [of : Records \union {None}, end : {"dropped", "open", "done", "failed"}]
      BY <1>0, <1>T, <2>1 DEF ReaderTypes
    <3> QED
      BY <1>0, <2>1, <3>1, <3>2 DEF ReaderTypes
  <2>6. ReadsAreNumbered' /\ SelectionsAreNumbered' /\ ReadsFollowChanges'
    BY <2>1 DEF ReaderInv, ReadsAreNumbered, SelectionsAreNumbered, ReadsFollowChanges
  <2>7. LastReadIsShown'
    <3> SUFFICES ASSUME reader \notin Unnumbered, selected # None, newest.of = selected, newest'.end = "done"
                 PROVE  /\ shown'.of = selected /\ mine[selected] <= shown'.version
                        /\ reader \notin Quiet => ~loading'
      BY <2>1 DEF LastReadIsShown
    <3>1. CASE q.id = reads
      <4>1. q.state = "done" /\ q.of = selected /\ lastOf[selected] = reads
        BY <2>1, <3>1 DEF ReaderInv, ReadsAreNumbered
      <4>2. Taken(q)
        BY <1>R, <3>1, <4>1 DEF Taken
      <4>3. shown' = [of |-> q.of, version |-> q.version]
        BY <2>4, <4>1, <4>2
      <4>5. reader \notin Quiet => ~loading'
        BY <2>1, <2>3, <4>1, <4>2 DEF ReaderInv, ReadsAreNumbered
      <4>4. mine[q.of] <= q.version
        BY <2>1, <3>1, <4>1 DEF ReaderInv, ReadsFollowChanges
      <4> QED
        BY <4>1, <4>3, <4>4, <4>5
    <3>2. CASE q.id # reads
      <4>1. /\ shown.of = selected /\ mine[selected] <= shown.version
            /\ reader \notin Quiet => ~loading
        BY <2>1, <3>2 DEF ReaderInv, LastReadIsShown
      <4>2. Taken(q) => rule.takes = "cache" /\ q.of # selected
        BY <1>R, <3>2 DEF Taken, ReaderInv, ReadsAreNumbered
      <4>3. CASE Taken(q)
        <5>1. rule.takes = "cache" /\ q.of # selected
          BY <4>2, <4>3
        <5>2. shown' = shown
          BY <2>3, <4>3, <5>1
        <5>3. loading' => loading
          BY <2>3, <4>3
        <5> QED
          BY <4>1, <5>2, <5>3
      <4>4. CASE ~Taken(q)
        <5>1. shown' = shown /\ loading' = loading
          BY <2>2, <4>4
        <5> QED
          BY <4>1, <5>1
      <4> QED
        BY <4>3, <4>4
    <3> QED
      BY <3>1, <3>2
  <2>8. ShowsTheSelected'
    <3> SUFFICES ASSUME reader \notin Careless \union {"customFields"}, Taken(q), shown' # shown
                 PROVE  shown'.of = selected
      BY <2>1, <2>2 DEF ReaderInv, ShowsTheSelected
    <3>1. shown' = [of |-> q.of, version |-> q.version] /\ selected # None
      BY <2>3
    <3>2. q.of = selected
      BY <1>R, <2>1, <2>3, <3>1 DEF Taken, ReaderInv, ReadsAreNumbered, SelectionsAreNumbered
    <3> QED
      BY <3>1, <3>2
  <2> QED
    BY <2>5, <2>6, <2>7, <2>8 DEF ReaderInv
<1>8. ASSUME NEW q \in requests, AnswerChange(q)
      PROVE  ReaderInv'
  <2>1. /\ rule' = rule /\ q.kind = "change" /\ q.state = "done" /\ rule.acts
        /\ mine' = [mine EXCEPT ![q.of] = q.version]
        /\ UNCHANGED <<reader, shown, cache, selects, changes, version>>
    BY <1>8 DEF AnswerChange, rule, ReaderInv, ReadsAreNumbered
  <2>2. mine' \in [Records -> Nat] /\ \A r \in Records : mine'[r] <= version[r]
    BY <1>0, <1>T, <2>1 DEF ReaderInv, ReadsFollowChanges, ReaderTypes
  <2>3. CASE selected = None
    <3>1. requests' = requests \ {q} /\ UNCHANGED <<selected, loading, reads, lastOf, newest>>
      BY <1>8, <2>3 DEF AnswerChange
    <3>2. ReaderTypes'
      BY <1>0, <2>1, <2>2, <3>1 DEF ReaderTypes
    <3>3. ReadsAreNumbered' /\ SelectionsAreNumbered'
      BY <2>1, <3>1 DEF ReaderInv, ReadsAreNumbered, SelectionsAreNumbered
    <3>4. ReadsFollowChanges'
      BY <2>1, <2>2, <2>3, <3>1 DEF ReaderInv, ReadsFollowChanges, ReadsAreNumbered
    <3>5. LastReadIsShown' /\ ShowsTheSelected'
      BY <2>1, <2>3, <3>1 DEF ReaderInv, LastReadIsShown, ShowsTheSelected
    <3> QED
      BY <3>2, <3>3, <3>4, <3>5 DEF ReaderInv
  <2>4. CASE selected # None
    <3> DEFINE new == ReadOf(q.of, q.selection, rule.spins)
    <3>1. /\ new \in [kind : {"read", "change"}, id : Nat, of : Records, selection : Nat, spins : BOOLEAN,
                      state : {"sent", "done", "failed"}, version : Nat]
          /\ new.kind = "read" /\ new.id = reads + 1 /\ new.of = q.of /\ new.selection = q.selection
          /\ new.state = "sent" /\ new.spins = rule.spins
      BY <1>R, <1>T DEF ReadOf
    <3> HIDE DEF new
    <3>2. /\ reads' = reads + 1 /\ requests' = (requests \ {q}) \union {new}
          /\ lastOf' = [lastOf EXCEPT ![q.of] = reads + 1]
          /\ newest' = [of |-> q.of, end |-> "open"]
          /\ selected' = (IF rule.pulls THEN q.of ELSE selected)
          /\ loading' = (loading \/ rule.spins)
      BY <1>8, <2>4 DEF AnswerChange, SendRead, new
    <3>3. ReaderTypes'
      <4>1. selected' \in Records \union {None} /\ loading' \in BOOLEAN
        BY <1>0, <1>T, <3>2 DEF ReaderTypes
      <4> QED
        BY <1>0, <1>T, <2>1, <2>2, <3>1, <3>2, <4>1 DEF ReaderTypes
    <3>4. ReadsAreNumbered'
      BY <1>0, <1>R, <1>T, <2>1, <2>4, <3>1, <3>2 DEF ReaderInv, ReadsAreNumbered, ReaderTypes
    <3>5. SelectionsAreNumbered'
      BY <1>T, <2>1, <2>4, <3>1, <3>2 DEF ReaderInv, SelectionsAreNumbered
    <3>6. ReadsFollowChanges'
      BY <1>T, <2>1, <2>2, <3>1, <3>2 DEF ReaderInv, ReadsFollowChanges, ReadsAreNumbered
    <3>7. LastReadIsShown'
      BY <3>2 DEF LastReadIsShown
    <3>8. ShowsTheSelected'
      BY <1>R, <2>1, <3>2 DEF ReaderInv, ShowsTheSelected
    <3> QED
      BY <3>3, <3>4, <3>5, <3>6, <3>7, <3>8 DEF ReaderInv
  <2> QED
    BY <2>3, <2>4
<1>9. ASSUME NEW q \in requests, AnswerChangeFailed(q)
      PROVE  ReaderInv'
  <2>1. /\ rule' = rule /\ requests' = requests \ {q}
        /\ UNCHANGED <<reader, selected, shown, loading, cache, reads, selects, changes, lastOf, newest,
                       version, mine>>
    BY <1>9 DEF AnswerChangeFailed, rule
  <2>2. ReaderTypes'
    BY <1>0, <2>1 DEF ReaderTypes
  <2>3. ReadsAreNumbered' /\ SelectionsAreNumbered' /\ ReadsFollowChanges' /\ LastReadIsShown' /\ ShowsTheSelected'
    BY <2>1 DEF ReaderInv, ReadsAreNumbered, SelectionsAreNumbered, ReadsFollowChanges, LastReadIsShown,
                ShowsTheSelected
  <2> QED
    BY <2>2, <2>3 DEF ReaderInv
<1> QED
  BY <1>1, <1>2, <1>3, <1>4, <1>5, <1>6, <1>7, <1>8, <1>9 DEF Next


LEMMA ReaderStart == Init => ReaderInv
<1> SUFFICES ASSUME Init
             PROVE  ReaderInv
  OBVIOUS
<1>1. Nothing \in [of : Records \union {None}, version : Nat] /\ Nothing.of = None
  BY DEF Nothing
<1>2. newest \in [of : Records \union {None}, end : {"dropped", "open", "done", "failed"}] /\ newest.of = None
  BY DEF Init
<1>3. loading \in BOOLEAN
  BY DEF Init
<1>4. ReaderTypes
  BY <1>1, <1>2, <1>3 DEF Init, ReaderTypes
<1>5. ReadsAreNumbered /\ SelectionsAreNumbered /\ ReadsFollowChanges
  BY <1>2 DEF Init, ReadsAreNumbered, SelectionsAreNumbered, ReadsFollowChanges
<1>6. LastReadIsShown /\ ShowsTheSelected
  BY <1>1 DEF Init, LastReadIsShown, ShowsTheSelected
<1> QED
  BY <1>4, <1>5, <1>6 DEF ReaderInv

(* Steps of other areas leave the readers alone.                            *)
LEMMA ReaderKept ==
    ASSUME ReaderInv, MCNext \/ UNCHANGED rvars
    PROVE  ReaderInv'
<1>1. CASE UNCHANGED rvars
  <2>1. rule' = rule
    BY <1>1 DEF rvars, rule
  <2> QED
    BY <1>1, <2>1 DEF rvars, ReaderInv, ReaderTypes, ReadsAreNumbered, SelectionsAreNumbered, ReadsFollowChanges,
                 LastReadIsShown, ShowsTheSelected
<1>2. CASE Next
  BY <1>2, ReaderStep
<1> QED
  BY <1>1, <1>2 DEF MCNext

-----------------------------------------------------------------------------
(* Settings. *)

Patches == UNION {[X -> Values] : X \in SUBSET S!Fields}
SettingCalls ==
    [id : Nat, by : S!Fields \union {"trigger"}, mount : Nat, patch : Patches,
     state : {"sent", "done", "failed"}, answer : Patches]

SettingTypes ==
    /\ used \subseteq S!Sections /\ mount \in Nat /\ sent \in Nat
    /\ draft \in [S!Fields -> Values] /\ stored \in [S!Fields -> Values] /\ fallback \in [S!Fields -> Values]
    /\ were \in [S!Fields -> SUBSET Values]
    /\ calls \subseteq SettingCalls

StoredWas == \A f \in S!Fields : stored[f] \in were[f]

(* An answer has what the server had when it gave it, and so does what was  *)
(* asked for, once it was done.                                             *)
AnswersWere ==
    \A c \in calls :
        /\ c.by \in S!Mine => c.by \in DOMAIN c.patch
        /\ c.state = "done" =>
             /\ c.answer \in [S!Fields -> Values]
             /\ \A f \in S!Fields : c.answer[f] \in were[f]
             /\ \A f \in DOMAIN c.patch : c.patch[f] \in were[f]

MarksAreOfThePage == place \notin S!Settings => marks = {}

SettingInv ==
    /\ SettingTypes
    /\ StoredWas
    /\ AnswersWere
    /\ MarksAreOfThePage
    /\ S!UnsavedEditsAreMarked
    /\ S!FallBackWasStored

LEMMA SettingStart == S!Init => SettingInv
<1> SUFFICES ASSUME S!Init
             PROVE  SettingInv
  OBVIOUS
<1>1. used \subseteq S!Sections /\ Initial \in Values
  BY SettingsAssumption DEF S!Init
<1>2. S!Sections \ S!Mine \subseteq S!Fields
  BY DEF S!Fields, S!Global
<1>3. SettingTypes /\ StoredWas
  BY <1>1 DEF S!Init, SettingTypes, StoredWas
<1>4. S!UnsavedEditsAreMarked
  BY <1>1, <1>2 DEF S!Init, S!UnsavedEditsAreMarked
<1>5. S!FallBackWasStored
  BY <1>1, <1>2 DEF S!Init, S!FallBackWasStored, S!Fields, S!Global
<1> QED
  BY <1>3, <1>4, <1>5 DEF S!Init, SettingInv, AnswersWere, MarksAreOfThePage

(* The kinds of fields there are.                                           *)
LEMMA SettingFields ==
    /\ S!Mine \subseteq S!Fields /\ S!Sections \subseteq S!Fields /\ S!Groups \subseteq S!Settings
    /\ "templates" \in S!Fields /\ "categories" \in S!Mine /\ "users" \notin S!Settings /\ "away" \notin S!Settings
    /\ \A s \in S!Sections : S!Group[s] \in S!Settings
    /\ {"storage", "completeness", "notifications", "renewals", "oidc", "backup", "smtp"} \subseteq S!Sections \ S!Mine
    /\ S!Mine = {"appearance", "categories"} /\ S!Mine \subseteq S!Sections
<1>1. S!Sections = {"storage", "notifications", "renewals", "smtp", "oidc", "completeness", "backup",
                    "appearance", "categories"}
  BY DEF S!Sections, S!Group
<1>2. \A s \in S!Sections : S!Group[s] \in S!Settings
  BY <1>1 DEF S!Group, S!Settings, S!Groups
<1> QED
  BY <1>1, <1>2 DEF S!Fields, S!Mine, S!Global, S!Settings, S!Groups

(* A request changes nothing but the requests.                              *)
LEMMA SettingSends ==
    ASSUME SettingInv, NEW by \in S!Fields \union {"trigger"}, NEW patch \in Patches,
           by \in S!Mine => by \in DOMAIN patch, S!Send(by, patch),
           UNCHANGED <<used, place, mount, marks, draft, stored, fallback, were, carried>>
    PROVE  SettingInv'
<1> DEFINE new == [id |-> sent, by |-> by, mount |-> mount, patch |-> patch, state |-> "sent", answer |-> patch]
<1>1. new \in SettingCalls /\ new.by = by /\ new.patch = patch /\ new.state = "sent"
  BY DEF SettingInv, SettingTypes, SettingCalls
<1>2. calls' = calls \union {new} /\ sent' = sent + 1
  BY DEF S!Send
<1> HIDE DEF new
<1>3. SettingTypes'
  BY <1>1, <1>2 DEF SettingInv, SettingTypes
<1>4. AnswersWere'
  BY <1>1, <1>2 DEF SettingInv, AnswersWere
<1> QED
  BY <1>3, <1>4 DEF SettingInv, StoredWas, MarksAreOfThePage, S!UnsavedEditsAreMarked, S!FallBackWasStored

LEMMA SettingEdit ==
    ASSUME SettingInv, NEW s \in S!Sections, S!Edit(s)
    PROVE  SettingInv'
<1>1. PICK v \in Values \ {draft[s]} : draft' = [draft EXCEPT ![s] = v]
  BY DEF S!Edit
<1>2. /\ marks' = marks \union {s}
      /\ UNCHANGED <<stored, fallback, used, place, mount, calls, sent, were, carried>> /\ place \in S!Settings
  BY DEF S!Edit, S!page, S!history
<1>3. SettingTypes'
  BY <1>1, <1>2, SettingFields DEF SettingInv, SettingTypes
<1>4. S!UnsavedEditsAreMarked'
  BY <1>1, <1>2, SettingFields DEF SettingInv, SettingTypes, S!UnsavedEditsAreMarked
<1> QED
  BY <1>2, <1>3, <1>4 DEF SettingInv, StoredWas, AnswersWere, MarksAreOfThePage, S!FallBackWasStored

LEMMA SettingSave ==
    ASSUME SettingInv, NEW s \in S!Sections, S!SaveSection(s), s \notin S!Mine
    PROVE  SettingInv'
<1> DEFINE patch == [f \in {s} |-> draft[f]]
<1>1. patch \in [{s} -> Values] /\ {s} \in SUBSET S!Fields
  BY SettingFields DEF SettingInv, SettingTypes
<1>2. patch \in Patches
  BY <1>1 DEF Patches
<1>3. S!Send(s, patch) /\ UNCHANGED <<used, place, mount, marks, draft, stored, fallback, were, carried>>
  BY DEF S!SaveSection, S!page, S!history
<1> HIDE DEF patch
<1> QED
  BY <1>2, <1>3, SettingSends, SettingFields

LEMMA SettingSaveMine ==
    ASSUME SettingInv, NEW s \in S!Mine, S!SaveMine(s)
    PROVE  SettingInv'
<1> DEFINE patch == [f \in S!Mine |-> draft[f]]
<1>1. patch \in [S!Mine -> Values] /\ S!Mine \in SUBSET S!Fields /\ DOMAIN patch = S!Mine
  BY SettingFields DEF SettingInv, SettingTypes
<1>2. patch \in Patches
  BY <1>1 DEF Patches
<1>3. S!Send(s, patch) /\ UNCHANGED <<used, place, mount, marks, draft, stored, fallback, were, carried>>
  BY DEF S!SaveMine, S!page, S!history
<1> HIDE DEF patch
<1> QED
  BY <1>1, <1>2, <1>3, SettingSends, SettingFields

LEMMA SettingSmtp ==
    ASSUME SettingInv, S!SaveTemplates \/ S!Trigger
    PROVE  SettingInv'
<1>1. CASE S!SaveTemplates
  <2>1. PICK v \in Values : S!Send("templates", [f \in {"templates"} |-> v])
    BY <1>1 DEF S!SaveTemplates
  <2> DEFINE patch == [f \in {"templates"} |-> v]
  <2>2. patch \in [{"templates"} -> Values] /\ {"templates"} \in SUBSET S!Fields
    BY SettingFields
  <2>3. patch \in Patches
    BY <2>2 DEF Patches
  <2>4. UNCHANGED <<used, place, mount, marks, draft, stored, fallback, were, carried>>
    BY <1>1 DEF S!SaveTemplates, S!page, S!history
  <2>5. S!Send("templates", patch)
    BY <2>1
  <2> HIDE DEF patch
  <2> QED
    BY <2>3, <2>4, <2>5, SettingSends, SettingFields
<1>2. CASE S!Trigger
  <2> DEFINE patch == [f \in {} |-> stored[f]]
  <2>1. patch \in [{} -> Values] /\ {} \in SUBSET S!Fields
    OBVIOUS
  <2>2. patch \in Patches
    BY <2>1 DEF Patches
  <2>3. S!Send("trigger", patch) /\ UNCHANGED <<used, place, mount, marks, draft, stored, fallback, were, carried>>
    BY <1>2 DEF S!Trigger, S!page, S!history
  <2> HIDE DEF patch
  <2> QED
    BY <2>2, <2>3, SettingSends, SettingFields
<1> QED
  BY <1>1, <1>2

LEMMA SettingHandle ==
    ASSUME SettingInv, NEW c \in calls, S!Handle(c)
    PROVE  SettingInv'
<1>1. UNCHANGED <<draft, fallback, used, place, mount, marks, sent, carried>> /\ c.state = "sent" /\ c \in SettingCalls
  BY DEF S!Handle, S!page, SettingInv, SettingTypes
<1>2. CASE /\ stored' = S!Changed(c.patch)
           /\ were' = [f \in S!Fields |-> were[f] \union {stored'[f]}]
           /\ calls' = (calls \ {c}) \union {[c EXCEPT !.state = "done", !.answer = stored']}
  <2> DEFINE n == [c EXCEPT !.state = "done", !.answer = stored']
  <2>1. c.patch \in Patches /\ DOMAIN c.patch \subseteq S!Fields /\ \A f \in DOMAIN c.patch : c.patch[f] \in Values
    BY <1>1 DEF SettingCalls, Patches
  <2>2. /\ stored' \in [S!Fields -> Values]
        /\ \A f \in DOMAIN c.patch : stored'[f] = c.patch[f]
    BY <1>2, <2>1 DEF S!Changed, SettingInv, SettingTypes
  <2>3. stored' \in Patches
    BY <2>2 DEF Patches
  <2>4. /\ n \in SettingCalls /\ n.by = c.by /\ n.patch = c.patch /\ n.state = "done" /\ n.answer = stored'
    BY <1>1, <2>3 DEF SettingCalls
  <2>5. calls' = (calls \ {c}) \union {n}
    BY <1>2
  <2> HIDE DEF n
  <2>6. /\ were' \in [S!Fields -> SUBSET Values]
        /\ \A f \in S!Fields : stored'[f] \in were'[f] /\ were[f] \subseteq were'[f]
    BY <1>2, <2>2 DEF SettingInv, SettingTypes
  <2>7. SettingTypes'
    BY <1>1, <2>2, <2>4, <2>5, <2>6 DEF SettingInv, SettingTypes
  <2>8. StoredWas'
    BY <2>6 DEF StoredWas
  <2>9. AnswersWere'
    <3>1. /\ n.by \in S!Mine => n.by \in DOMAIN n.patch
          /\ n.answer \in [S!Fields -> Values]
          /\ \A f \in S!Fields : n.answer[f] \in were'[f]
          /\ \A f \in DOMAIN n.patch : n.patch[f] \in were'[f]
      BY <2>1, <2>2, <2>4, <2>6 DEF SettingInv, AnswersWere
    <3>2. \A d \in calls : d.state = "done" =>
              /\ \A f \in S!Fields : d.answer[f] \in were'[f]
              /\ \A f \in DOMAIN d.patch : d.patch[f] \in were'[f]
      <4>1. \A d \in calls : DOMAIN d.patch \subseteq S!Fields
        BY DEF SettingInv, SettingTypes, SettingCalls, Patches
      <4> QED
        BY <2>6, <4>1 DEF SettingInv, AnswersWere
    <3> QED
      BY <2>5, <3>1, <3>2 DEF SettingInv, AnswersWere
  <2>10. S!UnsavedEditsAreMarked' /\ S!FallBackWasStored'
    <3>1. \A s \in S!Sections : were[s] \subseteq were'[s]
      BY <2>6, SettingFields
    <3>2. used \subseteq S!Sections
      BY DEF SettingInv, SettingTypes
    <3> QED
      BY <1>1, <3>1, <3>2 DEF SettingInv, S!UnsavedEditsAreMarked, S!FallBackWasStored
  <2> QED
    BY <1>1, <2>7, <2>8, <2>9, <2>10 DEF SettingInv, MarksAreOfThePage
<1>3. CASE calls' = (calls \ {c}) \union {[c EXCEPT !.state = "failed"]} /\ UNCHANGED <<stored, were>>
  <2> DEFINE n == [c EXCEPT !.state = "failed"]
  <2>1. n \in SettingCalls /\ n.by = c.by /\ n.patch = c.patch /\ n.state = "failed"
    BY <1>1 DEF SettingCalls
  <2>2. calls' = (calls \ {c}) \union {n} /\ UNCHANGED <<stored, were>>
    BY <1>3
  <2> HIDE DEF n
  <2>3. SettingTypes' /\ AnswersWere'
    BY <1>1, <2>1, <2>2 DEF SettingInv, SettingTypes, AnswersWere
  <2> QED
    BY <1>1, <2>2, <2>3 DEF SettingInv, StoredWas, MarksAreOfThePage, S!UnsavedEditsAreMarked, S!FallBackWasStored
<1> QED
  BY <1>2, <1>3 DEF S!Handle

(* An answer takes what was on the server into the draft and the fallback,  *)
(* or, for the user's own sections, what was sent there.                    *)
LEMMA SettingAnswer ==
    ASSUME SettingInv, NEW c \in calls, S!Answer(c)
    PROVE  SettingInv'
<1>1. /\ UNCHANGED <<stored, used, place, mount, sent, were>> /\ c.state = "done" /\ calls' = calls \ {c}
      /\ c \in SettingCalls
  BY DEF S!Answer, S!page, SettingInv, SettingTypes
<1>2. /\ c.answer \in [S!Fields -> Values] /\ \A f \in S!Fields : c.answer[f] \in were[f]
      /\ \A f \in DOMAIN c.patch : c.patch[f] \in were[f]
      /\ c.by \in S!Mine => c.by \in DOMAIN c.patch
      /\ DOMAIN c.patch \subseteq S!Fields /\ \A f \in DOMAIN c.patch : c.patch[f] \in Values
  <2>1. DOMAIN c.patch \subseteq S!Fields /\ \A f \in DOMAIN c.patch : c.patch[f] \in Values
    BY <1>1 DEF SettingCalls, Patches
  <2> QED
    BY <1>1, <2>1 DEF SettingInv, AnswersWere
<1>3. S!Cleared(c) \subseteq marks /\ \A s \in used \ S!Mine : c.by \in S!Mine /\ s \in marks => s \in S!Cleared(c)
  BY DEF S!Cleared
<1>4. /\ S!TakeGlobal(c.answer) \in [S!Fields -> Values]
      /\ \A s \in used \ S!Mine : S!TakeGlobal(c.answer)[s] \in were[s]
  <2>1. used \subseteq S!Fields
    BY SettingFields DEF SettingInv, SettingTypes
  <2> QED
    BY <1>2, <2>1 DEF S!TakeGlobal, SettingInv, SettingTypes
<1>5. /\ draft' \in [S!Fields -> Values]
      /\ marks' \subseteq marks
      /\ S!UnsavedEditsAreMarked'
  <2>1. CASE S!AnswerGlobal(c) \/ S!AnswerReload(c)
    <3>1. draft' = S!TakeGlobal(c.answer) /\ marks' \subseteq marks
      BY <1>3, <2>1 DEF S!AnswerGlobal, S!AnswerReload
    <3> QED
      BY <1>1, <1>4, <3>1 DEF S!UnsavedEditsAreMarked
  <2>2. CASE c.by \in S!Mine /\ S!AnswerMine(c)
    <3>1. draft' = draft /\ carried' = carried /\ marks' = S!Cleared(c)
      BY <2>2 DEF S!AnswerMine
    <3>2. draft \in [S!Fields -> Values]
      BY DEF SettingInv, SettingTypes
    <3> QED
      BY <1>1, <1>3, <2>2, <3>1, <3>2 DEF SettingInv, S!UnsavedEditsAreMarked
  <2> QED
    BY <2>1, <2>2 DEF S!Answer
<1>6. fallback' \in [S!Fields -> Values] /\ \A s \in used \ {"categories"} : fallback'[s] \in were[s]
  <2>0. /\ used \subseteq S!Fields /\ S!Mine \subseteq S!Fields /\ fallback \in [S!Fields -> Values]
        /\ \A s \in used \ {"categories"} : fallback[s] \in were[s]
    BY SettingFields DEF SettingInv, SettingTypes, S!FallBackWasStored
  <2>1. CASE S!AnswerGlobal(c)
    <3>1. fallback' = [f \in S!Fields |-> IF f \in S!Mine THEN fallback[f] ELSE c.answer[f]]
      BY <2>1 DEF S!AnswerGlobal
    <3> QED
      BY <1>2, <2>0, <3>1
  <2>2. CASE c.by \in S!Mine /\ S!AnswerMine(c)
    <3>1. fallback' = fallback \/ fallback' = [fallback EXCEPT ![c.by] = c.patch[c.by]]
      BY <2>2 DEF S!AnswerMine
    <3>2. c.patch[c.by] \in Values /\ c.patch[c.by] \in were[c.by] /\ c.by \in S!Fields
      BY <1>2, <2>0, <2>2
    <3> QED
      BY <2>0, <3>1, <3>2
  <2>3. CASE S!AnswerReload(c)
    BY <2>0, <2>3 DEF S!AnswerReload
  <2> QED
    BY <2>1, <2>2, <2>3 DEF S!Answer
<1>7. SettingTypes' /\ AnswersWere'
  BY <1>1, <1>5, <1>6 DEF SettingInv, SettingTypes, AnswersWere
<1>8. MarksAreOfThePage'
  BY <1>1, <1>5 DEF SettingInv, MarksAreOfThePage
<1>9. StoredWas' /\ S!FallBackWasStored'
  BY <1>1, <1>6 DEF SettingInv, StoredWas, S!FallBackWasStored
<1> QED
  BY <1>5, <1>7, <1>8, <1>9 DEF SettingInv

(* Moving between the pages: a mark is lost only with the page, and then    *)
(* the edit is carried along, or the draft returns to its fallback.         *)
LEMMA SettingMoves ==
    ASSUME SettingInv,
           \/ \E p \in S!Places : S!Open(p) \/ S!ChangeGroup(p) \/ S!Navigate(p)
           \/ S!ChangeTab \/ S!LeaveUnasked \/ S!Stay \/ S!Leave
    PROVE  SettingInv'
<1>0. UNCHANGED <<used, stored, calls, sent, were>>
  BY DEF S!Open, S!ChangeGroup, S!Navigate, S!ChangeTab, S!LeaveUnasked, S!Stay, S!Leave, S!history, S!Mount
<1>T. /\ used \subseteq S!Sections /\ draft \in [S!Fields -> Values] /\ fallback \in [S!Fields -> Values]
      /\ mount \in Nat
  BY DEF SettingInv, SettingTypes
<1>1. ASSUME NEW p \in S!Places, S!Open(p)
      PROVE  SettingInv'
  <2>1. /\ place \notin S!Settings /\ mount' = mount + 1 /\ marks' = {} /\ draft' = draft /\ carried' = carried
        /\ fallback' = [fallback EXCEPT !["categories"] = draft["categories"]]
    BY <1>1 DEF S!Open, S!Mount, S!history
  <2>2. marks = {}
    BY <2>1 DEF SettingInv, MarksAreOfThePage
  <2>3. SettingTypes'
    BY <1>0, <1>T, <2>1, SettingFields DEF SettingInv, SettingTypes
  <2>4. S!FallBackWasStored'
    BY <1>0, <1>T, <2>1, SettingFields DEF SettingInv, S!FallBackWasStored
  <2> QED
    BY <1>0, <2>1, <2>2, <2>3, <2>4 DEF SettingInv, StoredWas, AnswersWere, MarksAreOfThePage,
                                        S!UnsavedEditsAreMarked
<1>2. ASSUME NEW p \in S!Places, S!ChangeGroup(p)
      PROVE  SettingInv'
  <2>1. place \in S!Settings /\ UNCHANGED <<draft, fallback, mount, marks, carried>>
    BY <1>2, SettingFields DEF S!ChangeGroup, S!history
  <2> QED
    <3>1. place' \in S!Settings
      BY <1>2, SettingFields DEF S!ChangeGroup
    <3> QED
      BY <1>0, <2>1, <3>1 DEF SettingInv, SettingTypes, StoredWas, AnswersWere, MarksAreOfThePage,
                              S!UnsavedEditsAreMarked, S!FallBackWasStored
<1>3. ASSUME NEW p \in S!Places, S!Navigate(p)
      PROVE  SettingInv'
  <2>1. /\ UNCHANGED <<draft, fallback, mount, carried>>
        /\ marks' = marks /\ (place' = place \/ marks = {})
    BY <1>3 DEF S!Navigate, S!history
  <2> QED
    BY <1>0, <2>1 DEF SettingInv, SettingTypes, StoredWas, AnswersWere, MarksAreOfThePage,
                      S!UnsavedEditsAreMarked, S!FallBackWasStored
<1>4. CASE S!ChangeTab \/ S!LeaveUnasked
  <2>1. marks' = {} /\ carried' = carried \union marks /\ UNCHANGED <<draft, fallback, mount>>
    BY <1>4 DEF S!ChangeTab, S!LeaveUnasked
  <2> QED
    BY <1>0, <2>1 DEF SettingInv, SettingTypes, StoredWas, AnswersWere, MarksAreOfThePage,
                      S!UnsavedEditsAreMarked, S!FallBackWasStored
<1>5. CASE S!Stay
  <2>1. UNCHANGED <<draft, fallback, place, mount, marks, carried>>
    BY <1>5 DEF S!Stay, S!history
  <2> QED
    BY <1>0, <2>1 DEF SettingInv, SettingTypes, StoredWas, AnswersWere, MarksAreOfThePage,
                      S!UnsavedEditsAreMarked, S!FallBackWasStored
<1>6. CASE S!Leave
  <2>1. marks' = {} /\ draft' = fallback /\ UNCHANGED <<fallback, mount>>
    BY <1>6 DEF S!Leave
  <2>2. SettingTypes'
    BY <1>0, <1>T, <2>1 DEF SettingInv, SettingTypes
  <2>3. S!UnsavedEditsAreMarked'
    BY <1>0, <2>1, SettingFields DEF SettingInv, S!UnsavedEditsAreMarked, S!FallBackWasStored
  <2> QED
    BY <1>0, <2>1, <2>2, <2>3 DEF SettingInv, StoredWas, AnswersWere, MarksAreOfThePage, S!FallBackWasStored
<1> QED
  BY <1>1, <1>2, <1>3, <1>4, <1>5, <1>6

(* Invariant of the settings.                                               *)
LEMMA SettingStep ==
    ASSUME SettingInv, S!Next
    PROVE  SettingInv'
<1>1. ASSUME NEW c \in calls, S!AnswerError(c)
      PROVE  SettingInv'
  <2>1. calls' = calls \ {c} /\ UNCHANGED <<draft, stored, fallback, used, place, mount, marks, sent, were, carried>>
    BY <1>1 DEF S!AnswerError, S!page, S!history
  <2> QED
    BY <2>1 DEF SettingInv, SettingTypes, StoredWas, AnswersWere, MarksAreOfThePage,
                S!UnsavedEditsAreMarked, S!FallBackWasStored
<1>2. ASSUME NEW s \in S!Sections \ S!Mine, S!EditOrSave(s) \/ S!EditOrCheckedSave(s)
      PROVE  SettingInv'
  BY <1>2, SettingEdit, SettingSave DEF S!EditOrSave, S!EditOrCheckedSave
<1>3. ASSUME NEW s \in S!Mine, S!Edit(s) \/ S!SaveMine(s)
      PROVE  SettingInv'
  BY <1>3, SettingEdit, SettingSaveMine, SettingFields
<1>4. CASE \/ S!StorageSection \/ S!CompletenessSection \/ S!NotificationsSection \/ S!RenewalsSection
           \/ S!OidcSection \/ S!BackupSection \/ S!SmtpSection
  BY <1>2, <1>4, SettingSmtp, SettingFields
     DEF S!StorageSection, S!CompletenessSection, S!NotificationsSection, S!RenewalsSection, S!OidcSection,
         S!BackupSection, S!SmtpSection
<1>5. CASE S!AppearanceSection \/ S!VisibleCategoriesSection
  BY <1>3, <1>5, SettingFields DEF S!AppearanceSection, S!VisibleCategoriesSection
<1>6. CASE \E c \in calls : S!Handle(c) \/ S!Answer(c) \/ S!AnswerError(c)
  BY <1>1, <1>6, SettingHandle, SettingAnswer
<1>7. CASE \/ \E p \in S!Places : S!Open(p) \/ S!ChangeGroup(p) \/ S!Navigate(p)
           \/ S!ChangeTab \/ S!LeaveUnasked \/ S!Stay \/ S!Leave
  BY <1>7, SettingMoves
<1> QED
  BY <1>4, <1>5, <1>6, <1>7 DEF S!Next

LEMMA SettingKept ==
    ASSUME SettingInv, MCNext \/ UNCHANGED settings
    PROVE  SettingInv'
<1>1. CASE UNCHANGED settings
  BY <1>1 DEF settings, SettingInv, SettingTypes, StoredWas, AnswersWere, MarksAreOfThePage,
              S!UnsavedEditsAreMarked, S!FallBackWasStored
<1>2. CASE S!Next
  BY <1>2, SettingStep
<1> QED
  BY <1>1, <1>2 DEF MCNext

-----------------------------------------------------------------------------
(* Lists kept by hand. *)

ListStates == [L!Entries -> Nat]
Inquiries ==
    [id : Nat, op : {"load", "create", "change", "delete", "try", "order"}, entry : L!Entries \union {None},
     view : Nat, half : Nat, quiet : BOOLEAN,
     state : {"sent", "done", "refused", "departments", "again", "read again"},
     got : ListStates, before : ListStates, carries : ListStates, met : BOOLEAN]

ListTypes ==
    /\ list \in L!Lists /\ visible \in ListStates /\ theirs \in ListStates
    /\ view \in Nat /\ acts \in Nat /\ loads \in Nat
    /\ inquiries \subseteq Inquiries

OpsAreOfTheList ==
    \A p \in inquiries :
        /\ p.op \in list.ops \union {"load"} /\ (p.op # "load" => p.entry \in L!Entries)
        /\ p.state \in {"again", "read again"} => p.op = "order"
        /\ p.state = "departments" => p.op \in {"create", "change"}

(* Of two requests under way each has met the other.                        *)
MeetingsAreKnown ==
    /\ \A p \in inquiries : ~p.met => inquiries = {p}
    /\ ~crossed => \A p, q \in inquiries : p # q => ~L!Conflicts(p, q)

LoadsAreCurrent ==
    \A p \in inquiries : p.op = "load" /\ p.state = "done" /\ (~crossed \/ ~p.met) => p.got = theirs

(* How far an operation has come tells what the server and the user have of *)
(* its entry.                                                               *)
After(p) == IF p.op = "delete" THEN 0 ELSE p.id
ServedFor(p) == p.state \in {"done", "departments"}
EntryIsKnown(p) ==
    p.entry \notin unsure =>
        /\ p.op \in list.early => visible[p.entry] = After(p)
        /\ ServedFor(p) => theirs[p.entry] = After(p)
        /\ ServedFor(p) /\ p.op = "change" /\ p.op \notin list.early => visible[p.entry] # 0
        /\ ~ServedFor(p) /\ p.op \in list.early /\ list.restores => theirs[p.entry] = p.before[p.entry]
        /\ ~ServedFor(p) /\ p.op \notin list.early => theirs[p.entry] = visible[p.entry]

(* What it remembers of the other entries is what the user sees.            *)
OthersAreKept(p) ==
    /\ ~p.met /\ p.op \in list.early => \A f \in L!Entries \ {p.entry} : p.before[f] = visible[f]
    /\ list.whole => p.carries = visible
    /\ p.op = "order" /\ p.state = "done" => p.got = theirs
    /\ p.state = "read again" => p.got \in {theirs, p.before}

(* Of what no operation under way is about, the user sees what there is.    *)
SeenOrUnderWay ==
    \A e \in L!Entries \ unsure :
        visible[e] = theirs[e] \/ \E p \in inquiries : p.op # "load" /\ p.entry = e

OperationsAreFollowed ==
    \A p \in inquiries : p.op # "load" => p.view = view /\ EntryIsKnown(p) /\ OthersAreKept(p)

Followed == ~crossed /\ read => SeenOrUnderWay /\ OperationsAreFollowed

ListInv == ListTypes /\ OpsAreOfTheList /\ MeetingsAreKnown /\ LoadsAreCurrent /\ Followed

LEMMA ListRules ==
    ASSUME NEW l \in L!Lists
    PROVE  /\ l.ops \subseteq {"create", "change", "delete", "try", "order"}
           /\ l.asks \subseteq l.ops /\ l.early \subseteq l.ops
           /\ ("order" \in l.ops => "order" \in l.early /\ l.restores)
           /\ l.whole => l.ops \subseteq l.early /\ "order" \notin l.ops /\ l.restores
           /\ "refused" \in l.reread => l.early = {}
           /\ {l.restores, l.whole, l.halves, l.refresh} \subseteq BOOLEAN
<1> USE DEF L!Listing
<1>1. CASE l = L!UsersPage
  BY <1>1 DEF L!UsersPage
<1>2. CASE l = L!ApiTokensSection
  BY <1>2 DEF L!ApiTokensSection
<1>3. CASE l = L!WebhooksSection
  BY <1>3 DEF L!WebhooksSection
<1>4. CASE l = L!ExtensionsSection
  BY <1>4 DEF L!ExtensionsSection
<1>5. CASE l = L!PluginsSection
  BY <1>5 DEF L!PluginsSection
<1>6. CASE l = L!CustomFieldsSection
  BY <1>6 DEF L!CustomFieldsSection
<1>7. CASE l = L!ImportMappingsSection
  BY <1>7 DEF L!ImportMappingsSection
<1>8. CASE l = L!SavedViews
  BY <1>8 DEF L!SavedViews
<1>9. CASE l = L!WorkbenchColumns
  BY <1>9 DEF L!WorkbenchColumns
<1> QED
  BY <1>1, <1>2, <1>3, <1>4, <1>5, <1>6, <1>7, <1>8, <1>9 DEF L!Lists

LEMMA ListStart == L!Init => ListInv
<1> SUFFICES ASSUME L!Init
             PROVE  ListInv
  OBVIOUS
<1>1. theirs \in ListStates /\ L!Nothing \in ListStates
  BY DEF L!Init, L!Nothing, ListStates
<1>2. list.loads = "never" => visible = theirs
  BY DEF L!Init
<1>3. list.loads # "never" => visible = L!Nothing /\ read = FALSE
  BY DEF L!Init
<1>4. ListTypes
  BY <1>1, <1>2, <1>3 DEF L!Init, ListTypes
<1>5. Followed
  BY <1>2, <1>3 DEF L!Init, Followed, SeenOrUnderWay, OperationsAreFollowed
<1> QED
  BY <1>4, <1>5 DEF L!Init, ListInv, OpsAreOfTheList, MeetingsAreKnown, LoadsAreCurrent

(* A request as it is sent.                                                 *)
LEMMA CallParts ==
    ASSUME ListTypes, NEW o \in {"load", "create", "change", "delete", "try", "order"},
           NEW e \in L!Entries \union {None}
    PROVE  LET p == L!Call(o, e)
           IN  /\ p \in Inquiries /\ p.id = acts + 2 /\ p.op = o /\ p.entry = e /\ p.view = view /\ p.state = "sent"
               /\ p.before = (IF o \in list.early THEN visible ELSE L!Nothing)
               /\ p.got = L!Nothing /\ p.carries = L!Nothing
               /\ ~p.met => inquiries = {}
<1> DEFINE p == L!Call(o, e)
<1>0. L!Nothing \in ListStates
  BY DEF L!Nothing, ListStates
<1>1. PICK b \in ListStates : b = IF o \in list.early THEN visible ELSE L!Nothing
  BY <1>0 DEF ListTypes
<1>2. PICK n \in BOOLEAN : n = (inquiries # {})
  OBVIOUS
<1>3. p = [id |-> acts + 2, op |-> o, entry |-> e, view |-> view, state |-> "sent", half |-> 1,
           quiet |-> FALSE, got |-> L!Nothing, before |-> b, carries |-> L!Nothing, met |-> n]
  BY <1>1, <1>2, Zenon DEF L!Call
<1>4. acts + 2 \in Nat /\ view \in Nat
  BY DEF ListTypes
<1>5. PICK f \in BOOLEAN : f = FALSE
  OBVIOUS
<1>R. [id |-> acts + 2, op |-> o, entry |-> e, view |-> view, state |-> "sent", half |-> 1,
       quiet |-> f, got |-> L!Nothing, before |-> b, carries |-> L!Nothing, met |-> n] \in Inquiries
  BY <1>0, <1>4 DEF Inquiries
<1>6. /\ p.id = acts + 2 /\ p.op = o /\ p.entry = e /\ p.view = view /\ p.state = "sent" /\ p.before = b
      /\ p.met = n /\ p.got = L!Nothing /\ p.carries = L!Nothing
  BY <1>3
<1> HIDE DEF p
<1>7. p \in Inquiries
  BY <1>3, <1>5, <1>R, Zenon
<1>8. ~p.met => inquiries = {}
  BY <1>2, <1>6
<1> QED
  BY <1>1, <1>6, <1>7, <1>8, Zenon DEF p

(* A request that is sent meets those under way; they stay what they were.  *)
LEMMA ListMeets ==
    ASSUME ListInv, NEW new \in Inquiries, NEW others \in SUBSET inquiries, L!Meeting(new, others),
           new.state = "sent", new.op \in list.ops \union {"load"}, new.op # "load" => new.entry \in L!Entries,
           ~new.met => others = {}, list' = list, theirs' = theirs
    PROVE  /\ inquiries' \subseteq Inquiries
           /\ new \in inquiries'
           /\ \A r \in inquiries' : r = new \/ \E q \in others :
                 /\ r.met /\ r.op = q.op /\ r.entry = q.entry /\ r.view = q.view /\ r.state = q.state /\ r.id = q.id
                 /\ r.got = q.got /\ r.before = q.before /\ r.carries = q.carries
           /\ \A q \in others : \E r \in inquiries' : r.op = q.op /\ r.entry = q.entry
           /\ ~crossed' => ~crossed /\ \A q \in others : ~L!Conflicts(new, q)
           /\ OpsAreOfTheList' /\ MeetingsAreKnown' /\ LoadsAreCurrent'
<1> DEFINE Met(q) == [q EXCEPT !.met = TRUE]
<1>1. \A q \in others :
          /\ q \in Inquiries /\ Met(q) \in Inquiries /\ Met(q).met
          /\ Met(q).op = q.op /\ Met(q).entry = q.entry /\ Met(q).view = q.view /\ Met(q).state = q.state
          /\ Met(q).id = q.id /\ Met(q).got = q.got /\ Met(q).before = q.before /\ Met(q).carries = q.carries
  BY DEF ListInv, ListTypes, Inquiries
<1>2. inquiries' = {Met(q) : q \in others} \union {new}
  BY DEF L!Meeting
<1>3. ~crossed' => ~crossed /\ \A q \in others : ~L!Conflicts(new, q)
  BY DEF L!Meeting
<1> HIDE DEF Met
<1>4. inquiries' \subseteq Inquiries
  BY <1>1, <1>2
<1>5. \A r \in inquiries' : r = new \/ \E q \in others : r = Met(q)
  BY <1>2
<1>6. OpsAreOfTheList'
  <2> SUFFICES ASSUME NEW r \in inquiries'
               PROVE  /\ r.op \in list.ops \union {"load"} /\ (r.op # "load" => r.entry \in L!Entries)
                      /\ r.state \in {"again", "read again"} => r.op = "order"
                      /\ r.state = "departments" => r.op \in {"create", "change"}
    BY DEF OpsAreOfTheList
  <2>1. CASE r = new
    BY <2>1
  <2>2. CASE \E q \in others : r = Met(q)
    <3>1. PICK q \in others : r = Met(q)
      BY <2>2
    <3> QED
      BY <1>1, <3>1 DEF ListInv, OpsAreOfTheList
  <2> QED
    BY <1>5, <2>1, <2>2
<1>7. MeetingsAreKnown'
  <2>1. ASSUME NEW r \in inquiries', ~r.met
        PROVE  inquiries' = {r}
    <3>1. r = new
      BY <1>1, <1>5, <2>1
    <3> QED
      BY <1>2, <2>1, <3>1
  <2>2. ASSUME ~crossed', NEW r \in inquiries', NEW s \in inquiries', r # s
        PROVE  ~L!Conflicts(r, s)
    <3>1. CASE r = new
      <4>1. PICK q \in others : s = Met(q)
        BY <1>5, <2>2, <3>1
      <4>2. s.op = q.op /\ s.entry = q.entry /\ ~L!Conflicts(new, q)
        BY <1>1, <1>3, <2>2, <4>1
      <4> QED
        BY <3>1, <4>2 DEF L!Conflicts, L!Whole
    <3>2. CASE s = new
      <4>1. PICK q \in others : r = Met(q)
        BY <1>5, <2>2, <3>2
      <4>2. r.op = q.op /\ r.entry = q.entry /\ ~L!Conflicts(new, q)
        BY <1>1, <1>3, <2>2, <4>1
      <4> QED
        BY <3>2, <4>2 DEF L!Conflicts, L!Whole
    <3>3. CASE r # new /\ s # new
      <4>1. PICK q \in others : r = Met(q)
        BY <1>5, <3>3
      <4>2. PICK u \in others : s = Met(u)
        BY <1>5, <3>3
      <4>3. q # u /\ ~L!Conflicts(q, u)
        BY <1>3, <2>2, <4>1, <4>2 DEF ListInv, MeetingsAreKnown
      <4>4. r.op = q.op /\ r.entry = q.entry /\ s.op = u.op /\ s.entry = u.entry
        BY <1>1, <4>1, <4>2
      <4> QED
        BY <4>3, <4>4 DEF L!Conflicts, L!Whole
    <3> QED
      BY <3>1, <3>2, <3>3
  <2>3. \A r, s : L!Conflicts(r, s)' = L!Conflicts(r, s)
    BY DEF L!Conflicts, L!Whole
  <2> QED
    BY <2>1, <2>2, <2>3 DEF MeetingsAreKnown
<1>8. LoadsAreCurrent'
  <2> SUFFICES ASSUME NEW r \in inquiries', r.op = "load", r.state = "done", ~crossed' \/ ~r.met
               PROVE  r.got = theirs'
    BY DEF LoadsAreCurrent
  <2>1. PICK q \in others : r = Met(q)
    BY <1>5
  <2>2. r.met /\ q.op = "load" /\ q.state = "done" /\ r.got = q.got
    BY <1>1, <2>1
  <2>3. ~crossed
    BY <1>3, <2>2
  <2> QED
    BY <2>2, <2>3 DEF ListInv, LoadsAreCurrent
<1> QED
  <2>1. \A r \in inquiries' : r = new \/ \E q \in others :
           /\ r.met /\ r.op = q.op /\ r.entry = q.entry /\ r.view = q.view /\ r.state = q.state /\ r.id = q.id
           /\ r.got = q.got /\ r.before = q.before /\ r.carries = q.carries
    BY <1>1, <1>5
  <2>2. \A q \in others : \E r \in inquiries' : r.op = q.op /\ r.entry = q.entry
    BY <1>1, <1>2
  <2> QED
    BY <1>2, <1>3, <1>4, <1>6, <1>7, <1>8, <2>1, <2>2

(* What is kept of the requests that go on, when the list, the server and   *)
(* the entries in doubt stay as they were.                                  *)
LEMMA ListReads ==
    ASSUME ListInv, NEW others \in SUBSET inquiries, NEW quiet \in BOOLEAN, L!Read(others, quiet),
           list' = list, theirs' = theirs, view' = view, acts' = acts, visible' \in ListStates,
           \* where the user sees what there is but for the others:
           ~crossed /\ read' /\ (\A q \in others : q.op = "load") =>
               \A e \in L!Entries \ unsure' : visible'[e] = theirs[e]
    PROVE  ListInv'
<1> DEFINE new == [L!Call("load", None) EXCEPT !.id = MaxActs + 2 + loads, !.quiet = quiet, !.met = others # {}]
<1>0. MaxActs \in Nat /\ L!Nothing \in ListStates
  BY BoundsAssumption DEF L!Nothing, ListStates
<1>1. /\ new \in Inquiries /\ new.op = "load" /\ new.state = "sent" /\ (~new.met => others = {})
      /\ new.entry = None
  <2> DEFINE call == L!Call("load", None)
  <2>1. call \in Inquiries /\ call.op = "load" /\ call.state = "sent" /\ call.entry = None
    BY CallParts DEF ListInv
  <2>2. PICK m \in BOOLEAN : m = (others # {})
    OBVIOUS
  <2>3. new = [call EXCEPT !.id = MaxActs + 2 + loads, !.quiet = quiet, !.met = m]
    BY <2>2, Zenon
  <2>4. MaxActs + 2 + loads \in Nat
    BY <1>0 DEF ListInv, ListTypes
  <2> HIDE DEF call
  <2> DEFINE rec == [call EXCEPT !.id = MaxActs + 2 + loads, !.quiet = quiet, !.met = m]
  <2>5. /\ rec \in Inquiries /\ rec.op = "load" /\ rec.state = "sent" /\ rec.met = m /\ rec.entry = None
    BY <2>1, <2>4 DEF Inquiries
  <2>6. new = rec
    BY <2>3
  <2> HIDE DEF new, rec
  <2> QED
    BY <2>2, <2>5, <2>6
<1>2. L!Meeting(new, others) /\ loads' = loads + 1
  BY DEF L!Read
<1> HIDE DEF new
<1>3. /\ inquiries' \subseteq Inquiries
      /\ OpsAreOfTheList' /\ MeetingsAreKnown' /\ LoadsAreCurrent'
      /\ \A r \in inquiries' : r = new \/ \E q \in others : r.op = q.op
      /\ ~crossed' => ~crossed /\ \A q \in others : ~L!Conflicts(new, q)
  <2>1. new.op \in list.ops \union {"load"} /\ (new.op # "load" => new.entry \in L!Entries)
    BY <1>1
  <2>2. \A r \in inquiries' : r = new \/ \E q \in others : r.op = q.op
    BY <1>1, <1>2, <2>1, ListMeets
  <2> QED
    BY <1>1, <1>2, <2>1, <2>2, ListMeets
<1>4. ListTypes'
  BY <1>2, <1>3 DEF ListInv, ListTypes
<1>5. Followed'
  <2> SUFFICES ASSUME ~crossed', read'
               PROVE  SeenOrUnderWay' /\ OperationsAreFollowed'
    BY DEF Followed
  <2>1. \A q \in others : q.op = "load"
    BY <1>1, <1>3 DEF L!Conflicts, L!Whole
  <2>2. \A r \in inquiries' : r.op = "load"
    BY <1>1, <1>3, <2>1
  <2> QED
    BY <1>3, <2>1, <2>2 DEF SeenOrUnderWay, OperationsAreFollowed
<1> QED
  BY <1>3, <1>4, <1>5 DEF ListInv

(* The user acts: what is not under way is what there is, and is remembered *)
(* if it is changed at once.                                                *)
LEMMA ListSends ==
    ASSUME ListInv, NEW o \in list.ops, NEW e \in L!Entries,
           L!Send(L!Call(o, e), [visible EXCEPT ![e] = IF o = "delete" THEN 0 ELSE acts + 2])
    PROVE  ListInv'
<1> DEFINE call == L!Call(o, e)
           after == [visible EXCEPT ![e] = IF o = "delete" THEN 0 ELSE acts + 2]
           kept == IF list.whole THEN after ELSE L!Nothing
           rec == [call EXCEPT !.carries = kept]
<1>0. /\ list \in L!Lists /\ visible \in ListStates /\ acts \in Nat /\ view \in Nat /\ loads \in Nat
      /\ theirs \in ListStates /\ inquiries \subseteq Inquiries
  BY DEF ListInv, ListTypes
<1>R. /\ list.ops \subseteq {"create", "change", "delete", "try", "order"}
      /\ list.whole => list.ops \subseteq list.early
  BY <1>0, ListRules
<1>1. /\ call \in Inquiries /\ call.id = acts + 2 /\ call.op = o /\ call.entry = e /\ call.view = view
      /\ call.state = "sent" /\ call.before = (IF o \in list.early THEN visible ELSE L!Nothing)
      /\ ~call.met => inquiries = {}
  <2>1. o \in {"load", "create", "change", "delete", "try", "order"} /\ e \in L!Entries \union {None}
    BY <1>R
  <2> QED
    BY <2>1, CallParts DEF ListInv
<1>2. after \in ListStates /\ after[e] = (IF o = "delete" THEN 0 ELSE acts + 2)
      /\ \A f \in L!Entries \ {e} : after[f] = visible[f]
  BY <1>0 DEF ListStates
<1>3. /\ acts' = acts + 1 /\ visible' = (IF o \in list.early THEN after ELSE visible)
      /\ L!Meeting(rec, inquiries)
      /\ UNCHANGED <<list, view, theirs, loads, read, unsure>>
  BY <1>1 DEF L!Send
<1> HIDE DEF call, after
<1>4. kept \in ListStates
  BY <1>2 DEF L!Nothing, ListStates
<1> HIDE DEF kept
<1>5. PICK new \in Inquiries :
         /\ L!Meeting(new, inquiries) /\ new.id = acts + 2 /\ new.op = o /\ new.entry = e /\ new.view = view
         /\ new.state = "sent" /\ new.before = call.before /\ new.carries = kept /\ new.met = call.met
  <2>1. /\ rec \in Inquiries /\ rec.id = acts + 2 /\ rec.op = o /\ rec.entry = e /\ rec.view = view
        /\ rec.state = "sent" /\ rec.before = call.before /\ rec.carries = kept /\ rec.met = call.met
    BY <1>1, <1>4 DEF Inquiries
  <2> HIDE DEF rec
  <2> QED
    BY <1>3, <2>1
<1>6. o # "load" /\ inquiries \in SUBSET inquiries /\ (~new.met => inquiries = {})
  BY <1>1, <1>R, <1>5
<1>7. /\ inquiries' \subseteq Inquiries
      /\ new \in inquiries'
      /\ \A r \in inquiries' : r = new \/ \E q \in inquiries :
            /\ r.met /\ r.op = q.op /\ r.entry = q.entry /\ r.view = q.view /\ r.state = q.state /\ r.id = q.id
            /\ r.got = q.got /\ r.before = q.before /\ r.carries = q.carries
      /\ \A q \in inquiries : \E r \in inquiries' : r.op = q.op /\ r.entry = q.entry
      /\ ~crossed' => ~crossed /\ \A q \in inquiries : ~L!Conflicts(new, q)
      /\ OpsAreOfTheList' /\ MeetingsAreKnown' /\ LoadsAreCurrent'
  <2>1. new.op \in list.ops \union {"load"} /\ new.entry \in L!Entries
    BY <1>5
  <2> QED
    BY <1>3, <1>5, <1>6, <2>1, ListMeets
<1>8. ListTypes'
  BY <1>0, <1>2, <1>3, <1>7 DEF ListTypes
<1>9. Followed'
  <2> SUFFICES ASSUME ~crossed', read
               PROVE  SeenOrUnderWay' /\ OperationsAreFollowed'
    BY <1>3 DEF Followed
  <2>1. SeenOrUnderWay /\ OperationsAreFollowed /\ \A q \in inquiries : ~L!Conflicts(new, q)
    BY <1>7 DEF ListInv, Followed
  <2>2. \A q \in inquiries : q.op # "load" /\ q.entry # e /\ q.op # "order" /\ ~list.whole
    BY <1>5, <1>6, <2>1 DEF L!Conflicts, L!Whole
  <2>3. \A f \in L!Entries \ {e} : visible'[f] = visible[f]
    BY <1>2, <1>3
  <2>4. SeenOrUnderWay'
    <3> SUFFICES ASSUME NEW f \in L!Entries \ unsure
                 PROVE  visible'[f] = theirs[f] \/ \E p \in inquiries' : p.op # "load" /\ p.entry = f
      BY <1>3 DEF SeenOrUnderWay
    <3>1. CASE f = e
      BY <1>5, <1>6, <1>7, <3>1
    <3>2. CASE f # e
      BY <1>7, <2>1, <2>3, <3>2 DEF SeenOrUnderWay
    <3> QED
      BY <3>1, <3>2
  <2>5. /\ new.view = view /\ EntryIsKnown(new)' /\ OthersAreKept(new)'
    <3>1. e \notin unsure => visible[e] = theirs[e]
      BY <2>1, <2>2 DEF SeenOrUnderWay
    <3>2. ~ServedFor(new) /\ new.state = "sent"
      BY <1>5 DEF ServedFor
    <3>3. After(new) = after[e]
      BY <1>2, <1>5 DEF After
    <3>4. CASE o \in list.early
      <4>1. new.before = visible /\ visible' = after /\ (list.whole => new.carries = after)
        BY <1>1, <1>3, <1>5, <3>4 DEF kept
      <4>2. EntryIsKnown(new)'
        BY <1>3, <1>5, <3>1, <3>2, <3>3, <3>4, <4>1 DEF EntryIsKnown, ServedFor
      <4>3. OthersAreKept(new)'
        BY <1>2, <1>3, <1>5, <3>2, <4>1 DEF OthersAreKept
      <4> QED
        BY <1>5, <4>2, <4>3
    <3>5. CASE o \notin list.early
      <4>1. visible' = visible /\ ~list.whole
        BY <1>R, <1>3, <3>5
      <4>2. EntryIsKnown(new)'
        BY <1>3, <1>5, <3>1, <3>2, <3>5, <4>1 DEF EntryIsKnown, ServedFor
      <4>3. OthersAreKept(new)'
        BY <1>3, <1>5, <3>2, <3>5, <4>1 DEF OthersAreKept
      <4> QED
        BY <1>5, <4>2, <4>3
    <3> QED
      BY <1>5, <3>4, <3>5
  <2>6. ASSUME NEW r \in inquiries', r # new, r.op # "load"
        PROVE  r.view = view /\ EntryIsKnown(r)' /\ OthersAreKept(r)'
    <3>1. PICK q \in inquiries :
            /\ r.met /\ r.op = q.op /\ r.entry = q.entry /\ r.view = q.view /\ r.state = q.state /\ r.id = q.id
            /\ r.got = q.got /\ r.before = q.before /\ r.carries = q.carries
      BY <1>7, <2>6
    <3>2. q.view = view /\ EntryIsKnown(q) /\ OthersAreKept(q) /\ q.entry # e /\ q.entry \in L!Entries
      BY <2>1, <2>2, <2>6, <3>1 DEF OperationsAreFollowed, ListInv, OpsAreOfTheList
    <3>3. EntryIsKnown(r)'
      BY <1>3, <2>3, <3>1, <3>2 DEF EntryIsKnown, After, ServedFor
    <3>4. OthersAreKept(r)'
      BY <1>3, <2>2, <3>1, <3>2 DEF OthersAreKept
    <3> QED
      BY <3>1, <3>2, <3>3, <3>4
  <2>7. OperationsAreFollowed'
    <3> SUFFICES ASSUME NEW r \in inquiries', r.op # "load"
                 PROVE  r.view = view /\ EntryIsKnown(r)' /\ OthersAreKept(r)'
      BY <1>3 DEF OperationsAreFollowed
    <3> QED
      BY <2>5, <2>6
  <2> QED
    BY <2>4, <2>7
<1> QED
  BY <1>7, <1>8, <1>9 DEF ListInv

(* A request that goes on, and one that is answered.                        *)
LEMMA ListAdvances ==
    ASSUME ListInv, NEW p \in inquiries, NEW n \in Inquiries, inquiries' = (inquiries \ {p}) \union {n},
           list' = list, crossed => crossed', n.op = p.op, n.entry = p.entry, n.met = p.met,
           n.state \in {"again", "read again"} => n.op = "order",
           n.state = "departments" => n.op \in {"create", "change"}
    PROVE  inquiries' \subseteq Inquiries /\ OpsAreOfTheList' /\ MeetingsAreKnown'
<1>1. inquiries' \subseteq Inquiries /\ OpsAreOfTheList'
  BY DEF ListInv, ListTypes, OpsAreOfTheList
<1>2. ASSUME NEW r \in inquiries', ~r.met
      PROVE  inquiries' = {r}
  BY <1>2 DEF ListInv, MeetingsAreKnown
<1>3. ASSUME ~crossed', NEW r \in inquiries', NEW s \in inquiries', r # s
      PROVE  ~L!Conflicts(r, s)
  <2>1. ~crossed /\ \A q, u \in inquiries : q # u => ~L!Conflicts(q, u)
    BY <1>3 DEF ListInv, MeetingsAreKnown
  <2>2. \A q : L!Conflicts(n, q) = L!Conflicts(p, q) /\ L!Conflicts(q, n) = L!Conflicts(q, p)
    BY DEF L!Conflicts, L!Whole
  <2> QED
    BY <1>3, <2>1, <2>2
<1>4. \A r, s : L!Conflicts(r, s)' = L!Conflicts(r, s)
  BY DEF L!Conflicts, L!Whole
<1> QED
  BY <1>1, <1>2, <1>3, <1>4 DEF MeetingsAreKnown

LEMMA ListForgets ==
    ASSUME ListInv, NEW p \in inquiries, inquiries' = inquiries \ {p}, list' = list, theirs' = theirs,
           crossed => crossed'
    PROVE  inquiries' \subseteq Inquiries /\ OpsAreOfTheList' /\ MeetingsAreKnown' /\ LoadsAreCurrent'
<1>1. inquiries' \subseteq Inquiries /\ OpsAreOfTheList' /\ LoadsAreCurrent'
  BY DEF ListInv, ListTypes, OpsAreOfTheList, LoadsAreCurrent
<1>2. \A r, s : L!Conflicts(r, s)' = L!Conflicts(r, s)
  BY DEF L!Conflicts, L!Whole
<1> QED
  BY <1>1, <1>2 DEF ListInv, MeetingsAreKnown

(* Two requests under way that do not cross are about entries of their own. *)
LEMMA ListApart ==
    ASSUME ListInv, ~crossed, NEW p \in inquiries, NEW q \in inquiries, p # q, q.op # "load"
    PROVE  /\ p.op \notin {"load", "order"} /\ q.op # "order" /\ ~list.whole /\ p.entry # q.entry
           /\ q.met /\ p.met
<1>1. ~L!Conflicts(p, q)
  BY DEF ListInv, MeetingsAreKnown
<1>2. q.met /\ p.met
  BY DEF ListInv, MeetingsAreKnown
<1> QED
  BY <1>1, <1>2 DEF L!Conflicts, L!Whole

LEMMA ListOthers ==
    ASSUME ListInv, ~crossed, read, NEW p \in inquiries, NEW q \in inquiries, p # q, q.op # "load",
           list' = list, view' = view, unsure \subseteq unsure',
           visible'[q.entry] = visible[q.entry], theirs'[q.entry] = theirs[q.entry]
    PROVE  q.view = view' /\ EntryIsKnown(q)' /\ OthersAreKept(q)'
<1>1. q.view = view /\ EntryIsKnown(q) /\ OthersAreKept(q)
  BY DEF ListInv, Followed, OperationsAreFollowed
<1>2. q.op # "order" /\ ~list.whole /\ q.met
  BY ListApart
<1>3. q.state # "read again"
  BY <1>2 DEF ListInv, OpsAreOfTheList
<1>4. EntryIsKnown(q)'
  BY <1>1 DEF EntryIsKnown, ServedFor, After
<1>5. OthersAreKept(q)'
  BY <1>2, <1>3 DEF OthersAreKept
<1> QED
  BY <1>1, <1>4, <1>5

LEMMA ListServes ==
    ASSUME ListInv, NEW p \in inquiries, L!Serve(p)
    PROVE  ListInv'
<1>0. /\ list \in L!Lists /\ visible \in ListStates /\ theirs \in ListStates /\ p \in Inquiries
      /\ p.state = "sent" /\ inquiries \subseteq Inquiries
      /\ UNCHANGED <<list, view, visible, acts, loads, read, crossed>>
  BY DEF ListInv, ListTypes, L!Serve
<1>1. PICK result \in {"done", "refused", "lost"} :
         /\ result # "refused" => L!Accepts(p)
         /\ p.op = "load" => result # "lost"
         /\ theirs' = IF result # "refused" THEN L!Written(p) ELSE theirs
         /\ inquiries' = (inquiries \ {p}) \union
              {[p EXCEPT !.state = IF result = "done" THEN "done" ELSE "refused",
                         !.got = IF result # "refused" /\ p.op \in {"load", "order"} THEN theirs' ELSE L!Nothing]}
         /\ unsure' = IF result = "lost" THEN unsure \union {p.entry} ELSE unsure
  BY DEF L!Serve
<1>2. theirs' \in ListStates
  <2>1. p.carries \in ListStates /\ p.id \in Nat /\ 0 \in Nat
    BY <1>0 DEF Inquiries
  <2> QED
    BY <1>0, <1>1, <2>1 DEF L!Written, ListStates
<1>3. PICK n \in Inquiries :
         /\ inquiries' = (inquiries \ {p}) \union {n}
         /\ n.id = p.id /\ n.op = p.op /\ n.entry = p.entry /\ n.view = p.view /\ n.before = p.before
         /\ n.carries = p.carries /\ n.met = p.met
         /\ n.state = (IF result = "done" THEN "done" ELSE "refused")
         /\ result = "done" /\ p.op \in {"load", "order"} => n.got = theirs'
  <2> DEFINE got == IF result # "refused" /\ p.op \in {"load", "order"} THEN theirs' ELSE L!Nothing
             state == IF result = "done" THEN "done" ELSE "refused"
             rec == [p EXCEPT !.state = state, !.got = got]
  <2>1. got \in ListStates /\ state \in {"done", "refused"}
    BY <1>2 DEF L!Nothing, ListStates
  <2>2. inquiries' = (inquiries \ {p}) \union {rec} /\ (result = "done" /\ p.op \in {"load", "order"} => got = theirs')
        /\ state = (IF result = "done" THEN "done" ELSE "refused")
    BY <1>1
  <2> HIDE DEF got, state
  <2>3. /\ rec \in Inquiries /\ rec.id = p.id /\ rec.op = p.op /\ rec.entry = p.entry /\ rec.view = p.view
        /\ rec.before = p.before /\ rec.carries = p.carries /\ rec.met = p.met /\ rec.state = state
        /\ rec.got = got
    BY <1>0, <2>1 DEF Inquiries
  <2> HIDE DEF rec
  <2> QED
    BY <2>2, <2>3
<1>4. /\ inquiries' \subseteq Inquiries /\ OpsAreOfTheList' /\ MeetingsAreKnown'
  BY <1>0, <1>3, ListAdvances
<1>5. ListTypes'
  BY <1>0, <1>2, <1>4 DEF ListInv, ListTypes
<1>6. CASE p.op = "load"
  <2>1. theirs' = theirs /\ unsure' = unsure
    BY <1>1, <1>6 DEF L!Written
  <2>2. LoadsAreCurrent'
    BY <1>0, <1>3, <1>6, <2>1 DEF ListInv, LoadsAreCurrent
  <2>3. Followed'
    <3> SUFFICES ASSUME ~crossed, read
                 PROVE  SeenOrUnderWay' /\ OperationsAreFollowed'
      BY <1>0 DEF Followed
    <3>1. \A q \in inquiries' : q.op = "load"
      BY <1>3, <1>6, ListApart
    <3>2. SeenOrUnderWay'
      BY <1>0, <1>3, <1>6, <2>1 DEF ListInv, Followed, SeenOrUnderWay
    <3> QED
      BY <3>1, <3>2 DEF OperationsAreFollowed
  <2> QED
    BY <1>4, <1>5, <2>2, <2>3 DEF ListInv
<1>7. CASE p.op # "load"
  <2>1. LoadsAreCurrent'
    <3> SUFFICES ASSUME NEW q \in inquiries', q.op = "load", q.state = "done", ~crossed \/ ~q.met
                 PROVE  FALSE
      BY <1>0 DEF LoadsAreCurrent
    <3>1. q \in inquiries /\ q # p
      BY <1>3, <1>7
    <3>2. q.met
      BY <3>1 DEF ListInv, MeetingsAreKnown
    <3> QED
      BY <1>7, <3>1, <3>2, ListApart
  <2>2. Followed'
    <3> SUFFICES ASSUME ~crossed, read
                 PROVE  SeenOrUnderWay' /\ OperationsAreFollowed'
      BY <1>0 DEF Followed
    <3>0. /\ SeenOrUnderWay /\ p.view = view /\ EntryIsKnown(p) /\ OthersAreKept(p)
          /\ p.entry \in L!Entries /\ p.op \in list.ops
          /\ list.whole => list.ops \subseteq list.early
      BY <1>0, <1>7, ListRules DEF ListInv, Followed, OperationsAreFollowed, OpsAreOfTheList
    <3>1. result # "refused" =>
            IF list.whole THEN theirs' = visible /\ p.carries = visible
            ELSE theirs' = [theirs EXCEPT ![p.entry] = After(p)] /\ (p.op # "create" => theirs[p.entry] # 0)
      BY <1>1, <1>7, <3>0 DEF L!Written, L!Accepts, After, OthersAreKept
    <3>2. \A f \in L!Entries : f # p.entry /\ ~list.whole => theirs'[f] = theirs[f]
      BY <1>0, <1>1, <3>0, <3>1 DEF ListStates
    <3>3. SeenOrUnderWay'
      <4> SUFFICES ASSUME NEW f \in L!Entries \ unsure', f # p.entry
                   PROVE  visible[f] = theirs'[f] \/ \E r \in inquiries' : r.op # "load" /\ r.entry = f
        BY <1>0, <1>3, <1>7 DEF SeenOrUnderWay
      <4>1. f \notin unsure
        BY <1>1
      <4>2. visible[f] = theirs[f] \/ \E r \in inquiries' : r.op # "load" /\ r.entry = f
        BY <1>3, <3>0, <4>1 DEF SeenOrUnderWay
      <4> QED
        BY <1>1, <3>1, <3>2, <4>2
    <3>4. EntryIsKnown(n)'
      <4> SUFFICES ASSUME p.entry \notin unsure, result # "lost"
                   PROVE  EntryIsKnown(n)'
        BY <1>1, <1>3 DEF EntryIsKnown
      <4>0. ~ServedFor(p) /\ (ServedFor(n) <=> result = "done") /\ After(n) = After(p)
        BY <1>0, <1>3 DEF ServedFor, After
      <4>1. CASE result = "done"
        <5>1. theirs'[p.entry] = After(p)
          BY <1>0, <3>0, <3>1, <4>1 DEF EntryIsKnown, ListStates
        <5>2. p.op = "change" /\ p.op \notin list.early => visible[p.entry] # 0
          BY <3>0, <3>1, <4>0, <4>1 DEF EntryIsKnown
        <5> QED
          BY <1>0, <1>3, <3>0, <4>0, <4>1, <5>1, <5>2 DEF EntryIsKnown, After, ServedFor
      <4>2. CASE result = "refused"
        BY <1>0, <1>1, <1>3, <3>0, <4>0, <4>2 DEF EntryIsKnown, After, ServedFor
      <4> QED
        BY <4>1, <4>2
    <3>5. OthersAreKept(n)'
      BY <1>0, <1>3, <3>0 DEF OthersAreKept
    <3>6. ASSUME NEW q \in inquiries', q # n, q.op # "load"
          PROVE  q.view = view' /\ EntryIsKnown(q)' /\ OthersAreKept(q)'
      <4>1. q \in inquiries /\ p # q
        BY <1>3, <3>6
      <4>2. q.entry # p.entry /\ ~list.whole /\ q.entry \in L!Entries
        BY <3>6, <4>1, ListApart DEF ListInv, OpsAreOfTheList
      <4>3. unsure \subseteq unsure' /\ theirs'[q.entry] = theirs[q.entry]
        BY <1>1, <3>2, <4>2
      <4> QED
        BY <1>0, <3>6, <4>1, <4>3, ListOthers
    <3>7. OperationsAreFollowed'
      <4> SUFFICES ASSUME NEW r \in inquiries', r.op # "load"
                   PROVE  r.view = view' /\ EntryIsKnown(r)' /\ OthersAreKept(r)'
        BY DEF OperationsAreFollowed
      <4> QED
        BY <1>0, <1>3, <3>0, <3>4, <3>5, <3>6
    <3> QED
      BY <3>3, <3>7
  <2> QED
    BY <1>4, <1>5, <2>1, <2>2 DEF ListInv
<1> QED
  BY <1>6, <1>7

(* An operation goes on without an effect.                                  *)
LEMMA ListStays ==
    ASSUME ListInv, NEW p \in inquiries, NEW n \in Inquiries, inquiries' = (inquiries \ {p}) \union {n},
           UNCHANGED <<list, view, visible, theirs, acts, loads, read>>,
           crossed => crossed', unsure \subseteq unsure', p.op # "load",
           n.id = p.id, n.op = p.op, n.entry = p.entry, n.view = p.view, n.before = p.before,
           n.carries = p.carries, n.met = p.met,
           (ServedFor(n) <=> ServedFor(p)) \/ p.entry \in unsure',
           n.state = "departments" => n.op \in {"create", "change"},
           n.state = "done" => n.op # "order",
           n.state \in {"again", "read again"} => n.op = "order",
           n.state = "read again" => n.got \in {theirs, p.before}
    PROVE  ListInv'
<1>1. inquiries' \subseteq Inquiries /\ OpsAreOfTheList' /\ MeetingsAreKnown'
  BY ListAdvances
<1>2. ListTypes'
  BY <1>1 DEF ListInv, ListTypes
<1>3. LoadsAreCurrent'
  BY DEF ListInv, LoadsAreCurrent
<1>4. Followed'
  <2> SUFFICES ASSUME ~crossed, ~crossed', read
               PROVE  SeenOrUnderWay' /\ OperationsAreFollowed'
    BY DEF Followed
  <2>1. SeenOrUnderWay /\ p.view = view /\ EntryIsKnown(p) /\ OthersAreKept(p)
    BY DEF ListInv, Followed, OperationsAreFollowed
  <2>2. SeenOrUnderWay'
    BY <2>1 DEF SeenOrUnderWay
  <2>3. EntryIsKnown(n)'
    <3>1. (ServedFor(n) <=> ServedFor(p)) => EntryIsKnown(n)'
      <4> SUFFICES ASSUME ServedFor(n) <=> ServedFor(p)
                   PROVE  EntryIsKnown(n)'
        OBVIOUS
      <4>1. After(n) = After(p) /\ (ServedFor(n)' <=> ServedFor(p))
        BY DEF After, ServedFor
      <4>2. (After(n))' = After(n)
        BY DEF After
      <4> QED
        BY <2>1, <4>1, <4>2 DEF EntryIsKnown
    <3>2. p.entry \in unsure' => EntryIsKnown(n)'
      BY DEF EntryIsKnown
    <3> QED
      BY <3>1, <3>2
  <2>4. OthersAreKept(n)'
    BY <2>1 DEF OthersAreKept
  <2>5. ASSUME NEW q \in inquiries', q # n, q.op # "load"
        PROVE  q.view = view' /\ EntryIsKnown(q)' /\ OthersAreKept(q)'
    BY <2>5, ListOthers
  <2>6. OperationsAreFollowed'
    <3> SUFFICES ASSUME NEW r \in inquiries', r.op # "load"
                 PROVE  r.view = view' /\ EntryIsKnown(r)' /\ OthersAreKept(r)'
      BY DEF OperationsAreFollowed
    <3> QED
      BY <2>1, <2>3, <2>4, <2>5
  <2> QED
    BY <2>2, <2>6
<1> QED
  BY <1>1, <1>2, <1>3, <1>4 DEF ListInv

(* An operation was answered: its entry is the one there is, or in doubt.   *)
LEMMA ListEnds ==
    ASSUME ListInv, NEW p \in inquiries, inquiries' = inquiries \ {p},
           UNCHANGED <<list, view, theirs, acts, loads, read>>,
           crossed => crossed', unsure \subseteq unsure', visible' \in ListStates,
           ~crossed' /\ read =>
             /\ p.op # "load" /\ p.entry \notin unsure' => visible'[p.entry] = theirs[p.entry]
             /\ \A f \in L!Entries \ unsure' :
                  f # p.entry => visible'[f] = visible[f] \/ visible'[f] = theirs[f]
             /\ \A q \in inquiries \ {p} : q.op # "load" => visible'[q.entry] = visible[q.entry],
           p.op = "load" => visible' = visible
    PROVE  ListInv'
<1>1. inquiries' \subseteq Inquiries /\ OpsAreOfTheList' /\ MeetingsAreKnown' /\ LoadsAreCurrent'
  BY ListForgets
<1>2. ListTypes'
  BY <1>1 DEF ListInv, ListTypes
<1>3. Followed'
  <2> SUFFICES ASSUME ~crossed, ~crossed', read
               PROVE  SeenOrUnderWay' /\ OperationsAreFollowed'
    BY DEF Followed
  <2>1. SeenOrUnderWay
    BY DEF ListInv, Followed
  <2>2. SeenOrUnderWay'
    <3> SUFFICES ASSUME NEW f \in L!Entries \ unsure', visible'[f] # theirs[f]
                 PROVE  \E q \in inquiries' : q.op # "load" /\ q.entry = f
      BY DEF SeenOrUnderWay
    <3>1. ~(p.op # "load" /\ p.entry = f)
      OBVIOUS
    <3>2. visible[f] # theirs[f]
      <4>1. CASE f = p.entry
        BY <3>1, <4>1
      <4>2. CASE f # p.entry
        BY <4>2
      <4> QED
        BY <4>1, <4>2
    <3>3. PICK q \in inquiries : q.op # "load" /\ q.entry = f
      BY <2>1, <3>2 DEF SeenOrUnderWay
    <3> QED
      BY <3>1, <3>3
  <2>3. OperationsAreFollowed'
    <3> SUFFICES ASSUME NEW q \in inquiries', q.op # "load"
                 PROVE  q.view = view' /\ EntryIsKnown(q)' /\ OthersAreKept(q)'
      BY DEF OperationsAreFollowed
    <3>1. q \in inquiries /\ q # p /\ visible'[q.entry] = visible[q.entry]
      OBVIOUS
    <3> QED
      BY <3>1, ListOthers
  <2> QED
    BY <2>2, <2>3
<1> QED
  BY <1>1, <1>2, <1>3 DEF ListInv

(* What the user sees after an answer.                                      *)
LEMMA ListAnswered ==
    ASSUME ListInv, NEW p \in inquiries, ~crossed, read, p.op # "load",
           L!AnswerDone(p) \/ (L!AnswerRefused(p) /\ ~(p.op \in list.early /\ p.met) /\ p.op # "order")
    PROVE  /\ p.entry \notin unsure' => visible'[p.entry] = theirs[p.entry]
           /\ \A f \in L!Entries \ unsure' : f # p.entry => visible'[f] = visible[f] \/ visible'[f] = theirs[f]
           /\ \A q \in inquiries \ {p} : q.op # "load" => visible'[q.entry] = visible[q.entry]
<1>0. /\ list \in L!Lists /\ visible \in ListStates /\ p \in Inquiries /\ p.entry \in L!Entries
      /\ p.op \in list.ops /\ EntryIsKnown(p) /\ OthersAreKept(p)
      /\ \A q \in inquiries : q.op # "load" => q.entry \in L!Entries
  BY DEF ListInv, ListTypes, OpsAreOfTheList, Followed, OperationsAreFollowed
<1>R. list.ops \subseteq {"create", "change", "delete", "try", "order"}
  BY <1>0, ListRules
<1>1. CASE L!AnswerDone(p)
  <2>1. /\ ServedFor(p) /\ p.state = "done"
        /\ visible' = IF p.op \in list.early \ {"order"} THEN visible ELSE L!Done(p)
        /\ unsure' = IF p.op = "try" THEN unsure \union {p.entry} ELSE unsure
    BY <1>1 DEF L!AnswerDone, ServedFor
  <2>2. CASE p.op \in list.early \ {"order"}
    BY <2>1, <2>2, <1>0 DEF EntryIsKnown
  <2>3. CASE p.op = "order"
    <3>1. visible' = theirs
      BY <1>0, <2>1, <2>3 DEF L!Done, OthersAreKept
    <3>2. \A q \in inquiries \ {p} : q.op = "load"
      BY <2>3, ListApart
    <3> QED
      BY <3>1, <3>2
  <2>4. CASE p.op \notin list.early \union {"order"}
    <3>1. visible' = L!Done(p)
      BY <2>1, <2>4
    <3>2. \A f \in L!Entries : f # p.entry => visible'[f] = visible[f]
      BY <1>0, <2>4, <3>1 DEF L!Done, ListStates
    <3>3. p.entry \notin unsure' => visible'[p.entry] = theirs[p.entry]
      <4> SUFFICES ASSUME p.entry \notin unsure, p.op # "try"
                   PROVE  visible'[p.entry] = theirs[p.entry]
        BY <2>1
      <4>1. theirs[p.entry] = After(p) /\ (p.op = "change" => visible[p.entry] # 0)
        BY <1>0, <2>1, <2>4 DEF EntryIsKnown
      <4>2. p.op \in {"create", "change", "delete"}
        BY <1>0, <1>R, <2>4
      <4> QED
        BY <1>0, <3>1, <4>1, <4>2 DEF L!Done, After, ListStates
    <3>4. \A q \in inquiries \ {p} : q.op # "load" => q.entry # p.entry
      BY ListApart
    <3> QED
      BY <1>0, <3>2, <3>3, <3>4
  <2> QED
    BY <2>2, <2>3, <2>4
<1>2. CASE L!AnswerRefused(p) /\ ~(p.op \in list.early /\ p.met) /\ p.op # "order"
  <2>1. /\ ~ServedFor(p)
        /\ visible' = IF list.restores /\ p.op \in list.early THEN p.before ELSE visible
        /\ unsure' = IF p.op \in list.early /\ ~list.restores THEN unsure \union {p.entry} ELSE unsure
    BY <1>2 DEF L!AnswerRefused, L!Restored, ServedFor
  <2>2. CASE list.restores /\ p.op \in list.early
    <3>1. ~p.met /\ inquiries = {p}
      BY <1>2, <2>2 DEF ListInv, MeetingsAreKnown
    <3>2. visible' = p.before /\ unsure' = unsure
      BY <2>1, <2>2
    <3> QED
      BY <1>0, <2>1, <2>2, <3>1, <3>2 DEF EntryIsKnown, OthersAreKept
  <2>3. CASE ~list.restores /\ p.op \in list.early
    BY <2>1, <2>3
  <2>4. CASE p.op \notin list.early
    BY <1>0, <2>1, <2>4 DEF EntryIsKnown
  <2> QED
    BY <2>2, <2>3, <2>4
<1> QED
  BY <1>1, <1>2

LEMMA ListAnswers ==
    ASSUME ListInv, NEW p \in inquiries, L!AnswerDone(p) \/ L!AnswerRefused(p)
    PROVE  ListInv'
<1>0. /\ list \in L!Lists /\ visible \in ListStates /\ p \in Inquiries /\ p.op # "load"
      /\ p.got \in ListStates /\ p.before \in ListStates /\ p.id \in Nat /\ 0 \in Nat
      /\ UNCHANGED <<list, view, theirs, acts, read>> /\ unsure \subseteq unsure'
  BY DEF ListInv, ListTypes, Inquiries, L!AnswerDone, L!AnswerRefused
<1>1. visible' \in ListStates
  BY <1>0 DEF L!AnswerDone, L!AnswerRefused, L!Done, L!Restored, ListStates
<1>2. ASSUME NEW quiet \in BOOLEAN, L!Read(inquiries \ {p}, quiet),
             L!AnswerDone(p) \/ (L!AnswerRefused(p) /\ ~(p.op \in list.early /\ p.met) /\ p.op # "order")
      PROVE  ListInv'
  <2>1. ASSUME ~crossed, read, \A q \in inquiries \ {p} : q.op = "load", NEW f \in L!Entries \ unsure'
        PROVE  visible'[f] = theirs[f]
    <3>1. /\ p.entry \notin unsure' => visible'[p.entry] = theirs[p.entry]
          /\ f # p.entry => visible'[f] = visible[f] \/ visible'[f] = theirs[f]
      BY <1>0, <1>2, <2>1, ListAnswered
    <3>2. SeenOrUnderWay
      BY <2>1 DEF ListInv, Followed
    <3>3. f # p.entry => visible[f] = theirs[f]
      BY <1>0, <2>1, <3>2 DEF SeenOrUnderWay
    <3> QED
      BY <2>1, <3>1, <3>3
  <2> QED
    BY <1>0, <1>1, <1>2, <2>1, ListReads
<1>3. ASSUME inquiries' = inquiries \ {p}, loads' = loads, crossed => crossed',
             L!AnswerDone(p) \/ (L!AnswerRefused(p) /\ p.op # "order" /\ (p.op \in list.early /\ p.met => crossed'))
      PROVE  ListInv'
  <2>1. ~crossed' /\ read =>
          /\ p.entry \notin unsure' => visible'[p.entry] = theirs[p.entry]
          /\ \A f \in L!Entries \ unsure' : f # p.entry => visible'[f] = visible[f] \/ visible'[f] = theirs[f]
          /\ \A q \in inquiries \ {p} : q.op # "load" => visible'[q.entry] = visible[q.entry]
    BY <1>0, <1>3, ListAnswered
  <2> QED
    BY <1>0, <1>1, <1>3, <2>1, ListEnds
<1>4. CASE L!AnswerDone(p)
  <2>1. CASE p.op \in list.reread
    <3>1. (list.lock = "entry") \in BOOLEAN
      OBVIOUS
    <3>2. L!Read(inquiries \ {p}, list.lock = "entry")
      BY <1>4, <2>1 DEF L!AnswerDone
    <3> QED
      BY <1>2, <1>4, <3>1, <3>2
  <2>2. CASE p.op \notin list.reread
    BY <1>3, <1>4, <2>2 DEF L!AnswerDone
  <2> QED
    BY <2>1, <2>2
<1>5. CASE L!AnswerRefused(p)
  <2>1. CASE "refused" \in list.reread /\ p.op \in list.locks
    <3>1. p.op \notin list.early /\ p.op # "order"
      <4>1. list.early = {} /\ p.op \in list.ops
        BY <1>0, <2>1, ListRules DEF ListInv, OpsAreOfTheList
      <4> QED
        BY <1>0, <4>1, ListRules
    <3>2. L!Read(inquiries \ {p}, FALSE)
      BY <1>5, <2>1 DEF L!AnswerRefused
    <3> QED
      BY <1>2, <1>5, <3>1, <3>2
  <2>2. CASE ~("refused" \in list.reread /\ p.op \in list.locks)
    <3>1. /\ inquiries' = (inquiries \ {p}) \union (IF p.op = "order" THEN {[p EXCEPT !.state = "again"]} ELSE {})
          /\ crossed' = (crossed \/ (p.op \in list.early /\ p.met)) /\ loads' = loads
      BY <1>5, <2>2 DEF L!AnswerRefused
    <3>2. CASE p.op # "order"
      BY <1>3, <1>5, <3>1, <3>2
    <3>3. CASE p.op = "order"
      <4>1. PICK n \in Inquiries :
               /\ inquiries' = (inquiries \ {p}) \union {n} /\ n.id = p.id /\ n.op = p.op /\ n.entry = p.entry
               /\ n.view = p.view /\ n.before = p.before /\ n.carries = p.carries /\ n.met = p.met
               /\ n.state = "again"
        <5> DEFINE rec == [p EXCEPT !.state = "again"]
        <5>1. /\ rec \in Inquiries /\ rec.id = p.id /\ rec.op = p.op /\ rec.entry = p.entry
              /\ rec.view = p.view /\ rec.before = p.before /\ rec.carries = p.carries /\ rec.met = p.met
              /\ rec.state = "again"
          BY <1>0 DEF Inquiries
        <5>2. inquiries' = (inquiries \ {p}) \union {rec}
          BY <3>1, <3>3
        <5> HIDE DEF rec
        <5> QED
          BY <5>1, <5>2
      <4>2. visible' = visible /\ p.state = "refused"
        BY <1>5, <3>3 DEF L!AnswerRefused, L!Restored
      <4>3. ServedFor(n) <=> ServedFor(p)
        BY <4>1, <4>2 DEF ServedFor
      <4> QED
        BY <1>0, <3>1, <3>3, <4>1, <4>2, <4>3, ListStays
    <3> QED
      BY <3>2, <3>3
  <2> QED
    BY <2>1, <2>2
<1> QED
  BY <1>4, <1>5

(* Operations that go on on the server, or wait for what was asked again.   *)
LEMMA ListGoesOn ==
    ASSUME ListInv, NEW p \in inquiries, L!AnswerHalf(p) \/ L!ServeDepartments(p) \/ L!ServeOrderAgain(p)
    PROVE  ListInv'
<1>0. /\ p \in Inquiries /\ p.op # "load" /\ p.before \in ListStates /\ theirs \in ListStates
      /\ UNCHANGED <<list, view, visible, theirs, acts, loads, read, crossed>>
      /\ p.state = "departments" => p.op \in {"create", "change"}
      /\ p.state = "again" => p.op = "order"
  BY DEF ListInv, ListTypes, OpsAreOfTheList, Inquiries, L!AnswerHalf, L!ServeDepartments, L!ServeOrderAgain
<1>1. ASSUME NEW rec, rec \in Inquiries, rec.id = p.id, rec.op = p.op, rec.entry = p.entry, rec.view = p.view,
             rec.before = p.before, rec.carries = p.carries, rec.met = p.met,
             inquiries' = (inquiries \ {p}) \union {rec}, unsure \subseteq unsure',
             (ServedFor(rec) <=> ServedFor(p)) \/ p.entry \in unsure',
             rec.state = "departments" => rec.op \in {"create", "change"},
             rec.state = "done" => rec.op # "order",
             rec.state \in {"again", "read again"} => rec.op = "order",
             rec.state = "read again" => rec.got \in {theirs, p.before}
      PROVE  ListInv'
  BY <1>0, <1>1, ListStays
<1>2. CASE L!AnswerHalf(p)
  <2> DEFINE rec == [p EXCEPT !.state = "departments", !.half = 2]
  <2>1. /\ rec \in Inquiries /\ rec.id = p.id /\ rec.op = p.op /\ rec.entry = p.entry /\ rec.view = p.view
        /\ rec.before = p.before /\ rec.carries = p.carries /\ rec.met = p.met /\ rec.state = "departments"
    BY <1>0 DEF Inquiries
  <2>2. /\ inquiries' = (inquiries \ {p}) \union {rec} /\ p.state = "done" /\ p.op \in {"create", "change"}
        /\ unsure' = unsure
    BY <1>2 DEF L!AnswerHalf
  <2> HIDE DEF rec
  <2> QED
    BY <1>1, <2>1, <2>2 DEF ServedFor
<1>3. CASE L!ServeDepartments(p)
  <2>1. PICK s \in {"done", "refused"} :
           /\ inquiries' = (inquiries \ {p}) \union {[p EXCEPT !.state = s]} /\ unsure \subseteq unsure'
           /\ s = "refused" => p.entry \in unsure'
    BY <1>3 DEF L!ServeDepartments
  <2> DEFINE rec == [p EXCEPT !.state = s]
  <2>2. /\ rec \in Inquiries /\ rec.id = p.id /\ rec.op = p.op /\ rec.entry = p.entry /\ rec.view = p.view
        /\ rec.before = p.before /\ rec.carries = p.carries /\ rec.met = p.met /\ rec.state = s
    BY <1>0 DEF Inquiries
  <2>3. inquiries' = (inquiries \ {p}) \union {rec} /\ p.state = "departments"
    BY <1>3, <2>1 DEF L!ServeDepartments
  <2> HIDE DEF rec
  <2>4. (ServedFor(rec) <=> ServedFor(p)) \/ p.entry \in unsure'
    BY <2>1, <2>2, <2>3 DEF ServedFor
  <2> QED
    BY <1>0, <1>1, <2>1, <2>2, <2>3, <2>4
<1>4. CASE L!ServeOrderAgain(p)
  <2>1. PICK g \in {theirs, p.before} :
           inquiries' = (inquiries \ {p}) \union {[p EXCEPT !.state = "read again", !.got = g]}
    BY <1>4 DEF L!ServeOrderAgain
  <2> DEFINE rec == [p EXCEPT !.state = "read again", !.got = g]
  <2>2. /\ rec \in Inquiries /\ rec.id = p.id /\ rec.op = p.op /\ rec.entry = p.entry /\ rec.view = p.view
        /\ rec.before = p.before /\ rec.carries = p.carries /\ rec.met = p.met /\ rec.state = "read again"
        /\ rec.got = g
    BY <1>0 DEF Inquiries
  <2>3. inquiries' = (inquiries \ {p}) \union {rec} /\ p.state = "again" /\ unsure' = unsure
    BY <1>4, <2>1 DEF L!ServeOrderAgain
  <2> HIDE DEF rec
  <2> QED
    BY <1>0, <1>1, <2>2, <2>3 DEF ServedFor
<1> QED
  BY <1>2, <1>3, <1>4

LEMMA ListAnswersLoads ==
    ASSUME ListInv, NEW p \in inquiries,
           L!AnswerLoad(p) \/ L!AnswerLoadFailed(p) \/ L!AnswerOrderAgain(p) \/ L!AnswerNobody(p)
    PROVE  ListInv'
<1>0. /\ list \in L!Lists /\ p \in Inquiries /\ p.got \in ListStates /\ visible \in ListStates
      /\ inquiries' = inquiries \ {p} /\ UNCHANGED <<list, view, theirs, acts, loads>>
  BY DEF ListInv, ListTypes, Inquiries, L!AnswerLoad, L!AnswerLoadFailed, L!AnswerOrderAgain, L!AnswerNobody
<1>1. CASE L!AnswerLoad(p)
  <2>1. /\ p.op = "load" /\ p.state = "done" /\ visible' = p.got /\ read' = TRUE
        /\ IF p.met THEN crossed' = crossed /\ unsure' = unsure ELSE crossed' = FALSE /\ unsure' = {}
    BY <1>1 DEF L!AnswerLoad
  <2>2. ~p.met => inquiries' = {}
    BY <1>0 DEF ListInv, MeetingsAreKnown
  <2>3. ~crossed' => theirs = visible' /\ \A q \in inquiries' : q.op = "load"
    <3> SUFFICES ASSUME ~crossed'
                 PROVE  theirs = visible' /\ \A q \in inquiries' : q.op = "load"
      OBVIOUS
    <3>1. ~crossed \/ ~p.met
      BY <2>1
    <3>2. \A q \in inquiries' : q.op = "load"
      <4> SUFFICES ASSUME NEW q \in inquiries', q.op # "load"
                   PROVE  FALSE
        OBVIOUS
      <4>1. p.met /\ ~crossed
        BY <2>2, <3>1
      <4> QED
        BY <1>0, <2>1, <4>1, ListApart
    <3> QED
      BY <2>1, <3>1, <3>2 DEF ListInv, LoadsAreCurrent
  <2>4. ListTypes' /\ OpsAreOfTheList'
    BY <1>0, <2>1 DEF ListInv, ListTypes, OpsAreOfTheList
  <2>5. MeetingsAreKnown' /\ LoadsAreCurrent'
    <3>1. CASE p.met
      <4>1. crossed => crossed'
        BY <2>1, <3>1
      <4> QED
        BY <1>0, <4>1, ListForgets
    <3>2. CASE ~p.met
      BY <2>2, <3>2 DEF MeetingsAreKnown, LoadsAreCurrent
    <3> QED
      BY <3>1, <3>2
  <2>6. Followed'
    BY <1>0, <2>3 DEF Followed, SeenOrUnderWay, OperationsAreFollowed
  <2> QED
    BY <2>4, <2>5, <2>6 DEF ListInv
<1>2. CASE L!AnswerLoadFailed(p)
  <2>1. p.op = "load" /\ UNCHANGED <<visible, read, crossed, unsure>>
    BY <1>2 DEF L!AnswerLoadFailed
  <2> QED
    BY <1>0, <2>1, ListEnds
<1>3. CASE L!AnswerNobody(p)
  <2>1. p.view # view /\ UNCHANGED <<visible, read, crossed, unsure>>
    BY <1>3 DEF L!AnswerNobody
  <2>2. ~crossed /\ read => p.op = "load"
    BY <2>1 DEF ListInv, Followed, OperationsAreFollowed
  <2> QED
    BY <1>0, <2>1, <2>2, ListEnds
<1>4. CASE L!AnswerOrderAgain(p)
  <2>1. /\ p.state = "read again" /\ visible' = p.got /\ crossed' = (crossed \/ p.met)
        /\ UNCHANGED <<read, unsure>>
    BY <1>4 DEF L!AnswerOrderAgain
  <2>2. p.op = "order" /\ p.op \in list.ops
    BY <2>1 DEF ListInv, OpsAreOfTheList
  <2>3. p.op \in list.early /\ list.restores
    BY <1>0, <2>2, ListRules
  <2>4. ~crossed' /\ read =>
          /\ p.entry \notin unsure' => visible'[p.entry] = theirs[p.entry]
          /\ \A f \in L!Entries \ unsure' : f # p.entry => visible'[f] = visible[f] \/ visible'[f] = theirs[f]
          /\ \A q \in inquiries \ {p} : q.op # "load" => visible'[q.entry] = visible[q.entry]
    <3> SUFFICES ASSUME ~crossed, ~p.met, read
                 PROVE  /\ p.entry \notin unsure' => visible'[p.entry] = theirs[p.entry]
                        /\ \A f \in L!Entries \ unsure' :
                             f # p.entry => visible'[f] = visible[f] \/ visible'[f] = theirs[f]
                        /\ \A q \in inquiries \ {p} : q.op # "load" => visible'[q.entry] = visible[q.entry]
      BY <2>1
    <3>1. inquiries = {p}
      BY DEF ListInv, MeetingsAreKnown
    <3>2. EntryIsKnown(p) /\ OthersAreKept(p)
      BY <2>2 DEF ListInv, Followed, OperationsAreFollowed
    <3>3. ~ServedFor(p)
      BY <2>1 DEF ServedFor
    <3>4. visible' \in {theirs, p.before}
      BY <2>1, <3>2 DEF OthersAreKept
    <3>5. p.entry \notin unsure => theirs[p.entry] = p.before[p.entry]
      BY <2>3, <3>2, <3>3 DEF EntryIsKnown
    <3>6. \A f \in L!Entries \ {p.entry} : p.before[f] = visible[f]
      BY <2>3, <3>2 DEF OthersAreKept
    <3> QED
      BY <2>1, <3>1, <3>4, <3>5, <3>6
  <2> QED
    BY <1>0, <2>1, <2>2, <2>4, ListEnds
<1> QED
  BY <1>1, <1>2, <1>3, <1>4

(* What the list does not depend on.                                        *)
LEMMA ListUnmoved ==
    ASSUME ListInv, UNCHANGED <<list, view, visible, theirs, acts, read, unsure, inquiries, loads, crossed>>
    PROVE  ListInv'
<1>1. ListTypes' /\ OpsAreOfTheList' /\ LoadsAreCurrent'
  BY DEF ListInv, ListTypes, OpsAreOfTheList, LoadsAreCurrent
<1>2. \A p, q : L!Conflicts(p, q)' = L!Conflicts(p, q)
  BY DEF L!Conflicts, L!Whole
<1>3. MeetingsAreKnown'
  BY <1>2 DEF ListInv, MeetingsAreKnown
<1>4. ASSUME NEW p \in inquiries, EntryIsKnown(p), OthersAreKept(p)
      PROVE  EntryIsKnown(p)' /\ OthersAreKept(p)'
  BY <1>4 DEF EntryIsKnown, OthersAreKept, ServedFor, After
<1>5. Followed'
  BY <1>4 DEF ListInv, Followed, SeenOrUnderWay, OperationsAreFollowed
<1> QED
  BY <1>1, <1>3, <1>5 DEF ListInv

(* What the user does.                                                      *)
LEMMA ListMoves ==
    ASSUME ListInv, L!Open \/ L!Close \/ L!Leave \/ L!Refresh \/ L!Refuse \/ \E o, e : L!Ask(o, e)
    PROVE  ListInv'
<1>0. visible \in ListStates /\ L!Nothing \in ListStates
  BY DEF ListInv, ListTypes, L!Nothing, ListStates
<1>1. ASSUME L!Read(inquiries, FALSE), UNCHANGED <<list, view, visible, theirs, acts, read, unsure>>
      PROVE  ListInv'
  <2>1. ~crossed /\ read' /\ (\A q \in inquiries : q.op = "load") =>
            \A e \in L!Entries \ unsure' : visible'[e] = theirs[e]
    BY <1>1 DEF ListInv, Followed, SeenOrUnderWay
  <2> QED
    BY <1>0, <1>1, <2>1, ListReads
<1>2. ASSUME UNCHANGED <<list, view, visible, theirs, acts, read, unsure, inquiries, loads, crossed>>
      PROVE  ListInv'
  BY <1>2, ListUnmoved
<1>3. CASE L!Open
  BY <1>1, <1>2, <1>3 DEF L!Open
<1>4. CASE L!Refresh
  BY <1>1, <1>4 DEF L!Refresh
<1>5. CASE L!Close \/ L!Refuse \/ \E o, e : L!Ask(o, e)
  BY <1>2, <1>5 DEF L!Close, L!Refuse, L!Ask
<1>6. CASE L!Leave
  <2>1. /\ read' = FALSE /\ visible' = L!Nothing /\ view' = 2
        /\ UNCHANGED <<list, theirs, acts, unsure, inquiries, loads, crossed>>
    BY <1>6 DEF L!Leave
  <2>2. ListTypes'
    BY <1>0, <2>1 DEF ListInv, ListTypes
  <2> QED
    BY <2>1, <2>2 DEF ListInv, OpsAreOfTheList, MeetingsAreKnown, LoadsAreCurrent, Followed, L!Conflicts, L!Whole
<1> QED
  BY <1>3, <1>4, <1>5, <1>6

(* Invariant of the lists.                                                  *)
LEMMA ListStep ==
    ASSUME ListInv, L!Next
    PROVE  ListInv'
<1>1. ASSUME NEW e \in L!Entries, L!Create(e)
      PROVE  ListInv'
  <2>1. "create" \in list.ops /\ L!Send(L!Call("create", e), [visible EXCEPT ![e] = acts + 2])
    BY <1>1 DEF L!Create
  <2>2. [visible EXCEPT ![e] = acts + 2] = [visible EXCEPT ![e] = IF "create" = "delete" THEN 0 ELSE acts + 2]
    OBVIOUS
  <2> QED
    BY <2>1, <2>2, ListSends
<1>2. ASSUME NEW e \in L!Entries, NEW o \in {"change", "delete", "try", "order"}, L!Act(o, e)
      PROVE  ListInv'
  <2>1. L!Send(L!Call(o, e), [visible EXCEPT ![e] = IF o = "delete" THEN 0 ELSE acts + 2])
    BY <1>2 DEF L!Act
  <2>2. o \in list.ops
    <3>1. list.asks \subseteq list.ops
      BY ListRules DEF ListInv, ListTypes
    <3> QED
      BY <1>2, <3>1 DEF L!Act, L!Offered
  <2> QED
    BY <2>1, <2>2, ListSends
<1>3. CASE L!Open \/ L!Close \/ L!Leave \/ L!Refresh \/ L!Refuse
  BY <1>3, ListMoves
<1>4. ASSUME NEW e \in L!Entries, NEW o \in {"change", "delete", "try", "order"}, L!Ask(o, e)
      PROVE  ListInv'
  BY <1>4, ListMoves
<1>5. ASSUME NEW p \in inquiries,
             \/ L!Serve(p) \/ L!ServeDepartments(p)
             \/ L!AnswerLoad(p) \/ L!AnswerLoadFailed(p) \/ L!AnswerHalf(p) \/ L!AnswerDone(p) \/ L!AnswerRefused(p)
             \/ L!ServeOrderAgain(p) \/ L!AnswerOrderAgain(p) \/ L!AnswerNobody(p)
      PROVE  ListInv'
  BY <1>5, ListServes, ListGoesOn, ListAnswers, ListAnswersLoads
<1> QED
  BY <1>1, <1>2, <1>3, <1>4, <1>5 DEF L!Next

LEMMA ListKept ==
    ASSUME ListInv, MCNext \/ UNCHANGED listed
    PROVE  ListInv'
<1>1. CASE UNCHANGED listed
  BY <1>1, ListUnmoved DEF listed
<1>2. CASE L!Next
  BY <1>2, ListStep
<1> QED
  BY <1>1, <1>2 DEF MCNext

-----------------------------------------------------------------------------
(* The query cache. *)

(* A change of what an entry holds has it read again, is written into it,   *)
(* or overlooks it.  A list is written though it is not there only if it is *)
(* then read.                                                               *)
TreatmentRules(as) ==
    /\ as.writes \in {"", "rows", "list", "typed"}
    /\ as.blind => as.refreshes /\ as.writes = "list"
    /\ as.gap \/ as.refreshes \/ as.writes # ""
    /\ as.rereads => as.writes = "typed"

LEMMA Gaps ==
    ASSUME NEW q
    PROVE
      /\ q \in {"pendingOrders"} => C!Gap("linkTermsInSourcing", q)
      /\ q \in {"licenses", "licenseStats", "notifications", "portfolioStats"} => C!Gap("convertSourcing", q)
      /\ q \in {"licenseStats", "notifications", "portfolioStats"} => C!Gap("convertFreeware", q)
      /\ q \in {"renewals"} => C!Gap("mergeSourcing", q)
      /\ q \in {"pendingOrders"} => C!Gap("deleteQuoteInSourcing", q)
      /\ q \in {"licenseStats", "portfolioStats", "pendingOrders"} \union C!Sourcing => C!Gap("convertOrder", q)
      /\ q \in {"sourcingItems"} => C!Gap("linkTermsInOrders", q)
      /\ q \in {"renewals"} => C!Gap("editLicense", q)
      /\ q \in {"renewals"} => C!Gap("editLicenseField", q)
      /\ q \in {"reports"} => C!Gap("setPoTotal", q)
      /\ q \in {"renewals", "contracts"} => C!Gap("deleteLicenses", q)
      /\ q \in {"renewals", "contracts", "licenseStats", "portfolioStats"} => C!Gap("createLicenses", q)
      /\ q \in {"licenseStats"} => C!Gap("recordSupport", q)
      /\ q \in {"contracts"} => C!Gap("importLicenses", q)
      /\ q \in {"contracts"} => C!Gap("createContractFromLicense", q)
      /\ q \in {"notifications"} => C!Gap("changeNotificationRules", q)
      /\ q \in {"notifications"} => C!Gap("changeReferenceData", q)
BY DEF C!Gap, C!Overlooked

LEMMA DeedRules ==
    ASSUME NEW d \in DOMAIN C!Deeds, NEW q \in C!Deeds[d].changes
    PROVE  /\ C!Deeds[d].how \in {"rows", "list", "typed"}
           /\ C!Gap(d, q) \/ C!Refreshes(d, q) \/ q = C!Deeds[d].patches
           /\ d = "startRenewal" /\ q = C!Deeds[d].patches => C!Refreshes(d, q) /\ C!Deeds[d].how = "list"
           /\ C!Deeds[d].rereads => C!Deeds[d].how = "typed"
<1>1. CASE d = "editSourcing"
  <2>1. C!Deeds[d] = C!EditSourcing
    BY <1>1 DEF C!Deeds
  <2>2. /\ C!EditSourcing.changes = C!Sourcing
        /\ C!EditSourcing.invalidates = C!Sourcing
        /\ C!EditSourcing.patches = ""
        /\ C!EditSourcing.how = "rows" /\ ~C!EditSourcing.rereads
    BY DEF C!EditSourcing, C!Deed
  <2> QED
    BY <1>1, <2>1, <2>2 DEF C!Refreshes, C!Bases, C!Sourcing
<1>2. CASE d = "linkTermsInSourcing"
  <2>1. C!Deeds[d] = C!LinkTermsInSourcing
    BY <1>2 DEF C!Deeds
  <2>2. /\ C!LinkTermsInSourcing.changes = C!Sourcing \union {"pendingOrders"}
        /\ C!LinkTermsInSourcing.invalidates = C!Sourcing
        /\ C!LinkTermsInSourcing.patches = ""
        /\ C!LinkTermsInSourcing.how = "rows" /\ ~C!LinkTermsInSourcing.rereads
    BY DEF C!LinkTermsInSourcing, C!Deed
  <2> QED
    BY <1>2, <2>1, <2>2, Gaps DEF C!Refreshes, C!Bases, C!Sourcing
<1>3. CASE d = "dropSourcing"
  <2>1. C!Deeds[d] = C!DropSourcing
    BY <1>3 DEF C!Deeds
  <2>2. /\ C!DropSourcing.changes = C!ProcurementState
        /\ C!DropSourcing.invalidates = C!ProcurementRenewalState
        /\ C!DropSourcing.patches = ""
        /\ C!DropSourcing.how = "rows" /\ ~C!DropSourcing.rereads
    BY DEF C!DropSourcing, C!Deed
  <2> QED
    BY <1>3, <2>1, <2>2 DEF C!Refreshes, C!Bases, C!LicenseState, C!Orders, C!Portfolio,
        C!ProcurementRenewalState, C!ProcurementState, C!RenewalState, C!RenewalWorkflow, C!Sourcing
<1>4. CASE d = "convertSourcing"
  <2>1. C!Deeds[d] = C!ConvertSourcing
    BY <1>4 DEF C!Deeds
  <2>2. /\ C!ConvertSourcing.changes = C!RenewalState \union {"pendingOrders"}
        /\ C!ConvertSourcing.invalidates = C!Sourcing \union {"pendingOrders", "renewals"} \union C!Portfolio
        /\ C!ConvertSourcing.patches = ""
        /\ C!ConvertSourcing.how = "rows" /\ ~C!ConvertSourcing.rereads
    BY DEF C!ConvertSourcing, C!Deed
  <2> QED
    BY <1>4, <2>1, <2>2, Gaps DEF C!Refreshes, C!Bases, C!LicenseState, C!Portfolio, C!RenewalState,
        C!Sourcing
<1>5. CASE d = "convertFreeware"
  <2>1. C!Deeds[d] = C!ConvertFreeware
    BY <1>5 DEF C!Deeds
  <2>2. /\ C!ConvertFreeware.changes = C!RenewalState
        /\ C!ConvertFreeware.invalidates = C!Sourcing \union {"licenses", "renewals"} \union C!Portfolio
        /\ C!ConvertFreeware.patches = ""
        /\ C!ConvertFreeware.how = "rows" /\ ~C!ConvertFreeware.rereads
    BY DEF C!ConvertFreeware, C!Deed
  <2> QED
    BY <1>5, <2>1, <2>2, Gaps DEF C!Refreshes, C!Bases, C!LicenseState, C!Portfolio, C!RenewalState,
        C!Sourcing
<1>6. CASE d = "mergeSourcing"
  <2>1. C!Deeds[d] = C!MergeSourcing
    BY <1>6 DEF C!Deeds
  <2>2. /\ C!MergeSourcing.changes = {"sourcing", "sourcingItems", "renewals"}
        /\ C!MergeSourcing.invalidates = {"sourcing", "sourcingItems"}
        /\ C!MergeSourcing.patches = ""
        /\ C!MergeSourcing.how = "rows" /\ ~C!MergeSourcing.rereads
    BY DEF C!MergeSourcing, C!Deed
  <2> QED
    BY <1>6, <2>1, <2>2, Gaps DEF C!Refreshes, C!Bases
<1>7. CASE d = "deleteQuoteInSourcing"
  <2>1. C!Deeds[d] = C!DeleteQuoteInSourcing
    BY <1>7 DEF C!Deeds
  <2>2. /\ C!DeleteQuoteInSourcing.changes = {"sourcing", "sourcingHistory", "pendingOrders"}
        /\ C!DeleteQuoteInSourcing.invalidates = {"sourcing", "sourcingHistory"}
        /\ C!DeleteQuoteInSourcing.patches = ""
        /\ C!DeleteQuoteInSourcing.how = "rows" /\ ~C!DeleteQuoteInSourcing.rereads
    BY DEF C!DeleteQuoteInSourcing, C!Deed
  <2> QED
    BY <1>7, <2>1, <2>2, Gaps DEF C!Refreshes, C!Bases
<1>8. CASE d = "createOrder"
  <2>1. C!Deeds[d] = C!CreateOrder
    BY <1>8 DEF C!Deeds
  <2>2. /\ C!CreateOrder.changes = {"pendingOrders", "portfolioStats"}
        /\ C!CreateOrder.invalidates = C!Orders \union C!Portfolio
        /\ C!CreateOrder.patches = ""
        /\ C!CreateOrder.how = "rows" /\ ~C!CreateOrder.rereads
    BY DEF C!CreateOrder, C!Deed
  <2> QED
    BY <1>8, <2>1, <2>2 DEF C!Refreshes, C!Bases, C!Orders, C!Portfolio
<1>9. CASE d = "updateOrder"
  <2>1. C!Deeds[d] = C!UpdateOrder
    BY <1>9 DEF C!Deeds
  <2> QED
    BY <1>9, <2>1 DEF C!Refreshes, C!Bases, C!UpdateOrder, C!Deed, C!Writing, C!Portfolio
<1>10. CASE d = "addOrderLines"
  <2>1. C!Deeds[d] = C!AddOrderLines
    BY <1>10 DEF C!Deeds
  <2>2. /\ C!AddOrderLines.changes = {"pendingOrders"}
        /\ C!AddOrderLines.invalidates = {"pendingOrders"}
        /\ C!AddOrderLines.patches = ""
        /\ C!AddOrderLines.how = "rows" /\ ~C!AddOrderLines.rereads
    BY DEF C!AddOrderLines, C!Deed
  <2> QED
    BY <1>10, <2>1, <2>2 DEF C!Refreshes, C!Bases
<1>11. CASE d = "deleteOrderLine"
  <2>1. C!Deeds[d] = C!DeleteOrderLine
    BY <1>11 DEF C!Deeds
  <2> QED
    BY <1>11, <2>1 DEF C!Refreshes, C!Bases, C!DeleteOrderLine, C!Deed, C!Writing, C!LicenseState,
        C!Orders, C!Portfolio, C!ProcurementRenewalState, C!ProcurementState, C!RenewalState,
        C!RenewalWorkflow, C!Sourcing
<1>12. CASE d = "cancelOrder"
  <2>1. C!Deeds[d] = C!CancelOrder
    BY <1>12 DEF C!Deeds
  <2>2. /\ C!CancelOrder.changes = C!ProcurementState
        /\ C!CancelOrder.invalidates = C!ProcurementRenewalState
        /\ C!CancelOrder.patches = ""
        /\ C!CancelOrder.how = "rows" /\ ~C!CancelOrder.rereads
    BY DEF C!CancelOrder, C!Deed
  <2> QED
    BY <1>12, <2>1, <2>2 DEF C!Refreshes, C!Bases, C!LicenseState, C!Orders, C!Portfolio,
        C!ProcurementRenewalState, C!ProcurementState, C!RenewalState, C!RenewalWorkflow, C!Sourcing
<1>13. CASE d = "convertOrder"
  <2>1. C!Deeds[d] = C!ConvertOrder
    BY <1>13 DEF C!Deeds
  <2> QED
    BY <1>13, <2>1, Gaps DEF C!Refreshes, C!Bases, C!ConvertOrder, C!Deed, C!Writing, C!LicenseState,
        C!Orders, C!Portfolio, C!ProcurementState, C!RenewalState, C!Sourcing
<1>14. CASE d = "orderDocuments"
  <2>1. C!Deeds[d] = C!OrderDocuments
    BY <1>14 DEF C!Deeds
  <2>2. /\ C!OrderDocuments.changes = C!Orders
        /\ C!OrderDocuments.invalidates = C!Orders
        /\ C!OrderDocuments.patches = ""
        /\ C!OrderDocuments.how = "rows" /\ ~C!OrderDocuments.rereads
    BY DEF C!OrderDocuments, C!Deed
  <2> QED
    BY <1>14, <2>1, <2>2 DEF C!Refreshes, C!Bases, C!Orders
<1>15. CASE d = "deleteQuoteInOrders"
  <2>1. C!Deeds[d] = C!DeleteQuoteInOrders
    BY <1>15 DEF C!Deeds
  <2>2. /\ C!DeleteQuoteInOrders.changes = C!Orders \union {"sourcing", "sourcingHistory"}
        /\ C!DeleteQuoteInOrders.invalidates = C!Orders \union {"sourcing", "sourcingHistory"}
        /\ C!DeleteQuoteInOrders.patches = ""
        /\ C!DeleteQuoteInOrders.how = "rows" /\ ~C!DeleteQuoteInOrders.rereads
    BY DEF C!DeleteQuoteInOrders, C!Deed
  <2> QED
    BY <1>15, <2>1, <2>2 DEF C!Refreshes, C!Bases, C!Orders
<1>16. CASE d = "linkTermsInOrders"
  <2>1. C!Deeds[d] = C!LinkTermsInOrders
    BY <1>16 DEF C!Deeds
  <2>2. /\ C!LinkTermsInOrders.changes = C!Sourcing \union {"pendingOrders"}
        /\ C!LinkTermsInOrders.invalidates = {"pendingOrders", "sourcing", "sourcingHistory"}
        /\ C!LinkTermsInOrders.patches = ""
        /\ C!LinkTermsInOrders.how = "rows" /\ ~C!LinkTermsInOrders.rereads
    BY DEF C!LinkTermsInOrders, C!Deed
  <2> QED
    BY <1>16, <2>1, <2>2, Gaps DEF C!Refreshes, C!Bases, C!Sourcing
<1>17. CASE d = "editLicense"
  <2>1. C!Deeds[d] = C!EditLicense
    BY <1>17 DEF C!Deeds
  <2> QED
    BY <1>17, <2>1, Gaps DEF C!Refreshes, C!Bases, C!EditLicense, C!Deed, C!Writing, C!LicenseState,
        C!Portfolio
<1>18. CASE d = "editLicenseField"
  <2>1. C!Deeds[d] = C!EditLicenseField
    BY <1>18 DEF C!Deeds
  <2> QED
    BY <1>18, <2>1, Gaps DEF C!Refreshes, C!Bases, C!EditLicenseField, C!Deed, C!Writing, C!EditLicense,
        C!LicenseState, C!Portfolio
<1>19. CASE d = "licenseDocuments"
  <2>1. C!Deeds[d] = C!LicenseDocuments
    BY <1>19 DEF C!Deeds
  <2> QED
    BY <1>19, <2>1 DEF C!Refreshes, C!Bases, C!LicenseDocuments, C!Deed, C!Writing
<1>20. CASE d = "setPoTotal"
  <2>1. C!Deeds[d] = C!SetPoTotal
    BY <1>20 DEF C!Deeds
  <2> QED
    BY <1>20, <2>1, Gaps DEF C!Refreshes, C!Bases, C!SetPoTotal, C!Deed, C!Writing
<1>21. CASE d = "deleteLicenses"
  <2>1. C!Deeds[d] = C!DeleteLicenses
    BY <1>21 DEF C!Deeds
  <2> QED
    BY <1>21, <2>1, Gaps DEF C!Refreshes, C!Bases, C!DeleteLicenses, C!Deed, C!Writing, C!LicenseState,
        C!Portfolio
<1>22. CASE d = "createLicenses"
  <2>1. C!Deeds[d] = C!CreateLicenses
    BY <1>22 DEF C!Deeds
  <2>2. /\ C!CreateLicenses.changes = C!LicenseState
        /\ C!CreateLicenses.invalidates = {"licenses", "notifications"} \union C!Portfolio
        /\ C!CreateLicenses.patches = ""
        /\ C!CreateLicenses.how = "rows" /\ ~C!CreateLicenses.rereads
    BY DEF C!CreateLicenses, C!Deed
  <2> QED
    BY <1>22, <2>1, <2>2, Gaps DEF C!Refreshes, C!Bases, C!LicenseState, C!Portfolio
<1>23. CASE d = "linkMaintenance"
  <2>1. C!Deeds[d] = C!LinkMaintenance
    BY <1>23 DEF C!Deeds
  <2>2. /\ C!LinkMaintenance.changes = {"licenses"}
        /\ C!LinkMaintenance.invalidates = {"licenses"}
        /\ C!LinkMaintenance.patches = ""
        /\ C!LinkMaintenance.how = "rows" /\ ~C!LinkMaintenance.rereads
    BY DEF C!LinkMaintenance, C!Deed
  <2> QED
    BY <1>23, <2>1, <2>2 DEF C!Refreshes, C!Bases
<1>24. CASE d = "recordSupport"
  <2>1. C!Deeds[d] = C!RecordSupport
    BY <1>24 DEF C!Deeds
  <2>2. /\ C!RecordSupport.changes = {"licenses", "renewals", "licenseStats"}
        /\ C!RecordSupport.invalidates = {"licenses", "renewals"}
        /\ C!RecordSupport.patches = ""
        /\ C!RecordSupport.how = "rows" /\ ~C!RecordSupport.rereads
    BY DEF C!RecordSupport, C!Deed
  <2> QED
    BY <1>24, <2>1, <2>2, Gaps DEF C!Refreshes, C!Bases
<1>25. CASE d = "importLicenses"
  <2>1. C!Deeds[d] = C!ImportLicenses
    BY <1>25 DEF C!Deeds
  <2>2. /\ C!ImportLicenses.changes = C!LicenseState \union {"referenceData"}
        /\ C!ImportLicenses.invalidates = C!ImportState
        /\ C!ImportLicenses.patches = ""
        /\ C!ImportLicenses.how = "rows" /\ ~C!ImportLicenses.rereads
    BY DEF C!ImportLicenses, C!Deed
  <2> QED
    BY <1>25, <2>1, <2>2, Gaps DEF C!Refreshes, C!Bases, C!CompletenessRules, C!ImportState,
        C!LicenseState, C!Portfolio
<1>26. CASE d = "changeRenewal"
  <2>1. C!Deeds[d] = C!ChangeRenewal
    BY <1>26 DEF C!Deeds
  <2> QED
    BY <1>26, <2>1 DEF C!Refreshes, C!Bases, C!ChangeRenewal, C!Deed, C!Writing, C!LicenseState,
        C!Portfolio, C!RenewalState, C!RenewalWorkflow, C!Sourcing
<1>27. CASE d = "startRenewal"
  <2>1. C!Deeds[d] = C!StartRenewal
    BY <1>27 DEF C!Deeds
  <2> QED
    BY <1>27, <2>1 DEF C!Refreshes, C!Bases, C!StartRenewal, C!Deed, C!Writing, C!LicenseState,
        C!Portfolio, C!RenewalState, C!RenewalWorkflow, C!Sourcing
<1>28. CASE d = "linkSuccessor"
  <2>1. C!Deeds[d] = C!LinkSuccessor
    BY <1>28 DEF C!Deeds
  <2> QED
    BY <1>28, <2>1 DEF C!Refreshes, C!Bases, C!LinkSuccessor, C!Deed, C!Writing, C!LicenseState,
        C!Portfolio, C!RenewalWorkflow, C!Sourcing
<1>29. CASE d = "editContract"
  <2>1. C!Deeds[d] = C!EditContract
    BY <1>29 DEF C!Deeds
  <2>2. /\ C!EditContract.changes = {"contracts"}
        /\ C!EditContract.invalidates = {"contracts"}
        /\ C!EditContract.patches = ""
        /\ C!EditContract.how = "rows" /\ ~C!EditContract.rereads
    BY DEF C!EditContract, C!Deed
  <2> QED
    BY <1>29, <2>1, <2>2 DEF C!Refreshes, C!Bases
<1>30. CASE d = "createContractFromLicense"
  <2>1. C!Deeds[d] = C!CreateContractFromLicense
    BY <1>30 DEF C!Deeds
  <2>2. /\ C!CreateContractFromLicense.changes = {"contracts"}
        /\ C!CreateContractFromLicense.invalidates = {}
        /\ C!CreateContractFromLicense.patches = ""
        /\ C!CreateContractFromLicense.how = "rows" /\ ~C!CreateContractFromLicense.rereads
    BY DEF C!CreateContractFromLicense, C!Deed
  <2> QED
    BY <1>30, <2>1, <2>2, Gaps DEF C!Refreshes, C!Bases
<1>31. CASE d = "deleteContract"
  <2>1. C!Deeds[d] = C!DeleteContract
    BY <1>31 DEF C!Deeds
  <2> QED
    BY <1>31, <2>1 DEF C!Refreshes, C!Bases, C!DeleteContract, C!Deed, C!Writing
<1>32. CASE d = "changeCompletenessRules"
  <2>1. C!Deeds[d] = C!ChangeCompletenessRules
    BY <1>32 DEF C!Deeds
  <2>2. /\ C!ChangeCompletenessRules.changes = C!LicenseState \ {"contracts"}
        /\ C!ChangeCompletenessRules.invalidates = C!CompletenessRules
        /\ C!ChangeCompletenessRules.patches = ""
        /\ C!ChangeCompletenessRules.how = "rows" /\ ~C!ChangeCompletenessRules.rereads
    BY DEF C!ChangeCompletenessRules, C!Deed
  <2> QED
    BY <1>32, <2>1, <2>2 DEF C!Refreshes, C!Bases, C!CompletenessRules, C!LicenseState, C!Portfolio
<1>33. CASE d = "changeNotificationRules"
  <2>1. C!Deeds[d] = C!ChangeNotificationRules
    BY <1>33 DEF C!Deeds
  <2>2. /\ C!ChangeNotificationRules.changes = {"notifications"}
        /\ C!ChangeNotificationRules.invalidates = {}
        /\ C!ChangeNotificationRules.patches = ""
        /\ C!ChangeNotificationRules.how = "rows" /\ ~C!ChangeNotificationRules.rereads
    BY DEF C!ChangeNotificationRules, C!Deed
  <2> QED
    BY <1>33, <2>1, <2>2, Gaps DEF C!Refreshes, C!Bases
<1>34. CASE d = "defineCustomFields"
  <2>1. C!Deeds[d] = C!DefineCustomFields
    BY <1>34 DEF C!Deeds
  <2>2. /\ C!DefineCustomFields.changes = {"customFieldDefs", "licenses", "renewals"}
        /\ C!DefineCustomFields.invalidates = C!CustomFieldDefinitions
        /\ C!DefineCustomFields.patches = ""
        /\ C!DefineCustomFields.how = "rows" /\ ~C!DefineCustomFields.rereads
    BY DEF C!DefineCustomFields, C!Deed
  <2> QED
    BY <1>34, <2>1, <2>2 DEF C!Refreshes, C!Bases, C!CustomFieldDefinitions
<1>35. CASE d = "changeReferenceData"
  <2>1. C!Deeds[d] = C!ChangeReferenceData
    BY <1>35 DEF C!Deeds
  <2>2. /\ C!ChangeReferenceData.changes = C!Queries \ {"licenseStats", "portfolioStats", "customFieldDefs"}
        /\ C!ChangeReferenceData.invalidates = C!ReferenceData
        /\ C!ChangeReferenceData.patches = ""
        /\ C!ChangeReferenceData.how = "rows" /\ ~C!ChangeReferenceData.rereads
    BY DEF C!ChangeReferenceData, C!Deed
  <2> QED
    BY <1>35, <2>1, <2>2, Gaps DEF C!Refreshes, C!Bases, C!ReferenceData, C!Sourcing, C!Queries,
        C!Sourcing, C!Orders, C!Portfolio
<1>36. CASE d = "resetPortfolio"
  <2>1. C!Deeds[d] = C!ResetPortfolio
    BY <1>36 DEF C!Deeds
  <2>2. /\ C!ResetPortfolio.changes = C!Queries
        /\ C!ResetPortfolio.invalidates = C!Queries
        /\ C!ResetPortfolio.patches = ""
        /\ C!ResetPortfolio.how = "rows" /\ ~C!ResetPortfolio.rereads
    BY DEF C!ResetPortfolio, C!Deed
  <2> QED
    BY <1>36, <2>1, <2>2 DEF C!Refreshes, C!Bases
<1> QED
  BY <1>1, <1>2, <1>3, <1>4, <1>5, <1>6, <1>7, <1>8, <1>9, <1>10, <1>11, <1>12, <1>13, <1>14, <1>15,
      <1>16, <1>17, <1>18, <1>19, <1>20, <1>21, <1>22, <1>23, <1>24, <1>25, <1>26, <1>27, <1>28, <1>29,
      <1>30, <1>31, <1>32, <1>33, <1>34, <1>35, <1>36 DEF C!Deeds

(* What is done to the entry followed.                                      *)
LEMMA TreatmentsAreSound ==
    ASSUME NEW q \in C!Queries, NEW as \in C!Treatments[q]
    PROVE  TreatmentRules(as)
<1>1. PICK d \in {e \in DOMAIN C!Deeds : q \in C!Deeds[e].changes} : as = C!Treatment(d, q)
  BY DEF C!Treatments
<1>2. d \in DOMAIN C!Deeds /\ q \in C!Deeds[d].changes
  OBVIOUS
<1>3. PICK refreshes \in BOOLEAN : refreshes = C!Refreshes(d, q)
  BY DEF C!Refreshes
<1>4. PICK gap \in BOOLEAN : gap = C!Gap(d, q)
  BY DEF C!Gap
<1>5. PICK writes \in BOOLEAN : writes = (q = C!Deeds[d].patches)
  OBVIOUS
<1>6. PICK blind \in BOOLEAN : blind = (writes /\ d = "startRenewal")
  OBVIOUS
<1>7. PICK rereads \in BOOLEAN : rereads = (writes /\ C!Deeds[d].rereads)
  OBVIOUS
<1>8. as = [refreshes |-> refreshes, writes |-> IF writes THEN C!Deeds[d].how ELSE "",
            rereads |-> rereads, blind |-> blind, gap |-> gap]
  BY <1>1, <1>3, <1>4, <1>5, <1>6, <1>7 DEF C!Treatment
<1>9. /\ as.refreshes = refreshes /\ as.writes = (IF writes THEN C!Deeds[d].how ELSE "")
      /\ as.blind = blind /\ as.gap = gap /\ as.rereads = rereads
  BY <1>8
<1>10. /\ C!Deeds[d].how \in {"rows", "list", "typed"} /\ (gap \/ refreshes \/ writes)
       /\ blind => refreshes /\ C!Deeds[d].how = "list"
       /\ rereads => writes /\ C!Deeds[d].how = "typed"
  BY <1>2, <1>3, <1>4, <1>5, <1>6, <1>7, DeedRules
<1> QED
  BY <1>6, <1>9, <1>10 DEF TreatmentRules

Versions == [Rows -> Nat]
Fetches == [state : {"idle", "sent", "read", "failed"}, got : Versions, clean : BOOLEAN]
Doings ==
    [id : Nat, as : treatments, row : Rows, state : {"sent", "done", "failed"}, version : Nat,
     doubtful : BOOLEAN, before : Versions]

CacheTypes ==
    /\ \A as \in treatments : TreatmentRules(as)
    /\ mounted \in BOOLEAN /\ stale \in BOOLEAN /\ raced \in BOOLEAN /\ deeds \in Nat
    /\ server \in Versions /\ own \in Versions /\ data \in Versions
    /\ fetch \in Fetches /\ doing \subseteq Doings

(* A version that is the user's last of a record, or a later one.           *)
Current(versions, r) == own[r] <= versions[r] /\ versions[r] <= server[r]

ServerHasOwn == \A r \in Rows : 1 <= server[r] /\ own[r] <= server[r]

(* What a read that was not raced will bring.                               *)
FetchIsCurrent ==
    /\ fetch.state = "idle" => fetch = C!Idle
    /\ fetch.state = "read" => \A r \in Rows : 1 <= fetch.got[r]
    /\ fetch.state = "read" /\ fetch.clean => \A r \in Rows : Current(fetch.got, r)
    /\ fetch # C!Idle /\ ~raced => fetch.clean

TypedOver(r) == \E p \in doing : p.as.writes = "typed" /\ p.row = r
DataIsCurrent == C!known /\ ~stale /\ ~raced => \A r \in Rows : Current(data, r) \/ TypedOver(r)

(* A change that is not in doubt is the only one under way.                 *)
DoingIsKnown(p) ==
    /\ p.as.writes # "" /\ ~p.as.blind => C!known
    /\ p.as.writes = "typed" => p.before # C!Nothing
    /\ p.state = "done" => 1 <= p.version /\ p.version <= server[p.row]
    /\ ~p.doubtful =>
         /\ doing = {p}
         /\ p.state = "done" => own[p.row] <= p.version
         /\ p.as.writes = "typed" => \A r \in Rows : Current(p.before, r)
DoingsAreKnown == \A p \in doing : DoingIsKnown(p)

CacheInv ==
    /\ CacheTypes
    /\ ServerHasOwn
    /\ FetchIsCurrent
    /\ DataIsCurrent
    /\ DoingsAreKnown

LEMMA ReadStates ==
    /\ C!Nothing \in Versions /\ \A r \in Rows : C!Nothing[r] = 0
    /\ C!Idle \in Fetches /\ C!Idle.state = "idle" /\ ~C!Idle.clean
    /\ C!Sent \in Fetches /\ C!Sent.state = "sent" /\ C!Sent.clean
BY DEF C!Nothing, C!Idle, C!Sent, Versions, Fetches

LEMMA CacheStart == C!Init => CacheInv
<1> SUFFICES ASSUME C!Init
             PROVE  CacheInv
  OBVIOUS
<1>1. \A as \in treatments : TreatmentRules(as)
  <2>1. PICK q \in C!Queries : treatments = C!Treatments[q]
    BY DEF C!Init
  <2> QED
    BY <2>1, TreatmentsAreSound
<1>2. CacheTypes
  BY <1>1, ReadStates DEF C!Init, CacheTypes, Versions
<1>3. ServerHasOwn
  BY DEF C!Init, ServerHasOwn
<1>4. FetchIsCurrent
  BY ReadStates DEF C!Init, FetchIsCurrent
<1> QED
  BY <1>2, <1>3, <1>4 DEF C!Init, C!known, CacheInv, DataIsCurrent, DoingsAreKnown

(* A read is begun, given up in favour of another, raced, or left alone.    *)
LEMMA ReadGoesOn ==
    ASSUME CacheInv, server' = server, own' = own, C!StartFetch \/ C!Race \/ UNCHANGED <<fetch, raced>>
    PROVE  fetch' \in Fetches /\ raced' \in BOOLEAN /\ FetchIsCurrent' /\ (raced => raced')
<1>1. CASE C!StartFetch
  <2>1. fetch' = C!Sent /\ raced' = raced
    BY <1>1 DEF C!StartFetch
  <2> QED
    BY <2>1, ReadStates DEF CacheInv, CacheTypes, FetchIsCurrent
<1>2. CASE C!Race
  <2>1. fetch' = [fetch EXCEPT !.clean = FALSE] /\ raced' = TRUE
    BY <1>2 DEF C!Race
  <2>2. fetch' \in Fetches /\ fetch'.state = fetch.state /\ fetch'.got = fetch.got /\ ~fetch'.clean
    BY <2>1 DEF CacheInv, CacheTypes, Fetches
  <2>3. fetch = C!Idle => fetch' = C!Idle
    BY <2>1, ReadStates DEF Fetches
  <2> QED
    BY <2>1, <2>2, <2>3 DEF CacheInv, FetchIsCurrent
<1>3. CASE UNCHANGED <<fetch, raced>>
  BY <1>3 DEF CacheInv, CacheTypes, FetchIsCurrent, Current
<1> QED
  BY <1>1, <1>2, <1>3

(* What is on screen, and what is read for it.                              *)
LEMMA CacheShows ==
    ASSUME CacheInv, C!Mount \/ C!Unmount \/ C!Refetch \/ C!IdleRefresh
    PROVE  CacheInv'
<1>1. /\ mounted' \in BOOLEAN /\ stale' \in BOOLEAN
      /\ stale' = stale \/ (C!known => stale')
      /\ UNCHANGED <<treatments, server, data, doing, deeds, own>>
      /\ C!StartFetch \/ UNCHANGED <<fetch, raced>>
  <2>1. CASE C!Mount
    BY <2>1 DEF C!Mount, CacheInv, CacheTypes
  <2>2. CASE C!Unmount
    BY <2>2 DEF C!Unmount, CacheInv, CacheTypes
  <2>3. CASE C!Refetch
    BY <2>3 DEF C!Refetch, CacheInv, CacheTypes
  <2>4. CASE C!IdleRefresh
    <3>1. C!known \in BOOLEAN
      BY DEF C!known
    <3> QED
      BY <2>4, <3>1 DEF C!IdleRefresh, C!Invalidate, CacheInv, CacheTypes
  <2> QED
    BY <2>1, <2>2, <2>3, <2>4
<1>2. fetch' \in Fetches /\ raced' \in BOOLEAN /\ FetchIsCurrent' /\ (raced => raced')
  BY <1>1, ReadGoesOn
<1>3. CacheTypes'
  BY <1>1, <1>2 DEF CacheInv, CacheTypes, Doings
<1>4. DataIsCurrent'
  BY <1>1, <1>2 DEF CacheInv, DataIsCurrent, TypedOver, Current, C!known
<1>5. DoingsAreKnown' /\ ServerHasOwn'
  BY <1>1 DEF CacheInv, DoingsAreKnown, DoingIsKnown, ServerHasOwn, Current, C!known
<1> QED
  BY <1>2, <1>3, <1>4, <1>5 DEF CacheInv

LEMMA CacheReads ==
    ASSUME CacheInv, C!ServerReads \/ C!TakeFetch \/ C!FetchFails
    PROVE  CacheInv'
<1>1. CASE C!ServerReads
  <2>1. /\ UNCHANGED <<treatments, mounted, server, data, stale, doing, deeds, own, raced>>
        /\ \/ fetch' = [fetch EXCEPT !.state = "read", !.got = server]
           \/ fetch' = [fetch EXCEPT !.state = "failed"]
        /\ fetch.state = "sent"
    BY <1>1 DEF C!ServerReads
  <2>2. /\ fetch' \in Fetches /\ fetch'.clean = fetch.clean
        /\ \/ fetch'.state = "read" /\ fetch'.got = server
           \/ fetch'.state = "failed"
    BY <2>1 DEF CacheInv, CacheTypes, Fetches
  <2>3. \A r \in Rows : own[r] <= server[r] /\ server[r] <= server[r] /\ 1 <= server[r]
    BY DEF CacheInv, CacheTypes, Versions, ServerHasOwn
  <2>4. fetch # C!Idle
    BY <2>1, ReadStates
  <2>5. FetchIsCurrent'
    BY <2>1, <2>2, <2>3, <2>4 DEF CacheInv, FetchIsCurrent, Current
  <2>6. CacheTypes'
    BY <2>1, <2>2 DEF CacheInv, CacheTypes, Doings
  <2>7. DataIsCurrent' /\ DoingsAreKnown' /\ ServerHasOwn'
    BY <2>1 DEF CacheInv, DataIsCurrent, TypedOver, DoingsAreKnown, DoingIsKnown, ServerHasOwn, Current, C!known
  <2> QED
    BY <2>5, <2>6, <2>7 DEF CacheInv
<1>2. CASE C!TakeFetch
  <2>1. /\ UNCHANGED <<treatments, mounted, server, doing, deeds, own>>
        /\ fetch.state = "read" /\ data' = fetch.got /\ stale' = FALSE /\ fetch' = C!Idle
    BY <1>2 DEF C!TakeFetch
  <2>2. raced' \in BOOLEAN /\ (~raced' => ~raced \/ fetch.clean)
    BY <1>2 DEF C!TakeFetch, CacheInv, CacheTypes, Fetches
  <2>3. fetch # C!Idle /\ fetch.got \in Versions
    BY <2>1, ReadStates DEF CacheInv, CacheTypes, Fetches
  <2>4. FetchIsCurrent'
    BY <2>1, ReadStates DEF FetchIsCurrent
  <2>5. CacheTypes'
    BY <2>1, <2>2, <2>3, ReadStates DEF CacheInv, CacheTypes, Doings
  <2>6. ~raced' => \A r \in Rows : Current(fetch.got, r)
    BY <2>1, <2>2, <2>3 DEF CacheInv, FetchIsCurrent
  <2>7. DataIsCurrent'
    BY <2>1, <2>6 DEF DataIsCurrent, Current
  <2>8. C!known => C!known'
    <3>1. SUFFICES ASSUME C!known
                   PROVE  fetch.got # C!Nothing
      BY <2>1 DEF C!known
    <3>2. PICK r \in Rows : data[r] # C!Nothing[r]
      BY <3>1, ReadStates DEF C!known, CacheInv, CacheTypes, Versions
    <3>3. 1 <= fetch.got[r] /\ C!Nothing[r] = 0
      BY <2>1, ReadStates DEF CacheInv, FetchIsCurrent
    <3> QED
      BY <3>3
  <2>9. DoingsAreKnown' /\ ServerHasOwn'
    BY <2>1, <2>8 DEF CacheInv, DoingsAreKnown, DoingIsKnown, ServerHasOwn, Current
  <2> QED
    BY <2>4, <2>5, <2>7, <2>9 DEF CacheInv
<1>3. CASE C!FetchFails
  <2>1. /\ UNCHANGED <<treatments, mounted, server, data, stale, doing, deeds, own, raced>>
        /\ fetch' = C!Idle
    BY <1>3 DEF C!FetchFails
  <2>2. FetchIsCurrent' /\ fetch' \in Fetches
    BY <2>1, ReadStates DEF FetchIsCurrent
  <2>3. CacheTypes'
    BY <2>1, <2>2 DEF CacheInv, CacheTypes, Doings
  <2>4. DataIsCurrent' /\ DoingsAreKnown' /\ ServerHasOwn'
    BY <2>1 DEF CacheInv, DataIsCurrent, TypedOver, DoingsAreKnown, DoingIsKnown, ServerHasOwn, Current, C!known
  <2> QED
    BY <2>2, <2>3, <2>4 DEF CacheInv
<1> QED
  BY <1>1, <1>2, <1>3

(* A user changes a record.                                                 *)
LEMMA CacheActs ==
    ASSUME CacheInv, NEW as \in treatments, NEW r \in Rows, C!Act(as, r)
    PROVE  CacheInv'
<1> DEFINE rec == [id |-> deeds, as |-> as, row |-> r, state |-> "sent", version |-> 0,
                   doubtful |-> raced \/ stale \/ fetch # C!Idle \/ doing # {},
                   before |-> IF as.writes = "typed" THEN data ELSE C!Nothing]
<1>0. TreatmentRules(as)
  BY DEF CacheInv, CacheTypes
<1>1. /\ UNCHANGED <<treatments, mounted, server, own>> /\ deeds' = deeds + 1
      /\ doing' = {[p EXCEPT !.doubtful = TRUE] : p \in doing} \union {rec}
      /\ as.writes # "" /\ ~as.blind => C!known
  BY <1>0 DEF C!Act, TreatmentRules
<1>2. PICK n \in Doings : n = rec
  <2>1. PICK doubtful \in BOOLEAN : doubtful = (raced \/ stale \/ fetch # C!Idle \/ doing # {})
    OBVIOUS
  <2>2. PICK before \in Versions : before = IF as.writes = "typed" THEN data ELSE C!Nothing
    BY ReadStates DEF CacheInv, CacheTypes
  <2>3. rec = [id |-> deeds, as |-> as, row |-> r, state |-> "sent", version |-> 0,
               doubtful |-> doubtful, before |-> before]
    BY <2>1, <2>2
  <2>4. deeds \in Nat
    BY DEF CacheInv, CacheTypes
  <2> QED
    BY <2>3, <2>4 DEF Doings
<1>3. /\ n.as = as /\ n.row = r /\ n.state = "sent"
      /\ ~n.doubtful => ~raced /\ ~stale /\ fetch = C!Idle /\ doing = {}
      /\ as.writes = "typed" => n.before = data
  BY <1>2
<1> HIDE DEF rec
<1>4. \A p \in doing : /\ [p EXCEPT !.doubtful = TRUE] \in Doings
                       /\ [p EXCEPT !.doubtful = TRUE].doubtful = TRUE
                       /\ [p EXCEPT !.doubtful = TRUE].as = p.as
                       /\ [p EXCEPT !.doubtful = TRUE].row = p.row
                       /\ [p EXCEPT !.doubtful = TRUE].state = p.state
                       /\ [p EXCEPT !.doubtful = TRUE].version = p.version
                       /\ [p EXCEPT !.doubtful = TRUE].before = p.before
  <2> SUFFICES ASSUME NEW p \in Doings
               PROVE  LET q == [p EXCEPT !.doubtful = TRUE]
                      IN /\ q \in Doings /\ q.doubtful = TRUE /\ q.as = p.as /\ q.row = p.row
                         /\ q.state = p.state /\ q.version = p.version /\ q.before = p.before
    BY DEF CacheInv, CacheTypes
  <2> QED
    BY DEF Doings
<1>5. doing' \subseteq Doings
  BY <1>1, <1>2, <1>4
<1>6. \A q \in doing' : q # n => \E p \in doing : /\ q.doubtful = TRUE /\ q.as = p.as /\ q.row = p.row
                                                  /\ q.state = p.state /\ q.version = p.version
                                                  /\ q.before = p.before
  BY <1>1, <1>2, <1>4
<1>7. \A p \in doing : \E q \in doing' : q.as = p.as /\ q.row = p.row
  BY <1>1, <1>4
<1>8. n \in doing' /\ (doing = {} => doing' = {n})
  BY <1>1, <1>2
<1>9. /\ data' \in Versions /\ stale' \in BOOLEAN
      /\ C!Race \/ UNCHANGED <<fetch, raced>>
      /\ IF as.writes = "typed"
         THEN data' = [data EXCEPT ![r] = C!Typed] /\ ~stale' /\ (stale => raced')
         ELSE data' = data /\ stale' = stale
  <2>1. C!Typed \in Nat
    BY BoundsAssumption DEF C!Typed
  <2>2. CASE as.writes = "typed"
    BY <2>1, <2>2 DEF C!Act, C!Race, C!NoRace, CacheInv, CacheTypes, Versions
  <2>3. CASE as.writes # "typed"
    BY <2>3 DEF C!Act, C!NoRace, CacheInv, CacheTypes
  <2> QED
    BY <2>2, <2>3
<1>10. fetch' \in Fetches /\ raced' \in BOOLEAN /\ FetchIsCurrent' /\ (raced => raced')
  BY <1>1, <1>9, ReadGoesOn
<1>11. Doings' = Doings
  BY <1>1 DEF Doings
<1>12. CacheTypes'
  <2>1. deeds' \in Nat
    <3>1. deeds \in Nat
      BY DEF CacheInv, CacheTypes
    <3>2. deeds' = deeds + 1
      BY <1>1
    <3> QED
      BY <3>1, <3>2
  <2>2. (\A a \in treatments' : TreatmentRules(a)) /\ mounted' \in BOOLEAN
    BY <1>1 DEF CacheInv, CacheTypes
  <2>3. server' \in Versions /\ own' \in Versions
    BY <1>1 DEF CacheInv, CacheTypes
  <2> QED
    BY <1>5, <1>9, <1>10, <1>11, <2>1, <2>2, <2>3 DEF CacheTypes
<1>13. C!known => C!known'
  <2>1. SUFFICES ASSUME C!known, as.writes = "typed"
                 PROVE  data' # C!Nothing
    BY <1>9 DEF C!known
  <2>2. C!Typed # 0
    BY BoundsAssumption DEF C!Typed
  <2>3. data'[r] = C!Typed
    BY <1>9, <2>1 DEF CacheInv, CacheTypes, Versions
  <2> QED
    BY <2>2, <2>3, ReadStates
<1>14. DataIsCurrent'
  <2> SUFFICES ASSUME C!known', ~stale', ~raced', NEW s \in Rows
               PROVE  Current(data, s)' \/ TypedOver(s)'
    BY DEF DataIsCurrent
  <2>1. ~raced /\ ~stale
    BY <1>9, <1>10
  <2>2. CASE as.writes = "typed"
    <3>1. CASE s = r
      BY <1>3, <1>8, <2>2, <3>1 DEF TypedOver
    <3>2. CASE s # r
      <4>1. data'[s] = data[s]
        BY <1>9, <2>2, <3>2 DEF CacheInv, CacheTypes, Versions
      <4>2. C!known
        BY <1>0, <1>1, <2>2 DEF TreatmentRules
      <4>3. Current(data, s) \/ TypedOver(s)
        BY <2>1, <4>2 DEF CacheInv, DataIsCurrent
      <4> QED
        BY <1>1, <1>7, <4>1, <4>3 DEF Current, TypedOver
    <3> QED
      BY <3>1, <3>2
  <2>3. CASE as.writes # "typed"
    <3>1. Current(data, s) \/ TypedOver(s)
      BY <1>9, <2>1, <2>3 DEF CacheInv, DataIsCurrent, C!known
    <3> QED
      BY <1>1, <1>7, <1>9, <2>3, <3>1 DEF Current, TypedOver
  <2> QED
    BY <2>2, <2>3
<1>15. DoingsAreKnown'
  <2> SUFFICES ASSUME NEW q \in doing'
               PROVE  DoingIsKnown(q)'
    BY DEF DoingsAreKnown
  <2>1. CASE q = n
    <3>1. as.writes # "" /\ ~as.blind => C!known
      BY <1>1
    <3>2. as.writes = "typed" => data # C!Nothing
      BY <1>0, <1>1 DEF TreatmentRules, C!known
    <3>3. ASSUME ~n.doubtful, as.writes = "typed", NEW s \in Rows
          PROVE  Current(data, s)
      BY <1>3, <3>2, <3>3 DEF CacheInv, DataIsCurrent, TypedOver, C!known
    <3>4. ASSUME ~n.doubtful, as.writes = "typed", NEW s \in Rows
          PROVE  Current(n.before, s)'
      <4>1. n.before = data /\ Current(data, s)
        BY <1>3, <3>3, <3>4
      <4> QED
        BY <1>1, <4>1 DEF Current
    <3>5. ~n.doubtful => doing' = {n}
      BY <1>3, <1>8
    <3> QED
      BY <1>3, <1>13, <2>1, <3>1, <3>2, <3>4, <3>5 DEF DoingIsKnown
  <2>2. CASE q # n
    <3>1. PICK p \in doing : /\ q.doubtful = TRUE /\ q.as = p.as /\ q.row = p.row
                             /\ q.state = p.state /\ q.version = p.version /\ q.before = p.before
      BY <1>6, <2>2
    <3>2. DoingIsKnown(p)
      BY DEF CacheInv, DoingsAreKnown
    <3> QED
      BY <1>1, <1>13, <3>1, <3>2 DEF DoingIsKnown
  <2> QED
    BY <2>1, <2>2
<1>16. ServerHasOwn'
  BY <1>1 DEF CacheInv, ServerHasOwn
<1> QED
  BY <1>10, <1>12, <1>14, <1>15, <1>16 DEF CacheInv

(* The server makes a change, or refuses it.                                *)
LEMMA CacheServes ==
    ASSUME CacheInv, NEW p \in doing, C!ServerActs(p)
    PROVE  CacheInv'
<1>1. /\ UNCHANGED <<treatments, mounted, data, stale, fetch, deeds, own, raced>>
      /\ p \in Doings /\ p.state = "sent" /\ server \in Versions /\ own \in Versions
  BY DEF C!ServerActs, CacheInv, CacheTypes
<1>2. PICK n \in Doings : /\ doing' = (doing \ {p}) \union {n}
                          /\ n.as = p.as /\ n.row = p.row /\ n.doubtful = p.doubtful /\ n.before = p.before
                          /\ n.state \in {"done", "failed"}
                          /\ n.state = "done" =>
                               server' = [server EXCEPT ![p.row] = @ + 1] /\ n.version = server[p.row] + 1
                          /\ n.state = "failed" => server' = server
  <2>1. CASE /\ server' = [server EXCEPT ![p.row] = @ + 1]
             /\ doing' = (doing \ {p}) \union {[p EXCEPT !.state = "done", !.version = server'[p.row]]}
    <3>1. server'[p.row] = server[p.row] + 1 /\ server'[p.row] \in Nat
      BY <1>1, <2>1 DEF Doings, Versions
    <3>2. PICK v \in Nat : v = server'[p.row]
      BY <3>1
    <3> DEFINE n == [p EXCEPT !.state = "done", !.version = v]
    <3>3. /\ n \in Doings /\ n.as = p.as /\ n.row = p.row /\ n.doubtful = p.doubtful /\ n.before = p.before
          /\ n.state = "done" /\ n.version = v
      BY <1>1 DEF Doings
    <3>4. doing' = (doing \ {p}) \union {n}
      BY <2>1, <3>2
    <3> QED
      BY <2>1, <3>1, <3>2, <3>3, <3>4
  <2>2. CASE server' = server /\ doing' = (doing \ {p}) \union {[p EXCEPT !.state = "failed"]}
    <3> DEFINE n == [p EXCEPT !.state = "failed"]
    <3>1. /\ n \in Doings /\ n.as = p.as /\ n.row = p.row /\ n.doubtful = p.doubtful /\ n.before = p.before
          /\ n.state = "failed"
      BY <1>1 DEF Doings
    <3> QED
      BY <2>2, <3>1
  <2> QED
    BY <2>1, <2>2 DEF C!ServerActs
<1>3. server' \in Versions /\ (\A r \in Rows : server[r] <= server'[r])
  BY <1>1, <1>2 DEF Versions
<1>4. \A d \in Versions, r \in Rows : Current(d, r) => own'[r] <= d[r] /\ d[r] <= server'[r]
  BY <1>1, <1>3 DEF Current, Versions
<1>5. Doings' = Doings
  BY <1>1 DEF Doings
<1>6. CacheTypes'
  BY <1>1, <1>2, <1>3, <1>5 DEF CacheInv, CacheTypes
<1>7. ServerHasOwn'
  BY <1>1, <1>3 DEF CacheInv, ServerHasOwn, Versions
<1>8. FetchIsCurrent'
  <2>1. fetch.got \in Versions
    BY DEF CacheInv, CacheTypes, Fetches
  <2> QED
    BY <1>1, <1>4, <2>1 DEF CacheInv, FetchIsCurrent, Current
<1>9. DataIsCurrent'
  <2> SUFFICES ASSUME C!known', ~stale', ~raced', NEW s \in Rows
               PROVE  Current(data, s)' \/ TypedOver(s)'
    BY DEF DataIsCurrent
  <2>1. Current(data, s) \/ TypedOver(s)
    BY <1>1 DEF CacheInv, DataIsCurrent, C!known
  <2>2. TypedOver(s) => TypedOver(s)'
    BY <1>2 DEF TypedOver
  <2>3. Current(data, s) => Current(data, s)'
    BY <1>1, <1>4 DEF Current, CacheInv, CacheTypes
  <2> QED
    BY <2>1, <2>2, <2>3
<1>10. DoingsAreKnown'
  <2>0. /\ \A q \in doing : DoingIsKnown(q)
        /\ \A q \in doing : q.row \in Rows /\ q.version \in Nat /\ q.before \in Versions
    BY DEF CacheInv, CacheTypes, DoingsAreKnown, Doings
  <2> SUFFICES ASSUME NEW q \in doing'
               PROVE  DoingIsKnown(q)'
    BY DEF DoingsAreKnown
  <2>1. CASE q = n
    <3>1. DoingIsKnown(p) /\ p.row \in Rows /\ p.before \in Versions
      BY <2>0
    <3>2. n.state = "done" => 1 <= n.version /\ n.version <= server'[n.row] /\ own'[n.row] <= n.version
      BY <1>1, <1>2, <3>1 DEF CacheInv, ServerHasOwn, Versions
    <3>3. ~n.doubtful => doing' = {n}
      BY <1>2, <3>1 DEF DoingIsKnown
    <3>4. ASSUME ~n.doubtful, n.as.writes = "typed", NEW s \in Rows
          PROVE  Current(n.before, s)'
      <4>1. Current(p.before, s)
        BY <1>2, <3>1, <3>4 DEF DoingIsKnown
      <4> QED
        BY <1>2, <1>4, <3>1, <4>1 DEF Current
    <3>5. /\ n.as.writes # "" /\ ~n.as.blind => C!known'
          /\ n.as.writes = "typed" => n.before # C!Nothing
      BY <1>1, <1>2, <3>1 DEF DoingIsKnown, C!known
    <3> QED
      BY <2>1, <3>2, <3>3, <3>4, <3>5 DEF DoingIsKnown
  <2>2. CASE q # n
    <3>1. q \in doing /\ q # p
      BY <1>2, <2>2
    <3>2. DoingIsKnown(q) /\ q.doubtful
      BY <2>0, <3>1 DEF DoingIsKnown
    <3>3. q.state = "done" => 1 <= q.version /\ q.version <= server'[q.row]
      <4>1. q.row \in Rows /\ q.version \in Nat /\ server[q.row] \in Nat /\ server'[q.row] \in Nat
        BY <1>1, <1>3, <2>0, <3>1 DEF Versions
      <4>2. server[q.row] <= server'[q.row]
        BY <1>3, <4>1
      <4>3. q.state = "done" => 1 <= q.version /\ q.version <= server[q.row]
        BY <3>2 DEF DoingIsKnown
      <4> QED
        BY <4>1, <4>2, <4>3
    <3> QED
      BY <1>1, <3>2, <3>3 DEF DoingIsKnown, C!known
  <2> QED
    BY <2>1, <2>2
<1> QED
  BY <1>6, <1>7, <1>8, <1>9, <1>10 DEF CacheInv

(* Of the changes under way, those that remain when one was answered.       *)
LEMMA DoingsRemain ==
    ASSUME CacheInv, NEW p \in doing, doing' = doing \ {p}, UNCHANGED <<treatments, server>>, C!known => C!known'
    PROVE  DoingsAreKnown'
<1> SUFFICES ASSUME NEW q \in doing'
             PROVE  DoingIsKnown(q)'
  BY DEF DoingsAreKnown
<1>1. DoingIsKnown(q) /\ q.doubtful
  BY DEF CacheInv, DoingsAreKnown, DoingIsKnown
<1> QED
  BY <1>1 DEF DoingIsKnown

(* The answer to a change.                                                  *)
LEMMA CacheAnswers ==
    ASSUME CacheInv, NEW p \in doing, C!Answer(p)
    PROVE  CacheInv'
<1>0. /\ p \in Doings /\ p.row \in Rows /\ p.as \in treatments /\ TreatmentRules(p.as) /\ p.version \in Nat
      /\ server \in Versions /\ own \in Versions /\ data \in Versions
      /\ 1 <= p.version /\ p.version <= server[p.row]
  BY DEF C!Answer, CacheInv, CacheTypes, DoingsAreKnown, DoingIsKnown, Doings
<1>1. /\ UNCHANGED <<treatments, mounted, server, deeds>> /\ doing' = doing \ {p}
      /\ own' = IF ~p.as.gap THEN [own EXCEPT ![p.row] = p.version] ELSE own
  BY DEF C!Answer
<1>2. \/ data' = data /\ (p.as.writes = "" \/ (p.as.writes # "list" /\ ~C!known))
      \/ p.as.writes # "" /\ \E v \in p.version..server[p.row] : data' = [data EXCEPT ![p.row] = v]
  <2>1. data' \in C!Written(p) /\ server[p.row] \in Nat
    BY <1>0 DEF C!Answer, Versions
  <2>2. CASE p.as.writes = "" \/ (p.as.writes # "list" /\ ~C!known)
    BY <2>1, <2>2 DEF C!Written
  <2>3. CASE ~(p.as.writes = "" \/ (p.as.writes # "list" /\ ~C!known))
    <3>1. PICK v \in (IF p.as.rereads THEN p.version..server[p.row] ELSE {p.version}) :
              data' = [data EXCEPT ![p.row] = v]
      BY <2>1, <2>3 DEF C!Written
    <3>2. v \in p.version..server[p.row]
      BY <1>0, <2>1, <3>1
    <3> QED
      BY <2>3, <3>1, <3>2
  <2> QED
    BY <2>2, <2>3
<1>3. data' \in Versions /\ (C!known => C!known')
  <2>1. CASE data' = data
    BY <1>0, <2>1 DEF C!known
  <2>2. ASSUME NEW v \in p.version..server[p.row], data' = [data EXCEPT ![p.row] = v]
        PROVE  data' \in Versions /\ C!known'
    <3>1. v \in Nat /\ v # 0
      BY <1>0 DEF Versions
    <3>2. data' \in Versions /\ data'[p.row] = v
      BY <1>0, <2>2, <3>1 DEF Versions
    <3> QED
      BY <1>0, <3>1, <3>2, ReadStates DEF C!known
  <2> QED
    BY <1>2, <2>1, <2>2
<1>4. \A r \in Rows : own'[r] \in {own[r], p.version} /\ (r # p.row => own'[r] = own[r])
  BY <1>0, <1>1 DEF Versions
<1>5. own' \in Versions
  BY <1>0, <1>1 DEF Versions
<1>6. ServerHasOwn'
  <2> SUFFICES ASSUME NEW r \in Rows
               PROVE  1 <= server[r] /\ own'[r] <= server[r]
    BY <1>1 DEF ServerHasOwn
  <2>1. 1 <= server[r] /\ own[r] <= server[r]
    BY DEF CacheInv, ServerHasOwn
  <2>2. r = p.row => p.version <= server[r]
    BY <1>0
  <2> QED
    BY <1>4, <2>1, <2>2
<1>7. CASE p.as.refreshes /\ C!ReadsAtOnce(C!known')
  <2>1. C!StartFetch /\ stale' = C!known'
    BY <1>7 DEF C!Answer
  <2>2. fetch' = C!Sent /\ raced' = raced
    BY <2>1 DEF C!StartFetch
  <2>3. FetchIsCurrent'
    BY <2>2, ReadStates DEF FetchIsCurrent
  <2>4. DataIsCurrent'
    BY <2>1 DEF DataIsCurrent
  <2>5. stale' \in BOOLEAN /\ fetch' \in Fetches /\ raced' \in BOOLEAN
    BY <2>1, <2>2, ReadStates DEF C!known, CacheInv, CacheTypes
  <2>6. doing' \subseteq Doings'
    BY <1>1 DEF Doings, CacheInv, CacheTypes
  <2>7. CacheTypes'
    BY <1>0, <1>1, <1>3, <1>5, <2>5, <2>6 DEF CacheInv, CacheTypes
  <2> QED
    BY <1>1, <1>3, <1>6, <2>3, <2>4, <2>7, DoingsRemain DEF CacheInv
<1>8. CASE ~(p.as.refreshes /\ C!ReadsAtOnce(C!known'))
  <2>1. /\ stale' = (C!known' /\ (p.as.refreshes \/ (stale /\ p.as.writes = "")))
        /\ IF C!Races(p) THEN C!Race ELSE C!NoRace
    BY <1>8 DEF C!Answer
  <2>2. ASSUME C!Races(p)
        PROVE  FetchIsCurrent' /\ DataIsCurrent' /\ fetch' \in Fetches /\ raced' \in BOOLEAN
    <3>1. fetch' = [fetch EXCEPT !.clean = FALSE] /\ raced' = TRUE
      BY <2>1, <2>2 DEF C!Race
    <3>2. fetch' \in Fetches /\ fetch'.state = fetch.state /\ fetch'.got = fetch.got /\ ~fetch'.clean
      BY <3>1 DEF CacheInv, CacheTypes, Fetches
    <3>3. fetch = C!Idle => fetch' = C!Idle
      BY <3>1, ReadStates DEF Fetches
    <3>4. FetchIsCurrent'
      BY <3>1, <3>2, <3>3 DEF CacheInv, FetchIsCurrent
    <3> QED
      BY <3>1, <3>2, <3>4 DEF DataIsCurrent
  <2>3. ASSUME ~C!Races(p)
        PROVE  FetchIsCurrent' /\ DataIsCurrent' /\ fetch' \in Fetches /\ raced' \in BOOLEAN
    <3>1. UNCHANGED <<fetch, raced>>
      BY <2>1, <2>3 DEF C!NoRace
    <3>2. ~p.as.gap => fetch = C!Idle
      BY <1>3, <1>8, <2>3 DEF C!Races, C!ReadsAtOnce
    <3>3. FetchIsCurrent'
      <4>1. CASE p.as.gap
        BY <1>1, <3>1, <4>1 DEF CacheInv, FetchIsCurrent, Current
      <4>2. CASE fetch = C!Idle
        BY <3>1, <4>2, ReadStates DEF FetchIsCurrent
      <4> QED
        BY <3>2, <4>1, <4>2
    <3>4. DataIsCurrent'
      <4> SUFFICES ASSUME C!known', ~stale', ~raced', NEW r \in Rows
                   PROVE  Current(data, r)' \/ TypedOver(r)'
        BY DEF DataIsCurrent
      <4>1. ~p.as.refreshes /\ ~raced /\ (p.as.writes = "" => ~stale)
        BY <2>1, <3>1
      <4>2. CASE p.as.writes = ""
        <5>1. own' = own /\ data' = data
          BY <1>0, <1>1, <1>2, <4>1, <4>2 DEF TreatmentRules
        <5>2. Current(data, r) \/ TypedOver(r)
          BY <4>1, <4>2, <5>1 DEF CacheInv, DataIsCurrent, C!known
        <5>3. TypedOver(r) => TypedOver(r)'
          BY <1>1, <4>2 DEF TypedOver
        <5> QED
          BY <1>1, <5>1, <5>2, <5>3 DEF Current
      <4>3. CASE p.as.writes # ""
        <5>1. ~stale /\ ~p.doubtful
          BY <2>3, <4>3 DEF C!Races
        <5>2. doing = {p} /\ own[p.row] <= p.version /\ C!known
          BY <1>0, <4>1, <4>3, <5>1
            DEF C!Answer, TreatmentRules, CacheInv, DoingsAreKnown, DoingIsKnown
        <5>3. PICK v \in p.version..server[p.row] : data' = [data EXCEPT ![p.row] = v]
          BY <1>2, <4>3, <5>2
        <5>4. CASE r = p.row
          <6>1. data'[r] = v
            BY <1>0, <5>3, <5>4 DEF Versions
          <6>2. /\ v \in Nat /\ own[r] \in Nat /\ server[r] \in Nat /\ p.version <= v /\ v <= server[r]
                /\ own'[r] \in {own[r], p.version} /\ own[r] <= p.version
            BY <1>0, <1>4, <5>2, <5>3, <5>4 DEF Versions
          <6>3. own'[r] <= v
            BY <1>0, <6>2
          <6> QED
            BY <1>1, <6>1, <6>2, <6>3 DEF Current
        <5>5. CASE r # p.row
          <6>1. data'[r] = data[r] /\ own'[r] = own[r]
            BY <1>0, <1>4, <5>3, <5>5 DEF Versions
          <6>2. Current(data, r)
            BY <4>1, <5>1, <5>2, <5>5 DEF CacheInv, DataIsCurrent, TypedOver
          <6> QED
            BY <1>1, <6>1, <6>2 DEF Current
        <5> QED
          BY <5>4, <5>5
      <4> QED
        BY <4>2, <4>3
    <3>5. fetch' \in Fetches /\ raced' \in BOOLEAN
      BY <3>1 DEF CacheInv, CacheTypes
    <3> QED
      BY <3>3, <3>4, <3>5
  <2>4. FetchIsCurrent' /\ DataIsCurrent' /\ fetch' \in Fetches /\ raced' \in BOOLEAN
    BY <2>2, <2>3
  <2>5. stale' \in BOOLEAN
    BY <2>1
  <2>6. doing' \subseteq Doings'
    BY <1>1 DEF Doings, CacheInv, CacheTypes
  <2>7. CacheTypes'
    BY <1>0, <1>1, <1>3, <1>5, <2>4, <2>5, <2>6 DEF CacheInv, CacheTypes
  <2> QED
    BY <1>1, <1>3, <1>6, <2>4, <2>7, DoingsRemain DEF CacheInv
<1> QED
  BY <1>7, <1>8

(* A change was refused.                                                    *)
LEMMA CacheRefuses ==
    ASSUME CacheInv, NEW p \in doing, C!AnswerFailed(p)
    PROVE  CacheInv'
<1>0. /\ p \in Doings /\ p.before \in Versions /\ p.as \in treatments /\ DoingIsKnown(p)
  BY DEF CacheInv, CacheTypes, DoingsAreKnown, Doings
<1>1. /\ UNCHANGED <<treatments, mounted, server, deeds, own>> /\ doing' = doing \ {p}
      /\ C!Race \/ UNCHANGED <<fetch, raced>>
  BY DEF C!AnswerFailed, C!NoRace
<1>2. data' \in Versions /\ stale' \in BOOLEAN
  BY <1>0 DEF C!AnswerFailed, CacheInv, CacheTypes
<1>3. C!known => C!known'
  BY <1>0 DEF C!AnswerFailed, C!known, DoingIsKnown
<1>4. fetch' \in Fetches /\ raced' \in BOOLEAN /\ FetchIsCurrent' /\ (raced => raced')
  BY <1>1, ReadGoesOn
<1>5. DataIsCurrent'
  <2> SUFFICES ASSUME C!known', ~stale', ~raced', NEW r \in Rows
               PROVE  Current(data, r)' \/ TypedOver(r)'
    BY DEF DataIsCurrent
  <2>1. CASE p.as.writes = "typed"
    <3>1. data' = p.before /\ ~p.doubtful
      BY <2>1 DEF C!AnswerFailed, C!Race, C!Races
    <3>2. Current(p.before, r)
      BY <1>0, <2>1, <3>1 DEF DoingIsKnown
    <3> QED
      BY <1>1, <3>1, <3>2 DEF Current
  <2>2. CASE p.as.writes # "typed"
    <3>1. data' = data /\ stale' = stale
      BY <2>2 DEF C!AnswerFailed
    <3>2. Current(data, r) \/ TypedOver(r)
      BY <1>4, <3>1 DEF CacheInv, DataIsCurrent, C!known
    <3>3. TypedOver(r) => TypedOver(r)'
      BY <1>1, <2>2 DEF TypedOver
    <3> QED
      BY <1>1, <3>1, <3>2, <3>3 DEF Current
  <2> QED
    BY <2>1, <2>2
<1>6. doing' \subseteq Doings'
  BY <1>1 DEF Doings, CacheInv, CacheTypes
<1>7. CacheTypes'
  BY <1>1, <1>2, <1>4, <1>6 DEF CacheInv, CacheTypes
<1>8. ServerHasOwn'
  BY <1>1 DEF CacheInv, ServerHasOwn
<1> QED
  BY <1>1, <1>3, <1>4, <1>5, <1>7, <1>8, DoingsRemain DEF CacheInv

LEMMA CacheKept ==
    ASSUME CacheInv, MCNext \/ UNCHANGED cached
    PROVE  CacheInv'
<1>1. CASE UNCHANGED cached
  BY <1>1 DEF cached, CacheInv, CacheTypes, Doings, ServerHasOwn, FetchIsCurrent, DataIsCurrent, TypedOver,
              DoingsAreKnown, DoingIsKnown, Current, C!known
<1>2. CASE C!Next
  BY <1>2, CacheShows, CacheReads, CacheActs, CacheServes, CacheAnswers, CacheRefuses DEF C!Next
<1> QED
  BY <1>1, <1>2 DEF MCNext

-----------------------------------------------------------------------------
(* ShownIsCurrent: a reader shows the record that is selected, in a version *)
(* that has this user's last change to it; edits of settings that were not  *)
(* saved are marked; a list kept by hand ends as the server's list; and an  *)
(* entry of the query cache that is not to be read again holds each record  *)
(* with this user's last change, whichever of the changes touched it: each  *)
(* when nothing is under way and no answer crossed another in one of the    *)
(* ways the areas name.                                                     *)
THEOREM ScreenFollowsTheServer == MCSpec => []ShownIsCurrent
<1> DEFINE Inv == ReaderInv /\ SettingInv /\ ListInv /\ CacheInv
<1>1. MCInit => Inv
  BY ReaderStart, SettingStart, ListStart, CacheStart DEF MCInit
<1>2. Inv /\ [MCNext]_<<area, rvars, settings, dialogs, routes, imported, cached, listed, tabled, reported>>
        => Inv'
  <2> SUFFICES ASSUME Inv,
                      [MCNext]_<<area, rvars, settings, dialogs, routes, imported, cached, listed, tabled,
                                 reported>>
               PROVE  Inv'
    OBVIOUS
  <2>1. /\ MCNext \/ UNCHANGED rvars
        /\ MCNext \/ UNCHANGED settings
        /\ MCNext \/ UNCHANGED listed
        /\ MCNext \/ UNCHANGED cached
    OBVIOUS
  <2> QED
    BY <2>1, ReaderKept, SettingKept, ListKept, CacheKept
<1>3. Inv => ShownIsCurrent
  <2> SUFFICES ASSUME Inv
               PROVE  ShownIsCurrent
    OBVIOUS
  <2>1. ShowsTheSelected /\ OwnChangesAreShown
    BY DEF ReaderInv, LastReadIsShown, OwnChangesAreShown
  <2>2. C!OwnChangesAreCached
    <3> SUFFICES ASSUME C!known, ~stale, fetch = C!Idle, doing = {}, ~raced, NEW r \in Rows
                 PROVE  data[r] \in own[r]..server[r]
      BY DEF C!OwnChangesAreCached
    <3>1. Current(data, r)
      BY DEF CacheInv, DataIsCurrent, TypedOver
    <3>2. data[r] \in Nat /\ own[r] \in Nat /\ server[r] \in Nat
      BY DEF CacheInv, CacheTypes, Versions
    <3> QED
      BY <3>1, <3>2 DEF Current
  <2>3. L!ListsFollowTheServer
    BY DEF ListInv, Followed, SeenOrUnderWay, L!ListsFollowTheServer
  <2>4. S!UnsavedEditsAreMarked /\ S!FallBackWasStored
    BY DEF SettingInv
  <2> QED
    BY <2>1, <2>2, <2>3, <2>4, Zenon DEF ShownIsCurrent
<1> QED
  BY <1>1, <1>2, <1>3, PTL DEF MCSpec
=============================================================================
