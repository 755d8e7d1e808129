--------------------------- MODULE RenewalLifecycle ---------------------------
(***************************************************************************)
(* Renewal chains: licenses, the links between them, and the sourcing      *)
(* lines that renew them.                                                  *)
(*                                                                         *)
(* Starting a renewal, linking an existing successor, importing a row and  *)
(* converting an order test what they rely on in the statement that takes  *)
(* the write lock, after it, or in one transaction, so each is one step.   *)
(* Every other request checks what it has read and writes later; those in  *)
(* Split may be overtaken in between.  A bundle is several renewals        *)
(* started in one transaction.  Dates are inputs: whether a term has ended *)
(* is free wherever the code asks.                                         *)
(***************************************************************************)
EXTENDS Naturals, FiniteSets

CONSTANTS
    Licenses,  \* identities of licenses
    Items,     \* identities of sourcing lines
    Users,     \* requests that may be between their read and their write
    None,      \* the null license
    Split,     \* operations whose read and write are apart
    MaxFlagged \* bound: licenses that are retired or not renewable at a time

Edits == {"mark_legacy", "unmark_legacy", "retire", "schedule", "unretire",
          "flip_renewable"}
Operations == Edits \cup {"unlink", "cancel", "delete", "sweep",
                          "close_line", "close_order", "return", "merge"}

ASSUME SplitAssumption == Split \subseteq Operations
ASSUME NoneAssumption == None \notin Licenses
ASSUME BoundAssumption == MaxFlagged \in Nat

Lifecycles == {"absent", "none", "legacy", "pending_renewal", "renewed"}
Retirements == {"no", "scheduled", "yes"}
ItemStatuses == {"absent", "sourcing", "ordered", "licensed"}

VARIABLES
    lifecycle,    \* [Licenses -> Lifecycles], "none" is the null status
    renewedTo,    \* [Licenses -> Licenses \cup {None}]
    predecessors, \* [Licenses -> SUBSET Licenses]: renewed_from_id,
                  \* predecessor_id and coterm_from_ids together
    ref,          \* [Licenses -> Licenses \cup {None}], license_ref, named
                  \* by the license it was generated for
    formerRef,    \* [Licenses -> Licenses \cup {None}], the reference an
                  \* adopted successor had; not None while the link is adopted
    retirement,   \* [Licenses -> Retirements]
    renewable,    \* [Licenses -> BOOLEAN], is_renewable_license
    itemStatus,   \* [Items -> ItemStatuses]; a cancelled line, which nothing
                  \* here reads again, counts as absent
    renews,       \* [Items -> Licenses \cup {None}], renewal_for_license_id
    coterm,       \* [Items -> SUBSET Licenses], coterm_predecessor_ids
    req           \* [Users -> requests], what a request will write

chain == <<lifecycle, renewedTo, predecessors, ref, formerRef>>
flags == <<retirement, renewable>>
lines == <<itemStatus, renews, coterm>>
vars == <<chain, flags, lines, req>>

Present == {l \in Licenses : lifecycle[l] # "absent"}
Covers(i) == coterm[i] \cup ({renews[i]} \ {None})
OpenItems == {i \in Items : itemStatus[i] \in {"sourcing", "ordered"}}

Idle == [op |-> "idle"]
Request(op, l, other, name, items) ==
    [op |-> op, license |-> l, other |-> other, ref |-> name, items |-> items]
Requests ==
    [op : Operations, license : Licenses \cup {None},
     other : Licenses \cup {None}, ref : Licenses \cup {None},
     items : SUBSET Items]

TypeOK ==
    /\ lifecycle \in [Licenses -> Lifecycles]
    /\ renewedTo \in [Licenses -> Licenses \cup {None}]
    /\ predecessors \in [Licenses -> SUBSET Licenses]
    /\ ref \in [Licenses -> Licenses \cup {None}]
    /\ formerRef \in [Licenses -> Licenses \cup {None}]
    /\ retirement \in [Licenses -> Retirements]
    /\ renewable \in [Licenses -> BOOLEAN]
    /\ itemStatus \in [Items -> ItemStatuses]
    /\ renews \in [Items -> Licenses \cup {None}]
    /\ coterm \in [Items -> SUBSET Licenses]
    /\ req \in [Users -> Requests \cup {Idle}]

Init ==
    /\ lifecycle = [l \in Licenses |-> "absent"]
    /\ renewedTo = [l \in Licenses |-> None]
    /\ predecessors = [l \in Licenses |-> {}]
    /\ ref = [l \in Licenses |-> None]
    /\ formerRef = [l \in Licenses |-> None]
    /\ retirement = [l \in Licenses |-> "no"]
    /\ renewable = [l \in Licenses |-> TRUE]
    /\ itemStatus = [i \in Items |-> "absent"]
    /\ renews = [i \in Items |-> None]
    /\ coterm = [i \in Items |-> {}]
    /\ req = [u \in Users |-> Idle]

-----------------------------------------------------------------------------
(* Operations that are one step. *)

(* A license row is inserted: by the form, a purchase, or an import, which *)
(* may mark it legacy.                                                     *)
Insert(l, status, name, from) ==
    /\ lifecycle[l] = "absent"
    /\ lifecycle' = [x \in Licenses |-> IF x = l THEN status
                                        ELSE IF x \in from THEN "renewed"
                                        ELSE lifecycle[x]]
    /\ renewedTo' = [x \in Licenses |-> IF x \in from THEN l ELSE renewedTo[x]]
    /\ predecessors' = [predecessors EXCEPT ![l] = from]
    /\ ref' = [ref EXCEPT ![l] = name]
    /\ UNCHANGED formerRef

CreateLicense(l, status) ==
    /\ Insert(l, status, l, {})
    /\ UNCHANGED <<flags, lines, req>>

(* A sourcing line that renews a license, whatever the license's state.    *)
AddLine(i, l) ==
    /\ itemStatus[i] = "absent"
    /\ l \in Present
    /\ itemStatus' = [itemStatus EXCEPT ![i] = "sourcing"]
    /\ renews' = [renews EXCEPT ![i] = l]
    /\ UNCHANGED <<chain, flags, coterm, req>>

Renewable(l) == renewable[l] /\ retirement[l] = "no"

(* The conditional UPDATE finds a license that is in no renewal.           *)
InitiateRenewal(l, i) ==
    /\ itemStatus[i] = "absent"
    /\ lifecycle[l] = "none" /\ renewedTo[l] = None /\ Renewable(l)
    /\ lifecycle' = [lifecycle EXCEPT ![l] = "pending_renewal"]
    /\ itemStatus' = [itemStatus EXCEPT ![i] = "sourcing"]
    /\ renews' = [renews EXCEPT ![i] = l]
    /\ UNCHANGED <<renewedTo, predecessors, ref, formerRef, flags, coterm, req>>

(* The line is attached to an open order.                                  *)
OrderLine(i) ==
    /\ itemStatus[i] = "sourcing"
    /\ itemStatus' = [itemStatus EXCEPT ![i] = "ordered"]
    /\ UNCHANGED <<chain, flags, renews, coterm, req>>

(* A conversion that forgets the predecessors of a coterm line but one.    *)
BadConvertLine(i, s) ==
    /\ itemStatus[i] = "ordered"
    /\ Covers(i) \subseteq Present
    /\ renewedTo[renews[i]] = None
    /\ Insert(s, "none", ref[renews[i]], Covers(i))
    /\ itemStatus' = [itemStatus EXCEPT ![i] = "licensed"]
    /\ UNCHANGED <<flags, renews, coterm, req>>

(* The order is converted: the new license succeeds all the line covers.   *)
ConvertLine(i, s) ==
    /\ itemStatus[i] = "ordered"
    /\ Covers(i) \subseteq Present
    /\ \A l \in Covers(i) : renewedTo[l] = None
    /\ Insert(s, "none", ref[renews[i]], Covers(i))
    /\ itemStatus' = [itemStatus EXCEPT ![i] = "licensed"]
    /\ UNCHANGED <<flags, renews, coterm, req>>

(* A reservation that leaves the successor's side to chance.               *)
BadLinkSuccessor(l, s) ==
    /\ l # s
    /\ lifecycle[l] = "none" /\ renewedTo[l] = None /\ Renewable(l)
    /\ s \in Present /\ predecessors[s] = {} /\ Renewable(s)
    /\ lifecycle' = [lifecycle EXCEPT ![l] = "renewed"]
    /\ renewedTo' = [renewedTo EXCEPT ![l] = s]
    /\ predecessors' = [predecessors EXCEPT ![s] = {l}]
    /\ formerRef' = [formerRef EXCEPT ![l] = ref[s]]
    /\ ref' = [ref EXCEPT ![s] = ref[l]]
    /\ UNCHANGED <<flags, lines, req>>

(* Both ends are reserved by conditional UPDATEs; the successor takes the  *)
(* chain's reference and its own is kept for an unlink.                    *)
LinkSuccessor(l, s) ==
    /\ l # s
    /\ \A x \in {l, s} :
          lifecycle[x] = "none" /\ renewedTo[x] = None /\ Renewable(x)
    /\ predecessors[s] = {}
    /\ lifecycle' = [lifecycle EXCEPT ![l] = "renewed"]
    /\ renewedTo' = [renewedTo EXCEPT ![l] = s]
    /\ predecessors' = [predecessors EXCEPT ![s] = {l}]
    /\ formerRef' = [formerRef EXCEPT ![l] = ref[s]]
    /\ ref' = [ref EXCEPT ![s] = ref[l]]
    /\ UNCHANGED <<flags, lines, req>>

(* A reference names the licenses that bear it, and the adopted successor  *)
(* that gave it up.                                                        *)
Named(name) ==
    {l \in Present :
        \/ ref[l] = name
        \/ \E p \in Licenses : renewedTo[p] = l /\ formerRef[p] = name}

(* An imported row follows the one license its reference names, with a     *)
(* reference of its own.  The row's SAVEPOINT opens a transaction before   *)
(* its first read.                                                         *)
ImportSuccessor(l, s, status) ==
    /\ l \in Present
    /\ \E name \in Licenses : Named(name) = {l}
    /\ renewedTo[l] = None
    /\ Insert(s, status, s, {l})
    /\ UNCHANGED <<flags, lines, req>>

-----------------------------------------------------------------------------
(* What the other operations write, whatever has changed since they read.  *)
(* A write that meets a missing row is rolled back.                        *)

(* An unlink that leaves the successor the chain's reference.              *)
BadUnlink(r) ==
    /\ r.op = "unlink"
    /\ {r.license, r.other} \subseteq Present
    /\ lifecycle' = [lifecycle EXCEPT ![r.license] = "none"]
    /\ renewedTo' = [renewedTo EXCEPT ![r.license] = None]
    /\ formerRef' = [formerRef EXCEPT ![r.license] = None]
    /\ predecessors' = [predecessors EXCEPT ![r.other] = {}]
    /\ UNCHANGED <<ref, flags, lines>>

(* Both ends of the link are cleared, the successor gets its own reference *)
(* back.                                                                   *)
Unlink(r) ==
    /\ r.op = "unlink"
    /\ {r.license, r.other} \subseteq Present
    /\ lifecycle' = [lifecycle EXCEPT ![r.license] = "none"]
    /\ renewedTo' = [renewedTo EXCEPT ![r.license] = None]
    /\ formerRef' = [formerRef EXCEPT ![r.license] = None]
    /\ predecessors' = [predecessors EXCEPT ![r.other] = {}]
    /\ ref' = [ref EXCEPT ![r.other] = r.ref]
    /\ UNCHANGED <<flags, lines>>

Withdraw(gone) ==
    /\ itemStatus' = [i \in Items |-> IF i \in gone THEN "absent"
                                                   ELSE itemStatus[i]]
    /\ renews' = [i \in Items |-> IF i \in gone THEN None ELSE renews[i]]
    /\ coterm' = [i \in Items |-> IF i \in gone THEN {} ELSE coterm[i]]

(* A line that was ordered after it was read is marked cancelled, but its  *)
(* order may still be converted.                                           *)
StillOrdered(items) == SUBSET {i \in items : itemStatus[i] = "ordered"}

(* The renewal's own lines are cancelled, and the license leaves the       *)
(* renewal even when a line is on order.                                   *)
CancelRenewal(r) ==
    /\ r.op = "cancel"
    /\ r.license \in Present
    /\ \E kept \in StillOrdered(r.items) : Withdraw(r.items \ kept)
    /\ lifecycle' = [lifecycle EXCEPT ![r.license] = "none"]
    /\ UNCHANGED <<renewedTo, predecessors, ref, formerRef, flags>>

(* A line that goes without a look at the licenses it was to renew.        *)
BadCloseLine(r) ==
    /\ r.op \in {"close_line", "close_order"}
    /\ \A i \in r.items : itemStatus[i] # "absent"
    /\ \E kept \in IF r.op = "close_line" THEN StillOrdered(r.items) ELSE {{}} :
           Withdraw(r.items \ kept)
    /\ UNCHANGED <<chain, flags>>

(* A sourcing line, or a line with its order, is deleted or cancelled.  A  *)
(* license no other line covers leaves its pending renewal.                *)
CloseLine(r) ==
    LET covered == UNION {Covers(i) : i \in r.items}
        worked == UNION {Covers(i) : i \in {j \in Items \ r.items :
                                             itemStatus[j] # "absent"}}
    IN /\ r.op \in {"close_line", "close_order"}
       /\ \A i \in r.items : itemStatus[i] # "absent"
       /\ \E kept \in IF r.op = "close_line" THEN StillOrdered(r.items)
                                             ELSE {{}} :
              Withdraw(r.items \ kept)
       /\ lifecycle' = [l \in Licenses |->
                           IF /\ l \in covered \ worked
                              /\ lifecycle[l] = "pending_renewal"
                           THEN "none" ELSE lifecycle[l]]
       /\ UNCHANGED <<renewedTo, predecessors, ref, formerRef, flags>>

(* A deleted order that leaves its lines a status they do not have.        *)
BadReturnLine(r) ==
    /\ r.op = "return"
    /\ \A i \in r.items : itemStatus[i] # "absent"
    /\ itemStatus' = [i \in Items |-> IF i \in r.items THEN "pending"
                                                      ELSE itemStatus[i]]
    /\ UNCHANGED <<chain, flags, renews, coterm>>

(* A deleted order gives its lines back to sourcing.                       *)
ReturnLine(r) ==
    /\ r.op = "return"
    /\ \A i \in r.items : itemStatus[i] # "absent"
    /\ itemStatus' = [i \in Items |-> IF i \in r.items THEN "sourcing"
                                                      ELSE itemStatus[i]]
    /\ UNCHANGED <<chain, flags, renews, coterm>>

(* One line replaces the merged ones and covers all their licenses.        *)
MergeLines(r) ==
    /\ r.op = "merge"
    /\ r.items \subseteq OpenItems
    /\ \E merged \in r.items :
          /\ itemStatus' = [i \in Items |-> IF i = merged THEN "sourcing"
                                ELSE IF i \in r.items THEN "absent"
                                ELSE itemStatus[i]]
          /\ renews' = [i \in Items |-> IF i = merged THEN r.license
                            ELSE IF i \in r.items THEN None ELSE renews[i]]
          /\ coterm' = [i \in Items |->
                            IF i = merged THEN UNION {Covers(j) : j \in r.items}
                            ELSE IF i \in r.items THEN {} ELSE coterm[i]]
    /\ UNCHANGED <<chain, flags>>

(* The row goes; links to it are cleared, references of a line refuse it.  *)
DeleteLicense(r) ==
    LET l == r.license IN
    /\ r.op = "delete"
    /\ l \in Present
    /\ \A i \in Items : renews[i] # l
    /\ lifecycle' = [lifecycle EXCEPT ![l] = "absent"]
    /\ renewedTo' = [x \in Licenses |->
                        IF x = l \/ renewedTo[x] = l THEN None ELSE renewedTo[x]]
    /\ predecessors' = [x \in Licenses |->
                           IF x = l THEN {} ELSE predecessors[x] \ {l}]
    /\ ref' = [ref EXCEPT ![l] = None]
    /\ formerRef' = [formerRef EXCEPT ![l] = None]
    /\ retirement' = [retirement EXCEPT ![l] = "no"]
    /\ renewable' = [renewable EXCEPT ![l] = TRUE]
    /\ UNCHANGED lines

(* The edit form, and the nightly sweep.                                   *)
SetLegacy(r) ==
    /\ r.op \in {"mark_legacy", "unmark_legacy"}
    /\ r.license \in Present
    /\ lifecycle' = [lifecycle EXCEPT ![r.license] =
                        IF r.op = "mark_legacy" THEN "legacy" ELSE "none"]
    /\ UNCHANGED <<renewedTo, predecessors, ref, formerRef, flags, lines>>

SetRetirement(r) ==
    /\ r.op \in {"retire", "schedule", "unretire", "sweep"}
    /\ r.license \in Present
    /\ retirement' = [retirement EXCEPT ![r.license] =
                         CASE r.op = "schedule" -> "scheduled"
                           [] r.op = "unretire" -> "no"
                           [] OTHER -> "yes"]
    /\ UNCHANGED <<chain, renewable, lines>>

FlipRenewable(r) ==
    /\ r.op = "flip_renewable"
    /\ r.license \in Present
    /\ renewable' = [renewable EXCEPT ![r.license] = ~@]
    /\ UNCHANGED <<chain, retirement, lines>>

Perform(r) ==
    \/ Unlink(r) \/ CancelRenewal(r) \/ CloseLine(r)
    \/ ReturnLine(r) \/ MergeLines(r) \/ DeleteLicense(r)
    \/ SetLegacy(r) \/ SetRetirement(r) \/ FlipRenewable(r)

-----------------------------------------------------------------------------
(* What they check when they read. *)

(* The request writes at once, or keeps what it read.                      *)
Handle(op, l, other, name, items) ==
    LET r == Request(op, l, other, name, items) IN
    \/ Perform(r) /\ UNCHANGED req
    \/ \E u \in Users :
          /\ op \in Split
          /\ req[u] = Idle
          /\ req' = [req EXCEPT ![u] = r]
          /\ UNCHANGED <<chain, flags, lines>>

(* An unlink that does not ask for a later renewal.                        *)
BadReadUnlink(l) ==
    /\ formerRef[l] # None /\ renewedTo[l] # None
    /\ Handle("unlink", l, renewedTo[l], formerRef[l], {})

(* Only an adopted link, and only while its successor has none.            *)
ReadUnlink(l) ==
    /\ formerRef[l] # None /\ renewedTo[l] # None
    /\ renewedTo[renewedTo[l]] = None
    /\ Handle("unlink", l, renewedTo[l], formerRef[l], {})

(* A pending renewal, unless a line covers other licenses as well.         *)
ReadCancel(l) ==
    LET own == {i \in Items : itemStatus[i] = "sourcing" /\ l \in Covers(i)} IN
    /\ lifecycle[l] = "pending_renewal"
    /\ \A i \in own : Covers(i) = {l}
    /\ Handle("cancel", l, None, None, own)

ReadCloseLine(i) ==
    /\ itemStatus[i] = "sourcing"
    /\ Handle("close_line", None, None, None, {i})

Ordered == {i \in Items : itemStatus[i] = "ordered"}

ReadCloseOrder(items) ==
    /\ items # {} /\ items \subseteq Ordered
    /\ Handle("close_order", None, None, None, items)

ReadReturn(items) ==
    /\ items # {} /\ items \subseteq Ordered
    /\ Handle("return", None, None, None, items)

(* Renewal lines of licenses that may still be renewed; the primary        *)
(* license is one a line was opened for.                                   *)
ReadMerge(items) ==
    /\ \E i, j \in items : i # j
    /\ \A i \in items :
          /\ itemStatus[i] = "sourcing"
          /\ \A l \in Covers(i) :
                /\ lifecycle[l] \in {"none", "pending_renewal"}
                /\ retirement[l] = "no"
    /\ \E i \in items : Handle("merge", renews[i], None, None, items)

(* A license outside every renewal and every open line.                    *)
ReadDelete(l) ==
    /\ lifecycle[l] \in {"none", "legacy"}
    /\ predecessors[l] = {} /\ renewedTo[l] = None
    /\ \A i \in Items : l \notin Covers(i)
    /\ Handle("delete", l, None, None, {})

(* A legacy flag that any license takes.                                   *)
BadReadLegacy(l) ==
    /\ l \in Present
    /\ Handle("mark_legacy", l, None, None, {})

(* The form toggles legacy outside a renewal only.                         *)
ReadLegacy(l) ==
    \/ lifecycle[l] = "none" /\ Handle("mark_legacy", l, None, None, {})
    \/ lifecycle[l] = "legacy" /\ Handle("unmark_legacy", l, None, None, {})

MayFlag(l) ==
    LET flagged == {x \in Licenses : retirement[x] # "no" \/ ~renewable[x]}
    IN Cardinality(flagged \cup {l}) <= MaxFlagged

(* Retirement is now or at the end of the term, never during a renewal.    *)
ReadRetire(l) ==
    /\ l \in Present /\ MayFlag(l)
    /\ \/ /\ retirement[l] # "yes" => lifecycle[l] # "pending_renewal"
          /\ \E op \in {"retire", "schedule"} : Handle(op, l, None, None, {})
       \/ Handle("unretire", l, None, None, {})

ReadRenewable(l) ==
    /\ l \in Present /\ MayFlag(l)
    /\ Handle("flip_renewable", l, None, None, {})

(* The sweep takes scheduled licenses, and one-off purchases, whose term   *)
(* has ended.                                                              *)
ReadSweep(l) ==
    /\ l \in Present
    /\ \/ retirement[l] = "scheduled"
       \/ retirement[l] = "no" /\ ~renewable[l] /\ lifecycle[l] # "legacy"
    /\ Handle("sweep", l, None, None, {})

Write(u) ==
    /\ req[u] # Idle
    /\ Perform(req[u])
    /\ req' = [req EXCEPT ![u] = Idle]

(* A row that is gone, a constraint, a lost connection: rolled back.       *)
Abort(u) ==
    /\ req[u] # Idle
    /\ req' = [req EXCEPT ![u] = Idle]
    /\ UNCHANGED <<chain, flags, lines>>

-----------------------------------------------------------------------------
OneStep ==
    \/ \E l \in Licenses, status \in {"none", "legacy"} : CreateLicense(l, status)
    \/ \E i \in Items, l \in Licenses :
          \/ AddLine(i, l) \/ InitiateRenewal(l, i) \/ ConvertLine(i, l)
    \/ \E i \in Items : OrderLine(i)
    \/ \E l, s \in Licenses :
          \/ LinkSuccessor(l, s)
          \/ \E status \in {"none", "legacy"} : ImportSuccessor(l, s, status)

Read ==
    \/ \E l \in Licenses :
          \/ ReadUnlink(l) \/ ReadCancel(l) \/ ReadDelete(l) \/ ReadLegacy(l)
          \/ ReadRetire(l) \/ ReadRenewable(l) \/ ReadSweep(l)
    \/ \E i \in Items : ReadCloseLine(i)
    \/ \E items \in SUBSET Items :
          \/ ReadCloseOrder(items) \/ ReadReturn(items) \/ ReadMerge(items)

Next == OneStep \/ Read \/ \E u \in Users : Write(u) \/ Abort(u)

Spec == Init /\ [][Next]_vars

-----------------------------------------------------------------------------
(* invariants.md STATE-2: "Renewal chains never fork": a license is the    *)
(* predecessor of its one successor and of no other                        *)
(* (assert_predecessor_has_no_successor).                                  *)
LinksAreMutual ==
    \A l, s \in Licenses : l \in predecessors[s] <=> renewedTo[l] = s

(* STATE-2, "or cycle": no set of licenses has all its successors inside.  *)
ChainsEnd ==
    \A ring \in SUBSET Licenses :
        (\A l \in ring : renewedTo[l] \in ring) => ring = {}

(* A reference leads to one chain with one end: of the licenses that bear  *)
(* it one at most has its successor elsewhere or none (license_matcher     *)
(* takes the license without a successor for the head of the chain).       *)
OneHeadPerReference ==
    \A l, m \in Present :
        /\ ref[l] = ref[m]
        /\ \A x \in {l, m} : renewedTo[x] = None \/ ref[renewedTo[x]] # ref[x]
        => l = m

(* STATE-6: "a renewed status can't be cleared through a general edit":    *)
(* a license is renewed exactly while it has a successor.                  *)
RenewedHasSuccessor ==
    \A l \in Licenses : lifecycle[l] = "renewed" <=> renewedTo[l] # None

(* A pending renewal has a line in sourcing or on order that can end it    *)
(* (clear_pending_renewal_if_no_open_sourcing).                            *)
PendingHasWork ==
    \A l \in Licenses :
        lifecycle[l] = "pending_renewal" =>
            \E i \in OpenItems : l \in Covers(i)

=============================================================================
