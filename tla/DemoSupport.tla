------------------------------ MODULE DemoSupport ------------------------------
(***************************************************************************)
(* Separately tracked support in the demo build's in-browser backend       *)
(* (demo/store.js, demo/handlers.js, demo/supportDefaults.js).             *)
(*                                                                         *)
(* A supported license and its maintenance records point at each other:    *)
(* the license lists the records linked to it and names the active one,    *)
(* a record lists the licenses it supports.  Every handler writes both     *)
(* ends itself and nothing rolls back.  The day does not change during a   *)
(* session; a term is past, current or future, and ends when it starts.    *)
(* The supported licenses are of a type that can be supported; ids count   *)
(* from 1, 0 is null, and a deleted record keeps its id.                   *)
(***************************************************************************)
EXTENDS Integers, Sequences, FiniteSetsExt

CONSTANTS
    Parents,      \* ids of the supported licenses
    MaxRecords,   \* bound: maintenance records ever made
    MaxLines      \* bound: sourcing lines ever made

Null == 0
Terms == 1..3     \* past, current and future; 0 stands for no period
Today == 2

VARIABLE support  \* [parents, records, lines]: each a function on its ids

Exists(f, id) == id \in DOMAIN f
-----------------------------------------------------------------------------
(* Linking *)

AnyOf(ps) == CHOOSE p \in ps : TRUE

(* The first license a record is linked to is its primary one.              *)
LinkRecord(r, ps) ==
    [r EXCEPT !.parents = @ \cup ps, !.primary = IF @ = Null /\ ps # {} THEN AnyOf(ps) ELSE @]

(* Mutant: the licenses do not learn of the record. *)
BadLink(s, m, ps) == [s EXCEPT !.records[m] = LinkRecord(@, ps)]

(* linkMaintenanceToParent, for every license of ps. *)
Link(s, m, ps) ==
    [s EXCEPT !.records[m] = LinkRecord(@, ps),
              !.parents = [p \in DOMAIN s.parents |->
                  IF p \in ps THEN [s.parents[p] EXCEPT !.linked = @ \cup {m}] ELSE s.parents[p]]]

(* activateMaintenanceForParent: a license mirrors the record's term. *)
Activate(s, m, ps) ==
    LET Activated(q) == [q EXCEPT !.active = m, !.has = TRUE, !.coverage = "separately_tracked",
                                  !.term = s.records[m].term]
    IN [Link(s, m, ps) EXCEPT !.parents = [p \in DOMAIN @ |-> IF p \in ps THEN Activated(@[p]) ELSE @[p]]]

(* shouldBecomeActiveNow *)
ActiveNow(s, m, p) ==
    LET active == s.parents[p].active
        term == s.records[m].term
    IN \/ active \in {Null, m}
       \/ term <= Today
       \/ ~Exists(s.records, active)
       \/ s.records[active].retired
       \/ s.records[active].term < Today
       \/ s.records[active].term > Today /\ s.records[active].term > term

(* linkOrActivateMaintenance, which tells one license from another only by  *)
(* the record that is active for it.                                        *)
LinkOrActivate(s, m, ps) ==
    Activate(Link(s, m, ps), m, {p \in ps : ActiveNow(s, m, p)})

AddRecord(s, record) ==
    LET m == s.made + 1
    IN [s EXCEPT !.made = m, !.records = [n \in DOMAIN @ \cup {m} |-> IF n = m THEN record ELSE @[n]]]
NewRecord == [term |-> Today, parents |-> {}, primary |-> Null, retired |-> FALSE,
              lifecycle |-> "none", to |-> Null, source |-> Null]

-----------------------------------------------------------------------------
(* Daily jobs, run once when the session starts: handOverDueMaintenance.    *)

CoversToday(r) == ~r.retired /\ r.term = Today

(* The licenses that record m becomes active for, the newest of those due.  *)
HandOver(s, m) ==
    LET due(p) == {n \in DOMAIN s.records : /\ CoversToday(s.records[n])
                                            /\ p \in s.records[n].parents \cup {s.records[n].primary}}
        Covered(p) == Exists(s.records, s.parents[p].active)
                      /\ CoversToday(s.records[s.parents[p].active])
    IN Activate(s, m, {p \in DOMAIN s.parents : due(p) # {} /\ m = Max(due(p)) /\ ~Covered(p)})

-----------------------------------------------------------------------------
(* The license pages *)

(* POST of a maintenance record for a license. *)
CreateRecord(p) ==
    /\ Exists(support.parents, p) /\ support.made < MaxRecords
    /\ \E term \in Terms :
        LET s == AddRecord(support, [NewRecord EXCEPT !.term = term, !.primary = p])
        IN support' = LinkOrActivate(s, s.made, {p})

LinkExisting(p, m) ==
    /\ Exists(support.parents, p) /\ Exists(support.records, m)
    /\ support' = LinkOrActivate(support, m, {p})

(* disable-maintenance: the active record loses the license, and is retired *)
(* with its last one; other linked records stay linked.  The record lists   *)
(* its licenses in the order they were linked, which is left out: any that  *)
(* remain may come first and be its primary one.                            *)
Disable(p) ==
    LET m == support.parents[p].active
        rest == support.records[m].parents \ {p}
        license == [support.parents[p] EXCEPT !.linked = @ \ {m}, !.active = Null, !.has = FALSE, !.term = 0]
        Child(primary) ==
            [support.records[m] EXCEPT !.parents = rest, !.retired = @ \/ rest = {},
                                       !.primary = IF @ = p THEN primary ELSE @]
    IN /\ Exists(support.parents, p) /\ support.parents[p].has /\ m # Null
       /\ \/ ~Exists(support.records, m) /\ support' = [support EXCEPT !.parents[p] = license]
          \/ /\ Exists(support.records, m)
             /\ \E primary \in IF rest = {} THEN {Null} ELSE rest :
                    support' = [support EXCEPT !.parents[p] = license, !.records[m] = Child(primary)]

(* A change of coverage: assertCoverageChangeAllowed, then                  *)
(* recordIncludedSupportExit.                                               *)
ChangeCoverage(p) ==
    /\ Exists(support.parents, p)
    /\ \E coverage \in {"unknown", "included", "separately_tracked"} :
        LET q == support.parents[p]
            leaves == q.coverage = "included" /\ coverage # "included" /\ q.active = Null
            left == IF leaves THEN [q EXCEPT !.has = FALSE, !.term = 0] ELSE q
        IN /\ q.active # Null => coverage = "separately_tracked"
           /\ support' = [support EXCEPT !.parents[p] = [left EXCEPT !.coverage = coverage]]

(* applyIncludedSupportUpdate *)
EditIncluded(p) ==
    /\ Exists(support.parents, p) /\ support.parents[p].coverage = "included"
    /\ support.parents[p].active = Null
    /\ \E term \in Terms \cup {0} : support' = [support EXCEPT !.parents[p].term = term]

EditRecordTerm(m) ==
    /\ Exists(support.records, m)
    /\ \E term \in Terms : support' = [support EXCEPT !.records[m].term = term]

RetireRecord(m) ==
    /\ Exists(support.records, m)
    /\ support' = [support EXCEPT !.records[m].retired = ~@]

DeleteRecord(m) ==
    /\ Exists(support.records, m)
    /\ support' = [support EXCEPT !.records = [n \in DOMAIN @ \ {m} |-> @[n]]]

DeleteParent(p) ==
    /\ Exists(support.parents, p)
    /\ support' = [support EXCEPT !.parents = [q \in DOMAIN @ \ {p} |-> @[q]]]

-----------------------------------------------------------------------------
(* Procurement of support: a line buys a first record after included        *)
(* support, or renews a record.                                             *)

(* openSupportRenewalItems *)
OpenSupportLines(p) ==
    {i \in DOMAIN support.lines :
        /\ support.lines[i].parent = p /\ support.lines[i].status # "cancelled"
        /\ \A m \in DOMAIN support.records : support.records[m].source # i}

AddLine(s, l) == [s EXCEPT !.lines = Append(@, l)]

StartSupportRenewal(p) ==
    /\ Exists(support.parents, p) /\ Len(support.lines) < MaxLines
    /\ support.parents[p].coverage = "included" /\ support.parents[p].term # 0
    /\ OpenSupportLines(p) = {}
    /\ support' = AddLine(support, [parent |-> p, renews |-> Null, status |-> "sourcing"])

StartRecordRenewal(m) ==
    /\ Exists(support.records, m) /\ Len(support.lines) < MaxLines
    /\ support.records[m].term <= Today /\ ~support.records[m].retired
    /\ support.records[m].lifecycle = "none" /\ support.records[m].to = Null
    /\ support' = AddLine([support EXCEPT !.records[m].lifecycle = "pending"],
                          [parent |-> Null, renews |-> m, status |-> "sourcing"])

(* Cancelling a line takes its record out of renewal when no other line     *)
(* renews it.                                                               *)
CancelLine(i) ==
    LET l == support.lines[i]
        s == [support EXCEPT !.lines[i].status = "cancelled"]
        others == \E j \in DOMAIN s.lines : s.lines[j].status # "cancelled" /\ s.lines[j].renews = l.renews
    IN /\ i \in DOMAIN support.lines /\ l.status = "sourcing"
       /\ support' = IF Exists(s.records, l.renews) /\ ~others
                          /\ s.records[l.renews].lifecycle = "pending"
                     THEN [s EXCEPT !.records[l.renews].lifecycle = "none"] ELSE s

(* createPurchaseLicense, createRenewalSuccessorFromSourcingItem: a         *)
(* successor supports every license its predecessor supports.               *)
ConvertLine(i) ==
    LET l == support.lines[i]
        old == support.records[l.renews]
        done == [support EXCEPT !.lines[i].status = "converted"]
    IN /\ i \in DOMAIN support.lines /\ l.status = "sourcing" /\ support.made < MaxRecords
       /\ \E term \in Terms :
            \/ /\ l.renews = Null
               /\ LET s == AddRecord(done, [NewRecord EXCEPT !.term = term, !.source = i,
                                                            !.primary = l.parent])
                  IN support' = IF Exists(s.parents, l.parent)
                                THEN LinkOrActivate(s, s.made, {l.parent}) ELSE s
            \/ /\ Exists(support.records, l.renews) /\ old.to = Null
               /\ LET s == AddRecord(done, [NewRecord EXCEPT !.term = term, !.source = i,
                                                            !.primary = old.primary])
                      marked == [s EXCEPT !.records[l.renews] =
                                             [@ EXCEPT !.lifecycle = "renewed", !.to = s.made]]
                      known == ({old.primary} \cup old.parents) \cap DOMAIN support.parents
                  IN support' = LinkOrActivate(marked, s.made, known)

-----------------------------------------------------------------------------
(* The seeded licenses share a record whose term may be over or to come.    *)
Init ==
    \E term \in Terms :
        LET bare == [active |-> Null, linked |-> {}, has |-> FALSE,
                     coverage |-> "included", term |-> Today]
            empty == [parents |-> [p \in Parents |-> bare], records |-> <<>>,
                      lines |-> <<>>, made |-> 0]
            seeded == Activate(AddRecord(empty, [NewRecord EXCEPT !.term = term]), 1, Parents)
        IN support \in {empty, HandOver(seeded, 1)}

Next ==
    \/ \E p \in Parents :
        \/ CreateRecord(p) \/ Disable(p) \/ ChangeCoverage(p) \/ EditIncluded(p)
        \/ DeleteParent(p) \/ StartSupportRenewal(p)
        \/ \E m \in 1..MaxRecords : LinkExisting(p, m)
    \/ \E m \in 1..MaxRecords :
        EditRecordTerm(m) \/ RetireRecord(m) \/ DeleteRecord(m) \/ StartRecordRenewal(m)
    \/ \E i \in 1..MaxLines : CancelLine(i) \/ ConvertLine(i)

Spec == Init /\ [][Next]_support

-----------------------------------------------------------------------------
TypeOK ==
    /\ DOMAIN support.parents \subseteq Parents
    /\ DOMAIN support.records \subseteq 1..support.made
    /\ \A p \in DOMAIN support.parents : support.parents[p].active \in 0..support.made

(* Both ends of a support link agree: a license lists exactly the records   *)
(* that list it, its active record is one of them as long as it stands,     *)
(* and a license with an active record is separately tracked.  Linking,     *)
(* disabling, conversion and the daily hand-over all write one end each.    *)
SupportLinksAgree ==
    \A p \in DOMAIN support.parents :
        LET q == support.parents[p]
        IN /\ \A m \in DOMAIN support.records :
                m \in q.linked <=> p \in support.records[m].parents
           /\ q.active \in DOMAIN support.records => q.active \in q.linked
           /\ q.has <=> q.active # Null
           /\ q.active # Null => q.coverage = "separately_tracked"

=============================================================================
