------------------------------ MODULE ClientCache ------------------------------
(***************************************************************************)
(* The query cache of the browser client: every page draws what it shows   *)
(* from one shared cache, and code that changes something on the server    *)
(* says which entries of the cache are to be read again, or writes the     *)
(* answer into an entry itself.                                            *)
(*                                                                         *)
(* One entry is followed per behaviour.  It is a list of records, each in  *)
(* one of the versions the server gave it.  What a change does to the      *)
(* entry is a record, found from what the change touches on the server and *)
(* from what the code that makes it asks of the cache.                     *)
(***************************************************************************)
EXTENDS Naturals, FiniteSets

CONSTANTS
    Rows,                  \* the records of the list
    MaxDeeds, MaxFetches   \* bounds: changes made from this client, reads

-----------------------------------------------------------------------------
(* The entries, and the helpers that name several of them.                  *)

Portfolio == {"portfolioStats", "reports"}
Sourcing == {"sourcing", "sourcingHistory", "sourcingItems"}
RenewalWorkflow ==
    {"licenses", "licenseStats", "renewals", "notifications"} \union Sourcing \union Portfolio

ProcurementRenewalState == RenewalWorkflow \union {"pendingOrders", "pendingOrderHistory"}
CompletenessRules ==
    {"licenses", "licenseStats", "renewals", "notifications"} \union Portfolio
CustomFieldDefinitions == {"customFieldDefs", "licenses", "renewals"}
ReferenceData ==
    {"referenceData", "licenses", "contracts", "pendingOrders", "pendingOrderHistory", "renewals", "reports"}
        \union Sourcing
ImportState == CompletenessRules \union {"referenceData"}
Orders == {"pendingOrders", "pendingOrderHistory"}

Queries == {"licenses", "licenseStats", "renewals", "notifications", "contracts", "customFieldDefs",
            "referenceData"} \union Sourcing \union Orders \union Portfolio

(* The figures of the sidebar are computed from two other entries.          *)
Bases == {"licenseStats", "pendingOrders"}

-----------------------------------------------------------------------------
(* What the client's operations change on the server, what they ask to be   *)
(* read again, and what they write into the cache themselves: "rows" into a *)
(* list that is there, "list" even when it is not, "typed" before the       *)
(* server answers as well.  A written record may be read once more first.   *)

Deed(changes, invalidates) ==
    [changes |-> changes, invalidates |-> invalidates, patches |-> "", how |-> "rows", rereads |-> FALSE]
Writing(deed, query, how) == [deed EXCEPT !.patches = query, !.how = how]

LicenseState == {"licenses", "renewals", "contracts", "notifications", "licenseStats"} \union Portfolio
RenewalState == (LicenseState \ {"contracts"}) \union Sourcing
ProcurementState == RenewalState \union Orders

(* Sourcing.                                                                *)
EditSourcing == Deed(Sourcing, Sourcing)
LinkTermsInSourcing == Deed(Sourcing \union {"pendingOrders"}, Sourcing)
DropSourcing == Deed(ProcurementState, ProcurementRenewalState)
ConvertSourcing ==
    Deed(RenewalState \union {"pendingOrders"},
         Sourcing \union {"pendingOrders", "renewals"} \union Portfolio)
ConvertFreeware ==
    Deed(RenewalState, Sourcing \union {"licenses", "renewals"} \union Portfolio)
MergeSourcing == Deed({"sourcing", "sourcingItems", "renewals"}, {"sourcing", "sourcingItems"})
DeleteQuoteInSourcing ==
    Deed({"sourcing", "sourcingHistory", "pendingOrders"}, {"sourcing", "sourcingHistory"})

(* Pending orders.                                                          *)
CreateOrder == Deed({"pendingOrders", "portfolioStats"}, Orders \union Portfolio)
UpdateOrder == Writing(Deed({"pendingOrders"}, Portfolio), "pendingOrders", "list")
AddOrderLines == Deed({"pendingOrders"}, {"pendingOrders"})
DeleteOrderLine == Writing(Deed(ProcurementState, ProcurementRenewalState), "pendingOrders", "list")
CancelOrder == Deed(ProcurementState, ProcurementRenewalState)
ConvertOrder ==
    Writing(Deed(ProcurementState, {"pendingOrderHistory", "licenses", "renewals", "notifications"} \union Portfolio),
            "pendingOrders", "list")
OrderDocuments == Deed(Orders, Orders)
DeleteQuoteInOrders ==
    Deed(Orders \union {"sourcing", "sourcingHistory"}, Orders \union {"sourcing", "sourcingHistory"})
LinkTermsInOrders == Deed(Sourcing \union {"pendingOrders"}, {"pendingOrders", "sourcing", "sourcingHistory"})

(* Licenses.                                                                *)
EditLicense ==
    [Writing(Deed(LicenseState \ {"contracts"}, {"licenseStats", "notifications"} \union Portfolio),
             "licenses", "typed") EXCEPT !.rereads = TRUE]
EditLicenseField == [EditLicense EXCEPT !.rereads = FALSE]
LicenseDocuments == Writing(Deed({"licenses"}, {"licenses"}), "licenses", "rows")
SetPoTotal == Writing(Deed({"licenses", "reports"}, {}), "licenses", "rows")
DeleteLicenses ==
    Writing(Deed(LicenseState, {"licenseStats", "notifications"} \union Portfolio), "licenses", "rows")
CreateLicenses == Deed(LicenseState, {"licenses", "notifications"} \union Portfolio)
LinkMaintenance == Deed({"licenses"}, {"licenses"})
RecordSupport == Deed({"licenses", "renewals", "licenseStats"}, {"licenses", "renewals"})
ImportLicenses == Deed(LicenseState \union {"referenceData"}, ImportState)

(* Renewals: started or cancelled, a successor linked or unlinked.          *)
ChangeRenewal == Writing(Deed(RenewalState, RenewalWorkflow), "licenses", "rows")
StartRenewal == Writing(Deed(RenewalState, RenewalWorkflow), "sourcingItems", "list")
LinkSuccessor ==
    Writing(Deed(LicenseState \ {"contracts"}, RenewalWorkflow), "licenses", "rows")

(* Contracts and administration.                                            *)
EditContract == Deed({"contracts"}, {"contracts"})
CreateContractFromLicense == Deed({"contracts"}, {})
DeleteContract == Writing(Deed({"contracts"}, {}), "contracts", "rows")
ChangeCompletenessRules == Deed(LicenseState \ {"contracts"}, CompletenessRules)
ChangeNotificationRules == Deed({"notifications"}, {})
DefineCustomFields == Deed({"customFieldDefs", "licenses", "renewals"}, CustomFieldDefinitions)
ChangeReferenceData == Deed(Queries \ {"licenseStats", "portfolioStats", "customFieldDefs"}, ReferenceData)
ResetPortfolio == Deed(Queries, Queries)

Deeds ==
    [editSourcing |-> EditSourcing, linkTermsInSourcing |-> LinkTermsInSourcing,
     dropSourcing |-> DropSourcing, convertSourcing |-> ConvertSourcing,
     convertFreeware |-> ConvertFreeware, mergeSourcing |-> MergeSourcing,
     deleteQuoteInSourcing |-> DeleteQuoteInSourcing,
     createOrder |-> CreateOrder, updateOrder |-> UpdateOrder, addOrderLines |-> AddOrderLines,
     deleteOrderLine |-> DeleteOrderLine, cancelOrder |-> CancelOrder,
     convertOrder |-> ConvertOrder, orderDocuments |-> OrderDocuments,
     deleteQuoteInOrders |-> DeleteQuoteInOrders, linkTermsInOrders |-> LinkTermsInOrders,
     editLicense |-> EditLicense, editLicenseField |-> EditLicenseField,
     licenseDocuments |-> LicenseDocuments,
     setPoTotal |-> SetPoTotal, deleteLicenses |-> DeleteLicenses,
     createLicenses |-> CreateLicenses, linkMaintenance |-> LinkMaintenance,
     recordSupport |-> RecordSupport, importLicenses |-> ImportLicenses,
     changeRenewal |-> ChangeRenewal, startRenewal |-> StartRenewal, linkSuccessor |-> LinkSuccessor,
     editContract |-> EditContract, createContractFromLicense |-> CreateContractFromLicense,
     deleteContract |-> DeleteContract, changeCompletenessRules |-> ChangeCompletenessRules,
     changeNotificationRules |-> ChangeNotificationRules, defineCustomFields |-> DefineCustomFields,
     changeReferenceData |-> ChangeReferenceData, resetPortfolio |-> ResetPortfolio]

(* What a change leaves as it was in the cache although the server changed  *)
(* it: until the entry is read for another reason, a page shows the old.  A *)
(* converted order is taken off the list, where a read may still find it,   *)
(* as one with evidence to be transferred.                                  *)
Overlooked ==
    [linkTermsInSourcing |-> {"pendingOrders"},
     convertSourcing |-> {"licenses", "licenseStats", "notifications", "portfolioStats"},
     convertFreeware |-> {"licenseStats", "notifications", "portfolioStats"},
     mergeSourcing |-> {"renewals"},
     deleteQuoteInSourcing |-> {"pendingOrders"},
     convertOrder |-> {"licenseStats", "portfolioStats", "pendingOrders"} \union Sourcing,
     linkTermsInOrders |-> {"sourcingItems"},
     editLicense |-> {"renewals"}, editLicenseField |-> {"renewals"},
     setPoTotal |-> {"reports"},
     deleteLicenses |-> {"renewals", "contracts"},
     createLicenses |-> {"renewals", "contracts", "licenseStats", "portfolioStats"},
     recordSupport |-> {"licenseStats"},
     importLicenses |-> {"contracts"},
     createContractFromLicense |-> {"contracts"},
     changeNotificationRules |-> {"notifications"},
     changeReferenceData |-> {"notifications"}]

Gap(d, q) == d \in DOMAIN Overlooked /\ q \in Overlooked[d]

(* An entry computed from others is read again in vain unless these are.    *)
Refreshes(d, q) ==
    /\ q \in Deeds[d].invalidates
    /\ q = "portfolioStats" =>
         Bases \intersect Deeds[d].changes \subseteq Deeds[d].invalidates \union {Deeds[d].patches}

(* What a change is to the entry q.  The user works on a list that was      *)
(* loaded, except that a renewal is also started where the sourcing items   *)
(* are not shown.                                                           *)
Treatment(d, q) ==
    LET writes == q = Deeds[d].patches
    IN [refreshes |-> Refreshes(d, q), writes |-> IF writes THEN Deeds[d].how ELSE "",
        rereads |-> writes /\ Deeds[d].rereads, blind |-> writes /\ d = "startRenewal", gap |-> Gap(d, q)]

Treatments == [q \in Queries |-> {Treatment(d, q) : d \in {e \in DOMAIN Deeds : q \in Deeds[e].changes}}]

(* The entries read again when nobody moved for three minutes on the page   *)
(* they are for.                                                            *)
IdleRefreshed == {"licenses", "notifications", "renewals", "sourcing", "pendingOrders", "contracts"}

-----------------------------------------------------------------------------
VARIABLES
    treatments, idles,  \* what is done to the entry followed
    mounted,  \* whether something on screen shows it
    server,   \* the version of each record on the server
    data,     \* the version of each record in the entry, 0 for none
    stale,    \* whether the entry is marked to be read again
    fetch,    \* the read under way, if any
    pending,  \* changes under way
    deeds, fetches,  \* counters
    mine,     \* the version this user's last change of a record made
    raced     \* whether a change was answered, or overlapped another, in a way
              \* that what was read or written for it may be overwritten

cvars == <<treatments, idles, mounted, server, data, stale, fetch, pending, deeds, fetches, mine, raced>>

Typed == MaxDeeds + 2  \* what the user typed, in place of a version
Nothing == [r \in Rows |-> 0]
Idle == [state |-> "idle", got |-> Nothing, clean |-> FALSE]
Sent == [Idle EXCEPT !.state = "sent", !.clean = TRUE]

known == data # Nothing

Init ==
    /\ \E q \in Queries : treatments = Treatments[q] /\ idles = (q \in IdleRefreshed)
    /\ mounted = FALSE
    /\ server = [r \in Rows |-> 1] /\ data = Nothing
    /\ stale = FALSE /\ fetch = Idle /\ pending = {} /\ deeds = 0 /\ fetches = 0
    /\ mine = [r \in Rows |-> 1] /\ raced = FALSE

(* A read replaces the one under way, if there is one.                      *)
StartFetch ==
    /\ fetches < MaxFetches /\ fetches' = fetches + 1
    /\ fetch' = Sent /\ raced' = raced

(* Something that may be lost to the read under way, if there is one.       *)
Race == raced' = TRUE /\ fetch' = [fetch EXCEPT !.clean = FALSE] /\ fetches' = fetches
NoRace == UNCHANGED <<raced, fetch, fetches>>

-----------------------------------------------------------------------------
(* What is on screen.                                                       *)

(* Whether 30 seconds have passed since the entry was read is left open.    *)
Mount ==
    /\ ~mounted /\ mounted' = TRUE
    /\ \/ fetch = Idle /\ StartFetch
       \/ known /\ ~stale /\ UNCHANGED <<fetch, fetches, raced>>
       \/ fetch # Idle /\ UNCHANGED <<fetch, fetches, raced>>
    /\ UNCHANGED <<treatments, idles, server, data, stale, pending, deeds, mine>>

Unmount ==
    /\ mounted /\ mounted' = FALSE
    /\ UNCHANGED <<treatments, idles, server, data, stale, fetch, pending, deeds, fetches, mine, raced>>

(* The window comes to the front, or what failed is tried again.            *)
Refetch ==
    /\ mounted /\ fetch = Idle /\ StartFetch
    /\ UNCHANGED <<treatments, idles, mounted, server, data, stale, pending, deeds, mine>>

(* An entry that is on screen is read at once when it is marked; a read     *)
(* under way is given up for that, unless it is the first one.              *)
ReadsAtOnce(there) == mounted /\ (there \/ fetch = Idle)

Invalidate ==
    /\ stale' = known
    /\ IF ReadsAtOnce(known) THEN StartFetch ELSE UNCHANGED <<fetch, fetches, raced>>

IdleRefresh ==
    /\ idles /\ mounted /\ Invalidate
    /\ UNCHANGED <<treatments, idles, mounted, server, data, pending, deeds, mine>>

-----------------------------------------------------------------------------
(* Reads.                                                                   *)

ServerReads ==
    /\ fetch.state = "sent"
    /\ \/ fetch' = [fetch EXCEPT !.state = "read", !.got = server]
       \/ fetch' = [fetch EXCEPT !.state = "failed"]
    /\ UNCHANGED <<treatments, idles, mounted, server, data, stale, pending, deeds, fetches, mine, raced>>

TakeFetch ==
    /\ fetch.state = "read"
    /\ data' = fetch.got /\ stale' = FALSE /\ fetch' = Idle
    /\ raced' = (raced /\ ~fetch.clean)
    /\ UNCHANGED <<treatments, idles, mounted, server, pending, deeds, fetches, mine>>

FetchFails ==
    /\ fetch.state = "failed" /\ fetch' = Idle
    /\ UNCHANGED <<treatments, idles, mounted, server, data, stale, pending, deeds, fetches, mine, raced>>

-----------------------------------------------------------------------------
(* Changes made by this user.                                               *)

(* Typing a record puts it into the list at once, and remembers the list as *)
(* it was.  The list is in doubt when it is being read or changed.          *)
Act(as, r) ==
    /\ as.writes # "" => known \/ as.blind
    /\ deeds < MaxDeeds /\ deeds' = deeds + 1
    /\ pending' = {[p EXCEPT !.doubtful = TRUE] : p \in pending} \union
         {[id |-> deeds, as |-> as, row |-> r, state |-> "sent", version |-> 0,
           doubtful |-> raced \/ stale \/ fetch # Idle \/ pending # {},
           before |-> IF as.writes = "typed" THEN data ELSE Nothing]}
    /\ IF as.writes = "typed"
       THEN /\ data' = [data EXCEPT ![r] = Typed] /\ stale' = FALSE
            /\ IF stale \/ fetch # Idle THEN Race ELSE NoRace
       ELSE UNCHANGED <<data, stale>> /\ NoRace
    /\ UNCHANGED <<treatments, idles, mounted, server, mine>>

ServerActs(p) ==
    /\ p.state = "sent"
    /\ \/ /\ server' = [server EXCEPT ![p.row] = @ + 1]
          /\ pending' = (pending \ {p}) \union {[p EXCEPT !.state = "done", !.version = server'[p.row]]}
       \/ /\ server' = server
          /\ pending' = (pending \ {p}) \union {[p EXCEPT !.state = "failed"]}
    /\ UNCHANGED <<treatments, idles, mounted, data, stale, fetch, deeds, fetches, mine, raced>>

(* The answer is written into the list before anything is invalidated.      *)
Written(p) ==
    IF p.as.writes = "" \/ (p.as.writes # "list" /\ ~known) THEN {data}
    ELSE {[data EXCEPT ![p.row] = v] : v \in IF p.as.rereads THEN p.version..server[p.row] ELSE {p.version}}

(* What was read before the change, was written over by another change, or  *)
(* was marked to be read again, may now be taken for current: a read that   *)
(* is the first or not on screen goes on, and a write gives up none.        *)
Races(p) ==
    \/ fetch # Idle /\ ~p.as.gap /\ (p.as.refreshes => ~mounted \/ ~known)
    \/ p.as.writes # "" /\ (stale \/ p.doubtful)

Answer(p) ==
    /\ p.state = "done" /\ pending' = pending \ {p}
    /\ data' \in Written(p)
    /\ mine' = IF ~p.as.gap THEN [mine EXCEPT ![p.row] = p.version] ELSE mine
    /\ IF p.as.refreshes /\ ReadsAtOnce(known')
       THEN StartFetch /\ stale' = known'
       ELSE /\ stale' = (known' /\ (p.as.refreshes \/ (stale /\ p.as.writes = "")))
            /\ IF Races(p) THEN Race ELSE NoRace
    /\ UNCHANGED <<treatments, idles, mounted, server, deeds>>

(* A refused edit puts back the list as it was when the user typed.         *)
AnswerFailed(p) ==
    /\ p.state = "failed" /\ pending' = pending \ {p}
    /\ IF p.as.writes = "typed"
       THEN data' = p.before /\ stale' = FALSE /\ IF Races(p) THEN Race ELSE NoRace
       ELSE UNCHANGED <<data, stale>> /\ NoRace
    /\ UNCHANGED <<treatments, idles, mounted, server, deeds, mine>>

Next ==
    \/ Mount \/ Unmount \/ Refetch \/ IdleRefresh
    \/ ServerReads \/ TakeFetch \/ FetchFails
    \/ \E as \in treatments, r \in Rows : Act(as, r)
    \/ \E p \in pending : ServerActs(p) \/ Answer(p) \/ AnswerFailed(p)

Spec == Init /\ [][Next]_cvars

-----------------------------------------------------------------------------
(* Properties.                                                              *)

(* Nothing is cached that neither the server nor the user made.             *)
TypeOK ==
    /\ \A as \in treatments : as.writes \in {"", "rows", "list", "typed"} /\ (as.rereads => as.writes = "typed")
    /\ mounted \in BOOLEAN /\ stale \in BOOLEAN
    /\ fetch.state \in {"idle", "sent", "read", "failed"}
    /\ \A r \in Rows :
         /\ server[r] \in 1..(MaxDeeds + 1) /\ mine[r] \in 1..server[r]
         /\ data[r] \in 0..server[r] \union {Typed} /\ fetch.got[r] \in 0..server[r]
    /\ ~known => ~stale
    /\ deeds \in 0..MaxDeeds /\ fetches \in 0..MaxFetches

(* When nothing is under way, an entry that is not marked to be read again  *)
(* holds every record, each in a version not older than this user's last    *)
(* change to it and one the server has had; unless the change overlooks the *)
(* entry, or raced with a read or with another change of the list.          *)
OwnChangesAreCached ==
    known /\ ~stale /\ fetch = Idle /\ pending = {} /\ ~raced
    => \A r \in Rows : data[r] \in mine[r]..server[r]

=============================================================================
