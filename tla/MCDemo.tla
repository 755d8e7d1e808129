-------------------------------- MODULE MCDemo --------------------------------
(***************************************************************************)
(* Procurement or support in the demo build's backend, one kind of session *)
(* at a time.  A session of procurement is bounded by the number of its    *)
(* requests; it remembers which lines became licenses, and whether one of  *)
(* them did so twice.  A session of support has any length.                *)
(***************************************************************************)
EXTENDS DemoSupport

CONSTANTS
    PoNumbers, Suppliers, Currencies, None,
    MaxLicenses, MaxItems, MaxRequests, MaxOrders, MaxRows,
    MaxSent       \* bound: requests in one session

VARIABLES
    store,
    session, sent,
    bought,   \* history: the lines that became a license
    again     \* history: a line became another license

P == INSTANCE DemoProcurement WITH MaxLines <- MaxItems

(* Ids count from 1; what stands for none is no number and no supplier. *)
ASSUME IdsAssumption == Parents \subseteq Nat \ {Null}
ASSUME NoneAssumption == None \notin PoNumbers \cup Suppliers

Renewing ==
    \/ P!StartBundle \/ P!MergeLines
    \/ \E id \in 1..MaxLicenses :
        P!StartRenewal(id) \/ P!CancelRenewal(id) \/ P!DeleteLicense(id) \/ P!Retire(id) \/ P!EditEnd(id)
    \/ \E i \in 1..MaxItems : P!OrderLine(i)
    \/ \E r \in 1..MaxRequests : P!OrderRequest(r) \/ P!CancelSourcing(r)
    \/ \E o \in 1..MaxOrders :
        \/ P!CancelOrder(o) \/ P!Convert(o) \/ P!BatchConvert(o)
        \/ \E i \in 1..MaxItems : P!DeleteOrderLine(o, i)

Planning ==
    \/ P!CreateRequest
    \/ \E i \in 1..MaxItems : P!OrderLine(i) \/ P!EditLine(i) \/ P!DeleteLine(i) \/ P!PlanSuccessor(i)
    \/ \E r \in 1..MaxRequests :
        \/ P!OrderRequest(r) \/ P!AddRequestLine(r) \/ P!EditRequest(r)
        \/ P!DeleteRequest(r) \/ P!ConvertFreeware(r)
    \/ \E o \in 1..MaxOrders :
        \/ P!Convert(o) \/ P!BatchConvert(o)
        \/ \E i \in 1..MaxItems : P!EditOrderLine(o, i)

Numbering ==
    \/ P!CreateOrder \/ P!CreateLicense
    \/ \E id \in 1..MaxLicenses : P!EditPoNumber(id)
    \/ \E o \in 1..MaxOrders :
        \/ P!AddOrderLine(o) \/ P!CancelOrder(o) \/ P!EditOrder(o) \/ P!Convert(o) \/ P!BatchConvert(o)
        \/ \E i \in 1..MaxItems : P!DeleteOrderLine(o, i)

(* Lines planned to follow each other on one order, which is converted     *)
(* again after the handler threw; who supplies it makes no difference.     *)
Chaining ==
    \/ P!CreateOrder /\ \A o \in P!Ids(store'.orders) : store'.orders[o].supplier = None
    \/ \E o \in 1..MaxOrders : P!AddOrderLine(o) \/ P!BatchConvert(o)
    \/ \E i \in 1..MaxItems : P!PlanSuccessor(i)

(* Sessions with fewer choices per request can be longer.                  *)
Length == [renewing |-> MaxSent + 2, planning |-> MaxSent, numbering |-> MaxSent,
           chaining |-> 2 * MaxSent]

Kinds == DOMAIN Length \cup {"support"}

(* A session of procurement needs no support records. *)
MCInit ==
    /\ session \in Kinds /\ sent = 0 /\ bought = {} /\ again = FALSE
    /\ P!Init /\ Init /\ (session # "support" => support.made = 0)

Sends(kind) == session = kind /\ sent < Length[kind]

Procure ==
    /\ \/ Sends("renewing") /\ Renewing
       \/ Sends("planning") /\ Planning
       \/ Sends("numbering") /\ Numbering
       \/ Sends("chaining") /\ Chaining
    /\ LET fresh == P!Ids(store'.licenses) \ P!Ids(store.licenses)
           sources == {store'.licenses[id].source : id \in fresh} \ {Null}
       IN bought' = bought \cup sources /\ again' = (again \/ sources \cap bought # {})
    /\ sent' = sent + 1 /\ UNCHANGED support

Supports == session = "support" /\ Next /\ UNCHANGED <<store, sent, bought, again>>

MCNext == (Procure \/ Supports) /\ UNCHANGED session

MCSpec == MCInit /\ [][MCNext]_<<session, sent, bought, again, store, support>>

-----------------------------------------------------------------------------
(* Properties *)

(* Ids and numbers that records name were handed out, in both areas.       *)
MCTypeOK == TypeOK /\ P!TypeOK

(* Both ends of every renewal agree and no chain returns, whatever throws  *)
(* half way, until a line becomes a second license: a conversion tried     *)
(* again makes the licenses of its first lines once more, and the planned  *)
(* links (applyPlannedSuccessorLinks) go on with the old ones.             *)
LinksAgreeUntilBoughtAgain == ~again => P!RenewalLinksAgree

(* A PO line number is issued once, as DemoProcurement states it.          *)
PoLineNumbers == P!PoLineNumbers

=============================================================================
