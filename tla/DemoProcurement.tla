---------------------------- MODULE DemoProcurement ----------------------------
(***************************************************************************)
(* The procurement half of the demo build's in-browser backend             *)
(* (demo/store.js, demo/handlers.js, demo/poLines.js).                     *)
(*                                                                         *)
(* One user drives one page, so a request runs from start to end before    *)
(* the next.  Nothing rolls back: a handler that throws half way leaves    *)
(* what it had done.  A request refused before its first write is no step; *)
(* one that throws later is a step to what it leaves.                      *)
(*                                                                         *)
(* All records are of one product, publisher and budget owner, and the     *)
(* requests are those the pages offer.  A term is the year it starts in;   *)
(* renewals are offered in its last days, so in year Now for terms of Now. *)
(* Ids count from 1 per collection, 0 is null.                             *)
(***************************************************************************)
EXTENDS Integers, Sequences, FiniteSets, SequencesExt, TLC

CONSTANTS
    PoNumbers,    \* normalized PO numbers
    Suppliers,
    Currencies,
    None,         \* no supplier, no PO number
    MaxLicenses, MaxLines, MaxRequests, MaxOrders, \* bounds: ids handed out
    MaxRows       \* bound: rows of the PO line register

Null == 0
Now == 1
Years == 1..2

VARIABLE store

Ids(f) == DOMAIN f
Made(c) == store.made[c]

(* nextId and push. *)
Push(s, c, r) ==
    LET id == s.made[c] + 1
    IN [s EXCEPT ![c] = (id :> r) @@ @, !.made[c] = id]
NewId(s, c) == s.made[c] + 1
Drop(f, ids) == [i \in DOMAIN f \ ids |-> f[i]]

-----------------------------------------------------------------------------
(* The register of PO line numbers *)

RowPo(s, row) == s.register[row].po
Number(s, row) == IF row = Null THEN Null ELSE s.register[row].number
(* Mutant: a number that another line of the PO has counts as free. *)
BadIsFree(s, po, n) == TRUE

IsFree(s, po, n) == \A r \in 1..Len(s.register) : s.register[r] # [po |-> po, number |-> n]

NextFree(s, po) ==
    1 + Max({0} \cup {s.register[r].number : r \in {q \in 1..Len(s.register) : RowPo(s, q) = po}})

(* allocateLine: the row is the last of the register. *)
Allocate(s, po, requested) ==
    LET n == IF requested > 0 /\ IsFree(s, po, requested)
             THEN requested ELSE NextFree(s, po)
    IN [s EXCEPT !.register = Append(@, [po |-> po, number |-> n])]
(* Mutant: the row is counted before it is in the register. *)
BadNewest(s) == Len(s.register) + 1
Newest(s) == Len(s.register)

SyncLicensePoLine(s, id) ==
    LET l == s.licenses[id]
        sourceRow == IF l.source \in Ids(s.lines) THEN s.lines[l.source].row ELSE Null
        allocated == Allocate(s, l.po, Number(s, l.row))
    IN CASE l.po = None -> [s EXCEPT !.licenses[id].row = Null]
         [] l.po # None /\ l.row # Null /\ RowPo(s, l.row) = l.po -> s
         [] l.po # None /\ (l.row = Null \/ RowPo(s, l.row) # l.po)
              /\ sourceRow # Null /\ RowPo(s, sourceRow) = l.po ->
              [s EXCEPT !.licenses[id].row = sourceRow]
         [] OTHER -> [allocated EXCEPT !.licenses[id].row = Newest(allocated)]

(* syncOrderPoLines: lines that move keep their numbers only all together. *)
SyncOrderPoLines(s, o) ==
    LET po == s.orders[o].po
        mine == {i \in Ids(s.lines) : s.lines[i].order = o /\ s.lines[i].status # "cancelled"}
        Rank(i) == IF s.lines[i].row = Null THEN MaxRows + 1 ELSE Number(s, s.lines[i].row)
        Before(i, j) == Rank(i) < Rank(j) \/ (Rank(i) = Rank(j) /\ i < j)
        sorted == SetToSortSeq(mine, Before)
        moving == SelectSeq(sorted, LAMBDA i : s.lines[i].row # Null /\ RowPo(s, s.lines[i].row) # po)
        allFree == \A i \in Range(moving) : IsFree(s, po, Number(s, s.lines[i].row))
        Give(acc, i, n) ==
            LET t == Allocate(acc, po, n) IN [t EXCEPT !.lines[i].row = Newest(t)]
        Move(acc, i) == Give(acc, i, IF allFree THEN Number(s, s.lines[i].row) ELSE Null)
        Complete(acc, i) == IF acc.lines[i].row = Null THEN Give(acc, i, Null) ELSE acc
    IN FoldLeft(Complete, FoldLeft(Move, s, moving), sorted)

-----------------------------------------------------------------------------
(* Licenses *)

Blank == [kind |-> "term", lifecycle |-> "none", retired |-> FALSE,
          scheduled |-> FALSE, start |-> 1, end |-> 1, po |-> None, row |-> Null,
          order |-> Null, source |-> Null, from |-> <<>>, to |-> Null, ref |-> Null]

(* buildConvertedLicense: takes the line number of its source. *)
AddLicense(s, l) ==
    LET id == NewId(s, "licenses")
        ref == IF l.ref = Null THEN id ELSE l.ref
    IN SyncLicensePoLine(Push(s, "licenses", [l EXCEPT !.ref = ref]), id)

(* assertPredecessorHasNoSuccessor, markPredecessorRenewed *)
(* Mutant: a successor is not looked for. *)
BadRenewed(s, id) == FALSE
Renewed(s, id) == s.licenses[id].to # Null
MarkRenewed(s, id, successor) ==
    [s EXCEPT !.licenses[id].lifecycle = "renewed", !.licenses[id].to = successor]

CanInitiateRenewal(s, id) ==
    LET l == s.licenses[id]
    IN /\ ~l.retired /\ ~l.scheduled
       /\ l.lifecycle \notin {"pending", "renewed"}
       /\ l.kind = "term" /\ ~Renewed(s, id)
       /\ l.end # Null /\ l.start <= Now /\ l.end <= Now

-----------------------------------------------------------------------------
(* Lines and requests *)

NewLine == [request |-> Null, status |-> "sourcing", order |-> Null,
            kind |-> "term", currency |-> None, start |-> Null, for |-> Null,
            coterm |-> <<>>, succ |-> Null, row |-> Null]

(* sourcingItemPredecessorIds *)
Predecessors(l) == ({l.for} \cup Range(l.coterm)) \ {Null}
LinesOf(s, r) == {i \in Ids(s.lines) : s.lines[i].request = r}
OrderLines(s, o) == {i \in Ids(s.lines) : s.lines[i].order = o}
Ascending(ids) == SelectSeq([i \in 1..(MaxLines + MaxLicenses) |-> i], LAMBDA i : i \in ids)

Editable(s, i) ==
    /\ s.lines[i].status # "converted" /\ s.lines[i].order = Null
    /\ s.lines[i].request \in Ids(s.requests)
       => s.requests[s.lines[i].request].status # "converted"

HasOpenWork(s, id) ==
    \E i \in Ids(s.lines) : s.lines[i].status # "cancelled" /\ id \in Predecessors(s.lines[i])

(* handleSourcingItemDeleteSideEffects and the end of every cancellation. *)
ClearRenewals(s, ids) ==
    [s EXCEPT !.licenses = [id \in DOMAIN @ |->
        IF id \in ids /\ ~HasOpenWork(s, id) /\ @[id].lifecycle = "pending"
        THEN [@[id] EXCEPT !.lifecycle = "none"] ELSE @[id]]]

(* ensureSourcingRequestForItem, for a line that has no request yet. *)
AddLineWithRequest(s, l, supplier) ==
    LET r == NewId(s, "requests")
        t == Push(s, "requests", [status |-> l.status, supplier |-> supplier])
    IN Push(t, "lines", [l EXCEPT !.request = r])

Close(s, ids, status) ==
    [s EXCEPT !.lines = [i \in DOMAIN @ |->
        IF i \in ids THEN [@[i] EXCEPT !.status = status] ELSE @[i]]]

CancelRequest(s, r) ==
    LET open == {i \in LinesOf(s, r) : s.lines[i].status = "sourcing"}
        t == Close([s EXCEPT !.requests[r].status = "cancelled"], open, "cancelled")
    IN ClearRenewals(t, UNION {Predecessors(s.lines[i]) : i \in open})

-----------------------------------------------------------------------------
(* Orders *)

(* pendingOrderLineCurrencies, assertLineCurrencyFitsPendingOrder *)
LineCurrencies(s, o) ==
    {s.lines[i].currency : i \in {j \in OrderLines(s, o) : s.lines[j].status # "cancelled"}}
CurrencyFits(s, o, currency) ==
    s.orders[o].override /\ LineCurrencies(s, o) # {} => currency \in LineCurrencies(s, o)

Open(s, o) == s.orders[o].status \in {"pending", "invoice_received"}

(* The order a sourcing line or request goes to: an open one with the same *)
(* supplier, or a new one.  Both give the request its supplier.            *)
Targets(s, r) ==
    LET given == s.requests[r].supplier
        Supplied(t, o) == [t EXCEPT !.requests[r].supplier = t.orders[o].supplier]
        chosen == {o \in Ids(s.orders) : Open(s, o) /\ s.orders[o].supplier # None
                                         /\ given \in {None, s.orders[o].supplier}}
        named == IF given = None THEN Suppliers ELSE {given}
        New(po, supplier) ==
            Push(s, "orders", [status |-> "pending", supplier |-> supplier,
                               po |-> po, override |-> FALSE])
    IN {<<Supplied(s, o), o>> : o \in chosen}
       \cup (IF Made("orders") = MaxOrders THEN {}
             ELSE {<<Supplied(New(po, supplier), NewId(s, "orders")), NewId(s, "orders")>> :
                      po \in PoNumbers, supplier \in named})

Attach(s, ids, o) ==
    [s EXCEPT !.lines = [i \in DOMAIN @ |->
        IF i \in ids THEN [@[i] EXCEPT !.order = o, !.status = "converted"] ELSE @[i]]]

(* convertSourcingItemToOrder.  What it did to the request and to a new    *)
(* order stays when the currency is refused.                               *)
OrderLine(i) ==
    /\ i \in Ids(store.lines) /\ Editable(store, i)
    /\ store.lines[i].status = "sourcing" /\ store.lines[i].kind # "freeware"
    /\ \E target \in Targets(store, store.lines[i].request) :
        LET s == target[1]  o == target[2]  r == store.lines[i].request
            t == Attach(s, {i}, o)
            rest == {j \in LinesOf(t, r) : t.lines[j].status # "converted"}
            done == IF rest = {} THEN [t EXCEPT !.requests[r].status = "converted"] ELSE t
        IN store' = IF CurrencyFits(s, o, store.lines[i].currency)
                    THEN SyncOrderPoLines(done, o) ELSE s

RequestStatus(s, r) ==
    IF \E i \in LinesOf(s, r) : s.lines[i].status = "sourcing" THEN "sourcing" ELSE "converted"

(* convertSourcingRequestToOrder: the currency of every line is compared   *)
(* with the order as it is before any of them joins it.                    *)
OrderRequest(r) ==
    LET bought == {i \in LinesOf(store, r) :
            store.lines[i].status = "sourcing" /\ store.lines[i].kind # "freeware"}
    IN /\ r \in Ids(store.requests) /\ store.requests[r].status = "sourcing"
       /\ bought # {}
       /\ \E target \in Targets(store, r) :
            LET s == target[1]  o == target[2]
                t == Attach(s, bought, o)
                done == [t EXCEPT !.requests[r].status = RequestStatus(t, r)]
            IN store' = IF \A i \in bought : CurrencyFits(s, o, s.lines[i].currency)
                        THEN SyncOrderPoLines(done, o) ELSE s

CreateOrder ==
    /\ Made("orders") < MaxOrders
    /\ \E po \in PoNumbers, supplier \in Suppliers \cup {None} :
        store' = Push(store, "orders", [status |-> "pending", supplier |-> supplier,
                                        po |-> po, override |-> FALSE])

(* addPendingOrderItemsBulk with one line; the form has no freeware. *)
AddOrderLine(o) ==
    /\ o \in Ids(store.orders) /\ Open(store, o) /\ Made("lines") < MaxLines
    /\ \E currency \in Currencies, start \in Years \cup {Null} :
        /\ CurrencyFits(store, o, currency)
        /\ store' = SyncOrderPoLines(
               Push(store, "lines", [NewLine EXCEPT !.status = "converted", !.order = o,
                                     !.currency = currency, !.start = start]), o)

(* PUT of a line of an order: its term and its currency. *)
EditOrderLine(o, i) ==
    /\ o \in Ids(store.orders) /\ Open(store, o) /\ i \in OrderLines(store, o)
    /\ \E currency \in Currencies, start \in Years \cup {Null} :
        /\ CurrencyFits(store, o, currency)
        /\ store' = SyncOrderPoLines(
               [store EXCEPT !.lines[i].currency = currency, !.lines[i].start = start], o)

(* DELETE of a line of an order; the last one cancels the order. *)
DeleteOrderLine(o, i) ==
    /\ o \in Ids(store.orders) /\ Open(store, o) /\ i \in OrderLines(store, o)
    /\ LET s == [store EXCEPT !.lines = Drop(@, {i})]
           t == ClearRenewals(s, Predecessors(store.lines[i]))
           u == SyncOrderPoLines(t, o)
       IN store' = IF OrderLines(u, o) = {} THEN [u EXCEPT !.orders[o].status = "cancelled"]
                   ELSE u

(* cancelPendingOrderRecord *)
CancelOrder(o) ==
    /\ o \in Ids(store.orders) /\ Open(store, o)
    /\ LET mine == OrderLines(store, o)
           s == Close([store EXCEPT !.orders[o].status = "cancelled"], mine, "cancelled")
           t == ClearRenewals(s, UNION {Predecessors(store.lines[i]) : i \in mine})
       IN store' = SyncOrderPoLines(t, o)

(* PUT of an order: its status, its PO number, supplier, manual total. *)
EditOrder(o) ==
    /\ o \in Ids(store.orders) /\ Open(store, o)
    /\ \/ \E status \in {"pending", "invoice_received"} :
            store' = [store EXCEPT !.orders[o].status = status]
       \/ \E po \in PoNumbers :
            store' = SyncOrderPoLines([store EXCEPT !.orders[o].po = po], o)
       \/ \E supplier \in Suppliers :
            store' = [store EXCEPT !.orders[o].supplier = supplier]
       \/ \E on \in BOOLEAN :
            /\ on => Cardinality(LineCurrencies(store, o)) <= 1
            /\ store' = [store EXCEPT !.orders[o].override = on]

-----------------------------------------------------------------------------
(* Sourcing *)

(* POST of a request with one line, of the user's own. *)
CreateRequest ==
    /\ Made("lines") < MaxLines /\ Made("requests") < MaxRequests
    /\ \E kind \in {"term", "freeware"}, currency \in Currencies,
          start \in Years \cup {Null}, supplier \in Suppliers \cup {None} :
        store' = AddLineWithRequest(store,
            [NewLine EXCEPT !.kind = kind, !.currency = currency, !.start = start], supplier)

(* plannedEventKey *)
SameEvent(s, i, j) ==
    /\ s.lines[i].order = s.lines[j].order
    /\ s.lines[i].order = Null => s.lines[i].request = s.lines[j].request

(* setPlannedSuccessors: the chain is still one without cycles when the    *)
(* lines ps point to t.                                                    *)
RECURSIVE Leads(_, _, _)
Leads(s, i, j) == i # Null /\ (i = j \/ (i \in Ids(s.lines) /\ Leads(s, s.lines[i].succ, j)))

MayPrecede(s, ps, t) ==
    LET l == s.lines[t]
    IN /\ t \notin ps /\ l.for = Null /\ l.coterm = <<>> /\ l.kind # "freeware"
       /\ \A p \in ps :
            /\ s.lines[p].succ \in {Null, t}
            /\ SameEvent(s, p, t) /\ s.lines[p].kind # "freeware"
            /\ ~Leads(s, t, p)
            /\ s.lines[p].start # Null /\ l.start # Null => s.lines[p].start < l.start
       /\ IF l.order = Null
          THEN \A i \in ps \cup {t} : s.lines[i].status = "sourcing"
          ELSE l.order \in Ids(s.orders) /\ Open(s, l.order)

Point(s, ps, t) ==
    [s EXCEPT !.lines = [i \in DOMAIN @ |-> IF i \in ps THEN [@[i] EXCEPT !.succ = t] ELSE @[i]]]

(* POST of a line of a request, which may follow others; a link that is    *)
(* refused leaves the line without it.                                     *)
AddRequestLine(r) ==
    /\ r \in Ids(store.requests) /\ store.requests[r].status = "sourcing"
    /\ Made("lines") < MaxLines
    /\ \E kind \in {"term", "freeware"}, currency \in Currencies, start \in Years \cup {Null} :
       \E ps \in SUBSET {i \in LinesOf(store, r) : store.lines[i].status = "sourcing"} :
        LET id == NewId(store, "lines")
            s == Push(store, "lines", [NewLine EXCEPT !.request = r, !.kind = kind,
                                       !.currency = currency, !.start = start])
        IN store' = IF ps # {} /\ MayPrecede(s, ps, id) THEN Point(s, ps, id) ELSE s

(* replacePlannedPredecessors: what is no longer wanted is unlinked first. *)
PlanSuccessor(t) ==
    /\ t \in Ids(store.lines)
    /\ \E ps \in SUBSET {i \in Ids(store.lines) : SameEvent(store, i, t) /\ i # t} :
        LET removed == {i \in Ids(store.lines) : store.lines[i].succ = t} \ ps
            s == Point(store, removed, Null)
        IN /\ IF store.lines[t].order = Null THEN store.lines[t].status = "sourcing"
              ELSE store.lines[t].order \in Ids(store.orders) /\ Open(store, store.lines[t].order)
           /\ store' = IF ps # {} /\ MayPrecede(s, ps, t) THEN Point(s, ps, t) ELSE s

(* PUT of a sourcing line. *)
EditLine(i) ==
    /\ i \in Ids(store.lines) /\ store.lines[i].status = "sourcing" /\ Editable(store, i)
    /\ \E currency \in Currencies, start \in Years \cup {Null} :
        store' = [store EXCEPT !.lines[i].currency = currency, !.lines[i].start = start]

(* DELETE of a sourcing line: requireNoPlannedLinks. *)
DeleteLine(i) ==
    /\ i \in Ids(store.lines) /\ store.lines[i].status = "sourcing" /\ Editable(store, i)
    /\ store.lines[i].succ = Null /\ \A j \in Ids(store.lines) : store.lines[j].succ # i
    /\ store' = ClearRenewals([store EXCEPT !.lines = Drop(@, {i})], Predecessors(store.lines[i]))

(* PUT of a request's supplier. *)
EditRequest(r) ==
    /\ r \in Ids(store.requests) /\ store.requests[r].status = "sourcing"
    /\ \E supplier \in Suppliers \cup {None} :
        store' = [store EXCEPT !.requests[r].supplier = supplier]

CancelSourcing(r) ==
    /\ r \in Ids(store.requests) /\ store.requests[r].status = "sourcing"
    /\ store' = CancelRequest(store, r)

(* DELETE of a request and its lines. *)
DeleteRequest(r) ==
    LET mine == LinesOf(store, r)
        s == [store EXCEPT !.lines = Drop(@, mine), !.requests = Drop(@, {r})]
    IN /\ r \in Ids(store.requests)
       /\ \A i \in mine : store.lines[i].status # "converted"
       /\ store' = ClearRenewals(s, UNION {Predecessors(store.lines[i]) : i \in mine})

(* convertFreewareSourcingItems: each line becomes a license at once. *)
ConvertFreeware(r) ==
    LET mine == {i \in LinesOf(store, r) : store.lines[i].status = "sourcing"}
        One(acc, i) == Close(AddLicense(acc, [Blank EXCEPT !.kind = "freeware", !.end = Null,
                                 !.start = store.lines[i].start, !.source = i]), {i}, "converted")
    IN /\ r \in Ids(store.requests)
       /\ \E ids \in SUBSET mine :
            /\ ids = mine \/ Cardinality(ids) = 1
            /\ ids # {} /\ \A i \in ids : store.lines[i].kind = "freeware"
            /\ Made("licenses") + Cardinality(ids) <= MaxLicenses
            /\ LET s == FoldLeft(One, store, Ascending(ids))
               IN store' = IF RequestStatus(s, r) = "converted"
                           THEN [s EXCEPT !.requests[r].status = "converted"] ELSE s

(* mergeCotermSourcingItems: one line for the licenses the merged lines    *)
(* renew, ordered by term; of a line that was merged before only the first. *)
MergeLines ==
    /\ Made("lines") < MaxLines /\ Made("requests") < MaxRequests
    /\ \E ids \in {x \in SUBSET Ids(store.lines) : Cardinality(x) >= 2} :
        LET lines == {store.lines[i] : i \in ids}
            preds == [i \in ids |-> store.lines[i].for]
            Earlier(i, j) ==
                LET a == store.licenses[preds[i]].start  b == store.licenses[preds[j]].start
                IN a < b \/ (a = b /\ preds[i] < preds[j]) \/ (preds[i] = preds[j] /\ i < j)
            order == SetToSortSeq(ids, Earlier)
            coterm == [n \in DOMAIN order |-> preds[order[n]]]
            given == {store.requests[l.request].supplier : l \in lines}
            s == [store EXCEPT !.lines = Drop(@, ids)]
        IN /\ \A l \in lines : l.status = "sourcing" /\ l.for \in Ids(store.licenses)
           /\ \A l \in lines : LET p == store.licenses[l.for]
                               IN p.lifecycle # "renewed" /\ ~p.retired
           /\ Cardinality({store.licenses[l.for].end : l \in lines}) = 1
           /\ store' = AddLineWithRequest(s,
                [NewLine EXCEPT !.currency = store.lines[order[1]].currency,
                                !.for = coterm[1], !.coterm = coterm],
                IF Cardinality(given) = 1 THEN CHOOSE x \in given : TRUE ELSE None)

-----------------------------------------------------------------------------
(* Renewals *)

RenewalLine(s, id) == [NewLine EXCEPT !.currency = CHOOSE c \in Currencies : TRUE, !.for = id]
SetPending(s, ids) ==
    [s EXCEPT !.licenses = [id \in DOMAIN @ |->
        IF id \in ids THEN [@[id] EXCEPT !.lifecycle = "pending"] ELSE @[id]]]

StartRenewal(id) ==
    /\ id \in Ids(store.licenses) /\ CanInitiateRenewal(store, id)
    /\ Made("lines") < MaxLines /\ Made("requests") < MaxRequests
    /\ store' = AddLineWithRequest(SetPending(store, {id}), RenewalLine(store, id), None)

(* initiateRenewalBundleRecord: one request for licenses of one PO and end. *)
StartBundle ==
    \E ids \in {x \in SUBSET Ids(store.licenses) : Cardinality(x) >= 2} :
        LET r == NewId(store, "requests")
            s == Push(SetPending(store, ids), "requests",
                      [status |-> "sourcing", supplier |-> None])
            One(acc, id) == Push(acc, "lines", [RenewalLine(acc, id) EXCEPT !.request = r])
        IN /\ \A id \in ids : CanInitiateRenewal(store, id) /\ store.licenses[id].po # None
           /\ Cardinality({<<store.licenses[id].po, store.licenses[id].end>> : id \in ids}) = 1
           /\ Made("lines") + Cardinality(ids) <= MaxLines /\ Made("requests") < MaxRequests
           /\ store' = FoldLeft(One, s, Ascending(ids))

(* A renewal is cancelled with every request that still sources it, one    *)
(* after the other; a request that is closed stops the rest.               *)
CancelRenewal(id) ==
    LET mine == {i \in Ids(store.lines) :
                    store.lines[i].status = "sourcing" /\ id \in Predecessors(store.lines[i])}
        requests == Ascending({store.lines[i].request : i \in mine})
        One(acc, r) == IF acc.ok /\ acc.s.requests[r].status = "sourcing"
                       THEN [acc EXCEPT !.s = CancelRequest(acc.s, r)] ELSE [acc EXCEPT !.ok = FALSE]
        all == FoldLeft(One, [s |-> store, ok |-> TRUE], requests)
    IN /\ id \in Ids(store.licenses) /\ store.licenses[id].lifecycle = "pending"
       /\ store' = IF all.ok THEN [all.s EXCEPT !.licenses[id].lifecycle = "none"] ELSE all.s

-----------------------------------------------------------------------------
(* Conversion of an order into licenses.  A result is the store and whether *)
(* the handler is still running; after a throw the rest is skipped.         *)

Fail(acc) == [acc EXCEPT !.ok = FALSE]

(* The predecessors of a successor are marked one by one. *)
MarkAll(s, preds, successor) ==
    FoldLeft(LAMBDA acc, p :
                 IF acc.ok /\ ~Renewed(acc.s, p)
                 THEN [acc EXCEPT !.s = MarkRenewed(acc.s, p, successor)] ELSE Fail(acc),
             [s |-> s, ok |-> TRUE], preds)

(* createRenewalSuccessorFromSourcingItem *)
Succeed(s, i, data) ==
    LET l == s.lines[i]
        from == IF l.coterm # <<>> THEN l.coterm ELSE <<l.for>>
        preds == SelectSeq(from, LAMBDA p : p \in Ids(s.licenses))
        ref == IF from[1] \in Ids(s.licenses) THEN s.licenses[from[1]].ref ELSE Null
        t == AddLicense(s, [data EXCEPT !.from = from, !.ref = ref])
    IN IF l.for \notin Ids(s.licenses) \/ \E p \in Range(preds) : Renewed(s, p)
       THEN [s |-> s, ok |-> FALSE]
       ELSE MarkAll(t, preds, t.made.licenses)

(* applyPlannedSuccessorLinks: the licenses of chained lines become each    *)
(* other's successors, heads of a chain first.                              *)
LicenseOfLine(s, i) ==
    LET mine == {id \in Ids(s.licenses) : s.licenses[id].source = i}
    IN IF mine = {} THEN Null ELSE Min(mine)

Follow(acc, items, target) ==
    LET sources == {i \in items : acc.s.lines[i].succ = target}
        successor == LicenseOfLine(acc.s, target)
        found == {LicenseOfLine(acc.s, i) : i \in sources}
        Lic(p) == acc.s.licenses[p]
        ByTerm(p, q) == Lic(p).start < Lic(q).start \/ (Lic(p).start = Lic(q).start /\ p < q)
        preds == SetToSortSeq(found, ByTerm)
        fits(p) == /\ ~Renewed(acc.s, p)
                   /\ Lic(successor).end > Lic(p).end /\ Lic(successor).start > Lic(p).start
    IN IF ~acc.ok THEN acc
       ELSE IF Null \in found \cup {successor} \/ ~\A p \in found : fits(p) THEN Fail(acc)
       ELSE MarkAll([acc.s EXCEPT !.licenses[successor].from = preds,
                                  !.licenses[successor].ref = Lic(preds[1]).ref],
                    preds, successor)

RECURSIVE ApplyRounds(_, _, _)
ApplyRounds(acc, items, remaining) ==
    LET ready == {t \in remaining :
                    \A i \in items : acc.s.lines[i].succ = t => i \notin remaining}
    IN IF remaining = {} \/ ~acc.ok THEN acc
       ELSE IF ready = {} THEN Fail(acc)
       ELSE ApplyRounds(FoldLeft(LAMBDA a, t : Follow(a, items, t), acc, Ascending(ready)),
                        items, remaining \ ready)

ApplyPlannedLinks(acc, items) ==
    LET targets == {acc.s.lines[i].succ : i \in items} \ {Null}
    IN IF ~targets \subseteq items THEN Fail(acc) ELSE ApplyRounds(acc, items, targets)

(* What both conversions do after the licenses: the lines, the planned      *)
(* chains, then refreshOrderStatus and the PO line numbers.                 *)
Settle(acc, o, items) ==
    LET linked == ApplyPlannedLinks(acc, items)
        status == IF \A i \in items : linked.s.lines[i].status = "converted"
                  THEN "converted" ELSE "invoice_received"
    IN IF acc.ok /\ linked.ok
       THEN SyncOrderPoLines([linked.s EXCEPT !.orders[o].status = status], o)
       ELSE linked.s

(* One line becomes a license with the term and PO number of the form.      *)
ConvertLine(acc, i, o, start, po) ==
    LET data == [Blank EXCEPT !.start = start, !.end = start, !.po = po,
                              !.order = o, !.source = i]
    IN IF ~acc.ok THEN acc
       ELSE IF acc.s.lines[i].for # Null THEN Succeed(acc.s, i, data)
       ELSE [acc EXCEPT !.s = AddLicense(acc.s, data)]

(* convertPendingOrderToLicenses: an order of one line or none.  The term   *)
(* of the line wins over the form's.                                        *)
Convert(o) ==
    LET items == OrderLines(store, o)
    IN /\ o \in Ids(store.orders) /\ Open(store, o) /\ Made("licenses") < MaxLicenses
       /\ Cardinality(items) <= 1
       /\ \E start \in Years, po \in PoNumbers :
            store' = IF items = {}
              THEN [AddLicense(store, [Blank EXCEPT !.start = start, !.end = start,
                                                    !.po = po, !.order = o])
                    EXCEPT !.orders[o].status = "converted"]
              ELSE LET i == CHOOSE x \in items : TRUE
                       own == store.lines[i].start
                       term == IF own = Null THEN start ELSE own
                       made == ConvertLine([s |-> store, ok |-> TRUE], i, o, term, po)
                       all == IF made.ok THEN [made EXCEPT !.s = Close(made.s, items, "converted")]
                              ELSE made
                   IN Settle(all, o, items)

(* batchConvertPendingOrderToLicenses: the form has every line of the order *)
(* with a term of its own; the PO number is the order's.                    *)
BatchConvert(o) ==
    LET items == OrderLines(store, o)
    IN /\ o \in Ids(store.orders) /\ Open(store, o)
       /\ Cardinality(items) >= 2
       /\ Made("licenses") + Cardinality(items) <= MaxLicenses
       /\ \E start \in [items -> Years] :
            LET One(acc, i) ==
                    LET t == ConvertLine(acc, i, o, start[i], store.orders[o].po)
                    IN IF t.ok THEN [t EXCEPT !.s = Close(t.s, {i}, "converted")] ELSE t
            IN store' = Settle(FoldLeft(One, [s |-> store, ok |-> TRUE], Ascending(items)),
                               o, items)

-----------------------------------------------------------------------------
(* The license pages *)

CreateLicense ==
    /\ Made("licenses") < MaxLicenses
    /\ \E start \in Years, po \in PoNumbers \cup {None} :
        store' = AddLicense(store, [Blank EXCEPT !.start = start, !.end = start, !.po = po])

(* PUT or PATCH of a license; decorateLicense gives it a number on its PO. *)
EditPoNumber(id) ==
    /\ id \in Ids(store.licenses)
    /\ \E po \in PoNumbers \cup {None} :
        store' = SyncLicensePoLine([store EXCEPT !.licenses[id].po = po], id)

(* normalizeRetirementUpdate: before its end a license is only scheduled;   *)
(* a scheduled one follows its end.                                         *)
Retire(id) ==
    /\ id \in Ids(store.licenses)
    /\ \E on \in BOOLEAN :
        LET l == store.licenses[id]  later == on /\ l.end # Null
        IN store' = [store EXCEPT !.licenses[id].retired = on /\ ~later,
                                  !.licenses[id].scheduled = later]

EditEnd(id) ==
    /\ id \in Ids(store.licenses) /\ store.licenses[id].kind = "term"
    /\ \E end \in Years :
        store' = [store EXCEPT !.licenses[id].end = end]

(* DELETE: nothing else learns of it. *)
DeleteLicense(id) ==
    /\ id \in Ids(store.licenses)
    /\ store' = [store EXCEPT !.licenses = Drop(@, {id})]

-----------------------------------------------------------------------------
(* Two terms of this year on one purchase order are seeded. *)
Init ==
    LET po == CHOOSE p \in PoNumbers : TRUE
        empty == [licenses |-> <<>>, lines |-> <<>>, requests |-> <<>>, orders |-> <<>>,
                  register |-> <<>>,
                  made |-> [licenses |-> 0, lines |-> 0, requests |-> 0, orders |-> 0]]
        l == [Blank EXCEPT !.po = po]
    IN store = AddLicense(AddLicense(empty, l), l)

Next ==
    \/ \E id \in 1..MaxLicenses :
        \/ StartRenewal(id) \/ CancelRenewal(id) \/ EditPoNumber(id)
        \/ Retire(id) \/ EditEnd(id) \/ DeleteLicense(id)
    \/ \E i \in 1..MaxLines :
        OrderLine(i) \/ EditLine(i) \/ DeleteLine(i) \/ PlanSuccessor(i)
    \/ \E r \in 1..MaxRequests :
        \/ OrderRequest(r) \/ AddRequestLine(r) \/ EditRequest(r) \/ CancelSourcing(r)
        \/ DeleteRequest(r) \/ ConvertFreeware(r)
    \/ \E o \in 1..MaxOrders :
        \/ AddOrderLine(o) \/ CancelOrder(o) \/ EditOrder(o) \/ Convert(o) \/ BatchConvert(o)
        \/ \E i \in 1..MaxLines : EditOrderLine(o, i) \/ DeleteOrderLine(o, i)
    \/ StartBundle \/ MergeLines \/ CreateRequest \/ CreateOrder \/ CreateLicense

Spec == Init /\ [][Next]_store

-----------------------------------------------------------------------------
(* Properties *)

(* Every reference is to a record that was handed out, and every number is  *)
(* a row of the register.                                                   *)
TypeOK ==
    /\ \A id \in Ids(store.licenses) :
        LET l == store.licenses[id]
        IN /\ id <= Made("licenses") /\ l.to <= Made("licenses")
           /\ l.kind \in {"term", "freeware"}
           /\ l.lifecycle \in {"none", "pending", "renewed"}
           /\ l.po \in PoNumbers \cup {None} /\ l.row \in 0..Len(store.register)
    /\ \A i \in Ids(store.lines) :
        LET l == store.lines[i]
        IN /\ l.status \in {"sourcing", "converted", "cancelled"}
           /\ l.order \in 0..Made("orders") /\ l.request \in 0..Made("requests")
           /\ l.for \in 0..Made("licenses") /\ l.succ \in 0..Made("lines")
           /\ l.row \in 0..Len(store.register)
    /\ \A o \in Ids(store.orders) : store.orders[o].status \in
            {"pending", "invoice_received", "converted", "cancelled"}

(* Renewal links agree: of two licenses that both stand, one names the      *)
(* other as its successor exactly when that one names it as a predecessor,  *)
(* and no chain of successors returns to where it began.  Renewals, merges, *)
(* conversions that throw half way and planned chains all write them.       *)
RECURSIVE Reaches(_, _, _)
Reaches(s, id, n) ==
    IF id = Null \/ id \notin Ids(s.licenses) THEN {}
    ELSE {id} \cup (IF n = 0 THEN {} ELSE Reaches(s, s.licenses[id].to, n - 1))
RenewalLinksAgree ==
    \A p \in Ids(store.licenses) :
        /\ \A q \in Ids(store.licenses) :
            (store.licenses[p].to = q) <=> (p \in Range(store.licenses[q].from))
        /\ p \notin Reaches(store, store.licenses[p].to, MaxLicenses)

(* A PO line number is issued once: the register never repeats one, the     *)
(* live lines of an order hold numbers of the order's own PO, no two the    *)
(* same, and two licenses with one number came from the same line.          *)
PoLineNumbers ==
    /\ \A q, r \in 1..Len(store.register) : store.register[q] = store.register[r] => q = r
    /\ \A o \in Ids(store.orders) :
        \A i, j \in {k \in OrderLines(store, o) : store.lines[k].status # "cancelled"} :
            /\ store.lines[i].row # Null /\ RowPo(store, store.lines[i].row) = store.orders[o].po
            /\ store.lines[i].row = store.lines[j].row => i = j
    /\ \A p, q \in Ids(store.licenses) :
        store.licenses[p].row # Null /\ store.licenses[p].row = store.licenses[q].row
            => p = q \/ (store.licenses[p].source # Null
                         /\ store.licenses[p].source = store.licenses[q].source)

=============================================================================
