---------------------------- MODULE ClientRegistry ----------------------------
(***************************************************************************)
(* The table of licenses: filters, sorting, pages, grouping, lines edited  *)
(* in place, and lines ticked to be deleted together, while the list of    *)
(* licenses changes under it.                                              *)
(*                                                                         *)
(* A line has an owner and a supplier; both can be grouped by and edited,  *)
(* the owner can be filtered and sorted by.  0 is a blank.                 *)
(***************************************************************************)
EXTENDS Naturals, FiniteSets, Sequences

CONSTANTS
    Lines,            \* numbered as the server lists them
    Keys,             \* values of a column
    Gone,             \* a line that is not in the list
    PageSizes, VirtualThreshold,
    MaxSteps          \* bound: what users and the server do, answers apart

Columns == {"owner", "supplier"}
Groupings == {<<>>, <<"owner">>, <<"supplier">>, <<"owner", "supplier">>, <<"supplier", "owner">>}

VARIABLES
    lines,      \* the list of licenses
    filter,     \* the owners shown; all of them without a filter
    sort,       \* "none", "asc" or "desc", by owner
    groupBy, expanded,   \* columns grouped by; groups open
    currentPage, pageSize,
    ticked,     \* lines ticked to be deleted
    confirms,   \* whether the dialog about deleting them is open
    requests,   \* requests under way, two alike as one
    steps,      \* counter of the bound
    moved,      \* history: the lines moved since the first was ticked
    edited      \* history: the line last edited, not put elsewhere since, or Gone

tvars == <<lines, filter, sort, groupBy, expanded, currentPage, pageSize, ticked, confirms, requests,
           steps, moved, edited>>

Contents == [Columns -> Keys]

(* What the server writes for a name it knows another one for.              *)
Alias == 1

-----------------------------------------------------------------------------
(* What is on screen, for a list ls.                                        *)

Matching(ls, f) == {i \in Lines : ls[i] # Gone /\ ls[i].owner \in f}

(* Blanks come last in both directions; equal lines keep their order.       *)
Before(ls, s, i, j) ==
    LET a == ls[i].owner
        b == ls[j].owner
    IN IF s = "none" \/ a = b THEN i < j
       ELSE a # 0 /\ (b = 0 \/ IF s = "asc" THEN a < b ELSE a > b)

Position(i) ==
    Cardinality({j \in Matching(lines, filter) : Before(lines, sort, j, i)}) + 1

TotalPages(n, size) == IF n = 0 THEN 1 ELSE (n + size - 1) \div size

(* Many lines are scrolled rather than paged, and so are groups.            *)
UseVirtual == groupBy # <<>> \/ Cardinality(Matching(lines, filter)) > VirtualThreshold

PaginatedItems ==
    LET pages == TotalPages(Cardinality(Matching(lines, filter)), pageSize)
        page == IF currentPage > pages THEN pages ELSE currentPage
    IN {i \in Matching(lines, filter) :
            Position(i) \in ((page - 1) * pageSize + 1)..(page * pageSize)}

(* A group is the columns and values that lead to it.                       *)
Path(line, levels) == {[k \in 1..n |-> <<levels[k], line[levels[k]]>>] : n \in 1..Len(levels)}
Shown ==
    IF groupBy # <<>> THEN {i \in Matching(lines, filter) : Path(lines[i], groupBy) \subseteq expanded}
    ELSE IF UseVirtual THEN Matching(lines, filter) ELSE PaginatedItems
DisplayRows == IF UseVirtual THEN Matching(lines, filter) ELSE PaginatedItems

(* Saved views, the first the one of who saved none.                        *)
Views == {[filter |-> Keys, sort |-> "none", groupBy |-> <<>>],
          [filter |-> Keys, sort |-> "desc", groupBy |-> <<"owner">>],
          [filter |-> {2}, sort |-> "asc", groupBy |-> <<>>]}

(* The table opens on the default view.                                     *)
Init ==
    /\ lines = [i \in Lines |-> [owner |-> 1 + (i % 2), supplier |-> i % 3]]
    /\ \E v \in Views : filter = v.filter /\ sort = v.sort /\ groupBy = v.groupBy
    /\ expanded = {}
    /\ currentPage = 1 /\ pageSize = CHOOSE n \in PageSizes : \A m \in PageSizes : n <= m
    /\ ticked = {} /\ confirms = FALSE /\ requests = {} /\ steps = 0 /\ moved = FALSE /\ edited = Gone

-----------------------------------------------------------------------------
(* The effects of the page, run after every change: another filter or page  *)
(* size starts at the first page, a list that shrank shows its last one,    *)
(* and another view of the lines forgets which are ticked.                  *)

BadSettled(ls, f, page, size, refiltered, ticks, opens) ==
    LET pages == TotalPages(Cardinality(Matching(ls, f)), size)
        settled == IF refiltered THEN 1 ELSE IF page > pages THEN pages ELSE page
    IN /\ currentPage' = settled
       /\ ticked' = IF refiltered THEN {} ELSE ticks
       /\ confirms' = (opens /\ ~refiltered)

Settled(ls, f, page, size, refiltered, ticks, opens) ==
    LET pages == TotalPages(Cardinality(Matching(ls, f)), size)
        settled == IF refiltered THEN 1 ELSE IF page > pages THEN pages ELSE page
        another == refiltered \/ settled # currentPage
    IN /\ currentPage' = settled
       /\ ticked' = IF another THEN {} ELSE ticks
       /\ confirms' = (opens /\ ~another)

Moved == moved' = (ticked' # {})
StillMoved == moved' = (moved /\ ticked' # {})

(* What the user does, the dialog closed; turning pages, opening all groups *)
(* and the dialog itself are not counted.                                   *)
Acts == steps < MaxSteps /\ steps' = steps + 1 /\ ~confirms
Looks == steps' = steps /\ ~confirms

SetFilter(f) ==
    /\ Acts /\ f # filter /\ filter' = f
    /\ Settled(lines, f, currentPage, pageSize, TRUE, ticked, FALSE) /\ StillMoved
    /\ UNCHANGED <<lines, sort, groupBy, expanded, pageSize, requests, edited>>

SetPageSize(size) ==
    /\ Acts /\ ~UseVirtual /\ size # pageSize /\ pageSize' = size
    /\ Settled(lines, filter, 1, size, TRUE, ticked, FALSE) /\ StillMoved
    /\ UNCHANGED <<lines, filter, sort, groupBy, expanded, requests, edited>>

TurnPage(page) ==
    /\ Looks /\ ~UseVirtual
    /\ page \in {currentPage - 1, currentPage + 1}
    /\ page \in 1..TotalPages(Cardinality(Matching(lines, filter)), pageSize)
    /\ Settled(lines, filter, page, pageSize, FALSE, ticked, FALSE) /\ StillMoved
    /\ UNCHANGED <<lines, filter, sort, groupBy, expanded, pageSize, requests, edited>>

(* Sorting keeps the page, and the ticks.                                   *)
handleSortCol ==
    /\ Acts
    /\ sort' = IF sort = "none" THEN "asc" ELSE IF sort = "asc" THEN "desc" ELSE "none"
    /\ moved' = (ticked # {})
    /\ UNCHANGED <<lines, filter, groupBy, expanded, currentPage, pageSize, ticked, confirms, requests,
                   edited>>

setGroupBy(g) == groupBy' = g /\ expanded' = {} /\ edited' = Gone

(* Added, removed or swapped.                                               *)
Regroup(g) ==
    /\ Acts /\ g # groupBy
    /\ \/ Len(g) = Len(groupBy) + 1 /\ SubSeq(g, 1, Len(groupBy)) = groupBy
       \/ Len(g) = Len(groupBy) - 1
       \/ Len(g) = 2 /\ Len(groupBy) = 2
    /\ setGroupBy(g) /\ moved' = (ticked # {})
    /\ UNCHANGED <<lines, filter, sort, currentPage, pageSize, ticked, confirms, requests>>

Groups == UNION {Path(lines[i], groupBy) : i \in Matching(lines, filter)}

(* A group is on screen when those around it are open.                      *)
toggleGroup(id) ==
    /\ Acts /\ \A n \in 1..(Len(id) - 1) : SubSeq(id, 1, n) \in expanded
    /\ IF id \in expanded THEN expanded' = expanded \ {id} /\ edited' = Gone
       ELSE expanded' = expanded \union {id} /\ edited' = edited
    /\ UNCHANGED <<lines, filter, sort, groupBy, currentPage, pageSize, ticked, confirms, requests, moved>>

(* Opening all of them closes those the filter hides.                       *)
ToggleAllGroups ==
    /\ Looks /\ groupBy # <<>>
    /\ \/ expanded' = Groups /\ edited' = IF edited \in Matching(lines, filter) THEN edited ELSE Gone
       \/ expanded' = {} /\ edited' = Gone
    /\ expanded' # expanded
    /\ UNCHANGED <<lines, filter, sort, groupBy, currentPage, pageSize, ticked, confirms, requests, moved>>

Tick(i) ==
    /\ Acts /\ i \in Shown
    /\ ticked' = IF i \in ticked THEN ticked \ {i} ELSE ticked \union {i}
    /\ StillMoved
    /\ UNCHANGED <<lines, filter, sort, groupBy, expanded, currentPage, pageSize, confirms, requests,
                   edited>>

(* All of the page, or all the filter lets through.                         *)
TickAll ==
    /\ Acts /\ DisplayRows # {}
    /\ ticked' = IF DisplayRows \subseteq ticked THEN ticked \ DisplayRows
                 ELSE ticked \union DisplayRows
    /\ StillMoved
    /\ UNCHANGED <<lines, filter, sort, groupBy, expanded, currentPage, pageSize, confirms, requests,
                   edited>>

-----------------------------------------------------------------------------
(* Lines deleted together.                                                  *)

AskBulkDelete ==
    /\ Looks /\ ticked # {} /\ confirms' = TRUE
    /\ UNCHANGED <<lines, filter, sort, groupBy, expanded, currentPage, pageSize, ticked, requests, moved,
                   edited>>

CancelBulkDelete ==
    /\ confirms /\ confirms' = FALSE
    /\ UNCHANGED <<lines, filter, sort, groupBy, expanded, currentPage, pageSize, ticked, requests, steps,
                   moved, edited>>

handleBulkDelete ==
    /\ confirms /\ confirms' = FALSE
    /\ requests' = requests \union {[kind |-> "delete", ids |-> ticked]}
    /\ UNCHANGED <<lines, filter, sort, groupBy, expanded, currentPage, pageSize, ticked, steps, moved,
                   edited>>

(* The list became ls, for the reason of an answer or a read.               *)
Becomes(ls, ticks) ==
    /\ lines' = ls
    /\ Settled(ls, filter, currentPage, pageSize, FALSE, ticks, confirms)
    /\ IF ls = lines THEN StillMoved ELSE Moved

(* Ticks made while the request was under way go with the others.           *)
AnswerBulkDelete(p) ==
    /\ p.kind = "delete" /\ requests' = requests \ {p}
    /\ \/ /\ Becomes([i \in Lines |-> IF i \in p.ids THEN Gone ELSE lines[i]], {})
          /\ edited' = IF edited \in p.ids THEN Gone ELSE edited
       \/ UNCHANGED <<lines, currentPage, ticked, confirms, moved, edited>>
    /\ UNCHANGED <<filter, sort, groupBy, expanded, pageSize, steps>>

-----------------------------------------------------------------------------
(* Lines edited in place: shown at once, and the groups the line is in now  *)
(* are opened.                                                              *)

Edit(i, c, v) ==
    LET ls == [lines EXCEPT ![i] = [@ EXCEPT ![c] = v]]
    IN /\ Acts /\ i \in Shown /\ v # lines[i][c]
       /\ ~\E p \in requests : p.kind = "edit" /\ p.line = i /\ p.column = c
       /\ Becomes(ls, ticked)
       /\ IF groupBy # <<>> /\ i \in Matching(ls, filter)
          THEN expanded' = expanded \union Path(ls[i], groupBy) /\ edited' = i
          ELSE expanded' = expanded /\ edited' = Gone
       /\ requests' = requests \union
            {[kind |-> "edit", line |-> i, column |-> c, value |-> v, before |-> lines]}
    /\ UNCHANGED <<filter, sort, groupBy, pageSize>>

(* The server may have written what the value is an alias of; refused,      *)
(* the whole list is put back as it was before the edit.  A line its answer *)
(* puts elsewhere is not followed.                                          *)
AnswerEdit(p) ==
    /\ p.kind = "edit" /\ requests' = requests \ {p}
    /\ \/ /\ lines[p.line] # Gone
          /\ \E v \in {p.value, Alias} : Becomes([lines EXCEPT ![p.line] = [@ EXCEPT ![p.column] = v]], ticked)
       \/ Becomes(p.before, ticked)
    /\ edited' = IF edited # Gone /\ lines'[edited] # lines[edited] THEN Gone ELSE edited
    /\ UNCHANGED <<filter, sort, groupBy, expanded, pageSize, steps>>

(* The list is read again: one line came, went or changed.                  *)
Refetch(i) ==
    /\ steps < MaxSteps /\ steps' = steps + 1
    /\ \E r \in {Gone, [owner |-> 1, supplier |-> 2]} :
        r # lines[i] /\ Becomes([lines EXCEPT ![i] = r], ticked)
    /\ edited' = IF edited = i THEN Gone ELSE edited
    /\ UNCHANGED <<filter, sort, groupBy, expanded, pageSize, requests>>

-----------------------------------------------------------------------------
(* A view is loaded.  Filters set again, though equal, may count as others. *)

Apply(v) ==
    /\ filter' = v.filter /\ sort' = v.sort /\ setGroupBy(v.groupBy)
    /\ \E refiltered \in {TRUE, filter # v.filter} :
        Settled(lines, v.filter, currentPage, pageSize, refiltered, ticked, confirms)
    /\ Moved

handleLoadView(v) ==
    /\ Acts /\ ~\E p \in requests : p.kind = "view"
    /\ Apply(v)
    /\ requests' = requests \union {[kind |-> "view",
                        before |-> [filter |-> filter, sort |-> sort, groupBy |-> groupBy]]}
    /\ UNCHANGED <<lines, pageSize>>

(* Refused, the table goes back to what it was when the view was chosen.    *)
AnswerView(p) ==
    /\ p.kind = "view" /\ requests' = requests \ {p}
    /\ \/ UNCHANGED <<filter, sort, groupBy, expanded, currentPage, ticked, confirms, moved, edited>>
       \/ Apply(p.before)
    /\ UNCHANGED <<lines, pageSize, steps>>

Next ==
    \/ \E f \in {Keys, {0, 1}, {2}} : SetFilter(f)
    \/ \E n \in PageSizes : SetPageSize(n)
    \/ \E n \in 1..Cardinality(Lines) : TurnPage(n)
    \/ handleSortCol
    \/ \E g \in Groupings : Regroup(g)
    \/ \E id \in Groups : toggleGroup(id)
    \/ ToggleAllGroups \/ TickAll \/ AskBulkDelete \/ CancelBulkDelete \/ handleBulkDelete
    \/ \E i \in Lines : Tick(i) \/ Refetch(i) \/ \E c \in Columns, v \in Keys : Edit(i, c, v)
    \/ \E v \in Views : handleLoadView(v)
    \/ \E p \in requests : AnswerBulkDelete(p) \/ AnswerEdit(p) \/ AnswerView(p)

Spec == Init /\ [][Next]_tvars

-----------------------------------------------------------------------------
(* Properties.                                                              *)

TypeOK ==
    /\ lines \in [Lines -> Contents \union {Gone}] /\ filter \subseteq Keys
    /\ sort \in {"none", "asc", "desc"} /\ groupBy \in Groupings
    /\ currentPage \in 1..Cardinality(Lines) /\ pageSize \in PageSizes
    /\ ticked \subseteq Lines /\ confirms \in BOOLEAN /\ steps \in 0..MaxSteps /\ moved \in BOOLEAN
    /\ edited \in Lines \union {Gone}

(* A deletion the user confirms is of lines the table shows, or would show  *)
(* with its groups open: whatever filters, pages, page sizes and views came *)
(* in between, unless the lines themselves moved, by sorting, grouping, an  *)
(* edit or another list.                                                    *)
TickedLinesAreOnView == ~moved => ticked \subseteq DisplayRows

(* The page said is one there is, and the lines shown are those said.       *)
FooterTellsTheRange ==
    LET n == Cardinality(Matching(lines, filter))
        last == IF currentPage * pageSize < n THEN currentPage * pageSize ELSE n
    IN ~UseVirtual =>
          {Position(i) : i \in PaginatedItems} = ((currentPage - 1) * pageSize + 1)..last

(* A line edited into another group stays in sight until the user closes    *)
(* its group or it is put elsewhere.                                        *)
EditedLineIsShown == edited # Gone /\ edited \in Matching(lines, filter) => edited \in Shown

=============================================================================
