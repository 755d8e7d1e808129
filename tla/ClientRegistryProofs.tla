------------------------------ MODULE ClientRegistryProofs -----------------------------
(***************************************************************************)
(* The client's table of licenses, for any number of lines and pages; its  *)
(* reports, for any amounts, days and fiscal years; and the types of all   *)
(* its areas.                                                              *)
(*                                                                         *)
(* The table tells the truth because the page it is on is never beyond the *)
(* last one, and every change that could move a line off the view unticks  *)
(* it (TableInv).  That the figures of the reports agree is a statement    *)
(* about sums over one set of licenses: a sum counts units, those over     *)
(* zero and those under it (SumIsWorth), so sums over the parts of a set   *)
(* that is split are the sum over the set (WorthByKind).                   *)
(***************************************************************************)
EXTENDS ClientProofs, FiniteSetTheorems, WellFoundedInduction, TLAPS

-----------------------------------------------------------------------------
(* Numbers. *)

Less == {p \in Nat \X Nat : p[1] < p[2]}

(* A set of numbers has a least one.                                        *)
LEMMA LeastNumber ==
    ASSUME NEW N \in SUBSET Nat, N # {}
    PROVE  \E n \in N : \A m \in N : n <= m
<1>1. IsWellFoundedOn(Less, Nat)
  BY NatLessThanWellFounded DEF OpToRel, Less
<1>2. PICK n \in N : \A m \in N : <<m, n>> \notin Less
  BY <1>1, WFMin
<1>3. \A m \in N : ~ (m < n)
  BY <1>2 DEF Less
<1> QED
  BY <1>3

-----------------------------------------------------------------------------
(* The table of licenses. *)

Listings == [Lines -> T!Contents \union {Gone}]
TableViews == [filter : SUBSET Keys, sort : {"none", "asc", "desc"}, groupBy : T!Groupings]
TableRequests ==
    [kind : {"delete"}, ids : SUBSET Lines]
    \union [kind : {"edit"}, line : Lines, column : T!Columns, value : Keys, before : Listings]
    \union [kind : {"view"}, before : TableViews]

TableTypes ==
    /\ lines \in Listings /\ filter \in SUBSET Keys
    /\ sort \in {"none", "asc", "desc"} /\ groupBy \in T!Groupings
    /\ currentPage \in Nat \ {0} /\ pageSize \in PageSizes
    /\ ticked \in SUBSET Lines /\ confirms \in BOOLEAN /\ steps \in 0..MaxSteps /\ moved \in BOOLEAN
    /\ edited \in Lines \union {Gone}
    /\ patches \in SUBSET TableRequests

(* The page is one of those there are.                                      *)
PageIsThere ==
    currentPage <= T!TotalPages(Cardinality(T!Matching(lines, filter)), pageSize)

(* The groups around the line last edited are open.                         *)
EditedGroupIsOpen ==
    edited # Gone =>
        groupBy # <<>> /\ lines[edited] # Gone /\ T!Path(lines[edited], groupBy) \subseteq expanded

TableInv ==
    /\ TableTypes
    /\ PageIsThere
    /\ T!TickedLinesAreOnView
    /\ EditedGroupIsOpen

(* The table counts as everybody does.                                      *)
LEMMA TableCounts ==
    ASSUME NEW U
    PROVE  T!Cardinality(U) = Cardinality(U)
BY DEF T!Cardinality, Cardinality

(* Lines that match are lines, and as many as a number.                     *)
LEMMA MatchingLines ==
    ASSUME NEW ls, NEW f
    PROVE  /\ T!Matching(ls, f) \subseteq Lines
           /\ IsFiniteSet(T!Matching(ls, f))
           /\ Cardinality(T!Matching(ls, f)) \in Nat
           /\ Cardinality(T!Matching(ls, f)) <= Cardinality(Lines)
           /\ Cardinality(Lines) \in Nat \ {0}
<1>1. T!Matching(ls, f) \in SUBSET Lines
  BY DEF T!Matching
<1> QED
  BY <1>1, RegistryAssumption, FS_Subset, FS_CardinalityType, FS_EmptySet

(* There is a page, and each but the last is full.                          *)
LEMMA Pages ==
    ASSUME NEW n \in Nat, NEW size \in Nat \ {0}
    PROVE  /\ T!TotalPages(n, size) \in Nat \ {0}
           /\ n > 0 => T!TotalPages(n, size) <= n
           /\ n > 0 => (T!TotalPages(n, size) - 1) * size < n
           /\ n <= T!TotalPages(n, size) * size
<1>1. CASE n = 0
  BY <1>1 DEF T!TotalPages
<1>2. CASE n > 0
  <2> DEFINE q == (n + size - 1) \div size
  <2>1. q \in Int /\ q * size <= n + size - 1 /\ n + size - 1 < (q + 1) * size
    OBVIOUS
  <2> HIDE DEF q
  <2>2. q > 0
    BY <1>2, <2>1
  <2>3. q <= n
    BY <1>2, <2>1, <2>2
  <2> QED
    BY <1>2, <2>1, <2>2, <2>3 DEF T!TotalPages, q
<1> QED
  BY <1>1, <1>2

(* After every change the page is one there is.                             *)
LEMMA SettledPage ==
    ASSUME NEW ls, NEW f, NEW n \in Nat \ {0}, NEW size \in PageSizes,
           NEW refiltered, NEW ticks, NEW asks,
           T!Settled(ls, f, n, size, refiltered, ticks, asks)
    PROVE  /\ currentPage' \in Nat \ {0}
           /\ currentPage' <= T!TotalPages(Cardinality(T!Matching(ls, f)), size)
           /\ confirms' \in BOOLEAN
           /\ ticked' = {} \/ (currentPage' = currentPage /\ ticked' = ticks)
<1> DEFINE total == T!TotalPages(Cardinality(T!Matching(ls, f)), size)
           settled == IF refiltered THEN 1 ELSE IF n > total THEN total ELSE n
<1>1. total \in Nat \ {0}
  BY RegistryAssumption, MatchingLines, Pages
<1>2. /\ currentPage' = settled
      /\ ticked' = IF refiltered \/ settled # currentPage THEN {} ELSE ticks
      /\ confirms' = (asks /\ ~(refiltered \/ settled # currentPage))
  BY TableCounts, Zenon DEF T!Settled
<1> HIDE DEF total
<1>3. settled \in Nat \ {0} /\ settled <= total
  BY <1>1
<1> HIDE DEF settled
<1>4. confirms' \in BOOLEAN /\ (ticked' = {} \/ (settled = currentPage /\ ticked' = ticks))
  BY <1>2, Zenon
<1> QED
  BY <1>2, <1>3, <1>4, Zenon DEF total

(* Another list of licenses.                                                *)
LEMMA AnotherList ==
    ASSUME TableInv, NEW ls \in Listings, NEW ticks \in {{}, ticked}, T!Becomes(ls, ticks),
           UNCHANGED <<filter, sort, groupBy, pageSize>>
    PROVE  /\ lines' \in Listings /\ currentPage' \in Nat \ {0}
           /\ ticked' \in SUBSET Lines /\ confirms' \in BOOLEAN /\ moved' \in BOOLEAN
           /\ PageIsThere'
           /\ T!TickedLinesAreOnView'
<1>1. T!Settled(ls, filter, currentPage, pageSize, FALSE, ticks, confirms) /\ lines' = ls
  BY DEF T!Becomes
<1>2. /\ currentPage' \in Nat \ {0} /\ confirms' \in BOOLEAN
      /\ currentPage' <= T!TotalPages(Cardinality(T!Matching(ls, filter)), pageSize)
      /\ ticked' = {} \/ (currentPage' = currentPage /\ ticked' = ticks)
  <2>1. currentPage \in Nat \ {0} /\ pageSize \in PageSizes
    BY DEF TableInv, TableTypes
  <2> QED
    BY <1>1, <2>1, SettledPage, Zenon
<1>3. PageIsThere'
  BY <1>1, <1>2 DEF PageIsThere, T!Matching
<1>4. moved' \in BOOLEAN /\ (~moved' => ticked' = {} \/ (~moved /\ ls = lines))
  BY Zenon DEF T!Becomes, T!Moved, T!StillMoved
<1>5. T!TickedLinesAreOnView'
  <2> SUFFICES ASSUME ~moved', ticked' # {}
               PROVE  ticked' \subseteq T!DisplayRows'
    BY DEF T!TickedLinesAreOnView
  <2>1. ~moved /\ lines' = lines /\ currentPage' = currentPage /\ ticked' = ticked
    BY <1>1, <1>2, <1>4
  <2>2. T!DisplayRows' = T!DisplayRows
    BY <2>1 DEF T!DisplayRows, T!UseVirtual, T!PaginatedItems, T!Matching, T!Position, T!Before
  <2> QED
    BY <2>1, <2>2 DEF TableInv, T!TickedLinesAreOnView
<1> QED
  BY <1>1, <1>2, <1>3, <1>4, <1>5 DEF TableInv, TableTypes

(* A view is put on the table: no tick is left on a line that is not in it. *)
LEMMA AnotherView ==
    ASSUME TableInv, NEW v \in TableViews, T!Apply(v), UNCHANGED <<lines, pageSize>>
    PROVE  /\ filter' \in SUBSET Keys /\ sort' \in {"none", "asc", "desc"} /\ groupBy' \in T!Groupings
           /\ currentPage' \in Nat \ {0} /\ edited' = Gone
           /\ ticked' \in SUBSET Lines /\ confirms' \in BOOLEAN /\ moved' \in BOOLEAN
           /\ PageIsThere'
           /\ T!TickedLinesAreOnView'
<1>1. PICK refiltered \in {TRUE, filter # v.filter} :
         T!Settled(lines, v.filter, currentPage, pageSize, refiltered, ticked, confirms)
  BY DEF T!Apply
<1>2. /\ currentPage' \in Nat \ {0} /\ ticked' \in {{}, ticked} /\ confirms' \in BOOLEAN
      /\ currentPage' <= T!TotalPages(Cardinality(T!Matching(lines, v.filter)), pageSize)
  <2>1. currentPage \in Nat \ {0} /\ pageSize \in PageSizes
    BY DEF TableInv, TableTypes
  <2> QED
    BY <1>1, <2>1, SettledPage, Zenon
<1>3. filter' = v.filter /\ sort' = v.sort /\ groupBy' = v.groupBy /\ edited' = Gone
  BY DEF T!Apply, T!setGroupBy
<1>4. PageIsThere'
  BY <1>2, <1>3 DEF PageIsThere, T!Matching
<1>5. moved' \in BOOLEAN /\ (~moved' => ticked' = {})
  BY Zenon DEF T!Apply, T!Moved
<1> QED
  BY <1>2, <1>3, <1>4, <1>5 DEF TableInv, TableTypes, TableViews, T!TickedLinesAreOnView

(* A step that turns no page and moves no line shows the same lines.        *)
LEMMA SameLines ==
    ASSUME TableInv, UNCHANGED <<lines, filter, sort, groupBy, currentPage, pageSize>>
    PROVE  /\ T!DisplayRows' = T!DisplayRows
           /\ PageIsThere'
           /\ ~moved /\ ticked' \subseteq ticked => T!TickedLinesAreOnView'
<1>1. T!DisplayRows' = T!DisplayRows
  BY DEF T!DisplayRows, T!UseVirtual, T!PaginatedItems, T!Matching, T!Position, T!Before
<1>2. PageIsThere'
  BY DEF TableInv, PageIsThere, T!Matching
<1> QED
  BY <1>1, <1>2 DEF TableInv, T!TickedLinesAreOnView

LEMMA ShownAreListed ==
    /\ T!Shown \subseteq T!DisplayRows
    /\ T!DisplayRows \subseteq T!Matching(lines, filter)
    /\ T!Matching(lines, filter) \subseteq Lines
    /\ \A i \in T!Matching(lines, filter) : lines[i] # Gone
<1>1. /\ T!PaginatedItems \subseteq T!Matching(lines, filter)
      /\ T!DisplayRows \subseteq T!Matching(lines, filter)
  BY DEF T!PaginatedItems, T!DisplayRows
<1>2. T!Shown \subseteq T!DisplayRows
  BY DEF T!Shown, T!DisplayRows, T!UseVirtual
<1> QED
  BY <1>1, <1>2 DEF T!Matching

(* Views that are saved.                                                    *)
LEMMA SavedViews ==
    /\ T!Views \subseteq TableViews
    /\ <<>> \in T!Groupings
    /\ T!Alias \in Keys
BY RegistryAssumption DEF T!Views, TableViews, T!Groupings, T!Alias

LEMMA TableStart == T!Init => TableInv
<1> SUFFICES ASSUME T!Init
             PROVE  TableInv
  OBVIOUS
<1>1. pageSize \in PageSizes
  <2>1. \E n \in PageSizes : \A m \in PageSizes : n <= m
    BY RegistryAssumption, LeastNumber
  <2> QED
    BY <2>1 DEF T!Init
<1>2. lines \in Listings
  <2>1. \A i \in Lines : [owner |-> 1 + (i % 2), supplier |-> i % 3] \in T!Contents
    <3> SUFFICES ASSUME NEW i \in Lines
                 PROVE  [owner |-> 1 + (i % 2), supplier |-> i % 3] \in T!Contents
      OBVIOUS
    <3>1. 1 + (i % 2) \in {1, 2} /\ i % 3 \in {0, 1, 2}
      BY RegistryAssumption
    <3> QED
      BY <3>1, RegistryAssumption DEF T!Contents, T!Columns
  <2> QED
    BY <2>1 DEF T!Init, Listings
<1>3. PICK v \in T!Views : filter = v.filter /\ sort = v.sort /\ groupBy = v.groupBy
  BY DEF T!Init
<1>4. filter \in SUBSET Keys /\ sort \in {"none", "asc", "desc"} /\ groupBy \in T!Groupings
  BY <1>3, SavedViews DEF TableViews
<1>5. TableTypes
  <2>1. confirms = FALSE /\ moved = FALSE /\ currentPage = 1 /\ steps = 0
        /\ ticked = {} /\ edited = Gone /\ patches = {}
    BY DEF T!Init
  <2>2. steps \in 0..MaxSteps /\ currentPage \in Nat \ {0} /\ edited \in Lines \union {Gone}
    BY <2>1, RegistryAssumption
  <2> QED
    BY <1>1, <1>2, <1>4, <2>1, <2>2 DEF TableTypes
<1>6. PageIsThere
  <2>1. T!TotalPages(Cardinality(T!Matching(lines, filter)), pageSize) \in Nat \ {0}
    BY <1>1, MatchingLines, Pages, RegistryAssumption
  <2> QED
    BY <2>1 DEF PageIsThere, T!Init
<1> QED
  BY <1>5, <1>6 DEF TableInv, T!TickedLinesAreOnView, EditedGroupIsOpen, T!Init

(* What the user does is counted.                                           *)
LEMMA ActsAreCounted ==
    ASSUME TableTypes, steps < MaxSteps, steps' = steps + 1
    PROVE  steps' \in 0..MaxSteps
BY RegistryAssumption DEF TableTypes

LEMMA TableStep ==
    ASSUME TableInv, T!Next
    PROVE  TableInv'
<1>0. TableTypes /\ PageIsThere /\ T!TickedLinesAreOnView /\ EditedGroupIsOpen
  BY DEF TableInv
<1>1. ASSUME NEW f \in {Keys, {0, 1}, {2}}, T!SetFilter(f)
      PROVE  TableInv'
  <2>1. T!Settled(lines, f, currentPage, pageSize, TRUE, ticked, FALSE)
    BY <1>1 DEF T!SetFilter
  <2>2. /\ UNCHANGED <<lines, sort, groupBy, expanded, pageSize, patches, edited>>
        /\ filter' = f /\ steps' \in 0..MaxSteps
    BY <1>0, <1>1, ActsAreCounted DEF T!SetFilter, T!Acts
  <2>3. ticked' = {}
    BY <2>1, Zenon DEF T!Settled
  <2>4. moved' = FALSE
    BY <1>1, <2>3, Zenon DEF T!SetFilter, T!StillMoved
  <2>5. /\ currentPage' \in Nat \ {0} /\ confirms' \in BOOLEAN
        /\ currentPage' <= T!TotalPages(Cardinality(T!Matching(lines, f)), pageSize)
    <3>1. currentPage \in Nat \ {0} /\ pageSize \in PageSizes
      BY <1>0 DEF TableTypes
    <3> QED
      BY <2>1, <3>1, SettledPage, Zenon
  <2>6. TableTypes'
    BY <1>0, <2>2, <2>3, <2>4, <2>5, RegistryAssumption DEF TableTypes
  <2>7. PageIsThere'
    BY <2>2, <2>5 DEF PageIsThere, T!Matching
  <2>8. T!TickedLinesAreOnView'
    BY <2>3 DEF T!TickedLinesAreOnView
  <2>9. EditedGroupIsOpen'
    BY <1>0, <2>2 DEF EditedGroupIsOpen, T!Path
  <2> QED
    BY <2>6, <2>7, <2>8, <2>9 DEF TableInv
<1>2. ASSUME NEW size \in PageSizes, T!SetPageSize(size)
      PROVE  TableInv'
  <2>1. T!Settled(lines, filter, 1, size, TRUE, ticked, FALSE)
    BY <1>2 DEF T!SetPageSize
  <2>2. /\ UNCHANGED <<lines, filter, sort, groupBy, expanded, patches, edited>>
        /\ pageSize' = size /\ steps' \in 0..MaxSteps
    BY <1>0, <1>2, ActsAreCounted DEF T!SetPageSize, T!Acts
  <2>3. ticked' = {}
    BY <2>1, Zenon DEF T!Settled
  <2>4. moved' = FALSE
    BY <1>2, <2>3, Zenon DEF T!SetPageSize, T!StillMoved
  <2>5. /\ currentPage' \in Nat \ {0} /\ confirms' \in BOOLEAN
        /\ currentPage' <= T!TotalPages(Cardinality(T!Matching(lines, filter)), size)
    <3>1. 1 \in Nat \ {0}
      OBVIOUS
    <3> QED
      BY <2>1, <3>1, SettledPage, Zenon
  <2>6. TableTypes'
    BY <1>0, <2>2, <2>3, <2>4, <2>5, RegistryAssumption DEF TableTypes
  <2>7. PageIsThere'
    BY <2>2, <2>5 DEF PageIsThere, T!Matching
  <2>8. T!TickedLinesAreOnView'
    BY <2>3 DEF T!TickedLinesAreOnView
  <2>9. EditedGroupIsOpen'
    BY <1>0, <2>2 DEF EditedGroupIsOpen, T!Path
  <2> QED
    BY <2>6, <2>7, <2>8, <2>9 DEF TableInv
<1>3. ASSUME NEW n \in Nat \ {0}, T!TurnPage(n)
      PROVE  TableInv'
  <2>1. T!Settled(lines, filter, n, pageSize, FALSE, ticked, FALSE)
    BY <1>3 DEF T!TurnPage
  <2>2. /\ UNCHANGED <<lines, filter, sort, groupBy, expanded, pageSize, patches, edited, steps>>
        /\ n # currentPage /\ n <= T!TotalPages(Cardinality(T!Matching(lines, filter)), pageSize)
    <3>1. n \in {currentPage - 1, currentPage + 1} /\ currentPage \in Nat
      BY <1>0, <1>3 DEF T!TurnPage, TableTypes
    <3>2. n \in 1..T!TotalPages(Cardinality(T!Matching(lines, filter)), pageSize)
      BY <1>3, TableCounts DEF T!TurnPage
    <3>3. UNCHANGED <<lines, filter, sort, groupBy, expanded, pageSize, patches, edited, steps>>
      BY <1>3 DEF T!TurnPage, T!Looks
    <3> QED
      BY <3>1, <3>2, <3>3
  <2>3. ticked' = {}
    <3>1. T!TotalPages(Cardinality(T!Matching(lines, filter)), pageSize) \in Nat
      BY <1>0, RegistryAssumption, MatchingLines, Pages DEF TableTypes
    <3>2. ~(n > T!TotalPages(Cardinality(T!Matching(lines, filter)), pageSize))
      BY <2>2, <3>1
    <3> QED
      BY <2>1, <2>2, <3>2, TableCounts, Zenon DEF T!Settled
  <2>4. moved' = FALSE
    BY <1>3, <2>3, Zenon DEF T!TurnPage, T!StillMoved
  <2>5. /\ currentPage' \in Nat \ {0} /\ confirms' \in BOOLEAN
        /\ currentPage' <= T!TotalPages(Cardinality(T!Matching(lines, filter)), pageSize)
    <3>1. pageSize \in PageSizes
      BY <1>0 DEF TableTypes
    <3> QED
      BY <2>1, <3>1, SettledPage, Zenon
  <2>6. TableTypes'
    BY <1>0, <2>2, <2>3, <2>4, <2>5, RegistryAssumption DEF TableTypes
  <2>7. PageIsThere'
    BY <2>2, <2>5 DEF PageIsThere, T!Matching
  <2>8. T!TickedLinesAreOnView'
    BY <2>3 DEF T!TickedLinesAreOnView
  <2>9. EditedGroupIsOpen'
    BY <1>0, <2>2 DEF EditedGroupIsOpen, T!Path
  <2> QED
    BY <2>6, <2>7, <2>8, <2>9 DEF TableInv
<1>4. ASSUME T!handleSortCol
      PROVE  TableInv'
  <2>1. /\ UNCHANGED <<lines, filter, groupBy, expanded, currentPage, pageSize, ticked, confirms, patches,
                        edited>>
        /\ sort' \in {"none", "asc", "desc"} /\ steps' \in 0..MaxSteps
    BY <1>0, <1>4, ActsAreCounted DEF T!handleSortCol, T!Acts
  <2>2. moved' \in BOOLEAN /\ (~moved' => ticked' = {})
    BY <1>4, Zenon DEF T!handleSortCol
  <2>3. TableTypes'
    BY <1>0, <2>1, <2>2 DEF TableTypes
  <2>4. PageIsThere' /\ T!TickedLinesAreOnView' /\ EditedGroupIsOpen'
    BY <1>0, <2>1, <2>2 DEF PageIsThere, T!Matching, T!TickedLinesAreOnView, EditedGroupIsOpen, T!Path
  <2> QED
    BY <2>3, <2>4 DEF TableInv
<1>5. ASSUME NEW g \in T!Groupings, T!Regroup(g)
      PROVE  TableInv'
  <2>1. /\ UNCHANGED <<lines, filter, sort, currentPage, pageSize, ticked, confirms, patches>>
        /\ groupBy' = g /\ edited' = Gone /\ steps' \in 0..MaxSteps
    BY <1>0, <1>5, ActsAreCounted DEF T!Regroup, T!Acts, T!setGroupBy
  <2>2. moved' \in BOOLEAN /\ (~moved' => ticked' = {})
    BY <1>5, Zenon DEF T!Regroup
  <2>3. TableTypes'
    BY <1>0, <2>1, <2>2 DEF TableTypes
  <2>4. PageIsThere' /\ T!TickedLinesAreOnView' /\ EditedGroupIsOpen'
    BY <1>0, <2>1, <2>2 DEF PageIsThere, T!Matching, T!TickedLinesAreOnView, EditedGroupIsOpen
  <2> QED
    BY <2>3, <2>4 DEF TableInv
<1>6. ASSUME NEW id \in T!Groups, T!toggleGroup(id)
      PROVE  TableInv'
  <2>1. /\ UNCHANGED <<lines, filter, sort, groupBy, currentPage, pageSize, ticked, confirms, patches, moved>>
        /\ edited' = Gone \/ (edited' = edited /\ expanded \subseteq expanded')
        /\ steps' \in 0..MaxSteps
    BY <1>0, <1>6, ActsAreCounted DEF T!toggleGroup, T!Acts
  <2>2. TableTypes'
    BY <1>0, <2>1 DEF TableTypes
  <2>3. PageIsThere' /\ T!TickedLinesAreOnView'
    BY <1>0, <2>1, SameLines DEF T!TickedLinesAreOnView
  <2>4. EditedGroupIsOpen'
    BY <1>0, <2>1 DEF EditedGroupIsOpen, T!Path
  <2> QED
    BY <2>2, <2>3, <2>4 DEF TableInv
<1>7. ASSUME T!ToggleAllGroups
      PROVE  TableInv'
  <2>1. /\ UNCHANGED <<lines, filter, sort, groupBy, currentPage, pageSize, ticked, confirms, patches, moved,
                        steps>>
        /\ \/ edited' = Gone
           \/ edited' = edited /\ edited \in T!Matching(lines, filter) /\ expanded' = T!Groups
    BY <1>7 DEF T!ToggleAllGroups, T!Looks
  <2>2. TableTypes'
    BY <1>0, <2>1 DEF TableTypes
  <2>3. PageIsThere' /\ T!TickedLinesAreOnView'
    BY <1>0, <2>1, SameLines DEF T!TickedLinesAreOnView
  <2>4. EditedGroupIsOpen'
    BY <1>0, <2>1 DEF EditedGroupIsOpen, T!Path, T!Groups
  <2> QED
    BY <2>2, <2>3, <2>4 DEF TableInv
<1>8. ASSUME T!TickAll \/ \E i \in Lines : T!Tick(i)
      PROVE  TableInv'
  <2>1. /\ UNCHANGED <<lines, filter, sort, groupBy, expanded, currentPage, pageSize, confirms, patches, edited>>
        /\ ticked' \subseteq ticked \union T!DisplayRows /\ steps' \in 0..MaxSteps
    BY <1>0, <1>8, ActsAreCounted, ShownAreListed DEF T!TickAll, T!Tick, T!Acts
  <2>2. moved' \in BOOLEAN /\ (~moved' => ~moved \/ ticked' = {})
    BY <1>8, Zenon DEF T!TickAll, T!Tick, T!StillMoved
  <2>3. TableTypes'
    BY <1>0, <2>1, <2>2, ShownAreListed DEF TableTypes
  <2>4. PageIsThere' /\ T!DisplayRows' = T!DisplayRows
    BY <1>0, <2>1, SameLines DEF TableInv
  <2>5. T!TickedLinesAreOnView'
    BY <1>0, <2>1, <2>2, <2>4 DEF T!TickedLinesAreOnView
  <2>6. EditedGroupIsOpen'
    BY <1>0, <2>1 DEF EditedGroupIsOpen, T!Path
  <2> QED
    BY <2>3, <2>4, <2>5, <2>6 DEF TableInv
<1>9. ASSUME T!AskBulkDelete \/ T!CancelBulkDelete \/ T!handleBulkDelete
      PROVE  TableInv'
  <2>1. /\ UNCHANGED <<lines, filter, sort, groupBy, expanded, currentPage, pageSize, ticked, moved, edited,
                        steps>>
        /\ patches' \subseteq patches \union {[kind |-> "delete", ids |-> ticked]}
    BY <1>9 DEF T!AskBulkDelete, T!CancelBulkDelete, T!handleBulkDelete, T!Looks
  <2>2. confirms' \in BOOLEAN
    BY <1>9, Zenon DEF T!AskBulkDelete, T!CancelBulkDelete, T!handleBulkDelete
  <2>3. [kind |-> "delete", ids |-> ticked] \in TableRequests
    BY <1>0 DEF TableTypes, TableRequests
  <2>4. TableTypes'
    BY <1>0, <2>1, <2>2, <2>3 DEF TableTypes
  <2>5. PageIsThere' /\ T!TickedLinesAreOnView'
    BY <1>0, <2>1, SameLines DEF T!TickedLinesAreOnView
  <2>6. EditedGroupIsOpen'
    BY <1>0, <2>1 DEF EditedGroupIsOpen, T!Path
  <2> QED
    BY <2>4, <2>5, <2>6 DEF TableInv
<1>10. ASSUME NEW i \in Lines, NEW c \in T!Columns, NEW v \in Keys, T!Edit(i, c, v)
       PROVE  TableInv'
  <2> DEFINE ls == [lines EXCEPT ![i] = [@ EXCEPT ![c] = v]]
             p == [kind |-> "edit", line |-> i, column |-> c, value |-> v, before |-> lines]
  <2>1. lines \in Listings /\ lines[i] \in T!Contents
    BY <1>0, <1>10, ShownAreListed DEF T!Edit, TableTypes, Listings
  <2>2. ls \in Listings /\ p \in TableRequests
    <3>1. [lines[i] EXCEPT ![c] = v] \in T!Contents
      BY <2>1 DEF T!Contents
    <3> QED
      BY <2>1, <3>1 DEF Listings, TableRequests
  <2>3. /\ T!Becomes(ls, ticked) /\ UNCHANGED <<filter, sort, groupBy, pageSize>>
        /\ steps' \in 0..MaxSteps /\ patches' = patches \union {p} /\ lines' = ls
    BY <1>0, <1>10, ActsAreCounted DEF T!Edit, T!Acts, T!Becomes
  <2>4. \/ /\ groupBy # <<>> /\ edited' = i
           /\ T!Path(ls[i], groupBy) \subseteq expanded'
        \/ edited' = Gone
    BY <1>10 DEF T!Edit
  <2>5. /\ currentPage' \in Nat \ {0} /\ ticked' \in SUBSET Lines
        /\ confirms' \in BOOLEAN /\ moved' \in BOOLEAN
        /\ PageIsThere' /\ T!TickedLinesAreOnView'
    <3> HIDE DEF ls
    <3> QED
      BY <2>2, <2>3, AnotherList
  <2>6. TableTypes'
    <3> HIDE DEF ls, p
    <3> QED
      BY <1>0, <2>2, <2>3, <2>4, <2>5 DEF TableTypes
  <2>7. EditedGroupIsOpen'
    <3>1. ls[i] \in T!Contents /\ ls[i] # Gone
      BY <2>1, RegistryAssumption DEF Listings, T!Contents
    <3> HIDE DEF ls
    <3> QED
      BY <2>3, <2>4, <3>1 DEF EditedGroupIsOpen, T!Path
  <2> QED
    BY <2>5, <2>6, <2>7 DEF TableInv
<1>11. ASSUME NEW i \in Lines, T!Refetch(i)
       PROVE  TableInv'
  <2>1. PICK r \in {Gone, [owner |-> 1, supplier |-> 2]} :
            T!Becomes([lines EXCEPT ![i] = r], ticked)
    BY <1>11 DEF T!Refetch
  <2> DEFINE ls == [lines EXCEPT ![i] = r]
  <2>2. lines \in Listings /\ ls \in Listings
    <3>1. [owner |-> 1, supplier |-> 2] \in T!Contents
      BY RegistryAssumption DEF T!Contents, T!Columns
    <3> QED
      BY <1>0, <3>1 DEF TableTypes, Listings
  <2>3. /\ UNCHANGED <<filter, sort, groupBy, expanded, pageSize, patches>>
        /\ steps' \in 0..MaxSteps /\ lines' = ls
        /\ edited' = IF edited = i THEN Gone ELSE edited
    BY <1>0, <1>11, <2>1, ActsAreCounted DEF T!Refetch, T!Becomes
  <2>4. EditedGroupIsOpen'
    BY <1>0, <2>2, <2>3, RegistryAssumption DEF EditedGroupIsOpen, T!Path, Listings, TableTypes
  <2> HIDE DEF ls
  <2>5. /\ currentPage' \in Nat \ {0} /\ ticked' \in SUBSET Lines
        /\ confirms' \in BOOLEAN /\ moved' \in BOOLEAN
        /\ PageIsThere' /\ T!TickedLinesAreOnView'
    BY <2>1, <2>2, <2>3, AnotherList DEF ls
  <2>6. TableTypes'
    BY <1>0, <2>2, <2>3, <2>5 DEF TableTypes
  <2> QED
    BY <2>4, <2>5, <2>6 DEF TableInv
<1>12. ASSUME NEW p \in patches, T!AnswerBulkDelete(p)
       PROVE  TableInv'
  <2> DEFINE ls == [i \in Lines |-> IF i \in p.ids THEN Gone ELSE lines[i]]
  <2>1. /\ UNCHANGED <<filter, sort, groupBy, expanded, pageSize, steps>>
        /\ patches' \subseteq patches
    BY <1>12 DEF T!AnswerBulkDelete
  <2>2. CASE UNCHANGED <<lines, currentPage, ticked, confirms, moved, edited>>
    <3>1. TableTypes' /\ EditedGroupIsOpen'
      BY <1>0, <2>1, <2>2 DEF TableTypes, EditedGroupIsOpen, T!Path
    <3>2. PageIsThere' /\ T!TickedLinesAreOnView'
      BY <1>0, <2>1, <2>2, SameLines DEF T!TickedLinesAreOnView
    <3> QED
      BY <3>1, <3>2 DEF TableInv
  <2>3. CASE /\ T!Becomes(ls, {})
             /\ edited' = IF edited \in p.ids THEN Gone ELSE edited
    <3>1. ls \in Listings /\ lines' = ls
      BY <1>0, <2>3 DEF TableTypes, Listings, T!Becomes
    <3>2. EditedGroupIsOpen'
      BY <1>0, <2>1, <2>3, <3>1 DEF EditedGroupIsOpen, T!Path, TableTypes
    <3> HIDE DEF ls
    <3>3. /\ currentPage' \in Nat \ {0} /\ ticked' \in SUBSET Lines
          /\ confirms' \in BOOLEAN /\ moved' \in BOOLEAN
          /\ PageIsThere' /\ T!TickedLinesAreOnView'
      BY <2>1, <2>3, <3>1, AnotherList
    <3>4. TableTypes'
      BY <1>0, <2>1, <2>3, <3>1, <3>3 DEF TableTypes
    <3> QED
      BY <3>2, <3>3, <3>4 DEF TableInv
  <2> QED
    BY <1>12, <2>2, <2>3 DEF T!AnswerBulkDelete
<1>13. ASSUME NEW p \in patches, T!AnswerEdit(p)
       PROVE  TableInv'
  <2>1. /\ p.line \in Lines /\ p.column \in T!Columns /\ p.value \in Keys /\ p.before \in Listings
    BY <1>0, <1>13 DEF TableTypes, TableRequests, T!AnswerEdit
  <2>2. PICK ls \in Listings : T!Becomes(ls, ticked)
    <3>1. CASE T!Becomes(p.before, ticked)
      BY <2>1, <3>1
    <3>2. ASSUME NEW v \in {p.value, T!Alias}, lines[p.line] # Gone,
                 T!Becomes([lines EXCEPT ![p.line] = [@ EXCEPT ![p.column] = v]], ticked)
          PROVE  \E ls \in Listings : T!Becomes(ls, ticked)
      <4>1. lines \in Listings /\ lines[p.line] \in T!Contents /\ v \in Keys
        BY <1>0, <2>1, <3>2, SavedViews DEF TableTypes, Listings
      <4>2. [lines[p.line] EXCEPT ![p.column] = v] \in T!Contents
        BY <2>1, <4>1 DEF T!Contents
      <4>3. [lines EXCEPT ![p.line] = [@ EXCEPT ![p.column] = v]] \in Listings
        BY <2>1, <4>1, <4>2 DEF Listings
      <4> QED
        BY <3>2, <4>3
    <3> QED
      BY <1>13, <3>1, <3>2 DEF T!AnswerEdit
  <2>3. /\ UNCHANGED <<filter, sort, groupBy, expanded, pageSize, steps>>
        /\ patches' \subseteq patches /\ lines' = ls
        /\ edited' = IF edited # Gone /\ lines'[edited] # lines[edited] THEN Gone ELSE edited
    BY <1>13, <2>2 DEF T!AnswerEdit, T!Becomes
  <2>4. EditedGroupIsOpen'
    BY <1>0, <2>3 DEF EditedGroupIsOpen, T!Path
  <2>5. /\ currentPage' \in Nat \ {0} /\ ticked' \in SUBSET Lines
        /\ confirms' \in BOOLEAN /\ moved' \in BOOLEAN
        /\ PageIsThere' /\ T!TickedLinesAreOnView'
    BY <2>2, <2>3, AnotherList
  <2>6. TableTypes'
    BY <1>0, <2>2, <2>3, <2>5 DEF TableTypes
  <2> QED
    BY <2>4, <2>5, <2>6 DEF TableInv
<1>14. ASSUME NEW v \in T!Views, T!handleLoadView(v)
       PROVE  TableInv'
  <2> DEFINE p == [kind |-> "view", before |-> [filter |-> filter, sort |-> sort, groupBy |-> groupBy]]
  <2>1. /\ v \in TableViews /\ T!Apply(v) /\ UNCHANGED <<lines, pageSize>>
        /\ patches' = patches \union {p} /\ steps' \in 0..MaxSteps
    BY <1>0, <1>14, SavedViews, ActsAreCounted DEF T!handleLoadView, T!Acts
  <2>2. p \in TableRequests
    BY <1>0 DEF TableTypes, TableRequests, TableViews
  <2> HIDE DEF p
  <2>3. /\ filter' \in SUBSET Keys /\ sort' \in {"none", "asc", "desc"} /\ groupBy' \in T!Groupings
        /\ currentPage' \in Nat \ {0} /\ edited' = Gone
        /\ ticked' \in SUBSET Lines /\ confirms' \in BOOLEAN /\ moved' \in BOOLEAN
        /\ PageIsThere' /\ T!TickedLinesAreOnView'
    BY <2>1, AnotherView
  <2>4. TableTypes'
    BY <1>0, <2>1, <2>2, <2>3 DEF TableTypes
  <2> QED
    BY <2>3, <2>4 DEF TableInv, EditedGroupIsOpen
<1>15. ASSUME NEW p \in patches, T!AnswerView(p)
       PROVE  TableInv'
  <2>1. UNCHANGED <<lines, pageSize, steps>> /\ patches' \subseteq patches /\ p.before \in TableViews
    BY <1>0, <1>15 DEF TableTypes, TableRequests, T!AnswerView
  <2>2. CASE UNCHANGED <<filter, sort, groupBy, expanded, currentPage, ticked, confirms, moved, edited>>
    <3>1. TableTypes' /\ EditedGroupIsOpen'
      BY <1>0, <2>1, <2>2 DEF TableTypes, EditedGroupIsOpen, T!Path
    <3>2. PageIsThere' /\ T!TickedLinesAreOnView'
      BY <1>0, <2>1, <2>2, SameLines DEF T!TickedLinesAreOnView
    <3> QED
      BY <3>1, <3>2 DEF TableInv
  <2>3. CASE T!Apply(p.before)
    <3>1. /\ filter' \in SUBSET Keys /\ sort' \in {"none", "asc", "desc"} /\ groupBy' \in T!Groupings
          /\ currentPage' \in Nat \ {0} /\ edited' = Gone
          /\ ticked' \in SUBSET Lines /\ confirms' \in BOOLEAN /\ moved' \in BOOLEAN
          /\ PageIsThere' /\ T!TickedLinesAreOnView'
      BY <2>1, <2>3, AnotherView
    <3>2. TableTypes'
      BY <1>0, <2>1, <3>1 DEF TableTypes
    <3> QED
      BY <3>1, <3>2 DEF TableInv, EditedGroupIsOpen
  <2> QED
    BY <1>15, <2>2, <2>3 DEF T!AnswerView
<1> QED
  <2>1. \A n \in 1..T!Cardinality(Lines) : n \in Nat \ {0}
    BY RegistryAssumption, FS_CardinalityType, TableCounts
  <2> QED
    BY <1>1, <1>2, <1>3, <1>4, <1>5, <1>6, <1>7, <1>8, <1>9, <1>10, <1>11, <1>12, <1>13, <1>14, <1>15,
       <2>1 DEF T!Next

(* The lines that match stand in one row, by owner and number.              *)
LEMMA LinesAreOrdered ==
    ASSUME TableTypes, NEW i \in T!Matching(lines, filter), NEW j \in T!Matching(lines, filter)
    PROVE  /\ ~T!Before(lines, sort, i, i)
           /\ i # j => T!Before(lines, sort, i, j) \/ T!Before(lines, sort, j, i)
           /\ \A k \in T!Matching(lines, filter) :
                 T!Before(lines, sort, k, i) /\ T!Before(lines, sort, i, j) => T!Before(lines, sort, k, j)
<1>1. \A k \in T!Matching(lines, filter) : k \in Nat /\ lines[k].owner \in Nat
  BY RegistryAssumption DEF TableTypes, T!Matching, Listings, T!Contents, T!Columns
<1> QED
  BY <1>1 DEF T!Before, TableTypes

(* Each line has a place of its own, and no place is left out.              *)
LEMMA PlacesAreTaken ==
    ASSUME TableTypes
    PROVE  /\ \A i \in T!Matching(lines, filter) :
                 T!Position(i) \in 1..Cardinality(T!Matching(lines, filter))
           /\ \A n \in 1..Cardinality(T!Matching(lines, filter)) :
                 \E i \in T!Matching(lines, filter) : T!Position(i) = n
<1> DEFINE M == T!Matching(lines, filter)
           Front(i) == {j \in M : T!Before(lines, sort, j, i)}
           n == Cardinality(M)
           placing == [i \in M |-> T!Position(i)]
<1>1. IsFiniteSet(M) /\ n \in Nat
  BY MatchingLines
<1>2. \A i \in M : /\ IsFiniteSet(Front(i)) /\ Cardinality(Front(i)) \in Nat
                   /\ T!Position(i) = Cardinality(Front(i)) + 1
  <2> SUFFICES ASSUME NEW i \in M
               PROVE  /\ IsFiniteSet(Front(i)) /\ Cardinality(Front(i)) \in Nat
                      /\ T!Position(i) = Cardinality(Front(i)) + 1
    OBVIOUS
  <2>1. Front(i) \in SUBSET M
    OBVIOUS
  <2>2. T!Position(i) = Cardinality(Front(i)) + 1
    BY TableCounts DEF T!Position
  <2> HIDE DEF M, Front
  <2> QED
    BY <1>1, <2>1, <2>2, FS_Subset, FS_CardinalityType
<1>3. ASSUME NEW i \in M
      PROVE  T!Position(i) \in 1..n
  <2>1. Front(i) \in SUBSET (M \ {i})
    BY <1>3, LinesAreOrdered
  <2>2. IsFiniteSet(M \ {i}) /\ Cardinality(M \ {i}) = n - 1
    BY <1>1, <1>3, FS_RemoveElement
  <2> HIDE DEF M, Front, n
  <2>3. Cardinality(Front(i)) <= n - 1
    BY <2>1, <2>2, FS_Subset
  <2> QED
    BY <1>1, <1>2, <1>3, <2>3
<1>4. ASSUME NEW i \in M, NEW j \in M, T!Before(lines, sort, i, j)
      PROVE  T!Position(i) < T!Position(j)
  <2>1. Front(i) \union {i} \in SUBSET Front(j) /\ i \notin Front(i)
    BY <1>4, LinesAreOrdered
  <2> HIDE DEF M, Front
  <2>2. Cardinality(Front(i) \union {i}) = Cardinality(Front(i)) + 1
    BY <1>2, <1>4, <2>1, FS_AddElement
  <2>3. Cardinality(Front(i) \union {i}) <= Cardinality(Front(j))
    BY <1>2, <1>4, <2>1, FS_Subset
  <2> QED
    BY <1>2, <1>4, <2>2, <2>3
<1>5. placing \in Injection(M, 1..n)
  <2>1. \A i, j \in M : T!Position(i) = T!Position(j) => i = j
    <3> SUFFICES ASSUME NEW i \in M, NEW j \in M, i # j
                 PROVE  T!Position(i) # T!Position(j)
      OBVIOUS
    <3>1. T!Before(lines, sort, i, j) \/ T!Before(lines, sort, j, i)
      BY LinesAreOrdered
    <3>2. T!Position(i) < T!Position(j) \/ T!Position(j) < T!Position(i)
      BY <1>4, <3>1
    <3> HIDE DEF M, n
    <3> QED
      BY <1>3, <3>2
  <2>2. placing \in [M -> 1..n]
    BY <1>3
  <2>3. \A i, j \in M : placing[i] = placing[j] => i = j
    BY <2>1
  <2> HIDE DEF M, n, placing
  <2> QED
    BY <2>2, <2>3 DEF Injection, IsInjective
<1>6. placing \in Surjection(M, 1..n)
  <2>1. IsFiniteSet(1..n) /\ Cardinality(1..n) = n
    BY <1>1, FS_Interval
  <2> HIDE DEF M, placing
  <2> QED
    BY <1>1, <1>5, <2>1, FS_Injection
<1> QED
  BY <1>3, <1>6 DEF Surjection

(* The page shows the lines whose places the footer names.                  *)
LEMMA FooterIsRight ==
    ASSUME TableInv
    PROVE  T!FooterTellsTheRange
<1> DEFINE n == Cardinality(T!Matching(lines, filter))
           total == T!TotalPages(n, pageSize)
           final == IF currentPage * pageSize < n THEN currentPage * pageSize ELSE n
           rows == ((currentPage - 1) * pageSize + 1)..(currentPage * pageSize)
<1>1. /\ n \in Nat /\ currentPage \in Nat \ {0} /\ pageSize \in Nat \ {0}
      /\ total \in Nat /\ currentPage <= total
  BY MatchingLines, Pages, RegistryAssumption DEF TableInv, TableTypes, PageIsThere
<1>2. T!PaginatedItems = {i \in T!Matching(lines, filter) : T!Position(i) \in rows}
  <2>1. ~(currentPage > total)
    BY <1>1
  <2> QED
    BY <2>1, TableCounts DEF T!PaginatedItems
<1>3. currentPage * pageSize \in Int /\ (currentPage - 1) * pageSize \in Int
  BY <1>1
<1>4. \A m \in Int : m \in rows /\ m \in 1..n <=> m \in ((currentPage - 1) * pageSize + 1)..final
  <2>1. (currentPage - 1) * pageSize >= 0
    BY <1>1
  <2> QED
    BY <1>1, <1>3, <2>1
<1>5. {T!Position(i) : i \in T!PaginatedItems} = ((currentPage - 1) * pageSize + 1)..final
  <2> HIDE DEF n, final, rows
  <2>1. \A i \in T!PaginatedItems : T!Position(i) \in rows /\ T!Position(i) \in 1..n
    BY <1>2, PlacesAreTaken DEF TableInv, n
  <2>2. \A m \in rows : m \in 1..n => \E i \in T!PaginatedItems : T!Position(i) = m
    BY <1>2, PlacesAreTaken DEF TableInv, n
  <2>3. \A m \in ((currentPage - 1) * pageSize + 1)..final : m \in Int
    BY <1>1, <1>3 DEF final
  <2> QED
    BY <1>4, <2>1, <2>2, <2>3
<1> QED
  BY <1>5, TableCounts DEF T!FooterTellsTheRange

(* A line whose groups are open is in sight.                                *)
LEMMA EditedIsShown ==
    ASSUME TableInv
    PROVE  T!EditedLineIsShown
BY DEF TableInv, EditedGroupIsOpen, T!EditedLineIsShown, T!Shown

(* Steps of other areas leave the table alone.                              *)
LEMMA TableKept ==
    ASSUME TableInv, MCNext \/ UNCHANGED tabled
    PROVE  TableInv'
<1>1. CASE UNCHANGED tabled
  <2>1. TableTypes' /\ PageIsThere' /\ EditedGroupIsOpen'
    BY <1>1 DEF tabled, TableInv, TableTypes, PageIsThere, EditedGroupIsOpen, T!Matching
  <2>2. T!TickedLinesAreOnView'
    BY <1>1 DEF tabled, TableInv, T!TickedLinesAreOnView, T!DisplayRows, T!UseVirtual, T!PaginatedItems,
                T!Matching, T!Position, T!Before
  <2> QED
    BY <2>1, <2>2 DEF TableInv
<1>2. CASE T!Next
  BY <1>2, TableStep
<1> QED
  BY <1>1, <1>2 DEF MCNext, tabled

(* TableIsHonest: the lines ticked to be deleted are lines the table shows, *)
(* whatever filters, pages, page sizes and views came in between, unless    *)
(* the lines themselves moved; the lines of a page are those whose places   *)
(* its footer names, all of them; and a line edited into another group      *)
(* stays in sight.                                                          *)
THEOREM TableTellsTheTruth == MCSpec => []TableIsHonest
<1>1. MCInit => TableInv
  BY TableStart DEF MCInit
<1>2. TableInv /\ [MCNext]_<<area, rvars, settings, dialogs, routes, imported, cached, listed, tabled, reported>>
        => TableInv'
  BY TableKept
<1>3. TableInv => TableIsHonest
  BY FooterIsRight, EditedIsShown DEF TableInv, TableIsHonest
<1> QED
  BY <1>1, <1>2, <1>3, PTL DEF MCSpec

-----------------------------------------------------------------------------
(* Sums. *)

(* What a sum adds up, one unit at a time: those above zero, and those      *)
(* below.                                                                   *)
Over(f, U) == {u \in U \X Nat : 1 <= u[2] /\ u[2] <= f[u[1]]}
Under(f, U) == {u \in U \X Nat : 1 <= u[2] /\ u[2] <= -f[u[1]]}
Worth(f, U) == Cardinality(Over(f, U)) - Cardinality(Under(f, U))

Adds(g, f, U) ==
    [s \in SUBSET U |-> IF s = {} THEN 0 ELSE LET x == CHOOSE x \in s : TRUE IN f[x] + g[s \ {x}]]
Added(f, U) == (CHOOSE g : g = Adds(g, f, U))[U]

LEMMA SumAdds ==
    ASSUME NEW f, NEW U
    PROVE  F!SumFunctionOnSet(f, U) = Added(f, U)
BY DEF F!SumFunctionOnSet, F!FoldFunctionOnSet, F!MapThenFoldSet, Added, Adds

(* What holds of a set whenever it holds of all smaller ones in it.         *)
LEMMA SmallerFirst ==
    ASSUME NEW U, IsFiniteSet(U), NEW Good,
           \A s \in SUBSET U : (\A r \in (SUBSET s) \ {s} : r \in Good) => s \in Good
    PROVE  \A s \in SUBSET U : s \in Good
<1> DEFINE Bad == {s \in SUBSET U : s \notin Good}
<1> SUFFICES ASSUME Bad # {}
             PROVE  FALSE
  OBVIOUS
<1>1. FiniteSubsetsOf(U) = SUBSET U
  BY FS_FiniteSubsetsOfFinite
<1>2. IsWellFoundedOn(StrictSubsetOrdering(U), SUBSET U)
  <2>1. IsWellFoundedOn(StrictSubsetOrdering(U), FiniteSubsetsOf(U))
    BY FS_StrictSubsetOrderingWellFounded
  <2> QED
    BY <1>1, <2>1
<1>3. PICK s \in Bad : \A r \in Bad : <<r, s>> \notin StrictSubsetOrdering(U)
  <2> HIDE DEF Bad
  <2>1. Bad \subseteq SUBSET U
    BY DEF Bad
  <2> QED
    BY <1>2, <2>1, WFMin
<1>4. \A r \in (SUBSET s) \ {s} : r \in Good
  <2> SUFFICES ASSUME NEW r \in (SUBSET s) \ {s}
               PROVE  r \in Good
    OBVIOUS
  <2>1. <<r, s>> \in StrictSubsetOrdering(U)
    BY <1>3 DEF StrictSubsetOrdering
  <2> QED
    BY <1>3, <2>1
<1> QED
  BY <1>3, <1>4

(* What holds of no elements, and of one more whenever it holds of some.    *)
LEMMA OneByOne ==
    ASSUME NEW U, IsFiniteSet(U), NEW Good, {} \in Good,
           \A s \in SUBSET U : \A x \in U \ s : s \in Good => s \union {x} \in Good
    PROVE  \A s \in SUBSET U : s \in Good
<1> SUFFICES ASSUME NEW s \in SUBSET U, \A r \in (SUBSET s) \ {s} : r \in Good
             PROVE  s \in Good
  BY SmallerFirst
<1>1. CASE s = {}
  BY <1>1
<1>2. CASE s # {}
  <2>1. PICK x \in s : TRUE
    BY <1>2
  <2>2. s \ {x} \in Good /\ s \ {x} \in SUBSET U /\ x \in U \ (s \ {x}) /\ s = (s \ {x}) \union {x}
    BY <2>1
  <2> QED
    BY <2>2
<1> QED
  BY <1>1, <1>2

(* Sets that share nothing.                                                 *)
LEMMA ApartTogether ==
    ASSUME NEW U, NEW V, IsFiniteSet(U), IsFiniteSet(V), U \intersect V = {}
    PROVE  /\ IsFiniteSet(U \union V)
           /\ Cardinality(U) \in Nat /\ Cardinality(V) \in Nat
           /\ Cardinality(U \union V) = Cardinality(U) + Cardinality(V)
<1>1. Cardinality(U \intersect V) = 0
  BY FS_EmptySet
<1>2. Cardinality(U) \in Nat /\ Cardinality(V) \in Nat
  BY FS_CardinalityType
<1>3. IsFiniteSet(U \union V) /\ Cardinality(U \union V) = Cardinality(U) + Cardinality(V) - Cardinality(U \intersect V)
  BY FS_Union
<1> QED
  BY <1>1, <1>2, <1>3

(* The units of one element.                                                *)
Units(x, n) == {u \in {x} \X Nat : 1 <= u[2] /\ u[2] <= n}

LEMMA UnitsOfOne ==
    ASSUME NEW x, NEW n \in Int
    PROVE  IsFiniteSet(Units(x, n)) /\ Cardinality(Units(x, n)) = IF n < 0 THEN 0 ELSE n
<1> DEFINE unit == [k \in 1..n |-> <<x, k>>]
<1>1. IsFiniteSet(1..n) /\ Cardinality(1..n) = IF n < 0 THEN 0 ELSE n
  BY FS_Interval
<1>2. unit \in [1..n -> Units(x, n)]
  BY DEF Units
<1>3. \A j, k \in 1..n : unit[j] = unit[k] => j = k
  OBVIOUS
<1>4. \A u \in Units(x, n) : \E k \in 1..n : unit[k] = u
  <2> SUFFICES ASSUME NEW u \in Units(x, n)
               PROVE  u[2] \in 1..n /\ unit[u[2]] = u
    OBVIOUS
  <2> QED
    BY DEF Units
<1>5. ExistsBijection(1..n, Units(x, n))
  <2> HIDE DEF unit
  <2> QED
    BY <1>2, <1>3, <1>4 DEF ExistsBijection, Bijection, Injection, Surjection, IsInjective
<1> QED
  BY <1>1, <1>5, FS_Bijection

(* The units of one more element.                                           *)
LEMMA UnitsOfMore ==
    ASSUME NEW f, NEW U, NEW x, x \notin U, f[x] \in Int,
           IsFiniteSet(Over(f, U)), IsFiniteSet(Under(f, U))
    PROVE  /\ IsFiniteSet(Over(f, U \union {x})) /\ IsFiniteSet(Under(f, U \union {x}))
           /\ Worth(f, U \union {x}) = f[x] + Worth(f, U)
<1>1. /\ Over(f, U \union {x}) = Over(f, U) \union Over(f, {x}) /\ Over(f, U) \intersect Over(f, {x}) = {}
      /\ Under(f, U \union {x}) = Under(f, U) \union Under(f, {x})
      /\ Under(f, U) \intersect Under(f, {x}) = {}
  BY DEF Over, Under
<1>2. Over(f, {x}) = Units(x, f[x]) /\ Under(f, {x}) = Units(x, -f[x])
  BY DEF Over, Under, Units
<1>3. /\ IsFiniteSet(Over(f, {x})) /\ Cardinality(Over(f, {x})) = IF f[x] < 0 THEN 0 ELSE f[x]
      /\ IsFiniteSet(Under(f, {x})) /\ Cardinality(Under(f, {x})) = IF -f[x] < 0 THEN 0 ELSE -f[x]
  <2>1. -f[x] \in Int
    OBVIOUS
  <2> QED
    BY <1>2, <2>1, UnitsOfOne
<1>4. Cardinality(Over(f, {x})) - Cardinality(Under(f, {x})) = f[x]
  BY <1>3
<1>5. /\ IsFiniteSet(Over(f, U \union {x})) /\ IsFiniteSet(Under(f, U \union {x}))
      /\ Cardinality(Over(f, U)) \in Nat /\ Cardinality(Over(f, {x})) \in Nat
      /\ Cardinality(Under(f, U)) \in Nat /\ Cardinality(Under(f, {x})) \in Nat
      /\ Cardinality(Over(f, U \union {x})) = Cardinality(Over(f, U)) + Cardinality(Over(f, {x}))
      /\ Cardinality(Under(f, U \union {x})) = Cardinality(Under(f, U)) + Cardinality(Under(f, {x}))
  <2>1. /\ IsFiniteSet(Over(f, U) \union Over(f, {x}))
        /\ Cardinality(Over(f, U)) \in Nat /\ Cardinality(Over(f, {x})) \in Nat
        /\ Cardinality(Over(f, U) \union Over(f, {x})) = Cardinality(Over(f, U)) + Cardinality(Over(f, {x}))
    BY <1>1, <1>3, ApartTogether
  <2>2. /\ IsFiniteSet(Under(f, U) \union Under(f, {x}))
        /\ Cardinality(Under(f, U)) \in Nat /\ Cardinality(Under(f, {x})) \in Nat
        /\ Cardinality(Under(f, U) \union Under(f, {x})) = Cardinality(Under(f, U)) + Cardinality(Under(f, {x}))
    BY <1>1, <1>3, ApartTogether
  <2> QED
    BY <1>1, <2>1, <2>2
<1> QED
  BY <1>4, <1>5 DEF Worth

(* A sum is worth what it adds up, in whatever order it does.               *)
LEMMA SumIsWorth ==
    ASSUME NEW U, IsFiniteSet(U), NEW f, \A x \in U : f[x] \in Int
    PROVE  /\ F!SumFunctionOnSet(f, U) = Worth(f, U)
           /\ \A s \in SUBSET U : IsFiniteSet(Over(f, s)) /\ IsFiniteSet(Under(f, s)) /\ Worth(f, s) \in Int
           /\ Worth(f, {}) = 0
           /\ \A s \in SUBSET U : \A x \in U \ s : Worth(f, s \union {x}) = f[x] + Worth(f, s)
<1> DEFINE Good == {s \in SUBSET U : IsFiniteSet(Over(f, s)) /\ IsFiniteSet(Under(f, s))}
           g == [s \in SUBSET U |-> Worth(f, s)]
           h == CHOOSE k : k = Adds(k, f, U)
<1>1. Over(f, {}) = {} /\ Under(f, {}) = {}
  BY DEF Over, Under
<1>2. Worth(f, {}) = 0
  BY <1>1, FS_EmptySet DEF Worth
<1>3. \A s \in SUBSET U : IsFiniteSet(Over(f, s)) /\ IsFiniteSet(Under(f, s))
  <2>1. {} \in Good
    BY <1>1, FS_EmptySet
  <2>2. \A s \in SUBSET U : \A x \in U \ s : s \in Good => s \union {x} \in Good
    BY UnitsOfMore
  <2> HIDE DEF Good
  <2>3. \A s \in SUBSET U : s \in Good
    BY <2>1, <2>2, OneByOne
  <2> QED
    BY <2>3 DEF Good
<1>4. \A s \in SUBSET U : Worth(f, s) \in Int
  BY <1>3, FS_CardinalityType DEF Worth
<1>5. \A s \in SUBSET U : \A x \in U \ s : Worth(f, s \union {x}) = f[x] + Worth(f, s)
  BY <1>3, UnitsOfMore
<1>6. \A s \in SUBSET U : \A x \in s : Worth(f, s) = f[x] + Worth(f, s \ {x})
  <2> SUFFICES ASSUME NEW s \in SUBSET U, NEW x \in s
               PROVE  Worth(f, s) = f[x] + Worth(f, s \ {x})
    OBVIOUS
  <2>1. s \ {x} \in SUBSET U /\ x \in U \ (s \ {x}) /\ s = (s \ {x}) \union {x}
    OBVIOUS
  <2> QED
    BY <1>5, <2>1
<1>7. g = Adds(g, f, U)
  <2> SUFFICES ASSUME NEW s \in SUBSET U
               PROVE  g[s] = Adds(g, f, U)[s]
    BY DEF Adds
  <2>1. CASE s = {}
    BY <1>2, <2>1 DEF Adds
  <2>2. CASE s # {}
    <3> DEFINE x == CHOOSE x \in s : TRUE
    <3>1. x \in s /\ s \ {x} \in SUBSET U
      BY <2>2
    <3>2. Adds(g, f, U)[s] = f[x] + g[s \ {x}]
      BY <2>2 DEF Adds
    <3> HIDE DEF x
    <3> QED
      BY <1>6, <3>1, <3>2
  <2> QED
    BY <2>1, <2>2
<1>8. h = Adds(h, f, U)
  BY <1>7, Zenon
<1>9. \A s \in SUBSET U : h[s] = Worth(f, s)
  <2> DEFINE Right == {s \in SUBSET U : h[s] = Worth(f, s)}
  <2>1. \A s \in SUBSET U : (\A r \in (SUBSET s) \ {s} : r \in Right) => s \in Right
    <3> SUFFICES ASSUME NEW s \in SUBSET U, \A r \in (SUBSET s) \ {s} : r \in Right
                 PROVE  h[s] = Worth(f, s)
      OBVIOUS
    <3> HIDE DEF h
    <3>1. CASE s = {}
      <4>1. Adds(h, f, U)[s] = 0
        BY <3>1 DEF Adds
      <4> QED
        BY <1>2, <1>8, <3>1, <4>1
    <3>2. CASE s # {}
      <4> DEFINE x == CHOOSE x \in s : TRUE
      <4>1. x \in s /\ s \ {x} \in (SUBSET s) \ {s}
        BY <3>2
      <4>2. Adds(h, f, U)[s] = f[x] + h[s \ {x}]
        BY <3>2 DEF Adds
      <4> HIDE DEF x
      <4>3. h[s \ {x}] = Worth(f, s \ {x})
        BY <4>1
      <4> QED
        BY <1>6, <1>8, <4>1, <4>2, <4>3
    <3> QED
      BY <3>1, <3>2
  <2> HIDE DEF Right
  <2>2. \A s \in SUBSET U : s \in Right
    BY <2>1, SmallerFirst
  <2> QED
    BY <2>2 DEF Right
<1>10. F!SumFunctionOnSet(f, U) = Worth(f, U)
  BY <1>9, SumAdds DEF Added
<1> QED
  BY <1>2, <1>3, <1>4, <1>5, <1>10

(* Only what the elements are worth matters.                                *)
LEMMA SameWorth ==
    ASSUME NEW U, NEW f, NEW g, \A x \in U : f[x] = g[x]
    PROVE  Worth(f, U) = Worth(g, U)
<1>1. Over(f, U) = Over(g, U) /\ Under(f, U) = Under(g, U)
  BY DEF Over, Under
<1> QED
  BY <1>1 DEF Worth

(* What is worth nothing adds up to nothing.                                *)
LEMMA WorthNothing ==
    ASSUME NEW U, NEW f, \A x \in U : f[x] = 0
    PROVE  Worth(f, U) = 0
<1>1. Over(f, U) = {} /\ Under(f, U) = {}
  BY DEF Over, Under
<1> QED
  BY <1>1, FS_EmptySet DEF Worth

LEMMA SumOf ==
    ASSUME NEW U, IsFiniteSet(U), NEW f, NEW g, \A x \in U : f[x] = g[x] /\ g[x] \in Int
    PROVE  F!SumFunctionOnSet(f, U) = Worth(g, U) /\ Worth(g, U) \in Int
<1>1. F!SumFunctionOnSet(f, U) = Worth(f, U)
  <2>1. \A x \in U : f[x] \in Int
    OBVIOUS
  <2> QED
    BY <2>1, SumIsWorth
<1>2. Worth(f, U) = Worth(g, U)
  BY SameWorth
<1>3. Worth(g, U) \in Int
  <2>1. U \in SUBSET U
    OBVIOUS
  <2> QED
    BY <2>1, SumIsWorth
<1> QED
  BY <1>1, <1>2, <1>3

(* One element is worth what it is.                                         *)
LEMMA WorthOfOne ==
    ASSUME NEW x, NEW f, f[x] \in Int
    PROVE  Worth(f, {x}) = f[x]
<1>1. Over(f, {}) = {} /\ Under(f, {}) = {}
  BY DEF Over, Under
<1>2. Worth(f, {}) = 0 /\ IsFiniteSet(Over(f, {})) /\ IsFiniteSet(Under(f, {}))
  BY <1>1, FS_EmptySet DEF Worth
<1> DEFINE none == {}
<1>3. x \notin none /\ {x} = none \union {x}
  OBVIOUS
<1>4. Worth(f, none) = 0 /\ IsFiniteSet(Over(f, none)) /\ IsFiniteSet(Under(f, none))
  BY <1>2
<1> HIDE DEF none
<1>5. Worth(f, none \union {x}) = f[x] + Worth(f, none)
  BY <1>3, <1>4, UnitsOfMore
<1>6. Worth(f, {x}) = Worth(f, none \union {x})
  BY <1>3
<1>7. f[x] + 0 = f[x]
  OBVIOUS
<1> QED
  BY <1>4, <1>5, <1>6, <1>7

(* Two sets that share nothing add up.                                      *)
LEMMA WorthSplits ==
    ASSUME NEW f, NEW V, NEW W, IsFiniteSet(V), IsFiniteSet(W), V \intersect W = {},
           \A x \in V : f[x] \in Int, \A x \in W : f[x] \in Int
    PROVE  Worth(f, V \union W) = Worth(f, V) + Worth(f, W)
<1>1. /\ Over(f, V \union W) = Over(f, V) \union Over(f, W) /\ Over(f, V) \intersect Over(f, W) = {}
      /\ Under(f, V \union W) = Under(f, V) \union Under(f, W) /\ Under(f, V) \intersect Under(f, W) = {}
  BY DEF Over, Under
<1>2. IsFiniteSet(Over(f, V)) /\ IsFiniteSet(Over(f, W)) /\ IsFiniteSet(Under(f, V)) /\ IsFiniteSet(Under(f, W))
  <2>1. V \in SUBSET V /\ W \in SUBSET W
    OBVIOUS
  <2> QED
    BY <2>1, SumIsWorth
<1>3. /\ Cardinality(Over(f, V)) \in Nat /\ Cardinality(Over(f, W)) \in Nat
      /\ Cardinality(Over(f, V) \union Over(f, W)) = Cardinality(Over(f, V)) + Cardinality(Over(f, W))
  BY <1>1, <1>2, ApartTogether
<1>4. /\ Cardinality(Under(f, V)) \in Nat /\ Cardinality(Under(f, W)) \in Nat
      /\ Cardinality(Under(f, V) \union Under(f, W)) = Cardinality(Under(f, V)) + Cardinality(Under(f, W))
  BY <1>1, <1>2, ApartTogether
<1>5. Worth(f, V \union W) = Cardinality(Over(f, V) \union Over(f, W))
                              - Cardinality(Under(f, V) \union Under(f, W))
  BY <1>1 DEF Worth
<1> QED
  BY <1>3, <1>4, <1>5 DEF Worth

(* A set sorted by kind.                                                    *)
Sorted(U, kind, K, part) ==
    /\ kind \in [U -> K]
    /\ \A k \in K : part[k] = {x \in U : kind[x] = k}

(* Adding up kind by kind is adding up.                                     *)
LEMMA WorthByKind ==
    ASSUME NEW U, IsFiniteSet(U), NEW f, \A x \in U : f[x] \in Int,
           NEW K, IsFiniteSet(K), NEW kind, NEW part, Sorted(U, kind, K, part),
           NEW w, \A k \in K : w[k] = Worth(f, part[k])
    PROVE  Worth(w, K) = Worth(f, U)
<1> DEFINE Of(s) == {x \in U : kind[x] \in s}
           Good == {s \in SUBSET K : Worth(w, s) = Worth(f, Of(s))}
<1>0. kind \in [U -> K] /\ \A k \in K : \A x : x \in part[k] <=> x \in U /\ kind[x] = k
  BY DEF Sorted
<1>1. \A k \in K : w[k] \in Int
  <2> SUFFICES ASSUME NEW k \in K
               PROVE  Worth(f, part[k]) \in Int
    OBVIOUS
  <2>1. part[k] \in SUBSET U
    BY <1>0
  <2> QED
    BY <2>1, SumIsWorth
<1>2. {} \in Good
  <2>1. Of({}) = {}
    OBVIOUS
  <2>2. Worth(w, {}) = 0 /\ Worth(f, {}) = 0
    BY WorthNothing
  <2> HIDE DEF Of
  <2> QED
    BY <2>1, <2>2
<1>3. \A s \in SUBSET K : \A k \in K \ s : s \in Good => s \union {k} \in Good
  <2> SUFFICES ASSUME NEW s \in SUBSET K, NEW k \in K \ s, Worth(w, s) = Worth(f, Of(s))
               PROVE  Worth(w, s \union {k}) = Worth(f, Of(s \union {k}))
    OBVIOUS
  <2>1. Of(s \union {k}) = Of(s) \union part[k] /\ Of(s) \intersect part[k] = {}
    BY <1>0
  <2>2. Of(s) \in SUBSET U /\ part[k] \in SUBSET U
    BY <1>0
  <2>3. Worth(w, s \union {k}) = w[k] + Worth(w, s)
    BY <1>1, SumIsWorth
  <2> HIDE DEF Of
  <2>4. Worth(f, Of(s) \union part[k]) = Worth(f, Of(s)) + Worth(f, part[k])
    <3>1. IsFiniteSet(Of(s)) /\ IsFiniteSet(part[k])
      BY <2>2, FS_Subset
    <3>2. \A x \in Of(s) : f[x] \in Int
      BY <2>2
    <3>3. \A x \in part[k] : f[x] \in Int
      BY <2>2
    <3> QED
      BY <2>1, <3>1, <3>2, <3>3, WorthSplits
  <2>5. Worth(f, Of(s)) \in Int /\ w[k] \in Int /\ w[k] = Worth(f, part[k])
    BY <1>1, <2>2, SumIsWorth
  <2>6. Worth(f, Of(s \union {k})) = Worth(f, Of(s) \union part[k])
    BY <2>1
  <2> HIDE DEF Good
  <2> QED
    BY <2>3, <2>4, <2>5, <2>6
<1>4. Of(K) = U
  BY <1>0
<1> HIDE DEF Of
<1>5. \A s \in SUBSET K : s \in Good
  <2> HIDE DEF Good
  <2> QED
    BY <1>2, <1>3, OneByOne
<1> QED
  BY <1>4, <1>5

-----------------------------------------------------------------------------
(* The reports. *)

Entered == Int \union {None}
Licenses ==
    [type : {"perpetual", "subscription", "maintenance", "service", "freeware"},
     price : Entered, cur : F!Currencies, po : {"A", "B", None}, order : {1, None}, override : Entered,
     coverage : {"separately_tracked", "not_applicable", "unknown", "included"}, cost : Entered,
     start : Entered, end : Entered, from : Entered, to : Entered, parents : SUBSET Nat, linked : SUBSET Nat,
     active : BOOLEAN, retired : BOOLEAN, renewable : BOOLEAN]
Kept(l) == (l.active => l.linked # {}) /\ (l.type \in {"freeware", "perpetual"} => l.end = None)

ReportInv ==
    /\ licenses \in [1..3 -> Licenses] /\ \A i \in 1..3 : Kept(licenses[i])
    /\ filters \in [retired : BOOLEAN, range : F!Ranges]
    /\ corrections \in 0..MaxCorrections

(* The licenses the portfolios are made of.                                 *)
LEMMA LicensesAtFirst ==
    /\ License \in Licenses /\ Kept(License)
    /\ Support \in Licenses /\ Kept(Support)
    /\ Supported \in Licenses /\ Kept(Supported)
    /\ Purchased \in Licenses /\ Kept(Purchased)
<1>1. License \in Licenses /\ Kept(License) /\ License.type = "perpetual" /\ ~License.active /\ License.end = None
  BY DEF License, Licenses, Entered, F!Currencies, Kept
<1>2. \A n \in Int : n \in Entered
  BY DEF Entered
<1>3. Support \in Licenses /\ Kept(Support)
  <2>1. ASSUME NEW l \in Licenses, ~l.active, NEW a \in Entered, NEW b \in Entered
        PROVE  LET m == [l EXCEPT !.type = "maintenance", !.coverage = "not_applicable", !.start = a, !.end = b]
               IN m \in Licenses /\ Kept(m)
    BY <2>1 DEF Licenses, Kept
  <2>2. Support = [License EXCEPT !.type = "maintenance", !.coverage = "not_applicable", !.start = 13, !.end = 26]
    BY Zenon DEF Support
  <2>3. 13 \in Entered /\ 26 \in Entered
    BY <1>2
  <2> QED
    BY <1>1, <2>1, <2>2, <2>3, Zenon
<1>4. Supported \in Licenses /\ Kept(Supported)
  <2>1. ASSUME NEW l \in Licenses, l.end = None, NEW X \in SUBSET Nat, X # {}, NEW b \in BOOLEAN
        PROVE  LET m == [l EXCEPT !.linked = X, !.active = b]
               IN m \in Licenses /\ Kept(m)
    BY <2>1 DEF Licenses, Kept
  <2>2. Supported = [License EXCEPT !.linked = {3}, !.active = TRUE]
    BY Zenon DEF Supported
  <2>3. {3} \in SUBSET Nat /\ {3} # {} /\ TRUE \in BOOLEAN
    OBVIOUS
  <2> QED
    BY <1>1, <2>1, <2>2, <2>3, Zenon
<1>5. Purchased \in Licenses /\ Kept(Purchased)
  <2>1. ASSUME NEW l \in Licenses, ~l.active, NEW a \in Entered, NEW b \in Entered
        PROVE  LET m == [l EXCEPT !.type = "subscription", !.coverage = "unknown", !.po = "A", !.start = a, !.end = b]
               IN m \in Licenses /\ Kept(m)
    BY <2>1 DEF Licenses, Kept
  <2>2. Purchased = [License EXCEPT !.type = "subscription", !.coverage = "unknown", !.po = "A",
                                    !.start = 2, !.end = 14]
    BY Zenon DEF Purchased
  <2>3. 2 \in Entered /\ 14 \in Entered
    BY <1>2
  <2> QED
    BY <1>1, <2>1, <2>2, <2>3, Zenon
<1> QED
  BY <1>1, <1>3, <1>4, <1>5

(* A portfolio is of licenses.                                              *)
LEMMA PortfoliosAreLicenses ==
    ASSUME NEW portfolio \in Portfolios
    PROVE  portfolio \in [1..3 -> Licenses] /\ \A i \in 1..3 : Kept(portfolio[i])
<1> DEFINE Sound(l) == l \in Licenses /\ Kept(l)
<1>1. ASSUME NEW a, NEW b, NEW c, Sound(a), Sound(b), Sound(c), portfolio = <<a, b, c>>
      PROVE  portfolio \in [1..3 -> Licenses] /\ \A i \in 1..3 : Kept(portfolio[i])
  BY <1>1
<1>2. /\ ~License.active /\ ~Purchased.active /\ ~Support.active /\ License.end = None
      /\ \A n \in Int : n \in Entered
  BY DEF License, Purchased, Support, Entered
<1>3. Sound([Supported EXCEPT !.po = "A"])
  BY LicensesAtFirst DEF Licenses, Kept
<1>4. Sound([Support EXCEPT !.parents = {1, 2}, !.po = "A"])
  <2>1. ASSUME NEW l \in Licenses, Kept(l), NEW X \in SUBSET Nat
        PROVE  Sound([l EXCEPT !.parents = X, !.po = "A"])
    BY <2>1 DEF Licenses, Kept
  <2>2. {1, 2} \in SUBSET Nat
    OBVIOUS
  <2> HIDE DEF Sound
  <2> QED
    BY <2>1, <2>2, LicensesAtFirst
<1>5. Sound([License EXCEPT !.linked = {2}])
  <2>1. ASSUME NEW l \in Licenses, ~l.active, l.end = None, NEW X \in SUBSET Nat
        PROVE  Sound([l EXCEPT !.linked = X])
    BY <2>1 DEF Licenses, Kept
  <2>2. {2} \in SUBSET Nat
    OBVIOUS
  <2> HIDE DEF Sound
  <2> QED
    BY <1>2, <2>1, <2>2, LicensesAtFirst
<1>6. Sound([Support EXCEPT !.parents = {1}, !.start = 20])
  <2>1. ASSUME NEW l \in Licenses, Kept(l), NEW X \in SUBSET Nat, NEW n \in Entered
        PROVE  Sound([l EXCEPT !.parents = X, !.start = n])
    BY <2>1 DEF Licenses, Kept
  <2>2. {1} \in SUBSET Nat /\ 20 \in Entered
    BY <1>2
  <2> HIDE DEF Sound
  <2> QED
    BY <2>1, <2>2, LicensesAtFirst
<1>7. Sound([License EXCEPT !.type = "service", !.coverage = "not_applicable", !.renewable = TRUE,
                            !.start = 14, !.end = 26])
  <2>1. ASSUME NEW l \in Licenses, ~l.active, NEW b \in BOOLEAN, NEW m \in Entered, NEW n \in Entered
        PROVE  Sound([l EXCEPT !.type = "service", !.coverage = "not_applicable", !.renewable = b,
                               !.start = m, !.end = n])
    BY <2>1 DEF Licenses, Kept
  <2>2. TRUE \in BOOLEAN /\ 14 \in Entered /\ 26 \in Entered
    BY <1>2
  <2> HIDE DEF Sound
  <2> QED
    BY <1>2, <2>1, <2>2, LicensesAtFirst
<1>8. Sound([Purchased EXCEPT !.order = 1])
  BY LicensesAtFirst DEF Licenses, Kept
<1>9. Sound([License EXCEPT !.type = "freeware", !.price = None, !.coverage = "included", !.cost = 5,
                            !.from = 2, !.to = 26])
  <2>1. ASSUME NEW l \in Licenses, ~l.active, l.end = None, NEW m \in Entered, NEW n \in Entered,
               NEW a \in Entered, NEW b \in Entered
        PROVE  Sound([l EXCEPT !.type = "freeware", !.price = m, !.coverage = "included", !.cost = n,
                               !.from = a, !.to = b])
    BY <2>1 DEF Licenses, Kept
  <2>2. None \in Entered /\ 5 \in Entered /\ 2 \in Entered /\ 26 \in Entered
    BY <1>2 DEF Entered
  <2> HIDE DEF Sound
  <2> QED
    BY <1>2, <2>1, <2>2, LicensesAtFirst
<1>10. Sound(Supported) /\ Sound(Purchased)
  BY LicensesAtFirst
<1> HIDE DEF Sound
<1>11. \E a, b, c : Sound(a) /\ Sound(b) /\ Sound(c) /\ portfolio = <<a, b, c>>
  <2>1. CASE portfolio = <<Supported, [Supported EXCEPT !.po = "A"],
                           [Support EXCEPT !.parents = {1, 2}, !.po = "A"]>>
    BY <2>1, <1>3, <1>4, <1>10, Zenon
  <2>2. CASE portfolio = <<[License EXCEPT !.linked = {2}], [Support EXCEPT !.parents = {1}, !.start = 20],
                           [License EXCEPT !.type = "service", !.coverage = "not_applicable",
                                           !.renewable = TRUE, !.start = 14, !.end = 26]>>
    BY <2>2, <1>5, <1>6, <1>7, Zenon
  <2>3. CASE portfolio = <<[Purchased EXCEPT !.order = 1], Purchased,
                           [License EXCEPT !.type = "freeware", !.price = None, !.coverage = "included",
                                           !.cost = 5, !.from = 2, !.to = 26]>>
    BY <2>3, <1>8, <1>9, <1>10, Zenon
  <2> QED
    BY <2>1, <2>2, <2>3, Zenon DEF Portfolios
<1> QED
  BY <1>1, <1>11, Zenon

LEMMA ReportStart == F!Init => ReportInv
<1> SUFFICES ASSUME F!Init
             PROVE  ReportInv
  OBVIOUS
<1>1. licenses \in [1..3 -> Licenses] /\ \A i \in 1..3 : Kept(licenses[i])
  BY PortfoliosAreLicenses DEF F!Init
<1> QED
  BY <1>1, ReportsAssumption DEF F!Init, ReportInv, F!Ranges

(* A license that is saved keeps its support in step.                       *)
LEMMA LicenseSaved ==
    ASSUME NEW l \in Licenses, Kept(l)
    PROVE  F!Decorated(l) \in Licenses /\ Kept(F!Decorated(l))
<1>1. F!Decorated(l) \in Licenses
  BY DEF F!Decorated, Licenses
<1>2. Kept(F!Decorated(l))
  BY DEF F!Decorated, Licenses, Kept
<1> QED
  BY <1>1, <1>2

LEMMA ReportSave ==
    ASSUME ReportInv, NEW i \in 1..3, NEW l \in Licenses, Kept(l), F!Save(i, l)
    PROVE  ReportInv'
<1>1. F!Decorated(l) \in Licenses /\ Kept(F!Decorated(l))
  BY LicenseSaved
<1>2. corrections' \in 0..MaxCorrections
  BY ReportsAssumption DEF ReportInv, F!Save
<1> QED
  BY <1>1, <1>2 DEF ReportInv, F!Save

(* An edit of one field leaves a license.                                   *)
LEMMA LicenseEdited ==
    ASSUME NEW l \in Licenses, Kept(l), NEW n \in Entered
    PROVE  /\ [l EXCEPT !.price = n] \in Licenses /\ Kept([l EXCEPT !.price = n])
           /\ [l EXCEPT !.start = n] \in Licenses /\ Kept([l EXCEPT !.start = n])
           /\ [l EXCEPT !.override = n] \in Licenses /\ Kept([l EXCEPT !.override = n])
           /\ l.type \notin {"freeware", "perpetual"} =>
                 [l EXCEPT !.end = n] \in Licenses /\ Kept([l EXCEPT !.end = n])
           /\ \A cur \in F!Currencies : [l EXCEPT !.cur = cur] \in Licenses /\ Kept([l EXCEPT !.cur = cur])
           /\ \A po \in {"A", "B", None} : [l EXCEPT !.po = po] \in Licenses /\ Kept([l EXCEPT !.po = po])
           /\ \A b \in BOOLEAN : [l EXCEPT !.retired = b] \in Licenses /\ Kept([l EXCEPT !.retired = b])
           /\ \A a, b \in Entered :
                 LET m == [l EXCEPT !.cost = n, !.from = a, !.to = b]
                 IN m \in Licenses /\ Kept(m)
<1>1. [l EXCEPT !.price = n] \in Licenses /\ Kept([l EXCEPT !.price = n])
  BY DEF Licenses, Kept
<1>2. [l EXCEPT !.start = n] \in Licenses /\ Kept([l EXCEPT !.start = n])
  BY DEF Licenses, Kept
<1>3. [l EXCEPT !.override = n] \in Licenses /\ Kept([l EXCEPT !.override = n])
  BY DEF Licenses, Kept
<1>4. l.type \notin {"freeware", "perpetual"} => [l EXCEPT !.end = n] \in Licenses /\ Kept([l EXCEPT !.end = n])
  BY DEF Licenses, Kept
<1>5. \A cur \in F!Currencies : [l EXCEPT !.cur = cur] \in Licenses /\ Kept([l EXCEPT !.cur = cur])
  BY DEF Licenses, Kept
<1>6. \A po \in {"A", "B", None} : [l EXCEPT !.po = po] \in Licenses /\ Kept([l EXCEPT !.po = po])
  BY DEF Licenses, Kept
<1>7. \A b \in BOOLEAN : [l EXCEPT !.retired = b] \in Licenses /\ Kept([l EXCEPT !.retired = b])
  BY DEF Licenses, Kept
<1>8. ASSUME NEW a \in Entered, NEW b \in Entered
      PROVE  LET m == [l EXCEPT !.cost = n, !.from = a, !.to = b]
             IN m \in Licenses /\ Kept(m)
  BY DEF Licenses, Kept
<1> QED
  BY <1>1, <1>2, <1>3, <1>4, <1>5, <1>6, <1>7, <1>8

(* A license of another type or coverage is one still.                      *)
LEMMA LicenseTurned ==
    ASSUME NEW l \in Licenses, Kept(l)
    PROVE  /\ \A type \in {"freeware", "perpetual", "subscription"} :
                 F!OfType(l, type) \in Licenses /\ Kept(F!OfType(l, type))
           /\ \A coverage \in {"included", "separately_tracked", "unknown"} :
                 LET m == [l EXCEPT !.coverage = coverage]
                 IN /\ m \in Licenses /\ Kept(m)
                    /\ [m EXCEPT !.from = None, !.to = None, !.cost = None] \in Licenses
                    /\ Kept([m EXCEPT !.from = None, !.to = None, !.cost = None])
<1>1. ASSUME NEW type \in {"freeware", "perpetual", "subscription"}, NEW n \in Entered, n = None
      PROVE  /\ F!OfType(l, type) \in Licenses /\ Kept(F!OfType(l, type))
  BY <1>1 DEF F!OfType, Licenses, Kept
<1>2. ASSUME NEW coverage \in {"included", "separately_tracked", "unknown"}
      PROVE  [l EXCEPT !.coverage = coverage] \in Licenses /\ Kept([l EXCEPT !.coverage = coverage])
  BY <1>2 DEF Licenses, Kept
<1>3. ASSUME NEW m \in Licenses, Kept(m), NEW n \in Entered
      PROVE  LET o == [m EXCEPT !.from = n, !.to = n, !.cost = n]
             IN o \in Licenses /\ Kept(o)
  BY <1>3 DEF Licenses, Kept
<1>4. None \in Entered
  BY DEF Entered
<1> QED
  BY <1>1, <1>2, <1>3, <1>4

LEMMA ReportStep ==
    ASSUME ReportInv, F!Next
    PROVE  ReportInv'
<1>1. DOMAIN licenses = 1..3
  BY DEF ReportInv
<1>2. Amounts \union {None} \subseteq Entered /\ Days \union {None} \subseteq Entered
  BY ReportsAssumption DEF Entered
<1>3. \A i \in 1..3 : licenses[i] \in Licenses /\ Kept(licenses[i])
  BY DEF ReportInv
<1>4. ASSUME NEW i \in 1..3,
             \/ F!PatchPrice(i) \/ F!PatchStart(i) \/ F!PatchEnd(i) \/ F!PatchCurrency(i) \/ F!PatchPoNumber(i)
             \/ F!PatchType(i) \/ F!PatchCoverage(i) \/ F!EditIncludedSupport(i) \/ F!Retire(i)
      PROVE  ReportInv'
  <2>1. CASE F!PatchPrice(i)
    <3>1. PICK n \in Amounts \union {None} : F!Save(i, [licenses[i] EXCEPT !.price = n])
      BY <2>1 DEF F!PatchPrice, F!Empty
    <3> QED
      BY <1>2, <1>3, <3>1, LicenseEdited, ReportSave
  <2>2. CASE F!PatchStart(i)
    <3>1. PICK n \in Days \union {None} : F!Save(i, [licenses[i] EXCEPT !.start = n])
      BY <2>2 DEF F!PatchStart, F!Empty
    <3> QED
      BY <1>2, <1>3, <3>1, LicenseEdited, ReportSave
  <2>3. CASE F!PatchEnd(i)
    <3>1. PICK n \in Days \union {None} : F!Save(i, [licenses[i] EXCEPT !.end = n])
      BY <2>3 DEF F!PatchEnd, F!Empty
    <3>2. licenses[i].type \notin {"freeware", "perpetual"}
      BY <2>3 DEF F!PatchEnd
    <3> QED
      BY <1>2, <1>3, <3>1, <3>2, LicenseEdited, ReportSave
  <2>4. CASE F!PatchCurrency(i)
    <3>1. PICK cur \in F!Currencies : F!Save(i, [licenses[i] EXCEPT !.cur = cur])
      BY <2>4 DEF F!PatchCurrency
    <3>2. None \in Entered
      BY DEF Entered
    <3> QED
      BY <1>3, <3>1, <3>2, LicenseEdited, ReportSave
  <2>5. CASE F!PatchPoNumber(i)
    <3>1. PICK po \in {"A", "B", None} : F!Save(i, [licenses[i] EXCEPT !.po = po])
      BY <2>5 DEF F!PatchPoNumber, F!Empty
    <3>2. None \in Entered
      BY DEF Entered
    <3> QED
      BY <1>3, <3>1, <3>2, LicenseEdited, ReportSave
  <2>6. CASE F!PatchType(i)
    <3>1. PICK type \in {"freeware", "perpetual", "subscription"} : F!Save(i, F!OfType(licenses[i], type))
      BY <2>6 DEF F!PatchType
    <3> QED
      BY <1>3, <3>1, LicenseTurned, ReportSave
  <2>7. CASE F!PatchCoverage(i)
    <3>1. PICK coverage \in {"included", "separately_tracked", "unknown"} :
              LET m == [licenses[i] EXCEPT !.coverage = coverage]
              IN F!Save(i, m) \/ F!Save(i, [m EXCEPT !.from = None, !.to = None, !.cost = None])
      BY <2>7 DEF F!PatchCoverage
    <3> QED
      BY <1>3, <3>1, LicenseTurned, ReportSave
  <2>8. CASE F!EditIncludedSupport(i)
    <3>1. PICK n \in Amounts \union {None}, a \in Days \union {None}, b \in Days \union {None} :
              F!Save(i, [licenses[i] EXCEPT !.cost = n, !.from = a, !.to = b])
      BY <2>8 DEF F!EditIncludedSupport, F!Empty
    <3> DEFINE m == [licenses[i] EXCEPT !.cost = n, !.from = a, !.to = b]
    <3>2. m \in Licenses /\ Kept(m)
      <4>1. n \in Entered /\ a \in Entered /\ b \in Entered /\ licenses[i] \in Licenses /\ Kept(licenses[i])
        BY <1>2, <1>3
      <4> QED
        BY <4>1, LicenseEdited
    <3>3. F!Save(i, m)
      BY <3>1
    <3> HIDE DEF m
    <3> QED
      BY <3>2, <3>3, ReportSave
  <2>9. CASE F!Retire(i)
    <3>1. PICK b \in BOOLEAN : F!Save(i, [licenses[i] EXCEPT !.retired = b])
      BY <2>9 DEF F!Retire
    <3>2. None \in Entered
      BY DEF Entered
    <3> QED
      BY <1>3, <3>1, <3>2, LicenseEdited, ReportSave
  <2> QED
    BY <1>4, <2>1, <2>2, <2>3, <2>4, <2>5, <2>6, <2>7, <2>8, <2>9
<1>5. ASSUME NEW i \in 1..3, F!SetPoTotal(i)
      PROVE  ReportInv'
  <2>1. PICK total \in Amounts \union {None} :
            licenses' = [j \in 1..3 |-> IF j \in F!Purchase(i) THEN F!Decorated([licenses[j] EXCEPT !.override = total])
                                                             ELSE licenses[j]]
    BY <1>1, <1>5 DEF F!SetPoTotal, F!Empty
  <2>2. \A j \in 1..3 : LET l == F!Decorated([licenses[j] EXCEPT !.override = total])
                        IN l \in Licenses /\ Kept(l)
    BY <1>2, <1>3, LicenseEdited, LicenseSaved
  <2>3. licenses' \in [1..3 -> Licenses] /\ \A j \in 1..3 : Kept(licenses'[j])
    BY <1>3, <2>1, <2>2
  <2>4. filters' = filters /\ corrections' \in 0..MaxCorrections
    BY <1>5, ReportsAssumption DEF F!SetPoTotal, ReportInv
  <2> QED
    BY <2>3, <2>4 DEF ReportInv
<1>6. CASE F!SetFilters
  BY <1>6 DEF F!SetFilters, ReportInv, F!Ranges, F!StartOfYear, F!YearDays
<1> QED
  BY <1>1, <1>4, <1>5, <1>6 DEF F!Next

(* Steps of other areas leave the reports alone.                            *)
LEMMA ReportKept ==
    ASSUME ReportInv, MCNext \/ UNCHANGED reported
    PROVE  ReportInv'
<1>1. CASE UNCHANGED reported
  BY <1>1 DEF reported, ReportInv, F!Ranges, F!StartOfYear
<1>2. CASE F!Next
  BY <1>2, ReportStep
<1> QED
  BY <1>1, <1>2 DEF MCNext, reported

(* The reports count as everybody does.                                     *)
LEMMA ReportCounts ==
    ASSUME NEW U
    PROVE  F!Cardinality(U) = Cardinality(U)
BY DEF F!Cardinality, Cardinality

(* An amount divided is rounded to the nearest unit.                        *)
LEMMA RoundedToNearest ==
    ASSUME NEW n \in Int, NEW d \in Nat \ {0}
    PROVE  /\ F!Rounded(n, d) \in Int
           /\ 2 * (d * F!Rounded(n, d)) <= 2 * n + d
           /\ 2 * n - d < 2 * (d * F!Rounded(n, d))
<1> DEFINE a == 2 * n + d
           b == 2 * d
           q == a \div b
<1>1. a \in Int /\ b \in Nat \ {0}
  OBVIOUS
<1>2. q \in Int /\ b * q <= a /\ a < b * q + b
  <2> HIDE DEF a, b
  <2> QED
    BY <1>1
<1>3. F!Rounded(n, d) = q
  BY DEF F!Rounded
<1> HIDE DEF q
<1>4. 2 * (d * q) = b * q
  BY <1>2
<1> QED
  BY <1>2, <1>3, <1>4

(* Terms are finite, and amounts numbers.                                   *)
LEMMA TermsAndAmounts ==
    ASSUME NEW l \in Licenses
    PROVE  /\ F!LineValue(l).amount \in Int /\ F!RecurringValue(l).amount \in Int
           /\ F!Value(l.price).amount \in Int
           /\ (l.cost # None => l.cost \in Int) /\ (l.override # None => l.override \in Int)
           /\ F!Term(l) \in SUBSET Int /\ IsFiniteSet(F!Term(l)) /\ Cardinality(F!Term(l)) \in Nat
           /\ F!Term(l) # {} => Cardinality(F!Term(l)) \in Nat \ {0}
<1>1. \A amount \in Entered : F!Value(amount).amount \in Int
  BY DEF Entered, F!Value
<1>2. l.price \in Entered /\ l.cost \in Entered
  BY DEF Licenses
<1>3. F!LineValue(l).amount \in Int
  <2>1. 0 \in Entered
    BY DEF Entered
  <2> QED
    BY <1>1, <1>2, <2>1 DEF F!LineValue
<1>4. F!RecurringValue(l).amount \in Int
  BY <1>1, <1>2, <1>3 DEF F!RecurringValue
<1>5. ASSUME NEW a \in Entered, NEW b \in Entered
      PROVE  F!Period(a, b) \in SUBSET Int /\ IsFiniteSet(F!Period(a, b))
  <2>1. CASE None \in {a, b}
    BY <2>1, FS_EmptySet DEF F!Period
  <2>2. CASE None \notin {a, b}
    <3>1. a \in Int /\ b \in Int /\ F!Period(a, b) = a..b
      BY <2>2 DEF F!Period, Entered
    <3>2. IsFiniteSet(a..b)
      BY <3>1, FS_Interval
    <3> QED
      BY <3>1, <3>2
  <2> QED
    BY <2>1, <2>2
<1>6. F!Term(l) \in SUBSET Int /\ IsFiniteSet(F!Term(l))
  BY <1>5 DEF F!Term, Licenses
<1>7. Cardinality(F!Term(l)) \in Nat /\ (F!Term(l) # {} => Cardinality(F!Term(l)) # 0)
  BY <1>6, FS_CardinalityType, FS_EmptySet
<1> QED
  BY <1>1, <1>2, <1>3, <1>4, <1>6, <1>7 DEF Licenses, Entered

(* So are the parts of them.                                                *)
LEMMA PartsOfAmounts ==
    ASSUME NEW l \in Licenses, NEW range
    PROVE  F!ReportAmount(l, range) \in Int /\ F!SpendAmount(l, range) \in Int /\ F!Annual(l) \in Int
           /\ F!Share(F!RecurringValue(l).amount, F!Term(l), range) \in Int
<1>1. ASSUME NEW amount \in Int
      PROVE  F!Share(amount, F!Term(l), range) \in Int
  <2>1. CASE range = F!AllTerms \/ F!Term(l) = {}
    BY <2>1 DEF F!Share
  <2>2. CASE ~(range = F!AllTerms \/ F!Term(l) = {})
    <3>1. F!Term(l) \intersect range \in SUBSET F!Term(l)
      OBVIOUS
    <3>2. Cardinality(F!Term(l) \intersect range) \in Nat
      BY <3>1, TermsAndAmounts, FS_Subset, FS_CardinalityType
    <3> QED
      BY <2>2, <3>2, TermsAndAmounts, ReportCounts, RoundedToNearest DEF F!Share
  <2> QED
    BY <2>1, <2>2
<1>2. F!Annual(l) \in Int
  <2>1. F!YearDays \in Nat
    BY DEF F!YearDays
  <2>2. CASE Cardinality(F!Term(l)) > F!OneYearMax
    <3>1. Cardinality(F!Term(l)) \in Nat \ {0} /\ F!RecurringValue(l).amount * F!YearDays \in Int
      BY <2>1, <2>2, TermsAndAmounts DEF F!OneYearMax
    <3> QED
      BY <2>2, <3>1, ReportCounts, RoundedToNearest DEF F!Annual, F!Annualized
  <2>3. CASE ~(Cardinality(F!Term(l)) > F!OneYearMax)
    BY <2>3, ReportCounts, TermsAndAmounts DEF F!Annual, F!Annualized
  <2> QED
    BY <2>2, <2>3
<1> QED
  BY <1>1, <1>2, TermsAndAmounts DEF F!ReportAmount, F!SpendAmount

(* The licenses of a currency that the filters let through.                 *)
LEMMA LicensesOf ==
    ASSUME ReportInv
    PROVE  /\ DOMAIN licenses = 1..3 /\ IsFiniteSet(1..3)
           /\ \A i \in 1..3 : licenses[i] \in Licenses /\ Kept(licenses[i])
           /\ F!Filtered \in SUBSET (1..3)
           /\ \A cur : F!In(cur) \in SUBSET (1..3) /\ F!Counted(cur) \in SUBSET F!In(cur)
           /\ \A s \in SUBSET (1..3) : IsFiniteSet(s) /\ IsFiniteSet(SUBSET s)
<1>1. DOMAIN licenses = 1..3 /\ \A i \in 1..3 : licenses[i] \in Licenses /\ Kept(licenses[i])
  BY DEF ReportInv
<1>2. F!Filtered \in SUBSET (1..3)
  BY <1>1 DEF F!Filtered
<1>3. \A cur : F!In(cur) \in SUBSET (1..3) /\ F!Counted(cur) \in SUBSET F!In(cur)
  BY <1>2 DEF F!In, F!Counted
<1>4. IsFiniteSet(1..3)
  <2>1. \A m, n \in Int : IsFiniteSet(m..n)
    BY FS_Interval
  <2>2. 1 \in Int /\ 3 \in Int
    OBVIOUS
  <2> QED
    BY <2>1, <2>2, Zenon
<1>5. \A s \in SUBSET (1..3) : IsFiniteSet(s) /\ IsFiniteSet(SUBSET s)
  BY <1>4, FS_Subset, FS_SUBSET
<1> QED
  BY <1>1, <1>2, <1>3, <1>4, <1>5

(* Lines that are not the same add up.                                      *)
LEMMA LinesSplit ==
    ASSUME NEW f, \A i \in 1..3 : f[i] \in Int,
           NEW V \in SUBSET (1..3), NEW W \in SUBSET (1..3), V \intersect W = {}
    PROVE  Worth(f, V \union W) = Worth(f, V) + Worth(f, W)
<1>1. IsFiniteSet(V) /\ IsFiniteSet(W)
  <2>1. 1 \in Int /\ 3 \in Int
    OBVIOUS
  <2>2. IsFiniteSet(1..3)
    BY <2>1, FS_Interval, Zenon
  <2> QED
    BY <2>2, FS_Subset
<1>2. (\A i \in V : f[i] \in Int) /\ \A i \in W : f[i] \in Int
  OBVIOUS
<1> QED
  BY <1>1, <1>2, WorthSplits

(* The sum of what lines spend, whatever lines they are.                    *)
Spent == [i \in 1..3 |-> F!SpendAmount(licenses[i], F!Chosen)]
Reported == [i \in 1..3 |-> F!ReportAmount(licenses[i], F!Chosen)]

LEMMA SumsOfLines ==
    ASSUME ReportInv, NEW U \in SUBSET (1..3)
    PROVE  /\ \A i \in 1..3 : Spent[i] \in Int /\ Reported[i] \in Int
           /\ F!LineTotal(U) = Worth(Spent, U) /\ Worth(Spent, U) \in Int
           /\ F!Sum(U, LAMBDA i : F!ReportAmount(licenses[i], F!Chosen)) = Worth(Reported, U)
           /\ Worth(Reported, U) \in Int
<1>1. \A i \in 1..3 : Spent[i] \in Int /\ Reported[i] \in Int
  BY LicensesOf, PartsOfAmounts DEF Spent, Reported
<1>2. IsFiniteSet(U)
  BY LicensesOf
<1>3. F!LineTotal(U) = Worth(Spent, U)
  <2> DEFINE f == [i \in U |-> F!SpendAmount(licenses[i], F!Chosen)]
  <2>1. F!LineTotal(U) = F!SumFunctionOnSet(f, U)
    BY DEF F!LineTotal, F!Sum
  <2>2. \A i \in U : f[i] = Spent[i]
    BY DEF Spent
  <2> HIDE DEF f
  <2> QED
    BY <1>1, <1>2, <2>1, <2>2, SumOf
<1>4. F!Sum(U, LAMBDA i : F!ReportAmount(licenses[i], F!Chosen)) = Worth(Reported, U)
  <2> DEFINE f == [i \in U |-> F!ReportAmount(licenses[i], F!Chosen)]
  <2>1. F!Sum(U, LAMBDA i : F!ReportAmount(licenses[i], F!Chosen)) = F!SumFunctionOnSet(f, U)
    BY DEF F!Sum
  <2>2. \A i \in U : f[i] = Reported[i]
    BY DEF Reported
  <2> HIDE DEF f
  <2> QED
    BY <1>1, <1>2, <2>1, <2>2, SumOf
<1>5. Worth(Spent, U) \in Int /\ Worth(Reported, U) \in Int
  BY <1>1, <1>2, SumIsWorth
<1> QED
  BY <1>1, <1>3, <1>4, <1>5

(* Publishers and the overview: a free license without support paid with it *)
(* is worth nothing.                                                        *)
LEMMA PublishersAgree ==
    ASSUME ReportInv, F!Chosen = F!AllTerms, NEW cur
    PROVE  F!PublisherSpend(cur) = F!LicenseSpend(cur)
<1> DEFINE free == F!In(cur) \ F!Counted(cur)
<1>1. F!PublisherSpend(cur) = Worth(Reported, F!In(cur))
  BY LicensesOf, SumsOfLines DEF F!PublisherSpend
<1>2. F!LicenseSpend(cur) = Worth(Spent, F!Counted(cur)) /\ Worth(Spent, F!Counted(cur)) \in Int
  BY LicensesOf, SumsOfLines DEF F!LicenseSpend
<1>3. \A i \in 1..3 : Reported[i] = Spent[i]
  BY DEF Reported, Spent, F!ReportAmount, F!SpendAmount
<1>4. \A i \in free : Spent[i] = 0
  <2> SUFFICES ASSUME NEW i \in free
               PROVE  Spent[i] = 0
    OBVIOUS
  <2>1. i \in 1..3 /\ licenses[i].type = "freeware" /\ licenses[i].coverage # "included"
    BY LicensesOf DEF F!Counted
  <2>2. F!LineValue(licenses[i]).amount = 0
    BY <2>1 DEF F!LineValue, F!Value
  <2> QED
    BY <2>1, <2>2 DEF Spent, F!SpendAmount
<1>5. F!In(cur) = F!Counted(cur) \union free /\ F!Counted(cur) \intersect free = {}
      /\ F!Counted(cur) \in SUBSET (1..3) /\ free \in SUBSET (1..3) /\ F!In(cur) \in SUBSET (1..3)
  BY LicensesOf
<1> HIDE DEF free
<1>6. Worth(Spent, F!Counted(cur) \union free) = Worth(Spent, F!Counted(cur)) + Worth(Spent, free)
  BY <1>5, SumsOfLines, LinesSplit
<1>7. Worth(Spent, free) = 0
  BY <1>4, WorthNothing
<1>8. Worth(Reported, F!In(cur)) = Worth(Spent, F!In(cur))
  BY <1>3, <1>5, SameWorth
<1> QED
  BY <1>1, <1>2, <1>5, <1>6, <1>7, <1>8

(* The lines of a budgeted status, and what they are worth.                 *)
BudgetLines(cur, s) == {i \in F!In(cur) : F!BudgetStatus(licenses[i]) = s}

LEMMA BudgetOf ==
    ASSUME ReportInv, NEW cur, NEW s \in F!Budgeted
    PROVE  /\ BudgetLines(cur, s) \in SUBSET (1..3)
           /\ F!Budget(cur)[s] = Worth(Reported, BudgetLines(cur, s)) /\ F!Budget(cur)[s] \in Int
<1>1. BudgetLines(cur, s) \in SUBSET (1..3)
  BY LicensesOf DEF BudgetLines
<1>2. F!Budget(cur)[s] = F!Sum(BudgetLines(cur, s), LAMBDA i : F!ReportAmount(licenses[i], F!Chosen))
  BY DEF F!Budget, BudgetLines
<1> QED
  BY <1>1, <1>2, SumsOfLines

(* A license that has begun and is not retired has one status of the        *)
(* budget.                                                                  *)
LEMMA BudgetsAgree ==
    ASSUME ReportInv, NEW cur,
           \A i \in F!In(cur) : F!Status(licenses[i]) \notin {"upcoming", "retired"}
    PROVE  F!PublisherSpend(cur) = F!Sum(F!Budgeted, LAMBDA s : F!Budget(cur)[s])
<1> DEFINE K == F!Budgeted
           W == F!In(cur)
           kind == [i \in W |-> F!BudgetStatus(licenses[i])]
           w == [s \in K |-> F!Budget(cur)[s]]
           part == [s \in K |-> BudgetLines(cur, s)]
<1>1. F!PublisherSpend(cur) = Worth(Reported, W)
  BY LicensesOf, SumsOfLines DEF F!PublisherSpend
<1>2. IsFiniteSet(W) /\ W \in SUBSET (1..3) /\ \A i \in W : Reported[i] \in Int
  BY LicensesOf, SumsOfLines
<1>3. kind \in [W -> K]
  <2> SUFFICES ASSUME NEW i \in F!In(cur)
               PROVE  F!BudgetStatus(licenses[i]) \in F!Budgeted
    OBVIOUS
  <2>1. F!Status(licenses[i]) \in {"active", "perpetual", "expiring", "expired", "upcoming", "retired"}
    BY DEF F!Status
  <2> QED
    BY <2>1 DEF F!BudgetStatus, F!Budgeted
<1>4. IsFiniteSet(K)
  <2>1. K = {"active"} \union {"expiring"} \union {"expired"}
    BY DEF F!Budgeted
  <2> HIDE DEF K
  <2> QED
    BY <2>1, FS_Singleton, FS_Union
<1>5. \A s \in K : w[s] = Worth(Reported, part[s]) /\ w[s] \in Int
  BY BudgetOf
<1>6. Sorted(W, kind, K, part)
  BY <1>3 DEF Sorted, BudgetLines
<1>7. F!Sum(K, LAMBDA s : F!Budget(cur)[s]) = F!SumFunctionOnSet(w, K)
  BY DEF F!Sum
<1> HIDE DEF K, w, kind, W, part
<1>8. F!SumFunctionOnSet(w, K) = Worth(w, K)
  BY <1>4, <1>5, SumOf
<1>9. Worth(w, K) = Worth(Reported, W)
  <2>1. \A s \in K : w[s] = Worth(Reported, part[s])
    BY <1>5
  <2>2. IsFiniteSet(W) /\ \A i \in W : Reported[i] \in Int
    BY <1>2
  <2> QED
    BY <1>4, <1>6, <2>1, <2>2, WorthByKind
<1> QED
  BY <1>1, <1>7, <1>8, <1>9 DEF K

(* Over a range the budget cuts a recurring line to the range as the        *)
(* overview does.                                                           *)
LEMMA RecurringIsBudgeted ==
    ASSUME ReportInv, NEW cur, F!Chosen # F!AllTerms,
           \A i \in F!In(cur) : F!BudgetStatus(licenses[i]) \in {"active", "expiring"}
                                   => F!isRecurringLicense(licenses[i])
    PROVE  F!RecurringCost(cur) = F!Budget(cur)["active"] + F!Budget(cur)["expiring"]
<1> DEFINE A == BudgetLines(cur, "active")
           E == BudgetLines(cur, "expiring")
           f == [i \in F!ForecastActive(cur) |->
                    IF F!Chosen = F!AllTerms THEN F!Annual(licenses[i])
                    ELSE F!Share(F!RecurringValue(licenses[i]).amount, F!Term(licenses[i]), F!Chosen)]
<1>1. "active" \in F!Budgeted /\ "expiring" \in F!Budgeted
  BY DEF F!Budgeted
<1>2. A \in SUBSET (1..3) /\ E \in SUBSET (1..3) /\ A \intersect E = {}
  BY <1>1, BudgetOf DEF BudgetLines
<1>3. F!ForecastActive(cur) = A \union E
  BY DEF F!ForecastActive, BudgetLines, F!BudgetStatus
<1>4. F!RecurringCost(cur) = F!SumFunctionOnSet(f, A \union E)
  BY <1>3 DEF F!RecurringCost, F!Sum
<1>5. \A i \in A \union E : f[i] = Reported[i]
  BY <1>2, <1>3 DEF Reported, F!ReportAmount, F!ForecastActive
<1>6. (\A i \in 1..3 : Reported[i] \in Int) /\ IsFiniteSet(A \union E)
  BY <1>2, LicensesOf, SumsOfLines
<1> HIDE DEF A, E, f
<1>7. F!SumFunctionOnSet(f, A \union E) = Worth(Reported, A \union E)
  BY <1>2, <1>5, <1>6, SumOf
<1>8. Worth(Reported, A \union E) = Worth(Reported, A) + Worth(Reported, E)
  BY <1>2, <1>6, LinesSplit
<1> QED
  BY <1>1, <1>4, <1>7, <1>8, BudgetOf DEF A, E

(* The first line that carries a manual total has a total.                  *)
LEMMA OrderTotals ==
    ASSUME ReportInv, NEW U \in SUBSET (1..3)
    PROVE  F!PoTotal(U) \in Int
<1>1. CASE F!Overrides(U) # {}
  <2>1. F!Overrides(U) \in SUBSET Nat /\ F!Overrides(U) \subseteq 1..3
    <3> SUFFICES ASSUME NEW u \in F!Overrides(U)
                 PROVE  u \in Nat /\ u \in 1..3
      OBVIOUS
    <3>1. u \in U
      BY DEF F!Overrides
    <3> QED
      BY <3>1
  <2>2. \E m \in F!Overrides(U) : \A n \in F!Overrides(U) : m <= n
    BY <1>1, <2>1, LeastNumber
  <2>3. F!Min(F!Overrides(U)) \in F!Overrides(U)
    BY <2>2 DEF F!Min
  <2>4. licenses[F!Min(F!Overrides(U))].override \in Int
    BY <2>1, <2>3, LicensesOf, TermsAndAmounts DEF F!Overrides
  <2> QED
    BY <1>1, <2>4 DEF F!PoTotal, F!Override
<1>2. CASE F!Overrides(U) = {}
  BY <1>2, SumsOfLines DEF F!PoTotal
<1> QED
  BY <1>1, <1>2

(* Purchase orders of the report and of the overview: the lines without a   *)
(* number are a row of the report.                                          *)
LEMMA OrdersAgree ==
    ASSUME ReportInv, NEW cur, F!Overrides(F!Unkeyed(cur)) = {}
    PROVE  F!PoReportTotal(cur) = F!PoSpend(cur)
<1> DEFINE rows == F!Orders(cur)
           rest == {F!Unkeyed(cur)} \ {{}}
           lots == SUBSET (1..3)
           w == [row \in lots |-> F!PoTotal(row)]
<1>1. F!Counted(cur) \in SUBSET (1..3) /\ F!Unkeyed(cur) \in SUBSET (1..3) /\ IsFiniteSet(lots)
  BY LicensesOf DEF F!Unkeyed
<1>2. rows \in SUBSET lots /\ rest \in SUBSET lots /\ rows \intersect rest = {}
  <2>1. rows \in SUBSET lots
    BY <1>1 DEF F!Orders
  <2>2. \A row \in rows : row # F!Unkeyed(cur)
    BY DEF F!Orders, F!Unkeyed
  <2> QED
    BY <1>1, <2>1, <2>2
<1>3. \A row \in lots : w[row] \in Int /\ w[row] = F!PoTotal(row)
  BY OrderTotals
<1>4. F!PoTotal(F!Unkeyed(cur)) = F!LineTotal(F!Unkeyed(cur))
  BY DEF F!PoTotal
<1>5. IsFiniteSet(rows) /\ IsFiniteSet(rest) /\ rows \union rest \in SUBSET lots /\ IsFiniteSet(rows \union rest)
  <2> HIDE DEF rows, rest, lots
  <2>1. rows \union rest \in SUBSET lots
    BY <1>2
  <2> QED
    BY <1>1, <1>2, <2>1, FS_Subset
<1>6. ASSUME NEW some \in SUBSET lots, IsFiniteSet(some)
      PROVE  F!Sum(some, F!PoTotal) = Worth(w, some) /\ Worth(w, some) \in Int
  <2> DEFINE f == [row \in some |-> F!PoTotal(row)]
  <2>1. F!Sum(some, F!PoTotal) = F!SumFunctionOnSet(f, some)
    BY DEF F!Sum
  <2>2. \A row \in some : f[row] = w[row] /\ w[row] \in Int
    BY <1>3
  <2> HIDE DEF f, w
  <2> QED
    BY <1>6, <2>1, <2>2, SumOf
<1>7. F!PoReportTotal(cur) = Worth(w, rows \union rest)
  <2>1. F!PoRows(cur) = rows \union rest
    BY DEF F!PoRows
  <2>2. F!PoReportTotal(cur) = F!Sum(rows \union rest, F!PoTotal)
    BY <2>1 DEF F!PoReportTotal, F!Sum
  <2> QED
    BY <1>5, <1>6, <2>2
<1>8. F!PoSpend(cur) = F!LineTotal(F!Unkeyed(cur)) + Worth(w, rows)
  <2>1. F!PoSpend(cur) = F!LineTotal(F!Unkeyed(cur)) + F!Sum(rows, F!PoTotal)
    BY DEF F!PoSpend
  <2> QED
    BY <1>2, <1>5, <1>6, <2>1
<1>9. Worth(w, rows \union rest) = Worth(w, rows) + Worth(w, rest)
  <2>1. (\A row \in rows : w[row] \in Int) /\ \A row \in rest : w[row] \in Int
    BY <1>2, <1>3
  <2> HIDE DEF rows, rest, w, lots
  <2> QED
    BY <1>2, <1>5, <2>1, WorthSplits
<1>10. Worth(w, rest) = F!LineTotal(F!Unkeyed(cur))
  <2>1. CASE F!Unkeyed(cur) = {}
    <3>1. rest = {}
      BY <2>1
    <3>2. Worth(w, {}) = 0 /\ Worth(Spent, {}) = 0
      BY WorthNothing
    <3>3. F!LineTotal({}) = Worth(Spent, {})
      <4>1. {} \in SUBSET (1..3)
        OBVIOUS
      <4> QED
        BY <4>1, SumsOfLines
    <3> QED
      BY <2>1, <3>1, <3>2, <3>3
  <2>2. CASE F!Unkeyed(cur) # {}
    <3>1. rest = {F!Unkeyed(cur)}
      BY <2>2
    <3>2. w[F!Unkeyed(cur)] = F!PoTotal(F!Unkeyed(cur)) /\ w[F!Unkeyed(cur)] \in Int
      BY <1>1, <1>3
    <3> HIDE DEF rest, w, lots
    <3>3. Worth(w, {F!Unkeyed(cur)}) = w[F!Unkeyed(cur)]
      BY <3>2, WorthOfOne
    <3> QED
      BY <1>4, <3>1, <3>2, <3>3
  <2> QED
    BY <2>1, <2>2
<1>11. Worth(w, rows) \in Int /\ F!LineTotal(F!Unkeyed(cur)) \in Int
  BY <1>1, <1>2, <1>5, <1>6, SumsOfLines
<1> QED
  BY <1>7, <1>8, <1>9, <1>10, <1>11

LEMMA SpendIsOne ==
    ASSUME ReportInv
    PROVE  F!SpendAgrees
<1> SUFFICES ASSUME NEW cur \in F!Currencies
             PROVE  /\ F!Chosen = F!AllTerms => F!PublisherSpend(cur) = F!LicenseSpend(cur)
                    /\ (\A i \in F!In(cur) : F!Status(licenses[i]) \notin {"upcoming", "retired"})
                       => F!PublisherSpend(cur) = F!Sum(F!Budgeted, LAMBDA s : F!Budget(cur)[s])
                    /\ (F!Chosen # F!AllTerms /\ \A i \in F!In(cur) :
                            F!BudgetStatus(licenses[i]) \in {"active", "expiring"}
                            => F!isRecurringLicense(licenses[i]))
                       => F!RecurringCost(cur) = F!Budget(cur)["active"] + F!Budget(cur)["expiring"]
                    /\ F!Overrides(F!Unkeyed(cur)) = {} => F!PoReportTotal(cur) = F!PoSpend(cur)
  BY DEF F!SpendAgrees, F!Sum
<1> QED
  BY PublishersAgree, BudgetsAgree, RecurringIsBudgeted, OrdersAgree DEF F!Sum

(* A row of the registry adds up what a row of the report does.             *)
LEMMA RegistryIsOne ==
    ASSUME ReportInv
    PROVE  F!RegistryAgrees
<1> SUFFICES ASSUME NEW cur \in F!Currencies, NEW row \in F!Orders(cur), NEW i \in row,
                    F!Chosen = F!AllTerms, F!Purchase(i) = row,
                    \A j \in row : ~licenses[j].retired /\ licenses[j].type # "freeware"
             PROVE  F!RegistryTotal(i) = F!PoTotal(row)
  BY DEF F!RegistryAgrees
<1>1. row \in SUBSET (1..3) /\ IsFiniteSet(row)
  <2>1. row \in SUBSET (1..3)
    BY LicensesOf DEF F!Orders
  <2> QED
    BY <2>1, LicensesOf
<1>2. {j \in F!Purchase(i) : ~licenses[j].retired} = row
  OBVIOUS
<1>3. CASE F!Overrides(row) # {}
  BY <1>2, <1>3 DEF F!RegistryTotal, F!PoTotal
<1>4. CASE F!Overrides(row) = {}
  <2> DEFINE f == [j \in row |-> F!Value(licenses[j].price).amount]
  <2>1. F!RegistryTotal(i) = F!SumFunctionOnSet(f, row)
    BY <1>2, <1>4 DEF F!RegistryTotal, F!Sum
  <2>2. F!PoTotal(row) = Worth(Spent, row)
    BY <1>1, <1>4, SumsOfLines DEF F!PoTotal
  <2>3. \A j \in row : f[j] = Spent[j] /\ Spent[j] \in Int
    <3> SUFFICES ASSUME NEW j \in row
                 PROVE  f[j] = Spent[j] /\ Spent[j] \in Int
      OBVIOUS
    <3>1. j \in 1..3 /\ licenses[j].type # "freeware"
      BY <1>1
    <3> QED
      BY <3>1, SumsOfLines DEF Spent, F!SpendAmount, F!LineValue
  <2> HIDE DEF f
  <2>4. F!SumFunctionOnSet(f, row) = Worth(Spent, row)
    <3>1. IsFiniteSet(row)
      BY <1>1
    <3> QED
      BY <3>1, <2>3, SumOf
  <2> QED
    BY <2>1, <2>2, <2>4
<1> QED
  BY <1>3, <1>4

(* What is in force recurs, and what recurs is in force.                    *)
LEMMA BaselineIsOne ==
    ASSUME ReportInv
    PROVE  F!BaselineIsRecurringCost
<1> SUFFICES ASSUME NEW cur \in F!Currencies, F!Chosen = F!AllTerms,
                    \A i \in F!ForecastActive(cur) : F!SupportIsIncluded(licenses[i]) => F!SupportIsCurrent(licenses[i])
             PROVE  F!Baseline(cur) = F!RecurringCost(cur)
  BY DEF F!BaselineIsRecurringCost
<1> DEFINE V == F!ForecastActive(cur)
           f == [i \in V |-> F!Annual(licenses[i])]
           g == [i \in V |-> IF F!Chosen = F!AllTerms THEN F!Annual(licenses[i])
                             ELSE F!Share(F!RecurringValue(licenses[i]).amount, F!Term(licenses[i]), F!Chosen)]
<1>1. F!RecurringRecords(cur) = V
  BY DEF F!RecurringRecords
<1>2. F!Baseline(cur) = F!SumFunctionOnSet(f, V)
  BY <1>1 DEF F!Baseline, F!Sum
<1>3. F!RecurringCost(cur) = F!SumFunctionOnSet(g, V)
  BY DEF F!RecurringCost, F!Sum
<1>4. f = g
  OBVIOUS
<1> QED
  BY <1>2, <1>3, <1>4, Zenon

(* What a record of support is worth.                                       *)
Recorded == [m \in 1..3 |-> F!RecordValue(m).amount]

(* Support counts once: what no row counts is not known.                    *)
LEMMA SupportIsOne ==
    ASSUME ReportInv
    PROVE  F!SupportCountsOnce
<1> SUFFICES ASSUME NEW cur \in F!Currencies,
                    \A p \in F!Perpetual : licenses[p].coverage = "included" => F!LinkedRecords(p, cur) = {}
             PROVE  LET included == {p \in F!Perpetual : licenses[p].coverage = "included"}
                    IN F!SupportTotal(cur) =
                          F!Sum({p \in included \intersect F!In(cur) : licenses[p].cost # None},
                                LAMBDA p : licenses[p].cost)
                          + F!Sum({m \in F!In(cur) : \E p \in F!Perpetual \ included : m \in F!LinkedRecords(p, cur)},
                                  LAMBDA m : F!RecordValue(m).amount)
  BY DEF F!SupportCountsOnce, F!Sum
<1> DEFINE included == {p \in F!Perpetual : licenses[p].coverage = "included"}
           rows == {p \in F!Perpetual : F!HasSupport(p, cur)}
           bundled == {p \in included \intersect F!In(cur) : licenses[p].cost # None}
           alone == {p \in rows : F!LinkedRecords(p, cur) = {}}
           linked == {m \in F!In(cur) : \E p \in F!Perpetual \ included : m \in F!LinkedRecords(p, cur)}
           counted == UNION {F!LinkedRecords(p, cur) : p \in rows}
           unknown == linked \ counted
           f == [p \in alone |-> licenses[p].cost]
           g == [p \in bundled |-> licenses[p].cost]
           h == [m \in counted |-> F!RecordValue(m).amount]
           k == [m \in linked |-> F!RecordValue(m).amount]
<1>1. F!SupportTotal(cur) = F!SumFunctionOnSet(f, alone) + F!SumFunctionOnSet(h, counted)
  BY DEF F!SupportTotal, F!Sum
<1>2. alone = bundled
  <2>1. \A p \in F!Perpetual : F!LinkedRecords(p, cur) = {} =>
            (F!HasSupport(p, cur) <=>
                licenses[p].coverage = "included" /\ licenses[p].cost # None /\ licenses[p].cur = cur)
    BY DEF F!HasSupport
  <2>2. \A p \in F!Perpetual : p \in F!In(cur) <=> licenses[p].cur = cur
    BY DEF F!Perpetual, F!In
  <2> QED
    BY <2>1, <2>2
<1>3. counted \subseteq linked
  <2>1. \A p \in rows : \A m \in F!LinkedRecords(p, cur) : p \notin included /\ m \in F!In(cur)
    BY DEF F!LinkedRecords
  <2> QED
    BY <2>1
<1>4. linked \in SUBSET (1..3) /\ counted \in SUBSET (1..3) /\ unknown \in SUBSET (1..3)
      /\ counted \intersect unknown = {} /\ linked = counted \union unknown
  BY <1>3, LicensesOf
<1>5. \A m \in 1..3 : Recorded[m] \in Int
  BY LicensesOf, TermsAndAmounts DEF Recorded, F!RecordValue, F!Value
<1>6. \A m \in unknown : Recorded[m] = 0
  <2> SUFFICES ASSUME NEW m \in unknown
               PROVE  F!RecordValue(m).amount = 0
    BY <1>4 DEF Recorded
  <2>1. PICK p \in F!Perpetual \ included : m \in F!LinkedRecords(p, cur)
    OBVIOUS
  <2>2. ~F!HasSupport(p, cur)
    BY <2>1
  <2>3. ~F!RecordValue(m).known
    BY <2>1, <2>2 DEF F!HasSupport
  <2> QED
    BY <2>3 DEF F!RecordValue, F!Value
<1>7. IsFiniteSet(counted) /\ IsFiniteSet(linked) /\ IsFiniteSet(unknown)
  <2> HIDE DEF counted, linked, unknown
  <2> QED
    BY <1>4, LicensesOf
<1>8. (\A m \in counted : h[m] = Recorded[m] /\ Recorded[m] \in Int)
      /\ (\A m \in linked : k[m] = Recorded[m] /\ Recorded[m] \in Int)
      /\ \A m \in unknown : Recorded[m] \in Int
  BY <1>4, <1>5 DEF Recorded
<1>9. F!SumFunctionOnSet(h, counted) = F!SumFunctionOnSet(k, linked)
  <2>1. counted \intersect unknown = {} /\ linked = counted \union unknown
    BY <1>4
  <2> HIDE DEF counted, linked, unknown, h, k
  <2>2. F!SumFunctionOnSet(h, counted) = Worth(Recorded, counted) /\ Worth(Recorded, counted) \in Int
    BY <1>7, <1>8, SumOf
  <2>3. F!SumFunctionOnSet(k, linked) = Worth(Recorded, linked)
    BY <1>7, <1>8, SumOf
  <2>4. \A m \in counted : Recorded[m] \in Int
    BY <1>8
  <2>5. Worth(Recorded, counted \union unknown) = Worth(Recorded, counted) + Worth(Recorded, unknown)
    BY <1>7, <1>8, <2>1, <2>4, WorthSplits
  <2>6. Worth(Recorded, unknown) = 0
    BY <1>6, WorthNothing
  <2> QED
    BY <2>1, <2>2, <2>3, <2>5, <2>6
<1>10. f = g
  BY <1>2
<1>11. F!Sum(bundled, LAMBDA p : licenses[p].cost) = F!SumFunctionOnSet(g, bundled)
       /\ F!Sum(linked, LAMBDA m : F!RecordValue(m).amount) = F!SumFunctionOnSet(k, linked)
  BY DEF F!Sum
<1>12. F!SupportTotal(cur) = F!SumFunctionOnSet(g, bundled) + F!SumFunctionOnSet(k, linked)
  <2> HIDE DEF f, g, h, k, alone, bundled, linked, counted
  <2> QED
    BY <1>1, <1>2, <1>9, <1>10
<1> QED
  BY <1>12 DEF F!Sum

(* The days of a year.                                                      *)
LEMMA DaysOfYears ==
    ASSUME NEW t \in Int, NEW y \in Int
    PROVE  /\ t \div F!YearDays \in Int
           /\ t \div F!YearDays = y <=> t \in (y * F!YearDays)..(y * F!YearDays + F!YearDays - 1)
BY DEF F!YearDays

LEMMA Cancelled ==
    ASSUME NEW d \in Nat \ {0}, NEW m \in Int, NEW n \in Int, d * m <= d * n
    PROVE  m <= n
<1> SUFFICES ASSUME n + 1 <= m
             PROVE  FALSE
  OBVIOUS
<1>1. d * (n + 1) <= d * m
  BY SMTT(30)
<1>2. d * (n + 1) = d * n + d
  BY SMTT(30)
<1>3. d * n \in Int /\ d * m \in Int
  OBVIOUS
<1> QED
  BY <1>1, <1>2, <1>3

(* One more share is at most half a unit off.                               *)
LEMMA OneMoreShare ==
    ASSUME NEW d \in Nat \ {0}, NEW a \in Int, NEW c \in Nat, NEW total \in Int, NEW days \in Nat, NEW n \in Nat,
           2 * (d * total) - 2 * (a * days) <= d * n, 2 * (a * days) - 2 * (d * total) <= d * n
    PROVE  LET r == F!Rounded(a * c, d)
           IN /\ 2 * (d * (r + total)) - 2 * (a * (c + days)) <= d * (n + 1)
              /\ 2 * (a * (c + days)) - 2 * (d * (r + total)) <= d * (n + 1)
<1> DEFINE r == F!Rounded(a * c, d)
<1>1. a * c \in Int
  OBVIOUS
<1>2. r \in Int /\ 2 * (d * r) <= 2 * (a * c) + d /\ 2 * (a * c) - d < 2 * (d * r)
  BY <1>1, RoundedToNearest
<1> HIDE DEF r
<1>3. d * (r + total) = d * r + d * total /\ a * (c + days) = a * c + a * days /\ d * (n + 1) = d * n + d
  BY <1>2, SMTT(30)
<1>4. d * r \in Int /\ d * total \in Int /\ a * days \in Int /\ d * n \in Int
  BY <1>2
<1> QED
  BY <1>1, <1>2, <1>3, <1>4 DEF r

(* Half a unit for each year.                                               *)
LEMMA SharesAreOne ==
    ASSUME ReportInv
    PROVE  F!SharesAddUp
<1> SUFFICES ASSUME NEW i \in 1..3,
                    F!isRecurringLicense(licenses[i]), {t \div F!YearDays : t \in F!Term(licenses[i])} # {}
             PROVE  LET l == licenses[i]
                        years == {t \div F!YearDays : t \in F!Term(l)}
                        total == F!Sum(years, LAMBDA y :
                                    F!ReportAmount(l, (y * F!YearDays)..(y * F!YearDays + F!YearDays - 1)))
                    IN 2 * F!Abs(total - F!RecurringValue(l).amount) <= F!Cardinality(years)
  BY LicensesOf DEF F!SharesAddUp, F!Sum
<1> DEFINE l == licenses[i]
           term == F!Term(l)
           a == F!RecurringValue(l).amount
           d == Cardinality(term)
           years == {t \div F!YearDays : t \in term}
           Year(y) == (y * F!YearDays)..(y * F!YearDays + F!YearDays - 1)
           f == [y \in years |-> F!ReportAmount(l, Year(y))]
           Of(s) == {t \in term : t \div F!YearDays \in s}
           Good == {s \in SUBSET years :
                       /\ 2 * (d * Worth(f, s)) - 2 * (a * Cardinality(Of(s))) <= d * Cardinality(s)
                       /\ 2 * (a * Cardinality(Of(s))) - 2 * (d * Worth(f, s)) <= d * Cardinality(s)}
<1>1. /\ l \in Licenses /\ a \in Int /\ term \in SUBSET Int /\ IsFiniteSet(term)
      /\ term # {} /\ d \in Nat \ {0}
  BY LicensesOf, TermsAndAmounts
<1>2. years \in SUBSET Int
  BY <1>1, DaysOfYears
<1>3. IsFiniteSet(years)
  <2> DEFINE yearOf == [t \in term |-> t \div F!YearDays]
  <2>1. yearOf \in Surjection(term, years)
    BY DEF Surjection
  <2> HIDE DEF years, term, yearOf
  <2> QED
    BY <1>1, <2>1, FS_Surjection
<1>4. \A y \in years : term \intersect Year(y) = {t \in term : t \div F!YearDays = y}
  <2> SUFFICES ASSUME NEW y \in years, NEW t \in term
               PROVE  t \in Year(y) <=> t \div F!YearDays = y
    OBVIOUS
  <2> HIDE DEF term, years
  <2> QED
    BY <1>1, <1>2, DaysOfYears
<1>5. \A y \in years : f[y] = F!Rounded(a * Cardinality(term \intersect Year(y)), d) /\ f[y] \in Int
  <2> SUFFICES ASSUME NEW y \in years
               PROVE  F!ReportAmount(l, Year(y)) = F!Rounded(a * Cardinality(term \intersect Year(y)), d)
                      /\ F!ReportAmount(l, Year(y)) \in Int
    OBVIOUS
  <2>1. Year(y) # F!AllTerms
    <3>1. y * F!YearDays \in Year(y)
      BY <1>2 DEF F!YearDays
    <3> QED
      BY <3>1 DEF F!AllTerms
  <2> HIDE DEF Year, years
  <2>2. F!ReportAmount(l, Year(y)) = F!Share(a, term, Year(y))
    BY <2>1 DEF F!ReportAmount
  <2>3. F!Share(a, term, Year(y)) = F!Rounded(a * Cardinality(term \intersect Year(y)), d)
    BY <1>1, <2>1, ReportCounts DEF F!Share
  <2> QED
    BY <1>1, <2>2, <2>3, PartsOfAmounts
<1>6. \A s \in SUBSET years : /\ IsFiniteSet(Of(s)) /\ Cardinality(Of(s)) \in Nat
                              /\ IsFiniteSet(s) /\ Cardinality(s) \in Nat /\ Worth(f, s) \in Int
  <2> SUFFICES ASSUME NEW s \in SUBSET years
               PROVE  /\ IsFiniteSet(Of(s)) /\ Cardinality(Of(s)) \in Nat
                      /\ IsFiniteSet(s) /\ Cardinality(s) \in Nat /\ Worth(f, s) \in Int
    OBVIOUS
  <2>1. Of(s) \in SUBSET term
    OBVIOUS
  <2>2. \A y \in years : f[y] \in Int
    BY <1>5
  <2> HIDE DEF Of, years, term, f
  <2> QED
    BY <1>1, <1>3, <2>1, <2>2, FS_Subset, FS_CardinalityType, SumIsWorth
<1>7. {} \in Good
  <2>1. Of({}) = {}
    OBVIOUS
  <2>2. Worth(f, {}) = 0 /\ Cardinality({}) = 0
    BY WorthNothing, FS_EmptySet
  <2>3. Cardinality(Of({})) = 0
    BY <2>1, <2>2
  <2> HIDE DEF f, Of, years, d, a
  <2>4. d * 0 = 0 /\ a * 0 = 0
    BY <1>1
  <2>5. 2 * (d * 0) - 2 * (a * 0) <= d * 0 /\ 2 * (a * 0) - 2 * (d * 0) <= d * 0
    BY <2>4
  <2> QED
    BY <2>2, <2>3, <2>5
<1>8. \A s \in SUBSET years : \A y \in years \ s : s \in Good => s \union {y} \in Good
  <2> SUFFICES ASSUME NEW s \in SUBSET years, NEW y \in years \ s, s \in Good
               PROVE  s \union {y} \in Good
    OBVIOUS
  <2> DEFINE c == Cardinality(term \intersect Year(y))
             r == F!Rounded(a * c, d)
  <2>1. Of(s \union {y}) = (term \intersect Year(y)) \union Of(s) /\ (term \intersect Year(y)) \intersect Of(s) = {}
        /\ term \intersect Year(y) \in SUBSET term
    BY <1>4
  <2>2. c \in Nat /\ Cardinality(Of(s \union {y})) = c + Cardinality(Of(s))
    <3> HIDE DEF Of, Year, term
    <3>1. IsFiniteSet(term \intersect Year(y)) /\ IsFiniteSet(Of(s))
      BY <1>1, <1>6, <2>1, FS_Subset
    <3>2. c \in Nat /\ Cardinality((term \intersect Year(y)) \union Of(s)) = c + Cardinality(Of(s))
      BY <2>1, <3>1, ApartTogether
    <3> QED
      BY <2>1, <3>2
  <2>3. Worth(f, s \union {y}) = r + Worth(f, s)
    <3>1. \A z \in years : f[z] \in Int
      BY <1>5
    <3>2. f[y] = r
      BY <1>5
    <3> HIDE DEF f, years, r
    <3> QED
      BY <1>3, <3>1, <3>2, SumIsWorth
  <2>4. Cardinality(s \union {y}) = Cardinality(s) + 1
    BY <1>6, FS_AddElement
  <2>5. Worth(f, s) \in Int /\ Cardinality(Of(s)) \in Nat /\ Cardinality(s) \in Nat
    BY <1>6
  <2>6. /\ 2 * (d * Worth(f, s)) - 2 * (a * Cardinality(Of(s))) <= d * Cardinality(s)
        /\ 2 * (a * Cardinality(Of(s))) - 2 * (d * Worth(f, s)) <= d * Cardinality(s)
    OBVIOUS
  <2> HIDE DEF f, Of, years, d, a, c, term
  <2>7. /\ 2 * (d * (r + Worth(f, s))) - 2 * (a * (c + Cardinality(Of(s)))) <= d * (Cardinality(s) + 1)
        /\ 2 * (a * (c + Cardinality(Of(s)))) - 2 * (d * (r + Worth(f, s))) <= d * (Cardinality(s) + 1)
    BY <1>1, <2>2, <2>5, <2>6, OneMoreShare
  <2>8. s \union {y} \in SUBSET years
    OBVIOUS
  <2> HIDE DEF r
  <2> QED
    BY <2>2, <2>3, <2>4, <2>7, <2>8
<1>9. years \in Good
  <2> HIDE DEF Good, years
  <2> QED
    BY <1>3, <1>7, <1>8, OneByOne
<1>10. Of(years) = term
  OBVIOUS
<1>11. F!Sum(years, LAMBDA y : F!ReportAmount(l, Year(y))) = Worth(f, years)
  <2>1. F!Sum(years, LAMBDA y : F!ReportAmount(l, Year(y))) = F!SumFunctionOnSet(f, years)
    BY DEF F!Sum
  <2>2. \A y \in years : f[y] \in Int
    BY <1>5
  <2> HIDE DEF f, years
  <2> QED
    BY <1>3, <2>1, <2>2, SumIsWorth
<1>12. 2 * F!Abs(Worth(f, years) - a) <= Cardinality(years)
  <2> DEFINE W == Worth(f, years)
             n == Cardinality(years)
  <2>1. W \in Int /\ n \in Nat
    BY <1>6
  <2>2. 2 * (d * W) - 2 * (a * d) <= d * n /\ 2 * (a * d) - 2 * (d * W) <= d * n
    BY <1>9, <1>10
  <2> HIDE DEF W, n, d, a
  <2>3. d * (2 * (W - a)) = 2 * (d * W) - 2 * (a * d) /\ d * (2 * (a - W)) = 2 * (a * d) - 2 * (d * W)
    BY <1>1, <2>1, SMTT(30)
  <2>4. 2 * (W - a) \in Int /\ 2 * (a - W) \in Int
    BY <1>1, <2>1
  <2>5. 2 * (W - a) <= n /\ 2 * (a - W) <= n
    BY <1>1, <2>1, <2>2, <2>3, <2>4, Cancelled
  <2>6. 2 * F!Abs(W - a) <= n
    BY <1>1, <2>1, <2>5 DEF F!Abs
  <2> QED
    BY <2>6 DEF W, n
<1> HIDE DEF f
<1> QED
  BY <1>11, <1>12, ReportCounts DEF F!Sum

(* Counting kind by kind is counting.                                       *)
LEMMA CountByKind ==
    ASSUME NEW U, IsFiniteSet(U), NEW K, IsFiniteSet(K), NEW kind, NEW part, Sorted(U, kind, K, part),
           NEW w, \A k \in K : w[k] = Cardinality(part[k])
    PROVE  Worth(w, K) = Cardinality(U)
<1> DEFINE one == [x \in U |-> 1]
           Good == {s \in SUBSET U : Worth(one, s) = Cardinality(s)}
<1>1. \A x \in U : one[x] \in Int /\ one[x] = 1
  OBVIOUS
<1> HIDE DEF one
<1>2. \A s \in SUBSET U : s \in Good
  <2>1. {} \in Good
    BY FS_EmptySet, WorthNothing
  <2>2. ASSUME NEW s \in SUBSET U, NEW x \in U \ s, s \in Good
        PROVE  s \union {x} \in Good
    <3>1. Worth(one, s \union {x}) = 1 + Worth(one, s)
      BY <1>1, SumIsWorth
    <3>2. IsFiniteSet(s)
      BY FS_Subset
    <3>3. Cardinality(s) \in Nat /\ Cardinality(s \union {x}) = Cardinality(s) + 1
      BY <3>2, FS_AddElement, FS_CardinalityType
    <3> QED
      BY <2>2, <3>1, <3>3
  <2> HIDE DEF Good
  <2> QED
    BY <2>1, <2>2, OneByOne
<1>3. \A k \in K : part[k] \in SUBSET U
  BY DEF Sorted
<1>4. \A k \in K : w[k] = Worth(one, part[k])
  BY <1>2, <1>3
<1>5. Worth(one, U) = Cardinality(U)
  BY <1>2
<1>6. Worth(w, K) = Worth(one, U)
  BY <1>1, <1>4, WorthByKind
<1> QED
  BY <1>5, <1>6

(* Quarters of three months each from the first, that of today.             *)
LEMMA FirstQuarter ==
    ASSUME NEW fiscal \in 1..12
    PROVE  /\ F!QuarterIndex(fiscal) \in 0..3
           /\ \E first \in Int :
                 /\ \A n \in 0..3 : F!Quarter(fiscal, n) = (first + 3 * n)..(first + 3 * n + 2)
                 /\ first <= Today /\ Today <= first + 2
                 /\ first % 12 = (fiscal - 1 + 3 * F!QuarterIndex(fiscal)) % 12
<1> DEFINE q == F!QuarterIndex(fiscal)
           month == (fiscal - 1 + q * 3) % 12
           year == IF month > Today % 12 THEN Today \div 12 - 1 ELSE Today \div 12
           first == year * 12 + month
<1>1. q = (((Today % 12) + 12 + 1 - fiscal) % 12) \div 3
  BY DEF F!QuarterIndex, F!YearDays
<1>2. Today \in Nat /\ q \in 0..3
  BY <1>1, ReportsAssumption
<1> HIDE DEF q
<1>3. month \in 0..11 /\ year \in Int /\ first \in Int
  BY <1>2
<1>4. \A n \in 0..3 : F!Quarter(fiscal, n) = (first + 3 * n)..(first + 3 * n + 2)
  <2> SUFFICES ASSUME NEW n \in 0..3
               PROVE  F!Quarter(fiscal, n) = (first + 3 * n)..(first + 3 * n + 2)
    OBVIOUS
  <2>1. F!Quarter(fiscal, n) = (first + n * 3)..(first + n * 3 + 2)
    BY DEF F!Quarter, F!YearDays, q
  <2> QED
    BY <2>1
<1>5. first <= Today /\ Today <= first + 2
  BY <1>1, <1>2, <1>3
<1>6. first % 12 = (fiscal - 1 + 3 * q) % 12
  <2> HIDE DEF year
  <2> QED
    BY <1>2, <1>3
<1> QED
  BY <1>2, <1>3, <1>4, <1>5, <1>6 DEF q

(* Each ending is in one quarter.                                           *)
LEMMA QuartersAreOne ==
    ASSUME ReportInv
    PROVE  F!QuartersTile
<1> SUFFICES ASSUME NEW fiscal \in FiscalMonths
             PROVE  LET year == F!Min(F!Quarter(fiscal, 0))..(F!Min(F!Quarter(fiscal, 0)) + F!YearDays - 1)
                    IN /\ Today \in F!Quarter(fiscal, 0)
                       /\ UNION {F!Quarter(fiscal, n) : n \in 0..3} = year
                       /\ \A n \in 0..3 : F!FiscalQuarter(fiscal, n) = 1 <=>
                                           F!Min(F!Quarter(fiscal, n)) % F!YearDays = fiscal - 1
                       /\ F!Sum(0..3, LAMBDA n : F!Cardinality(F!Ending(fiscal, n))) =
                          F!Cardinality({i \in F!Filtered : /\ licenses[i].end \in year
                                                            /\ F!Status(licenses[i]) \in {"active", "expiring"}})
  BY DEF F!QuartersTile, F!Sum
<1>1. fiscal \in 1..12 /\ Today \in Nat
  BY ReportsAssumption
<1> DEFINE q == F!QuarterIndex(fiscal)
<1>2. q \in 0..3
  BY <1>1, FirstQuarter
<1>3. PICK first \in Int :
          /\ \A n \in 0..3 : F!Quarter(fiscal, n) = (first + 3 * n)..(first + 3 * n + 2)
          /\ first <= Today /\ Today <= first + 2
          /\ first % 12 = (fiscal - 1 + 3 * q) % 12
  BY <1>1, FirstQuarter
<1> HIDE DEF q
<1>4. \A n \in 0..3 : F!Min(F!Quarter(fiscal, n)) = first + 3 * n
  <2> SUFFICES ASSUME NEW n \in 0..3
               PROVE  F!Min((first + 3 * n)..(first + 3 * n + 2)) = first + 3 * n
    BY <1>3
  <2> DEFINE low == first + 3 * n
             days == low..(low + 2)
  <2>1. low \in Int /\ low \in days /\ \A m \in days : low <= m
    OBVIOUS
  <2>2. \A m \in days : (\A k \in days : m <= k) => m = low
    BY <2>1
  <2> HIDE DEF days
  <2>3. F!Min(days) = low
    BY <2>1, <2>2 DEF F!Min
  <2> QED
    BY <2>3 DEF days
<1> DEFINE year == first..(first + 11)
<1>5. F!Min(F!Quarter(fiscal, 0))..(F!Min(F!Quarter(fiscal, 0)) + F!YearDays - 1) = year
  <2>1. F!Min(F!Quarter(fiscal, 0)) = first
    BY <1>4
  <2> QED
    BY <2>1 DEF F!YearDays
<1>6. Today \in F!Quarter(fiscal, 0)
  BY <1>1, <1>3
<1>7. UNION {F!Quarter(fiscal, n) : n \in 0..3} = year
  <2>1. \A n \in 0..3 : \A t \in F!Quarter(fiscal, n) : t \in year
    BY <1>3
  <2>2. \A t \in year : \E n \in 0..3 : t \in F!Quarter(fiscal, n)
    <3> SUFFICES ASSUME NEW t \in year
                 PROVE  \E n \in 0..3 : t \in F!Quarter(fiscal, n)
      OBVIOUS
    <3>1. (t - first) \div 3 \in 0..3 /\ t \in (first + 3 * ((t - first) \div 3))..(first + 3 * ((t - first) \div 3) + 2)
      OBVIOUS
    <3> QED
      BY <1>3, <3>1
  <2> HIDE DEF year
  <2> QED
    BY <2>1, <2>2
<1>8. \A n \in 0..3 : F!FiscalQuarter(fiscal, n) = 1 <=> F!Min(F!Quarter(fiscal, n)) % F!YearDays = fiscal - 1
  <2> SUFFICES ASSUME NEW n \in 0..3
               PROVE  ((q + n) % 4) + 1 = 1 <=> (first + 3 * n) % 12 = fiscal - 1
    BY <1>4 DEF F!FiscalQuarter, F!YearDays, q
  <2>1. first % 12 = (fiscal - 1 + 3 * q) % 12
    BY <1>3
  <2> QED
    BY <1>1, <1>2, <2>1
<1> DEFINE U == {i \in F!Filtered : licenses[i].end \in year /\ F!Status(licenses[i]) \in {"active", "expiring"}}
           K == 0..3
           part == [n \in K |-> F!Ending(fiscal, n)]
           kind == [i \in U |-> (licenses[i].end - first) \div 3]
           w == [n \in K |-> F!Cardinality(F!Ending(fiscal, n))]
<1>9. IsFiniteSet(U) /\ IsFiniteSet(K)
  <2>1. U \in SUBSET (1..3)
    BY LicensesOf
  <2>2. 0 \in Int /\ 3 \in Int
    OBVIOUS
  <2>3. IsFiniteSet(K)
    BY <2>2, FS_Interval, Zenon
  <2> HIDE DEF U
  <2> QED
    BY <2>1, <2>3, LicensesOf
<1>10. Sorted(U, kind, K, part)
  <2>1. ASSUME NEW i \in F!Filtered, NEW n \in K
        PROVE  i \in F!Ending(fiscal, n) <=> i \in U /\ (licenses[i].end - first) \div 3 = n
    <3> DEFINE e == licenses[i].end
    <3>1. e = None \/ e \in Int
      BY LicensesOf DEF Licenses, Entered
    <3>2. CASE e = None
      BY <3>2, ReportsAssumption DEF F!Ending
    <3>3. CASE e \in Int
      <4>1. e # None
        BY <3>3, ReportsAssumption
      <4>2. i \in F!Ending(fiscal, n) <=>
                F!Status(licenses[i]) \in {"active", "expiring"} /\ e \in F!Quarter(fiscal, n)
                /\ \A m \in 0..(n - 1) : e \notin F!Quarter(fiscal, m)
        BY <4>1 DEF F!Ending
      <4>3. i \in U <=> F!Status(licenses[i]) \in {"active", "expiring"} /\ e \in first..(first + 11)
        OBVIOUS
      <4> HIDE DEF e, U
      <4>4. \A m \in 0..3 : e \in F!Quarter(fiscal, m) <=> e \in first..(first + 11) /\ (e - first) \div 3 = m
        <5> SUFFICES ASSUME NEW m \in 0..3
                     PROVE  e \in (first + 3 * m)..(first + 3 * m + 2) <=>
                                e \in first..(first + 11) /\ (e - first) \div 3 = m
          BY <1>3
        <5> QED
          BY <3>3
      <4>5. \A m \in 0..(n - 1) : m \in 0..3 /\ m # n
        OBVIOUS
      <4>6. i \in F!Ending(fiscal, n) <=> i \in U /\ (e - first) \div 3 = n
        BY <4>2, <4>3, <4>4, <4>5
      <4> QED
        BY <4>6 DEF e
    <3> HIDE DEF e
    <3> QED
      BY <3>1, <3>2, <3>3
  <2>2. \A n \in K : F!Ending(fiscal, n) \subseteq F!Filtered
    BY DEF F!Ending
  <2>3. kind \in [U -> K]
    <3> SUFFICES ASSUME NEW i \in U
                 PROVE  (licenses[i].end - first) \div 3 \in 0..3
      OBVIOUS
    <3>1. licenses[i].end \in first..(first + 11)
      OBVIOUS
    <3> QED
      BY <3>1
  <2>4. U \subseteq F!Filtered
    OBVIOUS
  <2> HIDE DEF U, K
  <2>5. \A n \in K : part[n] = {i \in U : kind[i] = n}
    BY <2>1, <2>2, <2>4
  <2> QED
    BY <2>3, <2>5 DEF Sorted
<1>11. F!Sum(K, LAMBDA n : F!Cardinality(F!Ending(fiscal, n))) = F!SumFunctionOnSet(w, K)
  BY DEF F!Sum
<1>12. \A n \in K : w[n] = Cardinality(part[n]) /\ w[n] \in Int
  <2> SUFFICES ASSUME NEW n \in K
               PROVE  w[n] = Cardinality(F!Ending(fiscal, n)) /\ Cardinality(F!Ending(fiscal, n)) \in Int
    OBVIOUS
  <2>1. F!Ending(fiscal, n) \in SUBSET (1..3)
    BY LicensesOf DEF F!Ending
  <2>2. Cardinality(F!Ending(fiscal, n)) \in Nat
    BY <2>1, LicensesOf, FS_CardinalityType
  <2> QED
    BY <2>2, ReportCounts
<1>13. F!SumFunctionOnSet(w, K) = F!Cardinality(U)
  <2> HIDE DEF w, K, U, part, kind
  <2>1. F!SumFunctionOnSet(w, K) = Worth(w, K)
    BY <1>9, <1>12, SumIsWorth
  <2> QED
    BY <1>9, <1>10, <1>12, <2>1, CountByKind, ReportCounts
<1>14. F!Sum(0..3, LAMBDA n : F!Cardinality(F!Ending(fiscal, n))) =
           F!Cardinality({i \in F!Filtered : /\ licenses[i].end \in year
                                             /\ F!Status(licenses[i]) \in {"active", "expiring"}})
  BY <1>11, <1>13
<1> HIDE DEF year
<1> QED
  BY <1>5, <1>6, <1>7, <1>8, <1>14 DEF F!Sum

(* FiguresAgree: the spend of publishers, of the overview and of its budget *)
(* is one figure, that of purchase orders in the report and in the overview *)
(* another, and the registry shows it for each purchase; a shared support   *)
(* record counts once; the forecast starts from the recurring cost; the     *)
(* shares of a term add up to its amount; and each ending is in one quarter *)
(* of the fiscal year: of any amounts, credits as well, and any days.       *)
THEOREM FiguresAddUp == MCSpec => []FiguresAgree
<1>1. MCInit => ReportInv
  BY ReportStart DEF MCInit
<1>2. ReportInv /\ [MCNext]_<<area, rvars, settings, dialogs, routes, imported, cached, listed, tabled, reported>>
        => ReportInv'
  BY ReportKept
<1>3. ReportInv => FiguresAgree
  BY SpendIsOne, RegistryIsOne, SupportIsOne, BaselineIsOne, SharesAreOne, QuartersAreOne
     DEF FiguresAgree, F!FiguresAgree
<1> QED
  BY <1>1, <1>2, <1>3, PTL DEF MCSpec

-----------------------------------------------------------------------------
(* Types: every area of the client stays within its bounds and its values. *)

(* Every version under way or kept is one the record has had.               *)
VersionsAreHad ==
    /\ \A r \in Records : version[r] >= 1 /\ cache[r] <= version[r] /\ lastOf[r] <= reads
    /\ \A q \in requests : q.version <= version[q.of] /\ (q.state = "done" => q.version >= 1)

ShownWasHad == shown # Nothing => shown.of \in Records /\ shown.version \in 1..version[shown.of]

ReaderBounds ==
    /\ reads <= MaxReads /\ selects <= MaxSelects /\ changes <= MaxChanges
    /\ selected = None => shown = Nothing /\ ~loading
    /\ ShownWasHad /\ VersionsAreHad

LEMMA ReaderBounded ==
    ASSUME ReaderTypes, ReaderBounds, Next
    PROVE  ReaderBounds'
<1> USE DEF ReaderTypes, ReaderBounds
<1>0. (\A r \in Records : r # None) /\ {MaxReads, MaxSelects, MaxChanges} \subseteq Nat
  BY NoneAssumption, BoundsAssumption
<1>1. ASSUME NEW r \in Records, Select(r)
      PROVE  ReaderBounds'
  <2>1. /\ reads' = reads + 1 /\ reads' <= MaxReads /\ selects' <= MaxSelects
        /\ requests' = requests \union {ReadOf(r, selects + 1, TRUE)}
        /\ lastOf' = [lastOf EXCEPT ![r] = reads + 1]
        /\ selected' = r /\ shown' = WhenSelected(r) /\ UNCHANGED <<cache, changes, version>>
    BY <1>0, <1>1 DEF Select, SendRead
  <2>2. ShownWasHad'
    BY <2>1 DEF WhenSelected, ShownWasHad, VersionsAreHad
  <2>6. PICK p : p = ReadOf(r, selects + 1, TRUE)
    OBVIOUS
  <2>3. p.version = 0 /\ p.state = "sent" /\ p.of = r
    BY <2>6 DEF ReadOf
  <2>5. requests' = requests \union {p} /\ version' = version
    BY <2>1, <2>6
  <2>4. VersionsAreHad'
    <3>1. \A s \in Records : version'[s] >= 1 /\ cache'[s] <= version'[s] /\ lastOf'[s] <= reads'
      BY <2>1 DEF VersionsAreHad
    <3>2. \A q \in requests' : q.version <= version'[q.of] /\ (q.state = "done" => q.version >= 1)
      BY <2>3, <2>5 DEF VersionsAreHad
    <3> QED
      BY <3>1, <3>2 DEF VersionsAreHad
  <2> QED
    BY <1>0, <2>1, <2>2, <2>4
<1>2. CASE Deselect
  BY <1>0, <1>2 DEF Deselect, ShownWasHad, VersionsAreHad
<1>3. CASE Reload
  <2>0. PICK spins \in BOOLEAN : SendRead(selected, selects, spins, requests)
    BY <1>3 DEF Reload
  <2>1. /\ reads' = reads + 1 /\ reads' <= MaxReads /\ selected \in Records
        /\ requests' = requests \union {ReadOf(selected, selects, spins)}
        /\ lastOf' = [lastOf EXCEPT ![selected] = reads + 1]
        /\ UNCHANGED <<selected, shown, cache, changes, selects, version>>
    BY <1>0, <1>3, <2>0 DEF Reload, SendRead
  <2>6. PICK p : p = ReadOf(selected, selects, spins)
    OBVIOUS
  <2>2. p.version = 0 /\ p.state = "sent" /\ p.of = selected
    BY <2>6 DEF ReadOf
  <2>5. requests' = requests \union {p} /\ version' = version
    BY <2>1, <2>6
  <2>3. \A s \in Records : version'[s] >= 1 /\ cache'[s] <= version'[s] /\ lastOf'[s] <= reads'
    BY <2>1 DEF VersionsAreHad
  <2>4. \A q \in requests' : q.version <= version'[q.of] /\ (q.state = "done" => q.version >= 1)
    BY <2>1, <2>2, <2>5 DEF VersionsAreHad
  <2> QED
    BY <1>0, <2>1, <2>3, <2>4 DEF VersionsAreHad, ShownWasHad
<1>4. CASE Act
  <2>1. /\ changes' <= MaxChanges /\ selected \in Records
        /\ \A q \in requests' : q \in requests \/ (q.of = selected /\ q.version = 0 /\ q.state = "sent")
        /\ UNCHANGED <<selected, shown, loading, cache, reads, selects, lastOf, version>>
    BY <1>0, <1>4 DEF Act
  <2>2. VersionsAreHad' /\ ShownWasHad'
    BY <2>1 DEF VersionsAreHad, ShownWasHad
  <2> QED
    BY <2>1, <2>2
<1>5. ASSUME NEW r \in Records, Change(r)
      PROVE  ReaderBounds'
  <2>1. /\ changes' <= MaxChanges /\ version' = [version EXCEPT ![r] = @ + 1]
        /\ UNCHANGED <<selected, shown, loading, cache, reads, selects, lastOf, requests>>
    BY <1>0, <1>5 DEF Change
  <2>2. \A s \in Records : version[s] <= version'[s]
    BY <2>1
  <2>3. VersionsAreHad' /\ ShownWasHad'
    BY <2>1, <2>2 DEF VersionsAreHad, ShownWasHad
  <2> QED
    BY <2>1, <2>3
<1>6. ASSUME NEW q \in requests, Handle(q)
      PROVE  ReaderBounds'
  <2>1. UNCHANGED <<selected, shown, loading, cache, reads, selects, changes, lastOf>>
    BY <1>6 DEF Handle
  <2>2. \A s \in Records : version[s] <= version'[s] /\ version'[s] \in Nat
    BY <1>6 DEF Handle
  <2>3. \A p \in requests' : p \in requests \/ /\ p.of = q.of /\ p.version <= version'[q.of]
                                               /\ p.state = "done" => p.version >= 1
    <3>4. version'[q.of] \in Nat /\ version'[q.of] >= 1 /\ q.version <= version'[q.of] /\ version[q.of] >= 1
      BY <2>2 DEF VersionsAreHad
    <3>0. /\ \A v : LET p == [q EXCEPT !.state = "done", !.version = v] IN p.of = q.of /\ p.version = v
          /\ LET p == [q EXCEPT !.state = "failed"] IN p.of = q.of /\ p.version = q.version /\ p.state = "failed"
      OBVIOUS
    <3>2. CASE requests' = (requests \ {q}) \union {[q EXCEPT !.state = "failed"]}
      BY <3>0, <3>2, <3>4
    <3>3. CASE requests' = (requests \ {q}) \union {[q EXCEPT !.state = "done", !.version = version'[q.of]]}
      <4>1. PICK p : p = [q EXCEPT !.state = "done", !.version = version'[q.of]]
        OBVIOUS
      <4>2. p.of = q.of /\ p.version = version'[q.of] /\ requests' = (requests \ {q}) \union {p}
        BY <3>0, <3>3, <4>1
      <4> QED
        BY <3>4, <4>2
    <3>5. \/ requests' = (requests \ {q}) \union {[q EXCEPT !.state = "failed"]}
          \/ requests' = (requests \ {q}) \union {[q EXCEPT !.state = "done", !.version = version'[q.of]]}
      <4>1. version' = [version EXCEPT ![q.of] = @ + 1] => version'[q.of] = version[q.of] + 1
        OBVIOUS
      <4> QED
        BY <1>6, <4>1 DEF Handle
    <3> QED
      BY <3>2, <3>3, <3>5
  <2>4. VersionsAreHad' /\ ShownWasHad'
    BY <2>1, <2>2, <2>3 DEF VersionsAreHad, ShownWasHad
  <2> QED
    BY <2>1, <2>4
<1>7. ASSUME NEW q \in requests, AnswerRead(q)
      PROVE  ReaderBounds'
  <2>1. /\ UNCHANGED <<selected, reads, selects, changes, lastOf, version>> /\ requests' = requests \ {q}
        /\ q.state # "sent" /\ IF Taken(q) THEN TakeRead(q) ELSE UNCHANGED <<shown, loading, cache>>
    BY <1>7 DEF AnswerRead
  <2>2. CASE Taken(q)
    <3>1. selected # None /\ TakeRead(q)
      BY <2>1, <2>2 DEF Taken
    <3>2. shown' = shown \/ (q.state = "done" /\ shown' = [of |-> q.of, version |-> q.version])
      BY <2>1, <3>1 DEF TakeRead
    <3>3. cache' = cache \/ cache' = [cache EXCEPT ![q.of] = q.version]
      BY <2>1, <3>1 DEF TakeRead
    <3>4. ShownWasHad'
      BY <2>1, <3>2 DEF ShownWasHad, VersionsAreHad
    <3>5. VersionsAreHad'
      BY <2>1, <3>3 DEF VersionsAreHad
    <3> QED
      BY <2>1, <3>1, <3>4, <3>5
  <2>3. CASE ~Taken(q)
    BY <2>1, <2>3 DEF ShownWasHad, VersionsAreHad
  <2> QED
    BY <2>2, <2>3
<1>8. ASSUME NEW q \in requests, AnswerChange(q)
      PROVE  ReaderBounds'
  <2>1. UNCHANGED <<shown, cache, selects, changes, version>>
    BY <1>8 DEF AnswerChange
  <2>2. CASE selected = None
    BY <1>8, <2>1, <2>2 DEF AnswerChange, ShownWasHad, VersionsAreHad
  <2>3. CASE selected # None
    <3>1. /\ reads' = reads + 1 /\ reads' <= MaxReads /\ selected' # None
          /\ requests' = (requests \ {q}) \union {ReadOf(q.of, q.selection, rule.spins)}
          /\ lastOf' = [lastOf EXCEPT ![q.of] = reads + 1]
      BY <1>0, <1>8, <2>3 DEF AnswerChange, SendRead
    <3>2. ReadOf(q.of, q.selection, rule.spins).version = 0 /\ ReadOf(q.of, q.selection, rule.spins).state = "sent"
          /\ ReadOf(q.of, q.selection, rule.spins).of = q.of
      BY DEF ReadOf
    <3>3. \A s \in Records : version'[s] >= 1 /\ cache'[s] <= version'[s] /\ lastOf'[s] <= reads'
      BY <2>1, <3>1 DEF VersionsAreHad
    <3>4. \A p \in requests' : p.version <= version'[p.of] /\ (p.state = "done" => p.version >= 1)
      BY <2>1, <3>1, <3>2 DEF VersionsAreHad
    <3> QED
      BY <2>1, <3>1, <3>3, <3>4 DEF VersionsAreHad, ShownWasHad
  <2> QED
    BY <2>2, <2>3
<1>9. ASSUME NEW q \in requests, AnswerChangeFailed(q)
      PROVE  ReaderBounds'
  BY <1>9 DEF AnswerChangeFailed, ShownWasHad, VersionsAreHad
<1> QED
  BY <1>1, <1>2, <1>3, <1>4, <1>5, <1>6, <1>7, <1>8, <1>9 DEF Next

LEMMA ReaderTyped ==
    ASSUME ReaderInv, ReaderBounds
    PROVE  TypeOK
BY DEF ReaderInv, ReaderTypes, ReaderBounds, ReadsFollowChanges, TypeOK, ShownWasHad, VersionsAreHad

LEMMA ReaderBoundsStart ==
    ASSUME Init
    PROVE  ReaderBounds
BY BoundsAssumption DEF Init, ReaderBounds, Nothing, ShownWasHad, VersionsAreHad

(* A mark or an edit carried over is of a section in use, and each step     *)
(* that counts stops at its bound.                                          *)
LEMMA SettingsTyped ==
    ASSUME SettingInv, SettingInv', S!TypeOK, S!Next
    PROVE  S!TypeOK'
<1> USE BoundsAssumption DEF S!TypeOK
<1> DEFINE Bounds ==
    /\ used \in Usages /\ place \in S!Places /\ mount \in 0..MaxMounts
    /\ marks \subseteq used /\ saving \subseteq S!Fields \union {"trigger"}
    /\ asked \in {"none", "my", "away"} /\ edits \in 0..MaxEdits /\ sent \in 0..MaxCalls /\ carried \subseteq used
<1>0. SettingTypes /\ SettingTypes' /\ Bounds
  BY DEF SettingInv
<1>1. used \subseteq S!Fields /\ "templates" \in S!Fields
  BY <1>0 DEF SettingTypes, S!Fields, S!Global, S!Mine, S!Sections, S!Group
<1>2. Bounds'
  <2>1. ASSUME NEW s \in S!Sections, S!EditOrSave(s) \/ S!SaveMine(s)
        PROVE  Bounds'
    <3>1. CASE S!Edit(s)
      BY <1>0, <1>1, <3>1 DEF S!Edit, S!Shown, S!page, S!history
    <3>2. CASE S!SaveSection(s) \/ S!SaveMine(s)
      BY <1>0, <1>1, <3>2 DEF S!SaveSection, S!SaveMine, S!CanSave, S!Send, S!Shown, S!page, S!history
    <3> QED
      BY <2>1, <3>1, <3>2 DEF S!EditOrSave
  <2>2. CASE S!SaveTemplates \/ S!Trigger
    <3>1. /\ sent < MaxCalls /\ sent' = sent + 1 /\ UNCHANGED <<used, place, mount, asked, marks, edits, carried>>
          /\ saving' = saving \union {"templates"} \/ saving' = saving \union {"trigger"}
      BY <2>2 DEF S!SaveTemplates, S!Trigger, S!Send, S!page, S!history
    <3> QED
      BY <1>0, <1>1, <3>1
  <2>3. CASE S!ChangeTab \/ S!LeaveUnasked \/ S!Stay \/ S!Leave
    BY <1>0, <2>3 DEF S!ChangeTab, S!LeaveUnasked, S!Stay, S!Leave, S!page, S!history, S!Places
  <2>4. ASSUME NEW c \in calls, S!Handle(c) \/ S!AnswerError(c) \/ S!Answer(c)
        PROVE  Bounds'
    <3>1. /\ UNCHANGED <<used, place, mount, asked, edits, sent>> /\ saving' \subseteq saving
          /\ marks' \subseteq marks /\ carried' \subseteq carried
      BY <2>4 DEF S!Handle, S!AnswerError, S!Answer, S!AnswerGlobal, S!AnswerMine, S!AnswerReload, S!Cleared,
                  S!Done, S!page, S!history
    <3> QED
      BY <1>0, <3>1
  <2>5. ASSUME NEW p \in S!Places, S!Open(p) \/ S!ChangeGroup(p) \/ S!Navigate(p)
        PROVE  Bounds'
    BY <1>0, <2>5 DEF S!Open, S!ChangeGroup, S!Navigate, S!Mount, S!page, S!history, S!Places
  <2> HIDE DEF Bounds
  <2> QED
    BY <2>1, <2>2, <2>3, <2>4, <2>5
       DEF S!Next, S!StorageSection, S!CompletenessSection, S!NotificationsSection, S!RenewalsSection,
           S!OidcSection, S!BackupSection, S!SmtpSection, S!AppearanceSection, S!VisibleCategoriesSection,
           S!EditOrSave, S!EditOrCheckedSave, S!Sections, S!Group
<1>3. \A c \in calls' : c.by \in S!Fields \union {"trigger"} /\ c.state \in {"sent", "done", "failed"}
  BY <1>0 DEF SettingTypes, SettingCalls
<1> QED
  BY <1>0, <1>2, <1>3 DEF SettingTypes

(* Input, questions and saves under way are those of an opening on screen.  *)
LEMMA DialogsTyped ==
    ASSUME DialogInv, DialogInv', D!TypeOK, D!Next
    PROVE  D!TypeOK'
<1> DEFINE Screen == /\ fresh \subseteq typed
                     /\ open = 0 => typed = {} /\ ~busy /\ ~warning /\ ~known
                     /\ busy => \E p \in posts : p.from = open
<1>0. Screen /\ submits \in 0..MaxSubmits /\ DialogTypes /\ MaxOpens \in Nat /\ MaxSubmits \in Nat
  BY BoundsAssumption DEF D!TypeOK, DialogInv
<1>1. \A p \in posts : p.from \in Nat \ {0} /\ p.id \in Nat
  BY <1>0 DEF DialogTypes, SaveRequests
<1>2. submits' \in 0..MaxSubmits
  BY <1>0 DEF D!Next, D!OpenDialog, D!CloseDialog, D!KeepEditing, D!Discard, D!Submit, D!Type, D!Handle, D!Answer
<1>3. Screen'
  <2>1. CASE D!OpenDialog
    BY <1>0, <2>1 DEF D!OpenDialog, DialogTypes
  <2>2. CASE D!CloseDialog
    BY <1>0, <2>2 DEF D!CloseDialog, D!Dismissed
  <2>3. CASE D!KeepEditing
    BY <1>0, <2>3 DEF D!KeepEditing
  <2>4. CASE D!Discard
    BY <1>0, <2>4 DEF D!Discard, D!Dismissed
  <2>5. CASE D!Submit
    <3>0. PICK p : p = [id |-> submits, from |-> open, inputs |-> typed, create |-> manners.creates /\ ~known,
                        state |-> "sent"]
      OBVIOUS
    <3>1. p.from = open /\ posts' = posts \union {p}
      BY <2>5, <3>0 DEF D!Submit
    <3>2. open # 0 /\ fresh' = {} /\ UNCHANGED <<open, typed, warning, known>>
      BY <2>5 DEF D!Submit
    <3> QED
      BY <3>1, <3>2
  <2>6. ASSUME NEW i \in {"fields", "lines", "files", "choice"}, D!Type(i)
        PROVE  Screen'
    BY <1>0, <2>6 DEF D!Type
  <2>7. ASSUME NEW q \in posts, D!Handle(q)
        PROVE  Screen'
    <3>1. PICK result \in {"done", "failed", "filesFailed"} :
              posts' = (posts \ {q}) \union {[q EXCEPT !.state = result]}
      BY <2>7 DEF D!Handle
    <3>2. [q EXCEPT !.state = result].from = q.from
      BY <1>0 DEF DialogTypes, SaveRequests
    <3>3. UNCHANGED <<open, typed, fresh, busy, warning, known>>
      BY <2>7 DEF D!Handle
    <3> QED
      BY <1>0, <3>1, <3>2, <3>3
  <2>8. ASSUME NEW q \in posts, D!Answer(q)
        PROVE  Screen'
    <3>1. posts' = posts \ {q} /\ q.from # 0
      BY <1>1, <2>8 DEF D!Answer
    <3>2. CASE D!Dismissed
      BY <3>2 DEF D!Dismissed
    <3>3. CASE D!AnswerFailed(q)
      BY <1>0, <3>1, <3>3 DEF D!AnswerFailed
    <3>4. CASE D!AnswerDone(q)
      BY <1>0, <3>1, <3>2, <3>4 DEF D!AnswerDone, D!CloseWhatIsOpen
    <3>5. CASE D!AnswerFilesFailed(q)
      BY <1>0, <3>1, <3>2, <3>5 DEF D!AnswerFilesFailed, D!CloseWhatIsOpen
    <3> QED
      BY <2>8, <3>3, <3>4, <3>5 DEF D!Answer
  <2> HIDE DEF Screen
  <2> QED
    BY <2>1, <2>2, <2>3, <2>4, <2>5, <2>6, <2>7, <2>8 DEF D!Next
<1>4. DialogTypes'
  BY DEF DialogInv
<1>5. open' \in 0..MaxOpens /\ opens' \in 0..MaxOpens
  BY <1>0, <1>4 DEF DialogTypes
<1>6. \A p \in posts' : p.inputs \subseteq manners'.inputs /\ p.from \in 1..opens'
  BY <1>0, <1>4 DEF DialogTypes, SaveRequests
<1> QED
  BY <1>2, <1>3, <1>4, <1>5, <1>6 DEF D!TypeOK, DialogTypes

(* What is waited for is a page there is, and a license only on its page.   *)
WaitsForAPage(e) == e # R!Nothing => e.page \in R!Pages /\ (e.awaiting => e.page = "licenses")

LEMMA RoutesTyped ==
    ASSUME RouteInv, RouteInv', R!TypeOK, R!Next
    PROVE  R!TypeOK'
<1>0. WaitsForAPage(expected) /\ RouteTypes /\ WaitsForAPage(R!Nothing)
  BY DEF R!TypeOK, RouteInv, WaitsForAPage
<1>16. R!Created \in loaded' => made'
  <2> DEFINE Listed == R!Created \in loaded' => made'
  <2>0. (R!Created \in loaded => made) /\ made \in BOOLEAN
    BY <1>0 DEF R!TypeOK, RouteTypes
  <2>1. CASE UNCHANGED <<loaded, made>>
    BY <2>0, <2>1
  <2>2. CASE R!Load
    BY <2>0, <2>2 DEF R!Load, R!addition
  <2>3. CASE R!LicenseCreated
    BY <2>3 DEF R!LicenseCreated
  <2>4. CASE R!Reload
    BY <2>4 DEF R!Reload
  <2>5. R!AddLicense \/ R!SubmitOrCancel \/ R!LicenseRefused => UNCHANGED <<loaded, made>>
    BY DEF R!AddLicense, R!SubmitOrCancel, R!LicenseRefused
  <2>6. R!Start \/ R!Resolve \/ R!Redirect \/ R!EditSettings \/ R!SaveSettings \/ R!OpenDialog \/ R!CloseDialog
        \/ R!LeaveSettings \/ R!StayInSettings \/ R!CreateContract \/ R!ContractCreated
        => UNCHANGED <<loaded, made>>
    BY DEF R!Start, R!Resolve, R!Redirect, R!EditSettings, R!SaveSettings, R!OpenDialog, R!CloseDialog,
           R!LeaveSettings, R!StayInSettings, R!CreateContract, R!ContractCreated, R!addition
  <2>7. ASSUME NEW p, NEW l, R!Navigate(p, l) \/ R!SelectLicense(l) \/ R!Follow(p, l) \/ R!Restore(p)
        PROVE  UNCHANGED <<loaded, made>>
    BY <2>7 DEF R!Navigate, R!SelectLicense, R!Follow, R!Restore, R!addition
  <2>8. ASSUME NEW i, R!PopState(i)
        PROVE  UNCHANGED <<loaded, made>>
    BY <2>8 DEF R!PopState, R!addition
  <2> HIDE DEF Listed
  <2> QED
    BY <2>1, <2>2, <2>3, <2>4, <2>5, <2>6, <2>7, <2>8 DEF R!Next, R!Sidebar, R!TopBar, Listed
<1> SUFFICES WaitsForAPage(expected')
  BY <1>16 DEF WaitsForAPage, RouteInv, RouteTypes, EditsAreGuarded, R!TypeOK
<1>1. ASSUME NEW p, NEW s, NEW e, NEW h, NEW i, R!Write(p, s, e, h, i), WaitsForAPage(e)
      PROVE  WaitsForAPage(expected')
  BY <1>0, <1>1 DEF R!Write
<1>2. ASSUME NEW p, NEW s, NEW e, NEW h, NEW i, R!Settle(p, s, e, h, i), WaitsForAPage(e)
      PROVE  WaitsForAPage(expected')
  BY <1>1, <1>2 DEF R!Settle
<1>3. ASSUME NEW p, NEW s, R!Show(p, s)
      PROVE  WaitsForAPage(expected')
  BY <1>0, <1>2, <1>3 DEF R!Show
<1>4. ASSUME NEW target, target.page \in R!Pages, target.key # R!Nowhere => target.page = "licenses", NEW l
      PROVE  WaitsForAPage([page |-> target.page, license |-> l, awaiting |-> target.key # R!Nowhere])
  BY <1>4 DEF WaitsForAPage
<1>5. ASSUME NEW i \in 1..Len(hist)
      PROVE  /\ R!parseAppPath(hist[i]).page \in R!Pages
             /\ R!parseAppPath(hist[i]).key # R!Nowhere => R!parseAppPath(hist[i]).page = "licenses"
  BY DEF RouteInv, KeysAreLicenses, R!parseAppPath, R!Path, R!Pages
<1>6. CASE R!Start
  <2> DEFINE target == IF hist[at].page = "root" /\ remembered # R!Nowhere THEN R!Path("licenses", remembered)
                       ELSE R!parseAppPath(hist[at])
             e == [page |-> target.page, license |-> "any", awaiting |-> target.key # R!Nowhere]
  <2>1. target.page \in R!Pages /\ (target.key # R!Nowhere => target.page = "licenses")
    BY <1>0, <1>5 DEF RouteTypes, R!Path, R!Pages
  <2>2. R!Write(target.page, license, e, R!Replaced(hist, at, target), at)
    BY <1>6 DEF R!Start
  <2> HIDE DEF target
  <2>3. WaitsForAPage(e)
    BY <1>4, <2>1
  <2> HIDE DEF e
  <2> QED
    BY <1>1, <2>2, <2>3
<1>7. CASE R!Resolve
  <2>1. ASSUME NEW l
        PROVE  WaitsForAPage([page |-> "licenses", license |-> l, awaiting |-> FALSE])
    BY DEF WaitsForAPage, R!Pages
  <2>2. \/ expected' = R!Nothing
        \/ \E l : R!Settle(page, l, [page |-> "licenses", license |-> l, awaiting |-> FALSE], hist, at)
    BY <1>7 DEF R!Resolve
  <2> QED
    BY <1>0, <1>2, <2>1, <2>2
<1>8. ASSUME NEW i \in 1..Len(hist), R!Traversed(i)
      PROVE  WaitsForAPage(expected')
  <2> DEFINE target == R!parseAppPath(hist[i])
             l == IF target.page = "licenses" /\ target.key = R!Nowhere THEN R!Nowhere ELSE "any"
             e == IF R!AlreadyShown(target) THEN R!Nothing
                  ELSE [page |-> target.page, license |-> l, awaiting |-> target.key # R!Nowhere]
  <2>1. R!Settle(IF R!Blocked(target) THEN page ELSE target.page, IF l = R!Nowhere THEN R!Nowhere ELSE license,
                 e, hist, i)
    BY <1>8 DEF R!Traversed
  <2>2. target.page \in R!Pages /\ (target.key # R!Nowhere => target.page = "licenses")
    BY <1>5
  <2> HIDE DEF target, l
  <2>3. WaitsForAPage(e)
    BY <1>0, <1>4, <2>2
  <2> HIDE DEF e
  <2> QED
    BY <1>2, <2>1, <2>3
<1>9. ASSUME NEW i, R!PopState(i)
      PROVE  WaitsForAPage(expected')
  BY <1>0, <1>8, <1>9 DEF R!PopState, R!Kept
<1>10. ASSUME NEW p, R!Restore(p)
       PROVE  WaitsForAPage(expected')
  BY <1>0, <1>10 DEF R!Restore
<1>11. ASSUME NEW p, NEW l, R!Navigate(p, l) \/ R!SelectLicense(l) \/ R!Follow(p, l)
       PROVE  WaitsForAPage(expected')
  BY <1>3, <1>11 DEF R!Navigate, R!SelectLicense, R!Follow
<1>12. CASE R!LeaveSettings \/ R!Reload \/ R!Redirect \/ R!LicenseCreated \/ R!ContractCreated
  BY <1>0, <1>1, <1>3, <1>12 DEF R!LeaveSettings, R!Reload, R!Redirect, R!LicenseCreated, R!ContractCreated
<1>13. CASE expected' = expected
  BY <1>0, <1>13
<1>14. R!Load \/ R!EditSettings \/ R!SaveSettings \/ R!OpenDialog \/ R!CloseDialog \/ R!StayInSettings
       \/ R!AddLicense \/ R!SubmitOrCancel \/ R!LicenseRefused \/ R!CreateContract => expected' = expected
  BY DEF R!Load, R!EditSettings, R!SaveSettings, R!OpenDialog, R!CloseDialog, R!StayInSettings,
         R!AddLicense, R!SubmitOrCancel, R!LicenseRefused, R!CreateContract, R!view
<1>15. \A i \in {at - 1, at + 1} : R!PopState(i) => WaitsForAPage(expected')
  BY <1>9
<1> QED
  BY <1>6, <1>7, <1>10, <1>11, <1>12, <1>13, <1>14, <1>15 DEF R!Next, R!Sidebar, R!TopBar

(* No more requests are under way than were sent.                           *)
FewUploads == IsFiniteSet(uploads) /\ Cardinality(uploads) <= sends

LEMMA UploadsAreFew ==
    ASSUME ImportTypes, FewUploads, I!Next
    PROVE  FewUploads'
<1>0. IsFiniteSet(uploads) /\ Cardinality(uploads) \in Nat /\ Cardinality(uploads) <= sends /\ sends \in Nat
  BY FS_CardinalityType DEF FewUploads, ImportTypes
<1>1. ASSUME NEW r, uploads' = uploads \union {r}, sends' = sends + 1
      PROVE  FewUploads'
  <2>1. IsFiniteSet(uploads \union {r})
        /\ Cardinality(uploads \union {r}) \in {Cardinality(uploads), Cardinality(uploads) + 1}
    BY <1>0, FS_AddElement
  <2> QED
    BY <1>0, <1>1, <2>1 DEF FewUploads
<1>2. ASSUME NEW q \in uploads, uploads' = uploads \ {q}, sends' = sends
      PROVE  FewUploads'
  <2>1. IsFiniteSet(uploads \ {q}) /\ Cardinality(uploads \ {q}) = Cardinality(uploads) - 1
    BY <1>0, FS_RemoveElement
  <2> QED
    BY <1>0, <1>2, <2>1 DEF FewUploads
<1>3. ASSUME NEW q \in uploads, NEW r, uploads' = (uploads \ {q}) \union {r}, sends' = sends
      PROVE  FewUploads'
  <2>1. IsFiniteSet(uploads \ {q}) /\ Cardinality(uploads \ {q}) = Cardinality(uploads) - 1
    BY <1>0, FS_RemoveElement
  <2> DEFINE U == uploads \ {q}
  <2>2. IsFiniteSet(U \union {r}) /\ Cardinality(U \union {r}) \in {Cardinality(U), Cardinality(U) + 1}
    BY <2>1, FS_AddElement
  <2> QED
    BY <1>0, <1>3, <2>1, <2>2 DEF FewUploads
<1>4. CASE UNCHANGED <<uploads, sends>>
  BY <1>4 DEF FewUploads
<1>5. ASSUME NEW kind, NEW f, NEW u, NEW w, NEW m, I!Send(kind, f, u, w, m)
      PROVE  FewUploads'
  BY <1>1, <1>5 DEF I!Send
<1>6. ASSUME NEW f, I!ChooseFile(f)
      PROVE  FewUploads'
  BY <1>5, <1>6 DEF I!ChooseFile
<1>7. ASSUME NEW b, I!ToggleUpdate(b)
      PROVE  FewUploads'
  BY <1>4, <1>5, <1>7 DEF I!ToggleUpdate
<1>8. CASE I!PreviewMapped \/ I!Confirm
  BY <1>5, <1>8 DEF I!PreviewMapped, I!Confirm
<1>9. ASSUME NEW q \in uploads, I!Handle(q)
      PROVE  FewUploads'
  BY <1>3, <1>9 DEF I!Handle
<1>10. ASSUME NEW q \in uploads, I!AnswerPreview(q) \/ I!AnswerAnalyze(q) \/ I!AnswerImport(q)
       PROVE  FewUploads'
  BY <1>2, <1>10 DEF I!AnswerPreview, I!AnswerAnalyze, I!AnswerImport, I!Arrives
<1>11. ASSUME NEW w, I!ChooseSource(w)
       PROVE  FewUploads'
  BY <1>4, <1>11 DEF I!ChooseSource
<1>12. ASSUME NEW rows, I!SkipRows(rows) \/ I!RestoreRow(rows)
       PROVE  FewUploads'
  BY <1>4, <1>12 DEF I!SkipRows, I!RestoreRow
<1>13. CASE I!DecideColumns \/ I!DecideRow \/ I!Reset
  BY <1>4, <1>13 DEF I!DecideColumns, I!DecideRow, I!Reset
<1> QED
  BY <1>6, <1>7, <1>8, <1>9, <1>10, <1>11, <1>12, <1>13 DEF I!Next

LEMMA ImportTyped ==
    ASSUME ImportInv, ImportInv', FewUploads', I!TypeOK, I!Next
    PROVE  I!TypeOK'
<1>0. /\ ImportTypes /\ ImportTypes' /\ NumbersAreUnique' /\ mapping <= mappings
      /\ sends \in 0..MaxRequests \union 0..MaxAstray
      /\ skipped \subseteq I!FileRows /\ decided \subseteq {"orphan"}
      /\ MaxRequests \in Nat /\ MaxAstray \in Nat /\ mappings \in Nat /\ mapping \in Nat
  BY BoundsAssumption DEF ImportInv, I!TypeOK, ImportTypes
<1>1. mapping' <= mappings'
  <2>1. \/ UNCHANGED <<mapping, mappings>>
        \/ mapping' = 0 /\ mappings' = mappings
        \/ mapping' = mappings + 1 /\ mappings' = mappings + 1
    BY DEF I!Next, I!DecideColumns, I!PreviewMapped, I!DecideRow, I!Confirm, I!Reset, I!ChooseSource,
           I!ChooseFile, I!ToggleUpdate, I!SkipRows, I!RestoreRow, I!Handle, I!AnswerPreview, I!AnswerAnalyze,
           I!AnswerImport
  <2> QED
    BY <1>0, <2>1
<1>2. sends' \in 0..MaxRequests \union 0..MaxAstray
  <2>1. \/ sends' = sends
        \/ sends < (IF astray THEN MaxAstray ELSE MaxRequests) /\ sends' = sends + 1
    BY DEF I!Next, I!DecideColumns, I!PreviewMapped, I!DecideRow, I!Confirm, I!Reset, I!ChooseSource,
           I!ChooseFile, I!ToggleUpdate, I!SkipRows, I!RestoreRow, I!Handle, I!AnswerPreview, I!AnswerAnalyze,
           I!AnswerImport, I!Send
  <2> QED
    BY <1>0, <2>1
<1>3. skipped' \subseteq I!FileRows /\ decided' \subseteq {"orphan"}
  <2>1. \A rows : I!WithDependents(rows) \subseteq rows \union I!FileRows
    BY DEF I!WithDependents
  <2>2. {"parent"} \subseteq I!FileRows /\ {"child", "orphan"} \subseteq I!FileRows
    BY DEF I!FileRows
  <2>3. ASSUME NEW rows \in {{"parent"}, {"child", "orphan"}}, I!SkipRows(rows)
        PROVE  skipped' \subseteq I!FileRows /\ decided' \subseteq {"orphan"}
    BY <1>0, <2>1, <2>2, <2>3 DEF I!SkipRows
  <2>4. CASE skipped' \in {skipped, {}} /\ decided' \in {decided, {}}
    BY <1>0, <2>4
  <2>5. CASE I!DecideRow
    BY <1>0, <2>5 DEF I!DecideRow
  <2>6. ASSUME NEW r, I!RestoreRow(r)
        PROVE  skipped' \subseteq I!FileRows /\ decided' \subseteq {"orphan"}
    BY <1>0, <2>6 DEF I!RestoreRow
  <2> QED
    BY <2>3, <2>4, <2>5, <2>6
       DEF I!Next, I!DecideColumns, I!PreviewMapped, I!Confirm, I!Reset, I!ChooseSource, I!ChooseFile,
           I!ToggleUpdate, I!Handle, I!AnswerPreview, I!AnswerAnalyze, I!AnswerImport
<1>4. I!Cardinality(uploads') <= sends'
  BY DEF FewUploads, I!Cardinality, Cardinality
<1>5. preview.number' \in 0..sends' /\ preview.file' \in Files \union {I!NoOne} /\ mapping' \in 0..mappings'
  BY <1>0, <1>1 DEF ImportTypes, NumbersAreUnique, Previews
<1> QED
  BY <1>0, <1>2, <1>3, <1>4, <1>5 DEF I!TypeOK, ImportTypes

(* A record has no more versions than changes were made, and every version  *)
(* kept somewhere is one of them or what the user typed.                    *)
Unhandled == {p \in doing : p.state = "sent"}
ChangesAreCounted ==
    /\ IsFiniteSet(Unhandled) /\ deeds <= MaxDeeds
    /\ \A r \in Rows : server[r] + Cardinality(Unhandled) <= deeds + 1

Shows(versions) == \A r \in Rows : versions[r] <= server[r] \/ versions[r] = C!Typed
CacheBounds ==
    /\ ChangesAreCounted /\ fetches \in 0..MaxFetches
    /\ \A r \in Rows : 1 <= own[r] /\ fetch.got[r] <= server[r]
    /\ Shows(data) /\ \A p \in doing : Shows(p.before)
    /\ ~C!known => ~stale

LEMMA ChangesCount ==
    ASSUME CacheTypes, ChangesAreCounted, C!Next
    PROVE  ChangesAreCounted'
<1> DEFINE U == Unhandled
<1>0. /\ IsFiniteSet(U) /\ Cardinality(U) \in Nat /\ deeds \in Nat /\ server \in [Rows -> Nat]
      /\ \A r \in Rows : server[r] + Cardinality(U) <= deeds + 1
      /\ MaxDeeds \in Nat /\ deeds <= MaxDeeds /\ doing \subseteq Doings
  BY BoundsAssumption, FS_CardinalityType DEF ChangesAreCounted, CacheTypes, Versions
<1>1. ASSUME NEW as \in treatments, NEW r \in Rows, C!Act(as, r)
      PROVE  ChangesAreCounted'
  <2> DEFINE V == {[p EXCEPT !.doubtful = TRUE] : p \in U}
             f == [p \in U |-> [p EXCEPT !.doubtful = TRUE]]
  <2>1. IsFiniteSet(V) /\ Cardinality(V) \in Nat /\ Cardinality(V) <= Cardinality(U)
    <3>1. f \in Surjection(U, V)
      BY DEF Surjection
    <3> HIDE DEF U, V, f
    <3> QED
      BY <1>0, <3>1, FS_Surjection, FS_CardinalityType
  <2>2. PICK new : doing' = {[p EXCEPT !.doubtful = TRUE] : p \in doing} \union {new} /\ new.state = "sent"
    <3> DEFINE new == [id |-> deeds, as |-> as, row |-> r, state |-> "sent", version |-> 0,
                       doubtful |-> raced \/ stale \/ fetch # C!Idle \/ doing # {},
                       before |-> IF as.writes = "typed" THEN data ELSE C!Nothing]
    <3>1. doing' = {[p EXCEPT !.doubtful = TRUE] : p \in doing} \union {new} /\ new.state = "sent"
      BY <1>1 DEF C!Act
    <3> HIDE DEF new
    <3> QED
      BY <3>1
  <2>3. \A p \in doing : [p EXCEPT !.doubtful = TRUE].state = p.state
    BY <1>0 DEF Doings
  <2>4. Unhandled' = V \union {new}
    BY <2>2, <2>3 DEF Unhandled
  <2>5. deeds < MaxDeeds /\ deeds' = deeds + 1 /\ server' = server
    BY <1>1 DEF C!Act
  <2>5a. deeds' \in Nat /\ deeds' <= MaxDeeds
    BY <1>0, <2>5
  <2> HIDE DEF V, U
  <2>6. IsFiniteSet(V \union {new}) /\ Cardinality(V \union {new}) \in {Cardinality(V), Cardinality(V) + 1}
    BY <2>1, FS_AddElement
  <2>7. \A s \in Rows : server'[s] + Cardinality(V \union {new}) <= deeds' + 1
    BY <1>0, <2>1, <2>5, <2>6
  <2> QED
    BY <2>4, <2>5a, <2>6, <2>7 DEF ChangesAreCounted
<1>2. ASSUME NEW p \in doing, C!ServerActs(p)
      PROVE  ChangesAreCounted'
  <2>1. p \in U /\ deeds' = deeds
    BY <1>2 DEF C!ServerActs, Unhandled
  <2>2. IsFiniteSet(U \ {p}) /\ Cardinality(U \ {p}) = Cardinality(U) - 1
    BY <1>0, <2>1, FS_RemoveElement
  <2>3. Unhandled' = U \ {p}
    <3>1. \A v : [p EXCEPT !.state = "done", !.version = v].state = "done"
      BY <1>0 DEF Doings
    <3>2. [p EXCEPT !.state = "failed"].state = "failed"
      BY <1>0 DEF Doings
    <3> QED
      BY <1>2, <3>1, <3>2 DEF C!ServerActs, Unhandled
  <2>4. \A r \in Rows : server'[r] \in {server[r], server[r] + 1}
    BY <1>0, <1>2 DEF C!ServerActs
  <2> HIDE DEF U
  <2>5. \A r \in Rows : server'[r] + Cardinality(U \ {p}) <= deeds' + 1
    BY <1>0, <2>1, <2>2, <2>4
  <2> QED
    BY <1>0, <2>1, <2>2, <2>3, <2>5 DEF ChangesAreCounted
<1>3. ASSUME UNCHANGED <<server, deeds>>, doing' \subseteq doing
      PROVE  ChangesAreCounted'
  <2>1. Unhandled' \subseteq U
    BY <1>3 DEF Unhandled
  <2>2. IsFiniteSet(Unhandled') /\ Cardinality(Unhandled') \in Nat /\ Cardinality(Unhandled') <= Cardinality(U)
    BY <1>0, <2>1, FS_Subset, FS_CardinalityType
  <2> HIDE DEF U
  <2> QED
    BY <1>0, <1>3, <2>2 DEF ChangesAreCounted
<1>4. ASSUME NEW p \in doing, C!Answer(p) \/ C!AnswerFailed(p)
      PROVE  ChangesAreCounted'
  BY <1>3, <1>4 DEF C!Answer, C!AnswerFailed
<1>5. CASE C!Mount \/ C!Unmount \/ C!Refetch \/ C!IdleRefresh \/ C!ServerReads \/ C!TakeFetch \/ C!FetchFails
  BY <1>3, <1>5 DEF C!Mount, C!Unmount, C!Refetch, C!IdleRefresh, C!ServerReads, C!TakeFetch, C!FetchFails
<1> QED
  BY <1>1, <1>2, <1>4, <1>5 DEF C!Next

LEMMA CacheBoundsStart ==
    C!Init => CacheBounds
<1> SUFFICES ASSUME C!Init
             PROVE  CacheBounds
  OBVIOUS
<1>0. {MaxDeeds, MaxFetches} \subseteq Nat
  BY BoundsAssumption
<1>1. ChangesAreCounted
  <2>1. Unhandled = {} /\ IsFiniteSet({}) /\ Cardinality({}) = 0
    BY FS_EmptySet DEF C!Init, Unhandled
  <2> QED
    BY <1>0, <2>1 DEF C!Init, ChangesAreCounted
<1>3. \A r \in Rows : 1 <= own[r] /\ fetch.got[r] <= server[r]
  BY DEF C!Init, C!Idle, C!Nothing
<1>4. Shows(data) /\ \A p \in doing : Shows(p.before)
  BY DEF C!Init, C!Nothing, Shows
<1> QED
  BY <1>0, <1>1, <1>3, <1>4 DEF C!Init, CacheBounds

(* A record's version on the server only grows.                             *)
LEMMA VersionsGrow ==
    ASSUME CacheInv, CacheInv', C!Next
    PROVE  \A r \in Rows : server[r] <= server'[r]
<1>1. server \in [Rows -> Nat]
  BY DEF CacheInv, CacheTypes, Versions
<1>2. server' = server \/ \E s \in Rows : server' = [server EXCEPT ![s] = @ + 1]
  BY DEF C!Next, C!Mount, C!Unmount, C!Refetch, C!IdleRefresh, C!ServerReads, C!TakeFetch, C!FetchFails, C!Act,
         C!ServerActs, C!Answer, C!AnswerFailed, CacheInv, CacheTypes, Doings
<1> QED
  BY <1>1, <1>2

LEMMA CacheBounded ==
    ASSUME CacheInv, CacheInv', CacheBounds, C!Next
    PROVE  CacheBounds'
<1>0. /\ CacheTypes /\ CacheTypes' /\ ChangesAreCounted /\ {MaxDeeds, MaxFetches} \subseteq Nat
      /\ C!Typed' = C!Typed /\ C!Nothing' = C!Nothing
  BY BoundsAssumption DEF CacheInv, CacheBounds, C!Typed, C!Nothing
<1>1. ChangesAreCounted'
  BY <1>0, ChangesCount
<1>2. treatments' = treatments
  BY DEF C!Next, C!Mount, C!Unmount, C!Refetch, C!IdleRefresh, C!ServerReads, C!TakeFetch, C!FetchFails, C!Act,
         C!ServerActs, C!Answer, C!AnswerFailed
<1>2a. \/ UNCHANGED <<fetch, fetches>>
       \/ C!StartFetch
       \/ C!Race
       \/ fetches' = fetches /\ fetch' = C!Idle
       \/ fetches' = fetches /\ \E x \in {"read", "failed"} :
            fetch' = [fetch EXCEPT !.state = x, !.got = server] \/ fetch' = [fetch EXCEPT !.state = x]
  <2>1. CASE C!ServerReads
    BY <2>1 DEF C!ServerReads
  <2>2. CASE C!TakeFetch \/ C!FetchFails
    BY <2>2 DEF C!TakeFetch, C!FetchFails
  <2>3. CASE C!Mount \/ C!Unmount \/ C!Refetch \/ C!IdleRefresh
    BY <2>3 DEF C!Mount, C!Unmount, C!Refetch, C!IdleRefresh, C!Invalidate
  <2>4. ASSUME NEW as \in treatments, NEW r \in Rows, C!Act(as, r)
        PROVE  UNCHANGED <<fetch, fetches>> \/ C!Race
    BY <2>4 DEF C!Act, C!NoRace
  <2>5. ASSUME NEW p \in doing, C!ServerActs(p) \/ C!Answer(p) \/ C!AnswerFailed(p)
        PROVE  UNCHANGED <<fetch, fetches>> \/ C!Race \/ C!StartFetch
    BY <2>5 DEF C!ServerActs, C!Answer, C!AnswerFailed, C!NoRace
  <2> QED
    BY <2>1, <2>2, <2>3, <2>4, <2>5 DEF C!Next
<1>3. fetches' \in 0..MaxFetches
  BY <1>0, <1>2a DEF CacheBounds, CacheTypes, C!StartFetch, C!Race
<1>4. \A r \in Rows : 1 <= own'[r]
  <2>1. own' = own \/ \E p \in doing : p.state = "done" /\ own' = [own EXCEPT ![p.row] = p.version]
    BY DEF C!Next, C!Mount, C!Unmount, C!Refetch, C!IdleRefresh, C!ServerReads, C!TakeFetch, C!FetchFails, C!Act,
           C!ServerActs, C!Answer, C!AnswerFailed
  <2>2. own \in [Rows -> Nat] /\ \A p \in doing : p.state = "done" => 1 <= p.version
    BY <1>0 DEF CacheTypes, Versions, CacheInv, DoingsAreKnown, DoingIsKnown
  <2> QED
    BY <2>1, <2>2 DEF CacheBounds
<1>5. \A r \in Rows : fetch'.got[r] <= server'[r]
  <2>1. \/ fetch'.got = fetch.got
        \/ fetch'.got = C!Nothing
        \/ fetch'.got = server
    <3>0. C!Idle.got = C!Nothing /\ C!Sent.got = C!Nothing
      BY DEF C!Idle, C!Sent
    <3>1. CASE UNCHANGED <<fetch, fetches>> \/ C!StartFetch \/ fetch' = C!Idle
      BY <3>0, <3>1 DEF C!StartFetch
    <3>2. CASE C!Race
      BY <1>0, <3>2 DEF C!Race, CacheTypes, Fetches
    <3>3. ASSUME NEW x \in {"read", "failed"},
                 fetch' = [fetch EXCEPT !.state = x, !.got = server] \/ fetch' = [fetch EXCEPT !.state = x]
          PROVE  fetch'.got = fetch.got \/ fetch'.got = server
      BY <1>0, <3>3 DEF CacheTypes, Fetches
    <3> QED
      BY <1>2a, <3>1, <3>2, <3>3
  <2>2. server \in [Rows -> Nat] /\ server' \in [Rows -> Nat] /\ fetch.got \in [Rows -> Nat]
    BY <1>0 DEF CacheTypes, Versions, Fetches
  <2> QED
    BY <2>1, <2>2, VersionsGrow DEF CacheBounds, C!Nothing
<1> DEFINE NowShown(v) == \A r \in Rows : v[r] <= server'[r] \/ v[r] = C!Typed
<1>6. NowShown(data) /\ NowShown(fetch.got) /\ NowShown(C!Nothing) /\ \A p \in doing : NowShown(p.before)
  <2>1. /\ server \in [Rows -> Nat] /\ server' \in [Rows -> Nat]
        /\ data \in [Rows -> Nat] /\ fetch.got \in [Rows -> Nat] /\ \A p \in doing : p.before \in [Rows -> Nat]
    BY <1>0 DEF CacheTypes, Versions, Fetches, Doings
  <2>2. \A v \in [Rows -> Nat] : Shows(v) => NowShown(v)
    BY <2>1, VersionsGrow DEF Shows
  <2>3. Shows(data) /\ Shows(fetch.got) /\ \A p \in doing : Shows(p.before)
    BY DEF CacheBounds, Shows
  <2>4. NowShown(C!Nothing)
    BY <2>1 DEF C!Nothing
  <2> QED
    BY <2>1, <2>2, <2>3, <2>4
<1>7. NowShown(data')
  <2>0. data \in [Rows -> Nat] /\ server \in [Rows -> Nat] /\ doing \subseteq Doings /\ C!Typed \in Nat
    BY <1>0 DEF CacheTypes, Versions, C!Typed
  <2>1. CASE C!TakeFetch
    BY <1>6, <2>1 DEF C!TakeFetch
  <2>2. CASE C!Mount \/ C!Unmount \/ C!Refetch \/ C!IdleRefresh \/ C!ServerReads \/ C!FetchFails
    BY <1>6, <2>2 DEF C!Mount, C!Unmount, C!Refetch, C!IdleRefresh, C!ServerReads, C!FetchFails
  <2>3. ASSUME NEW as \in treatments, NEW s \in Rows, C!Act(as, s)
        PROVE  NowShown(data')
    <3>1. data' = data \/ data' = [data EXCEPT ![s] = C!Typed]
      BY <2>3 DEF C!Act
    <3> QED
      BY <1>6, <2>0, <3>1
  <2>4. ASSUME NEW p \in doing, C!ServerActs(p) \/ C!AnswerFailed(p)
        PROVE  NowShown(data')
    BY <1>6, <2>4 DEF C!ServerActs, C!AnswerFailed
  <2>5. ASSUME NEW p \in doing, C!Answer(p)
        PROVE  NowShown(data')
    <3>1. p.version <= server[p.row] /\ p.version \in Nat /\ p.row \in Rows
      BY <2>0, <2>5 DEF C!Answer, CacheInv, DoingsAreKnown, DoingIsKnown, Doings
    <3>2. data' = data \/ \E v \in 0..server[p.row] : data' = [data EXCEPT ![p.row] = v]
      <4>1. data' \in C!Written(p)
        BY <2>5 DEF C!Answer
      <4>2. CASE p.as.writes = "" \/ (p.as.writes # "list" /\ ~C!known)
        BY <4>1, <4>2 DEF C!Written
      <4>3. CASE ~(p.as.writes = "" \/ (p.as.writes # "list" /\ ~C!known))
        <5>1. PICK v \in IF p.as.rereads THEN p.version..server[p.row] ELSE {p.version} :
                   data' = [data EXCEPT ![p.row] = v]
          BY <4>1, <4>3 DEF C!Written
        <5>2. v \in p.version..server[p.row] \/ v = p.version
          BY <5>1
        <5>3. server[p.row] \in Nat
          BY <2>0, <3>1
        <5>4. v \in 0..server[p.row]
          BY <3>1, <5>2, <5>3
        <5> QED
          BY <5>1, <5>4
      <4> QED
        BY <4>2, <4>3
    <3>3. server' = server
      BY <2>5 DEF C!Answer
    <3> QED
      BY <1>6, <2>0, <3>1, <3>2, <3>3
  <2> QED
    BY <2>1, <2>2, <2>3, <2>4, <2>5 DEF C!Next
<1>8. \A p \in doing' : NowShown(p.before)
  <2> DEFINE FromBefore(p) == \/ \E q \in doing : p.before = q.before
                              \/ p.before \in {data, C!Nothing}
  <2>1. ASSUME \/ C!Mount \/ C!Unmount \/ C!Refetch \/ C!IdleRefresh
               \/ C!ServerReads \/ C!TakeFetch \/ C!FetchFails
        PROVE  \A p \in doing' : FromBefore(p)
    BY <2>1 DEF C!Mount, C!Unmount, C!Refetch, C!IdleRefresh, C!ServerReads, C!TakeFetch, C!FetchFails
  <2>2. ASSUME NEW as \in treatments, NEW s \in Rows, C!Act(as, s)
        PROVE  \A p \in doing' : FromBefore(p)
    <3>1. PICK new : doing' = {[p EXCEPT !.doubtful = TRUE] : p \in doing} \union {new}
                     /\ new.before \in {data, C!Nothing}
      <4> DEFINE new == [id |-> deeds, as |-> as, row |-> s, state |-> "sent", version |-> 0,
                         doubtful |-> raced \/ stale \/ fetch # C!Idle \/ doing # {},
                         before |-> IF as.writes = "typed" THEN data ELSE C!Nothing]
      <4>1. doing' = {[p EXCEPT !.doubtful = TRUE] : p \in doing} \union {new} /\ new.before \in {data, C!Nothing}
        BY <2>2 DEF C!Act
      <4> HIDE DEF new
      <4> QED
        BY <4>1
    <3>2. \A p \in doing : [p EXCEPT !.doubtful = TRUE].before = p.before
      BY <1>0 DEF CacheTypes, Doings
    <3> QED
      BY <3>1, <3>2
  <2>3. ASSUME NEW q \in doing, C!ServerActs(q)
        PROVE  \A p \in doing' : FromBefore(p)
    <3>1. (\A v : [q EXCEPT !.state = "done", !.version = v].before = q.before)
          /\ [q EXCEPT !.state = "failed"].before = q.before
      BY <1>0 DEF CacheTypes, Doings
    <3> QED
      BY <2>3, <3>1 DEF C!ServerActs
  <2>4. ASSUME NEW q \in doing, C!Answer(q) \/ C!AnswerFailed(q)
        PROVE  \A p \in doing' : FromBefore(p)
    BY <2>4 DEF C!Answer, C!AnswerFailed
  <2>5. \A p \in doing' : FromBefore(p)
    BY <2>1, <2>2, <2>3, <2>4 DEF C!Next
  <2> HIDE DEF NowShown
  <2> QED
    BY <1>6, <2>5
<1>9. Shows(data)' /\ \A p \in doing' : Shows(p.before)'
  BY <1>0, <1>7, <1>8 DEF Shows
<1>10. ~C!known' => ~stale'
  <2>1. \/ stale' = FALSE
        \/ stale' = stale /\ data' = data
        \/ stale' = C!known /\ data' = data
        \/ stale' => C!known'
    <3>1. CASE C!Mount \/ C!Unmount \/ C!Refetch \/ C!IdleRefresh \/ C!ServerReads \/ C!TakeFetch \/ C!FetchFails
      BY <3>1 DEF C!Mount, C!Unmount, C!Refetch, C!IdleRefresh, C!Invalidate, C!ServerReads, C!TakeFetch,
                  C!FetchFails
    <3>2. ASSUME NEW as \in treatments, NEW s \in Rows, C!Act(as, s)
          PROVE  stale' = FALSE \/ (stale' = stale /\ data' = data)
      BY <3>2 DEF C!Act
    <3>3. ASSUME NEW q \in doing, C!ServerActs(q) \/ C!AnswerFailed(q)
          PROVE  stale' = FALSE \/ (stale' = stale /\ data' = data)
      BY <3>3 DEF C!ServerActs, C!AnswerFailed
    <3>4. ASSUME NEW q \in doing, C!Answer(q)
          PROVE  stale' => C!known'
      BY <3>4 DEF C!Answer
    <3> QED
      BY <3>1, <3>2, <3>3, <3>4 DEF C!Next
  <2> QED
    BY <1>0, <2>1 DEF CacheBounds, C!known
<1> QED
  BY <1>1, <1>3, <1>4, <1>5, <1>9, <1>10 DEF CacheBounds

LEMMA CacheTyped ==
    ASSUME CacheInv, CacheBounds
    PROVE  C!TypeOK
<1>1. /\ CacheTypes /\ {MaxDeeds, MaxFetches} \subseteq Nat /\ C!Typed \in Nat
      /\ server \in [Rows -> Nat] /\ own \in [Rows -> Nat] /\ data \in [Rows -> Nat] /\ fetch \in Fetches
      /\ fetch.got \in [Rows -> Nat]
  BY BoundsAssumption DEF CacheInv, CacheTypes, Versions, Fetches, C!Typed
<1>2. \A r \in Rows : server[r] <= MaxDeeds + 1
  <2>1. Cardinality(Unhandled) \in Nat /\ deeds \in Nat
    BY <1>1, FS_CardinalityType DEF CacheBounds, ChangesAreCounted, CacheTypes
  <2> QED
    BY <1>1, <2>1 DEF CacheBounds, ChangesAreCounted
<1>3. \A r \in Rows : /\ server[r] \in 1..(MaxDeeds + 1) /\ own[r] \in 1..server[r]
                      /\ data[r] \in 0..server[r] \union {C!Typed} /\ fetch.got[r] \in 0..server[r]
  BY <1>1, <1>2 DEF CacheInv, ServerHasOwn, CacheBounds, Shows
<1>4. deeds \in 0..MaxDeeds /\ fetches \in 0..MaxFetches /\ (~C!known => ~stale)
  BY <1>1 DEF CacheTypes, CacheBounds, ChangesAreCounted
<1> QED
  BY <1>1, <1>3, <1>4 DEF C!TypeOK, CacheTypes, TreatmentRules, Fetches

(* The lists hold no more than there were operations, and a list that shows *)
(* that it is being read waits for a read.                                  *)
Small(versions) == \A e \in L!Entries : versions[e] <= MaxActs + 1
Fits(p) ==
    Small(p.got) /\ Small(p.before) /\ Small(p.carries) /\ (p.op # "load" => p.id <= MaxActs + 1)
ReadsFor(p, v) == p.op = "load" /\ ~p.quiet /\ p.view = v

ListBounds ==
    /\ acts \in 0..MaxActs /\ loads \in 0..MaxLoads /\ view \in 1..2
    /\ Small(visible) /\ Small(theirs) /\ \A p \in inquiries : Fits(p)
    /\ \A i \in Items : theirs[i] # 0 => i \in taken
    /\ held \in L!Entries \union {None} /\ unsure \subseteq L!Entries
    /\ reading => \E p \in inquiries : ReadsFor(p, view)

LEMMA ListBoundsStart ==
    L!Init => ListBounds
<1> SUFFICES ASSUME L!Init
             PROVE  ListBounds
  OBVIOUS
<1>0. {MaxActs, MaxLoads} \subseteq Nat
  BY BoundsAssumption
<1>1. Small(theirs) /\ Small(L!Nothing)
  BY <1>0 DEF L!Init, L!Nothing, Small
<1>2. visible = theirs \/ visible = L!Nothing
  BY DEF L!Init
<1>3. \A i \in Items : theirs[i] # 0 => i \in taken
  <2>1. ASSUME NEW i \in Items, theirs[i] # 0
        PROVE  i \in taken
    <3>1. i \in L!Entries /\ i \in taken \union {Order} /\ i # Order
      BY <2>1, ListsAssumption DEF L!Init, L!Entries
    <3> QED
      BY <2>1, <3>1
  <2> QED
    BY <2>1
<1> QED
  BY <1>0, <1>1, <1>2, <1>3 DEF L!Init, ListBounds

LEMMA NothingIsSmall == Small(L!Nothing)
BY BoundsAssumption DEF Small, L!Nothing

LEMMA MetFit ==
    ASSUME ListTypes, ListBounds, NEW new, NEW others \in SUBSET inquiries, L!Meeting(new, others), Fits(new)
    PROVE  /\ \A r \in inquiries' : Fits(r)
           /\ \A v : (\E q \in others \union {new} : ReadsFor(q, v)) => \E r \in inquiries' : ReadsFor(r, v)
<1> DEFINE Met(q) == [q EXCEPT !.met = TRUE]
<1>1. \A q \in others : /\ Met(q).got = q.got /\ Met(q).before = q.before /\ Met(q).carries = q.carries
                        /\ Met(q).op = q.op /\ Met(q).id = q.id /\ Met(q).quiet = q.quiet /\ Met(q).view = q.view
  BY DEF ListTypes, Inquiries
<1>2. inquiries' = {Met(q) : q \in others} \union {new}
  BY DEF L!Meeting
<1> HIDE DEF Met
<1>3. \A q \in others : Fits(Met(q)) /\ \A v : ReadsFor(q, v) => ReadsFor(Met(q), v)
  BY <1>1 DEF Fits, ReadsFor, ListBounds
<1> QED
  BY <1>2, <1>3

LEMMA ReadsFit ==
    ASSUME ListTypes, ListBounds, NEW others \in SUBSET inquiries, NEW quiet \in BOOLEAN, L!Read(others, quiet),
           \A q \in inquiries \ others : q.op # "load"
    PROVE  /\ loads' \in 0..MaxLoads /\ \A r \in inquiries' : Fits(r)
           /\ reading' => \E r \in inquiries' : ReadsFor(r, view)
<1> DEFINE call == L!Call("load", None)
           new == [call EXCEPT !.id = MaxActs + 2 + loads, !.quiet = quiet, !.met = others # {}]
<1>1. /\ call \in Inquiries /\ call.op = "load" /\ call.view = view
      /\ call.got = L!Nothing /\ call.carries = L!Nothing /\ call.before \in {visible, L!Nothing}
  BY CallParts
<1>2. L!Meeting(new, others) /\ loads < MaxLoads /\ loads' = loads + 1 /\ reading' = (reading \/ ~quiet)
  BY DEF L!Read
<1> HIDE DEF call
<1>3. /\ new.got = L!Nothing /\ new.carries = L!Nothing /\ new.before \in {visible, L!Nothing} /\ new.op = "load"
      /\ new.quiet = quiet /\ new.view = view
  BY <1>1 DEF Inquiries
<1> HIDE DEF new
<1>4. Fits(new)
  BY <1>3, NothingIsSmall DEF Fits, ListBounds
<1>5. reading' => \E q \in others \union {new} : ReadsFor(q, view)
  BY <1>2, <1>3 DEF ReadsFor, ListBounds
<1>6. loads' \in 0..MaxLoads
  BY <1>2, BoundsAssumption DEF ListBounds
<1> QED
  BY <1>2, <1>4, <1>5, <1>6, MetFit

LEMMA SendsFit ==
    ASSUME ListTypes, ListBounds, NEW o \in {"create", "change", "delete", "try", "order"}, NEW e \in L!Entries,
           L!Send(L!Call(o, e), [visible EXCEPT ![e] = IF o = "delete" THEN 0 ELSE acts + 2]),
           held' \in {held, e}
    PROVE  ListBounds'
<1> DEFINE call == L!Call(o, e)
           after == [visible EXCEPT ![e] = IF o = "delete" THEN 0 ELSE acts + 2]
           kept == IF list.whole THEN after ELSE L!Nothing
           new == [call EXCEPT !.carries = kept]
<1>0. acts < MaxActs /\ acts \in Nat /\ MaxActs \in Nat /\ visible \in ListStates
  BY BoundsAssumption DEF L!Send, ListTypes
<1>1. /\ call \in Inquiries /\ call.id = acts + 2 /\ call.op = o
      /\ call.got = L!Nothing /\ call.before \in {visible, L!Nothing}
  BY CallParts
<1>2. Small(after)
  <2>1. (IF o = "delete" THEN 0 ELSE acts + 2) <= MaxActs + 1
    BY <1>0
  <2> QED
    BY <1>0, <2>1 DEF Small, ListBounds, ListStates
<1>3. /\ acts' = acts + 1 /\ visible' \in {visible, after} /\ L!Meeting(new, inquiries)
      /\ UNCHANGED <<view, reading, theirs, taken, loads, unsure>>
  BY <1>1 DEF L!Send
<1> HIDE DEF call, after
<1>4. Small(kept)
  BY <1>2, NothingIsSmall
<1> HIDE DEF kept
<1>5. /\ new.got = L!Nothing /\ new.carries = kept /\ new.before \in {visible, L!Nothing}
      /\ new.op = o /\ new.id = acts + 2
  BY <1>1 DEF Inquiries
<1> HIDE DEF new
<1>6. Fits(new)
  <2>1. new.id <= MaxActs + 1
    BY <1>0, <1>5
  <2> QED
    BY <1>4, <1>5, <2>1, NothingIsSmall DEF Fits, ListBounds
<1>7. /\ \A r \in inquiries' : Fits(r)
      /\ reading' => \E r \in inquiries' : ReadsFor(r, view)
  BY <1>3, <1>6, MetFit DEF ListBounds
<1>8. acts' \in 0..MaxActs /\ Small(visible)' /\ (\A r \in inquiries' : Fits(r)')
  BY <1>0, <1>2, <1>3, <1>7 DEF ListBounds, Small, Fits
<1> QED
  BY <1>3, <1>7, <1>8 DEF ListBounds, Small

(* A request goes on, or is over.                                           *)
LEMMA GoesOnFits ==
    ASSUME ListBounds, NEW p \in inquiries, NEW n, inquiries' = (inquiries \ {p}) \union {n},
           n.op = p.op, n.quiet = p.quiet, n.view = p.view, Fits(n), reading' = reading, view' = view
    PROVE  (\A r \in inquiries' : Fits(r)') /\ (reading' => \E r \in inquiries' : ReadsFor(r, view'))
<1>1. \A r \in inquiries' : Fits(r)
  BY DEF ListBounds
<1>2. ReadsFor(p, view) => ReadsFor(n, view)
  BY DEF ReadsFor
<1> QED
  BY <1>1, <1>2 DEF ListBounds, Fits, Small

LEMMA IsOverFits ==
    ASSUME ListBounds, NEW p \in inquiries, inquiries' = inquiries \ {p}, reading' => reading,
           ~reading' \/ ~ReadsFor(p, view), view' = view
    PROVE  (\A r \in inquiries' : Fits(r)') /\ (reading' => \E r \in inquiries' : ReadsFor(r, view'))
BY DEF ListBounds, Fits, Small

LEMMA ListBounded ==
    ASSUME ListInv, ListInv', ListBounds, L!Next
    PROVE  ListBounds'
<1>0. /\ ListTypes /\ ListTypes' /\ list \in L!Lists /\ visible \in ListStates /\ theirs \in ListStates
      /\ inquiries \subseteq Inquiries /\ OpsAreOfTheList /\ MaxActs \in Nat
      /\ list.ops \subseteq {"create", "change", "delete", "try", "order"} /\ list.early \subseteq list.ops
  <2>1. ListTypes /\ list \in L!Lists
    BY DEF ListInv, ListTypes
  <2> QED
    BY <2>1, ListRules, BoundsAssumption DEF ListInv, ListTypes
<1>A. \A p : Fits(p)' = Fits(p) /\ Small(p)' = Small(p)
  BY DEF Fits, Small
<1>1. CASE L!Close \/ L!Refuse \/ \E e \in L!Entries : \E op \in {"change", "delete", "try", "order"} : L!Ask(op, e)
  BY <1>1 DEF L!Close, L!Refuse, L!Ask, ListBounds, Fits, Small
<1>2. CASE L!Open \/ L!Refresh
  <2>1. UNCHANGED <<view, visible, theirs, taken, held, acts, unsure>>
        /\ (L!Read(inquiries, FALSE) \/ UNCHANGED <<reading, inquiries, loads>>)
    BY <1>2 DEF L!Open, L!Refresh
  <2>2. CASE L!Read(inquiries, FALSE)
    <3>1. /\ loads' \in 0..MaxLoads /\ \A r \in inquiries' : Fits(r)
          /\ reading' => \E r \in inquiries' : ReadsFor(r, view)
      BY <1>0, <2>2, ReadsFit
    <3> QED
      BY <2>1, <3>1 DEF ListBounds, Fits, Small
  <2>3. CASE UNCHANGED <<reading, inquiries, loads>>
    BY <2>1, <2>3 DEF ListBounds, Fits, Small
  <2> QED
    BY <2>1, <2>2, <2>3
<1>3. CASE L!Leave
  BY <1>3, NothingIsSmall DEF L!Leave, ListBounds, Fits, Small
<1>4. ASSUME NEW e \in L!Entries, L!Create(e)
      PROVE  ListBounds'
  <2>1. L!Send(L!Call("create", e), [visible EXCEPT ![e] = acts + 2]) /\ held' = held
    BY <1>4 DEF L!Create
  <2>2. [visible EXCEPT ![e] = acts + 2] = [visible EXCEPT ![e] = IF "create" = "delete" THEN 0 ELSE acts + 2]
    OBVIOUS
  <2> QED
    BY <1>0, <2>1, <2>2, SendsFit
<1>5. ASSUME NEW e \in L!Entries, NEW o \in {"change", "delete", "try", "order"}, L!Act(o, e)
      PROVE  ListBounds'
  <2>1. L!Send(L!Call(o, e), [visible EXCEPT ![e] = IF o = "delete" THEN 0 ELSE acts + 2]) /\ held' \in {held, e}
    BY <1>5 DEF L!Act
  <2> QED
    BY <1>0, <2>1, SendsFit
<1>6. ASSUME NEW p \in inquiries, L!Serve(p)
      PROVE  ListBounds'
  <2>0. p \in Inquiries /\ Fits(p)
    BY <1>0 DEF ListBounds
  <2>1. PICK result \in {"done", "refused", "lost"} :
           /\ p.op = "load" => result # "lost"
           /\ theirs' = IF result # "refused" THEN L!Written(p) ELSE theirs
           /\ inquiries' = (inquiries \ {p}) \union
                {[p EXCEPT !.state = IF result = "done" THEN "done" ELSE "refused",
                           !.got = IF result # "refused" /\ p.op \in {"load", "order"} THEN theirs' ELSE L!Nothing]}
           /\ unsure' = IF result = "lost" THEN unsure \union {p.entry} ELSE unsure
    BY <1>6 DEF L!Serve
  <2>2. UNCHANGED <<view, reading, visible, held, acts, loads>>
        /\ taken' = taken \union {i \in Items : theirs'[i] # 0}
    BY <1>6 DEF L!Serve
  <2>3. Small(theirs')
    <3>1. ASSUME p.op # "load"
          PROVE  Small([theirs EXCEPT ![p.entry] = IF p.op = "delete" THEN 0 ELSE p.id])
      <4>1. (IF p.op = "delete" THEN 0 ELSE p.id) <= MaxActs + 1
        BY <1>0, <2>0, <3>1 DEF Fits
      <4> QED
        BY <1>0, <4>1 DEF ListBounds, Small, ListStates
    <3>2. Small(L!Written(p))
      BY <2>0, <3>1 DEF L!Written, ListBounds, Fits
    <3> QED
      BY <2>1, <3>2 DEF ListBounds
  <2>4. PICK n : /\ inquiries' = (inquiries \ {p}) \union {n}
                 /\ n.op = p.op /\ n.quiet = p.quiet /\ n.view = p.view /\ Fits(n)
    <3> DEFINE got == IF result # "refused" /\ p.op \in {"load", "order"} THEN theirs' ELSE L!Nothing
               state == IF result = "done" THEN "done" ELSE "refused"
               rec == [p EXCEPT !.state = state, !.got = got]
    <3>1. Small(got)
      BY <2>3, NothingIsSmall
    <3> HIDE DEF got, state
    <3>2. /\ rec.op = p.op /\ rec.quiet = p.quiet /\ rec.view = p.view /\ rec.got = got /\ rec.before = p.before
          /\ rec.carries = p.carries /\ rec.id = p.id
      BY <2>0 DEF Inquiries
    <3>3. inquiries' = (inquiries \ {p}) \union {rec}
      BY <2>1 DEF got, state
    <3> HIDE DEF rec
    <3>4. Fits(rec)
      BY <2>0, <3>1, <3>2 DEF Fits
    <3> QED
      BY <3>2, <3>3, <3>4
  <2>5. (\A r \in inquiries' : Fits(r)') /\ (reading' => \E r \in inquiries' : ReadsFor(r, view'))
    BY <2>2, <2>4, GoesOnFits
  <2>6. unsure' \subseteq L!Entries
    BY <1>0, <2>1 DEF OpsAreOfTheList, ListBounds
  <2> QED
    BY <2>2, <2>3, <2>5, <2>6 DEF ListBounds, Small
<1>7. ASSUME NEW p \in inquiries, L!ServeDepartments(p) \/ L!AnswerHalf(p) \/ L!ServeOrderAgain(p)
      PROVE  ListBounds'
  <2>0. p \in Inquiries /\ Fits(p) /\ Small(theirs)
    BY <1>0 DEF ListBounds
  <2>1. PICK n : /\ inquiries' = (inquiries \ {p}) \union {n}
                 /\ n.op = p.op /\ n.quiet = p.quiet /\ n.view = p.view /\ Fits(n)
    <3>1. ASSUME NEW x
          PROVE  LET n == [p EXCEPT !.state = x]
                 IN  n.op = p.op /\ n.quiet = p.quiet /\ n.view = p.view /\ Fits(n)
      BY <2>0 DEF Fits, Inquiries
    <3>2. LET n == [p EXCEPT !.state = "departments", !.half = 2]
          IN  n.op = p.op /\ n.quiet = p.quiet /\ n.view = p.view /\ Fits(n)
      BY <2>0 DEF Fits, Inquiries
    <3>3. ASSUME NEW got \in {theirs, p.before}
          PROVE  LET n == [p EXCEPT !.state = "read again", !.got = got]
                 IN  n.op = p.op /\ n.quiet = p.quiet /\ n.view = p.view /\ Fits(n)
      BY <2>0 DEF Fits, Inquiries
    <3>4. \/ \E x \in {"done", "refused"} : inquiries' = (inquiries \ {p}) \union {[p EXCEPT !.state = x]}
          \/ inquiries' = (inquiries \ {p}) \union {[p EXCEPT !.state = "departments", !.half = 2]}
          \/ \E got \in {theirs, p.before} :
                inquiries' = (inquiries \ {p}) \union {[p EXCEPT !.state = "read again", !.got = got]}
      BY <1>7 DEF L!ServeDepartments, L!AnswerHalf, L!ServeOrderAgain
    <3> QED
      BY <3>1, <3>2, <3>3, <3>4
  <2>2. /\ UNCHANGED <<view, reading, visible, theirs, taken, held, acts, loads>>
        /\ unsure' = unsure \/ (p.state = "departments" /\ unsure' = unsure \union {p.entry})
    BY <1>7 DEF L!ServeDepartments, L!AnswerHalf, L!ServeOrderAgain
  <2>3. (\A r \in inquiries' : Fits(r)') /\ (reading' => \E r \in inquiries' : ReadsFor(r, view'))
    BY <2>1, <2>2, GoesOnFits
  <2>4. unsure' \subseteq L!Entries
    BY <1>0, <2>2 DEF OpsAreOfTheList, ListBounds
  <2> QED
    BY <2>2, <2>3, <2>4 DEF ListBounds, Small
<1>8. ASSUME NEW p \in inquiries,
             L!AnswerLoad(p) \/ L!AnswerLoadFailed(p) \/ L!AnswerOrderAgain(p) \/ L!AnswerNobody(p)
      PROVE  ListBounds'
  <2>0. Fits(p)
    BY DEF ListBounds
  <2>1. /\ inquiries' = inquiries \ {p} /\ visible' \in {visible, p.got} /\ unsure' \in {unsure, {}}
        /\ UNCHANGED <<view, theirs, taken, held, acts, loads>>
    BY <1>8 DEF L!AnswerLoad, L!AnswerLoadFailed, L!AnswerOrderAgain, L!AnswerNobody
  <2>2. (reading' => reading) /\ (~reading' \/ ~ReadsFor(p, view))
    <3>1. CASE L!AnswerLoad(p) \/ L!AnswerLoadFailed(p)
      <4>1. reading' = (reading /\ p.quiet)
        BY <3>1 DEF L!AnswerLoad, L!AnswerLoadFailed
      <4> QED
        BY <4>1, Zenon DEF ReadsFor
    <3>2. CASE L!AnswerOrderAgain(p)
      <4>1. p.op = "order" /\ reading' = reading
        BY <1>0, <3>2 DEF L!AnswerOrderAgain, OpsAreOfTheList
      <4> QED
        BY <4>1 DEF ReadsFor
    <3>3. CASE L!AnswerNobody(p)
      <4>1. p.view # view /\ reading' = reading
        BY <3>3 DEF L!AnswerNobody
      <4> QED
        BY <4>1 DEF ReadsFor
    <3> QED
      BY <1>8, <3>1, <3>2, <3>3
  <2>3. (\A r \in inquiries' : Fits(r)') /\ (reading' => \E r \in inquiries' : ReadsFor(r, view'))
    BY <2>1, <2>2, IsOverFits
  <2> QED
    BY <2>0, <2>1, <2>3 DEF ListBounds, Small, Fits
<1>9. ASSUME NEW p \in inquiries, L!AnswerDone(p) \/ L!AnswerRefused(p)
      PROVE  ListBounds'
  <2>0. /\ p \in Inquiries /\ Fits(p) /\ p.op # "load" /\ p.entry \in L!Entries
        /\ UNCHANGED <<view, theirs, taken, acts>>
    BY <1>0, <1>9 DEF ListBounds, OpsAreOfTheList, L!AnswerDone, L!AnswerRefused
  <2>1. Small(visible')
    <3>1. \A v \in {0, p.id} : Small([visible EXCEPT ![p.entry] = v])
      BY <1>0, <2>0 DEF ListBounds, Small, ListStates, Fits
    <3>2. visible' \in {visible, p.got, p.before} \union {[visible EXCEPT ![p.entry] = v] : v \in {0, p.id}}
      BY <1>9 DEF L!AnswerDone, L!AnswerRefused, L!Done, L!Restored
    <3> QED
      BY <2>0, <3>1, <3>2 DEF ListBounds, Fits
  <2>2. held' \in L!Entries \union {None} /\ unsure' \subseteq L!Entries
    BY <1>9, <2>0 DEF L!AnswerDone, L!AnswerRefused, L!Released, ListBounds
  <2>3. CASE UNCHANGED <<loads, reading>> /\ inquiries' = inquiries \ {p}
    <3>1. (\A r \in inquiries' : Fits(r)') /\ (reading' => \E r \in inquiries' : ReadsFor(r, view'))
      BY <2>0, <2>3, IsOverFits DEF ReadsFor
    <3> QED
      BY <2>0, <2>1, <2>2, <2>3, <3>1 DEF ListBounds, Small
  <2>4. CASE \E quiet \in BOOLEAN : L!Read(inquiries \ {p}, quiet)
    <3>1. PICK quiet \in BOOLEAN : L!Read(inquiries \ {p}, quiet)
      BY <2>4
    <3>2. inquiries \ {p} \in SUBSET inquiries /\ \A q \in inquiries \ (inquiries \ {p}) : q.op # "load"
      BY <2>0
    <3>3. /\ loads' \in 0..MaxLoads /\ \A r \in inquiries' : Fits(r)
          /\ reading' => \E r \in inquiries' : ReadsFor(r, view)
      BY <1>0, <3>1, <3>2, ReadsFit
    <3> QED
      BY <1>A, <2>0, <2>1, <2>2, <3>3 DEF ListBounds, Small
  <2>5. CASE UNCHANGED <<loads, reading>> /\ inquiries' = (inquiries \ {p}) \union {[p EXCEPT !.state = "again"]}
    <3>1. LET n == [p EXCEPT !.state = "again"]
          IN  n.op = p.op /\ n.quiet = p.quiet /\ n.view = p.view /\ Fits(n)
      BY <2>0 DEF Fits, Inquiries
    <3>2. (\A r \in inquiries' : Fits(r)') /\ (reading' => \E r \in inquiries' : ReadsFor(r, view'))
      BY <2>0, <2>5, <3>1, GoesOnFits
    <3> QED
      BY <2>0, <2>1, <2>2, <2>5, <3>2 DEF ListBounds, Small
  <2> QED
    BY <1>9, <2>3, <2>4, <2>5 DEF L!AnswerDone, L!AnswerRefused
<1> QED
  BY <1>1, <1>2, <1>3, <1>4, <1>5, <1>6, <1>7, <1>8, <1>9 DEF L!Next

LEMMA ListTyped ==
    ASSUME ListInv, ListBounds
    PROVE  L!TypeOK
<1>1. /\ visible \in [L!Entries -> Nat] /\ theirs \in [L!Entries -> Nat] /\ MaxActs \in Nat /\ list \in L!Lists
  BY BoundsAssumption DEF ListInv, ListTypes, ListStates
<1>2. visible \in [L!Entries -> 0..(MaxActs + 1)] /\ theirs \in [L!Entries -> 0..(MaxActs + 1)]
  BY <1>1 DEF ListBounds, Small
<1>3. reading => \E p \in inquiries : p.op = "load"
  BY DEF ListBounds, ReadsFor
<1> QED
  BY <1>1, <1>2, <1>3 DEF L!TypeOK, ListBounds

LEMMA TableTyped ==
    ASSUME TableInv
    PROVE  T!TypeOK
<1> DEFINE n == Cardinality(T!Matching(lines, filter))
           m == Cardinality(Lines)
<1>1. n \in Nat /\ m \in Nat \ {0} /\ n <= m /\ pageSize \in Nat \ {0}
  BY MatchingLines, RegistryAssumption DEF TableInv, TableTypes
<1>2. currentPage \in Nat \ {0} /\ currentPage <= T!TotalPages(n, pageSize)
  BY DEF TableInv, TableTypes, PageIsThere
<1> HIDE DEF n
<1>3. T!TotalPages(n, pageSize) \in Nat \ {0} /\ T!TotalPages(n, pageSize) <= m
  <2>1. CASE n = 0
    BY <1>1, <2>1 DEF T!TotalPages
  <2>2. CASE n > 0
    <3>1. T!TotalPages(n, pageSize) \in Nat \ {0} /\ T!TotalPages(n, pageSize) <= n
      BY <1>1, <2>2, Pages
    <3> HIDE DEF m
    <3> QED
      BY <1>1, <3>1
  <2> QED
    BY <1>1, <2>1, <2>2
<1> HIDE DEF m
<1>4. currentPage \in 1..m
  BY <1>1, <1>2, <1>3
<1>5. currentPage \in 1..T!Cardinality(Lines)
  BY <1>4, TableCounts DEF m
<1> QED
  BY <1>5 DEF T!TypeOK, TableInv, TableTypes, Listings

LEMMA ReportTyped ==
    ASSUME ReportInv
    PROVE  F!TypeOK
BY DEF ReportInv, F!TypeOK, Licenses, Kept

(* Of the areas' types, what is kept from step to step.                     *)
AreasAreTyped ==
    /\ area \in Areas
    /\ area = "readers" => ReaderInv /\ ReaderBounds
    /\ area = "settings" => SettingInv /\ S!TypeOK
    /\ area = "dialogs" => D!TypeOK
    /\ area = "routes" => RouteInv /\ R!TypeOK
    /\ area = "import" => FewUploads /\ I!TypeOK
    /\ area = "cache" => CacheInv /\ CacheBounds
    /\ area = "lists" => ListInv /\ ListBounds
    /\ area = "registry" => TableInv
    /\ area = "reports" => ReportInv

LEMMA TypesStart == MCInit => AreasAreTyped
<1> SUFFICES ASSUME MCInit
             PROVE  AreasAreTyped
  OBVIOUS
<1>1. /\ area \in Areas /\ Init /\ S!Init /\ D!Init /\ R!Init /\ I!Init /\ C!Init /\ L!Init /\ T!Init /\ F!Init
  BY DEF MCInit
<1>2. S!TypeOK
  BY <1>1, SettingsAssumption, BoundsAssumption DEF S!Init, S!TypeOK, S!Places
<1>3. D!TypeOK
  BY <1>1, BoundsAssumption DEF D!Init, D!TypeOK
<1>4. R!TypeOK
  <2>1. RouteInv /\ expected = R!Nothing /\ ~dirty /\ loaded = {}
    BY <1>1, RouteStart DEF R!Init, R!Fresh
  <2> QED
    BY <2>1 DEF R!TypeOK, RouteInv, RouteTypes
<1>5. FewUploads /\ I!TypeOK
  <2>1. Cardinality({}) = 0 /\ IsFiniteSet({}) /\ I!Cardinality({}) = 0
    BY FS_EmptySet DEF I!Cardinality, Cardinality
  <2> QED
    BY <1>1, <2>1, BoundsAssumption DEF I!Init, I!TypeOK, FewUploads, I!NoPreview, I!Ways
<1> QED
  BY <1>1, <1>2, <1>3, <1>4, <1>5, ReaderStart, ReaderBoundsStart, SettingStart, RouteStart, CacheStart,
     CacheBoundsStart, ListStart, ListBoundsStart, TableStart, ReportStart DEF AreasAreTyped

(* A step of an area keeps its types.                                       *)
LEMMA TypesStep ==
    ASSUME SubmitInv, SubmitInv', AreasAreTyped, MCNext
    PROVE  AreasAreTyped'
<1>0. area' = area
  BY DEF MCNext
<1>1. CASE area = "readers"
  <2>1. Next /\ ReaderInv /\ ReaderBounds
    BY <1>1 DEF MCNext, AreasAreTyped
  <2>2. ReaderInv' /\ ReaderBounds'
    BY <2>1, ReaderKept, ReaderBounded DEF ReaderInv
  <2> QED
    BY <1>0, <1>1, <2>2 DEF AreasAreTyped
<1>2. CASE area = "settings"
  <2>1. S!Next /\ SettingInv /\ S!TypeOK
    BY <1>2 DEF MCNext, AreasAreTyped
  <2>2. SettingInv' /\ S!TypeOK'
    BY <2>1, SettingKept, SettingsTyped
  <2> QED
    BY <1>0, <1>2, <2>2 DEF AreasAreTyped
<1>3. CASE area = "dialogs"
  <2>1. D!Next /\ DialogInv /\ DialogInv' /\ D!TypeOK
    BY <1>0, <1>3 DEF MCNext, AreasAreTyped, SubmitInv
  <2>2. D!TypeOK'
    BY <2>1, DialogsTyped
  <2> QED
    BY <1>0, <1>3, <2>2 DEF AreasAreTyped
<1>4. CASE area = "routes"
  <2>1. R!Next /\ RouteInv /\ R!TypeOK
    BY <1>4 DEF MCNext, AreasAreTyped
  <2>2. RouteInv' /\ R!TypeOK'
    BY <2>1, RouteKept, RoutesTyped
  <2> QED
    BY <1>0, <1>4, <2>2 DEF AreasAreTyped
<1>5. CASE area = "import"
  <2>1. I!Next /\ ImportInv /\ ImportInv' /\ I!TypeOK /\ FewUploads
    BY <1>0, <1>5 DEF MCNext, AreasAreTyped, SubmitInv
  <2>2. FewUploads'
    BY <2>1, UploadsAreFew DEF ImportInv
  <2>3. I!TypeOK'
    BY <2>1, <2>2, ImportTyped
  <2> QED
    BY <1>0, <1>5, <2>2, <2>3 DEF AreasAreTyped
<1>6. CASE area = "cache"
  <2>1. C!Next /\ CacheInv /\ CacheBounds
    BY <1>6 DEF MCNext, AreasAreTyped
  <2>2. CacheInv' /\ CacheBounds'
    BY <2>1, CacheKept, CacheBounded
  <2> QED
    BY <1>0, <1>6, <2>2 DEF AreasAreTyped
<1>7. CASE area = "lists"
  <2>1. L!Next /\ ListInv /\ ListBounds
    BY <1>7 DEF MCNext, AreasAreTyped
  <2>2. ListInv' /\ ListBounds'
    BY <2>1, ListKept, ListBounded
  <2> QED
    BY <1>0, <1>7, <2>2 DEF AreasAreTyped
<1>8. CASE area = "registry"
  <2>1. TableInv'
    BY <1>8, TableKept DEF AreasAreTyped
  <2> QED
    BY <1>0, <1>8, <2>1 DEF AreasAreTyped
<1>9. CASE area = "reports"
  <2>1. ReportInv'
    BY <1>9, ReportKept DEF AreasAreTyped
  <2> QED
    BY <1>0, <1>9, <2>1 DEF AreasAreTyped
<1> QED
  BY <1>1, <1>2, <1>3, <1>4, <1>5, <1>6, <1>7, <1>8, <1>9 DEF AreasAreTyped, Areas

LEMMA TypesStay ==
    ASSUME AreasAreTyped,
           UNCHANGED <<area, rvars, settings, dialogs, routes, imported, cached, listed, tabled, reported>>
    PROVE  AreasAreTyped'
<1>0. area' = area
  OBVIOUS
<1>1. area = "readers" => ReaderInv' /\ ReaderBounds'
  <2>1. ReaderInv /\ ReaderBounds => ReaderInv' /\ ReaderBounds'
    <3>1. ReaderBounds => ReaderBounds'
      BY DEF rvars, ReaderBounds, ShownWasHad, VersionsAreHad
    <3> QED
      BY <3>1, ReaderKept
  <2> QED
    BY <2>1 DEF AreasAreTyped
<1>2. area = "settings" => SettingInv' /\ S!TypeOK'
  BY SettingKept DEF AreasAreTyped, settings, S!TypeOK
<1>3. area = "dialogs" => D!TypeOK'
  BY DEF AreasAreTyped, dialogs, D!TypeOK
<1>4. area = "routes" => RouteInv' /\ R!TypeOK'
  BY RouteKept DEF AreasAreTyped, routes, R!TypeOK
<1>5. area = "import" => FewUploads' /\ I!TypeOK'
  BY DEF AreasAreTyped, imported, FewUploads, I!TypeOK
<1>6. area = "cache" => CacheInv' /\ CacheBounds'
  BY CacheKept DEF AreasAreTyped, cached, CacheBounds, ChangesAreCounted, Unhandled, Shows, C!known
<1>7. area = "lists" => ListInv' /\ ListBounds'
  BY ListKept DEF AreasAreTyped, listed, ListBounds, Small, Fits, ReadsFor
<1>8. area = "registry" => TableInv'
  BY TableKept DEF AreasAreTyped
<1>9. area = "reports" => ReportInv'
  BY ReportKept DEF AreasAreTyped
<1> QED
  BY <1>0, <1>1, <1>2, <1>3, <1>4, <1>5, <1>6, <1>7, <1>8, <1>9 DEF AreasAreTyped

(* MCTypeOK: whatever area is in use holds values of its types, within its  *)
(* bounds: a list being read has a read under way, a version kept was made  *)
(* by the server or typed, a dialog that saves has its request under way    *)
(* and one not open holds no input, and unsaved settings are on their page. *)
THEOREM ClientIsTyped == MCSpec => []MCTypeOK
<1> DEFINE Inv == SubmitInv /\ AreasAreTyped
<1>1. MCInit => Inv
  BY SubmitStart, TypesStart
<1>2. Inv /\ [MCNext]_<<area, rvars, settings, dialogs, routes, imported, cached, listed, tabled, reported>>
        => Inv'
  <2> SUFFICES ASSUME Inv,
                      [MCNext]_<<area, rvars, settings, dialogs, routes, imported, cached, listed, tabled,
                                 reported>>
               PROVE  Inv'
    OBVIOUS
  <2>1. SubmitInv'
    BY SubmitKept
  <2>2. AreasAreTyped'
    BY <2>1, TypesStep, TypesStay
  <2> QED
    BY <2>1, <2>2
<1>3. Inv => MCTypeOK
  <2> SUFFICES ASSUME AreasAreTyped
               PROVE  MCTypeOK
    OBVIOUS
  <2>1. /\ area = "readers" => TypeOK
        /\ area = "cache" => C!TypeOK
        /\ area = "lists" => L!TypeOK
        /\ area = "registry" => T!TypeOK
        /\ area = "reports" => F!TypeOK
    BY ReaderTyped, CacheTyped, ListTyped, TableTyped, ReportTyped DEF AreasAreTyped
  <2> QED
    BY <2>1 DEF MCTypeOK, AreasAreTyped, Areas
<1> QED
  BY <1>1, <1>2, <1>3, PTL DEF MCSpec

=============================================================================
