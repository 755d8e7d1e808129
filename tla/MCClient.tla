------------------------------- MODULE MCClient -------------------------------
(***************************************************************************)
(* The browser client, one area of it at a time: its readers, settings,    *)
(* dialogs, addresses, the import of a file, its query cache, the lists    *)
(* kept by hand, the table of licenses, or the reports.  The areas share   *)
(* no state that these modules model; each has the whole run to itself.    *)
(***************************************************************************)
EXTENDS ClientReaders, Integers

CONSTANTS
    Usages, Values, Initial, Refused, MaxEdits, MaxCalls, MaxMounts,
    MaxOpens, MaxSubmits,
    MaxHistory, MaxEvents,
    Files, MaxRequests, MaxAstray, MaxMappings,
    Rows, MaxDeeds, MaxFetches,
    Items, Order, MaxActs, MaxLoads,
    Lines, Keys, Gone, PageSizes, VirtualThreshold, MaxSteps,
    Amounts, Days, Today, NotificationDays, FiscalMonths, MaxCorrections

(* The bounds are numbers.                                                  *)
ASSUME BoundsAssumption ==
    {MaxReads, MaxSelects, MaxChanges, MaxEdits, MaxCalls, MaxMounts, MaxOpens, MaxSubmits,
     MaxRequests, MaxAstray, MaxMappings, MaxDeeds, MaxFetches, MaxActs, MaxLoads} \subseteq Nat

VARIABLES
    area,
    used, draft, stored, fallback, place, mount, marks, saving, asked, calls, edits, sent,
    were, carried,
    manners, open, typed, fresh, busy, warning, known, opens, submits, posts, created, lost,
    viewer, page, license, hist, at, remembered, started, expected, pending, loaded, timers,
    dirty, asking, dialog, adding, posting, made, creating, events, overtaken,
    step, source, file, waiting, analyzed, mapping, updating, preview, skipped, decided,
    sends, mappings, uploads, astray, imports,
    treatments, idles, mounted, server, data, stale, fetch, doing, deeds, fetches, own, raced,
    list, shows, view, reading, visible, theirs, taken, confirming, held, inquiries, acts, loads, read,
    crossed, unsure,
    lines, filter, sort, groupBy, expanded, currentPage, pageSize, ticked, confirms, patches, steps, moved,
    edited,
    licenses, filters, corrections

settings == <<used, draft, stored, fallback, place, mount, marks, saving, asked, calls, edits, sent,
              were, carried>>
dialogs == <<manners, open, typed, fresh, busy, warning, known, opens, submits, posts, created, lost>>
routes == <<viewer, page, license, hist, at, remembered, started, expected, pending, loaded, timers,
            dirty, asking, dialog, adding, posting, made, creating, events, overtaken>>
imported == <<step, source, file, waiting, analyzed, mapping, updating, preview, skipped, decided,
              sends, mappings, uploads, astray, imports>>
cached == <<treatments, idles, mounted, server, data, stale, fetch, doing, deeds, fetches, own, raced>>
listed == <<list, shows, view, reading, visible, theirs, taken, confirming, held, inquiries, acts, loads,
            read, crossed, unsure>>
tabled == <<lines, filter, sort, groupBy, expanded, currentPage, pageSize, ticked, confirms, patches,
            steps, moved, edited>>
reported == <<licenses, filters, corrections>>

S == INSTANCE ClientSettings
D == INSTANCE ClientDialogs WITH
         rule <- manners, saving <- busy, asking <- warning, stored <- known, requests <- posts
R == INSTANCE ClientRoutes WITH selected <- license
I == INSTANCE ClientImport WITH loading <- waiting, requests <- uploads
C == INSTANCE ClientCache WITH pending <- doing, mine <- own
L == INSTANCE ClientLists WITH
         shown <- visible, server <- theirs, used <- taken, asked <- confirming, busy <- held,
         calls <- inquiries, sends <- acts, MaxCalls <- MaxActs
T == INSTANCE ClientRegistry WITH requests <- patches

(* Two licenses that share a support record; support left linked to a       *)
(* license beside a renewable service; two purchases of one PO number       *)
(* beside a free license with paid support.                                 *)
License ==
    [type |-> "perpetual", price |-> 10, cur |-> "EUR", po |-> None, order |-> None,
     override |-> None, coverage |-> "separately_tracked", cost |-> None, start |-> None,
     end |-> None, from |-> None, to |-> None, parents |-> {}, linked |-> {}, active |-> FALSE,
     retired |-> FALSE, renewable |-> FALSE]
Support == [License EXCEPT !.type = "maintenance", !.coverage = "not_applicable", !.start = 13, !.end = 26]
Supported == [License EXCEPT !.linked = {3}, !.active = TRUE]
Purchased == [License EXCEPT !.type = "subscription", !.coverage = "unknown", !.po = "A",
                             !.start = 2, !.end = 14]
Portfolios ==
    {<<Supported, [Supported EXCEPT !.po = "A"], [Support EXCEPT !.parents = {1, 2}, !.po = "A"]>>,
     <<[License EXCEPT !.linked = {2}], [Support EXCEPT !.parents = {1}, !.start = 20],
       [License EXCEPT !.type = "service", !.coverage = "not_applicable", !.renewable = TRUE,
                       !.start = 14, !.end = 26]>>,
     <<[Purchased EXCEPT !.order = 1], Purchased,
       [License EXCEPT !.type = "freeware", !.price = None, !.coverage = "included", !.cost = 5,
                       !.from = 2, !.to = 26]>>}
F == INSTANCE ClientReports WITH lines <- licenses, edits <- corrections, MaxEdits <- MaxCorrections

Areas == {"readers", "settings", "dialogs", "routes", "import", "cache", "lists", "registry", "reports"}

(* No file is the one that stands for none.                                 *)
ASSUME FilesAssumption == I!NoOne \notin Files

(* A user edits sections there are, whose fields start with a value.        *)
ASSUME SettingsAssumption == Usages \subseteq SUBSET S!Sections /\ Initial \in Values

(* What stands for the order of a list is none of its items.                *)
ASSUME ListsAssumption == Order \notin Items

(* Lines are numbered, a blank and the names that are written are values of *)
(* a column, and pages have lines.                                          *)
ASSUME RegistryAssumption ==
    /\ Lines \subseteq Nat /\ IsFiniteSet(Lines) /\ Lines # {}
    /\ {0, 1, 2} \subseteq Keys /\ Keys \subseteq Nat
    /\ PageSizes \subseteq Nat \ {0} /\ PageSizes # {}
    /\ Gone \notin Lines /\ Gone \notin T!Contents /\ MaxSteps \in Nat

(* An empty field holds no amount and no day; a fiscal year begins with a   *)
(* month.                                                                   *)
ASSUME ReportsAssumption ==
    /\ Amounts \subseteq Int /\ Days \subseteq Int /\ None \notin Int
    /\ Today \in Nat /\ NotificationDays \in Nat /\ FiscalMonths \subseteq 1..12 /\ MaxCorrections \in Nat

(* An area that is not used stays at one of its initial states.  Readers    *)
(* with the same rules behave the same: one of them is enough.              *)
MCInit ==
    /\ area \in Areas
    /\ Init /\ reader = CHOOSE k \in Kinds : Rule[k] = Rule[reader]
    /\ (area # "readers" => reader = CHOOSE k \in Kinds : Rule[k] = Documents)
    /\ S!Init /\ (area # "settings" => used = {"oidc", "appearance"})
    /\ D!Init /\ (area # "dialogs" => manners = D!MergeSourcingModal)
    /\ R!Init /\ (area # "routes" => ~viewer /\ remembered = R!Nowhere /\ hist[1].page = "root")
    /\ I!Init
    /\ C!Init /\ (area # "cache" => treatments = C!Treatments["customFieldDefs"])
    /\ L!Init /\ (area # "lists" => list = L!ExtensionsSection)
    /\ T!Init /\ (area # "registry" => filter = Keys /\ groupBy = <<>>)
    /\ F!Init /\ (area # "reports" => licenses[1] = Supported)

MCNext ==
    /\ area' = area
    /\ \/ area = "readers" /\ Next /\ UNCHANGED <<settings, dialogs, routes, imported, cached, listed, tabled, reported>>
       \/ area = "settings" /\ S!Next /\ UNCHANGED <<rvars, dialogs, routes, imported, cached, listed, tabled, reported>>
       \/ area = "dialogs" /\ D!Next /\ UNCHANGED <<rvars, settings, routes, imported, cached, listed, tabled, reported>>
       \/ area = "routes" /\ R!Next /\ UNCHANGED <<rvars, settings, dialogs, imported, cached, listed, tabled, reported>>
       \/ area = "import" /\ I!Next /\ UNCHANGED <<rvars, settings, dialogs, routes, cached, listed, tabled, reported>>
       \/ area = "cache" /\ C!Next /\ UNCHANGED <<rvars, settings, dialogs, routes, imported, listed, tabled, reported>>
       \/ area = "lists" /\ L!Next /\ UNCHANGED <<rvars, settings, dialogs, routes, imported, cached, tabled, reported>>
       \/ area = "registry" /\ T!Next
          /\ UNCHANGED <<rvars, settings, dialogs, routes, imported, cached, listed, reported>>
       \/ area = "reports" /\ F!Next
          /\ UNCHANGED <<rvars, settings, dialogs, routes, imported, cached, listed, tabled>>

MCSpec == MCInit /\ [][MCNext]_<<area, rvars, settings, dialogs, routes, imported, cached, listed, tabled,
                                  reported>>

(* The areas not in use never change, so states need not be told apart by   *)
(* them.                                                                    *)
View ==
    <<area, CASE area = "readers" -> rvars [] area = "settings" -> settings [] area = "dialogs" -> dialogs
              [] area = "routes" -> routes [] area = "import" -> imported [] area = "cache" -> cached
              [] area = "lists" -> listed [] area = "registry" -> tabled [] area = "reports" -> reported>>

-----------------------------------------------------------------------------
(* The properties of the areas.                                             *)

(* Types of the area in use.                                                *)
MCTypeOK ==
    CASE area = "readers" -> TypeOK [] area = "settings" -> S!TypeOK [] area = "dialogs" -> D!TypeOK
      [] area = "routes" -> R!TypeOK [] area = "import" -> I!TypeOK
      [] area = "cache" -> C!TypeOK [] area = "lists" -> L!TypeOK
      [] area = "registry" -> T!TypeOK [] area = "reports" -> F!TypeOK

(* What is shown is the record selected with what the user changed in it;  *)
(* what a user changed is read from the cache; a list kept by hand is the   *)
(* one the server has; unsaved settings are marked, and what leaving them   *)
(* returns to was on the server: as ClientReaders, ClientCache, ClientLists *)
(* and ClientSettings state.                                                *)
ShownIsCurrent ==
    CASE area = "readers" -> ShowsTheSelected /\ OwnChangesAreShown
      [] area = "cache" -> C!OwnChangesAreCached
      [] area = "lists" -> L!ListsFollowTheServer
      [] area = "settings" -> S!UnsavedEditsAreMarked /\ S!FallBackWasStored
      [] OTHER -> TRUE

(* A dialog asks before it is closed over input and creates its record     *)
(* once; who waits imports what was previewed, once: as ClientDialogs and   *)
(* ClientImport state.                                                      *)
SubmittedOnce ==
    CASE area = "dialogs" -> D!ClosingAsks /\ D!CreatesOnce
      [] area = "import" -> I!PatientImports
      [] OTHER -> TRUE

(* The address is that of the page shown, as ClientRoutes states it.        *)
UrlInStep == area = "routes" => R!UrlInStep

(* Unsaved settings are left only after asking, by whatever way, as         *)
(* ClientRoutes states it.                                                  *)
SettingsLeftWhenAsked == [][R!AsksBeforeLeaving]_routes

(* The table shows the lines it says, the lines about to be deleted, and    *)
(* the line just edited, as ClientRegistry states it.                       *)
TableIsHonest ==
    area = "registry" => T!TickedLinesAreOnView /\ T!FooterTellsTheRange /\ T!EditedLineIsShown

(* The same licenses add up to the same figures wherever they are added,    *)
(* as ClientReports states it.                                              *)
FiguresAgree == area = "reports" => F!FiguresAgree

=============================================================================
