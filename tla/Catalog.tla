-------------------------------- MODULE Catalog --------------------------------
(***************************************************************************)
(* The Catalog Inbox: the operator searches the stores for a keyword, the   *)
(* companion's tabs report the result cards they show for it, and the       *)
(* operator adds a selection to the missions.  A tab acts on the search it  *)
(* was served last, and its report may arrive after another search, a       *)
(* Clear or a restart.                                                      *)
(* (lib/catalog.js, main.js:512-532, 1226-1242, 1337-1356, 2781-2789,       *)
(* 3345, 3418-3441, 3475-3481, extension/background.js:1278-1313,           *)
(* extension/content.js:247-289, 2868-2908, extension/catalog-search.js,    *)
(* src/renderer.js:2255-2369, 3252-3328)                                    *)
(*                                                                         *)
(* A query names the keyword; the local filters are the cards that pass.    *)
(***************************************************************************)
EXTENDS Naturals, FiniteSets

CONSTANTS Stores, Skus, Queries, SearchTabs,
  MaxSearches,   \* searches the operator starts
  MaxReports,    \* reports on their way
  MaxMissions    \* MAX_PRODUCTS

ASSUME CatalogAssumption ==
  MaxSearches \in Nat /\ MaxReports \in Nat \ {0} /\ MaxMissions \in Nat

VARIABLES
  search,    \* activeSearch
  inbox,     \* the listed items, each with the search its page was read for
  tab,       \* each tab: the results page it shows, the search it was served, its last report
  reports,   \* reports on their way
  dash,      \* the dashboard: the search and items rendered, the seen and the picked
  missions,  \* items added to the plan
  searches   \* searches started

catalogVars == <<search, inbox, tab, reports, dash, missions, searches>>

Items == [store : Stores, sku : Skus]
NoSearch == [id |-> 0]
NoReport == [id |-> 0]

\* A tab of a store, showing the results of some keyword, which has not asked yet.
StartTabs == [SearchTabs -> [store : Stores, query : Queries, cards : {{}},
                             served : {NoSearch}, sent : {NoReport}]]

CatalogInit ==
  /\ search = NoSearch /\ inbox = {} /\ reports = {} /\ missions = {} /\ searches = 0
  /\ tab \in StartTabs
  /\ dash = [search |-> 0, listed |-> {}, seen |-> {}, picked |-> {}]

Listed == {i.item : i \in inbox}

-----------------------------------------------------------------------------
(* The operator.                                                           *)

\* beginCatalogSearch: a new search replaces the inbox.
StartCatalogSearch(q, stores, pass) ==
  /\ searches < MaxSearches /\ searches' = searches + 1
  /\ search' = [id |-> searches', query |-> q, stores |-> stores, pass |-> pass, live |-> TRUE]
  /\ inbox' = {}
  /\ UNCHANGED <<tab, reports, dash, missions>>

ClearCatalog ==
  /\ search # NoSearch \/ inbox # {}
  /\ search' = NoSearch /\ inbox' = {}
  /\ UNCHANGED <<tab, reports, dash, missions, searches>>

\* renderCatalog: another search forgets the selection; what is listed for the first
\* time and is not a mission yet is picked.
RenderCatalog ==
  LET same == dash.search = search.id
      known == IF same THEN dash.seen \cap Listed ELSE {}
      picked == IF same THEN (dash.picked \cap Listed) \ missions ELSE {}
  IN /\ dash' = [search |-> search.id, listed |-> Listed, seen |-> known \cup Listed,
                 picked |-> picked \cup (Listed \ (known \cup missions))]
     /\ dash' # dash
     /\ UNCHANGED <<search, inbox, tab, reports, missions, searches>>

Tick(i) ==
  /\ i \in dash.listed \ missions
  /\ dash' = [dash EXCEPT !.picked = IF i \in @ THEN @ \ {i} ELSE @ \cup {i}]
  /\ UNCHANGED <<search, inbox, tab, reports, missions, searches>>

\* planCatalogMissionImport: what is no longer listed, and what is a mission already,
\* is left out.
AddSelectedCatalogMissions ==
  LET chosen == (dash.picked \cap Listed) \ missions
  IN /\ dash.picked # {}
     /\ \E added \in SUBSET chosen :
          /\ Cardinality(added) = IF Cardinality(missions) + Cardinality(chosen) <= MaxMissions
                                  THEN Cardinality(chosen) ELSE MaxMissions - Cardinality(missions)
          /\ missions' = missions \cup added
     /\ UNCHANGED <<search, inbox, tab, reports, dash, searches>>

\* A mission is removed from the plan again.
RemoveMission(i) ==
  /\ i \in missions /\ missions' = missions \ {i}
  /\ UNCHANGED <<search, inbox, tab, reports, dash, searches>>

SearchExpires ==
  /\ search # NoSearch /\ search.live
  /\ search' = [search EXCEPT !.live = FALSE]
  /\ UNCHANGED <<inbox, tab, reports, dash, missions, searches>>

\* catalog.json is written at every change, so that a restart finds it all, an expired
\* search excepted.
CatalogRestart ==
  /\ search' = IF search # NoSearch /\ ~search.live THEN NoSearch ELSE search
  /\ dash' = [search |-> 0, listed |-> {}, seen |-> {}, picked |-> {}]
  /\ reports' = {}
  /\ UNCHANGED <<inbox, tab, missions, searches>>

-----------------------------------------------------------------------------
(* The tabs.                                                               *)

\* The page shows other results, of another keyword perhaps.
Shows(t, q, cards) ==
  /\ cards \subseteq {i \in Items : i.store = tab[t].store}
  /\ tab' = [tab EXCEPT ![t].query = q, ![t].cards = cards]
  /\ UNCHANGED <<search, inbox, reports, dash, missions, searches>>

\* refreshConfig; an expired search is not served.
RefreshConfig(t) ==
  /\ tab' = [tab EXCEPT ![t].served = IF search # NoSearch /\ search.live THEN search ELSE NoSearch]
  /\ UNCHANGED <<search, inbox, reports, dash, missions, searches>>

ReportOf(t) == [id |-> tab[t].served.id, store |-> tab[t].store, query |-> tab[t].query, cards |-> tab[t].cards]

\* captureCatalogResults: the report is remembered before it is sent.
Capture(t) ==
  LET s == tab[t].served
  IN /\ s # NoSearch /\ tab[t].store \in s.stores /\ tab[t].query = s.query
     /\ ReportOf(t) # tab[t].sent
     /\ Cardinality(reports) < MaxReports
     /\ tab' = [tab EXCEPT ![t].sent = ReportOf(t)]
     /\ reports' = reports \cup {ReportOf(t)}
     /\ UNCHANGED <<search, inbox, dash, missions, searches>>

AcceptsAnySearch(r) ==
  search # NoSearch /\ search.live /\ r.store \in search.stores /\ r.query = search.query

AcceptsReport(r) == AcceptsAnySearch(r) /\ r.id = search.id

\* acceptCatalogResults: a store's report replaces what was listed of it.  A refused
\* report, like a lost one, is not sent again.
Report(r) ==
  /\ r \in reports /\ reports' = reports \ {r}
  /\ IF AcceptsReport(r)
     THEN inbox' = {i \in inbox : i.item.store # r.store /\ i.listedFor = search.id}
                   \cup {[item |-> i, readFor |-> r.id, listedFor |-> search.id] : i \in r.cards \cap search.pass}
     ELSE UNCHANGED inbox
  /\ UNCHANGED <<search, tab, dash, missions, searches>>

ReportLost(r) ==
  /\ r \in reports /\ reports' = reports \ {r}
  /\ UNCHANGED <<search, inbox, tab, dash, missions, searches>>

CatalogNext ==
  \/ \E q \in Queries, stores \in SUBSET Stores \ {{}}, pass \in {Items} \cup {Items \ {i} : i \in Items} :
       StartCatalogSearch(q, stores, pass)
  \/ ClearCatalog \/ RenderCatalog \/ AddSelectedCatalogMissions \/ SearchExpires \/ CatalogRestart
  \/ \E i \in Items : Tick(i) \/ RemoveMission(i)
  \/ \E t \in SearchTabs : RefreshConfig(t) \/ Capture(t) \/ \E q \in Queries, cards \in SUBSET Items : Shows(t, q, cards)
  \/ \E r \in reports : Report(r) \/ ReportLost(r)

CatalogSpec == CatalogInit /\ [][CatalogNext]_catalogVars

-----------------------------------------------------------------------------
(* Properties.                                                             *)

\* lib/catalog.js:86-88: results of an earlier search are never mistaken for matches of
\* the current one.  What is listed was read from a page that had been served the very
\* search that lists it, and passes its filters, however late a report arrives.
ListedForItsSearch ==
  \A i \in inbox : /\ i.readFor = i.listedFor
                   /\ search # NoSearch => i.listedFor = search.id /\ i.item \in search.pass
=============================================================================
