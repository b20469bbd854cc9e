------------------------------ MODULE GeoReach ------------------------------
(***************************************************************************)
(* geo_reach.py for one brand: a crawl of a few pages of its website, best *)
(* link first, with an LLM answer per page and a final one, and what is    *)
(* stored of it; the website may be a page of links, or be corrected later *)
(* by the profile lookup.                                                  *)
(***************************************************************************)
EXTENDS Integers, Sequences, FiniteSets

CONSTANTS
    GeoSites,    \* websites a brand may have; LinkSite is a shortener or page of links
    LinkSite,
    GeoPaths,    \* pages of a site; HomePath is its homepage, UsPath the US version of it
    HomePath, UsPath,
    LinksOnPage,   \* links on every page: sequence of paths with their keyword weight
    GeoMaxPages, \* _MAX_PAGES
    GeoAnswers   \* an LLM's normalised score and country codes, confident or not

ASSUME GeoReachAssumption ==
    /\ LinkSite \in GeoSites /\ GeoMaxPages \in Nat \ {0}
    /\ HomePath \in GeoPaths /\ UsPath \in GeoPaths \ {HomePath}
    /\ LinksOnPage \in Seq([path : GeoPaths, weight : Nat])
    /\ GeoAnswers \subseteq [score : {"null", "0", "40"}, codes : SUBSET {"GLOBAL", "US"}, sure : BOOLEAN]
    /\ \A a \in GeoAnswers : a.score = "0" \/ "GLOBAL" \in a.codes => a.codes = {"GLOBAL"}

VARIABLES
    geoSite,   \* website of the brand
    crawl,     \* the crawl at work
    geoRow,    \* geo_reach_score and geo_reach_country_codes
    evidencedBy \* history: the site and the pages behind the stored score

geoVars == <<geoSite, crawl, geoRow, evidencedBy>>

NoCrawl == [site |-> "none", linkPage |-> FALSE, us |-> FALSE, visited |-> {}, queue |-> {}, seq |-> 0,
            read |-> {}, codes |-> {}, score |-> "null", over |-> FALSE]
GeoPages == GeoSites \X GeoPaths
HomeOf(s) == <<s, HomePath>>
\* The queue's entries: a page with its weight and the order of discovery.
QueuedPages == [page : GeoPages, weight : Nat, nr : Nat]
AtHome(s) == {[page |-> HomeOf(s), weight |-> 0, nr |-> 0]}
GeoSets == SUBSET {"GLOBAL", "US"}

GeoTypeOK ==
    /\ geoSite \in GeoSites
    /\ crawl \in [site : GeoSites \cup {"none"}, linkPage : BOOLEAN, us : BOOLEAN, visited : SUBSET GeoPages,
                  queue : SUBSET QueuedPages, seq : Nat, read : SUBSET GeoPages,
                  codes : GeoSets, score : {"null", "0", "40"}, over : BOOLEAN]
    /\ geoRow \in [score : {"null", "0", "40"}, codes : GeoSets]
    /\ evidencedBy \in [site : GeoSites \cup {"none"}, read : SUBSET GeoPages]

GeoReachInit ==
    /\ geoSite \in GeoSites /\ crawl = NoCrawl
    /\ geoRow = [score |-> "null", codes |-> {}]
    /\ evidencedBy = [site |-> "none", read |-> {}]

\* enrich_geo_reach selects rows without a score and without country codes.
StartCrawl ==
    /\ crawl = NoCrawl
    /\ geoRow.score = "null" /\ geoRow.codes = {}
    /\ crawl' = [NoCrawl EXCEPT !.site = geoSite, !.queue = AtHome(geoSite)]
    /\ UNCHANGED <<geoSite, geoRow, evidencedBy>>

\* The best link, the one found first among equals.
Foremost(e) ==
    \A f \in crawl.queue : f.weight < e.weight \/ (f.weight = e.weight /\ e.nr <= f.nr)

Crawling == crawl.site # "none" /\ ~crawl.over /\ crawl.queue # {}
            /\ Cardinality(crawl.visited) < GeoMaxPages

\* A page whose key was visited meanwhile is taken off the queue and not fetched.
TakenOff(e) == [crawl EXCEPT !.queue = @ \ {e}]
Fetched(e) == [TakenOff(e) EXCEPT !.visited = @ \cup {e.page}]

\* The links of a page that are neither visited nor queued, numbered in the order they
\* are found; after a swap of the homepage for its US version, links to the homepage lead
\* there too.
WithLinks(c) ==
    LET PageOf(i) == <<c.site, IF c.us /\ LinksOnPage[i].path = HomePath THEN UsPath ELSE LinksOnPage[i].path>>
        new == {i \in DOMAIN LinksOnPage : /\ PageOf(i) \notin c.visited /\ \A e \in c.queue : e.page # PageOf(i)
                                          /\ \A j \in 1 .. i - 1 : PageOf(j) # PageOf(i)}
    IN [c EXCEPT !.queue = @ \cup {[page |-> PageOf(i), weight |-> LinksOnPage[i].weight, nr |-> c.seq + i] : i \in new},
                 !.seq = @ + Len(LinksOnPage)]

\* The LLM's answer for a page: codes replace the earlier ones unless it gave none; a
\* confident score ends the crawl.
Answered(c, page, a) ==
    [c EXCEPT !.read = @ \cup {page}, !.codes = IF a.codes = {} THEN @ ELSE a.codes,
              !.score = IF a.sure THEN a.score ELSE @, !.over = a.sure /\ a.score # "null"]

\* The homepage redirected to a foreign locale, and the site has a US version.
UsVersion(c) == [c EXCEPT !.us = TRUE, !.visited = @ \cup {<<c.site, UsPath>>}]

\* One page: not fetched, without text, or read.
CrawlPage ==
    /\ Crawling
    /\ \E e \in crawl.queue :
         LET page == e.page
         IN /\ Foremost(e)
            /\ ~(page = HomeOf(LinkSite) /\ ~crawl.linkPage)
            /\ \/ page \in crawl.visited /\ crawl' = TakenOff(e)
               \/ page \notin crawl.visited /\ crawl' = Fetched(e)
               \/ /\ page \notin crawl.visited
                  /\ \E home \in {Fetched(e)} \cup IF page = HomeOf(crawl.site) /\ ~crawl.us THEN {UsVersion(Fetched(e))} ELSE {} :
                       LET at == IF home.us /\ page[2] = HomePath THEN <<crawl.site, UsPath>> ELSE page
                       IN \/ crawl' = WithLinks(home)
                          \/ \E a \in GeoAnswers : crawl' = Answered(WithLinks(home), at, a)
    /\ UNCHANGED <<geoSite, geoRow, evidencedBy>>

AtLinkPage ==
    /\ Crawling /\ ~crawl.linkPage
    /\ \E e \in crawl.queue : Foremost(e) /\ e.page = HomeOf(LinkSite)

\* Mutant: the site behind it is put on the row and queued after the page of links.
SwapAndRead ==
    /\ AtLinkPage
    /\ \E real \in GeoSites \ {LinkSite} :
         crawl' = [crawl EXCEPT !.linkPage = TRUE, !.site = real, !.queue = @ \cup AtHome(real)]
    /\ UNCHANGED <<geoSite, geoRow, evidencedBy>>

\* The stored website is a page of links: the site behind it takes its place, on the row
\* too (committed with the result), or there is none, or the page of links cannot be
\* fetched: then nothing is read.
SwapLinkPage ==
    /\ AtLinkPage
    /\ \/ \E real \in GeoSites \ {LinkSite} :
            crawl' = [crawl EXCEPT !.linkPage = TRUE, !.site = real, !.queue = AtHome(real)]
       \/ crawl' = [crawl EXCEPT !.linkPage = TRUE, !.over = TRUE]
       \/ crawl' = [crawl EXCEPT !.visited = @ \cup {HomeOf(LinkSite)}, !.queue = {}]
    /\ UNCHANGED <<geoSite, geoRow, evidencedBy>>

\* Mutant: the codes of the LLM are kept with the score of a digital brand.
FinalAsAnswered(c, a, digital) ==
    [c EXCEPT !.score = IF a.score = "null" /\ digital THEN "0" ELSE a.score,
              !.codes = IF a.codes = {} THEN @ ELSE a.codes]

\* The final call, when pages were read and none settled it; without a score, a digital
\* brand is global.
FinalOf(c, a, digital) ==
    LET score == IF a.score = "null" /\ digital THEN "0" ELSE a.score
        codes == IF score = "0" THEN {"GLOBAL"} ELSE a.codes
    IN [c EXCEPT !.score = score, !.codes = IF codes = {} THEN @ ELSE codes]

StoreReach ==
    /\ crawl.site # "none" /\ ~Crawling
    /\ \E a \in GeoAnswers, digital \in BOOLEAN :
         LET c == IF crawl.score = "null" /\ crawl.read # {} THEN FinalOf(crawl, a, digital) ELSE crawl
         IN /\ geoRow' = [score |-> c.score, codes |-> c.codes]
            /\ evidencedBy' = [site |-> c.site, read |-> c.read]
    /\ geoSite' = crawl.site
    /\ crawl' = NoCrawl

\* LLMUnavailableError: nothing is stored for this brand, but for the website when a later
\* step commits the same session.
ReachUnavailable ==
    /\ crawl.read # {}
    /\ crawl' = NoCrawl
    /\ geoSite' \in {geoSite, crawl.site}
    /\ UNCHANGED <<geoRow, evidencedBy>>

\* _apply_website of the profile lookup; the stored reach stays.
CorrectWebsite ==
    /\ crawl = NoCrawl
    /\ geoSite' \in GeoSites \ {geoSite}
    /\ UNCHANGED <<crawl, geoRow, evidencedBy>>

GeoReachNext ==
    \/ StartCrawl \/ CrawlPage \/ SwapLinkPage \/ StoreReach \/ ReachUnavailable \/ CorrectWebsite

-----------------------------------------------------------------------------
\* A reach is only claimed from pages that were read, at most _MAX_PAGES, all of one site
\* and none of a page of links that was swapped for the brand's site; a brand scored as
\* global has no other country (geo_reach.py:608-738).
ReachFounded ==
    /\ geoRow.score # "null" \/ geoRow.codes # {} => evidencedBy.read # {}
    /\ \A p \in evidencedBy.read : p[1] = evidencedBy.site
    /\ Cardinality(evidencedBy.read) <= GeoMaxPages
    /\ geoRow.score = "0" => geoRow.codes = {"GLOBAL"}
=============================================================================
