------------------------------ MODULE LinkPages ------------------------------
(***************************************************************************)
(* helpers/link_pages.py: the brand's own site behind a shortener or a     *)
(* link-in-bio page, and its Instagram account by search.  A link is a     *)
(* record of what the code tests: its domain, whether the domain is one of *)
(* a platform or of a link service, whether the page is a link page under  *)
(* a custom domain, which only its HTML tells, and whether it carries the  *)
(* name.                                                                   *)
(***************************************************************************)
EXTENDS Integers, Sequences, FiniteSets, SequencesExt

CONSTANTS
    LinkDomains,    \* domains of links
    LinkLists       \* lists of links on a page or in search results

NoLinkFound == [domain |-> "none", kind |-> "none", named |-> FALSE]

\* kind: "own" (a site), "platform", "service" (a link page by its domain) or "custom" (one
\* by its fingerprint).
PageLinks == [domain : LinkDomains, kind : {"own", "platform", "service", "custom"}, named : BOOLEAN]

ASSUME LinkPagesAssumption == LinkLists \subseteq Seq(PageLinks)

VARIABLES
    linkPage,       \* the URL to resolve and what its redirect, page, rendering and search give
    resolved        \* the answer

linkPagesVars == <<linkPage, resolved>>

\* _is_candidate: by the domain alone.
Candidate(l) == l.kind \notin {"platform", "service"}

\* is_link_page, with the page's HTML or without.
IsLinkPage(l, html) == l.kind = "service" \/ (html /\ l.kind = "custom")

FirstWhere(links, Test(_)) ==
    IF \E i \in DOMAIN links : Test(links[i])
      THEN links[CHOOSE i \in DOMAIN links : Test(links[i]) /\ \A j \in 1 .. i - 1 : ~Test(links[j])]
      ELSE NoLinkFound

\* outbound_links: candidates off the page's own domain, the first of each domain.
OutboundLinks(links, page) ==
    LET kept == {i \in DOMAIN links : Candidate(links[i]) /\ links[i].domain # page.domain
                                      /\ \A j \in 1 .. i - 1 : links[j].domain = links[i].domain => ~Candidate(links[j])}
    IN [n \in 1 .. Cardinality(kept) |-> links[SetToSortSeq(kept, <)[n]]]

\* Mutant: the only link of a page is taken for the brand's.
PickOnlyLink(links) ==
    LET Fits(l) == Candidate(l) /\ (l.named \/ Len(links) = 1) IN FirstWhere(links, Fits)

\* pick_brand_link
PickBrandLink(links) == LET Fits(l) == Candidate(l) /\ l.named IN FirstWhere(links, Fits)

\* search_brand_site
SearchBrandSite(results) == LET Fits(r) == Candidate(r) /\ r.named IN FirstWhere(results, Fits)

\* resolve_link_page: the redirect, then the page's links, rendered when the plain page
\* has none, then the search.
ResolveLinkPage(p) ==
    LET plain == OutboundLinks(p.links, p.landed)
        links == IF plain = <<>> THEN OutboundLinks(p.rendered, p.landed) ELSE plain
        picked == PickBrandLink(links)
    IN IF p.landed.domain # p.url.domain /\ Candidate(p.landed) /\ ~IsLinkPage(p.landed, p.read) THEN p.landed
       ELSE IF picked # NoLinkFound THEN picked
       ELSE SearchBrandSite(p.results)

\* read: the page it lands on was answered with HTML.
LinkInputs == [url : {l \in PageLinks : IsLinkPage(l, TRUE)}, landed : PageLinks, read : BOOLEAN,
               links : LinkLists, rendered : LinkLists, results : LinkLists]

LinkPagesInit ==
    /\ linkPage \in LinkInputs
    /\ resolved = NoLinkFound

LinkPagesNext ==
    /\ resolved' = ResolveLinkPage(linkPage)
    /\ UNCHANGED linkPage

-----------------------------------------------------------------------------
\* The site given to a brand is on no platform's and no link service's domain.  It carries
\* the brand's name, never just "the only link", or it is where the URL itself leads; then,
\* if that page was read, it is no link page of a custom domain either
\* (link_pages.py:107-109, 198-207, 328-356).
ResolvedIsTheBrands ==
    resolved # NoLinkFound =>
        /\ resolved.kind \notin {"platform", "service"}
        /\ resolved.named \/ (resolved = linkPage.landed /\ (linkPage.read => resolved.kind # "custom"))
=============================================================================
