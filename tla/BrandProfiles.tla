--------------------------- MODULE BrandProfiles ---------------------------
(***************************************************************************)
(* brand_instagram_profile.py and brand_wikidata_lookup.py: the name and   *)
(* the website of brands known by their Instagram account, from the link   *)
(* on the profile, a web search and Wikidata, in whatever order the steps  *)
(* run and with brands that turn out to be the same.                       *)
(***************************************************************************)
EXTENDS Integers, FiniteSets

CONSTANTS
    ReBrands,        \* brands_raw rows with an Instagram handle the steps select
    BrandNames,      \* name_normalized, unique in the table
    SiteDomains,
    ServiceDomains,  \* shorteners and link-in-bio pages, known by their domain
    CustomDomains,   \* those under domains of their own, known by the page's fingerprint
    PlatformDomains, \* social networks, shops, free hosting: never a search result
    Bios,            \* external links of a profile
    SearchResults,   \* sets of domains a search finds
    TopCandidates    \* domains shown to the LLM

ASSUME BrandProfilesAssumption ==
    /\ ServiceDomains \cup PlatformDomains \cup CustomDomains \subseteq SiteDomains
    /\ CustomDomains \cap ServiceDomains = {} /\ TopCandidates \in Nat \ {0}
    /\ "none" \notin SiteDomains \cup BrandNames
    /\ Bios \subseteq [url : SiteDomains, landed : SiteDomains, read : BOOLEAN, own : BOOLEAN,
                        links : SUBSET SiteDomains]
    /\ SearchResults \subseteq
         SUBSET [domain : SiteDomains, named : BOOLEAN, hits : 1 .. 6, root : BOOLEAN, tld : 0 .. 2]

VARIABLES
    brandRow,        \* name, website, has_official_website
    profileChecked,  \* instagram_profile_checked
    wikidataChecked, \* instagram_wikidata_checked
    resolvedSite,    \* history: the website the last profile lookup resolved ...
    ownSite          \* history: ... and whether it was the profile's own domain

profilesVars == <<brandRow, profileChecked, wikidataChecked, resolvedSite, ownSite>>

BareRow == [name |-> "none", site |-> "none", official |-> "unset"]

ProfilesTypeOK ==
    /\ brandRow \in [ReBrands -> [name : BrandNames \cup {"none"}, site : SiteDomains \cup {"none"},
                                  official : {"unset", "yes", "no"}]]
    /\ profileChecked \subseteq ReBrands /\ wikidataChecked \subseteq ReBrands
    /\ resolvedSite \in [ReBrands -> SiteDomains \cup {"none"}] /\ ownSite \subseteq ReBrands

NameTaken(n, b) == n # "none" /\ \E c \in ReBrands \ {b} : brandRow[c].name = n

\* Bare rows of the partnership check, and one that was seeded with name and website.
BrandProfilesInit ==
    /\ brandRow \in [ReBrands -> {BareRow} \cup [name : BrandNames, site : SiteDomains \ ServiceDomains,
                                                 official : {"yes"}]]
    /\ \A b, c \in ReBrands : brandRow[b].name = brandRow[c].name => b = c \/ brandRow[b] = BareRow
    /\ profileChecked = {} /\ wikidataChecked = {}
    /\ resolvedSite = [b \in ReBrands |-> "none"] /\ ownSite = {}

-----------------------------------------------------------------------------
\* Mutant: the URL itself is put to the LLM.
BioUrl(bio) == (bio.links \ ServiceDomains) \cup {bio.url}

\* is_link_page of where the URL lands: the fingerprint needs the page.
LandsOnLinks(bio) == bio.landed \in ServiceDomains \/ (bio.read /\ bio.landed \in CustomDomains)

\* _resolve_from_profile: a link page's URL stands for where it lands, a page of links for
\* those on it that are not of a service's domain; whatever remains is put to the LLM,
\* which may take none of it.
BioSites(bio) ==
    LET standsIn == ~bio.own /\ (bio.url \in ServiceDomains \/ LandsOnLinks(bio))
    IN (bio.links \ ServiceDomains)
       \cup (IF ~standsIn THEN {bio.url} ELSE IF bio.read /\ ~LandsOnLinks(bio) THEN {bio.landed} ELSE {})

\* _rank_domain_candidates, of the domains that are not a service's, a platform's or a host's.
DomainScore(r) ==
    (IF r.named THEN 3 ELSE 0) + (IF r.hits > 5 THEN 5 ELSE r.hits) + (IF r.root THEN 2 ELSE 0) + r.tld

SearchSites(results) ==
    LET sites == {r \in results : r.domain \notin ServiceDomains \cup PlatformDomains}
    IN {r.domain : r \in {s \in sites :
          Cardinality({t \in sites : DomainScore(t) > DomainScore(s)}) < TopCandidates}}

\* _apply_website: no website leaves one that is there; one of the saved domain is kept.
WithSite(row, site) ==
    IF site = "none" THEN IF row.site = "none" THEN [row EXCEPT !.official = "no"] ELSE row
    ELSE [row EXCEPT !.site = site, !.official = "yes"]

\* Mutant: the rollback takes the website with it.
RolledBack(b, name, site) ==
    IF brandRow[b].name # "none" THEN WithSite(brandRow[b], site)
    ELSE IF NameTaken(name, b) THEN brandRow[b]
    ELSE [WithSite(brandRow[b], site) EXCEPT !.name = name]

\* _apply_result: a bare row takes the name; if another brand has it, the transaction is
\* rolled back and the website applied again without the name.
Applied(b, name, site) ==
    IF brandRow[b].name = "none" /\ ~NameTaken(name, b)
      THEN [WithSite(brandRow[b], site) EXCEPT !.name = name]
      ELSE WithSite(brandRow[b], site)

\* enrich_brand_instagram_profile, one brand whose profile was scraped; a failed scrape,
\* and Apify's quota, leave it for the next run.
ProfileLookup(b) ==
    /\ b \notin profileChecked
    /\ \E bio \in Bios, results \in SearchResults, name \in BrandNames \cup {"none"} :
         \E site \in BioSites(bio) \cup SearchSites(results) \cup {"none"} :
           /\ site = "none" => name = "none"
           /\ brandRow' = [brandRow EXCEPT ![b] = Applied(b, name, site)]
           /\ resolvedSite' = [resolvedSite EXCEPT ![b] = IF site = "none" THEN @ ELSE site]
           /\ ownSite' = IF bio.own /\ site = bio.url THEN ownSite \cup {b} ELSE ownSite
    /\ profileChecked' = profileChecked \cup {b}
    /\ UNCHANGED wikidataChecked

\* _apply_match and _fill_blank_fields: a bare row takes every field Wikidata has, the
\* website too, unless the name is another brand's; a named row only a missing website.
\* (What Wikidata calls a website is taken to be one.)
Matched(b, name, site) ==
    IF brandRow[b].name # "none"
      THEN IF brandRow[b].site = "none" /\ site # "none" THEN WithSite(brandRow[b], site) ELSE brandRow[b]
    ELSE IF NameTaken(name, b) THEN brandRow[b]
    ELSE [name |-> name, site |-> site, official |-> IF site = "none" THEN "no" ELSE "yes"]

WikidataMatch(b, name, site) ==
    /\ b \notin wikidataChecked
    /\ brandRow' = [brandRow EXCEPT ![b] = Matched(b, name, site)]
    /\ resolvedSite' = [resolvedSite EXCEPT ![b] =
                         IF brandRow[b].name = "none" /\ ~NameTaken(name, b) THEN "none" ELSE @]
    /\ wikidataChecked' = wikidataChecked \cup {b}
    /\ UNCHANGED <<profileChecked, ownSite>>

\* No match, or an error that is not temporary, for the brands of a batch; after a
\* temporary error they stay unchecked.
WikidataNone(batch) ==
    /\ batch # {}
    /\ wikidataChecked' = wikidataChecked \cup batch
    /\ UNCHANGED <<brandRow, profileChecked, resolvedSite, ownSite>>

BrandProfilesNext ==
    \/ \E b \in ReBrands : ProfileLookup(b)
    \/ \E b \in ReBrands, name \in BrandNames, site \in (SiteDomains \ ServiceDomains) \cup {"none"} :
         WikidataMatch(b, name, site)
    \/ \E batch \in SUBSET (ReBrands \ wikidataChecked) : WikidataNone(batch)

-----------------------------------------------------------------------------
\* Whatever the order of the lookups and whichever names collide: a brand whose profile was
\* looked up is known to have a website or not; it keeps the one that lookup resolved until
\* Wikidata names the brand; and what is a shortener or link page by its domain is saved for
\* nobody but the service itself (brand_instagram_profile.py:383-424, 505-510, 626-708;
\* wikidata lookup 198-262).  One under a custom domain may be saved: from the links of a
\* page, from the search, or when the page could not be read.
WebsitesSettled ==
    \A b \in ReBrands :
      /\ brandRow[b].site # "none" <=> brandRow[b].official = "yes"
      /\ b \in profileChecked => brandRow[b].official # "unset"
      /\ resolvedSite[b] # "none" => brandRow[b].site = resolvedSite[b]
      /\ brandRow[b].site \in ServiceDomains => b \in ownSite
=============================================================================
