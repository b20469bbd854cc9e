---------------------------- MODULE ContactSearch ----------------------------
(***************************************************************************)
(* enrichment/apollo_contacts.py: whom a brand's contacts are, in which    *)
(* order, and who of them is paid for.  A person is an id; the LLM's picks *)
(* may leave people out, name them twice or name nobody that was found.    *)
(***************************************************************************)
EXTENDS Integers, Sequences, FiniteSets

CONSTANTS
    PersonIds,       \* ids, of people there are and of nobody
    ApolloFound,     \* what a search can give: sequences of people
    ApolloPicks,     \* what the LLM can answer: sequences of [id, confidence]
    EnrichMin,       \* _ENRICH_MIN_CONFIDENCE
    EnrichMax,       \* _MAX_HIGH_CONFIDENCE_ENRICHMENTS
    PhoneTop         \* _PHONE_TOP_N

ASSUME ContactSearchAssumption ==
    /\ EnrichMin \in 0 .. 100 /\ EnrichMax \in Nat /\ PhoneTop \in Nat
    /\ ApolloFound \subseteq Seq(PersonIds) /\ ApolloPicks \subseteq Seq([id : PersonIds, confidence : Int])

VARIABLES
    contactSearch,   \* the two searches, the picks, and which paid calls give a person
    contactRows      \* brand_contacts and the contact fields of brand_match_profile

contactSearchVars == <<contactSearch, contactRows>>

NoContacts == [rows |-> <<>>, mode |-> "unset"]

People(found) == {found[i] : i \in DOMAIN found}

\* The elements of a set, each in the place of how many of the others are `before' it.
ListedBy(S, before) ==
    [n \in 1 .. Cardinality(S) |-> CHOOSE i \in S : Cardinality({j \in S : <<j, i>> \in before}) = n]

\* The picks that name somebody found, the first of each.
UsablePicks(found, picks) ==
    {i \in DOMAIN picks : picks[i].id \in People(found) /\ \A j \in 1 .. i - 1 : picks[j].id # picks[i].id}

Clamped(c) == IF c < 0 THEN 0 ELSE IF c > 100 THEN 100 ELSE c

\* sort(key = confidence, reverse): stable.
BestFirst(picks, usable) ==
    {q \in usable \X usable : LET a == Clamped(picks[q[1]].confidence)
                                b == Clamped(picks[q[2]].confidence)
                            IN a > b \/ (a = b /\ q[1] <= q[2])}

\* The picks, best first.
Ranked(found, picks) ==
    LET usable == UsablePicks(found, picks)
        order == ListedBy(usable, BestFirst(picks, usable))
    IN [n \in DOMAIN order |-> [id |-> picks[order[n]].id, confidence |-> Clamped(picks[order[n]].confidence)]]

\* Whom the picks leave out, once if a search gave somebody twice, in the search's order.
LeftOut(found, picks) ==
    LET left == {i \in DOMAIN found : /\ \A j \in UsablePicks(found, picks) : picks[j].id # found[i]
                                      /\ \A j \in 1 .. i - 1 : found[j] # found[i]}
        order == ListedBy(left, {q \in left \X left : q[1] <= q[2]})
    IN [n \in DOMAIN order |-> [id |-> found[order[n]], confidence |-> 0]]

\* Mutant: whom the LLM leaves out is not stored.
RankPicked(found, picks) == Ranked(found, picks)

\* _rank_all_candidates: whom the LLM leaves out comes last.
RankAll(found, picks) == Ranked(found, picks) \o LeftOut(found, picks)

\* The paid call: for the first EnrichMax with enough confidence.
Paid(ranked, n) ==
    /\ ranked[n].confidence >= EnrichMin
    /\ Cardinality({j \in 1 .. n - 1 : ranked[j].confidence >= EnrichMin}) < EnrichMax

\* find_brand_contact: the marketing department, else the C-suite, else an empty marker.
FindBrandContact(s) ==
    LET fallback == s.marketing = <<>>
        found == IF fallback THEN s.csuite ELSE s.marketing
        ranked == RankAll(found, s.picks)
    IN IF found = <<>>
         THEN [rows |-> <<[id |-> "marker", confidence |-> 0, enriched |-> FALSE, phone |-> FALSE, paid |-> FALSE]>>,
               mode |-> "none"]
         ELSE [rows |-> [n \in DOMAIN ranked |->
                 [id |-> ranked[n].id, confidence |-> ranked[n].confidence, paid |-> Paid(ranked, n),
                  enriched |-> Paid(ranked, n) /\ ranked[n].id \in s.answered,
                  phone |-> Paid(ranked, n) /\ ranked[n].id \in s.answered /\ n <= PhoneTop]],
               mode |-> IF fallback THEN "outsourced_likely" ELSE "in_house"]

ContactInputs ==
    [marketing : ApolloFound, csuite : ApolloFound, picks : ApolloPicks,
     answered : {{}, UNION {People(f) : f \in ApolloFound}}]

ContactSearchInit ==
    /\ contactSearch \in ContactInputs
    /\ contactRows = NoContacts

ContactSearchNext ==
    /\ contactRows' = FindBrandContact(contactSearch)
    /\ UNCHANGED contactSearch

-----------------------------------------------------------------------------
\* Whatever the LLM answers, everybody a search found is stored, once and best first,
\* and the paid calls are the head of that list: at most EnrichMax, telephones for the
\* first PhoneTop (apollo_contacts.py:297-390, 509-613).
ContactsRanked ==
    LET rows == contactRows.rows
        found == IF contactSearch.marketing # <<>> THEN contactSearch.marketing ELSE contactSearch.csuite
    IN contactRows # NoContacts =>
        /\ rows # <<>>
        /\ contactRows.mode # "none" => {rows[n].id : n \in DOMAIN rows} = People(found)
        /\ Len(rows) = Cardinality({rows[n].id : n \in DOMAIN rows})
        /\ \A n \in 1 .. Len(rows) - 1 : /\ rows[n].confidence >= rows[n + 1].confidence
                                         /\ rows[n + 1].paid => rows[n].paid
        /\ Cardinality({n \in DOMAIN rows : rows[n].paid}) <= EnrichMax
        /\ \A n \in DOMAIN rows : rows[n].phone => n <= PhoneTop /\ rows[n].paid
=============================================================================
