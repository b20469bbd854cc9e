---------------------------- MODULE MCOwnBrands ----------------------------
(* Small instances of OwnBrands for TLC. *)
EXTENDS OwnBrands, TLC

CONSTANTS c1, c2,           \* creators
          x1, x2, x3,       \* lookups: x1 and x2 of c1, x3 of c2
          p1, p2, p3,       \* pitches: p1 and p2 of c1, p3 of c2
          h1                \* a handle

BrandLock == {Brand}
MCFeatures == {"own_brands"}
CapTwo == [f \in MCFeatures |-> 2]

MCOwner == [x \in Lookups \cup Claims |-> IF x \in {x3, p3} THEN c2 ELSE c1]
OneHandle == [r \in Lookups |-> h1]

\* A brand without a profile and one with everything, both with posts.
Bare == [handle |-> h1, posts |-> TRUE, profile |-> Empty, done |-> {}]
Complete == [Bare EXCEPT !.profile = Seeded]

NoBrands == {}
BareOnly == {Bare}
CompleteOnly == {Complete}
=============================================================================
