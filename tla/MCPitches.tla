----------------------------- MODULE MCPitches -----------------------------
(* Small instances of Pitches for TLC. *)
EXTENDS Pitches, TLC

CONSTANTS a,                \* a creator
          s1, s2, s3, p1    \* streams and a plain request

PitchLock == {Pitch}
MCFeatures == {"pitches"}
CapTwo == [f \in MCFeatures |-> 2]
CapThree == [f \in MCFeatures |-> 3]

\* Everything is asked for by one creator.
OneOwner == [r \in Requests |-> a]
=============================================================================
