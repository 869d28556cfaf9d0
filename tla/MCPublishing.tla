---------------------------- MODULE MCPublishing ----------------------------
(* Small instances of Publishing for TLC. *)
EXTENDS Publishing

CONSTANTS s1, i1, i2

OneStaff == {s1}
TwoInstances == {i1, i2}
AllKinds == {"broadcast", "article", "campaign"}
OnlyCampaigns == {"campaign"}

\* In fifths of a tick: a campaign of less than a day and one of more, whose ends
\* fall at different points of the hour.
SomeDates == {18, 121}
=============================================================================
