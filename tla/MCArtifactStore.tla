--------------------------- MODULE MCArtifactStore ---------------------------
(* Instances of ArtifactStore for TLC.                                     *)
EXTENDS ArtifactStore, TLC

CONSTANTS d1, d2, r1, r2, p1, p2

MCDirs == {d1, d2}
MCReservations == {r1, r2}
MCPublishers == {p1, p2}
OnePublisher == {p1}
OneReservation == {r1}

Symmetry == Permutations(MCDirs) \cup Permutations(MCReservations) \cup Permutations(MCPublishers)
=============================================================================
