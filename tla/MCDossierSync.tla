---------------------------- MODULE MCDossierSync ----------------------------
(* Instances of DossierSync for TLC.                                        *)
EXTENDS DossierSync, TLC

CONSTANTS r1, r2, open, ready

AllRecords  == {r1, r2}
OneRecord   == {r1}
TwoStatuses == {open, ready}
OneStatus   == {open}

\* Record ids are interchangeable: nothing in the code orders them.
RecordSymmetry == Permutations(AllRecords)
=============================================================================
