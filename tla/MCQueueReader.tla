---------------------------- MODULE MCQueueReader ----------------------------
(* Instances of QueueReader for TLC.                                        *)
EXTENDS QueueReader, TLC

CONSTANTS a, b, c, d, e

FiveRecords == {a, b, c, d, e}
RecordSymmetry == Permutations(FiveRecords)
=============================================================================
