---------------------------- MODULE MCArchiveDir ----------------------------
(***************************************************************************)
(* Instances of ArchiveDir for TLC, with one extractor.                    *)
(***************************************************************************)
EXTENDS ArchiveDir, TLC

MCPipeline   == {<<"e1">>}
MCTitleOrder == <<"e1">>

\* Two requests differ in nothing but their names.
MCSymmetry == Permutations(Requests)

\* A snapshot that is disturbed stays so, and the properties do not speak of it.
SomeSnapshotUndisturbed == disturbed # 1..MaxSnapshots
=============================================================================
