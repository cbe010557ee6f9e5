------------------------------- MODULE MCDetail -------------------------------
(***************************************************************************)
(* An instance of Detail for TLC.  The environment of a restarted process  *)
(* may register another extractor; e2's file is the better source of a     *)
(* title.                                                                  *)
(***************************************************************************)
EXTENDS Detail

MCPipelines  == {<<"e1">>, <<"e2">>}
MCTitleOrder == <<"e2", "e1">>

\* Its only snapshot is not deleted: the page of one that is says nothing.
SnapshotNotDeleted == lastSnapshot = 0 \/ snapshots # {}
=============================================================================
