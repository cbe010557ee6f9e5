----------------------------- MODULE MCRunQueue -----------------------------
(***************************************************************************)
(* Instances of RunQueue for TLC.  "e1" stands for an extractor every      *)
(* environment has, "e2" for a proxied one, which is in the pipeline only  *)
(* when SOCKS5_PROXY is set.  The queue tells "failed" (the status of an   *)
(* extractor that is not registered) from other terminal statuses, and     *)
(* these not from each other, so that no instance needs more than two.     *)
(***************************************************************************)
EXTENDS RunQueue

MCPipelines == {<<"e1">>, <<"e1", "e2">>}
=============================================================================
