--------------------------- MODULE MCUploadPipeline ---------------------------
(***************************************************************************)
(* Small instances of UploadPipeline: an urgent event and a batched file   *)
(* event, and one that is no JSON, sent by two collectors or reports.      *)
(***************************************************************************)
EXTENDS UploadPipeline
CONSTANTS p1, p2, batchKind, urgentKind, badKind
=============================================================================
