----------------------------- MODULE MCPipeline -----------------------------
(* Small instances of Pipeline.                                              *)
EXTENDS Pipeline

(* A remote sink first, so that its failure could block the local one.       *)
MCSinkList == <<"slack", "log">>
=============================================================================
