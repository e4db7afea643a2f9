-------------------------- MODULE MCShardInformers --------------------------
(* Small instances of ShardInformers.                                        *)
EXTENDS ShardInformers
=============================================================================
