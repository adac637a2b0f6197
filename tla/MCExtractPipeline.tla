-------------------------- MODULE MCExtractPipeline --------------------------
(* The pipeline on small tracks: at most eleven frames pass channels that  *)
(* hold two, so every stage meets a full and an empty channel.             *)
EXTENDS ExtractPipeline
=============================================================================
