------------------------- MODULE MCSubstreamDownload -------------------------
(* Two downloads of a file of three parts, in substreams of two.           *)
EXTENDS SubstreamDownload
==============================================================================
