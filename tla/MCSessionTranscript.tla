------------------------ MODULE MCSessionTranscript ------------------------
(* A part of the JSONL file holds four lines, a read shows three.           *)
EXTENDS SessionTranscript
=============================================================================
