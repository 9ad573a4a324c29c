----------------------------- MODULE MCOperation -----------------------------
(***************************************************************************)
(* MCOperation.cfg: the journal at its limits and no report. The JSONL     *)
(* buffer holds three of a boot's five records, a read two of them.        *)
(* MCOperationReports.cfg: two reports, and a journal of one record.       *)
(* MCOperationSelftest.cfg: one self-test, and nothing fails.              *)
(***************************************************************************)
EXTENDS Operation
=============================================================================
