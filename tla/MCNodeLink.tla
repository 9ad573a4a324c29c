----------------------------- MODULE MCNodeLink -----------------------------
(* A peer with a name and one without, one initial proposal, three receive *)
(* slots, two boots.                                                       *)
EXTENDS NodeLink

MCInitialProposals == <<"P-1">>
=============================================================================
