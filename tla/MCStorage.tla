------------------------------ MODULE MCStorage ------------------------------
(* A disk that the firmware names first, and the stick VitaOS came from.    *)
(* /vita with two directories in it; before the boot there is nothing, all  *)
(* of it, all but the last, or a plain file in the place of the last.       *)
EXTENDS Storage

MCCandidates == <<"disk", "usb">>

MCDirs  == <<"vita", "notes", "tmp">>
MCAbove == [d \in Range(MCDirs) |-> IF d = "vita" THEN {} ELSE {"vita"}]
MCHome  == [p \in Path |-> IF p = "user" THEN "notes" ELSE "tmp"]

Complete == [d \in Range(MCDirs) |-> "directory"]
MCTrees  == {[Complete EXCEPT !["tmp"] = n] : n \in {"none", "directory", "file"}}
              \union {[d \in Range(MCDirs) |-> "none"]}
=============================================================================
