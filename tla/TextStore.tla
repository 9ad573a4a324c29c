------------------------------ MODULE TextStore -----------------------------
(***************************************************************************)
(* What storage_write_text and storage_read_text of kernel/storage.c can   *)
(* do to one text file, for the modules that keep texts in it. A text is a *)
(* sequence of lines, a capacity is counted in lines.                      *)
(*                                                                         *)
(* Writing replaces the whole file. The hosted backend truncates it with   *)
(* fopen("wb") before it writes and ignores the result of fclose, where    *)
(* the buffered data meet a full disk; the UEFI backend deletes the file   *)
(* first, ignores a failed deletion, and does not compare the number of    *)
(* bytes written with the number asked for. So "true" does not mean that   *)
(* the file holds the text, and "false" not that it holds what it held.    *)
(***************************************************************************)
EXTENDS Integers, Sequences, SequencesExt

CONSTANT NoFile    \* a model value: there is no file under the path

Size(file) == IF file = NoFile THEN 0 ELSE Len(file)

\* A new text written over an old file that could not be deleted.
Overlay(old, new) ==
  IF Size(old) <= Len(new) THEN new ELSE new \o SubSeq(old, Len(new) + 1, Len(old))

\* The results of storage_write_text that do what was asked for.
WriteDone(new) == {[ok |-> TRUE, file |-> new]}

\* The results when something goes wrong.
WriteFaults(old, new) ==
  LET partial == Prefixes(new) IN
    {[ok |-> FALSE, file |-> f] : f \in partial \union {old, NoFile}}
      \union {[ok |-> TRUE, file |-> f] : f \in partial \union {Overlay(old, new)}}

\* Any result of storage_write_text.
WriteResults(old, new) == WriteDone(new) \union WriteFaults(old, new)

\* What a power loss in the middle of a write leaves behind.
WriteCutOff(old, new) == Prefixes(new) \union {old, NoFile, Overlay(old, new)}

\* storage_read_text into a buffer of cap lines: the rest is left out silently.
ReadDone(file, cap) ==
  IF file = NoFile THEN {[ok |-> FALSE, text |-> <<>>]}
                   ELSE {[ok |-> TRUE, text |-> SubSeq(file, 1, IF Len(file) < cap THEN Len(file) ELSE cap)]}

ReadFault == [ok |-> FALSE, text |-> <<>>]

\* Any result of storage_read_text.
ReadResults(file, cap) == ReadDone(file, cap) \union {ReadFault}

\* How many faults a result of a call counts for.
Cost(result, done) == IF result \in done THEN 0 ELSE 1
=============================================================================
