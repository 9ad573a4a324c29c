-------------------------- MODULE TextStoreProofs --------------------------
(***************************************************************************)
(* Lemmas about TextStore: what the calls of storage_write_text and        *)
(* storage_read_text of kernel/storage.c can leave and return. The proofs  *)
(* about the modules that keep texts in files rest on them.                *)
(***************************************************************************)
EXTENDS TextStore, SequenceTheorems, TLAPS

-----------------------------------------------------------------------------
(* Prefixes *)

\* A part of a sequence from its start, element by element.
LEMMA StartOfSeq ==
  ASSUME NEW S, NEW s \in Seq(S), NEW n \in 0..Len(s)
  PROVE  /\ SubSeq(s, 1, n) \in Seq(S)
         /\ Len(SubSeq(s, 1, n)) = n
         /\ \A i \in 1..n : SubSeq(s, 1, n)[i] = s[i]
  <1>1. Len(s) \in Nat /\ \A i \in 1..n : s[i] \in S
    BY LenProperties, ElementOfSeq
  <1> QED
    BY <1>1, SubSeqProperties

\* IsPrefix, element by element.
LEMMA PrefixElements ==
  ASSUME NEW S, NEW s \in Seq(S), NEW t \in Seq(S)
  PROVE  IsPrefix(s, t) <=> Len(s) <= Len(t) /\ \A i \in 1..Len(s) : s[i] = t[i]
  <1>1. Len(s) \in Nat /\ Len(t) \in Nat
    BY LenProperties
  <1>2. SubSeq(s, 1, Len(s)) = s
    BY SubSeqFull
  <1>3. CASE Len(s) <= Len(t)
    <2>1. Len(s) \in 0..Len(t)
      BY <1>1, <1>3
    <2>2. /\ SubSeq(t, 1, Len(s)) \in Seq(S) /\ Len(SubSeq(t, 1, Len(s))) = Len(s)
          /\ \A i \in 1..Len(s) : SubSeq(t, 1, Len(s))[i] = t[i]
      BY <2>1, StartOfSeq
    <2>3. (\A i \in 1..Len(s) : s[i] = t[i]) => s = SubSeq(t, 1, Len(s))
      BY <2>2, SeqEqual
    <2> QED
      BY <1>2, <1>3, <2>2, <2>3 DEF IsPrefix
  <1> QED
    BY <1>1, <1>3 DEF IsPrefix

\* A prefix of a text is one of the text with a line added.
LEMMA PrefixOfAppend ==
  ASSUME NEW S, NEW s \in Seq(S), NEW t \in Seq(S), NEW x \in S, IsPrefix(s, t)
  PROVE  IsPrefix(s, Append(t, x))
  <1>1. Len(s) \in Nat /\ Len(t) \in Nat
    BY LenProperties
  <1>2. /\ Append(t, x) \in Seq(S) /\ Len(Append(t, x)) = Len(t) + 1
        /\ \A i \in 1..Len(t) : Append(t, x)[i] = t[i]
    BY AppendProperties
  <1>3. Len(s) <= Len(t) /\ \A i \in 1..Len(s) : s[i] = t[i]
    BY PrefixElements
  <1>4. Len(s) <= Len(Append(t, x)) /\ \A i \in 1..Len(s) : s[i] = Append(t, x)[i]
    BY <1>1, <1>2, <1>3
  <1> QED
    BY <1>2, <1>4, PrefixElements

LEMMA PrefixIsReflexive ==
  ASSUME NEW S, NEW s \in Seq(S)
  PROVE  IsPrefix(s, s)
  BY LenProperties DEF IsPrefix

LEMMA PrefixesType ==
  ASSUME NEW S, NEW s \in Seq(S), NEW p \in Prefixes(s)
  PROVE  p \in Seq(S) /\ Len(p) <= Len(s)
  <1>1. PICK n \in 0..Len(s) : p = SubSeq(s, 1, n)
    BY DEF Prefixes
  <1> QED
    BY <1>1, StartOfSeq, LenProperties

\* The two parts of a concatenation, each counted from its own start.
LEMMA ConcatElements ==
  ASSUME NEW S, NEW s \in Seq(S), NEW t \in Seq(S)
  PROVE  /\ s \o t \in Seq(S)
         /\ Len(s \o t) = Len(s) + Len(t)
         /\ \A i \in 1..Len(s) : (s \o t)[i] = s[i]
         /\ \A i \in 1..Len(t) : (s \o t)[Len(s) + i] = t[i]
  <1>1. Len(s) \in Nat /\ Len(t) \in Nat
    BY LenProperties
  <1>2. /\ s \o t \in Seq(S) /\ Len(s \o t) = Len(s) + Len(t)
        /\ \A i \in 1 .. Len(s) + Len(t) :
             (s \o t)[i] = IF i <= Len(s) THEN s[i] ELSE t[i - Len(s)]
    BY ConcatProperties
  <1>3. \A i \in 1..Len(s) : (s \o t)[i] = s[i]
    BY <1>1, <1>2
  <1>4. ASSUME NEW i \in 1..Len(t) PROVE (s \o t)[Len(s) + i] = t[i]
    <2>1. Len(s) + i \in 1..Len(s) + Len(t) /\ ~(Len(s) + i <= Len(s))
            /\ Len(s) + i - Len(s) = i
      BY <1>1
    <2> QED
      BY <1>2, <2>1
  <1> QED
    BY <1>2, <1>3, <1>4

-----------------------------------------------------------------------------
(* Writing *)

LEMMA SizeType ==
  ASSUME NEW S, NEW f \in Seq(S) \union {NoFile}
  PROVE  Size(f) \in Nat
  BY LenProperties DEF Size

LEMMA OverlayType ==
  ASSUME NEW S, NEW old \in Seq(S) \union {NoFile}, NEW new \in Seq(S)
  PROVE  Overlay(old, new) \in Seq(S)
  <1>1. Len(new) \in Nat
    BY LenProperties
  <1>2. CASE Size(old) <= Len(new)
    BY <1>2 DEF Overlay
  <1>3. CASE ~(Size(old) <= Len(new))
    <2>1. old # NoFile /\ old \in Seq(S)
      BY <1>1, <1>3 DEF Size
    <2>2. Len(old) \in Nat /\ \A i \in Len(new) + 1 .. Len(old) : old[i] \in S
      BY <1>1, <2>1, LenProperties, ElementOfSeq
    <2>3. SubSeq(old, Len(new) + 1, Len(old)) \in Seq(S)
      BY <1>1, <2>2, SubSeqProperties
    <2> QED
      BY <1>3, <2>3, ConcatProperties DEF Overlay
  <1> QED
    BY <1>2, <1>3

\* Whatever a write does, the file is a text or gone.
LEMMA WriteType ==
  ASSUME NEW S, NEW old \in Seq(S) \union {NoFile}, NEW new \in Seq(S),
         NEW r \in WriteResults(old, new)
  PROVE  r.ok \in BOOLEAN /\ r.file \in Seq(S) \union {NoFile}
  <1>1. Overlay(old, new) \in Seq(S) /\ \A p \in Prefixes(new) : p \in Seq(S)
    BY PrefixesType, OverlayType
  <1>2. PICK f \in Prefixes(new) \union {old, new, NoFile, Overlay(old, new)} :
          r = [ok |-> TRUE, file |-> f] \/ r = [ok |-> FALSE, file |-> f]
    BY DEF WriteResults, WriteDone, WriteFaults
  <1>3. r.file \in Seq(S) \union {NoFile} /\ (r.ok = TRUE \/ r.ok = FALSE)
    BY <1>1, <1>2
  <1>4. r.ok \in BOOLEAN
    BY <1>3
  <1> QED
    BY <1>3, <1>4

\* What a write leaves behind, line by line: lines of the new text at their
\* place, and lines of the old one; only behind a new text that is shorter is
\* the file longer than the new text.
LEMMA WrittenLines ==
  ASSUME NEW S, NEW old \in Seq(S) \union {NoFile}, NEW new \in Seq(S),
         NEW f \in Prefixes(new) \union {new, old, NoFile, Overlay(old, new)}, f # NoFile
  PROVE  /\ f \in Seq(S)
         /\ Len(f) <= Len(new) \/ (old # NoFile /\ Len(f) <= Len(old))
         /\ \A i \in 1..Len(f) : \/ i \in 1..Len(new) /\ f[i] = new[i]
                                 \/ old # NoFile /\ i \in 1..Len(old) /\ f[i] = old[i]
  <1>1. Len(new) \in Nat
    BY LenProperties
  <1>2. CASE f = new
    BY <1>1, <1>2
  <1>3. CASE f = old
    <2>1. old \in Seq(S) /\ Len(old) \in Nat /\ old # NoFile
      BY <1>3, LenProperties
    <2> QED
      BY <1>3, <2>1
  <1>4. CASE f \in Prefixes(new)
    <2>1. PICK n \in 0..Len(new) : f = SubSeq(new, 1, n)
      BY <1>4 DEF Prefixes
    <2> QED
      BY <1>1, <2>1, StartOfSeq
  <1>5. CASE f = Overlay(old, new) /\ f # new
    <2>1. ~(Size(old) <= Len(new)) /\ f = new \o SubSeq(old, Len(new) + 1, Len(old))
      BY <1>5 DEF Overlay
    <2>2. old # NoFile /\ old \in Seq(S) /\ Len(old) \in Nat /\ Len(new) < Len(old)
      <3>1. old # NoFile
        BY <1>1, <2>1 DEF Size
      <3> QED
        BY <1>1, <2>1, <3>1, LenProperties DEF Size
    <2> DEFINE end == SubSeq(old, Len(new) + 1, Len(old))
    <2>3. /\ end \in Seq(S) /\ Len(end) = Len(old) - Len(new)
          /\ \A i \in 1..(Len(old) - Len(new)) : end[i] = old[Len(new) + i]
      <3>1. \A i \in Len(new) + 1 .. Len(old) : old[i] \in S
        BY <1>1, <2>2, ElementOfSeq
      <3>2. /\ end \in Seq(S)
            /\ Len(end) = IF Len(new) + 1 <= Len(old) THEN Len(old) - (Len(new) + 1) + 1 ELSE 0
            /\ \A i \in 1..(Len(old) - (Len(new) + 1) + 1) : end[i] = old[(Len(new) + 1) + i - 1]
        BY <1>1, <2>2, <3>1, SubSeqProperties
      <3> HIDE DEF end
      <3> QED
        BY <1>1, <2>2, <3>2
    <2> HIDE DEF end
    <2>4. /\ f \in Seq(S) /\ Len(f) = Len(old)
          /\ \A i \in 1..Len(new) : f[i] = new[i]
          /\ \A i \in 1..Len(end) : f[Len(new) + i] = end[i]
      <3>1. f = new \o end
        BY <2>1 DEF end
      <3>2. /\ new \o end \in Seq(S) /\ Len(new \o end) = Len(new) + Len(end)
            /\ \A i \in 1..Len(new) : (new \o end)[i] = new[i]
            /\ \A i \in 1..Len(end) : (new \o end)[Len(new) + i] = end[i]
        BY <2>3, ConcatElements
      <3> QED
        BY <1>1, <2>2, <2>3, <3>1, <3>2
    <2>5. ASSUME NEW i \in 1..Len(f)
          PROVE  \/ i \in 1..Len(new) /\ f[i] = new[i]
                 \/ old # NoFile /\ i \in 1..Len(old) /\ f[i] = old[i]
      <3>1. CASE i <= Len(new)
        BY <1>1, <2>4, <3>1
      <3>2. CASE ~(i <= Len(new))
        <4>1. i - Len(new) \in 1..Len(end) /\ Len(new) + (i - Len(new)) = i
          BY <1>1, <2>2, <2>3, <2>4, <3>2
        <4> QED
          BY <2>2, <2>3, <2>4, <4>1
      <3> QED
        BY <3>1, <3>2
    <2> QED
      BY <2>2, <2>4, <2>5
  <1> QED
    BY <1>2, <1>3, <1>4, <1>5

\* The file that a result of a write leaves.
LEMMA WriteLeaves ==
  ASSUME NEW old, NEW new, NEW r \in WriteResults(old, new)
  PROVE  r.file \in Prefixes(new) \union {new, old, NoFile, Overlay(old, new)}
  <1>1. PICK f \in Prefixes(new) \union {old, new, NoFile, Overlay(old, new)} :
          r = [ok |-> TRUE, file |-> f] \/ r = [ok |-> FALSE, file |-> f]
    BY DEF WriteResults, WriteDone, WriteFaults
  <1> QED
    BY <1>1

\* Over a file that is no longer, a write leaves nothing behind its own end.
LEMMA WriteCovers ==
  ASSUME NEW S, NEW old \in Seq(S) \union {NoFile}, NEW new \in Seq(S),
         Size(old) <= Len(new),
         NEW f \in Prefixes(new) \union {new, old, NoFile, Overlay(old, new)}
  PROVE  f \in Seq(S) \union {NoFile} /\ Size(f) \in Nat /\ Size(f) <= Len(new)
  <1>1. Len(new) \in Nat
    BY LenProperties
  <1>2. CASE f = NoFile
    BY <1>1, <1>2 DEF Size
  <1>3. CASE f # NoFile
    <2>1. f \in Seq(S) /\ (Len(f) <= Len(new) \/ (old # NoFile /\ Len(f) <= Len(old)))
      BY <1>3, WrittenLines
    <2>2. Len(f) \in Nat /\ Size(f) = Len(f)
      BY <1>3, <2>1, LenProperties DEF Size
    <2>3. old # NoFile => Len(old) \in Nat /\ Size(old) = Len(old)
      BY LenProperties DEF Size
    <2> QED
      BY <1>1, <2>1, <2>2, <2>3
  <1> QED
    BY <1>2, <1>3

LEMMA WriteCutOffType ==
  ASSUME NEW S, NEW old \in Seq(S) \union {NoFile}, NEW new \in Seq(S),
         NEW f \in WriteCutOff(old, new)
  PROVE  f \in Seq(S) \union {NoFile}
  BY PrefixesType, OverlayType DEF WriteCutOff

-----------------------------------------------------------------------------
(* Reading *)

\* A successful read returns the start of the file, as much as the buffer holds.
LEMMA ReadDoneText ==
  ASSUME NEW S, NEW f \in Seq(S), f # NoFile, NEW cap \in Nat, NEW r \in ReadDone(f, cap)
  PROVE  /\ r.ok
         /\ r.text \in Seq(S)
         /\ Len(r.text) = (IF Len(f) < cap THEN Len(f) ELSE cap)
         /\ IsPrefix(r.text, f)
         /\ Len(f) <= cap => r.text = f
  <1> DEFINE n == IF Len(f) < cap THEN Len(f) ELSE cap
  <1>1. Len(f) \in Nat
    BY LenProperties
  <1>2. n \in 0..Len(f) /\ (Len(f) <= cap => n = Len(f))
    BY <1>1
  <1>3. r.ok /\ r.text = SubSeq(f, 1, n)
    BY DEF ReadDone
  <1>4. /\ r.text \in Seq(S) /\ Len(r.text) = n
        /\ \A i \in 1..n : r.text[i] = f[i]
    BY <1>2, <1>3, StartOfSeq
  <1>5. IsPrefix(r.text, f)
    BY <1>2, <1>4, PrefixElements
  <1>6. Len(f) <= cap => r.text = f
    BY <1>2, <1>3, SubSeqFull
  <1> QED
    BY <1>3, <1>4, <1>5, <1>6

\* What any read returns is a text that fits the buffer.
LEMMA ReadType ==
  ASSUME NEW S, NEW f \in Seq(S) \union {NoFile}, NEW cap \in Nat,
         NEW r \in ReadResults(f, cap)
  PROVE  r.ok \in BOOLEAN /\ r.text \in Seq(S) /\ Len(r.text) <= cap
  <1>1. CASE r = [ok |-> FALSE, text |-> <<>>]
    BY <1>1, EmptySeq
  <1>2. CASE f # NoFile /\ r \in ReadDone(f, cap)
    <2>1. f \in Seq(S) /\ Len(f) \in Nat
      BY <1>2, LenProperties
    <2>2. r.ok /\ r.text \in Seq(S) /\ Len(r.text) = (IF Len(f) < cap THEN Len(f) ELSE cap)
      BY <1>2, <2>1, ReadDoneText
    <2>3. r.ok = TRUE
      BY <1>2 DEF ReadDone
    <2>4. r.ok \in BOOLEAN
      BY <2>3
    <2> QED
      BY <2>1, <2>2, <2>4
  <1> QED
    BY <1>1, <1>2 DEF ReadResults, ReadDone, ReadFault

\* The comparison that follows a write proves something only below the capacity:
\* a text that is read back short of the buffer is the whole file.
LEMMA ShortReadIsWhole ==
  ASSUME NEW S, NEW f \in Seq(S) \union {NoFile}, NEW cap \in Nat,
         NEW r \in ReadResults(f, cap), r.ok, Len(r.text) < cap
  PROVE  f = r.text /\ f # NoFile
  <1>1. f # NoFile /\ f \in Seq(S) /\ r \in ReadDone(f, cap)
    BY DEF ReadResults, ReadDone, ReadFault
  <1>2. Len(f) \in Nat
    BY <1>1, LenProperties
  <1>3. Len(r.text) = (IF Len(f) < cap THEN Len(f) ELSE cap) /\ (Len(f) <= cap => r.text = f)
    BY <1>1, ReadDoneText
  <1> QED
    BY <1>1, <1>2, <1>3

\* It proves something at the capacity too, of a file that is not longer.
LEMMA ReadBackIsWhole ==
  ASSUME NEW S, NEW f \in Seq(S) \union {NoFile}, NEW cap \in Nat,
         NEW r \in ReadResults(f, cap), r.ok,
         Len(r.text) < cap \/ Size(f) <= Len(r.text)
  PROVE  f = r.text /\ f # NoFile
  <1>1. CASE Len(r.text) < cap
    BY <1>1, ShortReadIsWhole
  <1>2. CASE ~(Len(r.text) < cap)
    <2>1. r.text \in Seq(S) /\ Len(r.text) <= cap /\ Len(r.text) \in Nat
      BY ReadType, LenProperties
    <2>2. f # NoFile /\ f \in Seq(S) /\ r \in ReadDone(f, cap)
      BY DEF ReadResults, ReadDone, ReadFault
    <2>3. Len(f) \in Nat /\ Len(f) <= cap
      BY <1>2, <2>1, <2>2, LenProperties DEF Size
    <2> QED
      BY <2>2, <2>3, ReadDoneText
  <1> QED
    BY <1>1, <1>2

\* A read that is not answered as asked counts as a fault.
LEMMA CostType ==
  ASSUME NEW r, NEW done
  PROVE  Cost(r, done) \in {0, 1} /\ (Cost(r, done) = 0 <=> r \in done)
  BY DEF Cost
=============================================================================
