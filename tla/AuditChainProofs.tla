-------------------------- MODULE AuditChainProofs --------------------------
(***************************************************************************)
(* Proofs about AuditChain, for any number of processes, any set of boot   *)
(* times, any buffer size and any number of events.                        *)
(***************************************************************************)
EXTENDS AuditChain, TLAPS, SequenceTheorems

\* What an append leaves of a sequence: used at every insert.
LEMMA AppendElements ==
  ASSUME NEW S, NEW s \in Seq(S), NEW x \in S
  PROVE  /\ Append(s, x) \in Seq(S)
         /\ Len(Append(s, x)) = Len(s) + 1
         /\ DOMAIN Append(s, x) = 1..(Len(s) + 1)
         /\ DOMAIN s = 1..Len(s)
         /\ \A i \in DOMAIN s : Append(s, x)[i] = s[i]
         /\ Append(s, x)[Len(s) + 1] = x
  BY AppendProperties, SMT

\* The row append_event_internal builds is a row of the table.
LEMMA NewRowType ==
  ASSUME TypeOK, NEW p \in Proc, boot_id[p] # NoBoot, NEW e \in Nat
  PROVE  /\ NewRow(p, e) \in Row
         /\ NewRow(p, e).boot_id = boot_id[p]
         /\ NewRow(p, e).event_seq = event_seq[p] + 1
         /\ NewRow(p, e).event = e
         /\ NewRow(p, e).prev_hash = prev_hash[p]
         /\ NewRow(p, e).event_hash
              = HashHex(boot_id[p], event_seq[p] + 1, e, prev_hash[p])
  <1>1. boot_id[p] \in Second /\ event_seq[p] + 1 \in Nat /\ prev_hash[p] \in Digest
    BY DEF TypeOK
  <1>2. [boot |-> boot_id[p], seq |-> event_seq[p] + 1, event |-> e] \in Link
    BY <1>1 DEF Link
  <1>3. HashHex(boot_id[p], event_seq[p] + 1, e, prev_hash[p]) \in Digest
    BY <1>1, <1>2, AppendElements DEF HashHex, Digest
  <1> QED
    BY <1>1, <1>3 DEF NewRow, Row

\* A process that owns a session has made a boot id.
HasBootId == \A p \in Proc : PersistentReady(p) => boot_id[p] # NoBoot

\* What a successful or a refused insert does to the variables it concerns.
LEMMA AppendEventType ==
  ASSUME TypeOK, NEW p \in Proc, boot_id[p] # NoBoot, NEW e \in Nat, AppendEvent(p, e)
  PROVE  /\ event_seq' \in [Proc -> Nat]
         /\ prev_hash' \in [Proc -> Digest]
         /\ audit_event' \in Seq(Row)
         /\ lost' \in [Proc -> SUBSET Nat]
  <1>1. NewRow(p, e) \in Row /\ NewRow(p, e).event_hash \in Digest
    BY NewRowType DEF Row
  <1>2. CASE audit_event' = Append(audit_event, NewRow(p, e))
             /\ event_seq' = [event_seq EXCEPT ![p] = @ + 1]
             /\ prev_hash' = [prev_hash EXCEPT ![p] = NewRow(p, e).event_hash]
             /\ lost' = lost
    BY <1>1, <1>2, AppendElements DEF TypeOK
  <1>3. CASE lost' = [lost EXCEPT ![p] = @ \union {e}]
             /\ UNCHANGED <<audit_event, event_seq, prev_hash>>
    BY <1>3 DEF TypeOK
  <1> QED
    BY <1>2, <1>3 DEF AppendEvent

LEMMA TypeInvariance ==
  ASSUME TypeOK, HasBootId, [Next]_vars
  PROVE  TypeOK' /\ HasBootId'
  <1> USE SecondAssumption DEF NoBoot, PersistentReady
  <1>1. ASSUME NEW p \in Proc, EarlyBufferInit(p) \/ Exit(p)
        PROVE  TypeOK' /\ HasBootId'
    <2>1. NoDigest \in Digest /\ <<>> \in Seq(Nat)
      BY DEF NoDigest, Digest
    <2>2. \E next \in {"early", "off"} : Forget(p, next)
      BY <1>1 DEF EarlyBufferInit, Exit
    <2>3. /\ early_events' \in [Proc -> Seq(Nat)] /\ prev_hash' \in [Proc -> Digest]
          /\ lost' \in [Proc -> SUBSET Nat]
      BY <2>1, <2>2 DEF Forget, TypeOK
    <2>4. /\ phase' \in [Proc -> Phase] /\ boot_id' \in [Proc -> Second \union {NoBoot}]
          /\ event_seq' \in [Proc -> Nat] /\ flushed' \in [Proc -> Nat]
          /\ emitted' \in [Proc -> Nat] /\ HasBootId'
      BY <2>2 DEF Forget, TypeOK, HasBootId, Phase
    <2> QED
      BY <1>1, <2>3, <2>4 DEF EarlyBufferInit, Exit, TypeOK, database
  <1>2. ASSUME NEW p \in Proc, EmitEarly(p)
        PROVE  TypeOK' /\ HasBootId'
    <2>1. emitted[p] + 1 \in Nat /\ early_events[p] \in Seq(Nat)
      BY DEF TypeOK
    <2>2. Append(early_events[p], emitted[p] + 1) \in Seq(Nat)
      BY <2>1, AppendElements
    <2>3. early_events' \in [Proc -> Seq(Nat)]
      BY <1>2, <2>2 DEF EmitEarly, TypeOK
    <2>4. lost[p] \union {emitted[p] + 1} \in SUBSET Nat
      BY <2>1 DEF TypeOK
    <2>5. emitted' \in [Proc -> Nat]
      BY <1>2, <2>1 DEF EmitEarly, TypeOK
    <2>6. lost' \in [Proc -> SUBSET Nat]
      <3>1. CASE lost' = lost
        BY <3>1 DEF TypeOK
      <3>2. CASE lost' = [lost EXCEPT ![p] = @ \union {emitted[p] + 1}]
        BY <2>4, <3>2 DEF TypeOK
      <3> QED
        BY <1>2, <3>1, <3>2 DEF EmitEarly
    <2>7. UNCHANGED <<phase, boot_id, event_seq, prev_hash, flushed,
                      boot_session, audit_event, clock>>
      BY <1>2 DEF EmitEarly, database
    <2> QED
      BY <2>3, <2>5, <2>6, <2>7 DEF TypeOK, HasBootId
  <1>3. ASSUME NEW p \in Proc, EmitPersistent(p)
        PROVE  TypeOK' /\ HasBootId'
    <2>1. emitted[p] + 1 \in Nat /\ boot_id[p] # NoBoot
      BY <1>3 DEF TypeOK, HasBootId, EmitPersistent
    <2>2. AppendEvent(p, emitted[p] + 1)
      BY <1>3 DEF EmitPersistent
    <2> QED
      BY <1>3, <2>1, <2>2, AppendEventType DEF EmitPersistent, TypeOK, HasBootId
  <1>4. ASSUME NEW p \in Proc, OpenFails(p)
        PROVE  TypeOK' /\ HasBootId'
    BY <1>4 DEF OpenFails, TypeOK, HasBootId, Phase, database, history
  <1>5. ASSUME NEW p \in Proc, BootSessionRefused(p)
        PROVE  TypeOK' /\ HasBootId'
    BY <1>5 DEF BootSessionRefused, TypeOK, HasBootId, Phase, database, history
  <1>6. ASSUME NEW p \in Proc, InsertBootSession(p)
        PROVE  TypeOK' /\ HasBootId'
    BY <1>6 DEF InsertBootSession, TypeOK, HasBootId, Phase, history
  <1>7. ASSUME NEW p \in Proc, FlushOne(p)
        PROVE  TypeOK' /\ HasBootId'
    <2>1. early_events[p][flushed[p] + 1] \in Nat /\ boot_id[p] # NoBoot
      <3>1. flushed[p] + 1 \in 1..Len(early_events[p])
        BY <1>7 DEF TypeOK, FlushOne
      <3> QED
        BY <1>7, <3>1 DEF TypeOK, HasBootId, FlushOne
    <2>2. AppendEvent(p, early_events[p][flushed[p] + 1])
      BY <1>7 DEF FlushOne
    <2>3. /\ event_seq' \in [Proc -> Nat] /\ prev_hash' \in [Proc -> Digest]
          /\ audit_event' \in Seq(Row) /\ lost' \in [Proc -> SUBSET Nat]
      BY <2>1, <2>2, AppendEventType
    <2>4. flushed' \in [Proc -> Nat]
      BY <1>7 DEF FlushOne, TypeOK
    <2>5. UNCHANGED <<phase, boot_id, early_events, boot_session, clock, emitted>>
      BY <1>7 DEF FlushOne
    <2> QED
      BY <2>3, <2>4, <2>5 DEF TypeOK, HasBootId
  <1>8. ASSUME NEW p \in Proc, FlushDone(p)
        PROVE  TypeOK' /\ HasBootId'
    <2>1. <<>> \in Seq(Nat)
      OBVIOUS
    <2>2. early_events' \in [Proc -> Seq(Nat)]
      BY <1>8, <2>1 DEF FlushDone, TypeOK
    <2>3. phase' \in [Proc -> Phase] /\ flushed' \in [Proc -> Nat]
      <3>1. "ready" \in Phase /\ 0 \in Nat
        BY DEF Phase
      <3> QED
        BY <1>8, <3>1 DEF FlushDone, TypeOK
    <2>4. UNCHANGED <<boot_id, event_seq, prev_hash, boot_session, audit_event,
                      clock, emitted, lost>>
      BY <1>8 DEF FlushDone, database, history
    <2>5. HasBootId'
      BY <1>8, <2>4 DEF FlushDone, HasBootId, TypeOK
    <2> QED
      BY <2>2, <2>3, <2>4, <2>5 DEF TypeOK
  <1>9. ASSUME NEW t \in Second, SetClock(t)
        PROVE  TypeOK' /\ HasBootId'
    BY <1>9 DEF SetClock, TypeOK, HasBootId, memory, database, history
  <1>10. CASE UNCHANGED vars
    BY <1>10 DEF vars, memory, database, history, TypeOK, HasBootId
  <1> QED
    BY <1>1, <1>2, <1>3, <1>4, <1>5, <1>6, <1>7, <1>8, <1>9, <1>10 DEF Next

LEMMA TypeInit == Init => TypeOK /\ HasBootId
  <1>1. NoDigest \in Digest /\ <<>> \in Seq(Nat) /\ <<>> \in Seq(Row)
    BY DEF NoDigest, Digest
  <1> QED
    BY <1>1 DEF Init, TypeOK, HasBootId, PersistentReady, Phase, NoBoot

\* Every variable of the audit subsystem stays in its domain (audit_core.c,
\* g_audit and the tables it writes).
THEOREM TypeCorrect == Spec => []TypeOK
  <1>1. TypeOK /\ HasBootId /\ [Next]_vars => (TypeOK /\ HasBootId)'
    BY TypeInvariance
  <1> QED
    BY <1>1, TypeInit, PTL DEF Spec

-----------------------------------------------------------------------------
(* The chains *)

ChainInv ==
  /\ FreshMemory /\ SessionsOpened /\ OneWriterPerSession /\ MemoryIsTip /\ ChainsIntact

\* What the next row of p's session adds to the table.
LEMMA InsertedRow ==
  ASSUME TypeOK, HasBootId, ChainInv,
         NEW p \in Proc, PersistentReady(p), NEW e \in Nat,
         audit_event' = Append(audit_event, NewRow(p, e)),
         UNCHANGED <<phase, boot_id, boot_session>>
  PROVE  LET n == Len(audit_event)
             r == NewRow(p, e)
         IN  /\ n \in Nat /\ DOMAIN audit_event = 1..n
             /\ \A i \in 1..n : audit_event[i] \in Row
             /\ DOMAIN audit_event' = 1..(n + 1)
             /\ \A i \in 1..n : audit_event'[i] = audit_event[i]
             /\ audit_event'[n + 1] = r
             /\ r \in Row /\ r.boot_id = boot_id[p] /\ r.event_seq = event_seq[p] + 1
             /\ r.event = e /\ r.prev_hash = prev_hash[p]
             /\ r.event_hash = HashHex(r.boot_id, r.event_seq, r.event, r.prev_hash)
             /\ \A q \in Proc : PersistentReady(q)' <=> PersistentReady(q)
             /\ \A q \in Proc : q # p => SessionRows(q)' = SessionRows(q)
             /\ SessionRows(p)' = SessionRows(p) \union {n + 1}
  <1> DEFINE n == Len(audit_event)
             r == NewRow(p, e)
  <1>1. /\ r \in Row /\ r.boot_id = boot_id[p] /\ r.event_seq = event_seq[p] + 1
        /\ r.event = e /\ r.prev_hash = prev_hash[p]
        /\ r.event_hash = HashHex(r.boot_id, r.event_seq, r.event, r.prev_hash)
    BY NewRowType DEF HasBootId
  <1>2. /\ n \in Nat /\ DOMAIN audit_event = 1..n
        /\ \A i \in 1..n : audit_event[i] \in Row
    BY DEF TypeOK
  <1>3. /\ DOMAIN audit_event' = 1..(n + 1)
        /\ \A i \in 1..n : audit_event'[i] = audit_event[i]
        /\ audit_event'[n + 1] = r
    BY <1>1, <1>2, AppendElements DEF TypeOK
  <1>4. \A q \in Proc : PersistentReady(q)' <=> PersistentReady(q)
    BY DEF PersistentReady
  <1>5. \A q \in Proc : q # p => SessionRows(q)' = SessionRows(q)
    BY <1>1, <1>2, <1>3, <1>4 DEF SessionRows, ChainInv, OneWriterPerSession
  <1>6. SessionRows(p)' = SessionRows(p) \union {n + 1}
    BY <1>1, <1>2, <1>3, <1>4 DEF SessionRows
  <1> QED
    BY <1>1, <1>2, <1>3, <1>4, <1>5, <1>6

\* Inserting the next row of p's session keeps every chain unbroken.
LEMMA InsertKeepsChains ==
  ASSUME TypeOK, HasBootId, ChainInv,
         NEW p \in Proc, PersistentReady(p), NEW e \in Nat,
         audit_event' = Append(audit_event, NewRow(p, e)),
         event_seq' = [event_seq EXCEPT ![p] = @ + 1],
         prev_hash' = [prev_hash EXCEPT ![p] = NewRow(p, e).event_hash],
         UNCHANGED <<phase, boot_id, boot_session>>
  PROVE  SessionsOpened' /\ MemoryIsTip' /\ ChainsIntact'
  <1> DEFINE n == Len(audit_event)
             r == NewRow(p, e)
  <1>1. /\ r \in Row /\ r.boot_id = boot_id[p] /\ r.event_seq = event_seq[p] + 1
        /\ r.prev_hash = prev_hash[p]
        /\ r.event_hash = HashHex(r.boot_id, r.event_seq, r.event, r.prev_hash)
    BY InsertedRow
  <1>2. /\ n \in Nat /\ DOMAIN audit_event = 1..n
        /\ \A i \in 1..n : audit_event[i] \in Row
    BY InsertedRow
  <1>3. /\ DOMAIN audit_event' = 1..(n + 1)
        /\ \A i \in 1..n : audit_event'[i] = audit_event[i]
        /\ audit_event'[n + 1] = r
    BY InsertedRow
  <1>4. \A q \in Proc : PersistentReady(q)' <=> PersistentReady(q)
    BY InsertedRow
  <1>5. \A q \in Proc : q # p => SessionRows(q)' = SessionRows(q)
    BY InsertedRow
  <1>6. SessionRows(p)' = SessionRows(p) \union {n + 1}
    BY InsertedRow
  <1>7. SessionsOpened'
    BY <1>1, <1>2, <1>3, <1>4 DEF SessionsOpened, ChainInv
  <1>8. MemoryIsTip'
    <2> SUFFICES ASSUME NEW q \in Proc, PersistentReady(q)
                 PROVE  /\ \A i \in SessionRows(q)' :
                             audit_event'[i].event_seq <= event_seq'[q]
                        /\ IF event_seq'[q] = 0
                           THEN prev_hash'[q] = NoDigest /\ SessionRows(q)' = {}
                           ELSE \E i \in SessionRows(q)' :
                                  /\ audit_event'[i].event_seq = event_seq'[q]
                                  /\ audit_event'[i].event_hash = prev_hash'[q]
      BY <1>4 DEF MemoryIsTip
    <2>1. SessionRows(q) \subseteq 1..n
      BY <1>2 DEF SessionRows
    <2>2. CASE q = p
      <3>1. event_seq'[p] = event_seq[p] + 1 /\ prev_hash'[p] = r.event_hash
            /\ event_seq[p] \in Nat
        BY DEF TypeOK
      <3>2. \A i \in SessionRows(p) : audit_event[i].event_seq <= event_seq[p]
        BY DEF ChainInv, MemoryIsTip
      <3>3. \A i \in SessionRows(p) : audit_event[i].event_seq \in Nat
        BY <1>2, <2>1, <2>2 DEF Row
      <3> QED
        BY <1>1, <1>2, <1>3, <1>6, <2>1, <2>2, <3>1, <3>2, <3>3
    <2>3. CASE q # p
      <3>1. event_seq'[q] = event_seq[q] /\ prev_hash'[q] = prev_hash[q]
        BY <2>3 DEF TypeOK
      <3> QED
        BY <1>2, <1>3, <1>5, <2>1, <2>3, <3>1 DEF ChainInv, MemoryIsTip
    <2> QED
      BY <2>2, <2>3
  <1>9. ChainsIntact'
    <2>1. ASSUME NEW i \in 1..n
          PROVE  audit_event'[i].boot_id \in boot_session' /\ RowChained(i)'
      <3>1. \A j \in 1..(i - 1) : audit_event'[j] = audit_event[j]
        BY <1>2, <1>3
      <3>2. audit_event[i].boot_id \in boot_session /\ RowChained(i)
        BY <1>2 DEF ChainInv, ChainsIntact
      <3> QED
        BY <1>3, <3>1, <3>2 DEF RowChained
    <2>2. ASSUME NEW i \in 1..(n + 1), i = n + 1
          PROVE  audit_event'[i].boot_id \in boot_session' /\ RowChained(i)'
      <3>1. boot_id[p] \in boot_session
        BY DEF ChainInv, SessionsOpened
      <3>2. event_seq[p] \in Nat /\ i - 1 = n /\ audit_event'[i] = r
        BY <1>2, <1>3, <2>2 DEF TypeOK
      <3>3. SUFFICES IF r.event_seq = 1
                     THEN r.prev_hash = NoDigest
                     ELSE \E j \in 1..n :
                            /\ audit_event'[j].boot_id = r.boot_id
                            /\ audit_event'[j].event_seq + 1 = r.event_seq
                            /\ audit_event'[j].event_hash = r.prev_hash
        BY <1>1, <3>1, <3>2 DEF RowChained
      <3>4. CASE event_seq[p] = 0
        <4>1. prev_hash[p] = NoDigest
          BY <3>4 DEF ChainInv, MemoryIsTip
        <4> QED
          BY <1>1, <3>4, <4>1
      <3>5. CASE event_seq[p] # 0
        <4>1. PICK j \in SessionRows(p) : audit_event[j].event_seq = event_seq[p]
                                          /\ audit_event[j].event_hash = prev_hash[p]
          BY <3>5 DEF ChainInv, MemoryIsTip
        <4>2. j \in 1..n /\ audit_event[j].boot_id = boot_id[p]
          BY <1>2 DEF SessionRows
        <4>3. audit_event'[j] = audit_event[j]
          BY <1>3, <4>2
        <4>4. audit_event'[j].event_seq + 1 = r.event_seq /\ r.event_seq # 1
          BY <1>1, <3>2, <3>5, <4>1, <4>3
        <4> QED
          BY <1>1, <4>1, <4>2, <4>3, <4>4
      <3> QED
        BY <3>4, <3>5
    <2>3. ASSUME NEW i \in 1..(n + 1), NEW j \in 1..(n + 1), i < j,
                 audit_event'[i].boot_id = audit_event'[j].boot_id
          PROVE  audit_event'[i].event_seq < audit_event'[j].event_seq
      <3>1. i \in 1..n
        BY <1>2, <2>3
      <3>2. CASE j \in 1..n
        BY <1>2, <1>3, <2>3, <3>1, <3>2 DEF ChainInv, ChainsIntact
      <3>3. CASE j = n + 1
        <4>1. i \in SessionRows(p)
          BY <1>1, <1>2, <1>3, <2>3, <3>1, <3>3 DEF SessionRows
        <4>2. audit_event[i].event_seq <= event_seq[p] /\ audit_event[i].event_seq \in Nat
          BY <1>2, <3>1, <4>1 DEF ChainInv, MemoryIsTip, Row
        <4> QED
          BY <1>1, <1>3, <3>1, <3>3, <4>2 DEF TypeOK
      <3> QED
        BY <1>2, <3>2, <3>3
    <2>4. \A i \in 1..(n + 1) : i \in 1..n \/ i = n + 1
      BY <1>2
    <2>5. \A i \in DOMAIN audit_event' :
            audit_event'[i].boot_id \in boot_session' /\ RowChained(i)'
      BY <1>3, <2>1, <2>2, <2>4
    <2> QED
      BY <1>3, <2>3, <2>5 DEF ChainsIntact
  <1> QED
    BY <1>7, <1>8, <1>9

\* A step that changes neither the tables nor the sessions keeps the chains.
LEMMA ChainsUntouched ==
  ASSUME ChainInv, UNCHANGED <<boot_id, event_seq, prev_hash, boot_session, audit_event>>,
         \A q \in Proc : PersistentReady(q)' <=> PersistentReady(q)
  PROVE  SessionsOpened' /\ OneWriterPerSession' /\ MemoryIsTip' /\ ChainsIntact'
  <1>1. \A q \in Proc : SessionRows(q)' = SessionRows(q)
    BY DEF SessionRows
  <1>2. SessionsOpened' /\ OneWriterPerSession'
    BY DEF ChainInv, SessionsOpened, OneWriterPerSession
  <1>3. MemoryIsTip'
    BY <1>1 DEF ChainInv, MemoryIsTip
  <1>4. ChainsIntact'
    BY DEF ChainInv, ChainsIntact, RowChained
  <1> QED
    BY <1>2, <1>3, <1>4

\* Neither does one that leaves process p without a session, whatever it does
\* to p's own memory.
LEMMA ChainsWithout ==
  ASSUME TypeOK, ChainInv, NEW p \in Proc, UNCHANGED <<boot_session, audit_event>>,
         ~PersistentReady(p)',
         \A q \in Proc \ {p} : /\ PersistentReady(q)' <=> PersistentReady(q)
                               /\ boot_id'[q] = boot_id[q]
                               /\ event_seq'[q] = event_seq[q]
                               /\ prev_hash'[q] = prev_hash[q]
  PROVE  SessionsOpened' /\ OneWriterPerSession' /\ MemoryIsTip' /\ ChainsIntact'
  <1>1. \A q \in Proc : PersistentReady(q)' => q # p
    OBVIOUS
  <1>2. \A q \in Proc \ {p} : SessionRows(q)' = SessionRows(q)
    BY DEF SessionRows
  <1>3. SessionsOpened' /\ OneWriterPerSession'
    BY <1>1 DEF ChainInv, SessionsOpened, OneWriterPerSession
  <1>4. MemoryIsTip'
    BY <1>1, <1>2 DEF ChainInv, MemoryIsTip
  <1>5. ChainsIntact'
    BY DEF ChainInv, ChainsIntact, RowChained
  <1> QED
    BY <1>3, <1>4, <1>5

LEMMA ChainInvariance ==
  ASSUME TypeOK, HasBootId, ChainInv, [Next]_vars
  PROVE  ChainInv'
  <1>1. ASSUME NEW p \in Proc, EarlyBufferInit(p) \/ Exit(p)
        PROVE  ChainInv'
    <2>1. \E next \in {"early", "off"} : Forget(p, next)
      BY <1>1 DEF EarlyBufferInit, Exit
    <2>2. /\ ~PersistentReady(p)'
          /\ event_seq'[p] = 0 /\ prev_hash'[p] = NoDigest /\ flushed'[p] = 0
          /\ \A q \in Proc \ {p} : /\ PersistentReady(q)' <=> PersistentReady(q)
                                  /\ boot_id'[q] = boot_id[q]
                                  /\ event_seq'[q] = event_seq[q]
                                  /\ prev_hash'[q] = prev_hash[q]
                                  /\ flushed'[q] = flushed[q]
      BY <2>1 DEF Forget, TypeOK, PersistentReady
    <2>3. FreshMemory'
      BY <2>2 DEF ChainInv, FreshMemory
    <2>4. UNCHANGED <<boot_session, audit_event>>
      BY <1>1 DEF EarlyBufferInit, Exit, database
    <2> QED
      BY <2>2, <2>3, <2>4, ChainsWithout DEF ChainInv
  <1>2. ASSUME NEW p \in Proc, OpenFails(p) \/ BootSessionRefused(p)
        PROVE  ChainInv'
    <2>1. /\ ~PersistentReady(p)' /\ ~PersistentReady(p)
          /\ UNCHANGED <<event_seq, prev_hash, flushed, boot_session, audit_event>>
          /\ \A q \in Proc \ {p} : /\ PersistentReady(q)' <=> PersistentReady(q)
                                  /\ boot_id'[q] = boot_id[q]
      BY <1>2 DEF OpenFails, BootSessionRefused, TypeOK, PersistentReady, database
    <2>2. FreshMemory'
      BY <2>1 DEF ChainInv, FreshMemory
    <2> QED
      BY <2>1, <2>2, ChainsWithout DEF ChainInv
  <1>3. ASSUME NEW p \in Proc, InsertBootSession(p)
        PROVE  ChainInv'
    <2>1. /\ ~PersistentReady(p) /\ PersistentReady(p)'
          /\ clock \notin boot_session /\ boot_session' = boot_session \union {clock}
          /\ boot_id'[p] = clock
          /\ UNCHANGED <<event_seq, prev_hash, flushed, audit_event>>
          /\ \A q \in Proc \ {p} : /\ PersistentReady(q)' <=> PersistentReady(q)
                                  /\ boot_id'[q] = boot_id[q]
      BY <1>3 DEF InsertBootSession, TypeOK, PersistentReady
    <2>2. FreshMemory' /\ SessionsOpened' /\ OneWriterPerSession'
      BY <2>1 DEF ChainInv, FreshMemory, SessionsOpened, OneWriterPerSession
    <2>3. SessionRows(p)' = {}
      BY <2>1 DEF SessionRows, ChainInv, SessionsOpened
    <2>4. \A q \in Proc \ {p} : SessionRows(q)' = SessionRows(q)
      BY <2>1 DEF SessionRows
    <2>5. event_seq'[p] = 0 /\ prev_hash'[p] = NoDigest
      BY <2>1 DEF ChainInv, FreshMemory
    <2>6. MemoryIsTip'
      BY <2>1, <2>3, <2>4, <2>5 DEF ChainInv, MemoryIsTip
    <2>7. ChainsIntact'
      BY <2>1 DEF ChainInv, ChainsIntact, RowChained
    <2> QED
      BY <2>2, <2>6, <2>7 DEF ChainInv
  <1>4. ASSUME NEW p \in Proc, EmitPersistent(p) \/ FlushOne(p)
        PROVE  ChainInv'
    <2>1. PICK e \in Nat : AppendEvent(p, e)
      <3>1. CASE EmitPersistent(p)
        <4>1. emitted[p] + 1 \in Nat
          BY DEF TypeOK
        <4> QED
          BY <3>1, <4>1 DEF EmitPersistent
      <3>2. CASE FlushOne(p)
        <4>1. flushed[p] + 1 \in 1..Len(early_events[p])
          BY <3>2 DEF TypeOK, FlushOne
        <4>2. early_events[p][flushed[p] + 1] \in Nat
          BY <4>1 DEF TypeOK
        <4> QED
          BY <3>2, <4>2 DEF FlushOne
      <3> QED
        BY <1>4, <3>1, <3>2
    <2>2. PersistentReady(p) /\ UNCHANGED <<phase, boot_id, boot_session>>
      BY <1>4 DEF EmitPersistent, FlushOne, PersistentReady
    <2>3. \A q \in Proc : PersistentReady(q)' <=> PersistentReady(q)
      BY <2>2 DEF PersistentReady
    <2>4. \A q \in Proc \ {p} : /\ event_seq'[q] = event_seq[q]
                              /\ prev_hash'[q] = prev_hash[q]
                              /\ flushed'[q] = flushed[q]
      BY <1>4, <2>1 DEF EmitPersistent, FlushOne, AppendEvent, TypeOK
    <2>5. FreshMemory' /\ OneWriterPerSession'
      BY <2>2, <2>3, <2>4 DEF ChainInv, FreshMemory, OneWriterPerSession
    <2>6. SessionsOpened' /\ MemoryIsTip' /\ ChainsIntact'
      <3>1. CASE UNCHANGED <<audit_event, event_seq, prev_hash>>
        BY <2>2, <2>3, <3>1, ChainsUntouched
      <3>2. CASE /\ audit_event' = Append(audit_event, NewRow(p, e))
                 /\ event_seq' = [event_seq EXCEPT ![p] = @ + 1]
                 /\ prev_hash' = [prev_hash EXCEPT ![p] = NewRow(p, e).event_hash]
        BY <2>1, <2>2, <3>2, InsertKeepsChains
      <3> QED
        BY <2>1, <3>1, <3>2 DEF AppendEvent
    <2> QED
      BY <2>5, <2>6 DEF ChainInv
  <1>5. ASSUME NEW p \in Proc, EmitEarly(p) \/ FlushDone(p)
        PROVE  ChainInv'
    <2>1. /\ UNCHANGED <<boot_id, event_seq, prev_hash, boot_session, audit_event>>
          /\ \A q \in Proc : PersistentReady(q)' <=> PersistentReady(q)
          /\ \A q \in Proc : ~PersistentReady(q) => flushed'[q] = flushed[q]
      BY <1>5 DEF EmitEarly, FlushDone, TypeOK, PersistentReady, database
    <2>2. FreshMemory'
      BY <2>1 DEF ChainInv, FreshMemory
    <2> QED
      BY <2>1, <2>2, ChainsUntouched DEF ChainInv
  <1>6. ASSUME UNCHANGED <<memory, database>>
        PROVE  ChainInv'
    <2>1. /\ UNCHANGED <<phase, boot_id, event_seq, prev_hash, flushed>>
          /\ UNCHANGED <<boot_session, audit_event>>
          /\ \A q \in Proc : PersistentReady(q)' <=> PersistentReady(q)
      BY <1>6 DEF memory, database, PersistentReady
    <2>2. FreshMemory'
      BY <2>1 DEF ChainInv, FreshMemory
    <2> QED
      BY <2>1, <2>2, ChainsUntouched DEF ChainInv
  <1>7. (\E t \in Second : SetClock(t)) \/ UNCHANGED vars => UNCHANGED <<memory, database>>
    BY DEF SetClock, vars
  <1> QED
    BY <1>1, <1>2, <1>3, <1>4, <1>5, <1>6, <1>7 DEF Next

LEMMA ChainInit == Init => ChainInv
  BY DEF Init, ChainInv, FreshMemory, SessionsOpened, OneWriterPerSession, MemoryIsTip,
         ChainsIntact, PersistentReady

LEMMA ChainInvariant == Spec => [](TypeOK /\ HasBootId /\ ChainInv)
  <1>1. TypeOK /\ HasBootId /\ ChainInv /\ [Next]_vars => (TypeOK /\ HasBootId /\ ChainInv)'
    BY TypeInvariance, ChainInvariance
  <1> QED
    BY <1>1, TypeInit, ChainInit, PTL DEF Spec

\* Every session in the database is one unbroken chain: append_event_internal
\* numbers and links each row after the last one that was stored.
THEOREM AlwaysChained == Spec => []ChainsIntact
  BY ChainInvariant, PTL DEF ChainInv

\* The primary key of boot_session keeps any two processes in sessions of
\* their own (insert_boot_session).
THEOREM AlwaysOneWriter == Spec => []OneWriterPerSession
  BY ChainInvariant, PTL DEF ChainInv

-----------------------------------------------------------------------------
(* The events: their order, and what becomes of each *)

OrderInv ==
  /\ \A p \in Proc : BufferOrdered(p) /\ Accounted(p)
  /\ EmissionOrder

\* What the order and the account of q's events depend on.
LEMMA Undisturbed ==
  ASSUME NEW q \in Proc, BufferOrdered(q), Accounted(q),
         SessionRows(q)' = SessionRows(q),
         \A i \in SessionRows(q) : audit_event'[i] = audit_event[i],
         early_events'[q] = early_events[q], flushed'[q] = flushed[q],
         emitted'[q] = emitted[q], lost'[q] = lost[q],
         phase'[q] = "ready" => phase[q] = "ready"
  PROVE  BufferOrdered(q)' /\ Accounted(q)'
  <1>1. BufferOrdered(q)'
    BY DEF BufferOrdered
  <1>2. Stored(q)' = Stored(q)
    BY DEF Stored
  <1>3. Waiting(q)' = Waiting(q)
    BY DEF Waiting
  <1> QED
    BY <1>1, <1>2, <1>3 DEF Accounted

\* An event later than all that are stored and earlier than all that wait is
\* inserted: the order is kept, and the event is stored.
LEMMA InsertKeepsOrder ==
  ASSUME TypeOK, HasBootId, ChainInv, EmissionOrder,
         NEW p \in Proc, PersistentReady(p), NEW e \in Nat,
         \A i \in SessionRows(p) : audit_event[i].event < e,
         audit_event' = Append(audit_event, NewRow(p, e)),
         UNCHANGED <<phase, boot_id, boot_session>>
  PROVE  /\ EmissionOrder'
         /\ Stored(p)' = Stored(p) \union {e}
         /\ \A i \in SessionRows(p)' :
              \/ i \in SessionRows(p) /\ audit_event'[i] = audit_event[i]
              \/ audit_event'[i].event = e
         /\ \A q \in Proc : q # p => SessionRows(q)' = SessionRows(q)
         /\ \A q \in Proc : \A i \in SessionRows(q) : audit_event'[i] = audit_event[i]
  <1> DEFINE n == Len(audit_event)
             r == NewRow(p, e)
  <1>1. /\ n \in Nat /\ DOMAIN audit_event = 1..n
        /\ DOMAIN audit_event' = 1..(n + 1)
        /\ \A i \in 1..n : audit_event'[i] = audit_event[i]
        /\ audit_event'[n + 1] = r /\ r.boot_id = boot_id[p] /\ r.event = e
    BY InsertedRow
  <1>2. SessionRows(p)' = SessionRows(p) \union {n + 1}
    BY InsertedRow
  <1>3. \A q \in Proc : q # p => SessionRows(q)' = SessionRows(q)
    BY InsertedRow
  <1>4. \A q \in Proc : \A i \in SessionRows(q) : audit_event'[i] = audit_event[i]
    BY <1>1 DEF SessionRows
  <1>5. Stored(p)' = Stored(p) \union {e}
    BY <1>1, <1>2, <1>4 DEF Stored
  <1>6. ASSUME NEW i \in 1..(n + 1), NEW j \in 1..(n + 1), i < j,
               audit_event'[i].boot_id = audit_event'[j].boot_id
        PROVE  audit_event'[i].event < audit_event'[j].event
    <2>1. i \in 1..n
      BY <1>1, <1>6
    <2>2. CASE j \in 1..n
      BY <1>1, <1>6, <2>1, <2>2 DEF EmissionOrder
    <2>3. CASE j = n + 1
      BY <1>1, <1>6, <2>1, <2>3 DEF SessionRows
    <2> QED
      BY <1>1, <2>2, <2>3
  <1>7. EmissionOrder'
    BY <1>1, <1>6 DEF EmissionOrder
  <1> QED
    BY <1>1, <1>2, <1>3, <1>4, <1>5, <1>7

\* A step that leaves the tables and q's memory alone leaves q's events alone.
LEMMA OthersUndisturbed ==
  ASSUME NEW q \in Proc, BufferOrdered(q), Accounted(q),
         audit_event' = audit_event, boot_id'[q] = boot_id[q],
         PersistentReady(q)' <=> PersistentReady(q),
         early_events'[q] = early_events[q], flushed'[q] = flushed[q],
         emitted'[q] = emitted[q], lost'[q] = lost[q],
         phase'[q] = "ready" => phase[q] = "ready"
  PROVE  BufferOrdered(q)' /\ Accounted(q)'
  <1>1. SessionRows(q)' = SessionRows(q)
    BY DEF SessionRows
  <1> QED
    BY <1>1, Undisturbed

LEMMA OrderUntouched == EmissionOrder /\ audit_event' = audit_event => EmissionOrder'
  BY DEF EmissionOrder

\* The process starts or ends: it has emitted nothing yet.
LEMMA OrderForget ==
  ASSUME TypeOK, OrderInv, NEW p \in Proc, NEW next \in {"early", "off"}, Forget(p, next),
         UNCHANGED database
  PROVE  OrderInv'
  <1>1. audit_event' = audit_event
    BY DEF database
  <1>2. /\ early_events'[p] = <<>> /\ flushed'[p] = 0 /\ emitted'[p] = 0
        /\ lost'[p] = {} /\ ~PersistentReady(p)' /\ phase'[p] # "ready"
    BY DEF Forget, TypeOK, PersistentReady
  <1>3. SessionRows(p)' = {}
    BY <1>2 DEF SessionRows
  <1>4. BufferOrdered(p)'
    BY <1>2, <1>3 DEF BufferOrdered
  <1>5. Accounted(p)'
    <2>1. Stored(p)' = {}
      BY <1>3 DEF Stored
    <2>2. Waiting(p)' = {}
      BY <1>2 DEF Waiting
    <2> QED
      BY <1>2, <2>1, <2>2 DEF Accounted
  <1>6. ASSUME NEW q \in Proc \ {p}
        PROVE  BufferOrdered(q)' /\ Accounted(q)'
    <2>1. /\ early_events'[q] = early_events[q] /\ flushed'[q] = flushed[q]
          /\ emitted'[q] = emitted[q] /\ lost'[q] = lost[q]
          /\ boot_id'[q] = boot_id[q] /\ phase'[q] = phase[q]
      BY DEF Forget, TypeOK
    <2> QED
      BY <1>1, <2>1, OthersUndisturbed DEF OrderInv, PersistentReady
  <1> QED
    BY <1>1, <1>4, <1>5, <1>6, OrderUntouched DEF OrderInv

\* An event is emitted before the backend is up: buffered or dropped.
LEMMA OrderEmitEarly ==
  ASSUME TypeOK, ChainInv, OrderInv, NEW p \in Proc, EmitEarly(p)
  PROVE  OrderInv'
  <1> DEFINE e == emitted[p] + 1
  <1>1. /\ emitted[p] \in Nat /\ e \in Nat /\ emitted'[p] = e
        /\ early_events[p] \in Seq(Nat) /\ lost[p] \in SUBSET Nat
    BY DEF TypeOK, EmitEarly
  <1>2. /\ ~PersistentReady(p) /\ ~PersistentReady(p)' /\ phase'[p] # "ready"
        /\ UNCHANGED <<phase, boot_id, flushed, audit_event>>
    BY DEF EmitEarly, PersistentReady, database
  <1>3. SessionRows(p) = {} /\ SessionRows(p)' = {} /\ Stored(p) = {} /\ Stored(p)' = {}
    BY <1>2 DEF SessionRows, Stored
  <1>4. flushed[p] = 0
    BY <1>2 DEF ChainInv, FreshMemory
  <1>5. BufferOrdered(p) /\ Accounted(p)
    BY DEF OrderInv
  <1>6. Waiting(p) = {early_events[p][i] : i \in DOMAIN early_events[p]}
    BY <1>1, <1>4 DEF Waiting
  <1>7. \A x \in Waiting(p) \union lost[p] : x < e
    BY <1>1, <1>3, <1>5 DEF Accounted
  <1>8. 1..e = (1..emitted[p]) \union {e}
    BY <1>1
  <1>9. BufferOrdered(p)' /\ Accounted(p)'
    <2>1. CASE /\ early_events' = [early_events EXCEPT ![p] = Append(@, e)]
               /\ lost' = lost
      <3> DEFINE s == early_events[p]
      <3>1. /\ early_events'[p] = Append(s, e) /\ lost'[p] = lost[p]
            /\ Len(Append(s, e)) = Len(s) + 1 /\ Len(s) \in Nat
            /\ DOMAIN s = 1..Len(s) /\ DOMAIN Append(s, e) = 1..(Len(s) + 1)
            /\ \A i \in 1..Len(s) : Append(s, e)[i] = s[i]
            /\ Append(s, e)[Len(s) + 1] = e
        BY <1>1, <2>1, AppendElements DEF TypeOK
      <3>2. \A i \in 1..(Len(s) + 1) : i \in 1..Len(s) \/ i = Len(s) + 1
        BY <3>1
      <3>3. \A i \in 1..Len(s) : s[i] \in 1..emitted[p]
        BY <1>5, <3>1 DEF BufferOrdered
      <3>4. BufferOrdered(p)'
        <4>1. ASSUME NEW i \in 1..(Len(s) + 1), NEW j \in 1..(Len(s) + 1), i < j
              PROVE  Append(s, e)[i] < Append(s, e)[j]
          <5>1. i \in 1..Len(s)
            BY <3>1, <4>1
          <5>2. CASE j \in 1..Len(s)
            BY <1>5, <3>1, <4>1, <5>1, <5>2 DEF BufferOrdered
          <5>3. CASE j = Len(s) + 1
            BY <1>1, <3>1, <3>3, <5>1, <5>3
          <5> QED
            BY <3>2, <5>2, <5>3
        <4>2. \A i \in 1..(Len(s) + 1) : Append(s, e)[i] \in 1..e
          BY <1>1, <3>1, <3>2, <3>3
        <4>3. flushed'[p] <= Len(Append(s, e))
          BY <1>2, <1>4, <3>1
        <4> QED
          BY <1>1, <1>2, <1>3, <3>1, <4>1, <4>2, <4>3 DEF BufferOrdered
      <3>5. Waiting(p)' = Waiting(p) \union {e}
        <4>1. Waiting(p)' = {Append(s, e)[i] : i \in 1..(Len(s) + 1)}
          BY <1>2, <1>4, <3>1 DEF Waiting
        <4> QED
          BY <1>6, <3>1, <3>2, <4>1
      <3>6. Accounted(p)'
        BY <1>1, <1>3, <1>5, <1>7, <1>8, <3>1, <3>5 DEF Accounted
      <3> QED
        BY <3>4, <3>6
    <2>2. CASE /\ lost' = [lost EXCEPT ![p] = @ \union {e}]
                /\ early_events' = early_events
      <3>1. lost'[p] = lost[p] \union {e} /\ Waiting(p)' = Waiting(p)
        BY <1>2, <2>2 DEF TypeOK, Waiting
      <3>2. BufferOrdered(p)'
        BY <1>1, <1>2, <1>3, <1>5, <2>2 DEF BufferOrdered
      <3>3. Accounted(p)'
        BY <1>1, <1>3, <1>5, <1>7, <1>8, <3>1 DEF Accounted
      <3> QED
        BY <3>2, <3>3
    <2> QED
      BY <2>1, <2>2 DEF EmitEarly
  <1>10. ASSUME NEW q \in Proc \ {p}
         PROVE  BufferOrdered(q)' /\ Accounted(q)'
    <2>1. /\ early_events'[q] = early_events[q] /\ flushed'[q] = flushed[q]
          /\ emitted'[q] = emitted[q] /\ lost'[q] = lost[q]
      BY <1>2 DEF EmitEarly, TypeOK
    <2> QED
      BY <1>2, <2>1, OthersUndisturbed DEF OrderInv, PersistentReady
  <1> QED
    BY <1>2, <1>9, <1>10, OrderUntouched DEF OrderInv

\* An event is emitted with the backend up: nothing waits, so it is the latest.
LEMMA OrderEmitPersistent ==
  ASSUME TypeOK, HasBootId, ChainInv, OrderInv, NEW p \in Proc, EmitPersistent(p)
  PROVE  OrderInv'
  <1> DEFINE e == emitted[p] + 1
  <1>1. /\ emitted[p] \in Nat /\ e \in Nat /\ emitted'[p] = e /\ lost[p] \in SUBSET Nat
        /\ phase[p] = "ready" /\ PersistentReady(p) /\ AppendEvent(p, e)
        /\ UNCHANGED <<phase, boot_id, early_events, flushed, boot_session>>
    BY DEF TypeOK, EmitPersistent, PersistentReady
  <1>2. BufferOrdered(p) /\ Accounted(p)
    BY DEF OrderInv
  <1>3. early_events[p] = <<>> /\ flushed[p] = 0 /\ Waiting(p) = {} /\ Waiting(p)' = {}
    <2>1. early_events[p] = <<>> /\ flushed[p] <= 0 /\ flushed[p] \in Nat
      BY <1>1, <1>2 DEF BufferOrdered, TypeOK
    <2> QED
      BY <1>1, <2>1 DEF Waiting
  <1>4. \A x \in Stored(p) \union lost[p] : x < e
    BY <1>1, <1>2, <1>3 DEF Accounted
  <1>5. \A i \in SessionRows(p) : audit_event[i].event \in 1..emitted[p]
    BY <1>2 DEF BufferOrdered
  <1>6. 1..e = (1..emitted[p]) \union {e}
    BY <1>1
  <1>7. EmissionOrder
    BY DEF OrderInv
  <1>8. CASE audit_event' = Append(audit_event, NewRow(p, e)) /\ lost' = lost
    <2>1. /\ EmissionOrder'
          /\ Stored(p)' = Stored(p) \union {e}
          /\ \A i \in SessionRows(p)' :
               \/ i \in SessionRows(p) /\ audit_event'[i] = audit_event[i]
               \/ audit_event'[i].event = e
          /\ \A q \in Proc : q # p => SessionRows(q)' = SessionRows(q)
          /\ \A q \in Proc : \A i \in SessionRows(q) : audit_event'[i] = audit_event[i]
      <3>1. \A i \in SessionRows(p) : audit_event[i].event < e
        BY <1>1, <1>5
      <3> QED
        BY <1>1, <1>7, <1>8, <3>1, InsertKeepsOrder
    <2>2. BufferOrdered(p)'
      <3>1. \A i \in SessionRows(p)' : audit_event'[i].event \in 1..e
        BY <1>1, <1>5, <2>1
      <3> QED
        BY <1>1, <1>3, <3>1 DEF BufferOrdered
    <2>3. Accounted(p)'
      BY <1>1, <1>2, <1>3, <1>4, <1>6, <1>8, <2>1 DEF Accounted
    <2>4. ASSUME NEW q \in Proc \ {p}
          PROVE  BufferOrdered(q)' /\ Accounted(q)'
      <3>1. emitted'[q] = emitted[q] /\ lost'[q] = lost[q]
        BY <1>8 DEF EmitPersistent, TypeOK
      <3> QED
        BY <1>1, <2>1, <3>1, Undisturbed DEF OrderInv
    <2> QED
      BY <2>1, <2>2, <2>3, <2>4 DEF OrderInv
  <1>9. CASE audit_event' = audit_event /\ lost' = [lost EXCEPT ![p] = @ \union {e}]
    <2>1. SessionRows(p)' = SessionRows(p) /\ Stored(p)' = Stored(p)
      BY <1>1, <1>9 DEF SessionRows, Stored, PersistentReady
    <2>2. lost'[p] = lost[p] \union {e}
      BY <1>9 DEF TypeOK
    <2>3. BufferOrdered(p)'
      <3>1. \A i \in SessionRows(p)' : audit_event'[i].event \in 1..e
        BY <1>1, <1>5, <1>9, <2>1
      <3> QED
        BY <1>1, <1>3, <3>1 DEF BufferOrdered
    <2>4. Accounted(p)'
      BY <1>1, <1>2, <1>3, <1>4, <1>6, <2>1, <2>2 DEF Accounted
    <2>5. ASSUME NEW q \in Proc \ {p}
          PROVE  BufferOrdered(q)' /\ Accounted(q)'
      <3>1. emitted'[q] = emitted[q] /\ lost'[q] = lost[q]
        BY <1>9 DEF EmitPersistent, TypeOK
      <3> QED
        BY <1>1, <1>9, <3>1, OthersUndisturbed DEF OrderInv, PersistentReady
    <2> QED
      BY <1>7, <1>9, <2>3, <2>4, <2>5, OrderUntouched DEF OrderInv
  <1> QED
    BY <1>1, <1>8, <1>9 DEF AppendEvent

\* The buffered event that is flushed is later than the stored ones and earlier
\* than those left in the buffer.
LEMMA OrderFlushOne ==
  ASSUME TypeOK, HasBootId, ChainInv, OrderInv, NEW p \in Proc, FlushOne(p)
  PROVE  OrderInv'
  <1> DEFINE s == early_events[p]
             k == flushed[p] + 1
             e == s[k]
  <1>1. /\ s \in Seq(Nat) /\ Len(s) \in Nat /\ DOMAIN s = 1..Len(s)
        /\ flushed[p] \in Nat /\ k \in 1..Len(s) /\ e \in Nat
        /\ lost[p] \in SUBSET Nat /\ emitted[p] \in Nat
    BY DEF TypeOK, FlushOne
  <1>2. /\ phase[p] = "flush" /\ PersistentReady(p) /\ AppendEvent(p, e)
        /\ flushed'[p] = k
        /\ UNCHANGED <<phase, boot_id, early_events, boot_session, emitted>>
    BY DEF TypeOK, FlushOne, PersistentReady
  <1>3. BufferOrdered(p) /\ Accounted(p) /\ EmissionOrder
    BY DEF OrderInv
  <1>4. \A i \in SessionRows(p) : audit_event[i].event < e
    BY <1>1, <1>3 DEF BufferOrdered
  <1>5. \A j \in (k + 1)..Len(s) : e < s[j]
    <2>1. \A i, j \in 1..Len(s) : i < j => s[i] < s[j]
      BY <1>1, <1>3 DEF BufferOrdered
    <2>2. \A j \in (k + 1)..Len(s) : j \in 1..Len(s) /\ k < j
      BY <1>1
    <2> HIDE DEF s, k
    <2> QED
      BY <1>1, <2>1, <2>2
  <1>6. Waiting(p) = Waiting(p)' \union {e} /\ e \notin Waiting(p)'
    <2>1. Waiting(p) = {s[j] : j \in k..Len(s)}
      BY DEF Waiting
    <2>2. Waiting(p)' = {s[j] : j \in (k + 1)..Len(s)}
      BY <1>2 DEF Waiting
    <2>3. \A j \in k..Len(s) : j = k \/ j \in (k + 1)..Len(s)
      BY <1>1
    <2>4. k \in k..Len(s) /\ (k + 1)..Len(s) \subseteq k..Len(s)
      BY <1>1
    <2>5. \A j \in (k + 1)..Len(s) : s[j] # e
      BY <1>1, <1>5
    <2> QED
      BY <2>1, <2>2, <2>3, <2>4, <2>5
  <1>7. e \in 1..emitted[p]
    BY <1>1, <1>3 DEF BufferOrdered
  <1>8. CASE audit_event' = Append(audit_event, NewRow(p, e)) /\ lost' = lost
    <2>1. /\ EmissionOrder'
          /\ Stored(p)' = Stored(p) \union {e}
          /\ \A i \in SessionRows(p)' :
               \/ i \in SessionRows(p) /\ audit_event'[i] = audit_event[i]
               \/ audit_event'[i].event = e
          /\ \A q \in Proc : q # p => SessionRows(q)' = SessionRows(q)
          /\ \A q \in Proc : \A i \in SessionRows(q) : audit_event'[i] = audit_event[i]
      BY <1>1, <1>2, <1>3, <1>4, <1>8, InsertKeepsOrder
    <2>2. BufferOrdered(p)'
      <3>1. \A i \in SessionRows(p)' : audit_event'[i].event \in 1..emitted[p]
        BY <1>3, <1>7, <2>1 DEF BufferOrdered
      <3>2. \A i \in SessionRows(p)' : \A j \in (k + 1)..Len(s) : audit_event'[i].event < s[j]
        <4>1. \A i \in SessionRows(p) : \A j \in (k + 1)..Len(s) : audit_event[i].event < s[j]
          BY <1>1, <1>3 DEF BufferOrdered
        <4> QED
          BY <1>5, <2>1, <4>1
      <3>3. k <= Len(s)
        BY <1>1
      <3> QED
        BY <1>2, <1>3, <3>1, <3>2, <3>3 DEF BufferOrdered
    <2>3. Accounted(p)'
      BY <1>2, <1>3, <1>6, <1>8, <2>1 DEF Accounted
    <2>4. ASSUME NEW q \in Proc \ {p}
          PROVE  BufferOrdered(q)' /\ Accounted(q)'
      <3>1. flushed'[q] = flushed[q]
        BY DEF FlushOne, TypeOK
      <3> QED
        BY <1>2, <1>8, <2>1, <3>1, Undisturbed DEF OrderInv
    <2> QED
      BY <2>1, <2>2, <2>3, <2>4 DEF OrderInv
  <1>9. CASE audit_event' = audit_event /\ lost' = [lost EXCEPT ![p] = @ \union {e}]
    <2>1. SessionRows(p)' = SessionRows(p) /\ Stored(p)' = Stored(p)
      BY <1>2, <1>9 DEF SessionRows, Stored, PersistentReady
    <2>2. lost'[p] = lost[p] \union {e}
      BY <1>9 DEF TypeOK
    <2>3. BufferOrdered(p)'
      <3>1. \A i \in SessionRows(p) : \A j \in (k + 1)..Len(s) : audit_event[i].event < s[j]
        BY <1>1, <1>3 DEF BufferOrdered
      <3>2. k <= Len(s)
        BY <1>1
      <3> QED
        BY <1>2, <1>3, <1>9, <2>1, <3>1, <3>2 DEF BufferOrdered
    <2>4. Accounted(p)'
      BY <1>2, <1>3, <1>6, <2>1, <2>2 DEF Accounted
    <2>5. ASSUME NEW q \in Proc \ {p}
          PROVE  BufferOrdered(q)' /\ Accounted(q)'
      <3>1. flushed'[q] = flushed[q] /\ lost'[q] = lost[q]
        BY <1>9 DEF FlushOne, TypeOK
      <3> QED
        BY <1>2, <1>9, <3>1, OthersUndisturbed DEF OrderInv, PersistentReady
    <2> QED
      BY <1>3, <1>9, <2>3, <2>4, <2>5, OrderUntouched DEF OrderInv
  <1> QED
    BY <1>2, <1>8, <1>9 DEF AppendEvent

\* A process gets its session, or does not: it has no rows before and after.
LEMMA OrderUndisturbed ==
  ASSUME TypeOK, ChainInv, OrderInv, NEW p \in Proc,
         OpenFails(p) \/ BootSessionRefused(p) \/ InsertBootSession(p)
  PROVE  OrderInv'
  <1>1. /\ UNCHANGED <<early_events, flushed, audit_event, emitted, lost>>
        /\ ~PersistentReady(p) /\ phase'[p] # "ready"
    BY DEF OpenFails, BootSessionRefused, InsertBootSession, TypeOK, PersistentReady,
           database, history
  <1>2. SessionRows(p) = {}
    BY <1>1 DEF SessionRows
  <1>3. SessionRows(p)' = {}
    <2>1. CASE InsertBootSession(p)
      <3>1. clock \notin boot_session /\ boot_id'[p] = clock
        BY <2>1 DEF InsertBootSession, TypeOK
      <3> QED
        BY <1>1, <3>1 DEF SessionRows, ChainInv, SessionsOpened
    <2>2. CASE OpenFails(p) \/ BootSessionRefused(p)
      <3>1. ~PersistentReady(p)'
        BY <2>2 DEF OpenFails, BootSessionRefused, TypeOK, PersistentReady
      <3> QED
        BY <3>1 DEF SessionRows
    <2> QED
      BY <2>1, <2>2
  <1>4. BufferOrdered(p)' /\ Accounted(p)'
    <2>1. BufferOrdered(p) /\ Accounted(p)
      BY DEF OrderInv
    <2>2. BufferOrdered(p)'
      BY <1>1, <1>3, <2>1 DEF BufferOrdered
    <2>3. Stored(p) = {} /\ Stored(p)' = {} /\ Waiting(p)' = Waiting(p)
      BY <1>1, <1>2, <1>3 DEF Stored, Waiting
    <2> QED
      BY <1>1, <2>1, <2>2, <2>3 DEF Accounted
  <1>5. ASSUME NEW q \in Proc \ {p}
        PROVE  BufferOrdered(q)' /\ Accounted(q)'
    <2>1. phase'[q] = phase[q] /\ boot_id'[q] = boot_id[q]
      BY DEF OpenFails, BootSessionRefused, InsertBootSession, TypeOK
    <2> QED
      BY <1>1, <2>1, OthersUndisturbed DEF OrderInv, PersistentReady
  <1> QED
    BY <1>1, <1>4, <1>5, OrderUntouched DEF OrderInv

\* The buffer that is cleared has been flushed to its end.
LEMMA OrderFlushDone ==
  ASSUME TypeOK, OrderInv, NEW p \in Proc, FlushDone(p)
  PROVE  OrderInv'
  <1>1. /\ UNCHANGED <<boot_id, audit_event, emitted, lost>>
        /\ PersistentReady(p) /\ PersistentReady(p)'
        /\ early_events'[p] = <<>> /\ flushed'[p] = 0
        /\ flushed[p] = Len(early_events[p])
    BY DEF FlushDone, TypeOK, PersistentReady, database, history
  <1>2. SessionRows(p)' = SessionRows(p) /\ Stored(p)' = Stored(p)
    BY <1>1 DEF SessionRows, Stored
  <1>3. Waiting(p) = {} /\ Waiting(p)' = {}
    <2>1. Len(early_events[p]) \in Nat
      BY DEF TypeOK
    <2> QED
      BY <1>1, <2>1 DEF Waiting
  <1>4. BufferOrdered(p)' /\ Accounted(p)'
    <2>1. BufferOrdered(p) /\ Accounted(p)
      BY DEF OrderInv
    <2>2. BufferOrdered(p)'
      BY <1>1, <1>2, <2>1 DEF BufferOrdered
    <2> QED
      BY <1>1, <1>2, <1>3, <2>1, <2>2 DEF Accounted
  <1>5. ASSUME NEW q \in Proc \ {p}
        PROVE  BufferOrdered(q)' /\ Accounted(q)'
    <2>1. /\ phase'[q] = phase[q] /\ early_events'[q] = early_events[q]
          /\ flushed'[q] = flushed[q]
      BY DEF FlushDone, TypeOK
    <2> QED
      BY <1>1, <2>1, OthersUndisturbed DEF OrderInv, PersistentReady
  <1> QED
    BY <1>1, <1>4, <1>5, OrderUntouched DEF OrderInv

\* A step that changes nothing but the clock.
LEMMA OrderIdle ==
  ASSUME OrderInv, UNCHANGED <<memory, database, history>>
  PROVE  OrderInv'
  <1>1. UNCHANGED <<phase, boot_id, early_events, flushed, audit_event, emitted, lost>>
    BY DEF memory, database, history
  <1>2. ASSUME NEW q \in Proc
        PROVE  BufferOrdered(q)' /\ Accounted(q)'
    BY <1>1, OthersUndisturbed DEF OrderInv, PersistentReady
  <1> QED
    BY <1>1, <1>2, OrderUntouched DEF OrderInv

LEMMA OrderInvariance ==
  ASSUME TypeOK, HasBootId, ChainInv, OrderInv, [Next]_vars
  PROVE  OrderInv'
  <1>1. ASSUME NEW p \in Proc, EarlyBufferInit(p)
        PROVE  OrderInv'
    BY <1>1, OrderForget DEF EarlyBufferInit
  <1>2. ASSUME NEW p \in Proc, Exit(p)
        PROVE  OrderInv'
    BY <1>2, OrderForget DEF Exit
  <1>3. ASSUME NEW p \in Proc,
               OpenFails(p) \/ BootSessionRefused(p) \/ InsertBootSession(p)
        PROVE  OrderInv'
    BY <1>3, OrderUndisturbed
  <1>4. ASSUME NEW t \in Second, SetClock(t)
        PROVE  OrderInv'
    BY <1>4, OrderIdle DEF SetClock
  <1>5. CASE UNCHANGED vars
    BY <1>5, OrderIdle DEF vars
  <1> QED
    BY <1>1, <1>2, <1>3, <1>4, <1>5, OrderEmitEarly, OrderEmitPersistent,
       OrderFlushOne, OrderFlushDone DEF Next

LEMMA OrderInit == Init => OrderInv
  <1> SUFFICES ASSUME Init PROVE OrderInv
    OBVIOUS
  <1>1. EmissionOrder
    BY DEF Init, EmissionOrder
  <1>2. ASSUME NEW p \in Proc
        PROVE  BufferOrdered(p) /\ Accounted(p)
    <2>1. /\ phase[p] = "off" /\ early_events[p] = <<>> /\ flushed[p] = 0
          /\ emitted[p] = 0 /\ lost[p] = {}
      BY DEF Init
    <2>2. SessionRows(p) = {}
      BY <2>1 DEF SessionRows, PersistentReady
    <2>3. Stored(p) = {} /\ Waiting(p) = {}
      BY <2>1, <2>2 DEF Stored, Waiting
    <2> QED
      BY <2>1, <2>2, <2>3 DEF BufferOrdered, Accounted
  <1> QED
    BY <1>1, <1>2 DEF OrderInv

LEMMA OrderInvariant == Spec => [](TypeOK /\ HasBootId /\ ChainInv /\ OrderInv)
  <1>1. Init => OrderInv
    BY OrderInit
  <1>2. TypeOK /\ HasBootId /\ ChainInv /\ OrderInv /\ [Next]_vars => OrderInv'
    BY OrderInvariance
  <1> QED
    BY <1>1, <1>2, ChainInvariant, PTL DEF Spec

\* The rows of a session are in the order of emission: the flush replays the
\* buffer from its start, and a later call is stored after it.
THEOREM AlwaysInOrder == Spec => []EmissionOrder
  <1>1. OrderInv => EmissionOrder
    BY DEF OrderInv
  <1> QED
    BY <1>1, OrderInvariant, PTL

\* No event is stored twice, and none is missing that was not turned away.
THEOREM AlwaysAccounted == Spec => []EventsAccounted
  <1>1. OrderInv => EventsAccounted
    BY DEF OrderInv, EventsAccounted
  <1> QED
    BY <1>1, OrderInvariant, PTL

-----------------------------------------------------------------------------
(* The database behaves as AuditLog promises. *)

\* The entries of a table, as a sequence.
LEMMA EntriesSeq ==
  ASSUME TypeOK
  PROVE  /\ Len(audit_event) \in Nat
         /\ DOMAIN audit_event = 1..Len(audit_event)
         /\ DOMAIN Entries = 1..Len(audit_event)
         /\ Entries \in Seq([session : Second, seq : Nat, event : Nat])
         /\ Len(Entries) = Len(audit_event)
  <1>1. /\ Len(audit_event) \in Nat /\ DOMAIN audit_event = 1..Len(audit_event)
        /\ \A i \in 1..Len(audit_event) : audit_event[i] \in Row
    BY DEF TypeOK
  <1>2. Entries \in [1..Len(audit_event) -> [session : Second, seq : Nat, event : Nat]]
    BY <1>1 DEF Entries, Row
  <1>3. Entries \in Seq([session : Second, seq : Nat, event : Nat])
    BY <1>1, <1>2, SeqDef
  <1>4. DOMAIN Entries = 1..Len(audit_event)
    BY <1>2
  <1>5. Len(Entries) = Len(audit_event)
    BY <1>1, <1>3, <1>4, LenProperties
  <1> QED
    BY <1>1, <1>3, <1>4, <1>5

\* A stored event is one step of the abstract log.
LEMMA InsertRecords ==
  ASSUME TypeOK, TypeOK', HasBootId, ChainInv, OrderInv, NEW p \in Proc, PersistentReady(p),
         NEW e \in Nat \ {0}, \A i \in SessionRows(p) : audit_event[i].event < e,
         audit_event' = Append(audit_event, NewRow(p, e)),
         UNCHANGED <<phase, boot_id, boot_session>>
  PROVE  Log!Record
  <1> DEFINE n == Len(audit_event)
             r == NewRow(p, e)
             x == [session |-> boot_id[p], seq |-> event_seq[p] + 1, event |-> e]
  <1>1. /\ n \in Nat /\ DOMAIN audit_event = 1..n
        /\ DOMAIN audit_event' = 1..(n + 1)
        /\ \A i \in 1..n : audit_event'[i] = audit_event[i]
        /\ audit_event'[n + 1] = r
    BY InsertedRow
  <1>2. event_seq[p] \in Nat /\ boot_id[p] \in Second
    BY DEF TypeOK, HasBootId
  <1>3. r.boot_id = boot_id[p] /\ r.event_seq = event_seq[p] + 1 /\ r.event = e
    BY DEF NewRow
  <1>4. x \in Log!Entry
    BY <1>2 DEF Log!Entry
  <1>5. /\ DOMAIN Entries = 1..n /\ Len(Entries) = n
        /\ Entries \in Seq([session : Second, seq : Nat, event : Nat])
        /\ \A i \in 1..n : /\ Entries[i].session = audit_event[i].boot_id
                           /\ Entries[i].seq = audit_event[i].event_seq
                           /\ Entries[i].event = audit_event[i].event
    BY <1>1, EntriesSeq DEF Entries
  <1>6. Entries' = Append(Entries, x) /\ Len(Entries') = n + 1 /\ Entries'[n + 1] = x
    <2>1. x \in [session : Second, seq : Nat, event : Nat]
      BY <1>2
    <2>2. /\ DOMAIN Append(Entries, x) = 1..(n + 1)
          /\ Len(Append(Entries, x)) = n + 1
          /\ \A i \in 1..n : Append(Entries, x)[i] = Entries[i]
          /\ Append(Entries, x)[n + 1] = x
      BY <1>1, <1>5, <2>1, AppendElements
    <2>3. Entries' = [i \in 1..(n + 1) |-> [session |-> audit_event'[i].boot_id,
                                            seq     |-> audit_event'[i].event_seq,
                                            event   |-> audit_event'[i].event]]
      BY <1>1 DEF Entries
    <2>4. \A i \in 1..(n + 1) : i \in 1..n \/ i = n + 1
      BY <1>1
    <2>5. \A i \in 1..(n + 1) : Entries'[i] = Append(Entries, x)[i]
      <3>1. Entries'[n + 1] = x
        BY <1>1, <1>3, <2>3
      <3>2. \A i \in 1..n : Entries'[i] = Entries[i]
        BY <1>1, <2>3 DEF Entries
      <3> QED
        BY <2>2, <2>4, <3>1, <3>2
    <2>6. Append(Entries, x) \in Seq([session : Second, seq : Nat, event : Nat])
      BY <1>5, <2>1
    <2>7. Entries' = Append(Entries, x)
      BY <1>1, <2>2, <2>3, <2>5, <2>6
    <2> QED
      BY <2>2, <2>7
  <1>7. x.session = boot_id[p] /\ x.seq = event_seq[p] + 1 /\ x.event = e
    OBVIOUS
  <1>8. boot_id[p] \in boot_session
    BY DEF ChainInv, SessionsOpened
  <1>9. \A i \in 1..n : Entries[i].session = boot_id[p] =>
          Entries[i].seq < event_seq[p] + 1 /\ Entries[i].event < e
    <2> SUFFICES ASSUME NEW i \in 1..n, Entries[i].session = boot_id[p]
                 PROVE  Entries[i].seq < event_seq[p] + 1 /\ Entries[i].event < e
      OBVIOUS
    <2>1. i \in SessionRows(p)
      BY <1>1, <1>5 DEF SessionRows
    <2>2. audit_event[i].event_seq <= event_seq[p]
      BY <2>1 DEF ChainInv, MemoryIsTip
    <2>3. audit_event[i].event_seq \in Nat
      <3>1. audit_event[i] \in Row
        BY <1>1 DEF TypeOK
      <3> QED
        BY <3>1 DEF Row
    <2>4. Entries[i].seq = audit_event[i].event_seq /\ Entries[i].event = audit_event[i].event
      BY <1>5
    <2>5. Entries[i].seq < event_seq[p] + 1
      BY <1>2, <2>2, <2>3, <2>4
    <2>6. Entries[i].event < e
      BY <2>1, <2>4
    <2> QED
      BY <2>5, <2>6
  <1>10. event_seq[p] = 0 \/ \E i \in 1..n : /\ Entries[i].session = boot_id[p]
                                             /\ Entries[i].seq + 1 = event_seq[p] + 1
    <2>1. CASE event_seq[p] # 0
      <3>1. PICK i \in SessionRows(p) : audit_event[i].event_seq = event_seq[p]
        BY <2>1 DEF ChainInv, MemoryIsTip
      <3> QED
        BY <1>1, <1>5, <3>1 DEF SessionRows
    <2> QED
      BY <2>1
  <1>11. Entries'[Len(Entries')] = x
    BY <1>6
  <1>12. Len(Entries') = Len(Entries) + 1
    BY <1>5, <1>6
  <1>13. x.seq = 1 \/ \E i \in DOMAIN Entries : /\ Entries[i].session = x.session
                                              /\ Entries[i].seq + 1 = x.seq
    <2>1. CASE event_seq[p] = 0
      BY <1>7, <2>1
    <2>2. CASE \E i \in 1..n : /\ Entries[i].session = boot_id[p]
                              /\ Entries[i].seq + 1 = event_seq[p] + 1
      BY <1>5, <1>7, <2>2
    <2> QED
      BY <1>10, <2>1, <2>2
  <1>14. \A i \in DOMAIN Entries : Entries[i].session = x.session =>
           Entries[i].seq < x.seq /\ Entries[i].event < x.event
    BY <1>5, <1>7, <1>9
  <1>15. Entries' = Append(Entries, x) /\ x.session \in boot_session
    BY <1>6, <1>7, <1>8
  <1> HIDE DEF x
  <1> QED
    BY <1>4, <1>11, <1>12, <1>13, <1>14, <1>15 DEF Log!Record

\* What AppendEvent does to the table is a step of the log or nothing.
LEMMA AppendRecords ==
  ASSUME TypeOK, TypeOK', HasBootId, ChainInv, OrderInv, NEW p \in Proc, PersistentReady(p),
         NEW e \in Nat \ {0}, \A i \in SessionRows(p) : audit_event[i].event < e,
         AppendEvent(p, e), UNCHANGED <<phase, boot_id, boot_session>>
  PROVE  Log!Record \/ UNCHANGED <<boot_session, Entries>>
  <1>1. CASE audit_event' = audit_event
    BY <1>1 DEF Entries
  <1> QED
    BY <1>1, InsertRecords DEF AppendEvent

LEMMA StepRefines ==
  ASSUME TypeOK, TypeOK', HasBootId, ChainInv, OrderInv, [Next]_vars
  PROVE  [Log!Next]_Log!vars
  <1>1. CASE UNCHANGED database
    <2>1. UNCHANGED <<boot_session, Entries>>
      BY <1>1 DEF database, Entries
    <2> QED
      BY <2>1 DEF Log!vars
  <1>2. ASSUME NEW p \in Proc, EmitPersistent(p)
        PROVE  [Log!Next]_Log!vars
    <2>1. /\ emitted[p] + 1 \in Nat \ {0} /\ AppendEvent(p, emitted[p] + 1)
          /\ PersistentReady(p) /\ UNCHANGED <<phase, boot_id, boot_session>>
      BY <1>2 DEF EmitPersistent, TypeOK, PersistentReady
    <2>2. \A i \in SessionRows(p) : audit_event[i].event < emitted[p] + 1
      <3>1. \A i \in SessionRows(p) : audit_event[i].event \in 1..emitted[p]
        BY DEF OrderInv, BufferOrdered
      <3> QED
        BY <3>1 DEF TypeOK
    <2> QED
      BY <2>1, <2>2, AppendRecords DEF Log!Next, Log!vars
  <1>3. ASSUME NEW p \in Proc, FlushOne(p)
        PROVE  [Log!Next]_Log!vars
    <2> DEFINE e == early_events[p][flushed[p] + 1]
    <2>1. /\ AppendEvent(p, e) /\ PersistentReady(p)
          /\ UNCHANGED <<phase, boot_id, boot_session>>
      BY <1>3 DEF FlushOne, PersistentReady
    <2>2. /\ flushed[p] \in Nat /\ early_events[p] \in Seq(Nat) /\ emitted[p] \in Nat
          /\ Len(early_events[p]) \in Nat
          /\ flushed[p] + 1 \in (flushed[p] + 1)..Len(early_events[p])
          /\ flushed[p] + 1 \in DOMAIN early_events[p]
      BY <1>3 DEF FlushOne, TypeOK
    <2>3. BufferOrdered(p)
      BY DEF OrderInv
    <2>4. e \in 1..emitted[p]
      BY <2>2, <2>3 DEF BufferOrdered
    <2>5. \A i \in SessionRows(p) : audit_event[i].event < e
      BY <2>2, <2>3 DEF BufferOrdered
    <2>6. e \in Nat \ {0}
      BY <2>2, <2>4
    <2> HIDE DEF e
    <2> QED
      BY <2>1, <2>5, <2>6, AppendRecords DEF Log!Next, Log!vars
  <1>4. ASSUME NEW p \in Proc, InsertBootSession(p)
        PROVE  [Log!Next]_Log!vars
    <2>1. Log!Open(clock)
      BY <1>4 DEF InsertBootSession, Log!Open, Entries
    <2> QED
      BY <2>1 DEF Log!Next, TypeOK
  <1>5. ASSUME NEW p \in Proc,
               \/ EarlyBufferInit(p) \/ EmitEarly(p) \/ OpenFails(p)
               \/ BootSessionRefused(p) \/ FlushDone(p) \/ Exit(p)
        PROVE  UNCHANGED database
    BY <1>5 DEF EarlyBufferInit, EmitEarly, OpenFails, BootSessionRefused, FlushDone,
                Exit, database
  <1>6. ASSUME NEW t \in Second, SetClock(t)
        PROVE  UNCHANGED database
    BY <1>6 DEF SetClock
  <1>7. CASE UNCHANGED vars
    BY <1>1, <1>7 DEF vars
  <1> QED
    BY <1>1, <1>2, <1>3, <1>4, <1>5, <1>6, <1>7 DEF Next

\* Early buffer, failed inserts, crashes and competing processes are invisible
\* in the database: it is the append-only log that AuditLog specifies.
THEOREM ChainImplementsLog == Spec => ImplementsAuditLog
  <1>1. Init => Log!Init
    BY DEF Init, Log!Init, Entries
  <1>2. /\ TypeOK /\ HasBootId /\ ChainInv /\ OrderInv /\ TypeOK'
        /\ [Next]_vars
        => [Log!Next]_Log!vars
    BY StepRefines
  <1> QED
    BY <1>1, <1>2, OrderInvariant, PTL DEF Spec, ImplementsAuditLog, Log!Spec
=============================================================================
