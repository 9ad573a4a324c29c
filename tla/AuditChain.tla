----------------------------- MODULE AuditChain -----------------------------
(***************************************************************************)
(* The hosted audit subsystem, kernel/audit_core.c: a process buffers the  *)
(* events it emits until the SQLite backend is up, then flushes them and   *)
(* goes on inserting each event as one row of a hash chain that starts     *)
(* afresh with every boot session.                                         *)
(*                                                                         *)
(* The database file outlives the processes. Several processes may have it *)
(* open at once (two consoles started in one directory); nothing in the    *)
(* code prevents it and SQLite serialises the statements, so a step of a   *)
(* process is one SQL statement with the assignments around it.            *)
(*                                                                         *)
(* Abstractions.                                                           *)
(*  - An event (type, summary, monotonic time) is its position among the   *)
(*    calls of audit_emit_boot_event in its process.                       *)
(*  - SHA-256 is collision free: a digest is what it commits to, the links *)
(*    of the chain up to and including the hashed payload. The payload     *)
(*    determines its fields: boot id, number, time and digest hold no '|', *)
(*    no event type of the code does, so the summary is what is left; the  *)
(*    longest summary the code emits keeps it below the 1024-byte buffer.  *)
(*  - An insert may fail (SQLITE_BUSY, a full disk) whenever it is tried.  *)
(***************************************************************************)
EXTENDS Integers, Sequences

CONSTANTS
  Proc,        \* the processes that may have the database open
  Second,      \* the values time(NULL) can return, hence the boot ids
  EARLY_MAX,   \* AUDIT_EARLY_MAX_EVENTS, the capacity of the early buffer
  MAX_EMIT     \* bound: the events a process emits in one boot

ASSUME EarlyMaxAssumption == EARLY_MAX \in Nat
ASSUME SecondAssumption   == Second \subseteq Nat \ {0}

VARIABLES
  \* g_audit, the memory of each process
  phase,         \* where in its life the process is, see Phase
  boot_id,       \* the second from which the boot id is made
  event_seq,     \* the number of the last event inserted
  prev_hash,     \* the digest of the last event inserted
  early_events,  \* the early buffer; its length is early_count
  flushed,       \* the loop index i of the flush
  \* the database file
  boot_session,  \* the primary keys of the table boot_session
  audit_event,   \* the rows of the table audit_event, by their AUTOINCREMENT id
  \* the environment, and history that no code reads
  clock,         \* the time of day, in seconds
  emitted,       \* how many events the process has emitted since it started
  lost           \* which of them were neither buffered nor inserted

memory   == <<phase, boot_id, event_seq, prev_hash, early_events, flushed>>
database == <<boot_session, audit_event>>
history  == <<emitted, lost>>
vars     == <<memory, database, clock, history>>

\* boot_id[0] == 0: no boot id has been made.
NoBoot == 0

\* persistent_ready is false in "early" and "restricted", true in "flush" and
\* "ready"; "restricted" is "early" after the one call of
\* audit_init_persistent_backend has failed.
Phase == {"off", "early", "flush", "ready", "restricted"}

PersistentReady(p) == phase[p] \in {"flush", "ready"}

Link   == [boot : Second, seq : Nat, event : Nat]
Digest == Seq(Link)
Row    == [boot_id : Second, event_seq : Nat, event : Nat,
           prev_hash : Digest, event_hash : Digest]

\* prev_hash[0] == 0: no event of this session has been inserted.
NoDigest == <<>>

HashHex(boot, seq, event, prev) ==
  Append(prev, [boot |-> boot, seq |-> seq, event |-> event])

NewRow(p, event) ==
  [boot_id    |-> boot_id[p],
   event_seq  |-> event_seq[p] + 1,
   event      |-> event,
   prev_hash  |-> prev_hash[p],
   event_hash |-> HashHex(boot_id[p], event_seq[p] + 1, event, prev_hash[p])]

-----------------------------------------------------------------------------
Init ==
  /\ phase        = [p \in Proc |-> "off"]
  /\ boot_id      = [p \in Proc |-> NoBoot]
  /\ event_seq    = [p \in Proc |-> 0]
  /\ prev_hash    = [p \in Proc |-> NoDigest]
  /\ early_events = [p \in Proc |-> <<>>]
  /\ flushed      = [p \in Proc |-> 0]
  /\ boot_session = {}
  /\ audit_event  = <<>>
  /\ clock \in Second
  /\ emitted      = [p \in Proc |-> 0]
  /\ lost         = [p \in Proc |-> {}]

\* The process has memory of its own no longer: it is zeroed when the next one
\* starts, and nothing reads it until then.
Forget(p, next) ==
  /\ phase'        = [phase EXCEPT ![p] = next]
  /\ boot_id'      = [boot_id EXCEPT ![p] = NoBoot]
  /\ event_seq'    = [event_seq EXCEPT ![p] = 0]
  /\ prev_hash'    = [prev_hash EXCEPT ![p] = NoDigest]
  /\ early_events' = [early_events EXCEPT ![p] = <<>>]
  /\ flushed'      = [flushed EXCEPT ![p] = 0]
  /\ emitted'      = [emitted EXCEPT ![p] = 0]
  /\ lost'         = [lost EXCEPT ![p] = {}]

\* audit_early_buffer_init, the first thing kmain does with the subsystem.
EarlyBufferInit(p) ==
  /\ phase[p] = "off"
  /\ Forget(p, "early")
  /\ UNCHANGED <<database, clock>>

\* Mutant of AppendEvent: the number is not taken back when the insert fails.
AppendEventNumberKept(p, event) ==
  \/ /\ audit_event' = Append(audit_event, NewRow(p, event))
     /\ event_seq'   = [event_seq EXCEPT ![p] = @ + 1]
     /\ prev_hash'   = [prev_hash EXCEPT ![p] = NewRow(p, event).event_hash]
     /\ lost'        = lost
  \/ /\ lost'      = [lost EXCEPT ![p] = @ \union {event}]
     /\ event_seq' = [event_seq EXCEPT ![p] = @ + 1]
     /\ UNCHANGED <<audit_event, prev_hash>>

\* Mutant of AppendEvent: the number is taken back before it was given out.
AppendEventRollbackTwice(p, event) ==
  \/ /\ audit_event' = Append(audit_event, NewRow(p, event))
     /\ event_seq'   = [event_seq EXCEPT ![p] = @ + 1]
     /\ prev_hash'   = [prev_hash EXCEPT ![p] = NewRow(p, event).event_hash]
     /\ lost'        = lost
  \/ /\ lost'      = [lost EXCEPT ![p] = @ \union {event}]
     /\ event_seq' = [event_seq EXCEPT ![p] = @ - 1]
     /\ UNCHANGED <<audit_event, prev_hash>>

\* Mutant of AppendEvent: a row that was refused still becomes the predecessor.
AppendEventHashKept(p, event) ==
  /\ prev_hash' = [prev_hash EXCEPT ![p] = NewRow(p, event).event_hash]
  /\ \/ /\ audit_event' = Append(audit_event, NewRow(p, event))
        /\ event_seq'   = [event_seq EXCEPT ![p] = @ + 1]
        /\ lost'        = lost
     \/ /\ lost' = [lost EXCEPT ![p] = @ \union {event}]
        /\ UNCHANGED <<audit_event, event_seq>>

\* append_event_internal: the number is taken back when the insert fails, and
\* only a stored row becomes the predecessor of the next one.
AppendEvent(p, event) ==
  \/ /\ audit_event' = Append(audit_event, NewRow(p, event))
     /\ event_seq'   = [event_seq EXCEPT ![p] = @ + 1]
     /\ prev_hash'   = [prev_hash EXCEPT ![p] = NewRow(p, event).event_hash]
     /\ lost'        = lost
  \/ /\ lost' = [lost EXCEPT ![p] = @ \union {event}]
     /\ UNCHANGED <<audit_event, event_seq, prev_hash>>

\* audit_emit_boot_event while there is no backend: the buffer keeps the first
\* EARLY_MAX events and drops every later one without a trace.
EmitEarly(p) ==
  /\ phase[p] \in {"early", "restricted"}
  /\ emitted[p] < MAX_EMIT
  /\ emitted' = [emitted EXCEPT ![p] = @ + 1]
  /\ IF Len(early_events[p]) < EARLY_MAX
     THEN /\ early_events' = [early_events EXCEPT ![p] = Append(@, emitted[p] + 1)]
          /\ lost' = lost
     ELSE /\ lost' = [lost EXCEPT ![p] = @ \union {emitted[p] + 1}]
          /\ early_events' = early_events
  /\ UNCHANGED <<phase, boot_id, event_seq, prev_hash, flushed, database, clock>>

\* audit_emit_boot_event with the backend up; its result is not looked at.
EmitPersistent(p) ==
  /\ phase[p] = "ready"
  /\ emitted[p] < MAX_EMIT
  /\ emitted' = [emitted EXCEPT ![p] = @ + 1]
  /\ AppendEvent(p, emitted[p] + 1)
  /\ UNCHANGED <<phase, boot_id, early_events, flushed, boot_session, clock>>

\* audit_init_persistent_backend returns before it has made a boot id: the
\* database, the schema or its missing columns could not be had.
OpenFails(p) ==
  /\ phase[p] = "early"
  /\ phase' = [phase EXCEPT ![p] = "restricted"]
  /\ UNCHANGED <<boot_id, event_seq, prev_hash, early_events, flushed,
                 database, clock, history>>

\* ... or because boot_session has a row with this boot id, or the insert
\* failed: the boot id stays behind in memory.
BootSessionRefused(p) ==
  /\ phase[p] = "early"
  /\ phase'   = [phase EXCEPT ![p] = "restricted"]
  /\ boot_id' = [boot_id EXCEPT ![p] = clock]
  /\ UNCHANGED <<event_seq, prev_hash, early_events, flushed,
                 database, clock, history>>

\* Mutant of InsertBootSession: INSERT OR REPLACE, as the other tables use.
InsertBootSessionReplace(p) ==
  /\ phase[p] = "early"
  /\ phase'        = [phase EXCEPT ![p] = "flush"]
  /\ boot_id'      = [boot_id EXCEPT ![p] = clock]
  /\ boot_session' = boot_session \union {clock}
  /\ UNCHANGED <<event_seq, prev_hash, early_events, flushed,
                 audit_event, clock, history>>

\* insert_boot_session succeeds only on a boot id the table does not hold.
InsertBootSession(p) ==
  /\ phase[p] = "early"
  /\ clock \notin boot_session
  /\ phase'        = [phase EXCEPT ![p] = "flush"]
  /\ boot_id'      = [boot_id EXCEPT ![p] = clock]
  /\ boot_session' = boot_session \union {clock}
  /\ UNCHANGED <<event_seq, prev_hash, early_events, flushed,
                 audit_event, clock, history>>

\* Mutant of FlushOne: the buffer is replayed from its end.
FlushOneBackwards(p) ==
  /\ phase[p] = "flush"
  /\ flushed[p] < Len(early_events[p])
  /\ AppendEvent(p, early_events[p][Len(early_events[p]) - flushed[p]])
  /\ flushed' = [flushed EXCEPT ![p] = @ + 1]
  /\ UNCHANGED <<phase, boot_id, early_events, boot_session, clock, emitted>>

\* One turn of the loop that replays the buffer; a failed insert is skipped.
FlushOne(p) ==
  /\ phase[p] = "flush"
  /\ flushed[p] < Len(early_events[p])
  /\ AppendEvent(p, early_events[p][flushed[p] + 1])
  /\ flushed' = [flushed EXCEPT ![p] = @ + 1]
  /\ UNCHANGED <<phase, boot_id, early_events, boot_session, clock, emitted>>

\* Mutant of FlushDone: early_count keeps its value.
FlushDoneKeepsBuffer(p) ==
  /\ phase[p] = "flush"
  /\ flushed[p] = Len(early_events[p])
  /\ phase'   = [phase EXCEPT ![p] = "ready"]
  /\ flushed' = [flushed EXCEPT ![p] = 0]
  /\ UNCHANGED <<boot_id, event_seq, prev_hash, early_events, database, clock, history>>

\* early_count = 0 and the return to kmain.
FlushDone(p) ==
  /\ phase[p] = "flush"
  /\ flushed[p] = Len(early_events[p])
  /\ phase'        = [phase EXCEPT ![p] = "ready"]
  /\ early_events' = [early_events EXCEPT ![p] = <<>>]
  /\ flushed'      = [flushed EXCEPT ![p] = 0]
  /\ UNCHANGED <<boot_id, event_seq, prev_hash, database, clock, history>>

\* The process ends, in an orderly way or not, between any two statements.
Exit(p) ==
  /\ phase[p] # "off"
  /\ Forget(p, "off")
  /\ UNCHANGED <<database, clock>>

\* Time passes, or the clock is set, back as well as forward.
SetClock(t) ==
  /\ clock' = t
  /\ UNCHANGED <<memory, database, history>>

Next ==
  \/ \E p \in Proc :
       \/ EarlyBufferInit(p)
       \/ EmitEarly(p)
       \/ EmitPersistent(p)
       \/ OpenFails(p)
       \/ BootSessionRefused(p)
       \/ InsertBootSession(p)
       \/ FlushOne(p)
       \/ FlushDone(p)
       \/ Exit(p)
  \/ \E t \in Second : SetClock(t)

Spec == Init /\ [][Next]_vars

-----------------------------------------------------------------------------
(* What must hold *)

\* Every variable stays in its domain.
TypeOK ==
  /\ phase        \in [Proc -> Phase]
  /\ boot_id      \in [Proc -> Second \union {NoBoot}]
  /\ event_seq    \in [Proc -> Nat]
  /\ prev_hash    \in [Proc -> Digest]
  /\ early_events \in [Proc -> Seq(Nat)]
  /\ flushed      \in [Proc -> Nat]
  /\ boot_session \in SUBSET Second
  /\ audit_event  \in Seq(Row)
  /\ clock        \in Second
  /\ emitted      \in [Proc -> Nat]
  /\ lost         \in [Proc -> SUBSET Nat]

\* A row agrees with its digest, and follows the row of its session that
\* carries the number before its own and the digest it names: what
\* tools/test/smoke-audit.sh recomputes.
RowChained(i) ==
  LET r == audit_event[i] IN
    /\ r.event_hash = HashHex(r.boot_id, r.event_seq, r.event, r.prev_hash)
    /\ IF r.event_seq = 1
       THEN r.prev_hash = NoDigest
       ELSE \E j \in 1..(i - 1) :
              /\ audit_event[j].boot_id = r.boot_id
              /\ audit_event[j].event_seq + 1 = r.event_seq
              /\ audit_event[j].event_hash = r.prev_hash

\* Every session in the database is one unbroken chain, whatever inserts
\* failed and whichever process was cut off in the middle of its flush.
ChainsIntact ==
  /\ \A i \in DOMAIN audit_event :
       audit_event[i].boot_id \in boot_session /\ RowChained(i)
  /\ \A i, j \in DOMAIN audit_event :
       i < j /\ audit_event[i].boot_id = audit_event[j].boot_id
         => audit_event[i].event_seq < audit_event[j].event_seq

\* The rows of a session stand in the order in which their events happened,
\* those buffered before the backend was up included.
EmissionOrder ==
  \A i, j \in DOMAIN audit_event :
    i < j /\ audit_event[i].boot_id = audit_event[j].boot_id
      => audit_event[i].event < audit_event[j].event

\* Two processes never write to one session, even when they came up in the
\* same second: the primary key of boot_session decides.
OneWriterPerSession ==
  \A p, q \in Proc :
    PersistentReady(p) /\ PersistentReady(q) /\ boot_id[p] = boot_id[q] => p = q

\* The events of p's session that are in the database, and those that wait in
\* its buffer.
SessionRows(p) ==
  {i \in DOMAIN audit_event : PersistentReady(p) /\ audit_event[i].boot_id = boot_id[p]}
Stored(p)  == {audit_event[i].event : i \in SessionRows(p)}
Waiting(p) == {early_events[p][i] : i \in (flushed[p] + 1)..Len(early_events[p])}

Accounted(p) ==
  /\ Stored(p) \union Waiting(p) \union lost[p] = 1..emitted[p]
  /\ Stored(p) \intersect Waiting(p) = {}
  /\ (Stored(p) \union Waiting(p)) \intersect lost[p] = {}

\* Every event a live process has emitted is stored, waits to be stored or was
\* turned away, and is only one of the three: no event is stored twice or
\* disappears between the buffer and the table.
EventsAccounted == \A p \in Proc : Accounted(p)

-----------------------------------------------------------------------------
(* What must be added to these properties to make them inductive;              *)
(* AuditChainProofs puts the parts together.                                   *)

\* A process that has no session has nothing in memory of one.
FreshMemory ==
  \A p \in Proc : ~PersistentReady(p) =>
    event_seq[p] = 0 /\ prev_hash[p] = NoDigest /\ flushed[p] = 0

\* A session that is written to has its row in boot_session, and so has every
\* session with rows in audit_event.
SessionsOpened ==
  /\ \A p \in Proc : PersistentReady(p) => boot_id[p] \in boot_session
  /\ \A i \in DOMAIN audit_event : audit_event[i].boot_id \in boot_session

\* The memory of a writer describes the last row of its session.
MemoryIsTip ==
  \A p \in Proc : PersistentReady(p) =>
    /\ \A i \in SessionRows(p) : audit_event[i].event_seq <= event_seq[p]
    /\ IF event_seq[p] = 0
       THEN prev_hash[p] = NoDigest /\ SessionRows(p) = {}
       ELSE \E i \in SessionRows(p) :
              /\ audit_event[i].event_seq = event_seq[p]
              /\ audit_event[i].event_hash = prev_hash[p]

\* The buffer holds distinct events in the order of their emission; those still
\* to be flushed happened after every stored one, and none lies in the future.
BufferOrdered(p) ==
  /\ \A i, j \in DOMAIN early_events[p] :
       i < j => early_events[p][i] < early_events[p][j]
  /\ \A i \in DOMAIN early_events[p] : early_events[p][i] \in 1..emitted[p]
  /\ flushed[p] <= Len(early_events[p])
  /\ phase[p] = "ready" => early_events[p] = <<>>
  /\ \A i \in SessionRows(p) : audit_event[i].event \in 1..emitted[p]
  /\ \A i \in SessionRows(p) : \A j \in (flushed[p] + 1)..Len(early_events[p]) :
       audit_event[i].event < early_events[p][j]

-----------------------------------------------------------------------------
\* The database, read as AuditLog describes it.
Entries == [i \in DOMAIN audit_event |->
              [session |-> audit_event[i].boot_id,
               seq     |-> audit_event[i].event_seq,
               event   |-> audit_event[i].event]]

Log == INSTANCE AuditLog WITH Session <- Second, opened <- boot_session, log <- Entries

\* Whatever the processes do, the database behaves as an append-only log.
ImplementsAuditLog == Log!Spec
=============================================================================
