------------------------------ MODULE AuditLog ------------------------------
(***************************************************************************)
(* What the audit subsystem of VitaOS promises to a reader of its SQLite   *)
(* database, whatever happens to the processes that write it: boot         *)
(* sessions are opened once and never reopened, the event table only       *)
(* grows, every session's events are numbered 1, 2, 3, ... without a gap   *)
(* and stand in the table in the order in which they happened.             *)
(*                                                                         *)
(* AuditChain, the translation of kernel/audit_core.c, implements this     *)
(* specification: early buffer, flush, failed inserts, crashes and reboots *)
(* are all hidden here.                                                    *)
(***************************************************************************)
EXTENDS Integers, Sequences

CONSTANT Session    \* the boot ids a session can have

VARIABLES
  opened,           \* the sessions that have a row in boot_session
  log               \* the event table, in the order of its row ids

vars == <<opened, log>>

\* An entry of the table: its session, its number in the session, and when
\* in the session the event happened (the position among all emitted events).
Entry == [session : Session, seq : Nat \ {0}, event : Nat \ {0}]

Init ==
  /\ opened = {}
  /\ log = <<>>

Open(s) ==
  /\ s \notin opened
  /\ opened' = opened \union {s}
  /\ UNCHANGED log

\* One entry is added at the end, and the entries of its session lead up to it.
Record ==
  LET e == log'[Len(log')] IN
    /\ Len(log') = Len(log) + 1
    /\ log' = Append(log, e)
    /\ e \in Entry
    /\ e.session \in opened
    /\ \A i \in DOMAIN log :
         log[i].session = e.session => log[i].seq < e.seq /\ log[i].event < e.event
    /\ \/ e.seq = 1
       \/ \E i \in DOMAIN log : log[i].session = e.session /\ log[i].seq + 1 = e.seq
    /\ UNCHANGED opened

Next ==
  \/ \E s \in Session : Open(s)
  \/ Record

Spec == Init /\ [][Next]_vars
=============================================================================
