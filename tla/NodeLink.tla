------------------------------ MODULE NodeLink ------------------------------
(***************************************************************************)
(* Cooperation with a peer and the human's part in it: kernel/node_core.c, *)
(* kernel/proposal.c, and the tables node_peer, ai_proposal and            *)
(* human_response that kernel/audit_core.c writes for them.                *)
(*                                                                         *)
(* A boot generates the initial proposals, greets the seed endpoint over   *)
(* UDP, listens for a fixed number of receive slots, and then serves the   *)
(* operator's approve and reject commands. The program is one thread, but  *)
(* it can be cut off between any two of its statements, an insert may fail *)
(* (its result is mostly ignored), and the network delivers whatever it    *)
(* likes. A handler therefore assigns to memory and leaves its statements  *)
(* (SQL, sendto) in "todo"; Execute performs them one by one.              *)
(*                                                                         *)
(* Abstractions: a datagram is lost, duplicated or reordered by choosing   *)
(* freely what a receive slot yields. Time stamps and the capability text  *)
(* are left out but for whether capabilities have been received. Events    *)
(* that are only displayed or that no property relates to anything are in  *)
(* AuditChain, which accepts any of them.                                  *)
(***************************************************************************)
EXTENDS Integers, Sequences, FiniteSets, Functions

CONSTANTS
  Peer,              \* the node ids that a HELLO may carry, beside none at all
  InitialProposals,  \* the ids of proposal_generate_initial, a sequence
  RX_SLOTS,          \* how often node_core_start waits for a datagram (4)
  MAX_BOOT,          \* bound: boots of the machine
  MAX_ANSWERS,       \* bound: rows of human_response
  MAX_FAULTS         \* bound: inserts that fail

ASSUME LimitsAssumption == {RX_SLOTS, MAX_BOOT, MAX_ANSWERS, MAX_FAULTS} \subseteq Nat

VARIABLES
  pc,              \* "off", "start", "listen" or "console"
  audit_ready,     \* g_audit.persistent_ready
  todo,            \* the statements the current function has still to execute
  rx,              \* the loop index of the receive loop
  peer,            \* g_peer, or NoPeer while g_peer_valid is false
  pending,         \* g_link_proposal_pending
  status,          \* g_proposals[].status
  sent,            \* what this boot has sent to the seed endpoint
  node_peer, ai_proposal, human_response,   \* the tables
  audited,         \* the operator's link decisions the audit log has accepted
  boot,            \* which boot this is
  offers,          \* history: link proposals of this boot, made and settled by a peer
  faults           \* history: inserts that have failed, this boot and in all

memory == <<pc, audit_ready, todo, rx, peer, pending, status>>
tables == <<node_peer, ai_proposal, human_response>>
vars   == <<memory, sent, tables, audited, boot, offers, faults>>

NoPeer  == [id |-> "none"]
Unknown == "peer-unknown"
NoName  == ""
LINK    == "N-1"
Slot    == Range(InitialProposals)

LinkState == {"discovered", "linked", "rejected"}
PeerId    == Peer \union {Unknown, NoName}
PeerState == [id : PeerId, caps : BOOLEAN, link_state : LinkState]
Response  == {"approve", "reject"}
Answer    == [proposal : Slot \union {LINK}, boot : 1..MAX_BOOT, response : Response]

\* The slots are numbered P-1, P-2, ...; the link proposal is none of them.
ASSUME ProposalsAssumption == InitialProposals \in Seq(Slot) /\ LINK \notin Slot

Event(type, about)   == [do |-> "event", type |-> type, about |-> about]
Upsert               == [do |-> "upsert"]
Persist(id)          == [do |-> "persist", id |-> id]
OfferLink            == [do |-> "offer"]
Respond(id, response) == [do |-> "respond", id |-> id, response |-> response]
Send(msg)            == [do |-> "send", msg |-> msg]

Idle == todo = <<>>

NoOffers == [made |-> 0, settled |-> 0]

\* The events that record what the operator decided about a link.
Decision == {"LINK_ACCEPTED", "LINK_REJECTED"}

-----------------------------------------------------------------------------
Init ==
  /\ pc = "off" /\ audit_ready = FALSE /\ todo = <<>> /\ rx = 0
  /\ peer = NoPeer /\ pending = FALSE
  /\ status = [s \in {} |-> "PENDING"]
  /\ sent = {} /\ audited = {}
  /\ node_peer = [p \in {} |-> NoPeer]
  /\ ai_proposal = [i \in {} |-> 0]
  /\ human_response = <<>>
  /\ boot = 0 /\ offers = NoOffers
  /\ faults = [now |-> 0, ever |-> 0]

\* kmain up to proposal_generate_initial: each proposal is persisted and its
\* creation audited, whether or not there is a backend to do it.
Boot(ready) ==
  /\ pc = "off" /\ boot < MAX_BOOT
  /\ boot' = boot + 1
  /\ audit_ready' = ready
  /\ pc' = IF ready THEN "start" ELSE "console"
  /\ todo' = [k \in 1..(2 * Len(InitialProposals)) |->
               LET id == InitialProposals[(k + 1) \div 2] IN
                 IF k % 2 = 1 THEN Persist(id) ELSE Event("AI_PROPOSAL_CREATED", id)]
  /\ status' = [s \in Slot |-> "PENDING"]
  /\ UNCHANGED <<rx, peer, pending, sent, tables, audited, offers, faults>>

\* The machine stops, in an orderly way or not.
Stop ==
  /\ pc # "off"
  /\ pc' = "off" /\ todo' = <<>>
  /\ audit_ready' = FALSE
  /\ peer' = NoPeer /\ pending' = FALSE /\ rx' = 0
  /\ status' = [s \in {} |-> "PENDING"]
  /\ sent' = {} /\ audited' = {} /\ offers' = NoOffers
  /\ faults' = [faults EXCEPT !.now = 0]
  /\ UNCHANGED <<tables, boot>>

-----------------------------------------------------------------------------
(* The statements *)

\* audit_upsert_node_peer: INSERT OR REPLACE under the peer's id, refused without.
DoUpsert ==
  \/ peer.id = NoName /\ UNCHANGED node_peer
  \/ /\ peer.id # NoName
     /\ node_peer' = [p \in DOMAIN node_peer \union {peer.id} |->
                        IF p = peer.id THEN peer ELSE node_peer[p]]

\* audit_persist_ai_proposal: INSERT OR REPLACE; the row takes this boot's id.
DoPersist(id) == ai_proposal' = [i \in DOMAIN ai_proposal \union {id} |->
                                   IF i = id THEN boot ELSE ai_proposal[i]]

\* create_link_proposal_if_needed: nothing is pending unless its row is stored.
ExecuteOffer(ok) ==
  /\ todo # <<>> /\ Head(todo).do = "offer"
  /\ IF pending \/ ~ok
     THEN /\ todo' = Tail(todo)
          /\ UNCHANGED <<ai_proposal, pending, offers>>
     ELSE /\ DoPersist(LINK)
          /\ pending' = TRUE
          /\ offers' = [offers EXCEPT !.made = @ + 1]
          /\ todo' = [todo EXCEPT ![1] = Event("LINK_PROPOSAL_CREATED", peer.id)]
  /\ UNCHANGED <<pc, audit_ready, rx, peer, status, sent, node_peer, human_response,
                 audited, boot>>

\* The inserts whose result nobody looks at, and sendto.
ExecuteOther(ok) ==
  /\ todo # <<>> /\ Head(todo).do # "offer"
  /\ todo' = Tail(todo)
  /\ LET s == Head(todo) IN
       \/ /\ ~ok
          /\ s.do # "send"
          /\ UNCHANGED <<tables, audited, sent>>
       \/ /\ ok /\ s.do = "event"
          /\ audited' = IF s.type \in Decision THEN audited \union {s.type} ELSE audited
          /\ UNCHANGED <<tables, sent>>
       \/ /\ ok /\ s.do = "upsert"
          /\ DoUpsert
          /\ UNCHANGED <<ai_proposal, human_response, audited, sent>>
       \/ /\ ok /\ s.do = "persist"
          /\ DoPersist(s.id)
          /\ UNCHANGED <<node_peer, human_response, audited, sent>>
       \/ /\ ok /\ s.do = "respond"
          /\ human_response' = Append(human_response,
               [proposal |-> s.id, boot |-> boot, response |-> s.response])
          /\ UNCHANGED <<node_peer, ai_proposal, audited, sent>>
       \/ /\ ok /\ s.do = "send"
          /\ sent' = sent \union {s.msg}
          /\ UNCHANGED <<tables, audited>>
  /\ UNCHANGED <<pc, audit_ready, rx, peer, pending, status, boot, offers>>

Execute(ok) == ExecuteOffer(ok) \/ ExecuteOther(ok)

\* sendto is always made; without a backend every insert is refused, with one
\* an insert may still fail.
Sending       == ~Idle /\ Head(todo).do = "send"
ExecuteOk     == (audit_ready \/ Sending) /\ Execute(TRUE) /\ UNCHANGED faults
ExecuteRefused == ~audit_ready /\ ~Sending /\ Execute(FALSE) /\ UNCHANGED faults
ExecuteFails  ==
  /\ audit_ready /\ ~Sending
  /\ faults.ever < MAX_FAULTS
  /\ Execute(FALSE)
  /\ faults' = [now |-> faults.now + 1, ever |-> faults.ever + 1]

-----------------------------------------------------------------------------
(* node_core_start; kmain calls it only when the audit backend is up. *)

Greet ==
  /\ pc = "start" /\ Idle
  /\ pc' = "listen"
  /\ todo' = <<Send("HELLO"), Send("CAPS"), Event("VITANET_HELLO_SENT", "")>>
  /\ UNCHANGED <<audit_ready, rx, peer, pending, status, sent, tables, audited, boot,
                 offers, faults>>

\* The seed endpoint cannot be parsed, or there is no socket.
GreetFails ==
  /\ pc = "start" /\ Idle
  /\ pc' = "console"
  /\ todo' = <<Event("VITANET_ERROR", "")>>
  /\ UNCHANGED <<audit_ready, rx, peer, pending, status, sent, tables, audited, boot,
                 offers, faults>>

\* Mutant of Listening: one turn of the loop too many.
ListeningOnceMore == pc = "listen" /\ Idle /\ rx <= RX_SLOTS

\* The loop of node_core_start: RX_SLOTS times at most.
Listening == pc = "listen" /\ Idle /\ rx < RX_SLOTS

\* The 350 ms of a slot pass without a datagram.
ReceiveNothing ==
  /\ Listening
  /\ rx' = rx + 1
  /\ UNCHANGED <<pc, audit_ready, todo, peer, pending, status, sent, tables, audited,
                 boot, offers, faults>>

\* ensure_peer_defaults: any datagram at all makes a peer.
Heard == IF peer = NoPeer THEN [id |-> Unknown, caps |-> FALSE, link_state |-> "discovered"]
                          ELSE peer

\* Mutant of Handle: only a slot without a datagram is counted.
HandleUncounted(next, still, effects) ==
  /\ Listening
  /\ peer' = next
  /\ pending' = still
  /\ todo' = effects
  /\ UNCHANGED <<pc, audit_ready, rx, status, sent, tables, audited, boot, faults>>

\* handle_message: the peer is updated and stored, what happened is audited.
Handle(next, still, effects) ==
  /\ Listening
  /\ rx' = rx + 1
  /\ peer' = next
  /\ pending' = still
  /\ todo' = effects
  /\ UNCHANGED <<pc, audit_ready, status, sent, tables, audited, boot, faults>>

\* The id is whatever follows "HELLO ", which may be nothing.
ReceiveHello(p) ==
  /\ Handle([Heard EXCEPT !.id = p], pending,
            <<Upsert, Event("PEER_DISCOVERED", p), OfferLink>>)
  /\ UNCHANGED offers

ReceiveCaps ==
  /\ Handle([Heard EXCEPT !.caps = TRUE], pending,
            <<Upsert, Event("PEER_CAPABILITIES_RECEIVED", Heard.id)>>)
  /\ UNCHANGED offers

\* HEARTBEAT and AUDIT_BLOCK: the block itself is dropped.
ReceiveSign(type) ==
  /\ Handle(Heard, pending, <<Upsert, Event(type, Heard.id)>>)
  /\ UNCHANGED offers

\* The peer's verdict, for the record: it is about the proposal that is open.
Settled == offers' = [offers EXCEPT !.settled = @ + IF pending THEN 1 ELSE 0]

\* Mutant of ReceiveLink: the verdict is not written through to the table.
ReceiveLinkUnstored(verdict, type) ==
  /\ Handle([Heard EXCEPT !.link_state = verdict], FALSE, <<Event(type, Heard.id)>>)
  /\ Settled

\* Mutant of ReceiveLink: the proposal stays open for the operator.
ReceiveLinkStaysOpen(verdict, type) ==
  /\ Handle([Heard EXCEPT !.link_state = verdict], pending,
            <<Upsert, Event(type, Heard.id)>>)
  /\ Settled

\* LINK_ACCEPT and LINK_REJECT withdraw whatever proposal is pending.
ReceiveLink(verdict, type) ==
  /\ Handle([Heard EXCEPT !.link_state = verdict], FALSE, <<Upsert, Event(type, Heard.id)>>)
  /\ Settled

\* A datagram of no known kind still leaves a peer behind.
ReceiveOther == Handle(Heard, pending, <<>>) /\ UNCHANGED offers

\* The block of recent events is sent if there is a peer and the query yields one.
Report ==
  /\ pc = "listen" /\ Idle /\ rx = RX_SLOTS
  /\ pc' = "console"
  /\ \/ /\ peer # NoPeer
        /\ todo' = <<Send("AUDIT_BLOCK"), Event("AUDIT_REPLICATION_ATTEMPTED", peer.id)>>
     \/ todo' = <<>>
  /\ UNCHANGED <<audit_ready, rx, peer, pending, status, sent, tables, audited, boot,
                 offers, faults>>

-----------------------------------------------------------------------------
(* proposal_handle_command *)

Console == pc = "console" /\ Idle /\ Len(human_response) < MAX_ANSWERS

Verdict(response)    == IF response = "approve" THEN "linked" ELSE "rejected"
LinkEvent(response)  == IF response = "approve" THEN "LINK_ACCEPTED" ELSE "LINK_REJECTED"
LinkMsg(response)    == IF response = "approve" THEN "LINK_ACCEPT" ELSE "LINK_REJECT"
NewStatus(response)  == IF response = "approve" THEN "APPROVED" ELSE "REJECTED"
SlotEvent(response)  == IF response = "approve" THEN "AI_PROPOSAL_APPROVED"
                                                ELSE "AI_PROPOSAL_REJECTED"

\* Mutant of AnswerLink: the peer is told before the decision is audited.
AnswerLinkTellsFirst(response) ==
  /\ Console /\ pending /\ peer # NoPeer
  /\ peer' = [peer EXCEPT !.link_state = Verdict(response)]
  /\ pending' = FALSE
  /\ todo' = <<Send(LinkMsg(response)), Event(LinkEvent(response), peer.id), Upsert,
               Respond(LINK, response)>>
  /\ UNCHANGED <<pc, audit_ready, rx, status, sent, tables, audited, boot, offers, faults>>

\* node_core_handle_link_response and what its caller does afterwards.
AnswerLink(response) ==
  /\ Console /\ pending /\ peer # NoPeer
  /\ peer' = [peer EXCEPT !.link_state = Verdict(response)]
  /\ pending' = FALSE
  /\ todo' = <<Event(LinkEvent(response), peer.id), Send(LinkMsg(response)), Upsert,
               Respond(LINK, response)>>
  /\ UNCHANGED <<pc, audit_ready, rx, status, sent, tables, audited, boot, offers, faults>>

\* Mutant of AnswerProposal: only the first answer changes the status.
AnswerProposalOnce(s, response) ==
  /\ Console
  /\ status' = [status EXCEPT ![s] = IF @ = "PENDING" THEN NewStatus(response) ELSE @]
  /\ todo' = <<Respond(s, response), Event(SlotEvent(response), s)>>
  /\ UNCHANGED <<pc, audit_ready, rx, peer, pending, sent, tables, audited, boot,
                 offers, faults>>

\* Any answer is taken, also a second one: the operator may change their mind.
AnswerProposal(s, response) ==
  /\ Console
  /\ status' = [status EXCEPT ![s] = NewStatus(response)]
  /\ todo' = <<Respond(s, response), Event(SlotEvent(response), s)>>
  /\ UNCHANGED <<pc, audit_ready, rx, peer, pending, sent, tables, audited, boot,
                 offers, faults>>

-----------------------------------------------------------------------------
Receive ==
  \/ ReceiveNothing
  \/ \E p \in Peer \union {NoName} : ReceiveHello(p)
  \/ ReceiveCaps
  \/ ReceiveSign("HEARTBEAT_RECEIVED")
  \/ ReceiveSign("AUDIT_REPLICATION_RECEIVED")
  \/ ReceiveLink("linked", "LINK_ACCEPTED_REMOTE")
  \/ ReceiveLink("rejected", "LINK_REJECTED_REMOTE")
  \/ ReceiveOther

\* What the program does of its own accord.
Step == ExecuteOk \/ ExecuteRefused \/ ExecuteFails \/ Greet \/ GreetFails \/ Receive \/ Report

Command ==
  \E response \in Response :
    \/ AnswerLink(response)
    \/ \E s \in Slot : AnswerProposal(s, response)

Next ==
  \/ \E ready \in BOOLEAN : Boot(ready)
  \/ Step
  \/ Command
  \/ Stop

Spec == Init /\ [][Next]_vars

\* The processor keeps executing the program while it runs. Nothing is assumed
\* of the network, of the operator, or of the power supply.
FairSpec == Spec /\ WF_vars(Step)

-----------------------------------------------------------------------------
(* What must hold *)

EventType ==
  Decision \union
  {"AI_PROPOSAL_CREATED", "LINK_PROPOSAL_CREATED", "VITANET_HELLO_SENT", "VITANET_ERROR",
   "PEER_DISCOVERED", "PEER_CAPABILITIES_RECEIVED", "HEARTBEAT_RECEIVED",
   "AUDIT_REPLICATION_RECEIVED", "LINK_ACCEPTED_REMOTE", "LINK_REJECTED_REMOTE",
   "AUDIT_REPLICATION_ATTEMPTED", "AI_PROPOSAL_APPROVED", "AI_PROPOSAL_REJECTED"}
Msg       == {"HELLO", "CAPS", "AUDIT_BLOCK", "LINK_ACCEPT", "LINK_REJECT"}
Statement ==
  [do : {"upsert", "offer"}]
    \union [do : {"event"}, type : EventType, about : PeerId \union Slot]
    \union [do : {"persist"}, id : Slot]
    \union [do : {"respond"}, id : Slot \union {LINK}, response : Response]
    \union [do : {"send"}, msg : Msg]

\* Every variable stays in its domain.
TypeOK ==
  /\ pc \in {"off", "start", "listen", "console"}
  /\ audit_ready \in BOOLEAN /\ pending \in BOOLEAN
  /\ todo \in Seq(Statement)
  /\ rx \in 0..RX_SLOTS
  /\ peer \in PeerState \union {NoPeer}
  /\ pc # "off" => status \in [Slot -> {"PENDING", "APPROVED", "REJECTED"}]
  /\ sent \subseteq Msg /\ audited \subseteq Decision
  /\ DOMAIN node_peer \subseteq PeerId \ {NoName}
  /\ \A p \in DOMAIN node_peer : node_peer[p] \in PeerState /\ node_peer[p].id = p
  /\ DOMAIN ai_proposal \subseteq Slot \union {LINK}
  /\ \A i \in DOMAIN ai_proposal : ai_proposal[i] \in 1..boot
  /\ human_response \in Seq(Answer)
  /\ boot \in 0..MAX_BOOT /\ offers \in [made : Nat, settled : Nat]
  /\ faults \in [now : Nat, ever : Nat]
  /\ faults.now <= faults.ever /\ faults.ever <= MAX_FAULTS

\* The rows with which this boot has answered a proposal.
Answers(id) ==
  {n \in DOMAIN human_response :
     human_response[n].proposal = id /\ human_response[n].boot = boot}

\* A link proposal is closed at most once, by an answer of the operator that is
\* recorded or by the verdict of the peer, and never both. None is forgotten either:
\* between two statements each one that was made is closed or still open, but for
\* answers whose insert failed. While one is open, the row under its id is this
\* boot's and not one that an earlier boot has left.
AnsweredOnce ==
  LET closed == Cardinality(Answers(LINK)) + offers.settled
      open   == IF pending THEN 1 ELSE 0 IN
    /\ pc # "off" => closed + open <= offers.made
    /\ pc # "off" /\ Idle => offers.made <= closed + open + faults.now
    /\ pending => LINK \in DOMAIN ai_proposal /\ ai_proposal[LINK] = boot

\* A decision is in the audit log by the time the peer hears of it.
AnnouncedIsAudited ==
  faults.now = 0 =>
    \A response \in Response :
      LinkMsg(response) \in sent => LinkEvent(response) \in audited

\* Between two statements of the program the table shows the peer as memory has
\* it, once the peer has introduced itself with a name. A peer without one has no
\* row, whatever is audited of it and offered to it (audit_core.c:614).
PeerRowCurrent ==
  faults.now = 0 /\ Idle /\ peer # NoPeer /\ peer.id \notin {Unknown, NoName} =>
    peer.id \in DOMAIN node_peer /\ node_peer[peer.id] = peer

\* The status of a slot according to the recorded answers: the last one counts.
Recorded(s) ==
  \/ Answers(s) = {} /\ status[s] = "PENDING"
  \/ \E n \in Answers(s) : /\ \A m \in Answers(s) : m <= n
                           /\ status[s] = NewStatus(human_response[n].response)

\* The status that the console shows is the last recorded answer.
StatusIsLastAnswer ==
  faults.now = 0 /\ Idle /\ pc = "console" /\ audit_ready => \A s \in Slot : Recorded(s)

\* A flood of datagrams or a silent network cannot keep the console from coming
\* up: the machine gets there unless it is switched off.
ConsoleReached == pc = "start" ~> pc \in {"console", "off"}
=============================================================================
