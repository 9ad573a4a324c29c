--------------------------- MODULE NodeLinkProofs ---------------------------
(***************************************************************************)
(* Proofs about NodeLink, for any set of peers, any initial proposals, any *)
(* number of receive slots, boots, answers and failing inserts.            *)
(***************************************************************************)
EXTENDS NodeLink, SequenceTheorems, FiniteSetTheorems, TLAPS

LEMMA Limits ==
  RX_SLOTS \in Nat /\ MAX_BOOT \in Nat /\ MAX_ANSWERS \in Nat /\ MAX_FAULTS \in Nat
  BY LimitsAssumption

-----------------------------------------------------------------------------
(* Statements *)

LEMMA StatementsAre ==
  /\ \A type \in EventType, about \in PeerId \union Slot :
       Event(type, about) \in Statement
  /\ Upsert \in Statement /\ OfferLink \in Statement
  /\ \A id \in Slot : Persist(id) \in Statement
  /\ \A id \in Slot \union {LINK}, response \in Response : Respond(id, response) \in Statement
  /\ \A msg \in Msg : Send(msg) \in Statement
  BY DEF Statement, Event, Upsert, OfferLink, Persist, Respond, Send

\* The peer without a name, which stands for no peer in an event as well.
LEMMA NoNameIs == NoName = "" /\ NoName \in PeerId
  BY DEF NoName, PeerId

LEMMA StatementIs ==
  ASSUME NEW s \in Statement
  PROVE  /\ s.do \in {"upsert", "offer", "event", "persist", "respond", "send"}
         /\ s.do = "event" => s.type \in EventType
         /\ s.do = "persist" => s.id \in Slot
         /\ s.do = "respond" => s.id \in Slot \union {LINK} /\ s.response \in Response
         /\ s.do = "send" => s.msg \in Msg
  BY DEF Statement

\* What the rest of a list of statements is.
LEMMA RestIs ==
  ASSUME NEW S, NEW list \in Seq(S), list # <<>>
  PROVE  /\ list[1] \in S /\ Head(list) = list[1]
         /\ Tail(list) \in Seq(S) /\ Len(list) \in Nat /\ 1 <= Len(list)
         /\ Len(Tail(list)) \in Nat /\ Len(Tail(list)) = Len(list) - 1
         /\ \A n \in 1..Len(Tail(list)) : n + 1 \in 1..Len(list) /\ Tail(list)[n] = list[n + 1]
  <1>1. Len(list) \in Nat /\ 1 <= Len(list)
    BY LenProperties, EmptySeq
  <1>2. /\ Tail(list) \in Seq(S) /\ Len(Tail(list)) = Len(list) - 1
        /\ \A n \in 1..Len(Tail(list)) : Tail(list)[n] = list[n + 1]
        /\ Head(list) = list[1] /\ Head(list) \in S
    BY HeadTailProperties
  <1> QED
    BY <1>1, <1>2

\* A peer is never taken for none.
LEMMA PeerIsSome == NoPeer \notin PeerState
  <1>1. \A r \in PeerState : "caps" \in DOMAIN r
    BY DEF PeerState
  <1>2. "caps" \notin DOMAIN NoPeer
    BY DEF NoPeer
  <1> QED
    BY <1>1, <1>2

LEMMA HeardType ==
  TypeOK => Heard \in PeerState /\ Heard.id \in PeerId
  BY PeerIsSome DEF TypeOK, Heard, PeerState, PeerId, LinkState

-----------------------------------------------------------------------------
(* The steps, by what they change *)

Fixed == UNCHANGED <<pc, audit_ready, rx, peer, status, boot>>

\* The statement is left out: it fails, there is nothing to record it, or it is
\* one that no table and no decision is about.
Skipped ==
  /\ todo[1].do # "send" /\ todo' = Tail(todo)
  /\ UNCHANGED <<tables, audited, sent, pending, offers>>
  /\ faults'.now = 0 => \/ ~audit_ready \/ todo[1].do = "offer"
                        \/ todo[1].do = "event" /\ todo[1].type \notin Decision
  /\ todo[1].do = "respond" /\ audit_ready => faults'.now = faults.now + 1

Offered ==
  /\ todo[1].do = "offer" /\ ~pending
  /\ todo' = [todo EXCEPT ![1] = Event("LINK_PROPOSAL_CREATED", peer.id)]
  /\ DoPersist(LINK) /\ pending' = TRUE /\ offers' = [offers EXCEPT !.made = @ + 1]
  /\ UNCHANGED <<sent, node_peer, human_response, audited>>

Audited ==
  /\ todo[1].do = "event" /\ todo[1].type \in Decision /\ todo' = Tail(todo)
  /\ audited' = audited \union {todo[1].type}
  /\ UNCHANGED <<tables, sent, pending, offers>>

Upserted ==
  /\ todo[1].do = "upsert" /\ todo' = Tail(todo)
  /\ DoUpsert
  /\ UNCHANGED <<ai_proposal, human_response, audited, sent, pending, offers>>

Persisted ==
  /\ todo[1].do = "persist" /\ todo' = Tail(todo)
  /\ DoPersist(todo[1].id)
  /\ UNCHANGED <<node_peer, human_response, audited, sent, pending, offers>>

Responded ==
  /\ todo[1].do = "respond" /\ todo' = Tail(todo)
  /\ human_response' = Append(human_response,
       [proposal |-> todo[1].id, boot |-> boot, response |-> todo[1].response])
  /\ UNCHANGED <<node_peer, ai_proposal, audited, sent, pending, offers>>

Sent ==
  /\ todo[1].do = "send" /\ todo' = Tail(todo)
  /\ sent' = sent \union {todo[1].msg}
  /\ UNCHANGED <<tables, audited, pending, offers>>

Executing == ExecuteOk \/ ExecuteRefused \/ ExecuteFails

LEMMA ExecuteMoves ==
  ASSUME TypeOK, Executing
  PROVE  /\ Fixed /\ todo # <<>> /\ todo[1] \in Statement
         /\ faults' \in [now : Nat, ever : Nat]
         /\ faults'.now <= faults'.ever /\ faults'.ever <= MAX_FAULTS
         /\ faults'.now = 0 => faults' = faults
         /\ faults.now <= faults'.now
         /\ Skipped \/ Offered \/ Audited \/ Upserted \/ Persisted \/ Responded \/ Sent
  <1>1. PICK ok \in BOOLEAN :
          /\ Execute(ok)
          /\ \/ ok = TRUE /\ faults' = faults
             \/ ok = FALSE /\ ~audit_ready /\ faults' = faults
             \/ /\ ok = FALSE /\ faults.ever < MAX_FAULTS
                /\ faults' = [now |-> faults.now + 1, ever |-> faults.ever + 1]
    BY DEF Executing, ExecuteOk, ExecuteRefused, ExecuteFails
  <1>2. todo # <<>> /\ todo \in Seq(Statement)
    BY <1>1 DEF Execute, ExecuteOffer, ExecuteOther, TypeOK
  <1>3. Head(todo) = todo[1] /\ todo[1] \in Statement
    BY <1>2, RestIs
  <1>4. /\ faults' \in [now : Nat, ever : Nat]
        /\ faults'.now <= faults'.ever /\ faults'.ever <= MAX_FAULTS
        /\ faults'.now = 0 => faults' = faults
        /\ faults'.now = 0 => ok = TRUE \/ ~audit_ready
        /\ faults.now <= faults'.now
        /\ ok = FALSE /\ audit_ready /\ Head(todo).do = "respond" =>
             faults'.now = faults.now + 1
    BY <1>1, Limits DEF TypeOK
  <1>5. CASE ExecuteOffer(ok)
    BY <1>3, <1>4, <1>5 DEF ExecuteOffer, Fixed, Skipped, Offered, tables, DoPersist
  <1>6. CASE ExecuteOther(ok)
    <2> DEFINE s == Head(todo)
    <2>1. Fixed /\ UNCHANGED <<pending, offers>> /\ todo' = Tail(todo)
      BY <1>6 DEF ExecuteOther, Fixed
    <2>2. \/ ~ok /\ s.do # "send" /\ UNCHANGED <<tables, audited, sent>>
          \/ /\ s.do = "event"
             /\ audited' = IF s.type \in Decision THEN audited \union {s.type} ELSE audited
             /\ UNCHANGED <<tables, sent>>
          \/ Upserted \/ Persisted \/ Responded \/ Sent
      BY <1>3, <1>6, <2>1 DEF ExecuteOther, Upserted, Persisted, Responded, Sent
    <2>3. ~ok /\ s.do # "send" /\ UNCHANGED <<tables, audited, sent>> => Skipped
      BY <1>3, <1>4, <2>1 DEF Skipped
    <2>4. /\ s.do = "event"
          /\ audited' = IF s.type \in Decision THEN audited \union {s.type} ELSE audited
          /\ UNCHANGED <<tables, sent>>
          => Skipped \/ Audited
      BY <1>3, <2>1 DEF Skipped, Audited
    <2> QED
      BY <1>2, <1>3, <1>4, <2>1, <2>2, <2>3, <2>4
  <1> QED
    BY <1>1, <1>5, <1>6 DEF Execute

\* What a datagram does: it leaves the peer as it was, or has its row written.
Gentle(next, effects) ==
  \/ effects = <<>> /\ next = Heard
  \/ 1 \in 1..Len(effects) /\ effects[1].do = "upsert"

\* What becomes of an open proposal: it stays as it is, or the peer settles it.
Closing(still) ==
  \/ still = pending /\ UNCHANGED offers
  \/ still = FALSE /\ Settled

LEMMA ReceiveMoves ==
  ASSUME TypeOK, Receive
  PROVE  \/ ReceiveNothing
         \/ \E next \in PeerState, still \in {pending, FALSE}, effects \in Seq(Statement) :
              /\ Handle(next, still, effects) /\ Closing(still)
              /\ Gentle(next, effects)
              /\ \A n \in 1..Len(effects) : effects[n].do \in {"upsert", "event", "offer"}
  <1> DEFINE Goal == \E next \in PeerState, still \in {pending, FALSE},
                        effects \in Seq(Statement) :
                       /\ Handle(next, still, effects) /\ Closing(still)
                       /\ Gentle(next, effects)
                       /\ \A n \in 1..Len(effects) : effects[n].do \in {"upsert", "event", "offer"}
  <1>1. Heard \in PeerState /\ Heard.id \in PeerId
    BY HeardType
  <1>2. ASSUME NEW type \in EventType, NEW about \in PeerId
        PROVE  /\ Event(type, about) \in Statement /\ Event(type, about).do = "event"
               /\ Upsert \in Statement /\ Upsert.do = "upsert"
               /\ OfferLink \in Statement /\ OfferLink.do = "offer"
    BY StatementsAre DEF Event, Upsert, OfferLink
  <1>3. ASSUME NEW next \in PeerState, NEW still \in {pending, FALSE},
               NEW type \in EventType, NEW about \in PeerId, Closing(still),
               \/ Handle(next, still, <<Upsert, Event(type, about)>>)
               \/ Handle(next, still, <<Upsert, Event(type, about), OfferLink>>)
        PROVE  Goal
    <2> DEFINE u == Upsert
               e == Event(type, about)
               o == OfferLink
    <2>1. /\ u \in Statement /\ e \in Statement /\ o \in Statement
          /\ u.do = "upsert" /\ e.do = "event" /\ o.do = "offer"
      BY <1>2
    <2>2. Handle(next, still, <<u, e>>) \/ Handle(next, still, <<u, e, o>>)
      BY <1>3
    <2> HIDE DEF u, e, o
    <2>3. /\ <<u, e>> \in Seq(Statement) /\ <<u, e, o>> \in Seq(Statement)
          /\ Gentle(next, <<u, e>>) /\ Gentle(next, <<u, e, o>>)
      BY <2>1 DEF Gentle
    <2>4. \A n \in 1..Len(<<u, e>>) : <<u, e>>[n].do \in {"upsert", "event", "offer"}
      BY <2>1
    <2>5. \A n \in 1..Len(<<u, e, o>>) : <<u, e, o>>[n].do \in {"upsert", "event", "offer"}
      BY <2>1
    <2> DEFINE two == <<u, e>>
               three == <<u, e, o>>
    <2> HIDE DEF two, three
    <2>6. Handle(next, still, two) => Goal
      BY <1>3, <2>3, <2>4 DEF two
    <2>7. Handle(next, still, three) => Goal
      BY <1>3, <2>3, <2>5 DEF three
    <2> QED
      BY <2>2, <2>6, <2>7 DEF two, three
  <1>4. ASSUME NEW p \in Peer \union {NoName}, ReceiveHello(p)
        PROVE  Goal
    <2>1. [Heard EXCEPT !.id = p] \in PeerState /\ p \in PeerId /\ "PEER_DISCOVERED" \in EventType
      BY <1>1 DEF PeerState, PeerId, EventType
    <2> QED
      BY <1>3, <1>4, <2>1 DEF ReceiveHello, Closing
  <1>5. ASSUME ReceiveCaps
        PROVE  Goal
    <2>1. [Heard EXCEPT !.caps = TRUE] \in PeerState /\ "PEER_CAPABILITIES_RECEIVED" \in EventType
      BY <1>1 DEF PeerState, EventType
    <2> QED
      BY <1>1, <1>3, <1>5, <2>1 DEF ReceiveCaps, Closing
  <1>6. ASSUME NEW type \in EventType, ReceiveSign(type)
        PROVE  Goal
    BY <1>1, <1>3, <1>6 DEF ReceiveSign, Closing
  <1>7. ASSUME NEW verdict \in LinkState, NEW type \in EventType, ReceiveLink(verdict, type)
        PROVE  Goal
    <2>1. [Heard EXCEPT !.link_state = verdict] \in PeerState
      BY <1>1 DEF PeerState
    <2> QED
      BY <1>1, <1>3, <1>7, <2>1 DEF ReceiveLink, Closing
  <1>8. ASSUME ReceiveOther
        PROVE  Goal
    <2> DEFINE none == <<>>
    <2>1. none \in Seq(Statement) /\ Len(none) = 0 /\ Gentle(Heard, none)
      BY DEF Gentle
    <2>2. Handle(Heard, pending, none) /\ Closing(pending)
      BY <1>8 DEF ReceiveOther, Closing
    <2>3. \A n \in 1..Len(none) : none[n].do \in {"upsert", "event", "offer"}
      BY <2>1
    <2> HIDE DEF none
    <2> USE <1>1, <2>1
    <2> WITNESS Heard \in PeerState, pending \in {pending, FALSE}, none \in Seq(Statement)
    <2> QED
      BY <2>1, <2>2, <2>3
  <1>9. /\ {"linked", "rejected"} \subseteq LinkState
        /\ {"HEARTBEAT_RECEIVED", "AUDIT_REPLICATION_RECEIVED",
            "LINK_ACCEPTED_REMOTE", "LINK_REJECTED_REMOTE"} \subseteq EventType
    BY DEF LinkState, EventType
  <1> HIDE DEF Goal
  <1>10. ReceiveNothing \/ Goal
    BY <1>4, <1>5, <1>6, <1>7, <1>8, <1>9 DEF Receive
  <1> QED
    BY <1>10 DEF Goal

\* The proposals of a boot are persisted and audited one after the other.
LEMMA BootTodo ==
  ASSUME NEW ready, Boot(ready)
  PROVE  /\ todo' \in Seq(Statement)
         /\ \A n \in 1..Len(todo') : todo'[n].do \in {"persist", "event"}
  <1> DEFINE len == 2 * Len(InitialProposals)
             stmt(k) == LET id == InitialProposals[(k + 1) \div 2] IN
                          IF k % 2 = 1 THEN Persist(id) ELSE Event("AI_PROPOSAL_CREATED", id)
  <1>1. Len(InitialProposals) \in Nat /\ InitialProposals \in Seq(Slot)
    BY ProposalsAssumption, LenProperties
  <1>2. ASSUME NEW k \in 1..len
        PROVE  stmt(k) \in Statement /\ stmt(k).do \in {"persist", "event"}
    <2>1. (k + 1) \div 2 \in 1..Len(InitialProposals)
      BY <1>1
    <2>2. InitialProposals[(k + 1) \div 2] \in Slot
      BY <1>1, <2>1, ElementOfSeq
    <2>3. "AI_PROPOSAL_CREATED" \in EventType
      BY DEF EventType
    <2> QED
      BY <2>2, <2>3, StatementsAre DEF Persist, Event
  <1>3. todo' = [k \in 1..len |-> stmt(k)]
    BY DEF Boot
  <1> HIDE DEF stmt
  <1>4. len \in Nat
    BY <1>1
  <1> HIDE DEF len
  <1>5. todo' \in Seq(Statement) /\ Len(todo') = len /\ \A n \in 1..len : todo'[n] = stmt(n)
    BY <1>2, <1>3, <1>4
  <1> QED
    BY <1>2, <1>5

-----------------------------------------------------------------------------
(* The types, and what a list of statements may hold *)

\* What memory holds where. Only a boot with a working audit backend gets to
\* hear of a peer.
Shape ==
  /\ pc = "off" => /\ todo = <<>> /\ peer = NoPeer /\ ~pending /\ offers = NoOffers
                   /\ sent = {}
  /\ pc # "off" => boot \in 1..MAX_BOOT
  /\ pc \in {"start", "listen"} \/ peer # NoPeer => audit_ready

\* A statement about a peer has one, and answers are never queued up.
Effects ==
  \A n \in 1..Len(todo) :
    /\ todo[n].do \in {"upsert", "offer"} => peer # NoPeer
    /\ todo[n].do = "send" /\ todo[n].msg \in {"LINK_ACCEPT", "LINK_REJECT"} => peer # NoPeer
    /\ todo[n].do = "respond" => n = IF todo[n].id = LINK THEN Len(todo) ELSE 1
    /\ todo[n].do = "respond" /\ todo[n].id = LINK => peer # NoPeer

TypeInv == TypeOK /\ Shape /\ Effects

LEMMA TypeInit == Init => TypeInv
  <1> SUFFICES ASSUME Init PROVE TypeInv
    OBVIOUS
  <1> USE DEF Init
  <1>1. /\ todo \in Seq(Statement) /\ human_response \in Seq(Answer) /\ Len(todo) = 0
        /\ DOMAIN node_peer = {} /\ DOMAIN ai_proposal = {}
    OBVIOUS
  <1>2. faults \in [now : Nat, ever : Nat] /\ faults.now = 0 /\ faults.ever = 0
    OBVIOUS
  <1>3. boot \in 0..MAX_BOOT /\ rx \in 0..RX_SLOTS /\ 0 <= MAX_FAULTS
        /\ offers \in [made : Nat, settled : Nat]
    BY Limits DEF NoOffers
  <1>4. /\ pc \in {"off", "start", "listen", "console"} /\ ~(pc # "off")
        /\ audit_ready \in BOOLEAN /\ pending \in BOOLEAN
        /\ peer \in PeerState \union {NoPeer} /\ sent \subseteq Msg /\ audited \subseteq Decision
    OBVIOUS
  <1>5. TypeOK
    <2> USE DEF TypeOK
    <2> HIDE DEF Init
    <2> QED
      BY <1>1, <1>2, <1>3, <1>4
  <1> QED
    BY <1>1, <1>5 DEF TypeInv, Shape, Effects

LEMMA PersistType ==
  ASSUME TypeOK, boot \in 1..MAX_BOOT, UNCHANGED boot, NEW id \in Slot \union {LINK}, DoPersist(id)
  PROVE  /\ DOMAIN ai_proposal' \subseteq Slot \union {LINK}
         /\ \A i \in DOMAIN ai_proposal' : ai_proposal'[i] \in 1..boot'
         /\ DOMAIN ai_proposal' = DOMAIN ai_proposal \union {id} /\ ai_proposal'[id] = boot
         /\ \A i \in DOMAIN ai_proposal \ {id} : ai_proposal'[i] = ai_proposal[i]
  <1>1. boot \in 1..boot
    BY Limits
  <1> QED
    BY <1>1 DEF DoPersist, TypeOK

LEMMA UpsertType ==
  ASSUME TypeOK, peer \in PeerState, DoUpsert
  PROVE  /\ DOMAIN node_peer' \subseteq PeerId \ {NoName}
         /\ \A p \in DOMAIN node_peer' : node_peer'[p] \in PeerState /\ node_peer'[p].id = p
         /\ peer.id # NoName => peer.id \in DOMAIN node_peer' /\ node_peer'[peer.id] = peer
  <1>1. peer.id \in PeerId
    BY DEF PeerState
  <1> QED
    BY <1>1 DEF DoUpsert, TypeOK

\* A statement is executed only while the machine runs.
LEMMA ExecuteRuns ==
  ASSUME TypeInv, Executing
  PROVE  /\ pc # "off" /\ boot \in 1..MAX_BOOT
         /\ todo \in Seq(Statement) /\ todo[1] \in Statement /\ 1 \in 1..Len(todo)
         /\ Tail(todo) \in Seq(Statement) /\ Len(todo) \in Nat
         /\ Len(Tail(todo)) \in Nat /\ Len(Tail(todo)) = Len(todo) - 1
         /\ \A n \in 1..Len(Tail(todo)) : n + 1 \in 1..Len(todo) /\ Tail(todo)[n] = todo[n + 1]
  <1>1. todo # <<>> /\ todo \in Seq(Statement)
    BY ExecuteMoves DEF TypeInv, TypeOK
  <1>2. pc # "off" /\ boot \in 1..MAX_BOOT
    BY <1>1 DEF TypeInv, Shape
  <1> QED
    BY <1>1, <1>2, RestIs

\* The offer of a link goes on as the event that announces it.
LEMMA OfferedTodo ==
  ASSUME TypeInv, Executing, Offered
  PROVE  /\ peer \in PeerState /\ todo' \in Seq(Statement) /\ Len(todo') = Len(todo)
         /\ todo'[1] = Event("LINK_PROPOSAL_CREATED", peer.id) /\ todo'[1].do = "event"
         /\ todo'[1].type = "LINK_PROPOSAL_CREATED"
         /\ \A n \in 2..Len(todo) : todo'[n] = todo[n]
  <1>1. 1 \in 1..Len(todo) /\ todo \in Seq(Statement)
    BY ExecuteRuns
  <1>2. peer \in PeerState
    BY <1>1 DEF Offered, TypeInv, Effects, TypeOK
  <1>3. Event("LINK_PROPOSAL_CREATED", peer.id) \in Statement
    <2>1. peer.id \in PeerId /\ "LINK_PROPOSAL_CREATED" \in EventType
      BY <1>2 DEF PeerState, EventType
    <2> QED
      BY <2>1, StatementsAre
  <1> DEFINE e == Event("LINK_PROPOSAL_CREATED", peer.id)
  <1>4. e.do = "event" /\ e.type = "LINK_PROPOSAL_CREATED" /\ todo' = [todo EXCEPT ![1] = e]
    BY DEF Event, Offered
  <1> HIDE DEF e
  <1>5. /\ todo' \in Seq(Statement) /\ Len(todo') = Len(todo) /\ todo'[1] = e
        /\ \A n \in 2..Len(todo) : todo'[n] = todo[n]
    BY <1>1, <1>3, <1>4, ExceptSeq DEF e
  <1> QED
    BY <1>2, <1>4, <1>5 DEF e

LEMMA TypeExecute ==
  ASSUME TypeInv, Executing
  PROVE  TypeOK'
  <1>1. /\ UNCHANGED <<pc, audit_ready, rx, peer, status, boot>>
        /\ faults' \in [now : Nat, ever : Nat]
        /\ faults'.now <= faults'.ever /\ faults'.ever <= MAX_FAULTS
        /\ Skipped \/ Offered \/ Audited \/ Upserted \/ Persisted \/ Responded \/ Sent
    BY ExecuteMoves DEF TypeInv, Fixed
  <1>2. /\ TypeOK /\ boot \in 1..MAX_BOOT /\ todo[1] \in Statement /\ Tail(todo) \in Seq(Statement)
        /\ 1 \in 1..Len(todo)
    BY ExecuteRuns DEF TypeInv
  <1>3. CASE Skipped
    BY <1>1, <1>2, <1>3 DEF Skipped, TypeOK, tables
  <1>4. CASE Offered
    <2>1. todo' \in Seq(Statement)
      BY <1>4, OfferedTodo
    <2>2. /\ DOMAIN ai_proposal' \subseteq Slot \union {LINK}
          /\ \A i \in DOMAIN ai_proposal' : ai_proposal'[i] \in 1..boot'
      BY <1>1, <1>2, <1>4, PersistType DEF Offered
    <2>3. pending' \in BOOLEAN /\ offers' \in [made : Nat, settled : Nat]
          /\ UNCHANGED <<sent, node_peer, human_response, audited>>
      BY <1>2, <1>4 DEF Offered, TypeOK
    <2> QED
      BY <1>1, <1>2, <2>1, <2>2, <2>3 DEF TypeOK
  <1>5. CASE Audited
    BY <1>1, <1>2, <1>5 DEF Audited, TypeOK, tables
  <1>6. CASE Upserted
    <2>1. peer \in PeerState
      BY <1>2, <1>6 DEF Upserted, TypeInv, Effects, TypeOK
    <2>2. /\ DOMAIN node_peer' \subseteq PeerId \ {NoName}
          /\ \A p \in DOMAIN node_peer' : node_peer'[p] \in PeerState /\ node_peer'[p].id = p
      BY <1>2, <1>6, <2>1, UpsertType DEF Upserted
    <2> QED
      BY <1>1, <1>2, <1>6, <2>2 DEF Upserted, TypeOK
  <1>7. CASE Persisted
    <2>1. todo[1].id \in Slot \union {LINK}
      BY <1>2, <1>7, StatementIs DEF Persisted
    <2>2. /\ DOMAIN ai_proposal' \subseteq Slot \union {LINK}
          /\ \A i \in DOMAIN ai_proposal' : ai_proposal'[i] \in 1..boot'
      BY <1>1, <1>2, <1>7, <2>1, PersistType DEF Persisted
    <2> QED
      BY <1>1, <1>2, <1>7, <2>2 DEF Persisted, TypeOK
  <1>8. CASE Responded
    <2> DEFINE row == [proposal |-> todo[1].id, boot |-> boot, response |-> todo[1].response]
    <2>1. row \in Answer
      BY <1>2, <1>8, StatementIs DEF Responded, Answer
    <2>2. human_response' = Append(human_response, row)
      BY <1>8 DEF Responded
    <2> HIDE DEF row
    <2>3. human_response' \in Seq(Answer)
      BY <1>2, <2>1, <2>2, AppendProperties DEF TypeOK
    <2> QED
      BY <1>1, <1>2, <1>8, <2>3 DEF Responded, TypeOK
  <1>9. CASE Sent
    <2>1. todo[1].msg \in Msg
      BY <1>2, <1>9, StatementIs DEF Sent
    <2> QED
      BY <1>1, <1>2, <1>9, <2>1 DEF Sent, TypeOK, tables
  <1> QED
    BY <1>1, <1>3, <1>4, <1>5, <1>6, <1>7, <1>8, <1>9

\* What a step that starts a list of statements leaves alone.
Started == UNCHANGED <<sent, tables, audited, boot, faults, audit_ready>>

LEMMA StartedType ==
  ASSUME TypeOK, Started, todo' \in Seq(Statement), UNCHANGED status,
         pc # "off", pc' \in {"start", "listen", "console"},
         rx' \in 0..RX_SLOTS, peer' \in PeerState \union {NoPeer}, pending' \in BOOLEAN,
         offers' \in [made : Nat, settled : Nat]
  PROVE  TypeOK'
  BY DEF Started, TypeOK, tables

\* Every step of the program that is not a statement starts from an idle state.
LEMMA HandleMoves ==
  ASSUME TypeInv, Receive
  PROVE  /\ Started /\ pc = "listen" /\ Idle /\ UNCHANGED <<pc, status>>
         /\ rx' = rx + 1 /\ rx' \in 0..RX_SLOTS
         /\ todo' \in Seq(Statement) /\ Len(todo') \in Nat
         /\ pending' \in {pending, FALSE} /\ Closing(pending')
         /\ offers' \in [made : Nat, settled : Nat]
         /\ \/ UNCHANGED <<peer, pending>> /\ todo' = <<>>
            \/ /\ peer' \in PeerState /\ Gentle(peer', todo')
               /\ \A n \in 1..Len(todo') : todo'[n].do \in {"upsert", "event", "offer"}
  <1>1. TypeOK
    BY DEF TypeInv
  <1>2. Started /\ pc = "listen" /\ Idle /\ UNCHANGED <<pc, status>> /\ rx' = rx + 1
          /\ rx < RX_SLOTS
    <2>1. ReceiveNothing \/ \E next, still, effects : Handle(next, still, effects)
      BY <1>1, ReceiveMoves
    <2> QED
      BY <2>1 DEF ReceiveNothing, Handle, Listening, Started, Idle
  <1>3. rx' \in 0..RX_SLOTS
    BY <1>1, <1>2, Limits DEF TypeOK
  <1>4. CASE ReceiveNothing
    <2>1. /\ UNCHANGED <<peer, pending, todo, offers>> /\ todo = <<>> /\ todo \in Seq(Statement)
          /\ offers' \in [made : Nat, settled : Nat] /\ Closing(pending')
      BY <1>1, <1>4 DEF ReceiveNothing, Listening, Idle, TypeOK, Closing
    <2> QED
      BY <1>2, <1>3, <2>1, LenProperties
  <1>5. CASE \E next \in PeerState, still \in {pending, FALSE}, effects \in Seq(Statement) :
               /\ Handle(next, still, effects) /\ Closing(still)
               /\ Gentle(next, effects)
               /\ \A n \in 1..Len(effects) : effects[n].do \in {"upsert", "event", "offer"}
    <2>1. PICK next \in PeerState, still \in {pending, FALSE}, effects \in Seq(Statement) :
            /\ Handle(next, still, effects) /\ Closing(still)
            /\ Gentle(next, effects)
            /\ \A n \in 1..Len(effects) : effects[n].do \in {"upsert", "event", "offer"}
      BY <1>5
    <2>2. peer' = next /\ pending' = still /\ todo' = effects
      BY <2>1 DEF Handle
    <2>3. /\ peer' \in PeerState /\ pending' \in {pending, FALSE} /\ todo' \in Seq(Statement)
          /\ \A n \in 1..Len(todo') : todo'[n].do \in {"upsert", "event", "offer"}
      BY <2>1, <2>2
    <2>4. Gentle(peer', todo') /\ Closing(pending')
      BY <2>1, <2>2 DEF Gentle, Closing
    <2>5. offers' \in [made : Nat, settled : Nat]
      BY <1>1, <2>4 DEF Closing, Settled, TypeOK
    <2> QED
      BY <1>2, <1>3, <2>3, <2>4, <2>5, LenProperties
  <1> QED
    BY <1>1, <1>4, <1>5, ReceiveMoves

Talk == Greet \/ GreetFails \/ Report

LEMMA TalkMoves ==
  ASSUME TypeInv, Talk
  PROVE  /\ Started /\ pc \in {"start", "listen"} /\ Idle
         /\ UNCHANGED <<rx, peer, pending, status, offers>>
         /\ pc' \in {"listen", "console"}
         /\ todo' \in Seq(Statement) /\ Len(todo') \in Nat
         /\ \A n \in 1..Len(todo') :
              \/ todo'[n].do = "event" /\ todo'[n].type \notin Decision
              \/ todo'[n].do = "send" /\ todo'[n].msg \in {"HELLO", "CAPS", "AUDIT_BLOCK"}
  <1> DEFINE Fine(s) == /\ s \in Statement
                        /\ \/ s.do = "event" /\ s.type \notin Decision
                           \/ s.do = "send" /\ s.msg \in {"HELLO", "CAPS", "AUDIT_BLOCK"}
  <1>1. Started /\ pc \in {"start", "listen"} /\ Idle
          /\ UNCHANGED <<rx, peer, pending, status, offers>> /\ pc' \in {"listen", "console"}
    BY DEF Talk, Greet, GreetFails, Report, Started
  <1>2. /\ \A msg \in {"HELLO", "CAPS", "AUDIT_BLOCK"} : Fine(Send(msg))
        /\ Fine(Event("VITANET_HELLO_SENT", "")) /\ Fine(Event("VITANET_ERROR", ""))
        /\ \A id \in PeerId : Fine(Event("AUDIT_REPLICATION_ATTEMPTED", id))
    <2>1. /\ {"HELLO", "CAPS", "AUDIT_BLOCK"} \subseteq Msg
          /\ {"VITANET_HELLO_SENT", "VITANET_ERROR", "AUDIT_REPLICATION_ATTEMPTED"}
               \subseteq EventType \ Decision
      BY DEF Msg, EventType, Decision
    <2> QED
      BY <2>1, StatementsAre, NoNameIs DEF Send, Event
  <1> HIDE DEF Fine
  <1>3. ASSUME Greet
        PROVE  todo' \in Seq(Statement) /\ \A n \in 1..Len(todo') : Fine(todo'[n])
    <2> DEFINE a == Send("HELLO")
               b == Send("CAPS")
               c == Event("VITANET_HELLO_SENT", "")
    <2>1. Fine(a) /\ Fine(b) /\ Fine(c) /\ todo' = <<a, b, c>>
      BY <1>2, <1>3 DEF Greet
    <2>2. a \in Statement /\ b \in Statement /\ c \in Statement
      BY <2>1 DEF Fine
    <2> HIDE DEF a, b, c
    <2> QED
      BY <2>1, <2>2
  <1>4. ASSUME GreetFails
        PROVE  todo' \in Seq(Statement) /\ \A n \in 1..Len(todo') : Fine(todo'[n])
    <2> DEFINE a == Event("VITANET_ERROR", "")
    <2>1. Fine(a) /\ todo' = <<a>>
      BY <1>2, <1>4 DEF GreetFails
    <2>2. a \in Statement
      BY <2>1 DEF Fine
    <2> HIDE DEF a
    <2> QED
      BY <2>1, <2>2
  <1>5. ASSUME Report
        PROVE  todo' \in Seq(Statement) /\ \A n \in 1..Len(todo') : Fine(todo'[n])
    <2>1. CASE todo' = <<>>
      BY <2>1
    <2>2. CASE peer # NoPeer /\ todo' = <<Send("AUDIT_BLOCK"),
                                          Event("AUDIT_REPLICATION_ATTEMPTED", peer.id)>>
      <3> DEFINE a == Send("AUDIT_BLOCK")
                 b == Event("AUDIT_REPLICATION_ATTEMPTED", peer.id)
      <3>1. peer.id \in PeerId
        BY <2>2 DEF TypeInv, TypeOK, PeerState
      <3>2. Fine(a) /\ Fine(b) /\ todo' = <<a, b>>
        BY <1>2, <2>2, <3>1
      <3>3. a \in Statement /\ b \in Statement
        BY <3>2 DEF Fine
      <3> HIDE DEF a, b
      <3> QED
        BY <3>2, <3>3
    <2> QED
      BY <1>5, <2>1, <2>2 DEF Report
  <1>6. todo' \in Seq(Statement) /\ \A n \in 1..Len(todo') : Fine(todo'[n])
    BY <1>3, <1>4, <1>5 DEF Talk
  <1> QED
    BY <1>1, <1>6, LenProperties DEF Fine

LEMMA AnswerLinkMoves ==
  ASSUME TypeInv, NEW response \in Response, AnswerLink(response)
  PROVE  /\ Started /\ pc = "console" /\ Idle /\ UNCHANGED <<pc, rx, status, offers>>
         /\ pending = TRUE /\ pending' = FALSE /\ peer # NoPeer /\ peer' \in PeerState
         /\ todo' \in Seq(Statement) /\ Len(todo') = 4
         /\ todo'[1].do = "event" /\ todo'[1].type = LinkEvent(response)
         /\ todo'[2] = Send(LinkMsg(response)) /\ todo'[2].do = "send"
         /\ todo'[3].do = "upsert"
         /\ todo'[4].do = "respond" /\ todo'[4].id = LINK
  <1>1. /\ Started /\ pc = "console" /\ Idle /\ UNCHANGED <<pc, rx, status, offers>>
        /\ pending = TRUE /\ pending' = FALSE /\ peer # NoPeer /\ peer \in PeerState
    BY DEF AnswerLink, Console, Started, TypeInv, TypeOK
  <1>2. peer' \in PeerState /\ peer.id \in PeerId
    BY <1>1 DEF AnswerLink, PeerState, Verdict, LinkState
  <1> DEFINE a == Event(LinkEvent(response), peer.id)
             b == Send(LinkMsg(response))
             c == Upsert
             d == Respond(LINK, response)
  <1>3. a \in Statement /\ b \in Statement /\ c \in Statement /\ d \in Statement
    <2>1. LinkEvent(response) \in EventType /\ LinkMsg(response) \in Msg
      BY DEF LinkEvent, LinkMsg, EventType, Decision, Msg
    <2> QED
      BY <1>2, <2>1, StatementsAre
  <1>4. /\ a.do = "event" /\ a.type = LinkEvent(response) /\ b.do = "send"
        /\ c.do = "upsert" /\ d.do = "respond" /\ d.id = LINK
    BY DEF Event, Send, Upsert, Respond
  <1>5. todo' = <<a, b, c, d>>
    BY DEF AnswerLink
  <1> HIDE DEF a, b, c, d
  <1>6. /\ todo' \in Seq(Statement) /\ Len(todo') = 4
        /\ todo'[1] = a /\ todo'[2] = b /\ todo'[3] = c /\ todo'[4] = d
    BY <1>3, <1>5
  <1> QED
    BY <1>1, <1>2, <1>4, <1>6 DEF b

LEMMA AnswerProposalMoves ==
  ASSUME TypeInv, NEW response \in Response, NEW s \in Slot, AnswerProposal(s, response)
  PROVE  /\ Started /\ pc = "console" /\ Idle /\ UNCHANGED <<pc, rx, peer, pending, offers>>
         /\ status \in [Slot -> {"PENDING", "APPROVED", "REJECTED"}]
         /\ status' = [status EXCEPT ![s] = NewStatus(response)]
         /\ todo' \in Seq(Statement) /\ Len(todo') = 2
         /\ todo'[1].do = "respond" /\ todo'[1].id = s /\ todo'[1].response = response
         /\ todo'[2].do = "event" /\ todo'[2].type \notin Decision
  <1>1. /\ Started /\ pc = "console" /\ Idle /\ UNCHANGED <<pc, rx, peer, pending, offers>>
        /\ status' = [status EXCEPT ![s] = NewStatus(response)]
    BY DEF AnswerProposal, Console, Started
  <1>2. status \in [Slot -> {"PENDING", "APPROVED", "REJECTED"}]
    BY <1>1 DEF TypeInv, TypeOK
  <1> DEFINE a == Respond(s, response)
             b == Event(SlotEvent(response), s)
  <1>3. a \in Statement /\ b \in Statement
    <2>1. SlotEvent(response) \in EventType
      BY DEF SlotEvent, EventType
    <2> QED
      BY <2>1, StatementsAre
  <1>4. /\ a.do = "respond" /\ a.id = s /\ a.response = response
        /\ b.do = "event" /\ b.type \notin Decision
    BY DEF Event, Respond, SlotEvent, Decision
  <1>5. todo' = <<a, b>>
    BY DEF AnswerProposal
  <1> HIDE DEF a, b
  <1>6. todo' \in Seq(Statement) /\ Len(todo') = 2 /\ todo'[1] = a /\ todo'[2] = b
    BY <1>3, <1>5
  <1> QED
    BY <1>1, <1>2, <1>4, <1>6

LEMMA NextIs ==
  ASSUME [Next]_vars
  PROVE  \/ \E ready \in BOOLEAN : Boot(ready)
         \/ Executing \/ Receive \/ Talk
         \/ \E response \in Response : AnswerLink(response)
         \/ \E response \in Response, s \in Slot : AnswerProposal(s, response)
         \/ Stop \/ UNCHANGED vars
  BY DEF Next, Step, Command, Executing, Talk

LEMMA TypeNext ==
  ASSUME TypeInv, [Next]_vars
  PROVE  TypeInv'
  <1>1. TypeOK /\ Shape /\ Effects
    BY DEF TypeInv
  <1>2. ASSUME NEW ready \in BOOLEAN, Boot(ready)
        PROVE  TypeInv'
    <2>1. /\ pc = "off" /\ boot' = boot + 1 /\ boot < MAX_BOOT /\ audit_ready' = ready
          /\ pc' = IF ready THEN "start" ELSE "console"
          /\ status' = [s \in Slot |-> "PENDING"]
          /\ UNCHANGED <<rx, peer, pending, sent, node_peer, ai_proposal, human_response,
                         audited, offers, faults>>
      BY <1>2 DEF Boot, tables
    <2>2. /\ todo' \in Seq(Statement) /\ \A n \in 1..Len(todo') : todo'[n].do \in {"persist", "event"}
      BY <1>2, BootTodo
    <2>3. boot' \in 1..MAX_BOOT /\ \A i \in DOMAIN ai_proposal' : ai_proposal'[i] \in 1..boot'
      BY <1>1, <2>1, Limits DEF TypeOK
    <2>4. TypeOK'
      BY <1>1, <2>1, <2>2, <2>3 DEF TypeOK
    <2>5. Shape' /\ Effects'
      BY <1>1, <2>1, <2>2, <2>3 DEF Shape, Effects
    <2> QED
      BY <2>4, <2>5 DEF TypeInv
  <1>3. CASE Executing
    <2>1. TypeOK'
      BY <1>3, TypeExecute
    <2>2. /\ UNCHANGED <<pc, audit_ready, peer, boot>> /\ pc # "off" /\ boot \in 1..MAX_BOOT
          /\ Skipped \/ Offered \/ Audited \/ Upserted \/ Persisted \/ Responded \/ Sent
      BY <1>1, <1>3, ExecuteMoves, ExecuteRuns DEF Fixed
    <2>3. Shape'
      BY <1>1, <2>2 DEF Shape
    <2>4. Effects'
      <3>1. CASE todo' = Tail(todo)
        <4> SUFFICES ASSUME NEW n \in 1..Len(todo')
                     PROVE  /\ todo'[n].do \in {"upsert", "offer"} => peer # NoPeer
                            /\ todo'[n].do = "send" /\ todo'[n].msg \in {"LINK_ACCEPT", "LINK_REJECT"}
                                 => peer # NoPeer
                            /\ todo'[n].do = "respond" =>
                                 n = IF todo'[n].id = LINK THEN Len(todo') ELSE 1
                            /\ todo'[n].do = "respond" /\ todo'[n].id = LINK => peer # NoPeer
          BY <2>2 DEF Effects
        <4>1. todo'[n] = todo[n + 1] /\ n + 1 \in 1..Len(todo) /\ Len(todo) = Len(todo') + 1
          BY <1>3, <3>1, ExecuteRuns
        <4>2. /\ todo[n + 1].do \in {"upsert", "offer"} => peer # NoPeer
              /\ todo[n + 1].do = "send" /\ todo[n + 1].msg \in {"LINK_ACCEPT", "LINK_REJECT"}
                   => peer # NoPeer
              /\ todo[n + 1].do = "respond" =>
                   n + 1 = IF todo[n + 1].id = LINK THEN Len(todo) ELSE 1
              /\ todo[n + 1].do = "respond" /\ todo[n + 1].id = LINK => peer # NoPeer
          BY <1>1, <4>1 DEF Effects
        <4>3. Len(todo') \in Nat /\ Len(todo) \in Nat
          BY <1>3, <3>1, ExecuteRuns
        <4> QED
          BY <4>1, <4>2, <4>3
      <3>2. CASE Offered
        <4>1. /\ Len(todo') = Len(todo) /\ todo'[1].do = "event"
              /\ \A n \in 2..Len(todo) : todo'[n] = todo[n]
          BY <1>3, <3>2, OfferedTodo
        <4>2. Len(todo) \in Nat
          BY <1>3, ExecuteRuns
        <4>3. \A n \in 1..Len(todo) : n = 1 \/ n \in 2..Len(todo)
          BY <4>2
        <4> QED
          BY <1>1, <2>2, <4>1, <4>3 DEF Effects
      <3> QED
        BY <2>2, <3>1, <3>2 DEF Skipped, Audited, Upserted, Persisted, Responded, Sent
    <2> QED
      BY <2>1, <2>3, <2>4 DEF TypeInv
  <1>4. CASE Receive
    <2>1. /\ Started /\ pc = "listen" /\ UNCHANGED <<pc, status>> /\ rx' \in 0..RX_SLOTS
          /\ todo' \in Seq(Statement) /\ Len(todo') \in Nat /\ pending' \in {pending, FALSE}
          /\ offers' \in [made : Nat, settled : Nat]
          /\ \/ UNCHANGED <<peer, pending>> /\ todo' = <<>>
             \/ /\ peer' \in PeerState
                /\ \A n \in 1..Len(todo') : todo'[n].do \in {"upsert", "event", "offer"}
      BY <1>4, HandleMoves
    <2>2. TypeOK'
      BY <1>1, <2>1, StartedType DEF TypeOK
    <2>3. Shape'
      BY <1>1, <2>1 DEF Shape, Started
    <2>4. Effects'
      BY <2>1, PeerIsSome DEF Effects
    <2> QED
      BY <2>2, <2>3, <2>4 DEF TypeInv
  <1>5. CASE Talk
    <2>1. /\ Started /\ pc \in {"start", "listen"} /\ UNCHANGED <<rx, peer, pending, status, offers>>
          /\ pc' \in {"listen", "console"} /\ todo' \in Seq(Statement) /\ Len(todo') \in Nat
          /\ \A n \in 1..Len(todo') :
               \/ todo'[n].do = "event"
               \/ todo'[n].do = "send" /\ todo'[n].msg \in {"HELLO", "CAPS", "AUDIT_BLOCK"}
      BY <1>5, TalkMoves
    <2>2. TypeOK'
      BY <1>1, <2>1, StartedType DEF TypeOK
    <2>3. Shape'
      BY <1>1, <2>1 DEF Shape, Started
    <2>4. Effects'
      BY <2>1 DEF Effects
    <2> QED
      BY <2>2, <2>3, <2>4 DEF TypeInv
  <1>6. ASSUME NEW response \in Response, AnswerLink(response)
        PROVE  TypeInv'
    <2>1. /\ Started /\ pc = "console" /\ UNCHANGED <<pc, rx, status, offers>>
          /\ pending' = FALSE /\ peer # NoPeer /\ peer' \in PeerState
          /\ todo' \in Seq(Statement) /\ Len(todo') = 4
          /\ todo'[1].do = "event" /\ todo'[2].do = "send" /\ todo'[3].do = "upsert"
          /\ todo'[4].do = "respond" /\ todo'[4].id = LINK
      BY <1>6, AnswerLinkMoves
    <2>2. TypeOK'
      BY <1>1, <2>1, StartedType DEF TypeOK
    <2>3. Shape'
      BY <1>1, <2>1 DEF Shape, Started
    <2>4. Effects'
      <3>1. \A n \in 1..4 : n = 1 \/ n = 2 \/ n = 3 \/ n = 4
        OBVIOUS
      <3>2. peer' # NoPeer
        BY <2>1, PeerIsSome
      <3> QED
        BY <2>1, <3>1, <3>2 DEF Effects
    <2> QED
      BY <2>2, <2>3, <2>4 DEF TypeInv
  <1>7. ASSUME NEW response \in Response, NEW s \in Slot, AnswerProposal(s, response)
        PROVE  TypeInv'
    <2>1. /\ Started /\ pc = "console" /\ UNCHANGED <<pc, rx, peer, pending, offers>>
          /\ status \in [Slot -> {"PENDING", "APPROVED", "REJECTED"}]
          /\ status' = [status EXCEPT ![s] = NewStatus(response)]
          /\ todo' \in Seq(Statement) /\ Len(todo') = 2
          /\ todo'[1].do = "respond" /\ todo'[1].id = s /\ todo'[2].do = "event"
      BY <1>7, AnswerProposalMoves
    <2>2. status' \in [Slot -> {"PENDING", "APPROVED", "REJECTED"}]
      BY <2>1 DEF NewStatus
    <2>3. TypeOK'
      BY <1>1, <2>1, <2>2 DEF TypeOK, Started, tables
    <2>4. Shape'
      BY <1>1, <2>1 DEF Shape, Started
    <2>5. Effects'
      <3>1. \A n \in 1..2 : n = 1 \/ n = 2
        OBVIOUS
      <3>2. s # LINK
        BY ProposalsAssumption
      <3> QED
        BY <2>1, <3>1, <3>2 DEF Effects
    <2> QED
      BY <2>3, <2>4, <2>5 DEF TypeInv
  <1>8. CASE Stop
    <2>1. /\ pc' = "off" /\ todo' = <<>> /\ audit_ready' = FALSE /\ peer' = NoPeer
          /\ pending' = FALSE /\ rx' = 0 /\ sent' = {} /\ audited' = {} /\ offers' = NoOffers
          /\ faults' = [faults EXCEPT !.now = 0]
          /\ UNCHANGED <<node_peer, ai_proposal, human_response, boot>>
      BY <1>8 DEF Stop, tables
    <2>2. faults' \in [now : Nat, ever : Nat] /\ faults'.now <= faults'.ever /\ faults'.ever <= MAX_FAULTS
      BY <1>1, <2>1 DEF TypeOK
    <2>3. todo' \in Seq(Statement) /\ Len(todo') = 0 /\ rx' \in 0..RX_SLOTS
          /\ offers' \in [made : Nat, settled : Nat]
      BY <2>1, Limits DEF NoOffers
    <2>4. TypeOK'
      BY <1>1, <2>1, <2>2, <2>3 DEF TypeOK
    <2> QED
      BY <2>1, <2>3, <2>4 DEF TypeInv, Shape, Effects
  <1>9. CASE UNCHANGED vars
    BY <1>1, <1>9 DEF TypeInv, TypeOK, Shape, Effects, vars, memory, tables
  <1> QED
    BY <1>2, <1>3, <1>4, <1>5, <1>6, <1>7, <1>8, <1>9, NextIs

-----------------------------------------------------------------------------
(* The decision is audited before the peer is told *)

\* The decision is in the audit log, or is recorded before statement n.
Ahead(n, response) ==
  \/ LinkEvent(response) \in audited
  \/ \E m \in 1..(n - 1) : todo[m].do = "event" /\ todo[m].type = LinkEvent(response)

Announcing ==
  faults.now = 0 =>
    \A response \in Response :
      /\ LinkMsg(response) \in sent => LinkEvent(response) \in audited
      /\ \A n \in 1..Len(todo) :
           todo[n].do = "send" /\ todo[n].msg = LinkMsg(response) => Ahead(n, response)

\* A list of statements that tells the peer nothing.
LEMMA NothingAnnounced ==
  ASSUME Announcing, UNCHANGED <<sent, audited, faults>>,
         \A n \in 1..Len(todo') :
           todo'[n].do = "send" => todo'[n].msg \notin {"LINK_ACCEPT", "LINK_REJECT"}
  PROVE  Announcing'
  <1>1. \A response \in Response : LinkMsg(response) \in {"LINK_ACCEPT", "LINK_REJECT"}
    BY DEF LinkMsg
  <1> QED
    BY <1>1 DEF Announcing

LEMMA AnnouncingExecute ==
  ASSUME TypeInv, Announcing, Executing
  PROVE  Announcing'
  <1>1. /\ UNCHANGED <<audit_ready, peer>> /\ (faults'.now = 0 => faults' = faults)
        /\ Skipped \/ Offered \/ Audited \/ Upserted \/ Persisted \/ Responded \/ Sent
    BY ExecuteMoves DEF TypeInv, Fixed
  <1>2. /\ Len(todo) \in Nat /\ Len(Tail(todo)) \in Nat /\ Len(Tail(todo)) = Len(todo) - 1
        /\ 1 \in 1..Len(todo)
        /\ \A n \in 1..Len(Tail(todo)) : n + 1 \in 1..Len(todo) /\ Tail(todo)[n] = todo[n + 1]
    BY ExecuteRuns
  <1> SUFFICES ASSUME faults'.now = 0, NEW response \in Response
               PROVE  /\ LinkMsg(response) \in sent' => LinkEvent(response) \in audited'
                      /\ \A n \in 1..Len(todo') :
                           todo'[n].do = "send" /\ todo'[n].msg = LinkMsg(response)
                             => Ahead(n, response)'
    BY DEF Announcing
  <1>3. /\ LinkMsg(response) \in sent => LinkEvent(response) \in audited
        /\ \A n \in 1..Len(todo) :
             todo[n].do = "send" /\ todo[n].msg = LinkMsg(response) => Ahead(n, response)
    BY <1>1 DEF Announcing
  <1>4. /\ LinkMsg(response) \in {"LINK_ACCEPT", "LINK_REJECT"} /\ LinkEvent(response) \in Decision
    BY DEF LinkMsg, LinkEvent, Decision
  <1>5. CASE todo' = Tail(todo)
    <2>1. audited \subseteq audited'
      BY <1>1, <1>5 DEF Skipped, Offered, Audited, Upserted, Persisted, Responded, Sent
    <2>2. ASSUME audit_ready, todo[1].do = "event", todo[1].type = LinkEvent(response)
          PROVE  LinkEvent(response) \in audited'
      BY <1>1, <1>4, <2>2
        DEF Skipped, Offered, Audited, Upserted, Persisted, Responded, Sent
    <2>3. ASSUME NEW n \in 1..Len(todo'),
                 todo'[n].do = "send", todo'[n].msg = LinkMsg(response)
          PROVE  Ahead(n, response)'
      <3>1. n + 1 \in 1..Len(todo) /\ todo'[n] = todo[n + 1] /\ n \in Nat
        BY <1>2, <1>5
      <3>2. audit_ready
        BY <1>4, <2>3, <3>1 DEF TypeInv, Effects, Shape
      <3>3. Ahead(n + 1, response)
        BY <1>3, <2>3, <3>1
      <3>4. CASE LinkEvent(response) \in audited
        BY <2>1, <3>4 DEF Ahead
      <3>5. CASE \E m \in 1..((n + 1) - 1) : todo[m].do = "event" /\ todo[m].type = LinkEvent(response)
        <4>1. PICK m \in 1..n : todo[m].do = "event" /\ todo[m].type = LinkEvent(response)
          BY <3>1, <3>5
        <4>2. CASE m = 1
          BY <2>2, <3>2, <4>1, <4>2 DEF Ahead
        <4>3. CASE m # 1
          <5>1. m - 1 \in 1..(n - 1) /\ m - 1 \in 1..Len(todo') /\ (m - 1) + 1 = m
            BY <1>2, <1>5, <3>1, <4>3
          <5>2. todo'[m - 1] = todo[m]
            BY <1>2, <1>5, <5>1
          <5> QED
            BY <4>1, <5>1, <5>2 DEF Ahead
        <4> QED
          BY <4>2, <4>3
      <3> QED
        BY <3>3, <3>4, <3>5 DEF Ahead
    <2>4. ASSUME LinkMsg(response) \in sent', LinkMsg(response) \notin sent
          PROVE  LinkEvent(response) \in audited'
      <3>1. todo[1].do = "send" /\ todo[1].msg = LinkMsg(response)
        BY <1>1, <2>4 DEF Skipped, Offered, Audited, Upserted, Persisted, Responded, Sent, tables
      <3>2. Ahead(1, response)
        BY <1>2, <1>3, <3>1
      <3> QED
        BY <2>1, <3>2 DEF Ahead
    <2> QED
      BY <1>3, <2>1, <2>3, <2>4
  <1>6. CASE Offered
    <2>1. /\ Len(todo') = Len(todo) /\ todo'[1].do = "event"
          /\ \A n \in 2..Len(todo) : todo'[n] = todo[n]
          /\ todo[1].do = "offer" /\ UNCHANGED <<sent, audited>>
      BY <1>6, OfferedTodo DEF Offered
    <2>2. ASSUME NEW n \in 1..Len(todo'),
                 todo'[n].do = "send", todo'[n].msg = LinkMsg(response)
          PROVE  Ahead(n, response)'
      <3>1. n \in 2..Len(todo) /\ n \in Nat
        BY <1>2, <2>1, <2>2
      <3>2. Ahead(n, response)
        BY <1>3, <2>1, <2>2, <3>1
      <3>3. \A m \in 1..(n - 1) : m = 1 \/ m \in 2..Len(todo)
        BY <1>2, <3>1
      <3> QED
        BY <2>1, <3>2, <3>3 DEF Ahead
    <2> QED
      BY <1>3, <2>1, <2>2
  <1> QED
    BY <1>1, <1>5, <1>6 DEF Skipped, Audited, Upserted, Persisted, Responded, Sent

LEMMA AnnouncingNext ==
  ASSUME TypeInv, Announcing, [Next]_vars
  PROVE  Announcing'
  <1>1. ASSUME NEW ready \in BOOLEAN, Boot(ready)
        PROVE  Announcing'
    <2>1. \A n \in 1..Len(todo') : todo'[n].do \in {"persist", "event"}
      BY <1>1, BootTodo
    <2> QED
      BY <1>1, <2>1, NothingAnnounced DEF Boot
  <1>2. CASE Executing
    BY <1>2, AnnouncingExecute
  <1>3. CASE Receive
    <2>1. /\ Started
          /\ todo' = <<>> \/ \A n \in 1..Len(todo') : todo'[n].do \in {"upsert", "event", "offer"}
      BY <1>3, HandleMoves
    <2> QED
      BY <2>1, NothingAnnounced DEF Started
  <1>4. CASE Talk
    <2>1. /\ Started
          /\ \A n \in 1..Len(todo') :
               todo'[n].do = "send" => todo'[n].msg \in {"HELLO", "CAPS", "AUDIT_BLOCK"}
      BY <1>4, TalkMoves
    <2> QED
      BY <2>1, NothingAnnounced DEF Started
  <1>5. ASSUME NEW response \in Response, AnswerLink(response)
        PROVE  Announcing'
    <2>1. /\ UNCHANGED <<sent, audited, faults>> /\ Len(todo') = 4
          /\ todo'[1].do = "event" /\ todo'[1].type = LinkEvent(response)
          /\ todo'[2] = Send(LinkMsg(response))
          /\ todo'[3].do = "upsert" /\ todo'[4].do = "respond"
      BY <1>5, AnswerLinkMoves DEF Started
    <2>2. \A r \in Response : LinkMsg(r) = LinkMsg(response) => r = response
      BY DEF LinkMsg, Response
    <2>3. ASSUME NEW r \in Response, NEW n \in 1..4,
                 todo'[n].do = "send", todo'[n].msg = LinkMsg(r)
          PROVE  Ahead(n, r)'
      <3>1. n = 2
        <4>1. n = 1 \/ n = 2 \/ n = 3 \/ n = 4
          OBVIOUS
        <4> QED
          BY <2>1, <2>3, <4>1
      <3>2. r = response
        BY <2>1, <2>2, <2>3, <3>1 DEF Send
      <3>3. 1 \in 1..(n - 1)
        BY <3>1
      <3> QED
        BY <2>1, <3>2, <3>3 DEF Ahead
    <2> QED
      BY <2>1, <2>3 DEF Announcing
  <1>6. ASSUME NEW response \in Response, NEW s \in Slot, AnswerProposal(s, response)
        PROVE  Announcing'
    <2>1. /\ Started /\ Len(todo') = 2 /\ todo'[1].do = "respond" /\ todo'[2].do = "event"
      BY <1>6, AnswerProposalMoves
    <2>2. \A n \in 1..2 : n = 1 \/ n = 2
      OBVIOUS
    <2> QED
      BY <2>1, <2>2, NothingAnnounced DEF Started
  <1>7. CASE Stop
    BY <1>7 DEF Stop, Announcing
  <1>8. CASE UNCHANGED vars
    BY <1>8 DEF Announcing, Ahead, vars, memory
  <1> QED
    BY <1>1, <1>2, <1>3, <1>4, <1>5, <1>6, <1>7, <1>8, NextIs

-----------------------------------------------------------------------------
(* The row of the peer *)

RowOrUpsert ==
  faults.now = 0 /\ peer # NoPeer /\ peer.id \notin {Unknown, NoName} =>
    \/ peer.id \in DOMAIN node_peer /\ node_peer[peer.id] = peer
    \/ \E n \in 1..Len(todo) : todo[n].do = "upsert"

LEMMA RowNext ==
  ASSUME TypeInv, RowOrUpsert, [Next]_vars
  PROVE  RowOrUpsert'
  <1>1. ASSUME NEW ready \in BOOLEAN, Boot(ready)
        PROVE  RowOrUpsert'
    BY <1>1 DEF Boot, TypeInv, Shape, RowOrUpsert
  <1>2. CASE Executing
    <2>1. /\ UNCHANGED <<audit_ready, peer>> /\ (faults'.now = 0 => faults' = faults)
          /\ Skipped \/ Offered \/ Audited \/ Upserted \/ Persisted \/ Responded \/ Sent
      BY <1>2, ExecuteMoves DEF TypeInv, Fixed
    <2>2. /\ Len(todo) \in Nat /\ Len(Tail(todo)) = Len(todo) - 1
          /\ \A n \in 1..Len(Tail(todo)) : n + 1 \in 1..Len(todo) /\ Tail(todo)[n] = todo[n + 1]
      BY <1>2, ExecuteRuns
    <2> SUFFICES ASSUME faults'.now = 0, peer # NoPeer, peer.id \notin {Unknown, NoName}
                 PROVE  \/ peer.id \in DOMAIN node_peer' /\ node_peer'[peer.id] = peer
                        \/ \E n \in 1..Len(todo') : todo'[n].do = "upsert"
      BY <2>1 DEF RowOrUpsert
    <2>3. peer \in PeerState /\ audit_ready
      BY DEF TypeInv, TypeOK, Shape
    <2>4. CASE Upserted
      BY <2>3, <2>4, UpsertType DEF Upserted, TypeInv
    <2>5. CASE ~Upserted
      <3>1. UNCHANGED node_peer /\ todo[1].do # "upsert"
        BY <2>1, <2>3, <2>5, <1>2, ExecuteRuns
          DEF Skipped, Offered, Audited, Persisted, Responded, Sent, tables
      <3>2. ASSUME NEW n \in 1..Len(todo), todo[n].do = "upsert"
            PROVE  \E m \in 1..Len(todo') : todo'[m].do = "upsert"
        <4>1. n # 1
          BY <3>1, <3>2
        <4>2. CASE todo' = Tail(todo)
          <5>1. n - 1 \in 1..Len(todo') /\ (n - 1) + 1 = n
            BY <2>2, <4>1, <4>2
          <5>2. todo'[n - 1] = todo[n]
            BY <2>2, <4>2, <5>1
          <5> QED
            BY <3>2, <5>1, <5>2
        <4>3. CASE Offered
          <5>1. n \in 2..Len(todo)
            BY <2>2, <4>1
          <5>2. todo'[n] = todo[n] /\ n \in 1..Len(todo')
            BY <1>2, <4>3, <5>1, OfferedTodo
          <5> QED
            BY <3>2, <5>2
        <4> QED
          BY <2>1, <2>5, <4>2, <4>3 DEF Skipped, Audited, Persisted, Responded, Sent
      <3> QED
        BY <2>1, <3>1, <3>2 DEF RowOrUpsert
    <2> QED
      BY <2>4, <2>5
  <1>3. CASE Receive
    <2>1. /\ Started /\ Idle
          /\ \/ UNCHANGED <<peer, pending>> /\ todo' = <<>>
             \/ Gentle(peer', todo')
      BY <1>3, HandleMoves
    <2>2. UNCHANGED <<node_peer, faults>> /\ Len(todo) = 0
      BY <2>1 DEF Started, tables, Idle
    <2>3. CASE UNCHANGED peer
      BY <2>2, <2>3 DEF RowOrUpsert
    <2>4. CASE todo' = <<>> /\ peer' = Heard /\ peer' # peer
      BY <2>4 DEF Heard, RowOrUpsert
    <2>5. CASE 1 \in 1..Len(todo') /\ todo'[1].do = "upsert"
      BY <2>5 DEF RowOrUpsert
    <2> QED
      BY <2>1, <2>3, <2>4, <2>5 DEF Gentle
  <1>4. CASE Talk
    BY <1>4, TalkMoves DEF Started, tables, Idle, RowOrUpsert
  <1>5. ASSUME NEW response \in Response, AnswerLink(response)
        PROVE  RowOrUpsert'
    <2>1. Len(todo') = 4 /\ todo'[3].do = "upsert"
      BY <1>5, AnswerLinkMoves
    <2>2. 3 \in 1..Len(todo')
      BY <2>1
    <2> QED
      BY <2>1, <2>2 DEF RowOrUpsert
  <1>6. ASSUME NEW response \in Response, NEW s \in Slot, AnswerProposal(s, response)
        PROVE  RowOrUpsert'
    BY <1>6, AnswerProposalMoves DEF Started, tables, Idle, RowOrUpsert
  <1>7. CASE Stop
    BY <1>7 DEF Stop, RowOrUpsert
  <1>8. CASE UNCHANGED vars
    BY <1>8 DEF RowOrUpsert, vars, memory, tables
  <1> QED
    BY <1>1, <1>2, <1>3, <1>4, <1>5, <1>6, <1>7, <1>8, NextIs

-----------------------------------------------------------------------------
(* The answers of this boot *)

LEMMA AnswersType ==
  ASSUME TypeOK, NEW id
  PROVE  /\ human_response \in Seq(Answer) /\ Len(human_response) \in Nat
         /\ DOMAIN human_response = 1..Len(human_response)
         /\ Answers(id) \subseteq 1..Len(human_response)
         /\ IsFiniteSet(Answers(id)) /\ Cardinality(Answers(id)) \in Nat
  <1>1. /\ human_response \in Seq(Answer) /\ Len(human_response) \in Nat
        /\ DOMAIN human_response = 1..Len(human_response)
    BY LenProperties DEF TypeOK
  <1>2. Answers(id) \subseteq 1..Len(human_response)
    BY <1>1 DEF Answers
  <1>3. IsFiniteSet(1..Len(human_response))
    BY <1>1, FS_Interval
  <1> QED
    BY <1>1, <1>2, <1>3, FS_Subset, FS_CardinalityType

LEMMA AnswersStay ==
  ASSUME UNCHANGED <<human_response, boot>>
  PROVE  \A id : Answers(id)' = Answers(id)
  BY DEF Answers

\* A row more is the last answer to its proposal, and to no other.
LEMMA AnswersGrow ==
  ASSUME TypeInv, Executing, Responded
  PROVE  LET new == Len(human_response) + 1 IN
           /\ \A id : /\ new \notin Answers(id)
                      /\ Answers(id)' = IF id = todo[1].id THEN Answers(id) \union {new}
                                                           ELSE Answers(id)
                      /\ \A n \in Answers(id) : n <= new /\ human_response'[n] = human_response[n]
           /\ human_response'[new].response = todo[1].response
           /\ human_response'[new].boot = boot /\ Len(human_response') = new
           /\ \A n \in 1..Len(human_response) : human_response'[n] = human_response[n]
  <1> DEFINE new == Len(human_response) + 1
             row == [proposal |-> todo[1].id, boot |-> boot, response |-> todo[1].response]
  <1>1. TypeOK /\ UNCHANGED boot /\ human_response' = Append(human_response, row)
    BY ExecuteMoves DEF TypeInv, Fixed, Responded
  <1>2. /\ row.proposal = todo[1].id /\ row.boot = boot /\ row.response = todo[1].response
    OBVIOUS
  <1>3. row \in Answer
    <2>1. boot \in 1..MAX_BOOT /\ todo[1].id \in Slot \union {LINK} /\ todo[1].response \in Response
      BY ExecuteRuns, StatementIs DEF Responded
    <2> QED
      BY <2>1 DEF Answer
  <1> HIDE DEF row
  <1>4. /\ human_response \in Seq(Answer) /\ Len(human_response) \in Nat
        /\ DOMAIN human_response = 1..Len(human_response)
        /\ \A id : Answers(id) \subseteq 1..Len(human_response)
    BY <1>1, AnswersType
  <1>5. /\ human_response' \in Seq(Answer) /\ Len(human_response') = new
        /\ human_response'[new] = row
        /\ \A n \in 1..Len(human_response) : human_response'[n] = human_response[n]
        /\ DOMAIN human_response' = 1..new
    <2>1. /\ human_response' \in Seq(Answer) /\ Len(human_response') = new
          /\ human_response'[new] = row
          /\ \A n \in 1..Len(human_response) : human_response'[n] = human_response[n]
      BY <1>1, <1>3, <1>4, AppendProperties
    <2> QED
      BY <2>1, LenProperties
  <1>6. ASSUME NEW id
        PROVE  /\ new \notin Answers(id)
               /\ Answers(id)' = IF id = todo[1].id THEN Answers(id) \union {new} ELSE Answers(id)
               /\ \A n \in Answers(id) : n <= new /\ human_response'[n] = human_response[n]
    <2>1. \A n : n \in DOMAIN human_response' <=> n \in DOMAIN human_response \/ n = new
      BY <1>4, <1>5
    <2>2. new \notin Answers(id) /\ \A n \in Answers(id) : n <= new /\ n \in 1..Len(human_response)
      BY <1>4
    <2>3. \A n \in DOMAIN human_response :
            n \in Answers(id)' <=> n \in Answers(id)
      BY <1>1, <1>4, <1>5, <2>1 DEF Answers
    <2>4. new \in Answers(id)' <=> id = todo[1].id
      BY <1>1, <1>2, <1>5, <2>1 DEF Answers
    <2>5. Answers(id)' \subseteq DOMAIN human_response' /\ Answers(id) \subseteq DOMAIN human_response
      BY DEF Answers
    <2>6. CASE id = todo[1].id
      <3> HIDE DEF new
      <3>1. Answers(id)' = Answers(id) \union {new}
        BY <2>1, <2>3, <2>4, <2>5, <2>6
      <3> QED
        BY <1>5, <2>2, <2>6, <3>1
    <2>7. CASE id # todo[1].id
      <3> HIDE DEF new
      <3>1. Answers(id)' = Answers(id)
        BY <2>1, <2>3, <2>4, <2>5, <2>7
      <3> QED
        BY <1>5, <2>2, <2>7, <3>1
    <2> QED
      BY <2>6, <2>7
  <1> QED
    BY <1>2, <1>5, <1>6

\* What has become of the offers of this boot: closed, open, or about to be closed.
Count(b) == IF b THEN 1 ELSE 0

Owed == \E n \in 1..Len(todo) : todo[n].do = "respond" /\ todo[n].id = LINK

Accounted ==
  Cardinality(Answers(LINK)) + offers.settled + Count(pending) + Count(Owed)

\* Every offer is accounted for once, but for answers that were lost.
Balanced == Accounted <= offers.made /\ offers.made <= Accounted + faults.now

Ledger ==
  /\ \A n \in 1..Len(human_response) : human_response[n].boot <= boot
  /\ pc # "off" => Balanced
  /\ pending => LINK \in DOMAIN ai_proposal /\ ai_proposal[LINK] = boot

LEMMA AccountedType ==
  ASSUME TypeOK
  PROVE  /\ Cardinality(Answers(LINK)) \in Nat /\ IsFiniteSet(Answers(LINK))
         /\ offers.made \in Nat /\ offers.settled \in Nat /\ faults.now \in Nat
         /\ pending \in BOOLEAN /\ Owed \in BOOLEAN
         /\ Count(pending) \in {0, 1} /\ Count(Owed) \in {0, 1}
         /\ offers \in [made : Nat, settled : Nat]
  BY AnswersType DEF TypeOK, Owed, Count

\* A new boot has answered nothing yet.
LEMMA AnswersOfBoot ==
  ASSUME TypeInv, Ledger, NEW ready, Boot(ready)
  PROVE  \A id : Answers(id)' = {}
  <1>1. boot' = boot + 1 /\ boot \in Nat /\ UNCHANGED human_response
    BY Limits DEF Boot, tables, TypeInv, TypeOK
  <1>2. DOMAIN human_response = 1..Len(human_response)
    BY AnswersType DEF TypeInv
  <1>3. \A n \in 1..Len(human_response) : human_response[n].boot \in Nat
    <2>1. \A n \in 1..Len(human_response) : human_response[n] \in Answer
      BY ElementOfSeq DEF TypeInv, TypeOK
    <2> QED
      BY <2>1, Limits DEF Answer
  <1>4. \A n \in DOMAIN human_response' : human_response'[n].boot # boot'
    BY <1>1, <1>2, <1>3 DEF Ledger
  <1> QED
    BY <1>4 DEF Answers

\* What a statement does to the balance.
LEMMA LedgerExecute ==
  ASSUME TypeInv, Ledger, Executing
  PROVE  Ledger'
  <1>1. /\ UNCHANGED <<pc, boot>> /\ pc # "off" /\ boot \in 1..MAX_BOOT /\ TypeOK
        /\ faults.now <= faults'.now /\ faults'.now \in Nat
        /\ Skipped \/ Offered \/ Audited \/ Upserted \/ Persisted \/ Responded \/ Sent
    BY ExecuteMoves, ExecuteRuns DEF TypeInv, Fixed
  <1>2. /\ Len(todo) \in Nat /\ Len(Tail(todo)) \in Nat /\ Len(Tail(todo)) = Len(todo) - 1
        /\ 1 \in 1..Len(todo) /\ todo[1] \in Statement
        /\ \A n \in 1..Len(Tail(todo)) : n + 1 \in 1..Len(todo) /\ Tail(todo)[n] = todo[n + 1]
    BY ExecuteRuns
  <1>3. /\ Cardinality(Answers(LINK)) \in Nat /\ IsFiniteSet(Answers(LINK))
        /\ offers.made \in Nat /\ offers.settled \in Nat /\ faults.now \in Nat
        /\ pending \in BOOLEAN /\ Owed \in BOOLEAN
        /\ Count(pending) \in {0, 1} /\ Count(Owed) \in {0, 1}
        /\ offers \in [made : Nat, settled : Nat]
    BY <1>1, AccountedType
  <1>4. /\ Accounted = Cardinality(Answers(LINK)) + offers.settled + Count(pending) + Count(Owed)
        /\ Accounted <= offers.made /\ offers.made <= Accounted + faults.now
    BY <1>1 DEF Accounted, Ledger, Balanced
  <1>5. Accounted' = Cardinality(Answers(LINK)') + offers'.settled + Count(pending') + Count(Owed')
    BY DEF Accounted, Count
  <1>6. /\ Owed => Count(Owed) = 1
        /\ ~Owed => Count(Owed) = 0
        /\ ~Owed' => Count(Owed') = 0
        /\ (Owed' <=> Owed) => Count(Owed') = Count(Owed)
    BY <1>3 DEF Count
  \* An answer that is not about the link leaves the one that is where it was.
  <1>7. ASSUME todo' = Tail(todo), ~(todo[1].do = "respond" /\ todo[1].id = LINK)
        PROVE  Owed' <=> Owed
    <2>1. Owed' => Owed
      BY <1>2, <1>7 DEF Owed
    <2>2. ASSUME NEW n \in 1..Len(todo), todo[n].do = "respond", todo[n].id = LINK
          PROVE  Owed'
      <3>1. n - 1 \in 1..Len(todo') /\ (n - 1) + 1 = n
        BY <1>2, <1>7, <2>2
      <3>2. todo'[n - 1] = todo[n]
        BY <1>2, <1>7, <3>1
      <3> QED
        BY <2>2, <3>1, <3>2 DEF Owed
    <2> QED
      BY <2>1, <2>2 DEF Owed
  \* The one about the link is the last statement.
  <1>8. ASSUME todo' = Tail(todo), todo[1].do = "respond", todo[1].id = LINK
        PROVE  Owed /\ ~Owed'
    <2>1. 1 = Len(todo)
      BY <1>2, <1>8 DEF TypeInv, Effects
    <2>2. Len(todo') = 0
      BY <1>2, <1>8, <2>1
    <2> QED
      BY <1>2, <1>8, <2>2 DEF Owed
  <1>9. CASE Responded
    <2>1. /\ \A n \in 1..Len(human_response') : human_response'[n].boot <= boot'
          /\ LINK # todo[1].id => Answers(LINK)' = Answers(LINK)
          /\ LINK = todo[1].id =>
               /\ Answers(LINK)' = Answers(LINK) \union {Len(human_response) + 1}
               /\ Len(human_response) + 1 \notin Answers(LINK)
      <3>1. \A n \in 1..(Len(human_response) + 1) :
              n \in 1..Len(human_response) \/ n = Len(human_response) + 1
        BY <1>1, AnswersType
      <3>2. boot <= boot
        BY <1>1, Limits
      <3> QED
        BY <1>1, <1>9, <3>1, <3>2, AnswersGrow DEF Ledger
    <2>2. todo' = Tail(todo) /\ UNCHANGED <<pending, offers, ai_proposal>> /\ todo[1].do = "respond"
      BY <1>9 DEF Responded
    <2>3. Accounted' = Accounted
      <3>1. CASE todo[1].id = LINK
        <4>1. Cardinality(Answers(LINK)') = Cardinality(Answers(LINK)) + 1
          BY <1>3, <2>1, <3>1, FS_AddElement
        <4>2. Count(Owed) = 1 /\ Count(Owed') = 0
          BY <1>6, <1>8, <2>2, <3>1
        <4> QED
          BY <1>3, <1>4, <1>5, <2>2, <4>1, <4>2
      <3>2. CASE todo[1].id # LINK
        <4>1. Count(Owed') = Count(Owed) /\ Answers(LINK)' = Answers(LINK)
          BY <1>6, <1>7, <2>1, <2>2, <3>2
        <4> QED
          BY <1>4, <1>5, <2>2, <4>1
      <3> QED
        BY <3>1, <3>2
    <2>4. Balanced'
      BY <1>1, <1>3, <1>4, <2>2, <2>3 DEF Balanced
    <2> QED
      BY <1>1, <2>1, <2>2, <2>4 DEF Ledger
  <1>10. CASE Offered
    <2>1. /\ pending = FALSE /\ pending' = TRUE
          /\ offers'.made = offers.made + 1 /\ offers'.settled = offers.settled
          /\ UNCHANGED human_response /\ DoPersist(LINK)
      BY <1>3, <1>10 DEF Offered
    <2>2. LINK \in DOMAIN ai_proposal' /\ ai_proposal'[LINK] = boot'
      BY <1>1, <2>1, PersistType
    <2>3. Owed' <=> Owed
      <3>1. /\ Len(todo') = Len(todo) /\ todo'[1].do = "event" /\ todo[1].do = "offer"
            /\ \A n \in 2..Len(todo) : todo'[n] = todo[n]
        BY <1>10, OfferedTodo DEF Offered
      <3>2. \A n \in 1..Len(todo) : n = 1 \/ n \in 2..Len(todo)
        BY <1>2
      <3>3. Owed' => Owed
        BY <3>1, <3>2 DEF Owed
      <3>4. Owed => Owed'
        BY <3>1, <3>2 DEF Owed
      <3> QED
        BY <3>3, <3>4
    <2>4. Answers(LINK)' = Answers(LINK)
      BY <1>1, <2>1, AnswersStay
    <2>5. Accounted' = Accounted + 1
      <3>1. Count(pending) = 0 /\ Count(pending') = 1 /\ Count(Owed') = Count(Owed)
        BY <1>6, <2>1, <2>3 DEF Count
      <3> QED
        BY <1>3, <1>4, <1>5, <2>1, <2>4, <3>1
    <2>6. Balanced'
      <3>1. Accounted \in Nat
        BY <1>3, <1>4
      <3> QED
        BY <1>1, <1>3, <1>4, <2>1, <2>5, <3>1 DEF Balanced
    <2> QED
      BY <1>1, <2>1, <2>2, <2>6 DEF Ledger
  <1>11. CASE Skipped \/ Audited \/ Upserted \/ Persisted \/ Sent
    <2>1. UNCHANGED <<human_response, pending, offers>> /\ todo' = Tail(todo)
      BY <1>11 DEF Skipped, Audited, Upserted, Persisted, Sent, tables
    <2>2. Answers(LINK)' = Answers(LINK)
      BY <1>1, <2>1, AnswersStay
    <2>3. pending' => LINK \in DOMAIN ai_proposal' /\ ai_proposal'[LINK] = boot'
      <3>1. CASE UNCHANGED ai_proposal
        BY <1>1, <2>1, <3>1 DEF Ledger
      <3>2. CASE Persisted
        <4>1. todo[1].id \in Slot \union {LINK}
          BY <1>2, <3>2, StatementIs DEF Persisted
        <4>2. /\ DOMAIN ai_proposal' = DOMAIN ai_proposal \union {todo[1].id}
              /\ ai_proposal'[todo[1].id] = boot
              /\ \A i \in DOMAIN ai_proposal \ {todo[1].id} : ai_proposal'[i] = ai_proposal[i]
          BY <1>1, <3>2, <4>1, PersistType DEF Persisted
        <4>3. pending => LINK \in DOMAIN ai_proposal /\ ai_proposal[LINK] = boot
          BY DEF Ledger
        <4> QED
          BY <1>1, <2>1, <4>2, <4>3
      <3> QED
        BY <1>11, <3>1, <3>2 DEF Skipped, Audited, Upserted, Sent, tables
    \* An answer about the link is lost only to an insert that fails.
    <2>4. CASE todo[1].do = "respond" /\ todo[1].id = LINK
      <3>1. Skipped
        BY <1>11, <2>4 DEF Audited, Upserted, Persisted, Sent
      <3>2. audit_ready
        BY <1>2, <2>4 DEF TypeInv, Effects, Shape
      <3>3. faults'.now = faults.now + 1
        BY <2>4, <3>1, <3>2 DEF Skipped
      <3>4. Count(Owed) = 1 /\ Count(Owed') = 0
        BY <1>6, <1>8, <2>1, <2>4
      <3>5. Accounted = Accounted' + 1 /\ Accounted' \in Nat
        BY <1>3, <1>4, <1>5, <2>1, <2>2, <3>4
      <3>6. Balanced'
        BY <1>1, <1>3, <1>4, <2>1, <3>3, <3>5 DEF Balanced
      <3> QED
        BY <1>1, <2>1, <2>3, <3>6 DEF Ledger
    <2>5. CASE ~(todo[1].do = "respond" /\ todo[1].id = LINK)
      <3>1. Count(Owed') = Count(Owed)
        BY <1>6, <1>7, <2>1, <2>5
      <3>2. Accounted' = Accounted /\ Accounted \in Nat
        BY <1>3, <1>4, <1>5, <2>1, <2>2, <3>1
      <3>3. Balanced'
        BY <1>1, <1>3, <1>4, <2>1, <3>2 DEF Balanced
      <3> QED
        BY <1>1, <2>1, <2>3, <3>3 DEF Ledger
    <2> QED
      BY <2>4, <2>5
  <1> QED
    BY <1>1, <1>9, <1>10, <1>11

\* A step that starts a list of statements and leaves the pending proposal, or
\* has it settled by the peer.
LEMMA LedgerStarted ==
  ASSUME TypeInv, Ledger, Started, Idle, pc # "off", pc' # "off", Closing(pending'), ~Owed'
  PROVE  Ledger'
  <1>1. UNCHANGED <<human_response, ai_proposal, boot, faults>> /\ TypeOK
    BY DEF Started, tables, TypeInv
  <1>2. Answers(LINK)' = Answers(LINK)
    BY <1>1, AnswersStay
  <1>3. /\ Cardinality(Answers(LINK)) \in Nat
        /\ offers.made \in Nat /\ offers.settled \in Nat /\ faults.now \in Nat
        /\ pending \in BOOLEAN /\ offers \in [made : Nat, settled : Nat]
    BY <1>1, AccountedType
  <1>4. ~Owed
    <2>1. Len(todo) = 0
      BY DEF Idle
    <2> QED
      BY <2>1 DEF Owed
  <1>5. /\ offers'.made = offers.made
        /\ offers'.settled + Count(pending') = offers.settled + Count(pending)
        /\ pending' => pending
    <2>1. CASE pending' = pending /\ UNCHANGED offers
      BY <2>1
    <2>2. CASE pending' = FALSE /\ Settled
      BY <1>3, <2>2 DEF Settled, Count
    <2> QED
      BY <2>1, <2>2 DEF Closing
  <1>6. Count(pending) \in {0, 1} /\ Count(pending') \in {0, 1} /\ offers'.settled \in Nat
          /\ Count(Owed) = 0 /\ Count(Owed') = 0
    BY <1>3, <1>4 DEF Count, Closing, Settled
  <1>7. Accounted' = Cardinality(Answers(LINK)') + offers'.settled + Count(pending') + Count(Owed')
    BY DEF Accounted, Count
  <1>8. Accounted' = Accounted
    BY <1>2, <1>3, <1>5, <1>6, <1>7 DEF Accounted
  <1>9. Balanced'
    BY <1>1, <1>5, <1>8 DEF Ledger, Balanced
  <1>10. pending' => LINK \in DOMAIN ai_proposal' /\ ai_proposal'[LINK] = boot'
    BY <1>1, <1>5 DEF Ledger
  <1>11. \A n \in 1..Len(human_response') : human_response'[n].boot <= boot'
    BY <1>1 DEF Ledger
  <1> QED
    BY <1>9, <1>10, <1>11 DEF Ledger

LEMMA LedgerNext ==
  ASSUME TypeInv, Ledger, [Next]_vars
  PROVE  Ledger'
  <1>1. ASSUME NEW ready \in BOOLEAN, Boot(ready)
        PROVE  Ledger'
    <2>1. /\ pc = "off" /\ boot' = boot + 1 /\ boot \in Nat
          /\ UNCHANGED <<pending, human_response, ai_proposal, offers, faults>>
      BY <1>1, Limits DEF Boot, tables, TypeInv, TypeOK
    <2>2. pending = FALSE /\ offers = NoOffers /\ faults.now \in Nat
      BY <2>1 DEF TypeInv, TypeOK, Shape
    <2>3. ~Owed'
      BY <1>1, BootTodo DEF Owed
    <2>4. Answers(LINK)' = {}
      BY <1>1, AnswersOfBoot
    <2>5. Balanced'
      <3>1. Cardinality(Answers(LINK)') = 0
        BY <2>4, FS_EmptySet
      <3>2. /\ Accounted' = Cardinality(Answers(LINK)') + offers'.settled
                             + Count(pending') + Count(Owed')
            /\ Count(pending') = 0 /\ Count(Owed') = 0
            /\ offers'.made = 0 /\ offers'.settled = 0
        BY <2>1, <2>2, <2>3 DEF Accounted, Count, NoOffers
      <3>3. Accounted' = 0
        BY <3>1, <3>2
      <3> QED
        BY <2>1, <2>2, <3>2, <3>3 DEF Balanced
    <2>6. \A n \in 1..Len(human_response) : human_response[n].boot <= boot + 1
      <3>1. \A n \in 1..Len(human_response) : human_response[n] \in Answer
        BY ElementOfSeq DEF TypeInv, TypeOK
      <3>2. \A n \in 1..Len(human_response) : human_response[n].boot \in Nat
        BY <3>1, Limits DEF Answer
      <3> QED
        BY <2>1, <3>2 DEF Ledger
    <2> QED
      BY <2>1, <2>2, <2>5, <2>6 DEF Ledger
  <1>2. CASE Executing
    BY <1>2, LedgerExecute
  <1>3. CASE Receive
    <2>1. ~Owed'
      BY <1>3, HandleMoves DEF Owed
    <2> QED
      BY <1>3, <2>1, HandleMoves, LedgerStarted
  <1>4. CASE Talk
    <2>1. ~Owed' /\ Closing(pending')
      BY <1>4, TalkMoves DEF Owed, Closing
    <2> QED
      BY <1>4, <2>1, TalkMoves, LedgerStarted
  <1>5. ASSUME NEW response \in Response, AnswerLink(response)
        PROVE  Ledger'
    <2>1. /\ pc = "console" /\ pc' = "console" /\ Idle /\ pending = TRUE /\ pending' = FALSE
          /\ UNCHANGED <<human_response, ai_proposal, boot, offers, faults>> /\ TypeOK
          /\ Len(todo') = 4 /\ todo'[4].do = "respond" /\ todo'[4].id = LINK
      BY <1>5, AnswerLinkMoves DEF Started, tables, TypeInv
    <2>2. Answers(LINK)' = Answers(LINK)
      BY <2>1, AnswersStay
    <2>3. Cardinality(Answers(LINK)) \in Nat /\ offers.settled \in Nat
      BY <2>1, AccountedType
    <2>4. ~Owed /\ Owed'
      <3>1. Len(todo) = 0 /\ 4 \in 1..Len(todo')
        BY <2>1 DEF Idle
      <3> QED
        BY <2>1, <3>1 DEF Owed
    <2>5. Accounted' = Accounted
      <3>1. /\ Count(pending) = 1 /\ Count(pending') = 0 /\ Count(Owed) = 0 /\ Count(Owed') = 1
            /\ Accounted' = Cardinality(Answers(LINK)') + offers'.settled
                              + Count(pending') + Count(Owed')
        BY <2>1, <2>4 DEF Accounted, Count
      <3> QED
        BY <2>1, <2>2, <2>3, <3>1 DEF Accounted
    <2> QED
      BY <2>1, <2>5 DEF Ledger, Balanced
  <1>6. ASSUME NEW response \in Response, NEW s \in Slot, AnswerProposal(s, response)
        PROVE  Ledger'
    <2>1. /\ Len(todo') = 2 /\ todo'[1].id # LINK /\ todo'[2].do = "event"
          /\ Started /\ Idle /\ pc = "console" /\ UNCHANGED <<pc, pending, offers>>
      BY <1>6, AnswerProposalMoves, ProposalsAssumption
    <2>2. ~Owed' /\ Closing(pending')
      <3>1. \A n \in 1..2 : n = 1 \/ n = 2
        OBVIOUS
      <3> QED
        BY <2>1, <3>1 DEF Owed, Closing
    <2> QED
      BY <2>1, <2>2, LedgerStarted
  <1>7. CASE Stop
    BY <1>7 DEF Stop, Ledger, tables
  <1>8. CASE UNCHANGED vars
    <2>1. UNCHANGED <<pc, todo, pending, human_response, ai_proposal, boot, offers, faults>>
      BY <1>8 DEF vars, memory, tables
    <2>2. Answers(LINK)' = Answers(LINK)
      BY <2>1, AnswersStay
    <2>3. Accounted' = Accounted
      BY <2>1, <2>2 DEF Accounted, Owed, Count
    <2> QED
      BY <2>1, <2>3 DEF Ledger, Balanced
  <1> QED
    BY <1>1, <1>2, <1>3, <1>4, <1>5, <1>6, <1>7, <1>8, NextIs

-----------------------------------------------------------------------------
(* The status that the console shows *)

\* The row that makes the status true is the next thing to be written.
Answering(s) == 1 \in 1..Len(todo) /\ todo[1].do = "respond" /\ todo[1].id = s

RecordedOrNext ==
  faults.now = 0 /\ pc # "off" /\ audit_ready =>
    \A s \in Slot : /\ Answering(s) => status[s] = NewStatus(todo[1].response)
                    /\ ~Answering(s) => Recorded(s)

LEMMA RecordedStays ==
  ASSUME UNCHANGED <<human_response, boot>>, NEW s, status'[s] = status[s], Recorded(s)
  PROVE  Recorded(s)'
  <1>1. Answers(s)' = Answers(s)
    BY AnswersStay
  <1> QED
    BY <1>1 DEF Recorded

\* A list of statements without an answer starts.
LEMMA RecordedStarted ==
  ASSUME TypeInv, RecordedOrNext, Started, Idle, pc # "off", UNCHANGED status,
         \A n \in 1..Len(todo') : todo'[n].do # "respond"
  PROVE  RecordedOrNext'
  <1>1. Len(todo) = 0 /\ UNCHANGED <<human_response, boot, faults, audit_ready>>
    BY DEF Idle, Started, tables
  <1> SUFFICES ASSUME faults.now = 0, audit_ready, NEW s \in Slot
               PROVE  ~Answering(s)' /\ Recorded(s)'
    BY <1>1 DEF RecordedOrNext
  <1>2. Recorded(s) /\ ~Answering(s)'
    BY <1>1 DEF RecordedOrNext, Answering
  <1> QED
    BY <1>1, <1>2, RecordedStays

LEMMA RecordedExecute ==
  ASSUME TypeInv, RecordedOrNext, Executing
  PROVE  RecordedOrNext'
  <1>1. /\ UNCHANGED <<pc, audit_ready, status, boot>> /\ (faults'.now = 0 => faults' = faults)
        /\ Skipped \/ Offered \/ Audited \/ Upserted \/ Persisted \/ Responded \/ Sent
    BY ExecuteMoves DEF TypeInv, Fixed
  <1>2. /\ Len(todo) \in Nat /\ Len(Tail(todo)) = Len(todo) - 1
        /\ 1 \in 1..Len(todo) /\ todo[1] \in Statement
        /\ \A n \in 1..Len(Tail(todo)) : n + 1 \in 1..Len(todo) /\ Tail(todo)[n] = todo[n + 1]
    BY ExecuteRuns
  <1> SUFFICES ASSUME faults'.now = 0, pc # "off", audit_ready, NEW s \in Slot
               PROVE  ~Answering(s)' /\ Recorded(s)'
    BY <1>1 DEF RecordedOrNext
  <1>3. /\ Answering(s) => status[s] = NewStatus(todo[1].response)
        /\ ~Answering(s) => Recorded(s)
    BY <1>1 DEF RecordedOrNext
  <1>4. ~Answering(s)'
    <2>1. CASE todo' = Tail(todo)
      <3> SUFFICES ASSUME 1 \in 1..Len(todo'), todo'[1].do = "respond", todo'[1].id = s
                   PROVE  FALSE
        BY DEF Answering
      <3>1. 2 \in 1..Len(todo) /\ todo'[1] = todo[2]
        BY <1>2, <2>1
      <3>2. s # LINK
        BY ProposalsAssumption
      <3> QED
        BY <3>1, <3>2 DEF TypeInv, Effects
    <2>2. CASE Offered
      BY <2>2, OfferedTodo DEF Answering
    <2> QED
      BY <1>1, <2>1, <2>2 DEF Skipped, Audited, Upserted, Persisted, Responded, Sent
  <1>5. CASE Responded
    <2> DEFINE new == Len(human_response) + 1
    <2>1. /\ new \notin Answers(s)
          /\ Answers(s)' = IF s = todo[1].id THEN Answers(s) \union {new} ELSE Answers(s)
          /\ \A n \in Answers(s) : n <= new /\ human_response'[n] = human_response[n]
          /\ human_response'[new].response = todo[1].response
      BY <1>5, AnswersGrow
    <2>2. CASE s = todo[1].id
      <3>1. status[s] = NewStatus(todo[1].response)
        BY <1>2, <1>3, <1>5, <2>2 DEF Answering, Responded
      <3>2. new \in Answers(s)' /\ \A m \in Answers(s)' : m <= new
        <4>1. new <= new
          BY AnswersType DEF TypeInv
        <4> QED
          BY <2>1, <2>2, <4>1
      <3> QED
        BY <1>1, <1>4, <2>1, <3>1, <3>2 DEF Recorded
    <2>3. CASE s # todo[1].id
      <3>1. Recorded(s)
        BY <1>3, <2>3 DEF Answering
      <3>2. Answers(s)' = Answers(s)
        BY <2>1, <2>3
      <3> QED
        BY <1>1, <1>4, <2>1, <3>1, <3>2 DEF Recorded
    <2> QED
      BY <2>2, <2>3
  <1>6. CASE ~Responded
    <2>1. UNCHANGED human_response
      BY <1>1, <1>6 DEF Skipped, Offered, Audited, Upserted, Persisted, Sent, tables
    <2>2. todo[1].do # "respond"
      BY <1>1, <1>6 DEF Skipped, Offered, Audited, Upserted, Persisted, Sent
    <2>3. Recorded(s)
      BY <1>3, <2>2 DEF Answering
    <2> QED
      BY <1>1, <1>4, <2>1, <2>3, RecordedStays
  <1> QED
    BY <1>5, <1>6

LEMMA RecordedNext ==
  ASSUME TypeInv, Ledger, RecordedOrNext, [Next]_vars
  PROVE  RecordedOrNext'
  <1>1. ASSUME NEW ready \in BOOLEAN, Boot(ready)
        PROVE  RecordedOrNext'
    <2>1. \A s : Answers(s)' = {}
      BY <1>1, AnswersOfBoot
    <2>2. \A n \in 1..Len(todo') : todo'[n].do \in {"persist", "event"}
      BY <1>1, BootTodo
    <2>3. status' = [s \in Slot |-> "PENDING"]
      BY <1>1 DEF Boot
    <2> QED
      BY <2>1, <2>2, <2>3 DEF RecordedOrNext, Recorded, Answering
  <1>2. CASE Executing
    BY <1>2, RecordedExecute
  <1>3. CASE Receive
    <2>1. \A n \in 1..Len(todo') : todo'[n].do # "respond"
      BY <1>3, HandleMoves
    <2> QED
      BY <1>3, <2>1, HandleMoves, RecordedStarted
  <1>4. CASE Talk
    <2>1. \A n \in 1..Len(todo') : todo'[n].do # "respond"
      BY <1>4, TalkMoves
    <2> QED
      BY <1>4, <2>1, TalkMoves, RecordedStarted
  <1>5. ASSUME NEW response \in Response, AnswerLink(response)
        PROVE  RecordedOrNext'
    <2>1. /\ Started /\ pc = "console" /\ Idle /\ UNCHANGED <<pc, status>>
          /\ todo'[1].do = "event"
      BY <1>5, AnswerLinkMoves
    <2>2. Len(todo) = 0 /\ UNCHANGED <<human_response, boot, faults, audit_ready>>
      BY <2>1 DEF Idle, Started, tables
    <2>3. \A s : ~Answering(s)' /\ ~Answering(s)
      BY <2>1, <2>2 DEF Answering
    <2>4. \A s : Recorded(s) => Recorded(s)'
      BY <2>1, <2>2, RecordedStays
    <2> QED
      BY <2>1, <2>2, <2>3, <2>4 DEF RecordedOrNext
  <1>6. ASSUME NEW response \in Response, NEW s \in Slot, AnswerProposal(s, response)
        PROVE  RecordedOrNext'
    <2>1. /\ Started /\ pc = "console" /\ Idle /\ UNCHANGED pc
          /\ status \in [Slot -> {"PENDING", "APPROVED", "REJECTED"}]
          /\ status' = [status EXCEPT ![s] = NewStatus(response)]
          /\ Len(todo') = 2 /\ todo'[1].do = "respond" /\ todo'[1].id = s
          /\ todo'[1].response = response
      BY <1>6, AnswerProposalMoves
    <2>2. Len(todo) = 0 /\ UNCHANGED <<human_response, boot, faults, audit_ready>>
      BY <2>1 DEF Idle, Started, tables
    <2> SUFFICES ASSUME faults.now = 0, audit_ready, NEW r \in Slot
                 PROVE  /\ Answering(r)' => status'[r] = NewStatus(todo'[1].response)
                        /\ ~Answering(r)' => Recorded(r)'
      BY <2>2 DEF RecordedOrNext
    <2>3. Answering(r)' <=> r = s
      BY <2>1 DEF Answering
    <2>4. CASE r = s
      BY <2>1, <2>3, <2>4
    <2>5. CASE r # s
      <3>1. Recorded(r) /\ status'[r] = status[r]
        BY <2>1, <2>2, <2>5 DEF RecordedOrNext, Answering
      <3> QED
        BY <2>2, <2>3, <2>5, <3>1, RecordedStays
    <2> QED
      BY <2>4, <2>5
  <1>7. CASE Stop
    BY <1>7 DEF Stop, RecordedOrNext
  <1>8. CASE UNCHANGED vars
    <2>1. UNCHANGED <<pc, audit_ready, todo, status, human_response, boot, faults>>
      BY <1>8 DEF vars, memory, tables
    <2>2. \A s : (Recorded(s) => Recorded(s)') /\ (Answering(s)' <=> Answering(s))
      BY <2>1, RecordedStays DEF Answering
    <2> QED
      BY <2>1, <2>2 DEF RecordedOrNext
  <1> QED
    BY <1>1, <1>2, <1>3, <1>4, <1>5, <1>6, <1>7, <1>8, NextIs

-----------------------------------------------------------------------------
(* The theorems *)

LEMMA Typed == Spec => []TypeInv
  <1>1. TypeInv /\ [Next]_vars => TypeInv'
    BY TypeNext
  <1> QED
    BY <1>1, TypeInit, PTL DEF Spec

LEMMA LedgerKept == Spec => []Ledger
  <1>1. Init => Ledger
    <2> SUFFICES ASSUME Init PROVE Ledger
      OBVIOUS
    <2>1. Len(human_response) = 0 /\ pc = "off" /\ pending = FALSE
      BY DEF Init
    <2> QED
      BY <2>1 DEF Ledger
  <1>2. TypeInv /\ Ledger /\ [Next]_vars => Ledger'
    BY LedgerNext
  <1> QED
    BY <1>1, <1>2, Typed, PTL DEF Spec

\* Every variable of the node link stays in its domain: whatever the network
\* yields, the rows of the three tables are well formed.
THEOREM TypeCorrect == Spec => []TypeOK
  <1>1. TypeInv => TypeOK
    BY DEF TypeInv
  <1> QED
    BY <1>1, Typed, PTL

\* A link proposal that create_link_proposal_if_needed has made is closed once, by
\* an answer of the operator or by the verdict of the peer (node_core.c:302, :311),
\* none is forgotten but for a failed insert, and an open one has its row.
THEOREM AlwaysAnsweredOnce == Spec => []AnsweredOnce
  <1>1. TypeInv /\ Ledger => AnsweredOnce
    <2> SUFFICES ASSUME TypeInv, Ledger PROVE AnsweredOnce
      OBVIOUS
    <2> DEFINE closed == Cardinality(Answers(LINK)) + offers.settled
               open == IF pending THEN 1 ELSE 0
    <2>1. /\ Cardinality(Answers(LINK)) \in Nat /\ offers.settled \in Nat /\ offers.made \in Nat
          /\ faults.now \in Nat /\ Count(Owed) \in {0, 1} /\ open \in {0, 1}
      BY AccountedType DEF TypeInv
    <2>2. Accounted = closed + open + Count(Owed)
      BY <2>1 DEF Accounted, Count
    <2>3. pc # "off" => Accounted <= offers.made /\ offers.made <= Accounted + faults.now
      BY DEF Ledger, Balanced
    <2>4. Idle => Count(Owed) = 0
      <3>1. Idle => Len(todo) = 0
        BY DEF Idle
      <3> QED
        BY <3>1 DEF Owed, Count
    <2>5. closed \in Nat
      BY <2>1
    <2>6. pending => LINK \in DOMAIN ai_proposal /\ ai_proposal[LINK] = boot
      BY DEF Ledger
    <2> HIDE DEF closed, open
    <2>7. /\ pc # "off" => closed + open <= offers.made
          /\ pc # "off" /\ Idle => offers.made <= closed + open + faults.now
      BY <2>1, <2>2, <2>3, <2>4, <2>5
    <2> QED
      BY <2>6, <2>7 DEF AnsweredOnce, closed, open
  <1> QED
    BY <1>1, Typed, LedgerKept, PTL

\* node_core_handle_link_response tells the peer only what the audit log holds,
\* unless an insert has failed.
THEOREM AlwaysAudited == Spec => []AnnouncedIsAudited
  <1>1. Init => Announcing
    <2> SUFFICES ASSUME Init PROVE Announcing
      OBVIOUS
    <2>1. Len(todo) = 0 /\ sent = {}
      BY DEF Init
    <2> QED
      BY <2>1 DEF Announcing
  <1>2. TypeInv /\ Announcing /\ [Next]_vars => Announcing'
    BY AnnouncingNext
  <1>3. Announcing => AnnouncedIsAudited
    BY DEF Announcing, AnnouncedIsAudited
  <1> QED
    BY <1>1, <1>2, <1>3, Typed, PTL DEF Spec

\* Between two statements of node_core.c the row of a peer with a name is the peer;
\* audit_upsert_node_peer refuses one without.
THEOREM RowAlwaysCurrent == Spec => []PeerRowCurrent
  <1>1. Init => RowOrUpsert
    BY DEF Init, RowOrUpsert
  <1>2. TypeInv /\ RowOrUpsert /\ [Next]_vars => RowOrUpsert'
    BY RowNext
  <1>3. RowOrUpsert => PeerRowCurrent
    <2>1. Idle => Len(todo) = 0
      BY DEF Idle
    <2> QED
      BY <2>1 DEF RowOrUpsert, PeerRowCurrent
  <1> QED
    BY <1>1, <1>2, <1>3, Typed, PTL DEF Spec

\* The status of a proposal is the last answer that audit_persist_human_response
\* has stored in this boot, while no insert has failed.
THEOREM StatusAlwaysLastAnswer == Spec => []StatusIsLastAnswer
  <1>1. Init => RecordedOrNext
    BY DEF Init, RecordedOrNext
  <1>2. TypeInv /\ Ledger /\ RecordedOrNext /\ [Next]_vars => RecordedOrNext'
    BY RecordedNext
  <1>3. RecordedOrNext => StatusIsLastAnswer
    <2>1. Idle => Len(todo) = 0
      BY DEF Idle
    <2> QED
      BY <2>1 DEF RecordedOrNext, StatusIsLastAnswer, Answering
  <1> QED
    BY <1>1, <1>2, <1>3, Typed, LedgerKept, PTL DEF Spec
=============================================================================
