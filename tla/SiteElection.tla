---------------------------- MODULE SiteElection ----------------------------
(***************************************************************************)
(* The Site Leader election: one SiteCoordinator (site_coordinator.cpp)    *)
(* per node, the heartbeats between them (SiteHeartbeatTransport in        *)
(* site_heartbeat.cpp), and the 500 ms coordination step of the main loop  *)
(* (radar_api_server.cpp) that drives it.                                  *)
(*                                                                         *)
(* Time advances in ticks of one heartbeat interval (2 s).  A lease is     *)
(* stored as the ticks it has left, so that leases, heartbeat slots and    *)
(* the start-up probe all count down together.  All nodes run this         *)
(* firmware, so a heartbeat takes one of three forms (Wire): what a node   *)
(* may say depends on what it knows of the recipient and on its Directory. *)
(* The digests for peers with older firmware are not modelled, except that *)
(* a change of the set of nodes a coordinator observes counts as a change  *)
(* of its election contract, as it does there.                             *)
(*                                                                         *)
(* A heartbeat cycle is one Send.  Each peer receives it at once, unless   *)
(* its link is lossy (then possibly never) or slow (then possibly later,   *)
(* but before the sender's next cycle).  Duplicated and older heartbeats   *)
(* are assumed to stay away.                                               *)
(*                                                                         *)
(* Heartbeats pass between active members of the committed roster that     *)
(* hold each other's credential and have discovered each other's address;  *)
(* peers outside the configuration, quarantined members and a change of    *)
(* the authority epoch are not modelled.                                   *)
(***************************************************************************)
EXTENDS RoleElection

CONSTANTS
  Node,           \* participant identifiers, ordered as strcmp orders them
  Eligible,       \* nodes with leader_eligible in the committed roster
  Roster,         \* Roster[r] is the active membership of roster revision r
  Setup,          \* what the nodes hold at first, and what may befall them
  Fence,          \* directory fences a node may adopt
  GroupLeaders,   \* the nodes that the Directory of a fence has lead a Group
  LeaseTicks,     \* DEFAULT_LEASE_MS in heartbeat intervals (3)
  ProbeInterval,  \* SITE_HEARTBEAT_CURRENT_WIRE_PROBE_INTERVAL (5)
  Owner           \* the Configuration Owner, where roster revisions begin

NoFence == [revision |-> 0, digest |-> 0]

(* Bounds on power cycles, roster and Directory changes; the links         *)
(* <<from, to>> that may lose heartbeats, or delay them by up to one       *)
(* interval.                                                               *)
Budget == [restarts : Nat, rosters : Nat, directories : Nat,
           lossy : SUBSET (Node \X Node), slow : SUBSET (Node \X Node)]

ASSUME SiteAssumption ==
  /\ Node \subseteq Nat /\ IsFiniteSet(Node) /\ None \notin Node
  /\ Eligible \subseteq Node
  /\ Roster \in Seq(SUBSET Node)
  /\ Fence \subseteq [revision : Nat \ {0}, digest : Nat \ {0}]
  /\ GroupLeaders \in [Fence -> SUBSET Node]
  /\ LeaseTicks \in Nat \ {0} /\ ProbeInterval \in Nat \ {0}
  /\ Owner \in Node
  /\ \A s \in Setup :
       /\ s.config \in [Node -> 0..Len(Roster)]
       /\ s.directory \in [Node -> Fence \cup {NoFence}]
       /\ s.credentials \in [Node -> SUBSET Node]
       /\ s.budget \in Budget

VARIABLES
  config,      \* committed roster revision of each node; 0 before pairing
  directory,   \* local Directory fence
  credentials, \* the peers whose enabled credential a node holds
  up,          \* the powered nodes
  leader, term, lease, quorum,  \* SiteCoordinatorState
  view,        \* election_view_digest and the observed set behind the
               \* compatibility digests
  suspended,   \* suspended_leader_node_id_ and suspended_leader_term_
  slots,       \* heartbeats_
  endpoints,   \* what the ParticipantEndpointCache knows of each peer
  cycle,       \* send_cycle_sequence_, modulo the wire probe interval
  probe,       \* initial_probe_active_ / _complete_ and the time it has left
  standalone,  \* standalone_authority_held_ / _term_, handoff_pending_
  views,       \* transition_views_
  rosterSeen,  \* election_roster_revision_
  sent,        \* heartbeats of a node's last cycle that are on their way
  spoke,       \* nodes whose cycle of this interval has begun
  fresh,       \* nodes whose coordinator ran in this interval
  calm,        \* no failure or change happens any more
  budget       \* the failures and changes that are left

coordinator == <<leader, term, lease, quorum, view, suspended, probe,
                 standalone, views, rosterSeen>>
environment == <<config, directory, credentials>>
transport == <<endpoints, cycle, sent, spoke>>
vars == <<environment, coordinator, slots, transport, fresh, up, calm,
          budget>>

-----------------------------------------------------------------------------
(* Values *)

(* The digest of contract version 3: the roster revision, which fixes the  *)
(* members, and the winner.  While it probes, a node announces a view of   *)
(* itself alone, which equals no other node's.                             *)
NoDigest == [roster |-> 0, winner |-> None]
NoView == [digest |-> NoDigest, seen |-> {}]

(* An unoccupied HeartbeatSlot: accepted heartbeats have a term above 0.   *)
Vacant == [ttl |-> 0, term |-> 0, admitted |-> FALSE, roster |-> 0,
           digest |-> NoDigest, fence |-> NoFence, complete |-> FALSE]

(* Three of the heartbeat's wire versions: 4 carries terms only, 6 adds    *)
(* the roster, 12 the Directory, the credentials and the election view.    *)
Wires == {4, 6, 12}

NoHeartbeat == [wire |-> 4, term |-> 0, generation |-> 0,
                digest |-> NoDigest, fence |-> NoFence, complete |-> FALSE]

(* A ParticipantEndpoint: whether its configuration is known, its roster   *)
(* revision, whether it has a Directory and so speaks wire 12, and whether *)
(* it last said there that its credentials are complete.                   *)
Unknown == [fenced |-> FALSE, roster |-> 0, directory |-> FALSE,
            complete |-> FALSE]

NobodySuspended == [leader |-> None, term |-> 0]
NoProbe == [stage |-> "idle", left |-> 0]
NotStandalone == [held |-> FALSE, term |-> 0, pending |-> FALSE]

-----------------------------------------------------------------------------
(* What a coordinator reads (SiteCoordinator::update and elect_leader_)    *)

Members(n) == Roster[config[n]]

(* configuration_ready: a committed roster this node is a member of *)
Ready(n) == config[n] # 0 /\ n \in Members(n)

Expected(n) == IF Ready(n) THEN Cardinality(Members(n)) ELSE 1
Required(n) == StrictMajority(Expected(n))
MultiNode(n) == Ready(n) /\ Expected(n) > 1

(* site_credentials_complete_for_node, or TRUE without a configuration:    *)
(* the credentials of the Owner and of every possible Leader               *)
Complete(n) ==
  IF config[n] = 0 THEN TRUE
  ELSE /\ Ready(n)
       /\ Members(n) \cap (Eligible \cup {Owner}) \subseteq credentials[n] \cup {n}

(* Slots that survive reconcile_heartbeat_slots_: active and not expired *)
Live(n) ==
  IF Ready(n) THEN {m \in Members(n) \ {n} : slots[n][m].ttl > 0} ELSE {}

LocalEligible(n) == Complete(n) /\ (Ready(n) => n \in Eligible)
EligibleLive(n) == {m \in Live(n) : m \in Eligible /\ slots[n][m].complete}
LeaseActive(n) == leader[n] # None /\ lease[n] > 0

(* The start-up probe waits one lease for an eligible peer. *)
ProbeRequired(n) ==
  /\ Ready(n) /\ LocalEligible(n) /\ probe[n].stage # "done"
  /\ Cardinality(Eligible \cap Members(n)) > 1

Probing(n) ==
  /\ ProbeRequired(n)
  /\ EligibleLive(n) = {}
  /\ probe[n].stage = "idle" \/ probe[n].left > 0

ProbeAfter(n) == IF Ready(n) THEN [stage |-> "done", left |-> 0] ELSE probe[n]

(* Directory evidence: which fence each live node reports *)
FenceOf(n, m) == IF m = n THEN directory[n] ELSE slots[n][m].fence
FenceVoters(n) == {m \in Live(n) : slots[n][m].complete}
                  \cup (IF Complete(n) THEN {n} ELSE {})
FenceSupport(n, f) ==
  IF f = NoFence THEN 0
  ELSE Cardinality({m \in FenceVoters(n) : FenceOf(n, m) = f})
FenceObserved(n) == \E m \in Live(n) \cup {n} : FenceOf(n, m) # NoFence
FenceQuorum(n) ==
  \E m \in FenceVoters(n) : FenceSupport(n, FenceOf(n, m)) >= Required(n)
FenceObservers(n) ==
  Cardinality({m \in FenceVoters(n) : FenceOf(n, m) # NoFence})

(* Leaves a site whose Directories forked without a candidate. *)
MutantNoForkChoice(n, m) ==
  \/ ~MultiNode(n) \/ ~FenceObserved(n)
  \/ FenceSupport(n, FenceOf(n, m)) >= Required(n)
  \/ LeaseActive(n) /\ m = leader[n]

DirectoryCandidateAllowed(n, m) ==
  \/ ~MultiNode(n) \/ ~FenceObserved(n)
  \/ FenceSupport(n, FenceOf(n, m)) >= Required(n)
  \/ LeaseActive(n) /\ m = leader[n]
  \/ ~FenceQuorum(n) /\ FenceObservers(n) >= Required(n)

Candidates(n) ==
  {m \in EligibleLive(n) \cup (IF LocalEligible(n) THEN {n} ELSE {}) :
     DirectoryCandidateAllowed(n, m)}

(* site_leader_role_penalty of a, as n sees it: the Owner should not lead, *)
(* and still less a node that leads a Group by the Directory n holds.      *)
Penalty(n, a) ==
  (IF a = Owner THEN 1 ELSE 0)
  + (IF directory[n] # NoFence /\ a \in GroupLeaders[directory[n]]
     THEN 2 ELSE 0)

(* candidate_preferred: fenced, then newest Directory, then least role     *)
(* penalty, then smallest identifier                                       *)
Preferred(n, a, b) ==
  LET fa == FenceOf(n, a)
      fb == FenceOf(n, b)
  IN  IF fa.revision # fb.revision THEN fa.revision > fb.revision
      ELSE IF Penalty(n, a) # Penalty(n, b) THEN Penalty(n, a) < Penalty(n, b)
      ELSE a < b

(* observed_term: the newest admitted term of an allowed candidate *)
ObservedTerm(n) ==
  LET heard == {slots[n][m].term : m \in {c \in Candidates(n) \ {n} :
                                            slots[n][c].admitted}}
  IN  CHOOSE t \in heard \cup {term[n]} :
        \A u \in heard \cup {term[n]} : u <= t

(* A leader whose lease still runs is kept while it remains a candidate    *)
(* and does not contradict a Directory majority.                           *)
Incumbent(n) ==
  /\ Ready(n) /\ LeaseActive(n) /\ leader[n] \in Candidates(n)
  /\ FenceQuorum(n) =>
       FenceSupport(n, FenceOf(n, leader[n])) >= Required(n)

(* The winners that a strict majority of peers already endorses (at most   *)
(* one): how a restarted node finds the established leader again.          *)
Endorsed(n) ==
  {w \in Candidates(n) :
     /\ MultiNode(n)
     /\ Cardinality({m \in FenceVoters(n) \ {n} :
          slots[n][m].digest = [roster |-> config[n], winner |-> w]})
          >= Required(n)}

(* The winner, as a set of one; {None} when there is no candidate. *)
Winners(n) ==
  IF Incumbent(n) THEN {leader[n]}
  ELSE IF Endorsed(n) # {} THEN Endorsed(n)
  ELSE IF Candidates(n) # {}
    THEN {a \in Candidates(n) :
            \A b \in Candidates(n) \ {a} : Preferred(n, a, b)}
  ELSE {None}

(* The view a node publishes for a winner.  Without a roster it is the     *)
(* digest of what it observes, which no peer can match; "seen" stands for  *)
(* the compatibility digests, which only decide whether the contract       *)
(* changed.                                                                *)
Seen(n) == {[id |-> m, fence |-> FenceOf(n, m),
             complete |-> IF m = n THEN Complete(n) ELSE slots[n][m].complete] :
              m \in Live(n) \cup {n}}

ViewOf(n, winner) ==
  [digest |-> [roster |-> IF Ready(n) THEN config[n] ELSE 0,
               winner |-> winner],
   seen |-> Seen(n)]

ProbeView(n) ==
  [digest |-> [roster |-> 0, winner |-> n],
   seen |-> {[id |-> n, fence |-> directory[n], complete |-> Complete(n)]}]

-----------------------------------------------------------------------------
(* Endorsements of view v, and the tolerance for one roster change *)

SlotRosterDiffers(n, m) ==
  slots[n][m].roster # 0 /\ slots[n][m].roster # config[n]

(* The incumbent is a peer that has moved to another roster revision. *)
IncumbentRosterDiffers(n) ==
  leader[n] # n /\ Incumbent(n) /\ SlotRosterDiffers(n, leader[n])

MutantNoTransition(n) == FALSE  \* a roster change starts from no endorsement

BoundedTransition(n) ==
  /\ quorum[n] /\ term[n] # 0
  /\ \/ views[n] # <<>>
     \/ rosterSeen[n] # 0 /\ config[n] # rosterSeen[n]
     \/ \E m \in FenceVoters(n) \ {n} : SlotRosterDiffers(n, m)
  /\ Incumbent(n)
  /\ ObservedTerm(n) <= term[n]

EarlierViews(n, v) ==
  IF ~BoundedTransition(n) THEN <<>>
  ELSE IF v # view[n] /\ view[n] # NoView THEN CaptureView(views[n], view[n])
  ELSE views[n]

DirectEndorsers(n, v) == {m \in Live(n) : slots[n][m].digest = v.digest}

DirectEndorsements(n, v) == 1 + Cardinality(DirectEndorsers(n, v))

(* The incumbent already moved to the next roster and still leads. *)
IncumbentVouches(n) ==
  /\ IncumbentRosterDiffers(n) /\ BoundedTransition(n)
  /\ slots[n][leader[n]].admitted
  /\ slots[n][leader[n]].term <= term[n]
  /\ slots[n][leader[n]].digest # NoDigest

(* Peers that endorse one of the earlier views, or what the moved          *)
(* incumbent endorses; failing both, the largest group of peers with one   *)
(* view of their own.                                                      *)
TransitionalEndorsements(n, v) ==
  LET digests ==
        {EarlierViews(n, v)[i].digest : i \in 1..Len(EarlierViews(n, v))}
        \cup (IF IncumbentVouches(n) THEN {slots[n][leader[n]].digest} ELSE {})
      earlier == {m \in Live(n) \ DirectEndorsers(n, v) :
                    slots[n][m].digest \in digests}
      others == {m \in FenceVoters(n) \ ({n} \cup DirectEndorsers(n, v)
                                         \cup earlier) :
                   slots[n][m].digest # NoDigest}
      alternate ==
        IF IncumbentVouches(n) THEN 0
        ELSE StrongestVote(others, [m \in others |-> slots[n][m].digest])
  IN  IF BoundedTransition(n) THEN Larger(Cardinality(earlier), alternate)
      ELSE 0

FenceSupported(n) ==
  /\ MultiNode(n)
  /\ FenceObserved(n) \/ \E m \in Live(n) : slots[n][m].digest # NoDigest

Endorsements(n, v) ==
  LET direct == DirectEndorsements(n, v)
  IN  IF ~FenceSupported(n) \/ direct >= Required(n) THEN direct
      ELSE PreserveIncumbentEndorsements(
             quorum[n], leader[n], term[n], ObservedTerm(n), v.digest.winner,
             direct, TransitionalEndorsements(n, v), Required(n))

HasQuorum(n, v) ==
  /\ QuorumAvailable(Expected(n), 1 + Cardinality(Live(n)))
  /\ FenceSupported(n) => Endorsements(n, v) >= Required(n)

(* transition_views_ at the end of a complete election *)
ViewsAfter(n, v) ==
  IF DirectEndorsements(n, v) >= Required(n) THEN <<>> ELSE EarlierViews(n, v)

-----------------------------------------------------------------------------
(* The term of the winner w *)

WinnerAdmitted(n, w) == w # n /\ slots[n][w].admitted
WinnerTerm(n, w) == IF WinnerAdmitted(n, w) THEN slots[n][w].term ELSE 0

Decision(n, w) ==
  DecideRoleTerm(term[n], leader[n], suspended[n].term, suspended[n].leader,
                 w, w = n, WinnerTerm(n, w), WinnerAdmitted(n, w),
                 ObservedTerm(n))

(* A node that led itself alone may follow, once, a leader of equal term   *)
(* that its first multi-node roster endorses.                              *)
HandoffPending(n) ==
  standalone[n].pending \/ (standalone[n].held /\ MultiNode(n))

MutantNoHandoff(n, w) == FALSE

StandaloneHandoff(n, w) ==
  LET slot == slots[n][w]
      priorTerm == Larger(term[n], suspended[n].term)
  IN  /\ HandoffPending(n) /\ MultiNode(n) /\ w # n
      /\ n \in {leader[n], suspended[n].leader}
      /\ slot.admitted /\ slot.complete /\ Complete(n)
      /\ slot.digest = ViewOf(n, w).digest
      /\ FenceSupport(n, slot.fence) >= Required(n)
      /\ DirectEndorsements(n, ViewOf(n, w)) >= Required(n)
      /\ priorTerm # 0 /\ standalone[n].term = priorTerm
      /\ slot.term = priorTerm

Suspend(n) ==
  IF leader[n] = None THEN suspended[n]
  ELSE [leader |-> leader[n], term |-> term[n]]

(* update() once the election has left leaderAfter and termAfter *)
StandaloneAfter(n, leaderAfter, termAfter, quorumAfter) ==
  IF ~MultiNode(n) /\ leaderAfter = n /\ termAfter # 0
    THEN [held |-> TRUE, term |-> termAfter, pending |-> FALSE]
  ELSE IF MultiNode(n) /\ quorumAfter /\ leaderAfter # None
    THEN NotStandalone
  ELSE [standalone[n] EXCEPT !.pending = HandoffPending(n)]

-----------------------------------------------------------------------------
(* Actions *)

Init ==
  /\ \E s \in Setup : /\ config = s.config /\ directory = s.directory
                      /\ credentials = s.credentials /\ budget = s.budget
  /\ up = Node
  /\ leader = [n \in Node |-> None]
  /\ term = [n \in Node |-> 0]
  /\ lease = [n \in Node |-> 0]
  /\ quorum = [n \in Node |-> TRUE]
  /\ view = [n \in Node |-> NoView]
  /\ suspended = [n \in Node |-> NobodySuspended]
  /\ slots = [n \in Node |-> [m \in Node |-> Vacant]]
  /\ probe = [n \in Node |-> NoProbe]
  /\ standalone = [n \in Node |-> NotStandalone]
  /\ views = [n \in Node |-> <<>>]
  /\ rosterSeen = [n \in Node |-> 0]
  /\ endpoints = [n \in Node |-> [m \in Node |-> Unknown]]
  /\ cycle = [n \in Node |-> 0]
  /\ sent = [n \in Node |-> [m \in Node |-> NoHeartbeat]]
  /\ spoke = {}
  /\ fresh = {}
  /\ calm = FALSE

(* update(): what every outcome of the election has in common *)
UpdateFrame(n) ==
  /\ n \in up
  /\ slots' = [slots EXCEPT ![n] =
       [m \in Node |-> IF m \in Live(n) THEN slots[n][m] ELSE Vacant]]
  /\ rosterSeen' = [rosterSeen EXCEPT ![n] = IF Ready(n) THEN config[n] ELSE 0]
  /\ standalone' = [standalone EXCEPT ![n] =
       StandaloneAfter(n, leader'[n], term'[n], quorum'[n])]
  /\ fresh' = fresh \cup {n}
  /\ UNCHANGED <<environment, transport, up, calm, budget>>

Becomes(n, newLeader, newTerm, newLease, hasQuorum) ==
  /\ leader' = [leader EXCEPT ![n] = newLeader]
  /\ term' = [term EXCEPT ![n] = newTerm]
  /\ lease' = [lease EXCEPT ![n] = newLease]
  /\ quorum' = [quorum EXCEPT ![n] = hasQuorum]

KeepProbing(n) ==
  LET left == IF probe[n].stage = "idle" THEN LeaseTicks ELSE probe[n].left
  IN  /\ Probing(n)
      /\ probe' = [probe EXCEPT ![n] = [stage |-> "active", left |-> left]]
      /\ view' = [view EXCEPT ![n] = ProbeView(n)]
      /\ Becomes(n, None, Larger(term[n], 1), left, FALSE)
      /\ UNCHANGED <<views, suspended>>

(* What every outcome past the probe leaves behind, for the view v. *)
Concludes(n, v, newSuspended) ==
  /\ ~Probing(n)
  /\ probe' = [probe EXCEPT ![n] = ProbeAfter(n)]
  /\ view' = [view EXCEPT ![n] = v]
  /\ views' = [views EXCEPT ![n] = ViewsAfter(n, v)]
  /\ suspended' = [suspended EXCEPT ![n] = newSuspended]

(* Only a multi-node roster can lack a quorum. *)
LoseQuorum(n, v) ==
  /\ MultiNode(n) /\ ~HasQuorum(n, v)
  /\ Becomes(n, None, Larger(term[n], 1), 0, FALSE)
  /\ Concludes(n, v, Suspend(n))

FindNoWinner(n, v) ==
  /\ HasQuorum(n, v)
  /\ v.digest.winner = None
  /\ Becomes(n, None, term[n], 0, TRUE)
  /\ Concludes(n, v, Suspend(n))

RefuseTerm(n, v) ==
  LET w == v.digest.winner
  IN  /\ HasQuorum(n, v) /\ w # None
      /\ ~Decision(n, w).ready /\ ~StandaloneHandoff(n, w)
      /\ Becomes(n, None, Decision(n, w).term, 0, FALSE)
      /\ Concludes(n, v, Suspend(n))

MutantFullLease(n, w) == LeaseTicks  \* also when following

LeaseUnder(n, w) == IF w = n THEN LeaseTicks ELSE slots[n][w].ttl

LeadOrFollow(n, v) ==
  LET w == v.digest.winner
      newTerm == IF Decision(n, w).ready THEN Decision(n, w).term
                 ELSE WinnerTerm(n, w)
  IN  /\ HasQuorum(n, v) /\ w # None
      /\ Decision(n, w).ready \/ StandaloneHandoff(n, w)
      /\ Becomes(n, w, newTerm, LeaseUnder(n, w), TRUE)
      /\ Concludes(n, v, NobodySuspended)

(* The state determines the winner, and so the view; binding it once lets  *)
(* the outcomes share it.                                                  *)
Elect(n) ==
  \E w \in Winners(n) : \E v \in {ViewOf(n, w)} :
    \/ LoseQuorum(n, v) \/ FindNoWinner(n, v)
    \/ RefuseTerm(n, v) \/ LeadOrFollow(n, v)

Update(n) ==
  /\ KeepProbing(n) \/ Elect(n)
  /\ UpdateFrame(n)

-----------------------------------------------------------------------------
(* Heartbeats *)

(* Every fifth cycle speaks the newest wire to peers not heard yet.        *)
WireProbe(n) == cycle[n] = ProbeInterval - 1

(* The wire of n's heartbeat to m in its next cycle: version 12 needs a    *)
(* Directory at both ends, and every version but 4 that m has been heard.  *)
Wire(n, m) ==
  IF ~endpoints[n][m].fenced /\ ~WireProbe(n) THEN 4
  ELSE IF \/ directory[n] = NoFence
          \/ ~endpoints[n][m].directory /\ ~WireProbe(n) THEN 6
  ELSE 12

(* What the recipient of n's heartbeat to m reads in it *)
Heartbeat(n, m) ==
  [NoHeartbeat EXCEPT
     !.wire = Wire(n, m), !.term = term[n], !.generation = config[n],
     !.digest = IF Wire(n, m) = 12 THEN view[n].digest ELSE @,
     !.fence = IF Wire(n, m) = 12 THEN directory[n] ELSE @,
     !.complete = Wire(n, m) = 12 /\ Complete(n)]

RosterOf(message) == IF message.wire = 4 THEN 0 ELSE message.generation

(* The endpoint of m at n once n has read a heartbeat of m: a first        *)
(* contact adds nothing, but shows that another configuration replaced the *)
(* one that was known.                                                     *)
EndpointAfter(m, n, message) ==
  LET known == endpoints[n][m]
  IN  IF message.wire = 4
      THEN [known EXCEPT !.fenced = @ /\ message.generation = known.roster]
      ELSE [fenced |-> TRUE, roster |-> message.generation,
            directory |-> known.directory \/ message.wire = 12,
            complete |-> IF message.wire = 12 THEN message.complete
                         ELSE known.complete]

(* participant_endpoint_matches_coordination_fence: the same roster, or    *)
(* one adjacent revision from a peer with complete credentials.            *)
Admissible(m, n, message) ==
  LET roster == EndpointAfter(m, n, message).roster
  IN  /\ roster # 0
      /\ \/ roster = config[n]
         \/ /\ message.wire = 12 /\ message.complete
            /\ roster \in {config[n] - 1, config[n] + 1}

(* accept_heartbeat: an old term of the leader this node follows is kept   *)
(* out of the election while that leader's lease runs.                     *)
StaleTerm(n, m, message) ==
  /\ m \in Eligible
  /\ leader[n] = m /\ LeaseActive(n)
  /\ message.term < term[n]

(* The slot of m at n once n has read a heartbeat of m *)
SlotAfter(m, n, message) ==
  IF ~Admissible(m, n, message) THEN slots[n][m]
  ELSE [ttl |-> LeaseTicks, term |-> message.term,
        admitted |-> ~StaleTerm(n, m, message),
        roster |-> RosterOf(message), digest |-> message.digest,
        fence |-> IF message.fence = NoFence THEN slots[n][m].fence
                  ELSE message.fence,
        complete |-> message.complete]

(* send_: one cycle per interval, from a node with a committed roster and  *)
(* a term, to the members it shares credentials with.                      *)
CanSend(n) == n \in up /\ config[n] # 0 /\ term[n] # 0
Keyed(m, n) == m \in credentials[n] /\ n \in credentials[m]
Addressees(n) == {m \in Members(n) \ {n} : Keyed(n, m)}

(* A node reads the heartbeats of members of its own roster.  setup() runs *)
(* the coordinator once before it adds the HTTP handler that accepts them. *)
Started(n) == n \in up /\ view[n] # NoView
Hears(m, n) == Started(m) /\ config[m] # 0 /\ n \in Members(m)

Links(n, links) == IF calm THEN {} ELSE {m \in Node : <<n, m>> \in links}
Underway(n) == {m \in Node : sent[n][m] # NoHeartbeat}

(* Each peer receives the heartbeat at once, later, or never.  The cycles  *)
(* are counted only while the count matters: a peer that is known stays so *)
(* until the node restarts or the roster changes.                          *)
Send(n) ==
  /\ CanSend(n) /\ n \notin spoke
  /\ \A m \in Underway(n) : <<n, m>> \in budget.lossy
  /\ LET to == {m \in Addressees(n) : Hears(m, n)}
     IN  \E lost \in SUBSET (to \cap Links(n, budget.lossy)) :
         \E late \in SUBSET ((to \cap Links(n, budget.slow)) \ lost) :
         \E now \in {to \ (lost \cup late)} :
           /\ sent' = [sent EXCEPT ![n] =
                [m \in Node |-> IF m \in late THEN Heartbeat(n, m)
                                ELSE NoHeartbeat]]
           /\ slots' = [m \in Node |->
                IF m \in now
                THEN [slots[m] EXCEPT ![n] = SlotAfter(n, m, Heartbeat(n, m))]
                ELSE slots[m]]
           /\ endpoints' = [m \in Node |->
                IF m \in now
                THEN [endpoints[m] EXCEPT
                        ![n] = EndpointAfter(n, m, Heartbeat(n, m))]
                ELSE endpoints[m]]
           /\ fresh' = fresh \ now
  /\ spoke' = spoke \cup {n}
  /\ cycle' = [cycle EXCEPT ![n] =
       IF \A m \in Addressees(n) :
            endpoints[n][m].fenced /\ endpoints[n][m].directory
       THEN 0 ELSE (@ + 1) % ProbeInterval]
  /\ UNCHANGED <<environment, coordinator, up, calm, budget>>

(* A heartbeat of m that was on its way reaches n. *)
ReceiveLate(m, n) ==
  /\ n \in Underway(m)
  /\ sent' = [sent EXCEPT ![m][n] = NoHeartbeat]
  /\ slots' = [slots EXCEPT ![n][m] = SlotAfter(m, n, sent[m][n])]
  /\ endpoints' = [endpoints EXCEPT ![n][m] = EndpointAfter(m, n, sent[m][n])]
  /\ fresh' = fresh \ {n}
  /\ UNCHANGED <<environment, coordinator, cycle, spoke, up, calm, budget>>

Less(t) == IF t = 0 THEN 0 ELSE t - 1

(* One heartbeat interval passes.  The coordinator of every powered node   *)
(* has run (it does every 500 ms) and its heartbeat cycle has begun.       *)
Tick ==
  /\ fresh = up
  /\ \A n \in up : CanSend(n) => n \in spoke
  /\ calm => \A n \in Node : Underway(n) = {}
  /\ lease' = [n \in Node |-> Less(lease[n])]
  /\ slots' = [n \in Node |-> [m \in Node |->
                 [slots[n][m] EXCEPT !.ttl = Less(@)]]]
  /\ probe' = [n \in Node |-> [probe[n] EXCEPT !.left = Less(@)]]
  /\ spoke' = {} /\ fresh' = {}
  /\ UNCHANGED <<environment, leader, term, quorum, view, suspended,
                 standalone, views, rosterSeen, endpoints, cycle, sent, up,
                 calm, budget>>

-----------------------------------------------------------------------------
(* Failures and changes *)

(* The coordinator lives in RAM; configuration, directory and credentials  *)
(* are read back from flash.                                               *)
PowerOff(n) ==
  /\ n \in up /\ budget.restarts > 0 /\ ~calm
  /\ up' = up \ {n}
  /\ budget' = [budget EXCEPT !.restarts = @ - 1]
  /\ leader' = [leader EXCEPT ![n] = None]
  /\ term' = [term EXCEPT ![n] = 0]
  /\ lease' = [lease EXCEPT ![n] = 0]
  /\ quorum' = [quorum EXCEPT ![n] = TRUE]
  /\ view' = [view EXCEPT ![n] = NoView]
  /\ suspended' = [suspended EXCEPT ![n] = NobodySuspended]
  /\ slots' = [slots EXCEPT ![n] = [m \in Node |-> Vacant]]
  /\ probe' = [probe EXCEPT ![n] = NoProbe]
  /\ standalone' = [standalone EXCEPT ![n] = NotStandalone]
  /\ views' = [views EXCEPT ![n] = <<>>]
  /\ rosterSeen' = [rosterSeen EXCEPT ![n] = 0]
  /\ endpoints' = [endpoints EXCEPT ![n] = [m \in Node |-> Unknown]]
  /\ cycle' = [cycle EXCEPT ![n] = 0]
  /\ sent' = [m \in Node |-> [sent[m] EXCEPT ![n] = NoHeartbeat]]
  /\ spoke' = spoke \ {n} /\ fresh' = fresh \ {n}
  /\ UNCHANGED <<environment, calm>>

(* A boot takes longer than the 500 ms within which every other node has   *)
(* run its coordinator on what it had heard.                               *)
PowerOn(n) ==
  /\ n \notin up /\ ~calm
  /\ up \subseteq fresh
  /\ up' = up \cup {n}
  /\ UNCHANGED <<environment, coordinator, slots, transport, fresh, calm,
                 budget>>

Change(kind) ==
  /\ budget[kind] > 0 /\ ~calm
  /\ budget' = [budget EXCEPT ![kind] = @ - 1]
  /\ UNCHANGED <<coordinator, slots, transport, fresh, up, calm>>

(* evaluate_site_authority: no peer that is online is known to hold        *)
(* another configuration.  A peer counts as online while its slot lives.   *)
Current(n, m) ==
  endpoints[n][m].fenced /\ endpoints[n][m].roster = config[n]
Consistent(n) == \A m \in Live(n) : Current(n, m)

(* automatic_configuration_successor: somebody could take over from the    *)
(* Owner, now.                                                             *)
SuccessorReady(n) ==
  \E m \in Live(n) \cap Eligible :
    Current(n, m) /\ endpoints[n][m].directory /\ endpoints[n][m].complete

(* shared_site_configuration_writable *)
Writable(n) ==
  /\ n = Owner /\ Ready(n)
  /\ MultiNode(n) =>
       /\ quorum[n] /\ Consistent(n)
       /\ SuccessorReady(n) \/ Members(n) \cap Eligible \subseteq {n}

(* The Owner commits the next roster revision. *)
CommitRoster(n) ==
  /\ Change("rosters")
  /\ n \in up /\ Writable(n) /\ config[n] < Len(Roster)
  /\ config' = [config EXCEPT ![n] = @ + 1]
  /\ UNCHANGED <<directory, credentials>>

(* A member replicates the newer roster it has heard of from the Owner; a  *)
(* newcomer is enrolled by it.                                             *)
AdoptRoster(n) ==
  /\ n \in up /\ Owner \in up
  /\ config[n] < config[Owner] /\ n \in Members(Owner)
  /\ config[n] = 0 \/ /\ endpoints[n][Owner].complete
                      /\ endpoints[n][Owner].roster > config[n]
  /\ config' = [config EXCEPT ![n] = config[Owner]]
  /\ UNCHANGED <<directory, credentials, coordinator, slots, transport, fresh,
                 up, calm, budget>>

(* A member that is on the Owner's revision receives the credentials of    *)
(* all members from it.                                                    *)
ProvisionCredentials(n) ==
  /\ n \in up \ {Owner} /\ Owner \in up
  /\ Ready(n) /\ config[n] = config[Owner]
  /\ Keyed(n, Owner)
  /\ ~(Members(n) \ {n} \subseteq credentials[n])
  /\ credentials' = [credentials EXCEPT ![n] = @ \cup (Members(n) \ {n})]
  /\ UNCHANGED <<config, directory, coordinator, slots, transport, fresh, up,
                 calm, budget>>

(* The Site Leader commits a newer Directory. *)
CommitDirectory(n) ==
  /\ Change("directories")
  /\ n \in up /\ Ready(n) /\ leader[n] = n
  /\ \E f \in Fence :
       /\ f.revision > directory[n].revision
       /\ directory' = [directory EXCEPT ![n] = f]
  /\ UNCHANGED <<config, credentials>>

(* Where a node may copy a Directory from.  A follower takes its Leader's, *)
(* whatever the revisions.  A member that has none yet asks the Owner      *)
(* first, and a peer without any election in a site of two.                *)
BootstrapSources(n) ==
  LET holders == {m \in (Members(n) \ {n}) \cap up : directory[m] # NoFence}
  IN  IF Owner \in holders THEN {Owner}
      ELSE IF leader[n] \notin {None, n} THEN {leader[n]} \cap holders
      ELSE IF Cardinality(Members(n)) <= 2 THEN holders
      ELSE {}

DirectorySources(n) ==
  IF directory[n] = NoFence THEN BootstrapSources(n)
  ELSE {l \in {leader[n]} \cap up : l # n /\ leader[l] = l /\ Ready(l)}

PullDirectory(n) ==
  /\ n \in up /\ Ready(n)
  /\ \E source \in DirectorySources(n) :
       /\ directory[source] \notin {NoFence, directory[n]}
       /\ directory' = [directory EXCEPT ![n] = directory[source]]
  /\ UNCHANGED <<config, credentials, coordinator, slots, transport, fresh,
                 up, calm, budget>>

Settle ==
  /\ ~calm
  /\ calm' = TRUE
  /\ UNCHANGED <<environment, coordinator, slots, transport, fresh, up,
                 budget>>

Next ==
  \/ \E n \in Node :
       \/ Update(n) \/ Send(n)
       \/ PowerOff(n) \/ PowerOn(n)
       \/ CommitRoster(n) \/ AdoptRoster(n) \/ ProvisionCredentials(n)
       \/ CommitDirectory(n) \/ PullDirectory(n)
  \/ \E m, n \in Node : ReceiveLate(m, n)
  \/ Tick \/ Settle

Spec == Init /\ [][Next]_vars

(* Time passes, and with every interval each powered node has run its      *)
(* coordinator and its heartbeat cycle (see Tick); Directories and         *)
(* credentials that can be copied are.  Nothing obliges failures to stop.  *)
Fairness ==
  /\ []<><<Tick>>_vars
  /\ \A n \in Node : WF_vars(PullDirectory(n))
  /\ \A n \in Node : WF_vars(ProvisionCredentials(n))

LiveSpec == Spec /\ Fairness

-----------------------------------------------------------------------------
(* Types *)

AnyRoster == 0..Len(Roster)
AnyFence == Fence \cup {NoFence}
AnyNode == Node \cup {None}
Digest == [roster : AnyRoster, winner : AnyNode]
Message == [wire : Wires, term : Term, generation : AnyRoster,
            digest : Digest, fence : AnyFence, complete : BOOLEAN]
Endpoint == [fenced : BOOLEAN, roster : AnyRoster, directory : BOOLEAN,
             complete : BOOLEAN]
Slot == [ttl : 0..LeaseTicks, term : Term, admitted : BOOLEAN,
         roster : AnyRoster, digest : Digest, fence : AnyFence,
         complete : BOOLEAN]
Observation == [id : Node, fence : AnyFence, complete : BOOLEAN]
View == [digest : Digest, seen : SUBSET Observation]

(* Every variable holds a value of its kind; in particular terms, leases   *)
(* and slot lifetimes stay in their ranges, and a node never follows or    *)
(* suspends anyone but a node.                                             *)
TypeOK ==
  /\ config \in [Node -> AnyRoster]
  /\ directory \in [Node -> AnyFence]
  /\ credentials \in [Node -> SUBSET Node]
  /\ up \subseteq Node /\ spoke \subseteq Node /\ fresh \subseteq Node
  /\ leader \in [Node -> AnyNode]
  /\ term \in [Node -> Term]
  /\ lease \in [Node -> 0..LeaseTicks]
  /\ quorum \in [Node -> BOOLEAN]
  /\ view \in [Node -> View]
  /\ suspended \in [Node -> [leader : AnyNode, term : Term]]
  /\ slots \in [Node -> [Node -> Slot]]
  /\ probe \in [Node -> [stage : {"idle", "active", "done"},
                         left : 0..LeaseTicks]]
  /\ standalone \in [Node -> [held : BOOLEAN, term : Term, pending : BOOLEAN]]
  /\ views \in [Node -> Seq(View)]
  /\ rosterSeen \in [Node -> AnyRoster]
  /\ endpoints \in [Node -> [Node -> Endpoint]]
  /\ cycle \in [Node -> 0..ProbeInterval - 1]
  /\ sent \in [Node -> [Node -> Message]]
  /\ calm \in BOOLEAN
  /\ budget \in Budget

-----------------------------------------------------------------------------
(* Safety *)

LocalLeader(n) == n \in up /\ leader[n] = n

(* The lease under which a node follows a remote Leader never outlives the *)
(* Leader's last heartbeat: whatever is lost or delayed, a silent Leader   *)
(* is given up when its own lease would have ended (architecture.md:272).  *)
LeaseBacked ==
  \A n \in Node : leader[n] \notin {None, n} =>
    lease[n] <= slots[n][leader[n]].ttl

(* A Leader that leads is never behind the term its followers hold it to,  *)
(* not even one that restarted and lost its own term.  (Where links delay  *)
(* a heartbeat beyond the restart of its sender, its follower may take a   *)
(* term from it that the Leader has forgotten, until it hears of it.)      *)
LeaderAhead ==
  \A n \in Node : leader[n] # None /\ LocalLeader(leader[n]) =>
    term[n] <= term[leader[n]]

(* What it held as a Site of its own has been handed over. *)
Joined(n) == ~standalone[n].held /\ ~standalone[n].pending

(* In a Site of two, which needs both, no two nodes lead at once: a node   *)
(* that leads alone would publish two Site authorities.  Only a node that  *)
(* led itself alone may do so until it has handed that authority over.     *)
SingleLeader ==
  \A m, n \in Node :
    LocalLeader(m) /\ LocalLeader(n) /\ Joined(m) /\ Joined(n) => m = n

(* While a node stays powered its term never falls, whichever heartbeats   *)
(* reach it, so it can never accept authority older than it has seen.      *)
TermsGrow == [][\A n \in up \cap up' : term[n] <= term'[n]]_vars

(* The authority a node followed last, kept across election-fence gaps *)
LastLed(n) ==
  IF leader[n] # None THEN [leader |-> leader[n], term |-> term[n]]
  ELSE suspended[n]

(* Seen from one node, a different Leader always comes with a newer term   *)
(* (architecture.md:322), also when a gap without a quorum lies between    *)
(* the two.  The exceptions are the code's own: terms saturate, and a node *)
(* that led itself alone may join its first site at an equal term.         *)
NewLeaderNewTerm ==
  [][\A n \in up \cap up' :
       /\ LastLed(n).leader # None
       /\ leader'[n] \notin {None, LastLed(n).leader}
       /\ LastLed(n).term # TermLimit
       /\ ~HandoffPending(n)
       => term'[n] > LastLed(n).term]_vars

(* n led last, and leads. *)
LeadsAgain(n) == n \in up \cap up' /\ LastLed(n).leader = n /\ leader'[n] = n

(* In a Site of two, a Leader that loses its quorum and regains it without *)
(* a restart leads on with the suspended term (architecture.md:320): a gap *)
(* in the heartbeats costs no term.                                        *)
ResumesTerm ==
  [][\A n \in Node : LeadsAgain(n) => term'[n] = LastLed(n).term]_vars

(* In any Site, it does so unless a candidate reports a newer term.        *)
ResumesUnopposed ==
  [][\A n \in Node :
       LeadsAgain(n) /\ ObservedTerm(n) <= LastLed(n).term
       => term'[n] = LastLed(n).term]_vars

-----------------------------------------------------------------------------
(* Liveness *)

Follows(l, n) == leader[n] = l /\ term[n] = term[l] /\ quorum[n]

Agreed == \E l \in up : \A n \in up : Follows(l, n)

SameDirectory == \A m, n \in Node : directory[m] = directory[n]

EverybodyConfigured ==
  /\ up = Node /\ Members(Owner) = Node
  /\ \A n \in Node : config[n] = config[Owner]

(* Two nodes prefer the same candidates of equal Directory revision. *)
RankAlike(m, n) ==
  \A a, b \in Node :
    Penalty(m, a) < Penalty(m, b) <=> Penalty(n, a) < Penalty(n, b)

(* Nobody leads, and Directories that forked at one revision rank the nodes *)
(* differently.                                                            *)
Blocked ==
  /\ \A n \in up : leader[n] = None
  /\ \E m, n \in up :
       directory[m].revision = directory[n].revision /\ ~RankAlike(m, n)

(* Once failures stop with every node powered and holding the roster, all  *)
(* nodes agree for good on one Leader and one Directory, whatever leases,  *)
(* suspended terms, forked Directories and standalone authority they still *)
(* hold from before (architecture.md:309); only where forked Directories   *)
(* name different Group Leaders may the Site stay without a Leader, for    *)
(* ever, although the choice of a fork is there to avoid just that         *)
(* (site_coordinator.cpp:441).                                             *)
Settles ==
  (calm /\ EverybodyConfigured)
    ~> ([](Agreed /\ SameDirectory) \/ []Blocked)

Minority == Cardinality(Node \ up) >= Cardinality(up)

(* A minority that remains on its own gives up all role authority          *)
(* (architecture.md:307).                                                  *)
MinorityStandsDown == (calm /\ Minority) ~> [](\A n \in up : leader[n] = None)

(* Nothing changes any more but the roster. *)
Steady ==
  /\ up = Node /\ SameDirectory
  /\ budget.restarts = 0 /\ budget.directories = 0
  /\ budget.lossy = {} /\ budget.slow = {}

(* The members of roster r agree on Leader l, and have heard so as of late *)
(* from members with complete credentials.                                 *)
Established(r, l) ==
  /\ Steady /\ l \in Roster[r] /\ Cardinality(Roster[r]) > 1
  /\ \A n \in Roster[r] :
       /\ config[n] = r /\ rosterSeen[n] = r
       /\ Follows(l, n) /\ LeaseActive(n)
       /\ view[n].digest = [roster |-> r, winner |-> l]
       /\ \A m \in Roster[r] \ {n} :
            /\ slots[n][m].ttl > IF m \in spoke THEN 1 ELSE 0
            /\ slots[n][m].digest = view[n].digest
            /\ slots[n][m].term = term[l] /\ slots[n][m].complete

(* An established Leader keeps leading, without a gap, while the members   *)
(* adopt further rosters in whatever order they reach them: peers that are *)
(* one revision apart endorse different digests meanwhile.                 *)
RosterKeepsLeader ==
  \A l \in Node :
    []((\E r \in 1..Len(Roster) : Established(r, l))
         => [](\A n \in Members(Owner) : leader[n] = l))
=============================================================================
