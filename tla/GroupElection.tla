---------------------------- MODULE GroupElection ---------------------------
(***************************************************************************)
(* The Group Leader election: the GroupCoordinator (group_coordinator.cpp) *)
(* of every member of one Fusion Group, on the heartbeats that also carry  *)
(* the Site election.  It shares the arithmetic of RoleElection with       *)
(* SiteElection, and differs from it in who may lead: the Site Leader      *)
(* should not, an assignment in the Directory counts more than the order   *)
(* of preference, there is no start-up probe, and no authority is handed   *)
(* over from a node that led itself alone.                                 *)
(*                                                                         *)
(* What the rest of the firmware decides is an input here: each node's     *)
(* roster revision, its idea of the Site Leader, its Directory's entry for *)
(* the Group, and whether it holds all credentials it needs.  Nodes may    *)
(* disagree about all of these until the environment is calm.              *)
(*                                                                         *)
(* Time passes in heartbeat intervals, as in SiteElection, and heartbeats  *)
(* of the same three wire versions arrive at once or are lost.  A Group    *)
(* that only readiness profiles describe, without a roster, is left out.   *)
(*                                                                         *)
(* canonical_assignment and credentials_complete, which elect_leader_      *)
(* computes for readers, guard nothing in it: endorsements of earlier      *)
(* views only exist in a bounded transition, which is enough for the one,  *)
(* and a winner is always a candidate with complete credentials.           *)
(***************************************************************************)
EXTENDS RoleElection

CONSTANTS
  Node,           \* members of the Group, ordered as strcmp orders them
  Eligible,       \* members with leader_eligible
  Owner,          \* the Configuration Owner, or None if it is no member
  Roster,         \* Roster[r] is the Group's membership at roster revision r
  Assignment,     \* entries for the Group that a Directory may hold
  Setup,          \* what the nodes hold at first, and what may befall them
  LeaseTicks,     \* DEFAULT_LEASE_MS in heartbeat intervals (3)
  ProbeInterval   \* SITE_HEARTBEAT_CURRENT_WIRE_PROBE_INTERVAL (5)

NoAssignment == [revision |-> 0, leader |-> None, members |-> 0]

GroupBudget == [restarts : Nat, rosters : Nat, assignments : Nat,
                siteLeaders : Nat, lossy : SUBSET (Node \X Node)]

ASSUME GroupAssumption ==
  /\ Node \subseteq Nat /\ IsFiniteSet(Node) /\ None \notin Node
  /\ Eligible \subseteq Node /\ Owner \in Node \cup {None}
  /\ Roster \in Seq(SUBSET Node)
  /\ Assignment \subseteq [revision : Nat \ {0}, leader : Node, members : Nat]
  /\ LeaseTicks \in Nat \ {0} /\ ProbeInterval \in Nat \ {0}
  /\ \A s \in Setup :
       /\ s.config \in [Node -> 0..Len(Roster)]
       /\ s.siteLeader \in [Node -> Node \cup {None}]
       /\ s.assignment \in [Node -> Assignment \cup {NoAssignment}]
       /\ s.directories \subseteq Node /\ s.complete \subseteq Node
       /\ s.budget \in GroupBudget

VARIABLES
  config,      \* roster revision of each node; 0 before it is enrolled
  siteLeader,  \* site_leader_node_id, as each node sees it; None also stands
               \* for a Site Leader outside the Group
  directories, \* nodes that hold a Directory
  assignment,  \* the Group's entry in it
  complete,    \* nodes that hold the credential of every member
  up,          \* the powered nodes
  leader, term, lease, quorum,  \* GroupCoordinatorState
  view,        \* election_view_digest, and the set behind older digests
  suspended,   \* suspended_leader_node_id and suspended_leader_term
  views,       \* transition_views
  seenRoster, seenAssignment,   \* election_roster_revision and
               \* election_assignment_revision
  slots,       \* heartbeats_
  known,       \* the newest wire version a node has heard of each peer
  cycle,       \* send_cycle_sequence_, modulo the wire probe interval
  spoke, fresh,  \* nodes that have sent, and run, in this interval
  calm,        \* no failure or change happens any more
  budget       \* the failures and changes that are left

inputs == <<config, siteLeader, directories, assignment, complete>>
coordinator == <<leader, term, lease, quorum, view, suspended, views,
                 seenRoster, seenAssignment>>
transport == <<known, cycle, spoke>>
vars == <<inputs, coordinator, slots, transport, fresh, up, calm, budget>>

NoDigest == [roster |-> 0, winner |-> None]
NoView == [digest |-> NoDigest, seen |-> {}, revision |-> 0]
Vacant == [ttl |-> 0, term |-> 0, admitted |-> FALSE, roster |-> 0,
           digest |-> NoDigest, complete |-> FALSE]
NobodySuspended == [leader |-> None, term |-> 0]

-----------------------------------------------------------------------------
(* Who may lead (site_configuration.cpp), as node n sees it *)

Members(n) == Roster[config[n]]
Enrolled(n) == config[n] # 0 /\ n \in Members(n)
Expected(n) == Cardinality(Members(n))
Required(n) == StrictMajority(Expected(n))
MultiNode(n) == Enrolled(n) /\ Expected(n) > 1

(* group_leader_role_penalty: the Site Leader comes last. *)
Penalty(n, m) ==
  (IF m = siteLeader[n] THEN 2 ELSE 0) + (IF m = Owner THEN 1 ELSE 0)

OthersEligible(n, m) == (Members(n) \cap Eligible) \ {m} # {}

(* group_leader_role_combination_allowed: nobody takes all three roles     *)
(* while the Group has another eligible member.                            *)
CombinationAllowed(n, m) ==
  m = siteLeader[n] /\ m = Owner => ~OthersEligible(n, m)

(* group_leader_assignment_allowed *)
AssignmentAllowed(n, m) ==
  /\ m \in Members(n) \cap Eligible /\ CombinationAllowed(n, m)
  /\ m = siteLeader[n] => ~OthersEligible(n, m)

-----------------------------------------------------------------------------
(* The winner (elect_leader_) *)

(* Slots that survive reconcile_heartbeat_slots_ *)
Live(n) ==
  IF Enrolled(n) THEN {m \in Members(n) \ {n} : slots[n][m].ttl > 0} ELSE {}
LiveComplete(n) == {m \in Live(n) : slots[n][m].complete}
LeaseActive(n) == leader[n] # None /\ lease[n] > 0

Candidates(n) ==
  {m \in LiveComplete(n) \cup ({n} \cap complete) :
     m \in Eligible /\ CombinationAllowed(n, m)}

(* observed_term *)
ObservedTerm(n) ==
  LET heard == {slots[n][m].term : m \in {c \in Candidates(n) \ {n} :
                                            slots[n][c].admitted}}
  IN  CHOOSE t \in heard \cup {term[n]} :
        \A u \in heard \cup {term[n]} : u <= t

(* leader_candidate_preferred *)
Preferred(n, a, b) ==
  \/ Penalty(n, a) < Penalty(n, b)
  \/ Penalty(n, a) = Penalty(n, b) /\ a < b

(* group_directory_has_exact_shape and group_directory_is_expanding *)
Exact(n) ==
  assignment[n].revision # 0 /\ assignment[n].members = Expected(n)
Expanding(n) ==
  /\ assignment[n].revision # 0
  /\ assignment[n].members \in 1..Expected(n) - 1

Assigned(n) ==
  {m \in Candidates(n) : /\ m = assignment[n].leader
                         /\ Exact(n) \/ Expanding(n)
                         /\ AssignmentAllowed(n, m)}

MutantProtected(n) ==  \* a Site Leader keeps leading the Group as well
  LeaseActive(n) /\ leader[n] \in Candidates(n)

(* An incumbent is kept while its lease runs, unless it is Site Leader. *)
Incumbent(n) ==
  LeaseActive(n) /\ leader[n] \in Candidates(n) /\ Penalty(n, leader[n]) < 2

(* The winner that a strict majority of the peers already endorses *)
Endorsed(n) ==
  {w \in Candidates(n) :
     /\ MultiNode(n) /\ Penalty(n, w) < 2
     /\ Cardinality({m \in LiveComplete(n) :
          slots[n][m].digest = [roster |-> config[n], winner |-> w]})
          >= Required(n)}

Winners(n) ==
  IF Incumbent(n) THEN {leader[n]}
  ELSE IF Endorsed(n) # {} THEN Endorsed(n)
  ELSE IF Assigned(n) # {} THEN Assigned(n)
  ELSE IF Candidates(n) # {}
    THEN {a \in Candidates(n) :
            \A b \in Candidates(n) \ {a} : Preferred(n, a, b)}
  ELSE {None}

AssignmentRevision(n) == IF Exact(n) THEN assignment[n].revision ELSE 0

(* The published view: the digest of contract version 3, and what the      *)
(* older digests are computed from.                                        *)
ViewOf(n, winner) ==
  [digest |-> [roster |-> config[n], winner |-> winner],
   seen |-> {<<n, n \in complete>>}
            \cup {<<m, slots[n][m].complete>> : m \in Live(n)},
   revision |-> AssignmentRevision(n)]

-----------------------------------------------------------------------------
(* Endorsements, and the tolerance for one change of roster or assignment *)

RosterDiffers(n, m) ==
  slots[n][m].roster # 0 /\ slots[n][m].roster # config[n]

MutantNoTransition(n) == FALSE  \* a change starts from no endorsement

BoundedTransition(n) ==
  /\ quorum[n] /\ term[n] # 0 /\ Incumbent(n)
  /\ ObservedTerm(n) <= term[n]
  /\ \/ views[n] # <<>>
     \/ seenRoster[n] # 0 /\ config[n] # seenRoster[n]
     \/ /\ AssignmentRevision(n) # seenAssignment[n]
        /\ 0 \notin {AssignmentRevision(n), seenAssignment[n]}
     \/ \E m \in LiveComplete(n) : RosterDiffers(n, m)

EarlierViews(n, v) ==
  IF ~BoundedTransition(n) THEN <<>>
  ELSE IF v # view[n] /\ view[n] # NoView THEN CaptureView(views[n], view[n])
  ELSE views[n]

DirectEndorsers(n, v) == {m \in Live(n) : slots[n][m].digest = v.digest}

(* Without a member's vote of its own there is nothing to add to. *)
DirectEndorsements(n, v) == 1 + Cardinality(DirectEndorsers(n, v))

(* The incumbent has moved to another roster revision and still leads. *)
IncumbentVouches(n) ==
  LET l == leader[n]
  IN  /\ BoundedTransition(n) /\ l # n /\ RosterDiffers(n, l)
      /\ slots[n][l].admitted /\ slots[n][l].term <= term[n]
      /\ slots[n][l].digest # NoDigest

TransitionalEndorsements(n, v) ==
  LET digests ==
        {EarlierViews(n, v)[i].digest : i \in 1..Len(EarlierViews(n, v))}
        \cup (IF IncumbentVouches(n) THEN {slots[n][leader[n]].digest} ELSE {})
      earlier == {m \in Live(n) \ DirectEndorsers(n, v) :
                    slots[n][m].digest \in digests}
      others == {m \in LiveComplete(n) \ (DirectEndorsers(n, v) \cup earlier) :
                   slots[n][m].digest # NoDigest}
      alternate ==
        IF IncumbentVouches(n) THEN 0
        ELSE StrongestVote(others, [m \in others |-> slots[n][m].digest])
  IN  IF BoundedTransition(n) THEN Larger(Cardinality(earlier), alternate)
      ELSE 0

MutantUnfenced(n) == FALSE  \* leads whatever the others endorse

FenceSupported(n) ==
  /\ MultiNode(n)
  /\ Exact(n) \/ \E m \in Live(n) : slots[n][m].digest # NoDigest

Endorsements(n, v) ==
  LET direct == DirectEndorsements(n, v)
  IN  IF ~FenceSupported(n) \/ direct >= Required(n) THEN direct
      ELSE PreserveIncumbentEndorsements(
             quorum[n], leader[n], term[n], ObservedTerm(n), v.digest.winner,
             direct, TransitionalEndorsements(n, v), Required(n))

HasQuorum(n, v) ==
  /\ QuorumAvailable(Expected(n), 1 + Cardinality(Live(n)))
  /\ FenceSupported(n) => Endorsements(n, v) >= Required(n)

ViewsAfter(n, v) ==
  IF DirectEndorsements(n, v) >= Required(n) THEN <<>> ELSE EarlierViews(n, v)

Admitted(n, w) == w # n /\ slots[n][w].admitted
WinnerTerm(n, w) == IF Admitted(n, w) THEN slots[n][w].term ELSE 0

Decision(n, w) ==
  DecideRoleTerm(term[n], leader[n], suspended[n].term, suspended[n].leader,
                 w, w = n, WinnerTerm(n, w), Admitted(n, w), ObservedTerm(n))

-----------------------------------------------------------------------------
(* Actions *)

Init ==
  /\ \E s \in Setup : /\ config = s.config /\ siteLeader = s.siteLeader
                      /\ directories = s.directories
                      /\ assignment = s.assignment /\ complete = s.complete
                      /\ budget = s.budget
  /\ up = Node
  /\ leader = [n \in Node |-> None]
  /\ term = [n \in Node |-> 0]
  /\ lease = [n \in Node |-> 0]
  /\ quorum = [n \in Node |-> FALSE]
  /\ view = [n \in Node |-> NoView]
  /\ suspended = [n \in Node |-> NobodySuspended]
  /\ views = [n \in Node |-> <<>>]
  /\ seenRoster = [n \in Node |-> 0] /\ seenAssignment = [n \in Node |-> 0]
  /\ slots = [n \in Node |-> [m \in Node |-> Vacant]]
  /\ known = [n \in Node |-> [m \in Node |-> 0]]
  /\ cycle = [n \in Node |-> 0]
  /\ spoke = {} /\ fresh = {} /\ calm = FALSE

Becomes(n, newLeader, newTerm, newLease, hasQuorum) ==
  /\ leader' = [leader EXCEPT ![n] = newLeader]
  /\ term' = [term EXCEPT ![n] = newTerm]
  /\ lease' = [lease EXCEPT ![n] = newLease]
  /\ quorum' = [quorum EXCEPT ![n] = hasQuorum]

(* What every election leaves behind, for the view v *)
Concludes(n, v, newSuspended) ==
  /\ view' = [view EXCEPT ![n] = v]
  /\ views' = [views EXCEPT ![n] = ViewsAfter(n, v)]
  /\ suspended' = [suspended EXCEPT ![n] = newSuspended]

Suspend(n) ==
  IF leader[n] = None THEN suspended[n]
  ELSE [leader |-> leader[n], term |-> term[n]]

LoseQuorum(n, v) ==
  /\ MultiNode(n) /\ ~HasQuorum(n, v)
  /\ Becomes(n, None, Larger(term[n], 1), 0, FALSE)
  /\ Concludes(n, v, Suspend(n))

FindNoWinner(n, v) ==
  /\ HasQuorum(n, v)
  /\ v.digest.winner = None
  /\ Becomes(n, None, term[n], 0, TRUE)
  /\ Concludes(n, v, Suspend(n))

RefuseTerm(n, v) ==
  LET w == v.digest.winner
  IN  /\ HasQuorum(n, v) /\ w # None /\ ~Decision(n, w).ready
      /\ Becomes(n, None, Decision(n, w).term, 0, FALSE)
      /\ Concludes(n, v, Suspend(n))

LeadOrFollow(n, v) ==
  LET w == v.digest.winner
  IN  /\ HasQuorum(n, v) /\ w # None /\ Decision(n, w).ready
      /\ Becomes(n, w, Decision(n, w).term,
                 IF w = n THEN LeaseTicks ELSE slots[n][w].ttl, TRUE)
      /\ Concludes(n, v, NobodySuspended)

(* update(): a node outside the Group keeps no Group. *)
Update(n) ==
  /\ n \in up /\ Enrolled(n)
  /\ \E w \in Winners(n) : \E v \in {ViewOf(n, w)} :
       \/ LoseQuorum(n, v) \/ FindNoWinner(n, v)
       \/ RefuseTerm(n, v) \/ LeadOrFollow(n, v)
  /\ slots' = [slots EXCEPT ![n] =
       [m \in Node |-> IF m \in Live(n) THEN slots[n][m] ELSE Vacant]]
  /\ seenRoster' = [seenRoster EXCEPT ![n] = config[n]]
  /\ seenAssignment' = [seenAssignment EXCEPT ![n] = AssignmentRevision(n)]
  /\ fresh' = fresh \cup {n}
  /\ UNCHANGED <<inputs, transport, up, calm, budget>>

(* The wire version of n's heartbeat to m, which depends on what n has     *)
(* heard of m: 4 carries terms only, 6 adds the roster, 12 the credentials *)
(* and the digest.  Every fifth cycle probes for the newest.               *)
WireProbe(n) == cycle[n] = ProbeInterval - 1

Wire(n, m) ==
  IF known[n][m] = 0 /\ ~WireProbe(n) THEN 4
  ELSE IF n \notin directories \/ (known[n][m] # 12 /\ ~WireProbe(n)) THEN 6
  ELSE 12

(* The heartbeat passes the coordination fence: a peer whose roster is     *)
(* known, and the same, or adjacent with complete credentials.             *)
Admissible(n, m) ==
  /\ term[n] # 0 /\ n \in Members(m)
  /\ Wire(n, m) = 4 => known[m][n] # 0
  /\ \/ config[n] = config[m]
     \/ /\ Wire(n, m) = 12 /\ n \in complete
        /\ config[n] \in {config[m] - 1, config[m] + 1}

(* accept_heartbeat: the slot of n at m after n's heartbeat; an old term   *)
(* of the Leader that m follows is kept out of the election.               *)
SlotAfter(n, m) ==
  LET stale == /\ n \in Eligible /\ leader[m] = n /\ LeaseActive(m)
               /\ term[n] < term[m]
      newest == Wire(n, m) = 12
  IN  IF ~Admissible(n, m) THEN slots[m][n]
      ELSE [ttl |-> LeaseTicks, term |-> term[n], admitted |-> ~stale,
            roster |-> IF Wire(n, m) = 4 THEN 0 ELSE config[n],
            digest |-> IF newest THEN view[n].digest ELSE NoDigest,
            complete |-> newest /\ n \in complete]

KnownAfter(n, m) ==
  IF Wire(n, m) = 4 THEN known[m][n] ELSE Larger(known[m][n], Wire(n, m))

(* setup() runs the coordinator once before a heartbeat can arrive, and    *)
(* accept_heartbeat knows only Groups that an update has found.            *)
Started(n) == n \in up /\ seenRoster[n] # 0
Peers(n) == {m \in Members(n) \ {n} : Started(m) /\ Enrolled(m)}
MayLose(n) == IF calm THEN {} ELSE {m \in Node : <<n, m>> \in budget.lossy}

Send(n) ==
  /\ Started(n) /\ n \notin spoke /\ Enrolled(n)
  /\ \E lost \in SUBSET (Peers(n) \cap MayLose(n)) :
     \E now \in {Peers(n) \ lost} :
       /\ slots' = [m \in Node |->
            IF m \in now THEN [slots[m] EXCEPT ![n] = SlotAfter(n, m)]
            ELSE slots[m]]
       /\ known' = [m \in Node |->
            IF m \in now THEN [known[m] EXCEPT ![n] = KnownAfter(n, m)]
            ELSE known[m]]
       /\ fresh' = fresh \ now
  /\ spoke' = spoke \cup {n}
  /\ cycle' = [cycle EXCEPT ![n] =
       IF \A m \in Members(n) \ {n} : known[n][m] = 12 THEN 0
       ELSE (@ + 1) % ProbeInterval]
  /\ UNCHANGED <<inputs, coordinator, up, calm, budget>>

MutantUnsaturated(t) == t - 1  \* wraps below zero

Less(t) == IF t = 0 THEN 0 ELSE t - 1

(* One heartbeat interval passes; the coordinators have run and spoken.    *)
Tick ==
  /\ \A n \in up : Enrolled(n) => n \in fresh \cap spoke
  /\ lease' = [n \in Node |-> Less(lease[n])]
  /\ slots' = [n \in Node |-> [m \in Node |->
                 [slots[n][m] EXCEPT !.ttl = Less(@)]]]
  /\ spoke' = {} /\ fresh' = {}
  /\ UNCHANGED <<inputs, leader, term, quorum, view, suspended, views,
                 seenRoster, seenAssignment, known, cycle, up, calm, budget>>

-----------------------------------------------------------------------------
(* Failures and changes *)

(* A restart forgets everything but what is read back from flash; the Site *)
(* Leader is found again by the Site election.                             *)
PowerOff(n) ==
  /\ n \in up /\ budget.restarts > 0 /\ ~calm
  /\ budget' = [budget EXCEPT !.restarts = @ - 1]
  /\ up' = up \ {n}
  /\ siteLeader' = [siteLeader EXCEPT ![n] = None]
  /\ leader' = [leader EXCEPT ![n] = None]
  /\ term' = [term EXCEPT ![n] = 0]
  /\ lease' = [lease EXCEPT ![n] = 0]
  /\ quorum' = [quorum EXCEPT ![n] = FALSE]
  /\ view' = [view EXCEPT ![n] = NoView]
  /\ suspended' = [suspended EXCEPT ![n] = NobodySuspended]
  /\ views' = [views EXCEPT ![n] = <<>>]
  /\ seenRoster' = [seenRoster EXCEPT ![n] = 0]
  /\ seenAssignment' = [seenAssignment EXCEPT ![n] = 0]
  /\ slots' = [slots EXCEPT ![n] = [m \in Node |-> Vacant]]
  /\ known' = [known EXCEPT ![n] = [m \in Node |-> 0]]
  /\ cycle' = [cycle EXCEPT ![n] = 0]
  /\ spoke' = spoke \ {n} /\ fresh' = fresh \ {n}
  /\ UNCHANGED <<config, directories, assignment, complete, calm>>

(* A boot takes longer than the 500 ms within which every other member has *)
(* run its coordinator on what it had heard.                               *)
PowerOn(n) ==
  /\ n \notin up /\ ~calm
  /\ \A m \in up : Enrolled(m) => m \in fresh
  /\ up' = up \cup {n}
  /\ UNCHANGED <<inputs, coordinator, slots, transport, fresh, calm, budget>>

Change(kind) ==
  /\ budget[kind] > 0 /\ ~calm
  /\ budget' = [budget EXCEPT ![kind] = @ - 1]

InputsOnly == UNCHANGED <<coordinator, slots, transport, fresh, up, calm>>

(* A node sees another Site Leader, and the rest hear of it.               *)
SiteLeaderChanges(n) ==
  /\ Change("siteLeaders") /\ n \in up
  /\ \E l \in (Node \cup {None}) \ {siteLeader[n]} :
       siteLeader' = [siteLeader EXCEPT ![n] = l]
  /\ UNCHANGED <<config, directories, assignment, complete>> /\ InputsOnly

HearSiteLeader(n, m) ==
  /\ Started(n) /\ m \in up /\ siteLeader[n] # siteLeader[m] /\ ~calm
  /\ siteLeader' = [siteLeader EXCEPT ![n] = siteLeader[m]]
  /\ UNCHANGED <<config, directories, assignment, complete, budget>>
  /\ InputsOnly

(* The Group Leader's report to the Site Leader makes it the assigned one  *)
(* (SiteGroupSummaryCache::accept_discovered); n is the first member to    *)
(* hold the new Directory, and the others copy its entry.                  *)
CommitAssignment(n) ==
  /\ Change("assignments")
  /\ n \in up \cap directories /\ siteLeader[n] \in {None, n}
  /\ \E a \in Assignment :
       /\ a.revision = assignment[n].revision + 1
       /\ a.leader # assignment[n].leader /\ a.members = Expected(n)
       /\ a.leader \in up /\ leader[a.leader] = a.leader /\ term[a.leader] # 0
       /\ assignment' = [assignment EXCEPT ![n] = a]
  /\ UNCHANGED <<config, siteLeader, directories, complete>> /\ InputsOnly

PullDirectory(n, m) ==
  /\ {n, m} \subseteq up /\ m \in directories /\ ~calm
  /\ n \notin directories \/ assignment[m].revision > assignment[n].revision
  /\ directories' = directories \cup {n}
  /\ assignment' = [assignment EXCEPT ![n] = assignment[m]]
  /\ UNCHANGED <<config, siteLeader, complete, budget>> /\ InputsOnly

(* n moves to roster r; a new member's credential still has to arrive. *)
MoveRoster(n, r) ==
  /\ config' = [config EXCEPT ![n] = r]
  /\ complete' = IF config[n] # 0 /\ Roster[r] = Members(n) THEN complete
                 ELSE complete \ {n}
  /\ UNCHANGED <<siteLeader, directories, assignment>> /\ InputsOnly

CommitRoster(n) ==
  /\ Change("rosters") /\ n \in up /\ Enrolled(n)
  /\ \A m \in Node : config[m] <= config[n]
  /\ config[n] < Len(Roster)
  /\ MoveRoster(n, config[n] + 1)

AdoptRoster(n, m) ==
  /\ {n, m} \subseteq up /\ ~calm
  /\ config[n] < config[m] /\ n \in Members(m)
  /\ MoveRoster(n, config[m])
  /\ UNCHANGED budget

Provision(n) ==
  /\ n \in up \ complete /\ Enrolled(n)
  /\ complete' = complete \cup {n}
  /\ UNCHANGED <<config, siteLeader, directories, assignment, budget>>
  /\ InputsOnly

Settle ==
  /\ ~calm /\ calm' = TRUE
  /\ UNCHANGED <<inputs, coordinator, slots, transport, fresh, up, budget>>

Next ==
  \/ \E n \in Node :
       \/ Update(n) \/ Send(n) \/ PowerOff(n) \/ PowerOn(n)
       \/ SiteLeaderChanges(n) \/ CommitAssignment(n) \/ CommitRoster(n)
       \/ Provision(n)
  \/ \E n, m \in Node :
       HearSiteLeader(n, m) \/ PullDirectory(n, m) \/ AdoptRoster(n, m)
  \/ Tick \/ Settle

Spec == Init /\ [][Next]_vars

(* The main loop runs the coordinator and the heartbeat cycles for ever,   *)
(* and credentials that are missing are provisioned.                       *)
LiveSpec == /\ Spec /\ []<><<Tick>>_vars
            /\ \A n \in Node : WF_vars(Provision(n))

-----------------------------------------------------------------------------
(* Properties *)

AnyNode == Node \cup {None}
Digest == [roster : 0..Len(Roster), winner : AnyNode]
View == [digest : Digest, seen : SUBSET (Node \X BOOLEAN), revision : Nat]
Slot == [ttl : 0..LeaseTicks, term : Term, admitted : BOOLEAN,
         roster : 0..Len(Roster), digest : Digest, complete : BOOLEAN]

(* Every variable holds a value of its kind; terms, leases and slots stay  *)
(* in their ranges.                                                        *)
TypeOK ==
  /\ config \in [Node -> 0..Len(Roster)]
  /\ siteLeader \in [Node -> AnyNode]
  /\ assignment \in [Node -> Assignment \cup {NoAssignment}]
  /\ complete \subseteq Node /\ up \subseteq Node
  /\ spoke \subseteq Node /\ fresh \subseteq Node
  /\ leader \in [Node -> AnyNode] /\ term \in [Node -> Term]
  /\ lease \in [Node -> 0..LeaseTicks] /\ quorum \in [Node -> BOOLEAN]
  /\ view \in [Node -> View] /\ views \in [Node -> Seq(View)]
  /\ suspended \in [Node -> [leader : AnyNode, term : Term]]
  /\ seenRoster \in [Node -> 0..Len(Roster)]
  /\ seenAssignment \in [Node -> Nat]
  /\ slots \in [Node -> [Node -> Slot]]
  /\ directories \subseteq Node /\ known \in [Node -> [Node -> {0, 6, 12}]]
  /\ cycle \in [Node -> 0..ProbeInterval - 1]
  /\ calm \in BOOLEAN /\ budget \in GroupBudget

Leads(n) == n \in up /\ leader[n] = n

(* n takes a Leader it did not have, of a Group in which votes are known.  *)
Votes(n, l) ==
  {m \in Live(n) : slots[n][m].digest = [roster |-> config[n], winner |-> l]}

TakenWithVotes(n) ==
  /\ leader'[n] \notin {None, leader[n]} /\ MultiNode(n)
  /\ Exact(n) \/ \E m \in Live(n) : slots[n][m].digest # NoDigest
  => 1 + Cardinality(Votes(n, leader'[n])) >= Required(n)

(* A member takes a Leader it did not have only while a strict majority,   *)
(* itself included, endorses this very roster and winner in the heartbeats *)
(* that are still alive (architecture.md:291-293).  The tolerance for a    *)
(* transition may keep a Leader; it never makes one.                       *)
NewLeaderEndorsed == [][\A n \in Node : TakenWithVotes(n)]_vars

Follows(l, n) == leader[n] = l /\ term[n] = term[l] /\ quorum[n]

EverybodyReady ==
  /\ up = Node
  /\ \A m, n \in Node :
       /\ config[n] # 0 /\ config[m] = config[n] /\ Members(n) = Node
       /\ siteLeader[m] = siteLeader[n] /\ assignment[m] = assignment[n]

(* Two members do not lead for good once nothing changes any more: "a      *)
(* different Leader always establishes a newer term"                       *)
(* (architecture.md:322), to which the other one gives way.                *)
OneGivesWay ==
  (calm /\ EverybodyReady)
    ~> \A m, n \in Node : Leads(m) /\ Leads(n) => m = n

(* Once the members agree on roster, Site Leader and assignment, they      *)
(* agree for good on one Group Leader, which is not the Site Leader while  *)
(* another member is eligible (architecture.md:244-251).                   *)
GroupSettles ==
  (calm /\ EverybodyReady)
    ~> [](\E l \in Eligible :
            /\ \A n \in Node : Follows(l, n)
            /\ OthersEligible(l, l) => siteLeader[l] # l)

(* All members follow l, have heard so as of late, and none sees it as     *)
(* Site Leader.                                                            *)
Established(l) ==
  /\ up = Node /\ budget.restarts = 0 /\ budget.lossy = {}
  /\ budget.siteLeaders = 0
  /\ \A n \in Node :
       /\ Follows(l, n) /\ LeaseActive(n) /\ siteLeader[n] # l
       /\ config[n] = 1 /\ Members(n) = Node /\ n \in complete
       /\ view[n].digest = [roster |-> 1, winner |-> l]
       /\ \A m \in Node \ {n} :
            /\ slots[n][m].ttl > (IF m \in spoke THEN 1 ELSE 0)
            /\ slots[n][m].digest = view[n].digest
            /\ slots[n][m].term = term[l] /\ slots[n][m].complete

(* An established Group Leader that is not Site Leader keeps its role,     *)
(* without a gap, while the members adopt a roster revision or another     *)
(* assignment in any order (architecture.md:314-320).                      *)
LeaderKept ==
  \A l \in Node :
    [](Established(l) => [](\A n \in Node : leader[n] = l))
=============================================================================
