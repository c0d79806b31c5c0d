------------------------- MODULE SiteElection_proofs -------------------------
(***************************************************************************)
(* Theorems about the Site Leader election for any set of nodes, any       *)
(* rosters and Directories, any lossy and slow links and any number of     *)
(* restarts and changes.                                                   *)
(***************************************************************************)
EXTENDS SiteElection, FiniteSetTheorems, WellFoundedInduction, TLAPS

-----------------------------------------------------------------------------
(* The arithmetic of role elections, for every quorum and term *)

(* Any nonempty set of terms has a largest one, so that the newest term a  *)
(* coordinator has observed is well defined.                               *)
LEMMA LargestTerm ==
  ASSUME NEW S \in SUBSET Term, S # {}
  PROVE  \E t \in S : \A u \in S : u <= t
<1> DEFINE Above(t) == t..TermLimit
           Tails == {Above(t) : t \in S}
<1> USE TermLimitAssumption DEF Term
<1>1. \A t \in S : IsFiniteSet(Above(t)) /\ Above(t) \in SUBSET Term
  <2> SUFFICES ASSUME NEW t \in S
               PROVE IsFiniteSet(t..TermLimit) /\ t..TermLimit \in SUBSET Term
    OBVIOUS
  <2>1. t \in Int /\ TermLimit \in Int /\ t >= 0
    OBVIOUS
  <2> QED BY <2>1, FS_Interval
<1>2. Tails \subseteq FiniteSubsetsOf(Term) /\ Tails # {}
  BY <1>1 DEF FiniteSubsetsOf
<1>3. PICK g \in Tails : \A h \in Tails : ~(<<h, g>> \in StrictSubsetOrdering(Term))
  BY <1>2, WFMin, FS_StrictSubsetOrderingWellFounded
<1>4. PICK t \in S : g = Above(t)
  OBVIOUS
<1>5. \A u \in S : u <= t
  <2> SUFFICES ASSUME NEW u \in S, ~(u <= t) PROVE FALSE
    OBVIOUS
  <2>1. Above(u) \in Tails
    OBVIOUS
  <2>2. Above(u) \subseteq Above(t) /\ t \in Above(t) /\ t \notin Above(u)
    OBVIOUS
  <2>3. <<Above(u), Above(t)>> \in StrictSubsetOrdering(Term)
    BY <1>1, <2>2 DEF StrictSubsetOrdering
  <2> QED BY <1>3, <1>4, <2>1, <2>3
<1> QED BY <1>5

-----------------------------------------------------------------------------
(* Two groups of voters that each have the quorum of one membership share  *)
(* a voter: an election decided by one cannot be decided by the other.     *)
THEOREM QuorumsIntersect ==
  ASSUME NEW M, IsFiniteSet(M), NEW A \in SUBSET M, NEW B \in SUBSET M,
         QuorumAvailable(Cardinality(M), Cardinality(A)),
         QuorumAvailable(Cardinality(M), Cardinality(B))
  PROVE  A \cap B # {}
<1>1. /\ Cardinality(M) \in Nat
      /\ Cardinality(A) \in Nat
      /\ Cardinality(B) \in Nat
  BY FS_CardinalityType, FS_Subset
<1>2. Cardinality(A) + Cardinality(B) > Cardinality(M)
  BY <1>1 DEF QuorumAvailable, StrictMajority
<1> QED BY <1>2, FS_MajoritiesIntersect

-----------------------------------------------------------------------------
(* The term decision, for every state of the two sides *)

(* A decision names a term, and one no older than the node's own, provided *)
(* that the node counts its own term among those it observed.              *)
LEMMA DecisionGrows ==
  ASSUME NEW current \in Term, NEW led, NEW lost \in Term,
         NEW lostLeader, NEW winner, NEW isLocal \in BOOLEAN,
         NEW winnerTerm \in Term, NEW admitted \in BOOLEAN,
         NEW observed \in Term, observed >= current
  PROVE  LET d == DecideRoleTerm(current, led, lost, lostLeader,
                                 winner, isLocal, winnerTerm, admitted,
                                 observed)
         IN  d.term \in Term /\ d.term >= current
<1> USE TermLimitAssumption DEF Term, Larger
<1>1. CASE isLocal
  <2>1. /\ NextRoleTerm(current) \in Term
        /\ NextRoleTerm(current) >= current
        /\ \A t \in Term : t >= current =>
             NextRoleTerm(t) \in Term /\ NextRoleTerm(t) >= current
    BY DEF NextRoleTerm
  <2>2. LocalTerm(current, led, lost, lostLeader, winner,
                  observed) \in Term
    BY <2>1 DEF LocalTerm
  <2>3. LocalTerm(current, led, lost, lostLeader, winner,
                  observed) >= current
    BY <2>1 DEF LocalTerm
  <2> QED BY <1>1, <2>2, <2>3 DEF DecideRoleTerm
<1>2. CASE ~isLocal
  <2>1. RefusedTerm(current, led, lost, lostLeader, winner,
                    admitted) \in Term
    BY DEF RefusedTerm
  <2>2. RefusedTerm(current, led, lost, lostLeader, winner,
                    admitted) >= current
    BY DEF RefusedTerm
  <2>3. RemoteTermAccepted(current, led, lost, lostLeader,
                           winner, winnerTerm) => winnerTerm >= current
    BY DEF RemoteTermAccepted
  <2> QED BY <1>2, <2>1, <2>2, <2>3 DEF DecideRoleTerm
<1> QED BY <1>1, <1>2

(* A winner other than the Leader followed last - the one led by, or the   *)
(* one lost when there is none - is decided ready only for a newer term,   *)
(* short of saturation.                                                    *)
LEMMA DecisionRenews ==
  ASSUME NEW current \in Term, NEW led, NEW lost \in Term,
         NEW lostLeader, NEW winner, NEW isLocal \in BOOLEAN,
         NEW winnerTerm \in Term, NEW admitted \in BOOLEAN,
         NEW observed \in Term,
         led # None \/ lostLeader # None,
         winner # IF led # None THEN led ELSE lostLeader,
         DecideRoleTerm(current, led, lost, lostLeader, winner,
                        isLocal, winnerTerm, admitted, observed).ready
  PROVE  LET last == IF led # None THEN current ELSE lost
         IN  last = TermLimit \/
             DecideRoleTerm(current, led, lost, lostLeader,
                            winner, isLocal, winnerTerm, admitted,
                            observed).term > last
<1> USE TermLimitAssumption DEF Term, Larger
<1>1. ~RoleIdEqual(led, winner)
  BY DEF RoleIdEqual
<1>2. ~(led = None /\ RoleIdEqual(lostLeader, winner))
  BY DEF RoleIdEqual
<1>3. ~(led = None /\ lostLeader = None)
  OBVIOUS
<1>4. CASE isLocal
  <2>1. LocalTerm(current, led, lost, lostLeader, winner,
                  observed)
          = NextRoleTerm(Larger(Larger(current, lost), observed))
    BY <1>1, <1>2, <1>3 DEF LocalTerm
  <2> QED BY <1>4, <2>1 DEF DecideRoleTerm, NextRoleTerm
<1>5. CASE ~isLocal
  <2>1. RemoteTermAccepted(current, led, lost, lostLeader,
                           winner, winnerTerm)
    BY <1>5 DEF DecideRoleTerm
  <2>2. winnerTerm > Larger(current, lost)
    BY <1>1, <1>2, <1>3, <2>1 DEF RemoteTermAccepted
  <2> QED BY <1>5, <2>1, <2>2 DEF DecideRoleTerm
<1> QED BY <1>4, <1>5

-----------------------------------------------------------------------------
(* What a well-typed state gives an election *)

(* What a usable roster and its members are.                               *)
LEMMA ReadyMembers ==
  ASSUME TypeOK, NEW n \in Node
  PROVE  /\ Ready(n) \in BOOLEAN
         /\ Complete(n) \in BOOLEAN
         /\ Ready(n) => Members(n) \subseteq Node
         /\ Live(n) \subseteq Node \ {n}
<1>1. config[n] \in AnyRoster
  BY DEF TypeOK
<1>2. config[n] # 0 => Members(n) \subseteq Node
  BY <1>1, SiteAssumption DEF AnyRoster, Members
<1>3. Ready(n) => Members(n) \subseteq Node
  BY <1>2 DEF Ready
<1>4. Live(n) \subseteq Node \ {n}
  BY <1>3 DEF Live
<1>5. Ready(n) \in BOOLEAN /\ Complete(n) \in BOOLEAN
  BY <1>1 DEF Ready, Complete
<1> QED BY <1>3, <1>4, <1>5

(* A remote candidate, and so a remote winner, is a live peer. *)
LEMMA RemoteCandidatesLive ==
  ASSUME TypeOK, NEW n \in Node
  PROVE  \A c \in Candidates(n) : c # n => c \in Live(n)
BY DEF Candidates, EligibleLive

(* Candidates are nodes of the Site.                                       *)
LEMMA CandidatesAreNodes ==
  ASSUME TypeOK, NEW n \in Node
  PROVE  Candidates(n) \subseteq Node
BY ReadyMembers, RemoteCandidatesLive

(* A winner is one of the candidates it was chosen from.                   *)
LEMMA WinnersAreCandidates ==
  ASSUME TypeOK, NEW n \in Node, NEW w \in Winners(n)
  PROVE  w = None \/ w \in Candidates(n)
BY DEF Winners, Incumbent, Endorsed

(* The newest observed term is a term, and never older than the node's.    *)
LEMMA ObservedTermGrows ==
  ASSUME TypeOK, NEW n \in Node
  PROVE  ObservedTerm(n) \in Term /\ ObservedTerm(n) >= term[n]
<1> DEFINE Heard == {slots[n][m].term : m \in {c \in Candidates(n) \ {n} :
                                                 slots[n][c].admitted}}
<1>1. term[n] \in Term /\ \A m \in Node : slots[n][m] \in Slot
  BY DEF TypeOK
<1>2. Heard \cup {term[n]} \in SUBSET Term
  BY <1>1, CandidatesAreNodes DEF Slot
<1>3. PICK t \in Heard \cup {term[n]} : \A u \in Heard \cup {term[n]} : u <= t
  BY <1>2, LargestTerm
<1>4. ObservedTerm(n) \in Heard \cup {term[n]} /\
      \A u \in Heard \cup {term[n]} : u <= ObservedTerm(n)
  BY <1>3 DEF ObservedTerm
<1> QED BY <1>1, <1>2, <1>4, TermLimitAssumption DEF Term

(* The term taken under a winner is a term.                                *)
LEMMA WinnerTermType ==
  ASSUME TypeOK, NEW n \in Node, NEW w \in Node
  PROVE  WinnerTerm(n, w) \in Term /\ WinnerAdmitted(n, w) \in BOOLEAN
<1>1. slots[n][w] \in Slot
  BY DEF TypeOK
<1> QED BY <1>1, TermLimitAssumption
        DEF WinnerTerm, WinnerAdmitted, Slot, Term

(* Whatever wins, the term it leads with is no older than the node's own.  *)
LEMMA DecisionIsNewer ==
  ASSUME TypeOK, NEW n \in Node, NEW w \in Node
  PROVE  Decision(n, w).term \in Term /\ Decision(n, w).term >= term[n]
<1>1. /\ term[n] \in Term
      /\ suspended[n].term \in Term
  BY DEF TypeOK
<1>2. /\ WinnerTerm(n, w) \in Term
      /\ WinnerAdmitted(n, w) \in BOOLEAN
      /\ ObservedTerm(n) \in Term
      /\ ObservedTerm(n) >= term[n]
  BY WinnerTermType, ObservedTermGrows
<1>3. (w = n) \in BOOLEAN
  OBVIOUS
<1> HIDE DEF WinnerTerm, WinnerAdmitted, ObservedTerm, DecideRoleTerm
<1> QED BY <1>1, <1>2, <1>3, DecisionGrows DEF Decision

(* A view of the election is a digest.                                     *)
LEMMA ViewOfType ==
  ASSUME TypeOK, NEW n \in Node, NEW w \in AnyNode
  PROVE  ViewOf(n, w) \in View
<1>1. config[n] \in AnyRoster /\ directory[n] \in AnyFence
  BY DEF TypeOK
<1>2. \A m \in Node : slots[n][m] \in Slot
  BY DEF TypeOK
<1>3. 0 \in AnyRoster
  BY SiteAssumption DEF AnyRoster
<1>4. ViewOf(n, w).digest \in Digest
  BY <1>1, <1>3 DEF ViewOf, Digest
<1>5. Seen(n) \in SUBSET Observation
  <2> SUFFICES ASSUME NEW m \in Live(n) \cup {n}
               PROVE [id |-> m, fence |-> FenceOf(n, m),
                      complete |-> IF m = n THEN Complete(n)
                                   ELSE slots[n][m].complete] \in Observation
    BY DEF Seen
  <2>1. m \in Node /\ Complete(n) \in BOOLEAN
    BY ReadyMembers
  <2>2. FenceOf(n, m) \in AnyFence
    BY <1>1, <1>2, <2>1 DEF FenceOf, Slot
  <2> QED BY <1>2, <2>1, <2>2 DEF Observation, Slot
<1> QED BY <1>4, <1>5 DEF ViewOf, View, Digest

(* Capturing a transition keeps the type of the remembered views.          *)
LEMMA CapturedViews ==
  ASSUME NEW S, NEW earlier \in Seq(S), NEW v \in S
  PROVE  CaptureView(earlier, v) \in Seq(S)
<1>1. CASE Len(earlier) < MaxViews
  BY <1>1 DEF CaptureView
<1>2. CASE ~(Len(earlier) < MaxViews)
  <2>1. earlier # <<>>
    BY <1>2 DEF MaxViews
  <2>2. Tail(earlier) \in Seq(S)
    BY <2>1
  <2> QED BY <1>2, <2>2 DEF CaptureView
<1> QED BY <1>1, <1>2

(* So does dropping the views a new roster makes obsolete.                 *)
LEMMA ViewsAfterType ==
  ASSUME TypeOK, NEW n \in Node, NEW v \in View
  PROVE  ViewsAfter(n, v) \in Seq(View)
<1>1. views[n] \in Seq(View) /\ view[n] \in View
  BY DEF TypeOK
<1>2. CaptureView(views[n], view[n]) \in Seq(View)
  BY <1>1, CapturedViews
<1>3. EarlierViews(n, v) \in Seq(View)
  BY <1>1, <1>2 DEF EarlierViews
<1> QED BY <1>3 DEF ViewsAfter

-----------------------------------------------------------------------------
(* Types *)

CoordinatorType(n) ==
  /\ leader'[n] \in AnyNode
  /\ term'[n] \in Term
  /\ lease'[n] \in 0..LeaseTicks
  /\ quorum'[n] \in BOOLEAN
  /\ probe'[n] \in [stage : {"idle", "active", "done"}, left : 0..LeaseTicks]
  /\ view'[n] \in View
  /\ views'[n] \in Seq(View)
  /\ suspended'[n] \in [leader : AnyNode, term : Term]

(* Only the coordinator of n changes. *)
OthersKeep(n) ==
  /\ leader' = [leader EXCEPT ![n] = leader'[n]]
  /\ term' = [term EXCEPT ![n] = term'[n]]
  /\ lease' = [lease EXCEPT ![n] = lease'[n]]
  /\ quorum' = [quorum EXCEPT ![n] = quorum'[n]]
  /\ probe' = [probe EXCEPT ![n] = probe'[n]]
  /\ view' = [view EXCEPT ![n] = view'[n]]
  /\ views' = [views EXCEPT ![n] = views'[n]]
  /\ suspended' = [suspended EXCEPT ![n] = suspended'[n]]

(* What the new leader, term and lease of one node are, and of the others. *)
LEMMA BecomesValues ==
  ASSUME TypeOK, NEW n \in Node, NEW l, NEW t, NEW e, NEW q,
         Becomes(n, l, t, e, q)
  PROVE  /\ leader'[n] = l /\ term'[n] = t /\ lease'[n] = e /\ quorum'[n] = q
         /\ leader' = [leader EXCEPT ![n] = leader'[n]]
         /\ term' = [term EXCEPT ![n] = term'[n]]
         /\ lease' = [lease EXCEPT ![n] = lease'[n]]
         /\ quorum' = [quorum EXCEPT ![n] = quorum'[n]]
BY DEF TypeOK, Becomes

(* What the concluding assignments of an update leave in the state.        *)
LEMMA ConcludesValues ==
  ASSUME TypeOK, NEW n \in Node, NEW v, NEW s, Concludes(n, v, s)
  PROVE  /\ probe'[n] = ProbeAfter(n) /\ view'[n] = v
         /\ views'[n] = ViewsAfter(n, v) /\ suspended'[n] = s
         /\ probe' = [probe EXCEPT ![n] = probe'[n]]
         /\ view' = [view EXCEPT ![n] = view'[n]]
         /\ views' = [views EXCEPT ![n] = views'[n]]
         /\ suspended' = [suspended EXCEPT ![n] = suspended'[n]]
BY DEF TypeOK, Concludes

(* Suspending an authority keeps its types.                                *)
LEMMA SuspendType ==
  ASSUME TypeOK, NEW n \in Node
  PROVE  Suspend(n) \in [leader : AnyNode, term : Term]
BY DEF TypeOK, Suspend

(* The first outcome of an update: the start-up probe goes on.             *)
LEMMA KeepProbingType ==
  ASSUME TypeOK, NEW n \in Node, KeepProbing(n)
  PROVE  CoordinatorType(n) /\ OthersKeep(n)
<1> DEFINE left == IF probe[n].stage = "idle" THEN LeaseTicks
                   ELSE probe[n].left
<1>1. left \in 0..LeaseTicks
  BY SiteAssumption DEF TypeOK
<1>2. Becomes(n, None, Larger(term[n], 1), left, FALSE)
  BY DEF KeepProbing
<1>3. /\ leader'[n] = None /\ term'[n] = Larger(term[n], 1)
      /\ lease'[n] = left /\ quorum'[n] = FALSE
      /\ leader' = [leader EXCEPT ![n] = leader'[n]]
      /\ term' = [term EXCEPT ![n] = term'[n]]
      /\ lease' = [lease EXCEPT ![n] = lease'[n]]
      /\ quorum' = [quorum EXCEPT ![n] = quorum'[n]]
  <2> HIDE DEF left
  <2> QED BY <1>2, BecomesValues
<1>4. /\ probe' = [probe EXCEPT ![n] = [stage |-> "active", left |-> left]]
      /\ view' = [view EXCEPT ![n] = ProbeView(n)]
      /\ views' = views /\ suspended' = suspended
  BY DEF KeepProbing
<1>5. ProbeView(n) \in View
  <2>1. Complete(n) \in BOOLEAN /\ directory[n] \in AnyFence
    BY ReadyMembers DEF TypeOK
  <2>2. 0 \in AnyRoster
    BY SiteAssumption DEF AnyRoster
  <2> QED BY <2>1, <2>2 DEF ProbeView, View, Digest, Observation, AnyNode
<1>6. Larger(term[n], 1) \in Term
  BY TermLimitAssumption DEF TypeOK, Term, Larger
<1>7. CoordinatorType(n)
  BY <1>1, <1>3, <1>4, <1>5, <1>6 DEF CoordinatorType, TypeOK, AnyNode
<1>8. OthersKeep(n)
  BY <1>3, <1>4 DEF OthersKeep, TypeOK
<1> QED BY <1>7, <1>8

(* A remote winner's slot is live, so the lease taken from it is in range. *)
LEMMA LeaseUnderType ==
  ASSUME TypeOK, NEW n \in Node, NEW w \in Node
  PROVE  LeaseUnder(n, w) \in 0..LeaseTicks
<1>1. slots[n][w].ttl \in 0..LeaseTicks
  BY DEF TypeOK, Slot
<1> QED BY <1>1, SiteAssumption DEF LeaseUnder

(* The probe counter stays in its range.                                   *)
LEMMA ProbeAfterType ==
  ASSUME TypeOK, NEW n \in Node
  PROVE  ProbeAfter(n) \in [stage : {"idle", "active", "done"},
                            left : 0..LeaseTicks]
BY SiteAssumption DEF TypeOK, ProbeAfter

(* The other outcomes of an update keep the types.                         *)
LEMMA ElectType ==
  ASSUME TypeOK, NEW n \in Node, Elect(n)
  PROVE  CoordinatorType(n) /\ OthersKeep(n)
<1>1. PICK w \in Winners(n) :
        \/ LoseQuorum(n, ViewOf(n, w)) \/ FindNoWinner(n, ViewOf(n, w))
        \/ RefuseTerm(n, ViewOf(n, w)) \/ LeadOrFollow(n, ViewOf(n, w))
  BY DEF Elect
<1> DEFINE v == ViewOf(n, w)
<1>2. w \in AnyNode /\ (w # None => w \in Node)
  BY WinnersAreCandidates, CandidatesAreNodes DEF AnyNode
<1>3. v.digest.winner = w
  BY DEF ViewOf
<1>4. v \in View /\ ViewsAfter(n, v) \in Seq(View)
  BY <1>2, ViewOfType, ViewsAfterType
<1> HIDE DEF v
<1>5. /\ term[n] \in Term /\ Larger(term[n], 1) \in Term
      /\ NobodySuspended \in [leader : AnyNode, term : Term]
      /\ Suspend(n) \in [leader : AnyNode, term : Term]
      /\ 0 \in 0..LeaseTicks /\ None \in AnyNode
  <2>1. term[n] \in Term
    BY DEF TypeOK
  <2>2. Larger(term[n], 1) \in Term /\ 0 \in Term
    BY <2>1, TermLimitAssumption DEF Term, Larger
  <2>3. None \in AnyNode
    BY DEF AnyNode
  <2>4. NobodySuspended \in [leader : AnyNode, term : Term]
    BY <2>2, <2>3 DEF NobodySuspended
  <2>5. 0 \in 0..LeaseTicks
    BY SiteAssumption
  <2> QED BY <2>1, <2>2, <2>3, <2>4, <2>5, SuspendType
<1>6. ASSUME NEW l \in AnyNode, NEW t \in Term, NEW e \in 0..LeaseTicks,
             NEW q \in BOOLEAN, NEW s \in [leader : AnyNode, term : Term],
             Becomes(n, l, t, e, q), Concludes(n, v, s)
      PROVE  CoordinatorType(n) /\ OthersKeep(n)
  <2>1. /\ leader'[n] = l /\ term'[n] = t /\ lease'[n] = e /\ quorum'[n] = q
        /\ probe'[n] = ProbeAfter(n) /\ view'[n] = v
        /\ views'[n] = ViewsAfter(n, v) /\ suspended'[n] = s
        /\ OthersKeep(n)
    BY <1>6, BecomesValues, ConcludesValues DEF OthersKeep
  <2> QED BY <1>4, <2>1, ProbeAfterType DEF CoordinatorType
<1>7. CASE LoseQuorum(n, v)
  BY <1>5, <1>6, <1>7 DEF LoseQuorum
<1>8. CASE FindNoWinner(n, v)
  BY <1>5, <1>6, <1>8 DEF FindNoWinner
<1>9. CASE RefuseTerm(n, v)
  <2>1. Decision(n, w).term \in Term
    BY <1>2, <1>3, <1>9, DecisionIsNewer DEF RefuseTerm
  <2> QED BY <1>3, <1>5, <1>6, <1>9, <2>1 DEF RefuseTerm
<1>10. CASE LeadOrFollow(n, v)
  <2>1. w \in Node
    BY <1>2, <1>3, <1>10 DEF LeadOrFollow
  <2>2. Decision(n, w).term \in Term /\ WinnerTerm(n, w) \in Term
    BY <2>1, DecisionIsNewer, WinnerTermType
  <2>3. LeaseUnder(n, w) \in 0..LeaseTicks
    BY <2>1, LeaseUnderType
  <2> QED BY <1>2, <1>3, <1>5, <1>6, <1>10, <2>2, <2>3 DEF LeadOrFollow
<1> QED BY <1>1, <1>7, <1>8, <1>9, <1>10 DEF v

(* An update is one of these outcomes and concludes.                       *)
LEMMA UpdateOutcome ==
  ASSUME TypeOK, NEW n \in Node, Update(n)
  PROVE  CoordinatorType(n) /\ OthersKeep(n)
BY KeepProbingType, ElectType DEF Update

(* An empty slot and no digest have the types of their kinds.              *)
LEMMA VacantType == /\ Vacant \in Slot /\ NoDigest \in Digest
                    /\ NoHeartbeat \in Message /\ Unknown \in Endpoint
                    /\ NoFence \in AnyFence /\ 0 \in AnyRoster
BY SiteAssumption, TermLimitAssumption
   DEF Vacant, NoHeartbeat, Unknown, Slot, Message, Endpoint, Wires, Digest,
       NoDigest, AnyFence, NoFence, AnyNode, AnyRoster, Term

(* A coordination step keeps the types.                                    *)
LEMMA UpdateType ==
  ASSUME TypeOK, NEW n \in Node, Update(n)
  PROVE  TypeOK'
<1>1. CoordinatorType(n) /\ OthersKeep(n)
  BY UpdateOutcome
<1>2. UpdateFrame(n)
  BY DEF Update
<1>3. /\ leader' \in [Node -> AnyNode] /\ term' \in [Node -> Term]
      /\ lease' \in [Node -> 0..LeaseTicks] /\ quorum' \in [Node -> BOOLEAN]
      /\ probe' \in [Node -> [stage : {"idle", "active", "done"},
                              left : 0..LeaseTicks]]
      /\ view' \in [Node -> View]
      /\ suspended' \in [Node -> [leader : AnyNode, term : Term]]
  BY <1>1 DEF TypeOK, CoordinatorType, OthersKeep
<1>4. views' \in [Node -> Seq(View)]
  BY <1>1 DEF TypeOK, CoordinatorType, OthersKeep
<1>5. slots' \in [Node -> [Node -> Slot]]
  BY <1>2, VacantType DEF TypeOK, UpdateFrame
<1>6. rosterSeen' \in [Node -> AnyRoster]
  <2>1. 0 \in AnyRoster
    BY SiteAssumption DEF AnyRoster
  <2> QED BY <1>2, <2>1 DEF TypeOK, UpdateFrame
<1>7. standalone' \in [Node -> [held : BOOLEAN, term : Term,
                               pending : BOOLEAN]]
  <2>1. StandaloneAfter(n, leader'[n], term'[n], quorum'[n])
          \in [held : BOOLEAN, term : Term, pending : BOOLEAN]
    <3>1. standalone[n] \in [held : BOOLEAN, term : Term, pending : BOOLEAN]
      BY DEF TypeOK
    <3>2. HandoffPending(n) \in BOOLEAN
      BY <3>1, ReadyMembers DEF HandoffPending, MultiNode
    <3> QED BY <1>1, <3>1, <3>2, TermLimitAssumption
            DEF StandaloneAfter, NotStandalone, CoordinatorType, Term
  <2> QED BY <1>2, <2>1 DEF TypeOK, UpdateFrame
<1> QED BY <1>2, <1>3, <1>4, <1>5, <1>6, <1>7
        DEF TypeOK, UpdateFrame, environment, transport

(* The types hold initially.                                               *)
LEMMA InitType == Init => TypeOK
<1> SUFFICES ASSUME Init PROVE TypeOK
  OBVIOUS
<1>1. /\ Vacant \in Slot /\ NoDigest \in Digest /\ NoHeartbeat \in Message
      /\ Unknown \in Endpoint /\ 0 \in 0..ProbeInterval - 1
      /\ 0 \in Term /\ 0 \in AnyRoster /\ 0 \in 0..LeaseTicks
      /\ None \in AnyNode
  BY VacantType, TermLimitAssumption, SiteAssumption
     DEF Term, AnyRoster, AnyNode
<1>2. /\ NoView \in View
      /\ NobodySuspended \in [leader : AnyNode, term : Term]
      /\ NoProbe \in [stage : {"idle", "active", "done"}, left : 0..LeaseTicks]
      /\ NotStandalone \in [held : BOOLEAN, term : Term, pending : BOOLEAN]
  BY <1>1 DEF NoView, View, NobodySuspended, NoProbe, NotStandalone
<1>3. config \in [Node -> AnyRoster] /\ directory \in [Node -> AnyFence]
      /\ credentials \in [Node -> SUBSET Node]
      /\ budget \in Budget
  BY SiteAssumption DEF Init, AnyRoster, AnyFence
<1>4. views \in [Node -> Seq(View)]
  BY DEF Init
<1> QED BY <1>1, <1>2, <1>3, <1>4 DEF Init, TypeOK

(* A slot filled from a heartbeat is a slot.                               *)
LEMMA SlotAfterType ==
  ASSUME TypeOK, NEW m \in Node, NEW n \in Node, NEW message \in Message
  PROVE  SlotAfter(m, n, message) \in Slot
<1>1. slots[n][m] \in Slot
  BY DEF TypeOK
<1>2. StaleTerm(n, m, message) \in BOOLEAN
  BY DEF StaleTerm
<1>3. LeaseTicks \in 0..LeaseTicks
  BY SiteAssumption
<1>4. RosterOf(message) \in AnyRoster
  BY VacantType DEF RosterOf, Message
<1> QED BY <1>1, <1>2, <1>3, <1>4 DEF SlotAfter, Slot, Message

(* An endpoint updated from a heartbeat is an endpoint.                    *)
LEMMA EndpointAfterType ==
  ASSUME TypeOK, NEW m \in Node, NEW n \in Node, NEW message \in Message
  PROVE  EndpointAfter(m, n, message) \in Endpoint
<1>1. endpoints[n][m] \in Endpoint
  BY DEF TypeOK
<1>2. CASE message.wire = 4
  BY <1>1, <1>2 DEF EndpointAfter, Endpoint
<1>3. CASE message.wire # 4
  BY <1>1, <1>3 DEF EndpointAfter, Endpoint, Message
<1> QED BY <1>2, <1>3

(* What a node puts on the wire is a heartbeat.                            *)
LEMMA HeartbeatType ==
  ASSUME TypeOK, NEW n \in Node, NEW m \in Node
  PROVE  Heartbeat(n, m) \in Message
<1>1. Complete(n) \in BOOLEAN /\ Wire(n, m) \in Wires
  BY ReadyMembers DEF Wire, Wires
<1>2. /\ term[n] \in Term /\ config[n] \in AnyRoster
      /\ view[n].digest \in Digest /\ directory[n] \in AnyFence
  BY DEF TypeOK, View
<1>3. NoHeartbeat \in Message
  BY VacantType
<1> QED BY <1>1, <1>2, <1>3 DEF Heartbeat, Message

(* What one heartbeat cycle of n leaves, for the peers it reaches at once  *)
(* and later.                                                              *)
Delivered(n, now, late) ==
  /\ sent' = [sent EXCEPT ![n] =
       [m \in Node |-> IF m \in late THEN Heartbeat(n, m) ELSE NoHeartbeat]]
  /\ slots' = [m \in Node |->
       IF m \in now THEN [slots[m] EXCEPT ![n] = SlotAfter(n, m, Heartbeat(n, m))]
       ELSE slots[m]]
  /\ endpoints' = [m \in Node |->
       IF m \in now
       THEN [endpoints[m] EXCEPT ![n] = EndpointAfter(n, m, Heartbeat(n, m))]
       ELSE endpoints[m]]
  /\ fresh' = fresh \ now

(* A cycle delivers some heartbeats now and some late.                     *)
LEMMA SendDelivers ==
  ASSUME NEW n \in Node, Send(n)
  PROVE  \E now, late : Delivered(n, now, late)
<1> DEFINE to == {m \in Addressees(n) : Hears(m, n)}
<1>1. PICK lost \in SUBSET (to \cap Links(n, budget.lossy)) :
        \E late \in SUBSET ((to \cap Links(n, budget.slow)) \ lost) :
        \E now \in {to \ (lost \cup late)} : Delivered(n, now, late)
  BY DEF Send, Delivered
<1> QED BY <1>1

(* A heartbeat cycle keeps the types.                                      *)
LEMMA SendType ==
  ASSUME TypeOK, NEW n \in Node, Send(n)
  PROVE  TypeOK'
<1>1. PICK now, late : Delivered(n, now, late)
  BY SendDelivers
<1>2. \A m \in Node : Heartbeat(n, m) \in Message /\ NoHeartbeat \in Message
  BY HeartbeatType, VacantType
<1>3. sent' \in [Node -> [Node -> Message]]
  <2>1. [m \in Node |-> IF m \in late THEN Heartbeat(n, m) ELSE NoHeartbeat]
          \in [Node -> Message]
    BY <1>2
  <2> QED BY <1>1, <2>1 DEF TypeOK, Delivered
<1>4. slots' \in [Node -> [Node -> Slot]]
  <2>1. \A m \in Node : SlotAfter(n, m, Heartbeat(n, m)) \in Slot
    BY <1>2, SlotAfterType
  <2> QED BY <1>1, <2>1 DEF TypeOK, Delivered
<1>5. endpoints' \in [Node -> [Node -> Endpoint]]
  <2>1. \A m \in Node : EndpointAfter(n, m, Heartbeat(n, m)) \in Endpoint
    BY <1>2, EndpointAfterType
  <2> QED BY <1>1, <2>1 DEF TypeOK, Delivered
<1>6. cycle' \in [Node -> 0..ProbeInterval - 1]
  <2>1. \A c \in 0..ProbeInterval - 1 : (c + 1) % ProbeInterval
                                          \in 0..ProbeInterval - 1
    <3> SUFFICES ASSUME NEW c \in Nat
                 PROVE  (c + 1) % ProbeInterval \in 0..ProbeInterval - 1
      BY SiteAssumption
    <3>1. ProbeInterval \in Nat /\ ProbeInterval > 0
      BY SiteAssumption
    <3> QED BY <3>1
  <2>2. cycle \in [Node -> 0..ProbeInterval - 1] /\ 0 \in 0..ProbeInterval - 1
    BY SiteAssumption DEF TypeOK
  <2>3. \E c \in {0, (cycle[n] + 1) % ProbeInterval} :
          cycle' = [cycle EXCEPT ![n] = c]
    BY DEF Send
  <2> QED BY <2>1, <2>2, <2>3
<1>7. /\ spoke' = spoke \cup {n} /\ fresh' \subseteq fresh
      /\ UNCHANGED <<environment, coordinator, up, calm, budget>>
  BY <1>1 DEF Send, Delivered
<1> QED BY <1>3, <1>4, <1>5, <1>6, <1>7 DEF TypeOK, environment, coordinator

(* The arrival of a delayed heartbeat keeps the types.                     *)
LEMMA ReceiveLateType ==
  ASSUME TypeOK, NEW m \in Node, NEW n \in Node, ReceiveLate(m, n)
  PROVE  TypeOK'
<1>1. sent[m][n] \in Message /\ NoHeartbeat \in Message
  BY VacantType DEF TypeOK
<1>2. /\ SlotAfter(m, n, sent[m][n]) \in Slot
      /\ EndpointAfter(m, n, sent[m][n]) \in Endpoint
  BY <1>1, SlotAfterType, EndpointAfterType
<1>3. slots' \in [Node -> [Node -> Slot]]
  BY <1>2 DEF ReceiveLate, TypeOK
<1>4. endpoints' \in [Node -> [Node -> Endpoint]]
  BY <1>2 DEF ReceiveLate, TypeOK
<1>5. sent' \in [Node -> [Node -> Message]]
  BY <1>1 DEF ReceiveLate, TypeOK
<1> QED BY <1>3, <1>4, <1>5 DEF ReceiveLate, TypeOK, environment, coordinator

(* Counting down stays in the range.                                       *)
LEMMA LessType ==
  ASSUME NEW limit \in Nat, NEW t \in 0..limit
  PROVE  Less(t) \in 0..limit /\ Less(t) <= t
BY DEF Less

(* The passing of an interval keeps the types.                             *)
LEMMA TickType ==
  ASSUME TypeOK, Tick
  PROVE  TypeOK'
<1>0. LeaseTicks \in Nat
  BY SiteAssumption
<1>1. lease' \in [Node -> 0..LeaseTicks]
  BY <1>0, LessType DEF Tick, TypeOK
<1>2. slots' \in [Node -> [Node -> Slot]]
  <2>1. \A n, m \in Node : [slots[n][m] EXCEPT !.ttl = Less(@)] \in Slot
    <3> SUFFICES ASSUME NEW n \in Node, NEW m \in Node
                 PROVE [slots[n][m] EXCEPT !.ttl = Less(@)] \in Slot
      OBVIOUS
    <3>1. slots[n][m] \in Slot
      BY DEF TypeOK
    <3>2. Less(slots[n][m].ttl) \in 0..LeaseTicks
      BY <1>0, <3>1, LessType DEF Slot
    <3> QED BY <3>1, <3>2 DEF Slot
  <2>2. slots' = [n \in Node |-> [m \in Node |->
                   [slots[n][m] EXCEPT !.ttl = Less(@)]]]
    BY DEF Tick
  <2> QED BY <2>1, <2>2
<1>3. probe' \in [Node -> [stage : {"idle", "active", "done"},
                          left : 0..LeaseTicks]]
  <2>1. \A n \in Node : [probe[n] EXCEPT !.left = Less(@)]
          \in [stage : {"idle", "active", "done"}, left : 0..LeaseTicks]
    <3> SUFFICES ASSUME NEW n \in Node
                 PROVE [probe[n] EXCEPT !.left = Less(@)]
          \in [stage : {"idle", "active", "done"}, left : 0..LeaseTicks]
      OBVIOUS
    <3>1. probe[n] \in [stage : {"idle", "active", "done"},
                        left : 0..LeaseTicks]
      BY DEF TypeOK
    <3>2. Less(probe[n].left) \in 0..LeaseTicks
      BY <1>0, <3>1, LessType
    <3> QED BY <3>1, <3>2
  <2> QED BY <2>1 DEF Tick
<1> QED BY <1>1, <1>2, <1>3 DEF Tick, TypeOK, environment

(* Spending one item of the budget leaves a budget.                        *)
LEMMA BudgetSpent ==
  ASSUME NEW b \in Budget, NEW kind \in {"restarts", "rosters", "directories"},
         b[kind] > 0
  PROVE  [b EXCEPT ![kind] = b[kind] - 1] \in Budget
<1>1. /\ b.restarts \in Nat /\ b.rosters \in Nat /\ b.directories \in Nat
      /\ b.lossy \in SUBSET (Node \X Node) /\ b.slow \in SUBSET (Node \X Node)
      /\ b = [restarts |-> b.restarts, rosters |-> b.rosters,
              directories |-> b.directories, lossy |-> b.lossy,
              slow |-> b.slow]
  BY DEF Budget
<1>2. CASE kind = "restarts"
  <2>1. b.restarts - 1 \in Nat
    BY <1>1, <1>2
  <2>2. [b EXCEPT !.restarts = b.restarts - 1] =
          [restarts |-> b.restarts - 1, rosters |-> b.rosters,
           directories |-> b.directories, lossy |-> b.lossy, slow |-> b.slow]
    BY <1>1
  <2> QED BY <1>1, <1>2, <2>1, <2>2 DEF Budget
<1>3. CASE kind = "rosters"
  <2>1. b.rosters - 1 \in Nat
    BY <1>1, <1>3
  <2>2. [b EXCEPT !.rosters = b.rosters - 1] =
          [restarts |-> b.restarts, rosters |-> b.rosters - 1,
           directories |-> b.directories, lossy |-> b.lossy, slow |-> b.slow]
    BY <1>1
  <2> QED BY <1>1, <1>3, <2>1, <2>2 DEF Budget
<1>4. CASE kind = "directories"
  <2>1. b.directories - 1 \in Nat
    BY <1>1, <1>4
  <2>2. [b EXCEPT !.directories = b.directories - 1] =
          [restarts |-> b.restarts, rosters |-> b.rosters,
           directories |-> b.directories - 1, lossy |-> b.lossy,
           slow |-> b.slow]
    BY <1>1
  <2> QED BY <1>1, <1>4, <2>1, <2>2 DEF Budget
<1> QED BY <1>2, <1>3, <1>4

(* Power cycles keep the types.                                            *)
LEMMA PowerType ==
  ASSUME TypeOK, NEW n \in Node, PowerOff(n) \/ PowerOn(n)
  PROVE  TypeOK'
<1>1. CASE PowerOff(n)
  <2>1. /\ None \in AnyNode /\ 0 \in Term /\ 0 \in 0..LeaseTicks
        /\ 0 \in AnyRoster /\ Vacant \in Slot /\ NoHeartbeat \in Message
        /\ NoDigest \in Digest /\ Unknown \in Endpoint
        /\ 0 \in 0..ProbeInterval - 1
    BY VacantType, TermLimitAssumption, SiteAssumption
       DEF Term, AnyRoster, AnyNode
  <2>2. /\ NoView \in View
        /\ NobodySuspended \in [leader : AnyNode, term : Term]
        /\ NoProbe \in [stage : {"idle", "active", "done"},
                        left : 0..LeaseTicks]
        /\ NotStandalone \in [held : BOOLEAN, term : Term, pending : BOOLEAN]
    BY <2>1 DEF NoView, View, NobodySuspended, NoProbe, NotStandalone
  <2>3. /\ leader' \in [Node -> AnyNode] /\ term' \in [Node -> Term]
        /\ lease' \in [Node -> 0..LeaseTicks]
        /\ quorum' \in [Node -> BOOLEAN] /\ rosterSeen' \in [Node -> AnyRoster]
    BY <1>1, <2>1 DEF PowerOff, TypeOK
  <2>4. /\ view' \in [Node -> View]
        /\ suspended' \in [Node -> [leader : AnyNode, term : Term]]
        /\ probe' \in [Node -> [stage : {"idle", "active", "done"},
                                left : 0..LeaseTicks]]
        /\ standalone' \in [Node -> [held : BOOLEAN, term : Term,
                                     pending : BOOLEAN]]
    BY <1>1, <2>2 DEF PowerOff, TypeOK
  <2>5. views' \in [Node -> Seq(View)]
    BY <1>1 DEF PowerOff, TypeOK
  <2>6. slots' \in [Node -> [Node -> Slot]]
    BY <1>1, <2>1 DEF PowerOff, TypeOK
  <2>7. /\ sent' \in [Node -> [Node -> Message]]
        /\ endpoints' \in [Node -> [Node -> Endpoint]]
        /\ cycle' \in [Node -> 0..ProbeInterval - 1]
    BY <1>1, <2>1 DEF PowerOff, TypeOK
  <2>8. budget' \in Budget
    <3>1. budget \in Budget
      BY DEF TypeOK
    <3>2. /\ budget["restarts"] > 0
          /\ budget' = [budget EXCEPT !["restarts"] = budget["restarts"] - 1]
      BY <1>1 DEF PowerOff
    <3> QED BY <3>1, <3>2, BudgetSpent
  <2> QED BY <1>1, <2>3, <2>4, <2>5, <2>6, <2>7, <2>8
          DEF PowerOff, TypeOK, environment
<1>2. CASE PowerOn(n)
  BY <1>2 DEF PowerOn, TypeOK, environment, coordinator, transport
<1> QED BY <1>1, <1>2

(* Commits of rosters and Directories keep the types.                      *)
LEMMA ChangeType ==
  ASSUME TypeOK, NEW n \in Node, CommitRoster(n) \/ CommitDirectory(n)
  PROVE  TypeOK'
<1>1. budget \in Budget
  BY DEF TypeOK
<1>2. CASE CommitRoster(n)
  <2>1. config' \in [Node -> AnyRoster]
    <3>1. /\ config[n] < Len(Roster)
          /\ config' = [config EXCEPT ![n] = config[n] + 1]
      BY <1>2 DEF CommitRoster
    <3>2. config \in [Node -> AnyRoster]
      BY DEF TypeOK
    <3>3. Len(Roster) \in Nat
      BY SiteAssumption
    <3>4. config[n] + 1 \in AnyRoster
      BY <3>1, <3>2, <3>3 DEF AnyRoster
    <3> QED BY <3>1, <3>2, <3>4
  <2>2. budget' \in Budget
    <3>1. /\ budget["rosters"] > 0
          /\ budget' = [budget EXCEPT !["rosters"] = budget["rosters"] - 1]
      BY <1>2 DEF CommitRoster, Change
    <3> QED BY <1>1, <3>1, BudgetSpent
  <2> QED BY <1>2, <2>1, <2>2
          DEF CommitRoster, Change, TypeOK, coordinator, transport
<1>3. CASE CommitDirectory(n)
  <2>1. directory' \in [Node -> AnyFence]
    BY <1>3 DEF CommitDirectory, TypeOK, AnyFence
  <2>2. budget' \in Budget
    <3>1. /\ budget["directories"] > 0
          /\ budget' = [budget EXCEPT !["directories"] = budget["directories"] - 1]
      BY <1>3 DEF CommitDirectory, Change
    <3> QED BY <1>1, <3>1, BudgetSpent
  <2> QED BY <1>3, <2>1, <2>2
          DEF CommitDirectory, Change, TypeOK, coordinator, transport
<1> QED BY <1>2, <1>3

(* Adopting a roster keeps the types.                                      *)
LEMMA AdoptRosterType ==
  ASSUME TypeOK, NEW n \in Node, AdoptRoster(n)
  PROVE  TypeOK'
<1>1. config' \in [Node -> AnyRoster]
  BY SiteAssumption DEF AdoptRoster, TypeOK
<1> QED BY <1>1 DEF AdoptRoster, TypeOK, coordinator, transport

(* Delivering credentials keeps the types.                                 *)
LEMMA ProvisionCredentialsType ==
  ASSUME TypeOK, NEW n \in Node, ProvisionCredentials(n)
  PROVE  TypeOK'
<1>1. Members(n) \subseteq Node
  BY ReadyMembers DEF ProvisionCredentials
<1>2. credentials' \in [Node -> SUBSET Node]
  BY <1>1 DEF ProvisionCredentials, TypeOK
<1> QED BY <1>2 DEF ProvisionCredentials, TypeOK, coordinator, transport

(* Copying a Directory keeps the types.                                    *)
LEMMA PullDirectoryType ==
  ASSUME TypeOK, NEW n \in Node, PullDirectory(n)
  PROVE  TypeOK'
<1>1. PICK source \in DirectorySources(n) :
        directory' = [directory EXCEPT ![n] = directory[source]]
  BY DEF PullDirectory
<1>2. source \in Node
  BY DEF DirectorySources, BootstrapSources, TypeOK
<1>3. directory' \in [Node -> AnyFence]
  BY <1>1, <1>2 DEF TypeOK
<1> QED BY <1>3 DEF PullDirectory, TypeOK, coordinator, transport

(* The end of the failures keeps the types.                                *)
LEMMA SettleType ==
  ASSUME TypeOK, Settle
  PROVE  TypeOK'
BY DEF Settle, TypeOK, environment, coordinator, transport

(* A stuttering step keeps the types.                                      *)
LEMMA StutterType ==
  ASSUME TypeOK, UNCHANGED vars
  PROVE  TypeOK'
BY DEF vars, TypeOK, environment, coordinator, transport

(* Every step keeps the types.                                             *)
LEMMA NextType ==
  ASSUME TypeOK, [Next]_vars
  PROVE  TypeOK'
<1>1. CASE UNCHANGED vars
  BY <1>1, StutterType
<1>2. CASE Tick \/ Settle
  BY <1>2, TickType, SettleType
<1>3. ASSUME NEW m \in Node, NEW n \in Node, ReceiveLate(m, n) PROVE TypeOK'
  BY <1>3, ReceiveLateType
<1>4. ASSUME NEW n \in Node, Update(n) \/ Send(n) PROVE TypeOK'
  BY <1>4, UpdateType, SendType
<1>5. ASSUME NEW n \in Node, PowerOff(n) \/ PowerOn(n) PROVE TypeOK'
  BY <1>5, PowerType
<1>6. ASSUME NEW n \in Node, CommitRoster(n) \/ CommitDirectory(n)
      PROVE  TypeOK'
  BY <1>6, ChangeType
<1>7. ASSUME NEW n \in Node,
             AdoptRoster(n) \/ ProvisionCredentials(n) \/ PullDirectory(n)
      PROVE  TypeOK'
  BY <1>7, AdoptRosterType, ProvisionCredentialsType, PullDirectoryType
<1> QED BY <1>1, <1>2, <1>3, <1>4, <1>5, <1>6, <1>7 DEF Next

(* Terms, leases, slots and identifiers stay in their ranges through every *)
(* election, heartbeat, restart and change.                                *)
THEOREM TypeCorrect == Spec => []TypeOK
<1>1. Init => TypeOK
  BY InitType
<1>2. TypeOK /\ [Next]_vars => TypeOK'
  BY NextType
<1> QED BY <1>1, <1>2, PTL DEF Spec

-----------------------------------------------------------------------------
(* Leases *)

LeaseBackedAt(n) ==
  leader[n] \notin {None, n} => lease[n] <= slots[n][leader[n]].ttl

(* The Leader and the term after each outcome without a winner to follow.  *)
LEMMA LeaderlessValues ==
  ASSUME TypeOK, NEW n \in Node
  PROVE  /\ KeepProbing(n) =>
              leader'[n] = None /\ term'[n] = Larger(term[n], 1)
         /\ \A v : LoseQuorum(n, v) =>
              leader'[n] = None /\ term'[n] = Larger(term[n], 1)
         /\ \A v : FindNoWinner(n, v) =>
              leader'[n] = None /\ term'[n] = term[n]
         /\ \A v : RefuseTerm(n, v) =>
              /\ leader'[n] = None /\ v.digest.winner # None
              /\ term'[n] = Decision(n, v.digest.winner).term
<1>1. ASSUME NEW t, NEW e, NEW q, Becomes(n, None, t, e, q)
      PROVE  leader'[n] = None /\ term'[n] = t
  BY <1>1, BecomesValues
<1>2. KeepProbing(n) => leader'[n] = None /\ term'[n] = Larger(term[n], 1)
  BY <1>1 DEF KeepProbing
<1>3. \A v : LoseQuorum(n, v) =>
         leader'[n] = None /\ term'[n] = Larger(term[n], 1)
  BY <1>1 DEF LoseQuorum
<1>4. \A v : FindNoWinner(n, v) => leader'[n] = None /\ term'[n] = term[n]
  BY <1>1 DEF FindNoWinner
<1>5. \A v : RefuseTerm(n, v) =>
         /\ leader'[n] = None /\ v.digest.winner # None
         /\ term'[n] = Decision(n, v.digest.winner).term
  <2> SUFFICES ASSUME NEW v, RefuseTerm(n, v)
               PROVE  /\ leader'[n] = None /\ v.digest.winner # None
                      /\ term'[n] = Decision(n, v.digest.winner).term
    OBVIOUS
  <2>1. /\ Becomes(n, None, Decision(n, v.digest.winner).term, 0, FALSE)
        /\ v.digest.winner # None
    BY DEF RefuseTerm
  <2> QED BY <1>1, <2>1
<1> QED BY <1>2, <1>3, <1>4, <1>5

(* The Leader, term and lease after an outcome with a winner.              *)
LEMMA LeadOrFollowValues ==
  ASSUME TypeOK, NEW n \in Node, NEW v, LeadOrFollow(n, v)
  PROVE  LET w == v.digest.winner
         IN  /\ leader'[n] = w
             /\ lease'[n] = LeaseUnder(n, w)
             /\ term'[n] = IF Decision(n, w).ready THEN Decision(n, w).term
                           ELSE WinnerTerm(n, w)
             /\ w # None
             /\ Decision(n, w).ready \/ StandaloneHandoff(n, w)
<1> DEFINE w == v.digest.winner
           newTerm == IF Decision(n, w).ready THEN Decision(n, w).term
                      ELSE WinnerTerm(n, w)
<1>1. /\ Becomes(n, w, newTerm, LeaseUnder(n, w), TRUE)
      /\ w # None
      /\ Decision(n, w).ready \/ StandaloneHandoff(n, w)
  BY DEF LeadOrFollow
<1> HIDE DEF w, newTerm
<1>2. leader'[n] = w /\ term'[n] = newTerm /\ lease'[n] = LeaseUnder(n, w)
  BY <1>1, BecomesValues
<1> QED BY <1>1, <1>2 DEF w, newTerm

(* A node that follows takes its lease from a slot that the same update    *)
(* keeps.                                                                  *)
LEMMA ElectedLease ==
  ASSUME TypeOK, NEW n \in Node, Update(n)
  PROVE  LeaseBackedAt(n)'
<1>1. CASE KeepProbing(n)
  <2>1. leader'[n] = None
    BY <1>1, LeaderlessValues
  <2> QED BY <2>1 DEF LeaseBackedAt
<1>2. CASE Elect(n)
  <2>1. PICK w \in Winners(n) :
          \/ LoseQuorum(n, ViewOf(n, w)) \/ FindNoWinner(n, ViewOf(n, w))
          \/ RefuseTerm(n, ViewOf(n, w)) \/ LeadOrFollow(n, ViewOf(n, w))
    BY <1>2 DEF Elect
  <2>2. ViewOf(n, w).digest.winner = w
    BY DEF ViewOf
  <2>3. CASE ~LeadOrFollow(n, ViewOf(n, w))
    <3>1. leader'[n] = None
      BY <2>1, <2>3, LeaderlessValues
    <3> QED BY <3>1 DEF LeaseBackedAt
  <2>4. CASE LeadOrFollow(n, ViewOf(n, w)) /\ w # n
    <3>1. leader'[n] = w /\ lease'[n] = LeaseUnder(n, w)
      BY <2>2, <2>4, LeadOrFollowValues
    <3>2. w \in Live(n)
      BY <2>2, <2>4, WinnersAreCandidates, RemoteCandidatesLive
         DEF LeadOrFollow
    <3>3. w \in Node /\ slots[n][w].ttl \in 0..LeaseTicks
      <4>1. w \in Node
        BY <3>2, ReadyMembers
      <4>2. slots[n][w] \in Slot
        BY <4>1 DEF TypeOK
      <4> QED BY <4>1, <4>2 DEF Slot
    <3>4. slots'[n][w] = slots[n][w]
      BY <3>2, <3>3 DEF Update, UpdateFrame, TypeOK
    <3> QED BY <2>4, <3>1, <3>3, <3>4, SiteAssumption
            DEF LeaseUnder, LeaseBackedAt
  <2>5. CASE LeadOrFollow(n, ViewOf(n, w)) /\ w = n
    <3>1. leader'[n] = w
      BY <2>2, <2>5, LeadOrFollowValues
    <3> QED BY <2>5, <3>1 DEF LeaseBackedAt
  <2> QED BY <2>3, <2>4, <2>5
<1> QED BY <1>1, <1>2 DEF Update

(* Hearing from a peer never shortens what is known of it. *)
LEMMA SlotAfterTtl ==
  ASSUME TypeOK, NEW m \in Node, NEW n \in Node, NEW message
  PROVE  SlotAfter(m, n, message).ttl >= slots[n][m].ttl
<1>1. slots[n][m].ttl \in 0..LeaseTicks /\ LeaseTicks \in Nat
  BY SiteAssumption DEF TypeOK, Slot
<1> QED BY <1>1 DEF SlotAfter

(* A step that only lengthens the life of slots keeps leases backed.       *)
LEMMA SlotsGrow ==
  ASSUME TypeOK, LeaseBacked,
         leader' = leader, lease' = lease,
         \A n, m \in Node : slots'[n][m].ttl \in 0..LeaseTicks
                           /\ slots'[n][m].ttl >= slots[n][m].ttl
  PROVE  LeaseBacked'
<1> SUFFICES ASSUME NEW n \in Node, leader[n] \notin {None, n}
             PROVE  lease[n] <= slots'[n][leader[n]].ttl
  BY DEF LeaseBacked
<1>1. leader[n] \in Node
  BY DEF TypeOK, AnyNode
<1>2. lease[n] <= slots[n][leader[n]].ttl
  BY DEF LeaseBacked
<1>3. /\ lease[n] \in 0..LeaseTicks
      /\ slots[n][leader[n]].ttl \in 0..LeaseTicks
  BY <1>1 DEF TypeOK, Slot
<1>4. /\ slots'[n][leader[n]].ttl \in 0..LeaseTicks
      /\ slots'[n][leader[n]].ttl >= slots[n][leader[n]].ttl
  BY <1>1
<1>5. LeaseTicks \in Nat
  BY SiteAssumption
<1> QED BY <1>2, <1>3, <1>4, <1>5

(* Every step keeps leases within the life of the slots they rest on.      *)
LEMMA LeaseBackedStep ==
  ASSUME TypeOK, LeaseBacked, [Next]_vars
  PROVE  LeaseBacked'
<1>0. TypeOK'
  BY NextType
<1>1. ASSUME NEW n \in Node, Update(n) PROVE LeaseBacked'
  <2>1. LeaseBackedAt(n)'
    BY <1>1, ElectedLease
  <2>2. ASSUME NEW m \in Node, m # n PROVE LeaseBackedAt(m)'
    <3>1. leader'[m] = leader[m] /\ lease'[m] = lease[m]
      <4>1. OthersKeep(n)
        BY <1>1, UpdateOutcome
      <4> QED BY <2>2, <4>1 DEF OthersKeep, TypeOK
    <3>2. slots'[m] = slots[m]
      BY <1>1, <2>2 DEF Update, UpdateFrame, TypeOK
    <3> QED BY <3>1, <3>2 DEF LeaseBacked, LeaseBackedAt
  <2> QED BY <2>1, <2>2 DEF LeaseBacked, LeaseBackedAt
<1>2. ASSUME NEW n \in Node, Send(n) PROVE LeaseBacked'
  <2>1. leader' = leader /\ lease' = lease
    BY <1>2 DEF Send, coordinator
  <2>2. ASSUME NEW k \in Node, NEW m \in Node
        PROVE  slots'[k][m] \in {slots[k][m], SlotAfter(n, k, Heartbeat(n, k))}
               /\ (m # n => slots'[k][m] = slots[k][m])
    <3>1. PICK now, late : Delivered(n, now, late)
      BY <1>2, SendDelivers
    <3> QED BY <3>1 DEF Delivered, TypeOK
  <2>3. \A k, m \in Node : slots'[k][m].ttl >= slots[k][m].ttl
    <3> SUFFICES ASSUME NEW k \in Node, NEW m \in Node
                 PROVE  slots'[k][m].ttl >= slots[k][m].ttl
      OBVIOUS
    <3>1. slots[k][m].ttl \in 0..LeaseTicks /\ LeaseTicks \in Nat
      BY SiteAssumption DEF TypeOK, Slot
    <3>2. CASE slots'[k][m] = slots[k][m]
      BY <3>1, <3>2
    <3>3. CASE m = n /\ slots'[k][m] = SlotAfter(n, k, Heartbeat(n, k))
      <4>1. SlotAfter(n, k, Heartbeat(n, k)).ttl >= slots[k][n].ttl
        BY SlotAfterTtl
      <4> QED BY <3>3, <4>1
    <3> QED BY <2>2, <3>2, <3>3
  <2>4. \A k, m \in Node : slots'[k][m].ttl \in 0..LeaseTicks
    BY <1>0 DEF TypeOK, Slot
  <2> QED BY <2>1, <2>3, <2>4, SlotsGrow
<1>3. ASSUME NEW m \in Node, NEW n \in Node, ReceiveLate(m, n)
      PROVE  LeaseBacked'
  <2>1. leader' = leader /\ lease' = lease
    BY <1>3 DEF ReceiveLate, coordinator
  <2>2. \A k, j \in Node : slots'[k][j].ttl >= slots[k][j].ttl
    <3> SUFFICES ASSUME NEW k \in Node, NEW j \in Node
                 PROVE  slots'[k][j].ttl >= slots[k][j].ttl
      OBVIOUS
    <3>1. slots'[k][j] = slots[k][j] \/
          (k = n /\ j = m /\ slots'[k][j] = SlotAfter(m, n, sent[m][n]))
      BY <1>3 DEF ReceiveLate, TypeOK
    <3>2. slots[k][j].ttl \in 0..LeaseTicks /\ LeaseTicks \in Nat
      BY SiteAssumption DEF TypeOK, Slot
    <3>3. SlotAfter(m, n, sent[m][n]).ttl >= slots[n][m].ttl
      BY SlotAfterTtl
    <3>4. CASE slots'[k][j] = slots[k][j]
      BY <3>2, <3>4
    <3> QED BY <3>1, <3>3, <3>4
  <2>3. \A k, j \in Node : slots'[k][j].ttl \in 0..LeaseTicks
    BY <1>0 DEF TypeOK, Slot
  <2> QED BY <2>1, <2>2, <2>3, SlotsGrow
<1>4. CASE Tick
  <2> SUFFICES ASSUME NEW n \in Node, leader'[n] \notin {None, n}
               PROVE  lease'[n] <= slots'[n][leader'[n]].ttl
    BY DEF LeaseBacked
  <2>1. leader'[n] = leader[n] /\ leader[n] \in Node
    BY <1>4 DEF Tick, TypeOK, AnyNode
  <2>2. /\ lease'[n] = Less(lease[n])
        /\ slots'[n][leader[n]] = [slots[n][leader[n]] EXCEPT !.ttl = Less(@)]
    BY <1>4, <2>1 DEF Tick
  <2>3. slots[n][leader[n]] \in Slot /\ lease[n] \in 0..LeaseTicks
    BY <2>1 DEF TypeOK
  <2>4. slots'[n][leader[n]].ttl = Less(slots[n][leader[n]].ttl)
    BY <2>2, <2>3 DEF Slot
  <2>5. lease[n] <= slots[n][leader[n]].ttl
    BY <2>1 DEF LeaseBacked
  <2>6. /\ LeaseTicks \in Nat /\ lease[n] \in Nat
        /\ slots[n][leader[n]].ttl \in Nat
    BY <2>3, SiteAssumption DEF Slot
  <2>7. Less(lease[n]) <= Less(slots[n][leader[n]].ttl)
    BY <2>5, <2>6 DEF Less
  <2> QED BY <2>1, <2>2, <2>4, <2>7
<1>5. ASSUME NEW n \in Node, PowerOff(n) PROVE LeaseBacked'
  <2> SUFFICES ASSUME NEW m \in Node, leader'[m] \notin {None, m}
               PROVE  lease'[m] <= slots'[m][leader'[m]].ttl
    BY DEF LeaseBacked
  <2>1. m # n
    BY <1>5 DEF PowerOff, TypeOK
  <2>2. leader'[m] = leader[m] /\ lease'[m] = lease[m] /\ slots'[m] = slots[m]
    BY <1>5, <2>1 DEF PowerOff, TypeOK
  <2> QED BY <2>2 DEF LeaseBacked
<1>6. CASE UNCHANGED <<leader, lease, slots>>
  BY <1>6 DEF LeaseBacked
<1>7. UNCHANGED vars \/ Settle => UNCHANGED <<leader, lease, slots>>
  BY DEF vars, Settle, coordinator
<1>8. ASSUME NEW n \in Node,
             \/ PowerOn(n) \/ CommitRoster(n) \/ AdoptRoster(n)
             \/ ProvisionCredentials(n) \/ CommitDirectory(n)
             \/ PullDirectory(n)
      PROVE  UNCHANGED <<leader, lease, slots>>
  BY <1>8 DEF PowerOn, CommitRoster, AdoptRoster, ProvisionCredentials,
              CommitDirectory, PullDirectory, Change, coordinator
<1> QED BY <1>1, <1>2, <1>3, <1>4, <1>5, <1>6, <1>7, <1>8 DEF Next

(* For any site and any failures: a node never follows a remote Leader for *)
(* longer than a lease after the last heartbeat it admitted from it.       *)
THEOREM LeasesBacked == Spec => []LeaseBacked
<1>1. Init => TypeOK /\ LeaseBacked
  BY InitType DEF Init, LeaseBacked
<1>2. TypeOK /\ LeaseBacked /\ [Next]_vars => TypeOK' /\ LeaseBacked'
  BY NextType, LeaseBackedStep
<1> QED BY <1>1, <1>2, PTL DEF Spec

-----------------------------------------------------------------------------
(* Terms *)

(* The suspended term is never read but for the suspended Leader, so an    *)
(* update may only raise the term of its node.                             *)
LEMMA UpdateRaisesTerm ==
  ASSUME TypeOK, NEW n \in Node, Update(n)
  PROVE  term'[n] >= term[n]
<1>1. term[n] \in Nat /\ Larger(term[n], 1) >= term[n]
  BY TermLimitAssumption DEF TypeOK, Term, Larger
<1>2. CASE KeepProbing(n)
  <2>1. term'[n] = Larger(term[n], 1)
    BY <1>2, LeaderlessValues
  <2> QED BY <1>1, <2>1
<1>3. CASE Elect(n)
  <2>1. PICK w \in Winners(n) :
          \/ LoseQuorum(n, ViewOf(n, w)) \/ FindNoWinner(n, ViewOf(n, w))
          \/ RefuseTerm(n, ViewOf(n, w)) \/ LeadOrFollow(n, ViewOf(n, w))
    BY <1>3 DEF Elect
  <2>2. ViewOf(n, w).digest.winner = w /\ (w # None => w \in Node)
    BY WinnersAreCandidates, CandidatesAreNodes DEF ViewOf
  <2>3. CASE LoseQuorum(n, ViewOf(n, w))
    <3>1. term'[n] = Larger(term[n], 1)
      BY <2>3, LeaderlessValues
    <3> QED BY <1>1, <3>1
  <2>4. CASE FindNoWinner(n, ViewOf(n, w))
    <3>1. term'[n] = term[n]
      BY <2>4, LeaderlessValues
    <3> QED BY <1>1, <3>1
  <2>5. CASE RefuseTerm(n, ViewOf(n, w))
    <3>1. term'[n] = Decision(n, w).term /\ w \in Node
      BY <2>2, <2>5, LeaderlessValues
    <3> QED BY <3>1, DecisionIsNewer
  <2>6. CASE LeadOrFollow(n, ViewOf(n, w))
    <3>1. /\ term'[n] = IF Decision(n, w).ready THEN Decision(n, w).term
                        ELSE WinnerTerm(n, w)
          /\ Decision(n, w).ready \/ StandaloneHandoff(n, w)
          /\ w \in Node
      BY <2>2, <2>6, LeadOrFollowValues
    <3>2. StandaloneHandoff(n, w) => WinnerTerm(n, w) >= term[n]
      <4>1. suspended[n].term \in Nat
        BY TermLimitAssumption DEF TypeOK, Term
      <4> QED BY <1>1, <4>1
              DEF StandaloneHandoff, WinnerTerm, WinnerAdmitted, Larger
    <3> QED BY <3>1, <3>2, DecisionIsNewer
  <2> QED BY <2>1, <2>3, <2>4, <2>5, <2>6
<1> QED BY <1>2, <1>3 DEF Update

(* Only an update changes the Leader and the term of a node that stays on. *)
LEMMA OnlyUpdatesElect ==
  ASSUME TypeOK, [Next]_vars, NEW n \in Node, n \in up, n \in up'
  PROVE  Update(n) \/ (term'[n] = term[n] /\ leader'[n] = leader[n])
<1>1. ASSUME NEW m \in Node, Update(m), m # n
      PROVE  term'[n] = term[n] /\ leader'[n] = leader[n]
  BY <1>1, UpdateOutcome DEF OthersKeep, TypeOK
<1>2. ASSUME NEW m \in Node, PowerOff(m)
      PROVE  term'[n] = term[n] /\ leader'[n] = leader[n]
  BY <1>2 DEF PowerOff, TypeOK
<1>3. ASSUME NEW m \in Node,
             \/ Send(m) \/ PowerOn(m) \/ CommitRoster(m) \/ AdoptRoster(m)
             \/ ProvisionCredentials(m) \/ CommitDirectory(m)
             \/ PullDirectory(m)
      PROVE  UNCHANGED <<leader, term>>
  BY <1>3 DEF Send, PowerOn, CommitRoster, AdoptRoster,
              ProvisionCredentials, CommitDirectory, PullDirectory, Change,
              coordinator
<1>4. ASSUME NEW m \in Node, NEW k \in Node, ReceiveLate(m, k)
      PROVE  UNCHANGED <<leader, term>>
  BY <1>4 DEF ReceiveLate, coordinator
<1>5. Tick \/ Settle \/ UNCHANGED vars => UNCHANGED <<leader, term>>
  BY DEF Tick, Settle, vars, coordinator
<1> QED BY <1>1, <1>2, <1>3, <1>4, <1>5 DEF Next

(* For any site: no heartbeat, loss, delay, roster or Directory change     *)
(* makes a node's term fall while it stays powered.                        *)
THEOREM TermsNeverFall == Spec => TermsGrow
<1>1. ASSUME TypeOK, [Next]_vars
      PROVE  \A n \in up \cap up' : term[n] <= term'[n]
  <2> SUFFICES ASSUME NEW n \in up \cap up' PROVE term[n] <= term'[n]
    OBVIOUS
  <2>1. n \in Node /\ term[n] \in Nat
    <3>1. n \in Node /\ term \in [Node -> Term]
      BY <1>1 DEF TypeOK
    <3> QED BY <3>1, TermLimitAssumption DEF Term
  <2>2. term'[n] \in Nat
    <3>1. TypeOK'
      BY <1>1, NextType
    <3>2. term' \in [Node -> Term]
      BY <3>1 DEF TypeOK
    <3> QED BY <2>1, <3>2, TermLimitAssumption DEF Term
  <2>3. CASE Update(n)
    BY <1>1, <2>1, <2>2, <2>3, UpdateRaisesTerm
  <2>4. CASE term'[n] = term[n]
    BY <2>1, <2>4
  <2> QED BY <1>1, <2>1, <2>3, <2>4, OnlyUpdatesElect
<1> QED BY <1>1, TypeCorrect, PTL DEF Spec, TermsGrow

(* For any site: as one node sees them, different Leaders lead in          *)
(* different terms, the later one in the newer.                            *)
THEOREM NewLeadersNewTerms == Spec => NewLeaderNewTerm
<1> DEFINE Renewed(n) ==
      /\ LastLed(n).leader # None
      /\ leader'[n] \notin {None, LastLed(n).leader}
      /\ LastLed(n).term # TermLimit
      /\ ~HandoffPending(n)
      => term'[n] > LastLed(n).term
<1>1. ASSUME TypeOK, [Next]_vars
      PROVE  \A n \in up \cap up' : Renewed(n)
  <2> SUFFICES ASSUME NEW n \in up \cap up',
                      LastLed(n).leader # None,
                      leader'[n] \notin {None, LastLed(n).leader},
                      LastLed(n).term # TermLimit,
                      ~HandoffPending(n)
               PROVE  term'[n] > LastLed(n).term
    OBVIOUS
  <2>1. n \in Node
    BY <1>1 DEF TypeOK
  <2>2. CASE term'[n] = term[n] /\ leader'[n] = leader[n]
    BY <2>2 DEF LastLed
  <2>3. CASE Update(n)
    <3>1. PICK w \in Winners(n) : LeadOrFollow(n, ViewOf(n, w))
      <4>1. KeepProbing(n) => leader'[n] = None
        BY <1>1, <2>1, LeaderlessValues
      <4>2. Elect(n)
        BY <2>3, <4>1 DEF Update
      <4>3. \A v : LoseQuorum(n, v) \/ FindNoWinner(n, v) \/ RefuseTerm(n, v)
                     => leader'[n] = None
        BY <1>1, <2>1, LeaderlessValues
      <4> QED BY <4>2, <4>3 DEF Elect
    <3>2. ViewOf(n, w).digest.winner = w
      BY DEF ViewOf
    <3>3. /\ leader'[n] = w /\ w # None
          /\ Decision(n, w).ready \/ StandaloneHandoff(n, w)
          /\ term'[n] = IF Decision(n, w).ready THEN Decision(n, w).term
                        ELSE WinnerTerm(n, w)
      BY <1>1, <2>1, <3>1, <3>2, LeadOrFollowValues
    <3>4. Decision(n, w).ready /\ term'[n] = Decision(n, w).term
      BY <3>3 DEF StandaloneHandoff
    <3>5. w \in Node
      BY <1>1, <2>1, <3>3, WinnersAreCandidates, CandidatesAreNodes
    <3>6. /\ term[n] \in Term /\ suspended[n].term \in Term
          /\ WinnerTerm(n, w) \in Term /\ WinnerAdmitted(n, w) \in BOOLEAN
          /\ ObservedTerm(n) \in Term /\ (w = n) \in BOOLEAN
      BY <1>1, <2>1, <3>5, WinnerTermType, ObservedTermGrows DEF TypeOK
    <3>7. /\ leader[n] # None \/ suspended[n].leader # None
          /\ w # IF leader[n] # None THEN leader[n] ELSE suspended[n].leader
          /\ LastLed(n).term = IF leader[n] # None THEN term[n]
                               ELSE suspended[n].term
      BY <3>3 DEF LastLed
    <3>8. Decision(n, w).ready =>
            \/ LastLed(n).term = TermLimit
            \/ Decision(n, w).term > LastLed(n).term
      <4> HIDE DEF WinnerTerm, WinnerAdmitted, ObservedTerm, DecideRoleTerm
      <4> QED BY <3>6, <3>7, DecisionRenews DEF Decision
    <3> QED BY <3>4, <3>8
  <2> QED BY <1>1, <2>1, <2>2, <2>3, OnlyUpdatesElect
<1> HIDE DEF Renewed
<1>2. Spec => [][\A n \in up \cap up' : Renewed(n)]_vars
  BY <1>1, TypeCorrect, PTL DEF Spec
<1> QED BY <1>2 DEF Renewed, NewLeaderNewTerm

(* A node that an update makes Leader takes the term it decides itself.    *)
LEMMA SelfElection ==
  ASSUME TypeOK, NEW n \in Node, Update(n), leader'[n] = n
  PROVE  term'[n] = LocalTerm(term[n], leader[n], suspended[n].term,
                              suspended[n].leader, n, ObservedTerm(n))
<1>1. n # None
  BY SiteAssumption
<1>2. PICK w \in Winners(n) : LeadOrFollow(n, ViewOf(n, w))
  <2>1. KeepProbing(n) => leader'[n] = None
    BY LeaderlessValues
  <2>2. Elect(n)
    BY <1>1, <2>1 DEF Update
  <2>3. \A v : LoseQuorum(n, v) \/ FindNoWinner(n, v) \/ RefuseTerm(n, v)
                 => leader'[n] = None
    BY LeaderlessValues
  <2> QED BY <1>1, <2>2, <2>3 DEF Elect
<1>3. ViewOf(n, w).digest.winner = w
  BY DEF ViewOf
<1>4. /\ leader'[n] = w
      /\ term'[n] = IF Decision(n, w).ready THEN Decision(n, w).term
                    ELSE WinnerTerm(n, w)
  BY <1>2, <1>3, LeadOrFollowValues
<1>5. /\ Decision(n, n).ready
      /\ Decision(n, n).term =
           LocalTerm(term[n], leader[n], suspended[n].term,
                     suspended[n].leader, n, ObservedTerm(n))
  BY DEF Decision, DecideRoleTerm
<1> QED BY <1>4, <1>5

(* Who leads, or was suspended as Leader, has a term.                      *)
OwnTerm(n) ==
  /\ leader[n] = n => term[n] >= 1
  /\ suspended[n].leader = n => suspended[n].term >= 1

LEMMA UpdateOwnTerm ==
  ASSUME TypeOK, NEW n \in Node, Update(n), OwnTerm(n)
  PROVE  OwnTerm(n)'
<1>1. leader'[n] = n => term'[n] >= 1
  <2>1. /\ term[n] \in Term /\ suspended[n].term \in Term
        /\ ObservedTerm(n) \in Term
    BY ObservedTermGrows DEF TypeOK
  <2>2. LocalTerm(term[n], leader[n], suspended[n].term, suspended[n].leader,
                  n, ObservedTerm(n)) >= 1
    <3> HIDE DEF ObservedTerm
    <3> QED BY <2>1, TermLimitAssumption
            DEF LocalTerm, Larger, NextRoleTerm, Term
  <2> QED BY <2>2, SelfElection
<1>2. suspended'[n] \in {suspended[n], Suspend(n), NobodySuspended}
  <2>1. KeepProbing(n) => suspended'[n] = suspended[n]
    BY DEF KeepProbing
  <2>2. Elect(n) => suspended'[n] \in {Suspend(n), NobodySuspended}
    BY ConcludesValues
       DEF Elect, LoseQuorum, FindNoWinner, RefuseTerm, LeadOrFollow
  <2> QED BY <2>1, <2>2 DEF Update
<1>3. NobodySuspended.leader # n
  BY SiteAssumption DEF NobodySuspended
<1> QED BY <1>1, <1>2, <1>3 DEF OwnTerm, Suspend

LEMMA OwnTermStep ==
  ASSUME TypeOK, [Next]_vars, NEW n \in Node, OwnTerm(n)
  PROVE  OwnTerm(n)'
<1>1. CASE Update(n)
  BY <1>1, UpdateOwnTerm
<1>2. CASE UNCHANGED <<leader[n], term[n], suspended[n]>>
  BY <1>2 DEF OwnTerm
<1>3. ASSUME NEW m \in Node, Update(m), m # n
      PROVE  UNCHANGED <<leader[n], term[n], suspended[n]>>
  BY <1>3, UpdateOutcome DEF OthersKeep, TypeOK
<1>4. CASE PowerOff(n)
  <2>1. leader'[n] = None /\ suspended'[n].leader = None /\ n # None
    BY <1>4, SiteAssumption DEF PowerOff, TypeOK, NobodySuspended
  <2> QED BY <2>1 DEF OwnTerm
<1>5. ASSUME NEW m \in Node, PowerOff(m), m # n
      PROVE  UNCHANGED <<leader[n], term[n], suspended[n]>>
  BY <1>5 DEF PowerOff, TypeOK
<1>6. ASSUME NEW m \in Node,
             \/ Send(m) \/ PowerOn(m) \/ CommitRoster(m) \/ AdoptRoster(m)
             \/ ProvisionCredentials(m) \/ CommitDirectory(m)
             \/ PullDirectory(m)
      PROVE  UNCHANGED <<leader, term, suspended>>
  BY <1>6 DEF Send, PowerOn, CommitRoster, AdoptRoster,
              ProvisionCredentials, CommitDirectory, PullDirectory, Change,
              coordinator
<1>7. ASSUME NEW m \in Node, NEW k \in Node, ReceiveLate(m, k)
      PROVE  UNCHANGED <<leader, term, suspended>>
  BY <1>7 DEF ReceiveLate, coordinator
<1>8. Tick \/ Settle \/ UNCHANGED vars => UNCHANGED <<leader, term, suspended>>
  BY DEF Tick, Settle, vars, coordinator
<1> QED BY <1>1, <1>2, <1>3, <1>4, <1>5, <1>6, <1>7, <1>8 DEF Next

(* For any site: a Leader that a gap in its quorum suspended leads on with *)
(* the term it had, unless it observes a newer one.                        *)
THEOREM GapsCostNoTerm == Spec => ResumesUnopposed
<1> DEFINE Resumes(n) ==
      LeadsAgain(n) /\ ObservedTerm(n) <= LastLed(n).term
      => term'[n] = LastLed(n).term
<1> DEFINE OwnTerms == \A n \in Node : OwnTerm(n)
<1>1. Init => OwnTerms
  BY SiteAssumption DEF Init, OwnTerm, NobodySuspended
<1>2. TypeOK /\ OwnTerms /\ [Next]_vars => OwnTerms'
  BY OwnTermStep
<1>3. ASSUME TypeOK, OwnTerms, [Next]_vars
      PROVE  \A n \in Node : Resumes(n)
  <2> SUFFICES ASSUME NEW n \in Node, LeadsAgain(n),
                      ObservedTerm(n) <= LastLed(n).term
               PROVE  term'[n] = LastLed(n).term
    OBVIOUS
  <2>1. /\ n \in up /\ n \in up' /\ leader'[n] = n /\ n # None
        /\ LastLed(n).leader = n
    BY SiteAssumption DEF LeadsAgain
  <2>2. CASE term'[n] = term[n] /\ leader'[n] = leader[n]
    BY <2>1, <2>2 DEF LastLed
  <2>3. CASE Update(n)
    <3>1. term'[n] = LocalTerm(term[n], leader[n], suspended[n].term,
                               suspended[n].leader, n, ObservedTerm(n))
      BY <1>3, <2>1, <2>3, SelfElection
    <3>2. /\ term[n] \in Nat /\ suspended[n].term \in Nat
          /\ OwnTerm(n)
      BY <1>3, TermLimitAssumption DEF TypeOK, Term
    <3> HIDE DEF ObservedTerm
    <3> QED BY <2>1, <3>1, <3>2
            DEF LastLed, OwnTerm, LocalTerm, RoleIdEqual, Larger
  <2> QED BY <1>3, <2>1, <2>2, <2>3, OnlyUpdatesElect
<1> HIDE DEF Resumes, OwnTerms
<1>4. Spec => [][\A n \in Node : Resumes(n)]_vars
  BY <1>1, <1>2, <1>3, TypeCorrect, PTL DEF Spec
<1> QED BY <1>4 DEF Resumes, ResumesUnopposed
-----------------------------------------------------------------------------
(***************************************************************************)
(* A pair whose roster is fixed never has two Leaders.                     *)
(*                                                                         *)
(* Either node ranks the two by its own Directory.  It is always the turn  *)
(* of one, h: the other, p, does not lead, and as h votes for itself, or p *)
(* yields to what h reports, p cannot come to lead.  The turn passes when  *)
(* h first votes for p, to which it yields only in a tie of revisions.     *)
(* The Directories and the heartbeats under way keep evidence of the turn, *)
(* also across restarts and forks.  Only where the Directories forked so   *)
(* that each node prefers the other is there no turn: then nobody leads.   *)
(***************************************************************************)

(* What an election in view v endorses, and what a heartbeat in it says.   *)
Vote(n, w) == [roster |-> config[n], winner |-> w]

(* Version 12 alone carries a digest, and with it a Directory.             *)
Grounded(x) ==
  /\ x.digest # NoDigest => x.complete
  /\ x.complete => x.fence # NoFence

(* Two nodes share a roster that no longer changes, with all credentials   *)
(* and a Directory each, not necessarily the same.                         *)
FixedPair ==
  /\ Cardinality(Node) = 2
  /\ \A s \in Setup :
       /\ s.budget.rosters = 0
       /\ \E r \in 1..Len(Roster) :
            Roster[r] = Node /\ \A n \in Node : s.config[n] = r
       /\ \A n \in Node : /\ s.directory[n] # NoFence
                          /\ Node \ {n} \subseteq s.credentials[n]

PairConfigured ==
  /\ budget.rosters = 0
  /\ \A n \in Node : /\ config[n] # 0 /\ Roster[config[n]] = Node
                     /\ directory[n] # NoFence
                     /\ Node \ {n} \subseteq credentials[n]
  /\ \A m, n \in Node : config[m] = config[n]

(* No roster change is ever under way, and a Leader is also what its       *)
(* followers and itself endorse.                                           *)
PairEndorses ==
  /\ \A n \in Node : /\ views[n] = <<>>
                     /\ rosterSeen[n] \in {0, config[n]}
                     /\ leader[n] # None => view[n].digest = Vote(n, leader[n])
  /\ \A m, n \in Node : /\ Grounded(slots[n][m]) /\ Grounded(sent[m][n])
                        /\ slots[n][m].roster \in {0, config[n]}
                        /\ sent[m][n].generation \in {0, config[n]}

PairBase == TypeOK /\ PairConfigured /\ PairEndorses

Peers(n, m) == n \in Node /\ m \in Node /\ n # m /\ Node = {n, m}

(* Two nodes are two.                                                      *)
LEMMA PairSize ==
  ASSUME NEW n, NEW m, n # m
  PROVE  Cardinality({n, m}) = 2 /\ Cardinality({n}) = 1
<1>1. IsFiniteSet({n}) /\ Cardinality({n}) = 1
  BY FS_Singleton
<1>2. Cardinality({n} \cup {m}) = 2
  BY <1>1, FS_AddElement
<1>3. {n, m} = {n} \cup {m}
  OBVIOUS
<1> QED BY <1>1, <1>2, <1>3

(* What the roster and the credentials of a fixed pair make of each node.  *)
LEMMA PairReady ==
  ASSUME PairBase, Eligible = Node, NEW n, NEW m, Peers(n, m)
  PROVE  /\ Ready(n) /\ Complete(n) /\ LocalEligible(n) /\ MultiNode(n)
         /\ Members(n) = Node /\ Expected(n) = 2 /\ Required(n) = 2
         /\ Live(n) = {k \in {m} : slots[n][m].ttl > 0}
         /\ directory[n] # NoFence
<1>1. /\ n \in Node /\ config[n] # 0 /\ Members(n) = Node
      /\ Node \ {n} \subseteq credentials[n] /\ directory[n] # NoFence
  BY DEF PairBase, PairConfigured, Members, Peers
<1>2. Ready(n)
  BY <1>1 DEF Ready
<1>3. Complete(n) /\ LocalEligible(n)
  BY <1>1, <1>2 DEF Complete, LocalEligible
<1>4. Cardinality(Node) = 2
  BY PairSize DEF Peers
<1>5. Expected(n) = 2
  BY <1>1, <1>2, <1>4 DEF Expected
<1>6. MultiNode(n) /\ Required(n) = 2
  BY <1>2, <1>5 DEF MultiNode, Required, StrictMajority
<1>7. Live(n) = {k \in {m} : slots[n][m].ttl > 0}
  BY <1>1, <1>2 DEF Live, Peers
<1> QED BY <1>1, <1>2, <1>3, <1>5, <1>6, <1>7

(* Nothing but the peer's present view endorses a winner.                  *)
LEMMA PairNoTransition ==
  ASSUME PairBase, NEW n \in Node
  PROVE  ~BoundedTransition(n)
<1>1. /\ views[n] = <<>> /\ rosterSeen[n] \in {0, config[n]}
      /\ \A m \in Node : slots[n][m].roster \in {0, config[n]}
  BY DEF PairBase, PairEndorses
<1>2. FenceVoters(n) \ {n} \subseteq Node
  BY ReadyMembers DEF PairBase, FenceVoters
<1> QED BY <1>1, <1>2 DEF BoundedTransition, SlotRosterDiffers

(* So a node has a quorum only for what its live peer endorses as well.    *)
LEMMA PairQuorum ==
  ASSUME PairBase, Eligible = Node, NEW n, NEW m, Peers(n, m), NEW v,
         HasQuorum(n, v)
  PROVE  m \in Live(n) /\ slots[n][m].digest = v.digest
<1>1. /\ MultiNode(n) /\ Required(n) = 2
      /\ Live(n) = {k \in {m} : slots[n][m].ttl > 0}
      /\ directory[n] # NoFence
  BY PairReady
<1>2. FenceSupported(n)
  BY <1>1 DEF FenceSupported, FenceObserved, FenceOf
<1>3. Endorsements(n, v) >= 2
  BY <1>1, <1>2 DEF HasQuorum
<1>4. CASE m \in DirectEndorsers(n, v)
  BY <1>4 DEF DirectEndorsers
<1>5. CASE m \notin DirectEndorsers(n, v)
  <2>1. DirectEndorsers(n, v) = {}
    BY <1>1, <1>5 DEF DirectEndorsers
  <2>2. DirectEndorsements(n, v) = 1
    BY <2>1, FS_EmptySet DEF DirectEndorsements
  <2>3. TransitionalEndorsements(n, v) = 0
    BY PairNoTransition DEF TransitionalEndorsements, Peers
  <2>4. Endorsements(n, v) = 1
    <3> HIDE DEF TransitionalEndorsements, DirectEndorsements
    <3> QED BY <1>1, <2>2, <2>3
            DEF Endorsements, PreserveIncumbentEndorsements
  <2> QED BY <1>3, <2>4
<1> QED BY <1>4, <1>5

(* A live peer with complete credentials is a candidate beside the node    *)
(* itself, whatever their Directories; without one, nobody else is.        *)
LEMMA PairCandidates ==
  ASSUME PairBase, Eligible = Node, NEW n, NEW m, Peers(n, m)
  PROVE  IF m \in Live(n) /\ slots[n][m].complete
         THEN /\ Candidates(n) = {n, m}
              /\ FenceQuorum(n) =>
                   \A k \in {n, m} : FenceSupport(n, FenceOf(n, k)) >= 2
         ELSE Candidates(n) \subseteq {n}
<1>1. /\ Complete(n) /\ LocalEligible(n) /\ MultiNode(n) /\ Required(n) = 2
      /\ Live(n) = {k \in {m} : slots[n][m].ttl > 0}
      /\ n # m /\ m \in Node /\ n \in Node
      /\ directory[n] # NoFence
  BY PairReady DEF Peers
<1>2. CASE m \in Live(n) /\ slots[n][m].complete
  <2>1. FenceVoters(n) = {n, m} /\ EligibleLive(n) = {m}
    BY <1>1, <1>2 DEF FenceVoters, EligibleLive
  <2>2. FenceOf(n, n) # NoFence /\ FenceOf(n, m) # NoFence
    BY <1>1, <1>2 DEF FenceOf, PairBase, PairEndorses, Grounded
  <2>3. Cardinality({n, m}) = 2
    BY <1>1, PairSize
  <2>4. FenceObservers(n) = 2
    <3>1. {k \in FenceVoters(n) : FenceOf(n, k) # NoFence} = {n, m}
      BY <2>1, <2>2
    <3> QED BY <2>3, <3>1 DEF FenceObservers
  <2>5. FenceQuorum(n) => FenceOf(n, n) = FenceOf(n, m)
    <3> SUFFICES ASSUME NEW k \in {n, m}, FenceOf(n, n) # FenceOf(n, m)
                 PROVE  ~(FenceSupport(n, FenceOf(n, k)) >= 2)
      BY <1>1, <2>1 DEF FenceQuorum
    <3>1. {j \in FenceVoters(n) : FenceOf(n, j) = FenceOf(n, k)} = {k}
      BY <2>1
    <3>2. Cardinality({k}) = 1
      BY FS_Singleton
    <3> QED BY <2>2, <3>1, <3>2 DEF FenceSupport
  <2>6. FenceOf(n, n) = FenceOf(n, m) =>
          \A k \in {n, m} : FenceSupport(n, FenceOf(n, k)) >= 2
    <3> SUFFICES ASSUME FenceOf(n, n) = FenceOf(n, m), NEW k \in {n, m}
                 PROVE  FenceSupport(n, FenceOf(n, k)) >= 2
      OBVIOUS
    <3>1. {j \in FenceVoters(n) : FenceOf(n, j) = FenceOf(n, k)} = {n, m}
      BY <2>1
    <3> QED BY <2>2, <2>3, <3>1 DEF FenceSupport
  <2>7. \A k \in {n, m} : DirectoryCandidateAllowed(n, k)
    BY <1>1, <2>4, <2>5, <2>6 DEF DirectoryCandidateAllowed
  <2>8. Candidates(n) = {n, m}
    BY <1>1, <2>1, <2>7 DEF Candidates
  <2> QED BY <1>2, <2>5, <2>6, <2>8
<1>3. CASE ~(m \in Live(n) /\ slots[n][m].complete)
  <2>1. EligibleLive(n) = {}
    BY <1>1, <1>3 DEF EligibleLive
  <2> QED BY <1>3, <2>1 DEF Candidates
<1> QED BY <1>2, <1>3

(* The winner: the Leader while its lease runs, else the preferred node.   *)
LEMMA PairWinners ==
  ASSUME PairBase, Eligible = Node, NEW n, NEW m, Peers(n, m),
         NEW w \in Winners(n)
  PROVE  IF m \in Live(n) /\ slots[n][m].complete
         THEN \/ w = leader[n] /\ w \in {n, m}
              \/ w = n /\ Preferred(n, n, m)
              \/ w = m /\ Preferred(n, m, n)
         ELSE w \in {n, None}
<1>1. Required(n) = 2 /\ Live(n) \subseteq {m} /\ Complete(n) /\ n # m
  BY PairReady DEF Peers
<1>2. Endorsed(n) = {}
  <2> SUFFICES ASSUME NEW c
               PROVE  ~(Cardinality({k \in FenceVoters(n) \ {n} :
                          slots[n][k].digest =
                            [roster |-> config[n], winner |-> c]}) >= 2)
    BY <1>1 DEF Endorsed
  <2> DEFINE S == {k \in FenceVoters(n) \ {n} :
                     slots[n][k].digest = [roster |-> config[n], winner |-> c]}
  <2>1. S = {} \/ S = {m}
    BY <1>1 DEF FenceVoters
  <2>2. Cardinality(S) \in {0, 1}
    <3> HIDE DEF S
    <3> QED BY <2>1, FS_EmptySet, FS_Singleton
  <2> QED BY <2>2
<1>3. CASE m \in Live(n) /\ slots[n][m].complete
  <2>1. Candidates(n) = {n, m}
    BY <1>3, PairCandidates
  <2>2. CASE Incumbent(n)
    BY <1>3, <2>1, <2>2 DEF Winners, Incumbent
  <2>3. CASE ~Incumbent(n)
    <3>1. w \in {a \in {n, m} : \A b \in {n, m} \ {a} : Preferred(n, a, b)}
      <4>1. {n, m} # {}
        OBVIOUS
      <4> QED BY <1>2, <2>1, <2>3, <4>1 DEF Winners
    <3> QED BY <1>1, <1>3, <3>1
  <2> QED BY <2>2, <2>3
<1>4. CASE ~(m \in Live(n) /\ slots[n][m].complete)
  <2>1. Candidates(n) \subseteq {n}
    BY <1>4, PairCandidates
  <2> QED BY <1>4, <2>1, WinnersAreCandidates DEF PairBase, Peers
<1> QED BY <1>3, <1>4

(* What a coordination step of n concludes about its only peer.            *)
Concluded(n, m, w) ==
  /\ slots[n][m].complete
  /\ view'[n].digest = Vote(n, w)
  /\ leader'[n] \in {None, w}
  /\ leader'[n] = w => slots[n][m].digest = Vote(n, w)
  /\ \/ w = leader[n]
     \/ w = n /\ Preferred(n, n, m)
     \/ w = m /\ Preferred(n, m, n)

(* It endorses its peer only on evidence, and leads or follows only what   *)
(* that evidence endorses too.                                             *)
LEMMA PairUpdate ==
  ASSUME PairBase, Eligible = Node, NEW n, NEW m, Peers(n, m), Update(n)
  PROVE  /\ \/ leader'[n] = None /\ view'[n].digest # Vote(n, m)
            \/ \E w \in {n, m} : Concluded(n, m, w)
         /\ views'[n] = <<>>
<1>0. /\ TypeOK /\ n \in Node /\ m \in Node /\ n # m
      /\ None \notin Node /\ config[n] # 0 /\ Ready(n)
      /\ views[n] = <<>>
  BY PairReady, SiteAssumption
     DEF PairBase, Peers, PairConfigured, PairEndorses
<1>1. CASE KeepProbing(n)
  <2>1. leader'[n] = None
    BY <1>0, <1>1, LeaderlessValues
  <2>2. view'[n] = ProbeView(n) /\ views' = views
    BY <1>0, <1>1 DEF KeepProbing, TypeOK
  <2> QED BY <1>0, <2>1, <2>2 DEF ProbeView, Vote
<1>2. CASE Elect(n)
  <2>1. PICK w \in Winners(n) :
          \/ LoseQuorum(n, ViewOf(n, w)) \/ FindNoWinner(n, ViewOf(n, w))
          \/ RefuseTerm(n, ViewOf(n, w)) \/ LeadOrFollow(n, ViewOf(n, w))
    BY <1>2 DEF Elect
  <2>2. ViewOf(n, w).digest = Vote(n, w) /\ Vote(n, w).winner = w
    BY <1>0 DEF ViewOf, Vote
  <2>3. view'[n] = ViewOf(n, w) /\ views'[n] = ViewsAfter(n, ViewOf(n, w))
    BY <1>0, <2>1, ConcludesValues
       DEF LoseQuorum, FindNoWinner, RefuseTerm, LeadOrFollow
  <2>4. views'[n] = <<>>
    BY <1>0, <2>3, PairNoTransition DEF ViewsAfter, EarlierViews
  <2>5. /\ leader'[n] \in {None, w}
        /\ leader'[n] # None => HasQuorum(n, ViewOf(n, w))
    <3>1. CASE LeadOrFollow(n, ViewOf(n, w))
      BY <1>0, <2>2, <3>1, LeadOrFollowValues DEF LeadOrFollow
    <3>2. CASE ~LeadOrFollow(n, ViewOf(n, w))
      BY <1>0, <2>1, <3>2, LeaderlessValues
    <3> QED BY <3>1, <3>2
  <2>6. leader'[n] # None =>
          m \in Live(n) /\ slots[n][m].digest = Vote(n, w)
    BY <2>2, <2>5, PairQuorum
  <2>7. leader'[n] # None => slots[n][m].complete
    <3>1. Grounded(slots[n][m])
      BY <1>0 DEF PairBase, PairEndorses
    <3> QED BY <1>0, <2>6, <3>1 DEF Grounded, NoDigest, Vote
  <2>8. CASE m \in Live(n) /\ slots[n][m].complete
    <3>1. w \in {n, m} /\ w # None
      BY <1>0, <2>8, PairWinners
    <3>2. Concluded(n, m, w)
      BY <2>2, <2>3, <2>5, <2>6, <2>8, <3>1, PairWinners DEF Concluded
    <3> QED BY <2>4, <3>1, <3>2
  <2>9. CASE ~(m \in Live(n) /\ slots[n][m].complete)
    <3>1. leader'[n] = None
      BY <2>6, <2>7, <2>9
    <3>2. w # m
      BY <1>0, <2>9, PairWinners
    <3> QED BY <2>2, <2>3, <2>4, <3>1, <3>2 DEF Vote
  <2> QED BY <2>8, <2>9
<1> QED BY <1>1, <1>2 DEF Update

(* A heartbeat says no more than its sender's view and Directory.          *)
LEMMA PairHeartbeat ==
  ASSUME PairBase, Eligible = Node, NEW n, NEW m, Peers(n, m)
  PROVE  LET h == Heartbeat(n, m)
         IN  /\ Grounded(h) /\ h.generation = config[n]
             /\ \/ h.digest = NoDigest /\ h.fence = NoFence
                \/ h.digest = view[n].digest /\ h.fence = directory[n]
<1>1. Complete(n) /\ directory[n] # NoFence
  BY PairReady
<1>2. CASE Wire(n, m) = 12
  BY <1>1, <1>2 DEF Heartbeat, NoHeartbeat, Grounded
<1>3. CASE Wire(n, m) # 12
  BY <1>3 DEF Heartbeat, NoHeartbeat, Grounded
<1> QED BY <1>2, <1>3

(* Of a slot, what a heartbeat leaves in it that says something.           *)
Tells(slot, x, old) ==
  \/ slot = old
  \/ /\ slot.digest = x.digest /\ slot.complete = x.complete
     /\ slot.fence = IF x.fence = NoFence THEN old.fence ELSE x.fence
     /\ slot.roster \in {0, x.generation}

(* A slot tells of the heartbeat it was filled from, if anything.          *)
LEMMA SlotTells ==
  ASSUME NEW m, NEW n, NEW message
  PROVE  Tells(SlotAfter(m, n, message), message, slots[n][m])
BY DEF SlotAfter, Tells, RosterOf

(* What a cycle of n changes.                                              *)
LEMMA PairSends ==
  ASSUME TypeOK, NEW n \in Node, Send(n)
  PROVE  /\ \A k \in Node : \A j \in Node :
              /\ j # n => slots'[k][j] = slots[k][j] /\ sent'[j] = sent[j]
              /\ Tells(slots'[k][n], Heartbeat(n, k), slots[k][n])
              /\ sent'[n][k] \in {NoHeartbeat, Heartbeat(n, k)}
         /\ UNCHANGED <<environment, coordinator, up, calm, budget>>
<1>1. PICK now, late : Delivered(n, now, late)
  BY SendDelivers
<1>2. ASSUME NEW k \in Node
      PROVE  /\ \A j \in Node : j # n => slots'[k][j] = slots[k][j]
             /\ Tells(slots'[k][n], Heartbeat(n, k), slots[k][n])
  <2>1. slots'[k] = IF k \in now
                    THEN [slots[k] EXCEPT ![n] = SlotAfter(n, k, Heartbeat(n, k))]
                    ELSE slots[k]
    BY <1>1 DEF Delivered
  <2>2. slots[k] \in [Node -> Slot]
    BY DEF TypeOK
  <2>3. Tells(slots[k][n], Heartbeat(n, k), slots[k][n])
    BY DEF Tells
  <2> QED BY <2>1, <2>2, <2>3, SlotTells
<1>3. /\ \A j \in Node : j # n => sent'[j] = sent[j]
      /\ \A k \in Node : sent'[n][k] \in {NoHeartbeat, Heartbeat(n, k)}
  BY <1>1 DEF Delivered, TypeOK
<1> QED BY <1>2, <1>3 DEF Send

(* What the arrival of a delayed heartbeat changes.                        *)
LEMMA PairReceives ==
  ASSUME TypeOK, NEW m \in Node, NEW n \in Node, ReceiveLate(m, n)
  PROVE  /\ Tells(slots'[n][m], sent[m][n], slots[n][m])
         /\ \A k, j \in Node : <<k, j>> # <<n, m>> => slots'[k][j] = slots[k][j]
         /\ sent'[m][n] = NoHeartbeat
         /\ \A k, j \in Node : <<k, j>> # <<m, n>> => sent'[k][j] = sent[k][j]
         /\ UNCHANGED <<environment, coordinator, up, calm, budget>>
<1>1. slots'[n][m] = SlotAfter(m, n, sent[m][n])
  BY DEF ReceiveLate, TypeOK
<1>2. Tells(slots'[n][m], sent[m][n], slots[n][m])
  BY <1>1, SlotTells
<1>3. \A k, j \in Node : <<k, j>> # <<n, m>> => slots'[k][j] = slots[k][j]
  BY DEF ReceiveLate, TypeOK
<1>4. /\ sent'[m][n] = NoHeartbeat
      /\ \A k, j \in Node : <<k, j>> # <<m, n>> => sent'[k][j] = sent[k][j]
  BY DEF ReceiveLate, TypeOK
<1> QED BY <1>2, <1>3, <1>4 DEF ReceiveLate

(* The roster of a fixed pair stays, and so do its credentials; a          *)
(* Directory is only replaced by another.                                  *)
LEMMA PairConfiguredStep ==
  ASSUME TypeOK, PairConfigured, [Next]_vars
  PROVE  PairConfigured' /\ config' = config
<1>0. TypeOK /\ PairConfigured
  OBVIOUS
<1>1. ASSUME NEW n \in Node,
             Update(n) \/ Send(n) \/ PowerOn(n)
      PROVE  UNCHANGED <<environment, budget>>
  BY <1>1 DEF Update, UpdateFrame, Send, PowerOn
<1>2. ASSUME NEW m \in Node, NEW n \in Node, ReceiveLate(m, n)
      PROVE  UNCHANGED <<environment, budget>>
  BY <1>2 DEF ReceiveLate
<1>3. Tick \/ Settle \/ UNCHANGED vars => UNCHANGED <<environment, budget>>
  BY DEF Tick, Settle, vars
<1>4. CASE UNCHANGED <<environment, budget>>
  BY <1>0, <1>4 DEF PairConfigured, environment
<1>5. ASSUME NEW n \in Node, PowerOff(n)
      PROVE  PairConfigured' /\ config' = config
  <2>1. budget'.rosters = 0
    BY <1>0, <1>5 DEF PowerOff, PairConfigured, TypeOK, Budget
  <2> QED BY <1>0, <1>5, <2>1 DEF PowerOff, PairConfigured, environment
<1>6. ASSUME NEW n \in Node, CommitRoster(n)
      PROVE  FALSE
  BY <1>0, <1>6 DEF CommitRoster, Change, PairConfigured
<1>7. ASSUME NEW n \in Node, AdoptRoster(n)
      PROVE  FALSE
  BY <1>0, <1>7, SiteAssumption
     DEF AdoptRoster, PairConfigured, TypeOK, AnyRoster
<1>8. ASSUME NEW n \in Node, ProvisionCredentials(n)
      PROVE  PairConfigured' /\ config' = config
  BY <1>0, <1>8 DEF ProvisionCredentials, PairConfigured, TypeOK
<1>9. ASSUME NEW n \in Node, CommitDirectory(n)
      PROVE  PairConfigured' /\ config' = config
  <2>1. PICK f \in Fence : directory' = [directory EXCEPT ![n] = f]
    BY <1>9 DEF CommitDirectory
  <2>2. f # NoFence
    BY SiteAssumption DEF NoFence
  <2>3. \A k \in Node : directory'[k] # NoFence
    BY <1>0, <2>1, <2>2 DEF PairConfigured, TypeOK
  <2>4. budget'.rosters = 0
    BY <1>0, <1>9 DEF CommitDirectory, Change, PairConfigured, TypeOK, Budget
  <2> QED BY <1>0, <1>9, <2>3, <2>4 DEF CommitDirectory, PairConfigured
<1>10. ASSUME NEW n \in Node, PullDirectory(n)
       PROVE  PairConfigured' /\ config' = config
  <2>1. PICK d : d # NoFence /\ directory' = [directory EXCEPT ![n] = d]
    BY <1>10 DEF PullDirectory
  <2>2. \A k \in Node : directory'[k] # NoFence
    BY <1>0, <2>1 DEF PairConfigured, TypeOK
  <2> QED BY <1>0, <1>10, <2>2 DEF PullDirectory, PairConfigured
<1>11. UNCHANGED <<environment, budget>> => config' = config
  BY DEF environment
<1> QED BY <1>1, <1>2, <1>3, <1>4, <1>5, <1>6, <1>7, <1>8, <1>9, <1>10, <1>11
        DEF Next

(* Whatever reaches a slot of a fixed pair is grounded.                    *)
LEMMA GroundedTells ==
  ASSUME NEW slot, NEW x, NEW old, Tells(slot, x, old),
         Grounded(x), Grounded(old)
  PROVE  Grounded(slot)
BY DEF Tells, Grounded

(* Coordinators of a fixed pair never see a roster change, and what they   *)
(* endorse is grounded.                                                    *)
LEMMA PairEndorsesStep ==
  ASSUME PairBase, Eligible = Node, NEW a, NEW b, Peers(a, b), [Next]_vars
  PROVE  PairEndorses'
<1>0. /\ TypeOK /\ PairEndorses /\ Node = {a, b}
      /\ \A n \in Node : \E m \in Node : Peers(n, m)
      /\ \A m, n \in Node : config[m] = config[n]
  BY DEF PairBase, PairConfigured, Peers
<1>1. config' = config
  BY PairConfiguredStep DEF PairBase
<1> DEFINE Coordinates(n) == /\ views[n] = <<>>
                             /\ rosterSeen[n] \in {0, config[n]}
                             /\ leader[n] # None =>
                                  view[n].digest = Vote(n, leader[n])
           Known(m, n) == /\ Grounded(slots[n][m])
                          /\ slots[n][m].roster \in {0, config[n]}
           Coming(m, n) == /\ Grounded(sent[m][n])
                           /\ sent[m][n].generation \in {0, config[n]}
<1>2. /\ \A n \in Node : Coordinates(n)
      /\ \A m, n \in Node : Known(m, n) /\ Coming(m, n)
  BY <1>0 DEF PairEndorses
<1>3. SUFFICES /\ \A n \in Node : Coordinates(n)'
               /\ \A m, n \in Node : Known(m, n)' /\ Coming(m, n)'
  BY DEF PairEndorses
<1>4. Grounded(Vacant) /\ Vacant.roster = 0
      /\ Grounded(NoHeartbeat) /\ NoHeartbeat.generation = 0
  BY DEF Vacant, NoHeartbeat, Grounded
<1>5. ASSUME NEW n \in Node, Update(n)
      PROVE  /\ \A k \in Node : Coordinates(k)'
             /\ \A m, k \in Node : Known(m, k)' /\ Coming(m, k)'
  <2>1. PICK m \in Node : Peers(n, m)
    BY <1>0
  <2>2. /\ \/ leader'[n] = None
           \/ \E w \in {n, m} : Concluded(n, m, w)
        /\ views'[n] = <<>>
    BY <1>5, <2>1, PairUpdate
  <2>3. leader'[n] # None => view'[n].digest = Vote(n, leader'[n])
    BY <2>2 DEF Concluded
  <2>4. /\ rosterSeen'[n] \in {0, config[n]} /\ sent' = sent
        /\ \A k \in Node : k # n =>
             slots'[k] = slots[k] /\ rosterSeen'[k] = rosterSeen[k]
        /\ \A k \in Node : slots'[n][k] \in {slots[n][k], Vacant}
    BY <1>0, <1>5 DEF Update, UpdateFrame, TypeOK, transport
  <2>5. \A k \in Node : k # n =>
          leader'[k] = leader[k] /\ views'[k] = views[k] /\ view'[k] = view[k]
    BY <1>0, <1>5, UpdateOutcome DEF OthersKeep, TypeOK
  <2>6. \A k \in Node : Coordinates(k)'
    BY <1>1, <1>2, <2>2, <2>3, <2>4, <2>5 DEF Vote
  <2>7. \A k, j \in Node : Known(j, k)'
    BY <1>1, <1>2, <1>4, <2>4
  <2> QED BY <1>1, <1>2, <2>4, <2>6, <2>7
<1>6. ASSUME NEW n \in Node, Send(n)
      PROVE  /\ \A k \in Node : Coordinates(k)'
             /\ \A m, k \in Node : Known(m, k)' /\ Coming(m, k)'
  <2>1. \A k \in Node : \A j \in Node :
          /\ j # n => slots'[k][j] = slots[k][j] /\ sent'[j] = sent[j]
          /\ Tells(slots'[k][n], Heartbeat(n, k), slots[k][n])
          /\ sent'[n][k] \in {NoHeartbeat, Heartbeat(n, k)}
    BY <1>0, <1>6, PairSends
  <2>2. UNCHANGED coordinator
    BY <1>0, <1>6, PairSends
  <2>3. \A k \in Node : Grounded(Heartbeat(n, k)) /\
                        Heartbeat(n, k).generation = config[n]
    <3> SUFFICES ASSUME NEW k \in Node
                 PROVE  Grounded(Heartbeat(n, k)) /\
                        Heartbeat(n, k).generation = config[n]
      OBVIOUS
    <3>1. Complete(n) /\ directory[n] # NoFence
      BY <1>0, PairReady
    <3> QED BY <3>1 DEF Heartbeat, NoHeartbeat, Grounded, Wire
  <2>4. \A k, j \in Node : Known(j, k)'
    <3> SUFFICES ASSUME NEW k \in Node, NEW j \in Node PROVE Known(j, k)'
      OBVIOUS
    <3>1. CASE j # n
      BY <1>1, <1>2, <2>1, <3>1
    <3>2. CASE j = n
      <4>1. Grounded(slots'[k][n])
        BY <1>2, <2>1, <2>3, GroundedTells
      <4>2. slots'[k][n].roster \in {0, config[k]}
        BY <1>0, <1>2, <2>1, <2>3 DEF Tells
      <4> QED BY <1>1, <3>2, <4>1, <4>2
    <3> QED BY <3>1, <3>2
  <2>5. \A k, j \in Node : Coming(j, k)'
    <3> SUFFICES ASSUME NEW k \in Node, NEW j \in Node PROVE Coming(j, k)'
      OBVIOUS
    <3>1. CASE j # n
      BY <1>1, <1>2, <2>1, <3>1
    <3>2. CASE j = n
      BY <1>0, <1>1, <1>4, <2>1, <2>3, <3>2
    <3> QED BY <3>1, <3>2
  <2> QED BY <1>1, <1>2, <2>2, <2>4, <2>5 DEF coordinator, Vote
<1>7. ASSUME NEW m \in Node, NEW n \in Node, ReceiveLate(m, n)
      PROVE  /\ \A k \in Node : Coordinates(k)'
             /\ \A j, k \in Node : Known(j, k)' /\ Coming(j, k)'
  <2>1. /\ Tells(slots'[n][m], sent[m][n], slots[n][m])
        /\ \A k, j \in Node : <<k, j>> # <<n, m>> => slots'[k][j] = slots[k][j]
        /\ sent'[m][n] = NoHeartbeat
        /\ \A k, j \in Node : <<k, j>> # <<m, n>> => sent'[k][j] = sent[k][j]
        /\ UNCHANGED coordinator
    BY <1>0, <1>7, PairReceives
  <2>2. Known(m, n)'
    <3>1. Grounded(slots'[n][m])
      BY <1>2, <2>1, GroundedTells
    <3> QED BY <1>1, <1>2, <2>1, <3>1 DEF Tells
  <2>3. \A j, k \in Node : <<k, j>> # <<n, m>> => Known(j, k)'
    BY <1>1, <1>2, <2>1
  <2>4. \A j, k \in Node : Coming(j, k)'
    BY <1>1, <1>2, <1>4, <2>1
  <2> QED BY <1>1, <1>2, <2>1, <2>2, <2>3, <2>4 DEF coordinator, Vote
<1>8. ASSUME NEW n \in Node, PowerOff(n)
      PROVE  /\ \A k \in Node : Coordinates(k)'
             /\ \A m, k \in Node : Known(m, k)' /\ Coming(m, k)'
  <2>1. /\ leader'[n] = None /\ views'[n] = <<>> /\ rosterSeen'[n] = 0
        /\ \A k \in Node : k # n =>
             /\ leader'[k] = leader[k] /\ views'[k] = views[k]
             /\ rosterSeen'[k] = rosterSeen[k] /\ view'[k] = view[k]
        /\ \A k, m \in Node : slots'[k][m] \in {slots[k][m], Vacant}
        /\ \A k, m \in Node : sent'[m][k] \in {sent[m][k], NoHeartbeat}
    BY <1>0, <1>8 DEF PowerOff, TypeOK
  <2>2. \A k \in Node : Coordinates(k)'
    BY <1>1, <1>2, <2>1 DEF Vote
  <2>3. \A k, m \in Node : Known(m, k)' /\ Coming(m, k)'
    BY <1>1, <1>2, <1>4, <2>1
  <2> QED BY <2>2, <2>3
<1>9. CASE Tick
  <2>1. /\ UNCHANGED <<leader, views, rosterSeen, view, sent>>
        /\ \A k, m \in Node : slots'[k][m] = [slots[k][m] EXCEPT
                                                !.ttl = Less(slots[k][m].ttl)]
    BY <1>9 DEF Tick
  <2>2. \A k, m \in Node :
          /\ slots'[k][m].digest = slots[k][m].digest
          /\ slots'[k][m].fence = slots[k][m].fence
          /\ slots'[k][m].complete = slots[k][m].complete
          /\ slots'[k][m].roster = slots[k][m].roster
    BY <1>0, <2>1 DEF TypeOK, Slot
  <2> QED BY <1>1, <1>2, <2>1, <2>2 DEF Vote, Grounded
<1>10. CASE UNCHANGED <<coordinator, slots, sent>>
  BY <1>1, <1>2, <1>10 DEF coordinator, Vote
<1>11. ASSUME NEW n \in Node,
              \/ PowerOn(n) \/ CommitRoster(n) \/ AdoptRoster(n)
              \/ ProvisionCredentials(n) \/ CommitDirectory(n)
              \/ PullDirectory(n)
       PROVE  UNCHANGED <<coordinator, slots, sent>>
  BY <1>11 DEF PowerOn, CommitRoster, AdoptRoster, ProvisionCredentials,
               CommitDirectory, PullDirectory, Change, transport
<1>12. Settle \/ UNCHANGED vars => UNCHANGED <<coordinator, slots, sent>>
  BY DEF Settle, vars, transport
<1> HIDE DEF Coordinates, Known, Coming
<1> QED BY <1>5, <1>6, <1>7, <1>8, <1>9, <1>10, <1>11, <1>12 DEF Next

(* The base invariant of a fixed pair.                                     *)
LEMMA PairBaseStep ==
  ASSUME PairBase, Eligible = Node, NEW a, NEW b, Peers(a, b), [Next]_vars
  PROVE  PairBase' /\ config' = config
BY NextType, PairConfiguredStep, PairEndorsesStep DEF PairBase

(* And at the start.                                                       *)
LEMMA PairBaseInit ==
  ASSUME FixedPair, Init
  PROVE  PairBase
<1>1. PICK s \in Setup :
        /\ config = s.config /\ directory = s.directory
        /\ credentials = s.credentials /\ budget = s.budget
  BY DEF Init
<1>2. PICK r \in 1..Len(Roster) :
        Roster[r] = Node /\ \A n \in Node : s.config[n] = r
  BY DEF FixedPair
<1>3. PairConfigured
  BY <1>1, <1>2 DEF FixedPair, PairConfigured
<1>4. PairEndorses
  BY DEF Init, PairEndorses, Grounded, Vacant, NoHeartbeat
<1> QED BY <1>3, <1>4, InitType DEF PairBase

Newest(n) == directory[n].revision

(* At one Directory revision, n prefers a to b. *)
Favours(n, a, b) ==
  \/ Penalty(n, a) < Penalty(n, b)
  \/ Penalty(n, a) = Penalty(n, b) /\ a < b

(* n prefers m, by the Directory revision it has of m, to itself. *)
Yields(n, m, revision) ==
  revision > Newest(n) \/ (revision = Newest(n) /\ Favours(n, m, n))

(* What n knows of the votes of m, what is on its way to n, and how m      *)
(* votes now.                                                              *)
SlotVotes(n, m, w) == slots[n][m].digest = Vote(n, w)
SentVotes(m, n, w) == sent[m][n].digest = Vote(m, w)
Votes(m, w) == view[m].digest = Vote(m, w)

SlotFence(n, m) == slots[n][m].fence.revision
SentFence(m, n) == sent[m][n].fence.revision

(* Reports of a Directory arrive in the order of its revisions. *)
InOrder(m, n) ==
  /\ SlotFence(n, m) <= Newest(m)
  /\ SentFence(m, n) <= Newest(m)
  /\ sent[m][n].fence # NoFence => SlotFence(n, m) <= SentFence(m, n)

(* Once x votes for itself where y yields to it, x does not vote for y.    *)
StandsFast(x, y) ==
  /\ SlotVotes(y, x, x) /\ Yields(y, x, SlotFence(y, x)) =>
       ~SentVotes(x, y, y) /\ ~Votes(x, y)
  /\ SentVotes(x, y, x) /\ Yields(y, x, SentFence(x, y)) => ~Votes(x, y)

(* With Directories of one revision each of the two prefers the other.     *)
Deferring(x, y) ==
  Newest(x) = Newest(y) /\ Favours(x, y, x) /\ Favours(y, x, y)

(* It is the turn of h: p does not lead, its Directory is no newer, and    *)
(* every vote of h for p that is left lets p yield to h instead.           *)
Turn(h, p) ==
  /\ leader[p] # p /\ Newest(p) <= Newest(h)
  /\ SlotVotes(p, h, p) => Yields(p, h, SlotFence(p, h))
  /\ SentVotes(h, p, p) => Yields(p, h, SentFence(h, p))
  /\ Votes(h, p) => Yields(p, h, Newest(h))
  /\ leader[p] = h => ~SlotVotes(p, h, p) /\ ~SentVotes(h, p, p) /\ ~Votes(h, p)

Ordered(x, y) ==
  /\ InOrder(x, y) /\ InOrder(y, x)
  /\ StandsFast(x, y) /\ StandsFast(y, x)
  /\ ~Deferring(x, y)

Turns(h, p) == Ordered(h, p) /\ Turn(h, p)

(* h passes its turn on: it votes for p, to which it yields. *)
Passes(h, p) ==
  Update(h) /\ Concluded(h, p, p) /\ Yields(h, p, SlotFence(h, p))

(* Every revision is a number.                                             *)
LEMMA Revisions ==
  ASSUME TypeOK, NEW m \in Node, NEW n \in Node
  PROVE  /\ Newest(n) \in Nat /\ SlotFence(n, m) \in Nat
         /\ SentFence(m, n) \in Nat /\ NoFence.revision = 0
<1>1. directory[n] \in AnyFence
  BY DEF TypeOK
<1>2. slots[n][m].fence \in AnyFence
  BY DEF TypeOK, Slot
<1>3. sent[m][n].fence \in AnyFence
  BY DEF TypeOK, Message
<1>4. \A f \in AnyFence : f.revision \in Nat
  BY SiteAssumption DEF AnyFence, NoFence
<1> QED BY <1>1, <1>2, <1>3, <1>4
        DEF Newest, SlotFence, SentFence, NoFence

(* Penalties are numbers, read from the evaluating node's Directory.       *)
LEMMA Penalties ==
  ASSUME NEW n, NEW m
  PROVE  /\ Penalty(n, m) \in Nat
         /\ directory'[n] = directory[n] => Penalty(n, m)' = Penalty(n, m)
BY DEF Penalty

(* A node favours one of two.                                              *)
LEMMA FavoursOne ==
  ASSUME NEW n, NEW x, NEW y, Peers(x, y)
  PROVE  /\ Favours(n, x, y) <=> ~Favours(n, y, x)
         /\ directory'[n] = directory[n] =>
              (Favours(n, x, y)' <=> Favours(n, x, y))
<1>1. x \in Nat /\ y \in Nat /\ x # y
  BY SiteAssumption DEF Peers
<1>2. /\ Penalty(n, x) \in Nat /\ Penalty(n, y) \in Nat
      /\ directory'[n] = directory[n] =>
           Penalty(n, x)' = Penalty(n, x) /\ Penalty(n, y)' = Penalty(n, y)
  BY Penalties
<1> QED BY <1>1, <1>2 DEF Favours

(* Which of the two a node prefers shows in the revision it yields to.     *)
LEMMA Preference ==
  ASSUME TypeOK, NEW n, NEW m, Peers(n, m)
  PROVE  /\ Preferred(n, m, n) <=> Yields(n, m, SlotFence(n, m))
         /\ Preferred(n, n, m) <=> ~Yields(n, m, SlotFence(n, m))
<1>1. n \in Nat /\ m \in Nat /\ n # m /\ n \in Node /\ m \in Node
  BY SiteAssumption DEF Peers
<1>2. /\ Newest(n) \in Nat /\ SlotFence(n, m) \in Nat
      /\ Penalty(n, n) \in Nat /\ Penalty(n, m) \in Nat
  BY <1>1, Revisions, Penalties
<1>3. FenceOf(n, n).revision = Newest(n) /\ FenceOf(n, m).revision = SlotFence(n, m)
  BY <1>1 DEF FenceOf, Newest, SlotFence
<1> QED BY <1>1, <1>2, <1>3 DEF Preferred, Yields, Favours

(* To a Directory that is not newer a node yields only in a tie.           *)
LEMMA YieldsInTie ==
  ASSUME TypeOK, NEW n, NEW m, Peers(n, m), NEW revision \in Nat,
         Yields(n, m, revision), revision <= Newest(m)
  PROVE  /\ Newest(n) <= Newest(m)
         /\ Newest(m) <= Newest(n) =>
              Newest(n) = Newest(m) /\ revision = Newest(m) /\ Favours(n, m, n)
<1>1. Newest(n) \in Nat /\ Newest(m) \in Nat
  BY Revisions DEF Peers
<1> QED BY <1>1 DEF Yields

(* What a coordination step of n leaves of the evidence.                   *)
LEMMA UpdateEvidence ==
  ASSUME TypeOK, NEW n, NEW m, Peers(n, m), Update(n)
  PROVE  /\ UNCHANGED <<config, directory, sent>>
         /\ leader'[m] = leader[m] /\ view'[m] = view[m]
         /\ slots'[m] = slots[m] /\ slots'[n][m] \in {slots[n][m], Vacant}
<1>1. n \in Node /\ m \in Node /\ m # n
  BY DEF Peers
<1>2. leader'[m] = leader[m] /\ view'[m] = view[m]
  BY <1>1, UpdateOutcome DEF OthersKeep, TypeOK
<1> QED BY <1>1, <1>2
        DEF Update, UpdateFrame, TypeOK, environment, transport

(* What y knows of x changes only by what x says now, by what is on its    *)
(* way, or by forgetting.                                                  *)
SlotRelays(x, y) ==
  \/ /\ SlotFence(y, x)' = SlotFence(y, x)
     /\ \A w \in Node : SlotVotes(y, x, w)' => SlotVotes(y, x, w)
  \/ /\ SlotFence(y, x)' = 0
     /\ \A w \in Node : ~SlotVotes(y, x, w)'
  \/ /\ SlotFence(y, x)' = Newest(x)
     /\ \A w \in Node : SlotVotes(y, x, w)' => Votes(x, w)
     /\ sent'[x][y].fence # NoFence => SentFence(x, y)' = Newest(x)
     /\ \A w \in Node : SentVotes(x, y, w)' => Votes(x, w)
  \/ /\ SlotFence(y, x)' = SentFence(x, y)
     /\ \A w \in Node : SlotVotes(y, x, w)' => SentVotes(x, y, w)
     /\ sent'[x][y] = NoHeartbeat

SentRelays(x, y) ==
  \/ sent'[x][y] = sent[x][y]
  \/ sent'[x][y] = NoHeartbeat
  \/ /\ SentFence(x, y)' \in {0, Newest(x)}
     /\ sent'[x][y].fence # NoFence => SentFence(x, y)' = Newest(x)
     /\ \A w \in Node : SentVotes(x, y, w)' =>
          Votes(x, w) /\ SentFence(x, y)' = Newest(x)

Relays(x, y) ==
  /\ UNCHANGED <<config, directory>>
  /\ SlotRelays(x, y) /\ SentRelays(x, y)

(* Then the order of what x reports stays.                                 *)
LEMMA RelaysKeepOrder ==
  ASSUME TypeOK, NEW x, NEW y, Peers(x, y), Relays(x, y)
  PROVE  /\ InOrder(x, y) => InOrder(x, y)'
         /\ StandsFast(x, y) /\ (Votes(x, y)' => Votes(x, y)) => StandsFast(x, y)'
<1>1. /\ x \in Node /\ y \in Node /\ x # y /\ None \notin Node
      /\ Peers(y, x)
  BY SiteAssumption DEF Peers
<1>2. /\ Newest(x) \in Nat /\ Newest(y) \in Nat
      /\ SlotFence(y, x) \in Nat /\ SentFence(x, y) \in Nat
      /\ NoFence.revision = 0
  BY <1>1, Revisions
<1>3. /\ NoHeartbeat.fence = NoFence
      /\ \A k, w \in Node : NoHeartbeat.digest # Vote(k, w)
  BY <1>1 DEF NoHeartbeat, NoDigest, Vote
<1>4. /\ Newest(x)' = Newest(x) /\ Newest(y)' = Newest(y)
      /\ config' = config /\ directory' = directory
  BY DEF Relays, Newest
<1>5. Favours(y, x, y)' <=> Favours(y, x, y)
  BY <1>1, <1>4, FavoursOne
<1>6. /\ sent'[x][y] = sent[x][y] =>
           /\ SentFence(x, y)' = SentFence(x, y)
           /\ \A w \in Node : SentVotes(x, y, w)' <=> SentVotes(x, y, w)
      /\ sent'[x][y] = NoHeartbeat =>
           /\ SentFence(x, y)' = 0 /\ sent'[x][y].fence = NoFence
           /\ \A w \in Node : ~SentVotes(x, y, w)'
  BY <1>1, <1>2, <1>3, <1>4 DEF SentFence, SentVotes, Vote
<1>7. SentRelays(x, y) /\ SlotRelays(x, y)
  BY DEF Relays
<1>8. InOrder(x, y) => InOrder(x, y)'
  BY <1>2, <1>4, <1>6, <1>7 DEF SentRelays, SlotRelays, InOrder
<1>9. ASSUME StandsFast(x, y), Votes(x, y)' => Votes(x, y)
      PROVE  StandsFast(x, y)'
  <2>1. ~(Votes(x, x) /\ Votes(x, y))
    BY <1>1 DEF Votes, Vote
  <2>2. SlotVotes(y, x, x)' /\ Yields(y, x, SlotFence(y, x))' =>
          ~SentVotes(x, y, y)' /\ ~Votes(x, y)'
    BY <1>1, <1>2, <1>4, <1>5, <1>6, <1>7, <1>9, <2>1
       DEF SentRelays, SlotRelays, StandsFast, Yields
  <2>3. SentVotes(x, y, x)' /\ Yields(y, x, SentFence(x, y))' => ~Votes(x, y)'
    BY <1>1, <1>2, <1>4, <1>5, <1>6, <1>7, <1>9, <2>1
       DEF SentRelays, StandsFast, Yields
  <2> QED BY <2>2, <2>3 DEF StandsFast
<1> QED BY <1>8, <1>9

(* And so does the turn of h, when h votes as before.                      *)
LEMMA RelaysKeepTurn ==
  ASSUME TypeOK, NEW h, NEW p, Peers(h, p), Relays(h, p), Turn(h, p),
         leader'[p] \in {leader[p], None}, Votes(h, p)' => Votes(h, p)
  PROVE  Turn(h, p)'
<1>1. /\ h \in Node /\ p \in Node /\ h # p /\ None \notin Node
      /\ Peers(p, h)
  BY SiteAssumption DEF Peers
<1>2. /\ Newest(p)' = Newest(p) /\ Newest(h)' = Newest(h)
      /\ config' = config /\ directory' = directory
  BY DEF Relays, Newest
<1>3. Favours(p, h, p)' <=> Favours(p, h, p)
  BY <1>1, <1>2, FavoursOne
<1>4. \A k, w \in Node : NoHeartbeat.digest # Vote(k, w)
  BY <1>1 DEF NoHeartbeat, NoDigest, Vote
<1>5. /\ sent'[h][p] = sent[h][p] =>
           /\ SentFence(h, p)' = SentFence(h, p)
           /\ \A w \in Node : SentVotes(h, p, w)' <=> SentVotes(h, p, w)
      /\ sent'[h][p] = NoHeartbeat => \A w \in Node : ~SentVotes(h, p, w)'
  BY <1>1, <1>2, <1>4 DEF SentFence, SentVotes, Vote
<1>6. SentRelays(h, p) /\ SlotRelays(h, p)
  BY DEF Relays
<1>7. SlotVotes(p, h, p)' =>
        \/ SlotVotes(p, h, p) /\ SlotFence(p, h)' = SlotFence(p, h)
        \/ Votes(h, p) /\ SlotFence(p, h)' = Newest(h)
        \/ SentVotes(h, p, p) /\ SlotFence(p, h)' = SentFence(h, p)
  BY <1>1, <1>6 DEF SlotRelays
<1>8. SentVotes(h, p, p)' =>
        \/ SentVotes(h, p, p) /\ SentFence(h, p)' = SentFence(h, p)
        \/ Votes(h, p) /\ SentFence(h, p)' = Newest(h)
  BY <1>1, <1>5, <1>6 DEF SentRelays
<1>9. /\ SlotVotes(p, h, p)' => Yields(p, h, SlotFence(p, h))'
      /\ SentVotes(h, p, p)' => Yields(p, h, SentFence(h, p))'
      /\ Votes(h, p)' => Yields(p, h, Newest(h))'
  BY <1>2, <1>3, <1>7, <1>8 DEF Turn, Yields
<1>10. leader'[p] # p /\ (leader'[p] = h => leader[p] = h)
  BY <1>1 DEF Turn
<1> QED BY <1>2, <1>7, <1>8, <1>9, <1>10 DEF Turn

(* What relays both ways, with votes and Leaders kept or forgotten, keeps  *)
(* whose turn it is.                                                       *)
LEMMA RelaysKeepTurns ==
  ASSUME TypeOK, NEW h, NEW p, Peers(h, p), Turns(h, p),
         Relays(h, p), Relays(p, h),
         leader'[p] \in {leader[p], None},
         \A n, w \in Node : Votes(n, w)' => Votes(n, w)
  PROVE  Turns(h, p)'
<1>1. h \in Node /\ p \in Node /\ Peers(p, h)
  BY DEF Peers
<1>2. /\ InOrder(h, p)' /\ InOrder(p, h)'
      /\ StandsFast(h, p)' /\ StandsFast(p, h)'
  BY <1>1, RelaysKeepOrder DEF Turns, Ordered
<1>3. ~Deferring(h, p)'
  <2>1. UNCHANGED directory /\ Newest(h)' = Newest(h) /\ Newest(p)' = Newest(p)
    BY DEF Relays, Newest
  <2> QED BY <1>1, <2>1, FavoursOne DEF Turns, Ordered, Deferring
<1>4. Turn(h, p)'
  BY <1>1, RelaysKeepTurn DEF Turns
<1> QED BY <1>2, <1>3, <1>4 DEF Turns, Ordered

(* A coordination step of n only forgets what it has heard.                *)
LEMMA UpdateRelays ==
  ASSUME TypeOK, NEW n, NEW m, Peers(n, m), Update(n)
  PROVE  Relays(n, m) /\ Relays(m, n)
<1>1. /\ n \in Node /\ m \in Node /\ None \notin Node
      /\ NoFence.revision = 0
  BY SiteAssumption, Revisions DEF Peers
<1>2. /\ UNCHANGED <<config, directory, sent>>
      /\ slots'[m] = slots[m] /\ slots'[n][m] \in {slots[n][m], Vacant}
  BY UpdateEvidence
<1>3. /\ Vacant.fence.revision = 0 /\ \A w \in Node : Vacant.digest # Vote(n, w)
  BY <1>1 DEF Vacant, Vote, NoDigest
<1>4. SlotRelays(n, m) /\ SlotRelays(m, n)
  BY <1>1, <1>2, <1>3 DEF SlotRelays, SlotFence, SlotVotes, Vote
<1> QED BY <1>2, <1>4 DEF Relays, SentRelays

(* Nobody but an incumbent is voted for against the voter's preference.    *)
LEMMA NewVote ==
  ASSUME PairBase, Eligible = Node, NEW n, NEW m, Peers(n, m), Update(n),
         Votes(n, m)'
  PROVE  /\ Concluded(n, m, m)
         /\ Votes(n, m) \/ Yields(n, m, SlotFence(n, m))
<1>1. /\ TypeOK /\ n \in Node /\ m \in Node /\ n # m /\ config[n] # 0
      /\ None \notin Node /\ config' = config
      /\ leader[n] # None => Votes(n, leader[n])
  BY SiteAssumption
     DEF PairBase, Peers, PairConfigured, PairEndorses, Update, UpdateFrame,
         environment, Votes
<1>2. view'[n].digest = Vote(n, m)
  BY <1>1 DEF Votes, Vote
<1>3. PICK w \in {n, m} : Concluded(n, m, w)
  BY <1>2, PairUpdate
<1>4. w = m
  BY <1>2, <1>3 DEF Concluded, Vote
<1>5. leader[n] = m \/ Preferred(n, m, n)
  BY <1>1, <1>3, <1>4 DEF Concluded
<1> QED BY <1>1, <1>3, <1>4, <1>5, Preference

(* A vote stands fast: two nodes that yield to each other would defer.     *)
LEMMA UpdateStandsFast ==
  ASSUME PairBase, Eligible = Node, NEW x, NEW y, Peers(x, y),
         Ordered(x, y), Update(x)
  PROVE  StandsFast(x, y)'
<1>1. /\ TypeOK /\ x \in Node /\ y \in Node /\ Peers(y, x)
  BY DEF PairBase, Peers
<1>2. /\ Relays(x, y) /\ UNCHANGED <<config, directory, sent>>
      /\ slots'[y] = slots[y]
  BY <1>1, UpdateRelays, UpdateEvidence
<1>3. CASE Votes(x, y)' => Votes(x, y)
  BY <1>1, <1>2, <1>3, RelaysKeepOrder DEF Ordered
<1>4. CASE Votes(x, y)' /\ ~Votes(x, y)
  <2>1. Yields(x, y, SlotFence(x, y))
    BY <1>4, NewVote
  <2>2. /\ SlotFence(x, y) <= Newest(y) /\ SlotFence(y, x) <= Newest(x)
        /\ SentFence(x, y) <= Newest(x)
        /\ SlotFence(x, y) \in Nat /\ SlotFence(y, x) \in Nat
        /\ SentFence(x, y) \in Nat
    BY <1>1, Revisions DEF Ordered, InOrder
  <2>3. \A r \in Nat : r <= Newest(x) => ~Yields(y, x, r)
    <3> SUFFICES ASSUME NEW r \in Nat, r <= Newest(x), Yields(y, x, r)
                 PROVE  FALSE
      OBVIOUS
    <3> QED BY <1>1, <2>1, <2>2, YieldsInTie DEF Ordered, Deferring
  <2>4. ~Yields(y, x, SlotFence(y, x)) /\ ~Yields(y, x, SentFence(x, y))
    BY <2>2, <2>3
  <2>5. /\ Newest(y)' = Newest(y) /\ SlotFence(y, x)' = SlotFence(y, x)
        /\ SentFence(x, y)' = SentFence(x, y)
    BY <1>2 DEF Newest, SlotFence, SentFence
  <2>6. Favours(y, x, y)' <=> Favours(y, x, y)
    BY <1>1, <1>2, FavoursOne
  <2>7. ~Yields(y, x, SlotFence(y, x))' /\ ~Yields(y, x, SentFence(x, y))'
    BY <2>4, <2>5, <2>6 DEF Yields
  <2> QED BY <2>7 DEF StandsFast
<1> QED BY <1>3, <1>4

LEMMA UpdateOrdered ==
  ASSUME PairBase, Eligible = Node, NEW x, NEW y, Peers(x, y),
         Ordered(x, y), Update(x)
  PROVE  Ordered(x, y)'
<1>1. /\ TypeOK /\ x \in Node /\ y \in Node /\ x # y /\ Peers(y, x)
  BY DEF PairBase, Peers
<1>2. /\ Relays(x, y) /\ Relays(y, x)
      /\ UNCHANGED <<config, directory>> /\ view'[y] = view[y]
  BY <1>1, UpdateRelays, UpdateEvidence
<1>3. Votes(y, x)' <=> Votes(y, x)
  BY <1>2 DEF Votes, Vote
<1>4. InOrder(x, y)' /\ InOrder(y, x)' /\ StandsFast(y, x)'
  BY <1>1, <1>2, <1>3, RelaysKeepOrder DEF Ordered
<1>5. StandsFast(x, y)'
  BY UpdateStandsFast
<1>6. Newest(x)' = Newest(x) /\ Newest(y)' = Newest(y)
  BY <1>2 DEF Newest
<1>7. ~Deferring(x, y)'
  BY <1>1, <1>2, <1>6, FavoursOne DEF Ordered, Deferring
<1> QED BY <1>4, <1>5, <1>7 DEF Ordered

(* Yielding to p, h does so for all that p says; and p does not yield.     *)
LEMMA TurnPasses ==
  ASSUME PairBase, Eligible = Node, NEW h, NEW p, Peers(h, p), Turns(h, p),
         Passes(h, p)
  PROVE  /\ Turn(p, h)'
         /\ Favours(h, p, h) /\ ~Favours(p, h, p)
         /\ ~SlotVotes(p, h, p) /\ ~SentVotes(h, p, p)
<1>1. /\ TypeOK /\ h \in Node /\ p \in Node /\ h # p /\ None \notin Node
      /\ Peers(p, h) /\ Update(h) /\ config[h] = config[p]
  BY SiteAssumption DEF PairBase, PairConfigured, Peers, Passes
<1>2. /\ UNCHANGED <<config, directory, sent>>
      /\ leader'[p] = leader[p] /\ view'[p] = view[p]
      /\ slots'[p] = slots[p] /\ slots'[h][p] \in {slots[h][p], Vacant}
  BY <1>1, UpdateEvidence
<1>3. /\ Newest(h) \in Nat /\ Newest(p) \in Nat
      /\ SlotFence(h, p) \in Nat /\ SlotFence(p, h) \in Nat
      /\ SentFence(h, p) \in Nat /\ SentFence(p, h) \in Nat
  BY <1>1, Revisions
<1>4. /\ Newest(h) = Newest(p) /\ SlotFence(h, p) = Newest(p)
      /\ Favours(h, p, h)
  <2>1. SlotFence(h, p) <= Newest(p) /\ Newest(p) <= Newest(h)
    BY DEF Turns, Turn, Ordered, InOrder
  <2> QED BY <1>1, <1>3, <2>1, YieldsInTie DEF Passes
<1>5. ~Favours(p, h, p)
  BY <1>4 DEF Turns, Ordered, Deferring
<1>6. \A r \in Nat : r <= Newest(h) => ~Yields(p, h, r)
  <2> SUFFICES ASSUME NEW r \in Nat, r <= Newest(h), Yields(p, h, r)
               PROVE  FALSE
    OBVIOUS
  <2> QED BY <1>1, <1>3, <1>4, <1>5, YieldsInTie
<1>7. ~SlotVotes(p, h, p) /\ ~SentVotes(h, p, p)
  <2>1. SlotFence(p, h) <= Newest(h) /\ SentFence(h, p) <= Newest(h)
    BY DEF Turns, Ordered, InOrder
  <2> QED BY <1>3, <1>6, <2>1 DEF Turns, Turn
<1>8. Yields(h, p, Newest(p))
  BY <1>4 DEF Yields
<1>9. /\ Newest(h)' = Newest(h) /\ Newest(p)' = Newest(p)
      /\ SentFence(p, h)' = SentFence(p, h)
      /\ Favours(h, p, h)' <=> Favours(h, p, h)
  BY <1>1, <1>2, FavoursOne DEF Newest, SentFence
<1>10. SlotVotes(h, p, h)' => SlotVotes(h, p, h) /\ SlotFence(h, p)' = SlotFence(h, p)
  <2>1. Vacant.digest # Vote(h, h)
    BY <1>1 DEF Vacant, Vote, NoDigest
  <2> QED BY <1>2, <2>1 DEF SlotVotes, SlotFence, Vote
<1>11. SentVotes(p, h, h)' => SentVotes(p, h, h) /\ SentFence(p, h) = Newest(p)
  <2>1. Grounded(sent[p][h]) /\ InOrder(p, h)
    BY <1>1 DEF PairBase, PairEndorses, Turns, Ordered
  <2>2. SentVotes(p, h, h)' <=> SentVotes(p, h, h)
    BY <1>2 DEF SentVotes, Vote
  <2>3. SentVotes(p, h, h) => sent[p][h].fence # NoFence
    BY <1>1, <2>1 DEF SentVotes, Grounded, Vote, NoDigest
  <2> QED BY <1>3, <1>4, <2>1, <2>2, <2>3 DEF InOrder
<1>12. leader'[h] = p =>
         ~SlotVotes(h, p, h)' /\ ~SentVotes(p, h, h)' /\ ~Votes(p, h)'
  <2> SUFFICES ASSUME leader'[h] = p
               PROVE  ~SlotVotes(h, p, h)' /\ ~SentVotes(p, h, h)' /\ ~Votes(p, h)'
    OBVIOUS
  <2>1. SlotVotes(h, p, p)
    BY DEF Passes, Concluded, SlotVotes
  <2>2. ~SlotVotes(h, p, h) /\ ~SentVotes(p, h, h) /\ ~Votes(p, h)
    BY <1>1, <2>1 DEF Turns, Ordered, StandsFast, SlotVotes, Vote, Passes
  <2>3. Votes(p, h)' <=> Votes(p, h)
    BY <1>2 DEF Votes, Vote
  <2> QED BY <1>10, <1>11, <2>2, <2>3
<1>13. leader'[h] # h
  BY <1>1 DEF Passes, Concluded
<1>14. /\ SlotVotes(h, p, h)' => Yields(h, p, SlotFence(h, p))'
       /\ SentVotes(p, h, h)' => Yields(h, p, SentFence(p, h))'
       /\ Votes(p, h)' => Yields(h, p, Newest(p))'
  BY <1>4, <1>8, <1>9, <1>10, <1>11 DEF Yields
<1>15. Turn(p, h)'
  BY <1>3, <1>4, <1>9, <1>12, <1>13, <1>14 DEF Turn
<1> QED BY <1>4, <1>5, <1>7, <1>15

(* A coordination step of h: its turn stays, or passes.                    *)
LEMMA HolderUpdates ==
  ASSUME PairBase, Eligible = Node, NEW h, NEW p, Peers(h, p), Turns(h, p),
         Update(h)
  PROVE  Turns(h, p)' \/ (Passes(h, p) /\ Turns(p, h)')
<1>1. /\ TypeOK /\ h \in Node /\ p \in Node /\ Peers(p, h)
  BY DEF PairBase, Peers
<1>2. Ordered(h, p)' /\ Ordered(p, h)'
  <2>1. Ordered(h, p)'
    BY UpdateOrdered DEF Turns
  <2> QED BY <2>1 DEF Ordered, Deferring
<1>3. Relays(h, p) /\ leader'[p] = leader[p]
  BY <1>1, UpdateRelays, UpdateEvidence
<1>4. CASE Votes(h, p)' => Votes(h, p)
  BY <1>1, <1>2, <1>3, <1>4, RelaysKeepTurn DEF Turns
<1>5. CASE Votes(h, p)' /\ ~Votes(h, p)
  <2>1. Passes(h, p)
    BY <1>5, NewVote DEF Passes
  <2> QED BY <1>2, <2>1, TurnPasses DEF Turns
<1> QED BY <1>4, <1>5

(* A coordination step of p cannot make it lead.                           *)
LEMMA OtherUpdates ==
  ASSUME PairBase, Eligible = Node, NEW h, NEW p, Peers(h, p), Turns(h, p),
         Update(p)
  PROVE  Turns(h, p)'
<1>1. /\ TypeOK /\ h \in Node /\ p \in Node /\ h # p /\ None \notin Node
      /\ Peers(p, h)
  BY SiteAssumption DEF PairBase, Peers
<1>2. Ordered(h, p)'
  <2>1. Ordered(p, h)'
    BY <1>1, UpdateOrdered DEF Turns, Ordered, Deferring
  <2> QED BY <2>1 DEF Ordered, Deferring
<1>3. /\ UNCHANGED <<config, directory, sent>> /\ view'[h] = view[h]
      /\ slots'[p][h] \in {slots[p][h], Vacant}
  BY <1>1, UpdateEvidence
<1>4. leader'[p] # p
  <2> SUFFICES ASSUME leader'[p] = p PROVE FALSE
    OBVIOUS
  <2>1. Concluded(p, h, p)
    BY <1>1, PairUpdate DEF Concluded
  <2>2. SlotVotes(p, h, p) /\ Preferred(p, p, h)
    BY <1>1, <2>1 DEF Concluded, SlotVotes, Turns, Turn
  <2> QED BY <1>1, <2>2, Preference DEF Turns, Turn
<1>5. /\ Newest(h)' = Newest(h) /\ Newest(p)' = Newest(p)
      /\ SentFence(h, p)' = SentFence(h, p)
      /\ Favours(p, h, p)' <=> Favours(p, h, p)
      /\ SentVotes(h, p, p)' <=> SentVotes(h, p, p)
      /\ Votes(h, p)' <=> Votes(h, p)
  BY <1>1, <1>3, FavoursOne DEF Newest, SentFence, SentVotes, Votes, Vote
<1>6. SlotVotes(p, h, p)' => SlotVotes(p, h, p) /\ SlotFence(p, h)' = SlotFence(p, h)
  <2>1. Vacant.digest # Vote(p, p)
    BY <1>1 DEF Vacant, Vote, NoDigest
  <2> QED BY <1>3, <2>1 DEF SlotVotes, SlotFence, Vote
<1>7. leader'[p] = h =>
        ~SlotVotes(p, h, p)' /\ ~SentVotes(h, p, p)' /\ ~Votes(h, p)'
  <2> SUFFICES ASSUME leader'[p] = h
               PROVE  ~SlotVotes(p, h, p)' /\ ~SentVotes(h, p, p)' /\ ~Votes(h, p)'
    OBVIOUS
  <2>1. Concluded(p, h, h)
    BY <1>1, PairUpdate DEF Concluded
  <2>2. CASE leader[p] = h
    BY <1>5, <1>6, <2>2 DEF Turns, Turn
  <2>3. CASE Preferred(p, h, p)
    <3>1. SlotVotes(p, h, h) /\ Yields(p, h, SlotFence(p, h))
      BY <1>1, <2>1, <2>3, Preference DEF Concluded, SlotVotes
    <3>2. ~SlotVotes(p, h, p) /\ ~SentVotes(h, p, p) /\ ~Votes(h, p)
      BY <1>1, <3>1 DEF Turns, Ordered, StandsFast, SlotVotes, Vote
    <3> QED BY <1>5, <1>6, <3>2
  <2> QED BY <1>1, <2>1, <2>2, <2>3 DEF Concluded
<1>8. /\ SlotVotes(p, h, p)' => Yields(p, h, SlotFence(p, h))'
      /\ SentVotes(h, p, p)' => Yields(p, h, SentFence(h, p))'
      /\ Votes(h, p)' => Yields(p, h, Newest(h))'
  BY <1>5, <1>6 DEF Yields, Turns, Turn
<1>9. Turn(h, p)'
  BY <1>4, <1>5, <1>7, <1>8 DEF Turns, Turn
<1> QED BY <1>2, <1>9 DEF Turns

(* A heartbeat, now or later, tells of its sender's vote and Directory.    *)
LEMMA ToldSlot ==
  ASSUME PairBase, NEW m, NEW n, Peers(m, n), NEW x, Grounded(x),
         Tells(slots'[n][m], x, slots[n][m]), config' = config
  PROVE  \/ /\ SlotFence(n, m)' = SlotFence(n, m)
            /\ \A w \in Node : SlotVotes(n, m, w)' => SlotVotes(n, m, w)
         \/ /\ x.fence # NoFence /\ SlotFence(n, m)' = x.fence.revision
            /\ \A w \in Node : SlotVotes(n, m, w)' => x.digest = Vote(n, w)
<1>1. None \notin Node
  BY SiteAssumption
<1>2. CASE slots'[n][m] = slots[n][m]
  BY <1>2 DEF SlotFence, SlotVotes, Vote
<1>3. CASE /\ slots'[n][m].digest = x.digest
           /\ slots'[n][m].fence = IF x.fence = NoFence THEN slots[n][m].fence
                                   ELSE x.fence
  <2>1. x.fence = NoFence => \A w \in Node : x.digest # Vote(n, w)
    BY <1>1 DEF Grounded, Vote, NoDigest
  <2> QED BY <1>3, <2>1 DEF SlotFence, SlotVotes, Vote
<1> QED BY <1>2, <1>3 DEF Tells

(* A heartbeat cycle of n.                                                 *)
LEMMA SendRelays ==
  ASSUME PairBase, Eligible = Node, NEW n, NEW m, Peers(n, m), Send(n)
  PROVE  /\ Relays(n, m) /\ Relays(m, n)
         /\ UNCHANGED <<config, leader, view>>
<1> DEFINE h == Heartbeat(n, m)
<1>1. /\ TypeOK /\ n \in Node /\ m \in Node /\ n # m /\ None \notin Node
      /\ config[m] = config[n]
  BY SiteAssumption DEF PairBase, Peers, PairConfigured
<1>2. /\ slots'[n][m] = slots[n][m] /\ sent'[m] = sent[m]
      /\ Tells(slots'[m][n], h, slots[m][n])
      /\ sent'[n][m] \in {NoHeartbeat, h}
      /\ UNCHANGED <<config, directory, leader, view>>
  BY <1>1, PairSends DEF environment, coordinator
<1>3. NoFence.revision = 0
  BY <1>1, Revisions
<1>4. /\ Grounded(h)
      /\ \/ h.digest = NoDigest /\ h.fence = NoFence
         \/ h.digest = view[n].digest /\ h.fence = directory[n]
  BY PairHeartbeat
<1> HIDE DEF h
<1>5. /\ NoHeartbeat.digest = NoDigest /\ NoHeartbeat.fence = NoFence
      /\ \A k, w \in Node : NoDigest # Vote(k, w)
  BY <1>1 DEF NoHeartbeat, NoDigest, Vote
<1>6. Relays(m, n)
  BY <1>2 DEF Relays, SlotRelays, SentRelays, SlotFence, SlotVotes, Vote
<1>7. /\ SentFence(n, m)' \in {0, Newest(n)}
      /\ sent'[n][m].fence # NoFence => SentFence(n, m)' = Newest(n)
      /\ \A w \in Node : SentVotes(n, m, w)' =>
           Votes(n, w) /\ SentFence(n, m)' = Newest(n)
  BY <1>1, <1>2, <1>3, <1>4, <1>5
     DEF SentVotes, SentFence, Votes, Newest, Vote
<1>8. SlotRelays(n, m)
  <2>1. \/ /\ SlotFence(m, n)' = SlotFence(m, n)
           /\ \A w \in Node : SlotVotes(m, n, w)' => SlotVotes(m, n, w)
        \/ /\ h.fence # NoFence /\ SlotFence(m, n)' = h.fence.revision
           /\ \A w \in Node : SlotVotes(m, n, w)' => h.digest = Vote(m, w)
    BY <1>1, <1>2, <1>4, ToldSlot DEF Peers
  <2> QED BY <1>1, <1>4, <1>5, <1>7, <2>1
          DEF SlotRelays, Votes, Newest, Vote
<1>9. Relays(n, m)
  BY <1>2, <1>7, <1>8 DEF Relays, SentRelays
<1> QED BY <1>2, <1>6, <1>9

(* The arrival of a delayed heartbeat.                                     *)
LEMMA LateRelays ==
  ASSUME PairBase, Eligible = Node, NEW n, NEW m, Peers(n, m),
         NEW a \in Node, NEW b \in Node, ReceiveLate(a, b)
  PROVE  Relays(n, m) /\ UNCHANGED <<config, leader, view>>
<1>1. /\ TypeOK /\ n \in Node /\ m \in Node /\ n # m
      /\ config[n] = config[m] /\ Grounded(sent[n][m])
  BY DEF PairBase, Peers, PairConfigured, PairEndorses
<1>2. /\ Tells(slots'[b][a], sent[a][b], slots[b][a])
      /\ \A k, j \in Node : <<k, j>> # <<b, a>> => slots'[k][j] = slots[k][j]
      /\ sent'[a][b] = NoHeartbeat
      /\ \A k, j \in Node : <<k, j>> # <<a, b>> => sent'[k][j] = sent[k][j]
      /\ UNCHANGED <<config, directory, leader, view>>
  BY <1>1, PairReceives DEF environment, coordinator
<1>3. SentRelays(n, m)
  BY <1>1, <1>2 DEF SentRelays
<1>4. CASE a = n /\ b = m
  <2>1. \/ /\ SlotFence(m, n)' = SlotFence(m, n)
           /\ \A w \in Node : SlotVotes(m, n, w)' => SlotVotes(m, n, w)
        \/ /\ sent[n][m].fence # NoFence
           /\ SlotFence(m, n)' = sent[n][m].fence.revision
           /\ \A w \in Node : SlotVotes(m, n, w)' => sent[n][m].digest = Vote(m, w)
    BY <1>1, <1>2, <1>4, ToldSlot
  <2>2. SlotRelays(n, m)
    BY <1>1, <1>2, <1>4, <2>1 DEF SlotRelays, SentFence, SentVotes, Vote
  <2> QED BY <1>2, <1>3, <2>2 DEF Relays
<1>5. CASE ~(a = n /\ b = m)
  <2>1. slots'[m][n] = slots[m][n]
    BY <1>1, <1>2, <1>5
  <2>2. SlotRelays(n, m)
    BY <1>2, <2>1 DEF SlotRelays, SlotFence, SlotVotes, Vote
  <2> QED BY <1>2, <1>3, <2>2 DEF Relays
<1> QED BY <1>4, <1>5

(* A power cut takes evidence away and adds none.                          *)
LEMMA PowerRelays ==
  ASSUME PairBase, NEW n, NEW m, Peers(n, m), NEW k \in Node, PowerOff(k)
  PROVE  /\ Relays(n, m) /\ leader'[m] \in {leader[m], None}
         /\ \A w \in Node : Votes(n, w)' => Votes(n, w)
<1>1. /\ TypeOK /\ n \in Node /\ m \in Node /\ n # m /\ None \notin Node
      /\ NoFence.revision = 0
  BY SiteAssumption, Revisions DEF PairBase, Peers
<1>2. /\ UNCHANGED <<config, directory>>
      /\ leader'[m] \in {leader[m], None} /\ view'[n] \in {view[n], NoView}
      /\ slots'[m][n] \in {slots[m][n], Vacant}
      /\ sent'[n][m] \in {sent[n][m], NoHeartbeat}
  BY <1>1 DEF PowerOff, TypeOK, environment
<1>3. /\ Vacant.fence = NoFence
      /\ \A j, w \in Node : /\ Vacant.digest # Vote(j, w)
                            /\ NoView.digest # Vote(j, w)
  BY <1>1 DEF Vacant, NoView, NoDigest, Vote
<1>4. Relays(n, m)
  BY <1>1, <1>2, <1>3
     DEF Relays, SlotRelays, SentRelays, SlotFence, SlotVotes, Vote
<1>5. \A w \in Node : Votes(n, w)' => Votes(n, w)
  BY <1>1, <1>2, <1>3 DEF Votes, Vote
<1> QED BY <1>2, <1>4, <1>5

(* A Leader commits a newer Directory: only that of the node whose turn it *)
(* is.                                                                     *)
LEMMA CommitTurns ==
  ASSUME PairBase, NEW h, NEW p, Peers(h, p), Turns(h, p),
         NEW n \in Node, CommitDirectory(n)
  PROVE  Turns(h, p)'
<1>1. /\ TypeOK /\ h \in Node /\ p \in Node /\ h # p /\ Node = {h, p}
      /\ Peers(p, h)
  BY DEF PairBase, Peers
<1>2. n = h /\ UNCHANGED <<config, leader, view, slots, sent>>
  BY <1>1 DEF CommitDirectory, Change, coordinator, transport, Turns, Turn
<1>3. PICK f \in Fence : /\ f.revision > directory[h].revision
                         /\ directory' = [directory EXCEPT ![h] = f]
  BY <1>2 DEF CommitDirectory
<1>4. /\ directory'[p] = directory[p]
      /\ Newest(p)' = Newest(p) /\ Newest(h)' \in Nat
      /\ Newest(h)' > Newest(h)
  BY <1>1, <1>3, SiteAssumption DEF Newest, TypeOK
<1>5. /\ Newest(h) \in Nat /\ Newest(p) \in Nat
      /\ SlotFence(h, p) \in Nat /\ SlotFence(p, h) \in Nat
      /\ SentFence(h, p) \in Nat /\ SentFence(p, h) \in Nat
  BY <1>1, Revisions
<1>6. /\ \A m, k, w \in Node :
           /\ SlotVotes(k, m, w)' <=> SlotVotes(k, m, w)
           /\ SentVotes(m, k, w)' <=> SentVotes(m, k, w)
           /\ Votes(m, w)' <=> Votes(m, w)
      /\ \A m, k \in Node : /\ SlotFence(k, m)' = SlotFence(k, m)
                            /\ SentFence(m, k)' = SentFence(m, k)
  BY <1>2 DEF SlotVotes, SentVotes, Votes, SlotFence, SentFence, Vote
<1>7. Favours(p, h, p)' <=> Favours(p, h, p)
  BY <1>1, <1>4, FavoursOne
<1>8. InOrder(h, p)' /\ InOrder(p, h)'
  BY <1>1, <1>2, <1>4, <1>5, <1>6 DEF Turns, Ordered, InOrder
<1>9. StandsFast(h, p)'
  BY <1>1, <1>4, <1>6, <1>7 DEF Turns, Ordered, StandsFast, Yields
<1>10. StandsFast(p, h)'
  <2>1. SlotFence(h, p) < Newest(h)' /\ SentFence(p, h) < Newest(h)'
    BY <1>4, <1>5 DEF Turns, Turn, Ordered, InOrder
  <2>2. ~Yields(h, p, SlotFence(h, p))' /\ ~Yields(h, p, SentFence(p, h))'
    BY <1>1, <1>4, <1>5, <1>6, <2>1 DEF Yields
  <2> QED BY <2>2 DEF StandsFast
<1>11. ~Deferring(h, p)' /\ Newest(p)' < Newest(h)'
  BY <1>4, <1>5 DEF Deferring, Turns, Turn
<1>12. Turn(h, p)'
  BY <1>1, <1>2, <1>4, <1>5, <1>6, <1>7, <1>11 DEF Turns, Turn, Yields
<1> QED BY <1>8, <1>9, <1>10, <1>11, <1>12 DEF Turns, Ordered

(* A follower replaces its Directory by its Leader's, which is no older.   *)
LEMMA PullTurns ==
  ASSUME PairBase, NEW h, NEW p, Peers(h, p), Turns(h, p),
         NEW n \in Node, PullDirectory(n)
  PROVE  Turns(h, p)' /\ n = p /\ leader[p] = h
<1>1. /\ TypeOK /\ h \in Node /\ p \in Node /\ h # p /\ Node = {h, p}
      /\ directory[n] # NoFence /\ None \notin Node /\ Peers(p, h)
  BY SiteAssumption DEF PairBase, Peers, PairConfigured
<1>2. PICK l \in DirectorySources(n) :
        directory' = [directory EXCEPT ![n] = directory[l]]
  BY DEF PullDirectory
<1>3. l = leader[n] /\ l \in up /\ l # n /\ leader[l] = l /\ l \in Node
  BY <1>1, <1>2 DEF DirectorySources, TypeOK
<1>4. l = h /\ n = p /\ leader[p] = h
  BY <1>1, <1>3 DEF Turns, Turn
<1>5. UNCHANGED <<config, leader, view, slots, sent>>
  BY DEF PullDirectory, coordinator, transport
<1>6. /\ directory'[p] = directory[h] /\ directory'[h] = directory[h]
      /\ Newest(p)' = Newest(h) /\ Newest(h)' = Newest(h)
  BY <1>1, <1>2, <1>4 DEF Newest, TypeOK
<1>7. /\ Newest(h) \in Nat /\ Newest(p) \in Nat
      /\ SlotFence(h, p) \in Nat /\ SlotFence(p, h) \in Nat
      /\ SentFence(h, p) \in Nat /\ SentFence(p, h) \in Nat
  BY <1>1, Revisions
<1>8. /\ \A m, k, w \in Node :
           /\ SlotVotes(k, m, w)' <=> SlotVotes(k, m, w)
           /\ SentVotes(m, k, w)' <=> SentVotes(m, k, w)
           /\ Votes(m, w)' <=> Votes(m, w)
      /\ \A m, k \in Node : /\ SlotFence(k, m)' = SlotFence(k, m)
                            /\ SentFence(m, k)' = SentFence(m, k)
  BY <1>5 DEF SlotVotes, SentVotes, Votes, SlotFence, SentFence, Vote
<1>9. ~SlotVotes(p, h, p) /\ ~SentVotes(h, p, p) /\ ~Votes(h, p)
  BY <1>4 DEF Turns, Turn
<1>10. InOrder(h, p)' /\ InOrder(p, h)'
  BY <1>1, <1>5, <1>6, <1>7, <1>8 DEF Turns, Turn, Ordered, InOrder
<1>11. StandsFast(h, p)'
  BY <1>1, <1>8, <1>9 DEF StandsFast
<1>12. StandsFast(p, h)'
  <2>1. Favours(h, p, h)' <=> Favours(h, p, h)
    BY <1>1, <1>6, FavoursOne
  <2> QED BY <1>1, <1>6, <1>8, <2>1 DEF Turns, Ordered, StandsFast, Yields
<1>13. ~Deferring(h, p)'
  <2>1. /\ Favours(h, p, h)' <=> Favours(p, p, h)'
    BY <1>6 DEF Favours, Penalty
  <2>2. Favours(p, p, h)' <=> ~Favours(p, h, p)'
    <3>1. h \in Nat /\ p \in Nat /\ h # p
      BY <1>1, SiteAssumption
    <3>2. Penalty(p, h)' \in Nat /\ Penalty(p, p)' \in Nat
      BY DEF Penalty
    <3> QED BY <3>1, <3>2 DEF Favours
  <2> QED BY <2>1, <2>2 DEF Deferring
<1>14. Turn(h, p)'
  BY <1>1, <1>4, <1>5, <1>6, <1>7, <1>8, <1>9 DEF Turns, Turn
<1> QED BY <1>4, <1>10, <1>11, <1>12, <1>13, <1>14 DEF Turns, Ordered

(* Every step keeps whose turn it is, or passes it on.                     *)
LEMMA TurnsStep ==
  ASSUME PairBase, Eligible = Node, NEW h, NEW p, Peers(h, p), Turns(h, p),
         [Next]_vars
  PROVE  Turns(h, p)' \/ (Passes(h, p) /\ Turns(p, h)')
<1>1. /\ TypeOK /\ h \in Node /\ p \in Node /\ Node = {h, p}
      /\ config' = config /\ Peers(p, h)
  BY PairConfiguredStep DEF PairBase, Peers
<1>2. ASSUME NEW n \in Node, Update(n)
      PROVE  Turns(h, p)' \/ (Passes(h, p) /\ Turns(p, h)')
  BY <1>1, <1>2, HolderUpdates, OtherUpdates
<1>3. CASE /\ Relays(h, p) /\ Relays(p, h) /\ leader'[p] \in {leader[p], None}
           /\ \A n, w \in Node : Votes(n, w)' => Votes(n, w)
  BY <1>1, <1>3, RelaysKeepTurns
<1>4. UNCHANGED <<leader, view>> =>
        /\ leader'[p] \in {leader[p], None}
        /\ \A n, w \in Node : Votes(n, w)' => Votes(n, w)
  BY <1>1 DEF Votes, Vote
<1>5. ASSUME NEW n \in Node, Send(n) PROVE Turns(h, p)'
  <2>1. /\ Relays(h, p) /\ Relays(p, h) /\ UNCHANGED <<leader, view>>
    BY <1>1, <1>5, SendRelays
  <2> QED BY <1>1, <1>4, <2>1, RelaysKeepTurns
<1>6. ASSUME NEW m \in Node, NEW n \in Node, ReceiveLate(m, n)
      PROVE  Turns(h, p)'
  <2>1. /\ Relays(h, p) /\ Relays(p, h) /\ UNCHANGED <<leader, view>>
    BY <1>1, <1>6, LateRelays
  <2> QED BY <1>1, <1>4, <2>1, RelaysKeepTurns
<1>7. ASSUME NEW n \in Node, PowerOff(n) PROVE Turns(h, p)'
  BY <1>1, <1>7, PowerRelays, RelaysKeepTurns
<1>8. CASE /\ UNCHANGED <<directory, leader, view, sent>>
           /\ \A k, m \in Node : /\ slots'[k][m].digest = slots[k][m].digest
                                 /\ slots'[k][m].fence = slots[k][m].fence
  <2>1. Relays(h, p) /\ Relays(p, h)
    BY <1>1, <1>8
       DEF Relays, SlotRelays, SentRelays, SlotFence, SlotVotes, Vote
  <2> QED BY <1>1, <1>4, <1>8, <2>1, RelaysKeepTurns
<1>9. CASE Tick
  <2>1. /\ UNCHANGED <<directory, leader, view, sent>>
        /\ \A k, m \in Node : slots'[k][m] = [slots[k][m] EXCEPT
                                                !.ttl = Less(slots[k][m].ttl)]
    BY <1>9 DEF Tick, environment
  <2>2. \A k, m \in Node : slots'[k][m].digest = slots[k][m].digest
                           /\ slots'[k][m].fence = slots[k][m].fence
    BY <1>1, <2>1 DEF TypeOK, Slot
  <2> QED BY <1>8, <2>1, <2>2
<1>10. ASSUME NEW n \in Node,
              \/ PowerOn(n) \/ CommitRoster(n) \/ AdoptRoster(n)
              \/ ProvisionCredentials(n)
       PROVE  UNCHANGED <<directory, leader, view, slots, sent>>
  BY <1>10 DEF PowerOn, CommitRoster, AdoptRoster, ProvisionCredentials,
               Change, coordinator, transport, environment
<1>11. Settle \/ UNCHANGED vars =>
         UNCHANGED <<directory, leader, view, slots, sent>>
  BY DEF Settle, vars, coordinator, transport, environment
<1> QED BY <1>1, <1>2, <1>5, <1>6, <1>7, <1>8, <1>9, <1>10, <1>11,
           CommitTurns, PullTurns DEF Next

(* At the start nobody has voted, and the newer Directory has the turn.    *)
LEMMA TurnsInit ==
  ASSUME FixedPair, Init, NEW x, NEW y, Peers(x, y), ~Deferring(x, y)
  PROVE  Turns(x, y) \/ Turns(y, x)
<1>1. /\ TypeOK /\ x \in Node /\ y \in Node /\ None \notin Node
  BY InitType, SiteAssumption DEF Peers
<1>2. Newest(x) \in Nat /\ Newest(y) \in Nat
  BY <1>1, Revisions
<1>3. \A m, n \in Node :
        /\ SlotFence(n, m) = 0 /\ SentFence(m, n) = 0 /\ leader[n] = None
        /\ sent[m][n].fence = NoFence
        /\ \A w \in Node : /\ ~SlotVotes(n, m, w) /\ ~SentVotes(m, n, w)
                           /\ ~Votes(m, w)
  BY <1>1 DEF Init, SlotFence, SentFence, SlotVotes, SentVotes, Votes, Vote,
              Vacant, NoHeartbeat, NoView, NoDigest, NoFence
<1>4. Ordered(x, y) /\ Ordered(y, x)
  BY <1>1, <1>2, <1>3 DEF Ordered, InOrder, StandsFast, Deferring
<1>5. Newest(y) <= Newest(x) => Turn(x, y)
  BY <1>1, <1>3 DEF Turn
<1>6. Newest(x) <= Newest(y) => Turn(y, x)
  BY <1>1, <1>3 DEF Turn
<1> QED BY <1>2, <1>4, <1>5, <1>6 DEF Turns

(* Where each prefers the other, neither comes to lead: whoever hears of   *)
(* the other's Directory votes for the other.                              *)
Leaderless(x, y) ==
  /\ Deferring(x, y)
  /\ leader[x] # x /\ leader[y] # y
  /\ SlotFence(x, y) \in {0, Newest(y)} /\ SlotFence(y, x) \in {0, Newest(x)}
  /\ SentFence(x, y) \in {0, Newest(x)} /\ SentFence(y, x) \in {0, Newest(y)}

(* What is relayed stays the only Directory of each.                       *)
LEMMA RelaysDeferring ==
  ASSUME TypeOK, NEW x, NEW y, Peers(x, y), Relays(x, y), Relays(y, x),
         Leaderless(x, y)
  PROVE  /\ Deferring(x, y)'
         /\ SlotFence(x, y)' \in {0, Newest(y)'}
         /\ SlotFence(y, x)' \in {0, Newest(x)'}
         /\ SentFence(x, y)' \in {0, Newest(x)'}
         /\ SentFence(y, x)' \in {0, Newest(y)'}
<1>1. /\ x \in Node /\ y \in Node /\ Peers(y, x)
      /\ NoHeartbeat.fence.revision = 0
  BY DEF Peers, NoHeartbeat, NoFence
<1>2. /\ Newest(x)' = Newest(x) /\ Newest(y)' = Newest(y)
      /\ directory' = directory
  BY DEF Relays, Newest
<1>3. Deferring(x, y)'
  BY <1>1, <1>2, FavoursOne DEF Leaderless, Deferring
<1>4. /\ SentFence(x, y)' \in {0, Newest(x)}
      /\ SentFence(y, x)' \in {0, Newest(y)}
  BY <1>1 DEF Relays, SentRelays, SentFence, Leaderless
<1>5. /\ SlotFence(x, y)' \in {0, Newest(y)}
      /\ SlotFence(y, x)' \in {0, Newest(x)}
  BY DEF Relays, SlotRelays, Leaderless
<1> QED BY <1>2, <1>3, <1>4, <1>5

LEMMA UpdateLeaderless ==
  ASSUME PairBase, Eligible = Node, NEW n, NEW m, Peers(n, m), Update(n),
         Deferring(n, m), SlotFence(n, m) \in {0, Newest(m)}, leader[n] # n
  PROVE  leader'[n] # n
<1> SUFFICES ASSUME leader'[n] = n PROVE FALSE
  OBVIOUS
<1>1. /\ TypeOK /\ n \in Node /\ m \in Node /\ n # m /\ None \notin Node
  BY SiteAssumption DEF PairBase, Peers
<1>2. slots[n][m].complete /\ Preferred(n, n, m)
  BY <1>1, PairUpdate DEF Concluded
<1>3. slots[n][m].fence \in Fence
  BY <1>1, <1>2 DEF PairBase, PairEndorses, Grounded, TypeOK, Slot, AnyFence
<1>4. SlotFence(n, m) # 0
  BY <1>3, SiteAssumption DEF SlotFence
<1>5. Yields(n, m, SlotFence(n, m))
  BY <1>4 DEF Deferring, Yields
<1> QED BY <1>1, <1>2, <1>5, Preference

(* So nobody ever leads, and both Directories stay as they are.            *)
LEMMA LeaderlessStep ==
  ASSUME PairBase, Eligible = Node, NEW x, NEW y, Peers(x, y),
         Leaderless(x, y), [Next]_vars
  PROVE  Leaderless(x, y)'
<1>1. /\ TypeOK /\ x \in Node /\ y \in Node /\ x # y /\ Node = {x, y}
      /\ config' = config /\ Peers(y, x) /\ None \notin Node
  BY PairConfiguredStep, SiteAssumption DEF PairBase, Peers
<1>2. Deferring(x, y) /\ Deferring(y, x)
  BY DEF Leaderless, Deferring
<1> DEFINE Unled == /\ Relays(x, y) /\ Relays(y, x)
                    /\ leader'[x] # x /\ leader'[y] # y
<1>3. SUFFICES Unled
  BY <1>1, RelaysDeferring DEF Leaderless
<1>4. leader[x] # x /\ leader[y] # y
  BY DEF Leaderless
<1>5. ASSUME NEW n \in Node, Update(n) PROVE Unled
  <2>1. CASE n = x
    <3>1. leader'[x] # x /\ leader'[y] = leader[y]
      BY <1>1, <1>2, <1>5, <2>1, UpdateLeaderless, UpdateEvidence
         DEF Leaderless
    <3> QED BY <1>1, <1>4, <1>5, <2>1, <3>1, UpdateRelays
  <2>2. CASE n = y
    <3>1. leader'[y] # y /\ leader'[x] = leader[x]
      BY <1>1, <1>2, <1>5, <2>2, UpdateLeaderless, UpdateEvidence
         DEF Leaderless
    <3> QED BY <1>1, <1>4, <1>5, <2>2, <3>1, UpdateRelays
  <2> QED BY <1>1, <2>1, <2>2
<1>6. ASSUME NEW n \in Node, CommitDirectory(n) PROVE FALSE
  BY <1>1, <1>4, <1>6 DEF CommitDirectory
<1>7. ASSUME NEW n \in Node, PullDirectory(n) PROVE FALSE
  <2>1. directory[n] # NoFence
    BY DEF PairBase, PairConfigured
  <2>2. PICK l \in DirectorySources(n) : TRUE
    BY <1>7 DEF PullDirectory
  <2>3. leader[l] = l /\ l = leader[n] /\ l \in up
    BY <2>1, <2>2 DEF DirectorySources
  <2> QED BY <1>1, <1>4, <2>3 DEF TypeOK
<1>8. ASSUME NEW n \in Node, Send(n) PROVE Unled
  BY <1>1, <1>4, <1>8, SendRelays
<1>9. ASSUME NEW m \in Node, NEW n \in Node, ReceiveLate(m, n) PROVE Unled
  BY <1>1, <1>4, <1>9, LateRelays
<1>10. ASSUME NEW n \in Node, PowerOff(n) PROVE Unled
  BY <1>1, <1>4, <1>10, PowerRelays
<1>11. ASSUME UNCHANGED <<directory, leader, sent>>,
              \A k, m \in Node : /\ slots'[k][m].digest = slots[k][m].digest
                                 /\ slots'[k][m].fence = slots[k][m].fence
       PROVE  Unled
  BY <1>1, <1>4, <1>11
     DEF Relays, SlotRelays, SentRelays, SlotFence, SlotVotes, Vote
<1>12. CASE Tick
  <2>1. /\ UNCHANGED <<directory, leader, sent>>
        /\ \A k, m \in Node : slots'[k][m] = [slots[k][m] EXCEPT
                                                !.ttl = Less(slots[k][m].ttl)]
    BY <1>12 DEF Tick, environment
  <2>2. \A k, m \in Node : slots'[k][m].digest = slots[k][m].digest
                           /\ slots'[k][m].fence = slots[k][m].fence
    BY <1>1, <2>1 DEF TypeOK, Slot
  <2> QED BY <1>11, <2>1, <2>2
<1>13. ASSUME NEW n \in Node,
              \/ PowerOn(n) \/ CommitRoster(n) \/ AdoptRoster(n)
              \/ ProvisionCredentials(n)
       PROVE  UNCHANGED <<directory, leader, slots, sent>>
  BY <1>13 DEF PowerOn, CommitRoster, AdoptRoster, ProvisionCredentials,
               Change, coordinator, transport, environment
<1>14. Settle \/ UNCHANGED vars => UNCHANGED <<directory, leader, slots, sent>>
  BY DEF Settle, vars, coordinator, transport, environment
<1> HIDE DEF Unled
<1> QED BY <1>5, <1>6, <1>7, <1>8, <1>9, <1>10, <1>11, <1>12, <1>13, <1>14
        DEF Next

LEMMA LeaderlessInit ==
  ASSUME Init, NEW x, NEW y, Peers(x, y), Deferring(x, y)
  PROVE  Leaderless(x, y)
BY SiteAssumption
   DEF Init, Leaderless, Peers, SlotFence, SentFence, Vacant, NoHeartbeat,
       NoFence

(* Of a fixed pair somebody has the turn, or nobody ever leads.            *)
PairOrder(x, y) == Turns(x, y) \/ Turns(y, x) \/ Leaderless(x, y)

LEMMA PairOrderStep ==
  ASSUME PairBase, Eligible = Node, NEW x, NEW y, Peers(x, y),
         PairOrder(x, y), [Next]_vars
  PROVE  PairOrder(x, y)'
<1>1. Peers(y, x)
  BY DEF Peers
<1> QED BY <1>1, TurnsStep, LeaderlessStep DEF PairOrder

(* Whoever leads is eligible.                                              *)
LeadersEligible == \A n \in Node : leader[n] = n => n \in Eligible

LEMMA LeadersEligibleStep ==
  ASSUME TypeOK, PairConfigured, LeadersEligible, [Next]_vars
  PROVE  LeadersEligible'
<1> SUFFICES ASSUME NEW n \in Node, leader'[n] = n PROVE n \in Eligible
  BY DEF LeadersEligible
<1>1. CASE Update(n)
  <2>1. None \notin Node /\ Ready(n)
    BY SiteAssumption DEF PairConfigured, Ready, Members
  <2>2. PICK w \in Winners(n) :
          \/ LoseQuorum(n, ViewOf(n, w)) \/ FindNoWinner(n, ViewOf(n, w))
          \/ RefuseTerm(n, ViewOf(n, w)) \/ LeadOrFollow(n, ViewOf(n, w))
    BY <1>1, <2>1, LeaderlessValues DEF Update, Elect
  <2>3. LeadOrFollow(n, ViewOf(n, w)) /\ ViewOf(n, w).digest.winner = w
    BY <2>1, <2>2, LeaderlessValues DEF ViewOf
  <2>4. w = n
    BY <2>3, LeadOrFollowValues
  <2>5. LocalEligible(n)
    BY <2>1, <2>4, WinnersAreCandidates, ReadyMembers
       DEF Candidates, EligibleLive
  <2> QED BY <2>1, <2>5 DEF LocalEligible
<1>2. CASE leader'[n] = leader[n]
  BY <1>2 DEF LeadersEligible
<1>3. ASSUME NEW m \in Node, PowerOff(m) PROVE leader'[n] = leader[n]
  <2>1. leader'[n] \in {leader[n], None} /\ None \notin Node
    BY <1>3, SiteAssumption DEF PowerOff, TypeOK
  <2> QED BY <2>1
<1>4. ASSUME NEW m \in Node, Update(m), m # n PROVE leader'[n] = leader[n]
  BY <1>4, UpdateOutcome DEF OthersKeep, TypeOK
<1>5. ASSUME NEW m \in Node,
             \/ Send(m) \/ PowerOn(m) \/ CommitRoster(m) \/ AdoptRoster(m)
             \/ ProvisionCredentials(m) \/ CommitDirectory(m)
             \/ PullDirectory(m)
      PROVE  leader' = leader
  BY <1>5 DEF Send, PowerOn, CommitRoster, AdoptRoster, ProvisionCredentials,
              CommitDirectory, PullDirectory, Change, coordinator
<1>6. ASSUME NEW m \in Node, NEW k \in Node, ReceiveLate(m, k)
      PROVE  leader' = leader
  BY <1>6 DEF ReceiveLate, coordinator
<1>7. Tick \/ Settle \/ UNCHANGED vars => leader' = leader
  BY DEF Tick, Settle, vars, coordinator
<1> QED BY <1>1, <1>2, <1>3, <1>4, <1>5, <1>6, <1>7 DEF Next

(* Two nodes are two peers.                                                *)
LEMMA PairNodes ==
  ASSUME Cardinality(Node) = 2
  PROVE  \E x, y : Peers(x, y)
<1>1. PICK a, b : Node = {a, b} /\ a # b
  <2>1. IsFiniteSet(Node)
    BY SiteAssumption
  <2>2. PICK a : a \in Node
    BY <2>1, FS_EmptySet
  <2>3. IsFiniteSet(Node \ {a}) /\ Cardinality(Node \ {a}) = 1
    BY <2>1, <2>2, FS_RemoveElement
  <2>4. PICK b : Node \ {a} = {b}
    BY <2>3, FS_Singleton
  <2>5. Node = {a, b} /\ a # b
    BY <2>2, <2>4
  <2> QED BY <2>5
<1> QED BY <1>1 DEF Peers

(* With one roster, all credentials and a Directory each, two nodes never  *)
(* lead at once: whichever Directories they begin with and commit, and     *)
(* whomever these have lead a Group, in however many restarts, whatever is *)
(* lost or late.                                                           *)
THEOREM OneLeaderInFixedPair ==
  ASSUME FixedPair
  PROVE  Spec => []SingleLeader
<1>1. PICK x, y : Peers(x, y)
  BY PairNodes DEF FixedPair
<1>2. Spec /\ Eligible = Node => []SingleLeader
  <2> DEFINE I == PairBase /\ PairOrder(x, y)
  <2>1. Init => I
    BY <1>1, PairBaseInit, TurnsInit, LeaderlessInit DEF PairOrder
  <2>2. Eligible = Node /\ I /\ [Next]_vars => I'
    BY <1>1, PairBaseStep, PairOrderStep
  <2>3. I => SingleLeader
    BY <1>1 DEF Peers, PairOrder, Turns, Turn, Leaderless, SingleLeader,
                LocalLeader
  <2>4. CASE Eligible = Node
    BY <2>1, <2>2, <2>3, <2>4, PTL DEF Spec
  <2> QED BY <2>4
<1>3. CASE Eligible # Node
  <2> DEFINE I == TypeOK /\ PairConfigured /\ LeadersEligible
  <2>1. Init => I
    <3>1. Init => LeadersEligible
      BY SiteAssumption DEF Init, LeadersEligible
    <3> QED BY <3>1, PairBaseInit DEF PairBase
  <2>2. I /\ [Next]_vars => I'
    BY NextType, PairConfiguredStep, LeadersEligibleStep
  <2>3. I => SingleLeader
    <3>1. Eligible \subseteq Node
      BY SiteAssumption
    <3> QED BY <1>1, <1>3, <3>1
            DEF Peers, LeadersEligible, SingleLeader, LocalLeader
  <2> QED BY <2>1, <2>2, <2>3, PTL DEF Spec
<1> QED BY <1>2, <1>3

(* But a pair of which each prefers the other, because their Directories   *)
(* forked at one revision and name different Group Leaders, never has a    *)
(* Leader: the choice of a fork (site_coordinator.cpp:441) does not help   *)
(* it, and the fork stays, as only a Leader could commit a Directory or    *)
(* hand one out.                                                           *)
THEOREM DeferringPairNeverLed ==
  ASSUME FixedPair, Eligible = Node, NEW x, NEW y, Peers(x, y)
  PROVE  Spec /\ Deferring(x, y)
           => [](/\ \A n \in Node : leader[n] # n
                 /\ directory[x].revision = directory[y].revision)
<1> DEFINE I == PairBase /\ Leaderless(x, y)
           Forked == directory[x].revision = directory[y].revision
<1>1. Init /\ Deferring(x, y) => I
  BY PairBaseInit, LeaderlessInit
<1>2. I /\ [Next]_vars => I'
  BY PairBaseStep, LeaderlessStep
<1>3. I => (\A n \in Node : leader[n] # n) /\ Forked
  BY DEF Peers, Leaderless, Deferring, Newest
<1> QED BY <1>1, <1>2, <1>3, PTL DEF Spec
-----------------------------------------------------------------------------
(***************************************************************************)
(* In such a pair the Leader is never behind its follower, and resumes     *)
(* with its own term.                                                      *)
(*                                                                         *)
(* Whoever has the turn is ahead of the other (Ahead): the other has taken *)
(* no term that the one whose turn it is has not, and where it votes for   *)
(* the other's lead the slot that says so carries its term along.  A       *)
(* restart takes the term away; the slots and heartbeats that still carry  *)
(* it are then those the follower has digested already, provided none is   *)
(* late (Timely).  Where only one node may lead, it always does so with    *)
(* the same term, and late heartbeats do not matter (SolePair).            *)
(***************************************************************************)

(* What every coordinator keeps of its authority: the suspended term is    *)
(* the node's own until somebody leads again, and goes with the power.     *)
Authority(n) ==
  /\ suspended[n].term \in {0, term[n]}
  /\ suspended[n].leader # None => suspended[n].term = term[n]
  /\ leader[n] # None => suspended[n] = NobodySuspended
  /\ LastLed(n).leader # None => term[n] # 0
  /\ n \notin up => leader[n] = None /\ suspended[n].leader = None

(* What n knows of m comes from a heartbeat with a term, which was held    *)
(* back only when it was old, and goes with the power of n.                *)
Honest(n, m) ==
  /\ slots[n][m] = Vacant \/ slots[n][m].term # 0
  /\ sent[m][n] = NoHeartbeat \/ sent[m][n].term # 0
  /\ ~slots[n][m].admitted => slots[n][m].term <= term[n]
  /\ n \notin up => slots[n][m] = Vacant /\ sent[m][n] = NoHeartbeat

(* Terms are numbers, and so are those of heartbeats.                      *)
LEMMA TermsAreNumbers ==
  ASSUME TypeOK, NEW n \in Node, NEW m \in Node
  PROVE  /\ term[n] \in Nat /\ suspended[n].term \in Nat
         /\ slots[n][m].term \in Nat /\ sent[m][n].term \in Nat
         /\ ObservedTerm(n) \in Nat
<1>1. /\ term[n] \in Term /\ suspended[n].term \in Term
      /\ ObservedTerm(n) \in Term
  BY ObservedTermGrows DEF TypeOK
<1>2. slots[n][m].term \in Term
  BY DEF TypeOK, Slot
<1>3. sent[m][n].term \in Term
  BY DEF TypeOK, Message
<1> QED BY <1>1, <1>2, <1>3, TermLimitAssumption DEF Term

(* A coordination step raises the term of its node above 1 only when the   *)
(* node leads, or follows a live peer at the term that peer was heard with.*)
LEMMA UpdateTerm ==
  ASSUME TypeOK, NEW n \in Node, Update(n), Authority(n)
  PROVE  /\ \/ /\ leader'[n] = None
               /\ term'[n] \in {term[n], Larger(term[n], 1)}
               /\ suspended'[n] \in {suspended[n], Suspend(n)}
               /\ leader[n] # None => suspended'[n] \in {NobodySuspended, Suspend(n)}
            \/ leader'[n] = n /\ suspended'[n] = NobodySuspended
            \/ \E w \in Live(n) :
                 /\ leader'[n] = w /\ suspended'[n] = NobodySuspended
                 /\ slots[n][w].admitted /\ term'[n] = slots[n][w].term
<1>1. CASE KeepProbing(n)
  <2>1. leader'[n] = None /\ term'[n] = Larger(term[n], 1)
    BY <1>1, LeaderlessValues
  <2>2. suspended'[n] = suspended[n]
    BY <1>1 DEF KeepProbing
  <2> QED BY <2>1, <2>2 DEF Authority
<1>2. CASE Elect(n)
  <2>1. PICK w \in Winners(n) :
          \/ LoseQuorum(n, ViewOf(n, w)) \/ FindNoWinner(n, ViewOf(n, w))
          \/ RefuseTerm(n, ViewOf(n, w)) \/ LeadOrFollow(n, ViewOf(n, w))
    BY <1>2 DEF Elect
  <2>2. ViewOf(n, w).digest.winner = w
    BY DEF ViewOf
  <2>3. \A v : LoseQuorum(n, v) \/ FindNoWinner(n, v) \/ RefuseTerm(n, v)
                 => suspended'[n] = Suspend(n)
    BY ConcludesValues DEF LoseQuorum, FindNoWinner, RefuseTerm
  <2>4. CASE LoseQuorum(n, ViewOf(n, w))
    BY <2>3, <2>4, LeaderlessValues DEF Suspend
  <2>5. CASE FindNoWinner(n, ViewOf(n, w))
    BY <2>3, <2>5, LeaderlessValues DEF Suspend
  <2>6. CASE RefuseTerm(n, ViewOf(n, w))
    <3>1. leader'[n] = None /\ term'[n] = Decision(n, w).term /\ w # None
      BY <2>2, <2>6, LeaderlessValues
    <3>2. ~Decision(n, w).ready
      BY <2>2, <2>6 DEF RefuseTerm
    <3>3. Decision(n, w).term \in {term[n], Larger(term[n], 1)}
      <4>1. w \in Node
        BY <3>1, WinnersAreCandidates, CandidatesAreNodes
      <4>2. Larger(term[n], suspended[n].term) = term[n]
        BY TermsAreNumbers DEF Authority, Larger
      <4>3. w # n
        BY <3>2 DEF Decision, DecideRoleTerm
      <4>4. Decision(n, w).term =
              RefusedTerm(term[n], leader[n], suspended[n].term,
                          suspended[n].leader, w, WinnerAdmitted(n, w))
        BY <3>2, <4>3 DEF Decision, DecideRoleTerm
      <4> QED BY <4>2, <4>4 DEF RefusedTerm
    <3> QED BY <2>3, <2>6, <3>1, <3>3 DEF Suspend
  <2>7. CASE LeadOrFollow(n, ViewOf(n, w))
    <3>1. /\ leader'[n] = w /\ w # None
          /\ term'[n] = IF Decision(n, w).ready THEN Decision(n, w).term
                        ELSE WinnerTerm(n, w)
          /\ Decision(n, w).ready \/ StandaloneHandoff(n, w)
      BY <2>2, <2>7, LeadOrFollowValues
    <3>2. suspended'[n] = NobodySuspended
      BY <2>7, ConcludesValues DEF LeadOrFollow
    <3>3. CASE w = n
      BY <3>1, <3>2, <3>3
    <3>4. CASE w # n
      <4>1. w \in Live(n)
        BY <3>1, <3>4, WinnersAreCandidates, RemoteCandidatesLive
      <4>2. Decision(n, w).ready =>
              WinnerAdmitted(n, w) /\ Decision(n, w).term = WinnerTerm(n, w)
        BY <3>4 DEF Decision, DecideRoleTerm
      <4>3. slots[n][w].admitted /\ term'[n] = slots[n][w].term
        BY <3>1, <3>4, <4>2 DEF StandaloneHandoff, WinnerAdmitted, WinnerTerm
      <4> QED BY <3>1, <3>2, <4>1, <4>3
    <3> QED BY <3>3, <3>4
  <2> QED BY <2>1, <2>4, <2>5, <2>6, <2>7
<1> QED BY <1>1, <1>2 DEF Update

(* A coordination step keeps what a coordinator knows of its authority.    *)
LEMMA AuthorityUpdate ==
  ASSUME TypeOK, NEW n \in Node, Update(n), Authority(n),
         \A m \in Node : Honest(n, m)
  PROVE  Authority(n)'
<1>1. /\ n \in up' /\ None \notin Node
  BY SiteAssumption DEF Update, UpdateFrame
<1>2. term[n] \in Nat /\ suspended[n].term \in Nat
  BY TermsAreNumbers
<1>3. CASE /\ leader'[n] = None
           /\ term'[n] \in {term[n], Larger(term[n], 1)}
           /\ suspended'[n] \in {suspended[n], Suspend(n)}
           /\ leader[n] # None => suspended'[n] \in {NobodySuspended, Suspend(n)}
  BY <1>1, <1>2, <1>3
     DEF Authority, Suspend, LastLed, Larger, NobodySuspended
<1>4. CASE leader'[n] = n /\ suspended'[n] = NobodySuspended
  <2>1. term'[n] # 0
    <3>1. /\ term[n] \in Term /\ suspended[n].term \in Term
          /\ ObservedTerm(n) \in Term
      BY ObservedTermGrows DEF TypeOK
    <3>2. LocalTerm(term[n], leader[n], suspended[n].term,
                    suspended[n].leader, n, ObservedTerm(n)) # 0
      <4> HIDE DEF ObservedTerm
      <4> QED BY <3>1, TermLimitAssumption
              DEF LocalTerm, Larger, NextRoleTerm, Term
    <3> QED BY <1>4, <3>2, SelfElection
  <2> QED BY <1>1, <1>4, <2>1 DEF Authority, LastLed, NobodySuspended
<1>5. ASSUME NEW w \in Live(n), leader'[n] = w,
             suspended'[n] = NobodySuspended, term'[n] = slots[n][w].term
      PROVE  Authority(n)'
  <2>1. w \in Node /\ slots[n][w].ttl > 0
    BY <1>5, ReadyMembers DEF Live
  <2>2. slots[n][w].term # 0
    BY <2>1 DEF Honest, Vacant
  <2> QED BY <1>1, <1>5, <2>1, <2>2 DEF Authority, LastLed, NobodySuspended
<1> QED BY <1>3, <1>4, <1>5, UpdateTerm

(* A cycle reaches nodes that are powered, late only over slow links.      *)
LEMMA SendReaches ==
  ASSUME NEW n \in Node, Send(n)
  PROVE  \E now, late :
           /\ Delivered(n, now, late)
           /\ now \subseteq up /\ late \subseteq up
           /\ budget.slow = {} => late = {}
           /\ term[n] # 0 /\ n \in up
<1> DEFINE to == {m \in Addressees(n) : Hears(m, n)}
<1>1. PICK lost \in SUBSET (to \cap Links(n, budget.lossy)) :
        \E late \in SUBSET ((to \cap Links(n, budget.slow)) \ lost) :
        \E now \in {to \ (lost \cup late)} : Delivered(n, now, late)
  BY DEF Send, Delivered
<1>2. to \subseteq up
  BY DEF Hears, Started
<1>3. budget.slow = {} => Links(n, budget.slow) = {}
  BY DEF Links
<1>4. term[n] # 0 /\ n \in up
  BY DEF Send, CanSend
<1> HIDE DEF to
<1> QED BY <1>1, <1>2, <1>3, <1>4

(* The term and the digest a heartbeat leaves in a slot, if it is taken.   *)
LEMMA SlotAfterValues ==
  ASSUME NEW m, NEW n, NEW message
  PROVE  \/ SlotAfter(m, n, message) = slots[n][m]
         \/ /\ SlotAfter(m, n, message).term = message.term
            /\ SlotAfter(m, n, message).digest = message.digest
            /\ ~SlotAfter(m, n, message).admitted => message.term < term[n]
BY DEF SlotAfter, StaleTerm

(* The state of a coordinator changes with its own steps and power cuts    *)
(* only.                                                                   *)
LEMMA OwnSteps ==
  ASSUME TypeOK, [Next]_vars, NEW n \in Node
  PROVE  \/ Update(n) \/ PowerOff(n)
         \/ /\ leader'[n] = leader[n] /\ term'[n] = term[n]
            /\ suspended'[n] = suspended[n] /\ view'[n] = view[n]
            /\ n \in up => n \in up'
<1> DEFINE Stays == /\ leader'[n] = leader[n] /\ term'[n] = term[n]
                    /\ suspended'[n] = suspended[n] /\ view'[n] = view[n]
                    /\ n \in up => n \in up'
<1>1. ASSUME NEW m \in Node, Update(m), m # n PROVE Stays
  <2>1. up' = up
    BY <1>1 DEF Update, UpdateFrame
  <2> QED BY <1>1, <2>1, UpdateOutcome DEF OthersKeep, TypeOK
<1>2. ASSUME NEW m \in Node, PowerOff(m), m # n PROVE Stays
  BY <1>2 DEF PowerOff, TypeOK
<1>3. ASSUME NEW m \in Node,
             \/ Send(m) \/ PowerOn(m) \/ CommitRoster(m) \/ AdoptRoster(m)
             \/ ProvisionCredentials(m) \/ CommitDirectory(m)
             \/ PullDirectory(m)
      PROVE  Stays
  BY <1>3 DEF Send, PowerOn, CommitRoster, AdoptRoster,
              ProvisionCredentials, CommitDirectory, PullDirectory, Change,
              coordinator
<1>4. ASSUME NEW m \in Node, NEW k \in Node, ReceiveLate(m, k) PROVE Stays
  BY <1>4 DEF ReceiveLate, coordinator
<1>5. Tick \/ Settle \/ UNCHANGED vars => Stays
  BY DEF Tick, Settle, vars, coordinator
<1> HIDE DEF Stays
<1>6. Update(n) \/ PowerOff(n) \/ Stays
  BY <1>1, <1>2, <1>3, <1>4, <1>5 DEF Next
<1> QED BY <1>6 DEF Stays

(* How a slot and a heartbeat under way may change in one step.            *)
SlotStays(n, m) ==
  /\ slots'[n][m] \in {slots[n][m], [slots[n][m] EXCEPT !.ttl = Less(@)], Vacant}

SlotTakes(n, m, message) ==
  /\ n \in up /\ n \in up' /\ n \notin fresh'
  /\ slots'[n][m] = SlotAfter(m, n, message)

LEMMA SlotSteps ==
  ASSUME TypeOK, [Next]_vars, NEW n \in Node, NEW m \in Node,
         sent[m][n] # NoHeartbeat => n \in up
  PROVE  /\ \/ SlotStays(n, m)
            \/ Send(m) /\ SlotTakes(n, m, Heartbeat(m, n)) /\ term[m] # 0
            \/ /\ ReceiveLate(m, n) /\ SlotTakes(n, m, sent[m][n])
               /\ sent[m][n] # NoHeartbeat
         /\ \/ sent'[m][n] \in {sent[m][n], NoHeartbeat}
            \/ /\ Send(m) /\ sent'[m][n] = Heartbeat(m, n) /\ term[m] # 0
               /\ n \in up /\ budget.slow # {}
<1> DEFINE Stays == SlotStays(n, m) /\ sent'[m][n] \in {sent[m][n], NoHeartbeat}
<1>1. ASSUME NEW k \in Node, Update(k) PROVE Stays
  BY <1>1 DEF Update, UpdateFrame, TypeOK, transport, SlotStays
<1>2. ASSUME NEW k \in Node, Send(k), k # m PROVE Stays
  <2>1. PICK now, late : Delivered(k, now, late)
    BY <1>2, SendDelivers
  <2>2. sent'[m] = sent[m]
    BY <1>2, <2>1 DEF Delivered, TypeOK
  <2>3. slots'[n] = IF n \in now
                    THEN [slots[n] EXCEPT ![k] = SlotAfter(k, n, Heartbeat(k, n))]
                    ELSE slots[n]
    BY <2>1 DEF Delivered
  <2>4. slots'[n][m] = slots[n][m]
    BY <1>2, <2>3 DEF TypeOK
  <2> QED BY <2>2, <2>4 DEF SlotStays
<1>3. CASE Send(m)
  <2>1. PICK now, late :
           /\ Delivered(m, now, late)
           /\ now \subseteq up /\ late \subseteq up
           /\ budget.slow = {} => late = {}
           /\ term[m] # 0 /\ m \in up
    BY <1>3, SendReaches
  <2>2. sent'[m][n] = IF n \in late THEN Heartbeat(m, n) ELSE NoHeartbeat
    BY <2>1 DEF Delivered, TypeOK
  <2>3. slots'[n] = IF n \in now
                    THEN [slots[n] EXCEPT ![m] = SlotAfter(m, n, Heartbeat(m, n))]
                    ELSE slots[n]
    BY <2>1 DEF Delivered
  <2>4. slots'[n][m] = IF n \in now THEN SlotAfter(m, n, Heartbeat(m, n))
                       ELSE slots[n][m]
    BY <2>3 DEF TypeOK
  <2>5. up' = up /\ fresh' = fresh \ now
    BY <1>3, <2>1 DEF Send, Delivered
  <2> QED BY <1>3, <2>1, <2>2, <2>4, <2>5 DEF SlotStays, SlotTakes
<1>4. ASSUME NEW j \in Node, NEW k \in Node, ReceiveLate(j, k)
      PROVE  \/ Stays
             \/ /\ ReceiveLate(m, n) /\ SlotTakes(n, m, sent[m][n])
                /\ sent[m][n] # NoHeartbeat
                /\ sent'[m][n] \in {sent[m][n], NoHeartbeat}
  <2>1. CASE j = m /\ k = n
    <3>1. slots'[n][m] = SlotAfter(m, n, sent[m][n]) /\ sent'[m][n] = NoHeartbeat
      BY <1>4, <2>1 DEF ReceiveLate, TypeOK
    <3>2. sent[m][n] # NoHeartbeat /\ up' = up /\ fresh' = fresh \ {n}
      BY <1>4, <2>1 DEF ReceiveLate, Underway
    <3> QED BY <1>4, <2>1, <3>1, <3>2 DEF SlotTakes
  <2>2. CASE ~(j = m /\ k = n)
    BY <1>4, <2>2 DEF ReceiveLate, TypeOK, SlotStays
  <2> QED BY <2>1, <2>2
<1>5. Tick => Stays
  BY DEF Tick, SlotStays
<1>6. ASSUME NEW k \in Node, PowerOff(k) PROVE Stays
  <2>1. sent'[m][n] \in {sent[m][n], NoHeartbeat}
    BY <1>6 DEF PowerOff, TypeOK
  <2>2. slots'[n][m] \in {slots[n][m], Vacant}
    BY <1>6 DEF PowerOff, TypeOK
  <2> QED BY <2>1, <2>2 DEF SlotStays
<1>7. ASSUME NEW k \in Node,
             \/ PowerOn(k) \/ CommitRoster(k) \/ AdoptRoster(k)
             \/ ProvisionCredentials(k) \/ CommitDirectory(k)
             \/ PullDirectory(k)
      PROVE  slots' = slots /\ sent' = sent
  BY <1>7 DEF PowerOn, CommitRoster, AdoptRoster, ProvisionCredentials,
              CommitDirectory, PullDirectory, Change, transport
<1>8. Settle \/ UNCHANGED vars => slots' = slots /\ sent' = sent
  BY DEF Settle, vars, transport
<1>9. slots' = slots /\ sent' = sent => Stays
  BY DEF SlotStays
<1> HIDE DEF Stays
<1>10. \/ Stays \/ Send(m)
       \/ /\ ReceiveLate(m, n) /\ SlotTakes(n, m, sent[m][n])
          /\ sent[m][n] # NoHeartbeat
          /\ sent'[m][n] \in {sent[m][n], NoHeartbeat}
  BY <1>1, <1>2, <1>4, <1>5, <1>6, <1>7, <1>8, <1>9 DEF Next
<1> QED BY <1>3, <1>10 DEF Stays

(* Power cuts take everything with them.                                   *)
LEMMA PowerOffClears ==
  ASSUME TypeOK, NEW n \in Node, PowerOff(n)
  PROVE  /\ leader'[n] = None /\ term'[n] = 0 /\ n \notin up'
         /\ suspended'[n] = NobodySuspended /\ view'[n] = NoView
         /\ \A m \in Node : slots'[n][m] = Vacant /\ sent'[m][n] = NoHeartbeat
<1>1. /\ leader'[n] = None /\ term'[n] = 0 /\ n \notin up'
      /\ suspended'[n] = NobodySuspended /\ view'[n] = NoView
      /\ \A m \in Node : slots'[n][m] = Vacant
  BY DEF PowerOff, TypeOK
<1>2. \A m \in Node : sent'[m][n] = NoHeartbeat
  BY DEF PowerOff, TypeOK
<1> QED BY <1>1, <1>2

(* An expired slot that was vacant stays so.                               *)
LEMMA StaysVacant ==
  ASSUME NEW n, NEW m, SlotStays(n, m), slots[n][m] = Vacant
  PROVE  slots'[n][m] = Vacant
<1>1. Less(Vacant.ttl) = Vacant.ttl
  BY DEF Less, Vacant
<1>2. [Vacant EXCEPT !.ttl = Less(@)] = Vacant
  BY <1>1 DEF Vacant
<1> QED BY <1>2 DEF SlotStays

(* A slot that stays keeps its term and its digest, or loses both.         *)
LEMMA StaysTerm ==
  ASSUME TypeOK, NEW n \in Node, NEW m \in Node, SlotStays(n, m)
  PROVE  \/ slots'[n][m] = Vacant
         \/ /\ slots'[n][m].term = slots[n][m].term
            /\ slots'[n][m].digest = slots[n][m].digest
            /\ slots'[n][m].fence = slots[n][m].fence
            /\ slots'[n][m].admitted = slots[n][m].admitted
<1>1. slots[n][m] \in Slot
  BY DEF TypeOK
<1> QED BY <1>1 DEF SlotStays, Slot

(* Every step keeps heartbeats and slots honest.                           *)
LEMMA HonestStep ==
  ASSUME TypeOK, [Next]_vars, NEW n \in Node, NEW m \in Node, Honest(n, m)
  PROVE  Honest(n, m)'
<1>1. /\ term[n] \in Nat /\ slots[n][m].term \in Nat /\ sent[m][n].term \in Nat
      /\ term'[n] \in Nat
  <2>1. term'[n] \in Nat
    <3>1. TypeOK'
      BY NextType
    <3> QED BY <3>1, TermLimitAssumption DEF TypeOK, Term
  <2> QED BY <2>1, TermsAreNumbers
<1>2. CASE PowerOff(n)
  <2>1. slots'[n][m] = Vacant /\ sent'[m][n] = NoHeartbeat /\ term'[n] = 0
    BY <1>2, PowerOffClears
  <2> QED BY <2>1 DEF Honest, Vacant
<1>3. CASE ~PowerOff(n)
  <2>1. term'[n] >= term[n] /\ (n \in up => n \in up')
    <3>1. Update(n) => n \in up'
      BY DEF Update, UpdateFrame
    <3> QED BY <1>1, <1>3, <3>1, UpdateRaisesTerm, OwnSteps
  <2>2. /\ \/ SlotStays(n, m)
           \/ Send(m) /\ SlotTakes(n, m, Heartbeat(m, n)) /\ term[m] # 0
           \/ /\ ReceiveLate(m, n) /\ SlotTakes(n, m, sent[m][n])
              /\ sent[m][n] # NoHeartbeat
        /\ \/ sent'[m][n] \in {sent[m][n], NoHeartbeat}
           \/ /\ Send(m) /\ sent'[m][n] = Heartbeat(m, n) /\ term[m] # 0
              /\ n \in up /\ budget.slow # {}
    BY SlotSteps DEF Honest
  <2>3. Heartbeat(m, n).term = term[m]
    BY DEF Heartbeat, NoHeartbeat
  <2>4. /\ sent'[m][n] = NoHeartbeat \/ sent'[m][n].term # 0
        /\ n \notin up' => sent'[m][n] = NoHeartbeat
    BY <2>1, <2>2, <2>3 DEF Honest
  <2>5. ASSUME NEW x, SlotTakes(n, m, x), x.term # 0
        PROVE  /\ slots'[n][m] = Vacant \/ slots'[n][m].term # 0
               /\ ~slots'[n][m].admitted => slots'[n][m].term <= term'[n]
               /\ n \in up'
    <3>1. slots'[n][m] = SlotAfter(m, n, x) /\ n \in up'
      BY <2>5 DEF SlotTakes
    <3>2. CASE slots'[n][m] = slots[n][m]
      BY <1>1, <2>1, <3>1, <3>2 DEF Honest
    <3>3. CASE /\ slots'[n][m].term = x.term
               /\ ~slots'[n][m].admitted => x.term < term[n]
      <4>1. TypeOK'
        BY NextType
      <4>2. slots'[n][m].term \in Nat
        BY <4>1, TermLimitAssumption DEF TypeOK, Slot, Term
      <4> QED BY <1>1, <2>1, <2>5, <3>1, <3>3, <4>2
    <3> QED BY <3>1, <3>2, <3>3, SlotAfterValues
  <2>6. CASE SlotStays(n, m)
    <3>1. n \notin up' => slots'[n][m] = Vacant
      BY <2>1, <2>6, StaysVacant DEF Honest
    <3>2. /\ slots'[n][m] = Vacant \/ slots'[n][m].term # 0
          /\ ~slots'[n][m].admitted => slots'[n][m].term <= term'[n]
      <4>1. CASE slots'[n][m] = Vacant
        BY <1>1, <4>1 DEF Vacant
      <4>2. CASE slots[n][m] = Vacant
        BY <2>6, <4>1, <4>2, StaysVacant
      <4>3. CASE slots'[n][m] # Vacant /\ slots[n][m] # Vacant
        <5>1. /\ slots'[n][m].term = slots[n][m].term
              /\ slots'[n][m].admitted = slots[n][m].admitted
          BY <2>6, <4>3, StaysTerm
        <5> QED BY <1>1, <2>1, <4>3, <5>1 DEF Honest
      <4> QED BY <4>1, <4>2, <4>3
    <3> QED BY <2>4, <3>1, <3>2 DEF Honest
  <2>7. CASE Send(m) /\ SlotTakes(n, m, Heartbeat(m, n)) /\ term[m] # 0
    BY <2>3, <2>4, <2>5, <2>7 DEF Honest
  <2>8. CASE /\ ReceiveLate(m, n) /\ SlotTakes(n, m, sent[m][n])
             /\ sent[m][n] # NoHeartbeat
    BY <2>4, <2>5, <2>8 DEF Honest
  <2> QED BY <2>2, <2>6, <2>7, <2>8
<1> QED BY <1>2, <1>3

(* And coordinators to their authority.                                    *)
LEMMA AuthorityStep ==
  ASSUME TypeOK, [Next]_vars, NEW n \in Node, Authority(n),
         \A m \in Node : Honest(n, m)
  PROVE  Authority(n)'
<1>1. CASE Update(n)
  BY <1>1, AuthorityUpdate
<1>2. CASE PowerOff(n)
  BY <1>2, PowerOffClears DEF Authority, LastLed, NobodySuspended
<1>3. CASE /\ leader'[n] = leader[n] /\ term'[n] = term[n]
           /\ suspended'[n] = suspended[n]
           /\ n \in up => n \in up'
  BY <1>3 DEF Authority, LastLed
<1> QED BY <1>1, <1>2, <1>3, OwnSteps

(* At the start nothing is known.                                          *)
LEMMA HonestInit ==
  ASSUME Init, NEW n \in Node
  PROVE  Authority(n) /\ \A m \in Node : Honest(n, m)
BY DEF Init, Authority, Honest, LastLed, NobodySuspended, Vacant

(* No heartbeat of a node is on its way when the node restarts.            *)
Timely ==
  /\ \/ budget.restarts = 0 /\ up = Node
     \/ budget.slow = {} /\ \A m, n \in Node : sent[m][n] = NoHeartbeat
  /\ \A m, n \in Node : sent[m][n].term <= term[m]

LEMMA TimelyStep ==
  ASSUME TypeOK, [Next]_vars, Timely,
         \A m, n \in Node : sent[m][n] # NoHeartbeat => n \in up
  PROVE  Timely'
<1>1. \/ /\ UNCHANGED <<budget>>
         /\ up' = up \/ \E n \in Node : up' = up \cup {n}
      \/ \E n \in Node : PowerOff(n)
      \/ \E kind \in {"rosters", "directories"} :
           up' = up /\ budget' = [budget EXCEPT ![kind] = @ - 1]
  <2>1. ASSUME NEW n \in Node,
               \/ Update(n) \/ Send(n) \/ PowerOn(n) \/ AdoptRoster(n)
               \/ ProvisionCredentials(n) \/ PullDirectory(n)
        PROVE  /\ UNCHANGED <<budget>>
               /\ up' = up \/ up' = up \cup {n}
    BY <2>1 DEF Update, UpdateFrame, Send, PowerOn, AdoptRoster,
                ProvisionCredentials, PullDirectory
  <2>2. ASSUME NEW m \in Node, NEW n \in Node, ReceiveLate(m, n)
        PROVE  UNCHANGED <<budget, up>>
    BY <2>2 DEF ReceiveLate
  <2>3. Tick \/ Settle \/ UNCHANGED vars => UNCHANGED <<budget, up>>
    BY DEF Tick, Settle, vars
  <2>4. ASSUME NEW n \in Node, CommitRoster(n) \/ CommitDirectory(n)
        PROVE  \E kind \in {"rosters", "directories"} :
                 up' = up /\ budget' = [budget EXCEPT ![kind] = @ - 1]
    BY <2>4 DEF CommitRoster, CommitDirectory, Change
  <2> QED BY <2>1, <2>2, <2>3, <2>4 DEF Next
<1>2. budget \in Budget /\ up \subseteq Node
  BY DEF TypeOK
<1>3. \A m, n \in Node :
        \/ sent'[m][n] \in {sent[m][n], NoHeartbeat}
        \/ Send(m) /\ sent'[m][n] = Heartbeat(m, n) /\ budget.slow # {}
  BY SlotSteps
<1>4. CASE budget.restarts = 0 /\ up = Node
  <2>1. ~ \E n \in Node : PowerOff(n)
    BY <1>2, <1>4 DEF PowerOff, Budget
  <2>2. budget'.restarts = 0 /\ up' = Node
    BY <1>1, <1>2, <1>4, <2>1 DEF Budget
  <2>3. ASSUME NEW m \in Node, NEW n \in Node
        PROVE  sent'[m][n].term <= term'[m]
    <3>1. /\ term[m] \in Nat /\ sent[m][n].term \in Nat /\ term'[m] >= term[m]
          /\ term'[m] \in Nat
      <4>1. TypeOK'
        BY NextType
      <4>2. term'[m] \in Nat
        BY <4>1, TermLimitAssumption DEF TypeOK, Term
      <4> QED BY <2>1, <4>2, TermsAreNumbers, UpdateRaisesTerm, OwnSteps
    <3>2. NoHeartbeat.term = 0 /\ Heartbeat(m, n).term = term[m]
      BY DEF NoHeartbeat, Heartbeat
    <3>3. sent[m][n].term <= term[m]
      BY DEF Timely
    <3> QED BY <1>3, <3>1, <3>2, <3>3
  <2> QED BY <2>2, <2>3 DEF Timely
<1>5. CASE budget.slow = {} /\ \A m, n \in Node : sent[m][n] = NoHeartbeat
  <2>1. budget'.slow = {}
    <3>1. ASSUME NEW n \in Node, PowerOff(n) PROVE budget'.slow = {}
      BY <1>2, <1>5, <3>1 DEF PowerOff, Budget
    <3> QED BY <1>1, <1>2, <1>5, <3>1 DEF Budget
  <2>2. \A m, n \in Node : sent'[m][n] = NoHeartbeat
    BY <1>3, <1>5
  <2>3. NoHeartbeat.term = 0 /\ \A m \in Node : 0 <= term'[m]
    <3>1. TypeOK'
      BY NextType
    <3> QED BY <3>1, TermLimitAssumption DEF TypeOK, Term, NoHeartbeat
  <2> QED BY <2>1, <2>2, <2>3 DEF Timely
<1> QED BY <1>4, <1>5 DEF Timely

(* y has taken the term of its slot of x, if that votes for x, or prefers  *)
(* itself to x.                                                            *)
Digested(y, x) ==
  SlotVotes(y, x, x) =>
    \/ slots[y][x].term <= term[y]
    \/ Preferred(y, y, x) /\ leader[y] # x

(* x, whose turn it is, is ahead of y: a term that y still could take from *)
(* its slot of x is none that x has forgotten; where y votes for x, x has  *)
(* heard of y's term; and y's term is no newer than that of x as Leader.   *)
Ahead(x, y) ==
  /\ y \in fresh => Digested(y, x)
  /\ x \in up => slots[y][x].term <= term[x] \/ Digested(y, x)
  /\ SlotVotes(x, y, x) => term[y] <= Larger(term[x], slots[x][y].term)
  /\ SentVotes(y, x, x) => term[y] <= Larger(term[x], sent[y][x].term)
  /\ LastLed(x).leader = x =>
       term[y] <= term[x] /\ slots[x][y].term <= term[x]

(* What y prefers shows in its Directory and its slot of x. *)
LEMMA PreferenceStays ==
  ASSUME NEW y, NEW x, Peers(y, x), directory'[y] = directory[y],
         slots'[y][x].fence = slots[y][x].fence
  PROVE  Preferred(y, y, x)' <=> Preferred(y, y, x)
<1>1. /\ Penalty(y, y)' = Penalty(y, y) /\ Penalty(y, x)' = Penalty(y, x)
  BY Penalties
<1> QED BY <1>1 DEF Preferred, FenceOf

(* A node prefers one of two.                                              *)
LEMMA PrefersOne ==
  ASSUME TypeOK, NEW y, NEW x, Peers(y, x)
  PROVE  ~(Preferred(y, y, x) /\ Preferred(y, x, y))
BY Preference

(* A node follows its peer on the peer's own vote, and not against its     *)
(* preference.                                                             *)
LEMMA PairFollows ==
  ASSUME PairBase, Eligible = Node, NEW y, NEW x, Peers(y, x), Update(y),
         leader'[y] = x
  PROVE  /\ SlotVotes(y, x, x)
         /\ leader[y] = x \/ Preferred(y, x, y)
<1>1. x # y /\ x # None /\ x \in Node /\ y \in Node
  BY SiteAssumption DEF Peers
<1>2. PICK w \in {y, x} : Concluded(y, x, w)
  BY <1>1, PairUpdate
<1>3. w = x
  BY <1>1, <1>2 DEF Concluded
<1> QED BY <1>1, <1>2, <1>3 DEF Concluded, SlotVotes

(* Following x, y does not get ahead of it.                                *)
LEMMA RaisedTerm ==
  ASSUME PairBase, Eligible = Node, NEW y, NEW x, Peers(y, x), Update(y),
         leader'[y] # y, Authority(y),
         slots[y][x].term <= term[x] \/ Digested(y, x)
  PROVE  term'[y] <= Larger(Larger(term[y], 1), term[x])
<1>1. TypeOK /\ x # y /\ x # None /\ x \in Node /\ y \in Node
  BY SiteAssumption DEF Peers, PairBase
<1>2. /\ term[y] \in Nat /\ term[x] \in Nat /\ slots[y][x].term \in Nat
  BY <1>1, TermsAreNumbers
<1>3. Live(y) \subseteq {x}
  BY PairReady
<1>4. CASE term'[y] \in {term[y], Larger(term[y], 1)}
  BY <1>2, <1>4 DEF Larger
<1>5. CASE leader'[y] = x /\ term'[y] = slots[y][x].term
  <2>1. SlotVotes(y, x, x) /\ (leader[y] = x \/ Preferred(y, x, y))
    BY <1>5, PairFollows
  <2>2. Digested(y, x) => slots[y][x].term <= term[y]
    BY <1>1, <2>1, PrefersOne DEF Digested
  <2> QED BY <1>2, <1>5, <2>2 DEF Larger
<1> QED BY <1>1, <1>3, <1>4, <1>5, UpdateTerm

(* Having run, a coordinator that does not lead has digested what it       *)
(* heard.                                                                  *)
LEMMA DigestedUpdate ==
  ASSUME PairBase, Eligible = Node, NEW y, NEW x, Peers(y, x), Update(y),
         Authority(y), Honest(y, x),
         leader[y] # y \/ view'[y].digest = Vote(y, x)
  PROVE  Digested(y, x)'
<1>1. /\ TypeOK /\ x # y /\ x \in Node /\ y \in Node /\ None \notin Node
      /\ config[y] # 0
  BY SiteAssumption DEF Peers, PairBase, PairConfigured
<1>2. SUFFICES ASSUME SlotVotes(y, x, x)'
               PROVE  \/ slots'[y][x].term <= term'[y]
                      \/ Preferred(y, y, x)' /\ leader'[y] # x
  BY DEF Digested
<1>3. /\ UNCHANGED <<config, directory>>
      /\ slots'[y][x] = IF x \in Live(y) THEN slots[y][x] ELSE Vacant
  BY <1>1 DEF Update, UpdateFrame, environment, TypeOK
<1>4. /\ x \in Live(y) /\ slots'[y][x] = slots[y][x]
      /\ SlotVotes(y, x, x)
  BY <1>1, <1>2, <1>3 DEF SlotVotes, Vote, Vacant, NoDigest
<1>5. slots[y][x].complete
  <2>1. Grounded(slots[y][x])
    BY <1>1 DEF PairBase, PairEndorses
  <2> QED BY <1>1, <1>4, <2>1 DEF Grounded, SlotVotes, Vote, NoDigest
<1>6. /\ term[y] \in Nat /\ slots[y][x].term \in Nat /\ term'[y] >= term[y]
      /\ term'[y] \in Nat
  <2>1. TypeOK'
    BY <1>1, UpdateType
  <2>2. term'[y] \in Nat
    BY <1>1, <2>1, TermLimitAssumption DEF TypeOK, Term
  <2> QED BY <1>1, <2>2, TermsAreNumbers, UpdateRaisesTerm
<1>7. ~KeepProbing(y)
  <2>1. x \in EligibleLive(y)
    BY <1>1, <1>4, <1>5 DEF EligibleLive
  <2> QED BY <2>1 DEF KeepProbing, Probing
<1>8. PICK w \in Winners(y) :
        \/ LoseQuorum(y, ViewOf(y, w)) \/ FindNoWinner(y, ViewOf(y, w))
        \/ RefuseTerm(y, ViewOf(y, w)) \/ LeadOrFollow(y, ViewOf(y, w))
  BY <1>7 DEF Update, Elect
<1>9. ViewOf(y, w).digest = Vote(y, w) /\ ViewOf(y, w).digest.winner = w
  BY PairReady DEF ViewOf, Vote
<1>10. view'[y] = ViewOf(y, w)
  BY <1>1, <1>8, ConcludesValues
     DEF LoseQuorum, FindNoWinner, RefuseTerm, LeadOrFollow
<1>11. \/ w = leader[y] /\ w \in {y, x}
       \/ w = y /\ Preferred(y, y, x)
       \/ w = x
  BY <1>1, <1>4, <1>5, PairWinners
<1>12. CASE w = x
  <2>1. HasQuorum(y, ViewOf(y, x))
    <3>1. Required(y) = 2 /\ Expected(y) = 2 /\ Live(y) = {x}
      BY <1>4, PairReady
    <3>2. Cardinality({x}) = 1
      BY FS_Singleton
    <3>3. DirectEndorsers(y, ViewOf(y, x)) = {x}
      BY <1>4, <1>9, <1>12, <3>1 DEF DirectEndorsers, SlotVotes
    <3>4. DirectEndorsements(y, ViewOf(y, x)) = 2
      BY <3>2, <3>3 DEF DirectEndorsements
    <3>5. Endorsements(y, ViewOf(y, x)) = 2
      <4> HIDE DEF DirectEndorsements
      <4> QED BY <3>1, <3>4 DEF Endorsements
    <3> QED BY <3>1, <3>2, <3>5 DEF HasQuorum, QuorumAvailable, StrictMajority
  <2>2. RefuseTerm(y, ViewOf(y, x)) \/ LeadOrFollow(y, ViewOf(y, x))
    BY <1>1, <1>8, <1>9, <1>12, <2>1 DEF LoseQuorum, FindNoWinner
  <2>3. CASE RefuseTerm(y, ViewOf(y, x))
    <3>1. ~Decision(y, x).ready
      BY <1>9, <1>12, <2>3 DEF RefuseTerm
    <3>2. CASE ~slots[y][x].admitted
      BY <1>4, <1>6, <3>2 DEF Honest
    <3>3. CASE slots[y][x].admitted
      <4>1. ~RemoteTermAccepted(term[y], leader[y], suspended[y].term,
                                suspended[y].leader, x, slots[y][x].term)
        BY <1>1, <3>1, <3>3
           DEF Decision, DecideRoleTerm, WinnerAdmitted, WinnerTerm
      <4>2. Larger(term[y], suspended[y].term) = term[y]
        BY <1>1, TermsAreNumbers DEF Authority, Larger
      <4>3. slots[y][x].term <= term[y]
        BY <1>6, <4>1, <4>2 DEF RemoteTermAccepted
      <4> QED BY <1>4, <1>6, <4>3
    <3> QED BY <3>2, <3>3
  <2>4. CASE LeadOrFollow(y, ViewOf(y, x))
    <3>1. leader'[y] = x
      BY <1>1, <1>9, <1>12, <2>4, LeadOrFollowValues
    <3>2. term'[y] = slots[y][x].term
      <4>1. Live(y) \subseteq {x}
        BY PairReady
      <4> QED BY <1>1, <3>1, <4>1, UpdateTerm
    <3> QED BY <1>4, <1>6, <3>2
  <2> QED BY <2>2, <2>3, <2>4
<1>13. CASE w = y
  <2>1. leader[y] # y
    BY <1>1, <1>9, <1>10, <1>13 DEF Vote
  <2>2. Preferred(y, y, x)
    BY <1>1, <1>11, <1>13, <2>1
  <2>3. Preferred(y, y, x)'
    BY <1>3, <1>4, <2>2, PreferenceStays
  <2>4. leader'[y] # x
    <3>1. \A v : LoseQuorum(y, v) \/ FindNoWinner(y, v) \/ RefuseTerm(y, v)
                   => leader'[y] = None
      BY <1>1, LeaderlessValues
    <3>2. LeadOrFollow(y, ViewOf(y, y)) => leader'[y] = y
      BY <1>1, <1>9, <1>13, LeadOrFollowValues
    <3> QED BY <1>1, <1>8, <1>13, <3>1, <3>2
  <2> QED BY <2>3, <2>4
<1> QED BY <1>11, <1>12, <1>13

(* What a coordination step of n leaves of the two.                        *)
LEMMA UpdateLeaves ==
  ASSUME PairBase, NEW n, NEW m, Peers(n, m), Update(n)
  PROVE  /\ UNCHANGED <<config, directory, sent, up>> /\ fresh' = fresh \cup {n}
         /\ leader'[m] = leader[m] /\ term'[m] = term[m]
         /\ suspended'[m] = suspended[m] /\ slots'[m] = slots[m]
         /\ slots'[n][m] \in {slots[n][m], Vacant}
         /\ term[n] \in Nat /\ term[m] \in Nat /\ term'[n] \in Nat
         /\ term'[n] >= term[n] /\ slots[n][m].term \in Nat
         /\ slots[m][n].term \in Nat /\ sent[n][m].term \in Nat
         /\ sent[m][n].term \in Nat
         /\ \A k \in Node : \A w \in Node : Vacant.digest # Vote(k, w)
         /\ Vacant.term = 0
<1>1. n \in Node /\ m \in Node /\ m # n /\ TypeOK /\ None \notin Node
  BY SiteAssumption DEF Peers, PairBase
<1>2. TypeOK'
  BY <1>1, UpdateType
<1>3. term'[n] \in Nat
  BY <1>1, <1>2, TermLimitAssumption DEF TypeOK, Term
<1>4. OthersKeep(n)
  BY <1>1, UpdateOutcome
<1>5. leader'[m] = leader[m] /\ term'[m] = term[m] /\ suspended'[m] = suspended[m]
  BY <1>1, <1>4 DEF OthersKeep, TypeOK
<1>6. UNCHANGED <<config, directory, sent, up>> /\ fresh' = fresh \cup {n}
  BY DEF Update, UpdateFrame, environment, transport
<1>7. slots'[m] = slots[m] /\ slots'[n][m] \in {slots[n][m], Vacant}
  BY <1>1 DEF Update, UpdateFrame, TypeOK
<1> QED BY <1>1, <1>3, <1>5, <1>6, <1>7, TermsAreNumbers, UpdateRaisesTerm
        DEF Vacant, Vote, NoDigest

(* A coordination step of y, behind.                                       *)
LEMMA AheadUpdateOther ==
  ASSUME PairBase, Eligible = Node, NEW y, NEW x, Peers(y, x), Update(y),
         leader[y] # y, leader'[y] # y, Timely, Ahead(x, y),
         Authority(x), Authority(y), Honest(y, x), Honest(x, y)
  PROVE  Ahead(x, y)'
<1>1. /\ UNCHANGED <<config, directory, sent, up>>
      /\ leader'[x] = leader[x] /\ term'[x] = term[x]
      /\ suspended'[x] = suspended[x] /\ slots'[x] = slots[x]
      /\ term[y] \in Nat /\ term[x] \in Nat /\ term'[y] \in Nat
      /\ slots[x][y].term \in Nat /\ sent[y][x].term \in Nat
      /\ \A k \in Node : \A w \in Node : Vacant.digest # Vote(k, w)
      /\ y \in Node /\ x \in Node /\ None \notin Node
  BY UpdateLeaves, SiteAssumption DEF Peers
<1>2. Digested(y, x)'
  BY DigestedUpdate
<1>3. x \in up => term'[y] <= Larger(Larger(term[y], 1), term[x])
  BY RaisedTerm DEF Ahead
<1>4. SlotVotes(x, y, x)' =>
        term'[y] <= Larger(term'[x], slots'[x][y].term)
  <2>1. SlotVotes(x, y, x) => x \in up /\ slots[x][y].term # 0
    BY <1>1 DEF Honest, SlotVotes
  <2>2. SlotVotes(x, y, x)' <=> SlotVotes(x, y, x)
    BY <1>1 DEF SlotVotes, Vote
  <2> QED BY <1>1, <1>3, <2>1, <2>2 DEF Ahead, Larger
<1>5. SentVotes(y, x, x)' =>
        term'[y] <= Larger(term'[x], sent'[y][x].term)
  <2>1. SentVotes(y, x, x) => sent[y][x] # NoHeartbeat
    BY <1>1 DEF SentVotes, Vote, NoHeartbeat, NoDigest
  <2>2. SentVotes(y, x, x) => x \in up /\ sent[y][x].term # 0
    BY <1>1, <2>1 DEF Honest
  <2>3. SentVotes(y, x, x)' <=> SentVotes(y, x, x)
    BY <1>1 DEF SentVotes, Vote
  <2> QED BY <1>1, <1>3, <2>2, <2>3 DEF Ahead, Larger
<1>6. LastLed(x)'.leader = x =>
        term'[y] <= term'[x] /\ slots'[x][y].term <= term'[x]
  <2>1. LastLed(x)' = LastLed(x)
    BY <1>1 DEF LastLed
  <2>2. LastLed(x).leader = x => x \in up /\ term[x] # 0
    BY <1>1 DEF Authority, LastLed
  <2> QED BY <1>1, <1>3, <2>1, <2>2 DEF Ahead, Larger
<1> QED BY <1>2, <1>4, <1>5, <1>6 DEF Ahead

(* The newest observed term is no older than any candidate's.              *)
LEMMA ObservesCandidates ==
  ASSUME TypeOK, NEW n \in Node, NEW m \in Candidates(n), m # n,
         slots[n][m].admitted
  PROVE  ObservedTerm(n) >= slots[n][m].term
<1> DEFINE Heard == {slots[n][k].term : k \in {c \in Candidates(n) \ {n} :
                                                 slots[n][c].admitted}}
<1>1. term[n] \in Term /\ \A k \in Node : slots[n][k] \in Slot
  BY DEF TypeOK
<1>2. Heard \cup {term[n]} \in SUBSET Term /\ m \in Node
  BY <1>1, CandidatesAreNodes DEF Slot
<1>3. PICK t \in Heard \cup {term[n]} : \A u \in Heard \cup {term[n]} : u <= t
  BY <1>2, LargestTerm
<1>4. ObservedTerm(n) \in Heard \cup {term[n]} /\
      \A u \in Heard \cup {term[n]} : u <= ObservedTerm(n)
  BY <1>3 DEF ObservedTerm
<1>5. slots[n][m].term \in Heard
  OBVIOUS
<1>6. ObservedTerm(n) \in Nat /\ slots[n][m].term \in Nat
  BY <1>2, TermsAreNumbers
<1> QED BY <1>4, <1>5, <1>6

(* A node that comes to lead has observed its peer's term.                 *)
LEMMA LeadsAhead ==
  ASSUME PairBase, Eligible = Node, NEW x, NEW y, Peers(x, y), Update(x),
         leader'[x] = x, Honest(x, y)
  PROVE  /\ SlotVotes(x, y, x)
         /\ term'[x] >= slots[x][y].term
<1>1. /\ TypeOK /\ x # y /\ x \in Node /\ y \in Node /\ None \notin Node
  BY SiteAssumption DEF Peers, PairBase
<1>2. PICK w \in {x, y} : Concluded(x, y, w)
  BY <1>1, PairUpdate
<1>3. w = x
  BY <1>1, <1>2 DEF Concluded
<1>4. SlotVotes(x, y, x) /\ slots[x][y].complete
  BY <1>1, <1>2, <1>3 DEF Concluded, SlotVotes
<1>5. y \in Live(x)
  <2>1. PICK v : HasQuorum(x, v)
    <3>1. KeepProbing(x) => leader'[x] = None
      BY <1>1, LeaderlessValues
    <3>2. PICK v : LoseQuorum(x, v) \/ FindNoWinner(x, v) \/ RefuseTerm(x, v)
                   \/ LeadOrFollow(x, v)
      BY <1>1, <3>1 DEF Update, Elect
    <3>3. LeadOrFollow(x, v)
      BY <1>1, <3>2, LeaderlessValues
    <3> QED BY <3>3 DEF LeadOrFollow
  <2> QED BY <2>1, PairQuorum
<1>6. Candidates(x) = {x, y}
  BY <1>4, <1>5, PairCandidates
<1>7. ObservedTerm(x) >= slots[x][y].term
  <2>1. CASE slots[x][y].admitted
    BY <1>1, <1>6, <2>1, ObservesCandidates
  <2>2. CASE ~slots[x][y].admitted
    <3>1. slots[x][y].term <= term[x] /\ ObservedTerm(x) >= term[x]
      BY <1>1, <2>2, ObservedTermGrows DEF Honest
    <3> QED BY <1>1, <3>1, TermsAreNumbers
  <2> QED BY <2>1, <2>2
<1>8. term'[x] >= ObservedTerm(x)
  <2>1. /\ term[x] \in Term /\ suspended[x].term \in Term
        /\ ObservedTerm(x) \in Term
    BY <1>1, ObservedTermGrows DEF TypeOK
  <2>2. LocalTerm(term[x], leader[x], suspended[x].term, suspended[x].leader,
                  x, ObservedTerm(x)) >= ObservedTerm(x)
    <3> HIDE DEF ObservedTerm
    <3> QED BY <2>1, TermLimitAssumption
            DEF LocalTerm, Larger, NextRoleTerm, Term
  <2> QED BY <1>1, <2>2, SelfElection
<1>9. term'[x] \in Nat
  BY <1>1, UpdateLeaves
<1> QED BY <1>1, <1>4, <1>7, <1>8, <1>9, TermsAreNumbers

(* A coordination step of x, ahead.                                        *)
LEMMA AheadUpdateHolder ==
  ASSUME PairBase, Eligible = Node, NEW x, NEW y, Peers(x, y), Update(x),
         Ahead(x, y), Authority(x), Honest(x, y)
  PROVE  Ahead(x, y)'
<1>1. /\ UNCHANGED <<config, directory, sent, up>> /\ fresh' = fresh \cup {x}
      /\ leader'[y] = leader[y] /\ term'[y] = term[y] /\ slots'[y] = slots[y]
      /\ slots'[x][y] \in {slots[x][y], Vacant}
      /\ term[x] \in Nat /\ term[y] \in Nat /\ term'[x] \in Nat
      /\ term'[x] >= term[x]
      /\ slots[x][y].term \in Nat /\ slots[y][x].term \in Nat
      /\ sent[y][x].term \in Nat
      /\ \A k \in Node : \A w \in Node : Vacant.digest # Vote(k, w)
      /\ Vacant.term = 0
      /\ y \in Node /\ x \in Node /\ x # y /\ None \notin Node
  BY UpdateLeaves, SiteAssumption DEF Peers
<1>2. Digested(y, x)' <=> Digested(y, x)
  <2>1. Preferred(y, y, x)' <=> Preferred(y, y, x)
    BY <1>1, PreferenceStays DEF Peers
  <2> QED BY <1>1, <2>1 DEF Digested, SlotVotes, Vote
<1>3. y \in fresh' => Digested(y, x)'
  BY <1>1, <1>2 DEF Ahead
<1>4. x \in up' => slots'[y][x].term <= term'[x] \/ Digested(y, x)'
  BY <1>1, <1>2 DEF Ahead
<1>5. SlotVotes(x, y, x)' =>
        term'[y] <= Larger(term'[x], slots'[x][y].term)
  <2>1. SlotVotes(x, y, x)' =>
          SlotVotes(x, y, x) /\ slots'[x][y] = slots[x][y]
    BY <1>1 DEF SlotVotes, Vote
  <2> QED BY <1>1, <2>1 DEF Ahead, Larger
<1>6. SentVotes(y, x, x)' =>
        term'[y] <= Larger(term'[x], sent'[y][x].term)
  <2>1. SentVotes(y, x, x)' <=> SentVotes(y, x, x)
    BY <1>1 DEF SentVotes, Vote
  <2> QED BY <1>1, <2>1 DEF Ahead, Larger
<1>7. LastLed(x)'.leader = x =>
        term'[y] <= term'[x] /\ slots'[x][y].term <= term'[x]
  <2>1. CASE leader'[x] = x
    <3>1. SlotVotes(x, y, x) /\ term'[x] >= slots[x][y].term
      BY <2>1, LeadsAhead
    <3> QED BY <1>1, <3>1 DEF Ahead, Larger
  <2>2. CASE leader'[x] # x
    <3>1. LastLed(x)'.leader = x => LastLed(x).leader = x
      <4>1. NobodySuspended.leader = None
        BY DEF NobodySuspended
      <4>2. TypeOK /\ Live(x) \subseteq Node
        BY <1>1, ReadyMembers DEF PairBase
      <4> QED BY <1>1, <2>2, <4>1, <4>2, UpdateTerm
              DEF LastLed, Suspend, Authority
    <3> QED BY <1>1, <3>1 DEF Ahead
  <2> QED BY <2>1, <2>2
<1> QED BY <1>3, <1>4, <1>5, <1>6, <1>7 DEF Ahead

(* A node of a pair that neither leads nor follows keeps its Directory.    *)
LEMMA PairDirectory ==
  ASSUME PairBase, NEW y, NEW x, Peers(y, x), [Next]_vars, leader[y] # y
  PROVE  directory'[y] = directory[y] \/ leader[y] = x
<1>1. TypeOK /\ y \in Node /\ x \in Node /\ y # x /\ directory[y] # NoFence
      /\ Node = {y, x} /\ None \notin Node
  BY SiteAssumption DEF PairBase, PairConfigured, Peers
<1>2. ASSUME NEW n \in Node, CommitDirectory(n)
      PROVE  directory'[y] = directory[y]
  BY <1>1, <1>2 DEF CommitDirectory, TypeOK
<1>3. ASSUME NEW n \in Node, PullDirectory(n)
      PROVE  directory'[y] = directory[y] \/ leader[y] = x
  <2>1. CASE n # y
    BY <1>1, <1>3, <2>1 DEF PullDirectory, TypeOK
  <2>2. CASE n = y
    <3>1. PICK l \in DirectorySources(y) : TRUE
      BY <1>3, <2>2 DEF PullDirectory
    <3>2. l = leader[y] /\ l \in Node
      BY <1>1, <3>1 DEF DirectorySources, TypeOK
    <3> QED BY <1>1, <3>2
  <2> QED BY <2>1, <2>2
<1>4. ASSUME NEW n \in Node,
             \/ Update(n) \/ Send(n) \/ PowerOff(n) \/ PowerOn(n)
             \/ CommitRoster(n) \/ AdoptRoster(n) \/ ProvisionCredentials(n)
      PROVE  directory' = directory
  BY <1>4 DEF Update, UpdateFrame, Send, PowerOff, PowerOn, CommitRoster,
              AdoptRoster, ProvisionCredentials, environment
<1>5. ASSUME NEW m \in Node, NEW n \in Node, ReceiveLate(m, n)
      PROVE  directory' = directory
  BY <1>5 DEF ReceiveLate, environment
<1>6. Tick \/ Settle \/ UNCHANGED vars => directory' = directory
  BY DEF Tick, Settle, vars, environment
<1> QED BY <1>2, <1>3, <1>4, <1>5, <1>6 DEF Next

(* What has been digested stays so until more is heard.                    *)
LEMMA DigestedStays ==
  ASSUME PairBase, NEW y, NEW x, Peers(y, x), [Next]_vars, leader[y] # y,
         ~Update(y), SlotStays(y, x), Digested(y, x)
  PROVE  Digested(y, x)'
<1>1. /\ TypeOK /\ y \in Node /\ x \in Node /\ y # x /\ None \notin Node
      /\ config' = config
  BY SiteAssumption, PairConfiguredStep DEF PairBase, Peers
<1>2. SUFFICES ASSUME SlotVotes(y, x, x)'
               PROVE  \/ slots'[y][x].term <= term'[y]
                      \/ Preferred(y, y, x)' /\ leader'[y] # x
  BY DEF Digested
<1>3. slots'[y][x] # Vacant
  BY <1>1, <1>2 DEF SlotVotes, Vote, Vacant, NoDigest
<1>4. /\ slots'[y][x].term = slots[y][x].term
      /\ slots'[y][x].digest = slots[y][x].digest
      /\ slots'[y][x].fence = slots[y][x].fence
  BY <1>1, <1>3, StaysTerm
<1>5. leader'[y] = leader[y] /\ term'[y] = term[y]
  <2>1. ~PowerOff(y)
    BY <1>1, <1>3, PowerOffClears
  <2> QED BY <1>1, <2>1, OwnSteps
<1>6. SlotVotes(y, x, x)
  BY <1>1, <1>2, <1>4 DEF SlotVotes, Vote
<1>7. CASE slots[y][x].term <= term[y]
  BY <1>4, <1>5, <1>7
<1>8. CASE Preferred(y, y, x) /\ leader[y] # x
  <2>1. directory'[y] = directory[y]
    BY <1>8, PairDirectory
  <2>2. Preferred(y, y, x)' <=> Preferred(y, y, x)
    BY <1>4, <2>1, PreferenceStays
  <2> QED BY <1>5, <1>8, <2>2
<1> QED BY <1>6, <1>7, <1>8 DEF Digested

(* A node that did not run is no fresher than it was.                      *)
LEMMA FreshSteps ==
  ASSUME TypeOK, [Next]_vars, NEW n \in Node, ~Update(n)
  PROVE  n \in fresh' => n \in fresh
<1>1. ASSUME NEW m \in Node, Update(m) PROVE fresh' = fresh \cup {m}
  BY <1>1 DEF Update, UpdateFrame
<1>2. ASSUME NEW m \in Node, Send(m) PROVE fresh' \subseteq fresh
  <2>1. PICK now, late : Delivered(m, now, late)
    BY <1>2, SendDelivers
  <2> QED BY <2>1 DEF Delivered
<1>3. ASSUME NEW m \in Node,
             \/ PowerOff(m) \/ PowerOn(m) \/ CommitRoster(m) \/ AdoptRoster(m)
             \/ ProvisionCredentials(m) \/ CommitDirectory(m)
             \/ PullDirectory(m)
      PROVE  fresh' \subseteq fresh
  BY <1>3 DEF PowerOff, PowerOn, CommitRoster, AdoptRoster,
              ProvisionCredentials, CommitDirectory, PullDirectory, Change
<1>4. ASSUME NEW m \in Node, NEW k \in Node, ReceiveLate(m, k)
      PROVE  fresh' \subseteq fresh
  BY <1>4 DEF ReceiveLate
<1>5. Tick \/ Settle \/ UNCHANGED vars => fresh' \subseteq fresh
  BY DEF Tick, Settle, vars
<1> QED BY <1>1, <1>2, <1>3, <1>4, <1>5 DEF Next

(* A node that powers up finds all others fresh.                           *)
LEMMA PowerUp ==
  ASSUME [Next]_vars, NEW n \in Node, n \notin up, n \in up'
  PROVE  up \subseteq fresh /\ fresh' = fresh
<1>1. PowerOn(n)
  <2>1. ASSUME NEW m \in Node, PowerOn(m) PROVE m = n
    BY <2>1 DEF PowerOn
  <2>2. ASSUME NEW m \in Node,
               \/ Update(m) \/ Send(m) \/ PowerOff(m) \/ CommitRoster(m)
               \/ AdoptRoster(m) \/ ProvisionCredentials(m)
               \/ CommitDirectory(m) \/ PullDirectory(m)
        PROVE  up' \subseteq up
    BY <2>2 DEF Update, UpdateFrame, Send, PowerOff, CommitRoster,
                AdoptRoster, ProvisionCredentials, CommitDirectory,
                PullDirectory, Change
  <2>3. ASSUME NEW m \in Node, NEW k \in Node, ReceiveLate(m, k)
        PROVE  up' = up
    BY <2>3 DEF ReceiveLate
  <2>4. Tick \/ Settle \/ UNCHANGED vars => up' = up
    BY DEF Tick, Settle, vars
  <2> QED BY <2>1, <2>2, <2>3, <2>4 DEF Next
<1> QED BY <1>1 DEF PowerOn

(* Every other step keeps x ahead.                                         *)
LEMMA AheadOtherwise ==
  ASSUME PairBase, NEW x, NEW y, Peers(x, y), [Next]_vars, leader[y] # y,
         ~Update(x), ~Update(y), Timely, Ahead(x, y),
         Authority(x), Honest(x, y), Honest(y, x)
  PROVE  Ahead(x, y)'
<1>1. /\ TypeOK /\ x \in Node /\ y \in Node /\ y # x /\ None \notin Node
      /\ config' = config /\ Peers(y, x) /\ config[x] = config[y]
  BY SiteAssumption, PairConfiguredStep
     DEF PairBase, PairConfigured, Peers
<1>2. /\ term[x] \in Nat /\ term[y] \in Nat
      /\ slots[x][y].term \in Nat /\ slots[y][x].term \in Nat
      /\ sent[y][x].term \in Nat /\ sent[x][y].term \in Nat
      /\ Vacant.term = 0
      /\ \A k, w \in Node : Vacant.digest # Vote(k, w)
      /\ \A k, w \in Node : NoHeartbeat.digest # Vote(k, w)
  BY <1>1, TermsAreNumbers DEF Vacant, NoHeartbeat, NoDigest, Vote
<1>3. /\ \/ PowerOff(x)
         \/ /\ leader'[x] = leader[x] /\ term'[x] = term[x]
            /\ suspended'[x] = suspended[x]
      /\ PowerOff(y) \/ term'[y] = term[y]
  BY <1>1, OwnSteps
<1>4. term'[y] \in {term[y], 0}
  BY <1>1, <1>3, PowerOffClears
<1>5. Heartbeat(x, y).term = term[x] /\ Heartbeat(y, x).term = term[y]
  BY DEF Heartbeat, NoHeartbeat
<1>6. /\ \/ SlotStays(y, x)
         \/ Send(x) /\ SlotTakes(y, x, Heartbeat(x, y)) /\ term[x] # 0
         \/ /\ ReceiveLate(x, y) /\ SlotTakes(y, x, sent[x][y])
            /\ sent[x][y] # NoHeartbeat
  BY <1>1, SlotSteps DEF Honest
<1>7. /\ \/ SlotStays(x, y)
         \/ Send(y) /\ SlotTakes(x, y, Heartbeat(y, x)) /\ term[y] # 0
         \/ /\ ReceiveLate(y, x) /\ SlotTakes(x, y, sent[y][x])
            /\ sent[y][x] # NoHeartbeat
      /\ \/ sent'[y][x] \in {sent[y][x], NoHeartbeat}
         \/ Send(y) /\ sent'[y][x] = Heartbeat(y, x)
  BY <1>1, SlotSteps DEF Honest
<1>8. y \in fresh' => Digested(y, x)'
  <2> SUFFICES ASSUME y \in fresh' PROVE Digested(y, x)'
    OBVIOUS
  <2>1. y \in fresh /\ SlotStays(y, x)
    BY <1>1, <1>6, FreshSteps DEF SlotTakes
  <2> QED BY <1>1, <2>1, DigestedStays DEF Ahead
<1>9. x \in up' => slots'[y][x].term <= term'[x] \/ Digested(y, x)'
  <2> SUFFICES ASSUME x \in up'
               PROVE  slots'[y][x].term <= term'[x] \/ Digested(y, x)'
    OBVIOUS
  <2>1. term'[x] = term[x]
    BY <1>1, <1>3, PowerOffClears
  <2>2. CASE SlotStays(y, x) /\ x \in up
    <3>1. slots'[y][x].term \in {slots[y][x].term, 0}
      BY <1>1, <1>2, <2>2, StaysTerm
    <3> QED BY <1>1, <1>2, <2>1, <2>2, <3>1, DigestedStays DEF Ahead
  <2>3. CASE x \notin up
    <3>1. up \subseteq fresh /\ fresh' = fresh
      BY <1>1, <2>3, PowerUp
    <3>2. CASE y \in up
      BY <1>8, <3>1, <3>2
    <3>3. CASE y \notin up
      <4>1. slots[y][x] = Vacant /\ sent[x][y] = NoHeartbeat
        BY <3>3 DEF Honest
      <4>2. SlotStays(y, x)
        BY <1>6, <3>3 DEF SlotTakes
      <4>3. Digested(y, x)
        BY <1>1, <1>2, <4>1 DEF Digested, SlotVotes
      <4> QED BY <1>1, <4>2, <4>3, DigestedStays
    <3> QED BY <3>2, <3>3
  <2>4. ASSUME NEW message, SlotTakes(y, x, message), message.term <= term[x],
               x \in up
        PROVE  slots'[y][x].term <= term'[x] \/ Digested(y, x)'
    <3>1. slots'[y][x] = SlotAfter(x, y, message)
      BY <2>4 DEF SlotTakes
    <3>2. CASE slots'[y][x] = slots[y][x]
      BY <2>2, <2>4, <3>2 DEF SlotStays
    <3>3. CASE slots'[y][x].term = message.term
      BY <2>1, <2>4, <3>3
    <3> QED BY <3>1, <3>2, <3>3, SlotAfterValues
  <2>5. Send(x) => x \in up /\ Heartbeat(x, y).term <= term[x]
    BY <1>2, <1>5 DEF Send, CanSend
  <2>6. sent[x][y] # NoHeartbeat => x \in up /\ sent[x][y].term <= term[x]
    BY <1>1 DEF Timely
  <2> QED BY <1>6, <2>2, <2>3, <2>4, <2>5, <2>6
<1>10. SlotVotes(x, y, x)' =>
         term'[y] <= Larger(term'[x], slots'[x][y].term)
  <2> SUFFICES ASSUME SlotVotes(x, y, x)'
               PROVE  term'[y] <= Larger(term'[x], slots'[x][y].term)
    OBVIOUS
  <2>1. slots'[x][y] # Vacant
    BY <1>1, <1>2 DEF SlotVotes, Vote
  <2>2. term'[x] = term[x]
    BY <1>1, <1>3, <2>1, PowerOffClears
  <2>3. CASE SlotStays(x, y)
    <3>1. slots'[x][y].term = slots[x][y].term
          /\ slots'[x][y].digest = slots[x][y].digest
      BY <1>1, <2>1, <2>3, StaysTerm
    <3>2. SlotVotes(x, y, x)
      BY <1>1, <3>1 DEF SlotVotes, Vote
    <3> QED BY <1>2, <1>4, <2>2, <3>1, <3>2 DEF Ahead, Larger
  <2>4. ASSUME NEW message, SlotTakes(x, y, message)
        PROVE  \/ slots'[x][y] = slots[x][y]
               \/ slots'[x][y].term = message.term
                  /\ slots'[x][y].digest = message.digest
    BY <2>4, SlotAfterValues DEF SlotTakes
  <2>5. slots'[x][y] = slots[x][y] => SlotStays(x, y)
    BY DEF SlotStays
  <2>6. CASE Send(y) /\ SlotTakes(x, y, Heartbeat(y, x)) /\ term[y] # 0
    BY <1>2, <1>4, <1>5, <2>2, <2>3, <2>4, <2>5, <2>6 DEF Larger
  <2>7. CASE SlotTakes(x, y, sent[y][x])
    <3>1. CASE slots'[x][y].term = sent[y][x].term
               /\ slots'[x][y].digest = sent[y][x].digest
      <4>1. SentVotes(y, x, x)
        BY <1>1, <3>1 DEF SlotVotes, SentVotes, Vote
      <4> QED BY <1>2, <1>4, <2>2, <3>1, <4>1 DEF Ahead, Larger
    <3> QED BY <2>3, <2>4, <2>5, <2>7, <3>1
  <2> QED BY <1>7, <2>3, <2>6, <2>7
<1>11. SentVotes(y, x, x)' =>
         term'[y] <= Larger(term'[x], sent'[y][x].term)
  <2> SUFFICES ASSUME SentVotes(y, x, x)'
               PROVE  term'[y] <= Larger(term'[x], sent'[y][x].term)
    OBVIOUS
  <2>1. sent'[y][x] # NoHeartbeat
    BY <1>1, <1>2 DEF SentVotes, Vote
  <2>2. term'[x] = term[x]
    BY <1>1, <1>3, <2>1, PowerOffClears
  <2>3. CASE sent'[y][x] = sent[y][x]
    <3>1. SentVotes(y, x, x)
      BY <1>1, <2>3 DEF SentVotes, Vote
    <3> QED BY <1>2, <1>4, <2>2, <2>3, <3>1 DEF Ahead, Larger
  <2>4. CASE sent'[y][x] = Heartbeat(y, x)
    BY <1>2, <1>4, <1>5, <2>2, <2>4 DEF Larger
  <2> QED BY <1>7, <2>1, <2>3, <2>4
<1>12. LastLed(x)'.leader = x =>
         term'[y] <= term'[x] /\ slots'[x][y].term <= term'[x]
  <2> SUFFICES ASSUME LastLed(x)'.leader = x
               PROVE  term'[y] <= term'[x] /\ slots'[x][y].term <= term'[x]
    OBVIOUS
  <2>1. LastLed(x).leader = x /\ term'[x] = term[x]
    <3>1. ~PowerOff(x)
      BY <1>1, PowerOffClears DEF LastLed, NobodySuspended
    <3> QED BY <1>3, <3>1 DEF LastLed
  <2>2. term[y] <= term[x] /\ slots[x][y].term <= term[x]
    BY <2>1 DEF Ahead
  <2>3. slots'[x][y].term \in {0, slots[x][y].term, term[y], sent[y][x].term}
    <3>1. SlotStays(x, y) => slots'[x][y].term \in {0, slots[x][y].term}
      BY <1>1, <1>2, StaysTerm
    <3>2. ASSUME NEW message, SlotTakes(x, y, message)
          PROVE  slots'[x][y].term \in {slots[x][y].term, message.term}
      BY <3>2, SlotAfterValues DEF SlotTakes
    <3> QED BY <1>5, <1>7, <3>1, <3>2
  <2>4. sent[y][x].term <= term[y]
    BY <1>1 DEF Timely
  <2> QED BY <1>2, <1>4, <2>1, <2>2, <2>3, <2>4
<1> QED BY <1>8, <1>9, <1>10, <1>11, <1>12 DEF Ahead

(* It is the turn of h, and h is ahead; if p led last, it now prefers h.   *)
TurnAhead(h, p) ==
  /\ Turns(h, p) /\ Ahead(h, p)
  /\ suspended[p].leader = p => Favours(p, h, p)

NeverLed(x, y) ==
  /\ Leaderless(x, y)
  /\ suspended[x].leader # x /\ suspended[y].leader # y

PairAhead(t, o) ==
  /\ PairBase /\ Timely
  /\ \A n \in Node : Authority(n) /\ \A m \in Node : Honest(n, m)
  /\ TurnAhead(t, o) \/ TurnAhead(o, t) \/ NeverLed(t, o)

(* When the turn passes to p, p is ahead: it no longer counts as having    *)
(* led, and h has digested what it heard.                                  *)
LEMMA AheadPasses ==
  ASSUME PairBase, Eligible = Node, NEW h, NEW p, Peers(h, p),
         TurnAhead(h, p), Passes(h, p), Authority(h), Honest(h, p)
  PROVE  /\ Ahead(p, h)'
         /\ Favours(h, p, h)'
<1>1. /\ Update(h) /\ Peers(p, h) /\ view'[h].digest = Vote(h, p)
      /\ Turns(h, p) /\ p \in Node /\ h \in Node /\ None \notin Node
      /\ config[p] = config[h]
  BY SiteAssumption
     DEF Passes, Concluded, Peers, TurnAhead, PairBase, PairConfigured
<1>2. /\ UNCHANGED <<config, directory, sent>>
      /\ leader'[p] = leader[p] /\ term'[p] = term[p]
      /\ suspended'[p] = suspended[p] /\ slots'[p] = slots[p]
  BY <1>1, UpdateLeaves
<1>3. Digested(h, p)'
  BY <1>1, DigestedUpdate
<1>4. /\ Favours(h, p, h) /\ ~Favours(p, h, p)
      /\ ~SlotVotes(p, h, p) /\ ~SentVotes(h, p, p)
  BY <1>1, TurnPasses
<1>5. ~SlotVotes(p, h, p)' /\ ~SentVotes(h, p, p)'
  BY <1>1, <1>2, <1>4 DEF SlotVotes, SentVotes, Vote
<1>6. LastLed(p)'.leader # p
  BY <1>1, <1>2, <1>4 DEF LastLed, TurnAhead, Turns, Turn
<1>7. Favours(h, p, h)'
  BY <1>1, <1>2, <1>4, FavoursOne
<1> QED BY <1>3, <1>5, <1>6, <1>7 DEF Ahead

(* Every step keeps x ahead while y does not lead.                         *)
LEMMA AheadStep ==
  ASSUME PairBase, Eligible = Node, NEW x, NEW y, Peers(x, y), [Next]_vars,
         leader[y] # y, leader'[y] # y, Timely, Ahead(x, y),
         \A n \in Node : Authority(n) /\ \A m \in Node : Honest(n, m)
  PROVE  Ahead(x, y)'
<1>1. /\ x \in Node /\ y \in Node /\ Peers(y, x)
      /\ Authority(x) /\ Authority(y) /\ Honest(x, y) /\ Honest(y, x)
  BY DEF Peers
<1>2. CASE Update(x)
  BY <1>1, <1>2, AheadUpdateHolder
<1>3. CASE Update(y)
  BY <1>1, <1>3, AheadUpdateOther
<1>4. CASE ~Update(x) /\ ~Update(y)
  BY <1>1, <1>4, AheadOtherwise
<1> QED BY <1>2, <1>3, <1>4

(* A node that has not led and does not lead has not led.                  *)
LEMMA StillUnled ==
  ASSUME TypeOK, [Next]_vars, NEW n \in Node, Authority(n),
         leader[n] # n, suspended[n].leader # n
  PROVE  suspended'[n].leader # n
<1>1. NobodySuspended.leader # n
  BY SiteAssumption DEF NobodySuspended
<1>2. CASE Update(n)
  <2>1. suspended'[n] \in {suspended[n], Suspend(n), NobodySuspended}
    BY <1>2, UpdateTerm
  <2> QED BY <1>1, <2>1 DEF Suspend
<1>3. CASE PowerOff(n)
  BY <1>1, <1>3, PowerOffClears
<1> QED BY <1>2, <1>3, OwnSteps

(* A node whose turn it is not does not come to lead in one step.          *)
LEMMA OtherUnled ==
  ASSUME PairBase, Eligible = Node, NEW h, NEW p, Peers(h, p), Turns(h, p),
         [Next]_vars
  PROVE  leader'[p] # p
<1>1. CASE Turns(h, p)'
  BY <1>1 DEF Turns, Turn
<1>2. CASE Passes(h, p)
  <2>1. leader'[p] = leader[p]
    BY <1>2, UpdateEvidence DEF Passes, PairBase
  <2> QED BY <2>1 DEF Turns, Turn
<1> QED BY <1>1, <1>2, TurnsStep

(* While h keeps its turn it stays ahead, and p only changes its Directory *)
(* as its follower.                                                        *)
LEMMA TurnAheadStays ==
  ASSUME PairBase, Eligible = Node, NEW h, NEW p, Peers(h, p),
         TurnAhead(h, p), Turns(h, p)', Timely, [Next]_vars,
         \A n \in Node : Authority(n) /\ \A m \in Node : Honest(n, m)
  PROVE  TurnAhead(h, p)'
<1>1. /\ TypeOK /\ h \in Node /\ p \in Node /\ Peers(p, h) /\ Authority(p)
      /\ None \notin Node /\ h # p
  BY SiteAssumption DEF PairBase, Peers
<1>2. leader[p] # p /\ leader'[p] # p /\ Turns(h, p) /\ Ahead(h, p)
  BY DEF TurnAhead, Turns, Turn
<1>3. Ahead(h, p)'
  BY <1>2, AheadStep
<1>4. suspended'[p].leader = p => Favours(p, h, p)'
  <2> SUFFICES ASSUME suspended'[p].leader = p PROVE Favours(p, h, p)'
    OBVIOUS
  <2>1. suspended[p].leader = p
    BY <1>1, <1>2, StillUnled
  <2>2. leader[p] = None
    BY <1>1, <2>1 DEF Authority, NobodySuspended
  <2>3. directory'[p] = directory[p]
    BY <1>1, <1>2, <2>2, PairDirectory
  <2> QED BY <1>1, <2>1, <2>3, FavoursOne DEF TurnAhead
<1> QED BY <1>3, <1>4 DEF TurnAhead

LEMMA TurnAheadStep ==
  ASSUME PairBase, Eligible = Node, NEW h, NEW p, Peers(h, p),
         TurnAhead(h, p), Timely, [Next]_vars,
         \A n \in Node : Authority(n) /\ \A m \in Node : Honest(n, m)
  PROVE  TurnAhead(h, p)' \/ TurnAhead(p, h)'
<1>1. Turns(h, p) /\ h \in Node /\ p \in Node
  BY DEF TurnAhead, Peers
<1>2. CASE Turns(h, p)'
  BY <1>2, TurnAheadStays
<1>3. CASE Passes(h, p) /\ Turns(p, h)'
  BY <1>1, <1>3, AheadPasses DEF TurnAhead
<1> QED BY <1>1, <1>2, <1>3, TurnsStep

(* Whose turn it is stays ahead, also when the turn passes.                *)
LEMMA PairAheadStep ==
  ASSUME Eligible = Node, NEW t, NEW o, Peers(t, o), PairAhead(t, o),
         [Next]_vars
  PROVE  PairAhead(t, o)'
<1>1. /\ TypeOK /\ PairBase /\ Timely
      /\ \A n \in Node : Authority(n) /\ \A m \in Node : Honest(n, m)
      /\ t \in Node /\ o \in Node /\ Peers(o, t)
  BY DEF PairAhead, PairBase, Peers
<1>2. PairBase'
  BY <1>1, PairBaseStep
<1>3. Timely'
  BY <1>1, TimelyStep DEF Honest
<1>4. \A n \in Node : Authority(n)' /\ \A m \in Node : Honest(n, m)'
  BY <1>1, AuthorityStep, HonestStep
<1>5. TurnAhead(t, o) \/ TurnAhead(o, t) => TurnAhead(t, o)' \/ TurnAhead(o, t)'
  BY <1>1, TurnAheadStep
<1>6. NeverLed(t, o) => NeverLed(t, o)'
  <2> SUFFICES ASSUME NeverLed(t, o) PROVE NeverLed(t, o)'
    OBVIOUS
  <2>1. Leaderless(t, o)'
    BY <1>1, LeaderlessStep DEF NeverLed
  <2>2. suspended'[t].leader # t /\ suspended'[o].leader # o
    BY <1>1, StillUnled DEF NeverLed, Leaderless
  <2> QED BY <2>1, <2>2 DEF NeverLed
<1> QED BY <1>2, <1>3, <1>4, <1>5, <1>6 DEF PairAhead

(* Of a fixed pair either nothing is late or nothing restarts: a heartbeat *)
(* cannot outlast the term it carries.                                     *)
TimelyPair ==
  /\ FixedPair
  /\ \A s \in Setup : s.budget.slow = {} \/ s.budget.restarts = 0

LEMMA PairAheadInit ==
  ASSUME TimelyPair, Init, NEW t, NEW o, Peers(t, o)
  PROVE  PairAhead(t, o)
<1>1. /\ PairBase /\ PairOrder(t, o) /\ t \in Node /\ o \in Node /\ TypeOK
      /\ Peers(o, t) /\ None \notin Node
  BY PairBaseInit, TurnsInit, LeaderlessInit, SiteAssumption
     DEF TimelyPair, PairOrder, PairBase, Peers
<1>2. \A n \in Node : Authority(n) /\ \A m \in Node : Honest(n, m)
  BY HonestInit
<1>3. Timely
  <2>1. budget.slow = {} \/ budget.restarts = 0
    BY DEF Init, TimelyPair
  <2>2. /\ up = Node /\ \A n \in Node : term[n] = 0
        /\ \A m, n \in Node : sent[m][n] = NoHeartbeat
    BY DEF Init
  <2>3. NoHeartbeat.term = 0 /\ 0 <= 0
    BY DEF NoHeartbeat
  <2>4. \A m, n \in Node : sent[m][n].term <= term[m]
    BY <2>2, <2>3
  <2> QED BY <2>1, <2>2, <2>4 DEF Timely
<1>4. ASSUME NEW x, NEW y, Peers(x, y) PROVE Ahead(x, y)
  <2>1. x \in Node /\ y \in Node
    BY <1>4 DEF Peers
  <2>2. /\ slots[x][y] = Vacant /\ slots[y][x] = Vacant /\ fresh = {}
        /\ sent[y][x] = NoHeartbeat /\ term[x] = 0 /\ term[y] = 0
    BY <2>1 DEF Init
  <2>3. ~SlotVotes(x, y, x) /\ ~SlotVotes(y, x, x) /\ ~SentVotes(y, x, x)
    BY <1>1, <2>1, <2>2
       DEF SlotVotes, SentVotes, Vote, Vacant, NoHeartbeat, NoDigest
  <2> QED BY <2>2, <2>3 DEF Ahead, Digested, Vacant
<1>5. suspended[t].leader # t /\ suspended[o].leader # o
  BY <1>1 DEF Init, NobodySuspended
<1>6. TurnAhead(t, o) \/ TurnAhead(o, t) \/ NeverLed(t, o)
  BY <1>1, <1>4, <1>5 DEF TurnAhead, NeverLed, PairOrder
<1> QED BY <1>1, <1>2, <1>3, <1>6 DEF PairAhead

(* What is observed is no newer than every candidate's term.               *)
LEMMA ObservesNoMore ==
  ASSUME TypeOK, NEW n \in Node, NEW b, term[n] <= b,
         \A m \in Candidates(n) \ {n} : slots[n][m].term <= b
  PROVE  ObservedTerm(n) <= b
<1> DEFINE Heard == {slots[n][k].term : k \in {c \in Candidates(n) \ {n} :
                                                 slots[n][c].admitted}}
<1>1. term[n] \in Term /\ \A k \in Node : slots[n][k] \in Slot
  BY DEF TypeOK
<1>2. Heard \cup {term[n]} \in SUBSET Term
  BY <1>1, CandidatesAreNodes DEF Slot
<1>3. PICK t \in Heard \cup {term[n]} : \A u \in Heard \cup {term[n]} : u <= t
  BY <1>2, LargestTerm
<1>4. ObservedTerm(n) \in Heard \cup {term[n]}
  BY <1>3 DEF ObservedTerm
<1> QED BY <1>4

(* The Leader of a pair is never behind its follower, and no gap costs it  *)
(* a term.                                                                 *)
LEMMA PairAheadLeads ==
  ASSUME Eligible = Node, NEW t, NEW o, Peers(t, o), PairAhead(t, o)
  PROVE  LeaderAhead
<1>1. t \in Node /\ o \in Node /\ Node = {t, o} /\ TypeOK /\ None \notin Node
  BY SiteAssumption DEF Peers, PairAhead, PairBase
<1>2. SUFFICES ASSUME NEW n \in Node, leader[n] # None, LocalLeader(leader[n])
               PROVE  term[n] <= term[leader[n]]
  BY DEF LeaderAhead
<1>3. leader[n] \in Node /\ leader[leader[n]] = leader[n]
  BY <1>1, <1>2 DEF LocalLeader, TypeOK
<1>4. CASE leader[n] = n
  BY <1>1, <1>4, TermsAreNumbers
<1>5. CASE leader[n] # n
  BY <1>1, <1>2, <1>3, <1>5
     DEF PairAhead, TurnAhead, NeverLed, Leaderless, Turns, Turn, Ahead, LastLed
<1> QED BY <1>4, <1>5

LEMMA PairAheadResumes ==
  ASSUME Eligible = Node, NEW t, NEW o, Peers(t, o), PairAhead(t, o),
         [Next]_vars, NEW n \in Node, LeadsAgain(n)
  PROVE  ObservedTerm(n) <= LastLed(n).term
<1>1. /\ t \in Node /\ o \in Node /\ t # o /\ Node = {t, o} /\ TypeOK
      /\ None \notin Node /\ Authority(n) /\ Peers(o, t) /\ PairBase
      /\ LastLed(n).leader = n /\ leader'[n] = n
  BY SiteAssumption DEF Peers, PairAhead, PairBase, LeadsAgain
<1>2. LastLed(n).term = term[n]
  BY <1>1 DEF Authority, LastLed
<1>3. ASSUME NEW h, NEW p, Peers(h, p), TurnAhead(h, p)
      PROVE  n = h /\ slots[n][p].term <= term[n]
  <2>1. leader'[p] # p
    BY <1>1, <1>3, OtherUnled DEF TurnAhead
  <2>2. n = h
    BY <1>1, <1>3, <2>1 DEF Peers
  <2> QED BY <1>1, <1>3, <2>2 DEF TurnAhead, Ahead
<1>4. PICK m \in Node : Node = {n, m} /\ slots[n][m].term <= term[n]
  <2>1. TurnAhead(t, o) \/ TurnAhead(o, t)
    <3>1. ~NeverLed(t, o)
      BY <1>1 DEF NeverLed, Leaderless, LastLed
    <3> QED BY <3>1 DEF PairAhead
  <2> QED BY <1>1, <1>3, <2>1
<1>5. Candidates(n) \subseteq Node
  BY <1>1, CandidatesAreNodes
<1>6. term[n] <= term[n]
  BY <1>1, TermsAreNumbers
<1>7. ObservedTerm(n) <= term[n]
  <2>1. \A k \in Candidates(n) \ {n} : slots[n][k].term <= term[n]
    BY <1>4, <1>5
  <2> QED BY <1>1, <1>6, <2>1, ObservesNoMore
<1> QED BY <1>2, <1>7

(* A node whose coordinator has not run since it started hears nothing.    *)
LEMMA NotStartedHearsNothing ==
  ASSUME TypeOK, [Next]_vars, NEW n \in Node, NEW m \in Node,
         view[n] = NoView, sent[m][n] = NoHeartbeat
  PROVE  SlotStays(n, m) /\ sent'[m][n] = NoHeartbeat
<1>1. CASE Send(m)
  <2> DEFINE to == {k \in Addressees(m) : Hears(k, m)}
  <2>1. PICK lost \in SUBSET (to \cap Links(m, budget.lossy)) :
          \E late \in SUBSET ((to \cap Links(m, budget.slow)) \ lost) :
          \E now \in {to \ (lost \cup late)} : Delivered(m, now, late)
    BY <1>1 DEF Send, Delivered
  <2>2. n \notin to
    BY DEF Hears, Started
  <2> HIDE DEF to
  <2>3. PICK now, late : Delivered(m, now, late) /\ n \notin now /\ n \notin late
    BY <2>1, <2>2
  <2>4. slots'[n] = slots[n] /\ sent'[m][n] = NoHeartbeat
    BY <2>3 DEF Delivered, TypeOK
  <2> QED BY <2>4 DEF SlotStays
<1>2. CASE ~Send(m)
  BY <1>2, SlotSteps
<1> QED BY <1>1, <1>2

(* Where only one node may lead, every term is at most the first it can    *)
(* lead with, and it leads with no other.                                  *)
SoleTerms(n) ==
  /\ term[n] <= NextRoleTerm(1)
  /\ \A m \in Node : /\ slots[n][m].term <= NextRoleTerm(1)
                     /\ sent[m][n].term <= NextRoleTerm(1)
  /\ term[n] = 0 => /\ view[n] = NoView
                    /\ \A m \in Node : /\ slots[n][m] = Vacant
                                       /\ sent[m][n] = NoHeartbeat

SoleLeader(n) ==
  n \in Eligible =>
    /\ LastLed(n).leader \in {None, n}
    /\ LastLed(n).leader = n => term[n] = NextRoleTerm(1)
    /\ LastLed(n).leader = None => term[n] <= 1

SolePair ==
  /\ TypeOK /\ PairConfigured /\ LeadersEligible
  /\ \A n \in Node : /\ Authority(n) /\ \A m \in Node : Honest(n, m)
                     /\ SoleTerms(n) /\ SoleLeader(n)

(* Who runs without having heard anything gets no quorum.                  *)
LEMMA FirstUpdate ==
  ASSUME TypeOK, PairConfigured, Cardinality(Node) = 2, NEW n \in Node,
         Update(n), SoleTerms(n), term[n] = 0
  PROVE  leader'[n] = None /\ term'[n] = 1
<1>1. Live(n) = {} /\ Larger(0, 1) = 1
  <2>1. Live(n) \subseteq Node
    BY ReadyMembers
  <2>2. \A m \in Node : slots[n][m].ttl = 0
    BY DEF SoleTerms, Vacant
  <2>3. ~(0 > 0)
    OBVIOUS
  <2>4. Live(n) = {}
    BY <2>1, <2>2, <2>3 DEF Live
  <2> QED BY <2>4 DEF Larger
<1>2. Ready(n) /\ Expected(n) = 2 /\ MultiNode(n)
  BY DEF PairConfigured, Ready, Members, Expected, MultiNode
<1>3. \A v : ~HasQuorum(n, v)
  <2>1. Cardinality(Live(n)) = 0
    BY <1>1, FS_EmptySet
  <2> QED BY <1>2, <2>1 DEF HasQuorum, QuorumAvailable, StrictMajority
<1>4. KeepProbing(n) \/ \E v : LoseQuorum(n, v)
  <2>1. CASE Elect(n)
    <3>1. PICK w \in Winners(n) :
          \/ LoseQuorum(n, ViewOf(n, w)) \/ FindNoWinner(n, ViewOf(n, w))
          \/ RefuseTerm(n, ViewOf(n, w)) \/ LeadOrFollow(n, ViewOf(n, w))
      BY <2>1 DEF Elect
    <3> QED BY <1>3, <3>1 DEF FindNoWinner, RefuseTerm, LeadOrFollow
  <2> QED BY <2>1 DEF Update
<1> QED BY <1>1, <1>4, LeaderlessValues

(* Terms stay below the bound.                                             *)
LEMMA SoleTermsStep ==
  ASSUME SolePair, Cardinality(Node) = 2, NEW e, Eligible \subseteq {e},
         [Next]_vars, NEW n \in Node,
         n \in Eligible => term'[n] <= NextRoleTerm(1)
  PROVE  SoleTerms(n)'
<1>1. /\ TypeOK /\ PairConfigured /\ LeadersEligible /\ Authority(n)
      /\ SoleTerms(n) /\ NextRoleTerm(1) \in Nat /\ NextRoleTerm(1) >= 1
      /\ \A m \in Node : Honest(n, m) /\ term[m] <= NextRoleTerm(1)
      /\ n # None
  BY SiteAssumption, TermLimitAssumption
     DEF SolePair, SoleTerms, NextRoleTerm
<1>2. /\ term[n] \in Nat /\ term'[n] \in Nat /\ Larger(term[n], 1) \in Nat
      /\ \A m \in Node : slots[n][m].term \in Nat /\ sent[m][n].term \in Nat
  <2>1. TypeOK'
    BY <1>1, NextType
  <2>2. term'[n] \in Nat
    BY <2>1, TermLimitAssumption DEF TypeOK, Term
  <2> QED BY <1>1, <2>2, TermsAreNumbers DEF Larger
<1>3. term'[n] <= NextRoleTerm(1)
  <2>1. CASE n \notin Eligible /\ Update(n)
    <3>1. leader'[n] # n
      BY <1>1, <2>1, LeadersEligibleStep DEF LeadersEligible
    <3>2. CASE term'[n] \in {term[n], Larger(term[n], 1)}
      <4> HIDE DEF NextRoleTerm
      <4> QED BY <1>1, <1>2, <3>2 DEF Larger
    <3>3. CASE \E w \in Live(n) : term'[n] = slots[n][w].term
      <4>1. Live(n) \subseteq Node
        BY <1>1, ReadyMembers
      <4> QED BY <1>1, <3>3, <4>1 DEF SoleTerms
    <3> QED BY <1>1, <2>1, <3>1, <3>2, <3>3, UpdateTerm
  <2>2. CASE PowerOff(n)
    <3> HIDE DEF NextRoleTerm
    <3> QED BY <1>1, <2>2, PowerOffClears
  <2> QED BY <1>1, <2>1, <2>2, OwnSteps
<1>4. ASSUME NEW m \in Node
      PROVE  /\ slots'[n][m].term <= NextRoleTerm(1)
             /\ sent'[m][n].term <= NextRoleTerm(1)
  <2>1. /\ \/ SlotStays(n, m)
           \/ SlotTakes(n, m, Heartbeat(m, n))
           \/ SlotTakes(n, m, sent[m][n])
        /\ sent'[m][n] \in {sent[m][n], NoHeartbeat, Heartbeat(m, n)}
    BY <1>1, SlotSteps DEF Honest
  <2>2. /\ Heartbeat(m, n).term = term[m] /\ NoHeartbeat.term = 0
        /\ Vacant.term = 0 /\ 0 <= NextRoleTerm(1)
    <3> HIDE DEF NextRoleTerm
    <3> QED BY <1>1 DEF Heartbeat, NoHeartbeat, Vacant
  <2>3. term[m] <= NextRoleTerm(1) /\ sent[m][n].term <= NextRoleTerm(1)
        /\ slots[n][m].term <= NextRoleTerm(1)
    BY <1>1 DEF SoleTerms
  <2>4. sent'[m][n].term <= NextRoleTerm(1)
    BY <2>1, <2>2, <2>3
  <2>5. ASSUME NEW x, SlotTakes(n, m, x), x.term <= NextRoleTerm(1)
        PROVE  slots'[n][m].term <= NextRoleTerm(1)
    BY <2>3, <2>5, SlotAfterValues DEF SlotTakes
  <2>6. SlotStays(n, m) => slots'[n][m].term <= NextRoleTerm(1)
    BY <1>1, <2>2, <2>3, StaysTerm
  <2> QED BY <2>1, <2>2, <2>3, <2>4, <2>5, <2>6
<1>5. ASSUME term'[n] = 0
      PROVE  /\ view'[n] = NoView
             /\ \A m \in Node : slots'[n][m] = Vacant /\ sent'[m][n] = NoHeartbeat
  <2>1. ~Update(n)
    <3>1. CASE Update(n) /\ term[n] = 0
      BY <1>1, <1>5, <3>1, FirstUpdate
    <3>2. CASE Update(n) /\ term[n] # 0
      BY <1>1, <1>2, <1>5, <3>2, UpdateRaisesTerm
    <3> QED BY <3>1, <3>2
  <2>2. CASE PowerOff(n)
    BY <1>1, <2>2, PowerOffClears
  <2>3. CASE term'[n] = term[n] /\ view'[n] = view[n]
    <3>1. /\ view[n] = NoView
          /\ \A m \in Node : slots[n][m] = Vacant /\ sent[m][n] = NoHeartbeat
      BY <1>1, <1>5, <2>3 DEF SoleTerms
    <3>2. \A m \in Node : SlotStays(n, m) /\ sent'[m][n] = NoHeartbeat
      BY <1>1, <3>1, NotStartedHearsNothing
    <3> QED BY <2>3, <3>1, <3>2, StaysVacant
  <2> QED BY <1>1, <2>1, <2>2, <2>3, OwnSteps
<1> QED BY <1>3, <1>4, <1>5 DEF SoleTerms

(* And only a sole candidate leads, always with the same term.             *)
LEMMA SoleLeaderStep ==
  ASSUME SolePair, Cardinality(Node) = 2, [Next]_vars, NEW n \in Node,
         Eligible \subseteq {n}
  PROVE  SoleLeader(n)' /\ (n \in Eligible => term'[n] <= NextRoleTerm(1))
<1> SUFFICES ASSUME n \in Eligible
             PROVE  SoleLeader(n)' /\ term'[n] <= NextRoleTerm(1)
  BY DEF SoleLeader
<1>1. /\ TypeOK /\ PairConfigured /\ Authority(n) /\ SoleTerms(n)
      /\ SoleLeader(n) /\ LeadersEligible
      /\ NextRoleTerm(1) \in Nat /\ NextRoleTerm(1) >= 1
      /\ n # None /\ Eligible = {n} /\ term[n] \in Nat
      /\ \A m \in Node : Honest(n, m)
  <2>1. /\ TypeOK /\ PairConfigured /\ Authority(n) /\ SoleTerms(n)
        /\ SoleLeader(n) /\ LeadersEligible /\ \A m \in Node : Honest(n, m)
    BY DEF SolePair
  <2>2. NextRoleTerm(1) \in Nat /\ NextRoleTerm(1) >= 1
    BY TermLimitAssumption DEF NextRoleTerm
  <2>3. n # None /\ Eligible = {n}
    BY SiteAssumption
  <2> QED BY <2>1, <2>2, <2>3, TermsAreNumbers
<1>2. LastLed(n).leader \in {None, n} /\ leader[n] \in {None, n}
  BY <1>1 DEF SoleLeader, LastLed
<1>3. CASE Update(n)
  <2>1. Ready(n) /\ Members(n) = Node
    BY <1>1 DEF PairConfigured, Ready, Members
  <2>2. ~Probing(n)
    <3>1. Eligible \cap Members(n) = {n}
      BY <1>1, <2>1
    <3>2. Cardinality({n}) = 1
      BY FS_Singleton
    <3> QED BY <3>1, <3>2 DEF Probing, ProbeRequired
  <2>3. PICK w \in Winners(n) :
          \/ LoseQuorum(n, ViewOf(n, w)) \/ FindNoWinner(n, ViewOf(n, w))
          \/ RefuseTerm(n, ViewOf(n, w)) \/ LeadOrFollow(n, ViewOf(n, w))
    BY <1>3, <2>2 DEF Update, Elect, KeepProbing
  <2>4. Candidates(n) \subseteq {n}
    BY <1>1 DEF Candidates, EligibleLive
  <2>5. w \in {None, n} /\ ViewOf(n, w).digest.winner = w
    BY <1>1, <2>4, WinnersAreCandidates DEF ViewOf
  <2>6. CASE leader'[n] = n
    <3>1. ObservedTerm(n) = term[n]
      <4>1. ObservedTerm(n) <= term[n] /\ ObservedTerm(n) >= term[n]
        BY <1>1, <2>4, ObservesNoMore, ObservedTermGrows
      <4> QED BY <1>1, <4>1, TermsAreNumbers
    <3>2. term'[n] = LocalTerm(term[n], leader[n], suspended[n].term,
                               suspended[n].leader, n, term[n])
      BY <1>1, <1>3, <2>6, <3>1, SelfElection
    <3>3. term[n] # 0
      BY <1>1, <1>3, <2>6, FirstUpdate DEF SolePair
    <3>4. term'[n] = NextRoleTerm(1)
      <4>1. CASE leader[n] = n
        <5>1. term[n] = NextRoleTerm(1)
          BY <1>1, <4>1 DEF SoleLeader, LastLed
        <5> HIDE DEF NextRoleTerm
        <5> QED BY <1>1, <3>2, <4>1, <5>1 DEF LocalTerm, RoleIdEqual, Larger
      <4>2. CASE leader[n] = None /\ suspended[n].leader = n
        <5>1. term[n] = NextRoleTerm(1) /\ suspended[n].term = term[n]
          BY <1>1, <4>2 DEF SoleLeader, LastLed, Authority
        <5> HIDE DEF NextRoleTerm
        <5> QED BY <1>1, <3>2, <4>2, <5>1 DEF LocalTerm, RoleIdEqual, Larger
      <4>3. CASE leader[n] = None /\ suspended[n].leader = None
        <5>1. term[n] = 1
          BY <1>1, <3>3, <4>3 DEF SoleLeader, LastLed
        <5> HIDE DEF NextRoleTerm
        <5> QED BY <1>1, <3>2, <4>3, <5>1 DEF LocalTerm, RoleIdEqual
      <4> QED BY <1>2, <4>1, <4>2, <4>3 DEF LastLed
    <3> QED BY <1>1, <2>6, <3>4 DEF SoleLeader, LastLed
  <2>7. CASE leader'[n] # n
    <3>1. /\ leader'[n] = None
          /\ suspended'[n] = Suspend(n)
      <4>1. ~LeadOrFollow(n, ViewOf(n, w))
        BY <1>1, <2>5, <2>7, LeadOrFollowValues
      <4>2. \A v : LoseQuorum(n, v) \/ FindNoWinner(n, v) \/ RefuseTerm(n, v)
                     => leader'[n] = None
        BY <1>1, LeaderlessValues
      <4>3. \A v : LoseQuorum(n, v) \/ FindNoWinner(n, v) \/ RefuseTerm(n, v)
                     => suspended'[n] = Suspend(n)
        <5>1. TypeOK
          BY <1>1
        <5>2. \A v, x : Concludes(n, v, x) => suspended'[n] = x
          BY <5>1, ConcludesValues
        <5> QED BY <5>2 DEF LoseQuorum, FindNoWinner, RefuseTerm
      <4> QED BY <2>3, <4>1, <4>2, <4>3
    <3>2. term'[n] \in {term[n], Larger(term[n], 1)}
      <4>1. None \notin Live(n)
        BY <1>1, ReadyMembers, SiteAssumption
      <4> QED BY <1>1, <1>3, <2>7, <3>1, <4>1, UpdateTerm
    <3>3. LastLed(n)'.leader = LastLed(n).leader
      BY <1>2, <3>1 DEF LastLed, Suspend
    <3>4. CASE LastLed(n).leader = n
      <4> HIDE DEF NextRoleTerm
      <4> QED BY <1>1, <3>2, <3>3, <3>4 DEF SoleLeader, Larger
    <3>5. CASE LastLed(n).leader = None
      <4> HIDE DEF NextRoleTerm
      <4> QED BY <1>1, <3>2, <3>3, <3>5 DEF SoleLeader, Larger
    <3> QED BY <1>2, <3>4, <3>5
  <2> QED BY <2>6, <2>7
<1>4. CASE PowerOff(n)
  <2> HIDE DEF NextRoleTerm
  <2> QED BY <1>1, <1>4, PowerOffClears
          DEF SoleLeader, LastLed, NobodySuspended
<1>5. CASE leader'[n] = leader[n] /\ term'[n] = term[n]
           /\ suspended'[n] = suspended[n]
  BY <1>1, <1>5 DEF SoleLeader, LastLed, SoleTerms
<1> QED BY <1>1, <1>3, <1>4, <1>5, OwnSteps

LEMMA SolePairStep ==
  ASSUME SolePair, Cardinality(Node) = 2, NEW e, Eligible \subseteq {e},
         [Next]_vars
  PROVE  SolePair'
<1>1. TypeOK /\ PairConfigured /\ LeadersEligible /\ Eligible \subseteq Node
  BY SiteAssumption DEF SolePair
<1>2. TypeOK' /\ PairConfigured' /\ LeadersEligible'
  BY <1>1, NextType, PairConfiguredStep, LeadersEligibleStep
<1>3. ASSUME NEW n \in Node
      PROVE  /\ Authority(n)' /\ SoleTerms(n)' /\ SoleLeader(n)'
             /\ \A m \in Node : Honest(n, m)'
  <2>1. SoleLeader(n)' /\ (n \in Eligible => term'[n] <= NextRoleTerm(1))
    <3>1. CASE n \in Eligible
      BY <3>1, SoleLeaderStep
    <3>2. CASE n \notin Eligible
      BY <3>2 DEF SoleLeader
    <3> QED BY <3>1, <3>2
  <2>2. SoleTerms(n)'
    BY <2>1, SoleTermsStep
  <2>3. Authority(n)' /\ \A m \in Node : Honest(n, m)'
    BY <1>1, AuthorityStep, HonestStep DEF SolePair
  <2> QED BY <2>1, <2>2, <2>3
<1> QED BY <1>2, <1>3 DEF SolePair

LEMMA SolePairInit ==
  ASSUME FixedPair, Init
  PROVE  SolePair
<1>1. /\ TypeOK /\ PairConfigured /\ NextRoleTerm(1) \in Nat
      /\ NextRoleTerm(1) >= 1
  BY PairBaseInit, TermLimitAssumption DEF PairBase, NextRoleTerm
<1>2. LeadersEligible
  BY SiteAssumption DEF Init, LeadersEligible
<1> HIDE DEF NextRoleTerm
<1>3. ASSUME NEW n \in Node
      PROVE  /\ Authority(n) /\ SoleTerms(n) /\ SoleLeader(n)
             /\ \A m \in Node : Honest(n, m)
  <2>1. /\ term[n] = 0 /\ view[n] = NoView /\ leader[n] = None
        /\ suspended[n].leader = None
        /\ \A m \in Node : slots[n][m] = Vacant /\ sent[m][n] = NoHeartbeat
    BY DEF Init, NobodySuspended
  <2>2. 0 <= NextRoleTerm(1) /\ 0 <= 1 /\ Vacant.term = 0 /\ NoHeartbeat.term = 0
    BY <1>1 DEF Vacant, NoHeartbeat
  <2>3. n # None
    BY SiteAssumption
  <2>4. SoleTerms(n)
    BY <2>1, <2>2 DEF SoleTerms
  <2>5. SoleLeader(n)
    BY <2>1, <2>2, <2>3 DEF SoleLeader, LastLed
  <2> QED BY <2>4, <2>5, HonestInit
<1> QED BY <1>1, <1>2, <1>3 DEF SolePair

LEMMA SolePairLeads ==
  ASSUME SolePair
  PROVE  LeaderAhead
<1> SUFFICES ASSUME NEW n \in Node, leader[n] # None, LocalLeader(leader[n])
             PROVE  term[n] <= term[leader[n]]
  BY DEF LeaderAhead
<1>1. leader[n] \in Node /\ leader[leader[n]] = leader[n]
  BY DEF SolePair, TypeOK, LocalLeader
<1>2. leader[n] \in Eligible /\ leader[n] # None
  BY <1>1 DEF SolePair, LeadersEligible
<1>3. term[leader[n]] = NextRoleTerm(1)
  BY <1>1, <1>2 DEF SolePair, SoleLeader, LastLed
<1> QED BY <1>1, <1>3 DEF SolePair, SoleTerms

LEMMA SolePairResumes ==
  ASSUME SolePair, NEW e, Eligible \subseteq {e}, [Next]_vars,
         NEW n \in Node, LeadsAgain(n)
  PROVE  ObservedTerm(n) <= LastLed(n).term
<1>1. /\ TypeOK /\ LeadersEligible' /\ Authority(n)
  BY LeadersEligibleStep DEF SolePair
<1>2. n \in Eligible /\ LastLed(n).leader = n /\ n # None
  BY <1>1, SiteAssumption DEF LeadsAgain, LeadersEligible
<1>3. LastLed(n).term = term[n]
  BY <1>1, <1>2 DEF Authority, LastLed
<1>4. Candidates(n) \subseteq {n}
  BY <1>2 DEF Candidates, EligibleLive
<1>5. term[n] <= term[n]
  BY <1>1, TermsAreNumbers
<1> QED BY <1>1, <1>3, <1>4, <1>5, ObservesNoMore

(* One of two nodes that may not both lead may.                            *)
LEMMA SoleCandidate ==
  ASSUME Cardinality(Node) = 2, Eligible # Node
  PROVE  \E e : Eligible \subseteq {e}
<1>1. PICK t, o : Peers(t, o)
  BY PairNodes
<1>2. Eligible \subseteq {t, o} /\ ~(t \in Eligible /\ o \in Eligible)
  BY <1>1, SiteAssumption DEF Peers
<1>3. Eligible \subseteq {t} \/ Eligible \subseteq {o}
  BY <1>2
<1> QED BY <1>3

(* In a pair the Leader is never behind its follower, so neither a loss,   *)
(* nor a restart, nor a delay that outlasts no restart, makes a follower   *)
(* refuse it.                                                              *)
THEOREM LeaderNeverBehindInPair ==
  ASSUME TimelyPair
  PROVE  Spec => []LeaderAhead
<1>1. FixedPair /\ Cardinality(Node) = 2
  BY DEF TimelyPair, FixedPair
<1>2. PICK t, o : Peers(t, o)
  BY <1>1, PairNodes
<1>3. CASE Eligible = Node
  <2>1. Init => PairAhead(t, o)
    BY <1>2, PairAheadInit
  <2>2. PairAhead(t, o) /\ [Next]_vars => PairAhead(t, o)'
    BY <1>2, <1>3, PairAheadStep
  <2>3. PairAhead(t, o) => LeaderAhead
    BY <1>2, <1>3, PairAheadLeads
  <2> QED BY <2>1, <2>2, <2>3, PTL DEF Spec
<1>4. CASE Eligible # Node
  <2>1. Init => SolePair
    BY <1>1, SolePairInit
  <2>2. SolePair /\ [Next]_vars => SolePair'
    BY <1>1, <1>4, SoleCandidate, SolePairStep
  <2>3. SolePair => LeaderAhead
    BY SolePairLeads
  <2> QED BY <2>1, <2>2, <2>3, PTL DEF Spec
<1> QED BY <1>3, <1>4

(* In a pair a Leader that loses its quorum and regains it leads on with   *)
(* the suspended term: its follower has no newer one to report.            *)
THEOREM PairResumesTerm ==
  ASSUME TimelyPair
  PROVE  Spec => ResumesTerm
<1> DEFINE Unopposed(n) == LeadsAgain(n) => ObservedTerm(n) <= LastLed(n).term
           Resumes(n) == LeadsAgain(n) /\ ObservedTerm(n) <= LastLed(n).term
                           => term'[n] = LastLed(n).term
           Again(n) == LeadsAgain(n) => term'[n] = LastLed(n).term
<1>1. FixedPair /\ Cardinality(Node) = 2
  BY DEF TimelyPair, FixedPair
<1>2. PICK t, o : Peers(t, o)
  BY <1>1, PairNodes
<1>3. Spec => [][\A n \in Node : Unopposed(n)]_vars
  <2>1. CASE Eligible = Node
    <3>1. Init => PairAhead(t, o)
      BY <1>2, PairAheadInit
    <3>2. PairAhead(t, o) /\ [Next]_vars => PairAhead(t, o)'
      BY <1>2, <2>1, PairAheadStep
    <3>3. PairAhead(t, o) /\ [Next]_vars => \A n \in Node : Unopposed(n)
      BY <1>2, <2>1, PairAheadResumes
    <3> HIDE DEF Unopposed
    <3> QED BY <3>1, <3>2, <3>3, PTL DEF Spec
  <2>2. CASE Eligible # Node
    <3>1. Init => SolePair
      BY <1>1, SolePairInit
    <3>2. SolePair /\ [Next]_vars => SolePair'
      BY <1>1, <2>2, SoleCandidate, SolePairStep
    <3>3. SolePair /\ [Next]_vars => \A n \in Node : Unopposed(n)
      BY <1>1, <2>2, SoleCandidate, SolePairResumes
    <3> HIDE DEF Unopposed
    <3> QED BY <3>1, <3>2, <3>3, PTL DEF Spec
  <2> QED BY <2>1, <2>2
<1>4. Spec => [][\A n \in Node : Resumes(n)]_vars
  BY GapsCostNoTerm DEF ResumesUnopposed
<1>5. (\A n \in Node : Unopposed(n)) /\ (\A n \in Node : Resumes(n))
        => \A n \in Node : Again(n)
  OBVIOUS
<1> HIDE DEF Unopposed, Resumes, Again
<1>6. Spec => [][\A n \in Node : Again(n)]_vars
  BY <1>3, <1>4, <1>5, PTL
<1> QED BY <1>6 DEF Again, ResumesTerm

-----------------------------------------------------------------------------
(* An established Leader under roster changes.  The invariant History says *)
(* what a node remembers and what backs each heartbeat it holds; Kept, the *)
(* inductive form of "established", says what every node knows of the     *)
(* others while rosters move on.                                           *)

(* What the coordinator of n keeps when it does not run. *)
CoordinatorKept(n) ==
  /\ leader'[n] = leader[n] /\ term'[n] = term[n] /\ quorum'[n] = quorum[n]
  /\ view'[n] = view[n] /\ views'[n] = views[n]
  /\ suspended'[n] = suspended[n] /\ rosterSeen'[n] = rosterSeen[n]
  /\ probe'[n].stage = probe[n].stage

(* A coordinator changes when it runs and when its node loses power; in    *)
(* between only time wears its lease down.                                 *)
LEMMA CoordinatorSteps ==
  ASSUME TypeOK, [Next]_vars, NEW n \in Node
  PROVE  \/ Update(n) \/ PowerOff(n)
         \/ /\ CoordinatorKept(n)
            /\ \/ lease'[n] = lease[n] /\ (n \in fresh' => n \in fresh)
               \/ Tick /\ lease'[n] = Less(lease[n]) /\ fresh' = {}
<1>1. ASSUME NEW m \in Node, m # n, Update(m)
      PROVE  CoordinatorKept(n) /\ lease'[n] = lease[n]
  <2>1. OthersKeep(m)
    BY <1>1, UpdateOutcome
  <2>2. rosterSeen'[n] = rosterSeen[n]
    BY <1>1 DEF Update, UpdateFrame, TypeOK
  <2> QED BY <1>1, <2>1, <2>2 DEF OthersKeep, CoordinatorKept, TypeOK
<1>2. ASSUME NEW m \in Node, m # n, PowerOff(m)
      PROVE  CoordinatorKept(n) /\ lease'[n] = lease[n]
  BY <1>2 DEF PowerOff, CoordinatorKept, TypeOK
<1>3. ASSUME NEW m \in Node,
             \/ Send(m) \/ PowerOn(m) \/ CommitRoster(m) \/ AdoptRoster(m)
             \/ ProvisionCredentials(m) \/ CommitDirectory(m)
             \/ PullDirectory(m)
      PROVE  UNCHANGED coordinator
  BY <1>3 DEF Send, PowerOn, CommitRoster, AdoptRoster,
              ProvisionCredentials, CommitDirectory, PullDirectory, Change
<1>4. ASSUME NEW m \in Node, NEW k \in Node, ReceiveLate(m, k)
      PROVE  UNCHANGED coordinator
  BY <1>4 DEF ReceiveLate
<1>5. Settle \/ UNCHANGED vars => UNCHANGED coordinator
  BY DEF Settle, vars
<1>6. UNCHANGED coordinator => CoordinatorKept(n) /\ lease'[n] = lease[n]
  BY DEF coordinator, CoordinatorKept
<1>7. Tick => /\ CoordinatorKept(n)
              /\ lease'[n] = Less(lease[n]) /\ fresh' = {}
  <2> SUFFICES ASSUME Tick
               PROVE  /\ CoordinatorKept(n)
                      /\ lease'[n] = Less(lease[n]) /\ fresh' = {}
    OBVIOUS
  <2>1. probe'[n].stage = probe[n].stage
    BY DEF Tick, TypeOK
  <2> QED BY <2>1 DEF Tick, CoordinatorKept
<1>8. \/ Update(n) \/ PowerOff(n)
      \/ CoordinatorKept(n) /\ lease'[n] = lease[n]
      \/ Tick
  BY <1>1, <1>2, <1>3, <1>4, <1>5, <1>6 DEF Next
<1> QED BY <1>7, <1>8, FreshSteps

(* No link loses or delays a heartbeat, now or later. *)
Prompt == budget.lossy = {} /\ budget.slow = {}

LEMMA PromptStays ==
  ASSUME TypeOK, [Next]_vars
  PROVE  /\ Prompt' <=> Prompt
         /\ budget.directories = 0 => budget'.directories = 0
<1>1. budget \in Budget
  BY DEF TypeOK
<1>2. \/ budget' = budget
      \/ \E kind \in {"restarts", "rosters", "directories"} :
           /\ budget[kind] > 0
           /\ budget' = [budget EXCEPT ![kind] = @ - 1]
  <2>1. ASSUME NEW n \in Node,
               \/ Update(n) \/ Send(n) \/ PowerOn(n) \/ AdoptRoster(n)
               \/ ProvisionCredentials(n) \/ PullDirectory(n)
        PROVE  budget' = budget
    BY <2>1 DEF Update, UpdateFrame, Send, PowerOn, AdoptRoster,
                ProvisionCredentials, PullDirectory
  <2>2. ASSUME NEW m \in Node, NEW n \in Node, ReceiveLate(m, n)
        PROVE  budget' = budget
    BY <2>2 DEF ReceiveLate
  <2>3. Tick \/ Settle \/ UNCHANGED vars => budget' = budget
    BY DEF Tick, Settle, vars
  <2>4. ASSUME NEW n \in Node,
               CommitRoster(n) \/ CommitDirectory(n) \/ PowerOff(n)
        PROVE  \E kind \in {"restarts", "rosters", "directories"} :
                 /\ budget[kind] > 0
                 /\ budget' = [budget EXCEPT ![kind] = @ - 1]
    BY <2>4 DEF CommitRoster, CommitDirectory, PowerOff, Change
  <2> QED BY <2>1, <2>2, <2>3, <2>4 DEF Next
<1> QED BY <1>1, <1>2 DEF Budget, Prompt

(* Rosters only get newer, credentials more, and a Directory is never      *)
(* given up.                                                               *)
LEMMA EnvironmentSteps ==
  ASSUME TypeOK, [Next]_vars, NEW n \in Node
  PROVE  /\ config[n] \in Nat /\ config'[n] \in Nat /\ config[n] <= config'[n]
         /\ credentials[n] \subseteq credentials'[n]
         /\ directory[n] # NoFence => directory'[n] # NoFence
<1>1. config[n] \in Nat /\ config[Owner] \in Nat
  BY SiteAssumption DEF TypeOK, AnyRoster
<1>2. ASSUME NEW m \in Node,
             \/ Update(m) \/ Send(m) \/ PowerOff(m) \/ PowerOn(m)
      PROVE  UNCHANGED environment
  BY <1>2 DEF Update, UpdateFrame, Send, PowerOff, PowerOn
<1>3. ASSUME NEW m \in Node, NEW k \in Node, ReceiveLate(m, k)
      PROVE  UNCHANGED environment
  BY <1>3 DEF ReceiveLate
<1>4. Tick \/ Settle \/ UNCHANGED vars => UNCHANGED environment
  BY DEF Tick, Settle, vars
<1>5. UNCHANGED environment =>
        /\ config' = config /\ credentials' = credentials
        /\ directory' = directory
  BY DEF environment
<1>6. ASSUME NEW m \in Node, CommitRoster(m) \/ AdoptRoster(m)
      PROVE  /\ config[n] <= config'[n]
             /\ credentials' = credentials /\ directory' = directory
  <2>1. credentials' = credentials /\ directory' = directory
    BY <1>6 DEF CommitRoster, AdoptRoster
  <2>2. CASE CommitRoster(m)
    <3>1. config' = [config EXCEPT ![m] = config[m] + 1]
      BY <2>2 DEF CommitRoster
    <3>2. config'[n] \in {config[n], config[n] + 1}
      BY <3>1 DEF TypeOK
    <3> QED BY <1>1, <2>1, <3>2
  <2>3. CASE AdoptRoster(m)
    <3>1. config' = [config EXCEPT ![m] = config[Owner]]
          /\ config[m] < config[Owner]
      BY <2>3 DEF AdoptRoster
    <3>2. config'[n] = IF n = m THEN config[Owner] ELSE config[n]
      BY <3>1 DEF TypeOK
    <3> QED BY <1>1, <2>1, <3>1, <3>2
  <2> QED BY <1>6, <2>2, <2>3
<1>7. ASSUME NEW m \in Node, ProvisionCredentials(m)
      PROVE  /\ credentials[n] \subseteq credentials'[n]
             /\ config' = config /\ directory' = directory
  BY <1>7 DEF ProvisionCredentials, TypeOK
<1>8. ASSUME NEW m \in Node, CommitDirectory(m)
      PROVE  /\ directory[n] # NoFence => directory'[n] # NoFence
             /\ config' = config /\ credentials' = credentials
  <2>1. \A f \in Fence : f # NoFence
    BY SiteAssumption DEF NoFence
  <2> QED BY <1>8, <2>1 DEF CommitDirectory, TypeOK
<1>9. ASSUME NEW m \in Node, PullDirectory(m)
      PROVE  /\ directory[n] # NoFence => directory'[n] # NoFence
             /\ config' = config /\ credentials' = credentials
  BY <1>9 DEF PullDirectory, TypeOK
<1>10. config'[n] \in Nat
  <2>1. TypeOK'
    BY NextType
  <2> QED BY <2>1, SiteAssumption DEF TypeOK, AnyRoster
<1> QED BY <1>1, <1>2, <1>3, <1>4, <1>5, <1>6, <1>7, <1>8, <1>9, <1>10
        DEF Next

(* Where no heartbeat is delayed, what n knows of m changes with m's own   *)
(* heartbeats and with time, or it is dropped.                             *)
LEMMA PromptSteps ==
  ASSUME TypeOK, [Next]_vars, Prompt, NEW n \in Node, NEW m \in Node,
         sent[m][n] = NoHeartbeat
  PROVE  /\ sent'[m][n] = NoHeartbeat
         /\ \/ SlotStays(n, m) /\ endpoints'[n][m] = endpoints[n][m]
            \/ slots'[n][m] = Vacant /\ endpoints'[n][m] = Unknown
            \/ /\ Send(m) /\ Keyed(n, m) /\ config[m] # 0
               /\ slots'[n][m] = SlotAfter(m, n, Heartbeat(m, n))
               /\ endpoints'[n][m] = EndpointAfter(m, n, Heartbeat(m, n))
<1> DEFINE Stays == /\ SlotStays(n, m)
                    /\ endpoints'[n][m] = endpoints[n][m]
<1>1. /\ \/ SlotStays(n, m)
         \/ Send(m) /\ SlotTakes(n, m, Heartbeat(m, n)) /\ term[m] # 0
      /\ sent'[m][n] = NoHeartbeat
  BY SlotSteps DEF Prompt
<1>2. ASSUME NEW k \in Node, Send(k), k # m PROVE Stays
  <2>1. PICK now, late : Delivered(k, now, late)
    BY <1>2, SendDelivers
  <2>2. /\ slots'[n] = IF n \in now
                       THEN [slots[n] EXCEPT
                               ![k] = SlotAfter(k, n, Heartbeat(k, n))]
                       ELSE slots[n]
        /\ endpoints'[n] = IF n \in now
                           THEN [endpoints[n] EXCEPT
                                  ![k] = EndpointAfter(k, n, Heartbeat(k, n))]
                           ELSE endpoints[n]
    BY <2>1 DEF Delivered
  <2>3. slots'[n][m] = slots[n][m] /\ endpoints'[n][m] = endpoints[n][m]
    BY <1>2, <2>2 DEF TypeOK
  <2> QED BY <2>3 DEF SlotStays
<1>3. ASSUME Send(m)
      PROVE  \/ Stays
             \/ /\ Keyed(n, m) /\ config[m] # 0
                /\ slots'[n][m] = SlotAfter(m, n, Heartbeat(m, n))
                /\ endpoints'[n][m] = EndpointAfter(m, n, Heartbeat(m, n))
  <2> DEFINE to == {k \in Addressees(m) : Hears(k, m)}
  <2>1. PICK now, late : now \subseteq to /\ Delivered(m, now, late)
    <3>1. PICK lost \in SUBSET (to \cap Links(m, budget.lossy)) :
            \E late \in SUBSET ((to \cap Links(m, budget.slow)) \ lost) :
            \E now \in {to \ (lost \cup late)} : Delivered(m, now, late)
      BY <1>3 DEF Send, Delivered
    <3> QED BY <3>1
  <2>2. config[m] # 0
    BY <1>3 DEF Send, CanSend
  <2>3. n \in now => Keyed(n, m)
    BY <2>1 DEF Addressees, Keyed
  <2>4. /\ slots'[n] = IF n \in now
                       THEN [slots[n] EXCEPT
                               ![m] = SlotAfter(m, n, Heartbeat(m, n))]
                       ELSE slots[n]
        /\ endpoints'[n] = IF n \in now
                           THEN [endpoints[n] EXCEPT
                                  ![m] = EndpointAfter(m, n, Heartbeat(m, n))]
                           ELSE endpoints[n]
    BY <2>1 DEF Delivered
  <2>5. IF n \in now
        THEN /\ slots'[n][m] = SlotAfter(m, n, Heartbeat(m, n))
             /\ endpoints'[n][m] = EndpointAfter(m, n, Heartbeat(m, n))
        ELSE slots'[n][m] = slots[n][m] /\ endpoints'[n][m] = endpoints[n][m]
    BY <2>4 DEF TypeOK
  <2> QED BY <2>2, <2>3, <2>5 DEF SlotStays
<1>4. ASSUME NEW k \in Node, PowerOff(k)
      PROVE  \/ slots'[n][m] = Vacant /\ endpoints'[n][m] = Unknown
             \/ endpoints'[n][m] = endpoints[n][m]
  BY <1>4 DEF PowerOff, TypeOK
<1>5. ASSUME NEW k \in Node,
             \/ Update(k) \/ PowerOn(k) \/ CommitRoster(k) \/ AdoptRoster(k)
             \/ ProvisionCredentials(k) \/ CommitDirectory(k)
             \/ PullDirectory(k)
      PROVE  endpoints' = endpoints
  BY <1>5 DEF Update, UpdateFrame, PowerOn, CommitRoster, AdoptRoster,
              ProvisionCredentials, CommitDirectory, PullDirectory, Change,
              transport
<1>6. Tick \/ Settle \/ UNCHANGED vars => endpoints' = endpoints
  BY DEF Tick, Settle, vars, transport
<1>7. ASSUME NEW j \in Node, NEW k \in Node, ReceiveLate(j, k) PROVE Stays
  <2>1. ~(j = m /\ k = n)
    BY <1>7 DEF ReceiveLate, Underway
  <2> QED BY <1>7, <2>1 DEF ReceiveLate, TypeOK, SlotStays
<1> HIDE DEF Stays
<1>8. CASE Send(m)
  BY <1>1, <1>3, <1>8 DEF Stays
<1>9. CASE ~Send(m)
  BY <1>1, <1>2, <1>4, <1>5, <1>6, <1>7, <1>9 DEF Next, Stays
<1> QED BY <1>8, <1>9

(* A Site of two or three members, in which a lease lasts longer than one  *)
(* interval, and which is complete once it has more than one member.  Two  *)
(* members may hold any Directories at first; three have one in common.    *)
KeptSite ==
  /\ Cardinality(Node) \in {2, 3} /\ LeaseTicks > 1
  /\ \A r, q \in 1..Len(Roster) :
       r <= q /\ Cardinality(Roster[r]) > 1 => Roster[q] = Node
  /\ Cardinality(Node) = 3 =>
       \A s \in Setup :
         /\ s.budget.directories = 0
         /\ \A m, n \in Node : s.directory[m] = s.directory[n]

(* A node remembers the roster it last ran on, and until it has heard more *)
(* its lease is the one it took.                                           *)
Remembered(n) ==
  /\ view[n].digest.roster <= config[n]
  /\ leader[n] # None => suspended[n] = NobodySuspended
  /\ leader[n] # None /\ rosterSeen[n] # 0 => probe[n].stage = "done"
  /\ leader[n] = n /\ rosterSeen[n] # 0 => n \in Eligible /\ term[n] # 0
  /\ n \in fresh =>
       /\ leader[n] = n => lease[n] = LeaseTicks
       /\ leader[n] \notin {None, n} => lease[n] = slots[n][leader[n]].ttl

(* What comes with a digest: the newest wire version, its sender's roster, *)
(* Directory and credentials.                                              *)
Backed(n, m) ==
  LET s == slots[n][m]
      e == endpoints[n][m]
  IN  /\ s.roster # 0 /\ s.digest.roster <= s.roster /\ s.roster <= config[m]
      /\ s.digest.roster <= e.roster
      /\ s.fence # NoFence /\ directory[m] # NoFence /\ Keyed(n, m)
      /\ e.directory /\ (e.fenced \/ e.roster < config[m])
      /\ s.complete /\ s.roster = config[m] => Complete(m)

(* A heartbeat that is kept out of the election has an older term than the *)
(* node's own.                                                             *)
Reported(n, m) ==
  /\ sent[m][n] = NoHeartbeat /\ endpoints[n][m].roster <= config[m]
  /\ slots[n][m] # Vacant /\ ~slots[n][m].admitted =>
       slots[n][m].term < term[n]
  /\ slots[n][m].digest # NoDigest => Backed(n, m)
  /\ Cardinality(Node) = 3 =>
       slots[n][m].fence \in {NoFence, directory[m]}

OneDirectory ==
  Cardinality(Node) = 3 => budget.directories = 0 /\ SameDirectory

History ==
  /\ OneDirectory
  /\ Prompt => \A n \in Node :
                 Remembered(n) /\ \A m \in Node : Reported(n, m)

(* Where there is one Directory, it stays. *)
LEMMA OneDirectoryKept ==
  ASSUME TypeOK, OneDirectory, [Next]_vars
  PROVE  /\ OneDirectory'
         /\ Cardinality(Node) = 3 => directory' = directory
<1> SUFFICES ASSUME Cardinality(Node) = 3
             PROVE  OneDirectory' /\ directory' = directory
  BY DEF OneDirectory
<1>1. budget.directories = 0 /\ SameDirectory /\ budget \in Budget
  BY DEF OneDirectory, TypeOK
<1>2. ASSUME NEW n \in Node, CommitDirectory(n) PROVE FALSE
  BY <1>1, <1>2 DEF CommitDirectory, Change
<1>3. ASSUME NEW n \in Node, PullDirectory(n) PROVE FALSE
  <2>1. PICK source \in DirectorySources(n) :
          directory[source] \notin {NoFence, directory[n]}
    BY <1>3 DEF PullDirectory
  <2>2. source \in Node
    BY <2>1 DEF DirectorySources, BootstrapSources, TypeOK
  <2> QED BY <1>1, <2>1, <2>2 DEF SameDirectory
<1>4. ASSUME NEW n \in Node,
             \/ Update(n) \/ Send(n) \/ PowerOff(n) \/ PowerOn(n)
             \/ CommitRoster(n) \/ AdoptRoster(n) \/ ProvisionCredentials(n)
      PROVE  directory' = directory
  BY <1>4 DEF Update, UpdateFrame, Send, PowerOff, PowerOn, CommitRoster,
              AdoptRoster, ProvisionCredentials, environment
<1>5. ASSUME NEW n \in Node, NEW m \in Node, ReceiveLate(m, n)
      PROVE  directory' = directory
  BY <1>5 DEF ReceiveLate, environment
<1>6. Tick \/ Settle \/ UNCHANGED vars => directory' = directory
  BY DEF Tick, Settle, vars, environment
<1>7. directory' = directory
  BY <1>2, <1>3, <1>4, <1>5, <1>6 DEF Next
<1>8. budget'.directories = 0
  BY <1>1, PromptStays
<1> QED BY <1>1, <1>7, <1>8 DEF OneDirectory, SameDirectory

(* Credentials stay complete while the roster does. *)
LEMMA CompleteKept ==
  ASSUME TypeOK, [Next]_vars, NEW n \in Node, Complete(n)
  PROVE  config'[n] = config[n] => Complete(n)'
<1>1. credentials[n] \subseteq credentials'[n]
  BY EnvironmentSteps
<1> QED BY <1>1 DEF Complete, Ready, Members

(* What a heartbeat says that carries a digest. *)
LEMMA HeartbeatBacks ==
  ASSUME TypeOK, NEW m \in Node, NEW n \in Node
  PROVE  LET h == Heartbeat(m, n)
         IN  /\ h.term = term[m] /\ h.generation = config[m]
             /\ h.wire = Wire(m, n)
             /\ h.wire = 12 =>
                  /\ h.digest = view[m].digest /\ h.fence = directory[m]
                  /\ h.complete = Complete(m) /\ directory[m] # NoFence
             /\ h.wire # 12 =>
                  h.digest = NoDigest /\ h.fence = NoFence /\ ~h.complete
<1> DEFINE h == Heartbeat(m, n)
           c == Wire(m, n) = 12 /\ Complete(m)
           d == IF Wire(m, n) = 12 THEN view[m].digest ELSE NoDigest
           f == IF Wire(m, n) = 12 THEN directory[m] ELSE NoFence
<1>1. Wire(m, n) = 12 => directory[m] # NoFence
  BY DEF Wire
<1>2. h = [NoHeartbeat EXCEPT !.wire = Wire(m, n), !.term = term[m],
             !.generation = config[m], !.digest = d, !.fence = f,
             !.complete = c]
  BY DEF Heartbeat, NoHeartbeat
<1>3. Complete(m) \in BOOLEAN
  BY ReadyMembers
<1>4. (Wire(m, n) = 12 => c = Complete(m)) /\ (Wire(m, n) # 12 => ~c)
  BY <1>3
<1> HIDE DEF c, d, f
<1>5. /\ h.wire = Wire(m, n) /\ h.term = term[m] /\ h.generation = config[m]
      /\ h.digest = d /\ h.fence = f /\ h.complete = c
  BY <1>2 DEF NoHeartbeat
<1>6. h.wire = 12 => h.digest = view[m].digest /\ h.fence = directory[m]
  BY <1>5 DEF d, f
<1>7. h.wire # 12 => h.digest = NoDigest /\ h.fence = NoFence
  BY <1>5 DEF d, f
<1>8. (h.wire = 12 => h.complete = Complete(m)) /\ (h.wire # 12 => ~h.complete)
  BY <1>4, <1>5
<1> QED BY <1>1, <1>5, <1>6, <1>7, <1>8

(* What a delivered heartbeat leaves behind backs its digest. *)
LEMMA DeliveryBacks ==
  ASSUME TypeOK, NEW n \in Node, NEW m \in Node, Reported(n, m),
         Remembered(m), Keyed(n, m), config[m] # 0,
         NEW s, s = SlotAfter(m, n, Heartbeat(m, n)),
         NEW e, e = EndpointAfter(m, n, Heartbeat(m, n))
  PROVE  /\ e.roster <= config[m]
         /\ s # Vacant /\ ~s.admitted => s.term < term[n]
         /\ s.digest # NoDigest =>
              /\ s.roster # 0 /\ s.digest.roster <= s.roster
              /\ s.roster <= config[m] /\ s.digest.roster <= e.roster
              /\ s.fence # NoFence /\ directory[m] # NoFence
              /\ e.directory /\ (e.fenced \/ e.roster < config[m])
              /\ s.complete /\ s.roster = config[m] => Complete(m)
         /\ s.fence \in {slots[n][m].fence, directory[m]}
<1> DEFINE h == Heartbeat(m, n)
           old == slots[n][m]
           known == endpoints[n][m]
<1>1. /\ h.term = term[m] /\ h.generation = config[m]
      /\ h.wire = 12 =>
           /\ h.digest = view[m].digest /\ h.fence = directory[m]
           /\ h.complete = Complete(m) /\ directory[m] # NoFence
      /\ h.wire # 12 => h.digest = NoDigest /\ h.fence = NoFence /\ ~h.complete
  BY HeartbeatBacks
<1>2. /\ old \in Slot /\ known \in Endpoint /\ config[m] \in Nat
      /\ view[m].digest.roster \in Nat /\ old.digest.roster \in Nat
      /\ old.roster \in Nat /\ known.roster \in Nat
      /\ term[n] \in Nat /\ old.term \in Nat /\ term[m] \in Nat
  <2>1. old \in Slot /\ known \in Endpoint /\ view[m] \in View
    BY DEF TypeOK
  <2>2. config[m] \in Nat /\ term[n] \in Nat /\ term[m] \in Nat
    BY SiteAssumption, TermLimitAssumption DEF TypeOK, AnyRoster, Term
  <2>3. /\ view[m].digest \in Digest /\ old.digest \in Digest
        /\ old.roster \in Nat /\ known.roster \in Nat /\ old.term \in Nat
    BY <2>1, SiteAssumption, TermLimitAssumption
       DEF View, Slot, Endpoint, AnyRoster, Term
  <2> QED BY <2>1, <2>2, <2>3, SiteAssumption DEF Digest, AnyRoster
<1>3. view[m].digest.roster <= config[m] /\ known.roster <= config[m]
  BY DEF Remembered, Reported
<1> HIDE DEF h
<1>4. IF h.wire = 4
      THEN /\ e.roster = known.roster /\ (known.directory => e.directory)
           /\ known.fenced /\ config[m] = known.roster => e.fenced
      ELSE /\ e.roster = config[m] /\ e.fenced
           /\ known.directory \/ h.wire = 12 => e.directory
  <2>1. e = EndpointAfter(m, n, h)
    BY DEF h
  <2>2. CASE h.wire = 4
    <3> DEFINE f == known.fenced /\ config[m] = known.roster
    <3>1. e = [known EXCEPT !.fenced = f]
      BY <1>1, <2>1, <2>2 DEF EndpointAfter
    <3> HIDE DEF f
    <3>2. e.roster = known.roster /\ e.directory = known.directory
          /\ e.fenced = f
      BY <1>2, <3>1 DEF Endpoint
    <3> QED BY <2>2, <3>2 DEF f
  <2>3. CASE h.wire # 4
    <3> DEFINE d == known.directory \/ h.wire = 12
               c == IF h.wire = 12 THEN h.complete ELSE known.complete
    <3>1. e = [fenced |-> TRUE, roster |-> config[m], directory |-> d,
               complete |-> c]
      BY <1>1, <2>1, <2>3 DEF EndpointAfter
    <3> HIDE DEF d, c
    <3>2. e.roster = config[m] /\ e.fenced /\ e.directory = d
      BY <3>1
    <3> QED BY <2>3, <3>2 DEF d
  <2> QED BY <2>2, <2>3
<1>5. e.roster <= config[m]
  BY <1>2, <1>3, <1>4
<1>6. CASE s = old
  <2>1. s # Vacant /\ ~s.admitted => s.term < term[n]
    BY <1>6 DEF Reported
  <2>2. ASSUME s.digest # NoDigest
        PROVE  /\ s.roster # 0 /\ s.digest.roster <= s.roster
               /\ s.roster <= config[m] /\ s.digest.roster <= e.roster
               /\ s.fence # NoFence /\ directory[m] # NoFence
               /\ e.directory /\ (e.fenced \/ e.roster < config[m])
               /\ s.complete /\ s.roster = config[m] => Complete(m)
    <3>1. Backed(n, m)
      BY <1>6, <2>2 DEF Reported
    <3>2. /\ s.roster # 0 /\ s.digest.roster <= s.roster
          /\ s.roster <= config[m] /\ s.digest.roster <= known.roster
          /\ s.fence # NoFence /\ directory[m] # NoFence
          /\ known.directory
          /\ known.fenced \/ known.roster < config[m]
          /\ s.complete /\ s.roster = config[m] => Complete(m)
      BY <1>6, <3>1 DEF Backed
    <3>3. s.digest.roster <= config[m]
      BY <1>2, <1>6, <3>2
    <3>4. s.digest.roster <= e.roster /\ e.directory
          /\ (e.fenced \/ e.roster < config[m])
      BY <1>2, <1>3, <1>4, <3>2, <3>3
    <3> QED BY <3>2, <3>4
  <2>3. s.fence = slots[n][m].fence
    BY <1>6
  <2> QED BY <1>5, <2>1, <2>2, <2>3
<1>7. CASE s # old
  <2> DEFINE a == ~StaleTerm(n, m, h)
             f == IF h.fence = NoFence THEN old.fence ELSE h.fence
  <2>1. s = [ttl |-> LeaseTicks, term |-> h.term, admitted |-> a,
             roster |-> RosterOf(h), digest |-> h.digest, fence |-> f,
             complete |-> h.complete]
    BY <1>7 DEF SlotAfter, h
  <2> HIDE DEF a, f
  <2>2. /\ s.term = h.term /\ s.admitted = a /\ s.roster = RosterOf(h)
        /\ s.digest = h.digest /\ s.fence = f /\ s.complete = h.complete
    BY <2>1
  <2>3. ~s.admitted => s.term < term[n]
    BY <1>1, <2>2 DEF a, StaleTerm
  <2>4. ASSUME s.digest # NoDigest
        PROVE  /\ s.roster # 0 /\ s.digest.roster <= s.roster
               /\ s.roster <= config[m] /\ s.digest.roster <= e.roster
               /\ s.fence # NoFence /\ directory[m] # NoFence
               /\ e.directory /\ (e.fenced \/ e.roster < config[m])
               /\ s.complete /\ s.roster = config[m] => Complete(m)
    <3>1. h.wire = 12
      BY <1>1, <2>2, <2>4
    <3>2. /\ s.roster = config[m] /\ s.digest = view[m].digest
          /\ s.fence = directory[m] /\ directory[m] # NoFence
          /\ s.complete = Complete(m)
      BY <1>1, <2>2, <3>1 DEF RosterOf, f
    <3>3. e.roster = config[m] /\ e.fenced /\ e.directory
      BY <1>4, <3>1
    <3> QED BY <1>2, <1>3, <3>2, <3>3
  <2>5. s.fence \in {slots[n][m].fence, directory[m]}
    BY <1>1, <2>2 DEF f
  <2> QED BY <1>5, <2>3, <2>4, <2>5
<1> QED BY <1>6, <1>7

(* What a slot that only ages keeps *)
LEMMA AgedSlot ==
  ASSUME TypeOK, NEW n \in Node, NEW m \in Node, SlotStays(n, m),
         slots'[n][m] # Vacant
  PROVE  /\ slots[n][m] # Vacant
         /\ slots'[n][m].term = slots[n][m].term
         /\ slots'[n][m].digest = slots[n][m].digest
         /\ slots'[n][m].fence = slots[n][m].fence
         /\ slots'[n][m].admitted = slots[n][m].admitted
         /\ slots'[n][m].roster = slots[n][m].roster
         /\ slots'[n][m].complete = slots[n][m].complete
<1>1. slots[n][m] \in Slot
  BY DEF TypeOK
<1>2. slots[n][m] # Vacant
  BY StaysVacant
<1> QED BY <1>1, <1>2 DEF SlotStays, Slot

(* What a node has been told stays on record. *)
LEMMA ReportsKept ==
  ASSUME TypeOK, OneDirectory, Prompt, [Next]_vars,
         NEW n \in Node, NEW m \in Node, Reported(n, m), Remembered(m)
  PROVE  Reported(n, m)'
<1>1. /\ config[m] \in Nat /\ config'[m] \in Nat /\ config[m] <= config'[m]
      /\ credentials[m] \subseteq credentials'[m]
      /\ credentials[n] \subseteq credentials'[n]
      /\ directory[m] # NoFence => directory'[m] # NoFence
  BY EnvironmentSteps
<1>2. Keyed(n, m) => Keyed(n, m)'
  BY <1>1 DEF Keyed
<1>3. Complete(m) /\ config'[m] = config[m] => Complete(m)'
  BY CompleteKept
<1>4. Cardinality(Node) = 3 => directory'[m] = directory[m]
  BY OneDirectoryKept
<1>5. /\ sent'[m][n] = NoHeartbeat
      /\ \/ SlotStays(n, m) /\ endpoints'[n][m] = endpoints[n][m]
         \/ slots'[n][m] = Vacant /\ endpoints'[n][m] = Unknown
         \/ /\ Send(m) /\ Keyed(n, m) /\ config[m] # 0
            /\ slots'[n][m] = SlotAfter(m, n, Heartbeat(m, n))
            /\ endpoints'[n][m] = EndpointAfter(m, n, Heartbeat(m, n))
  BY PromptSteps DEF Reported
<1>6. /\ Vacant.digest = NoDigest /\ Vacant.fence = NoFence
      /\ Unknown.roster = 0
  BY DEF Vacant, Unknown
<1>7. /\ slots'[n][m] \in Slot /\ endpoints'[n][m] \in Endpoint
      /\ slots[n][m] \in Slot /\ endpoints[n][m] \in Endpoint
      /\ term[n] \in Nat /\ term'[n] \in Nat
  <2>1. TypeOK'
    BY NextType
  <2> QED BY <2>1, TermLimitAssumption DEF TypeOK, Term
<1>8. /\ endpoints[n][m].roster \in Nat /\ endpoints'[n][m].roster \in Nat
      /\ slots[n][m].roster \in Nat /\ slots'[n][m].roster \in Nat
      /\ slots[n][m].term \in Nat /\ slots'[n][m].term \in Nat
  <2>1. \A s \in Slot : s.roster \in Nat /\ s.term \in Nat
    BY SiteAssumption, TermLimitAssumption DEF Slot, AnyRoster, Term
  <2>2. \A e \in Endpoint : e.roster \in Nat
    BY SiteAssumption DEF Endpoint, AnyRoster
  <2> QED BY <1>7, <2>1, <2>2
<1>9. slots'[n][m] # Vacant => term[n] <= term'[n]
  <2>1. PowerOff(n) => slots'[n][m] = Vacant
    BY PowerOffClears
  <2>2. Update(n) => term'[n] >= term[n]
    BY UpdateRaisesTerm
  <2> QED BY <1>7, <2>1, <2>2, OwnSteps
<1>10. CASE slots'[n][m] = Vacant
            /\ endpoints'[n][m] \in {endpoints[n][m], Unknown}
  <2>1. endpoints'[n][m].roster <= config'[m]
    <3>1. endpoints[n][m].roster <= config[m]
      BY DEF Reported
    <3> QED BY <1>1, <1>6, <1>8, <1>10, <3>1
  <2> QED BY <1>5, <1>6, <1>10, <2>1 DEF Reported
<1>11. CASE /\ SlotStays(n, m) /\ endpoints'[n][m] = endpoints[n][m]
            /\ slots'[n][m] # Vacant
  <2> DEFINE s == slots[n][m]
  <2>1. /\ s # Vacant /\ slots'[n][m].term = s.term
        /\ slots'[n][m].digest = s.digest /\ slots'[n][m].fence = s.fence
        /\ slots'[n][m].admitted = s.admitted
        /\ slots'[n][m].roster = s.roster
        /\ slots'[n][m].complete = s.complete
    BY <1>11, AgedSlot
  <2>2. endpoints'[n][m].roster <= config'[m]
    <3>1. endpoints[n][m].roster <= config[m]
      BY DEF Reported
    <3> QED BY <1>1, <1>8, <1>11, <3>1
  <2>3. ~slots'[n][m].admitted => slots'[n][m].term < term'[n]
    <3>1. ~s.admitted => s.term < term[n]
      BY <2>1 DEF Reported
    <3> QED BY <1>7, <1>8, <1>9, <1>11, <2>1, <3>1
  <2>4. ASSUME s.digest # NoDigest
        PROVE  Backed(n, m)'
    <3>1. Backed(n, m)
      BY <2>4 DEF Reported
    <3> QED BY <1>1, <1>2, <1>3, <1>8, <1>11, <2>1, <3>1 DEF Backed
  <2>5. Cardinality(Node) = 3 =>
          slots'[n][m].fence \in {NoFence, directory'[m]}
    BY <1>4, <2>1 DEF Reported
  <2> QED BY <1>5, <2>1, <2>2, <2>3, <2>4, <2>5 DEF Reported
<1>12. CASE /\ Send(m) /\ Keyed(n, m) /\ config[m] # 0
            /\ slots'[n][m] = SlotAfter(m, n, Heartbeat(m, n))
            /\ endpoints'[n][m] = EndpointAfter(m, n, Heartbeat(m, n))
  <2> DEFINE s == slots'[n][m]
             e == endpoints'[n][m]
  <2>1. /\ config' = config /\ directory' = directory
        /\ credentials' = credentials /\ term' = term
    BY <1>12 DEF Send, environment, coordinator
  <2>2. s = SlotAfter(m, n, Heartbeat(m, n))
        /\ e = EndpointAfter(m, n, Heartbeat(m, n))
    BY <1>12
  <2> HIDE DEF s, e
  <2>3. /\ e.roster <= config[m]
        /\ s # Vacant /\ ~s.admitted => s.term < term[n]
        /\ s.digest # NoDigest =>
             /\ s.roster # 0 /\ s.digest.roster <= s.roster
             /\ s.roster <= config[m] /\ s.digest.roster <= e.roster
             /\ s.fence # NoFence /\ directory[m] # NoFence
             /\ e.directory /\ (e.fenced \/ e.roster < config[m])
             /\ s.complete /\ s.roster = config[m] => Complete(m)
        /\ s.fence \in {slots[n][m].fence, directory[m]}
    BY <1>12, <2>2, DeliveryBacks
  <2>4. Complete(m)' <=> Complete(m)
    BY <2>1 DEF Complete, Ready, Members
  <2>5. s.digest # NoDigest => Backed(n, m)'
    BY <1>2, <1>12, <2>1, <2>3, <2>4 DEF Backed, s, e
  <2>6. e.roster <= config'[m]
        /\ (s # Vacant /\ ~s.admitted => s.term < term'[n])
    BY <2>1, <2>3
  <2>7. Cardinality(Node) = 3 => s.fence \in {NoFence, directory'[m]}
    BY <2>1, <2>3 DEF Reported
  <2> QED BY <1>5, <2>5, <2>6, <2>7 DEF Reported, s, e
<1> QED BY <1>5, <1>10, <1>11, <1>12

(* What an update leaves behind when it keeps or takes a Leader *)
LEMMA UpdateSetsLeader ==
  ASSUME TypeOK, NEW n \in Node, Update(n)
  PROVE  /\ view'[n].digest.roster <= config[n]
         /\ rosterSeen'[n] = IF Ready(n) THEN config[n] ELSE 0
         /\ config' = config
         /\ leader'[n] # None =>
              /\ suspended'[n] = NobodySuspended
              /\ leader'[n] \in Candidates(n)
              /\ lease'[n] = LeaseUnder(n, leader'[n])
              /\ Ready(n) => probe'[n].stage = "done"
              /\ leader'[n] = n => term'[n] # 0
<1>1. config[n] \in Nat /\ config[n] <= config[n] /\ 0 <= config[n]
  BY SiteAssumption DEF TypeOK, AnyRoster
<1>2. /\ rosterSeen'[n] = IF Ready(n) THEN config[n] ELSE 0
      /\ config' = config
  BY DEF Update, UpdateFrame, TypeOK, environment
<1>3. CASE KeepProbing(n)
  <2>1. view'[n] = ProbeView(n) /\ leader'[n] = None
    BY <1>3 DEF KeepProbing, Becomes, TypeOK
  <2>2. ProbeView(n).digest.roster = 0
    BY DEF ProbeView
  <2> QED BY <1>1, <1>2, <2>1, <2>2
<1>4. CASE Elect(n)
  <2>1. PICK w \in Winners(n) :
          \/ LoseQuorum(n, ViewOf(n, w)) \/ FindNoWinner(n, ViewOf(n, w))
          \/ RefuseTerm(n, ViewOf(n, w)) \/ LeadOrFollow(n, ViewOf(n, w))
    BY <1>4 DEF Elect
  <2> DEFINE v == ViewOf(n, w)
  <2>2. v.digest.winner = w
        /\ v.digest.roster = IF Ready(n) THEN config[n] ELSE 0
    BY DEF ViewOf
  <2> HIDE DEF v
  <2>3. view'[n] = v /\ (leader'[n] # None => LeadOrFollow(n, v))
    <3>1. \E s : Concludes(n, v, s)
      BY <2>1 DEF v, LoseQuorum, FindNoWinner, RefuseTerm, LeadOrFollow
    <3>2. view'[n] = v
      BY <3>1, ConcludesValues
    <3> QED BY <2>1, <3>2, LeaderlessValues DEF v
  <2>4. ASSUME LeadOrFollow(n, v)
        PROVE  /\ leader'[n] = w /\ w # None
               /\ suspended'[n] = NobodySuspended
               /\ lease'[n] = LeaseUnder(n, w)
               /\ probe'[n] = ProbeAfter(n)
               /\ term'[n] = IF Decision(n, w).ready THEN Decision(n, w).term
                             ELSE WinnerTerm(n, w)
               /\ Decision(n, w).ready \/ StandaloneHandoff(n, w)
    <3>1. Concludes(n, v, NobodySuspended)
      BY <2>4 DEF LeadOrFollow
    <3> QED BY <2>2, <2>4, <3>1, ConcludesValues, LeadOrFollowValues
  <2>5. w # None => w \in Candidates(n)
    BY WinnersAreCandidates
  <2>6. Ready(n) => ProbeAfter(n).stage = "done"
    BY DEF ProbeAfter
  <2>7. Decision(n, n).ready /\ Decision(n, n).term # 0
    <3>1. /\ term[n] \in Term /\ suspended[n].term \in Term
          /\ ObservedTerm(n) \in Term
      BY ObservedTermGrows DEF TypeOK
    <3>2. \A t \in Nat : Larger(t, 1) # 0
      BY DEF Larger
    <3>3. \A t \in Term : NextRoleTerm(t) # 0
      BY TermLimitAssumption DEF NextRoleTerm, Term
    <3>4. /\ Larger(term[n], suspended[n].term) \in Term
          /\ Larger(Larger(term[n], suspended[n].term), ObservedTerm(n))
               \in Term
      BY <3>1 DEF Larger
    <3>5. term[n] \in Nat /\ suspended[n].term \in Nat
      BY <3>1, TermLimitAssumption DEF Term
    <3> HIDE DEF ObservedTerm, NextRoleTerm, Larger
    <3>6. LocalTerm(term[n], leader[n], suspended[n].term,
                    suspended[n].leader, n, ObservedTerm(n)) # 0
      BY <3>1, <3>2, <3>3, <3>4, <3>5 DEF LocalTerm
    <3> QED BY <3>6 DEF Decision, DecideRoleTerm
  <2>8. view'[n].digest.roster <= config[n]
    BY <1>1, <2>2, <2>3
  <2>9. ASSUME leader'[n] # None
        PROVE  /\ suspended'[n] = NobodySuspended
               /\ leader'[n] \in Candidates(n)
               /\ lease'[n] = LeaseUnder(n, leader'[n])
               /\ Ready(n) => probe'[n].stage = "done"
               /\ leader'[n] = n => term'[n] # 0
    BY <2>3, <2>4, <2>5, <2>6, <2>7, <2>9
  <2> QED BY <1>2, <2>8, <2>9
<1> QED BY <1>3, <1>4 DEF Update

(* What a node remembers of its last election stays true of it. *)
LEMMA MemoryKept ==
  ASSUME TypeOK, Prompt, [Next]_vars, NEW n \in Node, Remembered(n),
         \A m \in Node : sent[m][n] = NoHeartbeat
  PROVE  Remembered(n)'
<1>1. /\ config[n] \in Nat /\ config'[n] \in Nat /\ config[n] <= config'[n]
  BY EnvironmentSteps
<1>2. /\ leader[n] \in Node \cup {None} /\ None \notin Node
      /\ leader'[n] \in Node \cup {None} /\ view[n].digest.roster \in Nat
  <2>1. TypeOK'
    BY NextType
  <2>2. view[n] \in View
    BY DEF TypeOK
  <2>3. view[n].digest.roster \in Nat
    BY <2>2, SiteAssumption DEF View, Digest, AnyRoster
  <2> QED BY <2>1, <2>3, SiteAssumption DEF TypeOK, AnyNode
<1>3. CASE Update(n)
  <2>1. /\ view'[n].digest.roster <= config[n] /\ config' = config
        /\ rosterSeen'[n] = IF Ready(n) THEN config[n] ELSE 0
        /\ leader'[n] # None =>
             /\ suspended'[n] = NobodySuspended
             /\ leader'[n] \in Candidates(n)
             /\ lease'[n] = LeaseUnder(n, leader'[n])
             /\ Ready(n) => probe'[n].stage = "done"
             /\ leader'[n] = n => term'[n] # 0
    BY <1>3, UpdateSetsLeader
  <2>2. leader'[n] = n /\ Ready(n) => n \in Eligible
    <3> SUFFICES ASSUME leader'[n] = n, Ready(n) PROVE n \in Eligible
      OBVIOUS
    <3>1. n \in Candidates(n)
      BY <1>2, <2>1
    <3>2. n \notin EligibleLive(n)
      BY ReadyMembers DEF EligibleLive
    <3> QED BY <3>1, <3>2 DEF Candidates, LocalEligible
  <2>3. leader'[n] \notin {None, n} =>
          slots'[n][leader'[n]] = slots[n][leader'[n]]
    <3> SUFFICES ASSUME leader'[n] \notin {None, n}
                 PROVE  slots'[n][leader'[n]] = slots[n][leader'[n]]
      OBVIOUS
    <3>1. leader'[n] \in Live(n) /\ leader'[n] \in Node
      BY <1>2, <2>1, RemoteCandidatesLive
    <3> QED BY <1>3, <3>1 DEF Update, UpdateFrame, TypeOK
  <2>4. leader'[n] # None =>
          lease'[n] = IF leader'[n] = n THEN LeaseTicks
                      ELSE slots'[n][leader'[n]].ttl
    BY <2>1, <2>3 DEF LeaseUnder
  <2>5. rosterSeen'[n] # 0 => Ready(n)
    BY <2>1
  <2> QED BY <1>2, <2>1, <2>2, <2>4, <2>5 DEF Remembered
<1>4. CASE PowerOff(n)
  <2>1. /\ view'[n] = NoView /\ leader'[n] = None
    BY <1>4, PowerOffClears
  <2>2. n \notin fresh'
    BY <1>4 DEF PowerOff
  <2>3. NoView.digest.roster = 0
    BY DEF NoView, NoDigest
  <2> QED BY <1>1, <1>2, <2>1, <2>2, <2>3 DEF Remembered
<1>5. ASSUME CoordinatorKept(n)
      PROVE  /\ view'[n].digest.roster <= config'[n]
             /\ leader'[n] # None => suspended'[n] = NobodySuspended
             /\ leader'[n] # None /\ rosterSeen'[n] # 0 =>
                  probe'[n].stage = "done"
             /\ leader'[n] = n /\ rosterSeen'[n] # 0 =>
                  n \in Eligible /\ term'[n] # 0
  <2>1. view[n].digest.roster <= config[n]
    BY DEF Remembered
  <2>2. view'[n].digest.roster <= config'[n]
    BY <1>1, <1>2, <1>5, <2>1 DEF CoordinatorKept
  <2> QED BY <1>5, <2>2 DEF Remembered, CoordinatorKept
<1>6. CASE CoordinatorKept(n) /\ Tick /\ fresh' = {}
  BY <1>5, <1>6 DEF Remembered
<1>7. CASE /\ CoordinatorKept(n) /\ ~Update(n) /\ ~PowerOff(n) /\ ~Tick
           /\ lease'[n] = lease[n] /\ (n \in fresh' => n \in fresh)
  <2>1. ASSUME n \in fresh', leader[n] \notin {None, n}
        PROVE  slots'[n][leader[n]].ttl = slots[n][leader[n]].ttl
    <3> DEFINE k == leader[n]
    <3>1. k \in Node
      BY <1>2, <2>1
    <3>2. slots'[n][k] = slots[n][k]
      <4>1. ASSUME NEW j \in Node, Update(j) PROVE slots'[n] = slots[n]
        <5>1. j # n
          BY <1>7, <4>1
        <5>2. slots' = [slots EXCEPT ![j] =
                [i \in Node |-> IF i \in Live(j) THEN slots[j][i]
                                ELSE Vacant]]
          BY <4>1 DEF Update, UpdateFrame
        <5> QED BY <5>1, <5>2 DEF TypeOK
      <4>2. ASSUME NEW j \in Node, PowerOff(j) PROVE slots'[n] = slots[n]
        BY <1>7, <4>2 DEF PowerOff, TypeOK
      <4>3. ASSUME NEW j \in Node, Send(j) PROVE slots'[n] = slots[n]
        <5>1. PICK now, late : Delivered(j, now, late)
          BY <4>3, SendDelivers
        <5>2. n \notin now
          BY <2>1, <5>1 DEF Delivered
        <5> QED BY <5>1, <5>2 DEF Delivered
      <4>4. ASSUME NEW i \in Node, NEW j \in Node, ReceiveLate(i, j)
            PROVE  slots'[n] = slots[n]
        <5>1. j # n
          BY <4>4 DEF ReceiveLate, Underway
        <5> QED BY <4>4, <5>1 DEF ReceiveLate, TypeOK
      <4>5. ASSUME NEW j \in Node,
                   \/ PowerOn(j) \/ CommitRoster(j) \/ AdoptRoster(j)
                   \/ ProvisionCredentials(j) \/ CommitDirectory(j)
                   \/ PullDirectory(j)
            PROVE  slots' = slots
        BY <4>5 DEF PowerOn, CommitRoster, AdoptRoster, ProvisionCredentials,
                    CommitDirectory, PullDirectory, Change
      <4>6. Settle \/ UNCHANGED vars => slots' = slots
        BY DEF Settle, vars
      <4>7. slots'[n] = slots[n]
        BY <1>7, <4>1, <4>2, <4>3, <4>4, <4>5, <4>6 DEF Next
      <4> QED BY <4>7
    <3> QED BY <3>2
  <2>2. /\ leader'[n] = leader[n] /\ lease'[n] = lease[n]
        /\ n \in fresh' => n \in fresh
    BY <1>7 DEF CoordinatorKept
  <2>3. n \in fresh' =>
          /\ leader'[n] = n => lease'[n] = LeaseTicks
          /\ leader'[n] \notin {None, n} =>
               lease'[n] = slots'[n][leader'[n]].ttl
    BY <2>1, <2>2 DEF Remembered
  <2>4. /\ view'[n].digest.roster <= config'[n]
        /\ leader'[n] # None => suspended'[n] = NobodySuspended
        /\ leader'[n] # None /\ rosterSeen'[n] # 0 =>
             probe'[n].stage = "done"
        /\ leader'[n] = n /\ rosterSeen'[n] # 0 =>
             n \in Eligible /\ term'[n] # 0
    BY <1>5, <1>7
  <2> QED BY <2>3, <2>4 DEF Remembered
<1>8. Tick => fresh' = {}
  BY DEF Tick
<1> QED BY <1>3, <1>4, <1>6, <1>7, <1>8, CoordinatorSteps

(* A node's memory fits what it has done, in any Site whose links deliver. *)
LEMMA HistoryKept ==
  ASSUME KeptSite
  PROVE  /\ Init => History
         /\ TypeOK /\ History /\ [Next]_vars => History'
<1>1. ASSUME Init PROVE History
  <2>1. OneDirectory
    BY <1>1 DEF Init, KeptSite, OneDirectory, SameDirectory
  <2>2. ASSUME NEW n \in Node, NEW m \in Node
        PROVE  Remembered(n) /\ Reported(n, m)
    <3>1. /\ view[n] = NoView /\ rosterSeen[n] = 0 /\ leader[n] = None
          /\ n \notin fresh /\ slots[n][m] = Vacant
          /\ endpoints[n][m] = Unknown /\ sent[m][n] = NoHeartbeat
          /\ suspended[n] = NobodySuspended
      BY <1>1 DEF Init
    <3>2. config[n] \in Nat /\ config[m] \in Nat /\ None # n
      <4>1. PICK s \in Setup : config = s.config
        BY <1>1 DEF Init
      <4>2. s.config \in [Node -> 0..Len(Roster)]
        BY SiteAssumption
      <4> QED BY <4>1, <4>2, SiteAssumption
    <3>3. /\ Vacant.digest = NoDigest /\ NoView.digest.roster = 0
          /\ Vacant.fence = NoFence /\ Unknown.roster = 0
      BY DEF Vacant, NoView, NoDigest, Unknown
    <3> QED BY <3>1, <3>2, <3>3 DEF Remembered, Reported
  <2> QED BY <2>1, <2>2 DEF History
<1>2. ASSUME TypeOK, History, [Next]_vars PROVE History'
  <2>1. OneDirectory'
    BY <1>2, OneDirectoryKept DEF History
  <2>2. Prompt' => Prompt
    BY <1>2, PromptStays
  <2>3. ASSUME Prompt, NEW n \in Node
        PROVE  Remembered(n)' /\ \A m \in Node : Reported(n, m)'
    <3>1. /\ OneDirectory /\ \A k \in Node : Remembered(k)
          /\ \A k, m \in Node : Reported(k, m)
      BY <1>2, <2>3 DEF History
    <3>2. \A m \in Node : sent[m][n] = NoHeartbeat
      BY <3>1 DEF Reported
    <3> QED BY <1>2, <2>3, <3>1, <3>2, ReportsKept, MemoryKept
  <2> QED BY <2>1, <2>2, <2>3 DEF History
<1> QED BY <1>1, <1>2

(* What n knows of m while both follow l: m has confirmed the Leader and   *)
(* the term on some roster that it has since run on, and will be heard     *)
(* again before that is forgotten.                                         *)
Vouches(l, n, m) ==
  LET s == slots[n][m]
  IN  /\ endpoints[n][m].fenced /\ endpoints[n][m].directory /\ Keyed(n, m)
      /\ s.complete /\ s.admitted /\ s.term = term[l]
      /\ s.ttl > (IF m \in spoke THEN 1 ELSE 0)
      /\ Cardinality(Node) = 3 => s.fence = directory[n]
      /\ s.digest = [roster |-> s.digest.roster, winner |-> l]
      /\ s.digest.roster # 0 /\ s.digest.roster <= s.roster
      /\ s.digest.roster <= rosterSeen[m]

(* A node that remembers no earlier view has heard its present one from    *)
(* another node.                                                           *)
Confirmed(n) ==
  rosterSeen[n] = config[n] /\ views[n] = <<>>
    => \E p \in Node \ {n} : slots[n][p].digest.roster >= config[n]

(* n follows l, has done so when it last ran, and runs again in time.  It  *)
(* is on the Owner's roster, or one behind.                                *)
Serves(l, n) ==
  /\ Follows(l, n) /\ suspended[n] = NobodySuspended
  /\ probe[n].stage = "done" /\ directory[n] # NoFence /\ Complete(n)
  /\ Members(n) = Node
  /\ rosterSeen[n] # 0 /\ rosterSeen[n] <= config[n]
  /\ config[n] <= config[Owner] /\ config[Owner] <= config[n] + 1
  /\ view[n].digest = [roster |-> rosterSeen[n], winner |-> l]
  /\ lease[n] > (IF n \in fresh /\ (n = l \/ l \in spoke) THEN 1 ELSE 0)

(* The inductive form of an established Leader's keeping its role *)
Kept(l) ==
  /\ Steady /\ l \in Eligible /\ term[l] # 0
  /\ \A n \in Node :
       /\ Serves(l, n) /\ Confirmed(n)
       /\ \A m \in Node \ {n} : Vouches(l, n, m)

(* An established Leader is kept: its members remember what they were      *)
(* told.                                                                   *)
LEMMA EstablishedIsKept ==
  ASSUME KeptSite, TypeOK, History, NEW l \in Node,
         NEW r \in 1..Len(Roster), Established(r, l)
  PROVE  Kept(l)
<1>1. Node # {} /\ \A n \in Node : \E m \in Node : m # n
  <2> SUFFICES ASSUME NEW n \in Node, \A m \in Node : m = n
               PROVE  FALSE
    BY SiteAssumption
  <2>1. Node = {n}
    OBVIOUS
  <2>2. Cardinality({n}) = 1
    BY FS_Singleton
  <2> QED BY <2>1, <2>2 DEF KeptSite
<1>2. Roster[r] = Node /\ r \in Nat /\ r # 0 /\ r <= r
  <2>1. Len(Roster) \in Nat /\ r <= r /\ r \in Nat /\ r # 0
    BY SiteAssumption
  <2> QED BY <2>1 DEF KeptSite, Established
<1>3. Steady /\ Prompt
  BY DEF Established, Steady, Prompt
<1>4. \A n \in Node : Remembered(n) /\ \A m \in Node : Reported(n, m)
  BY <1>3 DEF History
<1>5. ASSUME NEW n \in Node
      PROVE  /\ config[n] = r /\ rosterSeen[n] = r /\ Follows(l, n)
             /\ LeaseActive(n)
             /\ view[n].digest = [roster |-> r, winner |-> l]
             /\ Members(n) = Node
  BY <1>2 DEF Established, Members
<1>6. ASSUME NEW n \in Node, NEW m \in Node \ {n}
      PROVE  /\ Vouches(l, n, m) /\ Keyed(n, m) /\ Complete(m)
             /\ directory[m] # NoFence /\ slots[n][m].digest.roster = r
             /\ slots[n][m].ttl > (IF m \in spoke THEN 1 ELSE 0)
  <2> DEFINE s == slots[n][m]
             e == endpoints[n][m]
  <2>1. /\ s.ttl > (IF m \in spoke THEN 1 ELSE 0)
        /\ s.digest = [roster |-> r, winner |-> l]
        /\ s.term = term[l] /\ s.complete /\ term[n] = term[l]
    BY <1>2, <1>5 DEF Established, Follows
  <2>2. s.digest # NoDigest /\ s # Vacant
    BY <1>2, <2>1 DEF NoDigest, Vacant
  <2>3. Reported(n, m) /\ Backed(n, m)
    BY <1>4, <2>2 DEF Reported
  <2>4. /\ s \in Slot /\ e \in Endpoint /\ term[n] \in Nat
    BY TermLimitAssumption DEF TypeOK, Term
  <2>5. s.roster \in Nat /\ e.roster \in Nat
    BY <2>4, SiteAssumption DEF Slot, Endpoint, AnyRoster
  <2>6. s.digest.roster = r /\ config[m] = r /\ rosterSeen[m] = r
    BY <1>5, <2>1
  <2>7. /\ s.roster # 0 /\ r <= s.roster /\ s.roster <= r /\ r <= e.roster
        /\ s.fence # NoFence /\ directory[m] # NoFence /\ Keyed(n, m)
        /\ e.directory /\ (e.fenced \/ e.roster < r)
        /\ s.complete /\ s.roster = r => Complete(m)
    BY <2>3, <2>6 DEF Backed
  <2>8. s.roster = r /\ e.fenced /\ Complete(m)
    BY <1>2, <2>1, <2>5, <2>7
  <2>9. s.admitted
    <3>1. ~s.admitted => s.term < term[n]
      BY <2>2, <2>3 DEF Reported
    <3> QED BY <2>1, <2>4, <3>1
  <2>10. Cardinality(Node) = 3 => s.fence = directory[n]
    <3>1. Cardinality(Node) = 3 => s.fence \in {NoFence, directory[m]}
      BY <2>3 DEF Reported
    <3>2. directory[m] = directory[n]
      BY <1>3 DEF Steady, SameDirectory
    <3> QED BY <2>7, <3>1, <3>2
  <2>11. s.digest = [roster |-> s.digest.roster, winner |-> l]
    BY <2>1, <2>6
  <2>12. Vouches(l, n, m)
    BY <1>2, <2>1, <2>6, <2>7, <2>8, <2>9, <2>10, <2>11 DEF Vouches
  <2> QED BY <2>1, <2>6, <2>7, <2>8, <2>12
<1>7. ASSUME NEW n \in Node
      PROVE  Serves(l, n) /\ Confirmed(n)
  <2>1. Remembered(n) /\ l # None /\ leader[n] = l /\ lease[n] > 0
    BY <1>4, <1>5, SiteAssumption DEF Follows, LeaseActive
  <2>2. PICK m \in Node : m # n
    BY <1>1
  <2>3. /\ Complete(n) /\ directory[n] # NoFence
        /\ slots[n][m].digest.roster = r
    BY <1>6, <2>2
  <2>4. suspended[n] = NobodySuspended /\ probe[n].stage = "done"
    BY <1>2, <1>5, <2>1 DEF Remembered
  <2>5. ASSUME n \in fresh, n = l \/ l \in spoke
        PROVE  lease[n] > 1
    <3>1. CASE n = l
      BY <2>1, <2>5, <3>1 DEF Remembered, KeptSite
    <3>2. CASE n # l
      <4>1. lease[n] = slots[n][l].ttl
        BY <2>1, <2>5, <3>2 DEF Remembered
      <4>2. slots[n][l].ttl > (IF l \in spoke THEN 1 ELSE 0)
        BY <1>6, <3>2
      <4> QED BY <2>5, <3>2, <4>1, <4>2
    <3> QED BY <3>1, <3>2
  <2>6. /\ config[n] <= config[Owner] /\ config[Owner] <= config[n] + 1
        /\ rosterSeen[n] <= config[n]
    <3>1. config[n] = r /\ config[Owner] = r /\ rosterSeen[n] = r
      BY <1>5, SiteAssumption
    <3> QED BY <1>2, <3>1
  <2>7. view[n].digest = [roster |-> rosterSeen[n], winner |-> l]
    BY <1>5
  <2>8. lease[n] > (IF n \in fresh /\ (n = l \/ l \in spoke) THEN 1 ELSE 0)
    BY <2>1, <2>5
  <2>9. Serves(l, n)
    BY <1>2, <1>5, <2>3, <2>4, <2>6, <2>7, <2>8 DEF Serves
  <2>10. slots[n][m].digest.roster >= config[n]
    BY <1>2, <1>5, <2>3
  <2> QED BY <2>2, <2>9, <2>10 DEF Confirmed
<1>8. l \in Eligible /\ term[l] # 0
  BY <1>2, <1>4, <1>5 DEF Follows, Remembered
<1> QED BY <1>3, <1>6, <1>7, <1>8 DEF Kept

(* Every node of a kept Site hears all the others, and needs one of them   *)
(* beside itself.                                                          *)
LEMMA KeptNodes ==
  ASSUME KeptSite, TypeOK, NEW l \in Node, Kept(l), NEW n \in Node
  PROVE  /\ config[n] \in 1..Len(Roster) /\ Members(n) = Node
         /\ Ready(n) /\ MultiNode(n) /\ Expected(n) \in {2, 3}
         /\ Expected(n) = Cardinality(Node)
         /\ Required(n) = 2 /\ Complete(n)
         /\ Live(n) = Node \ {n} /\ FenceVoters(n) = Node
         /\ Live(n) # {} /\ IsFiniteSet(Live(n))
         /\ 1 + Cardinality(Live(n)) = Expected(n)
<1>1. /\ Members(n) = Node /\ Complete(n)
      /\ rosterSeen[n] # 0 /\ rosterSeen[n] <= config[n]
  BY DEF Kept, Serves
<1>2. config[n] \in 1..Len(Roster)
  <2>1. config[n] \in 0..Len(Roster) /\ rosterSeen[n] \in 0..Len(Roster)
    BY DEF TypeOK, AnyRoster
  <2>2. Len(Roster) \in Nat
    BY SiteAssumption
  <2> QED BY <1>1, <2>1, <2>2
<1>3. Ready(n) /\ Expected(n) = Cardinality(Node) /\ Expected(n) \in {2, 3}
  <2>1. config[n] # 0
    BY <1>2
  <2> QED BY <1>1, <2>1 DEF Ready, Expected, KeptSite
<1>4. MultiNode(n)
  BY <1>3 DEF MultiNode
<1>5. Required(n) = 2
  <2>1. 2 \div 2 + 1 = 2 /\ 3 \div 2 + 1 = 2
    OBVIOUS
  <2> QED BY <1>3, <2>1 DEF Required, StrictMajority
<1>6. \A m \in Node \ {n} : slots[n][m].ttl > 0 /\ slots[n][m].complete
  <2> SUFFICES ASSUME NEW m \in Node \ {n}
               PROVE  slots[n][m].ttl > 0 /\ slots[n][m].complete
    OBVIOUS
  <2>1. Vouches(l, n, m)
    BY DEF Kept
  <2>2. slots[n][m].ttl \in Nat
    BY SiteAssumption DEF TypeOK, Slot
  <2> QED BY <2>1, <2>2 DEF Vouches
<1>7. Live(n) = Node \ {n} /\ FenceVoters(n) = Node
  BY <1>1, <1>3, <1>6 DEF Live, FenceVoters
<1>8. /\ IsFiniteSet(Live(n))
      /\ Cardinality(Live(n)) = Cardinality(Node) - 1
  <2>1. IsFiniteSet(Node)
    BY SiteAssumption
  <2>2. /\ IsFiniteSet(Node \ {n})
        /\ Cardinality(Node \ {n}) = Cardinality(Node) - 1
    BY <2>1, FS_RemoveElement
  <2> QED BY <1>7, <2>2
<1>9. 1 + Cardinality(Live(n)) = Expected(n) /\ Cardinality(Live(n)) # 0
  BY <1>3, <1>8
<1>10. Live(n) # {}
  BY <1>9, FS_EmptySet
<1> QED BY <1>1, <1>2, <1>3, <1>4, <1>5, <1>7, <1>8, <1>9, <1>10

(* It keeps the incumbent, whose term nobody exceeds. *)
LEMMA KeptIncumbent ==
  ASSUME KeptSite, TypeOK, NEW l \in Node, Kept(l), NEW n \in Node
  PROVE  /\ Incumbent(n) /\ Winners(n) = {l} /\ ObservedTerm(n) = term[l]
         /\ Decision(n, l).ready /\ Decision(n, l).term = term[l]
<1>1. /\ Live(n) = Node \ {n} /\ FenceVoters(n) = Node /\ Ready(n)
      /\ Required(n) = 2 /\ Complete(n)
  BY KeptNodes
<1>2. Serves(l, n) /\ l \in Eligible
  BY DEF Kept
<1>3. /\ leader[n] = l /\ term[n] = term[l] /\ directory[n] # NoFence
      /\ suspended[n] = NobodySuspended
      /\ lease[n] > (IF n \in fresh /\ (n = l \/ l \in spoke) THEN 1 ELSE 0)
  BY <1>2 DEF Serves, Follows
<1>4. LeaseActive(n)
  <2>1. lease[n] \in Nat /\ l # None
    BY SiteAssumption DEF TypeOK
  <2> QED BY <1>3, <2>1 DEF LeaseActive
<1>5. l \in Candidates(n)
  <2>1. n # l => l \in EligibleLive(n)
    <3> SUFFICES ASSUME n # l PROVE l \in EligibleLive(n)
      OBVIOUS
    <3>1. Vouches(l, n, l)
      BY DEF Kept
    <3> QED BY <1>1, <1>2, <3>1 DEF EligibleLive, Vouches
  <2>2. n = l => LocalEligible(n)
    BY <1>1, <1>2 DEF LocalEligible
  <2>3. DirectoryCandidateAllowed(n, l)
    BY <1>3, <1>4 DEF DirectoryCandidateAllowed
  <2> QED BY <2>1, <2>2, <2>3 DEF Candidates
<1>6. FenceQuorum(n) => FenceSupport(n, FenceOf(n, l)) >= 2
  <2> SUFFICES ASSUME FenceQuorum(n)
               PROVE  FenceSupport(n, FenceOf(n, l)) >= 2
    OBVIOUS
  <2> DEFINE S(f) == {m \in FenceVoters(n) : FenceOf(n, m) = f}
  <2>1. PICK k \in Node : FenceSupport(n, FenceOf(n, k)) >= 2
    BY <1>1 DEF FenceQuorum
  <2>2. FenceOf(n, k) # NoFence /\ Cardinality(S(FenceOf(n, k))) >= 2
    BY <2>1 DEF FenceSupport
  <2>3. CASE Cardinality(Node) = 2
    <3>1. S(FenceOf(n, k)) \subseteq Node
      BY <1>1
    <3> HIDE DEF S
    <3>2. S(FenceOf(n, k)) = Node
      <4>1. /\ IsFiniteSet(Node)
            /\ Cardinality(S(FenceOf(n, k))) <= Cardinality(Node)
            /\ Cardinality(S(FenceOf(n, k))) = Cardinality(Node)
                 => S(FenceOf(n, k)) = Node
        BY <3>1, SiteAssumption, FS_Subset
      <4>2. Cardinality(S(FenceOf(n, k))) \in Nat
        BY <3>1, <4>1, FS_Subset, FS_CardinalityType
      <4> QED BY <2>2, <2>3, <4>1, <4>2
    <3>3. FenceOf(n, l) = FenceOf(n, k)
      BY <3>2 DEF S
    <3> QED BY <2>1, <3>3
  <2>4. CASE Cardinality(Node) = 3
    <3>1. \A m \in Node : FenceOf(n, m) = directory[n]
      <4> SUFFICES ASSUME NEW m \in Node, m # n
                   PROVE  slots[n][m].fence = directory[n]
        BY DEF FenceOf
      <4>1. Vouches(l, n, m)
        BY DEF Kept
      <4> QED BY <2>4, <4>1 DEF Vouches
    <3>2. FenceOf(n, l) = FenceOf(n, k)
      BY <3>1
    <3> QED BY <2>1, <3>2
  <2> QED BY <2>3, <2>4 DEF KeptSite
<1>7. Incumbent(n)
  BY <1>1, <1>3, <1>4, <1>5, <1>6 DEF Incumbent
<1>8. Winners(n) = {l}
  BY <1>3, <1>7 DEF Winners
<1>9. ObservedTerm(n) = term[l]
  <2>1. \A m \in Node \ {n} : slots[n][m].term = term[l]
    BY DEF Kept, Vouches
  <2>2. Candidates(n) \ {n} \subseteq Node \ {n}
    BY CandidatesAreNodes
  <2>3. {slots[n][m].term : m \in {c \in Candidates(n) \ {n} :
                                      slots[n][c].admitted}} \cup {term[n]}
          = {term[l]}
    BY <1>3, <2>1, <2>2
  <2>4. term[l] <= term[l]
    BY TermLimitAssumption DEF TypeOK, Term
  <2> QED BY <2>3, <2>4 DEF ObservedTerm
<1>10. term[l] \in Term /\ term[l] # 0 /\ l # None
  BY SiteAssumption DEF Kept, TypeOK
<1>11. n # l => WinnerAdmitted(n, l) /\ WinnerTerm(n, l) = term[l]
  <2> SUFFICES ASSUME n # l
               PROVE  WinnerAdmitted(n, l) /\ WinnerTerm(n, l) = term[l]
    OBVIOUS
  <2>1. Vouches(l, n, l)
    BY DEF Kept
  <2> QED BY <2>1 DEF Vouches, WinnerAdmitted, WinnerTerm
<1>12. Decision(n, l) = [term |-> term[l], ready |-> TRUE]
  <2> DEFINE t == term[l]
  <2>1. t \in Nat /\ t >= 1
    BY <1>10, TermLimitAssumption DEF Term
  <2> HIDE DEF t
  <2>2. Larger(t, 1) = t /\ Larger(t, 0) = t /\ t <= t /\ t >= t
    BY <2>1 DEF Larger
  <2>3. LocalTerm(t, l, 0, None, l, t) = t
    BY <1>10, <2>2 DEF LocalTerm, RoleIdEqual
  <2>4. RemoteTermAccepted(t, l, 0, None, l, t)
    BY <1>10, <2>2 DEF RemoteTermAccepted, RoleIdEqual
  <2>5. Decision(n, l) = DecideRoleTerm(t, l, 0, None, l, l = n,
                           WinnerTerm(n, l), WinnerAdmitted(n, l), t)
    BY <1>3, <1>9 DEF t, Decision, NobodySuspended
  <2>6. ASSUME l = n
        PROVE  Decision(n, l) = [term |-> t, ready |-> TRUE]
    <3>1. Decision(n, l) =
            [term |-> LocalTerm(t, l, 0, None, l, t), ready |-> TRUE]
      BY <2>5, <2>6 DEF DecideRoleTerm
    <3> QED BY <2>3, <3>1
  <2>7. ASSUME l # n
        PROVE  Decision(n, l) = [term |-> t, ready |-> TRUE]
    <3>1. WinnerAdmitted(n, l) /\ WinnerTerm(n, l) = t
      BY <1>11, <2>7 DEF t
    <3>2. RemoteTermAccepted(t, l, 0, None, l, WinnerTerm(n, l))
      BY <2>4, <3>1
    <3>3. Decision(n, l) = [term |-> WinnerTerm(n, l), ready |-> TRUE]
      BY <2>5, <2>7, <3>1, <3>2 DEF DecideRoleTerm
    <3> QED BY <3>1, <3>3
  <2> QED BY <2>6, <2>7 DEF t
<1> QED BY <1>7, <1>8, <1>9, <1>12

(* Among up to three voters the strongest vote is somebody's. *)
LEMMA StrongestVoteCounts ==
  ASSUME NEW voters, IsFiniteSet(voters), Cardinality(voters) <= 3,
         voters # {}, NEW digest
  PROVE  /\ StrongestVote(voters, digest) \in Nat
         /\ StrongestVote(voters, digest) >= 1
<1> DEFINE votes(v) == Cardinality({w \in voters : digest[w] = digest[v]})
<1>1. \A v \in voters : votes(v) \in 1..3
  <2> SUFFICES ASSUME NEW v \in voters PROVE votes(v) \in 1..3
    OBVIOUS
  <2> DEFINE S == {w \in voters : digest[w] = digest[v]}
  <2>1. S \subseteq voters /\ v \in S
    OBVIOUS
  <2> HIDE DEF S
  <2>2. /\ IsFiniteSet(S) /\ Cardinality(S) <= Cardinality(voters)
    BY <2>1, FS_Subset
  <2>3. Cardinality(S) \in Nat /\ Cardinality(voters) \in Nat
    BY <2>2, FS_CardinalityType
  <2>4. Cardinality(S) # 0
    BY <2>1, <2>2, FS_EmptySet
  <2>5. Cardinality(S) \in 1..3
    BY <2>2, <2>3, <2>4
  <2> QED BY <2>5 DEF S
<1> HIDE DEF votes
<1>2. \E v \in voters : \A w \in voters : votes(v) >= votes(w)
  <2>1. CASE \E v \in voters : votes(v) = 3
    BY <1>1, <2>1
  <2>2. CASE /\ ~\E v \in voters : votes(v) = 3
             /\ \E v \in voters : votes(v) = 2
    BY <1>1, <2>2
  <2>3. CASE \A v \in voters : votes(v) = 1
    BY <2>3
  <2> QED BY <1>1, <2>1, <2>2, <2>3
<1>3. StrongestVote(voters, digest) =
        votes(CHOOSE v \in voters : \A w \in voters : votes(v) >= votes(w))
  BY DEF StrongestVote, votes
<1> QED BY <1>1, <1>2, <1>3

(* What the peers of a node in a kept Site endorse is the Leader, on some  *)
(* roster.                                                                 *)
LEMMA KeptVoters ==
  ASSUME KeptSite, TypeOK, NEW l \in Node, Kept(l), NEW n \in Node,
         NEW m \in Live(n)
  PROVE  /\ slots[n][m].digest # NoDigest
         /\ slots[n][m].digest.winner = l
         /\ slots[n][m].digest.roster \in Nat
         /\ slots[n][m].roster \in Nat /\ slots[n][m].roster # 0
         /\ slots[n][m].digest.roster <= slots[n][m].roster
         /\ m \in DirectEndorsers(n, ViewOf(n, l)) <=>
              slots[n][m].digest.roster = config[n]
<1> DEFINE s == slots[n][m]
<1>1. m \in Node \ {n}
  BY ReadyMembers
<1>2. /\ s.digest = [roster |-> s.digest.roster, winner |-> l]
      /\ s.digest.roster # 0 /\ s.digest.roster <= s.roster
  BY <1>1 DEF Kept, Vouches
<1>3. s \in Slot /\ s.digest \in Digest
  BY <1>1 DEF TypeOK, Slot
<1>4. s.roster \in Nat /\ s.digest.roster \in Nat
  BY <1>3, SiteAssumption DEF Slot, Digest, AnyRoster
<1>5. ViewOf(n, l).digest = [roster |-> config[n], winner |-> l]
  BY KeptNodes DEF ViewOf
<1> HIDE DEF s
<1>6. s.digest # NoDigest /\ s.digest.winner = l /\ s.roster # 0
  BY <1>2, <1>4 DEF NoDigest
<1>7. s.digest = ViewOf(n, l).digest <=> s.digest.roster = config[n]
  BY <1>2, <1>5
<1> QED BY <1>2, <1>4, <1>6, <1>7 DEF s, DirectEndorsers

(* Where not one peer endorses the present roster, the others' rosters or  *)
(* the node's own memory tell that a transition is under way.              *)
LEMMA KeptTransition ==
  ASSUME KeptSite, TypeOK, NEW l \in Node, Kept(l), NEW n \in Node,
         DirectEndorsers(n, ViewOf(n, l)) = {}
  PROVE  BoundedTransition(n)
<1>1. quorum[n] /\ term[n] # 0 /\ term[n] = term[l] /\ rosterSeen[n] # 0
  BY DEF Kept, Serves, Follows
<1>2. Incumbent(n) /\ ObservedTerm(n) <= term[n]
  <2>1. Incumbent(n) /\ ObservedTerm(n) = term[l]
    BY KeptIncumbent
  <2>2. term[n] <= term[n]
    BY TermLimitAssumption DEF TypeOK, Term
  <2> QED BY <1>1, <2>1, <2>2
<1>3. Live(n) = Node \ {n} /\ FenceVoters(n) \ {n} = Live(n)
  BY KeptNodes
<1>4. ASSUME views[n] = <<>>, rosterSeen[n] = config[n]
      PROVE  \E m \in FenceVoters(n) \ {n} : SlotRosterDiffers(n, m)
  <2>1. PICK p \in Live(n) : slots[n][p].digest.roster >= config[n]
    BY <1>3, <1>4 DEF Kept, Confirmed
  <2>2. /\ slots[n][p].digest.roster # config[n]
        /\ slots[n][p].digest.roster <= slots[n][p].roster
        /\ slots[n][p].digest.roster \in Nat
        /\ slots[n][p].roster \in Nat /\ slots[n][p].roster # 0
    BY KeptVoters
  <2>3. config[n] \in Nat
    BY SiteAssumption DEF TypeOK, AnyRoster
  <2>4. slots[n][p].roster # config[n]
    BY <2>1, <2>2, <2>3
  <2> QED BY <1>3, <2>2, <2>4 DEF SlotRosterDiffers
<1> QED BY <1>1, <1>2, <1>4 DEF BoundedTransition

(* In a transition the Leader's own vote, or that of another node for      *)
(* one of the earlier views, completes the quorum.                         *)
LEMMA KeptTolerance ==
  ASSUME KeptSite, TypeOK, NEW l \in Node, Kept(l), NEW n \in Node,
         DirectEndorsers(n, ViewOf(n, l)) = {}
  PROVE  /\ TransitionalEndorsements(n, ViewOf(n, l)) \in Nat
         /\ TransitionalEndorsements(n, ViewOf(n, l)) >= 1
<1> DEFINE v == ViewOf(n, l)
           digests ==
             {EarlierViews(n, v)[i].digest : i \in 1..Len(EarlierViews(n, v))}
             \cup (IF IncumbentVouches(n) THEN {slots[n][leader[n]].digest}
                   ELSE {})
           earlier == {m \in Live(n) \ DirectEndorsers(n, v) :
                         slots[n][m].digest \in digests}
           others == {m \in FenceVoters(n) \ ({n} \cup DirectEndorsers(n, v)
                                               \cup earlier) :
                        slots[n][m].digest # NoDigest}
           alternate ==
             IF IncumbentVouches(n) THEN 0
             ELSE StrongestVote(others, [m \in others |-> slots[n][m].digest])
<1>1. TransitionalEndorsements(n, v)
        = Larger(Cardinality(earlier), alternate)
  BY KeptTransition DEF TransitionalEndorsements
<1>2. /\ Live(n) = Node \ {n} /\ FenceVoters(n) = Node
      /\ Live(n) # {} /\ IsFiniteSet(Live(n))
      /\ 1 + Cardinality(Live(n)) = Expected(n) /\ Expected(n) \in {2, 3}
  BY KeptNodes
<1>3. \A m \in Live(n) : slots[n][m].digest # NoDigest
  BY KeptVoters
<1>4. earlier \subseteq Live(n) /\ others = Live(n) \ earlier
  BY <1>2, <1>3
<1>5. IncumbentVouches(n) => earlier # {}
  <2> SUFFICES ASSUME IncumbentVouches(n) PROVE leader[n] \in earlier
    OBVIOUS
  <2>1. leader[n] # n /\ leader[n] = l
    BY DEF IncumbentVouches, IncumbentRosterDiffers, Kept, Serves, Follows
  <2>2. slots[n][leader[n]].digest \in digests
    OBVIOUS
  <2> HIDE DEF digests
  <2> QED BY <1>2, <2>1, <2>2
<1> HIDE DEF digests, earlier, others
<1>6. /\ Cardinality(earlier) \in Nat /\ (earlier # {} => Cardinality(earlier) >= 1)
      /\ Cardinality(others) <= 3 /\ IsFiniteSet(others)
  <2>1. /\ IsFiniteSet(earlier) /\ IsFiniteSet(others)
        /\ Cardinality(others) <= Cardinality(Live(n))
    BY <1>2, <1>4, FS_Subset
  <2>2. Cardinality(earlier) \in Nat /\ Cardinality(others) \in Nat
        /\ Cardinality(Live(n)) \in Nat
    BY <1>2, <2>1, FS_CardinalityType
  <2>3. earlier # {} => Cardinality(earlier) # 0
    BY <2>1, FS_EmptySet
  <2> QED BY <1>2, <2>1, <2>2, <2>3
<1>7. CASE earlier # {}
  <2>1. alternate \in Nat
    <3>1. CASE IncumbentVouches(n)
      BY <3>1
    <3>2. CASE ~IncumbentVouches(n) /\ others # {}
      BY <1>6, <3>2, StrongestVoteCounts
    <3>3. CASE ~IncumbentVouches(n) /\ others = {}
      BY <3>3 DEF StrongestVote
    <3> QED BY <3>1, <3>2, <3>3
  <2> HIDE DEF alternate
  <2> QED BY <1>1, <1>6, <1>7, <2>1 DEF Larger
<1>8. CASE earlier = {}
  <2>1. ~IncumbentVouches(n) /\ others # {}
    BY <1>2, <1>4, <1>5, <1>8
  <2>2. alternate \in Nat /\ alternate >= 1
    BY <1>6, <2>1, StrongestVoteCounts
  <2> HIDE DEF alternate
  <2> QED BY <1>1, <1>6, <2>2 DEF Larger
<1> QED BY <1>7, <1>8

(* Hence every node of a kept Site finds a quorum for the Leader. *)
LEMMA KeptQuorum ==
  ASSUME KeptSite, TypeOK, NEW l \in Node, Kept(l), NEW n \in Node
  PROVE  HasQuorum(n, ViewOf(n, l))
<1> DEFINE v == ViewOf(n, l)
           direct == DirectEndorsements(n, v)
<1>1. /\ Required(n) = 2 /\ Expected(n) \in {2, 3}
      /\ IsFiniteSet(Live(n)) /\ 1 + Cardinality(Live(n)) = Expected(n)
  BY KeptNodes
<1>2. QuorumAvailable(Expected(n), 1 + Cardinality(Live(n)))
  <2>1. StrictMajority(Expected(n)) = 2
    BY <1>1 DEF Required
  <2> QED BY <1>1, <2>1 DEF QuorumAvailable
<1>3. /\ DirectEndorsers(n, v) \subseteq Live(n)
      /\ IsFiniteSet(DirectEndorsers(n, v))
      /\ Cardinality(DirectEndorsers(n, v)) \in Nat
  <2>1. DirectEndorsers(n, v) \subseteq Live(n)
    BY DEF DirectEndorsers
  <2>2. IsFiniteSet(DirectEndorsers(n, v))
    BY <1>1, <2>1, FS_Subset
  <2> QED BY <2>1, <2>2, FS_CardinalityType
<1>4. CASE DirectEndorsers(n, v) # {}
  <2>1. Cardinality(DirectEndorsers(n, v)) # 0
    BY <1>3, <1>4, FS_EmptySet
  <2>2. direct >= Required(n)
    BY <1>1, <1>3, <2>1 DEF DirectEndorsements
  <2>3. Endorsements(n, v) = direct
    BY <2>2 DEF Endorsements
  <2> QED BY <1>2, <2>2, <2>3 DEF HasQuorum
<1>5. CASE DirectEndorsers(n, v) = {}
  <2> DEFINE earlier == TransitionalEndorsements(n, v)
  <2>1. earlier \in Nat /\ earlier >= 1
    BY <1>5, KeptTolerance
  <2>2. direct = 1
    <3>1. Cardinality({}) = 0
      BY FS_EmptySet
    <3> QED BY <1>5, <3>1 DEF DirectEndorsements
  <2>3. /\ quorum[n] /\ term[n] # 0 /\ RoleIdEqual(leader[n], v.digest.winner)
        /\ ObservedTerm(n) <= term[n]
    <3>1. v.digest.winner = l
      BY DEF ViewOf
    <3>2. quorum[n] /\ leader[n] = l /\ term[n] = term[l] /\ term[l] # 0
      BY DEF Kept, Serves, Follows
    <3>3. l # None /\ term[l] <= term[l]
      <4>1. l # None
        BY SiteAssumption
      <4>2. term[l] \in Int
        BY TermLimitAssumption DEF TypeOK, Term
      <4> QED BY <4>1, <4>2
    <3> HIDE DEF v
    <3> QED BY <3>1, <3>2, <3>3, KeptIncumbent DEF RoleIdEqual
  <2> HIDE DEF v, direct, earlier
  <2>4. PreserveIncumbentEndorsements(quorum[n], leader[n], term[n],
          ObservedTerm(n), v.digest.winner, direct, earlier, Required(n))
          = direct + earlier
    BY <1>1, <2>1, <2>2, <2>3 DEF PreserveIncumbentEndorsements
  <2>5. Endorsements(n, v) \in {direct, direct + earlier}
        /\ (FenceSupported(n) => Endorsements(n, v) = direct + earlier)
    BY <1>1, <2>2, <2>4 DEF Endorsements, direct, earlier
  <2> QED BY <1>1, <1>2, <2>1, <2>2, <2>5 DEF HasQuorum, v
<1> QED BY <1>4, <1>5

(* An update in a kept Site keeps the Leader and the term. *)
LEMMA KeptUpdate ==
  ASSUME KeptSite, TypeOK, NEW l \in Node, Kept(l), NEW n \in Node,
         Update(n)
  PROVE  /\ leader'[n] = l /\ term'[n] = term[l] /\ quorum'[n]
         /\ suspended'[n] = NobodySuspended /\ rosterSeen'[n] = config[n]
         /\ lease'[n] = LeaseUnder(n, l) /\ probe'[n].stage = "done"
         /\ view'[n] = ViewOf(n, l)
         /\ views'[n] = ViewsAfter(n, ViewOf(n, l))
         /\ \A k \in Node \ {n} : CoordinatorKept(k) /\ lease'[k] = lease[k]
         /\ \A m \in Node \ {n} : slots'[n][m] = slots[n][m]
         /\ \A k \in Node \ {n} : slots'[k] = slots[k]
<1> DEFINE v == ViewOf(n, l)
<1>1. Winners(n) = {l} /\ Decision(n, l).ready /\ Decision(n, l).term = term[l]
  BY KeptIncumbent
<1>2. HasQuorum(n, v)
  BY KeptQuorum
<1>3. v.digest.winner = l /\ l # None
  BY SiteAssumption DEF ViewOf
<1>4. ~KeepProbing(n)
  <2>1. probe[n].stage = "done"
    BY DEF Kept, Serves
  <2> QED BY <2>1 DEF KeepProbing, Probing, ProbeRequired
<1>5. LoseQuorum(n, v) \/ FindNoWinner(n, v) \/ RefuseTerm(n, v)
      \/ LeadOrFollow(n, v)
  BY <1>1, <1>4 DEF Update, Elect
<1> HIDE DEF v
<1>6. LeadOrFollow(n, v)
  BY <1>1, <1>2, <1>3, <1>5 DEF LoseQuorum, FindNoWinner, RefuseTerm
<1>7. /\ Becomes(n, l, term[l], LeaseUnder(n, l), TRUE)
      /\ Concludes(n, v, NobodySuspended)
  BY <1>1, <1>3, <1>6 DEF LeadOrFollow
<1>8. /\ leader'[n] = l /\ term'[n] = term[l] /\ quorum'[n] = TRUE
      /\ lease'[n] = LeaseUnder(n, l)
  BY <1>7, BecomesValues
<1>9. /\ probe'[n] = ProbeAfter(n) /\ view'[n] = v
      /\ views'[n] = ViewsAfter(n, v) /\ suspended'[n] = NobodySuspended
  BY <1>7, ConcludesValues
<1>10. Live(n) = Node \ {n} /\ Ready(n)
  BY KeptNodes
<1>11. ProbeAfter(n).stage = "done"
  BY <1>10 DEF ProbeAfter
<1>12. /\ slots' = [slots EXCEPT ![n] = [m \in Node |->
                      IF m \in Live(n) THEN slots[n][m] ELSE Vacant]]
       /\ rosterSeen' = [rosterSeen EXCEPT ![n] = config[n]]
  BY <1>10 DEF Update, UpdateFrame
<1>13. /\ \A m \in Node \ {n} : slots'[n][m] = slots[n][m]
       /\ \A k \in Node \ {n} : slots'[k] = slots[k]
       /\ rosterSeen'[n] = config[n]
  BY <1>10, <1>12 DEF TypeOK
<1>14. ASSUME NEW k \in Node \ {n}
       PROVE  CoordinatorKept(k) /\ lease'[k] = lease[k]
  <2>1. OthersKeep(n)
    BY UpdateOutcome
  <2>2. rosterSeen'[k] = rosterSeen[k]
    BY <1>12 DEF TypeOK
  <2> QED BY <1>14, <2>1, <2>2 DEF OthersKeep, CoordinatorKept, TypeOK
<1> QED BY <1>8, <1>9, <1>11, <1>13, <1>14 DEF v

(* Capturing a transition remembers at least one view. *)
LEMMA CaptureRemembers ==
  ASSUME NEW S, NEW earlier \in Seq(S), NEW v \in S
  PROVE  CaptureView(earlier, v) # <<>>
<1>1. CASE \E i \in 1..Len(earlier) : earlier[i] = v
  <2>1. Len(earlier) # 0
    BY <1>1
  <2>2. earlier # <<>>
    BY <2>1
  <2> QED BY <1>1, <2>2 DEF CaptureView
<1>2. CASE ~\E i \in 1..Len(earlier) : earlier[i] = v
  <2>1. \A s \in Seq(S) : Append(s, v) # <<>>
    OBVIOUS
  <2>2. ~(Len(earlier) < MaxViews) => Tail(earlier) \in Seq(S)
    <3> SUFFICES ASSUME ~(Len(earlier) < MaxViews)
                 PROVE  Tail(earlier) \in Seq(S)
      OBVIOUS
    <3>1. earlier # <<>>
      BY DEF MaxViews
    <3> QED BY <3>1
  <2> QED BY <1>2, <2>1, <2>2 DEF CaptureView
<1> QED BY <1>1, <1>2

(* The update of one node keeps the Site. *)
LEMMA KeptThroughUpdate ==
  ASSUME KeptSite, TypeOK, NEW l \in Node, Kept(l), NEW k \in Node,
         Update(k)
  PROVE  Kept(l)'
<1>1. /\ leader'[k] = l /\ term'[k] = term[l] /\ quorum'[k]
      /\ suspended'[k] = NobodySuspended /\ rosterSeen'[k] = config[k]
      /\ lease'[k] = LeaseUnder(k, l) /\ probe'[k].stage = "done"
      /\ view'[k] = ViewOf(k, l) /\ views'[k] = ViewsAfter(k, ViewOf(k, l))
      /\ \A n \in Node \ {k} : CoordinatorKept(n) /\ lease'[n] = lease[n]
      /\ \A m \in Node \ {k} : slots'[k][m] = slots[k][m]
      /\ \A n \in Node \ {k} : slots'[n] = slots[n]
  BY KeptUpdate
<1>2. /\ config' = config /\ directory' = directory
      /\ credentials' = credentials /\ endpoints' = endpoints
      /\ spoke' = spoke /\ up' = up /\ budget' = budget
      /\ fresh' = fresh \cup {k}
  BY DEF Update, UpdateFrame, environment, transport
<1>3. term'[l] = term[l] /\ term[l] # 0
  BY <1>1 DEF CoordinatorKept, Kept
<1>4. config[k] \in 1..Len(Roster) /\ rosterSeen[k] \in Nat
      /\ config[k] \in Nat /\ rosterSeen[k] <= config[k] /\ rosterSeen[k] # 0
  <2>1. config[k] \in 1..Len(Roster)
    BY KeptNodes
  <2>2. rosterSeen[k] \in Nat /\ config[k] \in Nat
    BY SiteAssumption DEF TypeOK, AnyRoster
  <2> QED BY <2>1, <2>2 DEF Kept, Serves
<1>5. ASSUME NEW n \in Node
      PROVE  Serves(l, n)'
  <2>1. Serves(l, n)
    BY DEF Kept
  <2>2. Complete(n)' /\ Members(n)' = Node
    BY <1>2, <2>1 DEF Serves, Complete, Ready, Members
  <2>3. CASE n # k
    <3>1. CoordinatorKept(n) /\ lease'[n] = lease[n]
      BY <1>1, <2>3
    <3>2. n \in fresh' <=> n \in fresh
      BY <1>2, <2>3
    <3>3. Follows(l, n)'
      BY <1>3, <2>1, <3>1 DEF Serves, Follows, CoordinatorKept
    <3> QED BY <1>2, <2>1, <2>2, <3>1, <3>2, <3>3
            DEF Serves, CoordinatorKept
  <2>4. CASE n = k
    <3>1. view'[k].digest = [roster |-> config[k], winner |-> l]
      BY <1>1, KeptNodes DEF ViewOf
    <3>2. lease'[k] > (IF k \in fresh' /\ (k = l \/ l \in spoke')
                       THEN 1 ELSE 0)
      <4>1. CASE k = l
        BY <1>1, <4>1, SiteAssumption DEF KeptSite, LeaseUnder
      <4>2. CASE k # l
        <5>1. slots[k][l].ttl > (IF l \in spoke THEN 1 ELSE 0)
          BY <4>2 DEF Kept, Vouches
        <5>2. slots[k][l].ttl \in Nat
          BY <4>2, SiteAssumption DEF TypeOK, Slot
        <5> QED BY <1>1, <1>2, <4>2, <5>1, <5>2 DEF LeaseUnder
      <4> QED BY <4>1, <4>2
    <3>3. Follows(l, k)'
      BY <1>1, <1>3 DEF Follows
    <3>4. config[k] <= config[k]
      BY <1>4
    <3>5. config[k] # 0
      BY <1>4
    <3> QED BY <1>1, <1>2, <2>1, <2>2, <2>4, <3>1, <3>2, <3>3, <3>4, <3>5
            DEF Serves
  <2> QED BY <2>3, <2>4
<1>6. ASSUME NEW n \in Node, NEW m \in Node \ {n}
      PROVE  Vouches(l, n, m)'
  <2>1. Vouches(l, n, m)
    BY DEF Kept
  <2>2. slots'[n][m] = slots[n][m]
    BY <1>1
  <2>3. rosterSeen[m] <= rosterSeen'[m]
    <3>1. CASE m = k
      BY <1>1, <1>4, <3>1
    <3>2. CASE m # k
      <4>1. rosterSeen[m] \in Nat
        BY SiteAssumption DEF TypeOK, AnyRoster
      <4> QED BY <1>1, <3>2, <4>1 DEF CoordinatorKept
    <3> QED BY <3>1, <3>2
  <2>4. /\ rosterSeen[m] \in Nat /\ rosterSeen'[m] \in Nat
        /\ slots[n][m].digest.roster \in Nat
    <3>1. slots[n][m] \in Slot
      BY DEF TypeOK
    <3>2. slots[n][m].digest.roster \in Nat
      BY <3>1, SiteAssumption DEF Slot, Digest, AnyRoster
    <3>3. TypeOK'
      BY UpdateType
    <3> QED BY <3>2, <3>3, SiteAssumption DEF TypeOK, AnyRoster
  <2>5. slots'[n][m].digest.roster <= rosterSeen'[m]
    BY <2>1, <2>2, <2>3, <2>4 DEF Vouches
  <2> QED BY <1>2, <1>3, <2>1, <2>2, <2>5 DEF Vouches, Keyed
<1>7. ASSUME NEW n \in Node
      PROVE  Confirmed(n)'
  <2>1. CASE n # k
    <3>1. Confirmed(n) /\ CoordinatorKept(n) /\ slots'[n] = slots[n]
      BY <1>1, <2>1 DEF Kept
    <3> QED BY <1>2, <3>1 DEF Confirmed, CoordinatorKept
  <2>2. CASE n = k
    <3> DEFINE v == ViewOf(k, l)
    <3> SUFFICES ASSUME ViewsAfter(k, v) = <<>>
                 PROVE  \E p \in Node \ {k} :
                          slots[k][p].digest.roster >= config[k]
      BY <1>1, <1>2, <2>2 DEF Confirmed
    <3>1. Live(k) = Node \ {k} /\ Ready(k)
      BY KeptNodes
    <3>2. CASE DirectEndorsers(k, v) # {}
      <4>1. PICK p \in DirectEndorsers(k, v) : TRUE
        BY <3>2
      <4>2. p \in Live(k)
        BY DEF DirectEndorsers
      <4>3. slots[k][p].digest.roster = config[k]
        BY <4>1, <4>2, KeptVoters
      <4> QED BY <1>4, <3>1, <4>2, <4>3
    <3>3. CASE DirectEndorsers(k, v) = {}
      <4>1. DirectEndorsements(k, v) = 1 /\ Required(k) = 2
        BY <3>3, KeptNodes, FS_EmptySet DEF DirectEndorsements
      <4>2. EarlierViews(k, v) = <<>>
        BY <4>1 DEF ViewsAfter
      <4>3. BoundedTransition(k)
        BY <3>3, KeptTransition
      <4>4. view[k].digest = [roster |-> rosterSeen[k], winner |-> l]
        BY DEF Kept, Serves
      <4>5. view[k] # NoView
        <5>1. view[k].digest.roster # 0
          BY <1>4, <4>4
        <5> QED BY <5>1 DEF NoView, NoDigest
      <4>6. v = view[k] /\ views[k] = <<>>
        <5>1. CASE v = view[k]
          BY <4>2, <4>3, <5>1 DEF EarlierViews
        <5>2. CASE v # view[k]
          <6>1. CaptureView(views[k], view[k]) = <<>>
            BY <4>2, <4>3, <4>5, <5>2 DEF EarlierViews
          <6>2. views[k] \in Seq(View) /\ view[k] \in View
            BY DEF TypeOK
          <6>3. CaptureView(views[k], view[k]) # <<>>
            BY <6>2, CaptureRemembers
          <6> QED BY <6>1, <6>3
        <5> QED BY <5>1, <5>2
      <4>7. rosterSeen[k] = config[k]
        <5>1. v.digest = [roster |-> config[k], winner |-> l]
          BY <3>1 DEF ViewOf
        <5>2. /\ v.digest.roster = config[k]
              /\ view[k].digest.roster = rosterSeen[k]
          BY <4>4, <5>1
        <5> HIDE DEF v
        <5> QED BY <4>6, <5>2
      <4> QED BY <4>6, <4>7 DEF Kept, Confirmed
    <3> QED BY <3>2, <3>3
  <2> QED BY <2>1, <2>2
<1>8. Steady'
  BY <1>2 DEF Kept, Steady, SameDirectory
<1> QED BY <1>3, <1>5, <1>6, <1>7, <1>8 DEF Kept

(* In a kept Site every heartbeat arrives, with all that n endorses. *)
LEMMA KeptSend ==
  ASSUME KeptSite, TypeOK, NEW l \in Node, Kept(l), NEW k \in Node, Send(k)
  PROVE  /\ \A n \in Node \ {k} :
              /\ slots'[n][k].ttl = LeaseTicks
              /\ slots'[n][k].term = term[l] /\ slots'[n][k].admitted
              /\ slots'[n][k].roster = config[k] /\ slots'[n][k].complete
              /\ slots'[n][k].digest = view[k].digest
              /\ slots'[n][k].fence = directory[k]
              /\ endpoints'[n][k].fenced /\ endpoints'[n][k].directory
         /\ \A n, m \in Node : m # k =>
              /\ slots'[n][m] = slots[n][m]
              /\ endpoints'[n][m] = endpoints[n][m]
         /\ fresh' \subseteq {k} \cap fresh
<1>1. /\ up = Node /\ budget.lossy = {} /\ budget.slow = {}
  BY DEF Kept, Steady
<1>2. ASSUME NEW n \in Node
      PROVE  /\ Members(n) = Node /\ Complete(n) /\ config[n] # 0
             /\ term[n] = term[l] /\ directory[n] # NoFence
             /\ view[n] # NoView /\ Started(n)
  <2>1. /\ Members(n) = Node /\ Complete(n) /\ config[n] \in 1..Len(Roster)
    BY KeptNodes
  <2>2. Serves(l, n)
    BY DEF Kept
  <2>3. view[n].digest.roster # 0 /\ NoView.digest.roster = 0
    BY <2>2 DEF Serves, NoView, NoDigest
  <2>4. config[n] # 0
    BY <2>1
  <2> QED BY <1>1, <2>1, <2>2, <2>3, <2>4 DEF Serves, Follows, Started
<1>3. {n \in Addressees(k) : Hears(n, k)} = Node \ {k}
  <2>1. \A n \in Node \ {k} : Keyed(k, n)
    BY DEF Kept, Vouches
  <2> QED BY <1>2, <2>1 DEF Addressees, Hears
<1>4. Links(k, budget.lossy) = {} /\ Links(k, budget.slow) = {}
  BY <1>1 DEF Links
<1>5. /\ slots' = [n \in Node |->
           IF n \in Node \ {k}
           THEN [slots[n] EXCEPT ![k] = SlotAfter(k, n, Heartbeat(k, n))]
           ELSE slots[n]]
      /\ endpoints' = [n \in Node |->
           IF n \in Node \ {k}
           THEN [endpoints[n] EXCEPT
                  ![k] = EndpointAfter(k, n, Heartbeat(k, n))]
           ELSE endpoints[n]]
      /\ fresh' = fresh \ (Node \ {k})
  BY <1>3, <1>4 DEF Send
<1>6. ASSUME NEW n \in Node \ {k}
      PROVE  LET s == SlotAfter(k, n, Heartbeat(k, n))
                 e == EndpointAfter(k, n, Heartbeat(k, n))
             IN  /\ s.ttl = LeaseTicks /\ s.term = term[l] /\ s.admitted
                 /\ s.roster = config[k] /\ s.complete
                 /\ s.digest = view[k].digest /\ s.fence = directory[k]
                 /\ e.fenced /\ e.directory
  <2> DEFINE h == Heartbeat(k, n)
             s == SlotAfter(k, n, h)
             e == EndpointAfter(k, n, h)
             old == StaleTerm(n, k, h)
  <2>1. Wire(k, n) = 12
    <3>1. endpoints[k][n].fenced /\ endpoints[k][n].directory
      BY DEF Kept, Vouches
    <3> QED BY <1>2, <3>1 DEF Wire
  <2>2. /\ h.term = term[k] /\ h.generation = config[k] /\ h.wire = 12
        /\ h.digest = view[k].digest /\ h.fence = directory[k]
        /\ h.complete
    BY <1>2, <2>1, HeartbeatBacks
  <2> HIDE DEF h
  <2>4. e.fenced /\ e.directory /\ e.roster = config[k]
    <3> DEFINE d == endpoints[n][k].directory \/ h.wire = 12
               c == IF h.wire = 12 THEN h.complete
                    ELSE endpoints[n][k].complete
    <3>1. e = [fenced |-> TRUE, roster |-> config[k], directory |-> d,
               complete |-> c]
      BY <2>2 DEF EndpointAfter
    <3> HIDE DEF d, c
    <3>2. e.roster = config[k] /\ e.fenced /\ e.directory = d
      BY <3>1
    <3> QED BY <2>2, <3>2 DEF d
  <2>5. Admissible(k, n, h)
    <3>1. /\ config[k] \in Nat /\ config[n] \in Nat /\ config[Owner] \in Nat
      BY SiteAssumption DEF TypeOK, AnyRoster
    <3>2. /\ config[k] <= config[Owner] /\ config[Owner] <= config[k] + 1
          /\ config[n] <= config[Owner] /\ config[Owner] <= config[n] + 1
      BY DEF Kept, Serves
    <3>3. config[k] = config[n] \/ config[k] \in {config[n] - 1, config[n] + 1}
      BY <3>1, <3>2
    <3> HIDE DEF e
    <3> QED BY <1>2, <2>2, <2>4, <3>3 DEF Admissible, e
  <2>6. ~old
    <3>1. h.term = term[n] /\ h.term \in Int
      BY <1>2, <2>2, TermLimitAssumption DEF TypeOK, Term
    <3> QED BY <3>1 DEF StaleTerm
  <2>7. s = [ttl |-> LeaseTicks, term |-> h.term, admitted |-> ~old,
             roster |-> RosterOf(h), digest |-> h.digest,
             fence |-> IF h.fence = NoFence THEN slots[n][k].fence
                       ELSE h.fence,
             complete |-> h.complete]
    BY <2>5 DEF SlotAfter
  <2> HIDE DEF old, e
  <2>8. /\ s.ttl = LeaseTicks /\ s.term = h.term /\ s.admitted = ~old
        /\ s.roster = RosterOf(h) /\ s.digest = h.digest
        /\ s.complete = h.complete
    BY <2>7
  <2>9. s.fence = h.fence
    BY <1>2, <2>2, <2>7
  <2>10. RosterOf(h) = config[k]
    BY <2>2 DEF RosterOf
  <2> HIDE DEF s
  <2>11. /\ s.ttl = LeaseTicks /\ s.term = term[l] /\ s.admitted
         /\ s.roster = config[k] /\ s.complete
         /\ s.digest = view[k].digest /\ s.fence = directory[k]
    BY <1>2, <2>2, <2>6, <2>8, <2>9, <2>10
  <2> QED BY <2>4, <2>11 DEF h, s, e
<1>7. ASSUME NEW n \in Node \ {k}
      PROVE  /\ slots'[n][k] = SlotAfter(k, n, Heartbeat(k, n))
             /\ endpoints'[n][k] = EndpointAfter(k, n, Heartbeat(k, n))
  BY <1>5, <1>7 DEF TypeOK
<1>8. \A n, m \in Node : m # k =>
        /\ slots'[n][m] = slots[n][m]
        /\ endpoints'[n][m] = endpoints[n][m]
  BY <1>5 DEF TypeOK
<1>9. fresh' \subseteq {k} \cap fresh
  BY <1>5 DEF TypeOK
<1> QED BY <1>6, <1>7, <1>8, <1>9

(* A heartbeat cycle keeps the Site. *)
LEMMA KeptThroughSend ==
  ASSUME KeptSite, TypeOK, NEW l \in Node, Kept(l), NEW k \in Node, Send(k)
  PROVE  Kept(l)'
<1>1. /\ config' = config /\ directory' = directory
      /\ credentials' = credentials
      /\ leader' = leader /\ term' = term /\ lease' = lease
      /\ quorum' = quorum /\ view' = view /\ suspended' = suspended
      /\ views' = views /\ rosterSeen' = rosterSeen /\ probe' = probe
      /\ up' = up /\ budget' = budget /\ spoke' = spoke \cup {k}
  BY DEF Send, environment, coordinator
<1>2. fresh' \subseteq {k} \cap fresh
  BY KeptSend
<1>3. ASSUME NEW n \in Node, NEW m \in Node \ {n}
      PROVE  /\ Vouches(l, n, m)'
             /\ slots[n][m].digest.roster \in Nat
             /\ slots'[n][m].digest.roster \in Nat
             /\ slots[n][m].digest.roster <= slots'[n][m].digest.roster
  <2>1. Vouches(l, n, m)
    BY DEF Kept
  <2>2. /\ slots[n][m].digest.roster \in Nat
        /\ rosterSeen[m] \in Nat /\ config[m] \in Nat
    <3>1. slots[n][m] \in Slot
      BY DEF TypeOK
    <3>2. slots[n][m].digest.roster \in Nat
      BY <3>1, SiteAssumption DEF Slot, Digest, AnyRoster
    <3> QED BY <3>2, SiteAssumption DEF TypeOK, AnyRoster
  <2>3. CASE m = k
    <3>1. /\ slots'[n][m].ttl = LeaseTicks
          /\ slots'[n][m].term = term[l] /\ slots'[n][m].admitted
          /\ slots'[n][m].roster = config[m] /\ slots'[n][m].complete
          /\ slots'[n][m].digest = view[m].digest
          /\ slots'[n][m].fence = directory[m]
          /\ endpoints'[n][m].fenced /\ endpoints'[n][m].directory
      BY <1>3, <2>3, KeptSend
    <3>2. /\ view[m].digest = [roster |-> rosterSeen[m], winner |-> l]
          /\ rosterSeen[m] # 0 /\ rosterSeen[m] <= config[m]
      BY DEF Kept, Serves
    <3>3. slots[n][m].digest.roster <= rosterSeen[m]
      BY <2>1 DEF Vouches
    <3>4. LeaseTicks > (IF m \in spoke' THEN 1 ELSE 0)
      BY SiteAssumption DEF KeptSite
    <3>5. /\ slots'[n][m].digest = [roster |-> rosterSeen[m], winner |-> l]
          /\ slots'[n][m].digest.roster = rosterSeen[m]
      BY <3>1, <3>2
    <3>6. rosterSeen[m] <= rosterSeen[m]
      BY <2>2
    <3>7. directory[m] = directory[n]
      BY DEF Kept, Steady, SameDirectory
    <3>8. Keyed(n, m)'
      BY <1>1, <2>1 DEF Vouches, Keyed
    <3> QED BY <1>1, <2>2, <3>1, <3>2, <3>3, <3>4, <3>5, <3>6, <3>7, <3>8
            DEF Vouches
  <2>4. CASE m # k
    <3>1. slots'[n][m] = slots[n][m] /\ endpoints'[n][m] = endpoints[n][m]
      BY <2>4, KeptSend
    <3>2. m \in spoke' <=> m \in spoke
      BY <1>1, <2>4
    <3>3. slots[n][m].digest.roster <= slots[n][m].digest.roster
      BY <2>2
    <3> QED BY <1>1, <2>1, <2>2, <3>1, <3>2, <3>3 DEF Vouches, Keyed
  <2> QED BY <2>3, <2>4
<1>4. ASSUME NEW n \in Node
      PROVE  Serves(l, n)' /\ Confirmed(n)'
  <2>1. Serves(l, n) /\ Confirmed(n)
    BY DEF Kept
  <2>2. lease[n] > (IF n \in fresh' /\ (n = l \/ l \in spoke') THEN 1 ELSE 0)
    <3>1. lease[n] \in Nat
      BY SiteAssumption DEF TypeOK
    <3>2. lease[n] > 0
      BY <2>1, <3>1 DEF Serves
    <3>3. n \in fresh' /\ (n = l \/ l \in spoke')
            => n \in fresh /\ (n = l \/ l \in spoke)
      BY <1>1, <1>2
    <3> QED BY <2>1, <3>2, <3>3 DEF Serves
  <2>3. Complete(n)' /\ Members(n)' = Node /\ Follows(l, n)'
    BY <1>1, <2>1 DEF Serves, Complete, Ready, Members, Follows
  <2>4. Serves(l, n)'
    BY <1>1, <2>1, <2>2, <2>3 DEF Serves
  <2>5. Confirmed(n)'
    <3> SUFFICES ASSUME rosterSeen[n] = config[n], views[n] = <<>>
                 PROVE  \E p \in Node \ {n} :
                          slots'[n][p].digest.roster >= config[n]
      BY <1>1 DEF Confirmed
    <3>1. PICK p \in Node \ {n} : slots[n][p].digest.roster >= config[n]
      BY <2>1 DEF Confirmed
    <3>2. /\ slots[n][p].digest.roster <= slots'[n][p].digest.roster
          /\ slots[n][p].digest.roster \in Nat
          /\ slots'[n][p].digest.roster \in Nat
      BY <1>3
    <3>3. config[n] \in Nat
      BY SiteAssumption DEF TypeOK, AnyRoster
    <3> QED BY <3>1, <3>2, <3>3
  <2> QED BY <2>4, <2>5
<1>5. Steady' /\ term'[l] # 0
  BY <1>1 DEF Kept, Steady, SameDirectory
<1> QED BY <1>3, <1>4, <1>5 DEF Kept

(* So does the passing of an interval, in which everybody ran and spoke. *)
LEMMA KeptThroughTick ==
  ASSUME KeptSite, TypeOK, NEW l \in Node, Kept(l), Tick
  PROVE  Kept(l)'
<1>1. \A n \in Node : n \in fresh /\ n \in spoke
  <2> SUFFICES ASSUME NEW n \in Node PROVE n \in fresh /\ n \in spoke
    OBVIOUS
  <2>1. up = Node
    BY DEF Kept, Steady
  <2>2. config[n] # 0
    <3>1. config[n] \in 1..Len(Roster)
      BY KeptNodes
    <3> QED BY <3>1
  <2>3. term[n] # 0
    BY DEF Kept, Serves, Follows
  <2> QED BY <2>1, <2>2, <2>3 DEF Tick, CanSend
<1>2. /\ config' = config /\ directory' = directory
      /\ credentials' = credentials
      /\ leader' = leader /\ term' = term
      /\ quorum' = quorum /\ view' = view /\ suspended' = suspended
      /\ views' = views /\ rosterSeen' = rosterSeen
      /\ endpoints' = endpoints
      /\ up' = up /\ budget' = budget /\ fresh' = {} /\ spoke' = {}
  BY DEF Tick, environment
<1>3. \A t \in Nat : t > 1 => Less(t) > 0
  BY DEF Less
<1>4. ASSUME NEW n \in Node, NEW m \in Node \ {n}
      PROVE  Vouches(l, n, m)' /\ slots'[n][m].digest = slots[n][m].digest
  <2>1. Vouches(l, n, m)
    BY DEF Kept
  <2>2. slots[n][m] \in Slot /\ slots[n][m].ttl \in Nat
    BY SiteAssumption DEF TypeOK, Slot
  <2>3. slots'[n][m] = [slots[n][m] EXCEPT !.ttl = Less(@)]
    BY DEF Tick
  <2>4. /\ slots'[n][m].ttl = Less(slots[n][m].ttl)
        /\ slots'[n][m].term = slots[n][m].term
        /\ slots'[n][m].admitted = slots[n][m].admitted
        /\ slots'[n][m].roster = slots[n][m].roster
        /\ slots'[n][m].complete = slots[n][m].complete
        /\ slots'[n][m].digest = slots[n][m].digest
        /\ slots'[n][m].fence = slots[n][m].fence
    BY <2>2, <2>3 DEF Slot
  <2>5. slots[n][m].ttl > 1
    BY <1>1, <2>1 DEF Vouches
  <2>6. slots'[n][m].ttl > 0
    BY <1>3, <2>2, <2>4, <2>5
  <2>7. Keyed(n, m)'
    BY <1>2, <2>1 DEF Vouches, Keyed
  <2> QED BY <1>2, <2>1, <2>4, <2>6, <2>7 DEF Vouches
<1>5. ASSUME NEW n \in Node
      PROVE  Serves(l, n)' /\ Confirmed(n)'
  <2>1. Serves(l, n) /\ Confirmed(n)
    BY DEF Kept
  <2>2. lease[n] > 1 /\ lease[n] \in Nat
    BY <1>1, <2>1, SiteAssumption DEF Serves, TypeOK
  <2>3. lease'[n] > 0
    <3>1. lease'[n] = Less(lease[n])
      BY DEF Tick
    <3> QED BY <1>3, <2>2, <3>1
  <2>4. probe'[n].stage = probe[n].stage
    BY DEF Tick, TypeOK
  <2>5. Complete(n)' /\ Members(n)' = Node /\ Follows(l, n)'
    BY <1>2, <2>1 DEF Serves, Complete, Ready, Members, Follows
  <2>6. Serves(l, n)'
    BY <1>2, <2>1, <2>3, <2>4, <2>5 DEF Serves
  <2>7. Confirmed(n)'
    BY <1>2, <1>4, <2>1 DEF Confirmed
  <2> QED BY <2>6, <2>7
<1>6. Steady' /\ term'[l] # 0
  BY <1>2 DEF Kept, Steady, SameDirectory
<1> QED BY <1>4, <1>5, <1>6 DEF Kept

(* A change of the rosters or the credentials that keeps the members       *)
(* within one revision of the Owner keeps the Site.                        *)
LEMMA KeptThroughEnvironment ==
  ASSUME TypeOK, TypeOK', NEW l \in Node, Kept(l),
         UNCHANGED <<coordinator, slots, transport, fresh, directory>>,
         Steady',
         \A n \in Node : /\ credentials[n] \subseteq credentials'[n]
                         /\ Members(n)' = Node /\ config[n] <= config'[n]
                         /\ config'[n] <= config'[Owner]
                         /\ config'[Owner] <= config'[n] + 1
  PROVE  Kept(l)'
<1>1. /\ leader' = leader /\ term' = term /\ lease' = lease
      /\ quorum' = quorum /\ view' = view /\ suspended' = suspended
      /\ views' = views /\ rosterSeen' = rosterSeen /\ probe' = probe
      /\ endpoints' = endpoints /\ spoke' = spoke /\ fresh' = fresh
      /\ slots' = slots /\ directory' = directory
  BY DEF coordinator, transport
<1>2. ASSUME NEW n \in Node, NEW m \in Node \ {n}
      PROVE  Vouches(l, n, m)'
  <2>1. Vouches(l, n, m)
    BY DEF Kept
  <2>2. Keyed(n, m)'
    BY <2>1 DEF Vouches, Keyed
  <2> QED BY <1>1, <2>1, <2>2 DEF Vouches
<1>3. ASSUME NEW n \in Node
      PROVE  Serves(l, n)' /\ Confirmed(n)'
  <2>1. Serves(l, n) /\ Confirmed(n)
    BY DEF Kept
  <2>2. rosterSeen[n] \in Nat /\ config[n] \in Nat /\ config'[n] \in Nat
    BY SiteAssumption DEF TypeOK, AnyRoster
  <2>3. rosterSeen[n] <= config[n] /\ rosterSeen[n] # 0
    BY <2>1 DEF Serves
  <2>4. rosterSeen[n] <= config'[n] /\ config'[n] # 0
    BY <2>2, <2>3
  <2>5. rosterSeen[n] = config'[n] => config'[n] = config[n]
    BY <2>2, <2>3
  <2>6. Complete(n)'
    <3>1. config[n] # 0 /\ Members(n) = Node
      BY <2>1, <2>2, <2>3 DEF Serves
    <3>2. Members(n) \cap (Eligible \cup {Owner}) \subseteq credentials[n] \cup {n}
      BY <2>1, <3>1 DEF Serves, Complete
    <3> QED BY <2>4, <3>1, <3>2 DEF Complete, Ready
  <2>7. Follows(l, n)'
    BY <1>1, <2>1 DEF Serves, Follows
  <2>8. Serves(l, n)'
    BY <1>1, <2>1, <2>4, <2>6, <2>7 DEF Serves
  <2>9. Confirmed(n)'
    BY <1>1, <2>1, <2>5 DEF Confirmed
  <2> QED BY <2>8, <2>9
<1> QED BY <1>1, <1>2, <1>3 DEF Kept

(* What else may happen to a kept Site is of this kind: the Owner commits  *)
(* a roster only once it has heard everybody on its own, and the others    *)
(* adopt its latest.                                                       *)
LEMMA KeptThroughChanges ==
  ASSUME KeptSite, TypeOK, History, NEW l \in Node, Kept(l), [Next]_vars,
         ~Tick, \A k \in Node : ~Update(k) /\ ~Send(k)
  PROVE  Kept(l)'
<1>1. /\ up = Node /\ SameDirectory /\ budget \in Budget
      /\ budget.restarts = 0 /\ budget.directories = 0
      /\ budget.lossy = {} /\ budget.slow = {}
  BY DEF Kept, Steady, TypeOK
<1>2. \A n, m \in Node : Reported(n, m)
  BY <1>1 DEF History, Prompt
<1>3. TypeOK'
  BY NextType
<1>4. ASSUME NEW n \in Node
      PROVE  /\ Members(n) = Node /\ Ready(n) /\ MultiNode(n)
             /\ config[n] \in 1..Len(Roster) /\ config[n] \in Nat
             /\ config[n] <= config[n]
             /\ credentials[n] \subseteq credentials'[n]
             /\ config[n] <= config[Owner] /\ config[Owner] <= config[n] + 1
  <2>1. Members(n) = Node /\ Ready(n) /\ MultiNode(n)
        /\ config[n] \in 1..Len(Roster)
    BY KeptNodes
  <2>2. credentials[n] \subseteq credentials'[n]
    BY EnvironmentSteps
  <2>3. config[n] \in Nat /\ config[n] <= config[n]
    BY <2>1
  <2> QED BY <2>1, <2>2, <2>3 DEF Kept, Serves
<1>5. ASSUME UNCHANGED <<coordinator, slots, transport, fresh, directory,
                         config, up>>,
             budget' = budget
      PROVE  Kept(l)'
  <2>1. Steady'
    BY <1>1, <1>5 DEF Steady, SameDirectory
  <2>2. \A n \in Node : Members(n)' = Node
    BY <1>4, <1>5 DEF Members
  <2> QED BY <1>3, <1>4, <1>5, <2>1, <2>2, SiteAssumption,
             KeptThroughEnvironment
<1>6. ASSUME NEW k \in Node,
             PowerOff(k) \/ PowerOn(k) \/ CommitDirectory(k)
      PROVE  FALSE
  BY <1>1, <1>6 DEF PowerOff, PowerOn, CommitDirectory, Change
<1>7. ASSUME NEW k \in Node, PullDirectory(k)
      PROVE  FALSE
  <2>1. PICK source \in DirectorySources(k) :
          directory[source] \notin {NoFence, directory[k]}
    BY <1>7 DEF PullDirectory
  <2>2. source \in Node
    BY <2>1 DEF DirectorySources, BootstrapSources, TypeOK
  <2> QED BY <1>1, <2>1, <2>2 DEF SameDirectory
<1>8. ASSUME NEW m \in Node, NEW n \in Node, ReceiveLate(m, n)
      PROVE  FALSE
  BY <1>2, <1>8 DEF ReceiveLate, Underway, Reported
<1>9. ASSUME NEW k \in Node, CommitRoster(k)
      PROVE  Kept(l)'
  <2>1. k = Owner /\ Consistent(Owner) /\ config[Owner] < Len(Roster)
    BY <1>4, <1>9 DEF CommitRoster, Writable
  <2>2. config' = [config EXCEPT ![Owner] = config[Owner] + 1]
    BY <1>9, <2>1 DEF CommitRoster
  <2>3. \A n \in Node : config[n] = config[Owner]
    <3> SUFFICES ASSUME NEW n \in Node \ {Owner}
                 PROVE  config[n] = config[Owner]
      OBVIOUS
    <3>1. n \in Live(Owner)
      BY KeptNodes, SiteAssumption
    <3>2. endpoints[Owner][n].roster = config[Owner]
      BY <2>1, <3>1 DEF Consistent, Current
    <3>3. endpoints[Owner][n].roster <= config[n]
      BY <1>2, SiteAssumption DEF Reported
    <3> QED BY <1>4, <3>2, <3>3, SiteAssumption
  <2>4. /\ config'[Owner] = config[Owner] + 1
        /\ \A n \in Node \ {Owner} : config'[n] = config[Owner]
    BY <2>2, <2>3, SiteAssumption DEF TypeOK
  <2>5. \A n \in Node : /\ config[n] <= config'[n]
                        /\ config'[n] <= config'[Owner]
                        /\ config'[Owner] <= config'[n] + 1
    BY <1>4, <2>3, <2>4, SiteAssumption
  <2>6. Roster[config[Owner] + 1] = Node
    <3>1. /\ config[Owner] \in 1..Len(Roster)
          /\ config[Owner] + 1 \in 1..Len(Roster)
          /\ config[Owner] <= config[Owner] + 1
      BY <1>4, <2>1, SiteAssumption
    <3>2. Roster[config[Owner]] = Node /\ Cardinality(Node) > 1
      BY <1>4, SiteAssumption DEF Members, KeptSite
    <3> QED BY <3>1, <3>2 DEF KeptSite
  <2>7. \A n \in Node : Members(n)' = Node
    BY <1>4, <2>3, <2>4, <2>6, SiteAssumption DEF Members
  <2>8. /\ UNCHANGED <<coordinator, slots, transport, fresh, directory>>
        /\ up' = up
        /\ budget' = [budget EXCEPT !.rosters = budget.rosters - 1]
    BY <1>9 DEF CommitRoster, Change
  <2>9. Steady'
    <3>1. /\ budget'.restarts = 0 /\ budget'.directories = 0
          /\ budget'.lossy = {} /\ budget'.slow = {}
      BY <1>1, <2>8 DEF Budget
    <3> QED BY <1>1, <2>8, <3>1 DEF Steady, SameDirectory
  <2> QED BY <1>3, <1>4, <2>5, <2>7, <2>8, <2>9, KeptThroughEnvironment
<1>10. ASSUME NEW k \in Node, AdoptRoster(k)
       PROVE  Kept(l)'
  <2>1. /\ config' = [config EXCEPT ![k] = config[Owner]]
        /\ UNCHANGED <<coordinator, slots, transport, fresh, directory>>
        /\ up' = up /\ budget' = budget
    BY <1>10 DEF AdoptRoster
  <2>2. \A n \in Node :
          config'[n] = IF n = k THEN config[Owner] ELSE config[n]
    BY <2>1 DEF TypeOK
  <2>3. config'[Owner] = config[Owner]
    BY <2>2, SiteAssumption
  <2>4. \A n \in Node : /\ config[n] <= config'[n]
                        /\ config'[n] <= config'[Owner]
                        /\ config'[Owner] <= config'[n] + 1
    BY <1>4, <2>2, <2>3, SiteAssumption
  <2>5. \A n \in Node : Members(n)' = Node
    BY <1>4, <2>2, SiteAssumption DEF Members
  <2>6. Steady'
    BY <1>1, <2>1 DEF Steady, SameDirectory
  <2> QED BY <1>3, <1>4, <2>1, <2>4, <2>5, <2>6, KeptThroughEnvironment
<1>11. ASSUME NEW k \in Node, ProvisionCredentials(k)
       PROVE  Kept(l)'
  BY <1>5, <1>11 DEF ProvisionCredentials
<1>12. ASSUME Settle \/ UNCHANGED vars
       PROVE  Kept(l)'
  BY <1>5, <1>12 DEF Settle, vars, environment
<1> QED BY <1>6, <1>7, <1>8, <1>9, <1>10, <1>11, <1>12 DEF Next

(* For any Site of two, whatever Directories its nodes hold and however    *)
(* they join, and any Site of three with one Directory: an established     *)
(* Leader keeps leading while its members adopt further rosters, however   *)
(* many there are and in whatever order they reach the members.            *)
THEOREM EstablishedLeaderLeadsOn ==
  ASSUME KeptSite
  PROVE  Spec => RosterKeepsLeader
<1> SUFFICES ASSUME NEW l \in Node
             PROVE  Spec =>
                      []((\E r \in 1..Len(Roster) : Established(r, l))
                           => [](\A n \in Members(Owner) : leader[n] = l))
  BY DEF RosterKeepsLeader
<1>1. Spec => []History
  BY HistoryKept, TypeCorrect, PTL DEF Spec
<1>2. TypeOK /\ History =>
        ((\E r \in 1..Len(Roster) : Established(r, l)) => Kept(l))
  BY EstablishedIsKept
<1>3. TypeOK /\ History /\ Kept(l) /\ [Next]_vars => Kept(l)'
  BY KeptThroughUpdate, KeptThroughSend, KeptThroughTick, KeptThroughChanges
<1>4. Kept(l) => \A n \in Members(Owner) : leader[n] = l
  BY SiteAssumption DEF Kept, Serves, Follows
<1> QED BY <1>1, <1>2, <1>3, <1>4, TypeCorrect, PTL DEF Spec
=============================================================================
