------------------------ MODULE GroupElection_proofs ------------------------
(***************************************************************************)
(* Theorems about the Group Leader election for any members, rosters and   *)
(* assignments, any losses, restarts and changes of its inputs, and any    *)
(* disagreement of the members about them; the last section is about       *)
(* Groups of two and three.                                                *)
(***************************************************************************)
EXTENDS GroupElection, FiniteSetTheorems, WellFoundedInduction, TLAPS

-----------------------------------------------------------------------------
(* The arithmetic of terms, as SiteElection_proofs has it *)

(* Any nonempty set of terms has a largest one, so that the newest term a  *)
(* coordinator has observed is well defined.                               *)
LEMMA LargestTerm ==
  ASSUME NEW S \in SUBSET Term, S # {}
  PROVE  \E t \in S : \A u \in S : u <= t
<1> DEFINE Above(t) == t..TermLimit
           Tails == {Above(t) : t \in S}
<1> USE TermLimitAssumption DEF Term
<1>1. \A t \in S : IsFiniteSet(Above(t)) /\ Above(t) \in SUBSET Term
  <2> SUFFICES ASSUME NEW t \in S
               PROVE IsFiniteSet(t..TermLimit) /\ t..TermLimit \in SUBSET Term
    OBVIOUS
  <2>1. t \in Int /\ TermLimit \in Int /\ t >= 0
    OBVIOUS
  <2> QED BY <2>1, FS_Interval
<1>2. Tails \subseteq FiniteSubsetsOf(Term) /\ Tails # {}
  BY <1>1 DEF FiniteSubsetsOf
<1>3. PICK g \in Tails : \A h \in Tails : ~(<<h, g>> \in StrictSubsetOrdering(Term))
  BY <1>2, WFMin, FS_StrictSubsetOrderingWellFounded
<1>4. PICK t \in S : g = Above(t)
  OBVIOUS
<1>5. \A u \in S : u <= t
  <2> SUFFICES ASSUME NEW u \in S, ~(u <= t) PROVE FALSE
    OBVIOUS
  <2>1. Above(u) \in Tails
    OBVIOUS
  <2>2. Above(u) \subseteq Above(t) /\ t \in Above(t) /\ t \notin Above(u)
    OBVIOUS
  <2>3. <<Above(u), Above(t)>> \in StrictSubsetOrdering(Term)
    BY <1>1, <2>2 DEF StrictSubsetOrdering
  <2> QED BY <1>3, <1>4, <2>1, <2>3
<1> QED BY <1>5

(* A decision names a term, and one no older than the node's own, provided *)
(* that the node counts its own term among those it observed.              *)
LEMMA DecisionGrows ==
  ASSUME NEW current \in Term, NEW led, NEW lost \in Term,
         NEW lostLeader, NEW winner, NEW isLocal \in BOOLEAN,
         NEW winnerTerm \in Term, NEW admitted \in BOOLEAN,
         NEW observed \in Term, observed >= current
  PROVE  LET d == DecideRoleTerm(current, led, lost, lostLeader,
                                 winner, isLocal, winnerTerm, admitted,
                                 observed)
         IN  d.term \in Term /\ d.term >= current
<1> USE TermLimitAssumption DEF Term, Larger
<1>1. CASE isLocal
  <2>1. /\ NextRoleTerm(current) \in Term
        /\ NextRoleTerm(current) >= current
        /\ \A t \in Term : t >= current =>
             NextRoleTerm(t) \in Term /\ NextRoleTerm(t) >= current
    BY DEF NextRoleTerm
  <2>2. LocalTerm(current, led, lost, lostLeader, winner,
                  observed) \in Term
    BY <2>1 DEF LocalTerm
  <2>3. LocalTerm(current, led, lost, lostLeader, winner,
                  observed) >= current
    BY <2>1 DEF LocalTerm
  <2> QED BY <1>1, <2>2, <2>3 DEF DecideRoleTerm
<1>2. CASE ~isLocal
  <2>1. RefusedTerm(current, led, lost, lostLeader, winner,
                    admitted) \in Term
    BY DEF RefusedTerm
  <2>2. RefusedTerm(current, led, lost, lostLeader, winner,
                    admitted) >= current
    BY DEF RefusedTerm
  <2>3. RemoteTermAccepted(current, led, lost, lostLeader,
                           winner, winnerTerm) => winnerTerm >= current
    BY DEF RemoteTermAccepted
  <2> QED BY <1>2, <2>1, <2>2, <2>3 DEF DecideRoleTerm
<1> QED BY <1>1, <1>2

(* A winner other than the Leader followed last - the one led by, or the   *)
(* one lost when there is none - is decided ready only for a newer term,   *)
(* short of saturation.                                                    *)
LEMMA DecisionRenews ==
  ASSUME NEW current \in Term, NEW led, NEW lost \in Term,
         NEW lostLeader, NEW winner, NEW isLocal \in BOOLEAN,
         NEW winnerTerm \in Term, NEW admitted \in BOOLEAN,
         NEW observed \in Term,
         led # None \/ lostLeader # None,
         winner # IF led # None THEN led ELSE lostLeader,
         DecideRoleTerm(current, led, lost, lostLeader, winner,
                        isLocal, winnerTerm, admitted, observed).ready
  PROVE  LET last == IF led # None THEN current ELSE lost
         IN  last = TermLimit \/
             DecideRoleTerm(current, led, lost, lostLeader,
                            winner, isLocal, winnerTerm, admitted,
                            observed).term > last
<1> USE TermLimitAssumption DEF Term, Larger
<1>1. ~RoleIdEqual(led, winner)
  BY DEF RoleIdEqual
<1>2. ~(led = None /\ RoleIdEqual(lostLeader, winner))
  BY DEF RoleIdEqual
<1>3. ~(led = None /\ lostLeader = None)
  OBVIOUS
<1>4. CASE isLocal
  <2>1. LocalTerm(current, led, lost, lostLeader, winner,
                  observed)
          = NextRoleTerm(Larger(Larger(current, lost), observed))
    BY <1>1, <1>2, <1>3 DEF LocalTerm
  <2> QED BY <1>4, <2>1 DEF DecideRoleTerm, NextRoleTerm
<1>5. CASE ~isLocal
  <2>1. RemoteTermAccepted(current, led, lost, lostLeader,
                           winner, winnerTerm)
    BY <1>5 DEF DecideRoleTerm
  <2>2. winnerTerm > Larger(current, lost)
    BY <1>1, <1>2, <1>3, <2>1 DEF RemoteTermAccepted
  <2> QED BY <1>5, <2>1, <2>2 DEF DecideRoleTerm
<1> QED BY <1>4, <1>5

-----------------------------------------------------------------------------
(* What a well-typed state gives an election *)

(* What a member has heard of, and the members it knows, are nodes. *)
LEMMA LiveAreNodes ==
  ASSUME TypeOK, NEW n \in Node
  PROVE  /\ config[n] # 0 => Members(n) \subseteq Node
         /\ Live(n) \subseteq Node \ {n} /\ LiveComplete(n) \subseteq Live(n)
<1>1. config[n] \in 0..Len(Roster)
  BY DEF TypeOK
<1>2. config[n] # 0 => Members(n) \subseteq Node
  BY <1>1, GroupAssumption DEF Members
<1>3. Live(n) \subseteq Node \ {n} /\ LiveComplete(n) \subseteq Live(n)
  BY <1>2 DEF Live, LiveComplete, Enrolled
<1> QED BY <1>2, <1>3

(* Candidates are nodes, and others than the member itself are live. *)
LEMMA CandidatesAreNodes ==
  ASSUME TypeOK, NEW n \in Node
  PROVE  /\ Candidates(n) \subseteq Node
         /\ \A c \in Candidates(n) : c # n => c \in LiveComplete(n)
BY LiveAreNodes DEF Candidates

(* A winner is one of the candidates it was chosen from. *)
LEMMA WinnersAreCandidates ==
  ASSUME TypeOK, NEW n \in Node, NEW w \in Winners(n)
  PROVE  w = None \/ w \in Candidates(n)
BY DEF Winners, Incumbent, Endorsed, Assigned

(* The newest observed term is a term, and never older than the member's. *)
LEMMA ObservedTermGrows ==
  ASSUME TypeOK, NEW n \in Node
  PROVE  ObservedTerm(n) \in Term /\ ObservedTerm(n) >= term[n]
<1> DEFINE Heard == {slots[n][m].term : m \in {c \in Candidates(n) \ {n} :
                                                 slots[n][c].admitted}}
<1>1. term[n] \in Term /\ \A m \in Node : slots[n][m] \in Slot
  BY DEF TypeOK
<1>2. Heard \cup {term[n]} \in SUBSET Term
  BY <1>1, CandidatesAreNodes DEF Slot
<1>3. PICK t \in Heard \cup {term[n]} : \A u \in Heard \cup {term[n]} : u <= t
  BY <1>2, LargestTerm
<1>4. ObservedTerm(n) \in Heard \cup {term[n]} /\
      \A u \in Heard \cup {term[n]} : u <= ObservedTerm(n)
  BY <1>3 DEF ObservedTerm
<1> QED BY <1>1, <1>2, <1>4, TermLimitAssumption DEF Term

(* The term taken under a winner is a term. *)
LEMMA WinnerTermType ==
  ASSUME TypeOK, NEW n \in Node, NEW w \in Node
  PROVE  WinnerTerm(n, w) \in Term /\ Admitted(n, w) \in BOOLEAN
<1>1. slots[n][w] \in Slot
  BY DEF TypeOK
<1> QED BY <1>1, TermLimitAssumption DEF WinnerTerm, Admitted, Slot, Term

(* Whatever wins, the term it leads with is no older than the member's. *)
LEMMA DecisionIsNewer ==
  ASSUME TypeOK, NEW n \in Node, NEW w \in Node
  PROVE  Decision(n, w).term \in Term /\ Decision(n, w).term >= term[n]
<1>1. term[n] \in Term /\ suspended[n].term \in Term
  BY DEF TypeOK
<1>2. /\ WinnerTerm(n, w) \in Term /\ Admitted(n, w) \in BOOLEAN
      /\ ObservedTerm(n) \in Term /\ ObservedTerm(n) >= term[n]
  BY WinnerTermType, ObservedTermGrows
<1>3. (w = n) \in BOOLEAN
  OBVIOUS
<1> HIDE DEF WinnerTerm, Admitted, ObservedTerm, DecideRoleTerm
<1> QED BY <1>1, <1>2, <1>3, DecisionGrows DEF Decision

(* What a member publishes is a view. *)
LEMMA ViewOfType ==
  ASSUME TypeOK, NEW n \in Node, NEW w \in AnyNode
  PROVE  ViewOf(n, w) \in View
<1>1. /\ config[n] \in 0..Len(Roster) /\ \A m \in Node : slots[n][m] \in Slot
      /\ assignment[n] \in Assignment \cup {NoAssignment}
  BY DEF TypeOK
<1>2. ViewOf(n, w).digest \in Digest
  BY <1>1 DEF ViewOf, Digest
<1>3. ViewOf(n, w).seen \in SUBSET (Node \X BOOLEAN)
  <2>1. (n \in complete) \in BOOLEAN
    OBVIOUS
  <2>2. \A m \in Live(n) : <<m, slots[n][m].complete>> \in Node \X BOOLEAN
    BY <1>1, LiveAreNodes DEF Slot
  <2>3. ViewOf(n, w).seen = {<<n, n \in complete>>} \cup
                            {<<m, slots[n][m].complete>> : m \in Live(n)}
    BY DEF ViewOf
  <2>4. <<n, n \in complete>> \in Node \X BOOLEAN
    BY <2>1
  <2> HIDE DEF ViewOf, Live
  <2> QED BY <2>2, <2>3, <2>4
<1>4. ViewOf(n, w).revision \in Nat
  BY <1>1, GroupAssumption DEF ViewOf, AssignmentRevision, NoAssignment
<1> QED BY <1>2, <1>3, <1>4 DEF ViewOf, View, Digest

(* Capturing a transition keeps the type of the remembered views. *)
LEMMA CapturedViews ==
  ASSUME NEW S, NEW earlier \in Seq(S), NEW v \in S
  PROVE  CaptureView(earlier, v) \in Seq(S)
<1>1. CASE Len(earlier) < MaxViews
  BY <1>1 DEF CaptureView
<1>2. CASE ~(Len(earlier) < MaxViews)
  <2>1. earlier # <<>>
    BY <1>2 DEF MaxViews
  <2>2. Tail(earlier) \in Seq(S)
    BY <2>1
  <2> QED BY <1>2, <2>2 DEF CaptureView
<1> QED BY <1>1, <1>2

(* What an election keeps of them are views. *)
LEMMA ViewsAfterType ==
  ASSUME TypeOK, NEW n \in Node, NEW v \in View
  PROVE  ViewsAfter(n, v) \in Seq(View)
<1>1. views[n] \in Seq(View) /\ view[n] \in View
  BY DEF TypeOK
<1>2. CaptureView(views[n], view[n]) \in Seq(View)
  BY <1>1, CapturedViews
<1>3. EarlierViews(n, v) \in Seq(View)
  BY <1>1, <1>2 DEF EarlierViews
<1> QED BY <1>3 DEF ViewsAfter

-----------------------------------------------------------------------------
(* Types *)

CoordinatorType(n) ==
  /\ leader'[n] \in AnyNode
  /\ term'[n] \in Term
  /\ lease'[n] \in 0..LeaseTicks
  /\ quorum'[n] \in BOOLEAN
  /\ view'[n] \in View
  /\ views'[n] \in Seq(View)
  /\ suspended'[n] \in [leader : AnyNode, term : Term]

(* Only the coordinator of n changes. *)
OthersKeep(n) ==
  /\ leader' = [leader EXCEPT ![n] = leader'[n]]
  /\ term' = [term EXCEPT ![n] = term'[n]]
  /\ lease' = [lease EXCEPT ![n] = lease'[n]]
  /\ quorum' = [quorum EXCEPT ![n] = quorum'[n]]
  /\ view' = [view EXCEPT ![n] = view'[n]]
  /\ views' = [views EXCEPT ![n] = views'[n]]
  /\ suspended' = [suspended EXCEPT ![n] = suspended'[n]]

(* What the assignments of an election leave in the state. *)
LEMMA OutcomeValues ==
  ASSUME TypeOK, NEW n \in Node, NEW l, NEW t, NEW e, NEW q, NEW v, NEW s,
         Becomes(n, l, t, e, q), Concludes(n, v, s)
  PROVE  /\ leader'[n] = l /\ term'[n] = t /\ lease'[n] = e /\ quorum'[n] = q
         /\ view'[n] = v /\ views'[n] = ViewsAfter(n, v) /\ suspended'[n] = s
         /\ OthersKeep(n)
BY DEF TypeOK, Becomes, Concludes, OthersKeep

(* Suspending an authority keeps its types. *)
LEMMA SuspendType ==
  ASSUME TypeOK, NEW n \in Node
  PROVE  Suspend(n) \in [leader : AnyNode, term : Term]
BY DEF TypeOK, Suspend

(* Values that forgetting leaves. *)
LEMMA EmptyTypes ==
  /\ None \in AnyNode /\ 0 \in Term /\ 0 \in 0..LeaseTicks
  /\ NobodySuspended \in [leader : AnyNode, term : Term]
  /\ NoDigest \in Digest /\ NoView \in View /\ Vacant \in Slot
  /\ 0 \in 0..Len(Roster) /\ 0 \in 0..ProbeInterval - 1
<1>1. /\ None \in AnyNode /\ 0 \in Term /\ 0 \in 0..LeaseTicks
      /\ 0 \in 0..Len(Roster) /\ 0 \in 0..ProbeInterval - 1
  BY GroupAssumption, TermLimitAssumption DEF AnyNode, Term
<1>2. NoDigest \in Digest
  BY <1>1 DEF NoDigest, Digest
<1>3. NoView \in View /\ Vacant \in Slot
  BY <1>1, <1>2 DEF NoView, View, Vacant, Slot
<1> QED BY <1>1, <1>2, <1>3 DEF NobodySuspended

(* Every outcome of an election keeps the types. *)
LEMMA ElectType ==
  ASSUME TypeOK, NEW n \in Node, NEW w \in Winners(n), NEW v,
         v = ViewOf(n, w),
         \/ LoseQuorum(n, v) \/ FindNoWinner(n, v)
         \/ RefuseTerm(n, v) \/ LeadOrFollow(n, v)
  PROVE  CoordinatorType(n) /\ OthersKeep(n)
<1>1. w \in AnyNode /\ (w # None => w \in Node)
  BY WinnersAreCandidates, CandidatesAreNodes DEF AnyNode
<1>2. v.digest.winner = w
  BY DEF ViewOf
<1>3. v \in View /\ ViewsAfter(n, v) \in Seq(View)
  BY <1>1, ViewOfType, ViewsAfterType
<1>4. /\ term[n] \in Term /\ Larger(term[n], 1) \in Term
      /\ Suspend(n) \in [leader : AnyNode, term : Term]
  <2>1. term[n] \in Term
    BY DEF TypeOK
  <2>2. Larger(term[n], 1) \in Term
    BY <2>1, TermLimitAssumption DEF Term, Larger
  <2> QED BY <2>1, <2>2, SuspendType
<1>5. ASSUME NEW l \in AnyNode, NEW t \in Term, NEW e \in 0..LeaseTicks,
             NEW q \in BOOLEAN, NEW s \in [leader : AnyNode, term : Term],
             Becomes(n, l, t, e, q), Concludes(n, v, s)
      PROVE  CoordinatorType(n) /\ OthersKeep(n)
  BY <1>3, <1>5, OutcomeValues DEF CoordinatorType
<1>6. CASE LoseQuorum(n, v)
  BY <1>4, <1>5, <1>6, EmptyTypes DEF LoseQuorum
<1>7. CASE FindNoWinner(n, v)
  BY <1>4, <1>5, <1>7, EmptyTypes DEF FindNoWinner
<1>8. CASE RefuseTerm(n, v)
  <2>1. Decision(n, w).term \in Term
    BY <1>1, <1>2, <1>8, DecisionIsNewer DEF RefuseTerm
  <2> QED BY <1>2, <1>4, <1>5, <1>8, <2>1, EmptyTypes DEF RefuseTerm
<1>9. CASE LeadOrFollow(n, v)
  <2>1. w \in Node
    BY <1>1, <1>2, <1>9 DEF LeadOrFollow
  <2>2. Decision(n, w).term \in Term
    BY <2>1, DecisionIsNewer
  <2>3. slots[n][w].ttl \in 0..LeaseTicks /\ LeaseTicks \in 0..LeaseTicks
    BY <2>1, GroupAssumption DEF TypeOK, Slot
  <2> QED BY <1>1, <1>2, <1>5, <1>9, <2>2, <2>3, EmptyTypes DEF LeadOrFollow
<1> QED BY <1>6, <1>7, <1>8, <1>9

(* An update is one of these outcomes. *)
LEMMA UpdateOutcome ==
  ASSUME TypeOK, NEW n \in Node, Update(n)
  PROVE  CoordinatorType(n) /\ OthersKeep(n)
BY ElectType DEF Update

(* A coordination step keeps the types. *)
LEMMA UpdateType ==
  ASSUME TypeOK, NEW n \in Node, Update(n)
  PROVE  TypeOK'
<1>1. CoordinatorType(n) /\ OthersKeep(n)
  BY UpdateOutcome
<1>2. /\ leader' \in [Node -> AnyNode] /\ term' \in [Node -> Term]
      /\ lease' \in [Node -> 0..LeaseTicks] /\ quorum' \in [Node -> BOOLEAN]
      /\ view' \in [Node -> View]
      /\ suspended' \in [Node -> [leader : AnyNode, term : Term]]
  BY <1>1 DEF TypeOK, CoordinatorType, OthersKeep
<1>3. views' \in [Node -> Seq(View)]
  BY <1>1 DEF TypeOK, CoordinatorType, OthersKeep
<1>4. slots' \in [Node -> [Node -> Slot]]
  BY EmptyTypes DEF TypeOK, Update
<1>5. seenRoster' \in [Node -> 0..Len(Roster)]
  BY DEF TypeOK, Update
<1>6. seenAssignment' \in [Node -> Nat]
  <2>1. AssignmentRevision(n) \in Nat
    BY GroupAssumption DEF TypeOK, AssignmentRevision, NoAssignment
  <2> QED BY <2>1 DEF TypeOK, Update
<1>7. fresh' \subseteq Node /\ UNCHANGED <<inputs, transport, up, calm, budget>>
  BY DEF TypeOK, Update
<1> QED BY <1>2, <1>3, <1>4, <1>5, <1>6, <1>7 DEF TypeOK, inputs, transport

(* The types hold initially. *)
LEMMA InitType == Init => TypeOK
<1> SUFFICES ASSUME Init PROVE TypeOK
  OBVIOUS
<1>1. /\ config \in [Node -> 0..Len(Roster)]
      /\ siteLeader \in [Node -> AnyNode]
      /\ assignment \in [Node -> Assignment \cup {NoAssignment}]
      /\ directories \subseteq Node /\ complete \subseteq Node
      /\ budget \in GroupBudget
  BY GroupAssumption DEF Init, AnyNode
<1>2. views \in [Node -> Seq(View)]
  BY DEF Init
<1> QED BY <1>1, <1>2, EmptyTypes DEF Init, TypeOK

(* A slot filled from a heartbeat is a slot. *)
LEMMA SlotAfterType ==
  ASSUME TypeOK, NEW n \in Node, NEW m \in Node
  PROVE  SlotAfter(n, m) \in Slot
<1>1. /\ slots[m][n] \in Slot /\ term[n] \in Term
      /\ config[n] \in 0..Len(Roster) /\ view[n].digest \in Digest
  BY DEF TypeOK, View
<1>2. LeaseTicks \in 0..LeaseTicks
  BY GroupAssumption
<1> DEFINE stale == /\ n \in Eligible /\ leader[m] = n /\ LeaseActive(m)
                    /\ term[n] < term[m]
           told == IF Wire(n, m) = 4 THEN 0 ELSE config[n]
           digest == IF Wire(n, m) = 12 THEN view[n].digest ELSE NoDigest
           holds == Wire(n, m) = 12 /\ n \in complete
<1>3. /\ (~stale) \in BOOLEAN /\ holds \in BOOLEAN
      /\ told \in 0..Len(Roster) /\ digest \in Digest
  BY <1>1, EmptyTypes
<1>4. SlotAfter(n, m) =
        IF ~Admissible(n, m) THEN slots[m][n]
        ELSE [ttl |-> LeaseTicks, term |-> term[n], admitted |-> ~stale,
              roster |-> told, digest |-> digest, complete |-> holds]
  BY DEF SlotAfter
<1> HIDE DEF stale, told, digest, holds
<1> QED BY <1>1, <1>2, <1>3, <1>4 DEF Slot

(* A heartbeat cycle keeps the types. *)
LEMMA SendType ==
  ASSUME TypeOK, NEW n \in Node, Send(n)
  PROVE  TypeOK'
<1>1. PICK now :
        /\ slots' = [m \in Node |->
             IF m \in now THEN [slots[m] EXCEPT ![n] = SlotAfter(n, m)]
             ELSE slots[m]]
        /\ known' = [m \in Node |->
             IF m \in now THEN [known[m] EXCEPT ![n] = KnownAfter(n, m)]
             ELSE known[m]]
        /\ fresh' = fresh \ now
  BY DEF Send
<1>2. slots' \in [Node -> [Node -> Slot]]
  BY <1>1, SlotAfterType DEF TypeOK
<1>3. known' \in [Node -> [Node -> {0, 6, 12}]]
  <2>1. \A m \in Node : KnownAfter(n, m) \in {0, 6, 12}
    <3> SUFFICES ASSUME NEW m \in Node PROVE KnownAfter(n, m) \in {0, 6, 12}
      OBVIOUS
    <3>1. known[m][n] \in {0, 6, 12} /\ Wire(n, m) \in {4, 6, 12}
      BY DEF TypeOK, Wire
    <3> QED BY <3>1 DEF KnownAfter, Larger
  <2> QED BY <1>1, <2>1 DEF TypeOK
<1>4. cycle' \in [Node -> 0..ProbeInterval - 1]
  <2>1. \A c \in 0..ProbeInterval - 1 : (c + 1) % ProbeInterval
                                          \in 0..ProbeInterval - 1
    <3> SUFFICES ASSUME NEW c \in Nat
                 PROVE  (c + 1) % ProbeInterval \in 0..ProbeInterval - 1
      BY GroupAssumption
    <3>1. ProbeInterval \in Nat /\ ProbeInterval > 0
      BY GroupAssumption
    <3> QED BY <3>1
  <2>2. cycle \in [Node -> 0..ProbeInterval - 1] /\ 0 \in 0..ProbeInterval - 1
    BY EmptyTypes DEF TypeOK
  <2>3. \E c \in {0, (cycle[n] + 1) % ProbeInterval} :
          cycle' = [cycle EXCEPT ![n] = c]
    BY DEF Send
  <2> QED BY <2>1, <2>2, <2>3
<1>5. /\ spoke' = spoke \cup {n} /\ fresh' \subseteq fresh
      /\ UNCHANGED <<inputs, coordinator, up, calm, budget>>
  BY <1>1 DEF Send
<1> QED BY <1>2, <1>3, <1>4, <1>5 DEF TypeOK, inputs, coordinator

(* Counting down stays in the range. *)
LEMMA LessType ==
  ASSUME NEW limit \in Nat, NEW t \in 0..limit
  PROVE  Less(t) \in 0..limit
BY DEF Less

(* The passing of an interval keeps the types. *)
LEMMA TickType ==
  ASSUME TypeOK, Tick
  PROVE  TypeOK'
<1>0. LeaseTicks \in Nat
  BY GroupAssumption
<1>1. lease' \in [Node -> 0..LeaseTicks]
  BY <1>0, LessType DEF Tick, TypeOK
<1>2. slots' \in [Node -> [Node -> Slot]]
  <2>1. \A n, m \in Node : [slots[n][m] EXCEPT !.ttl = Less(@)] \in Slot
    <3> SUFFICES ASSUME NEW n \in Node, NEW m \in Node
                 PROVE [slots[n][m] EXCEPT !.ttl = Less(@)] \in Slot
      OBVIOUS
    <3>1. slots[n][m] \in Slot
      BY DEF TypeOK
    <3>2. Less(slots[n][m].ttl) \in 0..LeaseTicks
      BY <1>0, <3>1, LessType DEF Slot
    <3> QED BY <3>1, <3>2 DEF Slot
  <2>2. slots' = [n \in Node |-> [m \in Node |->
                   [slots[n][m] EXCEPT !.ttl = Less(@)]]]
    BY DEF Tick
  <2> QED BY <2>1, <2>2
<1> QED BY <1>1, <1>2 DEF Tick, TypeOK, inputs

(* Spending one item of the budget leaves a budget. *)
LEMMA BudgetSpent ==
  ASSUME NEW b \in GroupBudget,
         NEW kind \in {"restarts", "rosters", "assignments", "siteLeaders"},
         b[kind] > 0
  PROVE  [b EXCEPT ![kind] = b[kind] - 1] \in GroupBudget
<1>1. /\ b.restarts \in Nat /\ b.rosters \in Nat /\ b.assignments \in Nat
      /\ b.siteLeaders \in Nat /\ b.lossy \in SUBSET (Node \X Node)
      /\ b = [restarts |-> b.restarts, rosters |-> b.rosters,
              assignments |-> b.assignments, siteLeaders |-> b.siteLeaders,
              lossy |-> b.lossy]
  BY DEF GroupBudget
<1>2. CASE kind = "restarts"
  <2>1. b.restarts - 1 \in Nat
    BY <1>1, <1>2
  <2>2. [b EXCEPT !.restarts = b.restarts - 1] =
          [restarts |-> b.restarts - 1, rosters |-> b.rosters,
           assignments |-> b.assignments, siteLeaders |-> b.siteLeaders,
           lossy |-> b.lossy]
    BY <1>1
  <2> QED BY <1>1, <1>2, <2>1, <2>2 DEF GroupBudget
<1>3. CASE kind = "rosters"
  <2>1. b.rosters - 1 \in Nat
    BY <1>1, <1>3
  <2>2. [b EXCEPT !.rosters = b.rosters - 1] =
          [restarts |-> b.restarts, rosters |-> b.rosters - 1,
           assignments |-> b.assignments, siteLeaders |-> b.siteLeaders,
           lossy |-> b.lossy]
    BY <1>1
  <2> QED BY <1>1, <1>3, <2>1, <2>2 DEF GroupBudget
<1>4. CASE kind = "assignments"
  <2>1. b.assignments - 1 \in Nat
    BY <1>1, <1>4
  <2>2. [b EXCEPT !.assignments = b.assignments - 1] =
          [restarts |-> b.restarts, rosters |-> b.rosters,
           assignments |-> b.assignments - 1, siteLeaders |-> b.siteLeaders,
           lossy |-> b.lossy]
    BY <1>1
  <2> QED BY <1>1, <1>4, <2>1, <2>2 DEF GroupBudget
<1>5. CASE kind = "siteLeaders"
  <2>1. b.siteLeaders - 1 \in Nat
    BY <1>1, <1>5
  <2>2. [b EXCEPT !.siteLeaders = b.siteLeaders - 1] =
          [restarts |-> b.restarts, rosters |-> b.rosters,
           assignments |-> b.assignments, siteLeaders |-> b.siteLeaders - 1,
           lossy |-> b.lossy]
    BY <1>1
  <2> QED BY <1>1, <1>5, <2>1, <2>2 DEF GroupBudget
<1> QED BY <1>2, <1>3, <1>4, <1>5

(* A failure or a change is taken from the budget. *)
LEMMA ChangeSpends ==
  ASSUME TypeOK,
         NEW kind \in {"restarts", "rosters", "assignments", "siteLeaders"},
         Change(kind)
  PROVE  budget' \in GroupBudget
<1>1. budget \in GroupBudget
  BY DEF TypeOK
<1>2. budget[kind] > 0 /\ budget' = [budget EXCEPT ![kind] = budget[kind] - 1]
  BY DEF Change
<1> QED BY <1>1, <1>2, BudgetSpent

(* Power cycles keep the types. *)
LEMMA PowerType ==
  ASSUME TypeOK, NEW n \in Node, PowerOff(n) \/ PowerOn(n)
  PROVE  TypeOK'
<1>1. CASE PowerOff(n)
  <2>1. /\ siteLeader' \in [Node -> AnyNode]
        /\ leader' \in [Node -> AnyNode] /\ term' \in [Node -> Term]
        /\ lease' \in [Node -> 0..LeaseTicks]
        /\ quorum' \in [Node -> BOOLEAN]
        /\ seenRoster' \in [Node -> 0..Len(Roster)]
        /\ seenAssignment' \in [Node -> Nat]
    BY <1>1, EmptyTypes DEF PowerOff, TypeOK
  <2>2. /\ view' \in [Node -> View]
        /\ suspended' \in [Node -> [leader : AnyNode, term : Term]]
    BY <1>1, EmptyTypes DEF PowerOff, TypeOK
  <2>3. views' \in [Node -> Seq(View)]
    BY <1>1 DEF PowerOff, TypeOK
  <2>4. slots' \in [Node -> [Node -> Slot]]
    BY <1>1, EmptyTypes DEF PowerOff, TypeOK
  <2>5. /\ known' \in [Node -> [Node -> {0, 6, 12}]]
        /\ cycle' \in [Node -> 0..ProbeInterval - 1]
    BY <1>1, EmptyTypes DEF PowerOff, TypeOK
  <2>6. budget' \in GroupBudget
    <3>1. budget \in GroupBudget
      BY DEF TypeOK
    <3>2. /\ budget["restarts"] > 0
          /\ budget' = [budget EXCEPT !["restarts"] = budget["restarts"] - 1]
      BY <1>1 DEF PowerOff
    <3> QED BY <3>1, <3>2, BudgetSpent
  <2> QED BY <1>1, <2>1, <2>2, <2>3, <2>4, <2>5, <2>6 DEF PowerOff, TypeOK
<1>2. CASE PowerOn(n)
  BY <1>2 DEF PowerOn, TypeOK, inputs, coordinator, transport
<1> QED BY <1>1, <1>2

(* Changes of what the members see as Site Leader keep the types. *)
LEMMA SiteLeaderType ==
  ASSUME TypeOK, NEW n \in Node, NEW m \in Node,
         SiteLeaderChanges(n) \/ HearSiteLeader(n, m)
  PROVE  TypeOK'
<1>1. siteLeader' \in [Node -> AnyNode]
  <2>1. siteLeader \in [Node -> AnyNode] /\ Node \cup {None} = AnyNode
    BY DEF TypeOK, AnyNode
  <2>2. PICK l \in AnyNode : siteLeader' = [siteLeader EXCEPT ![n] = l]
    BY <2>1 DEF SiteLeaderChanges, HearSiteLeader
  <2> QED BY <2>1, <2>2
<1>2. budget' \in GroupBudget
  <2>1. CASE SiteLeaderChanges(n)
    BY <2>1, ChangeSpends DEF SiteLeaderChanges
  <2>2. CASE HearSiteLeader(n, m)
    BY <2>2 DEF HearSiteLeader, TypeOK
  <2> QED BY <2>1, <2>2
<1>3. UNCHANGED <<config, directories, assignment, complete, coordinator,
                  slots, transport, fresh, up, calm>>
  BY DEF SiteLeaderChanges, HearSiteLeader, InputsOnly
<1> QED BY <1>1, <1>2, <1>3 DEF TypeOK, coordinator, transport

(* Changes and copies of the Directory's entry keep the types. *)
LEMMA AssignmentType ==
  ASSUME TypeOK, NEW n \in Node, NEW m \in Node,
         CommitAssignment(n) \/ PullDirectory(n, m)
  PROVE  TypeOK'
<1>1. assignment' \in [Node -> Assignment \cup {NoAssignment}]
  BY DEF CommitAssignment, PullDirectory, TypeOK
<1>2. directories' \subseteq Node
  BY DEF CommitAssignment, PullDirectory, TypeOK
<1>3. budget' \in GroupBudget
  <2>1. CASE CommitAssignment(n)
    BY <2>1, ChangeSpends DEF CommitAssignment
  <2>2. CASE PullDirectory(n, m)
    BY <2>2 DEF PullDirectory, TypeOK
  <2> QED BY <2>1, <2>2
<1>4. UNCHANGED <<config, siteLeader, complete, coordinator, slots,
                  transport, fresh, up, calm>>
  BY DEF CommitAssignment, PullDirectory, InputsOnly, Change
<1> QED BY <1>1, <1>2, <1>3, <1>4 DEF TypeOK, coordinator, transport

(* Roster changes keep the types. *)
LEMMA RosterType ==
  ASSUME TypeOK, NEW n \in Node, NEW m \in Node,
         CommitRoster(n) \/ AdoptRoster(n, m)
  PROVE  TypeOK'
<1>1. PICK r \in 0..Len(Roster) : MoveRoster(n, r)
  <2>1. config[n] \in 0..Len(Roster) /\ config[m] \in 0..Len(Roster)
    BY DEF TypeOK
  <2>2. CASE CommitRoster(n)
    <3>1. Len(Roster) \in Nat /\ config[n] < Len(Roster)
      BY <2>2, GroupAssumption DEF CommitRoster
    <3>2. config[n] + 1 \in 0..Len(Roster)
      BY <2>1, <3>1
    <3> QED BY <2>2, <3>2 DEF CommitRoster
  <2>3. CASE AdoptRoster(n, m)
    BY <2>1, <2>3 DEF AdoptRoster
  <2> QED BY <2>2, <2>3
<1>2. config' \in [Node -> 0..Len(Roster)]
  BY <1>1 DEF MoveRoster, TypeOK
<1>3. complete' \subseteq Node
  BY <1>1 DEF MoveRoster, TypeOK
<1>4. budget' \in GroupBudget
  <2>1. CASE CommitRoster(n)
    BY <2>1, ChangeSpends DEF CommitRoster
  <2>2. CASE AdoptRoster(n, m)
    BY <2>2 DEF AdoptRoster, TypeOK
  <2> QED BY <2>1, <2>2
<1>5. UNCHANGED <<siteLeader, directories, assignment, coordinator, slots,
                  transport, fresh, up, calm>>
  BY <1>1 DEF MoveRoster, InputsOnly
<1> QED BY <1>2, <1>3, <1>4, <1>5 DEF TypeOK, coordinator, transport

(* Provisioning and the end of the changes keep the types. *)
LEMMA ProvisionType ==
  ASSUME TypeOK, Settle \/ \E n \in Node : Provision(n)
  PROVE  TypeOK'
<1>1. CASE Settle
  BY <1>1 DEF Settle, TypeOK, inputs, coordinator, transport
<1>2. ASSUME NEW n \in Node, Provision(n) PROVE TypeOK'
  BY <1>2 DEF Provision, InputsOnly, TypeOK, coordinator, transport
<1> QED BY <1>1, <1>2

(* Every step keeps the types. *)
LEMMA NextType ==
  ASSUME TypeOK, [Next]_vars
  PROVE  TypeOK'
<1>1. CASE UNCHANGED vars
  BY <1>1 DEF vars, TypeOK, inputs, coordinator, transport
<1>2. CASE Tick \/ Settle
  BY <1>2, TickType, ProvisionType
<1>3. ASSUME NEW n \in Node, Update(n) \/ Send(n) PROVE TypeOK'
  BY <1>3, UpdateType, SendType
<1>4. ASSUME NEW n \in Node, PowerOff(n) \/ PowerOn(n) PROVE TypeOK'
  BY <1>4, PowerType
<1>5. ASSUME NEW n \in Node,
             \/ SiteLeaderChanges(n) \/ CommitAssignment(n)
             \/ CommitRoster(n) \/ Provision(n)
      PROVE  TypeOK'
  BY <1>5, SiteLeaderType, AssignmentType, RosterType, ProvisionType
<1>6. ASSUME NEW n \in Node, NEW m \in Node,
             \/ HearSiteLeader(n, m) \/ PullDirectory(n, m)
             \/ AdoptRoster(n, m)
      PROVE  TypeOK'
  BY <1>6, SiteLeaderType, AssignmentType, RosterType
<1> QED BY <1>1, <1>2, <1>3, <1>4, <1>5, <1>6 DEF Next

(* Terms, leases, slots and identifiers stay in their ranges through every *)
(* election, heartbeat, restart and change.                                *)
THEOREM GroupTyped == Spec => []TypeOK
<1>1. Init => TypeOK
  BY InitType
<1>2. TypeOK /\ [Next]_vars => TypeOK'
  BY NextType
<1> QED BY <1>1, <1>2, PTL DEF Spec

-----------------------------------------------------------------------------
(* What one member takes as the Group's authority *)

(* Without an authority the term does not fall either. *)
LEMMA UpdateOutcomes ==
  ASSUME TypeOK, NEW n \in Node, Update(n)
  PROVE  /\ term'[n] >= term[n]
         /\ leader'[n] # None =>
              \E w \in Winners(n) \cap Node :
                /\ leader'[n] = w /\ HasQuorum(n, ViewOf(n, w))
                /\ Decision(n, w).ready /\ term'[n] = Decision(n, w).term
<1>1. PICK w \in Winners(n) :
        \/ LoseQuorum(n, ViewOf(n, w)) \/ FindNoWinner(n, ViewOf(n, w))
        \/ RefuseTerm(n, ViewOf(n, w)) \/ LeadOrFollow(n, ViewOf(n, w))
  BY DEF Update
<1> DEFINE v == ViewOf(n, w)
<1>2. v.digest.winner = w /\ (w # None => w \in Node)
  BY WinnersAreCandidates, CandidatesAreNodes DEF ViewOf
<1>3. /\ term[n] \in Nat /\ Larger(term[n], 1) >= term[n]
      /\ w # None => Decision(n, w).term >= term[n]
  <2>1. term[n] \in Nat
    BY TermLimitAssumption DEF TypeOK, Term
  <2>2. w # None => Decision(n, w).term >= term[n]
    BY <1>2, DecisionIsNewer
  <2> QED BY <2>1, <2>2 DEF Larger
<1> HIDE DEF v
<1>4. CASE LoseQuorum(n, v)
  <2>1. leader'[n] = None /\ term'[n] = Larger(term[n], 1)
    BY <1>4 DEF LoseQuorum, Becomes, TypeOK
  <2> QED BY <1>3, <2>1
<1>5. CASE FindNoWinner(n, v)
  <2>1. leader'[n] = None /\ term'[n] = term[n]
    BY <1>5 DEF FindNoWinner, Becomes, TypeOK
  <2> QED BY <1>3, <2>1
<1>6. CASE RefuseTerm(n, v)
  <2>1. leader'[n] = None /\ term'[n] = Decision(n, w).term /\ w # None
    BY <1>2, <1>6 DEF RefuseTerm, Becomes, TypeOK
  <2> QED BY <1>3, <2>1
<1>7. CASE LeadOrFollow(n, v)
  <2>1. /\ leader'[n] = w /\ term'[n] = Decision(n, w).term /\ w # None
        /\ HasQuorum(n, v) /\ Decision(n, w).ready
    BY <1>2, <1>7 DEF LeadOrFollow, Becomes, TypeOK
  <2> QED BY <1>2, <1>3, <2>1 DEF v
<1> QED BY <1>1, <1>4, <1>5, <1>6, <1>7 DEF v

(* Only an update changes the Leader and the term of a member that stays   *)
(* on, and only an update gives any member a Leader.                       *)
LEMMA OnlyUpdatesElect ==
  ASSUME TypeOK, [Next]_vars, NEW n \in Node
  PROVE  \/ Update(n)
         \/ term'[n] = term[n] /\ leader'[n] = leader[n]
         \/ n \notin up' /\ leader'[n] = None
<1>1. ASSUME NEW m \in Node, Update(m), m # n
      PROVE  term'[n] = term[n] /\ leader'[n] = leader[n]
  <2>1. OthersKeep(m)
    BY <1>1, UpdateOutcome
  <2>2. /\ leader' = [leader EXCEPT ![m] = leader'[m]]
        /\ term' = [term EXCEPT ![m] = term'[m]]
    BY <2>1 DEF OthersKeep
  <2> QED BY <1>1, <2>2 DEF TypeOK
<1>2. ASSUME NEW m \in Node, PowerOff(m)
      PROVE  \/ term'[n] = term[n] /\ leader'[n] = leader[n]
             \/ n \notin up' /\ leader'[n] = None
  BY <1>2 DEF PowerOff, TypeOK
<1>3. ASSUME NEW m \in Node,
             \/ Send(m) \/ PowerOn(m) \/ SiteLeaderChanges(m)
             \/ CommitAssignment(m) \/ CommitRoster(m) \/ Provision(m)
      PROVE  UNCHANGED <<leader, term>>
  BY <1>3 DEF Send, PowerOn, SiteLeaderChanges, CommitAssignment,
              CommitRoster, Provision, MoveRoster, InputsOnly, coordinator
<1>4. ASSUME NEW m \in Node, NEW k \in Node,
             \/ HearSiteLeader(m, k) \/ PullDirectory(m, k)
             \/ AdoptRoster(m, k)
      PROVE  UNCHANGED <<leader, term>>
  BY <1>4 DEF HearSiteLeader, PullDirectory, AdoptRoster, MoveRoster,
              InputsOnly, coordinator
<1>5. Tick \/ Settle \/ UNCHANGED vars => UNCHANGED <<leader, term>>
  BY DEF Tick, Settle, vars, coordinator
<1> QED BY <1>1, <1>2, <1>3, <1>4, <1>5 DEF Next

(* A quorum for another winner than the present Leader consists of direct  *)
(* endorsements: what a transition tolerates counts for the incumbent only. *)
LEMMA OthersNeedDirectVotes ==
  ASSUME NEW n \in Node, NEW w \in Node, w # leader[n], FenceSupported(n),
         HasQuorum(n, ViewOf(n, w))
  PROVE  DirectEndorsements(n, ViewOf(n, w)) >= Required(n)
<1> DEFINE v == ViewOf(n, w)
<1>1. v.digest.winner = w
  BY DEF ViewOf
<1> HIDE DEF v
<1>2. ~RoleIdEqual(leader[n], v.digest.winner)
  BY <1>1 DEF RoleIdEqual
<1>3. Endorsements(n, v) = DirectEndorsements(n, v)
  BY <1>2 DEF Endorsements, PreserveIncumbentEndorsements
<1> QED BY <1>3 DEF HasQuorum, v

(* For any Group, whatever its members disagree about: who takes a Leader  *)
(* it did not have holds live endorsements of it by a strict majority.     *)
THEOREM NewLeadersEndorsed == Spec => NewLeaderEndorsed
<1>1. ASSUME TypeOK, [Next]_vars
      PROVE  \A n \in Node : TakenWithVotes(n)
  <2> SUFFICES ASSUME NEW n \in Node, leader'[n] \notin {None, leader[n]},
                      MultiNode(n),
                      Exact(n) \/ \E m \in Live(n) :
                                    slots[n][m].digest # NoDigest
               PROVE  1 + Cardinality(Votes(n, leader'[n])) >= Required(n)
    BY DEF TakenWithVotes
  <2>1. Update(n)
    BY <1>1, OnlyUpdatesElect
  <2>2. PICK w \in Winners(n) \cap Node :
          leader'[n] = w /\ HasQuorum(n, ViewOf(n, w))
    BY <1>1, <2>1, UpdateOutcomes
  <2>3. DirectEndorsements(n, ViewOf(n, w)) >= Required(n)
    BY <2>2, OthersNeedDirectVotes DEF FenceSupported
  <2>4. DirectEndorsers(n, ViewOf(n, w)) = Votes(n, w)
    BY DEF DirectEndorsers, ViewOf, Votes
  <2> QED BY <2>2, <2>3, <2>4 DEF DirectEndorsements
<1> QED BY <1>1, GroupTyped, PTL DEF Spec, NewLeaderEndorsed

(* The authority a member followed last, kept when it loses its quorum *)
LastLed(n) ==
  IF leader[n] # None THEN [leader |-> leader[n], term |-> term[n]]
  ELSE suspended[n]

(* While a member stays powered its term never falls; and as it sees them, *)
(* a different Leader comes with a newer term (architecture.md:322), until *)
(* terms saturate.  Two Leaders of one term are on different members.      *)
MemberTermsAdvance ==
  [][\A n \in up \cap up' :
       /\ term[n] <= term'[n]
       /\ /\ LastLed(n).leader # None /\ LastLed(n).term # TermLimit
          /\ leader'[n] \notin {None, LastLed(n).leader}
          => term'[n] > LastLed(n).term]_vars

(* For any Group: no heartbeat, loss, roster, assignment or change of the  *)
(* Site Leader takes a member back to an older term, or to another Leader  *)
(* of the term it has followed.                                            *)
THEOREM TermsAdvance == Spec => MemberTermsAdvance
<1> DEFINE Renewed(n) ==
      /\ LastLed(n).leader # None /\ LastLed(n).term # TermLimit
      /\ leader'[n] \notin {None, LastLed(n).leader}
      => term'[n] > LastLed(n).term
<1>1. ASSUME TypeOK, [Next]_vars, NEW n \in up \cap up'
      PROVE  term[n] <= term'[n]
  <2>1. n \in Node /\ TypeOK'
    BY <1>1, NextType DEF TypeOK
  <2>2. term[n] \in Nat /\ term'[n] \in Nat
    BY <1>1, <2>1, TermLimitAssumption DEF TypeOK, Term
  <2>3. Update(n) => term'[n] >= term[n]
    BY <1>1, <2>1, UpdateOutcomes
  <2> QED BY <1>1, <2>1, <2>2, <2>3, OnlyUpdatesElect
<1>2. ASSUME TypeOK, [Next]_vars, NEW n \in up \cap up'
      PROVE  Renewed(n)
  <2> SUFFICES ASSUME LastLed(n).leader # None, LastLed(n).term # TermLimit,
                      leader'[n] \notin {None, LastLed(n).leader}
               PROVE  term'[n] > LastLed(n).term
    OBVIOUS
  <2>1. n \in Node
    BY <1>2 DEF TypeOK
  <2>2. CASE term'[n] = term[n] /\ leader'[n] = leader[n]
    BY <2>2 DEF LastLed
  <2>3. CASE Update(n)
    <3>1. PICK w \in Winners(n) \cap Node :
            /\ leader'[n] = w /\ Decision(n, w).ready
            /\ term'[n] = Decision(n, w).term
      BY <1>2, <2>1, <2>3, UpdateOutcomes
    <3>2. /\ term[n] \in Term /\ suspended[n].term \in Term
          /\ WinnerTerm(n, w) \in Term /\ Admitted(n, w) \in BOOLEAN
          /\ ObservedTerm(n) \in Term /\ (w = n) \in BOOLEAN
      BY <1>2, <2>1, WinnerTermType, ObservedTermGrows DEF TypeOK
    <3>3. /\ leader[n] # None \/ suspended[n].leader # None
          /\ w # IF leader[n] # None THEN leader[n] ELSE suspended[n].leader
          /\ LastLed(n).term = IF leader[n] # None THEN term[n]
                               ELSE suspended[n].term
      BY <3>1 DEF LastLed
    <3>4. Decision(n, w).ready =>
            \/ LastLed(n).term = TermLimit
            \/ Decision(n, w).term > LastLed(n).term
      <4> HIDE DEF WinnerTerm, Admitted, ObservedTerm, DecideRoleTerm
      <4> QED BY <3>2, <3>3, DecisionRenews DEF Decision
    <3> QED BY <3>1, <3>4
  <2> QED BY <1>2, <2>1, <2>2, <2>3, OnlyUpdatesElect
<1> DEFINE Advances(n) == /\ term[n] <= term'[n]
                          /\ Renewed(n)
<1>3. ASSUME TypeOK, [Next]_vars
      PROVE  \A n \in up \cap up' : Advances(n)
  BY <1>1, <1>2, <1>3
<1> HIDE DEF Advances
<1>4. Spec => [][\A n \in up \cap up' : Advances(n)]_vars
  BY <1>3, GroupTyped, PTL DEF Spec
<1> QED BY <1>4 DEF Advances, Renewed, MemberTermsAdvance

-----------------------------------------------------------------------------
(* Who may become Leader, and for how long *)

(* A member takes the Site Leader for its Group Leader only when it has no *)
(* other candidate (architecture.md:244-246).                              *)
SiteLeaderLeadsLast ==
  [][\A n \in Node :
       leader'[n] \notin {None, leader[n]} /\ leader'[n] = siteLeader[n]
       => Candidates(n) = {leader'[n]}]_vars

(* No rule for a winner passes over a candidate for the Site Leader. *)
LEMMA SiteLeaderWinsAlone ==
  ASSUME TypeOK, NEW n \in Node, NEW w \in Winners(n), w # None,
         w = siteLeader[n]
  PROVE  Candidates(n) = {w}
<1>1. w \in Candidates(n) /\ Candidates(n) \subseteq Node
  BY WinnersAreCandidates, CandidatesAreNodes
<1>2. Penalty(n, w) \in {2, 3} /\ ~(Penalty(n, w) < 2)
  BY DEF Penalty
<1>3. \A c \in Candidates(n) \ {w} : Penalty(n, c) \in {0, 1}
  BY DEF Penalty
<1>4. Incumbent(n) => w # leader[n]
  <2> SUFFICES ASSUME Incumbent(n), w = leader[n] PROVE FALSE
    OBVIOUS
  <2>1. Penalty(n, w) < 2
    BY DEF Incumbent
  <2> QED BY <1>2, <2>1
<1>5. w \notin Endorsed(n)
  <2> SUFFICES ASSUME w \in Endorsed(n) PROVE FALSE
    OBVIOUS
  <2>1. Penalty(n, w) < 2
    BY DEF Endorsed
  <2> QED BY <1>2, <2>1
<1>6. CASE w \in Assigned(n)
  <2>1. ~OthersEligible(n, w)
    BY <1>6 DEF Assigned, AssignmentAllowed
  <2>2. Candidates(n) \subseteq Eligible /\ Candidates(n) \subseteq Members(n)
    <3>1. Live(n) \subseteq Members(n)
      BY DEF Live
    <3>2. w \in Members(n)
      BY <1>6 DEF Assigned, AssignmentAllowed
    <3>3. CASE Enrolled(n)
      BY <3>1, <3>3 DEF Candidates, LiveComplete, Enrolled
    <3>4. CASE ~Enrolled(n)
      <4>1. Live(n) = {}
        BY <3>4 DEF Live
      <4> QED BY <1>1, <3>2, <4>1 DEF Candidates, LiveComplete
    <3> QED BY <3>3, <3>4
  <2> QED BY <1>1, <2>1, <2>2 DEF OthersEligible
<1>7. CASE \A c \in Candidates(n) \ {w} : Preferred(n, w, c)
  <2> SUFFICES ASSUME NEW c \in Candidates(n) \ {w} PROVE FALSE
    BY <1>1
  <2>1. Penalty(n, c) \in {0, 1}
    BY <1>3
  <2>2. Preferred(n, w, c)
    BY <1>7
  <2> HIDE DEF Penalty
  <2> QED BY <1>2, <2>1, <2>2 DEF Preferred
<1> QED BY <1>1, <1>4, <1>5, <1>6, <1>7 DEF Winners

(* For any Group and any assignment: the Site Leader leads it as well only *)
(* where the member that takes it has nobody else.                         *)
THEOREM SiteLeadersLeadLast == Spec => SiteLeaderLeadsLast
<1> DEFINE Last(n) ==
      leader'[n] \notin {None, leader[n]} /\ leader'[n] = siteLeader[n]
      => Candidates(n) = {leader'[n]}
<1>1. ASSUME TypeOK, [Next]_vars
      PROVE  \A n \in Node : Last(n)
  <2> SUFFICES ASSUME NEW n \in Node, leader'[n] \notin {None, leader[n]},
                      leader'[n] = siteLeader[n]
               PROVE  Candidates(n) = {leader'[n]}
    OBVIOUS
  <2>1. Update(n)
    BY <1>1, OnlyUpdatesElect
  <2>2. \E w \in Winners(n) : leader'[n] = w
    BY <1>1, <2>1, UpdateOutcomes
  <2> QED BY <1>1, <2>2, SiteLeaderWinsAlone
<1> HIDE DEF Last
<1>2. Spec => [][\A n \in Node : Last(n)]_vars
  BY <1>1, GroupTyped, PTL DEF Spec
<1> QED BY <1>2 DEF Last, SiteLeaderLeadsLast

(* A member follows another one no longer than that one's heartbeats allow *)
(* (the lease of group_coordinator.cpp is the remaining life of the slot). *)
GroupLeaseBacked ==
  \A n \in Node :
    leader[n] \notin {None, n} => lease[n] <= slots[n][leader[n]].ttl

(* An update takes a follower's lease from the slot, and keeps the slot. *)
LEMMA UpdateBacksLease ==
  ASSUME TypeOK, NEW n \in Node, Update(n), leader'[n] \notin {None, n}
  PROVE  lease'[n] <= slots'[n][leader'[n]].ttl
<1>1. PICK w \in Winners(n) :
        \/ LoseQuorum(n, ViewOf(n, w)) \/ FindNoWinner(n, ViewOf(n, w))
        \/ RefuseTerm(n, ViewOf(n, w)) \/ LeadOrFollow(n, ViewOf(n, w))
  BY DEF Update
<1>2. ViewOf(n, w).digest.winner = w
  BY DEF ViewOf
<1>3. LeadOrFollow(n, ViewOf(n, w))
  BY <1>1 DEF LoseQuorum, FindNoWinner, RefuseTerm, Becomes, TypeOK
<1>4. leader'[n] = w /\ w # n /\ w # None /\ lease'[n] = slots[n][w].ttl
  BY <1>2, <1>3 DEF LeadOrFollow, Becomes, TypeOK
<1>5. w \in Live(n) /\ w \in Node
  BY <1>4, WinnersAreCandidates, CandidatesAreNodes, LiveAreNodes
<1>6. slots'[n][w] = slots[n][w]
  BY <1>5 DEF Update, TypeOK
<1>7. slots[n][w].ttl \in Nat
  BY <1>5, GroupAssumption DEF TypeOK, Slot
<1> QED BY <1>4, <1>6, <1>7

(* A heartbeat only prolongs the life of a slot. *)
LEMMA SendRenews ==
  ASSUME TypeOK, NEW k \in Node, Send(k), NEW n \in Node, NEW m \in Node
  PROVE  slots'[n][m].ttl >= slots[n][m].ttl
<1>1. slots[n][m] \in Slot /\ slots[n][m].ttl \in 0..LeaseTicks
  BY DEF TypeOK, Slot
<1>2. PICK now : slots' = [i \in Node |->
        IF i \in now THEN [slots[i] EXCEPT ![k] = SlotAfter(k, i)]
        ELSE slots[i]]
  BY DEF Send
<1>3. slots'[n][m] = slots[n][m] \/ (m = k /\ slots'[n][m] = SlotAfter(k, n))
  BY <1>2 DEF TypeOK
<1>4. LeaseTicks \in Nat
  BY GroupAssumption
<1>5. SlotAfter(k, n).ttl \in {slots[n][k].ttl, LeaseTicks}
  BY DEF SlotAfter
<1> QED BY <1>1, <1>3, <1>4, <1>5

(* For any Group: no lease outlives the heartbeats it rests on. *)
THEOREM GroupLeasesBacked == Spec => []GroupLeaseBacked
<1>1. Init => GroupLeaseBacked
  BY DEF Init, GroupLeaseBacked
<1>2. ASSUME TypeOK, GroupLeaseBacked, [Next]_vars
      PROVE  GroupLeaseBacked'
  <2> SUFFICES ASSUME NEW n \in Node, leader'[n] \notin {None, n}
               PROVE  lease'[n] <= slots'[n][leader'[n]].ttl
    BY DEF GroupLeaseBacked
  <2>1. TypeOK'
    BY <1>2, NextType
  <2>2. /\ leader'[n] \in Node /\ LeaseTicks \in Nat
        /\ lease[n] \in Nat /\ slots[n][leader'[n]].ttl \in Nat
    <3>1. leader' \in [Node -> AnyNode]
      BY <2>1 DEF TypeOK
    <3>2. leader'[n] \in Node
      BY <3>1 DEF AnyNode
    <3>3. lease \in [Node -> 0..LeaseTicks] /\ slots \in [Node -> [Node -> Slot]]
      BY <1>2 DEF TypeOK
    <3>4. LeaseTicks \in Nat
      BY GroupAssumption
    <3>5. lease[n] \in Nat
      BY <3>3, <3>4
    <3>6. slots[n][leader'[n]].ttl \in Nat
      BY <3>2, <3>3, <3>4 DEF Slot
    <3> QED BY <3>2, <3>4, <3>5, <3>6
  <2>3. CASE Update(n)
    BY <1>2, <2>3, UpdateBacksLease
  <2>4. CASE leader'[n] = leader[n] /\ ~Update(n)
    <3>1. lease[n] <= slots[n][leader'[n]].ttl
      BY <1>2, <2>4 DEF GroupLeaseBacked
    <3>2. ASSUME NEW m \in Node, m # n, Update(m) \/ PowerOff(m)
          PROVE  lease'[n] = lease[n] /\ slots'[n] = slots[n]
      BY <1>2, <3>2 DEF Update, LoseQuorum, FindNoWinner, RefuseTerm,
                        LeadOrFollow, Becomes, PowerOff, TypeOK
    <3>3. PowerOff(n) => leader'[n] = None
      BY <1>2 DEF PowerOff, TypeOK
    <3>4. ASSUME NEW m \in Node, Send(m)
          PROVE  lease'[n] <= slots'[n][leader'[n]].ttl
      <4>1. slots'[n][leader'[n]].ttl >= slots[n][leader'[n]].ttl
        BY <1>2, <2>2, <3>4, SendRenews
      <4>2. lease'[n] = lease[n]
        BY <3>4 DEF Send, coordinator
      <4>3. slots'[n][leader'[n]].ttl \in Nat
        BY <2>1, <2>2 DEF TypeOK, Slot
      <4> QED BY <2>2, <3>1, <4>1, <4>2, <4>3
    <3>5. ASSUME Tick
          PROVE  lease'[n] <= slots'[n][leader'[n]].ttl
      <4>1. lease'[n] = Less(lease[n])
        BY <3>5 DEF Tick
      <4>2. slots'[n][leader'[n]].ttl = Less(slots[n][leader'[n]].ttl)
        <5>1. slots'[n][leader'[n]] =
                [slots[n][leader'[n]] EXCEPT !.ttl = Less(@)]
          BY <2>2, <3>5 DEF Tick
        <5> QED BY <1>2, <2>2, <5>1 DEF TypeOK, Slot
      <4> QED BY <2>2, <3>1, <4>1, <4>2 DEF Less
    <3>6. ASSUME NEW m \in Node,
                 \/ PowerOn(m) \/ SiteLeaderChanges(m)
                 \/ CommitAssignment(m) \/ CommitRoster(m) \/ Provision(m)
          PROVE  UNCHANGED <<lease, slots>>
      BY <3>6 DEF PowerOn, SiteLeaderChanges, CommitAssignment,
                  CommitRoster, Provision, MoveRoster, InputsOnly, coordinator
    <3>7. ASSUME NEW m \in Node, NEW k \in Node,
                 \/ HearSiteLeader(m, k) \/ PullDirectory(m, k)
                 \/ AdoptRoster(m, k)
          PROVE  UNCHANGED <<lease, slots>>
      BY <3>7 DEF HearSiteLeader, PullDirectory, AdoptRoster, MoveRoster,
                  InputsOnly, coordinator
    <3>8. Settle \/ UNCHANGED vars => UNCHANGED <<lease, slots>>
      BY DEF Settle, vars, coordinator
    <3> QED BY <1>2, <2>4, <3>1, <3>2, <3>3, <3>4, <3>5, <3>6, <3>7, <3>8
            DEF Next
  <2> QED BY <1>2, <2>3, <2>4, OnlyUpdatesElect
<1> QED BY <1>1, <1>2, GroupTyped, PTL DEF Spec

-----------------------------------------------------------------------------
(* An established Leader keeps its role through a change of the roster.    *)
(*                                                                         *)
(* With two or three members one endorsement beside the member's own is a  *)
(* quorum, and a transition always leaves one to count: Steady holds it    *)
(* all together.  From four members on two are needed, and a member that   *)
(* lags behind the others can miss one.                                    *)

(* What the coordinator of n keeps when it does not run. *)
CoordinatorKept(n) ==
  /\ leader'[n] = leader[n] /\ term'[n] = term[n] /\ quorum'[n] = quorum[n]
  /\ view'[n] = view[n] /\ views'[n] = views[n]
  /\ suspended'[n] = suspended[n] /\ seenRoster'[n] = seenRoster[n]

(* The coordinator of a member changes when it runs and when the member    *)
(* restarts; in between only time wears its lease down.                    *)
LEMMA CoordinatorSteps ==
  ASSUME TypeOK, [Next]_vars, NEW n \in Node
  PROVE  \/ Update(n) \/ PowerOff(n)
         \/ /\ CoordinatorKept(n)
            /\ \/ lease'[n] = lease[n] /\ (n \in fresh' => n \in fresh)
               \/ Tick /\ lease'[n] = Less(lease[n]) /\ fresh' = {}
<1>1. ASSUME NEW m \in Node, m # n, Update(m)
      PROVE  /\ CoordinatorKept(n) /\ lease'[n] = lease[n]
             /\ n \in fresh' => n \in fresh
  <2>1. OthersKeep(m)
    BY <1>1, UpdateOutcome
  <2>2. CoordinatorKept(n) /\ lease'[n] = lease[n]
    BY <1>1, <2>1 DEF OthersKeep, CoordinatorKept, TypeOK, Update
  <2> QED BY <1>1, <2>2 DEF Update
<1>2. ASSUME NEW m \in Node, m # n, PowerOff(m)
      PROVE  /\ CoordinatorKept(n) /\ lease'[n] = lease[n]
             /\ n \in fresh' => n \in fresh
  BY <1>2 DEF PowerOff, CoordinatorKept, TypeOK
<1>3. ASSUME NEW m \in Node,
             \/ Send(m) \/ PowerOn(m) \/ SiteLeaderChanges(m)
             \/ CommitAssignment(m) \/ CommitRoster(m) \/ Provision(m)
      PROVE  UNCHANGED coordinator /\ fresh' \subseteq fresh
  BY <1>3 DEF Send, PowerOn, SiteLeaderChanges, CommitAssignment,
              CommitRoster, Provision, MoveRoster, InputsOnly
<1>4. ASSUME NEW m \in Node, NEW k \in Node,
             \/ HearSiteLeader(m, k) \/ PullDirectory(m, k)
             \/ AdoptRoster(m, k)
      PROVE  UNCHANGED coordinator /\ fresh' \subseteq fresh
  BY <1>4 DEF HearSiteLeader, PullDirectory, AdoptRoster, MoveRoster,
              InputsOnly
<1>5. Settle \/ UNCHANGED vars =>
        UNCHANGED coordinator /\ fresh' \subseteq fresh
  BY DEF Settle, vars
<1>6. UNCHANGED coordinator => CoordinatorKept(n) /\ lease'[n] = lease[n]
  BY DEF coordinator, CoordinatorKept
<1>7. Tick => /\ CoordinatorKept(n)
              /\ lease'[n] = Less(lease[n]) /\ fresh' = {}
  BY DEF Tick, CoordinatorKept
<1> QED BY <1>1, <1>2, <1>3, <1>4, <1>5, <1>6, <1>7 DEF Next

(* What n holds of m changes with a heartbeat of m and with time, or it is *)
(* dropped.                                                                *)
LEMMA SlotSteps ==
  ASSUME TypeOK, [Next]_vars, NEW n \in Node, NEW m \in Node
  PROVE  \/ slots'[n][m] = slots[n][m] /\ known'[n][m] = known[n][m]
         \/ slots'[n][m] = Vacant
         \/ /\ Tick /\ slots'[n][m] = [slots[n][m] EXCEPT !.ttl = Less(@)]
            /\ known'[n][m] = known[n][m]
         \/ /\ Send(m) /\ slots'[n][m] = SlotAfter(m, n)
            /\ known'[n][m] = KnownAfter(m, n)
<1>1. ASSUME NEW k \in Node, Update(k)
      PROVE  \/ slots'[n][m] = slots[n][m] /\ known'[n][m] = known[n][m]
             \/ slots'[n][m] = Vacant
  BY <1>1 DEF Update, TypeOK, transport
<1>2. ASSUME NEW k \in Node, PowerOff(k)
      PROVE  \/ slots'[n][m] = slots[n][m] /\ known'[n][m] = known[n][m]
             \/ slots'[n][m] = Vacant
  BY <1>2 DEF PowerOff, TypeOK
<1>3. ASSUME NEW k \in Node,
             \/ PowerOn(k) \/ SiteLeaderChanges(k)
             \/ CommitAssignment(k) \/ CommitRoster(k) \/ Provision(k)
      PROVE  UNCHANGED <<slots, known>>
  BY <1>3 DEF PowerOn, SiteLeaderChanges, CommitAssignment, CommitRoster,
              Provision, MoveRoster, InputsOnly, transport
<1>4. ASSUME NEW j \in Node, NEW k \in Node,
             \/ HearSiteLeader(j, k) \/ PullDirectory(j, k)
             \/ AdoptRoster(j, k)
      PROVE  UNCHANGED <<slots, known>>
  BY <1>4 DEF HearSiteLeader, PullDirectory, AdoptRoster, MoveRoster,
              InputsOnly, transport
<1>5. Settle \/ UNCHANGED vars => UNCHANGED <<slots, known>>
  BY DEF Settle, vars, transport
<1>6. ASSUME NEW k \in Node, Send(k)
      PROVE  \/ slots'[n][m] = slots[n][m] /\ known'[n][m] = known[n][m]
             \/ /\ k = m /\ slots'[n][m] = SlotAfter(m, n)
                /\ known'[n][m] = KnownAfter(m, n)
  <2>1. PICK now :
          /\ slots' = [i \in Node |->
               IF i \in now THEN [slots[i] EXCEPT ![k] = SlotAfter(k, i)]
               ELSE slots[i]]
          /\ known' = [i \in Node |->
               IF i \in now THEN [known[i] EXCEPT ![k] = KnownAfter(k, i)]
               ELSE known[i]]
    BY <1>6 DEF Send
  <2> QED BY <2>1 DEF TypeOK
<1>7. Tick => /\ slots'[n][m] = [slots[n][m] EXCEPT !.ttl = Less(@)]
              /\ known' = known
  BY DEF Tick
<1> QED BY <1>1, <1>2, <1>3, <1>4, <1>5, <1>6, <1>7 DEF Next

(* What an update leaves behind when it keeps or takes a Leader *)
LEMMA UpdateSetsLeader ==
  ASSUME TypeOK, NEW n \in Node, Update(n)
  PROVE  /\ view'[n].digest.roster = config[n]
         /\ seenRoster'[n] = config[n] /\ config' = config
         /\ leader'[n] # None =>
              /\ suspended'[n] = NobodySuspended
              /\ leader'[n] \in Candidates(n)
              /\ lease'[n] = IF leader'[n] = n THEN LeaseTicks
                             ELSE slots[n][leader'[n]].ttl
              /\ leader'[n] = n => n \in Eligible /\ term'[n] # 0
<1>1. PICK w \in Winners(n) :
        \/ LoseQuorum(n, ViewOf(n, w)) \/ FindNoWinner(n, ViewOf(n, w))
        \/ RefuseTerm(n, ViewOf(n, w)) \/ LeadOrFollow(n, ViewOf(n, w))
  BY DEF Update
<1> DEFINE v == ViewOf(n, w)
<1>2. v.digest.winner = w /\ v.digest.roster = config[n]
  BY DEF ViewOf
<1>3. seenRoster'[n] = config[n] /\ config' = config
  BY DEF Update, TypeOK, inputs
<1> HIDE DEF v
<1>4. view'[n] = v /\ (leader'[n] # None => LeadOrFollow(n, v))
  BY <1>1 DEF v, LoseQuorum, FindNoWinner, RefuseTerm, LeadOrFollow,
              Becomes, Concludes, TypeOK
<1>5. ASSUME LeadOrFollow(n, v)
      PROVE  /\ leader'[n] = w /\ w # None /\ suspended'[n] = NobodySuspended
             /\ lease'[n] = IF w = n THEN LeaseTicks ELSE slots[n][w].ttl
             /\ term'[n] = Decision(n, w).term
  BY <1>2, <1>5 DEF LeadOrFollow, Becomes, Concludes, TypeOK
<1>6. w # None => w \in Candidates(n)
  BY WinnersAreCandidates
<1>7. Decision(n, n).term # 0
  <2>1. /\ term[n] \in Term /\ suspended[n].term \in Term
        /\ ObservedTerm(n) \in Term
    BY ObservedTermGrows DEF TypeOK
  <2>2. \A t \in Nat : Larger(t, 1) # 0
    BY DEF Larger
  <2>3. \A t \in Term : NextRoleTerm(t) # 0
    BY TermLimitAssumption DEF NextRoleTerm, Term
  <2>4. /\ Larger(term[n], suspended[n].term) \in Term
        /\ Larger(Larger(term[n], suspended[n].term), ObservedTerm(n)) \in Term
    BY <2>1 DEF Larger
  <2>5. term[n] \in Nat /\ suspended[n].term \in Nat
    BY <2>1, TermLimitAssumption DEF Term
  <2> HIDE DEF ObservedTerm, NextRoleTerm, Larger
  <2>6. LocalTerm(term[n], leader[n], suspended[n].term, suspended[n].leader,
                  n, ObservedTerm(n)) # 0
    BY <2>1, <2>2, <2>3, <2>4, <2>5 DEF LocalTerm
  <2> QED BY <2>6 DEF Decision, DecideRoleTerm
<1>8. \A c \in Candidates(n) : c \in Eligible
  BY DEF Candidates
<1> QED BY <1>2, <1>3, <1>4, <1>5, <1>6, <1>7, <1>8

(* A member knows by its view which roster it last ran on, and until it    *)
(* has heard more its lease is the one it took.                            *)
Remembered(n) ==
  /\ view[n].digest.roster = seenRoster[n] /\ seenRoster[n] <= config[n]
  /\ leader[n] # None => suspended[n] = NobodySuspended
  /\ leader[n] = n => n \in Eligible /\ term[n] # 0
  /\ n \in fresh =>
       /\ leader[n] = n => lease[n] = LeaseTicks
       /\ leader[n] \notin {None, n} => lease[n] = slots[n][leader[n]].ttl

(* A digest comes with the newest wire version, and a heartbeat that is    *)
(* kept out of the election with an older term than the member's own.      *)
Reported(n, m) ==
  /\ slots[n][m].digest # NoDigest =>
       known[n][m] = 12 /\ m \in directories /\ slots[n][m].roster # 0
  /\ \/ slots[n][m] = Vacant \/ slots[n][m].admitted
     \/ slots[n][m].term < term[n]

History == \A n \in Node : Remembered(n) /\ \A m \in Node : Reported(n, m)

(* Rosters only get newer, and a Directory is never given up. *)
LEMMA InputsAdvance ==
  ASSUME TypeOK, [Next]_vars, NEW n \in Node
  PROVE  config[n] <= config'[n] /\ directories \subseteq directories'
<1>1. config[n] \in Nat
  BY DEF TypeOK
<1>2. ASSUME NEW m \in Node, CommitRoster(m) \/ PowerOff(m)
      PROVE  config[n] <= config'[n] /\ directories \subseteq directories'
  <2>1. directories' = directories
    BY <1>2 DEF CommitRoster, MoveRoster, PowerOff
  <2>2. config' = config \/ config' = [config EXCEPT ![m] = config[m] + 1]
    BY <1>2 DEF CommitRoster, MoveRoster, PowerOff
  <2>3. config[n] <= config'[n]
    <3>1. config'[n] \in {config[n], config[n] + 1}
      BY <2>2 DEF TypeOK
    <3> QED BY <1>1, <3>1
  <2> QED BY <2>1, <2>3
<1>3. ASSUME NEW m \in Node,
             \/ Update(m) \/ Send(m) \/ PowerOn(m) \/ SiteLeaderChanges(m)
             \/ CommitAssignment(m) \/ Provision(m)
      PROVE  UNCHANGED <<config, directories>>
  BY <1>3 DEF Update, Send, PowerOn, SiteLeaderChanges, CommitAssignment,
              Provision, inputs
<1>4. ASSUME NEW m \in Node, NEW k \in Node,
             \/ HearSiteLeader(m, k) \/ PullDirectory(m, k)
             \/ AdoptRoster(m, k)
      PROVE  config[n] <= config'[n] /\ directories \subseteq directories'
  <2>1. HearSiteLeader(m, k) => UNCHANGED <<config, directories>>
    BY DEF HearSiteLeader
  <2>2. PullDirectory(m, k) =>
          config' = config /\ directories \subseteq directories'
    BY DEF PullDirectory
  <2>3. config[k] \in Nat
    BY DEF TypeOK
  <2>4. AdoptRoster(m, k) =>
          config[n] <= config'[n] /\ directories' = directories
    <3> SUFFICES ASSUME AdoptRoster(m, k)
                 PROVE  config[n] <= config'[n] /\ directories' = directories
      OBVIOUS
    <3>1. /\ config' = [config EXCEPT ![m] = config[k]]
          /\ config[m] < config[k] /\ directories' = directories
      BY DEF AdoptRoster, MoveRoster
    <3>2. config'[n] = IF n = m THEN config[k] ELSE config[n]
      BY <3>1 DEF TypeOK
    <3> QED BY <1>1, <2>3, <3>1, <3>2
  <2> QED BY <1>1, <1>4, <2>1, <2>2, <2>4
<1>5. Tick \/ Settle \/ UNCHANGED vars => UNCHANGED <<config, directories>>
  BY DEF Tick, Settle, vars, inputs
<1> QED BY <1>1, <1>2, <1>3, <1>4, <1>5 DEF Next

(* What a member has been told stays on record. *)
LEMMA ReportsKept ==
  ASSUME TypeOK, History, [Next]_vars, NEW n \in Node, NEW m \in Node
  PROVE  Reported(n, m)'
<1>1. Reported(n, m) /\ slots[n][m] \in Slot
  BY DEF History, TypeOK
<1>2. directories \subseteq directories'
  BY InputsAdvance
<1>3. CASE slots'[n][m] = Vacant
  BY <1>3 DEF Reported, Vacant
<1>4. ASSUME slots'[n][m] # Vacant
      PROVE  term[n] <= term'[n]
  <2>1. PowerOff(n) => slots'[n][m] = Vacant
    BY DEF PowerOff, TypeOK
  <2>2. term[n] \in Nat
    BY TermLimitAssumption DEF TypeOK, Term
  <2> QED BY <1>4, <2>1, <2>2, CoordinatorSteps, UpdateOutcomes
          DEF CoordinatorKept
<1>5. /\ term[n] \in Nat /\ term'[n] \in Nat /\ slots[n][m].term \in Nat
      /\ term[m] \in Nat
  <2>1. TypeOK'
    BY NextType
  <2> QED BY <1>1, <2>1, TermLimitAssumption DEF TypeOK, Term, Slot
<1>6. CASE slots'[n][m] = slots[n][m] /\ known'[n][m] = known[n][m]
  BY <1>1, <1>2, <1>3, <1>4, <1>5, <1>6 DEF Reported
<1>7. CASE /\ Tick /\ slots'[n][m] = [slots[n][m] EXCEPT !.ttl = Less(@)]
           /\ known'[n][m] = known[n][m]
  <2>1. /\ slots'[n][m].digest = slots[n][m].digest
        /\ slots'[n][m].roster = slots[n][m].roster
        /\ slots'[n][m].term = slots[n][m].term
        /\ slots'[n][m].admitted = slots[n][m].admitted
    BY <1>1, <1>7 DEF Slot
  <2>2. slots[n][m] = Vacant => slots'[n][m] = Vacant
    <3> SUFFICES ASSUME slots[n][m] = Vacant PROVE slots'[n][m] = Vacant
      OBVIOUS
    <3>1. Vacant.ttl = 0 /\ Less(0) = 0
      BY DEF Vacant, Less
    <3>2. slots'[n][m] = [Vacant EXCEPT !.ttl = 0]
      BY <1>7, <3>1
    <3> QED BY <3>2 DEF Vacant
  <2> QED BY <1>1, <1>2, <1>3, <1>4, <1>5, <1>7, <2>1, <2>2 DEF Reported
<1>8. CASE /\ Send(m) /\ slots'[n][m] = SlotAfter(m, n)
           /\ known'[n][m] = KnownAfter(m, n)
  <2>1. term' = term /\ directories' = directories
    BY <1>8 DEF Send, inputs, coordinator
  <2>2. known[n][m] \in {0, 6, 12} /\ config[m] \in Nat
    BY DEF TypeOK
  <2>3. CASE ~Admissible(m, n)
    <3>1. slots'[n][m] = slots[n][m]
      BY <1>8, <2>3 DEF SlotAfter
    <3>2. known[n][m] = 12 => known'[n][m] = 12
      BY <1>8, <2>2 DEF KnownAfter, Larger, Wire
    <3> QED BY <1>1, <2>1, <3>1, <3>2 DEF Reported
  <2>4. CASE Admissible(m, n)
    <3>1. slots'[n][m].admitted \/ slots'[n][m].term < term'[n]
      <4> DEFINE old == /\ m \in Eligible /\ leader[n] = m /\ LeaseActive(n)
                        /\ term[m] < term[n]
      <4>1. /\ slots'[n][m].term = term[m]
            /\ slots'[n][m].admitted = ~old
        BY <1>8, <2>4 DEF SlotAfter
      <4> QED BY <2>1, <4>1
    <3>2. slots'[n][m].digest # NoDigest =>
            Wire(m, n) = 12 /\ slots'[n][m].roster = config[m]
      BY <1>8, <2>4 DEF SlotAfter
    <3>3. Wire(m, n) = 12 => m \in directories /\ known'[n][m] = 12
      BY <1>8, <2>2 DEF KnownAfter, Larger, Wire
    <3>4. config[m] # 0
      BY <1>8 DEF Send, Enrolled
    <3> QED BY <2>1, <3>1, <3>2, <3>3, <3>4 DEF Reported
  <2> QED BY <2>3, <2>4
<1> QED BY <1>3, <1>6, <1>7, <1>8, SlotSteps

(* What a member remembers of its last election stays true of it. *)
LEMMA MemoryKept ==
  ASSUME TypeOK, History, [Next]_vars, NEW n \in Node
  PROVE  Remembered(n)'
<1>1. Remembered(n) /\ config[n] <= config'[n]
  BY InputsAdvance DEF History
<1>2. TypeOK'
  BY NextType
<1>3. /\ config[n] \in Nat /\ config'[n] \in Nat /\ seenRoster[n] \in Nat
      /\ leader[n] \in Node \cup {None} /\ None \notin Node
  BY <1>2, GroupAssumption DEF TypeOK, AnyNode
<1>4. CASE Update(n)
  <2>1. leader'[n] # None /\ leader'[n] # n =>
          slots'[n][leader'[n]] = slots[n][leader'[n]]
    BY <1>4, UpdateSetsLeader, CandidatesAreNodes, LiveAreNodes
       DEF Update, TypeOK
  <2> QED BY <1>3, <1>4, <2>1, UpdateSetsLeader DEF Remembered
<1>5. CASE PowerOff(n)
  <2>1. /\ view'[n] = NoView /\ seenRoster'[n] = 0 /\ leader'[n] = None
        /\ n \notin fresh'
    BY <1>5 DEF PowerOff, TypeOK
  <2> QED BY <1>3, <2>1 DEF Remembered, NoView, NoDigest
<1>6. CASE CoordinatorKept(n) /\ Tick
  <2>1. fresh' = {}
    BY <1>6 DEF Tick
  <2> QED BY <1>1, <1>3, <1>6, <2>1 DEF Remembered, CoordinatorKept
<1>7. CASE /\ CoordinatorKept(n) /\ ~Update(n) /\ ~PowerOff(n) /\ ~Tick
           /\ lease'[n] = lease[n] /\ (n \in fresh' => n \in fresh)
  <2>1. ASSUME n \in fresh', leader[n] \notin {None, n}
        PROVE  slots'[n][leader[n]].ttl = slots[n][leader[n]].ttl
    <3>1. leader[n] \in Node
      BY <1>3, <2>1
    <3>2. ASSUME NEW k \in Node, Update(k)
          PROVE  slots'[n] = slots[n]
      <4>1. k # n
        BY <1>7, <3>2
      <4>2. slots' = [slots EXCEPT ![k] =
              [j \in Node |-> IF j \in Live(k) THEN slots[k][j] ELSE Vacant]]
        BY <3>2 DEF Update
      <4> QED BY <4>1, <4>2 DEF TypeOK
    <3>3. ASSUME NEW k \in Node, PowerOff(k)
          PROVE  slots'[n] = slots[n]
      BY <1>7, <3>3 DEF PowerOff, TypeOK
    <3>4. ASSUME NEW k \in Node, Send(k)
          PROVE  slots'[n] = slots[n]
      <4>1. PICK now :
              /\ slots' = [i \in Node |->
                   IF i \in now THEN [slots[i] EXCEPT ![k] = SlotAfter(k, i)]
                   ELSE slots[i]]
              /\ fresh' = fresh \ now
        BY <3>4 DEF Send
      <4>2. n \notin now
        BY <2>1, <4>1
      <4> QED BY <4>1, <4>2
    <3>5. ASSUME NEW k \in Node,
                 \/ PowerOn(k) \/ SiteLeaderChanges(k)
                 \/ CommitAssignment(k) \/ CommitRoster(k) \/ Provision(k)
          PROVE  slots' = slots
      BY <3>5 DEF PowerOn, SiteLeaderChanges, CommitAssignment, CommitRoster,
                  Provision, MoveRoster, InputsOnly
    <3>6. ASSUME NEW j \in Node, NEW k \in Node,
                 \/ HearSiteLeader(j, k) \/ PullDirectory(j, k)
                 \/ AdoptRoster(j, k)
          PROVE  slots' = slots
      BY <3>6 DEF HearSiteLeader, PullDirectory, AdoptRoster, MoveRoster,
                  InputsOnly
    <3>7. Settle \/ UNCHANGED vars => slots' = slots
      BY DEF Settle, vars
    <3>8. slots'[n] = slots[n]
      BY <1>7, <3>2, <3>3, <3>4, <3>5, <3>6, <3>7 DEF Next
    <3> QED BY <3>8
  <2>2. n \in fresh' => n \in fresh
    BY <1>7
  <2>3. /\ leader'[n] = leader[n] /\ term'[n] = term[n]
        /\ view'[n] = view[n] /\ suspended'[n] = suspended[n]
        /\ seenRoster'[n] = seenRoster[n] /\ lease'[n] = lease[n]
    BY <1>7 DEF CoordinatorKept
  <2>4. view'[n].digest.roster = seenRoster'[n] /\ seenRoster'[n] <= config'[n]
    BY <1>1, <1>3, <2>3 DEF Remembered
  <2>6. /\ leader'[n] # None => suspended'[n] = NobodySuspended
        /\ leader'[n] = n => n \in Eligible /\ term'[n] # 0
    BY <1>1, <2>3 DEF Remembered
  <2>5. n \in fresh' =>
          /\ leader'[n] = n => lease'[n] = LeaseTicks
          /\ leader'[n] \notin {None, n} =>
               lease'[n] = slots'[n][leader'[n]].ttl
    BY <1>1, <2>1, <2>2, <2>3 DEF Remembered
  <2> QED BY <2>4, <2>5, <2>6 DEF Remembered
<1> QED BY <1>4, <1>5, <1>6, <1>7, CoordinatorSteps

(* A member's memory fits what it has done, in any Group. *)
LEMMA HistoryKept ==
  /\ Init => History
  /\ TypeOK /\ History /\ [Next]_vars => History'
<1>1. ASSUME Init PROVE History
  <2> SUFFICES ASSUME NEW n \in Node, NEW m \in Node
               PROVE  Remembered(n) /\ Reported(n, m)
    BY DEF History
  <2>1. /\ view[n] = NoView /\ seenRoster[n] = 0 /\ leader[n] = None
        /\ n \notin fresh /\ slots[n][m] = Vacant
    BY <1>1 DEF Init
  <2>2. config[n] \in 0..Len(Roster) /\ None # n
    BY <1>1, GroupAssumption DEF Init
  <2>3. Vacant.digest = NoDigest /\ NoView.digest.roster = 0
    BY DEF Vacant, NoView, NoDigest
  <2> QED BY <2>1, <2>2, <2>3 DEF Remembered, Reported
<1>2. ASSUME TypeOK, History, [Next]_vars PROVE History'
  BY <1>2, ReportsKept, MemoryKept DEF History
<1> QED BY <1>1, <1>2

(* A Group of two or three members that stays theirs through one change of *)
(* the roster, in which a lease lasts longer than one interval             *)
KeptGroup ==
  /\ Cardinality(Node) \in {2, 3} /\ LeaseTicks > 1
  /\ Len(Roster) <= 2 /\ \A r \in 1..Len(Roster) : Roster[r] = Node

(* What n knows of m while both follow l: m has confirmed the Leader and   *)
(* the term on some roster that it has since run on, and will be heard     *)
(* again before that is forgotten.                                         *)
Vouches(l, n, m) ==
  LET s == slots[n][m]
  IN  /\ known[n][m] = 12 /\ s.complete /\ s.admitted /\ s.term = term[l]
      /\ s.ttl > (IF m \in spoke THEN 1 ELSE 0)
      /\ s.digest = [roster |-> s.digest.roster, winner |-> l]
      /\ s.digest.roster # 0 /\ s.digest.roster <= s.roster
      /\ s.digest.roster <= seenRoster[m]

(* A member that remembers no earlier view has heard its present one from  *)
(* another member.                                                         *)
Confirmed(n) ==
  seenRoster[n] = config[n] /\ views[n] = <<>>
    => \E p \in Node \ {n} : slots[n][p].digest.roster >= config[n]

(* n follows l, has done so when it last ran, and runs again in time. *)
Serves(l, n) ==
  /\ leader[n] = l /\ term[n] = term[l] /\ quorum[n]
  /\ suspended[n] = NobodySuspended /\ siteLeader[n] # l
  /\ seenRoster[n] # 0 /\ seenRoster[n] <= config[n]
  /\ view[n].digest = [roster |-> seenRoster[n], winner |-> l]
  /\ lease[n] > (IF n \in fresh /\ (n = l \/ l \in spoke) THEN 1 ELSE 0)

Undisturbed ==
  /\ up = Node /\ complete = Node /\ directories = Node
  /\ budget.restarts = 0 /\ budget.siteLeaders = 0 /\ budget.lossy = {}

(* The inductive form of an established Leader's keeping its role *)
Steady(l) ==
  /\ Undisturbed /\ l \in Eligible /\ term[l] # 0
  /\ \A n \in Node :
       /\ Serves(l, n) /\ Confirmed(n)
       /\ \A m \in Node \ {n} : Vouches(l, n, m)

(* An established Leader is steady: its members remember what they were    *)
(* told.                                                                   *)
LEMMA EstablishedIsSteady ==
  ASSUME KeptGroup, TypeOK, History, NEW l \in Node, Established(l)
  PROVE  Steady(l)
<1>1. \A n \in Node : \E m \in Node : m # n
  <2> SUFFICES ASSUME NEW n \in Node, \A m \in Node : m = n
               PROVE  FALSE
    OBVIOUS
  <2>1. Node = {n}
    OBVIOUS
  <2>2. Cardinality({n}) = 1
    BY FS_Singleton
  <2> QED BY <2>1, <2>2 DEF KeptGroup
<1>2. ASSUME NEW n \in Node, NEW m \in Node \ {n}
      PROVE  Vouches(l, n, m) /\ m \in directories
  <2>1. /\ slots[n][m].ttl > (IF m \in spoke THEN 1 ELSE 0)
        /\ slots[n][m].digest = [roster |-> 1, winner |-> l]
        /\ slots[n][m].term = term[l] /\ slots[n][m].complete
        /\ term[n] = term[l] /\ view[m].digest = [roster |-> 1, winner |-> l]
    BY <1>2 DEF Established, Follows
  <2>2. slots[n][m].digest # NoDigest /\ slots[n][m] # Vacant
    BY <2>1 DEF NoDigest, Vacant
  <2>3. /\ known[n][m] = 12 /\ m \in directories /\ slots[n][m].roster # 0
        /\ slots[n][m].admitted \/ slots[n][m].term < term[n]
    BY <1>2, <2>2 DEF History, Reported
  <2>4. term[n] \in Nat /\ slots[n][m].roster \in Nat
    BY <1>2, TermLimitAssumption DEF TypeOK, Term, Slot
  <2>5. seenRoster[m] = 1
    BY <1>2, <2>1 DEF History, Remembered
  <2>6. slots[n][m].admitted
    BY <2>1, <2>3, <2>4
  <2>7. /\ slots[n][m].digest.roster = 1 /\ slots[n][m].digest.winner = l
        /\ 1 <= slots[n][m].roster
    BY <2>1, <2>3, <2>4
  <2> QED BY <2>1, <2>3, <2>5, <2>6, <2>7 DEF Vouches
<1>3. ASSUME NEW n \in Node
      PROVE  Serves(l, n) /\ Confirmed(n)
  <2>1. /\ leader[n] = l /\ term[n] = term[l] /\ quorum[n]
        /\ siteLeader[n] # l /\ config[n] = 1 /\ lease[n] > 0
        /\ view[n].digest = [roster |-> 1, winner |-> l]
    BY DEF Established, Follows, LeaseActive
  <2>2. leader[n] # None
    BY <2>1, GroupAssumption
  <2>3. suspended[n] = NobodySuspended /\ seenRoster[n] = 1
    BY <2>1, <2>2 DEF History, Remembered
  <2>4. ASSUME n \in fresh, n = l \/ l \in spoke
        PROVE  lease[n] > 1
    <3>1. CASE n = l
      BY <2>1, <2>4, <3>1 DEF History, Remembered, KeptGroup
    <3>2. CASE n # l
      <4>1. lease[n] = slots[n][l].ttl
        BY <2>1, <2>2, <2>4, <3>2 DEF History, Remembered
      <4>2. slots[n][l].ttl > 1
        BY <2>4, <3>2 DEF Established
      <4> QED BY <4>1, <4>2
    <3> QED BY <3>1, <3>2
  <2>5. Serves(l, n)
    BY <2>1, <2>3, <2>4 DEF Serves
  <2>6. PICK m \in Node \ {n} : TRUE
    BY <1>1
  <2>7. slots[n][m].digest.roster = 1
    BY <2>6 DEF Established
  <2> QED BY <2>1, <2>5, <2>6, <2>7 DEF Confirmed
<1>4. directories = Node /\ complete = Node
  <2>1. \A m \in Node : m \in directories
    BY <1>1, <1>2
  <2> QED BY <2>1 DEF Established, TypeOK
<1>5. l \in Eligible /\ term[l] # 0
  BY DEF Established, Follows, History, Remembered
<1>6. Undisturbed
  BY <1>4 DEF Established, Undisturbed
<1> QED BY <1>2, <1>3, <1>5, <1>6 DEF Steady

(* Every member of a steady Group hears all the others, and needs one of   *)
(* them beside itself.                                                     *)
LEMMA SteadyGroup ==
  ASSUME KeptGroup, TypeOK, NEW l \in Node, Steady(l), NEW n \in Node
  PROVE  /\ config[n] \in 1..Len(Roster) /\ Members(n) = Node
         /\ Enrolled(n) /\ MultiNode(n) /\ Expected(n) \in {2, 3}
         /\ Required(n) = 2
         /\ Live(n) = Node \ {n} /\ LiveComplete(n) = Node \ {n}
         /\ Live(n) # {} /\ IsFiniteSet(Live(n))
         /\ 1 + Cardinality(Live(n)) = Expected(n)
<1>1. config[n] \in 1..Len(Roster)
  <2>1. config[n] \in 0..Len(Roster) /\ seenRoster[n] \in 0..Len(Roster)
    BY DEF TypeOK
  <2>2. seenRoster[n] # 0 /\ seenRoster[n] <= config[n]
    BY DEF Steady, Serves
  <2> QED BY <2>1, <2>2
<1>2. Members(n) = Node
  BY <1>1 DEF KeptGroup, Members
<1>3. Expected(n) \in {2, 3}
  BY <1>2 DEF KeptGroup, Expected
<1>4. Enrolled(n) /\ MultiNode(n)
  BY <1>1, <1>2, <1>3 DEF Enrolled, MultiNode
<1>5. Required(n) = 2
  <2>1. 2 \div 2 + 1 = 2 /\ 3 \div 2 + 1 = 2
    OBVIOUS
  <2> QED BY <1>3, <2>1 DEF Required, StrictMajority
<1>6. \A m \in Node \ {n} : slots[n][m].ttl > 0 /\ slots[n][m].complete
  <2> SUFFICES ASSUME NEW m \in Node \ {n}
               PROVE  slots[n][m].ttl > 0 /\ slots[n][m].complete
    OBVIOUS
  <2>1. slots[n][m].ttl > (IF m \in spoke THEN 1 ELSE 0)
    BY DEF Steady, Vouches
  <2>2. slots[n][m].ttl \in Nat
    BY GroupAssumption DEF TypeOK, Slot
  <2>3. slots[n][m].complete
    BY DEF Steady, Vouches
  <2> QED BY <2>1, <2>2, <2>3
<1>7. Live(n) = Node \ {n} /\ LiveComplete(n) = Node \ {n}
  BY <1>2, <1>4, <1>6 DEF Live, LiveComplete
<1>8. /\ IsFiniteSet(Live(n))
      /\ Cardinality(Live(n)) = Cardinality(Node) - 1
  BY <1>7, GroupAssumption, FS_RemoveElement
<1>9. Expected(n) = Cardinality(Node)
  BY <1>2 DEF Expected
<1>10. 1 + Cardinality(Live(n)) = Expected(n) /\ Cardinality(Live(n)) # 0
  BY <1>3, <1>8, <1>9
<1>11. Live(n) # {}
  BY <1>10, FS_EmptySet
<1> QED BY <1>1, <1>2, <1>3, <1>4, <1>5, <1>7, <1>8, <1>10, <1>11

(* It keeps the incumbent, whose term nobody exceeds. *)
LEMMA SteadyIncumbent ==
  ASSUME KeptGroup, TypeOK, NEW l \in Node, Steady(l), NEW n \in Node
  PROVE  /\ Incumbent(n) /\ Winners(n) = {l} /\ ObservedTerm(n) = term[l]
         /\ Decision(n, l).ready /\ Decision(n, l).term = term[l]
<1>1. LiveComplete(n) = Node \ {n}
  BY SteadyGroup
<1>2. /\ leader[n] = l /\ term[n] = term[l] /\ siteLeader[n] # l
      /\ suspended[n] = NobodySuspended
      /\ lease[n] > (IF n \in fresh /\ (n = l \/ l \in spoke) THEN 1 ELSE 0)
      /\ l \in Eligible /\ complete = Node
  BY DEF Steady, Serves, Undisturbed
<1>3. LeaseActive(n)
  <2>1. lease[n] \in Nat /\ l # None
    BY GroupAssumption DEF TypeOK
  <2> QED BY <1>2, <2>1 DEF LeaseActive
<1>4. l \in Candidates(n)
  BY <1>1, <1>2 DEF Candidates, CombinationAllowed
<1>5. Penalty(n, leader[n]) < 2
  BY <1>2 DEF Penalty
<1>6. Incumbent(n)
  BY <1>2, <1>3, <1>4, <1>5 DEF Incumbent
<1>7. Winners(n) = {l}
  BY <1>2, <1>6 DEF Winners
<1>8. ObservedTerm(n) = term[l]
  <2>1. \A m \in Node \ {n} : slots[n][m].term = term[l]
    BY DEF Steady, Vouches
  <2>2. Candidates(n) \ {n} \subseteq Node \ {n}
    BY CandidatesAreNodes
  <2>3. {slots[n][m].term : m \in {c \in Candidates(n) \ {n} :
                                      slots[n][c].admitted}} \cup {term[n]}
          = {term[l]}
    BY <1>2, <2>1, <2>2
  <2>4. term[l] <= term[l]
    BY TermLimitAssumption DEF TypeOK, Term
  <2> QED BY <2>3, <2>4 DEF ObservedTerm
<1>9. term[l] \in Term /\ term[l] # 0 /\ l # None
  BY GroupAssumption DEF Steady, TypeOK
<1>10. n # l => Admitted(n, l) /\ WinnerTerm(n, l) = term[l]
  BY DEF Steady, Vouches, Admitted, WinnerTerm
<1>11. Decision(n, l) = [term |-> term[l], ready |-> TRUE]
  <2> DEFINE t == term[l]
  <2>1. t \in Nat /\ t >= 1
    BY <1>9, TermLimitAssumption DEF Term
  <2> HIDE DEF t
  <2>2. Larger(t, 1) = t /\ Larger(t, 0) = t /\ t <= t /\ t >= t
    BY <2>1 DEF Larger
  <2>3. LocalTerm(t, l, 0, None, l, t) = t
    BY <1>9, <2>2 DEF LocalTerm, RoleIdEqual
  <2>4. RemoteTermAccepted(t, l, 0, None, l, t)
    BY <1>9, <2>2 DEF RemoteTermAccepted, RoleIdEqual
  <2>5. Decision(n, l) = DecideRoleTerm(t, l, 0, None, l, l = n,
                           WinnerTerm(n, l), Admitted(n, l), t)
    BY <1>2, <1>8 DEF t, Decision, NobodySuspended
  <2>6. ASSUME l = n
        PROVE  Decision(n, l) = [term |-> t, ready |-> TRUE]
    <3>1. Decision(n, l) =
            [term |-> LocalTerm(t, l, 0, None, l, t), ready |-> TRUE]
      BY <2>5, <2>6 DEF DecideRoleTerm
    <3> QED BY <2>3, <3>1
  <2>7. ASSUME l # n
        PROVE  Decision(n, l) = [term |-> t, ready |-> TRUE]
    <3>1. Admitted(n, l) /\ WinnerTerm(n, l) = t
      BY <1>10, <2>7 DEF t
    <3>2. RemoteTermAccepted(t, l, 0, None, l, WinnerTerm(n, l))
      BY <2>4, <3>1
    <3>3. Decision(n, l) = [term |-> WinnerTerm(n, l), ready |-> TRUE]
      BY <2>5, <2>7, <3>1, <3>2 DEF DecideRoleTerm
    <3> QED BY <3>1, <3>3
  <2> QED BY <2>6, <2>7 DEF t
<1> QED BY <1>6, <1>7, <1>8, <1>11

(* Among up to three voters the strongest vote is somebody's. *)
LEMMA StrongestVoteCounts ==
  ASSUME NEW voters, IsFiniteSet(voters), Cardinality(voters) <= 3,
         voters # {}, NEW digest
  PROVE  StrongestVote(voters, digest) \in Nat /\
         StrongestVote(voters, digest) >= 1
<1> DEFINE votes(v) == Cardinality({w \in voters : digest[w] = digest[v]})
<1>1. \A v \in voters : votes(v) \in 1..3
  <2> SUFFICES ASSUME NEW v \in voters PROVE votes(v) \in 1..3
    OBVIOUS
  <2> DEFINE S == {w \in voters : digest[w] = digest[v]}
  <2>1. S \subseteq voters /\ v \in S
    OBVIOUS
  <2> HIDE DEF S
  <2>2. /\ IsFiniteSet(S) /\ Cardinality(S) <= Cardinality(voters)
    BY <2>1, FS_Subset
  <2>3. Cardinality(S) \in Nat /\ Cardinality(voters) \in Nat
    BY <2>2, FS_CardinalityType
  <2>4. Cardinality(S) # 0
    BY <2>1, <2>2, FS_EmptySet
  <2>5. Cardinality(S) \in 1..3
    BY <2>2, <2>3, <2>4
  <2> QED BY <2>5 DEF S
<1> HIDE DEF votes
<1>2. \E v \in voters : \A w \in voters : votes(v) >= votes(w)
  <2>1. CASE \E v \in voters : votes(v) = 3
    BY <1>1, <2>1
  <2>2. CASE /\ ~\E v \in voters : votes(v) = 3
             /\ \E v \in voters : votes(v) = 2
    BY <1>1, <2>2
  <2>3. CASE \A v \in voters : votes(v) = 1
    BY <2>3
  <2> QED BY <1>1, <2>1, <2>2, <2>3
<1>3. StrongestVote(voters, digest) =
        votes(CHOOSE v \in voters : \A w \in voters : votes(v) >= votes(w))
  BY DEF StrongestVote, votes
<1> QED BY <1>1, <1>2, <1>3

(* What a steady member's peers endorse is the Leader, on some roster. *)
LEMMA SteadyVoters ==
  ASSUME KeptGroup, TypeOK, NEW l \in Node, Steady(l), NEW n \in Node,
         NEW m \in Live(n)
  PROVE  /\ slots[n][m].digest # NoDigest
         /\ slots[n][m].digest.winner = l
         /\ slots[n][m].digest.roster \in Nat
         /\ slots[n][m].roster \in Nat /\ slots[n][m].roster # 0
         /\ slots[n][m].digest.roster <= slots[n][m].roster
         /\ m \in DirectEndorsers(n, ViewOf(n, l)) <=>
              slots[n][m].digest.roster = config[n]
<1> DEFINE s == slots[n][m]
<1>1. m \in Node \ {n}
  BY LiveAreNodes
<1>2. /\ s.digest = [roster |-> s.digest.roster, winner |-> l]
      /\ s.digest.roster # 0 /\ s.digest.roster <= s.roster
  BY <1>1 DEF Steady, Vouches
<1>3. s \in Slot /\ s.digest \in Digest
  BY <1>1 DEF TypeOK, Slot
<1>4. s.roster \in Nat /\ s.digest.roster \in Nat
  BY <1>3 DEF Slot, Digest
<1>5. ViewOf(n, l).digest = [roster |-> config[n], winner |-> l]
  BY DEF ViewOf
<1> HIDE DEF s
<1>6. s.digest # NoDigest /\ s.digest.winner = l /\ s.roster # 0
  BY <1>2, <1>4 DEF NoDigest
<1>7. s.digest = ViewOf(n, l).digest <=> s.digest.roster = config[n]
  BY <1>2, <1>5
<1> QED BY <1>2, <1>4, <1>6, <1>7 DEF s, DirectEndorsers

(* Where not one peer endorses the present roster, the others' rosters or  *)
(* the member's own memory tell that a transition is under way.            *)
LEMMA SteadyTransition ==
  ASSUME KeptGroup, TypeOK, NEW l \in Node, Steady(l), NEW n \in Node,
         DirectEndorsers(n, ViewOf(n, l)) = {}
  PROVE  BoundedTransition(n)
<1>1. quorum[n] /\ term[n] # 0 /\ term[n] = term[l] /\ seenRoster[n] # 0
  BY DEF Steady, Serves
<1>2. Incumbent(n) /\ ObservedTerm(n) <= term[n]
  <2>1. Incumbent(n) /\ ObservedTerm(n) = term[l]
    BY SteadyIncumbent
  <2>2. term[n] <= term[n]
    BY TermLimitAssumption DEF TypeOK, Term
  <2> QED BY <1>1, <2>1, <2>2
<1>3. Live(n) = Node \ {n} /\ LiveComplete(n) = Live(n)
  BY SteadyGroup
<1>4. ASSUME views[n] = <<>>, seenRoster[n] = config[n]
      PROVE  \E m \in LiveComplete(n) : RosterDiffers(n, m)
  <2>1. PICK p \in Live(n) : slots[n][p].digest.roster >= config[n]
    BY <1>3, <1>4 DEF Steady, Confirmed
  <2>2. /\ slots[n][p].digest.roster # config[n]
        /\ slots[n][p].digest.roster <= slots[n][p].roster
        /\ slots[n][p].digest.roster \in Nat
        /\ slots[n][p].roster \in Nat /\ slots[n][p].roster # 0
    BY SteadyVoters
  <2>3. config[n] \in Nat
    BY DEF TypeOK
  <2>4. slots[n][p].roster # config[n]
    BY <2>1, <2>2, <2>3
  <2> QED BY <1>3, <2>2, <2>4 DEF RosterDiffers
<1> QED BY <1>1, <1>2, <1>4 DEF BoundedTransition

(* In a transition the Leader's own vote, or that of another member for    *)
(* one of the earlier views, completes the quorum.                         *)
LEMMA SteadyTolerance ==
  ASSUME KeptGroup, TypeOK, NEW l \in Node, Steady(l), NEW n \in Node,
         DirectEndorsers(n, ViewOf(n, l)) = {}
  PROVE  /\ TransitionalEndorsements(n, ViewOf(n, l)) \in Nat
         /\ TransitionalEndorsements(n, ViewOf(n, l)) >= 1
<1> DEFINE v == ViewOf(n, l)
           digests ==
             {EarlierViews(n, v)[i].digest : i \in 1..Len(EarlierViews(n, v))}
             \cup (IF IncumbentVouches(n) THEN {slots[n][leader[n]].digest}
                   ELSE {})
           earlier == {m \in Live(n) \ DirectEndorsers(n, v) :
                         slots[n][m].digest \in digests}
           others == {m \in LiveComplete(n) \
                              (DirectEndorsers(n, v) \cup earlier) :
                        slots[n][m].digest # NoDigest}
           alternate ==
             IF IncumbentVouches(n) THEN 0
             ELSE StrongestVote(others, [m \in others |-> slots[n][m].digest])
<1>1. TransitionalEndorsements(n, v)
        = Larger(Cardinality(earlier), alternate)
  BY SteadyTransition DEF TransitionalEndorsements
<1>2. /\ Live(n) = Node \ {n} /\ LiveComplete(n) = Live(n)
      /\ Live(n) # {} /\ IsFiniteSet(Live(n))
      /\ 1 + Cardinality(Live(n)) = Expected(n) /\ Expected(n) \in {2, 3}
  BY SteadyGroup
<1>3. \A m \in Live(n) : slots[n][m].digest # NoDigest
  BY SteadyVoters
<1>4. earlier \subseteq Live(n) /\ others = Live(n) \ earlier
  BY <1>2, <1>3
<1>5. IncumbentVouches(n) => earlier # {}
  <2> SUFFICES ASSUME IncumbentVouches(n) PROVE leader[n] \in earlier
    OBVIOUS
  <2>1. leader[n] # n /\ leader[n] = l
    BY DEF IncumbentVouches, Steady, Serves
  <2>2. slots[n][leader[n]].digest \in digests
    OBVIOUS
  <2> HIDE DEF digests
  <2> QED BY <1>2, <2>1, <2>2
<1> HIDE DEF digests, earlier, others
<1>6. /\ Cardinality(earlier) \in Nat /\ (earlier # {} => Cardinality(earlier) >= 1)
      /\ Cardinality(others) <= 3 /\ IsFiniteSet(others)
  <2>1. /\ IsFiniteSet(earlier) /\ IsFiniteSet(others)
        /\ Cardinality(others) <= Cardinality(Live(n))
    BY <1>2, <1>4, FS_Subset
  <2>2. Cardinality(earlier) \in Nat /\ Cardinality(others) \in Nat
        /\ Cardinality(Live(n)) \in Nat
    BY <1>2, <2>1, FS_CardinalityType
  <2>3. earlier # {} => Cardinality(earlier) # 0
    BY <2>1, FS_EmptySet
  <2> QED BY <1>2, <2>1, <2>2, <2>3
<1>7. CASE earlier # {}
  <2>1. alternate \in Nat
    <3>1. CASE IncumbentVouches(n)
      BY <3>1
    <3>2. CASE ~IncumbentVouches(n) /\ others # {}
      BY <1>6, <3>2, StrongestVoteCounts
    <3>3. CASE ~IncumbentVouches(n) /\ others = {}
      BY <3>3 DEF StrongestVote
    <3> QED BY <3>1, <3>2, <3>3
  <2> HIDE DEF alternate
  <2> QED BY <1>1, <1>6, <1>7, <2>1 DEF Larger
<1>8. CASE earlier = {}
  <2>1. ~IncumbentVouches(n) /\ others # {}
    BY <1>2, <1>4, <1>5, <1>8
  <2>2. alternate \in Nat /\ alternate >= 1
    BY <1>6, <2>1, StrongestVoteCounts
  <2> HIDE DEF alternate
  <2> QED BY <1>1, <1>6, <2>2 DEF Larger
<1> QED BY <1>7, <1>8

(* Hence every member of a steady Group finds a quorum for the Leader. *)
LEMMA SteadyQuorum ==
  ASSUME KeptGroup, TypeOK, NEW l \in Node, Steady(l), NEW n \in Node
  PROVE  HasQuorum(n, ViewOf(n, l))
<1> DEFINE v == ViewOf(n, l)
           direct == DirectEndorsements(n, v)
<1>1. /\ Required(n) = 2 /\ Expected(n) \in {2, 3}
      /\ IsFiniteSet(Live(n)) /\ 1 + Cardinality(Live(n)) = Expected(n)
  BY SteadyGroup
<1>2. QuorumAvailable(Expected(n), 1 + Cardinality(Live(n)))
  <2>1. StrictMajority(Expected(n)) = 2
    BY <1>1 DEF Required
  <2> QED BY <1>1, <2>1 DEF QuorumAvailable
<1>3. /\ DirectEndorsers(n, v) \subseteq Live(n)
      /\ IsFiniteSet(DirectEndorsers(n, v))
      /\ Cardinality(DirectEndorsers(n, v)) \in Nat
  <2>1. DirectEndorsers(n, v) \subseteq Live(n)
    BY DEF DirectEndorsers
  <2>2. IsFiniteSet(DirectEndorsers(n, v))
    BY <1>1, <2>1, FS_Subset
  <2> QED BY <2>1, <2>2, FS_CardinalityType
<1>4. CASE DirectEndorsers(n, v) # {}
  <2>1. Cardinality(DirectEndorsers(n, v)) # 0
    BY <1>3, <1>4, FS_EmptySet
  <2>2. direct >= Required(n)
    BY <1>1, <1>3, <2>1 DEF DirectEndorsements
  <2>3. Endorsements(n, v) = direct
    BY <2>2 DEF Endorsements
  <2> QED BY <1>2, <2>2, <2>3 DEF HasQuorum
<1>5. CASE DirectEndorsers(n, v) = {}
  <2> DEFINE earlier == TransitionalEndorsements(n, v)
  <2>1. earlier \in Nat /\ earlier >= 1
    BY <1>5, SteadyTolerance
  <2>2. direct = 1
    <3>1. Cardinality({}) = 0
      BY FS_EmptySet
    <3> QED BY <1>5, <3>1 DEF DirectEndorsements
  <2>3. /\ quorum[n] /\ term[n] # 0 /\ RoleIdEqual(leader[n], v.digest.winner)
        /\ ObservedTerm(n) <= term[n]
    <3>1. v.digest.winner = l
      BY DEF ViewOf
    <3>2. quorum[n] /\ leader[n] = l /\ term[n] = term[l] /\ term[l] # 0
      BY DEF Steady, Serves
    <3>3. l # None /\ term[l] <= term[l]
      <4>1. l # None
        BY GroupAssumption
      <4>2. term[l] \in Int
        BY TermLimitAssumption DEF TypeOK, Term
      <4> QED BY <4>1, <4>2
    <3> HIDE DEF v
    <3> QED BY <3>1, <3>2, <3>3, SteadyIncumbent DEF RoleIdEqual
  <2> HIDE DEF v, direct, earlier
  <2>4. PreserveIncumbentEndorsements(quorum[n], leader[n], term[n],
          ObservedTerm(n), v.digest.winner, direct, earlier, Required(n))
          = direct + earlier
    BY <1>1, <2>1, <2>2, <2>3 DEF PreserveIncumbentEndorsements
  <2>5. Endorsements(n, v) \in {direct, direct + earlier}
        /\ (FenceSupported(n) => Endorsements(n, v) = direct + earlier)
    BY <1>1, <2>2, <2>4 DEF Endorsements, direct, earlier
  <2> QED BY <1>1, <1>2, <2>1, <2>2, <2>5 DEF HasQuorum, v
<1> QED BY <1>4, <1>5

(* An update of a steady member keeps the Leader and the term. *)
LEMMA SteadyUpdate ==
  ASSUME KeptGroup, TypeOK, NEW l \in Node, Steady(l), NEW n \in Node,
         Update(n)
  PROVE  /\ leader'[n] = l /\ term'[n] = term[l] /\ quorum'[n]
         /\ suspended'[n] = NobodySuspended /\ seenRoster'[n] = config[n]
         /\ lease'[n] = IF l = n THEN LeaseTicks ELSE slots[n][l].ttl
         /\ view'[n] = ViewOf(n, l) /\ views'[n] = ViewsAfter(n, ViewOf(n, l))
         /\ OthersKeep(n)
         /\ \A m \in Node \ {n} : slots'[n][m] = slots[n][m]
         /\ \A k \in Node \ {n} : slots'[k] = slots[k]
<1> DEFINE v == ViewOf(n, l)
           lasts == IF l = n THEN LeaseTicks ELSE slots[n][l].ttl
<1>1. Winners(n) = {l} /\ Decision(n, l).ready /\ Decision(n, l).term = term[l]
  BY SteadyIncumbent
<1>2. HasQuorum(n, v)
  BY SteadyQuorum
<1>3. v.digest.winner = l /\ l # None
  BY GroupAssumption DEF ViewOf
<1>4. LoseQuorum(n, v) \/ FindNoWinner(n, v) \/ RefuseTerm(n, v)
      \/ LeadOrFollow(n, v)
  BY <1>1 DEF Update
<1> HIDE DEF v
<1>5. LeadOrFollow(n, v)
  BY <1>1, <1>2, <1>3, <1>4 DEF LoseQuorum, FindNoWinner, RefuseTerm
<1>6. /\ Becomes(n, l, term[l], lasts, TRUE)
      /\ Concludes(n, v, NobodySuspended)
  BY <1>1, <1>3, <1>5 DEF LeadOrFollow
<1> HIDE DEF lasts
<1>7. /\ leader'[n] = l /\ term'[n] = term[l] /\ quorum'[n] = TRUE
      /\ lease'[n] = lasts
      /\ view'[n] = v /\ views'[n] = ViewsAfter(n, v)
      /\ suspended'[n] = NobodySuspended /\ OthersKeep(n)
  <2>1. OthersKeep(n)
    BY UpdateOutcome
  <2> QED BY <1>6, <2>1 DEF Becomes, Concludes, TypeOK
<1>8. Live(n) = Node \ {n}
  BY SteadyGroup
<1>9. /\ slots' = [slots EXCEPT ![n] = [m \in Node |->
                     IF m \in Live(n) THEN slots[n][m] ELSE Vacant]]
      /\ seenRoster' = [seenRoster EXCEPT ![n] = config[n]]
  BY DEF Update
<1>10. /\ \A m \in Node \ {n} : slots'[n][m] = slots[n][m]
       /\ \A k \in Node \ {n} : slots'[k] = slots[k]
       /\ seenRoster'[n] = config[n]
  BY <1>8, <1>9 DEF TypeOK
<1> QED BY <1>7, <1>10 DEF v, lasts

(* Capturing a transition remembers at least one view. *)
LEMMA CaptureRemembers ==
  ASSUME NEW S, NEW earlier \in Seq(S), NEW v \in S
  PROVE  CaptureView(earlier, v) # <<>>
<1>1. CASE \E i \in 1..Len(earlier) : earlier[i] = v
  <2>1. Len(earlier) # 0
    BY <1>1
  <2>2. earlier # <<>>
    BY <2>1
  <2> QED BY <1>1, <2>2 DEF CaptureView
<1>2. CASE ~\E i \in 1..Len(earlier) : earlier[i] = v
  <2>1. \A s \in Seq(S) : Append(s, v) # <<>>
    OBVIOUS
  <2>2. ~(Len(earlier) < MaxViews) => Tail(earlier) \in Seq(S)
    <3> SUFFICES ASSUME ~(Len(earlier) < MaxViews)
                 PROVE  Tail(earlier) \in Seq(S)
      OBVIOUS
    <3>1. earlier # <<>>
      BY DEF MaxViews
    <3> QED BY <3>1
  <2> QED BY <1>2, <2>1, <2>2 DEF CaptureView
<1> QED BY <1>1, <1>2

(* The update of one member keeps the Group steady. *)
LEMMA SteadyThroughUpdate ==
  ASSUME KeptGroup, TypeOK, NEW l \in Node, Steady(l), NEW k \in Node,
         Update(k)
  PROVE  Steady(l)'
<1>1. /\ leader'[k] = l /\ term'[k] = term[l] /\ quorum'[k]
      /\ suspended'[k] = NobodySuspended /\ seenRoster'[k] = config[k]
      /\ lease'[k] = IF l = k THEN LeaseTicks ELSE slots[k][l].ttl
      /\ view'[k] = ViewOf(k, l) /\ views'[k] = ViewsAfter(k, ViewOf(k, l))
      /\ OthersKeep(k)
      /\ \A m \in Node \ {k} : slots'[k][m] = slots[k][m]
      /\ \A n \in Node \ {k} : slots'[n] = slots[n]
  BY SteadyUpdate
<1>2. /\ config' = config /\ siteLeader' = siteLeader
      /\ directories' = directories /\ complete' = complete
      /\ known' = known /\ spoke' = spoke /\ up' = up /\ budget' = budget
      /\ fresh' = fresh \cup {k}
  BY DEF Update, inputs, transport
<1>3. \A n \in Node \ {k} :
        /\ CoordinatorKept(n) /\ lease'[n] = lease[n]
  BY <1>1 DEF OthersKeep, CoordinatorKept, TypeOK, Update
<1>4. term'[l] = term[l] /\ term[l] # 0
  BY <1>1, <1>3 DEF CoordinatorKept, Steady
<1>5. config[k] \in 1..Len(Roster) /\ seenRoster[k] \in Nat
      /\ seenRoster[k] <= config[k] /\ seenRoster[k] # 0
  <2>1. config[k] \in 1..Len(Roster)
    BY SteadyGroup
  <2>2. seenRoster[k] \in Nat
    BY DEF TypeOK
  <2> QED BY <2>1, <2>2 DEF Steady, Serves
<1>6. ASSUME NEW n \in Node
      PROVE  Serves(l, n)'
  <2>1. CASE n # k
    <3>1. Serves(l, n) /\ CoordinatorKept(n) /\ lease'[n] = lease[n]
      BY <1>3, <2>1 DEF Steady
    <3>2. n \in fresh' <=> n \in fresh
      BY <1>2, <2>1
    <3> QED BY <1>2, <1>4, <3>1, <3>2 DEF Serves, CoordinatorKept
  <2>2. CASE n = k
    <3>1. view'[k].digest = [roster |-> config[k], winner |-> l]
      BY <1>1 DEF ViewOf
    <3>2. lease'[k] > (IF k \in fresh' /\ (k = l \/ l \in spoke')
                       THEN 1 ELSE 0)
      <4>1. CASE k = l
        BY <1>1, <4>1, GroupAssumption DEF KeptGroup
      <4>2. CASE k # l
        <5>1. slots[k][l].ttl > (IF l \in spoke THEN 1 ELSE 0)
          BY <4>2 DEF Steady, Vouches
        <5>2. slots[k][l].ttl \in Nat
          BY <4>2, GroupAssumption DEF TypeOK, Slot
        <5> QED BY <1>1, <1>2, <4>2, <5>1, <5>2
      <4> QED BY <4>1, <4>2
    <3>3. siteLeader[k] # l
      BY DEF Steady, Serves
    <3> QED BY <1>1, <1>2, <1>4, <1>5, <2>2, <3>1, <3>2, <3>3 DEF Serves
  <2> QED BY <2>1, <2>2
<1>7. ASSUME NEW n \in Node, NEW m \in Node \ {n}
      PROVE  Vouches(l, n, m)'
  <2>1. Vouches(l, n, m)
    BY DEF Steady
  <2>2. slots'[n][m] = slots[n][m]
    BY <1>1
  <2>3. seenRoster[m] <= seenRoster'[m]
    <3>1. CASE m = k
      BY <1>1, <1>5, <3>1
    <3>2. CASE m # k
      <4>1. seenRoster[m] \in Nat
        BY DEF TypeOK
      <4> QED BY <1>3, <3>2, <4>1 DEF CoordinatorKept
    <3> QED BY <3>1, <3>2
  <2>4. /\ seenRoster[m] \in Nat /\ seenRoster'[m] \in Nat
        /\ slots[n][m].digest.roster \in Nat
    <3>1. slots[n][m] \in Slot
      BY DEF TypeOK
    <3>2. slots[n][m].digest.roster \in Nat
      BY <3>1 DEF Slot, Digest
    <3>3. TypeOK'
      BY UpdateType
    <3> QED BY <3>2, <3>3 DEF TypeOK
  <2> QED BY <1>2, <1>4, <2>1, <2>2, <2>3, <2>4 DEF Vouches
<1>8. ASSUME NEW n \in Node
      PROVE  Confirmed(n)'
  <2>1. CASE n # k
    <3>1. Confirmed(n) /\ CoordinatorKept(n) /\ slots'[n] = slots[n]
      BY <1>1, <1>3, <2>1 DEF Steady
    <3> QED BY <1>2, <3>1 DEF Confirmed, CoordinatorKept
  <2>2. CASE n = k
    <3> DEFINE v == ViewOf(k, l)
    <3> SUFFICES ASSUME ViewsAfter(k, v) = <<>>
                 PROVE  \E p \in Node \ {k} :
                          slots[k][p].digest.roster >= config[k]
      BY <1>1, <1>2, <2>2 DEF Confirmed
    <3>1. Live(k) = Node \ {k}
      BY SteadyGroup
    <3>2. CASE DirectEndorsers(k, v) # {}
      <4>1. PICK p \in DirectEndorsers(k, v) : TRUE
        BY <3>2
      <4>2. p \in Live(k)
        BY DEF DirectEndorsers
      <4>3. slots[k][p].digest.roster = config[k]
        BY <4>1, <4>2, SteadyVoters
      <4> QED BY <1>5, <3>1, <4>2, <4>3
    <3>3. CASE DirectEndorsers(k, v) = {}
      <4>1. DirectEndorsements(k, v) = 1 /\ Required(k) = 2
        BY <3>3, SteadyGroup, FS_EmptySet DEF DirectEndorsements
      <4>2. EarlierViews(k, v) = <<>>
        BY <4>1 DEF ViewsAfter
      <4>3. BoundedTransition(k)
        BY <3>3, SteadyTransition
      <4>4. view[k] # NoView
        <5>1. view[k].digest = [roster |-> seenRoster[k], winner |-> l]
          BY DEF Steady, Serves
        <5>2. view[k].digest.roster # 0
          BY <1>5, <5>1
        <5> QED BY <5>2 DEF NoView, NoDigest
      <4>5. v = view[k] /\ views[k] = <<>>
        <5>1. CASE v = view[k]
          BY <4>2, <4>3, <5>1 DEF EarlierViews
        <5>2. CASE v # view[k]
          <6>1. CaptureView(views[k], view[k]) = <<>>
            BY <4>2, <4>3, <4>4, <5>2 DEF EarlierViews
          <6>2. views[k] \in Seq(View) /\ view[k] \in View
            BY DEF TypeOK
          <6>3. CaptureView(views[k], view[k]) # <<>>
            BY <6>2, CaptureRemembers
          <6> QED BY <6>1, <6>3
        <5> QED BY <5>1, <5>2
      <4>6. seenRoster[k] = config[k]
        <5>1. v.digest = [roster |-> config[k], winner |-> l]
          BY DEF ViewOf
        <5>2. view[k].digest = [roster |-> seenRoster[k], winner |-> l]
          BY DEF Steady, Serves
        <5>3. v.digest.roster = config[k] /\ view[k].digest.roster = seenRoster[k]
          BY <5>1, <5>2
        <5> HIDE DEF v
        <5> QED BY <4>5, <5>3
      <4> QED BY <4>5, <4>6 DEF Steady, Confirmed
    <3> QED BY <3>2, <3>3
  <2> QED BY <2>1, <2>2
<1> QED BY <1>2, <1>4, <1>6, <1>7, <1>8 DEF Steady, Undisturbed

(* In a steady Group every heartbeat arrives, with all that n endorses. *)
LEMMA SteadySend ==
  ASSUME KeptGroup, TypeOK, NEW l \in Node, Steady(l), NEW k \in Node,
         Send(k)
  PROVE  /\ \A n \in Node \ {k} :
              /\ slots'[n][k].ttl = LeaseTicks
              /\ slots'[n][k].term = term[l] /\ slots'[n][k].admitted
              /\ slots'[n][k].roster = config[k] /\ slots'[n][k].complete
              /\ slots'[n][k].digest = view[k].digest
              /\ known'[n][k] = 12
         /\ \A n, m \in Node : m # k =>
              slots'[n][m] = slots[n][m] /\ known'[n][m] = known[n][m]
         /\ fresh' \subseteq {k} \cap fresh
<1>1. \A n \in Node :
        /\ Members(n) = Node /\ Enrolled(n) /\ config[n] \in 1..Len(Roster)
        /\ seenRoster[n] # 0 /\ term[n] = term[l] /\ term[n] # 0
  <2> SUFFICES ASSUME NEW n \in Node
               PROVE  /\ Members(n) = Node /\ Enrolled(n)
                      /\ config[n] \in 1..Len(Roster)
                      /\ seenRoster[n] # 0 /\ term[n] = term[l] /\ term[n] # 0
    OBVIOUS
  <2>1. Members(n) = Node /\ Enrolled(n) /\ config[n] \in 1..Len(Roster)
    BY SteadyGroup
  <2> QED BY <2>1 DEF Steady, Serves
<1>2. up = Node /\ directories = Node /\ complete = Node /\ budget.lossy = {}
  BY DEF Steady, Undisturbed
<1>3. Peers(k) = Node \ {k}
  BY <1>1, <1>2 DEF Peers, Started
<1>4. MayLose(k) = {}
  BY <1>2 DEF MayLose
<1>5. /\ slots' = [i \in Node |->
           IF i \in Node \ {k} THEN [slots[i] EXCEPT ![k] = SlotAfter(k, i)]
           ELSE slots[i]]
      /\ known' = [i \in Node |->
           IF i \in Node \ {k} THEN [known[i] EXCEPT ![k] = KnownAfter(k, i)]
           ELSE known[i]]
      /\ fresh' = fresh \ (Node \ {k})
  BY <1>3, <1>4 DEF Send
<1>6. ASSUME NEW n \in Node \ {k}
      PROVE  /\ Wire(k, n) = 12 /\ KnownAfter(k, n) = 12
             /\ Admissible(k, n)
  <2>1. known[k][n] = 12 /\ known[n][k] = 12
    <3>1. Vouches(l, k, n) /\ Vouches(l, n, k)
      BY DEF Steady
    <3> QED BY <3>1 DEF Vouches
  <2>2. Wire(k, n) = 12
    BY <1>2, <2>1 DEF Wire
  <2>3. config[k] = config[n] \/ config[k] \in {config[n] - 1, config[n] + 1}
    <3>1. Len(Roster) \in Nat
      BY GroupAssumption
    <3>2. config[k] \in {1, 2} /\ config[n] \in {1, 2}
      BY <1>1, <3>1 DEF KeptGroup
    <3> QED BY <3>2
  <2> QED BY <1>1, <1>2, <2>1, <2>2, <2>3 DEF KnownAfter, Larger, Admissible
<1>7. ASSUME NEW n \in Node \ {k}
      PROVE  /\ slots'[n][k] = SlotAfter(k, n)
             /\ known'[n][k] = 12
  BY <1>5, <1>6, <1>7 DEF TypeOK
<1>8. ASSUME NEW n \in Node \ {k}
      PROVE  /\ SlotAfter(k, n).ttl = LeaseTicks
             /\ SlotAfter(k, n).term = term[l] /\ SlotAfter(k, n).admitted
             /\ SlotAfter(k, n).roster = config[k] /\ SlotAfter(k, n).complete
             /\ SlotAfter(k, n).digest = view[k].digest
  <2> DEFINE old == /\ k \in Eligible /\ leader[n] = k /\ LeaseActive(n)
                    /\ term[k] < term[n]
  <2>1. SlotAfter(k, n) =
          [ttl |-> LeaseTicks, term |-> term[k], admitted |-> ~old,
           roster |-> config[k], digest |-> view[k].digest,
           complete |-> k \in complete]
    BY <1>6 DEF SlotAfter
  <2>2. ~old
    <3>1. term[k] = term[n] /\ term[k] \in Int
      BY <1>1, TermLimitAssumption DEF TypeOK, Term
    <3> QED BY <3>1
  <2> HIDE DEF old
  <2>3. /\ SlotAfter(k, n).ttl = LeaseTicks
        /\ SlotAfter(k, n).term = term[k]
        /\ SlotAfter(k, n).roster = config[k]
        /\ SlotAfter(k, n).digest = view[k].digest
    BY <2>1
  <2>4. SlotAfter(k, n).admitted = ~old
    BY <2>1
  <2>5. SlotAfter(k, n).complete = (k \in complete)
    BY <2>1
  <2> QED BY <1>1, <1>2, <2>2, <2>3, <2>4, <2>5
<1>9. \A n, m \in Node : m # k =>
        slots'[n][m] = slots[n][m] /\ known'[n][m] = known[n][m]
  BY <1>5 DEF TypeOK
<1>10. fresh' \subseteq {k} \cap fresh
  BY <1>5 DEF TypeOK
<1> QED BY <1>7, <1>8, <1>9, <1>10

(* A heartbeat cycle keeps the Group steady. *)
LEMMA SteadyThroughSend ==
  ASSUME KeptGroup, TypeOK, NEW l \in Node, Steady(l), NEW k \in Node,
         Send(k)
  PROVE  Steady(l)'
<1>1. /\ UNCHANGED <<inputs, coordinator, up, budget>>
      /\ spoke' = spoke \cup {k}
  BY DEF Send
<1>2. /\ config' = config /\ siteLeader' = siteLeader
      /\ directories' = directories /\ complete' = complete
      /\ leader' = leader /\ term' = term /\ lease' = lease
      /\ quorum' = quorum /\ view' = view /\ suspended' = suspended
      /\ views' = views /\ seenRoster' = seenRoster
      /\ up' = up /\ budget' = budget
  BY <1>1 DEF inputs, coordinator
<1>3. fresh' \subseteq {k} \cap fresh
  BY SteadySend
<1>4. ASSUME NEW n \in Node, NEW m \in Node \ {n}
      PROVE  /\ Vouches(l, n, m)'
             /\ slots[n][m].digest.roster \in Nat
             /\ slots'[n][m].digest.roster \in Nat
             /\ slots[n][m].digest.roster <= slots'[n][m].digest.roster
  <2>1. Vouches(l, n, m)
    BY DEF Steady
  <2>2. /\ slots[n][m].digest.roster \in Nat
        /\ seenRoster[m] \in Nat /\ config[m] \in Nat
    <3>1. slots[n][m] \in Slot
      BY DEF TypeOK
    <3>2. slots[n][m].digest.roster \in Nat
      BY <3>1 DEF Slot, Digest
    <3> QED BY <3>2 DEF TypeOK
  <2>3. CASE m = k
    <3>1. /\ slots'[n][m].ttl = LeaseTicks
          /\ slots'[n][m].term = term[l] /\ slots'[n][m].admitted
          /\ slots'[n][m].roster = config[m] /\ slots'[n][m].complete
          /\ slots'[n][m].digest = view[m].digest
          /\ known'[n][m] = 12
      BY <1>4, <2>3, SteadySend
    <3>2. /\ view[m].digest = [roster |-> seenRoster[m], winner |-> l]
          /\ seenRoster[m] # 0 /\ seenRoster[m] <= config[m]
      BY DEF Steady, Serves
    <3>3. slots[n][m].digest.roster <= seenRoster[m]
      BY <2>1 DEF Vouches
    <3>4. LeaseTicks > (IF m \in spoke' THEN 1 ELSE 0)
      BY GroupAssumption DEF KeptGroup
    <3>5. /\ slots'[n][m].digest = [roster |-> seenRoster[m], winner |-> l]
          /\ slots'[n][m].digest.roster = seenRoster[m]
      BY <3>1, <3>2
    <3>6. seenRoster[m] <= seenRoster[m]
      BY <2>2
    <3> QED BY <1>2, <2>2, <3>1, <3>2, <3>3, <3>4, <3>5, <3>6 DEF Vouches
  <2>4. CASE m # k
    <3>1. slots'[n][m] = slots[n][m] /\ known'[n][m] = known[n][m]
      BY <2>4, SteadySend
    <3>2. m \in spoke' <=> m \in spoke
      BY <1>1, <2>4
    <3>3. slots[n][m].digest.roster <= slots[n][m].digest.roster
      BY <2>2
    <3> QED BY <1>2, <2>1, <2>2, <3>1, <3>2, <3>3 DEF Vouches
  <2> QED BY <2>3, <2>4
<1>5. ASSUME NEW n \in Node
      PROVE  Serves(l, n)' /\ Confirmed(n)'
  <2>1. Serves(l, n) /\ Confirmed(n)
    BY DEF Steady
  <2>2. lease[n] > (IF n \in fresh' /\ (n = l \/ l \in spoke')
                    THEN 1 ELSE 0)
    <3>1. lease[n] \in Nat
      BY DEF TypeOK
    <3>2. lease[n] > 0
      BY <2>1, <3>1 DEF Serves
    <3>3. n \in fresh' /\ (n = l \/ l \in spoke')
            => n \in fresh /\ (n = l \/ l \in spoke)
      BY <1>1, <1>3
    <3> QED BY <2>1, <3>2, <3>3 DEF Serves
  <2>3. Serves(l, n)'
    BY <1>2, <2>1, <2>2 DEF Serves
  <2>4. Confirmed(n)'
    <3> SUFFICES ASSUME seenRoster[n] = config[n], views[n] = <<>>
                 PROVE  \E p \in Node \ {n} :
                          slots'[n][p].digest.roster >= config[n]
      BY <1>2 DEF Confirmed
    <3>1. PICK p \in Node \ {n} : slots[n][p].digest.roster >= config[n]
      BY <2>1 DEF Confirmed
    <3>2. /\ slots[n][p].digest.roster <= slots'[n][p].digest.roster
          /\ slots[n][p].digest.roster \in Nat
          /\ slots'[n][p].digest.roster \in Nat /\ config[n] \in Nat
      BY <1>4 DEF TypeOK
    <3> QED BY <3>1, <3>2
  <2> QED BY <2>3, <2>4
<1> QED BY <1>2, <1>4, <1>5 DEF Steady, Undisturbed

(* So does the passing of an interval, in which everybody ran and spoke. *)
LEMMA SteadyThroughTick ==
  ASSUME KeptGroup, TypeOK, NEW l \in Node, Steady(l), Tick
  PROVE  Steady(l)'
<1>1. \A n \in Node : n \in fresh /\ n \in spoke
  BY SteadyGroup DEF Tick, Steady, Undisturbed
<1>2. /\ config' = config /\ siteLeader' = siteLeader
      /\ directories' = directories /\ complete' = complete
      /\ leader' = leader /\ term' = term
      /\ quorum' = quorum /\ view' = view /\ suspended' = suspended
      /\ views' = views /\ seenRoster' = seenRoster /\ known' = known
      /\ up' = up /\ budget' = budget /\ fresh' = {} /\ spoke' = {}
  BY DEF Tick, inputs
<1>3. \A t \in Nat : t > 1 => Less(t) > 0
  BY DEF Less
<1>4. ASSUME NEW n \in Node, NEW m \in Node \ {n}
      PROVE  Vouches(l, n, m)' /\ slots'[n][m].digest = slots[n][m].digest
  <2>1. Vouches(l, n, m)
    BY DEF Steady
  <2>2. slots[n][m] \in Slot /\ slots[n][m].ttl \in Nat
    BY GroupAssumption DEF TypeOK, Slot
  <2>3. slots'[n][m] = [slots[n][m] EXCEPT !.ttl = Less(@)]
    BY DEF Tick
  <2>4. /\ slots'[n][m].ttl = Less(slots[n][m].ttl)
        /\ slots'[n][m].term = slots[n][m].term
        /\ slots'[n][m].admitted = slots[n][m].admitted
        /\ slots'[n][m].roster = slots[n][m].roster
        /\ slots'[n][m].complete = slots[n][m].complete
        /\ slots'[n][m].digest = slots[n][m].digest
    BY <2>2, <2>3 DEF Slot
  <2>5. slots[n][m].ttl > 1
    BY <1>1, <2>1 DEF Vouches
  <2>6. slots'[n][m].ttl > 0
    BY <1>3, <2>2, <2>4, <2>5
  <2> QED BY <1>2, <2>1, <2>4, <2>6 DEF Vouches
<1>5. ASSUME NEW n \in Node
      PROVE  Serves(l, n)' /\ Confirmed(n)'
  <2>1. Serves(l, n) /\ Confirmed(n)
    BY DEF Steady
  <2>2. lease[n] > 1 /\ lease[n] \in Nat
    BY <1>1, <2>1 DEF Serves, TypeOK
  <2>3. lease'[n] > 0
    <3>1. lease'[n] = Less(lease[n])
      BY DEF Tick
    <3> QED BY <1>3, <2>2, <3>1
  <2>4. Serves(l, n)'
    BY <1>2, <2>1, <2>3 DEF Serves
  <2>5. Confirmed(n)'
    BY <1>2, <1>4, <2>1 DEF Confirmed
  <2> QED BY <2>4, <2>5
<1> QED BY <1>2, <1>4, <1>5 DEF Steady, Undisturbed

(* A change of the inputs that leaves the Group undisturbed and takes no   *)
(* roster back keeps it steady.                                            *)
LEMMA SteadyThroughInputs ==
  ASSUME TypeOK, NEW l \in Node, Steady(l),
         UNCHANGED <<coordinator, slots, transport, fresh>>, Undisturbed',
         \A n \in Node : siteLeader'[n] # l /\ config[n] <= config'[n],
         TypeOK'
  PROVE  Steady(l)'
<1>1. /\ leader' = leader /\ term' = term /\ lease' = lease
      /\ quorum' = quorum /\ view' = view /\ suspended' = suspended
      /\ views' = views /\ seenRoster' = seenRoster /\ known' = known
      /\ spoke' = spoke /\ fresh' = fresh /\ slots' = slots
  BY DEF coordinator, transport
<1>2. ASSUME NEW n \in Node, NEW m \in Node \ {n}
      PROVE  Vouches(l, n, m)'
  <2>1. Vouches(l, n, m)
    BY DEF Steady
  <2> QED BY <1>1, <2>1 DEF Vouches
<1>3. ASSUME NEW n \in Node
      PROVE  Serves(l, n)' /\ Confirmed(n)'
  <2>1. Serves(l, n) /\ Confirmed(n)
    BY DEF Steady
  <2>2. seenRoster[n] \in Nat /\ config[n] \in Nat /\ config'[n] \in Nat
    BY DEF TypeOK
  <2>3. seenRoster[n] <= config[n]
    BY <2>1 DEF Serves
  <2>4. seenRoster[n] <= config'[n]
    BY <2>2, <2>3
  <2>5. seenRoster[n] = config'[n] => config'[n] = config[n]
    BY <2>2, <2>3
  <2>6. Serves(l, n)'
    BY <1>1, <2>1, <2>4 DEF Serves
  <2>7. Confirmed(n)'
    BY <1>1, <2>1, <2>5 DEF Confirmed
  <2> QED BY <2>6, <2>7
<1> QED BY <1>1, <1>2, <1>3 DEF Steady

(* What may happen to the inputs of a steady Group is of this kind: nobody *)
(* restarts, and none of its members comes to see its Leader as the Site's. *)
LEMMA SteadyThroughChanges ==
  ASSUME KeptGroup, TypeOK, NEW l \in Node, Steady(l), [Next]_vars,
         ~Tick, \A k \in Node : ~Update(k) /\ ~Send(k)
  PROVE  Steady(l)'
<1>1. /\ up = Node /\ complete = Node /\ directories = Node
      /\ budget.restarts = 0 /\ budget.siteLeaders = 0 /\ budget.lossy = {}
      /\ budget \in GroupBudget
  BY DEF Steady, Undisturbed, TypeOK
<1>2. TypeOK' /\ \A n \in Node : config[n] <= config'[n]
  BY NextType, InputsAdvance
<1>3. \A n \in Node : siteLeader[n] # l /\ Members(n) = Node /\ config[n] # 0
  <2> SUFFICES ASSUME NEW n \in Node
               PROVE  siteLeader[n] # l /\ Members(n) = Node /\ config[n] # 0
    OBVIOUS
  <2>1. Members(n) = Node /\ config[n] \in 1..Len(Roster)
    BY SteadyGroup
  <2>2. siteLeader[n] # l
    BY DEF Steady, Serves
  <2>3. config[n] # 0
    BY <2>1
  <2> QED BY <2>1, <2>2, <2>3
<1>4. ASSUME UNCHANGED <<coordinator, slots, transport, fresh>>, Undisturbed',
             \A n \in Node : siteLeader'[n] # l
      PROVE  Steady(l)'
  BY <1>2, <1>4, SteadyThroughInputs
<1>5. ASSUME NEW k \in Node, PowerOff(k) \/ PowerOn(k) \/ SiteLeaderChanges(k)
      PROVE  FALSE
  BY <1>1, <1>5 DEF PowerOff, PowerOn, SiteLeaderChanges, Change
<1>6. ASSUME NEW r \in 1..Len(Roster), NEW k \in Node, MoveRoster(k, r)
      PROVE  complete' = complete
  BY <1>3, <1>6 DEF MoveRoster, KeptGroup
<1>7. ASSUME NEW k \in Node, CommitRoster(k)
      PROVE  Steady(l)'
  <2>1. MoveRoster(k, config[k] + 1) /\ config[k] + 1 \in 1..Len(Roster)
    <3>1. config[k] \in Nat /\ Len(Roster) \in Nat
      BY GroupAssumption DEF TypeOK
    <3> QED BY <1>7, <3>1 DEF CommitRoster
  <2>2. /\ budget'.restarts = 0 /\ budget'.siteLeaders = 0
        /\ budget'.lossy = {}
    BY <1>1, <1>7 DEF CommitRoster, Change, GroupBudget
  <2>3. complete' = complete
    BY <1>6, <2>1
  <2>4. /\ UNCHANGED <<coordinator, slots, transport, fresh, up>>
        /\ siteLeader' = siteLeader /\ directories' = directories
    BY <2>1 DEF MoveRoster, InputsOnly
  <2> QED BY <1>1, <1>3, <1>4, <2>2, <2>3, <2>4 DEF Undisturbed
<1>8. ASSUME NEW k \in Node, NEW m \in Node, AdoptRoster(k, m)
      PROVE  Steady(l)'
  <2>1. MoveRoster(k, config[m]) /\ budget' = budget
        /\ config[m] \in 1..Len(Roster)
    <3>1. config[m] \in 1..Len(Roster)
      BY SteadyGroup
    <3> QED BY <1>8, <3>1 DEF AdoptRoster
  <2>2. complete' = complete
    BY <1>6, <2>1
  <2>3. /\ UNCHANGED <<coordinator, slots, transport, fresh, up>>
        /\ siteLeader' = siteLeader /\ directories' = directories
    BY <2>1 DEF MoveRoster, InputsOnly
  <2> QED BY <1>1, <1>3, <1>4, <2>1, <2>2, <2>3 DEF Undisturbed
<1>9. ASSUME NEW k \in Node, CommitAssignment(k)
      PROVE  Steady(l)'
  <2>1. /\ budget'.restarts = 0 /\ budget'.siteLeaders = 0
        /\ budget'.lossy = {}
    BY <1>1, <1>9 DEF CommitAssignment, Change, GroupBudget
  <2> QED BY <1>1, <1>3, <1>4, <1>9, <2>1
          DEF CommitAssignment, InputsOnly, Undisturbed
<1>10. ASSUME NEW k \in Node, Provision(k)
       PROVE  Steady(l)'
  BY <1>1, <1>10 DEF Provision
<1>11. ASSUME NEW k \in Node, NEW m \in Node, HearSiteLeader(k, m)
       PROVE  Steady(l)'
  <2>1. siteLeader' = [siteLeader EXCEPT ![k] = siteLeader[m]]
    BY <1>11 DEF HearSiteLeader
  <2>2. \A n \in Node : siteLeader'[n] # l
    BY <1>3, <2>1 DEF TypeOK
  <2> QED BY <1>1, <1>4, <1>11, <2>2
          DEF HearSiteLeader, InputsOnly, Undisturbed
<1>12. ASSUME NEW k \in Node, NEW m \in Node, PullDirectory(k, m)
       PROVE  Steady(l)'
  BY <1>1, <1>3, <1>4, <1>12 DEF PullDirectory, InputsOnly, Undisturbed
<1>13. ASSUME Settle \/ UNCHANGED vars
       PROVE  Steady(l)'
  BY <1>1, <1>3, <1>4, <1>13 DEF Settle, vars, inputs, Undisturbed
<1> QED BY <1>5, <1>7, <1>8, <1>9, <1>10, <1>11, <1>12, <1>13 DEF Next

(* For any Group of two or three, whichever of them leads and whatever the *)
(* Directories assign: an established Leader that is not Site Leader keeps *)
(* its role while the members adopt another roster revision or assignment, *)
(* however long it has led and however often they run in between.          *)
THEOREM EstablishedLeaderKept ==
  ASSUME KeptGroup
  PROVE  Spec => LeaderKept
<1> SUFFICES ASSUME NEW l \in Node
             PROVE  Spec => [](Established(l)
                                => [](\A n \in Node : leader[n] = l))
  BY DEF LeaderKept
<1>1. Spec => []History
  BY HistoryKept, GroupTyped, PTL DEF Spec
<1>2. TypeOK /\ History => (Established(l) => Steady(l))
  BY EstablishedIsSteady
<1>3. TypeOK /\ Steady(l) /\ [Next]_vars => Steady(l)'
  BY SteadyThroughUpdate, SteadyThroughSend, SteadyThroughTick,
     SteadyThroughChanges
<1>4. Steady(l) => \A n \in Node : leader[n] = l
  BY DEF Steady, Serves
<1> QED BY <1>1, <1>2, <1>3, <1>4, GroupTyped, PTL DEF Spec
=============================================================================
