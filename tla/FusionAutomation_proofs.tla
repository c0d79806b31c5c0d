----------------------- MODULE FusionAutomation_proofs -----------------------
(***************************************************************************)
(* What FusionAutomation promises for every Group, delay, time to live and *)
(* hold, whatever is lost, late, duplicated or reconfigured.               *)
(***************************************************************************)
EXTENDS FusionAutomation, TLAPS

-----------------------------------------------------------------------------
(* Types                                                                   *)

(* The constants are numbers, and of what size.                            *)
LEMMA Constants ==
  /\ None \notin Node
  /\ TermLimit \in Nat /\ BootLimit \in Nat /\ Changes \in Nat
  /\ Ttl \in Nat /\ Hold \in Nat /\ Delay \in Nat /\ MaxAge \in Nat
  /\ Ttl > 0 /\ Hold > 0 /\ Delay > 0 /\ BootLimit > 0 /\ TermLimit > 0
  /\ MaxAge = Delay + Ttl + Hold
BY FusionAssumption DEF MaxAge

(* What a hold, a withdrawal or new values make of an automation state.     *)
LEMMA AutomationTypes ==
  ASSUME NEW state \in Automation, NEW leader \in Node \cup {None},
         NEW term \in Term
  PROVE  /\ MarkUnavailable(state, leader, term) \in Automation
         /\ Held(state, leader, term) \in Automation
         /\ HoldOrDrop(state, leader, term) \in Automation
<1>1. /\ state.health \in Health /\ state.leader \in Node \cup {None}
      /\ state.term \in Term /\ state.origin \in Origin
      /\ state.age \in 0..MaxAge /\ state.heldTerm \in Term
      /\ state.left \in 0..Hold
  BY DEF Automation
<1>2. 0 \in 0..MaxAge /\ 0 \in Term /\ 0 \in 0..Hold /\ NoOrigin \in Origin
  BY Constants DEF Term, NoOrigin, Origin, Boot
<1>3. MarkUnavailable(state, leader, term) \in Automation
  BY <1>1, <1>2 DEF MarkUnavailable, Automation, Health
<1>4. HoldTerm(state) \in Term /\ HoldLeft(state) \in 0..Hold
  BY <1>1, Constants DEF HoldTerm, HoldLeft
<1>5. Held(state, leader, term) \in Automation
  BY <1>1, <1>4 DEF Held, Automation, Health
<1> QED BY <1>3, <1>5 DEF HoldOrDrop

(* A state made of new values is an automation state.                      *)
LEMMA HealthyType ==
  ASSUME NEW leader \in Node, NEW term \in Term, NEW origin \in Origin,
         NEW age \in 0..(Delay + Ttl)
  PROVE  Healthy(leader, term, origin, age) \in Automation
BY Constants DEF Healthy, Automation, Health, Term

(* What time makes of a snapshot and of an automation state.               *)
LEMMA OlderTypes ==
  /\ \A state \in Automation : OlderAutomation(state) \in Automation
  /\ \A c \in Cached : c.age + c.left <= Delay + Ttl
                         => OlderSnapshot(c) \in Cached
  /\ \A sent \in SUBSET Snapshot : OlderPackets(sent) \in SUBSET Snapshot
<1>1. ASSUME NEW state \in Automation
      PROVE  OlderAutomation(state) \in Automation
  <2>1. state.age \in 0..MaxAge /\ state.left \in 0..Hold
    BY DEF Automation
  <2>2. /\ state.age < MaxAge => state.age + 1 \in 0..MaxAge
        /\ (IF state.left > 0 THEN state.left - 1 ELSE 0) \in 0..Hold
    BY <2>1, Constants
  <2> QED BY <2>1, <2>2 DEF Automation, OlderAutomation
<1>2. ASSUME NEW c \in Cached, c.age + c.left <= Delay + Ttl
      PROVE  OlderSnapshot(c) \in Cached
  <2>1. NoSnapshot \in Cached
    BY Constants DEF NoSnapshot, Cached, Boot, Term
  <2>2. c.age \in 0..(Delay + Ttl) /\ c.left \in 0..Ttl
    BY DEF Cached
  <2>3. c.left > 1 => /\ c.age + 1 \in 0..(Delay + Ttl)
                      /\ c.left - 1 \in 0..Ttl
    BY <1>2, <2>2, Constants
  <2> QED BY <2>1, <2>3 DEF OlderSnapshot, Cached
<1>3. ASSUME NEW sent \in SUBSET Snapshot
      PROVE  OlderPackets(sent) \in SUBSET Snapshot
  <2>1. ASSUME NEW q \in sent, q.age < Delay
        PROVE  [q EXCEPT !.age = @ + 1] \in Snapshot
    BY <2>1, Constants DEF Snapshot
  <2> QED BY <2>1 DEF OlderPackets
<1> QED BY <1>1, <1>2, <1>3

-----------------------------------------------------------------------------
(* The inductive invariant                                                 *)

(* A cached snapshot is no older than its time in the network plus the part *)
(* of its time to live that is over.                                       *)
CacheBound ==
    \A n \in Node :
      /\ cache[n].age + cache[n].left <= Delay + Ttl
      /\ cache[n].left > 0 => cache[n].leader \in Node

(* The age of the values of a state, before and after the refresh of a     *)
(* tick.  What a hold has left counts against its age.                     *)
StateBound(state, current) ==
    /\ state.health = "healthy" =>
         /\ state.age <= Delay + Ttl
         /\ current => state.age < Delay + Ttl
    /\ state.health = "recovering" =>
         /\ state.age + state.left <= MaxAge
         /\ current => state.left > 0

AutomationBound ==
    \A n \in Node : StateBound(automation[n], n \in refreshed)

(* The automation state does not run ahead of the Group.                   *)
TermBehind == \A n \in Node : automation[n].term <= group[n].term

IInv == TypeOK /\ CacheBound /\ AutomationBound /\ TermBehind

-----------------------------------------------------------------------------
(* A refresh                                                               *)

(* The outcome of a refresh for the state of one node.                     *)
Outcome(n, state) ==
    /\ Becomes(n, state)
    /\ state \in Automation
    /\ StateBound(state, TRUE)
    /\ state.term <= group[n].term
    /\ state.health # "unavailable" => state.term >= automation[n].term

(* Withdrawing the values is an outcome of a refresh.                      *)
LEMMA DropOutcome ==
  ASSUME IInv, NEW n \in Node, NEW leader \in Node \cup {None},
         NEW term \in Term, term <= group[n].term,
         Becomes(n, MarkUnavailable(automation[n], leader, term))
  PROVE  Outcome(n, MarkUnavailable(automation[n], leader, term))
<1>1. automation[n] \in Automation
  BY DEF IInv, TypeOK
<1>2. MarkUnavailable(automation[n], leader, term) \in Automation
  BY <1>1, AutomationTypes
<1>3. /\ MarkUnavailable(automation[n], leader, term).health = "unavailable"
      /\ MarkUnavailable(automation[n], leader, term).term = term
  BY DEF MarkUnavailable
<1> QED BY <1>2, <1>3 DEF Outcome, StateBound

(* So is holding them, for the rest of the hold that runs.                 *)
LEMMA ContinuityOutcome ==
  ASSUME IInv, NEW n \in Node, Continuity(n)
  PROVE  \E state : Outcome(n, state)
<1> DEFINE old == automation[n]
           l == group[n].leader
           t == group[n].term
           new == HoldOrDrop(old, l, t)
<1>1. old \in Automation /\ l \in Node \cup {None} /\ t \in Term
  BY DEF IInv, TypeOK
<1>2. /\ old.age \in 0..MaxAge /\ old.left \in 0..Hold /\ old.term \in Term
      /\ t \in Nat /\ old.term \in Nat
  BY <1>1, Constants DEF Automation, Term
<1>3. StateBound(old, n \in refreshed) /\ old.term <= t
  BY DEF IInv, AutomationBound, TermBehind
<1>4. Becomes(n, new)
  BY DEF Continuity
<1>5. CASE Holdable(old, t)
  <2>1. new = Held(old, l, t)
    BY <1>5 DEF HoldOrDrop
  <2>2. /\ new.health = "recovering" /\ new.age = old.age
        /\ new.left = HoldLeft(old)
        /\ new.term \in {old.term, t}
    BY <2>1 DEF Held
  <2>3. HoldLeft(old) > 0
    BY <1>5 DEF Holdable
  <2>4. old.age + HoldLeft(old) <= MaxAge
    <3>1. CASE old.health = "recovering"
      BY <1>3, <3>1 DEF StateBound, HoldLeft
    <3>2. CASE old.health = "healthy"
      <4>1. old.age <= Delay + Ttl /\ HoldLeft(old) = Hold
        BY <1>3, <3>2 DEF StateBound, HoldLeft
      <4> QED BY <4>1, <1>2, Constants
    <3> QED BY <3>1, <3>2, <1>5 DEF Holdable
  <2>5. StateBound(new, TRUE)
    BY <2>2, <2>3, <2>4 DEF StateBound
  <2>6. new.term <= t /\ new.term >= old.term
    BY <2>2, <1>2, <1>3
  <2>7. new \in Automation
    BY <1>1, AutomationTypes
  <2> QED BY <1>4, <2>5, <2>6, <2>7 DEF Outcome
<1>6. CASE ~Holdable(old, t)
  <2>1. new = MarkUnavailable(old, l, t)
    BY <1>6 DEF HoldOrDrop
  <2>2. t <= group[n].term
    BY <1>2
  <2> QED BY <1>1, <1>4, <2>1, <2>2, DropOutcome
<1> QED BY <1>5, <1>6

(* So is the refresh of a Leader.                                          *)
LEMMA LocalOutcome ==
  ASSUME IInv, NEW n \in Node, LocalCurrent(n),
         Becomes(n, Healthy(n, group[n].term, <<n, boot[n]>>, OutputAge(n)))
  PROVE  \E state : Outcome(n, state)
<1> DEFINE new == Healthy(n, group[n].term, <<n, boot[n]>>, OutputAge(n))
<1>1. /\ group[n].term \in Term /\ boot[n] \in Boot
      /\ automation[n].term <= group[n].term /\ group[n].term \in Nat
      /\ automation[n].term \in Nat
  BY Constants DEF IInv, TypeOK, TermBehind, Automation, Term
<1>2. OutputAge(n) \in 0..(Delay + Ttl) /\ OutputAge(n) < Delay + Ttl
  BY Constants DEF OutputAge
<1>3. new \in Automation
  BY <1>1, <1>2, HealthyType DEF Origin
<1>4. /\ new.health = "healthy" /\ new.age = OutputAge(n)
      /\ new.term = group[n].term
  BY DEF Healthy
<1>5. StateBound(new, TRUE)
  BY <1>2, <1>4 DEF StateBound
<1>6. Outcome(n, new)
  <2>1. new.term <= group[n].term /\ new.term >= automation[n].term
    BY <1>1, <1>4
  <2>2. Becomes(n, new)
    OBVIOUS
  <2> HIDE DEF new
  <2> QED BY <2>1, <2>2, <1>3, <1>5 DEF Outcome
<1> QED BY <1>6

(* So is the refresh of a member that follows.                             *)
LEMMA RemoteOutcome ==
  ASSUME IInv, NEW n \in Node, RemoteCurrent(n),
         Becomes(n, Healthy(cache[n].leader, cache[n].term,
                            <<cache[n].leader, cache[n].boot>>, cache[n].age))
  PROVE  \E state : Outcome(n, state)
<1> DEFINE new == Healthy(cache[n].leader, cache[n].term,
                          <<cache[n].leader, cache[n].boot>>, cache[n].age)
<1>1. /\ group[n].term \in Term
      /\ automation[n].term <= group[n].term /\ group[n].term \in Nat
      /\ automation[n].term \in Nat
  BY Constants DEF IInv, TypeOK, TermBehind, Automation, Term
<1>2. cache[n] \in Cached
  BY DEF IInv, TypeOK
<1>3. /\ cache[n].leader \in Node /\ cache[n].boot \in Boot
      /\ cache[n].term = group[n].term
      /\ cache[n].age \in 0..(Delay + Ttl) /\ cache[n].age < Delay + Ttl
  <2>1. cache[n].left > 0 /\ cache[n].term = group[n].term
    BY DEF RemoteCurrent
  <2>2. cache[n].leader \in Node /\ cache[n].age + cache[n].left <= Delay + Ttl
    BY <2>1 DEF IInv, CacheBound
  <2>3. /\ cache[n].boot \in Boot /\ cache[n].age \in 0..(Delay + Ttl)
        /\ cache[n].left \in 0..Ttl
    BY <1>2 DEF Cached
  <2> QED BY <2>1, <2>2, <2>3, Constants
<1>4. new \in Automation
  BY <1>1, <1>3, HealthyType DEF Origin
<1>5. /\ new.health = "healthy" /\ new.age = cache[n].age
      /\ new.term = group[n].term
  BY <1>3 DEF Healthy
<1>6. StateBound(new, TRUE)
  BY <1>3, <1>5 DEF StateBound
<1>7. Outcome(n, new)
  <2>1. new.term <= group[n].term /\ new.term >= automation[n].term
    BY <1>1, <1>5
  <2>2. Becomes(n, new)
    OBVIOUS
  <2> HIDE DEF new
  <2> QED BY <2>1, <2>2, <1>4, <1>6 DEF Outcome
<1> QED BY <1>7

(* Every branch of the refresh has such an outcome.                        *)
LEMMA RefreshOutcome ==
  ASSUME IInv, NEW n \in Node, Refresh(n)
  PROVE  \E state : Outcome(n, state)
<1>1. CASE WithoutGroup(n)
  <2>1. 0 \in Term /\ 0 <= group[n].term
    BY Constants DEF IInv, TypeOK, Term
  <2>2. Becomes(n, MarkUnavailable(automation[n], None, 0))
    BY <1>1 DEF WithoutGroup
  <2> QED BY <2>1, <2>2, DropOutcome
<1>2. CASE Misposed(n)
  <2>1. /\ group[n].leader \in Node \cup {None} /\ group[n].term \in Term
        /\ group[n].term <= group[n].term
    BY Constants DEF IInv, TypeOK, Term
  <2>2. Becomes(n, MarkUnavailable(automation[n], group[n].leader,
                                   group[n].term))
    BY <1>2 DEF Misposed
  <2> QED BY <2>1, <2>2, DropOutcome
<1>3. CASE Unassigned(n)
  BY <1>3, ContinuityOutcome DEF Unassigned
<1>4. CASE LocalAuthority(n)
  BY <1>4, ContinuityOutcome, LocalOutcome DEF LocalAuthority
<1>5. CASE RemoteAuthority(n)
  BY <1>5, ContinuityOutcome, RemoteOutcome DEF RemoteAuthority
<1> QED BY <1>1, <1>2, <1>3, <1>4, <1>5 DEF Refresh

-----------------------------------------------------------------------------
(* Every step                                                              *)

(* A refresh keeps the invariant.                                          *)
LEMMA RefreshKeeps ==
  ASSUME IInv, NEW n \in Node, Refresh(n)
  PROVE  IInv'
<1>1. PICK state : Outcome(n, state)
  BY RefreshOutcome
<1>2. /\ automation' = [automation EXCEPT ![n] = state]
      /\ state \in Automation /\ StateBound(state, TRUE)
      /\ state.term <= group[n].term
  BY <1>1 DEF Outcome, Becomes
<1>3. /\ refreshed' = refreshed \cup {n}
      /\ UNCHANGED <<group, placement, changes, calm, boot, fused, packets,
                     cache, observed>>
  BY DEF Refresh, environment
<1>4. TypeOK'
  BY <1>2, <1>3 DEF IInv, TypeOK
<1>5. CacheBound'
  BY <1>3 DEF IInv, CacheBound
<1>6. AutomationBound'
  <2> SUFFICES ASSUME NEW m \in Node
               PROVE  StateBound(automation'[m], m \in refreshed')
    BY DEF AutomationBound, StateBound
  <2>1. CASE m = n
    BY <1>2, <1>3, <2>1 DEF IInv, TypeOK
  <2>2. CASE m # n
    <3>1. /\ automation'[m] = automation[m]
          /\ (m \in refreshed') = (m \in refreshed)
      BY <1>2, <1>3, <2>2 DEF IInv, TypeOK
    <3>2. StateBound(automation[m], m \in refreshed)
      BY DEF IInv, AutomationBound
    <3> QED BY <3>1, <3>2
  <2> QED BY <2>1, <2>2
<1>7. TermBehind'
  BY <1>2, <1>3 DEF IInv, TypeOK, TermBehind
<1> QED BY <1>4, <1>5, <1>6, <1>7 DEF IInv

(* An observation cycle keeps the invariant.                               *)
LEMMA ObserveKeeps ==
  ASSUME IInv, NEW n \in Node, Observe(n)
  PROVE  IInv'
<1>1. UNCHANGED <<group, placement, changes, calm, boot, cache, automation,
                  refreshed>>
  BY DEF Observe, environment
<1>2. fused' \subseteq Node /\ observed' \subseteq Node
  BY DEF IInv, TypeOK, Observe, Fuse, Pause
<1>3. packets' \in [Node -> SUBSET Snapshot]
  <2>1. CASE Fuse(n)
    <3> DEFINE sent == [leader |-> n, boot |-> boot[n],
                        term |-> group[n].term, age |-> 0]
    <3>1. group[n].term # 0 => sent \in Snapshot
      BY Constants DEF IInv, TypeOK, Snapshot
    <3> HIDE DEF sent
    <3>2. packets' = [m \in Node |->
                        packets[m] \cup
                          (IF m # n /\ group[n].term # 0
                           THEN {sent} ELSE {})]
      BY <2>1 DEF Fuse, sent
    <3>3. packets \in [Node -> SUBSET Snapshot]
      BY DEF IInv, TypeOK
    <3> QED BY <3>1, <3>2, <3>3
  <2>2. CASE Pause(n)
    BY <2>2 DEF IInv, TypeOK, Pause
  <2> QED BY <2>1, <2>2 DEF Observe
<1>4. TypeOK'
  BY <1>1, <1>2, <1>3 DEF IInv, TypeOK
<1> QED BY <1>1, <1>4
        DEF IInv, CacheBound, AutomationBound, StateBound, TermBehind

(* The arrival of a snapshot keeps the invariant.                          *)
LEMMA ReceiveKeeps ==
  ASSUME IInv, NEW n \in Node, NEW p \in packets[n], Receive(n, p)
  PROVE  IInv'
<1> DEFINE c == [leader |-> p.leader, boot |-> p.boot, term |-> p.term,
                 age |-> p.age, left |-> Ttl]
<1>1. p \in Snapshot
  BY DEF IInv, TypeOK
<1>2. c \in Cached
  BY <1>1, Constants DEF Snapshot, Cached, Term
<1>3. c.age + c.left <= Delay + Ttl /\ c.leader \in Node
  BY <1>1, Constants DEF Snapshot
<1>4. cache' = [cache EXCEPT ![n] = c]
  BY DEF Receive
<1>5. UNCHANGED <<group, placement, changes, calm, boot, fused, packets,
                  automation, observed, refreshed>>
  BY DEF Receive, environment
<1> HIDE DEF c
<1>6. TypeOK'
  BY <1>2, <1>4, <1>5 DEF IInv, TypeOK
<1>7. CacheBound'
  BY <1>3, <1>4 DEF IInv, TypeOK, CacheBound
<1> QED BY <1>5, <1>6, <1>7
        DEF IInv, AutomationBound, StateBound, TermBehind

(* Elections and reconfigurations keep the invariant.                      *)
LEMMA EnvironmentKeeps ==
  ASSUME IInv, NEW n \in Node,
         \/ \E leader \in Node, term \in Term : Reelect(n, leader, term)
         \/ LoseLeader(n)
         \/ \E where \in Placement : Place(n, where)
  PROVE  IInv'
<1>1. /\ UNCHANGED <<boot, fused, packets, cache, automation, observed,
                     refreshed>>
      /\ changes' \in 0..Changes /\ calm' \in BOOLEAN
  BY Constants
     DEF IInv, TypeOK, Reelect, LoseLeader, Place, Disturb
<1>2. placement' \in [Node -> Placement]
  BY DEF IInv, TypeOK, Reelect, LoseLeader, Place
<1>3. /\ group' \in [Node -> [leader : Node \cup {None},
                              last : Node \cup {None}, term : Term]]
      /\ \A m \in Node : group'[m].term >= group[m].term
  <2>1. CASE \E leader \in Node, term \in Term : Reelect(n, leader, term)
    BY <2>1, Constants DEF IInv, TypeOK, Reelect, Term
  <2>2. CASE LoseLeader(n)
    BY <2>2, Constants DEF IInv, TypeOK, LoseLeader, Term
  <2>3. CASE \E where \in Placement : Place(n, where)
    BY <2>3, Constants DEF IInv, TypeOK, Place, Term
  <2> QED BY <2>1, <2>2, <2>3
<1>4. TypeOK'
  BY <1>1, <1>2, <1>3 DEF IInv, TypeOK
<1>5. TermBehind'
  <2> SUFFICES ASSUME NEW m \in Node
               PROVE  automation[m].term <= group'[m].term
    BY <1>1 DEF TermBehind
  <2>1. /\ automation[m].term \in Nat /\ group[m].term \in Nat
        /\ automation[m].term <= group[m].term
    BY Constants DEF IInv, TypeOK, TermBehind, Automation, Term
  <2>2. group'[m].term \in Nat
    BY <1>3, Constants DEF Term
  <2> QED BY <1>3, <2>1, <2>2
<1> QED BY <1>1, <1>4, <1>5 DEF IInv, CacheBound, AutomationBound, StateBound

(* A restart keeps the invariant.                                          *)
LEMMA RestartKeeps ==
  ASSUME IInv, NEW n \in Node, Restart(n)
  PROVE  IInv'
<1>1. /\ boot' = [boot EXCEPT ![n] = boot[n] + 1] /\ boot[n] < BootLimit
      /\ group' = [group EXCEPT ![n] = NoGroup]
      /\ fused' = fused \ {n}
      /\ cache' = [cache EXCEPT ![n] = NoSnapshot]
      /\ automation' = [automation EXCEPT ![n] = NoAutomation]
      /\ observed' = observed \ {n} /\ refreshed' = refreshed \ {n}
      /\ UNCHANGED <<placement, packets, calm>>
      /\ changes' \in 0..Changes
  BY Constants DEF Restart, Disturb, IInv, TypeOK
<1>2. /\ NoSnapshot \in Cached /\ NoAutomation \in Automation
      /\ NoGroup \in [leader : Node \cup {None}, last : Node \cup {None},
                      term : Term]
  BY Constants
     DEF NoSnapshot, Cached, NoAutomation, Automation, Health, NoGroup, Boot,
         NoOrigin, Origin,
         Term
<1>3. boot[n] + 1 \in Boot
  BY <1>1, Constants DEF IInv, TypeOK, Boot
<1>4. TypeOK'
  BY <1>1, <1>2, <1>3 DEF IInv, TypeOK
<1>5. CacheBound'
  BY <1>1, Constants DEF IInv, TypeOK, CacheBound, NoSnapshot
<1>6. AutomationBound'
  <2> SUFFICES ASSUME NEW m \in Node
               PROVE  StateBound(automation'[m], m \in refreshed')
    BY DEF AutomationBound, StateBound
  <2>1. CASE m = n
    BY <1>1, <2>1 DEF IInv, TypeOK, StateBound, NoAutomation
  <2>2. CASE m # n
    <3>1. /\ automation'[m] = automation[m]
          /\ (m \in refreshed') = (m \in refreshed)
      BY <1>1, <2>2 DEF IInv, TypeOK
    <3>2. StateBound(automation[m], m \in refreshed)
      BY DEF IInv, AutomationBound
    <3> QED BY <3>1, <3>2
  <2> QED BY <2>1, <2>2
<1>7. TermBehind'
  BY <1>1 DEF IInv, TypeOK, TermBehind, NoAutomation, NoGroup
<1> QED BY <1>4, <1>5, <1>6, <1>7 DEF IInv

(* A tick ages snapshots and states within their bounds.                   *)
LEMMA TickKeeps ==
  ASSUME IInv, Tick
  PROVE  IInv'
<1>1. /\ packets' = [n \in Node |-> OlderPackets(packets[n])]
      /\ cache' = [n \in Node |-> OlderSnapshot(cache[n])]
      /\ automation' = [n \in Node |-> OlderAutomation(automation[n])]
      /\ observed' = {} /\ refreshed' = {} /\ refreshed = Node
      /\ UNCHANGED <<group, placement, changes, calm, boot, fused>>
  BY DEF Tick, environment
<1>2. TypeOK'
  <2>1. packets' \in [Node -> SUBSET Snapshot]
    BY <1>1, OlderTypes DEF IInv, TypeOK
  <2>2. cache' \in [Node -> Cached]
    BY <1>1, OlderTypes DEF IInv, TypeOK, CacheBound
  <2>3. automation' \in [Node -> Automation]
    BY <1>1, OlderTypes DEF IInv, TypeOK
  <2> QED BY <1>1, <2>1, <2>2, <2>3 DEF IInv, TypeOK
<1>3. CacheBound'
  <2> SUFFICES ASSUME NEW n \in Node
               PROVE  /\ cache'[n].age + cache'[n].left <= Delay + Ttl
                      /\ cache'[n].left > 0 => cache'[n].leader \in Node
    BY DEF CacheBound
  <2>1. /\ cache[n].age + cache[n].left <= Delay + Ttl
        /\ cache[n].left > 0 => cache[n].leader \in Node
    BY DEF IInv, CacheBound
  <2>2. cache[n].age \in Nat /\ cache[n].left \in Nat
    BY Constants DEF IInv, TypeOK, Cached
  <2>3. cache'[n] = OlderSnapshot(cache[n])
    BY <1>1
  <2> QED BY <2>1, <2>2, <2>3, Constants DEF OlderSnapshot, NoSnapshot
<1>4. AutomationBound'
  <2> SUFFICES ASSUME NEW n \in Node
               PROVE  StateBound(automation'[n], n \in refreshed')
    BY DEF AutomationBound, StateBound
  <2>1. StateBound(automation[n], TRUE)
    BY <1>1 DEF IInv, AutomationBound
  <2>2. automation[n].age \in Nat /\ automation[n].left \in Nat
    BY Constants DEF IInv, TypeOK, Automation
  <2>3. /\ automation'[n].health = automation[n].health
        /\ automation'[n].age \in {automation[n].age, automation[n].age + 1}
        /\ automation[n].left > 0
             => automation'[n].left = automation[n].left - 1
    BY <1>1 DEF OlderAutomation
  <2>4. n \notin refreshed'
    BY <1>1
  <2>5. automation'[n].health = "healthy"
          => automation'[n].age <= Delay + Ttl
    BY <2>1, <2>2, <2>3, Constants DEF StateBound
  <2>6. automation'[n].health = "recovering"
          => automation'[n].age + automation'[n].left <= MaxAge
    BY <2>1, <2>2, <2>3, Constants DEF StateBound
  <2> QED BY <2>4, <2>5, <2>6 DEF StateBound
<1>5. TermBehind'
  BY <1>1 DEF IInv, TermBehind, OlderAutomation
<1> QED BY <1>2, <1>3, <1>4, <1>5 DEF IInv

(* The end of the disturbances keeps the invariant.                        *)
LEMMA SettleKeeps ==
  ASSUME IInv, Settle \/ UNCHANGED vars
  PROVE  IInv'
<1>1. /\ UNCHANGED <<group, placement, boot, fused, packets, cache,
                     automation, observed, refreshed, changes>>
      /\ calm' \in BOOLEAN
  BY DEF Settle, vars, IInv, TypeOK
<1> QED BY <1>1
        DEF IInv, TypeOK, CacheBound, AutomationBound, StateBound, TermBehind

(* The invariant holds initially.                                          *)
LEMMA InitTyped == Init => IInv
<1> SUFFICES ASSUME Init PROVE IInv
  OBVIOUS
<1>1. /\ NoSnapshot \in Cached /\ NoAutomation \in Automation
      /\ NoGroup \in [leader : Node \cup {None}, last : Node \cup {None},
                      term : Term]
      /\ 1 \in Boot /\ 0 \in 0..Changes
  BY Constants
     DEF NoSnapshot, Cached, NoAutomation, Automation, Health, NoGroup,
         Boot, Term, NoOrigin, Origin
<1>2. TypeOK
  BY <1>1 DEF Init, TypeOK, Placement
<1>3. CacheBound
  BY Constants DEF Init, CacheBound, NoSnapshot
<1>4. AutomationBound
  BY DEF Init, AutomationBound, StateBound, NoAutomation
<1>5. TermBehind
  BY DEF Init, TermBehind, NoAutomation, NoGroup
<1> QED BY <1>2, <1>3, <1>4, <1>5 DEF IInv

(* Every step keeps the invariant.                                         *)
LEMMA NextKeeps ==
  ASSUME IInv, [Next]_vars
  PROVE  IInv'
BY RefreshKeeps, ObserveKeeps, ReceiveKeeps, EnvironmentKeeps,
   RestartKeeps, TickKeeps, SettleKeeps DEF Next

(* The invariant holds in every reachable state.                           *)
LEMMA Invariance == Spec => []IInv
<1>1. IInv /\ [Next]_vars => IInv'
  BY NextKeeps
<1> QED BY InitTyped, <1>1, PTL DEF Spec

-----------------------------------------------------------------------------
(* The properties                                                          *)

(* Every variable of FusionAutomation keeps its type.                      *)
THEOREM AutomationTyped == Spec => []TypeOK
<1>1. IInv => TypeOK
  BY DEF IInv
<1> QED BY <1>1, Invariance, PTL

(* For any delay, time to live and hold: no refresh offers values older     *)
(* than their sum, however often the Leader changes or snapshots are lost. *)
THEOREM ValuesFresh == Spec => []AvailableFresh
<1>1. IInv => AvailableFresh
  <2> SUFFICES ASSUME IInv, NEW n \in refreshed
               PROVE
                 /\ automation[n].health = "healthy"
                      => automation[n].age < Delay + Ttl
                 /\ automation[n].health = "recovering"
                      => automation[n].age < Delay + Ttl + Hold
    BY DEF AvailableFresh
  <2>1. n \in Node
    BY DEF IInv, TypeOK
  <2>2. StateBound(automation[n], TRUE)
    BY <2>1 DEF IInv, AutomationBound
  <2>3. automation[n].age \in Nat /\ automation[n].left \in Nat
    BY <2>1, Constants DEF IInv, TypeOK, Automation
  <2> QED BY <2>2, <2>3, Constants DEF StateBound
<1> QED BY <1>1, Invariance, PTL

(* For any Group: the term of the values a running node offers never falls *)
(* behind a term it has shown before.                                      *)
THEOREM AuthorityNeverBack == Spec => AuthorityForward
<1> DEFINE Forward(n) ==
      boot'[n] = boot[n] /\ automation'[n].health # "unavailable"
        => automation'[n].term >= automation[n].term
<1>1. ASSUME IInv, [Next]_vars
      PROVE  \A n \in Node : Forward(n)
  <2> SUFFICES ASSUME NEW n \in Node PROVE Forward(n)
    OBVIOUS
  <2>1. automation[n].term \in Nat /\ boot[n] \in Nat
    BY <1>1, Constants DEF IInv, TypeOK, Automation, Term, Boot
  <2>2. ASSUME NEW m \in Node, Refresh(m)
        PROVE  Forward(n)
    <3>1. PICK state : Outcome(m, state)
      BY <1>1, <2>2, RefreshOutcome
    <3>2. automation' = [automation EXCEPT ![m] = state]
      BY <3>1 DEF Outcome, Becomes
    <3>3. CASE m = n
      <4>1. automation'[n] = state
        BY <1>1, <3>2, <3>3 DEF IInv, TypeOK
      <4> QED BY <3>1, <3>3, <4>1 DEF Outcome
    <3>4. CASE m # n
      <4>1. automation'[n] = automation[n]
        BY <1>1, <3>2, <3>4 DEF IInv, TypeOK
      <4> QED BY <2>1, <4>1
    <3> QED BY <3>3, <3>4
  <2>3. ASSUME NEW m \in Node, Restart(m)
        PROVE  Forward(n)
    <3>1. /\ automation' = [automation EXCEPT ![m] = NoAutomation]
          /\ boot' = [boot EXCEPT ![m] = boot[m] + 1]
      BY <2>3 DEF Restart
    <3>2. CASE m = n
      BY <1>1, <2>1, <3>1, <3>2 DEF IInv, TypeOK
    <3>3. CASE m # n
      <4>1. automation'[n] = automation[n]
        BY <1>1, <3>1, <3>3 DEF IInv, TypeOK
      <4> QED BY <2>1, <4>1
    <3> QED BY <3>2, <3>3
  <2>4. CASE Tick
    <3>1. automation'[n].term = automation[n].term
      BY <2>4 DEF Tick, OlderAutomation
    <3> QED BY <2>1, <3>1
  <2>5. CASE UNCHANGED automation
    BY <2>1, <2>5
  <2>6. \/ \E m \in Node : Refresh(m) \/ Restart(m)
        \/ Tick
        \/ UNCHANGED automation
    BY <1>1
       DEF Next, Observe, Receive, Reelect, LoseLeader, Place, Settle, vars
  <2> QED BY <2>2, <2>3, <2>4, <2>5, <2>6
<1> QED BY <1>1, Invariance, PTL DEF Spec, AuthorityForward

-----------------------------------------------------------------------------
(* No rollback, without restarts and with a network that forgets a snapshot *)
(* before a cache does                                                     *)

Ordered == Delay < Ttl /\ BootLimit = 1

(* The view of a node is that of its last Leader, if it has one.           *)
ViewKept ==
    \A n \in Node : group[n].leader # None => group[n].last = group[n].leader

(* A Leader sends to others, under its own term of the time.               *)
PacketsSent ==
    \A n \in Node : \A p \in packets[n] :
      p.leader # n /\ p.term <= group[p.leader].term

(* A Leader's later terms come with its later snapshots.                   *)
PacketsOrdered ==
    \A n \in Node : \A p, q \in packets[n] :
      p.leader = q.leader /\ p.term > q.term => p.age <= q.age

(* A cached snapshot was admitted; it lives Ttl ticks; later terms of its  *)
(* Leader are still younger.                                               *)
CacheOrdered ==
    \A n \in Node : cache[n].left > 0 =>
      /\ cache[n].leader # n
      /\ cache[n].term <= group[n].term
      /\ cache[n].age + cache[n].left >= Ttl
      /\ \A p \in packets[n] :
           p.leader = cache[n].leader /\ p.term > cache[n].term
             => p.age <= cache[n].age

Origins(n, leader) == \E b \in Boot : automation[n].origin = <<leader, b>>

(* A snapshot that the present or a later view of the node may admit.       *)
Admissible(n, p) ==
    /\ p.term >= group[n].term
    /\ p.term = group[n].term => p.leader = group[n].last

(* Whatever the node may still cache is younger than its values.           *)
YoungerToCome ==
    \A n \in Node : \A p \in packets[n] :
      Origins(n, p.leader) /\ Admissible(n, p) /\ Newer(p, cache[n])
        => p.age <= automation[n].age

(* What it has cached is no older either, and so is what it produces.      *)
YoungerAtHand ==
    \A n \in Node :
      /\ cache[n].left > 0 /\ Origins(n, cache[n].leader)
           => cache[n].age <= automation[n].age
      /\ Origins(n, n) => OutputAge(n) <= automation[n].age

OInv == /\ IInv /\ ViewKept /\ PacketsSent /\ PacketsOrdered /\ CacheOrdered
        /\ YoungerToCome /\ YoungerAtHand

(* With a single boot, the boots of packets and of the cache agree.        *)
LEMMA OneBoot ==
  ASSUME Ordered, TypeOK
  PROVE  /\ Boot = {1}
         /\ \A n \in Node : boot[n] = 1 /\ cache[n].boot = 1
         /\ \A n \in Node : \A p \in packets[n] : p \in Snapshot /\ p.boot = 1
<1>1. Boot = {1}
  BY DEF Ordered, Boot
<1> QED BY <1>1 DEF TypeOK, Cached, Snapshot

(* The numbers that the ordering argument compares.                        *)
LEMMA Numbers ==
  ASSUME TypeOK, NEW n \in Node
  PROVE  /\ cache[n].age \in Nat /\ cache[n].left \in Nat
         /\ cache[n].term \in Nat
         /\ automation[n].age \in Nat /\ automation[n].age <= MaxAge
         /\ group[n].term \in Nat
         /\ \A p \in packets[n] : /\ p.age \in Nat /\ p.term \in Nat
                                  /\ p.age <= Delay /\ p.leader \in Node
BY Constants DEF TypeOK, Cached, Automation, Snapshot, Term

(* Where a refresh takes its values from.                                  *)
LEMMA RefreshValues ==
  ASSUME NEW n \in Node, Refresh(n)
  PROVE  \E state :
           /\ Becomes(n, state)
           /\ \/ state.origin = NoOrigin
              \/ /\ state.origin = automation[n].origin
                 /\ state.age = automation[n].age
              \/ /\ state.origin = <<n, boot[n]>>
                 /\ state.age = OutputAge(n)
              \/ /\ cache[n].left > 0
                 /\ state.origin = <<cache[n].leader, cache[n].boot>>
                 /\ state.age = cache[n].age
<1>1. ASSUME NEW leader, NEW term,
             Becomes(n, MarkUnavailable(automation[n], leader, term))
      PROVE  \E state :
               /\ Becomes(n, state)
               /\ \/ state.origin = NoOrigin
                  \/ /\ state.origin = automation[n].origin
                     /\ state.age = automation[n].age
  <2> DEFINE new == MarkUnavailable(automation[n], leader, term)
  <2>1. \/ new.origin = NoOrigin
        \/ new.origin = automation[n].origin /\ new.age = automation[n].age
    BY DEF MarkUnavailable
  <2> HIDE DEF new
  <2>2. Becomes(n, new)
    BY <1>1 DEF new
  <2> QED BY <2>1, <2>2
<1>2. ASSUME Continuity(n)
      PROVE  \E state :
               /\ Becomes(n, state)
               /\ \/ state.origin = NoOrigin
                  \/ /\ state.origin = automation[n].origin
                     /\ state.age = automation[n].age
  <2>1. CASE Holdable(automation[n], group[n].term)
    <3> DEFINE new == Held(automation[n], group[n].leader, group[n].term)
    <3>1. new.origin = automation[n].origin /\ new.age = automation[n].age
      BY DEF Held
    <3>2. Becomes(n, new)
      BY <1>2, <2>1 DEF Continuity, HoldOrDrop
    <3> HIDE DEF new
    <3> QED BY <3>1, <3>2
  <2>2. CASE ~Holdable(automation[n], group[n].term)
    <3>1. Becomes(n, MarkUnavailable(automation[n], group[n].leader,
                                     group[n].term))
      BY <1>2, <2>2 DEF Continuity, HoldOrDrop
    <3> QED BY <1>1, <3>1
  <2> QED BY <2>1, <2>2
<1>3. ASSUME NEW leader, NEW term, NEW origin, NEW age
      PROVE  /\ Healthy(leader, term, origin, age).origin = origin
             /\ Healthy(leader, term, origin, age).age = age
  BY DEF Healthy
<1>4. CASE WithoutGroup(n) \/ Misposed(n)
  BY <1>1, <1>4 DEF WithoutGroup, Misposed
<1>5. CASE Unassigned(n)
  BY <1>2, <1>5 DEF Unassigned
<1>6. CASE LocalAuthority(n)
  BY <1>2, <1>3, <1>6 DEF LocalAuthority
<1>7. CASE RemoteAuthority(n)
  BY <1>2, <1>3, <1>7 DEF RemoteAuthority, RemoteCurrent
<1> QED BY <1>4, <1>5, <1>6, <1>7 DEF Refresh

(* What the order asks of the values of one node.                          *)
YoungerFor(n) ==
    /\ \A p \in packets[n] :
         Origins(n, p.leader) /\ Admissible(n, p) /\ Newer(p, cache[n])
           => p.age <= automation[n].age
    /\ cache[n].left > 0 /\ Origins(n, cache[n].leader)
         => cache[n].age <= automation[n].age
    /\ Origins(n, n) => OutputAge(n) <= automation[n].age

(* A refresh takes nothing older, and nothing older stays at hand.         *)
LEMMA RefreshOrdered ==
  ASSUME Ordered, OInv, NEW n \in Node, Refresh(n)
  PROVE  /\ \A m \in Node : YoungerFor(m)'
         /\ automation[n].origin # NoOrigin
            /\ automation'[n].origin = automation[n].origin
              => automation'[n].age <= automation[n].age
<1>1. UNCHANGED <<group, boot, packets, cache, observed>>
  BY DEF Refresh, environment
<1>2. \A m \in Node : YoungerFor(m)
  BY DEF OInv, YoungerToCome, YoungerAtHand, YoungerFor
<1>3. PICK state :
        /\ Becomes(n, state)
        /\ \/ state.origin = NoOrigin
           \/ state.origin = automation[n].origin
              /\ state.age = automation[n].age
           \/ state.origin = <<n, boot[n]>> /\ state.age = OutputAge(n)
           \/ /\ cache[n].left > 0
              /\ state.origin = <<cache[n].leader, cache[n].boot>>
              /\ state.age = cache[n].age
  BY RefreshValues
<1>4. automation' = [automation EXCEPT ![n] = state]
  BY <1>3 DEF Becomes
<1>5. automation'[n] = state /\ \A m \in Node \ {n} : automation'[m] = automation[m]
  BY <1>4 DEF OInv, IInv, TypeOK
<1>6. ASSUME NEW m \in Node, m # n
      PROVE  YoungerFor(m)'
  BY <1>1, <1>2, <1>5, <1>6 DEF YoungerFor, Origins, Admissible, Newer, OutputAge
<1>7. /\ boot[n] \in Boot /\ cache[n].boot \in Boot
      /\ cache[n].left > 0 => cache[n].leader # n
      /\ \A p \in packets[n] : p.leader # n /\ p.boot = cache[n].boot
      /\ OutputAge(n) \in Nat
  BY OneBoot DEF OInv, IInv, CacheOrdered, PacketsSent, OutputAge
<1>8. n # None
  BY Constants
<1>9. YoungerFor(n)'
  <2>1. CASE state.origin = NoOrigin
    <3>1. /\ \A p \in packets[n] : p.leader # None
          /\ cache[n].left > 0 => cache[n].leader # None
      BY Constants, Numbers DEF OInv, IInv, CacheBound
    <3>2. \A leader : leader # None => ~Origins(n, leader)'
      BY <1>5, <2>1 DEF Origins, NoOrigin
    <3> QED BY <1>1, <1>8, <3>1, <3>2 DEF YoungerFor
  <2>2. CASE state.origin = automation[n].origin /\ state.age = automation[n].age
    BY <1>1, <1>2, <1>5, <2>2
       DEF YoungerFor, Origins, Admissible, Newer, OutputAge
  <2>3. CASE state.origin = <<n, boot[n]>> /\ state.age = OutputAge(n)
    BY <1>1, <1>5, <1>7, <2>3
       DEF YoungerFor, Origins, OutputAge
  <2>4. CASE /\ cache[n].left > 0
             /\ state.origin = <<cache[n].leader, cache[n].boot>>
             /\ state.age = cache[n].age
    <3>1. /\ cache[n].age \in Nat
          /\ \A p \in packets[n] : p.age \in Nat /\ p.boot = cache[n].boot
      BY <1>7, Numbers DEF OInv, IInv
    <3>2. ASSUME NEW p \in packets[n], p.leader = cache[n].leader,
                 Newer(p, cache[n])
          PROVE  p.age <= cache[n].age
      BY <3>1, <3>2, <2>4 DEF Newer
    <3> QED BY <1>1, <1>5, <1>7, <2>4, <3>1, <3>2
            DEF YoungerFor, Origins, Newer
  <2> QED BY <1>3, <2>1, <2>2, <2>3, <2>4
<1>10. /\ automation[n].origin # NoOrigin
       /\ automation'[n].origin = automation[n].origin
       => automation'[n].age <= automation[n].age
  BY <1>2, <1>3, <1>5, <1>7, Numbers
     DEF YoungerFor, Origins, OInv, IInv
<1> QED BY <1>6, <1>9, <1>10

(* An observation cycle adds what is younger than all that exists.         *)
LEMMA ObserveOrdered ==
  ASSUME Ordered, OInv, NEW n \in Node, Observe(n)
  PROVE  /\ ViewKept' /\ PacketsSent' /\ PacketsOrdered' /\ CacheOrdered'
         /\ \A m \in Node : YoungerFor(m)'
<1>1. /\ UNCHANGED <<group, boot, cache, automation>>
      /\ observed' = observed \cup {n}
  BY DEF Observe, environment
<1>2. ASSUME NEW m \in Node, NEW p \in packets'[m]
      PROVE  \/ p \in packets[m]
             \/ /\ p.leader = n /\ m # n /\ p.age = 0
                /\ p.term = group[n].term
  <2>1. CASE Fuse(n)
    <3> DEFINE sent == [leader |-> n, boot |-> boot[n],
                        term |-> group[n].term, age |-> 0]
    <3>1. packets'[m] = packets[m] \cup
                          (IF m # n /\ group[n].term # 0
                           THEN {sent} ELSE {})
      BY <2>1 DEF Fuse
    <3>2. sent.leader = n /\ sent.age = 0 /\ sent.term = group[n].term
      OBVIOUS
    <3> HIDE DEF sent
    <3> QED BY <1>2, <3>1, <3>2
  <2>2. CASE Pause(n)
    BY <1>2, <2>2 DEF Pause
  <2> QED BY <2>1, <2>2 DEF Observe
<1>3. ViewKept'
  BY <1>1 DEF OInv, ViewKept
<1>4. group[n].term \in Nat
  BY Numbers DEF OInv, IInv
<1>5. PacketsSent'
  BY <1>1, <1>2, <1>4 DEF OInv, PacketsSent
<1>6. PacketsOrdered'
  <2> SUFFICES ASSUME NEW m \in Node, NEW p \in packets'[m],
                      NEW q \in packets'[m],
                      p.leader = q.leader, p.term > q.term
               PROVE  p.age <= q.age
    BY DEF PacketsOrdered
  <2>1. CASE p \in packets[m] /\ q \in packets[m]
    BY <2>1 DEF OInv, PacketsOrdered
  <2>2. CASE p \in packets[m] /\ q \notin packets[m]
    <3>1. q.leader = n /\ q.term = group[n].term
      BY <1>2, <2>2
    <3>2. p.term <= group[n].term /\ p.term \in Nat
      BY <2>2, <3>1, Numbers DEF OInv, IInv, PacketsSent
    <3> QED BY <3>1, <3>2, <1>4
  <2>3. CASE p \notin packets[m]
    <3>1. p.age = 0
      BY <1>2, <2>3
    <3>2. q.age \in Nat
      BY <1>2, Numbers DEF OInv, IInv
    <3> QED BY <3>1, <3>2
  <2> QED BY <2>1, <2>2, <2>3
<1>7. ASSUME NEW m \in Node
      PROVE  /\ cache[m].age \in Nat /\ automation[m].age \in Nat
             /\ \A p \in packets'[m] :
                  p \in packets[m] \/ p.age = 0
  BY <1>2, Numbers DEF OInv, IInv
<1>8. CacheOrdered'
  BY <1>1, <1>7 DEF OInv, CacheOrdered
<1>9. ASSUME NEW m \in Node
      PROVE  YoungerFor(m)'
  <2>1. YoungerFor(m)
    BY DEF OInv, YoungerToCome, YoungerAtHand, YoungerFor
  <2>2. OutputAge(m)' <= OutputAge(m) /\ OutputAge(m) \in Nat
        /\ OutputAge(m)' \in Nat
    BY <1>1 DEF OutputAge
  <2>3. \A l : Origins(m, l)' <=> Origins(m, l)
    BY <1>1 DEF Origins
  <2>4. \A p \in packets'[m] :
          Origins(m, p.leader)' /\ Admissible(m, p)' /\ Newer(p, cache[m])'
            => p.age <= automation[m].age
    BY <1>1, <1>7, <2>1, <2>3 DEF YoungerFor, Admissible, Newer
  <2>5. Origins(m, m)' => OutputAge(m)' <= automation[m].age
    BY <1>7, <2>1, <2>2, <2>3 DEF YoungerFor
  <2>6. cache[m].left > 0 /\ Origins(m, cache[m].leader)
          => cache[m].age <= automation[m].age
    BY <2>1 DEF YoungerFor
  <2> QED BY <1>1, <2>3, <2>4, <2>5, <2>6 DEF YoungerFor
<1> QED BY <1>3, <1>5, <1>6, <1>8, <1>9

(* What is cached is what was still to come.                               *)
LEMMA ReceiveOrdered ==
  ASSUME Ordered, OInv, NEW n \in Node, NEW q \in packets[n], Receive(n, q)
  PROVE  /\ ViewKept' /\ PacketsSent' /\ PacketsOrdered' /\ CacheOrdered'
         /\ \A m \in Node : YoungerFor(m)'
<1> DEFINE c == [leader |-> q.leader, boot |-> q.boot, term |-> q.term,
                 age |-> q.age, left |-> Ttl]
<1>1. /\ UNCHANGED <<group, boot, packets, automation, observed>>
      /\ cache' = [cache EXCEPT ![n] = c]
      /\ Admitted(n, q) /\ Newer(q, cache[n])
  BY DEF Receive, environment
<1>2. /\ c.leader = q.leader /\ c.boot = q.boot /\ c.term = q.term
      /\ c.age = q.age /\ c.left = Ttl
  OBVIOUS
<1> HIDE DEF c
<1>3. cache'[n] = c /\ \A m \in Node \ {n} : cache'[m] = cache[m]
  BY <1>1 DEF OInv, IInv, TypeOK
<1>4. ViewKept' /\ PacketsSent' /\ PacketsOrdered'
  BY <1>1 DEF OInv, ViewKept, PacketsSent, PacketsOrdered
<1>5. /\ q.leader = group[n].leader /\ q.term = group[n].term
      /\ q.leader # n /\ q.leader = group[n].last
      /\ q.age \in Nat /\ q.term \in Nat /\ q.leader \in Node
  <2>1. /\ q.leader = group[n].leader /\ q.term = group[n].term
        /\ q.leader # n
    BY <1>1 DEF Admitted, Leads
  <2>2. q.age \in Nat /\ q.term \in Nat /\ q.leader \in Node
    BY Numbers DEF OInv, IInv
  <2> QED BY <2>1, <2>2, Constants DEF OInv, ViewKept
<1>6. CacheOrdered'
  <2>1. \A p \in packets[n] : p.leader = q.leader /\ p.term > q.term
                                => p.age <= q.age
    BY DEF OInv, PacketsOrdered
  <2>2. q.age + Ttl >= Ttl /\ q.term <= group[n].term
    BY <1>5, Constants
  <2> SUFFICES ASSUME NEW m \in Node, cache'[m].left > 0
               PROVE  /\ cache'[m].leader # m
                      /\ cache'[m].term <= group[m].term
                      /\ cache'[m].age + cache'[m].left >= Ttl
                      /\ \A p \in packets[m] :
                           p.leader = cache'[m].leader
                           /\ p.term > cache'[m].term
                             => p.age <= cache'[m].age
    BY <1>1 DEF CacheOrdered
  <2>3. CASE m = n
    BY <1>2, <1>3, <1>5, <2>1, <2>2, <2>3
  <2>4. CASE m # n
    BY <1>3, <2>4 DEF OInv, CacheOrdered
  <2> QED BY <2>3, <2>4
<1>7. \A m \in Node : YoungerFor(m)
  BY DEF OInv, YoungerToCome, YoungerAtHand, YoungerFor
<1>8. \A m \in Node : /\ \A l : Origins(m, l)' <=> Origins(m, l)
                     /\ OutputAge(m)' = OutputAge(m)
  BY <1>1 DEF Origins, OutputAge
<1>9. ASSUME NEW m \in Node, m # n
      PROVE  YoungerFor(m)'
  BY <1>1, <1>3, <1>7, <1>8, <1>9 DEF YoungerFor, Admissible, Newer
<1>10. Origins(n, q.leader) => q.age <= automation[n].age
  <2>1. Admissible(n, q)
    BY <1>5, Numbers DEF Admissible
  <2> QED BY <1>1, <1>7, <2>1 DEF YoungerFor
<1>11. ASSUME NEW p \in packets[n], Origins(n, p.leader),
              Admissible(n, p), Newer(p, c)
       PROVE  p.age <= automation[n].age
  <2>1. /\ p.age \in Nat /\ p.term \in Nat /\ cache[n].age \in Nat
        /\ cache[n].left \in Nat /\ cache[n].term \in Nat
        /\ automation[n].age \in Nat /\ group[n].term \in Nat
        /\ p.boot = 1 /\ q.boot = 1 /\ cache[n].boot = 1
    BY Numbers, OneBoot DEF OInv, IInv
  <2>2. CASE Newer(p, cache[n])
    BY <1>7, <1>11, <2>2 DEF YoungerFor
  <2>3. CASE ~Newer(p, cache[n])
    <3>1. /\ cache[n].left > 0 /\ p.leader = cache[n].leader
          /\ p.age >= cache[n].age
      BY <2>3 DEF Newer
    <3>2. CASE p.leader = q.leader
      <4>1. q.age < cache[n].age
        BY <1>1, <1>5, <2>1, <3>1, <3>2 DEF Newer
      <4>2. p.age < q.age
        BY <1>2, <1>5, <1>11, <2>1, <3>2, Constants DEF Newer
      <4> QED BY <1>5, <2>1, <3>1, <4>1, <4>2
    <3>3. CASE p.leader # q.leader
      <4>1. p.term > cache[n].term
        <5>1. p.term > group[n].term
          BY <1>5, <1>11, <2>1, <3>3 DEF Admissible
        <5>2. cache[n].term <= group[n].term
          BY <3>1 DEF OInv, CacheOrdered
        <5> QED BY <2>1, <5>1, <5>2
      <4>2. p.age <= cache[n].age
        BY <3>1, <4>1 DEF OInv, CacheOrdered
      <4>3. cache[n].age <= automation[n].age
        BY <1>7, <1>11, <3>1 DEF YoungerFor
      <4> QED BY <2>1, <4>2, <4>3
    <3> QED BY <3>2, <3>3
  <2> QED BY <2>2, <2>3
<1>12. YoungerFor(n)'
  BY <1>1, <1>2, <1>3, <1>7, <1>8, <1>10, <1>11 DEF YoungerFor, Admissible
<1> QED BY <1>4, <1>6, <1>9, <1>12

(* A change of Leader or of place makes nothing older admissible.          *)
LEMMA EnvironmentOrdered ==
  ASSUME Ordered, OInv, NEW n \in Node,
         \/ \E leader \in Node, term \in Term : Reelect(n, leader, term)
         \/ LoseLeader(n)
         \/ \E where \in Placement : Place(n, where)
  PROVE  /\ ViewKept' /\ PacketsSent' /\ PacketsOrdered' /\ CacheOrdered'
         /\ \A m \in Node : YoungerFor(m)'
<1>1. UNCHANGED <<boot, packets, cache, automation, observed>>
  BY DEF Reelect, LoseLeader, Place
<1>2. ASSUME NEW m \in Node
      PROVE  /\ group'[m].leader # None => group'[m].last = group'[m].leader
             /\ group'[m].term \in Nat
             /\ \/ group'[m].term > group[m].term
                \/ /\ group'[m].term = group[m].term
                   /\ group'[m].last = group[m].last
  <2>1. /\ group[m].leader # None => group[m].last = group[m].leader
        /\ group[m].term \in Nat
        /\ group \in [Node -> [leader : Node \cup {None},
                               last : Node \cup {None}, term : Term]]
    BY Numbers DEF OInv, IInv, TypeOK, ViewKept
  <2>2. ASSUME NEW leader \in Node, NEW term \in Term,
               Reelect(n, leader, term)
        PROVE  <1>2!2
    <3>1. /\ term >= group[n].term /\ term \in Nat
          /\ leader # group[n].last => term > group[n].term
          /\ group' = [group EXCEPT ![n] =
                         [leader |-> leader, last |-> leader, term |-> term]]
      BY <2>2, Constants DEF Reelect, Term
    <3>2. CASE m = n
      <4>1. /\ group'[m].leader = leader /\ group'[m].last = leader
            /\ group'[m].term = term
        BY <2>1, <3>1, <3>2
      <4> QED BY <2>1, <3>1, <3>2, <4>1
    <3>3. CASE m # n
      BY <2>1, <3>1, <3>3
    <3> QED BY <3>2, <3>3
  <2>3. CASE LoseLeader(n)
    BY <2>1, <2>3 DEF LoseLeader
  <2>4. CASE \E where \in Placement : Place(n, where)
    BY <2>1, <2>4 DEF Place
  <2> QED BY <2>2, <2>3, <2>4
<1>3. ViewKept'
  BY <1>2 DEF ViewKept
<1>4. ASSUME NEW m \in Node
      PROVE  group[m].term \in Nat /\ group[m].term <= group'[m].term
  BY <1>2, Numbers DEF OInv, IInv
<1>5. PacketsSent'
  <2> SUFFICES ASSUME NEW m \in Node, NEW p \in packets[m]
               PROVE  p.leader # m /\ p.term <= group'[p.leader].term
    BY <1>1 DEF PacketsSent
  <2>1. p.leader \in Node /\ p.term \in Nat
    BY Numbers DEF OInv, IInv
  <2>2. p.leader # m /\ p.term <= group[p.leader].term
    BY DEF OInv, PacketsSent
  <2> QED BY <1>2, <1>4, <2>1, <2>2
<1>6. PacketsOrdered'
  BY <1>1 DEF OInv, PacketsOrdered
<1>7. CacheOrdered'
  <2> SUFFICES ASSUME NEW m \in Node, cache[m].left > 0
               PROVE  cache[m].term <= group'[m].term
    BY <1>1 DEF OInv, CacheOrdered
  <2>1. cache[m].term \in Nat /\ cache[m].term <= group[m].term
    BY Numbers DEF OInv, IInv, CacheOrdered
  <2> QED BY <1>2, <1>4, <2>1
<1>8. ASSUME NEW m \in Node
      PROVE  YoungerFor(m)'
  <2>1. YoungerFor(m)
    BY DEF OInv, YoungerToCome, YoungerAtHand, YoungerFor
  <2>2. ASSUME NEW p \in packets[m], Admissible(m, p)'
        PROVE  Admissible(m, p)
    <3>1. p.term \in Nat
      BY Numbers DEF OInv, IInv
    <3>2. /\ p.term >= group'[m].term
          /\ p.term = group'[m].term => p.leader = group'[m].last
      BY <2>2 DEF Admissible
    <3> QED BY <1>2, <1>4, <3>1, <3>2 DEF Admissible
  <2> QED BY <1>1, <2>1, <2>2 DEF YoungerFor, Origins, Newer, OutputAge
<1> QED BY <1>3, <1>5, <1>6, <1>7, <1>8

(* A cached snapshot outlives every older one in the network.              *)
LEMMA TickOrdered ==
  ASSUME Ordered, OInv, Tick
  PROVE  /\ ViewKept' /\ PacketsSent' /\ PacketsOrdered' /\ CacheOrdered'
         /\ \A m \in Node : YoungerFor(m)'
<1>1. /\ UNCHANGED <<group, boot>> /\ observed' = {} /\ observed = Node
      /\ packets' = [m \in Node |-> OlderPackets(packets[m])]
      /\ cache' = [m \in Node |-> OlderSnapshot(cache[m])]
      /\ automation' = [m \in Node |-> OlderAutomation(automation[m])]
  BY DEF Tick, environment
<1>2. ASSUME NEW m \in Node, NEW p \in packets'[m]
      PROVE  \E o \in packets[m] :
               /\ p.leader = o.leader /\ p.boot = o.boot /\ p.term = o.term
               /\ p.age = o.age + 1 /\ o.age < Delay
  <2>1. PICK o \in packets[m] :
           o.age < Delay /\ p = [o EXCEPT !.age = @ + 1]
    BY <1>1, <1>2 DEF OlderPackets
  <2>2. o \in Snapshot
    BY OneBoot DEF OInv, IInv
  <2> QED BY <2>1, <2>2 DEF Snapshot
<1>3. ASSUME NEW m \in Node
      PROVE  /\ cache[m].age \in Nat /\ cache[m].left \in Nat
             /\ cache'[m].left > 0 =>
                  /\ cache[m].left > 1
                  /\ cache'[m].leader = cache[m].leader
                  /\ cache'[m].boot = cache[m].boot
                  /\ cache'[m].term = cache[m].term
                  /\ cache'[m].age = cache[m].age + 1
                  /\ cache'[m].left = cache[m].left - 1
             /\ cache'[m].left = 0 => cache[m].left <= 1
  <2>1. cache[m].age \in Nat /\ cache[m].left \in Nat
    BY Numbers DEF OInv, IInv
  <2>2. cache'[m] = OlderSnapshot(cache[m])
    BY <1>1
  <2> QED BY <2>1, <2>2 DEF OlderSnapshot, NoSnapshot
<1>4. ASSUME NEW m \in Node
      PROVE  /\ automation'[m].origin = automation[m].origin
             /\ automation[m].origin # NoOrigin =>
                  \/ automation'[m].age = automation[m].age + 1
                  \/ automation'[m].age = MaxAge
  <2>1. automation'[m] = OlderAutomation(automation[m])
    BY <1>1
  <2>2. automation[m].age \in Nat /\ automation[m].age <= MaxAge
    BY Numbers DEF OInv, IInv
  <2> QED BY <2>1, <2>2, Constants DEF OlderAutomation
<1>5. ViewKept'
  BY <1>1 DEF OInv, ViewKept
<1>6. PacketsSent'
  BY <1>1, <1>2 DEF OInv, PacketsSent
<1>7. PacketsOrdered'
  <2> SUFFICES ASSUME NEW m \in Node, NEW p \in packets'[m],
                      NEW q \in packets'[m],
                      p.leader = q.leader, p.term > q.term
               PROVE  p.age <= q.age
    BY DEF PacketsOrdered
  <2>1. PICK o \in packets[m] :
           /\ p.leader = o.leader /\ p.term = o.term /\ p.age = o.age + 1
    BY <1>2
  <2>2. PICK r \in packets[m] :
           /\ q.leader = r.leader /\ q.term = r.term /\ q.age = r.age + 1
    BY <1>2
  <2>3. o.age <= r.age
    BY <2>1, <2>2 DEF OInv, PacketsOrdered
  <2>4. o.age \in Nat /\ r.age \in Nat
    BY Numbers DEF OInv, IInv
  <2> QED BY <2>1, <2>2, <2>3, <2>4
<1>8. CacheOrdered'
  <2> SUFFICES ASSUME NEW m \in Node, cache'[m].left > 0
               PROVE  /\ cache'[m].leader # m
                      /\ cache'[m].term <= group[m].term
                      /\ cache'[m].age + cache'[m].left >= Ttl
                      /\ \A p \in packets'[m] :
                           p.leader = cache'[m].leader
                           /\ p.term > cache'[m].term
                             => p.age <= cache'[m].age
    BY <1>1 DEF CacheOrdered
  <2>1. /\ cache[m].left > 0 /\ cache[m].leader # m
        /\ cache[m].term <= group[m].term
        /\ cache[m].age + cache[m].left >= Ttl
    BY <1>3 DEF OInv, CacheOrdered
  <2>2. ASSUME NEW p \in packets'[m], p.leader = cache'[m].leader,
               p.term > cache'[m].term
        PROVE  p.age <= cache'[m].age
    <3>1. PICK o \in packets[m] :
             /\ p.leader = o.leader /\ p.term = o.term /\ p.age = o.age + 1
      BY <1>2
    <3>2. o.age <= cache[m].age
      BY <1>3, <2>1, <2>2, <3>1 DEF OInv, CacheOrdered
    <3>3. o.age \in Nat
      BY Numbers DEF OInv, IInv
    <3> QED BY <1>3, <3>1, <3>2, <3>3
  <2>3. cache'[m].age + cache'[m].left >= Ttl
    BY <1>3, <2>1, Constants
  <2> QED BY <1>3, <2>1, <2>2, <2>3
<1>9. ASSUME NEW m \in Node
      PROVE  YoungerFor(m)'
  <2>1. YoungerFor(m)
    BY DEF OInv, YoungerToCome, YoungerAtHand, YoungerFor
  <2>2. /\ cache[m].age \in Nat /\ automation[m].age \in Nat
        /\ cache[m].left \in Nat
        /\ \A p \in packets[m] : p.age \in Nat /\ p.leader \in Node
        /\ \A p \in packets[m] : p.boot = 1
        /\ cache[m].boot = 1
    BY Numbers, OneBoot DEF OInv, IInv
  <2>3. \A l : Origins(m, l)' <=> Origins(m, l)
    BY <1>4 DEF Origins
  <2>4. \A l \in Node : Origins(m, l) => automation[m].origin # NoOrigin
    BY Constants DEF Origins, NoOrigin
  <2>5. ASSUME NEW x \in Nat, x <= automation[m].age, x < Delay + Ttl,
               NEW l \in Node, Origins(m, l)
        PROVE  x + 1 <= automation'[m].age
    BY <1>4, <2>2, <2>4, <2>5, Constants
  <2>6. ASSUME NEW p \in packets'[m], Origins(m, p.leader),
               Admissible(m, p)', Newer(p, cache'[m])
        PROVE  p.age <= automation'[m].age
    <3>1. PICK o \in packets[m] :
             /\ p.leader = o.leader /\ p.boot = o.boot /\ p.term = o.term
             /\ p.age = o.age + 1 /\ o.age < Delay
      BY <1>2
    <3>2. Admissible(m, o)
      BY <1>1, <2>6, <3>1 DEF Admissible
    <3>3. Newer(o, cache[m])
      <4> SUFFICES ASSUME cache[m].left > 0, o.leader = cache[m].leader,
                          o.age >= cache[m].age
                   PROVE  FALSE
        BY DEF Newer
      <4>1. cache[m].age + cache[m].left >= Ttl
        BY DEF OInv, CacheOrdered
      <4>2. cache[m].left > 1
        BY <2>2, <3>1, <4>1, Constants DEF Ordered
      <4>3. /\ cache'[m].leader = cache[m].leader
            /\ cache'[m].boot = cache[m].boot
            /\ cache'[m].age = cache[m].age + 1
            /\ cache'[m].left > 0
        <5>1. cache'[m].left # 0
          BY <1>3, <2>2, <4>2
        <5>2. cache'[m].left \in Nat
          BY <1>1, <2>2 DEF OlderSnapshot, NoSnapshot
        <5> QED BY <1>3, <5>1, <5>2
      <4> QED BY <2>2, <2>6, <3>1, <4>3 DEF Newer
    <3>4. o.age <= automation[m].age
      BY <2>1, <2>6, <3>1, <3>2, <3>3 DEF YoungerFor
    <3> QED BY <2>2, <2>5, <2>6, <3>1, <3>4, Constants
  <2>7. ASSUME cache'[m].left > 0, Origins(m, cache'[m].leader)
        PROVE  cache'[m].age <= automation'[m].age
    <3>1. /\ cache[m].left > 1 /\ cache'[m].leader = cache[m].leader
          /\ cache'[m].age = cache[m].age + 1
      BY <1>3, <2>7
    <3>2. cache[m].age <= automation[m].age
      <4>1. cache[m].left > 0
        BY <2>2, <3>1
      <4>2. Origins(m, cache[m].leader)
        BY <2>7, <3>1
      <4> QED BY <2>1, <4>1, <4>2 DEF YoungerFor
    <3>3. cache[m].age < Delay + Ttl /\ cache[m].leader \in Node
      BY <2>2, <3>1, Constants DEF OInv, IInv, CacheBound
    <3> QED BY <2>2, <2>5, <2>7, <3>1, <3>2, <3>3
  <2>8. ASSUME Origins(m, m)
        PROVE  OutputAge(m)' <= automation'[m].age
    <3>1. OutputAge(m) = 0 /\ OutputAge(m)' = 1
      BY <1>1 DEF OutputAge
    <3>2. automation[m].age >= 0
      BY <2>2
    <3> QED BY <2>5, <2>8, <3>1, <3>2, Constants
  <2>9. \A p \in packets'[m] :
          Origins(m, p.leader)' /\ Admissible(m, p)' /\ Newer(p, cache[m])'
            => p.age <= automation'[m].age
    BY <2>3, <2>6 DEF Newer
  <2> QED BY <2>3, <2>7, <2>8, <2>9 DEF YoungerFor
<1> QED BY <1>5, <1>6, <1>7, <1>8, <1>9

(* Without restarts, and with Delay < Ttl, the ordering is kept.           *)
LEMMA OrderInvariant ==
  ASSUME Ordered
  PROVE  Spec => []OInv
<1>1. Init => OInv
  <2> SUFFICES ASSUME Init PROVE OInv
    OBVIOUS
  <2>1. IInv
    BY InitTyped
  <2>2. /\ ViewKept /\ PacketsSent /\ PacketsOrdered
    BY DEF Init, ViewKept, PacketsSent, PacketsOrdered, NoGroup
  <2>3. CacheOrdered
    BY DEF Init, CacheOrdered, NoSnapshot
  <2>4. YoungerToCome
    BY DEF Init, YoungerToCome
  <2>5. YoungerAtHand
    BY Constants
       DEF Init, YoungerAtHand, NoSnapshot, NoAutomation, NoOrigin, Origins
  <2> QED BY <2>1, <2>2, <2>3, <2>4, <2>5 DEF OInv
<1>2. ASSUME OInv, [Next]_vars
      PROVE  OInv'
  <2>1. IInv'
    BY <1>2, NextKeeps DEF OInv
  <2>2. /\ ViewKept' /\ PacketsSent' /\ PacketsOrdered' /\ CacheOrdered'
        /\ \A m \in Node : YoungerFor(m)'
    <3>1. ASSUME NEW n \in Node, Refresh(n) PROVE <2>2
      <4>1. UNCHANGED <<group, packets, cache>>
        BY <3>1 DEF Refresh, environment
      <4>2. ViewKept' /\ PacketsSent' /\ PacketsOrdered' /\ CacheOrdered'
        BY <1>2, <4>1
           DEF OInv, ViewKept, PacketsSent, PacketsOrdered, CacheOrdered
      <4> QED BY <1>2, <3>1, <4>2, RefreshOrdered
    <3>2. ASSUME NEW n \in Node, Restart(n) PROVE FALSE
      <4>1. boot[n] = 1 /\ boot[n] < 1
        BY <1>2, <3>2, OneBoot DEF Restart, Ordered, OInv, IInv
      <4> QED BY <4>1
    <3>3. ASSUME Settle \/ UNCHANGED vars PROVE <2>2
      <4>1. UNCHANGED <<group, packets, cache, automation, observed>>
        BY <3>3 DEF Settle, vars
      <4> QED BY <1>2, <4>1
              DEF OInv, ViewKept, PacketsSent, PacketsOrdered, CacheOrdered,
                  YoungerToCome, YoungerAtHand, YoungerFor, Origins,
                  Admissible, Newer, OutputAge
    <3> QED BY <1>2, <3>1, <3>2, <3>3, ObserveOrdered, ReceiveOrdered,
               EnvironmentOrdered, TickOrdered DEF Next
  <2> QED BY <2>1, <2>2 DEF OInv, YoungerFor, YoungerToCome, YoungerAtHand
<1> QED BY <1>1, <1>2, PTL DEF Spec

(* For any Group whose network forgets a snapshot before a cache does, and  *)
(* for one boot of its nodes: no accepted value is replaced by an older one. *)
THEOREM OrderKept ==
  ASSUME Ordered
  PROVE  Spec => NoRollback
<1> DEFINE Onward(n) ==
      automation[n].origin # NoOrigin
      /\ automation'[n].origin = automation[n].origin
        => automation'[n].age <= automation[n].age
<1>1. ASSUME OInv, [Next]_vars
      PROVE  Tick \/ \A n \in Node : Onward(n)
  <2> SUFFICES ASSUME NEW n \in Node, ~Tick PROVE Onward(n)
    OBVIOUS
  <2>1. automation[n].age \in Nat
    BY <1>1, Numbers DEF OInv, IInv
  <2>2. ASSUME NEW m \in Node, Refresh(m)
        PROVE  Onward(n)
    <3>1. CASE m = n
      BY <1>1, <2>2, <3>1, RefreshOrdered
    <3>2. CASE m # n
      <4>1. PICK state : Becomes(m, state)
        BY <2>2, RefreshValues
      <4>2. automation'[n] = automation[n]
        BY <1>1, <3>2, <4>1 DEF Becomes, OInv, IInv, TypeOK
      <4> QED BY <2>1, <4>2
    <3> QED BY <3>1, <3>2
  <2>3. ASSUME NEW m \in Node, Restart(m)
        PROVE  FALSE
    <3>1. boot[m] = 1 /\ boot[m] < 1
      BY <1>1, <2>3, OneBoot DEF Restart, Ordered, OInv, IInv
    <3> QED BY <3>1
  <2>4. CASE UNCHANGED automation
    BY <2>1, <2>4
  <2>5. (\E m \in Node : Refresh(m) \/ Restart(m)) \/ UNCHANGED automation
    BY <1>1
       DEF Next, Observe, Receive, Reelect, LoseLeader, Place, Settle, vars
  <2> QED BY <2>2, <2>3, <2>4, <2>5
<1> QED BY <1>1, OrderInvariant, PTL DEF Spec, NoRollback

=============================================================================
