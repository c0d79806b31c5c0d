-------------------------- MODULE FusionAutomation --------------------------
(***************************************************************************)
(* What a home automation reads from every node of one Group.  The Group   *)
(* Leader fuses the observations of its members and sends each member a    *)
(* snapshot; a member admits the snapshots of the Leader it knows, caches  *)
(* the newest one for its time to live, and refreshes its automation state *)
(* from the cache.  When nothing current is at hand the last values are    *)
(* held for a bounded time, then withdrawn.                                *)
(*                                                                         *)
(* Time is counted in ticks of 500 ms, the period of the refresh and the   *)
(* least distance of two snapshots to one member, so that the sequence     *)
(* numbers of one boot of a Leader order its snapshots as their ages do.   *)
(* Snapshots may be lost, duplicated and reordered, and are delivered at   *)
(* most Delay ticks after they were sent.  Who leads the Group is decided  *)
(* elsewhere (SiteElection has the election): here a node's view of it     *)
(* changes at will, within what the role election guarantees.              *)
(***************************************************************************)
EXTENDS Integers, FiniteSets

CONSTANTS
    Node,       \* the members of the Group
    None,       \* no node
    TermLimit,  \* the largest term, a bound of the model
    BootLimit,  \* how often a node may start, a bound of the model
    Changes,    \* how many disturbances happen, a bound of the model
    Ttl,        \* time to live of a cached snapshot, FusionSnapshot::ttl_ms
    Hold,       \* FusionAutomationState::CONTINUITY_HOLD_MS
    Delay       \* the longest time a snapshot stays in the network

ASSUME FusionAssumption ==
    /\ None \notin Node
    /\ TermLimit \in Nat \ {0}
    /\ BootLimit \in Nat \ {0}
    /\ Changes \in Nat
    /\ Ttl \in Nat \ {0}
    /\ Hold \in Nat \ {0}
    /\ Delay \in Nat \ {0}

VARIABLES
    group,       \* each node's view of the Group: Leader, last Leader, term
    placement,   \* whether its configuration places the node in the Group
    boot,        \* number of starts, stands for boot_id
    fused,       \* nodes whose production fusion output is active
    packets,     \* snapshots on the way to each node
    cache,       \* the snapshot each node has cached
    automation,  \* FusionAutomationState of each node
    observed,    \* nodes that ran their observation cycle in this tick
    refreshed,   \* nodes that refreshed their automation in this tick
    changes,     \* disturbances so far
    calm         \* no disturbances and no losses any more

environment == <<group, placement, changes, calm>>
vars == <<group, placement, boot, fused, packets, cache, automation,
          observed, refreshed, changes, calm>>

-----------------------------------------------------------------------------

Term == 0..TermLimit
Boot == 1..BootLimit
Placement == {"ready", "unassigned", "misposed", "absent"}
Health == {"healthy", "recovering", "unavailable"}

(* A boot of a node: the sequence numbers of a Leader start anew with it.   *)
Origin == (Node \cup {None}) \X Boot

NoOrigin == <<None, 1>>

(* The oldest age the model tells apart.                                   *)
MaxAge == Delay + Ttl + Hold

Snapshot == [leader : Node, boot : Boot, term : Term \ {0}, age : 0..Delay]

Cached == [leader : Node \cup {None}, boot : Boot, term : Term,
           age : 0..(Delay + Ttl), left : 0..Ttl]

NoSnapshot == [leader |-> None, boot |-> 1, term |-> 0, age |-> 0, left |-> 0]

Automation == [health : Health, leader : Node \cup {None}, term : Term,
               origin : Origin, age : 0..MaxAge,
               heldTerm : Term, left : 0..Hold]

NoAutomation ==
    [health |-> "unavailable", leader |-> None, term |-> 0,
     origin |-> NoOrigin,
     age |-> 0, heldTerm |-> 0, left |-> 0]

NoGroup == [leader |-> None, last |-> None, term |-> 0]

TypeOK ==
    /\ group \in [Node -> [leader : Node \cup {None},
                           last : Node \cup {None}, term : Term]]
    /\ placement \in [Node -> Placement]
    /\ boot \in [Node -> Boot]
    /\ fused \subseteq Node
    /\ packets \in [Node -> SUBSET Snapshot]
    /\ cache \in [Node -> Cached]
    /\ automation \in [Node -> Automation]
    /\ observed \subseteq Node
    /\ refreshed \subseteq Node
    /\ changes \in 0..Changes
    /\ calm \in BOOLEAN

Leads(n) == group[n].leader = n

-----------------------------------------------------------------------------
(* The automation state                                                    *)

(* update_local and update_remote replace the state as a whole.            *)
Healthy(leader, term, origin, age) ==
    [health |-> "healthy", leader |-> leader, term |-> term,
     origin |-> origin, age |-> age, heldTerm |-> 0, left |-> 0]

(* Without a current snapshot the values are dropped; how new the dropped  *)
(* ones were is remembered for as long as the authority does not change.   *)
MarkUnavailable(state, leader, term) ==
    LET same == state.leader = leader /\ state.term = term
    IN  [health |-> "unavailable", leader |-> leader, term |-> term,
         origin |-> IF same THEN state.origin ELSE NoOrigin,
         age |-> IF same THEN state.age ELSE 0,
         heldTerm |-> 0, left |-> 0]

(* A mistake: every failed refresh starts the hold anew.                   *)
MutantHoldLeft(state) == Hold

(* The hold in force: the one that already runs, or a new one.             *)
HoldLeft(state) == IF state.health = "recovering" THEN state.left ELSE Hold

HoldTerm(state) ==
    IF state.health = "recovering" THEN state.heldTerm ELSE state.term

(* mark_recovering accepts: there is something to hold, the hold has not   *)
(* run out, and the Group has not stepped back behind the held term.       *)
Holdable(state, term) ==
    /\ state.health \in {"healthy", "recovering"}
    /\ HoldLeft(state) > 0
    /\ term # 0 => term >= HoldTerm(state)

Held(state, leader, term) ==
    LET adopted == leader # None /\ term # 0
    IN  [health |-> "recovering",
         leader |-> IF adopted THEN leader ELSE state.leader,
         term |-> IF adopted THEN term ELSE state.term,
         origin |-> state.origin, age |-> state.age,
         heldTerm |-> HoldTerm(state), left |-> HoldLeft(state)]

HoldOrDrop(state, leader, term) ==
    IF Holdable(state, term) THEN Held(state, leader, term)
                             ELSE MarkUnavailable(state, leader, term)

(* The local output is younger than anything it could replace.             *)
OutputAge(n) == IF n \in observed THEN 0 ELSE 1

(* A mistake: an output that is already in force counts as outdated.       *)
MutantStrict(n) ==
    /\ group[n].term # 0
    /\ n \in fused
    /\ ~ /\ automation[n].origin = <<n, boot[n]>>
         /\ automation[n].leader = n
         /\ automation[n].term = group[n].term
         /\ automation[n].age <= OutputAge(n)

LocalCurrent(n) ==
    /\ group[n].term # 0
    /\ n \in fused
    /\ ~ /\ automation[n].origin = <<n, boot[n]>>
         /\ automation[n].leader = n
         /\ automation[n].term = group[n].term
         /\ automation[n].age < OutputAge(n)

(* The cached snapshot is the one of the Leader and the term in force.     *)
RemoteCurrent(n) ==
    /\ cache[n].left > 0
    /\ cache[n].leader = group[n].leader
    /\ cache[n].term = group[n].term

-----------------------------------------------------------------------------
(* Refreshing the automation state: the branches of                        *)
(* refresh_fusion_automation_, in the order of their tests                 *)

Becomes(n, state) == automation' = [automation EXCEPT ![n] = state]

(* No Group, or no committed place in it.                                  *)
WithoutGroup(n) ==
    /\ placement[n] = "absent"
    /\ Becomes(n, MarkUnavailable(automation[n], None, 0))

(* The stored pose is not the configured one: values are withdrawn at once. *)
Misposed(n) ==
    /\ placement[n] = "misposed"
    /\ Becomes(n, MarkUnavailable(automation[n], group[n].leader,
                                  group[n].term))

Continuity(n) ==
    Becomes(n, HoldOrDrop(automation[n], group[n].leader, group[n].term))

(* The assignment of the Group is not canonical, or credentials lack.       *)
Unassigned(n) == placement[n] = "unassigned" /\ Continuity(n)

LocalAuthority(n) ==
    /\ placement[n] = "ready" /\ Leads(n)
    /\ IF LocalCurrent(n)
       THEN Becomes(n, Healthy(n, group[n].term, <<n, boot[n]>>,
                               OutputAge(n)))
       ELSE Continuity(n)

RemoteAuthority(n) ==
    /\ placement[n] = "ready" /\ ~Leads(n)
    /\ IF RemoteCurrent(n)
       THEN Becomes(n, Healthy(cache[n].leader, cache[n].term,
                               <<cache[n].leader, cache[n].boot>>,
                               cache[n].age))
       ELSE Continuity(n)

Refresh(n) ==
    /\ \/ WithoutGroup(n)
       \/ Misposed(n)
       \/ Unassigned(n)
       \/ LocalAuthority(n)
       \/ RemoteAuthority(n)
    /\ refreshed' = refreshed \cup {n}
    /\ UNCHANGED <<environment, boot, fused, packets, cache, observed>>

-----------------------------------------------------------------------------
(* Producing, sending and receiving snapshots                              *)

(* The runtime may fuse: it leads and its place in the Group is in order.  *)
MayFuse(n) == placement[n] = "ready" /\ Leads(n)

(* An active output is sent to every member, once the Leader has a term.   *)
Fuse(n) ==
    /\ MayFuse(n)
    /\ fused' = fused \cup {n}
    /\ packets' =
         [m \in Node |->
            packets[m] \cup
              (IF m # n /\ group[n].term # 0
               THEN {[leader |-> n, boot |-> boot[n], term |-> group[n].term,
                      age |-> 0]}
               ELSE {})]

(* A runtime that may not fuse, or that has no valid source, stops the      *)
(* production output.                                                      *)
Pause(n) ==
    /\ calm => ~MayFuse(n)
    /\ fused' = fused \ {n}
    /\ UNCHANGED packets

Observe(n) ==
    /\ n \notin observed
    /\ Fuse(n) \/ Pause(n)
    /\ observed' = observed \cup {n}
    /\ UNCHANGED <<environment, boot, cache, automation, refreshed>>

(* Only the Leader a member follows is admitted, in the term in force.     *)
Admitted(n, p) ==
    /\ placement[n] # "absent"
    /\ ~Leads(n)
    /\ p.leader = group[n].leader
    /\ p.term = group[n].term

(* A mistake: the cache takes whatever arrives last.                       *)
MutantNoSequence(p, cached) == TRUE

(* The cache keeps the newest snapshot of one boot of the Leader.          *)
Newer(p, cached) ==
    ~ /\ cached.left > 0
      /\ p.leader = cached.leader
      /\ p.boot = cached.boot
      /\ p.age >= cached.age

Receive(n, p) ==
    /\ Admitted(n, p)
    /\ Newer(p, cache[n])
    /\ cache' = [cache EXCEPT ![n] =
                   [leader |-> p.leader, boot |-> p.boot, term |-> p.term,
                    age |-> p.age, left |-> Ttl]]
    /\ UNCHANGED <<environment, boot, fused, packets, automation, observed,
                   refreshed>>

-----------------------------------------------------------------------------
(* The environment: elections, configuration, restarts                     *)

Disturb ==
    /\ ~calm
    /\ changes < Changes
    /\ changes' = changes + 1
    /\ UNCHANGED calm

(* A node changes its view of the Group.  Its term never falls, and a       *)
(* different Leader needs a newer one.                                     *)
Reelect(n, leader, term) ==
    /\ Disturb
    /\ term >= group[n].term /\ term # 0
    /\ leader # group[n].last => term > group[n].term
    /\ group' = [group EXCEPT ![n] = [leader |-> leader, last |-> leader,
                                      term |-> term]]
    /\ UNCHANGED <<placement, boot, fused, packets, cache, automation,
                   observed, refreshed>>

LoseLeader(n) ==
    /\ Disturb
    /\ group[n].leader # None
    /\ group' = [group EXCEPT ![n].leader = None]
    /\ UNCHANGED <<placement, boot, fused, packets, cache, automation,
                   observed, refreshed>>

Place(n, where) ==
    /\ Disturb
    /\ placement[n] # where
    /\ placement' = [placement EXCEPT ![n] = where]
    /\ UNCHANGED <<group, boot, fused, packets, cache, automation, observed,
                   refreshed>>

(* A restarted node has its boot identifier and its configuration only.    *)
Restart(n) ==
    /\ Disturb
    /\ boot[n] < BootLimit
    /\ boot' = [boot EXCEPT ![n] = @ + 1]
    /\ group' = [group EXCEPT ![n] = NoGroup]
    /\ fused' = fused \ {n}
    /\ cache' = [cache EXCEPT ![n] = NoSnapshot]
    /\ automation' = [automation EXCEPT ![n] = NoAutomation]
    /\ observed' = observed \ {n}
    /\ refreshed' = refreshed \ {n}
    /\ UNCHANGED <<placement, packets>>

-----------------------------------------------------------------------------
(* Time                                                                    *)

(* Once calm, what is sent arrives within the tick.                        *)
Delivered(n) ==
    \A p \in packets[n] : p.age = 0 => ~(Admitted(n, p) /\ Newer(p, cache[n]))

OlderSnapshot(c) ==
    IF c.left > 1
    THEN [leader |-> c.leader, boot |-> c.boot, term |-> c.term,
          age |-> c.age + 1, left |-> c.left - 1]
    ELSE NoSnapshot

OlderAutomation(state) ==
    [health |-> state.health, leader |-> state.leader, term |-> state.term,
     origin |-> state.origin,
     age |-> IF state.origin # NoOrigin /\ state.age < MaxAge
             THEN state.age + 1 ELSE state.age,
     heldTerm |-> state.heldTerm,
     left |-> IF state.left > 0 THEN state.left - 1 ELSE 0]

OlderPackets(sent) ==
    {[p EXCEPT !.age = @ + 1] : p \in {q \in sent : q.age < Delay}}

Tick ==
    /\ observed = Node
    /\ refreshed = Node
    /\ calm => \A n \in Node : Delivered(n)
    /\ packets' = [n \in Node |-> OlderPackets(packets[n])]
    /\ cache' = [n \in Node |-> OlderSnapshot(cache[n])]
    /\ automation' = [n \in Node |-> OlderAutomation(automation[n])]
    /\ observed' = {}
    /\ refreshed' = {}
    /\ UNCHANGED <<environment, boot, fused>>

(* The disturbances end with a Group that agrees on its Leader.            *)
Agreed ==
    /\ \A n \in Node : placement[n] = "ready" /\ group[n].leader # None
    /\ \A n, m \in Node : /\ group[n].leader = group[m].leader
                          /\ group[n].term = group[m].term

Settle ==
    /\ ~calm
    /\ Agreed
    /\ calm' = TRUE
    /\ UNCHANGED <<group, placement, boot, fused, packets, cache, automation,
                   observed, refreshed, changes>>

-----------------------------------------------------------------------------

Init ==
    /\ group = [n \in Node |-> NoGroup]
    /\ placement = [n \in Node |-> "ready"]
    /\ boot = [n \in Node |-> 1]
    /\ fused = {}
    /\ packets = [n \in Node |-> {}]
    /\ cache = [n \in Node |-> NoSnapshot]
    /\ automation = [n \in Node |-> NoAutomation]
    /\ observed = {}
    /\ refreshed = {}
    /\ changes = 0
    /\ calm = FALSE

Next ==
    \/ \E n \in Node :
         \/ Refresh(n)
         \/ Observe(n)
         \/ \E p \in packets[n] : Receive(n, p)
         \/ \E leader \in Node, term \in Term : Reelect(n, leader, term)
         \/ LoseLeader(n)
         \/ \E where \in Placement : Place(n, where)
         \/ Restart(n)
    \/ Tick
    \/ Settle

Spec == Init /\ [][Next]_vars

(* Time goes on, and with it every cycle a tick waits for.                 *)
LiveSpec == Spec /\ []<><<Tick>>_vars

-----------------------------------------------------------------------------
(* Properties                                                              *)

(* At every refresh (fusion_automation_snapshot reads through one), values *)
(* a home automation may use are bounded in age: a healthy state by the    *)
(* delay and the time to live of a snapshot, a held one by the hold on top. *)
AvailableFresh ==
    \A n \in refreshed :
      /\ automation[n].health = "healthy" => automation[n].age < Delay + Ttl
      /\ automation[n].health = "recovering" =>
           automation[n].age < Delay + Ttl + Hold

(* As long as a node runs, the values it offers never come from an older   *)
(* term than those it offered or withdrew before, whatever was lost, late   *)
(* or reconfigured in between.                                             *)
AuthorityForward ==
    [][\A n \in Node :
         boot'[n] = boot[n] /\ automation'[n].health # "unavailable"
           => automation'[n].term >= automation[n].term]_vars

(* A lower sequence of the same boot of the Leader never replaces a state   *)
(* accepted from it (update_remote, FusionSnapshotCache::store): between    *)
(* two ticks, the values of one origin only get younger.                   *)
NoRollback ==
    [][\/ Tick
       \/ \A n \in Node :
            automation[n].origin # NoOrigin
            /\ automation'[n].origin = automation[n].origin
              => automation'[n].age <= automation[n].age]_vars

(* When the Group has settled and the network delivers, every member ends  *)
(* up with healthy values of the Leader and the term it has settled on.    *)
Recovers ==
    <>[](calm => \A n \in Node :
                   /\ automation[n].health = "healthy"
                   /\ automation[n].leader = group[n].leader
                   /\ automation[n].term = group[n].term)

=============================================================================
