-------------------- MODULE ObservationDelivery_proofs --------------------
(***************************************************************************)
(* What the fusion of a Leader gets from the members of its Group is fresh *)
(* and in order, and a member that keeps to its rate is not refused: for   *)
(* any members, times, restarts, copies, poses and interruptions.          *)
(***************************************************************************)
EXTENDS ObservationDelivery, FiniteSetTheorems, TLAPS

-----------------------------------------------------------------------------
(* Types and ages                                                          *)

Limiter == [count : 0..Burst, since : 0..Window, wrapped : BOOLEAN]
Source == [boot : Nat, sent : 0..Delay + 1]
Offered == [boot : Nat, born : 0..Horizon, left : 1..Ttl, pose : Nat]
Runtime == [state : {"stopped", "paused", "active"}, tracks : Nat,
            scope : Nat, held : 0..HeldLimit]
Budget == [restarts : Nat, poses : Nat, copies : Nat, wraps : Nat,
           stops : Nat, seen : SUBSET {"copy", "wrap"}]

(* The types, and two relations of ages that they need: an observation is  *)
(* sent while it lives, and its life in the inbox tells when it was sent.  *)
SenderTypes ==
  /\ boot \in [Sender -> Nat]
  /\ down \in [Sender -> 0..Down]
  /\ sensed \in [Sender -> 0..Ttl]
  /\ wait \in [Sender -> 0..1]
PoseTypes ==
  {pose, device, own} \subseteq [Node -> Nat] /\ known \in [Sender -> Nat]
NetTypes ==
  /\ net \subseteq Packet
  /\ \A p \in net : p.sent <= p.born /\ p.born - p.sent < Ttl
ReceiverTypes ==
  /\ limiter \in [Sender -> Limiter]
  /\ last \in [Sender -> Source]
  /\ inbox \in [Sender -> {None} \cup Offered]
  /\ SourceFresh
FusionTypes ==
  /\ fused \in [Sender -> 0..Horizon]
  /\ runtime \in Runtime
  /\ ran \in BOOLEAN
OtherTypes ==
  /\ refused \in BOOLEAN /\ calm \in BOOLEAN
  /\ budget \in Budget

TypeInv ==
  /\ SenderTypes /\ PoseTypes /\ NetTypes /\ ReceiverTypes
  /\ FusionTypes /\ OtherTypes

LEMMA Types == TypeInv => TypeOK /\ SourceFresh
BY DEF TypeInv, TypeOK, SourceFresh, SenderTypes, PoseTypes, NetTypes,
       ReceiverTypes, FusionTypes, OtherTypes, Limiter, Source, Offered,
       Runtime, Budget

LEMMA Constants ==
  /\ Ttl \in Nat \ {0} /\ Window \in Nat \ {0} /\ Burst \in Nat \ {0}
  /\ Hold \in Nat \ {0} /\ Down \in Nat \ {0} /\ Delay \in Nat
  /\ Horizon = Ttl + Delay /\ HeldLimit = Hold + 2
BY DeliveryAssumption DEF Horizon, HeldLimit

LEMMA PacketType ==
  ASSUME TypeOK, NEW p \in net
  PROVE  /\ p \in Packet /\ p.from \in Sender /\ p.boot \in Nat
         /\ p.sent \in 0..Delay /\ p.born \in 0..Horizon /\ p.pose \in Nat
BY DEF TypeOK, Packet

LEMMA SampleType ==
  ASSUME TypeInv, NEW p \in net
  PROVE  /\ Sample(p) \in Offered
         /\ Sample(p).born = p.born
         /\ Sample(p).born <= Ttl - Sample(p).left + Delay
<1>1. /\ p.boot \in Nat /\ p.sent \in 0..Delay /\ p.born \in 0..Horizon
      /\ p.pose \in Nat /\ p.sent <= p.born /\ p.born - p.sent < Ttl
  BY Types, PacketType DEF TypeInv, NetTypes
<1>2. Ttl - (p.born - p.sent) \in 1..Ttl
  BY <1>1, Constants
<1>3. Sample(p).born <= Ttl - Sample(p).left + Delay
  BY <1>1, <1>2, Constants DEF Sample
<1> QED BY <1>1, <1>2, <1>3 DEF Sample, Offered

LEMMA OlderType ==
  ASSUME NEW x \in Offered, x.born <= Ttl - x.left + Delay, x # None,
         OlderSample(x) # None
  PROVE  /\ OlderSample(x) \in Offered
         /\ OlderSample(x).born = x.born + 1
         /\ OlderSample(x).born <= Ttl - OlderSample(x).left + Delay
<1>1. OlderSample(x) = [x EXCEPT !.left = @ - 1, !.born = @ + 1]
      /\ x.left # 1
  BY DEF OlderSample
<1>2. x.left - 1 \in 1..Ttl /\ x.born + 1 \in 0..Horizon
  BY <1>1, Constants DEF Offered
<1>3. /\ OlderSample(x) \in Offered
      /\ OlderSample(x).born = x.born + 1 /\ OlderSample(x).left = x.left - 1
  BY <1>1, <1>2 DEF Offered
<1>4. x.born + 1 <= Ttl - (x.left - 1) + Delay
  BY Constants DEF Offered
<1> QED BY <1>3, <1>4

(* A packet that the limiter lets through is counted within its burst.     *)
LEMMA CountedType ==
  ASSUME NEW w \in Limiter
  PROVE  (IF Fits(w) THEN Counted(w) ELSE w) \in Limiter
<1>1. 0 \in 0..Window /\ 1 \in 0..Burst
  BY Constants
<1>2. CASE w.count = 0 \/ w.since >= Window
  BY <1>1, <1>2 DEF Counted, Limiter
<1>3. CASE ~(w.count = 0 \/ w.since >= Window)
  <2>1. Fits(w) => w.count + 1 \in 0..Burst
    BY <1>3, Constants DEF Fits, Limiter
  <2> QED BY <1>3, <2>1 DEF Counted, Limiter
<1> QED BY <1>2, <1>3

LEMMA RuntimeType ==
  ASSUME NEW r \in Runtime, TypeOK
  PROVE  /\ Paused(r) \in Runtime
         /\ InScope(r) \in Runtime
         /\ InScope(r).scope = own[Leader] /\ own[Leader] \in Nat
         /\ Stopped \in Runtime
<1>1. own[Leader] \in Nat
  BY DEF TypeOK, Node
<1>2. Paused(r) \in Runtime
  <2>1. /\ (IF r.held > Hold + 1 THEN 0 ELSE r.tracks) \in Nat
        /\ (IF r.held = 0 THEN 1 ELSE r.held) \in 0..HeldLimit
    BY Constants DEF Runtime
  <2> QED BY <2>1 DEF Paused, Runtime
<1>3. InScope(r) \in Runtime /\ InScope(r).scope = own[Leader]
  BY <1>1 DEF InScope, Runtime
<1>4. Stopped \in Runtime
  BY Constants DEF Stopped, Runtime
<1> QED BY <1>1, <1>2, <1>3, <1>4

LEMMA BudgetType ==
  ASSUME NEW b \in Budget
  PROVE  /\ b.restarts > 0 => [b EXCEPT !.restarts = @ - 1] \in Budget
         /\ b.poses > 0 => [b EXCEPT !.poses = @ - 1] \in Budget
         /\ b.stops > 0 => [b EXCEPT !.stops = @ - 1] \in Budget
         /\ b.copies > 0 =>
              [b EXCEPT !.copies = @ - 1, !.seen = @ \cup {"copy"}] \in Budget
         /\ b.wraps > 0 =>
              [b EXCEPT !.wraps = @ - 1, !.seen = @ \cup {"wrap"}] \in Budget
<1>1. /\ b.seen \cup {"copy"} \in SUBSET {"copy", "wrap"}
      /\ b.seen \cup {"wrap"} \in SUBSET {"copy", "wrap"}
  BY DEF Budget
<1>2. \A n \in Nat : n > 0 => n - 1 \in Nat
  OBVIOUS
<1> QED BY <1>1, <1>2 DEF Budget

LEMMA InitType == Init => TypeInv
<1> SUFFICES ASSUME Init PROVE TypeInv
  OBVIOUS
<1>1. NoWindow \in Limiter /\ NoSource \in Source /\ Stopped \in Runtime
  BY Constants DEF NoWindow, Limiter, NoSource, Source, Stopped, Runtime
<1>2. /\ boot \in [Sender -> Nat] /\ down \in [Sender -> 0..Down]
      /\ sensed \in [Sender -> 0..Ttl] /\ wait \in [Sender -> 0..1]
      /\ known \in [Sender -> Nat] /\ fused \in [Sender -> 0..Horizon]
  BY Constants DEF Init
<1>3. {pose, device, own} \subseteq [Node -> Nat]
  BY DEF Init
<1>4. /\ limiter \in [Sender -> Limiter] /\ last \in [Sender -> Source]
      /\ runtime \in Runtime
  BY <1>1 DEF Init
<1>5. budget \in Budget
  BY DeliveryAssumption DEF Init, Budget
<1>6. /\ net = {} /\ inbox \in [Sender -> {None} \cup Offered]
      /\ \A s \in Sender : inbox[s] = None
      /\ {ran, refused, calm} \subseteq BOOLEAN
  BY DEF Init
<1> QED BY <1>2, <1>3, <1>4, <1>5, <1>6
        DEF TypeInv, SenderTypes, PoseTypes, NetTypes, ReceiverTypes,
            FusionTypes, OtherTypes, SourceFresh

(* What the inbox of a sender holds                                        *)
LEMMA OfferedType ==
  ASSUME TypeInv, NEW s \in Sender, inbox[s] # None
  PROVE  /\ inbox[s] \in Offered
         /\ inbox[s].born \in 0..Horizon
         /\ inbox[s].born <= Ttl - inbox[s].left + Delay
BY DEF TypeInv, ReceiverTypes, SourceFresh, Offered

LEMMA TypesStand ==
  ASSUME TypeInv
  PROVE  /\ UNCHANGED senders => SenderTypes'
         /\ UNCHANGED poses => PoseTypes'
         /\ UNCHANGED net => NetTypes'
         /\ UNCHANGED receiver => ReceiverTypes'
         /\ UNCHANGED fusion => FusionTypes'
         /\ UNCHANGED <<refused, calm, budget>> => OtherTypes'
BY DEF TypeInv, senders, poses, receiver, fusion, SenderTypes, PoseTypes,
       NetTypes, SourceFresh, ReceiverTypes, FusionTypes, OtherTypes

LEMMA SenderType ==
  ASSUME TypeInv, NEW s \in Sender,
         \/ Sense(s) \/ Restart(s) \/ AdoptKnown(s)
         \/ \E eligible \in BOOLEAN : SendCycle(s, eligible)
  PROVE  TypeInv'
<1> USE TypesStand
<1>1. /\ SenderTypes /\ PoseTypes /\ NetTypes /\ OtherTypes
      /\ own[s] \in Nat /\ pose[s] \in Nat
  BY DEF TypeInv, PoseTypes, Node
<1>2. CASE Sense(s)
  <2>1. SenderTypes'
    BY <1>1, <1>2, Constants DEF SenderTypes, Sense
  <2> QED BY <1>2, <2>1 DEF TypeInv, Sense
<1>3. CASE Restart(s)
  <2>1. SenderTypes'
    BY <1>1, <1>3, Constants DEF SenderTypes, Restart
  <2>2. OtherTypes'
    BY <1>1, <1>3, BudgetType DEF OtherTypes, Restart
  <2> QED BY <1>3, <2>1, <2>2 DEF TypeInv, Restart
<1>4. CASE AdoptKnown(s)
  <2>1. PoseTypes'
    BY <1>1, <1>4 DEF PoseTypes, AdoptKnown
  <2> QED BY <1>4, <2>1 DEF TypeInv, AdoptKnown
<1>5. ASSUME NEW eligible \in BOOLEAN, SendCycle(s, eligible)
      PROVE  TypeInv'
  <2>1. SenderTypes'
    BY <1>1, <1>5 DEF SenderTypes, SendCycle
  <2>2. Sendable(s) =>
          /\ Observation(s) \in Packet
          /\ Observation(s).sent = 0 /\ Observation(s).born = sensed[s]
          /\ sensed[s] \in 0..Ttl - 1
    <3>1. Sendable(s) => sensed[s] \in 0..Ttl - 1
      BY <1>1, Constants DEF SenderTypes, Sendable
    <3>2. boot[s] \in Nat /\ 0 \in 0..Delay /\ 0..Ttl - 1 \subseteq 0..Horizon
      BY <1>1, Constants DEF SenderTypes
    <3> QED BY <1>1, <3>1, <3>2 DEF Observation, Packet
  <2>3. NetTypes'
    BY <1>1, <1>5, <2>2, Constants DEF NetTypes, SendCycle
  <2> QED BY <1>5, <2>1, <2>3 DEF TypeInv, SendCycle
<1> QED BY <1>2, <1>3, <1>4, <1>5

LEMMA ReceiveType ==
  ASSUME TypeInv, NEW p \in net, NEW member \in BOOLEAN, NEW again \in BOOLEAN,
         Receive(p, member, again)
  PROVE  TypeInv'
<1> USE TypesStand
<1>1. /\ NetTypes /\ ReceiverTypes /\ OtherTypes /\ p \in Packet
      /\ p.from \in Sender /\ p.boot \in Nat /\ p.sent \in 0..Delay
  BY Types, PacketType DEF TypeInv
<1>2. NetTypes'
  BY <1>1 DEF NetTypes, Receive
<1>3. OtherTypes'
  <2>1. refused' \in BOOLEAN
    BY DEF Receive, Fits
  <2>2. UNCHANGED calm
    BY DEF Receive
  <2>3. budget' \in Budget
    BY <1>1, BudgetType DEF OtherTypes, Receive
  <2> QED BY <1>1, <2>1, <2>2, <2>3 DEF OtherTypes
<1>4. limiter' \in [Sender -> Limiter]
  <2>1. limiter[p.from] \in Limiter
    BY <1>1 DEF ReceiverTypes
  <2>2. (IF Fits(limiter[p.from]) THEN Counted(limiter[p.from])
         ELSE limiter[p.from]) \in Limiter
    BY <2>1, CountedType
  <2> QED BY <1>1, <2>2 DEF ReceiverTypes, Receive
<1>5. ReceiverTypes'
  <2>1. CASE UNCHANGED <<last, inbox>>
    BY <1>1, <1>4, <2>1 DEF ReceiverTypes, SourceFresh
  <2>2. CASE /\ last' = [last EXCEPT ![p.from] = [boot |-> p.boot,
                                                  sent |-> p.sent]]
             /\ inbox' = [inbox EXCEPT ![p.from] = Sample(p)]
    <3>1. [boot |-> p.boot, sent |-> p.sent] \in Source
      BY <1>1, Constants DEF Source
    <3>2. last' \in [Sender -> Source]
      BY <1>1, <2>2, <3>1 DEF ReceiverTypes
    <3>3. /\ inbox' \in [Sender -> {None} \cup Offered]
          /\ \A s \in Sender : inbox'[s] = inbox[s] \/ inbox'[s] = Sample(p)
      BY <1>1, <2>2, SampleType DEF ReceiverTypes
    <3> QED BY <1>1, <1>4, <3>2, <3>3, SampleType DEF ReceiverTypes, SourceFresh
  <2> QED BY <2>1, <2>2 DEF Receive
<1> QED BY <1>2, <1>3, <1>5 DEF TypeInv, Receive

LEMMA FusionType ==
  ASSUME TypeInv,
         \/ HardStop \/ MissPose \/ MissGroup \/ FindNoSource
         \/ \E local, unchanged \in BOOLEAN : Fuse(local, unchanged)
  PROVE  TypeInv'
<1> USE TypesStand
<1>1. /\ runtime \in Runtime /\ fused \in [Sender -> 0..Horizon] /\ OtherTypes
  BY DEF TypeInv, FusionTypes
<1>2. /\ Paused(runtime) \in Runtime /\ InScope(runtime) \in Runtime
      /\ own[Leader] \in Nat /\ Stopped \in Runtime
  BY <1>1, Types, RuntimeType
<1>3. Paused(InScope(runtime)) \in Runtime
  BY <1>2, Types, RuntimeType
<1>4. CASE HardStop
  <2>1. FusionTypes' /\ OtherTypes'
    BY <1>1, <1>2, <1>4, BudgetType DEF HardStop, FusionTypes, OtherTypes
  <2> QED BY <1>4, <2>1 DEF TypeInv, HardStop
<1>5. CASE MissPose
  <2>1. FusionTypes'
    BY <1>1, <1>2, <1>5 DEF MissPose, FusionTypes
  <2> QED BY <1>5, <2>1 DEF TypeInv, MissPose
<1>6. CASE MissGroup
  <2>1. FusionTypes' /\ OtherTypes'
    BY <1>1, <1>2, <1>6, BudgetType DEF MissGroup, FusionTypes, OtherTypes
  <2> QED BY <1>6, <2>1 DEF TypeInv, MissGroup
<1>7. CASE FindNoSource
  <2>1. FusionTypes'
    BY <1>1, <1>3, <1>7 DEF FindNoSource, FusionTypes
  <2> QED BY <1>7, <2>1 DEF TypeInv, FindNoSource
<1>8. ASSUME NEW local \in BOOLEAN, NEW unchanged \in BOOLEAN,
             Fuse(local, unchanged)
      PROVE  TypeInv'
  <2>1. runtime' \in Runtime
    <3> DEFINE r == InScope(runtime)
    <3>1. r \in Runtime
      BY <1>2
    <3>2. runtime' = [r EXCEPT !.state = "active", !.held = 0,
                               !.tracks = IF @ = 0 THEN own[Leader] ELSE @]
      BY <1>8 DEF Fuse
    <3>3. 0 \in 0..HeldLimit
          /\ (IF r.tracks = 0 THEN own[Leader] ELSE r.tracks) \in Nat
      BY <1>2, <3>1, Constants DEF Runtime
    <3> HIDE DEF r
    <3> QED BY <3>1, <3>2, <3>3 DEF Runtime
  <2>2. fused' \in [Sender -> 0..Horizon]
    <3>1. \A s \in Usable : s \in Sender /\ inbox[s].born \in 0..Horizon
      BY OfferedType DEF Usable
    <3> QED BY <1>1, <1>8, <3>1 DEF Fuse
  <2> QED BY <1>8, <2>1, <2>2 DEF TypeInv, Fuse, FusionTypes
<1> QED BY <1>4, <1>5, <1>6, <1>7, <1>8

LEMMA PoseType ==
  ASSUME TypeInv, NEW n \in Node, Commit(n) \/ AdoptDevice(n) \/ AdoptOwn(n)
  PROVE  TypeInv'
<1> USE TypesStand
<1>1. /\ pose \in [Node -> Nat] /\ device \in [Node -> Nat]
      /\ own \in [Node -> Nat] /\ known \in [Sender -> Nat] /\ OtherTypes
  BY DEF TypeInv, PoseTypes
<1>2. CASE Commit(n)
  <2>1. PoseTypes'
    BY <1>1, <1>2 DEF Commit, PoseTypes
  <2>2. OtherTypes'
    BY <1>1, <1>2, BudgetType DEF Commit, OtherTypes
  <2> QED BY <1>2, <2>1, <2>2 DEF TypeInv, Commit
<1>3. CASE AdoptDevice(n) \/ AdoptOwn(n)
  <2>1. PoseTypes'
    BY <1>1, <1>3 DEF AdoptDevice, AdoptOwn, PoseTypes
  <2> QED BY <1>3, <2>1 DEF TypeInv, AdoptDevice, AdoptOwn
<1> QED BY <1>2, <1>3

LEMMA TickType ==
  ASSUME TypeInv, Tick
  PROVE  TypeInv'
<1> USE TypesStand
<1>1. SenderTypes'
  <2>1. /\ down \in [Sender -> 0..Down] /\ wait \in [Sender -> 0..1]
        /\ sensed \in [Sender -> 0..Ttl]
    BY DEF TypeInv, SenderTypes
  <2>2. \A s \in Sender :
          /\ (IF Running(s) THEN 0 ELSE down[s] - 1) \in 0..Down
          /\ (IF wait[s] = 0 THEN 0 ELSE wait[s] - 1) \in 0..1
          /\ Smaller(sensed[s] + 1, Ttl) \in 0..Ttl
    BY <2>1, Constants DEF Running, Smaller
  <2>3. boot' \in [Sender -> Nat]
    BY DEF TypeInv, SenderTypes, Tick
  <2> QED BY <2>2, <2>3 DEF Tick, SenderTypes
<1>2. NetTypes'
  <2> SUFFICES ASSUME NEW p \in net
               PROVE  LET q == [p EXCEPT !.sent = @ + 1, !.born = @ + 1]
                      IN  /\ q \in Packet /\ q.sent <= q.born
                          /\ q.born - q.sent < Ttl
    BY DEF NetTypes, Tick
  <2>1. /\ p \in Packet /\ p.sent \in 0..Delay /\ p.born \in 0..Horizon
        /\ p.sent <= p.born /\ p.born - p.sent < Ttl /\ p.sent < Delay
    BY Types, PacketType DEF TypeInv, NetTypes, Tick
  <2>2. p.sent + 1 \in 0..Delay /\ p.born + 1 \in 0..Horizon
    BY <2>1, Constants
  <2> DEFINE q == [p EXCEPT !.sent = @ + 1, !.born = @ + 1]
  <2>3. /\ q \in Packet /\ q.sent = p.sent + 1 /\ q.born = p.born + 1
    BY <2>1, <2>2 DEF Packet
  <2> HIDE DEF q
  <2>4. q.sent <= q.born /\ q.born - q.sent < Ttl
    BY <2>1, <2>3, Constants
  <2> QED BY <2>3, <2>4 DEF q
<1>3. ReceiverTypes'
  <2>1. limiter' \in [Sender -> Limiter]
    <3>1. ASSUME NEW w \in Limiter
          PROVE  (IF w.count = 0 THEN w
                  ELSE [w EXCEPT !.since = Smaller(@ + 1, Window)]) \in Limiter
      <4>1. Smaller(w.since + 1, Window) \in 0..Window
        BY Constants DEF Smaller, Limiter
      <4> QED BY <4>1 DEF Limiter
    <3> QED BY <3>1 DEF TypeInv, ReceiverTypes, Tick
  <2>2. last' \in [Sender -> Source]
    <3>1. ASSUME NEW x \in Source
          PROVE  [x EXCEPT !.sent = Smaller(@ + 1, Delay + 1)] \in Source
      <4>1. Smaller(x.sent + 1, Delay + 1) \in 0..Delay + 1
        BY Constants DEF Smaller, Source
      <4> QED BY <4>1 DEF Source
    <3> QED BY <3>1 DEF TypeInv, ReceiverTypes, Tick
  <2>3. ASSUME NEW s \in Sender, inbox'[s] # None
        PROVE  /\ inbox'[s] \in Offered
               /\ inbox'[s].born <= Ttl - inbox'[s].left + Delay
    <3>1. inbox'[s] = OlderSample(inbox[s]) /\ inbox[s] # None
      BY <2>3 DEF Tick, OlderSample
    <3> QED BY <2>3, <3>1, OfferedType, OlderType
  <2>4. inbox' \in [Sender -> {None} \cup Offered]
    BY <2>3 DEF Tick
  <2> QED BY <2>1, <2>2, <2>3, <2>4 DEF ReceiverTypes, SourceFresh
<1>4. FusionTypes'
  <2>1. fused' \in [Sender -> 0..Horizon]
    <3>1. \A age \in 0..Horizon : Older(age) \in 0..Horizon
      BY Constants DEF Older, Smaller
    <3> QED BY <3>1 DEF TypeInv, FusionTypes, Tick
  <2>2. runtime' \in Runtime
    <3>1. runtime \in Runtime
      BY DEF TypeInv, FusionTypes
    <3>2. (IF runtime.held = 0 THEN 0
           ELSE Smaller(runtime.held + 1, HeldLimit)) \in 0..HeldLimit
      BY <3>1, Constants DEF Runtime, Smaller
    <3> QED BY <3>1, <3>2 DEF Tick, Runtime
  <2> QED BY <2>1, <2>2 DEF FusionTypes, Tick
<1> QED BY <1>1, <1>2, <1>3, <1>4 DEF TypeInv, Tick

LEMMA OtherType ==
  ASSUME TypeInv,
         \/ RestartLeader \/ Wrap \/ Settle \/ \E p \in net : Lose(p)
  PROVE  TypeInv'
<1> USE TypesStand
<1>1. OtherTypes
  BY DEF TypeInv
<1>2. CASE RestartLeader
  <2>1. NoWindow \in Limiter /\ NoSource \in Source /\ Stopped \in Runtime
    BY Constants DEF NoWindow, Limiter, NoSource, Source, Stopped, Runtime
  <2>2. ReceiverTypes'
    BY <1>2, <2>1 DEF ReceiverTypes, RestartLeader, SourceFresh
  <2>3. FusionTypes'
    BY <1>2, <2>1 DEF TypeInv, FusionTypes, RestartLeader
  <2>4. NetTypes'
    BY <1>2 DEF NetTypes, RestartLeader
  <2>5. OtherTypes'
    BY <1>1, <1>2, BudgetType DEF OtherTypes, RestartLeader
  <2> QED BY <1>2, <2>2, <2>3, <2>4, <2>5 DEF TypeInv, RestartLeader
<1>3. CASE Wrap
  <2>1. ReceiverTypes'
    <3>1. \A w \in Limiter : [w EXCEPT !.wrapped = w.count # 0] \in Limiter
      BY DEF Limiter
    <3> QED BY <1>3, <3>1 DEF TypeInv, ReceiverTypes, Wrap, SourceFresh
  <2>2. OtherTypes'
    BY <1>1, <1>3, BudgetType DEF OtherTypes, Wrap
  <2> QED BY <1>3, <2>1, <2>2 DEF TypeInv, Wrap
<1>4. CASE Settle
  <2>1. OtherTypes'
    BY <1>1, <1>4 DEF OtherTypes, Settle
  <2> QED BY <1>4, <2>1 DEF TypeInv, Settle
<1>5. CASE \E p \in net : Lose(p)
  <2>1. NetTypes'
    BY <1>5 DEF TypeInv, NetTypes, Lose
  <2> QED BY <1>5, <2>1 DEF TypeInv, Lose
<1> QED BY <1>2, <1>3, <1>4, <1>5

LEMMA StepType == TypeInv /\ [Next]_vars => TypeInv'
<1> SUFFICES ASSUME TypeInv, [Next]_vars PROVE TypeInv'
  OBVIOUS
<1>1. CASE UNCHANGED vars
  BY <1>1, TypesStand DEF TypeInv, vars
<1>2. CASE Next
  BY <1>2, SenderType, ReceiveType, FusionType, PoseType, TickType, OtherType
     DEF Next
<1> QED BY <1>1, <1>2

LEMMA AlwaysTyped == Spec => []TypeInv
BY InitType, StepType, PTL DEF Spec

(* Ages, windows and lives stay in their ranges.                           *)
THEOREM DeliveryTyped == Spec => []TypeOK
BY AlwaysTyped, Types, PTL

(* The fusion never gets an observation older than its life and one delay. *)
THEOREM SourcesFresh == Spec => []SourceFresh
BY AlwaysTyped, Types, PTL

-----------------------------------------------------------------------------
(* Order                                                                   *)

(* Ages only compare what was made when: what a sender senses now is no    *)
(* older than what was ever sent, offered or fused of it.                  *)
SensedLatest ==
  \A s \in Sender : sensed[s] < Ttl =>
    /\ sensed[s] <= fused[s]
    /\ inbox[s] # None => sensed[s] <= inbox[s].born
    /\ \A p \in net : p.from = s => sensed[s] <= p.born

(* What may still be admitted is no older than what was offered or fused.  *)
AdmissibleLatest ==
  \A p \in net : ~DuplicateOrReordered(p) =>
    /\ p.born <= fused[p.from]
    /\ inbox[p.from] # None => p.born <= inbox[p.from].born

(* The packets of an earlier boot are older than the restart, so there are *)
(* none of two boots.                                                      *)
OneBoot ==
  \A p \in net :
    /\ p.boot = boot[p.from] \/ p.sent + down[p.from] >= Down
    /\ \A q \in net : p.from = q.from => p.boot = q.boot

SentInOrder ==
  \A p, q \in net : p.from = q.from /\ p.sent < q.sent => p.born <= q.born

OrderInv ==
  InOrder /\ SensedLatest /\ AdmissibleLatest /\ OneBoot /\ SentInOrder

ordered == <<net, last, inbox, fused, boot, down, sensed>>

LEMMA OrderStands ==
  ASSUME OrderInv, UNCHANGED ordered
  PROVE  OrderInv'
BY DEF OrderInv, ordered, InOrder, SensedLatest, AdmissibleLatest, OneBoot,
       SentInOrder, DuplicateOrReordered

LEMMA SenseOrdered ==
  ASSUME TypeInv, OrderInv, NEW s \in Sender, Sense(s)
  PROVE  OrderInv'
<1>1. /\ sensed' = [sensed EXCEPT ![s] = 0] /\ sensed \in [Sender -> 0..Ttl]
      /\ UNCHANGED <<net, last, inbox, fused, boot, down>>
  BY DEF Sense, receiver, fusion, TypeInv, SenderTypes
<1>2. InOrder' /\ AdmissibleLatest' /\ OneBoot' /\ SentInOrder'
  BY <1>1 DEF OrderInv, InOrder, AdmissibleLatest, OneBoot, SentInOrder,
              DuplicateOrReordered
<1>3. SensedLatest'
  <2> SUFFICES ASSUME NEW r \in Sender, sensed'[r] < Ttl
               PROVE  /\ sensed'[r] <= fused[r]
                      /\ inbox[r] # None => sensed'[r] <= inbox[r].born
                      /\ \A p \in net : p.from = r => sensed'[r] <= p.born
    BY <1>1 DEF SensedLatest
  <2>1. CASE r = s
    <3>1. sensed'[r] = 0 /\ fused[r] >= 0
      BY <1>1, <2>1, Constants DEF TypeInv, FusionTypes
    <3>2. inbox[r] # None => inbox[r].born >= 0
      BY OfferedType, Constants
    <3>3. \A p \in net : p.born >= 0
      BY Types, PacketType, Constants
    <3> QED BY <3>1, <3>2, <3>3
  <2>2. CASE r # s
    BY <1>1, <2>2 DEF OrderInv, SensedLatest
  <2> QED BY <2>1, <2>2
<1> QED BY <1>2, <1>3 DEF OrderInv

LEMMA SendOrdered ==
  ASSUME Delay < Down, TypeInv, OrderInv, NEW s \in Sender,
         NEW eligible \in BOOLEAN, SendCycle(s, eligible)
  PROVE  OrderInv'
<1>1. UNCHANGED <<last, inbox, fused, boot, down, sensed>>
  BY DEF SendCycle, receiver, fusion
<1>2. CASE UNCHANGED net
  BY <1>1, <1>2, OrderStands DEF ordered
<1>3. CASE Sendable(s) /\ net' = net \cup {Observation(s)}
  <2> DEFINE o == Observation(s)
  <2>1. /\ o.from = s /\ o.boot = boot[s] /\ o.sent = 0 /\ o.born = sensed[s]
        /\ sensed[s] < Ttl /\ down[s] = 0
    BY <1>3 DEF Observation, Sendable, SendCycle, Running
  <2> HIDE DEF o
  <2>2. ASSUME NEW p \in net
        PROVE  /\ p.from \in Sender /\ p.sent \in 0..Delay
               /\ p.born \in 0..Horizon
    BY Types, PacketType
  <2>3. ASSUME NEW p \in net, p.from = s
        PROVE  p.boot = boot[s]
    BY <2>1, <2>2, <2>3, Constants DEF OrderInv, OneBoot
  <2>4. sensed[s] \in 0..Ttl
    BY DEF TypeInv, SenderTypes
  <2>5. net' = net \cup {o}
    BY <1>3 DEF o
  <2>6. InOrder' /\ SensedLatest'
    BY <1>1, <2>1, <2>4, <2>5 DEF OrderInv, InOrder, SensedLatest
  <2>7. AdmissibleLatest'
    BY <1>1, <2>1, <2>5
       DEF OrderInv, SensedLatest, AdmissibleLatest, DuplicateOrReordered
  <2>8. OneBoot'
    BY <1>1, <2>1, <2>3, <2>5 DEF OrderInv, OneBoot
  <2>9. SentInOrder'
    <3> SUFFICES ASSUME NEW p \in net', NEW q \in net',
                        p.from = q.from, p.sent < q.sent
                 PROVE  p.born <= q.born
      BY DEF SentInOrder
    <3>1. q # o
      BY <2>1, <2>2, <2>5
    <3>2. CASE p = o
      BY <2>1, <2>5, <3>1, <3>2 DEF OrderInv, SensedLatest
    <3>3. CASE p # o
      BY <2>5, <3>1, <3>3 DEF OrderInv, SentInOrder
    <3> QED BY <3>2, <3>3
  <2> QED BY <2>6, <2>7, <2>8, <2>9 DEF OrderInv
<1> QED BY <1>2, <1>3 DEF SendCycle

LEMMA RestartOrdered ==
  ASSUME Delay < Down, TypeInv, OrderInv, NEW s \in Sender, Restart(s)
  PROVE  OrderInv'
<1>1. /\ UNCHANGED <<net, last, inbox, fused>>
      /\ boot' = [boot EXCEPT ![s] = @ + 1]
      /\ down' = [down EXCEPT ![s] = Down]
      /\ sensed' = [sensed EXCEPT ![s] = Ttl]
  BY DEF Restart, receiver, fusion
<1>2. InOrder' /\ AdmissibleLatest' /\ SentInOrder'
  BY <1>1 DEF OrderInv, InOrder, AdmissibleLatest, SentInOrder,
              DuplicateOrReordered
<1>3. SensedLatest'
  BY <1>1, Constants DEF OrderInv, SensedLatest, TypeInv, SenderTypes
<1>4. OneBoot'
  <2> SUFFICES ASSUME NEW p \in net
               PROVE  p.boot = boot'[p.from] \/ p.sent + down'[p.from] >= Down
    BY <1>1 DEF OrderInv, OneBoot
  <2>1. p.from \in Sender /\ p.sent \in 0..Delay
    BY Types, PacketType
  <2> QED BY <1>1, <2>1, Constants
          DEF OrderInv, OneBoot, TypeInv, SenderTypes
<1> QED BY <1>2, <1>3, <1>4 DEF OrderInv

LEMMA ReceiveOrdered ==
  ASSUME TypeInv, OrderInv, NEW p \in net,
         NEW member \in BOOLEAN, NEW again \in BOOLEAN,
         Receive(p, member, again)
  PROVE  OrderInv'
<1>1. UNCHANGED <<fused, boot, down, sensed>> /\ net' \subseteq net
  BY DEF Receive, senders, fusion
<1>2. CASE UNCHANGED <<last, inbox>>
  BY <1>1, <1>2 DEF OrderInv, InOrder, SensedLatest, AdmissibleLatest, OneBoot,
                    SentInOrder, DuplicateOrReordered
<1>3. CASE /\ ~DuplicateOrReordered(p)
           /\ last' = [last EXCEPT ![p.from] = [boot |-> p.boot,
                                                sent |-> p.sent]]
           /\ inbox' = [inbox EXCEPT ![p.from] = Sample(p)]
  <2> DEFINE s == p.from
  <2>1. s \in Sender /\ p.sent \in 0..Delay
    BY Types, PacketType
  <2>2. /\ last'[s] = [boot |-> p.boot, sent |-> p.sent]
        /\ \A r \in Sender \ {s} : last'[r] = last[r]
    BY <1>3, <2>1 DEF TypeInv, ReceiverTypes
  <2>3. \A r \in Sender :
          inbox'[r] # None => \/ r # s /\ inbox'[r] = inbox[r]
                              \/ r = s /\ inbox'[r].born = p.born
    BY <1>3, SampleType DEF TypeInv, ReceiverTypes
  <2>4. p.born <= fused[s]
    BY <1>3 DEF OrderInv, AdmissibleLatest
  <2>5. InOrder'
    BY <1>1, <2>3, <2>4 DEF OrderInv, InOrder
  <2>6. SensedLatest'
    BY <1>1, <2>3 DEF OrderInv, SensedLatest
  <2>7. OneBoot' /\ SentInOrder'
    BY <1>1 DEF OrderInv, OneBoot, SentInOrder
  <2>8. AdmissibleLatest'
    <3> SUFFICES ASSUME NEW q \in net, ~DuplicateOrReordered(q)'
                 PROVE  /\ q.born <= fused[q.from]
                        /\ inbox'[q.from] # None =>
                             q.born <= inbox'[q.from].born
      BY <1>1 DEF AdmissibleLatest
    <3>1. q.from \in Sender /\ q.sent \in 0..Delay
      BY Types, PacketType
    <3>2. CASE q.from # s
      <4>1. ~DuplicateOrReordered(q)
        BY <2>2, <3>1, <3>2 DEF DuplicateOrReordered
      <4> QED BY <2>3, <3>1, <3>2, <4>1 DEF OrderInv, AdmissibleLatest
    <3>3. CASE q.from = s
      <4>1. q.boot = p.boot
        BY <3>3 DEF OrderInv, OneBoot
      <4>2. q.sent < p.sent
        BY <2>1, <2>2, <3>1, <3>3, <4>1 DEF DuplicateOrReordered
      <4>3. q.born <= p.born
        BY <3>3, <4>2 DEF OrderInv, SentInOrder
      <4>4. /\ fused[s] \in 0..Horizon /\ q.born \in 0..Horizon
            /\ p.born \in 0..Horizon /\ Horizon \in Nat
        BY <2>1, Types, PacketType, Constants DEF TypeInv, FusionTypes
      <4> QED BY <2>3, <2>4, <3>1, <3>3, <4>3, <4>4
    <3> QED BY <3>2, <3>3
  <2> QED BY <2>5, <2>6, <2>7, <2>8 DEF OrderInv
<1> QED BY <1>2, <1>3 DEF Receive, Admits

LEMMA ForgetOrdered ==
  ASSUME TypeInv, OrderInv, RestartLeader \/ \E p \in net : Lose(p)
  PROVE  OrderInv'
<1>1. CASE RestartLeader
  <2>1. /\ net' = {} /\ \A s \in Sender : inbox'[s] = None
        /\ UNCHANGED <<fused, sensed>>
    BY <1>1 DEF RestartLeader, senders
  <2> QED BY <2>1 DEF OrderInv, InOrder, SensedLatest, AdmissibleLatest,
                      OneBoot, SentInOrder
<1>2. CASE \E p \in net : Lose(p)
  <2>1. /\ net' \subseteq net
        /\ UNCHANGED <<last, inbox, fused, boot, down, sensed>>
    BY <1>2 DEF Lose, senders, receiver, fusion
  <2> QED BY <2>1 DEF OrderInv, InOrder, SensedLatest, AdmissibleLatest,
                      OneBoot, SentInOrder, DuplicateOrReordered
<1> QED BY <1>1, <1>2

LEMMA FuseOrdered ==
  ASSUME TypeInv, OrderInv, NEW local \in BOOLEAN, NEW unchanged \in BOOLEAN,
         Fuse(local, unchanged)
  PROVE  OrderInv'
<1>1. UNCHANGED <<net, last, inbox, boot, down, sensed>>
  BY DEF Fuse, senders, receiver
<1>2. \A s \in Sender :
        \/ fused'[s] = fused[s]
        \/ fused'[s] = inbox[s].born /\ inbox[s] # None
  BY DEF Fuse, Usable
<1>3. \A s \in Sender : inbox[s] # None => inbox[s].born \in 0..Horizon
  BY OfferedType
<1>4. \A p \in net : p.from \in Sender
  BY Types, PacketType
<1>5. OneBoot' /\ SentInOrder'
  BY <1>1 DEF OrderInv, OneBoot, SentInOrder
<1>6. InOrder'
  BY <1>1, <1>2, <1>3, Constants DEF OrderInv, InOrder
<1>7. SensedLatest'
  BY <1>1, <1>2 DEF OrderInv, SensedLatest
<1>8. AdmissibleLatest'
  BY <1>1, <1>2, <1>4 DEF OrderInv, AdmissibleLatest, DuplicateOrReordered
<1> QED BY <1>5, <1>6, <1>7, <1>8 DEF OrderInv

(* Everything grows older by one, up to where it makes no difference.      *)
LEMMA TickOrdered ==
  ASSUME TypeInv, OrderInv, Tick
  PROVE  OrderInv'
<1> DEFINE older(p) == [p EXCEPT !.sent = @ + 1, !.born = @ + 1]
<1>1. ASSUME NEW q \in net'
      PROVE  \E p \in net :
               /\ q.from = p.from /\ q.boot = p.boot /\ p.from \in Sender
               /\ q.sent = p.sent + 1 /\ q.born = p.born + 1
               /\ p.sent \in 0..Delay - 1 /\ p.born \in 0..Horizon
               /\ q.born \in 0..Horizon
  <2>1. PICK p \in net : q = older(p)
    BY DEF Tick
  <2>2. /\ p \in Packet /\ p.from \in Sender /\ p.sent \in 0..Delay
        /\ p.born \in 0..Horizon /\ p.sent < Delay
    BY Types, PacketType DEF Tick
  <2>3. p.sent <= p.born /\ p.born - p.sent < Ttl
    BY DEF TypeInv, NetTypes
  <2>4. /\ q.from = p.from /\ q.boot = p.boot
        /\ q.sent = p.sent + 1 /\ q.born = p.born + 1
    BY <2>1, <2>2 DEF Packet
  <2>5. p.sent \in 0..Delay - 1 /\ p.born + 1 \in 0..Horizon
    BY <2>2, <2>3, Constants
  <2> QED BY <2>2, <2>4, <2>5
<1>2. ASSUME NEW s \in Sender
      PROVE  /\ fused[s] \in 0..Horizon
             /\ fused'[s] = (IF fused[s] + 1 <= Horizon THEN fused[s] + 1
                                                        ELSE Horizon)
             /\ sensed[s] \in 0..Ttl
             /\ sensed'[s] < Ttl => /\ sensed'[s] = sensed[s] + 1
                                    /\ sensed[s] + 1 \in 0..Ttl - 1
             /\ boot' = boot /\ down[s] \in 0..Down
             /\ down'[s] = IF down[s] = 0 THEN 0 ELSE down[s] - 1
  <2>1. /\ fused[s] \in 0..Horizon /\ sensed[s] \in 0..Ttl /\ boot' = boot
        /\ down[s] \in 0..Down
    BY DEF TypeInv, SenderTypes, FusionTypes, Tick
  <2>2. /\ fused'[s] = Smaller(fused[s] + 1, Horizon)
        /\ sensed'[s] = Smaller(sensed[s] + 1, Ttl)
        /\ down'[s] = IF down[s] = 0 THEN 0 ELSE down[s] - 1
    BY DEF Tick, Older, Running
  <2>3. sensed'[s] < Ttl => /\ sensed'[s] = sensed[s] + 1
                            /\ sensed[s] + 1 \in 0..Ttl - 1
    BY <2>1, <2>2, Constants DEF Smaller
  <2> QED BY <2>1, <2>2, <2>3 DEF Smaller
<1>3. ASSUME NEW s \in Sender, inbox'[s] # None
      PROVE  /\ inbox[s] # None
             /\ inbox[s].born \in 0..Horizon /\ inbox'[s].born \in 0..Horizon
             /\ inbox'[s].born = inbox[s].born + 1
  <2>1. inbox'[s] = OlderSample(inbox[s]) /\ inbox[s] # None
    BY <1>3 DEF Tick, OlderSample
  <2>2. OlderSample(inbox[s]) \in Offered
        /\ OlderSample(inbox[s]).born = inbox[s].born + 1
    BY <1>3, <2>1, OfferedType, OlderType
  <2> QED BY <2>1, <2>2, OfferedType DEF Offered
<1>4. InOrder'
  BY <1>2, <1>3, Constants DEF OrderInv, InOrder
<1>5. SensedLatest'
  <2> SUFFICES ASSUME NEW s \in Sender, sensed'[s] < Ttl
               PROVE  /\ sensed'[s] <= fused'[s]
                      /\ inbox'[s] # None => sensed'[s] <= inbox'[s].born
                      /\ \A q \in net' : q.from = s => sensed'[s] <= q.born
    BY DEF SensedLatest
  <2>1. sensed'[s] = sensed[s] + 1 /\ sensed[s] < Ttl
    BY <1>2, Constants
  <2>2. sensed'[s] <= fused'[s]
    BY <1>2, <2>1, Constants DEF OrderInv, SensedLatest
  <2>3. inbox'[s] # None => sensed'[s] <= inbox'[s].born
    BY <1>2, <1>3, <2>1, Constants DEF OrderInv, SensedLatest
  <2>4. ASSUME NEW q \in net', q.from = s
        PROVE  sensed'[s] <= q.born
    <3>1. PICK p \in net : /\ q.from = p.from /\ q.born = p.born + 1
                           /\ p.born \in 0..Horizon
      BY <1>1
    <3>2. sensed[s] <= p.born
      BY <2>1, <2>4, <3>1 DEF OrderInv, SensedLatest
    <3> QED BY <1>2, <2>1, <3>1, <3>2, Constants
  <2> QED BY <2>2, <2>3, <2>4
<1>6. AdmissibleLatest'
  <2> SUFFICES ASSUME NEW q \in net', ~DuplicateOrReordered(q)'
               PROVE  /\ q.born <= fused'[q.from]
                      /\ inbox'[q.from] # None =>
                           q.born <= inbox'[q.from].born
    BY DEF AdmissibleLatest
  <2>1. PICK p \in net :
          /\ q.from = p.from /\ q.boot = p.boot /\ p.from \in Sender
          /\ q.sent = p.sent + 1 /\ q.born = p.born + 1
          /\ p.sent \in 0..Delay - 1 /\ p.born \in 0..Horizon
          /\ q.born \in 0..Horizon
    BY <1>1
  <2> DEFINE l == last[p.from]
  <2>2. /\ l \in Source /\ last'[p.from].boot = l.boot
        /\ last'[p.from].sent = Smaller(l.sent + 1, Delay + 1)
    BY <2>1 DEF TypeInv, ReceiverTypes, Tick, Source
  <2>3. ~DuplicateOrReordered(p)
    <3>1. l.sent \in 0..Delay + 1
      BY <2>2 DEF Source
    <3>2. p.sent >= l.sent => p.sent + 1 >= Smaller(l.sent + 1, Delay + 1)
      BY <2>1, <3>1, Constants DEF Smaller
    <3> QED BY <2>1, <2>2, <3>2 DEF DuplicateOrReordered
  <2>4. /\ p.born <= fused[p.from]
        /\ inbox[p.from] # None => p.born <= inbox[p.from].born
    BY <2>3 DEF OrderInv, AdmissibleLatest
  <2>5. q.born <= fused'[q.from]
    BY <1>2, <2>1, <2>4, Constants
  <2>6. inbox'[q.from] # None => q.born <= inbox'[q.from].born
    BY <1>3, <2>1, <2>4, Constants
  <2> QED BY <2>5, <2>6
<1>7. OneBoot'
  <2>1. ASSUME NEW q \in net'
        PROVE  q.boot = boot'[q.from] \/ q.sent + down'[q.from] >= Down
    <3>1. PICK p \in net :
            /\ q.from = p.from /\ q.boot = p.boot /\ p.from \in Sender
            /\ q.sent = p.sent + 1 /\ p.sent \in 0..Delay - 1
      BY <1>1
    <3>2. p.boot = boot[p.from] \/ p.sent + down[p.from] >= Down
      BY DEF OrderInv, OneBoot
    <3> QED BY <1>2, <3>1, <3>2, Constants
  <2>2. ASSUME NEW q \in net', NEW r \in net', q.from = r.from
        PROVE  q.boot = r.boot
    BY <1>1, <2>2 DEF OrderInv, OneBoot
  <2> QED BY <2>1, <2>2 DEF OneBoot
<1>8. SentInOrder'
  <2> SUFFICES ASSUME NEW q \in net', NEW r \in net',
                      q.from = r.from, q.sent < r.sent
               PROVE  q.born <= r.born
    BY DEF SentInOrder
  <2>1. PICK p \in net :
          /\ q.from = p.from /\ q.sent = p.sent + 1 /\ q.born = p.born + 1
          /\ p.sent \in 0..Delay - 1 /\ p.born \in 0..Horizon
    BY <1>1
  <2>2. PICK o \in net :
          /\ r.from = o.from /\ r.sent = o.sent + 1 /\ r.born = o.born + 1
          /\ o.sent \in 0..Delay - 1 /\ o.born \in 0..Horizon
    BY <1>1
  <2>3. p.from = o.from /\ p.sent < o.sent
    <3>1. \A m, n \in 0..Delay - 1 : m + 1 < n + 1 => m < n
      BY Constants
    <3> QED BY <2>1, <2>2, <3>1
  <2>4. p.born <= o.born
    BY <2>3 DEF OrderInv, SentInOrder
  <2> QED BY <2>1, <2>2, <2>4, Constants
<1> QED BY <1>4, <1>5, <1>6, <1>7, <1>8 DEF OrderInv

LEMMA StepOrdered ==
  ASSUME Delay < Down
  PROVE  TypeInv /\ OrderInv /\ [Next]_vars => OrderInv'
<1> SUFFICES ASSUME TypeInv, OrderInv, [Next]_vars PROVE OrderInv'
  OBVIOUS
<1>1. CASE UNCHANGED ordered
  BY <1>1, OrderStands
<1>2. CASE \E s \in Sender :
             \/ Sense(s) \/ Restart(s)
             \/ \E eligible \in BOOLEAN : SendCycle(s, eligible)
  BY <1>2, SenseOrdered, RestartOrdered, SendOrdered
<1>3. CASE \/ RestartLeader
           \/ \E p \in net :
                \/ Lose(p)
                \/ \E member, again \in BOOLEAN : Receive(p, member, again)
  BY <1>3, ForgetOrdered, ReceiveOrdered
<1>4. CASE \E local, unchanged \in BOOLEAN : Fuse(local, unchanged)
  BY <1>4, FuseOrdered
<1>5. CASE Tick
  BY <1>5, TickOrdered
<1>6. CASE \/ \E s \in Sender : AdoptKnown(s)
           \/ HardStop \/ MissPose \/ MissGroup \/ FindNoSource
           \/ \E n \in Node : Commit(n) \/ AdoptDevice(n) \/ AdoptOwn(n)
           \/ Wrap \/ Settle
  <2>1. UNCHANGED ordered
    BY <1>6 DEF AdoptKnown, HardStop, MissPose, MissGroup, FindNoSource, Commit,
       AdoptDevice, AdoptOwn, Wrap, Settle, ordered, senders, receiver, fusion
  <2> QED BY <2>1, OrderStands
<1>7. CASE UNCHANGED vars
  BY <1>1, <1>7 DEF vars, ordered, senders, receiver, fusion
<1> QED BY <1>2, <1>3, <1>4, <1>5, <1>6, <1>7 DEF Next

(* A restart takes longer than a packet: then no packet of an earlier boot *)
(* meets one of the present boot, and sequences tell the order.            *)
THEOREM DeliveredInOrder ==
  ASSUME Delay < Down
  PROVE  Spec => []InOrder
<1>1. Init => OrderInv
  BY Constants
     DEF Init, OrderInv, InOrder, SensedLatest, AdmissibleLatest, OneBoot,
         SentInOrder
<1>2. TypeInv /\ OrderInv /\ [Next]_vars => OrderInv'
  BY StepOrdered
<1>3. OrderInv => InOrder
  BY DEF OrderInv
<1> QED BY <1>1, <1>2, <1>3, AlwaysTyped, PTL DEF Spec

-----------------------------------------------------------------------------
(* The scope of the tracks                                                 *)

(* Tracks, if there are any, were made in the last scope, and an active    *)
(* runtime has some.                                                       *)
InLastScope(r) ==
  r.tracks \in {0, r.scope} /\ (r.state = "active" => r.tracks = r.scope)

LEMMA ScopeKept ==
  ASSUME TypeInv, NEW r \in Runtime, InLastScope(r)
  PROVE  /\ InLastScope(Paused(r))
         /\ InScope(r).tracks \in {0, own[Leader]}
         /\ Paused(InScope(r)).tracks \in {0, own[Leader]}
         /\ Paused(InScope(r)).scope = own[Leader]
         /\ Paused(InScope(r)).state = "paused"
<1>1. InLastScope(Paused(r))
  BY DEF InLastScope, Paused, Runtime
<1>2. InScope(r) \in Runtime /\ InScope(r).scope = own[Leader]
  BY Types, RuntimeType
<1>3. InScope(r).tracks \in {0, own[Leader]}
  BY DEF InLastScope, InScope, Runtime
<1> QED BY <1>1, <1>2, <1>3 DEF Paused, Runtime

LEMMA StepScope ==
  TypeInv /\ InLastScope(runtime) /\ [Next]_vars => InLastScope(runtime)'
<1> SUFFICES ASSUME TypeInv, InLastScope(runtime), [Next]_vars
             PROVE  InLastScope(runtime')
  BY DEF InLastScope
<1>1. runtime \in Runtime
  BY DEF TypeInv, FusionTypes
<1>2. CASE RestartLeader \/ HardStop
  BY <1>2 DEF RestartLeader, HardStop, Stopped, InLastScope
<1>3. CASE MissPose \/ MissGroup
  BY <1>1, <1>3, ScopeKept DEF MissPose, MissGroup
<1>4. CASE FindNoSource
  BY <1>1, <1>4, ScopeKept DEF FindNoSource, InLastScope
<1>5. CASE \E local, unchanged \in BOOLEAN : Fuse(local, unchanged)
  <2> DEFINE r == InScope(runtime)
  <2>1. r \in Runtime /\ r.scope = own[Leader] /\ r.tracks \in {0, own[Leader]}
    BY <1>1, Types, RuntimeType, ScopeKept
  <2>2. runtime' = [r EXCEPT !.state = "active", !.held = 0,
                             !.tracks = IF @ = 0 THEN own[Leader] ELSE @]
    BY <1>5 DEF Fuse
  <2> HIDE DEF r
  <2>3. runtime'.tracks = own[Leader] /\ runtime'.scope = own[Leader]
    BY <2>1, <2>2 DEF Runtime
  <2> QED BY <2>3 DEF InLastScope
<1>6. CASE Tick
  <2>1. /\ runtime'.tracks = runtime.tracks /\ runtime'.scope = runtime.scope
        /\ runtime'.state = runtime.state
    BY <1>1, <1>6 DEF Tick, Runtime
  <2> QED BY <2>1 DEF InLastScope
<1>7. CASE UNCHANGED runtime
  BY <1>7
<1>8. CASE \/ \E s \in Sender :
                \/ Sense(s) \/ Restart(s) \/ AdoptKnown(s)
                \/ \E eligible \in BOOLEAN : SendCycle(s, eligible)
           \/ \E p \in net :
                \/ Lose(p)
                \/ \E member, again \in BOOLEAN : Receive(p, member, again)
           \/ \E n \in Node : Commit(n) \/ AdoptDevice(n) \/ AdoptOwn(n)
           \/ Wrap \/ Settle
  BY <1>7, <1>8 DEF Sense, Restart, AdoptKnown, SendCycle, Lose, Receive,
     Commit, AdoptDevice, AdoptOwn, Wrap, Settle, fusion
<1>9. CASE UNCHANGED vars
  BY <1>7, <1>9 DEF vars, fusion
<1> QED BY <1>2, <1>3, <1>4, <1>5, <1>6, <1>8, <1>9 DEF Next

(* Whatever interrupts the fusion and whenever the Leader gets a new pose, *)
(* the tracks that are published belong to the pose of the moment they are *)
(* published for.                                                          *)
THEOREM TracksInScope == Spec => []InScopeTracks
<1>1. Init => InLastScope(runtime)
  BY DEF Init, Stopped, InLastScope
<1>2. InLastScope(runtime) => InScopeTracks
  BY DEF InLastScope, InScopeTracks
<1> QED BY <1>1, <1>2, StepScope, AlwaysTyped, PTL DEF Spec

-----------------------------------------------------------------------------
(* The rate                                                                *)

Sent(s) == {p \in net : p.from = s}

(* Whether a sender may have sent a packet in this tick; it does not send  *)
(* again in the tick of a restart.                                         *)
Slack(s) == IF wait[s] = 1 \/ down[s] = Down THEN 1 ELSE 0

(* A sender sends at most one packet in a tick.                            *)
Spaced ==
  \A p \in net :
    /\ p.sent = 0 => Slack(p.from) = 1
    /\ \A q \in net : q.from = p.from /\ q.sent = p.sent => q = p

(* What a window has counted and what is still to come was all sent in the *)
(* time it is open, or at most one delay before.                           *)
WithinRate(s) ==
  LET w == limiter[s] IN
  /\ ~w.wrapped
  /\ w.count # 0 /\ w.since < Window =>
       w.count + Cardinality(Sent(s)) <= w.since + Delay + Slack(s)

RateInv ==
  /\ Spaced
  /\ budget.seen = {} => ~refused /\ \A s \in Sender : WithinRate(s)

LEMMA SentBound ==
  ASSUME TypeInv, Spaced, NEW s \in Sender
  PROVE  /\ IsFiniteSet(Sent(s)) /\ Cardinality(Sent(s)) \in Nat
         /\ Cardinality(Sent(s)) <= Delay + Slack(s)
<1> DEFINE first == 1 - Slack(s)
           f == [p \in Sent(s) |-> p.sent]
<1>1. Slack(s) \in 0..1 /\ first \in 0..1
  BY DEF Slack
<1>2. ASSUME NEW p \in Sent(s)
      PROVE  p.sent \in first..Delay
  <2>1. p \in net /\ p.from = s
    BY DEF Sent
  <2>2. p.sent \in 0..Delay /\ (p.sent = 0 => Slack(s) = 1)
    BY <2>1, Types, PacketType DEF Spaced
  <2> QED BY <1>1, <2>2, Constants
<1>3. \A p, q \in Sent(s) : p.sent = q.sent => p = q
  BY DEF Sent, Spaced
<1> HIDE DEF first
<1>4. f \in Injection(Sent(s), first..Delay)
  BY <1>2, <1>3 DEF Injection, IsInjective
<1>5. /\ IsFiniteSet(first..Delay)
      /\ Cardinality(first..Delay) = Delay + 1 - first
  BY <1>1, Constants, FS_Interval
<1>6. IsFiniteSet(Sent(s)) /\ Cardinality(Sent(s)) <= Delay + 1 - first
  BY <1>4, <1>5, FS_Injection
<1>7. Cardinality(Sent(s)) \in Nat
  BY <1>6, FS_CardinalityType
<1> QED BY <1>1, <1>6, <1>7, Constants DEF first

LEMMA LimiterType ==
  ASSUME TypeInv, NEW s \in Sender
  PROVE  /\ limiter[s] \in Limiter /\ limiter[s].count \in 0..Burst
         /\ limiter[s].since \in 0..Window /\ Slack(s) \in 0..1
BY DEF TypeInv, ReceiverTypes, Limiter, Slack

rated == <<net, limiter, wait, down, refused, budget.seen>>

LEMMA RateStands ==
  ASSUME RateInv, UNCHANGED rated
  PROVE  RateInv'
<1>1. \A s \in Sender :
        Slack(s)' = Slack(s) /\ Sent(s)' = Sent(s) /\ limiter' = limiter
  BY DEF rated, Slack, Sent
<1>2. Spaced'
  BY DEF RateInv, Spaced, Slack, rated
<1> QED BY <1>1, <1>2 DEF RateInv, WithinRate, rated

LEMMA RestartRate ==
  ASSUME TypeInv, RateInv, NEW s \in Sender, Restart(s)
  PROVE  RateInv'
<1>1. /\ UNCHANGED <<net, limiter, refused>> /\ budget'.seen = budget.seen
      /\ down' = [down EXCEPT ![s] = Down] /\ wait' = [wait EXCEPT ![s] = 0]
  BY DEF Restart, receiver, TypeInv, OtherTypes, Budget
<1>2. \A r \in Sender :
        /\ Slack(r)' \in 0..1 /\ Slack(r) \in 0..1 /\ Slack(r)' >= Slack(r)
        /\ Sent(r)' = Sent(r)
  BY <1>1 DEF Slack, Sent, TypeInv, SenderTypes
<1>3. Spaced'
  <2>1. \A p \in net : p.from \in Sender
    BY Types, PacketType
  <2> QED BY <1>1, <1>2, <2>1 DEF RateInv, Spaced
<1>4. ASSUME NEW r \in Sender, WithinRate(r)
      PROVE  WithinRate(r)'
  <2>1. Cardinality(Sent(r)) \in Nat
    BY SentBound DEF RateInv
  <2> QED BY <1>1, <1>2, <1>4, <2>1, LimiterType, Constants DEF WithinRate
<1> QED BY <1>1, <1>3, <1>4 DEF RateInv

LEMMA SendRate ==
  ASSUME TypeInv, RateInv, NEW s \in Sender, NEW eligible \in BOOLEAN,
         SendCycle(s, eligible)
  PROVE  RateInv'
<1>1. /\ UNCHANGED <<limiter, refused, budget, down>>
      /\ down[s] = 0 /\ wait[s] = 0 /\ wait' = [wait EXCEPT ![s] = 1]
      /\ wait \in [Sender -> 0..1] /\ Down # 0
  BY Constants DEF SendCycle, receiver, TypeInv, SenderTypes, Running
<1>2. /\ Slack(s) = 0 /\ Slack(s)' = 1
      /\ \A r \in Sender \ {s} : Slack(r)' = Slack(r)
  BY <1>1 DEF Slack
<1> DEFINE o == Observation(s)
<1>3. o.from = s /\ o.sent = 0 /\ (net' = net \/ net' = net \cup {o})
  BY DEF Observation, SendCycle
<1> HIDE DEF o
<1>4. \A p \in net : p.from \in Sender
  BY Types, PacketType
<1>5. Spaced'
  <2>1. ASSUME NEW p \in net', p.sent = 0
        PROVE  Slack(p.from)' = 1
    BY <1>2, <1>3, <1>4, <2>1 DEF RateInv, Spaced
  <2>2. ASSUME NEW p \in net', NEW q \in net', q.from = p.from, q.sent = p.sent
        PROVE  q = p
    BY <1>2, <1>3, <2>2 DEF RateInv, Spaced
  <2> QED BY <2>1, <2>2 DEF Spaced
<1>6. ASSUME NEW r \in Sender, WithinRate(r)
      PROVE  WithinRate(r)'
  <2>1. IsFiniteSet(Sent(r)) /\ Cardinality(Sent(r)) \in Nat
    BY SentBound DEF RateInv
  <2>2. CASE r # s
    <3>1. Sent(r)' = Sent(r)
      BY <1>3, <2>2 DEF Sent
    <3> QED BY <1>1, <1>2, <1>6, <2>2, <3>1 DEF WithinRate
  <2>3. CASE r = s
    <3>1. Sent(s)' = Sent(s) \/ Sent(s)' = Sent(s) \cup {o}
      BY <1>3 DEF Sent
    <3>2. /\ Cardinality(Sent(s))' \in Nat
          /\ Cardinality(Sent(s))' <= Cardinality(Sent(s)) + 1
      BY <2>1, <2>3, <3>1, FS_AddElement
    <3> QED BY <1>1, <1>2, <1>6, <2>1, <2>3, <3>2, LimiterType, Constants
            DEF WithinRate
  <2> QED BY <2>2, <2>3
<1> QED BY <1>1, <1>5, <1>6 DEF RateInv

LEMMA ReceiveRate ==
  ASSUME Window + Delay <= Burst, TypeInv, RateInv, NEW p \in net,
         NEW member \in BOOLEAN, NEW again \in BOOLEAN,
         Receive(p, member, again)
  PROVE  RateInv'
<1> DEFINE s == p.from
           w == limiter[s]
<1>1. /\ UNCHANGED <<wait, down>> /\ net' = IF again THEN net ELSE net \ {p}
      /\ limiter' = [limiter EXCEPT ![s] = IF Fits(w) THEN Counted(w) ELSE w]
      /\ refused' = ~Fits(w)
  BY DEF Receive, senders
<1>2. s \in Sender /\ p \in Sent(s) /\ \A r \in Sender : Slack(r)' = Slack(r)
  BY <1>1, Types, PacketType DEF Slack, Sent
<1>3. Spaced'
  <2>1. net' \subseteq net /\ \A q \in net : Slack(q.from)' = Slack(q.from)
    BY <1>1, <1>2, Types, PacketType
  <2> QED BY <2>1 DEF RateInv, Spaced
<1>4. CASE again
  <2>1. budget'.seen = budget.seen \cup {"copy"}
    BY <1>4 DEF Receive, TypeInv, OtherTypes, Budget
  <2> QED BY <1>3, <2>1 DEF RateInv
<1>5. CASE ~again /\ budget.seen # {}
  BY <1>3, <1>5 DEF RateInv, Receive
<1>6. CASE ~again /\ budget.seen = {}
  <2>1. WithinRate(s) /\ ~refused /\ \A r \in Sender : WithinRate(r)
    BY <1>2, <1>6 DEF RateInv
  <2> DEFINE n == Cardinality(Sent(s))
  <2>2. /\ IsFiniteSet(Sent(s)) /\ n \in Nat /\ n <= Delay + Slack(s)
        /\ Slack(s) \in 0..1
    BY <1>2, SentBound, LimiterType DEF RateInv
  <2>3. Sent(s)' = Sent(s) \ {p}
    BY <1>1, <1>6 DEF Sent
  <2>4. Cardinality(Sent(s))' = n - 1 /\ n - 1 \in Nat
    <3>1. IsFiniteSet(Sent(s) \ {p}) /\ Cardinality(Sent(s) \ {p}) = n - 1
      BY <1>2, <2>2, FS_RemoveElement
    <3>2. n - 1 \in Nat
      BY <3>1, FS_CardinalityType
    <3> QED BY <2>3, <3>1, <3>2
  <2> HIDE DEF n
  <2>5. /\ w \in Limiter /\ w.count \in 0..Burst /\ w.since \in 0..Window
        /\ ~w.wrapped
        /\ w.count # 0 /\ w.since < Window =>
             w.count + n <= w.since + Delay + Slack(s)
    BY <1>2, <2>1, LimiterType DEF WithinRate, n
  <2> HIDE DEF s, w
  <2>6. Fits(w)
    BY <2>2, <2>4, <2>5, Constants DEF Fits
  <2>7. /\ ~Counted(w).wrapped
        /\ Counted(w).since < Window =>
             Counted(w).count + (n - 1) <= Counted(w).since + Delay + Slack(s)
    BY <2>2, <2>4, <2>5, Constants DEF Counted, Limiter
  <2>8. ASSUME NEW r \in Sender
        PROVE  WithinRate(r)'
    <3>1. CASE r = s
      <4>1. limiter'[s] = Counted(w)
        BY <1>1, <1>2, <2>6 DEF TypeInv, ReceiverTypes, s, w
      <4> QED BY <1>2, <2>4, <2>7, <3>1, <4>1 DEF WithinRate
    <3>2. CASE r # s
      <4>1. limiter'[r] = limiter[r] /\ Sent(r)' = Sent(r)
        BY <1>1, <3>2 DEF Sent, s, w
      <4> QED BY <1>2, <2>1, <4>1 DEF WithinRate
    <3> QED BY <3>1, <3>2
  <2>9. ~refused'
    BY <1>1, <2>6 DEF w, s
  <2> QED BY <1>3, <2>8, <2>9 DEF RateInv
<1> QED BY <1>4, <1>5, <1>6

LEMMA ForgetRate ==
  ASSUME TypeInv, RateInv, RestartLeader \/ \E p \in net : Lose(p)
  PROVE  RateInv'
<1>1. /\ net' \subseteq net /\ UNCHANGED <<wait, down>>
      /\ budget'.seen = budget.seen
  BY DEF RestartLeader, Lose, senders, TypeInv, OtherTypes, Budget
<1>2. \A s \in Sender : Slack(s)' = Slack(s)
  BY <1>1 DEF Slack
<1>3. Spaced'
  <2>1. \A p \in net : p.from \in Sender
    BY Types, PacketType
  <2> QED BY <1>1, <1>2, <2>1 DEF RateInv, Spaced
<1>4. CASE RestartLeader
  <2>1. ASSUME NEW s \in Sender
        PROVE  WithinRate(s)'
    BY <1>4 DEF RestartLeader, NoWindow, WithinRate
  <2> QED BY <1>3, <1>4, <2>1 DEF RateInv, RestartLeader
<1>5. CASE \E p \in net : Lose(p)
  <2>1. UNCHANGED <<limiter, refused>>
    BY <1>5 DEF Lose, receiver
  <2>2. ASSUME NEW s \in Sender, WithinRate(s)
        PROVE  WithinRate(s)'
    <3>1. IsFiniteSet(Sent(s)) /\ Cardinality(Sent(s)) \in Nat
      BY SentBound DEF RateInv
    <3>2. Sent(s)' \in SUBSET Sent(s)
      BY <1>1 DEF Sent
    <3>3. /\ Cardinality(Sent(s))' <= Cardinality(Sent(s))
          /\ Cardinality(Sent(s))' \in Nat
      BY <3>1, <3>2, FS_Subset, FS_CardinalityType
    <3> QED BY <1>2, <2>1, <2>2, <3>1, <3>3, LimiterType, Constants
            DEF WithinRate
  <2> QED BY <1>1, <1>3, <2>1, <2>2 DEF RateInv
<1> QED BY <1>4, <1>5

LEMMA TickRate ==
  ASSUME TypeInv, RateInv, Tick
  PROVE  RateInv'
<1> DEFINE older(p) == [p EXCEPT !.sent = @ + 1, !.born = @ + 1]
<1>1. /\ net' = {older(p) : p \in net} /\ UNCHANGED <<refused, budget>>
  BY DEF Tick
<1>2. ASSUME NEW p \in net
      PROVE  /\ older(p).from = p.from /\ older(p).sent = p.sent + 1
             /\ p.from \in Sender /\ p.sent \in Nat
  BY Types, PacketType DEF Packet
<1>3. Spaced'
  <2> SUFFICES ASSUME NEW x \in net', NEW y \in net'
               PROVE  /\ x.sent # 0
                      /\ y.from = x.from /\ y.sent = x.sent => y = x
    BY DEF Spaced
  <2>1. PICK p \in net : x = older(p)
    BY <1>1
  <2>2. PICK q \in net : y = older(q)
    BY <1>1
  <2>3. q.from = p.from /\ q.sent = p.sent => q = p
    BY DEF RateInv, Spaced
  <2>4. /\ x.from = p.from /\ x.sent = p.sent + 1 /\ p.sent \in Nat
        /\ y.from = q.from /\ y.sent = q.sent + 1 /\ q.sent \in Nat
    BY <1>2, <2>1, <2>2
  <2> HIDE DEF older
  <2> QED BY <2>1, <2>2, <2>3, <2>4
<1>4. ASSUME NEW s \in Sender, WithinRate(s)
      PROVE  WithinRate(s)'
  <2>1. Slack(s)' = 0 /\ Slack(s) \in 0..1
    <3>1. wait[s] \in 0..1 /\ down[s] \in 0..Down
      BY DEF TypeInv, SenderTypes
    <3>2. /\ wait'[s] = IF wait[s] = 0 THEN 0 ELSE wait[s] - 1
          /\ down'[s] = IF down[s] = 0 THEN 0 ELSE down[s] - 1
      BY DEF Tick, Running
    <3>3. wait'[s] = 0 /\ down'[s] # Down
      BY <3>1, <3>2, Constants
    <3> QED BY <3>3 DEF Slack
  <2>2. /\ IsFiniteSet(Sent(s)) /\ Cardinality(Sent(s)) \in Nat
    BY SentBound DEF RateInv
  <2> DEFINE f == [p \in Sent(s) |-> older(p)]
  <2>3. f \in Surjection(Sent(s), Sent(s)')
    <3>1. \A p \in Sent(s) : older(p) \in Sent(s)'
      BY <1>1, <1>2 DEF Sent
    <3>2. ASSUME NEW q \in Sent(s)'
          PROVE  \E p \in Sent(s) : q = older(p)
      <4>1. PICK p \in net : q = older(p)
        BY <1>1 DEF Sent
      <4>2. p.from = s
        BY <1>2, <4>1 DEF Sent
      <4> QED BY <4>1, <4>2 DEF Sent
    <3> HIDE DEF older
    <3> QED BY <3>1, <3>2 DEF Surjection
  <2>4. /\ Cardinality(Sent(s))' <= Cardinality(Sent(s))
        /\ Cardinality(Sent(s))' \in Nat
    BY <2>2, <2>3, FS_Surjection, FS_CardinalityType
  <2>5. /\ limiter'[s].count = limiter[s].count
        /\ limiter'[s].wrapped = limiter[s].wrapped
        /\ limiter[s].count # 0 =>
             limiter'[s].since = Smaller(limiter[s].since + 1, Window)
    BY LimiterType DEF Tick, Limiter
  <2>6. limiter[s].count \in 0..Burst /\ limiter[s].since \in 0..Window
    BY LimiterType
  <2>7. ~limiter'[s].wrapped
    BY <1>4, <2>5 DEF WithinRate
  <2>8. ASSUME limiter'[s].count # 0, limiter'[s].since < Window
        PROVE  limiter'[s].count + Cardinality(Sent(s))'
                 <= limiter'[s].since + Delay + Slack(s)'
    <3>1. /\ limiter[s].count # 0 /\ limiter[s].since < Window
          /\ limiter'[s].since = limiter[s].since + 1
      BY <2>5, <2>6, <2>8, Constants DEF Smaller
    <3>2. limiter[s].count + Cardinality(Sent(s))
            <= limiter[s].since + Delay + Slack(s)
      BY <1>4, <3>1 DEF WithinRate
    <3> QED BY <2>1, <2>2, <2>4, <2>5, <2>6, <3>1, <3>2, Constants
  <2> QED BY <2>7, <2>8 DEF WithinRate
<1> QED BY <1>1, <1>3, <1>4 DEF RateInv

LEMMA StepRate ==
  ASSUME Window + Delay <= Burst
  PROVE  TypeInv /\ RateInv /\ [Next]_vars => RateInv'
<1> SUFFICES ASSUME TypeInv, RateInv, [Next]_vars PROVE RateInv'
  OBVIOUS
<1>1. budget \in Budget
  BY DEF TypeInv, OtherTypes
<1>2. CASE \E s \in Sender :
             \/ Restart(s)
             \/ \E eligible \in BOOLEAN : SendCycle(s, eligible)
  BY <1>2, RestartRate, SendRate
<1>3. CASE \/ RestartLeader
           \/ \E p \in net :
                \/ Lose(p)
                \/ \E member, again \in BOOLEAN : Receive(p, member, again)
  BY <1>3, ForgetRate, ReceiveRate
<1>4. CASE Tick
  BY <1>4, TickRate
<1>5. CASE Wrap
  <2>1. budget'.seen # {} /\ UNCHANGED <<net, wait, down>>
    BY <1>1, <1>5 DEF Wrap, senders, Budget
  <2>2. Spaced'
    BY <2>1 DEF RateInv, Spaced, Slack
  <2> QED BY <2>1, <2>2 DEF RateInv
<1>6. CASE \/ \E s \in Sender : Sense(s) \/ AdoptKnown(s)
           \/ HardStop \/ MissPose \/ MissGroup \/ FindNoSource
           \/ \E local, unchanged \in BOOLEAN : Fuse(local, unchanged)
           \/ \E n \in Node : Commit(n) \/ AdoptDevice(n) \/ AdoptOwn(n)
           \/ Settle
  <2>1. UNCHANGED <<net, limiter, wait, down, refused>>
    BY <1>6 DEF Sense, AdoptKnown, HardStop, MissPose, MissGroup, FindNoSource,
       Fuse, Commit, AdoptDevice, AdoptOwn, Settle, senders, receiver
  <2>2. budget'.seen = budget.seen
    BY <1>1, <1>6
       DEF Sense, AdoptKnown, HardStop, MissPose, MissGroup, FindNoSource, Fuse,
           Commit, AdoptDevice, AdoptOwn, Settle, Budget
  <2> QED BY <2>1, <2>2, RateStands DEF rated
<1>7. CASE UNCHANGED vars
  BY <1>7, RateStands DEF vars, senders, receiver, rated
<1> QED BY <1>2, <1>3, <1>4, <1>5, <1>6, <1>7 DEF Next

(* A burst that has room for what is sent in a window and in one delay is  *)
(* never exceeded by a member that keeps to its interval.                  *)
THEOREM SendersNotLimited ==
  ASSUME Window + Delay <= Burst
  PROVE  Spec => []NotLimited
<1>1. Init => RateInv
  BY DEF Init, RateInv, Spaced, WithinRate, NoWindow
<1>2. TypeInv /\ RateInv /\ [Next]_vars => RateInv'
  BY StepRate
<1>3. RateInv => NotLimited
  BY DEF RateInv, NotLimited
<1> QED BY <1>1, <1>2, <1>3, AlwaysTyped, PTL DEF Spec
=============================================================================
