------------------------ MODULE ObservationDelivery ------------------------
(***************************************************************************)
(* Observations on their way from the members of a Group to the fusion of  *)
(* its Leader: ObservationTransport (observation_transport.cpp) with its   *)
(* rate limiter and its inbox, ObservationAdmission                        *)
(* (participant_readiness.cpp), and SpatialShadowRuntime                   *)
(* (spatial_shadow_runtime.cpp), as the main loop (radar_api_server.cpp)   *)
(* runs them.                                                              *)
(*                                                                         *)
(* Time advances in ticks of 500 ms, the interval between two              *)
(* observations of a member.  Times are kept as ages: an observation knows *)
(* when it was made and when it was sent.  Within one boot of a sender a   *)
(* lower sequence is a larger age since it was sent, and sequences are     *)
(* compared as such.  The poses of the radars have versions; a new one     *)
(* reaches the radar itself, its node's roster and the Leader's roster in  *)
(* any order.                                                              *)
(*                                                                         *)
(* What other components decide is an input: whether the sender finds an   *)
(* elected, ready and online Leader, whether the Leader's membership       *)
(* admits the sender, and whether the Leader may fuse.                     *)
(***************************************************************************)
EXTENDS Integers, FiniteSets

CONSTANTS
  Sender,  \* members of the Group that send their observations
  Leader,  \* the member that receives and fuses them
  None,
  Ttl,     \* LocalObservation::ttl_ms, 1500 ms
  Window,  \* ObservationTransportRateLimiter::RATE_WINDOW_MS
  Burst,   \* ObservationTransportRateLimiter::MAX_PACKETS_PER_WINDOW
  Hold,    \* SpatialShadowRuntime::TRANSIENT_HOLD_MS
  Delay,   \* the network delivers a packet within this time, or never
  Down,    \* a restart takes at least this long
  Setup    \* bounds on restarts, new poses, copied packets, clock wraps and
           \* interruptions of the fusion

Node == Sender \cup {Leader}

ASSUME DeliveryAssumption ==
  /\ Leader \notin Sender
  /\ IsFiniteSet(Sender)
  /\ {Ttl, Window, Burst, Hold, Down} \subseteq Nat \ {0}
  /\ Delay \in Nat
  /\ Setup \subseteq [restarts : Nat, poses : Nat, copies : Nat,
                 wraps : Nat, stops : Nat, seen : SUBSET {"copy", "wrap"}]

VARIABLES
  boot,     \* boot_id_ of each sender, as the number of its boots
  down,     \* ticks a sender is still restarting for; 0 while it runs
  sensed,   \* age of the output of its LocalObservationAdapter
  wait,     \* ticks until next_send_ms_
  pose,     \* pose version the Owner has committed for each node
  device,   \* pose version in the node's own configuration
  own,      \* pose version of the node in the roster the node holds
  known,    \* pose version of the sender in the Leader's roster
  net,      \* packets on their way to the Leader
  limiter,  \* ObservationTransportRateState of the sender
  last,     \* ObservationAdmission::SourceState of the sender
  inbox,    \* ObservationTransportSample of the sender
  fused,    \* age of the newest observation of the sender ever fused
  runtime,  \* SpatialShadowRuntime: the state, the Leader's pose the oldest
            \* tracks of the fusion were made with (0 without tracks),
            \* active_local_pose_version_, and the age of
            \* transient_started_ms_
  ran,      \* whether the Leader's fusion ran in this tick
  refused,  \* whether the last packet met the rate limit
  calm,     \* nothing fails or changes any more
  budget    \* the failures and changes that are left

senders == <<boot, down, sensed, wait>>
poses == <<pose, device, own, known>>
receiver == <<limiter, last, inbox>>
fusion == <<fused, runtime, ran>>
vars == <<senders, poses, net, receiver, fusion, refused, calm, budget>>

-----------------------------------------------------------------------------
(* Values *)

Smaller(a, b) == IF a <= b THEN a ELSE b

(* No packet that arrives is older than this, nor the observation in it. *)
Horizon == Ttl + Delay

Packet ==
  [from : Sender, boot : Nat, sent : 0..Delay, born : 0..Horizon, pose : Nat]

NoWindow == [count |-> 0, since |-> 0, wrapped |-> FALSE]
NoSource == [boot |-> 0, sent |-> 0]
Stopped == [state |-> "stopped", tracks |-> 0, scope |-> 0, held |-> 0]

(* transient_started_ms_ counts from 1; 0 means it is not running. *)
HeldLimit == Hold + 2

Running(s) == down[s] = 0

(* evaluate_observation_send and encode_observation: the pose in the       *)
(* radar's configuration is the one its roster gives it, and the           *)
(* observation has not expired                                             *)
Sendable(s) == device[s] = own[s] /\ sensed[s] < Ttl

-----------------------------------------------------------------------------
(* Sender *)

Sense(s) ==
  /\ Running(s)
  /\ sensed[s] # 0
  /\ sensed' = [sensed EXCEPT ![s] = 0]
  /\ UNCHANGED <<boot, down, wait, poses, net, receiver, fusion, refused, calm,
                 budget>>

Observation(s) ==
  [from |-> s, boot |-> boot[s], sent |-> 0, born |-> sensed[s],
   pose |-> own[s]]

(* ObservationTransport::send.  Whatever comes of it, the next cycle is    *)
(* one interval away; without a Leader to send to, nothing is sent.  Once  *)
(* calm, the radar delivers its frames, which come every 100 ms.           *)
SendCycle(s, eligible) ==
  /\ Running(s)
  /\ wait[s] = 0
  /\ calm => eligible /\ sensed[s] = 0
  /\ wait' = [wait EXCEPT ![s] = 1]
  /\ net' = IF eligible /\ Sendable(s) THEN net \cup {Observation(s)} ELSE net
  /\ UNCHANGED <<boot, down, sensed, poses, receiver, fusion, refused, calm,
                 budget>>

(* A new boot has a new boot_id_, no observation, and sends at once. *)
Restart(s) ==
  /\ ~calm
  /\ budget.restarts > 0
  /\ Running(s)
  /\ boot' = [boot EXCEPT ![s] = @ + 1]
  /\ down' = [down EXCEPT ![s] = Down]
  /\ sensed' = [sensed EXCEPT ![s] = Ttl]
  /\ wait' = [wait EXCEPT ![s] = 0]
  /\ budget' = [budget EXCEPT !.restarts = @ - 1]
  /\ UNCHANGED <<poses, net, receiver, fusion, refused, calm>>

-----------------------------------------------------------------------------
(* Network *)

Lose(p) ==
  /\ ~calm
  /\ net' = net \ {p}
  /\ UNCHANGED <<senders, poses, receiver, fusion, refused, calm, budget>>

-----------------------------------------------------------------------------
(* Receiver *)

(* Mutants of Fits: the window never starts again; no datagram for jitter;  *)
(* no limit at all.                                                        *)
MutantEndlessWindow(w) == ~w.wrapped /\ w.count < Burst
MutantNoJitter(w) == w.count = 0 \/ w.since >= Window \/ w.count < Burst - 1
MutantUnlimited(w) == ~w.wrapped

(* ObservationTransportRateLimiter::allow.  While a window has packets, a  *)
(* clock before its start refuses every packet, and so does the clock      *)
(* after it has wrapped.                                                   *)
Fits(w) ==
  /\ ~(w.count # 0 /\ w.wrapped)
  /\ \/ w.count = 0
     \/ w.since >= Window
     \/ w.count < Burst

Counted(w) ==
  IF w.count = 0 \/ w.since >= Window
  THEN [count |-> 1, since |-> 0, wrapped |-> FALSE]
  ELSE [w EXCEPT !.count = @ + 1]

(* A mutant of DuplicateOrReordered: the last packet to arrive counts. *)
MutantLastArrival(p) == FALSE

(* The last check of ObservationAdmission::admit *)
DuplicateOrReordered(p) ==
  last[p.from].boot = p.boot /\ p.sent >= last[p.from].sent

(* A mutant of Sample: its age when it was sent is forgotten. *)
MutantFullLife(p) ==
  [boot |-> p.boot, born |-> p.born, left |-> Ttl, pose |-> p.pose]

Sample(p) ==
  [boot |-> p.boot, born |-> p.born, left |-> Ttl - (p.born - p.sent),
   pose |-> p.pose]

(* process_packet_: the rate limit comes first; then the membership, the   *)
(* pose version and the order are checked, and the sample takes the place  *)
(* of the one the inbox held.                                              *)
Admits(p, member) ==
  member /\ p.pose = known[p.from] /\ ~DuplicateOrReordered(p)

Receive(p, member, again) ==
  /\ calm => member /\ ~again
  /\ again => budget.copies > 0
  /\ net' = IF again THEN net ELSE net \ {p}
  /\ budget' = IF again
               THEN [budget EXCEPT !.copies = @ - 1, !.seen = @ \cup {"copy"}]
               ELSE budget
  /\ refused' = ~Fits(limiter[p.from])
  /\ limiter' = [limiter EXCEPT ![p.from] = IF Fits(@) THEN Counted(@) ELSE @]
  /\ IF Fits(limiter[p.from]) /\ Admits(p, member)
     THEN /\ last' = [last EXCEPT ![p.from] = [boot |-> p.boot,
                                               sent |-> p.sent]]
          /\ inbox' = [inbox EXCEPT ![p.from] = Sample(p)]
     ELSE UNCHANGED <<last, inbox>>
  /\ UNCHANGED <<senders, poses, fusion, calm>>

(* A restarted Leader has forgotten all of it, and finds no packet that    *)
(* was sent to it before.                                                  *)
RestartLeader ==
  /\ ~calm
  /\ budget.restarts > 0
  /\ limiter' = [s \in Sender |-> NoWindow]
  /\ last' = [s \in Sender |-> NoSource]
  /\ inbox' = [s \in Sender |-> None]
  /\ runtime' = Stopped
  /\ net' = {}
  /\ refused' = FALSE
  /\ budget' = [budget EXCEPT !.restarts = @ - 1]
  /\ UNCHANGED <<senders, poses, fused, ran, calm>>

-----------------------------------------------------------------------------
(* Fusion *)

(* copy_latest and the version checks of update: samples that may be used. *)
Usable == {s \in Sender : inbox[s] # None /\ inbox[s].pose = known[s]}

(* hard_stop_: not the Leader of its Group, or too many members. *)
HardStop ==
  /\ ~calm
  /\ budget.stops > 0
  /\ runtime' = Stopped
  /\ ran' = TRUE
  /\ budget' = [budget EXCEPT !.stops = @ - 1]
  /\ UNCHANGED <<senders, poses, net, receiver, fused, refused, calm>>

(* pause_: the tracks survive a short interruption. *)
Paused(r) ==
  [r EXCEPT !.state = "paused",
            !.tracks = IF r.held > Hold + 1 THEN 0 ELSE @,
            !.held = IF @ = 0 THEN 1 ELSE @]

(* A mutant of InScope: the tracks survive a new pose of the Leader. *)
MutantKeepTracks(r) == [r EXCEPT !.scope = own[Leader]]

(* begin_active_scope_: tracks of another pose of the Leader are dropped. *)
InScope(r) ==
  [r EXCEPT !.tracks = IF r.scope \in {0, own[Leader]} THEN @ ELSE 0,
            !.scope = own[Leader]]

(* With a pose of its own that the roster does not confirm *)
MissPose ==
  /\ device[Leader] # own[Leader]
  /\ runtime' = Paused(runtime)
  /\ ran' = TRUE
  /\ UNCHANGED <<senders, poses, net, receiver, fused, refused, calm,
                 budget>>

(* Disabled, or without a Group *)
MissGroup ==
  /\ ~calm
  /\ budget.stops > 0
  /\ runtime' = Paused(runtime)
  /\ ran' = TRUE
  /\ budget' = [budget EXCEPT !.stops = @ - 1]
  /\ UNCHANGED <<senders, poses, net, receiver, fused, refused, calm>>

FindNoSource ==
  /\ device[Leader] = own[Leader]
  /\ Usable = {}
  /\ runtime' = Paused(InScope(runtime))
  /\ ran' = TRUE
  /\ UNCHANGED <<senders, poses, net, receiver, fused, refused, calm,
                 budget>>

(* The sources of which no observation is new are skipped: only their      *)
(* sequences and tokens are compared, and the sequence of a new boot may   *)
(* repeat that of the last.                                                *)
Fuse(local, unchanged) ==
  /\ device[Leader] = own[Leader]
  /\ local \/ Usable # {}
  /\ unchanged => InScope(runtime).tracks # 0
  /\ runtime' = [InScope(runtime) EXCEPT
       !.state = "active", !.held = 0,
       !.tracks = IF @ = 0 THEN own[Leader] ELSE @]
  /\ fused' = IF unchanged THEN fused
              ELSE [s \in Sender |->
                      IF s \in Usable THEN inbox[s].born ELSE fused[s]]
  /\ ran' = TRUE
  /\ UNCHANGED <<senders, poses, net, receiver, refused, calm, budget>>

-----------------------------------------------------------------------------
(* Poses *)

Commit(n) ==
  /\ ~calm
  /\ budget.poses > 0
  /\ pose' = [pose EXCEPT ![n] = @ + 1]
  /\ budget' = [budget EXCEPT !.poses = @ - 1]
  /\ UNCHANGED <<senders, device, own, known, net, receiver, fusion, refused,
                 calm>>

AdoptDevice(n) ==
  /\ device[n] # pose[n]
  /\ device' = [device EXCEPT ![n] = pose[n]]
  /\ UNCHANGED <<senders, pose, own, known, net, receiver, fusion, refused,
                 calm, budget>>

AdoptOwn(n) ==
  /\ own[n] # pose[n]
  /\ own' = [own EXCEPT ![n] = pose[n]]
  /\ UNCHANGED <<senders, pose, device, known, net, receiver, fusion, refused,
                 calm, budget>>

AdoptKnown(s) ==
  /\ known[s] # pose[s]
  /\ known' = [known EXCEPT ![s] = pose[s]]
  /\ UNCHANGED <<senders, pose, device, own, net, receiver, fusion, refused,
                 calm, budget>>

-----------------------------------------------------------------------------
(* Time *)

Older(age) == Smaller(age + 1, Horizon)

OlderSample(x) ==
  IF x = None \/ x.left = 1 THEN None
  ELSE [x EXCEPT !.left = @ - 1, !.born = @ + 1]

(* Within a tick every running sender has its cycle and the Leader fuses,  *)
(* and a packet that is due arrives or is lost.                            *)
Tick ==
  /\ \A s \in Sender : Running(s) => wait[s] # 0
  /\ \A p \in net : p.sent < Delay
  /\ ran
  /\ net' = {[p EXCEPT !.sent = @ + 1, !.born = @ + 1] : p \in net}
  /\ down' = [s \in Sender |-> IF Running(s) THEN 0 ELSE down[s] - 1]
  /\ wait' = [s \in Sender |-> IF wait[s] = 0 THEN 0 ELSE wait[s] - 1]
  /\ sensed' = [s \in Sender |-> Smaller(sensed[s] + 1, Ttl)]
  /\ limiter' = [s \in Sender |->
       IF limiter[s].count = 0 THEN limiter[s]
       ELSE [limiter[s] EXCEPT !.since = Smaller(@ + 1, Window)]]
  /\ last' = [s \in Sender |->
       [last[s] EXCEPT !.sent = Smaller(@ + 1, Delay + 1)]]
  /\ inbox' = [s \in Sender |-> OlderSample(inbox[s])]
  /\ fused' = [s \in Sender |-> Older(fused[s])]
  /\ runtime' = [runtime EXCEPT
       !.held = IF @ = 0 THEN 0 ELSE Smaller(@ + 1, HeldLimit)]
  /\ ran' = FALSE
  /\ UNCHANGED <<boot, poses, refused, calm, budget>>

(* The Leader's 32-bit millisecond clock starts again from 0. *)
Wrap ==
  /\ ~calm
  /\ budget.wraps > 0
  /\ limiter' = [s \in Sender |->
       [limiter[s] EXCEPT !.wrapped = limiter[s].count # 0]]
  /\ budget' = [budget EXCEPT !.wraps = @ - 1, !.seen = @ \cup {"wrap"}]
  /\ UNCHANGED <<senders, poses, net, last, inbox, fusion, refused, calm>>

(* The failures and changes end, the last pose everywhere. *)
Settle ==
  /\ ~calm
  /\ device = pose /\ own = pose
  /\ \A s \in Sender : known[s] = pose[s]
  /\ calm' = TRUE
  /\ UNCHANGED <<senders, poses, net, receiver, fusion, refused, budget>>

-----------------------------------------------------------------------------

Init ==
  /\ boot = [s \in Sender |-> 1]
  /\ down = [s \in Sender |-> 0]
  /\ sensed = [s \in Sender |-> Ttl]
  /\ wait = [s \in Sender |-> 0]
  /\ pose = [n \in Node |-> 1] /\ device = pose /\ own = pose
  /\ known = [s \in Sender |-> 1]
  /\ net = {}
  /\ limiter = [s \in Sender |-> NoWindow]
  /\ last = [s \in Sender |-> NoSource]
  /\ inbox = [s \in Sender |-> None]
  /\ fused = [s \in Sender |-> Horizon]
  /\ runtime = Stopped
  /\ ran = FALSE
  /\ refused = FALSE
  /\ calm = FALSE
  /\ budget \in Setup

Next ==
  \/ \E s \in Sender :
       \/ Sense(s)
       \/ \E eligible \in BOOLEAN : SendCycle(s, eligible)
       \/ Restart(s)
       \/ AdoptKnown(s)
  \/ \E p \in net :
       \/ Lose(p)
       \/ \E member, again \in BOOLEAN : Receive(p, member, again)
  \/ RestartLeader
  \/ HardStop
  \/ MissPose
  \/ MissGroup
  \/ FindNoSource
  \/ \E local, unchanged \in BOOLEAN : Fuse(local, unchanged)
  \/ \E n \in Node : Commit(n) \/ AdoptDevice(n) \/ AdoptOwn(n)
  \/ Tick
  \/ Wrap
  \/ Settle

Spec == Init /\ [][Next]_vars

(* Time goes on, and with it all that a tick waits for. *)
LiveSpec == Spec /\ []<><<Tick>>_vars

-----------------------------------------------------------------------------
(* Properties *)

(* Every variable holds a value of its kind; ages, windows and lives stay  *)
(* in their ranges.                                                        *)
TypeOK ==
  /\ boot \in [Sender -> Nat]
  /\ down \in [Sender -> 0..Down]
  /\ sensed \in [Sender -> 0..Ttl]
  /\ wait \in [Sender -> 0..1]
  /\ {pose, device, own} \subseteq [Node -> Nat]
  /\ known \in [Sender -> Nat]
  /\ net \subseteq Packet
  /\ limiter \in [Sender -> [count : 0..Burst, since : 0..Window,
                             wrapped : BOOLEAN]]
  /\ last \in [Sender -> [boot : Nat, sent : 0..Delay + 1]]
  /\ inbox \in [Sender -> {None} \cup [boot : Nat, born : 0..Horizon,
                                      left : 1..Ttl, pose : Nat]]
  /\ fused \in [Sender -> 0..Horizon]
  /\ runtime \in [state : {"stopped", "paused", "active"}, tracks : Nat,
                  scope : Nat, held : 0..HeldLimit]
  /\ {ran, refused, calm} \subseteq BOOLEAN
  /\ budget \in [restarts : Nat, poses : Nat, copies : Nat,
                 wraps : Nat, stops : Nat, seen : SUBSET {"copy", "wrap"}]

(* The sample the inbox offers the fusion was never made before one that   *)
(* the fusion has used: lost, delayed and copied packets and a restarted   *)
(* sender, whose sequences start again, never roll a source back           *)
(* (ObservationAdmission::admit).  A restart takes longer than a packet.   *)
InOrder == \A s \in Sender : inbox[s] # None => inbox[s].born <= fused[s]

(* The age of an observation grows on three clocks: the sender's until it  *)
(* is sent, nobody's on its way, the Leader's in the inbox.  The fusion    *)
(* never gets one that is older than its time to live and one delay.       *)
SourceFresh ==
  \A s \in Sender :
    inbox[s] # None => inbox[s].born <= Ttl - inbox[s].left + Delay

(* A sender that keeps to its two datagrams a second is not refused by the *)
(* rate limiter, however its packets are delayed, unless the network has   *)
(* copied one or the Leader's clock has wrapped: the limiter compares its  *)
(* window with the clock before it takes the elapsed time.                 *)
NotLimited == refused => budget.seen # {}

(* The tracks the fusion publishes were all made with the pose it now gives *)
(* the Leader, even when that changed while the runtime paused.            *)
InScopeTracks == runtime.state = "active" => runtime.tracks = runtime.scope

(* Once failures and changes have stopped, the Leader fuses every sender,  *)
(* as long as its clock has not wrapped.                                   *)
Heard ==
  <>[](calm /\ "wrap" \notin budget.seen =>
         Usable = Sender /\ runtime.state = "active")
=============================================================================
