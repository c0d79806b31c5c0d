--------------------------- MODULE SiteReplication ---------------------------
(* How the configuration and the floorplan of a Site reach its members: the  *)
(* Owner's generations and its storage (site_configuration.cpp,              *)
(* radar_storage.cpp), the lease under which it serves one member at a time, *)
(* the pull session of every member (site_replication.cpp) and the tracker   *)
(* that schedules sessions (site_authority.cpp).                             *)
(*                                                                           *)
(* A payload is the versions of the chunks it was read from.  Time is        *)
(* abstract: what depends on a time-out is an action of its own, and what    *)
(* takes longer than the code expects costs one of the faults of Setup.      *)
EXTENDS Integers, Sequences

CONSTANTS
  Follower,         \* the active members but the Owner
  Successor,        \* the one that would take over from the Owner
  None,
  Erased,           \* a storage whose header is erased and not yet written
  GenerationLimit,  \* bound on the generations
  VersionLimit,     \* bound on the versions of a payload
  BusyLimit,        \* SITE_REPLICATION_MAX_BUSY_RETRIES
  RetryLimit,       \* MAX_RETRIES of a request
  Setup             \* initial plans, and what may go wrong

ASSUME LimitAssumption ==
  /\ GenerationLimit \in Nat \ {0}
  /\ {VersionLimit, BusyLimit, RetryLimit} \subseteq Nat

ASSUME MemberAssumption == Successor \in Follower /\ None \notin Follower

VARIABLES
  history,     \* the floorplan of every committed generation
  ownerStore,  \* the payloads in the Owner's storage
  lease,       \* SiteReplicationSourceLease: the member being served
  wire,        \* the request or the answer in flight of each session
  strays,      \* copies of requests that arrive late
  cfg,         \* the generation each member has committed
  store,       \* the payloads in each member's storage
  lost,        \* members that lost their floorplan since their last report
  seen,        \* the generation the member read in the Owner's heartbeat
  report,      \* what the Owner read in the member's heartbeat
  session,     \* SiteReplicationTransport
  tracker,     \* SiteAuthorityReplicationTracker
  budget       \* what may still happen

ownerVars == <<history, ownerStore>>
memberVars == <<cfg, store, session, tracker>>
vars == <<history, ownerStore, lease, wire, strays, cfg, store, lost, seen,
          report, session, tracker, budget>>

-----------------------------------------------------------------------------
(* Plans, requests and answers *)

Version == 0..VersionLimit
Plan == [config : Version, image : Version]

(* No payload is stored; no floorplan is committed. *)
NoPlan == [config |-> 0, image |-> 0]

ASSUME ErasedAssumption == Erased \notin Plan

Budget ==
  [edits : Nat, uploads : Nat, syncs : Nat, faults : Nat, copies : Nat,
   cuts : Nat]

ASSUME SetupAssumption == Setup \subseteq [plan : Plan, budget : Budget]

Generation == Len(history)
Published == history[Generation]

Transfer == {"configuration", "configMeta", "imageMeta", "config", "image"}

(* The chunks that each request's payload is read in *)
Chunks(what) == IF what \in {"configuration", "image"} THEN 2 ELSE 1

Ask == [what : Transfer, offset : 0..1]

(* What is in flight: a request, one of the answers to it, or nothing while *)
(* a time-out or a delay runs                                              *)
Message ==
  [kind : {"request", "ok", "busy", "error", "lost", "later"},
   tag : 0..GenerationLimit \cup Version]
Bare(kind) == [kind |-> kind, tag |-> 0]
Answered(f) == wire[f].kind \in {"ok", "busy", "error"}
Requesting(f) == wire[f].kind = "request"

(* What a session fetches next *)
Asked(s) == [what |-> s.state, offset |-> Len(s.received)]
Last(ask) == ask.offset + 1 = Chunks(ask.what)

NoSession ==
  [state |-> "idle", received |-> <<>>, remote |-> 0, config |-> 0,
   busy |-> 0, retries |-> 0]
NoTracking == [active |-> 0, pending |-> 0, blocked |-> 0]

Active(f) == session[f].state \in Transfer

-----------------------------------------------------------------------------
(* The Owner's heartbeats and its own edits *)

Ready(f) == store[f] = history[cfg[f]] /\ store[f] # NoPlan

(* Both directions of a heartbeat *)
Heartbeat(f) ==
  /\ seen' = [seen EXCEPT ![f] = Generation]
  /\ report' = [report EXCEPT ![f] = [generation |-> cfg[f],
                                      ready |-> Ready(f)]]
  /\ lost' = lost \ {f}
  /\ UNCHANGED <<ownerVars, lease, wire, strays, memberVars, budget>>

(* A mutant that does not ask whether the successor has the floorplan *)
MutantWritable == \A f \in Follower : report[f].generation = Generation

(* No member is behind, and the successor has the floorplan. *)
Writable ==
  /\ \A f \in Follower : report[f].generation = Generation
  /\ Published # NoPlan => report[Successor].ready

Publish(plan) ==
  /\ Generation < GenerationLimit
  /\ history' = Append(history, plan)
  /\ UNCHANGED <<lease, wire, strays, lost, seen, report, memberVars>>

(* A pairing or a calibration commits a generation whatever the members    *)
(* have.                                                                   *)
EditRoster ==
  /\ budget.edits > 0
  /\ Publish(Published)
  /\ budget' = [budget EXCEPT !.edits = @ - 1]
  /\ UNCHANGED ownerStore

(* The dashboard replaces one payload of the Owner's storage. *)
Upload(target) ==
  /\ Writable
  /\ \E v \in Version \ {0, ownerStore[target]} :
       ownerStore' = [ownerStore EXCEPT ![target] = v]
  /\ budget.uploads > 0
  /\ budget' = [budget EXCEPT !.uploads = @ - 1]
  /\ UNCHANGED <<history, lease, wire, strays, lost, seen, report, memberVars>>

CommitFloorplan ==
  /\ Writable
  /\ ownerStore.config # 0 /\ ownerStore.image # 0 /\ ownerStore # Published
  /\ Publish(ownerStore)
  /\ UNCHANGED <<ownerStore, budget>>

-----------------------------------------------------------------------------
(* The source *)

Refused(ask) ==
  /\ ask.what # "configuration"
  /\ \/ Published = NoPlan
     \/ ask.what \in {"configMeta", "config"}
          /\ ownerStore.config # Published.config
     \/ ask.what \in {"imageMeta", "image"}
          /\ ownerStore.image # Published.image

Content(ask) ==
  CASE ask.what = "configuration" -> Generation
    [] ask.what \in {"configMeta", "config"} -> ownerStore.config
    [] OTHER -> ownerStore.image

AnswerTo(f, ask) ==
  IF lease \notin {None, f} THEN Bare("busy")
  ELSE IF Refused(ask) THEN Bare("error")
  ELSE [kind |-> "ok", tag |-> Content(ask)]

(* Another member's lease stays; an error and the last chunk release it.   *)
LeaseAfter(f, ask) ==
  IF lease \notin {None, f} THEN lease
  ELSE IF \/ Refused(ask)
          \/ Last(ask) /\ ask.what = "image"
          \/ Last(ask) /\ ask.what = "configuration" /\ Published = NoPlan
       THEN None
       ELSE f

Serve(f) ==
  /\ Requesting(f)
  /\ wire' = [wire EXCEPT ![f] = AnswerTo(f, Asked(session[f]))]
  /\ lease' = LeaseAfter(f, Asked(session[f]))
  /\ UNCHANGED <<ownerVars, strays, lost, seen, report, memberVars, budget>>

(* A copy of an earlier request: the replay cache drops it or repeats an   *)
(* answer that nobody waits for, unless another member's request or the    *)
(* time has replaced the entry.                                            *)
ServeStray(r) ==
  /\ strays' = strays \ {r}
  /\ lease' \in {lease, LeaseAfter(r.from, r.ask)}
  /\ UNCHANGED <<ownerVars, wire, lost, seen, report, memberVars, budget>>

(* The lease of a member that asks no more, or, at the price of a fault,   *)
(* of one that erases its flash for too long                               *)
Expire ==
  /\ lease # None
  /\ \/ (~Active(lease) \/ wire[lease].kind = "lost") /\ UNCHANGED budget
     \/ ~Requesting(lease) /\ budget.faults > 0
          /\ budget' = [budget EXCEPT !.faults = @ - 1]
  /\ lease' = None
  /\ UNCHANGED <<ownerVars, wire, strays, lost, seen, report, memberVars>>

-----------------------------------------------------------------------------
(* A member's session *)

(* The session asks for what is next. *)
Continue(f, s) ==
  /\ session' = [session EXCEPT ![f] = s]
  /\ wire' = [wire EXCEPT ![f] = Bare("request")]
  /\ UNCHANGED <<cfg, store>>

End(f, state) ==
  /\ session' = [session EXCEPT ![f] = [NoSession EXCEPT !.state = state]]
  /\ wire' = [wire EXCEPT ![f] = Bare("lost")]

Fail(f) == End(f, "failed") /\ UNCHANGED <<cfg, store>>

(* A mutant that commits the configuration before the floorplan *)
MutantCommitted(f, g, cut) ==
  [cfg |-> IF g > cfg[f] THEN g ELSE cfg[f],
   store |-> IF cut THEN store[f] ELSE history[g]]

(* The floorplan's header is written before the configuration; a power cut *)
(* may come in between, or, see PowerCut, within the header's write.       *)
Committed(f, g, cut) ==
  [cfg |-> IF g > cfg[f] /\ ~cut THEN g ELSE cfg[f], store |-> history[g]]

(* COMMITTING: the floorplan becomes that of generation g, then the        *)
(* configuration is replaced, if it is not current already.                *)
Commit(f, g) ==
  /\ cfg' = [cfg EXCEPT ![f] = Committed(f, g, FALSE).cfg]
  /\ store' = [store EXCEPT ![f] = Committed(f, g, FALSE).store]
  /\ End(f, "complete")

(* The whole configuration has arrived: a mixture fails its checksum, an   *)
(* older one is a conflict, and a floorplan that is stored is not fetched. *)
Validate(f, s, received) ==
  LET g == received[1] IN
  IF received[2] # g THEN Fail(f)
  ELSE IF g < cfg[f] THEN End(f, "conflict") /\ UNCHANGED <<cfg, store>>
  ELSE IF history[g] \in {NoPlan, store[f]} THEN Commit(f, g)
  ELSE Continue(f, [s EXCEPT !.state = "configMeta", !.received = <<>>,
                             !.remote = g])

(* commit_floorplan_replica: both payloads have the hashes of the manifest *)
Whole(s, received) ==
  /\ s.config = history[s.remote].config
  /\ \A i \in 1..2 : received[i] = history[s.remote].image

Following(what) ==
  [configMeta |-> "imageMeta", imageMeta |-> "config",
   config |-> "image"][what]

(* What the member does with a complete payload; the replica of a          *)
(* floorplan is not begun without a header.                                *)
Complete(f, s, received) ==
  CASE s.state = "configuration" -> Validate(f, s, received)
    [] s.state = "configMeta" /\ received[1] # history[s.remote].config ->
         Fail(f)
    [] s.state = "imageMeta" /\ (\/ received[1] # history[s.remote].image
                                 \/ store[f] = Erased) ->
         Fail(f)
    [] s.state = "image" ->
         IF Whole(s, received) THEN Commit(f, s.remote) ELSE Fail(f)
    [] OTHER ->
         Continue(f, [s EXCEPT !.state = Following(s.state), !.received = <<>>,
                               !.config = received[1]])

(* A mutant that counts one retry too many *)
MutantBusyAgain(s) == s.busy <= BusyLimit

(* site_replication_busy_retry_allowed *)
BusyAgain(s) == s.busy < BusyLimit

Receive(f) ==
  /\ Answered(f)
  /\ LET s == session[f]
         received == Append(s.received, wire[f].tag)
         ok == [s EXCEPT !.busy = 0, !.retries = 0]
     IN \/ wire[f].kind = "error" /\ Fail(f)
        \/ wire[f].kind = "busy" /\ ~BusyAgain(s) /\ Fail(f)
        \/ /\ wire[f].kind = "busy" /\ BusyAgain(s)
           /\ session' = [session EXCEPT ![f].busy = s.busy + 1]
           /\ wire' = [wire EXCEPT ![f] = Bare("later")]
           /\ UNCHANGED <<cfg, store>>
        \/ /\ wire[f].kind = "ok"
           /\ IF Len(received) < Chunks(s.state)
              THEN Continue(f, [ok EXCEPT !.received = received])
              ELSE Complete(f, ok, received)
  /\ UNCHANGED <<ownerVars, lease, strays, lost, seen, report, tracker,
                 budget>>

(* BUSY_RETRY_DELAY has passed. *)
RetryBusy(f) ==
  /\ Active(f) /\ wire[f].kind = "later"
  /\ wire' = [wire EXCEPT ![f] = Bare("request")]
  /\ UNCHANGED <<ownerVars, lease, strays, lost, seen, report, memberVars,
                 budget>>

(* REQUEST_TIMEOUT has passed without an answer. *)
TimeOut(f) ==
  /\ Active(f) /\ wire[f].kind = "lost"
  /\ IF session[f].retries = RetryLimit THEN Fail(f)
     ELSE Continue(f, [session[f] EXCEPT !.retries = @ + 1])
  /\ UNCHANGED <<ownerVars, lease, strays, lost, seen, report, tracker,
                 budget>>

-----------------------------------------------------------------------------
(* The tracker *)

(* observe_candidate: a generation newer than the local one *)
Observed(f) ==
  LET t == tracker[f] IN
  IF /\ seen[f] > cfg[f]
     /\ seen[f] \notin {t.active, t.pending, t.blocked}
  THEN [t EXCEPT !.pending = seen[f], !.blocked = 0]
  ELSE t

(* A mutant that forgets the generation of a failed session *)
MutantTracked(f) ==
  LET t == Observed(f) IN
  IF t.active = 0 THEN t
  ELSE IF cfg[f] >= t.active
            \/ session[f].state \in {"complete", "failed", "conflict"}
  THEN [t EXCEPT !.active = 0,
                 !.blocked = IF session[f].state = "failed" THEN t.active
                             ELSE @]
  ELSE t

(* observe_transport: what became of the session it started *)
Tracked(f) ==
  LET t == Observed(f) IN
  CASE t.active = 0 -> t
    [] t.active # 0 /\ (cfg[f] >= t.active \/ session[f].state = "complete") ->
         [t EXCEPT !.active = 0]
    [] t.active > cfg[f] /\ session[f].state = "failed" ->
         [t EXCEPT !.active = 0,
                   !.pending = IF @ > t.active THEN @ ELSE t.active]
    [] t.active > cfg[f] /\ session[f].state = "conflict" ->
         [NoTracking EXCEPT !.blocked = t.active]
    [] OTHER -> t

Begin(f) ==
  /\ session' = [session EXCEPT ![f] =
                   [NoSession EXCEPT !.state = "configuration"]]
  /\ wire' = [wire EXCEPT ![f] = Bare("request")]

(* The loop's scheduling, before a retry is due *)
Track(f) ==
  /\ tracker' = [tracker EXCEPT ![f] = Tracked(f)]
  /\ UNCHANGED <<ownerVars, lease, wire, strays, cfg, store, lost, seen,
                 report, session, budget>>

(* The same when the pending session is due *)
Start(f) ==
  /\ ~Active(f) /\ Tracked(f).pending # 0
  /\ tracker' = [tracker EXCEPT ![f] =
                   [Tracked(f) EXCEPT !.active = Tracked(f).pending,
                                      !.pending = 0]]
  /\ Begin(f)
  /\ UNCHANGED <<ownerVars, lease, strays, cfg, store, lost, seen, report,
                 budget>>

(* Synchronisation from the dashboard starts over, or leaves a running     *)
(* session without its tracker.                                            *)
Sync(f) ==
  /\ budget.syncs > 0 /\ (cfg[f] # seen[f] \/ ~Ready(f))
  /\ budget' = [budget EXCEPT !.syncs = @ - 1]
  /\ tracker' = [tracker EXCEPT ![f] = NoTracking]
  /\ IF Active(f) THEN UNCHANGED <<session, wire>> ELSE Begin(f)
  /\ UNCHANGED <<ownerVars, lease, strays, cfg, store, lost, seen, report>>

-----------------------------------------------------------------------------
(* The network and the power *)

Lose(f) ==
  /\ Requesting(f) \/ Answered(f)
  /\ budget.faults > 0
  /\ wire' = [wire EXCEPT ![f] = Bare("lost")]
  /\ budget' = [budget EXCEPT !.faults = @ - 1]
  /\ UNCHANGED <<ownerVars, lease, strays, lost, seen, report, memberVars>>

(* A request is duplicated or overtaken. *)
Copy(f) ==
  /\ Requesting(f)
  /\ budget.copies > 0
  /\ strays' = strays \cup {[from |-> f, ask |-> Asked(session[f])]}
  /\ budget' = [budget EXCEPT !.copies = @ - 1]
  /\ UNCHANGED <<ownerVars, lease, wire, lost, seen, report, memberVars>>

Reboot(f) ==
  /\ session' = [session EXCEPT ![f] = NoSession]
  /\ tracker' = [tracker EXCEPT ![f] = NoTracking]
  /\ wire' = [wire EXCEPT ![f] = Bare("lost")]
  /\ seen' = [seen EXCEPT ![f] = 0]
  /\ UNCHANGED <<ownerVars, lease, strays, report>>

(* Statistics, the device configuration and a replica's commit write the    *)
(* header: its sector is erased first, and what it described is gone.      *)
CutInHeader(f) ==
  /\ store' = [store EXCEPT ![f] = Erased]
  /\ lost' = lost \cup {f}
  /\ UNCHANGED cfg

(* A member's power fails, outside of any write, in that of a header, or   *)
(* between the two writes of a commit.                                     *)
PowerCut(f) ==
  /\ budget.cuts > 0
  /\ budget' = [budget EXCEPT !.cuts = @ - 1]
  /\ Reboot(f)
  /\ \/ UNCHANGED <<cfg, store, lost>>
     \/ CutInHeader(f)
     \/ /\ session[f].state = "image" /\ wire[f].kind = "ok"
        /\ Len(session[f].received) = 1
        /\ Whole(session[f], Append(session[f].received, wire[f].tag))
        /\ LET after == Committed(f, session[f].remote, TRUE) IN
           /\ cfg' = [cfg EXCEPT ![f] = after.cfg]
           /\ store' = [store EXCEPT ![f] = after.store]
        /\ UNCHANGED lost

(* The statistics of a day that has ended are saved, and a header that is  *)
(* not there begins anew, without a floorplan.                             *)
SaveStatistics(f) ==
  /\ store[f] = Erased
  /\ store' = [store EXCEPT ![f] = NoPlan]
  /\ UNCHANGED <<ownerVars, lease, wire, strays, cfg, lost, seen, report,
                 session, tracker, budget>>

(* The Owner's power fails: the lease and what is in flight are gone, and, *)
(* in a write of its header, its floorplan.                                *)
OwnerPowerCut ==
  /\ budget.cuts > 0
  /\ budget' = [budget EXCEPT !.cuts = @ - 1]
  /\ lease' = None
  /\ wire' = [f \in Follower |-> IF Requesting(f) THEN Bare("lost")
                                 ELSE wire[f]]
  /\ report' = [f \in Follower |-> [generation |-> 0, ready |-> FALSE]]
  /\ ownerStore' \in {ownerStore, NoPlan}
  /\ UNCHANGED <<history, strays, lost, seen, memberVars>>

-----------------------------------------------------------------------------
Init ==
  /\ \E s \in Setup :
       /\ history = <<s.plan>>
       /\ ownerStore = s.plan
       /\ store = [f \in Follower |-> s.plan]
       /\ budget = s.budget
  /\ cfg = [f \in Follower |-> 1]
  /\ lease = None
  /\ wire = [f \in Follower |-> Bare("lost")]
  /\ strays = {}
  /\ lost = {}
  /\ seen = [f \in Follower |-> 0]
  /\ report = [f \in Follower |-> [generation |-> 0, ready |-> FALSE]]
  /\ session = [f \in Follower |-> NoSession]
  /\ tracker = [f \in Follower |-> NoTracking]

Next ==
  \/ EditRoster
  \/ \E target \in {"config", "image"} : Upload(target)
  \/ CommitFloorplan
  \/ \E f \in Follower :
       \/ Heartbeat(f)
       \/ Serve(f)
       \/ Receive(f)
       \/ RetryBusy(f)
       \/ TimeOut(f)
       \/ Track(f)
       \/ Start(f)
       \/ Sync(f)
       \/ Lose(f)
       \/ Copy(f)
       \/ PowerCut(f)
       \/ SaveStatistics(f)
  \/ \E r \in strays : ServeStray(r)
  \/ Expire
  \/ OwnerPowerCut

Spec == Init /\ [][Next]_vars

(* Heartbeats go on, a request or an answer that is not lost is handled,   *)
(* every time-out ends and every day, because the loops of the nodes and   *)
(* their clocks go on.                                                     *)
Fairness ==
  /\ WF_vars(Expire)
  /\ \A f \in Follower :
       /\ WF_vars(Heartbeat(f))
       /\ WF_vars(Serve(f))
       /\ WF_vars(Receive(f))
       /\ WF_vars(RetryBusy(f))
       /\ WF_vars(TimeOut(f))
       /\ WF_vars(Track(f))
       /\ WF_vars(Start(f))
       /\ WF_vars(SaveStatistics(f))

LiveSpec == Spec /\ Fairness

-----------------------------------------------------------------------------
(* Properties *)

State == Transfer \cup {"idle", "complete", "failed", "conflict"}
GenerationOrNone == 0..GenerationLimit

(* Every variable holds a value of its kind; no member knows of a            *)
(* generation that is not committed, and retries stay within their limits.   *)
TypeOK ==
  /\ history \in Seq(Plan) /\ Generation \in 1..GenerationLimit
  /\ ownerStore \in Plan
  /\ lease \in Follower \cup {None}
  /\ wire \in [Follower -> Message]
  /\ strays \subseteq [from : Follower, ask : Ask]
  /\ cfg \in [Follower -> 1..Generation]
  /\ store \in [Follower -> Plan \cup {Erased}]
  /\ lost \subseteq Follower
  /\ seen \in [Follower -> 0..Generation]
  /\ report \in [Follower -> [generation : 0..Generation, ready : BOOLEAN]]
  /\ session \in [Follower ->
       [state : State, received : Seq(0..GenerationLimit \cup Version),
        remote : GenerationOrNone, config : GenerationOrNone \cup Version,
        busy : 0..BusyLimit, retries : 0..RetryLimit]]
  /\ tracker \in [Follower ->
       [active : GenerationOrNone, pending : GenerationOrNone,
        blocked : GenerationOrNone]]
  /\ budget \in Budget

(* The payloads a member has stored are one floorplan that was committed,  *)
(* and none older than the configuration that describes them.              *)
WholeReplica(f) == \E g \in cfg[f]..Generation : store[f] = history[g]

NoReplica(f) == store[f] \in {Erased, NoPlan}

(* Whatever is lost or late, a member's floorplan is whole, no mixture     *)
(* and never older than its configuration, so that a member that takes     *)
(* over can serve what it knows of; or it has none, and that only because  *)
(* the power failed in a write of the header.  The documentation excepts   *)
(* no cut: "an interrupted pull keeps the previous floorplan active"       *)
(* (implementation-roadmap.md:731-733).                                    *)
ReplicaWhole ==
  /\ [](\A f \in Follower : WholeReplica(f) \/ NoReplica(f))
  /\ [][\A f \in Follower :
          WholeReplica(f) =>
            \/ WholeReplica(f)'
            \/ store'[f] = Erased /\ budget'.cuts < budget.cuts]_vars

(* The Owner commits a new floorplan only while its successor holds the    *)
(* present one with the configuration it belongs to, however old what the  *)
(* heartbeats said about it: a failure of the Owner at that moment costs   *)
(* at most the new one, unless a cut has cost the successor its floorplan  *)
(* since the last heartbeat from it.                                       *)
BackedUp ==
  [][Len(history') > Generation /\ history'[Generation + 1] # Published =>
       /\ cfg[Successor] = Generation
       /\ Published # NoPlan =>
            store[Successor] = Published \/ Successor \in lost]_vars

Available == Published # NoPlan => ownerStore = Published

(* Once the Owner's storage is for good what it has published, and         *)
(* however many failed sessions, leases and conflicts there have been,     *)
(* every member holds the last generation with its floorplan in the end,   *)
(* and the Owner may write again; also after a cut in the commit's header. *)
(* Nobody fetches a floorplan again for a member that lost it later and is *)
(* not behind, and without the successor's the Owner stays read-only.      *)
CatchesUp ==
  <>[]Available =>
    <>[](/\ \A f \in Follower :
              cfg[f] = Generation /\ (store[f] = Published \/ NoReplica(f))
         /\ Writable \/ NoReplica(Successor))
=============================================================================
