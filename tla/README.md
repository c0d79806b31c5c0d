# A verification project for the NAMO node firmware

NAMO is a presence sensor firmware: ESP32 nodes with LD2450/LD2410 radars that
run as ESPHome components (`src/components/radar_api_server`), a dashboard that
the node serves (`src/dashboard`) and host tools (`src/tools`). A Site is a set
of nodes that share one configuration, elect a Site Leader, are divided into
Groups with a Leader of their own, exchange signed observations, and fuse them
into one occupancy state per space that home automation may act on. These
modules model the distributed part of the firmware, where what one node does
depends on what others said earlier, and check it with TLC; the theorems hold
for every value of the constants and are checked by TLAPS.

Paths below are relative to `src/components/radar_api_server/` unless they
start with `src/`.

## 1. The system

### Components, their state and their operations

| Component | Files | State | Operations |
|---|---|---|---|
| Role election | `role_election_fence.h`, `role_quorum.h`, `role_leader_preference.h`, `role_view_consistency.h` | none (pure rules) | next term, quorum, local and remote term decision, candidate order, consistency of views |
| Site coordinator | `site_coordinator.cpp` | leader, term, lease, quorum, election digests, suspended Leader, start-up probe, standalone authority, transition views | `update`, `observe_heartbeat`, `suspend_authority_` |
| Site heartbeats | `site_heartbeat.cpp` | endpoint cache, cycle sequence, per-sender boot and sequence | send cycle, receive, endpoint aging |
| Group coordinator | `group_coordinator.cpp`, `group_membership.cpp` | the same per Group, and the readiness of the members | `update`, heartbeats |
| Two-slot stores | `load`, `create`, `update` in `site_membership.cpp`, `participant_registry_store.cpp`, `participant_readiness.cpp`, `site_configuration.cpp`, `site_directory.cpp`, `group_roster.cpp`, `participant_credentials.cpp`, `firmware_update_security.cpp`; sectors in `radar_storage.cpp` | two slots with a generation and a checksum, a commit record that names one | load, repair the record, create, update, commit |
| Site configuration | `site_configuration.cpp` | two stored slots with a generation, roster revision, authority epoch, owner | load, recover, compare and swap commits |
| Directory, Group roster | `site_directory.cpp`, `group_roster.cpp`, `site_membership.cpp` | revisions and digests of participants, Groups and spaces | commit, compare, validate |
| Site authority, replication | `site_authority.cpp`, `site_replication.cpp` | replicas' progress, replication sessions | propose, record, commit, pull, retry |
| Credentials, pairing, enrollment | `participant_credentials.cpp`, `credential_provisioning.cpp`, `participant_pairing*.cpp`, `participant_enrollment.cpp` | enabled credentials, pairing session, pending enrollment | provision, open, confirm, expire, cancel |
| Observation transport | `observation_transport.cpp`, `participant_readiness.cpp` | send timers, rate windows, inbox, admitted sequences per sender | send, receive, admit, expire |
| Fusion snapshot and automation | `fusion_snapshot.cpp`, `fusion_automation.cpp`, `presence_fusion.cpp`, `shared_automation_area.cpp` | cached snapshot, automation state, its continuity source | admit, store, expire, update, hold, clear |
| Presence | `presence_tracker.cpp`, `legacy_presence.cpp`, `software_zone_evidence.cpp` | tracks, holds | update, expire |
| Radar streams | `ld2410_stream_health.cpp`, and the manager in `radar_api_server.cpp` | a transaction of commands, the watchdog's recovery, requests and their results | start, step, fail, recover, settle, verify |
| Spatial fusion | `spatial_shadow_fusion.cpp`, `spatial_production_fusion.cpp` | fused targets | associate, expire |
| Platform operations | `platform_operation.cpp`, `platform_handler.cpp` | a lease, and copies of three stores | execute an action on up to five stores, roll back |
| Node main loop | `radar_api_server.cpp` | schedules all of the above | 500 ms coordination step, heartbeat step, automation refresh |
| Stores, logs, setup, update, HTTP | `participant_registry*`, `platform_identity*`, `stats_store.cpp`, `diagnostic_log.cpp`, `device_config_cache.cpp`, `setup_*`, `firmware_update_*`, `*_handler.cpp` | flash records, ring buffers, upload and Wi-Fi trial sessions | load, append, commit, time out |
| Dashboard, tools, scripts | `src/dashboard`, `src/tools`, `src/scripts` | browser state; test rigs | outside the node |

### How they interact

* The components of a node run in its ESPHome main loop: timers, received UDP packets and pairing are steps
  of it, so a component is a sequential object there. HTTP requests run in the web server's own
  task; those that change relationships share a lease with pairing, and few others have one. Elsewhere
  concurrency is *between* nodes.
* Every 500 ms the loop runs the Site coordinator and then the Group
  coordinator (`radar_api_server.cpp:2832-2901`); every 2 s it starts a
  heartbeat cycle (`2903-2982`) that reads what the coordinators decided. A
  received heartbeat only fills a slot; the next coordination step reads it. So
  the evidence of a decision is up to a lease old when it is used.
* A heartbeat carries what the sender knows of the recipient's configuration:
  the wire version depends on what that peer said before
  (`site_heartbeat.cpp:1427`), which couples the endpoint caches of two nodes.
* The Site Leader and the Directory fence decide whether the Groups are
  canonical, a Group's Leader which snapshots are admitted, the cached snapshot
  what the automation publishes.
* Roster, Directory and credential changes begin at the Owner and reach the
  other nodes in sessions that may be interrupted and repeated; the Owner serves one
  member at a time, and its heartbeats tell the members that there is something to fetch.

### What is hard

* *Interleaving*: nodes coordinate at different moments on evidence of different
  age; nothing is agreed in one step, not even a majority.
* *Unreliable delivery*: UDP, lost and late heartbeats, changed addresses.
* *Crash and restart*: leader, term and every received heartbeat are volatile, so a
  restarted node must not lead with a term that its followers have already left.
* *Half-done writes*: a store is three flash sectors, each erased and then written; power
  may fail anywhere in between, and a failed write leaves the running node with a store that its
  next update has to cope with.
* *Staleness*: roster revisions, Directories and credentials differ between nodes
  while they spread, and enter the election digest that the peers must endorse.
* *Liveness*: a candidate that a majority will not endorse, a Leader that a node
  refuses, or a wire version that two restarted nodes never reach, leave the
  Site without a Leader although every node is well.
* *Time-outs and holds*: an expired snapshot must not become "unoccupied", and a
  hold must not be prolonged without end by new events.
* *A device that does not answer*: a radar that misses a command is in another mode than the node
  believes, and while it is configured it reports nothing.
* *Numeric edges*: the majority of an even membership, saturating terms,
  millisecond counters that wrap after 49.7 days.

### What makes the components correct

* Role election: two quorums share a voter; a term never falls; a different Leader
  needs a newer term.
* Site election: at most one Leader of a Site at a time; no lease outlives the
  heartbeats it rests on; losses cost no term, roster changes no Leader; a restarted
  Leader catches up before it leads; once failures stop all nodes follow one Leader
  and have one Directory; a node that stays in a minority gives up.
* Group election: a new Leader has the votes of a majority; an established Leader keeps its role while
  roster and assignment spread; members that agree on their inputs agree on a Leader, which is
  not the Site Leader if it can be avoided.
* Replication: what a member stores is one floorplan that was committed, unless the power fails in a write of its header; nothing new is committed
  before the successor has what there is; every member catches up.
* Observations and automation: nothing older replaces something newer of the same
  source; state of a deposed Leader is not used; a hold is bounded.
* Relationships: registry, profile, credential and roster of a participant agree when an operation
  ends, whatever failed; one that is refused changed nothing; a device alone owns its Site.
* Stores: after any crash a load finds the last value reported done, or a later one whose update
  was interrupted, whole; and no running node works with a value it could lose.
* Sessions (pairing, update, Wi-Fi trial, platform operation): each ends, committed on
  all nodes it concerns or undone, and a late answer of an earlier session changes
  nothing.

## 2. The modules

`RoleElection` has the rules that Site and Group elections share; `SiteElection` and
`GroupElection` use them. `ObservationDelivery` is about what reaches an elected Group Leader,
`FusionAutomation` about what it produces and how long it is believed. `SiteReplication` is how
the configuration that all of them rest on gets to the members, `ParticipantOperations` how one device
comes to have a Site, members and credentials at all. `RadarControl` stands apart: how a node commands
one of its radars.
`TwoSlotStore` implements `DurableValue`: what a node finds again after it lost power,
which is what `PowerOn` in `SiteElection` reads back.

### RoleElection

The pure functions of `role_election_fence.h` and `role_quorum.h` as operators:
`NextRoleTerm` (saturating), `StrictMajority`, `QuorumAvailable`,
`RemoteTermAccepted`, `LocalTerm`, `DecideRoleTerm`, the endorsement rule
`PreserveIncumbentEndorsements` and the memory of earlier views. No state.

### SiteElection

One `SiteCoordinator` per node, the heartbeats between the nodes, and the
coordination step that drives them.

| In the model | In the code |
|---|---|
| `Update(n)` = `KeepProbing`, `LoseQuorum`, `FindNoWinner`, `RefuseTerm`, `LeadOrFollow` | the outcomes of `SiteCoordinator::update` |
| `Winners`, `Preferred`, `Penalty`, `DirectoryCandidateAllowed`, `Endorsed`, `Incumbent` | `elect_leader_` and its candidate order; `Penalty` is what the evaluating node's own Directory says of a candidate |
| `Endorsements`, `BoundedTransition`, `TransitionalEndorsements`, `ViewsAfter` | the endorsement count and its tolerance for one roster revision |
| `Send`, `Wire`, `Heartbeat`, `EndpointAfter`, `Admissible`, `SlotAfter`, `ReceiveLate` | `SiteHeartbeatTransport` and `observe_heartbeat` |
| `CommitRoster`, `AdoptRoster`, `ProvisionCredentials`, `CommitDirectory`, `PullDirectory` | the guards and effects of configuration, credential and Directory replication in `radar_api_server.cpp` |
| `PowerOff`, `PowerOn`, `Started` | the volatile state is lost; configuration, Directory and credentials are read back from flash; `setup()` runs the coordinator once before anybody is heard |
| `Tick` | one heartbeat interval (2 s): leases, slots and the probe count down |
| `Settle` | not code: from here on nothing fails any more (`calm`), which the liveness properties need |

`leader`, `term`, `lease`, `quorum`, `view`, `suspended`, `probe`, `standalone`,
`views` and `rosterSeen` are the members of one coordinator; `slots` are its
heartbeat slots, `endpoints`, `cycle` and `sent` its transport.

Abstractions, and what they leave out:

* Time is counted in heartbeat intervals. A lease is 3 of them, as 6 s to 2 s.
  Within an interval every powered node runs its coordinator after the last
  heartbeat it read and starts one cycle, in any order (`Tick` waits for it, as
  the 500 ms loop does); so two nodes that differ in phase are covered, two clocks
  that drift apart by more than an interval are not.
* A node hears nobody before its coordinator has run once: `setup()` calls `update` before it registers the handler
  (`radar_api_server.cpp:789-847`). And a boot, which brings up Wi-Fi after that, takes longer than the 500 ms within which
  every other node runs its coordinator on what it had heard before (guard of `PowerOn`). This is an assumption about the
  device, and the proof of `SingleLeader` does not need it.
* Only active members of the committed roster that hold each other's credentials
  and have discovered each other's address exchange heartbeats. Quarantined
  members, the control-plane heartbeats of other versions, peers with older
  firmware, and a change of the authority epoch or of the Owner are left out. So is
  the endpoint evidence that the enrollment of a newcomer needs.
* A heartbeat can be lost or delayed by up to one interval, not duplicated or
  reordered with a later one of the same sender: the sequence tracker of the
  transport refuses those within one boot.
* A peer counts as online while its heartbeat slot lives (in the code 8 s after its
  last packet instead of 6 s), and the count of cycles restarts at 0 when every
  peer is known, because it matters only while one is not.
* A credential session delivers the whole bundle, a Directory is copied as one
  value; both sessions are modules of the plan. Of what a Directory says only its fence and whom it makes Group Leader
  (`GroupLeaders`) are left, because an election reads no more of it.
* A node's own credential for a peer is the one under the Owner's record
  (`credential_provisioning.cpp:431`), which every paired node has.

### FusionAutomation

The way of a fused state from the Group Leader to the automation values that
every member offers (`fusion_snapshot.cpp`, `fusion_automation.cpp` and the parts
of the loop that drive them).

| In the model | In the code |
|---|---|
| `Observe(n)` = `Fuse` or `Pause` | the 500 ms observation cycle: `SpatialShadowRuntime` and `SpatialProductionFusion::update`, then `ObservationTransport::send_fusion_snapshot`, one snapshot to each member |
| `Receive(n, p)` | a received snapshot: `evaluate_fusion_snapshot_admission` and `FusionSnapshotCache::store` |
| `Refresh(n)` = `WithoutGroup`, `Misposed`, `Unassigned`, `LocalAuthority`, `RemoteAuthority` | the branches of `refresh_fusion_automation_`, in their order |
| `Healthy`, `MarkUnavailable`, `Holdable`, `Held`, `HoldOrDrop` | `update_local`, `update_remote`, `mark_unavailable`, `mark_recovering`, `preserve_continuity_or_mark_unavailable` of `FusionAutomationState` |
| `Reelect`, `LoseLeader` | the node's `GroupContract` changes. Not code of these components: the environment, of which only what `TermsGrow` and `NewLeaderNewTerm` say of a role election is assumed |
| `Place` | the Group's assignment is not canonical or credentials lack (`unassigned`: values are held), the stored pose is not the configured one (`misposed`: withdrawn at once), no Group at all (`absent`) |
| `Restart` | everything but the configuration is lost, the boot identifier is new |
| `Tick` | 500 ms: snapshots age in the network and in the cache (`expire`), the hold runs down |
| `Settle` | not code, as in `SiteElection` |

Abstractions:

* What the values say is left out; only where they come from (`origin`, a boot
  of a Leader), under which term, and how old they are. Ages count from the
  Leader's output. In one boot of a Leader at most one snapshot
  goes to a member in 500 ms, so a lower sequence number is a higher age, and the
  comparison of sequence numbers becomes one of ages. `age` stops at `MaxAge`, beyond
  every bound a property has.
* The life of a cached snapshot is given back at a `Tick`, where the loop calls
  `expire` before anything reads the cache.
* `degraded` counts as `unavailable`: both offer no values. All nodes are members
  of one Group; members that leave are `absent`. Fusion is enabled in the build,
  space and Site do not change.
* A Leader that fuses has a valid source, or it pauses; which of the two is
  nondeterministic until `calm`, because the sources are outside this module.

### ObservationDelivery

The way of an observation from the sensor of a member to the fusion of its Group Leader
(`observation_transport.cpp`, `participant_readiness.cpp`, `spatial_shadow_runtime.cpp`).

| In the model | In the code |
|---|---|
| `Sense`, `SendCycle` | the LD2450 frame that renews the observation; `ObservationTransport::send`, every 500 ms |
| `Receive` = `Fits`, `Counted`, `Admits`, `Sample` | `process_packet_`: the rate limiter first, then `ObservationAdmission::admit`, then the inbox |
| `Lose`, `Delay`, `Receive` with `again` | the network loses, delays and copies packets, in any order |
| `Fuse`, `FindNoSource`, `MissPose`, `MissGroup`, `HardStop` | the outcomes of `SpatialShadowRuntime::update`: active, paused in its scope, paused, stopped |
| `Commit`, `AdoptDevice`, `AdoptOwn`, `AdoptKnown` | a new pose of a radar, and its arrival in the radar's node, the sender's roster and the Leader's roster, in any order |
| `Restart`, `RestartLeader`, `Wrap` | restarts; the 32-bit millisecond clock of the Leader starts again from 0 |
| `Tick` | 500 ms: the observations in flight, in the inbox and in the windows age |

A boot's sequences only grow, so a lower sequence is an observation sent earlier, and sequences are
compared as ages. Left out: readiness profiles and summaries on the same socket, which share the rate
limiter's budget with nothing this module sends; signatures; the values themselves.
`InOrder` needs that a restart takes longer than a packet's delay, because the admission remembers
one boot only: `satellite-protocol.md:595-597` would have it refuse a boot that was replaced.

### GroupElection

One `GroupCoordinator` per member of a Group, with the heartbeats of the Site.

| In the model | In the code |
|---|---|
| `Update` = `LoseQuorum`, `FindNoWinner`, `RefuseTerm`, `LeadOrFollow` | the outcomes of `GroupCoordinator::update` |
| `Incumbent`, `Endorsed`, `Assigned`, `Preferred`, `Winners` | the order in which `elect_leader_` looks for a winner |
| `CombinationAllowed`, `AssignmentAllowed`, `Penalty` | who may lead a Group beside being Owner or Site Leader (`site_configuration.cpp`) |
| `BoundedTransition`, `EarlierViews`, `IncumbentVouches`, `TransitionalEndorsements` | the tolerance for one change of roster or assignment |
| `Send`, `Wire`, `Admissible`, `SlotAfter`, `KnownAfter`, `Started` | the heartbeats' fence and `accept_heartbeat`, which knows no Group before the first update |
| `SiteLeaderChanges`, `HearSiteLeader`, `CommitAssignment`, `PullDirectory`, `CommitRoster`, `AdoptRoster`, `Provision` | the inputs from the rest of the firmware |

The length of a boot is that of `SiteElection`. Within an interval a member coordinates and sends in any order: a heartbeat may precede the step, as the two cycles are independent. Nodes disagree freely about Site Leader, assignment, roster and credentials until `calm`; what one of
them is comes from the other modules. Heartbeats that the Site coordinator rejects are not told apart
from lost ones. That there is one Leader is no invariant, whatever the membership: votes are for a roster and a winner, without a
term, and they are withdrawn when the Site Leader changes, before the one they made Leader hears of it. What holds is
that a member takes a new Leader only with the votes of a majority (`NewLeaderEndorsed`); how two Leaders can go on is
the violation `OneGivesWay`. Members that hold no Directory, and have heard no digest, do not fence.

### SiteReplication

How a generation of the Site's configuration and its floorplan get from the Owner to the members
(`site_replication.cpp`, `site_authority.cpp`, `radar_storage.cpp`).

| In the model | In the code |
|---|---|
| `Writable`, `EditRoster`, `Upload`, `CommitFloorplan` | `evaluate_site_authority` and the Owner's edits; an upload goes to the storage first and is committed later |
| `Serve` = `AnswerTo`, `LeaseAfter`; `Expire` | the source side of the transport, and `SiteReplicationSourceLease` |
| `Receive` = `Continue`, `Validate`, `Complete`, `Commit`; `RetryBusy`, `TimeOut` | `process_response_`, the states of a session and its retries |
| `Tracked`, `Track`, `Start`, `Sync` | `SiteAuthorityReplicationTracker` and the loop that starts sessions; the dashboard's synchronisation |
| `Lose`, `Copy`, `ServeStray`, `PowerCut`, `OwnerPowerCut` | lost and copied requests, the replay cache, power cuts, also between the two writes of a commit |
| `CutInHeader`, `SaveStatistics` | `write_header_` erases the header's sector before it writes it; the day's statistics begin a new header where there is none |

A payload is what its chunks were read from: two chunks stand for many, and differ when the Owner's
storage was replaced between them. Time is abstract: a time-out runs only when something was lost, or
at the price of one of the faults of `Setup`. Left out: Directory, roster and credential
sessions, which use the same transport one at a time; the modes without a
quorum; routes; the staging of an upload.

The header of the storage describes floorplan, device configuration and statistics in one sector. Each of its writes erases it first, so a
cut in any of them, at any time, leaves a member with no floorplan (`Erased`), and the Owner likewise. Then `start_floorplan_replica` fails until
something begins a new header (`NoPlan`), which without a user the statistics do when a day ends. A header that was cut in the middle
counts as erased. A cut between the chunks of a save of statistics leaves an upload open that refuses replicas until the next
save as well; that is left out. The ghost variable `lost` says whose
floorplan was lost after the last heartbeat that the Owner got.

### DurableValue and TwoSlotStore

`DurableValue` is the promise: a register whose value is replaced as a whole
(`Take`), so that a power cut yields the old or the new one, and an update
that was confirmed is never lost. `TwoSlotStore` is one store, of any of the kinds
in `Setup`:

| Store | Medium | A boot without a usable commit record takes | Update from |
|---|---|---|---|
| membership | NVS | the only valid slot, if the record is absent | the stored value; the generation starts over |
| firmware trust | NVS | the newest valid slot, if the record is absent | the copy in RAM |
| Directory, Group roster | flash | the newest valid slot, absent or damaged | the stored value |
| participant credentials | flash | the newest valid slot, absent or damaged | the copy in RAM |
| participant registry, readiness, Site configuration | flash | the only valid slot, if the record is absent | the stored value |

| In the model | In the code |
|---|---|
| `Boot` = `Load`, `LoadAndRepair` or `Create` | `initialize_esp32_*`: `load`, its repair of the commit record, `create` if the store is empty |
| `Update` = `UpdateStored` or `UpdateCopy` | `update` up to its first write |
| `EraseSector`, `FinishSlot`, `FinishCommit`, `FinishRepair` | `write_slot_`, the commit record, and `write_platform_blob`, which erases a sector and then writes it |
| `FailWrite`, `PowerLoss` | an error of the driver at any point; a power cut at any point |
| `Recovered`, `RecoveredGeneration` | not a step: what `load` would return now |
| `used` | the snapshot that the caller of `load`, `create` and `update` keeps |

Left out: reads that fail or return something else the next time, a checksum that a torn sector
happens to satisfy, records of older layouts and their migration,
`replace_for_enrollment` and the quorum's variants of the update, updates that change nothing,
validation of the value, and a preference that a failed `sync` of the NVS
library keeps queued and writes with a later one. A node works with one value per
store; that a boot without its store falls back to defaults is the caller's.

### ParticipantOperations

One device and its relationships: what pairing, the participant actions of the HTTP API, the reset of all
connections and the return to a standalone Site write, store by store (`platform_operation.cpp`,
`participant_enrollment.cpp`, `participant_registry.cpp`, `site_configuration.cpp`, `radar_api_server.cpp`).

| In the model | In the code |
|---|---|
| `Approve`, `Configure`, `Reconfigure`, `Activate`, `Quarantine`, `Revoke`, `Forget`, `SetCommunityLeader`, `ManageMember` | the actions of `PlatformParticipantOperation::execute`, with the guards of `PlatformHandler`; `ManageMember` is REVOKE and FORGET of a member of the roster without a record |
| `CommitRoster`, `Reset` | `claimOwnership` and `commitRoster`; `reset_platform_relationships` |
| `CommitPairing` | `commit_participant_pairing`, in both roles, first time or retried |
| `Settle` | `process_standalone_site_reconciliation_` |
| `OpenWindow`, `Stage`, `CloseWindow` | the enrollment window |
| `PullConfiguration`, `Repaired` | a joiner's first configuration from its Owner, and the repair of its membership mode |
| `Write`, `Refuse`, `Fail`, `DeferMembership` | the next write of a transaction succeeds; an error found on the way; a write that fails; a membership that could not follow a committed roster |
| `Restore`, `RestoreFails` | `rollback_`, and a joiner that goes back to its former membership |
| `PowerCut`, `Loaded`, `Scheduled` | a power cut and the boot: what `setup` accepts of the stores, and the reconciliation it schedules |

`flash` is what the stores hold, `ram` the snapshots the program works with; they differ after a
reset's failed write only, which leaves its snapshot cleared. A `job` is a transaction of one task: the web
server's or the main loop's. Two jobs interleave at every write; the lease (`Leasing`) excludes engine and pairing from each
other, and nothing excludes the reset, `commitRoster` or the reconciliation. `broken` is a history of
the transactions that were left half done, `outcome` what the engine reported.

A write happened or it did not. For credentials, membership and Directory `TwoSlotStore` shows that this is so
whatever interrupts them. Registry, readiness and Site configuration repair strictly: after a cut while their
commit record is replaced they may not load again (`store_interrupted`), and what the device then does without
that store is not in this module. What its properties say of a boot holds where the store loads.

Abstractions: a participant's profile is absent, incomplete or complete; a configuration is its Site,
owner and members (revisions, spatial profiles and floorplans are left out); the Directory is written
but has no content. Whether a NAMO Node is online and has the floorplan, and whether the Owner may
write at all (the continuity gate), is left to the request. The invalidation of a profile, which the loop
starts itself, is a `Configure` of the web server's task. The handover of a Site to another Owner, and
every configuration pulled after the first, are not in this module.

What the properties except is what the code does not ensure:

* *Between membership and configuration.* Joining and the reset write the membership first. If power fails, or both the
  configuration's write and the way back fail, the configuration names this device as owner of another Site
  than its identity. Every later boot refuses it (`reconcile_unattested_namo_trust`, called by
  `initialize_esp32_site_configuration`), `site_configuration_ready()` stays false, and the
  reconciliation, the reset and every operation that would put it right ask for it first. The host test
  `standalone_reconciliation_finishes_an_interrupted_site_reset` (`site_configuration_tests.cpp:1489-1510`) expects that the
  reconciliation finishes such a reset. `AloneOwns` excludes exactly these (`broken` has `join` or `reset`).
* *The reset takes no lease.* `api-contract.md:1515-1517` says that HTTP and loop mutations cannot write concurrently; a
  reset can run across a pairing that commits and leave the peer's credential without its record.
* *A forgotten reconciliation.* `DeferMembership` reports success and leaves the membership to the loop. If an
  APPROVE is under way when the loop looks, it cancels the reconciliation, also when the APPROVE is rolled back; the next boot
  schedules it again. A reconciliation that has *failed* is marked "not required" in the same way
  (`refresh_owned_site_roster`, `radar_api_server.cpp:1137`), although the log says that pairing remains blocked
  until recovery succeeds (`:1313`).
* *A half forgotten member.* FORGET of a member without a record deletes what is left of its profile and credential
  and then writes the roster. It ignores the result of its first restoring write
  (`platform_operation.cpp:219-238`), so that it can report a refusal although the profile is gone: `RefusedRestores`
  excludes it (`erase` in `broken`).
* *A failed reset* leaves snapshots in memory that are ahead of the flash until the next boot: an operation
  that is refused then restores what memory says.

### RadarControl

How a node commands its LD2410: the requests for an engineering session, a gate write or a factory reset
(`control_handler.cpp`, `control_state.h`), the manager and the recovery in the loop
(`radar_api_server.cpp:2322-2663`), transactions of commands and the watchdog (`ld2410_stream_health.cpp`), and
the lambda that verifies a gate write (`src/packages/namo/lambdas/interval-500ms.yaml`).

| In the model | In the code |
|---|---|
| `Script`, `Started`, `AfterSend`, `AfterAnswer`, `AfterFailure`, `Completes`, `Fails` | `Ld2410CommandTransaction`: its sequences and its states |
| `Begin`, `Enter`, `GiveUp`, `Resume` | the actions of `Ld2410Watchdog::update` and what `process_ld2410_recovery_` does on each |
| `SettleDown`, `StayBlocked`, `Quarantined` | the settling after a recovery, and the quarantine of requests until then |
| `Manage` = what to do next (`StartNext`), and one step of the transaction | `process_ld2410_command_transaction_`, `finish_ld2410_command_transaction_` |
| `Interval` = `TakeGate`, `VerifyGate` or `ReportStatus` | the lambda, every 500 ms |
| `Ask`, `WriteDown` | a handler's checks and its writes, between which the loop may run |
| `Obey`, `Disobey`, `Boot`, `BrownOut`, `Frame` | not code: the radar and the ESPHome component that parses its answers |
| `Quiet`, `...Due` | deadlines and the age of the last frame |

A deadline passes when what it waits for will not come, or, as a fault, before it comes. Abstractions: one gate
for nine, one threshold for a gate's two; ten frames and 1.5 s are a `Frame` while nothing is on its way; of the
last eight answers the model has the one that is awaited. Left out: the parser of frames, and its
fallback when the node has no LD2410 component; the retry counters, which are only logged.

What the properties except, and TLC finds without the exception, is again a disagreement with the documentation
(`src/docs/api-contract.md:412-413`: "The firmware must leave engineering mode automatically when no active keepalive
arrives for 15 seconds"; 452-454: "Recovery completes only after configuration entry, module restart", ten frames and a pause):

* *A restart that is ignored.* The last command of a transaction is `disable`. When its answer is late or lost, the
  transaction fails and the watchdog takes over with `configuration_mode_open_` still set, so it sends the restart at once. The radar
  has left its configuration mode and ignores it; it streams, and the first of its frames counts as the
  recovery's, because the baseline is the one of the beginning. The module was not restarted, and if it was in
  engineering mode, it stays there with nobody's session until the next session or reset. `SessionEnds` exempts
  this (`Ignored`).
* *A node that restarts in a session.* The session is only in memory. A radar that streams in engineering mode when the
  node boots is left so: the startup synchronisation waits for it to leave the mode, and nobody tells it to. No element of
  `Setup` begins there; one that begins with the radar in its configuration mode ends well, by the watchdog.

Two more things a client may not expect: a session opened between the acceptance of a factory reset and the next turn of the loop
is started before the reset and then ended by it; and a reset that was accepted is dropped
by the quarantine, and the client not told, when a recovery begins before it.

## 3. The runs

| Run | Instance | What it shows |
|---|---|---|
| `election_boot` | 3 nodes, Directory common, credentials only from pairing | leases and terms hold through the first elections, whatever the order of the nodes' loops |
| `election_two` | 2 nodes; the heartbeats of one are lost and those of the other late; or those of the Leader are lost and a node is power cycled; or Directories forked at one revision, with which the nodes prefer the same one, each the other or each itself, and a Directory commit; or a second node joins an Owner that leads alone; or two roster revisions under a Leader that is not the preferred candidate | never two Leaders; a gap in the heartbeats costs no term; a restarted Leader is not behind its followers' term; one Leader and one Directory in the end, or, where forked Directories name different Group Leaders, no Leader at all; a node left alone gives up; an established Leader leads on without a gap |
| `group` | 2 members; a restart; late credentials and a late assignment; lossy links while the Site Leader changes; a roster revision; a Site Leader and then an assignment that change | a new Leader has the votes of a majority, whatever the members disagree about; an established one is kept over changes, and one is found in the end |
| `group_refused` | 2 members, one of them Owner and Site Leader; two restarts | *violated*: who knew a Leader in a newer term refuses it after its restart, for ever |
| `group_split` | 2 members whose Site Leader changes twice, and then their roster | *violated*: both lead for ever, in the same term |
| `observation` | 1 sender; a restart and a copy, a new pose and an interruption, or a wrapped clock | nothing older replaces what was fused, nothing is older than its life and one delay; no sender that keeps to its rate is refused; tracks are of one pose; every sender is heard in the end |
| `automation` | 2 nodes, 3 disturbances, restarts; the network forgets a snapshot before a cache does | what a home automation may use is bounded in age; nothing of a Leader's boot is replaced by something older; every member recovers |
| `replication` | an Owner and 2 members; two floorplans, or one and a roster change; a first floorplan or another one and a power cut; one and a synchronisation; one, a lost message and a copied one; a roster change, a cut and a synchronisation | what a member stores is whole, or nothing after a cut in a header; the successor has what the Owner replaces; everybody catches up |
| `store_crash` | six stores, new ones on NVS, created ones on every medium; 2 values, 3 generations | through any power cuts and failed writes a store can be loaded, is a register, never falls back, and a node works with nothing it could lose |
| `store_interrupted` | a registry on flash | *violated*: two whole slots and no record are not loadable |
| `participants` | a Node and a satellite; a new device, an Owner with a member it has no record of, the same with a profile that an interrupted rollback left, a joined member; 3 operations, 3 failed writes, a power cut | registry, profiles, credentials and roster agree again when transactions end; what is refused leaves nothing behind; a device alone owns its Site; nobody is left behind by a move |
| `radar` | one gate; a session opened, closed and opened again; a session, a gate write and a reset; a session, a write and a fault; a reset and a fault; a radar in configuration mode and two faults | the radar has one owner; an applied write is one that the radar has; targets are reported again after every failure; a session that nobody keeps alive ends |

The violations are disagreements of the code with the documentation:

* `OneGivesWay`. `architecture.md:322` says that a different Leader always
  establishes a newer term. A local winner takes its own term plus one, or 1, and the digest its peers endorse
  holds no term. When a member loses sight of the Site Leader, sees it again, and it steps down, each of two may endorse the
  winner that the other gives up: both lead, in the same term. The next `update` would end this: one of them
  withdraws. But a roster revision makes it a transition for each (`group_coordinator.cpp:1010-1073`):
  the other's vote for itself, of the same roster, counts as the alternate revision vote beside its own, and as the
  terms are equal no observed term exceeds the prior one. The transition ends when the members agree, and they never do.
  Seen from the Site there are two Group Leaders, each with the quorum of two, as long as nothing else changes.
* `GroupSettles`. `architecture.md:309-311` says that authority is never left
  permanently stuck. A node that lost its quorum in term *t* refuses a different Leader of term *t* and any Leader of
  an older one, and no Leader's term rises while it leads. The run shows it for a Group of two whose Owner is Site Leader too, so that only
  the other may lead. When that one restarts and has not yet heard who is Site Leader, the Owner counts as a candidate, its
  term is observed, and the new term is 3. When it restarts again and hears first who is Site Leader, the Owner is no candidate, its term is not
  observed (`group_coordinator.cpp:671`), and the new term is 2. The Owner refuses it from then on. TLC finds it too where
  endorsements cross and no roster follows; `group` has it hold for one restart, and for a Site
  Leader that changes once. The Site's coordinator has the same rule (`RefuseTerm` in `SiteElection`), but who is a candidate does not depend
  on what else it has heard: `Settles` held for every Site of two that was tried, also with only one candidate.
* `InterruptedWriteRetains`. `src/docs/platform/implementation-roadmap.md:277` says that
  interrupted writes of membership and registry retain a complete old or new
  generation. For the membership, on NVS, it holds (`store_crash`, `StoreNeverLost`). The
  registry's commit record is a flash sector that is erased before it is written: cut in
  between, two valid slots remain, which `load_committed_` reports as corrupt, at that
  boot and every later one. The host test demands this for a missing record, and its
  backend replaces the record in one step. Readiness registry and Site configuration share the rule.

Disagreements without a run of their own. A comment in `site_coordinator.cpp:441-442` says that of forked Directories one is chosen
"deterministically so Directory replication can resume instead of leaving every survivor leaderless". The choice is by
penalty, and `site_leader_role_penalty` (`site_configuration.cpp:809-828`) reads the Directory of the node that chooses: two nodes whose
Directories forked at one revision and make a different one of them Group Leader may each prefer the other, or each itself. Then
neither gets the second vote, nobody commits or hands out a Directory, and the Site of two has no Leader for ever. `Settles` says so as its second outcome (`Blocked`),
which `election_two` reaches in two elements of its `ForkSetup`, and `DeferringPairNeverLed` proves it for a pair of which each prefers the other.

`implementation-roadmap.md:731-733` says that an interrupted pull keeps the previous floorplan active. `write_header_`
(`radar_storage.cpp:818-824`) erases the only header before it writes it: a cut in between, in a replica's commit or in a save of
statistics, leaves a member with none; `ReplicaWhole` says that nothing else does. A member that is behind still
gets the new floorplan, once its header has begun anew. Nobody fetches one for a member that is not behind, because
`observe_candidate` looks at generations only (`site_authority.cpp:579-606`): it has none until the next generation, which only a change
of the roster brings while the Owner is read-only for want of its successor's replica, or until somebody synchronises from the dashboard. `CatchesUp` therefore excepts who has none.

Further: the Site's elections have no term in their digest either
(`architecture.md:322` again): of three nodes that boot together and first endorse one winner and then another, two can lead in
the same term, until the first one's coordinator runs again. In a Site of two the runs show that it does not happen
(`SingleLeader`). `api-contract.md:1880` says that an older transport sequence
of the same Leader boot cannot replace accepted state, and a host test requires it after loss. The
comparison in `update_remote` is skipped when the caller says that authority was admitted, which the
firmware always does, and the cache forgets the sequence of what has expired: so it holds as long as no snapshot is
older than a time to live when it arrives (`NoRollback`, checked and proved for `Delay < Ttl`), and fails
beyond. `api-contract.md:1882` allows held values during a forward handoff of the Leader only, and
`preserve_continuity_or_mark_unavailable` holds them whenever a current value is missing.
`src/docs/platform/satellite-protocol.md:322-323` has intervals calculated modulo 2^32 and permits two datagrams a
second and one for jitter. `ObservationTransportRateLimiter::allow` (`observation_transport.cpp:541`) compares absolute
times first, so after the millisecond clock has wrapped, 49.7 days after boot, it refuses every sender whose window was open
then until the Leader restarts or the clock passes the old window; `NotLimited` exempts a wrap, and TLC
finds it violated without the exemption. And those of `ParticipantOperations` and `RadarControl`, which their sections list.

**Bounds.** Two nodes are the smallest Site in which both are needed, and the usual
one; with three a majority can leave one node behind. `LeaseTicks` and
`ProbeInterval` have the values of the code. `TermLimit` stands for `UINT32_MAX`:
4 or 6 is more than the terms a run reaches by its failures. Each
element of `Setup` is a state that pairing and earlier replication leave, with
what may go wrong from there: how many power cycles, roster and Directory changes, and
the links that may lose or delay heartbeats, as often as they like.

For the automation, a Leader and a follower are the two parts a node can play, and
both nodes play both. Disturbances are elections, the loss of a Leader, changes of place and
restarts, in any order; with four of them a node can lead and follow again. `Ttl`, `Hold` and `Delay` are the smallest numbers with the
order that matters to each property: a delay shorter
than a life; in the code the life of a snapshot is a few seconds and the hold 30 s. Two boots of one
Leader could alternate by late packets, which no comparison of sequences prevents:
`NoRollback` compares values of one boot, and its proof assumes that there is one.

For the observations, one sender is enough, because slots, windows and inboxes of several never
meet; `Burst`, `Window` and `Ttl` have the code's proportions (3 in 1 s, a life of 1.5 s, ticks of 0.5 s). For
the Group, two members are a majority of two only, so every vote counts; their Site Leader changes once, because with two changes they need not settle (`group_split`, which looks only at behaviours whose roster changes while both lead: an
action constraint leaves out behaviours and adds none); `TermLimit` is
never reached. For the replication, two members let one wait for the other's lease, and one is
the successor; a third generation shows what a member does that missed two; the limits of
retries are 1 instead of 3 and more, so that they are reached.

For the participants, the stores begin as the devices that pairing can leave: alone, leading, joined; and as a FORGET leaves an
Owner when its rollback was cut. Three operations are a pairing
or an approval, a change and a removal, or an operation of each task at once; a failure is enough for a rollback, a
second one for a rollback that fails, a third for the return to a standalone Site that fails before an approval that is
rolled back forgets it, and a cut may come at any write. Larger instances (four operations, for each device with one
failure, without and with a cut) gave nothing new. One Node is the peer of
every kind; with a satellite there is somebody else to be left behind.

For the radar, one threshold besides the factory's tells a write that happened from one that did not. The five
elements of `Setup` are the pairs and triples of requests and faults that meet; the faults of one are a lost, rejected or ineffective
command, a lost answer, an early deadline, a gap in the frames or a drop of the supply, at any moment. Two requests to
open let a session be opened again while the first is being closed. Cooldown and retries are unbounded.

For the stores, `GenerationLimit` stands for `UINT32_MAX`: 3 generations write either slot over a
former value and reach the limit, where the membership starts over and the others stop; two
values suffice to tell old from new. Power may fail and writes may fail without bound. On flash the
stores of `store_crash` begin after their first write, because a cut during that one leaves a torn slot
and nothing else, which every store calls corrupt; on NVS they also begin empty.

**Fairness.** `LiveSpec` says that time passes (`[]<>` of a `Tick`), which includes that
every powered node runs its coordinator and its heartbeat cycle once per
interval, as the loop does by its timers; and that a Directory or a
credential bundle that can be copied is copied in the end, because the sessions
are retried for as long as there is a difference. Nothing makes failures stop:
the liveness properties ask what happens *if* they do. In `FusionAutomation`, `LiveSpec`
says only that time passes, which includes one observation cycle and one refresh
of each node per 500 ms; `calm` adds that the snapshots of a tick arrive within it and that the
Leader's own sources are valid. `ObservationDelivery` is the same: a `Tick` waits for every sender's
cycle and the Leader's fusion, and when calm the radar delivers frames and the membership admits.
In `RadarControl` the loop, the lambda, the web server's task, the radar and the deadlines are weakly fair; lost commands and
other faults are bounded, since a radar that never answers cannot be brought back.
`GroupElection` adds that missing credentials are provisioned. In `SiteReplication` every step of the
loops is weakly fair: heartbeats, an answer, a received answer, every time-out, the tracker, and the save of a day's statistics, which
assumes that a member knows the time.

Deadlock is checked in every run but `participants`, where the device comes to rest when the
operations of its `Setup` are spent: nothing there runs by itself for ever.

## 4. The proofs

`SiteElection_proofs`, `GroupElection_proofs`, `FusionAutomation_proofs`, `TwoSlotStore_proofs`,
`ObservationDelivery_proofs`, `SiteReplication_proofs`, `ParticipantOperations_proofs` and `RadarControl_proofs` hold the
theorems. They use the assumptions on the constants only, and where said so a condition on them: any finite set of nodes, any
rosters, Directories with any Group Leaders, links and bounds; any set of stored values and any last generation; any Nodes, satellites and
Sites; any delays, lives and windows; any members, versions and limits of retries; any thresholds, any radar to begin with and any
budget of requests and faults.

The assumptions are `TermLimitAssumption`, `SiteAssumption`, `GroupAssumption`, `FusionAssumption`, `DeliveryAssumption`; `LimitAssumption`,
`MemberAssumption` and `ErasedAssumption` of the replication; `OwnerAssumption` of the participants; `GenerationLimitAssumption`, `NoneAssumption` and
`LostAssumption` of the stores; `NoneAssumption` of the radar; and a `SetupAssumption` each of stores, replication, participants
and radar about the states they begin in. Most give a constant its type. Two say more about the code:
the last generation and every count is bounded, and the stores a device boots with are such as pairings leave them: an ACTIVE participant has a
profile and no disabled credential, a revoked one no credential that works, and a configuration of the device's own is for its Site.

The type invariants that are proved are no property of a run, except those of `GroupElection`, `SiteReplication` and `ObservationDelivery`, whose
bounds on leases, terms, ages, windows and retries are a claim about the code.

* `QuorumsIntersect`: two sets of voters that are quorums of one membership share a
  voter. It rests on the cardinality theorems of the library.
* `TypeCorrect`: `Spec => []TypeOK`. `TypeOK` is inductive. One lemma per action
  (`UpdateType`, `SendType`, `TickType`, ...); the election's outcomes have a lemma for the
  values they assign (`BecomesValues`, `ConcludesValues`), so that the proof of
  each outcome is about the new leader, term and lease only.
* `LeasesBacked`: `Spec => []LeaseBacked`. Inductive together with `TypeOK`: a winner
  that is another node was live, and `LeadOrFollow` takes the lease of its slot
  (`ElectedLease`); a received heartbeat only lengthens the slot's life (`SlotsGrow`);
  a tick shortens both.
* `TermsNeverFall`: `Spec => TermsGrow`, from the type invariant. Only an update
  changes the term of a node that stays powered (`OnlyUpdatesElect`), and
  every decision is at least the present term (`DecisionGrows`, `UpdateRaisesTerm`).
* `NewLeadersNewTerms`: `Spec => NewLeaderNewTerm`. `DecisionRenews` says that a
  decision for another Leader than the last exceeds the last term, unless it
  saturates; the standalone handover is the exception that the property names.
* `GapsCostNoTerm`: `Spec => ResumesUnopposed`, for a Site of any size. Who leads, or was suspended as Leader, has a term (`OwnTerm`, inductive), and
  a local winner takes `LocalTerm` (`SelfElection`), which is the suspended term unless a candidate reports a newer one.
* `OneLeaderInFixedPair`: `Spec => []SingleLeader`, assuming `FixedPair`: two nodes with one committed roster, which holds both,
  all credentials and a Directory each. Links may lose and delay what they like, either may restart as often as it likes, and Directories may be
  forked from the beginning or be committed and copied later. `SingleLeader` alone says nothing about the votes under way. Each
  node ranks the two by its own Directory (`Favours`), and yields to the other when it has heard of a newer Directory there, or of one as new and prefers
  the other (`Yields`). In `PairOrder` it is always the turn of one, `h`, or of nobody. `Turn`: the other, `p`, does not lead, the newest Directory is `h`'s, and every vote of `h` for `p`
  that is left in a view, in a slot or on the way came with a Directory to which `p` yields, so that `p` votes for `h` and cannot come to lead. The turn
  passes (`Passes`) with the first vote of `h` for `p`: `h` yields to `p` only in a tie of revisions, and then `p` does not yield to `h`.
  Neither a restart, which empties slots and views but not the Directories, nor a commit of a Directory, which only a Leader with both votes may do, passes it. `InOrder` says that a node hears of the other's Directories
  in the order of their revisions, and `StandsFast` that once one votes for itself with a Directory to which the other yields, no vote of it for the other is
  left or comes. `Leaderless` is the third case: of Directories of one revision each makes its node prefer the other (`Deferring`), and nobody leads.
  Where only one node is eligible, `LeadersEligible` is enough.
* `DeferringPairNeverLed`: `Leaderless` is inductive by itself, so that a pair that begins so stays so.
* `LeaderNeverBehindInPair`, `PairResumesTerm`: `Spec => []LeaderAhead` and `Spec => ResumesTerm`, assuming `TimelyPair`: a `FixedPair`
  in which either no link is slow or no node restarts. (Where a link delays a heartbeat beyond a restart of its sender both fail: TLC finds
  it with two restarts, a newer Directory and a slow link. The follower takes a term from it that the sender has forgotten, and for one exchange
  the Leader is behind its follower, before it raises its term.) The inductive invariant is built on the turns above: whoever has the turn is
  ahead of the other (`Ahead`), the other, if it led last, now prefers it (`TurnAhead`), and in a leaderless pair nobody has led (`NeverLed`). `x` is ahead of `y` if `y` has digested its slot of `x` (`Digested`:
  it has the term of the vote for `x` in it, or prefers itself and does not follow `x`) whenever `y`'s coordinator has run in this interval
  or the slot has a term `x` has forgotten; if every vote of `y` for `x` that is stored or on its way tells a term no older than `y`'s, or `x` has
  it; and if, once `x` has led, it has both terms. `Authority` and `Honest` say what any coordinator keeps of its own term and of its peer's, and
  `Timely` that no heartbeat outlasts the term of its sender. The turn passes only with an update that leaves the other ahead (`AheadPasses`).
  Where only one node is eligible (`SolePair`), it leads always with the second term, which nobody exceeds. `PairResumesTerm` then combines the
  invariant with `GapsCostNoTerm`: the only candidate besides the Leader reports nothing newer (`ObservesNoMore`).
* `EstablishedLeaderLeadsOn`: `Spec => RosterKeepsLeader`, assuming `KeptSite`: a Site of two or three in which a lease is longer than one interval
  and which has all its members once it has more than one (the run is an instance). A Site of two may hold any Directories, lack any credentials and
  take in its newcomer before; one of three has one Directory from the beginning, because two slots that still tell an
  older one would be a majority against the Leader. The number of later rosters is not bounded. "Established" is about one moment, so
  `History` first shows what every earlier step has left: a digest in a slot came with its sender's roster, Directory and credentials (`Backed`, `Reported`),
  and a node's lease is the one it took when it ran (`Remembered`). Then `Kept`, the inductive form: every node follows the Leader on a
  roster no more than one behind the Owner's (`Serves`); each has heard from each other that it votes for this Leader, on some roster it has run on
  since, and will hear so again before that expires (`Vouches`); and one that remembers no earlier view has had its present one, or
  a later, endorsed by a peer (`Confirmed`). That the Owner waits for everybody's endpoint before it commits again keeps rosters adjacent
  (`KeptThroughChanges`), so that no heartbeat is refused (`KeptSend`); `Confirmed` makes the tolerance of `BoundedTransition` apply whenever
  not one peer endorses the present digest (`KeptTransition`), and one earlier or alternate vote completes the quorum of two (`KeptTolerance`).
  `Established` asks that slots and leases do not expire before they are next renewed and that the votes came with complete credentials; TLC found that in the
  run every moment without these two conditions satisfies them anyway.
* `GroupTyped`: `Spec => []TypeOK` of `GroupElection`, along the same lines; the lemmas about terms are repeated there.
* `NewLeadersEndorsed`: `Spec => NewLeaderEndorsed`. Only an update gives a member a Leader (`OnlyUpdatesElect`), and only with a quorum
  (`UpdateOutcomes`). What a transition adds to the direct endorsements counts for the incumbent only, so that another winner's quorum is
  of direct ones (`OthersNeedDirectVotes`).
* `TermsAdvance`, `SiteLeadersLeadLast`, `GroupLeasesBacked`: `MemberTermsAdvance`, `SiteLeaderLeadsLast` and `GroupLeaseBacked`,
  which `GroupElection_proofs` states and no run checks. The first is what remains of "a different Leader always establishes a newer term"
  (`architecture.md:322`): as one member sees it, it is so; that two members may lead in one term is the violation `group_split`. The
  second is `architecture.md:244-246`: by each of the rules for a winner the Site Leader wins only where it is the only candidate
  (`SiteLeaderWinsAlone`). The third is inductive with the types: a lease is the rest of the slot's life, and heartbeats only prolong that.
* `EstablishedLeaderKept`: `Spec => LeaderKept`, for a Group of two or three that the new roster leaves as it is
  (`KeptGroup`; the run is an instance). "Established" is only about one moment, so the proof first shows what a member's
  memory fits at any time (`History`): a digest came with the newest wire version and a roster, what was kept out of the election
  has an older term, a view names the roster it was made on, and a lease is as long as it was taken until the member hears more. In such a memory an established
  Group is `Steady`: everybody follows, and every slot vouches for the Leader on a roster that its sender has run on since
  (`Vouches`) and outlives the interval; a member without remembered views has heard its present one (`Confirmed`), which is what remains of
  "a transition is under way" when the rosters agree again. With up to three members one endorsement beside the own is a quorum,
  and a transition always leaves one (`SteadyTolerance`). With four it does not: started on a long-established Group of four, TLC finds that once two members follow the Leader
  to the new roster and say so, a member that lags counts neither their new digests (the Leader vouches for its own, which is
  still the old one) nor enough old ones, and gives the Leader up until its next heartbeat. No text of the repository promises more.
* `AutomationTyped`, `ValuesFresh`: `Spec => []TypeOK`, `Spec => []AvailableFresh`. The
  inductive invariant `IInv` adds to the types that a cached snapshot's age and rest of life sum up to no
  more than delay plus time to live (`CacheBound`), that the same holds of a held state
  with the hold on top, one tick less tight between two refreshes (`AutomationBound`),
  and that an automation state does not run ahead of the term of the Group (`TermBehind`).
  A refresh is reduced to its `Outcome` once, for all five branches.
* `AuthorityNeverBack`: `Spec => AuthorityForward`, from `TermBehind` and the outcome. It is proved
  only, and no run's property.
* `OrderKept`: `Spec => NoRollback`, assuming `Ordered`: `Delay < Ttl` and a single
  boot. `OInv` says that whatever the node may still admit, has cached, or
  produces itself is no older than the values of that origin it has (`YoungerToCome`,
  `YoungerAtHand`); this needs that later terms of a Leader come with later snapshots
  (`PacketsOrdered`, `CacheOrdered`), and that a cached snapshot outlives every
  older one in the network (`TickOrdered`), where `Delay < Ttl` is used.

* `StoreTyped`, `StoreNeverLost`, `StoreSaves`, `StoreAdvances` and
  `StoreImplementsRegister`: `TypeOK`, `InterruptedWriteRetains`, `NothingUnsaved`,
  `GenerationAdvances` and `AtomicUpdate` (`Spec => Register!Spec`), each under
  `Crashproof`: a store of `Setup` on flash starts with its first generation, repairs by
  the newest slot whatever happened to the record, and does not wrap. That is what the
  Directory, the roster and the credentials do, and what the registry does not: `store_interrupted` shows
  that the condition is needed. NVS stores need no condition. The inductive invariant is
  `Consistent`: a record that is whole names a whole slot of its generation
  (`CommitHolds`); on flash a missing record means two whole slots of different generations
  (`CommitMissing`); the slot being written is not the committed one and, once whole, the newest
  (`SlotJob`, `CommitJob`); a repair names the newest slot (`RepairJob`). Each action has a lemma that it
  keeps `Consistent` and one for its `Outcome`: what a reboot would find is kept, or
  replaced by the pending value with a higher generation, as one step of the register.

* `DeliveryTyped`, `SourcesFresh`: `Spec => []TypeOK`, `Spec => []SourceFresh` of `ObservationDelivery`. The
  age of an observation grows on three clocks: before it is sent, in the network, and in the Leader's inbox. `TypeInv` bounds each, and that
  a sample offered to the fusion is younger than its life and one delay together.
* `DeliveredInOrder`: `Spec => []InOrder`, assuming `Delay < Down`: a restart takes longer than a packet. `OrderInv`
  says that what a sender senses now is no older than anything it has sent (`SensedLatest`), that what the Leader may still admit is no
  older than what it has used (`AdmissibleLatest`), that all packets of a sender on their way are of one boot (`OneBoot`,
  where the assumption is used), and that one sent later carries nothing made earlier (`SentInOrder`).
* `TracksInScope`: `Spec => []InScopeTracks`, from an invariant of the runtime alone (`InLastScope`): tracks, if there are any, were
  made in the scope that was compared last, and every step that publishes compares it first.
* `SendersNotLimited`: `Spec => []NotLimited`, assuming `Window + Delay <= Burst` in ticks of a cycle each: a burst has room for what is
  sent within a window, and one delay more because packets bunch. `RateInv` says that a sender sends at most one packet in a tick (`Spaced`), and
  that what a window has counted and what may still come into it fits (`WithinRate`); copies and a wrap of the clock are excepted, as in the property.

* `ReplicationTyped`, `ReplicasWhole`, `OwnerBackedUp`: `Spec => []TypeOK`, `Spec => []ReplicaWhole` and `Spec => BackedUp` of
  `SiteReplication`. The inductive invariant adds, for each member and its session (`MembersInv`): what it has learnt of the Owner,
  or is in flight to it, are generations that the Owner has committed; the one it fetches is not behind its configuration; and what it has
  stored is nothing, or the floorplan of one generation from its configuration's on (`Sound`). `Reported` adds that what the Owner read in a member's heartbeat was true then and is no newer than what the
  member has, if it has lost nothing since; as a member goes back only by losing its header, an old report is enough to commit the next floorplan. That
  only a cut in a header costs a floorplan is shown of each step (`NoLoss`), from the same invariant. Late copies of
  requests, restarts and refused answers are steps of it like any other.

* `ParticipantsTyped`: `Spec => []TypeOK`. What is inductive adds that a job at work has steps left of the kinds
  its operation writes, and that what it saved has the stores' types (`JobTyped`).
* `ActiveAlwaysHasProfile`: `Spec => []ActiveHasProfile`. The inductive invariant `ProfileInv` adds which stores
  the rest of a transaction may write (`JobSound`: a profile only by the operations that change one), which
  operations the two tasks can be in at once (`TasksApart`, the lease), that the records and profiles which a
  roll-back would restore fit each other and those of the moment (`SavedFits`), and that flash has every profile
  that memory has (`ProfilesKept`). A reset that was interrupted or ran across another transaction is excepted,
  as in the property. `SetupAssumption` says that the property holds of the stores the device begins with.
* `PairingOrphansNobody`: `Spec => NobodyOrphaned`. A pairing checks at its beginning and moves some writes later; the
  web server may write in between. `MoveSound` in `MoveInv` says that until it has moved, nobody but the
  peer is related to this device and nobody is active in its roster (`LeavesNobody`), and that flash and memory
  name one Site; each kind of step has a lemma that it keeps this.
* `RefusedRestored`: `Spec => RefusedRestores`. `HeldInv` is inductive with three parts. `CourseInv`: the writes a
  transaction has left, those it has done and its operation belong together (`OnCourse`), so that what a rollback has not yet restored is
  known. `StoresAgree`: flash and memory agree on records, profiles and credentials, but for what a
  reset that failed, or the forgetting of a half forgotten member, has left. `SavedHeld`: a relation that the engine has
  not written, or has restored, is on flash as it was saved. The last needs that nobody else writes these stores in between, which
  is what the lease ensures and what a reset breaks.
* `RosterFollowed`: `Spec => RosterFollows`. The roster is rebuilt from memory by the last steps of an operation, and may be
  left alone where there is no relation any more. `RecordInv` adds what record the operation has already made of its
  participant (`Recorded`), and that a refresh that ends without a configuration for the participant ended alone (`Emptied`).
* `CredentialsFollowed`: `Spec => []CredentialsFollow`. Records and credentials are two stores, so that between two writes they do not match.
  `CredentialInv` says when they may not: after the first of the two writes of an activation or a revocation, for
  its participant only (`Between`); and that what a rollback would restore matches (`Matched`).
* `AloneOwned`: `Spec => []AloneOwns`, in two stages. `SiteInv`: unless a pairing or a reset was cut short, a configuration of the device's own is
  for the Site of its membership between any two writes, except within a reset and after a joiner has moved (`SiteSound`);
  every boot in between finds a configuration it accepts. `AloneInv`: without anything left half done, a device that has no relation
  is its Site's only member already, or the reconciliation is pending (`RestsAlone`); an operation under way that began without relations
  returns to that (`ReturnsAlone`); and a reconciliation past its write of the configuration owns its Site (`SettlesOwned`).
  `broken` excepts, as in the property, what section 2 lists.
* `RadarTyped`: `Spec => []TypeOK`. What is inductive adds that a transaction is idle exactly when it has no operation, and within its
  script otherwise (`Consistent`), so that what it expects is a command. The manager's choices map what belongs to it into
  `Managed` (`ChoiceType`, `EndType`); a turn of it is then one case per outcome (`ManageType`).
* `RadarHasOneOwner`: `Spec => []OneOwner`. A transaction and the recovery exclude each other without a lock: the
  watchdog waits for the transaction, manager and lambda look at the three flags of the recovery. `OneOwner` alone is not
  inductive, because the lambda does not look at the watchdog; `Marked` adds that `ld2410_recovery_active_` stays set until the
  watchdog monitors again.
* `RadarAppliesTruly`: `Spec => AppliedTrue`. Nothing numbers the commands of a radar or its answers; what
  keeps an answer from being taken for another is order. `ReadbackInv` adds to the above, for the line (`LineInv`), that
  a write, a reset or the end of a configuration on its way is the last command sent and awaited by its transaction, unless
  this was abandoned (`LastInLine`), and that a recovery settles only once the line is empty (`LineEmpties`);
  for the gate (`GateInv`), that one under way ends with a recovery, that a transaction for a gate is for this one, and that the
  readback is outdated only by a reset whose transaction is not over and, the radar being still configured or booting,
  not about to be (`OnlyByReset`). `ManagerTurns` reduces a turn of the manager to six outcomes. The theorem rests on two
  assumptions of the model about the radar: it boots longer than the 500 ms until the lambda runs (`Boot`), and ten frames do
  not fit between a command and its being obeyed (`Frame`).

Only model-checked:

* `SingleLeader`, `LeaderAhead` and `ResumesTerm` where the roster changes, where a newcomer joins a node that leads alone, or before all
  credentials and Directories are there. All three are about memberships of two, where every vote counts; in a Site of three another
  majority may follow a newer candidate while the old Leader's evidence is still alive.
* `RosterKeepsLeader` and `LeaderKept` where a roster changes the members of a Site or Group that had several, or where it has more than three;
  `RosterKeepsLeader` also in a Site of three whose Directories have differed.
* `Settles`, `MinorityStandsDown`, `Recovers`, `GroupSettles`, `Heard`, `CatchesUp`, `StreamReturns` and
  `SessionEnds`: liveness under fairness is outside the prover's reach.

## 5. What is not modelled

Radar geometry, numeric association of targets, cryptography, JSON, HTTP parsing,
layout and the generated dashboard assets: no property here is about their data.
Host tools and tests are evidence for the models, not their subject. The dashboard runs
in a browser; its save and pairing flows use the node's operations and are
late in the plan. Components that are wholly or partly open are listed in the
plan below.

## 6. Plan

Most important first: who holds authority, what a home automation acts upon, then
what a crash may leave behind, then the sessions.

1. `RoleElection`, `SiteElection` and their proofs. *Done.*
2. `FusionAutomation` and its proofs: the snapshot of the Group Leader, its cache and the
   automation state of every member. *Done.*
3. `DurableValue` and `TwoSlotStore`: the stores of a node as the refinement of a register
   under power loss. *Done.*
4. `ObservationDelivery` and its proofs: observation sequences, boots, rate windows and the
   inbox over a network that loses, duplicates and reorders. *Done.*
5. `GroupElection` on `RoleElection` and its proofs, with the Site's decisions as inputs. *Done.*
6. `SiteReplication` and its proofs: generations, sessions and their
   retries. *Done.* The choice among several authorities is left.
7. `ParticipantOperations` and its proofs: participant actions, pairing's commit, reset and standalone
   reconciliation over five stores, with rollback and power cuts. *Done.*
8. `RadarControl`: the radar's commands and their recovery, and its proofs. *Done.*
9. `SiteConfiguration`: the Owner's handover, and configurations pulled later.
10. `SiteDirectory` and `GroupRoster`: the order of revisions, and forks.
11. The messages of `Pairing`, and `CredentialProvisioning`.
12. `FirmwareUpdate`, `SetupWifi`, `PresenceTracker`, the ring buffers.

Theorems worth proving next: `SingleLeader` for a Site of two across roster changes, and `RosterKeepsLeader` and `LeaderKept` for larger memberships, where a
transition must be decided by more than one peer's vote.
