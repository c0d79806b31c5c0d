-------------------- MODULE ParticipantOperations_proofs --------------------
(***************************************************************************)
(* What ParticipantOperations promises for any number of participants and  *)
(* Sites, and for any sequence of operations, failures and power cuts.     *)
(***************************************************************************)
EXTENDS ParticipantOperations, TLAPS

-----------------------------------------------------------------------------
(* Types                                                                   *)

(* A store overwritten with content of its kind leaves a disk.             *)
LEMMA OverwriteType ==
  ASSUME NEW d \in Disk, NEW s \in Store \ {"directory"}, NEW v,
         s = "registry" => v \in [Participant -> Standing],
         s = "readiness" => v \in [Participant -> Profile],
         s = "credential" => v \in [Participant -> Credential],
         s = "membership" => v \in Membership,
         s = "config" => v \in Configuration
  PROVE  [d EXCEPT ![s] = v] \in Disk
BY DEF Disk, Store, Relations

(* Rosters that this Node makes are configurations.                        *)
LEMMA RosterType ==
  ASSUME NEW d \in Disk
  PROVE  /\ OwnedRoster(d) \in Configuration
         /\ StandaloneConfiguration(d) \in Configuration
         /\ \A site \in Site : /\ Created(site) \in Configuration
                               /\ Joining(site) \in Configuration
<1>1. /\ d.registry \in [Participant -> Standing]
      /\ d.config \in Configuration /\ d.membership.site \in Site
  BY DEF Disk, Membership
<1>2. /\ d.config.member \in [Participant -> Standing]
      /\ d.config.site \in Site /\ "none" \in Standing
  BY <1>1 DEF Configuration, Standing
<1>3. OwnedRoster(d) \in Configuration
  BY <1>1, <1>2 DEF OwnedRoster, Configuration
<1>4. \A site \in Site : /\ Created(site) \in Configuration
                        /\ Joining(site) \in Configuration
  BY <1>2 DEF Created, Joining, NoMembers, Cleared, Configuration
<1> QED BY <1>1, <1>3, <1>4 DEF StandaloneConfiguration

(* What the transactions carry that their writes depend on.                *)
JobTyped(j) ==
  /\ j.op \in {"join", "reset"} => j.arg \in Site
  /\ j.op \notin {"join", "reset"} => j.arg \in Profile
  /\ j.op = "join" => \A i \in 1..Len(j.todo) : j.todo[i] # "readiness"
  /\ j.undo => \A i \in 1..Len(j.todo) : j.todo[i] \in Saved

TypeInv == TypeOK /\ \A t \in Task : JobTyped(job[t])

(* What a transaction writes has the kind of the store.                    *)
LEMMA TargetType ==
  ASSUME ram \in Disk, NEW j \in Jobs, JobTyped(j),
         NEW s \in Store \ {"directory"},
         s = "readiness" => j.op # "join"
  PROVE  /\ s = "registry" => Target(j, s) \in [Participant -> Standing]
         /\ s = "readiness" => Target(j, s) \in [Participant -> Profile]
         /\ s = "credential" => Target(j, s) \in [Participant -> Credential]
         /\ s = "membership" => Target(j, s) \in Membership
         /\ s = "config" => Target(j, s) \in Configuration
<1>1. /\ ram.registry \in [Participant -> Standing]
      /\ ram.readiness \in [Participant -> Profile]
      /\ ram.credential \in [Participant -> Credential]
      /\ ram.membership.site \in Site
      /\ ram.config \in Configuration
  BY DEF Disk, Membership
<1>2. RegistryTarget(j) \in Standing /\ CredentialTarget(j) \in Credential
  BY DEF RegistryTarget, CredentialTarget, Eligibility, Standing, Credential
<1>3. /\ NoMembers \in [Participant -> Standing]
      /\ NoMembers \in [Participant -> Profile]
      /\ NoMembers \in [Participant -> Credential]
  BY DEF NoMembers, Cleared, Standing, Profile, Credential
<1>4. MembershipTarget(j) \in Membership
  BY <1>1 DEF MembershipTarget, Membership, JobTyped
<1>5. ConfigTarget(j) \in Configuration
  <2>1. Refreshed \in Configuration
    BY <1>1, RosterType DEF Refreshed
  <2>2. \A v \in Standing :
          [ram.config EXCEPT !.member[j.who] = v] \in Configuration
    BY <1>1 DEF Configuration
  <2>3. Eligibility(j) \in Standing /\ {"revoked", "none"} \subseteq Standing
    BY DEF Eligibility, Standing
  <2>4. j.op = "reset" => j.arg \in Site
    BY DEF JobTyped
  <2> QED BY <1>1, <2>1, <2>2, <2>3, <2>4, RosterType DEF ConfigTarget
<1>6. s = "registry" => Target(j, s) \in [Participant -> Standing]
  BY <1>1, <1>2, <1>3 DEF Target, Relations
<1>7. s = "readiness" => Target(j, s) \in [Participant -> Profile]
  <2> SUFFICES ASSUME s = "readiness"
               PROVE  Target(j, s) \in [Participant -> Profile]
    OBVIOUS
  <2>1. CASE j.op = "reset"
    BY <1>3, <2>1 DEF Target, Relations
  <2>2. CASE j.op # "reset"
    <3>1. j.arg \in Profile
      BY <2>2 DEF JobTyped
    <3>2. Target(j, s) = [ram.readiness EXCEPT ![j.who] = j.arg]
      BY <2>2 DEF Target, Relations
    <3> QED BY <1>1, <3>1, <3>2
  <2> QED BY <2>1, <2>2
<1>8. s = "credential" => Target(j, s) \in [Participant -> Credential]
  BY <1>1, <1>2, <1>3 DEF Target, Relations
<1>9. s = "membership" => Target(j, s) \in Membership
  BY <1>4 DEF Target, Relations
<1>10. s = "config" => Target(j, s) \in Configuration
  BY <1>5 DEF Target, Relations
<1> QED BY <1>6, <1>7, <1>8, <1>9, <1>10

(* The job of a task that has none.                                        *)
LEMMA IdleType ==
  /\ Idle \in Jobs /\ JobTyped(Idle)
  /\ Idle.op = "none" /\ Idle.todo = <<>> /\ ~Idle.undo
<1>1. /\ NoMembers \in [Participant -> Standing]
      /\ NoMembers \in [Participant -> Profile]
      /\ NoMembers \in [Participant -> Credential]
  BY DEF NoMembers, Cleared, Standing, Profile, Credential
<1>2. NoSaved \in [registry : [Participant -> Standing],
                   readiness : [Participant -> Profile],
                   credential : [Participant -> Credential],
                   membership : Membership]
  BY <1>1 DEF NoSaved, Membership, Site
<1> QED BY <1>2 DEF Idle, Jobs, JobTyped, Profile

(* A task takes on another job of the right kind.                          *)
LEMMA JobUpdate ==
  ASSUME TypeInv, NEW t \in Task, NEW k \in Jobs, JobTyped(k),
         k.op # "none" <=> k.todo # <<>>,
         job' = [job EXCEPT ![t] = k]
  PROVE  /\ job' \in [Task -> Jobs]
         /\ \A u \in Task : Busy(u)' <=> job'[u].todo # <<>>
         /\ \A u \in Task : JobTyped(job'[u])
BY DEF TypeInv, TypeOK, Busy

(* An operation begins.                                                    *)
LEMMA BeginType ==
  ASSUME TypeInv, NEW t \in Task, NEW op \in Operation,
         NEW p \in Participant \cup {Nobody}, NEW arg \in Profile \cup Site,
         NEW steps \in Seq(Store), steps # <<>>,
         op \in {"join", "reset"} => arg \in Site,
         op \notin {"join", "reset"} => arg \in Profile,
         op = "join" => \A i \in 1..Len(steps) : steps[i] # "readiness",
         Begin(t, op, p, arg, steps), UNCHANGED window
  PROVE  TypeInv'
<1> DEFINE saved == IF op \in Leased \cup {"join"}
                      THEN [s \in Saved |-> ram[s]] ELSE NoSaved
           k == [Idle EXCEPT !.op = op, !.who = p, !.arg = arg, !.todo = steps,
                             !.saved = saved]
           Kept == [registry : [Participant -> Standing],
                    readiness : [Participant -> Profile],
                    credential : [Participant -> Credential],
                    membership : Membership]
<1>1. saved \in Kept
  <2>1. NoSaved \in Kept
    BY IdleType DEF Idle, Jobs
  <2>2. [s \in Saved |-> ram[s]] \in Kept
    BY DEF TypeInv, TypeOK, Disk, Saved, Relations
  <2> QED BY <2>1, <2>2
<1>2. k \in Jobs /\ JobTyped(k) /\ k.op # "none" /\ k.todo # <<>>
  <2>1. op # "none"
    BY DEF Operation, Leased, Pairing, Refreshing, Canonical
  <2>2. k \in Jobs
    BY <1>1, IdleType DEF Jobs
  <2>3. /\ k.op = op /\ k.arg = arg /\ k.todo = steps /\ ~k.undo
    BY IdleType DEF Jobs
  <2>4. JobTyped(k)
    BY <2>3 DEF JobTyped
  <2> QED BY <2>1, <2>2, <2>3, <2>4
<1>3. job' = [job EXCEPT ![t] = k]
  BY DEF Begin
<1>4. /\ flash' = flash /\ ram' = ram /\ ready' = ready /\ recon' = recon
      /\ window' = window /\ outcome' = "none"
      /\ broken' \subseteq Operation
      /\ budget' \in [operations : Nat, failures : Nat, cuts : Nat]
  <2>1. Across(op) \subseteq Operation
    BY DEF Across, Operation
  <2>2. budget' \in [operations : Nat, failures : Nat, cuts : Nat]
    BY DEF Begin, TypeInv, TypeOK
  <2> QED BY <2>1, <2>2 DEF Begin, TypeInv, TypeOK
<1> HIDE DEF k
<1> QED BY <1>2, <1>3, <1>4, JobUpdate DEF TypeInv, TypeOK

(* Stores that a list of writes leaves alone.                              *)
Omits(q, s) == \A i \in 1..Len(q) : q[i] # s

Profiled == {"configure", "reconfigure", "forget", "erase", "reset"}
Unregistered == {"settle", "roster", "expel", "erase", "reconfigure"}

(* What holds when an operation begins, of its writes and of the record    *)
(* and profile of its participant.                                         *)
Prepared(t, op, p, arg, steps) ==
  /\ steps \in Seq(Store) /\ steps # <<>>
  /\ t = "web" => op \in Leased \cup {"roster", "reset"}
  /\ t = "loop" => op \in Pairing
  /\ op \in Leased \cup Pairing => p \in Participant
  /\ IF op \in {"join", "reset"} THEN arg \in Site ELSE arg \in Profile
  /\ op \notin Profiled => Omits(steps, "readiness")
  /\ op \in Unregistered => Omits(steps, "registry")
  /\ op = "reset" => ~Omits(steps, "registry")
  /\ op \in {"configure", "reconfigure"} => arg # "none"
  /\ op \in {"forget", "erase"} => arg = "none"
  /\ op = "activate" => ram.readiness[p] # "none"
  /\ op \in {"forget", "erase"} => ram.registry[p] \notin Active
  /\ op = "join" => \/ ram.membership.site = arg
                    \/ MayMoveSite(ram, p) /\ ram.registry[p] \notin Active

Begins(t, op, p, arg, steps) ==
  /\ Prepared(t, op, p, arg, steps) /\ Begin(t, op, p, arg, steps)
  /\ UNCHANGED window

(* Every request begins an operation of the engine.                        *)
LEMMA RequestBegins ==
  ASSUME NEW p \in Participant, Requested(p)
  PROVE  \E op \in Leased, arg \in Profile : \E steps :
           Begins("web", op, p, arg, steps)
<1> USE DEF Leased, Refreshing, Canonical, Pairing, Profiled, Unregistered,
            Profile
<1> DEFINE RC == <<"registry", "config">>
           PC == <<"readiness", "config">>
           CC == <<"credential", "config">>
           RPC == <<"registry", "readiness", "config">>
           RCC == <<"registry", "credential", "config">>
           CRC == <<"credential", "registry", "config">>
           PCC == <<"readiness", "credential", "config">>
           PRCC == <<"readiness", "registry", "credential", "config">>
<1>0. /\ {RC, PC, CC, RPC, RCC, CRC, PCC, PRCC, <<"config">>}
           \subseteq Seq(Store) \ {<< >>}
      /\ Omits(RC, "readiness") /\ Omits(RCC, "readiness")
      /\ Omits(CRC, "readiness") /\ Omits(CC, "readiness")
      /\ Omits(<<"config">>, "readiness")
      /\ Omits(CC, "registry") /\ Omits(PC, "registry")
      /\ Omits(PCC, "registry")
  <2>1. /\ RC \in Seq(Store) /\ PC \in Seq(Store) /\ CC \in Seq(Store)
        /\ RPC \in Seq(Store) /\ RCC \in Seq(Store) /\ CRC \in Seq(Store)
        /\ PCC \in Seq(Store) /\ PRCC \in Seq(Store)
        /\ <<"config">> \in Seq(Store)
    BY DEF Store, Relations
  <2>2. /\ RC # << >> /\ PC # << >> /\ CC # << >> /\ RPC # << >>
        /\ RCC # << >> /\ CRC # << >> /\ PCC # << >> /\ PRCC # << >>
        /\ <<"config">> # << >>
    OBVIOUS
  <2>3. /\ Omits(RC, "readiness") /\ Omits(RCC, "readiness")
        /\ Omits(CRC, "readiness") /\ Omits(CC, "readiness")
        /\ Omits(<<"config">>, "readiness")
    BY DEF Omits
  <2>4. /\ Omits(CC, "registry") /\ Omits(PC, "registry")
        /\ Omits(PCC, "registry")
    BY DEF Omits
  <2> HIDE DEF RC, PC, CC, RPC, RCC, CRC, PCC, PRCC
  <2> QED BY <2>1, <2>2, <2>3, <2>4
<1>1. ASSUME Approve(p) PROVE Begins("web", "approve", p, "none", RC)
  <2>1. Prepared("web", "approve", p, "none", RC)
    BY <1>0 DEF Prepared
  <2> QED BY <1>1, <2>1 DEF Approve, Begins
<1>2. ASSUME Configure(p)
      PROVE  \E arg \in Profile : \E steps :
               Begins("web", "configure", p, arg, steps)
  <2> DEFINE steps == IF ram.registry[p] \in Active THEN RPC ELSE PC
  <2>1. PICK arg \in {"draft", "ready"} :
          Begin("web", "configure", p, arg, steps)
    BY <1>2 DEF Configure
  <2>2. steps \in Seq(Store) /\ steps # << >>
    BY <1>0
  <2> HIDE DEF steps
  <2>3. Prepared("web", "configure", p, arg, steps)
    BY <2>2 DEF Prepared
  <2>4. UNCHANGED window
    BY <1>2 DEF Configure
  <2> QED BY <2>1, <2>3, <2>4 DEF Begins
<1>3. ASSUME Reconfigure(p)
      PROVE  \E arg \in Profile : Begins("web", "reconfigure", p, arg, PC)
  <2>1. PICK arg \in {"draft", "ready"} :
          Begin("web", "reconfigure", p, arg, PC)
    BY <1>3 DEF Reconfigure
  <2>2. Prepared("web", "reconfigure", p, arg, PC)
    BY <1>0 DEF Prepared
  <2>3. UNCHANGED window
    BY <1>3 DEF Reconfigure
  <2> QED BY <2>1, <2>2, <2>3 DEF Begins
<1>4. ASSUME Activate(p)
      PROVE  \E steps : Begins("web", "activate", p, "none", steps)
  <2> DEFINE steps == IF ram.credential[p] = "disabled" THEN CRC ELSE RC
  <2>1. /\ Begin("web", "activate", p, "none", steps)
        /\ ram.readiness[p] = "ready" /\ UNCHANGED window
    BY <1>4 DEF Activate
  <2>2. /\ steps \in Seq(Store) /\ steps # << >>
        /\ Omits(steps, "readiness")
    BY <1>0
  <2> HIDE DEF steps
  <2>3. Prepared("web", "activate", p, "none", steps)
    BY <2>1, <2>2 DEF Prepared
  <2> QED BY <2>1, <2>3 DEF Begins
<1>5. ASSUME Quarantine(p) PROVE Begins("web", "quarantine", p, "none", RC)
  <2>1. Prepared("web", "quarantine", p, "none", RC)
    BY <1>0 DEF Prepared
  <2> QED BY <1>5, <2>1 DEF Quarantine, Begins
<1>6. ASSUME Revoke(p) PROVE Begins("web", "revoke", p, "none", RCC)
  <2>1. Prepared("web", "revoke", p, "none", RCC)
    BY <1>0 DEF Prepared
  <2> QED BY <1>6, <2>1 DEF Revoke, Begins
<1>7. ASSUME Forget(p) PROVE Begins("web", "forget", p, "none", PRCC)
  <2>1. ram.registry[p] \notin Active
    BY <1>7 DEF Forget, Active
  <2>2. Prepared("web", "forget", p, "none", PRCC)
    BY <1>0, <2>1 DEF Prepared
  <2> QED BY <1>7, <2>2 DEF Forget, Begins
<1>8. ASSUME SetCommunityLeader(p)
      PROVE  \E op \in {"promote", "demote"} : \E steps :
               Begins("web", op, p, "none", steps)
  <2>1. PICK op \in {"promote", "demote"} :
          Begin("web", op, p, "none",
                IF ram.registry[p] # "none"
                     /\ (op = "promote") # (ram.registry[p] = "eligible")
                  THEN RC ELSE <<"config">>)
    BY <1>8 DEF SetCommunityLeader
  <2> DEFINE steps == IF ram.registry[p] # "none"
                          /\ (op = "promote") # (ram.registry[p] = "eligible")
                        THEN RC ELSE <<"config">>
  <2>2. UNCHANGED window /\ Begin("web", op, p, "none", steps)
    BY <1>8, <2>1 DEF SetCommunityLeader
  <2>3. /\ steps \in Seq(Store) /\ steps # << >>
        /\ Omits(steps, "readiness")
    BY <1>0
  <2> HIDE DEF steps
  <2>4. Prepared("web", op, p, "none", steps)
    BY <2>3 DEF Prepared
  <2> QED BY <2>2, <2>4 DEF Begins
<1>9. ASSUME ManageMember(p)
      PROVE  \/ Begins("web", "expel", p, "none", CC)
             \/ Begins("web", "erase", p, "none", PCC)
  <2>1. ram.registry[p] = "none" /\ UNCHANGED window
    BY <1>9 DEF ManageMember
  <2>2. /\ Prepared("web", "expel", p, "none", CC)
        /\ Prepared("web", "erase", p, "none", PCC)
    BY <1>0, <2>1 DEF Prepared, Active
  <2> QED BY <1>9, <2>1, <2>2 DEF ManageMember, Begins
<1> HIDE DEF RC, PC, CC, RPC, RCC, CRC, PCC, PRCC
<1> QED BY <1>1, <1>2, <1>3, <1>4, <1>5, <1>6, <1>7, <1>8, <1>9 DEF Requested

(* Two lists of writes, one after the other.                               *)
LEMMA JoinedSteps ==
  ASSUME NEW S, NEW a \in Seq(S), NEW b \in Seq(S), a # <<>>
  PROVE  /\ a \o b \in Seq(S) /\ a \o b # <<>>
         /\ \A x : (\A i \in 1..Len(a) : a[i] # x)
                    /\ (\A i \in 1..Len(b) : b[i] # x)
                    => \A i \in 1..Len(a \o b) : (a \o b)[i] # x
<1>1. a \o b \in Seq(S) /\ Len(a \o b) = Len(a) + Len(b) /\ Len(a) > 0
  OBVIOUS
<1>2. \A i \in 1..Len(a \o b) :
        \/ i \in 1..Len(a) /\ (a \o b)[i] = a[i]
        \/ i - Len(a) \in 1..Len(b) /\ (a \o b)[i] = b[i - Len(a)]
  OBVIOUS
<1> QED BY <1>1, <1>2

(* So do pairing, in either role, and the operations without a lease.      *)
LEMMA OtherBegins ==
  ASSUME \/ \E p \in Node : CommitPairing(p)
         \/ CommitRoster
         \/ Reset,
         ram \in Disk
  PROVE  \E t \in Task, op \in Pairing \cup {"roster", "reset"},
            p \in Participant \cup {Nobody}, arg \in Profile \cup Site : \E steps :
           Begins(t, op, p, arg, steps)
<1> USE DEF Pairing, Profiled, Unregistered, Profile
<1>0. {"web", "loop"} = Task /\ Node \subseteq Participant
  BY DEF Task, Participant
<1>1. \A config \in {<<"config">>, << >>} :
        /\ config \in Seq(Store)
        /\ \A i \in 1..Len(config) : config[i] # "readiness"
  <2>1. /\ <<"config">> \in Seq(Store)
        /\ \A i \in 1..Len(<<"config">>) : <<"config">>[i] # "readiness"
    BY DEF Store
  <2>2. /\ << >> \in Seq(Store)
        /\ \A i \in 1..Len(<< >>) : << >>[i] # "readiness"
    OBVIOUS
  <2> QED BY <2>1, <2>2
<1>2. \A first, config :
        /\ first \in Seq(Store) /\ first # << >> /\ Omits(first, "readiness")
        /\ config \in {<<"config">>, << >>}
        => LET steps == first \o config
           IN  /\ steps \in Seq(Store) /\ steps # << >>
               /\ Omits(steps, "readiness")
  BY <1>1, JoinedSteps DEF Omits
<1>3. ASSUME NEW p \in Node, CommitPairing(p)
      PROVE  \E op \in Pairing, arg \in Profile \cup Site : \E steps :
               Begins("loop", op, p, arg, steps)
  <2>0. p \in Participant /\ UNCHANGED window /\ ram.registry[p] \notin Active
    BY <1>0, <1>3 DEF CommitPairing, Active
  <2>1. CASE \E config \in {<<"config">>, << >>} :
               Begin("loop", "lead", p, "none",
                     <<"registry", "credential">> \o config)
    <3> DEFINE first == <<"registry", "credential">>
    <3>1. PICK config \in {<<"config">>, << >>} :
            Begin("loop", "lead", p, "none", first \o config)
      BY <2>1
    <3>2. /\ first \in Seq(Store) /\ first # << >>
          /\ Omits(first, "readiness")
      BY DEF Omits, Store, Relations
    <3> HIDE DEF first
    <3> DEFINE steps == first \o config
    <3>3. /\ steps \in Seq(Store) /\ steps # << >>
          /\ Omits(steps, "readiness")
      BY <1>2, <3>1, <3>2
    <3> HIDE DEF steps
    <3>4. Prepared("loop", "lead", p, "none", steps)
      BY <2>0, <3>3 DEF Prepared, Leased, Refreshing, Canonical
    <3> QED BY <2>0, <3>1, <3>4 DEF Begins, steps
  <2>2. CASE \E site \in Site, config \in {<<"config">>, << >>} :
               /\ ram.membership.site = site \/ MayMoveSite(ram, p)
               /\ Begin("loop", "join", p, site,
                        <<"registry", "credential", "membership">> \o config)
    <3> DEFINE first == <<"registry", "credential", "membership">>
    <3>1. PICK site \in Site, config \in {<<"config">>, << >>} :
            /\ ram.membership.site = site \/ MayMoveSite(ram, p)
            /\ Begin("loop", "join", p, site, first \o config)
      BY <2>2
    <3>2. /\ first \in Seq(Store) /\ first # << >>
          /\ Omits(first, "readiness")
      BY DEF Omits, Store, Relations
    <3> HIDE DEF first
    <3> DEFINE steps == first \o config
    <3>3. /\ steps \in Seq(Store) /\ steps # << >>
          /\ Omits(steps, "readiness")
      BY <1>2, <3>1, <3>2
    <3> HIDE DEF steps
    <3>4. Prepared("loop", "join", p, site, steps)
      BY <2>0, <3>1, <3>3 DEF Prepared, Leased, Refreshing, Canonical
    <3> QED BY <2>0, <3>1, <3>4 DEF Begins, steps
  <2>3. PeerSite \in Site /\ ram.membership.site \in Site
    BY DEF Site, Disk, Membership
  <2> QED BY <1>3, <2>1, <2>2, <2>3 DEF CommitPairing
<1>4. ASSUME CommitRoster
      PROVE  Begins("web", "roster", Nobody, "none", <<"config">>)
  <2>1. /\ <<"config">> \in Seq(Store) /\ <<"config">> # << >>
        /\ Omits(<<"config">>, "readiness") /\ Omits(<<"config">>, "registry")
    BY DEF Omits, Store
  <2>2. Prepared("web", "roster", Nobody, "none", <<"config">>)
    BY <2>1 DEF Prepared, Leased, Refreshing, Canonical
  <2> QED BY <1>4, <2>2 DEF CommitRoster, Begins
<1>5. ASSUME Reset
      PROVE  \E site \in Site : \E steps :
               Begins("web", "reset", Nobody, site, steps)
  <2> DEFINE steps == <<"credential", "readiness", "registry", "membership",
                        "config", "directory">>
  <2>1. PICK site \in OwnSite : Begin("web", "reset", Nobody, site, steps)
    BY <1>5 DEF Reset
  <2>2. /\ steps \in Seq(Store) /\ steps # << >> /\ ~Omits(steps, "registry")
        /\ site \in Site
    <3>1. Len(steps) = 6 /\ steps[3] = "registry" /\ steps # << >>
      OBVIOUS
    <3>2. steps \in Seq(Store) /\ site \in Site
      BY DEF Store, Relations, Site
    <3> QED BY <3>1, <3>2 DEF Omits
  <2>3. UNCHANGED window
    BY <1>5 DEF Reset
  <2> HIDE DEF steps
  <2>4. Prepared("web", "reset", Nobody, site, steps)
    BY <2>2 DEF Prepared, Leased, Refreshing, Canonical
  <2> QED BY <2>1, <2>2, <2>3, <2>4 DEF Begins
<1> QED BY <1>0, <1>3, <1>4, <1>5

(* An operation of any of the kinds.                                       *)
Operates ==
  \/ \E p \in Participant : Requested(p)
  \/ \E p \in Node : CommitPairing(p)
  \/ CommitRoster
  \/ Reset

LEMMA OperatesBegins ==
  ASSUME Operates, ram \in Disk
  PROVE  \E t \in Task, op \in Operation, p \in Participant \cup {Nobody},
            arg \in Profile \cup Site : \E steps : Begins(t, op, p, arg, steps)
<1>1. Leased \cup Pairing \cup {"roster", "reset"} \subseteq Operation
  BY DEF Operation
<1>2. "web" \in Task
  BY DEF Task
<1> QED BY <1>1, <1>2, RequestBegins, OtherBegins DEF Operates

LEMMA OperatesType ==
  ASSUME TypeInv, Operates
  PROVE  TypeInv'
<1>1. ram \in Disk
  BY DEF TypeInv, TypeOK
<1> PICK t \in Task, op \in Operation, p \in Participant \cup {Nobody},
         arg \in Profile \cup Site : \E steps : Begins(t, op, p, arg, steps)
  BY <1>1, OperatesBegins
<1>2. PICK steps : Begins(t, op, p, arg, steps)
  OBVIOUS
<1>3. /\ steps \in Seq(Store) /\ steps # << >>
      /\ op \in {"join", "reset"} => arg \in Site
      /\ op \notin {"join", "reset"} => arg \in Profile
      /\ op = "join" => \A i \in 1..Len(steps) : steps[i] # "readiness"
      /\ Begin(t, op, p, arg, steps) /\ UNCHANGED window
  BY <1>2 DEF Begins, Prepared, Omits, Profiled
<1> QED BY <1>3, BeginType

(* The rest of a transaction.                                              *)
LEMMA TailFacts ==
  ASSUME NEW S, NEW q \in Seq(S), q # <<>>
  PROVE  /\ Head(q) \in S /\ Head(q) = q[1] /\ Tail(q) \in Seq(S)
         /\ Len(q) \in Nat /\ 1 \in 1..Len(q)
         /\ \A i \in 1..Len(Tail(q)) : /\ i + 1 \in 1..Len(q)
                                       /\ Tail(q)[i] = q[i + 1]
OBVIOUS

(* A task at work has a next store.                                        *)
LEMMA AtWork ==
  ASSUME TypeInv, NEW t \in Task, Busy(t)
  PROVE  LET j == job[t]
             s == Head(j.todo)
         IN  /\ j \in Jobs /\ JobTyped(j) /\ j.op # "none"
             /\ j.todo \in Seq(Store) /\ j.todo # <<>>
             /\ s \in Store /\ s = j.todo[1] /\ 1 \in 1..Len(j.todo)
             /\ Tail(j.todo) \in Seq(Store)
             /\ s = "readiness" => j.op # "join"
             /\ j.undo => s \in Saved
<1>1. /\ job[t] \in Jobs /\ JobTyped(job[t]) /\ job[t].op # "none"
      /\ job[t].todo # <<>>
  BY DEF TypeInv, TypeOK, Busy
<1>2. job[t].todo \in Seq(Store)
  BY <1>1 DEF Jobs
<1>3. /\ Head(job[t].todo) \in Store /\ Head(job[t].todo) = job[t].todo[1]
      /\ 1 \in 1..Len(job[t].todo) /\ Tail(job[t].todo) \in Seq(Store)
  BY <1>1, <1>2, TailFacts
<1> QED BY <1>1, <1>2, <1>3 DEF JobTyped

(* A write gives its store content of its kind, in both places.            *)
LEMMA WrittenType ==
  ASSUME TypeInv, NEW t \in Task, Busy(t), Head(job[t].todo) # "directory",
         NEW d \in Disk
  PROVE  LET s == Head(job[t].todo)
         IN  [d EXCEPT ![s] = Target(job[t], s)] \in Disk
<1> DEFINE j == job[t]
           s == Head(j.todo)
           v == Target(j, s)
<1>1. /\ j \in Jobs /\ JobTyped(j) /\ s \in Store \ {"directory"}
      /\ s = "readiness" => j.op # "join"
  BY AtWork
<1>2. ram \in Disk
  BY DEF TypeInv, TypeOK
<1> HIDE DEF j, s
<1>3. /\ s = "registry" => v \in [Participant -> Standing]
      /\ s = "readiness" => v \in [Participant -> Profile]
      /\ s = "credential" => v \in [Participant -> Credential]
      /\ s = "membership" => v \in Membership
      /\ s = "config" => v \in Configuration
  BY <1>1, <1>2, TargetType
<1> HIDE DEF v
<1>4. [d EXCEPT ![s] = v] \in Disk
  BY <1>1, <1>3, OverwriteType
<1> QED BY <1>4 DEF j, s, v

(* The writes that a written store leaves.                                 *)
LEMMA AdvancedType ==
  ASSUME TypeInv, NEW t \in Task, Busy(t)
  PROVE  LET j == job[t]
             rest == Advanced(j, Head(j.todo))
         IN  /\ rest \in Seq(Store)
             /\ j.op \notin Refreshing => rest = Tail(j.todo)
<1>1. <<"directory", "membership">> \in Seq(Store)
  BY DEF Store
<1> QED BY <1>1, AtWork DEF Advanced

(* The next write of a transaction.                                        *)
LEMMA WriteType ==
  ASSUME TypeInv, NEW t \in Task, Write(t)
  PROVE  TypeInv'
<1> DEFINE j == job[t]
           s == Head(j.todo)
           rest == Advanced(j, s)
           done == j.done \cup (IF Skips(j, s) THEN {} ELSE {s})
           next == [j EXCEPT !.todo = rest, !.done = done]
<1>0. Busy(t) /\ ~j.undo
  BY DEF Write
<1>1. /\ j \in Jobs /\ JobTyped(j) /\ j.op # "none"
      /\ j.todo \in Seq(Store) /\ j.todo # <<>> /\ s \in Store
  BY <1>0, AtWork
<1>2. /\ rest \in Seq(Store)
      /\ j.op \notin Refreshing => rest = Tail(j.todo)
  BY <1>0, AdvancedType
<1>3. job' = [job EXCEPT ![t] = IF rest = <<>> THEN Idle ELSE next]
  BY DEF Write
<1>4. flash' \in Disk /\ ram' \in Disk
  <2>1. flash \in Disk /\ ram \in Disk
    BY DEF TypeInv, TypeOK
  <2>2. CASE s = "directory" \/ Skips(j, s)
    BY <2>1, <2>2 DEF Write
  <2>3. CASE s # "directory" /\ ~Skips(j, s)
    <3>1. /\ flash' = [flash EXCEPT ![s] = Target(j, s)]
          /\ ram' = [ram EXCEPT ![s] = Target(j, s)]
      BY <2>3 DEF Write
    <3> QED BY <1>0, <2>1, <2>3, <3>1, WrittenType
  <2> QED BY <2>2, <2>3
<1>5. /\ recon' \in {"not_required", "pending", "complete", "failed"}
      /\ window' \in Participant \cup {Nobody, "closed"}
      /\ outcome' \in {"none", "ok", "refused", "broken"}
      /\ UNCHANGED <<ready, broken, budget>>
  <2>1. recon' = Reconciled(j, s, rest)
    BY DEF Write
  <2>2. recon' \in {"not_required", "complete", recon}
    BY <2>1 DEF Reconciled
  <2>3. window' \in {"closed", window}
    BY DEF Write
  <2>4. outcome' \in {"ok", outcome}
    BY DEF Write, Concluded
  <2>5. UNCHANGED <<ready, broken, budget>>
    BY DEF Write
  <2> QED BY <2>2, <2>3, <2>4, <2>5 DEF TypeInv, TypeOK
<1>6. ASSUME rest # <<>>
      PROVE  /\ next \in Jobs /\ JobTyped(next)
             /\ next.op # "none" /\ next.todo # <<>>
  <2>1. /\ j.done \subseteq Store /\ next \in Jobs
        /\ next.op = j.op /\ next.arg = j.arg /\ next.undo = j.undo
        /\ next.todo = rest
    BY <1>1, <1>2 DEF Jobs
  <2>2. j.op = "join" => \A i \in 1..Len(rest) : rest[i] # "readiness"
    <3> SUFFICES ASSUME j.op = "join"
                 PROVE  \A i \in 1..Len(rest) : rest[i] # "readiness"
      OBVIOUS
    <3>1. rest = Tail(j.todo)
      BY <1>2 DEF Refreshing
    <3>2. \A i \in 1..Len(j.todo) : j.todo[i] # "readiness"
      BY <1>1 DEF JobTyped
    <3> HIDE DEF j, rest
    <3> QED BY <1>1, <3>1, <3>2, TailFacts
  <2> HIDE DEF next, rest
  <2> QED BY <1>0, <1>1, <1>6, <2>1, <2>2 DEF JobTyped
<1> DEFINE k == IF rest = <<>> THEN Idle ELSE next
<1>7. k \in Jobs /\ JobTyped(k) /\ (k.op # "none" <=> k.todo # <<>>)
  BY <1>6, IdleType
<1>8. job' = [job EXCEPT ![t] = k]
  BY <1>3
<1> HIDE DEF k
<1> QED BY <1>4, <1>5, <1>7, <1>8, JobUpdate DEF TypeInv, TypeOK

(* The credentials are written back at most once, and always when they     *)
(* changed.                                                                *)
LEMMA CredentialBack ==
  ASSUME NEW j
  PROVE  /\ \/ ChangedCredential(j) = <<"credential">>
            \/ ChangedCredential(j) = << >>
         /\ \/ "credential" \notin j.done
            \/ ChangedCredential(j) = <<"credential">>
  BY DEF ChangedCredential, Changed

(* What is taken back is taken back in stores whose content was kept.      *)
LEMMA UndoingType ==
  ASSUME NEW j
  PROVE  /\ Undoing(j) \in Seq(Saved)
         /\ j.op = "join" => Undoing(j) \in Seq({"membership"})
<1>1. \A S : \A s \in S : Changed(j, s) \in Seq(S)
  <2> SUFFICES ASSUME NEW S, NEW s \in S PROVE Changed(j, s) \in Seq(S)
    OBVIOUS
  <2>1. <<s>> \in Seq(S) /\ << >> \in Seq(S)
    OBVIOUS
  <2> QED BY <2>1 DEF Changed
<1>2. {"readiness", "credential", "registry", "membership"} \subseteq Saved
  BY DEF Saved, Relations
<1>0. ChangedCredential(j) \in Seq(Saved)
  <2>1. "credential" \in Saved
    BY <1>2
  <2>2. <<"credential">> \in Seq(Saved) /\ << >> \in Seq(Saved)
    BY <2>1
  <2> QED BY <2>2, CredentialBack
<1>3. /\ Changed(j, "readiness") \in Seq(Saved)
      /\ Changed(j, "registry") \in Seq(Saved)
      /\ Changed(j, "membership") \in Seq(Saved)
      /\ Changed(j, "membership") \in Seq({"membership"})
      /\ << >> \in Seq(Saved)
  BY <1>1, <1>2
<1>4. \A S : \A a, b, c \in Seq(S) : (a \o b) \o c \in Seq(S)
  OBVIOUS
<1>5. "join" \notin Leased
  BY DEF Leased, Refreshing, Canonical
<1>6. Changed(j, "readiness") \o ChangedCredential(j)
        \o Changed(j, "registry") \in Seq(Saved)
  BY <1>0, <1>3, <1>4
<1> QED BY <1>3, <1>5, <1>6 DEF Undoing

(* A transaction that cannot go on.                                        *)
LEMMA AbandonType ==
  ASSUME TypeInv, NEW t \in Task, Busy(t), ~job[t].undo,
         NEW lost \in SUBSET Operation, Abandon(t, lost),
         ram' \in Disk,
         budget' \in [operations : Nat, failures : Nat, cuts : Nat]
  PROVE  TypeInv'
<1> DEFINE j == job[t]
           undo == Undoing(j)
           next == [j EXCEPT !.todo = undo, !.undo = TRUE]
           k == IF undo = <<>> THEN Idle ELSE next
<1>1. j \in Jobs /\ JobTyped(j) /\ j.op # "none"
  BY AtWork
<1>2. job' = [job EXCEPT ![t] = k]
  BY DEF Abandon
<1>3. ASSUME undo # <<>>
      PROVE  /\ next \in Jobs /\ JobTyped(next)
             /\ next.op # "none" /\ next.todo # <<>>
  <2>1. /\ undo \in Seq(Saved) /\ undo \in Seq(Store)
        /\ j.op = "join" => undo \in Seq({"membership"})
    <3>1. Saved \subseteq Store
      BY DEF Saved, Store
    <3>2. undo \in Seq(Saved) /\ (j.op = "join" => undo \in Seq({"membership"}))
      BY UndoingType
    <3> HIDE DEF undo
    <3> QED BY <3>1, <3>2
  <2> HIDE DEF undo
  <2>2. /\ next \in Jobs /\ next.op = j.op /\ next.arg = j.arg
        /\ next.undo = TRUE /\ next.todo = undo
    BY <1>1, <2>1 DEF Jobs
  <2>3. /\ \A i \in 1..Len(undo) : undo[i] \in Saved
        /\ j.op = "join" => \A i \in 1..Len(undo) : undo[i] = "membership"
    BY <2>1
  <2> HIDE DEF next, j
  <2> QED BY <1>1, <1>3, <2>2, <2>3 DEF JobTyped
<1>4. k \in Jobs /\ JobTyped(k) /\ (k.op # "none" <=> k.todo # <<>>)
  BY <1>3, IdleType
<1>5. /\ flash' = flash /\ ready' = ready /\ window' = window
      /\ outcome' \in {"refused", outcome}
      /\ recon' \in {"failed", "not_required", recon}
  BY DEF Abandon, Concluded
<1>6. broken' \subseteq Operation
  <2>1. j.op \in Operation /\ "settle" \in Operation
    BY <1>1 DEF Jobs, Operation
  <2>2. broken' \subseteq broken \cup lost \cup {"settle", j.op}
    BY DEF Abandon
  <2> QED BY <2>1, <2>2 DEF TypeInv, TypeOK
<1> HIDE DEF k
<1> QED BY <1>2, <1>4, <1>5, <1>6, JobUpdate DEF TypeInv, TypeOK

LEMMA RefuseType ==
  ASSUME TypeInv, NEW t \in Task, Refuse(t)
  PROVE  TypeInv'
<1>1. /\ ram' \in Disk
      /\ budget' \in [operations : Nat, failures : Nat, cuts : Nat]
  BY DEF Refuse, TypeInv, TypeOK
<1> QED BY <1>1, AbandonType DEF Refuse

(* A failed write takes one of the failures to come, or two.               *)
LEMMA FailType ==
  ASSUME TypeInv, NEW t \in Task, Fail(t)
  PROVE  TypeInv'
<1> DEFINE j == job[t]
           s == Head(j.todo)
<1>0. /\ Busy(t) /\ ~j.undo /\ budget.failures > 0
      /\ ram \in Disk
  BY DEF Fail, TypeInv, TypeOK
<1>1. PICK after \in AfterFailure(j, s) :
        /\ Abandon(t, IF after = ram THEN {} ELSE {j.op})
        /\ ram' = after
        /\ budget' = [budget EXCEPT
             !.failures = @ - (IF after = ram \/ j.op = "reset" THEN 1 ELSE 2)]
  BY DEF Fail
<1> DEFINE changed == IF s = "directory" THEN ram
                      ELSE [ram EXCEPT ![s] = Target(j, s)]
<1>2. changed \in Disk
  BY <1>0, WrittenType
<1>3. /\ after \in {ram, changed}
      /\ after # ram /\ j.op # "reset" => budget.failures > 1
  <2>1. AfterFailure(j, s) =
          CASE j.op = "reset" /\ s \in Relations -> {changed}
            [] j.op = "erase" /\ s = "readiness" /\ budget.failures > 1 ->
                 {ram, changed}
            [] OTHER -> {ram}
    BY DEF AfterFailure
  <2> HIDE DEF changed
  <2> QED BY <1>1, <2>1
<1>4. budget' \in [operations : Nat, failures : Nat, cuts : Nat]
  BY <1>0, <1>1, <1>3 DEF TypeInv, TypeOK
<1>5. ram' \in Disk
  BY <1>0, <1>1, <1>2, <1>3
<1>6. j.op \in Operation
  BY <1>0, AtWork DEF Jobs
<1> QED BY <1>0, <1>1, <1>4, <1>5, <1>6, AbandonType

(* A transaction that ends early, with its refreshed roster in place.      *)
LEMMA DeferType ==
  ASSUME TypeInv, DeferMembership
  PROVE  TypeInv'
<1>1. "web" \in Task /\ job' = [job EXCEPT !["web"] = Idle]
  BY DEF Task, DeferMembership
<1>2. /\ flash' = flash /\ ram' = ram /\ ready' = ready /\ window' = window
      /\ broken' = broken /\ recon' \in {"pending", "not_required"}
      /\ outcome' \in {"ok", outcome}
  BY DEF DeferMembership, Concluded
<1>3. budget' \in [operations : Nat, failures : Nat, cuts : Nat]
  BY DEF DeferMembership, TypeInv, TypeOK
<1> QED BY <1>1, <1>2, <1>3, IdleType, JobUpdate DEF TypeInv, TypeOK

(* The return to a Site of its own.                                        *)
LEMMA SettleType ==
  ASSUME TypeInv, Settle
  PROVE  TypeInv'
<1>1. /\ flash' = flash /\ ram' = ram /\ ready' = ready /\ window' = window
      /\ outcome' = outcome /\ budget' = budget
  BY DEF Settle
<1>2. "settle" \in Operation /\ "none" \in Profile /\ "loop" \in Task
  BY DEF Operation, Profile, Task
<1>3. CASE Related(ram) # {}
  <2>1. job' = job /\ recon' = "not_required"
    BY <1>3 DEF Settle
  <2>2. broken' \subseteq broken \cup {"settle"}
    BY <1>3 DEF Settle
  <2> QED BY <1>1, <1>2, <2>1, <2>2 DEF TypeInv, TypeOK, Busy
<1>4. CASE Related(ram) = {}
  <2> DEFINE steps == <<"config", "directory", "membership">>
             k == [Idle EXCEPT !.op = "settle", !.todo = steps]
  <2>1. /\ job' = [job EXCEPT !["loop"] = k] /\ recon' = recon
        /\ broken' = broken \cup Across("settle")
    BY <1>4 DEF Settle
  <2>2. steps \in Seq(Store) /\ steps # <<>>
    BY DEF Store, Relations
  <2>3. Across("settle") \subseteq Operation
    BY DEF Across, Operation
  <2> HIDE DEF steps
  <2>4. /\ k \in Jobs /\ k.op = "settle" /\ k.todo = steps /\ ~k.undo
        /\ k.arg = "none"
    BY <1>2, <2>2, IdleType DEF Jobs, Idle
  <2> HIDE DEF k
  <2>5. JobTyped(k)
    BY <1>2, <2>4 DEF JobTyped
  <2> QED BY <1>1, <1>2, <2>1, <2>2, <2>3, <2>4, <2>5, JobUpdate
          DEF TypeInv, TypeOK
<1> QED BY <1>3, <1>4

(* A rollback goes on, or ends.                                            *)
LEMMA EndedType ==
  ASSUME TypeInv, NEW t \in Task, NEW k \in Jobs, JobTyped(k),
         k.op # "none", k.op = job[t].op, Ended(t, k),
         flash' \in Disk, ram' \in Disk,
         UNCHANGED <<ready, recon, window>>,
         budget' \in [operations : Nat, failures : Nat, cuts : Nat]
  PROVE  TypeInv'
<1> DEFINE next == IF k.todo = <<>> THEN Idle ELSE k
<1>1. /\ next \in Jobs /\ JobTyped(next)
      /\ next.op # "none" <=> next.todo # <<>>
  BY IdleType
<1>2. job' = [job EXCEPT ![t] = next]
  BY DEF Ended
<1>3. outcome' \in {"refused", "broken", outcome}
  BY DEF Ended, Concluded
<1>4. broken' \subseteq Operation
  <2>1. k.op \in Operation
    BY DEF Jobs
  <2>2. broken' \subseteq broken \cup {k.op}
    BY DEF Ended
  <2> QED BY <2>1, <2>2 DEF TypeInv, TypeOK
<1> HIDE DEF next
<1> QED BY <1>1, <1>2, <1>3, <1>4, JobUpdate DEF TypeInv, TypeOK

(* What is left of a rollback is a rollback.                               *)
LEMMA ShorterUndo ==
  ASSUME NEW j \in Jobs, JobTyped(j), j.undo, NEW q \in Seq(Store),
         \A i \in 1..Len(q) : \E k \in 1..Len(j.todo) : q[i] = j.todo[k],
         NEW b \in BOOLEAN
  PROVE  LET next == [j EXCEPT !.todo = q, !.sound = b]
         IN  /\ next \in Jobs /\ JobTyped(next)
             /\ next.op = j.op /\ next.todo = q
<1> DEFINE next == [j EXCEPT !.todo = q, !.sound = b]
<1>1. /\ next \in Jobs /\ next.op = j.op /\ next.arg = j.arg
      /\ next.undo = j.undo /\ next.todo = q
  BY DEF Jobs
<1> HIDE DEF next
<1>2. JobTyped(next)
  BY <1>1 DEF JobTyped
<1> QED BY <1>1, <1>2 DEF next

LEMMA RestoreType ==
  ASSUME TypeInv, NEW t \in Task, Restore(t)
  PROVE  TypeInv'
<1> DEFINE j == job[t]
           s == Head(j.todo)
           next == [j EXCEPT !.todo = Tail(@)]
<1>0. Busy(t) /\ j.undo
  BY DEF Restore
<1>1. /\ j \in Jobs /\ JobTyped(j) /\ j.op # "none"
      /\ j.todo \in Seq(Store) /\ j.todo # <<>> /\ s \in Saved
      /\ Tail(j.todo) \in Seq(Store)
  BY <1>0, AtWork
<1>2. /\ flash' = [flash EXCEPT ![s] = j.saved[s]]
      /\ ram' = [ram EXCEPT ![s] = j.saved[s]]
      /\ Ended(t, next)
      /\ UNCHANGED <<ready, recon, window, budget>>
  BY DEF Restore
<1>3. flash' \in Disk /\ ram' \in Disk
  <2>1. flash \in Disk /\ ram \in Disk
    BY DEF TypeInv, TypeOK
  <2>2. /\ s = "registry" => j.saved[s] \in [Participant -> Standing]
        /\ s = "readiness" => j.saved[s] \in [Participant -> Profile]
        /\ s = "credential" => j.saved[s] \in [Participant -> Credential]
        /\ s = "membership" => j.saved[s] \in Membership
        /\ s # "config"
    BY <1>1 DEF Jobs, Saved, Relations
  <2>3. s \in Store \ {"directory"}
    BY <1>1 DEF Saved, Store, Relations
  <2> HIDE DEF s
  <2> QED BY <1>2, <2>1, <2>2, <2>3, OverwriteType
<1>4. /\ next \in Jobs /\ JobTyped(next)
      /\ next.op = j.op
  <2> DEFINE q == Tail(j.todo)
  <2>1. \A i \in 1..Len(q) : \E k \in 1..Len(j.todo) : q[i] = j.todo[k]
    BY <1>1, TailFacts
  <2>2. next = [j EXCEPT !.todo = q, !.sound = j.sound]
    BY <1>1 DEF Jobs
  <2>3. j.sound \in BOOLEAN /\ q \in Seq(Store)
    BY <1>1 DEF Jobs
  <2> HIDE DEF next, q, j
  <2> QED BY <1>0, <1>1, <2>1, <2>2, <2>3, ShorterUndo
<1>5. budget' \in [operations : Nat, failures : Nat, cuts : Nat]
  BY <1>2 DEF TypeInv, TypeOK
<1> HIDE DEF next
<1> QED BY <1>1, <1>2, <1>3, <1>4, <1>5, EndedType

LEMMA RestoreFailsType ==
  ASSUME TypeInv, NEW t \in Task, RestoreFails(t)
  PROVE  TypeInv'
<1> DEFINE j == job[t]
           others == Tail(j.todo)
           last == Len(others)
           q == IF last > 0 /\ others[last] = "registry"
                  THEN SubSeq(others, 1, last - 1) ELSE others
           next == [j EXCEPT !.todo = q, !.sound = FALSE]
<1>0. /\ Busy(t) /\ j.undo /\ Ended(t, next)
      /\ UNCHANGED <<flash, ram, ready, recon, window>>
  BY DEF RestoreFails
<1>1. /\ j \in Jobs /\ JobTyped(j) /\ j.op # "none"
      /\ j.todo \in Seq(Store) /\ j.todo # <<>>
      /\ others \in Seq(Store)
  BY <1>0, AtWork
<1>2. budget' \in [operations : Nat, failures : Nat, cuts : Nat]
  BY DEF RestoreFails, TypeInv, TypeOK
<1>3. q \in Seq(Store)
      /\ \A i \in 1..Len(q) : \E k \in 1..Len(j.todo) : q[i] = j.todo[k]
  <2>1. \A i \in 1..Len(others) :
          \E k \in 1..Len(j.todo) : others[i] = j.todo[k]
    BY <1>1, TailFacts
  <2> HIDE DEF others
  <2>2. q \in Seq(Store) /\ \A i \in 1..Len(q) :
                              i \in 1..Len(others) /\ q[i] = others[i]
    <3>1. CASE last > 0 /\ others[last] = "registry"
      <4>1. q = SubSeq(others, 1, last - 1)
        BY <3>1
      <4>2. last - 1 \in 0..Len(others)
        BY <1>1, <3>1
      <4> QED BY <1>1, <4>1, <4>2
    <3>2. CASE ~(last > 0 /\ others[last] = "registry")
      BY <1>1, <3>2
    <3> QED BY <3>1, <3>2
  <2> HIDE DEF q
  <2> QED BY <2>1, <2>2
<1> HIDE DEF q
<1>4. next \in Jobs /\ JobTyped(next) /\ next.op = j.op
  <2> HIDE DEF j
  <2> QED BY <1>0, <1>1, <1>3, ShorterUndo
<1> HIDE DEF next
<1>5. flash' \in Disk /\ ram' \in Disk
  BY <1>0 DEF TypeInv, TypeOK
<1> QED BY <1>0, <1>1, <1>2, <1>4, <1>5, EndedType

(* The enrollment window, replication and the power supply.                *)
LEMMA WindowType ==
  ASSUME TypeInv,
         OpenWindow \/ CloseWindow \/ \E p \in Participant : Stage(p)
  PROVE  TypeInv'
<1>1. /\ window' \in Participant \cup {Nobody, "closed"}
      /\ UNCHANGED <<flash, ram, ready, recon, job, outcome, broken, budget>>
  BY DEF OpenWindow, CloseWindow, Stage
<1> QED BY <1>1 DEF TypeInv, TypeOK, Busy

LEMMA RepairedType ==
  ASSUME NEW d \in Disk
  PROVE  Repaired(d) \in Disk
<1>1. [d EXCEPT !.membership.mode = "enrolled"] \in Disk
  BY DEF Disk, Membership
<1> QED BY <1>1 DEF Repaired

LEMMA PullType ==
  ASSUME TypeInv, NEW p \in Node, PullConfiguration(p)
  PROVE  TypeInv'
<1>1. PICK others \in SUBSET (Node \ {p}) :
        LET config == [site |-> ram.membership.site, owner |-> p,
                       member |-> [q \in Participant |->
                         IF q = p THEN "eligible"
                         ELSE IF q \in others THEN "active" ELSE "none"]]
        IN  /\ flash' = Repaired([flash EXCEPT !.config = config])
            /\ ram' = Repaired([ram EXCEPT !.config = config])
  BY DEF PullConfiguration
<1> DEFINE member == [q \in Participant |->
                        IF q = p THEN "eligible"
                        ELSE IF q \in others THEN "active" ELSE "none"]
           config == [site |-> ram.membership.site, owner |-> p,
                      member |-> member]
<1>2. config \in Configuration
  <2>1. member \in [Participant -> Standing]
    BY DEF Standing
  <2>2. ram.membership.site \in Site
    BY DEF TypeInv, TypeOK, Disk, Membership
  <2> QED BY <2>1, <2>2 DEF Configuration
<1>3. /\ flash' = Repaired([flash EXCEPT !.config = config])
      /\ ram' = Repaired([ram EXCEPT !.config = config])
  BY <1>1
<1> HIDE DEF config
<1>4. /\ [flash EXCEPT !.config = config] \in Disk
      /\ [ram EXCEPT !.config = config] \in Disk
  BY <1>2 DEF TypeInv, TypeOK, Disk
<1>5. flash' \in Disk /\ ram' \in Disk
  BY <1>3, <1>4, RepairedType
<1>6. UNCHANGED <<ready, recon, window, job, outcome, broken, budget>>
  BY DEF PullConfiguration
<1> QED BY <1>5, <1>6 DEF TypeInv, TypeOK, Busy

LEMMA PowerCutType ==
  ASSUME TypeInv, PowerCut
  PROVE  TypeInv'
<1>1. flash' \in Disk /\ ram' \in Disk
  BY RepairedType DEF PowerCut, TypeInv, TypeOK
<1>2. /\ ready' \in BOOLEAN /\ recon' \in {"pending", "not_required"}
      /\ window' = "closed" /\ outcome' = "none"
  BY DEF PowerCut, Loaded, SameSite, Scheduled
<1>3. broken' \subseteq Operation
  <2>1. \A t \in Task : Busy(t) => job[t].op \in Operation
    BY DEF TypeInv, TypeOK, Jobs, Busy
  <2> QED BY <2>1 DEF PowerCut, TypeInv, TypeOK
<1>4. budget' \in [operations : Nat, failures : Nat, cuts : Nat]
  BY DEF PowerCut, TypeInv, TypeOK
<1>5. job' = [t \in Task |-> Idle]
  BY DEF PowerCut
<1> QED BY <1>1, <1>2, <1>3, <1>4, <1>5, IdleType DEF TypeInv, TypeOK, Busy

LEMMA InitType == Init => TypeInv
<1> SUFFICES ASSUME Init PROVE TypeInv
  OBVIOUS
<1>1. PICK start \in Setup :
        /\ flash = start.disk /\ ram = start.disk
        /\ ready = Loaded(start.disk)
        /\ recon = Scheduled(start.disk)
        /\ budget = start.budget
  BY DEF Init
<1>2. /\ start.disk \in Disk
      /\ start.budget \in [operations : Nat, failures : Nat, cuts : Nat]
  BY SetupAssumption
<1>3. ready \in BOOLEAN /\ recon \in {"pending", "not_required"}
  BY <1>1 DEF Loaded, SameSite, Scheduled
<1>4. /\ window = "closed" /\ outcome = "none" /\ broken = {}
      /\ job = [t \in Task |-> Idle]
  BY DEF Init
<1> QED BY <1>1, <1>2, <1>3, <1>4, IdleType DEF TypeInv, TypeOK, Busy

LEMMA StutterType ==
  ASSUME TypeInv, UNCHANGED vars
  PROVE  TypeInv'
BY DEF TypeInv, TypeOK, vars, Busy

LEMMA NextType ==
  ASSUME TypeInv, [Next]_vars
  PROVE  TypeInv'
<1>1. ASSUME NEW t \in Task, Proceeds(t) PROVE TypeInv'
  BY <1>1, WriteType, RefuseType, FailType, RestoreType, RestoreFailsType
     DEF Proceeds
<1>2. Node \subseteq Participant
  BY DEF Participant
<1> QED BY <1>1, <1>2, OperatesType, SettleType, DeferType,
           WindowType, PullType, PowerCutType, StutterType DEF Next, Operates

(* TypeOK holds for any numbers of participants and Sites: whatever mix of *)
(* transactions, failures and power cuts, each store keeps content of its  *)
(* kind and a transaction at work has something left to write.             *)
THEOREM ParticipantsTyped == Spec => []TypeOK
<1>1. TypeInv /\ [Next]_vars => TypeInv'
  BY NextType
<1>2. TypeInv => TypeOK
  BY DEF TypeInv
<1> QED BY <1>1, <1>2, InitType, PTL DEF Spec

-----------------------------------------------------------------------------
(* Profiles                                                                *)

(* The stores a transaction still has to write or to restore: a profile    *)
(* only by the operations that change one, a record by none that does not. *)
JobSound(j) ==
  /\ ~j.undo /\ j.op \notin Profiled => Omits(j.todo, "readiness")
  /\ ~j.undo /\ j.op \in Unregistered => Omits(j.todo, "registry")
  /\ j.undo => j.op \in Leased \cup {"join"}
  /\ j.undo /\ j.op = "join" => /\ Omits(j.todo, "readiness")
                                /\ Omits(j.todo, "registry")
  /\ j.op \in {"configure", "reconfigure"} => j.arg # "none"
  /\ j.op \in {"forget", "erase"} => j.arg = "none"

(* Which transactions each task runs, and which exclude each other.        *)
TasksApart ==
  /\ job["web"].op \in Leased \cup {"roster", "reset", "none"}
  /\ job["loop"].op \in Pairing \cup {"settle", "none"}
  /\ job["web"].op \in Leased => job["loop"].op \notin Pairing

JobsInv == TypeInv /\ (\A t \in Task : JobSound(job[t])) /\ TasksApart

(* A transaction that goes on, or ends.                                    *)
Continues(t, k) ==
  LET j == job[t] IN
  /\ job' = [job EXCEPT ![t] = k]
  /\ \/ k = Idle
     \/ /\ k.op = j.op /\ k.who = j.who /\ k.arg = j.arg /\ k.saved = j.saved
        /\ j.undo => k.undo
        /\ JobSound(k)

LEMMA OmitsTail ==
  ASSUME NEW q \in Seq(Store), q # << >>, NEW s, Omits(q, s)
  PROVE  Head(q) # s /\ Omits(Tail(q), s)
BY TailFacts DEF Omits

LEMMA OmitsAll ==
  ASSUME NEW q \in Seq(Store), q # << >>, NEW s,
         Head(q) # s, Omits(Tail(q), s)
  PROVE  Omits(q, s)
<1>1. \A i \in 1..Len(q) :
        \/ i = 1 /\ q[i] = Head(q)
        \/ i - 1 \in 1..Len(Tail(q)) /\ q[i] = Tail(q)[i - 1]
  OBVIOUS
<1> QED BY <1>1 DEF Omits

LEMMA WriteContinues ==
  ASSUME JobsInv, NEW t \in Task, Write(t)
  PROVE  \E k :
           /\ Continues(t, k)
           /\ ~k.undo /\ k.todo = Advanced(job[t], Head(job[t].todo))
<1> DEFINE j == job[t]
           s == Head(j.todo)
           rest == Advanced(j, s)
           done == j.done \cup (IF Skips(j, s) THEN {} ELSE {s})
           next == [j EXCEPT !.todo = rest, !.done = done]
           k == IF rest = << >> THEN Idle ELSE next
<1>1. /\ Busy(t) /\ ~j.undo /\ job' = [job EXCEPT ![t] = k]
      /\ TypeInv /\ JobSound(j)
  BY DEF Write, JobsInv
<1>2. j \in Jobs /\ j.todo \in Seq(Store) /\ j.todo # << >>
  BY <1>1, AtWork
<1>3. \A x \in {"readiness", "registry"} :
        Omits(j.todo, x) => Omits(rest, x)
  <2>1. /\ Omits(<<"directory", "membership">>, "readiness")
        /\ Omits(<<"directory", "membership">>, "registry")
    BY DEF Omits
  <2>2. rest = Tail(j.todo) \/ rest = <<"directory", "membership">>
    BY DEF Advanced
  <2>3. \A x : Omits(j.todo, x) => Omits(Tail(j.todo), x)
    BY <1>2, OmitsTail
  <2> HIDE DEF rest, j
  <2> QED BY <2>1, <2>2, <2>3
<1>4. /\ next.op = j.op /\ next.who = j.who /\ next.arg = j.arg
      /\ next.saved = j.saved /\ next.undo = j.undo /\ next.todo = rest
  BY <1>2 DEF Jobs
<1>5. JobSound(next)
  <2> HIDE DEF next, rest, j
  <2> QED BY <1>1, <1>3, <1>4 DEF JobSound
<1>6. Continues(t, k) /\ ~k.undo /\ k.todo = rest
  <2> HIDE DEF next
  <2> QED BY <1>1, <1>4, <1>5, IdleType DEF Continues
<1> QED BY <1>6

LEMMA AbandonContinues ==
  ASSUME JobsInv, NEW t \in Task, Busy(t), ~job[t].undo, NEW lost,
         Abandon(t, lost)
  PROVE  \E k : Continues(t, k)
<1> DEFINE j == job[t]
           undo == Undoing(j)
           next == [j EXCEPT !.todo = undo, !.undo = TRUE]
           k == IF undo = << >> THEN Idle ELSE next
<1>1. job' = [job EXCEPT ![t] = k] /\ TypeInv /\ JobSound(j)
  BY DEF Abandon, JobsInv
<1>2. j \in Jobs
  BY <1>1, AtWork
<1>3. /\ undo # << >> => j.op \in Leased \cup {"join"}
      /\ j.op = "join" => Omits(undo, "readiness") /\ Omits(undo, "registry")
  <2>1. j.op = "join" => undo \in Seq({"membership"})
    BY UndoingType
  <2>2. undo # << >> => j.op \in Leased \cup {"join"}
    BY DEF Undoing
  <2> HIDE DEF undo
  <2> QED BY <2>1, <2>2 DEF Omits
<1>4. /\ next.op = j.op /\ next.who = j.who /\ next.arg = j.arg
      /\ next.saved = j.saved /\ next.undo = TRUE /\ next.todo = undo
  BY <1>2 DEF Jobs
<1>5. undo # << >> => JobSound(next)
  <2> HIDE DEF next, undo, j
  <2> QED BY <1>1, <1>3, <1>4 DEF JobSound
<1>6. Continues(t, k)
  <2> HIDE DEF next
  <2> QED BY <1>1, <1>4, <1>5 DEF Continues
<1> QED BY <1>6

LEMMA RestoreContinues ==
  ASSUME JobsInv, NEW t \in Task, Restore(t) \/ RestoreFails(t)
  PROVE  \E k : Continues(t, k)
<1> DEFINE j == job[t]
           others == Tail(j.todo)
           last == Len(others)
<1>1. /\ Busy(t) /\ j.undo /\ TypeInv /\ JobSound(j)
  BY DEF Restore, RestoreFails, JobsInv
<1>2. /\ j \in Jobs /\ j.todo \in Seq(Store) /\ j.todo # << >>
      /\ others \in Seq(Store)
  BY <1>1, AtWork
<1>3. PICK q, b :
        /\ \/ q = others
           \/ last > 0 /\ q = SubSeq(others, 1, last - 1)
        /\ job' = [job EXCEPT ![t] =
             IF q = << >> THEN Idle ELSE [j EXCEPT !.todo = q, !.sound = b]]
  <2>1. CASE Restore(t)
    <3> DEFINE next == [j EXCEPT !.todo = others]
    <3>1. job' = [job EXCEPT ![t] = IF next.todo = << >> THEN Idle ELSE next]
      BY <2>1 DEF Restore, Ended
    <3>2. next.todo = others /\ next = [j EXCEPT !.todo = others,
                                                 !.sound = j.sound]
      BY <1>2 DEF Jobs
    <3> HIDE DEF next, others, j
    <3> QED BY <3>1, <3>2
  <2>2. CASE RestoreFails(t)
    <3> DEFINE q == IF last > 0 /\ others[last] = "registry"
                      THEN SubSeq(others, 1, last - 1) ELSE others
               next == [j EXCEPT !.todo = q, !.sound = FALSE]
    <3>1. job' = [job EXCEPT ![t] = IF next.todo = << >> THEN Idle ELSE next]
      BY <2>2 DEF RestoreFails, Ended
    <3>2. next.todo = q
      BY <1>2 DEF Jobs
    <3>3. \/ q = others
          \/ last > 0 /\ q = SubSeq(others, 1, last - 1)
      OBVIOUS
    <3> HIDE DEF q, others, j
    <3> QED BY <3>1, <3>2, <3>3
  <2> QED BY <2>1, <2>2
<1> DEFINE next == [j EXCEPT !.todo = q, !.sound = b]
           k == IF q = << >> THEN Idle ELSE next
<1>4. \A x : Omits(j.todo, x) => Omits(q, x)
  <2>1. \A x : Omits(j.todo, x) => Omits(others, x)
    BY <1>2, OmitsTail
  <2>2. \A x : Omits(others, x) => Omits(q, x)
    <3> HIDE DEF others
    <3> QED BY <1>2, <1>3 DEF Omits
  <2> QED BY <2>1, <2>2
<1>5. /\ next.op = j.op /\ next.who = j.who /\ next.arg = j.arg
      /\ next.saved = j.saved /\ next.undo = j.undo /\ next.todo = q
  BY <1>2 DEF Jobs
<1>6. JobSound(next)
  <2> HIDE DEF next, j
  <2> QED BY <1>1, <1>4, <1>5 DEF JobSound
<1>7. job' = [job EXCEPT ![t] = k]
  BY <1>3
<1>8. Continues(t, k)
  <2> HIDE DEF next
  <2> QED BY <1>5, <1>6, <1>7 DEF Continues
<1> QED BY <1>8

LEMMA IdleSound == JobSound(Idle)
BY IdleType DEF JobSound, Profiled, Unregistered, Omits

LEMMA ProceedsContinues ==
  ASSUME JobsInv, NEW t \in Task, Proceeds(t)
  PROVE  \E k : Continues(t, k)
BY WriteContinues, AbandonContinues, RestoreContinues
   DEF Proceeds, Refuse, Fail

LEMMA ContinuesJobs ==
  ASSUME JobsInv, TypeInv', NEW t \in Task, NEW k, Continues(t, k)
  PROVE  JobsInv'
<1>1. job \in [Task -> Jobs] /\ {"web", "loop"} = Task
  BY DEF JobsInv, TypeInv, TypeOK, Task
<1>2. JobSound(k) /\ k.op \in {job[t].op, "none"}
  BY IdleSound, IdleType DEF Continues
<1>3. job' = [job EXCEPT ![t] = k]
  BY DEF Continues
<1>4. \A u \in Task : job'[u] = IF u = t THEN k ELSE job[u]
  BY <1>1, <1>3
<1>5. \A u \in Task : JobSound(job'[u])
  BY <1>2, <1>4 DEF JobsInv
<1>6. \A u \in Task : job'[u].op \in {job[u].op, "none"}
  BY <1>2, <1>4
<1>7. "none" \notin Leased
  BY DEF Leased, Refreshing, Canonical
<1>8. TasksApart'
  <2>1. /\ job'["web"].op \in {job["web"].op, "none"}
        /\ job'["loop"].op \in {job["loop"].op, "none"}
    BY <1>1, <1>6
  <2>2. "none" \notin Pairing
    BY DEF Pairing
  <2> QED BY <1>7, <2>1, <2>2 DEF JobsInv, TasksApart
<1> QED BY <1>5, <1>8 DEF JobsInv

LEMMA BeginsJobs ==
  ASSUME JobsInv, TypeInv', NEW t \in Task, NEW op, NEW p, NEW arg, NEW steps,
         Begins(t, op, p, arg, steps)
  PROVE  JobsInv'
<1>1. job \in [Task -> Jobs] /\ {"web", "loop"} = Task
  BY DEF JobsInv, TypeInv, TypeOK, Task
<1>2. PICK k : /\ job' = [job EXCEPT ![t] = k]
               /\ k.op = op /\ k.arg = arg /\ k.todo = steps /\ ~k.undo
  <2> DEFINE k == [Idle EXCEPT !.op = op, !.who = p, !.arg = arg,
                               !.todo = steps,
                               !.saved = IF op \in Leased \cup {"join"}
                                           THEN [s \in Saved |-> ram[s]]
                                           ELSE NoSaved]
  <2>1. job' = [job EXCEPT ![t] = k]
    BY DEF Begins, Begin
  <2>2. k.op = op /\ k.arg = arg /\ k.todo = steps /\ ~k.undo
    BY DEF Idle
  <2> HIDE DEF k
  <2> QED BY <2>1, <2>2
<1>3. JobSound(k)
  BY <1>2 DEF JobSound, Begins, Prepared
<1>4. \A u \in Task : job'[u] = IF u = t THEN k ELSE job[u]
  BY <1>1, <1>2
<1>5. \A u \in Task : JobSound(job'[u])
  BY <1>3, <1>4 DEF JobsInv
<1>6. /\ t = "web" => op \in Leased \cup {"roster", "reset"}
      /\ t = "loop" => op \in Pairing
      /\ op \in Leased \cup Pairing => ~Leasing
  BY DEF Begins, Prepared, Begin
<1>7. TasksApart'
  BY <1>1, <1>2, <1>4, <1>6 DEF JobsInv, TasksApart, Leasing
<1> QED BY <1>5, <1>7 DEF JobsInv

(* The loop starts to settle, or nothing starts.                           *)
LEMMA SettleJobs ==
  ASSUME JobsInv, TypeInv', Settle
  PROVE  JobsInv'
<1>1. job \in [Task -> Jobs] /\ {"web", "loop"} = Task
  BY DEF JobsInv, TypeInv, TypeOK, Task
<1>2. CASE job' = job
  BY <1>2 DEF JobsInv, TasksApart
<1>3. CASE job' # job
  <2> DEFINE steps == <<"config", "directory", "membership">>
             k == [Idle EXCEPT !.op = "settle", !.todo = steps]
  <2>1. job' = [job EXCEPT !["loop"] = k]
    BY <1>3 DEF Settle
  <2>2. k.op = "settle" /\ ~k.undo /\ k.todo = steps
    BY DEF Idle
  <2>3. Omits(steps, "registry") /\ Omits(steps, "readiness")
    BY DEF Omits
  <2> HIDE DEF k, steps
  <2>4. JobSound(k)
    BY <2>2, <2>3 DEF JobSound
  <2>5. \A u \in Task : job'[u] = IF u = "loop" THEN k ELSE job[u]
    BY <1>1, <2>1
  <2>6. \A u \in Task : JobSound(job'[u])
    BY <2>4, <2>5 DEF JobsInv
  <2>7. TasksApart'
    BY <1>1, <2>2, <2>5 DEF JobsInv, TasksApart, Pairing
  <2> QED BY <2>6, <2>7 DEF JobsInv
<1> QED BY <1>2, <1>3

LEMMA RestJobs ==
  ASSUME JobsInv, TypeInv',
         DeferMembership \/ PowerCut \/ job' = job
  PROVE  JobsInv'
<1>1. {"web", "loop"} = Task
  BY DEF Task
<1>2. CASE DeferMembership
  <2>1. Continues("web", Idle)
    BY <1>2 DEF DeferMembership, Continues
  <2> QED BY <1>1, <2>1, ContinuesJobs
<1>3. CASE PowerCut
  <2>1. \A t \in Task : job'[t] = Idle
    BY <1>3 DEF PowerCut
  <2>2. TasksApart'
    BY <1>1, <2>1, IdleType
       DEF TasksApart, Leased, Refreshing, Canonical
  <2> QED BY <2>1, <2>2, IdleSound DEF JobsInv
<1>4. CASE job' = job
  BY <1>4 DEF JobsInv, TasksApart
<1> QED BY <1>2, <1>3, <1>4

LEMMA JobsStep ==
  ASSUME JobsInv, [Next]_vars
  PROVE  JobsInv'
<1>1. TypeInv' /\ ram \in Disk
  BY NextType DEF JobsInv, TypeInv, TypeOK
<1>2. ASSUME Operates PROVE JobsInv'
  BY <1>1, <1>2, OperatesBegins, BeginsJobs
<1>3. ASSUME NEW t \in Task, Proceeds(t) PROVE JobsInv'
  BY <1>1, <1>3, ProceedsContinues, ContinuesJobs
<1>4. ASSUME \/ \E p \in Participant : Stage(p)
             \/ \E p \in Node : PullConfiguration(p)
             \/ OpenWindow \/ CloseWindow \/ UNCHANGED vars
      PROVE  job' = job
  BY <1>4 DEF Stage, PullConfiguration, OpenWindow, CloseWindow, vars
<1> QED BY <1>1, <1>2, <1>3, <1>4, SettleJobs, RestJobs DEF Next, Operates

(* The records and profiles that an operation of the engine found, and     *)
(* restores, go together with each other and with those of the moment.     *)
SavedFits(j) ==
  /\ \A p \in Participant :
       /\ ram.registry[p] \in Active => j.saved.readiness[p] # "none"
       /\ j.saved.registry[p] \in Active => /\ j.saved.readiness[p] # "none"
                                            /\ ram.readiness[p] # "none"
  /\ j.op = "activate" => /\ j.saved.readiness[j.who] # "none"
                          /\ j.undo \/ ram.readiness[j.who] # "none"
  /\ j.op \in {"forget", "erase"} =>
       /\ j.saved.registry[j.who] \notin Active
       /\ j.undo \/ ram.registry[j.who] \notin Active

(* Flash holds the records that memory holds and every profile memory      *)
(* holds; a reset at work is alone, and once it has cleared the records    *)
(* none is left.                                                           *)
ProfilesKept ==
  /\ flash.registry = ram.registry
  /\ \A p \in Participant :
       ram.readiness[p] # "none" => flash.readiness[p] # "none"
  /\ job["web"].op # "reset" =>
       \A p \in Participant :
         ram.registry[p] \in Active => ram.readiness[p] # "none"
  /\ job["web"].op = "reset" =>
       /\ ~Busy("loop")
       /\ Omits(job["web"].todo, "registry") => ram.registry = NoMembers
  /\ job["web"].op \in Leased => SavedFits(job["web"])

(* Unless a reset was interrupted or ran across another transaction.       *)
ProfileInv == JobsInv /\ ("reset" \in broken \/ ProfilesKept)

(* Two tasks; the web server's operations are no pairings.                 *)
LEMMA Tasks ==
  ASSUME JobsInv
  PROVE  /\ job \in [Task -> Jobs] /\ {"web", "loop"} = Task
         /\ flash \in Disk /\ ram \in Disk
         /\ "reset" \notin Leased /\ "none" \notin Leased
         /\ "join" \notin Leased
BY DEF JobsInv, TypeInv, TypeOK, Task, Leased, Refreshing, Canonical

(* A step that goes on with a transaction other than the reset, without a  *)
(* change to records or profiles.                                          *)
LEMMA Undisturbed ==
  ASSUME JobsInv, ProfilesKept, NEW t \in Task, NEW k, Continues(t, k),
         job[t].op # "reset",
         flash'.registry = flash.registry, ram'.registry = ram.registry,
         flash'.readiness = flash.readiness, ram'.readiness = ram.readiness
  PROVE  ProfilesKept'
<1>1. \A u \in Task : job'[u] = IF u = t THEN k ELSE job[u]
  BY Tasks DEF Continues
<1>2. CASE k = Idle
  <2>1. \A u \in Task : \/ job'[u] = job[u]
                        \/ job'[u] = Idle /\ job[u].op # "reset"
    BY <1>1, <1>2
  <2>2. job'["web"] = job["web"]
          \/ (job'["web"].op = "none" /\ job["web"].op # "reset")
    BY <2>1, IdleType, Tasks
  <2>3. ~Busy("loop") => ~Busy("loop")'
    BY <2>1, IdleType, Tasks DEF Busy
  <2> QED BY <2>2, <2>3, Tasks DEF ProfilesKept, SavedFits
<1>3. CASE k # Idle
  <2>1. /\ k.op = job[t].op /\ k.who = job[t].who
        /\ k.saved = job[t].saved
        /\ job[t].undo => k.undo
    BY <1>3 DEF Continues
  <2>2. CASE t = "web"
    <3>1. job'["web"] = k /\ job["web"] = job[t]
      BY <1>1, <2>2, Tasks
    <3>2. job["web"].op # "reset" /\ k.op # "reset"
      BY <2>1, <2>2
    <3>3. job["web"].op \in Leased => SavedFits(job["web"])'
      BY <2>1, <3>1 DEF ProfilesKept, SavedFits
    <3> QED BY <2>1, <3>1, <3>2, <3>3 DEF ProfilesKept
  <2>3. CASE t = "loop"
    <3>1. job'["web"] = job["web"] /\ (Busy("loop")' <=> Busy("loop"))
      BY <1>1, <2>1, <2>3, Tasks DEF Busy
    <3> QED BY <3>1 DEF ProfilesKept, SavedFits
  <2> QED BY <2>2, <2>3, Tasks
<1> QED BY <1>2, <1>3

(* A store is overwritten, and no other.                                   *)
LEMMA Overwritten ==
  ASSUME NEW d \in Disk, NEW s \in Store \ {"directory"}, NEW v
  PROVE  LET e == [d EXCEPT ![s] = v]
         IN  /\ e.registry = IF s = "registry" THEN v ELSE d.registry
             /\ e.readiness = IF s = "readiness" THEN v ELSE d.readiness
BY DEF Disk, Store, Relations

(* What a write does to records and profiles.                              *)
LEMMA WriteEffect ==
  ASSUME JobsInv, NEW t \in Task, Write(t)
  PROVE  LET j == job[t]
             s == Head(j.todo)
         IN  /\ s # "registry" => /\ flash'.registry = flash.registry
                                  /\ ram'.registry = ram.registry
             /\ s # "readiness" => /\ flash'.readiness = flash.readiness
                                   /\ ram'.readiness = ram.readiness
             /\ s = "registry" =>
                  /\ ram'.registry = Target(j, s)
                  /\ \/ flash'.registry = Target(j, s)
                     \/ /\ flash'.registry = flash.registry
                        /\ Target(j, s) = ram.registry
             /\ s = "readiness" =>
                  /\ ram'.readiness = Target(j, s)
                  /\ \/ flash'.readiness = Target(j, s)
                     \/ /\ flash'.readiness = flash.readiness
                        /\ Target(j, s) = ram.readiness
<1> DEFINE j == job[t]
           s == Head(j.todo)
           v == Target(j, s)
<1>1. /\ Busy(t) /\ s \in Store
      /\ flash \in Disk /\ ram \in Disk
  BY AtWork, Tasks DEF Write, JobsInv
<1>2. CASE s = "directory" \/ Skips(j, s)
  <2>1. flash' = flash /\ ram' = ram
    BY <1>2 DEF Write
  <2>2. s # "directory" => v = ram[s]
    BY <1>2 DEF Skips
  <2> QED BY <1>2, <2>1, <2>2
<1>3. CASE s # "directory" /\ ~Skips(j, s)
  <2>1. flash' = [flash EXCEPT ![s] = v] /\ ram' = [ram EXCEPT ![s] = v]
    BY <1>3 DEF Write
  <2> HIDE DEF v, s
  <2>2. /\ flash'.registry = IF s = "registry" THEN v ELSE flash.registry
        /\ flash'.readiness = IF s = "readiness" THEN v ELSE flash.readiness
        /\ ram'.registry = IF s = "registry" THEN v ELSE ram.registry
        /\ ram'.readiness = IF s = "readiness" THEN v ELSE ram.readiness
    BY <1>1, <1>3, <2>1, Overwritten
  <2> QED BY <2>2 DEF v, s
<1> QED BY <1>2, <1>3

(* A record written makes a participant ACTIVE only when it was, or when   *)
(* the operation is its activation.                                        *)
LEMMA RecordWritten ==
  ASSUME JobsInv, NEW t \in Task, Write(t), job[t].op # "reset",
         Head(job[t].todo) = "registry"
  PROVE  LET j == job[t]
             v == Target(j, "registry")
         IN  /\ \A p \in Participant :
                  v[p] \in Active => \/ ram.registry[p] \in Active
                                     \/ p = j.who /\ j.op = "activate"
             /\ j.op \in {"forget", "erase"} /\ v[j.who] \in Active =>
                  ram.registry[j.who] \in Active
<1> DEFINE j == job[t]
           v == Target(j, "registry")
<1>1. /\ Busy(t) /\ ~j.undo /\ ~Refused(j) /\ JobSound(j)
      /\ j \in Jobs /\ j.op # "none" /\ j.todo \in Seq(Store)
      /\ j.todo # << >>
      /\ ram.registry \in [Participant -> Standing]
  BY AtWork, Tasks DEF Write, JobsInv, Disk
<1>2. v = [ram.registry EXCEPT ![j.who] = RegistryTarget(j)]
  BY DEF Target, Relations
<1>3. j.op \notin Unregistered
  BY <1>1, OmitsTail DEF JobSound
<1>4. j.op \in {"promote", "demote"} => ram.registry[j.who] \in Active
  BY <1>1 DEF Refused
<1>5. RegistryTarget(j) \in Active => j.op \in {"activate", "promote", "demote"}
  BY <1>1, <1>3 DEF RegistryTarget, Unregistered, Jobs, Operation, Leased,
                    Refreshing, Canonical, Pairing, Active
<1> HIDE DEF v, j
<1> QED BY <1>1, <1>2, <1>4, <1>5 DEF v, j

LEMMA WriteKept ==
  ASSUME JobsInv, ProfilesKept, NEW t \in Task, Write(t)
  PROVE  ProfilesKept'
<1> DEFINE j == job[t]
           s == Head(j.todo)
<1>1. /\ Busy(t) /\ ~j.undo /\ j.op # "none" /\ JobSound(j)
      /\ j \in Jobs /\ j.todo \in Seq(Store) /\ j.todo # << >>
      /\ ram.registry \in [Participant -> Standing]
      /\ ram.readiness \in [Participant -> Profile]
  BY AtWork, Tasks DEF Write, JobsInv, Disk
<1>2. PICK k : /\ Continues(t, k)
               /\ ~k.undo /\ k.todo = Advanced(j, s)
  BY WriteContinues
<1>3. /\ s # "registry" => /\ flash'.registry = flash.registry
                           /\ ram'.registry = ram.registry
      /\ s # "readiness" => /\ flash'.readiness = flash.readiness
                            /\ ram'.readiness = ram.readiness
      /\ s = "registry" => /\ flash'.registry = Target(j, s)
                           /\ ram'.registry = Target(j, s)
      /\ s = "readiness" =>
           /\ ram'.readiness = Target(j, s)
           /\ \A p \in Participant :
                ram'.readiness[p] # "none" => flash'.readiness[p] # "none"
  BY WriteEffect DEF ProfilesKept
<1>4. \A u \in Task : job'[u] = IF u = t THEN k ELSE job[u]
  BY <1>2, Tasks DEF Continues
<1>5. CASE s \notin {"registry", "readiness"} /\ j.op # "reset"
  BY <1>2, <1>3, <1>5, Undisturbed
<1>6. CASE j.op = "reset"
  <2>1. t = "web" /\ ~Busy("loop")
    BY <1>1, <1>6, Tasks DEF JobsInv, TasksApart, Pairing, ProfilesKept
  <2>2. /\ s = "registry" => Target(j, s) = NoMembers
        /\ s = "readiness" => Target(j, s) = NoMembers
    BY <1>6 DEF Target, Relations
  <2>3. /\ flash'.registry = ram'.registry
        /\ \A p \in Participant :
             ram'.readiness[p] # "none" => flash'.readiness[p] # "none"
    BY <1>3, <2>2 DEF ProfilesKept
  <2>4. Omits(Tail(j.todo), "registry") => ram'.registry = NoMembers
    <3>1. s # "registry" /\ Omits(Tail(j.todo), "registry")
            => Omits(j.todo, "registry")
      BY <1>1, OmitsAll
    <3> QED BY <1>3, <1>6, <2>1, <2>2, <3>1 DEF ProfilesKept
  <2>5. Advanced(j, s) = Tail(j.todo)
    BY <1>6 DEF Advanced, Refreshing
  <2>6. job'["web"] = k /\ ~Busy("loop")'
    BY <1>4, <2>1, Tasks DEF Busy
  <2>7. CASE k = Idle
    <3>1. Omits(Tail(j.todo), "registry")
      <4>1. Tail(j.todo) = << >>
        BY <1>2, <2>5, <2>7, IdleType
      <4>2. Omits(<< >>, "registry")
        BY DEF Omits
      <4> QED BY <4>1, <4>2
    <3>2. \A p \in Participant : ram'.registry[p] \notin Active
      BY <2>4, <3>1 DEF NoMembers, Cleared, Active
    <3> QED BY <2>3, <2>6, <2>7, <3>2, IdleType, Tasks DEF ProfilesKept
  <2>8. CASE k # Idle
    <3>1. k.op = "reset"
      BY <1>2, <1>6, <2>8 DEF Continues
    <3> QED BY <1>2, <2>3, <2>4, <2>5, <2>6, <3>1, Tasks DEF ProfilesKept
  <2> QED BY <2>7, <2>8
<1>7. CASE s = "registry" /\ j.op # "reset"
  <2> DEFINE v == Target(j, "registry")
  <2>1. /\ flash'.registry = v /\ ram'.registry = v
        /\ flash'.readiness = flash.readiness
        /\ ram'.readiness = ram.readiness
    BY <1>3, <1>7
  <2>2. /\ \A p \in Participant :
             v[p] \in Active => \/ ram.registry[p] \in Active
                                \/ p = j.who /\ j.op = "activate"
        /\ j.op \in {"forget", "erase"} /\ v[j.who] \in Active =>
             ram.registry[j.who] \in Active
    BY <1>7, RecordWritten
  <2> HIDE DEF v
  <2>3. CASE t = "loop"
    <3>1. /\ j.op \in Pairing /\ j.op # "activate"
          /\ job["web"].op \notin Leased /\ job["web"].op # "reset"
      <4>1. j.op \in Pairing \cup {"settle"}
        BY <1>1, <2>3 DEF JobsInv, TasksApart
      <4>2. j.op # "settle"
        BY <1>1, <1>7, OmitsTail DEF JobSound, Unregistered
      <4>3. job["web"].op # "reset"
        BY <1>1, <2>3 DEF ProfilesKept
      <4> QED BY <2>3, <4>1, <4>2, <4>3 DEF JobsInv, TasksApart, Pairing
    <3>2. job'["web"] = job["web"]
      BY <1>4, <2>3, Tasks
    <3> QED BY <2>1, <2>2, <3>1, <3>2 DEF ProfilesKept
  <2>4. CASE t = "web"
    <3>1. j.op \in Leased
      <4>1. j.op # "roster"
        BY <1>1, <1>7, OmitsTail DEF JobSound, Unregistered
      <4> QED BY <1>1, <1>7, <2>4, <4>1 DEF JobsInv, TasksApart
    <3>2. SavedFits(j) /\ ProfilesKept
      BY <2>4, <3>1 DEF ProfilesKept
    <3>3. \A p \in Participant : v[p] \in Active =>
            /\ ram.readiness[p] # "none"
            /\ j.saved.readiness[p] # "none"
      BY <1>1, <1>7, <2>2, <2>4, <3>2 DEF ProfilesKept, SavedFits
    <3>4. job'["web"] = k
      BY <1>4, <2>4, Tasks
    <3>5. CASE k = Idle
      BY <2>1, <3>2, <3>3, <3>4, <3>5, IdleType, Tasks DEF ProfilesKept
    <3>6. CASE k # Idle
      <4>1. /\ k.op = j.op /\ k.who = j.who /\ k.saved = j.saved
            /\ ~k.undo
        BY <1>2, <3>6 DEF Continues
      <4>2. SavedFits(job["web"])'
        BY <1>1, <2>1, <2>2, <3>2, <3>3, <3>4, <4>1 DEF SavedFits
      <4> QED BY <1>7, <2>1, <3>2, <3>3, <3>4, <4>1, <4>2 DEF ProfilesKept
    <3> QED BY <3>5, <3>6
  <2> QED BY <2>3, <2>4, Tasks
<1>8. CASE s = "readiness" /\ j.op # "reset"
  <2> DEFINE v == Target(j, "readiness")
  <2>1. /\ ram'.readiness = v
        /\ \A p \in Participant : v[p] # "none" => flash'.readiness[p] # "none"
        /\ flash'.registry = flash.registry
        /\ ram'.registry = ram.registry
    BY <1>3, <1>8
  <2>2. v = [ram.readiness EXCEPT ![j.who] = j.arg]
    BY <1>8 DEF Target, Relations
  <2>3. j.op \in {"configure", "reconfigure", "forget", "erase"}
    BY <1>1, <1>8, OmitsTail DEF JobSound, Profiled
  <2>4. t = "web" /\ j.op \in Leased
    BY <1>1, <2>3, Tasks
       DEF JobsInv, TasksApart, Pairing, Leased, Refreshing, Canonical
  <2>5. SavedFits(j) /\ job["web"].op # "reset"
    BY <1>8, <2>4 DEF ProfilesKept
  <2>6. \A p \in Participant :
          v[p] # "none" \/ ram.readiness[p] = "none"
            \/ (j.op \in {"forget", "erase"} /\ p = j.who)
    BY <1>1, <2>2, <2>3 DEF JobSound
  <2> HIDE DEF v
  <2>7. job'["web"] = k
    BY <1>4, <2>4, Tasks
  <2>8. \A p \in Participant :
          ram.registry[p] \in Active => v[p] # "none"
    BY <1>1, <2>4, <2>5, <2>6 DEF ProfilesKept, SavedFits
  <2>9. CASE k = Idle
    BY <2>1, <2>5, <2>7, <2>8, <2>9, IdleType, Tasks DEF ProfilesKept
  <2>10. CASE k # Idle
    <3>1. k.op = j.op /\ k.who = j.who /\ k.saved = j.saved /\ ~k.undo
      BY <1>2, <2>10 DEF Continues
    <3>2. SavedFits(job["web"])'
      BY <1>1, <2>1, <2>3, <2>5, <2>6, <2>7, <3>1 DEF SavedFits
    <3> QED BY <1>8, <2>1, <2>5, <2>7, <2>8, <3>1, <3>2 DEF ProfilesKept
  <2> QED BY <2>9, <2>10
<1> QED BY <1>5, <1>6, <1>7, <1>8

(* A reset that cannot go on counts as interrupted.                        *)
LEMMA AbandonedReset ==
  ASSUME NEW t \in Task, NEW lost, Abandon(t, lost), "reset" \notin broken'
  PROVE  job[t].op # "reset"
<1>1. CASE job[t].op = "reset"
  <2>1. "reset" \notin Leased
    BY DEF Leased, Refreshing, Canonical
  <2>2. broken' = broken \cup lost \cup {"reset"}
    BY <1>1, <2>1 DEF Abandon
  <2> QED BY <2>2
<1> QED BY <1>1

LEMMA FailKept ==
  ASSUME JobsInv, ProfilesKept, NEW t \in Task, Refuse(t) \/ Fail(t),
         "reset" \notin broken'
  PROVE  ProfilesKept'
<1> DEFINE j == job[t]
           s == Head(j.todo)
<1>0. PICK lost : Abandon(t, lost)
  BY DEF Refuse, Fail
<1>1. /\ Busy(t) /\ ~j.undo /\ flash' = flash
      /\ JobSound(j) /\ j \in Jobs
      /\ ram \in Disk
  BY <1>0, AtWork, Tasks DEF Refuse, Fail, Abandon, JobsInv
<1>2. j.op # "reset"
  BY <1>0, AbandonedReset
<1>3. PICK k : Continues(t, k)
  BY <1>0, <1>1, AbandonContinues
<1>4. CASE ram' = ram
  BY <1>1, <1>2, <1>3, <1>4, Undisturbed
<1>5. CASE ram' # ram
  <2>1. PICK after \in AfterFailure(j, s) : ram' = after
    BY <1>5 DEF Fail, Refuse
  <2>2. /\ j.op = "erase" /\ s = "readiness"
        /\ ram' = [ram EXCEPT !["readiness"] = Target(j, "readiness")]
    BY <1>2, <1>5, <2>1 DEF AfterFailure
  <2>3. j.arg = "none"
    BY <1>1, <2>2 DEF JobSound
  <2>4. Target(j, "readiness") = [ram.readiness EXCEPT ![j.who] = "none"]
    BY <2>2, <2>3 DEF Target, Relations
  <2> DEFINE v == [ram.readiness EXCEPT ![j.who] = "none"]
  <2>5. ram'.registry = ram.registry /\ ram'.readiness = v
    BY <1>1, <2>2, <2>4 DEF Disk
  <2>6. t = "web" /\ j.op \in Leased
    BY <1>1, <2>2, Tasks
       DEF JobsInv, TasksApart, Pairing, Leased, Refreshing, Canonical
  <2>7. SavedFits(j) /\ job["web"].op # "reset"
    BY <2>2, <2>6 DEF ProfilesKept
  <2>8. \A p \in Participant :
          IF p = j.who THEN v[p] = "none" ELSE v[p] = ram.readiness[p]
    BY <1>1 DEF Disk
  <2> HIDE DEF v
  <2>9. job'["web"] = k
    BY <1>3, <2>6, Tasks DEF Continues
  <2>10. \A p \in Participant : ram.registry[p] \in Active => v[p] # "none"
    BY <1>1, <2>2, <2>7, <2>8 DEF ProfilesKept, SavedFits
  <2>11. CASE k = Idle
    BY <1>1, <2>5, <2>7, <2>8, <2>9, <2>10, <2>11, IdleType, Tasks
       DEF ProfilesKept
  <2>12. CASE k # Idle
    <3>1. k.op = j.op /\ k.who = j.who /\ k.saved = j.saved
      BY <1>3, <2>12 DEF Continues
    <3>2. SavedFits(job["web"])'
      BY <1>1, <2>2, <2>5, <2>7, <2>8, <2>9, <3>1 DEF SavedFits
    <3> QED BY <1>1, <1>2, <2>5, <2>7, <2>8, <2>9, <2>10, <3>1, <3>2
            DEF ProfilesKept
  <2> QED BY <2>11, <2>12
<1> QED BY <1>4, <1>5

LEMMA RestoreKept ==
  ASSUME JobsInv, ProfilesKept, NEW t \in Task, Restore(t) \/ RestoreFails(t)
  PROVE  ProfilesKept'
<1> DEFINE j == job[t]
           s == Head(j.todo)
<1>1. /\ Busy(t) /\ j.undo /\ JobSound(j) /\ j \in Jobs /\ s \in Saved
      /\ j.todo \in Seq(Store) /\ j.todo # << >>
      /\ flash \in Disk /\ ram \in Disk
  BY AtWork, Tasks DEF Restore, RestoreFails, JobsInv
<1>2. j.op # "reset"
  BY <1>1, Tasks DEF JobSound
<1>3. PICK k : Continues(t, k)
  BY RestoreContinues
<1>4. CASE RestoreFails(t)
  BY <1>2, <1>3, <1>4, Undisturbed DEF RestoreFails
<1>5. CASE Restore(t)
  <2> DEFINE v == j.saved[s]
  <2>1. flash' = [flash EXCEPT ![s] = v] /\ ram' = [ram EXCEPT ![s] = v]
    BY <1>5 DEF Restore
  <2>2. s \in Store \ {"directory"}
    BY <1>1 DEF Saved, Store, Relations
  <2> HIDE DEF v, s
  <2>3. /\ flash'.registry = IF s = "registry" THEN v ELSE flash.registry
        /\ flash'.readiness = IF s = "readiness" THEN v ELSE flash.readiness
        /\ ram'.registry = IF s = "registry" THEN v ELSE ram.registry
        /\ ram'.readiness = IF s = "readiness" THEN v ELSE ram.readiness
    BY <1>1, <2>1, <2>2, Overwritten
  <2>4. CASE s \notin {"registry", "readiness"}
    BY <1>2, <1>3, <2>3, <2>4, Undisturbed
  <2>5. CASE s \in {"registry", "readiness"}
    <3>1. j.op \in Leased
      BY <1>1, <2>5, OmitsTail DEF JobSound, s
    <3>2. t = "web"
      BY <1>1, <3>1, Tasks
         DEF JobsInv, TasksApart, Pairing, Leased, Refreshing, Canonical
    <3>3. SavedFits(j) /\ job["web"].op # "reset"
      BY <1>2, <3>1, <3>2 DEF ProfilesKept
    <3>4. job'["web"] = k
      BY <1>3, <3>2, Tasks DEF Continues
    <3>5. \A p \in Participant :
            /\ ram'.registry[p] \in Active => ram'.readiness[p] # "none"
            /\ ram'.readiness[p] # "none" => flash'.readiness[p] # "none"
            /\ ram'.registry[p] \in Active => j.saved.readiness[p] # "none"
            /\ j.saved.registry[p] \in Active => ram'.readiness[p] # "none"
      BY <2>3, <2>5, <3>2, <3>3 DEF ProfilesKept, SavedFits, v
    <3>6. flash'.registry = ram'.registry
      BY <2>3 DEF ProfilesKept
    <3>7. CASE k = Idle
      BY <3>4, <3>5, <3>6, <3>7, IdleType, Tasks DEF ProfilesKept
    <3>8. CASE k # Idle
      <4>1. k.op = j.op /\ k.who = j.who /\ k.saved = j.saved /\ k.undo
        BY <1>1, <1>3, <3>8 DEF Continues
      <4>2. SavedFits(job["web"])'
        BY <3>3, <3>4, <3>5, <4>1 DEF SavedFits
      <4> QED BY <1>2, <3>4, <3>5, <3>6, <4>1, <4>2 DEF ProfilesKept
    <3> QED BY <3>7, <3>8
  <2> QED BY <2>4, <2>5
<1> QED BY <1>4, <1>5

LEMMA BeginsKept ==
  ASSUME JobsInv, ProfilesKept, NEW t \in Task, NEW op, NEW p, NEW arg,
         NEW steps, Begins(t, op, p, arg, steps), "reset" \notin broken'
  PROVE  ProfilesKept'
<1>1. /\ Prepared(t, op, p, arg, steps) /\ ~Busy(t)
      /\ flash' = flash /\ ram' = ram
      /\ broken' = broken \cup Across(op)
  BY DEF Begins, Begin
<1>2. \A u \in Task : Busy(u) => op # "reset" /\ job[u].op # "reset"
  BY <1>1 DEF Across
<1>3. PICK k : /\ job' = [job EXCEPT ![t] = k]
               /\ k.op = op /\ k.who = p /\ k.todo = steps /\ ~k.undo
               /\ op \in Leased => k.saved = [s \in Saved |-> ram[s]]
  <2> DEFINE saved == IF op \in Leased \cup {"join"}
                        THEN [s \in Saved |-> ram[s]] ELSE NoSaved
             k == [Idle EXCEPT !.op = op, !.who = p, !.arg = arg,
                               !.todo = steps, !.saved = saved]
  <2>1. job' = [job EXCEPT ![t] = k]
    BY DEF Begins, Begin
  <2>2. /\ k.op = op /\ k.who = p /\ k.todo = steps /\ ~k.undo
        /\ k.saved = saved
    BY DEF Idle
  <2>3. op \in Leased => saved = [s \in Saved |-> ram[s]]
    OBVIOUS
  <2> HIDE DEF k, saved
  <2> QED BY <2>1, <2>2, <2>3
<1>4. \A u \in Task : job'[u] = IF u = t THEN k ELSE job[u]
  BY <1>3, Tasks
<1>5. "reset" # "none"
  OBVIOUS
<1>6. CASE t = "loop"
  <2>1. job'["web"] = job["web"]
    BY <1>4, <1>6, Tasks
  <2>2. job["web"].op # "reset"
    BY <1>2, <1>5, Tasks DEF Busy
  <2> QED BY <1>1, <2>1, <2>2 DEF ProfilesKept, SavedFits
<1>7. CASE t = "web"
  <2>1. job'["web"] = k /\ job["web"].op = "none"
    BY <1>1, <1>4, <1>7, Tasks DEF Busy
  <2>2. \A q \in Participant :
          ram.registry[q] \in Active => ram.readiness[q] # "none"
    BY <2>1 DEF ProfilesKept
  <2>3. CASE op = "reset"
    <3>1. ~Busy("loop")'
      BY <1>2, <1>4, <1>7, <2>3, Tasks DEF Busy
    <3>2. ~Omits(steps, "registry")
      BY <1>1, <2>3 DEF Prepared
    <3> QED BY <1>1, <1>3, <2>1, <2>2, <2>3, <3>1, <3>2, Tasks
            DEF ProfilesKept
  <2>4. CASE op # "reset"
    <3>1. op \in Leased => SavedFits(job["web"])'
      <4> SUFFICES ASSUME op \in Leased PROVE SavedFits(job["web"])'
        OBVIOUS
      <4>1. /\ k.saved.registry = ram.registry
            /\ k.saved.readiness = ram.readiness
        BY <1>3 DEF Saved, Relations
      <4>2. /\ op = "activate" => ram.readiness[p] # "none"
            /\ op \in {"forget", "erase"} => ram.registry[p] \notin Active
        BY <1>1 DEF Prepared
      <4> QED BY <1>1, <1>3, <2>1, <2>2, <4>1, <4>2 DEF SavedFits
    <3> QED BY <1>1, <1>3, <2>1, <2>2, <2>4, <3>1 DEF ProfilesKept
  <2> QED BY <2>3, <2>4
<1> QED BY <1>6, <1>7, Tasks

LEMMA SettleKept ==
  ASSUME JobsInv, ProfilesKept, Settle, "reset" \notin broken'
  PROVE  ProfilesKept'
<1>1. flash' = flash /\ ram' = ram
  BY DEF Settle
<1>2. CASE job' = job
  BY <1>1, <1>2 DEF ProfilesKept, SavedFits, Busy
<1>3. CASE job' # job
  <2>1. /\ broken' = broken \cup Across("settle")
        /\ job'["web"] = job["web"]
    BY <1>3, Tasks DEF Settle
  <2>2. job["web"].op # "reset"
    BY <2>1, Tasks DEF Across, Busy
  <2> QED BY <1>1, <2>1, <2>2 DEF ProfilesKept, SavedFits
<1> QED BY <1>2, <1>3

LEMMA PowerCutKept ==
  ASSUME JobsInv, ProfilesKept, PowerCut, "reset" \notin broken'
  PROVE  ProfilesKept'
<1>1. /\ Repaired(flash).registry = flash.registry
      /\ Repaired(flash).readiness = flash.readiness
  BY Tasks DEF Repaired, Disk
<1>2. job["web"].op # "reset"
  <2>1. \A t \in Task : Busy(t) => job[t].op \in broken'
    BY DEF PowerCut
  <2> QED BY <2>1, Tasks DEF Busy
<1>3. job'["web"] = Idle
  BY Tasks DEF PowerCut
<1>4. /\ ram'.registry = flash.registry /\ ram'.readiness = flash.readiness
      /\ flash'.registry = flash.registry
      /\ flash'.readiness = flash.readiness
  BY <1>1 DEF PowerCut
<1> QED BY <1>2, <1>3, <1>4, IdleType, Tasks DEF ProfilesKept

LEMMA RestKept ==
  ASSUME JobsInv, ProfilesKept,
         \/ OpenWindow \/ CloseWindow \/ UNCHANGED vars \/ DeferMembership
         \/ \E p \in Participant : Stage(p)
         \/ \E p \in Node : PullConfiguration(p)
  PROVE  ProfilesKept'
<1>1. CASE \/ OpenWindow \/ CloseWindow \/ UNCHANGED vars
           \/ \E p \in Participant : Stage(p)
  <2>1. job' = job /\ ram' = ram /\ flash' = flash
    BY <1>1 DEF OpenWindow, CloseWindow, Stage, vars
  <2> QED BY <2>1 DEF ProfilesKept, SavedFits, Busy
<1>2. CASE DeferMembership
  <2>1. Continues("web", Idle) /\ ram' = ram /\ flash' = flash
    BY <1>2 DEF DeferMembership, Continues
  <2>2. job["web"].op # "reset"
    BY <1>2 DEF DeferMembership, Refreshing
  <2> QED BY <2>1, <2>2, Tasks, Undisturbed
<1>3. ASSUME NEW p \in Node, PullConfiguration(p) PROVE ProfilesKept'
  <2>1. PICK config : /\ flash' = Repaired([flash EXCEPT !.config = config])
                      /\ ram' = Repaired([ram EXCEPT !.config = config])
    BY <1>3 DEF PullConfiguration
  <2>2. \A d \in Disk :
          LET e == [d EXCEPT !.config = config]
          IN  /\ Repaired(e).registry = d.registry
              /\ Repaired(e).readiness = d.readiness
    BY DEF Repaired, Disk
  <2>3. /\ ram'.registry = ram.registry /\ ram'.readiness = ram.readiness
        /\ flash'.registry = flash.registry
        /\ flash'.readiness = flash.readiness
    BY <2>1, <2>2, Tasks
  <2>4. job' = job
    BY <1>3 DEF PullConfiguration
  <2> QED BY <2>3, <2>4 DEF ProfilesKept, SavedFits, Busy
<1> QED BY <1>1, <1>2, <1>3

LEMMA BrokenGrows ==
  ASSUME [Next]_vars
  PROVE  broken \subseteq broken'
<1>1. ASSUME NEW t \in Task, Proceeds(t) PROVE broken \subseteq broken'
  BY <1>1 DEF Proceeds, Write, Refuse, Fail, Abandon, Restore, RestoreFails,
              Ended
<1>2. ASSUME Operates PROVE broken \subseteq broken'
  <2>1. \A t, op, p, arg, steps :
          Begin(t, op, p, arg, steps) => broken \subseteq broken'
    BY DEF Begin
  <2> QED BY <1>2, <2>1
          DEF Operates, Requested, Approve, Configure, Reconfigure, Activate,
              Quarantine, Revoke, Forget, SetCommunityLeader, ManageMember,
              CommitPairing, CommitRoster, Reset
<1>3. ASSUME \/ OpenWindow \/ CloseWindow \/ UNCHANGED vars
             \/ DeferMembership \/ Settle \/ PowerCut
             \/ \E p \in Participant : Stage(p)
             \/ \E p \in Node : PullConfiguration(p)
      PROVE  broken \subseteq broken'
  BY <1>3 DEF OpenWindow, CloseWindow, vars, DeferMembership, Settle, PowerCut,
              Stage, PullConfiguration
<1> QED BY <1>1, <1>2, <1>3 DEF Next, Operates

LEMMA ProfileInit == Init => ProfileInv
<1> SUFFICES ASSUME Init PROVE ProfileInv
  OBVIOUS
<1>1. PICK start \in Setup : flash = start.disk /\ ram = start.disk
  BY DEF Init
<1>2. \A t \in Task : job[t] = Idle
  BY DEF Init
<1>3. {"web", "loop"} = Task
  BY DEF Task
<1>4. JobsInv
  <2>1. TasksApart
    BY <1>2, <1>3, IdleType DEF TasksApart, Leased, Refreshing, Canonical
  <2> QED BY <1>2, <2>1, IdleSound, InitType DEF JobsInv
<1>5. ProfilesKept
  BY <1>1, <1>2, <1>3, <1>4, IdleType, Tasks, SetupAssumption
     DEF ProfilesKept
<1> QED BY <1>4, <1>5 DEF ProfileInv

LEMMA ProfileStep ==
  ASSUME ProfileInv, [Next]_vars
  PROVE  ProfileInv'
<1>1. JobsInv'
  BY JobsStep DEF ProfileInv
<1> SUFFICES ASSUME "reset" \notin broken' PROVE ProfilesKept'
  BY <1>1 DEF ProfileInv
<1>2. JobsInv /\ ProfilesKept
  BY BrokenGrows DEF ProfileInv
<1>3. ASSUME Operates PROVE ProfilesKept'
  BY <1>2, <1>3, OperatesBegins, BeginsKept, Tasks
<1>4. ASSUME NEW t \in Task, Proceeds(t) PROVE ProfilesKept'
  BY <1>2, <1>4, WriteKept, FailKept, RestoreKept DEF Proceeds
<1> QED BY <1>2, <1>3, <1>4, SettleKept, PowerCutKept, RestKept
        DEF Next, Operates

(* ActiveHasProfile holds for any numbers of participants and Sites:       *)
(* between any two writes, and after any failure or power cut, a           *)
(* participant that is ACTIVE on flash or in memory has a profile there.   *)
THEOREM ActiveAlwaysHasProfile == Spec => []ActiveHasProfile
<1>1. ProfileInv /\ [Next]_vars => ProfileInv'
  BY ProfileStep
<1>2. ProfileInv => ActiveHasProfile
  BY DEF ProfileInv, ProfilesKept, ActiveHasProfile
<1> QED BY <1>1, <1>2, ProfileInit, PTL DEF Spec

-----------------------------------------------------------------------------
(* Moving to another Site                                                  *)

(* Nobody would be left behind by a move that the peer p asks for.         *)
LeavesNobody(p) ==
  /\ Related(ram) \subseteq {p} /\ ram.registry[p] \notin Active
  /\ \A q \in Participant : ram.config.member[q] \notin Active

(* A joiner still may move, unless it has; a rollback takes it back.       *)
MoveSound ==
  LET j == job["loop"] IN
  /\ flash.membership.site = ram.membership.site
  /\ j.op = "join" =>
       /\ j.who \in Participant
       /\ j.saved.membership.site = j.arg => ram.membership.site = j.arg
       /\ j.undo \/ ram.membership.site = j.arg \/ LeavesNobody(j.who)

MoveInv == ProfileInv /\ ("reset" \in broken \/ MoveSound)

(* The step that NobodyOrphaned is about.                                  *)
MovesAway ==
  /\ job["loop"].op = "join"
  /\ ram'.membership.site # ram.membership.site
  /\ ram'.membership.site = job["loop"].arg

(* What a write does to the Site this device is a member of.               *)
LEMMA WriteMoves ==
  ASSUME JobsInv, NEW t \in Task, Write(t),
         flash.membership.site = ram.membership.site
  PROVE  /\ flash'.membership.site = ram'.membership.site
         /\ job[t].op \notin {"join", "reset"} =>
              ram'.membership.site = ram.membership.site
         /\ job[t].op = "join" =>
              ram'.membership.site \in {ram.membership.site, job[t].arg}
<1> DEFINE j == job[t]
           s == Head(j.todo)
           v == Target(j, s)
<1>1. /\ Busy(t) /\ s \in Store
      /\ flash \in Disk /\ ram \in Disk
  BY AtWork, Tasks DEF Write, JobsInv
<1>2. CASE s = "directory" \/ Skips(j, s)
  BY <1>2 DEF Write
<1>3. CASE s # "directory" /\ ~Skips(j, s)
  <2>1. flash' = [flash EXCEPT ![s] = v] /\ ram' = [ram EXCEPT ![s] = v]
    BY <1>3 DEF Write
  <2>2. CASE s = "membership"
    <3>1. v = MembershipTarget(j)
      BY <2>2 DEF Target, Relations
    <3>2. flash'.membership = v /\ ram'.membership = v
      BY <1>1, <2>1, <2>2 DEF Disk
    <3>3. /\ j.op \notin {"join", "reset"} => v.site = ram.membership.site
          /\ j.op = "join" => v.site = j.arg
      BY <3>1 DEF MembershipTarget
    <3> QED BY <3>2, <3>3
  <2>3. CASE s # "membership"
    <3>1. flash'.membership = flash.membership /\ ram'.membership = ram.membership
      <4> HIDE DEF v, s
      <4> QED BY <1>1, <1>3, <2>1, <2>3 DEF Disk, Store, Relations
    <3> QED BY <3>1
  <2> QED BY <2>2, <2>3
<1> QED BY <1>2, <1>3

(* While a joiner may move, so may it after any write of another task, or  *)
(* of its own.                                                             *)
LEMMA WriteLeaves ==
  ASSUME JobsInv, ProfilesKept, NEW t \in Task, Write(t),
         NEW who \in Participant, LeavesNobody(who),
         job["loop"].op = "join", job["loop"].who = who
  PROVE  LeavesNobody(who)'
<1> DEFINE j == job[t]
           s == Head(j.todo)
           v == Target(j, s)
<1>1. /\ Busy(t) /\ ~j.undo /\ s \in Store /\ j.op # "none" /\ JobSound(j)
      /\ j.todo \in Seq(Store) /\ j.todo # << >>
      /\ ram \in Disk /\ ram.registry \in [Participant -> Standing]
      /\ ram.config.member \in [Participant -> Standing]
  BY AtWork, Tasks DEF Write, JobsInv, Disk, Configuration
<1>2. \/ t = "loop" /\ j.op = "join"
      \/ t = "web" /\ j.op = "roster"
  BY <1>1, Tasks DEF JobsInv, TasksApart, Pairing, ProfilesKept, Busy
<1>3. CASE s \notin {"registry", "config"}
            \/ (s \in {"registry", "config"} /\ Skips(j, s))
  <2>1. ram'.registry = ram.registry /\ ram'.config = ram.config
    <3>1. \/ ram' = ram
          \/ /\ ram' = [ram EXCEPT ![s] = v]
             /\ s \notin {"registry", "config", "directory"}
      BY <1>3 DEF Write
    <3> HIDE DEF v, s
    <3> QED BY <1>1, <3>1 DEF Disk, Store, Relations
  <2> QED BY <2>1 DEF LeavesNobody, Related
<1>4. CASE s = "registry" /\ ~Skips(j, s)
  <2>1. t = "loop" /\ j.op = "join"
    BY <1>1, <1>2, <1>4, OmitsTail DEF JobSound, Unregistered
  <2>2. v = [ram.registry EXCEPT ![who] = "quarantined"]
    BY <1>4, <2>1 DEF Target, Relations, RegistryTarget, Pairing
  <2>3. ram' = [ram EXCEPT !["registry"] = v]
    BY <1>4 DEF Write
  <2>4. ram'.registry = v /\ ram'.config = ram.config
    <3> HIDE DEF v
    <3> QED BY <1>1, <2>3 DEF Disk
  <2> QED BY <1>1, <2>2, <2>4 DEF LeavesNobody, Related, Active, Gone
<1>5. CASE s = "config" /\ ~Skips(j, s)
  <2>1. ram' = [ram EXCEPT !["config"] = ConfigTarget(j)]
    BY <1>5 DEF Write, Target, Relations
  <2>2. ram'.registry = ram.registry /\ ram'.config = ConfigTarget(j)
    BY <1>1, <2>1 DEF Disk
  <2>3. \A q \in Participant : ConfigTarget(j).member[q] \notin Active
    <3>1. CASE j.op = "join"
      <4>1. ConfigTarget(j) = Joining(ram.membership.site)
        BY <3>1 DEF ConfigTarget, Staged
      <4> QED BY <4>1 DEF Joining, NoMembers, Cleared, Active
    <3>2. CASE j.op = "roster"
      <4>1. ConfigTarget(j) = OwnedRoster(ram)
        BY <3>2 DEF ConfigTarget, Staged
      <4> QED BY <4>1 DEF OwnedRoster, LeavesNobody, Related, Active, Gone
    <3> QED BY <1>2, <3>1, <3>2
  <2> QED BY <2>2, <2>3 DEF LeavesNobody, Related
<1> QED BY <1>3, <1>4, <1>5

(* A step that does not move the device, and leaves the loop's job.        *)
LEMMA StaysPut ==
  ASSUME MoveSound, ram'.membership.site = ram.membership.site,
         flash'.membership.site = ram'.membership.site,
         job'["loop"] = job["loop"] \/ job'["loop"].op # "join",
         ram'.registry = ram.registry, ram'.config = ram.config
  PROVE  MoveSound'
BY DEF MoveSound, LeavesNobody, Related

LEMMA WriteMoveSound ==
  ASSUME JobsInv, ProfilesKept, MoveSound, NEW t \in Task, Write(t)
  PROVE  /\ MoveSound'
         /\ MovesAway => LeavesNobody(job["loop"].who)
<1> DEFINE j == job[t]
           L == job["loop"]
<1>1. Busy(t) /\ ~j.undo
  BY DEF Write
<1>2. PICK k : Continues(t, k) /\ ~k.undo
  BY WriteContinues
<1>3. \A u \in Task : job'[u] = IF u = t THEN k ELSE job[u]
  BY <1>2, Tasks DEF Continues
<1>4. /\ flash'.membership.site = ram'.membership.site
      /\ j.op \notin {"join", "reset"} =>
           ram'.membership.site = ram.membership.site
      /\ j.op = "join" => ram'.membership.site \in {ram.membership.site, j.arg}
  BY WriteMoves DEF MoveSound
<1>5. CASE L.op # "join"
  <2>1. job'["loop"].op # "join"
    BY <1>2, <1>3, <1>5, IdleType, Tasks DEF Continues
  <2> QED BY <1>4, <1>5, <2>1 DEF MoveSound, MovesAway
<1>6. CASE L.op = "join" /\ t = "web"
  <2>1. j.op \notin {"join", "reset"}
    BY <1>1, <1>6, Tasks
       DEF JobsInv, TasksApart, Pairing, ProfilesKept, Busy, Leased,
           Refreshing, Canonical
  <2>2. job'["loop"] = L
    BY <1>3, <1>6, Tasks
  <2>3. LeavesNobody(L.who) => LeavesNobody(L.who)'
    <3> SUFFICES ASSUME LeavesNobody(L.who) PROVE LeavesNobody(L.who)'
      OBVIOUS
    <3>1. \A who \in Participant :
            L.who = who /\ LeavesNobody(who) => LeavesNobody(who)'
      BY <1>6, WriteLeaves
    <3> QED BY <1>6, <2>2, <3>1 DEF MoveSound
  <2> QED BY <1>4, <1>6, <2>1, <2>2, <2>3 DEF MoveSound, MovesAway
<1>7. CASE L.op = "join" /\ t = "loop"
  <2>1. j = L /\ job'["loop"] = k
    BY <1>3, <1>7, Tasks
  <2>2. PICK who \in Participant : who = L.who
    BY <1>7 DEF MoveSound
  <2>3. /\ L.saved.membership.site = L.arg => ram.membership.site = L.arg
        /\ ram.membership.site = L.arg \/ LeavesNobody(who)
    BY <1>1, <1>7, <2>1, <2>2 DEF MoveSound
  <2>4. \/ k.op = "none"
        \/ k.op = "join" /\ k.who = who /\ k.arg = L.arg /\ k.saved = L.saved
    BY <1>2, <1>7, <2>1, <2>2, IdleType DEF Continues
  <2>5. LeavesNobody(who) => LeavesNobody(who)'
    BY <1>7, <2>2, WriteLeaves
  <2> QED BY <1>2, <1>4, <1>7, <2>1, <2>2, <2>3, <2>4, <2>5
          DEF MoveSound, MovesAway
<1> QED BY <1>5, <1>6, <1>7, Tasks

(* The loop's job when it is not the one that goes on.                     *)
LEMMA LoopJob ==
  ASSUME JobsInv, NEW t \in Task, NEW k, Continues(t, k)
  PROVE  /\ t = "web" => job'["loop"] = job["loop"]
         /\ t = "loop" => job'["loop"] = k
         /\ k.op \in {job[t].op, "none"}
         /\ k.op = "join" => /\ k.who = job[t].who /\ k.arg = job[t].arg
                             /\ k.saved = job[t].saved
                             /\ job[t].undo => k.undo
BY IdleType, Tasks DEF Continues

LEMMA FailMoveSound ==
  ASSUME JobsInv, ProfilesKept, MoveSound, NEW t \in Task,
         Refuse(t) \/ Fail(t)
  PROVE  /\ "reset" \notin broken' => MoveSound'
         /\ ~MovesAway
<1> DEFINE j == job[t]
           s == Head(j.todo)
<1>1. /\ Busy(t) /\ ~j.undo /\ flash' = flash /\ ram \in Disk
  BY Tasks DEF Refuse, Fail, Abandon
<1>2. \/ ram' = ram
      \/ j.op = "reset" /\ s \in Relations
         /\ \E v : ram' = [ram EXCEPT ![s] = v]
      \/ j.op = "erase" /\ \E w : ram' = [ram EXCEPT !["readiness"] = w]
  BY DEF Refuse, Fail, AfterFailure
<1>3. ram'.membership = ram.membership
  <2> HIDE DEF s
  <2> QED BY <1>1, <1>2 DEF Relations, Disk
<1>4. ASSUME "reset" \notin broken' PROVE MoveSound'
  <2>1. PICK lost : Abandon(t, lost)
    BY DEF Refuse, Fail
  <2>2. j.op # "reset"
    BY <1>4, <2>1, AbandonedReset
  <2>3. PICK k : Continues(t, k)
    BY <1>1, <2>1, AbandonContinues
  <2>4. ram'.registry = ram.registry /\ ram'.config = ram.config
    BY <1>1, <1>2, <2>2 DEF Disk
  <2> QED BY <1>1, <1>3, <2>3, <2>4, LoopJob, Tasks
          DEF MoveSound, LeavesNobody, Related
<1> QED BY <1>3, <1>4 DEF MovesAway

LEMMA RestoreMoveSound ==
  ASSUME JobsInv, MoveSound, NEW t \in Task, Restore(t) \/ RestoreFails(t)
  PROVE  MoveSound' /\ ~MovesAway
<1> DEFINE j == job[t]
           s == Head(j.todo)
           v == j.saved[s]
<1>1. /\ Busy(t) /\ j.undo /\ JobSound(j) /\ s \in Saved
      /\ j.todo \in Seq(Store) /\ j.todo # << >>
      /\ flash \in Disk /\ ram \in Disk
  BY AtWork, Tasks DEF Restore, RestoreFails, JobsInv
<1>2. PICK k : Continues(t, k)
  BY RestoreContinues
<1>3. CASE RestoreFails(t)
  <2>1. flash' = flash /\ ram' = ram
    BY <1>3 DEF RestoreFails
  <2> QED BY <1>2, <2>1, LoopJob, Tasks
          DEF MoveSound, MovesAway, LeavesNobody, Related
<1>4. CASE Restore(t)
  <2>1. flash' = [flash EXCEPT ![s] = v] /\ ram' = [ram EXCEPT ![s] = v]
    BY <1>4 DEF Restore
  <2>2. /\ flash'.membership = IF s = "membership" THEN v ELSE flash.membership
        /\ ram'.membership = IF s = "membership" THEN v ELSE ram.membership
        /\ ram'.config = ram.config
        /\ s # "registry" => ram'.registry = ram.registry
    <3> HIDE DEF v, s
    <3> QED BY <1>1, <2>1 DEF Saved, Relations, Disk
  <2>3. flash'.membership.site = ram'.membership.site
    BY <2>2 DEF MoveSound
  <2>4. CASE job["loop"].op # "join"
    <3>1. job'["loop"].op # "join"
      BY <1>2, <2>4, LoopJob, Tasks
    <3> QED BY <2>3, <2>4, <3>1 DEF MoveSound, MovesAway
  <2>5. CASE job["loop"].op = "join"
    <3>1. t = "loop" /\ j.op = "join"
      BY <1>1, <2>5, Tasks DEF JobSound, JobsInv, TasksApart, Pairing
    <3>2. s # "registry"
      BY <1>1, <3>1, OmitsTail DEF JobSound
    <3>3. ram'.membership.site
            \in {ram.membership.site, j.saved.membership.site}
      BY <2>2
    <3>4. j.saved.membership.site = j.arg => ram.membership.site = j.arg
      BY <2>5, <3>1 DEF MoveSound
    <3> HIDE DEF j
    <3>5. ~MovesAway
      BY <3>1, <3>3, <3>4 DEF MovesAway, j
    <3>6. \/ job'["loop"].op = "none"
          \/ /\ job'["loop"].who = j.who /\ job'["loop"].arg = j.arg
             /\ job'["loop"].saved = j.saved /\ job'["loop"].undo
      BY <1>1, <1>2, <3>1, LoopJob DEF j
    <3>7. j.who \in Participant
      BY <2>5, <3>1 DEF MoveSound, j
    <3> QED BY <2>3, <3>3, <3>4, <3>5, <3>6, <3>7 DEF MoveSound
  <2> QED BY <2>4, <2>5
<1> QED BY <1>3, <1>4

LEMMA BeginsMoveSound ==
  ASSUME JobsInv, MoveSound, NEW t \in Task, NEW op, NEW p, NEW arg,
         NEW steps, Begins(t, op, p, arg, steps)
  PROVE  MoveSound' /\ ~MovesAway
<1>1. /\ Prepared(t, op, p, arg, steps) /\ flash' = flash /\ ram' = ram
  BY DEF Begins, Begin
<1>2. CASE t = "web"
  <2>1. job'["loop"] = job["loop"]
    BY <1>2, Tasks DEF Begins, Begin
  <2> QED BY <1>1, <2>1 DEF MoveSound, MovesAway, LeavesNobody, Related
<1>3. CASE t = "loop"
  <2>1. PICK k : /\ job'["loop"] = k /\ k.op = op /\ k.who = p
                 /\ k.arg = arg
                 /\ \/ k.saved.membership = ram.membership
                    \/ op # "join"
    <3> DEFINE saved == IF op \in Leased \cup {"join"}
                          THEN [s \in Saved |-> ram[s]] ELSE NoSaved
               k == [Idle EXCEPT !.op = op, !.who = p, !.arg = arg,
                                 !.todo = steps, !.saved = saved]
    <3>1. job' = [job EXCEPT !["loop"] = k]
      BY <1>3 DEF Begins, Begin
    <3>2. /\ k.op = op /\ k.who = p /\ k.arg = arg /\ k.saved = saved
      BY DEF Idle
    <3>3. op = "join" => saved.membership = ram.membership
      BY DEF Saved
    <3> HIDE DEF k, saved
    <3> QED BY <3>1, <3>2, <3>3, Tasks
  <2>2. op = "join" =>
          /\ p \in Participant
          /\ ram.membership.site = arg \/ LeavesNobody(p)
    BY <1>1 DEF Prepared, Pairing, MayMoveSite, LeavesNobody
  <2>3. ~MovesAway
    BY <1>1 DEF MovesAway
  <2>4. MoveSound'
    BY <1>1, <2>1, <2>2 DEF MoveSound, LeavesNobody, Related
  <2> QED BY <2>3, <2>4
<1> QED BY <1>2, <1>3, Tasks

(* The other steps leave the device where it is.                           *)
LEMMA RestMoveSound ==
  ASSUME JobsInv, MoveSound,
         \/ OpenWindow \/ CloseWindow \/ UNCHANGED vars \/ DeferMembership
         \/ Settle \/ PowerCut
         \/ \E p \in Participant : Stage(p)
         \/ \E p \in Node : PullConfiguration(p)
  PROVE  MoveSound' /\ ~MovesAway
<1>1. CASE \/ OpenWindow \/ CloseWindow \/ UNCHANGED vars \/ DeferMembership
           \/ \E p \in Participant : Stage(p)
  <2>1. /\ job'["loop"] = job["loop"] /\ ram' = ram /\ flash' = flash
    BY <1>1, Tasks
       DEF OpenWindow, CloseWindow, Stage, vars, DeferMembership
  <2> QED BY <2>1 DEF MoveSound, MovesAway, LeavesNobody, Related
<1>2. CASE Settle
  <2>1. ram' = ram /\ flash' = flash
    BY <1>2 DEF Settle
  <2>2. job'["loop"] = job["loop"] \/ job'["loop"].op = "settle"
    <3> DEFINE k == [Idle EXCEPT !.op = "settle",
                       !.todo = <<"config", "directory", "membership">>]
    <3>1. job' = job \/ job' = [job EXCEPT !["loop"] = k]
      BY <1>2 DEF Settle
    <3>2. k.op = "settle"
      BY DEF Idle
    <3> HIDE DEF k
    <3> QED BY <3>1, <3>2, Tasks
  <2> QED BY <2>1, <2>2 DEF MoveSound, MovesAway, LeavesNobody, Related
<1>3. \A d \in Disk : Repaired(d).membership.site = d.membership.site
  BY DEF Repaired, Disk, Membership
<1>4. CASE PowerCut
  <2>1. ram' = Repaired(flash) /\ flash' = Repaired(flash)
    BY <1>4 DEF PowerCut
  <2>2. job'["loop"] = Idle
    BY <1>4, Tasks DEF PowerCut
  <2> QED BY <1>3, <2>1, <2>2, IdleType, Tasks DEF MoveSound, MovesAway
<1>5. ASSUME NEW p \in Node, PullConfiguration(p)
      PROVE  MoveSound' /\ ~MovesAway
  <2>1. PICK others \in SUBSET (Node \ {p}) :
          LET config == [site |-> ram.membership.site, owner |-> p,
                         member |-> [q \in Participant |->
                           IF q = p THEN "eligible"
                           ELSE IF q \in others THEN "active" ELSE "none"]]
          IN  /\ flash' = Repaired([flash EXCEPT !.config = config])
              /\ ram' = Repaired([ram EXCEPT !.config = config])
    BY <1>5 DEF PullConfiguration
  <2> DEFINE member == [q \in Participant |->
                          IF q = p THEN "eligible"
                          ELSE IF q \in others THEN "active" ELSE "none"]
             config == [site |-> ram.membership.site, owner |-> p,
                        member |-> member]
  <2>2. config \in Configuration
    <3>1. member \in [Participant -> Standing]
      BY DEF Standing
    <3>2. ram.membership.site \in Site
      BY Tasks DEF Disk, Membership
    <3> QED BY <3>1, <3>2 DEF Configuration
  <2>3. /\ flash' = Repaired([flash EXCEPT !.config = config])
        /\ ram' = Repaired([ram EXCEPT !.config = config])
    BY <2>1
  <2> HIDE DEF config
  <2>4. \A d \in Disk : /\ [d EXCEPT !.config = config] \in Disk
                        /\ [d EXCEPT !.config = config].membership
                             = d.membership
    BY <2>2 DEF Disk
  <2>5. /\ ram'.membership.site = ram.membership.site
        /\ flash'.membership.site = flash.membership.site
    BY <1>3, <2>3, <2>4, Tasks
  <2>6. job' = job /\ job["loop"].op = "none"
    BY <1>5 DEF PullConfiguration, Busy
  <2> QED BY <2>5, <2>6 DEF MoveSound, MovesAway
<1> QED BY <1>1, <1>2, <1>4, <1>5

LEMMA MoveInit == Init => MoveInv
<1> SUFFICES ASSUME Init PROVE MoveInv
  OBVIOUS
<1>1. flash = ram /\ ProfileInv
  BY ProfileInit DEF Init
<1>2. job["loop"] = Idle
  BY <1>1, Tasks DEF Init, ProfileInv
<1> QED BY <1>1, <1>2, IdleType DEF MoveInv, MoveSound

LEMMA MoveStep ==
  ASSUME MoveInv, [Next]_vars
  PROVE  /\ MoveInv'
         /\ MovesAway /\ "reset" \notin broken =>
              LeavesNobody(job["loop"].who)
<1>1. ProfileInv' /\ JobsInv
  BY ProfileStep DEF MoveInv, ProfileInv
<1> SUFFICES ASSUME "reset" \notin broken
             PROVE  /\ "reset" \notin broken' => MoveSound'
                    /\ MovesAway => LeavesNobody(job["loop"].who)
  BY <1>1, BrokenGrows DEF MoveInv
<1>2. ProfilesKept /\ MoveSound
  BY DEF MoveInv, ProfileInv
<1>3. ASSUME Operates PROVE MoveSound' /\ ~MovesAway
  BY <1>1, <1>2, <1>3, OperatesBegins, BeginsMoveSound, Tasks
<1>4. ASSUME NEW t \in Task, Proceeds(t)
      PROVE  /\ "reset" \notin broken' => MoveSound'
             /\ MovesAway => LeavesNobody(job["loop"].who)
  BY <1>1, <1>2, <1>4, WriteMoveSound, FailMoveSound, RestoreMoveSound
     DEF Proceeds
<1> QED BY <1>1, <1>2, <1>3, <1>4, RestMoveSound DEF Next, Operates

(* NobodyOrphaned holds for any numbers of participants and Sites: what    *)
(* the joiner found before it began still holds when it moves, whatever    *)
(* the web server wrote to registry and roster in between.                 *)
THEOREM PairingOrphansNobody == Spec => NobodyOrphaned
<1>1. ASSUME MoveInv, [Next]_vars
      PROVE  [ job["loop"].op = "join"
                 /\ ram'.membership.site # ram.membership.site
                 /\ ram'.membership.site = job["loop"].arg
                 /\ "reset" \notin broken =>
                 /\ Related(ram) \subseteq {job["loop"].who}
                 /\ OwnedHere(ram) =>
                      \A p \in Participant :
                        ram.config.member[p] \notin Active ]_vars
  BY <1>1, MoveStep DEF MovesAway, LeavesNobody
<1>2. MoveInv /\ [Next]_vars => MoveInv'
  BY MoveStep
<1> QED BY <1>1, <1>2, MoveInit, PTL DEF Spec, NobodyOrphaned

-----------------------------------------------------------------------------
(* The course of a transaction                                             *)

Web == job["web"]
Loop == job["loop"]

(* The writes an operation still has to make; a refresh without            *)
(* relationships goes on to the membership.                                *)
Settling == {<<"directory", "membership">>, <<"membership">>}

Remaining(op) ==
  CASE op \in {"approve", "quarantine"} ->
         {<<"registry", "config">>, <<"config">>} \cup Settling
    [] op = "configure" ->
         {<<"registry", "readiness", "config">>, <<"readiness", "config">>,
          <<"config">>} \cup Settling
    [] op = "reconfigure" ->
         {<<"readiness", "config">>, <<"config">>} \cup Settling
    [] op = "activate" ->
         {<<"credential", "registry", "config">>, <<"registry", "config">>,
          <<"config">>} \cup Settling
    [] op = "revoke" ->
         {<<"registry", "credential", "config">>, <<"credential", "config">>,
          <<"config">>} \cup Settling
    [] op = "forget" ->
         {<<"readiness", "registry", "credential", "config">>,
          <<"registry", "credential", "config">>, <<"credential", "config">>,
          <<"config">>} \cup Settling
    [] op \in {"promote", "demote"} -> {<<"registry", "config">>, <<"config">>}
    [] op = "expel" -> {<<"credential", "config">>, <<"config">>}
    [] op = "erase" ->
         {<<"readiness", "credential", "config">>, <<"credential", "config">>,
          <<"config">>}
    [] op = "roster" -> {<<"config">>}
    [] op = "lead" ->
         {<<"registry", "credential">>, <<"credential">>,
          <<"registry", "credential", "config">>, <<"credential", "config">>,
          <<"config">>}
    [] op = "join" ->
         {<<"registry", "credential", "membership">>,
          <<"credential", "membership">>, <<"membership">>,
          <<"registry", "credential", "membership", "config">>,
          <<"credential", "membership", "config">>,
          <<"membership", "config">>, <<"config">>}
    [] op = "reset" ->
         {<<"credential", "readiness", "registry", "membership", "config",
            "directory">>,
          <<"readiness", "registry", "membership", "config", "directory">>,
          <<"registry", "membership", "config", "directory">>,
          <<"membership", "config", "directory">>,
          <<"config", "directory">>, <<"directory">>}
    [] op = "settle" ->
         {<<"config", "directory", "membership">>,
          <<"directory", "membership">>, <<"membership">>}
    [] OTHER -> {}

OnCourse(j) ==
  IF ~j.undo THEN j.op = "none" \/ j.todo \in Remaining(j.op)
  ELSE j.op = "join" => j.todo = <<"membership">>

(* How an operation begins.                                                *)
Qualified(op, p, arg, steps) ==
  /\ op \in {"approve", "quarantine", "activate", "revoke", "forget"}
            \cup Pairing => ~Omits(steps, "registry")
  /\ op \in {"configure", "reconfigure", "quarantine"} =>
       ram.registry[p] \notin Gone
  /\ op = "configure" /\ Omits(steps, "registry") =>
       ram.registry[p] = "quarantined"
  /\ op = "reconfigure" => ram.registry[p] \in Active
  /\ op = "activate" /\ Head(steps) = "registry" =>
       ram.credential[p] # "disabled"
  /\ op = "revoke" => Head(steps) = "registry"
  /\ op = "expel" => ram.registry[p] = "none"
  /\ op = "roster" => SameSite(ram)
  /\ op = "join" /\ Omits(steps, "config") /\ ready =>
       arg = ram.membership.site
  /\ op = "reset" => /\ ~Omits(steps, "membership")
                     /\ ~Omits(steps, "config")

Opens(t, op, p, arg, steps) ==
  /\ Begin(t, op, p, arg, steps)
  /\ t = "web" => op \in Leased \cup {"roster", "reset"}
  /\ t = "loop" => op \in Pairing
  /\ steps \in Remaining(op) \ Settling
  /\ op \in Leased \cup Pairing => p \in Participant
  /\ Qualified(op, p, arg, steps)

LEMMA RequestOpens ==
  ASSUME ram \in Disk, NEW p \in Participant, Requested(p)
  PROVE  \E op \in Leased : \E arg, steps : Opens("web", op, p, arg, steps)
<1> USE DEF Leased, Refreshing, Canonical, Pairing
<1>1. ASSUME Approve(p)
      PROVE  Opens("web", "approve", p, "none", <<"registry", "config">>)
  <2>1. ~Omits(<<"registry", "config">>, "registry")
    BY DEF Omits
  <2> QED BY <1>1, <2>1
          DEF Approve, Opens, Qualified, Remaining, Settling
<1>2. ASSUME Configure(p)
      PROVE  \E arg, steps : Opens("web", "configure", p, arg, steps)
  <2> DEFINE steps == IF ram.registry[p] \in Active
                        THEN <<"registry", "readiness", "config">>
                        ELSE <<"readiness", "config">>
  <2>1. PICK arg : Begin("web", "configure", p, arg, steps)
    BY <1>2 DEF Configure
  <2>2. Omits(steps, "registry") => ram.registry[p] \notin Active
    BY DEF Omits
  <2>3. steps \in Remaining("configure") \ Settling
    BY DEF Remaining, Settling
  <2>4. /\ ram.registry[p] \notin Gone
        /\ ram.registry[p] \notin Active => ram.registry[p] = "quarantined"
    BY <1>2 DEF Configure, Disk, Standing, Active, Gone
  <2> HIDE DEF steps
  <2> QED BY <2>1, <2>2, <2>3, <2>4 DEF Opens, Qualified
<1>3. ASSUME Reconfigure(p)
      PROVE  \E arg : Opens("web", "reconfigure", p, arg,
                            <<"readiness", "config">>)
  <2>1. /\ ram.registry[p] \in Active /\ ram.registry[p] \notin Gone
        /\ \E arg : Begin("web", "reconfigure", p, arg,
                          <<"readiness", "config">>)
    BY <1>3 DEF Reconfigure, Active, Gone
  <2> QED BY <2>1 DEF Opens, Qualified, Remaining, Settling
<1>4. ASSUME Activate(p)
      PROVE  \E steps : Opens("web", "activate", p, "none", steps)
  <2> DEFINE steps == IF ram.credential[p] = "disabled"
                        THEN <<"credential", "registry", "config">>
                        ELSE <<"registry", "config">>
  <2>1. Begin("web", "activate", p, "none", steps)
    BY <1>4 DEF Activate
  <2>2. ~Omits(steps, "registry")
    <3>1. /\ ~Omits(<<"registry", "config">>, "registry")
          /\ ~Omits(<<"credential", "registry", "config">>, "registry")
      BY DEF Omits
    <3> QED BY <3>1
  <2>3. steps \in Remaining("activate") \ Settling
    BY DEF Remaining, Settling
  <2>4. Head(steps) = "registry" => ram.credential[p] # "disabled"
    OBVIOUS
  <2> HIDE DEF steps
  <2> QED BY <2>1, <2>2, <2>3, <2>4 DEF Opens, Qualified
<1>5. ASSUME Quarantine(p)
      PROVE  Opens("web", "quarantine", p, "none", <<"registry", "config">>)
  <2>1. ~Omits(<<"registry", "config">>, "registry")
    BY DEF Omits
  <2> QED BY <1>5, <2>1
          DEF Quarantine, Opens, Qualified, Remaining, Settling
<1>6. ASSUME Revoke(p)
      PROVE  Opens("web", "revoke", p, "none",
                   <<"registry", "credential", "config">>)
  <2>1. ~Omits(<<"registry", "credential", "config">>, "registry")
    BY DEF Omits
  <2> QED BY <1>6, <2>1
          DEF Revoke, Opens, Qualified, Remaining, Settling
<1>7. ASSUME Forget(p)
      PROVE  Opens("web", "forget", p, "none",
                   <<"readiness", "registry", "credential", "config">>)
  <2>1. ~Omits(<<"readiness", "registry", "credential", "config">>, "registry")
    BY DEF Omits
  <2> QED BY <1>7, <2>1
          DEF Forget, Opens, Qualified, Remaining, Settling
<1>8. ASSUME SetCommunityLeader(p)
      PROVE  \E op \in {"promote", "demote"} : \E steps :
               Opens("web", op, p, "none", steps)
  <2>1. PICK op \in {"promote", "demote"} : \E steps :
          /\ Begin("web", op, p, "none", steps)
          /\ steps \in {<<"registry", "config">>, <<"config">>}
    BY <1>8 DEF SetCommunityLeader
  <2> QED BY <2>1 DEF Opens, Qualified, Remaining, Settling
<1>9. ASSUME ManageMember(p)
      PROVE  \/ Opens("web", "expel", p, "none", <<"credential", "config">>)
             \/ Opens("web", "erase", p, "none",
                      <<"readiness", "credential", "config">>)
  BY <1>9 DEF ManageMember, Opens, Qualified, Remaining, Settling
<1> QED BY <1>1, <1>2, <1>3, <1>4, <1>5, <1>6, <1>7, <1>8, <1>9 DEF Requested

(* Lists of writes that agree in each place, and one write more.           *)
LEMMA SameList ==
  ASSUME NEW S, NEW q \in Seq(S), NEW r \in Seq(S), Len(q) = Len(r),
         \A i \in 1..Len(q) : q[i] = r[i]
  PROVE  q = r
<1>1. q = [i \in 1..Len(q) |-> q[i]] /\ r = [i \in 1..Len(r) |-> r[i]]
  OBVIOUS
<1>2. [i \in 1..Len(q) |-> q[i]] = [i \in 1..Len(r) |-> r[i]]
  OBVIOUS
<1> QED BY <1>1, <1>2

LEMMA OneMore ==
  ASSUME NEW S, NEW q \in Seq(S), NEW e \in S, NEW r \in Seq(S),
         Len(r) = Len(q) + 1, r[Len(r)] = e, \A i \in 1..Len(q) : r[i] = q[i]
  PROVE  q \o <<e>> = r
<1>1. q \o <<e>> \in Seq(S) /\ Len(q \o <<e>>) = Len(r)
      /\ \A i \in 1..Len(r) : (q \o <<e>>)[i] = r[i]
  OBVIOUS
<1> QED BY <1>1, SameList

LEMMA JoinedTwo ==
  ASSUME NEW a \in Store, NEW b \in Store, NEW c \in Store
  PROVE  <<a, b>> \o <<c>> = <<a, b, c>>
<1> DEFINE q == <<a, b>>
           r == <<a, b, c>>
<1>1. q \in Seq(Store) /\ r \in Seq(Store) /\ Len(q) = 2 /\ Len(r) = 3
  OBVIOUS
<1>2. r[1] = q[1] /\ r[2] = q[2] /\ r[3] = c
  OBVIOUS
<1> HIDE DEF q, r
<1>3. /\ Len(r) = Len(q) + 1 /\ r[Len(r)] = c
      /\ \A i \in 1..Len(q) : r[i] = q[i]
  BY <1>1, <1>2
<1>4. q \o <<c>> = r
  BY <1>1, <1>2, <1>3, OneMore
<1> QED BY <1>4 DEF q, r

LEMMA JoinedThree ==
  ASSUME NEW a \in Store, NEW b \in Store, NEW c \in Store,
         NEW d \in Store
  PROVE  <<a, b, c>> \o <<d>> = <<a, b, c, d>>
<1> DEFINE q == <<a, b, c>>
           r == <<a, b, c, d>>
<1>1. q \in Seq(Store) /\ r \in Seq(Store) /\ Len(q) = 3 /\ Len(r) = 4
  OBVIOUS
<1>2. r[1] = q[1] /\ r[2] = q[2] /\ r[3] = q[3] /\ r[4] = d
  OBVIOUS
<1> HIDE DEF q, r
<1>3. /\ Len(r) = Len(q) + 1 /\ r[Len(r)] = d
      /\ \A i \in 1..Len(q) : r[i] = q[i]
  BY <1>1, <1>2
<1>4. q \o <<d>> = r
  BY <1>1, <1>2, <1>3, OneMore
<1> QED BY <1>4 DEF q, r

LEMMA OtherOpens ==
  ASSUME ram \in Disk,
         \/ \E p \in Node : CommitPairing(p)
         \/ CommitRoster
         \/ Reset
  PROVE  \E t \in Task : \E op, p, arg, steps : Opens(t, op, p, arg, steps)
<1> USE DEF Pairing
<1>0. {"web", "loop"} = Task /\ Node \subseteq Participant
  BY DEF Task, Participant
<1>1. ASSUME NEW p \in Node, CommitPairing(p)
      PROVE  \E op, arg, steps : Opens("loop", op, p, arg, steps)
  <2>0. /\ "lead" \notin Leased /\ "join" \notin Leased
        /\ p \in Participant
    BY <1>0 DEF Leased, Refreshing, Canonical
  <2>1. CASE \E rest \in {<< >>, <<"config">>} :
               Begin("loop", "lead", p, "none",
                     <<"registry", "credential">> \o rest)
    <3>1. PICK rest \in {<< >>, <<"config">>} :
            Begin("loop", "lead", p, "none",
                  <<"registry", "credential">> \o rest)
      BY <2>1
    <3> DEFINE steps == <<"registry", "credential">> \o rest
    <3>2. steps \in {<<"registry", "credential">>,
                     <<"registry", "credential", "config">>}
      <4>1. <<"registry", "credential">> \o << >> = <<"registry", "credential">>
        OBVIOUS
      <4>2. <<"registry", "credential">> \o <<"config">>
              = <<"registry", "credential", "config">>
        BY JoinedTwo DEF Store, Relations
      <4> QED BY <4>1, <4>2
    <3>3. ~Omits(steps, "registry")
      BY <3>2 DEF Omits
    <3>4. steps \in Remaining("lead") \ Settling
      BY <3>2 DEF Remaining, Settling
    <3>5. Begin("loop", "lead", p, "none", steps)
      BY <3>1
    <3> HIDE DEF steps
    <3> QED BY <2>0, <3>3, <3>4, <3>5 DEF Opens, Qualified
  <2>2. CASE \E site : \E rest \in {<< >>, <<"config">>} :
               /\ rest = << >> /\ ready => ram.membership.site = site
               /\ Begin("loop", "join", p, site,
                        <<"registry", "credential", "membership">> \o rest)
    <3>0. PICK site : \E rest \in {<< >>, <<"config">>} :
            /\ rest = << >> /\ ready => ram.membership.site = site
            /\ Begin("loop", "join", p, site,
                     <<"registry", "credential", "membership">> \o rest)
      BY <2>2
    <3>1. PICK rest \in {<< >>, <<"config">>} :
            /\ rest = << >> /\ ready => ram.membership.site = site
            /\ Begin("loop", "join", p, site,
                     <<"registry", "credential", "membership">> \o rest)
      BY <3>0
    <3> DEFINE steps == <<"registry", "credential", "membership">> \o rest
    <3>2. steps = IF rest = << >>
                    THEN <<"registry", "credential", "membership">>
                    ELSE <<"registry", "credential", "membership", "config">>
      <4>1. <<"registry", "credential", "membership">> \o << >>
              = <<"registry", "credential", "membership">>
        OBVIOUS
      <4>2. <<"registry", "credential", "membership">> \o <<"config">>
              = <<"registry", "credential", "membership", "config">>
        BY JoinedThree DEF Store, Relations
      <4> QED BY <4>1, <4>2
    <3>3. ~Omits(steps, "registry")
      <4>1. /\ ~Omits(<<"registry", "credential", "membership">>, "registry")
            /\ ~Omits(<<"registry", "credential", "membership", "config">>,
                      "registry")
        BY DEF Omits
      <4> QED BY <3>2, <4>1
    <3>4. steps \in Remaining("join") \ Settling
      <4>1. /\ <<"registry", "credential", "membership">>
                 \in Remaining("join") \ Settling
            /\ <<"registry", "credential", "membership", "config">>
                 \in Remaining("join") \ Settling
        BY DEF Remaining, Settling
      <4> QED BY <3>2, <4>1
    <3>5. Omits(steps, "config") => rest = << >>
      <4>1. ~Omits(<<"registry", "credential", "membership", "config">>,
                   "config")
        BY DEF Omits
      <4> QED BY <3>2, <4>1
    <3>6. Begin("loop", "join", p, site, steps)
      BY <3>1
    <3> HIDE DEF steps
    <3> QED BY <2>0, <3>1, <3>3, <3>4, <3>5, <3>6 DEF Opens, Qualified
  <2> DEFINE rest(c) == IF ready /\ ~c THEN <<"config">> ELSE << >>
  <2>3. \A c : /\ rest(c) \in {<< >>, <<"config">>}
               /\ rest(c) = << >> /\ ready => c
    OBVIOUS
  <2>4. \/ Begin("loop", "lead", p, "none",
                 <<"registry", "credential">> \o rest(FALSE))
        \/ \E site, c :
             /\ c => ram.membership.site = site
             /\ Begin("loop", "join", p, site,
                      <<"registry", "credential", "membership">> \o rest(c))
    BY <1>1 DEF CommitPairing, AlreadyConverged
  <2> HIDE DEF rest
  <2>5. ASSUME Begin("loop", "lead", p, "none",
                     <<"registry", "credential">> \o rest(FALSE))
        PROVE  \E op, arg, steps : Opens("loop", op, p, arg, steps)
    BY <2>1, <2>3, <2>5
  <2>6. ASSUME NEW site, NEW c, c => ram.membership.site = site,
               Begin("loop", "join", p, site,
                     <<"registry", "credential", "membership">> \o rest(c))
        PROVE  \E op, arg, steps : Opens("loop", op, p, arg, steps)
    <3>1. /\ rest(c) \in {<< >>, <<"config">>}
          /\ rest(c) = << >> /\ ready => ram.membership.site = site
      BY <2>3, <2>6
    <3> QED BY <2>2, <2>6, <3>1
  <2> QED BY <2>4, <2>5, <2>6
<1>2. ASSUME CommitRoster
      PROVE  Opens("web", "roster", Nobody, "none", <<"config">>)
  BY <1>2 DEF CommitRoster, Opens, Qualified, Remaining, Settling, Leased,
              Refreshing, Canonical
<1>3. ASSUME Reset
      PROVE  \E arg, steps : Opens("web", "reset", Nobody, arg, steps)
  <2> DEFINE steps == <<"credential", "readiness", "registry", "membership",
                        "config", "directory">>
  <2>1. PICK site : Begin("web", "reset", Nobody, site, steps)
    BY <1>3 DEF Reset
  <2>2. Len(steps) = 6 /\ steps[4] = "membership" /\ steps[5] = "config"
    OBVIOUS
  <2>3. ~Omits(steps, "membership") /\ ~Omits(steps, "config")
    <3> HIDE DEF steps
    <3> QED BY <2>2 DEF Omits
  <2>4. steps \in Remaining("reset") \ Settling
    BY DEF Remaining, Settling
  <2> HIDE DEF steps
  <2> QED BY <2>1, <2>3, <2>4 DEF Opens, Qualified, Leased, Refreshing,
             Canonical
<1> QED BY <1>0, <1>1, <1>2, <1>3

LEMMA OperatesOpens ==
  ASSUME ram \in Disk, Operates
  PROVE  \E t \in Task : \E op, p, arg, steps : Opens(t, op, p, arg, steps)
<1>1. "web" \in Task
  BY DEF Task
<1> QED BY <1>1, RequestOpens, OtherOpens DEF Operates

(* The transaction of a task, before and after a step of it.               *)
Others(t) == \A u \in Task \ {t} : job'[u] = job[u]
Same(k, j) == k.op = j.op /\ k.who = j.who /\ k.arg = j.arg /\ k.saved = j.saved

LEMMA OpenedJob ==
  ASSUME JobsInv, NEW t \in Task, NEW op, NEW p, NEW arg, NEW steps,
         Opens(t, op, p, arg, steps)
  PROVE  LET k == job'[t]
         IN  /\ job[t].op = "none" /\ Others(t)
             /\ k.op = op /\ k.who = p /\ k.arg = arg /\ k.todo = steps
             /\ k.done = {} /\ ~k.undo /\ k.sound
             /\ op \in Leased =>
                  /\ k.saved.registry = ram.registry
                  /\ k.saved.readiness = ram.readiness
                  /\ k.saved.credential = ram.credential
             /\ op \in Leased \cup Pairing => ~Leasing
             /\ flash' = flash /\ ram' = ram /\ ready' = ready
             /\ recon' = recon /\ broken' = broken \cup Across(op)
<1> DEFINE new == [Idle EXCEPT !.op = op, !.who = p, !.arg = arg,
                               !.todo = steps,
                               !.saved = IF op \in Leased \cup {"join"}
                                           THEN [s \in Saved |-> ram[s]]
                                           ELSE NoSaved]
<1>1. job' = [job EXCEPT ![t] = new] /\ job \in [Task -> Jobs]
  BY Tasks DEF Opens, Begin
<1>2. /\ new.op = op /\ new.who = p /\ new.arg = arg /\ new.todo = steps
      /\ new.done = {} /\ ~new.undo /\ new.sound
      /\ op \in Leased => new.saved = [s \in Saved |-> ram[s]]
  BY DEF Idle
<1> HIDE DEF new
<1>3. job'[t] = new /\ Others(t)
  BY <1>1 DEF Others
<1>4. /\ {"registry", "readiness", "credential"} \subseteq Saved
      /\ ram["registry"] = ram.registry /\ ram["readiness"] = ram.readiness
      /\ ram["credential"] = ram.credential
  BY DEF Saved, Relations
<1>5. op \in Leased =>
        /\ new.saved.registry = ram.registry
        /\ new.saved.readiness = ram.readiness
        /\ new.saved.credential = ram.credential
  BY <1>2, <1>4
<1>6. /\ ~Busy(t) /\ flash' = flash /\ ram' = ram /\ ready' = ready
      /\ recon' = recon /\ broken' = broken \cup Across(op)
      /\ op \in Leased \cup Pairing => ~Leasing
  BY DEF Opens, Begin
<1> QED BY <1>2, <1>3, <1>5, <1>6 DEF Busy

LEMMA WroteJob ==
  ASSUME JobsInv, NEW t \in Task, Write(t)
  PROVE  LET j == job[t]
             s == Head(j.todo)
             rest == Advanced(j, s)
             k == job'[t]
         IN  /\ j \in Jobs /\ j.op # "none" /\ ~j.undo /\ ~Refused(j)
             /\ s \in Store /\ j.todo \in Seq(Store) /\ j.todo # << >>
             /\ Others(t)
             /\ rest = << >> => k = Idle
             /\ rest # << >> =>
                  /\ Same(k, j) /\ k.todo = rest /\ ~k.undo
                  /\ k.sound = j.sound
                  /\ k.done = j.done \cup IF Skips(j, s) THEN {} ELSE {s}
             /\ recon' = Reconciled(j, s, rest)
             /\ ready' = ready /\ broken' = broken
             /\ outcome' = IF rest = << >> THEN Concluded(j, "ok")
                                           ELSE outcome
<1> DEFINE j == job[t]
           s == Head(j.todo)
           rest == Advanced(j, s)
           done == j.done \cup IF Skips(j, s) THEN {} ELSE {s}
           next == [j EXCEPT !.todo = rest, !.done = done]
           k == IF rest = << >> THEN Idle ELSE next
<1>1. /\ job' = [job EXCEPT ![t] = k] /\ job \in [Task -> Jobs]
      /\ Busy(t) /\ ~j.undo /\ ~Refused(j)
  <2>1. job' = [job EXCEPT ![t] =
           IF rest = << >> THEN Idle
           ELSE [j EXCEPT !.todo = rest,
                          !.done = @ \cup (IF Skips(j, s) THEN {} ELSE {s})]]
    BY DEF Write
  <2>2. /\ job \in [Task -> Jobs] /\ Busy(t) /\ ~j.undo /\ ~Refused(j)
    BY Tasks DEF Write
  <2> QED BY <2>1, <2>2
<1>2. /\ j \in Jobs /\ j.op # "none" /\ s \in Store /\ j.todo \in Seq(Store)
      /\ j.todo # << >>
  BY <1>1, AtWork DEF JobsInv
<1>3. /\ Same(next, j) /\ next.todo = rest /\ next.undo = j.undo
      /\ next.sound = j.sound /\ next.done = done
  <2> HIDE DEF rest, done
  <2> QED BY <1>2 DEF Jobs, Same
<1>4. job'[t] = k /\ Others(t)
  <2> HIDE DEF k
  <2> QED BY <1>1 DEF Others
<1>5. /\ recon' = Reconciled(j, s, rest) /\ ready' = ready /\ broken' = broken
      /\ outcome' = IF rest = << >> THEN Concluded(j, "ok") ELSE outcome
  BY DEF Write
<1> HIDE DEF next, rest, done
<1> QED BY <1>1, <1>2, <1>3, <1>4, <1>5 DEF rest, done

(* The store written has its new content, and the others their old.        *)
LEMMA WroteStores ==
  ASSUME JobsInv, NEW t \in Task, Write(t)
  PROVE  LET j == job[t]
             s == Head(j.todo)
         IN  \A x \in Store \ {"directory"} :
               /\ x # s => flash'[x] = flash[x] /\ ram'[x] = ram[x]
               /\ x = s => /\ ram'[x] = Target(j, x)
                           /\ ~Skips(j, x) => flash'[x] = Target(j, x)
                           /\ Skips(j, x) => flash'[x] = flash[x]
                                             /\ ram'[x] = ram[x]
<1> DEFINE j == job[t]
           s == Head(j.todo)
           v == Target(j, s)
<1>1. /\ Busy(t) /\ s \in Store
      /\ flash \in Disk /\ ram \in Disk
  BY AtWork, Tasks DEF Write, JobsInv
<1>2. CASE s = "directory" \/ Skips(j, s)
  <2>1. flash' = flash /\ ram' = ram
    BY <1>2 DEF Write
  <2>2. s # "directory" => v = ram[s]
    BY <1>2 DEF Skips
  <2> QED BY <1>2, <2>1, <2>2
<1>3. CASE s # "directory" /\ ~Skips(j, s)
  <2>1. flash' = [flash EXCEPT ![s] = v] /\ ram' = [ram EXCEPT ![s] = v]
    BY <1>3 DEF Write
  <2>2. /\ DOMAIN flash = Store \ {"directory"}
        /\ DOMAIN ram = Store \ {"directory"}
    BY <1>1 DEF Disk, Store, Relations
  <2> HIDE DEF v, s
  <2>3. \A x \in Store \ {"directory"} :
          /\ flash'[x] = IF x = s THEN v ELSE flash[x]
          /\ ram'[x] = IF x = s THEN v ELSE ram[x]
    BY <2>1, <2>2
  <2> QED BY <1>3, <2>3 DEF v, s
<1> QED BY <1>2, <1>3

(* A transaction that cannot go on.                                        *)
LEMMA AbandonedJob ==
  ASSUME JobsInv, NEW t \in Task, Busy(t), ~job[t].undo, NEW lost,
         Abandon(t, lost)
  PROVE  LET j == job[t]
             k == job'[t]
         IN  /\ j \in Jobs /\ j.op # "none"
             /\ j.todo \in Seq(Store) /\ j.todo # << >>
             /\ Others(t)
             /\ Undoing(j) = << >> => k = Idle
             /\ Undoing(j) # << >> =>
                  /\ Same(k, j) /\ k.todo = Undoing(j) /\ k.undo
                  /\ k.sound = j.sound /\ k.done = j.done
<1> DEFINE j == job[t]
           undo == Undoing(j)
           next == [j EXCEPT !.todo = undo, !.undo = TRUE]
           k == IF undo = << >> THEN Idle ELSE next
<1>1. job' = [job EXCEPT ![t] = k] /\ job \in [Task -> Jobs]
  BY Tasks DEF Abandon
<1>2. /\ j \in Jobs /\ j.op # "none"
      /\ j.todo \in Seq(Store) /\ j.todo # << >>
  BY AtWork DEF JobsInv
<1>3. /\ Same(next, j) /\ next.todo = undo /\ next.undo
      /\ next.sound = j.sound /\ next.done = j.done
  <2> HIDE DEF undo
  <2> QED BY <1>2 DEF Jobs, Same
<1>4. job'[t] = k /\ Others(t)
  <2> HIDE DEF k
  <2> QED BY <1>1 DEF Others
<1> HIDE DEF next
<1> QED BY <1>2, <1>3, <1>4

LEMMA RestoredJob ==
  ASSUME JobsInv, NEW t \in Task, Restore(t)
  PROVE  LET j == job[t]
             s == Head(j.todo)
             k == job'[t]
         IN  /\ j \in Jobs /\ j.op \in Leased \cup {"join"} /\ j.undo
             /\ j.todo \in Seq(Store) /\ j.todo # << >> /\ s \in Saved
             /\ Others(t)
             /\ Tail(j.todo) = << >> => k = Idle
             /\ Tail(j.todo) # << >> =>
                  /\ Same(k, j) /\ k.todo = Tail(j.todo) /\ k.undo
                  /\ k.sound = j.sound /\ k.done = j.done
             /\ \A x \in Store \ {"directory"} :
                  /\ x # s => flash'[x] = flash[x] /\ ram'[x] = ram[x]
                  /\ x = s => /\ flash'[x] = j.saved[x]
                              /\ ram'[x] = j.saved[x]
             /\ recon' = recon /\ ready' = ready
             /\ Tail(j.todo) # << >> \/ j.sound => broken' = broken
             /\ Tail(j.todo) = << >> /\ ~j.sound =>
                  broken' = broken \cup {j.op}
             /\ outcome' = IF Tail(j.todo) # << >> THEN outcome
                           ELSE Concluded(j, IF j.sound THEN "refused"
                                                        ELSE "broken")
<1> DEFINE j == job[t]
           s == Head(j.todo)
           next == [j EXCEPT !.todo = Tail(@)]
           k == IF next.todo = << >> THEN Idle ELSE next
<1>1. /\ Busy(t) /\ j.undo /\ Ended(t, next)
      /\ flash' = [flash EXCEPT ![s] = j.saved[s]]
      /\ ram' = [ram EXCEPT ![s] = j.saved[s]]
      /\ recon' = recon /\ ready' = ready
  BY DEF Restore
<1>2. /\ j \in Jobs /\ j.todo \in Seq(Store) /\ j.todo # << >> /\ s \in Saved
      /\ j.op \in Leased \cup {"join"}
      /\ job \in [Task -> Jobs] /\ flash \in Disk /\ ram \in Disk
  BY <1>1, AtWork, Tasks DEF JobsInv, JobSound
<1>3. /\ Same(next, j) /\ next.todo = Tail(j.todo) /\ next.undo = j.undo
      /\ next.sound = j.sound /\ next.done = j.done
  BY <1>2 DEF Jobs, Same
<1>4. job' = [job EXCEPT ![t] = k]
  BY <1>1 DEF Ended
<1>5. job'[t] = k /\ Others(t)
  <2> HIDE DEF k
  <2> QED BY <1>2, <1>4 DEF Others
<1>6. \A x \in Store \ {"directory"} :
        /\ flash'[x] = IF x = s THEN j.saved[s] ELSE flash[x]
        /\ ram'[x] = IF x = s THEN j.saved[s] ELSE ram[x]
  <2>1. /\ DOMAIN flash = Store \ {"directory"}
        /\ DOMAIN ram = Store \ {"directory"}
    BY <1>2 DEF Disk, Store, Relations
  <2> HIDE DEF j, s
  <2> QED BY <1>1, <2>1
<1>7. /\ outcome' = IF next.todo # << >> THEN outcome
                    ELSE Concluded(next, IF next.sound THEN "refused"
                                                       ELSE "broken")
      /\ broken' = IF next.todo # << >> \/ next.sound THEN broken
                   ELSE broken \cup {next.op}
  BY <1>1 DEF Ended
<1>8. outcome' = IF Tail(j.todo) # << >> THEN outcome
                 ELSE Concluded(j, IF j.sound THEN "refused" ELSE "broken")
  <2> HIDE DEF next
  <2> QED BY <1>3, <1>7 DEF Same, Concluded
<1> HIDE DEF next
<1> QED BY <1>1, <1>2, <1>3, <1>5, <1>6, <1>7, <1>8 DEF Same

LEMMA UnrestoredJob ==
  ASSUME JobsInv, NEW t \in Task, RestoreFails(t)
  PROVE  LET j == job[t]
             k == job'[t]
         IN  /\ j \in Jobs /\ j.op \in Leased \cup {"join"} /\ j.undo
             /\ Others(t)
             /\ \/ k = Idle /\ broken' = broken \cup {j.op}
                            /\ outcome' = Concluded(j, "broken")
                \/ /\ Tail(j.todo) # << >>
                   /\ \A x : Omits(j.todo, x) => Omits(k.todo, x)
                   /\ Same(k, j) /\ k.undo /\ ~k.sound /\ k.done = j.done
                   /\ broken' = broken /\ outcome' = outcome
             /\ flash' = flash /\ ram' = ram
             /\ recon' = recon /\ ready' = ready
<1> DEFINE j == job[t]
           others == Tail(j.todo)
           last == Len(others)
           q == IF last > 0 /\ others[last] = "registry"
                  THEN SubSeq(others, 1, last - 1) ELSE others
           next == [j EXCEPT !.todo = q, !.sound = FALSE]
           k == IF next.todo = << >> THEN Idle ELSE next
<1>1. /\ Busy(t) /\ j.undo /\ Ended(t, next)
      /\ flash' = flash /\ ram' = ram
      /\ recon' = recon /\ ready' = ready
  BY DEF RestoreFails
<1>2. /\ j \in Jobs /\ j.op \in Leased \cup {"join"}
      /\ j.todo \in Seq(Store) /\ j.todo # << >> /\ others \in Seq(Store)
      /\ job \in [Task -> Jobs]
  BY <1>1, AtWork, Tasks DEF JobsInv, JobSound
<1>3. /\ Same(next, j) /\ next.undo = j.undo
      /\ next.sound = FALSE /\ next.done = j.done
  <2> HIDE DEF q
  <2> QED BY <1>2 DEF Jobs, Same
<1>4. job' = [job EXCEPT ![t] = k]
  BY <1>1 DEF Ended
<1>5. job'[t] = k /\ Others(t)
  <2> HIDE DEF k
  <2> QED BY <1>2, <1>4 DEF Others
<1>6. /\ outcome' = IF next.todo # << >> THEN outcome
                    ELSE Concluded(next, IF next.sound THEN "refused"
                                                       ELSE "broken")
      /\ broken' = IF next.todo # << >> \/ next.sound THEN broken
                   ELSE broken \cup {next.op}
  BY <1>1 DEF Ended
<1>7. q # << >> => others # << >>
  <2>1. Len(<< >>) = 0 /\ ~(0 > 0)
    OBVIOUS
  <2> HIDE DEF others
  <2> QED BY <2>1
<1>8. next.todo = q
  <2> HIDE DEF q
  <2> QED BY <1>2 DEF Jobs
<1>9. \A x : Omits(j.todo, x) => Omits(next.todo, x)
  <2> SUFFICES ASSUME NEW x, Omits(j.todo, x) PROVE Omits(q, x)
    BY <1>8
  <2>1. Omits(others, x)
    BY <1>2, OmitsTail
  <2>2. \A i \in 1..Len(q) : i \in 1..Len(others) /\ q[i] = others[i]
    <3>1. CASE last > 0 /\ others[last] = "registry"
      <4>1. q = SubSeq(others, 1, last - 1)
        BY <3>1
      <4>2. last - 1 \in 0..Len(others)
        BY <1>2, <3>1
      <4> QED BY <1>2, <4>1, <4>2
    <3>2. CASE ~(last > 0 /\ others[last] = "registry")
      BY <1>2, <3>2
    <3> QED BY <3>1, <3>2
  <2> HIDE DEF q
  <2> QED BY <2>1, <2>2 DEF Omits
<1> HIDE DEF next, q
<1> QED BY <1>1, <1>2, <1>3, <1>5, <1>6, <1>7, <1>8, <1>9 DEF Same, Concluded

(* Every transaction keeps to its course.                                  *)
CourseInv == \A t \in Task : OnCourse(job[t])

(* What follows each write.                                                *)
LEMMA Tails ==
  /\ Tail(<<"config">>) = << >>
  /\ Tail(<<"credential">>) = << >>
  /\ Tail(<<"directory">>) = << >>
  /\ Tail(<<"membership">>) = << >>
  /\ Tail(<<"config", "directory">>) = <<"directory">>
  /\ Tail(<<"credential", "config">>) = <<"config">>
  /\ Tail(<<"credential", "membership">>) = <<"membership">>
  /\ Tail(<<"directory", "membership">>) = <<"membership">>
  /\ Tail(<<"membership", "config">>) = <<"config">>
  /\ Tail(<<"readiness", "config">>) = <<"config">>
  /\ Tail(<<"registry", "config">>) = <<"config">>
  /\ Tail(<<"registry", "credential">>) = <<"credential">>
  /\ Tail(<<"config", "directory", "membership">>)
       = <<"directory", "membership">>
  /\ Tail(<<"credential", "membership", "config">>)
       = <<"membership", "config">>
  /\ Tail(<<"credential", "registry", "config">>) = <<"registry", "config">>
  /\ Tail(<<"membership", "config", "directory">>) = <<"config", "directory">>
  /\ Tail(<<"readiness", "credential", "config">>)
       = <<"credential", "config">>
  /\ Tail(<<"registry", "credential", "config">>) = <<"credential", "config">>
  /\ Tail(<<"registry", "credential", "membership">>)
       = <<"credential", "membership">>
  /\ Tail(<<"registry", "readiness", "config">>) = <<"readiness", "config">>
  /\ Tail(<<"readiness", "registry", "credential", "config">>)
       = <<"registry", "credential", "config">>
  /\ Tail(<<"registry", "credential", "membership", "config">>)
       = <<"credential", "membership", "config">>
  /\ Tail(<<"registry", "membership", "config", "directory">>)
       = <<"membership", "config", "directory">>
  /\ Tail(<<"readiness", "registry", "membership", "config", "directory">>)
       = <<"registry", "membership", "config", "directory">>
  /\ Tail(<<"credential", "readiness", "registry", "membership", "config",
            "directory">>)
       = <<"readiness", "registry", "membership", "config", "directory">>
OBVIOUS

LEMMA Onwards ==
  ASSUME NEW j \in Jobs, j.op # "none", j.todo \in Remaining(j.op),
         Advanced(j, Head(j.todo)) # << >>
  PROVE  Advanced(j, Head(j.todo)) \in Remaining(j.op)
<1> DEFINE rest == Advanced(j, Head(j.todo))
<1>1. \/ rest = <<"directory", "membership">> /\ j.op \in Refreshing
      \/ rest = Tail(j.todo)
  BY DEF Advanced
<1>2. j.op \in Refreshing => <<"directory", "membership">> \in Remaining(j.op)
  BY DEF Remaining, Settling, Refreshing
<1>3. Tail(j.todo) # << >> => Tail(j.todo) \in Remaining(j.op)
  <2> SUFFICES ASSUME NEW op \in Operation, NEW todo \in Remaining(op),
                      Tail(todo) # << >>
               PROVE  Tail(todo) \in Remaining(op)
    BY DEF Jobs
  <2>1. CASE op \in {"approve", "quarantine", "configure", "reconfigure",
                     "activate"}
    BY <2>1, Tails DEF Remaining, Settling
  <2>2. CASE op \in {"revoke", "forget", "promote", "demote"}
    BY <2>2, Tails DEF Remaining, Settling
  <2>3. CASE op \in {"expel", "erase", "roster", "lead"}
    BY <2>3, Tails DEF Remaining, Settling
  <2>4. CASE op = "join"
    BY <2>4, Tails DEF Remaining, Settling
  <2>5. CASE op = "reset"
    BY <2>5, Tails DEF Remaining, Settling
  <2>6. CASE op = "settle"
    BY <2>6, Tails DEF Remaining, Settling
  <2> QED BY <2>1, <2>2, <2>3, <2>4, <2>5, <2>6
          DEF Operation, Leased, Refreshing, Canonical, Pairing
<1> QED BY <1>1, <1>2, <1>3

(* The configuration comes after all relations.                            *)
LEMMA ConfigLast ==
  ASSUME NEW op, NEW todo \in Remaining(op),
         Head(todo) \in {"config", "directory"}
  PROVE  /\ \A x \in Relations : Omits(todo, x)
         /\ \A x \in Relations : Omits(Tail(todo), x)
         /\ Tail(todo) = << >> \/ op \in {"reset", "settle"} \cup Refreshing
         /\ Omits(Tail(todo), "config")
<1>1. \/ todo = <<"config">>
      \/ /\ op \in {"reset", "settle"} \cup Refreshing
         /\ todo \in {<<"config", "directory">>, <<"directory">>,
                      <<"config", "directory", "membership">>,
                      <<"directory", "membership">>}
  <2>1. CASE op \in {"approve", "quarantine", "configure", "reconfigure",
                     "activate"}
    BY <2>1 DEF Remaining, Settling, Refreshing
  <2>2. CASE op \in {"revoke", "forget", "promote", "demote"}
    BY <2>2 DEF Remaining, Settling, Refreshing
  <2>3. CASE op \in {"expel", "erase", "roster", "lead"}
    BY <2>3 DEF Remaining, Settling, Refreshing
  <2>4. CASE op = "join"
    BY <2>4 DEF Remaining, Settling, Refreshing
  <2>5. CASE op = "reset"
    BY <2>5 DEF Remaining, Settling, Refreshing
  <2>6. CASE op = "settle"
    BY <2>6 DEF Remaining, Settling, Refreshing
  <2> QED BY <2>1, <2>2, <2>3, <2>4, <2>5, <2>6 DEF Remaining
<1>2. \A q \in {<<"config">>, <<"config", "directory">>, <<"directory">>,
                 <<"config", "directory", "membership">>,
                 <<"directory", "membership">>, <<"membership">>, << >>} :
        \A x \in Relations : Omits(q, x)
  BY DEF Omits, Relations
<1>3. \A q \in {<<"directory">>, <<"directory", "membership">>,
                 <<"membership">>, << >>} : Omits(q, "config")
  BY DEF Omits
<1> QED BY <1>1, <1>2, <1>3, Tails

(* A store that is no longer to be written was not before, or is written   *)
(* now.                                                                    *)
LEMMA RestOmits ==
  ASSUME JobsInv, CourseInv, NEW t \in Task, Write(t),
         NEW x \in Relations \cup {"config"},
         Omits(Advanced(job[t], Head(job[t].todo)), x)
  PROVE  Omits(job[t].todo, x) \/ Head(job[t].todo) = x
<1> DEFINE j == job[t]
           s == Head(j.todo)
           rest == Advanced(j, s)
<1>1. /\ j \in Jobs /\ j.op # "none" /\ ~j.undo
      /\ j.todo \in Seq(Store) /\ j.todo # << >>
  BY WroteJob
<1>2. j.todo \in Remaining(j.op)
  BY <1>1 DEF CourseInv, OnCourse
<1>3. CASE s = "config"
  BY <1>2, <1>3, ConfigLast
<1>4. CASE s # "config"
  <2>1. rest = Tail(j.todo)
    BY <1>4 DEF Advanced
  <2> QED BY <1>1, <2>1, OmitsAll
<1> QED BY <1>3, <1>4

(* A step of one task leaves the other on its course.                      *)
LEMMA OneOnCourse ==
  ASSUME CourseInv, NEW t \in Task, Others(t), OnCourse(job'[t])
  PROVE  CourseInv'
BY DEF CourseInv, Others, OnCourse

LEMMA ProceedsCourse ==
  ASSUME JobsInv, CourseInv, NEW t \in Task, Proceeds(t)
  PROVE  CourseInv'
<1>0. OnCourse(Idle)
  BY IdleType DEF OnCourse
<1>1. CASE Write(t)
  <2>1. /\ Others(t) /\ job[t] \in Jobs /\ job[t].op # "none"
        /\ job[t].todo \in Remaining(job[t].op)
    BY <1>1, WroteJob DEF CourseInv, OnCourse
  <2>2. OnCourse(job'[t])
    BY <1>0, <1>1, <2>1, WroteJob, Onwards DEF OnCourse, Same
  <2> QED BY <2>1, <2>2, OneOnCourse
<1>2. CASE Refuse(t) \/ Fail(t)
  <2>1. /\ Busy(t) /\ ~job[t].undo /\ \E lost : Abandon(t, lost)
    BY <1>2 DEF Refuse, Fail
  <2>2. /\ Others(t)
        /\ \/ job'[t] = Idle
           \/ /\ Undoing(job[t]) # << >> /\ job'[t].undo
              /\ job'[t].op = job[t].op /\ job'[t].todo = Undoing(job[t])
    BY <2>1, AbandonedJob DEF Same
  <2>3. job[t].op = "join" => Undoing(job[t]) \in {<< >>, <<"membership">>}
    BY DEF Undoing, Changed, Leased, Refreshing, Canonical
  <2> QED BY <1>0, <2>2, <2>3, OneOnCourse DEF OnCourse
<1>3. CASE Restore(t) \/ RestoreFails(t)
  <2>1. /\ Others(t) /\ job[t].undo
        /\ \/ job'[t] = Idle
           \/ /\ Tail(job[t].todo) # << >> /\ job'[t].undo
              /\ job'[t].op = job[t].op
    BY <1>3, RestoredJob, UnrestoredJob DEF Same
  <2>2. job[t].op = "join" => Tail(job[t].todo) = << >>
    BY <2>1, Tails DEF CourseInv, OnCourse
  <2> QED BY <1>0, <2>1, <2>2, OneOnCourse DEF OnCourse
<1> QED BY <1>1, <1>2, <1>3 DEF Proceeds

(* The loop settles, or finds that it need not.                            *)
LEMMA SettledJob ==
  ASSUME JobsInv, Settle
  PROVE  /\ flash' = flash /\ ram' = ram /\ ready' = ready
         /\ recon = "pending" /\ ~Busy("loop") /\ Others("loop")
         /\ outcome' = outcome
         /\ \/ /\ job' = job /\ Related(ram) # {}
               /\ broken' = broken \cup
                    IF job["web"].op = "approve" THEN {"settle"} ELSE {}
            \/ /\ job'["loop"].op = "settle" /\ ~job'["loop"].undo
               /\ job'["loop"].todo = <<"config", "directory", "membership">>
               /\ recon' = recon /\ broken' = broken \cup Across("settle")
<1>1. /\ flash' = flash /\ ram' = ram /\ ready' = ready
      /\ recon = "pending" /\ ~Busy("loop") /\ outcome' = outcome
  BY DEF Settle
<1>2. CASE Related(ram) # {}
  BY <1>1, <1>2 DEF Settle, Others
<1>3. CASE Related(ram) = {}
  <2> DEFINE new == [Idle EXCEPT !.op = "settle",
                       !.todo = <<"config", "directory", "membership">>]
  <2>1. /\ job' = [job EXCEPT !["loop"] = new] /\ job \in [Task -> Jobs]
        /\ "loop" \in Task
        /\ recon' = recon /\ broken' = broken \cup Across("settle")
    BY <1>3, Tasks DEF Settle
  <2>2. /\ new.op = "settle" /\ ~new.undo
        /\ new.todo = <<"config", "directory", "membership">>
    BY DEF Idle
  <2> HIDE DEF new
  <2>3. job'["loop"] = new /\ Others("loop")
    BY <2>1 DEF Others
  <2> QED BY <1>1, <2>1, <2>2, <2>3
<1> QED BY <1>2, <1>3

LEMMA CutJobs ==
  ASSUME PowerCut
  PROVE  /\ \A t \in Task : job'[t] = Idle
         /\ flash' = Repaired(flash) /\ ram' = Repaired(flash)
         /\ ready' = Loaded(flash) /\ recon' = Scheduled(flash)
         /\ \A t \in Task : Busy(t) => job[t].op \in broken'
         /\ broken \subseteq broken' /\ outcome' = "none"
BY DEF PowerCut

LEMMA DeferredJob ==
  ASSUME JobsInv, DeferMembership
  PROVE  /\ job'["web"] = Idle /\ Others("web")
         /\ job["web"].op \in Refreshing /\ ~job["web"].undo
         /\ Head(job["web"].todo) = "membership"
         /\ flash' = flash /\ ram' = ram /\ ready' = ready /\ broken' = broken
         /\ recon' = IF Related(ram) = {} THEN "pending" ELSE "not_required"
         /\ outcome' = "ok"
<1>1. job' = [job EXCEPT !["web"] = Idle] /\ job \in [Task -> Jobs]
      /\ "web" \in Task
  BY Tasks DEF DeferMembership
<1>2. job'["web"] = Idle /\ Others("web")
  BY <1>1 DEF Others
<1> QED BY <1>2 DEF DeferMembership, Concluded, Leased

(* The steps that leave every transaction where it is.                     *)
Idles ==
  \/ OpenWindow \/ CloseWindow \/ UNCHANGED vars
  \/ \E p \in Participant : Stage(p)

LEMMA IdlesNothing ==
  ASSUME Idles
  PROVE  UNCHANGED <<flash, ram, ready, recon, job, outcome, broken>>
BY DEF Idles, OpenWindow, CloseWindow, Stage, vars

LEMMA StepCases ==
  ASSUME [Next]_vars
  PROVE  \/ Operates \/ Settle \/ DeferMembership \/ PowerCut \/ Idles
         \/ \E p \in Node : PullConfiguration(p)
         \/ \E t \in Task : \/ Write(t) \/ Refuse(t) \/ Fail(t)
                            \/ Restore(t) \/ RestoreFails(t)
BY DEF Next, Operates, Idles, Proceeds

LEMMA CourseStep ==
  ASSUME JobsInv, CourseInv, [Next]_vars
  PROVE  CourseInv'
<1>0. OnCourse(Idle) /\ ram \in Disk /\ {"web", "loop"} = Task
  BY IdleType, Tasks DEF OnCourse
<1>1. CASE Operates
  <2>1. PICK t \in Task : \E op, p, arg, steps : Opens(t, op, p, arg, steps)
    BY <1>0, <1>1, OperatesOpens
  <2>2. PICK op, p, arg, steps : Opens(t, op, p, arg, steps)
    BY <2>1
  <2>3. Others(t) /\ OnCourse(job'[t])
    BY <2>2, OpenedJob DEF OnCourse, Opens
  <2> QED BY <2>3, OneOnCourse
<1>2. CASE Settle
  <2>1. <<"config", "directory", "membership">> \in Remaining("settle")
    BY DEF Remaining
  <2>2. job' = job \/ (Others("loop") /\ OnCourse(job'["loop"]))
    BY <1>2, <2>1, SettledJob DEF OnCourse
  <2> QED BY <1>0, <2>2, OneOnCourse DEF CourseInv
<1>3. CASE DeferMembership
  BY <1>0, <1>3, DeferredJob, OneOnCourse
<1>4. CASE PowerCut
  BY <1>0, <1>4, CutJobs DEF CourseInv
<1>5. CASE Idles
  BY <1>5, IdlesNothing DEF CourseInv
<1>6. CASE \E p \in Node : PullConfiguration(p)
  BY <1>6 DEF CourseInv, PullConfiguration
<1>7. CASE \E t \in Task : \/ Write(t) \/ Refuse(t) \/ Fail(t)
                           \/ Restore(t) \/ RestoreFails(t)
  BY <1>7, ProceedsCourse DEF Proceeds
<1> QED BY <1>1, <1>2, <1>3, <1>4, <1>5, <1>6, <1>7, StepCases

-----------------------------------------------------------------------------
(* What is restored                                                        *)

(* No profile and no reset has been left with memory and flash apart.      *)
Undamaged == broken \cap {"erase", "reset"} = {}

(* Flash holds what memory holds, except for what a failed reset has       *)
(* cleared in memory only and a failed FORGET has deleted there.           *)
StoresAgree ==
  /\ \A x \in {"config", "membership"} : flash[x] = ram[x]
  /\ ram.registry = NoMembers \/ flash.registry = ram.registry
  /\ "reset" \notin broken =>
       \A x \in {"registry", "credential"} : flash[x] = ram[x]
  /\ Undamaged => flash["readiness"] = ram["readiness"]

(* What the engine has not changed it has not to restore, and what it has  *)
(* restored is as it was.                                                  *)
SavedHeld ==
  Undamaged /\ Web.op \in Leased =>
    \A x \in Relations :
      /\ ~Web.undo /\ x \notin Web.done => flash[x] = Web.saved[x]
      /\ Web.undo /\ Web.sound /\ Omits(Web.todo, x) =>
           flash[x] = Web.saved[x]

HeldInv == JobsInv /\ CourseInv /\ StoresAgree /\ SavedHeld

LEMMA Fields ==
  \A d : /\ d["registry"] = d.registry /\ d["readiness"] = d.readiness
         /\ d["credential"] = d.credential
         /\ d["membership"] = d.membership /\ d["config"] = d.config
OBVIOUS

(* While the engine is at work no other relation is written.               *)
LEMMA LoopSettles ==
  ASSUME JobsInv, CourseInv, job["web"].op \in Leased
  PROVE  /\ job["loop"].op \in {"settle", "none"}
         /\ Write("loop") => Head(job["loop"].todo) \notin Relations
         /\ ~Restore("loop") /\ ~RestoreFails("loop")
<1>0. "loop" \in Task
  BY Tasks
<1>1. job["loop"].op \in {"settle", "none"}
  BY DEF JobsInv, TasksApart
<1>2. Write("loop") => Head(job["loop"].todo) \notin Relations
  <2> SUFFICES ASSUME Write("loop")
               PROVE  Head(job["loop"].todo) \notin Relations
    OBVIOUS
  <2>1. job["loop"].op # "none" /\ ~job["loop"].undo
    BY <1>0, WroteJob
  <2>2. job["loop"].todo \in Remaining("settle")
    BY <1>0, <1>1, <2>1 DEF CourseInv, OnCourse
  <2> QED BY <2>2 DEF Remaining, Relations
<1>3. "settle" \notin Leased \cup {"join"} /\ "none" \notin Leased \cup {"join"}
  BY DEF Leased, Refreshing, Canonical
<1> QED BY <1>0, <1>1, <1>2, <1>3, RestoredJob, UnrestoredJob

(* A failed write leaves memory as it was, or that one store changed.      *)
LEMMA FailedStores ==
  ASSUME JobsInv, NEW t \in Task, Fail(t)
  PROVE  LET j == job[t]
             s == Head(j.todo)
         IN  /\ flash' = flash
             /\ \/ ram' = ram
                \/ /\ j.op = "reset" /\ s \in Relations /\ "reset" \in broken'
                   /\ ram' = [ram EXCEPT ![s] = NoMembers]
                \/ /\ j.op = "erase" /\ s = "readiness" /\ "erase" \in broken'
                   /\ ram' = [ram EXCEPT !["readiness"] = Target(j, s)]
<1> DEFINE j == job[t]
           s == Head(j.todo)
           changed == IF s = "directory" THEN ram
                      ELSE [ram EXCEPT ![s] = Target(j, s)]
<1>1. PICK after \in AfterFailure(j, s) :
        /\ Abandon(t, IF after = ram THEN {} ELSE {j.op})
        /\ ram' = after
  BY DEF Fail
<1>2. flash' = flash
  BY <1>1 DEF Abandon
<1>3. \/ after = ram
      \/ j.op = "reset" /\ s \in Relations /\ after = changed
      \/ j.op = "erase" /\ s = "readiness" /\ after = changed
  <2>1. AfterFailure(j, s) =
          CASE j.op = "reset" /\ s \in Relations -> {changed}
            [] j.op = "erase" /\ s = "readiness" /\ budget.failures > 1 ->
                 {ram, changed}
            [] OTHER -> {ram}
    BY DEF AfterFailure
  <2> HIDE DEF changed
  <2> QED BY <1>1, <2>1
<1>4. after # ram => j.op \in broken'
  BY <1>1 DEF Abandon
<1>5. j.op = "reset" /\ s \in Relations => Target(j, s) = NoMembers
  <2> HIDE DEF s, j
  <2>1. \A x \in {"registry", "readiness", "credential"} :
          j.op = "reset" => Target(j, x) = NoMembers
    BY DEF Target, Relations
  <2> QED BY <2>1 DEF Relations
<1>6. "directory" \notin Relations /\ "directory" # "readiness"
  BY DEF Relations
<1> HIDE DEF s, j
<1> QED BY <1>1, <1>2, <1>3, <1>4, <1>5, <1>6 DEF s, j

(* A repair concerns the mode of the membership alone.                     *)
LEMMA RepairedStores ==
  \A d \in Disk : /\ Repaired(d) \in Disk
                  /\ \A x \in Relations \cup {"config"} :
                       Repaired(d)[x] = d[x]
                  /\ Repaired(d).membership.site = d.membership.site
                  /\ \/ Repaired(d) = d
                     \/ d.config.owner \in Node
BY RepairedType DEF Repaired, Disk, Relations, Membership

LEMMA RepairedAlike ==
  ASSUME NEW d \in Disk, NEW e \in Disk, d.registry = e.registry,
         d.membership = e.membership, d.config = e.config
  PROVE  Repaired(d).membership = Repaired(e).membership
BY DEF Repaired, Disk, Membership, Related, SameSite

(* A roster that is pulled changes no relation, and flash as it changes    *)
(* memory.                                                                 *)
LEMMA PulledStores ==
  ASSUME JobsInv, StoresAgree, NEW p \in Node, PullConfiguration(p)
  PROVE  /\ \A x \in Relations : flash'[x] = flash[x] /\ ram'[x] = ram[x]
         /\ \A x \in {"config", "membership"} : flash'[x] = ram'[x]
         /\ ram'.membership.site = ram.membership.site
         /\ ram'.config.site = ram.membership.site
         /\ ram'.config.owner = p
         /\ ram.config.owner = Unresolved
         /\ p \in Participant /\ ram.registry[p] = "quarantined"
         /\ UNCHANGED <<ready, recon, job, outcome, broken>>
<1>1. /\ EnrollmentSource(p) /\ p \in Participant
      /\ UNCHANGED <<ready, recon, job, outcome, broken>>
  BY DEF PullConfiguration, Participant
<1>2. PICK config \in Configuration :
        /\ config.site = ram.membership.site /\ config.owner = p
        /\ flash' = Repaired([flash EXCEPT !.config = config])
        /\ ram' = Repaired([ram EXCEPT !.config = config])
  <2>1. PICK others \in SUBSET (Node \ {p}) :
          LET config == [site |-> ram.membership.site, owner |-> p,
                         member |-> [q \in Participant |->
                           IF q = p THEN "eligible"
                           ELSE IF q \in others THEN "active" ELSE "none"]]
          IN  /\ flash' = Repaired([flash EXCEPT !.config = config])
              /\ ram' = Repaired([ram EXCEPT !.config = config])
    BY DEF PullConfiguration
  <2> DEFINE member == [q \in Participant |->
                          IF q = p THEN "eligible"
                          ELSE IF q \in others THEN "active" ELSE "none"]
             config == [site |-> ram.membership.site, owner |-> p,
                        member |-> member]
  <2>2. member \in [Participant -> Standing] /\ ram.membership.site \in Site
    BY Tasks DEF Standing, Disk, Membership
  <2>3. /\ config \in Configuration
        /\ config.site = ram.membership.site /\ config.owner = p
    <3> HIDE DEF member
    <3> QED BY <2>2 DEF Configuration
  <2>4. /\ flash' = Repaired([flash EXCEPT !.config = config])
        /\ ram' = Repaired([ram EXCEPT !.config = config])
    BY <2>1
  <2> HIDE DEF config
  <2> QED BY <2>3, <2>4
<1>3. /\ SameSite(ram) /\ ram.config.owner = Unresolved
      /\ ram.registry[p] = "quarantined"
  BY <1>1 DEF EnrollmentSource
<1>4. flash \in Disk /\ ram \in Disk
  BY Tasks
<1>5. flash.registry = ram.registry
  <2>1. NoMembers[p] = "none"
    BY <1>1 DEF NoMembers, Cleared
  <2> QED BY <1>3, <2>1 DEF StoresAgree
<1> DEFINE f == [flash EXCEPT !.config = config]
           r == [ram EXCEPT !.config = config]
<1>6. /\ f \in Disk /\ r \in Disk
      /\ f.registry = flash.registry /\ r.registry = ram.registry
      /\ f.readiness = flash.readiness /\ r.readiness = ram.readiness
      /\ f.credential = flash.credential /\ r.credential = ram.credential
      /\ f.membership = flash.membership /\ r.membership = ram.membership
      /\ f.config = config /\ r.config = config
  BY <1>4 DEF Disk
<1>7. flash' = Repaired(f) /\ ram' = Repaired(r)
  BY <1>2
<1>8. flash.membership = ram.membership
  BY Fields DEF StoresAgree
<1> HIDE DEF f, r
<1>9. \A x \in Relations : flash'[x] = flash[x] /\ ram'[x] = ram[x]
  <2>1. \A x \in {"registry", "readiness", "credential"} :
          f[x] = flash[x] /\ r[x] = ram[x]
    BY <1>6, Fields
  <2> QED BY <1>6, <1>7, <2>1, RepairedStores DEF Relations
<1>10. flash'["config"] = config /\ ram'["config"] = config
  BY <1>6, <1>7, RepairedStores, Fields
<1>11. /\ flash'["membership"] = ram'["membership"]
       /\ ram'.membership.site = ram.membership.site
  <2>1. Repaired(f).membership = Repaired(r).membership
    BY <1>5, <1>6, <1>8, RepairedAlike
  <2> QED BY <1>6, <1>7, <2>1, RepairedStores, Fields
<1> QED BY <1>1, <1>2, <1>3, <1>9, <1>10, <1>11, Fields

(* Each store is left, or has the same content in both places.             *)
LEMMA AgreeStores ==
  ASSUME StoresAgree, broken \subseteq broken',
         \A x \in Store \ {"directory"} :
           \/ flash'[x] = flash[x] /\ ram'[x] = ram[x]
           \/ flash'[x] = ram'[x]
  PROVE  StoresAgree'
<1>1. {"config", "membership", "registry", "credential", "readiness"}
        = Store \ {"directory"}
  BY DEF Store, Relations
<1>2. \A x \in {"config", "membership"} : flash'[x] = ram'[x]
  BY <1>1 DEF StoresAgree
<1>3. ram'.registry = NoMembers \/ flash'.registry = ram'.registry
  BY <1>1, Fields DEF StoresAgree
<1>4. "reset" \notin broken' =>
        \A x \in {"registry", "credential"} : flash'[x] = ram'[x]
  BY <1>1 DEF StoresAgree
<1>5. Undamaged' => flash'["readiness"] = ram'["readiness"]
  BY <1>1 DEF StoresAgree, Undamaged
<1> QED BY <1>2, <1>3, <1>4, <1>5 DEF StoresAgree

LEMMA FailAgree ==
  ASSUME JobsInv, StoresAgree, NEW t \in Task, Fail(t)
  PROVE  StoresAgree'
<1> DEFINE j == job[t]
           s == Head(j.todo)
<1>1. broken \subseteq broken'
  BY DEF Fail, Abandon
<1>2. /\ flash' = flash
      /\ \/ ram' = ram
         \/ /\ j.op = "reset" /\ s \in Relations /\ "reset" \in broken'
            /\ ram' = [ram EXCEPT ![s] = NoMembers]
         \/ /\ j.op = "erase" /\ s = "readiness" /\ "erase" \in broken'
            /\ ram' = [ram EXCEPT !["readiness"] = Target(j, s)]
  BY FailedStores
<1>3. CASE ram' = ram
  BY <1>1, <1>2, <1>3, AgreeStores
<1> HIDE DEF s, j
<1>4. ram \in Disk
  BY Tasks
<1>5. CASE /\ s \in Relations /\ "reset" \in broken'
           /\ ram' = [ram EXCEPT ![s] = NoMembers]
  <2>1. /\ ram'["config"] = ram["config"]
        /\ ram'["membership"] = ram["membership"]
        /\ ram'.registry \in {ram.registry, NoMembers}
    BY <1>4, <1>5 DEF Disk, Relations
  <2> QED BY <1>2, <1>5, <2>1 DEF StoresAgree, Undamaged
<1>6. CASE \E v : /\ "erase" \in broken'
                  /\ ram' = [ram EXCEPT !["readiness"] = v]
  <2>1. /\ ram'["config"] = ram["config"]
        /\ ram'["membership"] = ram["membership"]
        /\ ram'["registry"] = ram["registry"]
        /\ ram'["credential"] = ram["credential"]
    BY <1>4, <1>6 DEF Disk
  <2>2. ram'.registry = ram.registry
    BY <2>1, Fields
  <2> QED BY <1>1, <1>2, <1>6, <2>1, <2>2 DEF StoresAgree, Undamaged
<1> QED BY <1>2, <1>3, <1>5, <1>6

LEMMA AgreeStep ==
  ASSUME JobsInv, StoresAgree, [Next]_vars
  PROVE  StoresAgree'
<1>0. broken \subseteq broken' /\ ram \in Disk
  BY BrokenGrows, Tasks
<1>1. ASSUME flash' = flash, ram' = ram PROVE StoresAgree'
  BY <1>0, <1>1, AgreeStores
<1>2. CASE Operates
  <2>1. PICK t \in Task : \E op, p, arg, steps : Opens(t, op, p, arg, steps)
    BY <1>0, <1>2, OperatesOpens
  <2> QED BY <1>1, <2>1, OpenedJob
<1>3. CASE Settle
  BY <1>1, <1>3, SettledJob
<1>4. CASE DeferMembership
  BY <1>1, <1>4, DeferredJob
<1>5. CASE PowerCut
  <2>1. flash' = ram'
    BY <1>5, CutJobs
  <2> QED BY <1>0, <2>1, AgreeStores
<1>6. CASE Idles
  BY <1>1, <1>6, IdlesNothing
<1>7. ASSUME NEW p \in Node, PullConfiguration(p) PROVE StoresAgree'
  <2>1. /\ \A x \in Relations : flash'[x] = flash[x] /\ ram'[x] = ram[x]
        /\ \A x \in {"config", "membership"} : flash'[x] = ram'[x]
    BY <1>7, PulledStores
  <2> QED BY <1>0, <2>1, AgreeStores DEF Store
<1>8. ASSUME NEW t \in Task, Write(t) PROVE StoresAgree'
  <2>1. \A x \in Store \ {"directory"} :
          \/ flash'[x] = flash[x] /\ ram'[x] = ram[x]
          \/ flash'[x] = ram'[x]
    BY <1>8, WroteStores
  <2> QED BY <1>0, <2>1, AgreeStores
<1>9. ASSUME NEW t \in Task, Refuse(t) PROVE StoresAgree'
  BY <1>1, <1>9 DEF Refuse, Abandon
<1>10. ASSUME NEW t \in Task, Restore(t) PROVE StoresAgree'
  <2>1. \A x \in Store \ {"directory"} :
          \/ flash'[x] = flash[x] /\ ram'[x] = ram[x]
          \/ flash'[x] = ram'[x]
    BY <1>10, RestoredJob
  <2> QED BY <1>0, <2>1, AgreeStores
<1>11. ASSUME NEW t \in Task, RestoreFails(t) PROVE StoresAgree'
  BY <1>1, <1>11, UnrestoredJob
<1> QED BY <1>2, <1>3, <1>4, <1>5, <1>6, <1>7, <1>8, <1>9, <1>10, <1>11,
           FailAgree, StepCases

(* What the engine undoes is what it has changed.                          *)
LEMMA JoinedOmits ==
  ASSUME NEW S, NEW a \in Seq(S), NEW b \in Seq(S), NEW x, Omits(a \o b, x)
  PROVE  Omits(a, x) /\ Omits(b, x) /\ a \o b \in Seq(S)
<1>1. /\ a \o b \in Seq(S) /\ Len(a \o b) = Len(a) + Len(b)
      /\ Len(a) \in Nat /\ Len(b) \in Nat
  OBVIOUS
<1>2. \A i \in 1..Len(a) : i \in 1..Len(a \o b) /\ (a \o b)[i] = a[i]
  OBVIOUS
<1>3. \A i \in 1..Len(b) : /\ Len(a) + i \in 1..Len(a \o b)
                           /\ (a \o b)[Len(a) + i] = b[i]
  OBVIOUS
<1> QED BY <1>1, <1>2, <1>3 DEF Omits

LEMMA UndoingOmits ==
  ASSUME NEW j, j.op \in Leased, NEW x \in Relations, Omits(Undoing(j), x)
  PROVE  x \notin j.done
<1> DEFINE S == {"readiness", "credential", "registry"}
           a == Changed(j, "readiness")
           b == ChangedCredential(j)
           c == Changed(j, "registry")
<1>1. \A s \in S : /\ Changed(j, s) \in Seq(S)
                   /\ s \in j.done => ~Omits(Changed(j, s), s)
  <2> SUFFICES ASSUME NEW s \in S
               PROVE  /\ Changed(j, s) \in Seq(S)
                      /\ s \in j.done => ~Omits(Changed(j, s), s)
    OBVIOUS
  <2>1. <<s>> \in Seq(S) /\ << >> \in Seq(S) /\ ~Omits(<<s>>, s)
    BY DEF Omits
  <2> QED BY <2>1 DEF Changed
<1>2. Undoing(j) = (a \o b) \o c
  BY DEF Undoing
<1>7. b \in Seq(S) /\ ("credential" \in j.done => ~Omits(b, "credential"))
  <2>1. /\ <<"credential">> \in Seq(S) /\ << >> \in Seq(S)
        /\ ~Omits(<<"credential">>, "credential")
    BY DEF Omits
  <2> QED BY <2>1, CredentialBack
<1>3. a \in Seq(S) /\ b \in Seq(S) /\ c \in Seq(S)
  BY <1>1, <1>7
<1> HIDE DEF a, b, c, S
<1>4. a \o b \in Seq(S)
  BY <1>3
<1>5. Omits(a \o b, x) /\ Omits(c, x)
  BY <1>2, <1>3, <1>4, JoinedOmits
<1>6. Omits(a, x) /\ Omits(b, x)
  BY <1>3, <1>5, JoinedOmits
<1>8. x \in S
  BY DEF S, Relations
<1> QED
  <2>1. CASE x = "credential"
    BY <1>6, <1>7, <2>1
  <2>2. CASE x # "credential"
    BY <1>1, <1>5, <1>6, <1>8, <2>2 DEF S, a, c
  <2> QED BY <2>1, <2>2

LEMMA WriteHeld ==
  ASSUME HeldInv, NEW t \in Task, Write(t)
  PROVE  SavedHeld'
<1>0. JobsInv /\ {"web", "loop"} = Task /\ broken' = broken
  BY Tasks, WroteJob DEF HeldInv
<1> SUFFICES ASSUME Undamaged', Web'.op \in Leased, NEW x \in Relations
             PROVE  /\ ~Web'.undo /\ x \notin Web'.done =>
                         flash'[x] = Web'.saved[x]
                    /\ Web'.undo /\ Web'.sound /\ Omits(Web'.todo, x) =>
                         flash'[x] = Web'.saved[x]
  BY DEF SavedHeld
<1>1. Undamaged /\ x \in Store \ {"directory"}
  BY <1>0 DEF Undamaged, Relations, Store
<1>2. CASE t = "web"
  <2>1. /\ Same(Web', Web) /\ ~Web.undo /\ ~Web'.undo
        /\ Web'.done = Web.done \cup IF Skips(Web, Head(Web.todo)) THEN {}
                                     ELSE {Head(Web.todo)}
    BY <1>0, <1>2, WroteJob, IdleType, Tasks DEF Web
  <2>2. x \notin Web.done => flash[x] = Web.saved[x]
    BY <1>1, <2>1 DEF HeldInv, SavedHeld, Same
  <2>3. x # Head(Web.todo) => flash'[x] = flash[x]
    BY <1>0, <1>1, <1>2, WroteStores DEF Web
  <2>4. x = Head(Web.todo) /\ Skips(Web, x) => flash'[x] = flash[x]
    BY <1>0, <1>1, <1>2, WroteStores DEF Web
  <2> QED BY <2>1, <2>2, <2>3, <2>4 DEF Same
<1>3. CASE t = "loop"
  <2>1. Web' = Web
    BY <1>0, <1>3, WroteJob DEF Web, Others
  <2>2. Head(job["loop"].todo) \notin Relations
    BY <1>3, <2>1, LoopSettles DEF HeldInv, Web
  <2>3. flash'[x] = flash[x]
    BY <1>0, <1>1, <1>3, <2>2, WroteStores
  <2> QED BY <1>1, <2>1, <2>3 DEF HeldInv, SavedHeld
<1> QED BY <1>0, <1>2, <1>3

LEMMA FailHeld ==
  ASSUME HeldInv, NEW t \in Task, Refuse(t) \/ Fail(t)
  PROVE  SavedHeld'
<1>0. JobsInv /\ {"web", "loop"} = Task /\ broken \subseteq broken'
      /\ flash' = flash /\ Busy(t) /\ ~job[t].undo
      /\ \E lost : Abandon(t, lost)
  BY Tasks DEF HeldInv, Refuse, Fail, Abandon
<1> SUFFICES ASSUME Undamaged', Web'.op \in Leased, NEW x \in Relations
             PROVE  /\ ~Web'.undo /\ x \notin Web'.done =>
                         flash'[x] = Web'.saved[x]
                    /\ Web'.undo /\ Web'.sound /\ Omits(Web'.todo, x) =>
                         flash'[x] = Web'.saved[x]
  BY DEF SavedHeld
<1>1. Undamaged
  BY <1>0 DEF Undamaged
<1>2. CASE t = "web"
  <2>1. /\ Same(Web', Web) /\ ~Web.undo /\ Web'.undo
        /\ Web'.todo = Undoing(Web)
    BY <1>0, <1>2, AbandonedJob, IdleType, Tasks DEF Web
  <2>2. x \notin Web.done => flash[x] = Web.saved[x]
    BY <1>1, <2>1 DEF HeldInv, SavedHeld, Same
  <2>3. Omits(Web'.todo, x) => x \notin Web.done
    BY <2>1, UndoingOmits DEF Same
  <2> QED BY <1>0, <2>1, <2>2, <2>3 DEF Same
<1>3. CASE t = "loop"
  <2>1. Web' = Web
    BY <1>0, <1>3, AbandonedJob DEF Web, Others
  <2> QED BY <1>0, <1>1, <2>1 DEF HeldInv, SavedHeld
<1> QED BY <1>0, <1>2, <1>3

LEMMA RestoreHeld ==
  ASSUME HeldInv, NEW t \in Task, Restore(t) \/ RestoreFails(t)
  PROVE  SavedHeld'
<1>0. JobsInv /\ {"web", "loop"} = Task /\ broken \subseteq broken'
  BY Tasks DEF HeldInv, Restore, RestoreFails, Ended
<1> SUFFICES ASSUME Undamaged', Web'.op \in Leased, NEW x \in Relations
             PROVE  /\ ~Web'.undo /\ x \notin Web'.done =>
                         flash'[x] = Web'.saved[x]
                    /\ Web'.undo /\ Web'.sound /\ Omits(Web'.todo, x) =>
                         flash'[x] = Web'.saved[x]
  BY DEF SavedHeld
<1>1. Undamaged /\ x \in Store \ {"directory"}
  BY <1>0 DEF Undamaged, Relations, Store
<1>2. CASE t = "web" /\ Restore(t)
  <2>1. /\ Same(Web', Web) /\ Web.undo /\ Web'.undo
        /\ Web'.todo = Tail(Web.todo) /\ Web'.sound = Web.sound
        /\ Web.todo \in Seq(Store) /\ Web.todo # << >>
    BY <1>0, <1>2, RestoredJob, IdleType, Tasks DEF Web
  <2>2. x = Head(Web.todo) => flash'[x] = Web.saved[x]
    BY <1>0, <1>1, <1>2, RestoredJob DEF Web
  <2>3. x # Head(Web.todo) => flash'[x] = flash[x]
    BY <1>0, <1>1, <1>2, RestoredJob DEF Web
  <2>4. x # Head(Web.todo) /\ Omits(Web'.todo, x) => Omits(Web.todo, x)
    BY <2>1, OmitsAll
  <2>5. Web.sound /\ Omits(Web.todo, x) => flash[x] = Web.saved[x]
    BY <1>1, <2>1 DEF HeldInv, SavedHeld, Same
  <2> QED BY <2>1, <2>2, <2>3, <2>4, <2>5 DEF Same
<1>3. CASE t = "web" /\ RestoreFails(t)
  <2>1. Web'.undo /\ ~Web'.sound
    BY <1>0, <1>3, UnrestoredJob, IdleType, Tasks DEF Web
  <2> QED BY <2>1
<1>4. CASE t = "loop"
  <2>1. Web' = Web
    BY <1>0, <1>4, RestoredJob, UnrestoredJob DEF Web, Others
  <2> QED BY <1>4, <2>1, LoopSettles DEF HeldInv, Web
<1> QED BY <1>0, <1>2, <1>3, <1>4

LEMMA HeldStep ==
  ASSUME HeldInv, [Next]_vars
  PROVE  HeldInv'
<1>0. JobsInv' /\ CourseInv' /\ StoresAgree'
  BY JobsStep, CourseStep, AgreeStep DEF HeldInv
<1> SUFFICES SavedHeld'
  BY <1>0 DEF HeldInv
<1>1. broken \subseteq broken' /\ ram \in Disk /\ JobsInv
      /\ "none" \notin Leased
  BY BrokenGrows, Tasks DEF HeldInv
<1>2. Undamaged' => Undamaged
  BY <1>1 DEF Undamaged
<1>3. ASSUME Web' = Web, \A x \in Relations : flash'[x] = flash[x]
      PROVE  SavedHeld'
  BY <1>2, <1>3 DEF HeldInv, SavedHeld
<1>4. ASSUME Web'.op \notin Leased PROVE SavedHeld'
  BY <1>4 DEF SavedHeld
<1>5. CASE Operates
  <2>1. PICK t \in Task : \E op, p, arg, steps : Opens(t, op, p, arg, steps)
    BY <1>1, <1>5, OperatesOpens
  <2>2. PICK op, p, arg, steps : Opens(t, op, p, arg, steps)
    BY <2>1
  <2>3. CASE t = "loop"
    <3>1. Web' = Web /\ flash' = flash
      BY <1>1, <2>2, <2>3, OpenedJob, Tasks DEF Web, Others
    <3> QED BY <1>3, <3>1
  <2>4. CASE t = "web" /\ op \in Leased
    <3>1. /\ flash' = flash /\ Web'.done = {} /\ ~Web'.undo
          /\ Web'.saved.registry = ram.registry
          /\ Web'.saved.readiness = ram.readiness
          /\ Web'.saved.credential = ram.credential
      BY <1>1, <2>2, <2>4, OpenedJob, Tasks DEF Web
    <3>2. Undamaged => \A x \in Relations : flash[x] = ram[x]
      BY DEF HeldInv, StoresAgree, Undamaged, Relations
    <3>3. \A x \in Relations : Web'.saved[x] = ram[x]
      BY <3>1, Fields DEF Relations
    <3> QED BY <1>2, <3>1, <3>2, <3>3 DEF SavedHeld
  <2>5. CASE t = "web" /\ op \notin Leased
    BY <1>1, <1>4, <2>2, <2>5, OpenedJob DEF Web
  <2> QED BY <1>1, <2>3, <2>4, <2>5, Tasks
<1>6. CASE Settle
  <2>1. Web' = Web /\ flash' = flash
    BY <1>1, <1>6, SettledJob, Tasks DEF Web, Others
  <2> QED BY <1>3, <2>1
<1>7. CASE DeferMembership
  BY <1>1, <1>4, <1>7, DeferredJob, IdleType DEF Web
<1>8. CASE PowerCut
  BY <1>1, <1>4, <1>8, CutJobs, IdleType, Tasks DEF Web
<1>9. CASE Idles
  BY <1>3, <1>9, IdlesNothing DEF Web
<1>10. ASSUME NEW p \in Node, PullConfiguration(p) PROVE SavedHeld'
  BY <1>3, <1>10, PulledStores DEF HeldInv, Web
<1> QED BY <1>5, <1>6, <1>7, <1>8, <1>9, <1>10, StepCases, WriteHeld,
           FailHeld, RestoreHeld

LEMMA HeldInit == Init => HeldInv
<1> SUFFICES ASSUME Init PROVE HeldInv
  OBVIOUS
<1>1. JobsInv /\ flash = ram /\ \A t \in Task : job[t] = Idle
  BY ProfileInit DEF ProfileInv, Init
<1>2. CourseInv /\ StoresAgree
  BY <1>1, IdleType DEF CourseInv, OnCourse, StoresAgree
<1>3. SavedHeld
  BY <1>1, IdleType, Tasks DEF SavedHeld, Web
<1> QED BY <1>1, <1>2, <1>3 DEF HeldInv

(* What an operation that ends without success has left.                   *)
LEMMA Returned ==
  ASSUME HeldInv, Web.op \in Leased, Undamaged, NEW x \in Relations,
         \/ (Refuse("web") \/ Fail("web")) /\ Undoing(Web) = << >>
         \/ Restore("web") /\ Tail(Web.todo) = << >> /\ Web.sound
  PROVE  flash'[x] = Web.saved[x]
<1>0. JobsInv /\ "web" \in Task /\ x \in Store \ {"directory"}
  BY Tasks DEF HeldInv, Relations, Store
<1>1. Omits(<< >>, x)
  BY DEF Omits
<1>2. CASE (Refuse("web") \/ Fail("web")) /\ Undoing(Web) = << >>
  <2>1. flash' = flash /\ ~Web.undo
    BY <1>2 DEF Refuse, Fail, Abandon, Web
  <2>2. x \notin Web.done
    BY <1>1, <1>2, UndoingOmits
  <2> QED BY <2>1, <2>2 DEF HeldInv, SavedHeld
<1>3. CASE Restore("web") /\ Tail(Web.todo) = << >> /\ Web.sound
  <2>1. Web.undo /\ Web.todo \in Seq(Store) /\ Web.todo # << >>
    BY <1>0, <1>3, RestoredJob DEF Web
  <2>2. x = Head(Web.todo) => flash'[x] = Web.saved[x]
    BY <1>0, <1>3, RestoredJob DEF Web
  <2>3. x # Head(Web.todo) => flash'[x] = flash[x]
    BY <1>0, <1>3, RestoredJob DEF Web
  <2>4. x # Head(Web.todo) => Omits(Web.todo, x)
    BY <1>1, <1>3, <2>1, OmitsAll
  <2> QED BY <1>3, <2>1, <2>2, <2>3, <2>4 DEF HeldInv, SavedHeld
<1> QED BY <1>2, <1>3

(* An operation that is reported as refused has nothing left to restore.   *)
LEMMA RefusedStep ==
  ASSUME HeldInv, [Next]_vars, Busy("web"), outcome' = "refused",
         outcome # "refused", Undamaged, NEW x \in Relations
  PROVE  flash'[x] = Web.saved[x]
<1>0. JobsInv /\ ram \in Disk /\ {"web", "loop"} = Task
  BY Tasks DEF HeldInv
<1>2. \A t, op, p, arg, steps : ~Opens(t, op, p, arg, steps)
  BY DEF Opens, Begin
<1>3. ~Operates
  BY <1>0, <1>2, OperatesOpens
<1>4. /\ ~Settle /\ ~DeferMembership /\ ~PowerCut /\ ~Idles
      /\ \A p \in Node : ~PullConfiguration(p)
  BY <1>0, DeferredJob, IdlesNothing DEF Settle, PowerCut, PullConfiguration
<1>5. \A t \in Task : ~Write(t) /\ ~RestoreFails(t)
  BY <1>0, WroteJob, UnrestoredJob DEF Concluded
<1>6. PICK t \in Task : Refuse(t) \/ Fail(t) \/ Restore(t)
  BY <1>3, <1>4, <1>5, StepCases
<1>7. t = "web" /\ Web.op \in Leased
  <2>1. job[t].op \in Leased
    BY <1>0, <1>6, RestoredJob DEF Refuse, Fail, Abandon, Concluded
  <2> QED BY <1>0, <2>1
          DEF JobsInv, TasksApart, Web, Pairing, Leased, Refreshing, Canonical
<1>8. CASE Refuse(t) \/ Fail(t)
  <2>1. Undoing(Web) = << >>
    BY <1>7, <1>8 DEF Refuse, Fail, Abandon, Web
  <2> QED BY <1>7, <1>8, <2>1, Returned
<1>9. CASE Restore(t)
  <2>1. Tail(Web.todo) = << >> /\ Web.sound
    BY <1>0, <1>7, <1>9, RestoredJob DEF Web, Concluded
  <2> QED BY <1>7, <1>9, <2>1, Returned
<1> QED BY <1>6, <1>8, <1>9

(* RefusedRestores holds for any numbers of participants and Sites: what   *)
(* an operation that is reported as refused had written to registry,       *)
(* profiles and credentials has been restored on flash.                    *)
THEOREM RefusedRestored == Spec => RefusedRestores
<1> DEFINE A == LET j == job["web"] IN
             Busy("web") /\ outcome' = "refused" /\ outcome # "refused"
               /\ broken \cap {"erase", "reset"} = {} =>
               \A s \in Relations : flash'[s] = j.saved[s]
<1>1. HeldInv /\ [Next]_vars => HeldInv'
  BY HeldStep
<1>2. HeldInv /\ [Next]_vars => A
  BY RefusedStep DEF Undamaged, Web
<1>3. HeldInv /\ [Next]_vars => [A]_vars
  BY <1>2
<1> QED BY <1>1, <1>3, HeldInit, PTL DEF Spec, RefusedRestores

-----------------------------------------------------------------------------
(* The roster follows                                                      *)

(* The record of its participant, once a transaction has written it or if  *)
(* it never does.                                                          *)
Recorded(j, r) ==
  /\ Omits(j.todo, "registry") =>
       /\ j.op \in {"approve", "configure", "quarantine"} \cup Pairing =>
            r[j.who] = "quarantined"
       /\ j.op = "activate" => r[j.who] = "active"
       /\ j.op = "revoke" => r[j.who] = "revoked"
  /\ j.op = "reconfigure" => r[j.who] \in Active
  /\ j.op = "expel" => r[j.who] = "none"

(* A refresh that goes on to the membership has left a roster of its own   *)
(* without relationships.                                                  *)
Alone(d) == OwnedHere(d) /\ SameSite(d) /\ Related(d) = {}
Emptied(j, d) ==
  j.op \in Refreshing /\ j.todo \in Settling =>
    /\ Alone(d)
    /\ j.op # "forget" => d.config.member[j.who] = "none"

Works(j, ops) == j.op \in ops /\ ~j.undo

WebRecorded ==
  Works(Web, Leased) => /\ Web.who \in Participant
                        /\ Recorded(Web, ram.registry) /\ Emptied(Web, ram)
LoopRecorded ==
  Works(Loop, Pairing) /\ "reset" \notin broken =>
    Loop.who \in Participant /\ Recorded(Loop, ram.registry)

RecordInv == HeldInv /\ ProfileInv /\ WebRecorded /\ LoopRecorded

LEMMA Registered ==
  ASSUME JobsInv, CourseInv, NEW t \in Task, Write(t),
         job[t].op \in Leased \cup Pairing, job[t].who \in Participant,
         Recorded(job[t], ram.registry), job'[t] # Idle
  PROVE  Recorded(job'[t], ram'.registry)
<1> DEFINE j == job[t]
           k == job'[t]
           s == Head(j.todo)
<1>1. /\ Same(k, j) /\ k.todo = Advanced(j, s) /\ j \in Jobs /\ s \in Store
      /\ j.todo \in Seq(Store) /\ j.todo # << >> /\ ~j.undo
  BY WroteJob
<1>2. Omits(k.todo, "registry") => Omits(j.todo, "registry") \/ s = "registry"
  BY <1>1, RestOmits DEF Relations
<1>3. /\ s # "registry" => ram'["registry"] = ram["registry"]
      /\ s = "registry" => ram'["registry"] = Target(j, "registry")
  BY WroteStores DEF Store, Relations
<1>4. CASE s # "registry"
  <2>1. ram'.registry = ram.registry
    BY <1>3, <1>4, Fields
  <2> QED BY <1>1, <1>2, <1>4, <2>1 DEF Recorded, Same
<1>5. CASE s = "registry"
  <2>1. ram'.registry = [ram.registry EXCEPT ![j.who] = RegistryTarget(j)]
    <3>1. j.op # "reset"
      BY DEF Leased, Refreshing, Canonical, Pairing
    <3>2. Target(j, "registry")
            = [ram.registry EXCEPT ![j.who] = RegistryTarget(j)]
      BY <3>1 DEF Target
    <3> QED BY <1>3, <1>5, <3>2, Fields
  <2>2. ram'.registry[j.who] = RegistryTarget(j)
    BY <2>1, Tasks DEF Disk
  <2>3. j.op \notin {"reconfigure", "expel"}
    <3>1. JobSound(j)
      BY DEF JobsInv
    <3> QED BY <1>1, <1>5, <3>1, OmitsTail DEF JobSound, Unregistered
  <2>4. /\ j.op \in {"approve", "configure", "quarantine"} \cup Pairing =>
             RegistryTarget(j) = "quarantined"
        /\ j.op = "activate" => RegistryTarget(j) = "active"
        /\ j.op = "revoke" => RegistryTarget(j) = "revoked"
    BY DEF RegistryTarget, Pairing
  <2> QED BY <1>1, <2>2, <2>3, <2>4 DEF Recorded, Same
<1> QED BY <1>4, <1>5

(* The configuration of a device without relationships.                    *)
LEMMA StandaloneAlone ==
  ASSUME NEW d \in Disk, NEW e \in Disk, Related(d) = {},
         e.config = StandaloneConfiguration(d), e.registry = d.registry,
         e.membership.site = d.membership.site
  PROVE  /\ Alone(e)
         /\ \A p \in Participant :
              \/ d.config.member[p] = "none" \/ d.registry[p] = "revoked" =>
                   e.config.member[p] = "none"
<1>1. Related(e) = {}
  BY DEF Related
<1>2. CASE Standalone(d)
  BY <1>1, <1>2 DEF StandaloneConfiguration, Standalone, Alone, OwnedHere,
     SameSite, NoMembers, Cleared
<1>3. CASE ~Standalone(d) /\ ~SameSite(d)
  BY <1>1, <1>3 DEF StandaloneConfiguration, Created, Alone, OwnedHere,
     SameSite, NoMembers, Cleared
<1>4. CASE ~Standalone(d) /\ SameSite(d)
  <2>1. e.config = OwnedRoster(d)
    BY <1>4 DEF StandaloneConfiguration
  <2>2. \A p \in Participant : d.registry[p] \in {"none", "revoked"}
    BY DEF Related, Gone
  <2> QED BY <1>1, <1>4, <2>1, <2>2 DEF OwnedRoster, Alone, OwnedHere, SameSite
<1> QED BY <1>2, <1>3, <1>4

LEMMA RefreshCourse ==
  ASSUME NEW op \in Refreshing, NEW todo \in Seq(Store),
         todo \in Remaining(op)
  PROVE  \/ todo = <<"config">>
         \/ todo = <<"directory", "membership">>
         \/ todo = <<"membership">>
         \/ Head(todo) \in Relations /\ Tail(todo) \notin Settling \cup {<< >>}
<1> DEFINE Last(q) == q \in {<<"config">>, <<"directory", "membership">>,
                             <<"membership">>}
           Early(q) == Head(q) \in Relations /\ Len(q) > 1
                         /\ q[2] \in Relations \cup {"config"}
<1>0. /\ Early(<<"registry", "config">>)
      /\ Early(<<"readiness", "config">>)
      /\ Early(<<"credential", "config">>)
      /\ Early(<<"registry", "readiness", "config">>)
      /\ Early(<<"credential", "registry", "config">>)
      /\ Early(<<"registry", "credential", "config">>)
      /\ Early(<<"readiness", "registry", "credential", "config">>)
      /\ Last(<<"config">>) /\ Last(<<"directory", "membership">>)
      /\ Last(<<"membership">>)
  BY DEF Relations
<1>1. ASSUME Early(todo)
      PROVE  Tail(todo) \notin Settling \cup {<< >>}
  <2>1. Len(Tail(todo)) > 0 /\ Tail(todo)[1] \in Relations \cup {"config"}
    BY <1>1
  <2>2. \A q \in Settling : q[1] \notin Relations \cup {"config"}
    BY DEF Settling, Relations
  <2>3. Tail(todo) # << >>
    <3>1. Len(<< >>) = 0 /\ ~(0 > 0)
      OBVIOUS
    <3> QED BY <2>1, <3>1, Zenon
  <2> QED BY <2>1, <2>2, <2>3
<1> HIDE DEF Early
<1>2. Last(todo) \/ Early(todo)
  <2>1. CASE op \in {"approve", "quarantine", "configure", "reconfigure"}
    BY <1>0, <2>1 DEF Remaining, Settling
  <2>2. CASE op \in {"activate", "revoke", "forget"}
    BY <1>0, <2>2 DEF Remaining, Settling
  <2> QED BY <2>1, <2>2 DEF Refreshing
<1> QED BY <1>1, <1>2 DEF Early

(* A configuration that is written is the same on flash and in memory.     *)
LEMMA ConfigWritten ==
  ASSUME JobsInv, StoresAgree, NEW t \in Task, Write(t),
         Head(job[t].todo) = "config"
  PROVE  /\ ram'.config = ConfigTarget(job[t])
         /\ flash'.config = ConfigTarget(job[t])
         /\ ram'.registry = ram.registry /\ flash'.registry = flash.registry
         /\ ram'.readiness = ram.readiness
         /\ ram'.credential = ram.credential
         /\ ram'.membership = ram.membership
         /\ ram' \in Disk
<1> DEFINE j == job[t]
<1>1. Target(j, "config") = ConfigTarget(j)
  BY DEF Target, Relations
<1>2. \A x \in {"registry", "membership", "readiness", "credential"} :
        flash'[x] = flash[x] /\ ram'[x] = ram[x]
  BY WroteStores DEF Store, Relations
<1>3. ram'["config"] = Target(j, "config")
  BY WroteStores DEF Store
<1>4. flash'["config"] = Target(j, "config")
  <2>1. \/ flash'["config"] = Target(j, "config")
        \/ flash'["config"] = flash["config"] /\ ram'["config"] = ram["config"]
    BY WroteStores DEF Store
  <2> QED BY <1>3, <2>1 DEF StoresAgree
<1>5. ram' \in Disk
  <2>1. Busy(t) /\ ram \in Disk
    BY Tasks DEF Write
  <2>2. [ram EXCEPT !["config"] = Target(j, "config")] \in Disk
    BY <2>1, WrittenType DEF JobsInv
  <2> QED BY <2>1, <2>2 DEF Write
<1> QED BY <1>1, <1>2, <1>3, <1>4, <1>5, Fields

LEMMA Emptying ==
  ASSUME HeldInv, Write("web"), Works(Web, Leased), Web.who \in Participant,
         Recorded(Web, ram.registry), Emptied(Web, ram), Web' # Idle
  PROVE  Emptied(Web', ram')
<1> DEFINE s == Head(Web.todo)
<1>0. JobsInv /\ CourseInv /\ StoresAgree /\ "web" \in Task /\ ram \in Disk
  BY Tasks DEF HeldInv
<1>1. /\ Same(Web', Web) /\ Web'.todo = Advanced(Web, s) /\ Web'.todo # << >>
  BY <1>0, WroteJob DEF Web
<1> SUFFICES ASSUME Web.op \in Refreshing, Web'.todo \in Settling
             PROVE  /\ Alone(ram')
                    /\ Web.op # "forget" =>
                         ram'.config.member[Web.who] = "none"
  BY <1>1 DEF Emptied, Same
<1>2. Web.todo \in Remaining(Web.op)
  BY <1>0 DEF CourseInv, OnCourse, Web, Works, Leased, Refreshing, Canonical
<1>3. /\ Web.todo \in Seq(Store)
      /\ \/ Web.todo = <<"config">>
         \/ Web.todo = <<"directory", "membership">>
         \/ Web.todo = <<"membership">>
         \/ s \in Relations /\ Tail(Web.todo) \notin Settling
  BY <1>0, <1>2, WroteJob, RefreshCourse DEF Web
<1>4. CASE Web.todo = <<"config">>
  <2>1. s = "config" /\ Tail(Web.todo) = << >>
    BY <1>4, Tails
  <2>2. Related(ram) = {} /\ ~Staged(Web)
    BY <1>1, <2>1 DEF Advanced
  <2>3. ConfigTarget(Web) = StandaloneConfiguration(ram)
    BY <2>2 DEF ConfigTarget, Refreshed, Refreshing
  <2>4. /\ ram'.config = StandaloneConfiguration(ram) /\ ram' \in Disk
        /\ ram'.registry = ram.registry /\ ram'.membership = ram.membership
    BY <1>0, <2>1, <2>3, ConfigWritten DEF Web
  <2>5. /\ Alone(ram')
        /\ \A p \in Participant :
             \/ ram.config.member[p] = "none" \/ ram.registry[p] = "revoked" =>
                  ram'.config.member[p] = "none"
    BY <1>0, <2>2, <2>4, StandaloneAlone
  <2>6. Web.op # "forget" => ram.registry[Web.who] = "revoked"
    <3>1. Omits(Web.todo, "registry")
      BY <1>4 DEF Omits
    <3>2. ram.registry[Web.who] \in Gone
      BY <2>2 DEF Related
    <3> QED BY <3>1, <3>2 DEF Recorded, Refreshing, Gone, Active
  <2> QED BY <2>5, <2>6
<1>5. CASE Web.todo = <<"directory", "membership">>
  <2>1. s = "directory"
    BY <1>5
  <2>2. ram' = ram
    BY <2>1 DEF Write, Web
  <2> QED BY <1>5, <2>2 DEF Emptied, Settling
<1>6. CASE Web.todo = <<"membership">>
  <2>1. s = "membership" /\ Tail(Web.todo) = << >>
    BY <1>6, Tails
  <2> QED BY <1>1, <2>1 DEF Advanced
<1>7. CASE s \in Relations /\ Tail(Web.todo) \notin Settling
  BY <1>1, <1>7 DEF Advanced, Relations
<1> QED BY <1>3, <1>4, <1>5, <1>6, <1>7

(* Only a reset, or the FORGET of a member, fails with memory changed.     *)
LEMMA FailsUnchanged ==
  ASSUME JobsInv, NEW t \in Task, Refuse(t) \/ Fail(t),
         job[t].op \notin {"reset", "erase"}
  PROVE  ram' = ram /\ flash' = flash
BY FailedStores DEF Refuse, Abandon

(* What the loop's transaction does while one of the engine is at work.    *)
LEMMA SettlesAlone ==
  ASSUME HeldInv, Write("loop"), Web.op \in Leased
  PROVE  /\ Web' = Web /\ ram'.registry = ram.registry
         /\ ram'.credential = ram.credential
         /\ \/ ram' = ram
            \/ /\ ram'.config = StandaloneConfiguration(ram) /\ ram' \in Disk
               /\ ram'.membership = ram.membership
            \/ /\ ram'.config = ram.config
               /\ ram'.membership = [site |-> ram.membership.site,
                                     mode |-> "standalone"]
<1> DEFINE s == Head(Loop.todo)
<1>0. JobsInv /\ CourseInv /\ StoresAgree /\ {"web", "loop"} = Task
  BY Tasks DEF HeldInv
<1>1. /\ Loop.op = "settle" /\ s \notin Relations /\ s \in Store
      /\ Web' = Web
  BY <1>0, LoopSettles, WroteJob DEF Loop, Web, Others
<1>2. ram'.registry = ram.registry /\ ram'.credential = ram.credential
  <2>1. ram'["registry"] = ram["registry"]
        /\ ram'["credential"] = ram["credential"]
    BY <1>0, <1>1, WroteStores DEF Loop, Relations, Store
  <2> QED BY <2>1, Fields
<1>3. CASE s = "directory"
  <2>1. ram' = ram
    BY <1>3 DEF Write, Loop
  <2> QED BY <1>1, <1>2, <2>1
<1>4. CASE s = "config"
  <2>1. ConfigTarget(Loop) = StandaloneConfiguration(ram)
    BY <1>1 DEF ConfigTarget, Staged
  <2> QED BY <1>0, <1>1, <1>2, <1>4, <2>1, ConfigWritten DEF Loop
<1>5. CASE s = "membership"
  <2>1. ram'["config"] = ram["config"]
        /\ ram'["membership"] = Target(Loop, "membership")
    BY <1>0, <1>5, WroteStores DEF Loop, Store
  <2>2. Target(Loop, "membership")
          = [site |-> ram.membership.site, mode |-> "standalone"]
    BY <1>1 DEF Target, Relations, MembershipTarget
  <2> QED BY <1>1, <1>2, <2>1, <2>2, Fields
<1> QED BY <1>1, <1>3, <1>4, <1>5 DEF Store

LEMMA StaysEmptied ==
  ASSUME HeldInv, Write("loop"), Works(Web, Leased), Web.who \in Participant,
         Emptied(Web, ram)
  PROVE  Emptied(Web, ram')
<1>0. ram \in Disk /\ Web.op \in Leased
  BY Tasks DEF HeldInv, Works
<1> SUFFICES ASSUME Alone(ram)
             PROVE  /\ Alone(ram')
                    /\ ram.config.member[Web.who] = "none" =>
                         ram'.config.member[Web.who] = "none"
  BY DEF Emptied
<1>1. ram'.registry = ram.registry /\ Related(ram) = {}
  BY <1>0, SettlesAlone DEF Alone
<1>2. CASE ram' = ram
  BY <1>2
<1>3. CASE /\ ram'.config = StandaloneConfiguration(ram) /\ ram' \in Disk
           /\ ram'.membership = ram.membership
  BY <1>0, <1>1, <1>3, StandaloneAlone
<1>4. CASE /\ ram'.config = ram.config
           /\ ram'.membership = [site |-> ram.membership.site,
                                 mode |-> "standalone"]
  BY <1>1, <1>4 DEF Alone, OwnedHere, SameSite, Related
<1> QED BY <1>0, <1>2, <1>3, <1>4, SettlesAlone

LEMMA ProceedsRecorded ==
  ASSUME RecordInv, NEW t \in Task, Proceeds(t)
  PROVE  WebRecorded'
<1>0. JobsInv /\ CourseInv /\ {"web", "loop"} = Task /\ "none" \notin Leased
  BY Tasks DEF RecordInv, HeldInv
<1> SUFFICES ASSUME Works(Web', Leased)
             PROVE  /\ Web'.who \in Participant
                    /\ Recorded(Web', ram'.registry) /\ Emptied(Web', ram')
  BY DEF WebRecorded
<1>1. CASE t = "web"
  <2>1. CASE Write(t)
    <3>1. Web' # Idle /\ Same(Web', Web) /\ Works(Web, Leased)
      BY <1>0, <1>1, <2>1, WroteJob, IdleType DEF Web, Works, Same
    <3>2. /\ Web.who \in Participant
          /\ Recorded(Web, ram.registry) /\ Emptied(Web, ram)
      BY <3>1 DEF RecordInv, WebRecorded
    <3>3. Emptied(Web', ram')
      BY <1>1, <2>1, <3>1, <3>2, Emptying DEF RecordInv
    <3>4. Recorded(Web', ram'.registry)
      BY <1>0, <1>1, <2>1, <3>1, <3>2, Registered DEF Web, Works
    <3> QED BY <3>1, <3>2, <3>3, <3>4 DEF Same
  <2>2. CASE Refuse(t) \/ Fail(t)
    <3>1. Web' = Idle \/ Web'.undo
      BY <1>0, <1>1, <2>2, AbandonedJob DEF Refuse, Fail, Web
    <3> QED BY <1>0, <3>1, IdleType DEF Works
  <2>3. CASE Restore(t) \/ RestoreFails(t)
    <3>1. Web' = Idle \/ Web'.undo
      BY <1>0, <1>1, <2>3, RestoredJob, UnrestoredJob DEF Web
    <3> QED BY <1>0, <3>1, IdleType DEF Works
  <2> QED BY <2>1, <2>2, <2>3 DEF Proceeds
<1>2. CASE t = "loop"
  <2>1. Web' = Web
    BY <1>0, <1>2, WroteJob, AbandonedJob, RestoredJob, UnrestoredJob
       DEF Proceeds, Refuse, Fail, Web, Others
  <2>2. /\ Works(Web, Leased) /\ Web.who \in Participant
        /\ Recorded(Web, ram.registry) /\ Emptied(Web, ram)
    BY <2>1 DEF RecordInv, WebRecorded
  <2>3. ~Restore(t) /\ ~RestoreFails(t) /\ Loop.op \in {"settle", "none"}
    BY <1>0, <1>2, <2>2, LoopSettles DEF Works, Web, Loop
  <2>4. CASE Write(t)
    <3>1. Emptied(Web, ram') /\ ram'.registry = ram.registry
      BY <1>2, <2>2, <2>4, StaysEmptied, SettlesAlone DEF RecordInv, Works
    <3> QED BY <2>1, <2>2, <3>1
  <2>5. CASE Refuse(t) \/ Fail(t)
    <3>1. ram' = ram
      BY <1>0, <1>2, <2>3, <2>5, FailsUnchanged DEF Loop
    <3> QED BY <2>1, <2>2, <3>1
  <2> QED BY <2>3, <2>4, <2>5 DEF Proceeds
<1> QED BY <1>0, <1>1, <1>2

LEMMA ProceedsLoop ==
  ASSUME RecordInv, NEW t \in Task, Proceeds(t), "reset" \notin broken'
  PROVE  LoopRecorded'
<1>0. /\ JobsInv /\ CourseInv /\ {"web", "loop"} = Task
      /\ "none" \notin Pairing /\ "reset" \notin broken /\ ProfilesKept
  BY Tasks, BrokenGrows
     DEF RecordInv, HeldInv, Pairing, ProfileInv, Proceeds, Next
<1> SUFFICES ASSUME Works(Loop', Pairing)
             PROVE  /\ Loop'.who \in Participant
                    /\ Recorded(Loop', ram'.registry)
  BY DEF LoopRecorded
<1>1. CASE t = "loop"
  <2>1. CASE Write(t)
    <3>1. Loop' # Idle /\ Same(Loop', Loop) /\ Works(Loop, Pairing)
      BY <1>0, <1>1, <2>1, WroteJob, IdleType DEF Loop, Works, Same
    <3>2. Loop.who \in Participant /\ Recorded(Loop, ram.registry)
      BY <1>0, <3>1 DEF RecordInv, LoopRecorded
    <3>3. Recorded(Loop', ram'.registry)
      BY <1>0, <1>1, <2>1, <3>1, <3>2, Registered DEF Loop, Works
    <3> QED BY <3>1, <3>2, <3>3 DEF Same
  <2>2. CASE Refuse(t) \/ Fail(t)
    <3>1. Loop' = Idle \/ Loop'.undo
      BY <1>0, <1>1, <2>2, AbandonedJob DEF Refuse, Fail, Loop
    <3> QED BY <1>0, <3>1, IdleType DEF Works
  <2>3. CASE Restore(t) \/ RestoreFails(t)
    <3>1. Loop' = Idle \/ Loop'.undo
      BY <1>0, <1>1, <2>3, RestoredJob, UnrestoredJob DEF Loop
    <3> QED BY <1>0, <3>1, IdleType DEF Works
  <2> QED BY <2>1, <2>2, <2>3 DEF Proceeds
<1>2. CASE t = "web"
  <2>1. Loop' = Loop
    BY <1>0, <1>2, WroteJob, AbandonedJob, RestoredJob, UnrestoredJob
       DEF Proceeds, Refuse, Fail, Loop, Others
  <2>2. /\ Works(Loop, Pairing) /\ Loop.who \in Participant
        /\ Recorded(Loop, ram.registry)
    BY <1>0, <2>1 DEF RecordInv, LoopRecorded
  <2>3. Web.op \notin Leased /\ Web.op # "reset"
    BY <1>0, <2>2 DEF JobsInv, TasksApart, Works, Web, Loop, ProfilesKept, Busy
  <2>4. ~Restore(t) /\ ~RestoreFails(t) /\ Web.op \in {"roster", "none"}
    <3>1. Web.op \in {"roster", "none"}
      BY <1>0, <2>3 DEF JobsInv, TasksApart, Web
    <3>2. "roster" \notin Leased /\ "none" \notin Leased
      BY DEF Leased, Refreshing, Canonical
    <3> QED BY <1>0, <1>2, <3>1, <3>2, RestoredJob, UnrestoredJob DEF Web
  <2>5. CASE Write(t)
    <3>1. Web.op = "roster"
      BY <1>0, <1>2, <2>4, <2>5, WroteJob DEF Web
    <3>2. Web.todo = <<"config">>
      BY <1>0, <1>2, <2>5, <3>1, WroteJob
         DEF CourseInv, OnCourse, Web, Remaining
    <3>3. ram'["registry"] = ram["registry"]
      BY <1>0, <1>2, <2>5, <3>2, WroteStores DEF Web, Store, Relations
    <3> QED BY <2>1, <2>2, <3>3, Fields
  <2>6. CASE Refuse(t) \/ Fail(t)
    <3>1. ram' = ram
      BY <1>0, <1>2, <2>4, <2>6, FailsUnchanged DEF Web
    <3> QED BY <2>1, <2>2, <3>1
  <2> QED BY <2>4, <2>5, <2>6 DEF Proceeds
<1> QED BY <1>0, <1>1, <1>2

LEMMA RecordStep ==
  ASSUME RecordInv, [Next]_vars
  PROVE  RecordInv'
<1>0. HeldInv' /\ ProfileInv'
  BY HeldStep, ProfileStep DEF RecordInv
<1>1. /\ JobsInv /\ StoresAgree /\ ram \in Disk /\ broken \subseteq broken'
      /\ {"web", "loop"} = Task /\ "none" \notin Leased \cup Pairing
  BY Tasks, BrokenGrows DEF RecordInv, HeldInv, Pairing
<1> SUFFICES WebRecorded' /\ LoopRecorded'
  BY <1>0 DEF RecordInv
<1>2. ASSUME ram' = ram
      PROVE  /\ Web' = Web \/ Web'.op = "none" => WebRecorded'
             /\ Loop' = Loop \/ Loop'.op \notin Pairing => LoopRecorded'
  BY <1>1, <1>2 DEF RecordInv, WebRecorded, LoopRecorded, Works
<1>3. CASE Operates
  <2>1. PICK t \in Task : \E op, p, arg, steps : Opens(t, op, p, arg, steps)
    BY <1>1, <1>3, OperatesOpens
  <2>2. PICK op, p, arg, steps : Opens(t, op, p, arg, steps)
    BY <2>1
  <2>3. /\ job'[t].op = op /\ job'[t].who = p /\ job'[t].todo = steps
        /\ ram' = ram /\ Others(t)
    BY <1>1, <2>2, OpenedJob
  <2>4. ASSUME op \in Leased \cup Pairing
        PROVE  /\ p \in Participant /\ Recorded(job'[t], ram.registry)
               /\ Emptied(job'[t], ram)
    BY <2>2, <2>3, <2>4 DEF Opens, Qualified, Recorded, Emptied, Leased,
       Refreshing, Pairing
  <2>5. CASE t = "web"
    <3>1. WebRecorded'
      BY <2>3, <2>4, <2>5 DEF WebRecorded, Works, Web
    <3>2. Loop' = Loop
      BY <1>1, <2>3, <2>5 DEF Others, Loop
    <3> QED BY <1>2, <2>3, <3>1, <3>2
  <2>6. CASE t = "loop"
    <3>1. LoopRecorded'
      BY <2>3, <2>4, <2>6 DEF LoopRecorded, Works, Loop
    <3>2. Web' = Web
      BY <1>1, <2>3, <2>6 DEF Others, Web
    <3> QED BY <1>2, <2>3, <3>1, <3>2
  <2> QED BY <1>1, <2>5, <2>6
<1>4. CASE Settle
  <2>1. ram' = ram /\ Web' = Web
    BY <1>1, <1>4, SettledJob DEF Others, Web
  <2>2. Loop' = Loop \/ Loop'.op = "settle"
    BY <1>1, <1>4, SettledJob DEF Loop
  <2> QED BY <1>2, <2>1, <2>2 DEF Pairing
<1>5. CASE DeferMembership
  <2>1. ram' = ram /\ Web'.op = "none" /\ Loop' = Loop
    BY <1>1, <1>5, DeferredJob, IdleType DEF Web, Loop, Others
  <2> QED BY <1>2, <2>1
<1>6. CASE PowerCut
  <2>1. Web'.op = "none" /\ Loop'.op = "none"
    BY <1>1, <1>6, CutJobs, IdleType DEF Web, Loop
  <2> QED BY <1>1, <2>1 DEF WebRecorded, LoopRecorded, Works
<1>7. CASE Idles
  BY <1>2, <1>7, IdlesNothing DEF Web, Loop
<1>8. ASSUME NEW p \in Node, PullConfiguration(p)
      PROVE  WebRecorded' /\ LoopRecorded'
  <2>1. /\ ram'["registry"] = ram["registry"] /\ p \in Participant
        /\ ram.registry[p] = "quarantined" /\ job' = job
    BY <1>1, <1>8, PulledStores DEF Relations
  <2>2. Related(ram) # {} /\ ram'.registry = ram.registry
    BY <2>1, Fields DEF Related, Gone
  <2>3. ~Busy("loop")
    BY <1>8 DEF PullConfiguration
  <2>4. WebRecorded'
    BY <2>1, <2>2 DEF RecordInv, WebRecorded, Emptied, Alone, Web
  <2>5. LoopRecorded'
    BY <1>1, <2>1, <2>3 DEF LoopRecorded, Works, Loop, Busy
  <2> QED BY <2>4, <2>5
<1>9. ASSUME NEW t \in Task, Proceeds(t) PROVE WebRecorded' /\ LoopRecorded'
  <2>1. WebRecorded'
    BY <1>9, ProceedsRecorded
  <2>2. "reset" \in broken' => LoopRecorded'
    BY DEF LoopRecorded
  <2> QED BY <1>9, <2>1, <2>2, ProceedsLoop
<1> QED BY <1>3, <1>4, <1>5, <1>6, <1>7, <1>8, <1>9, StepCases DEF Proceeds

LEMMA RecordInit == Init => RecordInv
<1> SUFFICES ASSUME Init PROVE RecordInv
  OBVIOUS
<1>1. HeldInv /\ ProfileInv /\ {"web", "loop"} = Task
      /\ "none" \notin Leased \cup Pairing
  BY HeldInit, ProfileInit, Tasks DEF ProfileInv, Pairing
<1>2. Web.op = "none" /\ Loop.op = "none"
  BY <1>1, IdleType DEF Init, Web, Loop
<1> QED BY <1>1, <1>2 DEF RecordInv, WebRecorded, LoopRecorded, Works

(* The end of an operation that refreshes the roster.                      *)
LEMMA FollowsSettled ==
  ASSUME RecordInv, Works(Web, Leased), Web.op \in Refreshing \ {"forget"},
         Web.todo \in Settling
  PROVE  /\ flash.registry[Web.who] = "revoked"
         /\ flash.config.member[Web.who] = "none"
<1>0. JobsInv /\ StoresAgree
  BY DEF RecordInv, HeldInv
<1>1. /\ Web.who \in Participant /\ Recorded(Web, ram.registry)
      /\ Related(ram) = {} /\ ram.config.member[Web.who] = "none"
  BY DEF RecordInv, WebRecorded, Emptied, Alone
<1>2. Omits(Web.todo, "registry")
  BY DEF Settling, Omits
<1>3. ram.registry[Web.who] \in {"none", "revoked"}
  BY <1>1 DEF Related, Gone
<1>4. ram.registry[Web.who] = "revoked"
  BY <1>1, <1>2, <1>3 DEF Recorded, Refreshing, Active
<1>5. ram.registry = NoMembers => ram.registry[Web.who] = "none"
  BY <1>1 DEF NoMembers, Cleared
<1>6. flash.registry = ram.registry
  BY <1>0, <1>4, <1>5 DEF StoresAgree
<1>7. flash.config = ram.config
  BY <1>0, Fields DEF StoresAgree
<1> QED BY <1>1, <1>4, <1>6, <1>7

LEMMA FollowsWritten ==
  ASSUME RecordInv, Write("web"), Works(Web, Leased),
         Web.op \in Refreshing \ {"forget"}, Web.todo = <<"config">>,
         Advanced(Web, "config") = << >>, OwnedHere(flash')
  PROVE  flash'.config.member[Web.who] =
           IF flash'.registry[Web.who] = "revoked" THEN "none"
           ELSE flash'.registry[Web.who]
<1>0. JobsInv /\ StoresAgree /\ "web" \in Task /\ ram \in Disk
  BY Tasks DEF RecordInv, HeldInv
<1>1. Web.who \in Participant /\ Recorded(Web, ram.registry)
  BY DEF RecordInv, WebRecorded
<1>2. Omits(Web.todo, "registry") /\ Head(Web.todo) = "config"
  BY DEF Omits
<1>3. /\ ram.registry[Web.who] # "none"
      /\ Web.op = "configure" => ram.registry[Web.who] = "quarantined"
  BY <1>1, <1>2 DEF Recorded, Refreshing, Active
<1>4. flash.registry = ram.registry
  <2>1. ram.registry = NoMembers => ram.registry[Web.who] = "none"
    BY <1>1 DEF NoMembers, Cleared
  <2> QED BY <1>0, <1>3, <2>1 DEF StoresAgree
<1>5. /\ flash'.registry = ram.registry
      /\ flash'.config = ConfigTarget(Web)
  BY <1>0, <1>2, <1>4, ConfigWritten DEF Web
<1>6. Staged(Web) \/ Related(ram) # {}
  <2>1. <<"directory", "membership">> # << >>
    OBVIOUS
  <2> QED BY <2>1 DEF Advanced
<1>7. CASE Staged(Web)
  <2>1. ConfigTarget(Web) = ram.config /\ Web.op = "configure"
        /\ ram.config.member[Web.who] = "quarantined"
    BY <1>7 DEF Staged, ConfigTarget, Pairing
  <2> QED BY <1>3, <1>5, <2>1
<1>8. CASE ~Staged(Web) /\ Related(ram) # {}
  <2>1. ConfigTarget(Web)
          = IF OwnedHere(ram) THEN OwnedRoster(ram) ELSE ram.config
    BY <1>8 DEF ConfigTarget, Refreshed, Refreshing
  <2>2. OwnedHere(ram)
    BY <1>5, <2>1 DEF OwnedHere
  <2>3. OwnedRoster(ram).member[Web.who]
          = IF ram.registry[Web.who] = "revoked" THEN "none"
            ELSE ram.registry[Web.who]
    BY <1>1, <1>3 DEF OwnedRoster
  <2> QED BY <1>5, <2>1, <2>2, <2>3
<1> QED BY <1>6, <1>7, <1>8

LEMMA FollowStep ==
  ASSUME RecordInv, [Next]_vars, Busy("web"), outcome' = "ok",
         outcome # "ok", OwnedHere(flash'), Web.op \in Refreshing \ {"forget"}
  PROVE  flash'.config.member[Web.who] =
           IF flash'.registry[Web.who] = "revoked" THEN "none"
           ELSE flash'.registry[Web.who]
<1>0. JobsInv /\ CourseInv /\ ram \in Disk /\ {"web", "loop"} = Task
  BY Tasks DEF RecordInv, HeldInv
<1>1. \A t, op, p, arg, steps : ~Opens(t, op, p, arg, steps)
  BY DEF Opens, Begin
<1>2. ~Operates /\ ~Settle /\ ~PowerCut /\ ~Idles
      /\ \A p \in Node : ~PullConfiguration(p)
  BY <1>0, <1>1, OperatesOpens, IdlesNothing
     DEF Settle, PowerCut, PullConfiguration
<1>3. \A t \in Task : /\ ~Refuse(t) /\ ~Fail(t) /\ ~Restore(t)
                      /\ ~RestoreFails(t)
  BY <1>0, RestoredJob, UnrestoredJob
     DEF Refuse, Fail, Abandon, Concluded
<1>4. CASE DeferMembership
  <2>1. /\ flash' = flash /\ Works(Web, Leased)
        /\ Head(Web.todo) = "membership"
    BY <1>0, <1>4, DeferredJob DEF Works, Web, Leased
  <2>2. Web.todo \in Remaining(Web.op) /\ Web.todo \in Seq(Store)
    BY <1>0, <2>1, Tasks
       DEF CourseInv, OnCourse, Works, Web, Busy, Jobs
  <2>3. Web.todo \in Settling
    BY <2>1, <2>2, RefreshCourse DEF Settling, Relations
  <2> QED BY <2>1, <2>3, FollowsSettled
<1>5. ASSUME NEW t \in Task, Write(t)
      PROVE  flash'.config.member[Web.who] =
               IF flash'.registry[Web.who] = "revoked" THEN "none"
               ELSE flash'.registry[Web.who]
  <2>1. /\ job[t].op \in Leased /\ ~job[t].undo
        /\ Advanced(job[t], Head(job[t].todo)) = << >>
        /\ job[t].todo \in Seq(Store)
    BY <1>0, <1>5, WroteJob DEF Concluded
  <2>2. t = "web" /\ Works(Web, Leased)
    BY <1>0, <2>1
       DEF JobsInv, TasksApart, Works, Web, Pairing, Leased, Refreshing,
           Canonical
  <2>3. Web.todo \in Remaining(Web.op)
    BY <1>0, <2>2 DEF CourseInv, OnCourse, Works, Web, Busy
  <2>4. \/ Web.todo = <<"config">>
        \/ Web.todo = <<"directory", "membership">>
        \/ Web.todo = <<"membership">>
        \/ /\ Head(Web.todo) \in Relations
           /\ Tail(Web.todo) \notin Settling \cup {<< >>}
    BY <2>1, <2>2, <2>3, RefreshCourse DEF Web
  <2>5. CASE Web.todo = <<"config">>
    <3>1. Head(Web.todo) = "config"
      BY <2>5
    <3> QED BY <1>5, <2>1, <2>2, <2>5, <3>1, FollowsWritten DEF Web
  <2>6. CASE Web.todo = <<"directory", "membership">>
    <3>1. Head(Web.todo) = "directory" /\ Tail(Web.todo) # << >>
      BY <2>6
    <3> QED BY <2>1, <2>2, <3>1 DEF Advanced, Web
  <2>7. CASE Web.todo = <<"membership">>
    <3>1. Head(Web.todo) = "membership" /\ Web.todo \in Settling
      BY <2>7 DEF Settling
    <3>2. /\ flash'["registry"] = flash["registry"]
          /\ flash'["config"] = flash["config"]
      BY <1>0, <1>5, <2>2, <3>1, WroteStores DEF Web, Store, Relations
    <3>3. /\ flash.registry[Web.who] = "revoked"
          /\ flash.config.member[Web.who] = "none"
      BY <2>2, <3>1, FollowsSettled
    <3> QED BY <3>2, <3>3, Fields
  <2>8. CASE /\ Head(Web.todo) \in Relations
             /\ Tail(Web.todo) \notin Settling \cup {<< >>}
    BY <2>1, <2>2, <2>8 DEF Advanced, Web, Relations
  <2> QED BY <2>4, <2>5, <2>6, <2>7, <2>8
<1> QED BY <1>2, <1>3, <1>4, <1>5, StepCases

(* RosterFollows holds for any numbers of participants and Sites: when an  *)
(* operation of the engine is reported as done, the roster of a device     *)
(* that owns its Site gives the participant the standing of the registry.  *)
THEOREM RosterFollowed == Spec => RosterFollows
<1> DEFINE A == LET j == job["web"] IN
             Busy("web") /\ outcome' = "ok" /\ outcome # "ok"
               /\ OwnedHere(flash') /\ j.op \in Refreshing \ {"forget"} =>
               flash'.config.member[j.who] =
                 IF flash'.registry[j.who] = "revoked" THEN "none"
                 ELSE flash'.registry[j.who]
<1>1. RecordInv /\ [Next]_vars => RecordInv'
  BY RecordStep
<1>2. RecordInv /\ [Next]_vars => A
  BY FollowStep DEF Web
<1>3. RecordInv /\ [Next]_vars => [A]_vars
  BY <1>2
<1> QED BY <1>1, <1>3, RecordInit, PTL DEF Spec, RosterFollows

-----------------------------------------------------------------------------
(* Credentials                                                             *)

Matches(r, c) ==
  (r = "revoked" => c # "enabled") /\ (r \in Active => c # "disabled")
Matched(records, credentials) ==
  \A p \in Participant : Matches(records[p], credentials[p])

(* The participant whose record and credential are written one after the   *)
(* other.                                                                  *)
Between(j, p) ==
  /\ p = j.who
  /\ \/ j.op = "activate" /\ Head(j.todo) = "registry"
     \/ j.op = "revoke" /\ Head(j.todo) = "credential"

(* Records and credentials go together, now and in what a rollback would   *)
(* restore.                                                                *)
CredentialsKept ==
  /\ Web.op \in Leased => Matched(Web.saved.registry, Web.saved.credential)
  /\ ~(Web.op \in Leased /\ Web.undo) =>
       \A p \in Participant :
         Matches(ram.registry[p], ram.credential[p]) \/ Between(Web, p)
  /\ Works(Web, {"activate"}) /\ Head(Web.todo) = "registry" =>
       ram.credential[Web.who] # "disabled"

CredentialInv == RecordInv /\ (broken = {} => CredentialsKept)

LEMMA IdleMatched ==
  ASSUME CredentialsKept, Web.op \notin Leased
  PROVE  Matched(ram.registry, ram.credential)
BY DEF CredentialsKept, Matched, Between, Leased, Refreshing

LEMMA NowMatched ==
  ASSUME Web'.op \notin Leased, Matched(ram'.registry, ram'.credential)
  PROVE  CredentialsKept'
BY DEF CredentialsKept, Matched, Works, Leased, Refreshing

LEMMA StillMatched ==
  ASSUME CredentialsKept, Web' = Web, ram'.registry = ram.registry,
         ram'.credential = ram.credential
  PROVE  CredentialsKept'
BY DEF CredentialsKept

(* When a credential is written.                                           *)
LEMMA CredentialCourse ==
  ASSUME NEW op \in Leased, NEW todo \in Remaining(op),
         Head(todo) = "credential"
  PROVE  /\ op \in {"activate", "revoke", "forget", "expel", "erase"}
         /\ op = "activate" => todo = <<"credential", "registry", "config">>
         /\ op # "activate" => Omits(todo, "registry")
<1>0. Omits(<<"credential", "config">>, "registry")
  BY DEF Omits
<1>1. CASE op \in {"approve", "quarantine", "configure", "reconfigure"}
  BY <1>1 DEF Remaining, Settling
<1>2. CASE op \in {"promote", "demote", "expel", "erase"}
  BY <1>0, <1>2 DEF Remaining, Settling
<1>3. CASE op \in {"activate", "revoke", "forget"}
  BY <1>0, <1>3 DEF Remaining, Settling
<1> QED BY <1>1, <1>2, <1>3 DEF Leased, Refreshing, Canonical

LEMMA RevokeCourse ==
  ASSUME NEW todo \in Remaining("revoke"), Head(todo) = "registry"
  PROVE  todo = <<"registry", "credential", "config">>
BY DEF Remaining, Settling

LEMMA ActivateCourse ==
  ASSUME NEW todo \in Remaining("activate"), Head(todo) # "credential",
         Tail(todo) # << >>
  PROVE  Head(Tail(todo)) # "registry"
BY Tails DEF Remaining, Settling

(* What a write of the engine does to records and credentials.             *)
LEMMA EngineWrites ==
  ASSUME JobsInv, Write("web"), Web.op \in Leased, Web.who \in Participant
  PROVE  LET s == Head(Web.todo)
         IN  /\ s # "registry" => ram'.registry = ram.registry
             /\ s # "credential" => ram'.credential = ram.credential
             /\ s = "registry" =>
                  /\ ram'.registry[Web.who] = RegistryTarget(Web)
                  /\ \A p \in Participant \ {Web.who} :
                       ram'.registry[p] = ram.registry[p]
             /\ s = "credential" =>
                  /\ ram'.credential[Web.who] = CredentialTarget(Web)
                  /\ \A p \in Participant \ {Web.who} :
                       ram'.credential[p] = ram.credential[p]
<1> DEFINE s == Head(Web.todo)
<1>0. ram \in Disk /\ "web" \in Task /\ Web.op # "reset"
  BY Tasks
<1>1. /\ s # "registry" => ram'["registry"] = ram["registry"]
      /\ s = "registry" => ram'["registry"] = Target(Web, "registry")
      /\ s # "credential" => ram'["credential"] = ram["credential"]
      /\ s = "credential" => ram'["credential"] = Target(Web, "credential")
  BY <1>0, WroteStores DEF Web, Store, Relations
<1>2. /\ Target(Web, "registry")
           = [ram.registry EXCEPT ![Web.who] = RegistryTarget(Web)]
      /\ Target(Web, "credential")
           = [ram.credential EXCEPT ![Web.who] = CredentialTarget(Web)]
  BY <1>0 DEF Target
<1>3. /\ ram.registry \in [Participant -> Standing]
      /\ ram.credential \in [Participant -> Credential]
  BY <1>0 DEF Disk
<1> HIDE DEF s
<1> QED BY <1>1, <1>2, <1>3, Fields DEF s

LEMMA WriteMatched ==
  ASSUME CredentialInv, CredentialsKept, Write("web"), Web.op \in Leased
  PROVE  CredentialsKept'
<1> DEFINE s == Head(Web.todo)
<1>0. /\ JobsInv /\ CourseInv /\ "web" \in Task /\ ram \in Disk
      /\ JobSound(Web) /\ "none" \notin Leased
  BY Tasks DEF CredentialInv, RecordInv, HeldInv, JobsInv, Web
<1>1. /\ ~Web.undo /\ Web.todo \in Seq(Store) /\ Web.todo # << >>
      /\ ~Refused(Web) /\ Web \in Jobs
      /\ \/ Web' = Idle /\ Advanced(Web, s) = << >>
         \/ /\ Same(Web', Web) /\ ~Web'.undo /\ Web'.todo = Advanced(Web, s)
            /\ Web'.todo # << >>
  BY <1>0, WroteJob DEF Web
<1>2. /\ Web.who \in Participant /\ Recorded(Web, ram.registry)
      /\ Web.todo \in Remaining(Web.op)
  BY <1>0, <1>1
     DEF CredentialInv, RecordInv, WebRecorded, Works, CourseInv, OnCourse, Web
<1>3. Web'.op \in Leased => Matched(Web'.saved.registry, Web'.saved.credential)
  BY <1>0, <1>1, IdleType DEF CredentialsKept, Same
<1>4. ASSUME s = "registry"
      PROVE  \A p \in Participant :
               \/ Matches(ram'.registry[p], ram'.credential[p])
               \/ Between(Web', p)
  <2>1. /\ ram'.credential = ram.credential
        /\ ram'.registry[Web.who] = RegistryTarget(Web)
        /\ \A p \in Participant \ {Web.who} :
             ram'.registry[p] = ram.registry[p]
    BY <1>0, <1>2, <1>4, EngineWrites
  <2>2. \A p \in Participant \ {Web.who} :
          Matches(ram'.registry[p], ram'.credential[p])
    BY <1>1, <2>1 DEF CredentialsKept, Between
  <2>3. CASE Web.op = "revoke"
    <3>1. Web.todo = <<"registry", "credential", "config">>
      BY <1>2, <1>4, <2>3, RevokeCourse
    <3>2. Advanced(Web, s) = <<"credential", "config">>
      BY <1>4, <3>1, Tails DEF Advanced
    <3>3. /\ <<"credential", "config">> # << >>
          /\ Head(<<"credential", "config">>) = "credential"
      OBVIOUS
    <3>4. Between(Web', Web.who)
      BY <1>1, <2>3, <3>2, <3>3 DEF Between, Same
    <3> QED BY <2>2, <3>4
  <2>4. CASE Web.op = "activate"
    <3>1. ram.credential[Web.who] # "disabled"
      BY <1>1, <1>4, <2>4 DEF CredentialsKept, Works
    <3>2. RegistryTarget(Web) = "active"
      BY <2>4 DEF RegistryTarget, Pairing
    <3> QED BY <2>1, <2>2, <3>1, <3>2 DEF Matches
  <2>5. CASE Web.op \in {"promote", "demote"}
    <3>1. ram.registry[Web.who] \in Active
      BY <1>1, <1>4, <2>5 DEF Refused
    <3>2. Matches(ram.registry[Web.who], ram.credential[Web.who])
      BY <1>1, <1>2, <2>5 DEF CredentialsKept, Between
    <3>3. RegistryTarget(Web) # "revoked"
      BY <2>5 DEF RegistryTarget, Pairing, Eligibility
    <3> QED BY <2>1, <2>2, <3>1, <3>2, <3>3 DEF Matches
  <2>6. CASE Web.op \in {"approve", "configure", "quarantine", "forget"}
    <3>1. RegistryTarget(Web) \in {"quarantined", "none"}
      BY <2>6 DEF RegistryTarget, Pairing
    <3> QED BY <2>1, <2>2, <3>1 DEF Matches, Active
  <2>7. Web.op \notin {"reconfigure", "expel", "erase"}
    BY <1>0, <1>1, <1>4, OmitsTail DEF JobSound, Unregistered
  <2> QED BY <2>3, <2>4, <2>5, <2>6, <2>7 DEF Leased, Refreshing, Canonical
<1>5. ASSUME s = "credential"
      PROVE  \A p \in Participant :
               \/ Matches(ram'.registry[p], ram'.credential[p])
               \/ Between(Web', p)
  <2>1. /\ ram'.registry = ram.registry
        /\ ram'.credential[Web.who] = CredentialTarget(Web)
        /\ \A p \in Participant \ {Web.who} :
             ram'.credential[p] = ram.credential[p]
    BY <1>0, <1>2, <1>5, EngineWrites
  <2>2. \A p \in Participant \ {Web.who} :
          Matches(ram'.registry[p], ram'.credential[p])
    BY <1>1, <2>1 DEF CredentialsKept, Between
  <2>3. CASE Web.op = "activate"
    <3>1. Web.todo = <<"credential", "registry", "config">>
      BY <1>2, <1>5, <2>3, CredentialCourse
    <3>2. Advanced(Web, s) = <<"registry", "config">>
      BY <1>5, <3>1, Tails DEF Advanced
    <3>3. /\ <<"registry", "config">> # << >>
          /\ Head(<<"registry", "config">>) = "registry"
      OBVIOUS
    <3>4. Between(Web', Web.who)
      BY <1>1, <2>3, <3>2, <3>3 DEF Between, Same
    <3> QED BY <2>2, <3>4
  <2>4. CASE Web.op \in {"revoke", "expel"}
    <3>1. Omits(Web.todo, "registry")
      BY <1>2, <1>5, <2>4, CredentialCourse
    <3>2. ram.registry[Web.who] \in {"revoked", "none"}
      BY <1>2, <2>4, <3>1 DEF Recorded
    <3>3. CredentialTarget(Web) \in {"none", "disabled"}
      BY <2>4 DEF CredentialTarget, Pairing
    <3> QED BY <2>1, <2>2, <3>2, <3>3 DEF Matches, Active
  <2>5. CASE Web.op \in {"forget", "erase"}
    <3>1. CredentialTarget(Web) = "none"
      BY <2>5 DEF CredentialTarget, Pairing
    <3> QED BY <2>1, <2>2, <3>1 DEF Matches
  <2> QED BY <1>2, <1>5, <2>3, <2>4, <2>5, CredentialCourse
<1>6. ASSUME s \notin {"registry", "credential"}
      PROVE  \A p \in Participant : Matches(ram'.registry[p],
                                            ram'.credential[p])
  <2>1. ram'.registry = ram.registry /\ ram'.credential = ram.credential
    BY <1>0, <1>2, <1>6, EngineWrites
  <2> QED BY <1>1, <1>6, <2>1 DEF CredentialsKept, Between
<1>7. ASSUME Works(Web', {"activate"}), Head(Web'.todo) = "registry"
      PROVE  ram'.credential[Web'.who] # "disabled"
  <2>1. /\ Web.op = "activate" /\ Web'.who = Web.who
        /\ Web'.todo = Advanced(Web, s)
    BY <1>1, <1>7, IdleType DEF Works, Same
  <2>2. Advanced(Web, s) = Tail(Web.todo)
    BY <1>7, <2>1 DEF Advanced
  <2>3. s = "credential"
    BY <1>1, <1>2, <1>7, <2>1, <2>2, IdleType, ActivateCourse DEF Works
  <2>4. ram'.credential[Web.who] = CredentialTarget(Web)
    BY <1>0, <1>2, <2>3, EngineWrites
  <2>5. CredentialTarget(Web) # "disabled"
    BY <2>1 DEF CredentialTarget, Pairing
  <2> QED BY <2>1, <2>4, <2>5
<1> QED BY <1>3, <1>4, <1>5, <1>6, <1>7 DEF CredentialsKept

(* The loop's writes and the web server's that take no lease.              *)
LEMMA OtherMatched ==
  ASSUME CredentialInv, Matched(ram.registry, ram.credential),
         NEW t \in Task, Write(t), job[t].op \notin Leased, broken = {}
  PROVE  Matched(ram'.registry, ram'.credential)
<1> DEFINE j == job[t]
           s == Head(j.todo)
<1>0. /\ JobsInv /\ CourseInv /\ ram \in Disk /\ {"web", "loop"} = Task
  BY Tasks DEF CredentialInv, RecordInv, HeldInv
<1>1. /\ ~j.undo /\ s \in Store /\ j.todo \in Remaining(j.op)
      /\ j.todo \in Seq(Store) /\ j.todo # << >>
      /\ j.op \in Pairing \cup {"roster", "reset", "settle"}
  <2>1. ~j.undo /\ s \in Store /\ j.op # "none" /\ j \in Jobs
        /\ j.todo \in Seq(Store) /\ j.todo # << >>
    BY <1>0, WroteJob
  <2> QED BY <1>0, <2>1 DEF CourseInv, OnCourse, Jobs, Operation
<1>2. /\ s # "registry" => ram'["registry"] = ram["registry"]
      /\ s = "registry" => ram'["registry"] = Target(j, "registry")
      /\ s # "credential" => ram'["credential"] = ram["credential"]
      /\ s = "credential" => ram'["credential"] = Target(j, "credential")
  BY <1>0, WroteStores DEF Store, Relations
<1>3. CASE j.op = "reset"
  <2>1. /\ Target(j, "registry") = NoMembers
        /\ Target(j, "credential") = NoMembers
    BY <1>3 DEF Target, Relations
  <2>2. \A p \in Participant : NoMembers[p] = "none"
    BY DEF NoMembers, Cleared
  <2> HIDE DEF s
  <2> QED BY <1>2, <2>1, <2>2, Fields DEF Matched, Matches, Active
<1>4. CASE j.op \in {"roster", "settle"}
  <2>1. s \notin {"registry", "credential"}
    BY <1>1, <1>4 DEF Remaining
  <2> QED BY <1>2, <2>1, Fields
<1>5. CASE j.op \in Pairing
  <2>1. t = "loop"
    BY <1>0, <1>5
    DEF JobsInv, TasksApart, Pairing, Leased, Refreshing, Canonical
  <2>2. j.who \in Participant /\ Recorded(j, ram.registry)
    BY <1>1, <1>5, <2>1
       DEF CredentialInv, RecordInv, LoopRecorded, Works, Loop
  <2>3. /\ Target(j, "registry")
             = [ram.registry EXCEPT ![j.who] = "quarantined"]
        /\ Target(j, "credential")
             = [ram.credential EXCEPT ![j.who] = "enabled"]
    BY <1>5 DEF Target, Pairing, RegistryTarget, CredentialTarget
  <2>4. /\ ram.registry \in [Participant -> Standing]
        /\ ram.credential \in [Participant -> Credential]
    BY <1>0 DEF Disk
  <2>5. s = "credential" => ram.registry[j.who] = "quarantined"
    <3>1. s = "credential" => Omits(j.todo, "registry")
      <4> SUFFICES ASSUME NEW q, q = j.todo, Head(q) = "credential"
                   PROVE  Omits(q, "registry")
        OBVIOUS
      <4>1. Omits(<<"credential">>, "registry")
        BY DEF Omits
      <4>2. Omits(<<"credential", "config">>, "registry")
        BY DEF Omits
      <4>3. Omits(<<"credential", "membership">>, "registry")
        BY DEF Omits
      <4>4. Omits(<<"credential", "membership", "config">>, "registry")
        BY DEF Omits
      <4>5. CASE j.op = "lead"
        BY <1>1, <4>1, <4>2, <4>5 DEF Remaining
      <4>6. CASE j.op = "join"
        BY <1>1, <4>3, <4>4, <4>6 DEF Remaining
      <4> QED BY <1>5, <4>5, <4>6 DEF Pairing
    <3> QED BY <1>5, <2>2, <3>1 DEF Recorded
  <2>6. CASE s = "registry"
    <3>1. /\ ram'.registry = [ram.registry EXCEPT ![j.who] = "quarantined"]
          /\ ram'.credential = ram.credential
      BY <1>2, <2>3, <2>6, Fields
    <3> QED BY <2>2, <2>4, <3>1 DEF Matched, Matches, Active
  <2>7. CASE s = "credential"
    <3>1. /\ ram'.credential = [ram.credential EXCEPT ![j.who] = "enabled"]
          /\ ram'.registry = ram.registry
      BY <1>2, <2>3, <2>7, Fields
    <3> QED BY <2>2, <2>4, <2>5, <2>7, <3>1 DEF Matched, Matches, Active
  <2>8. CASE s \notin {"registry", "credential"}
    BY <1>2, <2>8, Fields
  <2> QED BY <2>6, <2>7, <2>8
<1> QED BY <1>1, <1>3, <1>4, <1>5

(* An operation of the engine that ends without success has put back what  *)
(* it found.                                                               *)
LEMMA ReturnMatched ==
  ASSUME CredentialInv, CredentialsKept, broken' = {},
         \/ Refuse("web") \/ Fail("web") \/ Restore("web")
         \/ RestoreFails("web"),
         Web.op \in Leased
  PROVE  CredentialsKept'
<1>0. /\ JobsInv /\ "web" \in Task /\ "none" \notin Leased /\ broken = {}
      /\ HeldInv /\ HeldInv'
  BY Tasks, HeldStep, BrokenGrows
     DEF CredentialInv, RecordInv, HeldInv, Next, Proceeds
<1>1. \/ Web' = Idle
      \/ Same(Web', Web) /\ Web'.undo
  BY <1>0, AbandonedJob, RestoredJob, UnrestoredJob DEF Refuse, Fail, Web
<1>2. CASE Same(Web', Web) /\ Web'.undo
  BY <1>2 DEF CredentialsKept, Same, Works
<1>3. CASE Web' = Idle
  <2>1. Web'.op = "none" /\ Web.op # "none"
    BY <1>0, <1>3, IdleType
  <2>2. \/ (Refuse("web") \/ Fail("web")) /\ Undoing(Web) = << >>
        \/ Restore("web") /\ Tail(Web.todo) = << >> /\ Web.sound
    <3>1. CASE Refuse("web") \/ Fail("web")
      BY <1>0, <2>1, <3>1, AbandonedJob DEF Refuse, Fail, Web, Same
    <3>2. CASE Restore("web")
      <4>1. Tail(Web.todo) # << >> => Same(Web', Web)
        BY <1>0, <3>2, RestoredJob DEF Web
      <4>2. Tail(Web.todo) = << >> /\ ~Web.sound =>
              broken' = broken \cup {Web.op}
        BY <1>0, <3>2, RestoredJob DEF Web
      <4> QED BY <1>0, <2>1, <3>2, <4>1, <4>2 DEF Same
    <3>3. CASE RestoreFails("web")
      <4>1. \/ broken' = broken \cup {Web.op}
            \/ Same(Web', Web)
        BY <1>0, <3>3, UnrestoredJob DEF Web
      <4> QED BY <1>0, <2>1, <4>1 DEF Same
    <3> QED BY <3>1, <3>2, <3>3
  <2>3. \A x \in Relations : flash'[x] = Web.saved[x]
    BY <1>0, <2>2, Returned DEF Undamaged
  <2>4. /\ flash'["registry"] = ram'["registry"]
        /\ flash'["credential"] = ram'["credential"]
    BY <1>0 DEF HeldInv, StoresAgree
  <2>5. /\ ram'.registry = Web.saved["registry"]
        /\ ram'.credential = Web.saved["credential"]
    BY <2>3, <2>4, Fields DEF Relations
  <2>6. Matched(ram'.registry, ram'.credential)
    BY <2>5, Fields DEF CredentialsKept
  <2> QED BY <1>0, <2>1, <2>6, NowMatched
<1> QED BY <1>1, <1>2, <1>3

(* The other transactions that fail.                                       *)
LEMMA OtherFails ==
  ASSUME CredentialInv, CredentialsKept, broken' = {}, NEW t \in Task,
         Refuse(t) \/ Fail(t) \/ Restore(t) \/ RestoreFails(t),
         job[t].op \notin Leased
  PROVE  CredentialsKept'
<1>0. /\ JobsInv /\ CourseInv /\ {"web", "loop"} = Task
      /\ "none" \notin Leased
  BY Tasks DEF CredentialInv, RecordInv, HeldInv
<1>1. ram'.registry = ram.registry /\ ram'.credential = ram.credential
  <2>1. CASE Refuse(t) \/ Fail(t)
    <3>1. job[t].op # "reset"
      BY <2>1, AbandonedReset DEF Refuse, Fail
    <3>2. job[t].op # "erase"
      BY DEF Leased, Canonical
    <3> QED BY <1>0, <2>1, <3>1, <3>2, FailsUnchanged
  <2>2. CASE Restore(t)
    <3>1. job[t].op = "join" /\ job[t].undo
      BY <1>0, <2>2, RestoredJob
    <3>2. Head(job[t].todo) = "membership"
      BY <3>1 DEF CredentialInv, RecordInv, HeldInv, CourseInv, OnCourse
    <3>3. /\ ram'["registry"] = ram["registry"]
          /\ ram'["credential"] = ram["credential"]
      BY <1>0, <2>2, <3>2, RestoredJob DEF Store, Relations
    <3> QED BY <3>3, Fields
  <2>3. CASE RestoreFails(t)
    BY <1>0, <2>3, UnrestoredJob
  <2> QED BY <2>1, <2>2, <2>3
<1>2. \/ Web' = Web
      \/ Web.op \notin Leased /\ Web'.op \notin Leased
  <2>1. Others(t) /\ job'[t].op \in {job[t].op, "none"}
    BY <1>0, AbandonedJob, RestoredJob, UnrestoredJob, IdleType
       DEF Refuse, Fail, Same
  <2> QED BY <1>0, <2>1 DEF Others, Web
<1> QED BY <1>1, <1>2, StillMatched, IdleMatched, NowMatched

LEMMA CredentialStep ==
  ASSUME CredentialInv, [Next]_vars
  PROVE  CredentialInv'
<1>0. /\ RecordInv' /\ JobsInv /\ StoresAgree /\ ram \in Disk
      /\ HeldInv /\ {"web", "loop"} = Task /\ "none" \notin Leased
  BY RecordStep, Tasks DEF CredentialInv, RecordInv, HeldInv
<1> SUFFICES ASSUME broken' = {} PROVE CredentialsKept'
  BY <1>0 DEF CredentialInv
<1>1. broken = {} /\ CredentialsKept
  BY BrokenGrows DEF CredentialInv
<1>2. ASSUME Web' = Web, ram' = ram PROVE CredentialsKept'
  BY <1>1, <1>2, StillMatched
<1>3. CASE Operates
  <2>1. PICK t \in Task : \E op, p, arg, steps : Opens(t, op, p, arg, steps)
    BY <1>0, <1>3, OperatesOpens
  <2>2. PICK op, p, arg, steps : Opens(t, op, p, arg, steps)
    BY <2>1
  <2>3. /\ job'[t].op = op /\ job'[t].who = p /\ job'[t].todo = steps
        /\ ram' = ram /\ Others(t) /\ job[t].op = "none" /\ ~job'[t].undo
        /\ op \in Leased => /\ job'[t].saved.registry = ram.registry
                            /\ job'[t].saved.credential = ram.credential
    BY <1>0, <2>2, OpenedJob
  <2>4. CASE t = "loop"
    <3>1. Web' = Web
      BY <1>0, <2>3, <2>4 DEF Others, Web
    <3> QED BY <1>2, <2>3, <3>1
  <2>5. CASE t = "web"
    <3>1. Matched(ram.registry, ram.credential)
      BY <1>0, <1>1, <2>3, <2>5, IdleMatched DEF Web
    <3>2. op = "activate" /\ Head(steps) = "registry" =>
            ram.credential[p] # "disabled"
      BY <2>2 DEF Opens, Qualified
    <3> QED BY <2>3, <2>5, <3>1, <3>2 DEF CredentialsKept, Matched, Works, Web
  <2> QED BY <1>0, <2>4, <2>5
<1>4. CASE Settle
  <2>1. Web' = Web /\ ram' = ram
    BY <1>0, <1>4, SettledJob DEF Others, Web
  <2> QED BY <1>2, <2>1
<1>5. CASE DeferMembership
  <2>1. /\ Web'.op = "none" /\ ram' = ram /\ ~Web.undo
        /\ Head(Web.todo) = "membership"
    BY <1>0, <1>5, DeferredJob, IdleType DEF Web
  <2>2. Matched(ram.registry, ram.credential)
    BY <1>1, <2>1 DEF CredentialsKept, Matched, Between
  <2> QED BY <1>0, <2>1, <2>2, NowMatched
<1>6. CASE PowerCut
  <2>1. ~Busy("web")
    BY <1>0, <1>6, CutJobs
  <2>2. Matched(ram.registry, ram.credential)
    BY <1>0, <1>1, <2>1, IdleMatched DEF Busy, Web
  <2>3. Web'.op = "none" /\ ram' = Repaired(flash)
    BY <1>0, <1>6, CutJobs, IdleType DEF Web
  <2>4. /\ Repaired(flash)["registry"] = flash["registry"]
        /\ Repaired(flash)["credential"] = flash["credential"]
    BY <1>0, Tasks, RepairedStores DEF Relations
  <2>5. flash["registry"] = ram["registry"]
        /\ flash["credential"] = ram["credential"]
    BY <1>0, <1>1 DEF StoresAgree
  <2>6. ram'.registry = ram.registry /\ ram'.credential = ram.credential
    BY <2>3, <2>4, <2>5, Fields
  <2> QED BY <1>0, <2>2, <2>3, <2>6, NowMatched
<1>7. CASE Idles
  BY <1>2, <1>7, IdlesNothing DEF Web
<1>8. ASSUME NEW p \in Node, PullConfiguration(p) PROVE CredentialsKept'
  <2>1. /\ ram'["registry"] = ram["registry"] /\ job' = job
        /\ ram'["credential"] = ram["credential"]
    BY <1>0, <1>8, PulledStores DEF Relations
  <2> QED BY <1>1, <2>1, Fields, StillMatched DEF Web
<1>9. ASSUME NEW t \in Task, Write(t), job[t].op \in Leased
      PROVE  CredentialsKept'
  <2>1. t = "web"
    BY <1>0, <1>9
       DEF JobsInv, TasksApart, Pairing, Leased, Refreshing, Canonical
  <2> QED BY <1>1, <1>9, <2>1, WriteMatched DEF Web
<1>10. ASSUME NEW t \in Task, Write(t), job[t].op \notin Leased
       PROVE  CredentialsKept'
  <2>1. Others(t) /\ job'[t].op \in {job[t].op, "none"}
    BY <1>0, <1>10, WroteJob, IdleType DEF Same
  <2>2. CASE Web.op \in Leased
    <3>1. t = "loop"
      BY <1>0, <1>10, <2>2 DEF Web
    <3> QED BY <1>0, <1>1, <1>10, <2>2, <3>1, SettlesAlone, StillMatched
  <2>3. CASE Web.op \notin Leased
    <3>1. Web'.op \notin Leased
      BY <1>0, <1>10, <2>1, <2>3 DEF Others, Web
    <3>2. Matched(ram'.registry, ram'.credential)
      BY <1>1, <1>10, <2>3, IdleMatched, OtherMatched
    <3> QED BY <3>1, <3>2, NowMatched
  <2> QED BY <2>2, <2>3
<1>11. ASSUME NEW t \in Task, job[t].op \in Leased,
              Refuse(t) \/ Fail(t) \/ Restore(t) \/ RestoreFails(t)
       PROVE  CredentialsKept'
  <2>1. t = "web"
    BY <1>0, <1>11
       DEF JobsInv, TasksApart, Pairing, Leased, Refreshing, Canonical
  <2> QED BY <1>1, <1>11, <2>1, ReturnMatched DEF Web
<1>12. ASSUME NEW t \in Task, job[t].op \notin Leased,
              Refuse(t) \/ Fail(t) \/ Restore(t) \/ RestoreFails(t)
       PROVE  CredentialsKept'
  BY <1>1, <1>12, OtherFails
<1> QED BY <1>3, <1>4, <1>5, <1>6, <1>7, <1>8, <1>9, <1>10, <1>11, <1>12,
           StepCases

LEMMA CredentialInit == Init => CredentialInv
<1> SUFFICES ASSUME Init PROVE CredentialInv
  OBVIOUS
<1>1. PICK start \in Setup : ram = start.disk
  BY DEF Init
<1>2. Web.op = "none" /\ "none" \notin Leased /\ RecordInv
  BY RecordInit, IdleType, Tasks DEF Init, Web, RecordInv, HeldInv
<1>3. Matched(ram.registry, ram.credential)
  BY <1>1, SetupAssumption DEF Matched, Matches
<1> QED BY <1>2, <1>3 DEF CredentialInv, CredentialsKept, Matched, Works

(* CredentialsFollow holds for any numbers of participants and Sites: when *)
(* no transaction is at work and none was left half done, a revoked        *)
(* participant has no credential that works, and an ACTIVE one none that   *)
(* has been disabled.                                                      *)
THEOREM CredentialsFollowed == Spec => []CredentialsFollow
<1>1. CredentialInv /\ [Next]_vars => CredentialInv'
  BY CredentialStep
<1>2. CredentialInv => CredentialsFollow
  <2> SUFFICES ASSUME CredentialInv, Quiet, broken = {}
               PROVE  Matched(flash.registry, flash.credential)
    BY DEF CredentialsFollow, Matched, Matches
  <2>1. Web.op \notin Leased
    BY Tasks DEF CredentialInv, RecordInv, HeldInv, Quiet, Busy, Web
  <2>2. /\ flash["registry"] = ram["registry"]
        /\ flash["credential"] = ram["credential"]
    BY DEF CredentialInv, RecordInv, HeldInv, StoresAgree
  <2> QED BY <2>1, <2>2, Fields, IdleMatched DEF CredentialInv
<1> QED BY <1>1, <1>2, CredentialInit, PTL DEF Spec

-----------------------------------------------------------------------------
(* A Site of its own                                                       *)

(* What each operation makes of the configuration and the membership.      *)
LEMMA StandaloneOwned ==
  ASSUME NEW d
  PROVE  /\ StandaloneConfiguration(d).owner = Self
         /\ StandaloneConfiguration(d).site = d.membership.site
BY DEF StandaloneConfiguration, Standalone, OwnedHere, SameSite, Created,
       OwnedRoster

KeepsOwner(c) ==
  c.owner = ram.config.owner /\ c.site = ram.config.site

LEMMA ConfigEffect ==
  ASSUME ram \in Disk, NEW j
  PROVE  LET c == ConfigTarget(j)
         IN  /\ j.op \in Leased =>
                  \/ KeepsOwner(c)
                  \/ /\ j.op \in Refreshing /\ ~Staged(j)
                     /\ Related(ram) = {} /\ c = StandaloneConfiguration(ram)
             /\ j.op \in {"lead", "roster"} =>
                  c.owner = Self /\ c.site = ram.config.site
             /\ j.op = "settle" => c = StandaloneConfiguration(ram)
             /\ j.op = "join" => c.site = ram.membership.site
             /\ j.op = "reset" => c = Created(j.arg)
<1> DEFINE c == ConfigTarget(j)
<1>1. CASE j.op \in Refreshing
  <2>1. CASE Staged(j)
    <3>1. c = ram.config
      BY <1>1, <2>1 DEF ConfigTarget, Staged
    <3> QED BY <1>1, <3>1 DEF KeepsOwner, Refreshing
  <2>2. CASE ~Staged(j)
    <3>1. c = Refreshed
      BY <1>1, <2>2 DEF ConfigTarget, Refreshing
    <3>2. \/ KeepsOwner(c)
          \/ Related(ram) = {} /\ c = StandaloneConfiguration(ram)
      BY <3>1 DEF Refreshed, KeepsOwner, OwnedRoster, OwnedHere
    <3> QED BY <1>1, <2>2, <3>2 DEF Refreshing
  <2> QED BY <2>1, <2>2
<1>2. CASE j.op \in {"promote", "demote"}
  <2>1. c = [ram.config EXCEPT !.member[j.who] = Eligibility(j)]
    BY <1>2 DEF ConfigTarget, Staged
  <2> QED BY <1>2, <2>1 DEF KeepsOwner, Disk, Configuration
<1>3. CASE j.op \in Canonical
  <2>1. \/ c = [ram.config EXCEPT !.member[j.who] = "revoked"]
        \/ c = [ram.config EXCEPT !.member[j.who] = "none"]
    BY <1>3 DEF ConfigTarget, Staged, Canonical
  <2> QED BY <1>3, <2>1 DEF KeepsOwner, Disk, Configuration, Canonical
<1>4. CASE j.op \in {"lead", "roster"}
  <2>1. c = OwnedRoster(ram)
    BY <1>4 DEF ConfigTarget, Staged
  <2> QED BY <1>4, <2>1
          DEF OwnedRoster, Leased, Refreshing, Canonical
<1>5. CASE j.op = "join"
  <2>1. c = Joining(ram.membership.site)
    BY <1>5 DEF ConfigTarget, Staged
  <2> QED BY <1>5, <2>1 DEF Joining, Leased, Refreshing, Canonical
<1>6. CASE j.op = "settle"
  <2>1. c = StandaloneConfiguration(ram)
    BY <1>6 DEF ConfigTarget, Staged
  <2> QED BY <1>6, <2>1 DEF Leased, Refreshing, Canonical
<1>7. CASE j.op = "reset"
  <2>1. c = Created(j.arg)
    BY <1>7 DEF ConfigTarget, Staged
  <2> QED BY <1>7, <2>1 DEF Leased, Refreshing, Canonical
<1> HIDE DEF c
<1> QED BY <1>1, <1>2, <1>3, <1>4, <1>5, <1>6, <1>7 DEF c, Leased

(* Who writes the membership, and when.                                    *)
LEMMA MembershipLast ==
  ASSUME NEW op, NEW todo \in Remaining(op), Head(todo) = "membership"
  PROVE  \/ op \in Refreshing \cup {"settle"} /\ todo = <<"membership">>
         \/ op = "join" /\ \/ todo = <<"membership">>
                           \/ todo = <<"membership", "config">>
         \/ op = "reset"
<1>1. CASE op \in {"approve", "quarantine", "configure", "reconfigure",
                   "activate", "revoke", "forget"}
  <2>1. todo = <<"membership">>
    <3>1. CASE op \in {"approve", "quarantine", "configure"}
      BY <3>1 DEF Remaining, Settling
    <3>2. CASE op \in {"reconfigure", "activate"}
      BY <3>2 DEF Remaining, Settling
    <3>3. CASE op \in {"revoke", "forget"}
      BY <3>3 DEF Remaining, Settling
    <3> QED BY <1>1, <3>1, <3>2, <3>3
  <2> QED BY <1>1, <2>1 DEF Refreshing
<1>2. CASE op \in {"promote", "demote", "expel", "erase", "roster"}
  BY <1>2 DEF Remaining
<1>3. CASE op = "lead"
  BY <1>3 DEF Remaining
<1>4. CASE op = "join"
  BY <1>4 DEF Remaining
<1>5. CASE op = "settle"
  BY <1>5 DEF Remaining
<1>6. CASE op = "reset"
  BY <1>6
<1> QED BY <1>1, <1>2, <1>3, <1>4, <1>5, <1>6 DEF Remaining

(* What one write does to configuration, membership and registry.          *)
LEMMA SiteWritten ==
  ASSUME JobsInv, CourseInv, StoresAgree, NEW t \in Task, Write(t)
  PROVE  LET j == job[t]
             s == Head(j.todo)
         IN  /\ j.todo \in Remaining(j.op) /\ s \in Store
             /\ s # "config" => ram'.config = ram.config
             /\ s = "config" => ram'.config = ConfigTarget(j)
             /\ s # "membership" => ram'.membership = ram.membership
             /\ s = "membership" => ram'.membership = MembershipTarget(j)
             /\ s # "registry" => ram'.registry = ram.registry
             /\ s = "registry" => ram'.registry = Target(j, "registry")
<1> DEFINE j == job[t]
           s == Head(j.todo)
<1>1. /\ j.todo \in Remaining(j.op) /\ s \in Store
  BY WroteJob DEF CourseInv, OnCourse
<1>2. /\ s # "config" => ram'["config"] = ram["config"]
      /\ s = "config" => ram'["config"] = Target(j, "config")
      /\ s # "membership" => ram'["membership"] = ram["membership"]
      /\ s = "membership" => ram'["membership"] = Target(j, "membership")
      /\ s # "registry" => ram'["registry"] = ram["registry"]
      /\ s = "registry" => ram'["registry"] = Target(j, "registry")
  BY WroteStores DEF Store, Relations
<1>3. /\ Target(j, "config") = ConfigTarget(j)
      /\ Target(j, "membership") = MembershipTarget(j)
  BY DEF Target, Relations
<1> QED BY <1>1, <1>2, <1>3, Fields

(* The reset clears the registry before it moves.                          *)
LEMMA ResetCleared ==
  ASSUME NEW todo \in Remaining("reset"),
         Omits(todo, "membership") \/ Omits(todo, "config")
  PROVE  Omits(todo, "registry")
<1>1. \/ todo = <<"credential", "readiness", "registry", "membership",
                  "config", "directory">>
      \/ todo = <<"readiness", "registry", "membership", "config",
                  "directory">>
      \/ todo = <<"registry", "membership", "config", "directory">>
      \/ todo = <<"membership", "config", "directory">>
      \/ todo = <<"config", "directory">>
      \/ todo = <<"directory">>
  BY DEF Remaining
<1>2. CASE todo = <<"credential", "readiness", "registry", "membership",
                    "config", "directory">>
  <2>1. Len(todo) = 6 /\ todo[4] = "membership" /\ todo[5] = "config"
    BY <1>2
  <2> QED BY <2>1 DEF Omits
<1>3. CASE todo = <<"readiness", "registry", "membership", "config",
                    "directory">>
  <2>1. Len(todo) = 5 /\ todo[3] = "membership" /\ todo[4] = "config"
    BY <1>3
  <2> QED BY <2>1 DEF Omits
<1>4. CASE todo = <<"registry", "membership", "config", "directory">>
  <2>1. Len(todo) = 4 /\ todo[2] = "membership" /\ todo[3] = "config"
    BY <1>4
  <2> QED BY <2>1 DEF Omits
<1>5. CASE todo = <<"membership", "config", "directory">>
  BY <1>5 DEF Omits
<1>6. CASE todo = <<"config", "directory">>
  BY <1>6 DEF Omits
<1>7. CASE todo = <<"directory">>
  BY <1>7 DEF Omits
<1> QED BY <1>1, <1>2, <1>3, <1>4, <1>5, <1>6, <1>7

(* No pairing and no reset was cut short.                                  *)
Hurt == broken \cap {"join", "reset"} # {}

(* A joiner has moved, and its configuration has not followed yet.         *)
Moved == Loop.op = "join" /\ "membership" \in Loop.done

(* The configuration a device owns is for the Site it is a member of,      *)
(* between any two writes but those of a reset or of a move; so it is      *)
(* found again after a power cut that meets neither.                       *)
SiteSound ==
  /\ ready /\ ~Loop.undo
  /\ Web.op = "reset" \/ Loaded(ram) \/ Moved
  /\ Moved => Loop.todo = <<"config">>
  /\ Web.op = "roster" => SameSite(ram) \/ Moved
  /\ Loop.op = "join" /\ Omits(Loop.todo, "config") =>
       Loop.arg = ram.membership.site
  /\ Web.op = "reset" =>
       /\ Omits(Web.todo, "membership") =>
            ram.membership = [site |-> Web.arg, mode |-> "standalone"]
       /\ Omits(Web.todo, "config") => ram.config = Created(Web.arg)

(* The engine restores relations only.                                     *)
RelationsRestored == Web.undo => Omits(Web.todo, "membership")

SiteInv == RecordInv /\ RelationsRestored /\ (Hurt \/ SiteSound)

LEMMA SiteFrame ==
  ASSUME SiteSound, Web.op # "reset", Web'.op \in {Web.op, "none"},
         ready' = ready, ram'.config.owner = ram.config.owner,
         ram'.config.site = ram.config.site,
         ram'.membership.site = ram.membership.site,
         \/ Loop' = Loop
         \/ ~Moved /\ ~Loop'.undo /\ Loop'.op # "join"
  PROVE  SiteSound'
<1>1. /\ Loaded(ram') <=> Loaded(ram)
      /\ SameSite(ram') <=> SameSite(ram)
  BY DEF Loaded, SameSite
<1>2. Web'.op # "reset" /\ (Web'.op = "roster" => Web.op = "roster")
  OBVIOUS
<1> QED BY <1>1, <1>2 DEF SiteSound, Moved

(* A device that has its configuration where its membership is.            *)
LEMMA SiteSettled ==
  ASSUME SiteSound, Web.op # "reset", Web'.op \in {Web.op, "none"},
         ready' = ready, SameSite(ram'), ~Loop'.undo, Loop'.op # "join"
  PROVE  SiteSound'
BY DEF SiteSound, Loaded, Moved

LEMMA OpensSite ==
  ASSUME JobsInv, SiteSound, NEW t \in Task, NEW op, NEW p, NEW arg,
         NEW steps, Opens(t, op, p, arg, steps), ~Hurt'
  PROVE  SiteSound'
<1> DEFINE k == job'[t]
<1>0. {"web", "loop"} = Task /\ Task = {"web", "loop"}
  BY Tasks
<1>1. /\ job[t].op = "none" /\ Others(t)
      /\ k.op = op /\ k.arg = arg /\ k.todo = steps
      /\ k.done = {} /\ ~k.undo
      /\ ram' = ram /\ ready' = ready /\ broken' = broken \cup Across(op)
  BY OpenedJob
<1>2. Qualified(op, p, arg, steps) /\ ready
  BY DEF Opens, SiteSound
<1>3. CASE t = "web"
  <2>1. Loop' = Loop /\ Web' = k /\ Web.op = "none"
    BY <1>0, <1>1, <1>3 DEF Others, Loop, Web
  <2>2. op = "roster" => SameSite(ram)
    BY <1>2 DEF Qualified
  <2>3. op = "reset" => /\ ~Omits(steps, "membership")
                        /\ ~Omits(steps, "config")
    BY <1>2 DEF Qualified
  <2>4. Moved' <=> Moved
    BY <2>1 DEF Moved
  <2> HIDE DEF k
  <2> QED BY <1>1, <2>1, <2>2, <2>3, <2>4 DEF SiteSound
<1>4. CASE t = "loop"
  <2>1. Loop' = k /\ Web' = Web /\ Loop.op = "none"
    BY <1>0, <1>1, <1>4 DEF Others, Loop, Web
  <2>2. Web.op # "reset"
    <3>1. Web.op = "reset" => "reset" \in Across(op)
      BY <1>0 DEF Across, Web, Busy
    <3> QED BY <1>1, <3>1 DEF Hurt
  <2>3. ~Moved /\ ~Moved'
    BY <1>1, <2>1 DEF Moved
  <2>4. op = "join" /\ Omits(steps, "config") => arg = ram.membership.site
    BY <1>2 DEF Qualified
  <2> HIDE DEF k
  <2> QED BY <1>1, <2>1, <2>2, <2>3, <2>4 DEF SiteSound
<1> QED BY <1>0, <1>3, <1>4

LEMMA ResetAlone ==
  ASSUME RecordInv, ~Hurt, Web.op = "reset"
  PROVE  /\ Loop.op = "none"
         /\ Omits(Web.todo, "registry") => ram.registry = NoMembers
BY DEF RecordInv, ProfileInv, ProfilesKept, Hurt, Busy, Web, Loop

LEMMA PullSite ==
  ASSUME RecordInv, SiteSound, ~Hurt, NEW p \in Node, PullConfiguration(p)
  PROVE  SiteSound'
<1>0. JobsInv /\ CourseInv /\ StoresAgree
  BY DEF RecordInv, HeldInv
<1>1. /\ ram'.membership.site = ram.membership.site
      /\ ram'.config.site = ram.membership.site
      /\ p \in Participant /\ ram.registry[p] = "quarantined"
      /\ ready' = ready /\ job' = job
  BY <1>0, PulledStores
<1>2. Loop.op = "none" /\ Web' = Web /\ Loop' = Loop
  BY <1>1 DEF PullConfiguration, Busy, Loop, Web
<1>3. Web.op = "reset" => /\ ~Omits(Web.todo, "membership")
                          /\ ~Omits(Web.todo, "config")
  <2> SUFFICES ASSUME Web.op = "reset",
                      Omits(Web.todo, "membership") \/ Omits(Web.todo, "config")
               PROVE  FALSE
    OBVIOUS
  <2>1. Web.todo \in Remaining("reset")
    <3>1. ~Web.undo /\ "web" \in Task
      BY <1>0, Tasks DEF JobsInv, JobSound, Web
    <3> QED BY <1>0, <3>1 DEF CourseInv, OnCourse, Web
  <2>2. Omits(Web.todo, "registry")
    BY <2>1, ResetCleared
  <2>3. ram.registry = NoMembers
    BY <2>2, ResetAlone
  <2> QED BY <1>1, <2>3 DEF NoMembers, Cleared
<1>4. SameSite(ram') /\ ~Loop'.undo
  BY <1>1, <1>2 DEF SameSite, SiteSound
<1>5. Loaded(ram')
  BY <1>4 DEF Loaded
<1> QED BY <1>1, <1>2, <1>3, <1>4, <1>5 DEF SiteSound, Moved

LEMMA CutSite ==
  ASSUME RecordInv, SiteSound, PowerCut, ~Hurt'
  PROVE  SiteSound'
<1>0. JobsInv /\ StoresAgree /\ {"web", "loop"} = Task /\ flash \in Disk
  BY Tasks DEF RecordInv, HeldInv
<1>1. /\ Web'.op = "none" /\ Loop'.op = "none" /\ ~Loop'.undo
      /\ ram' = Repaired(flash) /\ ready' = Loaded(flash)
      /\ \A t \in Task : Busy(t) => job[t].op \in broken'
  BY <1>0, CutJobs, IdleType DEF Web, Loop
<1>2. Web.op # "reset" /\ Loop.op # "join"
  BY <1>0, <1>1 DEF Hurt, Busy, Web, Loop
<1>3. Loaded(flash)
  <2>1. Loaded(ram)
    BY <1>2 DEF SiteSound, Moved
  <2>2. /\ flash["config"] = ram["config"]
        /\ flash["membership"] = ram["membership"]
    BY <1>0 DEF StoresAgree
  <2> QED BY <2>1, <2>2, Fields DEF Loaded, SameSite
<1>4. Loaded(ram')
  <2>1. /\ Repaired(flash)["config"] = flash["config"]
        /\ Repaired(flash).membership.site = flash.membership.site
    BY <1>0, RepairedStores
  <2>2. Repaired(flash).config = flash.config
    BY <2>1, Fields
  <2> QED BY <1>1, <1>3, <2>1, <2>2 DEF Loaded, SameSite
<1> QED BY <1>1, <1>3, <1>4 DEF SiteSound, Moved

(* The reset ends at a Site of its own.                                    *)
LEMMA ResetEnds ==
  ASSUME RecordInv, SiteSound, Write("web"), Web.op = "reset", Web' = Idle
  PROVE  /\ ram'.config = Created(Web.arg)
         /\ ram'.membership = [site |-> Web.arg, mode |-> "standalone"]
<1> DEFINE s == Head(Web.todo)
<1>0. JobsInv /\ CourseInv /\ StoresAgree /\ {"web", "loop"} = Task
  BY Tasks DEF RecordInv, HeldInv
<1>1. /\ Web.todo \in Remaining("reset")
      /\ s # "config" => ram'.config = ram.config
      /\ s # "membership" => ram'.membership = ram.membership
  BY <1>0, SiteWritten DEF Web
<1>2. Tail(Web.todo) = << >>
  <2>1. Advanced(Web, s) = << >>
    BY <1>0, WroteJob, IdleType DEF Web, Same
  <2> QED BY <2>1 DEF Advanced, Refreshing
<1>3. Web.todo = <<"directory">>
  <2>1. /\ <<"directory">> # << >>
        /\ <<"config", "directory">> # << >>
        /\ <<"membership", "config", "directory">> # << >>
        /\ <<"registry", "membership", "config", "directory">> # << >>
        /\ <<"readiness", "registry", "membership", "config",
             "directory">> # << >>
    OBVIOUS
  <2>2. CASE Web.todo \in
               {<<"credential", "readiness", "registry", "membership",
                  "config", "directory">>,
                <<"readiness", "registry", "membership", "config",
                  "directory">>}
    BY <1>2, <2>1, <2>2, Tails
  <2>3. CASE Web.todo \in
               {<<"registry", "membership", "config", "directory">>,
                <<"membership", "config", "directory">>,
                <<"config", "directory">>}
    BY <1>2, <2>1, <2>3, Tails
  <2> QED BY <1>1, <2>2, <2>3 DEF Remaining
<1>4. /\ s = "directory" /\ Omits(Web.todo, "membership")
      /\ Omits(Web.todo, "config")
  BY <1>3 DEF Omits
<1> QED BY <1>1, <1>4 DEF SiteSound

(* The writes of the web server's task.                                    *)
LEMMA WebWritesSite ==
  ASSUME RecordInv, SiteSound, ~Hurt, Write("web")
  PROVE  SiteSound'
<1> DEFINE s == Head(Web.todo)
<1>0. /\ JobsInv /\ CourseInv /\ StoresAgree /\ ram \in Disk
      /\ {"web", "loop"} = Task
  BY Tasks DEF RecordInv, HeldInv
<1>1. /\ Web.op # "none" /\ Loop' = Loop /\ ready' = ready /\ ~Loop'.undo
      /\ \/ Web' = Idle
         \/ Same(Web', Web) /\ Web'.todo = Advanced(Web, s)
  BY <1>0, WroteJob DEF Web, Loop, Others, SiteSound
<1>2. /\ Web.todo \in Remaining(Web.op) /\ s \in Store
      /\ s # "config" => ram'.config = ram.config
      /\ s = "config" => ram'.config = ConfigTarget(Web)
      /\ s # "membership" => ram'.membership = ram.membership
      /\ s = "membership" => ram'.membership = MembershipTarget(Web)
  BY <1>0, SiteWritten DEF Web
<1>3. Web'.op \in {Web.op, "none"}
  BY <1>1, IdleType DEF Same
<1>4. CASE Web.op = "reset"
  <2>1. Loop.op = "none"
    BY <1>4, ResetAlone
  <2>2. MembershipTarget(Web) = [site |-> Web.arg, mode |-> "standalone"]
    BY <1>4 DEF MembershipTarget
  <2>3. ConfigTarget(Web) = Created(Web.arg)
    BY <1>0, <1>4, ConfigEffect
  <2>4. Web' # Idle =>
          /\ Omits(Web'.todo, "config") => Omits(Web.todo, "config")
                                           \/ s = "config"
          /\ Omits(Web'.todo, "membership") => Omits(Web.todo, "membership")
                                               \/ s = "membership"
    <3>1. Web.op \notin Refreshing
      BY <1>4 DEF Refreshing
    <3>2. Web' # Idle => Web'.todo = Tail(Web.todo)
      BY <1>1, <3>1 DEF Advanced
    <3>3. Web.todo \in Seq(Store) /\ Web.todo # << >>
      BY <1>0, WroteJob DEF Web
    <3> QED BY <3>2, <3>3, OmitsAll
  <2>5. CASE Web' # Idle
    <3>1. Web'.op = "reset" /\ Web'.arg = Web.arg
      BY <1>1, <1>4, <2>5 DEF Same
    <3>2. Omits(Web'.todo, "membership") =>
            ram'.membership = [site |-> Web.arg, mode |-> "standalone"]
      BY <1>2, <1>4, <2>2, <2>4, <2>5 DEF SiteSound
    <3>3. Omits(Web'.todo, "config") => ram'.config = Created(Web.arg)
      BY <1>2, <1>4, <2>3, <2>4, <2>5 DEF SiteSound
    <3> QED BY <1>1, <2>1, <3>1, <3>2, <3>3 DEF SiteSound, Moved
  <2>6. CASE Web' = Idle
    <3>4. ram'.config = Created(Web.arg) /\ ram'.membership.site = Web.arg
      BY <1>4, <2>6, ResetEnds
    <3>5. SameSite(ram')
      BY <3>4 DEF SameSite, Created
    <3> QED BY <1>1, <2>1, <2>6, <3>5, IdleType
            DEF SiteSound, Moved, Loaded
  <2> QED BY <2>5, <2>6
<1>5. CASE Web.op # "reset" /\ s \notin {"config", "membership"}
  BY <1>1, <1>2, <1>3, <1>5, SiteFrame
<1>6. CASE Web.op # "reset" /\ s = "membership"
  <2>1. Web.op \in Refreshing \cup {"settle"}
    <3>1. Web.op # "join"
      BY <1>0 DEF JobsInv, TasksApart, Web, Leased, Refreshing, Canonical
    <3> QED BY <1>2, <1>6, <3>1, MembershipLast
  <2>2. ram'.membership.site = ram.membership.site
    BY <1>2, <1>6, <2>1 DEF MembershipTarget, Refreshing
  <2> QED BY <1>1, <1>2, <1>3, <1>6, <2>2, SiteFrame
<1>7. CASE Web.op # "reset" /\ s = "config"
  <2>1. /\ ram'.config = ConfigTarget(Web) /\ ram'.membership = ram.membership
        /\ Web.op \in Leased \cup {"roster"}
    BY <1>0, <1>1, <1>2, <1>7 DEF JobsInv, TasksApart, Web
  <2>2. CASE KeepsOwner(ConfigTarget(Web))
    BY <1>1, <1>3, <1>7, <2>1, <2>2, SiteFrame DEF KeepsOwner
  <2>3. CASE /\ Web.op \in Leased
             /\ ConfigTarget(Web) = StandaloneConfiguration(ram)
    <3>1. SameSite(ram')
      BY <2>1, <2>3, StandaloneOwned DEF SameSite
    <3>2. Loop.op # "join"
      BY <1>0, <2>3 DEF JobsInv, TasksApart, Web, Loop, Pairing
    <3> QED BY <1>1, <1>3, <1>7, <3>1, <3>2, SiteSettled
  <2>4. CASE Web.op = "roster"
    <3>1. ram'.config.site = ram.config.site
      BY <1>0, <2>1, <2>4, ConfigEffect
    <3>2. SameSite(ram') <=> SameSite(ram)
      BY <2>1, <3>1 DEF SameSite
    <3>3. Loaded(ram') \/ Moved'
      BY <1>1, <2>4, <3>2 DEF SiteSound, Loaded, Moved
    <3> QED BY <1>1, <1>3, <1>7, <2>1, <2>4, <3>2, <3>3
            DEF SiteSound, Moved
  <2> QED BY <1>0, <2>1, <2>2, <2>3, <2>4, ConfigEffect
<1> QED BY <1>4, <1>5, <1>6, <1>7

(* The writes of the main loop.                                            *)
LEMMA LoopWritesSite ==
  ASSUME RecordInv, SiteSound, ~Hurt, Write("loop")
  PROVE  SiteSound'
<1> DEFINE s == Head(Loop.todo)
<1>0. /\ JobsInv /\ CourseInv /\ StoresAgree /\ ram \in Disk
      /\ {"web", "loop"} = Task
  BY Tasks DEF RecordInv, HeldInv
<1>1. /\ Loop.op # "none" /\ Web' = Web /\ ready' = ready
      /\ ~Refused(Loop)
      /\ Advanced(Loop, s) = << >> => Loop' = Idle
      /\ Advanced(Loop, s) # << >> =>
           /\ Same(Loop', Loop) /\ Loop'.todo = Advanced(Loop, s)
           /\ ~Loop'.undo
           /\ Loop'.done = Loop.done \cup IF Skips(Loop, s) THEN {} ELSE {s}
  BY <1>0, WroteJob DEF Web, Loop, Others
<1>2. /\ Loop.todo \in Remaining(Loop.op) /\ s \in Store
      /\ s # "config" => ram'.config = ram.config
      /\ s = "config" => ram'.config = ConfigTarget(Loop)
      /\ s # "membership" => ram'.membership = ram.membership
      /\ s = "membership" => ram'.membership = MembershipTarget(Loop)
  BY <1>0, SiteWritten DEF Loop
<1>3. /\ Web.op # "reset" /\ ~Loop'.undo
      /\ Loop.op \in Pairing \cup {"settle"}
      /\ Loop'.op \in {Loop.op, "none"}
  <2>1. Loop.op \in Pairing \cup {"settle"}
    BY <1>0, <1>1 DEF JobsInv, TasksApart, Loop
  <2> QED BY <1>1, <2>1, ResetAlone, IdleType DEF Same
<1>4. Advanced(Loop, s) = Tail(Loop.todo)
  BY <1>3 DEF Advanced, Refreshing, Pairing
<1>5. CASE Loop.op # "join" /\ s # "config"
  <2>1. ram'.membership.site = ram.membership.site
    BY <1>2, <1>3, <1>5 DEF MembershipTarget, Pairing
  <2>2. ~Moved /\ Loop'.op # "join"
    BY <1>3, <1>5 DEF Moved, Pairing
  <2> QED BY <1>1, <1>2, <1>3, <1>5, <2>1, <2>2, SiteFrame
<1>6. CASE s = "config"
  <2>1. SameSite(ram')
    <3>1. ram'.config = ConfigTarget(Loop) /\ ram'.membership = ram.membership
      BY <1>2, <1>6
    <3>2. CASE Loop.op = "settle"
      BY <1>0, <3>1, <3>2, ConfigEffect, StandaloneOwned DEF SameSite
    <3>3. CASE Loop.op = "join"
      BY <1>0, <3>1, <3>3, ConfigEffect DEF SameSite
    <3>4. CASE Loop.op = "lead"
      <4>1. SameSite(ram)
        BY <1>1, <1>6, <3>4 DEF Refused, MayLead
      <4> QED BY <1>0, <3>1, <3>4, <4>1, ConfigEffect DEF SameSite
    <3> QED BY <1>3, <3>2, <3>3, <3>4 DEF Pairing
  <2>2. Loop.op = "join" => Loop' = Idle
    <3>1. Loop.op = "join" => Tail(Loop.todo) = << >>
      BY <1>2, <1>6, ConfigLast DEF Refreshing
    <3> QED BY <1>1, <1>4, <3>1
  <2>3. Loop'.op # "join"
    BY <1>3, <2>2, IdleType
  <2> QED BY <1>1, <1>3, <2>1, <2>3, SiteSettled
<1>7. CASE Loop.op = "join" /\ s \notin {"config", "membership"}
  <2>0. ~Moved
    <3>1. Loop.todo # <<"config">>
      BY <1>7
    <3> QED BY <3>1 DEF SiteSound
  <2>1. CASE Loop' = Idle
    BY <1>1, <1>2, <1>3, <1>7, <2>0, <2>1, IdleType, SiteFrame
  <2>2. CASE Loop' # Idle
    <3>1. /\ Same(Loop', Loop) /\ Loop'.todo = Tail(Loop.todo)
          /\ "membership" \notin Loop'.done
      BY <1>1, <1>4, <1>7, <2>0, <2>2 DEF Moved
    <3>2. ~Moved' /\ Loop'.op = "join" /\ Loop'.arg = Loop.arg
      BY <1>7, <3>1 DEF Moved, Same
    <3>3. Omits(Loop'.todo, "config") => Omits(Loop.todo, "config")
      <4>1. Loop.todo \in Seq(Store) /\ Loop.todo # << >>
        BY <1>0, WroteJob DEF Loop
      <4> QED BY <1>7, <3>1, <4>1, OmitsAll
    <3>4. /\ Loaded(ram') <=> Loaded(ram)
          /\ SameSite(ram') <=> SameSite(ram)
          /\ ram'.membership = ram.membership
      BY <1>2, <1>7 DEF Loaded, SameSite
    <3> QED BY <1>1, <1>3, <1>7, <2>0, <3>2, <3>3, <3>4 DEF SiteSound
  <2> QED BY <2>1, <2>2
<1>8. CASE Loop.op = "join" /\ s = "membership"
  <2>0. /\ ~Moved
        /\ \/ Loop.todo = <<"membership">>
           \/ Loop.todo = <<"membership", "config">>
    <3>1. Loop.todo # <<"config">>
      BY <1>8
    <3>2. \/ Loop.todo = <<"membership">>
          \/ Loop.todo = <<"membership", "config">>
      BY <1>2, <1>8, MembershipLast DEF Refreshing
    <3> QED BY <3>1, <3>2 DEF SiteSound
  <2>1. ram'.membership.site = Loop.arg /\ ram'.config = ram.config
    BY <1>2, <1>8 DEF MembershipTarget
  <2>2. CASE Loop.todo = <<"membership">>
    <3>1. Tail(Loop.todo) = << >> /\ Omits(Loop.todo, "config")
      BY <2>2, Tails DEF Omits
    <3>2. ram'.membership.site = ram.membership.site
      BY <1>8, <2>1, <3>1 DEF SiteSound
    <3>3. Loop' = Idle
      BY <1>1, <1>4, <3>1
    <3> QED BY <1>1, <1>3, <2>0, <2>1, <3>2, <3>3, IdleType, SiteFrame
  <2>3. CASE Loop.todo = <<"membership", "config">>
    <3>1. Tail(Loop.todo) = <<"config">> /\ <<"config">> # << >>
      BY <2>3, Tails
    <3>2. /\ Loop'.op = "join" /\ Loop'.todo = <<"config">>
          /\ Loop'.done = Loop.done
                            \cup IF Skips(Loop, s) THEN {} ELSE {s}
      BY <1>1, <1>4, <1>8, <3>1 DEF Same
    <3>3. ~Omits(Loop'.todo, "config")
      BY <3>2 DEF Omits
    <3>4. CASE Skips(Loop, s)
      <4>1. ram' = ram
        BY <3>4 DEF Write, Loop
      <4>2. ~Moved'
        BY <2>0, <3>2, <3>4, <1>8 DEF Moved
      <4> QED BY <1>1, <1>3, <2>0, <3>2, <3>3, <4>1, <4>2 DEF SiteSound
    <3>5. CASE ~Skips(Loop, s)
      <4>1. Moved'
        BY <1>8, <3>2, <3>5 DEF Moved
      <4> QED BY <1>1, <1>3, <3>2, <3>3, <4>1 DEF SiteSound
    <3> QED BY <3>4, <3>5
  <2> QED BY <2>0, <2>2, <2>3
<1> QED BY <1>5, <1>6, <1>7, <1>8

(* A transaction that cannot go on; a pairing is given up without being    *)
(* hurt only before its first write.                                       *)
LEMMA FailSite ==
  ASSUME RecordInv, SiteSound, NEW t \in Task, Refuse(t) \/ Fail(t), ~Hurt'
  PROVE  SiteSound'
<1>0. /\ JobsInv /\ {"web", "loop"} = Task /\ "reset" \notin broken'
      /\ "join" \notin broken' /\ broken \subseteq broken'
  BY Tasks, BrokenGrows
     DEF RecordInv, HeldInv, Hurt, Next, Proceeds
<1>1. PICK lost : Abandon(t, lost)
  BY DEF Refuse, Fail
<1>2. Busy(t) /\ ~job[t].undo
  BY DEF Refuse, Fail
<1>3. /\ Others(t)
      /\ Undoing(job[t]) = << >> => job'[t] = Idle
      /\ Undoing(job[t]) # << >> => Same(job'[t], job[t])
  BY <1>0, <1>1, <1>2, AbandonedJob
<1>4. job[t].op # "reset" /\ ~Hurt
  BY <1>0, <1>1, AbandonedReset DEF Hurt
<1>5. ram'.config = ram.config /\ ram'.membership = ram.membership
  <2>1. CASE Refuse(t)
    BY <2>1 DEF Refuse
  <2>2. CASE Fail(t)
    <3>1. \/ ram' = ram
          \/ ram' = [ram EXCEPT !["readiness"] = Target(job[t], "readiness")]
      BY <1>0, <1>4, <2>2, FailedStores
    <3>2. ram \in Disk
      BY <1>0, Tasks
    <3> QED BY <3>1, <3>2 DEF Disk
  <2> QED BY <2>1, <2>2
<1>6. ready' = ready
  BY <1>1 DEF Abandon
<1>7. CASE t = "web"
  <2>1. Loop' = Loop /\ Web'.op \in {Web.op, "none"} /\ Web.op # "reset"
    BY <1>0, <1>3, <1>4, <1>7, IdleType DEF Others, Loop, Web, Same
  <2> QED BY <1>5, <1>6, <2>1, SiteFrame
<1>8. CASE t = "loop"
  <2>1. Web' = Web /\ Web.op # "reset"
    BY <1>0, <1>2, <1>3, <1>4, <1>8, ResetAlone DEF Others, Loop, Web, Busy
  <2>2. Loop.op \in Pairing \cup {"settle"}
    BY <1>0, <1>2, <1>8 DEF JobsInv, TasksApart, Loop, Busy
  <2>3. Loop.op = "join" => Loop.done = {}
    <3>1. broken' = broken \cup lost \cup
            IF Loop.op # "reset" /\ Loop.done = {} THEN {} ELSE {Loop.op}
      BY <1>1, <1>8, <2>2
         DEF Abandon, Loop, Leased, Refreshing, Canonical, Pairing
    <3> QED BY <1>0, <3>1
  <2>4. ~Moved /\ Loop' = Idle
    <3>1. Undoing(Loop) = << >>
      BY <2>2, <2>3
         DEF Undoing, Changed, Leased, Refreshing, Canonical, Pairing
    <3> QED BY <1>3, <1>8, <2>3, <3>1 DEF Moved, Loop
  <2> QED BY <1>5, <1>6, <2>1, <2>4, IdleType, SiteFrame
<1> QED BY <1>0, <1>7, <1>8

LEMMA RestoreSite ==
  ASSUME RecordInv, RelationsRestored, SiteSound, NEW t \in Task,
         Restore(t) \/ RestoreFails(t)
  PROVE  SiteSound'
<1>0. JobsInv /\ {"web", "loop"} = Task
  BY Tasks DEF RecordInv, HeldInv
<1>1. t = "web"
  BY <1>0, RestoredJob, UnrestoredJob DEF SiteSound, Loop
<1>2. /\ Loop' = Loop /\ Web'.op \in {Web.op, "none"} /\ ready' = ready
      /\ Web.op # "reset"
  <2>1. Web.op \in Leased \cup {"join"} /\ Others("web")
    BY <1>0, <1>1, RestoredJob, UnrestoredJob DEF Web
  <2>2. Web' = Idle \/ Same(Web', Web)
    BY <1>0, <1>1, RestoredJob, UnrestoredJob DEF Web
  <2>3. ready' = ready
    BY <1>0, <1>1, RestoredJob, UnrestoredJob
  <2> QED BY <1>0, <2>1, <2>2, <2>3, IdleType, Tasks DEF Others, Loop, Same
<1>3. ram'.config = ram.config /\ ram'.membership = ram.membership
  <2>1. CASE RestoreFails(t)
    BY <2>1 DEF RestoreFails
  <2>2. CASE Restore(t)
    <3>1. Head(Web.todo) \notin {"config", "membership"}
      <4>1. /\ Web.todo \in Seq(Store) /\ Web.todo # << >>
            /\ Head(Web.todo) \in Saved /\ Omits(Web.todo, "membership")
        BY <1>0, <1>1, <2>2, RestoredJob DEF RelationsRestored, Web
      <4>2. Head(Web.todo) # "membership"
        BY <4>1 DEF Omits
      <4> QED BY <4>1, <4>2 DEF Saved, Relations
    <3>2. /\ ram'["config"] = ram["config"]
          /\ ram'["membership"] = ram["membership"]
      BY <1>0, <1>1, <2>2, <3>1, RestoredJob DEF Web, Store, Relations
    <3> QED BY <3>2, Fields
  <2> QED BY <2>1, <2>2
<1> QED BY <1>2, <1>3, SiteFrame

LEMMA RelationsStep ==
  ASSUME JobsInv, RelationsRestored, [Next]_vars
  PROVE  RelationsRestored'
<1>0. ram \in Disk /\ {"web", "loop"} = Task
  BY Tasks
<1>1. ASSUME Web' = Web \/ ~Web'.undo PROVE RelationsRestored'
  BY <1>1 DEF RelationsRestored
<1>2. CASE Operates
  <2>1. PICK t \in Task : \E op, p, arg, steps : Opens(t, op, p, arg, steps)
    BY <1>0, <1>2, OperatesOpens
  <2>2. PICK op, p, arg, steps : Opens(t, op, p, arg, steps)
    BY <2>1
  <2>3. Others(t) /\ ~job'[t].undo
    BY <2>2, OpenedJob
  <2> QED BY <1>0, <1>1, <2>3 DEF Others, Web
<1>3. CASE Settle \/ DeferMembership \/ PowerCut
  BY <1>0, <1>1, <1>3, SettledJob, DeferredJob, CutJobs, IdleType
     DEF Others, Web
<1>4. CASE Idles \/ \E p \in Node : PullConfiguration(p)
  BY <1>1, <1>4, IdlesNothing DEF PullConfiguration, Web
<1>5. ASSUME NEW t \in Task,
             Write(t) \/ Refuse(t) \/ Fail(t) \/ Restore(t) \/ RestoreFails(t)
      PROVE  RelationsRestored'
  <2>1. Others(t)
    BY <1>5, WroteJob, AbandonedJob, RestoredJob, UnrestoredJob
       DEF Refuse, Fail
  <2>2. CASE t = "loop"
    BY <1>0, <1>1, <2>1, <2>2 DEF Others, Web
  <2>3. CASE t = "web" /\ Write("web")
    BY <1>0, <1>1, <2>3, WroteJob, IdleType DEF Web
  <2>4. CASE t = "web" /\ (Refuse("web") \/ Fail("web"))
    <3>1. Web' = Idle \/ Web'.todo = Undoing(Web)
      BY <1>0, <2>4, AbandonedJob DEF Refuse, Fail, Web
    <3>2. Omits(Undoing(Web), "membership")
      <4>1. \A S : \A s \in S : Changed(Web, s) \in Seq(S)
        <5> SUFFICES ASSUME NEW S, NEW s \in S PROVE Changed(Web, s) \in Seq(S)
          OBVIOUS
        <5>1. <<s>> \in Seq(S) /\ << >> \in Seq(S)
          OBVIOUS
        <5> QED BY <5>1 DEF Changed
      <4>2. /\ Changed(Web, "readiness") \in Seq(Relations)
            /\ Changed(Web, "registry") \in Seq(Relations)
            /\ << >> \in Seq(Relations)
        BY <4>1 DEF Relations
      <4>9. ChangedCredential(Web) \in Seq(Relations)
        <5>1. <<"credential">> \in Seq(Relations)
          BY DEF Relations
        <5> QED BY <4>2, <5>1, CredentialBack
      <4>3. \A S : \A a, b, c \in Seq(S) : (a \o b) \o c \in Seq(S)
        OBVIOUS
      <4>4. Changed(Web, "readiness") \o ChangedCredential(Web)
              \o Changed(Web, "registry") \in Seq(Relations)
        BY <4>2, <4>3, <4>9
      <4>5. Web.op # "join"
        BY Tasks DEF JobsInv, TasksApart, Web
      <4>6. Undoing(Web) \in Seq(Relations)
        BY <4>2, <4>4, <4>5 DEF Undoing
      <4>7. "membership" \notin Relations
        BY DEF Relations
      <4>8. \A i \in 1..Len(Undoing(Web)) : Undoing(Web)[i] \in Relations
        BY <4>6
      <4> QED BY <4>7, <4>8 DEF Omits
    <3> QED BY <1>1, <3>1, <3>2, IdleType DEF RelationsRestored
  <2>5. CASE t = "web" /\ Restore("web")
    <3>1. /\ Web.undo /\ Web.todo \in Seq(Store) /\ Web.todo # << >>
          /\ Web' = Idle \/ Web'.todo = Tail(Web.todo)
      BY <1>0, <2>5, RestoredJob DEF Web
    <3>2. Omits(Tail(Web.todo), "membership")
      BY <3>1, OmitsTail DEF RelationsRestored
    <3> QED BY <1>1, <3>1, <3>2, IdleType DEF RelationsRestored
  <2>6. CASE t = "web" /\ RestoreFails("web")
    <3>1. /\ Web.undo
          /\ \/ Web' = Idle
             \/ \A x : Omits(Web.todo, x) => Omits(Web'.todo, x)
      BY <1>0, <2>6, UnrestoredJob DEF Web
    <3> QED BY <1>1, <3>1, IdleType DEF RelationsRestored
  <2> QED BY <1>0, <1>5, <2>2, <2>3, <2>4, <2>5, <2>6
<1> QED BY <1>2, <1>3, <1>4, <1>5, StepCases

LEMMA SiteStep ==
  ASSUME SiteInv, [Next]_vars
  PROVE  SiteInv'
<1>0. /\ RecordInv /\ JobsInv /\ RelationsRestored /\ ram \in Disk
      /\ {"web", "loop"} = Task /\ broken \subseteq broken'
  BY Tasks, BrokenGrows DEF SiteInv, RecordInv, HeldInv
<1>1. RecordInv' /\ RelationsRestored'
  BY <1>0, RecordStep, RelationsStep
<1> SUFFICES ASSUME ~Hurt' PROVE SiteSound'
  BY <1>1 DEF SiteInv
<1>2. ~Hurt /\ SiteSound
  BY <1>0 DEF Hurt, SiteInv
<1>3. ASSUME ram' = ram, ready' = ready, Loop' = Loop,
             Web' = Web \/ (Web'.op = "none" /\ Web.op # "reset")
      PROVE  SiteSound'
  <2>1. CASE Web' = Web
    BY <1>2, <1>3, <2>1 DEF SiteSound, Moved
  <2>2. CASE Web'.op = "none" /\ Web.op # "reset"
    BY <1>2, <1>3, <2>2, SiteFrame
  <2> QED BY <1>3, <2>1, <2>2
<1>4. CASE Operates
  BY <1>0, <1>2, <1>4, OperatesOpens, OpensSite
<1>5. CASE Settle
  <2>1. /\ ram' = ram /\ ready' = ready /\ Loop.op = "none" /\ Web' = Web
        /\ \/ Loop' = Loop
           \/ /\ Loop'.op = "settle" /\ ~Loop'.undo
              /\ broken' = broken \cup Across("settle")
    BY <1>0, <1>5, SettledJob DEF Others, Busy, Web, Loop
  <2>2. CASE Loop' = Loop
    BY <1>3, <2>1, <2>2
  <2>3. CASE Loop' # Loop
    <3>1. Web.op # "reset"
      <4>1. Web.op = "reset" => "reset" \in Across("settle")
        BY <1>0 DEF Across, Web, Busy
      <4> QED BY <2>1, <2>3, <4>1 DEF Hurt
    <3>2. ~Moved
      BY <2>1 DEF Moved
    <3>3. Loop'.op = "settle" /\ ~Loop'.undo
      BY <2>1, <2>3
    <3> QED BY <1>2, <2>1, <3>1, <3>2, <3>3, SiteFrame
  <2> QED BY <2>2, <2>3
<1>6. CASE DeferMembership
  <2>1. "reset" \notin Refreshing
    BY DEF Refreshing
  <2> QED BY <1>0, <1>3, <1>6, <2>1, DeferredJob, IdleType
          DEF Others, Web, Loop
<1>7. CASE PowerCut
  BY <1>0, <1>2, <1>7, CutSite
<1>8. CASE Idles
  BY <1>3, <1>8, IdlesNothing DEF Web, Loop
<1>9. CASE \E p \in Node : PullConfiguration(p)
  BY <1>0, <1>2, <1>9, PullSite
<1>10. ASSUME NEW t \in Task, Write(t) PROVE SiteSound'
  BY <1>0, <1>2, <1>10, WebWritesSite, LoopWritesSite
<1>11. ASSUME NEW t \in Task,
              Refuse(t) \/ Fail(t) \/ Restore(t) \/ RestoreFails(t)
       PROVE  SiteSound'
  BY <1>0, <1>2, <1>11, FailSite, RestoreSite
<1> QED BY <1>4, <1>5, <1>6, <1>7, <1>8, <1>9, <1>10, <1>11, StepCases

LEMMA SiteInit == Init => SiteInv
<1> SUFFICES ASSUME Init PROVE SiteInv
  OBVIOUS
<1>1. RecordInv /\ {"web", "loop"} = Task
  BY RecordInit, Tasks DEF RecordInv, HeldInv
<1>2. PICK start \in Setup :
        ram = start.disk /\ ready = Loaded(start.disk)
          /\ job = [t \in Task |-> Idle]
  BY DEF Init
<1>3. Loaded(ram)
  BY <1>2, SetupAssumption DEF Loaded, SameSite
<1>4. Web = Idle /\ Loop = Idle
  BY <1>1, <1>2 DEF Web, Loop
<1> QED BY <1>1, <1>2, <1>3, <1>4, IdleType
        DEF SiteInv, SiteSound, RelationsRestored, Moved

-----------------------------------------------------------------------------
(* Without relationships, and with nothing left to reconcile.              *)
Unrelated(r) == \A p \in Participant : r[p] \in Gone
Fine == recon \notin {"pending", "failed"}
Solitary(d) ==
  OwnedHere(d) /\ SameSite(d) /\ d.membership.mode = "standalone"

(* Such a device is at a Site of its own unless a refresh of the roster is *)
(* at work; ...                                                            *)
RestsAlone ==
  Web.op \notin Refreshing \cup {"reset"} /\ Unrelated(ram.registry) /\ Fine =>
    Solitary(ram)
(* ... so it was if that refresh began without relationships, and only an  *)
(* approval adds one; ...                                                  *)
ReturnsAlone ==
  Web.op \in Leased /\ Unrelated(Web.saved.registry) =>
    /\ Web.op \notin {"configure", "reconfigure", "quarantine"}
    /\ Web.op # "approve" => Unrelated(ram.registry)
    /\ Fine => Solitary(ram)
(* ... and the loop has a configuration of its own once it has written it. *)
SettlesOwned ==
  Loop.op = "settle" /\ Omits(Loop.todo, "config") =>
    OwnedHere(ram) /\ SameSite(ram)

AloneKept == RestsAlone /\ ReturnsAlone /\ SettlesOwned
AloneInv == SiteInv /\ (broken = {} => AloneKept)

LEMMA UnrelatedRecords ==
  /\ \A d : Related(d) = {} <=> Unrelated(d.registry)
  /\ \A r : \A p \in Participant : r[p] \notin Gone => ~Unrelated(r)
BY DEF Related, Unrelated

(* A Site of its own stays one.                                            *)
StaysOwned ==
  /\ Solitary(ram) => Solitary(ram')
  /\ OwnedHere(ram) /\ SameSite(ram) => OwnedHere(ram') /\ SameSite(ram')

LEMMA OwnerKept ==
  ASSUME KeepsOwner(ram'.config), ram'.membership = ram.membership
  PROVE  StaysOwned
BY DEF KeepsOwner, StaysOwned, Solitary, OwnedHere, SameSite

LEMMA BecomesOwned ==
  ASSUME ram'.config = StandaloneConfiguration(ram),
         ram'.membership = ram.membership
  PROVE  StaysOwned /\ OwnedHere(ram') /\ SameSite(ram')
BY StandaloneOwned DEF StaysOwned, Solitary, OwnedHere, SameSite

LEMMA AloneFrame ==
  ASSUME AloneKept, StaysOwned, ram'.registry = ram.registry, Fine' => Fine,
         \/ Web' = Web
         \/ Same(Web', Web)
         \/ Web.op \notin Refreshing \cup {"reset"} /\ Web'.op = "none",
         \/ Loop' = Loop
         \/ Loop'.op # "settle"
         \/ /\ Loop.op = "settle"
            /\ Omits(Loop'.todo, "config") =>
                 Omits(Loop.todo, "config")
                   \/ (OwnedHere(ram') /\ SameSite(ram'))
  PROVE  AloneKept'
<1>1. "none" \notin Leased /\ "none" \notin Refreshing
  BY DEF Leased, Refreshing, Canonical
<1>2. RestsAlone'
  BY DEF AloneKept, RestsAlone, StaysOwned, Same
<1>3. ReturnsAlone'
  BY <1>1 DEF AloneKept, ReturnsAlone, StaysOwned, Same
<1>4. SettlesOwned'
  BY DEF AloneKept, SettlesOwned, StaysOwned
<1> QED BY <1>2, <1>3, <1>4 DEF AloneKept

(* An operation begins.                                                    *)
LEMMA OpensAlone ==
  ASSUME JobsInv, AloneKept, NEW t \in Task, NEW op, NEW p, NEW arg,
         NEW steps, Opens(t, op, p, arg, steps), broken' = {}
  PROVE  AloneKept'
<1> DEFINE k == job'[t]
<1>0. {"web", "loop"} = Task /\ "none" \notin Refreshing \cup {"reset"}
  BY Tasks DEF Refreshing
<1>1. /\ job[t].op = "none" /\ Others(t) /\ k.op = op
      /\ op \in Leased => k.saved.registry = ram.registry
      /\ ram' = ram /\ recon' = recon
  BY OpenedJob
<1>2. /\ op \in {"configure", "reconfigure", "quarantine"} =>
           ~Unrelated(ram.registry)
      /\ t = "web" => op \in Leased \cup {"roster", "reset"}
      /\ t = "loop" => op \in Pairing
  <2>1. /\ op \in {"configure", "reconfigure", "quarantine"} =>
             p \in Participant /\ ram.registry[p] \notin Gone
        /\ t = "web" => op \in Leased \cup {"roster", "reset"}
        /\ t = "loop" => op \in Pairing
    BY DEF Opens, Qualified, Leased, Refreshing
  <2> QED BY <2>1, UnrelatedRecords
<1>3. StaysOwned /\ (Fine' => Fine)
  BY <1>1 DEF StaysOwned, Fine
<1>4. CASE t = "web"
  <2>1. Loop' = Loop /\ Web' = k /\ Web.op = "none"
    BY <1>0, <1>1, <1>4 DEF Others, Loop, Web
  <2>2. RestsAlone'
    BY <1>0, <1>1, <2>1 DEF AloneKept, RestsAlone, Fine
  <2>3. ReturnsAlone'
    BY <1>0, <1>1, <1>2, <2>1, <2>2
       DEF AloneKept, RestsAlone, ReturnsAlone, Fine
  <2>4. SettlesOwned'
    BY <1>1, <2>1 DEF AloneKept, SettlesOwned
  <2> QED BY <2>2, <2>3, <2>4 DEF AloneKept
<1>5. CASE t = "loop"
  <2>1. Loop'.op \in Pairing /\ Web' = Web
    BY <1>0, <1>1, <1>2, <1>5 DEF Others, Loop, Web
  <2>2. Loop'.op # "settle" /\ ram'.registry = ram.registry
    BY <1>1, <2>1 DEF Pairing
  <2> QED BY <1>3, <2>1, <2>2, AloneFrame
<1> QED BY <1>0, <1>4, <1>5

(* What the engine makes of the records of a device without relationships. *)
LEMMA StaysUnrelated ==
  ASSUME JobsInv, Write("web"), Web.op \in Leased \ {"approve"},
         Web.op \notin {"configure", "reconfigure", "quarantine"},
         Web.who \in Participant, Unrelated(ram.registry)
  PROVE  Unrelated(ram'.registry)
<1>1. CASE Head(Web.todo) # "registry"
  BY <1>1, EngineWrites
<1>2. CASE Head(Web.todo) = "registry"
  <2>1. ram.registry[Web.who] \in Gone /\ ~Refused(Web)
    BY WroteJob, Tasks DEF Unrelated, Web
  <2>2. Web.op \notin {"activate", "promote", "demote"}
    BY <1>2, <2>1 DEF Refused, Gone, Active
  <2>3. Web.op \notin Canonical
    <3>1. /\ JobSound(Web) /\ ~Web.undo /\ Web.todo \in Seq(Store)
          /\ Web.todo # << >>
      BY WroteJob, Tasks DEF JobsInv, Web
    <3>2. Web.op \in Canonical => Omits(Web.todo, "registry")
      BY <3>1 DEF JobSound, Unregistered, Canonical
    <3>3. ~Omits(Web.todo, "registry")
      BY <1>2, <3>1 DEF Omits
    <3> QED BY <3>2, <3>3
  <2>4. Web.op \in {"revoke", "forget"}
    BY <2>2, <2>3 DEF Leased, Refreshing, Canonical
  <2>5. RegistryTarget(Web) \in Gone
    BY <2>4 DEF RegistryTarget, Pairing, Gone
  <2> QED BY <1>2, <2>5, EngineWrites DEF Unrelated
<1> QED BY <1>1, <1>2

(* The writes of the engine.                                               *)
LEMMA EngineAlone ==
  ASSUME RecordInv, AloneKept, Write("web"), Web.op \in Leased
  PROVE  AloneKept'
<1> DEFINE s == Head(Web.todo)
           rest == Advanced(Web, s)
<1>0. /\ HeldInv /\ JobsInv /\ CourseInv /\ StoresAgree /\ ram \in Disk
      /\ {"web", "loop"} = Task /\ Web.op # "reset"
  BY Tasks DEF RecordInv, HeldInv
<1>1. /\ Loop' = Loop /\ ~Web.undo /\ Web.todo \in Seq(Store)
      /\ Web.todo # << >> /\ s \in Store
      /\ rest = << >> => Web' = Idle
      /\ rest # << >> => Same(Web', Web)
      /\ recon' = Reconciled(Web, s, rest)
  BY <1>0, WroteJob DEF Web, Loop, Others
<1>2. /\ Web.todo \in Remaining(Web.op)
      /\ s # "config" => ram'.config = ram.config
      /\ s = "config" => ram'.config = ConfigTarget(Web)
      /\ s # "membership" => ram'.membership = ram.membership
      /\ s = "membership" => ram'.membership = MembershipTarget(Web)
      /\ s # "registry" => ram'.registry = ram.registry
  BY <1>0, SiteWritten DEF Web
<1>3. /\ Web.who \in Participant /\ Recorded(Web, ram.registry)
      /\ Emptied(Web, ram)
  BY <1>0, <1>1 DEF RecordInv, WebRecorded, Works
<1>4. Web' = Idle \/ Same(Web', Web)
  BY <1>1
<1>5. Web.op \notin Pairing \cup {"settle", "reset"}
  BY DEF Leased, Refreshing, Canonical, Pairing
<1>6. CASE s \in Relations
  <2>1. KeepsOwner(ram'.config) /\ ram'.membership = ram.membership
    BY <1>2, <1>6 DEF KeepsOwner, Relations
  <2>2. StaysOwned
    BY <2>1, OwnerKept
  <2>3. recon' = recon
    BY <1>1, <1>5, <1>6 DEF Reconciled, Relations
  <2>4. Web.op \in Refreshing => Same(Web', Web)
    <3>1. Web.op \in Refreshing => Tail(Web.todo) # << >>
      <4>1. Web.todo # <<"config">> /\ Web.todo # <<"directory", "membership">>
            /\ Web.todo # <<"membership">>
        BY <1>6 DEF Relations
      <4> QED BY <1>1, <1>2, <4>1, RefreshCourse
    <3>2. rest = Tail(Web.todo)
      BY <1>6 DEF Advanced, Relations
    <3> QED BY <1>1, <3>1, <3>2
  <2>5. RestsAlone'
    <3>1. CASE Web.op \in Refreshing
      BY <2>4, <3>1 DEF RestsAlone, Same
    <3>2. CASE s # "registry" /\ Web.op \notin Refreshing
      BY <1>0, <1>2, <2>2, <2>3, <3>2
         DEF AloneKept, RestsAlone, StaysOwned, Fine
    <3>3. CASE s = "registry" /\ Web.op \notin Refreshing
      <4>1. Web.op \in {"promote", "demote"} \cup Canonical
        BY <3>3 DEF Leased
      <4>2. JobSound(Web) /\ ~Omits(Web.todo, "registry")
        BY <1>0, <1>1, <3>3 DEF JobsInv, Web, Omits
      <4>3. Web.op \in {"promote", "demote"}
        BY <1>1, <4>1, <4>2 DEF JobSound, Unregistered, Canonical
      <4>4. RegistryTarget(Web) \notin Gone
        BY <4>3 DEF RegistryTarget, Pairing, Eligibility, Gone
      <4>5. ram'.registry[Web.who] \notin Gone
        BY <1>0, <1>3, <3>3, <4>4, EngineWrites
      <4> QED BY <1>3, <4>5, UnrelatedRecords DEF RestsAlone
    <3> QED BY <3>1, <3>2, <3>3
  <2>6. ReturnsAlone'
    <3> SUFFICES ASSUME Web'.op \in Leased, Unrelated(Web'.saved.registry)
                 PROVE  /\ Web'.op \notin {"configure", "reconfigure",
                                           "quarantine"}
                        /\ Web'.op # "approve" => Unrelated(ram'.registry)
                        /\ Fine' => Solitary(ram')
      BY DEF ReturnsAlone
    <3>1. Web'.op = Web.op /\ Web'.saved = Web.saved
      BY <1>4, IdleType, Tasks, <1>0 DEF Same
    <3>2. /\ Web.op \notin {"configure", "reconfigure", "quarantine"}
          /\ Web.op # "approve" => Unrelated(ram.registry)
          /\ Fine => Solitary(ram)
      BY <3>1 DEF AloneKept, ReturnsAlone
    <3> QED BY <1>0, <1>3, <2>2, <2>3, <3>1, <3>2, StaysUnrelated
            DEF StaysOwned, Fine
  <2>7. SettlesOwned'
    BY <1>1, <2>2 DEF AloneKept, SettlesOwned, StaysOwned
  <2> QED BY <2>5, <2>6, <2>7 DEF AloneKept
<1>7. CASE s = "config"
  <2>1. StaysOwned
    BY <1>0, <1>2, <1>7, ConfigEffect, OwnerKept, BecomesOwned
  <2>2. ram'.registry = ram.registry
    BY <1>2, <1>7
  <2>3. CASE Web.op \notin Refreshing
    <3>1. recon' = recon
      BY <1>1, <1>5, <2>3 DEF Reconciled
    <3>2. \/ Same(Web', Web)
          \/ Web.op \notin Refreshing \cup {"reset"} /\ Web'.op = "none"
      BY <1>0, <1>4, <2>3, IdleType
    <3> QED BY <1>1, <2>1, <2>2, <3>1, <3>2, AloneFrame DEF Fine
  <2>4. CASE Web.op \in Refreshing /\ Related(ram) = {} /\ ~Staged(Web)
    <3>1. rest = <<"directory", "membership">>
      BY <1>7, <2>4 DEF Advanced
    <3>2. rest # << >>
      <4>1. <<"directory", "membership">> # << >>
        OBVIOUS
      <4> QED BY <3>1, <4>1
    <3>3. recon' = recon
      BY <1>1, <1>5, <1>7, <2>4 DEF Reconciled
    <3> QED BY <1>1, <2>1, <2>2, <3>2, <3>3, AloneFrame DEF Fine
  <2>5. CASE Web.op \in Refreshing /\ (Related(ram) # {} \/ Staged(Web))
    <3>1. Web' = Idle
      <4>1. rest = Tail(Web.todo)
        BY <2>5 DEF Advanced
      <4>2. Web.todo = <<"config">>
        BY <1>1, <1>2, <1>7, <2>5, RefreshCourse DEF Relations
      <4> QED BY <1>1, <4>1, <4>2, Tails
    <3>2. ~Unrelated(ram.registry)
      <4>1. CASE Staged(Web)
        <5>1. Omits(Web.todo, "registry") /\ Web.op = "configure"
          BY <1>2, <1>7, <4>1, ConfigLast DEF Staged, Relations
        <5>2. ram.registry[Web.who] \notin Gone
          BY <1>3, <5>1 DEF Recorded, Gone
        <5> QED BY <1>3, <5>2, UnrelatedRecords
      <4> QED BY <2>5, <4>1, UnrelatedRecords
    <3>3. RestsAlone'
      BY <2>2, <3>2 DEF RestsAlone
    <3>4. ReturnsAlone'
      BY <3>1, IdleType DEF ReturnsAlone, Leased, Refreshing, Canonical
    <3>5. SettlesOwned'
      BY <1>1, <2>1 DEF AloneKept, SettlesOwned, StaysOwned
    <3> QED BY <3>3, <3>4, <3>5 DEF AloneKept
  <2> QED BY <2>3, <2>4, <2>5
<1>8. CASE s = "directory"
  <2>1. KeepsOwner(ram'.config) /\ ram'.membership = ram.membership
        /\ ram'.registry = ram.registry
    BY <1>2, <1>8 DEF KeepsOwner
  <2>2. Web.op \in Refreshing
    BY <1>0, <1>1, <1>2, <1>8, ConfigLast
       DEF Remaining, Leased, Refreshing, Canonical, Settling
  <2>3. rest = <<"membership">>
    <3>1. Web.todo = <<"directory", "membership">>
      BY <1>1, <1>2, <1>8, <2>2, RefreshCourse DEF Relations
    <3>2. rest = Tail(Web.todo)
      BY <1>8 DEF Advanced
    <3> QED BY <3>1, <3>2, Tails
  <2>4. rest # << >>
    <3>1. <<"membership">> # << >>
      OBVIOUS
    <3> QED BY <2>3, <3>1
  <2>5. recon' = recon
    BY <1>1, <1>5, <1>8 DEF Reconciled
  <2> QED BY <1>1, <2>1, <2>4, <2>5, OwnerKept, AloneFrame DEF Fine
<1>9. CASE s = "membership"
  <2>1. Web.op \in Refreshing /\ Web.todo = <<"membership">>
    BY <1>2, <1>5, <1>9, MembershipLast DEF Pairing
  <2>2. Alone(ram)
    BY <1>3, <2>1 DEF Emptied, Settling
  <2>3. /\ ram'.config = ram.config
        /\ ram'.membership = [site |-> ram.membership.site,
                              mode |-> "standalone"]
    <3>1. Web.op \notin {"reset", "join"}
      BY <1>5 DEF Pairing
    <3> QED BY <1>2, <1>9, <3>1 DEF MembershipTarget
  <2>4. Solitary(ram')
    BY <2>2, <2>3 DEF Alone, Solitary, OwnedHere, SameSite
  <2>5. Web' = Idle
    BY <1>1, <1>9, <2>1, Tails DEF Advanced
  <2>6. RestsAlone'
    BY <2>4 DEF RestsAlone
  <2>7. ReturnsAlone'
    BY <2>5, IdleType DEF ReturnsAlone, Leased, Refreshing, Canonical
  <2>8. SettlesOwned'
    BY <2>4 DEF SettlesOwned, Solitary
  <2> QED BY <2>6, <2>7, <2>8 DEF AloneKept
<1> QED BY <1>1, <1>6, <1>7, <1>8, <1>9 DEF Store

(* The writes of a reset and of a roster.                                  *)
LEMMA OwnerAlone ==
  ASSUME RecordInv, SiteSound, AloneKept, ~Hurt, Write("web"),
         Web.op \notin Leased
  PROVE  AloneKept'
<1> DEFINE s == Head(Web.todo)
<1>0. /\ JobsInv /\ CourseInv /\ StoresAgree /\ ram \in Disk
      /\ {"web", "loop"} = Task /\ "none" \notin Leased
  BY Tasks DEF RecordInv, HeldInv
<1>1. /\ Web.op # "none" /\ Loop' = Loop
      /\ Web' = Idle \/ Same(Web', Web)
      /\ recon' = Reconciled(Web, s, Advanced(Web, s))
  BY <1>0, WroteJob DEF Web, Loop, Others
<1>2. CASE Web.op = "roster"
  <2>1. Web.todo = <<"config">> /\ s = "config"
    BY <1>0, <1>2, SiteWritten DEF Web, Remaining
  <2>2. /\ ram'.config = ConfigTarget(Web) /\ ram'.membership = ram.membership
        /\ ram'.registry = ram.registry
    BY <1>0, <2>1, SiteWritten DEF Web
  <2>3. ram'.config.owner = Self /\ ram'.config.site = ram.config.site
    BY <1>0, <1>2, <2>2, ConfigEffect
  <2>4. StaysOwned
    BY <2>2, <2>3 DEF StaysOwned, Solitary, OwnedHere, SameSite
  <2>5. recon' = recon
    BY <1>1, <1>2 DEF Reconciled, Refreshing, Pairing
  <2>6. \/ Same(Web', Web)
        \/ Web.op \notin Refreshing \cup {"reset"} /\ Web'.op = "none"
    BY <1>1, <1>2, IdleType DEF Refreshing
  <2> QED BY <1>1, <2>2, <2>4, <2>5, <2>6, AloneFrame DEF Fine
<1>3. CASE Web.op = "reset"
  <2>1. Loop'.op = "none" /\ Web'.op \in {"reset", "none"}
    BY <1>1, <1>3, ResetAlone, IdleType DEF Same
  <2>2. RestsAlone'
    <3>1. CASE Web' = Idle
      <4>1. Solitary(ram')
        BY <1>3, <3>1, ResetEnds
           DEF Solitary, OwnedHere, SameSite, Created
      <4> QED BY <4>1 DEF RestsAlone
    <3>2. CASE Same(Web', Web)
      BY <1>3, <3>2 DEF RestsAlone, Same
    <3> QED BY <1>1, <3>1, <3>2
  <2>3. ReturnsAlone'
    BY <1>0, <2>1, Tasks DEF ReturnsAlone
  <2>4. SettlesOwned'
    BY <2>1 DEF SettlesOwned
  <2> QED BY <2>2, <2>3, <2>4 DEF AloneKept
<1> QED BY <1>0, <1>1, <1>2, <1>3 DEF JobsInv, TasksApart, Web

(* The writes of the loop.                                                 *)
LEMMA LoopAlone ==
  ASSUME RecordInv, AloneKept, broken = {}, Write("loop")
  PROVE  AloneKept'
<1> DEFINE s == Head(Loop.todo)
           rest == Advanced(Loop, s)
<1>0. /\ JobsInv /\ CourseInv /\ StoresAgree /\ ram \in Disk
      /\ {"web", "loop"} = Task
  BY Tasks DEF RecordInv, HeldInv
<1>1. /\ Loop.op # "none" /\ Web' = Web /\ ~Loop.undo
      /\ Loop.todo \in Seq(Store) /\ Loop.todo # << >> /\ s \in Store
      /\ rest = << >> => Loop' = Idle
      /\ rest # << >> => Same(Loop', Loop) /\ Loop'.todo = rest
      /\ recon' = Reconciled(Loop, s, rest)
  BY <1>0, WroteJob DEF Web, Loop, Others
<1>2. /\ Loop.todo \in Remaining(Loop.op)
      /\ s # "config" => ram'.config = ram.config
      /\ s = "config" => ram'.config = ConfigTarget(Loop)
      /\ s # "membership" => ram'.membership = ram.membership
      /\ s = "membership" => ram'.membership = MembershipTarget(Loop)
      /\ s # "registry" => ram'.registry = ram.registry
      /\ s = "registry" => ram'.registry = Target(Loop, "registry")
  BY <1>0, SiteWritten DEF Loop
<1>3. rest = Tail(Loop.todo)
  BY <1>0, <1>1
     DEF JobsInv, TasksApart, Loop, Advanced, Refreshing, Pairing
<1>4. CASE Loop.op \in Pairing
  <2>1. Web'.op \notin Leased /\ Loop'.op # "settle"
    BY <1>0, <1>1, <1>4, IdleType
       DEF JobsInv, TasksApart, Web, Loop, Same, Pairing
  <2>2. ~Unrelated(ram'.registry)
    <3>1. Loop.who \in Participant /\ Recorded(Loop, ram.registry)
      BY <1>1, <1>4 DEF RecordInv, LoopRecorded, Works
    <3>2. ram'.registry[Loop.who] = "quarantined"
      <4>1. CASE s = "registry"
        <5>1. Target(Loop, "registry")
                = [ram.registry EXCEPT ![Loop.who] = RegistryTarget(Loop)]
          BY <1>4 DEF Target, Relations, Pairing
        <5>2. RegistryTarget(Loop) = "quarantined"
          BY <1>4 DEF RegistryTarget, Pairing
        <5> QED BY <1>0, <1>2, <3>1, <4>1, <5>1, <5>2 DEF Disk
      <4>2. CASE s # "registry"
        <5>1. Omits(Loop.todo, "registry")
          <6>1. Loop.op \in {"lead", "join"}
            BY <1>4 DEF Pairing
          <6>2. CASE Loop.op = "lead"
            <7>1. Loop.todo \in {<<"credential">>,
                                 <<"credential", "config">>, <<"config">>}
              BY <1>2, <4>2, <6>2 DEF Remaining
            <7> QED BY <7>1 DEF Omits
          <6>3. CASE Loop.op = "join"
            <7>1. Loop.todo \in {<<"credential", "membership">>,
                                 <<"membership">>,
                                 <<"credential", "membership", "config">>,
                                 <<"membership", "config">>, <<"config">>}
              BY <1>2, <4>2, <6>3 DEF Remaining
            <7>2. CASE Loop.todo = <<"credential", "membership", "config">>
              BY <7>2 DEF Omits
            <7>3. CASE Loop.todo \in {<<"credential", "membership">>,
                                      <<"membership", "config">>}
              BY <7>3 DEF Omits
            <7>4. CASE Loop.todo \in {<<"membership">>, <<"config">>}
              BY <7>4 DEF Omits
            <7> QED BY <7>1, <7>2, <7>3, <7>4
          <6> QED BY <6>1, <6>2, <6>3
        <5> QED BY <1>2, <1>4, <3>1, <4>2, <5>1 DEF Recorded
      <4> QED BY <4>1, <4>2
    <3> QED BY <3>1, <3>2, UnrelatedRecords DEF Gone
  <2>3. RestsAlone'
    BY <2>2 DEF RestsAlone
  <2>4. ReturnsAlone'
    BY <2>1 DEF ReturnsAlone
  <2>5. SettlesOwned'
    BY <2>1 DEF SettlesOwned
  <2> QED BY <2>3, <2>4, <2>5 DEF AloneKept
<1>5. CASE Loop.op = "settle"
  <2>1. Loop.todo \in {<<"config", "directory", "membership">>,
                       <<"directory", "membership">>, <<"membership">>}
    BY <1>2, <1>5 DEF Remaining
  <2>2. ram'.registry = ram.registry
    BY <1>2, <2>1
  <2>3. CASE s = "membership"
    <3>1. Loop.todo = <<"membership">>
      BY <2>1, <2>3
    <3>2. OwnedHere(ram) /\ SameSite(ram)
      BY <1>5, <3>1 DEF AloneKept, SettlesOwned, Omits
    <3>3. Solitary(ram')
      BY <1>2, <1>5, <2>3, <3>2
         DEF MembershipTarget, Solitary, OwnedHere, SameSite
    <3>4. ReturnsAlone'
      BY <1>1, <2>2, <3>3 DEF AloneKept, ReturnsAlone
    <3> QED BY <3>3, <3>4 DEF AloneKept, RestsAlone, SettlesOwned, Solitary
  <2>4. CASE s # "membership"
    <3>1. Loop.todo # <<"membership">>
      BY <2>4
    <3>2. rest # << >>
      <4>1. /\ <<"directory", "membership">> # << >>
            /\ <<"membership">> # << >>
        OBVIOUS
      <4> QED BY <1>3, <2>1, <3>1, <4>1, Tails
    <3>3. recon' = recon
      BY <1>1, <1>5, <3>2 DEF Reconciled, Refreshing, Pairing
    <3>4. StaysOwned /\ (s = "config" => OwnedHere(ram') /\ SameSite(ram'))
      <4>1. CASE s = "config"
        <5>1. /\ ram'.config = StandaloneConfiguration(ram)
              /\ ram'.membership = ram.membership
          BY <1>0, <1>2, <1>5, <4>1, ConfigEffect
        <5> QED BY <5>1, BecomesOwned
      <4>2. CASE s # "config"
        BY <1>2, <2>4, <4>2, OwnerKept DEF KeepsOwner
      <4> QED BY <4>1, <4>2
    <3>5. Omits(rest, "config") => Omits(Loop.todo, "config") \/ s = "config"
      BY <1>1, <1>3, OmitsAll
    <3>6. Omits(Loop'.todo, "config") =>
            Omits(Loop.todo, "config") \/ (OwnedHere(ram') /\ SameSite(ram'))
      BY <1>1, <3>2, <3>4, <3>5
    <3>7. Fine' => Fine
      BY <3>3 DEF Fine
    <3> QED BY <1>1, <1>5, <2>2, <3>4, <3>6, <3>7, AloneFrame
  <2> QED BY <2>3, <2>4
<1> QED BY <1>0, <1>1, <1>4, <1>5 DEF JobsInv, TasksApart, Loop

(* A transaction that cannot go on, or that is taken back.                 *)
LEMMA ReturnsRecords ==
  ASSUME RecordInv, RecordInv', broken = {}, broken' = {}, Web.op \in Leased,
         \/ (Refuse("web") \/ Fail("web")) /\ Undoing(Web) = << >>
         \/ Restore("web") /\ Tail(Web.todo) = << >>
  PROVE  ram'.registry = Web.saved.registry
<1>0. /\ HeldInv /\ JobsInv /\ StoresAgree' /\ Undamaged
      /\ {"web", "loop"} = Task /\ "registry" \in Relations
  BY Tasks DEF RecordInv, HeldInv, Undamaged, Relations
<1>1. Restore("web") /\ Tail(Web.todo) = << >> => Web.sound
  BY <1>0, RestoredJob DEF Web
<1>2. flash'["registry"] = Web.saved["registry"]
  BY <1>0, <1>1, Returned
<1>3. flash'["registry"] = ram'["registry"]
  BY <1>0 DEF StoresAgree
<1> QED BY <1>2, <1>3, Fields

LEMMA FailAlone ==
  ASSUME RecordInv, RecordInv', SiteSound, AloneKept, broken = {},
         broken' = {}, NEW t \in Task, Refuse(t) \/ Fail(t)
  PROVE  AloneKept'
<1>0. /\ JobsInv /\ {"web", "loop"} = Task /\ ram \in Disk
      /\ "none" \notin Leased
  BY Tasks DEF RecordInv, HeldInv
<1>1. PICK lost : Abandon(t, lost)
  BY DEF Refuse, Fail
<1>2. Busy(t) /\ ~job[t].undo
  BY DEF Refuse, Fail
<1>3. /\ Others(t)
      /\ Undoing(job[t]) = << >> => job'[t] = Idle
      /\ Undoing(job[t]) # << >> => Same(job'[t], job[t])
  BY <1>0, <1>1, <1>2, AbandonedJob
<1>4. job[t].op # "reset"
  BY <1>0, <1>1, AbandonedReset
<1>5. /\ ram'.config = ram.config /\ ram'.membership = ram.membership
      /\ ram'.registry = ram.registry
  <2>1. CASE Refuse(t)
    BY <2>1 DEF Refuse
  <2>2. CASE Fail(t)
    <3>1. \/ ram' = ram
          \/ ram' = [ram EXCEPT !["readiness"] = Target(job[t], "readiness")]
      BY <1>0, <1>4, <2>2, FailedStores
    <3> QED BY <1>0, <3>1 DEF Disk
  <2> QED BY <2>1, <2>2
<1>6. StaysOwned
  BY <1>5, OwnerKept DEF KeepsOwner
<1>7. Fine' => Fine
  <2> DEFINE j == job[t]
             refreshing == /\ j.op \in Refreshing
                           /\ Head(j.todo) \in {"config", "directory"}
                           /\ ready
  <2>1. recon' = CASE j.op = "settle" -> "failed"
                   [] refreshing ->
                        IF Related(ram) = {} THEN "failed"
                        ELSE "not_required"
                   [] OTHER -> recon
    BY <1>1 DEF Abandon
  <2>2. refreshing /\ Related(ram) # {} => Fine
    <3>1. j.op \in Refreshing => j.op \in Leased
      BY DEF Leased
    <3>2. refreshing /\ Related(ram) # {} /\ ~Fine => "settle" \in broken'
      BY <1>1, <3>1 DEF Abandon, Fine
    <3> QED BY <3>2
  <2>3. j.op = "settle" => ~refreshing
    BY DEF Refreshing
  <2> HIDE DEF refreshing
  <2>4. CASE j.op = "settle"
    <3>1. recon' = "failed"
      BY <2>1, <2>4, <2>3
    <3> QED BY <3>1 DEF Fine
  <2>5. CASE j.op # "settle" /\ refreshing
    <3>1. recon' = IF Related(ram) = {} THEN "failed" ELSE "not_required"
      BY <2>1, <2>5
    <3> QED BY <2>2, <2>5, <3>1 DEF Fine
  <2>6. CASE j.op # "settle" /\ ~refreshing
    <3>1. recon' = recon
      BY <2>1, <2>6
    <3> QED BY <3>1 DEF Fine
  <2> QED BY <2>4, <2>5, <2>6
<1>8. CASE t = "web"
  <2>1. Loop' = Loop /\ Web.op \in Leased \cup {"roster"}
    BY <1>0, <1>2, <1>3, <1>4, <1>8
       DEF Others, Loop, Web, JobsInv, TasksApart, Busy
  <2>2. CASE Web.op = "roster"
    <3>1. Web' = Idle \/ Same(Web', Web)
      BY <1>3, <1>8 DEF Web
    <3>2. \/ Same(Web', Web)
          \/ Web.op \notin Refreshing \cup {"reset"} /\ Web'.op = "none"
      BY <2>2, <3>1, IdleType DEF Refreshing
    <3> QED BY <1>5, <1>6, <1>7, <2>1, <3>2, AloneFrame
  <2>3. CASE Web.op \in Leased /\ Undoing(Web) # << >>
    BY <1>3, <1>5, <1>6, <1>7, <1>8, <2>1, <2>3, AloneFrame DEF Web
  <2>4. CASE Web.op \in Leased /\ Undoing(Web) = << >>
    <3>1. Web'.op = "none"
      BY <1>3, <1>8, <2>4, IdleType DEF Web
    <3>2. ram'.registry = Web.saved.registry
      BY <1>8, <2>4, ReturnsRecords
    <3>3. RestsAlone'
      BY <1>6, <1>7, <2>4, <3>2
         DEF AloneKept, ReturnsAlone, RestsAlone, StaysOwned
    <3>4. ReturnsAlone'
      BY <1>0, <3>1 DEF ReturnsAlone
    <3>5. SettlesOwned'
      BY <1>6, <2>1 DEF AloneKept, SettlesOwned, StaysOwned
    <3> QED BY <3>3, <3>4, <3>5 DEF AloneKept
  <2> QED BY <2>1, <2>2, <2>3, <2>4
<1>9. CASE t = "loop"
  <2>1. Web' = Web /\ Loop.op \in Pairing \cup {"settle"}
    BY <1>0, <1>2, <1>3, <1>9
       DEF Others, Loop, Web, JobsInv, TasksApart, Busy
  <2>2. Loop'.op # "settle"
    <3>1. Loop.op = "settle" => Undoing(Loop) = << >>
      BY DEF Undoing, Leased, Refreshing, Canonical
    <3>2. Loop' = Idle \/ (Loop.op # "settle" /\ Loop'.op = Loop.op)
      BY <1>3, <1>9, <3>1 DEF Loop, Same
    <3> QED BY <3>2, IdleType
  <2> QED BY <1>5, <1>6, <1>7, <2>1, <2>2, AloneFrame
<1> QED BY <1>0, <1>8, <1>9

LEMMA RestoreAlone ==
  ASSUME RecordInv, RecordInv', RelationsRestored, SiteSound, AloneKept,
         broken = {}, broken' = {}, NEW t \in Task,
         Restore(t) \/ RestoreFails(t)
  PROVE  AloneKept'
<1>0. JobsInv /\ {"web", "loop"} = Task /\ "none" \notin Leased
  BY Tasks DEF RecordInv, HeldInv
<1>1. t = "web"
  BY <1>0, RestoredJob, UnrestoredJob DEF SiteSound, Loop
<1>2. Loop' = Loop /\ Web.op \in Leased /\ recon' = recon
  <2>1. Web.op \in Leased \cup {"join"} /\ Others("web") /\ recon' = recon
    BY <1>0, <1>1, RestoredJob, UnrestoredJob DEF Web
  <2>2. Web.op # "join"
    BY <1>0, Tasks DEF JobsInv, TasksApart, Web
  <2> QED BY <1>0, <2>1, <2>2 DEF Others, Loop
<1>3. CASE RestoreFails(t)
  <2>1. Same(Web', Web) /\ ram' = ram
    <3>1. \/ broken' = broken \cup {Web.op}
          \/ Same(Web', Web)
      BY <1>0, <1>1, <1>3, UnrestoredJob DEF Web
    <3>2. ram' = ram
      BY <1>3 DEF RestoreFails
    <3> QED BY <3>1, <3>2
  <2>2. KeepsOwner(ram'.config) /\ ram'.membership = ram.membership
    BY <2>1 DEF KeepsOwner
  <2> QED BY <1>2, <2>1, <2>2, OwnerKept, AloneFrame DEF Fine
<1>4. CASE Restore(t)
  <2>1. /\ Web.todo \in Seq(Store) /\ Web.todo # << >>
        /\ Head(Web.todo) \in Saved /\ Omits(Web.todo, "membership")
        /\ Tail(Web.todo) = << >> => Web' = Idle
        /\ Tail(Web.todo) # << >> => Same(Web', Web)
    BY <1>0, <1>1, <1>4, RestoredJob DEF RelationsRestored, Web
  <2>2. Head(Web.todo) \in Relations
    <3>1. Head(Web.todo) # "membership"
      BY <2>1 DEF Omits
    <3> QED BY <2>1, <3>1 DEF Saved
  <2>3. /\ ram'["config"] = ram["config"]
        /\ ram'["membership"] = ram["membership"]
        /\ \/ ram'["registry"] = ram["registry"]
           \/ ram'["registry"] = Web.saved["registry"]
    BY <1>0, <1>1, <1>4, <2>2, RestoredJob DEF Web, Store, Relations
  <2>4. /\ ram'.config = ram.config /\ ram'.membership = ram.membership
        /\ ram'.registry \in {ram.registry, Web.saved.registry}
    BY <2>3, Fields
  <2>5. StaysOwned
    BY <2>4, OwnerKept DEF KeepsOwner
  <2>6. RestsAlone'
    <3>1. CASE Tail(Web.todo) = << >>
      <4>1. ram'.registry = Web.saved.registry
        BY <1>1, <1>2, <1>4, <3>1, ReturnsRecords
      <4> QED BY <1>2, <2>5, <4>1
              DEF AloneKept, ReturnsAlone, RestsAlone, StaysOwned, Fine
    <3>2. CASE Tail(Web.todo) # << >>
      BY <1>2, <2>1, <2>4, <2>5, <3>2
         DEF AloneKept, ReturnsAlone, RestsAlone, StaysOwned, Fine, Same
    <3> QED BY <3>1, <3>2
  <2>7. ReturnsAlone'
    <3>1. Web'.op = "none" \/ Same(Web', Web)
      BY <2>1, IdleType
    <3>2. CASE Web'.op = "none"
      BY <1>0, <3>2 DEF ReturnsAlone
    <3>3. CASE Same(Web', Web)
      BY <1>2, <2>4, <2>5, <3>3
         DEF AloneKept, ReturnsAlone, StaysOwned, Fine, Same
    <3> QED BY <3>1, <3>2, <3>3
  <2>8. SettlesOwned'
    BY <1>2, <2>5 DEF AloneKept, SettlesOwned, StaysOwned
  <2> QED BY <2>6, <2>7, <2>8 DEF AloneKept
<1> QED BY <1>3, <1>4

(* The steps at which no transaction goes on.                              *)
LEMMA SettleAlone ==
  ASSUME RecordInv, AloneKept, Settle, broken' = {}
  PROVE  AloneKept'
<1>0. JobsInv /\ {"web", "loop"} = Task /\ "approve" \in Refreshing
  BY Tasks DEF RecordInv, HeldInv, Refreshing
<1>1. /\ ram' = ram /\ Web' = Web /\ ~Fine
      /\ \/ /\ job' = job /\ Related(ram) # {}
            /\ broken' = broken \cup
                 IF Web.op = "approve" THEN {"settle"} ELSE {}
         \/ /\ Loop'.op = "settle" /\ recon' = recon
            /\ Loop'.todo = <<"config", "directory", "membership">>
  BY <1>0, SettledJob DEF Others, Web, Loop, Fine
<1>2. CASE job' = job /\ Related(ram) # {} /\ Web.op # "approve"
  <2>1. Loop' = Loop
    BY <1>2 DEF Loop
  <2>2. ~Unrelated(ram.registry)
    BY <1>2, UnrelatedRecords
  <2>3. RestsAlone' /\ ReturnsAlone' /\ SettlesOwned'
    BY <1>1, <1>2, <2>1, <2>2
       DEF AloneKept, RestsAlone, ReturnsAlone, SettlesOwned
  <2> QED BY <2>3 DEF AloneKept
<1>3. CASE /\ Loop'.op = "settle" /\ recon' = recon
           /\ Loop'.todo = <<"config", "directory", "membership">>
  <2>1. ~Omits(Loop'.todo, "config") /\ ~Fine'
    BY <1>1, <1>3 DEF Omits, Fine
  <2>2. RestsAlone' /\ ReturnsAlone' /\ SettlesOwned'
    BY <1>1, <2>1 DEF AloneKept, RestsAlone, ReturnsAlone, SettlesOwned
  <2> QED BY <2>2 DEF AloneKept
<1>4. ~(Web.op = "approve" /\ broken' = broken \cup {"settle"})
  OBVIOUS
<1> QED BY <1>1, <1>2, <1>3, <1>4

LEMMA DeferAlone ==
  ASSUME RecordInv, AloneKept, DeferMembership
  PROVE  AloneKept'
<1>0. JobsInv /\ {"web", "loop"} = Task /\ "none" \notin Leased
  BY Tasks DEF RecordInv, HeldInv
<1>1. /\ Web'.op = "none" /\ Loop' = Loop /\ ram' = ram
      /\ recon' = IF Related(ram) = {} THEN "pending" ELSE "not_required"
  BY <1>0, DeferredJob, IdleType DEF Others, Web, Loop
<1>2. RestsAlone'
  BY <1>1, UnrelatedRecords DEF RestsAlone, Fine
<1>3. ReturnsAlone' /\ SettlesOwned'
  BY <1>0, <1>1 DEF AloneKept, ReturnsAlone, SettlesOwned
<1> QED BY <1>2, <1>3 DEF AloneKept

LEMMA CutAlone ==
  ASSUME RecordInv, SiteSound, PowerCut, broken' = {}
  PROVE  AloneKept'
<1>0. /\ JobsInv /\ StoresAgree /\ {"web", "loop"} = Task /\ flash \in Disk
      /\ "none" \notin Leased
  BY Tasks DEF RecordInv, HeldInv
<1>1. /\ Web'.op = "none" /\ Loop'.op = "none" /\ Web.op = "none"
      /\ Loop.op = "none"
      /\ ram' = Repaired(flash) /\ recon' = Scheduled(flash)
  BY <1>0, CutJobs, IdleType DEF Web, Loop, Busy
<1>2. Loaded(flash)
  <2>1. Loaded(ram)
    BY <1>1 DEF SiteSound, Moved
  <2>2. /\ flash["config"] = ram["config"]
        /\ flash["membership"] = ram["membership"]
    BY <1>0 DEF StoresAgree
  <2> QED BY <2>1, <2>2, Fields DEF Loaded, SameSite
<1>3. ram'.registry = flash.registry
  <2>1. Repaired(flash)["registry"] = flash["registry"]
    BY <1>0, RepairedStores DEF Relations
  <2> QED BY <1>1, <2>1, Fields
<1>4. Unrelated(ram'.registry) => ~Fine'
  BY <1>1, <1>2, <1>3, UnrelatedRecords DEF Scheduled, Fine
<1> QED BY <1>0, <1>1, <1>4
        DEF AloneKept, RestsAlone, ReturnsAlone, SettlesOwned

LEMMA PullAlone ==
  ASSUME RecordInv, AloneKept, NEW p \in Node, PullConfiguration(p)
  PROVE  AloneKept'
<1>0. JobsInv /\ StoresAgree /\ {"web", "loop"} = Task
  BY Tasks DEF RecordInv, HeldInv
<1>1. /\ ram'["registry"] = ram["registry"] /\ ram.config.owner = Unresolved
      /\ p \in Participant /\ ram.registry[p] = "quarantined"
      /\ recon' = recon /\ job' = job
  BY <1>0, PulledStores DEF Relations
<1>2. ram'.registry = ram.registry /\ Web' = Web /\ Loop' = Loop
  BY <1>1, Fields DEF Web, Loop
<1>3. ~Unrelated(ram.registry) /\ ~Solitary(ram)
  BY <1>1, OwnerAssumption, UnrelatedRecords DEF Gone, Solitary, OwnedHere
<1>4. Loop.op = "none"
  BY DEF PullConfiguration, Busy, Loop
<1> QED BY <1>1, <1>2, <1>3, <1>4
        DEF AloneKept, RestsAlone, ReturnsAlone, SettlesOwned, Fine

LEMMA AloneStep ==
  ASSUME AloneInv, [Next]_vars
  PROVE  AloneInv'
<1>0. SiteInv' /\ broken \subseteq broken'
  BY SiteStep, BrokenGrows DEF AloneInv
<1> SUFFICES ASSUME broken' = {} PROVE AloneKept'
  BY <1>0 DEF AloneInv
<1>1. /\ broken = {} /\ AloneKept /\ RecordInv /\ RelationsRestored
      /\ SiteSound /\ ~Hurt /\ RecordInv' /\ SiteSound'
  BY <1>0 DEF AloneInv, SiteInv, Hurt
<1>2. JobsInv /\ ram \in Disk /\ {"web", "loop"} = Task
  BY <1>1, Tasks DEF RecordInv, HeldInv
<1>3. CASE Operates
  BY <1>1, <1>2, <1>3, OperatesOpens, OpensAlone
<1>4. CASE Settle
  BY <1>1, <1>4, SettleAlone
<1>5. CASE DeferMembership
  BY <1>1, <1>5, DeferAlone
<1>6. CASE PowerCut
  BY <1>1, <1>6, CutAlone
<1>7. CASE Idles
  BY <1>1, <1>7, IdlesNothing
     DEF AloneKept, RestsAlone, ReturnsAlone, SettlesOwned, Web, Loop, Fine
<1>8. ASSUME NEW p \in Node, PullConfiguration(p) PROVE AloneKept'
  BY <1>1, <1>8, PullAlone
<1>9. ASSUME NEW t \in Task, Write(t) PROVE AloneKept'
  BY <1>1, <1>2, <1>9, EngineAlone, OwnerAlone, LoopAlone
<1>10. ASSUME NEW t \in Task, Refuse(t) \/ Fail(t) PROVE AloneKept'
  BY <1>1, <1>10, FailAlone
<1>11. ASSUME NEW t \in Task, Restore(t) \/ RestoreFails(t) PROVE AloneKept'
  BY <1>1, <1>11, RestoreAlone
<1> QED BY <1>3, <1>4, <1>5, <1>6, <1>7, <1>8, <1>9, <1>10, <1>11, StepCases

LEMMA AloneInit == Init => AloneInv
<1> SUFFICES ASSUME Init PROVE AloneInv
  OBVIOUS
<1>1. SiteInv /\ JobsInv /\ broken = {} /\ SiteSound
  BY SiteInit DEF Init, SiteInv, RecordInv, HeldInv, Hurt
<1>2. Web = Idle /\ Loop = Idle /\ "none" \notin Leased
  BY <1>1, Tasks DEF Init, Web, Loop
<1>3. Loaded(ram) /\ recon = Scheduled(ram)
  BY <1>1, <1>2, IdleType DEF Init, SiteSound, Moved
<1>4. Unrelated(ram.registry) => ~Fine
  BY <1>3, UnrelatedRecords DEF Scheduled, Fine
<1> QED BY <1>1, <1>2, <1>4, IdleType
        DEF AloneInv, AloneKept, RestsAlone, ReturnsAlone, SettlesOwned

(* AloneOwns holds for any numbers of participants and Sites: a device     *)
(* none of whose resets and pairings was cut short has its configuration,  *)
(* and one without relationships that has nothing left to reconcile owns   *)
(* the Site it is a standalone member of, on flash.                        *)
THEOREM AloneOwned == Spec => []AloneOwns
<1>1. AloneInv => AloneOwns
  <2> SUFFICES ASSUME AloneInv, Quiet, ~Hurt PROVE
                 /\ ready
                 /\ Related(ram) = {} /\ broken = {}
                      /\ recon \notin {"pending", "failed"} =>
                      /\ OwnedHere(flash) /\ SameSite(flash)
                      /\ flash.membership.mode = "standalone"
    BY DEF AloneOwns, Hurt
  <2>1. SiteSound /\ JobsInv /\ StoresAgree
    BY DEF AloneInv, SiteInv, RecordInv, HeldInv
  <2>2. Web.op = "none" /\ "none" \notin Refreshing \cup {"reset"}
    BY <2>1, Tasks DEF Quiet, Busy, Web, Refreshing
  <2>3. ASSUME Related(ram) = {}, broken = {}, Fine
        PROVE  Solitary(flash)
    <3>1. Solitary(ram)
      BY <2>2, <2>3, UnrelatedRecords DEF AloneInv, AloneKept, RestsAlone
    <3>2. /\ flash["config"] = ram["config"]
          /\ flash["membership"] = ram["membership"]
      BY <2>1 DEF StoresAgree
    <3> QED BY <3>1, <3>2, Fields DEF Solitary, OwnedHere, SameSite
  <2> QED BY <2>1, <2>3 DEF SiteSound, Solitary, Fine
<1>2. AloneInv /\ [Next]_vars => AloneInv'
  BY AloneStep
<1> QED BY <1>1, <1>2, AloneInit, PTL DEF Spec
=============================================================================
